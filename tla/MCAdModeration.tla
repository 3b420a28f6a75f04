--------------------------- MODULE MCAdModeration ---------------------------
(***************************************************************************)
(* Small instances of AdModeration for TLC.                                *)
(***************************************************************************)
EXTENDS AdModeration, TLC

Symmetry == Permutations(Handlers) \union Permutations(Ads) \union Permutations(Texts)
=============================================================================
