----------------------------- MODULE MCSession -----------------------------
(***************************************************************************)
(* Finite instances of Session.  The lengths keep the order of the code's  *)
(* own: lead (2 min) < one hour < the longest timeout (20 days) < 30 days. *)
(***************************************************************************)
EXTENDS Session, TLC

\* Tabs are interchangeable: no run of Session checks liveness.
Symmetry == Permutations(Tabs)
=============================================================================
