--------------------------- MODULE MCAuctionHouse ---------------------------
(***************************************************************************)
(* Finite instances of AuctionHouse.  One seller owns every ad; b1 and b2  *)
(* bid.  The amounts are the code's own: 400 is below the smallest opening *)
(* bid of 500.                                                             *)
(***************************************************************************)
EXTENDS AuctionHouse, TLC

CONSTANTS seller, b1, b2

MCSeller == [a \in Auctions |-> seller]

\* A buy-now price below the reserve and below a possible bid, so that a
\* purchase can undercut the current highest bid.
LowBuyNow == {[reserve |-> 600, buyNow |-> 500]}

NoBuyNow == {[reserve |-> 600, buyNow |-> Null]}

\* Two ways to launch the same ad.
EitherTerms == LowBuyNow \union NoBuyNow

\* Bidders, requests and managers of a run without liveness are interchangeable.
Symmetry == Permutations({b1, b2}) \union Permutations(Requests) \union Permutations(Managers)
=============================================================================
