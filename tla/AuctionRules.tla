---------------------------- MODULE AuctionRules ----------------------------
(***************************************************************************)
(* The decisions of the Auction entity: pure functions of a loaded         *)
(* auctions row.  Amounts are whole euros; only their order matters to the *)
(* entity.                                                                 *)
(***************************************************************************)
EXTENDS Integers

\* A nullable column holding null.  Amounts and prices are positive (the DTOs
\* declare them @IsPositive), so 0 is free to stand for "no value", which is
\* also how buyNow reads a missing price (`!auction.buyNowPrice`).
Null == 0

\* MIN_STARTING_BID: the first bid clears twice the smallest commission.
MinCommission == 250
MinStartingBid == MinCommission * 2

\* AuctionState, and ABSENT for an ad whose auction row is not inserted yet.
TerminalStates == {"SOLD", "EXPIRED", "CANCELLED"}
AuctionStates == {"ABSENT", "LIVE"} \union TerminalStates

-----------------------------------------------------------------------------
\* Auction.registerBid accepts the amount on the loaded entity e.
RegisterBidAllowed(e, amount) ==
  /\ e.state = "LIVE"
  /\ e.highest = Null => amount >= MinStartingBid
  /\ e.highest # Null => amount > e.highest

\* Auction.finalize with the reserve comparison dropped.
FinalizeIgnoringReserve(e, reserve) ==
  IF e.highest # Null THEN "SOLD" ELSE "EXPIRED"

\* The state Auction.finalize moves a LIVE entity to.
Finalized(e, reserve) ==
  IF e.highest # Null /\ e.highest >= reserve THEN "SOLD" ELSE "EXPIRED"

\* The state endManually moves a LIVE entity to: no bid yet is a withdrawal.
EndedManually(e, reserve) ==
  IF e.highest = Null THEN "CANCELLED" ELSE Finalized(e, reserve)
=============================================================================
