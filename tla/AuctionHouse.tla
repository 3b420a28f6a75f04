---------------------------- MODULE AuctionHouse ----------------------------
(***************************************************************************)
(* The auction side of euro-platform-api: the bid and buy-now requests of  *)
(* BidService and the lifecycle calls and cron ticks of AuctionService run *)
(* interleaved on one Node.js process over one PostgreSQL database.        *)
(***************************************************************************)
EXTENDS BidService, AuctionService

CONSTANT MaxFaults    \* crashes and failed queries a behaviour may contain

ASSUME HouseAssumption == MaxFaults \in Nat

vars == <<storeVars, req, task>>

Init == StoreInit /\ BidInit /\ ServiceInit

\* The clock reaches the auction's end_date.
EndDatePasses(a) ==
  /\ row[a].state # "ABSENT"
  /\ a \notin ended
  /\ ended' = ended \union {a}
  /\ UNCHANGED <<row, terms, bids, notices, feed, faults, req, task>>

\* The process restarts: open transactions roll back, and what the handlers
\* were about to notify and emit is lost.
Crash ==
  /\ faults' = faults + 1
  /\ req' = [r \in Requests |-> NoRequest]
  /\ task' = [w \in Workers |-> NoTask]
  /\ UNCHANGED <<row, terms, ended, bids, notices, feed>>

Fault ==
  /\ faults < MaxFaults
  /\ \/ Crash
     \/ \E r \in Requests : CountFails(r) /\ UNCHANGED task
     \/ \E w \in Workers : SaveFails(w) /\ UNCHANGED req

BidNext == \E r \in Requests : (RequestArrives(r) \/ RequestStep(r)) /\ UNCHANGED task

ServiceNext ==
  /\ \/ \E w \in Managers : ManagerArrives(w)
     \/ \E w \in Ticks : CloseExpired(w)
     \/ \E w \in Workers : TaskStep(w)
  /\ UNCHANGED req

Next ==
  \/ BidNext
  \/ ServiceNext
  \/ \E a \in Auctions : EndDatePasses(a)
  \/ Fault

Spec == Init /\ [][Next]_vars

\* The event loop resumes whoever's query has returned, and the cron fires
\* every minute.  Nobody has to bid, buy, launch or end anything, and an
\* auction's end date may be beyond the horizon.
FairSpec ==
  /\ Spec
  /\ \A r \in Requests : WF_vars(RequestStep(r) /\ UNCHANGED task)
  /\ \A w \in Workers : WF_vars(TaskStep(w) /\ UNCHANGED req)
  /\ \A w \in Ticks : WF_vars(CloseExpired(w) /\ UNCHANGED req)

-----------------------------------------------------------------------------
(* Safety                                                                   *)

\* Every variable holds what the code can put there.
TypeOK == StoreTypeOK /\ BidTypeOK /\ ServiceTypeOK

LastAmount(s) == IF s = <<>> THEN Null ELSE s[Len(s)].amount

\* While an auction is LIVE its current_highest_bid column, which registerBid
\* compares against, is the amount of the last row of the bids table, and the
\* amounts of that table increase, although the two tables are read and
\* written by different queries and save() may write a stale entity back.
HighestIsLastBid ==
  \A a \in Auctions : row[a].state \in {"ABSENT", "LIVE"} =>
    /\ row[a].highest = LastAmount(bids[a])
    /\ \A i, j \in DOMAIN bids[a] : i < j => bids[a][i].amount < bids[a][j].amount

\* An auction is only ever SOLD on a bid that meets its reserve or pays its
\* buy-now price, however stale the entity that was saved.
SoldIsBacked ==
  \A a \in Auctions : row[a].state = "SOLD" =>
    \E i \in DOMAIN bids[a] :
      bids[a][i].amount >= terms[a].reserve \/ bids[a][i].amount = terms[a].buyNow

\* Whoever is told they were outbid did hold the highest bid just before the
\* bid they are told about, which is someone else's: previousBidderId, which
\* outlives a failed attempt of the transaction, never comes from one.
OutbidNoticesAreRight ==
  \A n \in notices : n.kind = "outbid" =>
    LET s == bids[n.auction] IN
    \E i \in DOMAIN s : /\ i > 1
                        /\ s[i].amount = n.amount
                        /\ s[i - 1].bidder = n.to
                        /\ s[i].bidder # n.to

\* The last bid of an auction that is no longer LIVE may be a purchase, for
\* which placeBid's notification is not due.
MayBePurchase(a, i) ==
  /\ i = Len(bids[a])
  /\ row[a].state # "LIVE"
  /\ bids[a][i].amount = terms[a].buyNow

\* Unless the process crashed, whoever is outbid is told, or the request that
\* outbid them is about to tell them.
OutbidBiddersAreTold ==
  \A a \in Auctions : \A i \in DOMAIN bids[a] :
    \/ i = 1
    \/ bids[a][i - 1].bidder = bids[a][i].bidder
    \/ MayBePurchase(a, i)
    \/ faults > 0
    \/ [kind |-> "outbid", to |-> bids[a][i - 1].bidder, auction |-> a,
        amount |-> bids[a][i].amount] \in notices
    \/ \E r \in Requests : /\ req[r].pc = "notify"
                           /\ req[r].auction = a
                           /\ req[r].amount = bids[a][i].amount

InFlight == \E r \in Requests : req[r].pc # "idle"

RoomEvents(a, type) == {i \in DOMAIN feed[a] : feed[a][i].type = type}

\* Once no request is under way and nothing failed, the room has been sent
\* every bid, and one of its events counts all of them: the count is queried
\* after the commit, by each request for itself.
RoomHasEveryBid ==
  InFlight \/ faults > 0 \/
  \A a \in Auctions : bids[a] # <<>> =>
    /\ \A b \in DOMAIN bids[a] : \E i \in RoomEvents(a, "bidPlaced") :
         feed[a][i].amount = bids[a][b].amount
    /\ \E i \in RoomEvents(a, "bidPlaced") : feed[a][i].count = Len(bids[a])

-----------------------------------------------------------------------------
(* What a step may never do                                                 *)

\* Once a room has been told that its auction closed, no bid is accepted any
\* more, not even one whose transaction read the auction before.
AnnouncedCloseEndsBidding ==
  [][\A a \in Auctions : RoomEvents(a, "auctionClosed") # {} => bids'[a] = bids[a]]_vars

\* A launched auction keeps its prices and is never LIVE again after it
\* closed, whichever launch, save or transaction is still on its way.
NeverRelaunched ==
  [][\A a \in Auctions : row[a].state # "ABSENT" =>
       /\ terms'[a] = terms[a]
       /\ row'[a].state = "LIVE" => row[a].state = "LIVE"]_vars

-----------------------------------------------------------------------------
(* Refinement: the bids are those of an atomic ledger                       *)

Phase(state) == CASE state = "ABSENT" -> "none"
                  [] state = "LIVE"   -> "open"
                  [] OTHER            -> "closed"

Ledger == INSTANCE AuctionLedger WITH
  MinFirstBid <- MinStartingBid,
  NoPrice     <- Null,
  phase       <- [a \in Auctions |-> Phase(row[a].state)],
  price       <- [a \in Auctions |-> terms[a].buyNow],
  ledger      <- bids

\* Every behaviour of the services is, as far as launches, bids, purchases
\* and the end of bidding go, one of the atomic ledger.
ImplementsLedger == Ledger!LedgerSpec

-----------------------------------------------------------------------------
(* Liveness                                                                 *)

\* Every bid and buy-now request is answered: it commits, is refused, or gives
\* up after its third serialization failure.
RequestsComplete == \A r \in Requests : req[r].pc # "idle" ~> req[r].pc = "idle"

\* The cron closes every auction whose end date has passed, even when a tick
\* crashes or fails half way through its list.
ExpiredAuctionsClose ==
  \A a \in Auctions :
    (row[a].state = "LIVE" /\ a \in ended) ~> row[a].state \in TerminalStates

\* Unless something failed, the room of a closed auction is told so.
ClosesAreAnnounced ==
  \A a \in Auctions : row[a].state \in TerminalStates
                        ~> (RoomEvents(a, "auctionClosed") # {} \/ faults > 0)

-----------------------------------------------------------------------------
(* What the code's comments say and the program does not do                 *)

\* "State transitions are guarded here": a closed auction never changes state
\* again, since sell, expire and cancel all require LIVE.
ClosedStateIsFinal ==
  [][\A a \in Auctions : row[a].state \in TerminalStates =>
       row'[a].state = row[a].state]_vars
=============================================================================
