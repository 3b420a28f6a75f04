------------------------- MODULE AuctionCloseProofs -------------------------
(***************************************************************************)
(* What closing an auction means and what bidders and rooms are told, for  *)
(* all constants: an auction is launched once, an announced close ends its *)
(* bidding, a SOLD one was paid for; an outbid notice names the bidder who *)
(* was outbid, nobody outbid is forgotten, and a room hears of every bid;  *)
(* and a closed state is final where nobody else closes meanwhile.         *)
(*                                                                         *)
(* The first follows from how rows evolve. The next two need to know more  *)
(* of whoever closes: a purchase past its commit and a task past its save  *)
(* left a closed row behind, and a task that will save SOLD saw a bid that *)
(* is still there, because bids are only ever appended.                    *)
(*                                                                         *)
(* For the last three, a request remembers the bidder it displaces from    *)
(* the snapshot it read. That memory is right as long as the snapshot is   *)
(* current, because the bids of an auction never change without its row's  *)
(* version; once the bid is committed it keeps its place behind the        *)
(* displaced one.                                                          *)
(***************************************************************************)
EXTENDS AuctionHouseProofs

\* A launched auction keeps its prices and is never LIVE again after it closed
\* (launch, the saves of endManually and closeExpired, placeBid and buyNow).
THEOREM LaunchedOnce == Spec => NeverRelaunched
<1> DEFINE Kept == \A a \in Auctions : row[a].state # "ABSENT" =>
                     /\ terms'[a] = terms[a]
                     /\ row'[a].state = "LIVE" => row[a].state = "LIVE"
<1>1. IndInv /\ [Next]_vars => [Kept]_vars
  <2> SUFFICES ASSUME IndInv, [Next]_vars PROVE Kept
    OBVIOUS
  <2>1. TablesStep
    BY TablesNext
  <2>2. \A a \in Auctions : row[a].state \in AuctionStates
    BY DEF IndInv, TypeOK, StoreTypeOK, Row
  <2> QED
    BY <2>1, <2>2 DEF TablesStep, Evolves, AuctionStates, TerminalStates
<1> QED
  BY <1>1, IndInvAlways, PTL DEF Spec, NeverRelaunched

-----------------------------------------------------------------------------
(* How the bids of an auction change                                        *)

Grows(t, u) == \A i \in DOMAIN t : i \in DOMAIN u /\ u[i] = t[i]

\* A step leaves every bid in its place; when it adds one, it found the
\* auction LIVE.
LEMMA BidsGrow ==
  ASSUME IndInv, [Next]_vars, NEW a \in Auctions
  PROVE  /\ Grows(bids[a], bids'[a])
         /\ bids'[a] # bids[a] => row[a].state = "LIVE"
<1>1. CASE bids' = bids
  BY <1>1 DEF Grows
<1>2. ASSUME NEW r \in Requests, PlaceBidCommits(r) \/ BuyNowCommits(r)
      PROVE  /\ Grows(bids[a], bids'[a])
             /\ bids'[a] # bids[a] => row[a].state = "LIVE"
  <2> DEFINE q == req[r]
             b == [bidder |-> q.user, amount |-> q.amount]
  <2>1. q.pc = "write" /\ SnapshotCurrent(q)
    BY <1>2 DEF PlaceBidCommits, BuyNowCommits
  <2>2. q.auction \in Auctions /\ row[q.auction].state = "LIVE"
    BY <2>1 DEF IndInv, TypeOK, BidTypeOK, RequestOK, RequestInv, SnapshotCurrent
  <2>3. bids' = [bids EXCEPT ![q.auction] = Append(bids[q.auction], b)]
    BY <1>2 DEF PlaceBidCommits, BuyNowCommits, CommitBid
  <2>4. bids \in [Auctions -> Seq(Bid)]
    BY DEF IndInv, TypeOK, StoreTypeOK
  <2> HIDE DEF b
  <2>5. Grows(bids[q.auction], Append(bids[q.auction], b))
    BY <2>2, <2>4 DEF Grows
  <2>6. CASE a = q.auction
    BY <2>2, <2>3, <2>4, <2>5, <2>6
  <2>7. CASE a # q.auction
    BY <2>3, <2>4, <2>7 DEF Grows
  <2> QED
    BY <2>6, <2>7
<1> QED
  BY <1>1, <1>2
     DEF Next, BidNext, ServiceNext, EndDatePasses, Fault, Crash, CountFails, SaveFails, vars,
         storeVars, RequestArrives, PlaceBid, BuyNow, Receive, RequestStep, PlaceBidReads,
         BuyNowReads, SerializationFailure, NotifyOutbid, NotifySold, CountBids, EmitBidPlaced,
         EmitSold, ManagerArrives, LaunchChecks, EndManually, CloseExpired, TaskStep,
         LaunchInserts, NextExpired, SaveSelects, SaveUpdates, Announce

-----------------------------------------------------------------------------
(* An announced close ends the bidding                                      *)

Purchased(q) ==
  q.pc = "emitClosed" \/ (q.op = "buyNow" /\ q.pc \in {"notify", "count", "emit"})

CloseInv ==
  /\ IndInv
  /\ \A a \in Auctions : RoomEvents(a, "auctionClosed") # {} => row[a].state \in TerminalStates
  /\ \A r \in Requests : Purchased(req[r]) => row[req[r].auction].state \in TerminalStates
  /\ \A w \in Workers : task[w].pc = "announce" =>
                          row[task[w].auction].state \in TerminalStates

\* A room that has an auctionClosed event had one before, or was just sent it.
LEMMA EmittedClose ==
  ASSUME StoreTypeOK, NEW b \in Auctions, NEW e \in Event, EmitTo(b, e),
         NEW a \in Auctions, RoomEvents(a, "auctionClosed")' # {}
  PROVE  RoomEvents(a, "auctionClosed") # {} \/ (a = b /\ e.type = "auctionClosed")
<1>1. feed \in [Auctions -> Seq(Event)]
  BY DEF StoreTypeOK
<1>2. feed'[a] = IF a = b THEN Append(feed[a], e) ELSE feed[a]
  BY <1>1 DEF EmitTo
<1>3. PICK i \in DOMAIN feed'[a] : feed'[a][i].type = "auctionClosed"
  BY DEF RoomEvents
<1>4. CASE i \in DOMAIN feed[a] /\ feed'[a][i] = feed[a][i]
  BY <1>3, <1>4 DEF RoomEvents
<1>5. CASE a = b /\ feed'[a][i] = e
  BY <1>3, <1>5
<1>6. CASE a # b
  BY <1>2, <1>3, <1>6 DEF RoomEvents
<1> QED
  <2>1. CASE a = b
    <3>1. feed[a] \in Seq(Event) /\ feed'[a] = Append(feed[a], e)
      BY <1>1, <1>2, <2>1
    <3>2. \/ i \in DOMAIN feed[a] /\ feed'[a][i] = feed[a][i]
          \/ feed'[a][i] = e
      BY <1>3, <3>1
    <3> QED
      BY <1>4, <1>5, <2>1, <3>2
  <2> QED
    BY <1>6, <2>1

\* A closed row stays closed.
LEMMA ClosedStays ==
  ASSUME IndInv, [Next]_vars, NEW a \in Auctions, row[a].state \in TerminalStates
  PROVE  row'[a].state \in TerminalStates
  BY TablesNext DEF TablesStep, Evolves

\* Until its transaction commits a request is idle, about to read or to write.
LEMMA EarlySteps ==
  ASSUME TypeOK, NEW x \in Requests,
         RequestArrives(x) \/ PlaceBidReads(x) \/ BuyNowReads(x) \/ SerializationFailure(x)
  PROVE  req'[x].pc \in {"idle", "begin", "write"}
<1> DEFINE q == req[x]
           Early == req'[x].pc \in {"idle", "begin", "write"}
<1>1. q \in Request
  BY DEF TypeOK, BidTypeOK
<1>2. CASE RequestArrives(x)
  BY <1>2 DEF RequestArrives, PlaceBid, BuyNow, Receive, NoRequest, TypeOK, BidTypeOK
<1>3. ASSUME Finish(x) PROVE Early
  BY <1>3 DEF Finish, NoRequest, TypeOK, BidTypeOK
<1>4. CASE PlaceBidReads(x)
  <2>1. CASE BidAcceptable(q.user, q.auction, q.amount)
    BY <1>1, <1>4, <2>1 DEF PlaceBidReads, Request, TypeOK, BidTypeOK
  <2> QED
    BY <1>3, <1>4, <2>1 DEF PlaceBidReads
<1>5. CASE BuyNowReads(x)
  <2>1. CASE PurchaseAcceptable(q.user, q.auction)
    BY <1>1, <1>5, <2>1 DEF BuyNowReads, Request, TypeOK, BidTypeOK
  <2> QED
    BY <1>3, <1>5, <2>1 DEF BuyNowReads
<1>6. CASE SerializationFailure(x)
  <2>1. CASE RetriesLeft(q)
    BY <1>1, <1>6, <2>1 DEF SerializationFailure, Request, TypeOK, BidTypeOK
  <2> QED
    BY <1>3, <1>6, <2>1 DEF SerializationFailure
<1> QED
  BY <1>2, <1>4, <1>5, <1>6

\* Only BuyNowCommits starts a purchase's announcements, and it closes the row.
LEMMA PurchasedNext ==
  ASSUME CloseInv, [Next]_vars, NEW x \in Requests, Purchased(req'[x])
  PROVE  row'[req'[x].auction].state \in TerminalStates
<1> DEFINE q == req[x]
           Goal == row'[req'[x].auction].state \in TerminalStates
<1>1. TypeOK /\ IndInv
  BY DEF CloseInv, IndInv
<1>2. q \in Request /\ RequestOK(q)
  BY <1>1 DEF TypeOK, BidTypeOK
<1>3. ASSUME Purchased(q), req'[x].auction = q.auction PROVE Goal
  <2>1. q.auction \in Auctions
    BY <1>2, <1>3 DEF Purchased, RequestOK
  <2> QED
    BY <1>1, <1>3, <2>1, ClosedStays DEF CloseInv
<1>4. CASE req'[x] = q
  BY <1>3, <1>4
<1>5. CASE req'[x].pc \in {"idle", "begin", "write"}
  BY <1>5 DEF Purchased
<1>6. CASE RequestArrives(x) \/ PlaceBidReads(x) \/ BuyNowReads(x) \/ SerializationFailure(x)
  BY <1>1, <1>5, <1>6, EarlySteps
<1>7. CASE PlaceBidCommits(x)
  <2>1. req'[x].pc = "notify" /\ req'[x].op = "bid"
    BY <1>1, <1>2, <1>7 DEF PlaceBidCommits, CommitBid, TypeOK, BidTypeOK, Request
  <2> QED
    BY <2>1 DEF Purchased
<1>8. CASE BuyNowCommits(x)
  <2> DEFINE e == [q.snap EXCEPT !.highest = q.amount, !.state = "SOLD", !.closedAt = TRUE]
  <2>1. q.auction \in Auctions
    BY <1>2, <1>8 DEF BuyNowCommits, RequestOK
  <2>2. req'[x].auction = q.auction /\ row' = [row EXCEPT ![q.auction] = Updated(@, e, Columns)]
    BY <1>1, <1>2, <1>8 DEF BuyNowCommits, CommitBid, TypeOK, BidTypeOK, Request
  <2>3. e.state = "SOLD"
    BY <1>2 DEF Request, Row
  <2>4. row'[q.auction].state = "SOLD"
    BY <1>1, <2>1, <2>2, <2>3 DEF Updated, Columns, TypeOK, StoreTypeOK
  <2> QED
    BY <2>2, <2>4 DEF TerminalStates
<1>9. CASE NotifyOutbid(x) \/ NotifySold(x)
  <2>1. /\ req'[x].pc = "count" /\ req'[x].op = q.op /\ req'[x].auction = q.auction
        /\ q.pc = "notify"
    BY <1>1, <1>2, <1>9 DEF NotifyOutbid, NotifySold, Goto, TypeOK, BidTypeOK, Request
  <2> QED
    BY <1>3, <2>1 DEF Purchased
<1>10. CASE CountBids(x)
  <2>1. /\ req'[x].pc = "emit" /\ req'[x].op = q.op /\ req'[x].auction = q.auction
        /\ q.pc = "count"
    BY <1>1, <1>2, <1>10 DEF CountBids, TypeOK, BidTypeOK, Request
  <2> QED
    BY <1>3, <2>1 DEF Purchased
<1>11. CASE EmitBidPlaced(x)
  <2>1. CASE q.op = "buyNow"
    <3>1. req'[x].auction = q.auction /\ q.pc = "emit"
      BY <1>1, <1>2, <1>11, <2>1 DEF EmitBidPlaced, Goto, TypeOK, BidTypeOK, Request
    <3> QED
      BY <1>3, <2>1, <3>1 DEF Purchased
  <2>2. CASE q.op # "buyNow"
    BY <1>1, <1>5, <1>11, <2>2 DEF EmitBidPlaced, Finish, NoRequest, TypeOK, BidTypeOK
  <2> QED
    BY <2>1, <2>2
<1>12. CASE EmitSold(x) \/ CountFails(x)
  BY <1>1, <1>5, <1>12 DEF EmitSold, CountFails, Finish, NoRequest, TypeOK, BidTypeOK
<1>13. ASSUME NEW r \in Requests, RequestArrives(r) \/ RequestStep(r) \/ CountFails(r)
       PROVE  Goal
  <2>1. CASE x # r
    BY <1>1, <1>4, <1>13, <2>1, OtherRequests
  <2>2. CASE x = r
    BY <1>6, <1>7, <1>8, <1>9, <1>10, <1>11, <1>12, <1>13, <2>2 DEF RequestStep
  <2> QED
    BY <2>1, <2>2
<1>14. CASE req' = req
  BY <1>4, <1>14
<1>15. CASE Crash
  BY <1>5, <1>15 DEF Crash, NoRequest
<1> QED
  BY <1>13, <1>14, <1>15 DEF Next, BidNext, ServiceNext, EndDatePasses, Fault, vars

\* A task only announces after its save, which found or left the row closed.
LEMMA AnnouncingNext ==
  ASSUME CloseInv, [Next]_vars, NEW x \in Workers, task'[x].pc = "announce"
  PROVE  row'[task'[x].auction].state \in TerminalStates
<1> DEFINE t == task[x]
           Goal == row'[task'[x].auction].state \in TerminalStates
<1>1. TypeOK /\ IndInv
  BY DEF CloseInv, IndInv
<1>2. t \in Task /\ TaskOK(t) /\ TaskInv(t, row)
  BY <1>1 DEF TypeOK, ServiceTypeOK, IndInv
<1>3. CASE task'[x] = t
  <2>1. t.auction \in Auctions
    BY <1>2, <1>3 DEF TaskOK
  <2> QED
    BY <1>1, <1>3, <2>1, ClosedStays DEF CloseInv
<1>4. CASE SaveSelects(x)
  <2>1. /\ t.pc = "select" /\ task'[x].auction = t.auction
        /\ Differing(t.entity, row[t.auction]) = {}
        /\ row' = row
    BY <1>1, <1>2, <1>4 DEF SaveSelects, TypeOK, ServiceTypeOK, Task, storeVars
  <2>2. t.entity.state = row[t.auction].state
    BY <2>1 DEF Differing, Columns
  <2> QED
    BY <1>2, <2>1, <2>2 DEF TaskOK
<1>5. CASE SaveUpdates(x)
  <2>1. /\ t.pc = "update" /\ task'[x].auction = t.auction /\ t.auction \in Auctions
        /\ row' = [row EXCEPT ![t.auction] = SavedRow(@, t.entity, t.cols)]
    BY <1>1, <1>2, <1>5 DEF SaveUpdates, TypeOK, ServiceTypeOK, Task, TaskOK
  <2>2. row'[t.auction].state = IF "state" \in t.cols THEN t.entity.state ELSE row[t.auction].state
    BY <1>1, <2>1 DEF SavedRow, Updated, TypeOK, StoreTypeOK
  <2> QED
    BY <1>2, <2>1, <2>2 DEF TaskOK, TaskInv
<1>6. ASSUME NEW w \in Managers, ManagerArrives(w) PROVE Goal
  <2>1. task'[x] = t \/ task'[x].pc \in {"insert", "select"}
    BY <1>1, <1>6
       DEF ManagerArrives, LaunchChecks, EndManually, NoTask, TypeOK, ServiceTypeOK
  <2> QED
    BY <1>3, <2>1
<1>7. ASSUME NEW w \in Ticks, CloseExpired(w) PROVE Goal
  <2>1. task'[x] = t \/ task'[x].pc = "next"
    BY <1>1, <1>7 DEF CloseExpired, NoTask, TypeOK, ServiceTypeOK
  <2> QED
    BY <1>3, <2>1
<1>8. ASSUME NEW w \in Workers, TaskStep(w) PROVE Goal
  <2>1. CASE x # w
    <3>1. task'[x] = t
      BY <1>1, <1>8, <2>1
         DEF TaskStep, LaunchInserts, NextExpired, SaveSelects, SaveUpdates, Announce, Drop,
             TypeOK, ServiceTypeOK
    <3> QED
      BY <1>3, <3>1
  <2>2. CASE x = w
    <3>1. ASSUME NEW l \in t.todo, NextExpired(x, l) PROVE FALSE
      BY <1>1, <1>2, <3>1 DEF NextExpired, TypeOK, ServiceTypeOK, Task
    <3>2. ASSUME NEW past \in BOOLEAN, LaunchInserts(x, past) PROVE FALSE
      BY <1>1, <3>2 DEF LaunchInserts, Drop, NoTask, TypeOK, ServiceTypeOK
    <3>3. ASSUME Announce(x) PROVE FALSE
      BY <1>1, <3>3 DEF Announce, NoTask, TypeOK, ServiceTypeOK
    <3> QED
      BY <1>4, <1>5, <1>8, <2>2, <3>1, <3>2, <3>3 DEF TaskStep
  <2> QED
    BY <2>1, <2>2
<1>9. CASE Fault
  <2>1. task'[x] = t
    BY <1>1, <1>9 DEF Fault, Crash, SaveFails, Drop, NoTask, TypeOK, ServiceTypeOK
  <2> QED
    BY <1>3, <2>1
<1> QED
  BY <1>3, <1>6, <1>7, <1>8, <1>9 DEF Next, BidNext, ServiceNext, EndDatePasses, vars

\* A room is only told of a close once the row is closed.
LEMMA RoomNext ==
  ASSUME CloseInv, [Next]_vars, NEW a \in Auctions, RoomEvents(a, "auctionClosed")' # {}
  PROVE  row'[a].state \in TerminalStates
<1> DEFINE Goal == row'[a].state \in TerminalStates
<1>1. TypeOK /\ IndInv /\ StoreTypeOK
  BY DEF CloseInv, IndInv, TypeOK
<1>2. CASE RoomEvents(a, "auctionClosed") # {} \/ row[a].state \in TerminalStates
  BY <1>1, <1>2, ClosedStays DEF CloseInv
<1>3. CASE feed' = feed
  BY <1>2, <1>3 DEF RoomEvents
<1>4. ASSUME NEW r \in Requests, EmitBidPlaced(r) PROVE Goal
  <2> DEFINE q == req[r]
             e == [type |-> "bidPlaced", amount |-> q.amount, count |-> q.count]
  <2>1. q.auction \in Auctions /\ e \in Event
    BY <1>1, <1>4 DEF EmitBidPlaced, TypeOK, BidTypeOK, RequestOK, Request, Event
  <2> QED
    BY <1>1, <1>2, <1>4, <2>1, EmittedClose DEF EmitBidPlaced
<1>5. ASSUME NEW r \in Requests, EmitSold(r) PROVE Goal
  <2> DEFINE q == req[r]
             e == [type |-> "auctionClosed", state |-> "SOLD"]
  <2>1. q.auction \in Auctions /\ e \in Event /\ Purchased(q)
    BY <1>1, <1>5 DEF EmitSold, TypeOK, BidTypeOK, RequestOK, Event, Purchased, TerminalStates
  <2>2. row[q.auction].state \in TerminalStates
    BY <2>1 DEF CloseInv
  <2>3. RoomEvents(a, "auctionClosed") # {} \/ a = q.auction
    BY <1>1, <1>5, <2>1, EmittedClose DEF EmitSold
  <2> QED
    BY <1>2, <2>2, <2>3
<1>6. ASSUME NEW w \in Workers, Announce(w) PROVE Goal
  <2> DEFINE t == task[w]
             e == [type |-> "auctionClosed", state |-> t.entity.state]
  <2>1. t.auction \in Auctions /\ e \in Event
    BY <1>1, <1>6 DEF Announce, TypeOK, ServiceTypeOK, TaskOK, Event
  <2>2. row[t.auction].state \in TerminalStates
    BY <1>6 DEF CloseInv, Announce
  <2>3. RoomEvents(a, "auctionClosed") # {} \/ a = t.auction
    BY <1>1, <1>6, <2>1, EmittedClose DEF Announce
  <2> QED
    BY <1>2, <2>2, <2>3
<1>7. CASE BidNext
  BY <1>3, <1>4, <1>5, <1>7
     DEF BidNext, RequestArrives, PlaceBid, BuyNow, Receive, RequestStep, PlaceBidReads,
         BuyNowReads, PlaceBidCommits, BuyNowCommits, CommitBid, SerializationFailure,
         NotifyOutbid, NotifySold, CountBids, storeVars
<1>8. CASE ServiceNext
  BY <1>3, <1>6, <1>8
     DEF ServiceNext, ManagerArrives, LaunchChecks, EndManually, CloseExpired, TaskStep,
         LaunchInserts, NextExpired, SaveSelects, SaveUpdates, storeVars
<1> QED
  BY <1>3, <1>7, <1>8
     DEF Next, EndDatePasses, Fault, Crash, CountFails, SaveFails, vars, storeVars

\* Initially no room was told anything and nobody is closing anything.
LEMMA CloseInvInit ==
  ASSUME Init
  PROVE  CloseInv
<1>1. \A a \in Auctions : RoomEvents(a, "auctionClosed") = {}
  BY DEF Init, StoreInit, RoomEvents
<1>2. \A r \in Requests : ~Purchased(req[r])
  BY DEF Init, BidInit, NoRequest, Purchased
<1>3. \A w \in Workers : task[w].pc # "announce"
  BY DEF Init, ServiceInit, NoTask
<1> QED
  BY <1>1, <1>2, <1>3, IndInvInit DEF CloseInv

\* CloseInv always holds.
LEMMA CloseInvAlways == Spec => []CloseInv
<1>1. Init => CloseInv
  BY CloseInvInit
<1>2. CloseInv /\ [Next]_vars => CloseInv'
  <2> SUFFICES ASSUME CloseInv, [Next]_vars PROVE CloseInv'
    OBVIOUS
  <2>1. IndInv'
    BY IndInvStep DEF CloseInv
  <2>2. \A a \in Auctions : RoomEvents(a, "auctionClosed")' # {} => row'[a].state \in TerminalStates
    BY RoomNext
  <2>3. \A r \in Requests : Purchased(req'[r]) => row'[req'[r].auction].state \in TerminalStates
    BY PurchasedNext
  <2>4. \A w \in Workers : task'[w].pc = "announce" =>
                             row'[task'[w].auction].state \in TerminalStates
    BY AnnouncingNext
  <2> QED
    BY <2>1, <2>2, <2>3, <2>4 DEF CloseInv, Purchased
<1> QED
  BY <1>1, <1>2, PTL DEF Spec

\* Once the room of an auction has been told that it closed, no bid is
\* accepted any more, not even one whose transaction had read it LIVE
\* (emitAuctionClosed in AuctionService and BidService).
THEOREM CloseEndsBidding == Spec => AnnouncedCloseEndsBidding
<1> DEFINE Frozen == \A a \in Auctions : RoomEvents(a, "auctionClosed") # {} => bids'[a] = bids[a]
<1>1. CloseInv /\ [Next]_vars => [Frozen]_vars
  BY BidsGrow DEF CloseInv, TerminalStates
<1> QED
  BY <1>1, CloseInvAlways, PTL DEF Spec, AnnouncedCloseEndsBidding

-----------------------------------------------------------------------------
(* A SOLD auction was paid for                                              *)

Paid(p, t) == \E i \in DOMAIN t : t[i].amount >= p.reserve \/ t[i].amount = p.buyNow

Recorded(amount, t) == \E i \in DOMAIN t : t[i].amount = amount

\* A task about to save, or that saved, SOLD has a bid to show for it, and so
\* will the entities a tick has still to finalize.
TaskBacked(t, ts, bs) ==
  /\ t.pc \in {"select", "update", "announce"} /\ t.entity.state = "SOLD" =>
       Paid(ts[t.auction], bs[t.auction])
  /\ \A l \in t.todo : l.entity.highest # Null => Recorded(l.entity.highest, bs[l.auction])

BackedInv ==
  /\ CloseInv
  /\ \A a \in Auctions : row[a].state = "SOLD" => Paid(terms[a], bids[a])
  /\ \A w \in Workers : TaskBacked(task[w], terms, bids)

\* A launched auction that was paid for stays so.
LEMMA PaidStays ==
  ASSUME IndInv, [Next]_vars, NEW a \in Auctions, row[a].state # "ABSENT",
         Paid(terms[a], bids[a])
  PROVE  Paid(terms'[a], bids'[a])
<1>1. terms'[a] = terms[a]
  BY TablesNext DEF TablesStep, Evolves
<1> QED
  BY <1>1, BidsGrow DEF Paid, Grows

\* The highest bid of a LIVE auction is one of its bids.
LEMMA HighestRecorded ==
  ASSUME IndInv, NEW a \in Auctions, row[a].state = "LIVE", row[a].highest # Null
  PROVE  Recorded(row[a].highest, bids[a])
<1>1. bids[a] \in Seq(Bid) /\ row[a].highest = LastAmount(bids[a])
  BY DEF IndInv, TypeOK, StoreTypeOK, AuctionInv
<1>2. bids[a] # <<>> /\ row[a].highest = bids[a][Len(bids[a])].amount
  BY <1>1 DEF LastAmount
<1>3. Len(bids[a]) \in DOMAIN bids[a]
  BY <1>1, <1>2
<1> QED
  BY <1>2, <1>3 DEF Recorded

\* What a task has to show is not taken from it by any step.
LEMMA BackedStays ==
  ASSUME BackedInv, [Next]_vars, NEW x \in Workers
  PROVE  TaskBacked(task[x], terms', bids')
<1> DEFINE t == task[x]
<1>1. CloseInv /\ IndInv /\ TaskBacked(t, terms, bids)
  BY DEF BackedInv, CloseInv
<1>2. t \in Task /\ TaskOK(t) /\ TaskInv(t, row)
  BY <1>1 DEF IndInv, TypeOK, ServiceTypeOK
<1>3. ASSUME t.pc \in {"select", "update", "announce"}, t.entity.state = "SOLD"
      PROVE  Paid(terms'[t.auction], bids'[t.auction])
  <2>1. t.auction \in Auctions /\ Paid(terms[t.auction], bids[t.auction])
    BY <1>1, <1>2, <1>3 DEF TaskOK, TaskBacked
  <2>2. row[t.auction].state # "ABSENT"
    BY <1>1, <1>2, <1>3 DEF TaskInv, CloseInv, TerminalStates
  <2> QED
    BY <1>1, <2>1, <2>2, PaidStays
<1>4. ASSUME NEW l \in t.todo, l.entity.highest # Null
      PROVE  Recorded(l.entity.highest, bids'[l.auction])
  <2>1. l.auction \in Auctions /\ Recorded(l.entity.highest, bids[l.auction])
    BY <1>1, <1>2, <1>4 DEF Task, Loaded, TaskBacked
  <2> QED
    BY <1>1, <2>1, BidsGrow DEF Recorded, Grows
<1> QED
  BY <1>3, <1>4 DEF TaskBacked

\* Nobody finalizes to SOLD without a bid to show.
LEMMA BackedNext ==
  ASSUME BackedInv, [Next]_vars, NEW x \in Workers
  PROVE  TaskBacked(task'[x], terms', bids')
<1> DEFINE t == task[x]
           Goal == TaskBacked(task'[x], terms', bids')
<1>1. CloseInv /\ IndInv /\ TypeOK
  BY DEF BackedInv, CloseInv, IndInv
<1>2. t \in Task /\ TaskOK(t)
  BY <1>1 DEF TypeOK, ServiceTypeOK
<1>3. TaskBacked(t, terms', bids')
  BY BackedStays
<1>4. CASE task'[x] = t
  BY <1>3, <1>4
<1>5. CASE task'[x].pc \in {"idle", "insert"} /\ task'[x].todo = {}
  BY <1>5 DEF TaskBacked
<1>6. CASE task'[x] = NoTask
  BY <1>5, <1>6 DEF NoTask
<1>7. ASSUME NEW u \in Users, NEW a \in Auctions, EndManually(x, u, a)
      PROVE  Goal
  <2>1. /\ task'[x].auction = a /\ task'[x].todo = {} /\ row[a].state = "LIVE"
        /\ task'[x].entity.state = EndedManually(row[a], terms[a].reserve)
        /\ terms' = terms /\ bids' = bids
    BY <1>1, <1>7 DEF EndManually, NoTask, storeVars, TypeOK, ServiceTypeOK, StoreTypeOK, Row
  <2>2. task'[x].entity.state = "SOLD" => row[a].highest # Null /\ row[a].highest >= terms[a].reserve
    BY <2>1 DEF EndedManually, Finalized
  <2>3. task'[x].entity.state = "SOLD" => Paid(terms[a], bids[a])
    BY <1>1, <2>1, <2>2, HighestRecorded DEF Recorded, Paid
  <2> QED
    BY <2>1, <2>3 DEF TaskBacked
<1>8. ASSUME CloseExpired(x) PROVE Goal
  <2> DEFINE todo == {[auction |-> a, entity |-> row[a]] : a \in ExpiredLive}
  <2>1. \A l \in todo : l.entity.highest # Null => Recorded(l.entity.highest, bids[l.auction])
    BY <1>1, HighestRecorded DEF ExpiredLive
  <2> HIDE DEF todo
  <2>2. task'[x].pc = "next" /\ task'[x].todo = todo /\ bids' = bids
    BY <1>1, <1>8 DEF CloseExpired, todo, NoTask, storeVars, TypeOK, ServiceTypeOK
  <2> QED
    BY <2>1, <2>2 DEF TaskBacked
<1>9. ASSUME NEW l \in t.todo, NextExpired(x, l) PROVE Goal
  <2>1. /\ task'[x].auction = l.auction /\ task'[x].todo = t.todo \ {l}
        /\ task'[x].entity.state = Finalized(l.entity, terms[l.auction].reserve)
        /\ terms' = terms /\ bids' = bids
    BY <1>1, <1>2, <1>9 DEF NextExpired, Task, Loaded, Row, storeVars, TypeOK, ServiceTypeOK
  <2>2. task'[x].entity.state = "SOLD" =>
          l.entity.highest # Null /\ l.entity.highest >= terms[l.auction].reserve
    BY <2>1 DEF Finalized
  <2>3. task'[x].entity.state = "SOLD" => Paid(terms[l.auction], bids[l.auction])
    BY <1>3, <2>1, <2>2 DEF TaskBacked, Recorded, Paid
  <2> QED
    BY <1>3, <2>1, <2>3 DEF TaskBacked
<1>10. CASE SaveSelects(x) \/ SaveUpdates(x)
  <2> DEFINE Same == /\ task'[x].auction = t.auction /\ task'[x].todo = t.todo
                     /\ task'[x].entity = t.entity /\ t.pc \in {"select", "update"}
  <2>1. ASSUME SaveSelects(x) PROVE Same
    BY <1>1, <1>2, <2>1 DEF SaveSelects, Task, TypeOK, ServiceTypeOK
  <2>2. ASSUME SaveUpdates(x) PROVE Same
    BY <1>1, <1>2, <2>2 DEF SaveUpdates, Task, TypeOK, ServiceTypeOK
  <2> QED
    BY <1>3, <1>10, <2>1, <2>2 DEF TaskBacked
<1>11. CASE Announce(x)
  <2>1. task'[x].pc \in {"idle", "next"} /\ task'[x].todo = t.todo
    BY <1>1, <1>2, <1>11 DEF Announce, NoTask, Task, TypeOK, ServiceTypeOK
  <2> QED
    BY <1>3, <2>1 DEF TaskBacked
<1>12. ASSUME NEW past \in BOOLEAN, LaunchInserts(x, past) PROVE Goal
  BY <1>1, <1>6, <1>12 DEF LaunchInserts, Drop, TypeOK, ServiceTypeOK
<1>13. ASSUME NEW u \in Users, NEW a \in Auctions, NEW p \in Terms, LaunchChecks(x, u, a, p)
       PROVE  Goal
  BY <1>1, <1>5, <1>13 DEF LaunchChecks, NoTask, TypeOK, ServiceTypeOK
<1>14. CASE ServiceNext
  <2>1. PICK w \in Workers : (w \in Managers /\ ManagerArrives(w)) \/ CloseExpired(w) \/ TaskStep(w)
    BY <1>14 DEF ServiceNext, Workers
  <2>2. CASE x # w
    <3>1. task'[x] = t
      BY <1>1, <2>1, <2>2
         DEF ManagerArrives, LaunchChecks, EndManually, CloseExpired, TaskStep, LaunchInserts,
             NextExpired, SaveSelects, SaveUpdates, Announce, Drop, TypeOK, ServiceTypeOK
    <3> QED
      BY <1>4, <3>1
  <2>3. CASE x = w
    BY <1>7, <1>8, <1>9, <1>10, <1>11, <1>12, <1>13, <2>1, <2>3 DEF ManagerArrives, TaskStep
  <2> QED
    BY <2>2, <2>3
<1>15. CASE Fault
  <2>1. task'[x] = t \/ task'[x] = NoTask
    BY <1>1, <1>15 DEF Fault, Crash, SaveFails, Drop, TypeOK, ServiceTypeOK
  <2> QED
    BY <1>4, <1>6, <2>1
<1> QED
  BY <1>4, <1>14, <1>15 DEF Next, BidNext, EndDatePasses, vars

\* A row only becomes SOLD by a purchase, which records its price, or by the
\* save of a task that has a bid to show.
LEMMA SoldNext ==
  ASSUME BackedInv, [Next]_vars, NEW a \in Auctions, row'[a].state = "SOLD"
  PROVE  Paid(terms'[a], bids'[a])
<1> DEFINE Goal == Paid(terms'[a], bids'[a])
<1>1. CloseInv /\ IndInv /\ TypeOK
  BY DEF BackedInv, CloseInv, IndInv
<1>2. CASE row[a].state = "SOLD"
  BY <1>1, <1>2, PaidStays DEF BackedInv
<1>3. CASE row' = row
  BY <1>2, <1>3
<1>4. ASSUME NEW r \in Requests, PlaceBidCommits(r) PROVE Goal
  <2>1. row'[a].state = row[a].state
    BY <1>1, <1>4
       DEF PlaceBidCommits, CommitBid, Updated, TypeOK, StoreTypeOK, BidTypeOK, RequestOK
  <2> QED
    BY <1>2, <2>1
<1>5. ASSUME NEW r \in Requests, BuyNowCommits(r) PROVE Goal
  <2> DEFINE q == req[r]
             b == [bidder |-> q.user, amount |-> q.amount]
  <2>1. /\ q.auction \in Auctions /\ q.amount = terms[q.auction].buyNow
        /\ terms' = terms /\ bids' = [bids EXCEPT ![q.auction] = Append(bids[q.auction], b)]
    BY <1>1, <1>5
       DEF BuyNowCommits, CommitBid, IndInv, RequestInv, TypeOK, BidTypeOK, RequestOK
  <2>2. CASE a # q.auction
    <3>1. row'[a] = row[a]
      BY <1>1, <1>5, <2>2 DEF BuyNowCommits, CommitBid, TypeOK, StoreTypeOK
    <3> QED
      BY <1>2, <3>1
  <2>3. CASE a = q.auction
    <3>1. bids[a] \in Seq(Bid) /\ bids'[a] = Append(bids[a], b)
      BY <1>1, <2>1, <2>3 DEF TypeOK, StoreTypeOK
    <3> HIDE DEF b
    <3>2. /\ Len(bids[a]) + 1 \in DOMAIN bids'[a]
          /\ bids'[a][Len(bids[a]) + 1] = b
      BY <3>1
    <3>3. b.amount = terms'[a].buyNow
      BY <2>1, <2>3 DEF b
    <3> QED
      BY <3>2, <3>3 DEF Paid
  <2> QED
    BY <2>2, <2>3
<1>6. ASSUME NEW w \in Workers, SaveUpdates(w) PROVE Goal
  <2> DEFINE t == task[w]
  <2>1. t.pc = "update" /\ t.auction \in Auctions
    BY <1>1, <1>6 DEF SaveUpdates, TypeOK, ServiceTypeOK, TaskOK
  <2>2. row' = [row EXCEPT ![t.auction] = SavedRow(row[t.auction], t.entity, t.cols)]
    BY <1>6 DEF SaveUpdates
  <2>3. \/ row'[a].state = row[a].state
        \/ a = t.auction /\ t.entity.state = "SOLD"
    BY <1>1, <2>1, <2>2 DEF SavedRow, Updated, TypeOK, StoreTypeOK
  <2>4. CASE a = t.auction /\ t.entity.state = "SOLD"
    BY <2>1, <2>4, BackedStays DEF TaskBacked
  <2> QED
    BY <1>2, <2>3, <2>4
<1>7. ASSUME NEW w \in Workers, NEW past \in BOOLEAN, LaunchInserts(w, past) PROVE Goal
  <2>1. row'[a] = row[a] \/ row'[a].state = "LIVE"
    BY <1>1, <1>7 DEF LaunchInserts, AbsentRow, TypeOK, StoreTypeOK
  <2> QED
    BY <1>2, <2>1
<1>8. CASE BidNext
  BY <1>3, <1>4, <1>5, <1>8
     DEF BidNext, RequestArrives, PlaceBid, BuyNow, Receive, RequestStep, PlaceBidReads,
         BuyNowReads, SerializationFailure, NotifyOutbid, NotifySold, CountBids, EmitBidPlaced,
         EmitSold, storeVars
<1>9. CASE ServiceNext
  BY <1>3, <1>6, <1>7, <1>9
     DEF ServiceNext, ManagerArrives, LaunchChecks, EndManually, CloseExpired, TaskStep,
         NextExpired, SaveSelects, Announce, storeVars
<1> QED
  BY <1>3, <1>8, <1>9
     DEF Next, EndDatePasses, Fault, Crash, CountFails, SaveFails, vars, storeVars

\* An auction is only ever SOLD on a bid that meets its reserve or pays its
\* buy-now price, however stale the entity that was saved (Auction.finalize in
\* endManually and closeExpired, Auction.sell in buyNow).
THEOREM SalesAreBacked == Spec => []SoldIsBacked
<1>1. Init => BackedInv
  <2> SUFFICES ASSUME Init PROVE BackedInv
    OBVIOUS
  <2>1. CloseInv
    BY CloseInvInit
  <2>2. \A a \in Auctions : row[a].state # "SOLD"
    BY DEF Init, StoreInit, AbsentRow
  <2>3. \A w \in Workers : TaskBacked(task[w], terms, bids)
    BY DEF Init, ServiceInit, NoTask, TaskBacked
  <2> QED
    BY <2>1, <2>2, <2>3 DEF BackedInv
<1>2. BackedInv /\ CloseInv' /\ [Next]_vars => BackedInv'
  BY SoldNext, BackedNext DEF BackedInv
<1>3. BackedInv => SoldIsBacked
  BY DEF BackedInv, SoldIsBacked, Paid
<1> QED
  BY <1>1, <1>2, <1>3, CloseInvAlways, PTL DEF Spec

-----------------------------------------------------------------------------
(* The inductive invariant                                                  *)

\* The bidder of the bid before the j-th of s.
BidderBefore(s, j) == IF j = 1 THEN None ELSE s[j - 1].bidder

\* A request q whose snapshot of the row r is current remembers a top bidder
\* of the bids s.
RemembersTop(q, r, s) ==
  q.pc = "write" /\ q.op = "bid" /\ q.snap.version = r.version => q.prev \in TopBidders(s)

\* The bid that q committed is the j-th of s: it beat all before it, and q
\* remembers whom it displaced.
PlacedAt(q, s, j) ==
  /\ s[j].bidder = q.user /\ s[j].amount = q.amount
  /\ q.prev = BidderBefore(s, j)
  /\ \A k \in DOMAIN s : k < j => s[k].amount < q.amount

AboutToTell(q) == q.pc = "notify" /\ q.op = "bid"

\* Only the last bid of a closed auction may fail to beat an earlier one.
OnlyPurchasesTie(a) ==
  \A i, j \in DOMAIN bids[a] :
    i < j => bids[a][i].amount < bids[a][j].amount \/ MayBePurchase(a, j)

OutbidNotice(a, i) ==
  [kind |-> "outbid", to |-> bids[a][i - 1].bidder, auction |-> a, amount |-> bids[a][i].amount]

\* Whoever the i-th bid of a displaced needs no notice, has one or gets one.
OutbidCovered(a, i) ==
  \/ i = 1
  \/ bids[a][i - 1].bidder = bids[a][i].bidder
  \/ MayBePurchase(a, i)
  \/ OutbidNotice(a, i) \in notices
  \/ \E r \in Requests : AboutToTell(req[r]) /\ req[r].auction = a
                           /\ req[r].amount = bids[a][i].amount

\* The room of a has an event with the amount of its i-th bid, or will have.
BidCovered(a, i) ==
  \/ \E e \in RoomEvents(a, "bidPlaced") : feed[a][e].amount = bids[a][i].amount
  \/ \E r \in Requests : /\ req[r].pc \in {"notify", "count", "emit"}
                         /\ req[r].auction = a /\ req[r].amount = bids[a][i].amount

\* The room of a has an event that counts its n bids, or will have.
CountCovered(a, n) ==
  \/ \E e \in RoomEvents(a, "bidPlaced") : feed[a][e].count = n
  \/ \E r \in Requests : /\ req[r].auction = a
                         /\ \/ req[r].pc \in {"notify", "count"}
                            \/ req[r].pc = "emit" /\ req[r].count = n

NoticeInv ==
  /\ CloseInv
  /\ \A r \in Requests : RemembersTop(req[r], row[req[r].auction], bids[req[r].auction])
  /\ \A r \in Requests : AboutToTell(req[r]) =>
       \E j \in DOMAIN bids[req[r].auction] : PlacedAt(req[r], bids[req[r].auction], j)
  /\ OutbidNoticesAreRight
  /\ \A a \in Auctions : OnlyPurchasesTie(a)

ToldInv ==
  /\ NoticeInv
  /\ faults = 0 => \A a \in Auctions : \A i \in DOMAIN bids[a] : OutbidCovered(a, i)

RoomInv ==
  /\ IndInv
  /\ faults = 0 => \A a \in Auctions :
       /\ \A i \in DOMAIN bids[a] : BidCovered(a, i)
       /\ bids[a] # <<>> => CountCovered(a, Len(bids[a]))

-----------------------------------------------------------------------------
(* What a step does to the bids and to the requests                         *)

\* Bids are added by the two commits only.
LEMMA BidsStep ==
  ASSUME [Next]_vars
  PROVE  bids' = bids \/ \E r \in Requests : PlaceBidCommits(r) \/ BuyNowCommits(r)
BY DEF Next, BidNext, ServiceNext, EndDatePasses, Fault, Crash, CountFails, SaveFails, vars,
       storeVars, RequestArrives, PlaceBid, BuyNow, Receive, RequestStep, PlaceBidReads,
       BuyNowReads, SerializationFailure, NotifyOutbid, NotifySold, CountBids, EmitBidPlaced,
       EmitSold, ManagerArrives, LaunchChecks, EndManually, CloseExpired, TaskStep,
       LaunchInserts, NextExpired, SaveSelects, SaveUpdates, Announce

\* What a commit writes.
LEMMA CommitFacts ==
  ASSUME IndInv, NEW r \in Requests, PlaceBidCommits(r) \/ BuyNowCommits(r),
         NEW a, a = req[r].auction
  PROVE  /\ a \in Auctions /\ req[r].user \in Users /\ req[r].amount \in Amounts
         /\ req[r].snap = row[a] /\ row[a].state = "LIVE" /\ req[r].pc = "write"
         /\ bids[a] \in Seq(Bid)
         /\ bids' = [bids EXCEPT ![a] =
                       Append(bids[a], [bidder |-> req[r].user, amount |-> req[r].amount])]
         /\ row'[a].version = row[a].version + 1
         /\ req' = [req EXCEPT ![r] = [req[r] EXCEPT !.pc = "notify", !.snap = AbsentRow,
                                                     !.attempt = 1]]
         /\ UNCHANGED <<terms, notices, feed, faults>>
<1> DEFINE q == req[r]
<1>1. q.pc = "write" /\ SnapshotCurrent(q) /\ q \in Request /\ RequestOK(q) /\ RequestInv(q, row[a], terms[a])
  BY DEF PlaceBidCommits, BuyNowCommits, IndInv, TypeOK, BidTypeOK, RequestOK
<1>2. a \in Auctions /\ q.user \in Users /\ q.amount \in Amounts
  BY <1>1 DEF RequestOK
<1>3. q.snap = row[a] /\ row[a].state = "LIVE"
  BY <1>1 DEF RequestInv, SnapshotCurrent
<1>4. row \in [Auctions -> Row] /\ bids \in [Auctions -> Seq(Bid)]
  BY DEF IndInv, TypeOK, StoreTypeOK
<1>5. PICK e, cols : CommitBid(r, e, cols)
  BY DEF PlaceBidCommits, BuyNowCommits
<1>6. row'[a].version = row[a].version + 1
  BY <1>2, <1>4, <1>5 DEF CommitBid, Updated
<1> QED
  BY <1>1, <1>2, <1>3, <1>4, <1>5, <1>6 DEF CommitBid

\* As long as its row has the same version an auction has the same bids.
LEMMA VersionPinsBids ==
  ASSUME IndInv, [Next]_vars, NEW a \in Auctions, row'[a].version = row[a].version
  PROVE  bids'[a] = bids[a]
<1> SUFFICES ASSUME NEW r \in Requests, PlaceBidCommits(r) \/ BuyNowCommits(r)
             PROVE  bids'[a] = bids[a]
  BY BidsStep
<1>1. row[a].version \in Nat /\ bids \in [Auctions -> Seq(Bid)]
  BY DEF IndInv, TypeOK, StoreTypeOK, Row
<1> DEFINE b == req[r].auction
           bid == [bidder |-> req[r].user, amount |-> req[r].amount]
<1>2. /\ b \in Auctions /\ row'[b].version = row[b].version + 1
      /\ bids' = [bids EXCEPT ![b] = Append(bids[b], bid)]
  BY CommitFacts
<1> HIDE DEF b, bid
<1>3. b # a
  BY <1>1, <1>2
<1> QED
  BY <1>1, <1>2, <1>3

\* The top bidder of increasing bids is the last one.
LEMMA TopIsLast ==
  ASSUME NEW s \in Seq(Bid), Increasing(s), NEW p \in TopBidders(s)
  PROVE  p = BidderBefore(s, Len(s) + 1)
<1>1. CASE s = <<>>
  BY <1>1 DEF TopBidders, BidderBefore
<1>2. CASE s # <<>>
  <2>1. PICK k \in DOMAIN s : p = s[k].bidder /\ \A j \in DOMAIN s : s[j].amount <= s[k].amount
    BY <1>2 DEF TopBidders
  <2>2. \A i \in DOMAIN s : s[i].amount \in Nat
    <3>1. \A b \in Bid : b.amount \in Nat
      BY StoreAssumption DEF Bid
    <3> QED
      BY <3>1
  <2>3. Len(s) \in DOMAIN s /\ k <= Len(s) /\ Len(s) + 1 # 1
    BY <1>2
  <2>4. k = Len(s)
    BY <2>1, <2>2, <2>3 DEF Increasing
  <2> QED
    BY <2>1, <2>3, <2>4 DEF BidderBefore
<1> QED
  BY <1>1, <1>2

\* A request is only about to tell if it was, or has just committed its bid.
LEMMA AboutToTellNext ==
  ASSUME IndInv, [Next]_vars, NEW x \in Requests, AboutToTell(req'[x])
  PROVE  req'[x] = req[x] \/ PlaceBidCommits(x)
<1> USE DEF IndInv, TypeOK, BidTypeOK
<1>1. ASSUME NEW r \in Requests, RequestArrives(r) \/ RequestStep(r) \/ CountFails(r), r = x
      PROVE  req'[x] = req[x] \/ PlaceBidCommits(x)
  <2>1. CASE RequestArrives(x) \/ PlaceBidReads(x) \/ BuyNowReads(x) \/ SerializationFailure(x)
    BY <2>1, EarlySteps DEF AboutToTell
  <2>3. CASE BuyNowCommits(x)
    BY <2>3 DEF BuyNowCommits, CommitBid, AboutToTell, Request
  <2>4. CASE NotifyOutbid(x) \/ NotifySold(x)
    BY <2>4 DEF NotifyOutbid, NotifySold, Goto, AboutToTell, Request
  <2>5. CASE CountBids(x) \/ EmitBidPlaced(x) \/ EmitSold(x) \/ CountFails(x)
    BY <2>5 DEF CountBids, EmitBidPlaced, EmitSold, CountFails, Finish, Goto, NoRequest, Request,
                AboutToTell
  <2> QED
    BY <1>1, <2>1, <2>3, <2>4, <2>5 DEF RequestStep
<1>2. CASE req' = req
  BY <1>2
<1>3. CASE Crash
  BY <1>3 DEF Crash, NoRequest, AboutToTell
<1>4. ASSUME NEW r \in Requests, RequestArrives(r) \/ RequestStep(r) \/ CountFails(r), r # x
      PROVE  req'[x] = req[x]
  BY <1>4, OtherRequests
<1> QED
  BY <1>1, <1>2, <1>3, <1>4 DEF Next, BidNext, ServiceNext, EndDatePasses, Fault, vars

-----------------------------------------------------------------------------
(* Outbid notices                                                           *)

\* A snapshot that is still current is one whose auction has the bids it showed.
LEMMA RemembersNext ==
  ASSUME NoticeInv, [Next]_vars, NEW x \in Requests
  PROVE  RemembersTop(req'[x], row'[req'[x].auction], bids'[req'[x].auction])
<1>1. CloseInv /\ IndInv /\ TypeOK
  BY DEF NoticeInv, CloseInv, IndInv
<1>2. CASE req'[x].pc # "write"
  BY <1>2 DEF RemembersTop
<1>3. CASE req'[x] = req[x] /\ req[x].pc = "write"
  <2> DEFINE q == req[x]
             a == q.auction
  <2>1. q \in Request /\ a \in Auctions /\ RequestInv(q, row[a], terms[a])
    BY <1>1, <1>3 DEF TypeOK, BidTypeOK, RequestOK, IndInv
  <2>2. row[a] \in Row /\ row'[a] \in Row /\ Evolves(row[a], row'[a], terms[a], terms'[a])
    BY <1>1, <2>1, TypeStep, TablesNext DEF TypeOK, StoreTypeOK, TablesStep
  <2>3. q.snap.version = row'[a].version => row'[a].version = row[a].version
    BY <1>3, <2>1, <2>2 DEF RequestInv, Evolves, Row, Request
  <2>4. RemembersTop(q, row[a], bids[a])
    BY DEF NoticeInv
  <2> QED
    BY <1>1, <1>3, <2>1, <2>3, <2>4, VersionPinsBids DEF RemembersTop
<1>4. CASE PlaceBidReads(x)
  <2> DEFINE q == req[x]
  <2>1. CASE Finish(x)
    BY <1>1, <1>2, <2>1 DEF Finish, NoRequest, TypeOK, BidTypeOK
  <2>2. ASSUME NEW prev \in PreviousBidders(q),
               req' = [req EXCEPT ![x] = [q EXCEPT !.pc = "write", !.snap = row[q.auction],
                                                   !.prev = prev]]
        PROVE  RemembersTop(req'[x], row'[req'[x].auction], bids'[req'[x].auction])
    <3>1. req'[x].prev = prev /\ req'[x].auction = q.auction /\ bids' = bids
      BY <1>1, <1>4, <2>2 DEF PlaceBidReads, storeVars, TypeOK, BidTypeOK, Request
    <3> QED
      BY <2>2, <3>1 DEF RemembersTop, PreviousBidders
  <2> QED
    BY <1>4, <2>1, <2>2 DEF PlaceBidReads
<1>5. CASE BuyNowReads(x) /\ req'[x].pc = "write"
  <2>1. req[x] \in Request /\ req[x].op = "buyNow" /\ ~Finish(x)
    BY <1>1, <1>5 DEF BuyNowReads, Finish, NoRequest, TypeOK, BidTypeOK
  <2>2. req'[x].op = "buyNow"
    BY <1>1, <1>5, <2>1 DEF BuyNowReads, TypeOK, BidTypeOK, Request
  <2> QED
    BY <2>2 DEF RemembersTop
<1>6. ASSUME NEW r \in Requests, RequestArrives(r) \/ RequestStep(r) \/ CountFails(r)
      PROVE  RemembersTop(req'[x], row'[req'[x].auction], bids'[req'[x].auction])
  BY <1>1, <1>2, <1>3, <1>4, <1>5, <1>6, OtherRequests
<1>7. CASE req' = req
  BY <1>2, <1>3, <1>7
<1>8. CASE Crash
  BY <1>2, <1>8 DEF Crash, NoRequest
<1> QED
  BY <1>6, <1>7, <1>8 DEF Next, BidNext, ServiceNext, EndDatePasses, Fault, vars

\* A bid keeps its place when others are appended.
LEMMA PlaceKept ==
  ASSUME NEW q, NEW s \in Seq(Bid), NEW t \in Seq(Bid), Grows(s, t),
         NEW j \in DOMAIN s, PlacedAt(q, s, j)
  PROVE  j \in DOMAIN t /\ PlacedAt(q, t, j)
<1>1. j \in DOMAIN t /\ t[j] = s[j] /\ \A k \in 1..j : k \in DOMAIN s /\ t[k] = s[k]
  BY DEF Grows
<1>2. j # 1 => j - 1 \in 1..j
  OBVIOUS
<1>3. \A k \in DOMAIN t : k < j => k \in 1..j
  OBVIOUS
<1> QED
  BY <1>1, <1>2, <1>3 DEF PlacedAt, BidderBefore

\* A bid is placed behind the one it displaces.
LEMMA CommitPlaces ==
  ASSUME NoticeInv, NEW r \in Requests, PlaceBidCommits(r)
  PROVE  \E j \in DOMAIN bids'[req'[r].auction] : PlacedAt(req'[r], bids'[req'[r].auction], j)
<1> DEFINE q == req[r]
           a == q.auction
           b == [bidder |-> q.user, amount |-> q.amount]
           s == bids[a]
           t == Append(s, b)
<1>1. IndInv /\ q \in Request /\ q.op = "bid" /\ RequestInv(q, row[a], terms[a])
  BY DEF NoticeInv, CloseInv, IndInv, TypeOK, BidTypeOK, PlaceBidCommits
<1>2. /\ a \in Auctions /\ b \in Bid /\ q.snap = row[a] /\ row[a].state = "LIVE" /\ q.pc = "write"
      /\ s \in Seq(Bid) /\ bids' = [bids EXCEPT ![a] = t]
      /\ req' = [req EXCEPT ![r] = [q EXCEPT !.pc = "notify", !.snap = AbsentRow, !.attempt = 1]]
  BY <1>1, CommitFacts DEF Bid
<1>3. req'[r].auction = a /\ req'[r].user = q.user /\ req'[r].amount = q.amount
      /\ req'[r].prev = q.prev
  BY <1>1, <1>2 DEF IndInv, TypeOK, BidTypeOK, Request
<1>4. bids'[a] = t
  BY <1>1, <1>2 DEF IndInv, TypeOK, StoreTypeOK
<1>5. row[a].highest = LastAmount(s) /\ Increasing(s) /\ RegisterBidAllowed(row[a], q.amount)
  BY <1>1, <1>2 DEF IndInv, AuctionInv, RequestInv
<1>6. q.prev = BidderBefore(s, Len(s) + 1)
  <2>1. q.prev \in TopBidders(s)
    BY <1>1, <1>2 DEF NoticeInv, RemembersTop
  <2> QED
    BY <1>2, <1>5, <2>1, TopIsLast
<1>7. \A i \in DOMAIN s : s[i].amount < q.amount
  BY <1>2, <1>5, AppendIncreasing DEF RegisterBidAllowed
<1>8. b.bidder = q.user /\ b.amount = q.amount
  OBVIOUS
<1> HIDE DEF b
<1>9. /\ Len(s) + 1 \in DOMAIN t /\ t[Len(s) + 1] = b
      /\ \A k \in DOMAIN t : k < Len(s) + 1 => k \in DOMAIN s /\ t[k] = s[k]
      /\ Len(s) # 0 => Len(s) \in DOMAIN s /\ t[Len(s)] = s[Len(s)]
  BY <1>2
<1>10. BidderBefore(t, Len(s) + 1) = BidderBefore(s, Len(s) + 1)
  <2>1. Len(s) \in Nat /\ (Len(s) + 1) - 1 = Len(s) /\ (Len(s) + 1 = 1 <=> Len(s) = 0)
    BY <1>2
  <2> QED
    BY <1>9, <2>1 DEF BidderBefore
<1>11. PlacedAt(req'[r], t, Len(s) + 1)
  BY <1>3, <1>6, <1>7, <1>8, <1>9, <1>10 DEF PlacedAt
<1> QED
  BY <1>3, <1>4, <1>9, <1>11

\* Whoever is about to tell has the place of the bid it tells of.
LEMMA PlacedNext ==
  ASSUME NoticeInv, [Next]_vars, NEW x \in Requests, AboutToTell(req'[x])
  PROVE  \E j \in DOMAIN bids'[req'[x].auction] : PlacedAt(req'[x], bids'[req'[x].auction], j)
<1>1. IndInv /\ TypeOK
  BY DEF NoticeInv, CloseInv, IndInv
<1>2. CASE PlaceBidCommits(x)
  BY <1>2, CommitPlaces
<1>3. CASE req'[x] = req[x]
  <2> DEFINE q == req[x]
             a == q.auction
  <2>1. a \in Auctions
    BY <1>1, <1>3 DEF AboutToTell, TypeOK, BidTypeOK, RequestOK
  <2>2. bids[a] \in Seq(Bid) /\ bids'[a] \in Seq(Bid) /\ Grows(bids[a], bids'[a])
    BY <1>1, <2>1, BidsGrow, TypeStep DEF TypeOK, StoreTypeOK
  <2>3. PICK j \in DOMAIN bids[a] : PlacedAt(q, bids[a], j)
    BY <1>3 DEF NoticeInv
  <2>4. j \in DOMAIN bids'[a] /\ PlacedAt(q, bids'[a], j)
    BY <2>2, <2>3, PlaceKept
  <2> QED
    BY <1>3, <2>4
<1> QED
  BY <1>1, <1>2, <1>3, AboutToTellNext

\* What a notice says of a bid stays true.
LEMMA NoticeKept ==
  ASSUME IndInv, [Next]_vars, NEW a \in Auctions, NEW i \in DOMAIN bids[a]
  PROVE  /\ i \in DOMAIN bids'[a] /\ bids'[a][i] = bids[a][i]
         /\ i > 1 => bids'[a][i - 1] = bids[a][i - 1]
<1>1. bids[a] \in Seq(Bid) /\ Grows(bids[a], bids'[a])
  BY BidsGrow DEF IndInv, TypeOK, StoreTypeOK
<1>2. i > 1 => i - 1 \in DOMAIN bids[a]
  BY <1>1
<1> QED
  BY <1>1, <1>2 DEF Grows

\* A notice sent by NotifyOutbid names the bidder before the bid it is about.
LEMMA NotifiedRightly ==
  ASSUME NoticeInv, NEW r \in Requests, NotifyOutbid(r), NEW n \in notices', n \notin notices
  PROVE  \E i \in DOMAIN bids[n.auction] : /\ i > 1
                                           /\ bids[n.auction][i].amount = n.amount
                                           /\ bids[n.auction][i - 1].bidder = n.to
                                           /\ bids[n.auction][i].bidder # n.to
                                           /\ n.auction \in Auctions
<1> DEFINE q == req[r]
           a == q.auction
<1>1. a \in Auctions /\ AboutToTell(q) /\ bids[a] \in Seq(Bid)
  BY DEF NoticeInv, CloseInv, IndInv, TypeOK, BidTypeOK, RequestOK, StoreTypeOK, NotifyOutbid,
         AboutToTell
<1>2. /\ q.prev \notin {None, q.user}
      /\ n = [kind |-> "outbid", to |-> q.prev, auction |-> a, amount |-> q.amount]
  BY DEF NotifyOutbid, Notify
<1>3. PICK j \in DOMAIN bids[a] : PlacedAt(q, bids[a], j)
  BY <1>1 DEF NoticeInv
<1>4. j > 1
  BY <1>1, <1>2, <1>3 DEF PlacedAt, BidderBefore
<1>5. bids[a][j - 1].bidder = q.prev /\ bids[a][j].bidder = q.user /\ bids[a][j].amount = q.amount
  BY <1>3, <1>4 DEF PlacedAt, BidderBefore
<1>6. n.to = q.prev /\ n.auction = a /\ n.amount = q.amount
  BY <1>2
<1> QED
  BY <1>1, <1>2, <1>4, <1>5, <1>6

\* Only NotifyOutbid sends outbid notices.
LEMMA OutbidNoticesNext ==
  ASSUME IndInv, [Next]_vars, NEW n \in notices', n \notin notices, n.kind = "outbid"
  PROVE  bids' = bids /\ \E r \in Requests : NotifyOutbid(r)
<1>1. ASSUME NEW r \in Requests, NotifySold(r) PROVE FALSE
  BY <1>1 DEF NotifySold, Notify
<1>2. ASSUME NEW w \in Workers, Announce(w) PROVE FALSE
  BY <1>2 DEF Announce, Notify
<1>3. ASSUME NEW r \in Requests, NotifyOutbid(r) PROVE bids' = bids
  BY <1>3 DEF NotifyOutbid
<1>4. CASE notices' = notices
  BY <1>4
<1> QED
  BY <1>1, <1>2, <1>3, <1>4
     DEF Next, BidNext, ServiceNext, EndDatePasses, Fault, Crash, CountFails, SaveFails, vars,
         storeVars, RequestArrives, PlaceBid, BuyNow, Receive, RequestStep, PlaceBidReads,
         BuyNowReads, PlaceBidCommits, BuyNowCommits, CommitBid, SerializationFailure, CountBids,
         EmitBidPlaced, EmitSold, ManagerArrives, LaunchChecks, EndManually, CloseExpired,
         TaskStep, LaunchInserts, NextExpired, SaveSelects, SaveUpdates

\* Every step keeps the notices right.
LEMMA NoticesNext ==
  ASSUME NoticeInv, [Next]_vars
  PROVE  OutbidNoticesAreRight'
<1>1. IndInv /\ TypeOK
  BY DEF NoticeInv, CloseInv, IndInv
<1> SUFFICES ASSUME NEW n \in notices', n.kind = "outbid"
             PROVE  \E i \in DOMAIN bids'[n.auction] : /\ i > 1
                                                       /\ bids'[n.auction][i].amount = n.amount
                                                       /\ bids'[n.auction][i - 1].bidder = n.to
                                                       /\ bids'[n.auction][i].bidder # n.to
  BY DEF OutbidNoticesAreRight
<1>2. CASE n \in notices
  <2>1. n.auction \in Auctions
    BY <1>1, <1>2 DEF TypeOK, StoreTypeOK, Notice
  <2>2. PICK i \in DOMAIN bids[n.auction] : /\ i > 1
                                            /\ bids[n.auction][i].amount = n.amount
                                            /\ bids[n.auction][i - 1].bidder = n.to
                                            /\ bids[n.auction][i].bidder # n.to
    BY <1>2 DEF NoticeInv, OutbidNoticesAreRight
  <2> QED
    BY <1>1, <2>1, <2>2, NoticeKept
<1>3. CASE n \notin notices
  BY <1>1, <1>3, OutbidNoticesNext, NotifiedRightly
<1> QED
  BY <1>2, <1>3

\* A bid that may be a purchase is one for good: the auction is closed.
LEMMA PurchaseStays ==
  ASSUME IndInv, [Next]_vars, NEW a \in Auctions, NEW i \in DOMAIN bids[a], MayBePurchase(a, i)
  PROVE  MayBePurchase(a, i)'
<1>1. bids[a] \in Seq(Bid) /\ row[a].state \in AuctionStates
  BY DEF IndInv, TypeOK, StoreTypeOK, Row
<1>2. row[a].state \in TerminalStates
  BY <1>1 DEF IndInv, AuctionInv, MayBePurchase, AuctionStates
<1>3. bids'[a] = bids[a] /\ terms'[a] = terms[a] /\ row'[a].state \in TerminalStates
  BY <1>2, BidsGrow, TablesNext DEF TablesStep, Evolves, TerminalStates
<1> QED
  BY <1>3 DEF MayBePurchase, TerminalStates

\* The bid of a purchase may be one.
LEMMA BoughtMayBePurchase ==
  ASSUME IndInv, NEW r \in Requests, BuyNowCommits(r),
         NEW a, a = req[r].auction, NEW n, n = Len(bids[a]) + 1
  PROVE  MayBePurchase(a, n)'
<1> DEFINE q == req[r]
           e == [q.snap EXCEPT !.highest = q.amount, !.state = "SOLD", !.closedAt = TRUE]
           b == [bidder |-> q.user, amount |-> q.amount]
<1>1. /\ a \in Auctions /\ bids[a] \in Seq(Bid) /\ terms' = terms /\ q.pc = "write"
      /\ bids' = [bids EXCEPT ![a] = Append(bids[a], b)]
  BY CommitFacts
<1>2. q \in Request /\ q.op = "buyNow" /\ q.amount = terms[a].buyNow
  BY <1>1 DEF IndInv, TypeOK, BidTypeOK, RequestInv, BuyNowCommits
<1>3. row' = [row EXCEPT ![a] = Updated(row[a], e, Columns)] /\ e.state = "SOLD"
  BY <1>2 DEF BuyNowCommits, CommitBid, Request, Row
<1>4. row'[a].state = "SOLD"
  BY <1>1, <1>3 DEF Updated, Columns, IndInv, TypeOK, StoreTypeOK
<1>5. bids'[a] = Append(bids[a], b) /\ b.amount = q.amount
  BY <1>1 DEF IndInv, TypeOK, StoreTypeOK
<1> HIDE DEF b
<1>6. Len(bids'[a]) = Len(bids[a]) + 1 /\ bids'[a][Len(bids[a]) + 1] = b
  BY <1>1, <1>5
<1> QED
  BY <1>1, <1>2, <1>4, <1>5, <1>6 DEF MayBePurchase

\* Every step keeps the ties to purchases: a bid beats all before it, since it
\* commits while its auction is LIVE.
LEMMA TiesNext ==
  ASSUME NoticeInv, [Next]_vars, NEW a \in Auctions
  PROVE  OnlyPurchasesTie(a)'
<1>1. IndInv /\ IndInv' /\ OnlyPurchasesTie(a)
  BY IndInvStep DEF NoticeInv, CloseInv
<1>2. bids[a] \in Seq(Bid) /\ bids'[a] \in Seq(Bid) /\ row[a].state \in AuctionStates
  BY <1>1 DEF IndInv, TypeOK, StoreTypeOK, Row
<1>3. CASE bids'[a] = bids[a]
  BY <1>1, <1>3, PurchaseStays DEF OnlyPurchasesTie
<1>4. CASE bids'[a] # bids[a] /\ row'[a].state = "LIVE"
  BY <1>1, <1>4 DEF IndInv, AuctionInv, Increasing, OnlyPurchasesTie
<1>5. CASE bids'[a] # bids[a] /\ row'[a].state # "LIVE"
  <2>1. row[a].state = "LIVE" /\ Increasing(bids[a])
    BY <1>1, <1>5, BidsGrow DEF IndInv, AuctionInv
  <2>2. PICK r \in Requests : PlaceBidCommits(r) \/ BuyNowCommits(r)
    BY <1>5, BidsStep
  <2>3. /\ req[r].auction \in Auctions /\ req[r].snap = row[req[r].auction]
        /\ bids' = [bids EXCEPT ![req[r].auction] =
                      Append(@, [bidder |-> req[r].user, amount |-> req[r].amount])]
    BY <1>1, <2>2, CommitFacts
  <2>4. req[r].auction = a
    BY <1>1, <1>5, <2>3 DEF IndInv, TypeOK, StoreTypeOK
  <2>5. CASE PlaceBidCommits(r)
    <3>1. row'[a].state = row[a].state
      BY <1>1, <2>3, <2>4, <2>5
         DEF PlaceBidCommits, CommitBid, Updated, IndInv, TypeOK, StoreTypeOK
    <3> QED
      BY <1>5, <2>1, <3>1
  <2>6. CASE BuyNowCommits(r)
    <3> DEFINE b == [bidder |-> req[r].user, amount |-> req[r].amount]
    <3>0. PICK n : n = Len(bids[a]) + 1
      OBVIOUS
    <3>1. MayBePurchase(a, n)'
      BY <1>1, <2>4, <2>6, <3>0, BoughtMayBePurchase
    <3>2. bids'[a] = Append(bids[a], b)
      BY <1>1, <2>3, <2>4 DEF IndInv, TypeOK, StoreTypeOK
    <3> HIDE DEF b
    <3>3. \A j \in DOMAIN bids'[a] : j = n \/ j \in DOMAIN bids[a]
      BY <1>2, <3>0, <3>2
    <3>4. \A i \in DOMAIN bids[a] : bids'[a][i] = bids[a][i] /\ i < n
      BY <1>2, <3>0, <3>2
    <3>5. \A i, j \in DOMAIN bids'[a] : i < j => i \in DOMAIN bids[a]
      BY <1>2, <3>0, <3>2
    <3> QED
      BY <2>1, <3>1, <3>3, <3>4, <3>5 DEF OnlyPurchasesTie, Increasing
  <2> QED
    BY <2>2, <2>5, <2>6
<1> QED
  BY <1>3, <1>4, <1>5

\* Nothing was committed or told in an initial state.
LEMMA NoticeInvInit ==
  ASSUME Init
  PROVE  NoticeInv
<1>1. CloseInv
  BY CloseInvInit
<1>2. \A r \in Requests : req[r].pc = "idle"
  BY DEF Init, BidInit, NoRequest
<1>3. notices = {} /\ \A a \in Auctions : bids[a] = <<>>
  BY DEF Init, StoreInit
<1> QED
  BY <1>1, <1>2, <1>3
     DEF NoticeInv, RemembersTop, AboutToTell, OutbidNoticesAreRight, OnlyPurchasesTie

\* NoticeInv always holds.
LEMMA NoticeInvAlways == Spec => []NoticeInv
<1>1. Init => NoticeInv
  BY NoticeInvInit
<1>2. NoticeInv /\ CloseInv' /\ [Next]_vars => NoticeInv'
  <2> SUFFICES ASSUME NoticeInv, CloseInv', [Next]_vars PROVE NoticeInv'
    OBVIOUS
  <2>1. \A r \in Requests : RemembersTop(req'[r], row'[req'[r].auction], bids'[req'[r].auction])
    BY RemembersNext
  <2>2. \A r \in Requests : AboutToTell(req'[r]) =>
          \E j \in DOMAIN bids'[req'[r].auction] : PlacedAt(req'[r], bids'[req'[r].auction], j)
    BY PlacedNext
  <2>3. OutbidNoticesAreRight'
    BY NoticesNext
  <2>4. \A a \in Auctions : OnlyPurchasesTie(a)'
    BY TiesNext
  <2> QED
    BY <2>1, <2>2, <2>3, <2>4 DEF NoticeInv, AboutToTell
<1> QED
  BY <1>1, <1>2, CloseInvAlways, PTL DEF Spec

\* Whoever is told they were outbid did hold the highest bid just before the
\* bid they are told about, which is someone else's, whatever attempts of the
\* transaction failed before (previousBidderId in BidService.placeBid).
THEOREM OutbidNoticesCorrect == Spec => []OutbidNoticesAreRight
<1>1. NoticeInv => OutbidNoticesAreRight
  BY DEF NoticeInv
<1> QED
  BY <1>1, NoticeInvAlways, PTL

-----------------------------------------------------------------------------
(* Nobody outbid is forgotten                                               *)

\* A step after which nothing has failed is none that fails.
LEMMA NoFaultYet ==
  ASSUME IndInv, [Next]_vars, faults' = 0
  PROVE  faults = 0 /\ (BidNext \/ ServiceNext \/ UNCHANGED <<bids, req, notices, feed>>)
<1>1. faults \in Nat
  BY DEF IndInv, TypeOK, StoreTypeOK
<1>2. CASE Fault
  BY <1>1, <1>2 DEF Fault, Crash, CountFails, SaveFails
<1>3. CASE BidNext
  BY <1>3 DEF BidNext, RequestArrives, PlaceBid, BuyNow, Receive, RequestStep, PlaceBidReads,
              BuyNowReads, PlaceBidCommits, BuyNowCommits, CommitBid, SerializationFailure,
              NotifyOutbid, NotifySold, CountBids, EmitBidPlaced, EmitSold, storeVars
<1>4. CASE ServiceNext
  BY <1>4 DEF ServiceNext, ManagerArrives, LaunchChecks, EndManually, CloseExpired, TaskStep,
              LaunchInserts, NextExpired, SaveSelects, SaveUpdates, Announce, storeVars
<1> QED
  BY <1>2, <1>3, <1>4 DEF Next, EndDatePasses, vars, storeVars

\* A request past its commit goes on until it has told everyone.
LEMMA LateSteps ==
  ASSUME IndInv, [Next]_vars, faults' = 0,
         NEW x \in Requests, req[x].pc \in {"notify", "count", "emit"}
  PROVE  \/ req'[x] = req[x]
         \/ NotifyOutbid(x) \/ NotifySold(x) \/ CountBids(x) \/ EmitBidPlaced(x)
<1>1. CASE req' = req
  BY <1>1
<1>2. ASSUME NEW r \in Requests, RequestArrives(r) \/ RequestStep(r)
      PROVE  req'[x] = req[x] \/ NotifyOutbid(x) \/ NotifySold(x) \/ CountBids(x) \/ EmitBidPlaced(x)
  <2>1. CASE r # x
    BY <1>2, <2>1, OtherRequests DEF IndInv
  <2>2. CASE r = x
    BY <1>2, <2>2
       DEF RequestArrives, PlaceBid, BuyNow, Receive, RequestStep, PlaceBidReads, BuyNowReads,
           PlaceBidCommits, BuyNowCommits, SerializationFailure, EmitSold
  <2> QED
    BY <2>1, <2>2
<1> QED
  BY <1>1, <1>2, NoFaultYet DEF BidNext, ServiceNext

\* Notices are never withdrawn.
LEMMA NoticesGrow ==
  ASSUME [Next]_vars
  PROVE  notices \subseteq notices'
BY DEF Next, BidNext, ServiceNext, EndDatePasses, Fault, Crash, CountFails, SaveFails, vars,
       storeVars, RequestArrives, PlaceBid, BuyNow, Receive, RequestStep, PlaceBidReads,
       BuyNowReads, PlaceBidCommits, BuyNowCommits, CommitBid, SerializationFailure,
       NotifyOutbid, NotifySold, CountBids, EmitBidPlaced, EmitSold, Notify, ManagerArrives,
       LaunchChecks, EndManually, CloseExpired, TaskStep, LaunchInserts, NextExpired,
       SaveSelects, SaveUpdates, Announce

\* A new bid is the last one, and its request is about to tell of it.
LEMMA NewBid ==
  ASSUME IndInv, [Next]_vars, NEW a \in Auctions, NEW i \in DOMAIN bids'[a], i \notin DOMAIN bids[a]
  PROVE  /\ i = Len(bids[a]) + 1 /\ Len(bids'[a]) = i
         /\ \E r \in Requests :
              /\ PlaceBidCommits(r) \/ BuyNowCommits(r)
              /\ req[r].auction = a /\ req[r].amount = bids'[a][i].amount
              /\ req'[r].pc = "notify" /\ req'[r].op = req[r].op
              /\ req'[r].auction = a /\ req'[r].amount = bids'[a][i].amount
<1>1. PICK r \in Requests : PlaceBidCommits(r) \/ BuyNowCommits(r)
  BY BidsStep
<1> DEFINE q == req[r]
           b == [bidder |-> q.user, amount |-> q.amount]
<1>2. /\ q.auction \in Auctions
      /\ bids' = [bids EXCEPT ![q.auction] = Append(bids[q.auction], b)]
      /\ req' = [req EXCEPT ![r] = [q EXCEPT !.pc = "notify", !.snap = AbsentRow, !.attempt = 1]]
  BY <1>1, CommitFacts
<1>3. q \in Request /\ bids \in [Auctions -> Seq(Bid)]
  BY DEF IndInv, TypeOK, BidTypeOK, StoreTypeOK
<1>4. /\ req'[r].pc = "notify" /\ req'[r].op = q.op
      /\ req'[r].auction = q.auction /\ req'[r].amount = q.amount
  BY <1>2, <1>3 DEF IndInv, TypeOK, BidTypeOK, Request
<1>5. b.amount = q.amount
  OBVIOUS
<1> HIDE DEF b
<1>6. q.auction = a
  BY <1>2, <1>3
<1>7. bids'[a] = Append(bids[a], b) /\ bids[a] \in Seq(Bid)
  BY <1>2, <1>3, <1>6
<1>8. i = Len(bids[a]) + 1 /\ Len(bids'[a]) = i /\ bids'[a][i] = b
  BY <1>7
<1> QED
  BY <1>1, <1>4, <1>5, <1>6, <1>8

\* The request that tells of the i-th bid tells the bidder before it: no other
\* bid of the auction has its amount, unless it is a purchase.
LEMMA TellsOfItsBid ==
  ASSUME NoticeInv, [Next]_vars, NEW r \in Requests, NotifyOutbid(r), NEW a, a = req[r].auction,
         NEW i \in DOMAIN bids[a], i # 1, req[r].amount = bids[a][i].amount,
         bids[a][i - 1].bidder # bids[a][i].bidder, ~MayBePurchase(a, i)
  PROVE  OutbidNotice(a, i) \in notices'
<1> DEFINE q == req[r]
           s == bids[a]
<1>1. AboutToTell(q) /\ a \in Auctions /\ q.user \in Users
  BY DEF NotifyOutbid, AboutToTell, NoticeInv, CloseInv, IndInv, TypeOK, BidTypeOK, RequestOK
<1>2. PICK j \in DOMAIN s : PlacedAt(q, s, j)
  BY <1>1 DEF NoticeInv
<1>3. s \in Seq(Bid) /\ OnlyPurchasesTie(a)
  BY <1>1 DEF NoticeInv, CloseInv, IndInv, TypeOK, StoreTypeOK
<1>4. \A k \in DOMAIN s : s[k].amount \in Nat /\ s[k].bidder \in Users
  <2>1. \A b \in Bid : b.amount \in Nat /\ b.bidder \in Users
    BY StoreAssumption DEF Bid
  <2> QED
    BY <1>3, <2>1
<1>5. i = j
  <2>1. ~(i < j)
    BY <1>2, <1>4 DEF PlacedAt
  <2>2. ~(j < i)
    BY <1>2, <1>3, <1>4 DEF PlacedAt, OnlyPurchasesTie
  <2> QED
    BY <1>3, <2>1, <2>2
<1>6. q.prev = s[i - 1].bidder /\ q.user = s[i].bidder /\ i - 1 \in DOMAIN s
  BY <1>2, <1>3, <1>5 DEF PlacedAt, BidderBefore
<1>7. q.prev \notin {None, q.user}
  BY <1>4, <1>6, StoreAssumption
<1> QED
  BY <1>6, <1>7 DEF NotifyOutbid, Notify, OutbidNotice

\* Whoever was covered still is.
LEMMA CoveredStays ==
  ASSUME NoticeInv, [Next]_vars, faults' = 0,
         NEW a \in Auctions, NEW i \in DOMAIN bids[a], OutbidCovered(a, i)
  PROVE  OutbidCovered(a, i)'
<1>1. IndInv /\ bids[a] \in Seq(Bid)
  BY DEF NoticeInv, CloseInv, IndInv, TypeOK, StoreTypeOK
<1>2. bids'[a][i] = bids[a][i] /\ (i > 1 => bids'[a][i - 1] = bids[a][i - 1])
  BY <1>1, NoticeKept
<1>3. CASE i = 1 \/ MayBePurchase(a, i)
  BY <1>1, <1>3, PurchaseStays DEF OutbidCovered
<1>4. CASE i # 1 /\ bids[a][i - 1].bidder = bids[a][i].bidder
  BY <1>1, <1>2, <1>4 DEF OutbidCovered
<1>5. ASSUME i # 1, OutbidNotice(a, i) \in notices' PROVE OutbidCovered(a, i)'
  <2>1. OutbidNotice(a, i)' = OutbidNotice(a, i)
    BY <1>1, <1>2, <1>5 DEF OutbidNotice
  <2> QED
    BY <1>5, <2>1 DEF OutbidCovered
<1>6. ASSUME NEW r \in Requests, AboutToTell(req[r]), req[r].auction = a,
             req[r].amount = bids[a][i].amount, i # 1,
             bids[a][i - 1].bidder # bids[a][i].bidder, ~MayBePurchase(a, i)
      PROVE  OutbidCovered(a, i)'
  <2>1. CASE req'[r] = req[r]
    <3>1. AboutToTell(req'[r]) /\ req'[r].auction = a /\ req'[r].amount = bids'[a][i].amount
      BY <1>2, <1>6, <2>1
    <3> QED
      BY <3>1 DEF OutbidCovered, AboutToTell
  <2>2. CASE NotifyOutbid(r)
    BY <1>5, <1>6, <2>2, TellsOfItsBid
  <2> QED
    BY <1>1, <1>6, <2>1, <2>2, LateSteps
       DEF AboutToTell, NotifySold, CountBids, EmitBidPlaced
<1> QED
  BY <1>3, <1>4, <1>5, <1>6, NoticesGrow DEF OutbidCovered

\* Unless the process crashed or a query failed, whoever is outbid is told, or
\* the request that outbid them is about to tell them (BidService.placeBid).
THEOREM OutbidBiddersCorrect == Spec => []OutbidBiddersAreTold
<1>1. Init => ToldInv
  <2>1. ASSUME Init PROVE \A a \in Auctions : bids[a] = <<>>
    BY <2>1 DEF Init, StoreInit
  <2> QED
    BY <2>1, NoticeInvInit DEF ToldInv
<1>2. ToldInv /\ NoticeInv' /\ [Next]_vars => ToldInv'
  <2> SUFFICES ASSUME ToldInv, NoticeInv', [Next]_vars, faults' = 0,
                      NEW a \in Auctions, NEW i \in DOMAIN bids'[a]
               PROVE  OutbidCovered(a, i)'
    BY DEF ToldInv
  <2>1. NoticeInv /\ IndInv /\ IndInv' /\ faults = 0
    BY NoFaultYet DEF ToldInv, NoticeInv, CloseInv
  <2>2. CASE i \in DOMAIN bids[a]
    BY <2>1, <2>2, CoveredStays DEF ToldInv
  <2>3. CASE i \notin DOMAIN bids[a]
    <3>1. PICK r \in Requests :
            /\ PlaceBidCommits(r) \/ BuyNowCommits(r)
            /\ req[r].auction = a
            /\ req'[r].pc = "notify" /\ req'[r].op = req[r].op
            /\ req'[r].auction = a /\ req'[r].amount = bids'[a][i].amount
      BY <2>1, <2>3, NewBid
    <3>2. CASE PlaceBidCommits(r)
      BY <3>1, <3>2 DEF PlaceBidCommits, AboutToTell, OutbidCovered
    <3>3. CASE BuyNowCommits(r)
      BY <2>1, <2>3, <3>1, <3>3, NewBid, BoughtMayBePurchase DEF OutbidCovered
    <3> QED
      BY <3>1, <3>2, <3>3
  <2> QED
    BY <2>2, <2>3
<1>3. ToldInv => OutbidBiddersAreTold
  <2>1. ToldInv => faults \in Nat
    BY DEF ToldInv, NoticeInv, CloseInv, IndInv, TypeOK, StoreTypeOK
  <2> SUFFICES ASSUME ToldInv, faults = 0, NEW a \in Auctions, NEW i \in DOMAIN bids[a],
                      OutbidCovered(a, i)
               PROVE  \/ i = 1 \/ bids[a][i - 1].bidder = bids[a][i].bidder
                      \/ MayBePurchase(a, i)
                      \/ OutbidNotice(a, i) \in notices
                      \/ \E r \in Requests : /\ req[r].pc = "notify"
                                             /\ req[r].auction = a
                                             /\ req[r].amount = bids[a][i].amount
    BY <2>1 DEF ToldInv, OutbidBiddersAreTold, OutbidNotice
  <2> QED
    BY DEF OutbidCovered, AboutToTell
<1> QED
  BY <1>1, <1>2, <1>3, NoticeInvAlways, PTL DEF Spec

-----------------------------------------------------------------------------
(* The room hears of every bid                                              *)

\* Events are never taken back from a room.
LEMMA RoomGrows ==
  ASSUME IndInv, [Next]_vars, NEW a \in Auctions, NEW e \in RoomEvents(a, "bidPlaced")
  PROVE  e \in RoomEvents(a, "bidPlaced")' /\ feed'[a][e] = feed[a][e]
<1>1. feed \in [Auctions -> Seq(Event)]
  BY DEF IndInv, TypeOK, StoreTypeOK
<1>2. ASSUME NEW b \in Auctions, NEW event, EmitTo(b, event)
      PROVE  e \in RoomEvents(a, "bidPlaced")' /\ feed'[a][e] = feed[a][e]
  <2>1. CASE a # b
    BY <1>1, <1>2, <2>1 DEF EmitTo, RoomEvents
  <2>2. CASE a = b
    <3>1. feed'[a] = Append(feed[a], event) /\ feed[a] \in Seq(Event)
      BY <1>1, <1>2, <2>2 DEF EmitTo
    <3> QED
      BY <3>1 DEF RoomEvents
  <2> QED
    BY <2>1, <2>2
<1>3. CASE feed' = feed
  BY <1>3 DEF RoomEvents
<1>4. ASSUME NEW r \in Requests, EmitBidPlaced(r) \/ EmitSold(r)
      PROVE  e \in RoomEvents(a, "bidPlaced")' /\ feed'[a][e] = feed[a][e]
  <2>1. req[r].auction \in Auctions
    BY <1>4 DEF EmitBidPlaced, EmitSold, IndInv, TypeOK, BidTypeOK, RequestOK
  <2> QED
    BY <1>2, <1>4, <2>1 DEF EmitBidPlaced, EmitSold
<1>5. ASSUME NEW w \in Workers, Announce(w)
      PROVE  e \in RoomEvents(a, "bidPlaced")' /\ feed'[a][e] = feed[a][e]
  <2>1. task[w].auction \in Auctions
    BY <1>5 DEF Announce, IndInv, TypeOK, ServiceTypeOK, TaskOK
  <2> QED
    BY <1>2, <1>5, <2>1 DEF Announce
<1> QED
  BY <1>3, <1>4, <1>5
     DEF Next, BidNext, ServiceNext, EndDatePasses, Fault, Crash, CountFails, SaveFails, vars,
         storeVars, RequestArrives, PlaceBid, BuyNow, Receive, RequestStep, PlaceBidReads,
         BuyNowReads, PlaceBidCommits, BuyNowCommits, CommitBid, SerializationFailure,
         NotifyOutbid, NotifySold, CountBids, ManagerArrives, LaunchChecks, EndManually,
         CloseExpired, TaskStep, LaunchInserts, NextExpired, SaveSelects, SaveUpdates

\* The event a request emits carries its amount and its count.
LEMMA EmittedBid ==
  ASSUME IndInv, NEW r \in Requests, EmitBidPlaced(r), NEW a, a = req[r].auction
  PROVE  \E e \in RoomEvents(a, "bidPlaced")' :
           feed'[a][e].amount = req[r].amount /\ feed'[a][e].count = req[r].count
<1> DEFINE event == [type |-> "bidPlaced", amount |-> req[r].amount, count |-> req[r].count]
<1>1. a \in Auctions /\ feed \in [Auctions -> Seq(Event)]
  BY DEF EmitBidPlaced, IndInv, TypeOK, BidTypeOK, RequestOK, StoreTypeOK
<1>2. feed'[a] = Append(feed[a], event) /\ feed[a] \in Seq(Event)
  BY <1>1 DEF EmitBidPlaced, EmitTo
<1>3. event.type = "bidPlaced" /\ event.amount = req[r].amount /\ event.count = req[r].count
  OBVIOUS
<1> HIDE DEF event
<1>4. Len(feed[a]) + 1 \in DOMAIN feed'[a] /\ feed'[a][Len(feed[a]) + 1] = event
  BY <1>2
<1> QED
  BY <1>3, <1>4 DEF RoomEvents

\* What a request past its commit keeps as it tells and counts.
LEMMA LateRecord ==
  ASSUME IndInv, NEW r \in Requests, NotifyOutbid(r) \/ NotifySold(r) \/ CountBids(r)
  PROVE  /\ req'[r].pc \in {"count", "emit"}
         /\ req'[r].auction = req[r].auction /\ req'[r].amount = req[r].amount
         /\ CountBids(r) => req'[r].count = Len(bids[req[r].auction])
         /\ ~CountBids(r) => req'[r].pc = "count"
         /\ bids' = bids
<1>1. req[r] \in Request
  BY DEF IndInv, TypeOK, BidTypeOK
<1>2. CASE NotifyOutbid(r) \/ NotifySold(r)
  BY <1>1, <1>2 DEF NotifyOutbid, NotifySold, CountBids, Goto, IndInv, TypeOK, BidTypeOK, Request
<1>3. CASE CountBids(r)
  BY <1>1, <1>3 DEF CountBids, CountedBids, storeVars, IndInv, TypeOK, BidTypeOK, Request
<1> QED
  BY <1>2, <1>3

\* A bid the room was to hear of it hears of, or is still to.
LEMMA HeardStays ==
  ASSUME IndInv, [Next]_vars, faults' = 0,
         NEW a \in Auctions, NEW i \in DOMAIN bids[a], BidCovered(a, i)
  PROVE  BidCovered(a, i)'
<1>1. bids'[a][i] = bids[a][i]
  BY NoticeKept
<1>2. ASSUME NEW e \in RoomEvents(a, "bidPlaced"), feed[a][e].amount = bids[a][i].amount
      PROVE  BidCovered(a, i)'
  BY <1>1, <1>2, RoomGrows DEF BidCovered
<1>3. ASSUME NEW r \in Requests, req[r].pc \in {"notify", "count", "emit"},
             req[r].auction = a, req[r].amount = bids[a][i].amount
      PROVE  BidCovered(a, i)'
  <2>1. CASE req'[r] = req[r] \/ NotifyOutbid(r) \/ NotifySold(r) \/ CountBids(r)
    <3>1. /\ req'[r].pc \in {"notify", "count", "emit"}
          /\ req'[r].auction = a /\ req'[r].amount = bids'[a][i].amount
      BY <1>1, <1>3, <2>1, LateRecord
    <3> QED
      BY <3>1 DEF BidCovered
  <2>2. CASE EmitBidPlaced(r)
    BY <1>1, <1>3, <2>2, EmittedBid DEF BidCovered
  <2> QED
    BY <1>3, <2>1, <2>2, LateSteps
<1> QED
  BY <1>2, <1>3 DEF BidCovered

\* So does the event that counts them all, as long as there is no other bid.
LEMMA CountStays ==
  ASSUME IndInv, [Next]_vars, faults' = 0,
         NEW a \in Auctions, NEW n, n = Len(bids[a]), bids'[a] = bids[a], CountCovered(a, n)
  PROVE  CountCovered(a, n)'
<1>1. ASSUME NEW e \in RoomEvents(a, "bidPlaced"), feed[a][e].count = n
      PROVE  CountCovered(a, n)'
  BY <1>1, RoomGrows DEF CountCovered
<1>2. ASSUME NEW r \in Requests, req[r].auction = a,
             req[r].pc \in {"notify", "count"} \/ (req[r].pc = "emit" /\ req[r].count = n)
      PROVE  CountCovered(a, n)'
  <2>1. CASE req'[r] = req[r]
    <3>1. /\ req'[r].auction = a
          /\ req'[r].pc \in {"notify", "count"} \/ (req'[r].pc = "emit" /\ req'[r].count = n)
      BY <1>2, <2>1
    <3> QED
      BY <3>1 DEF CountCovered
  <2>2. CASE NotifyOutbid(r) \/ NotifySold(r) \/ CountBids(r)
    <3>1. /\ req'[r].auction = a
          /\ req'[r].pc = "count" \/ (req'[r].pc = "emit" /\ req'[r].count = n)
      BY <1>2, <2>2, LateRecord
    <3> QED
      BY <3>1 DEF CountCovered
  <2>3. CASE EmitBidPlaced(r)
    <3>1. req[r].count = n
      BY <1>2, <2>3 DEF EmitBidPlaced
    <3> QED
      BY <1>2, <2>3, <3>1, EmittedBid DEF CountCovered
  <2> QED
    BY <1>2, <2>1, <2>2, <2>3, LateSteps
<1> QED
  BY <1>1, <1>2 DEF CountCovered

\* Once no request is under way and nothing failed, the room has been sent
\* every bid, and one of its events counts all of them, however the requests
\* interleaved (emitBidPlaced in BidService).
THEOREM RoomHearsOfBids == Spec => []RoomHasEveryBid
<1>1. Init => RoomInv
  <2>1. ASSUME Init PROVE \A a \in Auctions : bids[a] = <<>>
    BY <2>1 DEF Init, StoreInit
  <2> QED
    BY <2>1, IndInvInit DEF RoomInv
<1>2. RoomInv /\ IndInv' /\ [Next]_vars => RoomInv'
  <2> SUFFICES ASSUME RoomInv, IndInv', [Next]_vars, faults' = 0, NEW a \in Auctions
               PROVE  /\ \A i \in DOMAIN bids'[a] : BidCovered(a, i)'
                      /\ bids'[a] # <<>> => CountCovered(a, Len(bids[a]))'
    BY DEF RoomInv
  <2>1. IndInv /\ faults = 0
    BY NoFaultYet DEF RoomInv
  <2>2. bids[a] \in Seq(Bid) /\ bids'[a] \in Seq(Bid)
    BY <2>1 DEF IndInv, TypeOK, StoreTypeOK, RoomInv
  <2>3. ASSUME NEW i \in DOMAIN bids'[a], i \notin DOMAIN bids[a]
        PROVE  BidCovered(a, i)' /\ CountCovered(a, Len(bids[a]))'
    BY <2>1, <2>3, NewBid DEF BidCovered, CountCovered
  <2>4. ASSUME NEW i \in DOMAIN bids'[a]
        PROVE  BidCovered(a, i)'
    BY <2>1, <2>3, HeardStays DEF RoomInv
  <2>5. CASE bids'[a] = bids[a]
    <3>1. PICK n : n = Len(bids[a])
      OBVIOUS
    <3>2. bids[a] # <<>> => CountCovered(a, n)'
      BY <2>1, <2>5, <3>1, CountStays DEF RoomInv
    <3> QED
      BY <2>4, <2>5, <3>1, <3>2
  <2>6. CASE bids'[a] # bids[a]
    <3>1. \E i \in DOMAIN bids'[a] : i \notin DOMAIN bids[a]
      <4>1. Grows(bids[a], bids'[a])
        BY <2>1, BidsGrow
      <4> QED
        BY <2>2, <2>6, <4>1 DEF Grows
    <3> QED
      BY <2>3, <2>4, <3>1
  <2> QED
    BY <2>5, <2>6
<1>3. RoomInv => RoomHasEveryBid
  <2> SUFFICES ASSUME RoomInv, ~InFlight, faults = 0, NEW a \in Auctions, bids[a] # <<>>
               PROVE  /\ \A b \in DOMAIN bids[a] : \E i \in RoomEvents(a, "bidPlaced") :
                           feed[a][i].amount = bids[a][b].amount
                      /\ \E i \in RoomEvents(a, "bidPlaced") : feed[a][i].count = Len(bids[a])
    <3>1. RoomInv => faults \in Nat
      BY DEF RoomInv, IndInv, TypeOK, StoreTypeOK
    <3> QED
      BY <3>1 DEF RoomHasEveryBid
  <2>1. \A r \in Requests : req[r].pc = "idle"
    BY DEF InFlight
  <2> QED
    BY <2>1 DEF RoomInv, BidCovered, CountCovered
<1> QED
  BY <1>1, <1>2, <1>3, IndInvAlways, PTL DEF Spec
-----------------------------------------------------------------------------
(* When a closed state is final                                             *)

\* Worker w has loaded auction a, LIVE, and not saved it yet.
Holding(w, a) ==
  \/ task[w].pc \in {"select", "update"} /\ task[w].auction = a
  \/ \E l \in task[w].todo : l.auction = a

\* Request r is a purchase of auction a between its read and its commit.
Buying(r, a) == req[r].pc = "write" /\ req[r].op = "buyNow" /\ req[r].auction = a

\* While one worker holds an auction, no other does and nobody is buying it.
OneCloserAnAuction ==
  \A a \in Auctions :
    /\ \A v, w \in Workers : Holding(v, a) /\ Holding(w, a) => v = w
    /\ \A w \in Workers, r \in Requests : ~(Holding(w, a) /\ Buying(r, a))

\* A tick loaded each auction once, and the one it is at is off its list.
LoopOnce(w) ==
  /\ \A l, m \in task[w].todo : l.auction = m.auction => l = m
  /\ task[w].pc \in {"select", "update"} => \A l \in task[w].todo : l.auction # task[w].auction

HoldInv ==
  /\ IndInv
  /\ \A w \in Workers, a \in Auctions : Holding(w, a) => row[a].state = "LIVE"
  /\ \A w \in Workers : LoopOnce(w)

\* What a step may do with a task, as far as it holds auctions.
TaskMoves(x) ==
  \/ task'[x] = task[x]
  \/ task'[x].pc \in {"idle", "insert"} /\ task'[x].todo = {}
  \/ /\ row' = row /\ task'[x].pc = "select" /\ task'[x].todo = {}
     /\ row[task'[x].auction].state = "LIVE"
  \/ /\ row' = row /\ task'[x].pc = "next"
     /\ task'[x].todo = {[auction |-> a, entity |-> row[a]] : a \in ExpiredLive}
  \/ \E l \in task[x].todo : /\ task[x].pc = "next" /\ task'[x].pc = "select"
                             /\ task'[x].auction = l.auction
                             /\ task'[x].todo = task[x].todo \ {l}
  \/ /\ task[x].pc \in {"select", "update"} /\ task'[x].pc \in {"update", "announce"}
     /\ task[x].pc = "update" => task'[x].pc = "announce"
     /\ task'[x].auction = task[x].auction /\ task'[x].todo = task[x].todo
  \/ task'[x].pc = "next" /\ task'[x].todo = task[x].todo

\* No step does anything else.
LEMMA TaskMovesNext ==
  ASSUME TypeOK, [Next]_vars, NEW x \in Workers
  PROVE  TaskMoves(x)
<1> DEFINE t == task[x]
<1>1. task \in [Workers -> Task] /\ t \in Task
  BY DEF TypeOK, ServiceTypeOK
<1>2. CASE task'[x] = t
  BY <1>2 DEF TaskMoves
<1>3. CASE task'[x] = NoTask
  BY <1>3 DEF TaskMoves, NoTask
<1>4. ASSUME NEW u \in Users, NEW a \in Auctions, NEW tt \in Terms, LaunchChecks(x, u, a, tt)
      PROVE  TaskMoves(x)
  BY <1>1, <1>4 DEF LaunchChecks, NoTask, TaskMoves
<1>5. ASSUME NEW u \in Users, NEW a \in Auctions, EndManually(x, u, a)
      PROVE  TaskMoves(x)
  BY <1>1, <1>5 DEF EndManually, NoTask, TaskMoves, storeVars
<1>6. CASE CloseExpired(x)
  BY <1>1, <1>6 DEF CloseExpired, NoTask, TaskMoves, storeVars
<1>7. ASSUME NEW l \in t.todo, NextExpired(x, l)
      PROVE  TaskMoves(x)
  BY <1>1, <1>7 DEF NextExpired, Task, TaskMoves
<1>8. CASE SaveSelects(x)
  BY <1>1, <1>8 DEF SaveSelects, Task, TaskMoves
<1>9. CASE SaveUpdates(x)
  BY <1>1, <1>9 DEF SaveUpdates, Task, TaskMoves
<1>10. CASE Announce(x)
  BY <1>1, <1>3, <1>10 DEF Announce, NoTask, TaskMoves
<1>11. ASSUME NEW past \in BOOLEAN, LaunchInserts(x, past)
       PROVE  TaskMoves(x)
  BY <1>1, <1>3, <1>11 DEF LaunchInserts, Drop
<1>12. ASSUME NEW w \in Managers, ManagerArrives(w)
       PROVE  TaskMoves(x)
  BY <1>1, <1>2, <1>4, <1>5, <1>12 DEF ManagerArrives, LaunchChecks, EndManually
<1>13. ASSUME NEW w \in Ticks, CloseExpired(w)
       PROVE  TaskMoves(x)
  BY <1>1, <1>2, <1>6, <1>13 DEF CloseExpired
<1>14. ASSUME NEW w \in Workers, TaskStep(w)
       PROVE  TaskMoves(x)
  <2>1. CASE w = x
    BY <1>7, <1>8, <1>9, <1>10, <1>11, <1>14, <2>1 DEF TaskStep
  <2>2. CASE w # x
    <3>1. task'[x] = t
      BY <1>1, <1>14, <2>2
         DEF TaskStep, LaunchInserts, NextExpired, SaveSelects, SaveUpdates, Announce, Drop
    <3> QED
      BY <1>2, <3>1
  <2> QED
    BY <2>1, <2>2
<1>15. CASE Fault
  BY <1>1, <1>2, <1>3, <1>15 DEF Fault, Crash, SaveFails, Drop
<1> QED
  BY <1>2, <1>12, <1>13, <1>14, <1>15 DEF Next, BidNext, ServiceNext, EndDatePasses, vars

\* What changes the state of a launched auction: a purchase, which found it
\* LIVE, and a save.
LEMMA StateChanges ==
  ASSUME IndInv, [Next]_vars, NEW a \in Auctions, row[a].state # "ABSENT",
         row'[a].state # row[a].state
  PROVE  \/ /\ task' = task /\ row[a].state = "LIVE"
            /\ \E r \in Requests : Buying(r, a)
         \/ \E w \in Workers : SaveUpdates(w) /\ task[w].auction = a
<1>1. TypeOK /\ row \in [Auctions -> Row]
  BY DEF IndInv, TypeOK, StoreTypeOK
<1>2. ASSUME NEW r \in Requests, PlaceBidCommits(r)
      PROVE  FALSE
  <2>1. row' = [row EXCEPT ![req[r].auction] =
                  Updated(@, [req[r].snap EXCEPT !.highest = req[r].amount], {"highest"})]
    BY <1>2 DEF PlaceBidCommits, CommitBid
  <2> QED
    BY <1>1, <2>1 DEF Updated
<1>3. ASSUME NEW r \in Requests, BuyNowCommits(r), task' = task
      PROVE  task' = task /\ row[a].state = "LIVE" /\ Buying(r, a)
  <2>1. req[r].auction = a
    BY <1>1, <1>3 DEF BuyNowCommits, CommitBid
  <2>2. row[a].state = "LIVE"
    BY <1>3, <2>1 DEF BuyNowCommits, IndInv, RequestInv, SnapshotCurrent
  <2> QED
    BY <1>3, <2>1, <2>2 DEF BuyNowCommits, Buying
<1>4. ASSUME NEW w \in Workers, SaveUpdates(w)
      PROVE  task[w].auction = a
  BY <1>1, <1>4 DEF SaveUpdates
<1>5. ASSUME NEW w \in Workers, NEW past \in BOOLEAN, LaunchInserts(w, past)
      PROVE  FALSE
  BY <1>1, <1>5 DEF LaunchInserts, UniqueAd
<1>6. CASE BidNext
  BY <1>2, <1>3, <1>6
     DEF BidNext, RequestArrives, PlaceBid, BuyNow, Receive, RequestStep, PlaceBidReads,
         BuyNowReads, SerializationFailure, NotifyOutbid, NotifySold, CountBids, EmitBidPlaced,
         EmitSold, storeVars
<1>7. CASE ServiceNext
  BY <1>4, <1>5, <1>7
     DEF ServiceNext, Workers, ManagerArrives, LaunchChecks, EndManually, CloseExpired, TaskStep,
         NextExpired, SaveSelects, Announce, storeVars
<1> QED
  BY <1>6, <1>7
     DEF Next, EndDatePasses, Fault, Crash, CountFails, SaveFails, vars, storeVars

\* A worker's save ends its hold.
LEMMA SaveEndsHold ==
  ASSUME TypeOK, NEW w \in Workers, SaveUpdates(w), LoopOnce(w),
         NEW a \in Auctions, task[w].auction = a
  PROVE  Holding(w, a) /\ ~Holding(w, a)'
BY DEF SaveUpdates, TypeOK, ServiceTypeOK, Task, Holding, LoopOnce

\* Loads and steps of the loop keep the lists as they should be.
LEMMA LoopOnceNext ==
  ASSUME TypeOK, [Next]_vars, NEW w \in Workers, LoopOnce(w)
  PROVE  LoopOnce(w)'
<1>1. TaskMoves(w)
  BY TaskMovesNext
<1> QED
  BY <1>1 DEF TaskMoves, LoopOnce

\* What a worker holds was LIVE when it was loaded and has stayed so.
LEMMA HeldStaysLive ==
  ASSUME HoldInv, OneCloserAnAuction, [Next]_vars, NEW w \in Workers, NEW a \in Auctions,
         Holding(w, a)'
  PROVE  row'[a].state = "LIVE"
<1>1. TypeOK /\ IndInv
  BY DEF HoldInv, IndInv
<1>2. Holding(w, a) \/ (row' = row /\ row[a].state = "LIVE")
  <2>1. TaskMoves(w)
    BY <1>1, TaskMovesNext
  <2> QED
    BY <2>1 DEF TaskMoves, Holding, ExpiredLive
<1>3. CASE row' = row /\ row[a].state = "LIVE"
  BY <1>3
<1>4. CASE Holding(w, a)
  <2>1. row[a].state = "LIVE"
    BY <1>4 DEF HoldInv
  <2>2. SUFFICES ASSUME row'[a].state # row[a].state
                 PROVE  FALSE
    BY <2>1
  <2>3. CASE task' = task /\ \E r \in Requests : Buying(r, a)
    BY <1>4, <2>3 DEF OneCloserAnAuction
  <2>4. ASSUME NEW v \in Workers, SaveUpdates(v), task[v].auction = a
        PROVE  FALSE
    <3>1. Holding(v, a) /\ ~Holding(v, a)'
      BY <1>1, <2>4, SaveEndsHold DEF HoldInv
    <3>2. v = w
      BY <1>4, <3>1 DEF OneCloserAnAuction
    <3> QED
      BY <3>1, <3>2
  <2> QED
    BY <1>1, <2>1, <2>2, <2>3, <2>4, StateChanges
<1> QED
  BY <1>2, <1>3, <1>4

\* "State transitions are guarded here", the comment on the Auction entity says
\* of sell, expire and cancel. What the guards need for a closed auction never to
\* change state again is that whoever decides on a loaded auction is alone with
\* it: no other call or tick has it loaded, and nobody is buying it.
THEOREM ClosedStateIsFinalApart == Spec /\ []OneCloserAnAuction => ClosedStateIsFinal
<1> DEFINE Final == \A a \in Auctions : row[a].state \in TerminalStates =>
                      row'[a].state = row[a].state
<1>1. Init => HoldInv
  <2> SUFFICES ASSUME Init PROVE HoldInv
    OBVIOUS
  <2>1. \A w \in Workers : task[w].pc = "idle" /\ task[w].todo = {}
    BY DEF Init, ServiceInit, NoTask
  <2> QED
    BY <2>1, IndInvInit DEF HoldInv, Holding, LoopOnce
<1>2. HoldInv /\ OneCloserAnAuction /\ [Next]_vars => HoldInv'
  <2> SUFFICES ASSUME HoldInv, OneCloserAnAuction, [Next]_vars PROVE HoldInv'
    OBVIOUS
  <2>1. IndInv' /\ TypeOK
    BY IndInvStep DEF HoldInv, IndInv
  <2>2. \A w \in Workers, a \in Auctions : Holding(w, a)' => row'[a].state = "LIVE"
    BY HeldStaysLive
  <2>3. \A w \in Workers : LoopOnce(w)'
    BY <2>1, LoopOnceNext DEF HoldInv
  <2> QED
    BY <2>1, <2>2, <2>3 DEF HoldInv
<1>3. HoldInv /\ [Next]_vars => [Final]_vars
  <2> SUFFICES ASSUME HoldInv, [Next]_vars, NEW a \in Auctions, row[a].state \in TerminalStates,
                      row'[a].state # row[a].state
               PROVE  FALSE
    OBVIOUS
  <2>1. TypeOK /\ IndInv /\ row[a].state \notin {"ABSENT", "LIVE"}
    BY DEF HoldInv, IndInv, TerminalStates
  <2>2. PICK w \in Workers : SaveUpdates(w) /\ task[w].auction = a
    BY <2>1, StateChanges
  <2>3. Holding(w, a)
    BY <2>1, <2>2, SaveEndsHold DEF HoldInv
  <2> QED
    BY <2>1, <2>3 DEF HoldInv
<1> QED
  BY <1>1, <1>2, <1>3, PTL DEF Spec, ClosedStateIsFinal
=============================================================================
