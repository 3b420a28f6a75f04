------------------------- MODULE AuctionHouseProofs -------------------------
(***************************************************************************)
(* Proofs about AuctionHouse, for any auctions, users, amounts, requests,  *)
(* workers and number of faults: types, why the bids table and             *)
(* current_highest_bid agree, why AuctionHouse implements the atomic       *)
(* AuctionLedger, and what the buyer's premium promises.                   *)
(*                                                                         *)
(* Neither of the two facts about bids is inductive alone. What carries    *)
(* them is that a request's snapshot is either the current row or has an   *)
(* older version, that an entity about to be saved is closed, and that a   *)
(* save whose select found nothing to write in `state` found the row       *)
(* closed already.                                                         *)
(***************************************************************************)
EXTENDS AuctionHouse, Commission, TLAPS

-----------------------------------------------------------------------------
(* Types                                                                    *)

\* The records an idle request, an idle task and an absent auction hold are well typed.
LEMMA ConstantTypes ==
  /\ AbsentRow \in Row
  /\ NoRequest \in Request /\ NoRequest.pc = "idle"
  /\ NoTask \in Task /\ NoTask.pc = "idle"
BY DEF AbsentRow, Row, AuctionStates, Null, NoRequest, Request, NoTask, Task, Columns,
       MaxSerializationRetries

\* An UPDATE with the values of a well-typed entity leaves a well-typed row.
LEMMA UpdatedRow ==
  ASSUME NEW r \in Row, NEW e \in Row, NEW cols
  PROVE  Updated(r, e, cols) \in Row
  BY DEF Updated, Row

\* Replacing one request by a well-typed one keeps all of them typed.
LEMMA OneRequest ==
  ASSUME BidTypeOK, NEW r \in Requests, NEW q, RequestOK(q), req' = [req EXCEPT ![r] = q]
  PROVE  BidTypeOK'
  BY DEF BidTypeOK, RequestOK

\* A request that ends leaves the others as they are.
LEMMA FinishTyped ==
  ASSUME BidTypeOK, NEW r \in Requests, Finish(r)
  PROVE  BidTypeOK'
  BY ConstantTypes, OneRequest DEF Finish, RequestOK

\* A request past its transaction may move to any later await.
LEMMA GotoTyped ==
  ASSUME BidTypeOK, NEW r \in Requests, req[r].pc \notin {"idle", "begin"},
         NEW pc \in {"notify", "count", "emit", "emitClosed"}, Goto(r, pc)
  PROVE  BidTypeOK'
<1> DEFINE q == [req[r] EXCEPT !.pc = pc]
<1>1. RequestOK(req[r])
  BY DEF BidTypeOK
<1>2. RequestOK(q)
  BY <1>1 DEF RequestOK, Request
<1>3. req' = [req EXCEPT ![r] = q]
  BY DEF Goto
<1> QED
  BY <1>2, <1>3, OneRequest

\* placeBid and buyNow start well typed.
LEMMA ArrivalTyped ==
  ASSUME BidTypeOK, NEW r \in Requests, RequestArrives(r)
  PROVE  BidTypeOK'
<1>1. PICK u \in Users, a \in Auctions, op \in {"bid", "buyNow"}, amount \in Amounts \union {Null} :
        Receive(r, op, u, a, amount) /\ (op = "bid" => amount \in Amounts)
  BY DEF RequestArrives, PlaceBid, BuyNow
<1> DEFINE q == [NoRequest EXCEPT !.pc = "begin", !.op = op, !.user = u,
                                  !.auction = a, !.amount = amount]
<1>2. RequestOK(q)
  BY <1>1, ConstantTypes DEF RequestOK, Request, NoRequest
<1> QED
  BY <1>1, <1>2, OneRequest DEF Receive

\* A buy-now price that is not null is an amount.
LEMMA PurchaseInAmounts ==
  ASSUME StoreTypeOK, NEW a \in Auctions, terms[a].buyNow # Null
  PROVE  terms[a].buyNow \in Amounts
  BY StoreAssumption DEF StoreTypeOK

\* The previous top bidder is a user, or undefined.
LEMMA TopBidderType ==
  ASSUME StoreTypeOK, NEW a \in Auctions
  PROVE  TopBidders(bids[a]) \subseteq Users \union {None}
<1>1. bids[a] \in Seq(Bid)
  BY DEF StoreTypeOK
<1>2. \A i \in DOMAIN bids[a] : bids[a][i] \in Bid
  BY <1>1
<1> QED
  BY <1>2 DEF TopBidders, Bid

\* The reads of both transactions keep the requests typed.
LEMMA ReadsTyped ==
  ASSUME StoreTypeOK, BidTypeOK, NEW r \in Requests, PlaceBidReads(r) \/ BuyNowReads(r)
  PROVE  BidTypeOK'
<1>1. RequestOK(req[r]) /\ req[r] \in Request
  BY DEF BidTypeOK, RequestOK
<1>2. CASE PlaceBidReads(r)
  <2> DEFINE q == req[r]
             p(prev) == [q EXCEPT !.pc = "write", !.snap = row[q.auction], !.prev = prev]
  <2>1. CASE Finish(r)
    BY <2>1, FinishTyped
  <2>2. ASSUME NEW prev \in PreviousBidders(q), req' = [req EXCEPT ![r] = p(prev)]
        PROVE  BidTypeOK'
    <3>1. q.auction \in Auctions /\ q.user \in Users /\ q.amount \in Amounts
      BY <1>1, <1>2 DEF PlaceBidReads, RequestOK
    <3>2. row[q.auction] \in Row /\ prev \in Users \union {None}
      BY <2>2, <3>1, TopBidderType DEF StoreTypeOK, PreviousBidders
    <3>3. RequestOK(p(prev))
      BY <1>1, <3>1, <3>2 DEF RequestOK, Request
    <3> QED
      BY <2>2, <3>3, OneRequest
  <2> QED
    BY <1>2, <2>1, <2>2 DEF PlaceBidReads
<1>3. CASE BuyNowReads(r)
  <2> DEFINE q == req[r]
             p == [q EXCEPT !.pc = "write", !.snap = row[q.auction],
                            !.amount = terms[q.auction].buyNow]
  <2>1. CASE Finish(r)
    BY <2>1, FinishTyped
  <2>2. CASE PurchaseAcceptable(q.user, q.auction) /\ req' = [req EXCEPT ![r] = p]
    <3>1. q.auction \in Auctions /\ q.user \in Users
      BY <1>1, <1>3 DEF BuyNowReads, RequestOK
    <3>2. row[q.auction] \in Row /\ terms[q.auction].buyNow \in Amounts
      BY <2>2, <3>1, PurchaseInAmounts DEF StoreTypeOK, PurchaseAcceptable
    <3>3. RequestOK(p)
      BY <1>1, <3>1, <3>2 DEF RequestOK, Request
    <3> QED
      BY <2>2, <3>3, OneRequest
  <2> QED
    BY <1>3, <2>1, <2>2 DEF BuyNowReads
<1> QED
  BY <1>2, <1>3

\* So do their commits, tables included.
LEMMA CommitTyped ==
  ASSUME StoreTypeOK, BidTypeOK, NEW r \in Requests, PlaceBidCommits(r) \/ BuyNowCommits(r)
  PROVE  StoreTypeOK' /\ BidTypeOK'
<1> DEFINE q == req[r]
           a == q.auction
           p == [q EXCEPT !.pc = "notify", !.snap = AbsentRow, !.attempt = 1]
<1>1. RequestOK(q) /\ q \in Request /\ q.pc = "write"
  BY DEF BidTypeOK, RequestOK, PlaceBidCommits, BuyNowCommits
<1>2. a \in Auctions /\ q.user \in Users /\ q.amount \in Amounts /\ q.snap \in Row
  BY <1>1 DEF RequestOK, Request
<1>3. PICK e \in Row, cols \in SUBSET Columns : CommitBid(r, e, cols)
  <2>1. [q.snap EXCEPT !.highest = q.amount] \in Row
    BY <1>2 DEF Row
  <2>2. [q.snap EXCEPT !.highest = q.amount, !.state = "SOLD", !.closedAt = TRUE] \in Row
    BY <1>2 DEF Row, AuctionStates, TerminalStates
  <2> QED
    BY <2>1, <2>2 DEF PlaceBidCommits, BuyNowCommits, Columns
<1>4. row' \in [Auctions -> Row]
  <2>1. Updated(row[a], e, cols) \in Row
    BY <1>2, UpdatedRow DEF StoreTypeOK
  <2> QED
    BY <1>3, <2>1 DEF StoreTypeOK, CommitBid
<1>5. bids' \in [Auctions -> Seq(Bid)]
  <2> DEFINE b == [bidder |-> q.user, amount |-> q.amount]
  <2>1. b \in Bid
    BY <1>2 DEF Bid
  <2>2. bids[a] \in Seq(Bid)
    BY <1>2 DEF StoreTypeOK
  <2>3. Append(bids[a], b) \in Seq(Bid)
    BY <2>1, <2>2
  <2>4. bids' = [bids EXCEPT ![a] = Append(bids[a], b)]
    BY <1>3 DEF CommitBid
  <2> HIDE DEF b
  <2> QED
    BY <2>3, <2>4 DEF StoreTypeOK
<1>6. StoreTypeOK'
  BY <1>3, <1>4, <1>5 DEF StoreTypeOK, CommitBid
<1>7. BidTypeOK'
  <2>1. 1 \in 1..MaxSerializationRetries
    BY DEF MaxSerializationRetries
  <2>2. RequestOK(p)
    BY <1>1, <1>2, <2>1, ConstantTypes DEF RequestOK, Request
  <2> QED
    BY <1>3, <2>2, OneRequest DEF CommitBid
<1> QED
  BY <1>6, <1>7

\* A serialization failure counts its attempts up to MAX_SERIALIZATION_RETRIES.
LEMMA FailureTyped ==
  ASSUME BidTypeOK, NEW r \in Requests, SerializationFailure(r)
  PROVE  BidTypeOK'
<1> DEFINE q == req[r]
           p == [q EXCEPT !.pc = "begin", !.attempt = @ + 1, !.snap = AbsentRow]
<1>1. RequestOK(q) /\ q \in Request /\ q.pc = "write"
  BY DEF BidTypeOK, RequestOK, SerializationFailure
<1>2. CASE Finish(r)
  BY <1>2, FinishTyped
<1>3. CASE RetriesLeft(q) /\ req' = [req EXCEPT ![r].pc = "begin", ![r].attempt = @ + 1,
                                                ![r].snap = AbsentRow]
  <2>1. q.attempt + 1 \in 1..MaxSerializationRetries
    BY <1>1, <1>3 DEF RetriesLeft, Request, MaxSerializationRetries
  <2>2. RequestOK(p)
    BY <1>1, <2>1, ConstantTypes DEF RequestOK, Request
  <2>3. req' = [req EXCEPT ![r] = p]
    BY <1>3
  <2> QED
    BY <2>2, <2>3, OneRequest
<1> QED
  BY <1>2, <1>3 DEF SerializationFailure

\* One more notification is one of the expected kind.
LEMMA NoticeTyped ==
  ASSUME NEW n \in Notice, StoreTypeOK, Notify(n)
  PROVE  notices' \subseteq Notice
  BY DEF StoreTypeOK, Notify

\* One more event in one room is one of the expected kind.
LEMMA EventTyped ==
  ASSUME NEW a \in Auctions, NEW e \in Event, StoreTypeOK, EmitTo(a, e)
  PROVE  feed' \in [Auctions -> Seq(Event)]
<1>1. Append(feed[a], e) \in Seq(Event)
  BY DEF StoreTypeOK
<1> QED
  BY <1>1 DEF StoreTypeOK, EmitTo

\* The notification, the count and the events keep everything typed.
LEMMA AfterCommitTyped ==
  ASSUME StoreTypeOK, BidTypeOK, NEW r \in Requests,
         \/ NotifyOutbid(r) \/ NotifySold(r) \/ CountBids(r)
         \/ EmitBidPlaced(r) \/ EmitSold(r) \/ CountFails(r)
  PROVE  StoreTypeOK' /\ BidTypeOK'
<1> DEFINE q == req[r]
           a == q.auction
<1>1. RequestOK(q) /\ q \in Request /\ q.pc \notin {"idle", "begin"}
  BY DEF BidTypeOK, RequestOK, NotifyOutbid, NotifySold, CountBids, EmitBidPlaced, EmitSold,
         CountFails
<1>2. a \in Auctions /\ q.user \in Users /\ q.amount \in Amounts /\ q.count \in Nat
  BY <1>1 DEF RequestOK, Request
<1>3. Seller[a] \in Users
  BY <1>2, StoreAssumption
<1>4. CASE NotifyOutbid(r)
  <2>1. CASE q.prev \notin {None, q.user}
    <3> DEFINE n == [kind |-> "outbid", to |-> q.prev, auction |-> a, amount |-> q.amount]
    <3>1. n \in Notice
      BY <1>1, <1>2, <2>1 DEF Notice, Request
    <3>2. notices' \subseteq Notice
      BY <1>4, <2>1, <3>1, NoticeTyped DEF NotifyOutbid
    <3> QED
      BY <1>1, <1>4, <3>2, GotoTyped DEF NotifyOutbid, StoreTypeOK
  <2>2. CASE UNCHANGED notices
    BY <1>1, <1>4, <2>2, GotoTyped DEF NotifyOutbid, StoreTypeOK
  <2> QED
    BY <1>4, <2>1, <2>2 DEF NotifyOutbid
<1>5. CASE NotifySold(r)
  <2> DEFINE n == [kind |-> "closed", to |-> Seller[a], auction |-> a, state |-> "SOLD"]
  <2>1. n \in Notice
    BY <1>2, <1>3 DEF Notice, TerminalStates
  <2>2. notices' \subseteq Notice
    BY <1>5, <2>1, NoticeTyped DEF NotifySold
  <2> QED
    BY <1>1, <1>5, <2>2, GotoTyped DEF NotifySold, StoreTypeOK
<1>6. CASE CountBids(r)
  <2> DEFINE p == [q EXCEPT !.pc = "emit", !.count = CountedBids(a)]
  <2>1. CountedBids(a) \in Nat
    BY <1>2 DEF CountedBids, StoreTypeOK
  <2>2. RequestOK(p)
    BY <1>1, <1>2, <2>1 DEF RequestOK, Request
  <2>3. req' = [req EXCEPT ![r] = p]
    BY <1>6 DEF CountBids
  <2> QED
    BY <1>6, <2>2, <2>3, OneRequest DEF CountBids, StoreTypeOK, storeVars
<1>7. CASE EmitBidPlaced(r)
  <2> DEFINE e == [type |-> "bidPlaced", amount |-> q.amount, count |-> q.count]
  <2>1. e \in Event
    BY <1>2 DEF Event
  <2>2. feed' \in [Auctions -> Seq(Event)]
    BY <1>2, <1>7, <2>1, EventTyped DEF EmitBidPlaced
  <2>3. Goto(r, "emitClosed") \/ Finish(r)
    BY <1>7 DEF EmitBidPlaced
  <2> QED
    BY <1>1, <1>7, <2>2, <2>3, GotoTyped, FinishTyped DEF EmitBidPlaced, StoreTypeOK
<1>8. CASE EmitSold(r)
  <2> DEFINE e == [type |-> "auctionClosed", state |-> "SOLD"]
  <2>1. e \in Event
    BY DEF Event, TerminalStates
  <2>2. feed' \in [Auctions -> Seq(Event)]
    BY <1>2, <1>8, <2>1, EventTyped DEF EmitSold
  <2> QED
    BY <1>8, <2>2, FinishTyped DEF EmitSold, StoreTypeOK
<1>9. CASE CountFails(r)
  BY <1>9, FinishTyped DEF CountFails, StoreTypeOK
<1> QED
  BY <1>4, <1>5, <1>6, <1>7, <1>8, <1>9

\* A bid or buy-now request keeps the tables and the requests well typed.
LEMMA RequestsTyped ==
  ASSUME StoreTypeOK, BidTypeOK, NEW r \in Requests, RequestArrives(r) \/ RequestStep(r)
  PROVE  StoreTypeOK' /\ BidTypeOK'
<1>1. CASE RequestArrives(r)
  <2>1. UNCHANGED storeVars
    BY <1>1 DEF RequestArrives, PlaceBid, BuyNow, Receive
  <2> QED
    BY <1>1, <2>1, ArrivalTyped DEF StoreTypeOK, storeVars
<1>2. CASE PlaceBidReads(r) \/ BuyNowReads(r)
  BY <1>2, ReadsTyped DEF StoreTypeOK, storeVars, PlaceBidReads, BuyNowReads
<1>3. CASE PlaceBidCommits(r) \/ BuyNowCommits(r)
  BY <1>3, CommitTyped
<1>4. CASE SerializationFailure(r)
  BY <1>4, FailureTyped DEF StoreTypeOK, storeVars, SerializationFailure
<1> QED
  BY <1>1, <1>2, <1>3, <1>4, AfterCommitTyped DEF RequestStep

-----------------------------------------------------------------------------
(* Types of the lifecycle tasks                                             *)

\* Replacing one task by a well-typed one keeps all of them typed.
LEMMA OneTask ==
  ASSUME ServiceTypeOK, NEW w \in Workers, NEW t, TaskOK(t), task' = [task EXCEPT ![w] = t]
  PROVE  ServiceTypeOK'
  BY DEF ServiceTypeOK, TaskOK

\* A task that ends leaves the others as they are.
LEMMA DropTyped ==
  ASSUME ServiceTypeOK, NEW w \in Workers, Drop(w)
  PROVE  ServiceTypeOK'
  BY ConstantTypes, OneTask DEF Drop, TaskOK

\* finalize and endManually end in a terminal state.
LEMMA ClosingStates ==
  ASSUME NEW e \in Row, NEW reserve
  PROVE  /\ Finalized(e, reserve) \in TerminalStates
         /\ EndedManually(e, reserve) \in TerminalStates
         /\ [e EXCEPT !.state = Finalized(e, reserve)] \in Row
         /\ [e EXCEPT !.state = EndedManually(e, reserve)] \in Row
<1>1. /\ Finalized(e, reserve) \in TerminalStates
      /\ EndedManually(e, reserve) \in TerminalStates
  BY DEF Finalized, EndedManually, TerminalStates
<1> QED
  BY <1>1 DEF Row, AuctionStates

\* launch and endManually start well typed.
LEMMA ManagerTyped ==
  ASSUME StoreTypeOK, ServiceTypeOK, NEW w \in Workers, ManagerArrives(w)
  PROVE  ServiceTypeOK'
<1>1. ASSUME NEW u \in Users, NEW a \in Auctions, NEW t \in Terms, LaunchChecks(w, u, a, t)
      PROVE  ServiceTypeOK'
  <2> DEFINE p == [NoTask EXCEPT !.pc = "insert", !.auction = a, !.terms = t]
  <2>1. TaskOK(p)
    BY ConstantTypes DEF TaskOK, Task, NoTask
  <2> QED
    BY <1>1, <2>1, OneTask DEF LaunchChecks
<1>2. ASSUME NEW u \in Users, NEW a \in Auctions, EndManually(w, u, a)
      PROVE  ServiceTypeOK'
  <2> DEFINE e == [row[a] EXCEPT !.state = EndedManually(row[a], terms[a].reserve)]
             p == [NoTask EXCEPT !.pc = "select", !.auction = a, !.entity = e]
  <2>1. row[a] \in Row
    BY DEF StoreTypeOK
  <2>2. e \in Row /\ e.state \in TerminalStates
    BY <2>1, ClosingStates DEF Row
  <2> HIDE DEF e
  <2>3. TaskOK(p)
    BY <2>2, ConstantTypes DEF TaskOK, Task, NoTask
  <2>4. task' = [task EXCEPT ![w] = p]
    BY <1>2 DEF EndManually, e
  <2> QED
    BY <2>3, <2>4, OneTask
<1> QED
  BY <1>1, <1>2 DEF ManagerArrives

\* So does a cron tick, with every entity it loaded.
LEMMA TickTyped ==
  ASSUME StoreTypeOK, ServiceTypeOK, NEW w \in Workers, CloseExpired(w)
  PROVE  ServiceTypeOK'
<1> DEFINE todo == {[auction |-> a, entity |-> row[a]] : a \in ExpiredLive}
           p == [NoTask EXCEPT !.pc = "next", !.todo = todo]
<1>1. todo \subseteq Loaded
  BY DEF ExpiredLive, Loaded, StoreTypeOK
<1>2. task' = [task EXCEPT ![w] = p]
  BY DEF CloseExpired
<1> HIDE DEF todo
<1>3. TaskOK(p)
  BY <1>1, ConstantTypes DEF TaskOK, Task, NoTask
<1> QED
  BY <1>2, <1>3, OneTask

\* Every step of a launch, an end or a tick keeps everything typed.
LEMMA TaskStepTyped ==
  ASSUME StoreTypeOK, ServiceTypeOK, NEW w \in Workers, TaskStep(w)
  PROVE  StoreTypeOK' /\ ServiceTypeOK'
<1> DEFINE t == task[w]
           a == t.auction
<1>1. TaskOK(t) /\ t \in Task
  BY DEF ServiceTypeOK, TaskOK
<1>2. ASSUME NEW past \in BOOLEAN, LaunchInserts(w, past)
      PROVE  StoreTypeOK' /\ ServiceTypeOK'
  <2>1. a \in Auctions /\ t.terms \in Terms
    BY <1>1, <1>2 DEF TaskOK, LaunchInserts
  <2>2. [AbsentRow EXCEPT !.state = "LIVE", !.version = 1] \in Row
    BY ConstantTypes DEF Row, AuctionStates
  <2>3. /\ row' \in [Auctions -> Row]
        /\ terms' \in [Auctions -> Terms]
        /\ ended' \subseteq Auctions
    BY <1>2, <2>1, <2>2 DEF LaunchInserts, StoreTypeOK
  <2> QED
    BY <1>2, <2>3, DropTyped DEF LaunchInserts, StoreTypeOK
<1>3. ASSUME NEW l \in t.todo, NextExpired(w, l)
      PROVE  StoreTypeOK' /\ ServiceTypeOK'
  <2> DEFINE e == [l.entity EXCEPT !.state = Finalized(l.entity, terms[l.auction].reserve)]
             p == [t EXCEPT !.pc = "select", !.auction = l.auction, !.todo = t.todo \ {l},
                            !.entity = e]
  <2>1. l.auction \in Auctions /\ l.entity \in Row
    BY <1>1 DEF Task, Loaded
  <2>2. e \in Row /\ e.state \in TerminalStates
    BY <2>1, ClosingStates DEF Row
  <2>3. task' = [task EXCEPT ![w] = p]
    BY <1>3 DEF NextExpired
  <2> HIDE DEF e
  <2>4. TaskOK(p)
    BY <1>1, <1>3, <2>1, <2>2 DEF TaskOK, Task, NextExpired
  <2> QED
    BY <1>3, <2>3, <2>4, OneTask DEF NextExpired, StoreTypeOK, storeVars
<1>4. CASE SaveSelects(w)
  <2> DEFINE cols == Differing(t.entity, row[a])
             p == [t EXCEPT !.cols = cols, !.pc = IF cols = {} THEN "announce" ELSE "update"]
  <2>1. cols \subseteq Columns
    BY DEF Differing
  <2>2. task' = [task EXCEPT ![w] = p]
    BY <1>4 DEF SaveSelects
  <2>3. t.pc = "select"
    BY <1>4 DEF SaveSelects
  <2> HIDE DEF cols
  <2>4. TaskOK(p)
    BY <1>1, <2>1, <2>3 DEF TaskOK, Task
  <2> QED
    BY <1>4, <2>2, <2>4, OneTask DEF SaveSelects, StoreTypeOK, storeVars
<1>5. CASE SaveUpdates(w)
  <2> DEFINE p == [t EXCEPT !.pc = "announce", !.cols = {}]
  <2>1. a \in Auctions /\ t.entity \in Row
    BY <1>1, <1>5 DEF TaskOK, Task, SaveUpdates
  <2>2. SavedRow(row[a], t.entity, t.cols) \in Row
    BY <2>1, UpdatedRow DEF StoreTypeOK, SavedRow
  <2>3. row' \in [Auctions -> Row]
    BY <1>5, <2>2 DEF SaveUpdates, StoreTypeOK
  <2>4. TaskOK(p)
    BY <1>1, <1>5 DEF TaskOK, Task, SaveUpdates
  <2>5. task' = [task EXCEPT ![w] = p]
    BY <1>5 DEF SaveUpdates
  <2> QED
    BY <1>5, <2>3, <2>4, <2>5, OneTask DEF SaveUpdates, StoreTypeOK
<1>6. CASE Announce(w)
  <2> DEFINE n == [kind |-> "closed", to |-> Seller[a], auction |-> a,
                   state |-> t.entity.state]
             e == [type |-> "auctionClosed", state |-> t.entity.state]
             p == IF t.todo = {} THEN NoTask ELSE [NoTask EXCEPT !.pc = "next", !.todo = t.todo]
  <2>1. a \in Auctions /\ t.entity.state \in TerminalStates /\ Seller[a] \in Users
    BY <1>1, <1>6, StoreAssumption DEF TaskOK, Announce
  <2>2. n \in Notice /\ e \in Event
    BY <2>1 DEF Notice, Event
  <2>3. notices' \subseteq Notice /\ feed' \in [Auctions -> Seq(Event)]
    BY <1>6, <2>1, <2>2, NoticeTyped, EventTyped DEF Announce
  <2>4. TaskOK(p)
    BY <1>1, ConstantTypes DEF TaskOK, Task, NoTask
  <2>5. task' = [task EXCEPT ![w] = p]
    BY <1>6 DEF Announce
  <2> QED
    BY <1>6, <2>3, <2>4, <2>5, OneTask DEF Announce, StoreTypeOK
<1> QED
  BY <1>2, <1>3, <1>4, <1>5, <1>6 DEF TaskStep

-----------------------------------------------------------------------------
(* Type correctness                                                         *)

\* Crashes and failed queries keep everything typed.
LEMMA FaultTyped ==
  ASSUME TypeOK, Fault
  PROVE  TypeOK'
<1>1. CASE Crash
  BY <1>1, ConstantTypes
     DEF Crash, TypeOK, StoreTypeOK, BidTypeOK, ServiceTypeOK, RequestOK, TaskOK
<1>2. ASSUME NEW r \in Requests, CountFails(r), UNCHANGED task
      PROVE  TypeOK'
  BY <1>2, AfterCommitTyped DEF TypeOK, ServiceTypeOK
<1>3. ASSUME NEW w \in Workers, SaveFails(w), UNCHANGED req
      PROVE  TypeOK'
  BY <1>3, DropTyped DEF SaveFails, TypeOK, StoreTypeOK, BidTypeOK
<1> QED
  BY <1>1, <1>2, <1>3 DEF Fault

\* Type correctness is inductive on its own.
LEMMA TypeStep ==
  ASSUME TypeOK, [Next]_vars
  PROVE  TypeOK'
<1> USE DEF TypeOK
<1>1. CASE BidNext
  BY <1>1, RequestsTyped DEF BidNext, ServiceTypeOK
<1>2. CASE ServiceNext
  <2>1. ASSUME NEW w \in Managers, ManagerArrives(w), UNCHANGED req
        PROVE  TypeOK'
    BY <2>1, ManagerTyped
       DEF Workers, BidTypeOK, StoreTypeOK, storeVars, ManagerArrives, LaunchChecks,
           EndManually
  <2>2. ASSUME NEW w \in Ticks, CloseExpired(w), UNCHANGED req
        PROVE  TypeOK'
    BY <2>2, TickTyped DEF Workers, BidTypeOK, StoreTypeOK, storeVars, CloseExpired
  <2>3. ASSUME NEW w \in Workers, TaskStep(w), UNCHANGED req
        PROVE  TypeOK'
    BY <2>3, TaskStepTyped DEF BidTypeOK
  <2> QED
    BY <1>2, <2>1, <2>2, <2>3 DEF ServiceNext
<1>3. ASSUME NEW a \in Auctions, EndDatePasses(a)
      PROVE  TypeOK'
  BY <1>3 DEF EndDatePasses, StoreTypeOK, BidTypeOK, ServiceTypeOK
<1>4. CASE Fault
  BY <1>4, FaultTyped
<1>5. CASE UNCHANGED vars
  BY <1>5 DEF vars, storeVars, StoreTypeOK, BidTypeOK, ServiceTypeOK
<1> QED
  BY <1>1, <1>2, <1>3, <1>4, <1>5 DEF Next

\* Type correctness: no interleaving of requests, lifecycle calls, cron ticks
\* and faults puts a value in a column, a handler or a message that the code
\* does not have a type for; in particular no attempt number ever exceeds
\* MAX_SERIALIZATION_RETRIES.
THEOREM TypeCorrect == Spec => []TypeOK
<1>1. Init => TypeOK
  BY ConstantTypes
     DEF Init, StoreInit, BidInit, ServiceInit, TypeOK, StoreTypeOK, BidTypeOK,
         ServiceTypeOK, RequestOK, TaskOK
<1>2. TypeOK /\ [Next]_vars => TypeOK'
  BY TypeStep
<1> QED
  BY <1>1, <1>2, PTL DEF Spec

-----------------------------------------------------------------------------
(* The inductive invariant, by auction, by request and by task              *)

Increasing(t) == \A i, j \in DOMAIN t : i < j => t[i].amount < t[j].amount

\* Of one auction: its row r and its bids t.
AuctionInv(r, t) ==
  /\ r.state = "ABSENT" => t = <<>> /\ r.version = 0
  /\ r.state \in {"ABSENT", "LIVE"} => r.highest = LastAmount(t) /\ Increasing(t)

\* Of one request q on an auction with row r and prices p.
RequestInv(q, r, p) ==
  q.pc = "write" =>
    /\ r.state # "ABSENT"
    /\ q.snap.version <= r.version
    /\ q.snap.version = r.version => q.snap = r
    /\ q.snap.state = "LIVE"
    /\ q.user # Seller[q.auction]
    /\ q.op = "bid" => RegisterBidAllowed(q.snap, q.amount)
    /\ q.op = "buyNow" => p.buyNow # Null /\ q.amount = p.buyNow

\* Of one task t, given all rows.
TaskInv(t, rows) ==
  /\ t.pc \in {"select", "update"} => rows[t.auction].state # "ABSENT"
  /\ t.pc = "update" /\ "state" \notin t.cols => rows[t.auction].state \in TerminalStates
  /\ \A l \in t.todo : rows[l.auction].state # "ABSENT"

IndInv ==
  /\ TypeOK
  /\ \A a \in Auctions : AuctionInv(row[a], bids[a])
  /\ \A r \in Requests : RequestInv(req[r], row[req[r].auction], terms[req[r].auction])
  /\ \A w \in Workers : TaskInv(task[w], row)

-----------------------------------------------------------------------------
(* How a row with prices p may become r2 with prices p2                     *)

Evolves(r, r2, p, p2) ==
  /\ r.state # "ABSENT" => r2.state # "ABSENT" /\ p2 = p
  /\ r.state \in TerminalStates => r2.state \in TerminalStates
  /\ r.version <= r2.version
  /\ r.version = r2.version => r2 = r

\* What is known of a request stays true however its auction's row evolves.
LEMMA RequestInvStable ==
  ASSUME NEW q \in Request, NEW r \in Row, NEW r2 \in Row, NEW p, NEW p2,
         RequestInv(q, r, p), Evolves(r, r2, p, p2)
  PROVE  RequestInv(q, r2, p2)
  BY DEF RequestInv, Evolves, Request, Row

\* What is known of a task stays true however the rows evolve.
LEMMA TaskInvStable ==
  ASSUME NEW t \in Task, TaskOK(t),
         NEW rows \in [Auctions -> Row], NEW rows2 \in [Auctions -> Row], NEW p, NEW p2,
         TaskInv(t, rows), \A a \in Auctions : Evolves(rows[a], rows2[a], p[a], p2[a])
  PROVE  TaskInv(t, rows2)
  BY DEF TaskInv, Evolves, Task, TaskOK, Loaded

\* A sequence of increasing bids stays so when a higher one is appended.
LEMMA AppendIncreasing ==
  ASSUME NEW t \in Seq(Bid), Increasing(t), NEW b \in Bid,
         LastAmount(t) # Null => b.amount > LastAmount(t)
  PROVE  /\ Increasing(Append(t, b))
         /\ LastAmount(Append(t, b)) = b.amount
         /\ \A i \in DOMAIN t : t[i].amount < b.amount
<1>1. b.amount \in Nat \ {0} /\ \A i \in DOMAIN t : t[i].amount \in Nat \ {0}
  <2>1. \A c \in Bid : c.amount \in Nat \ {0}
    BY StoreAssumption DEF Bid
  <2>2. \A i \in DOMAIN t : t[i] \in Bid
    OBVIOUS
  <2> QED
    BY <2>1, <2>2
<1>2. \A i \in DOMAIN t : t[i].amount < b.amount
  <2> SUFFICES ASSUME NEW i \in DOMAIN t PROVE t[i].amount < b.amount
    OBVIOUS
  <2>1. Len(t) \in DOMAIN t /\ i <= Len(t) /\ t # <<>>
    OBVIOUS
  <2>2. t[i].amount <= t[Len(t)].amount
    BY <1>1, <2>1 DEF Increasing
  <2>3. t[Len(t)].amount < b.amount
    BY <1>1, <2>1 DEF LastAmount, Null
  <2> QED
    BY <1>1, <2>1, <2>2, <2>3
<1>3. Increasing(Append(t, b))
  BY <1>2 DEF Increasing
<1>4. LastAmount(Append(t, b)) = b.amount
  <2> DEFINE u == Append(t, b)
  <2>1. Len(u) = Len(t) + 1 /\ u[Len(t) + 1] = b
    OBVIOUS
  <2>2. u # <<>>
    BY <2>1
  <2> QED
    BY <2>1, <2>2 DEF LastAmount
<1> QED
  BY <1>2, <1>3, <1>4

-----------------------------------------------------------------------------
(* The four steps that write the tables                                     *)

LedgerStep == [Ledger!LedgerNext]_(Ledger!ledgerVars)

TablesStep ==
  /\ \A a \in Auctions : Evolves(row[a], row'[a], terms[a], terms'[a])
  /\ \A a \in Auctions : AuctionInv(row'[a], bids'[a])
  /\ LedgerStep

\* The tables agree after a step that changes neither.
LEMMA TablesKept ==
  ASSUME IndInv, UNCHANGED <<row, terms, bids>>
  PROVE  TablesStep
<1>1. \A a \in Auctions : Evolves(row[a], row'[a], terms[a], terms'[a])
  BY DEF Evolves, IndInv, TypeOK, StoreTypeOK, Row
<1>2. LedgerStep
  BY DEF LedgerStep, Ledger!ledgerVars
<1> QED
  BY <1>1, <1>2 DEF TablesStep, IndInv

\* They agree after an insert of launch.
LEMMA LaunchTables ==
  ASSUME IndInv, NEW w \in Workers, NEW past \in BOOLEAN, LaunchInserts(w, past)
  PROVE  TablesStep
<1> DEFINE a == task[w].auction
           r2 == [AbsentRow EXCEPT !.state = "LIVE", !.version = 1]
<1>1. CASE UNCHANGED <<row, terms, ended>>
  BY <1>1, TablesKept DEF LaunchInserts
<1>2. CASE UniqueAd(a) /\ row' = [row EXCEPT ![a] = r2]
                       /\ terms' = [terms EXCEPT ![a] = task[w].terms]
  <2>1. a \in Auctions /\ task[w].terms \in Terms
    BY DEF IndInv, TypeOK, ServiceTypeOK, TaskOK, LaunchInserts
  <2>2. row \in [Auctions -> Row] /\ terms \in [Auctions -> Terms] /\ bids' = bids
    BY DEF IndInv, TypeOK, StoreTypeOK, LaunchInserts
  <2>3. row[a].state = "ABSENT" /\ bids[a] = <<>> /\ row[a].highest = Null
    BY <1>2, <2>1 DEF IndInv, AuctionInv, UniqueAd, LastAmount
  <2>4. ASSUME NEW x \in Auctions
        PROVE  Evolves(row[x], row'[x], terms[x], terms'[x]) /\ AuctionInv(row'[x], bids'[x])
    <3>1. CASE x = a
      <4>1. row'[a] = r2 /\ row[a].version = 0
        BY <1>2, <2>1, <2>2, <2>3 DEF IndInv, AuctionInv
      <4> QED
        BY <2>1, <2>2, <2>3, <3>1, <4>1
           DEF Evolves, AuctionInv, AbsentRow, LastAmount, Increasing, TerminalStates, Null
    <3>2. CASE x # a
      BY <1>2, <2>2, <3>2 DEF Evolves, IndInv, Row
    <3> QED
      BY <3>1, <3>2
  <2>5. PICK p \in Amounts \union {Null} : p = task[w].terms.buyNow
    BY <2>1, StoreAssumption
  <2>6. Ledger!Open(a, p)
    BY <1>2, <2>1, <2>2, <2>3, <2>5 DEF Ledger!Open, Phase, AbsentRow
  <2>7. LedgerStep
    BY <2>1, <2>6 DEF LedgerStep, Ledger!LedgerNext
  <2> QED
    BY <2>4, <2>7 DEF TablesStep
<1> QED
  BY <1>1, <1>2 DEF LaunchInserts

\* They agree after a bid commits: its snapshot is the current row.
LEMMA PlaceBidTables ==
  ASSUME IndInv, NEW r \in Requests, PlaceBidCommits(r)
  PROVE  TablesStep
<1> DEFINE q == req[r]
           a == q.auction
           b == [bidder |-> q.user, amount |-> q.amount]
           r2 == Updated(row[a], [q.snap EXCEPT !.highest = q.amount], {"highest"})
<1>1. /\ a \in Auctions /\ q.user \in Users /\ q.amount \in Amounts /\ q \in Request
      /\ q.pc = "write" /\ q.op = "bid" /\ q.snap \in Row
  BY DEF IndInv, TypeOK, BidTypeOK, RequestOK, Request, PlaceBidCommits
<1>2. /\ row \in [Auctions -> Row] /\ bids \in [Auctions -> Seq(Bid)] /\ terms' = terms
      /\ row' = [row EXCEPT ![a] = r2]
      /\ bids' = [bids EXCEPT ![a] = Append(bids[a], b)]
  BY DEF IndInv, TypeOK, StoreTypeOK, PlaceBidCommits, CommitBid
<1>3. q.snap = row[a] /\ row[a].state = "LIVE" /\ q.user # Seller[a]
      /\ RegisterBidAllowed(row[a], q.amount)
  BY <1>1 DEF IndInv, RequestInv, PlaceBidCommits, SnapshotCurrent
<1>4. r2 = [state |-> "LIVE", highest |-> q.amount, closedAt |-> row[a].closedAt,
            version |-> row[a].version + 1]
  BY <1>1, <1>3 DEF Updated, Row
<1>5. /\ row[a].highest = LastAmount(bids[a]) /\ Increasing(bids[a])
      /\ b \in Bid /\ bids[a] \in Seq(Bid) /\ row[a] \in Row
  BY <1>1, <1>2, <1>3 DEF IndInv, AuctionInv, Bid
<1>6. /\ Increasing(Append(bids[a], b))
      /\ LastAmount(Append(bids[a], b)) = q.amount
      /\ \A i \in DOMAIN bids[a] : bids[a][i].amount < q.amount
  BY <1>3, <1>5, AppendIncreasing DEF RegisterBidAllowed
<1>7. ASSUME NEW x \in Auctions
      PROVE  Evolves(row[x], row'[x], terms[x], terms'[x]) /\ AuctionInv(row'[x], bids'[x])
  <2>1. CASE x = a
    <3>1. row'[a] = r2 /\ bids'[a] = Append(bids[a], b)
      BY <1>1, <1>2
    <3> HIDE DEF b, r2
    <3>2. Evolves(row[a], row'[a], terms[a], terms'[a])
      BY <1>2, <1>3, <1>4, <1>5, <3>1 DEF Evolves, TerminalStates, Row
    <3>3. AuctionInv(row'[a], bids'[a])
      BY <1>4, <1>6, <3>1 DEF AuctionInv
    <3> QED
      BY <2>1, <3>2, <3>3
  <2>2. CASE x # a
    BY <1>2, <2>2 DEF Evolves, IndInv, Row
  <2> QED
    BY <2>1, <2>2
<1>8. Ledger!BidOn(a, q.user, q.amount)
  <2>1. bids[a] = <<>> => q.amount >= MinStartingBid
    BY <1>3, <1>5 DEF RegisterBidAllowed, LastAmount
  <2>2. [x \in Auctions |-> Phase(row'[x].state)] = [x \in Auctions |-> Phase(row[x].state)]
    BY <1>1, <1>2, <1>3, <1>4
  <2>3. Phase(row[a].state) = "open"
    BY <1>3 DEF Phase
  <2> QED
    BY <1>1, <1>2, <1>3, <1>6, <2>1, <2>2, <2>3 DEF Ledger!BidOn, Ledger!MayBid, Ledger!Record
<1>9. LedgerStep
  BY <1>1, <1>8 DEF LedgerStep, Ledger!LedgerNext
<1> QED
  BY <1>7, <1>9 DEF TablesStep

\* They agree after a purchase commits, whose auction is closed.
LEMMA BuyNowTables ==
  ASSUME IndInv, NEW r \in Requests, BuyNowCommits(r)
  PROVE  TablesStep
<1> DEFINE q == req[r]
           a == q.auction
           b == [bidder |-> q.user, amount |-> q.amount]
           e == [q.snap EXCEPT !.highest = q.amount, !.state = "SOLD", !.closedAt = TRUE]
           r2 == Updated(row[a], e, Columns)
<1>1. /\ a \in Auctions /\ q.user \in Users /\ q.amount \in Amounts /\ q \in Request
      /\ q.pc = "write" /\ q.op = "buyNow" /\ q.snap \in Row
  BY DEF IndInv, TypeOK, BidTypeOK, RequestOK, Request, BuyNowCommits
<1>2. /\ row \in [Auctions -> Row] /\ bids \in [Auctions -> Seq(Bid)] /\ terms' = terms
      /\ row' = [row EXCEPT ![a] = r2]
      /\ bids' = [bids EXCEPT ![a] = Append(bids[a], b)]
  BY DEF IndInv, TypeOK, StoreTypeOK, BuyNowCommits, CommitBid
<1>3. /\ row[a].state = "LIVE" /\ q.user # Seller[a]
      /\ terms[a].buyNow # Null /\ q.amount = terms[a].buyNow
  BY <1>1 DEF IndInv, RequestInv, BuyNowCommits, SnapshotCurrent
<1>4. r2.state = "SOLD" /\ r2.version = row[a].version + 1
  BY <1>1 DEF Updated, Row, Columns
<1>5. row[a].version \in Nat
  BY <1>1, <1>2 DEF Row
<1>6. ASSUME NEW x \in Auctions
      PROVE  Evolves(row[x], row'[x], terms[x], terms'[x]) /\ AuctionInv(row'[x], bids'[x])
  <2>1. CASE x = a
    <3>1. row'[a] = r2
      BY <1>1, <1>2
    <3> HIDE DEF b, r2
    <3> QED
      BY <1>2, <1>3, <1>4, <1>5, <2>1, <3>1 DEF Evolves, AuctionInv, TerminalStates
  <2>2. CASE x # a
    BY <1>2, <2>2 DEF Evolves, IndInv, Row
  <2> QED
    BY <2>1, <2>2
<1>7. Ledger!Buy(a, q.user)
  <2>1. Phase(row[a].state) = "open" /\ Phase(r2.state) = "closed"
    BY <1>3, <1>4 DEF Phase
  <2> HIDE DEF r2
  <2>2. [x \in Auctions |-> Phase(row'[x].state)]
          = [[x \in Auctions |-> Phase(row[x].state)] EXCEPT ![a] = "closed"]
    BY <1>1, <1>2, <2>1
  <2> QED
    BY <1>1, <1>2, <1>3, <2>1, <2>2 DEF Ledger!Buy, Ledger!MayBuy, Ledger!Record
<1>8. LedgerStep
  BY <1>1, <1>7 DEF LedgerStep, Ledger!LedgerNext
<1> QED
  BY <1>6, <1>8 DEF TablesStep

\* Whatever columns a save writes, a closed entity leaves a closed row.
LEMMA SaveTables ==
  ASSUME IndInv, NEW w \in Workers, SaveUpdates(w)
  PROVE  TablesStep
<1> DEFINE t == task[w]
           a == t.auction
           r2 == SavedRow(row[a], t.entity, t.cols)
<1>1. /\ a \in Auctions /\ t \in Task /\ t.pc = "update"
      /\ t.entity.state \in TerminalStates
  BY DEF IndInv, TypeOK, ServiceTypeOK, TaskOK, SaveUpdates
<1>2. /\ row \in [Auctions -> Row] /\ terms' = terms /\ bids' = bids
      /\ row' = [row EXCEPT ![a] = r2]
  BY DEF IndInv, TypeOK, StoreTypeOK, SaveUpdates
<1>3. row[a].state # "ABSENT" /\ ("state" \notin t.cols => row[a].state \in TerminalStates)
  BY <1>1 DEF IndInv, TaskInv
<1>4. r2.state \in TerminalStates /\ r2.version = row[a].version + 1
  BY <1>1, <1>3 DEF SavedRow, Updated
<1>5. row[a].version \in Nat /\ row[a].state \in AuctionStates
  BY <1>1, <1>2 DEF Row
<1> HIDE DEF r2
<1>6. ASSUME NEW x \in Auctions
      PROVE  Evolves(row[x], row'[x], terms[x], terms'[x]) /\ AuctionInv(row'[x], bids'[x])
  <2>1. CASE x = a
    <3>1. row'[a] = r2
      BY <1>1, <1>2
    <3> QED
      BY <1>2, <1>3, <1>4, <1>5, <2>1, <3>1 DEF Evolves, AuctionInv, TerminalStates
  <2>2. CASE x # a
    BY <1>2, <2>2 DEF Evolves, IndInv, Row
  <2> QED
    BY <2>1, <2>2
<1>7. LedgerStep
  <2>1. Phase(r2.state) = "closed"
    BY <1>4 DEF Phase, TerminalStates
  <2>2. [x \in Auctions |-> Phase(row'[x].state)]
          = [[x \in Auctions |-> Phase(row[x].state)] EXCEPT ![a] = "closed"]
    BY <1>1, <1>2, <2>1
  <2>3. CASE row[a].state = "LIVE"
    <3>1. Phase(row[a].state) = "open"
      BY <2>3 DEF Phase
    <3>2. Ledger!Close(a)
      BY <1>1, <1>2, <2>2, <3>1 DEF Ledger!Close
    <3> QED
      BY <1>1, <3>2 DEF LedgerStep, Ledger!LedgerNext
  <2>4. CASE row[a].state \in TerminalStates
    <3>1. Phase(row[a].state) = "closed"
      BY <2>4 DEF Phase, TerminalStates
    <3>2. [x \in Auctions |-> Phase(row'[x].state)] = [x \in Auctions |-> Phase(row[x].state)]
      BY <1>1, <2>2, <3>1
    <3> QED
      BY <1>2, <3>2 DEF LedgerStep, Ledger!ledgerVars
  <2> QED
    BY <1>3, <1>5, <2>3, <2>4 DEF AuctionStates
<1> QED
  BY <1>6, <1>7 DEF TablesStep

-----------------------------------------------------------------------------
(* Every step                                                               *)

\* They agree after every step.
LEMMA TablesNext ==
  ASSUME IndInv, [Next]_vars
  PROVE  TablesStep
<1>1. CASE BidNext
  <2> SUFFICES ASSUME NEW r \in Requests, RequestArrives(r) \/ RequestStep(r)
               PROVE  TablesStep
    BY <1>1 DEF BidNext
  <2>1. CASE PlaceBidCommits(r)
    BY <2>1, PlaceBidTables
  <2>2. CASE BuyNowCommits(r)
    BY <2>2, BuyNowTables
  <2>3. CASE UNCHANGED <<row, terms, bids>>
    BY <2>3, TablesKept
  <2> QED
    BY <2>1, <2>2, <2>3
       DEF RequestArrives, PlaceBid, BuyNow, Receive, RequestStep, PlaceBidReads, BuyNowReads,
           SerializationFailure, NotifyOutbid, NotifySold, CountBids, EmitBidPlaced, EmitSold,
           storeVars
<1>2. CASE ServiceNext
  <2>1. ASSUME NEW w \in Workers, TaskStep(w)
        PROVE  TablesStep
    <3>1. CASE SaveUpdates(w)
      BY <3>1, SaveTables
    <3>2. ASSUME NEW past \in BOOLEAN, LaunchInserts(w, past)
          PROVE  TablesStep
      BY <3>2, LaunchTables
    <3>3. CASE UNCHANGED <<row, terms, bids>>
      BY <3>3, TablesKept
    <3> QED
      BY <2>1, <3>1, <3>2, <3>3 DEF TaskStep, NextExpired, SaveSelects, Announce, storeVars
  <2>2. CASE UNCHANGED storeVars
    BY <2>2, TablesKept DEF storeVars
  <2> QED
    BY <1>2, <2>1, <2>2
       DEF ServiceNext, ManagerArrives, LaunchChecks, EndManually, CloseExpired
<1>3. CASE UNCHANGED <<row, terms, bids>>
  BY <1>3, TablesKept
<1> QED
  BY <1>1, <1>2, <1>3
     DEF Next, EndDatePasses, Fault, Crash, CountFails, SaveFails, vars, storeVars

\* A request that acts leaves the others alone, and holds a snapshot
\* afterwards only if it has just taken it.
LEMMA OtherRequests ==
  ASSUME TypeOK, NEW r \in Requests, RequestArrives(r) \/ RequestStep(r) \/ CountFails(r)
  PROVE  /\ \A x \in Requests \ {r} : req'[x] = req[x]
         /\ req'[r].pc = "write" => PlaceBidReads(r) \/ BuyNowReads(r)
<1> USE DEF TypeOK, BidTypeOK
<1>1. CASE RequestArrives(r)
  BY <1>1 DEF RequestArrives, PlaceBid, BuyNow, Receive, NoRequest
<1>2. CASE PlaceBidReads(r) \/ BuyNowReads(r)
  BY <1>2 DEF PlaceBidReads, BuyNowReads, Finish
<1>3. CASE PlaceBidCommits(r) \/ BuyNowCommits(r)
  BY <1>3 DEF PlaceBidCommits, BuyNowCommits, CommitBid, Request
<1>4. CASE SerializationFailure(r) \/ NotifyOutbid(r) \/ NotifySold(r)
  BY <1>4 DEF SerializationFailure, NotifyOutbid, NotifySold, Finish, Goto, NoRequest, Request
<1>5. CASE CountBids(r) \/ EmitBidPlaced(r) \/ EmitSold(r) \/ CountFails(r)
  BY <1>5 DEF CountBids, EmitBidPlaced, EmitSold, CountFails, Finish, Goto, NoRequest, Request
<1> QED
  BY <1>1, <1>2, <1>3, <1>4, <1>5 DEF RequestStep

\* Every step keeps what is known of the requests.
LEMMA RequestsNext ==
  ASSUME IndInv, TablesStep, [Next]_vars
  PROVE  \A x \in Requests : RequestInv(req'[x], row'[req'[x].auction], terms'[req'[x].auction])
<1> SUFFICES ASSUME NEW x \in Requests
             PROVE  RequestInv(req'[x], row'[req'[x].auction], terms'[req'[x].auction])
  OBVIOUS
<1>1. TypeOK /\ TypeOK'
  BY TypeStep DEF IndInv
<1>2. CASE req'[x].pc # "write"
  BY <1>2 DEF RequestInv
<1>3. CASE req'[x] = req[x] /\ req[x].pc = "write"
  <2> DEFINE a == req[x].auction
  <2>1. req[x] \in Request /\ a \in Auctions
    BY <1>1, <1>3 DEF TypeOK, BidTypeOK, RequestOK
  <2>2. row[a] \in Row /\ row'[a] \in Row
    BY <1>1, <2>1 DEF TypeOK, StoreTypeOK
  <2>3. RequestInv(req[x], row[a], terms[a]) /\ Evolves(row[a], row'[a], terms[a], terms'[a])
    BY <2>1 DEF IndInv, TablesStep
  <2> QED
    BY <1>3, <2>1, <2>2, <2>3, RequestInvStable
<1>4. CASE PlaceBidReads(x) /\ req'[x].pc = "write"
  <2> DEFINE q == req[x]
             a == q.auction
  <2>1. q \in Request /\ a \in Auctions /\ q.op = "bid"
    BY <1>1, <1>4 DEF TypeOK, BidTypeOK, RequestOK, PlaceBidReads
  <2>2. PICK prev : /\ BidAcceptable(q.user, a, q.amount)
                    /\ req' = [req EXCEPT ![x] = [q EXCEPT !.pc = "write", !.snap = row[a],
                                                           !.prev = prev]]
    <3>1. ~Finish(x)
      BY <1>1, <1>4 DEF TypeOK, BidTypeOK, Finish, NoRequest
    <3> QED
      BY <1>4, <3>1 DEF PlaceBidReads
  <2>3. /\ req'[x].auction = a /\ req'[x].snap = row[a] /\ req'[x].user = q.user
        /\ req'[x].op = "bid" /\ req'[x].amount = q.amount
    BY <1>1, <2>1, <2>2 DEF TypeOK, BidTypeOK, Request
  <2>4. row' = row /\ row[a] \in Row
    BY <1>1, <1>4, <2>1 DEF PlaceBidReads, storeVars, TypeOK, StoreTypeOK
  <2> QED
    BY <2>2, <2>3, <2>4 DEF RequestInv, BidAcceptable, RegisterBidAllowed, Row
<1>5. CASE BuyNowReads(x) /\ req'[x].pc = "write"
  <2> DEFINE q == req[x]
             a == q.auction
  <2>1. q \in Request /\ a \in Auctions /\ q.op = "buyNow"
    BY <1>1, <1>5 DEF TypeOK, BidTypeOK, RequestOK, BuyNowReads
  <2>2. /\ PurchaseAcceptable(q.user, a)
        /\ req' = [req EXCEPT ![x] = [q EXCEPT !.pc = "write", !.snap = row[a],
                                               !.amount = terms[a].buyNow]]
    BY <1>1, <1>5 DEF TypeOK, BidTypeOK, BuyNowReads, Finish, NoRequest
  <2>3. /\ req'[x].auction = a /\ req'[x].snap = row[a] /\ req'[x].user = q.user
        /\ req'[x].op = "buyNow" /\ req'[x].amount = terms[a].buyNow
    BY <1>1, <2>1, <2>2 DEF TypeOK, BidTypeOK, Request
  <2>4. row' = row /\ terms' = terms /\ row[a] \in Row
    BY <1>1, <1>5, <2>1 DEF BuyNowReads, storeVars, TypeOK, StoreTypeOK
  <2> QED
    BY <2>2, <2>3, <2>4 DEF RequestInv, PurchaseAcceptable, Row
<1>6. ASSUME NEW r \in Requests, RequestArrives(r) \/ RequestStep(r) \/ CountFails(r)
      PROVE  RequestInv(req'[x], row'[req'[x].auction], terms'[req'[x].auction])
  BY <1>1, <1>2, <1>3, <1>4, <1>5, <1>6, OtherRequests
<1>7. CASE req' = req
  BY <1>2, <1>3, <1>7
<1>8. CASE Crash
  BY <1>2, <1>8 DEF Crash, NoRequest
<1> QED
  BY <1>6, <1>7, <1>8 DEF Next, BidNext, ServiceNext, EndDatePasses, Fault, vars

\* Every step keeps what is known of the tasks.
LEMMA TasksNext ==
  ASSUME IndInv, TablesStep, [Next]_vars
  PROVE  \A x \in Workers : TaskInv(task'[x], row')
<1> SUFFICES ASSUME NEW x \in Workers PROVE TaskInv(task'[x], row')
  OBVIOUS
<1>1. TypeOK /\ TypeOK'
  BY TypeStep DEF IndInv
<1>2. TaskInv(task[x], row')
  <2>1. TaskOK(task[x]) /\ task[x] \in Task
    BY <1>1 DEF TypeOK, ServiceTypeOK
  <2>2. row \in [Auctions -> Row] /\ row' \in [Auctions -> Row]
    BY <1>1 DEF TypeOK, StoreTypeOK
  <2> QED
    BY <2>1, <2>2, TaskInvStable DEF IndInv, TablesStep
<1>3. CASE task'[x] = task[x]
  BY <1>2, <1>3
<1>4. CASE task'[x] = NoTask
  BY <1>4 DEF TaskInv, NoTask
<1>5. ASSUME NEW w \in Managers, ManagerArrives(w)
      PROVE  TaskInv(task'[x], row')
  <2>1. CASE x # w
    BY <1>1, <1>3, <1>5, <2>1
       DEF ManagerArrives, LaunchChecks, EndManually, TypeOK, ServiceTypeOK
  <2>2. CASE x = w
    <3>1. ASSUME NEW u \in Users, NEW a \in Auctions, NEW t \in Terms, LaunchChecks(x, u, a, t)
          PROVE  TaskInv(task'[x], row')
      <4>1. task'[x].pc = "insert" /\ task'[x].todo = {}
        BY <1>1, <3>1 DEF LaunchChecks, NoTask, TypeOK, ServiceTypeOK
      <4> QED
        BY <4>1 DEF TaskInv
    <3>2. ASSUME NEW u \in Users, NEW a \in Auctions, EndManually(x, u, a)
          PROVE  TaskInv(task'[x], row')
      <4>1. /\ task'[x].pc = "select" /\ task'[x].todo = {} /\ task'[x].auction = a
            /\ row'[a].state = "LIVE"
        BY <1>1, <3>2 DEF EndManually, NoTask, storeVars, TypeOK, ServiceTypeOK
      <4> QED
        BY <4>1 DEF TaskInv
    <3> QED
      BY <1>5, <2>2, <3>1, <3>2 DEF ManagerArrives
  <2> QED
    BY <2>1, <2>2
<1>6. ASSUME NEW w \in Ticks, CloseExpired(w)
      PROVE  TaskInv(task'[x], row')
  <2>1. CASE x # w
    BY <1>1, <1>3, <1>6, <2>1 DEF CloseExpired, TypeOK, ServiceTypeOK
  <2>2. CASE x = w
    <3> DEFINE todo == {[auction |-> a, entity |-> row[a]] : a \in ExpiredLive}
    <3>1. \A l \in todo : row[l.auction].state # "ABSENT"
      BY DEF ExpiredLive
    <3> HIDE DEF todo
    <3>2. task'[x].pc = "next" /\ task'[x].todo = todo /\ row' = row
      BY <1>1, <1>6, <2>2 DEF CloseExpired, todo, NoTask, storeVars, TypeOK, ServiceTypeOK
    <3> QED
      BY <3>1, <3>2 DEF TaskInv
  <2> QED
    BY <2>1, <2>2
<1>7. ASSUME NEW w \in Workers, TaskStep(w)
      PROVE  TaskInv(task'[x], row')
  <2>1. CASE x # w
    <3>1. task'[x] = task[x]
      BY <1>1, <1>7, <2>1
         DEF TaskStep, LaunchInserts, NextExpired, SaveSelects, SaveUpdates, Announce, Drop,
             TypeOK, ServiceTypeOK
    <3> QED
      BY <1>3, <3>1
  <2>2. CASE x = w
    <3> DEFINE t == task[x]
    <3>1. t \in Task /\ TaskOK(t)
      BY <1>1 DEF TypeOK, ServiceTypeOK
    <3>2. ASSUME NEW past \in BOOLEAN, LaunchInserts(x, past)
          PROVE  TaskInv(task'[x], row')
      BY <1>1, <1>4, <3>2 DEF LaunchInserts, Drop, TypeOK, ServiceTypeOK
    <3>3. ASSUME NEW l \in t.todo, NextExpired(x, l)
          PROVE  TaskInv(task'[x], row')
      <4>1. /\ task'[x].pc = "select" /\ task'[x].auction = l.auction
            /\ task'[x].todo = t.todo \ {l}
        BY <1>1, <3>1, <3>3 DEF NextExpired, TypeOK, ServiceTypeOK, Task
      <4> QED
        BY <1>2, <4>1 DEF TaskInv
    <3>4. CASE SaveSelects(x)
      <4> DEFINE cols == Differing(t.entity, row[t.auction])
      <4>1. /\ task'[x].pc \in {"announce", "update"} /\ task'[x].cols = cols
            /\ task'[x].auction = t.auction /\ task'[x].todo = t.todo
        BY <1>1, <3>1, <3>4 DEF SaveSelects, TypeOK, ServiceTypeOK, Task
      <4>2. row' = row /\ t.pc = "select" /\ t.entity.state \in TerminalStates
        BY <3>1, <3>4 DEF SaveSelects, storeVars, TaskOK
      <4>3. "state" \notin cols => t.entity.state = row[t.auction].state
        BY DEF Differing, Columns
      <4> QED
        BY <1>2, <4>1, <4>2, <4>3 DEF TaskInv
    <3>5. CASE SaveUpdates(x)
      <4>1. task'[x].pc = "announce" /\ task'[x].todo = t.todo
        BY <1>1, <3>1, <3>5 DEF SaveUpdates, TypeOK, ServiceTypeOK, Task
      <4> QED
        BY <1>2, <4>1 DEF TaskInv
    <3>6. CASE Announce(x)
      <4>1. task'[x].pc \in {"idle", "next"} /\ task'[x].todo = t.todo
        BY <1>1, <3>1, <3>6 DEF Announce, NoTask, TypeOK, ServiceTypeOK, Task
      <4> QED
        BY <1>2, <4>1 DEF TaskInv
    <3> QED
      BY <1>7, <2>2, <3>2, <3>3, <3>4, <3>5, <3>6 DEF TaskStep
  <2> QED
    BY <2>1, <2>2
<1>8. CASE Fault
  <2>1. task'[x] = task[x] \/ task'[x] = NoTask
    BY <1>1, <1>8 DEF Fault, Crash, SaveFails, Drop, TypeOK, ServiceTypeOK
  <2> QED
    BY <1>3, <1>4, <2>1
<1>9. CASE task' = task
  BY <1>3, <1>9
<1> QED
  BY <1>5, <1>6, <1>7, <1>8, <1>9 DEF Next, BidNext, ServiceNext, EndDatePasses, vars

-----------------------------------------------------------------------------
(* The theorems                                                             *)

\* The inductive invariant holds initially.
LEMMA IndInvInit ==
  ASSUME Init
  PROVE  IndInv
<1>1. TypeOK
  BY ConstantTypes
     DEF Init, StoreInit, BidInit, ServiceInit, TypeOK, StoreTypeOK, BidTypeOK,
         ServiceTypeOK, RequestOK, TaskOK
<1>2. \A a \in Auctions : AuctionInv(row[a], bids[a])
  BY DEF Init, StoreInit, AuctionInv, AbsentRow, LastAmount, Increasing
<1>3. \A r \in Requests : RequestInv(req[r], row[req[r].auction], terms[req[r].auction])
  BY DEF Init, BidInit, RequestInv, NoRequest
<1>4. \A w \in Workers : TaskInv(task[w], row)
  BY DEF Init, ServiceInit, TaskInv, NoTask
<1> QED
  BY <1>1, <1>2, <1>3, <1>4 DEF IndInv

\* It is kept by every step.
LEMMA IndInvStep ==
  ASSUME IndInv, [Next]_vars
  PROVE  IndInv'
  BY TypeStep, TablesNext, RequestsNext, TasksNext DEF IndInv, TablesStep

\* So it always holds.
LEMMA IndInvAlways == Spec => []IndInv
<1>1. Init => IndInv
  BY IndInvInit
<1>2. IndInv /\ [Next]_vars => IndInv'
  BY IndInvStep
<1> QED
  BY <1>1, <1>2, PTL DEF Spec

\* While an auction is LIVE its current_highest_bid column is the amount of
\* its last bid and its bids increase, whatever requests, saves of stale
\* entities and faults interleave (BidService, AuctionService).
THEOREM HighestBidCorrect == Spec => []HighestIsLastBid
<1>1. IndInv => HighestIsLastBid
  BY DEF IndInv, AuctionInv, HighestIsLastBid, Increasing
<1> QED
  BY <1>1, IndInvAlways, PTL

\* The services implement the atomic ledger: every committed bid beat every
\* earlier one and found its auction open, every purchase found it open, and
\* it is opened and closed at most once (BidService over AuctionService).
THEOREM LedgerImplemented == Spec => ImplementsLedger
<1>1. Init => Ledger!LedgerInit
  <2> SUFFICES ASSUME Init PROVE Ledger!LedgerInit
    OBVIOUS
  <2>1. \A a \in Auctions : Phase(row[a].state) = "none"
    BY DEF Init, StoreInit, AbsentRow, Phase
  <2>2. \A a \in Auctions : terms[a].buyNow \in Amounts \union {Null}
    BY StoreAssumption DEF Init, StoreInit
  <2> QED
    BY <2>1, <2>2 DEF Init, StoreInit, Ledger!LedgerInit
<1>2. IndInv /\ [Next]_vars => LedgerStep
  BY TablesNext DEF TablesStep
<1> QED
  BY <1>1, <1>2, IndInvAlways, PTL DEF Spec, ImplementsLedger, Ledger!LedgerSpec, LedgerStep

-----------------------------------------------------------------------------
(* The buyer's premium                                                      *)

\* Clamping keeps a number between its bounds, and the order of two numbers.
LEMMA ClampIsMonotone ==
  ASSUME NEW x \in Nat, NEW y \in Nat, x <= y, NEW lo \in Nat, NEW hi \in Nat, lo <= hi
  PROVE /\ AtMost(AtLeast(x, lo), hi) \in lo..hi
        /\ AtMost(AtLeast(x, lo), hi) <= AtMost(AtLeast(y, lo), hi)
BY SMTT(30) DEF AtMost, AtLeast

\* The floor and the cap, in twentieths.
LEMMA PremiumLimits ==
  /\ MinCommission * Twentieths \in Nat
  /\ MaxCommission * Twentieths \in Nat
  /\ MinCommission * Twentieths <= MaxCommission * Twentieths
BY SMTT(30) DEF MinCommission, MaxCommission, Twentieths

\* The premium of any price is between its floor and its cap.
THEOREM PremiumIsBounded ==
  ASSUME NEW p \in Nat PROVE Calculate(p) \in (MinCommission * Twentieths)..(MaxCommission * Twentieths)
<1>1. p <= p
  OBVIOUS
<1> QED BY <1>1, ClampIsMonotone, PremiumLimits, ZenonT(60) DEF Calculate

\* A bid that beats another costs its bidder more, premium included: the clamp
\* turns no bidding order around.
THEOREM HigherBidCostsMore ==
  ASSUME NEW p \in Nat, NEW r \in Nat, p < r PROVE TotalForBuyer(p) < TotalForBuyer(r)
<1>1. Calculate(p) <= Calculate(r)
  BY ClampIsMonotone, PremiumLimits, SMTT(30) DEF Calculate
<1>2. Calculate(p) \in Int /\ Calculate(r) \in Int
  BY PremiumIsBounded, PremiumLimits, SMTT(30)
<1>3. p * Twentieths < r * Twentieths /\ p * Twentieths \in Int /\ r * Twentieths \in Int
  BY SMTT(30) DEF Twentieths
<1> QED BY <1>1, <1>2, <1>3, SMTT(30) DEF TotalForBuyer

\* registerBid takes a first bid exactly when the premium is at most half of
\* it, which is what MIN_STARTING_BID is there for (auction.entity.ts:15-18).
THEOREM FirstBidClearsThePremium ==
  ASSUME NEW e, e.state = "LIVE", e.highest = Null, NEW p \in Nat
  PROVE RegisterBidAllowed(e, p) <=> 2 * Calculate(p) <= p * Twentieths
<1>1. RegisterBidAllowed(e, p) <=> p >= MinStartingBid
  BY DEF RegisterBidAllowed
<1>2. p >= MinStartingBid <=> 2 * Calculate(p) <= p * Twentieths
  BY SMTT(30) DEF Calculate, AtMost, AtLeast, MinCommission, MaxCommission, MinStartingBid, Twentieths
<1> QED BY <1>1, <1>2
=============================================================================
