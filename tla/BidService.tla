----------------------------- MODULE BidService -----------------------------
(***************************************************************************)
(* BidService: placeBid and buyNow, each a SERIALIZABLE transaction that   *)
(* runSerializable retries on a serialization failure, followed by the     *)
(* notification and the socket events once it has committed.  A request    *)
(* is one HTTP call; it stops at every await, where the others run.        *)
(***************************************************************************)
EXTENDS AuctionStore

CONSTANT Requests     \* the bid and buy-now calls handled at the same time

VARIABLE req          \* what each request is waiting for

MaxSerializationRetries == 3

Request ==
  [pc : {"idle", "begin", "write", "notify", "count", "emit", "emitClosed"},
   op : {"bid", "buyNow"}, user : Users \union {None}, auction : Auctions \union {None},
   amount : Amounts \union {Null}, attempt : 1..MaxSerializationRetries,
   snap : Row, prev : Users \union {None}, count : Nat]

NoRequest == [pc |-> "idle", op |-> "bid", user |-> None, auction |-> None, amount |-> Null,
              attempt |-> 1, snap |-> AbsentRow, prev |-> None, count |-> 0]

\* buyNow learns its amount from the row its transaction reads.
RequestOK(q) ==
  /\ q \in Request
  /\ q.pc # "idle" => /\ q.user \in Users
                      /\ q.auction \in Auctions
                      /\ q.op = "bid" \/ q.pc # "begin" => q.amount \in Amounts

BidTypeOK == req \in [Requests -> Request] /\ \A r \in Requests : RequestOK(req[r])

BidInit == req = [r \in Requests |-> NoRequest]

Finish(r) == req' = [req EXCEPT ![r] = NoRequest]

Goto(r, pc) == req' = [req EXCEPT ![r].pc = pc]

Receive(r, op, u, a, amount) ==
  /\ req[r].pc = "idle"
  /\ req' = [req EXCEPT ![r] = [NoRequest EXCEPT !.pc = "begin", !.op = op, !.user = u,
                                  !.auction = a, !.amount = amount]]
  /\ UNCHANGED storeVars

\* POST /auctions/:id/bids and POST /auctions/:id/buy-now
PlaceBid(r, u, a, amount) == Receive(r, "bid", u, a, amount)
BuyNow(r, u, a) == Receive(r, "buyNow", u, a, Null)

-----------------------------------------------------------------------------
(* The transaction's body, up to its first write, on the snapshot its first *)
(* query takes.  A refused request throws: the transaction rolls back.      *)

\* placeBid's checks without the one that keeps the seller out.
BidAcceptableFromAnyone(u, a, amount) ==
  /\ row[a].state # "ABSENT"
  /\ RegisterBidAllowed(row[a], amount)

BidAcceptable(u, a, amount) ==
  /\ row[a].state # "ABSENT"
  /\ u # Seller[a]
  /\ RegisterBidAllowed(row[a], amount)

PurchaseAcceptable(u, a) ==
  /\ row[a].state # "ABSENT"
  /\ u # Seller[a]
  /\ terms[a].buyNow # Null
  /\ row[a].state = "LIVE"

\* previousBidderId assigned by the first attempt only: a retry keeps the
\* bidder the aborted snapshot showed.
PreviousOnFirstAttempt(q) ==
  IF q.attempt = 1 THEN TopBidders(bids[q.auction]) ELSE {q.prev}

\* Every attempt assigns previousBidderId again, from its own snapshot.
PreviousBidders(q) == TopBidders(bids[q.auction])

PlaceBidReads(r) ==
  LET q == req[r] IN
  /\ q.pc = "begin" /\ q.op = "bid"
  /\ IF BidAcceptable(q.user, q.auction, q.amount)
     THEN \E prev \in PreviousBidders(q) :
            req' = [req EXCEPT ![r] = [q EXCEPT !.pc = "write", !.snap = row[q.auction],
                                                !.prev = prev]]
     ELSE Finish(r)
  /\ UNCHANGED storeVars

BuyNowReads(r) ==
  LET q == req[r] IN
  /\ q.pc = "begin" /\ q.op = "buyNow"
  /\ IF PurchaseAcceptable(q.user, q.auction)
     THEN req' = [req EXCEPT ![r] = [q EXCEPT !.pc = "write", !.snap = row[q.auction],
                                              !.amount = terms[q.auction].buyNow]]
     ELSE Finish(r)
  /\ UNCHANGED storeVars

-----------------------------------------------------------------------------
(* UPDATE, INSERT and COMMIT.  The row lock the UPDATE takes is held to the  *)
(* COMMIT, so nothing that writes the same row comes between them and the   *)
(* three are one step.                                                      *)

\* READ COMMITTED in place of SERIALIZABLE: the update goes ahead whatever
\* version of the row is there by now.
NoConflictCheck(q) == TRUE

SnapshotCurrent(q) == row[q.auction].version = q.snap.version

CommitBid(r, entity, cols) ==
  LET q == req[r] IN
  /\ row' = [row EXCEPT ![q.auction] = Updated(@, entity, cols)]
  /\ bids' = [bids EXCEPT ![q.auction] =
                Append(@, [bidder |-> q.user, amount |-> q.amount])]
  /\ req' = [req EXCEPT ![r] = [q EXCEPT !.pc = "notify", !.snap = AbsentRow,
                                          !.attempt = 1]]
  /\ UNCHANGED <<terms, ended, notices, feed, faults>>

PlaceBidCommits(r) ==
  LET q == req[r] IN
  /\ q.pc = "write" /\ q.op = "bid"
  /\ SnapshotCurrent(q)
  /\ CommitBid(r, [q.snap EXCEPT !.highest = q.amount], {"highest"})

BuyNowCommits(r) ==
  LET q == req[r] IN
  /\ q.pc = "write" /\ q.op = "buyNow"
  /\ SnapshotCurrent(q)
  /\ CommitBid(r, [q.snap EXCEPT !.highest = q.amount, !.state = "SOLD", !.closedAt = TRUE],
               Columns)

\* One attempt too many.
RetriesLeftOffByOne(q) == q.attempt <= MaxSerializationRetries

RetriesLeft(q) == q.attempt < MaxSerializationRetries

\* A loop that does not count its attempts.
RetryForever(r) ==
  /\ req[r].pc = "write"
  /\ req' = [req EXCEPT ![r].pc = "begin", ![r].snap = AbsentRow]
  /\ UNCHANGED storeVars

\* SQLSTATE 40001, mandatory when the snapshot's version of the row is gone
\* and otherwise possible: PostgreSQL also aborts on dangerous structures that
\* turn out to be harmless.  The third failure is thrown to the caller.
SerializationFailure(r) ==
  /\ req[r].pc = "write"
  /\ IF RetriesLeft(req[r])
     THEN req' = [req EXCEPT ![r].pc = "begin", ![r].attempt = @ + 1, ![r].snap = AbsentRow]
     ELSE Finish(r)
  /\ UNCHANGED storeVars

-----------------------------------------------------------------------------
(* After the commit.                                                        *)

\* The outbid bidder is told, unless they outbid themselves; a buy-now only
\* tells the seller that the auction closed.
NotifyOutbid(r) ==
  LET q == req[r] IN
  /\ q.pc = "notify" /\ q.op = "bid"
  /\ IF q.prev \notin {None, q.user}
     THEN Notify([kind |-> "outbid", to |-> q.prev, auction |-> q.auction,
                  amount |-> q.amount])
     ELSE UNCHANGED notices
  /\ Goto(r, "count")
  /\ UNCHANGED <<row, terms, ended, bids, feed, faults>>

NotifySold(r) ==
  LET q == req[r] IN
  /\ q.pc = "notify" /\ q.op = "buyNow"
  /\ Notify([kind |-> "closed", to |-> Seller[q.auction], auction |-> q.auction,
             state |-> "SOLD"])
  /\ Goto(r, "count")
  /\ UNCHANGED <<row, terms, ended, bids, feed, faults>>

\* The count as the request's own transaction found it.
CountedBeforeInsert(a) == Len(bids[a]) - 1

\* The count query of emitBidPlaced.
CountedBids(a) == Len(bids[a])

CountBids(r) ==
  /\ req[r].pc = "count"
  /\ req' = [req EXCEPT ![r].pc = "emit", ![r].count = CountedBids(req[r].auction)]
  /\ UNCHANGED storeVars

EmitBidPlaced(r) ==
  LET q == req[r] IN
  /\ q.pc = "emit"
  /\ EmitTo(q.auction, [type |-> "bidPlaced", amount |-> q.amount, count |-> q.count])
  /\ IF q.op = "buyNow" THEN Goto(r, "emitClosed") ELSE Finish(r)
  /\ UNCHANGED <<row, terms, ended, bids, notices, faults>>

EmitSold(r) ==
  /\ req[r].pc = "emitClosed"
  /\ EmitTo(req[r].auction, [type |-> "auctionClosed", state |-> "SOLD"])
  /\ Finish(r)
  /\ UNCHANGED <<row, terms, ended, bids, notices, faults>>

\* The count query fails: the handler throws although the bid stands, and
\* nothing is emitted.
CountFails(r) ==
  /\ req[r].pc = "count"
  /\ faults' = faults + 1
  /\ Finish(r)
  /\ UNCHANGED <<row, terms, ended, bids, notices, feed>>

-----------------------------------------------------------------------------
RequestArrives(r) ==
  \E u \in Users, a \in Auctions :
    \/ \E amount \in Amounts : PlaceBid(r, u, a, amount)
    \/ BuyNow(r, u, a)

\* What the event loop and the database do with a request once it is there.
RequestStep(r) ==
  \/ PlaceBidReads(r) \/ BuyNowReads(r)
  \/ PlaceBidCommits(r) \/ BuyNowCommits(r) \/ SerializationFailure(r)
  \/ NotifyOutbid(r) \/ NotifySold(r)
  \/ CountBids(r) \/ EmitBidPlaced(r) \/ EmitSold(r)
=============================================================================
