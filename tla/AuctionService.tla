--------------------------- MODULE AuctionService ---------------------------
(***************************************************************************)
(* AuctionService: launch and endManually, called over HTTP, and           *)
(* closeExpired, called by SchedulerService's cron every minute whether or *)
(* not the previous tick is done.  None of them runs in a transaction of   *)
(* its own.                                                                *)
(*                                                                         *)
(* auctionRepository.save(entity) is TypeORM's save outside a transaction: *)
(* it selects the current row, keeps the columns in which the entity       *)
(* differs from it, and then updates exactly these columns, whatever the   *)
(* row has become in between (READ COMMITTED).                             *)
(***************************************************************************)
EXTENDS AuctionStore

CONSTANTS
  Managers,    \* the launch and end calls handled at the same time
  Ticks        \* the cron ticks that may overlap

ASSUME ServiceAssumption == Managers \intersect Ticks = {}

VARIABLE task  \* what each call and each tick is doing

Workers == Managers \union Ticks

Loaded == [auction : Auctions, entity : Row]

Task ==
  [pc : {"idle", "insert", "next", "select", "update", "announce"},
   auction : Auctions \union {None}, entity : Row, cols : SUBSET Columns,
   todo : SUBSET Loaded, terms : Terms \union {None}]

NoTask == [pc |-> "idle", auction |-> None, entity |-> AbsentRow, cols |-> {},
           todo |-> {}, terms |-> None]

TaskOK(t) ==
  /\ t \in Task
  /\ t.pc \notin {"idle", "next"} => t.auction \in Auctions
  /\ t.pc = "insert" => t.terms \in Terms
  /\ t.pc \in {"select", "update", "announce"} => t.entity.state \in TerminalStates

ServiceTypeOK == task \in [Workers -> Task] /\ \A w \in Workers : TaskOK(task[w])

ServiceInit == task = [w \in Workers |-> NoTask]

Drop(w) == task' = [task EXCEPT ![w] = NoTask]

\* Owner or administrator.
MayManage(u, a) == u = Seller[a] \/ u \in Admins

-----------------------------------------------------------------------------
(* launch                                                                   *)

\* The ad is validated and has no auction yet.
LaunchChecks(w, u, a, t) ==
  /\ task[w].pc = "idle"
  /\ MayManage(u, a)
  /\ row[a].state = "ABSENT"
  /\ task' = [task EXCEPT ![w] = [NoTask EXCEPT !.pc = "insert", !.auction = a,
                                                !.terms = t]]
  /\ UNCHANGED storeVars

\* launch as it would be without the unique index on "adId": a second insert
\* starts the ad's auction again.
NoUniqueAd(a) == TRUE

\* UNIQUE "adId": the insert fails when another launch won the race.
UniqueAd(a) == row[a].state = "ABSENT"

\* endDate is any date, one in the past included.
LaunchInserts(w, past) ==
  LET a == task[w].auction IN
  /\ task[w].pc = "insert"
  /\ IF UniqueAd(a)
     THEN /\ row' = [row EXCEPT ![a] = [AbsentRow EXCEPT !.state = "LIVE", !.version = 1]]
          /\ terms' = [terms EXCEPT ![a] = task[w].terms]
          /\ ended' = IF past THEN ended \union {a} ELSE ended
     ELSE UNCHANGED <<row, terms, ended>>
  /\ Drop(w)
  /\ UNCHANGED <<bids, notices, feed, faults>>

-----------------------------------------------------------------------------
(* endManually and closeExpired decide on the entity they loaded.           *)

\* The owner or an admin ends a LIVE auction; in any other state the entity
\* throws and nothing changes.
EndManually(w, u, a) ==
  /\ task[w].pc = "idle"
  /\ MayManage(u, a)
  /\ row[a].state = "LIVE"
  /\ task' = [task EXCEPT ![w] =
       [NoTask EXCEPT !.pc = "select", !.auction = a,
          !.entity = [row[a] EXCEPT !.state = EndedManually(row[a], terms[a].reserve)]]]
  /\ UNCHANGED storeVars

\* A filter that only returns auctions somebody has bid on.
ExpiredWithBids == {a \in Auctions : row[a].state = "LIVE" /\ a \in ended /\ bids[a] # <<>>}

\* findExpiredLive: state LIVE and endDate <= now.
ExpiredLive == {a \in Auctions : row[a].state = "LIVE" /\ a \in ended}

CloseExpired(w) ==
  /\ task[w].pc = "idle"
  /\ ExpiredLive # {}
  /\ task' = [task EXCEPT ![w] =
       [NoTask EXCEPT !.pc = "next",
          !.todo = {[auction |-> a, entity |-> row[a]] : a \in ExpiredLive}]]
  /\ UNCHANGED storeVars

\* The loop's next auction, in the order the query happened to return them.
NextExpired(w, l) ==
  LET t == task[w] IN
  /\ t.pc = "next"
  /\ l \in t.todo
  /\ task' = [task EXCEPT ![w] =
       [t EXCEPT !.pc = "select", !.auction = l.auction, !.todo = t.todo \ {l},
          !.entity = [l.entity EXCEPT
                        !.state = Finalized(l.entity, terms[l.auction].reserve)]]]
  /\ UNCHANGED storeVars

-----------------------------------------------------------------------------
(* save(entity), then the announcement                                      *)

\* The select of save finds the columns to write back.
Differing(e, r) == {c \in Columns : e[c] # r[c]}

SaveSelects(w) ==
  LET t == task[w]
      cols == Differing(t.entity, row[t.auction]) IN
  /\ t.pc = "select"
  /\ task' = [task EXCEPT ![w] =
                 [t EXCEPT !.cols = cols, !.pc = IF cols = {} THEN "announce" ELSE "update"]]
  /\ UNCHANGED storeVars

\* The announcement made before the update is known to have succeeded would
\* leave the row as it is.
SaveForgotten(r, e, cols) == r

SavedRow(r, e, cols) == Updated(r, e, cols)

SaveUpdates(w) ==
  LET t == task[w] IN
  /\ t.pc = "update"
  /\ row' = [row EXCEPT ![t.auction] = SavedRow(@, t.entity, t.cols)]
  /\ task' = [task EXCEPT ![w].pc = "announce", ![w].cols = {}]
  /\ UNCHANGED <<terms, ended, bids, notices, feed, faults>>

\* A query of save fails: the handler throws, and a tick drops the auctions
\* it had still to close.
SaveFails(w) ==
  /\ task[w].pc \in {"insert", "select", "update"}
  /\ faults' = faults + 1
  /\ Drop(w)
  /\ UNCHANGED <<row, terms, ended, bids, notices, feed>>

\* The seller is notified and the room forgotten.
AnnounceToSellerOnly(w) ==
  LET t == task[w] IN
  /\ t.pc = "announce"
  /\ Notify([kind |-> "closed", to |-> Seller[t.auction], auction |-> t.auction,
             state |-> t.entity.state])
  /\ task' = [task EXCEPT ![w] = NoTask]
  /\ UNCHANGED <<row, terms, ended, bids, feed, faults>>

\* The seller and the room are told the state the entity was given.
Announce(w) ==
  LET t == task[w] IN
  /\ t.pc = "announce"
  /\ Notify([kind |-> "closed", to |-> Seller[t.auction], auction |-> t.auction,
             state |-> t.entity.state])
  /\ EmitTo(t.auction, [type |-> "auctionClosed", state |-> t.entity.state])
  /\ task' = [task EXCEPT ![w] = IF t.todo = {} THEN NoTask
                                 ELSE [NoTask EXCEPT !.pc = "next", !.todo = t.todo]]
  /\ UNCHANGED <<row, terms, ended, bids, faults>>

-----------------------------------------------------------------------------
ManagerArrives(w) ==
  \E u \in Users, a \in Auctions :
    \/ \E t \in Terms : LaunchChecks(w, u, a, t)
    \/ EndManually(w, u, a)

TaskStep(w) ==
  \/ \E past \in BOOLEAN : LaunchInserts(w, past)
  \/ \E l \in task[w].todo : NextExpired(w, l)
  \/ SaveSelects(w) \/ SaveUpdates(w) \/ Announce(w)
=============================================================================
