---------------------------- MODULE AdModeration ----------------------------
(***************************************************************************)
(* Ads as a whole: the calls of AdService on an ad and its thread, and the *)
(* uploads and deletions of its photos, interleaved over one database and  *)
(* one bucket.                                                             *)
(***************************************************************************)
EXTENDS AdService, AdPhotos

CONSTANTS
  OneClient,    \* whether all calls come from one client that awaits each answer
  MaxFaults     \* failed queries and uploads a behaviour may contain

ASSUME ModerationAssumption == OneClient \in BOOLEAN /\ MaxFaults \in Nat

vars == <<adVars, task, photoVars>>

Init == AdStoreInit /\ AdServiceInit /\ AdPhotosInit

Fault ==
  /\ faults < MaxFaults
  /\ \/ \E h \in Handlers : CallFails(h) /\ UNCHANGED photoVars
     \/ \E p \in Photos : PhotoFails(p) /\ UNCHANGED task

\* The create-ad page saves the ad, uploads its photos one by one and submits
\* it, awaiting every answer.
Serving == \E h \in Handlers : task[h].pc # "idle"
Uploading == \E p \in Photos : job[p].pc \notin {"picked", "shown", "done"}

CallNext ==
  /\ \E h \in Handlers :
       \/ CallStep(h)
       \/ (OneClient => ~Serving /\ ~Uploading) /\ CallArrives(h)
  /\ UNCHANGED photoVars

PhotoNext ==
  /\ \E p \in Photos :
       \/ PhotoStep(p)
       \/ (OneClient => ~Serving /\ ~Uploading) /\ PhotoCall(p)
  /\ UNCHANGED task

Next == CallNext \/ PhotoNext \/ Fault

Spec == Init /\ [][Next]_vars

-----------------------------------------------------------------------------
(* Safety                                                                   *)

\* Every variable holds what the code can put there.
TypeOK == AdStoreTypeOK /\ AdServiceTypeOK /\ AdPhotosTypeOK

NeverRejected(u) == {a \in Ads : ads[a].seller = u /\ a \notin rejected}

\* createAd counts before it inserts, so calls handled together pass the cap
\* together; but however they interleave with saves of stale entities, a
\* seller's ads that were never rejected, which are active all along, exceed
\* the cap by less than the number of calls handled at the same time.
CapOvershootIsBounded ==
  \A u \in Users : Cardinality(NeverRejected(u)) < MaxActive + Cardinality(Handlers)

\* The reason shown on an ad is also in its message thread, or the call that
\* rejected it is about to put it there, unless a query failed: the two are
\* saved one after the other, and a stale save can bring an old reason back.
ReasonIsInThread ==
  \A a \in Ads :
    \/ ads[a].reason = None
    \/ faults > 0
    \/ \E m \in thread[a] : m.text = ads[a].reason
    \/ \E h \in Handlers : /\ task[h].pc = "message"
                           /\ task[h].ad = a
                           /\ task[h].text = ads[a].reason

\* Unless a query failed, the seller of every VALIDATED ad has been told of it,
\* or the call that validated it is about to: no save of a stale entity makes
\* an ad VALIDATED on its own.
ValidationIsTold ==
  \A a \in Ads :
    \/ ads[a].status # "VALIDATED"
    \/ faults > 0
    \/ a \in told
    \/ \E h \in Handlers : task[h].pc = "notify" /\ task[h].ad = a

Deleted(a) == \E p \in Photos : photo[p].ad = a /\ ~photo[p].exists

\* With one client that awaits every answer, uploads never get in each other's
\* way, even if some of them break off: until a photo of the ad is deleted,
\* each row shows the file it was uploaded with.
RowsShowTheirFiles ==
  \A p \in Photos :
    photo[p].exists /\ ~Deleted(photo[p].ad) => bucket[photo[p].key] = p

-----------------------------------------------------------------------------
(* Refinement: one call at a time implements the lifecycle                  *)

Lifecycle == INSTANCE AdLifecycle WITH
  Unset   <- None,
  status  <- [a \in Ads |-> ads[a].status],
  core    <- [a \in Ads |-> ads[a].core],
  content <- [a \in Ads |-> ads[a].content]

\* As long as no two calls overlap, every behaviour of the service is one of
\* the atomic lifecycle.
ImplementsLifecycle == Lifecycle!LifecycleSpec
=============================================================================
