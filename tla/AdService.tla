----------------------------- MODULE AdService -----------------------------
(***************************************************************************)
(* The calls of AdService that change an ad or its thread.  Each loads the *)
(* ad with its relations, decides on the entity, and saves the entity      *)
(* after further awaits.  There is no transaction and no version column,   *)
(* so two calls on one ad overwrite each other field by field.             *)
(***************************************************************************)
EXTENDS AdStore

CONSTANTS
  Handlers,     \* calls handled at the same time
  MaxActive     \* MAX_ACTIVE_ADS_PER_SELLER

ASSUME AdServiceAssumption ==
  /\ MaxActive \in Nat \ {0}
  /\ IsFiniteSet(Handlers)

VARIABLE task   \* what each call is doing

Task ==
  [pc : {"idle", "insert", "select", "update", "notify", "message"},
   op : {"none", "create", "edit", "validate", "reject"},
   ad : Ads \union {None}, user : Users \union {None}, text : Texts \union {None},
   entity : Ad, photos : SUBSET Photos, cols : SUBSET Columns,
   lost : SUBSET Photos, back : SUBSET Photos]

NoTask == [pc |-> "idle", op |-> "none", ad |-> None, user |-> None, text |-> None,
           entity |-> AbsentAd, photos |-> {}, cols |-> {}, lost |-> {}, back |-> {}]

TaskOK(t) ==
  /\ t \in Task
  /\ t.pc \in {"insert", "select", "update"} =>
       t.entity.status # "ABSENT" /\ t.entity.seller \in Users
  /\ t.pc \in {"select", "update", "notify", "message"} => t.ad \in Ads
  /\ t.pc = "message" \/ t.op = "reject" => t.user \in Users /\ t.text \in Texts
  /\ t.pc = "insert" <=> t.op = "create"
  /\ t.pc = "insert" => t.entity.status = "DRAFT" /\ t.entity.reason = None

AdServiceTypeOK == task \in [Handlers -> Task] /\ \A h \in Handlers : TaskOK(task[h])

AdServiceInit == task = [h \in Handlers |-> NoTask]

Drop(h) == task' = [task EXCEPT ![h] = NoTask]

OwnerOrAdmin(u, a) == u = ads[a].seller \/ u \in Admins

-----------------------------------------------------------------------------
(* createAd                                                                 *)

BelowCap(u) == Cardinality(ActiveAds(u)) < MaxActive

\* Bound: the ids of Ads suffice for the inserts under way.
IdsLeft == Cardinality({a \in Ads : ~Exists(a)})
             > Cardinality({h \in Handlers : task[h].pc = "insert"})

\* The count; then the vehicle is created, so that the insert comes later.
CreateAd(h, u, core, content) ==
  /\ task[h].pc = "idle"
  /\ IdsLeft
  /\ BelowCap(u)
  /\ task' = [task EXCEPT ![h] =
       [NoTask EXCEPT !.pc = "insert", !.op = "create",
          !.entity = [status |-> "DRAFT", seller |-> u, core |-> core,
                      content |-> content, reason |-> None]]]
  /\ UNCHANGED adVars

InsertAd(h, a) ==
  /\ task[h].pc = "insert"
  /\ ~Exists(a)
  /\ ads' = [ads EXCEPT ![a] = task[h].entity]
  /\ Drop(h)
  /\ UNCHANGED <<photo, thread, told, rejected, faults>>

-----------------------------------------------------------------------------
(* The calls that load an ad, change the entity and save it                 *)

\* The entity e is on its way to save(), with the photos loaded along with it.
Loads(h, a, op, u, text, e) ==
  /\ task[h].pc = "idle"
  /\ Exists(a)
  /\ task' = [task EXCEPT ![h] =
       [NoTask EXCEPT !.pc = "select", !.op = op, !.ad = a, !.user = u, !.text = text,
                      !.entity = e, !.photos = PhotosOf(a)]]
  /\ UNCHANGED adVars

\* The guard of updateAd if it took what addPhoto takes.
MayUpdateLikePhotos(u, a) == OwnerOrAdmin(u, a) /\ (CanEdit(a) \/ CanEditContent(a))

MayUpdate(u, a) ==
  /\ OwnerOrAdmin(u, a)
  /\ CanEdit(a) \/ (u \in Admins /\ ads[a].status = "REVIEW")

UpdateAd(h, u, a, core, content) ==
  /\ MayUpdate(u, a)
  /\ Loads(h, a, "edit", None, None, [ads[a] EXCEPT !.core = core, !.content = content])

\* The seller's; resubmitForReview() is part of it.
UpdateContent(h, a, content) ==
  /\ CanEditContent(a)
  /\ Loads(h, a, "edit", None, None, [ads[a] EXCEPT !.content = content, !.status = "REVIEW"])

SubmitAd(h, a) ==
  /\ ads[a].status \in {"DRAFT", "REJECTED"}
  /\ Loads(h, a, "edit", None, None, [ads[a] EXCEPT !.status = "REVIEW"])

ValidateAd(h, a) ==
  /\ ads[a].status = "REVIEW"
  /\ Loads(h, a, "validate", None, None, [ads[a] EXCEPT !.status = "VALIDATED"])

RejectAd(h, a, u, text) ==
  /\ u \in Admins
  /\ ads[a].status = "REVIEW"
  /\ Loads(h, a, "reject", u, text, [ads[a] EXCEPT !.status = "REJECTED", !.reason = text])

\* A validation that goes on like a rejection.
AfterDecision(op) == IF op \in {"validate", "reject"} THEN "message" ELSE "idle"

\* What is left to do once the ad is saved.
AfterSave(op) == CASE op = "validate" -> "notify"
                   [] op = "reject"   -> "message"
                   [] OTHER           -> "idle"

Continue(h) ==
  LET t == task[h] IN
  task' = [task EXCEPT ![h] =
    IF AfterSave(t.op) = "idle" THEN NoTask
    ELSE [NoTask EXCEPT !.pc = AfterSave(t.op), !.op = t.op, !.ad = t.ad,
                        !.user = t.user, !.text = t.text]]

\* The select of save(): if nothing differs, there is nothing to update.
SaveSelects(h) ==
  LET t == task[h]
      cols == Differing(t.entity, t.ad)
      lost == PhotosOf(t.ad) \ t.photos
      back == t.photos \ PhotosOf(t.ad) IN
  /\ t.pc = "select"
  /\ IF cols = {} /\ lost = {} /\ back = {}
     THEN Continue(h)
     ELSE task' = [task EXCEPT ![h] = [t EXCEPT !.pc = "update", !.cols = cols,
                                                !.lost = lost, !.back = back]]
  /\ UNCHANGED adVars

\* The updates of save(), which are one transaction.
SaveUpdates(h) ==
  LET t == task[h]
      r == Written(ads[t.ad], t.entity, t.cols) IN
  /\ t.pc = "update"
  /\ ads' = [ads EXCEPT ![t.ad] = r]
  /\ photo' = Reattached(t.ad, t.lost, t.back)
  /\ rejected' = IF r.status = "REJECTED" THEN rejected \union {t.ad} ELSE rejected
  /\ Continue(h)
  /\ UNCHANGED <<thread, told, faults>>

-----------------------------------------------------------------------------
(* What follows a save, and addMessage                                      *)

NotifyValidated(h) ==
  /\ task[h].pc = "notify"
  /\ told' = told \union {task[h].ad}
  /\ Drop(h)
  /\ UNCHANGED <<ads, photo, thread, rejected, faults>>

AddMessage(h, a, u, text) ==
  /\ task[h].pc = "idle"
  /\ Exists(a)
  /\ OwnerOrAdmin(u, a)
  /\ task' = [task EXCEPT ![h] = [NoTask EXCEPT !.pc = "message", !.ad = a,
                                                !.user = u, !.text = text]]
  /\ UNCHANGED adVars

\* A thread that keeps the first rejection of an ad only.
OnlyTheFirst(a, m) == IF thread[a] = {} THEN {m} ELSE thread[a]

WithMessage(a, m) == thread[a] \union {m}

SaveMessage(h) ==
  LET t == task[h] IN
  /\ t.pc = "message"
  /\ thread' = [thread EXCEPT ![t.ad] =
                  WithMessage(t.ad, [sender |-> t.user, text |-> t.text])]
  /\ Drop(h)
  /\ UNCHANGED <<ads, photo, told, rejected, faults>>

\* A query rejects (createVehicle, one of save's, or the message's insert), or
\* the process stops before the call is done.
CallFails(h) ==
  /\ task[h].pc # "idle"
  /\ faults' = faults + 1
  /\ Drop(h)
  /\ UNCHANGED <<ads, photo, thread, told, rejected>>

-----------------------------------------------------------------------------
CallArrives(h) ==
  \/ \E u \in Users, core, content \in Texts : CreateAd(h, u, core, content)
  \/ \E a \in Ads :
       \/ \E u \in Users, core, content \in Texts : UpdateAd(h, u, a, core, content)
       \/ \E content \in Texts : UpdateContent(h, a, content)
       \/ SubmitAd(h, a)
       \/ ValidateAd(h, a)
       \/ \E u \in Users, text \in Texts : RejectAd(h, a, u, text) \/ AddMessage(h, a, u, text)

CallStep(h) ==
  \/ \E a \in Ads : InsertAd(h, a)
  \/ SaveSelects(h) \/ SaveUpdates(h) \/ NotifyValidated(h) \/ SaveMessage(h)
=============================================================================
