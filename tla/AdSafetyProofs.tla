--------------------------- MODULE AdSafetyProofs ---------------------------
(***************************************************************************)
(* What AdModeration promises of rejections, validations, photos and the   *)
(* life of an ad: that no rejection reason and no validation goes without  *)
(* its message, however many calls are under way; and, where no two things *)
(* happen to one ad at once, that the rows of the photos show their files  *)
(* and that AdLifecycle is implemented.  A client that awaits each answer  *)
(* (OneClient) is such a case.                                             *)
(***************************************************************************)
EXTENDS AdModerationProofs

-----------------------------------------------------------------------------
(* Rejection reasons                                                        *)

\* The text m is in the thread of ad a, is about to be, or need not be.
Explained(a, m) ==
  \/ m = None
  \/ faults > 0
  \/ \E x \in thread[a] : x.text = m
  \/ \E h \in Handlers : task[h].pc = "message" /\ task[h].ad = a /\ task[h].text = m

\* So is the reason of an entity on its way to save(), unless the call is the
\* rejection that will put it there.
EntityExplained(h) ==
  task[h].pc \in {"select", "update"} =>
    \/ Explained(task[h].ad, task[h].entity.reason)
    \/ task[h].op = "reject" /\ task[h].text = task[h].entity.reason

ReasonInv ==
  /\ TypeInv
  /\ \A a \in Ads : Explained(a, ads[a].reason)
  /\ \A h \in Handlers : EntityExplained(h)

\* What is explained stays so: a message on its way is saved, or its call fails.
LEMMA ExplainedStays ==
  ASSUME ReasonInv, NEW h \in Handlers, CallArrives(h) \/ CallStep(h) \/ CallFails(h),
         NEW a \in Ads, NEW m, Explained(a, m)
  PROVE  Explained(a, m)'
<1>1. /\ AdStoreTypeOK /\ AdServiceTypeOK /\ TypeInv
      /\ thread \in [Ads -> SUBSET Message] /\ faults \in Nat /\ task \in [Handlers -> Task]
      /\ TaskOK(task[h])
  BY DEF ReasonInv, TypeInv, TypeOK, AdStoreTypeOK, AdServiceTypeOK
<1>2. CASE CallFails(h)
  BY <1>1, <1>2 DEF CallFails, Explained
<1>3. CASE SaveMessage(h)
  <2> DEFINE msg == [sender |-> task[h].user, text |-> task[h].text]
             b == task[h].ad
  <2>1. /\ task' = [task EXCEPT ![h] = NoTask] /\ faults' = faults
        /\ thread' = [thread EXCEPT ![b] = thread[b] \union {msg}]
    BY <1>3 DEF SaveMessage, Drop, WithMessage
  <2>2. b \in Ads
    BY <1>1, <1>3 DEF SaveMessage, TaskOK
  <2>3. thread[a] \subseteq thread'[a] /\ msg \in thread'[b] /\ msg.text = task[h].text
    BY <1>1, <2>1, <2>2
  <2>4. \A x \in Handlers \ {h} : task'[x] = task[x]
    BY <1>1, <2>1
  <2> HIDE DEF msg, b
  <2> QED
    BY <2>1, <2>3, <2>4 DEF Explained, b
<1>4. CASE ~CallFails(h) /\ ~SaveMessage(h)
  <2>1. UNCHANGED <<thread, faults>> /\ task[h].pc # "message"
    <3>1. CallArrives(h) => UNCHANGED adVars /\ task[h].pc = "idle"
      BY <1>1, CallArrivesTyped
         DEF CallArrives, CreateAd, UpdateAd, UpdateContent, SubmitAd, ValidateAd, RejectAd,
             AddMessage, Loads
    <3> QED
      BY <1>4, <3>1 DEF CallStep, InsertAd, SaveSelects, SaveUpdates, NotifyValidated, adVars
  <2>2. \A x \in Handlers \ {h} : task'[x] = task[x]
    <3>1. ASSUME NEW t, task' = [task EXCEPT ![h] = t]
          PROVE  \A x \in Handlers \ {h} : task'[x] = task[x]
      BY <1>1, <3>1
    <3>2. \E t : task' = [task EXCEPT ![h] = t]
      BY <1>4 DEF CallArrives, CreateAd, UpdateAd, UpdateContent, SubmitAd, ValidateAd,
                  RejectAd, AddMessage, Loads, CallStep, InsertAd, SaveSelects, SaveUpdates,
                  NotifyValidated, Drop, Continue
    <3> QED
      BY <3>1, <3>2
  <2> QED
    BY <2>1, <2>2 DEF Explained
<1> QED
  BY <1>2, <1>3, <1>4

\* The entity of a call that has just loaded its ad carries the ad's reason, or
\* the one the ad is being rejected with.
LEMMA ArrivalExplained ==
  ASSUME ReasonInv, NEW h \in Handlers, CallArrives(h)
  PROVE  EntityExplained(h)'
<1>1. /\ task \in [Handlers -> Task] /\ ads \in [Ads -> Ad] /\ UNCHANGED adVars
      /\ \A a \in Ads : Explained(a, ads[a].reason)
  BY CallArrivesTyped DEF ReasonInv, TypeInv, TypeOK, AdStoreTypeOK, AdServiceTypeOK
<1>2. ASSUME NEW t, task' = [task EXCEPT ![h] = t], t.pc \notin {"select", "update"}
      PROVE  EntityExplained(h)'
  BY <1>1, <1>2 DEF EntityExplained
<1>3. ASSUME NEW a \in Ads, NEW op, NEW u, NEW text, NEW e, Loads(h, a, op, u, text, e),
             e.reason = ads[a].reason \/ (op = "reject" /\ e.reason = text)
      PROVE  EntityExplained(h)'
  <2> DEFINE t == [NoTask EXCEPT !.pc = "select", !.op = op, !.ad = a, !.user = u,
                                 !.text = text, !.entity = e, !.photos = PhotosOf(a)]
  <2>1. t.op = op /\ t.text = text /\ t.ad = a /\ t.entity = e
    BY DEF NoTask
  <2>2. task' = [task EXCEPT ![h] = t]
    BY <1>3 DEF Loads
  <2> HIDE DEF t
  <2>3. task'[h] = t
    BY <1>1, <2>2
  <2>4. Explained(a, ads[a].reason)'
    BY <1>1, <1>3, ExplainedStays DEF adVars
  <2> QED
    BY <1>1, <1>3, <2>1, <2>3, <2>4 DEF EntityExplained, adVars
<1>4. ASSUME NEW u \in Users, NEW core \in Texts, NEW content \in Texts,
             CreateAd(h, u, core, content)
      PROVE  EntityExplained(h)'
  <2> DEFINE t == [NoTask EXCEPT !.pc = "insert", !.op = "create",
                     !.entity = [status |-> "DRAFT", seller |-> u, core |-> core,
                                 content |-> content, reason |-> None]]
  <2>1. t.pc = "insert"
    BY DEF NoTask
  <2>2. task' = [task EXCEPT ![h] = t]
    BY <1>4 DEF CreateAd
  <2> HIDE DEF t
  <2> QED
    BY <1>2, <2>1, <2>2
<1>5. ASSUME NEW a \in Ads, NEW u \in Users, NEW text \in Texts, AddMessage(h, a, u, text)
      PROVE  EntityExplained(h)'
  <2> DEFINE t == [NoTask EXCEPT !.pc = "message", !.ad = a, !.user = u, !.text = text]
  <2>1. t.pc = "message"
    BY DEF NoTask
  <2>2. task' = [task EXCEPT ![h] = t]
    BY <1>5 DEF AddMessage
  <2> HIDE DEF t
  <2> QED
    BY <1>2, <2>1, <2>2
<1>6. ASSUME NEW a \in Ads, NEW u \in Users, NEW core \in Texts, NEW content \in Texts,
             UpdateAd(h, u, a, core, content)
      PROVE  EntityExplained(h)'
  <2> DEFINE e == [ads[a] EXCEPT !.core = core, !.content = content]
  <2>1. e.reason = ads[a].reason
    BY <1>1 DEF Ad
  <2> QED
    BY <1>3, <1>6, <2>1 DEF UpdateAd
<1>7. ASSUME NEW a \in Ads, NEW content \in Texts, UpdateContent(h, a, content)
      PROVE  EntityExplained(h)'
  <2> DEFINE e == [ads[a] EXCEPT !.content = content, !.status = "REVIEW"]
  <2>1. e.reason = ads[a].reason
    BY <1>1 DEF Ad
  <2> QED
    BY <1>3, <1>7, <2>1 DEF UpdateContent
<1>8. ASSUME NEW a \in Ads, SubmitAd(h, a) \/ ValidateAd(h, a)
      PROVE  EntityExplained(h)'
  <2> DEFINE e(s) == [ads[a] EXCEPT !.status = s]
  <2>1. \A s : e(s).reason = ads[a].reason
    BY <1>1 DEF Ad
  <2> QED
    BY <1>3, <1>8, <2>1 DEF SubmitAd, ValidateAd
<1>9. ASSUME NEW a \in Ads, NEW u \in Users, NEW text \in Texts, RejectAd(h, a, u, text)
      PROVE  EntityExplained(h)'
  <2> DEFINE e == [ads[a] EXCEPT !.status = "REJECTED", !.reason = text]
  <2>1. e.reason = text
    BY <1>1 DEF Ad
  <2> QED
    BY <1>3, <1>9, <2>1 DEF RejectAd
<1> QED
  BY <1>4, <1>5, <1>6, <1>7, <1>8, <1>9 DEF CallArrives

\* save() writes the reason of an entity that is explained, and a rejection
\* then has its message on its way.
LEMMA SaveUpdatesExplained ==
  ASSUME ReasonInv, NEW h \in Handlers, SaveUpdates(h)
  PROVE  (\A a \in Ads : Explained(a, ads[a].reason)') /\ EntityExplained(h)'
<1> DEFINE q == task[h]
           r == Written(ads[q.ad], q.entity, q.cols)
           t == [NoTask EXCEPT !.pc = AfterSave(q.op), !.op = q.op, !.ad = q.ad,
                               !.user = q.user, !.text = q.text]
<1>1. /\ task \in [Handlers -> Task] /\ ads \in [Ads -> Ad] /\ TaskOK(q) /\ EntityExplained(h)
      /\ q.pc = "update" /\ q.ad \in Ads /\ q.entity \in Ad /\ q.entity.status # "ABSENT"
      /\ ads[q.ad] \in Ad /\ ads[q.ad].status # "ABSENT"
  BY DEF ReasonInv, TypeInv, TypeOK, AdStoreTypeOK, AdServiceTypeOK, SaveUpdates, TaskOK, Task,
         LoadedAdsExist, Exists
<1>2. r.reason \in {q.entity.reason, ads[q.ad].reason}
  BY <1>1, WrittenTyped
<1>3. ads' = [ads EXCEPT ![q.ad] = r] /\ Continue(h)
  BY DEF SaveUpdates
<1> HIDE DEF r
<1>4. ads'[q.ad] = r /\ \A x \in Ads \ {q.ad} : ads'[x] = ads[x]
  BY <1>1, <1>3
<1>5. ASSUME NEW a \in Ads, NEW m, Explained(a, m)
      PROVE  Explained(a, m)'
  BY <1>5, ExplainedStays DEF CallStep
<1>6. task'[h].pc \notin {"select", "update"}
  <2>1. t.pc = AfterSave(q.op) /\ AfterSave(q.op) \in {"idle", "notify", "message"}
    BY DEF NoTask, AfterSave
  <2>2. task' = [task EXCEPT ![h] = NoTask] \/ task' = [task EXCEPT ![h] = t]
    BY <1>3 DEF Continue
  <2> HIDE DEF t
  <2> QED
    BY <1>1, <2>1, <2>2, ConstantTypes
<1>7. CASE Explained(q.ad, q.entity.reason)
  <2>1. \A a \in Ads : Explained(a, ads[a].reason)'
    BY <1>1, <1>2, <1>4, <1>5, <1>7 DEF ReasonInv
  <2> QED
    BY <1>6, <2>1 DEF EntityExplained
<1>8. CASE q.op = "reject" /\ q.text = q.entity.reason
  <2>1. t.pc = "message" /\ t.ad = q.ad /\ t.text = q.text
    BY <1>8 DEF NoTask, AfterSave
  <2>2. task' = [task EXCEPT ![h] = t]
    BY <1>3, <1>8 DEF Continue, AfterSave
  <2> HIDE DEF t
  <2>3. task'[h] = t
    BY <1>1, <2>2
  <2>4. ASSUME NEW b \in Ads, NEW m, b = q.ad, m = q.entity.reason
        PROVE  Explained(b, m)'
    BY <1>8, <2>1, <2>3, <2>4 DEF Explained
  <2>5. \A a \in Ads : Explained(a, ads[a].reason)'
    BY <1>1, <1>2, <1>4, <1>5, <2>4 DEF ReasonInv
  <2> QED
    BY <1>6, <2>5 DEF EntityExplained
<1> QED
  BY <1>1, <1>7, <1>8 DEF EntityExplained

\* The other steps write no reason.
LEMMA OtherStepsExplained ==
  ASSUME ReasonInv, NEW h \in Handlers, CallArrives(h) \/ CallStep(h) \/ CallFails(h),
         ~SaveUpdates(h)
  PROVE  (\A a \in Ads : Explained(a, ads[a].reason)') /\ EntityExplained(h)'
<1>1. /\ task \in [Handlers -> Task] /\ ads \in [Ads -> Ad] /\ TaskOK(task[h])
      /\ EntityExplained(h)
  BY DEF ReasonInv, TypeInv, TypeOK, AdStoreTypeOK, AdServiceTypeOK
<1>2. ASSUME NEW a \in Ads, NEW m, Explained(a, m)
      PROVE  Explained(a, m)'
  BY <1>2, ExplainedStays
<1>3. UNCHANGED ads => \A a \in Ads : Explained(a, ads[a].reason)'
  BY <1>2 DEF ReasonInv
<1>4. Drop(h) => EntityExplained(h)'
  <2>1. Drop(h) => task'[h].pc = "idle"
    BY <1>1, ConstantTypes DEF Drop
  <2> QED
    BY <2>1 DEF EntityExplained
<1>5. CASE CallArrives(h)
  BY <1>3, <1>5, ArrivalExplained, CallArrivesTyped DEF ReasonInv, TypeInv, TypeOK, adVars
<1>6. ASSUME NEW a \in Ads, InsertAd(h, a)
      PROVE  (\A x \in Ads : Explained(x, ads[x].reason)') /\ EntityExplained(h)'
  <2>1. task[h].entity.reason = None /\ Drop(h) /\ ads' = [ads EXCEPT ![a] = task[h].entity]
    BY <1>1, <1>6 DEF InsertAd, TaskOK
  <2>2. Explained(a, ads[a].reason)'
    BY <1>1, <2>1 DEF Explained
  <2>3. \A x \in Ads \ {a} : ads'[x] = ads[x]
    BY <1>1, <2>1
  <2>4. \A x \in Ads : Explained(x, ads[x].reason)'
    BY <1>2, <2>2, <2>3 DEF ReasonInv
  <2> QED
    BY <1>4, <2>1, <2>4
<1>7. CASE SaveSelects(h)
  <2>1. UNCHANGED ads /\ task[h].pc = "select"
    BY <1>7 DEF SaveSelects, adVars
  <2>2. CASE Continue(h)
    <3> DEFINE q == task[h]
               t == [NoTask EXCEPT !.pc = AfterSave(q.op), !.op = q.op, !.ad = q.ad,
                                   !.user = q.user, !.text = q.text]
    <3>1. t.pc = AfterSave(q.op) /\ AfterSave(q.op) \in {"idle", "notify", "message"}
      BY DEF NoTask, AfterSave
    <3>2. task' = [task EXCEPT ![h] = NoTask] \/ task' = [task EXCEPT ![h] = t]
      BY <2>2 DEF Continue
    <3> HIDE DEF t
    <3>3. task'[h].pc \notin {"select", "update"}
      BY <1>1, <3>1, <3>2, ConstantTypes
    <3> QED
      BY <1>3, <2>1, <3>3 DEF EntityExplained
  <2>3. CASE ~Continue(h)
    <3> DEFINE q == task[h]
               t == [q EXCEPT !.pc = "update", !.cols = Differing(q.entity, q.ad),
                              !.lost = PhotosOf(q.ad) \ q.photos,
                              !.back = q.photos \ PhotosOf(q.ad)]
    <3>1. t.ad = q.ad /\ t.entity = q.entity /\ t.op = q.op /\ t.text = q.text
      BY <1>1 DEF Task
    <3>2. task' = [task EXCEPT ![h] = t]
      BY <1>7, <2>3 DEF SaveSelects
    <3>3. q.ad \in Ads
      BY <1>1, <2>1 DEF TaskOK
    <3> HIDE DEF t
    <3>4. task'[h] = t
      BY <1>1, <3>2
    <3>5. EntityExplained(h)'
      BY <1>1, <1>2, <2>1, <3>1, <3>3, <3>4 DEF EntityExplained
    <3> QED
      BY <1>3, <2>1, <3>5
  <2> QED
    BY <2>2, <2>3
<1>8. CASE NotifyValidated(h) \/ SaveMessage(h) \/ CallFails(h)
  BY <1>3, <1>4, <1>8 DEF NotifyValidated, SaveMessage, CallFails
<1> QED
  BY <1>5, <1>6, <1>7, <1>8 DEF CallStep

\* The invariant is inductive.
LEMMA ReasonInvStep ==
  ASSUME ReasonInv, [Next]_vars
  PROVE  ReasonInv'
<1>1. TypeInv'
  BY TypeInvStep DEF ReasonInv
<1>2. ASSUME NEW h \in Handlers, CallArrives(h) \/ CallStep(h) \/ CallFails(h)
      PROVE  ReasonInv'
  <2>1. (\A a \in Ads : Explained(a, ads[a].reason)') /\ EntityExplained(h)'
    BY <1>2, SaveUpdatesExplained, OtherStepsExplained
  <2>2. \A x \in Handlers \ {h} : task'[x] = task[x]
    <3>1. ASSUME NEW t, task' = [task EXCEPT ![h] = t]
          PROVE  \A x \in Handlers \ {h} : task'[x] = task[x]
      BY <3>1 DEF ReasonInv, TypeInv, TypeOK, AdServiceTypeOK
    <3>2. \E t : task' = [task EXCEPT ![h] = t]
      BY <1>2 DEF CallArrives, CreateAd, UpdateAd, UpdateContent, SubmitAd, ValidateAd,
                  RejectAd, AddMessage, Loads, CallStep, InsertAd, SaveSelects, SaveUpdates,
                  NotifyValidated, SaveMessage, CallFails, Drop, Continue
    <3> QED
      BY <3>1, <3>2
  <2>3. ASSUME NEW x \in Handlers \ {h}
        PROVE  EntityExplained(x)'
    <3>1. task[x].pc \in {"select", "update"} => task[x].ad \in Ads
      BY DEF ReasonInv, TypeInv, TypeOK, AdServiceTypeOK, TaskOK
    <3>2. task'[x] = task[x] /\ EntityExplained(x)
      BY <2>2 DEF ReasonInv
    <3>3. ASSUME NEW a \in Ads, NEW m, Explained(a, m)
          PROVE  Explained(a, m)'
      BY <1>2, <3>3, ExplainedStays
    <3> QED
      BY <3>1, <3>2, <3>3 DEF EntityExplained
  <2> QED
    BY <1>1, <2>1, <2>3 DEF ReasonInv
<1>3. ASSUME UNCHANGED <<ads, thread, task>>, faults' = faults \/ faults' = faults + 1
      PROVE  ReasonInv'
  <2>1. faults \in Nat
    BY DEF ReasonInv, TypeInv, TypeOK, AdStoreTypeOK
  <2>2. ASSUME NEW a, NEW m, Explained(a, m)
        PROVE  Explained(a, m)'
    BY <1>3, <2>1, <2>2 DEF Explained
  <2>3. \A a \in Ads : Explained(a, ads[a].reason)'
    BY <1>3, <2>2 DEF ReasonInv
  <2>4. \A h \in Handlers : EntityExplained(h)'
    BY <1>3, <2>2 DEF ReasonInv, EntityExplained
  <2> QED
    BY <1>1, <2>3, <2>4 DEF ReasonInv
<1>4. ASSUME NEW p \in Photos, PhotoCall(p) \/ PhotoStep(p) \/ PhotoFails(p), UNCHANGED task
      PROVE  UNCHANGED <<ads, thread, task>> /\ (faults' = faults \/ faults' = faults + 1)
  BY <1>4 DEF PhotoCall, DeletePhoto, RequestUploadUrl, PhotoStep, CountPhotos, PutObject,
              AddPhoto, InsertPhoto, FindPhoto, RemovePhoto, DeleteObject, PhotoFails, adVars
<1>5. CASE UNCHANGED vars
  BY <1>3, <1>5 DEF vars, adVars
<1>6. CASE Next
  BY <1>2, <1>3, <1>4, <1>6 DEF Next, CallNext, PhotoNext, Fault
<1> QED
  BY <1>5, <1>6

\* No ad has a reason yet.
LEMMA ReasonInvInit ==
  ASSUME Init
  PROVE  ReasonInv
<1>1. \A a \in Ads : ads[a].reason = None
  BY DEF Init, AdStoreInit, AbsentAd
<1>2. \A h \in Handlers : task[h].pc = "idle"
  BY ConstantTypes DEF Init, AdServiceInit
<1> QED
  BY <1>1, <1>2, TypeInvInit DEF ReasonInv, Explained, EntityExplained

\* Unless a query fails between the two saves, the reason an ad shows is also
\* in its thread or about to be, although stale entities are saved over newer
\* rejections.
THEOREM ReasonReachesThread == Spec => []ReasonIsInThread
<1>1. Init => ReasonInv
  BY ReasonInvInit
<1>2. ReasonInv /\ [Next]_vars => ReasonInv'
  BY ReasonInvStep
<1>3. ReasonInv => ReasonIsInThread
  BY DEF ReasonInv, Explained, ReasonIsInThread
<1> QED
  BY <1>1, <1>2, <1>3, PTL DEF Spec

-----------------------------------------------------------------------------
(* Notices of a validation                                                  *)

\* The seller of ad a has been told of a validation, is about to be, or need
\* not be.
Announced(a) ==
  \/ faults > 0
  \/ a \in told
  \/ \E h \in Handlers : task[h].pc = "notify" /\ task[h].ad = a

\* Only validateAd has an entity that says VALIDATED on its way to save():
\* the others load the ad in a status they may change it in, or set another.
OnlyValidationsValidate(h) ==
  task[h].pc \in {"select", "update"} /\ task[h].entity.status = "VALIDATED"
    => task[h].op = "validate"

ValidationInv ==
  /\ TypeInv
  /\ \A a \in Ads : ads[a].status = "VALIDATED" => Announced(a)
  /\ \A h \in Handlers : OnlyValidationsValidate(h)

\* A step of a call changes the task of that call only.
LEMMA OneTaskChanges ==
  ASSUME TypeInv, NEW h \in Handlers, CallArrives(h) \/ CallStep(h) \/ CallFails(h)
  PROVE  \A x \in Handlers \ {h} : task'[x] = task[x]
<1>1. ASSUME NEW t, task' = [task EXCEPT ![h] = t]
      PROVE  \A x \in Handlers \ {h} : task'[x] = task[x]
  BY <1>1 DEF TypeInv, TypeOK, AdServiceTypeOK
<1>2. \E t : task' = [task EXCEPT ![h] = t]
  BY DEF CallArrives, CreateAd, UpdateAd, UpdateContent, SubmitAd, ValidateAd, RejectAd,
         AddMessage, Loads, CallStep, InsertAd, SaveSelects, SaveUpdates, NotifyValidated,
         SaveMessage, CallFails, Drop, Continue
<1> QED
  BY <1>1, <1>2

\* After save() a validation goes on to its notice, and no call is saving.
LEMMA AfterSaving ==
  ASSUME TypeInv, NEW h \in Handlers, Continue(h)
  PROVE  /\ task'[h].pc \notin {"insert", "select", "update"}
         /\ task[h].op = "validate" => task'[h].pc = "notify" /\ task'[h].ad = task[h].ad
<1> DEFINE q == task[h]
           t == [NoTask EXCEPT !.pc = AfterSave(q.op), !.op = q.op, !.ad = q.ad,
                               !.user = q.user, !.text = q.text]
<1>1. t.pc = AfterSave(q.op) /\ t.ad = q.ad /\ AfterSave(q.op) \in {"idle", "notify", "message"}
  BY DEF NoTask, AfterSave
<1>2. q.op = "validate" => AfterSave(q.op) = "notify" /\ task' = [task EXCEPT ![h] = t]
  BY DEF Continue, AfterSave
<1>3. task' = [task EXCEPT ![h] = NoTask] \/ task' = [task EXCEPT ![h] = t]
  BY DEF Continue
<1>4. task \in [Handlers -> Task]
  BY DEF TypeInv, TypeOK, AdServiceTypeOK
<1> HIDE DEF t
<1> QED
  BY <1>1, <1>2, <1>3, <1>4, ConstantTypes

\* A notice on its way is given, or its call fails.
LEMMA AnnouncedStays ==
  ASSUME TypeInv, NEW h \in Handlers, CallArrives(h) \/ CallStep(h) \/ CallFails(h),
         NEW a \in Ads, Announced(a)
  PROVE  Announced(a)'
<1>1. faults \in Nat /\ \A x \in Handlers \ {h} : task'[x] = task[x]
  BY OneTaskChanges DEF TypeInv, TypeOK, AdStoreTypeOK
<1>2. CASE CallFails(h)
  BY <1>1, <1>2 DEF CallFails, Announced
<1>3. CASE NotifyValidated(h)
  BY <1>1, <1>3 DEF NotifyValidated, Announced
<1>4. CASE ~CallFails(h) /\ ~NotifyValidated(h)
  <2>1. UNCHANGED <<told, faults>> /\ task[h].pc # "notify"
    <3>1. CallArrives(h) => UNCHANGED adVars /\ task[h].pc = "idle"
      BY CallArrivesTyped
         DEF TypeInv, TypeOK, CallArrives, CreateAd, UpdateAd, UpdateContent, SubmitAd,
             ValidateAd, RejectAd, AddMessage, Loads
    <3> QED
      BY <1>4, <3>1 DEF CallStep, InsertAd, SaveSelects, SaveUpdates, SaveMessage, adVars
  <2> QED
    BY <1>1, <2>1 DEF Announced
<1> QED
  BY <1>2, <1>3, <1>4

\* A call that has just loaded its ad carries VALIDATED only to validate it.
LEMMA ArrivalValidates ==
  ASSUME TypeInv, NEW h \in Handlers, CallArrives(h)
  PROVE  OnlyValidationsValidate(h)'
<1>1. task \in [Handlers -> Task] /\ ads \in [Ads -> Ad]
  BY DEF TypeInv, TypeOK, AdStoreTypeOK, AdServiceTypeOK
<1>2. ASSUME NEW a \in Ads, NEW op, NEW u, NEW text, NEW e, Loads(h, a, op, u, text, e),
             e.status # "VALIDATED" \/ op = "validate"
      PROVE  OnlyValidationsValidate(h)'
  <2> DEFINE t == [NoTask EXCEPT !.pc = "select", !.op = op, !.ad = a, !.user = u,
                                 !.text = text, !.entity = e, !.photos = PhotosOf(a)]
  <2>1. t.op = op /\ t.entity = e
    BY DEF NoTask
  <2>2. task' = [task EXCEPT ![h] = t]
    BY <1>2 DEF Loads
  <2> HIDE DEF t
  <2> QED
    BY <1>1, <1>2, <2>1, <2>2 DEF OnlyValidationsValidate
<1>3. ASSUME NEW u \in Users, NEW core \in Texts, NEW content \in Texts,
             CreateAd(h, u, core, content)
      PROVE  OnlyValidationsValidate(h)'
  <2> DEFINE t == [NoTask EXCEPT !.pc = "insert", !.op = "create",
                     !.entity = [status |-> "DRAFT", seller |-> u, core |-> core,
                                 content |-> content, reason |-> None]]
  <2>1. t.pc = "insert"
    BY DEF NoTask
  <2>2. task' = [task EXCEPT ![h] = t]
    BY <1>3 DEF CreateAd
  <2> HIDE DEF t
  <2> QED
    BY <1>1, <2>1, <2>2 DEF OnlyValidationsValidate
<1>4. ASSUME NEW a \in Ads, NEW u \in Users, NEW text \in Texts, AddMessage(h, a, u, text)
      PROVE  OnlyValidationsValidate(h)'
  <2> DEFINE t == [NoTask EXCEPT !.pc = "message", !.ad = a, !.user = u, !.text = text]
  <2>1. t.pc = "message"
    BY DEF NoTask
  <2>2. task' = [task EXCEPT ![h] = t]
    BY <1>4 DEF AddMessage
  <2> HIDE DEF t
  <2> QED
    BY <1>1, <2>1, <2>2 DEF OnlyValidationsValidate
<1>5. ASSUME NEW a \in Ads, NEW u \in Users, NEW core \in Texts, NEW content \in Texts,
             UpdateAd(h, u, a, core, content)
      PROVE  OnlyValidationsValidate(h)'
  <2> DEFINE e == [ads[a] EXCEPT !.core = core, !.content = content]
  <2>1. ads[a].status # "VALIDATED" /\ e.status = ads[a].status
    BY <1>1, <1>5 DEF UpdateAd, MayUpdate, CanEdit, Ad
  <2> QED
    BY <1>2, <1>5, <2>1 DEF UpdateAd
<1>6. ASSUME NEW a \in Ads, NEW content \in Texts, UpdateContent(h, a, content)
      PROVE  OnlyValidationsValidate(h)'
  <2> DEFINE e == [ads[a] EXCEPT !.content = content, !.status = "REVIEW"]
  <2>1. e.status = "REVIEW"
    BY <1>1 DEF Ad
  <2> QED
    BY <1>2, <1>6, <2>1 DEF UpdateContent
<1>7. ASSUME NEW a \in Ads, SubmitAd(h, a)
      PROVE  OnlyValidationsValidate(h)'
  <2> DEFINE e == [ads[a] EXCEPT !.status = "REVIEW"]
  <2>1. e.status = "REVIEW"
    BY <1>1 DEF Ad
  <2> QED
    BY <1>2, <1>7, <2>1 DEF SubmitAd
<1>8. ASSUME NEW a \in Ads, ValidateAd(h, a)
      PROVE  OnlyValidationsValidate(h)'
  BY <1>2, <1>8 DEF ValidateAd
<1>9. ASSUME NEW a \in Ads, NEW u \in Users, NEW text \in Texts, RejectAd(h, a, u, text)
      PROVE  OnlyValidationsValidate(h)'
  <2> DEFINE e == [ads[a] EXCEPT !.status = "REJECTED", !.reason = text]
  <2>1. e.status = "REJECTED"
    BY <1>1 DEF Ad
  <2> QED
    BY <1>2, <1>9, <2>1 DEF RejectAd
<1> QED
  BY <1>3, <1>4, <1>5, <1>6, <1>7, <1>8, <1>9 DEF CallArrives

\* A row becomes VALIDATED by a save of validateAd, which announces it next.
LEMMA SaveUpdatesAnnounces ==
  ASSUME ValidationInv, NEW h \in Handlers, SaveUpdates(h), NEW a \in Ads,
         ads'[a].status = "VALIDATED"
  PROVE  Announced(a)'
<1> DEFINE q == task[h]
           r == Written(ads[q.ad], q.entity, q.cols)
<1>1. /\ ads \in [Ads -> Ad] /\ OnlyValidationsValidate(h) /\ TypeInv
      /\ q.pc = "update" /\ q.ad \in Ads /\ q.entity \in Ad /\ q.entity.status # "ABSENT"
      /\ ads[q.ad] \in Ad /\ ads[q.ad].status # "ABSENT"
  BY DEF ValidationInv, TypeInv, TypeOK, AdStoreTypeOK, AdServiceTypeOK, SaveUpdates, TaskOK,
         Task, LoadedAdsExist, Exists
<1>2. r.status \in {q.entity.status, ads[q.ad].status}
  BY <1>1, WrittenTyped
<1>3. ads' = [ads EXCEPT ![q.ad] = r] /\ Continue(h)
  BY DEF SaveUpdates
<1> HIDE DEF r
<1>4. CASE ads[a].status = "VALIDATED"
  BY <1>1, <1>4, AnnouncedStays DEF ValidationInv, CallStep
<1>5. CASE ads[a].status # "VALIDATED"
  <2>1. a = q.ad /\ q.entity.status = "VALIDATED"
    BY <1>1, <1>2, <1>3, <1>5
  <2>2. task'[h].pc = "notify" /\ task'[h].ad = a
    BY <1>1, <1>3, <2>1, AfterSaving DEF OnlyValidationsValidate
  <2> QED
    BY <2>2 DEF Announced
<1> QED
  BY <1>4, <1>5

\* The other steps make no row VALIDATED.
LEMMA OtherStepsAnnounce ==
  ASSUME ValidationInv, NEW h \in Handlers, CallArrives(h) \/ CallStep(h) \/ CallFails(h),
         ~SaveUpdates(h), NEW a \in Ads, ads'[a].status = "VALIDATED"
  PROVE  Announced(a)'
<1>1. TypeInv /\ ads \in [Ads -> Ad] /\ TaskOK(task[h])
  BY DEF ValidationInv, TypeInv, TypeOK, AdStoreTypeOK, AdServiceTypeOK
<1>2. ads[a].status = "VALIDATED"
  <2>1. CASE \E b \in Ads : InsertAd(h, b)
    BY <1>1, <2>1 DEF InsertAd, TaskOK
  <2>2. CASE ~(\E b \in Ads : InsertAd(h, b))
    <3>1. CallArrives(h) => UNCHANGED adVars
      BY <1>1, CallArrivesTyped DEF TypeInv, TypeOK
    <3> QED
      BY <2>2, <3>1 DEF CallStep, SaveSelects, NotifyValidated, SaveMessage, CallFails, adVars
  <2> QED
    BY <2>1, <2>2
<1> QED
  BY <1>1, <1>2, AnnouncedStays DEF ValidationInv

\* A step of a call keeps what it has on its way to save(), or ends the save.
LEMMA StepValidates ==
  ASSUME ValidationInv, NEW h \in Handlers, CallStep(h) \/ CallFails(h)
  PROVE  OnlyValidationsValidate(h)'
<1>1. TypeInv /\ task \in [Handlers -> Task] /\ OnlyValidationsValidate(h)
  BY DEF ValidationInv, TypeInv, TypeOK, AdServiceTypeOK
<1>2. CASE Continue(h)
  BY <1>1, <1>2, AfterSaving DEF OnlyValidationsValidate
<1>3. CASE Drop(h)
  BY <1>1, <1>3, ConstantTypes DEF Drop, OnlyValidationsValidate
<1>4. CASE SaveSelects(h) /\ ~Continue(h)
  <2> DEFINE q == task[h]
             t == [q EXCEPT !.pc = "update", !.cols = Differing(q.entity, q.ad),
                            !.lost = PhotosOf(q.ad) \ q.photos,
                            !.back = q.photos \ PhotosOf(q.ad)]
  <2>1. t.entity = q.entity /\ t.op = q.op /\ q.pc = "select"
    BY <1>1, <1>4 DEF Task, SaveSelects
  <2>2. task' = [task EXCEPT ![h] = t]
    BY <1>4 DEF SaveSelects
  <2> HIDE DEF t
  <2> QED
    BY <1>1, <2>1, <2>2 DEF OnlyValidationsValidate
<1> QED
  BY <1>2, <1>3, <1>4
     DEF CallStep, InsertAd, SaveUpdates, NotifyValidated, SaveMessage, CallFails

\* The invariant is inductive.
LEMMA ValidationInvStep ==
  ASSUME ValidationInv, [Next]_vars
  PROVE  ValidationInv'
<1>1. TypeInv'
  BY TypeInvStep DEF ValidationInv
<1>2. ASSUME NEW h \in Handlers, CallArrives(h) \/ CallStep(h) \/ CallFails(h)
      PROVE  ValidationInv'
  <2>1. \A a \in Ads : ads'[a].status = "VALIDATED" => Announced(a)'
    BY <1>2, SaveUpdatesAnnounces, OtherStepsAnnounce
  <2>2. OnlyValidationsValidate(h)'
    BY <1>2, ArrivalValidates, StepValidates DEF ValidationInv
  <2>3. \A x \in Handlers \ {h} : OnlyValidationsValidate(x)'
    BY <1>2, OneTaskChanges DEF ValidationInv, OnlyValidationsValidate
  <2> QED
    BY <1>1, <2>1, <2>2, <2>3 DEF ValidationInv
<1>3. ASSUME UNCHANGED <<ads, told, task>>, faults' = faults \/ faults' = faults + 1
      PROVE  ValidationInv'
  <2>1. faults \in Nat
    BY DEF ValidationInv, TypeInv, TypeOK, AdStoreTypeOK
  <2>2. \A a \in Ads : Announced(a) => Announced(a)'
    BY <1>3, <2>1 DEF Announced
  <2> QED
    BY <1>1, <1>3, <2>2 DEF ValidationInv, OnlyValidationsValidate
<1>4. ASSUME NEW p \in Photos, PhotoCall(p) \/ PhotoStep(p) \/ PhotoFails(p), UNCHANGED task
      PROVE  UNCHANGED <<ads, told, task>> /\ (faults' = faults \/ faults' = faults + 1)
  BY <1>4 DEF PhotoCall, DeletePhoto, RequestUploadUrl, PhotoStep, CountPhotos, PutObject,
              AddPhoto, InsertPhoto, FindPhoto, RemovePhoto, DeleteObject, PhotoFails, adVars
<1>5. CASE UNCHANGED vars
  BY <1>3, <1>5 DEF vars, adVars
<1>6. CASE Next
  BY <1>2, <1>3, <1>4, <1>6 DEF Next, CallNext, PhotoNext, Fault
<1> QED
  BY <1>5, <1>6

\* No ad is VALIDATED yet.
LEMMA ValidationInvInit ==
  ASSUME Init
  PROVE  ValidationInv
<1>1. \A a \in Ads : ads[a].status = "ABSENT"
  BY ConstantTypes DEF Init, AdStoreInit
<1>2. \A h \in Handlers : task[h].pc = "idle"
  BY ConstantTypes DEF Init, AdServiceInit
<1> QED
  BY <1>1, <1>2, TypeInvInit DEF ValidationInv, OnlyValidationsValidate

\* Unless a query fails, the seller of every VALIDATED ad has been told so or
\* is about to be, whatever stale entities are saved over the ad.
THEOREM ValidationsAreTold == Spec => []ValidationIsTold
<1>1. Init => ValidationInv
  BY ValidationInvInit
<1>2. ValidationInv /\ [Next]_vars => ValidationInv'
  BY ValidationInvStep
<1>3. ValidationInv => ValidationIsTold
  BY DEF ValidationInv, Announced, ValidationIsTold
<1> QED
  BY <1>1, <1>2, <1>3, PTL DEF Spec

-----------------------------------------------------------------------------
(* Sellers that keep to one thing an ad at a time                           *)

\* Call h is between loading ad a and having saved it.
Saving(h, a) == task[h].pc \in {"select", "update"} /\ task[h].ad = a

UnderWay(p) == job[p].pc \notin {"picked", "shown", "done"}

\* Photo p is being uploaded to ad a or deleted from it.
Moving(p, a) == UnderWay(p) /\ job[p].ad = a

\* No two calls save the same ad at the same time.
OneSaveAnAd == \A a \in Ads : \A g, h \in Handlers : Saving(g, a) /\ Saving(h, a) => g = h

\* Nor does a photo of the ad move meanwhile, or another one; what happens to
\* other ads does not matter.
OneThingAnAd ==
  /\ OneSaveAnAd
  /\ \A a \in Ads : \A p, q \in Photos : Moving(p, a) /\ Moving(q, a) => p = q
  /\ \A a \in Ads : \A h \in Handlers, p \in Photos : ~(Saving(h, a) /\ Moving(p, a))

\* The photos of an ad are those its entity was loaded with.
PhotosAsLoaded(h) ==
  /\ task[h].pc \in {"select", "update"} => task[h].photos = PhotosOf(task[h].ad)
  /\ task[h].pc = "update" => task[h].lost = {} /\ task[h].back = {}

\* A file has a row, its own, from the end of its upload to its deletion.
RowAsUploaded(p) ==
  /\ photo[p].exists <=> job[p].pc \in {"shown", "find", "remove"}
  /\ photo[p].exists => photo[p].ad = job[p].ad /\ photo[p].key = job[p].key
  /\ job[p].pc = "cleanup" => photo[p].ad = job[p].ad
  /\ job[p].pc \in {"picked", "count", "put", "attach", "insert"} => photo[p].ad = None
  /\ job[p].pc \notin {"picked", "count", "done"} => job[p].key[1] = job[p].ad

\* The key of a file being uploaded is the next one of its ad; a key of a row is
\* one that was counted already.
KeyIsNext(p) ==
  /\ job[p].pc \in {"put", "attach", "insert"} => job[p].key = NextKey(job[p].ad)
  /\ job[p].pc \in {"attach", "insert"} => bucket[job[p].key] = p

KeyWasCounted(p) ==
  photo[p].exists /\ ~Deleted(photo[p].ad)
    => photo[p].key[2] <= Cardinality(PhotosOf(photo[p].ad))

FilesInv ==
  /\ TypeInv
  /\ \A h \in Handlers : PhotosAsLoaded(h)
  /\ \A p \in Photos : RowAsUploaded(p) /\ KeyIsNext(p) /\ KeyWasCounted(p)
  /\ RowsShowTheirFiles

Calls(h) == CallArrives(h) \/ CallStep(h) \/ CallFails(h)

Uploads(p) == PhotoCall(p) \/ PhotoStep(p) \/ PhotoFails(p)

\* What a step is.
LEMMA CallsAndUploads ==
  ASSUME Next
  PROVE  \/ \E h \in Handlers : Calls(h) /\ UNCHANGED photoVars
         \/ \E p \in Photos : Uploads(p) /\ UNCHANGED task
  BY DEF Next, CallNext, PhotoNext, Fault, Calls, Uploads

\* save() finds the photos its entity was loaded with, so it moves none.
LEMMA CallKeepsPhotos ==
  ASSUME FilesInv, NEW h \in Handlers, Calls(h)
  PROVE  UNCHANGED photo
<1>1. CASE SaveUpdates(h)
  <2>1. task[h].lost = {} /\ task[h].back = {} /\ photo \in [Photos -> PhotoRow]
    BY <1>1 DEF SaveUpdates, FilesInv, PhotosAsLoaded, TypeInv, TypeOK, AdStoreTypeOK
  <2>2. photo' = [p \in Photos |-> photo[p]]
    BY <1>1, <2>1 DEF SaveUpdates, Reattached
  <2> QED
    BY <2>1, <2>2
<1>2. CASE ~SaveUpdates(h)
  <2>1. CallArrives(h) => UNCHANGED adVars
    BY CallArrivesTyped DEF FilesInv, TypeInv, TypeOK
  <2> QED
    BY <1>2, <2>1 DEF Calls, CallStep, InsertAd, SaveSelects, NotifyValidated,
                      SaveMessage, CallFails, adVars
<1> QED
  BY <1>1, <1>2

\* An entity loaded by a call arriving, and what its select finds.
LEMMA CallKeepsLoad ==
  ASSUME FilesInv, NEW h \in Handlers, Calls(h)
  PROVE  PhotosAsLoaded(h)'
<1>1. task \in [Handlers -> Task] /\ TypeInv /\ UNCHANGED photo /\ PhotosAsLoaded(h)
  BY CallKeepsPhotos DEF FilesInv, TypeInv, TypeOK, AdServiceTypeOK
<1>2. \A a : PhotosOf(a)' = PhotosOf(a)
  BY <1>1 DEF PhotosOf
<1>3. CASE task'[h].pc \notin {"select", "update"}
  BY <1>3 DEF PhotosAsLoaded
<1>4. CASE Drop(h)
  <2>1. task'[h].pc = "idle"
    BY <1>1, <1>4, ConstantTypes DEF Drop
  <2> QED
    BY <1>3, <2>1
<1>5. CASE Continue(h)
  BY <1>1, <1>3, <1>5, AfterSaving
<1>6. CASE SaveSelects(h) /\ ~Continue(h)
  <2> DEFINE q == task[h]
             t == [q EXCEPT !.pc = "update", !.cols = Differing(q.entity, q.ad),
                            !.lost = PhotosOf(q.ad) \ q.photos,
                            !.back = q.photos \ PhotosOf(q.ad)]
  <2>1. t.photos = q.photos /\ t.ad = q.ad /\ t.lost = PhotosOf(q.ad) \ q.photos
        /\ t.back = q.photos \ PhotosOf(q.ad) /\ q.pc = "select"
    BY <1>1, <1>6 DEF Task, SaveSelects
  <2>2. q.photos = PhotosOf(q.ad)
    BY <1>1, <2>1 DEF PhotosAsLoaded
  <2>3. task' = [task EXCEPT ![h] = t]
    BY <1>6 DEF SaveSelects
  <2> HIDE DEF t
  <2>4. task'[h] = t
    BY <1>1, <2>3
  <2> QED
    BY <1>2, <2>1, <2>2, <2>4 DEF PhotosAsLoaded
<1>7. ASSUME NEW a \in Ads, NEW op, NEW u, NEW text, NEW e, Loads(h, a, op, u, text, e)
      PROVE  PhotosAsLoaded(h)'
  <2> DEFINE t == [NoTask EXCEPT !.pc = "select", !.op = op, !.ad = a, !.user = u,
                                 !.text = text, !.entity = e, !.photos = PhotosOf(a)]
  <2>1. t.photos = PhotosOf(a) /\ t.ad = a /\ t.pc = "select"
    BY DEF NoTask
  <2>2. task' = [task EXCEPT ![h] = t]
    BY <1>7 DEF Loads
  <2> HIDE DEF t
  <2>3. task'[h] = t
    BY <1>1, <2>2
  <2> QED
    BY <1>2, <2>1, <2>3 DEF PhotosAsLoaded
<1>8. ASSUME NEW u \in Users, NEW core \in Texts, NEW content \in Texts,
             CreateAd(h, u, core, content)
      PROVE  PhotosAsLoaded(h)'
  <2> DEFINE t == [NoTask EXCEPT !.pc = "insert", !.op = "create",
                     !.entity = [status |-> "DRAFT", seller |-> u, core |-> core,
                                 content |-> content, reason |-> None]]
  <2>1. t.pc = "insert"
    BY DEF NoTask
  <2>2. task' = [task EXCEPT ![h] = t]
    BY <1>8 DEF CreateAd
  <2> HIDE DEF t
  <2> QED
    BY <1>1, <1>3, <2>1, <2>2
<1>9. ASSUME NEW a \in Ads, NEW u \in Users, NEW text \in Texts, AddMessage(h, a, u, text)
      PROVE  PhotosAsLoaded(h)'
  <2> DEFINE t == [NoTask EXCEPT !.pc = "message", !.ad = a, !.user = u, !.text = text]
  <2>1. t.pc = "message"
    BY DEF NoTask
  <2>2. task' = [task EXCEPT ![h] = t]
    BY <1>9 DEF AddMessage
  <2> HIDE DEF t
  <2> QED
    BY <1>1, <1>3, <2>1, <2>2
<1>10. CASE CallArrives(h)
  BY <1>7, <1>8, <1>9, <1>10
     DEF CallArrives, UpdateAd, UpdateContent, SubmitAd, ValidateAd, RejectAd
<1>11. CASE CallStep(h) \/ CallFails(h)
  BY <1>4, <1>5, <1>6, <1>11
     DEF CallStep, InsertAd, SaveUpdates, NotifyValidated, SaveMessage, CallFails
<1> QED
  BY <1>10, <1>11 DEF Calls

\* A step of a call keeps the invariant.
LEMMA CallKeepsFilesInv ==
  ASSUME FilesInv, TypeInv', NEW h \in Handlers, Calls(h), UNCHANGED photoVars
  PROVE  FilesInv'
<1>1. \A g \in Handlers \ {h} : task'[g] = task[g]
  BY OneTaskChanges DEF FilesInv, Calls
<1>2. UNCHANGED <<photo, job, bucket>>
  BY CallKeepsPhotos DEF photoVars
<1>3. \A a : PhotosOf(a)' = PhotosOf(a)
  BY <1>2 DEF PhotosOf
<1>4. \A g \in Handlers : PhotosAsLoaded(g)'
  BY <1>1, <1>3, CallKeepsLoad DEF FilesInv, PhotosAsLoaded
<1>5. \A p \in Photos : RowAsUploaded(p)' /\ KeyIsNext(p)' /\ KeyWasCounted(p)'
  BY <1>2 DEF FilesInv, RowAsUploaded, KeyIsNext, KeyWasCounted, NextKey, PhotosOf, Deleted
<1>6. RowsShowTheirFiles'
  BY <1>2 DEF FilesInv, RowsShowTheirFiles, Deleted
<1> QED
  BY <1>4, <1>5, <1>6 DEF FilesInv

\* Moving a file on keeps the ad and the key it goes by.
LEMMA GotoKeeps ==
  ASSUME TypeInv, NEW p \in Photos, NEW pc, Goto(p, pc)
  PROVE  /\ job'[p].pc = pc /\ job'[p].ad = job[p].ad /\ job'[p].key = job[p].key
         /\ \A q \in Photos \ {p} : job'[q] = job[q]
<1> DEFINE j == [job[p] EXCEPT !.pc = pc]
<1>1. job[p] \in Job /\ job \in [Photos -> Job]
  BY DEF TypeInv, TypeOK, AdPhotosTypeOK
<1>2. j.pc = pc /\ j.ad = job[p].ad /\ j.key = job[p].key
  BY <1>1 DEF Job
<1>3. job' = [job EXCEPT ![p] = j]
  BY DEF Goto
<1> HIDE DEF j
<1> QED
  BY <1>1, <1>2, <1>3

\* Ad a's rows, and the files under its keys, stay.
AdStays(a) ==
  /\ PhotosOf(a)' = PhotosOf(a)
  /\ \A k \in Keys : k[1] = a => bucket'[k] = bucket[k]

\* What the steps of a photo have to show: the job moves, the rows and their
\* files stay as they should be, and those of other ads stay as they are.
LEMMA PhotoKeepsFilesInv ==
  ASSUME FilesInv, OneThingAnAd, TypeInv', NEW p \in Photos, UNCHANGED task,
         \A q \in Photos \ {p} : job'[q] = job[q] /\ photo'[q] = photo[q],
         RowAsUploaded(p)', KeyIsNext(p)',
         \A a \in Ads : ~Moving(p, a) => AdStays(a),
         (\A q \in Photos : KeyWasCounted(q))', RowsShowTheirFiles'
  PROVE  FilesInv'
<1>1. ASSUME NEW h \in Handlers
      PROVE  PhotosAsLoaded(h)'
  <2>1. CASE task[h].pc \in {"select", "update"}
    <3>1. task[h].ad \in Ads
      BY <2>1 DEF FilesInv, TypeInv, TypeOK, AdServiceTypeOK, TaskOK
    <3>2. AdStays(task[h].ad)
      BY <2>1, <3>1 DEF OneThingAnAd, Saving
    <3> QED
      BY <3>2 DEF FilesInv, PhotosAsLoaded, AdStays
  <2> QED
    BY <2>1 DEF PhotosAsLoaded
<1>2. \A q \in Photos \ {p} : RowAsUploaded(q)'
  BY DEF FilesInv, RowAsUploaded
<1>3. ASSUME NEW q \in Photos \ {p}
      PROVE  KeyIsNext(q)'
  <2>1. CASE job[q].pc \in {"put", "attach", "insert"}
    <3>1. job[q].ad \in Ads /\ job[q].key \in Keys /\ job[q].key[1] = job[q].ad
      BY <2>1 DEF FilesInv, TypeInv, TypeOK, AdPhotosTypeOK, JobOK, RowAsUploaded
    <3>2. Moving(q, job[q].ad)
      BY <2>1 DEF Moving, UnderWay
    <3>3. AdStays(job[q].ad)
      BY <3>1, <3>2 DEF OneThingAnAd
    <3>4. NextKey(job[q].ad)' = NextKey(job[q].ad)
      BY <3>3 DEF AdStays, NextKey
    <3> QED
      BY <3>1, <3>3, <3>4 DEF FilesInv, KeyIsNext, AdStays
  <2> QED
    BY <2>1 DEF KeyIsNext
<1> QED
  BY <1>1, <1>2, <1>3 DEF FilesInv

\* The steps that touch neither rows nor files.
LEMMA JobMoves ==
  ASSUME FilesInv, OneThingAnAd, TypeInv', NEW p \in Photos, UNCHANGED task,
         PhotoCall(p) \/ CountPhotos(p) \/ AddPhoto(p) \/ FindPhoto(p) \/ PhotoFails(p)
  PROVE  FilesInv'
<1>1. /\ TypeInv /\ RowAsUploaded(p) /\ KeyIsNext(p) /\ JobOK(job[p])
      /\ job \in [Photos -> Job] /\ job[p] \in Job
  BY DEF FilesInv, TypeInv, TypeOK, AdPhotosTypeOK
<1>2. UNCHANGED <<photo, bucket>>
  BY DEF PhotoCall, DeletePhoto, RequestUploadUrl, CountPhotos, AddPhoto, FindPhoto, PhotoFails,
         adVars
<1>3. (\A q \in Photos : KeyWasCounted(q))' /\ RowsShowTheirFiles'
  BY <1>2 DEF FilesInv, KeyWasCounted, PhotosOf, Deleted, RowsShowTheirFiles
<1>4. \A a : NextKey(a)' = NextKey(a) /\ AdStays(a)
  BY <1>2 DEF NextKey, PhotosOf, AdStays
<1>5. ASSUME NEW a \in Ads, RequestUploadUrl(p, a)
      PROVE  FilesInv'
  <2> DEFINE j == [pc |-> "count", ad |-> a, key |-> None]
  <2>1. job' = [job EXCEPT ![p] = j] /\ job[p].pc = "picked"
    BY <1>5 DEF RequestUploadUrl
  <2>2. j.pc = "count"
    OBVIOUS
  <2> HIDE DEF j
  <2>3. RowAsUploaded(p)' /\ KeyIsNext(p)' /\ \A q \in Photos \ {p} : job'[q] = job[q]
    BY <1>1, <1>2, <2>1, <2>2 DEF RowAsUploaded, KeyIsNext
  <2> QED
    BY <1>2, <1>3, <1>4, <2>3, PhotoKeepsFilesInv
<1>6. CASE CountPhotos(p)
  <2> DEFINE n == Cardinality(PhotosOf(job[p].ad)) + 1
             j == [job[p] EXCEPT !.pc = "put", !.key = NextKey(job[p].ad)]
  <2>1. job' = [job EXCEPT ![p] = j] /\ job[p].pc = "count"
    BY <1>6 DEF CountPhotos
  <2>2. j.pc = "put" /\ j.ad = job[p].ad /\ j.key = NextKey(job[p].ad)
    BY <1>1 DEF Job
  <2>3. NextKey(job[p].ad)[1] = job[p].ad
    BY DEF NextKey
  <2> HIDE DEF j
  <2>4. job'[p] = j /\ \A q \in Photos \ {p} : job'[q] = job[q]
    BY <1>1, <2>1
  <2>5. RowAsUploaded(p)'
    BY <1>1, <1>2, <2>1, <2>2, <2>3, <2>4 DEF RowAsUploaded
  <2>6. KeyIsNext(p)'
    BY <1>4, <2>2, <2>4 DEF KeyIsNext
  <2> QED
    BY <1>2, <1>3, <1>4, <2>4, <2>5, <2>6, PhotoKeepsFilesInv
<1>7. CASE DeletePhoto(p) \/ AddPhoto(p) \/ FindPhoto(p) \/ PhotoFails(p)
  <2>1. PICK pc : /\ Goto(p, pc)
                  /\ \/ job[p].pc = "attach" /\ pc \in {"insert", "done"}
                     \/ job[p].pc \in {"shown", "find", "remove"}
                        /\ pc \in {"shown", "find", "remove"}
                     \/ job[p].pc \notin {"shown", "find", "remove", "picked"} /\ pc = "done"
    <3>1. CASE DeletePhoto(p)
      BY <3>1 DEF DeletePhoto
    <3>2. CASE AddPhoto(p)
      BY <3>2 DEF AddPhoto
    <3>3. CASE FindPhoto(p)
      BY <1>1, <3>3 DEF FindPhoto, RowAsUploaded
    <3>4. CASE PhotoFails(p)
      BY <3>4 DEF PhotoFails
    <3> QED
      BY <1>7, <3>1, <3>2, <3>3, <3>4
  <2>2. /\ job'[p].pc = pc /\ job'[p].ad = job[p].ad /\ job'[p].key = job[p].key
        /\ \A q \in Photos \ {p} : job'[q] = job[q]
    BY <1>1, <2>1, GotoKeeps
  <2>3. RowAsUploaded(p)'
    BY <1>1, <1>2, <2>1, <2>2 DEF RowAsUploaded
  <2>4. KeyIsNext(p)'
    BY <1>1, <1>2, <1>4, <2>1, <2>2 DEF KeyIsNext
  <2> QED
    BY <1>2, <1>3, <1>4, <2>2, <2>3, <2>4, PhotoKeepsFilesInv
<1> QED
  BY <1>5, <1>6, <1>7 DEF PhotoCall

\* The number of rows an ad has.
LEMMA RowCount ==
  ASSUME NEW a
  PROVE  IsFiniteSet(PhotosOf(a)) /\ Cardinality(PhotosOf(a)) \in Nat
<1>1. PhotosOf(a) \in SUBSET Photos
  BY DEF PhotosOf
<1> QED
  BY <1>1, AdStoreAssumption, FS_Subset, FS_CardinalityType

\* No row of an ad that lost no photo has the ad's next key.
LEMMA NextKeyIsFree ==
  ASSUME FilesInv, NEW q \in Photos, photo[q].exists, ~Deleted(photo[q].ad), NEW a
  PROVE  photo[q].key # NextKey(a)
<1>1. SUFFICES ASSUME photo[q].key = NextKey(a)
               PROVE  FALSE
  OBVIOUS
<1>2. photo[q].key[1] = photo[q].ad
  BY DEF FilesInv, RowAsUploaded
<1>3. a = photo[q].ad /\ photo[q].key[2] = Cardinality(PhotosOf(a)) + 1
  BY <1>1, <1>2 DEF NextKey
<1> QED
  BY <1>3, RowCount DEF FilesInv, KeyWasCounted

\* The PUT writes under a key no row shows.
LEMMA PutObjectKeeps ==
  ASSUME FilesInv, OneThingAnAd, TypeInv', NEW p \in Photos, UNCHANGED task, PutObject(p)
  PROVE  FilesInv'
<1>1. /\ TypeInv /\ RowAsUploaded(p) /\ KeyIsNext(p) /\ JobOK(job[p])
      /\ bucket \in [Keys -> Photos \union {None}]
  BY DEF FilesInv, TypeInv, TypeOK, AdPhotosTypeOK
<1>2. /\ UNCHANGED photo /\ job[p].pc = "put" /\ Goto(p, "attach")
      /\ bucket' = [bucket EXCEPT ![job[p].key] = p]
  BY DEF PutObject, adVars
<1>3. /\ job'[p].pc = "attach" /\ job'[p].ad = job[p].ad /\ job'[p].key = job[p].key
      /\ \A q \in Photos \ {p} : job'[q] = job[q]
  BY <1>1, <1>2, GotoKeeps
<1>4. job[p].key \in Keys /\ job[p].key = NextKey(job[p].ad)
  BY <1>1, <1>2 DEF JobOK, KeyIsNext
<1>5. \A a : NextKey(a)' = NextKey(a)
  BY <1>2 DEF NextKey, PhotosOf
<1>6. RowAsUploaded(p)'
  BY <1>1, <1>2, <1>3 DEF RowAsUploaded
<1>7. KeyIsNext(p)'
  BY <1>1, <1>2, <1>3, <1>4, <1>5 DEF KeyIsNext
<1>8. (\A q \in Photos : KeyWasCounted(q))'
  BY <1>2 DEF FilesInv, KeyWasCounted, PhotosOf, Deleted
<1>9. RowsShowTheirFiles'
  BY <1>1, <1>2, <1>4, NextKeyIsFree DEF FilesInv, RowsShowTheirFiles, Deleted
<1>10. \A a \in Ads : ~Moving(p, a) => AdStays(a)
  <2>1. job[p].key[1] = job[p].ad
    BY <1>4 DEF NextKey
  <2> QED
    BY <1>1, <1>2, <2>1 DEF Moving, UnderWay, AdStays, PhotosOf
<1> QED
  BY <1>2, <1>3, <1>6, <1>7, <1>8, <1>9, <1>10, PhotoKeepsFilesInv

\* The new row counts its own key in.
LEMMA InsertPhotoKeeps ==
  ASSUME FilesInv, OneThingAnAd, TypeInv', NEW p \in Photos, UNCHANGED task, InsertPhoto(p)
  PROVE  FilesInv'
<1> DEFINE a == job[p].ad
           r == [exists |-> TRUE, ad |-> job[p].ad, key |-> job[p].key]
<1>1. /\ TypeInv /\ RowAsUploaded(p) /\ KeyIsNext(p) /\ JobOK(job[p])
      /\ photo \in [Photos -> PhotoRow] /\ \A q \in Photos : KeyWasCounted(q)
  BY DEF FilesInv, TypeInv, TypeOK, AdPhotosTypeOK, AdStoreTypeOK
<1>2. /\ UNCHANGED bucket /\ job[p].pc = "insert" /\ Goto(p, "shown")
      /\ photo' = [photo EXCEPT ![p] = r]
  BY DEF InsertPhoto
<1>3. /\ job'[p].pc = "shown" /\ job'[p].ad = job[p].ad /\ job'[p].key = job[p].key
      /\ \A q \in Photos \ {p} : job'[q] = job[q]
  BY <1>1, <1>2, GotoKeeps
<1>4. r.exists /\ r.ad = job[p].ad /\ r.key = job[p].key
  OBVIOUS
<1> HIDE DEF r
<1>5. photo'[p] = r /\ \A q \in Photos \ {p} : photo'[q] = photo[q]
  BY <1>1, <1>2
<1>6. ~photo[p].exists /\ job[p].key = NextKey(a) /\ bucket[job[p].key] = p
  BY <1>1, <1>2 DEF RowAsUploaded, KeyIsNext
<1>7. RowAsUploaded(p)' /\ KeyIsNext(p)'
  BY <1>1, <1>2, <1>3, <1>4, <1>5 DEF RowAsUploaded, KeyIsNext
<1>8. ASSUME NEW b \in Ads
      PROVE  /\ PhotosOf(b)' = IF b = a THEN PhotosOf(b) \union {p} ELSE PhotosOf(b)
             /\ Cardinality(PhotosOf(b)') =
                  IF b = a THEN Cardinality(PhotosOf(b)) + 1 ELSE Cardinality(PhotosOf(b))
             /\ Deleted(b) => Deleted(b)'
  <2>1. PhotosOf(b)' = IF b = a THEN PhotosOf(b) \union {p} ELSE PhotosOf(b)
    BY <1>4, <1>5, <1>6 DEF PhotosOf
  <2>2. p \notin PhotosOf(b)
    BY <1>6 DEF PhotosOf
  <2>3. Cardinality(PhotosOf(b) \union {p}) = Cardinality(PhotosOf(b)) + 1
    BY <2>2, RowCount, FS_AddElement
  <2>4. photo[p].ad # b
    BY <1>1, <1>2, AdStoreAssumption DEF RowAsUploaded
  <2>5. Deleted(b) => Deleted(b)'
    BY <1>5, <2>4 DEF Deleted
  <2> QED
    BY <2>1, <2>3, <2>5
<1>9. ASSUME NEW q \in Photos, NEW b, b = photo'[q].ad, photo'[q].exists, ~Deleted(b)'
      PROVE  photo'[q].key[2] <= Cardinality(PhotosOf(b)') /\ bucket'[photo'[q].key] = q
  <2>1. b \in Ads
    <3>1. CASE q = p
      BY <1>1, <1>2, <1>4, <1>5, <1>9, <3>1 DEF JobOK
    <3>2. CASE q # p
      <4>1. RowAsUploaded(q) /\ JobOK(job[q]) /\ photo[q].exists /\ photo[q].ad = b
        BY <1>5, <1>9, <3>2 DEF FilesInv, TypeInv, TypeOK, AdPhotosTypeOK
      <4> QED
        BY <4>1 DEF RowAsUploaded, JobOK
    <3> QED
      BY <3>1, <3>2
  <2>2. ~Deleted(b) /\ Cardinality(PhotosOf(b)) \in Nat
    BY <1>8, <1>9, <2>1, RowCount
  <2>3. CASE q = p
    <3>1. b = a /\ photo'[q].key = NextKey(a)
      BY <1>4, <1>5, <1>6, <1>9, <2>3
    <3>2. photo'[q].key[2] = Cardinality(PhotosOf(b)) + 1
      BY <3>1 DEF NextKey
    <3> QED
      BY <1>2, <1>4, <1>5, <1>6, <1>8, <2>1, <2>2, <2>3, <3>1, <3>2
  <2>4. CASE q # p
    <3>1. photo[q].exists /\ photo[q].ad = b /\ photo'[q].key = photo[q].key
      BY <1>5, <1>9, <2>4
    <3>2. photo[q].key[2] <= Cardinality(PhotosOf(b)) /\ bucket[photo[q].key] = q
      BY <1>1, <2>2, <3>1 DEF KeyWasCounted, FilesInv, RowsShowTheirFiles
    <3>3. photo[q].key[2] \in Nat
      <4>1. JobOK(job[q]) /\ RowAsUploaded(q)
        BY DEF FilesInv, TypeInv, TypeOK, AdPhotosTypeOK
      <4>2. Cardinality(Photos) \in Nat
        BY AdStoreAssumption, FS_CardinalityType
      <4>3. photo[q].key \in Keys
        BY <3>1, <4>1 DEF RowAsUploaded, JobOK
      <4> QED
        BY <4>2, <4>3 DEF Keys
    <3> QED
      BY <1>2, <1>8, <2>1, <2>2, <3>1, <3>2, <3>3
  <2> QED
    BY <2>3, <2>4
<1>10. (\A q \in Photos : KeyWasCounted(q))'
  BY <1>9 DEF KeyWasCounted
<1>11. RowsShowTheirFiles'
  BY <1>9 DEF RowsShowTheirFiles
<1>12. \A b \in Ads : ~Moving(p, b) => AdStays(b)
  BY <1>2, <1>8 DEF Moving, UnderWay, AdStays
<1> QED
  BY <1>2, <1>3, <1>5, <1>7, <1>10, <1>11, <1>12, PhotoKeepsFilesInv

\* Once a photo is deleted its ad promises nothing more; the other ads keep
\* their rows.
LEMMA RemovePhotoKeeps ==
  ASSUME FilesInv, OneThingAnAd, TypeInv', NEW p \in Photos, UNCHANGED task, RemovePhoto(p)
  PROVE  FilesInv'
<1> DEFINE a == job[p].ad
           r == [photo[p] EXCEPT !.exists = FALSE]
<1>1. /\ TypeInv /\ RowAsUploaded(p) /\ KeyIsNext(p)
      /\ photo \in [Photos -> PhotoRow] /\ \A q \in Photos : KeyWasCounted(q)
  BY DEF FilesInv, TypeInv, TypeOK, AdStoreTypeOK
<1>2. /\ UNCHANGED bucket /\ job[p].pc = "remove" /\ Goto(p, "cleanup")
      /\ photo' = [photo EXCEPT ![p] = r]
  BY DEF RemovePhoto
<1>3. /\ job'[p].pc = "cleanup" /\ job'[p].ad = job[p].ad /\ job'[p].key = job[p].key
      /\ \A q \in Photos \ {p} : job'[q] = job[q]
  BY <1>1, <1>2, GotoKeeps
<1>4. ~r.exists /\ r.ad = photo[p].ad /\ r.key = photo[p].key /\ photo[p].ad = a
  BY <1>1, <1>2 DEF PhotoRow, RowAsUploaded
<1> HIDE DEF r
<1>5. photo'[p] = r /\ \A q \in Photos \ {p} : photo'[q] = photo[q]
  BY <1>1, <1>2
<1>6. RowAsUploaded(p)' /\ KeyIsNext(p)'
  BY <1>1, <1>2, <1>3, <1>4, <1>5 DEF RowAsUploaded, KeyIsNext
<1>7. ASSUME NEW q \in Photos, NEW b, b = photo'[q].ad, photo'[q].exists, ~Deleted(b)'
      PROVE  photo'[q].key[2] <= Cardinality(PhotosOf(b)') /\ bucket'[photo'[q].key] = q
  <2>1. b # a
    BY <1>4, <1>5, <1>7 DEF Deleted
  <2>2. photo'[q] = photo[q]
    BY <1>4, <1>5, <1>7
  <2>3. PhotosOf(b)' = PhotosOf(b)
    BY <1>4, <1>5, <2>1 DEF PhotosOf
  <2>4. ~Deleted(b)
    BY <1>4, <1>5, <1>7, <2>1 DEF Deleted
  <2> QED
    BY <1>1, <1>2, <1>7, <2>2, <2>3, <2>4 DEF KeyWasCounted, FilesInv, RowsShowTheirFiles
<1>8. (\A q \in Photos : KeyWasCounted(q))'
  BY <1>7 DEF KeyWasCounted
<1>9. RowsShowTheirFiles'
  BY <1>7 DEF RowsShowTheirFiles
<1>10. \A b \in Ads : ~Moving(p, b) => AdStays(b)
  BY <1>2, <1>4, <1>5 DEF Moving, UnderWay, AdStays, PhotosOf
<1> QED
  BY <1>2, <1>3, <1>5, <1>6, <1>8, <1>9, <1>10, PhotoKeepsFilesInv

\* The object that goes with it is under a key of that ad.
LEMMA DeleteObjectKeeps ==
  ASSUME FilesInv, OneThingAnAd, TypeInv', NEW p \in Photos, UNCHANGED task, DeleteObject(p)
  PROVE  FilesInv'
<1>1. /\ TypeInv /\ RowAsUploaded(p) /\ KeyIsNext(p) /\ JobOK(job[p])
      /\ bucket \in [Keys -> Photos \union {None}]
  BY DEF FilesInv, TypeInv, TypeOK, AdPhotosTypeOK
<1>2. /\ UNCHANGED photo /\ job[p].pc = "cleanup" /\ Goto(p, "done")
      /\ bucket' = [bucket EXCEPT ![job[p].key] = None]
  BY DEF DeleteObject, adVars
<1>3. /\ job'[p].pc = "done" /\ job'[p].ad = job[p].ad /\ job'[p].key = job[p].key
      /\ \A q \in Photos \ {p} : job'[q] = job[q]
  BY <1>1, <1>2, GotoKeeps
<1>4. Deleted(job[p].ad) /\ job[p].key[1] = job[p].ad
  BY <1>1, <1>2 DEF RowAsUploaded, Deleted
<1>5. RowAsUploaded(p)' /\ KeyIsNext(p)'
  BY <1>1, <1>2, <1>3 DEF RowAsUploaded, KeyIsNext
<1>6. (\A q \in Photos : KeyWasCounted(q))'
  BY <1>2 DEF FilesInv, KeyWasCounted, PhotosOf, Deleted
<1>7. ASSUME NEW q \in Photos, photo[q].exists, ~Deleted(photo[q].ad)
      PROVE  bucket'[photo[q].key] = q
  <2>1. RowAsUploaded(q) /\ JobOK(job[q])
    BY DEF FilesInv, TypeInv, TypeOK, AdPhotosTypeOK
  <2>2. photo[q].key[1] = photo[q].ad /\ photo[q].key \in Keys
    BY <1>7, <2>1 DEF RowAsUploaded, JobOK
  <2>3. photo[q].key # job[p].key
    BY <1>4, <1>7, <2>2
  <2> QED
    BY <1>1, <1>2, <1>7, <2>2, <2>3 DEF FilesInv, RowsShowTheirFiles
<1>8. RowsShowTheirFiles'
  BY <1>2, <1>7 DEF RowsShowTheirFiles, Deleted
<1>9. \A a \in Ads : ~Moving(p, a) => AdStays(a)
  BY <1>1, <1>2, <1>4 DEF Moving, UnderWay, AdStays, PhotosOf
<1> QED
  BY <1>2, <1>3, <1>5, <1>6, <1>8, <1>9, PhotoKeepsFilesInv

\* The invariant is inductive where no two things happen to an ad at once.
LEMMA FilesInvStep ==
  ASSUME FilesInv, OneThingAnAd, [Next]_vars
  PROVE  FilesInv'
<1>1. TypeInv'
  BY TypeInvStep DEF FilesInv
<1>2. ASSUME NEW p \in Photos, Uploads(p), UNCHANGED task
      PROVE  FilesInv'
  BY <1>1, <1>2, JobMoves, PutObjectKeeps, InsertPhotoKeeps, RemovePhotoKeeps, DeleteObjectKeeps
     DEF Uploads, PhotoStep
<1>3. CASE UNCHANGED vars
  <2>1. UNCHANGED <<task, photo, job, bucket>>
    BY <1>3 DEF vars, adVars, photoVars
  <2>2. \A h \in Handlers : PhotosAsLoaded(h)'
    BY <2>1 DEF FilesInv, PhotosAsLoaded, PhotosOf
  <2>3. \A p \in Photos : RowAsUploaded(p)' /\ KeyIsNext(p)' /\ KeyWasCounted(p)'
    BY <2>1 DEF FilesInv, RowAsUploaded, KeyIsNext, KeyWasCounted, NextKey, PhotosOf, Deleted
  <2>4. RowsShowTheirFiles'
    BY <2>1 DEF FilesInv, RowsShowTheirFiles, Deleted
  <2> QED
    BY <1>1, <2>2, <2>3, <2>4 DEF FilesInv
<1>4. CASE Next
  BY <1>1, <1>2, <1>4, CallsAndUploads, CallKeepsFilesInv
<1> QED
  BY <1>3, <1>4

\* There are no rows yet.
LEMMA FilesInvInit ==
  ASSUME Init
  PROVE  FilesInv
<1>1. /\ \A h \in Handlers : task[h].pc = "idle"
      /\ \A p \in Photos : job[p].pc = "picked" /\ ~photo[p].exists /\ photo[p].ad = None
  BY ConstantTypes DEF Init, AdServiceInit, AdPhotosInit, AdStoreInit, NoPhoto
<1> QED
  BY <1>1, TypeInvInit
     DEF FilesInv, PhotosAsLoaded, RowAsUploaded, KeyIsNext, KeyWasCounted, RowsShowTheirFiles

\* However many sellers upload, delete and save at the same time, as long as no
\* two of these things happen to one ad at once, each row of an ad that lost no
\* photo shows the file it was uploaded with, even if uploads break off.
THEOREM UploadsKeepApartPerAd == Spec /\ []OneThingAnAd => []RowsShowTheirFiles
<1>1. Init => FilesInv
  BY FilesInvInit
<1>2. FilesInv /\ OneThingAnAd /\ [Next]_vars => FilesInv'
  BY FilesInvStep
<1>3. FilesInv => RowsShowTheirFiles
  BY DEF FilesInv
<1> QED
  BY <1>1, <1>2, <1>3, PTL DEF Spec

\* A row moves neither to another ad nor off its own.
PhotosStay == \A p \in Photos : photo[p].exists => photo'[p].ad = photo[p].ad

\* A row is only inserted where there is none, and deleting it keeps its ad.
LEMMA PhotosStayStep ==
  ASSUME FilesInv, [Next]_vars
  PROVE  [PhotosStay]_vars
<1>1. CASE UNCHANGED vars
  BY <1>1
<1>2. ASSUME NEW h \in Handlers, Calls(h)
      PROVE  PhotosStay
  BY <1>2, CallKeepsPhotos DEF PhotosStay
<1>3. ASSUME NEW p \in Photos, Uploads(p)
      PROVE  PhotosStay
  <2>1. photo \in [Photos -> PhotoRow] /\ RowAsUploaded(p)
    BY DEF FilesInv, TypeInv, TypeOK, AdStoreTypeOK
  <2>2. CASE InsertPhoto(p)
    BY <2>1, <2>2 DEF InsertPhoto, RowAsUploaded, PhotosStay
  <2>3. CASE RemovePhoto(p)
    BY <2>1, <2>3 DEF RemovePhoto, PhotoRow, PhotosStay
  <2>4. CASE ~InsertPhoto(p) /\ ~RemovePhoto(p)
    <3>1. UNCHANGED photo
      BY <1>3, <2>4 DEF Uploads, PhotoCall, DeletePhoto, RequestUploadUrl, PhotoStep, CountPhotos,
                        PutObject, AddPhoto, FindPhoto, DeleteObject, PhotoFails, adVars
    <3> QED
      BY <3>1 DEF PhotosStay
  <2> QED
    BY <2>2, <2>3, <2>4
<1> QED
  BY <1>1, <1>2, <1>3, CallsAndUploads

\* save() of an ad writes its relation to the photos as well, yet takes no photo
\* away from its ad and brings none back that was deleted, as long as no photo
\* of an ad moves while the ad is being saved.
THEOREM PhotosKeepTheirAds == Spec /\ []OneThingAnAd => [][PhotosStay]_vars
<1>1. Init => FilesInv
  BY FilesInvInit
<1>2. FilesInv /\ OneThingAnAd /\ [Next]_vars => FilesInv'
  BY FilesInvStep
<1>3. FilesInv /\ [Next]_vars => [PhotosStay]_vars
  BY PhotosStayStep
<1> QED
  BY <1>1, <1>2, <1>3, PTL DEF Spec

-----------------------------------------------------------------------------
(* One save of an ad at a time implements the lifecycle                     *)

\* The entity e is what one operation of the lifecycle makes of the row r.
MakesOf(r, e) ==
  \/ e.status = r.status /\ r.status \in {"DRAFT", "REJECTED", "REVIEW"}
     /\ e.core \in Texts /\ e.content \in Texts
  \/ e.status = "REVIEW" /\ r.status \in {"DRAFT", "REJECTED"}
     /\ e.core = r.core /\ e.content = r.content
  \/ e.status \in {"VALIDATED", "REJECTED"} /\ r.status = "REVIEW"
     /\ e.core = r.core /\ e.content = r.content
  \/ e.status = "REVIEW" /\ r.status = "VALIDATED"
     /\ e.core = r.core /\ e.content \in Texts

EntityIsNext(h) ==
  /\ task[h].pc = "insert" => task[h].entity.core \in Texts /\ task[h].entity.content \in Texts
  /\ task[h].pc \in {"select", "update"} => MakesOf(ads[task[h].ad], task[h].entity)
  /\ task[h].pc = "update" => task[h].cols = Differing(task[h].entity, task[h].ad)

LifecycleInv ==
  /\ TypeInv
  /\ \A h \in Handlers : EntityIsNext(h)

\* The entity of a call that arrives is the next row, and its select finds what
\* the two differ in.
LEMMA ArrivalIsNext ==
  ASSUME TypeInv, NEW h \in Handlers, CallArrives(h)
  PROVE  EntityIsNext(h)'
<1>1. task \in [Handlers -> Task] /\ ads \in [Ads -> Ad] /\ UNCHANGED ads
  BY CallArrivesTyped DEF TypeInv, TypeOK, AdStoreTypeOK, AdServiceTypeOK, adVars
<1>2. ASSUME NEW a \in Ads, NEW op, NEW u, NEW text, NEW e, Loads(h, a, op, u, text, e),
             MakesOf(ads[a], e)
      PROVE  EntityIsNext(h)'
  <2> DEFINE t == [NoTask EXCEPT !.pc = "select", !.op = op, !.ad = a, !.user = u,
                                 !.text = text, !.entity = e, !.photos = PhotosOf(a)]
  <2>1. t.entity = e /\ t.ad = a /\ t.pc = "select"
    BY DEF NoTask
  <2>2. task' = [task EXCEPT ![h] = t]
    BY <1>2 DEF Loads
  <2> HIDE DEF t
  <2>3. task'[h] = t
    BY <1>1, <2>2
  <2> QED
    BY <1>1, <1>2, <2>1, <2>3 DEF EntityIsNext
<1>3. ASSUME NEW u \in Users, NEW core \in Texts, NEW content \in Texts,
             CreateAd(h, u, core, content)
      PROVE  EntityIsNext(h)'
  <2> DEFINE e == [status |-> "DRAFT", seller |-> u, core |-> core, content |-> content,
                   reason |-> None]
             t == [NoTask EXCEPT !.pc = "insert", !.op = "create", !.entity = e]
  <2>1. t.pc = "insert" /\ t.entity.core = core /\ t.entity.content = content
    BY DEF NoTask
  <2>2. task' = [task EXCEPT ![h] = t]
    BY <1>3 DEF CreateAd
  <2> HIDE DEF t
  <2>3. task'[h] = t
    BY <1>1, <2>2
  <2> QED
    BY <2>1, <2>3 DEF EntityIsNext
<1>4. ASSUME NEW a \in Ads, NEW u \in Users, NEW text \in Texts, AddMessage(h, a, u, text)
      PROVE  EntityIsNext(h)'
  <2> DEFINE t == [NoTask EXCEPT !.pc = "message", !.ad = a, !.user = u, !.text = text]
  <2>1. t.pc = "message"
    BY DEF NoTask
  <2>2. task' = [task EXCEPT ![h] = t]
    BY <1>4 DEF AddMessage
  <2> HIDE DEF t
  <2>3. task'[h] = t
    BY <1>1, <2>2
  <2> QED
    BY <2>1, <2>3 DEF EntityIsNext
<1>5. ASSUME NEW a \in Ads, NEW u \in Users, NEW core \in Texts, NEW content \in Texts,
             UpdateAd(h, u, a, core, content)
      PROVE  EntityIsNext(h)'
  <2> DEFINE e == [ads[a] EXCEPT !.core = core, !.content = content]
  <2>1. ads[a].status \in {"DRAFT", "REJECTED", "REVIEW"}
    BY <1>5 DEF UpdateAd, MayUpdate, CanEdit
  <2>2. e.status = ads[a].status /\ e.core = core /\ e.content = content
    BY <1>1 DEF Ad
  <2>3. MakesOf(ads[a], e)
    BY <2>1, <2>2 DEF MakesOf
  <2> QED
    BY <1>2, <1>5, <2>3 DEF UpdateAd
<1>6. ASSUME NEW a \in Ads, NEW content \in Texts, UpdateContent(h, a, content)
      PROVE  EntityIsNext(h)'
  <2> DEFINE e == [ads[a] EXCEPT !.content = content, !.status = "REVIEW"]
  <2>1. e.status = "REVIEW" /\ e.core = ads[a].core /\ e.content = content
    BY <1>1 DEF Ad
  <2>2. MakesOf(ads[a], e)
    BY <1>6, <2>1 DEF MakesOf, UpdateContent, CanEditContent
  <2> QED
    BY <1>2, <1>6, <2>2 DEF UpdateContent
<1>7. ASSUME NEW a \in Ads, SubmitAd(h, a) \/ ValidateAd(h, a)
      PROVE  EntityIsNext(h)'
  <2> DEFINE e(s) == [ads[a] EXCEPT !.status = s]
  <2>1. ASSUME NEW s
        PROVE  e(s).status = s /\ e(s).core = ads[a].core /\ e(s).content = ads[a].content
    BY <1>1 DEF Ad
  <2>2. CASE SubmitAd(h, a)
    <3>1. MakesOf(ads[a], e("REVIEW"))
      BY <2>1, <2>2 DEF MakesOf, SubmitAd
    <3> QED
      BY <1>2, <2>2, <3>1 DEF SubmitAd
  <2>3. CASE ValidateAd(h, a)
    <3>1. MakesOf(ads[a], e("VALIDATED"))
      BY <2>1, <2>3 DEF MakesOf, ValidateAd
    <3> QED
      BY <1>2, <2>3, <3>1 DEF ValidateAd
  <2> QED
    BY <1>7, <2>2, <2>3
<1>8. ASSUME NEW a \in Ads, NEW u \in Users, NEW text \in Texts, RejectAd(h, a, u, text)
      PROVE  EntityIsNext(h)'
  <2> DEFINE e == [ads[a] EXCEPT !.status = "REJECTED", !.reason = text]
  <2>1. e.status = "REJECTED" /\ e.core = ads[a].core /\ e.content = ads[a].content
    BY <1>1 DEF Ad
  <2>2. MakesOf(ads[a], e)
    BY <1>8, <2>1 DEF MakesOf, RejectAd
  <2> QED
    BY <1>2, <1>8, <2>2 DEF RejectAd
<1> QED
  BY <1>3, <1>4, <1>5, <1>6, <1>7, <1>8 DEF CallArrives

\* The later steps of the call.
LEMMA StepIsNext ==
  ASSUME TypeInv, NEW h \in Handlers, CallStep(h) \/ CallFails(h), EntityIsNext(h)
  PROVE  EntityIsNext(h)'
<1>1. task \in [Handlers -> Task]
  BY DEF TypeInv, TypeOK, AdServiceTypeOK
<1>2. CASE Continue(h)
  BY <1>2, AfterSaving DEF EntityIsNext
<1>3. CASE Drop(h)
  <2>1. task'[h].pc = "idle"
    BY <1>1, <1>3, ConstantTypes DEF Drop
  <2> QED
    BY <2>1 DEF EntityIsNext
<1>4. CASE SaveSelects(h) /\ ~Continue(h)
  <2> DEFINE q == task[h]
             t == [q EXCEPT !.pc = "update", !.cols = Differing(q.entity, q.ad),
                            !.lost = PhotosOf(q.ad) \ q.photos,
                            !.back = q.photos \ PhotosOf(q.ad)]
  <2>1. /\ t.entity = q.entity /\ t.ad = q.ad /\ q.pc = "select" /\ t.pc = "update"
        /\ t.cols = Differing(q.entity, q.ad) /\ UNCHANGED ads
    BY <1>1, <1>4 DEF Task, SaveSelects, adVars
  <2>2. task' = [task EXCEPT ![h] = t]
    BY <1>4 DEF SaveSelects
  <2> HIDE DEF t
  <2>3. task'[h] = t
    BY <1>1, <2>2
  <2>4. MakesOf(ads[q.ad], q.entity)
    BY <2>1 DEF EntityIsNext
  <2>5. Differing(q.entity, q.ad) = {c \in Columns : q.entity[c] # ads'[q.ad][c]}
    BY <2>1 DEF Differing
  <2>6. task'[h].pc = "update" /\ task'[h].entity = q.entity /\ task'[h].ad = q.ad
        /\ task'[h].cols = {c \in Columns : q.entity[c] # ads'[q.ad][c]}
    BY <2>1, <2>3, <2>5
  <2> QED
    BY <2>1, <2>4, <2>6 DEF EntityIsNext, Differing
<1> QED
  BY <1>2, <1>3, <1>4
     DEF CallStep, InsertAd, SaveUpdates, NotifyValidated, SaveMessage, CallFails

\* What happens to photos leaves the ads themselves alone.
LEMMA UploadsKeepAds ==
  ASSUME NEW p \in Photos, Uploads(p)
  PROVE  UNCHANGED ads
BY DEF Uploads, PhotoCall, DeletePhoto, RequestUploadUrl, PhotoStep, CountPhotos, PutObject,
       AddPhoto, InsertPhoto, FindPhoto, RemovePhoto, DeleteObject, PhotoFails, adVars

\* A save of one ad leaves what is on its way to another as it is.
LEMMA OthersStayNext ==
  ASSUME LifecycleInv, OneSaveAnAd, NEW h \in Handlers, Calls(h), NEW g \in Handlers \ {h}
  PROVE  EntityIsNext(g)'
<1>1. task'[g] = task[g] /\ EntityIsNext(g) /\ TaskOK(task[g]) /\ ads \in [Ads -> Ad]
  BY OneTaskChanges DEF LifecycleInv, TypeInv, TypeOK, AdStoreTypeOK, AdServiceTypeOK, Calls
<1>2. CASE task[g].pc \in {"select", "update"}
  <2> DEFINE a == task[g].ad
  <2>1. a \in Ads /\ Saving(g, a) /\ MakesOf(ads[a], task[g].entity)
    BY <1>1, <1>2 DEF TaskOK, Saving, EntityIsNext
  <2>2. Exists(a)
    BY <2>1 DEF MakesOf, Exists
  <2>3. ads'[a] = ads[a]
    <3>1. ASSUME NEW b \in Ads, InsertAd(h, b)
          PROVE  ads'[a] = ads[a]
      BY <1>1, <2>1, <2>2, <3>1 DEF InsertAd
    <3>2. CASE SaveUpdates(h)
      <4>1. task[h].ad # a
        BY <2>1, <3>2 DEF SaveUpdates, Saving, OneSaveAnAd
      <4> QED
        BY <1>1, <2>1, <3>2, <4>1 DEF SaveUpdates
    <3>3. CallArrives(h) => UNCHANGED adVars
      BY CallArrivesTyped DEF LifecycleInv, TypeInv, TypeOK
    <3> QED
      BY <3>1, <3>2, <3>3
         DEF Calls, CallStep, SaveSelects, NotifyValidated, SaveMessage, CallFails, adVars
  <2> QED
    BY <1>1, <1>2, <2>1, <2>3 DEF EntityIsNext, Differing
<1> QED
  BY <1>1, <1>2 DEF EntityIsNext

\* The invariant is inductive where no two saves of an ad overlap.
LEMMA LifecycleInvStep ==
  ASSUME LifecycleInv, OneSaveAnAd, [Next]_vars
  PROVE  LifecycleInv'
<1>1. TypeInv' /\ TypeInv
  BY TypeInvStep DEF LifecycleInv
<1>2. ASSUME NEW h \in Handlers, Calls(h)
      PROVE  \A g \in Handlers : EntityIsNext(g)'
  BY <1>1, <1>2, ArrivalIsNext, StepIsNext, OthersStayNext DEF Calls, LifecycleInv
<1>3. ASSUME NEW p \in Photos, Uploads(p)
      PROVE  UNCHANGED ads
  BY <1>3, UploadsKeepAds
<1>4. CASE UNCHANGED <<task, ads>>
  BY <1>1, <1>4 DEF LifecycleInv, EntityIsNext, Differing
<1> QED
  BY <1>1, <1>2, <1>3, <1>4, CallsAndUploads DEF LifecycleInv, vars, adVars

\* What replacing one row means for the variables of the lifecycle.
LEMMA OneRow ==
  ASSUME ads \in [Ads -> Ad], NEW a \in Ads, NEW r, ads' = [ads EXCEPT ![a] = r]
  PROVE  /\ [x \in Ads |-> ads'[x].status] = [[x \in Ads |-> ads[x].status] EXCEPT ![a] = r.status]
         /\ [x \in Ads |-> ads'[x].core] = [[x \in Ads |-> ads[x].core] EXCEPT ![a] = r.core]
         /\ [x \in Ads |-> ads'[x].content] = [[x \in Ads |-> ads[x].content] EXCEPT ![a] = r.content]
         /\ r.status = ads[a].status =>
              [x \in Ads |-> ads'[x].status] = [x \in Ads |-> ads[x].status]
         /\ r.core = ads[a].core => [x \in Ads |-> ads'[x].core] = [x \in Ads |-> ads[x].core]
         /\ r.content = ads[a].content =>
              [x \in Ads |-> ads'[x].content] = [x \in Ads |-> ads[x].content]
  OBVIOUS

\* An insert is the lifecycle's Create.
LEMMA InsertAdMaps ==
  ASSUME LifecycleInv, NEW h \in Handlers, NEW a \in Ads, InsertAd(h, a)
  PROVE  Lifecycle!Create(a)
<1> DEFINE e == task[h].entity
<1>1. /\ ads \in [Ads -> Ad] /\ ads[a].status = "ABSENT" /\ e.status = "DRAFT"
      /\ e.core \in Texts /\ e.content \in Texts /\ ads' = [ads EXCEPT ![a] = e]
  BY DEF LifecycleInv, TypeInv, TypeOK, AdStoreTypeOK, AdServiceTypeOK, TaskOK,
         InsertAd, Exists, EntityIsNext
<1> HIDE DEF e
<1> QED
  BY <1>1, OneRow DEF Lifecycle!Create, Lifecycle!Move, Lifecycle!Write

\* An operation on one ad is a step of the lifecycle.
LEMMA OperationIsNext ==
  ASSUME NEW a \in Ads,
         \/ Lifecycle!Edit(a) \/ Lifecycle!Submit(a) \/ Lifecycle!Validate(a)
         \/ Lifecycle!Reject(a) \/ Lifecycle!Revise(a)
  PROVE  Lifecycle!LifecycleNext
  BY DEF Lifecycle!LifecycleNext

\* A save is the operation its entity stands for.
LEMMA SaveUpdatesMaps ==
  ASSUME LifecycleInv, NEW h \in Handlers, SaveUpdates(h)
  PROVE  Lifecycle!LifecycleNext
<1> DEFINE q == task[h]
<1>0. PICK a \in Ads : a = q.ad
  BY DEF LifecycleInv, TypeInv, TypeOK, AdServiceTypeOK, TaskOK, SaveUpdates
<1> DEFINE e == q.entity
           r == Written(ads[a], e, q.cols)
<1>1. /\ ads \in [Ads -> Ad] /\ q.pc = "update"
      /\ q.cols = Differing(e, a) /\ MakesOf(ads[a], e)
      /\ ads' = [ads EXCEPT ![a] = r]
  BY <1>0 DEF LifecycleInv, TypeInv, TypeOK, AdStoreTypeOK, SaveUpdates, EntityIsNext
<1>2. r.status = e.status /\ r.core = e.core /\ r.content = e.content
  BY <1>1 DEF Written, Differing, Columns
<1> HIDE DEF r, e
<1>3. CASE /\ e.status = ads[a].status /\ ads[a].status \in {"DRAFT", "REJECTED", "REVIEW"}
           /\ e.core \in Texts /\ e.content \in Texts
  <2>1. Lifecycle!Edit(a)
    BY <1>1, <1>2, <1>3, OneRow DEF Lifecycle!Edit, Lifecycle!Write
  <2> QED
    BY <2>1, OperationIsNext
<1>4. CASE /\ e.status = "REVIEW" /\ ads[a].status \in {"DRAFT", "REJECTED"}
           /\ e.core = ads[a].core /\ e.content = ads[a].content
  <2>1. Lifecycle!Submit(a)
    BY <1>1, <1>2, <1>4, OneRow DEF Lifecycle!Submit, Lifecycle!Move
  <2> QED
    BY <2>1, OperationIsNext
<1>5. CASE /\ e.status \in {"VALIDATED", "REJECTED"} /\ ads[a].status = "REVIEW"
           /\ e.core = ads[a].core /\ e.content = ads[a].content
  <2>1. Lifecycle!Validate(a) \/ Lifecycle!Reject(a)
    BY <1>1, <1>2, <1>5, OneRow DEF Lifecycle!Validate, Lifecycle!Reject, Lifecycle!Move
  <2> QED
    BY <2>1, OperationIsNext
<1>6. CASE /\ e.status = "REVIEW" /\ ads[a].status = "VALIDATED"
           /\ e.core = ads[a].core /\ e.content \in Texts
  <2>1. Lifecycle!Revise(a)
    BY <1>1, <1>2, <1>6, OneRow DEF Lifecycle!Revise, Lifecycle!Move
  <2> QED
    BY <2>1, OperationIsNext
<1> QED
  BY <1>1, <1>3, <1>4, <1>5, <1>6 DEF MakesOf

\* Every other step leaves the ads as they are.
LEMMA StepMaps ==
  ASSUME LifecycleInv, [Next]_vars
  PROVE  [Lifecycle!LifecycleNext]_(Lifecycle!lifecycleVars)
<1>1. UNCHANGED ads => UNCHANGED Lifecycle!lifecycleVars
  BY DEF Lifecycle!lifecycleVars
<1>2. ASSUME NEW h \in Handlers, Calls(h)
      PROVE  Lifecycle!LifecycleNext \/ UNCHANGED ads
  <2>1. ASSUME NEW a \in Ads, InsertAd(h, a)
        PROVE  Lifecycle!LifecycleNext
    BY <2>1, InsertAdMaps DEF Lifecycle!LifecycleNext
  <2>2. CallArrives(h) => UNCHANGED adVars
    BY CallArrivesTyped DEF LifecycleInv, TypeInv, TypeOK
  <2> QED
    BY <1>2, <2>1, <2>2, SaveUpdatesMaps
       DEF Calls, CallStep, SaveSelects, NotifyValidated, SaveMessage, CallFails, adVars
<1>3. ASSUME NEW p \in Photos, Uploads(p)
      PROVE  UNCHANGED ads
  BY <1>3, UploadsKeepAds
<1>4. CASE UNCHANGED vars
  BY <1>1, <1>4 DEF vars, adVars
<1> QED
  BY <1>1, <1>2, <1>3, <1>4, CallsAndUploads

\* Both start without ads.
LEMMA InitMaps ==
  ASSUME Init
  PROVE  Lifecycle!LifecycleInit /\ LifecycleInv
<1>1. Lifecycle!LifecycleInit
  BY DEF Init, AdStoreInit, AbsentAd, Lifecycle!LifecycleInit
<1>2. \A h \in Handlers : task[h].pc = "idle"
  BY ConstantTypes DEF Init, AdServiceInit
<1> QED
  BY <1>1, <1>2, TypeInvInit DEF LifecycleInv, EntityIsNext

\* As long as no two saves of one ad overlap, and whatever happens to other ads
\* meanwhile, AdService behaves like the entity whose calls are atomic: statuses
\* move along the lifecycle only, and no column changes in a status that does
\* not allow it.
THEOREM LifecyclePerAd == Spec /\ []OneSaveAnAd => ImplementsLifecycle
<1>1. Init => Lifecycle!LifecycleInit /\ LifecycleInv
  BY InitMaps
<1>2. LifecycleInv /\ OneSaveAnAd /\ [Next]_vars => LifecycleInv'
  BY LifecycleInvStep
<1>3. LifecycleInv /\ [Next]_vars => [Lifecycle!LifecycleNext]_(Lifecycle!lifecycleVars)
  BY StepMaps
<1> QED
  BY <1>1, <1>2, <1>3, PTL DEF Spec, ImplementsLifecycle, Lifecycle!LifecycleSpec

-----------------------------------------------------------------------------
(* One client that awaits each answer                                       *)

\* At most one call or one photo is on its way.
OneAtATime ==
  /\ Serving => ~Uploading
  /\ \A g, h \in Handlers : task[g].pc # "idle" /\ task[h].pc # "idle" => g = h
  /\ \A p, q \in Photos : UnderWay(p) /\ UnderWay(q) => p = q

\* Such a client does one thing an ad at a time.
LEMMA OneAtATimeIsPerAd == OneAtATime => OneThingAnAd
BY DEF OneAtATime, OneThingAnAd, OneSaveAnAd, Saving, Moving, Serving, Uploading, UnderWay

\* It starts nothing while something is under way.
LEMMA OneAtATimeStep ==
  ASSUME OneClient, TypeInv, OneAtATime, [Next]_vars
  PROVE  OneAtATime'
<1>1. ASSUME NEW h \in Handlers, Calls(h), task[h].pc = "idle" => ~Serving /\ ~Uploading,
             UNCHANGED photoVars
      PROVE  OneAtATime'
  <2>1. /\ \A g \in Handlers \ {h} : task'[g] = task[g] /\ task[g].pc = "idle"
        /\ \A p \in Photos : ~UnderWay(p)
    BY <1>1, OneTaskChanges DEF OneAtATime, Calls, Serving, Uploading, UnderWay
  <2> QED
    BY <1>1, <2>1 DEF OneAtATime, Serving, Uploading, UnderWay, photoVars
<1>2. ASSUME NEW p \in Photos, Uploads(p), ~UnderWay(p) => ~Serving /\ ~Uploading,
             UNCHANGED task
      PROVE  OneAtATime'
  <2>1. /\ \A h \in Handlers : task[h].pc = "idle"
        /\ \A q \in Photos \ {p} : ~UnderWay(q)
    BY <1>2 DEF OneAtATime, Serving, Uploading, UnderWay
  <2>2. \A q \in Photos \ {p} : job'[q] = job[q]
    BY <1>2 DEF TypeInv, TypeOK, AdPhotosTypeOK, Uploads, PhotoCall, DeletePhoto,
                RequestUploadUrl, PhotoStep, CountPhotos, PutObject, AddPhoto, InsertPhoto,
                FindPhoto, RemovePhoto, DeleteObject, PhotoFails, Goto
  <2> QED
    BY <1>2, <2>1, <2>2 DEF OneAtATime, Serving, Uploading, UnderWay
<1>3. CASE UNCHANGED vars
  BY <1>3 DEF vars, photoVars, OneAtATime, Serving, Uploading, UnderWay
<1>4. ASSUME NEW h \in Handlers, CallStep(h) \/ CallFails(h)
      PROVE  task[h].pc # "idle"
  BY <1>4 DEF CallStep, CallFails, InsertAd, SaveSelects, SaveUpdates, NotifyValidated,
              SaveMessage
<1>5. ASSUME NEW p \in Photos, PhotoStep(p) \/ PhotoFails(p)
      PROVE  UnderWay(p)
  BY <1>5 DEF PhotoStep, CountPhotos, PutObject, AddPhoto, InsertPhoto, FindPhoto,
              RemovePhoto, DeleteObject, PhotoFails, UnderWay
<1>6. CASE Next
  BY <1>1, <1>2, <1>4, <1>5, <1>6 DEF Next, CallNext, PhotoNext, Fault, Calls, Uploads
<1> QED
  BY <1>3, <1>6

\* Nothing is under way yet.
LEMMA OneAtATimeInit == Init => OneAtATime
<1> SUFFICES ASSUME Init PROVE OneAtATime
  OBVIOUS
<1>1. /\ \A h \in Handlers : task[h].pc = "idle"
      /\ \A p \in Photos : job[p].pc = "picked"
  BY ConstantTypes DEF Init, AdServiceInit, AdPhotosInit
<1> QED
  BY <1>1 DEF OneAtATime, Serving, Uploading, UnderWay

\* One client that awaits each answer never does two things to an ad at once.
LEMMA OneClientKeepsApart == OneClient => (Spec => []OneThingAnAd)
<1> SUFFICES ASSUME OneClient
             PROVE  Spec => []OneThingAnAd
  OBVIOUS
<1>1. Init => TypeInv /\ OneAtATime
  BY TypeInvInit, OneAtATimeInit
<1>2. TypeInv /\ OneAtATime /\ [Next]_vars => (TypeInv /\ OneAtATime)'
  BY TypeInvStep, OneAtATimeStep
<1> QED
  BY <1>1, <1>2, OneAtATimeIsPerAd, PTL DEF Spec

\* With one client that awaits each answer, each row of an ad that lost no
\* photo shows the file it was uploaded with, even if uploads break off.
THEOREM UploadsKeepApart == OneClient => (Spec => []RowsShowTheirFiles)
<1> SUFFICES ASSUME OneClient
             PROVE  Spec => []RowsShowTheirFiles
  OBVIOUS
<1>1. Spec => []OneThingAnAd
  BY OneClientKeepsApart
<1> QED
  BY <1>1, UploadsKeepApartPerAd, PTL

\* With one such client, AdService behaves like the entity whose calls are
\* atomic.
THEOREM LifecycleIsImplemented == OneClient => (Spec => ImplementsLifecycle)
<1> SUFFICES ASSUME OneClient
             PROVE  Spec => ImplementsLifecycle
  OBVIOUS
<1>1. Spec => []OneThingAnAd
  BY OneClientKeepsApart
<1>2. OneThingAnAd => OneSaveAnAd
  BY DEF OneThingAnAd
<1> QED
  BY <1>1, <1>2, LifecyclePerAd, PTL
=============================================================================
