------------------------- MODULE AdModerationProofs -------------------------
(***************************************************************************)
(* Proofs about AdModeration, for any ads, users, texts, photos, calls     *)
(* under way, cap and number of faults: types, and how far a seller can    *)
(* get past the cap on active ads.                                         *)
(***************************************************************************)
EXTENDS AdModeration, FiniteSetTheorems, TLAPS

-----------------------------------------------------------------------------
(* Types                                                                    *)

\* The records an idle call and an absent ad hold are well typed.
LEMMA ConstantTypes ==
  /\ AbsentAd \in Ad /\ AbsentAd.status = "ABSENT" /\ AbsentAd.seller = None
  /\ NoTask \in Task /\ NoTask.pc = "idle" /\ TaskOK(NoTask)
BY DEF AbsentAd, Ad, AdStatuses, NoTask, Task, TaskOK

\* Replacing one task by a well-typed one keeps all of them typed.
LEMMA OneTask ==
  ASSUME AdServiceTypeOK, NEW h \in Handlers, NEW t, TaskOK(t),
         task' = [task EXCEPT ![h] = t]
  PROVE  AdServiceTypeOK'
  BY DEF AdServiceTypeOK, TaskOK

\* A call that ends leaves the others as they are.
LEMMA DropTyped ==
  ASSUME AdServiceTypeOK, NEW h \in Handlers, Drop(h)
  PROVE  AdServiceTypeOK'
  BY ConstantTypes, OneTask DEF Drop

\* createAd starts well typed.
LEMMA CreateAdTyped ==
  ASSUME AdServiceTypeOK, NEW h \in Handlers, NEW u \in Users, NEW core \in Texts,
         NEW content \in Texts, CreateAd(h, u, core, content)
  PROVE  AdServiceTypeOK'
<1> DEFINE e == [status |-> "DRAFT", seller |-> u, core |-> core,
                 content |-> content, reason |-> None]
           t == [NoTask EXCEPT !.pc = "insert", !.op = "create", !.entity = e]
<1>1. e \in Ad /\ e.status # "ABSENT" /\ e.seller \in Users
  BY DEF Ad, AdStatuses
<1>2. TaskOK(t)
  BY <1>1, ConstantTypes DEF TaskOK, Task, NoTask
<1> QED
  BY <1>2, OneTask DEF CreateAd

\* So does every call that loads an ad to save it.
LEMMA LoadsTyped ==
  ASSUME AdServiceTypeOK, NEW h \in Handlers, NEW a \in Ads,
         NEW op \in {"edit", "validate", "reject"},
         NEW u \in Users \union {None}, NEW text \in Texts \union {None},
         op = "reject" => u \in Users /\ text \in Texts,
         NEW e \in Ad, e.status # "ABSENT", e.seller \in Users,
         Loads(h, a, op, u, text, e)
  PROVE  AdServiceTypeOK'
<1> DEFINE t == [NoTask EXCEPT !.pc = "select", !.op = op, !.ad = a, !.user = u,
                               !.text = text, !.entity = e, !.photos = PhotosOf(a)]
<1>1. PhotosOf(a) \subseteq Photos
  BY DEF PhotosOf
<1>2. TaskOK(t)
  BY <1>1, ConstantTypes DEF TaskOK, Task, NoTask
<1> QED
  BY <1>2, OneTask DEF Loads

\* And addMessage.
LEMMA AddMessageTyped ==
  ASSUME AdServiceTypeOK, NEW h \in Handlers, NEW a \in Ads, NEW u \in Users,
         NEW text \in Texts, AddMessage(h, a, u, text)
  PROVE  AdServiceTypeOK'
<1> DEFINE t == [NoTask EXCEPT !.pc = "message", !.ad = a, !.user = u, !.text = text]
<1>1. TaskOK(t)
  BY ConstantTypes DEF TaskOK, Task, NoTask
<1> QED
  BY <1>1, OneTask DEF AddMessage

\* Calls arrive well typed.
LEMMA CallArrivesTyped ==
  ASSUME AdStoreTypeOK, AdServiceTypeOK, NEW h \in Handlers, CallArrives(h)
  PROVE  AdServiceTypeOK' /\ UNCHANGED adVars
<1>1. ASSUME NEW a \in Ads, Exists(a)
      PROVE  ads[a] \in Ad /\ ads[a].status # "ABSENT" /\ ads[a].seller \in Users
  BY <1>1 DEF AdStoreTypeOK, Exists
<1>2. CASE \E u \in Users, core, content \in Texts : CreateAd(h, u, core, content)
  BY <1>2, CreateAdTyped DEF CreateAd
<1>3. ASSUME NEW a \in Ads, NEW u \in Users, NEW core \in Texts, NEW content \in Texts,
             UpdateAd(h, u, a, core, content)
      PROVE  AdServiceTypeOK' /\ UNCHANGED adVars
  <2> DEFINE e == [ads[a] EXCEPT !.core = core, !.content = content]
  <2>1. e \in Ad /\ e.status # "ABSENT" /\ e.seller \in Users
    BY <1>1, <1>3 DEF UpdateAd, Loads, Ad
  <2> QED
    BY <1>3, <2>1, LoadsTyped DEF UpdateAd, Loads
<1>4. ASSUME NEW a \in Ads, NEW content \in Texts, UpdateContent(h, a, content)
      PROVE  AdServiceTypeOK' /\ UNCHANGED adVars
  <2> DEFINE e == [ads[a] EXCEPT !.content = content, !.status = "REVIEW"]
  <2>1. e \in Ad /\ e.status # "ABSENT" /\ e.seller \in Users
    BY <1>1, <1>4 DEF UpdateContent, Loads, Ad, AdStatuses
  <2> QED
    BY <1>4, <2>1, LoadsTyped DEF UpdateContent, Loads
<1>5. ASSUME NEW a \in Ads, SubmitAd(h, a)
      PROVE  AdServiceTypeOK' /\ UNCHANGED adVars
  <2> DEFINE e == [ads[a] EXCEPT !.status = "REVIEW"]
  <2>1. e \in Ad /\ e.status # "ABSENT" /\ e.seller \in Users
    BY <1>1, <1>5 DEF SubmitAd, Loads, Ad, AdStatuses
  <2> QED
    BY <1>5, <2>1, LoadsTyped DEF SubmitAd, Loads
<1>6. ASSUME NEW a \in Ads, ValidateAd(h, a)
      PROVE  AdServiceTypeOK' /\ UNCHANGED adVars
  <2> DEFINE e == [ads[a] EXCEPT !.status = "VALIDATED"]
  <2>1. e \in Ad /\ e.status # "ABSENT" /\ e.seller \in Users
    BY <1>1, <1>6 DEF ValidateAd, Loads, Ad, AdStatuses
  <2> QED
    BY <1>6, <2>1, LoadsTyped DEF ValidateAd, Loads
<1>7. ASSUME NEW a \in Ads, NEW u \in Users, NEW text \in Texts, RejectAd(h, a, u, text)
      PROVE  AdServiceTypeOK' /\ UNCHANGED adVars
  <2> DEFINE e == [ads[a] EXCEPT !.status = "REJECTED", !.reason = text]
  <2>1. e \in Ad /\ e.status # "ABSENT" /\ e.seller \in Users
    BY <1>1, <1>7 DEF RejectAd, Loads, Ad, AdStatuses
  <2> QED
    BY <1>7, <2>1, LoadsTyped DEF RejectAd, Loads
<1>8. ASSUME NEW a \in Ads, NEW u \in Users, NEW text \in Texts, AddMessage(h, a, u, text)
      PROVE  AdServiceTypeOK' /\ UNCHANGED adVars
  BY <1>8, AddMessageTyped DEF AddMessage
<1> QED
  BY <1>2, <1>3, <1>4, <1>5, <1>6, <1>7, <1>8 DEF CallArrives

\* After save() a call is over, or goes on to a step its task is typed for.
LEMMA ContinueTyped ==
  ASSUME AdServiceTypeOK, NEW h \in Handlers, task[h].pc \in {"select", "update"}, Continue(h)
  PROVE  AdServiceTypeOK'
<1> DEFINE q == task[h]
           t == [NoTask EXCEPT !.pc = AfterSave(q.op), !.op = q.op, !.ad = q.ad,
                               !.user = q.user, !.text = q.text]
<1>1. TaskOK(q)
  BY DEF AdServiceTypeOK
<1>2. CASE AfterSave(q.op) = "idle"
  <2>1. task' = [task EXCEPT ![h] = NoTask]
    BY <1>2 DEF Continue
  <2> QED
    BY <2>1, ConstantTypes, OneTask
<1>3. CASE AfterSave(q.op) # "idle"
  <2>1. AfterSave(q.op) = IF q.op = "validate" THEN "notify" ELSE "message"
    BY <1>3 DEF AfterSave
  <2>2. q.op \in {"validate", "reject"}
    BY <1>3 DEF AfterSave
  <2>3. q.ad \in Ads /\ q.user \in Users \union {None} /\ q.text \in Texts \union {None}
    BY <1>1 DEF TaskOK, Task
  <2>4. TaskOK(t)
    <3> HIDE DEF q
    <3>1. q.op = "reject" => q.user \in Users /\ q.text \in Texts
      BY <1>1 DEF TaskOK
    <3> QED
      BY <2>1, <2>2, <2>3, <3>1, ConstantTypes DEF TaskOK, Task, NoTask
  <2>5. task' = [task EXCEPT ![h] = t]
    BY <1>3 DEF Continue
  <2> QED
    BY <2>4, <2>5, OneTask
<1> QED
  BY <1>2, <1>3

\* The row save() leaves behind is typed, and keeps its seller.
LEMMA WrittenTyped ==
  ASSUME NEW r \in Ad, NEW e \in Ad, NEW cols, r.status # "ABSENT" \/ r.seller = None,
         e.status # "ABSENT"
  PROVE  /\ Written(r, e, cols) \in Ad
         /\ Written(r, e, cols).seller = r.seller
         /\ Written(r, e, cols).status = (IF "status" \in cols THEN e.status ELSE r.status)
         /\ Written(r, e, cols).reason = (IF "reason" \in cols THEN e.reason ELSE r.reason)
  BY DEF Written, Ad

\* save()'s select only computes what to write.
LEMMA SaveSelectsTyped ==
  ASSUME AdServiceTypeOK, NEW h \in Handlers, SaveSelects(h)
  PROVE  AdServiceTypeOK'
<1> DEFINE q == task[h]
           cols == Differing(q.entity, q.ad)
           lost == PhotosOf(q.ad) \ q.photos
           back == q.photos \ PhotosOf(q.ad)
           t == [q EXCEPT !.pc = "update", !.cols = cols, !.lost = lost, !.back = back]
<1>1. TaskOK(q) /\ q.pc = "select"
  BY DEF AdServiceTypeOK, SaveSelects
<1>2. CASE Continue(h)
  BY <1>1, <1>2, ContinueTyped
<1>3. CASE task' = [task EXCEPT ![h] = t]
  <2>1. cols \subseteq Columns
    BY DEF Differing
  <2>2. lost \subseteq Photos /\ back \subseteq Photos
    BY <1>1 DEF PhotosOf, TaskOK, Task
  <2> HIDE DEF cols, lost, back
  <2>3. TaskOK(t)
    BY <1>1, <2>1, <2>2 DEF TaskOK, Task
  <2> QED
    BY <1>3, <2>3, OneTask
<1> QED
  BY <1>2, <1>3 DEF SaveSelects

\* Its update writes typed rows.
LEMMA SaveUpdatesTyped ==
  ASSUME AdStoreTypeOK, AdServiceTypeOK, NEW h \in Handlers, SaveUpdates(h),
         Exists(task[h].ad)
  PROVE  AdStoreTypeOK' /\ AdServiceTypeOK'
<1> DEFINE q == task[h]
           r == Written(ads[q.ad], q.entity, q.cols)
<1>1. TaskOK(q) /\ q.pc = "update" /\ q.ad \in Ads /\ q.entity \in Ad /\ q.entity.status # "ABSENT"
  BY DEF AdServiceTypeOK, SaveUpdates, TaskOK, Task
<1>2. ads[q.ad] \in Ad /\ ads[q.ad].status # "ABSENT" /\ ads[q.ad].seller \in Users
  BY <1>1 DEF AdStoreTypeOK, Exists
<1>3. r \in Ad /\ r.seller \in Users
  BY <1>1, <1>2, WrittenTyped
<1> HIDE DEF r
<1>4. ads' = [ads EXCEPT ![q.ad] = r] /\ rejected' \in {rejected, rejected \union {q.ad}}
  BY DEF SaveUpdates, r
<1>5. ads' \in [Ads -> Ad] /\ \A a \in Ads : ads'[a].status # "ABSENT" => ads'[a].seller \in Users
  BY <1>1, <1>3, <1>4 DEF AdStoreTypeOK
<1>6. photo' \in [Photos -> PhotoRow]
  <2> SUFFICES ASSUME NEW p \in Photos
               PROVE  Reattached(q.ad, q.lost, q.back)[p] \in PhotoRow
    BY DEF SaveUpdates, Reattached
  <2>1. photo[p] \in PhotoRow
    BY DEF AdStoreTypeOK
  <2> QED
    BY <1>1, <2>1 DEF Reattached, PhotoRow
<1>7. AdStoreTypeOK'
  BY <1>1, <1>4, <1>5, <1>6 DEF AdStoreTypeOK, SaveUpdates
<1> QED
  BY <1>1, <1>7, ContinueTyped DEF SaveUpdates

\* The other steps of a call.
LEMMA OtherStepsTyped ==
  ASSUME AdStoreTypeOK, AdServiceTypeOK, NEW h \in Handlers,
         (\E a \in Ads : InsertAd(h, a)) \/ NotifyValidated(h) \/ SaveMessage(h) \/ CallFails(h)
  PROVE  AdStoreTypeOK' /\ AdServiceTypeOK'
<1>1. TaskOK(task[h])
  BY DEF AdServiceTypeOK
<1>2. ASSUME NEW a \in Ads, InsertAd(h, a)
      PROVE  AdStoreTypeOK' /\ AdServiceTypeOK'
  <2>1. task[h].entity \in Ad /\ task[h].entity.seller \in Users
    BY <1>1, <1>2 DEF InsertAd, TaskOK, Task
  <2>2. AdStoreTypeOK'
    BY <1>2, <2>1 DEF InsertAd, AdStoreTypeOK
  <2> QED
    BY <1>2, <2>2, DropTyped DEF InsertAd
<1>3. CASE NotifyValidated(h)
  <2>1. AdStoreTypeOK'
    BY <1>1, <1>3 DEF NotifyValidated, AdStoreTypeOK, TaskOK
  <2> QED
    BY <1>3, <2>1, DropTyped DEF NotifyValidated
<1>4. CASE SaveMessage(h)
  <2> DEFINE a == task[h].ad
             m == [sender |-> task[h].user, text |-> task[h].text]
  <2>1. a \in Ads /\ m \in Message
    BY <1>1, <1>4 DEF SaveMessage, TaskOK, Message
  <2>2. WithMessage(a, m) \in SUBSET Message
    BY <2>1 DEF WithMessage, AdStoreTypeOK
  <2>3. thread' \in [Ads -> SUBSET Message]
    BY <1>4, <2>1, <2>2 DEF SaveMessage, AdStoreTypeOK
  <2>4. AdStoreTypeOK'
    BY <1>4, <2>3 DEF SaveMessage, AdStoreTypeOK
  <2> QED
    BY <1>4, <2>4, DropTyped DEF SaveMessage
<1>5. CASE CallFails(h)
  <2>1. AdStoreTypeOK'
    BY <1>5 DEF CallFails, AdStoreTypeOK
  <2> QED
    BY <1>5, <2>1, DropTyped DEF CallFails
<1> QED
  BY <1>2, <1>3, <1>4, <1>5

-----------------------------------------------------------------------------
(* The invariant the type correctness rests on                              *)

\* A call that saves an ad saves one that exists.
LoadedAdsExist == \A h \in Handlers : task[h].pc \in {"select", "update"} => Exists(task[h].ad)

\* An id without a row has no seller.
AbsentAdsAreBlank == \A a \in Ads : ~Exists(a) => ads[a].seller = None

\* A file has a row only once its upload is complete, which bounds the sequence
\* number of every key.
RowsComeFromUploads ==
  \A p \in Photos : photo[p].exists =>
    job[p].pc \notin {"picked", "count", "put", "attach", "insert"}

TypeInv == TypeOK /\ LoadedAdsExist /\ AbsentAdsAreBlank /\ RowsComeFromUploads

\* The first key that is free when every other file has a row is still a key.
LEMMA NextKeyTyped ==
  ASSUME TypeInv, NEW p \in Photos, job[p].pc = "count"
  PROVE  NextKey(job[p].ad) \in Keys
<1> DEFINE a == job[p].ad
           S == PhotosOf(a)
<1>1. a \in Ads
  BY DEF TypeInv, TypeOK, AdPhotosTypeOK, JobOK
<1>2. S \in SUBSET (Photos \ {p})
  BY DEF TypeInv, RowsComeFromUploads, PhotosOf
<1>3. IsFiniteSet(Photos)
  BY AdStoreAssumption
<1>4. /\ IsFiniteSet(Photos \ {p})
      /\ Cardinality(Photos \ {p}) = Cardinality(Photos) - 1
  BY <1>3, FS_RemoveElement
<1>5. Cardinality(S) <= Cardinality(Photos) - 1 /\ IsFiniteSet(S)
  BY <1>2, <1>4, FS_Subset
<1>6. Cardinality(S) \in Nat /\ Cardinality(Photos) \in Nat
  BY <1>3, <1>5, FS_CardinalityType
<1>7. Cardinality(S) + 1 \in 1..Cardinality(Photos)
  BY <1>5, <1>6
<1> QED
  BY <1>1, <1>7 DEF NextKey, Keys

\* Moving a file on keeps its job typed once it has an ad and a key.
LEMMA GotoTyped ==
  ASSUME AdPhotosTypeOK, NEW p \in Photos,
         NEW pc \in {"attach", "insert", "shown", "find", "remove", "cleanup", "done"},
         job[p].pc # "picked", pc = "done" \/ job[p].key \in Keys, Goto(p, pc)
  PROVE  job' \in [Photos -> Job] /\ \A x \in Photos : JobOK(job[x])'
<1>1. JobOK(job[p])
  BY DEF AdPhotosTypeOK
<1> DEFINE j == [job[p] EXCEPT !.pc = pc]
<1>2. JobOK(j) /\ job' = [job EXCEPT ![p] = j]
  BY <1>1 DEF JobOK, Job, Goto
<1> QED
  BY <1>2 DEF AdPhotosTypeOK, JobOK

\* Goto moves one file and leaves the others where they are.
LEMMA GotoMoves ==
  ASSUME AdPhotosTypeOK, NEW p \in Photos, NEW pc, Goto(p, pc)
  PROVE  job'[p].pc = pc /\ \A x \in Photos \ {p} : job'[x] = job[x]
<1> DEFINE j == [job[p] EXCEPT !.pc = pc]
<1>1. job[p] \in Job /\ job \in [Photos -> Job]
  BY DEF AdPhotosTypeOK
<1>2. j.pc = pc
  BY <1>1 DEF Job
<1>3. job' = [job EXCEPT ![p] = j]
  BY DEF Goto
<1> HIDE DEF j
<1> QED
  BY <1>1, <1>2, <1>3

\* The steps of an upload or a deletion that change only how far it is.
LEMMA PhotoGoesOn ==
  ASSUME TypeInv, NEW p \in Photos,
         PhotoCall(p) \/ CountPhotos(p) \/ AddPhoto(p) \/ FindPhoto(p)
  PROVE  AdStoreTypeOK' /\ AdPhotosTypeOK' /\ RowsComeFromUploads' /\ UNCHANGED ads
<1>1. JobOK(job[p]) /\ AdPhotosTypeOK /\ AdStoreTypeOK /\ RowsComeFromUploads
  BY DEF TypeInv, TypeOK, AdPhotosTypeOK
<1>2. UNCHANGED <<adVars, bucket>>
  BY DEF PhotoCall, DeletePhoto, RequestUploadUrl, CountPhotos, AddPhoto, FindPhoto
<1>3. AdStoreTypeOK'
  BY <1>1, <1>2 DEF AdStoreTypeOK, adVars
<1>4. ASSUME NEW a \in Ads, RequestUploadUrl(p, a)
      PROVE  AdPhotosTypeOK' /\ RowsComeFromUploads'
  <2> DEFINE j == [pc |-> "count", ad |-> a, key |-> None]
  <2>1. JobOK(j)
    BY DEF JobOK, Job
  <2>2. job' = [job EXCEPT ![p] = j] /\ job[p].pc = "picked"
    BY <1>4 DEF RequestUploadUrl
  <2>3. AdPhotosTypeOK'
    BY <1>1, <1>2, <2>1, <2>2 DEF AdPhotosTypeOK, JobOK
  <2> QED
    BY <1>1, <1>2, <2>2, <2>3 DEF RowsComeFromUploads, adVars, AdPhotosTypeOK
<1>5. CASE CountPhotos(p)
  <2> DEFINE j == [job[p] EXCEPT !.pc = "put", !.key = NextKey(job[p].ad)]
  <2>1. JobOK(j)
    BY <1>1, <1>5, NextKeyTyped DEF JobOK, Job, CountPhotos
  <2>2. job' = [job EXCEPT ![p] = j] /\ job[p].pc = "count"
    BY <1>5 DEF CountPhotos
  <2> HIDE DEF j
  <2>3. AdPhotosTypeOK'
    BY <1>1, <1>2, <2>1, <2>2 DEF AdPhotosTypeOK, JobOK
  <2> QED
    BY <1>1, <1>2, <1>3, <2>2, <2>3 DEF RowsComeFromUploads, adVars, AdPhotosTypeOK
<1>6. CASE AddPhoto(p)
  <2>1. PICK pc \in {"insert", "done"} : Goto(p, pc)
    BY <1>6 DEF AddPhoto
  <2>2. job[p].pc = "attach" /\ job[p].key \in Keys
    BY <1>1, <1>6 DEF AddPhoto, JobOK
  <2>3. AdPhotosTypeOK'
    BY <1>1, <1>2, <2>1, <2>2, GotoTyped DEF AdPhotosTypeOK, JobOK
  <2> QED
    BY <1>1, <1>2, <1>3, <2>1, <2>2, <2>3, GotoMoves DEF RowsComeFromUploads, adVars
<1>7. CASE FindPhoto(p) \/ DeletePhoto(p)
  <2>1. PICK pc \in {"remove", "done", "find"} : Goto(p, pc)
    BY <1>7 DEF FindPhoto, DeletePhoto
  <2>2. job[p].pc \in {"find", "shown"} /\ job[p].key \in Keys
    BY <1>1, <1>7 DEF FindPhoto, DeletePhoto, JobOK
  <2>3. AdPhotosTypeOK'
    BY <1>1, <1>2, <2>1, <2>2, GotoTyped DEF AdPhotosTypeOK, JobOK
  <2> QED
    BY <1>1, <1>2, <1>3, <2>1, <2>2, <2>3, GotoMoves DEF RowsComeFromUploads, adVars
<1> QED
  BY <1>2, <1>3, <1>4, <1>5, <1>6, <1>7 DEF PhotoCall, adVars

\* The steps that write a row or an object, and the failures.
LEMMA PhotoWrites ==
  ASSUME TypeInv, NEW p \in Photos,
         PutObject(p) \/ InsertPhoto(p) \/ RemovePhoto(p) \/ DeleteObject(p) \/ PhotoFails(p)
  PROVE  AdStoreTypeOK' /\ AdPhotosTypeOK' /\ RowsComeFromUploads' /\ UNCHANGED ads
<1>1. JobOK(job[p]) /\ AdPhotosTypeOK /\ AdStoreTypeOK /\ RowsComeFromUploads
  BY DEF TypeInv, TypeOK, AdPhotosTypeOK
<1>2. CASE PutObject(p)
  <2>1. job[p].key \in Keys /\ job[p].pc = "put" /\ Goto(p, "attach") /\ UNCHANGED adVars
    BY <1>1, <1>2 DEF PutObject, JobOK
  <2>2. bucket' \in [Keys -> Photos \union {None}]
    BY <1>1, <1>2, <2>1 DEF PutObject, AdPhotosTypeOK
  <2>3. AdPhotosTypeOK'
    BY <1>1, <2>1, <2>2, GotoTyped DEF AdPhotosTypeOK, JobOK
  <2> QED
    BY <1>1, <2>1, <2>3, GotoMoves DEF RowsComeFromUploads, adVars, AdStoreTypeOK
<1>3. CASE DeleteObject(p)
  <2>1. job[p].key \in Keys /\ job[p].pc = "cleanup" /\ Goto(p, "done") /\ UNCHANGED adVars
    BY <1>1, <1>3 DEF DeleteObject, JobOK
  <2>2. bucket' \in [Keys -> Photos \union {None}]
    BY <1>1, <1>3, <2>1 DEF DeleteObject, AdPhotosTypeOK
  <2>3. AdPhotosTypeOK'
    BY <1>1, <2>1, <2>2, GotoTyped DEF AdPhotosTypeOK, JobOK
  <2> QED
    BY <1>1, <2>1, <2>3, GotoMoves DEF RowsComeFromUploads, adVars, AdStoreTypeOK
<1>4. CASE InsertPhoto(p)
  <2> DEFINE r == [exists |-> TRUE, ad |-> job[p].ad, key |-> job[p].key]
  <2>1. job[p].key \in Keys /\ job[p].ad \in Ads /\ job[p].pc = "insert" /\ Goto(p, "shown")
    BY <1>1, <1>4 DEF InsertPhoto, JobOK
  <2>2. r \in PhotoRow
    BY <2>1 DEF PhotoRow
  <2>3. photo' = [photo EXCEPT ![p] = r]
    BY <1>4 DEF InsertPhoto
  <2> HIDE DEF r
  <2>4. AdStoreTypeOK' /\ UNCHANGED <<ads, bucket>>
    BY <1>1, <1>4, <2>2, <2>3 DEF InsertPhoto, AdStoreTypeOK
  <2>5. AdPhotosTypeOK'
    BY <1>1, <2>1, <2>4, GotoTyped DEF AdPhotosTypeOK, JobOK
  <2> QED
    BY <1>1, <2>1, <2>3, <2>4, <2>5, GotoMoves DEF RowsComeFromUploads, AdStoreTypeOK
<1>5. CASE RemovePhoto(p)
  <2> DEFINE r == [photo[p] EXCEPT !.exists = FALSE]
  <2>1. job[p].key \in Keys /\ job[p].pc = "remove" /\ Goto(p, "cleanup")
    BY <1>1, <1>5 DEF RemovePhoto, JobOK
  <2>2. r \in PhotoRow /\ photo' = [photo EXCEPT ![p] = r]
    BY <1>1, <1>5 DEF RemovePhoto, AdStoreTypeOK, PhotoRow
  <2>3. AdStoreTypeOK' /\ UNCHANGED <<ads, bucket>>
    <3> HIDE DEF r
    <3> QED
      BY <1>1, <1>5, <2>2 DEF RemovePhoto, AdStoreTypeOK
  <2>4. AdPhotosTypeOK'
    BY <1>1, <2>1, <2>3, GotoTyped DEF AdPhotosTypeOK, JobOK
  <2> QED
    BY <1>1, <2>1, <2>2, <2>3, <2>4, GotoMoves DEF RowsComeFromUploads, AdStoreTypeOK
<1>6. CASE PhotoFails(p)
  <2>1. PICK pc \in {"shown", "done"} : /\ Goto(p, pc)
                                        /\ pc = "done" \/ job[p].pc \in {"find", "remove"}
    BY <1>6 DEF PhotoFails
  <2>2. job[p].pc # "picked" /\ (pc = "done" \/ job[p].key \in Keys)
    BY <1>1, <1>6, <2>1 DEF PhotoFails, JobOK
  <2>3. AdStoreTypeOK' /\ UNCHANGED <<ads, photo, bucket>>
    BY <1>1, <1>6 DEF PhotoFails, AdStoreTypeOK
  <2>4. AdPhotosTypeOK'
    BY <1>1, <2>1, <2>2, <2>3, GotoTyped DEF AdPhotosTypeOK, JobOK
  <2> QED
    BY <1>1, <2>1, <2>3, <2>4, GotoMoves DEF RowsComeFromUploads, AdStoreTypeOK
<1> QED
  BY <1>2, <1>3, <1>4, <1>5, <1>6

\* No step makes a row disappear, gives one to an id without a seller or
\* changes a seller; a call that is saving an ad has just loaded it.
LEMMA CallKeepsRows ==
  ASSUME TypeInv, NEW h \in Handlers, CallArrives(h) \/ CallStep(h) \/ CallFails(h)
  PROVE  /\ \A a \in Ads : Exists(a) => Exists(a)' /\ ads'[a].seller = ads[a].seller
         /\ AbsentAdsAreBlank' /\ LoadedAdsExist'
<1>1. TaskOK(task[h]) /\ AdStoreTypeOK /\ AdServiceTypeOK /\ LoadedAdsExist /\ AbsentAdsAreBlank
  BY DEF TypeInv, TypeOK, AdServiceTypeOK
<1>2. ASSUME UNCHANGED ads, \A x \in Handlers \ {h} : task'[x] = task[x],
             task'[h].pc \in {"select", "update"} => Exists(task'[h].ad)
      PROVE  /\ \A a \in Ads : Exists(a) => Exists(a)' /\ ads'[a].seller = ads[a].seller
             /\ AbsentAdsAreBlank' /\ LoadedAdsExist'
  BY <1>1, <1>2 DEF Exists, AbsentAdsAreBlank, LoadedAdsExist
<1>3. ASSUME NEW t, task' = [task EXCEPT ![h] = t]
      PROVE  task'[h] = t /\ \A x \in Handlers \ {h} : task'[x] = task[x]
  BY <1>1, <1>3 DEF AdServiceTypeOK
<1>4. Drop(h) => task'[h].pc = "idle" /\ \A x \in Handlers \ {h} : task'[x] = task[x]
  BY <1>3, ConstantTypes DEF Drop
<1>5. Continue(h) => /\ task'[h].pc \in {"idle", "notify", "message"}
                     /\ \A x \in Handlers \ {h} : task'[x] = task[x]
  <2> DEFINE q == task[h]
             t == [NoTask EXCEPT !.pc = AfterSave(q.op), !.op = q.op, !.ad = q.ad,
                                 !.user = q.user, !.text = q.text]
  <2>1. t.pc = AfterSave(q.op) /\ AfterSave(q.op) \in {"idle", "notify", "message"}
    BY DEF NoTask, AfterSave
  <2>2. Continue(h) => task' = [task EXCEPT ![h] = NoTask] \/ task' = [task EXCEPT ![h] = t]
    BY DEF Continue
  <2> HIDE DEF t
  <2> QED
    BY <1>3, <2>1, <2>2, ConstantTypes
<1>6. CASE CallArrives(h)
  <2>1. UNCHANGED ads
    BY <1>6, <1>1, CallArrivesTyped DEF adVars
  <2>2. \E t : task' = [task EXCEPT ![h] = t] /\ (t.pc \in {"select", "update"} => Exists(t.ad))
    <3>1. ASSUME NEW u \in Users, NEW core \in Texts, NEW content \in Texts,
                 CreateAd(h, u, core, content)
          PROVE  \E t : task' = [task EXCEPT ![h] = t] /\ t.pc = "insert"
      <4> DEFINE t == [NoTask EXCEPT !.pc = "insert", !.op = "create",
                         !.entity = [status |-> "DRAFT", seller |-> u, core |-> core,
                                     content |-> content, reason |-> None]]
      <4>1. t.pc = "insert"
        BY DEF NoTask
      <4>2. task' = [task EXCEPT ![h] = t]
        BY <3>1 DEF CreateAd
      <4> QED
        BY <4>1, <4>2
    <3>2. ASSUME NEW a \in Ads, NEW op, NEW u, NEW text, NEW e, Loads(h, a, op, u, text, e)
          PROVE  \E t : task' = [task EXCEPT ![h] = t] /\ t.ad = a /\ Exists(a)
      <4> DEFINE t == [NoTask EXCEPT !.pc = "select", !.op = op, !.ad = a, !.user = u,
                         !.text = text, !.entity = e, !.photos = PhotosOf(a)]
      <4>1. t.ad = a
        BY DEF NoTask
      <4>2. task' = [task EXCEPT ![h] = t] /\ Exists(a)
        BY <3>2 DEF Loads
      <4> QED
        BY <4>1, <4>2
    <3>3. ASSUME NEW a \in Ads, NEW u \in Users, NEW text \in Texts, AddMessage(h, a, u, text)
          PROVE  \E t : task' = [task EXCEPT ![h] = t] /\ t.pc = "message"
      <4> DEFINE t == [NoTask EXCEPT !.pc = "message", !.ad = a, !.user = u, !.text = text]
      <4>1. t.pc = "message"
        BY DEF NoTask
      <4>2. task' = [task EXCEPT ![h] = t]
        BY <3>3 DEF AddMessage
      <4> QED
        BY <4>1, <4>2
    <3> QED
      BY <1>6, <3>1, <3>2, <3>3
         DEF CallArrives, UpdateAd, UpdateContent, SubmitAd, ValidateAd, RejectAd
  <2> QED
    BY <1>2, <1>3, <2>1, <2>2
<1>7. ASSUME NEW a \in Ads, InsertAd(h, a)
      PROVE  /\ \A x \in Ads : Exists(x) => Exists(x)' /\ ads'[x].seller = ads[x].seller
             /\ AbsentAdsAreBlank' /\ LoadedAdsExist'
  <2>1. /\ ads' = [ads EXCEPT ![a] = task[h].entity] /\ ~Exists(a)
        /\ task[h].entity.status # "ABSENT" /\ Drop(h)
    BY <1>1, <1>7 DEF InsertAd, TaskOK
  <2>2. \A x \in Ads : IF x = a THEN Exists(x)' ELSE ads'[x] = ads[x]
    BY <1>1, <2>1 DEF AdStoreTypeOK, Exists
  <2>3. AbsentAdsAreBlank'
    BY <1>1, <2>2 DEF AbsentAdsAreBlank, Exists
  <2>4. \A x \in Ads : Exists(x) => Exists(x)' /\ ads'[x].seller = ads[x].seller
    BY <2>1, <2>2 DEF Exists
  <2>5. LoadedAdsExist'
    <3> SUFFICES ASSUME NEW x \in Handlers, task'[x].pc \in {"select", "update"}
                 PROVE  Exists(task[x].ad)'
      BY DEF LoadedAdsExist
    <3>1. x # h /\ task'[x] = task[x] /\ task[x].ad \in Ads
      BY <1>1, <1>4, <2>1 DEF AdServiceTypeOK, TaskOK
    <3> QED
      BY <1>1, <2>4, <3>1 DEF LoadedAdsExist, Exists
  <2> QED
    BY <2>3, <2>4, <2>5
<1>8. CASE SaveSelects(h)
  <2>1. UNCHANGED ads /\ task[h].pc = "select"
    BY <1>8 DEF SaveSelects, adVars
  <2>2. CASE Continue(h)
    BY <1>2, <1>5, <2>1, <2>2
  <2>3. CASE ~Continue(h)
    <3>1. PICK t : task' = [task EXCEPT ![h] = t] /\ t.ad = task[h].ad
      BY <1>1, <1>8, <2>3 DEF SaveSelects, TaskOK, Task
    <3> QED
      BY <1>1, <1>2, <1>3, <2>1, <3>1 DEF LoadedAdsExist
  <2> QED
    BY <2>2, <2>3
<1>9. CASE SaveUpdates(h)
  <2> DEFINE q == task[h]
             r == Written(ads[q.ad], q.entity, q.cols)
  <2>1. /\ q.pc = "update" /\ q.ad \in Ads /\ q.entity \in Ad /\ q.entity.status # "ABSENT"
        /\ ads[q.ad] \in Ad /\ ads[q.ad].status # "ABSENT"
    BY <1>1, <1>9 DEF SaveUpdates, TaskOK, Task, AdStoreTypeOK, LoadedAdsExist, Exists
  <2>2. r.seller = ads[q.ad].seller /\ r.status # "ABSENT"
    BY <2>1, WrittenTyped
  <2>3. ads' = [ads EXCEPT ![q.ad] = r] /\ Continue(h)
    BY <1>9 DEF SaveUpdates
  <2> HIDE DEF r
  <2>4. \A x \in Ads : IF x = q.ad THEN Exists(x)' /\ ads'[x].seller = ads[x].seller
                       ELSE ads'[x] = ads[x]
    BY <1>1, <2>1, <2>2, <2>3 DEF AdStoreTypeOK, Exists
  <2>5. \A x \in Ads : Exists(x) => Exists(x)' /\ ads'[x].seller = ads[x].seller
    BY <2>4 DEF Exists
  <2>6. AbsentAdsAreBlank'
    BY <1>1, <2>4 DEF AbsentAdsAreBlank, Exists
  <2>7. LoadedAdsExist'
    <3> SUFFICES ASSUME NEW x \in Handlers, task'[x].pc \in {"select", "update"}
                 PROVE  Exists(task[x].ad)'
      BY DEF LoadedAdsExist
    <3>1. x # h /\ task'[x] = task[x] /\ task[x].ad \in Ads
      BY <1>1, <1>5, <2>3 DEF AdServiceTypeOK, TaskOK
    <3> QED
      BY <1>1, <2>5, <3>1 DEF LoadedAdsExist, Exists
  <2> QED
    BY <2>5, <2>6, <2>7
<1>10. CASE NotifyValidated(h) \/ SaveMessage(h) \/ CallFails(h)
  <2>1. UNCHANGED ads /\ Drop(h)
    BY <1>10 DEF NotifyValidated, SaveMessage, CallFails
  <2> QED
    BY <1>2, <1>4, <2>1
<1> QED
  BY <1>6, <1>7, <1>8, <1>9, <1>10 DEF CallStep

\* The invariant is inductive.
LEMMA TypeInvStep ==
  ASSUME TypeInv, [Next]_vars
  PROVE  TypeInv'
<1>1. ASSUME NEW h \in Handlers, CallArrives(h) \/ CallStep(h) \/ CallFails(h),
             UNCHANGED photoVars
      PROVE  TypeInv'
  <2>1. AdStoreTypeOK /\ AdServiceTypeOK /\ AdPhotosTypeOK
    BY DEF TypeInv, TypeOK
  <2>2. AbsentAdsAreBlank' /\ LoadedAdsExist'
    BY <1>1, CallKeepsRows
  <2>3. AdPhotosTypeOK'
    BY <1>1, <2>1 DEF AdPhotosTypeOK, JobOK, photoVars
  <2>4. AdStoreTypeOK' /\ AdServiceTypeOK'
    <3>1. CASE CallArrives(h)
      BY <2>1, <3>1, CallArrivesTyped DEF AdStoreTypeOK, adVars
    <3>2. CASE SaveSelects(h)
      BY <2>1, <3>2, SaveSelectsTyped DEF AdStoreTypeOK, adVars, SaveSelects
    <3>3. CASE SaveUpdates(h)
      BY <2>1, <3>3, SaveUpdatesTyped DEF SaveUpdates, TypeInv, LoadedAdsExist
    <3>4. CASE (\E a \in Ads : InsertAd(h, a)) \/ NotifyValidated(h) \/ SaveMessage(h) \/ CallFails(h)
      BY <2>1, <3>4, OtherStepsTyped
    <3> QED
      BY <1>1, <3>1, <3>2, <3>3, <3>4 DEF CallStep
  <2>5. \A p \in Photos : photo'[p].exists => photo[p].exists
    <3>1. CASE SaveUpdates(h)
      <4>1. \A p \in Photos : photo[p] \in PhotoRow
        BY <2>1 DEF AdStoreTypeOK
      <4> QED
        BY <3>1, <4>1 DEF SaveUpdates, Reattached, PhotoRow
    <3>2. CASE ~SaveUpdates(h)
      <4>1. UNCHANGED photo
        BY <1>1, <2>1, <3>2, CallArrivesTyped
           DEF CallStep, InsertAd, SaveSelects, NotifyValidated, SaveMessage, CallFails, adVars
      <4> QED
        BY <4>1
    <3> QED
      BY <3>1, <3>2
  <2>6. RowsComeFromUploads'
    BY <1>1, <2>5 DEF TypeInv, RowsComeFromUploads, photoVars
  <2> QED
    BY <2>2, <2>3, <2>4, <2>6 DEF TypeInv, TypeOK
<1>2. ASSUME NEW p \in Photos, PhotoCall(p) \/ PhotoStep(p) \/ PhotoFails(p), UNCHANGED task
      PROVE  TypeInv'
  <2>1. AdStoreTypeOK' /\ AdPhotosTypeOK' /\ RowsComeFromUploads' /\ UNCHANGED ads
    BY <1>2, PhotoGoesOn, PhotoWrites DEF PhotoStep
  <2> QED
    BY <1>2, <2>1 DEF TypeInv, TypeOK, AdServiceTypeOK, TaskOK, LoadedAdsExist,
                      AbsentAdsAreBlank, Exists
<1>3. CASE UNCHANGED vars
  BY <1>3 DEF vars, adVars, photoVars, TypeInv, TypeOK, AdStoreTypeOK, AdServiceTypeOK,
              AdPhotosTypeOK, TaskOK, JobOK, LoadedAdsExist, AbsentAdsAreBlank, Exists,
              RowsComeFromUploads
<1> QED
  BY <1>1, <1>2, <1>3 DEF Next, CallNext, PhotoNext, Fault

\* The empty tables satisfy it.
LEMMA TypeInvInit ==
  ASSUME Init
  PROVE  TypeInv
<1>1. AdStoreTypeOK /\ AbsentAdsAreBlank
  BY ConstantTypes DEF Init, AdStoreInit, AdStoreTypeOK, AbsentAdsAreBlank, Exists, NoPhoto, PhotoRow
<1>2. AdServiceTypeOK /\ LoadedAdsExist
  BY ConstantTypes DEF Init, AdServiceInit, AdServiceTypeOK, LoadedAdsExist
<1>3. AdPhotosTypeOK /\ RowsComeFromUploads
  BY DEF Init, AdStoreInit, AdPhotosInit, AdPhotosTypeOK, JobOK, Job, RowsComeFromUploads, NoPhoto
<1> QED
  BY <1>1, <1>2, <1>3 DEF TypeInv, TypeOK

\* Type correctness of the ad tables, the calls, the uploads and the bucket.
THEOREM AdTypesCorrect == Spec => []TypeOK
<1>1. Init => TypeInv
  BY TypeInvInit
<1>2. TypeInv /\ [Next]_vars => TypeInv'
  BY TypeInvStep
<1>3. TypeInv => TypeOK
  BY DEF TypeInv
<1> QED
  BY <1>1, <1>2, <1>3, PTL DEF Spec

-----------------------------------------------------------------------------
(* The cap                                                                  *)

\* The calls that have counted u's ads and are yet to insert one more.
Creating(u) == {h \in Handlers : task[h].pc = "insert" /\ task[h].entity.seller = u}

\* At most n calls create ads of the same seller at the same time.
Creators(n) == \A u \in Users : Cardinality(Creating(u)) <= n

\* An ad that is being created counts as one that is there.
Overshoot(u, n) ==
  Cardinality(NeverRejected(u)) + Cardinality(Creating(u)) < MaxActive + n

RejectedIsRecorded == \A a \in Ads : ads[a].status = "REJECTED" => a \in rejected

CapInv(n) == TypeInv /\ RejectedIsRecorded /\ \A u \in Users : Overshoot(u, n)

\* The sets that are counted are finite.
LEMMA CountsAreNumbers ==
  ASSUME NEW u
  PROVE  /\ IsFiniteSet(NeverRejected(u)) /\ Cardinality(NeverRejected(u)) \in Nat
         /\ IsFiniteSet(Creating(u)) /\ Cardinality(Creating(u)) \in Nat
         /\ IsFiniteSet(NeverRejected(u)') /\ Cardinality(NeverRejected(u)') \in Nat
         /\ IsFiniteSet(Creating(u)') /\ Cardinality(Creating(u)') \in Nat
         /\ Cardinality(Creating(u)') <= Cardinality(Handlers)
         /\ Cardinality(Handlers) \in Nat /\ MaxActive \in Nat \ {0}
<1>1. NeverRejected(u) \in SUBSET Ads /\ NeverRejected(u)' \in SUBSET Ads
  BY DEF NeverRejected
<1>2. Creating(u) \in SUBSET Handlers /\ Creating(u)' \in SUBSET Handlers
  BY DEF Creating
<1>3. IsFiniteSet(Ads) /\ IsFiniteSet(Handlers) /\ MaxActive \in Nat \ {0}
  BY AdStoreAssumption, AdServiceAssumption
<1> QED
  BY <1>1, <1>2, <1>3, FS_Subset, FS_CardinalityType

\* A step that neither adds an ad nor starts creating one keeps the bound.
LEMMA NoMoreAds ==
  ASSUME NEW n \in Nat, NEW u, Overshoot(u, n), NeverRejected(u)' \subseteq NeverRejected(u),
         Creating(u)' \subseteq Creating(u)
  PROVE  Overshoot(u, n)'
<1>1. Cardinality(NeverRejected(u)') <= Cardinality(NeverRejected(u))
  BY CountsAreNumbers, FS_Subset
<1>2. Cardinality(Creating(u)') <= Cardinality(Creating(u))
  BY CountsAreNumbers, FS_Subset
<1> QED
  BY <1>1, <1>2, CountsAreNumbers DEF Overshoot

\* Ads that were never rejected are counted as active.
LEMMA NeverRejectedAreActive ==
  ASSUME NEW n \in Nat, CapInv(n), NEW u \in Users
  PROVE  Cardinality(NeverRejected(u)) <= Cardinality(ActiveAds(u))
<1>1. NeverRejected(u) \subseteq ActiveAds(u)
  <2> SUFFICES ASSUME NEW a \in Ads, ads[a].seller = u, a \notin rejected
               PROVE  ads[a].status \in ActiveStatuses
    BY DEF NeverRejected, ActiveAds
  <2>1. ads[a].status # "ABSENT"
    BY AdStoreAssumption DEF CapInv, TypeInv, AbsentAdsAreBlank, Exists
  <2>2. ads[a].status \in AdStatuses
    BY DEF CapInv, TypeInv, TypeOK, AdStoreTypeOK, Ad
  <2> QED
    BY <2>1, <2>2 DEF CapInv, RejectedIsRecorded, AdStatuses, ActiveStatuses
<1>2. IsFiniteSet(ActiveAds(u))
  <2>1. ActiveAds(u) \in SUBSET Ads
    BY DEF ActiveAds
  <2> QED
    BY <2>1, AdStoreAssumption, FS_Subset
<1> QED
  BY <1>1, <1>2, FS_Subset

\* createAd, having found room below the cap, is one of at most n calls that have.
LEMMA CreateAdWithinBound ==
  ASSUME NEW n \in Nat, CapInv(n), NEW h \in Handlers, NEW v \in Users, NEW core \in Texts,
         NEW content \in Texts, CreateAd(h, v, core, content), Creators(n)'
  PROVE  \A u \in Users : Overshoot(u, n)'
<1> DEFINE e == [status |-> "DRAFT", seller |-> v, core |-> core,
                 content |-> content, reason |-> None]
           t == [NoTask EXCEPT !.pc = "insert", !.op = "create", !.entity = e]
<1>1. UNCHANGED adVars /\ task' = [task EXCEPT ![h] = t] /\ task[h].pc = "idle"
  BY DEF CreateAd
<1>2. t.entity.seller = v
  BY DEF NoTask
<1> HIDE DEF t
<1>3. SUFFICES ASSUME NEW u \in Users
               PROVE  Overshoot(u, n)'
  OBVIOUS
<1>4. NeverRejected(u)' = NeverRejected(u)
  BY <1>1 DEF adVars, NeverRejected
<1>5. CASE u = v
  <2>1. Cardinality(ActiveAds(u)) < MaxActive
    BY <1>5 DEF CreateAd, BelowCap
  <2>2. Cardinality(ActiveAds(u)) \in Nat
    <3>1. ActiveAds(u) \in SUBSET Ads
      BY DEF ActiveAds
    <3> QED
      BY <3>1, AdStoreAssumption, FS_Subset, FS_CardinalityType
  <2> QED
    BY <1>4, <2>1, <2>2, NeverRejectedAreActive, CountsAreNumbers DEF Overshoot, Creators
<1>6. CASE u # v
  <2>1. Creating(u)' \subseteq Creating(u)
    BY <1>1, <1>2, <1>6 DEF Creating, CapInv, TypeInv, TypeOK, AdServiceTypeOK
  <2> QED
    BY <1>4, <2>1, NoMoreAds DEF CapInv
<1> QED
  BY <1>5, <1>6

\* Inserting an ad trades a call that was creating one for the ad.
LEMMA InsertAdWithinBound ==
  ASSUME NEW n \in Nat, CapInv(n), NEW h \in Handlers, NEW a \in Ads, InsertAd(h, a)
  PROVE  RejectedIsRecorded' /\ \A u \in Users : Overshoot(u, n)'
<1> DEFINE e == task[h].entity
<1>1. e.status = "DRAFT" /\ task[h].pc = "insert"
  BY DEF InsertAd, CapInv, TypeInv, TypeOK, AdServiceTypeOK, TaskOK
<1>2. ads' = [ads EXCEPT ![a] = e] /\ rejected' = rejected /\ ~Exists(a)
      /\ task' = [task EXCEPT ![h] = NoTask]
  BY DEF InsertAd, Drop
<1>3. /\ ads'[a] = e /\ \A x \in Ads \ {a} : ads'[x] = ads[x]
      /\ task'[h].pc = "idle" /\ \A x \in Handlers \ {h} : task'[x] = task[x]
  BY <1>2, ConstantTypes DEF CapInv, TypeInv, TypeOK, AdStoreTypeOK, AdServiceTypeOK
<1> HIDE DEF e
<1>4. RejectedIsRecorded'
  BY <1>1, <1>2, <1>3 DEF CapInv, RejectedIsRecorded
<1>5. ASSUME NEW u \in Users
      PROVE  Overshoot(u, n)'
  <2>1. ads[a].seller = None /\ a \notin NeverRejected(u)
    BY <1>2, AdStoreAssumption DEF CapInv, TypeInv, AbsentAdsAreBlank, NeverRejected
  <2>2. CASE e.seller = u
    <3>1. NeverRejected(u)' \subseteq NeverRejected(u) \union {a}
      BY <1>2, <1>3 DEF NeverRejected
    <3>2. /\ IsFiniteSet(NeverRejected(u) \union {a})
          /\ Cardinality(NeverRejected(u) \union {a}) = Cardinality(NeverRejected(u)) + 1
      BY <2>1, CountsAreNumbers, FS_AddElement
    <3>3. Cardinality(NeverRejected(u)') <= Cardinality(NeverRejected(u)) + 1
      BY <3>1, <3>2, FS_Subset
    <3>4. h \in Creating(u) /\ Creating(u)' = Creating(u) \ {h}
      BY <1>1, <1>3, <2>2 DEF Creating, e
    <3>5. Cardinality(Creating(u)') = Cardinality(Creating(u)) - 1
      BY <3>4, CountsAreNumbers, FS_RemoveElement
    <3> QED
      BY <3>3, <3>5, CountsAreNumbers DEF Overshoot, CapInv
  <2>3. CASE e.seller # u
    <3>1. NeverRejected(u)' \subseteq NeverRejected(u)
      BY <1>2, <1>3, <2>3 DEF NeverRejected
    <3>2. Creating(u)' \subseteq Creating(u)
      BY <1>3 DEF Creating
    <3> QED
      BY <3>1, <3>2, NoMoreAds DEF CapInv
  <2> QED
    BY <2>2, <2>3
<1> QED
  BY <1>4, <1>5

\* Every other step of a call leaves both counts as they are or lowers them.
LEMMA OtherCallWithinBound ==
  ASSUME NEW n \in Nat, CapInv(n), NEW h \in Handlers, CallArrives(h) \/ CallStep(h) \/ CallFails(h),
         ~(\E u \in Users, core, content \in Texts : CreateAd(h, u, core, content)),
         ~(\E a \in Ads : InsertAd(h, a))
  PROVE  RejectedIsRecorded' /\ \A u \in Users : Overshoot(u, n)'
<1>1. /\ TypeInv /\ AdStoreTypeOK /\ AdServiceTypeOK
      /\ ads \in [Ads -> Ad] /\ task \in [Handlers -> Task] /\ TaskOK(task[h])
  BY DEF CapInv, TypeInv, TypeOK, AdStoreTypeOK, AdServiceTypeOK
<1>2. ASSUME NEW t, task' = [task EXCEPT ![h] = t], t.pc # "insert", NEW u
      PROVE  Creating(u)' \subseteq Creating(u)
  BY <1>1, <1>2 DEF Creating
<1>3. ASSUME UNCHANGED <<ads, rejected>>, \A u \in Users : Creating(u)' \subseteq Creating(u)
      PROVE  RejectedIsRecorded' /\ \A u \in Users : Overshoot(u, n)'
  <2>1. ASSUME NEW u \in Users
        PROVE  NeverRejected(u)' \subseteq NeverRejected(u)
    BY <1>3 DEF NeverRejected
  <2>2. RejectedIsRecorded'
    BY <1>3 DEF CapInv, RejectedIsRecorded
  <2> QED
    BY <1>3, <2>1, <2>2, NoMoreAds DEF CapInv
<1>4. Drop(h) => \A u \in Users : Creating(u)' \subseteq Creating(u)
  BY <1>2, ConstantTypes DEF Drop
<1>5. Continue(h) => \A u \in Users : Creating(u)' \subseteq Creating(u)
  <2> DEFINE q == task[h]
             t == [NoTask EXCEPT !.pc = AfterSave(q.op), !.op = q.op, !.ad = q.ad,
                                 !.user = q.user, !.text = q.text]
  <2>1. t.pc # "insert"
    BY DEF NoTask, AfterSave
  <2>2. Continue(h) => task' = [task EXCEPT ![h] = NoTask] \/ task' = [task EXCEPT ![h] = t]
    BY DEF Continue
  <2> HIDE DEF t
  <2> QED
    BY <1>2, <2>1, <2>2, ConstantTypes
<1>6. ASSUME NEW a \in Ads, NEW op, NEW u, NEW text, NEW e, Loads(h, a, op, u, text, e)
      PROVE  RejectedIsRecorded' /\ \A v \in Users : Overshoot(v, n)'
  <2> DEFINE t == [NoTask EXCEPT !.pc = "select", !.op = op, !.ad = a, !.user = u,
                                 !.text = text, !.entity = e, !.photos = PhotosOf(a)]
  <2>1. t.pc # "insert"
    BY DEF NoTask
  <2>2. task' = [task EXCEPT ![h] = t] /\ UNCHANGED <<ads, rejected>>
    BY <1>6 DEF Loads, adVars
  <2> HIDE DEF t
  <2> QED
    BY <1>2, <1>3, <2>1, <2>2
<1>7. ASSUME NEW a \in Ads, NEW u \in Users, NEW text \in Texts, AddMessage(h, a, u, text)
      PROVE  RejectedIsRecorded' /\ \A v \in Users : Overshoot(v, n)'
  <2> DEFINE t == [NoTask EXCEPT !.pc = "message", !.ad = a, !.user = u, !.text = text]
  <2>1. t.pc # "insert"
    BY DEF NoTask
  <2>2. task' = [task EXCEPT ![h] = t] /\ UNCHANGED <<ads, rejected>>
    BY <1>7 DEF AddMessage, adVars
  <2> HIDE DEF t
  <2> QED
    BY <1>2, <1>3, <2>1, <2>2
<1>8. CASE CallArrives(h)
  BY <1>6, <1>7, <1>8 DEF CallArrives, UpdateAd, UpdateContent, SubmitAd, ValidateAd, RejectAd
<1>9. CASE SaveSelects(h)
  <2>1. UNCHANGED <<ads, rejected>> /\ task[h].pc = "select"
    BY <1>9 DEF SaveSelects, adVars
  <2>2. CASE Continue(h)
    BY <1>3, <1>5, <2>1, <2>2
  <2>3. CASE ~Continue(h)
    <3> DEFINE q == task[h]
               t == [q EXCEPT !.pc = "update", !.cols = Differing(q.entity, q.ad),
                              !.lost = PhotosOf(q.ad) \ q.photos,
                              !.back = q.photos \ PhotosOf(q.ad)]
    <3>1. t.pc = "update"
      BY <1>1 DEF Task
    <3>2. task' = [task EXCEPT ![h] = t]
      BY <1>9, <2>3 DEF SaveSelects
    <3> HIDE DEF t
    <3> QED
      BY <1>2, <1>3, <2>1, <3>1, <3>2
  <2> QED
    BY <2>2, <2>3
<1>10. CASE SaveUpdates(h)
  <2> DEFINE q == task[h]
             r == Written(ads[q.ad], q.entity, q.cols)
  <2>1. /\ q.pc = "update" /\ q.ad \in Ads /\ q.entity \in Ad /\ q.entity.status # "ABSENT"
        /\ ads[q.ad] \in Ad /\ ads[q.ad].status # "ABSENT"
    BY <1>1, <1>10 DEF SaveUpdates, TaskOK, Task, TypeInv, LoadedAdsExist, Exists
  <2>2. r.seller = ads[q.ad].seller
    BY <2>1, WrittenTyped
  <2>3. /\ ads' = [ads EXCEPT ![q.ad] = r] /\ Continue(h)
        /\ rejected' = IF r.status = "REJECTED" THEN rejected \union {q.ad} ELSE rejected
    BY <1>10 DEF SaveUpdates
  <2> HIDE DEF r
  <2>4. /\ ads'[q.ad] = r /\ \A x \in Ads \ {q.ad} : ads'[x] = ads[x]
        /\ \A x \in Ads : ads'[x].seller = ads[x].seller
    BY <1>1, <2>1, <2>2, <2>3
  <2>5. RejectedIsRecorded'
    BY <2>3, <2>4 DEF CapInv, RejectedIsRecorded
  <2>6. ASSUME NEW u \in Users
        PROVE  NeverRejected(u)' \subseteq NeverRejected(u)
    BY <2>3, <2>4 DEF NeverRejected
  <2> QED
    BY <1>5, <2>3, <2>5, <2>6, NoMoreAds DEF CapInv
<1>11. CASE NotifyValidated(h) \/ SaveMessage(h) \/ CallFails(h)
  <2>1. UNCHANGED <<ads, rejected>> /\ Drop(h)
    BY <1>11 DEF NotifyValidated, SaveMessage, CallFails
  <2> QED
    BY <1>3, <1>4, <2>1
<1> QED
  BY <1>8, <1>9, <1>10, <1>11 DEF CallStep

\* The invariant is inductive.
LEMMA CapInvStep ==
  ASSUME NEW n \in Nat, CapInv(n), [Next]_vars, Creators(n)'
  PROVE  CapInv(n)'
<1>1. TypeInv'
  BY TypeInvStep DEF CapInv
<1>2. ASSUME NEW h \in Handlers, CallArrives(h) \/ CallStep(h) \/ CallFails(h)
      PROVE  RejectedIsRecorded' /\ \A u \in Users : Overshoot(u, n)'
  <2>1. ASSUME NEW u \in Users, NEW core \in Texts, NEW content \in Texts,
               CreateAd(h, u, core, content)
        PROVE  RejectedIsRecorded' /\ \A v \in Users : Overshoot(v, n)'
    BY <2>1, CreateAdWithinBound DEF CreateAd, adVars, CapInv, RejectedIsRecorded
  <2> QED
    BY <1>2, <2>1, InsertAdWithinBound, OtherCallWithinBound
<1>3. ASSUME UNCHANGED <<ads, rejected, task>>
      PROVE  RejectedIsRecorded' /\ \A u \in Users : Overshoot(u, n)'
  BY <1>3, NoMoreAds DEF CapInv, RejectedIsRecorded, NeverRejected, Creating
<1>4. ASSUME NEW p \in Photos, PhotoCall(p) \/ PhotoStep(p) \/ PhotoFails(p), UNCHANGED task
      PROVE  UNCHANGED <<ads, rejected, task>>
  BY <1>4 DEF PhotoCall, DeletePhoto, RequestUploadUrl, PhotoStep, CountPhotos, PutObject,
              AddPhoto, InsertPhoto, FindPhoto, RemovePhoto, DeleteObject, PhotoFails, adVars
<1>5. CASE UNCHANGED vars
  BY <1>1, <1>3, <1>5 DEF vars, adVars, CapInv
<1>6. CASE Next
  BY <1>1, <1>2, <1>3, <1>4, <1>6 DEF Next, CallNext, PhotoNext, Fault, CapInv
<1> QED
  BY <1>5, <1>6

\* Nobody has an ad yet.
LEMMA CapInvInit ==
  ASSUME NEW n \in Nat, Init
  PROVE  CapInv(n)
<1>1. RejectedIsRecorded
  BY ConstantTypes DEF Init, AdStoreInit, RejectedIsRecorded
<1>2. ASSUME NEW u \in Users
      PROVE  Overshoot(u, n)
  <2>1. NeverRejected(u) = {}
    BY ConstantTypes, AdStoreAssumption DEF Init, AdStoreInit, NeverRejected
  <2>2. Creating(u) = {}
    BY ConstantTypes DEF Init, AdServiceInit, Creating
  <2> QED
    BY <2>1, <2>2, FS_EmptySet, CountsAreNumbers DEF Overshoot
<1> QED
  BY <1>1, <1>2, TypeInvInit DEF CapInv

\* Where a seller never has more than n ads on the way at the same time, the
\* cap is overshot by less than n: not at all by one who creates one after the
\* other, whatever all the other calls do meanwhile.
THEOREM CapHolds ==
  ASSUME NEW n \in Nat
  PROVE  Spec /\ []Creators(n) =>
           [](\A u \in Users : Cardinality(NeverRejected(u)) < MaxActive + n)
<1>1. Init => CapInv(n)
  BY CapInvInit
<1>2. CapInv(n) /\ [Next]_vars /\ Creators(n)' => CapInv(n)'
  BY CapInvStep
<1>3. CapInv(n) => \A u \in Users : Cardinality(NeverRejected(u)) < MaxActive + n
  BY CountsAreNumbers DEF CapInv, Overshoot
<1> QED
  BY <1>1, <1>2, <1>3, PTL DEF Spec

\* However many calls interleave, and whatever they overwrite, the ads of a
\* seller that were never rejected exceed MAX_ACTIVE_ADS_PER_SELLER by less
\* than the number of calls handled at the same time.
THEOREM CapOvershootBounded == Spec => []CapOvershootIsBounded
<1> DEFINE most == Cardinality(Handlers)
<1>1. most \in Nat
  BY AdServiceAssumption, FS_CardinalityType
<1>2. Init => CapInv(most)
  BY <1>1, CapInvInit
<1>3. CapInv(most) /\ [Next]_vars => CapInv(most)'
  <2>1. Creators(most)'
    BY CountsAreNumbers DEF Creators
  <2> QED
    BY <1>1, <2>1, CapInvStep
<1>4. CapInv(most) => CapOvershootIsBounded
  BY CountsAreNumbers DEF CapInv, Overshoot, CapOvershootIsBounded
<1> QED
  BY <1>2, <1>3, <1>4, PTL DEF Spec

=============================================================================
