------------------------------ MODULE AdPhotos ------------------------------
(***************************************************************************)
(* A photo's way onto an ad and off it: the browser asks for an upload     *)
(* URL, PUTs the file into the bucket under the object key it was given,   *)
(* and registers it with addPhoto; deletePhoto removes the row and then    *)
(* the object.  The key's sequence number is the number of rows the ad has *)
(* when the URL is requested, plus one.                                    *)
(***************************************************************************)
EXTENDS AdStore

CONSTANT Deletable    \* the photos their seller may delete again, once each

ASSUME AdPhotosAssumption == Deletable \subseteq Photos

VARIABLES
  job,          \* how far each file is on its way
  bucket        \* the file stored under each key

photoVars == <<job, bucket>>

Job == [pc : {"picked", "count", "put", "attach", "insert", "shown", "find", "remove",
              "cleanup", "done"},
        ad : Ads \union {None}, key : Keys \union {None}]

JobOK(j) ==
  /\ j \in Job
  /\ j.pc # "picked" => j.ad \in Ads
  /\ j.pc \notin {"picked", "count", "done"} => j.key \in Keys

AdPhotosTypeOK ==
  /\ job \in [Photos -> Job] /\ \A p \in Photos : JobOK(job[p])
  /\ bucket \in [Keys -> Photos \union {None}]

AdPhotosInit ==
  /\ job = [p \in Photos |-> [pc |-> "picked", ad |-> None, key |-> None]]
  /\ bucket = [k \in Keys |-> None]

\* The guard requestPhotoUploadUrl, addPhoto and deletePhoto share.
PhotosEditable(a) == CanEdit(a) \/ CanEditContent(a)

Goto(p, pc) == job' = [job EXCEPT ![p].pc = pc]

-----------------------------------------------------------------------------
(* requestPhotoUploadUrl, the PUT, addPhoto                                 *)

RequestUploadUrl(p, a) ==
  /\ job[p].pc = "picked"
  /\ PhotosEditable(a)
  /\ job' = [job EXCEPT ![p] = [pc |-> "count", ad |-> a, key |-> None]]
  /\ UNCHANGED <<adVars, bucket>>

\* The key without the count of the photos already there.
SameKey(a) == <<a, 1>>

NextKey(a) == <<a, Cardinality(PhotosOf(a)) + 1>>

CountPhotos(p) ==
  /\ job[p].pc = "count"
  /\ job' = [job EXCEPT ![p].pc = "put", ![p].key = NextKey(job[p].ad)]
  /\ UNCHANGED <<adVars, bucket>>

PutObject(p) ==
  /\ job[p].pc = "put"
  /\ bucket' = [bucket EXCEPT ![job[p].key] = p]
  /\ Goto(p, "attach")
  /\ UNCHANGED adVars

\* addPhoto looks at the status again, and refuses if it has changed.
AddPhoto(p) ==
  /\ job[p].pc = "attach"
  /\ Goto(p, IF PhotosEditable(job[p].ad) THEN "insert" ELSE "done")
  /\ UNCHANGED <<adVars, bucket>>

InsertPhoto(p) ==
  /\ job[p].pc = "insert"
  /\ photo' = [photo EXCEPT ![p] = [exists |-> TRUE, ad |-> job[p].ad, key |-> job[p].key]]
  /\ Goto(p, "shown")
  /\ UNCHANGED <<ads, thread, told, rejected, faults, bucket>>

-----------------------------------------------------------------------------
(* deletePhoto                                                              *)

DeletePhoto(p) ==
  /\ job[p].pc = "shown"
  /\ p \in Deletable
  /\ PhotosEditable(job[p].ad)
  /\ Goto(p, "find")
  /\ UNCHANGED <<adVars, bucket>>

\* findByIdForAd: a photo that lost its ad is not found.
FindPhoto(p) ==
  /\ job[p].pc = "find"
  /\ Goto(p, IF photo[p].ad = job[p].ad THEN "remove" ELSE "done")
  /\ UNCHANGED <<adVars, bucket>>

RemovePhoto(p) ==
  /\ job[p].pc = "remove"
  /\ photo' = [photo EXCEPT ![p].exists = FALSE]
  /\ Goto(p, "cleanup")
  /\ UNCHANGED <<ads, thread, told, rejected, faults, bucket>>

\* ignoreNotFound: deleting an object that is not there succeeds.
DeleteObject(p) ==
  /\ job[p].pc = "cleanup"
  /\ bucket' = [bucket EXCEPT ![job[p].key] = None]
  /\ Goto(p, "done")
  /\ UNCHANGED adVars

\* The upload breaks off, or a query of deletePhoto rejects; a failed cleanup
\* is swallowed and leaves the object.
PhotoFails(p) ==
  /\ job[p].pc \notin {"picked", "shown", "done"}
  /\ faults' = faults + 1
  /\ Goto(p, IF job[p].pc \in {"find", "remove"} THEN "shown" ELSE "done")
  /\ UNCHANGED <<ads, photo, thread, told, rejected, bucket>>

-----------------------------------------------------------------------------
PhotoCall(p) == DeletePhoto(p) \/ \E a \in Ads : RequestUploadUrl(p, a)

PhotoStep(p) ==
  \/ CountPhotos(p) \/ PutObject(p) \/ AddPhoto(p) \/ InsertPhoto(p)
  \/ FindPhoto(p) \/ RemovePhoto(p) \/ DeleteObject(p)
=============================================================================
