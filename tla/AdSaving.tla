------------------------------ MODULE AdSaving ------------------------------
(***************************************************************************)
(* Saving on the create-ad page (CreateAdComponent): each save button runs *)
(* its own chain of calls, the photos are uploaded one after the other     *)
(* from lists that stay open to the seller meanwhile, and whoever ends     *)
(* first leaves the page while the others go on.                           *)
(***************************************************************************)
EXTENDS Integers, SequencesExt

CONSTANTS
  MaxPicks,     \* a bound: files picked
  MaxSaves,     \* a bound: clicks on a save button
  MaxSaveFaults \* a bound: calls that fail or whose answer is lost

ASSUME SavingAssumption == MaxSaves \in Nat /\ MaxSaveFaults \in Nat /\ MaxPicks \in Nat

VARIABLES
  ads,      \* the seller's ads: status, photos
  editing,  \* editingAdId, 0 on a page for a new ad
  opened,   \* the status of the ad when it was loaded
  rows,     \* the files of photoRows; the mark a failed one gets is left out
  picked,   \* how many files were picked: a file is the number of its pick
  cover,    \* primaryPhotoIndex, from 1
  save,     \* what each button is doing
  left,     \* the page was left
  clicks, saveFaults,
  disturbed \* photos were changed during a save, or two saves overlapped (history)

savingVars == <<ads, editing, opened, rows, picked, cover, save, left, clicks, saveFaults, disturbed>>

Buttons == {"draft", "submit", "content", "admin", "validate", "reject"}

\* History: the photos the ad was to have when the button was clicked, and how
\* many of them it had then.
NoSave == [pc |-> "idle", ad |-> 0, i |-> 1, file |-> 0, chosen |-> <<>>, had |-> 0, failed |-> FALSE]

Photo(f, primary, order) == [file |-> f, primary |-> primary, order |-> order]

\* An earlier visit left a photo, file 0: its cover, or another one when the
\* cover was deleted since.
Earlier(marked) == <<Photo(0, marked, IF marked THEN 0 ELSE 1)>>

SavingStarts(status, marked) ==
  /\ opened = status
  /\ editing = IF opened = "none" THEN 0 ELSE 1
  /\ ads = IF opened = "none" THEN <<>> ELSE <<[status |-> opened, photos |-> Earlier(marked)]>>
  /\ rows = <<>> /\ picked = 0 /\ cover = 1
  /\ save = [b \in Buttons |-> NoSave]
  /\ left = FALSE /\ clicks = 0 /\ saveFaults = 0 /\ disturbed = FALSE

\* The page is hidden until the ad is loaded; a rejected one opens as a draft does.
SavingInit ==
  \E status \in {"none", "DRAFT", "REVIEW", "VALIDATED"}, marked \in BOOLEAN : SavingStarts(status, marked)

Saving == \E b \in Buttons : save[b].pc \notin {"idle", "done"}

-----------------------------------------------------------------------------
(* The seller                                                               *)

EditsPhotos ==
  /\ clicks < MaxSaves    \* a bound: not after the last save was begun
  /\ ~left /\ disturbed' = (disturbed \/ Saving)
  /\ UNCHANGED <<editing, opened, save, left, clicks, saveFaults>>

\* deletePhoto on the server; what is shown of the photo follows the answer.
RemoveExistingPhoto ==
  /\ EditsPhotos /\ editing # 0 /\ opened \in {"DRAFT", "VALIDATED"}
  /\ ads[editing].status # "REVIEW"
  /\ \E i \in DOMAIN ads[editing].photos :
       /\ ads[editing].photos[i].file = 0
       /\ ads' = [ads EXCEPT ![editing].photos = RemoveAt(@, i)]
  /\ UNCHANGED <<rows, picked, cover>>

OnFilesSelected ==
  /\ EditsPhotos /\ UNCHANGED <<ads, cover>>
  /\ picked < MaxPicks /\ picked' = picked + 1
  /\ rows' = Append(rows, picked')

RemovePhotoRow(i) ==
  /\ EditsPhotos /\ rows' = RemoveAt(rows, i) /\ UNCHANGED <<ads, picked>>
  /\ cover' = IF i < cover THEN cover - 1 ELSE IF i = cover THEN 1 ELSE cover

SetCoverPhoto(i) == EditsPhotos /\ cover' = i /\ cover' # cover /\ UNCHANGED <<ads, rows, picked>>

\* A bug: the cover is counted from one more.
ChosenOffByOne(i) == i = cover + 1

IsCover(i) == i = cover

\* A bug: the place of a photo is not sent, and is that of the column.
NoSortOrder(i) == 0

\* The place sent with a photo, counted from the first row of this visit.
SortOrder(i) == i - 1

Shown == IF editing = 0 THEN <<>> ELSE ads[editing].photos

Chosen == Shown \o [i \in DOMAIN rows |-> Photo(rows[i], i = cover, i - 1)]

Offered(b) ==
  CASE b = "content" -> opened = "VALIDATED"
    [] b \in {"admin", "validate", "reject"} -> opened = "REVIEW"
    [] OTHER -> opened \in {"none", "DRAFT"}

\* saveContentChanges() uploads first, persistAndMaybeSubmit() saves first, and
\* validateFromReview() and rejectFromReview() only decide.
FirstCall(b) ==
  CASE b = "content" -> "photos" [] b \in {"validate", "reject"} -> "decide" [] OTHER -> "persist"

Click(b) ==
  /\ ~left /\ Offered(b) /\ save[b].pc \in {"idle", "done"}
  /\ clicks < MaxSaves /\ clicks' = clicks + 1
  /\ save' = [save EXCEPT ![b] = [NoSave EXCEPT !.pc = FirstCall(b), !.ad = editing,
                                        !.chosen = Chosen, !.had = Len(Shown)]]
  /\ disturbed' = (disturbed \/ clicks > 0)
  /\ UNCHANGED <<ads, editing, opened, rows, picked, cover, left, saveFaults>>

-----------------------------------------------------------------------------
(* One save                                                                 *)

Becomes(b, s) == save' = [save EXCEPT ![b] = s]

\* AdService.updateAd and createAd: an ad under review is the admin's to edit.
MayPersist(b) == IF editing = 0 THEN TRUE ELSE ads[editing].status = IF b = "admin" THEN "REVIEW" ELSE "DRAFT"

Persists(b) ==
  /\ save[b].pc = "persist" /\ MayPersist(b)
  /\ ads' = IF editing = 0 THEN Append(ads, [status |-> "DRAFT", photos |-> <<>>]) ELSE ads
  /\ Becomes(b, [save[b] EXCEPT !.pc = "photos", !.ad = IF editing = 0 THEN Len(ads) + 1 ELSE editing])
  /\ UNCHANGED <<editing, opened, rows, picked, cover, left, clicks, saveFaults, disturbed>>

\* uploadPendingPhotos: the loop reads the rows as they are now.
TakesFile(b) ==
  /\ save[b].pc = "photos" /\ save[b].i <= Len(rows)
  /\ Becomes(b, [save[b] EXCEPT !.pc = "upload", !.file = rows[save[b].i]])
  /\ UNCHANGED <<ads, editing, opened, rows, picked, cover, left, clicks, saveFaults, disturbed>>

\* Only the owner may add photos, and not while the ad is under review.
MayUpload(b) == b # "admin" /\ ads[save[b].ad].status # "REVIEW"

Registers(b) ==
  LET s == save[b] photo == Photo(s.file, IsCover(s.i), SortOrder(s.i)) IN
  /\ s.pc = "upload" /\ MayUpload(b)
  /\ ads' = [ads EXCEPT ![s.ad].photos = Append(@, photo)]
  /\ Becomes(b, [s EXCEPT !.pc = "photos", !.i = @ + 1])
  /\ UNCHANGED <<editing, opened, rows, picked, cover, left, clicks, saveFaults, disturbed>>

\* A photo that fails is only marked, and the loop goes on.
SkippedPhoto(s) == [s EXCEPT !.pc = "photos", !.i = @ + 1, !.failed = TRUE]

\* It was refused, it failed, or it was registered and the answer was lost.
UploadFails(b) ==
  LET s == save[b] photo == Photo(s.file, IsCover(s.i), SortOrder(s.i)) IN
  /\ s.pc = "upload"
  /\ \/ ~MayUpload(b) /\ UNCHANGED <<ads, saveFaults>> /\ Becomes(b, SkippedPhoto(s))
     \/ /\ saveFaults < MaxSaveFaults /\ saveFaults' = saveFaults + 1
        /\ \/ UNCHANGED ads /\ Becomes(b, SkippedPhoto(s))
           \/ /\ MayUpload(b) /\ ads' = [ads EXCEPT ![s.ad].photos = Append(@, photo)]
              /\ Becomes(b, SkippedPhoto(s))
  /\ UNCHANGED <<editing, opened, rows, picked, cover, left, clicks, disturbed>>

\* The status an ad must have for the last call of a save, and what it becomes.
MayReview(b) ==
  /\ b = "submit" => ads[save[b].ad].status = "DRAFT"
  /\ b = "content" => ads[save[b].ad].status = "VALIDATED"
  /\ b \in {"validate", "reject"} => ads[save[b].ad].status = "REVIEW"

Reviewed(b, status) ==
  CASE b \in {"submit", "content"} -> "REVIEW"
    [] b = "validate" -> "VALIDATED"
    [] b = "reject" -> "REJECTED"
    [] OTHER -> status

\* submit() and updateContent() send the ad to review, validate() and reject()
\* decide on it.
ToReview(b) == MayReview(b) /\ ads' = [ads EXCEPT ![save[b].ad].status = Reviewed(b, @)]

AtLastCall(b) == save[b].pc = "decide" \/ (save[b].pc = "photos" /\ save[b].i > Len(rows))

\* The save succeeds, and the page is left.
Ends(b) ==
  /\ AtLastCall(b) /\ ToReview(b)
  /\ Becomes(b, [save[b] EXCEPT !.pc = "done"]) /\ left' = TRUE
  /\ UNCHANGED <<editing, opened, rows, picked, cover, clicks, saveFaults, disturbed>>

\* The save ends with an error and the page stays: the id of an ad it created
\* is not kept.  The ad may have been created or sent to review all the same.
SaveFails(b) ==
  /\ \/ /\ save[b].pc = "persist"
        /\ \/ ~MayPersist(b) /\ UNCHANGED <<ads, saveFaults>>
           \/ /\ saveFaults < MaxSaveFaults /\ saveFaults' = saveFaults + 1
              /\ \/ UNCHANGED ads
                 \/ editing = 0 /\ ads' = Append(ads, [status |-> "DRAFT", photos |-> <<>>])
     \/ /\ AtLastCall(b) /\ b \notin {"draft", "admin"}
        /\ \/ ~MayReview(b) /\ UNCHANGED <<ads, saveFaults>>
           \/ /\ saveFaults < MaxSaveFaults /\ saveFaults' = saveFaults + 1
              /\ UNCHANGED ads \/ ToReview(b)
  /\ Becomes(b, NoSave)
  /\ UNCHANGED <<editing, opened, rows, picked, cover, left, clicks, disturbed>>

SavingNext ==
  \/ OnFilesSelected \/ RemoveExistingPhoto
  \/ \E i \in DOMAIN rows : RemovePhotoRow(i) \/ SetCoverPhoto(i)
  \/ \E b \in Buttons :
       \/ Click(b) \/ Persists(b) \/ TakesFile(b) \/ Registers(b) \/ UploadFails(b)
       \/ Ends(b) \/ SaveFails(b)

-----------------------------------------------------------------------------

(* What the pages show of an ad                                             *)

\* toAuctionDetailData: first a photo marked as the cover, any if none is, then
\* the others by their place.  The API returns them in no order, so those with
\* the same place, and two covers, come as they may.
Shows(photos, g) ==
  /\ \A i, j \in DOMAIN g : g[i] = g[j] => i = j
  /\ \A k \in DOMAIN photos : photos[k].primary => photos[g[1]].primary
  /\ \A i, j \in DOMAIN g \ {1} : i < j => photos[g[i]].order <= photos[g[j]].order

Galleries(photos) == {g \in [DOMAIN photos -> DOMAIN photos] : Shows(photos, g)}

\* When the first save of a visit takes its user away, the ad has the photos it
\* had and those chosen when it was clicked, the cover marked.  Every page then
\* shows the new ones in the order of their rows, after the first photo, which
\* is the chosen cover if no earlier photo is marked as one.  (Between the
\* earlier ones, as their places start from 0 as well.)  But for an admin, whose
\* photos are refused, when a photo failed, when photos were changed meanwhile,
\* or when it was not the only save (uploadPendingPhotos, and addPhoto, which
\* leaves the other covers alone).
PhotosAsChosen ==
  \A b \in {"draft", "submit", "content"} : save[b].pc = "done" /\ ~save[b].failed /\ ~disturbed =>
    LET s == save[b]
        photos == ads[s.ad].photos
        New == DOMAIN s.chosen \ 1 .. s.had
    IN /\ DOMAIN photos = DOMAIN s.chosen
       /\ \A k \in DOMAIN photos :
            photos[k].file = s.chosen[k].file /\ photos[k].primary = s.chosen[k].primary
       /\ \A g \in Galleries(photos) :
            /\ \A i, j \in DOMAIN g \ {1} : g[i] \in New /\ g[j] \in New /\ g[i] < g[j] => i < j
            /\ New # {} /\ (\A k \in 1 .. s.had : ~s.chosen[k].primary) => s.chosen[g[1]].primary
=============================================================================
