------------------------------ MODULE AdStore ------------------------------
(***************************************************************************)
(* The tables behind AdService: `ads`, `ad_photos` and `ad_messages`, what *)
(* an Ad entity allows in each status, and what TypeORM's save() of a      *)
(* loaded Ad writes.                                                       *)
(***************************************************************************)
EXTENDS Integers, FiniteSets

CONSTANTS
  Ads,         \* ids of the ads table
  Users,       \* accounts of euro-auth
  Admins,      \* the users with role ADMIN
  Texts,       \* what a field or a message may say
  Photos,      \* photo files; a file's row in ad_photos goes by the same name
  None         \* undefined: no rejection reason, no ad

ASSUME AdStoreAssumption ==
  /\ Admins \subseteq Users
  /\ None \notin Ads \union Users \union Texts \union Photos
  /\ IsFiniteSet(Ads) /\ IsFiniteSet(Photos)

VARIABLES
  ads,         \* ads: the row of each id, ABSENT until it is inserted
  photo,       \* ad_photos: the row of each file
  thread,      \* ad_messages: what has been said on each ad, and by whom
  told,        \* the ads whose seller NotificationService told of a validation
  rejected,    \* history: the ads that have been in REJECTED
  faults       \* failed queries and uploads so far

adVars == <<ads, photo, thread, told, rejected, faults>>

-----------------------------------------------------------------------------
AdStatuses == {"ABSENT", "DRAFT", "REVIEW", "VALIDATED", "REJECTED"}

\* The columns a handler may assign: status, the fundamentals (title, condition,
\* location and vehicle), the content (description, highlights, known flaws,
\* modifications, service history) and rejection_message.
Columns == {"status", "core", "content", "reason"}

Ad == [status : AdStatuses, seller : Users \union {None}, core : Texts \union {None},
       content : Texts \union {None}, reason : Texts \union {None}]

AbsentAd == [status |-> "ABSENT", seller |-> None, core |-> None, content |-> None,
             reason |-> None]

\* The object key of a photo: the ad's folder and a sequence number.  The
\* files are of one type, so that their keys have the same extension.
Keys == Ads \X (1..Cardinality(Photos))

PhotoRow == [exists : BOOLEAN, ad : Ads \union {None}, key : Keys \union {None}]

NoPhoto == [exists |-> FALSE, ad |-> None, key |-> None]

Message == [sender : Users, text : Texts]

AdStoreTypeOK ==
  /\ ads \in [Ads -> Ad]
  /\ \A a \in Ads : ads[a].status # "ABSENT" => ads[a].seller \in Users
  /\ photo \in [Photos -> PhotoRow]
  /\ thread \in [Ads -> SUBSET Message]
  /\ told \subseteq Ads
  /\ rejected \subseteq Ads
  /\ faults \in Nat

AdStoreInit ==
  /\ ads = [a \in Ads |-> AbsentAd]
  /\ photo = [p \in Photos |-> NoPhoto]
  /\ thread = [a \in Ads |-> {}]
  /\ told = {}
  /\ rejected = {}
  /\ faults = 0

-----------------------------------------------------------------------------
(* The entity                                                               *)

Exists(a) == ads[a].status # "ABSENT"

CanEdit(a) == ads[a].status \in {"DRAFT", "REJECTED"}

CanEditContent(a) == ads[a].status = "VALIDATED"

\* countActiveForSeller with DRAFT left out of the list.
ActiveOnceSubmitted == {"REVIEW", "VALIDATED"}

ActiveStatuses == {"DRAFT", "REVIEW", "VALIDATED"}

ActiveAds(u) == {a \in Ads : ads[a].seller = u /\ ads[a].status \in ActiveStatuses}

PhotosOf(a) == {p \in Photos : photo[p].exists /\ photo[p].ad = a}

-----------------------------------------------------------------------------
(* save(ad) of an entity e that was loaded together with its photos         *)

\* The columns in which the entity differs from the row save() selects.
Differing(e, a) == {c \in Columns : e[c] # ads[a][c]}

\* The row after an UPDATE of these columns, whatever it has become meanwhile.
Written(r, e, cols) ==
  [status  |-> IF "status" \in cols THEN e.status ELSE r.status,
   seller  |-> r.seller,
   core    |-> IF "core" \in cols THEN e.core ELSE r.core,
   content |-> IF "content" \in cols THEN e.content ELSE r.content,
   reason  |-> IF "reason" \in cols THEN e.reason ELSE r.reason]

\* Photos of the ad the loaded array does not hold lose their foreign key, and
\* those it holds get it (back), if their row still exists.
Reattached(a, lost, back) ==
  [p \in Photos |->
     IF p \in lost THEN [photo[p] EXCEPT !.ad = None]
     ELSE IF p \in back /\ photo[p].exists THEN [photo[p] EXCEPT !.ad = a]
     ELSE photo[p]]
=============================================================================
