----------------------------- MODULE BackOffice -----------------------------
(***************************************************************************)
(* The back office page of euro-platform-front (AdminBackofficeComponent), *)
(* next to the seller's profile page and to other admins, on top of the    *)
(* atomic lifecycle that AdModeration is shown to implement.  The page     *)
(* loads its lists once and then patches them from the answers to its own  *)
(* calls.                                                                  *)
(***************************************************************************)
EXTENDS AdLifecycle, Integers, SequencesExt

CONSTANTS
  MaxCalls,    \* a bound: calls of the page in a behaviour
  MaxOthers,   \* a bound: steps of the seller and the other admins
  Contested    \* a bound: the ads they act on

ASSUME BackOfficeAssumption ==
  /\ MaxCalls \in Nat /\ MaxOthers \in Nat /\ Contested \subseteq Ads /\ IsFiniteSet(Ads)
  /\ Unset \notin Ads \union {"ok"} /\ Unset \notin Seq({"reply"})

VARIABLES
  said,        \* ad_messages: the admin's replies on each ad; what others say is left out
  pendingAds,  \* the ads shown as pending, as they were loaded, or Unset
  validatedAds,\* the ads shown as validated, in order
  rejectDraft, \* the ad whose reject form is open, and the ad its text was typed for
  expanded,    \* expandedAdId
  threads,     \* messagesByAdId
  calls,       \* the calls under way
  made, acted, \* the calls made, the steps others took
  mine,        \* the ads validated from the page (history)
  raced,       \* the ads two calls of the page raced on, or an answer was lost (history)
  decided,     \* the ads decided on but by a validation from the page,
  corrected,   \* the ads another admin edited, since the pending ads were read (history)
  relisted     \* the ads that went back to review between the two lists (history)

adServerVars == <<lifecycleVars, said>>
listVars == <<pendingAds, validatedAds>>
formVars == <<rejectDraft, expanded, threads>>
othersHistory == <<decided, corrected, relisted>>
officeHistory == <<acted, mine, raced, othersHistory>>
backOfficeVars == <<adServerVars, listVars, formVars, calls, made, officeHistory>>

Call(kind, a, arg) == [kind |-> kind, ad |-> a, arg |-> arg, answer |-> Unset]

NoDraft == [ad |-> Unset, reason |-> Unset]

BackOfficeStarts(statuses) ==
  /\ status = statuses
  /\ core \in [Ads -> {CHOOSE t \in Texts : TRUE}] /\ content = core
  /\ said = [a \in Ads |-> <<>>]
  /\ pendingAds = [a \in Ads |-> Unset] /\ validatedAds = <<>>
  /\ rejectDraft = NoDraft /\ expanded = Unset /\ threads = [a \in Ads |-> Unset]
  /\ calls = {Call("pending", Unset, Unset), Call("list", Unset, Unset)}
  /\ made = 0 /\ acted = 0
  /\ mine = {} /\ raced = {} /\ decided = {} /\ corrected = {} /\ relisted = {}

\* The constructor has asked for the lists; the ads are where they happen to be.
BackOfficeInit ==
  \E statuses \in [Ads -> {"DRAFT", "REVIEW", "VALIDATED", "REJECTED"}] : BackOfficeStarts(statuses)

-----------------------------------------------------------------------------
(* The seller, on the profile page, and the other admins                    *)

\* A bug: the seller may also edit while the ad is under review.
EditableUnderReview == {"DRAFT", "REJECTED", "REVIEW"}

EditableBySeller == {"DRAFT", "REJECTED"}

SellerEdits(a) == status[a] \in EditableBySeller /\ Edit(a) /\ core' = core    \* a bound

SubmitForReview(a) == Submit(a)

\* updateAd, for an admin: also under review.
AdminEdits(a) == Edit(a) /\ core' = core    \* a bound

\* GET /ads/pending was not answered by the server yet.
PendingUnread == \E c \in calls : c.kind = "pending" /\ c.answer = Unset

Listed(a) ==
  \/ a \in ToSet(validatedAds)
  \/ \E c \in calls : c.kind = "list" /\ c.answer # Unset /\ a \in c.answer

\* What is done to an ad before the pending ads are read, they show.
Since(set, a) == IF PendingUnread THEN set ELSE set \union {a}

OthersAct ==
  /\ acted < MaxOthers /\ acted' = acted + 1
  /\ \E a \in Contested :
       \/ (SellerEdits(a) \/ SubmitForReview(a)) /\ UNCHANGED othersHistory
       \/ AdminEdits(a) /\ corrected' = Since(corrected, a) /\ UNCHANGED <<decided, relisted>>
       \/ (Validate(a) \/ Reject(a)) /\ decided' = Since(decided, a) /\ UNCHANGED <<corrected, relisted>>
       \/ /\ Revise(a)    \* updateContent
          /\ relisted' = IF PendingUnread /\ Listed(a) THEN relisted \union {a} ELSE relisted
          /\ UNCHANGED <<decided, corrected>>
  /\ UNCHANGED <<said, listVars, formVars, calls, made, mine, raced>>

-----------------------------------------------------------------------------
(* The page                                                                 *)

UnderWay(kind, a) == \E c \in calls : c.kind = kind /\ c.ad = a

Sends(kind, a, arg) ==
  /\ made < MaxCalls /\ made' = made + 1
  /\ ~UnderWay(kind, a)    \* a bound: no call twice at once
  /\ calls' = calls \union {Call(kind, a, arg)}

Shown(a) == pendingAds[a] # Unset

ClickValidate(a) ==
  /\ Shown(a) /\ Sends("validate", a, pendingAds[a])
  /\ raced' = IF UnderWay("list", Unset) THEN raced \union {a} ELSE raced
  /\ UNCHANGED <<adServerVars, listVars, formVars, acted, mine, othersHistory>>

DraftOpenedFor(a) == [ad |-> a, reason |-> Unset]

OpenReject(a) ==
  /\ Shown(a) /\ rejectDraft' = DraftOpenedFor(a) /\ rejectDraft' # rejectDraft
  /\ UNCHANGED <<adServerVars, listVars, expanded, threads, calls, made, officeHistory>>

CancelReject ==
  /\ rejectDraft.ad # Unset /\ rejectDraft' = [rejectDraft EXCEPT !.ad = Unset]
  /\ UNCHANGED <<adServerVars, listVars, expanded, threads, calls, made, officeHistory>>

TypeReason ==
  /\ rejectDraft.ad # Unset /\ rejectDraft.reason # rejectDraft.ad
  /\ rejectDraft' = [rejectDraft EXCEPT !.reason = rejectDraft.ad]
  /\ UNCHANGED <<adServerVars, listVars, expanded, threads, calls, made, officeHistory>>

ConfirmReject ==
  /\ rejectDraft.ad # Unset /\ rejectDraft.reason # Unset
  /\ Sends("reject", rejectDraft.ad, rejectDraft.reason)
  /\ UNCHANGED <<adServerVars, listVars, formVars, officeHistory>>

\* toggleMessages: the thread is asked for when it was never received.
ToggleMessages(a) ==
  /\ Shown(a)
  /\ IF expanded = a
       THEN expanded' = Unset /\ UNCHANGED <<calls, made, raced>>
       ELSE /\ expanded' = a
            /\ IF threads[a] = Unset
                 THEN Sends("messages", a, Unset) /\
                      raced' = IF UnderWay("reply", a) THEN raced \union {a} ELSE raced
                 ELSE UNCHANGED <<calls, made, raced>>
  /\ UNCHANGED <<adServerVars, listVars, rejectDraft, threads, acted, mine, othersHistory>>

SendReply ==
  /\ expanded # Unset /\ Sends("reply", expanded, Unset)
  /\ raced' = IF UnderWay("messages", expanded) THEN raced \union {expanded} ELSE raced
  /\ UNCHANGED <<adServerVars, listVars, formVars, acted, mine, othersHistory>>

-----------------------------------------------------------------------------
(* The server                                                               *)

Answers(c, ans) == calls' = (calls \ {c}) \union {[c EXCEPT !.answer = ans]}

InStatus(s) == {a \in Ads : status[a] = s}

\* GET /ads/pending, /ads and /ads/:id/messages.
ReadServed(c) ==
  /\ \/ c.kind = "pending" /\
        Answers(c, [a \in Ads |-> IF status[a] = "REVIEW" THEN content[a] ELSE Unset])
     \/ c.kind = "list" /\ Answers(c, InStatus("VALIDATED"))
     \/ c.kind = "messages" /\ Answers(c, said[c.ad])
  /\ UNCHANGED <<adServerVars, mine, decided>>

DecisionServed(c) ==
  /\ \/ /\ c.kind = "validate" /\ Validate(c.ad) /\ Answers(c, "ok")
        /\ mine' = mine \union {c.ad} /\ UNCHANGED decided
     \/ /\ c.kind = "reject" /\ Reject(c.ad) /\ Answers(c, "ok")
        /\ decided' = decided \union {c.ad} /\ UNCHANGED mine
     \/ /\ c.kind \in {"validate", "reject"} /\ status[c.ad] # "REVIEW"
        /\ Answers(c, "refused") /\ UNCHANGED <<lifecycleVars, mine, decided>>
  /\ UNCHANGED said

ReplyServed(c) ==
  /\ c.kind = "reply"
  /\ said' = [said EXCEPT ![c.ad] = Append(@, "reply")]
  /\ Answers(c, "ok")
  /\ UNCHANGED <<lifecycleVars, mine, decided>>

Serve(c) ==
  /\ c.answer = Unset
  /\ ReadServed(c) \/ DecisionServed(c) \/ ReplyServed(c)
  /\ UNCHANGED <<listVars, formVars, made, acted, raced, corrected, relisted>>

-----------------------------------------------------------------------------
(* The answers                                                              *)

RemoveFromPending(a) == pendingAds' = [pendingAds EXCEPT ![a] = Unset]

\* A bug: the validated list is left to the next visit.
ValidatedLater(a) == validatedAds

WithValidated(a) == Append(validatedAds, a)

WithReply(thread) == Append(IF thread = Unset THEN <<>> ELSE thread, "reply")

ListAnswered(c) ==
  /\ \/ c.kind = "pending" /\ pendingAds' = c.answer /\ UNCHANGED validatedAds
     \/ c.kind = "list" /\ validatedAds' = SetToSeq(c.answer) /\ UNCHANGED pendingAds
  /\ UNCHANGED formVars

DecisionAnswered(c) ==
  /\ c.kind \in {"validate", "reject"} /\ UNCHANGED <<expanded, threads>>
  /\ IF c.answer = "ok"
       THEN /\ RemoveFromPending(c.ad)
            /\ validatedAds' = IF c.kind = "validate" THEN WithValidated(c.ad) ELSE validatedAds
            /\ rejectDraft' = IF c.kind = "reject" THEN [rejectDraft EXCEPT !.ad = Unset] ELSE rejectDraft
       ELSE UNCHANGED <<pendingAds, validatedAds, rejectDraft>>

ThreadAnswered(c) ==
  /\ \/ c.kind = "messages" /\ threads' = [threads EXCEPT ![c.ad] = c.answer]
     \/ c.kind = "reply" /\ threads' = [threads EXCEPT ![c.ad] = WithReply(@)]
  /\ UNCHANGED <<listVars, rejectDraft, expanded>>

CallAnswered(c) ==
  /\ c.answer # Unset
  /\ calls' = calls \ {c}
  /\ ListAnswered(c) \/ DecisionAnswered(c) \/ ThreadAnswered(c)
  /\ UNCHANGED <<adServerVars, made, officeHistory>>

\* Nothing catches it but the finally blocks, and the call may have been served.
CallFails(c) ==
  /\ calls' = calls \ {c}
  /\ raced' = IF c.kind \in {"validate", "reply"} THEN raced \union {c.ad} ELSE raced
  /\ UNCHANGED <<adServerVars, listVars, formVars, made, acted, mine, othersHistory>>

BackOfficeNext ==
  \/ OthersAct
  \/ \E a \in Ads : ClickValidate(a) \/ OpenReject(a) \/ ToggleMessages(a)
  \/ CancelReject \/ TypeReason \/ ConfirmReject \/ SendReply
  \/ \E c \in calls : Serve(c) \/ CallAnswered(c) \/ CallFails(c)

-----------------------------------------------------------------------------
(* What the page promises                                                   *)

\* An ad the admin validated here is among the validated ads once, unless it was
\* also decided on elsewhere, the list was still on its way, or the answer was
\* lost; or its seller sent it back to review between the reading of the two
\* lists, so that both have it, and it is then shown twice (the constructor's
\* list() and getPending(), validate).
ValidatedOnce ==
  \A a \in mine \ (raced \union decided \union relisted) :
    ~UnderWay("validate", a) => Cardinality({i \in DOMAIN validatedAds : validatedAds[i] = a}) = 1

\* What is validated is the content the page shows, unless since it was read
\* the ad was decided on elsewhere, or rejected here with the answer still to
\* come, and its seller may have submitted another one; or another admin
\* corrected it under review, which nothing tells this page: then what is
\* validated was not seen (validate, Ad.canEdit, AdService.updateAd).
ValidatedAsSeen ==
  [][\A c \in calls :
       c.kind = "validate" /\ c.ad \in mine' \ (mine \union decided \union corrected) =>
         content[c.ad] = c.arg]_backOfficeVars

\* A thread on the page has each reply of the admin once, unless a reply was
\* sent while the thread was on its way, or its answer was lost (sendReply,
\* toggleMessages).
RepliesShowOnce ==
  \A a \in Ads \ raced : threads[a] # Unset /\ ~UnderWay("reply", a) => threads[a] = said[a]

\* What the admin did on this page shows on it once: ValidatedOnce and
\* RepliesShowOnce (the lists are loaded once and patched afterwards).
OwnStepsShowOnce == ValidatedOnce /\ RepliesShowOnce
=============================================================================
