-------------------------- MODULE OperationsProofs --------------------------
(***************************************************************************)
(* Proofs about the parts of Operations, for any ads, calls, scripts,      *)
(* entries, sellers, cars, finitions and engines.                          *)
(*                                                                         *)
(* Back office: an ad nobody decided on since it was read is still under   *)
(* review, and one validated here is in the list or in an answer to come.  *)
(* Catalog: rows                                                           *)
(* are only added, a clean script has filled what it walked past, and a    *)
(* lookup goes astray only next to a pair of spellings. Migrations: each,  *)
(* up or down, leaves what a car shows as it was, unless it writes down    *)
(* that it could not.                                                      *)
(***************************************************************************)
EXTENDS Operations, FiniteSetTheorems, SequenceTheorems, TLAPS

-----------------------------------------------------------------------------
(* The back office                                                          *)

DraftSet == [ad : Ads \union {Unset}, reason : Ads \union {Unset}]

CallShaped(c) ==
  /\ c = [kind |-> c.kind, ad |-> c.ad, arg |-> c.arg, answer |-> c.answer]
  /\ \/ c.kind \in {"pending", "list"} /\ c.ad = Unset
     \/ c.kind \in {"validate", "reject", "messages", "reply"} /\ c.ad \in Ads

OfficeRows ==
  /\ status \in [Ads -> {"DRAFT", "REVIEW", "REJECTED", "VALIDATED"}] /\ DOMAIN content = Ads
  /\ said \in [Ads -> Seq({"reply"})] /\ DOMAIN threads = Ads
  /\ DOMAIN pendingAds = Ads /\ validatedAds \in Seq(Ads)
  /\ rejectDraft \in DraftSet /\ expanded \in Ads \union {Unset}
  /\ mine \subseteq Ads /\ decided \subseteq Ads

\* At most one call of a kind is under way for an ad.
OfficeCalls ==
  /\ \A c \in calls : CallShaped(c)
  /\ \A c, d \in calls : c.kind = d.kind /\ c.ad = d.ad => c = d
  /\ \A c \in calls : c.kind = "pending" /\ c.answer # Unset => DOMAIN c.answer = Ads
  /\ \A c \in calls : c.kind = "list" /\ c.answer # Unset => c.answer \subseteq Ads

Places(a) == {i \in DOMAIN validatedAds : validatedAds[i] = a}

\* The page shows the ad as pending, or will, or has asked to validate it.
Claimed(a) ==
  \/ pendingAds[a] # Unset
  \/ \E c \in calls : c.kind = "validate" /\ c.ad = a
  \/ \E c \in calls : c.kind = "pending" /\ c.answer # Unset /\ c.answer[a] # Unset

AsRead(a) ==
  /\ pendingAds[a] \in {Unset, content[a]}
  /\ \A c \in calls :
       /\ c.kind = "validate" /\ c.ad = a => c.arg = content[a]
       /\ c.kind = "pending" /\ c.answer # Unset => c.answer[a] \in {Unset, content[a]}

NotYetValidated(a) == \A c \in calls : c.kind = "validate" /\ c.ad = a => c.answer # "ok"

\* An ad that nobody decided on since it was read is still under review, shown
\* as it is and not among the validated ads.
Untouched(a) ==
  /\ Claimed(a) => status[a] = "REVIEW"
  /\ a \notin corrected => AsRead(a)
  /\ Listed(a) /\ a \notin relisted => ~Claimed(a) /\ (PendingUnread => status[a] = "VALIDATED")
  /\ NotYetValidated(a)

UntouchedInv == \A a \in Ads \ (mine \union decided) : Untouched(a)

\* Until the pending ads are there, nothing is done on the page.
FirstInv ==
  UnderWay("pending", Unset) =>
    mine = {} /\ (\A a \in Ads : pendingAds[a] = Unset) /\ \A c \in calls : c.kind # "validate"

\* What is validated while the list is on its way may be shown twice.
ListInv ==
  UnderWay("list", Unset) =>
    mine \subseteq raced /\ \A c \in calls : c.kind = "validate" => c.ad \in raced

ToBeShown(a) == \E c \in calls : c.kind = "validate" /\ c.ad = a /\ c.answer = "ok"

\* An ad validated here is in the list, or will be with the answer, and is not
\* validated again.
Once(a) ==
  /\ \A c \in calls : c.kind = "validate" /\ c.ad = a => c.answer = "ok"
  /\ pendingAds[a] = Unset \/ ToBeShown(a)
  /\ IF ToBeShown(a) THEN Places(a) = {} ELSE \E i \in DOMAIN validatedAds : Places(a) = {i}

OnceInv == \A a \in mine \ (decided \union raced \union relisted) : Once(a)

Known(a) == IF threads[a] = Unset THEN <<>> ELSE threads[a]

\* What the admin said on an ad is what the page knows, but for a reply whose
\* answer is still to come.
ThreadInv ==
  \A a \in Ads \ raced :
    /\ ~(UnderWay("messages", a) /\ UnderWay("reply", a))
    /\ said[a] = IF \E c \in calls : c.kind = "reply" /\ c.ad = a /\ c.answer # Unset
                 THEN Append(Known(a), "reply") ELSE Known(a)
    /\ \A c \in calls : c.kind = "messages" /\ c.ad = a /\ c.answer # Unset => c.answer = said[a]

OfficeInv == OfficeRows /\ OfficeCalls /\ FirstInv /\ UntouchedInv /\ ListInv /\ OnceInv /\ ThreadInv

-----------------------------------------------------------------------------
(* The steps of the back office                                             *)

OtherKinds == {"validate", "reject", "messages", "reply"}

\* A call that is sent joins those under way.
Joins(n) == calls' = calls \union {n} /\ CallShaped(n) /\ n.answer = Unset /\ ~UnderWay(n.kind, n.ad)

\* A call that is sent joins the calls under way, unanswered.
LEMMA SendsJoins ==
  ASSUME NEW kind \in OtherKinds, NEW a \in Ads, NEW arg, Sends(kind, a, arg)
  PROVE  \E n : Joins(n) /\ n.kind = kind /\ n.ad = a /\ n.arg = arg
<1> DEFINE n == Call(kind, a, arg)
<1>1. n.kind = kind /\ n.ad = a /\ n.arg = arg /\ n.answer = Unset /\ CallShaped(n)
  BY DEF Call, CallShaped, OtherKinds
<1>2. calls' = calls \union {n} /\ ~UnderWay(kind, a)
  BY DEF Sends
<1> HIDE DEF n
<1> QED
  BY <1>1, <1>2 DEF Joins

\* The calls under way stay distinct when one joins them that is not among them.
LEMMA JoinsCalls ==
  ASSUME OfficeCalls, NEW n, Joins(n)
  PROVE  OfficeCalls'
<1>1. \A c \in calls : ~(c.kind = n.kind /\ c.ad = n.ad)
  BY DEF Joins, UnderWay
<1>2. \A c \in calls' : c \in calls \/ c = n
  BY DEF Joins
<1>3. \A c \in calls' : CallShaped(c)'
  BY <1>2 DEF Joins, OfficeCalls, CallShaped
<1>4. \A c, d \in calls' : c.kind = d.kind /\ c.ad = d.ad => c = d
  BY <1>1, <1>2 DEF OfficeCalls
<1>5. \A c \in calls' : c.answer # Unset => c \in calls
  BY <1>2 DEF Joins
<1> QED
  BY <1>3, <1>4, <1>5 DEF OfficeCalls

\* The call c is answered, and becomes d.
Becomes(c, d) ==
  /\ calls' = (calls \ {c}) \union {d} /\ CallShaped(d)
  /\ d.kind = c.kind /\ d.ad = c.ad /\ d.arg = c.arg

\* Serving a call replaces it by the same call with its answer.
LEMMA AnswersBecomes ==
  ASSUME OfficeCalls, NEW c \in calls, NEW ans, Answers(c, ans)
  PROVE  \E d : Becomes(c, d) /\ d.answer = ans
<1> DEFINE d == [c EXCEPT !.answer = ans]
<1>1. c = [kind |-> c.kind, ad |-> c.ad, arg |-> c.arg, answer |-> c.answer] /\ CallShaped(c)
  BY DEF OfficeCalls, CallShaped
<1>2. d = [kind |-> c.kind, ad |-> c.ad, arg |-> c.arg, answer |-> ans]
  BY <1>1
<1>3. d.kind = c.kind /\ d.ad = c.ad /\ d.arg = c.arg /\ d.answer = ans
  BY <1>2
<1>4. CallShaped(d)
  BY <1>1, <1>2, <1>3 DEF CallShaped
<1> QED
  BY <1>3, <1>4 DEF Answers, Becomes

\* What serving a call answers, and changes.
ReadBecomes(c, d) ==
  /\ \/ c.kind = "pending" /\ d.answer = [a \in Ads |-> IF status[a] = "REVIEW" THEN content[a] ELSE Unset]
     \/ c.kind = "list" /\ d.answer = InStatus("VALIDATED")
     \/ c.kind = "messages" /\ d.answer = said[c.ad]
  /\ UNCHANGED <<adServerVars, mine, decided>>

DecisionBecomes(c, d) ==
  /\ \/ /\ c.kind = "validate" /\ Validate(c.ad) /\ d.answer = "ok"
        /\ mine' = mine \union {c.ad} /\ UNCHANGED decided
     \/ /\ c.kind = "reject" /\ Reject(c.ad) /\ d.answer = "ok"
        /\ decided' = decided \union {c.ad} /\ UNCHANGED mine
     \/ /\ c.kind \in {"validate", "reject"} /\ status[c.ad] # "REVIEW"
        /\ d.answer = "refused" /\ UNCHANGED <<lifecycleVars, mine, decided>>
  /\ UNCHANGED said

ReplyBecomes(c, d) ==
  /\ c.kind = "reply" /\ d.answer = "ok"
  /\ said' = [said EXCEPT ![c.ad] = Append(@, "reply")]
  /\ UNCHANGED <<lifecycleVars, mine, decided>>

\* What the platform does with a call: read, decide on an ad, or store a reply.
LEMMA ServeSteps ==
  ASSUME OfficeCalls, NEW c \in calls, Serve(c)
  PROVE  \E d : /\ Becomes(c, d) /\ (ReadBecomes(c, d) \/ DecisionBecomes(c, d) \/ ReplyBecomes(c, d))
              /\ c.answer = Unset /\ UNCHANGED <<listVars, formVars, raced, corrected, relisted>>
<1>1. c.answer = Unset /\ UNCHANGED <<listVars, formVars, raced, corrected, relisted>>
  BY DEF Serve
<1>2. CASE ReadServed(c)
  <2>1. PICK ans :
          /\ Answers(c, ans)
          /\ \/ c.kind = "pending" /\ ans = [a \in Ads |-> IF status[a] = "REVIEW" THEN content[a] ELSE Unset]
             \/ c.kind = "list" /\ ans = InStatus("VALIDATED")
             \/ c.kind = "messages" /\ ans = said[c.ad]
    BY <1>2 DEF ReadServed
  <2>2. PICK d : Becomes(c, d) /\ d.answer = ans
    BY <2>1, AnswersBecomes
  <2>3. ReadBecomes(c, d)
    BY <1>2, <2>1, <2>2 DEF ReadServed, ReadBecomes
  <2> QED
    BY <1>1, <2>2, <2>3
<1>3. CASE DecisionServed(c)
  <2>1. CASE c.kind = "validate" /\ Validate(c.ad) /\ Answers(c, "ok") /\ mine' = mine \union {c.ad}
             /\ UNCHANGED <<said, decided>>
    <3>1. PICK d : Becomes(c, d) /\ d.answer = "ok"
      BY <2>1, AnswersBecomes
    <3> QED
      BY <1>1, <2>1, <3>1 DEF DecisionBecomes
  <2>2. CASE c.kind = "reject" /\ Reject(c.ad) /\ Answers(c, "ok") /\ decided' = decided \union {c.ad}
             /\ UNCHANGED <<said, mine>>
    <3>1. PICK d : Becomes(c, d) /\ d.answer = "ok"
      BY <2>2, AnswersBecomes
    <3> QED
      BY <1>1, <2>2, <3>1 DEF DecisionBecomes
  <2>3. CASE c.kind \in {"validate", "reject"} /\ status[c.ad] # "REVIEW" /\ Answers(c, "refused")
             /\ UNCHANGED <<lifecycleVars, said, mine, decided>>
    <3>1. PICK d : Becomes(c, d) /\ d.answer = "refused"
      BY <2>3, AnswersBecomes
    <3> QED
      BY <1>1, <2>3, <3>1 DEF DecisionBecomes
  <2> QED
    BY <1>3, <2>1, <2>2, <2>3 DEF DecisionServed
<1>4. CASE ReplyServed(c)
  <2>1. PICK d : Becomes(c, d) /\ d.answer = "ok"
    BY <1>4, AnswersBecomes DEF ReplyServed
  <2>2. ReplyBecomes(c, d)
    BY <1>4, <2>1 DEF ReplyServed, ReplyBecomes
  <2> QED
    BY <1>1, <2>1, <2>2
<1> QED
  BY <1>2, <1>3, <1>4 DEF Serve

\* The calls under way stay well formed when one is served.
LEMMA ServeCalls ==
  ASSUME OfficeRows, OfficeCalls, NEW c \in calls, NEW d, Becomes(c, d),
         ReadBecomes(c, d) \/ DecisionBecomes(c, d) \/ ReplyBecomes(c, d)
  PROVE  OfficeCalls'
<1>1. \A x \in calls' : (x \in calls /\ x # c) \/ x = d
  BY DEF Becomes
<1>2. \A x \in calls' : CallShaped(x)'
  BY <1>1 DEF Becomes, OfficeCalls, CallShaped
<1>3. \A x, y \in calls' : x.kind = y.kind /\ x.ad = y.ad => x = y
  BY <1>1 DEF Becomes, OfficeCalls
<1>4. d.kind = "pending" => DOMAIN d.answer = Ads
  BY DEF Becomes, ReadBecomes, DecisionBecomes, ReplyBecomes
<1>5. d.kind = "list" => d.answer \subseteq Ads
  BY DEF Becomes, ReadBecomes, DecisionBecomes, ReplyBecomes, InStatus
<1> QED
  BY <1>1, <1>2, <1>3, <1>4, <1>5 DEF OfficeCalls

\* What the seller and the other admins do to one ad: it is edited while nobody
\* is to decide on it, corrected or decided on under review, or revised.
LEMMA OthersSteps ==
  ASSUME OfficeRows, OthersAct
  PROVE  \E a \in Ads :
           /\ status' \in [Ads -> {"DRAFT", "REVIEW", "REJECTED", "VALIDATED"}] /\ DOMAIN content' = Ads
           /\ \A b \in Ads \ {a} : status'[b] = status[b] /\ content'[b] = content[b]
           /\ corrected \subseteq corrected' /\ relisted \subseteq relisted'
           /\ \/ status[a] \in {"DRAFT", "REJECTED"} /\ UNCHANGED decided
              \/ status[a] = "REVIEW" /\ status'[a] = status[a] /\ UNCHANGED decided
                   /\ corrected' = Since(corrected, a)
              \/ status[a] = "VALIDATED" /\ status'[a] = "REVIEW" /\ UNCHANGED decided
                   /\ (PendingUnread /\ Listed(a) => a \in relisted')
              \/ status[a] = "REVIEW" /\ decided' = Since(decided, a)
           /\ UNCHANGED <<said, listVars, formVars, calls, mine, raced>>
<1>1. PICK a \in Contested :
        \/ (SellerEdits(a) \/ SubmitForReview(a)) /\ UNCHANGED <<decided, corrected, relisted>>
        \/ AdminEdits(a) /\ corrected' = Since(corrected, a) /\ UNCHANGED <<decided, relisted>>
        \/ (Validate(a) \/ Reject(a)) /\ decided' = Since(decided, a) /\ UNCHANGED <<corrected, relisted>>
        \/ /\ Revise(a) /\ UNCHANGED <<decided, corrected>>
           /\ relisted' = IF PendingUnread /\ Listed(a) THEN relisted \union {a} ELSE relisted
  BY DEF OthersAct, othersHistory
<1>2. a \in Ads /\ status \in [Ads -> {"DRAFT", "REVIEW", "REJECTED", "VALIDATED"}] /\ DOMAIN content = Ads
  BY BackOfficeAssumption DEF OfficeRows
<1>3. UNCHANGED <<said, listVars, formVars, calls, mine, raced>>
  BY DEF OthersAct
<1>4. CASE SellerEdits(a) /\ UNCHANGED <<decided, corrected, relisted>>
  <2>1. PICK t \in Texts : content' = [content EXCEPT ![a] = t]
    BY <1>4 DEF SellerEdits, Edit, Write
  <2>2. status[a] \in {"DRAFT", "REJECTED"} /\ status' = status
    BY <1>4 DEF SellerEdits, EditableBySeller, Edit
  <2> QED
    BY <1>2, <1>3, <1>4, <2>1, <2>2
<1>5. CASE SubmitForReview(a) /\ UNCHANGED <<decided, corrected, relisted>>
  BY <1>2, <1>3, <1>5 DEF SubmitForReview, Submit, Move
<1>6. CASE AdminEdits(a) /\ corrected' = Since(corrected, a) /\ UNCHANGED <<decided, relisted>>
  <2>1. PICK t \in Texts : content' = [content EXCEPT ![a] = t]
    BY <1>6 DEF AdminEdits, Edit, Write
  <2>2. status[a] \in {"DRAFT", "REJECTED", "REVIEW"} /\ status' = status /\ corrected \subseteq corrected'
    BY <1>6 DEF AdminEdits, Edit, Since
  <2> QED
    BY <1>2, <1>3, <1>6, <2>1, <2>2
<1>7. CASE (Validate(a) \/ Reject(a)) /\ decided' = Since(decided, a) /\ UNCHANGED <<corrected, relisted>>
  BY <1>2, <1>3, <1>7 DEF Validate, Reject, Move
<1>8. CASE /\ Revise(a) /\ UNCHANGED <<decided, corrected>>
           /\ relisted' = IF PendingUnread /\ Listed(a) THEN relisted \union {a} ELSE relisted
  <2>1. PICK t \in Texts : content' = [content EXCEPT ![a] = t]
    BY <1>8 DEF Revise
  <2>2. status[a] = "VALIDATED" /\ status' = [status EXCEPT ![a] = "REVIEW"]
    BY <1>8 DEF Revise, Move
  <2>3. relisted \subseteq relisted' /\ (PendingUnread /\ Listed(a) => a \in relisted')
    BY <1>8
  <2> QED
    BY <1>2, <1>3, <1>8, <2>1, <2>2, <2>3
<1> QED
  BY <1>1, <1>4, <1>5, <1>6, <1>7, <1>8

\* What the admin does on the page: at most one call is sent.
Asks(n) ==
  /\ Joins(n) /\ n.ad \in Ads
  /\ \/ /\ n.kind = "validate" /\ n.arg = pendingAds[n.ad] /\ n.arg # Unset
        /\ raced' = IF UnderWay("list", Unset) THEN raced \union {n.ad} ELSE raced
     \/ n.kind = "reject" /\ UNCHANGED raced
     \/ /\ n.kind = "messages"
        /\ raced' = IF UnderWay("reply", n.ad) THEN raced \union {n.ad} ELSE raced
     \/ /\ n.kind = "reply"
        /\ raced' = IF UnderWay("messages", n.ad) THEN raced \union {n.ad} ELSE raced

Inputs ==
  \/ \E a \in Ads : ClickValidate(a) \/ OpenReject(a) \/ ToggleMessages(a)
  \/ CancelReject \/ TypeReason \/ ConfirmReject \/ SendReply

\* What the admin does with the page only asks for something or changes a form.
LEMMA InputSteps ==
  ASSUME OfficeRows, Inputs
  PROVE  /\ UNCHANGED <<adServerVars, listVars, threads, mine, othersHistory>>
         /\ rejectDraft' \in DraftSet /\ expanded' \in Ads \union {Unset}
         /\ UNCHANGED <<calls, raced>> \/ \E n : Asks(n)
<1>1. rejectDraft \in DraftSet /\ expanded \in Ads \union {Unset}
  BY DEF OfficeRows
<1>2. ASSUME NEW a \in Ads, ClickValidate(a)
      PROVE  UNCHANGED <<adServerVars, listVars, formVars, mine, othersHistory>> /\ \E n : Asks(n)
  <2>1. PICK arg : arg = pendingAds[a] /\ arg # Unset /\ Sends("validate", a, arg)
    BY <1>2 DEF ClickValidate, Shown
  <2>2. PICK n : Joins(n) /\ n.kind = "validate" /\ n.ad = a /\ n.arg = arg
    BY <2>1, SendsJoins DEF OtherKinds
  <2>3. Asks(n)
    BY <1>2, <2>1, <2>2 DEF ClickValidate, Asks
  <2> QED
    BY <1>2, <2>3 DEF ClickValidate
<1>3. ASSUME NEW a \in Ads, OpenReject(a)
      PROVE  UNCHANGED <<adServerVars, listVars, expanded, threads, mine, othersHistory, calls, raced>>
             /\ rejectDraft' \in DraftSet
  BY <1>3 DEF OpenReject, officeHistory, DraftOpenedFor, DraftSet
<1>4. ASSUME NEW a \in Ads, ToggleMessages(a)
      PROVE  /\ UNCHANGED <<adServerVars, listVars, rejectDraft, threads, mine, othersHistory>>
             /\ expanded' \in Ads \union {Unset}
             /\ UNCHANGED <<calls, raced>> \/ \E n : Asks(n)
  <2>1. CASE UNCHANGED <<calls, raced>>
    BY <1>4, <2>1 DEF ToggleMessages
  <2>2. CASE /\ Sends("messages", a, Unset)
             /\ raced' = IF UnderWay("reply", a) THEN raced \union {a} ELSE raced
    <3>1. PICK n : Joins(n) /\ n.kind = "messages" /\ n.ad = a
      BY <2>2, SendsJoins DEF OtherKinds
    <3>2. Asks(n)
      BY <2>2, <3>1 DEF Asks
    <3> QED
      BY <1>4, <3>2 DEF ToggleMessages
  <2> QED
    BY <1>4, <2>1, <2>2 DEF ToggleMessages
<1>5. ASSUME CancelReject \/ TypeReason
      PROVE  UNCHANGED <<adServerVars, listVars, expanded, threads, mine, othersHistory, calls, raced>>
             /\ rejectDraft' \in DraftSet
  BY <1>1, <1>5 DEF CancelReject, TypeReason, officeHistory, DraftSet
<1>6. ASSUME ConfirmReject
      PROVE  UNCHANGED <<adServerVars, listVars, formVars, mine, othersHistory>> /\ \E n : Asks(n)
  <2>0. PICK a \in Ads : a = rejectDraft.ad
    BY <1>1, <1>6 DEF ConfirmReject, DraftSet
  <2>1. PICK arg : Sends("reject", a, arg)
    BY <2>0, <1>6 DEF ConfirmReject
  <2>2. PICK n : Joins(n) /\ n.kind = "reject" /\ n.ad = a
    BY <2>1, SendsJoins DEF OtherKinds
  <2>3. Asks(n)
    BY <1>6, <2>2 DEF ConfirmReject, officeHistory, Asks
  <2> QED
    BY <1>6, <2>3 DEF ConfirmReject, officeHistory
<1>7. ASSUME SendReply
      PROVE  UNCHANGED <<adServerVars, listVars, formVars, mine, othersHistory>> /\ \E n : Asks(n)
  <2>1. PICK a \in Ads : a = expanded /\ Sends("reply", a, Unset)
    BY <1>1, <1>7 DEF SendReply
  <2>2. PICK n : Joins(n) /\ n.kind = "reply" /\ n.ad = a
    BY <2>1, SendsJoins DEF OtherKinds
  <2>3. Asks(n)
    BY <1>7, <2>1, <2>2 DEF SendReply, Asks
  <2> QED
    BY <1>7, <2>3 DEF SendReply
<1> QED
  BY <1>1, <1>2, <1>3, <1>4, <1>5, <1>6, <1>7 DEF Inputs, formVars

\* A finite set is listed as a sequence of its elements.
LEMMA SetToSeqLists ==
  ASSUME NEW S, IsFiniteSet(S)
  PROVE  SetToSeq(S) \in Seq(S)
<1>1. Cardinality(S) \in Nat /\ ExistsBijection(1..Cardinality(S), S)
  BY FS_CardinalityType
<1>2. PICK f \in [1..Cardinality(S) -> S] : IsInjective(f)
  BY <1>1 DEF ExistsBijection, Bijection, Injection, IsInjective
<1>3. SetToSeq(S) \in [1..Cardinality(S) -> S]
  BY <1>2 DEF SetToSeq
<1> QED
  BY <1>1, <1>3, SeqDef

\* What an answer puts on the page.
LEMMA AnswerSteps ==
  ASSUME OfficeRows, OfficeCalls, NEW c \in calls, CallAnswered(c)
  PROVE  /\ c.answer # Unset /\ calls' = calls \ {c} /\ UNCHANGED <<adServerVars, mine, othersHistory, raced, expanded>>
         /\ DOMAIN pendingAds' = Ads /\ validatedAds' \in Seq(Ads)
         /\ DOMAIN threads' = Ads /\ rejectDraft' \in DraftSet
         /\ IF c.kind = "pending" THEN pendingAds' = c.answer
            ELSE \/ UNCHANGED pendingAds
                 \/ c.kind \in {"validate", "reject"} /\ pendingAds' = [pendingAds EXCEPT ![c.ad] = Unset]
         /\ \/ c.kind = "list" /\ validatedAds' \in Seq(c.answer)
            \/ c.kind = "validate" /\ c.answer = "ok" /\ validatedAds' = Append(validatedAds, c.ad)
            \/ ~(c.kind = "validate" /\ c.answer = "ok") /\ UNCHANGED validatedAds
         /\ \/ c.kind = "messages" /\ threads' = [threads EXCEPT ![c.ad] = c.answer]
            \/ c.kind = "reply" /\ threads' = [threads EXCEPT ![c.ad] = Append(Known(c.ad), "reply")]
            \/ c.kind \notin {"messages", "reply"} /\ UNCHANGED threads
<1>1. c.answer # Unset /\ calls' = calls \ {c} /\ UNCHANGED <<adServerVars, mine, othersHistory, raced>>
  BY DEF CallAnswered, officeHistory
<1>2. CallShaped(c) /\ (c.kind = "pending" => DOMAIN c.answer = Ads) /\ (c.kind = "list" => c.answer \subseteq Ads)
  BY <1>1 DEF OfficeCalls
<1>3. DOMAIN pendingAds = Ads /\ validatedAds \in Seq(Ads) /\ rejectDraft \in DraftSet /\ DOMAIN threads = Ads
  BY DEF OfficeRows
<1>4. CASE ListAnswered(c)
  <2>1. CASE c.kind = "list"
    <3>1. IsFiniteSet(c.answer)
      BY <1>2, <2>1, BackOfficeAssumption, FS_Subset
    <3>2. validatedAds' \in Seq(c.answer)
      BY <1>4, <2>1, <3>1, SetToSeqLists DEF ListAnswered
    <3>3. Seq(c.answer) \subseteq Seq(Ads)
      BY <1>2, <2>1
    <3> QED
      BY <1>1, <1>3, <1>4, <2>1, <3>2, <3>3 DEF ListAnswered, formVars
  <2>2. CASE c.kind = "pending"
    BY <1>1, <1>2, <1>3, <1>4, <2>2 DEF ListAnswered, formVars
  <2> QED
    BY <1>4, <2>1, <2>2 DEF ListAnswered
<1>5. CASE DecisionAnswered(c)
  <2>1. c.ad \in Ads /\ c.kind \in {"validate", "reject"}
    BY <1>2, <1>5 DEF DecisionAnswered, CallShaped
  <2>2. Append(validatedAds, c.ad) \in Seq(Ads)
    BY <1>3, <2>1, AppendProperties
  <2>3. [rejectDraft EXCEPT !.ad = Unset] \in DraftSet
    BY <1>3 DEF DraftSet
  <2>4. CASE c.answer = "ok"
    BY <1>1, <1>3, <1>5, <2>1, <2>2, <2>3, <2>4 DEF DecisionAnswered, RemoveFromPending, WithValidated
  <2>5. CASE c.answer # "ok"
    BY <1>1, <1>3, <1>5, <2>1, <2>5 DEF DecisionAnswered
  <2> QED
    BY <2>4, <2>5
<1>6. CASE ThreadAnswered(c)
  BY <1>1, <1>2, <1>3, <1>6 DEF ThreadAnswered, WithReply, Known, listVars, CallShaped
<1> QED
  BY <1>4, <1>5, <1>6 DEF CallAnswered

\* A call that fails is forgotten; if it was to change something, the ad has raced.
LEMMA FailSteps ==
  ASSUME NEW c \in calls, CallFails(c)
  PROVE  /\ calls' = calls \ {c} /\ UNCHANGED <<adServerVars, listVars, formVars, mine, othersHistory>>
         /\ raced' = IF c.kind \in {"validate", "reply"} THEN raced \union {c.ad} ELSE raced
  BY DEF CallFails

\* Every step of the back office is one of these.
LEMMA OfficeSteps ==
  ASSUME BackOfficeNext
  PROVE  \/ OthersAct \/ Inputs
         \/ \E c \in calls : Serve(c) \/ CallAnswered(c) \/ CallFails(c)
  BY DEF BackOfficeNext, Inputs

-----------------------------------------------------------------------------
(* Types, and one call of a kind for an ad                                  *)

\* Every step of the back office keeps the types of rows, lists and calls.
LEMMA OfficeTypesStep ==
  ASSUME OfficeRows, OfficeCalls, BackOfficeNext
  PROVE  OfficeRows' /\ OfficeCalls'
<1>1. CASE OthersAct
  <2>1. PICK a \in Ads :
          /\ status' \in [Ads -> {"DRAFT", "REVIEW", "REJECTED", "VALIDATED"}] /\ DOMAIN content' = Ads
          /\ UNCHANGED decided \/ decided' = Since(decided, a)
          /\ UNCHANGED <<said, listVars, formVars, calls, mine, raced>>
    BY <1>1, OthersSteps
  <2>2. OfficeRows'
    BY <2>1 DEF OfficeRows, listVars, formVars, Since
  <2>3. OfficeCalls'
    BY <2>1 DEF OfficeCalls, CallShaped
  <2> QED
    BY <2>2, <2>3
<1>2. CASE Inputs
  <2>1. /\ UNCHANGED <<adServerVars, listVars, threads, mine, othersHistory>>
        /\ rejectDraft' \in DraftSet /\ expanded' \in Ads \union {Unset}
        /\ UNCHANGED <<calls, raced>> \/ \E n : Asks(n)
    BY <1>2, InputSteps
  <2>2. OfficeRows'
    BY <2>1 DEF OfficeRows, othersHistory, adServerVars, lifecycleVars, listVars
  <2>3. OfficeCalls'
    <3>1. CASE UNCHANGED calls
      BY <3>1 DEF OfficeCalls, CallShaped
    <3>2. CASE \E n : Asks(n)
      BY <3>2, JoinsCalls DEF Asks
    <3> QED
      BY <2>1, <3>1, <3>2
  <2> QED
    BY <2>2, <2>3
<1>3. ASSUME NEW c \in calls, Serve(c) PROVE OfficeRows' /\ OfficeCalls'
  <2>1. PICK d : /\ Becomes(c, d) /\ (ReadBecomes(c, d) \/ DecisionBecomes(c, d) \/ ReplyBecomes(c, d))
                 /\ UNCHANGED <<listVars, formVars>>
    BY <1>3, ServeSteps
  <2>2. OfficeCalls'
    BY <2>1, ServeCalls
  <2>3. CallShaped(c)
    BY DEF OfficeCalls
  <2>4. CASE ReadBecomes(c, d)
    BY <2>1, <2>2, <2>4 DEF ReadBecomes, OfficeRows, adServerVars, lifecycleVars, listVars, formVars
  <2>5. CASE DecisionBecomes(c, d)
    <3>1. c.ad \in Ads /\ UNCHANGED <<said, content>>
      BY <2>3, <2>5 DEF DecisionBecomes, CallShaped, Validate, Reject, lifecycleVars
    <3>2. status' \in [Ads -> {"DRAFT", "REVIEW", "REJECTED", "VALIDATED"}] /\ mine' \subseteq Ads
          /\ decided' \subseteq Ads
      BY <2>5, <3>1 DEF DecisionBecomes, Validate, Reject, Move, lifecycleVars, OfficeRows
    <3> QED
      BY <2>1, <2>2, <3>1, <3>2 DEF OfficeRows, listVars, formVars
  <2>6. CASE ReplyBecomes(c, d)
    <3>1. c.ad \in Ads
      BY <2>3, <2>6 DEF ReplyBecomes, CallShaped
    <3>2. PICK a \in Ads : a = c.ad
      BY <3>1
    <3>3. said' = [said EXCEPT ![a] = Append(said[a], "reply")] /\ said[a] \in Seq({"reply"})
      BY <2>6, <3>2 DEF ReplyBecomes, OfficeRows
    <3>4. Append(said[a], "reply") \in Seq({"reply"})
      BY <3>3, AppendProperties
    <3>5. said' \in [Ads -> Seq({"reply"})]
      BY <3>3, <3>4 DEF OfficeRows
    <3> QED
      BY <2>1, <2>2, <2>6, <3>5 DEF ReplyBecomes, lifecycleVars, OfficeRows, listVars, formVars
  <2> QED
    BY <2>1, <2>4, <2>5, <2>6
<1>4. ASSUME NEW c \in calls, CallAnswered(c) PROVE OfficeRows' /\ OfficeCalls'
  <2>1. /\ calls' = calls \ {c} /\ UNCHANGED <<adServerVars, mine, othersHistory, expanded>>
        /\ DOMAIN pendingAds' = Ads /\ validatedAds' \in Seq(Ads)
        /\ DOMAIN threads' = Ads /\ rejectDraft' \in DraftSet
    BY <1>4, AnswerSteps
  <2>2. OfficeRows'
    BY <2>1 DEF OfficeRows, othersHistory, adServerVars, lifecycleVars
  <2>3. OfficeCalls'
    BY <2>1 DEF OfficeCalls, CallShaped
  <2> QED
    BY <2>2, <2>3
<1>5. ASSUME NEW c \in calls, CallFails(c) PROVE OfficeRows' /\ OfficeCalls'
  <2>1. calls' = calls \ {c} /\ UNCHANGED <<adServerVars, listVars, formVars, mine, othersHistory>>
    BY <1>5, FailSteps
  <2>2. OfficeRows'
    BY <2>1 DEF OfficeRows, othersHistory, adServerVars, lifecycleVars, listVars, formVars
  <2>3. OfficeCalls'
    BY <2>1 DEF OfficeCalls, CallShaped
  <2> QED
    BY <2>2, <2>3
<1> QED
  BY <1>1, <1>2, <1>3, <1>4, <1>5, OfficeSteps

-----------------------------------------------------------------------------
(* What nobody has decided on                                               *)

\* An ad appended to the list has one place more, the others keep theirs.
LEMMA PlacesAppend ==
  ASSUME OfficeRows, NEW a \in Ads, NEW b \in Ads, validatedAds' = Append(validatedAds, a)
  PROVE  Places(b)' = IF b = a THEN Places(b) \union {Len(validatedAds) + 1} ELSE Places(b)
<1>1. /\ Len(validatedAds) \in Nat /\ DOMAIN validatedAds = 1..Len(validatedAds)
      /\ DOMAIN validatedAds' = 1..Len(validatedAds) + 1 /\ validatedAds'[Len(validatedAds) + 1] = a
      /\ \A i \in 1..Len(validatedAds) : validatedAds'[i] = validatedAds[i]
  BY AppendProperties, LenProperties DEF OfficeRows
<1>2. DOMAIN validatedAds' = (DOMAIN validatedAds) \union {Len(validatedAds) + 1}
  BY <1>1
<1>3. Places(b)' = {i \in DOMAIN validatedAds' : validatedAds'[i] = b}
  BY DEF Places
<1> QED
  BY <1>1, <1>2, <1>3 DEF Places

\* Until the pending ads are there, nothing of them is shown, or acted on.
LEMMA FirstStep ==
  ASSUME OfficeRows, OfficeCalls, FirstInv, BackOfficeNext
  PROVE  FirstInv'
<1>0. \A c \in calls : CallShaped(c)
  BY DEF OfficeCalls
<1> SUFFICES ASSUME UnderWay("pending", Unset)'
             PROVE  mine' = {} /\ (\A a \in Ads : pendingAds'[a] = Unset) /\ \A x \in calls' : x.kind # "validate"
  BY DEF FirstInv
<1>1. CASE OthersAct
  BY <1>1, OthersSteps DEF FirstInv, UnderWay, listVars
<1>2. CASE Inputs
  <2>1. UNCHANGED <<mine, pendingAds>> /\ (UNCHANGED <<calls, raced>> \/ \E n : Asks(n))
    BY <1>2, InputSteps DEF listVars
  <2>2. CASE UNCHANGED calls
    BY <2>1, <2>2 DEF FirstInv, UnderWay
  <2>3. ASSUME NEW n, Asks(n)
        PROVE  mine' = {} /\ (\A a \in Ads : pendingAds'[a] = Unset) /\ \A x \in calls' : x.kind # "validate"
    <3>1. /\ calls' = calls \union {n} /\ n.ad \in Ads /\ n.kind # "pending"
          /\ n.kind = "validate" => pendingAds[n.ad] # Unset
      BY <2>3 DEF Asks, Joins
    <3>2. UnderWay("pending", Unset)
      BY <3>1 DEF UnderWay
    <3> QED
      BY <2>1, <3>1, <3>2 DEF FirstInv
  <2> QED
    BY <2>1, <2>2, <2>3
<1>3. ASSUME NEW c \in calls, Serve(c)
      PROVE  mine' = {} /\ (\A a \in Ads : pendingAds'[a] = Unset) /\ \A x \in calls' : x.kind # "validate"
  <2>1. PICK d : /\ Becomes(c, d) /\ (ReadBecomes(c, d) \/ DecisionBecomes(c, d) \/ ReplyBecomes(c, d))
                 /\ UNCHANGED <<listVars, formVars>>
    BY <1>3, ServeSteps
  <2>2. UnderWay("pending", Unset)
    BY <2>1 DEF Becomes, UnderWay
  <2>3. c.kind # "validate" /\ UNCHANGED mine
    BY <2>1, <2>2 DEF FirstInv, ReadBecomes, DecisionBecomes, ReplyBecomes
  <2> QED
    BY <2>1, <2>2, <2>3 DEF FirstInv, Becomes, listVars
<1>4. ASSUME NEW c \in calls, CallAnswered(c)
      PROVE  mine' = {} /\ (\A a \in Ads : pendingAds'[a] = Unset) /\ \A x \in calls' : x.kind # "validate"
  <2>1. /\ calls' = calls \ {c} /\ UNCHANGED mine
        /\ IF c.kind = "pending" THEN pendingAds' = c.answer
           ELSE \/ UNCHANGED pendingAds
                \/ c.kind \in {"validate", "reject"} /\ pendingAds' = [pendingAds EXCEPT ![c.ad] = Unset]
    BY <1>4, AnswerSteps
  <2>2. UnderWay("pending", Unset)
    BY <2>1 DEF UnderWay
  <2>3. c.kind # "pending"
    BY <1>0, <2>1 DEF UnderWay, OfficeCalls, CallShaped
  <2> QED
    BY <2>1, <2>2, <2>3 DEF FirstInv, OfficeRows
<1>5. ASSUME NEW c \in calls, CallFails(c)
      PROVE  mine' = {} /\ (\A a \in Ads : pendingAds'[a] = Unset) /\ \A x \in calls' : x.kind # "validate"
  BY <1>5, FailSteps DEF FirstInv, UnderWay, listVars
<1> QED
  BY <1>1, <1>2, <1>3, <1>4, <1>5, OfficeSteps

\* What the page has not claimed it has not misread.
LEMMA UnclaimedAsRead ==
  ASSUME NEW a \in Ads, ~Claimed(a)
  PROVE  AsRead(a)
  BY DEF Claimed, AsRead

\* While the pending ads are not read, the page claims nothing.
LEMMA UnreadUnclaimed ==
  ASSUME OfficeCalls, FirstInv, PendingUnread, NEW a \in Ads
  PROVE  ~Claimed(a)
<1>1. PICK c \in calls : c.kind = "pending" /\ c.answer = Unset
  BY DEF PendingUnread
<1>2. \A d \in calls : d.kind = "pending" => d = c
  BY <1>1 DEF OfficeCalls, CallShaped
<1>3. UnderWay("pending", Unset)
  BY <1>1 DEF UnderWay, OfficeCalls, CallShaped
<1> QED
  BY <1>1, <1>2, <1>3 DEF FirstInv, Claimed

\* A step that leaves the ad alone, and claims, lists or validates no more of it.
LEMMA UntouchedKept ==
  ASSUME NEW a \in Ads, Untouched(a), status'[a] = status[a],
         corrected \subseteq corrected', relisted \subseteq relisted',
         Claimed(a)' => Claimed(a), AsRead(a) => AsRead(a)', Listed(a)' => Listed(a),
         PendingUnread' => PendingUnread, NotYetValidated(a)'
  PROVE  Untouched(a)'
  BY DEF Untouched

\* Every step keeps an ad nobody decided on as it was read.
LEMMA UntouchedStep ==
  ASSUME OfficeRows, OfficeCalls, FirstInv, UntouchedInv, BackOfficeNext,
         NEW a \in Ads, a \notin mine' \union decided'
  PROVE  Untouched(a)'
<1>0. \A c \in calls : CallShaped(c)
  BY DEF OfficeCalls
<1>1. CASE OthersAct
  <2>1. PICK b \in Ads :
          /\ \A x \in Ads \ {b} : status'[x] = status[x] /\ content'[x] = content[x]
          /\ corrected \subseteq corrected' /\ relisted \subseteq relisted'
          /\ \/ status[b] \in {"DRAFT", "REJECTED"} /\ UNCHANGED decided
             \/ status[b] = "REVIEW" /\ status'[b] = status[b] /\ UNCHANGED decided
                  /\ corrected' = Since(corrected, b)
             \/ status[b] = "VALIDATED" /\ status'[b] = "REVIEW" /\ UNCHANGED decided
                  /\ (PendingUnread /\ Listed(b) => b \in relisted')
             \/ status[b] = "REVIEW" /\ decided' = Since(decided, b)
          /\ UNCHANGED <<said, listVars, formVars, calls, mine, raced>>
    BY <1>1, OthersSteps
  <2>2. /\ Claimed(a)' <=> Claimed(a)
        /\ Listed(a)' <=> Listed(a)
        /\ PendingUnread' <=> PendingUnread
        /\ NotYetValidated(a)' <=> NotYetValidated(a)
    BY <2>1 DEF Claimed, Listed, PendingUnread, NotYetValidated, listVars
  <2>3. Untouched(a)
    BY <2>1 DEF UntouchedInv, Since
  <2>4. CASE a # b
    <3>1. AsRead(a)' <=> AsRead(a)
      BY <2>1, <2>4 DEF AsRead, listVars
    <3> QED
      BY <2>1, <2>2, <2>3, <2>4, <3>1, UntouchedKept DEF Untouched
  <2>5. CASE a = b /\ ~Claimed(a)
    <3>1. AsRead(a)'
      BY <2>2, <2>5, UnclaimedAsRead DEF Claimed, AsRead
    <3>2. Listed(a) /\ PendingUnread /\ a \notin relisted' => status'[a] = "VALIDATED"
      BY <2>1, <2>3, <2>5 DEF Untouched, Since
    <3> QED
      BY <2>1, <2>2, <2>3, <2>5, <3>1, <3>2 DEF Untouched
  <2>6. CASE a = b /\ Claimed(a)
    <3>1. ~PendingUnread /\ status[a] = "REVIEW"
      BY <2>3, <2>6, UnreadUnclaimed DEF Untouched
    <3>2. status'[a] = "REVIEW" /\ a \in corrected'
      BY <2>1, <2>6, <3>1 DEF Since
    <3>3. Listed(a) => a \in relisted
      BY <2>3, <2>6 DEF Untouched
    <3> QED
      BY <2>1, <2>2, <2>3, <3>2, <3>3 DEF Untouched
  <2> QED
    BY <2>4, <2>5, <2>6
<1>2. CASE Inputs
  <2>1. /\ UNCHANGED <<status, content, pendingAds, validatedAds, mine, decided, corrected, relisted>>
        /\ UNCHANGED <<calls, raced>> \/ \E n : Asks(n)
    BY <1>2, InputSteps DEF adServerVars, lifecycleVars, listVars, othersHistory
  <2>2. Untouched(a)
    BY <2>1 DEF UntouchedInv
  <2>3. CASE UNCHANGED calls
    BY <2>1, <2>2, <2>3 DEF Untouched, Claimed, AsRead, Listed, PendingUnread, NotYetValidated
  <2>4. ASSUME NEW n, Asks(n) PROVE Untouched(a)'
    <3>1. /\ calls' = calls \union {n} /\ n.answer = Unset /\ n.ad \in Ads /\ n.kind \notin {"pending", "list"}
          /\ n.kind = "validate" => n.arg = pendingAds[n.ad] /\ n.arg # Unset
      BY <2>4 DEF Asks, Joins
    <3>2. Claimed(a)' => Claimed(a)
      BY <2>1, <3>1 DEF Claimed
    <3>3. AsRead(a) => AsRead(a)'
      BY <2>1, <3>1 DEF AsRead
    <3>4. (Listed(a)' => Listed(a)) /\ (PendingUnread' => PendingUnread)
      BY <2>1, <3>1 DEF Listed, PendingUnread
    <3>5. NotYetValidated(a)'
      BY <2>2, <3>1, BackOfficeAssumption DEF Untouched, NotYetValidated
    <3> QED
      BY <2>1, <2>2, <3>2, <3>3, <3>4, <3>5, UntouchedKept
  <2> QED
    BY <2>1, <2>3, <2>4
<1>3. ASSUME NEW c \in calls, Serve(c) PROVE Untouched(a)'
  <2>1. PICK d : /\ Becomes(c, d) /\ (ReadBecomes(c, d) \/ DecisionBecomes(c, d) \/ ReplyBecomes(c, d))
                 /\ c.answer = Unset /\ UNCHANGED <<listVars, formVars, raced, corrected, relisted>>
    BY <1>3, ServeSteps
  <2>2. CallShaped(c) /\ UNCHANGED <<pendingAds, validatedAds>>
    BY <1>0, <2>1 DEF listVars
  <2>3. \A x \in calls' : (x \in calls /\ x # c) \/ x = d
    BY <2>1 DEF Becomes
  <2>4. d.kind = c.kind /\ d.ad = c.ad /\ d.arg = c.arg
    BY <2>1 DEF Becomes
  <2>5. Untouched(a)
    BY <2>1 DEF UntouchedInv, ReadBecomes, DecisionBecomes, ReplyBecomes
  <2>6. PendingUnread' => PendingUnread
    BY <2>1, <2>3, <2>4 DEF PendingUnread
  <2>7. CASE c.kind = "pending"
    <3>1. /\ UNCHANGED <<status, content>>
          /\ d.answer = [b \in Ads |-> IF status[b] = "REVIEW" THEN content[b] ELSE Unset]
      BY <2>1, <2>7 DEF ReadBecomes, DecisionBecomes, ReplyBecomes, adServerVars, lifecycleVars
    <3>2. PendingUnread /\ ~Claimed(a)
      BY <2>1, <2>7, UnreadUnclaimed DEF PendingUnread
    <3>3. d.answer[a] \in {Unset, content[a]} /\ (d.answer[a] # Unset => status[a] = "REVIEW")
      BY <3>1
    <3>4. Claimed(a)' => d.answer[a] # Unset
      BY <2>2, <2>3, <2>4, <2>7, <3>2 DEF Claimed
    <3>5. AsRead(a)'
      BY <2>2, <2>3, <2>4, <2>7, <3>1, <3>2, <3>3 DEF Claimed, AsRead
    <3>6. (Listed(a)' => Listed(a)) /\ NotYetValidated(a)'
      BY <2>2, <2>3, <2>4, <2>5, <2>7 DEF Listed, Untouched, NotYetValidated
    <3> QED
      BY <2>1, <2>5, <2>6, <3>1, <3>2, <3>3, <3>4, <3>5, <3>6 DEF Untouched
  <2>8. CASE c.kind = "list"
    <3>1. UNCHANGED <<status, content>> /\ d.answer = InStatus("VALIDATED")
      BY <2>1, <2>8 DEF ReadBecomes, DecisionBecomes, ReplyBecomes, adServerVars, lifecycleVars
    <3>2. (Claimed(a)' => Claimed(a)) /\ (AsRead(a) => AsRead(a)') /\ NotYetValidated(a)'
      BY <2>2, <2>3, <2>4, <2>5, <2>8, <3>1 DEF Claimed, AsRead, Untouched, NotYetValidated
    <3>3. Listed(a)' => Listed(a) \/ status[a] = "VALIDATED"
      BY <2>2, <2>3, <2>4, <2>8, <3>1 DEF Listed, InStatus
    <3> QED
      BY <2>1, <2>5, <2>6, <3>1, <3>2, <3>3 DEF Untouched
  <2>9. CASE c.kind \notin {"pending", "list"}
    <3>1. /\ status'[a] = status[a] /\ content'[a] = content[a]
          /\ d.kind = "validate" /\ d.ad = a => d.answer # "ok"
      BY <2>1, <2>2, <2>4, <2>9 DEF ReadBecomes, DecisionBecomes, ReplyBecomes, adServerVars, lifecycleVars,
                                   Validate, Reject, Move, CallShaped, OfficeRows
    <3>2. (Claimed(a)' => Claimed(a)) /\ (AsRead(a) => AsRead(a)')
      BY <2>2, <2>3, <2>4, <2>9, <3>1 DEF Claimed, AsRead
    <3>3. (Listed(a)' => Listed(a)) /\ NotYetValidated(a)'
      BY <2>2, <2>3, <2>4, <2>5, <2>9, <3>1 DEF Listed, Untouched, NotYetValidated
    <3> QED
      BY <2>1, <2>5, <2>6, <3>1, <3>2, <3>3, UntouchedKept
  <2> QED
    BY <2>7, <2>8, <2>9
<1>4. ASSUME NEW c \in calls, CallAnswered(c) PROVE Untouched(a)'
  <2>1. /\ c.answer # Unset /\ calls' = calls \ {c}
        /\ UNCHANGED <<status, content, mine, decided, corrected, relisted>>
        /\ IF c.kind = "pending" THEN pendingAds' = c.answer
           ELSE \/ UNCHANGED pendingAds
                \/ c.kind \in {"validate", "reject"} /\ pendingAds' = [pendingAds EXCEPT ![c.ad] = Unset]
        /\ \/ c.kind = "list" /\ validatedAds' \in Seq(c.answer)
           \/ c.kind = "validate" /\ c.answer = "ok" /\ validatedAds' = Append(validatedAds, c.ad)
           \/ UNCHANGED validatedAds
    BY <1>4, AnswerSteps DEF adServerVars, lifecycleVars, othersHistory
  <2>2. CallShaped(c) /\ Untouched(a) /\ DOMAIN pendingAds = Ads /\ validatedAds \in Seq(Ads)
    BY <1>0, <2>1 DEF UntouchedInv, OfficeRows
  <2>3. \/ c.kind = "pending" /\ pendingAds'[a] = c.answer[a]
        \/ pendingAds'[a] \in {Unset, pendingAds[a]}
    BY <2>1, <2>2
  <2>4. Claimed(a)' => Claimed(a)
    BY <2>1, <2>3 DEF Claimed
  <2>5. AsRead(a) => AsRead(a)'
    BY <2>1, <2>3 DEF AsRead
  <2>6. Listed(a)' => Listed(a)
    <3>1. CASE c.kind = "list" /\ validatedAds' \in Seq(c.answer)
      <4>1. \A i \in DOMAIN validatedAds' : validatedAds'[i] \in c.answer
        BY <3>1, ElementOfSeq, LenProperties
      <4> QED
        BY <2>1, <3>1, <4>1 DEF Listed, ToSet
    <3>2. CASE c.kind = "validate" /\ c.answer = "ok" /\ validatedAds' = Append(validatedAds, c.ad)
      <4>1. PICK b \in Ads : b = c.ad /\ b # a
        BY <2>2, <3>2 DEF Untouched, NotYetValidated, CallShaped
      <4>2. \A i \in DOMAIN validatedAds' : validatedAds'[i] = a => i \in DOMAIN validatedAds /\ validatedAds[i] = a
        BY <2>2, <3>2, <4>1, AppendProperties, LenProperties
      <4> QED
        BY <2>1, <4>2 DEF Listed, ToSet
    <3>3. CASE UNCHANGED validatedAds
      BY <2>1, <3>3 DEF Listed
    <3> QED
      BY <2>1, <3>1, <3>2, <3>3
  <2>7. (PendingUnread' => PendingUnread) /\ NotYetValidated(a)'
    BY <2>1, <2>2 DEF PendingUnread, Untouched, NotYetValidated
  <2> QED
    BY <2>1, <2>2, <2>4, <2>5, <2>6, <2>7, UntouchedKept
<1>5. ASSUME NEW c \in calls, CallFails(c) PROVE Untouched(a)'
  <2>1. /\ calls' = calls \ {c}
        /\ UNCHANGED <<status, content, pendingAds, validatedAds, mine, decided, corrected, relisted>>
    BY <1>5, FailSteps DEF adServerVars, lifecycleVars, listVars, othersHistory
  <2>2. Untouched(a) /\ NotYetValidated(a)'
    BY <2>1 DEF UntouchedInv, Untouched, NotYetValidated
  <2>3. (Claimed(a)' => Claimed(a)) /\ (AsRead(a) => AsRead(a)') /\ (Listed(a)' => Listed(a))
        /\ (PendingUnread' => PendingUnread)
    BY <2>1 DEF Claimed, AsRead, Listed, PendingUnread
  <2> QED
    BY <2>1, <2>2, <2>3, UntouchedKept
<1> QED
  BY <1>1, <1>2, <1>3, <1>4, <1>5, OfficeSteps

-----------------------------------------------------------------------------
(* What is validated here is shown once                                     *)

\* Every step keeps that what is validated while the list loads has raced.
LEMMA ListStep ==
  ASSUME OfficeRows, OfficeCalls, ListInv, BackOfficeNext
  PROVE  ListInv'
<1>0. \A c \in calls : CallShaped(c)
  BY DEF OfficeCalls
<1>1. CASE OthersAct
  BY <1>1, OthersSteps DEF ListInv, UnderWay
<1>2. CASE Inputs
  <2>1. UNCHANGED mine /\ (UNCHANGED <<calls, raced>> \/ \E n : Asks(n))
    BY <1>2, InputSteps
  <2>2. CASE UNCHANGED <<calls, raced>>
    BY <2>1, <2>2 DEF ListInv, UnderWay
  <2>3. ASSUME NEW n, Asks(n) PROVE ListInv'
    <3>1. calls' = calls \union {n} /\ n.kind # "list" /\ raced \subseteq raced'
          /\ (n.kind = "validate" /\ UnderWay("list", Unset) => n.ad \in raced')
      BY <2>3 DEF Asks, Joins
    <3>2. UnderWay("list", Unset)' <=> UnderWay("list", Unset)
      BY <3>1 DEF UnderWay
    <3> QED
      BY <2>1, <3>1, <3>2 DEF ListInv
  <2> QED
    BY <2>1, <2>2, <2>3
<1>3. ASSUME NEW c \in calls, Serve(c) PROVE ListInv'
  <2>1. PICK d : /\ Becomes(c, d) /\ (ReadBecomes(c, d) \/ DecisionBecomes(c, d) \/ ReplyBecomes(c, d))
                 /\ UNCHANGED raced
    BY <1>3, ServeSteps
  <2>2. UNCHANGED mine \/ (c.kind = "validate" /\ mine' = mine \union {c.ad})
    BY <2>1 DEF ReadBecomes, DecisionBecomes, ReplyBecomes
  <2>3. UnderWay("list", Unset)' <=> UnderWay("list", Unset)
    BY <2>1 DEF Becomes, UnderWay
  <2>4. \A x \in calls' : x.kind = "validate" => \E y \in calls : y.kind = "validate" /\ y.ad = x.ad
    BY <2>1 DEF Becomes
  <2> QED
    BY <2>1, <2>2, <2>3, <2>4 DEF ListInv
<1>4. ASSUME NEW c \in calls, CallAnswered(c) \/ CallFails(c) PROVE ListInv'
  <2>1. calls' \subseteq calls /\ UNCHANGED mine /\ raced \subseteq raced'
    BY <1>4, AnswerSteps, FailSteps
  <2> QED
    BY <2>1 DEF ListInv, UnderWay
<1> QED
  BY <1>1, <1>2, <1>3, <1>4, OfficeSteps

\* A step that asks to validate the ad no more, and leaves the list alone.
LEMMA OnceKept ==
  ASSUME NEW a \in Ads, Once(a), UNCHANGED validatedAds, pendingAds'[a] \in {Unset, pendingAds[a]},
         \A x \in calls' : x.kind = "validate" /\ x.ad = a => x \in calls,
         ToBeShown(a) => ToBeShown(a)'
  PROVE  Once(a)'
<1>1. ToBeShown(a)' => ToBeShown(a)
  BY DEF ToBeShown
<1>2. Places(a)' = Places(a)
  BY DEF Places
<1> QED
  BY <1>1, <1>2 DEF Once

\* Every step keeps that an ad validated here is in the list once, or will be.
LEMMA OnceStep ==
  ASSUME OfficeRows, OfficeCalls, FirstInv, UntouchedInv, ListInv, OnceInv, BackOfficeNext,
         NEW a \in mine' \ (decided' \union raced' \union relisted')
  PROVE  Once(a)'
<1>0. (\A c \in calls : CallShaped(c)) /\ Unset # "ok"
  BY BackOfficeAssumption DEF OfficeCalls
<1>1. CASE OthersAct
  <2>1. PICK b \in Ads : /\ UNCHANGED decided \/ decided' = Since(decided, b)
                         /\ relisted \subseteq relisted'
                         /\ UNCHANGED <<calls, mine, raced, pendingAds, validatedAds>>
    BY <1>1, OthersSteps DEF listVars
  <2>2. a \in Ads /\ Once(a)
    BY <2>1 DEF OnceInv, OfficeRows, Since
  <2> QED
    BY <2>1, <2>2, OnceKept DEF ToBeShown
<1>2. CASE Inputs
  <2>1. UNCHANGED <<pendingAds, validatedAds, mine, decided, relisted>>
        /\ (UNCHANGED <<calls, raced>> \/ \E n : Asks(n))
    BY <1>2, InputSteps DEF listVars, othersHistory
  <2>2. raced \subseteq raced'
    BY <2>1 DEF Asks
  <2>3. a \in Ads /\ Once(a)
    BY <2>1, <2>2 DEF OnceInv, OfficeRows
  <2>4. CASE UNCHANGED calls
    BY <2>1, <2>3, <2>4, OnceKept DEF ToBeShown
  <2>5. ASSUME NEW n, Asks(n) PROVE Once(a)'
    <3>1. /\ calls' = calls \union {n} /\ ~UnderWay(n.kind, n.ad)
          /\ n.kind = "validate" => pendingAds[n.ad] # Unset
      BY <2>5 DEF Asks, Joins
    <3>2. ~(n.kind = "validate" /\ n.ad = a)
      BY <2>3, <3>1 DEF Once, ToBeShown, UnderWay
    <3> QED
      BY <2>1, <2>3, <3>1, <3>2, OnceKept DEF ToBeShown
  <2> QED
    BY <2>1, <2>4, <2>5
<1>3. ASSUME NEW c \in calls, Serve(c) PROVE Once(a)'
  <2>1. PICK d : /\ Becomes(c, d) /\ (ReadBecomes(c, d) \/ DecisionBecomes(c, d) \/ ReplyBecomes(c, d))
                 /\ c.answer = Unset /\ UNCHANGED <<listVars, formVars, raced, corrected, relisted>>
    BY <1>3, ServeSteps
  <2>2. CallShaped(c) /\ UNCHANGED <<pendingAds, validatedAds>>
    BY <1>0, <2>1 DEF listVars
  <2>3. calls' = (calls \ {c}) \union {d} /\ d.kind = c.kind /\ d.ad = c.ad
    BY <2>1 DEF Becomes
  <2>4. CASE a \in mine
    <3>1. a \in Ads /\ Once(a)
      BY <2>1, <2>4 DEF OnceInv, OfficeRows, ReadBecomes, DecisionBecomes, ReplyBecomes
    <3>2. ~(c.kind = "validate" /\ c.ad = a)
      BY <1>0, <2>1, <3>1 DEF Once
    <3> QED
      BY <2>2, <2>3, <3>1, <3>2, OnceKept DEF ToBeShown
  <2>5. CASE a \notin mine
    <3>1. c.kind = "validate" /\ c.ad = a /\ d.answer = "ok" /\ UNCHANGED decided
      BY <2>1, <2>5 DEF ReadBecomes, DecisionBecomes, ReplyBecomes
    <3>2. a \in Ads /\ Untouched(a) /\ Claimed(a)
      BY <2>1, <2>2, <2>5, <3>1 DEF CallShaped, UntouchedInv, Claimed
    <3>3. ~Listed(a)
      BY <2>1, <3>2 DEF Untouched
    <3>4. Places(a)' = {}
      BY <2>2, <3>3 DEF Places, Listed, ToSet
    <3>5. \A x \in calls' : x.kind = "validate" /\ x.ad = a => x = d
      BY <2>3, <3>1 DEF OfficeCalls
    <3>6. ToBeShown(a)'
      BY <2>3, <3>1 DEF ToBeShown
    <3> QED
      BY <3>1, <3>4, <3>5, <3>6 DEF Once
  <2> QED
    BY <2>4, <2>5
<1>4. ASSUME NEW c \in calls, CallAnswered(c) PROVE Once(a)'
  <2>1. /\ c.answer # Unset /\ calls' = calls \ {c} /\ UNCHANGED <<mine, decided, relisted, raced>>
        /\ IF c.kind = "pending" THEN pendingAds' = c.answer
           ELSE \/ UNCHANGED pendingAds
                \/ c.kind \in {"validate", "reject"} /\ pendingAds' = [pendingAds EXCEPT ![c.ad] = Unset]
        /\ \/ c.kind = "list" /\ validatedAds' \in Seq(c.answer)
           \/ c.kind = "validate" /\ c.answer = "ok" /\ validatedAds' = Append(validatedAds, c.ad)
           \/ ~(c.kind = "validate" /\ c.answer = "ok") /\ UNCHANGED validatedAds
    BY <1>4, AnswerSteps DEF othersHistory
  <2>2. CallShaped(c) /\ a \in Ads /\ Once(a)
    BY <1>0, <2>1 DEF OnceInv, OfficeRows
  <2>3. c.kind \notin {"pending", "list"}
    BY <2>1, <2>2 DEF CallShaped, UnderWay, FirstInv, ListInv
  <2>4. pendingAds'[a] \in {Unset, pendingAds[a]}
    BY <2>1, <2>2, <2>3 DEF OfficeRows
  <2>5. CASE c.kind = "validate" /\ c.answer = "ok" /\ validatedAds' = Append(validatedAds, c.ad)
    <3>1. PICK b \in Ads : b = c.ad
      BY <2>2, <2>5 DEF CallShaped
    <3>2. /\ Places(a)' = IF a = b THEN Places(a) \union {Len(validatedAds) + 1} ELSE Places(a)
          /\ Len(validatedAds) + 1 \in DOMAIN validatedAds'
          /\ \A i \in DOMAIN validatedAds : i \in DOMAIN validatedAds'
      BY <2>2, <2>5, <3>1, PlacesAppend, AppendProperties, LenProperties DEF OfficeRows
    <3>3. CASE a = b
      <4>1. ToBeShown(a) /\ \A x \in calls' : ~(x.kind = "validate" /\ x.ad = a)
        BY <2>1, <2>5, <3>1, <3>3 DEF ToBeShown, OfficeCalls
      <4>2. ~ToBeShown(a)' /\ Places(a) = {}
        BY <2>2, <4>1 DEF ToBeShown, Once
      <4>3. pendingAds'[a] = Unset
        BY <1>4, <2>2, <2>5, <3>1, <3>3
           DEF CallAnswered, ListAnswered, DecisionAnswered, ThreadAnswered, RemoveFromPending, OfficeRows
      <4> QED
        BY <3>2, <3>3, <4>1, <4>2, <4>3 DEF Once
    <3>4. CASE a # b
      <4>1. ToBeShown(a)' <=> ToBeShown(a)
        BY <2>1, <3>1, <3>4 DEF ToBeShown
      <4> QED
        BY <2>1, <2>2, <2>4, <3>2, <3>4, <4>1 DEF Once
    <3> QED
      BY <3>3, <3>4
  <2>6. CASE ~(c.kind = "validate" /\ c.answer = "ok") /\ UNCHANGED validatedAds
    BY <2>1, <2>2, <2>4, <2>6, OnceKept DEF ToBeShown
  <2> QED
    BY <2>1, <2>3, <2>5, <2>6
<1>5. ASSUME NEW c \in calls, CallFails(c) PROVE Once(a)'
  <2>1. /\ calls' = calls \ {c} /\ UNCHANGED <<pendingAds, validatedAds, mine, decided, relisted>>
        /\ raced' = IF c.kind \in {"validate", "reply"} THEN raced \union {c.ad} ELSE raced
    BY <1>5, FailSteps DEF listVars, othersHistory
  <2>2. a \in Ads /\ Once(a) /\ ~(c.kind = "validate" /\ c.ad = a)
    BY <2>1 DEF OnceInv, OfficeRows
  <2> QED
    BY <2>1, <2>2, OnceKept DEF ToBeShown
<1> QED
  BY <1>1, <1>2, <1>3, <1>4, <1>5, OfficeSteps

-----------------------------------------------------------------------------
(* Every reply shows once                                                   *)

Replied(a) == \E c \in calls : c.kind = "reply" /\ c.ad = a /\ c.answer # Unset

Threaded(a) ==
  /\ ~(UnderWay("messages", a) /\ UnderWay("reply", a))
  /\ said[a] = IF Replied(a) THEN Append(Known(a), "reply") ELSE Known(a)
  /\ \A c \in calls : c.kind = "messages" /\ c.ad = a /\ c.answer # Unset => c.answer = said[a]

\* A step that leaves the threads alone, and ends calls at most.
LEMMA ThreadedKept ==
  ASSUME NEW a \in Ads, Threaded(a), UNCHANGED <<said[a], threads[a]>>, calls' \subseteq calls,
         Replied(a) => Replied(a)'
  PROVE  Threaded(a)'
<1>1. UNCHANGED Known(a) /\ (Replied(a)' <=> Replied(a))
  BY DEF Known, Replied
<1>2. ~(UnderWay("messages", a) /\ UnderWay("reply", a))'
  BY DEF Threaded, UnderWay
<1> QED
  BY <1>1, <1>2 DEF Threaded

\* Every step keeps that the page knows what the admin said, but for a reply to come.
LEMMA ThreadStep ==
  ASSUME OfficeRows, OfficeCalls, ThreadInv, BackOfficeNext
  PROVE  ThreadInv'
<1>0. (\A c \in calls : CallShaped(c)) /\ \A a \in Ads \ raced : Threaded(a)
  BY DEF OfficeCalls, ThreadInv, Threaded, Replied
<1> SUFFICES ASSUME NEW a \in Ads \ raced' PROVE Threaded(a)'
  BY DEF ThreadInv, Threaded, Replied
<1>1. CASE OthersAct
  <2>1. UNCHANGED <<said, threads, calls, raced>>
    BY <1>1, OthersSteps DEF formVars
  <2> QED
    BY <1>0, <2>1, ThreadedKept DEF Replied
<1>2. CASE Inputs
  <2>1. UNCHANGED <<said, threads>> /\ (UNCHANGED <<calls, raced>> \/ \E n : Asks(n))
    BY <1>2, InputSteps DEF adServerVars
  <2>2. CASE UNCHANGED <<calls, raced>>
    BY <1>0, <2>1, <2>2, ThreadedKept DEF Replied
  <2>3. ASSUME NEW n, Asks(n) PROVE Threaded(a)'
    <3>1. calls' = calls \union {n} /\ n.answer = Unset /\ raced \subseteq raced'
      BY <2>3 DEF Asks, Joins
    <3>2. Threaded(a) /\ UNCHANGED Known(a) /\ (Replied(a)' <=> Replied(a))
      BY <1>0, <2>1, <3>1 DEF Known, Replied
    <3>3. /\ n.kind = "messages" /\ n.ad = a => ~UnderWay("reply", a)
          /\ n.kind = "reply" /\ n.ad = a => ~UnderWay("messages", a)
      BY <2>3 DEF Asks
    <3>4. ~(UnderWay("messages", a) /\ UnderWay("reply", a))'
      BY <3>1, <3>2, <3>3 DEF UnderWay, Threaded
    <3> QED
      BY <2>1, <3>1, <3>2, <3>4 DEF Threaded
  <2> QED
    BY <2>1, <2>2, <2>3
<1>3. ASSUME NEW c \in calls, Serve(c) PROVE Threaded(a)'
  <2>1. PICK d : /\ Becomes(c, d) /\ (ReadBecomes(c, d) \/ DecisionBecomes(c, d) \/ ReplyBecomes(c, d))
                 /\ c.answer = Unset /\ UNCHANGED <<listVars, formVars, raced>>
    BY <1>3, ServeSteps
  <2>2. Threaded(a) /\ UNCHANGED Known(a)
    BY <1>0, <2>1 DEF formVars, Known
  <2>3. ~(UnderWay("messages", a) /\ UnderWay("reply", a))'
    BY <2>1, <2>2 DEF Becomes, UnderWay, Threaded
  <2>4. CASE ReplyBecomes(c, d) /\ c.ad = a
    <3>1. c.kind = "reply" /\ said'[a] = Append(said[a], "reply") /\ d.answer # Unset /\ d.kind = "reply" /\ d.ad = a
      BY <2>1, <2>4, BackOfficeAssumption DEF ReplyBecomes, Becomes, OfficeRows
    <3>2. ~Replied(a)
      BY <2>1, <2>4, <3>1 DEF Replied, OfficeCalls
    <3>3. Replied(a)'
      BY <2>1, <3>1 DEF Replied, Becomes
    <3>4. \A x \in calls' : ~(x.kind = "messages" /\ x.ad = a)
      <4>1. UnderWay("reply", a)
        BY <2>4, <3>1 DEF UnderWay
      <4>2. ~UnderWay("messages", a)
        BY <2>2, <4>1 DEF Threaded
      <4> QED
        BY <2>1, <3>1, <4>2 DEF UnderWay, Becomes
    <3> QED
      BY <2>2, <2>3, <3>1, <3>2, <3>3, <3>4 DEF Threaded
  <2>5. CASE ~(ReplyBecomes(c, d) /\ c.ad = a)
    <3>1. said'[a] = said[a]
      BY <2>1, <2>5 DEF ReadBecomes, DecisionBecomes, ReplyBecomes, adServerVars, OfficeRows
    <3>2. Replied(a)' <=> Replied(a)
      BY <2>1, <2>5 DEF Replied, Becomes, ReadBecomes, DecisionBecomes
    <3>3. d.kind = "messages" /\ d.ad = a => d.answer = said[a]
      BY <2>1 DEF Becomes, ReadBecomes, DecisionBecomes, ReplyBecomes
    <3>4. \A x \in calls' : x.kind = "messages" /\ x.ad = a /\ x.answer # Unset => x.answer = said'[a]
      BY <2>1, <2>2, <3>1, <3>3 DEF Threaded, Becomes
    <3> QED
      BY <2>2, <2>3, <3>1, <3>2, <3>4 DEF Threaded
  <2> QED
    BY <2>4, <2>5
<1>4. ASSUME NEW c \in calls, CallAnswered(c) PROVE Threaded(a)'
  <2>1. /\ c.answer # Unset /\ calls' = calls \ {c} /\ UNCHANGED <<said, raced>>
        /\ \/ c.kind = "messages" /\ threads' = [threads EXCEPT ![c.ad] = c.answer]
           \/ c.kind = "reply" /\ threads' = [threads EXCEPT ![c.ad] = Append(Known(c.ad), "reply")]
           \/ c.kind \notin {"messages", "reply"} /\ UNCHANGED threads
    BY <1>4, AnswerSteps DEF adServerVars
  <2>2. CallShaped(c) /\ Threaded(a) /\ DOMAIN threads = Ads
    BY <1>0, <2>1 DEF OfficeRows
  <2>3. CASE c.kind = "messages" /\ c.ad = a
    <3>1. threads'[a] = c.answer /\ c.answer = said[a]
      BY <2>1, <2>2, <2>3 DEF Threaded
    <3>2. Known(a)' = said[a]
      BY <2>1, <3>1 DEF Known
    <3>3. ~UnderWay("reply", a)
      BY <2>2, <2>3 DEF Threaded, UnderWay
    <3>4. ~Replied(a)' /\ ~UnderWay("reply", a)'
      BY <2>1, <3>3 DEF Replied, UnderWay
    <3> QED
      BY <2>1, <2>2, <3>2, <3>4 DEF Threaded
  <2>4. CASE c.kind = "reply" /\ c.ad = a
    <3>1. threads'[a] = Append(Known(a), "reply") /\ Replied(a)
      BY <2>1, <2>2, <2>4 DEF Replied
    <3>2. said[a] = Append(Known(a), "reply")
      BY <2>2, <3>1 DEF Threaded
    <3>3. said[a] # Unset
      BY BackOfficeAssumption DEF OfficeRows
    <3>4. Known(a)' = said[a]
      BY <3>1, <3>2, <3>3 DEF Known
    <3>5. ~Replied(a)' /\ ~UnderWay("reply", a)'
      BY <2>1, <2>4 DEF Replied, UnderWay, OfficeCalls
    <3> QED
      BY <2>1, <2>2, <3>4, <3>5 DEF Threaded
  <2>5. CASE ~(c.kind \in {"messages", "reply"} /\ c.ad = a)
    <3>1. threads'[a] = threads[a]
      BY <2>1, <2>2, <2>5
    <3>2. Replied(a) => Replied(a)'
      BY <2>1, <2>5 DEF Replied
    <3> QED
      BY <2>1, <2>2, <3>1, <3>2, ThreadedKept
  <2> QED
    BY <2>3, <2>4, <2>5
<1>5. ASSUME NEW c \in calls, CallFails(c) PROVE Threaded(a)'
  <2>1. /\ calls' = calls \ {c} /\ UNCHANGED <<said, threads>> /\ raced \subseteq raced'
        /\ ~(c.kind = "reply" /\ c.ad = a)
    BY <1>5, FailSteps DEF adServerVars, formVars
  <2>2. Threaded(a) /\ (Replied(a) => Replied(a)')
    BY <1>0, <2>1 DEF Replied
  <2> QED
    BY <2>1, <2>2, ThreadedKept
<1> QED
  BY <1>1, <1>2, <1>3, <1>4, <1>5, OfficeSteps

-----------------------------------------------------------------------------

\* What holds of the back office when it is opened, whatever statuses the ads have.
LEMMA OfficeStarts ==
  ASSUME OperationsInit
  PROVE  /\ status \in [Ads -> {"DRAFT", "REVIEW", "REJECTED", "VALIDATED"}] /\ DOMAIN content = Ads
         /\ said = [a \in Ads |-> <<>>]
         /\ pendingAds = [a \in Ads |-> Unset] /\ validatedAds = <<>>
         /\ rejectDraft = NoDraft /\ expanded = Unset /\ threads = [a \in Ads |-> Unset]
         /\ calls = {Call("pending", Unset, Unset), Call("list", Unset, Unset)}
         /\ decided = {} /\ mine = {} /\ raced = {}
<1>1. BackOfficeInit \/ BackOfficeStarts([a \in Ads |-> "DRAFT"])
  BY DEF OperationsInit
<1>2. [a \in Ads |-> "DRAFT"] \in [Ads -> {"DRAFT", "REVIEW", "VALIDATED", "REJECTED"}]
  OBVIOUS
<1>3. PICK statuses \in [Ads -> {"DRAFT", "REVIEW", "VALIDATED", "REJECTED"}] : BackOfficeStarts(statuses)
  BY <1>1, <1>2 DEF BackOfficeInit
<1> QED
  BY <1>3 DEF BackOfficeStarts

\* The back office satisfies its invariant when it is opened.
LEMMA OfficeInvInit ==
  ASSUME OperationsInit
  PROVE  OfficeInv
<1>1. /\ said = [a \in Ads |-> <<>>]
      /\ pendingAds = [a \in Ads |-> Unset] /\ validatedAds = <<>>
      /\ rejectDraft = NoDraft /\ expanded = Unset /\ threads = [a \in Ads |-> Unset]
      /\ calls = {Call("pending", Unset, Unset), Call("list", Unset, Unset)}
      /\ decided = {} /\ mine = {} /\ raced = {}
  BY OfficeStarts
<1>2. \A c \in calls : /\ c.kind \in {"pending", "list"} /\ c.ad = Unset /\ c.answer = Unset
                      /\ c = [kind |-> c.kind, ad |-> c.ad, arg |-> c.arg, answer |-> c.answer]
  BY <1>1 DEF Call
<1>3. OfficeRows
  <2>1. status \in [Ads -> {"DRAFT", "REVIEW", "REJECTED", "VALIDATED"}]
    BY OfficeStarts
  <2>2. DOMAIN content = Ads
    BY OfficeStarts
  <2> QED
    BY <1>1, <2>1, <2>2, EmptySeq DEF OfficeRows, NoDraft, DraftSet
<1>4. OfficeCalls
  <2>1. \A c, d \in calls : c.kind = d.kind => c = d
    BY <1>1 DEF Call
  <2> QED
    BY <1>2, <2>1 DEF OfficeCalls, CallShaped
<1>5. \A a \in Ads : Places(a) = {}
  <2>1. DOMAIN validatedAds = {}
    BY <1>1
  <2> QED
    BY <2>1 DEF Places
<1>6. UntouchedInv /\ FirstInv
  <2>1. \A a \in Ads : ~Claimed(a) /\ AsRead(a) /\ ~Listed(a) /\ NotYetValidated(a)
    <3>1. \A a \in Ads : pendingAds[a] = Unset
      <4> SUFFICES ASSUME NEW b \in Ads PROVE pendingAds[b] = Unset
        OBVIOUS
      <4>1. pendingAds = [a \in Ads |-> Unset]
        BY OfficeStarts
      <4> QED
        BY <4>1
    <3>2. ToSet(validatedAds) = {}
      BY <1>1 DEF ToSet
    <3>3. \A c \in calls : c.kind # "validate" /\ c.answer = Unset
      BY <1>2
    <3>4. ASSUME NEW b \in Ads PROVE ~Claimed(b) /\ AsRead(b) /\ ~Listed(b) /\ NotYetValidated(b)
      <4>1. ~Claimed(b)
        BY <3>1, <3>3, Zenon DEF Claimed
      <4>2. AsRead(b)
        BY <3>1, <3>3, Zenon DEF AsRead
      <4>3. ~Listed(b) /\ NotYetValidated(b)
        BY <3>2, <3>3, Zenon DEF Listed, NotYetValidated
      <4> QED
        BY <4>1, <4>2, <4>3
    <3> QED
      BY <3>4
  <2> QED
    BY <1>1, <1>2, <2>1 DEF UntouchedInv, Untouched, FirstInv
<1>7. ListInv /\ OnceInv
  BY <1>1, <1>2 DEF ListInv, OnceInv
<1>8. ThreadInv
  <2>1. \A a \in Ads : said[a] = <<>> /\ threads[a] = Unset
    <3> SUFFICES ASSUME NEW b \in Ads PROVE said[b] = <<>> /\ threads[b] = Unset
      OBVIOUS
    <3>1. said = [a \in Ads |-> <<>>] /\ threads = [a \in Ads |-> Unset]
      BY OfficeStarts
    <3> QED
      BY <3>1
  <2>2. \A c \in calls : c.kind \notin {"messages", "reply"}
    BY <1>2
  <2>3. ASSUME NEW b \in Ads PROVE ~UnderWay("messages", b) /\ ~UnderWay("reply", b) /\ Known(b) = <<>>
    BY <2>1, <2>2, Zenon DEF UnderWay, Known
  <2> QED
    BY <2>1, <2>2, <2>3, Zenon DEF ThreadInv
<1> QED
  BY <1>3, <1>4, <1>6, <1>7, <1>8 DEF OfficeInv

\* The invariant of the back office is inductive, and the other parts leave it alone.
LEMMA OfficeInvStep ==
  ASSUME OfficeInv, [OperationsNext]_operationsVars
  PROVE  OfficeInv'
<1>1. CASE BackOfficeNext
  <2>1. OfficeRows' /\ OfficeCalls' /\ FirstInv' /\ ListInv' /\ ThreadInv'
    BY <1>1, OfficeTypesStep, FirstStep, ListStep, ThreadStep DEF OfficeInv
  <2>2. UntouchedInv'
    BY <1>1, UntouchedStep DEF OfficeInv, UntouchedInv
  <2>3. OnceInv'
    BY <1>1, OnceStep DEF OfficeInv, OnceInv
  <2> QED
    BY <2>1, <2>2, <2>3 DEF OfficeInv
<1>2. CASE UNCHANGED backOfficeVars
  <2>1. /\ UNCHANGED <<status, content, said, pendingAds, validatedAds, rejectDraft, expanded, threads>>
        /\ UNCHANGED <<calls, mine, raced, decided, corrected, relisted>>
    BY <1>2 DEF backOfficeVars, adServerVars, lifecycleVars, listVars, formVars, officeHistory,
            othersHistory
  <2>2. OfficeRows' /\ OfficeCalls'
    BY <2>1 DEF OfficeInv, OfficeRows, OfficeCalls, CallShaped
  <2>3. UntouchedInv' /\ FirstInv'
    BY <2>1 DEF OfficeInv, UntouchedInv, FirstInv, Untouched, Claimed, AsRead, NotYetValidated, Listed,
                PendingUnread, UnderWay
  <2>5. ListInv' /\ OnceInv'
    BY <2>1 DEF OfficeInv, ListInv, OnceInv, Once, Places, UnderWay, ToBeShown
  <2>4. ThreadInv'
    BY <2>1 DEF OfficeInv, ThreadInv, UnderWay, Known
  <2> QED
    BY <2>2, <2>3, <2>4, <2>5 DEF OfficeInv
<1> QED
  BY <1>1, <1>2 DEF OperationsNext, operationsVars

\* So it holds throughout.
LEMMA OfficeInvariant == OperationsSpec => []OfficeInv
<1> QED
  BY OfficeInvInit, OfficeInvStep, PTL DEF OperationsSpec

\* What the admin did on the page shows on it once, unless calls raced or an
\* answer was lost.
THEOREM OwnStepsCorrect == OperationsSpec => []OwnStepsShowOnce
<1>1. OfficeInv => ValidatedOnce
  <2> SUFFICES ASSUME OfficeInv, NEW a \in mine \ (raced \union decided \union relisted), ~UnderWay("validate", a)
               PROVE  Cardinality(Places(a)) = 1
    BY DEF ValidatedOnce, Places
  <2>1. ~ToBeShown(a) /\ Once(a)
    BY DEF ToBeShown, UnderWay, OfficeInv, OnceInv
  <2>2. \E i \in DOMAIN validatedAds : Places(a) = {i}
    BY <2>1 DEF Once
  <2> QED
    BY <2>2, FS_Singleton
<1>2. OfficeInv => RepliesShowOnce
  BY DEF OfficeInv, ThreadInv, RepliesShowOnce, Known, UnderWay
<1> QED
  BY <1>1, <1>2, OfficeInvariant, PTL DEF OwnStepsShowOnce

\* What is validated from the page is the content the page shows, unless since it
\* was read the ad was decided on elsewhere or corrected by another admin.
THEOREM ValidationsCorrect == OperationsSpec => ValidatedAsSeen
<1> DEFINE Seen == \A c \in calls :
                     c.kind = "validate" /\ c.ad \in mine' \ (mine \union decided \union corrected)
                       => content[c.ad] = c.arg
<1>1. OfficeInv /\ [OperationsNext]_operationsVars => [Seen]_backOfficeVars
  <2> SUFFICES ASSUME OfficeInv, NEW c \in calls, c.kind = "validate",
                      c.ad \notin mine \union decided \union corrected
               PROVE  content[c.ad] = c.arg
    OBVIOUS
  <2>1. c.ad \in Ads
    BY DEF OfficeInv, OfficeCalls, CallShaped
  <2>2. AsRead(c.ad)
    BY <2>1 DEF OfficeInv, UntouchedInv, Untouched
  <2> QED
    BY <2>2 DEF AsRead
<1> QED
  BY <1>1, OfficeInvariant, PTL DEF OperationsSpec, ValidatedAsSeen

-----------------------------------------------------------------------------
(* The vehicle catalog: types                                               *)

StageSet == [names : SUBSET Names, match : {"ilike", "exact", "none"},
             missing : {"create", "skip"}, found : {"keep", "stop", "refresh"},
             figures : {"none", "wikidata", "curated"}]

\* A name is compared to the rows by its word only on its own, and figures are
\* replaced only by the curated ones.
StageOK(t) ==
  /\ t.names # {}
  /\ t.match = "ilike" => \E n \in Names : t.names = {n}
  /\ t.found = "refresh" => t.figures = "curated"

Stages == {t \in StageSet : StageOK(t)}

JobSet == [at : Seq(Names), stages : Seq(Stages), lacks : SUBSET Names, beaten : BOOLEAN]

\* The names a writer is about to insert are those of its stage that have no row.
JobOK(j) ==
  /\ j.at = <<>> \/ j.at \in Rows
  /\ j.lacks # {} =>
       /\ j.stages # <<>> /\ j.lacks \subseteq Head(j.stages).names
       /\ \A n \in Head(j.stages).names \ j.lacks : Found(j.at, Head(j.stages).match, n) # {}

RowsInv ==
  /\ Rows \subseteq Seq(Names)
  /\ \A p \in Rows : \A l \in 1 .. Len(p) : SubSeq(p, 1, l) \in Rows
  /\ job \in [Writers -> JobSet]
  /\ \A w \in Writers : JobOK(job[w])

-----------------------------------------------------------------------------
(* The vehicle catalog: the inductive invariants                            *)

\* A writer that looked at the words there is about to write none of them,
\* unless another writer was faster.
Unrivalled(j) ==
  j.lacks # {} /\ Head(j.stages).match = "ilike" /\ ~j.beaten
    => \A p \in Rows, q \in NewRows(j) : ~Twins(p, q)

TwinInv == TwinsComeFromRaces /\ \A w \in Writers : Unrivalled(job[w])

\* Where script s is in the stages all of its entry: at a row they lead to, with
\* the others to come, or, after a Wikidata trim that was there, with none.
OnItsWay(s, j, all) ==
  /\ Len(j.at) <= Len(all) /\ Follows(j.at, all)
  /\ \/ j.stages = SubSeq(all, Len(j.at) + 1, Len(all))
     \/ s = "seed:catalog" /\ Len(j.at) = 3 /\ j.stages = <<>>
  /\ Len(j.at) >= Depth(s) => Filled(s, all)

FillInv ==
  /\ done \subseteq Scripts /\ clean \in [Scripts -> BOOLEAN] /\ DOMAIN entry = Scripts
  /\ \A s \in Scripts :
       /\ entry[s] \in 0 .. Len(Entries[s])
       /\ entry[s] = 0 => job[s].stages = <<>> /\ job[s].lacks = {}
       /\ entry[s] > 0 => OnItsWay(s, job[s], StagesOf(s, Entries[s][entry[s]]))
       /\ entry[s] > 0 /\ clean[s] =>
            \A i \in DOMAIN Entries[s] : i < entry[s] => Filled(s, StagesOf(s, Entries[s][i]))
  /\ SeedsFillGaps

\* A script that ran cleanly before lacks a name only below a row with a twin.
Beside(p) == \E l \in 1 .. Len(p) : \E r \in Rows : Twins(SubSeq(p, 1, l), r)

AgainInv ==
  \A s \in done :
    /\ entry[s] > 0 /\ job[s].lacks # {} => Beside(job[s].at)
    /\ entry[s] > 0 /\ job[s].stages # <<>> /\ Len(job[s].at) >= Depth(s) => Beside(job[s].at)

CatalogInv == RowsInv /\ TwinInv /\ FillInv /\ AgainInv

-----------------------------------------------------------------------------
(* The vehicle catalog: paths, lookups and stages                           *)

\* What Append adds and Front and Last take away again.
LEMMA AppendFacts ==
  ASSUME NEW S, NEW s \in Seq(S), NEW x \in S
  PROVE  /\ Append(s, x) \in Seq(S) /\ Len(Append(s, x)) = Len(s) + 1 /\ Len(s) \in Nat
         /\ \A i \in 1 .. Len(s) : Append(s, x)[i] = s[i]
         /\ Append(s, x)[Len(s) + 1] = x
         /\ Front(Append(s, x)) = s /\ Last(Append(s, x)) = x
<1>1. /\ Append(s, x) \in Seq(S) /\ Len(Append(s, x)) = Len(s) + 1 /\ Len(s) \in Nat
      /\ \A i \in 1 .. Len(s) : Append(s, x)[i] = s[i]
      /\ Append(s, x)[Len(s) + 1] = x
  BY AppendProperties, LenProperties
<1>2. Front(Append(s, x)) = s
  <2> DEFINE f == SubSeq(Append(s, x), 1, Len(s))
  <2>1. f \in Seq(S) /\ Len(f) = Len(s) /\ \A i \in 1 .. Len(s) : f[i] = s[i]
    BY <1>1, SubSeqProperties
  <2>2. f = s
    BY <2>1, SeqEqual
  <2> QED
    BY <1>1, <2>2 DEF Front
<1> QED
  BY <1>1, <1>2 DEF Last

\* A path is its parent and its name.
LEMMA PathParts ==
  ASSUME NEW S, NEW p \in Seq(S), p # <<>>
  PROVE  Front(p) \in Seq(S) /\ Last(p) \in S /\ p = Append(Front(p), Last(p)) /\ Len(Front(p)) + 1 = Len(p)
<1>1. Len(p) \in Nat \ {0}
  BY LenProperties, EmptySeq
<1>2. Front(p) \in Seq(S) /\ Len(Front(p)) = Len(p) - 1 /\ \A i \in 1 .. Len(p) - 1 : Front(p)[i] = p[i]
  <2> DEFINE n == Len(p) - 1
  <2>1. n \in Nat /\ n - 1 + 1 = n /\ \A i \in 1 .. n : 1 + i - 1 = i
    BY <1>1
  <2>2. \A i \in 1 .. n : p[i] \in S
    BY <1>1, ElementOfSeq
  <2> HIDE DEF n
  <2>3. SubSeq(p, 1, n) \in Seq(S) /\ Len(SubSeq(p, 1, n)) = (IF 1 <= n THEN n - 1 + 1 ELSE 0)
        /\ \A i \in 1 .. n - 1 + 1 : SubSeq(p, 1, n)[i] = p[1 + i - 1]
    BY <2>1, <2>2, SubSeqProperties
  <2>4. Len(SubSeq(p, 1, n)) = n /\ \A i \in 1 .. n : SubSeq(p, 1, n)[i] = p[i]
    BY <2>1, <2>3
  <2> QED
    BY <2>3, <2>4 DEF Front, n
<1>3. Last(p) \in S
  BY <1>1, ElementOfSeq DEF Last
<1>4. /\ Append(Front(p), Last(p)) \in Seq(S) /\ Len(Append(Front(p), Last(p))) = Len(p)
      /\ \A i \in 1 .. Len(p) - 1 : Append(Front(p), Last(p))[i] = p[i]
      /\ Append(Front(p), Last(p))[Len(p)] = p[Len(p)]
  BY <1>1, <1>2, <1>3, AppendProperties DEF Last
<1>5. Append(Front(p), Last(p)) = p
  BY <1>1, <1>4, SeqEqual
<1> QED
  BY <1>1, <1>2, <1>3, <1>5

Matches(match, x, n) ==
  \/ match = "ilike" /\ SameName(x, n)
  \/ match = "exact" /\ x = n

\* A lookup finds the rows one name further that match.
LEMMA FoundIs ==
  ASSUME Rows \subseteq Seq(Names), NEW at \in Seq(Names), NEW match, NEW n,
         NEW p \in Found(at, match, n)
  PROVE  p \in Rows /\ \E x \in Names : p = Append(at, x) /\ Matches(match, x, n)
<1>1. p \in Rows /\ p \in Seq(Names) /\ Len(p) = Len(at) + 1 /\ Front(p) = at /\ Matches(match, Last(p), n)
  BY DEF Found, Matches
<1>2. p # <<>>
  BY <1>1, LenProperties, EmptySeq
<1> QED
  BY <1>1, <1>2, PathParts

\* A row below a place, of a name that matches, is found there.
LEMMA FoundHas ==
  ASSUME NEW at \in Seq(Names), NEW match, NEW n, NEW x \in Names,
         Append(at, x) \in Rows, Matches(match, x, n)
  PROVE  Append(at, x) \in Found(at, match, n)
  BY AppendFacts DEF Found, Matches

\* The twins of a row have its parent and spell its word.
LEMMA TwinsOf ==
  ASSUME NEW at \in Seq(Names), NEW x \in Names, NEW p \in Seq(Names), Twins(p, Append(at, x))
  PROVE  \E y \in Names : p = Append(at, y) /\ y # x /\ SameName(y, x)
<1>1. Len(p) = Len(at) + 1 /\ Front(p) = at /\ SameName(Last(p), x) /\ p # Append(at, x) /\ Len(at) \in Nat
  BY AppendFacts DEF Twins
<1>2. p # <<>>
  BY <1>1, EmptySeq
<1> QED
  BY <1>1, <1>2, PathParts

\* Two writers about to insert twins are at the same parent.
LEMMA TwinsShareParent ==
  ASSUME NEW at \in Seq(Names), NEW x \in Names, NEW b \in Seq(Names), NEW y \in Names,
         Twins(Append(at, x), Append(b, y))
  PROVE  at = b
  BY AppendFacts DEF Twins

\* What the stages of a script's entry are.
ScriptStages(s, all) ==
  /\ all \in Seq(Stages) /\ Len(all) \in {3, 4} /\ Len(all) >= Depth(s)
  /\ \A k \in 1 .. Depth(s) - 1 : all[k].match \in {"ilike", "exact"} /\ \E n \in Names : all[k].names = {n}
  /\ all[Depth(s)].match = "exact"
  /\ s = "seed:powertrains" =>
       all[4].figures = "curated" /\ all[4].found = "refresh" /\ \E n \in Names : all[4].names = {n}
  /\ IF s = "seed:catalog" THEN all[3].found = "stop" ELSE Len(all) = Depth(s)
  /\ \A k \in 1 .. Len(all) : all[k].found = "stop" => s = "seed:catalog" /\ k = 3

\* A stage made of typed parts is one of the stages a proof speaks of.
LEMMA StageIsStage ==
  ASSUME NEW names \in SUBSET Names, names # {}, NEW match \in {"ilike", "exact", "none"},
         NEW missing \in {"create", "skip"}, NEW found \in {"keep", "stop", "refresh"},
         NEW figures \in {"none", "wikidata", "curated"},
         match = "ilike" => \E n \in Names : names = {n},
         found = "refresh" => figures = "curated"
  PROVE  Stage(names, match, missing, found, figures) \in Stages
  BY DEF Stage, Stages, StageSet, StageOK

\* The stages of an entry are those its script walks through.
LEMMA StagesTyped ==
  ASSUME NEW s \in Scripts, NEW e \in Entry(s)
  PROVE  ScriptStages(s, StagesOf(s, e))
<1>1. CASE s = "seed:catalog"
  <2> DEFINE a == Stage({e.make}, "exact", "create", "keep", "none")
             b == Stage({e.model}, "exact", "create", "keep", "none")
             c == Stage({"Standard"}, "exact", "create", "stop", "none")
             d == Stage({e.fuel}, "none", "create", "keep", "wikidata")
  <2>1. e.make \in Names /\ e.model \in Names /\ e.fuel \in Names /\ "Standard" \in Names
    BY <1>1, SeedsAssumption DEF Entry
  <2>2. a \in Stages /\ b \in Stages /\ c \in Stages /\ d \in Stages
    BY <2>1, StageIsStage
  <2>3. /\ a.match = "exact" /\ a.names = {e.make} /\ a.found = "keep"
        /\ b.match = "exact" /\ b.names = {e.model} /\ b.found = "keep"
        /\ c.match = "exact" /\ c.found = "stop" /\ d.found = "keep"
    BY DEF Stage
  <2>4. StagesOf(s, e) = <<a, b, c, d>>
    BY <1>1 DEF StagesOf, WikidataRow
  <2>5. Depth(s) = 3
    BY <1>1 DEF Depth
  <2> HIDE DEF a, b, c, d
  <2> DEFINE all == <<a, b, c, d>>
  <2>6. all \in Seq(Stages) /\ Len(all) = 4 /\ all[1] = a /\ all[2] = b /\ all[3] = c /\ all[4] = d
    BY <2>2
  <2>9. StagesOf(s, e) = all
    BY <2>4
  <2> HIDE DEF all
  <2>7. \A i \in 1 .. Depth(s) - 1 : i = 1 \/ i = 2
    BY <2>5
  <2>8. \A i \in 1 .. 4 : i = 1 \/ i = 2 \/ i = 3 \/ i = 4
    OBVIOUS
  <2>10. \A i \in 1 .. Depth(s) - 1 : all[i].match \in {"ilike", "exact"} /\ \E n \in Names : all[i].names = {n}
    BY <2>1, <2>3, <2>6, <2>7
  <2>11. \A i \in 1 .. Len(all) : all[i].found = "stop" => i = 3
    BY <2>3, <2>6, <2>8
  <2>12. s # "seed:powertrains" /\ Len(all) >= Depth(s) /\ all[Depth(s)].match = "exact" /\ all[3].found = "stop"
    BY <1>1, <2>3, <2>5, <2>6
  <2> QED
    <3>1. ScriptStages(s, all)
      BY <1>1, <2>5, <2>6, <2>10, <2>11, <2>12 DEF ScriptStages
    <3> QED
      BY <2>9, <3>1
<1>2. CASE s = "seed:vehicle-catalog"
  <2> DEFINE a == Stage({e.make}, "exact", "create", "keep", "none")
             b == Stage({e.model}, "exact", "create", "keep", "none")
             c == Stage(e.trims, "exact", "create", "keep", "none")
  <2>1. e.make \in Names /\ e.model \in Names /\ e.trims \in SUBSET Names /\ e.trims # {}
    BY <1>2 DEF Entry
  <2>2. a \in Stages /\ b \in Stages /\ c \in Stages
    BY <2>1, StageIsStage
  <2>3. /\ a.match = "exact" /\ a.names = {e.make} /\ a.found = "keep"
        /\ b.match = "exact" /\ b.names = {e.model} /\ b.found = "keep"
        /\ c.match = "exact" /\ c.found = "keep"
    BY DEF Stage
  <2>4. StagesOf(s, e) = <<a, b, c>>
    BY <1>2 DEF StagesOf, BundledModel
  <2>5. Depth(s) = 3
    BY <1>2 DEF Depth
  <2> HIDE DEF a, b, c
  <2> DEFINE all == <<a, b, c>>
  <2>6. all \in Seq(Stages) /\ Len(all) = 3 /\ all[1] = a /\ all[2] = b /\ all[3] = c
    BY <2>2
  <2>9. StagesOf(s, e) = all
    BY <2>4
  <2> HIDE DEF all
  <2>7. \A i \in 1 .. Depth(s) - 1 : i = 1 \/ i = 2
    BY <2>5
  <2>8. \A i \in 1 .. 3 : i = 1 \/ i = 2 \/ i = 3
    OBVIOUS
  <2>10. \A i \in 1 .. Depth(s) - 1 : all[i].match \in {"ilike", "exact"} /\ \E n \in Names : all[i].names = {n}
    BY <2>1, <2>3, <2>6, <2>7
  <2>11. \A i \in 1 .. Len(all) : all[i].found # "stop"
    BY <2>3, <2>6, <2>8
  <2>12. s # "seed:catalog" /\ Len(all) = Depth(s) /\ all[Depth(s)].match = "exact"
    BY <1>2, <2>3, <2>5, <2>6
  <2>13. s # "seed:powertrains"
    BY <1>2, <2>3, <2>6
  <2> QED
    <3>1. ScriptStages(s, all)
      BY <2>5, <2>6, <2>10, <2>11, <2>12, <2>13 DEF ScriptStages
    <3> QED
      BY <2>9, <3>1
<1>3. CASE s = "seed:powertrains"
  <2> DEFINE a == Stage({e.make}, "ilike", "skip", "keep", "none")
             b == Stage({e.model}, "ilike", "skip", "keep", "none")
             c == Stage({e.trim}, "ilike", "create", "keep", "none")
             d == Stage({e.fuel}, "exact", "create", "refresh", "curated")
  <2>1. e.make \in Names /\ e.model \in Names /\ e.trim \in Names /\ e.fuel \in Names
    BY <1>3 DEF Entry
  <2>2. a \in Stages /\ b \in Stages /\ c \in Stages /\ d \in Stages
    BY <2>1, StageIsStage
  <2>3. /\ a.match = "ilike" /\ a.names = {e.make} /\ a.found = "keep"
        /\ b.match = "ilike" /\ b.names = {e.model} /\ b.found = "keep"
        /\ c.match = "ilike" /\ c.names = {e.trim} /\ c.found = "keep"
        /\ d.match = "exact" /\ d.found = "refresh" /\ d.figures = "curated" /\ d.names = {e.fuel}
    BY DEF Stage
  <2>4. StagesOf(s, e) = <<a, b, c, d>>
    BY <1>3 DEF StagesOf, CuratedTrim, CuratedEngine
  <2>5. Depth(s) = 4
    BY <1>3 DEF Depth
  <2> HIDE DEF a, b, c, d
  <2> DEFINE all == <<a, b, c, d>>
  <2>6. all \in Seq(Stages) /\ Len(all) = 4 /\ all[1] = a /\ all[2] = b /\ all[3] = c /\ all[4] = d
    BY <2>2
  <2>9. StagesOf(s, e) = all
    BY <2>4
  <2> HIDE DEF all
  <2>7. \A i \in 1 .. Depth(s) - 1 : i = 1 \/ i = 2 \/ i = 3
    BY <2>5
  <2>8. \A i \in 1 .. 4 : i = 1 \/ i = 2 \/ i = 3 \/ i = 4
    OBVIOUS
  <2>10. \A i \in 1 .. Depth(s) - 1 : all[i].match \in {"ilike", "exact"} /\ \E n \in Names : all[i].names = {n}
    BY <2>1, <2>3, <2>6, <2>7
  <2>11. \A i \in 1 .. Len(all) : all[i].found # "stop"
    BY <2>3, <2>6, <2>8
  <2>12. s # "seed:catalog" /\ Len(all) = Depth(s) /\ all[Depth(s)].match = "exact"
    BY <1>3, <2>3, <2>5, <2>6
  <2>13. all[4].figures = "curated" /\ all[4].found = "refresh" /\ \E n \in Names : all[4].names = {n}
    BY <2>1, <2>3, <2>6
  <2> QED
    <3>1. ScriptStages(s, all)
      BY <2>5, <2>6, <2>10, <2>11, <2>12, <2>13 DEF ScriptStages
    <3> QED
      BY <2>9, <3>1
<1> QED
  BY <1>1, <1>2, <1>3, SeedsAssumption

-----------------------------------------------------------------------------
(* The vehicle catalog: steps                                               *)

\* Writer w starts on something else, at a row or at none.
Begins(w, j) ==
  /\ j \in JobSet /\ j.lacks = {} /\ (j.at = <<>> \/ j.at \in Rows)
  /\ Advance(w, j) /\ UNCHANGED <<catalog, careless>>

\* Writer w goes on from row p, which it found for name n.
GoesOnFrom(w, n, p, j) ==
  /\ job[w].stages # <<>> /\ job[w].lacks = {}
  /\ \A m \in Head(job[w].stages).names : Found(job[w].at, Head(job[w].stages).match, m) # {}
  /\ n \in Head(job[w].stages).names /\ p \in Found(job[w].at, Head(job[w].stages).match, n)
  /\ j \in JobSet /\ j.at = p /\ j.lacks = {}
  /\ j.stages = IF Head(job[w].stages).found = "stop" THEN <<>> ELSE Tail(job[w].stages)
  /\ Advance(w, j) /\ careless' = careless
  /\ catalog' = IF Head(job[w].stages).found = "refresh"
                THEN [catalog EXCEPT ![p] = Head(job[w].stages).figures] ELSE catalog

\* Writer w is about to insert the names that it found missing.
WillInsert(w, j) ==
  /\ job[w].stages # <<>> /\ job[w].lacks = {} /\ Lacking(job[w]) # {}
  /\ j \in JobSet /\ j.at = job[w].at /\ j.stages = job[w].stages
  /\ j.lacks = Lacking(job[w])
  /\ Advance(w, j) /\ UNCHANGED <<catalog, careless>>

\* Writer w inserts them, and goes on from row p.
HasInserted(w, p) ==
  /\ job[w].lacks # {} /\ p \in NewRows(job[w]) /\ NewRows(job[w]) \cap Rows = {}
  /\ NewRows(job[w]) \subseteq Seq(Names)
  /\ Rows' = Rows \union NewRows(job[w])
  /\ \A q \in Rows : catalog'[q] = catalog[q]
  /\ \A q \in NewRows(job[w]) : catalog'[q] = Head(job[w].stages).figures
  /\ careless' = careless \union CarelesslyBy(job[w])
  /\ job' \in [Writers -> JobSet]
  /\ job'[w].at = p /\ job'[w].stages = Tail(job[w].stages) /\ job'[w].lacks = {}
  /\ \A v \in Writers \ {w} :
       /\ job'[v].at = job[v].at /\ job'[v].stages = job[v].stages /\ job'[v].lacks = job[v].lacks
       /\ job'[v].beaten = (job[v].beaten \/ Beats(NewRows(job[w]), job[v]))

\* A writer that finds its row goes on from it.
LEMMA FindsRowSteps ==
  ASSUME RowsInv, NEW w \in Writers, FindsRow(w)
  PROVE  \E n, p, j : GoesOnFrom(w, n, p, j)
<1> DEFINE s == Head(job[w].stages)
<1>1. /\ job[w] \in JobSet /\ job[w].stages # <<>> /\ job[w].lacks = {} /\ job[w].stages \in Seq(Stages)
      /\ job[w].at \in Seq(Names)
  BY DEF RowsInv, FindsRow, JobSet
<1>2. Tail(job[w].stages) \in Seq(Stages)
  BY <1>1, HeadTailProperties
<1>3. PICK n \in s.names : \E q \in Found(job[w].at, s.match, n) :
        /\ Advance(w, IF s.found = "stop" THEN Job(q, <<>>) ELSE Reached(job[w], q))
        /\ catalog' = IF s.found = "refresh" THEN [catalog EXCEPT ![q] = s.figures] ELSE catalog
  BY DEF FindsRow
<1>4. PICK p \in Found(job[w].at, s.match, n) :
        /\ Advance(w, IF s.found = "stop" THEN Job(p, <<>>) ELSE Reached(job[w], p))
        /\ catalog' = IF s.found = "refresh" THEN [catalog EXCEPT ![p] = s.figures] ELSE catalog
  BY <1>3
<1>5. p \in Seq(Names) /\ <<>> \in Seq(Stages)
  BY EmptySeq DEF Found, RowsInv
<1>6. PICK j : j = IF s.found = "stop" THEN Job(p, <<>>) ELSE Reached(job[w], p)
  OBVIOUS
<1>7. /\ j \in JobSet /\ j.at = p /\ j.lacks = {}
      /\ j.stages = IF s.found = "stop" THEN <<>> ELSE Tail(job[w].stages)
  <2>1. CASE s.found = "stop"
    BY <1>5, <1>6, <2>1 DEF Job, JobSet
  <2>2. CASE s.found # "stop"
    <3>1. j = [at |-> p, stages |-> Tail(job[w].stages), lacks |-> {}, beaten |-> FALSE]
      BY <1>1, <1>6, <2>2 DEF Reached, JobSet
    <3> QED
      BY <1>2, <1>5, <2>2, <3>1 DEF JobSet
  <2> QED
    BY <2>1, <2>2
<1>8. Advance(w, j) /\ careless' = careless
  BY <1>4, <1>6 DEF FindsRow
<1>9. \A m \in s.names : Found(job[w].at, s.match, m) # {}
  BY DEF FindsRow
<1>10. GoesOnFrom(w, n, p, j)
  BY <1>1, <1>3, <1>4, <1>7, <1>8, <1>9 DEF GoesOnFrom
<1> QED
  BY <1>10

\* A writer that does not find all it looks for turns to inserting what is lacking.
LEMMA FindsNothingSteps ==
  ASSUME RowsInv, NEW w \in Writers, FindsNothing(w)
  PROVE  \E j : WillInsert(w, j)
<1>1. /\ job[w] \in JobSet /\ job[w].stages # <<>> /\ job[w].lacks = {} /\ Lacking(job[w]) # {}
      /\ job[w].stages \in Seq(Stages)
  BY DEF RowsInv, FindsNothing, JobSet
<1>2. Lacking(job[w]) \in SUBSET Names
  <2>1. Head(job[w].stages) \in Stages
    BY <1>1, HeadTailProperties
  <2> QED
    BY <2>1 DEF Lacking, Stages, StageSet
<1>3. PICK j : j = [job[w] EXCEPT !.lacks = Lacking(job[w])]
  OBVIOUS
<1>4. j \in JobSet /\ j.at = job[w].at /\ j.stages = job[w].stages /\ j.lacks = Lacking(job[w])
  BY <1>1, <1>2, <1>3 DEF JobSet
<1>5. Advance(w, j) /\ UNCHANGED <<catalog, careless>>
  BY <1>3 DEF FindsNothing
<1> QED
  BY <1>1, <1>4, <1>5 DEF WillInsert

\* A writer that inserts goes on from the row it made.
LEMMA InsertsSteps ==
  ASSUME RowsInv, NEW w \in Writers, Inserts(w)
  PROVE  \E p : HasInserted(w, p)
<1>1. /\ job \in [Writers -> JobSet] /\ job[w] \in JobSet /\ job[w].lacks # {}
      /\ NewRows(job[w]) \cap Rows = {} /\ job[w].stages # <<>>
  BY DEF RowsInv, Inserts, JobOK
<1>2. job[w].at \in Seq(Names) /\ job[w].lacks \subseteq Names /\ job[w].stages \in Seq(Stages)
  BY <1>1 DEF JobSet
<1>3. NewRows(job[w]) \subseteq Seq(Names)
  <2>1. ASSUME NEW n \in job[w].lacks PROVE Append(job[w].at, n) \in Seq(Names)
    <3>1. n \in Names
      BY <1>2
    <3> QED
      BY <1>2, <3>1, AppendProperties
  <2> QED
    BY <2>1 DEF NewRows
<1>4. /\ Rows' = Rows \union NewRows(job[w])
      /\ \A q \in Rows : catalog'[q] = catalog[q]
      /\ \A q \in NewRows(job[w]) : catalog'[q] = Head(job[w].stages).figures
  BY <1>1 DEF Inserts, Rows
<1>5. careless' = careless \union CarelesslyBy(job[w])
  BY DEF Inserts
<1>6. PICK p \in NewRows(job[w]) :
        job' = [v \in Writers |-> IF v = w THEN Reached(job[w], p)
                ELSE [job[v] EXCEPT !.beaten = @ \/ Beats(NewRows(job[w]), job[v])]]
  BY DEF Inserts
<1>7. PICK j : j = Reached(job[w], p)
  OBVIOUS
<1>8. j \in JobSet /\ j.at = p /\ j.stages = Tail(job[w].stages) /\ j.lacks = {}
  <2>1. j = [at |-> p, stages |-> Tail(job[w].stages), lacks |-> {}, beaten |-> FALSE]
    BY <1>1, <1>7 DEF Reached, JobSet
  <2>2. Tail(job[w].stages) \in Seq(Stages) /\ p \in Seq(Names)
    BY <1>1, <1>2, <1>3, HeadTailProperties
  <2> QED
    BY <2>1, <2>2 DEF JobSet
<1>9. job'[w] = j
  BY <1>6, <1>7
<1>10. ASSUME NEW v \in Writers \ {w}
       PROVE  /\ job'[v] \in JobSet
              /\ job'[v].at = job[v].at /\ job'[v].stages = job[v].stages /\ job'[v].lacks = job[v].lacks
              /\ job'[v].beaten = (job[v].beaten \/ Beats(NewRows(job[w]), job[v]))
  <2>1. PICK b \in BOOLEAN : b = (job[v].beaten \/ Beats(NewRows(job[w]), job[v]))
    OBVIOUS
  <2>2. job'[v] = [job[v] EXCEPT !.beaten = b]
    BY <1>6, <2>1, Zenon
  <2>3. job[v] \in JobSet
    BY <1>1
  <2>4. /\ job'[v] \in JobSet /\ job'[v].at = job[v].at /\ job'[v].stages = job[v].stages
        /\ job'[v].lacks = job[v].lacks /\ job'[v].beaten = b
    BY <2>2, <2>3 DEF JobSet
  <2> QED
    BY <2>1, <2>4, Zenon
<1>11. job' \in [Writers -> JobSet]
  <2>1. \A v \in Writers : job'[v] \in JobSet
    BY <1>8, <1>9, <1>10
  <2>2. job' = [v \in Writers |-> job'[v]]
    BY <1>6, Zenon
  <2> QED
    BY <2>1, <2>2, Zenon
<1>12. \A v \in Writers \ {w} :
         /\ job'[v].at = job[v].at /\ job'[v].stages = job[v].stages /\ job'[v].lacks = job[v].lacks
         /\ job'[v].beaten = (job[v].beaten \/ Beats(NewRows(job[w]), job[v]))
  BY <1>10, Zenon
<1> QED
  BY <1>1, <1>3, <1>4, <1>5, <1>6, <1>8, <1>9, <1>11, <1>12, Zenon DEF HasInserted

EntriesUnchanged == UNCHANGED <<entry, clean, done>>

\* Script s turns to entry i, at its start, after an entry it is through with or
\* after a failure.
Turns(s, i, unspoilt) ==
  /\ i \in 1 .. Len(Entries[s]) + 1 /\ Len(Entries[s]) \in Nat /\ unspoilt \in BOOLEAN
  /\ Goes(s, i, unspoilt) /\ UNCHANGED <<catalog, careless>>
  /\ unspoilt => \/ i = 1
                 \/ entry[s] > 0 /\ job[s].stages = <<>> /\ i = entry[s] + 1 /\ clean[s]

\* A step of the catalog is of one of five kinds.
SeedsStep ==
  \/ \E w \in Sellers : \E j : Begins(w, j) /\ EntriesUnchanged
  \/ \E s \in Scripts : \E i, unspoilt : Turns(s, i, unspoilt)
  \/ \E w \in Writers : \E n, p, j : GoesOnFrom(w, n, p, j) /\ EntriesUnchanged
  \/ \E w \in Writers : \E j : WillInsert(w, j) /\ EntriesUnchanged
  \/ \E w \in Writers : \E p : HasInserted(w, p) /\ EntriesUnchanged

\* A script has a list of entries, and each has the stages of that script.
LEMMA EntriesTyped ==
  ASSUME NEW s \in Scripts
  PROVE  /\ Len(Entries[s]) \in Nat /\ DOMAIN Entries[s] = 1 .. Len(Entries[s])
         /\ \A i \in 1 .. Len(Entries[s]) : ScriptStages(s, StagesOf(s, Entries[s][i]))
<1>1. Entries[s] \in Seq(Entry(s))
  BY SeedsAssumption
<1>2. \A i \in 1 .. Len(Entries[s]) : Entries[s][i] \in Entry(s)
  BY <1>1, ElementOfSeq
<1> QED
  BY <1>1, <1>2, LenProperties, StagesTyped

\* A writer at rest has nothing to look for.
LEMMA NoJobTyped == NoJob \in JobSet /\ NoJob.at = <<>> /\ NoJob.lacks = {} /\ NoJob.stages = <<>>
<1>1. <<>> \in Seq(Names) /\ <<>> \in Seq(Stages)
  BY EmptySeq
<1> QED
  BY <1>1 DEF NoJob, Job, JobSet

\* A step of a script is one of those the proofs distinguish.
LEMMA ScriptSteps ==
  ASSUME RowsInv, FillInv, NEW s \in Scripts, ScriptStep(s)
  PROVE  SeedsStep
<1>1. /\ Len(Entries[s]) \in Nat /\ entry[s] \in 0 .. Len(Entries[s]) /\ clean[s] \in BOOLEAN
      /\ s \in Writers /\ (job[s].stages # <<>> => entry[s] # 0)
  BY EntriesTyped DEF FillInv, Writers
<1>2. CASE StartScript(s)
  <2>1. 1 \in 1 .. Len(Entries[s]) + 1
    BY <1>1
  <2>2. Goes(s, 1, TRUE) /\ UNCHANGED <<catalog, careless>>
    BY <1>2 DEF StartScript
  <2>3. Turns(s, 1, TRUE)
    BY <1>1, <2>1, <2>2, Zenon DEF Turns
  <2> QED
    BY <2>3 DEF SeedsStep
<1>3. CASE NextEntry(s)
  <2>1. Turns(s, entry[s] + 1, clean[s])
    BY <1>1, <1>3 DEF NextEntry, Turns
  <2> QED
    BY <2>1 DEF SeedsStep
<1>4. CASE SkipsEntry(s)
  <2>1. entry[s] + 1 \in 1 .. Len(Entries[s]) + 1
    BY <1>1
  <2>2. Goes(s, entry[s] + 1, FALSE) /\ UNCHANGED <<catalog, careless>>
    BY <1>4 DEF SkipsEntry
  <2>3. Turns(s, entry[s] + 1, FALSE)
    BY <1>1, <2>1, <2>2, Zenon DEF Turns
  <2> QED
    BY <2>3 DEF SeedsStep
<1>5. CASE ScriptFails(s)
  <2>1. job[s].stages # <<>> /\ UNCHANGED <<catalog, careless>>
    BY <1>5 DEF ScriptFails, StageFails
  <2>2. PICK i : /\ i = IF AbortsRun(s) THEN Len(Entries[s]) + 1 ELSE entry[s] + 1
                 /\ Goes(s, i, FALSE)
    BY <1>5 DEF ScriptFails
  <2>3. i \in 1 .. Len(Entries[s]) + 1
    BY <1>1, <2>1, <2>2
  <2>4. Turns(s, i, FALSE)
    BY <1>1, <2>1, <2>2, <2>3, Zenon DEF Turns
  <2> QED
    BY <2>4 DEF SeedsStep
<1>6. CASE (FindsRow(s) \/ FindsNothing(s) \/ Inserts(s)) /\ UNCHANGED <<entry, runs, clean, done>>
  BY <1>1, <1>6, FindsRowSteps, FindsNothingSteps, InsertsSteps DEF SeedsStep, EntriesUnchanged
<1> QED
  BY <1>2, <1>3, <1>4, <1>5, <1>6 DEF ScriptStep

\* So is a step of a seller who types names.
LEMMA SellerSteps ==
  ASSUME RowsInv, NEW w \in Sellers, UNCHANGED <<entry, runs, clean, done>>,
         SellerSaves(w, TypedMakes, TypedModels, TypedTrims, TypedFuels) \/ SellerStep(w)
  PROVE  SeedsStep
<1>1. w \in Writers
  BY DEF Writers
<1>2. CASE SellerSaves(w, TypedMakes, TypedModels, TypedTrims, TypedFuels)
  <2>1. PICK picked \in {<<>>} \union {p \in Rows : Len(p) < 3}, d \in TypedModels, t \in TypedTrims,
             f \in TypedFuels, m \in TypedMakes :
          Advance(w, Job(picked, SubSeq(<<ByName(m), ByName(d), ByName(t), FuelOf(f)>>, Len(picked) + 1, 4)))
    BY <1>2 DEF SellerSaves
  <2>2. m \in Names /\ d \in Names /\ t \in Names /\ f \in Names
    BY SeedsAssumption
  <2>3. ByName(m) \in Stages /\ ByName(d) \in Stages /\ ByName(t) \in Stages /\ FuelOf(f) \in Stages
    BY <2>2, StageIsStage DEF ByName, FuelOf
  <2> DEFINE typed == <<ByName(m), ByName(d), ByName(t), FuelOf(f)>>
             j == Job(picked, SubSeq(typed, Len(picked) + 1, 4))
  <2>4. typed \in Seq(Stages) /\ Len(typed) = 4
    BY <2>3
  <2>5. picked \in Seq(Names) /\ Len(picked) \in Nat
    BY EmptySeq, LenProperties DEF RowsInv
  <2> HIDE DEF typed
  <2>6. SubSeq(typed, Len(picked) + 1, 4) \in Seq(Stages)
    <3>0. \A i \in Len(picked) + 1 .. 4 : i \in 1 .. Len(typed)
      BY <2>4, <2>5
    <3>1. \A i \in Len(picked) + 1 .. 4 : typed[i] \in Stages
      BY <2>4, <3>0, ElementOfSeq
    <3> QED
      BY <2>5, <3>1, SubSeqProperties
  <2>7. j \in JobSet /\ j.lacks = {} /\ j.at = picked
    BY <2>5, <2>6 DEF Job, JobSet
  <2>8. Advance(w, j)
    BY <2>1 DEF typed
  <2>9. Begins(w, j)
    BY <1>2, <2>7, <2>8 DEF Begins, SellerSaves
  <2> QED
    BY <2>9 DEF SeedsStep, EntriesUnchanged
<1>3. CASE SellerFails(w)
  <2>1. Begins(w, NoJob)
    BY <1>3, NoJobTyped DEF SellerFails, StageFails, Begins
  <2> QED
    BY <2>1 DEF SeedsStep, EntriesUnchanged
<1>4. CASE FindsRow(w) \/ FindsNothing(w) \/ Inserts(w)
  BY <1>1, <1>4, FindsRowSteps, FindsNothingSteps, InsertsSteps DEF SeedsStep, EntriesUnchanged
<1> QED
  BY <1>2, <1>3, <1>4 DEF SellerStep

\* So is every step of the catalog.
LEMMA SeedsSteps ==
  ASSUME RowsInv, FillInv, SeedsNext
  PROVE  SeedsStep
  BY ScriptSteps, SellerSteps DEF SeedsNext

\* What a script turns to.
LEMMA TurnsBegins ==
  ASSUME RowsInv, NEW s \in Scripts, NEW i, NEW unspoilt, Turns(s, i, unspoilt)
  PROVE  \E j : /\ Begins(s, j) /\ j.at = <<>>
                /\ j.stages = IF i <= Len(Entries[s]) THEN StagesOf(s, Entries[s][i]) ELSE <<>>
<1>1. CASE i <= Len(Entries[s])
  <2>1. i \in 1 .. Len(Entries[s])
    BY <1>1 DEF Turns
  <2>2. StagesOf(s, Entries[s][i]) \in Seq(Stages)
    BY <2>1, EntriesTyped DEF ScriptStages
  <2> DEFINE j == Job(<<>>, StagesOf(s, Entries[s][i]))
  <2>3. j \in JobSet /\ j.lacks = {} /\ j.at = <<>> /\ j.stages = StagesOf(s, Entries[s][i])
    BY <2>2, EmptySeq DEF Job, JobSet
  <2>4. Begins(s, j)
    BY <1>1, <2>3 DEF Turns, Goes, Begins
  <2> QED
    BY <1>1, <2>3, <2>4
<1>2. CASE ~(i <= Len(Entries[s]))
  BY <1>2, NoJobTyped DEF Turns, Goes, Begins
<1> QED
  BY <1>1, <1>2

-----------------------------------------------------------------------------
(* The vehicle catalog: rows and twins                                      *)

\* A step of the catalog by one writer, whatever its entry.
CatalogStep(w) ==
  \/ \E j : Begins(w, j)
  \/ \E n, p, j : GoesOnFrom(w, n, p, j)
  \/ \E j : WillInsert(w, j)
  \/ \E p : HasInserted(w, p)

\* Of each of them one writer is the author.
LEMMA SeedsStepsAreCatalogSteps ==
  ASSUME RowsInv, SeedsStep
  PROVE  \E w \in Writers : CatalogStep(w)
<1>1. Sellers \subseteq Writers /\ Scripts \subseteq Writers
  BY DEF Writers
<1>2. CASE \E s \in Scripts : \E i, unspoilt : Turns(s, i, unspoilt)
  <2>1. PICK s \in Scripts : \E i, unspoilt : Turns(s, i, unspoilt)
    BY <1>2
  <2>2. \E j : Begins(s, j)
    BY <2>1, TurnsBegins
  <2> QED
    BY <1>1, <2>2 DEF CatalogStep
<1> QED
  BY <1>1, <1>2 DEF SeedsStep, CatalogStep

\* Rows are only added, and a refreshed engine has the curated figures.
RowsGrow ==
  /\ Rows \subseteq Rows' /\ careless \subseteq careless'
  /\ \A p \in Rows : catalog[p] = "curated" => catalog'[p] = "curated"

\* No step of the catalog takes a row away, or figures that were curated.
LEMMA CatalogGrows ==
  ASSUME RowsInv, NEW w \in Writers, CatalogStep(w)
  PROVE  RowsGrow
<1>1. CASE \E j : Begins(w, j) \/ WillInsert(w, j)
  BY <1>1 DEF Begins, WillInsert, RowsGrow, Rows
<1>2. CASE \E n, p, j : GoesOnFrom(w, n, p, j)
  <2>1. PICK n, p, j : GoesOnFrom(w, n, p, j)
    BY <1>2
  <2>2. Head(job[w].stages) \in Stages
    BY <2>1, HeadTailProperties DEF GoesOnFrom, RowsInv, JobSet
  <2>3. Head(job[w].stages).found = "refresh" => Head(job[w].stages).figures = "curated"
    BY <2>2 DEF Stages, StageOK
  <2> QED
    BY <2>1, <2>3 DEF GoesOnFrom, RowsGrow, Rows
<1>3. CASE \E p : HasInserted(w, p)
  BY <1>3 DEF HasInserted, RowsGrow
<1> QED
  BY <1>1, <1>2, <1>3 DEF CatalogStep

\* What is found stays found as rows are added.
LEMMA FoundGrows ==
  ASSUME Rows \subseteq Rows', NEW at, NEW match, NEW n
  PROVE  Found(at, match, n) \subseteq Found(at, match, n)'
  BY DEF Found

\* What a writer has under way stays sound as rows are added.
LEMMA JobStaysOK ==
  ASSUME Rows \subseteq Rows', NEW j, JobOK(j)
  PROVE  JobOK(j)'
<1>1. \A n \in Head(j.stages).names :
        Found(j.at, Head(j.stages).match, n) \subseteq Found(j.at, Head(j.stages).match, n)'
  BY FoundGrows
<1> QED
  BY <1>1 DEF JobOK

\* A job that keeps its place and its names is as good as it was.
LEMMA JobOKOfFields ==
  ASSUME NEW j, NEW k, k.at = j.at, k.stages = j.stages, k.lacks = j.lacks, JobOK(j)
  PROVE  JobOK(k)
  BY DEF JobOK

\* Every step of the catalog keeps rows below their parents, and the types.
LEMMA RowsStep ==
  ASSUME RowsInv, NEW w \in Writers, CatalogStep(w)
  PROVE  RowsInv'
<1>1. RowsGrow /\ job \in [Writers -> JobSet] /\ \A v \in Writers : JobOK(job[v])
  BY CatalogGrows DEF RowsInv
<1>3. ASSUME NEW j \in JobSet, Advance(w, j), JobOK(j)'
      PROVE  job' \in [Writers -> JobSet] /\ \A v \in Writers : JobOK(job[v])'
  <2>1. job' \in [Writers -> JobSet] /\ job'[w] = j
    BY <1>1, <1>3 DEF Advance
  <2>2. ASSUME NEW v \in Writers PROVE JobOK(job[v])'
    <3>1. CASE v = w
      BY <1>3, <2>1, <3>1 DEF JobOK
    <3>2. CASE v # w
      <4>1. PICK k : k = job[v]
        OBVIOUS
      <4>2. job'[v] = k /\ JobOK(k)
        BY <1>1, <1>3, <3>2, <4>1 DEF Advance
      <4>3. JobOK(k)'
        BY <1>1, <4>2, JobStaysOK DEF RowsGrow
      <4> QED
        BY <4>2, <4>3 DEF JobOK
    <3> QED
      BY <3>1, <3>2
  <2> QED
    BY <2>1, <2>2
<1>4. ASSUME Rows' = Rows, job' \in [Writers -> JobSet], \A v \in Writers : JobOK(job[v])'
      PROVE  RowsInv'
  BY <1>4 DEF RowsInv
<1>5. CASE \E j : Begins(w, j)
  <2>1. PICK j : Begins(w, j)
    BY <1>5
  <2>2. Rows' = Rows /\ j \in JobSet /\ Advance(w, j) /\ JobOK(j)'
    BY <2>1 DEF Begins, Rows, JobOK
  <2> QED
    BY <1>3, <1>4, <2>2
<1>6. CASE \E n, p, j : GoesOnFrom(w, n, p, j)
  <2>1. PICK n, p, j : GoesOnFrom(w, n, p, j)
    BY <1>6
  <2>2. Rows' = Rows
    BY <2>1 DEF GoesOnFrom, Rows
  <2>3. j \in JobSet /\ Advance(w, j) /\ j.at \in Rows /\ j.lacks = {}
    BY <2>1 DEF GoesOnFrom, Found
  <2>4. JobOK(j)'
    BY <2>2, <2>3 DEF JobOK
  <2> QED
    BY <1>3, <1>4, <2>2, <2>3, <2>4
<1>7. CASE \E j : WillInsert(w, j)
  <2>1. PICK j : WillInsert(w, j)
    BY <1>7
  <2>2. Rows' = Rows /\ j \in JobSet /\ Advance(w, j) /\ job[w].stages # <<>> /\ JobOK(job[w])
        /\ j.at = job[w].at /\ j.stages = job[w].stages /\ j.lacks = Lacking(job[w])
    BY <1>1, <2>1 DEF WillInsert, Rows
  <2>3. JobOK(j)
    BY <2>2 DEF JobOK, Lacking
  <2>4. JobOK(j)'
    BY <1>1, <2>3, JobStaysOK DEF RowsGrow
  <2> QED
    BY <1>3, <1>4, <2>2, <2>4
<1>8. CASE \E p : HasInserted(w, p)
  <2>1. PICK p : HasInserted(w, p)
    BY <1>8
  <2>2. Rows' = Rows \union NewRows(job[w]) /\ NewRows(job[w]) \subseteq Seq(Names) /\ job' \in [Writers -> JobSet]
    BY <2>1 DEF HasInserted
  <2>3. job[w].at \in Seq(Names) /\ job[w].lacks \subseteq Names /\ (job[w].at = <<>> \/ job[w].at \in Rows)
    BY <1>1 DEF JobSet, JobOK
  <2>4. ASSUME NEW q \in NewRows(job[w]), NEW l \in 1 .. Len(q)
        PROVE  SubSeq(q, 1, l) \in Rows'
    <3>1. PICK x \in Names : q = Append(job[w].at, x)
      BY <2>3 DEF NewRows
    <3>2. Len(q) = Len(job[w].at) + 1 /\ Len(job[w].at) \in Nat /\ q \in Seq(Names)
          /\ \A i \in 1 .. Len(job[w].at) : q[i] = job[w].at[i]
      BY <2>3, <3>1, AppendFacts
    <3>3. CASE l = Len(q)
      <4>1. SubSeq(q, 1, Len(q)) = q
        BY <3>2, SubSeqFull
      <4> QED
        BY <2>2, <3>3, <4>1
    <3>4. CASE l # Len(q)
      <4>1. l \in 1 .. Len(job[w].at) /\ l \in Int
        BY <3>2, <3>4
      <4>2. job[w].at # <<>>
        BY <4>1, EmptySeq
      <4>3. SubSeq(job[w].at, 1, l) \in Rows
        BY <2>3, <4>1, <4>2 DEF RowsInv
      <4>4. SubSeq(q, 1, l) = SubSeq(job[w].at, 1, l)
        <5>1. \A i \in 1 .. l : i \in 1 .. Len(job[w].at) /\ i \in 1 .. Len(q)
          BY <3>2, <4>1
        <5>2. \A i \in 1 .. l : q[i] \in Names /\ job[w].at[i] \in Names /\ q[i] = job[w].at[i]
          BY <2>3, <3>2, <5>1, ElementOfSeq
        <5>3. l - 1 + 1 = l /\ 1 <= l /\ \A i \in 1 .. l : 1 + i - 1 = i
          BY <4>1
        <5>4. /\ SubSeq(q, 1, l) \in Seq(Names) /\ SubSeq(job[w].at, 1, l) \in Seq(Names)
              /\ Len(SubSeq(q, 1, l)) = l /\ Len(SubSeq(job[w].at, 1, l)) = l
              /\ \A i \in 1 .. l : SubSeq(q, 1, l)[i] = q[i] /\ SubSeq(job[w].at, 1, l)[i] = job[w].at[i]
          BY <4>1, <5>2, <5>3, SubSeqProperties
        <5> QED
          BY <5>2, <5>4, SeqEqual
      <4> QED
        BY <2>2, <4>3, <4>4
    <3> QED
      BY <3>3, <3>4
  <2>5. ASSUME NEW v \in Writers PROVE JobOK(job[v])'
    <3>1. CASE v = w
      BY <2>1, <2>2, <3>1 DEF HasInserted, JobOK
    <3>2. CASE v # w
      <4>1. PICK k : k = job[v]
        OBVIOUS
      <4>2. PICK k2 : k2 = job'[v]
        OBVIOUS
      <4>3. k2.at = k.at /\ k2.stages = k.stages /\ k2.lacks = k.lacks
        BY <2>1, <3>2, <4>1, <4>2 DEF HasInserted
      <4>4. JobOK(k2)
        BY <1>1, <4>1, <4>3, JobOKOfFields
      <4>5. JobOK(k2)'
        BY <1>1, <4>4, JobStaysOK DEF RowsGrow
      <4> QED
        BY <4>2, <4>5 DEF JobOK
    <3> QED
      BY <3>1, <3>2
  <2>6. Rows' \subseteq Seq(Names)
    BY <2>2 DEF RowsInv
  <2>7. \A q \in Rows' : \A l \in 1 .. Len(q) : SubSeq(q, 1, l) \in Rows'
    <3>1. \A q \in Rows : \A l \in 1 .. Len(q) : SubSeq(q, 1, l) \in Rows'
      BY <2>2 DEF RowsInv
    <3> QED
      BY <2>2, <2>4, <3>1
  <2> QED
    BY <2>2, <2>5, <2>6, <2>7 DEF RowsInv
<1> QED
  BY <1>5, <1>6, <1>7, <1>8 DEF CatalogStep

\* Every step keeps that twins come from an exact lookup or a race.
LEMMA TwinStep ==
  ASSUME RowsInv, TwinInv, NEW w \in Writers, CatalogStep(w)
  PROVE  TwinInv'
<1>1. job \in [Writers -> JobSet] /\ TwinsComeFromRaces /\ \A v \in Writers : Unrivalled(job[v])
  BY DEF RowsInv, TwinInv
<1>2. ASSUME NEW j, Rows' = Rows, careless' = careless, Advance(w, j), Unrivalled(j)
      PROVE  TwinInv'
  <2>1. TwinsComeFromRaces'
    BY <1>1, <1>2 DEF TwinsComeFromRaces
  <2>2. ASSUME NEW v \in Writers PROVE Unrivalled(job[v])'
    <3>1. PICK k : k = job'[v]
      OBVIOUS
    <3>2. Unrivalled(k)
      BY <1>1, <1>2, <3>1 DEF Advance
    <3>3. Unrivalled(k)'
      BY <1>2, <3>2 DEF Unrivalled, NewRows
    <3> QED
      BY <3>1, <3>3 DEF Unrivalled, NewRows
  <2> QED
    BY <2>1, <2>2 DEF TwinInv
<1>3. CASE \E j : Begins(w, j)
  <2>1. PICK j : Begins(w, j)
    BY <1>3
  <2> QED
    BY <1>2, <2>1 DEF Begins, Rows, Unrivalled
<1>4. CASE \E n, p, j : GoesOnFrom(w, n, p, j)
  <2>1. PICK n, p, j : GoesOnFrom(w, n, p, j)
    BY <1>4
  <2>2. Rows' = Rows
    BY <2>1 DEF GoesOnFrom, Rows
  <2>3. Unrivalled(j)
    BY <2>1 DEF GoesOnFrom, Unrivalled
  <2> QED
    BY <1>2, <2>1, <2>2, <2>3 DEF GoesOnFrom
<1>5. CASE \E j : WillInsert(w, j)
  <2>1. PICK j : WillInsert(w, j)
    BY <1>5
  <2>2. j \in JobSet /\ j.at \in Seq(Names) /\ j.at = job[w].at /\ j.stages = job[w].stages
        /\ j.lacks = Lacking(job[w]) /\ j.lacks \subseteq Names /\ Rows' = Rows
    BY <2>1 DEF WillInsert, JobSet, Rows
  <2>3. ASSUME Head(j.stages).match = "ilike", NEW p \in Rows, NEW q \in NewRows(j), Twins(p, q)
        PROVE  FALSE
    <3>1. PICK x \in Names : x \in Lacking(job[w]) /\ q = Append(j.at, x)
      BY <2>2 DEF NewRows
    <3>2. p \in Seq(Names)
      BY DEF RowsInv
    <3>3. PICK y \in Names : p = Append(j.at, y) /\ SameName(y, x)
      BY <2>2, <2>3, <3>1, <3>2, TwinsOf
    <3>4. p \in Found(j.at, "ilike", x)
      BY <2>2, <3>3, FoundHas DEF Matches
    <3>5. Found(j.at, "ilike", x) = {}
      BY <2>2, <2>3, <3>1 DEF Lacking
    <3> QED
      BY <3>4, <3>5
  <2>4. Unrivalled(j)
    BY <2>3 DEF Unrivalled
  <2> QED
    BY <1>2, <2>1, <2>2, <2>4 DEF WillInsert
<1>6. CASE \E p : HasInserted(w, p)
  <2>1. PICK p0 : HasInserted(w, p0)
    BY <1>6
  <2>2. PICK old : old = job[w]
    OBVIOUS
  <2>3. /\ old \in JobSet /\ JobOK(old) /\ Unrivalled(old) /\ old.lacks # {}
        /\ old.at \in Seq(Names) /\ old.lacks \subseteq Names /\ old.stages \in Seq(Stages)
    BY <1>1, <2>1, <2>2 DEF RowsInv, JobSet, HasInserted
  <2>4. Rows' = Rows \union NewRows(old) /\ careless' = careless \union CarelesslyBy(old)
    BY <2>1, <2>2 DEF HasInserted
  <2>5. ASSUME NEW p \in Rows', NEW q \in NewRows(old), Twins(p, q), Head(old.stages).match = "ilike", ~old.beaten
        PROVE  FALSE
    <3>1. p \notin Rows
      BY <2>3, <2>5 DEF Unrivalled
    <3>2. p \in NewRows(old)
      BY <2>4, <3>1
    <3>3. Head(old.stages) \in Stages /\ old.lacks \subseteq Head(old.stages).names
      BY <2>3, HeadTailProperties DEF JobOK
    <3>4. PICK n : Head(old.stages).names = {n}
      BY <2>5, <3>3 DEF Stages, StageOK
    <3>5. p = q
      BY <3>2, <3>3, <3>4 DEF NewRows
    <3> QED
      BY <2>5, <3>5 DEF Twins
  <2>6. \A p \in Rows', q \in NewRows(old) : Twins(p, q) => q \in careless'
    BY <2>4, <2>5 DEF CarelesslyBy
  <2>7. ASSUME NEW p \in Rows', NEW q \in Rows', Twins(p, q)
        PROVE  p \in careless' \/ q \in careless'
    <3>1. Twins(q, p)
      BY <2>7 DEF Twins, SameName
    <3>2. CASE p \in Rows /\ q \in Rows
      BY <1>1, <2>4, <2>7, <3>2 DEF TwinsComeFromRaces
    <3>3. CASE q \in NewRows(old)
      BY <2>6, <2>7, <3>3
    <3>4. CASE p \in NewRows(old)
      BY <2>6, <3>1, <3>4
    <3> QED
      BY <2>4, <3>2, <3>3, <3>4
  <2>8. ASSUME NEW v \in Writers PROVE Unrivalled(job[v])'
    <3>1. PICK k : k = job[v]
      OBVIOUS
    <3>2. PICK k2 : k2 = job'[v]
      OBVIOUS
    <3>3. CASE v = w
      BY <2>1, <2>2, <3>3 DEF HasInserted, Unrivalled
    <3>4. CASE v # w
      <4>1. k2.at = k.at /\ k2.stages = k.stages /\ k2.lacks = k.lacks
            /\ k2.beaten = (k.beaten \/ Beats(NewRows(old), k))
        BY <2>1, <2>2, <3>1, <3>2, <3>4, Zenon DEF HasInserted
      <4>2. Unrivalled(k)
        BY <1>1, <3>1
      <4>3. ASSUME k2.lacks # {}, Head(k2.stages).match = "ilike", ~k2.beaten,
                   NEW p \in Rows', NEW q \in NewRows(k2), Twins(p, q)
            PROVE  FALSE
        <5>1. NewRows(k2) = NewRows(k)
          BY <4>1 DEF NewRows
        <5>2. ~k.beaten /\ ~Beats(NewRows(old), k)
          BY <4>1, <4>3, Zenon
        <5>3. p \notin Rows
          BY <4>1, <4>2, <4>3, <5>1, <5>2 DEF Unrivalled
        <5>4. p \in NewRows(old)
          BY <2>4, <5>3
        <5> QED
          BY <4>3, <5>1, <5>2, <5>4 DEF Beats
      <4>4. Unrivalled(k2)'
        BY <4>3 DEF Unrivalled, NewRows
      <4> QED
        BY <3>2, <4>4 DEF Unrivalled, NewRows
    <3> QED
      BY <3>3, <3>4
  <2> QED
    BY <2>7, <2>8 DEF TwinInv, TwinsComeFromRaces
<1> QED
  BY <1>3, <1>4, <1>5, <1>6 DEF CatalogStep

-----------------------------------------------------------------------------
(* The vehicle catalog: what a clean run fills                              *)

\* What a script has filled stays filled.
LEMMA FilledGrows ==
  ASSUME RowsGrow, NEW s, NEW all, Filled(s, all)
  PROVE  Filled(s, all)'
<1> SUFFICES ASSUME NEW n \in all[Depth(s)].names
             PROVE  \E p \in Rows' : /\ Len(p) = Depth(s) /\ Follows(p, all) /\ p[Depth(s)] = n
                                     /\ s = "seed:powertrains" => catalog'[p] = "curated"
  BY DEF Filled
<1>1. PICK p \in Rows : /\ Len(p) = Depth(s) /\ Follows(p, all) /\ p[Depth(s)] = n
                        /\ s = "seed:powertrains" => catalog[p] = "curated"
  BY DEF Filled
<1> QED
  BY <1>1 DEF RowsGrow

\* A script stays on its way while others add rows.
LEMMA OnItsWayStays ==
  ASSUME RowsGrow, NEW s, NEW all, NEW j, NEW k, k.at = j.at, k.stages = j.stages, OnItsWay(s, j, all)
  PROVE  OnItsWay(s, k, all)'
<1>1. Len(k.at) >= Depth(s) => Filled(s, all)'
  BY FilledGrows DEF OnItsWay
<1> QED
  BY <1>1 DEF OnItsWay

\* The stages still to come, after the first of them.
LEMMA StagesToCome ==
  ASSUME NEW all \in Seq(Stages), NEW k \in Nat, k <= Len(all), SubSeq(all, k + 1, Len(all)) # <<>>
  PROVE  /\ k + 1 \in 1 .. Len(all)
         /\ Head(SubSeq(all, k + 1, Len(all))) = all[k + 1]
         /\ Tail(SubSeq(all, k + 1, Len(all))) = SubSeq(all, k + 2, Len(all))
<1>1. Len(all) \in Nat
  BY LenProperties
<1>2. k # Len(all)
  <2>1. SubSeq(all, Len(all) + 1, Len(all)) = <<>>
    BY <1>1, SubSeqEmpty
  <2> QED
    BY <2>1
<1>3. k + 1 \in 1 .. Len(all) /\ Len(all) \in k + 1 .. Len(all) /\ k + 1 + 1 = k + 2
  BY <1>1, <1>2
<1> QED
  BY <1>3, HeadTailOfSubSeq

\* One name further along the stages.
LEMMA FollowsOn ==
  ASSUME NEW at \in Seq(Names), NEW x \in Names, NEW all, Follows(at, all),
         NEW n \in all[Len(at) + 1].names,
         IF all[Len(at) + 1].match = "ilike" THEN SameName(x, n) ELSE x = n
  PROVE  Follows(Append(at, x), all)
<1>1. /\ Len(Append(at, x)) = Len(at) + 1 /\ Len(at) \in Nat
      /\ \A i \in 1 .. Len(at) : Append(at, x)[i] = at[i]
      /\ Append(at, x)[Len(at) + 1] = x
  BY AppendFacts
<1>2. \A k \in 1 .. Len(at) + 1 : k \in 1 .. Len(at) \/ k = Len(at) + 1
  BY <1>1
<1>3. ASSUME NEW k \in 1 .. Len(at)
      PROVE  \E m \in all[k].names :
               IF all[k].match = "ilike" THEN SameName(Append(at, x)[k], m) ELSE Append(at, x)[k] = m
  BY <1>1 DEF Follows
<1>4. IF all[Len(at) + 1].match = "ilike"
      THEN SameName(Append(at, x)[Len(at) + 1], n) ELSE Append(at, x)[Len(at) + 1] = n
  BY <1>1
<1> QED
  BY <1>1, <1>2, <1>3, <1>4 DEF Follows

\* Where the last promised stage of an entry leads, when its names are there.
LEMMA StageFills ==
  ASSUME NEW s \in Scripts, NEW all, ScriptStages(s, all), NEW at \in Seq(Names), Follows(at, all),
         Len(at) + 1 = Depth(s),
         \A n \in all[Depth(s)].names :
           n \in Names /\ Append(at, n) \in Rows'
           /\ (s = "seed:powertrains" => catalog'[Append(at, n)] = "curated")
  PROVE  Filled(s, all)'
<1>1. ASSUME NEW n \in all[Depth(s)].names
      PROVE  \E p \in Rows' : /\ Len(p) = Depth(s) /\ Follows(p, all) /\ p[Depth(s)] = n
                              /\ s = "seed:powertrains" => catalog'[p] = "curated"
  <2>1. n \in Names /\ Append(at, n) \in Rows'
    OBVIOUS
  <2>2. Len(Append(at, n)) = Depth(s) /\ Append(at, n)[Depth(s)] = n
    BY <2>1, AppendFacts
  <2>3. Follows(Append(at, n), all)
    BY <2>1, FollowsOn DEF ScriptStages
  <2> QED
    BY <2>1, <2>2, <2>3
<1> QED
  BY <1>1 DEF Filled

\* Where a script is when it has names to look for.
LEMMA AtStage ==
  ASSUME RowsInv, NEW s \in Scripts, NEW all, ScriptStages(s, all), OnItsWay(s, job[s], all),
         job[s].stages # <<>>
  PROVE  /\ Len(job[s].at) \in Nat /\ Len(job[s].at) + 1 \in 1 .. Len(all)
         /\ Head(job[s].stages) = all[Len(job[s].at) + 1] /\ all[Len(job[s].at) + 1] \in Stages
         /\ Tail(job[s].stages) = SubSeq(all, Len(job[s].at) + 2, Len(all))
         /\ job[s].at \in Seq(Names) /\ Follows(job[s].at, all)
<1>1. job[s].at \in Seq(Names)
  BY DEF RowsInv, JobSet, Writers
<1>2. Len(job[s].at) \in Nat /\ Len(job[s].at) <= Len(all) /\ all \in Seq(Stages)
      /\ job[s].stages = SubSeq(all, Len(job[s].at) + 1, Len(all)) /\ Follows(job[s].at, all)
  BY <1>1, LenProperties DEF OnItsWay, ScriptStages
<1>3. /\ Len(job[s].at) + 1 \in 1 .. Len(all)
      /\ Head(job[s].stages) = all[Len(job[s].at) + 1]
      /\ Tail(job[s].stages) = SubSeq(all, Len(job[s].at) + 2, Len(all))
  BY <1>2, StagesToCome
<1> QED
  BY <1>1, <1>2, <1>3, ElementOfSeq

\* A script that finds a row stays on its way.
LEMMA FindingOnItsWay ==
  ASSUME RowsInv, NEW s \in Scripts, NEW all, ScriptStages(s, all), OnItsWay(s, job[s], all),
         NEW n, NEW p, NEW j, GoesOnFrom(s, n, p, j)
  PROVE  OnItsWay(s, j, all)'
<1> DEFINE k == Len(job[s].at)
           t == all[k + 1]
<1>1. /\ k \in Nat /\ k + 1 \in 1 .. Len(all) /\ Head(job[s].stages) = t /\ t \in Stages
      /\ Tail(job[s].stages) = SubSeq(all, k + 2, Len(all))
      /\ job[s].at \in Seq(Names) /\ Follows(job[s].at, all)
  BY AtStage DEF GoesOnFrom
<1>2. Rows \subseteq Seq(Names) /\ Depth(s) \in {3, 4} /\ s \in Writers /\ Len(all) \in Nat
  BY DEF RowsInv, Depth, Writers, ScriptStages
<1>3. n \in t.names /\ p \in Found(job[s].at, t.match, n) /\ j.at = p
      /\ j.stages = IF t.found = "stop" THEN <<>> ELSE SubSeq(all, k + 2, Len(all))
  BY <1>1 DEF GoesOnFrom
<1>4. PICK x \in Names : p = Append(job[s].at, x) /\ Matches(t.match, x, n)
  BY <1>1, <1>2, <1>3, FoundIs
<1>5. Follows(p, all) /\ Len(p) = k + 1
  <2>1. IF t.match = "ilike" THEN SameName(x, n) ELSE x = n
    BY <1>4 DEF Matches
  <2>2. Follows(p, all)
    BY <1>1, <1>3, <1>4, <2>1, FollowsOn
  <2>3. Len(p) = k + 1
    BY <1>1, <1>4, AppendFacts
  <2> QED
    BY <2>2, <2>3
<1>6. RowsGrow
  BY <1>2, CatalogGrows DEF CatalogStep
<1>11. Len(p) <= Len(all)
  BY <1>1, <1>2, <1>5
<1>7. \/ j.stages = SubSeq(all, Len(p) + 1, Len(all))
      \/ s = "seed:catalog" /\ Len(p) = 3 /\ j.stages = <<>>
  <2>1. t.found = "stop" => s = "seed:catalog" /\ k + 1 = 3
    BY <1>1 DEF ScriptStages
  <2>2. Len(p) + 1 = k + 2
    BY <1>1, <1>5
  <2> QED
    BY <1>3, <1>5, <2>1, <2>2
<1>8. CASE k >= Depth(s)
  <2>1. Filled(s, all)'
    BY <1>6, <1>8, FilledGrows DEF OnItsWay
  <2> QED
    BY <1>3, <1>5, <1>7, <1>11, <2>1 DEF OnItsWay
<1>9. CASE k + 1 = Depth(s)
  <2>1. t.match = "exact"
    BY <1>9 DEF ScriptStages
  <2>2. ASSUME NEW m \in t.names
        PROVE  m \in Names /\ Append(job[s].at, m) \in Rows'
               /\ (s = "seed:powertrains" => catalog'[Append(job[s].at, m)] = "curated")
    <3>1. PICK q : q \in Found(job[s].at, t.match, m)
      BY <1>1, <2>2 DEF GoesOnFrom
    <3>2. m \in Names
      BY <1>1, <2>2 DEF Stages, StageSet
    <3>3. q \in Rows /\ \E y \in Names : q = Append(job[s].at, y) /\ Matches(t.match, y, m)
      BY <1>1, <1>2, <3>1, FoundIs
    <3>4. Append(job[s].at, m) \in Rows
      BY <2>1, <3>3 DEF Matches
    <3>5. ASSUME s = "seed:powertrains" PROVE catalog'[Append(job[s].at, m)] = "curated"
      <4>1. k + 1 = 4
        BY <1>9, <3>5 DEF Depth
      <4>2. t.figures = "curated" /\ t.found = "refresh" /\ m = n
        BY <1>3, <2>2, <3>5, <4>1 DEF ScriptStages
      <4>3. p = Append(job[s].at, m)
        BY <1>4, <2>1, <4>2 DEF Matches
      <4>4. catalog' = [catalog EXCEPT ![p] = "curated"]
        BY <1>1, <4>2 DEF GoesOnFrom
      <4> QED
        BY <3>4, <4>3, <4>4 DEF Rows
    <3> QED
      BY <1>6, <3>2, <3>4, <3>5 DEF RowsGrow
  <2>3. Filled(s, all)'
    BY <1>1, <1>9, <2>2, StageFills
  <2> QED
    BY <1>3, <1>5, <1>7, <1>11, <2>3 DEF OnItsWay
<1>10. CASE k + 1 < Depth(s)
  <2>1. ~(Len(p) >= Depth(s))
    BY <1>1, <1>2, <1>5, <1>10
  <2> QED
    BY <1>3, <1>7, <1>5, <1>11, <2>1 DEF OnItsWay
<1> QED
  BY <1>1, <1>2, <1>8, <1>9, <1>10

\* A script that inserts what it found missing stays on its way.
LEMMA InsertingOnItsWay ==
  ASSUME RowsInv, NEW s \in Scripts, NEW all, ScriptStages(s, all), OnItsWay(s, job[s], all),
         NEW p, HasInserted(s, p), NEW j, j = job'[s]
  PROVE  OnItsWay(s, j, all)'
<1> DEFINE k == Len(job[s].at)
           t == all[k + 1]
<1>1. JobOK(job[s]) /\ job[s].lacks # {} /\ job[s].stages # <<>> /\ s \in Writers
      /\ Rows \subseteq Seq(Names)
  BY DEF RowsInv, HasInserted, JobOK, Writers
<1>2. /\ k \in Nat /\ k + 1 \in 1 .. Len(all) /\ Head(job[s].stages) = t /\ t \in Stages
      /\ Tail(job[s].stages) = SubSeq(all, k + 2, Len(all))
      /\ job[s].at \in Seq(Names) /\ Follows(job[s].at, all)
  BY <1>1, AtStage
<1>3. job[s].lacks \subseteq t.names /\ t.names \subseteq Names
      /\ \A n \in t.names \ job[s].lacks : Found(job[s].at, t.match, n) # {}
  BY <1>1, <1>2 DEF JobOK, Stages, StageSet
<1>4. j.at = p /\ j.stages = SubSeq(all, k + 2, Len(all)) /\ p \in NewRows(job[s])
  BY <1>2 DEF HasInserted
<1>5. PICK x \in job[s].lacks : p = Append(job[s].at, x)
  BY <1>4 DEF NewRows
<1>6. Follows(p, all) /\ Len(p) = k + 1
  <2>1. x \in Names /\ x \in t.names /\ IF t.match = "ilike" THEN SameName(x, x) ELSE x = x
    BY <1>3, <1>5 DEF SameName
  <2>2. Follows(p, all)
    BY <1>2, <1>5, <2>1, FollowsOn
  <2>3. Len(p) = k + 1
    BY <1>2, <1>5, <2>1, AppendFacts
  <2> QED
    BY <2>2, <2>3
<1>7. RowsGrow
  BY <1>1, CatalogGrows DEF CatalogStep
<1>8. Depth(s) \in {3, 4} /\ j.stages = SubSeq(all, Len(p) + 1, Len(all)) /\ Len(p) <= Len(all) /\ Len(all) \in Nat
  <2>1. Len(p) + 1 = k + 2
    BY <1>2, <1>6
  <2> QED
    BY <1>2, <1>4, <1>6, <2>1 DEF Depth, ScriptStages
<1>9. CASE k >= Depth(s)
  <2>1. Filled(s, all)'
    BY <1>7, <1>9, FilledGrows DEF OnItsWay
  <2> QED
    BY <1>4, <1>6, <1>8, <2>1 DEF OnItsWay
<1>10. CASE k + 1 = Depth(s)
  <2>1. t.match = "exact"
    BY <1>10 DEF ScriptStages
  <2>2. ASSUME NEW m \in t.names
        PROVE  m \in Names /\ Append(job[s].at, m) \in Rows'
               /\ (s = "seed:powertrains" => catalog'[Append(job[s].at, m)] = "curated")
    <3>1. CASE m \in job[s].lacks
      <4>1. Append(job[s].at, m) \in NewRows(job[s])
        BY <3>1 DEF NewRows
      <4>2. s = "seed:powertrains" => t.figures = "curated"
        BY <1>10 DEF Depth, ScriptStages
      <4> QED
        BY <1>2, <1>3, <4>1, <4>2 DEF HasInserted
    <3>2. CASE m \notin job[s].lacks
      <4>1. PICK q : q \in Found(job[s].at, t.match, m)
        BY <1>3, <3>2
      <4>2. q \in Rows /\ \E y \in Names : q = Append(job[s].at, y) /\ Matches(t.match, y, m)
        BY <1>1, <1>2, <4>1, FoundIs
      <4>3. Append(job[s].at, m) \in Rows
        BY <2>1, <4>2 DEF Matches
      <4>4. s # "seed:powertrains"
        <5>1. ASSUME s = "seed:powertrains" PROVE FALSE
          <6>1. k + 1 = 4
            BY <1>10, <5>1 DEF Depth
          <6>2. \E n \in Names : t.names = {n}
            BY <5>1, <6>1 DEF ScriptStages
          <6> QED
            BY <1>1, <1>3, <3>2, <6>2
        <5> QED
          BY <5>1
      <4> QED
        BY <1>3, <1>7, <4>3, <4>4 DEF RowsGrow
    <3> QED
      BY <3>1, <3>2
  <2>3. Filled(s, all)'
    BY <1>2, <1>10, <2>2, StageFills
  <2> QED
    BY <1>4, <1>6, <1>8, <2>3 DEF OnItsWay
<1>11. CASE k + 1 < Depth(s)
  BY <1>2, <1>4, <1>6, <1>8, <1>11 DEF OnItsWay
<1> QED
  BY <1>2, <1>8, <1>9, <1>10, <1>11

\* A step within the entries keeps what is known of the runs.
LEMMA WithinEntries ==
  ASSUME FillInv, RowsGrow, EntriesUnchanged,
         \A s \in Scripts : entry[s] = 0 => job'[s].stages = <<>> /\ job'[s].lacks = {},
         \A s \in Scripts : \A j, all :
           j = job'[s] /\ entry[s] > 0 /\ all = StagesOf(s, Entries[s][entry[s]]) => OnItsWay(s, j, all)'
  PROVE  FillInv'
<1>1. entry' = entry /\ clean' = clean /\ done' = done
  BY DEF EntriesUnchanged
<1>2. ASSUME NEW s \in Scripts, NEW i, Filled(s, StagesOf(s, Entries[s][i]))
      PROVE  Filled(s, StagesOf(s, Entries[s][i]))'
  <2>1. PICK all : all = StagesOf(s, Entries[s][i])
    OBVIOUS
  <2>2. Filled(s, all)'
    BY <1>2, <2>1, FilledGrows
  <2> QED
    BY <2>1, <2>2 DEF Filled
<1>3. SeedsFillGaps'
  BY <1>1, <1>2 DEF FillInv, SeedsFillGaps
<1>4. ASSUME NEW s \in Scripts
      PROVE  /\ entry'[s] \in 0 .. Len(Entries[s])
             /\ entry'[s] = 0 => job'[s].stages = <<>> /\ job'[s].lacks = {}
             /\ entry'[s] > 0 => OnItsWay(s, job[s], StagesOf(s, Entries[s][entry[s]]))'
             /\ entry'[s] > 0 /\ clean'[s] =>
                  \A i \in DOMAIN Entries[s] : i < entry'[s] => Filled(s, StagesOf(s, Entries[s][i]))'
  <2>1. entry'[s] > 0 => OnItsWay(s, job[s], StagesOf(s, Entries[s][entry[s]]))'
    <3>1. PICK j : j = job'[s]
      OBVIOUS
    <3>2. PICK all : all = StagesOf(s, Entries[s][entry[s]])
      OBVIOUS
    <3>3. entry[s] > 0 => OnItsWay(s, j, all)'
      BY <3>1, <3>2
    <3>4. Filled(s, all)' => Filled(s, StagesOf(s, Entries[s][entry[s]]))'
      BY <1>1, <3>2 DEF Filled
    <3> QED
      BY <1>1, <3>1, <3>2, <3>3, <3>4 DEF OnItsWay
  <2> QED
    BY <1>1, <1>2, <2>1 DEF FillInv
<1> QED
  BY <1>1, <1>3, <1>4 DEF FillInv

\* A script that is not the writer of a step is no further for it.
OthersStay(w) ==
  \A v \in Writers \ {w} : /\ job'[v].at = job[v].at /\ job'[v].stages = job[v].stages
                           /\ job'[v].lacks = job[v].lacks

\* A step of one writer leaves the walks of the others where they were.
LEMMA OthersAreStill ==
  ASSUME RowsInv, NEW w \in Writers, CatalogStep(w)
  PROVE  OthersStay(w)
<1>1. job \in [Writers -> JobSet]
  BY DEF RowsInv
<1>2. \A j : Advance(w, j) => OthersStay(w)
  BY <1>1 DEF Advance, OthersStay
<1>3. \A p : HasInserted(w, p) => OthersStay(w)
  BY DEF HasInserted, OthersStay
<1> QED
  BY <1>2, <1>3 DEF CatalogStep, Begins, GoesOnFrom, WillInsert

\* A clean script is as far as it was when another writer takes a step.
LEMMA FillOthers ==
  ASSUME RowsInv, FillInv, NEW w \in Writers, CatalogStep(w), NEW s \in Scripts, s # w,
         NEW j, j = job'[s]
  PROVE  /\ entry[s] = 0 => j.stages = <<>> /\ j.lacks = {}
         /\ \A all : entry[s] > 0 /\ all = StagesOf(s, Entries[s][entry[s]]) => OnItsWay(s, j, all)'
<1>1. RowsGrow /\ OthersStay(w) /\ s \in Writers \ {w}
  BY CatalogGrows, OthersAreStill DEF Writers
<1>2. PICK k : k = job[s]
  OBVIOUS
<1>3. j.at = k.at /\ j.stages = k.stages /\ j.lacks = k.lacks
  BY <1>1, <1>2 DEF OthersStay
<1>4. ASSUME NEW all, entry[s] > 0, all = StagesOf(s, Entries[s][entry[s]])
      PROVE  OnItsWay(s, j, all)'
  <2>1. OnItsWay(s, k, all)
    BY <1>2, <1>4 DEF FillInv
  <2> QED
    BY <1>1, <1>3, <2>1, OnItsWayStays
<1> QED
  BY <1>2, <1>3, <1>4 DEF FillInv

\* An entry a clean run is through with is filled.
LEMMA ThroughWithEntry ==
  ASSUME RowsInv, NEW s \in Scripts, NEW all, ScriptStages(s, all), OnItsWay(s, job[s], all),
         job[s].stages = <<>>
  PROVE  Filled(s, all)
<1>1. job[s].at \in Seq(Names) /\ Len(job[s].at) \in Nat /\ all \in Seq(Stages) /\ Len(all) \in Nat
  BY LenProperties DEF RowsInv, JobSet, Writers, ScriptStages
<1>2. Len(job[s].at) >= Depth(s)
  <2>1. CASE s = "seed:catalog" /\ Len(job[s].at) = 3
    BY <2>1 DEF Depth
  <2>2. CASE job[s].stages = SubSeq(all, Len(job[s].at) + 1, Len(all)) /\ Len(job[s].at) # Len(all)
    <3>1. PICK m : m = Len(job[s].at) + 1
      OBVIOUS
    <3>2. m \in Nat /\ m >= 1 /\ m <= Len(all)
      BY <1>1, <2>2, <3>1 DEF OnItsWay
    <3>3. \A i \in m .. Len(all) : all[i] \in Stages
      <4>1. \A i \in m .. Len(all) : i \in 1 .. Len(all)
        BY <1>1, <3>2
      <4> QED
        BY <1>1, <4>1, ElementOfSeq
    <3>4. Len(SubSeq(all, m, Len(all))) = Len(all) - m + 1
      BY <1>1, <3>2, <3>3, SubSeqProperties
    <3>5. Len(SubSeq(all, m, Len(all))) = 0
      BY <2>2, <3>1, EmptySeq
    <3>6. Len(all) - m + 1 # 0
      BY <1>1, <3>2
    <3> QED
      BY <3>4, <3>5, <3>6
  <2>3. CASE Len(job[s].at) = Len(all)
    BY <2>3 DEF ScriptStages
  <2> QED
    BY <2>1, <2>2, <2>3 DEF OnItsWay
<1> QED
  BY <1>2 DEF OnItsWay

\* A script at the start of an entry is on its way.
LEMMA StartingOnItsWay ==
  ASSUME NEW s \in Scripts, NEW all, ScriptStages(s, all), NEW j, j.at = <<>>, j.stages = all
  PROVE  OnItsWay(s, j, all)'
<1>1. Len(j.at) = 0 /\ all \in Seq(Stages) /\ Len(all) \in Nat /\ Depth(s) \in {3, 4}
  BY EmptySeq, LenProperties DEF ScriptStages, Depth
<1>2. SubSeq(all, 0 + 1, Len(all)) = all
  <2>1. SubSeq(all, 1, Len(all)) = all
    BY <1>1, SubSeqFull
  <2> QED
    BY <2>1
<1>3. Follows(j.at, all)
  BY <1>1 DEF Follows
<1> QED
  BY <1>1, <1>2, <1>3 DEF OnItsWay

\* The entries a script has passed without a failure are filled.
LEMMA PassedEntries ==
  ASSUME RowsInv, FillInv, NEW s \in Scripts, NEW i, Turns(s, i, TRUE),
         NEW l \in DOMAIN Entries[s], l < i
  PROVE  Filled(s, StagesOf(s, Entries[s][l]))
<1>1. /\ Len(Entries[s]) \in Nat /\ DOMAIN Entries[s] = 1 .. Len(Entries[s])
      /\ entry[s] \in 0 .. Len(Entries[s])
  BY EntriesTyped DEF FillInv
<1>2. CASE i = 1
  BY <1>1, <1>2
<1>3. CASE entry[s] > 0 /\ job[s].stages = <<>> /\ i = entry[s] + 1 /\ clean[s]
  <2>1. CASE l < entry[s]
    BY <1>3, <2>1 DEF FillInv
  <2>2. CASE l = entry[s]
    <3>1. PICK all : all = StagesOf(s, Entries[s][l])
      OBVIOUS
    <3>2. ScriptStages(s, all)
      BY <1>1, <3>1, EntriesTyped
    <3>3. OnItsWay(s, job[s], all)
      BY <1>3, <2>2, <3>1 DEF FillInv
    <3> QED
      BY <1>3, <3>1, <3>2, <3>3, ThroughWithEntry
  <2> QED
    BY <1>1, <1>3, <2>1, <2>2
<1> QED
  BY <1>2, <1>3 DEF Turns

\* A script that turns to its next entry, or ends, has filled the one before.
LEMMA TurnsFill ==
  ASSUME RowsInv, FillInv, NEW s \in Scripts, NEW i, NEW unspoilt, Turns(s, i, unspoilt)
  PROVE  FillInv'
<1>1. PICK j : /\ Begins(s, j) /\ j.at = <<>>
               /\ j.stages = IF i <= Len(Entries[s]) THEN StagesOf(s, Entries[s][i]) ELSE <<>>
  BY TurnsBegins
<1>2. /\ i \in 1 .. Len(Entries[s]) + 1 /\ unspoilt \in BOOLEAN
      /\ Len(Entries[s]) \in Nat /\ DOMAIN Entries[s] = 1 .. Len(Entries[s])
      /\ entry' = [entry EXCEPT ![s] = IF i <= Len(Entries[s]) THEN i ELSE 0]
      /\ clean' = [clean EXCEPT ![s] = unspoilt]
      /\ done' = IF i > Len(Entries[s]) /\ unspoilt THEN done \union {s} ELSE done
  BY EntriesTyped DEF Turns, Goes
<1>3. s \in Writers /\ job' = [job EXCEPT ![s] = j] /\ job \in [Writers -> JobSet] /\ j.lacks = {}
  BY <1>1 DEF Writers, Begins, Advance, RowsInv
<1>4. CatalogStep(s) /\ RowsGrow
  BY <1>1, <1>3, CatalogGrows DEF CatalogStep
<1>5. ASSUME NEW t \in Scripts, NEW l, Filled(t, StagesOf(t, Entries[t][l]))
      PROVE  Filled(t, StagesOf(t, Entries[t][l]))'
  <2>1. PICK all : all = StagesOf(t, Entries[t][l])
    OBVIOUS
  <2>2. Filled(t, all)'
    BY <1>4, <1>5, <2>1, FilledGrows
  <2> QED
    BY <2>1, <2>2 DEF Filled
<1>6. unspoilt => \A l \in DOMAIN Entries[s] : l < i => Filled(s, StagesOf(s, Entries[s][l]))'
  <2>1. ASSUME unspoilt, NEW l \in DOMAIN Entries[s], l < i
        PROVE  Filled(s, StagesOf(s, Entries[s][l]))'
    <3>1. Turns(s, i, TRUE)
      BY <1>2, <2>1, Zenon
    <3> QED
      BY <1>5, <2>1, <3>1, PassedEntries
  <2> QED
    BY <2>1
<1>7. SeedsFillGaps'
  <2>1. ASSUME NEW t \in done', NEW l \in DOMAIN Entries[t]
        PROVE  Filled(t, StagesOf(t, Entries[t][l]))'
    <3>1. CASE t \in done
      BY <1>5, <2>1, <3>1 DEF FillInv, SeedsFillGaps
    <3>2. CASE t \notin done
      <4>1. t = s /\ i > Len(Entries[s]) /\ unspoilt
        BY <1>2, <2>1, <3>2, Zenon
      <4>2. l < i
        BY <1>2, <2>1, <4>1
      <4> QED
        BY <1>6, <2>1, <4>1, <4>2
    <3> QED
      BY <3>1, <3>2
  <2> QED
    BY <2>1 DEF SeedsFillGaps
<1>8. done' \subseteq Scripts /\ clean' \in [Scripts -> BOOLEAN] /\ DOMAIN entry' = Scripts
  <2>1. done' \subseteq Scripts
    BY <1>2, Zenon DEF FillInv
  <2>2. clean' \in [Scripts -> BOOLEAN]
    BY <1>2 DEF FillInv
  <2>3. DOMAIN entry' = Scripts
    BY <1>2 DEF FillInv
  <2> QED
    BY <2>1, <2>2, <2>3
<1>9. ASSUME NEW t \in Scripts
      PROVE  /\ entry'[t] \in 0 .. Len(Entries[t])
             /\ entry'[t] = 0 => job'[t].stages = <<>> /\ job'[t].lacks = {}
             /\ entry'[t] > 0 => OnItsWay(t, job[t], StagesOf(t, Entries[t][entry[t]]))'
             /\ entry'[t] > 0 /\ clean'[t] =>
                  \A l \in DOMAIN Entries[t] : l < entry'[t] => Filled(t, StagesOf(t, Entries[t][l]))'
  <2>1. PICK k : k = job'[t]
    OBVIOUS
  <2>2. PICK all : all = StagesOf(t, Entries[t][entry'[t]])
    OBVIOUS
  <2>3. Filled(t, all)' => Filled(t, StagesOf(t, Entries[t][entry[t]]))'
    BY <2>2 DEF Filled
  <2>4. OnItsWay(t, k, all)' => OnItsWay(t, job[t], StagesOf(t, Entries[t][entry[t]]))'
    BY <2>1, <2>2, <2>3 DEF OnItsWay
  <2>5. CASE t # s
    <3>1. entry'[t] = entry[t] /\ clean'[t] = clean[t]
      BY <1>2, <2>5 DEF FillInv
    <3>2. /\ entry[t] = 0 => k.stages = <<>> /\ k.lacks = {}
          /\ entry[t] > 0 => OnItsWay(t, k, all)'
      BY <1>3, <1>4, <2>1, <2>2, <2>5, <3>1, FillOthers
    <3>3. entry[t] > 0 /\ clean[t] =>
            \A l \in DOMAIN Entries[t] : l < entry[t] => Filled(t, StagesOf(t, Entries[t][l]))'
      BY <1>5 DEF FillInv
    <3> QED
      BY <2>1, <2>4, <3>1, <3>2, <3>3 DEF FillInv
  <2>6. CASE t = s
    <3>1. entry'[t] = IF i <= Len(Entries[s]) THEN i ELSE 0
      BY <1>2, <2>6 DEF FillInv
    <3>2. clean'[t] = unspoilt /\ k = j
      BY <1>2, <1>3, <2>1, <2>6 DEF FillInv
    <3>3. CASE i <= Len(Entries[s])
      <4>1. i \in 1 .. Len(Entries[s]) /\ entry'[t] = i
        BY <1>2, <3>1, <3>3
      <4>2. ScriptStages(s, all) /\ j.stages = all
        BY <1>1, <2>2, <2>6, <3>3, <4>1, EntriesTyped
      <4>3. OnItsWay(t, k, all)'
        BY <1>1, <2>6, <3>2, <4>2, StartingOnItsWay
      <4>4. clean'[t] => \A l \in DOMAIN Entries[t] : l < entry'[t] => Filled(t, StagesOf(t, Entries[t][l]))'
        BY <1>6, <2>6, <3>2, <4>1
      <4> QED
        BY <2>4, <2>6, <4>1, <4>3, <4>4
    <3>4. CASE i > Len(Entries[s])
      <4>1. entry'[t] = 0
        BY <1>2, <3>1, <3>4
      <4>2. ~(i <= Len(Entries[s]))
        BY <1>2, <3>4
      <4>3. k.stages = <<>> /\ k.lacks = {}
        BY <1>1, <1>3, <3>2, <4>2
      <4> QED
        BY <1>2, <2>1, <2>6, <4>1, <4>3
    <3> QED
      BY <1>2, <3>3, <3>4
  <2> QED
    BY <2>5, <2>6
<1> QED
  BY <1>7, <1>8, <1>9 DEF FillInv

\* Every step keeps what a clean run has filled so far.
LEMMA FillStep ==
  ASSUME RowsInv, FillInv, SeedsStep
  PROVE  FillInv'
<1> Sellers \cap Scripts = {} /\ Sellers \subseteq Writers /\ Scripts \subseteq Writers
  BY CatalogAssumption DEF Writers
<1>1. CASE \E s \in Scripts : \E i, unspoilt : Turns(s, i, unspoilt)
  BY <1>1, TurnsFill
<1>2. ASSUME NEW w \in Writers, CatalogStep(w), EntriesUnchanged,
             w \in Scripts =>
               /\ entry[w] > 0
               /\ \A j, all : j = job'[w] /\ all = StagesOf(w, Entries[w][entry[w]])
                              => OnItsWay(w, j, all)'
      PROVE  FillInv'
  <2>1. RowsGrow
    BY <1>2, CatalogGrows
  <2>2. ASSUME NEW s \in Scripts, entry[s] = 0
        PROVE  job'[s].stages = <<>> /\ job'[s].lacks = {}
    <3>1. s # w
      BY <1>2, <2>2
    <3> QED
      BY <1>2, <2>2, <3>1, FillOthers
  <2>3. ASSUME NEW s \in Scripts, NEW j, NEW all, j = job'[s], entry[s] > 0,
               all = StagesOf(s, Entries[s][entry[s]])
        PROVE  OnItsWay(s, j, all)'
    <3>1. CASE s = w
      BY <1>2, <2>3, <3>1
    <3>2. CASE s # w
      BY <1>2, <2>3, <3>2, FillOthers
    <3> QED
      BY <3>1, <3>2
  <2> QED
    BY <1>2, <2>1, <2>2, <2>3, WithinEntries
<1>3. CASE \E w \in Sellers : \E j : Begins(w, j) /\ EntriesUnchanged
  <2>1. PICK w \in Sellers : \E j : Begins(w, j) /\ EntriesUnchanged
    BY <1>3
  <2>2. w \in Writers /\ w \notin Scripts /\ CatalogStep(w)
    BY <2>1 DEF CatalogStep
  <2> QED
    BY <1>2, <2>1, <2>2
\* A script with a stage or a missing name is at an entry.
<1>4. ASSUME NEW s \in Scripts, job[s].stages # <<>> \/ job[s].lacks # {},
             NEW all, all = StagesOf(s, Entries[s][entry[s]])
      PROVE  entry[s] > 0 /\ OnItsWay(s, job[s], all) /\ ScriptStages(s, all)
  <2>1. entry[s] \in 1 .. Len(Entries[s])
    BY <1>4, EntriesTyped DEF FillInv
  <2> QED
    BY <1>4, <2>1, EntriesTyped DEF FillInv
<1>5. ASSUME NEW w \in Writers, NEW n, NEW p, NEW j, GoesOnFrom(w, n, p, j), EntriesUnchanged
      PROVE  FillInv'
  <2>1. CatalogStep(w)
    BY <1>5 DEF CatalogStep
  <2>2. ASSUME w \in Scripts, NEW k, NEW all, k = job'[w], all = StagesOf(w, Entries[w][entry[w]])
        PROVE  entry[w] > 0 /\ OnItsWay(w, k, all)'
    <3>1. job[w].stages # <<>> /\ k = j
      BY <1>5, <2>2 DEF GoesOnFrom, Advance, RowsInv
    <3> QED
      BY <1>4, <1>5, <2>2, <3>1, FindingOnItsWay
  <2> QED
    BY <1>2, <1>5, <2>1, <2>2
<1>6. ASSUME NEW w \in Writers, NEW j, WillInsert(w, j), EntriesUnchanged
      PROVE  FillInv'
  <2>1. CatalogStep(w) /\ RowsGrow
    BY <1>6, CatalogGrows DEF CatalogStep
  <2>2. ASSUME w \in Scripts, NEW k, NEW all, k = job'[w], all = StagesOf(w, Entries[w][entry[w]])
        PROVE  entry[w] > 0 /\ OnItsWay(w, k, all)'
    <3>1. PICK old : old = job[w]
      OBVIOUS
    <3>2. k.at = old.at /\ k.stages = old.stages /\ old.stages # <<>>
      BY <1>6, <2>2, <3>1 DEF WillInsert, Advance, RowsInv
    <3>3. entry[w] > 0 /\ OnItsWay(w, old, all)
      BY <1>4, <2>2, <3>1, <3>2
    <3> QED
      BY <2>1, <3>2, <3>3, OnItsWayStays
  <2> QED
    BY <1>2, <1>6, <2>1, <2>2
<1>7. ASSUME NEW w \in Writers, NEW p, HasInserted(w, p), EntriesUnchanged
      PROVE  FillInv'
  <2>1. CatalogStep(w)
    BY <1>7 DEF CatalogStep
  <2>2. ASSUME w \in Scripts, NEW k, NEW all, k = job'[w], all = StagesOf(w, Entries[w][entry[w]])
        PROVE  entry[w] > 0 /\ OnItsWay(w, k, all)'
    <3>1. job[w].lacks # {}
      BY <1>7 DEF HasInserted
    <3> QED
      BY <1>4, <1>7, <2>2, <3>1, InsertingOnItsWay
  <2> QED
    BY <1>2, <1>7, <2>1, <2>2
<1> QED
  BY <1>1, <1>3, <1>5, <1>6, <1>7 DEF SeedsStep

-----------------------------------------------------------------------------
(* The vehicle catalog: running a script again                              *)

\* The first i elements of a sequence.
LEMMA PrefixIs ==
  ASSUME NEW S, NEW q \in Seq(S), NEW i \in 0 .. Len(q)
  PROVE  /\ SubSeq(q, 1, i) \in Seq(S) /\ Len(SubSeq(q, 1, i)) = i
         /\ \A l \in 1 .. i : SubSeq(q, 1, i)[l] = q[l]
<1>1. Len(q) \in Nat
  BY LenProperties
<1>2. i \in Nat /\ i - 1 + 1 = i /\ \A l \in 1 .. i : l \in 1 .. Len(q) /\ 1 + l - 1 = l
  BY <1>1
<1>3. \A l \in 1 .. i : q[l] \in S
  BY <1>2, ElementOfSeq
<1>4. /\ SubSeq(q, 1, i) \in Seq(S)
      /\ Len(SubSeq(q, 1, i)) = IF 1 <= i THEN i - 1 + 1 ELSE 0
      /\ \A l \in 1 .. i - 1 + 1 : SubSeq(q, 1, i)[l] = q[1 + l - 1]
  BY <1>2, <1>3, SubSeqProperties
<1> QED
  BY <1>2, <1>4

\* A prefix is the one before it with one more element.
LEMMA PrefixGrows ==
  ASSUME NEW S, NEW q \in Seq(S), NEW i \in 1 .. Len(q)
  PROVE  SubSeq(q, 1, i) = Append(SubSeq(q, 1, i - 1), q[i]) /\ SubSeq(q, 1, i - 1) \in Seq(S)
<1>1. Len(q) \in Nat
  BY LenProperties
<1>2. i \in 0 .. Len(q) /\ i - 1 \in 0 .. Len(q) /\ i - 1 + 1 = i /\ q[i] \in S
  BY <1>1, ElementOfSeq
<1>3. PICK a \in Seq(S) : /\ a = SubSeq(q, 1, i) /\ Len(a) = i /\ \A l \in 1 .. i : a[l] = q[l]
  BY <1>2, PrefixIs
<1>4. PICK b \in Seq(S) : /\ b = SubSeq(q, 1, i - 1) /\ Len(b) = i - 1 /\ \A l \in 1 .. i - 1 : b[l] = q[l]
  BY <1>2, PrefixIs
<1>5. PICK c \in Seq(S) : /\ c = Append(b, q[i]) /\ Len(c) = i /\ c[i] = q[i]
                          /\ \A l \in 1 .. i - 1 : c[l] = b[l]
  <2>1. b \in Seq(S) /\ q[i] \in S
    BY <1>2, <1>4
  <2>2. PICK c \in Seq(S) : c = Append(b, q[i])
    BY <2>1, AppendProperties
  <2>3. /\ Len(c) = Len(b) + 1 /\ c[Len(b) + 1] = q[i]
        /\ \A l \in 1 .. Len(b) : c[l] = b[l]
    BY <2>1, <2>2, AppendProperties
  <2> QED
    BY <1>2, <1>4, <2>2, <2>3
<1>6. a = c
  BY <1>2, <1>3, <1>4, <1>5, SeqEqual
<1> QED
  BY <1>3, <1>4, <1>5, <1>6

\* Two names that differ by case, below one parent, are twins.
LEMMA SameParentTwins ==
  ASSUME NEW a \in Seq(Names), NEW x \in Names, NEW y \in Names, x # y, SameName(x, y)
  PROVE  Twins(Append(a, x), Append(a, y))
<1>1. Append(a, x) # Append(a, y)
  BY AppendFacts
<1> QED
  BY <1>1, AppendFacts DEF Twins

\* Two paths along the same stages that part do so at twins.
LEMMA PathsPartAtTwins ==
  ASSUME RowsInv, NEW s \in Scripts, NEW all, ScriptStages(s, all),
         NEW at \in Seq(Names), Follows(at, all), NEW p \in Rows, Follows(p, all),
         Len(at) < Len(p), Len(at) < Depth(s), SubSeq(p, 1, Len(at)) # at
  PROVE  Beside(at)
<1>1. p \in Seq(Names) /\ Len(p) \in Nat /\ Len(at) \in Nat /\ Depth(s) \in {3, 4}
  BY LenProperties DEF RowsInv, Depth
<1>2. ASSUME NEW i \in 1 .. Len(at)
      PROVE  SameName(at[i], p[i]) /\ at[i] \in Names /\ p[i] \in Names
  <2>1. i \in 1 .. Len(p) /\ i \in 1 .. Depth(s) - 1
    BY <1>1
  <2>2. PICK n : all[i].names = {n}
    BY <2>1 DEF ScriptStages
  <2>3. IF all[i].match = "ilike" THEN SameName(at[i], n) ELSE at[i] = n
    BY <2>2 DEF Follows
  <2>4. IF all[i].match = "ilike" THEN SameName(p[i], n) ELSE p[i] = n
    BY <2>1, <2>2 DEF Follows
  <2> QED
    BY <1>1, <2>1, <2>3, <2>4, ElementOfSeq DEF SameName
<1>3. \E i \in 1 .. Len(at) : at[i] # p[i]
  <2>1. Len(at) \in 0 .. Len(p)
    BY <1>1
  <2>2. SubSeq(p, 1, Len(at)) \in Seq(Names) /\ Len(SubSeq(p, 1, Len(at))) = Len(at)
        /\ \A i \in 1 .. Len(at) : SubSeq(p, 1, Len(at))[i] = p[i]
    BY <1>1, <2>1, PrefixIs
  <2> QED
    BY <2>2, SeqEqual
<1>4. ASSUME NEW i \in 1 .. Len(at), at[i] # p[i], \A l \in 1 .. i - 1 : at[l] = p[l]
      PROVE  Beside(at)
  <2>1. i \in 1 .. Len(p) /\ i - 1 \in 0 .. Len(at) /\ i - 1 \in 0 .. Len(p)
    BY <1>1
  <2>2. SubSeq(at, 1, i - 1) = SubSeq(p, 1, i - 1)
    <3>1. PICK a \in Seq(Names) : a = SubSeq(at, 1, i - 1) /\ Len(a) = i - 1 /\ \A l \in 1 .. i - 1 : a[l] = at[l]
      BY <2>1, PrefixIs
    <3>2. PICK b \in Seq(Names) : b = SubSeq(p, 1, i - 1) /\ Len(b) = i - 1 /\ \A l \in 1 .. i - 1 : b[l] = p[l]
      <4>1. p \in Seq(Names) /\ i - 1 \in 0 .. Len(p)
        BY <1>1, <2>1
      <4> QED
        BY <4>1, PrefixIs
    <3>3. a = b
      BY <1>4, <3>1, <3>2, SeqEqual
    <3> QED
      BY <3>1, <3>2, <3>3
  <2>3. PICK a \in Seq(Names) : a = SubSeq(at, 1, i - 1) /\ SubSeq(at, 1, i) = Append(a, at[i])
                                /\ SubSeq(p, 1, i) = Append(a, p[i])
    BY <1>1, <2>1, <2>2, PrefixGrows
  <2>4. Twins(SubSeq(at, 1, i), SubSeq(p, 1, i))
    BY <1>2, <1>4, <2>3, SameParentTwins
  <2>5. SubSeq(p, 1, i) \in Rows
    BY <2>1 DEF RowsInv
  <2> QED
    BY <2>4, <2>5 DEF Beside
<1>5. \A i \in 1 .. Len(at) : i = 1 \/ i = 2 \/ i = 3
  BY <1>1
<1>6. CASE 1 \in 1 .. Len(at) /\ at[1] # p[1]
  <2>1. \A l \in 1 .. 1 - 1 : at[l] = p[l]
    OBVIOUS
  <2> QED
    BY <1>4, <1>6, <2>1
<1>7. CASE 2 \in 1 .. Len(at) /\ at[2] # p[2] /\ at[1] = p[1]
  <2>1. \A l \in 1 .. 2 - 1 : l = 1
    OBVIOUS
  <2> QED
    BY <1>4, <1>7, <2>1
<1>8. CASE 3 \in 1 .. Len(at) /\ at[3] # p[3] /\ at[1] = p[1] /\ at[2] = p[2]
  <2>1. \A l \in 1 .. 3 - 1 : l = 1 \/ l = 2
    OBVIOUS
  <2> QED
    BY <1>4, <1>8, <2>1
<1> QED
  <2>1. PICK i \in 1 .. Len(at) : at[i] # p[i]
    BY <1>3
  <2>2. i \in {1, 2, 3} /\ (1 <= i => 1 \in 1 .. Len(at)) /\ (2 <= i => 2 \in 1 .. Len(at))
    BY <1>1, <1>5, <2>1
  <2> QED
    BY <1>6, <1>7, <1>8, <2>1, <2>2

\* A place next to a twin stays next to one as rows are added.
LEMMA BesideGrows ==
  ASSUME Rows \subseteq Rows', NEW at, Beside(at)
  PROVE  Beside(at)'
  BY DEF Beside

\* What is below a place next to a twin is next to it as well.
LEMMA BesideBelow ==
  ASSUME NEW at \in Seq(Names), NEW x \in Names, Beside(at)
  PROVE  Beside(Append(at, x))
<1>1. PICK l \in 1 .. Len(at), r \in Rows : Twins(SubSeq(at, 1, l), r)
  BY DEF Beside
<1>2. PICK q \in Seq(Names) : /\ q = Append(at, x) /\ Len(q) = Len(at) + 1 /\ Len(at) \in Nat
                              /\ \A i \in 1 .. Len(at) : q[i] = at[i]
  <2>1. PICK q : q = Append(at, x)
    OBVIOUS
  <2> QED
    BY <2>1, AppendFacts
<1>3. l \in 0 .. Len(at) /\ l \in 0 .. Len(q) /\ l \in 1 .. Len(q) /\ \A i \in 1 .. l : i \in 1 .. Len(at)
  BY <1>1, <1>2
<1>4. PICK a \in Seq(Names) : a = SubSeq(at, 1, l) /\ Len(a) = l /\ \A i \in 1 .. l : a[i] = at[i]
  BY <1>3, PrefixIs
<1>5. PICK b \in Seq(Names) : b = SubSeq(q, 1, l) /\ Len(b) = l /\ \A i \in 1 .. l : b[i] = q[i]
  BY <1>2, <1>3, PrefixIs
<1>6. a = b
  BY <1>2, <1>3, <1>4, <1>5, SeqEqual
<1> QED
  BY <1>1, <1>2, <1>3, <1>4, <1>5, <1>6 DEF Beside

\* A name that a script lacks although it was filled before is lacking below a
\* row with a twin.
LEMMA LackingBesideTwins ==
  ASSUME RowsInv, NEW s \in Scripts, NEW all, ScriptStages(s, all), Filled(s, all),
         NEW at \in Seq(Names), Follows(at, all), Len(at) < Depth(s),
         NEW n \in all[Len(at) + 1].names, Found(at, all[Len(at) + 1].match, n) = {}
  PROVE  Beside(at)
<1> DEFINE k == Len(at)
<1>1. k \in Nat /\ Depth(s) \in {3, 4} /\ k + 1 \in 1 .. Len(all) /\ all \in Seq(Stages) /\ Depth(s) \in 1 .. Len(all)
  BY LenProperties DEF ScriptStages, Depth
<1>2. \A i \in 1 .. Len(all) : all[i] \in Stages
  BY <1>1, ElementOfSeq
<1>3. PICK m \in all[Depth(s)].names : k + 1 = Depth(s) => m = n
  <2>1. all[Depth(s)].names # {}
    BY <1>1, <1>2 DEF Stages, StageOK
  <2> QED
    BY <2>1
<1>4. PICK p \in Rows : Len(p) = Depth(s) /\ Follows(p, all) /\ p[Depth(s)] = m
  BY <1>3 DEF Filled
<1>5. p \in Seq(Names) /\ k + 1 \in 1 .. Len(p) /\ k < Len(p)
  BY <1>1, <1>4 DEF RowsInv
<1>6. Matches(all[k + 1].match, p[k + 1], n)
  <2>1. CASE k + 1 = Depth(s)
    BY <1>3, <1>4, <2>1 DEF Matches, ScriptStages
  <2>2. CASE k + 1 # Depth(s)
    <3>1. k + 1 \in 1 .. Depth(s) - 1
      BY <1>1, <2>2
    <3>2. all[k + 1].match \in {"ilike", "exact"} /\ all[k + 1].names = {n}
      BY <3>1 DEF ScriptStages
    <3>3. IF all[k + 1].match = "ilike" THEN SameName(p[k + 1], n) ELSE p[k + 1] = n
      BY <1>4, <1>5, <3>2 DEF Follows
    <3> QED
      BY <3>2, <3>3 DEF Matches
  <2> QED
    BY <2>1, <2>2
<1>7. SubSeq(p, 1, k) # at
  <2> SUFFICES ASSUME SubSeq(p, 1, k) = at PROVE FALSE
    OBVIOUS
  <2>1. SubSeq(p, 1, k + 1) = Append(at, p[k + 1])
    <3>1. SubSeq(p, 1, k + 1) = Append(SubSeq(p, 1, k + 1 - 1), p[k + 1]) /\ k + 1 - 1 = k
      BY <1>1, <1>5, PrefixGrows
    <3> QED
      BY <3>1
  <2>2. SubSeq(p, 1, k + 1) \in Rows /\ p[k + 1] \in Names
    BY <1>5, ElementOfSeq DEF RowsInv
  <2>3. Append(at, p[k + 1]) \in Found(at, all[k + 1].match, n)
    BY <1>6, <2>1, <2>2, FoundHas
  <2> QED
    BY <2>3
<1> QED
  BY <1>4, <1>5, <1>7, PathsPartAtTwins

\* What a script has done for its entry is done again only beside twins.
AgainOf(s, j) ==
  /\ j.lacks # {} => Beside(j.at)
  /\ j.stages # <<>> /\ Len(j.at) >= Depth(s) => Beside(j.at)

\* Every step keeps that a repeated run finds its rows, except next to a twin.
LEMMA AgainStep ==
  ASSUME RowsInv, FillInv, AgainInv, SeedsStep
  PROVE  AgainInv'
<1>1. Sellers \cap Scripts = {} /\ Sellers \subseteq Writers /\ Scripts \subseteq Writers
  BY CatalogAssumption DEF Writers
<1>2. job \in [Writers -> JobSet] /\ done \subseteq Scripts /\ DOMAIN entry = Scripts
  BY DEF RowsInv, FillInv
\* Scripts other than the writer.
<1>3. ASSUME NEW w \in Writers, CatalogStep(w), NEW s \in done, s # w, entry[s] > 0, NEW j, j = job'[s]
      PROVE  AgainOf(s, j)'
  <2>1. PICK k : k = job[s]
    OBVIOUS
  <2>2. j.at = k.at /\ j.stages = k.stages /\ j.lacks = k.lacks
    BY <1>1, <1>2, <1>3, <2>1, OthersAreStill DEF OthersStay
  <2>3. AgainOf(s, k)
    BY <1>3, <2>1 DEF AgainInv, AgainOf
  <2>4. Beside(k.at) => Beside(k.at)'
    BY <1>3, CatalogGrows, BesideGrows DEF RowsGrow
  <2>5. Beside(j.at)' <=> Beside(k.at)'
    BY <2>2
  <2> QED
    BY <2>2, <2>3, <2>4, <2>5 DEF AgainOf
<1>4. ASSUME done' = done, entry' = entry, NEW w \in Writers, CatalogStep(w),
             w \in done /\ entry[w] > 0 => \A j : j = job'[w] => AgainOf(w, j)'
      PROVE  AgainInv'
  <2>1. ASSUME NEW s \in done, entry[s] > 0
        PROVE  /\ job'[s].lacks # {} => Beside(job[s].at)'
               /\ job'[s].stages # <<>> /\ Len(job'[s].at) >= Depth(s) => Beside(job[s].at)'
    <3>1. PICK j : j = job'[s]
      OBVIOUS
    <3>2. AgainOf(s, j)'
      BY <1>3, <1>4, <2>1, <3>1
    <3> QED
      BY <3>1, <3>2 DEF AgainOf, Beside
  <2> QED
    BY <1>4, <2>1 DEF AgainInv
<1>5. CASE \E w \in Sellers : \E j : Begins(w, j) /\ EntriesUnchanged
  <2>1. PICK w \in Sellers : \E j : Begins(w, j) /\ EntriesUnchanged
    BY <1>5
  <2>2. w \in Writers /\ w \notin done /\ CatalogStep(w) /\ done' = done /\ entry' = entry
    BY <1>1, <1>2, <2>1 DEF CatalogStep, EntriesUnchanged
  <2> QED
    BY <1>4, <2>2
<1>6. CASE \E s \in Scripts : \E i, unspoilt : Turns(s, i, unspoilt)
  <2>0. PICK s \in Scripts : \E i, unspoilt : Turns(s, i, unspoilt)
    BY <1>6
  <2>1. PICK i, unspoilt : Turns(s, i, unspoilt)
    BY <2>0
  <2>2. PICK j : /\ Begins(s, j) /\ j.at = <<>>
                 /\ j.stages = IF i <= Len(Entries[s]) THEN StagesOf(s, Entries[s][i]) ELSE <<>>
    BY <2>1, TurnsBegins
  <2>3. job'[s] = j /\ j.lacks = {} /\ Len(j.at) = 0 /\ Depth(s) \in {3, 4} /\ s \in Writers
    BY <1>1, <1>2, <2>2 DEF Begins, Advance, Depth
  <2>4. AgainOf(s, j)'
    BY <2>3 DEF AgainOf
  <2>5. \A t \in Scripts \ {s} : entry'[t] = entry[t] /\ (t \in done' => t \in done)
    BY <1>2, <2>1, Zenon DEF Turns, Goes
  <2>6. CatalogStep(s)
    BY <2>2 DEF CatalogStep
  <2>7. done' \subseteq Scripts
    BY <1>2, <2>1, Zenon DEF Turns, Goes
  <2>8. ASSUME NEW t \in done', entry'[t] > 0
        PROVE  /\ job'[t].lacks # {} => Beside(job[t].at)'
               /\ job'[t].stages # <<>> /\ Len(job'[t].at) >= Depth(t) => Beside(job[t].at)'
    <3>1. PICK k : k = job'[t]
      OBVIOUS
    <3>2. AgainOf(t, k)'
      <4>1. CASE t = s
        BY <2>3, <2>4, <3>1, <4>1 DEF AgainOf, Beside
      <4>2. CASE t # s
        BY <1>3, <2>3, <2>5, <2>6, <2>7, <2>8, <3>1, <4>2
      <4> QED
        BY <4>1, <4>2
    <3> QED
      BY <3>1, <3>2 DEF AgainOf, Beside
  <2> QED
    BY <2>8 DEF AgainInv
\* A script that ran cleanly before and has stages to come.
<1>7. ASSUME NEW s \in done, NEW all, all = StagesOf(s, Entries[s][entry[s]]), entry[s] > 0
      PROVE  ScriptStages(s, all) /\ OnItsWay(s, job[s], all) /\ Filled(s, all) /\ AgainOf(s, job[s])
  <2>1. entry[s] \in 1 .. Len(Entries[s]) /\ DOMAIN Entries[s] = 1 .. Len(Entries[s])
    BY <1>2, <1>7, EntriesTyped DEF FillInv
  <2> QED
    BY <1>2, <1>7, <2>1, EntriesTyped DEF FillInv, SeedsFillGaps, AgainInv, AgainOf
<1>8. ASSUME NEW w \in Writers, NEW n, NEW p, NEW j, GoesOnFrom(w, n, p, j), EntriesUnchanged
      PROVE  AgainInv'
  <2>1. CatalogStep(w)
    BY <1>8 DEF CatalogStep
  <2>2. job'[w] = j /\ j.lacks = {} /\ job[w].stages # <<>>
    BY <1>2, <1>8 DEF GoesOnFrom, Advance
  <2>3. ASSUME w \in done, entry[w] > 0, j.stages # <<>>, Len(j.at) >= Depth(w)
        PROVE  Beside(j.at)'
    <3>1. PICK all : all = StagesOf(w, Entries[w][entry[w]])
      OBVIOUS
    <3>2. ScriptStages(w, all) /\ OnItsWay(w, job[w], all) /\ AgainOf(w, job[w]) /\ w \in Scripts
      BY <1>2, <1>7, <2>3, <3>1
    <3>3. PICK k \in Nat : k = Len(job[w].at) /\ k + 1 \in 1 .. Len(all)
            /\ Head(job[w].stages) = all[k + 1] /\ all[k + 1] \in Stages
            /\ Tail(job[w].stages) = SubSeq(all, k + 2, Len(all)) /\ job[w].at \in Seq(Names)
      BY <2>2, <3>2, AtStage
    <3>4. p \in Found(job[w].at, all[k + 1].match, n) /\ j.at = p
          /\ j.stages = IF all[k + 1].found = "stop" THEN <<>> ELSE SubSeq(all, k + 2, Len(all))
      BY <1>8, <3>3 DEF GoesOnFrom
    <3>5. PICK x \in Names : p = Append(job[w].at, x)
      BY <3>3, <3>4, FoundIs DEF RowsInv
    <3>6. Len(p) = k + 1 /\ Len(all) \in Nat /\ Depth(w) \in {3, 4}
      BY <3>2, <3>3, <3>5, AppendFacts DEF ScriptStages, Depth
    <3>7. k + 1 # Depth(w)
      <4>1. ASSUME k + 1 = Depth(w) PROVE FALSE
        <5>1. CASE w = "seed:catalog"
          <6>1. k + 1 = 3
            BY <4>1, <5>1 DEF Depth
          <6> QED
            BY <2>3, <3>2, <3>4, <5>1, <6>1 DEF ScriptStages
        <5>2. CASE w # "seed:catalog"
          <6>1. Len(all) < k + 2 /\ k + 2 \in Int /\ Len(all) \in Int
            BY <3>2, <3>6, <4>1, <5>2 DEF ScriptStages
          <6>2. SubSeq(all, k + 2, Len(all)) = <<>>
            BY <6>1, SubSeqEmpty
          <6> QED
            BY <2>3, <3>4, <6>2
        <5> QED
          BY <5>1, <5>2
      <4> QED
        BY <4>1
    <3>8. k >= Depth(w)
      BY <2>3, <3>4, <3>6, <3>7
    <3>9. Beside(job[w].at)
      BY <2>2, <3>2, <3>3, <3>8 DEF AgainOf
    <3>10. Beside(p)
      BY <3>3, <3>5, <3>9, BesideBelow
    <3> QED
      BY <2>1, <3>4, <3>10, CatalogGrows, BesideGrows DEF RowsGrow
  <2>4. w \in done /\ entry[w] > 0 => AgainOf(w, j)'
    BY <2>2, <2>3 DEF AgainOf
  <2> QED
    BY <1>4, <1>8, <2>1, <2>2, <2>4 DEF EntriesUnchanged
<1>9. ASSUME NEW w \in Writers, NEW j, WillInsert(w, j), EntriesUnchanged
      PROVE  AgainInv'
  <2>1. CatalogStep(w)
    BY <1>9 DEF CatalogStep
  <2>2. job'[w] = j /\ j.at = job[w].at /\ j.stages = job[w].stages /\ job[w].stages # <<>>
        /\ Lacking(job[w]) # {}
    BY <1>2, <1>9 DEF WillInsert, Advance
  <2>3. ASSUME w \in done, entry[w] > 0
        PROVE  Beside(j.at)'
    <3>1. PICK all : all = StagesOf(w, Entries[w][entry[w]])
      OBVIOUS
    <3>2. ScriptStages(w, all) /\ OnItsWay(w, job[w], all) /\ AgainOf(w, job[w]) /\ w \in Scripts /\ Filled(w, all)
      BY <1>2, <1>7, <2>3, <3>1
    <3>3. /\ Len(job[w].at) \in Nat /\ Head(job[w].stages) = all[Len(job[w].at) + 1]
          /\ job[w].at \in Seq(Names) /\ Follows(job[w].at, all) /\ Depth(w) \in Nat
      BY <2>2, <3>2, AtStage DEF Depth
    <3>4. Beside(job[w].at)
      <4>1. CASE Len(job[w].at) >= Depth(w)
        BY <2>2, <3>2, <4>1 DEF AgainOf
      <4>2. CASE Len(job[w].at) < Depth(w)
        <5>1. PICK n \in all[Len(job[w].at) + 1].names : Found(job[w].at, all[Len(job[w].at) + 1].match, n) = {}
          BY <2>2, <3>3 DEF Lacking
        <5> QED
          BY <3>2, <3>3, <4>2, <5>1, LackingBesideTwins
      <4> QED
        BY <3>3, <4>1, <4>2
    <3> QED
      BY <2>1, <2>2, <3>4, CatalogGrows, BesideGrows DEF RowsGrow
  <2>4. w \in done /\ entry[w] > 0 => AgainOf(w, j)'
    BY <2>3 DEF AgainOf
  <2> QED
    BY <1>4, <1>9, <2>1, <2>2, <2>4 DEF EntriesUnchanged
<1>10. ASSUME NEW w \in Writers, NEW p, HasInserted(w, p), EntriesUnchanged
       PROVE  AgainInv'
  <2>1. CatalogStep(w)
    BY <1>10 DEF CatalogStep
  <2>2. PICK j : j = job'[w]
    OBVIOUS
  <2>3. j.at = p /\ j.lacks = {} /\ job[w].lacks # {} /\ p \in NewRows(job[w])
    BY <1>10, <2>2 DEF HasInserted
  <2>4. ASSUME w \in done, entry[w] > 0
        PROVE  Beside(j.at)'
    <3>1. Beside(job[w].at)
      BY <2>3, <2>4 DEF AgainInv
    <3>2. job[w].at \in Seq(Names) /\ job[w].lacks \subseteq Names
      BY <1>2 DEF JobSet
    <3>3. PICK x \in Names : p = Append(job[w].at, x)
      BY <2>3, <3>2 DEF NewRows
    <3>4. Beside(p)
      BY <3>1, <3>2, <3>3, BesideBelow
    <3> QED
      BY <2>1, <2>3, <3>4, CatalogGrows, BesideGrows DEF RowsGrow
  <2>5. w \in done /\ entry[w] > 0 => AgainOf(w, j)'
    BY <2>4 DEF AgainOf
  <2> QED
    BY <1>4, <1>10, <2>1, <2>2, <2>5 DEF EntriesUnchanged
<1> QED
  BY <1>5, <1>6, <1>8, <1>9, <1>10 DEF SeedsStep

\* The catalog satisfies the invariant of the seeds before any script has run.
LEMMA CatalogInvInit == OperationsInit => CatalogInv
<1> SUFFICES ASSUME OperationsInit PROVE CatalogInv
  OBVIOUS
<1>1. /\ catalog = [p \in {} |-> "none"] /\ job = [w \in Writers |-> NoJob] /\ careless = {} /\ done = {}
      /\ entry = [s \in Scripts |-> 0] /\ clean = [s \in Scripts |-> TRUE]
  BY DEF OperationsInit, SeedsInit, CatalogInit
<1>2. Rows = {}
  BY <1>1 DEF Rows
<1>3. RowsInv
  BY <1>1, <1>2, NoJobTyped DEF RowsInv, JobOK
<1>4. TwinInv
  BY <1>1, <1>2, NoJobTyped DEF TwinInv, TwinsComeFromRaces, Unrivalled
<1>5. FillInv
  <2>1. \A s \in Scripts : Len(Entries[s]) \in Nat /\ s \in Writers
    BY EntriesTyped DEF Writers
  <2> QED
    BY <1>1, <2>1, NoJobTyped DEF FillInv, SeedsFillGaps
<1>6. AgainInv
  BY <1>1 DEF AgainInv
<1> QED
  BY <1>3, <1>4, <1>5, <1>6 DEF CatalogInv

\* Every step of the catalog keeps it.
LEMMA CatalogInvNext ==
  ASSUME CatalogInv, SeedsNext
  PROVE  CatalogInv'
<1>1. RowsInv /\ TwinInv /\ FillInv /\ AgainInv /\ SeedsStep
  BY SeedsSteps DEF CatalogInv
<1>2. PICK w \in Writers : CatalogStep(w)
  BY <1>1, SeedsStepsAreCatalogSteps
<1> QED
  BY <1>1, <1>2, RowsStep, TwinStep, FillStep, AgainStep DEF CatalogInv

\* The invariant of the seeds is inductive, and the other parts leave it alone.
LEMMA CatalogInvStep ==
  ASSUME CatalogInv, [OperationsNext]_operationsVars
  PROVE  CatalogInv'
<1>1. CASE SeedsNext
  BY <1>1, CatalogInvNext
<1>2. CASE UNCHANGED seedVars
  <2>1. UNCHANGED <<catalog, job, careless, entry, clean, done>>
    BY <1>2 DEF seedVars, catalogVars
  <2>2. RowsInv'
    BY <2>1 DEF CatalogInv, RowsInv, JobOK, Rows, Found
  <2>3. TwinInv'
    BY <2>1 DEF CatalogInv, TwinInv, TwinsComeFromRaces, Unrivalled, NewRows, Rows
  <2>4. FillInv'
    <3>1. RowsGrow /\ EntriesUnchanged /\ FillInv
      BY <2>1 DEF CatalogInv, RowsGrow, EntriesUnchanged, Rows
    <3>2. ASSUME NEW s \in Scripts, NEW j, NEW all, j = job'[s], entry[s] > 0,
                 all = StagesOf(s, Entries[s][entry[s]])
          PROVE  OnItsWay(s, j, all)'
      <4>1. OnItsWay(s, j, all)
        BY <2>1, <3>1, <3>2 DEF FillInv
      <4> QED
        BY <3>1, <4>1, OnItsWayStays
    <3>3. \A s \in Scripts : entry[s] = 0 => job'[s].stages = <<>> /\ job'[s].lacks = {}
      BY <2>1, <3>1 DEF FillInv
    <3> QED
      BY <3>1, <3>2, <3>3, WithinEntries
  <2>5. AgainInv'
    BY <2>1 DEF CatalogInv, AgainInv, Beside, Rows
  <2> QED
    BY <2>2, <2>3, <2>4, <2>5 DEF CatalogInv
<1> QED
  BY <1>1, <1>2 DEF OperationsNext, operationsVars

\* So it holds throughout.
LEMMA CatalogInvariant == OperationsSpec => []CatalogInv
<1> QED
  BY CatalogInvInit, CatalogInvStep, PTL DEF OperationsSpec

\* Rows whose names differ by their case only come from an exact lookup or from
\* two writers at once.
THEOREM TwinsCorrect == OperationsSpec => []TwinsComeFromRaces
<1>1. CatalogInv => TwinsComeFromRaces
  BY DEF CatalogInv, TwinInv
<1> QED
  BY <1>1, CatalogInvariant, PTL

\* A script that ran to its end cleanly has filled its gaps, whatever ran next to it.
THEOREM SeedsCorrect == OperationsSpec => []SeedsFillGaps
<1>1. CatalogInv => SeedsFillGaps
  BY DEF CatalogInv, FillInv
<1> QED
  BY <1>1, CatalogInvariant, PTL

\* Running it again adds nothing but beside twins.
LEMMA AgainAddsNothing ==
  ASSUME CatalogInv, SeedsNext, NEW s \in done, job'[s] # job[s], NEW p \in Rows' \ Rows
  PROVE  Ambiguous(p)
<1>1. RowsInv /\ FillInv /\ AgainInv /\ SeedsStep /\ job \in [Writers -> JobSet] /\ s \in Scripts /\ s \in Writers
  BY SeedsSteps DEF CatalogInv, RowsInv, FillInv, Writers
<1>2. PICK w \in Writers : CatalogStep(w)
  BY <1>1, SeedsStepsAreCatalogSteps
<1>3. PICK p0 : HasInserted(w, p0)
  BY <1>2 DEF CatalogStep, Begins, GoesOnFrom, WillInsert, Rows
<1>4. PICK x \in Names : x \in job[w].lacks /\ p = Append(job[w].at, x) /\ job[w].at \in Seq(Names)
  <2>1. p \in NewRows(job[w])
    BY <1>3 DEF HasInserted
  <2>2. job[w].at \in Seq(Names) /\ job[w].lacks \subseteq Names
    BY <1>1 DEF JobSet
  <2> QED
    BY <2>1, <2>2 DEF NewRows
<1>5. job[s].at = job[w].at /\ job[s].lacks # {}
  <2>1. CASE s = w
    BY <1>4, <2>1
  <2>2. CASE s # w
    <3>1. PICK k \in JobSet : k = job[s]
      BY <1>1
    <3>2. PICK k2 \in JobSet : k2 = job'[s]
      BY <1>1, <1>3 DEF HasInserted
    <3>3. k2.at = k.at /\ k2.stages = k.stages /\ k2.lacks = k.lacks
          /\ k2.beaten = (k.beaten \/ Beats(NewRows(job[w]), k))
      BY <1>1, <1>3, <2>2, <3>1, <3>2, Zenon DEF HasInserted
    <3>4. k2.beaten # k.beaten
      BY <3>1, <3>2, <3>3 DEF JobSet
    <3>5. Beats(NewRows(job[w]), k)
      <4>1. k.beaten \in BOOLEAN /\ k2.beaten \in BOOLEAN
        BY DEF JobSet
      <4> QED
        BY <3>3, <3>4, <4>1, Zenon
    <3>6. PICK r \in NewRows(job[w]), q \in NewRows(k) : Twins(r, q)
      BY <3>5 DEF Beats
    <3>7. job[w].at \in Seq(Names) /\ job[w].lacks \subseteq Names /\ k.at \in Seq(Names) /\ k.lacks \subseteq Names
      BY <1>1 DEF JobSet
    <3>8. PICK y \in Names : r = Append(job[w].at, y)
      BY <3>6, <3>7 DEF NewRows
    <3>9. PICK z \in Names : z \in k.lacks /\ q = Append(k.at, z)
      BY <3>6, <3>7 DEF NewRows
    <3> QED
      BY <3>1, <3>6, <3>7, <3>8, <3>9, TwinsShareParent
  <2> QED
    BY <2>1, <2>2
<1>6. Beside(job[s].at)
  <2>1. entry[s] > 0
    BY <1>1, <1>5, EntriesTyped DEF FillInv
  <2> QED
    BY <1>1, <1>5, <2>1 DEF AgainInv
<1>7. Beside(p)
  BY <1>4, <1>5, <1>6, BesideBelow
<1>8. PICK l \in 1 .. Len(p), r \in Rows : Twins(SubSeq(p, 1, l), r)
  BY <1>7 DEF Beside
<1>9. p \in Seq(Names) /\ Len(p) \in Nat
  BY <1>4, AppendFacts, LenProperties
<1>10. l \in 0 .. Len(p) /\ l \in Nat \ {0}
  BY <1>8, <1>9
<1>11. SubSeq(p, 1, l) # <<>>
  <2>1. Len(SubSeq(p, 1, l)) = l
    BY <1>9, <1>10, PrefixIs
  <2> QED
    BY <1>10, <2>1, EmptySeq
<1> QED
  BY <1>8, <1>10, <1>11 DEF Ambiguous, Prefixes

\* A script that ran to its end cleanly adds nothing when it runs again, except
\* below names that stand in two spellings.
THEOREM RerunsCorrect == OperationsSpec => RerunAddsNothing
<1> DEFINE Again == \A s \in done : job'[s] # job[s] => \A p \in Rows' \ Rows : Ambiguous(p)
<1>1. CatalogInv /\ [OperationsNext]_operationsVars => [Again]_seedVars
  <2> SUFFICES ASSUME CatalogInv, [OperationsNext]_operationsVars, seedVars' # seedVars
               PROVE  Again
    OBVIOUS
  <2>1. SeedsNext
    BY DEF OperationsNext, operationsVars
  <2> QED
    BY <2>1, AgainAddsNothing
<1> QED
  BY <1>1, CatalogInvariant, PTL DEF OperationsSpec, RerunAddsNothing

-----------------------------------------------------------------------------
(* The migrations                                                           *)

EngineSet == [burns : Burns \union {Missing}, figures : Figures \union {Missing}]

TrimSet == [doors : DoorCounts \union {Missing}, engine : EngineSet]

Car(condition, exterior, interior, doors, engine, fiscal, extras) ==
  [condition |-> condition, exterior |-> exterior, interior |-> interior,
   doors |-> doors, engine |-> engine, fiscal |-> fiscal, extras |-> extras]

IsCar(v) == v = Car(v.condition, v.exterior, v.interior, v.doors, v.engine, v.fiscal, v.extras)

\* A table of cars.
AreCars(v) == v = [c \in DOMAIN v |-> v[c]] /\ \A c \in DOMAIN v : IsCar(v[c])

\* A database with the first i migrations; before the last one a car of a
\* finition has no engine of its own.
DatabaseOK(db, i) ==
  /\ db = [t |-> db.t, p |-> db.p, v |-> db.v]
  /\ db.t \in [Finitions -> TrimSet] /\ db.p \in [Finitions -> Seq(EngineSet)]
  /\ AreCars(db.v) /\ DOMAIN db.v \subseteq Cars
  /\ i < 5 => \A c \in DOMAIN db.v : FinitionOf[c] # Missing => db.v[c].engine = NoEngine

MigrationInv ==
  /\ applied \in 0 .. 5 /\ DatabaseOK(Database, applied)
  /\ AreCars(told) /\ DOMAIN told = DOMAIN vehicle
  /\ CarsShowWhatWasTold

DB(t, p, v) == [t |-> t, p |-> p, v |-> v]

\* What a car is made of is what was put in.
LEMMA CarIs ==
  ASSUME NEW a, NEW b, NEW i, NEW d, NEW e, NEW f, NEW x
  PROVE  /\ IsCar(Car(a, b, i, d, e, f, x))
         /\ Car(a, b, i, d, e, f, x).condition = a /\ Car(a, b, i, d, e, f, x).exterior = b
         /\ Car(a, b, i, d, e, f, x).interior = i /\ Car(a, b, i, d, e, f, x).doors = d
         /\ Car(a, b, i, d, e, f, x).engine = e /\ Car(a, b, i, d, e, f, x).fiscal = f
         /\ Car(a, b, i, d, e, f, x).extras = x
BY DEF IsCar, Car

\* A car with one of its fields changed.
LEMMA CarFields ==
  ASSUME NEW v, IsCar(v), NEW x
  PROVE  /\ [v EXCEPT !.condition = x] = Car(x, v.exterior, v.interior, v.doors, v.engine, v.fiscal, v.extras)
         /\ [v EXCEPT !.exterior = x] = Car(v.condition, x, v.interior, v.doors, v.engine, v.fiscal, v.extras)
         /\ [v EXCEPT !.interior = x] = Car(v.condition, v.exterior, x, v.doors, v.engine, v.fiscal, v.extras)
         /\ [v EXCEPT !.doors = x] = Car(v.condition, v.exterior, v.interior, x, v.engine, v.fiscal, v.extras)
         /\ [v EXCEPT !.engine = x] = Car(v.condition, v.exterior, v.interior, v.doors, x, v.fiscal, v.extras)
         /\ [v EXCEPT !.fiscal = x] = Car(v.condition, v.exterior, v.interior, v.doors, v.engine, x, v.extras)
<1> DEFINE a == v.condition b == v.exterior i == v.interior d == v.doors e == v.engine
           f == v.fiscal g == v.extras
<1>1. v = [condition |-> a, exterior |-> b, interior |-> i, doors |-> d, engine |-> e, fiscal |-> f, extras |-> g]
  BY DEF IsCar, Car
<1> HIDE DEF a, b, i, d, e, f, g
<1>2. [v EXCEPT !.condition = x] = Car(x, b, i, d, e, f, g)
  BY <1>1 DEF Car
<1>3. [v EXCEPT !.exterior = x] = Car(a, x, i, d, e, f, g)
  BY <1>1 DEF Car
<1>4. [v EXCEPT !.interior = x] = Car(a, b, x, d, e, f, g)
  BY <1>1 DEF Car
<1>5. [v EXCEPT !.doors = x] = Car(a, b, i, x, e, f, g)
  BY <1>1 DEF Car
<1>6. [v EXCEPT !.engine = x] = Car(a, b, i, d, x, f, g)
  BY <1>1 DEF Car
<1>7. [v EXCEPT !.fiscal = x] = Car(a, b, i, d, e, x, g)
  BY <1>1 DEF Car
<1> QED
  BY <1>2, <1>3, <1>4, <1>5, <1>6, <1>7 DEF a, b, i, d, e, f, g

\* A car repainted and its condition converted.
LEMMA CarConverted ==
  ASSUME NEW v, IsCar(v), NEW x, NEW y
  PROVE  [v EXCEPT !.condition = x, !.exterior = y]
           = Car(x, y, v.interior, v.doors, v.engine, v.fiscal, v.extras)
<1> DEFINE a == v.condition b == v.exterior i == v.interior d == v.doors e == v.engine
           f == v.fiscal g == v.extras w == [v EXCEPT !.condition = x, !.exterior = y]
<1>1. v = Car(a, b, i, d, e, f, g)
  BY DEF IsCar
<1> HIDE DEF a, b, i, d, e, f, g
<1>2. v \in [condition : {a}, exterior : {b}, interior : {i}, doors : {d}, engine : {e}, fiscal : {f}, extras : {g}]
  BY <1>1 DEF Car
<1>3. w \in [condition : {x}, exterior : {y}, interior : {i}, doors : {d}, engine : {e}, fiscal : {f}, extras : {g}]
  BY <1>2
<1> HIDE DEF w
<1>4. w = Car(x, y, i, d, e, f, g)
  BY <1>3 DEF Car
<1> QED
  BY <1>4 DEF a, b, i, d, e, f, g, w

\* A car without the columns of the second migration.
LEMMA CarStripped ==
  ASSUME NEW v, IsCar(v)
  PROVE  WithoutSpecFields(v)
           = Car(v.condition, v.exterior, v.interior, Missing, v.engine, Missing, Missing)
<1> DEFINE a == v.condition b == v.exterior i == v.interior d == v.doors e == v.engine
           f == v.fiscal g == v.extras w == WithoutSpecFields(v)
<1>1. v = Car(a, b, i, d, e, f, g)
  BY DEF IsCar
<1> HIDE DEF a, b, i, d, e, f, g
<1>2. v \in [condition : {a}, exterior : {b}, interior : {i}, doors : {d}, engine : {e}, fiscal : {f}, extras : {g}]
  BY <1>1 DEF Car
<1>3. w \in [condition : {a}, exterior : {b}, interior : {i}, doors : {Missing}, engine : {e},
             fiscal : {Missing}, extras : {Missing}]
  BY <1>2 DEF WithoutSpecFields
<1> HIDE DEF w
<1>4. w = Car(a, b, i, Missing, e, Missing, Missing)
  BY <1>3 DEF Car
<1> QED
  BY <1>4 DEF a, b, i, d, e, f, g, w

\* The finer conditions lose nothing of the coarse scale, which is its own image.
LEMMA CoarseIs ==
  ASSUME NEW x
  PROVE  /\ CoarseCondition(FineCondition(x)) = CoarseCondition(x)
         /\ CoarseCondition(CoarseCondition(x)) = CoarseCondition(x)
BY DEF CoarseCondition, FineCondition

\* A colour of the palette reverted to its word is found again.
LEMMA ColoursReturn ==
  ASSUME NEW x \in {"OTHER"} \union ToSet(Palette)
  PROVE  ColourOf(TextOf(x)) = x
<1>1. CASE x \in ToSet(Palette)
  <2>1. TextOf(x) = <<x>>
    BY <1>1 DEF TextOf
  <2>2. ToSet(<<x>>) = {x}
    BY DEF ToSet
  <2>3. PICK k \in DOMAIN Palette : Palette[k] = x
    BY <1>1 DEF ToSet
  <2>4. DOMAIN Palette = 1 .. 15
    BY DEF Palette
  <2>5. \A j \in DOMAIN Palette : Palette[j] = x => j = k
    BY <2>3, <2>4 DEF Palette
  <2>6. {j \in DOMAIN Palette : Palette[j] \in ToSet(TextOf(x))} = {k}
    BY <2>1, <2>2, <2>3, <2>5
  <2>7. Min({k}) = k
    BY <2>3, <2>4 DEF Min
  <2> QED
    BY <2>3, <2>6, <2>7 DEF ColourOf
<1>2. CASE x \notin ToSet(Palette)
  <2>1. x = "OTHER" /\ TextOf(x) = <<>>
    BY <1>2 DEF TextOf
  <2>2. ToSet(<<>>) = {}
    BY DEF ToSet
  <2>3. {j \in DOMAIN Palette : Palette[j] \in ToSet(TextOf(x))} = {}
    BY <2>1, <2>2
  <2> QED
    BY <2>1, <2>3 DEF ColourOf
<1> QED
  BY <1>1, <1>2

\* Unless the fuel of its finition is unknown but not the figures, a car keeps them.
Figured(db, c) ==
  FinitionOf[c] # Missing =>
    (db.t[FinitionOf[c]].engine.burns = Missing => db.t[FinitionOf[c]].engine.figures = Missing)

SameRows(db, new) == DOMAIN new.v = DOMAIN db.v

SameEngines(db, new) == \A f \in Finitions : new.t[f].engine = db.t[f].engine

\* The three tables of a database, and those of one with other cars.
LEMMA DatabaseIs ==
  ASSUME NEW t, NEW p, NEW v, NEW w
  PROVE  /\ DB(t, p, v).t = t /\ DB(t, p, v).p = p /\ DB(t, p, v).v = v
         /\ ForCars(DB(t, p, v), w) = DB(t, p, w)
BY DEF DB, ForCars

\* A database made of typed tables is one, with any number of migrations that allows.
LEMMA DatabaseMade ==
  ASSUME NEW t \in [Finitions -> TrimSet], NEW p \in [Finitions -> Seq(EngineSet)], NEW v, NEW i,
         AreCars(v), DOMAIN v \subseteq Cars,
         i < 5 => \A c \in DOMAIN v : FinitionOf[c] # Missing => v[c].engine = NoEngine
  PROVE  DatabaseOK(DB(t, p, v), i)
<1> DEFINE db == DB(t, p, v)
<1>1. db.t = t /\ db.p = p /\ db.v = v
  BY DEF DB
<1>2. db = [t |-> t, p |-> p, v |-> v]
  BY DEF DB
<1> HIDE DEF db
<1>3. DatabaseOK(db, i)
  BY <1>1, <1>2 DEF DatabaseOK
<1> QED
  BY <1>3 DEF db

\* A migration of cars only leaves the other tables.
LEMMA OnlyCars ==
  ASSUME NEW db, NEW i, NEW w, DatabaseOK(db, i)
  PROVE  ForCars(db, w) = DB(db.t, db.p, w)
<1> DEFINE t == db.t p == db.p v == db.v
<1>1. db = [t |-> t, p |-> p, v |-> v]
  BY DEF DatabaseOK
<1> HIDE DEF t, p, v
<1> QED
  BY <1>1 DEF ForCars, DB, t, p

\* A trim with its doors or its engine changed.
LEMMA TrimFields ==
  ASSUME NEW r \in TrimSet, NEW d \in DoorCounts \union {Missing}, NEW e \in EngineSet
  PROVE  /\ [r EXCEPT !.doors = d] \in TrimSet /\ [r EXCEPT !.doors = d].engine = r.engine
         /\ [r EXCEPT !.doors = d].doors = d
         /\ [r EXCEPT !.engine = e] \in TrimSet /\ [r EXCEPT !.engine = e].engine = e
         /\ [r EXCEPT !.engine = e].doors = r.doors
BY DEF TrimSet

\* No engine is an engine with nothing known of it.
LEMMA NoEngineIs == NoEngine \in EngineSet /\ NoEngine.burns = Missing /\ NoEngine.figures = Missing
BY DEF NoEngine, EngineSet

\* What holds of a car's row holds of what the car shows.
LEMMA ShowsIs ==
  ASSUME NEW db, NEW i, NEW c
  PROVE  Shows(db, i, c) =
           Car(CoarseCondition(db.v[c].condition),
               IF i >= 1 THEN db.v[c].exterior ELSE ColourOf(db.v[c].exterior),
               IF i >= 4 THEN db.v[c].interior ELSE ColourOf(db.v[c].interior),
               IF i >= 2 \/ FinitionOf[c] = Missing THEN db.v[c].doors ELSE db.t[FinitionOf[c]].doors,
               IF i >= 5 \/ FinitionOf[c] = Missing THEN db.v[c].engine ELSE db.t[FinitionOf[c]].engine,
               IF i >= 2 THEN db.v[c].fiscal ELSE FiscalEstimate(EngineOfFinition(db, c).figures),
               db.v[c].extras)
BY DEF Shows, Car

\* Two cars that agree on all fields but some show the same on the others.
LEMMA SameField ==
  ASSUME NEW r, NEW q, IsCar(r), IsCar(q), NEW k \in Fields,
         \/ k = "condition" /\ r.condition = q.condition
         \/ k = "exterior" /\ r.exterior = q.exterior
         \/ k = "interior" /\ r.interior = q.interior
         \/ k = "doors" /\ r.doors = q.doors
         \/ k = "engine" /\ r.engine = q.engine
         \/ k = "fiscal" /\ r.fiscal = q.fiscal
         \/ k = "extras" /\ r.extras = q.extras
  PROVE  r[k] = q[k]
OBVIOUS

\* The first migration converts conditions and paints.
LEMMA UpOne ==
  ASSUME NEW db, DatabaseOK(db, 0)
  PROVE  /\ DatabaseOK(Up(db, 1), 1) /\ SameEngines(db, Up(db, 1)) /\ SameRows(db, Up(db, 1))
         /\ \A c \in DOMAIN db.v : Shows(Up(db, 1), 1, c) = Shows(db, 0, c)
<1> DEFINE v == [c \in DOMAIN db.v |-> Finer(db.v[c])]
<1>1. Up(db, 1) = DB(db.t, db.p, v)
  <2>1. Up(db, 1) = ForCars(db, v)
    BY DEF Up
  <2> HIDE DEF v
  <2> QED
    BY <2>1, OnlyCars
<1>2. \A c \in DOMAIN db.v :
        v[c] = Car(FineCondition(db.v[c].condition), ColourOf(db.v[c].exterior), db.v[c].interior,
                   db.v[c].doors, db.v[c].engine, db.v[c].fiscal, db.v[c].extras)
  <2> SUFFICES ASSUME NEW c \in DOMAIN db.v
               PROVE  Finer(db.v[c]) = Car(FineCondition(db.v[c].condition), ColourOf(db.v[c].exterior),
                                           db.v[c].interior, db.v[c].doors, db.v[c].engine,
                                           db.v[c].fiscal, db.v[c].extras)
    OBVIOUS
  <2> DEFINE r == db.v[c] x == FineCondition(r.condition) y == ColourOf(r.exterior)
  <2>1. Finer(r) = [r EXCEPT !.condition = x, !.exterior = y]
    BY DEF Finer
  <2>2. IsCar(r)
    BY DEF DatabaseOK, AreCars
  <2> HIDE DEF x, y, r
  <2>3. [r EXCEPT !.condition = x, !.exterior = y] = Car(x, y, r.interior, r.doors, r.engine, r.fiscal, r.extras)
    BY <2>2, CarConverted, Zenon
  <2> QED
    BY <2>1, <2>3 DEF x, y, r
<1>3. DOMAIN v = DOMAIN db.v /\ v = [c \in DOMAIN v |-> v[c]]
  OBVIOUS
<1> HIDE DEF v
<1>4. \A c \in DOMAIN v :
        /\ IsCar(v[c]) /\ v[c].condition = FineCondition(db.v[c].condition)
        /\ v[c].exterior = ColourOf(db.v[c].exterior) /\ v[c].interior = db.v[c].interior
        /\ v[c].doors = db.v[c].doors /\ v[c].engine = db.v[c].engine
        /\ v[c].fiscal = db.v[c].fiscal /\ v[c].extras = db.v[c].extras
  BY <1>2, <1>3, CarIs
<1>5. Up(db, 1).t = db.t /\ Up(db, 1).p = db.p /\ Up(db, 1).v = v
  BY <1>1, DatabaseIs
<1>6. DatabaseOK(Up(db, 1), 1)
  <2>1. db.t \in [Finitions -> TrimSet] /\ db.p \in [Finitions -> Seq(EngineSet)] /\ DOMAIN v \subseteq Cars
    BY <1>3 DEF DatabaseOK
  <2>2. \A c \in DOMAIN v : FinitionOf[c] # Missing => v[c].engine = NoEngine
    BY <1>3, <1>4 DEF DatabaseOK
  <2>3. AreCars(v)
    BY <1>3, <1>4 DEF AreCars
  <2> QED
    BY <1>1, <2>1, <2>2, <2>3, DatabaseMade
<1>7. ASSUME NEW c \in DOMAIN db.v
      PROVE  Shows(Up(db, 1), 1, c) = Shows(db, 0, c)
  <2>1. CoarseCondition(v[c].condition) = CoarseCondition(db.v[c].condition)
    BY <1>3, <1>4, CoarseIs
  <2>2. EngineOfFinition(Up(db, 1), c) = EngineOfFinition(db, c)
    BY <1>5 DEF EngineOfFinition
  <2> QED
    BY <1>3, <1>4, <1>5, <2>1, <2>2, ShowsIs
<1> QED
  BY <1>3, <1>5, <1>6, <1>7 DEF SameEngines, SameRows

\* The second gives each car the doors of its finition and an estimated fiscal power.
LEMMA UpTwo ==
  ASSUME NEW db, DatabaseOK(db, 1)
  PROVE  /\ DatabaseOK(Up(db, 2), 2) /\ SameEngines(db, Up(db, 2)) /\ SameRows(db, Up(db, 2))
         /\ \A c \in DOMAIN db.v : Shows(Up(db, 2), 2, c) = Shows(db, 1, c)
<1> DEFINE v == [c \in DOMAIN db.v |-> WithSpecFields(db, c)]
           t == [f \in Finitions |-> [db.t[f] EXCEPT !.doors = Missing]]
           estimate(c) == FiscalEstimate(EngineOfFinition(db, c).figures)
           doors(c) == IF FinitionOf[c] = Missing THEN db.v[c].doors ELSE db.t[FinitionOf[c]].doors
<1>1. Up(db, 2) = DB(t, db.p, v)
  <2>2. ForCars(db, v) = DB(db.t, db.p, v)
    BY OnlyCars
  <2>3. Up(db, 2) = [ForCars(db, v) EXCEPT !.t = t]
    BY DEF Up
  <2> HIDE DEF v, t
  <2> QED
    BY <2>2, <2>3 DEF DB
<1>2. \A c \in DOMAIN db.v : v[c] = Car(db.v[c].condition, db.v[c].exterior, db.v[c].interior, doors(c),
                                       db.v[c].engine, estimate(c), db.v[c].extras)
  <2> SUFFICES ASSUME NEW c \in DOMAIN db.v
               PROVE  WithSpecFields(db, c) = Car(db.v[c].condition, db.v[c].exterior, db.v[c].interior, doors(c),
                                                  db.v[c].engine, estimate(c), db.v[c].extras)
    OBVIOUS
  <2> DEFINE q == db.v[c] e == estimate(c) d == db.t[FinitionOf[c]].doors r == [q EXCEPT !.fiscal = e]
  <2>1. IsCar(q)
    BY DEF DatabaseOK, AreCars
  <2>2. WithSpecFields(db, c) = IF FinitionOf[c] = Missing THEN r ELSE [r EXCEPT !.doors = d]
    BY DEF WithSpecFields
  <2> HIDE DEF e, d, q
  <2>3. r = Car(q.condition, q.exterior, q.interior, q.doors, q.engine, e, q.extras)
    BY <2>1, CarFields
  <2> HIDE DEF r
  <2>4. /\ IsCar(r) /\ r.condition = q.condition /\ r.exterior = q.exterior /\ r.interior = q.interior
        /\ r.engine = q.engine /\ r.fiscal = e /\ r.extras = q.extras
    BY <2>3, CarIs
  <2>5. [r EXCEPT !.doors = d] = Car(q.condition, q.exterior, q.interior, d, q.engine, e, q.extras)
    <3>1. [r EXCEPT !.doors = d] = Car(r.condition, r.exterior, r.interior, d, r.engine, r.fiscal, r.extras)
      BY <2>4, CarFields, Zenon
    <3> QED
      BY <2>4, <3>1
  <2> QED
    BY <2>2, <2>3, <2>5 DEF q, e, d
<1>3. DOMAIN v = DOMAIN db.v /\ v = [c \in DOMAIN v |-> v[c]]
  OBVIOUS
<1>4. /\ t \in [Finitions -> TrimSet]
      /\ \A f \in Finitions : t[f].engine = db.t[f].engine
  BY TrimFields, NoEngineIs DEF DatabaseOK
<1> HIDE DEF v, t, estimate, doors
<1>5. \A c \in DOMAIN v :
        /\ IsCar(v[c]) /\ v[c].condition = db.v[c].condition
        /\ v[c].exterior = db.v[c].exterior /\ v[c].interior = db.v[c].interior
        /\ v[c].doors = doors(c) /\ v[c].engine = db.v[c].engine
        /\ v[c].fiscal = estimate(c) /\ v[c].extras = db.v[c].extras
  BY <1>2, <1>3, CarIs
<1>6. Up(db, 2).t = t /\ Up(db, 2).p = db.p /\ Up(db, 2).v = v
  BY <1>1, DatabaseIs
<1>7. DatabaseOK(Up(db, 2), 2)
  <2>1. db.p \in [Finitions -> Seq(EngineSet)] /\ DOMAIN v \subseteq Cars
    BY <1>3 DEF DatabaseOK
  <2>2. \A c \in DOMAIN v : FinitionOf[c] # Missing => v[c].engine = NoEngine
    BY <1>3, <1>5 DEF DatabaseOK
  <2>3. AreCars(v)
    BY <1>3, <1>5 DEF AreCars
  <2> QED
    BY <1>1, <1>4, <2>1, <2>2, <2>3, DatabaseMade
<1>8. ASSUME NEW c \in DOMAIN db.v
      PROVE  Shows(Up(db, 2), 2, c) = Shows(db, 1, c)
  <2>1. FinitionOf[c] # Missing => FinitionOf[c] \in Finitions
    BY MigrationsAssumption DEF DatabaseOK
  <2> QED
    BY <1>3, <1>4, <1>5, <1>6, <2>1, ShowsIs DEF estimate, doors
<1> QED
  BY <1>3, <1>4, <1>6, <1>7, <1>8 DEF SameEngines, SameRows

\* The third changes no row.
LEMMA UpThree ==
  ASSUME NEW db, DatabaseOK(db, 2)
  PROVE  /\ DatabaseOK(Up(db, 3), 3) /\ SameEngines(db, Up(db, 3)) /\ SameRows(db, Up(db, 3))
         /\ \A c \in DOMAIN db.v : Shows(Up(db, 3), 3, c) = Shows(db, 2, c)
<1>1. Up(db, 3) = db
  BY DEF Up
<1>2. \A c \in DOMAIN db.v : Shows(db, 3, c) = Shows(db, 2, c)
  BY ShowsIs
<1>3. DatabaseOK(db, 3)
  BY DEF DatabaseOK
<1> QED
  BY <1>1, <1>2, <1>3 DEF SameEngines, SameRows

\* The fourth converts the colours inside.
LEMMA UpFour ==
  ASSUME NEW db, DatabaseOK(db, 3)
  PROVE  /\ DatabaseOK(Up(db, 4), 4) /\ SameEngines(db, Up(db, 4)) /\ SameRows(db, Up(db, 4))
         /\ \A c \in DOMAIN db.v : Shows(Up(db, 4), 4, c) = Shows(db, 3, c)
<1> DEFINE v == [c \in DOMAIN db.v |-> [db.v[c] EXCEPT !.interior = ColourOf(@)]]
<1>1. Up(db, 4) = DB(db.t, db.p, v)
  <2>1. ForCars(db, v) = DB(db.t, db.p, v)
    BY OnlyCars
  <2> QED
    BY <2>1 DEF Up
<1>2. \A c \in DOMAIN db.v :
        v[c] = Car(db.v[c].condition, db.v[c].exterior, ColourOf(db.v[c].interior),
                   db.v[c].doors, db.v[c].engine, db.v[c].fiscal, db.v[c].extras)
  <2> SUFFICES ASSUME NEW c \in DOMAIN db.v
               PROVE  v[c] = Car(db.v[c].condition, db.v[c].exterior, ColourOf(db.v[c].interior),
                                 db.v[c].doors, db.v[c].engine, db.v[c].fiscal, db.v[c].extras)
    OBVIOUS
  <2> DEFINE r == db.v[c] x == ColourOf(r.interior)
  <2>1. v[c] = [r EXCEPT !.interior = x]
    OBVIOUS
  <2>2. IsCar(r)
    BY DEF DatabaseOK, AreCars
  <2> HIDE DEF r, x, v
  <2> QED
    BY <2>1, <2>2, CarFields DEF r, x
<1>3. DOMAIN v = DOMAIN db.v /\ v = [c \in DOMAIN v |-> v[c]]
  OBVIOUS
<1> HIDE DEF v
<1>4. \A c \in DOMAIN v :
        /\ IsCar(v[c]) /\ v[c].condition = db.v[c].condition
        /\ v[c].exterior = db.v[c].exterior /\ v[c].interior = ColourOf(db.v[c].interior)
        /\ v[c].doors = db.v[c].doors /\ v[c].engine = db.v[c].engine
        /\ v[c].fiscal = db.v[c].fiscal /\ v[c].extras = db.v[c].extras
  BY <1>2, <1>3, CarIs
<1>5. Up(db, 4).t = db.t /\ Up(db, 4).p = db.p /\ Up(db, 4).v = v
  BY <1>1, DatabaseIs
<1>6. DatabaseOK(Up(db, 4), 4)
  <2>1. db.t \in [Finitions -> TrimSet] /\ db.p \in [Finitions -> Seq(EngineSet)] /\ DOMAIN v \subseteq Cars
    BY <1>3 DEF DatabaseOK
  <2>2. \A c \in DOMAIN v : FinitionOf[c] # Missing => v[c].engine = NoEngine
    BY <1>3, <1>4 DEF DatabaseOK
  <2>3. AreCars(v)
    BY <1>3, <1>4 DEF AreCars
  <2> QED
    BY <1>1, <2>1, <2>2, <2>3, DatabaseMade
<1>7. ASSUME NEW c \in DOMAIN db.v
      PROVE  Shows(Up(db, 4), 4, c) = Shows(db, 3, c)
  BY <1>3, <1>4, <1>5, ShowsIs
<1> QED
  BY <1>3, <1>5, <1>6, <1>7 DEF SameEngines, SameRows

\* The fifth copies the engine of a finition, if its fuel is known, to its cars.
LEMMA UpFive ==
  ASSUME NEW db, DatabaseOK(db, 4)
  PROVE  /\ DatabaseOK(Up(db, 5), 5) /\ SameRows(db, Up(db, 5))
         /\ \A c \in DOMAIN db.v, k \in Fields :
              (k = "engine" => Figured(db, c)) => Shows(Up(db, 5), 5, c)[k] = Shows(db, 4, c)[k]
<1> DEFINE p == [f \in Finitions |-> IF db.t[f].engine.burns = Missing THEN <<>> ELSE <<db.t[f].engine>>]
           v == [c \in DOMAIN db.v |-> IF FinitionOf[c] = Missing \/ p[FinitionOf[c]] = <<>> THEN db.v[c]
                                ELSE [db.v[c] EXCEPT !.engine = p[FinitionOf[c]][1]]]
           t == [f \in Finitions |-> [db.t[f] EXCEPT !.engine = NoEngine]]
<1>1. Up(db, 5) = DB(t, p, v)
  <2>2. ForCars(db, v) = DB(db.t, db.p, v)
    BY OnlyCars
  <2>3. Up(db, 5) = [ForCars(db, v) EXCEPT !.p = p, !.t = t]
    BY DEF Up
  <2> HIDE DEF v, t, p
  <2> DEFINE w == [ForCars(db, v) EXCEPT !.p = p, !.t = t]
  <2>4. ForCars(db, v) \in [t : {db.t}, p : {db.p}, v : {v}]
    BY <2>2 DEF DB
  <2>5. w \in [t : {t}, p : {p}, v : {v}]
    BY <2>4
  <2> HIDE DEF w
  <2>6. w = DB(t, p, v)
    BY <2>5 DEF DB
  <2> QED
    BY <2>3, <2>6 DEF w
<1>2. ASSUME NEW f \in Finitions
      PROVE  /\ db.t[f] \in TrimSet /\ db.t[f].engine \in EngineSet /\ p[f] \in Seq(EngineSet)
             /\ p[f] = <<>> <=> db.t[f].engine.burns = Missing
             /\ p[f] # <<>> => p[f][1] = db.t[f].engine
             /\ t[f] \in TrimSet
  <2>1. db.t[f] \in TrimSet /\ db.t[f].engine \in EngineSet /\ db.t[f].doors \in DoorCounts \union {Missing}
    BY DEF DatabaseOK, TrimSet
  <2>2. t[f] \in TrimSet
    BY <2>1, TrimFields, NoEngineIs
  <2> DEFINE e == db.t[f].engine
  <2> HIDE DEF e
  <2>3. <<e>> # <<>> /\ <<e>>[1] = e /\ (e \in EngineSet => <<e>> \in Seq(EngineSet))
    OBVIOUS
  <2>4. p[f] = IF e.burns = Missing THEN <<>> ELSE <<e>>
    BY DEF e
  <2>5. <<>> \in Seq(EngineSet)
    OBVIOUS
  <2> HIDE DEF p, t
  <2> QED
    BY <2>1, <2>2, <2>3, <2>4, <2>5 DEF e
<1>3. \A c \in DOMAIN db.v :
        v[c] = Car(db.v[c].condition, db.v[c].exterior, db.v[c].interior, db.v[c].doors,
                   IF FinitionOf[c] = Missing \/ p[FinitionOf[c]] = <<>> THEN db.v[c].engine
                   ELSE p[FinitionOf[c]][1], db.v[c].fiscal, db.v[c].extras)
  <2> SUFFICES ASSUME NEW c \in DOMAIN db.v
               PROVE  v[c] = Car(db.v[c].condition, db.v[c].exterior, db.v[c].interior, db.v[c].doors,
                                 IF FinitionOf[c] = Missing \/ p[FinitionOf[c]] = <<>> THEN db.v[c].engine
                                 ELSE p[FinitionOf[c]][1], db.v[c].fiscal, db.v[c].extras)
    OBVIOUS
  <2>1. IsCar(db.v[c])
    BY DEF DatabaseOK, AreCars
  <2> DEFINE e == p[FinitionOf[c]][1]
  <2> HIDE DEF p, e
  <2>2. [db.v[c] EXCEPT !.engine = e]
          = Car(db.v[c].condition, db.v[c].exterior, db.v[c].interior, db.v[c].doors, e,
                db.v[c].fiscal, db.v[c].extras)
    BY <2>1, CarFields
  <2>3. db.v[c] = Car(db.v[c].condition, db.v[c].exterior, db.v[c].interior, db.v[c].doors, db.v[c].engine,
                      db.v[c].fiscal, db.v[c].extras)
    BY <2>1 DEF IsCar
  <2> QED
    BY <2>2, <2>3 DEF e
<1>4. DOMAIN v = DOMAIN db.v /\ v = [c \in DOMAIN v |-> v[c]] /\ t = [f \in Finitions |-> t[f]] /\ p = [f \in Finitions |-> p[f]]
  OBVIOUS
<1> HIDE DEF v, t, p
<1>5. \A c \in DOMAIN v :
        /\ IsCar(v[c]) /\ v[c].condition = db.v[c].condition
        /\ v[c].exterior = db.v[c].exterior /\ v[c].interior = db.v[c].interior
        /\ v[c].doors = db.v[c].doors /\ v[c].fiscal = db.v[c].fiscal /\ v[c].extras = db.v[c].extras
        /\ v[c].engine = IF FinitionOf[c] = Missing \/ p[FinitionOf[c]] = <<>> THEN db.v[c].engine
                         ELSE p[FinitionOf[c]][1]
  BY <1>3, <1>4, CarIs
<1>6. Up(db, 5).t = t /\ Up(db, 5).p = p /\ Up(db, 5).v = v
  BY <1>1, DatabaseIs
<1>7. t \in [Finitions -> TrimSet] /\ p \in [Finitions -> Seq(EngineSet)]
  BY <1>2, <1>4
<1>8. DatabaseOK(Up(db, 5), 5)
  <2>1. AreCars(v)
    BY <1>4, <1>5 DEF AreCars
  <2>2. DOMAIN v \subseteq Cars
    BY <1>4 DEF DatabaseOK
  <2>3. ~(5 < 5)
    OBVIOUS
  <2> QED
    BY <1>1, <1>7, <2>1, <2>2, <2>3, DatabaseMade
<1>9. ASSUME NEW c \in DOMAIN db.v, NEW k \in Fields, k = "engine" => Figured(db, c)
      PROVE  Shows(Up(db, 5), 5, c)[k] = Shows(db, 4, c)[k]
  <2>1. Figured(db, c) => v[c].engine = IF FinitionOf[c] = Missing THEN db.v[c].engine ELSE db.t[FinitionOf[c]].engine
    <3> SUFFICES ASSUME Figured(db, c)
                 PROVE  v[c].engine = IF FinitionOf[c] = Missing THEN db.v[c].engine ELSE db.t[FinitionOf[c]].engine
      OBVIOUS
    <3>1. CASE FinitionOf[c] = Missing
      BY <1>4, <1>5, <3>1
    <3>2. CASE FinitionOf[c] # Missing
      <4>1. FinitionOf[c] \in Finitions
        BY <3>2, MigrationsAssumption DEF DatabaseOK
      <4>2. CASE p[FinitionOf[c]] # <<>>
        BY <1>2, <1>4, <1>5, <3>2, <4>1, <4>2
      <4>3. CASE p[FinitionOf[c]] = <<>>
        <5>1. db.t[FinitionOf[c]].engine.burns = Missing /\ db.t[FinitionOf[c]].engine.figures = Missing
          BY <1>2, <3>2, <4>1, <4>3 DEF Figured
        <5>2. db.t[FinitionOf[c]].engine = NoEngine
          BY <1>2, <4>1, <5>1 DEF EngineSet, NoEngine
        <5>3. v[c].engine = NoEngine
          BY <1>4, <1>5, <3>2, <4>3 DEF DatabaseOK
        <5> QED
          BY <3>2, <5>2, <5>3
      <4> QED
        BY <4>2, <4>3
    <3> QED
      BY <3>1, <3>2
  <2> DEFINE r == Shows(Up(db, 5), 5, c) q == Shows(db, 4, c)
  <2>2. IsCar(r) /\ IsCar(q)
    BY ShowsIs, CarIs
  <2>3. /\ r.condition = q.condition /\ r.exterior = q.exterior /\ r.interior = q.interior
        /\ r.doors = q.doors /\ r.fiscal = q.fiscal /\ r.extras = q.extras
        /\ r.engine = v[c].engine
        /\ q.engine = IF FinitionOf[c] = Missing THEN db.v[c].engine ELSE db.t[FinitionOf[c]].engine
    BY <1>4, <1>5, <1>6, ShowsIs, CarIs
  <2> HIDE DEF r, q
  <2>4. k \in {"condition", "exterior", "interior", "doors", "engine", "fiscal", "extras"}
    BY DEF Fields
  <2>5. r[k] = q[k]
    BY <1>9, <2>1, <2>2, <2>3, <2>4, SameField
  <2> QED
    BY <2>5 DEF r, q
<1> QED
  BY <1>4, <1>6, <1>8, <1>9 DEF SameRows

\* A database on the way from the present one to that with the first i
\* migrations: no fewer than are applied now.
OnTheWay(db, i) ==
  /\ DatabaseOK(db, i) /\ (i < 5 => SameEngines(Database, db)) /\ DOMAIN db.v = DOMAIN vehicle
  /\ \A c \in DOMAIN vehicle, k \in Fields :
       KeptByUpgrade(c, k) => Shows(db, i, c)[k] = Shows(Database, applied, c)[k]

AtLeast(i) == IF applied < i THEN i ELSE applied

\* Each migration takes a database on its way to the next, and shows the same cars.
LEMMA UpKeeps ==
  ASSUME NEW db, NEW i \in 1 .. 5, applied \in 0 .. 5, applied < 5, OnTheWay(db, i - 1)
  PROVE  OnTheWay(Up(db, i), i)
<1>1. CASE i = 1
  <2>1. OnTheWay(db, 0)
    BY <1>1
  <2>2. OnTheWay(Up(db, 1), 1)
    BY <2>1, UpOne DEF OnTheWay, SameEngines, SameRows
  <2> QED
    BY <1>1, <2>2
<1>2. CASE i = 2
  <2>1. OnTheWay(db, 1)
    BY <1>2
  <2>2. OnTheWay(Up(db, 2), 2)
    BY <2>1, UpTwo DEF OnTheWay, SameEngines, SameRows
  <2> QED
    BY <1>2, <2>2
<1>3. CASE i = 3
  <2>1. OnTheWay(db, 2)
    BY <1>3
  <2>2. OnTheWay(Up(db, 3), 3)
    BY <2>1, UpThree DEF OnTheWay, SameEngines, SameRows
  <2> QED
    BY <1>3, <2>2
<1>4. CASE i = 4
  <2>1. OnTheWay(db, 3)
    BY <1>4
  <2>2. OnTheWay(Up(db, 4), 4)
    BY <2>1, UpFour DEF OnTheWay, SameEngines, SameRows
  <2> QED
    BY <1>4, <2>2
<1>5. CASE i = 5
  <2>1. OnTheWay(db, 4)
    BY <1>5
  <2>2. ASSUME NEW c \in DOMAIN vehicle, NEW k \in Fields, KeptByUpgrade(c, k), k = "engine"
        PROVE  Figured(db, c)
    <3>1. FinitionOf[c] # Missing => FinitionOf[c] \in Finitions
      BY <2>1, MigrationsAssumption DEF OnTheWay, DatabaseOK
    <3>2. Database.t = trimRow
      BY DEF Database
    <3> QED
      BY <2>1, <2>2, <3>1, <3>2 DEF OnTheWay, SameEngines, KeptByUpgrade, Figured
  <2>3. OnTheWay(Up(db, 5), 5)
    BY <2>1, <2>2, UpFive DEF OnTheWay, SameRows
  <2> QED
    BY <1>5, <2>3
<1> QED
  BY <1>1, <1>2, <1>3, <1>4, <1>5

\* So does one that is skipped because it is applied.
LEMMA ThenKeeps ==
  ASSUME NEW db, NEW i \in 1 .. 5, applied \in 0 .. 5, applied < 5, OnTheWay(db, AtLeast(i - 1))
  PROVE  OnTheWay(Then(db, i), AtLeast(i))
<1>1. CASE applied < i
  <2>1. AtLeast(i - 1) = i - 1 /\ AtLeast(i) = i /\ Then(db, i) = Up(db, i)
    BY <1>1 DEF AtLeast, Then
  <2> QED
    BY <2>1, UpKeeps
<1>2. CASE ~(applied < i)
  <2>1. AtLeast(i - 1) = applied /\ AtLeast(i) = applied /\ Then(db, i) = db
    BY <1>2 DEF AtLeast, Then
  <2> QED
    BY <2>1
<1> QED
  BY <1>1, <1>2

\* A release that boots brings the rows to the latest schema, and a car shows
\* what it showed unless figures of its finition had nowhere to go.
LEMMA UpgradeKeeps ==
  ASSUME MigrationInv, applied < 5
  PROVE  LET new == Then(Then(Then(Then(Then(Database, 1), 2), 3), 4), 5) IN
         /\ DatabaseOK(new, 5) /\ DOMAIN new.v = DOMAIN vehicle
         /\ \A c \in DOMAIN vehicle, k \in Fields :
              KeptByUpgrade(c, k) => Shows(new, 5, c)[k] = Shows(Database, applied, c)[k]
<1> DEFINE a == Then(Database, 1) b == Then(a, 2) c == Then(b, 3) d == Then(c, 4) e == Then(d, 5)
<1>1. applied \in 0 .. 5
  BY DEF MigrationInv
<1>2. OnTheWay(Database, AtLeast(0))
  <2>1. AtLeast(0) = applied
    BY <1>1 DEF AtLeast
  <2> QED
    BY <2>1 DEF OnTheWay, SameEngines, MigrationInv, Database
<1>3. OnTheWay(a, AtLeast(1))
  BY <1>1, <1>2, ThenKeeps
<1> HIDE DEF a
<1>4. OnTheWay(b, AtLeast(2))
  BY <1>1, <1>3, ThenKeeps
<1> HIDE DEF b
<1>5. OnTheWay(c, AtLeast(3))
  BY <1>1, <1>4, ThenKeeps
<1> HIDE DEF c
<1>6. OnTheWay(d, AtLeast(4))
  BY <1>1, <1>5, ThenKeeps
<1> HIDE DEF d
<1>7. OnTheWay(e, AtLeast(5))
  BY <1>1, <1>6, ThenKeeps
<1> HIDE DEF e
<1>8. AtLeast(5) = 5
  BY DEF AtLeast
<1>9. /\ DatabaseOK(e, 5) /\ DOMAIN e.v = DOMAIN vehicle
      /\ \A x \in DOMAIN vehicle, k \in Fields :
           KeptByUpgrade(x, k) => Shows(e, 5, x)[k] = Shows(Database, applied, x)[k]
  BY <1>7, <1>8 DEF OnTheWay
<1> QED
  BY <1>9 DEF a, b, c, d, e

-----------------------------------------------------------------------------

\* What a revert leaves of what the cars show.
Reverted(db, i) ==
  /\ DatabaseOK(db, i - 1) /\ DOMAIN db.v = DOMAIN vehicle
  /\ \A c \in DOMAIN vehicle, k \in Fields :
       KeptByRevert(c, k) => Shows(db, i - 1, c)[k] = Shows(Database, i, c)[k]

\* It is enough to compare the fields one by one, each where it is kept.
LEMMA FieldByField ==
  ASSUME NEW db, NEW i, NEW c,
         LET r == Shows(db, i - 1, c) q == Shows(Database, i, c) IN
         /\ KeptByRevert(c, "condition") => r.condition = q.condition
         /\ KeptByRevert(c, "exterior") => r.exterior = q.exterior
         /\ KeptByRevert(c, "interior") => r.interior = q.interior
         /\ KeptByRevert(c, "doors") => r.doors = q.doors
         /\ KeptByRevert(c, "engine") => r.engine = q.engine
         /\ KeptByRevert(c, "fiscal") => r.fiscal = q.fiscal
         /\ KeptByRevert(c, "extras") => r.extras = q.extras
  PROVE  \A k \in Fields : KeptByRevert(c, k) => Shows(db, i - 1, c)[k] = Shows(Database, i, c)[k]
<1> DEFINE r == Shows(db, i - 1, c) q == Shows(Database, i, c)
<1>1. IsCar(r) /\ IsCar(q)
  BY ShowsIs, CarIs
<1> SUFFICES ASSUME NEW k \in Fields, KeptByRevert(c, k)
             PROVE  r[k] = q[k]
  OBVIOUS
<1>2. k \in {"condition", "exterior", "interior", "doors", "engine", "fiscal", "extras"}
  BY DEF Fields
<1> HIDE DEF r, q
<1>3. \/ k = "condition" /\ r.condition = q.condition
      \/ k = "exterior" /\ r.exterior = q.exterior
      \/ k = "interior" /\ r.interior = q.interior
      \/ k = "doors" /\ r.doors = q.doors
      \/ k = "engine" /\ r.engine = q.engine
      \/ k = "fiscal" /\ r.fiscal = q.fiscal
      \/ k = "extras" /\ r.extras = q.extras
  BY <1>2 DEF r, q
<1> QED
  BY <1>1, <1>3, SameField

\* The tables as they are now.
LEMMA TablesAre == Database.t = trimRow /\ Database.p = powertrain /\ Database.v = vehicle
BY DEF Database

\* What is known of them.
LEMMA DatabaseRows ==
  ASSUME MigrationInv
  PROVE  /\ Database.t = trimRow /\ Database.p = powertrain /\ Database.v = vehicle
         /\ trimRow \in [Finitions -> TrimSet] /\ powertrain \in [Finitions -> Seq(EngineSet)]
         /\ AreCars(vehicle) /\ DOMAIN vehicle \subseteq Cars
         /\ \A c \in DOMAIN vehicle : IsCar(vehicle[c])
         /\ applied < 5 => \A c \in DOMAIN vehicle : FinitionOf[c] # Missing => vehicle[c].engine = NoEngine
         /\ \A c \in DOMAIN vehicle : FinitionOf[c] # Missing => FinitionOf[c] \in Finitions
<1>1. Database.t = trimRow /\ Database.p = powertrain /\ Database.v = vehicle
  BY DEF Database
<1>2. DOMAIN vehicle \subseteq Cars
  BY <1>1 DEF MigrationInv, DatabaseOK
<1> QED
  BY <1>1, <1>2, MigrationsAssumption DEF MigrationInv, DatabaseOK, AreCars

\* Back to the coarse conditions and to paint in words (migration 1).
LEMMA DownOne ==
  ASSUME MigrationInv, applied = 1, NEW db \in Downs(Database, 1)
  PROVE  Reverted(db, 1)
<1> DEFINE v == [c \in DOMAIN vehicle |-> Coarser(vehicle[c])]
<1>1. DatabaseOK(Database, 1)
  BY DEF MigrationInv
<1>2. db = DB(trimRow, powertrain, v)
  <2>1. db = ForCars(Database, v)
    BY TablesAre DEF Downs
  <2> HIDE DEF v
  <2> QED
    BY <1>1, <2>1, OnlyCars, DatabaseRows
<1>3. \A c \in DOMAIN vehicle :
        v[c] = Car(CoarseCondition(vehicle[c].condition), TextOf(vehicle[c].exterior), vehicle[c].interior,
                   vehicle[c].doors, vehicle[c].engine, vehicle[c].fiscal, vehicle[c].extras)
  <2> SUFFICES ASSUME NEW c \in DOMAIN vehicle
               PROVE  Coarser(vehicle[c]) =
                        Car(CoarseCondition(vehicle[c].condition), TextOf(vehicle[c].exterior), vehicle[c].interior,
                            vehicle[c].doors, vehicle[c].engine, vehicle[c].fiscal, vehicle[c].extras)
    OBVIOUS
  <2> DEFINE r == vehicle[c] x == CoarseCondition(r.condition) y == TextOf(r.exterior)
  <2>1. Coarser(r) = [r EXCEPT !.condition = x, !.exterior = y]
    BY DEF Coarser
  <2>2. IsCar(r)
    BY DatabaseRows
  <2> HIDE DEF x, y, r
  <2>3. [r EXCEPT !.condition = x, !.exterior = y] = Car(x, y, r.interior, r.doors, r.engine, r.fiscal, r.extras)
    BY <2>2, CarConverted, Zenon
  <2> QED
    BY <2>1, <2>3 DEF x, y, r
<1>4. DOMAIN v = DOMAIN vehicle /\ v = [c \in DOMAIN v |-> v[c]]
  OBVIOUS
<1> HIDE DEF v
<1>5. \A c \in DOMAIN v :
        /\ IsCar(v[c]) /\ v[c].condition = CoarseCondition(vehicle[c].condition)
        /\ v[c].exterior = TextOf(vehicle[c].exterior) /\ v[c].interior = vehicle[c].interior
        /\ v[c].doors = vehicle[c].doors /\ v[c].engine = vehicle[c].engine
        /\ v[c].fiscal = vehicle[c].fiscal /\ v[c].extras = vehicle[c].extras
  BY <1>3, <1>4, CarIs
<1>6. db.t = trimRow /\ db.p = powertrain /\ db.v = v
  BY <1>2, DatabaseIs
<1>7. DatabaseOK(db, 0)
  <2>1. \A c \in DOMAIN v : FinitionOf[c] # Missing => v[c].engine = NoEngine
    BY <1>4, <1>5, DatabaseRows
  <2>2. AreCars(v) /\ DOMAIN v \subseteq Cars
    BY <1>4, <1>5, DatabaseRows DEF AreCars
  <2> QED
    BY <1>2, <2>1, <2>2, DatabaseMade, DatabaseRows
<1>8. ASSUME NEW c \in DOMAIN vehicle, NEW k \in Fields, KeptByRevert(c, k)
      PROVE  Shows(db, 0, c)[k] = Shows(Database, 1, c)[k]
  <2> DEFINE r == Shows(db, 0, c) q == Shows(Database, 1, c)
  <2>1. r.exterior = ColourOf(v[c].exterior) /\ q.exterior = vehicle[c].exterior
    BY <1>6, ShowsIs, CarIs, TablesAre
  <2>2. KeptByRevert(c, "exterior") => r.exterior = q.exterior
    <3>1. KeptByRevert(c, "exterior") => vehicle[c].exterior \in {"OTHER"} \union ToSet(Palette)
      BY DEF KeptByRevert
    <3> HIDE DEF r, q
    <3> QED
      BY <1>4, <1>5, <2>1, <3>1, ColoursReturn
  <2>3. CoarseCondition(v[c].condition) = CoarseCondition(vehicle[c].condition)
    BY <1>4, <1>5, CoarseIs
  <2>4. EngineOfFinition(db, c) = EngineOfFinition(Database, c)
    BY <1>6, DatabaseRows DEF EngineOfFinition
  <2>5. r.condition = q.condition /\ r.fiscal = q.fiscal
    BY <1>4, <1>5, <1>6, <2>3, <2>4, ShowsIs, CarIs, TablesAre
  <2>7. r.interior = q.interior /\ r.doors = q.doors
    BY <1>4, <1>5, <1>6, ShowsIs, CarIs, TablesAre
  <2>8. r.engine = q.engine /\ r.extras = q.extras
    BY <1>4, <1>5, <1>6, ShowsIs, CarIs, TablesAre
  <2>6. 1 - 1 = 0
    OBVIOUS
  <2> QED
    BY <1>8, <2>2, <2>5, <2>6, <2>7, <2>8, FieldByField
<1> QED
  BY <1>4, <1>6, <1>7, <1>8 DEF Reverted

\* Back to the doors of the finition, without the other columns (migration 2).
LEMMA DownTwo ==
  ASSUME MigrationInv, applied = 2, NEW db \in Downs(Database, 2)
  PROVE  Reverted(db, 2)
<1>1. DatabaseOK(Database, 2)
  BY DEF MigrationInv
<1> DEFINE v == [c \in DOMAIN vehicle |-> WithoutSpecFields(vehicle[c])]
<1>2. PICK d \in {e \in [Finitions -> DoorCounts \union {Missing}] :
                    \A f \in Finitions : e[f] \in DoorsAfter(Database, f)} :
        db = [ForCars(Database, v) EXCEPT !.t = [f \in Finitions |-> [trimRow[f] EXCEPT !.doors = d[f]]]]
  <2> DEFINE D == {e \in [Finitions -> DoorCounts \union {Missing}] :
                     \A f \in Finitions : e[f] \in DoorsAfter(Database, f)}
             new(d) == [ForCars(Database, v)
                          EXCEPT !.t = [f \in Finitions |-> [trimRow[f] EXCEPT !.doors = d[f]]]]
  <2>1. Database.t = trimRow /\ Database.v = vehicle
    BY TablesAre
  <2>2. Downs(Database, 2) = {new(d) : d \in D}
    BY <2>1 DEF Downs
  <2> HIDE DEF v
  <2>3. PICK d \in D : db = new(d)
    BY <2>2
  <2> QED
    BY <2>3
<1> DEFINE t == [f \in Finitions |-> [trimRow[f] EXCEPT !.doors = d[f]]]
<1>3. db = DB(t, powertrain, v)
  <2>1. db = [ForCars(Database, v) EXCEPT !.t = t]
    BY <1>2
  <2> HIDE DEF v, t
  <2>2. ForCars(Database, v) = DB(trimRow, powertrain, v)
    BY <1>1, OnlyCars, DatabaseRows
  <2> QED
    BY <2>1, <2>2 DEF DB
<1>4. \A c \in DOMAIN vehicle : v[c] = Car(vehicle[c].condition, vehicle[c].exterior, vehicle[c].interior, Missing,
                                          vehicle[c].engine, Missing, Missing)
  BY CarStripped, DatabaseRows
<1>5. DOMAIN v = DOMAIN vehicle /\ v = [c \in DOMAIN v |-> v[c]]
  OBVIOUS
<1>6. /\ t \in [Finitions -> TrimSet]
      /\ \A f \in Finitions : t[f].engine = trimRow[f].engine /\ t[f].doors = d[f]
  <2> SUFFICES ASSUME NEW f \in Finitions
               PROVE  t[f] \in TrimSet /\ t[f].engine = trimRow[f].engine /\ t[f].doors = d[f]
    OBVIOUS
  <2>1. trimRow[f] \in TrimSet /\ d[f] \in DoorCounts \union {Missing}
    BY <1>2, DatabaseRows
  <2>2. t[f] = [trimRow[f] EXCEPT !.doors = d[f]]
    OBVIOUS
  <2> DEFINE r == trimRow[f] x == d[f] y == [r EXCEPT !.doors = x]
  <2> HIDE DEF t, r, x
  <2>3. y \in TrimSet /\ y.engine = r.engine /\ y.doors = x
    BY <2>1 DEF TrimSet, r, x
  <2> HIDE DEF y
  <2> QED
    BY <2>2, <2>3 DEF r, x, y
<1> HIDE DEF v, t
<1>7. \A c \in DOMAIN v :
        /\ IsCar(v[c]) /\ v[c].condition = vehicle[c].condition
        /\ v[c].exterior = vehicle[c].exterior /\ v[c].interior = vehicle[c].interior
        /\ v[c].doors = Missing /\ v[c].engine = vehicle[c].engine
        /\ v[c].fiscal = Missing /\ v[c].extras = Missing
  BY <1>4, <1>5, CarIs
<1>8. db.t = t /\ db.p = powertrain /\ db.v = v
  BY <1>3, DatabaseIs
<1>9. DatabaseOK(db, 1)
  <2>1. \A c \in DOMAIN v : FinitionOf[c] # Missing => v[c].engine = NoEngine
    BY <1>5, <1>7, DatabaseRows
  <2>2. AreCars(v) /\ DOMAIN v \subseteq Cars
    BY <1>5, <1>7, DatabaseRows DEF AreCars
  <2> QED
    BY <1>3, <1>6, <2>1, <2>2, DatabaseMade, DatabaseRows
<1>10. ASSUME NEW c \in DOMAIN vehicle, KeptByRevert(c, "doors")
       PROVE  Shows(db, 1, c).doors = vehicle[c].doors
  <2>1. CASE FinitionOf[c] = Missing
    <3>1. vehicle[c].doors = Missing
      BY <1>10, <2>1 DEF KeptByRevert
    <3> QED
      BY <1>5, <1>7, <1>8, <2>1, <3>1, ShowsIs, CarIs
  <2>2. CASE FinitionOf[c] # Missing
    <3> DEFINE f == FinitionOf[c]
    <3>1. f \in Finitions
      BY <2>2, DatabaseRows
    <3>2. \A x \in DOMAIN vehicle : FinitionOf[x] = f => vehicle[x].doors = vehicle[c].doors
      BY <1>10, <2>2 DEF KeptByRevert
    <3> HIDE DEF f
    <3>3. {vehicle[x].doors : x \in {y \in DOMAIN vehicle : FinitionOf[y] = f}} = {vehicle[c].doors}
      BY <3>2 DEF f
    <3>4. DoorsAfter(Database, f) = {vehicle[c].doors}
      <4>1. Database.v = vehicle
        BY DatabaseRows
      <4> DEFINE S == {vehicle[x].doors : x \in {y \in DOMAIN vehicle : FinitionOf[y] = f}}
      <4>2. DoorsAfter(Database, f) = IF S \ {Missing} = {} THEN {Missing} ELSE S \ {Missing}
        BY <4>1 DEF DoorsAfter
      <4>3. S = {vehicle[c].doors}
        BY <3>3
      <4> HIDE DEF S
      <4> QED
        BY <4>2, <4>3
    <3>5. d[f] = vehicle[c].doors
      BY <1>2, <3>1, <3>4
    <3>6. Shows(db, 1, c).doors = t[f].doors
      BY <1>8, <2>2, ShowsIs, CarIs DEF f
    <3> QED
      BY <1>6, <3>1, <3>5, <3>6
  <2> QED
    BY <2>1, <2>2
<1>11. ASSUME NEW c \in DOMAIN vehicle, NEW k \in Fields, KeptByRevert(c, k)
       PROVE  Shows(db, 1, c)[k] = Shows(Database, 2, c)[k]
  <2> DEFINE r == Shows(db, 1, c) q == Shows(Database, 2, c)
  <2>1. q.doors = vehicle[c].doors /\ q.fiscal = vehicle[c].fiscal /\ q.extras = vehicle[c].extras
    BY ShowsIs, CarIs, TablesAre
  <2>2. KeptByRevert(c, "doors") => r.doors = q.doors
    BY <1>10, <2>1
  <2>3. EngineOfFinition(db, c).figures = EngineOfFinition(Database, c).figures
    BY <1>6, <1>8, DatabaseRows DEF EngineOfFinition
  <2>4. r.fiscal = FiscalEstimate(EngineOfFinition(Database, c).figures) /\ r.extras = Missing
    BY <1>5, <1>7, <1>8, <2>3, ShowsIs, CarIs
  <2>5. KeptByRevert(c, "fiscal") => r.fiscal = q.fiscal
    <3>1. KeptByRevert(c, "fiscal") => vehicle[c].fiscal = FiscalEstimate(EngineOfFinition(Database, c).figures)
      BY DEF KeptByRevert
    <3> QED
      BY <2>1, <2>4, <3>1
  <2>6. KeptByRevert(c, "extras") => r.extras = q.extras
    <3>1. KeptByRevert(c, "extras") => vehicle[c].extras = Missing
      BY DEF KeptByRevert
    <3> QED
      BY <2>1, <2>4, <3>1
  <2>7. r.condition = q.condition /\ r.exterior = q.exterior /\ r.interior = q.interior
    BY <1>5, <1>7, <1>8, ShowsIs, CarIs, TablesAre
  <2>8. r.engine = q.engine
    <3>1. r.engine = IF FinitionOf[c] = Missing THEN v[c].engine ELSE t[FinitionOf[c]].engine
      BY <1>8, ShowsIs, CarIs
    <3>2. q.engine = IF FinitionOf[c] = Missing THEN vehicle[c].engine ELSE trimRow[FinitionOf[c]].engine
      BY ShowsIs, CarIs, TablesAre
    <3> HIDE DEF r, q
    <3> QED
      BY <1>5, <1>6, <1>7, <3>1, <3>2, DatabaseRows
  <2>9. 2 - 1 = 1
    OBVIOUS
  <2> QED
    BY <1>11, <2>2, <2>5, <2>6, <2>7, <2>8, <2>9, FieldByField
<1> QED
  BY <1>5, <1>8, <1>9, <1>11 DEF Reverted

\* The third migration changed no row, nor does its revert.
LEMMA DownThree ==
  ASSUME MigrationInv, applied = 3, NEW db \in Downs(Database, 3)
  PROVE  Reverted(db, 3)
<1>1. db = Database
  BY DEF Downs
<1>2. DatabaseOK(Database, 2)
  BY DEF MigrationInv, DatabaseOK
<1>3. \A c \in DOMAIN vehicle : Shows(Database, 2, c) = Shows(Database, 3, c)
  BY ShowsIs
<1> QED
  BY <1>1, <1>2, <1>3, DatabaseRows DEF Reverted

\* Back to words for the colours inside (migration 4).
LEMMA DownFour ==
  ASSUME MigrationInv, applied = 4, NEW db \in Downs(Database, 4)
  PROVE  Reverted(db, 4)
<1> DEFINE v == [c \in DOMAIN vehicle |-> [vehicle[c] EXCEPT !.interior = TextOf(@)]]
<1>1. DatabaseOK(Database, 4)
  BY DEF MigrationInv
<1>2. db = DB(trimRow, powertrain, v)
  <2>1. db = ForCars(Database, v)
    BY TablesAre DEF Downs
  <2> HIDE DEF v
  <2> QED
    BY <1>1, <2>1, OnlyCars, DatabaseRows
<1>3. \A c \in DOMAIN vehicle :
        v[c] = Car(vehicle[c].condition, vehicle[c].exterior, TextOf(vehicle[c].interior),
                   vehicle[c].doors, vehicle[c].engine, vehicle[c].fiscal, vehicle[c].extras)
  <2> SUFFICES ASSUME NEW c \in DOMAIN vehicle
               PROVE  v[c] = Car(vehicle[c].condition, vehicle[c].exterior, TextOf(vehicle[c].interior),
                                 vehicle[c].doors, vehicle[c].engine, vehicle[c].fiscal, vehicle[c].extras)
    OBVIOUS
  <2> DEFINE r == vehicle[c] x == TextOf(r.interior)
  <2>1. v[c] = [r EXCEPT !.interior = x]
    OBVIOUS
  <2>2. IsCar(r)
    BY DatabaseRows
  <2> HIDE DEF r, x, v
  <2> QED
    BY <2>1, <2>2, CarFields DEF r, x
<1>4. DOMAIN v = DOMAIN vehicle /\ v = [c \in DOMAIN v |-> v[c]]
  OBVIOUS
<1> HIDE DEF v
<1>5. \A c \in DOMAIN v :
        /\ IsCar(v[c]) /\ v[c].condition = vehicle[c].condition
        /\ v[c].exterior = vehicle[c].exterior /\ v[c].interior = TextOf(vehicle[c].interior)
        /\ v[c].doors = vehicle[c].doors /\ v[c].engine = vehicle[c].engine
        /\ v[c].fiscal = vehicle[c].fiscal /\ v[c].extras = vehicle[c].extras
  BY <1>3, <1>4, CarIs
<1>6. db.t = trimRow /\ db.p = powertrain /\ db.v = v
  BY <1>2, DatabaseIs
<1>7. DatabaseOK(db, 3)
  <2>1. \A c \in DOMAIN v : FinitionOf[c] # Missing => v[c].engine = NoEngine
    BY <1>4, <1>5, DatabaseRows
  <2>2. AreCars(v) /\ DOMAIN v \subseteq Cars
    BY <1>4, <1>5, DatabaseRows DEF AreCars
  <2> QED
    BY <1>2, <2>1, <2>2, DatabaseMade, DatabaseRows
<1>8. ASSUME NEW c \in DOMAIN vehicle, NEW k \in Fields, KeptByRevert(c, k)
      PROVE  Shows(db, 3, c)[k] = Shows(Database, 4, c)[k]
  <2> DEFINE r == Shows(db, 3, c) q == Shows(Database, 4, c)
  <2>1. r.interior = ColourOf(v[c].interior) /\ q.interior = vehicle[c].interior
    BY <1>6, ShowsIs, CarIs, TablesAre
  <2>2. KeptByRevert(c, "interior") => r.interior = q.interior
    <3>1. KeptByRevert(c, "interior") => vehicle[c].interior \in {"OTHER"} \union ToSet(Palette)
      BY DEF KeptByRevert
    <3> HIDE DEF r, q
    <3> QED
      BY <1>4, <1>5, <2>1, <3>1, ColoursReturn
  <2>3. r.condition = q.condition /\ r.exterior = q.exterior /\ r.doors = q.doors
    BY <1>4, <1>5, <1>6, ShowsIs, CarIs, TablesAre
  <2>5. r.engine = q.engine /\ r.fiscal = q.fiscal /\ r.extras = q.extras
    BY <1>4, <1>5, <1>6, ShowsIs, CarIs, TablesAre
  <2>4. 4 - 1 = 3
    OBVIOUS
  <2> QED
    BY <1>8, <2>2, <2>3, <2>4, <2>5, FieldByField
<1> QED
  BY <1>4, <1>6, <1>7, <1>8 DEF Reverted

\* Back to the one engine of the finition, the first by id (migration 5).
LEMMA DownFive ==
  ASSUME MigrationInv, applied = 5, NEW db \in Downs(Database, 5)
  PROVE  Reverted(db, 5)
<1>1. DatabaseOK(Database, 5)
  BY DEF MigrationInv
<1> DEFINE v == [c \in DOMAIN vehicle |-> [vehicle[c] EXCEPT !.engine = NoEngine]]
           p == [f \in Finitions |-> <<>>]
           t == [f \in Finitions |-> [trimRow[f] EXCEPT !.engine =
                   IF powertrain[f] = <<>> THEN NoEngine ELSE FirstEngine(powertrain[f])]]
<1>2. db = [ForCars(Database, v) EXCEPT !.p = p, !.t = t]
  <2>1. Database.t = trimRow /\ Database.v = vehicle /\ Database.p = powertrain
    BY TablesAre
  <2> DEFINE new == [ForCars(Database, v) EXCEPT !.p = p, !.t = t]
  <2>2. Downs(Database, 5) = {new}
    BY <2>1 DEF Downs
  <2> HIDE DEF new
  <2>3. db = new
    BY <2>2
  <2> QED
    BY <2>3 DEF new
<1>3. db = DB(t, p, v)
  <2> HIDE DEF v, t, p
  <2> DEFINE r == ForCars(Database, v) w == [r EXCEPT !.p = p, !.t = t]
  <2>1. r = DB(trimRow, powertrain, v)
    BY <1>1, OnlyCars, DatabaseRows
  <2>2. r \in [t : {trimRow}, p : {powertrain}, v : {v}]
    BY <2>1 DEF DB
  <2> HIDE DEF r
  <2>3. w \in [t : {t}, p : {p}, v : {v}]
    BY <2>2
  <2> HIDE DEF w
  <2>4. w = DB(t, p, v)
    BY <2>3 DEF DB
  <2> QED
    BY <1>2, <2>4 DEF w, r
<1>4. \A c \in DOMAIN vehicle :
        v[c] = Car(vehicle[c].condition, vehicle[c].exterior, vehicle[c].interior,
                   vehicle[c].doors, NoEngine, vehicle[c].fiscal, vehicle[c].extras)
  BY CarFields, DatabaseRows
<1>5. DOMAIN v = DOMAIN vehicle /\ v = [c \in DOMAIN v |-> v[c]] /\ t = [f \in Finitions |-> t[f]]
  OBVIOUS
<1>6. p \in [Finitions -> Seq(EngineSet)]
  <2>1. <<>> \in Seq(EngineSet)
    OBVIOUS
  <2> QED
    BY <2>1
<1>7. ASSUME NEW f \in Finitions
      PROVE  /\ t[f] \in TrimSet
             /\ t[f].engine = IF powertrain[f] = <<>> THEN NoEngine ELSE Head(powertrain[f])
  <2> DEFINE e == IF powertrain[f] = <<>> THEN NoEngine ELSE Head(powertrain[f])
  <2>1. powertrain[f] \in Seq(EngineSet) /\ trimRow[f] \in TrimSet
    BY DatabaseRows
  <2>2. e \in EngineSet
    BY <2>1, NoEngineIs, HeadTailProperties
  <2>3. t[f] = [trimRow[f] EXCEPT !.engine = e]
    BY DEF FirstEngine
  <2> DEFINE r == trimRow[f] y == [r EXCEPT !.engine = e]
  <2> HIDE DEF e, t, r
  <2>4. y \in TrimSet /\ y.engine = e
    BY <2>1, <2>2 DEF TrimSet, r
  <2> HIDE DEF y
  <2>6. t[f] \in TrimSet /\ t[f].engine = e
    BY <2>3, <2>4 DEF y, r
  <2> QED
    BY <2>6 DEF e
<1> HIDE DEF v, t, p
<1>8. \A c \in DOMAIN v :
        /\ IsCar(v[c]) /\ v[c].condition = vehicle[c].condition
        /\ v[c].exterior = vehicle[c].exterior /\ v[c].interior = vehicle[c].interior
        /\ v[c].doors = vehicle[c].doors /\ v[c].engine = NoEngine
        /\ v[c].fiscal = vehicle[c].fiscal /\ v[c].extras = vehicle[c].extras
  BY <1>4, <1>5, CarIs
<1>9. db.t = t /\ db.p = p /\ db.v = v
  BY <1>3, DatabaseIs
<1>10. DatabaseOK(db, 4)
  <2>1. t \in [Finitions -> TrimSet]
    BY <1>5, <1>7
  <2>2. AreCars(v) /\ DOMAIN v \subseteq Cars
    BY <1>5, <1>8, DatabaseRows DEF AreCars
  <2> QED
    BY <1>3, <1>6, <1>8, <2>1, <2>2, DatabaseMade
<1>11. ASSUME NEW c \in DOMAIN vehicle, NEW k \in Fields, KeptByRevert(c, k)
       PROVE  Shows(db, 4, c)[k] = Shows(Database, 5, c)[k]
  <2> DEFINE r == Shows(db, 4, c) q == Shows(Database, 5, c) f == FinitionOf[c]
  <2>1. r.engine = (IF f = Missing THEN v[c].engine ELSE t[f].engine) /\ q.engine = vehicle[c].engine
    BY <1>9, ShowsIs, CarIs, TablesAre
  <2>2. KeptByRevert(c, "engine") => r.engine = q.engine
    <3>1. KeptByRevert(c, "engine") =>
            vehicle[c].engine = (IF f = Missing \/ powertrain[f] = <<>> THEN NoEngine ELSE Head(powertrain[f]))
      BY DEF KeptByRevert
    <3>2. f # Missing => f \in Finitions
      BY DatabaseRows
    <3> HIDE DEF r, q, f
    <3> QED
      BY <1>5, <1>7, <1>8, <2>1, <3>1, <3>2
  <2>3. /\ r.condition = q.condition /\ r.exterior = q.exterior /\ r.interior = q.interior
        /\ r.doors = q.doors /\ r.fiscal = q.fiscal /\ r.extras = q.extras
    BY <1>5, <1>8, <1>9, ShowsIs, CarIs, TablesAre
  <2>4. 5 - 1 = 4
    OBVIOUS
  <2> QED
    BY <1>11, <2>2, <2>3, <2>4, FieldByField
<1> QED
  BY <1>5, <1>9, <1>10, <1>11 DEF Reverted

\* An operator who reverts the last migration leaves the rows to the one
\* before, and a car shows what it showed unless it had nowhere to go.
LEMMA RevertKeeps ==
  ASSUME MigrationInv, applied > 0, NEW db \in Downs(Database, applied)
  PROVE  Reverted(db, applied)
BY DownOne, DownTwo, DownThree, DownFour, DownFive DEF MigrationInv

-----------------------------------------------------------------------------

\* What a seller told, on the coarser scale of conditions.
LEMMA ToldIs ==
  ASSUME NEW r, IsCar(r)
  PROVE  [r EXCEPT !.condition = CoarseCondition(@)]
           = Car(CoarseCondition(r.condition), r.exterior, r.interior, r.doors, r.engine, r.fiscal, r.extras)
<1> DEFINE x == CoarseCondition(r.condition)
<1>1. [r EXCEPT !.condition = CoarseCondition(@)] = [r EXCEPT !.condition = x]
  OBVIOUS
<1> HIDE DEF x
<1> QED
  BY <1>1, CarFields DEF x

\* What a migration stores is the database from then on.
LEMMA StoredIs ==
  ASSUME NEW db, NEW i, DatabaseOK(db, i), Stored(db)
  PROVE  Database' = db
<1> DEFINE t == db.t p == db.p v == db.v
<1>1. db = [t |-> t, p |-> p, v |-> v]
  BY DEF DatabaseOK
<1>2. trimRow' = t /\ powertrain' = p /\ vehicle' = v
  BY DEF Stored
<1> HIDE DEF t, p, v
<1> QED
  BY <1>1, <1>2 DEF Database

\* A migration that keeps what the cars show, but for those fields it writes
\* down as overwritten, keeps the invariant.
LEMMA KeptIsTold ==
  ASSUME MigrationInv, NEW db, NEW i \in 0 .. 5, NEW lost, DatabaseOK(db, i), Stored(db), applied' = i,
         DOMAIN db.v = DOMAIN vehicle, UNCHANGED told, overwritten' = overwritten \union lost,
         \A c \in DOMAIN vehicle, k \in Fields :
           <<c, k>> \notin lost => Shows(db, i, c)[k] = Shows(Database, applied, c)[k]
  PROVE  MigrationInv'
<1>1. Database' = db /\ DOMAIN vehicle' = DOMAIN vehicle
  BY StoredIs DEF Stored
<1>2. ASSUME NEW c \in DOMAIN vehicle, NEW k \in Fields, <<c, k>> \notin overwritten'
      PROVE  Shows(db, i, c)[k] = AsTold(c)'[k]
  <2>1. <<c, k>> \notin overwritten /\ <<c, k>> \notin lost
    BY <1>2
  <2>2. Shows(Database, applied, c)[k] = AsTold(c)[k]
    BY <2>1 DEF MigrationInv, CarsShowWhatWasTold
  <2>3. AsTold(c)' = AsTold(c)
    BY DEF AsTold
  <2> QED
    BY <2>1, <2>2, <2>3
<1>3. CarsShowWhatWasTold'
  BY <1>1, <1>2 DEF CarsShowWhatWasTold
<1> QED
  BY <1>1, <1>3 DEF MigrationInv

\* A release that boots keeps the invariant.
LEMMA UpgradeStep == MigrationInv /\ Upgrade => MigrationInv'
<1> SUFFICES ASSUME MigrationInv, Upgrade
             PROVE  MigrationInv'
  OBVIOUS
<1> DEFINE new == Then(Then(Then(Then(Then(Database, 1), 2), 3), 4), 5)
           lost == {ck \in (DOMAIN vehicle) \X Fields : ~KeptByUpgrade(ck[1], ck[2])}
<1>1. applied < 5 /\ Stored(new) /\ applied' = 5 /\ UNCHANGED told /\ overwritten' = overwritten \union lost
  BY DEF Upgrade, Latest
<1>2. /\ DatabaseOK(new, 5) /\ DOMAIN new.v = DOMAIN vehicle
      /\ \A c \in DOMAIN vehicle, k \in Fields :
           KeptByUpgrade(c, k) => Shows(new, 5, c)[k] = Shows(Database, applied, c)[k]
  BY <1>1, UpgradeKeeps
<1>3. \A c \in DOMAIN vehicle, k \in Fields : <<c, k>> \notin lost => KeptByUpgrade(c, k)
  OBVIOUS
<1> HIDE DEF new, lost
<1>4. 5 \in 0 .. 5
  OBVIOUS
<1> QED
  BY <1>1, <1>2, <1>3, <1>4, KeptIsTold

\* An operator who reverts a migration keeps it.
LEMMA RevertStep == MigrationInv /\ Revert => MigrationInv'
<1> SUFFICES ASSUME MigrationInv, Revert
             PROVE  MigrationInv'
  OBVIOUS
<1> DEFINE lost == {ck \in (DOMAIN vehicle) \X Fields : ~KeptByRevert(ck[1], ck[2])}
<1>1. applied > 0 /\ applied' = applied - 1 /\ UNCHANGED told /\ overwritten' = overwritten \union lost
  BY DEF Revert
<1>2. PICK db \in Downs(Database, applied) : Stored(db)
  BY DEF Revert
<1>3. Reverted(db, applied)
  BY <1>1, <1>2, RevertKeeps
<1>4. applied - 1 \in 0 .. 5
  BY <1>1 DEF MigrationInv
<1>5. \A c \in DOMAIN vehicle, k \in Fields : <<c, k>> \notin lost => KeptByRevert(c, k)
  OBVIOUS
<1> HIDE DEF lost
<1>6. \A c \in DOMAIN vehicle, k \in Fields :
        <<c, k>> \notin lost => Shows(db, applied - 1, c)[k] = Shows(Database, applied, c)[k]
  BY <1>3, <1>5 DEF Reverted
<1>7. DatabaseOK(db, applied - 1) /\ DOMAIN db.v = DOMAIN vehicle
  BY <1>3 DEF Reverted
<1> QED
  BY <1>1, <1>2, <1>4, <1>6, <1>7, KeptIsTold

\* A row more in a table of cars.
LEMMA RowAdded ==
  ASSUME NEW v, AreCars(v), NEW c, c \notin DOMAIN v, NEW r, IsCar(r)
  PROVE  /\ AreCars(Inserted(v, c, r)) /\ DOMAIN Inserted(v, c, r) = (DOMAIN v) \union {c}
         /\ Inserted(v, c, r)[c] = r /\ \A x \in DOMAIN v : Inserted(v, c, r)[x] = v[x]
<1> DEFINE w == Inserted(v, c, r)
<1>1. w = [x \in (DOMAIN v) \union {c} |-> IF x = c THEN r ELSE v[x]]
  BY DEF Inserted
<1> HIDE DEF w
<1>2. DOMAIN w = (DOMAIN v) \union {c} /\ w[c] = r /\ \A x \in DOMAIN v : w[x] = v[x]
  BY <1>1
<1>3. w = [x \in DOMAIN w |-> w[x]]
  BY <1>1
<1>4. AreCars(w)
  BY <1>2, <1>3 DEF AreCars
<1> QED
  BY <1>2, <1>4 DEF w

\* A seller whose car is saved keeps it: what is told is what is stored.
LEMMA WriteStep == \A c \in Cars : MigrationInv /\ SellerWrites(c) => MigrationInv'
<1> SUFFICES ASSUME NEW c \in Cars, MigrationInv, SellerWrites(c)
             PROVE  MigrationInv'
  OBVIOUS
<1>1. PICK p \in Papers, d \in DoorCounts \union {Missing}, b \in Burns, g \in Figures :
        LET r == [condition |-> p.condition, exterior |-> p.paint, interior |-> p.paint, doors |-> d,
                  engine |-> [burns |-> b, figures |-> g], fiscal |-> p.fiscal, extras |-> p.extras]
        IN vehicle' = Inserted(vehicle, c, r) /\ told' = Inserted(told, c, r)
  BY DEF SellerWrites
<1> DEFINE r == Car(p.condition, p.paint, p.paint, d, [burns |-> b, figures |-> g], p.fiscal, p.extras)
           v == vehicle' w == told'
<1>2. v = Inserted(vehicle, c, r) /\ w = Inserted(told, c, r)
  BY <1>1 DEF Car
<1>3. IsCar(r)
  BY CarIs
<1>4. applied = 5 /\ c \notin DOMAIN vehicle /\ UNCHANGED <<applied, trimRow, powertrain, overwritten>>
  BY DEF SellerWrites, Latest
<1>5. AreCars(told) /\ DOMAIN told = DOMAIN vehicle /\ AreCars(vehicle)
  BY DatabaseRows DEF MigrationInv
<1> HIDE DEF r, v, w
<1>6. AreCars(v) /\ DOMAIN v = (DOMAIN vehicle) \union {c} /\ v[c] = r /\ \A x \in DOMAIN vehicle : v[x] = vehicle[x]
  <2>1. /\ AreCars(Inserted(vehicle, c, r)) /\ DOMAIN Inserted(vehicle, c, r) = (DOMAIN vehicle) \union {c}
        /\ Inserted(vehicle, c, r)[c] = r /\ \A x \in DOMAIN vehicle : Inserted(vehicle, c, r)[x] = vehicle[x]
    <3>1. AreCars(vehicle) /\ c \notin DOMAIN vehicle /\ IsCar(r)
      BY <1>3, <1>4, <1>5
    <3> QED
      BY <3>1, RowAdded
  <2> QED
    BY <1>2, <2>1
<1>7. AreCars(w) /\ DOMAIN w = (DOMAIN vehicle) \union {c} /\ w[c] = r /\ \A x \in DOMAIN vehicle : w[x] = told[x]
  <2>1. /\ AreCars(Inserted(told, c, r)) /\ DOMAIN Inserted(told, c, r) = (DOMAIN told) \union {c}
        /\ Inserted(told, c, r)[c] = r /\ \A x \in DOMAIN told : Inserted(told, c, r)[x] = told[x]
    <3>1. AreCars(told) /\ c \notin DOMAIN told /\ IsCar(r)
      BY <1>3, <1>4, <1>5
    <3> QED
      BY <3>1, RowAdded
  <2> QED
    BY <1>2, <1>5, <2>1
<1>8. Database' = DB(trimRow, powertrain, v)
  BY <1>4 DEF Database, DB, v
<1>9. Database'.t = trimRow /\ Database'.p = powertrain /\ Database'.v = v
  BY <1>8, DatabaseIs
<1>10. DatabaseOK(Database', 5)
  <2>1. ~(5 < 5)
    OBVIOUS
  <2>2. DOMAIN v \subseteq Cars
    BY <1>6, DatabaseRows
  <2> QED
    BY <1>6, <1>8, <2>1, <2>2, DatabaseMade, DatabaseRows
<1>11. ASSUME NEW x \in DOMAIN v, NEW k \in Fields, <<x, k>> \notin overwritten'
       PROVE  Shows(Database', 5, x)[k] = AsTold(x)'[k]
  <2>1. CASE x = c
    <3>1. Shows(Database', 5, c)
            = Car(CoarseCondition(r.condition), r.exterior, r.interior, r.doors, r.engine, r.fiscal, r.extras)
      BY <1>6, <1>9, ShowsIs
    <3>2. AsTold(c)' = [r EXCEPT !.condition = CoarseCondition(@)]
      BY <1>7 DEF AsTold, w
    <3> QED
      BY <1>3, <2>1, <3>1, <3>2, ToldIs
  <2>2. CASE x # c
    <3>1. x \in DOMAIN vehicle /\ v[x] = vehicle[x] /\ w[x] = told[x]
      BY <1>6, <1>7, <2>2
    <3>2. Shows(Database, 5, x)[k] = AsTold(x)[k]
      BY <1>4, <1>11, <3>1 DEF MigrationInv, CarsShowWhatWasTold
    <3>3. AsTold(x)' = AsTold(x)
      BY <3>1 DEF AsTold, w
    <3>4. Shows(Database', 5, x) = Shows(Database, 5, x)
      BY <1>9, <3>1, ShowsIs, TablesAre
    <3> QED
      BY <3>2, <3>3, <3>4
  <2> QED
    BY <2>1, <2>2
<1>12. CarsShowWhatWasTold'
  BY <1>4, <1>11 DEF CarsShowWhatWasTold, v
<1>13. AreCars(told') /\ DOMAIN told' = DOMAIN vehicle'
  BY <1>6, <1>7 DEF v, w
<1> QED
  BY <1>4, <1>10, <1>12, <1>13 DEF MigrationInv

\* An engine added to a finition keeps it: no car shows another engine for it.
LEMMA EngineStep == \A f \in Finitions : MigrationInv /\ AddsEngine(f) => MigrationInv'
<1> SUFFICES ASSUME NEW f \in Finitions, MigrationInv, AddsEngine(f)
             PROVE  MigrationInv'
  OBVIOUS
<1>1. PICK b \in Burns, g \in Figures :
        powertrain' = [powertrain EXCEPT ![f] = Append(@, [burns |-> b, figures |-> g])]
  BY DEF AddsEngine
<1>2. applied = 5 /\ UNCHANGED <<applied, trimRow, vehicle, told, overwritten>>
  BY DEF AddsEngine, Latest
<1> DEFINE e == [burns |-> b, figures |-> g]
<1>3. e \in EngineSet
  BY DEF EngineSet
<1> HIDE DEF e
<1>4. powertrain' \in [Finitions -> Seq(EngineSet)]
  <2>1. powertrain[f] \in Seq(EngineSet)
    BY DatabaseRows
  <2>2. Append(powertrain[f], e) \in Seq(EngineSet)
    BY <1>3, <2>1
  <2>3. powertrain' = [powertrain EXCEPT ![f] = Append(powertrain[f], e)]
    BY <1>1 DEF e
  <2> QED
    BY <2>2, <2>3, DatabaseRows
<1>5. /\ Database'.t = trimRow /\ Database'.v = vehicle
      /\ Database' = DB(trimRow, powertrain', vehicle)
  BY <1>2 DEF Database, DB
<1>6. DatabaseOK(Database', 5)
  <2>1. ~(5 < 5)
    OBVIOUS
  <2> DEFINE p == powertrain'
  <2>2. p \in [Finitions -> Seq(EngineSet)]
    BY <1>4
  <2> HIDE DEF p
  <2>3. DatabaseOK(DB(trimRow, p, vehicle), 5)
    BY <2>1, <2>2, DatabaseMade, DatabaseRows
  <2> QED
    BY <1>5, <2>3 DEF p
<1>7. \A x \in DOMAIN vehicle : Shows(Database', 5, x) = Shows(Database, 5, x)
  BY <1>5, ShowsIs, TablesAre
<1>8. CarsShowWhatWasTold'
  BY <1>2, <1>7 DEF CarsShowWhatWasTold, AsTold, MigrationInv
<1> QED
  BY <1>2, <1>6, <1>8 DEF MigrationInv

\* A release of before any migration: what a car shows then is what was told.
LEMMA MigrationsBegin ==
  ASSUME NEW trims \in OldTrims, NEW vehicles \in OldVehicles, MigrationsStart(trims, vehicles)
  PROVE  MigrationInv
<1>1. /\ applied = 0 /\ trimRow = trims /\ vehicle = vehicles
      /\ powertrain = [f \in Finitions |-> <<>>] /\ told = [c \in OldCars |-> Shows(Database, 0, c)]
  BY DEF MigrationsStart
<1>2. trimRow \in [Finitions -> TrimSet]
  BY <1>1, NoEngineIs DEF OldTrims, TrimSet, EngineSet
<1>3. powertrain \in [Finitions -> Seq(EngineSet)]
  <2>1. <<>> \in Seq(EngineSet)
    OBVIOUS
  <2> QED
    BY <1>1, <2>1
<1>4. ASSUME NEW c \in OldCars
      PROVE  IsCar(vehicle[c]) /\ vehicle[c].engine = NoEngine
  <2>1. PICK p \in OldPapers : vehicle[c] = [condition |-> p.condition, exterior |-> p.paint,
                                interior |-> p.paint, doors |-> Missing, engine |-> NoEngine,
                                fiscal |-> Missing, extras |-> Missing]
    BY <1>1 DEF OldVehicles
  <2>2. vehicle[c] = Car(p.condition, p.paint, p.paint, Missing, NoEngine, Missing, Missing)
    BY <2>1 DEF Car
  <2> QED
    BY <2>2, CarIs
<1>5. DOMAIN vehicle = OldCars /\ AreCars(vehicle)
  BY <1>1, <1>4 DEF OldVehicles, AreCars
<1>6. DatabaseOK(Database, 0)
  <2>1. Database = DB(trimRow, powertrain, vehicle)
    BY DEF Database, DB
  <2> QED
    BY <1>2, <1>3, <1>4, <1>5, <2>1, DatabaseMade, MigrationsAssumption
<1>7. ASSUME NEW c \in OldCars
      PROVE  IsCar(told[c]) /\ Shows(Database, 0, c) = AsTold(c)
  <2> DEFINE s == Shows(Database, 0, c) r == Database.v[c]
  <2>1. PICK x, y, d, e, f, g : s = Car(CoarseCondition(r.condition), x, y, d, e, f, g)
    BY ShowsIs
  <2>2. told[c] = s
    BY <1>1
  <2> HIDE DEF s, r
  <2>3. s = Car(s.condition, s.exterior, s.interior, s.doors, s.engine, s.fiscal, s.extras) /\ IsCar(s)
        /\ CoarseCondition(s.condition) = s.condition
    BY <2>1, CarIs, CoarseIs
  <2>4. [s EXCEPT !.condition = CoarseCondition(@)] = s
    BY <2>3, ToldIs
  <2> QED
    BY <2>2, <2>3, <2>4 DEF s, AsTold
<1>8. CarsShowWhatWasTold
  BY <1>1, <1>5, <1>7 DEF CarsShowWhatWasTold
<1>9. DOMAIN told = DOMAIN vehicle /\ AreCars(told)
  BY <1>1, <1>5, <1>7 DEF AreCars
<1> QED
  BY <1>1, <1>6, <1>7, <1>8, <1>9 DEF MigrationInv

\* There is a database of the first release, whichever part is running.
LEMMA OldDatabases ==
  (CHOOSE t \in OldTrims : TRUE) \in OldTrims /\ (CHOOSE v \in OldVehicles : TRUE) \in OldVehicles
<1>1. [f \in Finitions |-> [doors |-> Missing, engine |-> NoEngine]] \in OldTrims
  BY DEF OldTrims
<1>2. PICK p \in OldPapers : TRUE
  BY MigrationsAssumption
<1>3. [c \in OldCars |-> [condition |-> p.condition, exterior |-> p.paint, interior |-> p.paint, doors |-> Missing,
                          engine |-> NoEngine, fiscal |-> Missing, extras |-> Missing]] \in OldVehicles
  BY DEF OldVehicles
<1> QED
  BY <1>1, <1>3

\* A car whose rows the migrations had room for shows what its seller told,
\* through upgrades of any database of the first release, and reverts.
THEOREM MigrationsCorrect == OperationsSpec => []CarsShowWhatWasTold
<1>1. OperationsInit => MigrationInv
  BY OldDatabases, MigrationsBegin DEF OperationsInit, MigrationsInit
<1>2. MigrationInv /\ [OperationsNext]_operationsVars => MigrationInv'
  <2> SUFFICES ASSUME MigrationInv, [OperationsNext]_operationsVars
               PROVE  MigrationInv'
    OBVIOUS
  <2>1. CASE UNCHANGED migrationVars
    BY <2>1 DEF migrationVars, MigrationInv, DatabaseOK, AreCars, Database, CarsShowWhatWasTold, AsTold
  <2>2. CASE MigrationsNext
    BY <2>2, UpgradeStep, RevertStep, WriteStep, EngineStep DEF MigrationsNext
  <2> QED
    BY <2>1, <2>2 DEF OperationsNext, operationsVars
<1>3. MigrationInv => CarsShowWhatWasTold
  BY DEF MigrationInv
<1> QED
  BY <1>1, <1>2, <1>3, PTL DEF OperationsSpec
=============================================================================
