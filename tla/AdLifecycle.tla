---------------------------- MODULE AdLifecycle ----------------------------
(***************************************************************************)
(* What the Ad entity promises about an ad, each call being one step: its  *)
(* status moves along the lifecycle only, its fundamentals do not change   *)
(* while it is VALIDATED, and its content changes then only by going back  *)
(* to REVIEW.                                                              *)
(***************************************************************************)
CONSTANTS Ads, Texts, Unset

VARIABLES status, core, content

lifecycleVars == <<status, core, content>>

LifecycleInit ==
  /\ status = [a \in Ads |-> "ABSENT"]
  /\ core = [a \in Ads |-> Unset]
  /\ content = [a \in Ads |-> Unset]

Move(a, from, to) == status[a] \in from /\ status' = [status EXCEPT ![a] = to]

Write(a) ==
  /\ \E t \in Texts : core' = [core EXCEPT ![a] = t]
  /\ \E t \in Texts : content' = [content EXCEPT ![a] = t]

Create(a) == Move(a, {"ABSENT"}, "DRAFT") /\ Write(a)

Edit(a) == status[a] \in {"DRAFT", "REJECTED", "REVIEW"} /\ Write(a) /\ UNCHANGED status

Submit(a) == Move(a, {"DRAFT", "REJECTED"}, "REVIEW") /\ UNCHANGED <<core, content>>

Validate(a) == Move(a, {"REVIEW"}, "VALIDATED") /\ UNCHANGED <<core, content>>

Reject(a) == Move(a, {"REVIEW"}, "REJECTED") /\ UNCHANGED <<core, content>>

Revise(a) ==
  /\ Move(a, {"VALIDATED"}, "REVIEW")
  /\ \E t \in Texts : content' = [content EXCEPT ![a] = t]
  /\ UNCHANGED core

LifecycleNext ==
  \E a \in Ads : Create(a) \/ Edit(a) \/ Submit(a) \/ Validate(a) \/ Reject(a) \/ Revise(a)

LifecycleSpec == LifecycleInit /\ [][LifecycleNext]_lifecycleVars
=============================================================================
