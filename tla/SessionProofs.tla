---------------------------- MODULE SessionProofs ----------------------------
(***************************************************************************)
(* Proofs about Session, for any accounts, tabs, lifetimes of a token,     *)
(* lead, longest timeout, and number of logins and faults.                 *)
(***************************************************************************)
EXTENDS Session, TLAPS

-----------------------------------------------------------------------------
(* The inductive invariant                                                  *)

\* What a tab has pending fits the session it shows: a timer that will warn is
\* never too early, some timer is early enough, and the notice of an expired
\* session is only up when there is none.
TabRight(t) ==
  /\ user[t] # Null => warned[t] \/ \E m \in timers[t] : m.at <= user[t].exp - Lead
  /\ \A m \in timers[t] : user[t] # Null /\ (m.rearm \/ user[t].exp - Lead <= m.at)
  /\ notice[t] => user[t] = Null

TabsRight == \A t \in Tabs : TabRight(t)

\* A token is that of a row, at a version the row has reached: a revoked one can
\* never be valid again.
Issued(u) == u = Null \/ (version[u.email] # Null /\ u.version <= version[u.email])

TokensIssued ==
  Issued(stored) /\ \A t \in Tabs : Issued(signin[t].token) /\ Issued(call[t].token)

\* The token of a call that was refused stays invalid until the tab learns of it.
RefusalsFounded ==
  \A t \in Tabs : call[t].pc = "refused" /\ call[t].token # Null =>
    outages > 0 \/ ~Valid(call[t].token)

LoginsNameAnEmail == \A t \in Tabs : signin[t].pc = "sent" => signin[t].email \in Emails

IInv ==
  /\ TypeOK /\ OneAccountPerEmail /\ LastWriterShowsStored /\ TabsRight
  /\ TokensIssued /\ RefusalsFounded /\ LoginsNameAnEmail

-----------------------------------------------------------------------------
(* The expiry timer                                                         *)

\* scheduleExpiryWarning returns typed timers, only that of the session it is
\* called for, due in time; or the warning is due.
LEMMA ScheduledRight ==
  ASSUME now \in Nat, NEW u \in Token \union {Null}, NEW pending
  PROVE  LET s == Scheduled(u, pending) IN
         /\ s.timers \in SUBSET Timer /\ s.due \in BOOLEAN
         /\ s.due => u # Null /\ u.exp - now <= Lead
         /\ u # Null => s.due \/ \E m \in s.timers : m.at <= u.exp - Lead
         /\ \A m \in s.timers : u # Null /\ (m.rearm \/ u.exp - Lead <= m.at)
<1> DEFINE s == Scheduled(u, pending)
<1>1. CASE u = Null \/ Due(u)
  BY <1>1, AccountsAssumption, SessionAssumption DEF Scheduled, ClearTimeout, Due, Token
<1>2. CASE u # Null /\ ~Due(u)
  <2>1. u \in Token /\ u.exp \in Nat
    BY <1>2 DEF Token
  <2>2. Armed(u) \in Timer /\ Armed(u).at <= u.exp - Lead /\ (Armed(u).rearm \/ u.exp - Lead <= Armed(u).at)
    BY <1>2, <2>1, SessionAssumption DEF Armed, Due, Timer
  <2>3. s.timers = {Armed(u)} /\ s.due = FALSE
    BY <1>2 DEF Scheduled, ClearTimeout
  <2> QED
    BY <1>2, <2>2, <2>3
<1> QED
  BY <1>1, <1>2

\* What a tab reads from localStorage is the stored token, or null.
LEMMA ReadableTyped ==
  ASSUME TypeOK PROVE Readable \in Token \union {Null} /\ (Readable = stored \/ Readable = Null)
  BY DEF TypeOK, Readable

-----------------------------------------------------------------------------
(* The steps keep the invariant                                             *)

\* The initial states satisfy the invariant.
LEMMA InitRight == Init => IInv
<1> SUFFICES ASSUME Init PROVE IInv
  OBVIOUS
<1>1. TypeOK
  BY AccountsAssumption, SessionAssumption DEF Init, AccountsInit, TypeOK, AccountsTypeOK, NoSignup, NoSignin, Idle
<1>2. OneAccountPerEmail /\ LastWriterShowsStored /\ TabsRight
  BY DEF Init, AccountsInit, OneAccountPerEmail, LastWriterShowsStored, TabsRight, TabRight
<1>3. TokensIssued /\ RefusalsFounded /\ LoginsNameAnEmail
  BY DEF Init, TokensIssued, Issued, RefusalsFounded, LoginsNameAnEmail, NoSignin, Idle
<1> QED
  BY <1>1, <1>2, <1>3 DEF IInv

Signup == [pc : {"idle", "sent", "checked", "answered"},
           email : Emails \union {Null}, status : {0, 201, 409, 500}]

\* A dialog opens or closes: the notice only ever goes down.
LEMMA DialogsRight ==
  ASSUME IInv, NEW t \in Tabs, DialogStep(t) PROVE IInv'
<1>1. /\ UNCHANGED <<accountVars, stored, writer, user, timers, warned, signin, call, outages, logins>>
      /\ shown' \in [Tabs -> SUBSET Dialogs]
  BY DEF IInv, TypeOK, DialogStep, OpenLogin, CloseLogin, SwitchToRegister, OpenRegister, CloseRegister,
         SwitchToLogin, DismissWarning, ExtendSession, OpenDialog, Shows, Dialogs
<1>2. notice' = notice \/ notice' = [notice EXCEPT ![t] = FALSE]
  BY DEF DialogStep, OpenLogin, CloseLogin, SwitchToRegister, OpenRegister, CloseRegister,
         SwitchToLogin, DismissWarning, ExtendSession, OpenDialog, Shows
<1>3. TypeOK'
  BY <1>1, <1>2 DEF IInv, TypeOK, AccountsTypeOK, accountVars
<1>4. TabsRight'
  BY <1>1, <1>2 DEF IInv, TypeOK, TabsRight, TabRight
<1> QED
  BY <1>1, <1>3, <1>4 DEF IInv, accountVars, OneAccountPerEmail, LastWriterShowsStored, TokensIssued,
     Issued, RefusalsFounded, Valid, LoginsNameAnEmail

\* The registration of a client, on either side.
LEMMA SignupsRight ==
  ASSUME IInv, NEW t \in Tabs,
         (\E e \in Emails : SubmitSignup(t, e)) \/ SignupAnswered(t)
           \/ (FindByEmail(t) /\ UNCHANGED <<stored, writer, tabVars, signin, call, outages, logins>>)
  PROVE  IInv'
<1>1. UNCHANGED <<now, version, welcomed, stored, writer, tabVars, signin, call, outages, logins>>
  BY DEF SubmitSignup, SignupAnswered, FindByEmail
<1>2. signup' \in [Clients -> Signup]
  <2>1. t \in Clients /\ signup \in [Clients -> Signup] /\ signup[t] \in Signup
    BY DEF IInv, TypeOK, AccountsTypeOK, Tabs, Signup
  <2>2. \A e \in Emails : [pc |-> "sent", email |-> e, status |-> 0] \in Signup
    BY DEF Signup
  <2>3. NoSignup \in Signup /\ [signup[t] EXCEPT !.pc = "checked"] \in Signup
    BY <2>1 DEF Signup, NoSignup
  <2>4. [pc |-> "answered", email |-> signup[t].email, status |-> 409] \in Signup
    BY <2>1 DEF Signup
  <2>5. CASE \E e \in Emails : SubmitSignup(t, e)
    BY <2>1, <2>2, <2>5 DEF SubmitSignup
  <2>6. CASE SignupAnswered(t)
    BY <2>1, <2>3, <2>6 DEF SignupAnswered
  <2>7. CASE FindByEmail(t)
    BY <2>1, <2>3, <2>4, <2>7 DEF FindByEmail, Answered
  <2> QED
    BY <2>5, <2>6, <2>7
<1> QED
  BY <1>1, <1>2 DEF IInv, TypeOK, AccountsTypeOK, Signup, tabVars, OneAccountPerEmail, LastWriterShowsStored,
     TabsRight, TabRight, TokensIssued, Issued, RefusalsFounded, Valid, LoginsNameAnEmail

\* The row of a new account: the unique index answers all but the first.
LEMMA SaveUserRight ==
  ASSUME IInv, NEW c \in Clients, SaveUser(c),
         UNCHANGED <<stored, writer, tabVars, signin, call, outages, logins>>
  PROVE  IInv'
<1> DEFINE e == signup[c].email
<1>1. signup' \in [Clients -> Signup]
  <2>1. signup \in [Clients -> Signup] /\ signup[c] \in Signup
    BY DEF IInv, TypeOK, AccountsTypeOK, Signup
  <2>2. \A status \in {201, 500} :
          [pc |-> "answered", email |-> signup[c].email, status |-> status] \in Signup
    BY <2>1 DEF Signup
  <2> QED
    BY <2>1, <2>2 DEF SaveUser, Answered
<1>2. /\ version' \in [Emails -> Nat \union {Null}] /\ welcomed' \in [Emails -> Nat]
      /\ \A x \in Emails : version[x] # Null => version'[x] = version[x]
      /\ OneAccountPerEmail'
  <2>0. /\ version \in [Emails -> Nat \union {Null}] /\ welcomed \in [Emails -> Nat] /\ 0 # Null
        /\ \A x \in Emails : welcomed[x] = IF version[x] = Null THEN 0 ELSE 1
    BY AccountsAssumption DEF IInv, TypeOK, AccountsTypeOK, OneAccountPerEmail
  <2>1. CASE UNCHANGED <<version, welcomed>>
    BY <2>0, <2>1 DEF OneAccountPerEmail
  <2>2. CASE /\ version[e] = Null
             /\ version' = [version EXCEPT ![e] = 0]
             /\ welcomed' = [welcomed EXCEPT ![e] = welcomed[e] + 1]
    <3>1. \A x \in Emails : /\ version'[x] = IF x = e THEN 0 ELSE version[x]
                            /\ welcomed'[x] = IF x = e THEN 1 ELSE welcomed[x]
      BY <2>0, <2>2
    <3>2. version' \in [Emails -> Nat \union {Null}]
      BY <2>0, <2>2
    <3>3. welcomed' \in [Emails -> Nat]
      <4>1. DOMAIN welcomed' = Emails /\ welcomed' = [x \in Emails |-> welcomed'[x]]
        BY <2>0, <2>2
      <4> QED BY <4>1, <3>1, <2>0
    <3> QED
      BY <2>0, <2>2, <3>1, <3>2, <3>3 DEF OneAccountPerEmail
  <2> QED
    BY <2>1, <2>2 DEF SaveUser, UniqueEmail
<1>3. TypeOK'
  BY <1>1, <1>2 DEF IInv, TypeOK, AccountsTypeOK, Signup, tabVars, SaveUser
<1>4. \A u \in Token \union {Null} : Issued(u) => Issued(u)' /\ (u # Null => (Valid(u)' <=> Valid(u)))
  BY <1>2 DEF Issued, Valid, Token, SaveUser
<1>5. TokensIssued' /\ RefusalsFounded'
  BY <1>4 DEF IInv, TypeOK, TokensIssued, RefusalsFounded
<1> QED
  BY <1>2, <1>3, <1>5 DEF IInv, tabVars, SaveUser, LastWriterShowsStored, TabsRight, TabRight, LoginsNameAnEmail

\* Revocation and the clock only take tokens their validity.
LEMMA TokensAge ==
  ASSUME IInv,
         \/ /\ \E e \in Emails : Revoke(e)
            /\ UNCHANGED <<stored, writer, tabVars, signin, call, outages, logins>>
         \/ ClockTicks
  PROVE  IInv'
<1>1. /\ now' \in 0..MaxTime /\ now <= now' /\ version' \in [Emails -> Nat \union {Null}]
      /\ \A x \in Emails : version[x] = Null <=> version'[x] = Null
      /\ \A x \in Emails : version[x] # Null => version[x] <= version'[x]
  <2>0. now \in 0..MaxTime /\ MaxTime \in Nat /\ version \in [Emails -> Nat \union {Null}] /\ Null \notin Nat
    BY AccountsAssumption DEF IInv, TypeOK, AccountsTypeOK
  <2>1. ASSUME NEW e \in Emails, Revoke(e) 
        PROVE  /\ now' = now /\ version' \in [Emails -> Nat \union {Null}]
               /\ \A x \in Emails : version[x] = Null <=> version'[x] = Null
               /\ \A x \in Emails : version[x] # Null => version[x] <= version'[x]
    <3>1. version[e] \in Nat /\ version' = [version EXCEPT ![e] = version[e] + 1] /\ now' = now
      BY <2>0, <2>1 DEF Revoke
    <3>2. \A x \in Emails : version'[x] = IF x = e THEN version[e] + 1 ELSE version[x]
      BY <2>0, <3>1
    <3>3. version' \in [Emails -> Nat \union {Null}]
      BY <2>0, <3>1
    <3>4. \A x \in Emails : version[x] # Null => version[x] <= version'[x]
      <4> SUFFICES ASSUME NEW x \in Emails, version[x] # Null PROVE version[x] <= version'[x]
        OBVIOUS
      <4>1. version[x] \in Nat
        BY <2>0
      <4> QED BY <3>1, <3>2, <4>1
    <3> QED
      BY <2>0, <3>1, <3>2, <3>3, <3>4
  <2>2. CASE ClockTicks
    <3>1. now' \in 0..MaxTime /\ now <= now' /\ version' = version
      BY <2>0, <2>2 DEF ClockTicks
    <3>2. \A x \in Emails : version[x] # Null => version[x] <= version[x]
      <4> SUFFICES ASSUME NEW x \in Emails, version[x] # Null PROVE version[x] <= version[x]
        OBVIOUS
      <4>1. version[x] \in Nat
        BY <2>0
      <4> QED BY <4>1
    <3> QED
      BY <2>0, <3>1, <3>2
  <2> QED
    BY <2>0, <2>1, <2>2
<1>2. UNCHANGED <<signup, welcomed, stored, writer, tabVars, signin, call, outages, logins>>
  BY DEF Revoke, ClockTicks
<1>3. TypeOK'
  BY <1>1, <1>2 DEF IInv, TypeOK, AccountsTypeOK, tabVars
<1>4. \A u \in Token \union {Null} : Issued(u) =>
        Issued(u)' /\ (u # Null => (~Valid(u) => ~Valid(u)'))
  BY <1>1 DEF IInv, TypeOK, AccountsTypeOK, Issued, Valid, Token
<1>5. TokensIssued' /\ RefusalsFounded'
  BY <1>2, <1>4 DEF IInv, TypeOK, TokensIssued, RefusalsFounded
<1> QED
  BY <1>1, <1>2, <1>3, <1>5 DEF IInv, tabVars, OneAccountPerEmail, LastWriterShowsStored, TabsRight, TabRight,
     LoginsNameAnEmail

\* The page of a tab is loaded again.
LEMMA LoadRight ==
  ASSUME IInv, NEW t \in Tabs, Load(t) PROVE IInv'
<1> DEFINE u == Readable
           next == Scheduled(u, {})
<1>1. u \in Token \union {Null} /\ (u = stored \/ u = Null) /\ now \in Nat
  BY ReadableTyped DEF IInv, TypeOK, AccountsTypeOK
<1>2. /\ next.timers \in SUBSET Timer /\ next.due \in BOOLEAN
      /\ u # Null => next.due \/ \E m \in next.timers : m.at <= u.exp - Lead
      /\ \A m \in next.timers : u # Null /\ (m.rearm \/ u.exp - Lead <= m.at)
  BY <1>1, ScheduledRight
<1> HIDE DEF u, next
<1>3. /\ stored' = u /\ writer' = (IF u = stored THEN writer ELSE t)
      /\ user' = [user EXCEPT ![t] = u] /\ timers' = [timers EXCEPT ![t] = next.timers]
      /\ warned' = [warned EXCEPT ![t] = next.due] /\ shown' = [shown EXCEPT ![t] = WarnIf(next.due)]
      /\ notice' = [notice EXCEPT ![t] = FALSE]
      /\ signin' = [signin EXCEPT ![t] = NoSignin] /\ call' = [call EXCEPT ![t] = Idle]
      /\ UNCHANGED <<accountVars, outages, logins>>
  BY DEF Load, u, next
<1>4. TypeOK'
  <2>1. NoSignin \in [pc : {"idle", "sent", "answered"}, email : Emails \union {Null},
                      remember : BOOLEAN, token : Token \union {Null}]
    BY DEF NoSignin
  <2>2. Idle \in [pc : {"idle", "sent", "refused"}, token : Token \union {Null}]
    BY DEF Idle
  <2>3. WarnIf(next.due) \in SUBSET Dialogs
    BY DEF WarnIf, Dialogs
  <2> QED
    BY <1>1, <1>2, <1>3, <2>1, <2>2, <2>3 DEF IInv, TypeOK, AccountsTypeOK, accountVars
<1>5. LastWriterShowsStored' /\ OneAccountPerEmail'
  BY <1>1, <1>3 DEF IInv, TypeOK, LastWriterShowsStored, OneAccountPerEmail, accountVars
<1>6. TabsRight'
  BY <1>2, <1>3 DEF IInv, TypeOK, TabsRight, TabRight
<1>7. TokensIssued' /\ RefusalsFounded' /\ LoginsNameAnEmail'
  BY <1>1, <1>3 DEF IInv, TypeOK, TokensIssued, Issued, RefusalsFounded, LoginsNameAnEmail, Valid,
     NoSignin, Idle, accountVars
<1> QED
  BY <1>4, <1>5, <1>6, <1>7 DEF IInv

\* A login is submitted, and served with a token of the row as it is.
LEMMA LoginsRight ==
  ASSUME IInv, NEW t \in Tabs,
         (\E e \in Emails, remember \in BOOLEAN : SubmitLogin(t, e, remember)) \/ LoginServed(t)
  PROVE  IInv'
<1> DEFINE Signin == [pc : {"idle", "sent", "answered"}, email : Emails \union {Null},
                      remember : BOOLEAN, token : Token \union {Null}]
<1>1. \E s \in Signin : /\ signin' = [signin EXCEPT ![t] = s]
                        /\ Issued(s.token) /\ (s.pc = "sent" => s.email \in Emails)
  <2>1. CASE \E e \in Emails, remember \in BOOLEAN : SubmitLogin(t, e, remember)
    <3>1. PICK e \in Emails, remember \in BOOLEAN : SubmitLogin(t, e, remember)
      BY <2>1
    <3> DEFINE s == [pc |-> "sent", email |-> e, remember |-> remember, token |-> Null]
    <3>2. s \in Signin /\ Issued(s.token) /\ s.email \in Emails
      BY DEF Issued
    <3> QED
      BY <3>1, <3>2 DEF SubmitLogin
  <2>2. CASE LoginServed(t)
    <3>1. PICK accepted \in BOOLEAN :
            /\ accepted => AccountFound(t)
            /\ signin' = [signin EXCEPT ![t] =
                 [pc |-> "answered", email |-> signin[t].email, remember |-> signin[t].remember,
                  token |-> IF accepted THEN Signed(signin[t].email, signin[t].remember) ELSE Null]]
      BY <2>2 DEF LoginServed
    <3> DEFINE u == IF accepted THEN Signed(signin[t].email, signin[t].remember) ELSE Null
               s == [pc |-> "answered", email |-> signin[t].email, remember |-> signin[t].remember, token |-> u]
    <3>2. signin[t] \in Signin /\ signin[t].email \in Emails
      BY <2>2 DEF IInv, TypeOK, LoginServed, LoginsNameAnEmail
    <3>3. u \in Token \union {Null} /\ Issued(u)
      <4>1. CASE ~accepted
        BY <4>1 DEF Issued
      <4>2. CASE accepted
        <5> DEFINE e == signin[t].email
        <5>1. e \in Emails /\ version[e] \in Nat /\ version[e] # Null /\ now \in Nat
          BY <3>1, <3>2, <4>2 DEF AccountFound, IInv, TypeOK, AccountsTypeOK
        <5>2. now + Life(signin[t].remember) \in Nat
          BY <5>1, AccountsAssumption DEF Life
        <5>3. u = [email |-> e, version |-> version[e], exp |-> now + Life(signin[t].remember)]
          BY <4>2 DEF Signed
        <5> HIDE DEF u
        <5> QED
          BY <5>1, <5>2, <5>3 DEF Token, Issued
      <4> QED
        BY <4>1, <4>2
    <3> HIDE DEF u
    <3>4. s \in Signin
      BY <3>2, <3>3
    <3>5. signin' = [signin EXCEPT ![t] = s]
      BY <3>1 DEF u
    <3> QED
      BY <3>3, <3>4, <3>5
  <2> QED
    BY <2>1, <2>2
<1>2. /\ UNCHANGED <<accountVars, stored, writer, tabVars, call, outages>>
      /\ logins' \in 0..MaxLogins
  BY SessionAssumption DEF SubmitLogin, LoginServed, IInv, TypeOK
<1>3. TypeOK'
  BY <1>1, <1>2 DEF IInv, TypeOK, AccountsTypeOK, accountVars, tabVars
<1>4. TokensIssued' /\ LoginsNameAnEmail'
  BY <1>1, <1>2 DEF IInv, TypeOK, TokensIssued, Issued, LoginsNameAnEmail, accountVars
<1> QED
  BY <1>2, <1>3, <1>4 DEF IInv, accountVars, tabVars, OneAccountPerEmail, LastWriterShowsStored, TabsRight,
     TabRight, RefusalsFounded, Valid

\* A login is answered: the session starts with its own timer only.
LEMMA SessionStartsRight ==
  ASSUME IInv, NEW t \in Tabs, LoginAnswered(t) PROVE IInv'
<1> DEFINE u == signin[t].token
           next == Scheduled(u, timers[t])
<1>1. u \in Token \union {Null} /\ Issued(u) /\ now \in Nat
  BY DEF IInv, TypeOK, AccountsTypeOK, TokensIssued
<1>2. /\ next.timers \in SUBSET Timer /\ next.due \in BOOLEAN
      /\ u # Null => next.due \/ \E m \in next.timers : m.at <= u.exp - Lead
      /\ \A m \in next.timers : u # Null /\ (m.rearm \/ u.exp - Lead <= m.at)
  BY <1>1, ScheduledRight
<1>3. /\ signin' = [signin EXCEPT ![t] = NoSignin]
      /\ UNCHANGED <<accountVars, call, outages, logins>>
      /\ \/ UNCHANGED <<stored, writer, tabVars>>
         \/ /\ stored' = u /\ writer' = t /\ user' = [user EXCEPT ![t] = u]
            /\ notice' = [notice EXCEPT ![t] = FALSE] /\ timers' = [timers EXCEPT ![t] = next.timers]
            /\ warned' = [warned EXCEPT ![t] = next.due]
            /\ shown' = [shown EXCEPT ![t] = (shown[t] \ {"login"}) \union WarnIf(next.due)]
  BY DEF LoginAnswered, SessionStarts
<1> HIDE DEF u, next
<1>4. TypeOK'
  <2>1. NoSignin \in [pc : {"idle", "sent", "answered"}, email : Emails \union {Null},
                      remember : BOOLEAN, token : Token \union {Null}]
    BY DEF NoSignin
  <2>2. (shown[t] \ {"login"}) \union WarnIf(next.due) \in SUBSET Dialogs
    BY DEF WarnIf, Dialogs, IInv, TypeOK
  <2>3. CASE UNCHANGED <<stored, writer, tabVars>>
    BY <1>3, <2>1, <2>3 DEF IInv, TypeOK, AccountsTypeOK, accountVars, tabVars
  <2>4. CASE /\ stored' = u /\ writer' = t /\ user' = [user EXCEPT ![t] = u]
             /\ notice' = [notice EXCEPT ![t] = FALSE] /\ timers' = [timers EXCEPT ![t] = next.timers]
             /\ warned' = [warned EXCEPT ![t] = next.due]
             /\ shown' = [shown EXCEPT ![t] = (shown[t] \ {"login"}) \union WarnIf(next.due)]
    BY <1>1, <1>2, <1>3, <2>1, <2>2, <2>4 DEF IInv, TypeOK, AccountsTypeOK, accountVars
  <2> QED
    BY <1>3, <2>3, <2>4
<1>5. LastWriterShowsStored' /\ OneAccountPerEmail'
  BY <1>1, <1>3 DEF IInv, TypeOK, LastWriterShowsStored, OneAccountPerEmail, accountVars, tabVars
<1>6. TabsRight'
  BY <1>2, <1>3 DEF IInv, TypeOK, TabsRight, TabRight, tabVars
<1>7. TokensIssued' /\ RefusalsFounded' /\ LoginsNameAnEmail'
  BY <1>1, <1>3 DEF IInv, TypeOK, TokensIssued, Issued, RefusalsFounded, LoginsNameAnEmail, Valid,
     NoSignin, accountVars
<1> QED
  BY <1>4, <1>5, <1>6, <1>7 DEF IInv

Call == [pc : {"idle", "sent", "refused"}, token : Token \union {Null}]

\* A logout takes the timers and the stored token with it.
LEMMA LogoutRight ==
  ASSUME IInv, NEW t \in Tabs, LoggedOut(t), UNCHANGED <<accountVars, signin, outages, logins>>,
         shown' \in [Tabs -> SUBSET Dialogs], notice' \in [Tabs -> BOOLEAN],
         \A s \in Tabs : s # t => notice'[s] = notice[s],
         call' = call \/ call' = [call EXCEPT ![t] = Idle]
  PROVE  IInv'
<1>0. Idle \in Call /\ Idle.token = Null /\ Idle.pc = "idle"
  BY DEF Idle, Call
<1>1. TypeOK'
  <2>1. call' \in [Tabs -> Call]
    BY <1>0 DEF IInv, TypeOK, Call
  <2> QED
    BY <2>1 DEF IInv, TypeOK, AccountsTypeOK, accountVars, LoggedOut, ClearTimeout, Call
<1>2. LastWriterShowsStored' /\ OneAccountPerEmail' /\ TabsRight'
  BY DEF IInv, TypeOK, LastWriterShowsStored, OneAccountPerEmail, accountVars, TabsRight, TabRight,
     LoggedOut, ClearTimeout
<1>3. TokensIssued' /\ RefusalsFounded' /\ LoginsNameAnEmail'
  <2>1. \A s \in Tabs : call'[s] = call[s] \/ call'[s] = Idle
    BY DEF IInv, TypeOK
  <2>2. stored' = Null /\ UNCHANGED <<now, version, signin, outages>>
    BY DEF LoggedOut, accountVars
  <2> QED
    BY <1>0, <2>1, <2>2 DEF IInv, TokensIssued, Issued, RefusalsFounded, LoginsNameAnEmail, Valid
<1> QED
  BY <1>1, <1>2, <1>3 DEF IInv

\* Signing out keeps the invariant.
LEMMA SignOutRight ==
  ASSUME IInv, NEW t \in Tabs, SignOut(t) PROVE IInv'
BY LogoutRight DEF SignOut, IInv, TypeOK

\* A 401 (the interceptor) keeps the invariant.
LEMMA RefusalRight ==
  ASSUME IInv, NEW t \in Tabs, CallRefused(t) PROVE IInv'
<1>1. CASE UNCHANGED <<stored, writer, tabVars>>
  <2>1. call' = [call EXCEPT ![t] = Idle] /\ UNCHANGED <<accountVars, signin, outages, logins>>
    BY DEF CallRefused
  <2>2. Idle \in [pc : {"idle", "sent", "refused"}, token : Token \union {Null}]
    BY DEF Idle
  <2>3. TypeOK'
    BY <1>1, <2>1, <2>2 DEF IInv, TypeOK, AccountsTypeOK, accountVars, tabVars
  <2> QED
    BY <1>1, <2>1, <2>3 DEF IInv, TypeOK, accountVars, tabVars, OneAccountPerEmail, LastWriterShowsStored,
       TabsRight, TabRight, TokensIssued, Issued, RefusalsFounded, Valid, LoginsNameAnEmail, Idle
<1>2. CASE NotifySessionExpired(t)
  <2>1. shown' \in [Tabs -> SUBSET Dialogs] /\ notice' \in [Tabs -> BOOLEAN]
    BY <1>2 DEF NotifySessionExpired, IInv, TypeOK, Dialogs
  <2>2. \A s \in Tabs : s # t => notice'[s] = notice[s]
    BY <1>2 DEF NotifySessionExpired, IInv, TypeOK
  <2> QED
    BY <1>2, <2>1, <2>2, LogoutRight DEF NotifySessionExpired, CallRefused
<1> QED
  BY <1>1, <1>2 DEF CallRefused

\* A call is sent with the stored token, and refused for a reason.
LEMMA CallsRight ==
  ASSUME IInv, NEW t \in Tabs, SendCall(t) \/ CallServed(t) PROVE IInv'
<1>1. UNCHANGED <<accountVars, stored, writer, tabVars, signin, logins>>
  BY DEF SendCall, CallServed
<1>2. /\ outages' \in 0..MaxFaults /\ outages <= outages'
      /\ \E c \in Call :
           /\ call' = [call EXCEPT ![t] = c] /\ Issued(c.token)
           /\ c.pc = "refused" /\ c.token # Null => outages' > 0 \/ ~Valid(c.token)
  <2>1. CASE SendCall(t)
    <3> DEFINE c == [pc |-> "sent", token |-> stored]
    <3>1. c \in Call /\ Issued(c.token) /\ c.pc # "refused"
      BY DEF IInv, TypeOK, TokensIssued, Call
    <3>2. call' = [call EXCEPT ![t] = c] /\ outages' = outages
      BY <2>1 DEF SendCall
    <3>3. outages \in 0..MaxFaults /\ outages <= outages
      BY SessionAssumption DEF IInv, TypeOK
    <3> HIDE DEF c
    <3> QED
      BY <3>1, <3>2, <3>3
  <2>2. CASE CallServed(t)
    <3>1. PICK route \in Routes, reached \in BOOLEAN :
            /\ reached \/ FaultsLeft
            /\ outages' = IF reached THEN outages ELSE outages + 1
            /\ call' = [call EXCEPT ![t] =
                 IF IsUnauthorized(Status(route, call[t].token, reached))
                   THEN [call[t] EXCEPT !.pc = "refused"] ELSE Idle]
      BY <2>2 DEF CallServed
    <3>2. call[t] \in Call /\ Issued(call[t].token) /\ outages \in 0..MaxFaults /\ MaxFaults \in Nat
      BY SessionAssumption DEF IInv, TypeOK, TokensIssued, Call
    <3>3. outages' \in 0..MaxFaults /\ outages <= outages' /\ (~reached => outages' > 0)
      BY <3>1, <3>2 DEF FaultsLeft
    <3>4. CASE ~IsUnauthorized(Status(route, call[t].token, reached))
      <4>1. Idle \in Call /\ Issued(Idle.token) /\ Idle.pc # "refused"
        BY DEF Idle, Issued, Call
      <4>2. call' = [call EXCEPT ![t] = Idle]
        BY <3>1, <3>4
      <4> QED
        BY <3>3, <4>1, <4>2
    <3>5. CASE IsUnauthorized(Status(route, call[t].token, reached))
      <4>1. Validated(call[t].token, reached) = Null
        BY <3>5 DEF IsUnauthorized, Status, AuthGuard
      <4>2. call[t].token # Null => ~reached \/ ~Valid(call[t].token)
        <5> SUFFICES ASSUME call[t].token # Null, reached, Valid(call[t].token) PROVE FALSE
          OBVIOUS
        <5>1. call[t].token.email \in Emails /\ call[t].token.email = Null
          BY <3>2, <4>1 DEF Validated, Token, Call
        <5> QED
          BY <5>1, AccountsAssumption
      <4>3. /\ [call[t] EXCEPT !.pc = "refused"] \in Call
            /\ [call[t] EXCEPT !.pc = "refused"].token = call[t].token
        BY <3>2 DEF Call
      <4> QED
        BY <3>1, <3>2, <3>3, <3>5, <4>2, <4>3
    <3> QED
      BY <3>4, <3>5
  <2> QED
    BY <2>1, <2>2
<1>3. TypeOK'
  BY <1>1, <1>2 DEF IInv, TypeOK, AccountsTypeOK, accountVars, tabVars, Call
<1>4. TokensIssued'
  BY <1>1, <1>2 DEF IInv, TypeOK, TokensIssued, Issued, accountVars
<1>5. RefusalsFounded'
  BY <1>1, <1>2, SessionAssumption DEF IInv, TypeOK, RefusalsFounded, Valid, accountVars
<1> QED
  BY <1>1, <1>3, <1>4, <1>5 DEF IInv, accountVars, tabVars, OneAccountPerEmail, LastWriterShowsStored, TabsRight,
     TabRight, LoginsNameAnEmail

\* A timer fires: the next chunk is armed, or the warning is up.
LEMMA TimerRight ==
  ASSUME IInv, NEW t \in Tabs, TimerFires(t) PROVE IInv'
<1>1. PICK m \in timers[t] :
        LET rest == timers[t] \ {m}
            next == IF m.rearm THEN Scheduled(user[t], rest) ELSE [timers |-> rest, due |-> TRUE]
        IN  /\ m.at <= now
            /\ timers' = [timers EXCEPT ![t] = next.timers]
            /\ warned' = [warned EXCEPT ![t] = warned[t] \/ next.due]
            /\ shown' = [shown EXCEPT ![t] = shown[t] \union WarnIf(next.due)]
            /\ UNCHANGED <<accountVars, stored, writer, user, notice, signin, call, outages, logins>>
  BY DEF TimerFires
<1> DEFINE rest == timers[t] \ {m}
           next == IF m.rearm THEN Scheduled(user[t], rest) ELSE [timers |-> rest, due |-> TRUE]
<1>2. /\ user[t] \in Token \union {Null} /\ now \in Nat /\ rest \in SUBSET Timer
      /\ \A n \in timers[t] : user[t] # Null /\ (n.rearm \/ user[t].exp - Lead <= n.at)
  BY DEF IInv, TypeOK, AccountsTypeOK, TabsRight, TabRight
<1>3. /\ next.timers \in SUBSET Timer /\ next.due \in BOOLEAN
      /\ user[t] # Null => next.due \/ \E n \in next.timers : n.at <= user[t].exp - Lead
      /\ \A n \in next.timers : user[t] # Null /\ (n.rearm \/ user[t].exp - Lead <= n.at)
  <2>1. CASE m.rearm
    BY <1>2, <2>1, ScheduledRight
  <2>2. CASE ~m.rearm
    BY <1>2, <2>2
  <2> QED
    BY <2>1, <2>2
<1>4. /\ timers' = [timers EXCEPT ![t] = next.timers]
      /\ warned' = [warned EXCEPT ![t] = warned[t] \/ next.due]
      /\ shown' = [shown EXCEPT ![t] = shown[t] \union WarnIf(next.due)]
      /\ UNCHANGED <<accountVars, stored, writer, user, notice, signin, call, outages, logins>>
  BY <1>1
<1> HIDE DEF next
<1>5. TypeOK'
  <2>1. shown[t] \union WarnIf(next.due) \in SUBSET Dialogs
    BY DEF WarnIf, Dialogs, IInv, TypeOK
  <2> QED
    BY <1>3, <1>4, <2>1 DEF IInv, TypeOK, AccountsTypeOK, accountVars
<1>6. TabsRight'
  BY <1>3, <1>4 DEF IInv, TypeOK, TabsRight, TabRight
<1> QED
  BY <1>4, <1>5, <1>6 DEF IInv, accountVars, OneAccountPerEmail, LastWriterShowsStored, TokensIssued,
     Issued, RefusalsFounded, Valid, LoginsNameAnEmail

\* Every step keeps the invariant.
LEMMA NextRight ==
  ASSUME IInv, [Next]_vars PROVE IInv'
<1>1. CASE ServerStep
  <2>1. CASE \E c \in Clients : FindByEmail(c) \/ SaveUser(c)
    BY <1>1, <2>1, SignupsRight, SaveUserRight DEF ServerStep, Tabs
  <2>2. CASE \E e \in Emails : FaultsLeft /\ Revoke(e)
    BY <1>1, <2>2, TokensAge DEF ServerStep
  <2> QED
    BY <1>1, <2>1, <2>2 DEF ServerStep
<1>2. CASE ClockTicks
  BY <1>2, TokensAge
<1>3. CASE \E t \in Tabs : DialogStep(t)
  BY <1>3, DialogsRight
<1>4. ASSUME NEW t \in Tabs, TabStep(t) PROVE IInv'
  BY <1>4, LoadRight, SignupsRight, LoginsRight, SessionStartsRight, SignOutRight, CallsRight, RefusalRight,
     TimerRight DEF TabStep
<1>5. CASE UNCHANGED vars
  BY <1>5 DEF vars, accountVars, tabVars, IInv, TypeOK, AccountsTypeOK, OneAccountPerEmail,
     LastWriterShowsStored, TabsRight, TabRight, TokensIssued, Issued, RefusalsFounded, Valid, LoginsNameAnEmail
<1> QED
  BY <1>1, <1>2, <1>3, <1>4, <1>5 DEF Next

\* So it holds throughout.
LEMMA Invariance == Spec => []IInv
<1>1. Init => IInv
  BY InitRight
<1>2. IInv /\ [Next]_vars => IInv'
  BY NextRight
<1> QED
  BY <1>1, <1>2, PTL DEF Spec

-----------------------------------------------------------------------------
(* The theorems                                                             *)

\* Every variable of the accounts, the guards and the tabs keeps its type.
THEOREM SessionTypesCorrect == Spec => []TypeOK
<1>1. IInv => TypeOK
  BY DEF IInv
<1> QED
  BY <1>1, Invariance, PTL

\* However many registrations of an email overlap, at most one succeeds, and one
\* has if there is an account (createUser and the unique index).
THEOREM AccountsAreUnique == Spec => []OneAccountPerEmail
<1>1. IInv => OneAccountPerEmail
  BY DEF IInv
<1> QED
  BY <1>1, Invariance, PTL

\* A tab that shows a session has warned of its end or will in time
\* (scheduleExpiryWarning, in chunks or not).
THEOREM WarningAlwaysArmed == Spec => []WarningIsArmed
<1>1. IInv => WarningIsArmed
  BY DEF IInv, TabsRight, TabRight, WarningIsArmed
<1> QED
  BY <1>1, Invariance, PTL

\* The tab that wrote the token last shows its user, for any number of tabs.
THEOREM LastWriterCorrect == Spec => []LastWriterShowsStored
<1>1. IInv => LastWriterShowsStored
  BY DEF IInv
<1> QED
  BY <1>1, Invariance, PTL

-----------------------------------------------------------------------------
(* What a step may never do                                                 *)

InTime(t) == user'[t] # Null /\ user'[t].exp - now' <= Lead

\* Only loading, signing in and a timer bring the warning up, each in time.
LEMMA WarningSteps ==
  ASSUME IInv, Next, NEW t \in Tabs, "warning" \in shown'[t] \ shown[t]
  PROVE  InTime(t)
<1>0. /\ shown \in [Tabs -> SUBSET Dialogs] /\ user \in [Tabs -> Token \union {Null}] /\ now \in Nat
      /\ shown' # shown
  BY DEF IInv, TypeOK, AccountsTypeOK
<1>1. ASSUME NEW x \in Tabs, DialogStep(x) PROVE InTime(t)
  BY <1>0, <1>1 DEF DialogStep, OpenLogin, CloseLogin, SwitchToRegister, OpenRegister, CloseRegister,
     SwitchToLogin, DismissWarning, ExtendSession, OpenDialog, Shows
<1>2. ASSUME NEW x \in Tabs, Load(x) PROVE InTime(t)
  <2> DEFINE next == Scheduled(Readable, {})
  <2>1. next.due => Readable # Null /\ Readable.exp - now <= Lead
    BY <1>0, ReadableTyped, ScheduledRight DEF IInv
  <2>2. shown' = [shown EXCEPT ![x] = WarnIf(next.due)] /\ user' = [user EXCEPT ![x] = Readable] /\ now' = now
    BY <1>2 DEF Load, accountVars
  <2> HIDE DEF next
  <2>3. t = x /\ next.due
    BY <1>0, <2>2 DEF WarnIf
  <2> QED
    BY <1>0, <2>1, <2>2, <2>3 DEF InTime
<1>3. ASSUME NEW x \in Tabs, LoginAnswered(x) PROVE InTime(t)
  <2> DEFINE u == signin[x].token
             next == Scheduled(u, timers[x])
  <2>1. u \in Token \union {Null}
    BY DEF IInv, TypeOK
  <2>2. next.due => u # Null /\ u.exp - now <= Lead
    BY <1>0, <2>1, ScheduledRight
  <2>3. /\ shown' = [shown EXCEPT ![x] = (shown[x] \ {"login"}) \union WarnIf(next.due)]
        /\ user' = [user EXCEPT ![x] = u] /\ now' = now
    BY <1>0, <1>3 DEF LoginAnswered, SessionStarts, accountVars, tabVars
  <2> HIDE DEF next, u
  <2>4. t = x /\ next.due
    BY <1>0, <2>3 DEF WarnIf
  <2> QED
    BY <1>0, <2>2, <2>3, <2>4 DEF InTime
<1>4. ASSUME NEW x \in Tabs, TimerFires(x) PROVE InTime(t)
  <2>1. PICK m \in timers[x] :
          LET rest == timers[x] \ {m}
              next == IF m.rearm THEN Scheduled(user[x], rest) ELSE [timers |-> rest, due |-> TRUE]
          IN  /\ m.at <= now
              /\ shown' = [shown EXCEPT ![x] = shown[x] \union WarnIf(next.due)]
              /\ user' = user /\ now' = now
    BY <1>4 DEF TimerFires, accountVars
  <2> DEFINE rest == timers[x] \ {m}
             due == IF m.rearm THEN Scheduled(user[x], rest).due ELSE TRUE
  <2>2. /\ user[x] \in Token \union {Null} /\ user[x] # Null /\ m.at \in Nat
        /\ m.rearm \/ user[x].exp - Lead <= m.at
    BY DEF IInv, TypeOK, TabsRight, TabRight, Timer
  <2>3. due => user[x].exp - now <= Lead
    <3>1. CASE m.rearm
      BY <1>0, <2>2, <3>1, ScheduledRight
    <3>2. CASE ~m.rearm
      <4>1. user[x].exp \in Nat
        BY <2>2 DEF Token
      <4> QED
        BY <1>0, <2>1, <2>2, <3>2, <4>1, SessionAssumption
    <3> QED
      BY <3>1, <3>2
  <2>4. shown' = [shown EXCEPT ![x] = shown[x] \union WarnIf(due)] /\ user' = user /\ now' = now
    BY <2>1
  <2> HIDE DEF due
  <2>5. t = x /\ due
    BY <1>0, <2>4 DEF WarnIf
  <2> QED
    BY <2>2, <2>3, <2>4, <2>5 DEF InTime
<1>5. ASSUME NEW x \in Tabs, CallRefused(x) PROVE InTime(t)
  BY <1>0, <1>5 DEF CallRefused, NotifySessionExpired, tabVars
<1> QED
  BY <1>0, <1>1, <1>2, <1>3, <1>4, <1>5 DEF Next, TabStep, ServerStep, ClockTicks, SubmitSignup, SignupAnswered,
     SubmitLogin, LoginServed, SignOut, SendCall, CallServed, tabVars

\* No warning comes up early: a timer of an earlier session never fires in a
\* later one.
THEOREM WarningsNeverEarly == Spec => WarningsComeInTime
<1>1. IInv /\ [Next]_vars =>
        [\A t \in Tabs : "warning" \in shown'[t] \ shown[t] =>
           user'[t] # Null /\ user'[t].exp - now' <= Lead]_vars
  BY WarningSteps DEF InTime
<1> QED
  BY <1>1, Invariance, PTL DEF Spec, WarningsComeInTime

\* Only a refused call puts the notice up where there was a session.
LEMMA NoticeSteps ==
  ASSUME IInv, Next, NEW t \in Tabs, user[t] # Null, notice'[t]
  PROVE  outages' > 0 \/ ~Valid(call[t].token)
<1>0. notice \in [Tabs -> BOOLEAN] /\ ~notice[t] /\ notice' # notice
  BY DEF IInv, TypeOK, TabsRight, TabRight
<1>1. ASSUME NEW x \in Tabs, CallRefused(x) PROVE outages' > 0 \/ ~Valid(call[t].token)
  <2>1. NotifySessionExpired(x) /\ call[x].pc = "refused" /\ call[x].token # Null /\ outages' = outages
    BY <1>0, <1>1 DEF CallRefused, tabVars
  <2>2. x = t
    BY <1>0, <2>1 DEF NotifySessionExpired
  <2> QED
    BY <2>1, <2>2 DEF IInv, RefusalsFounded
<1>2. ASSUME NEW x \in Tabs, DialogStep(x) PROVE FALSE
  BY <1>0, <1>2 DEF DialogStep, OpenLogin, CloseLogin, SwitchToRegister, OpenRegister, CloseRegister,
     SwitchToLogin, DismissWarning, ExtendSession, OpenDialog, Shows
<1>3. ASSUME NEW x \in Tabs, Load(x) \/ LoginAnswered(x) PROVE FALSE
  BY <1>0, <1>3 DEF Load, LoginAnswered, SessionStarts, tabVars
<1> QED
  BY <1>0, <1>1, <1>2, <1>3 DEF Next, TabStep, ServerStep, ClockTicks, SubmitSignup, SignupAnswered,
     SubmitLogin, LoginServed, SignOut, SendCall, CallServed, TimerFires, tabVars

\* A session ends on a 401 only if its call carried a token that had expired or
\* was revoked, or euro-auth was out of reach.
THEOREM SessionsEndFounded == Spec => SessionsEndForAReason
<1>1. IInv /\ [Next]_vars =>
        [\A t \in Tabs : user[t] # Null /\ notice'[t] =>
           outages' > 0 \/ ~Valid(call[t].token)]_vars
  BY NoticeSteps
<1> QED
  BY <1>1, Invariance, PTL DEF Spec, SessionsEndForAReason
=============================================================================
