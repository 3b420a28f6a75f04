------------------------------- MODULE Session -------------------------------
(***************************************************************************)
(* The session of euro-platform-front: AuthService with its dialogs, its   *)
(* expiry timer and the HTTP interceptor, in each of the browser's tabs.   *)
(* The tabs share localStorage; their signals are their own.               *)
(***************************************************************************)
EXTENDS Accounts

CONSTANTS
  Lead,          \* EXPIRY_WARNING_LEAD_MS
  MaxTimeout,    \* MAX_TIMEOUT_MS
  MaxFaults,     \* failed calls to euro-auth, and revocations, a behaviour may contain
  MaxLogins      \* logins that may succeed

ASSUME SessionAssumption ==
  Lead \in Nat /\ MaxTimeout \in Nat \ {0} /\ MaxFaults \in Nat /\ MaxLogins \in Nat

VARIABLES
  stored,     \* localStorage: the token, or Null
  writer,     \* the tab that last wrote it (history)
  user,       \* userSignal: the token whose payload the tab shows
  shown,      \* the visible dialogs: "login", "register", "warning"
  notice,     \* sessionExpiredNotice
  timers,     \* what setTimeout has pending
  warned,     \* whether the tab's session has been warned of its end (history)
  signin,     \* the login the dialog has submitted
  call,       \* the API call the tab has under way
  outages,    \* failed calls of euro-auth so far
  logins      \* tokens issued so far

tabVars == <<user, shown, notice, timers, warned>>
vars == <<accountVars, stored, writer, tabVars, signin, call, outages, logins>>

Tabs == Clients

Idle == [pc |-> "idle", token |-> Null]
NoSignin == [pc |-> "idle", email |-> Null, remember |-> FALSE, token |-> Null]

Dialogs == {"login", "register", "warning"}
Timer == [at : Nat, rearm : BOOLEAN]

TypeOK ==
  /\ AccountsTypeOK
  /\ stored \in Token \union {Null}
  /\ writer \in Tabs \union {Null}
  /\ user \in [Tabs -> Token \union {Null}]
  /\ shown \in [Tabs -> SUBSET Dialogs]
  /\ notice \in [Tabs -> BOOLEAN]
  /\ timers \in [Tabs -> SUBSET Timer]
  /\ warned \in [Tabs -> BOOLEAN]
  /\ signin \in [Tabs -> [pc : {"idle", "sent", "answered"}, email : Emails \union {Null},
                          remember : BOOLEAN, token : Token \union {Null}]]
  /\ call \in [Tabs -> [pc : {"idle", "sent", "refused"}, token : Token \union {Null}]]
  /\ outages \in 0..MaxFaults /\ logins \in 0..MaxLogins

-----------------------------------------------------------------------------
\* readUserFromStorage: an expired token is cleared.
Readable == IF stored # Null /\ stored.exp > now THEN stored ELSE Null

\* A timer forgotten when the next one is armed.
KeepTimeout(pending) == pending

\* clearTimeout(this.expiryTimer): the handle is that of the only timer.
ClearTimeout(pending) == {}

\* scheduleExpiryWarning for the token u, in a tab with `pending` timers: the
\* warning is due at once, or the timer is armed, in chunks when the delay
\* would overflow setTimeout.
Due(u) == u # Null /\ u.exp - now <= Lead

\* The timer set for the expiry itself.
ArmedAtExpiry(u) == [at |-> u.exp, rearm |-> FALSE]

Armed(u) ==
  LET delay == u.exp - now - Lead IN
  IF delay > MaxTimeout THEN [at |-> now + MaxTimeout, rearm |-> TRUE]
                        ELSE [at |-> now + delay, rearm |-> FALSE]

Scheduled(u, pending) ==
  [timers |-> ClearTimeout(pending) \union (IF u = Null \/ Due(u) THEN {} ELSE {Armed(u)}),
   due |-> Due(u)]

WarnIf(due) == IF due THEN {"warning"} ELSE {}

\* The page of tab t is loaded afresh: the answers to what was
\* in flight are lost, a registration goes on at the server.
Load(t) ==
  LET u == Readable
      next == Scheduled(u, {})
  IN
  /\ stored' = u
  /\ writer' = IF u = stored THEN writer ELSE t
  /\ user' = [user EXCEPT ![t] = u]
  /\ timers' = [timers EXCEPT ![t] = next.timers]
  /\ warned' = [warned EXCEPT ![t] = next.due]
  /\ shown' = [shown EXCEPT ![t] = WarnIf(next.due)]
  /\ notice' = [notice EXCEPT ![t] = FALSE]
  /\ signin' = [signin EXCEPT ![t] = NoSignin]
  /\ call' = [call EXCEPT ![t] = Idle]
  /\ UNCHANGED <<accountVars, outages, logins>>

Init ==
  /\ AccountsInit
  /\ stored = Null
  /\ writer = Null
  /\ user = [t \in Tabs |-> Null]
  /\ shown = [t \in Tabs |-> {}]
  /\ notice = [t \in Tabs |-> FALSE]
  /\ timers = [t \in Tabs |-> {}]
  /\ warned = [t \in Tabs |-> FALSE]
  /\ signin = [t \in Tabs |-> NoSignin]
  /\ call = [t \in Tabs |-> Idle]
  /\ outages = 0 /\ logins = 0

-----------------------------------------------------------------------------
(* Dialogs                                                                  *)

Shows(t, dialogs) ==
  /\ shown' = [shown EXCEPT ![t] = dialogs]
  /\ UNCHANGED <<accountVars, stored, writer, user, timers, warned, signin, call, outages, logins>>

\* A bound: registrations, which do not depend on sessions, come before them.
RegistrationOpen == now = 0 /\ logins = 0

\* The navbar behind a modal dialog cannot be clicked, and offers to sign in
\* only when nobody is logged in.
OpenDialog(t, dialog) ==
  /\ shown[t] = {} /\ user[t] = Null
  /\ Shows(t, {dialog})
  /\ UNCHANGED notice

OpenLogin(t) == OpenDialog(t, "login")
OpenRegister(t) == RegistrationOpen /\ OpenDialog(t, "register")

CloseLogin(t) ==
  /\ "login" \in shown[t]
  /\ Shows(t, shown[t] \ {"login"})
  /\ notice' = [notice EXCEPT ![t] = FALSE]

SwitchToRegister(t) ==
  /\ RegistrationOpen
  /\ "login" \in shown[t]
  /\ Shows(t, (shown[t] \ {"login"}) \union {"register"})
  /\ notice' = [notice EXCEPT ![t] = FALSE]

CloseRegister(t) ==
  /\ "register" \in shown[t]
  /\ Shows(t, shown[t] \ {"register"})
  /\ UNCHANGED notice

SwitchToLogin(t) ==
  /\ "register" \in shown[t]
  /\ Shows(t, (shown[t] \ {"register"}) \union {"login"})
  /\ UNCHANGED notice

DismissWarning(t) ==
  /\ "warning" \in shown[t]
  /\ Shows(t, shown[t] \ {"warning"})
  /\ UNCHANGED notice

ExtendSession(t) ==
  /\ "warning" \in shown[t]
  /\ Shows(t, (shown[t] \ {"warning"}) \union {"login"})
  /\ UNCHANGED notice

-----------------------------------------------------------------------------
(* Registering and signing in                                               *)

\* A bound: over all tabs, one login and one call at a time, and no
\* registration while a login is served.
NoneUnderWay(asked) == \A s \in Tabs : asked[s].pc = "idle"

SubmitSignup(t, e) ==
  /\ "register" \in shown[t]
  /\ RegistrationOpen
  /\ signup[t].pc = "idle"
  /\ signup' = [signup EXCEPT ![t] = [pc |-> "sent", email |-> e, status |-> 0]]
  /\ UNCHANGED <<now, version, welcomed, stored, writer, tabVars, signin, call, outages, logins>>

SignupAnswered(t) ==
  /\ signup[t].pc = "answered"
  /\ signup' = [signup EXCEPT ![t] = NoSignup]
  /\ UNCHANGED <<now, version, welcomed, stored, writer, tabVars, signin, call, outages, logins>>

SubmitLogin(t, e, remember) ==
  /\ "login" \in shown[t]
  /\ NoneUnderWay(signin)
  /\ signin' = [signin EXCEPT ![t] = [pc |-> "sent", email |-> e,
                                      remember |-> remember, token |-> Null]]
  /\ UNCHANGED <<accountVars, stored, writer, tabVars, call, outages, logins>>

\* if (!user || !user.checkPassword(dto.password)).
AccountFound(t) == version[signin[t].email] # Null

\* AuthService.login: a token, or a refusal if the password is wrong, nobody
\* has that email or the service is out of reach.
LoginServed(t) ==
  /\ signin[t].pc = "sent"
  /\ NoneUnderWay(signup)
  /\ \E accepted \in BOOLEAN :
       /\ accepted => AccountFound(t) /\ logins < MaxLogins
       /\ logins' = IF accepted THEN logins + 1 ELSE logins
       /\ signin' = [signin EXCEPT ![t] =
            [pc |-> "answered", email |-> signin[t].email, remember |-> signin[t].remember,
             token |-> IF accepted THEN Signed(signin[t].email, signin[t].remember) ELSE Null]]
  /\ UNCHANGED <<accountVars, stored, writer, tabVars, call, outages>>

\* AuthService.login after its await: the session of u starts in tab t, and its
\* login dialog closes.
SessionStarts(t, u) ==
  LET next == Scheduled(u, timers[t]) IN
  /\ stored' = u
  /\ writer' = t
  /\ user' = [user EXCEPT ![t] = u]
  /\ notice' = [notice EXCEPT ![t] = FALSE]
  /\ timers' = [timers EXCEPT ![t] = next.timers]
  /\ warned' = [warned EXCEPT ![t] = next.due]
  /\ shown' = [shown EXCEPT ![t] = (@ \ {"login"}) \union WarnIf(next.due)]

\* The dialog's submit after its await; a failed login leaves it open.
LoginAnswered(t) ==
  /\ signin[t].pc = "answered"
  /\ signin' = [signin EXCEPT ![t] = NoSignin]
  /\ \/ signin[t].token = Null /\ UNCHANGED <<stored, writer, tabVars>>
     \/ signin[t].token # Null /\ SessionStarts(t, signin[t].token)
  /\ UNCHANGED <<accountVars, call, outages, logins>>

-----------------------------------------------------------------------------
(* The end of a session                                                     *)

\* A logout that only forgets who the tab shows.
LoggedOutInTab(t) ==
  /\ UNCHANGED stored
  /\ writer' = t
  /\ user' = [user EXCEPT ![t] = Null]
  /\ timers' = [timers EXCEPT ![t] = ClearTimeout(@)]
  /\ warned' = [warned EXCEPT ![t] = FALSE]

LoggedOut(t) ==
  /\ stored' = Null
  /\ writer' = t
  /\ user' = [user EXCEPT ![t] = Null]
  /\ timers' = [timers EXCEPT ![t] = ClearTimeout(@)]
  /\ warned' = [warned EXCEPT ![t] = FALSE]

\* The navbar's sign-out, offered to whoever is logged in.
SignOut(t) ==
  /\ user[t] # Null /\ shown[t] = {}
  /\ LoggedOut(t)
  /\ UNCHANGED <<accountVars, shown, notice, signin, call, outages, logins>>

\* The interceptor captures the token when the call is sent.
SendCall(t) ==
  /\ NoneUnderWay(call)
  /\ call' = [call EXCEPT ![t] = [pc |-> "sent", token |-> stored]]
  /\ UNCHANGED <<accountVars, stored, writer, tabVars, signin, outages, logins>>

\* Any refusal taken for an expired session.
IsRefusal(status) == status \in {401, 403}

IsUnauthorized(status) == status = 401

FaultsLeft == outages < MaxFaults /\ \A e \in Emails : version[e] \in {Null, 0}

\* The guards decide on the call; an answer other than 401 concerns only the
\* page that asked.
CallServed(t) ==
  /\ call[t].pc = "sent"
  /\ \E route \in Routes, reached \in BOOLEAN :
       /\ reached \/ FaultsLeft
       /\ outages' = IF reached THEN outages ELSE outages + 1
       /\ call' = [call EXCEPT ![t] =
                     IF IsUnauthorized(Status(route, @.token, reached))
                       THEN [@ EXCEPT !.pc = "refused"] ELSE Idle]
  /\ UNCHANGED <<accountVars, stored, writer, tabVars, signin, logins>>

NotifySessionExpired(t) ==
  /\ LoggedOut(t)
  /\ notice' = [notice EXCEPT ![t] = TRUE]
  /\ shown' = [shown EXCEPT ![t] = @ \union {"login"}]

\* A 401 reaches the interceptor, which ends the session if the call carried a
\* token.
CallRefused(t) ==
  /\ call[t].pc = "refused"
  /\ call' = [call EXCEPT ![t] = Idle]
  /\ \/ call[t].token = Null /\ UNCHANGED <<stored, writer, tabVars>>
     \/ call[t].token # Null /\ NotifySessionExpired(t)
  /\ UNCHANGED <<accountVars, signin, outages, logins>>

-----------------------------------------------------------------------------
(* Time                                                                     *)

\* A due timer fires, perhaps late: it arms the next chunk or shows the warning.
TimerFires(t) ==
  \E m \in timers[t] :
    LET rest == timers[t] \ {m}
        next == IF m.rearm THEN Scheduled(user[t], rest) ELSE [timers |-> rest, due |-> TRUE]
    IN
    /\ m.at <= now
    /\ timers' = [timers EXCEPT ![t] = next.timers]
    /\ warned' = [warned EXCEPT ![t] = @ \/ next.due]
    /\ shown' = [shown EXCEPT ![t] = @ \union WarnIf(next.due)]
    /\ UNCHANGED <<accountVars, stored, writer, user, notice, signin, call, outages, logins>>

ClockTicks ==
  /\ now < MaxTime
  /\ now' = now + 1
  /\ UNCHANGED <<version, signup, welcomed, stored, writer, tabVars, signin, call, outages, logins>>

-----------------------------------------------------------------------------
DialogStep(t) ==
  \/ OpenLogin(t) \/ CloseLogin(t) \/ SwitchToRegister(t)
  \/ OpenRegister(t) \/ CloseRegister(t) \/ SwitchToLogin(t)
  \/ DismissWarning(t) \/ ExtendSession(t)

ServerStep ==
  /\ \/ \E c \in Clients : FindByEmail(c) \/ SaveUser(c)
     \/ \E e \in Emails : FaultsLeft /\ Revoke(e)
  /\ UNCHANGED <<stored, writer, tabVars, signin, call, outages, logins>>

TabStep(t) ==
  \/ Load(t)
  \/ \E e \in Emails : SubmitSignup(t, e)
  \/ SignupAnswered(t)
  \/ \E e \in Emails, remember \in BOOLEAN : SubmitLogin(t, e, remember)
  \/ LoginServed(t) \/ LoginAnswered(t)
  \/ SignOut(t)
  \/ SendCall(t) \/ CallServed(t) \/ CallRefused(t)
  \/ TimerFires(t)

Next == ServerStep \/ ClockTicks \/ \E t \in Tabs : DialogStep(t) \/ TabStep(t)

Spec == Init /\ [][Next]_vars

-----------------------------------------------------------------------------
(* Safety                                                                   *)

\* However many registrations of an email overlap, at most one is told it
\* succeeded, and one is if its account is there: createUser looks the email up and
\* inserts the row in two steps.
OneAccountPerEmail ==
  \A e \in Emails : welcomed[e] = IF version[e] = Null THEN 0 ELSE 1

\* A tab that shows a session has warned of its end or has a timer that will,
\* early enough, whatever logins, logouts and chunks of the delay came before.
WarningIsArmed ==
  \A t \in Tabs : user[t] # Null =>
    \/ warned[t]
    \/ \E m \in timers[t] : m.at <= user[t].exp - Lead

\* The tab that last wrote the token to localStorage shows the user of that
\* token, though other tabs log in and out, and reload, at the same time.
LastWriterShowsStored ==
  \A t \in Tabs : writer = t => user[t] = stored

-----------------------------------------------------------------------------
(* What a step may never do                                                 *)

\* The expiry warning comes up only within Lead of the end of the session the
\* tab shows: no timer of an earlier session is left to fire in a later one.
WarningsComeInTime ==
  [][\A t \in Tabs : "warning" \in shown'[t] \ shown[t] =>
       user'[t] # Null /\ user'[t].exp - now' <= Lead]_vars

\* Unless euro-auth was out of reach, a session only ends on a 401 if the call
\* it answers carried a token that has expired or was revoked.
SessionsEndForAReason ==
  [][\A t \in Tabs : user[t] # Null /\ notice'[t] =>
       outages' > 0 \/ ~Valid(call[t].token)]_vars

=============================================================================
