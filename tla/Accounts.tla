------------------------------ MODULE Accounts ------------------------------
(***************************************************************************)
(* euro-auth and the guards euro-platform-api puts in front of its own     *)
(* handlers: the table `users`, the tokens signed from it, and how a       *)
(* request that carries one is let through.                                *)
(***************************************************************************)
EXTENDS Integers

CONSTANTS
  Emails,       \* the email addresses accounts are registered under
  Admins,       \* those whose row has role ADMIN
  Clients,      \* whoever registers: the browser tabs
  Null,
  ShortLife, LongLife,    \* JWT_EXPIRES_IN and REMEMBER_ME_EXPIRES_IN
  MaxTime,      \* the last instant of the clock
  MaxVersion    \* the highest token version a row may reach

ASSUME AccountsAssumption ==
  /\ Admins \subseteq Emails
  /\ Null \notin Emails \union Nat
  /\ ShortLife \in Nat \ {0} /\ LongLife \in Nat \ {0}
  /\ MaxTime \in Nat /\ MaxVersion \in Nat

VARIABLES
  now,        \* the clock
  version,    \* users: the token_version of each email, Null without a row
  signup,     \* the registration each client has under way
  welcomed    \* how many registrations of each email were answered 201 (history)

accountVars == <<now, version, signup, welcomed>>

-----------------------------------------------------------------------------
Token == [email : Emails, version : Nat, exp : Nat]

Life(remember) == IF remember THEN LongLife ELSE ShortLife

\* AuthService.login: the payload names the row's current token version.
Signed(e, remember) == [email |-> e, version |-> version[e], exp |-> now + Life(remember)]

\* AuthService.validateToken: verified, its row found, and not revoked since.
Valid(token) == token.exp > now /\ version[token.email] = token.version

Routes == {"public", "member", "admin"}

\* The client of /auth/validate turns any failure, euro-auth being out of reach
\* included, into "no user".
Validated(token, reached) ==
  IF token # Null /\ reached /\ Valid(token) THEN token.email ELSE Null

\* AuthGuard: a public route is open to whoever is not recognised.
AuthGuard(route, who) == route = "public" \/ who # Null

\* RolesGuard: only some routes ask for a role, that of the row, not the token.
RolesGuard(route, who) == route = "admin" => who \in Admins

Status(route, token, reached) ==
  LET who == Validated(token, reached) IN
  IF ~AuthGuard(route, who) THEN 401 ELSE IF ~RolesGuard(route, who) THEN 403 ELSE 200

-----------------------------------------------------------------------------
NoSignup == [pc |-> "idle", email |-> Null, status |-> 0]

AccountsTypeOK ==
  /\ now \in 0..MaxTime
  /\ version \in [Emails -> Nat \union {Null}]
  /\ signup \in [Clients -> [pc : {"idle", "sent", "checked", "answered"},
                             email : Emails \union {Null}, status : {0, 201, 409, 500}]]
  /\ welcomed \in [Emails -> Nat]

AccountsInit ==
  /\ now = 0
  /\ version = [e \in Emails |-> Null]
  /\ signup = [c \in Clients |-> NoSignup]
  /\ welcomed = [e \in Emails |-> 0]

\* createUser answers the registration of client c.
Answered(c, status) ==
  signup' = [signup EXCEPT ![c] = [pc |-> "answered", email |-> signup[c].email, status |-> status]]

\* createUser: the email is looked up ...
FindByEmail(c) ==
  /\ signup[c].pc = "sent"
  /\ \/ version[signup[c].email] # Null /\ Answered(c, 409)
     \/ version[signup[c].email] = Null /\ signup' = [signup EXCEPT ![c] = [@ EXCEPT !.pc = "checked"]]
  /\ UNCHANGED <<now, version, welcomed>>

\* users without the unique index.
NoUniqueEmail(e) == TRUE

\* The unique index on users.email.
UniqueEmail(e) == version[e] = Null

\* ... and the row inserted after the password was hashed, whoever registered
\* in the meantime.
SaveUser(c) ==
  LET e == signup[c].email IN
  /\ signup[c].pc = "checked"
  /\ \/ /\ UniqueEmail(e)
        /\ version' = [version EXCEPT ![e] = 0]
        /\ welcomed' = [welcomed EXCEPT ![e] = @ + 1]
        /\ Answered(c, 201)
     \/ /\ ~UniqueEmail(e)
        /\ Answered(c, 500)
        /\ UNCHANGED <<version, welcomed>>
  /\ UNCHANGED now

\* Nothing in the code raises a token version: an operator does, in the table.
Revoke(e) ==
  /\ version[e] # Null
  /\ version[e] < MaxVersion
  /\ version' = [version EXCEPT ![e] = @ + 1]
  /\ UNCHANGED <<now, signup, welcomed>>
=============================================================================
