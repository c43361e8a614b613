---------------------------- MODULE AuthSessions ----------------------------
(***************************************************************************)
(* Collaborator sessions (auth_sessions.py) and the routes and middleware  *)
(* that use them (auth.py).  Credentials belong to the deployment and may  *)
(* change at any time, also back to what they were; every call reads them  *)
(* anew.  A token is the number of the login that made it.                 *)
(***************************************************************************)
EXTENDS LoginThrottle

CONSTANTS
  Users,            \* usernames
  Fingerprints,     \* credential fingerprints
  NoAccount,        \* the fingerprint of a removed account
  IdleSeconds,      \* IDLE_SECONDS
  AbsoluteSeconds,  \* ABSOLUTE_SECONDS
  MaxUserSessions,  \* MAX_USER_SESSIONS
  MaxLogins,        \* bound: logins
  MaxNow,           \* bound: the clock
  MaxChanges        \* bound: changes of credentials

ASSUME AuthAssumption ==
  /\ NoAccount \notin Fingerprints
  /\ {IdleSeconds, AbsoluteSeconds, MaxUserSessions, MaxNow} \subseteq Nat \ {0}
  /\ {MaxLogins, MaxChanges} \subseteq Nat

Tokens == 1..MaxLogins

VARIABLES
  credential,  \* the fingerprint of each account
  row,         \* the table auth_sessions, by token
  born,        \* history: when a token was issued, 0 before
  refused,     \* history: the tokens that were answered "not authenticated"
  changes      \* how many changes of credentials there were

sessionVars == <<credential, row, born, refused, changes>>
authVars == <<now, throttleVars, sessionVars>>

NoRow == [state |-> "none"]

AuthInit ==
  /\ ThrottleInit /\ now = 1
  /\ credential \in [Users -> Fingerprints]
  /\ row = [t \in Tokens |-> NoRow] /\ born = [t \in Tokens |-> 0]
  /\ refused = {} /\ changes = 0

-----------------------------------------------------------------------------
Exists(t)  == row[t].state # "none"
OutOfDate(t) == credential[row[t].user] # row[t].fingerprint
TooOld(t)  == now >= row[t].created + AbsoluteSeconds
TooIdle(t) == now >= row[t].active + IdleSeconds

\* Mutant of Valid: only the idle time is compared.
ValidWhileRenewed(t) == row[t].state = "open" /\ ~OutOfDate(t) /\ ~TooIdle(t)

\* _reason is None
Valid(t) == row[t].state = "open" /\ ~OutOfDate(t) /\ ~TooOld(t) /\ ~TooIdle(t)

\* Mutant of Noticed: a session with old credentials is left as it is.
NotNoticed(t) == row

\* inspect and activity revoke a row whose credentials have changed.
Noticed(t) ==
  IF row[t].state = "open" /\ OutOfDate(t)
  THEN [row EXCEPT ![t].state = "revoked"] ELSE row

Answer(t) == refused' = IF Valid(t) THEN refused ELSE refused \cup {t}

\* Every request of the middleware, and every event of the stream.
Inspect(t) ==
  /\ born[t] > 0
  /\ row' = Noticed(t) /\ Answer(t)
  /\ UNCHANGED <<now, throttleVars, credential, born, changes>>

\* Mutant of Activity: a renewal is a new session.
RenewsEverything(t) ==
  /\ born[t] > 0
  /\ row' = IF Valid(t) THEN [row EXCEPT ![t].active = now, ![t].created = now]
            ELSE Noticed(t)
  /\ Answer(t)
  /\ UNCHANGED <<now, throttleVars, credential, born, changes>>

\* Only this route extends the idle time.
Activity(t) ==
  /\ born[t] > 0
  /\ row' = IF Valid(t) THEN [row EXCEPT ![t].active = now] ELSE Noticed(t)
  /\ Answer(t)
  /\ UNCHANGED <<now, throttleVars, credential, born, changes>>

Logout(t) ==
  /\ born[t] > 0
  /\ row' = IF row[t].state = "open" THEN [row EXCEPT ![t].state = "revoked"] ELSE row
  /\ refused' = refused \cup {t}
  /\ UNCHANGED <<now, throttleVars, credential, born, changes>>

-----------------------------------------------------------------------------
(* Login *)

\* _cleanup
Kept(t) == row[t].state = "open" /\ ~TooOld(t) /\ ~TooIdle(t)

\* When the process starts.
Cleanup ==
  /\ row' = [t \in Tokens |-> IF Kept(t) THEN row[t] ELSE NoRow]
  /\ UNCHANGED <<now, throttleVars, credential, born, refused, changes>>

\* Mutant of Room: the new session is not counted.
RoomForAll == MaxUserSessions

Room == MaxUserSessions - 1

Newest(S, T) == \A t \in S, u \in T \ S : row[t].created >= row[u].created

\* The browser's previous session ends, those with old credentials end, and
\* the newest of the others stay (equally old ones are ordered by their hashes).
Issue(u, previous) ==
  LET token   == Cardinality({t \in Tokens : born[t] > 0}) + 1
      current == {t \in Tokens : Kept(t) /\ t # previous /\ row[t].user = u /\ ~OutOfDate(t)}
  IN  /\ token \in Tokens
      /\ \E S \in SUBSET current :
           /\ Newest(S, current)
           /\ Cardinality(S) = (IF Cardinality(current) < Room THEN Cardinality(current)
                                ELSE Room)
           /\ row' = [t \in Tokens |->
                IF t = token
                THEN [state |-> "open", user |-> u, fingerprint |-> credential[u],
                      created |-> now, active |-> now]
                ELSE IF ~Kept(t) THEN NoRow
                ELSE IF t = previous \/ (row[t].user = u /\ t \notin S)
                THEN [row[t] EXCEPT !.state = "revoked"] ELSE row[t]]
      /\ born' = [born EXCEPT ![token] = now]

\* POST /api/auth/login: throttled, with a wrong password, or issued.
Login(a, u, right) ==
  /\ \E admitted \in BOOLEAN :
       /\ Allow(a, admitted)
       /\ IF admitted /\ right /\ credential[u] # NoAccount
          THEN \E previous \in {0} \cup {t \in Tokens : Exists(t)} : Issue(u, previous)
          ELSE UNCHANGED <<row, born>>
  /\ UNCHANGED <<now, credential, refused, changes>>

-----------------------------------------------------------------------------
Tick ==
  /\ now < MaxNow /\ now' = now + 1
  /\ UNCHANGED <<throttleVars, sessionVars>>

ChangeCredentials(u) ==
  /\ changes < MaxChanges /\ changes' = changes + 1
  /\ credential' \in {[credential EXCEPT ![u] = f] : f \in Fingerprints \cup {NoAccount}}
  /\ UNCHANGED <<now, throttleVars, row, born, refused>>

AuthNext ==
  \/ \E t \in Tokens : Inspect(t) \/ Activity(t) \/ Logout(t)
  \/ \E a \in Addresses, u \in Users, right \in BOOLEAN : Login(a, u, right)
  \/ Tick \/ Cleanup
  \/ \E u \in Users : ChangeCredentials(u)

AuthSpec == AuthInit /\ [][AuthNext]_authVars

-----------------------------------------------------------------------------
(* Properties *)

Row == [state : {"open", "revoked"}, user : Users, fingerprint : Fingerprints,
        created : 1..MaxNow, active : 1..MaxNow]

(* The rows have the types of the table, and belong to the token's login. *)
AuthTypeOK ==
  /\ now \in 1..MaxNow /\ changes \in 0..MaxChanges
  /\ credential \in [Users -> Fingerprints \cup {NoAccount}]
  /\ row \in [Tokens -> {NoRow} \cup Row] /\ born \in [Tokens -> 0..MaxNow]
  /\ refused \subseteq Tokens
  /\ \A t \in Tokens : Exists(t) => /\ row[t].created = born[t] /\ born[t] > 0
                                    /\ row[t].active \in born[t]..now

(* A token is accepted for less than the absolute time after its login and  *)
(* with the credentials of now, whatever was renewed (SessionStore).        *)
EndsInTime ==
  \A t \in Tokens : Valid(t) => /\ now < born[t] + AbsoluteSeconds
                                /\ credential[row[t].user] # NoAccount

(* What was refused once is refused for ever: no renewal, no clock and no   *)
(* credentials that return to what they were bring a token back             *)
(* (inspect, activity, logout).                                             *)
RefusedForGood == \A t \in refused : ~Valid(t)

(* At most MAX_USER_SESSIONS tokens of a user are accepted.                 *)
FewSessions ==
  \A u \in Users :
    Cardinality({t \in Tokens : row[t].state = "open" /\ row[t].user = u})
      <= MaxUserSessions
=============================================================================
