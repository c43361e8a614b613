----------------------------- MODULE AuthProofs -----------------------------
(***************************************************************************)
(* Collaborator sessions, for all times, limits and numbers of logins: a   *)
(* session ends at its absolute age, a token that was refused once is      *)
(* refused for ever, a user has a bounded number of sessions, and an       *)
(* address a bounded number of attempts.                                   *)
(***************************************************************************)
EXTENDS AuthSessions, FiniteSetTheorems, WellFoundedInduction, TLAPS

USE AuthAssumption DEF Tokens

(* Tokens are issued in order, so that the next one is new. *)
IssuedInOrder ==
  \E n \in 0..MaxLogins : \A t \in Tokens : born[t] > 0 <=> t <= n

(* A refused token was issued, and is refused for a reason that stays: its   *)
(* row is closed or gone, or a time is over that is not renewed any more.    *)
RefusedStay ==
  \A t \in refused : born[t] > 0 /\ (row[t].state # "open" \/ TooOld(t) \/ TooIdle(t))

(* The inductive invariant of the sessions' contents. *)
AuthInv == AuthTypeOK /\ IssuedInOrder /\ RefusedStay

(* The open sessions of a user. *)
OpenOf(u) == {t \in Tokens : row[t].state = "open" /\ row[t].user = u}

(* Every row is absent or has the types of the table. *)
LEMMA RowsTyped ==
  ASSUME AuthTypeOK, NEW t \in Tokens
  PROVE  /\ row[t] = NoRow \/ row[t] \in Row
         /\ row[t].state = "open" => row[t] \in Row
         /\ Exists(t) <=> row[t] \in Row
         /\ now \in 1..MaxNow /\ born[t] \in 0..MaxNow
  BY SMTT(20) DEF AuthTypeOK, NoRow, Row, Exists

(* What inspect and activity leave in the table. *)
LEMMA NoticedTyped ==
  ASSUME AuthTypeOK, NEW t \in Tokens
  PROVE  /\ Noticed(t) \in [Tokens -> {NoRow} \cup Row]
         /\ \A u \in Tokens \ {t} : Noticed(t)[u] = row[u]
         /\ \/ Noticed(t)[t] = row[t]
            \/ row[t] \in Row /\ Noticed(t)[t] = [row[t] EXCEPT !.state = "revoked"]
         /\ row[t].state = "open" /\ OutOfDate(t) => Noticed(t)[t].state = "revoked"
  <1>1. row \in [Tokens -> {NoRow} \cup Row]
    BY DEF AuthTypeOK
  <1>2. CASE row[t].state = "open" /\ OutOfDate(t)
    <2>1. row[t] \in Row
      BY <1>2, RowsTyped
    <2>2. [row[t] EXCEPT !.state = "revoked"] \in Row
          /\ [row[t] EXCEPT !.state = "revoked"].state = "revoked"
      BY <2>1 DEF Row
    <2>3. Noticed(t) = [row EXCEPT ![t] = [row[t] EXCEPT !.state = "revoked"]]
      BY <1>2 DEF Noticed
    <2> HIDE DEF Tokens
    <2> QED BY <1>1, <2>1, <2>2, <2>3
  <1>3. CASE ~(row[t].state = "open" /\ OutOfDate(t))
    <2>1. Noticed(t) = row
      BY <1>3 DEF Noticed
    <2>2. Noticed(t)[t] = row[t] /\ \A u \in Tokens \ {t} : Noticed(t)[u] = row[u]
      BY <2>1
    <2>3. ~(row[t].state = "open" /\ OutOfDate(t))
      BY <1>3
    <2> QED BY <1>1, <2>1, <2>2, <2>3, Zenon
  <1> QED BY <1>2, <1>3

(* A step that closes or renews a row of an issued token, and answers.       *)
LEMMA RowStepKeeps ==
  ASSUME AuthInv, NEW t \in Tokens, born[t] > 0,
         row' \in [Tokens -> {NoRow} \cup Row],
         \A u \in Tokens \ {t} : row'[u] = row[u],
         \/ row'[t] = row[t]
         \/ row[t] \in Row /\ row'[t] = [row[t] EXCEPT !.state = "revoked"]
         \/ Valid(t) /\ row[t] \in Row /\ row'[t] = [row[t] EXCEPT !.active = now],
         \/ refused' = refused
         \/ refused' = refused \cup {t}
            /\ (row'[t].state # "open" \/ ((TooOld(t) \/ TooIdle(t)) /\ row'[t] = row[t])),
         UNCHANGED <<now, credential, born, changes>>
  PROVE  AuthInv'
  <1> USE DEF AuthInv
  <1>1. AuthTypeOK'
    <2>1. refused' \subseteq Tokens
      BY DEF AuthTypeOK
    <2>2. ASSUME NEW u \in Tokens, row'[u].state # "none"
          PROVE  /\ row'[u].created = born[u] /\ born[u] > 0
                 /\ row'[u].active \in born[u]..now
      <3>1. CASE row'[u] = row[u]
        BY <2>2, <3>1 DEF AuthTypeOK, Exists
      <3>2. CASE u = t /\ row[t] \in Row
        <4>1. /\ row[t].created = born[t] /\ row[t].active \in born[t]..now
              /\ now \in 1..MaxNow /\ born[t] \in 0..MaxNow
          BY <3>2, RowsTyped DEF AuthTypeOK
        <4>2. row'[t].created = row[t].created
              /\ (row'[t].active = row[t].active \/ row'[t].active = now)
          BY <3>2 DEF Row
        <4> QED BY <3>2, <4>1, <4>2
      <3> QED BY <3>1, <3>2
    <2> QED BY <2>1, <2>2 DEF AuthTypeOK, Exists
  <1>2. IssuedInOrder'
    BY DEF IssuedInOrder
  <1>3. RefusedStay'
    <2> SUFFICES ASSUME NEW u \in refused'
                 PROVE  /\ born[u] > 0
                        /\ \/ row'[u].state # "open"
                           \/ now >= row'[u].created + AbsoluteSeconds
                           \/ now >= row'[u].active + IdleSeconds
      BY DEF RefusedStay, TooOld, TooIdle
    <2>1. u \in Tokens
      BY DEF AuthTypeOK
    <2>2. CASE u \in refused /\ row'[u] = row[u]
      BY <2>2 DEF RefusedStay, TooOld, TooIdle
    <2>3. CASE u \in refused /\ row'[u] # row[u]
      <3>2. CASE u = t /\ row[t] \in Row /\ row'[t] = [row[t] EXCEPT !.state = "revoked"]
        <4>1. row'[t].state = "revoked"
          BY <3>2 DEF Row
        <4> QED BY <3>2, <4>1
      <3>3. CASE u = t /\ Valid(t)
        BY <2>3, <3>3 DEF RefusedStay, Valid
      <3> QED BY <2>1, <2>3, <3>2, <3>3
    <2>4. CASE u \notin refused
      BY <2>4 DEF TooOld, TooIdle
    <2> QED BY <2>2, <2>3, <2>4
  <1> QED BY <1>1, <1>2, <1>3

-----------------------------------------------------------------------------
(* The routes *)

(* What a request answers: a valid token is not refused, another one stays   *)
(* refused.                                                                  *)
LEMMA InspectKeeps ==
  ASSUME AuthInv, NEW t \in Tokens, Inspect(t)
  PROVE  AuthInv'
  <1>0. AuthTypeOK
    BY DEF AuthInv
  <1>1. /\ Noticed(t) \in [Tokens -> {NoRow} \cup Row]
        /\ \A u \in Tokens \ {t} : Noticed(t)[u] = row[u]
        /\ \/ Noticed(t)[t] = row[t]
           \/ row[t] \in Row /\ Noticed(t)[t] = [row[t] EXCEPT !.state = "revoked"]
        /\ row[t].state = "open" /\ OutOfDate(t) => Noticed(t)[t].state = "revoked"
    BY <1>0, NoticedTyped
  <1>2. row' = Noticed(t) /\ born[t] > 0 /\ UNCHANGED <<now, credential, born, changes>>
        /\ refused' = IF Valid(t) THEN refused ELSE refused \cup {t}
    BY DEF Inspect, Answer
  <1>3. \/ Valid(t)
        \/ row[t].state # "open"
        \/ row[t].state = "open" /\ OutOfDate(t)
        \/ (TooOld(t) \/ TooIdle(t)) /\ ~OutOfDate(t) /\ row[t].state = "open"
    BY DEF Valid
  <1>4. CASE Valid(t)
    BY <1>1, <1>2, <1>4, RowStepKeeps
  <1>5. CASE ~Valid(t)
    <2>1. refused' = refused \cup {t}
      BY <1>2, <1>5
    <2>2. CASE row[t].state # "open" \/ ~OutOfDate(t)
      <3>1. Noticed(t) = row
        BY <2>2 DEF Noticed
      <3> QED BY <1>1, <1>2, <1>3, <1>5, <2>1, <2>2, <3>1, RowStepKeeps
    <2>3. CASE row[t].state = "open" /\ OutOfDate(t)
      <3>1. row'[t].state = "revoked"
        BY <1>1, <1>2, <2>3 DEF OutOfDate
      <3>2. row'[t].state # "open"
        BY <3>1
      <3>3. \/ row'[t] = row[t]
            \/ row[t] \in Row /\ row'[t] = [row[t] EXCEPT !.state = "revoked"]
        BY <1>1, <1>2, Zenon
      <3>4. refused' = refused \cup {t}
            /\ (row'[t].state # "open" \/ ((TooOld(t) \/ TooIdle(t)) /\ row'[t] = row[t]))
        BY <2>1, <3>2, Zenon
      <3> QED BY <1>1, <1>2, <3>3, <3>4, RowStepKeeps
    <2> QED BY <2>2, <2>3
  <1> QED BY <1>4, <1>5

(* Only a valid session is renewed. *)
LEMMA ActivityKeeps ==
  ASSUME AuthInv, NEW t \in Tokens, Activity(t)
  PROVE  AuthInv'
  <1>1. CASE ~Valid(t)
    BY <1>1, InspectKeeps DEF Activity, Inspect
  <1>2. CASE Valid(t)
    <2>1. row' = [row EXCEPT ![t] = [row[t] EXCEPT !.active = now]] /\ born[t] > 0
          /\ refused' = refused /\ UNCHANGED <<now, credential, born, changes>>
      BY <1>2 DEF Activity, Answer
    <2>2. row \in [Tokens -> {NoRow} \cup Row] /\ row[t] \in Row /\ now \in 1..MaxNow
      BY <1>2, RowsTyped DEF AuthInv, AuthTypeOK, Valid
    <2>3. [row[t] EXCEPT !.active = now] \in Row
      BY <2>2 DEF Row
    <2>4. row' \in [Tokens -> {NoRow} \cup Row] /\ row'[t] = [row[t] EXCEPT !.active = now]
          /\ \A u \in Tokens \ {t} : row'[u] = row[u]
      BY <2>1, <2>2, <2>3
    <2> QED BY <1>2, <2>1, <2>2, <2>4, RowStepKeeps
  <1> QED BY <1>1, <1>2

(* A logout closes the row, whatever its state. *)
LEMMA LogoutKeeps ==
  ASSUME AuthInv, NEW t \in Tokens, Logout(t)
  PROVE  AuthInv'
  <1>0. row \in [Tokens -> {NoRow} \cup Row] /\ born[t] > 0
        /\ refused' = refused \cup {t} /\ UNCHANGED <<now, credential, born, changes>>
    BY DEF Logout, AuthInv, AuthTypeOK
  <1>1. CASE row[t].state = "open"
    <2>1. row[t] \in Row
      BY <1>1, RowsTyped DEF AuthInv
    <2>2. [row[t] EXCEPT !.state = "revoked"] \in Row
          /\ [row[t] EXCEPT !.state = "revoked"].state # "open"
      BY <2>1 DEF Row
    <2>3. row' = [row EXCEPT ![t] = [row[t] EXCEPT !.state = "revoked"]]
      BY <1>1 DEF Logout
    <2>4. row' \in [Tokens -> {NoRow} \cup Row]
          /\ row'[t] = [row[t] EXCEPT !.state = "revoked"]
          /\ \A u \in Tokens \ {t} : row'[u] = row[u]
      BY <1>0, <2>2, <2>3
    <2>5. row'[t].state # "open"
      BY <2>2, <2>4
    <2>6. refused' = refused \cup {t}
          /\ (row'[t].state # "open" \/ ((TooOld(t) \/ TooIdle(t)) /\ row'[t] = row[t]))
      BY <1>0, <2>5, Zenon
    <2> QED BY <1>0, <2>1, <2>4, <2>6, RowStepKeeps
  <1>2. CASE row[t].state # "open"
    <2>1. row' = row
      BY <1>2 DEF Logout
    <2> QED BY <1>0, <1>2, <2>1, RowStepKeeps
  <1> QED BY <1>1, <1>2

(* The clock makes sessions older, never younger. *)
LEMMA TickKeeps ==
  ASSUME AuthInv, Tick
  PROVE  AuthInv'
  <1>1. now' = now + 1 /\ now < MaxNow /\ UNCHANGED <<credential, row, born, refused, changes>>
    BY DEF Tick, sessionVars
  <1>2. now \in 1..MaxNow /\ now' \in 1..MaxNow
    BY <1>1 DEF AuthInv, AuthTypeOK
  <1>3. ASSUME NEW t \in Tokens, Exists(t)
        PROVE  /\ row[t].created = born[t] /\ born[t] > 0 /\ row[t].active \in born[t]..now'
               /\ row[t].created \in Nat /\ row[t].active \in Nat
    <2>1. /\ row[t].created = born[t] /\ born[t] > 0 /\ row[t].active \in born[t]..now
          /\ born[t] \in 0..MaxNow
      BY <1>3, RowsTyped DEF AuthInv, AuthTypeOK
    <2> QED BY <1>1, <1>2, <2>1
  <1>4. AuthTypeOK'
    BY <1>1, <1>2, <1>3 DEF AuthInv, AuthTypeOK, Exists
  <1>5. IssuedInOrder'
    BY <1>1 DEF AuthInv, IssuedInOrder
  <1>6. RefusedStay'
    <2> SUFFICES ASSUME NEW t \in refused
                 PROVE  /\ born[t] > 0
                        /\ \/ row[t].state # "open"
                           \/ now' >= row[t].created + AbsoluteSeconds
                           \/ now' >= row[t].active + IdleSeconds
      BY <1>1 DEF RefusedStay, TooOld, TooIdle
    <2>1. t \in Tokens
      BY DEF AuthInv, AuthTypeOK
    <2>2. born[t] > 0 /\ (row[t].state # "open" \/ TooOld(t) \/ TooIdle(t))
      BY DEF AuthInv, RefusedStay
    <2>3. row[t].state = "open" => Exists(t)
      BY DEF Exists
    <2> QED BY <1>1, <1>2, <1>3, <2>1, <2>2, <2>3 DEF TooOld, TooIdle
  <1> QED BY <1>4, <1>5, <1>6 DEF AuthInv

(* A cleanup removes rows that are not accepted any more. *)
LEMMA CleanupKeeps ==
  ASSUME AuthInv, Cleanup
  PROVE  AuthInv' /\ \A t \in Tokens : row'[t].state = "open" => row'[t] = row[t]
  <1>1. row' = [t \in Tokens |-> IF Kept(t) THEN row[t] ELSE NoRow]
        /\ UNCHANGED <<now, credential, born, refused, changes>>
    BY DEF Cleanup
  <1>2. row \in [Tokens -> {NoRow} \cup Row] /\ refused \subseteq Tokens
    BY DEF AuthInv, AuthTypeOK
  <1>3. \A t \in Tokens : row'[t] = NoRow \/ row'[t] = row[t]
    BY <1>1
  <1>4. row' \in [Tokens -> {NoRow} \cup Row]
    BY <1>1, <1>2
  <1>5. NoRow.state = "none"
    BY DEF NoRow
  <1>6. AuthTypeOK'
    BY <1>1, <1>3, <1>4, <1>5 DEF AuthInv, AuthTypeOK, Exists
  <1>7. IssuedInOrder'
    BY <1>1 DEF AuthInv, IssuedInOrder
  <1>8. RefusedStay'
    BY <1>1, <1>2, <1>3, <1>5 DEF AuthInv, RefusedStay, TooOld, TooIdle
  <1> QED BY <1>3, <1>5, <1>6, <1>7, <1>8 DEF AuthInv

(* A change of credentials touches no row. *)
LEMMA ChangeKeeps ==
  ASSUME AuthInv, NEW u \in Users, ChangeCredentials(u)
  PROVE  AuthInv'
  <1>1. changes < MaxChanges /\ changes' = changes + 1
        /\ UNCHANGED <<now, row, born, refused>>
    BY DEF ChangeCredentials
  <1>2. credential' \in [Users -> Fingerprints \cup {NoAccount}]
    BY DEF ChangeCredentials, AuthInv, AuthTypeOK
  <1>3. AuthTypeOK'
    BY <1>1, <1>2 DEF AuthInv, AuthTypeOK, Exists
  <1> QED BY <1>1, <1>3 DEF AuthInv, IssuedInOrder, RefusedStay, TooOld, TooIdle

-----------------------------------------------------------------------------
(* Login *)

(* The number of the next token is the number of the tokens plus one.        *)
LEMMA NextToken ==
  ASSUME AuthInv
  PROVE  \E n \in 0..MaxLogins :
           /\ \A t \in Tokens : born[t] > 0 <=> t <= n
           /\ Cardinality({t \in Tokens : born[t] > 0}) + 1 = n + 1
  <1>1. PICK n \in 0..MaxLogins : \A t \in Tokens : born[t] > 0 <=> t <= n
    BY DEF AuthInv, IssuedInOrder
  <1>2. {t \in Tokens : born[t] > 0} = 1..n
    BY <1>1
  <1>3. Cardinality(1..n) = n
    <2>1. 1 \in Int /\ n \in Int /\ n \in Nat
      OBVIOUS
    <2>2. Cardinality(1..n) = IF 1 > n THEN 0 ELSE n - 1 + 1
      BY ONLY <2>1, FS_Interval
    <2> QED BY <2>1, <2>2
  <1> QED BY <1>1, <1>2, <1>3

(* A new row under a new token; every other row stays, ends or is removed.   *)
LEMMA IssueKeeps ==
  ASSUME AuthInv, NEW u \in Users, NEW previous, Issue(u, previous),
         credential[u] # NoAccount, UNCHANGED <<now, credential, refused, changes>>
  PROVE  AuthInv'
  <1> DEFINE token == Cardinality({t \in Tokens : born[t] > 0}) + 1
             new == [state |-> "open", user |-> u, fingerprint |-> credential[u],
                     created |-> now, active |-> now]
             Closed(t) == [row[t] EXCEPT !.state = "revoked"]
  <1>1. PICK n \in 0..MaxLogins : token = n + 1 /\ \A t \in Tokens : born[t] > 0 <=> t <= n
    BY NextToken
  <1>2. PICK S : row' = [t \in Tokens |->
                   IF t = token THEN new
                   ELSE IF ~Kept(t) THEN NoRow
                   ELSE IF t = previous \/ (row[t].user = u /\ t \notin S)
                   THEN Closed(t) ELSE row[t]]
    BY DEF Issue
  <1>3. token \in Tokens /\ born' = [born EXCEPT ![token] = now]
    BY DEF Issue
  <1>4. /\ now \in 1..MaxNow /\ credential \in [Users -> Fingerprints \cup {NoAccount}]
        /\ row \in [Tokens -> {NoRow} \cup Row] /\ born \in [Tokens -> 0..MaxNow]
        /\ refused \subseteq Tokens /\ changes \in 0..MaxChanges
    BY DEF AuthInv, AuthTypeOK
  <1>5. new \in Row /\ new.state = "open" /\ new.created = now /\ new.active = now
    BY <1>4 DEF Row
  <1> HIDE DEF token, new
  <1>6. ASSUME NEW t \in Tokens, t # token
        PROVE  /\ \/ row'[t] = NoRow
                  \/ row'[t] = row[t]
                  \/ row[t] \in Row /\ row'[t] = Closed(t)
               /\ born'[t] = born[t]
    <2>1. Kept(t) => row[t] \in Row
      BY RowsTyped DEF Kept, AuthInv
    <2>2. born'[t] = born[t]
      BY <1>3, <1>4, <1>6
    <2>3. row'[t] = IF ~Kept(t) THEN NoRow
                    ELSE IF t = previous \/ (row[t].user = u /\ t \notin S)
                    THEN Closed(t) ELSE row[t]
      BY <1>2, <1>6
    <2>4. CASE ~Kept(t)
      BY <2>2, <2>3, <2>4, Zenon
    <2>5. CASE Kept(t) /\ (t = previous \/ (row[t].user = u /\ t \notin S))
      BY <2>1, <2>2, <2>3, <2>5, Zenon
    <2>6. CASE Kept(t) /\ ~(t = previous \/ (row[t].user = u /\ t \notin S))
      BY <2>2, <2>3, <2>6, Zenon
    <2> HIDE DEF Closed
    <2> QED BY <2>4, <2>5, <2>6, Zenon
  <1>7. row'[token] = new /\ born'[token] = now
    BY <1>2, <1>3, <1>4
  <1>8. \A t \in Tokens : row[t] \in Row =>
          /\ Closed(t) \in Row /\ Closed(t).state = "revoked"
          /\ Closed(t).created = row[t].created /\ Closed(t).active = row[t].active
    BY DEF Row
  <1> HIDE DEF Closed
  <1>9. row' \in [Tokens -> {NoRow} \cup Row]
    <2>1. \A t \in Tokens : row'[t] \in {NoRow} \cup Row
      <3> SUFFICES ASSUME NEW t \in Tokens PROVE row'[t] \in {NoRow} \cup Row
        OBVIOUS
      <3>1. CASE t = token
        BY <1>5, <1>7, <3>1
      <3>2. CASE t # token
        BY <1>4, <1>6, <1>8, <3>2
      <3> QED BY <3>1, <3>2
    <2>2. row' = [t \in Tokens |-> row'[t]]
      BY <1>2
    <2> QED BY <2>1, <2>2
  <1>10. born' \in [Tokens -> 0..MaxNow]
    BY <1>3, <1>4
  <1>11. ASSUME NEW t \in Tokens, row'[t].state # "none"
         PROVE  /\ row'[t].created = born'[t] /\ born'[t] > 0
                /\ row'[t].active \in born'[t]..now
    <2>1. CASE t = token
      BY <1>4, <1>5, <1>7, <2>1
    <2>2. CASE t # token /\ row'[t] = row[t]
      BY <1>6, <1>11, <2>2 DEF AuthInv, AuthTypeOK, Exists
    <2>3. CASE t # token /\ row[t] \in Row /\ row'[t] = Closed(t)
      <3>1. /\ row[t].created = born[t] /\ born[t] > 0
            /\ row[t].active \in born[t]..now
        BY <2>3, RowsTyped DEF AuthInv, AuthTypeOK
      <3> QED BY <1>6, <1>8, <2>3, <3>1
    <2>4. row'[t] # NoRow
      BY <1>11 DEF NoRow
    <2> QED BY <1>6, <2>1, <2>2, <2>3, <2>4
  <1>12. AuthTypeOK'
    BY <1>4, <1>9, <1>10, <1>11 DEF AuthTypeOK, Exists
  <1>13. IssuedInOrder'
    <2>1. n + 1 \in 0..MaxLogins
      BY <1>1, <1>3
    <2>2. ASSUME NEW t \in Tokens PROVE born'[t] > 0 <=> t <= n + 1
      <3>1. CASE t = token
        BY <1>1, <1>4, <1>7, <3>1
      <3>2. CASE t # token
        BY <1>1, <1>6, <3>2
      <3> QED BY <3>1, <3>2
    <2> QED BY <2>1, <2>2 DEF IssuedInOrder
  <1>14. RefusedStay'
    <2> SUFFICES ASSUME NEW t \in refused
                 PROVE  /\ born'[t] > 0
                        /\ \/ row'[t].state # "open"
                           \/ now >= row'[t].created + AbsoluteSeconds
                           \/ now >= row'[t].active + IdleSeconds
      BY DEF RefusedStay, TooOld, TooIdle
    <2>1. t \in Tokens /\ born[t] > 0 /\ (row[t].state # "open" \/ TooOld(t) \/ TooIdle(t))
      BY <1>4 DEF AuthInv, RefusedStay
    <2>2. t # token
      BY <1>1, <2>1
    <2>3. CASE row'[t] = NoRow
      BY <1>6, <2>1, <2>2, <2>3 DEF NoRow
    <2>4. CASE row'[t] = row[t]
      BY <1>6, <2>1, <2>2, <2>4 DEF TooOld, TooIdle
    <2>5. CASE row[t] \in Row /\ row'[t] = Closed(t)
      BY <1>6, <1>8, <2>1, <2>2, <2>5
    <2> QED BY <1>6, <2>1, <2>2, <2>3, <2>4, <2>5
  <1> QED BY <1>12, <1>13, <1>14 DEF AuthInv

(* A login that is refused changes no row. *)
LEMMA LoginKeeps ==
  ASSUME AuthInv, NEW a \in Addresses, NEW u \in Users, NEW right \in BOOLEAN,
         Login(a, u, right)
  PROVE  AuthInv'
  <1>1. UNCHANGED <<now, credential, refused, changes>>
    BY DEF Login
  <1>2. \/ UNCHANGED <<row, born>>
        \/ credential[u] # NoAccount /\ \E previous : Issue(u, previous)
    BY DEF Login
  <1>3. CASE UNCHANGED <<row, born>>
    BY <1>1, <1>3 DEF AuthInv, AuthTypeOK, IssuedInOrder, RefusedStay, Exists, TooOld, TooIdle
  <1> QED BY <1>1, <1>2, <1>3, IssueKeeps

-----------------------------------------------------------------------------
(* The number of sessions *)

(* Where nothing opens, no user has more sessions than before.               *)
LEMMA NothingOpens ==
  ASSUME FewSessions,
         \A t \in Tokens : row'[t].state = "open" =>
           row[t].state = "open" /\ row'[t].user = row[t].user
  PROVE  FewSessions'
  <1> SUFFICES ASSUME NEW u \in Users PROVE Cardinality(OpenOf(u)') <= MaxUserSessions
    BY DEF FewSessions, OpenOf
  <1>1. OpenOf(u)' \in SUBSET OpenOf(u)
    BY DEF OpenOf
  <1>2. IsFiniteSet(OpenOf(u))
    <2>1. IsFiniteSet(Tokens)
      <3>1. 1 \in Int /\ MaxLogins \in Int
        OBVIOUS
      <3> QED BY <3>1, FS_Interval
    <2>2. OpenOf(u) \in SUBSET Tokens
      BY DEF OpenOf
    <2> QED BY <2>1, <2>2, FS_Subset
  <1>3. Cardinality(OpenOf(u)) <= MaxUserSessions
    BY DEF FewSessions, OpenOf
  <1>4. /\ Cardinality(OpenOf(u)') <= Cardinality(OpenOf(u))
        /\ IsFiniteSet(OpenOf(u)')
    BY <1>1, <1>2, FS_Subset
  <1>5. Cardinality(OpenOf(u)') \in Nat /\ Cardinality(OpenOf(u)) \in Nat
    BY <1>2, <1>4, FS_CardinalityType
  <1> QED BY <1>3, <1>4, <1>5

(* A request closes or renews one row. *)
LEMMA RequestsOpenNothing ==
  ASSUME AuthInv, FewSessions, NEW t \in Tokens, Inspect(t) \/ Activity(t) \/ Logout(t)
  PROVE  FewSessions'
  <1> DEFINE rows == [Tokens -> {NoRow} \cup Row]
  <1>0. row \in rows
    BY DEF AuthInv, AuthTypeOK
  <1>1. \/ row' = row
        \/ row[t].state = "open" /\ row' = [row EXCEPT ![t] = [row[t] EXCEPT !.state = "revoked"]]
        \/ row[t].state = "open" /\ row' = [row EXCEPT ![t] = [row[t] EXCEPT !.active = now]]
    BY DEF Inspect, Activity, Logout, Noticed, Valid
  <1>2. CASE row' = row
    BY <1>2, NothingOpens
  <1>3. CASE row[t].state = "open" /\ row' = [row EXCEPT ![t] = [row[t] EXCEPT !.state = "revoked"]]
    <2>1. row[t] \in Row
      BY <1>3, RowsTyped DEF AuthInv
    <2>2. row'[t].state = "revoked" /\ \A u \in Tokens \ {t} : row'[u] = row[u]
      BY <1>0, <1>3, <2>1 DEF Row
    <2> QED BY <2>2, NothingOpens
  <1>4. CASE row[t].state = "open" /\ row' = [row EXCEPT ![t] = [row[t] EXCEPT !.active = now]]
    <2>1. row[t] \in Row
      BY <1>4, RowsTyped DEF AuthInv
    <2>2. row'[t].user = row[t].user /\ \A u \in Tokens \ {t} : row'[u] = row[u]
      BY <1>0, <1>4, <2>1 DEF Row
    <2> QED BY <1>4, <2>2, NothingOpens
  <1> QED BY <1>1, <1>2, <1>3, <1>4

(* A login leaves room for the session it makes. *)
LEMMA LoginLeavesRoom ==
  ASSUME AuthInv, FewSessions, NEW u \in Users, NEW previous, Issue(u, previous)
  PROVE  FewSessions'
  <1> DEFINE token == Cardinality({t \in Tokens : born[t] > 0}) + 1
             new == [state |-> "open", user |-> u, fingerprint |-> credential[u],
                     created |-> now, active |-> now]
             Closed(t) == [row[t] EXCEPT !.state = "revoked"]
             current == {t \in Tokens : /\ Kept(t) /\ t # previous
                                         /\ row[t].user = u /\ ~OutOfDate(t)}
  <1>1. PICK S \in SUBSET current :
          /\ Cardinality(S) = (IF Cardinality(current) < Room THEN Cardinality(current)
                               ELSE Room)
          /\ row' = [t \in Tokens |->
                IF t = token THEN new
                ELSE IF ~Kept(t) THEN NoRow
                ELSE IF t = previous \/ (row[t].user = u /\ t \notin S)
                THEN Closed(t) ELSE row[t]]
    BY DEF Issue
  <1>2. new.state = "open" /\ new.user = u
    OBVIOUS
  <1>3. \A t \in Tokens : Kept(t) => row[t] \in Row /\ Closed(t).state = "revoked"
    BY RowsTyped DEF Kept, AuthInv, Row
  <1>4. NoRow.state # "open"
    BY DEF NoRow
  <1> HIDE DEF token, new, Closed, current
  <1>5. ASSUME NEW t \in Tokens, t # token, row'[t].state = "open"
        PROVE  row'[t] = row[t] /\ (row[t].user = u => t \in S)
    <2>1. row'[t] = IF ~Kept(t) THEN NoRow
                    ELSE IF t = previous \/ (row[t].user = u /\ t \notin S)
                    THEN Closed(t) ELSE row[t]
      BY <1>1, <1>5
    <2> QED BY <1>3, <1>4, <1>5, <2>1
  <1>6. token \in Tokens => row'[token] = new
    BY <1>1
  <1>7. \A T \in SUBSET Tokens : IsFiniteSet(T)
    <2>1. IsFiniteSet(Tokens)
      <3>1. 1 \in Int /\ MaxLogins \in Int
        OBVIOUS
      <3> QED BY <3>1, FS_Interval
    <2> QED BY <2>1, FS_Subset
  <1> SUFFICES ASSUME NEW v \in Users PROVE Cardinality(OpenOf(v)') <= MaxUserSessions
    BY DEF FewSessions, OpenOf
  <1>8. CASE v # u
    <2>1. OpenOf(v)' \in SUBSET OpenOf(v)
      BY <1>2, <1>5, <1>6, <1>8 DEF OpenOf
    <2>2. IsFiniteSet(OpenOf(v))
      BY <1>7 DEF OpenOf
    <2>3. /\ Cardinality(OpenOf(v)') <= Cardinality(OpenOf(v))
          /\ IsFiniteSet(OpenOf(v)')
      BY <2>1, <2>2, FS_Subset
    <2>4. Cardinality(OpenOf(v)') \in Nat /\ Cardinality(OpenOf(v)) \in Nat
      BY <2>2, <2>3, FS_CardinalityType
    <2>5. Cardinality(OpenOf(v)) <= MaxUserSessions
      BY DEF FewSessions, OpenOf
    <2> QED BY <2>3, <2>4, <2>5
  <1>9. CASE v = u
    <2>1. OpenOf(u)' \in SUBSET (S \cup {token})
      BY <1>2, <1>5, <1>6 DEF OpenOf
    <2>2. current \in SUBSET Tokens /\ S \in SUBSET Tokens
      BY <1>1 DEF current
    <2>3. IsFiniteSet(S) /\ IsFiniteSet(current)
      BY <1>7, <2>2
    <2>4. Cardinality(S) \in Nat /\ Cardinality(current) \in Nat
      BY <2>3, FS_CardinalityType
    <2>5. Cardinality(S) <= MaxUserSessions - 1
      BY <1>1, <2>4 DEF Room
    <2>6. /\ IsFiniteSet(S \cup {token})
          /\ Cardinality(S \cup {token}) = IF token \in S THEN Cardinality(S) ELSE Cardinality(S) + 1
      BY <2>3, FS_AddElement
    <2>7. /\ Cardinality(OpenOf(u)') <= Cardinality(S \cup {token})
          /\ IsFiniteSet(OpenOf(u)')
      BY <2>1, <2>6, FS_Subset
    <2>8. Cardinality(OpenOf(u)') \in Nat
      BY <2>7, FS_CardinalityType
    <2> QED BY <1>9, <2>4, <2>5, <2>6, <2>7, <2>8
  <1> QED BY <1>8, <1>9

-----------------------------------------------------------------------------
(* The theorems *)

(* No session at the beginning. *)
LEMMA AuthStart == AuthInit => AuthInv
  <1> SUFFICES ASSUME AuthInit PROVE AuthInv
    OBVIOUS
  <1>1. /\ now = 1 /\ row = [t \in Tokens |-> NoRow] /\ born = [t \in Tokens |-> 0]
        /\ refused = {} /\ changes = 0 /\ credential \in [Users -> Fingerprints]
    BY DEF AuthInit
  <1>2. \A t \in Tokens : ~Exists(t)
    BY <1>1 DEF Exists, NoRow
  <1>3. AuthTypeOK
    BY <1>1, <1>2 DEF AuthTypeOK
  <1>4. IssuedInOrder
    <2>1. \A t \in Tokens : born[t] > 0 <=> t <= 0
      BY <1>1
    <2>2. 0 \in 0..MaxLogins
      OBVIOUS
    <2> QED BY <2>1, <2>2 DEF IssuedInOrder
  <1> QED BY <1>1, <1>3, <1>4 DEF AuthInv, RefusedStay

(* Every step of the sessions keeps the invariant. *)
LEMMA AuthStep ==
  ASSUME AuthInv, [AuthNext]_authVars
  PROVE  AuthInv'
  <1>1. CASE UNCHANGED authVars
    BY <1>1 DEF authVars, sessionVars, AuthInv, AuthTypeOK, IssuedInOrder, RefusedStay, Exists,
                TooOld, TooIdle
  <1>2. CASE AuthNext
    BY <1>2, InspectKeeps, ActivityKeeps, LogoutKeeps, LoginKeeps, TickKeeps,
       CleanupKeeps, ChangeKeeps
       DEF AuthNext
  <1> QED BY <1>1, <1>2

(* The invariant holds in every state. *)
LEMMA AuthInvariant == AuthSpec => []AuthInv
  BY AuthStart, AuthStep, PTL DEF AuthSpec

(* The rows have the types of the table, and belong to the login of their    *)
(* token (auth_sessions.py).                                                 *)
THEOREM AuthTyped == AuthSpec => []AuthTypeOK
  BY AuthInvariant, PTL DEF AuthInv

(* No renewal takes a session past its absolute age, and no session outlives *)
(* its account (SessionStore).                                               *)
THEOREM SessionsEnd == AuthSpec => []EndsInTime
  <1>1. AuthInv => EndsInTime
    <2> SUFFICES ASSUME AuthInv, NEW t \in Tokens, Valid(t)
                 PROVE  now < born[t] + AbsoluteSeconds /\ credential[row[t].user] # NoAccount
      BY DEF EndsInTime
    <2>1. row[t].state = "open" /\ ~OutOfDate(t) /\ ~TooOld(t)
      BY DEF Valid
    <2>2. row[t] \in Row /\ Exists(t)
      BY <2>1, RowsTyped DEF AuthInv, Exists
    <2>3. row[t].created = born[t] /\ born[t] \in Nat /\ now \in Nat
      BY <2>2 DEF AuthInv, AuthTypeOK
    <2>4. row[t].fingerprint \in Fingerprints
      BY <2>2 DEF Row
    <2> QED BY <2>1, <2>3, <2>4 DEF TooOld, OutOfDate
  <1> QED BY <1>1, AuthInvariant, PTL

(* A token that was refused once is refused for ever (inspect, activity,     *)
(* logout).                                                                  *)
THEOREM RefusalsStay == AuthSpec => []RefusedForGood
  <1>1. AuthInv => RefusedForGood
    BY DEF AuthInv, RefusedStay, RefusedForGood, Valid
  <1> QED BY <1>1, AuthInvariant, PTL

(* A user never has more than MAX_USER_SESSIONS open sessions (issue).       *)
THEOREM SessionsAreFew == AuthSpec => []FewSessions
  <1>1. AuthInit => FewSessions
    <2> SUFFICES ASSUME AuthInit, NEW u \in Users PROVE Cardinality(OpenOf(u)) <= MaxUserSessions
      BY DEF FewSessions, OpenOf
    <2>1. OpenOf(u) = {}
      BY DEF AuthInit, OpenOf, NoRow
    <2>2. Cardinality({}) = 0
      BY FS_EmptySet
    <2> QED BY <2>1, <2>2
  <1>2. ASSUME AuthInv, FewSessions, [AuthNext]_authVars
        PROVE  FewSessions'
    <2>1. CASE UNCHANGED row
      BY <1>2, <2>1, NothingOpens
    <2>2. ASSUME NEW t \in Tokens, Inspect(t) \/ Activity(t) \/ Logout(t)
          PROVE  FewSessions'
      BY <1>2, <2>2, RequestsOpenNothing
    <2>3. ASSUME NEW a \in Addresses, NEW u \in Users, NEW right \in BOOLEAN,
                 Login(a, u, right)
          PROVE  FewSessions'
      <3>1. UNCHANGED row \/ \E previous : Issue(u, previous)
        BY <2>3 DEF Login
      <3> QED BY <1>2, <2>1, <3>1, LoginLeavesRoom
    <2>4. CASE Cleanup
      BY <1>2, <2>4, CleanupKeeps, NothingOpens
    <2> QED
      BY <1>2, <2>1, <2>2, <2>3, <2>4 DEF AuthNext, Tick, ChangeCredentials, authVars, sessionVars
  <1> QED BY <1>1, <1>2, AuthInvariant, PTL DEF AuthSpec

-----------------------------------------------------------------------------
(* The throttle.  A bucket is the end of the history of what was let through, *)
(* and what it has lost of it was too old and has been so ever since.         *)
Ends(h, g, t) ==
  /\ Len(h) <= Len(g)
  /\ \A n \in 1..Len(h) : h[n] = g[Len(g) - Len(h) + n]
  /\ \A n \in 1..(Len(g) - Len(h)) : g[n] <= t - Window

Spaced(g) == \A n \in DOMAIN g : n > Limit => g[n] >= g[n - Limit] + Window

ThrottleInv ==
  /\ attempts \in [Addresses -> Seq(Nat)] /\ granted \in [Addresses -> Seq(Nat)]
  /\ \A a \in Addresses \ dropped : Ends(attempts[a], granted[a], now) /\ Spaced(granted[a])

LEMMA ThrottleConstants == Limit \in Nat /\ Limit >= 1 /\ Window \in Nat /\ MaxBuckets \in Nat
  BY LoginThrottleAssumption DEF LoginThrottleAssumption

LEMMA ElementOf ==
  ASSUME NEW s \in Seq(Nat), NEW n \in 1..Len(s)
  PROVE  s[n] \in Nat
  OBVIOUS

\* A set of naturals has a least member.
LEMMA LeastOf ==
  ASSUME NEW T, T \subseteq Nat, T # {}
  PROVE  \E x \in T : \A y \in T : x <= y
  <1> DEFINE R == OpToRel(<, Nat)
  <1>1. IsWellFoundedOn(R, Nat)
    BY NatLessThanWellFounded
  <1>2. \A x, y \in Nat : <<y, x>> \in R <=> y < x
    BY DEF OpToRel
  <1> HIDE DEF R
  <1>3. PICK x \in T : \A y \in T : ~ (<<y, x>> \in R)
    BY <1>1, WFMin
  <1>4. ASSUME NEW y \in T PROVE x <= y
    <2>1. x \in Nat /\ y \in Nat /\ ~(y < x)
      BY <1>2, <1>3
    <2> QED BY <2>1
  <1> QED BY <1>4

\* A sequence without its first c elements.
LEMMA EndOf ==
  ASSUME NEW s \in Seq(Nat), NEW c \in 0..Len(s)
  PROVE  /\ SubSeq(s, c + 1, Len(s)) \in Seq(Nat)
         /\ Len(SubSeq(s, c + 1, Len(s))) = Len(s) - c
         /\ \A n \in 1..(Len(s) - c) : SubSeq(s, c + 1, Len(s))[n] = s[c + n]
  <1>1. c \in Nat /\ Len(s) \in Nat /\ c <= Len(s)
    OBVIOUS
  <1>2. /\ SubSeq(s, c + 1, Len(s)) \in Seq(Nat)
        /\ Len(SubSeq(s, c + 1, Len(s))) = Len(s) - c
    BY <1>1
  <1>3. ASSUME NEW n \in 1..(Len(s) - c) PROVE SubSeq(s, c + 1, Len(s))[n] = s[c + n]
    <2>1. n \in Nat /\ n >= 1 /\ n <= Len(s) - c
      BY <1>1
    <2>2. SubSeq(s, c + 1, Len(s))[n] = s[(c + 1) + n - 1]
      BY <1>1, <2>1
    <2>3. (c + 1) + n - 1 = c + n
      BY <1>1, <2>1
    <2> QED BY <2>2, <2>3
  <1> QED BY <1>2, <1>3

(* popleft takes the first attempts away, as long as they are too old, and  *)
(* keeps the others.                                                        *)
LEMMA RecentIsEnd ==
  ASSUME NEW times \in Seq(Nat)
  PROVE  \E c \in 0..Len(times) :
           /\ \A n \in 1..c : times[n] <= now - Window
           /\ Recent(times) \in Seq(Nat) /\ Len(Recent(times)) = Len(times) - c
           /\ \A n \in 1..(Len(times) - c) : Recent(times)[n] = times[c + n]
  <1> DEFINE len == Len(times)
             E == Expired(times)
             T == {n \in 1..(len + 1) : n \notin E}
  <1>1. len \in Nat
    OBVIOUS
  <1>2. E \subseteq 1..len
    BY DEF Expired
  <1>3. \A n \in E : \A m \in 1..n : m \in E
    <2> SUFFICES ASSUME NEW n \in E, NEW m \in 1..n PROVE m \in E
      OBVIOUS
    <2>1. n \in 1..len /\ \A j \in 1..n : times[j] <= now - Window
      BY DEF Expired
    <2>2. m \in 1..len /\ \A j \in 1..m : j \in 1..n
      BY <1>1, <2>1
    <2> QED BY <2>1, <2>2 DEF Expired
  <1>4. \A n \in E : times[n] <= now - Window
    BY <1>1, <1>2 DEF Expired
  <1> HIDE DEF len, E
  <1>5. PICK x \in T : \A y \in T : x <= y
    <2>1. len + 1 \in T
      BY <1>1, <1>2
    <2> HIDE DEF T
    <2>2. T \subseteq Nat
      BY <1>1 DEF T
    <2> QED BY <2>1, <2>2, LeastOf
  <1>6. E = 1..(x - 1)
    <2>1. x \in 1..(len + 1) /\ x \notin E
      BY <1>5
    <2>2. ASSUME NEW n \in E PROVE n \in 1..(x - 1)
      <3>1. n \in 1..len
        BY <1>2
      <3>2. ~(x <= n)
        BY <1>1, <1>3, <2>1, <3>1
      <3> QED BY <1>1, <2>1, <3>1, <3>2
    <2>3. ASSUME NEW n \in 1..(x - 1) PROVE n \in E
      BY <1>1, <1>5, <2>1
    <2> QED BY <2>2, <2>3
  <1>7. Cardinality(E) = x - 1
    <2>1. x \in Nat /\ x >= 1
      BY <1>1, <1>5
    <2>2. 1 \in Int /\ x - 1 \in Int
      BY <2>1
    <2>3. Cardinality(1..(x - 1)) = IF 1 > x - 1 THEN 0 ELSE (x - 1) - 1 + 1
      BY ONLY <2>2, FS_Interval
    <2> QED BY <1>6, <2>1, <2>3
  <1> DEFINE c == x - 1
  <1>8. c \in 0..len
    BY <1>1, <1>5
  <1>9. Recent(times) = SubSeq(times, c + 1, len)
    BY <1>7 DEF Recent, E, len
  <1>10. \A n \in 1..c : times[n] <= now - Window
    BY <1>4, <1>6
  <1> HIDE DEF c
  <1>11. /\ SubSeq(times, c + 1, len) \in Seq(Nat)
         /\ Len(SubSeq(times, c + 1, len)) = len - c
         /\ \A n \in 1..(len - c) : SubSeq(times, c + 1, len)[n] = times[c + n]
    BY <1>8, EndOf DEF len
  <1>12. /\ Recent(times) \in Seq(Nat) /\ Len(Recent(times)) = len - c
         /\ \A n \in 1..(len - c) : Recent(times)[n] = times[c + n]
    BY <1>9, <1>11
  <1> QED BY <1>8, <1>10, <1>12 DEF len

(* The end q of a bucket h, without its first c attempts, which are too old, *)
(* ends the history as well.                                                *)
LEMMA EndOfEnd ==
  ASSUME NEW t \in Nat, NEW h \in Seq(Nat), NEW g \in Seq(Nat), Ends(h, g, t),
         NEW q \in Seq(Nat), NEW c \in 0..Len(h), Len(q) = Len(h) - c,
         \A n \in 1..c : h[n] <= t - Window,
         \A n \in 1..(Len(h) - c) : q[n] = h[c + n]
  PROVE  Ends(q, g, t)
  <1>0. Len(g) \in Nat /\ Len(h) \in Nat /\ Len(q) \in Nat /\ Len(h) <= Len(g)
    BY DEF Ends
  <1>1. Len(q) <= Len(g)
    BY <1>0
  <1>2. ASSUME NEW n \in 1..Len(q) PROVE q[n] = g[Len(g) - Len(q) + n]
    <2>1. c + n \in 1..Len(h) /\ n \in 1..(Len(h) - c)
      BY <1>0
    <2>2. h[c + n] = g[Len(g) - Len(h) + (c + n)]
      BY <2>1 DEF Ends
    <2>3. Len(g) - Len(h) + (c + n) = Len(g) - Len(q) + n
      BY <1>0
    <2> QED BY <2>1, <2>2, <2>3
  <1>3. ASSUME NEW n \in 1..(Len(g) - Len(q)) PROVE g[n] <= t - Window
    <2>1. CASE n \in 1..(Len(g) - Len(h))
      BY <2>1 DEF Ends
    <2>2. CASE n \notin 1..(Len(g) - Len(h))
      <3> DEFINE m == n - (Len(g) - Len(h))
      <3>1. m \in 1..c /\ m \in 1..Len(h) /\ Len(g) - Len(h) + m = n
        BY SMTT(20), <1>0, <2>2
      <3> HIDE DEF m
      <3>2. h[m] = g[Len(g) - Len(h) + m]
        BY <3>1 DEF Ends
      <3> QED BY <3>1, <3>2
    <2> QED BY <2>1, <2>2
  <1> QED BY <1>1, <1>2, <1>3 DEF Ends

(* Into a bucket with room the attempt may go: the one Limit attempts before *)
(* it is no longer in the bucket, and so it is too old.                     *)
LEMMA RoomForOne ==
  ASSUME NEW t \in Nat, NEW q \in Seq(Nat), NEW g \in Seq(Nat), Ends(q, g, t), Spaced(g),
         Len(q) < Limit
  PROVE  Ends(Append(q, t), Append(g, t), t) /\ Spaced(Append(g, t))
  <1> DEFINE h2 == Append(q, t)
             g2 == Append(g, t)
  <1>0. Limit \in Nat /\ Limit >= 1 /\ Window \in Nat
    BY ThrottleConstants
  <1>1. Len(g) \in Nat /\ Len(q) \in Nat /\ Len(q) <= Len(g)
    BY DEF Ends
  <1>2. /\ h2 \in Seq(Nat) /\ Len(h2) = Len(q) + 1 /\ h2[Len(q) + 1] = t
        /\ \A n \in 1..Len(q) : h2[n] = q[n]
    OBVIOUS
  <1>3. /\ g2 \in Seq(Nat) /\ Len(g2) = Len(g) + 1 /\ g2[Len(g) + 1] = t
        /\ \A n \in 1..Len(g) : g2[n] = g[n]
    OBVIOUS
  <1> HIDE DEF h2, g2
  <1>4. Len(g2) - Len(h2) = Len(g) - Len(q)
    BY <1>1, <1>2, <1>3
  <1>5. Ends(h2, g2, t)
    <2>1. Len(h2) <= Len(g2)
      BY <1>1, <1>2, <1>3
    <2>2. ASSUME NEW n \in 1..Len(h2) PROVE h2[n] = g2[Len(g2) - Len(h2) + n]
      <3>1. CASE n = Len(q) + 1
        <4>1. Len(g) - Len(q) + n = Len(g) + 1
          BY <1>1, <3>1
        <4> QED BY <1>2, <1>3, <1>4, <3>1, <4>1
      <3>2. CASE n # Len(q) + 1
        <4>1. n \in 1..Len(q) /\ Len(g) - Len(q) + n \in 1..Len(g)
          BY <1>1, <1>2, <3>2
        <4>2. q[n] = g[Len(g) - Len(q) + n]
          BY <4>1 DEF Ends
        <4> QED BY <1>2, <1>3, <1>4, <4>1, <4>2
      <3> QED BY <3>1, <3>2
    <2>3. ASSUME NEW n \in 1..(Len(g2) - Len(h2)) PROVE g2[n] <= t - Window
      <3>1. n \in 1..(Len(g) - Len(q)) /\ n \in 1..Len(g)
        BY <1>1, <1>4
      <3>2. g[n] <= t - Window
        BY <3>1 DEF Ends
      <3> QED BY <1>3, <3>1, <3>2
    <2> QED BY <2>1, <2>2, <2>3 DEF Ends
  <1>6. ASSUME NEW n \in DOMAIN g2, n > Limit PROVE g2[n] >= g2[n - Limit] + Window
    <2>1. n \in 1..(Len(g) + 1)
      BY <1>3
    <2>2. CASE n \in 1..Len(g)
      <3>1. n - Limit \in 1..Len(g) /\ n \in DOMAIN g
        BY SMTT(20), <1>0, <1>1, <1>6, <2>2
      <3>2. g[n] >= g[n - Limit] + Window
        BY <1>6, <3>1 DEF Spaced
      <3> QED BY <1>3, <2>2, <3>1, <3>2
    <2>3. CASE n = Len(g) + 1
      <3>1. n - Limit \in 1..(Len(g) - Len(q)) /\ n - Limit \in 1..Len(g)
        BY <1>0, <1>1, <1>6, <2>3
      <3>2. g[n - Limit] <= t - Window /\ g[n - Limit] \in Nat
        BY <3>1, ElementOf DEF Ends
      <3>3. g2[n - Limit] = g[n - Limit] /\ g2[n] = t
        BY <1>3, <2>3, <3>1
      <3> QED BY <1>0, <3>2, <3>3
    <2>4. n \in 1..Len(g) \/ n = Len(g) + 1
      BY <1>1, <2>1
    <2> QED BY <2>2, <2>3, <2>4
  <1>7. Spaced(g2)
    BY <1>6 DEF Spaced
  <1> QED BY <1>5, <1>7 DEF h2, g2

\* A bucket and its history, before and after an attempt.
LEMMA BucketKeeps ==
  ASSUME now \in Nat, NEW h \in Seq(Nat), NEW g \in Seq(Nat), Ends(h, g, now), Spaced(g)
  PROVE  /\ Ends(With(h, FALSE), g, now)
         /\ Len(Recent(h)) < Limit =>
              Ends(With(h, TRUE), Append(g, now), now) /\ Spaced(Append(g, now))
  <1>1. Recent(h) \in Seq(Nat) /\ Ends(Recent(h), g, now)
    BY RecentIsEnd, EndOfEnd
  <1> QED BY <1>1, RoomForOne DEF With

(* A login attempt of an address, admitted or not. *)
LEMMA AllowKeeps ==
  ASSUME ThrottleInv, now \in Nat, now' = now, NEW a \in Addresses,
         NEW admitted \in BOOLEAN, Allow(a, admitted)
  PROVE  ThrottleInv'
  <1> DEFINE full   == Len(Touched(a)) > MaxBuckets
             victim == Head(Touched(a))
             h2 == With(attempts[a], admitted)
             g2 == IF admitted THEN Append(granted[a], now) ELSE granted[a]
  <1>1. /\ attempts' = [b \in Addresses |->
             IF full /\ b = victim THEN <<>> ELSE IF b = a THEN h2 ELSE attempts[b]]
        /\ granted' = [b \in Addresses |->
             IF b \in dropped' THEN <<>>
             ELSE IF b = a /\ admitted THEN Append(granted[a], now) ELSE granted[b]]
        /\ dropped' = IF full THEN dropped \cup {victim} ELSE dropped
        /\ admitted = (Len(Recent(attempts[a])) < Limit)
    BY DEF Allow, Admits
  <1>2. attempts[a] \in Seq(Nat) /\ granted[a] \in Seq(Nat) /\ <<>> \in Seq(Nat)
    BY DEF ThrottleInv
  <1>3. h2 \in Seq(Nat) /\ g2 \in Seq(Nat)
    <2>1. Recent(attempts[a]) \in Seq(Nat)
      BY <1>2, RecentIsEnd
    <2> QED BY <1>2, <2>1 DEF With
  <1>4. a \notin dropped => Ends(h2, g2, now) /\ Spaced(g2)
    <2> SUFFICES ASSUME a \notin dropped PROVE Ends(h2, g2, now) /\ Spaced(g2)
      OBVIOUS
    <2>1. Ends(attempts[a], granted[a], now) /\ Spaced(granted[a])
      BY DEF ThrottleInv
    <2>2. CASE admitted
      <3>1. h2 = With(attempts[a], TRUE) /\ Len(Recent(attempts[a])) < Limit
        BY <1>1, <2>2 DEF With
      <3> QED BY <1>2, <2>1, <2>2, <3>1, BucketKeeps
    <2>3. CASE ~admitted
      <3>1. h2 = With(attempts[a], FALSE)
        BY <2>3 DEF With
      <3> QED BY <1>2, <2>1, <2>3, <3>1, BucketKeeps
    <2> QED BY <2>2, <2>3
  <1> HIDE DEF full, victim, h2
  <1>5. attempts' \in [Addresses -> Seq(Nat)] /\ granted' \in [Addresses -> Seq(Nat)]
    BY <1>1, <1>2, <1>3 DEF ThrottleInv
  <1>6. ASSUME NEW b \in Addresses, b \notin dropped'
        PROVE  Ends(attempts'[b], granted'[b], now') /\ Spaced(granted'[b])
    <2>1. b \notin dropped /\ ~(full /\ b = victim)
      BY <1>1, <1>6
    <2>2. Ends(attempts'[b], granted'[b], now) /\ Spaced(granted'[b])
      <3>1. CASE b = a
        BY <1>1, <1>4, <1>6, <2>1, <3>1
      <3>2. CASE b # a
        BY <1>1, <1>6, <2>1, <3>2 DEF ThrottleInv
      <3> QED BY <3>1, <3>2
    <2> QED BY <2>2
  <1> QED BY <1>5, <1>6 DEF ThrottleInv

\* With time what was too old stays too old.
LEMMA TimeKeeps ==
  ASSUME ThrottleInv, now \in Nat, now' \in Nat, now <= now', UNCHANGED throttleVars
  PROVE  ThrottleInv'
  <1> USE DEF throttleVars
  <1>0. Window \in Nat
    BY ThrottleConstants
  <1>1. ASSUME NEW b \in Addresses, b \notin dropped
        PROVE  \A n \in 1..(Len(granted[b]) - Len(attempts[b])) : granted[b][n] <= now' - Window
    <2> SUFFICES ASSUME NEW n \in 1..(Len(granted[b]) - Len(attempts[b]))
                 PROVE  granted[b][n] <= now' - Window
      OBVIOUS
    <2>1. granted[b] \in Seq(Nat) /\ attempts[b] \in Seq(Nat)
      BY DEF ThrottleInv
    <2>2. granted[b][n] <= now - Window
      BY <1>1 DEF ThrottleInv, Ends
    <2>3. n \in 1..Len(granted[b])
      BY <2>1
    <2>4. granted[b][n] \in Nat
      BY <2>1, <2>3, ElementOf
    <2> QED BY SMTT(20), <1>0, <2>2, <2>4
  <1> QED BY <1>1 DEF ThrottleInv, Ends, Spaced

(* No window, wherever it begins, lets more than Limit attempts of an address *)
(* through whose bucket was not dropped, for every limit, window, number of   *)
(* addresses and size of the table (LoginThrottle.allow).                     *)
THEOREM ThrottleKeeps == AuthSpec => []ThrottleHolds
  <1>1. AuthInit => ThrottleInv
    BY DEF AuthInit, ThrottleInit, ThrottleInv, Ends, Spaced
  <1>2. AuthInv /\ ThrottleInv /\ [AuthNext]_authVars => ThrottleInv'
    <2> SUFFICES ASSUME AuthInv, ThrottleInv, [AuthNext]_authVars
                 PROVE  ThrottleInv'
      OBVIOUS
    <2>1. now \in Nat
      BY DEF AuthInv, AuthTypeOK
    <2>2. now' = now \/ now' = now + 1
      BY DEF AuthNext, Inspect, Activity, Logout, Login, Tick, Cleanup, ChangeCredentials, authVars
    <2>3. CASE UNCHANGED throttleVars
      BY <2>1, <2>2, <2>3, TimeKeeps
    <2>4. ASSUME NEW a \in Addresses, NEW u \in Users, NEW right \in BOOLEAN,
                 Login(a, u, right)
          PROVE  ThrottleInv'
      BY <2>1, <2>4, AllowKeeps DEF Login
    <2>5. UNCHANGED throttleVars \/
          \E a \in Addresses, u \in Users, right \in BOOLEAN : Login(a, u, right)
      BY DEF AuthNext, Inspect, Activity, Logout, Tick, Cleanup, ChangeCredentials, authVars
    <2> QED BY <2>3, <2>4, <2>5
  <1>3. ThrottleInv => ThrottleHolds
    BY DEF ThrottleInv, ThrottleHolds, Spaced
  <1> QED BY <1>1, <1>2, <1>3, AuthInvariant, PTL DEF AuthSpec
=============================================================================
