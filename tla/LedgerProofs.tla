---------------------------- MODULE LedgerProofs ----------------------------
(***************************************************************************)
(* The human entries of the event log, for every number of operators, keys *)
(* and requests: a key has one effect, nothing is settled twice, a repeat  *)
(* does not undo a later configuration, and history is stable.             *)
(***************************************************************************)
EXTENDS Ledger, FiniteSetTheorems, TLAPS

(* Only findings and records carry a key, and each of them the request of    *)
(* its own kind: the classes that _prior searches are disjoint.              *)
KeysAreCarried ==
  \A n \in DOMAIN log : log[n].key # "none" =>
    \/ log[n].type \in FindingOps /\ log[n].type = log[n].request.op
    \/ log[n].type = "record" /\ log[n].request.op \in InterventionOps

(* The inductive invariant. *)
LedgerInv == LedgerTypeOK /\ KeysAreCarried /\ OneEffectPerKey /\ SettledOnce

-----------------------------------------------------------------------------
(* What an accepted request appends *)

(* Appending one entry to a log. *)
LEMMA OneMore ==
  ASSUME NEW S, NEW s \in Seq(S), NEW e \in S
  PROVE  LET t == s \o <<e>>
         IN  /\ t \in Seq(S) /\ Len(t) = Len(s) + 1 /\ DOMAIN t = 1..(Len(s) + 1)
             /\ \A n \in 1..Len(s) : t[n] = s[n]
             /\ t[Len(s) + 1] = e
  OBVIOUS

(* Appending two entries. *)
LEMMA TwoMore ==
  ASSUME NEW S, NEW s \in Seq(S), NEW e \in S, NEW f \in S
  PROVE  LET t == s \o <<e, f>>
         IN  /\ t \in Seq(S) /\ Len(t) = Len(s) + 2 /\ DOMAIN t = 1..(Len(s) + 2)
             /\ \A n \in 1..Len(s) : t[n] = s[n]
             /\ t[Len(s) + 1] = e /\ t[Len(s) + 2] = f
  OBVIOUS

(* A finding is one entry, under its key. *)
LEMMA FindingAppended ==
  ASSUME LedgerTypeOK, NEW a \in Authors, NEW k \in Keys, NEW r \in Requests,
         Apply(a, k, r), r.op \in FindingOps
  PROVE  LET N == Len(log) IN
         /\ N \in Nat /\ log' \in Seq(Entry) /\ DOMAIN log = 1..N /\ Len(log') = N + 1
         /\ DOMAIN log' = 1..(N + 1)
         /\ \A n \in 1..N : log'[n] = log[n]
         /\ log'[N + 1] = [type |-> r.op, author |-> a, key |-> k, request |-> r,
                           ref |-> r.ref]
  <1> DEFINE e == [type |-> r.op, author |-> a, key |-> k, request |-> r, ref |-> r.ref]
  <1>1. r \in Request /\ r.ref \in Nat
    BY LedgerAssumption DEF Request
  <1>2. e \in Entry
    BY <1>1 DEF Entry
  <1>3. log' = log \o <<e>>
    BY DEF Apply, Entries
  <1>4. log \in Seq(Entry)
    BY DEF LedgerTypeOK
  <1> HIDE DEF e
  <1>5. Len(log) \in Nat /\ DOMAIN log = 1..Len(log)
    BY <1>4
  <1> QED BY <1>2, <1>3, <1>4, <1>5, OneMore DEF e

(* An intervention is two entries: its effect and, under the key, its record. *)
LEMMA InterventionAppended ==
  ASSUME LedgerTypeOK, NEW a \in Authors, NEW k \in Keys, NEW r \in Requests,
         Apply(a, k, r), r.op \notin FindingOps
  PROVE  LET N == Len(log) IN
         /\ N \in Nat /\ log' \in Seq(Entry) /\ DOMAIN log = 1..N /\ Len(log') = N + 2
         /\ DOMAIN log' = 1..(N + 2)
         /\ \A n \in 1..N : log'[n] = log[n]
         /\ log'[N + 1] = [type |-> r.op, author |-> a, key |-> "none", request |-> r,
                           ref |-> r.ref]
         /\ log'[N + 2] = [type |-> "record", author |-> a, key |-> k, request |-> r,
                           ref |-> N + 1]
         /\ r.op \in InterventionOps
  <1> DEFINE e == [type |-> r.op, author |-> a, key |-> "none", request |-> r,
                   ref |-> r.ref]
             f == [type |-> "record", author |-> a, key |-> k, request |-> r,
                   ref |-> Len(log) + 1]
  <1>1. r \in Request /\ r.ref \in Nat /\ r.op \in InterventionOps
    BY LedgerAssumption DEF Request
  <1>4. log \in Seq(Entry)
    BY DEF LedgerTypeOK
  <1>5. Len(log) \in Nat /\ DOMAIN log = 1..Len(log)
    BY <1>4
  <1>2. e \in Entry /\ f \in Entry
    BY <1>1, <1>5 DEF Entry
  <1>3. log' = log \o <<e, f>>
    BY DEF Apply, Entries
  <1> HIDE DEF e, f
  <1> QED BY <1>1, <1>2, <1>3, <1>4, <1>5, TwoMore DEF e, f

(* The first entry is of the request's kind, a second one is a record. *)
LEMMA WhatIsAppended ==
  ASSUME LedgerTypeOK, NEW a \in Authors, NEW k \in Keys, NEW r \in Requests,
         Apply(a, k, r)
  PROVE  LET N == Len(log) IN
         /\ N \in Nat /\ DOMAIN log = 1..N /\ DOMAIN log' = 1..Len(log')
         /\ Len(log') = IF r.op \in FindingOps THEN N + 1 ELSE N + 2
         /\ \A n \in 1..N : log'[n] = log[n]
         /\ log'[N + 1].type = r.op /\ log'[N + 1].request = r
         /\ r.op \notin FindingOps => log'[N + 2].type = "record"
  <1> DEFINE N == Len(log)
  <1>1. CASE r.op \in FindingOps
    <2>1. /\ N \in Nat /\ DOMAIN log = 1..N /\ Len(log') = N + 1
          /\ DOMAIN log' = 1..(N + 1)
          /\ \A n \in 1..N : log'[n] = log[n]
          /\ log'[N + 1] = [type |-> r.op, author |-> a, key |-> k, request |-> r,
                            ref |-> r.ref]
      BY <1>1, FindingAppended
    <2> HIDE DEF N
    <2>2. log'[N + 1].type = r.op /\ log'[N + 1].request = r
      BY <2>1
    <2> QED BY <1>1, <2>1, <2>2 DEF N
  <1>2. CASE r.op \notin FindingOps
    <2>1. /\ N \in Nat /\ DOMAIN log = 1..N /\ Len(log') = N + 2
          /\ DOMAIN log' = 1..(N + 2)
          /\ \A n \in 1..N : log'[n] = log[n]
          /\ log'[N + 1] = [type |-> r.op, author |-> a, key |-> "none", request |-> r,
                            ref |-> r.ref]
          /\ log'[N + 2] = [type |-> "record", author |-> a, key |-> k, request |-> r,
                            ref |-> N + 1]
      BY <1>2, InterventionAppended
    <2> HIDE DEF N
    <2>2. log'[N + 1].type = r.op /\ log'[N + 1].request = r /\ log'[N + 2].type = "record"
      BY <2>1
    <2> QED BY <1>2, <2>1, <2>2 DEF N
  <1> QED BY <1>1, <1>2

(* An event of another kind is one entry without a key. *)
LEMMA EventAppended ==
  ASSUME LedgerTypeOK, Log
  PROVE  LET N == Len(log) IN
         /\ N \in Nat /\ log' \in Seq(Entry) /\ DOMAIN log = 1..N /\ Len(log') = N + 1
         /\ DOMAIN log' = 1..(N + 1)
         /\ \A n \in 1..N : log'[n] = log[n]
         /\ log'[N + 1] = OtherEvent
         /\ configured' = configured /\ ended' = ended
  <1>1. OtherEvent \in Entry
    BY LedgerAssumption DEF OtherEvent, Entry, NoRequest, Request, FindingOps
  <1>2. log' = Append(log, OtherEvent) /\ UNCHANGED <<ended, configured>>
    BY DEF Log
  <1>3. log \in Seq(Entry)
    BY DEF LedgerTypeOK
  <1> HIDE DEF OtherEvent
  <1> QED BY <1>1, <1>2, <1>3

-----------------------------------------------------------------------------
(* The invariant *)

(* A configuration has the type of the column. *)
LEMMA ConfigurationTyped ==
  ASSUME LedgerTypeOK, NEW r \in Requests
  PROVE  Reconfigured(r) \in [persona : Personas, version : Nat]
  BY LedgerAssumption DEF LedgerTypeOK, Reconfigured, Request

(* A finding carries a key that no entry of its class carries yet, and       *)
(* settles what was not settled.                                             *)
LEMMA FindingKeeps ==
  ASSUME LedgerInv, NEW a \in Authors, NEW k \in Keys, NEW r \in Requests,
         Apply(a, k, r), r.op \in FindingOps
  PROVE  LedgerInv'
  <1> DEFINE N == Len(log)
  <1> USE DEF LedgerInv
  <1>1. /\ N \in Nat /\ log' \in Seq(Entry) /\ DOMAIN log = 1..N /\ Len(log') = N + 1
        /\ DOMAIN log' = 1..(N + 1)
        /\ \A n \in 1..N : log'[n] = log[n]
        /\ log'[N + 1] = [type |-> r.op, author |-> a, key |-> k, request |-> r,
                          ref |-> r.ref]
    BY FindingAppended
  <1>2. r.op \in FindingOps /\ Prior(a, k, r) = {} /\ Acceptable(r)
        /\ ended' = ended /\ configured' = configured
    BY DEF Apply, Accepted, FindingOps
  <1>3. r.op # "record" /\ r.op # "revoke" /\ r.op # "deactivate"
    BY <1>2 DEF FindingOps
  <1> HIDE DEF N
  <1>4. Recorded'
    BY <1>1, <1>3 DEF LedgerTypeOK, Recorded
  <1>5. LedgerTypeOK'
    BY <1>1, <1>2, <1>4 DEF LedgerTypeOK
  <1>6. KeysAreCarried'
    BY <1>1, <1>2 DEF KeysAreCarried
  <1>7. OneEffectPerKey'
    <2>1. ASSUME NEW n \in 1..N, Tagged(log[n], a, k), log[n].type \in FindingOps
          PROVE  FALSE
      BY <1>1, <1>2, <2>1 DEF Prior, Carriers
    <2>2. k # "none"
      BY LedgerAssumption
    <2>3. ASSUME NEW n \in 1..N, Tagged(log[n], a, k), FindingOps = Carriers(log[n].request)
          PROVE  FALSE
      BY <1>1, <2>1, <2>2, <2>3 DEF KeysAreCarried, Tagged, Carriers, InterventionOps, FindingOps
    <2> SUFFICES ASSUME NEW m \in 1..(N + 1), NEW n \in 1..(N + 1),
                        log'[m].key # "none", Tagged(log'[n], log'[m].author, log'[m].key),
                        log'[n].type \in Carriers(log'[m].request)
                 PROVE  m = n
      BY <1>1 DEF OneEffectPerKey, Tagged, Carriers
    <2>4. CASE m \in 1..N /\ n \in 1..N
      BY <1>1, <2>4 DEF OneEffectPerKey
    <2>5. CASE m = N + 1 /\ n \in 1..N
      BY <1>1, <1>2, <2>1, <2>5 DEF Tagged, Carriers
    <2>6. CASE n = N + 1 /\ m \in 1..N
      <3>1. Tagged(log[m], a, k) /\ r.op \in Carriers(log[m].request)
        BY <1>1, <2>6 DEF Tagged
      <3>2. FindingOps = Carriers(log[m].request)
        BY <1>3, <3>1 DEF Carriers
      <3> QED BY <2>3, <2>6, <3>1, <3>2
    <2> QED BY <1>1, <2>4, <2>5, <2>6
  <1>8. SettledOnce'
    <2>1. CASE r.op = "resolve"
      <3>1. r.ref \in 1..N /\ ~\E n \in 1..N : log[n].type = "resolve" /\ log[n].ref = r.ref
        BY <1>1, <1>2, <2>1 DEF Acceptable, Is, Settled, Refers, Numbers, N
      <3> QED BY <1>1, <2>1, <3>1 DEF SettledOnce
    <2>2. CASE r.op # "resolve"
      BY <1>1, <1>3, <2>2 DEF SettledOnce
    <2> QED BY <2>1, <2>2
  <1> QED BY <1>5, <1>6, <1>7, <1>8

(* An intervention's record carries the key; its effect settles what was not *)
(* settled.                                                                  *)
LEMMA InterventionKeeps ==
  ASSUME LedgerInv, NEW a \in Authors, NEW k \in Keys, NEW r \in Requests,
         Apply(a, k, r), r.op \notin FindingOps
  PROVE  LedgerInv'
  <1> DEFINE N == Len(log)
  <1> USE DEF LedgerInv
  <1>1. /\ N \in Nat /\ log' \in Seq(Entry) /\ DOMAIN log = 1..N /\ Len(log') = N + 2
        /\ DOMAIN log' = 1..(N + 2)
        /\ \A n \in 1..N : log'[n] = log[n]
        /\ log'[N + 1] = [type |-> r.op, author |-> a, key |-> "none", request |-> r,
                          ref |-> r.ref]
        /\ log'[N + 2] = [type |-> "record", author |-> a, key |-> k, request |-> r,
                          ref |-> N + 1]
        /\ r.op \in InterventionOps
    BY InterventionAppended
  <1>2. r.op \notin FindingOps /\ Prior(a, k, r) = {} /\ Acceptable(r) /\ ended' = ended
        /\ (configured' = configured \/ configured' = Reconfigured(r))
    BY DEF Apply, Accepted
  <1>3. r.op # "record" /\ r.op # "resolve" /\ "record" \notin FindingOps
    BY <1>1 DEF InterventionOps, FindingOps
  <1> HIDE DEF N
  <1>4. Recorded'
    <2> SUFFICES ASSUME NEW n \in 1..(N + 2), log'[n].type = "record"
                 PROVE  LET effect == log'[n].ref
                        IN  /\ effect = n - 1 /\ effect \in DOMAIN log'
                            /\ log'[effect].type = log'[n].request.op
                            /\ log'[effect].author = log'[n].author
                            /\ log'[effect].request = log'[n].request
      BY <1>1 DEF Recorded
    <2>1. CASE n \in 1..N
      <3>1. /\ log[n].ref = n - 1 /\ n - 1 \in 1..N
            /\ log[n - 1].type = log[n].request.op
            /\ log[n - 1].author = log[n].author /\ log[n - 1].request = log[n].request
        BY <1>1, <2>1 DEF LedgerTypeOK, Recorded
      <3> QED BY <1>1, <2>1, <3>1
    <2>2. CASE n = N + 1
      BY <1>1, <1>3, <2>2
    <2>3. CASE n = N + 2
      BY <1>1, <2>3
    <2> QED BY <1>1, <2>1, <2>2, <2>3
  <1>5. LedgerTypeOK'
    BY <1>1, <1>2, <1>4, ConfigurationTyped DEF LedgerTypeOK
  <1>6. KeysAreCarried'
    BY <1>1, <1>2 DEF KeysAreCarried
  <1>7. OneEffectPerKey'
    <2>1. ASSUME NEW n \in 1..N, Tagged(log[n], a, k), log[n].type = "record"
          PROVE  FALSE
      BY <1>1, <1>2, <2>1 DEF Prior, Carriers
    <2>2. k # "none"
      BY LedgerAssumption
    <2>3. ASSUME NEW n \in 1..N, Tagged(log[n], a, k), "record" \in Carriers(log[n].request)
          PROVE  FALSE
      <3>1. log[n].type # "record"
        BY <2>1, <2>3
      <3>2. log[n].request.op \in FindingOps
        BY <1>1, <2>2, <2>3, <3>1 DEF KeysAreCarried, Tagged
      <3> QED BY <1>3, <2>3, <3>2 DEF Carriers
    <2> SUFFICES ASSUME NEW m \in 1..(N + 2), NEW n \in 1..(N + 2),
                        log'[m].key # "none", Tagged(log'[n], log'[m].author, log'[m].key),
                        log'[n].type \in Carriers(log'[m].request)
                 PROVE  m = n
      BY <1>1 DEF OneEffectPerKey, Tagged, Carriers
    <2>4. m # N + 1 /\ n # N + 1
      BY <1>1 DEF Tagged
    <2>5. CASE m \in 1..N /\ n \in 1..N
      BY <1>1, <2>5 DEF OneEffectPerKey
    <2>6. CASE m = N + 2 /\ n \in 1..N
      BY <1>1, <1>2, <2>1, <2>6 DEF Tagged, Carriers
    <2>7. CASE n = N + 2 /\ m \in 1..N
      <3>1. Tagged(log[m], a, k) /\ "record" \in Carriers(log[m].request)
        BY <1>1, <2>7 DEF Tagged
      <3> QED BY <2>3, <2>7, <3>1
    <2> QED BY <1>1, <2>4, <2>5, <2>6, <2>7
  <1>8. SettledOnce'
    <2>1. CASE r.op = "revoke"
      <3>1. r.ref \in 1..N /\ ~\E n \in 1..N : log[n].type = "revoke" /\ log[n].ref = r.ref
        BY <1>1, <1>2, <2>1 DEF Acceptable, Is, Settled, Refers, Numbers, N
      <3> QED BY <1>1, <2>1, <3>1 DEF SettledOnce
    <2>2. CASE r.op = "deactivate"
      <3>1. r.ref \in 1..N /\ ~\E n \in 1..N : log[n].type = "deactivate" /\ log[n].ref = r.ref
        BY <1>1, <1>2, <2>2 DEF Acceptable, Is, Inactive, Numbers, N
      <3> QED BY SMTT(20), <1>1, <2>2, <3>1 DEF SettledOnce
    <2>3. CASE r.op # "revoke" /\ r.op # "deactivate"
      BY SMTT(20), <1>1, <1>3, <2>3 DEF SettledOnce
    <2> QED BY <2>1, <2>2, <2>3
  <1> QED BY <1>5, <1>6, <1>7, <1>8

(* An event of another kind carries no key and settles nothing.              *)
LEMMA EventKeeps ==
  ASSUME LedgerInv, Log
  PROVE  LedgerInv'
  <1> DEFINE N == Len(log)
  <1> USE DEF LedgerInv
  <1>1. /\ N \in Nat /\ log' \in Seq(Entry) /\ DOMAIN log = 1..N /\ Len(log') = N + 1
        /\ DOMAIN log' = 1..(N + 1)
        /\ \A n \in 1..N : log'[n] = log[n]
        /\ log'[N + 1] = OtherEvent
        /\ configured' = configured /\ ended' = ended
    BY EventAppended
  <1>2. OtherEvent.type = "event" /\ OtherEvent.key = "none"
    BY DEF OtherEvent
  <1> HIDE DEF N
  <1>3. Recorded'
    BY <1>1, <1>2 DEF LedgerTypeOK, Recorded
  <1>4. LedgerTypeOK'
    BY <1>1, <1>3 DEF LedgerTypeOK
  <1>5. KeysAreCarried'
    BY <1>1, <1>2 DEF KeysAreCarried
  <1>6. OneEffectPerKey'
    BY <1>1, <1>2 DEF OneEffectPerKey, Tagged, Carriers
  <1>7. SettledOnce'
    BY <1>1, <1>2 DEF SettledOnce
  <1> QED BY <1>4, <1>5, <1>6, <1>7

(* The empty log. *)
LEMMA LedgerStart == LedgerInit => LedgerInv
  <1> SUFFICES ASSUME LedgerInit PROVE LedgerInv
    OBVIOUS
  <1>1. log = <<>> /\ log \in Seq(Entry) /\ DOMAIN log = {}
    BY DEF LedgerInit
  <1>2. ended \in BOOLEAN /\ configured \in [persona : Personas, version : Nat]
    BY LedgerAssumption DEF LedgerInit
  <1>3. LedgerTypeOK
    BY <1>1, <1>2 DEF LedgerTypeOK, Recorded
  <1> QED
    BY <1>1, <1>3 DEF LedgerInv, KeysAreCarried, OneEffectPerKey, SettledOnce

(* Every step of the ledger keeps the invariant. *)
LEMMA LedgerStep ==
  ASSUME LedgerInv, [LedgerNext]_ledgerVars
  PROVE  LedgerInv'
  <1> USE DEF LedgerInv
  <1>1. CASE UNCHANGED log /\ ended' \in BOOLEAN /\ UNCHANGED configured
    BY <1>1 DEF LedgerTypeOK, Recorded, KeysAreCarried, OneEffectPerKey, SettledOnce
  <1>2. ASSUME NEW a \in Authors, NEW k \in Keys, NEW r \in Requests, Apply(a, k, r)
        PROVE  LedgerInv'
    BY <1>2, FindingKeeps, InterventionKeeps
  <1>3. CASE Log
    BY <1>3, EventKeeps
  <1> QED BY <1>1, <1>2, <1>3 DEF LedgerNext, Repeat, EndRun, ledgerVars, LedgerTypeOK

(* The invariant holds in every state. *)
LEMMA LedgerInvariant == LedgerSpec => []LedgerInv
  BY LedgerStart, LedgerStep, PTL DEF LedgerSpec

(* The log and the configuration are typed, and every record follows its     *)
(* effect (_record).                                                         *)
THEOREM LedgerTyped == LedgerSpec => []LedgerTypeOK
  BY LedgerInvariant, PTL DEF LedgerInv

(* No operator's key has two effects (findings._prior, interventions._prior). *)
THEOREM KeysActOnce == LedgerSpec => []OneEffectPerKey
  BY LedgerInvariant, PTL DEF LedgerInv

(* Nothing is resolved, revoked or deactivated twice.                        *)
THEOREM NothingSettledTwice == LedgerSpec => []SettledOnce
  BY LedgerInvariant, PTL DEF LedgerInv

-----------------------------------------------------------------------------
(* History *)

(* The log only grows. *)
LEMMA LogGrows ==
  ASSUME LedgerTypeOK, [LedgerNext]_ledgerVars
  PROVE  /\ Len(log) \in Nat /\ Len(log') \in Nat /\ Len(log) <= Len(log')
         /\ DOMAIN log = 1..Len(log) /\ DOMAIN log' = 1..Len(log')
         /\ \A n \in 1..Len(log) : log'[n] = log[n]
  <1>0. Len(log) \in Nat /\ DOMAIN log = 1..Len(log)
    BY DEF LedgerTypeOK
  <1>1. CASE UNCHANGED log
    BY <1>0, <1>1
  <1>2. ASSUME NEW a \in Authors, NEW k \in Keys, NEW r \in Requests, Apply(a, k, r),
               r.op \in FindingOps
        PROVE  /\ Len(log') = Len(log) + 1 /\ DOMAIN log' = 1..(Len(log) + 1)
               /\ \A n \in 1..Len(log) : log'[n] = log[n]
    BY <1>2, FindingAppended
  <1>3. ASSUME NEW a \in Authors, NEW k \in Keys, NEW r \in Requests, Apply(a, k, r),
               r.op \notin FindingOps
        PROVE  /\ Len(log') = Len(log) + 2 /\ DOMAIN log' = 1..(Len(log) + 2)
               /\ \A n \in 1..Len(log) : log'[n] = log[n]
    BY <1>3, InterventionAppended
  <1>4. CASE Log
    BY <1>0, <1>4, EventAppended
  <1> QED
    BY <1>0, <1>1, <1>2, <1>3, <1>4 DEF LedgerNext, Repeat, EndRun, ledgerVars

(* Nothing that is appended later is part of a view at an earlier cutoff.    *)
LEMMA ViewsAreStable ==
  ASSUME LedgerTypeOK, [LedgerNext]_ledgerVars, NEW e \in 0..Len(log)
  PROVE  ActiveMemories(e)' = ActiveMemories(e) /\ ActiveInstructions(e)' = ActiveInstructions(e)
  <1>1. /\ Len(log) \in Nat /\ Len(log') \in Nat /\ Len(log) <= Len(log')
        /\ DOMAIN log = 1..Len(log) /\ DOMAIN log' = 1..Len(log')
        /\ \A n \in 1..Len(log) : log'[n] = log[n]
    BY LogGrows
  <1>2. \A type : Numbers(type, e)' = Numbers(type, e)
    BY <1>1 DEF Numbers
  <1>3. \A type, n : Refers(type, n, e)' = Refers(type, n, e)
    BY <1>1, <1>2 DEF Refers, Numbers
  <1>4. ActiveInstructions(e)' = ActiveInstructions(e)
    BY <1>2, <1>3 DEF ActiveInstructions
  <1>5. Replaced(e)' = Replaced(e)
    BY <1>1 DEF Replaced, Numbers
  <1>6. {log'[n].ref : n \in Numbers("deactivate", e)'} = {log[n].ref : n \in Numbers("deactivate", e)}
    BY <1>1 DEF Numbers
  <1>7. ActiveMemories(e) = {n \in Numbers("seed", e) : log[n].request.active}
                              \ ({log[n].ref : n \in Numbers("deactivate", e)} \cup Replaced(e))
    BY <1>1 DEF ActiveMemories, Inactive, Numbers
  <1>8. ActiveMemories(e)' = {n \in Numbers("seed", e)' : log'[n].request.active}
                               \ ({log'[n].ref : n \in Numbers("deactivate", e)'} \cup Replaced(e)')
    BY <1>1 DEF ActiveMemories, Inactive, Numbers
  <1>9. {n \in Numbers("seed", e)' : log'[n].request.active}
          = {n \in Numbers("seed", e) : log[n].request.active}
    BY <1>1 DEF Numbers
  <1>10. ActiveMemories(e)' = ActiveMemories(e)
    BY <1>5, <1>6, <1>7, <1>8, <1>9
  <1> QED BY <1>4, <1>10

(* What was in force at a cutoff stays what a later reader of it sees        *)
(* (active_instructions, inactive_memory_ids).                               *)
THEOREM HistoryStays == LedgerSpec => HistoryIsStable
  <1>1. ASSUME LedgerInv, [LedgerNext]_ledgerVars
        PROVE  [\A e \in 0..Len(log) : /\ ActiveMemories(e)' = ActiveMemories(e)
                                       /\ ActiveInstructions(e)' = ActiveInstructions(e)]_ledgerVars
    BY <1>1, ViewsAreStable DEF LedgerInv
  <1> QED BY <1>1, LedgerInvariant, PTL DEF LedgerSpec, HistoryIsStable

-----------------------------------------------------------------------------
(* The configuration *)

(* Among the configurations before a cutoff there is a latest one.           *)
HasLatest ==
  \A e \in 0..Len(log) :
    \/ Numbers("configure", e) = {}
    \/ \E m \in Numbers("configure", e) : \A l \in Numbers("configure", e) : l <= m

(* The configurations that changed the persona. *)
Changes == {n \in Numbers("configure", Len(log)) : log[n].request.persona # PersonaBefore(n)}

ConfigurationInv == LedgerTypeOK /\ HasLatest /\ ConfiguredByLog

LEMMA ConfiguredIs ==
  ConfiguredByLog <=> configured = [persona |-> PersonaBefore(Len(log) + 1),
                                    version |-> 1 + Cardinality(Changes)]
  BY DEF ConfiguredByLog, Changes

(* What was the participant's persona before an entry does not change.       *)
LEMMA PersonasStay ==
  ASSUME LedgerTypeOK, HasLatest, [LedgerNext]_ledgerVars
  PROVE  /\ \A e \in 0..Len(log) : Numbers("configure", e)' = Numbers("configure", e)
         /\ \A n \in 1..(Len(log) + 1) : PersonaBefore(n)' = PersonaBefore(n)
  <1>1. /\ Len(log) \in Nat /\ Len(log') \in Nat /\ Len(log) <= Len(log')
        /\ DOMAIN log = 1..Len(log) /\ DOMAIN log' = 1..Len(log')
        /\ \A n \in 1..Len(log) : log'[n] = log[n]
    BY LogGrows
  <1>2. \A e \in 0..Len(log) : Numbers("configure", e)' = Numbers("configure", e)
    BY <1>1 DEF Numbers
  <1>3. ASSUME NEW n \in 1..(Len(log) + 1) PROVE PersonaBefore(n)' = PersonaBefore(n)
    <2> DEFINE S == Numbers("configure", n - 1)
               latest == CHOOSE m \in S : \A l \in S : l <= m
    <2>1. n - 1 \in 0..Len(log)
      BY <1>1
    <2>2. Numbers("configure", n - 1)' = S
      BY <1>2, <2>1
    <2>3. CASE S = {}
      BY <2>2, <2>3 DEF PersonaBefore
    <2>4. CASE S # {}
      <3>1. \E m \in S : \A l \in S : l <= m
        BY <2>1, <2>4 DEF HasLatest
      <3>2. latest \in S
        BY <3>1
      <3>3. latest \in 1..Len(log)
        BY <1>1, <3>2 DEF Numbers
      <3>4. log'[latest] = log[latest]
        BY <1>1, <3>3
      <3>5. PersonaBefore(n) = log[latest].request.persona
        BY <2>4 DEF PersonaBefore
      <3>6. PersonaBefore(n)' = log'[latest].request.persona
        <4> HIDE DEF S
        <4>1. PersonaBefore(n)' =
                LET T == Numbers("configure", n - 1)'
                IN  IF T = {} THEN FirstPersona
                    ELSE log'[CHOOSE m \in T : \A l \in T : l <= m].request.persona
          BY DEF PersonaBefore
        <4> QED BY <2>2, <2>4, <4>1
      <3> QED BY <3>4, <3>5, <3>6
    <2> QED BY <2>3, <2>4
  <1> QED BY <1>2, <1>3

(* A step without a configuration. *)
LEMMA OtherStepKeepsConfiguration ==
  ASSUME ConfigurationInv, [LedgerNext]_ledgerVars, configured' = configured,
         \A n \in (Len(log) + 1)..Len(log') : log'[n].type # "configure",
         LedgerTypeOK'
  PROVE  ConfigurationInv'
  <1> USE DEF ConfigurationInv
  <1>1. /\ Len(log) \in Nat /\ Len(log') \in Nat /\ Len(log) <= Len(log')
        /\ DOMAIN log = 1..Len(log) /\ DOMAIN log' = 1..Len(log')
        /\ \A n \in 1..Len(log) : log'[n] = log[n]
    BY LogGrows
  <1>n. PICK N \in Nat, M \in Nat : N = Len(log) /\ M = Len(log')
    BY <1>1
  <1>m. /\ N <= M /\ DOMAIN log = 1..N /\ DOMAIN log' = 1..M
        /\ \A n \in 1..N : log'[n] = log[n]
    BY <1>1, <1>n
  <1>2. /\ \A e \in 0..N : Numbers("configure", e)' = Numbers("configure", e)
        /\ \A n \in 1..(N + 1) : PersonaBefore(n)' = PersonaBefore(n)
    BY <1>n, PersonasStay
  <1>3. \A e \in N..M : Numbers("configure", e)' = Numbers("configure", N)
    BY <1>m, <1>n DEF Numbers
  <1>4. HasLatest'
    <2> SUFFICES ASSUME NEW e \in 0..M
                 PROVE  \/ Numbers("configure", e)' = {}
                        \/ \E m \in Numbers("configure", e)' :
                             \A l \in Numbers("configure", e)' : l <= m
      BY <1>n DEF HasLatest
    <2>1. PICK d \in 0..N : Numbers("configure", e)' = Numbers("configure", d)
      <3>1. CASE e <= N
        BY <1>m, <1>2, <3>1
      <3>2. CASE e > N
        BY <1>m, <1>3, <3>2
      <3> QED BY <1>m, <3>1, <3>2
    <2> QED BY <1>n, <2>1 DEF HasLatest
  <1>5. PersonaBefore(N + 1) = PersonaBefore(M + 1)'
    <2> DEFINE S == Numbers("configure", N)
    <2>1. Numbers("configure", (M + 1) - 1)' = S
      <3>1. (M + 1) - 1 = M
        BY <1>m
      <3> QED BY <1>m, <1>3, <3>1
    <2>2. Numbers("configure", (N + 1) - 1) = S
      <3>1. (N + 1) - 1 = N
        BY <1>m
      <3> QED BY <3>1
    <2>3. CASE S = {}
      BY <2>1, <2>2, <2>3 DEF PersonaBefore
    <2>4. CASE S # {}
      <3> DEFINE latest == CHOOSE m \in S : \A l \in S : l <= m
      <3>1. \E m \in S : \A l \in S : l <= m
        BY <1>n, <2>4 DEF HasLatest
      <3>2. latest \in S
        BY <3>1
      <3>3. log'[latest] = log[latest]
        BY <1>m, <3>2 DEF Numbers
      <3> HIDE DEF S
      <3>4. PersonaBefore(N + 1) = log[latest].request.persona
        BY <2>2, <2>4 DEF PersonaBefore
      <3>5. PersonaBefore(M + 1)' = log'[latest].request.persona
        <4>1. PersonaBefore(M + 1)' =
                LET T == Numbers("configure", (M + 1) - 1)'
                IN  IF T = {} THEN FirstPersona
                    ELSE log'[CHOOSE m \in T : \A l \in T : l <= m].request.persona
          BY DEF PersonaBefore
        <4> QED BY <2>1, <2>4, <4>1
      <3> QED BY <3>3, <3>4, <3>5
    <2> QED BY <2>3, <2>4
  <1>6. Changes' = Changes
    <2>1. \A n \in Numbers("configure", N) : n \in 1..N
      BY <1>m DEF Numbers
    <2>2. Numbers("configure", M)' = Numbers("configure", N)
      BY <1>m, <1>3
    <2>3. Changes' = {n \in Numbers("configure", M)' :
                        log'[n].request.persona # PersonaBefore(n)'}
      BY <1>n DEF Changes, Numbers
    <2>4. \A n \in 1..N : PersonaBefore(n)' = PersonaBefore(n) /\ log'[n] = log[n]
      BY <1>m, <1>2
    <2>5. Changes = {n \in Numbers("configure", N) : log[n].request.persona # PersonaBefore(n)}
      BY <1>n DEF Changes
    <2> QED BY <2>1, <2>2, <2>3, <2>4, <2>5
  <1>7. ConfiguredByLog'
    <2>1. ConfiguredByLog' <=> configured' = [persona |-> PersonaBefore(M + 1)',
                                              version |-> 1 + Cardinality(Changes')]
      BY <1>n DEF ConfiguredByLog, Changes, PersonaBefore
    <2> QED BY <1>n, <1>5, <1>6, <2>1, ConfiguredIs
  <1> QED BY <1>4, <1>7

(* A configuration is the latest one, and counts when it changes something.  *)
LEMMA ConfigurationStep ==
  ASSUME ConfigurationInv, LedgerTypeOK', NEW a \in Authors, NEW k \in Keys,
         NEW r \in Requests, Apply(a, k, r), r.op = "configure"
  PROVE  ConfigurationInv'
  <1> USE DEF ConfigurationInv
  <1>n. PICK N \in Nat, M \in Nat : N = Len(log) /\ M = Len(log')
    BY DEF LedgerTypeOK
  <1> DEFINE S == Numbers("configure", N)
  <1>1. /\ DOMAIN log = 1..N /\ M = N + 2
        /\ DOMAIN log' = 1..(N + 2)
        /\ \A n \in 1..N : log'[n] = log[n]
        /\ log'[N + 1].type = "configure" /\ log'[N + 1].request = r
        /\ log'[N + 2].type = "record"
    <2>1. r.op \notin FindingOps
      BY DEF FindingOps
    <2>2. LET L == Len(log) IN
          /\ L \in Nat /\ DOMAIN log = 1..L /\ Len(log') = L + 2 /\ DOMAIN log' = 1..(L + 2)
          /\ \A n \in 1..L : log'[n] = log[n]
          /\ log'[L + 1].type = "configure" /\ log'[L + 1].request = r
          /\ log'[L + 2].type = "record"
      BY <2>1, WhatIsAppended
    <2> QED BY <1>n, <2>2
  <1>0. [LedgerNext]_ledgerVars
    BY DEF LedgerNext
  <1>2. /\ \A e \in 0..N : Numbers("configure", e)' = Numbers("configure", e)
        /\ \A n \in 1..(N + 1) : PersonaBefore(n)' = PersonaBefore(n)
    BY <1>0, <1>n, PersonasStay
  <1>3. \A e \in (N + 1)..(N + 2) : Numbers("configure", e)' = S \cup {N + 1}
    BY <1>1 DEF Numbers
  <1>4. S \subseteq 1..N
    BY <1>1 DEF Numbers
  <1>5. HasLatest'
    <2> SUFFICES ASSUME NEW e \in 0..(N + 2)
                 PROVE  \/ Numbers("configure", e)' = {}
                        \/ \E m \in Numbers("configure", e)' :
                             \A l \in Numbers("configure", e)' : l <= m
      BY <1>n, <1>1 DEF HasLatest
    <2>1. CASE e <= N
      BY <1>n, <1>1, <1>2, <2>1 DEF HasLatest
    <2>2. CASE e > N
      <3>1. Numbers("configure", e)' = S \cup {N + 1}
        BY <1>1, <1>3, <2>2
      <3>2. \A l \in S \cup {N + 1} : l <= N + 1
        BY <1>1, <1>4
      <3> QED BY <3>1, <3>2
    <2> QED BY <1>1, <2>1, <2>2
  <1>6. PersonaBefore(M + 1)' = r.persona
    <2> DEFINE T == S \cup {N + 1}
    <2>1. Numbers("configure", (M + 1) - 1)' = T
      <3>1. (M + 1) - 1 = N + 2
        BY <1>1
      <3>2. Numbers("configure", N + 2)' = T
        BY <1>1, <1>3
      <3> QED BY <3>1, <3>2
    <2>2. (CHOOSE m \in T : \A l \in T : l <= m) = N + 1
      <3>1. N + 1 \in T /\ \A l \in T : l <= N + 1
        BY <1>1, <1>4
      <3>2. \A m \in S : N + 1 > m
        BY <1>4
      <3>3. \A m \in T : (\A l \in T : l <= m) => m = N + 1
        <4> SUFFICES ASSUME NEW m \in S, N + 1 <= m PROVE FALSE
          BY <3>1
        <4> QED BY <1>4, <3>2
      <3> HIDE DEF T
      <3> QED BY <3>1, <3>3
    <2>3. PersonaBefore(M + 1)' =
            LET U == Numbers("configure", (M + 1) - 1)'
            IN  IF U = {} THEN FirstPersona
                ELSE log'[CHOOSE m \in U : \A l \in U : l <= m].request.persona
      BY DEF PersonaBefore
    <2>4. T # {}
      OBVIOUS
    <2> HIDE DEF T
    <2> QED BY <1>1, <2>1, <2>2, <2>3, <2>4
  <1>7. Changes' = IF r.persona = PersonaBefore(N + 1) THEN Changes ELSE Changes \cup {N + 1}
    <2>1. Changes' = {n \in Numbers("configure", M)' :
                        log'[n].request.persona # PersonaBefore(n)'}
      BY <1>n DEF Changes, Numbers
    <2>2. Numbers("configure", M)' = S \cup {N + 1}
      BY <1>1, <1>3
    <2>3. \A n \in S : PersonaBefore(n)' = PersonaBefore(n) /\ log'[n] = log[n]
      BY <1>1, <1>2, <1>4
    <2>4. PersonaBefore(N + 1)' = PersonaBefore(N + 1)
      BY <1>1, <1>2
    <2>5. Changes = {n \in S : log[n].request.persona # PersonaBefore(n)}
      BY <1>n DEF Changes, Numbers
    <2> HIDE DEF S
    <2> QED BY <1>1, <2>1, <2>2, <2>3, <2>4, <2>5
  <1>8. IsFiniteSet(Changes) /\ N + 1 \notin Changes
    <2>1. Changes \subseteq 1..N
      BY <1>n, <1>4 DEF Changes
    <2>2. IsFiniteSet(1..N)
      <3>1. 1 \in Int /\ N \in Int
        OBVIOUS
      <3> QED BY ONLY <3>1, FS_Interval
    <2>3. IsFiniteSet(Changes)
      BY <2>1, <2>2, FS_Subset
    <2>4. N + 1 \notin 1..N
      OBVIOUS
    <2> QED BY <2>1, <2>3, <2>4
  <1>9. Cardinality(Changes') =
          Cardinality(Changes) + (IF r.persona = PersonaBefore(N + 1) THEN 0 ELSE 1)
    <2>1. Cardinality(Changes) \in Nat
      BY <1>8, FS_CardinalityType
    <2>2. Cardinality(Changes \cup {N + 1}) = Cardinality(Changes) + 1
      BY <1>8, FS_AddElement
    <2> QED BY <1>7, <2>1, <2>2
  <1>10. ConfiguredByLog'
    <2>1. configured = [persona |-> PersonaBefore(N + 1), version |-> 1 + Cardinality(Changes)]
      BY <1>n, ConfiguredIs
    <2>2. configured' = Reconfigured(r)
      BY DEF Apply
    <2>3. Cardinality(Changes) \in Nat
      BY <1>8, FS_CardinalityType
    <2>4. configured' = [persona |-> r.persona, version |-> 1 + Cardinality(Changes')]
      BY <1>9, <2>1, <2>2, <2>3 DEF Reconfigured
    <2>5. ConfiguredByLog' <=> configured' = [persona |-> PersonaBefore(M + 1)',
                                              version |-> 1 + Cardinality(Changes')]
      BY <1>n DEF ConfiguredByLog, Changes, PersonaBefore
    <2> QED BY <1>6, <2>4, <2>5
  <1> QED BY <1>5, <1>10

(* Nothing is configured at the beginning. *)
LEMMA ConfigurationStart == LedgerInit => ConfigurationInv
  <1> SUFFICES ASSUME LedgerInit PROVE ConfigurationInv
    OBVIOUS
  <1>1. log = <<>> /\ Len(log) = 0 /\ DOMAIN log = {}
    BY DEF LedgerInit
  <1>2. \A e : Numbers("configure", e) = {}
    BY <1>1 DEF Numbers
  <1>3. PersonaBefore(Len(log) + 1) = FirstPersona
    BY <1>2 DEF PersonaBefore
  <1>4. Changes = {} /\ Cardinality(Changes) = 0
    BY <1>2, FS_EmptySet DEF Changes
  <1>5. ConfiguredByLog
    BY <1>3, <1>4, ConfiguredIs DEF LedgerInit
  <1> QED BY <1>2, <1>5, LedgerStart DEF ConfigurationInv, HasLatest, LedgerInv

(* The participant is configured as the latest configuration in the log      *)
(* says, whatever is repeated (change_configuration).                        *)
THEOREM ConfigurationFollowsLog == LedgerSpec => []ConfiguredByLog
  <1>1. ASSUME LedgerInv, LedgerInv', ConfigurationInv, [LedgerNext]_ledgerVars
        PROVE  ConfigurationInv'
    <2> USE <1>1 DEF LedgerInv
    <2>1. CASE UNCHANGED log /\ UNCHANGED configured
      <3>1. \A n \in (Len(log) + 1)..Len(log') : log'[n].type # "configure"
        BY <2>1 DEF LedgerTypeOK
      <3> QED BY <2>1, <3>1, OtherStepKeepsConfiguration
    <2>2. ASSUME NEW a \in Authors, NEW k \in Keys, NEW r \in Requests, Apply(a, k, r),
                 r.op = "configure"
          PROVE  ConfigurationInv'
      BY <2>2, ConfigurationStep
    <2>3. ASSUME NEW a \in Authors, NEW k \in Keys, NEW r \in Requests, Apply(a, k, r),
                 r.op # "configure"
          PROVE  ConfigurationInv'
      <3>1. configured' = configured
        BY <2>3 DEF Apply
      <3>2. \A n \in (Len(log) + 1)..Len(log') : log'[n].type # "configure"
        <4>1. CASE r.op \in FindingOps
          <5>1. /\ Len(log) \in Nat /\ Len(log') = Len(log) + 1
                /\ log'[Len(log) + 1].type = r.op
            BY <2>3, <4>1, WhatIsAppended
          <5>2. ASSUME NEW n \in (Len(log) + 1)..Len(log') PROVE n = Len(log) + 1
            BY <5>1
          <5> QED BY <2>3, <5>1, <5>2
        <4>2. CASE r.op \notin FindingOps
          <5>1. /\ Len(log) \in Nat /\ Len(log') = Len(log) + 2
                /\ log'[Len(log) + 1].type = r.op /\ log'[Len(log) + 2].type = "record"
            BY <2>3, <4>2, WhatIsAppended
          <5>2. ASSUME NEW n \in (Len(log) + 1)..Len(log')
                PROVE  n = Len(log) + 1 \/ n = Len(log) + 2
            BY <5>1
          <5> QED BY <2>3, <5>1, <5>2
        <4> QED BY <4>1, <4>2
      <3> QED BY <3>1, <3>2, OtherStepKeepsConfiguration
    <2>4. CASE Log
      <3>1. \A n \in (Len(log) + 1)..Len(log') : log'[n].type # "configure"
        BY <2>4, EventAppended DEF OtherEvent
      <3> QED BY <2>4, <3>1, EventAppended, OtherStepKeepsConfiguration
    <2> QED
      BY <2>1, <2>2, <2>3, <2>4 DEF LedgerNext, Repeat, EndRun, ledgerVars
  <1> QED BY <1>1, ConfigurationStart, LedgerInvariant, PTL DEF LedgerSpec, ConfigurationInv
=============================================================================
