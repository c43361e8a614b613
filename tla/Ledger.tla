------------------------------- MODULE Ledger -------------------------------
(***************************************************************************)
(* The human entries of the event log: findings (flags, their resolution,  *)
(* notes) and interventions in a running session (instructions and their   *)
(* revocation, seeded memories, configuration, posts).  Every request      *)
(* carries a key of its author's; a repeated request is answered from the  *)
(* log.  A record's fingerprint stands for the whole request, and the      *)
(* number of an entry for its identity (a memory is named by its seed).    *)
(* All entries concern one session and one of its participants.            *)
(***************************************************************************)
EXTENDS Integers, Sequences, FiniteSets

CONSTANTS
  Authors,       \* operators
  Keys,          \* idempotency keys
  Personas,      \* personas a configuration can give the participant
  FirstPersona,  \* the one of its agent row
  ResearchRun,   \* whether session_type is "research"
  Requests,      \* the requests that are sent
  MaxLog         \* bound: entries of the log

VARIABLES
  log,         \* the events, in the order of their numbers
  ended,       \* whether the run is in a terminal state
  configured   \* config["agent_overrides"]: the persona and its version

ledgerVars == <<log, ended, configured>>

FindingOps      == {"flag", "resolve", "note"}
InterventionOps == {"instruct", "revoke", "seed", "deactivate", "configure", "post"}

\* ref: the flag, instruction or memory a request is about (0: none);
\* active: of a seed; persona: of a configuration.
Request == [op : FindingOps \cup InterventionOps, ref : Nat, active : BOOLEAN,
            persona : Personas]

ASSUME LedgerAssumption ==
  /\ FirstPersona \in Personas /\ ResearchRun \in BOOLEAN
  /\ "none" \notin Authors \cup Keys
  /\ Requests \subseteq Request /\ MaxLog \in Nat

\* "record" is the event research.intervention, whose result is the entry ref.
Entry == [type : FindingOps \cup InterventionOps \cup {"record", "event"},
          author : Authors \cup {"none"}, key : Keys \cup {"none"},
          request : Request, ref : Nat]

NoRequest == [op |-> "note", ref |-> 0, active |-> FALSE, persona |-> FirstPersona]
OtherEvent == [type |-> "event", author |-> "none", key |-> "none",
               request |-> NoRequest, ref |-> 0]

LedgerInit ==
  /\ log = <<>> /\ ended = FALSE
  /\ configured = [persona |-> FirstPersona, version |-> 1]

-----------------------------------------------------------------------------
(* Views *)

Numbers(type, e) == {n \in 1..e : n \in DOMAIN log /\ log[n].type = type}

Refers(type, ref, e) == \E n \in Numbers(type, e) : log[n].ref = ref

\* Mutant of Replaced: a replacement is read without the cutoff.
ReplacedByNow(e) == {log[n].ref : n \in Numbers("seed", Len(log))} \ {0}

Replaced(e) == {log[n].ref : n \in Numbers("seed", e)} \ {0}

\* inactive_memory_ids at a cutoff; later seeds are hidden.
Inactive(e) ==
  {n \in Numbers("seed", Len(log)) : n > e \/ ~log[n].request.active}
    \cup {log[n].ref : n \in Numbers("deactivate", e)} \cup Replaced(e)

ActiveMemories(e) == Numbers("seed", Len(log)) \ Inactive(e)

ActiveInstructions(e) == {n \in Numbers("instruct", e) : ~Refers("revoke", n, e)}

-----------------------------------------------------------------------------
(* Requests *)

Tagged(e, a, k) == e.author = a /\ e.key = k

Carriers(r) == IF r.op \in FindingOps THEN FindingOps ELSE {"record"}

\* Mutant of Prior: only the same request is looked for.
LooksForTheRequest(a, k, r) ==
  {n \in DOMAIN log : /\ log[n].type \in Carriers(r) /\ Tagged(log[n], a, k)
                      /\ log[n].request = r}

\* _prior, in findings.py and in interventions.py
Prior(a, k, r) ==
  {n \in DOMAIN log : log[n].type \in Carriers(r) /\ Tagged(log[n], a, k)}

Answered(a, k, r) ==
  \E n \in Prior(a, k, r) : log[n].request = r /\ \A m \in Prior(a, k, r) : n <= m

\* Mutant of Settled: a flag may be resolved again.
NeverSettled(type, ref) == type # "resolve" /\ Refers(type, ref, Len(log))

Settled(type, ref) == Refers(type, ref, Len(log))

Is(type, ref) == ref \in Numbers(type, Len(log))

Acceptable(r) ==
  CASE r.op = "resolve"    -> Is("flag", r.ref) /\ ~Settled("resolve", r.ref)
    [] r.op = "revoke"     -> Is("instruct", r.ref) /\ ~Settled("revoke", r.ref)
    [] r.op = "seed"       -> r.ref = 0 \/ Is("seed", r.ref)
    [] r.op = "deactivate" -> Is("seed", r.ref) /\ r.ref \notin Inactive(Len(log))
    [] r.op = "post"       -> ResearchRun
    [] OTHER               -> TRUE

\* Findings are accepted after the end of a run, interventions are not.
Accepted(r) == Acceptable(r) /\ (r.op \in FindingOps \/ ~ended)

\* Mutant of Entries: the record has the number of its own event as the result.
RecordNamesItself(a, k, r) ==
  IF r.op \in FindingOps
  THEN <<[type |-> r.op, author |-> a, key |-> k, request |-> r, ref |-> r.ref]>>
  ELSE <<[type |-> r.op, author |-> a, key |-> "none", request |-> r, ref |-> r.ref],
         [type |-> "record", author |-> a, key |-> k, request |-> r,
          ref |-> Len(log) + 2]>>

\* A finding carries its key itself; an intervention is followed by a record.
Entries(a, k, r) ==
  IF r.op \in FindingOps
  THEN <<[type |-> r.op, author |-> a, key |-> k, request |-> r, ref |-> r.ref]>>
  ELSE <<[type |-> r.op, author |-> a, key |-> "none", request |-> r, ref |-> r.ref],
         [type |-> "record", author |-> a, key |-> k, request |-> r,
          ref |-> Len(log) + 1]>>

Reconfigured(r) ==
  [persona |-> r.persona,
   version |-> configured.version + (IF r.persona = configured.persona THEN 0 ELSE 1)]

\* A new request, in one transaction with its record.
Apply(a, k, r) ==
  /\ Prior(a, k, r) = {} /\ Accepted(r)
  /\ Len(log) + Len(Entries(a, k, r)) <= MaxLog
  /\ log' = log \o Entries(a, k, r)
  /\ configured' = IF r.op = "configure" THEN Reconfigured(r) ELSE configured
  /\ UNCHANGED ended

\* Mutant of Repeat: a repeated configuration is applied before the key is looked up.
RepeatsChange(a, k, r) ==
  /\ Answered(a, k, r)
  /\ configured' = IF r.op = "configure" THEN Reconfigured(r) ELSE configured
  /\ UNCHANGED <<log, ended>>

\* A repeated request changes nothing, also after the end of the run.
Repeat(a, k, r) == Answered(a, k, r) /\ UNCHANGED ledgerVars

\* Everything else is refused, and the transaction rolled back.

\* Other events of the log: of the engine, or human.action (audit_human_action).
Log ==
  /\ Len(log) < MaxLog
  /\ log' = Append(log, OtherEvent) /\ UNCHANGED <<ended, configured>>

EndRun == ~ended /\ ended' = TRUE /\ UNCHANGED <<log, configured>>

LedgerNext ==
  \/ \E a \in Authors, k \in Keys, r \in Requests : Apply(a, k, r) \/ Repeat(a, k, r)
  \/ Log \/ EndRun

LedgerSpec == LedgerInit /\ [][LedgerNext]_ledgerVars

-----------------------------------------------------------------------------
(* Properties *)

(* The log and the configuration have the types of the rows; a record       *)
(* follows the intervention that is its result, so that a repeated request  *)
(* is answered with its own effect (_record).                               *)
Recorded ==
  \A n \in DOMAIN log : log[n].type = "record" =>
    LET effect == log[n].ref
    IN  /\ effect = n - 1 /\ effect \in DOMAIN log
        /\ log[effect].type = log[n].request.op
        /\ log[effect].author = log[n].author /\ log[effect].request = log[n].request
LedgerTypeOK ==
  /\ log \in Seq(Entry)
  /\ ended \in BOOLEAN
  /\ configured \in [persona : Personas, version : Nat]
  /\ Recorded

(* One effect per request: no operator's key has two findings, or two       *)
(* interventions, whatever is repeated or sent again with another content   *)
(* (findings._prior, interventions._prior).                                 *)
OneEffectPerKey ==
  \A m, n \in DOMAIN log :
    /\ log[m].key # "none" /\ Tagged(log[n], log[m].author, log[m].key)
    /\ log[n].type \in Carriers(log[m].request)
    => m = n

(* Every flag is resolved, every instruction revoked and every memory       *)
(* deactivated at most once and after it was made, by whichever operators.  *)
SettledOnce ==
  \A m, n \in DOMAIN log :
    /\ log[m].type \in {"resolve", "revoke", "deactivate"}
    /\ log[n].type = log[m].type /\ log[n].ref = log[m].ref
    => m = n /\ log[m].ref \in 1..(m - 1)

(* The participant is configured as the latest configuration in the log     *)
(* says, and its persona's version counts the changes: a repeated request   *)
(* does not undo a later one (change_configuration).                        *)
PersonaBefore(n) ==
  LET S == Numbers("configure", n - 1)
  IN  IF S = {} THEN FirstPersona
      ELSE log[CHOOSE m \in S : \A l \in S : l <= m].request.persona
ConfiguredByLog ==
  LET changes == {n \in Numbers("configure", Len(log)) :
                    log[n].request.persona # PersonaBefore(n)}
  IN  configured = [persona |-> PersonaBefore(Len(log) + 1),
                    version |-> 1 + Cardinality(changes)]

(* History is stable: what was in force for the participant at a cutoff     *)
(* stays what a later reader of that cutoff sees (active_instructions,      *)
(* inactive_memory_ids with at_event_id).                                   *)
HistoryIsStable ==
  [][\A e \in 0..Len(log) : /\ ActiveMemories(e)' = ActiveMemories(e)
                            /\ ActiveInstructions(e)' = ActiveInstructions(e)]_ledgerVars
=============================================================================
