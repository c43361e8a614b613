----------------------------- MODULE LeaseProofs -----------------------------
(***************************************************************************)
(* Theorems about the leases of stimuli: who holds them, what a completed  *)
(* stimulus has left behind, and what a stimulus queues after itself.      *)
(***************************************************************************)
EXTENDS DeliveryProofs

-----------------------------------------------------------------------------
(* One task at a time is inside _step_locked.  (OneAtATime says less: a task *)
(* that waits for the model is suspended, but keeps the run lock.)  A worker *)
(* that fails while it waits for the lock is outside.                       *)

InStep == {"claim", "prepare", "turn", "call", "await", "backoff", "record", "finish",
           "requeue", "release", "yield", "complete", "advance", "settle", "abort",
           "budget", "rest"}

OneInStep == \A j, k \in Tasks :
  j # k => task[j].pc \notin InStep \/ task[k].pc \notin InStep

\* A task is left as it is, or started: it waits for the lock.
Untouched(old, new) == new = old \/ (old.pc = "off" /\ new.pc = "top")

Others(k) == \A j \in Tasks \ {k} : Untouched(task[j], task'[j])

LEMMA BecomeOthers ==
  ASSUME TaskTypeOK, NEW k \in Tasks, NEW row, Become(k, row)
  PROVE  Others(k)
BY DEF TaskTypeOK, Become, Others, Untouched

LEMMA NotifiedOthers ==
  ASSUME NEW tk \in [Tasks -> TaskRow], NEW j \in Tasks
  PROVE  Untouched(tk[j], Notified(tk)[j]) /\ Untouched(tk[j], WithRunner(tk)[j])
BY DEF Notified, WithRunner, At, Untouched

LEMMA PostedOthers ==
  ASSUME TypeInv, NEW k \in Tasks, NEW t, Posted(k, t)
  PROVE  /\ Others(k)
         /\ task'[k] = [NextTurn(k) EXCEPT !.made = TRUE]
<1> DEFINE row == [NextTurn(k) EXCEPT !.made = TRUE]
           tk  == [task EXCEPT ![k] = row]
<1>1. row \in TaskRow /\ row.pc = "turn"
  BY NextTurnType DEF TypeInv, TypeOK, TaskRow
<1>2. tk \in [Tasks -> TaskRow] /\ tk[k] = row /\ \A j \in Tasks \ {k} : tk[j] = task[j]
  BY <1>1 DEF TypeInv, TypeOK, TaskTypeOK
<1>3. task' = Notified(tk)
  BY DEF Posted
<1> HIDE DEF tk, row
<1>4. Others(k)
  BY <1>2, <1>3, NotifiedOthers DEF Others
<1>5. Notified(tk)[k] = row
  BY <1>1, <1>2 DEF Notified, WithRunner, Tasks
<1> QED
  BY <1>3, <1>4, <1>5 DEF row

LEMMA StepOthers ==
  ASSUME TypeInv, NEW k \in Tasks, TaskStep(k) \/ Fault(k)
  PROVE  Others(k)
<1> USE DEF TypeInv, TypeOK
<1>1. CASE StepAction(k)
  BY <1>1, BecomeOthers DEF StepAction, Leave, Begin, ClaimEnds, ClaimNothing, Claim,
     PrepareAgain, PrepareSelect, PrepareDefer, Prepared, Goto
<1>2. CASE TurnAction(k)
  BY <1>2, BecomeOthers DEF TurnAction, TurnYield, TurnSkip, TurnStart, CallRefused,
     CallMade, GatewayAnswers, GatewayMisses, BackoffOver, Goto
<1>3. CASE CommitPost(k) \/ CommitThread(k)
  BY <1>3, PostedOthers DEF CommitPost, CommitThread
<1>4. CASE FinishAction(k) /\ ~(CommitPost(k) \/ CommitThread(k))
  BY <1>4, BecomeOthers DEF FinishAction, Record, Lapsed, Defer, FailUncalled,
     FailCalled, Pass, CommitRejected, CommitRaises, Finishing, Goto
<1>5. CASE EndAction(k)
  BY <1>5, BecomeOthers DEF EndAction, Requeue, Release, Yield, TurnsOver, CompleteLost,
     Complete, Advance, Settle, Abort, Budget, Goto
<1>6. CASE Fault(k)
  BY <1>6, BecomeOthers DEF Fault
<1> QED
  BY <1>1, <1>2, <1>3, <1>4, <1>5, <1>6 DEF TaskStep

\* A task that is not inside a step does nothing but take the lock or fail.
LEMMA OutsideTaskStep ==
  ASSUME NEW k \in Tasks, TaskStep(k), task[k].pc \notin InStep
  PROVE  task[k].pc = "top" /\ (Leave(k) \/ Begin(k))
<1>1. Leave(k) \/ Begin(k)
  BY DEF TaskStep, StepAction, TurnAction, FinishAction, EndAction, InStep, Begin,
     ClaimEnds, ClaimNothing, Claim, PrepareAgain, PrepareSelect, PrepareDefer, Prepared,
     TurnYield, TurnSkip, TurnStart, CallRefused, CallMade, GatewayAnswers, GatewayMisses,
     BackoffOver, Record, Lapsed, Defer, FailUncalled, FailCalled, Pass, CommitRejected,
     CommitRaises, CommitPost, CommitThread, Finishing, Requeue, Release, Yield,
     TurnsOver, CompleteLost, Complete, Advance, Settle, Abort, Budget
<1> QED
  BY <1>1 DEF Leave, Begin

LEMMA OutsideStep ==
  ASSUME TypeInv, NEW k \in Tasks, TaskStep(k) \/ Fault(k), task[k].pc \notin InStep
  PROVE  \/ Begin(k)
         \/ /\ task'[k].pc \notin InStep
            /\ UNCHANGED <<runState, boardVars, workVars>>
<1>1. CASE TaskStep(k)
  <2>1. Leave(k) \/ Begin(k)
    BY <1>1, OutsideTaskStep
  <2>2. Leave(k) => task'[k].pc = "off" /\ UNCHANGED <<runState, boardVars, workVars>>
    BY BecomeRow DEF Leave, At, TypeInv, TypeOK, runVars
  <2> QED
    BY <2>1, <2>2 DEF InStep
<1>2. CASE Fault(k)
  <2>1. PICK row \in Raises(k) : Become(k, row)
    BY <1>2 DEF Fault
  <2>2. task[k].pc \in {"top", "fail"}
    BY <1>2, TurnRowType DEF Fault, TaskRow, Locations, InStep
  <2>3. row \in {At("pausing"), At(IF k = "worker" THEN "fail" ELSE "off")}
    BY <2>1, <2>2 DEF Raises
  <2>4. row.pc \notin InStep
    BY <2>3 DEF At, InStep
  <2> QED
    BY <1>2, <2>1, <2>4, BecomeRow DEF Fault, TypeInv, TypeOK
<1> QED
  BY <1>1, <1>2

LEMMA ElsewhereTasks ==
  ASSUME TypeInv, WorkerAction \/ Request \/ Outside, NEW j \in Tasks
  PROVE  task'[j] = task[j] \/ task'[j].pc \in {"off", "top", "pausing"}
<1> USE DEF TypeInv, TypeOK
<1>1. CASE WorkerAction
  <2>0. "worker" \in Tasks
    BY DEF Tasks
  <2>1. task'["worker"].pc \in {"top", "pausing", "off"}
    BY <1>1, <2>0, GotoPc, BecomeRow DEF WorkerAction, Rest, Fail, Pausing, At
  <2>2. Others("worker")
    BY <1>1, <2>0, BecomeOthers DEF WorkerAction, Rest, Fail, Pausing, Goto
  <2> QED
    BY <2>1, <2>2 DEF Others, Untouched
<1>2. CASE Start \/ EnsureRunner \/ HumanPost
  <2>1. task \in [Tasks -> TaskRow]
    BY DEF TaskTypeOK
  <2>2. task' = WithRunner(task) \/ task' = Notified(task)
    BY <1>2 DEF Start, EnsureRunner, HumanPost
  <2> QED
    BY <2>1, <2>2, NotifiedOthers DEF Untouched
<1>3. CASE Stop
  <2>1. "worker" \in Tasks /\ Become("worker", At("off"))
    BY <1>3 DEF Stop, Tasks
  <2>2. task'["worker"].pc = "off" /\ Others("worker")
    BY <2>1, BecomeRow, BecomeOthers DEF At
  <2> QED
    BY <2>2 DEF Others, Untouched
<1>4. CASE RequestStep
  <2>1. "stepper" \in Tasks /\ Goto("stepper", "top")
    BY <1>4 DEF RequestStep, Tasks
  <2>2. task'["stepper"].pc = "top" /\ Others("stepper")
    BY <2>1, GotoPc, BecomeOthers DEF Goto
  <2> QED
    BY <2>2 DEF Others, Untouched
<1>5. CASE Restart
  <2> DEFINE off == [k \in Tasks |-> At("off")]
  <2>1. off \in [Tasks -> TaskRow] /\ off[j].pc = "off"
    BY AtType DEF At, Locations
  <2>2. task' = Notified(off)
    BY <1>5 DEF Restart
  <2> HIDE DEF off
  <2> QED
    BY <2>1, <2>2, NotifiedOthers DEF Untouched
<1>6. CASE UNCHANGED task
  BY <1>6
<1> QED
  BY <1>1, <1>2, <1>3, <1>4, <1>5, <1>6 DEF Request, Pause, HumanSetStatus, HumanWake,
     SetEnabled, Reconfigure, Outside, BudgetExpires, TimePasses

LEMMA OneInStepInductive ==
  ASSUME TypeInv, OneInStep, [Next]_vars
  PROVE  OneInStep'
<1>1. CASE UNCHANGED vars
  BY <1>1 DEF vars, OneInStep
<1>2. CASE WorkerAction \/ Request \/ Outside
  BY <1>2, ElsewhereTasks DEF OneInStep, InStep
<1>3. ASSUME NEW k \in Tasks, TaskStep(k) \/ Fault(k)
      PROVE  OneInStep'
  <2>1. \A j \in Tasks \ {k} : task'[j].pc \in InStep => task'[j] = task[j]
    BY <1>3, StepOthers DEF Others, Untouched, InStep
  <2>2. CASE task[k].pc \in InStep
    BY <2>1, <2>2 DEF OneInStep
  <2>3. CASE task[k].pc \notin InStep
    <3>1. Begin(k) => \A j \in Tasks : task[j].pc \notin InStep
      BY DEF Begin, LockFree, InStep
    <3> QED
      BY <1>3, <2>1, <2>3, <3>1, OutsideStep DEF OneInStep
  <2> QED
    BY <2>2, <2>3
<1> QED
  BY <1>1, <1>2, <1>3 DEF Next

-----------------------------------------------------------------------------
(* What happens to a lease while its task waits.  No other actor gives a     *)
(* lease away or touches the turns of a stimulus that stays leased.          *)

LeaseKept(s) == stim'[s].state \in Leased => stim'[s] = stim[s] /\ turn'[s] = turn[s]

LEMMA QueuedRow ==
  ASSUME NEW t, NEW kind, NEW target, NEW depth, NEW attempted, NEW root
  PROVE  NewStimulus(t, kind, target, depth, attempted, root).state = "pending"
BY DEF NewStimulus

LEMMA RecoverKeeps ==
  ASSUME TypeInv, NEW S, Recover(S), NEW s \in Stimuli
  PROVE  LeaseKept(s)
<1>1. stim'[s] = IF s \in S THEN Returned(stim[s]) ELSE stim[s]
  BY DEF Recover, RecoverStimuli
<1>2. Returned(stim[s]).state \in {"failed", "pending"}
  BY DEF Returned, TypeInv, TypeOK, WorkTypeOK, Row
<1>3. s \notin S => turn'[s] = [a \in Agents |-> turn[s][a]]
  BY DEF Recover, RecoverTurns
<1>4. s \notin S => turn'[s] = turn[s]
  BY <1>3 DEF TypeInv, TypeOK, WorkTypeOK
<1> QED
  BY <1>1, <1>2, <1>4 DEF LeaseKept, Leased

LEMMA EndRunKeeps ==
  ASSUME NEW st \in [Stimuli -> Row], NEW state, NEW tn, EndRun(state, st, tn),
         NEW s \in Stimuli
  PROVE  stim'[s].state \notin Leased
<1>1. st[s].state \in Open => [st[s] EXCEPT !.state = "cancelled", !.token = NoToken].state
                                = "cancelled"
  BY DEF Row
<1> QED
  BY <1>1 DEF EndRun, CancelOpen, Open, Leased

LEMMA QueuedKeeps ==
  ASSUME TypeInv, NEW r \in Stimuli, NEW row, row.state \notin Leased,
         stim' = [stim EXCEPT ![r] = row], UNCHANGED turn, NEW s \in Stimuli
  PROVE  LeaseKept(s)
BY DEF LeaseKept, TypeInv, TypeOK, WorkTypeOK

LEMMA ElsewhereKeeps ==
  ASSUME TypeInv, WorkerAction \/ Request \/ Outside, NEW s \in Stimuli
  PROVE  LeaseKept(s)
<1> USE DEF workVars
<1>0. UNCHANGED <<stim, turn>> => LeaseKept(s)
  BY DEF LeaseKept
<1>1. CASE Fail \/ Restart
  BY <1>1, RecoverKeeps DEF Fail, Restart
<1>2. CASE Stop
  <2>1. stim \in [Stimuli -> Row]
    BY DEF TypeInv, TypeOK, WorkTypeOK
  <2> QED
    BY <1>2, <2>1, EndRunKeeps DEF Stop, LeaseKept
<1>3. CASE Rest \/ HumanPost \/ HumanWake
  <2>1. UNCHANGED turn /\ (stim' = stim \/ \E r \in Stimuli : \E t, kind, target :
          stim' = [stim EXCEPT ![r] = NewStimulus(t, kind, target, 0, {}, r)])
    <3>1. CASE HumanPost
      <4>1. PICK t \in Threads, r \in FreeRow, p \in Plans("human_post", Enabled) :
              stim' = [stim EXCEPT ![r] = NewStimulus(t, p[1], p[2], 0, {}, r)]
        BY <3>1 DEF HumanPost
      <4>2. r \in Stimuli
        BY DEF FreeRow
      <4> QED
        BY <3>1, <4>1, <4>2 DEF HumanPost
    <3>2. CASE HumanWake
      BY <3>2 DEF HumanWake, FreeRow
    <3>3. CASE Rest
      <4>1. stim' = stim \/ \E t \in Threads, r \in Stimuli :
              stim' = [stim EXCEPT ![r] = NewStimulus(t, "idle_revisit", NoAgent, 0, {}, r)]
        BY <3>3 DEF Rest, Quiet, FreeRow
      <4> QED
        BY <3>3, <4>1 DEF Rest
    <3> QED
      BY <1>3, <3>1, <3>2, <3>3
  <2> QED
    BY <1>0, <2>1, QueuedRow, QueuedKeeps DEF Leased
<1>4. CASE TimePasses
  <2>1. PICK r \in Stimuli : /\ stim[r].state = "pending"
                             /\ stim' = [stim EXCEPT ![r].delayed = FALSE]
    BY <1>4 DEF TimePasses
  <2>2. [stim[r] EXCEPT !.delayed = FALSE].state = "pending"
    BY <2>1 DEF TypeInv, TypeOK, WorkTypeOK, Row
  <2>3. stim' = [stim EXCEPT ![r] = [stim[r] EXCEPT !.delayed = FALSE]]
    BY <2>1
  <2> QED
    BY <1>4, <2>2, <2>3, QueuedKeeps DEF Leased, TimePasses
<1> QED
  BY <1>0, <1>1, <1>2, <1>3, <1>4 DEF WorkerAction, Pausing, Request, Start, EnsureRunner,
     Pause, RequestStep, HumanSetStatus, SetEnabled, Reconfigure, Outside, BudgetExpires

(* A task that is inside a step after a step of somebody else has not moved, *)
(* and holds the lease it held or none.                                      *)
LEMMA NotMine ==
  ASSUME TypeInv, OneInStep, [Next]_vars, NEW j \in Tasks, ~(TaskStep(j) \/ Fault(j)),
         task'[j].pc \in InStep
  PROVE  /\ task'[j] = task[j]
         /\ \A s \in Stimuli : LeaseKept(s)
<1>1. CASE UNCHANGED vars
  BY <1>1 DEF vars, workVars, LeaseKept
<1>2. CASE WorkerAction \/ Request \/ Outside
  BY <1>2, ElsewhereTasks, ElsewhereKeeps DEF InStep
<1>3. ASSUME NEW k \in Tasks, TaskStep(k) \/ Fault(k)
      PROVE  task'[j] = task[j] /\ \A s \in Stimuli : LeaseKept(s)
  <2>1. j # k
    BY <1>3
  <2>2. task'[j] = task[j]
    BY <1>3, <2>1, StepOthers DEF Others, Untouched, InStep
  <2>3. task[k].pc \notin InStep
    BY <2>1, <2>2 DEF OneInStep
  <2>4. ~Begin(k)
    BY <2>1, <2>2 DEF Begin, LockFree, InStep
  <2> QED
    BY <1>3, <2>2, <2>3, <2>4, OutsideStep DEF workVars, LeaseKept
<1> QED
  BY <1>1, <1>2, <1>3 DEF Next

-----------------------------------------------------------------------------
(* The turns of a lease.  As long as a task holds its lease, the turns of    *)
(* the stimulus that can still be called are those it has yet to take, and   *)
(* the one it is taking, which is CALLING under the token of that call.      *)

Calls     == {"call", "await", "backoff", "record", "finish"}
Holding   == Calls \cup {"turn", "complete"}

OpenTurns(s) == {a \in Agents : turn[s][a].state \in Unfinished}
Working(k) ==
  task[k].todo \cup (IF task[k].pc \in Calls THEN {task[k].agent} ELSE {})

HoldsTurns(k) ==
  OwnsClaim(k) /\ task[k].pc \in Holding =>
    /\ OpenTurns(Stim(k)) = Working(k)
    /\ task[k].pc \in Calls => OwnsTurn(k) /\ Agent(k) \notin task[k].todo
    /\ task[k].pc = "complete" => task[k].todo = {}

PrepareOwns ==
  \A k \in Tasks : task[k].pc = "prepare" => OwnsClaim(k) /\ task[k].todo = {}

LeaseInv == OneInStep /\ PrepareOwns /\ \A k \in Tasks : HoldsTurns(k)

\* The locals that name the turn and the lease of task k are those of row.
SameCall(k, row) ==
  /\ task[k].stim = row.stim /\ task[k].token = row.token /\ task[k].todo = row.todo
  /\ task[k].agent = row.agent /\ task[k].call = row.call

LEMMA StaysInCall ==
  ASSUME TypeInv, NEW k \in Tasks, HoldsTurns(k), task[k].pc \in Calls,
         NEW row, task'[k] = row, SameCall(k, row), row.pc \in Calls,
         UNCHANGED workVars
  PROVE  HoldsTurns(k)'
BY DEF HoldsTurns, SameCall, OwnsClaim, OwnsTurn, Stim, Agent, Working, OpenTurns,
   Holding, Calls, workVars

LEMMA LeavesHolding ==
  ASSUME NEW k \in Tasks, task'[k].pc \notin Holding
  PROVE  HoldsTurns(k)'
BY DEF HoldsTurns

\* The turn that was being taken is over, and the next one is looked for.
LEMMA TurnCloses ==
  ASSUME TypeInv, NEW k \in Tasks, HoldsTurns(k), task[k].pc \in Calls,
         NEW row, task'[k] = row, row.pc = "turn", row.stim = task[k].stim,
         row.token = task[k].token, row.todo = task[k].todo,
         OwnsClaim(k)' => OwnsClaim(k),
         OwnsClaim(k) => /\ turn'[Stim(k)][Agent(k)].state \notin Unfinished
                         /\ \A b \in Agents \ {Agent(k)} :
                              turn'[Stim(k)][b].state = turn[Stim(k)][b].state
  PROVE  HoldsTurns(k)'
<1>1. SUFFICES ASSUME OwnsClaim(k)'
               PROVE  OpenTurns(Stim(k))' = Working(k)'
  BY DEF HoldsTurns, Calls
<1>2. OpenTurns(Stim(k)) = task[k].todo \cup {Agent(k)} /\ Agent(k) \notin task[k].todo
  BY <1>1 DEF HoldsTurns, Holding, Working, Agent
<1>3. Working(k)' = task[k].todo /\ Stim(k)' = Stim(k)
  BY DEF Working, Calls, Stim
<1>4. Agent(k) \in Agents
  BY <1>2 DEF OpenTurns
<1> QED
  BY <1>1, <1>2, <1>3, <1>4 DEF OpenTurns

LEMMA FinishedRows ==
  ASSUME TypeInv, NEW s \in Stimuli, NEW a \in Agents, NEW state \in TurnStates
  PROVE  /\ Finished(s, a, state)[s][a].state = state
         /\ \A b \in Agents \ {a} : Finished(s, a, state)[s][b] = turn[s][b]
         /\ \A r \in Stimuli \ {s} : Finished(s, a, state)[r] = turn[r]
<1>1. turn \in [Stimuli -> [Agents -> TurnRow]] /\ turn[s] \in [Agents -> TurnRow]
  BY DEF TypeInv, TypeOK, WorkTypeOK
<1> DEFINE row == [turn[s][a] EXCEPT !.state = state, !.token = NoToken]
<1>2. turn[s][a] \in TurnRow
  BY <1>1
<1>3. row.state = state
  BY <1>2 DEF TurnRow
<1>4. Finished(s, a, state) = [turn EXCEPT ![s] = [turn[s] EXCEPT ![a] = row]]
  BY <1>1 DEF Finished
<1> HIDE DEF row
<1> QED
  BY <1>1, <1>3, <1>4

LEMMA CallsAgent ==
  ASSUME TypeInv, NEW k \in Tasks, task[k].pc \in Calls
  PROVE  Stim(k) \in Stimuli /\ Agent(k) \in Agents /\ task[k] \in TaskRow
BY TurnRowType DEF Calls, InTurn

LEMMA NextTurnRow ==
  ASSUME TypeInv, NEW k \in Tasks
  PROVE  /\ NextTurn(k) \in TaskRow
         /\ NextTurn(k).pc = "turn" /\ NextTurn(k).stim = task[k].stim
         /\ NextTurn(k).token = task[k].token /\ NextTurn(k).todo = task[k].todo
         /\ NextTurn(k).once = task[k].once
BY NextTurnType DEF NextTurn, At, TypeInv, TypeOK

\* The ends of a turn that write one of the final states.
LEMMA FinishCloses ==
  ASSUME TypeInv, NEW k \in Tasks, HoldsTurns(k), Finishing(k),
         NEW state \in {"completed", "passed", "failed"},
         turn' = Finished(Stim(k), Agent(k), state),
         OwnsClaim(k)' => OwnsClaim(k),
         task'[k] = NextTurn(k) \/ task'[k] = [NextTurn(k) EXCEPT !.made = TRUE]
  PROVE  HoldsTurns(k)'
<1>1. Stim(k) \in Stimuli /\ Agent(k) \in Agents /\ task[k].pc \in Calls
  BY CallsAgent DEF Finishing, Calls
<1>2. \E row : /\ task'[k] = row /\ row.pc = "turn" /\ row.stim = task[k].stim
               /\ row.token = task[k].token /\ row.todo = task[k].todo
  BY NextTurnRow DEF TaskRow
<1>3. state \in TurnStates /\ state \notin Unfinished
  BY DEF TurnStates, Unfinished
<1>4. /\ turn'[Stim(k)][Agent(k)].state = state
      /\ \A b \in Agents \ {Agent(k)} : turn'[Stim(k)][b] = turn[Stim(k)][b]
  BY <1>1, <1>3, FinishedRows
<1> QED
  BY <1>1, <1>2, <1>3, <1>4, TurnCloses

LEMMA ConcludedRow ==
  ASSUME NEW row \in TaskRow
  PROVE  /\ Concluded(row).pc \in {"record", "finish"}
         /\ Concluded(row).stim = row.stim /\ Concluded(row).token = row.token
         /\ Concluded(row).todo = row.todo /\ Concluded(row).agent = row.agent
         /\ Concluded(row).call = row.call /\ Concluded(row).called = row.called
         /\ Concluded(row).result = row.result /\ Concluded(row).once = row.once
BY DEF Concluded, TaskRow

LEMMA StaysConcluded ==
  ASSUME TypeInv, NEW k \in Tasks, HoldsTurns(k), task[k].pc \in Calls,
         NEW row \in TaskRow, Become(k, Concluded(row)), SameCall(k, row),
         UNCHANGED workVars
  PROVE  HoldsTurns(k)'
<1>1. task'[k] = Concluded(row)
  BY BecomeRow DEF TypeInv, TypeOK
<1>2. SameCall(k, Concluded(row)) /\ Concluded(row).pc \in Calls
  BY ConcludedRow DEF SameCall, Calls
<1> QED
  BY <1>1, <1>2, StaysInCall

\* What a missed answer may make of the task's row.
LEMMA MissRow ==
  ASSUME TypeInv, NEW k \in Tasks, GatewayMisses(k)
  PROVE  \E row \in TaskRow :
           /\ SameCall(k, row) /\ row.called = task[k].called
           /\ row.result = task[k].result /\ row.once = task[k].once
           /\ \/ Become(k, Concluded(row))
              \/ Become(k, row) /\ row.pc = "backoff"
<1>1. task[k] \in TaskRow /\ task[k].misses + 1 \in Nat
  BY TurnRowType DEF TaskRow
<1>2. PICK again \in BOOLEAN, mark \in Marks :
        LET row == [task[k] EXCEPT !.misses = @ + 1,
                                   !.mark = IF mark = "no" THEN @ ELSE mark]
        IN  Become(k, IF again /\ row.attempt < Retries
                      THEN [row EXCEPT !.pc = "backoff", !.attempt = @ + 1]
                      ELSE Concluded(row))
  BY DEF GatewayMisses
<1> DEFINE row == [task[k] EXCEPT !.misses = @ + 1,
                                  !.mark = IF mark = "no" THEN @ ELSE mark]
           next == [row EXCEPT !.pc = "backoff", !.attempt = @ + 1]
<1>3. row \in TaskRow /\ SameCall(k, row) /\ row.called = task[k].called
        /\ row.result = task[k].result /\ row.once = task[k].once
  BY <1>1 DEF TaskRow, SameCall
<1>4. Become(k, Concluded(row)) \/ (Become(k, next) /\ row.attempt < Retries)
  BY <1>2
<1>5. row.attempt < Retries => next \in TaskRow /\ next.pc = "backoff"
        /\ SameCall(k, next) /\ next.called = row.called
        /\ next.result = row.result /\ next.once = row.once
  <2> HIDE DEF row
  <2>1. ASSUME row.attempt < Retries PROVE row.attempt + 1 \in 0..Retries
    BY <1>3, <2>1, ConstantTypes DEF TaskRow
  <2> QED
    BY <1>3, <2>1 DEF TaskRow, SameCall, Locations
<1> HIDE DEF row, next
<1> QED
  BY <1>3, <1>4, <1>5

LEMMA TurnActionHolds ==
  ASSUME TypeInv, NEW k \in Tasks, HoldsTurns(k), TurnAction(k)
  PROVE  HoldsTurns(k)'
<1> USE DEF TypeInv, TypeOK
<1>0. task[k] \in TaskRow /\ Stim(k) \in Stimuli
  BY TurnRowType
<1>1. CASE TurnYield(k)
  BY <1>1, GotoPc, LeavesHolding DEF TurnYield, Holding, Calls
<1>2. CASE TurnSkip(k)
  <2>1. PICK a \in task[k].todo :
          /\ turn[Stim(k)][a].state \notin Unfinished
          /\ Become(k, [NextTurn(k) EXCEPT !.todo = @ \ {a},
                          !.made = @ \/ turn[Stim(k)][a].state = "completed"])
    BY <1>2 DEF TurnSkip
  <2>2. ~OwnsClaim(k)
    BY <1>2, <2>1 DEF TurnSkip, HoldsTurns, Holding, Working, OpenTurns
  <2>3. task'[k].stim = task[k].stim /\ task'[k].token = task[k].token
    <3> DEFINE next == NextTurn(k)
               made == next.made \/ turn[Stim(k)][a].state = "completed"
    <3>1. task'[k] = [next EXCEPT !.todo = @ \ {a}, !.made = made]
      BY <2>1, BecomeRow
    <3>2. next \in TaskRow /\ next.stim = task[k].stim /\ next.token = task[k].token
      BY NextTurnRow
    <3> HIDE DEF next, made
    <3> QED
      BY <3>1, <3>2 DEF TaskRow
  <2> QED
    BY <1>2, <2>2, <2>3 DEF TurnSkip, workVars, HoldsTurns, OwnsClaim
<1>3. CASE TurnStart(k)
  <2>1. PICK a \in task[k].todo :
          /\ turn[Stim(k)][a].state \in Unfinished
          /\ turn' = [turn EXCEPT ![Stim(k)][a].state = "calling"]
          /\ Become(k, [NextTurn(k) EXCEPT !.pc = "call", !.todo = @ \ {a}, !.agent = a,
                          !.call = turn[Stim(k)][a].token,
                          !.attempt = Min2(turn[Stim(k)][a].tries, Retries)])
    BY <1>3 DEF TurnStart
  <2>2. a \in Agents /\ turn[Stim(k)][a] \in TurnRow /\ turn[Stim(k)] \in [Agents -> TurnRow]
    BY <1>0, <2>1 DEF TaskRow, WorkTypeOK
  <2>3. /\ task'[k].pc = "call" /\ task'[k].stim = task[k].stim
        /\ task'[k].token = task[k].token /\ task'[k].todo = task[k].todo \ {a}
        /\ task'[k].agent = a /\ task'[k].call = turn[Stim(k)][a].token
    <3> DEFINE next == NextTurn(k)
               call == turn[Stim(k)][a].token
               n    == Min2(turn[Stim(k)][a].tries, Retries)
    <3>1. task'[k] = [next EXCEPT !.pc = "call", !.todo = @ \ {a}, !.agent = a,
                                  !.call = call, !.attempt = n]
      BY <2>1, BecomeRow
    <3>2. next \in TaskRow /\ next.stim = task[k].stim /\ next.token = task[k].token
            /\ next.todo = task[k].todo
      BY NextTurnRow
    <3> HIDE DEF next, call, n
    <3>3. /\ task'[k].pc = "call" /\ task'[k].stim = next.stim
          /\ task'[k].token = next.token /\ task'[k].todo = next.todo \ {a}
          /\ task'[k].agent = a /\ task'[k].call = call
      BY <3>1, <3>2 DEF TaskRow
    <3> QED
      BY <3>2, <3>3 DEF call
  <2> DEFINE row == [turn[Stim(k)][a] EXCEPT !.state = "calling"]
  <2>4. row.state = "calling" /\ row.token = turn[Stim(k)][a].token
    BY <2>2 DEF TurnRow
  <2>5. turn' = [turn EXCEPT ![Stim(k)] = [turn[Stim(k)] EXCEPT ![a] = row]]
    BY <1>0, <2>1, <2>2
  <2> HIDE DEF row
  <2>6. /\ turn'[Stim(k)][a] = row
        /\ \A b \in Agents \ {a} : turn'[Stim(k)][b] = turn[Stim(k)][b]
    BY <1>0, <2>2, <2>5 DEF WorkTypeOK
  <2>7. OwnsClaim(k)' => OwnsClaim(k)
    BY <1>3, <2>3 DEF TurnStart, OwnsClaim
  <2>8. OwnsClaim(k) => OpenTurns(Stim(k)) = task[k].todo
    BY <1>3 DEF TurnStart, HoldsTurns, Holding, Calls, Working
  <2>9. OwnsTurn(k)' /\ Agent(k)' \notin task'[k].todo
    BY <2>3, <2>4, <2>6 DEF OwnsTurn, Stim, Agent
  <2>10. OwnsClaim(k) => OpenTurns(Stim(k))' = Working(k)'
    <3>1. Stim(k)' = Stim(k) /\ Working(k)' = task[k].todo
      BY <2>1, <2>3 DEF Stim, Working, Calls
    <3> QED
      BY <2>1, <2>2, <2>4, <2>6, <2>8, <3>1 DEF OpenTurns, Unfinished
  <2> QED
    BY <2>3, <2>7, <2>9, <2>10 DEF HoldsTurns, Holding, Calls
<1>4. CASE CallRefused(k)
  <2>1. PICK result \in Results : Become(k, Concluded([task[k] EXCEPT !.result = result]))
    BY <1>4 DEF CallRefused, Results
  <2>2. [task[k] EXCEPT !.result = result] \in TaskRow
          /\ SameCall(k, [task[k] EXCEPT !.result = result])
    BY <1>0 DEF TaskRow, SameCall
  <2> QED
    BY <1>4, <2>1, <2>2, StaysConcluded DEF CallRefused, Calls
<1>5. CASE CallMade(k)
  <2>1. task'[k] = [task[k] EXCEPT !.pc = "await", !.called = TRUE]
    BY <1>5, BecomeRow DEF CallMade
  <2>2. SameCall(k, task'[k]) /\ task'[k].pc \in Calls
    BY <1>0, <2>1 DEF TaskRow, SameCall, Calls
  <2> QED
    BY <1>5, <2>2, StaysInCall DEF CallMade, Calls
<1>6. CASE GatewayAnswers(k)
  <2>1. PICK result \in Results : Become(k, Concluded([task[k] EXCEPT !.result = result]))
    BY <1>6 DEF GatewayAnswers, Results
  <2>2. [task[k] EXCEPT !.result = result] \in TaskRow
          /\ SameCall(k, [task[k] EXCEPT !.result = result])
    BY <1>0 DEF TaskRow, SameCall
  <2> QED
    BY <1>6, <2>1, <2>2, StaysConcluded DEF GatewayAnswers, Calls
<1>7. CASE GatewayMisses(k)
  <2>1. PICK row \in TaskRow :
          /\ SameCall(k, row)
          /\ \/ Become(k, Concluded(row))
             \/ Become(k, row) /\ row.pc = "backoff"
    BY <1>7, MissRow
  <2>2. CASE Become(k, Concluded(row))
    BY <1>7, <2>1, <2>2, StaysConcluded DEF GatewayMisses, Calls
  <2>3. CASE Become(k, row) /\ row.pc = "backoff"
    BY <1>7, <2>1, <2>3, BecomeRow, StaysInCall DEF GatewayMisses, Calls
  <2> QED
    BY <2>1, <2>2, <2>3
<1>8. CASE BackoffOver(k)
  <2>1. task'[k] = [task[k] EXCEPT !.pc = "call"]
    BY <1>8, BecomeRow DEF BackoffOver, Goto
  <2>2. SameCall(k, task'[k]) /\ task'[k].pc \in Calls
    BY <1>0, <2>1 DEF TaskRow, SameCall, Calls
  <2> QED
    BY <1>8, <2>2, StaysInCall DEF BackoffOver, Calls
<1> QED
  BY <1>1, <1>2, <1>3, <1>4, <1>5, <1>6, <1>7, <1>8 DEF TurnAction

LEMMA FollowUpKeeps ==
  ASSUME TypeInv, NEW k \in Tasks, NEW t, FollowUp(k, t)
  PROVE  stim'[Stim(k)] = stim[Stim(k)] \/ stim'[Stim(k)].state \notin Leased
<1>0. Stim(k) \in Stimuli /\ stim \in [Stimuli -> Row]
  BY TurnRowType DEF TypeInv, TypeOK, WorkTypeOK
<1>1. CASE Closes(k)
  BY <1>0, <1>1 DEF FollowUp, CancelIn
<1>2. CASE ~Closes(k) /\ MayCascade(k)
  <2>1. PICK r \in FreeRow, p \in Plans("agent_post",
               {a \in Agents : enabled[a] /\ (Autonomous \/ a # Agent(k))}) :
          stim' = [stim EXCEPT ![r] =
                     NewStimulus(t, p[1], p[2], stim[Stim(k)].depth + 1, {}, r)]
    BY <1>2 DEF FollowUp
  <2>2. r \in Stimuli
    BY DEF FreeRow
  <2>3. NewStimulus(t, p[1], p[2], stim[Stim(k)].depth + 1, {}, r).state = "pending"
    BY QueuedRow
  <2> QED
    BY <1>0, <2>1, <2>2, <2>3 DEF Leased
<1>3. CASE ~Closes(k) /\ ~MayCascade(k)
  BY <1>3 DEF FollowUp
<1> QED
  BY <1>1, <1>2, <1>3

LEMMA RecordHolds ==
  ASSUME TypeInv, NEW k \in Tasks, HoldsTurns(k), Record(k)
  PROVE  HoldsTurns(k)'
<1> DEFINE s == Stim(k)
           a == Agent(k)
           n == Min2(turn[s][a].tries + task[k].misses, Retries)
           row == [turn[s][a] EXCEPT !.tries = n]
<1>1. s \in Stimuli /\ a \in Agents /\ task[k] \in TaskRow /\ task[k].pc \in Calls
  BY CallsAgent DEF Record, Calls
<1>2. turn[s] \in [Agents -> TurnRow] /\ turn \in [Stimuli -> [Agents -> TurnRow]]
  BY <1>1 DEF TypeInv, TypeOK, WorkTypeOK
<1>3. row.state = turn[s][a].state /\ row.token = turn[s][a].token
  BY <1>1, <1>2 DEF TurnRow
<1>4. turn' = [turn EXCEPT ![s] = [turn[s] EXCEPT ![a] = row]]
  BY <1>1, <1>2 DEF Record
<1>5. /\ task'[k].pc = "finish" /\ SameCall(k, task'[k])
      /\ stim' = stim
  BY <1>1, BecomeRow DEF Record, Goto, TypeInv, TypeOK, TaskRow, SameCall
<1> HIDE DEF s, a, n, row
<1>6. /\ turn'[s][a].state = turn[s][a].state /\ turn'[s][a].token = turn[s][a].token
      /\ \A b \in Agents \ {a} : turn'[s][b] = turn[s][b]
  BY <1>1, <1>2, <1>3, <1>4
<1>7. OwnsClaim(k)' => OwnsClaim(k)
  BY <1>5 DEF OwnsClaim, SameCall
<1>8. Stim(k)' = s /\ Agent(k)' = a
  BY <1>5 DEF Stim, Agent, SameCall, s, a
<1>9. OpenTurns(Stim(k))' = OpenTurns(Stim(k))
  BY <1>6, <1>8 DEF OpenTurns, s
<1>10. Working(k)' = Working(k)
  BY <1>1, <1>5 DEF Working, SameCall, Calls
<1>11. OwnsTurn(k) => OwnsTurn(k)'
  BY <1>5, <1>6, <1>8 DEF OwnsTurn, Stim, Agent, s, a, SameCall
<1> QED
  BY <1>1, <1>5, <1>7, <1>9, <1>10, <1>11
     DEF HoldsTurns, Holding, Calls, SameCall, Agent

LEMMA FinishActionHolds ==
  ASSUME TypeInv, NEW k \in Tasks, HoldsTurns(k), FinishAction(k)
  PROVE  HoldsTurns(k)'
<1> USE DEF TypeInv, TypeOK
<1>0. NextTurn(k).stim = task[k].stim /\ NextTurn(k).token = task[k].token
        /\ [NextTurn(k) EXCEPT !.made = TRUE].stim = task[k].stim
        /\ [NextTurn(k) EXCEPT !.made = TRUE].token = task[k].token
  BY NextTurnRow DEF TaskRow
<1>1. CASE Record(k)
  BY <1>1, RecordHolds
<1>2. CASE Lapsed(k)
  <2>1. ~OwnsClaim(k)
    BY <1>2 DEF Lapsed, HoldsTurns, Holding, Calls
  <2>2. task'[k].stim = task[k].stim /\ task'[k].token = task[k].token
    <3> DEFINE next == NextTurn(k)
               made == next.made \/ /\ task[k].pc = "finish" /\ task[k].result \in Writes
                                    /\ turn[Stim(k)][Agent(k)].state = "completed"
    <3>1. task'[k] = [next EXCEPT !.made = made]
      BY <1>2, BecomeRow DEF Lapsed
    <3>2. next \in TaskRow /\ next.stim = task[k].stim /\ next.token = task[k].token
      BY NextTurnRow
    <3> HIDE DEF next, made
    <3> QED
      BY <3>1, <3>2 DEF TaskRow
  <2> QED
    BY <1>2, <2>1, <2>2 DEF Lapsed, workVars, HoldsTurns, OwnsClaim
<1>3. CASE Defer(k) \/ CommitRaises(k)
  BY <1>3, GotoPc, LeavesHolding DEF Defer, CommitRaises, Holding, Calls
<1>4. CASE FailUncalled(k) \/ Pass(k) \/ CommitRejected(k)
  <2>1. task'[k] = NextTurn(k) /\ stim' = stim /\ Finishing(k)
    BY <1>4, BecomeRow DEF FailUncalled, Pass, CommitRejected
  <2>2. OwnsClaim(k)' => OwnsClaim(k)
    BY <1>0, <2>1 DEF OwnsClaim
  <2> QED
    BY <1>4, <2>1, <2>2, FinishCloses DEF FailUncalled, Pass, CommitRejected
<1>5. CASE FailCalled(k)
  <2>1. task'[k] = NextTurn(k) /\ Finishing(k)
    BY <1>5, BecomeRow DEF FailCalled
  <2>2. CASE task[k].mark = "safety"
    <3>1. stim'[Stim(k)].state \notin Leased
      BY <1>5, <2>2, EndRunKeeps, TurnRowType DEF FailCalled, WorkTypeOK
    <3> QED
      BY <1>0, <2>1, <3>1 DEF HoldsTurns, OwnsClaim, Stim
  <2>3. CASE task[k].mark # "safety"
    <3>1. stim' = stim /\ turn' = Finished(Stim(k), Agent(k), "failed")
      BY <1>5, <2>3 DEF FailCalled
    <3>2. OwnsClaim(k)' => OwnsClaim(k)
      BY <1>0, <2>1, <3>1 DEF OwnsClaim
    <3> QED
      BY <2>1, <3>1, <3>2, FinishCloses
  <2> QED
    BY <2>2, <2>3
<1>6. CASE CommitPost(k) \/ CommitThread(k)
  <2>1. PICK t : Posted(k, t) /\ Finishing(k)
    BY <1>6 DEF CommitPost, CommitThread
  <2>2. task'[k] = [NextTurn(k) EXCEPT !.made = TRUE]
    BY <2>1, PostedOthers
  <2>3. OwnsClaim(k)' => OwnsClaim(k)
    BY <1>0, <2>1, <2>2, FollowUpKeeps DEF Posted, OwnsClaim, Stim
  <2> QED
    BY <2>1, <2>2, <2>3, FinishCloses DEF Posted
<1> QED
  BY <1>1, <1>2, <1>3, <1>4, <1>5, <1>6 DEF FinishAction

LEMMA EndActionHolds ==
  ASSUME TypeInv, NEW k \in Tasks, HoldsTurns(k), EndAction(k)
  PROVE  HoldsTurns(k)'
<1> USE DEF TypeInv, TypeOK
<1>1. CASE TurnsOver(k)
  <2>1. task'[k] = [task[k] EXCEPT !.pc = "complete"]
    BY <1>1, BecomeRow DEF TurnsOver, Goto
  <2>2. /\ task'[k].pc = "complete" /\ task'[k].stim = task[k].stim
        /\ task'[k].token = task[k].token /\ task'[k].todo = {} /\ task[k].todo = {}
    BY <1>1, <2>1, TurnRowType DEF TurnsOver, TaskRow
  <2> QED
    BY <1>1, <2>2 DEF TurnsOver, workVars, HoldsTurns, OwnsClaim, Stim, OpenTurns, Working,
       Holding, Calls
<1>2. CASE Abort(k) \/ Budget(k)
  BY <1>2, BecomeRow, LeavesHolding DEF Abort, Budget, Done, At, Holding, Calls
<1>3. CASE Requeue(k) \/ Release(k) \/ Yield(k) \/ CompleteLost(k) \/ Complete(k)
           \/ Advance(k) \/ Settle(k)
  BY <1>3, GotoPc, LeavesHolding DEF Requeue, Release, Yield, CompleteLost, Complete,
     Advance, Settle, Holding, Calls
<1> QED
  BY <1>1, <1>2, <1>3 DEF EndAction

LEMMA PrepareAgainHolds ==
  ASSUME TypeInv, NEW k \in Tasks, PrepareAgain(k)
  PROVE  HoldsTurns(k)'
<1> DEFINE again == {a \in Agents : turn[Stim(k)][a].state \in Unfinished}
<1>1. Stim(k) \in Stimuli /\ task[k] \in TaskRow
        /\ turn \in [Stimuli -> [Agents -> TurnRow]]
  BY TurnRowType DEF TypeInv, TypeOK, WorkTypeOK
<1>2. /\ turn' = [turn EXCEPT ![Stim(k)] = [a \in Agents |->
                    IF a \in again THEN [@[a] EXCEPT !.token = task[k].token] ELSE @[a]]]
      /\ Become(k, [task[k] EXCEPT !.pc = "turn", !.todo = again])
  BY DEF PrepareAgain
<1>3. \A a \in Agents : [turn[Stim(k)][a] EXCEPT !.token = task[k].token].state
                          = turn[Stim(k)][a].state
  BY <1>1 DEF TurnRow
<1>4. \A a \in Agents : turn'[Stim(k)][a].state = turn[Stim(k)][a].state
  BY <1>1, <1>2, <1>3
<1>5. /\ task'[k].pc = "turn" /\ task'[k].todo = again
      /\ task'[k].stim = task[k].stim
  BY <1>1, <1>2, BecomeRow DEF TaskRow, TypeInv, TypeOK
<1> HIDE DEF again
<1>6. OpenTurns(Stim(k))' = again
  BY <1>4, <1>5 DEF OpenTurns, Stim, again
<1>7. Working(k)' = again
  BY <1>5 DEF Working, Calls
<1> QED
  BY <1>5, <1>6, <1>7 DEF HoldsTurns, Calls

LEMMA PrepareSelectHolds ==
  ASSUME TypeInv, NEW k \in Tasks, PrepareSelect(k)
  PROVE  HoldsTurns(k)'
<1>1. Stim(k) \in Stimuli /\ task[k] \in TaskRow
        /\ turn \in [Stimuli -> [Agents -> TurnRow]]
  BY TurnRowType DEF TypeInv, TypeOK, WorkTypeOK
<1>2. PICK chosen \in SUBSET Eligible(Stim(k)) :
        /\ turn' = [turn EXCEPT ![Stim(k)] = [a \in Agents |->
                      IF a \in chosen THEN [NoTurn EXCEPT !.state = "selected",
                                                          !.token = task[k].token]
                                      ELSE @[a]]]
        /\ Become(k, [task[k] EXCEPT !.pc = "turn", !.todo = chosen])
  BY DEF PrepareSelect
<1>3. chosen \subseteq Agents /\ \A a \in Agents : turn[Stim(k)][a].state = "none"
  BY DEF Eligible, PrepareSelect, Prepared, Taken
<1>4. [NoTurn EXCEPT !.state = "selected", !.token = task[k].token].state = "selected"
  BY DEF NoTurn
<1>5. \A a \in Agents : turn'[Stim(k)][a].state =
                          IF a \in chosen THEN "selected" ELSE "none"
  BY <1>1, <1>2, <1>3, <1>4
<1>6. /\ task'[k].pc = "turn" /\ task'[k].todo = chosen
      /\ task'[k].stim = task[k].stim
  BY <1>1, <1>2, BecomeRow DEF TaskRow, TypeInv, TypeOK
<1>7. OpenTurns(Stim(k))' = chosen
  BY <1>3, <1>5, <1>6 DEF OpenTurns, Stim, Unfinished
<1>8. Working(k)' = chosen
  BY <1>6 DEF Working, Calls
<1> QED
  BY <1>6, <1>7, <1>8 DEF HoldsTurns, Calls

LEMMA StepActionHolds ==
  ASSUME TypeInv, NEW k \in Tasks, StepAction(k)
  PROVE  HoldsTurns(k)'
<1> USE DEF TypeInv, TypeOK
<1>1. CASE Leave(k) \/ Begin(k) \/ ClaimEnds(k) \/ ClaimNothing(k)
  <2>1. task'[k].pc \in {"off", "claim", "rest"}
    BY <1>1, BecomeRow, GotoPc DEF Leave, Begin, ClaimEnds, ClaimNothing, At
  <2> QED
    BY <2>1, LeavesHolding DEF Holding, Calls
<1>2. CASE Claim(k)
  <2>1. PICK s, n : Become(k, [At("prepare") EXCEPT !.stim = s, !.token = n,
                                                    !.once = StepsOnce(k)])
    BY <1>2 DEF Claim
  <2>2. task'[k] = [At("prepare") EXCEPT !.stim = s, !.token = n, !.once = StepsOnce(k)]
    BY <2>1, BecomeRow
  <2>3. task'[k].pc = "prepare"
    BY <2>2 DEF At
  <2> QED
    BY <2>3, LeavesHolding DEF Holding, Calls
<1>3. CASE PrepareDefer(k)
  <2>1. Stim(k) \in Stimuli /\ task[k] \in TaskRow /\ stim[Stim(k)] \in Row
    BY TurnRowType
  <2>2. stim' = [stim EXCEPT ![Stim(k)] = [GivenBack(stim[Stim(k)]) EXCEPT !.delayed = TRUE]]
    BY <1>3 DEF PrepareDefer
  <2>3. [GivenBack(stim[Stim(k)]) EXCEPT !.delayed = TRUE].state = "pending"
    <3>1. GivenBack(stim[Stim(k)]) \in Row /\ GivenBack(stim[Stim(k)]).state = "pending"
      BY <2>1, BackInQueueType DEF GivenBack, Row
    <3> QED
      BY <3>1 DEF Row
  <2>4. stim'[Stim(k)].state = "pending"
    BY <2>1, <2>2, <2>3 DEF WorkTypeOK
  <2>5. task'[k].stim = task[k].stim
    BY <1>3, <2>1, BecomeRow DEF PrepareDefer, Goto, TaskRow
  <2> QED
    BY <2>4, <2>5 DEF HoldsTurns, OwnsClaim, Stim, Leased
<1> QED
  BY <1>1, <1>2, <1>3, PrepareAgainHolds, PrepareSelectHolds DEF StepAction

\* Where a fault leads to.
LEMMA FaultPc ==
  ASSUME TypeInv, NEW k \in Tasks, Fault(k)
  PROVE  /\ task'[k].pc \in {"release", "requeue", "pausing", "fail", "off"}
         /\ task'[k].pc = "fail" => k = "worker"
<1>1. PICK row \in Raises(k) : Become(k, row)
  BY DEF Fault
<1>2. task[k] \in TaskRow
  BY TurnRowType
<1>3. task'[k] = row
  BY <1>1, BecomeRow DEF TypeInv, TypeOK
<1>4. CASE task[k].pc = "prepare"
  BY <1>1, <1>2, <1>3, <1>4 DEF Raises, TaskRow
<1>5. CASE task[k].pc = "turn"
  <2>1. PICK a : row = [task[k] EXCEPT !.pc = "requeue", !.agent = a]
    BY <1>1, <1>5 DEF Raises
  <2> QED
    BY <1>2, <1>3, <2>1 DEF TaskRow
<1>6. CASE task[k].pc \in {"call", "record", "finish"}
  BY <1>1, <1>2, <1>3, <1>6 DEF Raises, TaskRow
<1>7. CASE task[k].pc = "fail"
  BY <1>1, <1>3, <1>7 DEF Raises, At
<1>8. CASE task[k].pc \notin {"prepare", "turn", "call", "record", "finish", "fail"}
  <2>1. row = At(IF k = "worker" THEN "fail" ELSE "off")
    BY <1>1, <1>8 DEF Raises
  <2> QED
    BY <1>3, <2>1 DEF At
<1> QED
  BY <1>4, <1>5, <1>6, <1>7, <1>8

LEMMA HoldsTurnsInductive ==
  ASSUME TypeInv, LeaseInv, [Next]_vars, NEW j \in Tasks
  PROVE  HoldsTurns(j)'
<1> USE DEF LeaseInv
<1>1. CASE TaskStep(j)
  BY <1>1, StepActionHolds, TurnActionHolds, FinishActionHolds, EndActionHolds
     DEF TaskStep
<1>2. CASE Fault(j)
  BY <1>2, FaultPc, LeavesHolding DEF Holding, Calls
<1>3. CASE ~(TaskStep(j) \/ Fault(j))
  <2>1. CASE task'[j].pc \in Holding
    <3>1. task'[j] = task[j] /\ LeaseKept(Stim(j))
      BY <1>3, <2>1, NotMine, TurnRowType DEF InStep, Holding, Calls
    <3> QED
      BY <3>1 DEF LeaseKept, HoldsTurns, OwnsClaim, OwnsTurn, OpenTurns, Working,
         Stim, Agent
  <2>2. CASE task'[j].pc \notin Holding
    BY <2>2, LeavesHolding
  <2> QED
    BY <2>1, <2>2
<1> QED
  BY <1>1, <1>2, <1>3

LEMMA ClaimRow ==
  ASSUME TypeInv, NEW k \in Tasks, Claim(k)
  PROVE  \E s \in Stimuli :
           /\ stim[s].state = "pending" /\ stim'[s].state = "claimed"
           /\ stim'[s].token = task'[k].token
           /\ \A r \in Stimuli \ {s} : stim'[r] = stim[r]
           /\ task'[k].pc = "prepare" /\ task'[k].stim = s /\ task'[k].todo = {}
           /\ task'[k].once = StepsOnce(k)
<1> USE DEF TypeInv, TypeOK
<1>1. PICK s \in FirstReady, n \in FreshToken :
        /\ stim' = [stim EXCEPT ![s].state = "claimed", ![s].token = n,
                                ![s].attempts = @ + 1]
        /\ Become(k, [At("prepare") EXCEPT !.stim = s, !.token = n,
                                           !.once = StepsOnce(k)])
  BY DEF Claim
<1>2. s \in Stimuli /\ stim[s] \in Row /\ stim[s].state = "pending"
  BY DEF FirstReady, Ready, WorkTypeOK
<1>3. task'[k].pc = "prepare" /\ task'[k].stim = s /\ task'[k].token = n
        /\ task'[k].todo = {} /\ task'[k].once = StepsOnce(k)
  <2>1. task'[k] = [At("prepare") EXCEPT !.stim = s, !.token = n, !.once = StepsOnce(k)]
    BY <1>1, BecomeRow
  <2> QED
    BY <2>1 DEF At
<1>4. stim'[s].state = "claimed" /\ stim'[s].token = n
        /\ \A r \in Stimuli \ {s} : stim'[r] = stim[r]
  BY <1>1, <1>2 DEF Row, WorkTypeOK
<1> QED
  BY <1>2, <1>3, <1>4

LEMMA PrepareOwnsInductive ==
  ASSUME TypeInv, OneAtATime, PrepareOwns, [Next]_vars
  PROVE  PrepareOwns'
<1>1. CASE UNCHANGED vars
  BY <1>1 DEF vars, workVars, PrepareOwns, OwnsClaim
<1>2. CASE Next
  <2>1. SUFFICES ASSUME NEW j \in Tasks, task'[j].pc = "prepare"
                 PROVE  OwnsClaim(j)' /\ task'[j].todo = {}
    BY DEF PrepareOwns
  <2>2. Claim(j)
    <3>1. Begin(j) \/ Claim(j)
      BY <1>2, <2>1, ClaimingStep DEF Claiming
    <3> QED
      BY <2>1, <3>1, GotoPc DEF Begin, TypeInv, TypeOK
  <2> QED
    BY <2>2, ClaimRow DEF OwnsClaim, Leased
<1> QED
  BY <1>1, <1>2

LEMMA LeaseInit == Init => LeaseInv
BY DEF Init, LeaseInv, OneInStep, PrepareOwns, HoldsTurns, At, InStep, Holding, Calls

LEMMA LeaseInductive == Spec => [](TypeInv /\ QuietInv /\ LeaseInv)
<1>1. TypeInv /\ QuietInv /\ LeaseInv /\ [Next]_vars => LeaseInv'
  BY OneInStepInductive, PrepareOwnsInductive, HoldsTurnsInductive DEF LeaseInv, QuietInv
<1> QED
  BY <1>1, LeaseInit, QuietInductive, PTL DEF Spec

-----------------------------------------------------------------------------
(* What a step does to the turns.  A turn that is not unfinished never       *)
(* changes its state, but for the first selection of a stimulus.             *)

TurnsMove(tn) == \A s \in Stimuli, a \in Agents :
  \/ tn[s][a].state = turn[s][a].state
  \/ turn[s][a].state \in Unfinished /\ tn[s][a].state # "none"

Selects(s) == \E k \in Tasks : PrepareSelect(k) /\ s = Stim(k)

LEMMA OneTurnMoved ==
  ASSUME TypeInv, NEW s \in Stimuli, NEW a \in Agents, NEW row,
         row.state = turn[s][a].state \/ (turn[s][a].state \in Unfinished
                                            /\ row.state # "none")
  PROVE  TurnsMove([turn EXCEPT ![s] = [@ EXCEPT ![a] = row]])
BY DEF TypeInv, TypeOK, WorkTypeOK, TurnsMove

LEMMA EndRunMovesTurns ==
  ASSUME NEW state, NEW st, NEW tn \in [Stimuli -> [Agents -> TurnRow]],
         TurnsMove(tn), EndRun(state, st, tn)
  PROVE  TurnsMove(turn')
<1>1. \A s \in Stimuli, a \in Agents :
        [tn[s][a] EXCEPT !.state = "failed", !.token = NoToken].state = "failed"
  BY DEF TurnRow
<1>2. \A s \in Stimuli, a \in Agents :
        turn'[s][a].state = IF tn[s][a].state \in Unfinished THEN "failed" ELSE tn[s][a].state
  BY <1>1 DEF EndRun, FailUnfinished
<1> QED
  BY <1>2 DEF TurnsMove, Unfinished

LEMMA RecoverMovesTurns ==
  ASSUME TypeInv, NEW S, Recover(S)
  PROVE  TurnsMove(turn')
<1> SUFFICES ASSUME NEW s \in Stimuli, NEW a \in Agents,
                    turn[s][a].state \in Unfinished
             PROVE  turn'[s][a].state = turn[s][a].state \/ turn'[s][a].state # "none"
  BY DEF TurnsMove, Recover, RecoverTurns
<1> DEFINE back == IF stim[s].attempts >= MaxAttempts THEN "failed" ELSE "selected"
<1>1. turn'[s][a] = IF s \in S THEN [turn[s][a] EXCEPT !.state = back, !.token = NoToken]
                    ELSE turn[s][a]
  BY DEF Recover, RecoverTurns
<1>2. [turn[s][a] EXCEPT !.state = back, !.token = NoToken].state = back
  BY DEF TypeInv, TypeOK, WorkTypeOK, TurnRow
<1> QED
  BY <1>1, <1>2

LEMMA TurnsStay == UNCHANGED turn => TurnsMove(turn')
BY DEF TurnsMove

\* The turn of task k ends: it was CALLING.
LEMMA FinishingTurn ==
  ASSUME TypeInv, NEW k \in Tasks, task[k].pc \in InTurn, OwnsTurn(k)
  PROVE  /\ Stim(k) \in Stimuli /\ Agent(k) \in Agents
         /\ turn[Stim(k)][Agent(k)] \in TurnRow
         /\ turn[Stim(k)][Agent(k)].state = "calling"
BY TurnRowType DEF OwnsTurn, Stim, Agent

LEMMA FinishedMoves ==
  ASSUME TypeInv, NEW k \in Tasks, Finishing(k),
         NEW state \in {"completed", "passed", "failed"}
  PROVE  TurnsMove(Finished(Stim(k), Agent(k), state))
<1>1. /\ Stim(k) \in Stimuli /\ Agent(k) \in Agents
      /\ turn[Stim(k)][Agent(k)].state = "calling"
  BY FinishingTurn DEF Finishing, InTurn
<1>2. state \in TurnStates /\ state # "none"
  BY DEF TurnStates
<1> QED
  BY <1>1, <1>2, FinishedRows DEF TurnsMove, Unfinished

LEMMA TaskTurnsMove ==
  ASSUME TypeInv, NEW k \in Tasks, TaskStep(k) \/ Fault(k), ~PrepareSelect(k)
  PROVE  TurnsMove(turn')
<1> USE DEF TypeInv, TypeOK, WorkTypeOK, workVars
<1> DEFINE s == Stim(k)
           a == Agent(k)
<1>0. s \in Stimuli /\ turn[s] \in [Agents -> TurnRow] /\ task[k] \in TaskRow
  BY TurnRowType
<1>1. CASE Begin(k)
  BY <1>1, RecoverMovesTurns DEF Begin
<1>2. CASE ClaimEnds(k) \/ Budget(k)
  <2>1. TurnsMove(turn)
    BY DEF TurnsMove
  <2> QED
    BY <1>2, <2>1, EndRunMovesTurns, TurnsStay DEF ClaimEnds, Budget
<1>3. CASE PrepareAgain(k)
  <2>1. \A b \in Agents : [turn[s][b] EXCEPT !.token = task[k].token].state = turn[s][b].state
    BY <1>0 DEF TurnRow
  <2> QED
    BY <1>0, <1>3, <2>1 DEF PrepareAgain, TurnsMove
<1>4. CASE TurnStart(k)
  <2>1. PICK b \in task[k].todo : turn[s][b].state \in Unfinished
                                  /\ turn' = [turn EXCEPT ![s][b].state = "calling"]
    BY <1>4 DEF TurnStart
  <2>2. b \in Agents
    BY <1>0, <2>1 DEF TaskRow
  <2> DEFINE row == [turn[s][b] EXCEPT !.state = "calling"]
  <2>3. row.state = "calling"
    BY <1>0, <2>2 DEF TurnRow
  <2>4. turn' = [turn EXCEPT ![s] = [@ EXCEPT ![b] = row]]
    BY <1>0, <2>1, <2>2
  <2> HIDE DEF s, row
  <2>5. turn[s][b].state \in Unfinished /\ row.state # "none"
    BY <2>1, <2>3
  <2>6. TurnsMove([turn EXCEPT ![s] = [@ EXCEPT ![b] = row]])
    BY <1>0, <2>2, <2>5, OneTurnMoved
  <2> QED
    BY <2>4, <2>6
<1>5. CASE Record(k) \/ Defer(k)
  <2>0. a \in Agents /\ turn[s][a].state = "calling"
    BY <1>5, FinishingTurn DEF Record, Defer, Finishing, InTurn
  <2>1. PICK row : /\ turn' = [turn EXCEPT ![s] = [@ EXCEPT ![a] = row]]
                   /\ row.state = turn[s][a].state \/ row.state = "selected"
    <3>1. CASE Record(k)
      <4>1. [turn[s][a] EXCEPT !.tries = Min2(turn[s][a].tries + task[k].misses, Retries)].state
              = turn[s][a].state
        BY <1>0, <2>0 DEF TurnRow
      <4>2. turn' = [turn EXCEPT ![s] = [@ EXCEPT ![a] =
              [turn[s][a] EXCEPT !.tries = Min2(turn[s][a].tries + task[k].misses, Retries)]]]
        BY <1>0, <2>0, <3>1 DEF Record
      <4> QED
        BY <4>1, <4>2
    <3>2. CASE Defer(k)
      <4>1. [turn[s][a] EXCEPT !.state = "selected", !.token = NoToken].state = "selected"
        BY <1>0, <2>0 DEF TurnRow
      <4>2. turn' = [turn EXCEPT ![s] = [@ EXCEPT ![a] =
              [turn[s][a] EXCEPT !.state = "selected", !.token = NoToken]]]
        BY <1>0, <2>0, <3>2 DEF Defer
      <4> QED
        BY <4>1, <4>2
    <3> QED
      BY <1>5, <3>1, <3>2
  <2> HIDE DEF s, a
  <2> QED
    BY <1>0, <2>0, <2>1, OneTurnMoved DEF Unfinished
<1>6. CASE Requeue(k) /\ ~UNCHANGED turn
  <2>0. a \in Agents
    BY <1>6, TurnRowType DEF Requeue, InTurn
  <2> DEFINE back == IF stim[s].attempts < MaxAttempts THEN "selected" ELSE "failed"
             row  == [turn[s][a] EXCEPT !.state = back, !.token = NoToken]
  <2>1. turn[s][a].state \in Unfinished /\ turn' = [turn EXCEPT ![s] = [@ EXCEPT ![a] = row]]
    BY <1>0, <1>6, <2>0 DEF Requeue
  <2>2. row.state = back /\ back # "none"
    BY <1>0, <2>0 DEF TurnRow
  <2> HIDE DEF s, a, row, back
  <2> QED
    BY <1>0, <2>0, <2>1, <2>2, OneTurnMoved
<1>7. CASE FailUncalled(k) \/ Pass(k) \/ CommitRejected(k) \/ CommitPost(k) \/ CommitThread(k)
  BY <1>7, FinishedMoves DEF FailUncalled, Pass, CommitRejected, CommitPost, CommitThread,
     Posted
<1>8. CASE FailCalled(k)
  <2>1. Finished(s, a, "failed") \in [Stimuli -> [Agents -> TurnRow]]
          /\ TurnsMove(Finished(s, a, "failed"))
    BY <1>8, FinishedTurnType, FinishedMoves DEF FailCalled
  <2> QED
    BY <1>8, <2>1, EndRunMovesTurns DEF FailCalled
<1>9. CASE UNCHANGED turn
  BY <1>9, TurnsStay
<1> QED
  BY <1>1, <1>2, <1>3, <1>4, <1>5, <1>6, <1>7, <1>8, <1>9
     DEF TaskStep, StepAction, TurnAction, FinishAction, EndAction, Leave, ClaimNothing,
     Claim, PrepareDefer, TurnYield, TurnSkip, CallRefused, CallMade, GatewayAnswers,
     GatewayMisses, BackoffOver, Lapsed, CommitRaises, Release, Yield, TurnsOver,
     CompleteLost, Complete, Advance, Settle, Abort, Fault

LEMMA TurnStep ==
  ASSUME TypeInv, [Next]_vars
  PROVE  \/ TurnsMove(turn')
         \/ \E k \in Tasks : PrepareSelect(k)
<1>1. CASE Fail \/ Restart
  BY <1>1, RecoverMovesTurns DEF Fail, Restart
<1>2. CASE Stop
  BY <1>2, EndRunMovesTurns DEF Stop, TurnsMove, TypeInv, TypeOK, WorkTypeOK
<1>3. CASE (WorkerAction \/ Request \/ Outside) /\ ~(Fail \/ Restart \/ Stop)
  BY <1>3, TurnsStay DEF WorkerAction, Rest, Pausing, Request, Start, EnsureRunner, Pause,
     RequestStep, HumanPost, HumanSetStatus, HumanWake, SetEnabled, Reconfigure, Outside,
     BudgetExpires, TimePasses, workVars
<1>4. CASE UNCHANGED vars
  BY <1>4, TurnsStay DEF vars, workVars
<1> QED
  BY <1>1, <1>2, <1>3, <1>4, TaskTurnsMove DEF Next

\* The turns of a selection: they are the first of a stimulus.
LEMMA SelectionTurns ==
  ASSUME TypeInv, NEW k \in Tasks, PrepareSelect(k)
  PROVE  /\ \A s \in Stimuli \ {Stim(k)} : turn'[s] = turn[s]
         /\ \A a \in Agents : /\ turn[Stim(k)][a].state = "none"
                              /\ turn'[Stim(k)][a].state # "none" => a \in Eligible(Stim(k))
<1>1. Stim(k) \in Stimuli /\ turn \in [Stimuli -> [Agents -> TurnRow]]
  BY TurnRowType DEF TypeInv, TypeOK, WorkTypeOK
<1>2. PICK chosen \in SUBSET Eligible(Stim(k)) :
        turn' = [turn EXCEPT ![Stim(k)] = [a \in Agents |->
                   IF a \in chosen THEN [NoTurn EXCEPT !.state = "selected",
                                                       !.token = task[k].token]
                                   ELSE @[a]]]
  BY DEF PrepareSelect
<1>3. \A a \in Agents : turn[Stim(k)][a].state = "none"
  BY DEF PrepareSelect, Prepared, Taken
<1> QED
  BY <1>1, <1>2, <1>3

-----------------------------------------------------------------------------
(* What a step does to the rows of the queue.  Only open rows change, and     *)
(* what they ask for stays; a row is added at the end of the table.          *)

SameInput(old, new) ==
  /\ new.thread = old.thread /\ new.kind = old.kind /\ new.target = old.target
  /\ new.attempted = old.attempted /\ new.root = old.root

RowMoves(old, new) ==
  \/ new = old
  \/ /\ old.state \in Open /\ new.state \notin {"none", "completed"}
     /\ SameInput(old, new)
     /\ new.state \in Leased => old.state \in Leased \/ \E k \in Tasks : Claim(k)

RowsMove(st) == \A s \in Stimuli : RowMoves(stim[s], st[s])

\* A stimulus that is nobody's fallback enters the queue.
Queued(r, t, kind) ==
  /\ r \in FreeRow /\ kind \in Kinds
  /\ \E target, depth : stim' = [stim EXCEPT ![r] = NewStimulus(t, kind, target, depth, {}, r)]

LEMMA OneRowMoved ==
  ASSUME TypeInv, NEW s \in Stimuli, NEW row, RowMoves(stim[s], row)
  PROVE  RowsMove([stim EXCEPT ![s] = row])
BY DEF RowsMove, RowMoves, TypeInv, TypeOK, WorkTypeOK

LEMMA BackInQueueMoves ==
  ASSUME NEW row \in Row, row.state \in Open
  PROVE  /\ RowMoves(row, Returned(row)) /\ RowMoves(row, Released(row))
         /\ \A later \in BOOLEAN : RowMoves(row, [GivenBack(row) EXCEPT !.delayed = later])
<1>1. RowMoves(row, Returned(row))
  BY DEF RowMoves, Leased, SameInput, Returned, Row
<1>2. RowMoves(row, Released(row))
  BY DEF RowMoves, Leased, SameInput, Released, Row
<1>3. /\ GivenBack(row) \in Row /\ GivenBack(row).state = "pending"
      /\ SameInput(row, GivenBack(row))
  BY BackInQueueType DEF SameInput, GivenBack, Row
<1>4. ASSUME NEW later \in BOOLEAN
      PROVE  RowMoves(row, [GivenBack(row) EXCEPT !.delayed = later])
  BY <1>3 DEF RowMoves, Leased, SameInput, Row
<1> QED
  BY <1>1, <1>2, <1>4

LEMMA CancelledMoves ==
  ASSUME NEW row \in Row, row.state \in Open
  PROVE  RowMoves(row, [row EXCEPT !.state = "cancelled", !.token = NoToken])
BY DEF RowMoves, Leased, SameInput, Row

LEMMA CancelMovesRows ==
  ASSUME TypeInv
  PROVE  /\ RowsMove(stim) /\ RowsMove(CancelOpen(stim))
         /\ \A t, x : RowsMove(CancelIn(stim, t, x))
BY CancelledMoves DEF RowsMove, RowMoves, CancelOpen, CancelIn, OpenIn, TypeInv, TypeOK,
   WorkTypeOK

LEMMA RowsStay == UNCHANGED stim => RowsMove(stim')
BY DEF RowsMove, RowMoves

LEMMA RecoverMovesRows ==
  ASSUME TypeInv, NEW S \in SUBSET Leases, Recover(S)
  PROVE  RowsMove(stim')
<1>1. \A s \in S : s \in Stimuli /\ stim[s].state \in Open /\ stim[s] \in Row
  BY DEF Leases, Open, TypeInv, TypeOK, WorkTypeOK
<1>2. \A s \in Stimuli : stim'[s] = IF s \in S THEN Returned(stim[s]) ELSE stim[s]
  BY DEF Recover, RecoverStimuli
<1> QED
  BY <1>1, <1>2, BackInQueueMoves DEF RowsMove, RowMoves

\* A new row of a kind that people and posts give rise to.
LEMMA PlannedKind ==
  ASSUME NEW default \in Kinds \ {"idle_revisit"}, NEW others, NEW p \in Plans(default, others)
  PROVE  p[1] \in Kinds \ {"idle_revisit"}
BY DEF Plans, Kinds

LEMMA FollowUpRows ==
  ASSUME TypeInv, NEW k \in Tasks, NEW t, FollowUp(k, t)
  PROVE  \/ RowsMove(stim')
         \/ \E r, kind : Queued(r, t, kind) /\ kind # "idle_revisit"
<1>1. CASE Closes(k)
  BY <1>1, CancelMovesRows DEF FollowUp
<1>2. CASE ~Closes(k) /\ MayCascade(k)
  <2>1. PICK r \in FreeRow, p \in Plans("agent_post",
               {a \in Agents : enabled[a] /\ (Autonomous \/ a # Agent(k))}) :
          stim' = [stim EXCEPT ![r] =
                     NewStimulus(t, p[1], p[2], stim[Stim(k)].depth + 1, {}, r)]
    BY <1>2 DEF FollowUp
  <2>2. p[1] \in Kinds \ {"idle_revisit"}
    BY PlannedKind DEF Kinds
  <2> QED
    BY <2>1, <2>2 DEF Queued
<1>3. CASE ~Closes(k) /\ ~MayCascade(k)
  BY <1>3, RowsStay DEF FollowUp
<1> QED
  BY <1>1, <1>2, <1>3

LEMMA TaskRowsMove ==
  ASSUME TypeInv, PrepareOwns, NEW k \in Tasks, TaskStep(k) \/ Fault(k), ~Complete(k)
  PROVE  \/ RowsMove(stim')
         \/ (CommitPost(k) \/ CommitThread(k))
            /\ \E r, t, kind : Queued(r, t, kind) /\ kind # "idle_revisit"
<1> USE DEF TypeInv, TypeOK, WorkTypeOK, workVars
<1> DEFINE s == Stim(k)
<1>0. s \in Stimuli /\ stim[s] \in Row /\ task[k] \in TaskRow
  BY TurnRowType
<1>1. CASE Begin(k)
  BY <1>1, RecoverMovesRows DEF Begin
<1>2. CASE ClaimEnds(k) \/ Budget(k) \/ FailCalled(k)
  BY <1>2, CancelMovesRows, RowsStay DEF ClaimEnds, Budget, FailCalled, EndRun
<1>3. CASE Claim(k)
  <2>1. PICK q \in FirstReady, n \in FreshToken :
          stim' = [stim EXCEPT ![q].state = "claimed", ![q].token = n,
                               ![q].attempts = @ + 1]
    BY <1>3 DEF Claim
  <2> DEFINE row == [stim[q] EXCEPT !.state = "claimed", !.token = n,
                                    !.attempts = stim[q].attempts + 1]
  <2>2. q \in Stimuli /\ stim[q] \in Row /\ stim[q].state = "pending"
    BY DEF FirstReady, Ready
  <2>3. row.state = "claimed" /\ SameInput(stim[q], row)
    BY <2>2 DEF SameInput, Row
  <2>5. RowMoves(stim[q], row)
    BY <1>3, <2>2, <2>3 DEF RowMoves, Open
  <2>4. stim' = [stim EXCEPT ![q] = row]
    BY <2>1, <2>2
  <2> HIDE DEF row
  <2> QED
    BY <2>2, <2>4, <2>5, OneRowMoved
<1>4. CASE PrepareAgain(k) \/ PrepareSelect(k)
  <2> DEFINE row == [stim[s] EXCEPT !.state = "processing"]
  <2>1. stim' = [stim EXCEPT ![s] = row]
    BY <1>4 DEF PrepareAgain, PrepareSelect
  <2>2. stim[s].state \in Leased
    BY <1>4 DEF PrepareAgain, PrepareSelect, Prepared, PrepareOwns, OwnsClaim, Stim
  <2>3. RowMoves(stim[s], row)
    BY <1>0, <2>2 DEF RowMoves, SameInput, Row, Open
  <2> HIDE DEF row, s
  <2> QED
    BY <1>0, <2>1, <2>3, OneRowMoved
<1>5. CASE PrepareDefer(k)
  <2>1. stim[s].state \in Open
    BY <1>5 DEF PrepareDefer, Prepared, PrepareOwns, OwnsClaim, Stim, Open
  <2>2. stim' = [stim EXCEPT ![s] = [GivenBack(stim[s]) EXCEPT !.delayed = TRUE]]
    BY <1>5 DEF PrepareDefer
  <2>3. RowMoves(stim[s], [GivenBack(stim[s]) EXCEPT !.delayed = TRUE])
    BY <1>0, <2>1, BackInQueueMoves
  <2> HIDE DEF s
  <2> QED
    BY <1>0, <2>2, <2>3, OneRowMoved
<1>6. CASE (Requeue(k) \/ Release(k) \/ Yield(k)) /\ ~UNCHANGED stim
  <2>1. stim[s].state \in Open
    BY <1>6 DEF Requeue, Release, Yield, OwnsClaim, Stim, Open
  <2>2. PICK row : stim' = [stim EXCEPT ![s] = row] /\ RowMoves(stim[s], row)
    <3>1. CASE Requeue(k) \/ Release(k)
      <4>1. stim' = [stim EXCEPT ![s] = Released(stim[s])]
        BY <1>6, <3>1 DEF Requeue, Release
      <4> QED
        BY <1>0, <2>1, <4>1, BackInQueueMoves
    <3>2. CASE Yield(k)
      <4>1. stim' = [stim EXCEPT ![s] = [GivenBack(stim[s]) EXCEPT !.delayed = FALSE]]
        BY <1>6, <3>2 DEF Yield
      <4> QED
        BY <1>0, <2>1, <4>1, BackInQueueMoves
    <3> QED
      BY <1>6, <3>1, <3>2
  <2> HIDE DEF s
  <2> QED
    BY <1>0, <2>2, OneRowMoved
<1>7. CASE CommitPost(k) \/ CommitThread(k)
  BY <1>7, FollowUpRows DEF CommitPost, CommitThread, Posted
<1>8. CASE UNCHANGED stim
  BY <1>8, RowsStay
<1> QED
  BY <1>1, <1>2, <1>3, <1>4, <1>5, <1>6, <1>7, <1>8
     DEF TaskStep, StepAction, TurnAction, FinishAction, EndAction, Leave, ClaimNothing,
     TurnYield, TurnSkip, TurnStart, CallRefused, CallMade, GatewayAnswers,
     GatewayMisses, BackoffOver, Record, Lapsed, Defer, FailUncalled, Pass, CommitRejected,
     CommitRaises, TurnsOver, CompleteLost, Advance, Settle, Abort, Fault

LEMMA ElsewhereRowsMove ==
  ASSUME TypeInv, WorkerAction \/ Request \/ Outside
  PROVE  \/ RowsMove(stim')
         \/ \E r, t, kind : Queued(r, t, kind) /\ (kind # "idle_revisit" \/ Rest)
<1> USE DEF workVars
<1>1. CASE Fail \/ Restart
  BY <1>1, RecoverMovesRows DEF Fail, Restart
<1>2. CASE Stop
  BY <1>2, CancelMovesRows DEF Stop, EndRun
<1>3. CASE HumanPost
  <2>1. PICK t \in Threads, r \in FreeRow, p \in Plans("human_post", Enabled) :
          stim' = [stim EXCEPT ![r] = NewStimulus(t, p[1], p[2], 0, {}, r)]
    BY <1>3 DEF HumanPost
  <2>2. p[1] \in Kinds \ {"idle_revisit"}
    BY PlannedKind DEF Kinds
  <2>3. Queued(r, t, p[1])
    BY <2>1, <2>2 DEF Queued
  <2> QED
    BY <2>2, <2>3
<1>4. CASE HumanWake
  <2>1. UNCHANGED stim \/ \E t \in Threads, r \in FreeRow, kind \in {"new_evidence", "revisit"} :
          stim' = [stim EXCEPT ![r] = NewStimulus(t, kind, NoAgent, 0, {}, r)]
    BY <1>4 DEF HumanWake
  <2> QED
    BY <2>1, RowsStay DEF Queued, Kinds
<1>5. CASE Rest
  <2>1. UNCHANGED stim \/ \E t \in Threads, r \in FreeRow :
          stim' = [stim EXCEPT ![r] = NewStimulus(t, "idle_revisit", NoAgent, 0, {}, r)]
    BY <1>5 DEF Rest, Quiet
  <2> QED
    BY <1>5, <2>1, RowsStay DEF Queued, Kinds
<1>6. CASE TimePasses
  <2>1. PICK s \in Stimuli : /\ stim[s].state = "pending"
                             /\ stim' = [stim EXCEPT ![s].delayed = FALSE]
    BY <1>6 DEF TimePasses
  <2> DEFINE row == [stim[s] EXCEPT !.delayed = FALSE]
  <2>2. RowMoves(stim[s], row)
    BY <2>1 DEF RowMoves, SameInput, Open, Row, TypeInv, TypeOK, WorkTypeOK
  <2>3. stim' = [stim EXCEPT ![s] = row]
    BY <2>1
  <2> HIDE DEF row
  <2> QED
    BY <2>2, <2>3, OneRowMoved
<1>7. CASE UNCHANGED stim
  BY <1>7, RowsStay
<1> QED
  BY <1>1, <1>2, <1>3, <1>4, <1>5, <1>6, <1>7
     DEF WorkerAction, Pausing, Request, Start, EnsureRunner, Pause, RequestStep,
     HumanSetStatus, SetEnabled, Reconfigure, Outside, BudgetExpires

LEMMA RowStep ==
  ASSUME TypeInv, PrepareOwns, [Next]_vars
  PROVE  \/ RowsMove(stim')
         \/ \E r, t, kind : Queued(r, t, kind) /\ (kind # "idle_revisit" \/ Rest)
         \/ \E k \in Tasks : Complete(k)
<1>1. UNCHANGED vars => RowsMove(stim')
  BY RowsStay DEF vars, workVars
<1> QED
  BY <1>1, TaskRowsMove, ElsewhereRowsMove DEF Next

LEMMA CompleteRows ==
  ASSUME TypeInv, NEW k \in Tasks, Complete(k)
  PROVE  /\ Stim(k) \in Stimuli /\ OwnsClaim(k) /\ task[k].pc = "complete"
         /\ stim[Stim(k)].state \in Leased
         /\ UNCHANGED <<turn, posts, humanPosts, keys>>
         /\ stim'[Stim(k)].state = "completed" /\ SameInput(stim[Stim(k)], stim'[Stim(k)])
         /\ \/ \A r \in Stimuli \ {Stim(k)} : stim'[r] = stim[r]
            \/ /\ HandsOff(k)
               /\ \E r \in FreeRow :
                    /\ stim'[r] = NewStimulus(stim[Stim(k)].thread, stim[Stim(k)].kind,
                                    NoAgent, stim[Stim(k)].depth, AttemptedBy(Stim(k)),
                                    stim[Stim(k)].root)
                    /\ \A q \in Stimuli \ {Stim(k), r} : stim'[q] = stim[q]
<1> DEFINE s    == Stim(k)
           row  == [stim[s] EXCEPT !.state = "completed", !.token = NoToken]
           done == [stim EXCEPT ![s].state = "completed", ![s].token = NoToken]
           next == NewStimulus(stim[s].thread, stim[s].kind, NoAgent, stim[s].depth,
                               AttemptedBy(s), stim[s].root)
<1>1. s \in Stimuli /\ stim[s] \in Row /\ stim[s].state \in Leased
  BY TurnRowType DEF Complete, OwnsClaim, Stim
<1>2. row.state = "completed" /\ SameInput(stim[s], row)
  BY <1>1 DEF Row, SameInput
<1>3. done = [stim EXCEPT ![s] = row]
  BY <1>1 DEF TypeInv, TypeOK, WorkTypeOK
<1>4. stim' \in Completed(k)
  BY DEF Complete
<1>5. \/ stim' = done
      \/ HandsOff(k) /\ \E r \in FreeRow : stim' = [done EXCEPT ![r] = next]
  BY <1>4 DEF Completed
<1> HIDE DEF row, next
<1>6. DOMAIN stim = Stimuli /\ \A r \in FreeRow : r \in Stimuli /\ r # s
  <2>1. \A r \in FreeRow : r \in Stimuli /\ stim[r].state = "none"
    BY DEF FreeRow
  <2> QED
    BY <1>1, <2>1 DEF TypeInv, TypeOK, WorkTypeOK, Leased
<1>7. CASE stim' = done
  BY <1>1, <1>2, <1>3, <1>6, <1>7 DEF Complete
<1>8. CASE HandsOff(k) /\ \E r \in FreeRow : stim' = [done EXCEPT ![r] = next]
  <2>1. PICK r \in FreeRow : stim' = [done EXCEPT ![r] = next]
    BY <1>8
  <2>2. stim'[s] = row /\ stim'[r] = next /\ \A q \in Stimuli \ {s, r} : stim'[q] = stim[q]
    BY <1>1, <1>3, <1>6, <2>1
  <2> QED
    BY <1>1, <1>2, <1>8, <2>2 DEF Complete, next
<1> QED
  BY <1>5, <1>7, <1>8

\* The turns of a stimulus that is neither leased nor has one to call stay.
LEMMA SettledTurns ==
  ASSUME TypeInv, PrepareOwns, [Next]_vars, NEW s \in Stimuli,
         stim[s].state \notin Leased, OpenTurns(s) = {}, NEW a \in Agents
  PROVE  turn'[s][a].state = turn[s][a].state
<1>1. CASE TurnsMove(turn')
  BY <1>1 DEF TurnsMove, OpenTurns
<1>2. ASSUME NEW k \in Tasks, PrepareSelect(k)
      PROVE  turn'[s][a].state = turn[s][a].state
  <2>1. s # Stim(k)
    BY <1>2 DEF PrepareOwns, OwnsClaim, Stim, PrepareSelect, Prepared
  <2> QED
    BY <1>2, <2>1, SelectionTurns
<1> QED
  BY <1>1, <1>2, TurnStep

\* A row becomes completed by the task that has taken all its turns.
LEMMA NewlyCompleted ==
  ASSUME TypeInv, LeaseInv, [Next]_vars, NEW s \in Stimuli,
         stim[s].state # "completed", stim'[s].state = "completed"
  PROVE  \E k \in Tasks : Complete(k) /\ s = Stim(k)
<1>1. ~RowsMove(stim')
  BY DEF RowsMove, RowMoves
<1>2. ASSUME NEW r, NEW t, NEW kind, Queued(r, t, kind) PROVE FALSE
  <2>1. PICK target, depth :
          stim' = [stim EXCEPT ![r] = NewStimulus(t, kind, target, depth, {}, r)]
    BY <1>2 DEF Queued
  <2>2. NewStimulus(t, kind, target, depth, {}, r).state = "pending"
    BY QueuedRow
  <2> QED
    BY <2>1, <2>2 DEF TypeInv, TypeOK, WorkTypeOK
<1>3. PICK k \in Tasks : Complete(k)
  BY <1>1, <1>2, RowStep DEF LeaseInv
<1>4. s = Stim(k)
  <2>1. SUFFICES ASSUME s # Stim(k) PROVE FALSE
    OBVIOUS
  <2>2. stim'[s] = stim[s] \/ stim'[s].state = "pending"
    BY <1>3, <2>1, CompleteRows, QueuedRow
  <2> QED
    BY <2>2
<1> QED
  BY <1>3, <1>4

LEMMA SettledInductive ==
  ASSUME TypeInv, LeaseInv, CompletedIsSettled, [Next]_vars
  PROVE  CompletedIsSettled'
<1>1. SUFFICES ASSUME NEW s \in Stimuli, stim'[s].state = "completed", NEW a \in Agents
               PROVE  turn'[s][a].state \notin Unfinished
  BY DEF CompletedIsSettled
<1>2. CASE stim[s].state = "completed"
  <2>1. OpenTurns(s) = {} /\ stim[s].state \notin Leased
    BY <1>2 DEF CompletedIsSettled, OpenTurns, Leased
  <2>2. turn'[s][a].state = turn[s][a].state
    BY <2>1, SettledTurns DEF LeaseInv
  <2> QED
    BY <1>2, <2>2 DEF CompletedIsSettled
<1>3. CASE stim[s].state # "completed"
  <2>1. PICK k \in Tasks : Complete(k) /\ s = Stim(k)
    BY <1>1, <1>3, NewlyCompleted
  <2>2. OwnsClaim(k) /\ task[k].pc = "complete" /\ turn' = turn
    BY <2>1, CompleteRows
  <2>3. OpenTurns(s) = {}
    BY <2>1, <2>2 DEF LeaseInv, HoldsTurns, Holding, Working, Calls
  <2> QED
    BY <2>2, <2>3 DEF OpenTurns
<1> QED
  BY <1>2, <1>3

LEMMA SettledAlways == Spec => [](TypeInv /\ QuietInv /\ LeaseInv /\ CompletedIsSettled)
<1>1. Init => CompletedIsSettled
  BY DEF Init, CompletedIsSettled, NewStimulus
<1>2. TypeInv /\ LeaseInv /\ CompletedIsSettled /\ [Next]_vars => CompletedIsSettled'
  BY SettledInductive
<1> QED
  BY <1>1, <1>2, LeaseInductive, PTL DEF Spec

(* A completed stimulus has no turn that can be called again, for any        *)
(* number of agents, faults and crashes: the task that completes it holds    *)
(* its lease, hence has taken every turn that was open.                      *)
THEOREM CompletedStimuliAreSettled == Spec => []CompletedIsSettled
BY SettledAlways, PTL

-----------------------------------------------------------------------------
(* Chains of fallbacks.  The inductive form of OneChancePerInput says why an *)
(* agent is not asked twice: along a chain every stimulus but the last is    *)
(* completed, unanswered, and has left its agents in the "attempted" of all  *)
(* that follow; and no agent is selected who is in "attempted".              *)

Existing == {s \in Stimuli : stim[s].state # "none"}

\* Rows enter the table in order, and a chain goes forward.
TableInv ==
  /\ \A s \in Existing, r \in 1..MaxStimuli : r < s => r \in Existing
  /\ \A s \in Existing : stim[s].root <= s
  /\ \A s \in Stimuli \ Existing : Taken(s) = {}

Handed(s, r) ==
  /\ stim[s].state = "completed"
  /\ Taken(s) \cup stim[s].attempted \subseteq stim[r].attempted
  /\ \A a \in Agents : turn[s][a].state # "completed"

ChainInv ==
  /\ TableInv
  /\ \A s, r \in Existing : s < r /\ stim[s].root = stim[r].root => Handed(s, r)
  /\ \A s \in Stimuli : Taken(s) \cap stim[s].attempted = {}

\* The agents with a turn for a stimulus, after a step.
LEMMA TakenStep ==
  ASSUME TypeInv, PrepareOwns, [Next]_vars, NEW s \in Stimuli
  PROVE  /\ Taken(s) \subseteq Taken(s)'
         /\ \A a \in Taken(s)' \ Taken(s) : /\ stim[s].state \in Leased
                                            /\ a \notin stim[s].attempted
<1>1. CASE TurnsMove(turn')
  BY <1>1 DEF TurnsMove, Taken, Unfinished
<1>2. ASSUME NEW k \in Tasks, PrepareSelect(k)
      PROVE  /\ Taken(s) \subseteq Taken(s)'
             /\ \A a \in Taken(s)' \ Taken(s) : /\ stim[s].state \in Leased
                                                /\ a \notin stim[s].attempted
  <2>1. CASE s = Stim(k)
    <3>1. stim[s].state \in Leased
      BY <1>2, <2>1 DEF PrepareOwns, OwnsClaim, Stim, PrepareSelect, Prepared
    <3>2. \A a \in Agents : /\ turn[s][a].state = "none"
                            /\ turn'[s][a].state # "none" => a \in Eligible(s)
      BY <1>2, <2>1, SelectionTurns
    <3> QED
      BY <3>1, <3>2 DEF Taken, Eligible
  <2>2. CASE s # Stim(k)
    <3>1. turn'[s] = turn[s]
      BY <1>2, <2>2, SelectionTurns
    <3> QED
      BY <3>1 DEF Taken
  <2> QED
    BY <2>1, <2>2
<1> QED
  BY <1>1, <1>2, TurnStep

\* What a step makes of the table: the old rows keep what they ask for, ...
LEMMA OldRows ==
  ASSUME TypeInv, PrepareOwns, [Next]_vars, NEW s \in Existing
  PROVE  s \in Existing' /\ SameInput(stim[s], stim'[s])
<1>0. s \in Stimuli /\ stim[s].state # "none"
  BY DEF Existing
<1>1. CASE RowsMove(stim')
  BY <1>0, <1>1 DEF RowsMove, RowMoves, SameInput, Existing
<1>2. CASE \E r, t, kind : Queued(r, t, kind)
  <2>1. PICK r \in FreeRow : \E row : stim' = [stim EXCEPT ![r] = row]
    BY <1>2 DEF Queued
  <2>2. r # s
    BY <1>0 DEF FreeRow
  <2> QED
    BY <1>0, <2>1, <2>2 DEF Existing, SameInput, TypeInv, TypeOK, WorkTypeOK
<1>3. ASSUME NEW k \in Tasks, Complete(k)
      PROVE  s \in Existing' /\ SameInput(stim[s], stim'[s])
  <2>1. CASE s = Stim(k)
    BY <1>0, <1>3, <2>1, CompleteRows DEF Existing
  <2>2. CASE s # Stim(k)
    <3>1. stim'[s] = stim[s]
      BY <1>0, <1>3, <2>2, CompleteRows DEF FreeRow
    <3> QED
      BY <1>0, <3>1 DEF Existing, SameInput
  <2> QED
    BY <2>1, <2>2
<1> QED
  BY <1>1, <1>2, <1>3, RowStep

\* ... and a new one is the next, a root or the fallback of a lease.
Root(r) == stim'[r].root = r /\ stim'[r].attempted = {}

Fallback(r) == \E k \in Tasks :
  /\ Complete(k) /\ HandsOff(k)
  /\ stim'[r].root = stim[Stim(k)].root /\ stim'[r].kind = stim[Stim(k)].kind
  /\ stim'[r].attempted = AttemptedBy(Stim(k))

LEMMA NewRows ==
  ASSUME TypeInv, PrepareOwns, [Next]_vars, NEW r \in Existing' \ Existing
  PROVE  /\ r \in FreeRow
         /\ \A s \in Existing' \ Existing : s = r
         /\ Root(r) \/ Fallback(r)
<1>0. r \in Stimuli /\ stim[r].state = "none" /\ stim'[r].state # "none"
  BY DEF Existing
<1>1. ~RowsMove(stim')
  BY <1>0 DEF RowsMove, RowMoves, Open, Leased
<1>2. CASE \E q, t, kind : Queued(q, t, kind)
  <2>1. PICK q, t, kind, target, depth :
          /\ q \in FreeRow
          /\ stim' = [stim EXCEPT ![q] = NewStimulus(t, kind, target, depth, {}, q)]
    BY <1>2 DEF Queued
  <2>2. \A s \in Stimuli \ {q} : stim'[s] = stim[s]
    BY <2>1 DEF TypeInv, TypeOK, WorkTypeOK
  <2>3. r = q /\ \A s \in Existing' \ Existing : s = q
    BY <1>0, <2>2 DEF Existing
  <2>4. stim'[q] = NewStimulus(t, kind, target, depth, {}, q)
    BY <2>1 DEF FreeRow, TypeInv, TypeOK, WorkTypeOK
  <2> QED
    BY <2>1, <2>3, <2>4 DEF Root, NewStimulus
<1>3. ASSUME NEW k \in Tasks, Complete(k)
      PROVE  /\ r \in FreeRow
             /\ \A s \in Existing' \ Existing : s = r
             /\ Fallback(r)
  <2>1. Stim(k) \in Existing
    BY <1>3, CompleteRows DEF Existing, Leased
  <2>2. PICK q \in FreeRow :
          /\ HandsOff(k)
          /\ stim'[q] = NewStimulus(stim[Stim(k)].thread, stim[Stim(k)].kind,
                          NoAgent, stim[Stim(k)].depth, AttemptedBy(Stim(k)),
                          stim[Stim(k)].root)
          /\ \A s \in Stimuli \ {Stim(k), q} : stim'[s] = stim[s]
    BY <1>0, <1>3, <2>1, CompleteRows DEF Existing
  <2>3. r = q /\ \A s \in Existing' \ Existing : s = q
    BY <1>0, <2>1, <2>2 DEF Existing
  <2> QED
    BY <1>3, <2>2, <2>3 DEF Fallback, NewStimulus
<1> QED
  BY <1>1, <1>2, <1>3, RowStep

LEMMA FreeIsNext ==
  ASSUME TableInv, NEW r \in FreeRow
  PROVE  r \in Stimuli /\ r \notin Existing /\ \A s \in Stimuli : s \in Existing <=> s < r
<1>1. MaxStimuli \in Nat
  BY DeliveryAssumption DEF DeliveryAssumption
<1>2. r \in 1..MaxStimuli /\ r \notin Existing /\ \A s \in 1..(r - 1) : stim[s].state # "none"
  BY DEF FreeRow, Existing, Stimuli
<1>3. ASSUME NEW s \in Stimuli PROVE s \in Existing <=> s < r
  <2>1. s \in 1..MaxStimuli
    BY DEF Stimuli
  <2>2. s < r => s \in Existing
    BY <1>1, <1>2, <2>1 DEF Existing, Stimuli
  <2>3. r < s => s \notin Existing
    BY <1>2 DEF TableInv
  <2> QED
    BY <1>1, <1>2, <2>1, <2>2, <2>3
<1> QED
  BY <1>2, <1>3 DEF Stimuli

LEMMA TableInductive ==
  ASSUME TypeInv, PrepareOwns, TableInv, [Next]_vars
  PROVE  TableInv'
<1>0. MaxStimuli \in Nat /\ \A s \in Stimuli : stim[s].root \in 1..MaxStimuli
  BY DeliveryAssumption DEF DeliveryAssumption, TypeInv, TypeOK, WorkTypeOK, Row, Stimuli
<1>1. ASSUME NEW s \in Existing', NEW r \in 1..MaxStimuli, r < s PROVE r \in Existing'
  <2>1. CASE s \in Existing
    BY <1>1, <2>1, OldRows DEF TableInv
  <2>2. CASE s \notin Existing
    <3>1. s \in FreeRow
      BY <2>2, NewRows
    <3>2. r \in Existing
      BY <1>1, <3>1, FreeIsNext DEF Stimuli
    <3> QED
      BY <3>2, OldRows
  <2> QED
    BY <2>1, <2>2
<1>2. ASSUME NEW s \in Existing' PROVE stim'[s].root <= s
  <2>1. CASE s \in Existing
    BY <2>1, OldRows DEF TableInv, SameInput
  <2>2. CASE s \notin Existing
    <3>1. CASE Root(s)
      BY <1>0, <3>1 DEF Root, Existing, Stimuli
    <3>2. CASE Fallback(s)
      <4>1. PICK k \in Tasks : Complete(k) /\ stim'[s].root = stim[Stim(k)].root
        BY <3>2 DEF Fallback
      <4>2. Stim(k) \in Existing
        BY <4>1, CompleteRows DEF Existing, Leased
      <4>3. Stim(k) < s /\ stim[Stim(k)].root <= Stim(k)
        BY <2>2, <4>2, NewRows, FreeIsNext DEF TableInv, Existing
      <4>4. Stim(k) \in 1..MaxStimuli /\ s \in 1..MaxStimuli /\ stim[Stim(k)].root \in 1..MaxStimuli
        BY <1>0, <4>2 DEF Existing, Stimuli
      <4> QED
        BY <1>0, <4>1, <4>3, <4>4
    <3> QED
      BY <2>2, <3>1, <3>2, NewRows
  <2> QED
    BY <2>1, <2>2
<1>3. ASSUME NEW s \in Stimuli \ Existing' PROVE Taken(s)' = {}
  <2>1. s \notin Existing
    BY <1>3, OldRows
  <2>2. Taken(s) = {} /\ stim[s].state \notin Leased
    BY <2>1 DEF TableInv, Existing, Leased
  <2> QED
    BY <2>2, TakenStep
<1> QED
  BY <1>1, <1>2, <1>3 DEF TableInv

LEMMA ChainInductive ==
  ASSUME TypeInv, LeaseInv, CompletedIsSettled, ChainInv, [Next]_vars
  PROVE  ChainInv'
<1> USE DEF LeaseInv
<1>0. TableInv /\ TableInv'
  BY TableInductive DEF ChainInv
<1>1. ASSUME NEW s \in Stimuli, stim[s].state = "completed"
      PROVE  /\ stim'[s] = stim[s]
             /\ \A a \in Agents : turn'[s][a].state = turn[s][a].state
  <2>1. stim[s].state \notin Open /\ stim[s].state # "none"
    BY <1>1 DEF Open, Leased
  <2>2. stim'[s] = stim[s]
    <3>1. CASE RowsMove(stim')
      BY <2>1, <3>1 DEF RowsMove, RowMoves
    <3>2. CASE \E r, t, kind : Queued(r, t, kind)
      <4>1. PICK r \in FreeRow : \E row : stim' = [stim EXCEPT ![r] = row]
        BY <3>2 DEF Queued
      <4> QED
        BY <2>1, <4>1 DEF FreeRow, TypeInv, TypeOK, WorkTypeOK
    <3>3. CASE \E k \in Tasks : Complete(k)
      BY <2>1, <3>3, CompleteRows DEF FreeRow, Open
    <3> QED
      BY <3>1, <3>2, <3>3, RowStep
  <2>3. OpenTurns(s) = {}
    BY <1>1 DEF CompletedIsSettled, OpenTurns
  <2> QED
    BY <2>1, <2>2, <2>3, SettledTurns DEF Open
<1>2. ASSUME NEW s \in Existing', NEW r \in Existing', s < r, stim'[s].root = stim'[r].root
      PROVE  Handed(s, r)'
  <2>0. MaxStimuli \in Nat /\ s \in 1..MaxStimuli /\ r \in 1..MaxStimuli /\ s \in Stimuli /\ r \in Stimuli
    BY DeliveryAssumption DEF DeliveryAssumption, Existing, Stimuli
  <2>1. s \in Existing
    <3>1. SUFFICES ASSUME s \notin Existing PROVE FALSE
      OBVIOUS
    <3>2. s \in FreeRow
      BY <3>1, NewRows
    <3>3. r \notin Existing
      BY <1>0, <1>2, <2>0, <3>2, FreeIsNext
    <3>4. r = s
      BY <3>1, <3>3, NewRows
    <3> QED
      BY <1>2, <2>0, <3>4
  <2>2. SameInput(stim[s], stim'[s])
    BY <2>1, OldRows
  <2>3. CASE r \in Existing
    <3>1. SameInput(stim[r], stim'[r])
      BY <2>3, OldRows
    <3>2. Handed(s, r)
      BY <1>2, <2>1, <2>2, <2>3, <3>1 DEF ChainInv, SameInput
    <3> QED
      BY <1>1, <2>0, <3>1, <3>2 DEF Handed, SameInput, Taken
  <2>4. CASE r \notin Existing
    <3>1. ~Root(r)
      <4>1. stim[s].root <= s /\ stim[s].root \in Stimuli
        BY <1>0, <2>0, <2>1 DEF TableInv, TypeInv, TypeOK, WorkTypeOK, Row
      <4> QED
        BY <1>2, <2>0, <2>2, <4>1 DEF Root, SameInput, Stimuli
    <3>2. PICK k \in Tasks :
            /\ Complete(k) /\ HandsOff(k)
            /\ stim'[r].root = stim[Stim(k)].root
            /\ stim'[r].attempted = AttemptedBy(Stim(k))
      BY <2>4, <3>1, NewRows DEF Fallback
    <3>3. /\ Stim(k) \in Stimuli /\ stim[Stim(k)].state \in Leased /\ Stim(k) \in Existing
          /\ turn' = turn /\ stim'[Stim(k)].state = "completed"
          /\ SameInput(stim[Stim(k)], stim'[Stim(k)])
      BY <3>2, CompleteRows DEF Existing, Leased
    <3>4. CASE s = Stim(k)
      <4>1. \A a \in Agents : turn[s][a].state # "completed"
        BY <3>2, <3>4 DEF HandsOff, MadePosts
      <4>2. Taken(s)' = Taken(s) /\ stim'[s].attempted = stim[s].attempted
        BY <2>2, <3>3 DEF Taken, SameInput
      <4> QED
        BY <3>2, <3>3, <3>4, <4>1, <4>2 DEF Handed, AttemptedBy
    <3>5. CASE s # Stim(k)
      <4>1. stim[s].root = stim[Stim(k)].root
        BY <1>2, <2>2, <3>2 DEF SameInput
      <4>2. ~(Stim(k) < s)
        <5>1. stim[Stim(k)].state # "completed"
          BY <3>3 DEF Leased
        <5> QED
          BY <2>1, <3>3, <4>1, <5>1 DEF ChainInv, Handed
      <4>3. s < Stim(k)
        BY <2>0, <3>3, <3>5, <4>2 DEF Stimuli
      <4>4. Handed(s, Stim(k))
        BY <2>1, <3>3, <4>1, <4>3 DEF ChainInv
      <4>5. /\ stim'[s].state = "completed" /\ Taken(s)' = Taken(s)
            /\ stim'[s].attempted = stim[s].attempted
        BY <1>1, <2>0, <3>3, <4>4 DEF Handed, Taken
      <4> QED
        BY <3>2, <3>3, <4>4, <4>5 DEF Handed, AttemptedBy
    <3> QED
      BY <3>4, <3>5
  <2> QED
    BY <2>3, <2>4
<1>3. ASSUME NEW s \in Stimuli PROVE Taken(s)' \cap stim'[s].attempted = {}
  <2>1. CASE s \in Existing
    <3>1. stim'[s].attempted = stim[s].attempted
      BY <2>1, OldRows DEF SameInput
    <3> QED
      BY <3>1, TakenStep DEF ChainInv
  <2>2. CASE s \notin Existing
    <3>1. Taken(s) = {} /\ stim[s].state \notin Leased
      BY <1>0, <2>2 DEF TableInv, Existing, Leased
    <3> QED
      BY <3>1, TakenStep
  <2> QED
    BY <2>1, <2>2
<1> QED
  BY <1>0, <1>2, <1>3 DEF ChainInv

LEMMA ChainInit == Init => ChainInv
<1> SUFFICES ASSUME Init PROVE ChainInv
  OBVIOUS
<1>1. MaxStimuli \in Nat
  BY DeliveryAssumption DEF DeliveryAssumption
<1>2. \A s \in Stimuli : /\ stim[s].state = IF s = 1 THEN "pending" ELSE "none"
                         /\ stim[s].root = s /\ stim[s].attempted = {}
  BY DEF Init, NewStimulus
<1>3. \A s \in Stimuli : Taken(s) = {}
  BY DEF Init, NoTurn, Taken
<1>4. Existing \subseteq {1} /\ \A s \in Existing : stim[s].root = s
  BY <1>2 DEF Existing
<1>5. \A s \in Existing : s = 1 /\ stim[s].root = 1
  BY <1>4
<1>6. TableInv
  BY <1>1, <1>3, <1>5 DEF TableInv
<1>7. \A s, r \in Existing : ~(s < r)
  BY <1>5
<1> QED
  BY <1>2, <1>3, <1>6, <1>7 DEF ChainInv

LEMMA ChainAlways == Spec =>
  [](TypeInv /\ QuietInv /\ LeaseInv /\ CompletedIsSettled /\ ChainInv)
BY ChainInit, ChainInductive, SettledAlways, PTL DEF Spec

(* Over all the fallbacks of one input an agent is given one turn, and no    *)
(* fallback follows a stimulus that was answered, for any number of agents   *)
(* and stimuli and whatever redelivers them ("Each participant gets at most  *)
(* one chance for this input", _complete_claim).                             *)
THEOREM InputsAskOnce == Spec => []OneChancePerInput
<1>1. ChainInv => OneChancePerInput
  <2>1. SUFFICES ASSUME ChainInv, NEW s \in Stimuli, NEW r \in Stimuli, s < r,
                        stim[s].root = stim[r].root,
                        stim[s].state # "none", stim[r].state # "none", NEW a \in Agents
                 PROVE  /\ turn[s][a].state = "none" \/ turn[r][a].state = "none"
                        /\ turn[s][a].state # "completed"
    BY DEF OneChancePerInput
  <2>2. Handed(s, r) /\ Taken(r) \cap stim[r].attempted = {}
    BY <2>1 DEF ChainInv, Existing
  <2> QED
    BY <2>2 DEF Handed, Taken
<1> QED
  BY <1>1, ChainAlways, PTL

-----------------------------------------------------------------------------
(* How a lease is given up.  A task that holds one keeps it, on its way from *)
(* the preparation to the end of the claim, or gives it back.                *)

Claimed == Calls \cup {"prepare", "turn", "requeue", "release", "yield", "complete"}

\* The turn that is handed to _requeue_turn_after_exception is unfinished.
TurnToRequeue(k) == task[k].pc = "requeue" => turn[Stim(k)][Agent(k)].state \in Unfinished

Carries(k) == /\ OwnsClaim(k)' /\ TurnToRequeue(k)'
              /\ task'[k].pc \in Claimed /\ task'[k].stim = task[k].stim
              /\ task'[k].token = task[k].token

\* Without its lease, a task takes no turn of a run that goes on.
Idle(k) == \/ task[k].pc \notin Calls \cup {"turn"}
           \/ runState \in Terminal
           \/ task[k].pc = "turn" /\ task[k].todo = {}

GivesUp(k) == stim'[Stim(k)].state \notin Leased /\ task'[k].stim = task[k].stim /\ Idle(k)'

LEMMA CarriesOn ==
  ASSUME NEW k \in Tasks, OwnsClaim(k), stim'[Stim(k)].state \in Leased,
         stim'[Stim(k)].token = stim[Stim(k)].token,
         task'[k].stim = task[k].stim, task'[k].token = task[k].token,
         task'[k].pc \in Claimed, TurnToRequeue(k)'
  PROVE  Carries(k)
BY DEF Carries, OwnsClaim, Stim

LEMMA PrepareStepLease ==
  ASSUME TypeInv, PrepareOwns, NEW k \in Tasks, OwnsClaim(k),
         PrepareAgain(k) \/ PrepareSelect(k) \/ PrepareDefer(k)
  PROVE  Carries(k) \/ GivesUp(k)
<1> USE DEF TypeInv, TypeOK
<1>0. Stim(k) \in Stimuli /\ stim[Stim(k)] \in Row /\ task[k] \in TaskRow
  BY TurnRowType
<1>1. CASE PrepareAgain(k) \/ PrepareSelect(k)
  <2>1. stim' = [stim EXCEPT ![Stim(k)] = [stim[Stim(k)] EXCEPT !.state = "processing"]]
    BY <1>1 DEF PrepareAgain, PrepareSelect
  <2>2. stim'[Stim(k)].state = "processing" /\ stim'[Stim(k)].token = stim[Stim(k)].token
    BY <1>0, <2>1 DEF WorkTypeOK, Row
  <2>3. PICK todo : Become(k, [task[k] EXCEPT !.pc = "turn", !.todo = todo])
    BY <1>1 DEF PrepareAgain, PrepareSelect
  <2>4. task'[k].pc = "turn" /\ task'[k].stim = task[k].stim /\ task'[k].token = task[k].token
    BY <1>0, <2>3, BecomeRow DEF TaskRow
  <2> QED
    BY <2>2, <2>4, CarriesOn DEF Leased, Claimed, TurnToRequeue
<1>2. CASE PrepareDefer(k)
  <2>1. stim' = [stim EXCEPT ![Stim(k)] = [GivenBack(stim[Stim(k)]) EXCEPT !.delayed = TRUE]]
    BY <1>2 DEF PrepareDefer
  <2>2. [GivenBack(stim[Stim(k)]) EXCEPT !.delayed = TRUE].state = "pending"
    <3>1. GivenBack(stim[Stim(k)]) \in Row /\ GivenBack(stim[Stim(k)]).state = "pending"
      BY <1>0, BackInQueueType DEF GivenBack, Row
    <3> QED
      BY <3>1 DEF Row
  <2>3. stim'[Stim(k)].state = "pending"
    BY <1>0, <2>1, <2>2 DEF WorkTypeOK
  <2>4. task[k].todo = {}
    BY <1>2 DEF PrepareDefer, Prepared, PrepareOwns
  <2>5. task'[k].pc = "turn" /\ task'[k].stim = task[k].stim /\ task'[k].todo = {}
    BY <1>0, <1>2, <2>4, BecomeRow DEF PrepareDefer, Goto, TaskRow
  <2> QED
    BY <2>3, <2>5 DEF GivesUp, Idle, Leased
<1> QED
  BY <1>1, <1>2

LEMMA TurnActionRow ==
  ASSUME TypeInv, NEW k \in Tasks, TurnAction(k)
  PROVE  /\ stim' = stim /\ task'[k].stim = task[k].stim
         /\ task'[k].token = task[k].token /\ task'[k].once = task[k].once
         /\ task'[k].pc \in Calls \cup {"turn", "yield"}
<1> USE DEF TypeInv, TypeOK
<1>0. task[k] \in TaskRow
  BY TurnRowType
<1>1. CASE TurnYield(k) \/ BackoffOver(k)
  BY <1>0, <1>1, BecomeRow DEF TurnYield, BackoffOver, Goto, TaskRow, workVars, Calls
<1>2. CASE TurnSkip(k)
  <2>1. PICK a, b : Become(k, [NextTurn(k) EXCEPT !.todo = @ \ {a}, !.made = b])
    BY <1>2 DEF TurnSkip
  <2>2. /\ task'[k].pc = "turn" /\ task'[k].stim = task[k].stim
        /\ task'[k].token = task[k].token /\ task'[k].once = task[k].once
    <3> DEFINE next == NextTurn(k)
    <3>1. task'[k] = [next EXCEPT !.todo = @ \ {a}, !.made = b]
      BY <2>1, BecomeRow
    <3>2. next \in TaskRow /\ next.pc = "turn" /\ next.stim = task[k].stim
            /\ next.token = task[k].token /\ next.once = task[k].once
      BY NextTurnRow
    <3> HIDE DEF next
    <3> QED
      BY <3>1, <3>2 DEF TaskRow
  <2> QED
    BY <1>2, <2>2 DEF TurnSkip, workVars
<1>3. CASE TurnStart(k)
  <2>1. PICK a, call, n : Become(k, [NextTurn(k) EXCEPT !.pc = "call", !.todo = @ \ {a},
                                       !.agent = a, !.call = call, !.attempt = n])
    BY <1>3 DEF TurnStart
  <2> DEFINE next == NextTurn(k)
  <2>3. task'[k] = [next EXCEPT !.pc = "call", !.todo = @ \ {a}, !.agent = a,
                                !.call = call, !.attempt = n]
    BY <2>1, BecomeRow
  <2>4. next \in TaskRow /\ next.stim = task[k].stim /\ next.token = task[k].token
          /\ next.once = task[k].once
    BY NextTurnRow
  <2> HIDE DEF next
  <2>2. /\ task'[k].pc = "call" /\ task'[k].stim = task[k].stim
        /\ task'[k].token = task[k].token /\ task'[k].once = task[k].once
    BY <2>3, <2>4 DEF TaskRow
  <2> QED
    BY <1>3, <2>2 DEF TurnStart, Calls
<1>4. CASE CallRefused(k) \/ GatewayAnswers(k)
  <2>1. PICK result \in Results : Become(k, Concluded([task[k] EXCEPT !.result = result]))
    BY <1>4 DEF CallRefused, GatewayAnswers, Results
  <2>2. [task[k] EXCEPT !.result = result] \in TaskRow
    BY <1>0 DEF TaskRow
  <2>3. [task[k] EXCEPT !.result = result].stim = task[k].stim
          /\ [task[k] EXCEPT !.result = result].token = task[k].token
          /\ [task[k] EXCEPT !.result = result].once = task[k].once
    BY <1>0 DEF TaskRow
  <2>4. task'[k] = Concluded([task[k] EXCEPT !.result = result])
    BY <2>1, BecomeRow
  <2> QED
    BY <1>4, <2>2, <2>3, <2>4, ConcludedRow DEF CallRefused, GatewayAnswers, workVars, Calls
<1>5. CASE CallMade(k)
  <2>1. task'[k] = [task[k] EXCEPT !.pc = "await", !.called = TRUE] /\ stim' = stim
    BY <1>5, BecomeRow DEF CallMade, workVars
  <2> QED
    BY <1>0, <2>1 DEF TaskRow, Calls
<1>6. CASE GatewayMisses(k)
  <2>1. PICK row \in TaskRow :
          /\ SameCall(k, row) /\ row.once = task[k].once
          /\ \/ Become(k, Concluded(row))
             \/ Become(k, row) /\ row.pc = "backoff"
    BY <1>6, MissRow
  <2> QED
    BY <1>6, <2>1, BecomeRow, ConcludedRow DEF GatewayMisses, workVars, SameCall, Calls
<1> QED
  BY <1>1, <1>2, <1>3, <1>4, <1>5, <1>6 DEF TurnAction

LEMMA TurnActionLease ==
  ASSUME TypeInv, NEW k \in Tasks, OwnsClaim(k), TurnAction(k)
  PROVE  Carries(k)
<1>1. stim' = stim /\ task'[k].stim = task[k].stim /\ task'[k].token = task[k].token
        /\ task'[k].pc \in Calls \cup {"turn", "yield"}
  BY TurnActionRow
<1>2. TurnToRequeue(k)' /\ task'[k].pc \in Claimed
  BY <1>1 DEF TurnToRequeue, Claimed, Calls
<1>3. stim[Stim(k)].state \in Leased
  BY DEF OwnsClaim, Stim
<1> QED
  BY <1>1, <1>2, <1>3, CarriesOn

LEMMA FollowUpToken ==
  ASSUME TypeInv, NEW k \in Tasks, NEW t, OwnsClaim(k), FollowUp(k, t)
  PROVE  stim'[Stim(k)] = stim[Stim(k)]
<1>0. Stim(k) \in Stimuli /\ stim \in [Stimuli -> Row] /\ stim[Stim(k)].state \in Leased
  BY TurnRowType DEF TypeInv, TypeOK, WorkTypeOK, OwnsClaim, Stim
<1>1. CASE Closes(k)
  BY <1>0, <1>1 DEF FollowUp, CancelIn
<1>2. CASE ~Closes(k) /\ MayCascade(k)
  <2>1. PICK r \in FreeRow : \E row : stim' = [stim EXCEPT ![r] = row]
    BY <1>2 DEF FollowUp
  <2>2. r # Stim(k)
    BY <1>0 DEF FreeRow, Leased
  <2> QED
    BY <1>0, <2>1, <2>2
<1>3. CASE ~Closes(k) /\ ~MayCascade(k)
  BY <1>3 DEF FollowUp
<1> QED
  BY <1>1, <1>2, <1>3

LEMMA FinishActionLease ==
  ASSUME TypeInv, NEW k \in Tasks, HoldsTurns(k), OwnsClaim(k), FinishAction(k)
  PROVE  Carries(k) \/ GivesUp(k)
<1> USE DEF TypeInv, TypeOK
<1>0. /\ task[k] \in TaskRow /\ stim[Stim(k)].state \in Leased /\ Stim(k) \in Stimuli
      /\ NextTurn(k).pc = "turn" /\ NextTurn(k).stim = task[k].stim
      /\ NextTurn(k).token = task[k].token
      /\ [NextTurn(k) EXCEPT !.made = TRUE].pc = "turn"
      /\ [NextTurn(k) EXCEPT !.made = TRUE].stim = task[k].stim
      /\ [NextTurn(k) EXCEPT !.made = TRUE].token = task[k].token
  BY NextTurnRow, TurnRowType DEF TaskRow, OwnsClaim, Stim
<1>1. CASE Record(k) \/ Defer(k)
  <2>1. /\ task'[k].pc \in {"finish", "yield"} /\ task'[k].stim = task[k].stim
        /\ task'[k].token = task[k].token /\ stim' = stim
    BY <1>0, <1>1, BecomeRow DEF Record, Defer, Goto, TaskRow
  <2> QED
    BY <1>0, <2>1, CarriesOn DEF TurnToRequeue, Claimed, Calls
<1>2. CASE CommitRaises(k)
  <2>1. /\ task'[k].pc = "requeue" /\ task'[k].stim = task[k].stim
        /\ task'[k].token = task[k].token /\ task'[k].agent = task[k].agent
        /\ stim' = stim /\ turn' = turn
    BY <1>0, <1>2, BecomeRow DEF CommitRaises, Goto, TaskRow, workVars
  <2>2. turn[Stim(k)][Agent(k)].state = "calling"
    BY <1>2, FinishingTurn DEF CommitRaises, Finishing, InTurn
  <2> QED
    BY <1>0, <2>1, <2>2, CarriesOn DEF TurnToRequeue, Claimed, Unfinished, Stim, Agent
<1>3. CASE FailUncalled(k) \/ Pass(k) \/ CommitRejected(k)
  BY <1>0, <1>3, BecomeRow, CarriesOn DEF FailUncalled, Pass, CommitRejected,
     TurnToRequeue, Claimed
<1>4. CASE FailCalled(k)
  <2>1. task'[k] = NextTurn(k)
    BY <1>4, BecomeRow DEF FailCalled
  <2>2. CASE task[k].mark = "safety"
    <3>1. EndRun("failed", stim, Finished(Stim(k), Agent(k), "failed"))
      BY <1>4, <2>2 DEF FailCalled
    <3>2. stim'[Stim(k)].state \notin Leased
      BY <1>0, <3>1, EndRunKeeps DEF WorkTypeOK
    <3>3. runState' \in Terminal
      BY <3>1 DEF EndRun, Terminal
    <3> QED
      BY <1>0, <2>1, <3>2, <3>3 DEF GivesUp, Idle
  <2>3. CASE task[k].mark # "safety"
    BY <1>0, <1>4, <2>1, <2>3, CarriesOn DEF FailCalled, TurnToRequeue, Claimed
  <2> QED
    BY <2>2, <2>3
<1>5. CASE CommitPost(k) \/ CommitThread(k)
  <2>1. PICK t : Posted(k, t)
    BY <1>5 DEF CommitPost, CommitThread
  <2>2. task'[k] = [NextTurn(k) EXCEPT !.made = TRUE]
    BY <2>1, PostedOthers
  <2>3. stim'[Stim(k)] = stim[Stim(k)]
    BY <2>1, FollowUpToken DEF Posted
  <2> QED
    BY <1>0, <2>2, <2>3, CarriesOn DEF TurnToRequeue, Claimed
<1>6. ~Lapsed(k)
  BY DEF Lapsed, HoldsTurns, Holding, Calls
<1> QED
  BY <1>1, <1>2, <1>3, <1>4, <1>5, <1>6 DEF FinishAction

LEMMA EndActionLease ==
  ASSUME TypeInv, NEW k \in Tasks, OwnsClaim(k), TurnToRequeue(k), EndAction(k),
         task[k].pc \in Claimed
  PROVE  Carries(k) \/ GivesUp(k)
<1> USE DEF TypeInv, TypeOK
<1>0. Stim(k) \in Stimuli /\ stim[Stim(k)] \in Row /\ task[k] \in TaskRow
        /\ stim[Stim(k)].state \in Leased
  BY TurnRowType DEF OwnsClaim, Stim
<1>1. CASE TurnsOver(k)
  <2>1. /\ task'[k].pc = "complete" /\ task'[k].stim = task[k].stim
        /\ task'[k].token = task[k].token /\ stim' = stim
    BY <1>0, <1>1, BecomeRow DEF TurnsOver, Goto, TaskRow, workVars
  <2> QED
    BY <1>0, <2>1, CarriesOn DEF TurnToRequeue, Claimed
<1>2. CASE Requeue(k) \/ Release(k) \/ Yield(k)
  <2>1. stim'[Stim(k)].state \notin Leased
    <3>1. CASE Requeue(k) \/ Release(k)
      <4>1. stim' = [stim EXCEPT ![Stim(k)] = Released(stim[Stim(k)])]
        BY <3>1 DEF Requeue, Release, TurnToRequeue, Agent
      <4>2. Released(stim[Stim(k)]).state \in {"failed", "pending"}
        BY <1>0 DEF Released, Row
      <4> QED
        BY <1>0, <4>1, <4>2 DEF WorkTypeOK, Leased
    <3>2. CASE Yield(k)
      <4>1. stim' = [stim EXCEPT ![Stim(k)] =
                       [GivenBack(stim[Stim(k)]) EXCEPT !.delayed = FALSE]]
        BY <3>2 DEF Yield
      <4>2. GivenBack(stim[Stim(k)]) \in Row /\ GivenBack(stim[Stim(k)]).state = "pending"
        BY <1>0, BackInQueueType DEF GivenBack, Row
      <4>3. [GivenBack(stim[Stim(k)]) EXCEPT !.delayed = FALSE].state = "pending"
        BY <4>2 DEF Row
      <4> QED
        BY <1>0, <4>1, <4>3 DEF WorkTypeOK, Leased
    <3> QED
      BY <1>2, <3>1, <3>2
  <2>2. task'[k].pc = "abort" /\ task'[k].stim = task[k].stim
    BY <1>0, <1>2, BecomeRow DEF Requeue, Release, Yield, Goto, TaskRow
  <2> QED
    BY <2>1, <2>2 DEF GivesUp, Idle, Calls
<1>3. CASE Complete(k)
  <2>1. stim'[Stim(k)].state = "completed"
    BY <1>3, CompleteRows
  <2>2. task'[k].pc = "advance" /\ task'[k].stim = task[k].stim
    BY <1>0, <1>3, BecomeRow DEF Complete, Goto, TaskRow
  <2> QED
    BY <2>1, <2>2 DEF GivesUp, Idle, Calls, Leased
<1>4. ~CompleteLost(k)
  BY DEF CompleteLost
<1>5. ~(Advance(k) \/ Settle(k) \/ Abort(k) \/ Budget(k))
  BY DEF Advance, Settle, Abort, Budget, Claimed, Calls
<1> QED
  BY <1>1, <1>2, <1>3, <1>4, <1>5 DEF EndAction

LEMMA OwnStep ==
  ASSUME TypeInv, LeaseInv, NEW k \in Tasks, TaskStep(k), OwnsClaim(k),
         task[k].pc \in Claimed, TurnToRequeue(k)
  PROVE  Carries(k) \/ GivesUp(k)
<1>1. StepAction(k) => PrepareAgain(k) \/ PrepareSelect(k) \/ PrepareDefer(k)
  BY DEF StepAction, Leave, Begin, ClaimEnds, ClaimNothing, Claim, Claimed, Calls
<1> QED
  BY <1>1, PrepareStepLease, TurnActionLease, FinishActionLease, EndActionLease
     DEF TaskStep, LeaseInv

\* A fault sends the task to one of the handlers that give the lease back, ...
LEMMA OwnFault ==
  ASSUME TypeInv, LeaseInv, NEW k \in Tasks, Fault(k), OwnsClaim(k),
         task[k].pc \in Claimed
  PROVE  \/ Carries(k)
         \/ task'[k].pc = IF k = "worker" THEN "fail" ELSE "off"
<1>1. PICK row \in Raises(k) : Become(k, row)
  BY DEF Fault
<1>2. task[k] \in TaskRow /\ task'[k] = row /\ stim' = stim /\ turn' = turn
        /\ stim[Stim(k)].state \in Leased
  BY <1>1, TurnRowType, BecomeRow DEF TypeInv, TypeOK, Fault, workVars, OwnsClaim, Stim
<1>3. CASE task[k].pc = "prepare"
  <2>1. row = [task[k] EXCEPT !.pc = "release"]
    BY <1>1, <1>3 DEF Raises
  <2>2. row.pc = "release" /\ row.stim = task[k].stim /\ row.token = task[k].token
    BY <1>2, <2>1 DEF TaskRow
  <2> QED
    BY <1>2, <2>2, CarriesOn DEF TurnToRequeue, Claimed
<1>4. CASE task[k].pc = "turn"
  <2>1. PICK a \in task[k].todo : row = [task[k] EXCEPT !.pc = "requeue", !.agent = a]
    BY <1>1, <1>4 DEF Raises
  <2>2. /\ row.pc = "requeue" /\ row.stim = task[k].stim /\ row.token = task[k].token
        /\ row.agent = a
    BY <1>2, <2>1 DEF TaskRow
  <2>3. turn[Stim(k)][a].state \in Unfinished
    BY <1>4 DEF LeaseInv, HoldsTurns, Holding, OpenTurns, Working
  <2>4. Stim(k)' = Stim(k) /\ Agent(k)' = a
    BY <1>2, <2>2 DEF Stim, Agent
  <2>5. TurnToRequeue(k)'
    BY <1>2, <2>3, <2>4 DEF TurnToRequeue
  <2> QED
    BY <1>2, <2>2, <2>5, CarriesOn DEF Claimed
<1>5. CASE task[k].pc \in {"call", "record", "finish"}
  <2>1. row = [task[k] EXCEPT !.pc = "requeue"]
    BY <1>1, <1>5 DEF Raises
  <2>2. /\ row.pc = "requeue" /\ row.stim = task[k].stim /\ row.token = task[k].token
        /\ row.agent = task[k].agent
    BY <1>2, <2>1 DEF TaskRow
  <2>3. OwnsTurn(k)
    BY <1>5 DEF LeaseInv, HoldsTurns, Holding, Calls
  <2>4. turn[Stim(k)][Agent(k)].state = "calling"
    BY <1>5, <2>3, FinishingTurn DEF InTurn
  <2>5. TurnToRequeue(k)'
    BY <1>2, <2>2, <2>4 DEF TurnToRequeue, Unfinished, Stim, Agent
  <2> QED
    BY <1>2, <2>2, <2>5, CarriesOn DEF Claimed
<1>6. CASE task[k].pc \notin {"prepare", "turn", "call", "record", "finish", "fail"}
  <2>1. row = At(IF k = "worker" THEN "fail" ELSE "off")
    BY <1>1, <1>6 DEF Raises
  <2> QED
    BY <1>2, <2>1 DEF At
<1> QED
  BY <1>3, <1>4, <1>5, <1>6 DEF Claimed, Calls

-----------------------------------------------------------------------------
(* Who takes a task out of a step, or a lease from a task *)

\* An ordinary step does not lead to the failure of the worker.
LEMMA StepsDoNotFail ==
  ASSUME TypeInv, NEW k \in Tasks, TaskStep(k)
  PROVE  task'[k].pc # "fail"
<1> USE DEF TypeInv, TypeOK
<1>1. CASE StepAction(k)
  <2>1. CASE Claim(k)
    BY <2>1, ClaimRow
  <2>2. CASE PrepareAgain(k) \/ PrepareSelect(k)
    <3>1. PICK todo : Become(k, [task[k] EXCEPT !.pc = "turn", !.todo = todo])
      BY <2>2 DEF PrepareAgain, PrepareSelect
    <3> QED
      BY <3>1, BecomeRow, TurnRowType DEF TaskRow
  <2> QED
    BY <1>1, <2>1, <2>2, BecomeRow, GotoPc
       DEF StepAction, Leave, Begin, ClaimEnds, ClaimNothing, PrepareDefer, At
<1>2. CASE TurnAction(k)
  BY <1>2, TurnActionRow DEF Calls
<1>3. CASE FinishAction(k)
  <2>1. NextTurn(k).pc = "turn" /\ NextTurn(k) \in TaskRow
    BY NextTurnRow
  <2>2. CASE Lapsed(k)
    BY <2>1, <2>2, BecomeRow DEF Lapsed, TaskRow
  <2>3. CASE CommitPost(k) \/ CommitThread(k)
    BY <2>1, <2>3, PostedOthers DEF CommitPost, CommitThread, TaskRow
  <2> QED
    BY <1>3, <2>1, <2>2, <2>3, BecomeRow, GotoPc DEF FinishAction, Record, Defer,
       FailUncalled, FailCalled, Pass, CommitRejected, CommitRaises
<1>4. CASE EndAction(k)
  BY <1>4, BecomeRow, GotoPc DEF EndAction, Requeue, Release, Yield, TurnsOver,
     CompleteLost, Complete, Advance, Settle, Abort, Budget, Done, At
<1> QED
  BY <1>1, <1>2, <1>3, <1>4 DEF TaskStep

LEMMA FailReached ==
  ASSUME TypeInv, [Next]_vars, NEW j \in Tasks, task'[j].pc = "fail", task[j].pc # "fail"
  PROVE  j = "worker" /\ Fault("worker")
<1>1. ~UNCHANGED vars /\ ~(WorkerAction \/ Request \/ Outside)
  BY ElsewhereTasks DEF vars
<1>2. PICK k \in Tasks : TaskStep(k) \/ Fault(k)
  BY <1>1 DEF Next
<1>3. j = k
  BY <1>2, StepOthers DEF Others, Untouched
<1> QED
  BY <1>2, <1>3, StepsDoNotFail, FaultPc

LEMMA RecoverAll ==
  ASSUME TypeInv, Recover(Leases)
  PROVE  Leases' = {}
<1>1. ASSUME NEW s \in Stimuli PROVE stim'[s].state \notin Leased
  <2>1. stim'[s] = IF s \in Leases THEN Returned(stim[s]) ELSE stim[s]
    BY DEF Recover, RecoverStimuli
  <2>2. Returned(stim[s]).state \in {"failed", "pending"}
    BY DEF Returned, TypeInv, TypeOK, WorkTypeOK, Row
  <2> QED
    BY <2>1, <2>2 DEF Leases, Leased
<1> QED
  BY <1>1 DEF Leases

LEMMA RestartTasks ==
  ASSUME Restart, NEW k \in Tasks
  PROVE  task'[k].pc \in {"off", "top"}
<1> DEFINE off == [j \in Tasks |-> At("off")]
<1>1. off \in [Tasks -> TaskRow] /\ off[k].pc = "off"
  BY AtType DEF At, Locations
<1>2. task' = Notified(off)
  BY DEF Restart
<1> HIDE DEF off
<1> QED
  BY <1>1, <1>2, NotifiedOthers DEF Untouched

\* Others move a task that is inside a step, or failing, only by ending or
\* recovering everything.
LEMMA HolderStays ==
  ASSUME TypeInv, [Next]_vars, NEW k \in Tasks, ~(TaskStep(k) \/ Fault(k)),
         task[k].pc \notin {"off", "top", "rest", "pausing"}
  PROVE  task'[k] = task[k] \/ Leases' = {}
<1> USE DEF TypeInv, TypeOK
<1>1. CASE UNCHANGED vars
  BY <1>1 DEF vars
<1>2. CASE \E j \in Tasks : TaskStep(j) \/ Fault(j)
  BY <1>2, StepOthers DEF Others, Untouched
<1>3. CASE Rest \/ Pausing
  <2>1. "worker" \in Tasks /\ k # "worker"
    BY <1>3 DEF Rest, Pausing, Tasks
  <2>2. Others("worker")
    BY <1>3, <2>1, BecomeOthers DEF Rest, Pausing, Goto
  <2> QED
    BY <2>1, <2>2 DEF Others, Untouched
<1>4. CASE Fail \/ Restart
  BY <1>4, RecoverAll DEF Fail, Restart
<1>5. CASE Stop
  BY <1>5, EndRunKeeps DEF Stop, WorkTypeOK, Leases
<1>6. CASE Start \/ EnsureRunner \/ HumanPost
  <2>1. task' = WithRunner(task) \/ task' = Notified(task)
    BY <1>6 DEF Start, EnsureRunner, HumanPost
  <2> QED
    BY <2>1, NotifiedOthers DEF Untouched, TaskTypeOK
<1>7. CASE RequestStep
  <2>1. "stepper" \in Tasks /\ k # "stepper" /\ Goto("stepper", "top")
    BY <1>7 DEF RequestStep, Tasks
  <2> QED
    BY <2>1, BecomeOthers DEF Goto, Others, Untouched
<1>8. CASE UNCHANGED task
  BY <1>8
<1> QED
  BY <1>1, <1>2, <1>3, <1>4, <1>5, <1>6, <1>7, <1>8
     DEF Next, WorkerAction, Request, Pause, HumanSetStatus, HumanWake, SetEnabled,
     Reconfigure, Outside, BudgetExpires, TimePasses

LEMMA NewlyLeased ==
  ASSUME TypeInv, PrepareOwns, [Next]_vars, NEW s \in Leases', s \notin Leases
  PROVE  \E k \in Tasks : Claim(k) /\ task'[k].stim = s /\ task'[k].pc = "prepare"
                          /\ OwnsClaim(k)'
<1>1. s \in Stimuli /\ stim'[s].state \in Leased /\ stim[s].state \notin Leased
  BY DEF Leases
<1>2. CASE RowsMove(stim')
  <2>1. PICK k \in Tasks : Claim(k)
    BY <1>1, <1>2 DEF RowsMove, RowMoves
  <2>2. PICK q \in Stimuli :
          /\ stim'[q].state = "claimed" /\ stim'[q].token = task'[k].token
          /\ \A r \in Stimuli \ {q} : stim'[r] = stim[r]
          /\ task'[k].pc = "prepare" /\ task'[k].stim = q
    BY <2>1, ClaimRow
  <2>3. q = s
    BY <1>1, <2>2
  <2> QED
    BY <2>1, <2>2, <2>3 DEF OwnsClaim, Leased
<1>3. CASE \E r, t, kind : Queued(r, t, kind)
  <2>1. PICK r, t, kind, target, depth :
          /\ r \in FreeRow
          /\ stim' = [stim EXCEPT ![r] = NewStimulus(t, kind, target, depth, {}, r)]
    BY <1>3 DEF Queued
  <2>2. NewStimulus(t, kind, target, depth, {}, r).state = "pending"
    BY QueuedRow
  <2> QED
    BY <1>1, <2>1, <2>2 DEF Leased, TypeInv, TypeOK, WorkTypeOK
<1>4. ASSUME NEW k \in Tasks, Complete(k) PROVE FALSE
  <2>1. stim'[s] = stim[s] \/ stim'[s].state \in {"pending", "completed"}
    BY <1>1, <1>4, CompleteRows, QueuedRow
  <2> QED
    BY <1>1, <2>1 DEF Leased
<1> QED
  BY <1>2, <1>3, <1>4, RowStep

-----------------------------------------------------------------------------
(* No lease is stranded.  A lease is held by a task that claimed it and is   *)
(* on its way to give it up, or a failing worker is about to recover it; and *)
(* a worker fails only after a fault.                                        *)

FailCounts == \A k \in Tasks : task[k].pc = "fail" => faults >= 1

HeldBy(k, s) == /\ task[k].pc \in Claimed /\ task[k].stim = s
                /\ OwnsClaim(k) /\ TurnToRequeue(k)

LeasesHeld ==
  Faulty \subseteq {"worker"} /\ faults <= 1 =>
    \A s \in Leases : \E k \in Tasks : task[k].pc = "fail" \/ HeldBy(k, s)

LEMMA FaultsCounted ==
  ASSUME TypeInv, [Next]_vars
  PROVE  /\ faults \in Nat /\ faults' \in Nat
         /\ \/ faults' = faults /\ \A k \in Tasks : Fault(k) => FALSE
            \/ faults' = faults + 1 /\ \E k \in Tasks : Fault(k)
<1>1. faults \in Nat
  BY DEF TypeInv, TypeOK
<1>2. ASSUME NEW k \in Tasks, Fault(k) PROVE faults' = faults + 1
  BY <1>2 DEF Fault
<1>3. CASE ~\E k \in Tasks : Fault(k)
  <2>1. ASSUME NEW k \in Tasks, TaskStep(k) PROVE faults' = faults
    <3> USE DEF envVars
    <3>1. CASE StepAction(k) \/ TurnAction(k)
      BY <3>1 DEF StepAction, TurnAction, Leave, Begin, ClaimEnds, ClaimNothing, Claim,
         PrepareAgain, PrepareSelect, PrepareDefer, Prepared, TurnYield, TurnSkip,
         TurnStart, CallRefused, CallMade, GatewayAnswers, GatewayMisses, BackoffOver
    <3>2. CASE FinishAction(k)
      BY <3>2 DEF FinishAction, Record, Lapsed, Defer, FailUncalled, FailCalled, Pass,
         CommitRejected, CommitRaises, CommitPost, CommitThread, Posted
    <3>3. CASE EndAction(k)
      BY <3>3 DEF EndAction, Requeue, Release, Yield, TurnsOver, CompleteLost, Complete,
         Advance, Settle, Abort, Budget
    <3> QED
      BY <2>1, <3>1, <3>2, <3>3 DEF TaskStep
  <2>2. WorkerAction \/ Request \/ Outside \/ UNCHANGED vars => faults' = faults
    BY DEF WorkerAction, Rest, Fail, Pausing, Request, Start, EnsureRunner, Pause, Stop,
       RequestStep, HumanPost, HumanSetStatus, HumanWake, SetEnabled, Reconfigure,
       Outside, BudgetExpires, TimePasses, Restart, vars, envVars
  <2> QED
    BY <1>1, <1>3, <2>1, <2>2 DEF Next
<1> QED
  BY <1>1, <1>2, <1>3

LEMMA FailCountsInductive ==
  ASSUME TypeInv, FailCounts, [Next]_vars
  PROVE  FailCounts'
<1> SUFFICES ASSUME NEW k \in Tasks, task'[k].pc = "fail" PROVE faults' >= 1
  BY DEF FailCounts
<1>1. CASE task[k].pc = "fail"
  BY <1>1, FaultsCounted DEF FailCounts
<1>2. CASE task[k].pc # "fail"
  <2>1. Fault("worker") /\ "worker" \in Tasks
    BY <1>2, FailReached
  <2> QED
    BY <2>1, FaultsCounted
<1> QED
  BY <1>1, <1>2

LEMMA LeasesHeldInductive ==
  ASSUME TypeInv, LeaseInv, FailCounts, LeasesHeld, [Next]_vars
  PROVE  LeasesHeld'
<1>1. SUFFICES ASSUME Faulty \subseteq {"worker"}, faults' <= 1, NEW s \in Leases'
               PROVE  \E k \in Tasks : task'[k].pc = "fail" \/ HeldBy(k, s)'
  BY DEF LeasesHeld
<1>2. CASE s \notin Leases
  <2>1. PICK k \in Tasks : task'[k].stim = s /\ task'[k].pc = "prepare" /\ OwnsClaim(k)'
    BY <1>2, NewlyLeased DEF LeaseInv
  <2> QED
    BY <2>1 DEF HeldBy, TurnToRequeue, Claimed
<1>3. CASE s \in Leases
  <2>1. faults <= 1
    BY <1>1, FaultsCounted
  <2>2. PICK k \in Tasks : task[k].pc = "fail" \/ HeldBy(k, s)
    BY <1>1, <1>3, <2>1 DEF LeasesHeld
  <2>3. CASE task[k].pc = "fail"
    <3>1. faults >= 1
      BY <2>3 DEF FailCounts
    <3>2. ~Fault(k)
      BY <1>1, <3>1, FaultsCounted
    <3>3. ~TaskStep(k)
      BY <2>3, OutsideTaskStep DEF InStep
    <3>4. task'[k] = task[k]
      BY <1>1, <2>3, <3>2, <3>3, HolderStays
    <3> QED
      BY <2>3, <3>4
  <2>4. CASE HeldBy(k, s)
    <3>0. /\ task[k].pc \in Claimed /\ Stim(k) = s /\ OwnsClaim(k) /\ TurnToRequeue(k)
          /\ s \in Stimuli /\ stim'[s].state \in Leased
      BY <1>3, <2>4 DEF HeldBy, Stim, Leases
    <3>1. CASE TaskStep(k)
      <4>1. Carries(k)
        BY <3>0, <3>1, OwnStep DEF GivesUp
      <4> QED
        BY <3>0, <4>1 DEF Carries, HeldBy, Stim
    <3>2. CASE Fault(k)
      <4>1. k = "worker"
        BY <1>1, <3>2 DEF Fault
      <4>2. Carries(k) \/ task'[k].pc = "fail"
        BY <3>0, <3>2, <4>1, OwnFault
      <4> QED
        BY <3>0, <4>2 DEF Carries, HeldBy, Stim
    <3>3. CASE ~(TaskStep(k) \/ Fault(k))
      <4>1. task'[k] = task[k]
        BY <1>1, <3>0, <3>3, HolderStays DEF Claimed, Calls
      <4>2. LeaseKept(s)
        BY <3>0, <3>3, <4>1, NotMine DEF LeaseInv, InStep, Claimed, Calls
      <4>3. stim'[s] = stim[s] /\ turn'[s] = turn[s]
        BY <3>0, <4>2 DEF LeaseKept
      <4> QED
        BY <3>0, <4>1, <4>3 DEF HeldBy, OwnsClaim, TurnToRequeue, Stim, Agent
    <3> QED
      BY <3>1, <3>2, <3>3
  <2> QED
    BY <2>2, <2>3, <2>4
<1> QED
  BY <1>2, <1>3

(* A restart and a failing worker leave no lease behind, for any number of   *)
(* stimuli and crashes and for one fault of the worker: whoever holds a      *)
(* lease is a task that is on its way to give it up (_step_locked,           *)
(* _handle_runner_failure, recover).                                         *)
THEOREM LeasesAreHeld == Spec => []NoStrandedLease
<1>1. Init => FailCounts /\ LeasesHeld
  BY DEF Init, FailCounts, LeasesHeld, Leases, Leased, NewStimulus, At
<1>2. TypeInv /\ LeaseInv /\ FailCounts /\ LeasesHeld /\ [Next]_vars
        => (FailCounts /\ LeasesHeld)'
  BY FailCountsInductive, LeasesHeldInductive
<1>3. LeasesHeld => NoStrandedLease
  BY DEF LeasesHeld, NoStrandedLease, HeldBy, OwnsClaim, Leases
<1> QED
  BY <1>1, <1>2, <1>3, LeaseInductive, PTL DEF Spec
=============================================================================
