----------------------------- MODULE LimitProofs -----------------------------
(***************************************************************************)
(* Theorems about what a run may add, and when: which fence a post has     *)
(* passed, rounds and posts only within the run's limits, revisits only    *)
(* after posts, and so much time for so many completions; about a worker   *)
(* that waits for people; about which threads the tasks may wake; and that *)
(* a run keeps the promises of RunLifecycle.                               *)
(***************************************************************************)
EXTENDS LeaseProofs

-----------------------------------------------------------------------------
(* The fence of a post.  A task in its turns owns its lease, unless the run   *)
(* has ended or nothing is left to do: nobody takes a lease from a task that  *)
(* is inside a step, but a failing worker, which does not take the run lock.  *)
(* It also clears the tokens of the turns the step has still to take.         *)

Takes(k, a) == /\ task[k].pc \in Calls \cup {"turn"}
               /\ a \in Working(k) /\ turn[Stim(k)][a].state \in Unfinished

\* A step whose turns were reopened by a failing worker.
Unfenced(k) == /\ k = "stepper" /\ faults > 0
               /\ \A a \in Agents : Takes(k, a) => turn[Stim(k)][a].token = NoToken

Loose == \A k \in Tasks : OwnsClaim(k) \/ Idle(k) \/ Unfenced(k)

\* Turns are reached from the preparation only.
LEMMA TurnsReached ==
  ASSUME TypeInv, NEW k \in Tasks, TaskStep(k), task'[k].pc \in Calls \cup {"turn"}
  PROVE  task[k].pc \in Calls \cup {"turn", "prepare"}
<1> USE DEF TypeInv, TypeOK
<1>1. CASE StepAction(k)
  <2>1. ~Claim(k)
    BY ClaimRow DEF Calls
  <2>2. CASE Leave(k) \/ ClaimEnds(k) \/ ClaimNothing(k)
    BY <2>2, BecomeRow DEF Leave, ClaimEnds, ClaimNothing, At, Calls
  <2>3. CASE Begin(k)
    BY <2>3, GotoPc DEF Begin, Calls
  <2>4. CASE PrepareAgain(k) \/ PrepareSelect(k) \/ PrepareDefer(k)
    BY <2>4 DEF PrepareAgain, PrepareSelect, PrepareDefer, Prepared
  <2> QED
    BY <1>1, <2>1, <2>2, <2>3, <2>4 DEF StepAction
<1>2. CASE TurnAction(k)
  BY <1>2 DEF TurnAction, TurnYield, TurnSkip, TurnStart, CallRefused, CallMade,
     GatewayAnswers, GatewayMisses, BackoffOver, Calls
<1>3. CASE FinishAction(k)
  BY <1>3 DEF FinishAction, Record, Lapsed, Finishing, Defer, FailUncalled, FailCalled,
     Pass, CommitRejected, CommitRaises, CommitPost, CommitThread, Calls
<1>4. CASE EndAction(k)
  BY <1>4, BecomeRow, GotoPc DEF EndAction, Requeue, Release, Yield, TurnsOver,
     CompleteLost, Complete, Advance, Settle, Abort, Budget, Done, At, Calls
<1> QED
  BY <1>1, <1>2, <1>3, <1>4 DEF TaskStep

\* A task that has all its turns behind it takes no other.
LEMMA TurnsOverOnly ==
  ASSUME TypeInv, NEW k \in Tasks, TaskStep(k), task[k].pc = "turn", task[k].todo = {}
  PROVE  task'[k].pc = "complete"
<1>1. TurnsOver(k)
  BY DEF TaskStep, StepAction, TurnAction, FinishAction, EndAction, Leave, Begin,
     ClaimEnds, ClaimNothing, Claim, PrepareAgain, PrepareSelect, PrepareDefer, Prepared,
     TurnYield, TurnSkip, TurnStart, CallRefused, CallMade, GatewayAnswers, GatewayMisses,
     BackoffOver, Record, Lapsed, Finishing, Defer, FailUncalled, FailCalled, Pass,
     CommitRejected, CommitRaises, CommitPost, CommitThread, Requeue, Release, Yield,
     TurnsOver, CompleteLost, Complete, Advance, Settle, Abort, Budget
<1> QED
  BY <1>1, GotoPc DEF TurnsOver, TypeInv, TypeOK

\* A turn leads to no other turns than the next ones.
LEMMA TurnActionWorking ==
  ASSUME TypeInv, NEW k \in Tasks, TurnAction(k)
  PROVE  Working(k)' \subseteq Working(k)
<1> USE DEF TypeInv, TypeOK
<1>0. task[k] \in TaskRow
  BY TurnRowType
<1>1. CASE TurnYield(k) \/ BackoffOver(k) \/ CallMade(k)
  <2>1. task'[k].todo = task[k].todo /\ task'[k].agent = task[k].agent
    <3>1. CASE CallMade(k)
      <4>1. task'[k] = [task[k] EXCEPT !.pc = "await", !.called = TRUE]
        BY <3>1, BecomeRow DEF CallMade
      <4> QED
        BY <1>0, <4>1 DEF TaskRow
    <3>2. CASE TurnYield(k) \/ BackoffOver(k)
      <4>1. PICK pc : task'[k] = [task[k] EXCEPT !.pc = pc]
        BY <3>2, BecomeRow DEF TurnYield, BackoffOver, Goto
      <4> QED
        BY <1>0, <4>1 DEF TaskRow
    <3> QED
      BY <1>1, <3>1, <3>2
  <2>2. task[k].pc \in Calls \/ task'[k].pc = "yield"
    BY <1>0, <1>1, GotoPc DEF TurnYield, BackoffOver, CallMade, Calls
  <2> QED
    BY <2>1, <2>2 DEF Working, Calls
<1>2. CASE TurnSkip(k)
  <2>1. PICK a, b : Become(k, [NextTurn(k) EXCEPT !.todo = @ \ {a}, !.made = b])
    BY <1>2 DEF TurnSkip
  <2> DEFINE next == NextTurn(k)
  <2>2. task'[k] = [next EXCEPT !.todo = @ \ {a}, !.made = b]
    BY <2>1, BecomeRow
  <2>3. next \in TaskRow /\ next.pc = "turn" /\ next.todo = task[k].todo
    BY NextTurnRow
  <2> HIDE DEF next
  <2>4. task'[k].pc = "turn" /\ task'[k].todo \subseteq task[k].todo
    BY <2>2, <2>3 DEF TaskRow
  <2> QED
    BY <2>4 DEF Working, Calls
<1>3. CASE TurnStart(k)
  <2>1. PICK a \in task[k].todo :
          \E call, n : Become(k, [NextTurn(k) EXCEPT !.pc = "call", !.todo = @ \ {a},
                                       !.agent = a, !.call = call, !.attempt = n])
    BY <1>3 DEF TurnStart
  <2>2. PICK call, n : Become(k, [NextTurn(k) EXCEPT !.pc = "call", !.todo = @ \ {a},
                                       !.agent = a, !.call = call, !.attempt = n])
    BY <2>1
  <2> DEFINE next == NextTurn(k)
  <2>3. task'[k] = [next EXCEPT !.pc = "call", !.todo = @ \ {a}, !.agent = a,
                                !.call = call, !.attempt = n]
    BY <2>2, BecomeRow
  <2>4. next \in TaskRow /\ next.todo = task[k].todo
    BY NextTurnRow
  <2> HIDE DEF next
  <2>5. task'[k].todo \subseteq task[k].todo /\ task'[k].agent = a
    BY <2>3, <2>4 DEF TaskRow
  <2> QED
    BY <2>1, <2>5 DEF Working
<1>4. CASE CallRefused(k) \/ GatewayAnswers(k)
  <2>1. PICK result \in Results : Become(k, Concluded([task[k] EXCEPT !.result = result]))
    BY <1>4 DEF CallRefused, GatewayAnswers, Results
  <2> DEFINE row == [task[k] EXCEPT !.result = result]
  <2>2. row \in TaskRow /\ row.todo = task[k].todo /\ row.agent = task[k].agent
    BY <1>0 DEF TaskRow
  <2>3. task'[k] = Concluded(row)
    BY <2>1, BecomeRow
  <2>4. task[k].pc \in Calls
    BY <1>4 DEF CallRefused, GatewayAnswers, Calls
  <2> HIDE DEF row
  <2> QED
    BY <2>2, <2>3, <2>4, ConcludedRow DEF Working, Calls
<1>5. CASE GatewayMisses(k)
  <2>1. PICK row \in TaskRow :
          /\ SameCall(k, row) /\ row.once = task[k].once
          /\ \/ Become(k, Concluded(row))
             \/ Become(k, row) /\ row.pc = "backoff"
    BY <1>5, MissRow
  <2>2. task[k].pc \in Calls
    BY <1>5 DEF GatewayMisses, Calls
  <2>3. task'[k].todo = task[k].todo /\ task'[k].agent = task[k].agent
    BY <2>1, BecomeRow, ConcludedRow DEF SameCall
  <2> QED
    BY <2>2, <2>3 DEF Working
<1> QED
  BY <1>1, <1>2, <1>3, <1>4, <1>5 DEF TurnAction

\* The end of a turn leads to no other turns either.
LEMMA FinishActionWorking ==
  ASSUME TypeInv, NEW k \in Tasks, FinishAction(k)
  PROVE  Stim(k)' = Stim(k) /\ Working(k)' \subseteq Working(k)
<1> USE DEF TypeInv, TypeOK
<1>0. task[k] \in TaskRow /\ task[k].pc \in Calls
  BY TurnRowType DEF FinishAction, Record, Lapsed, Finishing, Defer, FailUncalled,
     FailCalled, Pass, CommitRejected, CommitRaises, CommitPost, CommitThread, Calls
<1>1. /\ task'[k].stim = task[k].stim /\ task'[k].todo = task[k].todo
      /\ task'[k].pc = "turn" \/ task'[k].agent = task[k].agent
  <2>1. CASE CommitPost(k) \/ CommitThread(k)
    <3>1. PICK t : Posted(k, t)
      BY <2>1 DEF CommitPost, CommitThread
    <3>2. task'[k] = [NextTurn(k) EXCEPT !.made = TRUE]
      BY <3>1, PostedOthers
    <3> QED
      BY <3>2, NextTurnRow DEF TaskRow
  <2>2. CASE Record(k) \/ Defer(k) \/ CommitRaises(k)
    <3>1. PICK pc : task'[k] = [task[k] EXCEPT !.pc = pc]
      BY <2>2, BecomeRow DEF Record, Defer, CommitRaises, Goto
    <3> QED
      BY <1>0, <3>1 DEF TaskRow
  <2>3. CASE FailUncalled(k) \/ FailCalled(k) \/ Pass(k) \/ CommitRejected(k)
    BY <2>3, BecomeRow, NextTurnRow DEF FailUncalled, FailCalled, Pass, CommitRejected
  <2>4. CASE Lapsed(k)
    <3>1. PICK made : task'[k] = [NextTurn(k) EXCEPT !.made = made]
      BY <2>4, BecomeRow DEF Lapsed
    <3> QED
      BY <3>1, NextTurnRow DEF TaskRow
  <2> QED
    BY <2>1, <2>2, <2>3, <2>4 DEF FinishAction
<1> QED
  BY <1>0, <1>1 DEF Working, Calls, Stim

\* The tokens of unfinished turns are kept or cleared.
TokensFall(tn) == \A s \in Stimuli, a \in Agents :
  tn[s][a].state \in Unfinished => tn[s][a].token \in {turn[s][a].token, NoToken}

LEMMA OneTokenFalls ==
  ASSUME TypeInv, NEW s \in Stimuli, NEW a \in Agents, NEW row,
         row.token \in {turn[s][a].token, NoToken}
  PROVE  TokensFall([turn EXCEPT ![s] = [@ EXCEPT ![a] = row]])
BY DEF TypeInv, TypeOK, WorkTypeOK, TokensFall

LEMMA EndRunTokens ==
  ASSUME NEW state, NEW st, NEW tn \in [Stimuli -> [Agents -> TurnRow]],
         EndRun(state, st, tn)
  PROVE  TokensFall(turn')
<1>1. \A s \in Stimuli, a \in Agents :
        [tn[s][a] EXCEPT !.state = "failed", !.token = NoToken].state = "failed"
  BY DEF TurnRow
<1> QED
  BY <1>1 DEF EndRun, FailUnfinished, TokensFall, Unfinished

LEMMA RecoverTokens ==
  ASSUME TypeInv, NEW S, Recover(S)
  PROVE  /\ TokensFall(turn')
         /\ \A s \in S \cap Stimuli, a \in Agents :
              turn[s][a].state \in Unfinished => turn'[s][a].token = NoToken
<1>1. ASSUME NEW s \in Stimuli, NEW a \in Agents, turn[s][a].state \in Unfinished, s \in S
      PROVE  turn'[s][a].token = NoToken
  <2> DEFINE back == IF stim[s].attempts >= MaxAttempts THEN "failed" ELSE "selected"
  <2>1. turn'[s][a] = [turn[s][a] EXCEPT !.state = back, !.token = NoToken]
    BY <1>1 DEF Recover, RecoverTurns
  <2> QED
    BY <2>1 DEF TypeInv, TypeOK, WorkTypeOK, TurnRow
<1>2. ASSUME NEW s \in Stimuli, NEW a \in Agents,
             turn[s][a].state \notin Unfinished \/ s \notin S
      PROVE  turn'[s][a] = turn[s][a]
  BY <1>2 DEF Recover, RecoverTurns
<1> QED
  BY <1>1, <1>2 DEF TokensFall

\* The task itself gives no token to a turn once it has prepared its stimulus.
LEMMA OwnTokens ==
  ASSUME TypeInv, NEW k \in Tasks, TaskStep(k), task[k].pc \in Calls \cup {"turn"}
  PROVE  TokensFall(turn')
<1> USE DEF TypeInv, TypeOK, WorkTypeOK, workVars
<1> DEFINE s == Stim(k)
           a == Agent(k)
<1>0. s \in Stimuli /\ turn[s] \in [Agents -> TurnRow] /\ task[k] \in TaskRow
  BY TurnRowType
<1>1. CASE TurnStart(k)
  <2>1. PICK b \in task[k].todo : turn' = [turn EXCEPT ![s][b].state = "calling"]
    BY <1>1 DEF TurnStart
  <2> DEFINE row == [turn[s][b] EXCEPT !.state = "calling"]
  <2>2. b \in Agents
    BY <1>0 DEF TaskRow
  <2>3. row.token = turn[s][b].token
    BY <1>0, <2>2 DEF TurnRow
  <2>4. turn' = [turn EXCEPT ![s] = [@ EXCEPT ![b] = row]]
    BY <1>0, <2>1, <2>2
  <2> HIDE DEF s, row, TypeInv, TypeOK, WorkTypeOK
  <2>5. row.token \in {turn[s][b].token, NoToken}
    BY <2>3
  <2>6. TokensFall([turn EXCEPT ![s] = [@ EXCEPT ![b] = row]])
    BY <1>0, <2>2, <2>5, OneTokenFalls
  <2> QED
    BY <2>4, <2>6
<1>2. CASE Record(k)
  <2>0. a \in Agents
    BY <1>2, FinishingTurn DEF Record, InTurn
  <2> DEFINE row == [turn[s][a] EXCEPT !.tries = Min2(turn[s][a].tries + task[k].misses, Retries)]
  <2>1. row.token = turn[s][a].token
    BY <1>0, <2>0 DEF TurnRow
  <2>2. turn' = [turn EXCEPT ![s] = [@ EXCEPT ![a] = row]]
    BY <1>0, <1>2, <2>0 DEF Record
  <2> HIDE DEF s, a, row, TypeInv, TypeOK, WorkTypeOK
  <2>3. row.token \in {turn[s][a].token, NoToken}
    BY <2>1
  <2>4. TokensFall([turn EXCEPT ![s] = [@ EXCEPT ![a] = row]])
    BY <1>0, <2>0, <2>3, OneTokenFalls
  <2> QED
    BY <2>2, <2>4
<1>3. CASE Defer(k)
  <2>0. a \in Agents
    BY <1>3, FinishingTurn DEF Defer, Finishing, InTurn
  <2> DEFINE row == [turn[s][a] EXCEPT !.state = "selected", !.token = NoToken]
  <2>1. row.token = NoToken
    BY <1>0, <2>0 DEF TurnRow
  <2>2. turn' = [turn EXCEPT ![s] = [@ EXCEPT ![a] = row]]
    BY <1>0, <1>3, <2>0 DEF Defer
  <2> HIDE DEF s, a, row, TypeInv, TypeOK, WorkTypeOK
  <2>3. row.token \in {turn[s][a].token, NoToken}
    BY <2>1
  <2>4. TokensFall([turn EXCEPT ![s] = [@ EXCEPT ![a] = row]])
    BY <1>0, <2>0, <2>3, OneTokenFalls
  <2> QED
    BY <2>2, <2>4
<1>4. ASSUME NEW state \in {"completed", "passed", "failed"}, Finishing(k)
      PROVE  TokensFall(Finished(s, a, state))
  <2>0. a \in Agents
    BY <1>4, FinishingTurn DEF Finishing, InTurn
  <2> HIDE DEF s, a
  <2>1. state \in TurnStates /\ state \notin Unfinished
    BY <1>4 DEF TurnStates, Unfinished
  <2>2. ASSUME NEW r \in Stimuli, NEW b \in Agents, ~(r = s /\ b = a)
        PROVE  Finished(s, a, state)[r][b] = turn[r][b]
    BY <1>0, <2>0, <2>1, <2>2, FinishedRows
  <2>3. Finished(s, a, state)[s][a].state = state
    BY <1>0, <2>0, <2>1, FinishedRows
  <2> QED
    BY <2>1, <2>2, <2>3 DEF TokensFall
<1>5. CASE FailUncalled(k) \/ Pass(k) \/ CommitRejected(k) \/ CommitPost(k) \/ CommitThread(k)
  BY <1>4, <1>5 DEF FailUncalled, Pass, CommitRejected, CommitPost, CommitThread, Posted
<1>6. CASE FailCalled(k)
  <2>1. Finished(s, a, "failed") \in [Stimuli -> [Agents -> TurnRow]]
          /\ TokensFall(Finished(s, a, "failed"))
    BY <1>4, <1>6, FinishedTurnType DEF FailCalled
  <2> QED
    BY <1>6, <2>1, EndRunTokens DEF FailCalled
<1>7. CASE UNCHANGED turn
  BY <1>7 DEF TokensFall
<1> QED
  BY <1>1, <1>2, <1>3, <1>5, <1>6, <1>7
     DEF TaskStep, StepAction, TurnAction, FinishAction, EndAction, Leave, Begin, ClaimEnds,
     ClaimNothing, Claim, PrepareAgain, PrepareSelect, PrepareDefer, Prepared, TurnYield,
     TurnSkip, CallRefused, CallMade, GatewayAnswers, GatewayMisses, BackoffOver, Lapsed,
     CommitRaises, Requeue, Release, Yield, TurnsOver, CompleteLost, Complete, Advance,
     Settle, Abort, Budget, Calls

\* Nor do the others while it is inside a step.
LEMMA OthersTokens ==
  ASSUME TypeInv, OneInStep, [Next]_vars, NEW k \in Tasks, ~(TaskStep(k) \/ Fault(k)),
         task[k].pc \in InStep
  PROVE  TokensFall(turn') /\ TurnsMove(turn')
<1> USE DEF TypeInv, TypeOK, WorkTypeOK, workVars
<1>0. UNCHANGED turn => TokensFall(turn')
  BY DEF TokensFall
<1>1. CASE UNCHANGED vars
  BY <1>0, <1>1, TurnsStay DEF vars
<1>2. ASSUME NEW j \in Tasks, TaskStep(j) \/ Fault(j) PROVE turn' = turn
  <2>1. j # k /\ task[j].pc \notin InStep
    BY <1>2 DEF OneInStep
  <2>2. ~Begin(j)
    BY DEF Begin, LockFree, InStep
  <2> QED
    BY <1>2, <2>1, <2>2, OutsideStep
<1>3. CASE Fail \/ Restart
  BY <1>3, RecoverTokens, RecoverMovesTurns DEF Fail, Restart
<1>4. CASE Stop
  BY <1>4, EndRunTokens, EndRunMovesTurns DEF Stop, TurnsMove
<1>5. CASE (WorkerAction \/ Request \/ Outside) /\ ~(Fail \/ Restart \/ Stop)
  BY <1>0, <1>5, TurnsStay DEF WorkerAction, Rest, Pausing, Request, Start, EnsureRunner,
     Pause, RequestStep, HumanPost, HumanSetStatus, HumanWake, SetEnabled, Reconfigure,
     Outside, BudgetExpires, TimePasses
<1> QED
  BY <1>0, <1>1, <1>2, <1>3, <1>4, <1>5, TurnsStay DEF Next

\* While a task is inside a step, its lease is taken away only by the end of the
\* run or by a failing worker.
LEMMA LeaseSafe ==
  ASSUME TypeInv, OneInStep, ~Fail, [Next]_vars, NEW k \in Tasks,
         ~(TaskStep(k) \/ Fault(k)), task[k].pc \in InStep, task'[k].pc \in InStep,
         NEW s \in Leases
  PROVE  stim'[s] = stim[s] \/ runState' \in Terminal
<1> USE DEF TypeInv, TypeOK, WorkTypeOK, workVars
<1>0. s \in Stimuli /\ stim[s].state \in Leased
  BY DEF Leases
<1>1. CASE UNCHANGED vars
  BY <1>1 DEF vars
<1>2. ASSUME NEW j \in Tasks, TaskStep(j) \/ Fault(j) PROVE stim' = stim
  <2>1. j # k /\ task[j].pc \notin InStep
    BY <1>2 DEF OneInStep
  <2>2. ~Begin(j)
    BY DEF Begin, LockFree, InStep
  <2> QED
    BY <1>2, <2>1, <2>2, OutsideStep
<1>3. CASE WorkerAction
  <2>1. ~Rest
    <3>1. "worker" \in Tasks
      BY DEF Tasks
    <3>2. CASE k = "worker"
      BY <3>1, <3>2, BecomeRow, GotoPc DEF Rest, InStep
    <3>3. CASE k # "worker"
      BY <3>1, <3>3 DEF Rest, OneInStep, InStep
    <3> QED
      BY <3>2, <3>3
  <2> QED
    BY <1>3, <2>1 DEF WorkerAction, Pausing
<1>4. CASE Stop
  BY <1>4 DEF Stop, EndRun, Terminal
<1>5. CASE HumanPost \/ HumanWake
  <2>1. stim' = stim \/ \E r \in FreeRow : \E row : stim' = [stim EXCEPT ![r] = row]
    BY <1>5 DEF HumanPost, HumanWake
  <2> QED
    BY <1>0, <2>1 DEF FreeRow, Leased
<1>6. CASE TimePasses
  BY <1>0, <1>6 DEF TimePasses, Leased
<1>7. ~Restart
  BY RestartTasks DEF InStep
<1>8. CASE Request /\ ~Stop /\ ~HumanPost /\ ~HumanWake
  BY <1>8 DEF Request, Start, EnsureRunner, Pause, RequestStep, HumanSetStatus,
     SetEnabled, Reconfigure
<1>9. CASE BudgetExpires
  BY <1>9 DEF BudgetExpires
<1> QED
  BY <1>1, <1>2, <1>3, <1>4, <1>5, <1>6, <1>7, <1>8, <1>9 DEF Next, Outside

\* Turns without tokens stay so.
LEMMA StaysUnfenced ==
  ASSUME TypeInv, NEW k \in Tasks, Unfenced(k), faults' \in Nat, faults' >= faults,
         TokensFall(turn'), TurnsMove(turn'), task[k].pc \in Calls \cup {"turn"},
         Stim(k)' = Stim(k), Working(k)' \subseteq Working(k)
  PROVE  Unfenced(k)'
<1>1. faults' > 0
  BY DEF Unfenced, TypeInv, TypeOK
<1>2. ASSUME NEW a \in Agents, Takes(k, a)'
      PROVE  turn'[Stim(k)][a].token = NoToken
  <2>1. Stim(k) \in Stimuli
    BY TurnRowType
  <2>2. Takes(k, a)
    BY <1>2, <2>1 DEF Takes, TurnsMove
  <2> QED
    BY <1>2, <2>1, <2>2 DEF Unfenced, TokensFall, Takes
<1> QED
  BY <1>1, <1>2 DEF Unfenced

LEMMA LooseInductive ==
  ASSUME TypeInv, QuietInv, LeaseInv, FailCounts, Loose, [Next]_vars
  PROVE  Loose'
<1> SUFFICES ASSUME NEW k \in Tasks, ~Idle(k)' PROVE OwnsClaim(k)' \/ Unfenced(k)'
  BY DEF Loose
<1>1. /\ task'[k].pc \in Calls \cup {"turn"} /\ runState' \notin Terminal
      /\ ~(task'[k].pc = "turn" /\ task'[k].todo = {})
  BY DEF Idle
<1>2. runState \notin Terminal
  BY <1>1, FrozenStep DEF Frozen
<1>3. faults \in Nat /\ faults' \in Nat /\ faults' >= faults
  BY FaultsCounted
<1>4. CASE TaskStep(k)
  <2>1. task[k].pc \in Calls \cup {"turn", "prepare"}
    BY <1>1, <1>4, TurnsReached
  <2>2. OwnsClaim(k) \/ (Unfenced(k) /\ task[k].pc \in Calls \cup {"turn"})
    BY <1>1, <1>2, <1>4, <2>1, TurnsOverOnly DEF Loose, Idle, LeaseInv, PrepareOwns, Calls
  <2>3. CASE OwnsClaim(k)
    <3>1. task[k].pc \in Claimed /\ TurnToRequeue(k)
      BY <2>1 DEF Claimed, TurnToRequeue, Calls
    <3>2. Carries(k) \/ GivesUp(k)
      BY <1>4, <2>3, <3>1, OwnStep
    <3> QED
      BY <3>2 DEF Carries, GivesUp
  <2>4. CASE Unfenced(k) /\ task[k].pc \in Calls \cup {"turn"}
    <3>1. TokensFall(turn')
      BY <1>4, <2>4, OwnTokens
    <3>2. TurnsMove(turn')
      BY <1>4, <2>4, TaskTurnsMove DEF PrepareSelect, Prepared, Calls
    <3>3. TurnAction(k) \/ FinishAction(k)
      <4>1. ~StepAction(k)
        BY <2>4 DEF StepAction, Leave, Begin, ClaimEnds, ClaimNothing, Claim, PrepareAgain,
           PrepareSelect, PrepareDefer, Prepared, Calls
      <4>2. EndAction(k) => TurnsOver(k)
        BY <2>4 DEF EndAction, Requeue, Release, Yield, CompleteLost, Complete, Advance,
           Settle, Abort, Budget, Calls
      <4>3. ~TurnsOver(k)
        BY <1>1, GotoPc DEF TurnsOver, Calls, TypeInv, TypeOK
      <4> QED
        BY <1>4, <4>1, <4>2, <4>3 DEF TaskStep
    <3>4. Stim(k)' = Stim(k) /\ Working(k)' \subseteq Working(k)
      BY <3>3, TurnActionRow, TurnActionWorking, FinishActionWorking DEF Stim
    <3> QED
      BY <1>3, <2>4, <3>1, <3>2, <3>4, StaysUnfenced
  <2> QED
    BY <2>2, <2>3, <2>4
<1>5. CASE Fault(k)
  BY <1>1, <1>5, FaultPc DEF Calls
<1>6. CASE ~(TaskStep(k) \/ Fault(k))
  <2>1. task'[k].pc \in InStep
    BY <1>1 DEF InStep, Calls
  <2>2. task'[k] = task[k] /\ task[k].pc \in InStep
    BY <1>6, <2>1, NotMine DEF LeaseInv
  <2>3. TokensFall(turn') /\ TurnsMove(turn')
    BY <1>6, <2>2, OthersTokens DEF LeaseInv
  <2>4. Stim(k)' = Stim(k) /\ Working(k)' = Working(k) /\ Stim(k) \in Stimuli
    BY <2>2, TurnRowType DEF Stim, Working
  <2>5. CASE Unfenced(k)
    BY <1>1, <1>3, <2>2, <2>3, <2>4, <2>5, StaysUnfenced
  <2>6. CASE OwnsClaim(k)
    <3>1. Stim(k) \in Leases
      BY <2>4, <2>6 DEF OwnsClaim, Leases, Stim
    <3>2. CASE Fail
      <4>1. k # "worker" /\ "worker" \in Tasks
        BY <2>2, <3>2 DEF Fail, InStep, Tasks
      <4>2. k = "stepper" /\ faults >= 1
        BY <3>2, <4>1 DEF Fail, FailCounts, Tasks
      <4>3. ASSUME NEW a \in Agents, Takes(k, a)'
            PROVE  turn'[Stim(k)][a].token = NoToken
        <5>1. turn[Stim(k)][a].state \in Unfinished
          BY <2>3, <2>4, <4>3 DEF TurnsMove, Takes
        <5> QED
          BY <2>4, <3>1, <3>2, <5>1, RecoverTokens DEF Fail
      <4>4. faults' > 0
        BY <1>3, <4>2
      <4> QED
        BY <2>4, <4>2, <4>3, <4>4 DEF Unfenced
    <3>3. CASE ~Fail
      <4>1. stim'[Stim(k)] = stim[Stim(k)]
        BY <1>1, <1>6, <2>1, <2>2, <3>1, <3>3, LeaseSafe DEF LeaseInv
      <4> QED
        BY <2>2, <2>6, <4>1 DEF OwnsClaim, Stim
    <3> QED
      BY <3>2, <3>3
  <2> QED
    BY <1>1, <1>2, <2>2, <2>5, <2>6 DEF Loose, Idle
<1> QED
  BY <1>4, <1>5, <1>6

\* Posts are written by the two commits.
LEMMA PostsByCommit ==
  ASSUME TypeInv, [Next]_vars, posts' # posts
  PROVE  \E k \in Tasks : CommitPost(k) \/ CommitThread(k)
<1>1. ~UNCHANGED vars /\ ~(WorkerAction \/ Request \/ Outside)
  BY ElsewhereAnswers DEF vars, boardVars, NothingPosted
<1>2. PICK k \in Tasks : TaskStep(k) \/ Fault(k)
  BY <1>1 DEF Next
<1>3. ~Fault(k)
  BY DEF Fault, boardVars
<1> QED
  BY <1>2, <1>3, StepActionAnswers, TurnActionAnswers, FinishActionAnswers,
     EndActionAnswers DEF TaskStep, NothingPosted

(* A post is written under the lease of the stimulus it answers ("and still *)
(* owns the expected token", architecture.md), for any number of crashes    *)
(* and faults in both tasks and whatever people do meanwhile; the single    *)
(* exception is a step whose call began after a failing worker had reopened *)
(* its turn, and then the call's token is the empty one.  So no post slips  *)
(* past the fence but through the empty token.                              *)
THEOREM PostsUnderLease == Spec => PostsAreFenced
<1>1. Init => FailCounts /\ Loose
  BY DEF Init, FailCounts, Loose, Idle, At, Calls
<1>2. TypeInv /\ QuietInv /\ LeaseInv /\ FailCounts /\ Loose /\ [Next]_vars
        => FailCounts' /\ Loose'
  BY FailCountsInductive, LooseInductive
<1>3. TypeInv /\ Loose /\ [Next]_vars =>
        [posts' # posts => \E k \in Tasks :
           /\ task[k].pc = "finish"
           /\ \/ OwnsClaim(k)
              \/ k = "stepper" /\ task[k].call = NoToken /\ faults > 0]_vars
  <2> SUFFICES ASSUME TypeInv, Loose, [Next]_vars, posts' # posts
               PROVE  \E k \in Tasks :
                        /\ task[k].pc = "finish"
                        /\ \/ OwnsClaim(k)
                           \/ k = "stepper" /\ task[k].call = NoToken /\ faults > 0
    OBVIOUS
  <2>1. PICK k \in Tasks : CommitPost(k) \/ CommitThread(k)
    BY PostsByCommit
  <2>2. task[k].pc = "finish" /\ runState \notin Terminal /\ OwnsTurn(k)
    BY <2>1 DEF CommitPost, CommitThread, Finishing, Committable
  <2>3. OwnsClaim(k) \/ Unfenced(k)
    BY <2>2 DEF Loose, Idle, Calls
  <2>4. Agent(k) \in Agents /\ Takes(k, Agent(k))
    BY <2>2, FinishingTurn DEF InTurn, Takes, Working, Calls, Agent, Unfinished
  <2>5. Unfenced(k) => k = "stepper" /\ task[k].call = NoToken /\ faults > 0
    BY <2>2, <2>4 DEF Unfenced, OwnsTurn, Stim, Agent
  <2> QED
    BY <2>2, <2>3, <2>5
<1> QED
  BY <1>1, <1>2, <1>3, LeaseInductive, PTL DEF Spec, PostsAreFenced

-----------------------------------------------------------------------------
(* Limits.  A call that was made, or has an answer, was permitted while a     *)
(* round was left, and nobody else counts a round before its turn is over.    *)

Answered(k) == /\ task[k].pc \in Calls
               /\ \/ task[k].called \/ task[k].pc = "await"
                  \/ task[k].result \in Writes \cup {"pass"}
RoundLeft == \A k \in Tasks : Answered(k) => rounds < MaxRounds

CountsRound(k) == FailCalled(k) \/ Pass(k) \/ CommitRejected(k) \/ CommitPost(k) \/ CommitThread(k)

LEMMA RoundsMove ==
  ASSUME TypeInv, [Next]_vars
  PROVE  \/ rounds' = rounds
         \/ \E k \in Tasks : CountsRound(k) /\ rounds' = rounds + 1
<1> USE DEF runVars
<1>1. CASE UNCHANGED vars
  BY <1>1 DEF vars
<1>2. ASSUME NEW k \in Tasks, StepAction(k) \/ TurnAction(k) PROVE rounds' = rounds
  BY <1>2 DEF StepAction, TurnAction, Leave, Begin, ClaimEnds, ClaimNothing, Claim,
     PrepareAgain, PrepareSelect, PrepareDefer, Prepared, TurnYield, TurnSkip, TurnStart,
     CallRefused, CallMade, GatewayAnswers, GatewayMisses, BackoffOver
<1>3. ASSUME NEW k \in Tasks, FinishAction(k), ~CountsRound(k) PROVE rounds' = rounds
  BY <1>3 DEF FinishAction, CountsRound, Record, Lapsed, Defer, FailUncalled, CommitRaises
<1>4. ASSUME NEW k \in Tasks, CountsRound(k) PROVE rounds' = rounds + 1
  BY <1>4 DEF CountsRound, FailCalled, Pass, CommitRejected, CommitPost, CommitThread, Posted
<1>5. ASSUME NEW k \in Tasks, EndAction(k) \/ Fault(k) PROVE rounds' = rounds
  BY <1>5 DEF EndAction, Fault, Requeue, Release, Yield, TurnsOver, CompleteLost, Complete,
     Advance, Settle, Abort, Budget
<1>6. WorkerAction \/ Request \/ Outside => rounds' = rounds
  BY DEF WorkerAction, Rest, Fail, Pausing, Request, Start, EnsureRunner, Pause, Stop,
     RequestStep, HumanPost, HumanSetStatus, HumanWake, SetEnabled, Reconfigure,
     Outside, BudgetExpires, TimePasses, Restart
<1> QED
  BY <1>1, <1>2, <1>3, <1>4, <1>5, <1>6 DEF Next, TaskStep

\* The round is one that was left, and the turn that counts it is over.
LEMMA RoundCounts ==
  ASSUME TypeInv, NEW k \in Tasks, CountsRound(k)
  PROVE  Answered(k) /\ task[k].pc \in InStep /\ task'[k].pc = "turn"
<1>1. Answered(k) /\ task[k].pc \in InStep
  BY DEF CountsRound, FailCalled, Pass, CommitRejected, CommitPost, CommitThread,
     Finishing, Answered, Calls, Writes, InStep
<1>2. NextTurn(k).pc = "turn" /\ NextTurn(k) \in TaskRow
  BY NextTurnRow
<1>3. CommitPost(k) \/ CommitThread(k) => task'[k].pc = "turn"
  BY <1>2, PostedOthers DEF CommitPost, CommitThread, TaskRow
<1>4. FailCalled(k) \/ Pass(k) \/ CommitRejected(k) => task'[k].pc = "turn"
  BY <1>2, BecomeRow DEF FailCalled, Pass, CommitRejected, TypeInv, TypeOK
<1> QED
  BY <1>1, <1>3, <1>4 DEF CountsRound

\* A task comes to an answer through a permitted call only.
LEMMA AnswerPermitted ==
  ASSUME TypeInv, NEW k \in Tasks, TaskStep(k), Answered(k)'
  PROVE  Answered(k) \/ rounds < MaxRounds
<1> USE DEF TypeInv, TypeOK
<1>1. task'[k].pc \in Calls
  BY DEF Answered
<1>2. CASE StepAction(k)
  <2>1. task'[k].pc \in {"off", "claim", "rest", "prepare", "turn"}
    <3>1. CASE Leave(k) \/ ClaimEnds(k) \/ ClaimNothing(k)
      BY <3>1, BecomeRow DEF Leave, ClaimEnds, ClaimNothing, At
    <3>2. CASE Begin(k) \/ PrepareDefer(k)
      BY <3>2, GotoPc DEF Begin, PrepareDefer
    <3>3. CASE PrepareAgain(k) \/ PrepareSelect(k)
      <4>1. PICK todo : Become(k, [task[k] EXCEPT !.pc = "turn", !.todo = todo])
        BY <3>3 DEF PrepareAgain, PrepareSelect
      <4> QED
        BY <4>1, BecomeRow, TurnRowType DEF TaskRow
    <3> QED
      BY <1>2, <3>1, <3>2, <3>3, ClaimRow DEF StepAction
  <2> QED
    BY <1>1, <2>1 DEF Calls
<1>3. CASE TurnAction(k)
  <2>1. CASE CallMade(k)
    <3>1. ~(rounds >= MaxRounds) /\ rounds \in Nat /\ MaxRounds \in Nat
      BY <2>1, DeliveryAssumption
         DEF CallMade, CallPermitted, RunCanCall, BudgetExhausted, RunTypeOK
    <3> QED
      BY <3>1
  <2>2. CASE GatewayAnswers(k) \/ GatewayMisses(k)
    BY <2>2 DEF GatewayAnswers, GatewayMisses, Answered, Calls
  <2>3. CASE TurnYield(k) \/ TurnSkip(k)
    <3> DEFINE next == NextTurn(k)
    <3>1. CASE TurnYield(k)
      BY <1>1, <3>1, GotoPc DEF TurnYield, Calls
    <3>2. CASE TurnSkip(k)
      <4>1. PICK a, made : Become(k, [next EXCEPT !.todo = @ \ {a}, !.made = made])
        BY <3>2 DEF TurnSkip
      <4>2. next \in TaskRow /\ next.pc = "turn"
        BY NextTurnRow
      <4>3. task'[k] = [next EXCEPT !.todo = @ \ {a}, !.made = made]
        BY <4>1, BecomeRow
      <4> HIDE DEF next
      <4>4. task'[k].pc = "turn"
        BY <4>2, <4>3 DEF TaskRow
      <4> QED
        BY <1>1, <4>4 DEF Calls
    <3> QED
      BY <2>3, <3>1, <3>2
  <2>4. CASE TurnStart(k)
    <3> DEFINE next == NextTurn(k)
    <3>1. PICK todo, a, call, n : Become(k, [next EXCEPT
            !.pc = "call", !.todo = todo, !.agent = a, !.call = call, !.attempt = n])
      BY <2>4 DEF TurnStart
    <3>2. next.called = FALSE /\ next.result = "none" /\ next \in TaskRow
      BY NextTurnRow DEF NextTurn, At
    <3> HIDE DEF next
    <3>3. task'[k] = [next EXCEPT
            !.pc = "call", !.todo = todo, !.agent = a, !.call = call, !.attempt = n]
      BY <3>1, BecomeRow
    <3>4. task'[k].called = FALSE /\ task'[k].result = "none" /\ task'[k].pc = "call"
      BY <3>2, <3>3 DEF TaskRow
    <3> QED
      BY <3>4 DEF Answered, Writes
  <2>5. CASE BackoffOver(k) \/ CallRefused(k)
    <3>1. CASE BackoffOver(k)
      <4>1. /\ task[k].pc = "backoff" /\ task'[k].pc = "call"
            /\ task'[k].called = task[k].called /\ task'[k].result = task[k].result
        BY <3>1, BecomeRow, TurnRowType DEF BackoffOver, Goto, TaskRow
      <4> QED
        BY <4>1 DEF Answered, Calls
    <3>2. CASE CallRefused(k)
      <4>1. PICK res \in {"defer", "none"} :
              Become(k, Concluded([task[k] EXCEPT !.result = res]))
        BY <3>2 DEF CallRefused
      <4>2. [task[k] EXCEPT !.result = res] \in TaskRow
        BY TurnRowType DEF TaskRow, Results
      <4>3. /\ task'[k].pc \in {"record", "finish"} /\ task'[k].result = res
            /\ task'[k].called = task[k].called
        BY <4>1, <4>2, BecomeRow, ConcludedRow, TurnRowType DEF TaskRow
      <4> QED
        BY <3>2, <4>3 DEF CallRefused, Answered, Calls, Writes
    <3> QED
      BY <2>5, <3>1, <3>2
  <2> QED
    BY <1>3, <2>1, <2>2, <2>3, <2>4, <2>5 DEF TurnAction
<1>4. CASE FinishAction(k)
  <2>1. CASE Record(k)
    <3>1. /\ task[k].pc = "record" /\ task'[k].pc = "finish"
          /\ task'[k].called = task[k].called /\ task'[k].result = task[k].result
      BY <2>1, BecomeRow, TurnRowType DEF Record, Goto, TaskRow
    <3> QED
      BY <3>1 DEF Answered, Calls
  <2>2. CASE CountsRound(k)
    BY <1>1, <2>2, RoundCounts DEF Calls
  <2>3. CASE Lapsed(k) \/ Defer(k) \/ FailUncalled(k) \/ CommitRaises(k)
    BY <1>1, <2>3, GotoPc, BecomeRow, NextTurnRow
       DEF Lapsed, Defer, FailUncalled, CommitRaises, Calls, TaskRow
  <2> QED
    BY <1>4, <2>1, <2>2, <2>3 DEF FinishAction, CountsRound
<1>5. CASE EndAction(k)
  BY <1>1, <1>5, BecomeRow, GotoPc DEF EndAction, Requeue, Release, Yield, TurnsOver,
     CompleteLost, Complete, Advance, Settle, Abort, Budget, Done, At, Calls
<1> QED
  BY <1>2, <1>3, <1>4, <1>5 DEF TaskStep

LEMMA RoundLeftInductive ==
  ASSUME TypeInv, OneInStep, RoundLeft, rounds <= MaxRounds, [Next]_vars
  PROVE  RoundLeft' /\ rounds' <= MaxRounds
<1>0. rounds \in Nat /\ MaxRounds \in Nat
  BY DeliveryAssumption DEF TypeInv, TypeOK, RunTypeOK
<1>1. rounds' <= MaxRounds
  BY <1>0, RoundsMove, RoundCounts DEF RoundLeft
<1>2. ASSUME NEW j \in Tasks, Answered(j)' PROVE rounds' < MaxRounds
  <2>1. task'[j].pc \in InStep /\ task'[j].pc # "turn" /\ task'[j].pc \in Calls
    BY <1>2 DEF Answered, Calls, InStep
  <2>2. CASE TaskStep(j) \/ Fault(j)
    <3>1. TaskStep(j)
      BY <2>1, <2>2, FaultPc DEF Calls
    <3>2. rounds < MaxRounds
      BY <1>2, <3>1, AnswerPermitted DEF RoundLeft
    <3>3. CASE \E k \in Tasks : CountsRound(k)
      <4>1. PICK k \in Tasks : CountsRound(k)
        BY <3>3
      <4>2. k # j
        BY <2>1, <4>1, RoundCounts
      <4>3. TaskStep(k)
        BY <4>1 DEF TaskStep, FinishAction, CountsRound
      <4>4. task[j].pc \notin InStep
        BY <4>1, <4>2, RoundCounts DEF OneInStep
      <4>5. Untouched(task[j], task'[j])
        BY <4>2, <4>3, StepOthers DEF Others
      <4> QED
        BY <2>1, <4>4, <4>5 DEF Untouched, InStep
    <3> QED
      BY <3>2, <3>3, RoundsMove
  <2>3. CASE ~(TaskStep(j) \/ Fault(j))
    <3>1. task'[j] = task[j]
      BY <2>1, <2>3, NotMine
    <3>2. rounds < MaxRounds
      BY <1>2, <3>1 DEF Answered, RoundLeft
    <3>3. ASSUME NEW k \in Tasks, CountsRound(k) PROVE FALSE
      <4>1. TaskStep(k)
        BY <3>3 DEF TaskStep, FinishAction, CountsRound
      <4> QED
        BY <2>1, <2>3, <3>1, <3>3, <4>1, RoundCounts DEF OneInStep
    <3> QED
      BY <3>2, <3>3, RoundsMove
  <2> QED
    BY <2>2, <2>3
<1> QED
  BY <1>1, <1>2 DEF RoundLeft

-----------------------------------------------------------------------------
(* Posts.  Only a commit adds one, in a thread that exists; the first post of *)
(* a new thread is the one that no quota counts.                              *)

ThreadsOpen == /\ thread[FirstThread] # "absent"
               /\ \A t \in Threads : thread[t] = "absent" => PostsIn(t) = {}

\* No thread is unmade.
LEMMA ThreadsStay ==
  ASSUME TypeInv, [Next]_vars, NEW t \in Threads, thread[t] # "absent"
  PROVE  thread'[t] # "absent"
<1> USE DEF TypeInv, TypeOK, BoardTypeOK, boardVars
<1>1. CASE thread' = thread
  BY <1>1
<1>2. CASE \E u \in Threads : \E state : state # "absent" /\ thread' = [thread EXCEPT ![u] = state]
  BY <1>2
<1>3. ASSUME NEW k \in Tasks, TaskStep(k) \/ Fault(k)
      PROVE  \/ thread' = thread
             \/ \E u \in Threads : \E state : state # "absent" /\ thread' = [thread EXCEPT ![u] = state]
  <2>1. CASE PrepareSelect(k) \/ PrepareDefer(k)
    <3>1. stim[Stim(k)].thread \in Threads
      BY TurnRowType DEF Stim, TaskRow, WorkTypeOK, Row
    <3>2. thread' = [thread EXCEPT ![stim[Stim(k)].thread] = PreparedThread(Stim(k))]
      BY <2>1 DEF PrepareSelect, PrepareDefer, Prepared
    <3>3. PreparedThread(Stim(k)) = thread[stim[Stim(k)].thread] \/ PreparedThread(Stim(k)) # "absent"
      BY DEF PreparedThread
    <3> QED
      BY <3>1, <3>2, <3>3
  <2>2. CASE CommitPost(k)
    <3>1. PICK u \in Targets(k) :
            thread' = IF Closes(k) THEN [thread EXCEPT ![u] = "closed"] ELSE thread
      BY <2>2 DEF CommitPost
    <3>2. u \in Threads
      BY TurnRowType DEF Targets, Stim, TaskRow, WorkTypeOK, Row
    <3> QED
      BY <3>1, <3>2
  <2>3. CASE CommitThread(k)
    BY <2>3 DEF CommitThread
  <2>4. CASE Complete(k)
    <3>1. stim[Stim(k)].thread \in Threads
      BY TurnRowType DEF Stim, TaskRow, WorkTypeOK, Row
    <3> QED
      BY <2>4, <3>1 DEF Complete
  <2>5. CASE ~(PrepareSelect(k) \/ PrepareDefer(k) \/ CommitPost(k) \/ CommitThread(k) \/ Complete(k))
    BY <1>3, <2>5 DEF TaskStep, Fault, StepAction, TurnAction, FinishAction, EndAction, Leave,
       Begin, ClaimEnds, ClaimNothing, Claim, PrepareAgain, TurnYield, TurnSkip, TurnStart,
       CallRefused, CallMade, GatewayAnswers, GatewayMisses, BackoffOver, Record, Lapsed,
       Defer, FailUncalled, FailCalled, Pass, CommitRejected, CommitRaises, Requeue, Release,
       Yield, TurnsOver, CompleteLost, Advance, Settle, Abort, Budget
  <2> QED
    BY <2>1, <2>2, <2>3, <2>4, <2>5
<1>4. CASE Rest
  BY <1>4 DEF Rest
<1>5. WorkerAction /\ ~Rest => thread' = thread
  BY DEF WorkerAction, Fail, Pausing
<1>6. CASE HumanPost \/ HumanSetStatus \/ HumanWake
  BY <1>6 DEF HumanPost, HumanSetStatus, HumanWake
<1>7. Request /\ ~(HumanPost \/ HumanSetStatus \/ HumanWake) => thread' = thread
  BY DEF Request, Start, EnsureRunner, Pause, Stop, RequestStep, SetEnabled, Reconfigure
<1>8. Outside \/ UNCHANGED vars => thread' = thread
  BY DEF Outside, BudgetExpires, TimePasses, Restart, vars
<1> QED
  BY <1>1, <1>2, <1>3, <1>4, <1>5, <1>6, <1>7, <1>8 DEF Next

\* What a commit found, and where its post went.
LEMMA CommitAdds ==
  ASSUME TypeInv, NEW k \in Tasks, CommitPost(k) \/ CommitThread(k)
  PROVE  \E t \in Threads :
           /\ posts' = posts \cup {<<Stim(k), Agent(k), t>>}
           /\ PostsUsed < MaxPosts
           /\ thread'[t] # "absent"
           /\ thread[t] = "absent" \/ Cardinality(PostsIn(t)) < ThreadQuota
<1> USE DEF TypeInv, TypeOK, BoardTypeOK
<1>1. CASE CommitPost(k)
  <2>1. PICK t \in Targets(k) :
          /\ Committable(k, t) /\ thread[t] = "active" /\ Posted(k, t)
          /\ thread' = IF Closes(k) THEN [thread EXCEPT ![t] = "closed"] ELSE thread
    BY <1>1 DEF CommitPost
  <2>2. t \in Threads /\ task[k].result # "new_thread"
    BY <1>1, TurnRowType DEF Targets, Stim, TaskRow, WorkTypeOK, Row, CommitPost
  <2> QED
    BY <2>1, <2>2 DEF Committable, Posted
<1>2. CASE CommitThread(k)
  BY <1>2 DEF CommitThread, Posted, Committable
<1> QED
  BY <1>1, <1>2

PostLimits ==
  /\ Cardinality(posts) <= MaxPosts
  /\ \A t \in Threads : Cardinality(PostsIn(t)) <= IF t = FirstThread THEN ThreadQuota
                                                                   ELSE ThreadQuota + 1
PostsOK == IsFiniteSet(posts) /\ ThreadsOpen /\ PostLimits

LEMMA PostsOKInductive ==
  ASSUME TypeInv, PostsOK, [Next]_vars
  PROVE  PostsOK'
<1>1. FirstThread \in Threads /\ ThreadQuota \in Nat /\ MaxPosts \in Nat /\ humanPosts \in Nat
  BY DeliveryAssumption DEF TypeInv, TypeOK, BoardTypeOK
<1>2. thread'[FirstThread] # "absent"
  BY <1>1, ThreadsStay DEF PostsOK, ThreadsOpen
<1>3. CASE posts' = posts
  BY <1>2, <1>3, ThreadsStay DEF PostsOK, ThreadsOpen, PostLimits, PostsIn
<1>4. CASE posts' # posts
  <2>1. PICK k \in Tasks : CommitPost(k) \/ CommitThread(k)
    BY <1>4, PostsByCommit
  <2>2. PICK t \in Threads :
           /\ posts' = posts \cup {<<Stim(k), Agent(k), t>>}
           /\ PostsUsed < MaxPosts
           /\ thread'[t] # "absent"
           /\ thread[t] = "absent" \/ Cardinality(PostsIn(t)) < ThreadQuota
    BY <2>1, CommitAdds
  <2> DEFINE new == <<Stim(k), Agent(k), t>>
  <2>3. new[3] = t /\ posts' = posts \cup {new}
    BY <2>2
  <2> HIDE DEF new
  <2>4. IsFiniteSet(posts) /\ Cardinality(posts) \in Nat
    BY FS_CardinalityType DEF PostsOK
  <2>5. IsFiniteSet(posts') /\ Cardinality(posts') <= MaxPosts
    <3>1. Cardinality(posts) < MaxPosts
      BY <1>1, <2>2, <2>4 DEF PostsUsed
    <3> QED
      BY <1>1, <2>3, <2>4, <3>1, FS_AddElement
  <2>6. /\ PostsIn(t)' = PostsIn(t) \cup {new}
        /\ \A u \in Threads \ {t} : PostsIn(u)' = PostsIn(u)
    BY <2>3 DEF PostsIn
  <2>7. IsFiniteSet(PostsIn(t)) /\ Cardinality(PostsIn(t)) \in Nat
    <3>1. PostsIn(t) \subseteq posts
      BY DEF PostsIn
    <3> QED
      BY <2>4, <3>1, FS_Subset, FS_CardinalityType
  <2>8. Cardinality(PostsIn(t)') <= IF t = FirstThread THEN ThreadQuota ELSE ThreadQuota + 1
    <3>1. Cardinality(PostsIn(t)') <= Cardinality(PostsIn(t)) + 1
      BY <2>6, <2>7, FS_AddElement
    <3>2. CASE thread[t] = "absent"
      <4>1. Cardinality(PostsIn(t)) = 0 /\ t # FirstThread
        BY <3>2, FS_EmptySet DEF PostsOK, ThreadsOpen
      <4> QED
        BY <1>1, <2>6, <2>7, <3>1, <4>1, FS_AddElement
    <3>3. CASE Cardinality(PostsIn(t)) < ThreadQuota
      BY <1>1, <2>6, <2>7, <3>1, <3>3, FS_AddElement
    <3> QED
      BY <2>2, <3>2, <3>3
  <2>9. PostLimits'
    BY <2>5, <2>6, <2>8 DEF PostsOK, PostLimits
  <2>10. ThreadsOpen'
    BY <1>2, <2>2, <2>6, ThreadsStay DEF PostsOK, ThreadsOpen
  <2> QED
    BY <2>5, <2>9, <2>10 DEF PostsOK
<1> QED
  BY <1>3, <1>4

LEMMA LimitsInit == Init => RoundLeft /\ rounds <= MaxRounds /\ PostsOK
<1> SUFFICES ASSUME Init PROVE RoundLeft /\ rounds <= MaxRounds /\ PostsOK
  OBVIOUS
<1>1. MaxRounds \in Nat /\ MaxPosts \in Nat /\ ThreadQuota \in Nat /\ FirstThread \in Threads
  BY DeliveryAssumption
<1>2. RoundLeft
  BY DEF Init, RoundLeft, Answered, At, Calls
<1>3. posts = {} /\ rounds = 0 /\ thread[FirstThread] = "active"
  BY <1>1 DEF Init
<1>4. \A t \in Threads : PostsIn(t) = {}
  BY <1>3 DEF PostsIn
<1> QED
  BY <1>1, <1>2, <1>3, <1>4, FS_EmptySet DEF PostsOK, ThreadsOpen, PostLimits

LEMMA LimitsAlways == Spec => [](RoundLeft /\ rounds <= MaxRounds /\ PostsOK)
<1>1. TypeInv /\ LeaseInv /\ RoundLeft /\ rounds <= MaxRounds /\ PostsOK /\ [Next]_vars
        => (RoundLeft /\ rounds <= MaxRounds /\ PostsOK)'
  BY RoundLeftInductive, PostsOKInductive DEF LeaseInv
<1> QED
  BY <1>1, LimitsInit, LeaseInductive, PTL DEF Spec

(* Rounds, posts and the posts of a thread stay within the limits of the    *)
(* run, for any limits, over every interleaving of pauses, deferred and     *)
(* resumed turns, explicit steps, faults and crashes: a round that was left *)
(* when a call was made is left when it is counted, and a commit checks its *)
(* quotas again in the transaction that posts.                              *)
THEOREM RunsKeepLimits == Spec => []LimitsKept
<1>1. rounds <= MaxRounds /\ PostsOK => LimitsKept
  BY DEF PostsOK, PostLimits, LimitsKept
<1> QED
  BY <1>1, LimitsAlways, PTL

-----------------------------------------------------------------------------
(* Revisits.  A thread's key for a revisit comes back only with a post, so    *)
(* that every revisit of its own accord answers a post of its own.            *)

IdleRoots(t) == {s \in Stimuli : /\ stim[s].state # "none" /\ stim[s].root = s
                                /\ stim[s].kind = "idle_revisit"
                                /\ stim[s].thread = t}
KeyLeft(t) == IF "idle" \in keys[t] THEN 0 ELSE 1
RevisitsOK == \A t \in Threads :
  Cardinality(IdleRoots(t)) + KeyLeft(t) <= 1 + Cardinality(PostsIn(t)) + humanPosts

LEMMA IdleRootsFinite ==
  ASSUME NEW t
  PROVE  IsFiniteSet(IdleRoots(t)) /\ IsFiniteSet(IdleRoots(t)')
<1>1. IsFiniteSet(Stimuli)
  BY DeliveryAssumption, FS_Interval DEF Stimuli
<1>2. IdleRoots(t) \subseteq Stimuli /\ IdleRoots(t)' \subseteq Stimuli
  BY DEF IdleRoots
<1> QED
  BY <1>1, <1>2, FS_Subset

LEMMA PostsInFinite ==
  ASSUME NEW t, IsFiniteSet(posts)
  PROVE  IsFiniteSet(PostsIn(t))
<1>1. PostsIn(t) \subseteq posts
  BY DEF PostsIn
<1> QED
  BY <1>1, FS_Subset

\* The post of a commit is a new one: its turn was still being called.
LEMMA CommitIsNew ==
  ASSUME TypeInv, PostsMatch, NEW k \in Tasks, CommitPost(k) \/ CommitThread(k)
  PROVE  \E t \in Threads : \E new :
           /\ new \notin posts /\ posts' = posts \cup {new} /\ new[3] = t
           /\ keys' = [keys EXCEPT ![t] = {}] /\ humanPosts' = humanPosts
<1>1. PICK t \in Threads : Posted(k, t)
  <2>1. CASE CommitPost(k)
    BY <2>1, TurnRowType DEF CommitPost, Targets, Stim, TaskRow, TypeInv, TypeOK,
       WorkTypeOK, Row
  <2>2. CASE CommitThread(k)
    BY <2>2 DEF CommitThread
  <2> QED
    BY <2>1, <2>2
<1> DEFINE new == <<Stim(k), Agent(k), t>>
<1>2. Stim(k) \in Stimuli /\ Agent(k) \in Agents /\ turn[Stim(k)][Agent(k)].state = "calling"
  BY FinishingTurn DEF CommitPost, CommitThread, Finishing, InTurn
<1>3. new \notin posts
  BY <1>2 DEF PostsMatch
<1>4. posts' = posts \cup {new} /\ new[3] = t
  BY <1>1 DEF Posted
<1>5. keys' = [keys EXCEPT ![t] = {}] /\ humanPosts' = humanPosts
  BY <1>1 DEF Posted
<1> QED
  BY <1>3, <1>4, <1>5

\* Without a post by an agent: a person's post, or the keys stay used.
LEMMA KeysStay ==
  ASSUME TypeInv, PostsMatch, [Next]_vars, posts' = posts
  PROVE  \/ humanPosts' = humanPosts + 1
         \/ /\ humanPosts' = humanPosts
            /\ \A t \in Threads : "idle" \in keys[t] => "idle" \in keys'[t]
<1> USE DEF boardVars
<1>0. ASSUME NEW k \in Tasks PROVE ~(CommitPost(k) \/ CommitThread(k))
  BY CommitIsNew
<1>1. CASE UNCHANGED <<keys, humanPosts>>
  BY <1>1
<1>2. ASSUME NEW k \in Tasks, TaskStep(k) \/ Fault(k), ~(CommitPost(k) \/ CommitThread(k))
      PROVE  UNCHANGED <<keys, humanPosts>>
  BY <1>2 DEF TaskStep, Fault, StepAction, TurnAction, FinishAction, EndAction, Leave,
     Begin, ClaimEnds, ClaimNothing, Claim, PrepareAgain, PrepareSelect, PrepareDefer,
     Prepared, TurnYield, TurnSkip, TurnStart, CallRefused, CallMade, GatewayAnswers,
     GatewayMisses, BackoffOver, Record, Lapsed, Defer, FailUncalled, FailCalled, Pass,
     CommitRejected, CommitRaises, Requeue, Release, Yield, TurnsOver, CompleteLost,
     Complete, Advance, Settle, Abort, Budget
<1>3. CASE Rest \/ HumanWake
  BY <1>3 DEF Rest, HumanWake, TypeInv, TypeOK, BoardTypeOK
<1>4. CASE HumanPost
  BY <1>4 DEF HumanPost
<1>5. WorkerAction /\ ~Rest => UNCHANGED <<keys, humanPosts>>
  BY DEF WorkerAction, Fail, Pausing
<1>6. Request /\ ~(HumanPost \/ HumanWake) => UNCHANGED <<keys, humanPosts>>
  BY DEF Request, Start, EnsureRunner, Pause, Stop, RequestStep, HumanSetStatus, SetEnabled,
     Reconfigure
<1>7. Outside \/ UNCHANGED vars => UNCHANGED <<keys, humanPosts>>
  BY DEF Outside, BudgetExpires, TimePasses, Restart, vars
<1> QED
  BY <1>0, <1>1, <1>2, <1>3, <1>4, <1>5, <1>6, <1>7 DEF Next

\* A new revisit of the board's own accord uses the thread's key.
LEMMA RevisitUsesKey ==
  ASSUME TypeInv, PrepareOwns, TableInv, [Next]_vars, NEW t \in Threads,
         NEW r \in IdleRoots(t)', r \notin IdleRoots(t)
  PROVE  /\ "idle" \notin keys[t] /\ "idle" \in keys'[t]
         /\ posts' = posts /\ humanPosts' = humanPosts
         /\ r \in FreeRow

<1>1. /\ r \in Stimuli /\ r \in Existing' /\ stim'[r].root = r
      /\ stim'[r].kind = "idle_revisit" /\ stim'[r].thread = t
  BY DEF IdleRoots, Existing
<1>2. r \notin Existing
  BY <1>1, OldRows DEF IdleRoots, Existing, SameInput
<1>3. stim[r].state = "none" /\ stim'[r].state # "none"
  BY <1>1, <1>2 DEF Existing
<1>4. r \in FreeRow
  BY <1>1, <1>2, NewRows
<1>5. ~RowsMove(stim')
  BY <1>1, <1>3 DEF RowsMove, RowMoves, Open, Leased
<1>6. ASSUME NEW k \in Tasks, Complete(k) PROVE FALSE
  <2>1. Stim(k) \in Existing /\ Stim(k) \in Stimuli
    BY <1>6, CompleteRows DEF Existing, Leased
  <2>2. Stim(k) < r /\ stim[Stim(k)].root <= Stim(k)
    BY <1>4, <2>1, FreeIsNext DEF TableInv
  <2>3. stim'[r].root = stim[Stim(k)].root
    <3>1. PICK q \in FreeRow :
            /\ stim'[q] = NewStimulus(stim[Stim(k)].thread, stim[Stim(k)].kind,
                            NoAgent, stim[Stim(k)].depth, AttemptedBy(Stim(k)),
                            stim[Stim(k)].root)
            /\ \A s \in Stimuli \ {Stim(k), q} : stim'[s] = stim[s]
      BY <1>1, <1>2, <1>3, <1>6, <2>1, CompleteRows
    <3>2. r = q
      BY <1>1, <1>2, <1>3, <2>1, <3>1
    <3> QED
      BY <3>1, <3>2 DEF NewStimulus
  <2>4. r \in Nat /\ Stim(k) \in Nat /\ stim[Stim(k)].root \in Nat
    BY SMTT(20), <1>1, <2>1, DeliveryAssumption DEF TypeInv, TypeOK, WorkTypeOK, Row, Stimuli
  <2> QED
    BY <1>1, <2>2, <2>3, <2>4
<1>7. Rest
  <2>1. PICK q, u, kind : Queued(q, u, kind) /\ (kind # "idle_revisit" \/ Rest)
    BY <1>5, <1>6, RowStep
  <2>2. PICK target, depth : stim' = [stim EXCEPT ![q] = NewStimulus(u, kind, target, depth, {}, q)]
    BY <2>1 DEF Queued
  <2>3. q = r
    BY <1>3, <2>2
  <2>4. stim'[r].kind = kind
    BY <1>1, <2>2, <2>3 DEF NewStimulus, TypeInv, TypeOK, WorkTypeOK
  <2> QED
    BY <1>1, <2>1, <2>4
<1>8. PICK u \in Threads, q \in FreeRow :
        /\ Revisitable(u)
        /\ keys' = [keys EXCEPT ![u] = @ \cup {"idle"}]
        /\ stim' = [stim EXCEPT ![q] = NewStimulus(u, "idle_revisit", NoAgent, 0, {}, q)]
  BY <1>3, <1>7 DEF Rest, Quiet
<1>9. q = r
  BY <1>3, <1>8
<1>10. u = t
  BY <1>1, <1>8, <1>9 DEF NewStimulus, TypeInv, TypeOK, WorkTypeOK
<1> QED
  BY <1>4, <1>7, <1>8, <1>10 DEF Rest, Revisitable, TypeInv, TypeOK, BoardTypeOK

LEMMA RevisitsInductive ==
  ASSUME TypeInv, PrepareOwns, TableInv, PostsMatch, IsFiniteSet(posts), RevisitsOK,
         [Next]_vars
  PROVE  RevisitsOK'
<1> SUFFICES ASSUME NEW t \in Threads
             PROVE  Cardinality(IdleRoots(t)') + KeyLeft(t)'
                      <= 1 + Cardinality(PostsIn(t)') + humanPosts'
  BY DEF RevisitsOK
<1> DEFINE n == Cardinality(IdleRoots(t))
           m == Cardinality(IdleRoots(t)')
           p == Cardinality(PostsIn(t))
           q == Cardinality(PostsIn(t)')
<1>1. IsFiniteSet(IdleRoots(t)) /\ IsFiniteSet(IdleRoots(t)')
  BY IdleRootsFinite
<1>2. IsFiniteSet(PostsIn(t))
  BY PostsInFinite
<1>3. n \in Nat /\ m \in Nat /\ p \in Nat /\ humanPosts \in Nat
  BY <1>1, <1>2, FS_CardinalityType DEF TypeInv, TypeOK, BoardTypeOK
<1>4. KeyLeft(t) \in {0, 1} /\ KeyLeft(t)' \in {0, 1}
  BY DEF KeyLeft
<1>5. n + KeyLeft(t) <= 1 + p + humanPosts
  BY DEF RevisitsOK
<1>6. CASE \E r : r \in IdleRoots(t)' /\ r \notin IdleRoots(t)
  <2>1. PICK r : r \in IdleRoots(t)' /\ r \notin IdleRoots(t)
    BY <1>6
  <2>2. /\ "idle" \notin keys[t] /\ "idle" \in keys'[t]
        /\ posts' = posts /\ humanPosts' = humanPosts
    BY <2>1, RevisitUsesKey
  <2>3. IdleRoots(t)' \subseteq IdleRoots(t) \cup {r}
    <3>1. ASSUME NEW s \in IdleRoots(t)', s \notin IdleRoots(t) PROVE s = r
      <4>1. s \in FreeRow /\ r \in FreeRow
        BY <2>1, <3>1, RevisitUsesKey
      <4>2. s \in Stimuli /\ r \in Stimuli
        BY <2>1 DEF IdleRoots
      <4>3. ~(s < r) /\ ~(r < s)
        BY <4>1, <4>2, FreeIsNext
      <4> QED
        BY <4>2, <4>3, DeliveryAssumption DEF Stimuli
    <3> QED
      BY <3>1
  <2>4. m <= n + 1
    <3>0. /\ IsFiniteSet(IdleRoots(t) \cup {r})
          /\ Cardinality(IdleRoots(t) \cup {r}) = IF r \in IdleRoots(t) THEN n ELSE n + 1
      BY <1>1, FS_AddElement
    <3>1. IsFiniteSet(IdleRoots(t) \cup {r}) /\ Cardinality(IdleRoots(t) \cup {r}) <= n + 1
      BY <2>1, <3>0, <1>3
    <3>2. m <= Cardinality(IdleRoots(t) \cup {r})
      BY <2>3, <3>1, FS_Subset
    <3>3. Cardinality(IdleRoots(t) \cup {r}) \in Nat
      BY <3>1, FS_CardinalityType
    <3> QED
      BY <1>3, <3>1, <3>2, <3>3
  <2>5. KeyLeft(t) = 1 /\ KeyLeft(t)' = 0 /\ q = p
    BY <2>2 DEF KeyLeft, PostsIn
  <2> HIDE DEF n, m, p, q
  <2> QED
    BY <1>3, <1>5, <2>2, <2>4, <2>5 DEF n, m, p, q
<1>7. CASE IdleRoots(t)' \subseteq IdleRoots(t)
  <2>1. m <= n
    BY <1>1, <1>7, FS_Subset
  <2>2. CASE posts' # posts
    <3>1. PICK k \in Tasks : CommitPost(k) \/ CommitThread(k)
      BY <2>2, PostsByCommit
    <3>2. PICK u, new :
           /\ u \in Threads
           /\ new \notin posts /\ posts' = posts \cup {new} /\ new[3] = u
           /\ keys' = [keys EXCEPT ![u] = {}] /\ humanPosts' = humanPosts
      BY <3>1, CommitIsNew
    <3>3. CASE u = t
      <4>1. PostsIn(t)' = PostsIn(t) \cup {new} /\ new \notin PostsIn(t)
        BY <3>2, <3>3 DEF PostsIn
      <4>2. q = p + 1
        BY <1>2, <4>1, FS_AddElement
      <4> HIDE DEF n, m, p, q
      <4> QED
        BY <1>3, <1>4, <1>5, <2>1, <3>2, <4>2 DEF n, m, p, q
    <3>4. CASE u # t
      <4>1. KeyLeft(t)' = KeyLeft(t) /\ q = p
        BY <3>2, <3>4 DEF KeyLeft, PostsIn, TypeInv, TypeOK, BoardTypeOK
      <4> HIDE DEF n, m, p, q
      <4> QED
        BY <1>3, <1>4, <1>5, <2>1, <3>2, <4>1 DEF n, m, p, q
    <3> QED
      BY <3>3, <3>4
  <2>3. CASE posts' = posts
    <3>1. q = p
      BY <2>3 DEF PostsIn
    <3>2. \/ humanPosts' = humanPosts + 1
          \/ humanPosts' = humanPosts /\ KeyLeft(t)' <= KeyLeft(t)
      BY <1>4, <2>3, KeysStay DEF KeyLeft
    <3> HIDE DEF n, m, p, q
    <3> QED
      BY <1>3, <1>4, <1>5, <2>1, <3>1, <3>2 DEF n, m, p, q
  <2> QED
    BY <2>2, <2>3
<1> QED
  BY <1>6, <1>7

(* A board with nothing new falls silent, for any number of threads and     *)
(* however often they go dormant and are woken: it revisits a thread of its *)
(* own accord at most once for the opening post and once for each later     *)
(* post (_idle_maintenance and its dedupe key).                             *)
THEOREM BoardFallsSilent == Spec => []RevisitsFollowPosts
<1>1. Init => PostsMatch /\ RevisitsOK
  <2> SUFFICES ASSUME Init, NEW t \in Threads
               PROVE  Cardinality(IdleRoots(t)) + KeyLeft(t)
                        <= 1 + Cardinality(PostsIn(t)) + humanPosts
    BY PostsMatchInit DEF RevisitsOK
  <2>1. \A s \in Stimuli : stim[s].kind = "human_post"
    BY DEF Init, NewStimulus
  <2>2. IdleRoots(t) = {} /\ PostsIn(t) = {} /\ KeyLeft(t) = 1 /\ humanPosts = 0
    BY <2>1 DEF Init, IdleRoots, PostsIn, KeyLeft
  <2> QED
    BY <2>2, FS_EmptySet
<1>2. TypeInv /\ LeaseInv /\ ChainInv /\ PostsOK /\ PostsMatch /\ RevisitsOK /\ [Next]_vars
        => PostsMatch' /\ RevisitsOK'
  BY PostsMatchInductive, RevisitsInductive DEF LeaseInv, ChainInv, PostsOK
<1>3. TypeInv /\ PostsOK /\ RevisitsOK => RevisitsFollowPosts
  <2> SUFFICES ASSUME TypeInv, PostsOK, RevisitsOK, NEW t \in Threads
               PROVE  Cardinality(IdleRoots(t)) <= 1 + Cardinality(PostsIn(t)) + humanPosts
    BY DEF RevisitsFollowPosts, IdleRoots
  <2>1. Cardinality(IdleRoots(t)) \in Nat /\ Cardinality(PostsIn(t)) \in Nat /\ humanPosts \in Nat
    BY IdleRootsFinite, PostsInFinite, FS_CardinalityType
       DEF PostsOK, TypeInv, TypeOK, BoardTypeOK
  <2>2. KeyLeft(t) \in {0, 1} /\ Cardinality(IdleRoots(t)) + KeyLeft(t)
                                   <= 1 + Cardinality(PostsIn(t)) + humanPosts
    BY DEF KeyLeft, RevisitsOK
  <2> QED
    BY <2>1, <2>2
<1> QED
  BY <1>1, <1>2, <1>3, ChainAlways, LimitsAlways, PTL DEF Spec

-----------------------------------------------------------------------------
(* The virtual clock.  Between the completion of a stimulus and its tick the  *)
(* task is not suspended: only a fault or a crash comes between them, and     *)
(* since one task at a time is in a step, it loses one tick at most.          *)

Completions == {s \in Stimuli : stim[s].state = "completed"}
DueTicks    == {s \in Stimuli : \E k \in Tasks : task[k].pc = "advance" /\ task[k].stim = s}
ClockInv ==
  /\ ticked \subseteq Completions
  /\ VirtualTime => \E lost \in SUBSET Stimuli :
       /\ Cardinality(lost) <= faults + crashes
       /\ Completions \subseteq ticked \cup lost \cup DueTicks

LEMMA TickedGrows ==
  ASSUME [Next]_vars
  PROVE  ticked \subseteq ticked'
<1> USE DEF runVars
<1>1. CASE UNCHANGED vars
  BY <1>1 DEF vars
<1>2. ASSUME NEW k \in Tasks, StepAction(k) \/ TurnAction(k) PROVE ticked' = ticked
  BY <1>2 DEF StepAction, TurnAction, Leave, Begin, ClaimEnds, ClaimNothing, Claim,
     PrepareAgain, PrepareSelect, PrepareDefer, Prepared, TurnYield, TurnSkip, TurnStart,
     CallRefused, CallMade, GatewayAnswers, GatewayMisses, BackoffOver
<1>3. ASSUME NEW k \in Tasks, FinishAction(k) PROVE ticked' = ticked
  BY <1>3 DEF FinishAction, Record, Lapsed, Defer, FailUncalled, FailCalled, Pass,
     CommitRejected, CommitRaises, CommitPost, CommitThread, Posted
<1>4. ASSUME NEW k \in Tasks, EndAction(k) \/ Fault(k) PROVE ticked \subseteq ticked'
  BY <1>4 DEF EndAction, Fault, Requeue, Release, Yield, TurnsOver, CompleteLost, Complete,
     Advance, Settle, Abort, Budget
<1>5. WorkerAction \/ Request \/ Outside => ticked' = ticked
  BY DEF WorkerAction, Rest, Fail, Pausing, Request, Start, EnsureRunner, Pause, Stop,
     RequestStep, HumanPost, HumanSetStatus, HumanWake, SetEnabled, Reconfigure,
     Outside, BudgetExpires, TimePasses, Restart
<1> QED
  BY <1>1, <1>2, <1>3, <1>4, <1>5 DEF Next, TaskStep

LEMMA CrashesCounted ==
  ASSUME TypeInv, [Next]_vars
  PROVE  crashes \in Nat /\ crashes' = (IF Restart THEN crashes + 1 ELSE crashes)
<1> USE DEF envVars
<1>0. crashes \in Nat
  BY DEF TypeInv, TypeOK
<1>1. CASE UNCHANGED vars
  BY <1>0, <1>1 DEF vars, Restart
<1>2. ASSUME NEW k \in Tasks, StepAction(k) \/ TurnAction(k) PROVE crashes' = crashes
  BY <1>2 DEF StepAction, TurnAction, Leave, Begin, ClaimEnds, ClaimNothing, Claim,
     PrepareAgain, PrepareSelect, PrepareDefer, Prepared, TurnYield, TurnSkip, TurnStart,
     CallRefused, CallMade, GatewayAnswers, GatewayMisses, BackoffOver
<1>3. ASSUME NEW k \in Tasks, FinishAction(k) PROVE crashes' = crashes
  BY <1>3 DEF FinishAction, Record, Lapsed, Defer, FailUncalled, FailCalled, Pass,
     CommitRejected, CommitRaises, CommitPost, CommitThread, Posted
<1>4. ASSUME NEW k \in Tasks, EndAction(k) \/ Fault(k) PROVE crashes' = crashes
  BY <1>4 DEF EndAction, Fault, Requeue, Release, Yield, TurnsOver, CompleteLost, Complete,
     Advance, Settle, Abort, Budget
<1>5. WorkerAction \/ Request \/ BudgetExpires \/ TimePasses => crashes' = crashes
  BY DEF WorkerAction, Rest, Fail, Pausing, Request, Start, EnsureRunner, Pause, Stop,
     RequestStep, HumanPost, HumanSetStatus, HumanWake, SetEnabled, Reconfigure,
     BudgetExpires, TimePasses
<1>6. Restart => crashes' = crashes + 1
  BY DEF Restart
<1> QED
  BY <1>0, <1>1, <1>2, <1>3, <1>4, <1>5, <1>6 DEF Next, TaskStep, Outside

\* While a task is not suspended, nobody else moves it but a crash.
LEMMA OnlyMine ==
  ASSUME TypeInv, [Next]_vars, NEW k \in Tasks, ~(TaskStep(k) \/ Fault(k)),
         task[k].pc \notin Suspended \cup {"rest", "fail", "pausing"}, ~Restart
  PROVE  task'[k] = task[k]
<1> USE DEF TypeInv, TypeOK
<1>1. CASE UNCHANGED vars
  BY <1>1 DEF vars
<1>2. CASE \E j \in Tasks : TaskStep(j) \/ Fault(j)
  BY <1>2, StepOthers DEF Others, Untouched, Suspended
<1>3. CASE WorkerAction
  <2>1. "worker" \in Tasks /\ k # "worker"
    BY <1>3 DEF WorkerAction, Rest, Fail, Pausing, Tasks
  <2>2. Others("worker")
    BY <1>3, <2>1, BecomeOthers DEF WorkerAction, Rest, Fail, Pausing, Goto
  <2> QED
    BY <2>1, <2>2 DEF Others, Untouched, Suspended
<1>4. ~LoopFree
  BY DEF LoopFree
<1>5. ~Request /\ ~BudgetExpires /\ ~TimePasses
  BY <1>4 DEF Request, Start, EnsureRunner, Pause, Stop, RequestStep, HumanPost,
     HumanSetStatus, HumanWake, SetEnabled, Reconfigure, BudgetExpires, TimePasses
<1> QED
  BY <1>1, <1>2, <1>3, <1>5 DEF Next, Outside

\* A completed stimulus stays completed.
LEMMA CompletedStays ==
  ASSUME TypeInv, LeaseInv, [Next]_vars
  PROVE  Completions \subseteq Completions'
<1> SUFFICES ASSUME NEW s \in Stimuli, stim[s].state = "completed"
             PROVE  stim'[s] = stim[s]
  BY DEF Completions
<1>1. CASE RowsMove(stim')
  BY <1>1 DEF RowsMove, RowMoves, Open, Leased
<1>2. ASSUME NEW r, NEW t, NEW kind, Queued(r, t, kind) PROVE stim'[s] = stim[s]
  BY <1>2 DEF Queued, FreeRow, TypeInv, TypeOK, WorkTypeOK
<1>3. ASSUME NEW k \in Tasks, Complete(k) PROVE stim'[s] = stim[s]
  <2>1. s # Stim(k)
    BY <1>3, CompleteRows DEF Leased
  <2>2. PICK st \in Completed(k) : stim' = st
    BY <1>3 DEF Complete
  <2>3. CASE ~HandsOff(k)
    BY <2>1, <2>2, <2>3 DEF Completed, TypeInv, TypeOK, WorkTypeOK
  <2>4. CASE HandsOff(k)
    <3>1. PICK r \in FreeRow : \E row :
            stim' = [[stim EXCEPT ![Stim(k)].state = "completed", ![Stim(k)].token = NoToken]
                       EXCEPT ![r] = row]
      BY <2>2, <2>4 DEF Completed
    <3> QED
      BY <2>1, <3>1 DEF FreeRow, TypeInv, TypeOK, WorkTypeOK
  <2> QED
    BY <2>3, <2>4
<1> QED
  BY <1>1, <1>2, <1>3, RowStep DEF LeaseInv

\* Ticks are counted for completed stimuli.
LEMMA TicksCounted ==
  ASSUME TypeInv, [Next]_vars
  PROVE  ticked' \subseteq ticked \cup Completions
<1> USE DEF runVars
<1>1. CASE \E k \in Tasks : Advance(k)
  BY <1>1, TurnRowType DEF Advance, ClockMoves, Completions
<1>2. ASSUME NEW k \in Tasks, StepAction(k) \/ TurnAction(k) PROVE ticked' = ticked
  BY <1>2 DEF StepAction, TurnAction, Leave, Begin, ClaimEnds, ClaimNothing, Claim,
     PrepareAgain, PrepareSelect, PrepareDefer, Prepared, TurnYield, TurnSkip, TurnStart,
     CallRefused, CallMade, GatewayAnswers, GatewayMisses, BackoffOver
<1>3. ASSUME NEW k \in Tasks, FinishAction(k) PROVE ticked' = ticked
  BY <1>3 DEF FinishAction, Record, Lapsed, Defer, FailUncalled, FailCalled, Pass,
     CommitRejected, CommitRaises, CommitPost, CommitThread, Posted
<1>4. ASSUME NEW k \in Tasks, EndAction(k) \/ Fault(k), ~Advance(k) PROVE ticked' = ticked
  BY <1>4 DEF EndAction, Fault, Requeue, Release, Yield, TurnsOver, CompleteLost, Complete,
     Settle, Abort, Budget
<1>5. WorkerAction \/ Request \/ Outside \/ UNCHANGED vars => ticked' = ticked
  BY DEF WorkerAction, Rest, Fail, Pausing, Request, Start, EnsureRunner, Pause, Stop,
     RequestStep, HumanPost, HumanSetStatus, HumanWake, SetEnabled, Reconfigure,
     Outside, BudgetExpires, TimePasses, Restart, vars
<1> QED
  BY <1>1, <1>2, <1>3, <1>4, <1>5 DEF Next, TaskStep

\* One task at a time is about to move the clock.
LEMMA OneTickDue ==
  ASSUME OneInStep
  PROVE  \E x : DueTicks \subseteq {x}
<1>1. \A j, k \in Tasks : task[j].pc = "advance" /\ task[k].pc = "advance" => j = k
  BY DEF OneInStep, InStep
<1> QED
  BY <1>1 DEF DueTicks

\* A due tick is counted, unless a fault or a crash comes first.
LEMMA DueTickMoves ==
  ASSUME TypeInv, [Next]_vars, NEW s \in DueTicks, VirtualTime, s \in Completions,
         ~Restart, \A k \in Tasks : ~Fault(k)
  PROVE  s \in ticked' \cup DueTicks'
<1>1. s \in Stimuli
  BY DEF DueTicks
<1>2. PICK k \in Tasks : task[k].pc = "advance" /\ task[k].stim = s
  BY DEF DueTicks
<1>3. CASE TaskStep(k)
  <2>1. Advance(k)
    BY <1>2, <1>3 DEF TaskStep, StepAction, TurnAction, FinishAction, EndAction, Leave,
       Begin, ClaimEnds, ClaimNothing, Claim, PrepareAgain, PrepareSelect, PrepareDefer,
       Prepared, TurnYield, TurnSkip, TurnStart, CallRefused, CallMade, GatewayAnswers,
       GatewayMisses, BackoffOver, Record, Lapsed, Finishing, Defer, FailUncalled,
       FailCalled, Pass, CommitRejected, CommitRaises, CommitPost, CommitThread, Requeue,
       Release, Yield, TurnsOver, CompleteLost, Complete, Settle, Abort, Budget
  <2> QED
    BY <1>2, <2>1 DEF Advance, ClockMoves, Stim, Completions
<1>4. CASE ~TaskStep(k)
  <2>1. task'[k] = task[k]
    BY <1>2, <1>4, OnlyMine DEF Suspended
  <2> QED
    BY <1>1, <1>2, <2>1 DEF DueTicks
<1> QED
  BY <1>3, <1>4

LEMMA ClockInductive ==
  ASSUME TypeInv, LeaseInv, ClockInv, [Next]_vars
  PROVE  ClockInv'
<1> DEFINE f == faults
           g == faults'
           c == crashes
           d == crashes'
<1>0. /\ f \in Nat /\ g \in Nat /\ c \in Nat /\ d \in Nat
      /\ g = f \/ g = f + 1
      /\ d = c \/ d = c + 1
  BY FaultsCounted, CrashesCounted
<1>1. ticked' \subseteq Completions'
  BY TicksCounted, CompletedStays DEF ClockInv
<1>2. ASSUME VirtualTime
      PROVE  \E lost \in SUBSET Stimuli :
               /\ Cardinality(lost) <= faults' + crashes'
               /\ Completions' \subseteq ticked' \cup lost \cup DueTicks'
  <2>1. PICK lost \in SUBSET Stimuli :
          /\ Cardinality(lost) <= faults + crashes
          /\ Completions \subseteq ticked \cup lost \cup DueTicks
    BY <1>2 DEF ClockInv
  <2>2. Completions' \ Completions \subseteq DueTicks'
    <3> SUFFICES ASSUME NEW s \in Stimuli, stim'[s].state = "completed",
                        stim[s].state # "completed"
                 PROVE  s \in DueTicks'
      BY DEF Completions
    <3>1. PICK k \in Tasks : Complete(k) /\ s = Stim(k)
      BY NewlyCompleted
    <3>2. task'[k] = [task[k] EXCEPT !.pc = "advance"]
      BY <3>1, BecomeRow DEF Complete, Goto, TypeInv, TypeOK
    <3>3. task'[k].pc = "advance" /\ task'[k].stim = task[k].stim
      BY <3>2, TurnRowType DEF TaskRow
    <3> QED
      BY <3>1, <3>3 DEF Stim, DueTicks
  <2>3. ticked \subseteq ticked'
    BY TickedGrows
  <2>4. CASE ~Restart /\ \A k \in Tasks : ~Fault(k)
    <3>1. faults' + crashes' = faults + crashes
      BY <2>4, FaultsCounted, CrashesCounted
    <3>2. DueTicks \cap Completions \subseteq ticked' \cup DueTicks'
      BY <1>2, <2>4, DueTickMoves
    <3> QED
      BY <2>1, <2>2, <2>3, <3>1, <3>2
  <2>5. CASE Restart \/ \E k \in Tasks : Fault(k)
    <3>1. faults + crashes + 1 <= faults' + crashes'
      <4>1. g = f + 1 \/ d = c + 1
        BY <2>5, FaultsCounted, CrashesCounted
      <4> HIDE DEF f, g, c, d
      <4>2. f + c + 1 <= g + d
        BY <1>0, <4>1
      <4> QED
        BY <4>2 DEF f, g, c, d
    <3>2. PICK x : DueTicks \subseteq {x}
      BY OneTickDue DEF LeaseInv
    <3>3. IsFiniteSet(Stimuli)
      BY FS_Interval, DeliveryAssumption DEF Stimuli
    <3>4. /\ IsFiniteSet(lost) /\ Cardinality(lost) \in Nat
          /\ Cardinality(lost \cup {x}) <= Cardinality(lost) + 1
          /\ IsFiniteSet(lost \cup {x}) /\ Cardinality(lost \cup {x}) \in Nat
      BY <3>3, FS_Subset, FS_AddElement, FS_CardinalityType
    <3> DEFINE more == lost \cup DueTicks
    <3>5. more \in SUBSET Stimuli /\ more \in SUBSET (lost \cup {x})
      BY <3>2 DEF DueTicks
    <3>6. Cardinality(more) \in Nat /\ Cardinality(more) <= Cardinality(lost \cup {x})
      BY <3>4, <3>5, FS_Subset, FS_CardinalityType
    <3>7. Completions' \subseteq ticked' \cup more \cup DueTicks'
      BY <2>1, <2>2, <2>3
    <3> HIDE DEF more
    <3>8. Cardinality(more) <= faults' + crashes'
      <4>1. f + c + 1 <= g + d /\ Cardinality(lost) <= f + c
        BY <2>1, <3>1
      <4> HIDE DEF f, g, c, d
      <4>2. Cardinality(more) <= g + d
        BY <1>0, <3>4, <3>6, <4>1
      <4> QED
        BY <4>2 DEF g, d
    <3> QED
      BY <3>5, <3>7, <3>8
  <2> QED
    BY <2>4, <2>5
<1> QED
  BY <1>1, <1>2 DEF ClockInv

(* "The clock advances once after a completed stimulus": each crash and     *)
(* each fault costs at most one tick, for any number of them and of         *)
(* stimuli, whatever people do and whoever ends the run meanwhile; with     *)
(* none, all completions are counted whenever no task is in a step          *)
(* (_complete_claim and _advance_virtual_time are two transactions).        *)
THEOREM ClockKeepsUp == Spec => []ClockLosesFewTicks
<1>1. Init => ClockInv
  <2> SUFFICES ASSUME Init PROVE ClockInv
    OBVIOUS
  <2>1. ASSUME NEW s \in Stimuli PROVE stim[s].state # "completed"
    <3>1. NewStimulus(FirstThread, "human_post", NoAgent, 0, {}, s).state = "pending"
      BY DEF NewStimulus
    <3> QED
      BY <3>1 DEF Init, NewStimulus
  <2>2. Completions = {} /\ ticked = {} /\ Cardinality({}) <= faults + crashes
    BY <2>1, FS_EmptySet DEF Init, Completions
  <2> QED
    BY <2>2 DEF ClockInv
<1>2. TypeInv /\ LeaseInv /\ ClockInv /\ [Next]_vars => ClockInv'
  BY ClockInductive
<1>3. TypeInv /\ ClockInv => ClockLosesFewTicks
  <2> SUFFICES ASSUME TypeInv, ClockInv, VirtualTime, LockFree
               PROVE  Cardinality(Completions \ ticked) <= faults + crashes
    BY DEF ClockInv, ClockLosesFewTicks, Completions
  <2>1. PICK lost \in SUBSET Stimuli :
          /\ Cardinality(lost) <= faults + crashes
          /\ Completions \subseteq ticked \cup lost \cup DueTicks
    BY DEF ClockInv
  <2>2. DueTicks = {}
    BY DEF LockFree, DueTicks
  <2>3. IsFiniteSet(Stimuli)
    BY FS_Interval, DeliveryAssumption DEF Stimuli
  <2>4. IsFiniteSet(lost) /\ Completions \ ticked \in SUBSET lost
    BY <2>1, <2>2, <2>3, FS_Subset
  <2>5. /\ Cardinality(lost) \in Nat /\ Cardinality(Completions \ ticked) \in Nat
        /\ Cardinality(Completions \ ticked) <= Cardinality(lost)
    BY <2>4, FS_Subset, FS_CardinalityType
  <2> QED
    BY <2>1, <2>5 DEF TypeInv, TypeOK
<1> QED
  BY <1>1, <1>2, <1>3, LeaseInductive, PTL DEF Spec

-----------------------------------------------------------------------------
(* Manual control.  A run that is running was let go by a person, or an       *)
(* explicit step is on its way and will pause it again.                       *)

Stepping  == Claimed \cup {"advance", "settle", "abort"}
StepOnce  == task["stepper"].once /\ task["stepper"].pc \in Stepping
Let       == runState = "running" => freeRun # "no" \/ StepOnce
ClaimRuns == task["worker"].pc = "claim" => runState = "running"

\* An explicit step keeps its mark until it pauses the run again.
LEMMA StepKeepsOnce ==
  ASSUME TypeInv, NEW k \in Tasks, TaskStep(k), task[k].pc \in Stepping,
         ~Settle(k), ~Abort(k)
  PROVE  /\ task'[k].once = task[k].once /\ task'[k].pc \in Stepping
         /\ freeRun' = freeRun
         /\ runState' = "running" => runState = "running"
<1> USE DEF TypeInv, TypeOK, runVars
<1>0. task[k] \in TaskRow
  BY TurnRowType
<1>1. CASE StepAction(k)
  <2>1. PrepareAgain(k) \/ PrepareSelect(k) \/ PrepareDefer(k)
    BY <1>1 DEF StepAction, Leave, Begin, ClaimEnds, ClaimNothing, Claim, Stepping, Claimed, Calls
  <2>2. CASE PrepareAgain(k) \/ PrepareSelect(k)
    <3>1. PICK todo : Become(k, [task[k] EXCEPT !.pc = "turn", !.todo = todo])
      BY <2>2 DEF PrepareAgain, PrepareSelect
    <3>2. task'[k].pc = "turn" /\ task'[k].once = task[k].once
      BY <1>0, <3>1, BecomeRow DEF TaskRow
    <3>3. UNCHANGED <<freeRun, runState>>
      BY <2>2 DEF PrepareAgain, PrepareSelect, Prepared
    <3> QED
      BY <3>2, <3>3 DEF Stepping, Claimed
  <2>3. CASE PrepareDefer(k)
    BY <1>0, <2>3, BecomeRow DEF PrepareDefer, Prepared, Goto, TaskRow, Stepping, Claimed
  <2> QED
    BY <2>1, <2>2, <2>3
<1>2. CASE TurnAction(k)
  <2>1. UNCHANGED <<freeRun, runState>>
    BY <1>2 DEF TurnAction, TurnYield, TurnSkip, TurnStart, CallRefused, CallMade,
       GatewayAnswers, GatewayMisses, BackoffOver
  <2> QED
    BY <1>2, <2>1, TurnActionRow DEF Stepping, Claimed
<1>3. CASE FinishAction(k)
  <2>1. /\ NextTurn(k).pc = "turn" /\ NextTurn(k).once = task[k].once
        /\ NextTurn(k) \in TaskRow
    BY NextTurnRow
  <2>2. CASE Lapsed(k) \/ FailUncalled(k) \/ Pass(k) \/ CommitRejected(k)
    BY <2>1, <2>2, BecomeRow DEF Lapsed, FailUncalled, Pass, CommitRejected, TaskRow,
       Stepping, Claimed
  <2>3. CASE FailCalled(k)
    <3>1. task'[k] = NextTurn(k) /\ freeRun' = freeRun
      BY <2>3, BecomeRow DEF FailCalled
    <3>2. runState' = runState \/ runState' = "failed"
      BY <2>3 DEF FailCalled, EndRun
    <3> QED
      BY <2>1, <3>1, <3>2 DEF Stepping, Claimed
  <2>4. CASE CommitPost(k) \/ CommitThread(k)
    <3>1. PICK t : Posted(k, t)
      BY <2>4 DEF CommitPost, CommitThread
    <3>2. task'[k] = [NextTurn(k) EXCEPT !.made = TRUE]
      BY <3>1, PostedOthers
    <3> QED
      BY <2>1, <3>1, <3>2 DEF Posted, TaskRow, Stepping, Claimed
  <2>5. CASE Record(k) \/ Defer(k) \/ CommitRaises(k)
    BY <1>0, <2>5, BecomeRow DEF Record, Defer, CommitRaises, Goto, TaskRow, Stepping,
       Claimed, Calls
  <2> QED
    BY <1>3, <2>2, <2>3, <2>4, <2>5 DEF FinishAction
<1>4. CASE EndAction(k)
  <2>1. \E pc \in {"abort", "complete", "advance", "settle"} : Goto(k, pc)
    BY <1>4 DEF EndAction, Requeue, Release, Yield, TurnsOver, CompleteLost, Complete,
       Advance, Budget, Stepping, Claimed, Calls
  <2>2. UNCHANGED <<freeRun, runState>>
    BY <1>4 DEF EndAction, Requeue, Release, Yield, TurnsOver, CompleteLost, Complete,
       Advance, Budget, Stepping, Claimed, Calls
  <2> QED
    BY <1>0, <2>1, <2>2, BecomeRow DEF Goto, TaskRow, Stepping, Claimed
<1> QED
  BY <1>1, <1>2, <1>3, <1>4 DEF TaskStep

\* A task lets the run go on only as it was, or for the one step it makes.
LEMMA TaskLets ==
  ASSUME TypeInv, OneInStep, NEW k \in Tasks, TaskStep(k), Let, runState' = "running"
  PROVE  freeRun' # "no" \/ StepOnce'
<1> USE DEF TypeInv, TypeOK, runVars
<1>0. "stepper" \in Tasks /\ "worker" \in Tasks /\ (k = "stepper" \/ k = "worker")
  BY DEF Tasks
<1>1. CASE task[k].pc \in Stepping /\ ~Settle(k) /\ ~Abort(k)
  <2>1. /\ task'[k].once = task[k].once /\ task'[k].pc \in Stepping
        /\ freeRun' = freeRun /\ runState = "running"
    BY <1>1, StepKeepsOnce
  <2>2. CASE k = "stepper"
    BY <2>1, <2>2 DEF Let, StepOnce
  <2>3. CASE k # "stepper"
    <3>1. task["stepper"].pc \notin Stepping
      BY <1>0, <1>1, <2>3 DEF OneInStep, InStep, Stepping, Claimed, Calls
    <3> QED
      BY <2>1, <3>1 DEF Let, StepOnce
  <2> QED
    BY <2>2, <2>3
<1>2. CASE Settle(k) \/ Abort(k)
  <2>1. runState = "running" /\ ~task[k].once /\ freeRun' = freeRun
    BY <1>2 DEF Settle, Abort, StepEnds
  <2>2. task["stepper"].pc \notin Stepping \/ k = "stepper"
    BY <1>0, <1>2 DEF OneInStep, InStep, Stepping, Claimed, Calls, Settle, Abort
  <2> QED
    BY <2>1, <2>2 DEF Let, StepOnce
<1>3. CASE Claim(k) \/ ClaimNothing(k) \/ ClaimEnds(k)
  <2>1. task["stepper"].pc \notin Stepping
    BY <1>0, <1>3 DEF OneInStep, InStep, Stepping, Claimed, Calls, Claim, ClaimNothing, ClaimEnds
  <2>2. CASE StepsOnce(k)
    <3>1. Claim(k) /\ k = "stepper"
      BY <1>3, <2>2 DEF ClaimNothing, ClaimEnds, EndRun, StepsOnce
    <3> QED
      BY <2>2, <3>1, ClaimRow DEF StepOnce, Stepping, Claimed
  <2>3. CASE ~StepsOnce(k)
    BY <1>3, <2>1, <2>3 DEF Claim, ClaimNothing, ClaimEnds, EndRun, Let, StepOnce
  <2> QED
    BY <2>2, <2>3
<1>4. CASE Leave(k) \/ Begin(k)
  <2>1. task["stepper"].pc \notin Stepping
    BY <1>0, <1>4 DEF Leave, Begin, LockFree, Stepping, Claimed, Calls
  <2> QED
    BY <1>4, <2>1 DEF Leave, Begin, Let, StepOnce
<1>5. CASE Budget(k)
  <2>1. task["stepper"].pc \notin Stepping
    BY <1>0, <1>5 DEF OneInStep, InStep, Stepping, Claimed, Calls, Budget
  <2> QED
    BY <1>5, <2>1 DEF Budget, EndRun, Let, StepOnce
<1>6. \/ task[k].pc \in Stepping \/ Claim(k) \/ ClaimNothing(k) \/ ClaimEnds(k)
      \/ Leave(k) \/ Begin(k) \/ Budget(k)
  BY DEF TaskStep, StepAction, TurnAction, FinishAction, EndAction, PrepareAgain,
     PrepareSelect, PrepareDefer, Prepared, TurnYield, TurnSkip, TurnStart, CallRefused,
     CallMade, GatewayAnswers, GatewayMisses, BackoffOver, Record, Lapsed, Finishing, Defer,
     FailUncalled, FailCalled, Pass, CommitRejected, CommitRaises, CommitPost, CommitThread,
     Requeue, Release, Yield, TurnsOver, CompleteLost, Complete, Advance, Settle, Abort,
     Stepping, Claimed, Calls
<1> QED
  BY <1>1, <1>2, <1>3, <1>4, <1>5, <1>6

LEMMA ElsewhereLets ==
  ASSUME TypeInv, WorkerAction \/ Request \/ Outside, Let, runState' = "running"
  PROVE  freeRun' # "no" \/ StepOnce'
<1> USE DEF TypeInv, TypeOK, runVars
<1>0. "stepper" \in Tasks /\ "worker" \in Tasks /\ "worker" # "stepper"
  BY DEF Tasks
<1>1. CASE task'["stepper"] = task["stepper"] /\ runState = "running" /\ freeRun' = freeRun
  BY <1>1 DEF Let, StepOnce
<1>2. CASE WorkerAction
  <2>1. Others("worker")
    BY <1>0, <1>2, BecomeOthers DEF WorkerAction, Rest, Fail, Pausing, Goto
  <2>2. task'["stepper"] = task["stepper"] \/ ~StepOnce
    BY <1>0, <2>1 DEF Others, Untouched, StepOnce, Stepping, Claimed, Calls
  <2>3. runState = "running" /\ freeRun' = freeRun
    BY <1>2 DEF WorkerAction, Rest, Fail, Pausing
  <2> QED
    BY <2>2, <2>3 DEF Let, StepOnce
<1>3. CASE Start \/ EnsureRunner
  BY <1>3 DEF Start, EnsureRunner
<1>4. ~Pause /\ ~Stop
  BY DEF Pause, Stop, EndRun
<1>5. CASE RequestStep
  <2>1. task["stepper"].pc = "off"
    BY <1>5 DEF RequestStep
  <2> QED
    BY <1>5, <2>1 DEF RequestStep, Let, StepOnce, Stepping, Claimed, Calls
<1>6. CASE HumanPost
  <2>1. task' = Notified(task) /\ runState = "running" /\ freeRun' = freeRun
    BY <1>6 DEF HumanPost
  <2>2. task'["stepper"] = task["stepper"] \/ ~StepOnce
    BY <1>0, <2>1, NotifiedOthers DEF TaskTypeOK, Untouched, StepOnce, Stepping, Claimed, Calls
  <2> QED
    BY <2>1, <2>2 DEF Let, StepOnce
<1>7. CASE HumanSetStatus \/ HumanWake \/ SetEnabled \/ Reconfigure \/ BudgetExpires \/ TimePasses
  BY <1>1, <1>7 DEF HumanSetStatus, HumanWake, SetEnabled, Reconfigure, BudgetExpires, TimePasses
<1>8. CASE Restart
  BY <1>8 DEF Restart, StepLost, Let, StepOnce
<1> QED
  BY <1>2, <1>3, <1>4, <1>5, <1>6, <1>7, <1>8 DEF Request, Outside

LEMMA LetInductive ==
  ASSUME TypeInv, OneInStep, Let, [Next]_vars
  PROVE  Let'
<1> SUFFICES ASSUME runState' = "running" PROVE freeRun' # "no" \/ StepOnce'
  BY DEF Let
<1>0. "stepper" \in Tasks
  BY DEF Tasks
<1>1. CASE UNCHANGED vars
  BY <1>1 DEF vars, runVars, Let, StepOnce
<1>2. ASSUME NEW k \in Tasks, Fault(k), k # "stepper"
      PROVE  freeRun' # "no" \/ StepOnce'
  <2>1. Untouched(task["stepper"], task'["stepper"])
    BY <1>0, <1>2, StepOthers DEF Others
  <2>2. task'["stepper"] = task["stepper"] \/ ~StepOnce
    BY <2>1 DEF Untouched, StepOnce, Stepping, Claimed, Calls
  <2> QED
    BY <1>2, <2>2 DEF Fault, Let, StepOnce
<1>3. CASE Fault("stepper")
  <2>1. PICK row \in Raises("stepper") :
          /\ task'["stepper"] = row
          /\ freeRun' = IF ~row.once THEN StepLost ELSE freeRun
    BY <1>0, <1>3, BecomeRow DEF Fault, TypeInv, TypeOK
  <2>2. row.once => row.pc \in {"release", "requeue"}
    <3> DEFINE now == task["stepper"]
    <3>0. now \in TaskRow
      BY <1>0, TurnRowType
    <3>1. CASE now.pc = "prepare"
      <4>1. row = [now EXCEPT !.pc = "release"]
        BY <2>1, <3>1 DEF Raises
      <4> HIDE DEF now
      <4> QED
        BY <3>0, <4>1 DEF TaskRow
    <3>2. CASE now.pc = "turn"
      <4>1. PICK a : row = [now EXCEPT !.pc = "requeue", !.agent = a]
        BY <2>1, <3>2 DEF Raises
      <4> HIDE DEF now
      <4> QED
        BY <3>0, <4>1 DEF TaskRow
    <3>3. CASE now.pc \in {"call", "record", "finish"}
      <4>1. row = [now EXCEPT !.pc = "requeue"]
        BY <2>1, <3>3 DEF Raises
      <4> HIDE DEF now
      <4> QED
        BY <3>0, <4>1 DEF TaskRow
    <3>4. CASE now.pc \notin {"prepare", "turn", "call", "record", "finish"}
      <4>1. row = At("pausing") \/ row = At("off")
        BY <2>1, <3>4 DEF Raises
      <4> QED
        BY <4>1 DEF At
    <3> QED
      BY <3>1, <3>2, <3>3, <3>4
  <2>3. runState = "running"
    BY <1>3 DEF Fault
  <2> QED
    BY <2>1, <2>2, <2>3 DEF StepLost, Let, StepOnce, Stepping, Claimed
<1> QED
  BY <1>1, <1>2, <1>3, TaskLets, ElsewhereLets DEF Next

LEMMA ClaimRunsInductive ==
  ASSUME TypeInv, OneInStep, ClaimRuns, [Next]_vars
  PROVE  ClaimRuns'
<1> SUFFICES ASSUME task'["worker"].pc = "claim" PROVE runState' = "running"
  BY DEF ClaimRuns
<1> DEFINE w == "worker"
<1>0. w \in Tasks
  BY DEF Tasks
<1>1. CASE Begin(w)
  BY <1>1 DEF Begin, runVars
<1>2. CASE TaskStep(w) /\ ~Begin(w)
  <2>1. CASE StepAction(w)
    <3>1. CASE Leave(w) \/ ClaimEnds(w) \/ ClaimNothing(w)
      BY <1>0, <3>1, BecomeRow DEF Leave, ClaimEnds, ClaimNothing, At, TypeInv, TypeOK
    <3>2. CASE PrepareAgain(w) \/ PrepareSelect(w)
      <4>1. PICK todo : Become(w, [task[w] EXCEPT !.pc = "turn", !.todo = todo])
        BY <3>2 DEF PrepareAgain, PrepareSelect
      <4> QED
        BY <1>0, <4>1, BecomeRow, TurnRowType DEF TaskRow, TypeInv, TypeOK
    <3>3. CASE PrepareDefer(w)
      BY <1>0, <3>3, GotoPc DEF PrepareDefer, TypeInv, TypeOK
    <3>4. CASE Claim(w)
      BY <1>0, <3>4, ClaimRow
    <3> QED
      BY <1>2, <2>1, <3>1, <3>2, <3>3, <3>4 DEF StepAction
  <2>2. CASE TurnAction(w)
    BY <1>0, <2>2, TurnActionRow DEF Calls
  <2>3. CASE FinishAction(w)
    <3>1. task[w].pc \in Stepping /\ ~Settle(w) /\ ~Abort(w)
      BY <2>3 DEF FinishAction, Record, Lapsed, Finishing, Defer, FailUncalled, FailCalled,
         Pass, CommitRejected, CommitRaises, CommitPost, CommitThread, Stepping, Claimed,
         Calls, Settle, Abort
    <3>2. task'[w].pc \in Stepping
      BY <1>0, <1>2, <3>1, StepKeepsOnce
    <3> QED
      BY <3>2 DEF Stepping, Claimed, Calls
  <2>4. CASE EndAction(w)
    BY <1>0, <2>4, BecomeRow, GotoPc DEF EndAction, Requeue, Release, Yield, TurnsOver,
       CompleteLost, Complete, Advance, Settle, Abort, Budget, Done, At, TypeInv, TypeOK
  <2> QED
    BY <1>2, <2>1, <2>2, <2>3, <2>4 DEF TaskStep
<1>3. CASE Fault(w)
  BY <1>0, <1>3, FaultPc
<1>4. CASE ~(TaskStep(w) \/ Fault(w))
  <2>1. task'[w] = task[w]
    BY <1>0, <1>4, NotMine DEF InStep
  <2>2. runState = "running" /\ ~LoopFree
    BY <1>0, <2>1 DEF ClaimRuns, LoopFree, Suspended
  <2>3. ASSUME NEW j \in Tasks, TaskStep(j) \/ Fault(j) PROVE runState' = runState
    <3>1. j # w /\ task[j].pc \notin InStep
      BY <1>0, <1>4, <2>1, <2>3 DEF OneInStep, InStep
    <3>2. ~Begin(j)
      BY <2>2 DEF Begin
    <3> QED
      BY <2>3, <3>1, <3>2, OutsideStep DEF runVars
  <2>4. ~Restart
    BY <1>0, RestartTasks
  <2>5. ~WorkerAction /\ ~Request /\ ~BudgetExpires /\ ~TimePasses
    BY <2>1, <2>2 DEF WorkerAction, Rest, Fail, Pausing, Request, Start, EnsureRunner, Pause,
       Stop, RequestStep, HumanPost, HumanSetStatus, HumanWake, SetEnabled, Reconfigure,
       BudgetExpires, TimePasses
  <2> QED
    BY <2>2, <2>3, <2>4, <2>5 DEF Next, Outside, vars, runVars
<1> QED
  BY <1>1, <1>2, <1>3, <1>4

(* While the last control of a person is a pause or a step, the worker      *)
(* claims nothing, for any number of stimuli, steps, pauses, crashes and    *)
(* faults of both tasks ("Execute at most one durable stimulus, even while  *)
(* manually paused", SwarmEngine.step), unless a step was cut short: only   *)
(* what interrupts a step between its claim and its pause lets the worker   *)
(* go on without a person.                                                  *)
THEOREM WorkerWaitsForPeople == Spec => PausedWorkerWaits
<1>1. Init => Let /\ ClaimRuns
  <2>1. Init => runState = "created" /\ task["worker"].pc = "off"
    BY DEF Init, At, Tasks
  <2> QED
    BY <2>1 DEF Let, ClaimRuns
<1>2. TypeInv /\ LeaseInv /\ Let /\ ClaimRuns /\ [Next]_vars => (Let /\ ClaimRuns)'
  BY LetInductive, ClaimRunsInductive DEF LeaseInv
<1>3. TypeInv /\ LeaseInv /\ Let /\ ClaimRuns /\ [Next]_vars =>
        [task["worker"].pc = "claim" /\ task'["worker"].pc = "prepare"
           => freeRun # "no"]_vars
  <2> SUFFICES ASSUME OneInStep, Let, ClaimRuns, task["worker"].pc = "claim"
               PROVE  freeRun # "no"
    BY DEF LeaseInv
  <2>1. task["stepper"].pc \notin Stepping
    BY DEF OneInStep, InStep, Tasks, Stepping, Claimed, Calls
  <2> QED
    BY <2>1 DEF Let, ClaimRuns, StepOnce
<1> QED
  BY <1>1, <1>2, <1>3, LeaseInductive, PTL DEF Spec, PausedWorkerWaits

-----------------------------------------------------------------------------
(* Closed and sleeping threads.  A stimulus is prepared while the run has a   *)
(* round left, so that an exhausted thread is never woken.                    *)

RoundToPrepare == \A k \in Tasks : task[k].pc = "prepare" => rounds < MaxRounds

LEMMA RoundToPrepareInductive ==
  ASSUME TypeInv, QuietInv, RoundToPrepare, [Next]_vars
  PROVE  RoundToPrepare'
<1>1. CASE UNCHANGED vars
  BY <1>1 DEF vars, runVars, RoundToPrepare
<1>2. CASE Next
  <2>1. SUFFICES ASSUME NEW j \in Tasks, task'[j].pc = "prepare"
                 PROVE  rounds' < MaxRounds
    BY DEF RoundToPrepare
  <2>2. Claim(j)
    <3>1. Begin(j) \/ Claim(j)
      BY <1>2, <2>1, ClaimingStep DEF Claiming, QuietInv
    <3> QED
      BY <2>1, <3>1, GotoPc DEF Begin, TypeInv, TypeOK
  <2>3. ~(rounds >= MaxRounds) /\ rounds \in Nat /\ MaxRounds \in Nat /\ rounds' = rounds
    BY <2>2, DeliveryAssumption DEF Claim, MayClaim, BudgetExhausted, TypeInv, TypeOK, RunTypeOK
  <2> QED
    BY <2>3
<1> QED
  BY <1>1, <1>2

LEMMA SlotsLeft ==
  ASSUME TypeInv, PostsOK, NEW t
  PROVE  ThreadSlots(t) \in Nat
<1>1. Cardinality(PostsIn(t)) \in Nat /\ ThreadQuota \in Nat
  BY PostsInFinite, FS_CardinalityType, DeliveryAssumption DEF PostsOK
<1> QED
  BY <1>1 DEF ThreadSlots, Left

\* Preparing a stimulus follows the rule.
LEMMA PreparedByRule ==
  ASSUME TypeInv, PostsOK, RoundToPrepare, NEW k \in Tasks, Prepared(k), NEW t \in Threads
  PROVE  WakesByRule(t)
<1> USE DEF TypeInv, TypeOK, BoardTypeOK
<1> DEFINE s == Stim(k)
<1>1. task[k].pc = "prepare" /\ thread' = [thread EXCEPT ![stim[s].thread] = PreparedThread(s)]
  BY DEF Prepared
<1>2. CASE stim[s].thread # t
  BY <1>1, <1>2 DEF WakesByRule
<1>3. CASE stim[s].thread = t
  <2>1. thread'[t] = PreparedThread(s)
    BY <1>1, <1>3
  <2>2. RoundSlots > 0
    <3>1. rounds < MaxRounds /\ rounds \in Nat /\ MaxRounds \in Nat
      BY <1>1, DeliveryAssumption DEF RoundToPrepare, RunTypeOK
    <3> QED
      BY <3>1 DEF RoundSlots, Left
  <2>3. ThreadSlots(t) \in Nat
    BY SlotsLeft
  <2>4. CASE ThreadSlots(t) = 0 /\ Dormancy
    BY <1>3, <2>1, <2>2, <2>4 DEF PreparedThread, WakesByRule
  <2>5. CASE ~(ThreadSlots(t) = 0 /\ Dormancy)
    <3>1. PreparedThread(s) = IF thread[t] = "dormant" /\ ~Refused(s) THEN "active"
                              ELSE thread[t]
      BY <1>3, <2>5 DEF PreparedThread
    <3>2. thread[t] = "dormant" /\ ~Refused(s) => (Dormancy => stim[s].kind \in WakeKinds)
      BY <1>3 DEF Refused
    <3>3. Dormancy => ThreadSlots(t) > 0
      BY <2>3, <2>5
    <3> QED
      BY <1>1, <1>3, <2>1, <3>1, <3>2, <3>3 DEF WakesByRule
  <2> QED
    BY <2>4, <2>5
<1> QED
  BY <1>2, <1>3

LEMMA TasksWakeByRule ==
  ASSUME TypeInv, PostsOK, RoundToPrepare, NEW k \in Tasks, TaskStep(k) \/ Fault(k),
         NEW t \in Threads
  PROVE  WakesByRule(t)
<1> USE DEF TypeInv, TypeOK, BoardTypeOK, boardVars
<1>1. CASE PrepareSelect(k) \/ PrepareDefer(k)
  BY <1>1, PreparedByRule DEF PrepareSelect, PrepareDefer
<1>2. CASE CommitPost(k)
  BY <1>2 DEF CommitPost, WakesByRule
<1>3. CASE CommitThread(k)
  BY <1>3 DEF CommitThread, WakesByRule
<1>4. CASE Complete(k)
  BY <1>4 DEF Complete, GoesQuiet, WakesByRule
<1>5. CASE ~(PrepareSelect(k) \/ PrepareDefer(k) \/ CommitPost(k) \/ CommitThread(k) \/ Complete(k))
  <2>1. thread' = thread
    BY <1>5 DEF TaskStep, Fault, StepAction, TurnAction, FinishAction, EndAction, Leave,
       Begin, ClaimEnds, ClaimNothing, Claim, PrepareAgain, TurnYield, TurnSkip, TurnStart,
       CallRefused, CallMade, GatewayAnswers, GatewayMisses, BackoffOver, Record, Lapsed,
       Defer, FailUncalled, FailCalled, Pass, CommitRejected, CommitRaises, Requeue,
       Release, Yield, TurnsOver, CompleteLost, Advance, Settle, Abort, Budget
  <2> QED
    BY <2>1 DEF WakesByRule
<1> QED
  BY <1>1, <1>2, <1>3, <1>4, <1>5

(* "Closed threads do not wake", as far as the code keeps it, and "ordinary *)
(* agent cascades cannot silently wake dormant threads": no task, fault or  *)
(* crash makes a closed thread active, for any number of threads, posts and *)
(* stimuli.  It is put to sleep at most when its quota is used up, and then *)
(* nothing but a person wakes it; other sleeping threads are woken by       *)
(* stimuli of the right kind only.                                          *)
THEOREM ThreadsWakeOnlyByRule == Spec => ThreadsWakeByRule
<1>1. Init => RoundToPrepare
  BY DEF Init, RoundToPrepare, At
<1>2. TypeInv /\ QuietInv /\ RoundToPrepare /\ [Next]_vars => RoundToPrepare'
  BY RoundToPrepareInductive
<1>3. TypeInv /\ PostsOK /\ RoundToPrepare /\ [Next]_vars =>
        [LoopFree \/ \A t \in Threads : WakesByRule(t)]_vars
  <2> SUFFICES ASSUME TypeInv, PostsOK, RoundToPrepare, Next, NEW t \in Threads, ~LoopFree
               PROVE  WakesByRule(t)
    OBVIOUS
  <2>1. ~Request /\ ~BudgetExpires /\ ~TimePasses
    BY DEF Request, Start, EnsureRunner, Pause, Stop, RequestStep, HumanPost,
       HumanSetStatus, HumanWake, SetEnabled, Reconfigure, BudgetExpires, TimePasses
  <2>2. CASE Fail \/ Pausing \/ Restart
    BY <2>2 DEF Fail, Pausing, Restart, boardVars, WakesByRule
  <2>3. CASE Rest
    BY <2>3 DEF Rest, Quiet, WakesByRule, TypeInv, TypeOK, BoardTypeOK
  <2> QED
    BY <2>1, <2>2, <2>3, TasksWakeByRule DEF Next, Outside, WorkerAction
<1> QED
  BY <1>1, <1>2, <1>3, LeaseInductive, LimitsAlways, PTL DEF Spec, ThreadsWakeByRule

-----------------------------------------------------------------------------
(* The run keeps the promises of RunLifecycle.  A task that takes a turn      *)
(* does so for an open stimulus, also when a failing worker has taken its     *)
(* lease away: what ends a stimulus either ends its turns, or is done by the  *)
(* task itself after its last turn.                                           *)

OpenWork == \A k \in Tasks, a \in Agents : Takes(k, a) => stim[Stim(k)].state \in Open

\* A post queues another stimulus or cancels others, and leaves its own.
LEMMA FollowUpOwn ==
  ASSUME TypeInv, NEW k \in Tasks, NEW t, stim[Stim(k)].state \in Open, FollowUp(k, t)
  PROVE  stim'[Stim(k)] = stim[Stim(k)]
<1>0. Stim(k) \in Stimuli /\ stim \in [Stimuli -> Row]
  BY TurnRowType DEF TypeInv, TypeOK, WorkTypeOK
<1>1. CASE Closes(k)
  BY <1>0, <1>1 DEF FollowUp, CancelIn
<1>2. CASE ~Closes(k) /\ MayCascade(k)
  <2>1. PICK r \in FreeRow : \E row : stim' = [stim EXCEPT ![r] = row]
    BY <1>2 DEF FollowUp
  <2>2. r # Stim(k)
    BY <1>0 DEF FreeRow, Open, Leased
  <2> QED
    BY <1>0, <2>1, <2>2
<1>3. CASE ~Closes(k) /\ ~MayCascade(k)
  BY <1>3 DEF FollowUp
<1> QED
  BY <1>1, <1>2, <1>3

\* The steps of the task itself.
LEMMA OwnWorkOpen ==
  ASSUME TypeInv, PrepareOwns, OpenWork, NEW k \in Tasks, TaskStep(k),
         NEW a \in Agents, Takes(k, a)'
  PROVE  stim'[Stim(k)'].state \in Open
<1> USE DEF TypeInv, TypeOK, workVars
<1>0. /\ task[k] \in TaskRow /\ Stim(k) \in Stimuli
      /\ task[k].pc \in Calls \cup {"turn", "prepare"}
  BY TurnRowType, TurnsReached DEF Takes
<1>1. CASE task[k].pc = "prepare"
  <2>1. PrepareAgain(k) \/ PrepareSelect(k) \/ PrepareDefer(k)
    BY <1>1 DEF TaskStep, StepAction, TurnAction, FinishAction, EndAction, Leave, Begin,
       ClaimEnds, ClaimNothing, Claim, TurnYield, TurnSkip, TurnStart, CallRefused,
       CallMade, GatewayAnswers, GatewayMisses, BackoffOver, Record, Lapsed, Finishing,
       Defer, FailUncalled, FailCalled, Pass, CommitRejected, CommitRaises, CommitPost,
       CommitThread, Requeue, Release, Yield, TurnsOver, CompleteLost, Complete, Advance,
       Settle, Abort, Budget
  <2>2. PrepareAgain(k) \/ PrepareSelect(k) => task'[k].stim = task[k].stim
    <3> SUFFICES ASSUME PrepareAgain(k) \/ PrepareSelect(k)
                 PROVE  task'[k].stim = task[k].stim
      OBVIOUS
    <3>1. PICK todo : task'[k] = [task[k] EXCEPT !.pc = "turn", !.todo = todo]
      BY BecomeRow DEF PrepareAgain, PrepareSelect
    <3> QED
      BY <1>0, <3>1 DEF TaskRow
  <2>3. Stim(k)' = Stim(k)
    <3>1. PrepareDefer(k) => task'[k] = [task[k] EXCEPT !.pc = "turn"]
      BY BecomeRow DEF PrepareDefer, Goto
    <3>2. PrepareDefer(k) => task'[k].stim = task[k].stim
      BY <1>0, <3>1 DEF TaskRow
    <3> QED
      BY <2>1, <2>2, <3>2 DEF Stim
  <2>4. PICK row : stim' = [stim EXCEPT ![Stim(k)] = row] /\ row.state \in Open
    <3>1. stim[Stim(k)] \in Row
      BY TurnRowType
    <3>2. CASE PrepareAgain(k) \/ PrepareSelect(k)
      <4>1. stim' = [stim EXCEPT ![Stim(k)] = [stim[Stim(k)] EXCEPT !.state = "processing"]]
        BY <1>0, <3>2 DEF PrepareAgain, PrepareSelect, WorkTypeOK
      <4>2. [stim[Stim(k)] EXCEPT !.state = "processing"].state = "processing"
        BY <3>1 DEF Row
      <4> QED
        BY <4>1, <4>2 DEF Open, Leased
    <3>3. CASE PrepareDefer(k)
      <4>1. stim' = [stim EXCEPT ![Stim(k)] = [GivenBack(stim[Stim(k)]) EXCEPT !.delayed = TRUE]]
        BY <1>0, <3>3 DEF PrepareDefer, WorkTypeOK
      <4>2. [GivenBack(stim[Stim(k)]) EXCEPT !.delayed = TRUE].state = "pending"
        BY <3>1 DEF Row, GivenBack
      <4> QED
        BY <4>1, <4>2 DEF Open
    <3> QED
      BY <2>1, <3>2, <3>3
  <2> QED
    BY <1>0, <2>3, <2>4 DEF WorkTypeOK
<1>2. CASE task[k].pc \in Calls \cup {"turn"}
  <2>1. CASE TurnAction(k)
    <3>1. stim' = stim /\ Stim(k)' = Stim(k) /\ Working(k)' \subseteq Working(k)
      BY <2>1, TurnActionRow, TurnActionWorking DEF Stim
    <3>2. turn[Stim(k)][a].state \in Unfinished
      <4>1. TurnsMove(turn')
        BY <2>1, TaskTurnsMove DEF PrepareSelect, Prepared, TaskStep, Calls, TurnAction,
           TurnYield, TurnSkip, TurnStart, CallRefused, CallMade, GatewayAnswers,
           GatewayMisses, BackoffOver
      <4> QED
        BY <1>0, <3>1, <4>1 DEF TurnsMove, Takes
    <3> QED
      BY <1>2, <3>1, <3>2 DEF OpenWork, Takes
  <2>2. CASE FinishAction(k)
    <3>1. task[k].pc \in Calls
      BY <2>2 DEF FinishAction, Record, Lapsed, Finishing, Defer, FailUncalled, FailCalled,
         Pass, CommitRejected, CommitRaises, CommitPost, CommitThread, Calls
    <3>2. Stim(k)' = Stim(k) /\ Working(k)' \subseteq Working(k)
      BY <2>2, FinishActionWorking
    <3>3. turn[Stim(k)][a].state \in Unfinished
      <4>1. TurnsMove(turn')
        BY <2>2, <3>1, TaskTurnsMove DEF PrepareSelect, Prepared, TaskStep, Calls
      <4> QED
        BY <1>0, <3>2, <4>1 DEF TurnsMove, Takes
    <3>4. stim[Stim(k)].state \in Open
      BY <1>2, <3>2, <3>3 DEF OpenWork, Takes
    <3>5. stim'[Stim(k)] = stim[Stim(k)]
      <4>1. CASE CommitPost(k) \/ CommitThread(k)
        BY <3>4, <4>1, FollowUpOwn DEF CommitPost, CommitThread, Posted
      <4>2. CASE FailCalled(k) /\ task[k].mark = "safety"
        <5>1. TerminalRunIsQuiet' /\ runState' \in Terminal
          BY <4>2, EndRunQuiet, FinishedTurnType DEF FailCalled, WorkTypeOK, EndRun, Terminal
        <5> QED
          BY <1>0, <3>2, <5>1 DEF TerminalRunIsQuiet, Takes
      <4>3. CASE FailCalled(k) /\ task[k].mark # "safety"
        BY <4>3 DEF FailCalled
      <4> QED
        BY <2>2, <4>1, <4>2, <4>3 DEF FinishAction, Record, Lapsed, Defer, FailUncalled,
           Pass, CommitRejected, CommitRaises
    <3> QED
      BY <3>2, <3>4, <3>5
  <2>3. CASE EndAction(k)
    <3>1. TurnsOver(k)
      BY <1>2, <2>3 DEF EndAction, Requeue, Release, Yield, CompleteLost, Complete, Advance,
         Settle, Abort, Budget, Calls
    <3>2. task'[k].pc = "complete"
      BY <3>1, GotoPc DEF TurnsOver
    <3> QED
      BY <3>2 DEF Takes, Calls
  <2>4. ~StepAction(k)
    BY <1>2 DEF StepAction, Leave, Begin, ClaimEnds, ClaimNothing, Claim, PrepareAgain,
       PrepareSelect, PrepareDefer, Prepared, Calls
  <2> QED
    BY <2>1, <2>2, <2>3, <2>4 DEF TaskStep
<1> QED
  BY <1>0, <1>1, <1>2

\* A recovery that ends a stimulus ends its turns.
LEMMA RecoveredWork ==
  ASSUME TypeInv, NEW S \in SUBSET Leases, Recover(S), NEW s \in Stimuli, NEW a \in Agents,
         stim[s].state \in Open, turn[s][a].state \in Unfinished,
         turn'[s][a].state \in Unfinished
  PROVE  stim'[s].state \in Open
<1>1. stim[s] \in Row /\ turn[s][a] \in TurnRow
  BY DEF TypeInv, TypeOK, WorkTypeOK
<1>2. stim'[s] = IF s \in S THEN Returned(stim[s]) ELSE stim[s]
  BY DEF Recover, RecoverStimuli
<1> DEFINE back == IF stim[s].attempts >= MaxAttempts THEN "failed" ELSE "selected"
<1>3. turn'[s][a] = IF s \in S THEN [turn[s][a] EXCEPT !.state = back, !.token = NoToken]
                    ELSE turn[s][a]
  BY DEF Recover, RecoverTurns
<1>4. CASE s \in S
  <2>1. turn'[s][a].state = back
    BY <1>1, <1>3, <1>4 DEF TurnRow
  <2>2. ~(stim[s].attempts >= MaxAttempts)
    BY <2>1 DEF Unfinished
  <2> QED
    BY <1>1, <1>2, <1>4, <2>2 DEF Returned, Row, Open
<1>5. CASE s \notin S
  BY <1>2, <1>5
<1> QED
  BY <1>4, <1>5

\* What the others do to a stimulus whose turn is still to be taken.
LEMMA OthersWorkOpen ==
  ASSUME TypeInv, OneInStep, [Next]_vars, NEW k \in Tasks, ~(TaskStep(k) \/ Fault(k)),
         task[k].pc \in InStep, task'[k].pc \in InStep, NEW s \in Stimuli, NEW a \in Agents,
         stim[s].state \in Open, turn[s][a].state \in Unfinished,
         turn'[s][a].state \in Unfinished
  PROVE  stim'[s].state \in Open
<1> USE DEF TypeInv, TypeOK, WorkTypeOK, workVars
<1>1. CASE UNCHANGED vars
  BY <1>1 DEF vars
<1>2. ASSUME NEW j \in Tasks, TaskStep(j) \/ Fault(j) PROVE stim' = stim
  <2>1. j # k /\ task[j].pc \notin InStep
    BY <1>2 DEF OneInStep
  <2>2. ~Begin(j)
    BY DEF Begin, LockFree, InStep
  <2> QED
    BY <1>2, <2>1, <2>2, OutsideStep
<1>3. CASE Fail \/ Restart
  BY <1>3, RecoveredWork DEF Fail, Restart
<1>4. CASE Stop
  <2>1. TerminalRunIsQuiet' /\ runState' \in Terminal
    BY <1>4, EndRunQuiet DEF Stop, EndRun, Terminal
  <2> QED
    BY <2>1 DEF TerminalRunIsQuiet
<1>5. CASE HumanPost \/ HumanWake \/ Rest
  <2>1. stim' = stim \/ \E r \in FreeRow : \E row : stim' = [stim EXCEPT ![r] = row]
    BY <1>5 DEF HumanPost, HumanWake, Rest
  <2> QED
    BY <2>1 DEF FreeRow, Open, Leased
<1>6. CASE TimePasses
  <2>1. PICK r \in Stimuli : stim' = [stim EXCEPT ![r].delayed = FALSE]
    BY <1>6 DEF TimePasses
  <2>2. [stim[r] EXCEPT !.delayed = FALSE].state = stim[r].state
    BY DEF Row
  <2>3. stim' = [stim EXCEPT ![r] = [stim[r] EXCEPT !.delayed = FALSE]]
    BY <2>1
  <2> QED
    BY <2>2, <2>3
<1>7. CASE Pausing \/ (Request /\ ~Stop /\ ~HumanPost /\ ~HumanWake) \/ BudgetExpires
  BY <1>7 DEF Pausing, Request, Start, EnsureRunner, Pause, RequestStep, HumanSetStatus,
     SetEnabled, Reconfigure, BudgetExpires
<1> QED
  BY <1>1, <1>2, <1>3, <1>4, <1>5, <1>6, <1>7 DEF Next, WorkerAction, Outside

LEMMA OpenWorkInductive ==
  ASSUME TypeInv, LeaseInv, OpenWork, [Next]_vars
  PROVE  OpenWork'
<1> SUFFICES ASSUME NEW k \in Tasks, NEW a \in Agents, Takes(k, a)'
             PROVE  stim'[Stim(k)'].state \in Open
  BY DEF OpenWork
<1>1. CASE TaskStep(k)
  BY <1>1, OwnWorkOpen DEF LeaseInv
<1>2. ~Fault(k)
  BY FaultPc DEF Takes, Calls
<1>3. CASE ~(TaskStep(k) \/ Fault(k))
  <2>1. task'[k].pc \in InStep
    BY DEF Takes, InStep, Calls
  <2>2. task'[k] = task[k]
    BY <1>3, <2>1, NotMine DEF LeaseInv
  <2>3. Stim(k)' = Stim(k) /\ Working(k)' = Working(k) /\ Stim(k) \in Stimuli
    BY <2>2, TurnRowType DEF Stim, Working
  <2>4. turn[Stim(k)][a].state \in Unfinished
    <3>1. ASSUME NEW j \in Tasks, PrepareSelect(j) PROVE FALSE
      <4>1. j # k
        BY <1>3, <3>1 DEF TaskStep, StepAction
      <4> QED
        BY <2>1, <2>2, <3>1, <4>1 DEF LeaseInv, OneInStep, InStep, PrepareSelect, Prepared
    <3> QED
      BY <2>3, <3>1, TurnStep DEF TurnsMove, Takes
  <2>5. stim[Stim(k)].state \in Open
    BY <2>2, <2>3, <2>4 DEF OpenWork, Takes
  <2> QED
    BY <1>3, <2>1, <2>2, <2>3, <2>4, <2>5, OthersWorkOpen DEF LeaseInv, Takes
<1> QED
  BY <1>1, <1>2, <1>3

-----------------------------------------------------------------------------
(* Every step of Delivery is a step of RunLifecycle, or a stutter.           *)

Stage(s) == StageOf(stim[s])

StagesMove ==
  /\ \A s \in Stimuli : /\ Stage(s) = "done" => Stage(s)' = "done"
                        /\ Stage(s) = "open" => Stage(s)' \in {"open", "done"}
  /\ \A s, r \in Stimuli : /\ Stage(s) = "new" /\ Stage(s)' # "new"
                           /\ Stage(r) = "new" /\ Stage(r)' # "new"
                           => s = r /\ Stage(s)' = "open"

LEMMA StageIs ==
  ASSUME NEW row
  PROVE  /\ row.state = "none" => StageOf(row) = "new"
         /\ row.state \in Open => StageOf(row) = "open"
         /\ row.state \notin Open \cup {"none"} => StageOf(row) = "done"
         /\ StageOf(row) \in {"new", "open", "done"}
         /\ StageOf(row) = "new" => row.state = "none"
         /\ StageOf(row) = "open" => row.state \in Open
<1>1. "none" \notin Open
  BY DEF Open, Leased
<1> QED
  BY <1>1 DEF StageOf

\* Stages go forward, and at most one stimulus is queued by a step.
LEMMA QueueStep ==
  ASSUME TypeInv, PrepareOwns, [Next]_vars
  PROVE  Lifecycle!Queue
<1> USE DEF TypeInv, TypeOK, WorkTypeOK
<1>1. SUFFICES StagesMove
  <2>1. \A s \in Stimuli : Stage(s)' \in {"new", "open", "done"}
    BY StageIs DEF Stage
  <2> QED
    BY <2>1 DEF StagesMove, Lifecycle!Queue, Lifecycle!Stages, Stage
<1>2. ASSUME NEW s \in Stimuli, RowMoves(stim[s], stim'[s])
      PROVE  /\ Stage(s) = "done" => Stage(s)' = "done"
             /\ Stage(s) = "open" => Stage(s)' \in {"open", "done"}
             /\ Stage(s) = "new" => Stage(s)' = "new"
  BY <1>2, StageIs DEF RowMoves, Stage
<1>3. RowsMove(stim') => StagesMove
  BY <1>2 DEF RowsMove, StagesMove
<1>4. CASE \E r, t, kind : Queued(r, t, kind)
  <2>1. PICK q, t, kind, target, depth :
          /\ q \in FreeRow
          /\ stim' = [stim EXCEPT ![q] = NewStimulus(t, kind, target, depth, {}, q)]
    BY <1>4 DEF Queued
  <2>2. q \in Stimuli /\ stim[q].state = "none" /\ stim'[q].state = "pending"
    BY <2>1, QueuedRow DEF FreeRow
  <2>3. \A s \in Stimuli \ {q} : stim'[s] = stim[s]
    BY <2>1
  <2>4. Stage(q) = "new" /\ Stage(q)' = "open"
    BY <2>2, StageIs DEF Stage, Open
  <2>5. \A s \in Stimuli \ {q} : Stage(s)' = Stage(s)
    BY <2>3 DEF Stage
  <2> QED
    BY <2>2, <2>4, <2>5 DEF StagesMove
<1>5. ASSUME NEW k \in Tasks, Complete(k)
      PROVE  StagesMove
  <2>1. PICK c \in Stimuli :
          /\ stim[c].state \in Leased /\ stim'[c].state = "completed"
          /\ \/ \A r \in Stimuli \ {c} : stim'[r] = stim[r]
             \/ \E r \in FreeRow : /\ stim'[r].state = "pending"
                                   /\ \A q \in Stimuli \ {c, r} : stim'[q] = stim[q]
    BY <1>5, CompleteRows, QueuedRow
  <2>2. Stage(c) = "open" /\ Stage(c)' = "done"
    BY <2>1, StageIs DEF Stage, Open, Leased
  <2>3. CASE \A r \in Stimuli \ {c} : stim'[r] = stim[r]
    <3>1. \A r \in Stimuli \ {c} : Stage(r)' = Stage(r)
      BY <2>3 DEF Stage
    <3> QED
      BY <2>2, <3>1 DEF StagesMove
  <2>4. CASE \E r \in FreeRow : /\ stim'[r].state = "pending"
                                /\ \A q \in Stimuli \ {c, r} : stim'[q] = stim[q]
    <3>1. PICK r \in FreeRow : /\ stim'[r].state = "pending"
                               /\ \A q \in Stimuli \ {c, r} : stim'[q] = stim[q]
      BY <2>4
    <3>2. r \in Stimuli /\ Stage(r) = "new" /\ Stage(r)' = "open"
      BY <3>1, StageIs DEF FreeRow, Stage, Open
    <3>3. \A q \in Stimuli \ {c, r} : Stage(q)' = Stage(q)
      BY <3>1 DEF Stage
    <3> QED
      BY <2>2, <3>2, <3>3 DEF StagesMove
  <2> QED
    BY <2>1, <2>3, <2>4
<1>6. \/ RowsMove(stim') \/ \E r, t, kind : Queued(r, t, kind)
      \/ \E k \in Tasks : Complete(k)
  BY RowStep
<1> QED
  BY <1>3, <1>4, <1>5, <1>6

\* Starting and pausing a run changes nothing else.
LEMMA ControlStep ==
  ASSUME TypeInv, [Next]_vars, runState' # runState, runState' \notin Terminal
  PROVE  /\ runState' \in {"running", "paused"} /\ posts' = posts
         /\ \A s \in Stimuli : Stage(s)' = Stage(s)
<1> USE DEF runVars, boardVars, workVars
<1>0. {"stopped", "emergency_stopped", "completed", "failed"} = Terminal
  BY DEF Terminal
<1>1. ASSUME NEW k \in Tasks, Claim(k)
      PROVE  /\ runState' \in {"running", "paused"} /\ posts' = posts
             /\ \A s \in Stimuli : Stage(s)' = Stage(s)
  <2>1. PICK s \in Stimuli :
          /\ stim[s].state = "pending" /\ stim'[s].state = "claimed"
          /\ \A r \in Stimuli \ {s} : stim'[r] = stim[r]
    BY <1>1, ClaimRow
  <2>2. Stage(s) = "open" /\ Stage(s)' = "open"
    BY <2>1, StageIs DEF Stage, Open, Leased
  <2>3. \A r \in Stimuli \ {s} : Stage(r)' = Stage(r)
    BY <2>1 DEF Stage
  <2> QED
    BY <1>1, <2>2, <2>3 DEF Claim
<1>2. CASE \/ \E k \in Tasks : ClaimNothing(k) \/ Settle(k) \/ Abort(k)
           \/ Pausing \/ Start \/ Pause
  <2>1. runState' \in {"running", "paused"} /\ posts' = posts /\ stim' = stim
    BY <1>2 DEF ClaimNothing, Settle, Abort, StepEnds, Pausing, Start, Pause
  <2> QED
    BY <2>1 DEF Stage
<1>3. ASSUME NEW k \in Tasks, TaskStep(k) \/ Fault(k),
             ~(Claim(k) \/ ClaimNothing(k) \/ Settle(k) \/ Abort(k))
      PROVE  FALSE
  BY <1>0, <1>3 DEF TaskStep, Fault, StepAction, TurnAction, FinishAction, EndAction, Leave,
     Begin, ClaimEnds, PrepareAgain, PrepareSelect, PrepareDefer, Prepared, TurnYield,
     TurnSkip, TurnStart, CallRefused, CallMade, GatewayAnswers, GatewayMisses, BackoffOver,
     Record, Lapsed, Defer, FailUncalled, FailCalled, Pass, CommitRejected, CommitRaises,
     CommitPost, CommitThread, Posted, Requeue, Release, Yield, TurnsOver, CompleteLost,
     Complete, Advance, Budget, EndRun
<1>4. CASE WorkerAction \/ Request \/ Outside
  <2>1. Pausing \/ Start \/ Pause
    BY <1>0, <1>4 DEF WorkerAction, Rest, Fail, Request, EnsureRunner, Stop, EndRun,
       RequestStep, HumanPost, HumanSetStatus, HumanWake, SetEnabled, Reconfigure, Outside,
       BudgetExpires, TimePasses, Restart
  <2> QED
    BY <1>2, <2>1
<1>5. ~UNCHANGED vars
  BY DEF vars
<1> QED
  BY <1>1, <1>2, <1>3, <1>4, <1>5 DEF Next

\* The end of a run closes what is open, and does nothing else.
LEMMA EndStep ==
  ASSUME TypeInv, [Next]_vars, runState \notin Terminal, runState' \in Terminal
  PROVE  /\ posts' = posts
         /\ \A s \in Stimuli : Stage(s)' = IF Stage(s) = "open" THEN "done" ELSE Stage(s)
<1>1. posts' = posts /\ stim' = CancelOpen(stim)
  <2>1. ASSUME NEW k \in Tasks, ClaimEnds(k) \/ FailCalled(k) \/ Budget(k)
        PROVE  posts' = posts /\ stim' = CancelOpen(stim)
    BY <2>1 DEF ClaimEnds, FailCalled, Budget, EndRun, boardVars
  <2>2. Stop => posts' = posts /\ stim' = CancelOpen(stim)
    BY DEF Stop, EndRun, boardVars
  <2>3. ~UNCHANGED vars
    BY DEF vars, runVars
  <2> QED
    BY <2>1, <2>2, <2>3, TaskStepEnds, ElsewhereEnds DEF Next
<1>2. ASSUME NEW s \in Stimuli
      PROVE  Stage(s)' = IF Stage(s) = "open" THEN "done" ELSE Stage(s)
  <2>1. stim[s] \in Row
    BY DEF TypeInv, TypeOK, WorkTypeOK
  <2>2. stim'[s] = IF stim[s].state \in Open
                   THEN [stim[s] EXCEPT !.state = "cancelled", !.token = NoToken]
                   ELSE stim[s]
    BY <1>1 DEF CancelOpen
  <2>3. CASE stim[s].state \in Open
    <3>1. stim'[s].state = "cancelled"
      BY <2>1, <2>2, <2>3 DEF Row
    <3> QED
      BY <2>3, <3>1, StageIs DEF Stage, Open, Leased
  <2>4. CASE stim[s].state \notin Open
    BY <2>2, <2>4, StageIs DEF Stage
  <2> QED
    BY <2>3, <2>4
<1> QED
  BY <1>1, <1>2

\* A post answers an open stimulus for the first time, and leaves it open.
LEMMA AnswerStep ==
  ASSUME TypeInv, PostsMatch, OpenWork, [Next]_vars, posts' # posts
  PROVE  \E s \in Stimuli, a \in Agents, t \in Threads :
           /\ posts' = posts \cup {<<s, a, t>>}
           /\ \A p \in posts : ~(p[1] = s /\ p[2] = a)
           /\ Stage(s) = "open" /\ Stage(s)' = "open" /\ runState' = runState
<1>1. PICK k \in Tasks : CommitPost(k) \/ CommitThread(k)
  BY PostsByCommit
<1>2. PICK t \in Threads : Posted(k, t)
  <2>1. CASE CommitPost(k)
    BY <2>1, TurnRowType DEF CommitPost, Targets, Stim, TaskRow, TypeInv, TypeOK,
       WorkTypeOK, Row
  <2>2. CASE CommitThread(k)
    BY <2>2 DEF CommitThread
  <2> QED
    BY <1>1, <2>1, <2>2
<1>3. PICK s \in Stimuli, a \in Agents :
        /\ s = Stim(k) /\ a = Agent(k) /\ turn[s][a].state = "calling"
  BY <1>1, FinishingTurn DEF CommitPost, CommitThread, Finishing, InTurn
<1>4. Takes(k, a)
  BY <1>1, <1>3 DEF Takes, Working, Calls, CommitPost, CommitThread, Finishing, Unfinished,
     Agent
<1>5. stim[s].state \in Open /\ stim'[s] = stim[s]
  BY <1>2, <1>3, <1>4, FollowUpOwn DEF OpenWork, Posted
<1>6. Stage(s) = "open" /\ Stage(s)' = "open"
  BY <1>5, StageIs DEF Stage
<1>7. \A p \in posts : ~(p[1] = s /\ p[2] = a)
  BY <1>3 DEF PostsMatch
<1>8. posts' = posts \cup {<<s, a, t>>} /\ runState' = runState
  BY <1>2, <1>3 DEF Posted
<1> QED
  BY <1>6, <1>7, <1>8

StageRow == [s \in Stimuli |-> StageOf(stim[s])]
Answers  == {<<p[1], p[2]>> : p \in posts}

LEMMA LifeStep ==
  ASSUME TypeInv, QuietInv, LeaseInv, PostsMatch, OpenWork, [Next]_vars
  PROVE  Lifecycle!LifeNext \/ UNCHANGED <<runState, StageRow, Answers>>
<1>0. /\ runState \in Lifecycle!Live \cup Terminal /\ Lifecycle!Over = Terminal
      /\ runState \in Terminal => runState \notin Lifecycle!Live
  BY DEF Lifecycle!Live, Lifecycle!Over, Terminal, RunStates, TypeInv, TypeOK, RunTypeOK
<1>1. CASE runState \in Terminal
  BY <1>1, FrozenStep DEF Frozen, StageRow, Answers
<1>2. CASE runState \notin Terminal /\ runState' \in Terminal
  <2>1. Answers' = Answers
    BY <1>2, EndStep DEF Answers
  <2>2. StageRow' = [s \in Stimuli |->
                       IF StageRow[s] = "open" THEN "done" ELSE StageRow[s]]
    BY <1>2, EndStep DEF StageRow, Stage
  <2>3. Lifecycle!End
    BY <1>0, <1>2, <2>1, <2>2 DEF Lifecycle!End, StageRow, Answers
  <2> QED
    BY <2>3 DEF Lifecycle!LifeNext
<1>3. CASE runState \notin Terminal /\ runState' \notin Terminal /\ runState' # runState
  <2>1. runState' \in {"running", "paused"} /\ Answers' = Answers /\ StageRow' = StageRow
    BY <1>3, ControlStep DEF Answers, StageRow, Stage
  <2>2. Lifecycle!Control
    BY <1>0, <1>3, <2>1 DEF Lifecycle!Control, StageRow, Answers
  <2> QED
    BY <2>2 DEF Lifecycle!LifeNext
<1>4. CASE runState \notin Terminal /\ runState' = runState /\ posts' = posts
  <2>1. Lifecycle!Queue
    BY QueueStep DEF LeaseInv
  <2>2. Lifecycle!Deliver
    BY <1>0, <1>4, <2>1 DEF Lifecycle!Deliver
  <2> QED
    BY <2>2 DEF Lifecycle!LifeNext
<1>5. CASE runState \notin Terminal /\ posts' # posts
  <2>1. PICK s \in Stimuli, a \in Agents, t \in Threads :
          /\ posts' = posts \cup {<<s, a, t>>}
          /\ \A p \in posts : ~(p[1] = s /\ p[2] = a)
          /\ Stage(s) = "open" /\ Stage(s)' = "open" /\ runState' = runState
    BY <1>5, AnswerStep
  <2>2. Answers' = Answers \cup {<<s, a>>}
    <3> DEFINE pair(p) == <<p[1], p[2]>>
               new == <<s, a, t>>
    <3>1. pair(new) = <<s, a>>
      OBVIOUS
    <3>2. Answers = {pair(p) : p \in posts} /\ Answers' = {pair(p) : p \in posts \cup {new}}
      BY <2>1 DEF Answers
    <3> HIDE DEF pair, new
    <3>3. {pair(p) : p \in posts \cup {new}} = {pair(p) : p \in posts} \cup {pair(new)}
      OBVIOUS
    <3> QED
      BY <3>1, <3>2, <3>3
  <2>3. <<s, a>> \notin Answers
    <3>1. \A p \in posts : <<p[1], p[2]>> # <<s, a>>
      BY <2>1
    <3> QED
      BY <3>1 DEF Answers
  <2>4. StageRow[s] = "open" /\ StageRow'[s] = "open"
    BY <2>1 DEF StageRow, Stage
  <2>5. Lifecycle!Queue
    BY QueueStep DEF LeaseInv
  <2>6. Lifecycle!Answer(s, a)
    BY <1>0, <1>5, <2>1, <2>2, <2>3, <2>4, <2>5 DEF Lifecycle!Answer, StageRow, Answers
  <2> QED
    BY <2>6 DEF Lifecycle!LifeNext
<1> QED
  BY <1>1, <1>2, <1>3, <1>4, <1>5

LEMMA LifeStart == Init => Lifecycle!LifeInit
<1> SUFFICES ASSUME Init PROVE Lifecycle!LifeInit
  OBVIOUS
<1>1. \A s \in Stimuli : StageOf(stim[s]) \in {"new", "open"}
  <2> TAKE s \in Stimuli
  <2>1. stim[s].state = "none" \/ stim[s].state = "pending"
    BY DEF Init, NewStimulus
  <2> QED
    BY <2>1, StageIs DEF Open
<1>2. {<<p[1], p[2]>> : p \in posts} = {}
  BY DEF Init
<1> QED
  BY <1>1, <1>2 DEF Init, Lifecycle!LifeInit

(* A run implements the run of RunLifecycle: a stimulus is queued once, is  *)
(* answered by an agent at most once and only while it is open, is not      *)
(* taken up again when it is over, and the end of the run ends all of them. *)
(* This holds for any number of crashes and of faults of both tasks, also   *)
(* when a failing worker takes the lease of a step that is in progress      *)
(* (_handle_runner_failure).                                                *)
THEOREM RunKeepsLifecycle == Spec => KeepsLifecycle
<1>1. Init => PostsMatch /\ OpenWork
  <2>1. Init => OpenWork
    BY DEF Init, OpenWork, Takes, At, Calls
  <2> QED
    BY <2>1, PostsMatchInit
<1>2. TypeInv /\ LeaseInv /\ PostsMatch /\ OpenWork /\ [Next]_vars => (PostsMatch /\ OpenWork)'
  BY PostsMatchInductive, OpenWorkInductive
<1>3. TypeInv /\ QuietInv /\ LeaseInv /\ PostsMatch /\ OpenWork /\ [Next]_vars =>
        [Lifecycle!LifeNext]_<<runState, StageRow, Answers>>
  BY LifeStep
<1> QED
  BY <1>1, <1>2, <1>3, LifeStart, LeaseInductive, PTL
     DEF Spec, KeepsLifecycle, Lifecycle!LifeSpec, StageRow, Answers
=============================================================================
