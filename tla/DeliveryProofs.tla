--------------------------- MODULE DeliveryProofs ---------------------------
(***************************************************************************)
(* Theorems about Delivery, for every number of agents, threads, stimuli   *)
(* and crashes: its types, what holds of a run that has ended, and what    *)
(* redelivery repeats and what it does not: the posts that turns leave,    *)
(* and the attempts that stimuli have.                                     *)
(***************************************************************************)
EXTENDS DeliveryProperties, FiniteSetTheorems, TLAPS

(* Where a task is concerned with one agent (_execute_turn, _commit_action, *)
(* _requeue_turn_after_exception), it names one.                            *)
InTurn == {"call", "await", "backoff", "record", "finish", "requeue"}

AgentNamed == \A k \in Tasks : task[k].pc \in InTurn => task[k].agent \in Agents

TaskInv == TaskTypeOK /\ AgentNamed
TypeInv == TypeOK /\ AgentNamed

-----------------------------------------------------------------------------
(* The helpers keep to the types *)

LEMMA ConstantTypes ==
  /\ 1 \in Stimuli /\ NoToken \in OptToken /\ NoAgent \in OptAgent
  /\ Retries \in Nat /\ MaxDepth \in Nat /\ MaxAttempts \in Nat
  /\ FirstThread \in Threads
BY DeliveryAssumption DEF DeliveryAssumption, Stimuli, OptToken, OptAgent

LEMMA Min2Type == \A m \in Nat : Min2(m, Retries) \in 0..Retries
BY ConstantTypes DEF Min2

LEMMA AtType == ASSUME NEW pc \in Locations PROVE At(pc) \in TaskRow
BY ConstantTypes DEF At, TaskRow, Marks, Results, Writes

LEMMA BecomeType ==
  ASSUME TaskInv, NEW k \in Tasks, NEW row \in TaskRow, Become(k, row),
         row.pc \in InTurn => row.agent \in Agents
  PROVE  TaskInv'
BY DEF TaskInv, TaskTypeOK, AgentNamed, Become

LEMMA GotoType ==
  ASSUME TaskInv, NEW k \in Tasks, NEW pc \in Locations, Goto(k, pc),
         pc \in InTurn => task[k].pc \in InTurn
  PROVE  TaskInv'
<1>1. task[k] \in TaskRow
  BY DEF TaskInv, TaskTypeOK
<1>2. [task[k] EXCEPT !.pc = pc] \in TaskRow
  BY <1>1 DEF TaskRow
<1>3. [task[k] EXCEPT !.pc = pc].pc = pc
      /\ [task[k] EXCEPT !.pc = pc].agent = task[k].agent
  BY <1>1 DEF TaskRow
<1> QED
  BY <1>2, <1>3, BecomeType DEF Goto, TaskInv, AgentNamed

LEMMA GoAtType ==
  ASSUME TaskInv, NEW k \in Tasks, NEW pc \in Locations, Become(k, At(pc)),
         pc \notin InTurn
  PROVE  TaskInv'
<1>1. At(pc).pc = pc
  BY DEF At
<1> QED
  BY <1>1, AtType, BecomeType

LEMMA NextTurnType ==
  ASSUME TaskTypeOK, NEW k \in Tasks
  PROVE  NextTurn(k) \in TaskRow /\ NextTurn(k).pc = "turn"
<1>1. task[k] \in TaskRow
  BY DEF TaskTypeOK
<1>2. At("turn") \in TaskRow /\ At("turn").pc = "turn"
  BY AtType DEF Locations, At
<1> QED
  BY <1>1, <1>2 DEF NextTurn, TaskRow

LEMMA NewStimulusType ==
  ASSUME NEW t \in Threads, NEW kind \in Kinds, NEW target \in OptAgent,
         NEW depth \in 0..MaxDepth, NEW attempted \in SUBSET Agents, NEW root \in Stimuli
  PROVE  NewStimulus(t, kind, target, depth, attempted, root) \in Row
BY ConstantTypes DEF NewStimulus, Row, StimStates, Open

LEMMA RowMoved ==
  ASSUME NEW row \in Row, NEW x \in StimStates, NEW n \in OptToken
  PROVE  [row EXCEPT !.state = x, !.token = n] \in Row
BY DEF Row

LEMMA TurnMoved ==
  ASSUME NEW row \in TurnRow, NEW x \in TurnStates, NEW n \in OptToken
  PROVE  [row EXCEPT !.state = x, !.token = n] \in TurnRow
BY DEF TurnRow

LEMMA CancelOpenType ==
  ASSUME NEW st \in [Stimuli -> Row]
  PROVE  CancelOpen(st) \in [Stimuli -> Row]
<1>1. "cancelled" \in StimStates
  BY DEF StimStates
<1>2. \A s \in Stimuli : [st[s] EXCEPT !.state = "cancelled", !.token = NoToken] \in Row
  BY <1>1, RowMoved, ConstantTypes
<1> QED
  BY <1>2 DEF CancelOpen

LEMMA FailUnfinishedType ==
  ASSUME NEW tn \in [Stimuli -> [Agents -> TurnRow]]
  PROVE  FailUnfinished(tn) \in [Stimuli -> [Agents -> TurnRow]]
<1>1. "failed" \in TurnStates
  BY DEF TurnStates
<1>2. \A s \in Stimuli, a \in Agents :
        [tn[s][a] EXCEPT !.state = "failed", !.token = NoToken] \in TurnRow
  BY <1>1, TurnMoved, ConstantTypes
<1> QED
  BY <1>2 DEF FailUnfinished

LEMMA FinishedType ==
  ASSUME WorkTypeOK, NEW s \in Stimuli, NEW a \in Agents, NEW state \in TurnStates
  PROVE  Finished(s, a, state) \in [Stimuli -> [Agents -> TurnRow]]
<1>1. turn \in [Stimuli -> [Agents -> TurnRow]]
  BY DEF WorkTypeOK
<1>2. [turn[s][a] EXCEPT !.state = state, !.token = NoToken] \in TurnRow
  BY <1>1, TurnMoved, ConstantTypes
<1>3. Finished(s, a, state) =
        [turn EXCEPT ![s] = [@ EXCEPT ![a] = [turn[s][a] EXCEPT !.state = state,
                                                               !.token = NoToken]]]
  BY <1>1 DEF Finished
<1> QED
  BY <1>1, <1>2, <1>3

LEMMA BackInQueueType ==
  ASSUME NEW row \in Row
  PROVE  Returned(row) \in Row /\ Released(row) \in Row /\ GivenBack(row) \in Row
<1>1. {"failed", "pending"} \subseteq StimStates
  BY DEF StimStates, Open
<1>2. row.attempts \in Nat /\ (row.attempts >= MaxAttempts) \in BOOLEAN
      /\ (row.attempts < MaxAttempts) \in BOOLEAN
  BY ConstantTypes DEF Row
<1>3. (IF row.attempts = 0 THEN 0 ELSE row.attempts - 1) \in Nat
  BY <1>2
<1>4. Returned(row) \in Row
  BY <1>1, <1>2, ConstantTypes DEF Returned, Row
<1>5. Released(row) \in Row
  BY <1>1, <1>2, ConstantTypes DEF Released, Row
<1>6. GivenBack(row) \in Row
  BY <1>1, <1>3, ConstantTypes DEF GivenBack, Row
<1> QED
  BY <1>4, <1>5, <1>6

LEMMA RecoverType ==
  ASSUME WorkTypeOK, NEW S \in SUBSET Stimuli, Recover(S)
  PROVE  WorkTypeOK'
<1>1. stim' \in [Stimuli -> Row]
  BY BackInQueueType DEF WorkTypeOK, Recover, RecoverStimuli
<1>2. {"failed", "selected"} \subseteq TurnStates
  BY DEF TurnStates, Unfinished
<1>3. turn \in [Stimuli -> [Agents -> TurnRow]]
  BY DEF WorkTypeOK
<1>4. \A s \in Stimuli, a \in Agents, x \in TurnStates :
        [turn[s][a] EXCEPT !.state = x, !.token = NoToken] \in TurnRow
  BY <1>3, TurnMoved, ConstantTypes
<1>5. turn' \in [Stimuli -> [Agents -> TurnRow]]
  BY <1>2, <1>3, <1>4 DEF Recover, RecoverTurns
<1> QED
  BY <1>1, <1>5 DEF WorkTypeOK

LEMMA NotifiedType ==
  ASSUME NEW tk \in [Tasks -> TaskRow]
  PROVE  WithRunner(tk) \in [Tasks -> TaskRow] /\ Notified(tk) \in [Tasks -> TaskRow]
<1>1. At("top") \in TaskRow
  BY AtType DEF Locations
<1> QED
  BY <1>1 DEF WithRunner, Notified, Tasks

LEMMA EndRunType ==
  ASSUME NEW state \in RunStates, NEW st \in [Stimuli -> Row],
         NEW tn \in [Stimuli -> [Agents -> TurnRow]], EndRun(state, st, tn)
  PROVE  runState' \in RunStates /\ WorkTypeOK'
BY CancelOpenType, FailUnfinishedType DEF EndRun, WorkTypeOK

(* What an action leaves alone keeps its type. *)
LEMMA KeepTypes ==
  /\ RunTypeOK /\ UNCHANGED runVars => RunTypeOK'
  /\ BoardTypeOK /\ UNCHANGED boardVars => BoardTypeOK'
  /\ WorkTypeOK /\ UNCHANGED workVars => WorkTypeOK'
  /\ {faults, crashes} \subseteq Nat /\ UNCHANGED envVars => {faults, crashes}' \subseteq Nat
  /\ TaskInv /\ UNCHANGED task => TaskInv'
BY DEF RunTypeOK, runVars, BoardTypeOK, boardVars, WorkTypeOK, workVars, envVars,
       TaskInv, TaskTypeOK, AgentNamed

-----------------------------------------------------------------------------
(* Every action keeps the types *)

LEMMA ClaimType ==
  ASSUME TypeInv, NEW k \in Tasks, Claim(k)
  PROVE  TypeInv'
<1> USE DEF TypeInv, TypeOK, TaskInv
<1>1. PICK s \in FirstReady, n \in FreshToken :
        /\ stim' = [stim EXCEPT ![s].state = "claimed", ![s].token = n,
                                ![s].attempts = @ + 1]
        /\ Become(k, [At("prepare") EXCEPT !.stim = s, !.token = n,
                                           !.once = StepsOnce(k)])
  BY DEF Claim
<1>2. s \in Stimuli /\ n \in OptToken
  BY DEF FirstReady, Ready, FreshToken, OptToken
<1>3. stim[s] \in Row
  BY <1>2 DEF WorkTypeOK
<1>4. [stim[s] EXCEPT !.state = "claimed", !.token = n, !.attempts = @ + 1] \in Row
  <2>1. stim[s].attempts + 1 \in Nat
    BY <1>3 DEF Row
  <2>2. "claimed" \in StimStates
    BY DEF StimStates, Open, Leased
  <2> QED
    BY <1>2, <1>3, <2>1, <2>2 DEF Row
<1>5. stim' = [stim EXCEPT ![s] = [stim[s] EXCEPT !.state = "claimed", !.token = n,
                                                 !.attempts = @ + 1]]
  BY <1>1
<1>6. WorkTypeOK'
  BY <1>2, <1>4, <1>5 DEF WorkTypeOK, Claim
<1>7. At("prepare") \in TaskRow /\ At("prepare").pc = "prepare"
  BY AtType DEF Locations, At
<1>8. StepsOnce(k) \in BOOLEAN
  BY DEF StepsOnce
<1> DEFINE row == [At("prepare") EXCEPT !.stim = s, !.token = n, !.once = StepsOnce(k)]
<1>9. row \in TaskRow /\ row.pc = "prepare"
  BY <1>2, <1>7, <1>8 DEF TaskRow
<1>10. TaskInv'
  BY <1>1, <1>9, BecomeType DEF InTurn
<1>11. RunTypeOK'
  BY DEF RunTypeOK, Claim, RunStates, runVars, Releases
<1> QED
  BY <1>6, <1>10, <1>11, KeepTypes DEF Claim

LEMMA TakenUpType ==
  ASSUME TypeInv, NEW k \in Tasks, NEW todo \in SUBSET Agents,
         Become(k, [task[k] EXCEPT !.pc = "turn", !.todo = todo])
  PROVE  TaskInv'
<1> USE DEF TypeInv, TypeOK, TaskInv
<1>1. task[k] \in TaskRow
  BY DEF TaskTypeOK
<1>2. [task[k] EXCEPT !.pc = "turn", !.todo = todo] \in TaskRow
      /\ [task[k] EXCEPT !.pc = "turn", !.todo = todo].pc = "turn"
  BY <1>1 DEF TaskRow, Locations
<1> QED
  BY <1>2, BecomeType DEF InTurn

LEMMA PrepareAgainType ==
  ASSUME TypeInv, NEW k \in Tasks, PrepareAgain(k)
  PROVE  TypeInv'
<1> USE DEF TypeInv, TypeOK, TaskInv
<1> DEFINE s == Stim(k)
           again == {a \in Agents : turn[s][a].state \in Unfinished}
<1>1. s \in Stimuli /\ task[k].token \in OptToken
  BY DEF TaskTypeOK, TaskRow, Stim
<1>2. stim[s] \in Row /\ \A a \in Agents : turn[s][a] \in TurnRow
  BY <1>1 DEF WorkTypeOK
<1>3. [stim[s] EXCEPT !.state = "processing"] \in Row
  BY <1>2 DEF Row, StimStates, Open, Leased
<1>4. \A a \in Agents : [turn[s][a] EXCEPT !.token = task[k].token] \in TurnRow
  BY <1>1, <1>2 DEF TurnRow
<1>5. [a \in Agents |-> IF a \in again THEN [turn[s][a] EXCEPT !.token = task[k].token]
                                     ELSE turn[s][a]] \in [Agents -> TurnRow]
  BY <1>2, <1>4
<1>6. WorkTypeOK'
  BY <1>1, <1>3, <1>5 DEF WorkTypeOK, PrepareAgain
<1>7. TaskInv'
  BY TakenUpType DEF PrepareAgain
<1> QED
  BY <1>6, <1>7, KeepTypes DEF PrepareAgain

LEMMA PreparedType ==
  ASSUME TypeInv, NEW k \in Tasks, Prepared(k)
  PROVE  RunTypeOK' /\ BoardTypeOK' /\ {faults, crashes}' \subseteq Nat
<1> USE DEF TypeInv, TypeOK
<1>1. Stim(k) \in Stimuli
  BY DEF TaskTypeOK, TaskRow, Stim
<1>2. stim[Stim(k)].thread \in Threads
  BY <1>1 DEF WorkTypeOK, Row
<1>3. PreparedThread(Stim(k)) \in ThreadStates
  BY <1>2 DEF PreparedThread, BoardTypeOK, ThreadStates
<1>4. BoardTypeOK'
  BY <1>2, <1>3 DEF BoardTypeOK, Prepared
<1> QED
  BY <1>4, KeepTypes DEF Prepared

LEMMA PrepareSelectType ==
  ASSUME TypeInv, NEW k \in Tasks, PrepareSelect(k)
  PROVE  TypeInv'
<1> USE DEF TypeInv, TypeOK, TaskInv
<1> DEFINE s == Stim(k)
<1>1. s \in Stimuli /\ task[k].token \in OptToken
  BY DEF TaskTypeOK, TaskRow, Stim
<1>2. PICK chosen \in SUBSET Eligible(s) :
        /\ stim' = [stim EXCEPT ![s].state = "processing"]
        /\ turn' = [turn EXCEPT ![s] = [a \in Agents |->
                      IF a \in chosen THEN [NoTurn EXCEPT !.state = "selected",
                                                         !.token = task[k].token]
                                      ELSE @[a]]]
        /\ Become(k, [task[k] EXCEPT !.pc = "turn", !.todo = chosen])
  BY DEF PrepareSelect
<1>3. chosen \in SUBSET Agents
  BY DEF Eligible
<1>4. stim[s] \in Row /\ \A a \in Agents : turn[s][a] \in TurnRow
  BY <1>1 DEF WorkTypeOK
<1>5. [stim[s] EXCEPT !.state = "processing"] \in Row
  BY <1>4 DEF Row, StimStates, Open, Leased
<1>6. [NoTurn EXCEPT !.state = "selected", !.token = task[k].token] \in TurnRow
  <2>1. NoTurn \in TurnRow
    BY ConstantTypes DEF NoTurn, TurnRow, TurnStates
  <2>2. "selected" \in TurnStates
    BY DEF TurnStates, Unfinished
  <2> QED
    BY <1>1, <2>1, <2>2, TurnMoved
<1>7. WorkTypeOK'
  BY <1>1, <1>2, <1>4, <1>5, <1>6 DEF WorkTypeOK
<1>8. TaskInv'
  BY <1>2, <1>3, TakenUpType
<1> QED
  BY <1>7, <1>8, PreparedType DEF PrepareSelect

LEMMA PrepareDeferType ==
  ASSUME TypeInv, NEW k \in Tasks, PrepareDefer(k)
  PROVE  TypeInv'
<1> USE DEF TypeInv, TypeOK, TaskInv
<1> DEFINE s == Stim(k)
<1>1. s \in Stimuli
  BY DEF TaskTypeOK, TaskRow, Stim
<1>2. GivenBack(stim[s]) \in Row
  BY <1>1, BackInQueueType DEF WorkTypeOK
<1>3. [GivenBack(stim[s]) EXCEPT !.delayed = TRUE] \in Row
  BY <1>2 DEF Row
<1>4. WorkTypeOK'
  BY <1>1, <1>3 DEF WorkTypeOK, PrepareDefer
<1>5. TaskInv'
  BY GotoType DEF PrepareDefer, Locations, InTurn
<1> QED
  BY <1>4, <1>5, PreparedType DEF PrepareDefer

LEMMA StepActionType ==
  ASSUME TypeInv, NEW k \in Tasks, StepAction(k)
  PROVE  TypeInv'
<1> USE DEF TypeInv, TypeOK, TaskInv
<1>1. CASE Leave(k)
  BY <1>1, GoAtType, KeepTypes DEF Leave, Locations, InTurn
<1>2. CASE Begin(k)
  <2>1. PICK S \in SUBSET Leases : Recover(S)
    BY <1>2 DEF Begin
  <2>2. WorkTypeOK'
    BY <2>1, RecoverType DEF Leases
  <2>3. TaskInv'
    BY <1>2, GotoType DEF Begin, Locations, InTurn
  <2> QED
    BY <1>2, <2>2, <2>3, KeepTypes DEF Begin
<1>3. CASE ClaimEnds(k)
  <2>1. PICK state \in {"completed", "failed"} : EndRun(state, stim, turn)
    BY <1>3 DEF ClaimEnds
  <2>2. runState' \in RunStates /\ WorkTypeOK'
    BY <2>1, EndRunType DEF WorkTypeOK, RunStates
  <2>3. RunTypeOK'
    BY <1>3, <2>2 DEF RunTypeOK, ClaimEnds, Releases
  <2>4. TaskInv'
    BY <1>3, GoAtType DEF ClaimEnds, Locations, InTurn
  <2> QED
    BY <1>3, <2>2, <2>3, <2>4, KeepTypes DEF ClaimEnds
<1>4. CASE ClaimNothing(k)
  <2>1. RunTypeOK'
    BY <1>4 DEF RunTypeOK, ClaimNothing, RunStates, Releases
  <2>2. TaskInv'
    BY <1>4, GoAtType DEF ClaimNothing, Locations, InTurn
  <2> QED
    BY <1>4, <2>1, <2>2, KeepTypes DEF ClaimNothing
<1> QED
  BY <1>1, <1>2, <1>3, <1>4, ClaimType, PrepareAgainType, PrepareSelectType,
     PrepareDeferType DEF StepAction

(* A turn that ends without a post or that goes on with its call. *)
LEMMA TurnRowType ==
  ASSUME TypeInv, NEW k \in Tasks
  PROVE  /\ task[k] \in TaskRow
         /\ Stim(k) \in Stimuli
         /\ stim[Stim(k)] \in Row
         /\ \A a \in Agents : turn[Stim(k)][a] \in TurnRow
         /\ task[k].pc \in InTurn => Agent(k) \in Agents
BY DEF TypeInv, TypeOK, AgentNamed, TaskTypeOK, WorkTypeOK, TaskRow, Stim, Agent

LEMMA ConcludedType ==
  ASSUME TypeInv, NEW k \in Tasks, task[k].pc \in InTurn, NEW row \in TaskRow,
         row.agent = task[k].agent, Become(k, Concluded(row))
  PROVE  TaskInv'
<1>1. Concluded(row) \in TaskRow /\ Concluded(row).agent = task[k].agent
  BY DEF Concluded, TaskRow, Locations
<1>2. task[k].agent \in Agents
  BY TurnRowType DEF Agent
<1> QED
  BY <1>1, <1>2, BecomeType DEF TypeInv, TypeOK, TaskInv

LEMMA NextTurnGoes ==
  ASSUME TypeInv, NEW k \in Tasks, Become(k, NextTurn(k))
  PROVE  TaskInv'
BY NextTurnType, BecomeType DEF TypeInv, TypeOK, TaskInv, InTurn

LEMMA TurnStartType ==
  ASSUME TypeInv, NEW k \in Tasks, TurnStart(k)
  PROVE  TypeInv'
<1> USE DEF TypeInv, TypeOK, TaskInv
<1>1. PICK a \in task[k].todo :
        /\ turn' = [turn EXCEPT ![Stim(k)][a].state = "calling"]
        /\ Become(k, [NextTurn(k) EXCEPT !.pc = "call", !.todo = @ \ {a}, !.agent = a,
                        !.call = turn[Stim(k)][a].token,
                        !.attempt = Min2(turn[Stim(k)][a].tries, Retries)])
  BY DEF TurnStart
<1>2. a \in Agents
  BY TurnRowType DEF TaskRow
<1>3. turn[Stim(k)][a] \in TurnRow
  BY <1>2, TurnRowType
<1>4. [turn[Stim(k)][a] EXCEPT !.state = "calling"] \in TurnRow
  BY <1>3 DEF TurnRow, TurnStates, Unfinished
<1>5. WorkTypeOK'
  BY <1>1, <1>2, <1>4, TurnRowType DEF WorkTypeOK, TurnStart
<1>6. Min2(turn[Stim(k)][a].tries, Retries) \in 0..Retries
  <2>1. turn[Stim(k)][a].tries \in Nat
    BY <1>3, ConstantTypes DEF TurnRow
  <2> QED
    BY <2>1, Min2Type
<1>7. /\ turn[Stim(k)][a].token \in OptToken
      /\ NextTurn(k) \in TaskRow
      /\ a \in OptAgent
  BY <1>2, <1>3, NextTurnType DEF TurnRow, OptAgent
<1> DEFINE row == [NextTurn(k) EXCEPT !.pc = "call", !.todo = @ \ {a}, !.agent = a,
                        !.call = turn[Stim(k)][a].token,
                        !.attempt = Min2(turn[Stim(k)][a].tries, Retries)]
<1>8. row \in TaskRow /\ row.agent = a
  BY <1>6, <1>7 DEF TaskRow, Locations
<1>9. TaskInv'
  BY <1>1, <1>2, <1>8, BecomeType
<1> QED
  BY <1>5, <1>9, KeepTypes DEF TurnStart

LEMMA TurnActionType ==
  ASSUME TypeInv, NEW k \in Tasks, TurnAction(k)
  PROVE  TypeInv'
<1> USE DEF TypeInv, TypeOK, TaskInv
<1>0. task[k] \in TaskRow
  BY TurnRowType
<1>1. CASE TurnYield(k)
  BY <1>1, GotoType, KeepTypes DEF TurnYield, Locations, InTurn
<1>2. CASE TurnSkip(k)
  <2>1. PICK a \in task[k].todo :
          Become(k, [NextTurn(k) EXCEPT !.todo = @ \ {a},
                       !.made = @ \/ turn[Stim(k)][a].state = "completed"])
    BY <1>2 DEF TurnSkip
  <2>2. NextTurn(k) \in TaskRow /\ NextTurn(k).pc = "turn"
    BY NextTurnType
  <2> DEFINE made == NextTurn(k).made \/ turn[Stim(k)][a].state = "completed"
             row  == [NextTurn(k) EXCEPT !.todo = @ \ {a}, !.made = made]
  <2>3. made \in BOOLEAN
    OBVIOUS
  <2>4. row \in TaskRow /\ row.pc = "turn"
    BY <2>2, <2>3 DEF TaskRow
  <2>5. TaskInv'
    BY <2>1, <2>4, BecomeType DEF InTurn
  <2> QED
    BY <1>2, <2>5, KeepTypes DEF TurnSkip
<1>3. CASE TurnStart(k)
  BY <1>3, TurnStartType
<1>4. CASE CallRefused(k)
  <2>1. PICK result \in {"defer", "none"} :
          Become(k, Concluded([task[k] EXCEPT !.result = result]))
    BY <1>4 DEF CallRefused
  <2>2. [task[k] EXCEPT !.result = result] \in TaskRow
        /\ [task[k] EXCEPT !.result = result].agent = task[k].agent
    BY <1>0 DEF TaskRow, Results
  <2>3. TaskInv'
    BY <1>4, <2>1, <2>2, ConcludedType DEF CallRefused, InTurn
  <2> QED
    BY <1>4, <2>3, KeepTypes DEF CallRefused
<1>5. CASE CallMade(k)
  <2>1. [task[k] EXCEPT !.pc = "await", !.called = TRUE] \in TaskRow
        /\ [task[k] EXCEPT !.pc = "await", !.called = TRUE].agent = task[k].agent
    BY <1>0 DEF TaskRow, Locations
  <2>2. TaskInv'
    BY <1>5, <2>1, BecomeType, TurnRowType DEF CallMade, InTurn, Agent
  <2> QED
    BY <1>5, <2>2, KeepTypes DEF CallMade
<1>6. CASE GatewayAnswers(k)
  <2>1. PICK act \in Writes \cup {"pass"} :
          Become(k, Concluded([task[k] EXCEPT !.result = act]))
    BY <1>6 DEF GatewayAnswers
  <2>2. [task[k] EXCEPT !.result = act] \in TaskRow
        /\ [task[k] EXCEPT !.result = act].agent = task[k].agent
    BY <1>0 DEF TaskRow, Results
  <2>3. TaskInv'
    BY <1>6, <2>1, <2>2, ConcludedType DEF GatewayAnswers, InTurn
  <2> QED
    BY <1>6, <2>3, KeepTypes DEF GatewayAnswers
<1>7. CASE GatewayMisses(k)
  <2>1. PICK again \in BOOLEAN, mark \in Marks :
          LET row == [task[k] EXCEPT !.misses = @ + 1,
                                     !.mark = IF mark = "no" THEN @ ELSE mark]
          IN  Become(k, IF again /\ row.attempt < Retries
                        THEN [row EXCEPT !.pc = "backoff", !.attempt = @ + 1]
                        ELSE Concluded(row))
    BY <1>7 DEF GatewayMisses
  <2> DEFINE row  == [task[k] EXCEPT !.misses = @ + 1,
                                     !.mark = IF mark = "no" THEN @ ELSE mark]
             next == [row EXCEPT !.pc = "backoff", !.attempt = @ + 1]
  <2>2. task[k].misses + 1 \in Nat
    BY <1>0 DEF TaskRow
  <2>3. (IF mark = "no" THEN task[k].mark ELSE mark) \in Marks
    BY <1>0 DEF TaskRow
  <2>4. row \in TaskRow /\ row.agent = task[k].agent
    BY <1>0, <2>2, <2>3 DEF TaskRow
  <2>5. CASE again /\ row.attempt < Retries
    <3>1. row.attempt + 1 \in 0..Retries
      <4>1. row.attempt \in 0..Retries
        BY <2>4 DEF TaskRow
      <4> HIDE DEF row
      <4> QED
        BY <2>5, <4>1, ConstantTypes
    <3>2. next \in TaskRow /\ next.agent = task[k].agent
      <4> HIDE DEF row
      <4> QED
        BY <2>4, <3>1 DEF TaskRow, Locations
    <3>3. Become(k, next)
      BY <2>1, <2>5
    <3>4. task[k].agent \in Agents
      BY <1>7, TurnRowType DEF GatewayMisses, InTurn, Agent
    <3> QED
      BY <3>2, <3>3, <3>4, BecomeType, <1>7, KeepTypes DEF GatewayMisses
  <2>6. CASE ~(again /\ row.attempt < Retries)
    <3>1. Become(k, Concluded(row))
      BY <2>1, <2>6
    <3>2. TaskInv'
      <4> HIDE DEF row
      <4> QED
        BY <1>7, <2>4, <3>1, ConcludedType DEF GatewayMisses, InTurn
    <3> QED
      BY <3>2, <1>7, KeepTypes DEF GatewayMisses
  <2> QED
    BY <2>5, <2>6
<1>8. CASE BackoffOver(k)
  BY <1>8, GotoType, KeepTypes DEF BackoffOver, Locations, InTurn
<1> QED
  BY <1>1, <1>2, <1>3, <1>4, <1>5, <1>6, <1>7, <1>8 DEF TurnAction

LEMMA RoundCounted ==
  ASSUME RunTypeOK
  PROVE  rounds + 1 \in Nat
BY DEF RunTypeOK

LEMMA RecordType ==
  ASSUME TypeInv, NEW k \in Tasks, Record(k)
  PROVE  TypeInv'
<1> USE DEF TypeInv, TypeOK, TaskInv
<1> DEFINE s == Stim(k)
           a == Agent(k)
           tries == Min2(turn[s][a].tries + task[k].misses, Retries)
<1>1. a \in Agents /\ turn[s][a] \in TurnRow
  BY TurnRowType DEF Record, InTurn
<1>2. turn[s][a].tries + task[k].misses \in Nat
  BY <1>1, TurnRowType, ConstantTypes DEF TurnRow, TaskRow
<1>3. tries \in 0..Retries
  BY <1>2, Min2Type
<1>4. [turn[s][a] EXCEPT !.tries = tries] \in TurnRow
  BY <1>1, <1>3 DEF TurnRow
<1>5. turn' = [turn EXCEPT ![s][a] = [turn[s][a] EXCEPT !.tries = tries]]
  BY DEF Record
<1>6. WorkTypeOK'
  BY <1>1, <1>4, <1>5, TurnRowType DEF WorkTypeOK, Record
<1>7. TaskInv'
  BY GotoType DEF Record, Locations, InTurn
<1> QED
  BY <1>6, <1>7, KeepTypes DEF Record

LEMMA LapsedType ==
  ASSUME TypeInv, NEW k \in Tasks, Lapsed(k)
  PROVE  TypeInv'
<1> USE DEF TypeInv, TypeOK, TaskInv
<1> DEFINE made == NextTurn(k).made \/
                     /\ task[k].pc = "finish" /\ task[k].result \in Writes
                     /\ turn[Stim(k)][Agent(k)].state = "completed"
           row  == [NextTurn(k) EXCEPT !.made = made]
<1>1. Become(k, row)
  BY DEF Lapsed
<1>2. made \in BOOLEAN
  OBVIOUS
<1>3. row \in TaskRow /\ row.pc = "turn"
  <2> HIDE DEF made
  <2> QED
    BY <1>2, NextTurnType DEF TaskRow
<1>4. TaskInv'
  BY <1>1, <1>3, BecomeType DEF InTurn
<1> QED
  BY <1>4, KeepTypes DEF Lapsed

LEMMA DeferType ==
  ASSUME TypeInv, NEW k \in Tasks, Defer(k)
  PROVE  TypeInv'
<1> USE DEF TypeInv, TypeOK, TaskInv
<1> DEFINE s == Stim(k)
           a == Agent(k)
<1>1. a \in Agents /\ turn[s][a] \in TurnRow
  BY TurnRowType DEF Defer, Finishing, InTurn
<1>2. [turn[s][a] EXCEPT !.state = "selected", !.token = NoToken] \in TurnRow
  BY <1>1, TurnMoved, ConstantTypes DEF TurnStates, Unfinished
<1>3. turn' = [turn EXCEPT ![s] = [@ EXCEPT ![a] =
                 [turn[s][a] EXCEPT !.state = "selected", !.token = NoToken]]]
  BY <1>1, TurnRowType DEF Defer, WorkTypeOK
<1>4. WorkTypeOK'
  <2>1. s \in Stimuli
    BY TurnRowType
  <2>2. [turn[s] EXCEPT ![a] =
           [turn[s][a] EXCEPT !.state = "selected", !.token = NoToken]] \in [Agents -> TurnRow]
    BY <1>1, <1>2, <2>1 DEF WorkTypeOK
  <2>3. stim' = stim
    BY DEF Defer
  <2> QED
    BY <1>3, <2>1, <2>2, <2>3 DEF WorkTypeOK
<1>5. TaskInv'
  BY GotoType DEF Defer, Locations, InTurn
<1> QED
  BY <1>4, <1>5, KeepTypes DEF Defer

LEMMA FinishedTurnType ==
  ASSUME TypeInv, NEW k \in Tasks, Finishing(k),
         NEW state \in {"completed", "passed", "failed"}
  PROVE  Finished(Stim(k), Agent(k), state) \in [Stimuli -> [Agents -> TurnRow]]
<1>1. Stim(k) \in Stimuli /\ Agent(k) \in Agents
  BY TurnRowType DEF Finishing, InTurn
<1>2. state \in TurnStates
  BY DEF TurnStates
<1> QED
  BY <1>1, <1>2, FinishedType DEF TypeInv, TypeOK

LEMMA FailCalledType ==
  ASSUME TypeInv, NEW k \in Tasks, FailCalled(k)
  PROVE  TypeInv'
<1> USE DEF TypeInv, TypeOK, TaskInv
<1> DEFINE failed == Finished(Stim(k), Agent(k), "failed")
<1>1. failed \in [Stimuli -> [Agents -> TurnRow]]
  BY FinishedTurnType DEF FailCalled
<1>2. Agent(k) \in Agents
  BY TurnRowType DEF FailCalled, Finishing, InTurn
<1>3. runState' \in RunStates /\ WorkTypeOK'
  <2>1. CASE task[k].mark = "safety"
    BY <1>1, <2>1, EndRunType DEF FailCalled, WorkTypeOK, RunStates
  <2>2. CASE task[k].mark # "safety"
    BY <1>1, <2>2 DEF FailCalled, WorkTypeOK, RunTypeOK
  <2> QED
    BY <2>1, <2>2
<1>4. unavailable' \subseteq Agents
  BY <1>2 DEF FailCalled, RunTypeOK
<1>5. RunTypeOK'
  BY <1>3, <1>4, RoundCounted DEF FailCalled, RunTypeOK
<1>6. TaskInv'
  BY NextTurnGoes DEF FailCalled
<1> QED
  BY <1>3, <1>5, <1>6, KeepTypes DEF FailCalled

LEMMA PlanType ==
  ASSUME NEW default \in Kinds, NEW others \in SUBSET Agents,
         NEW p \in Plans(default, others)
  PROVE  p[1] \in Kinds /\ p[2] \in OptAgent
BY DEF Plans, Kinds

LEMMA FollowUpType ==
  ASSUME TypeInv, NEW k \in Tasks, NEW t \in Threads, FollowUp(k, t)
  PROVE  stim' \in [Stimuli -> Row]
<1> USE DEF TypeInv, TypeOK, WorkTypeOK
<1>1. CASE Closes(k)
  <2>1. \A s \in Stimuli : [stim[s] EXCEPT !.state = "cancelled", !.token = NoToken] \in Row
    BY RowMoved, ConstantTypes DEF StimStates
  <2> QED
    BY <1>1, <2>1 DEF FollowUp, CancelIn
<1>2. CASE ~Closes(k) /\ MayCascade(k)
  <2> DEFINE others == {a \in Agents : enabled[a] /\ (Autonomous \/ a # Agent(k))}
             depth  == stim[Stim(k)].depth + 1
  <2>1. PICK r \in FreeRow, p \in Plans("agent_post", others) :
          stim' = [stim EXCEPT ![r] = NewStimulus(t, p[1], p[2], depth, {}, r)]
    BY <1>2 DEF FollowUp
  <2>2. r \in Stimuli
    BY DEF FreeRow
  <2>3. p[1] \in Kinds /\ p[2] \in OptAgent
    BY PlanType DEF Kinds
  <2>4. depth \in 0..MaxDepth
    <3>1. stim[Stim(k)].depth \in 0..MaxDepth
      BY TurnRowType DEF Row
    <3> QED
      BY <1>2, <3>1, ConstantTypes DEF MayCascade
  <2>5. NewStimulus(t, p[1], p[2], depth, {}, r) \in Row
    BY <2>2, <2>3, <2>4, NewStimulusType
  <2> QED
    BY <2>1, <2>2, <2>5
<1>3. CASE ~Closes(k) /\ ~MayCascade(k)
  BY <1>3 DEF FollowUp
<1> QED
  BY <1>1, <1>2, <1>3

LEMMA PostedType ==
  ASSUME TypeInv, NEW k \in Tasks, NEW t \in Threads, Finishing(k), Posted(k, t),
         thread' \in [Threads -> ThreadStates]
  PROVE  TypeInv'
<1> USE DEF TypeInv, TypeOK, TaskInv
<1>1. Stim(k) \in Stimuli /\ Agent(k) \in Agents
  BY TurnRowType DEF Finishing, InTurn
<1>2. BoardTypeOK'
  <2>1. posts' \subseteq Stimuli \X Agents \X Threads
    BY <1>1 DEF BoardTypeOK, Posted
  <2>2. last' \in [Threads -> OptAgent]
    BY <1>1 DEF BoardTypeOK, Posted, OptAgent
  <2>3. keys' \in [Threads -> SUBSET {"idle", "new_evidence", "revisit"}]
    BY DEF BoardTypeOK, Posted
  <2> QED
    BY <2>1, <2>2, <2>3 DEF BoardTypeOK, Posted
<1>3. WorkTypeOK'
  BY FinishedTurnType, FollowUpType DEF WorkTypeOK, Posted
<1>4. RunTypeOK'
  BY RoundCounted DEF RunTypeOK, Posted
<1> DEFINE row == [NextTurn(k) EXCEPT !.made = TRUE]
           tk  == [task EXCEPT ![k] = row]
<1>5. row \in TaskRow /\ row.pc = "turn"
  BY NextTurnType DEF TaskRow
<1>6. tk \in [Tasks -> TaskRow]
        /\ \A j \in Tasks : tk[j].pc \in InTurn => tk[j].agent \in Agents
  BY <1>5 DEF TaskTypeOK, AgentNamed, InTurn
<1>7. /\ Notified(tk) \in [Tasks -> TaskRow]
      /\ \A j \in Tasks : Notified(tk)[j].pc \in InTurn => Notified(tk)[j].agent \in Agents
  <2> HIDE DEF tk
  <2> QED
    BY <1>6, NotifiedType DEF Notified, WithRunner, At, InTurn
<1>8. TaskInv'
  BY <1>7 DEF TaskTypeOK, AgentNamed, Posted
<1> QED
  BY <1>2, <1>3, <1>4, <1>8, KeepTypes DEF Posted

LEMMA FinishActionType ==
  ASSUME TypeInv, NEW k \in Tasks, FinishAction(k)
  PROVE  TypeInv'
<1> USE DEF TypeInv, TypeOK, TaskInv
<1>1. CASE FailUncalled(k)
  BY <1>1, FinishedTurnType, NextTurnGoes, KeepTypes DEF FailUncalled, WorkTypeOK
<1>2. CASE Pass(k)
  <2>1. RunTypeOK'
    BY <1>2, RoundCounted DEF Pass, RunTypeOK
  <2> QED
    BY <1>2, <2>1, FinishedTurnType, NextTurnGoes, KeepTypes DEF Pass, WorkTypeOK
<1>3. CASE CommitRejected(k)
  <2>1. RunTypeOK'
    BY <1>3, RoundCounted DEF CommitRejected, RunTypeOK
  <2> QED
    BY <1>3, <2>1, FinishedTurnType, NextTurnGoes, KeepTypes DEF CommitRejected, WorkTypeOK
<1>4. CASE CommitRaises(k)
  BY <1>4, GotoType, KeepTypes DEF CommitRaises, Finishing, Locations, InTurn
<1>5. CASE CommitPost(k)
  <2>1. PICK t \in Targets(k) :
          /\ Posted(k, t)
          /\ thread' = IF Closes(k) THEN [thread EXCEPT ![t] = "closed"] ELSE thread
    BY <1>5 DEF CommitPost
  <2>2. t \in Threads
    BY TurnRowType DEF Targets, Row
  <2>3. thread' \in [Threads -> ThreadStates]
    BY <2>1, <2>2 DEF BoardTypeOK, ThreadStates
  <2> QED
    BY <1>5, <2>1, <2>2, <2>3, PostedType DEF CommitPost
<1>6. CASE CommitThread(k)
  <2>1. PICK t \in Threads : /\ Posted(k, t)
                             /\ thread' = [thread EXCEPT ![t] = "active"]
    BY <1>6 DEF CommitThread
  <2>2. thread' \in [Threads -> ThreadStates]
    BY <2>1 DEF BoardTypeOK, ThreadStates
  <2> QED
    BY <1>6, <2>1, <2>2, PostedType DEF CommitThread
<1> QED
  BY <1>1, <1>2, <1>3, <1>4, <1>5, <1>6, RecordType, LapsedType, DeferType,
     FailCalledType DEF FinishAction

LEMMA RequeueType ==
  ASSUME TypeInv, NEW k \in Tasks, Requeue(k)
  PROVE  TypeInv'
<1> USE DEF TypeInv, TypeOK, TaskInv
<1> DEFINE s == Stim(k)
           a == Agent(k)
           state == IF stim[s].attempts < MaxAttempts THEN "selected" ELSE "failed"
<1>1. s \in Stimuli /\ a \in Agents /\ turn[s][a] \in TurnRow /\ stim[s] \in Row
  BY TurnRowType DEF Requeue, InTurn
<1>2. [turn[s][a] EXCEPT !.state = state, !.token = NoToken] \in TurnRow
  BY <1>1, TurnMoved, ConstantTypes DEF TurnStates, Unfinished
<1>3. [turn[s] EXCEPT ![a] =
         [turn[s][a] EXCEPT !.state = state, !.token = NoToken]] \in [Agents -> TurnRow]
  BY <1>1, <1>2 DEF WorkTypeOK
<1>4. WorkTypeOK'
  <2>1. CASE UNCHANGED workVars
    BY <2>1, KeepTypes
  <2>2. CASE /\ turn' = [turn EXCEPT ![s] = [@ EXCEPT ![a] =
                           [turn[s][a] EXCEPT !.state = state, !.token = NoToken]]]
             /\ stim' = [stim EXCEPT ![s] = Released(@)]
    <3>1. turn' \in [Stimuli -> [Agents -> TurnRow]]
      BY <1>1, <1>3, <2>2 DEF WorkTypeOK
    <3>2. stim' \in [Stimuli -> Row]
      BY <1>1, <2>2, BackInQueueType DEF WorkTypeOK
    <3> QED
      BY <3>1, <3>2 DEF WorkTypeOK
  <2>3. CASE ~UNCHANGED workVars
    <3>1. stim' = [stim EXCEPT ![s] = Released(@)]
      BY <2>3 DEF Requeue
    <3>2. turn' = [turn EXCEPT ![s] = [@ EXCEPT ![a] =
                     [turn[s][a] EXCEPT !.state = state, !.token = NoToken]]]
      BY ZenonT(40), <1>1, <2>3 DEF Requeue, WorkTypeOK
    <3> QED
      BY <2>2, <3>1, <3>2
  <2> QED
    BY <2>1, <2>3
<1>5. TaskInv'
  BY GotoType DEF Requeue, Locations, InTurn
<1> QED
  BY <1>4, <1>5, KeepTypes DEF Requeue

LEMMA CompleteType ==
  ASSUME TypeInv, NEW k \in Tasks, Complete(k)
  PROVE  TypeInv'
<1> USE DEF TypeInv, TypeOK, TaskInv
<1> DEFINE s    == Stim(k)
           row  == [stim[s] EXCEPT !.state = "completed", !.token = NoToken]
           done == [stim EXCEPT ![s].state = "completed", ![s].token = NoToken]
<1>1. PICK st \in Completed(k) :
        /\ stim' = st
        /\ thread' = IF GoesQuiet(k, st)
                     THEN [thread EXCEPT ![stim[s].thread] = "dormant"]
                     ELSE thread
  BY DEF Complete
<1>2. s \in Stimuli /\ stim[s] \in Row
  BY TurnRowType
<1>3. done \in [Stimuli -> Row]
  <2>1. row \in Row
    BY <1>2, RowMoved, ConstantTypes DEF StimStates
  <2>2. done = [stim EXCEPT ![s] = row]
    BY <1>2 DEF WorkTypeOK
  <2> QED
    BY <1>2, <2>1, <2>2 DEF WorkTypeOK
<1>4. AttemptedBy(s) \in SUBSET Agents
  BY <1>2 DEF AttemptedBy, Taken, TargetMissed, Row, OptAgent
<1>5. st \in [Stimuli -> Row]
  <2>1. CASE st = done
    BY <1>3, <2>1
  <2>2. CASE st # done
    <3>1. PICK r \in FreeRow :
            st = [done EXCEPT ![r] = NewStimulus(stim[s].thread, stim[s].kind, NoAgent,
                                stim[s].depth, AttemptedBy(s), stim[s].root)]
      BY <1>1, <2>2 DEF Completed
    <3>2. NewStimulus(stim[s].thread, stim[s].kind, NoAgent, stim[s].depth,
                      AttemptedBy(s), stim[s].root) \in Row
      BY <1>2, <1>4, NewStimulusType, ConstantTypes DEF Row
    <3>3. r \in Stimuli
      BY DEF FreeRow
    <3> HIDE DEF done
    <3> QED
      BY <1>3, <3>1, <3>2, <3>3
  <2> QED
    BY <2>1, <2>2
<1>6. WorkTypeOK'
  BY <1>1, <1>5 DEF WorkTypeOK, Complete
<1>7. BoardTypeOK'
  BY <1>1, <1>2 DEF BoardTypeOK, Complete, ThreadStates, Row
<1>8. TaskInv'
  BY GotoType DEF Complete, Locations, InTurn
<1> QED
  BY <1>6, <1>7, <1>8, KeepTypes DEF Complete

LEMMA DoneType ==
  ASSUME TaskInv, NEW k \in Tasks, Become(k, Done(k))
  PROVE  TaskInv'
BY GoAtType DEF Done, Locations, InTurn

LEMMA EndActionType ==
  ASSUME TypeInv, NEW k \in Tasks, EndAction(k)
  PROVE  TypeInv'
<1> USE DEF TypeInv, TypeOK, TaskInv
<1>1. Stim(k) \in Stimuli /\ stim[Stim(k)] \in Row
  BY TurnRowType
<1>2. CASE Release(k)
  <2>1. WorkTypeOK'
    BY <1>1, <1>2, BackInQueueType DEF WorkTypeOK, Release
  <2> QED
    BY <1>2, <2>1, GotoType, KeepTypes DEF Release, Locations, InTurn
<1>3. CASE Yield(k)
  <2>1. GivenBack(stim[Stim(k)]) \in Row
    BY <1>1, BackInQueueType
  <2>2. [GivenBack(stim[Stim(k)]) EXCEPT !.delayed = FALSE] \in Row
    BY <2>1 DEF Row
  <2>3. WorkTypeOK'
    BY <1>1, <1>3, <2>2 DEF WorkTypeOK, Yield
  <2> QED
    BY <1>3, <2>3, GotoType, KeepTypes DEF Yield, Locations, InTurn
<1>4. CASE TurnsOver(k)
  BY <1>4, GotoType, KeepTypes DEF TurnsOver, Locations, InTurn
<1>5. CASE CompleteLost(k)
  BY <1>5, GotoType, KeepTypes DEF CompleteLost, Locations, InTurn
<1>6. CASE Advance(k)
  <2>1. RunTypeOK'
    BY <1>1, <1>6 DEF RunTypeOK, Advance
  <2> QED
    BY <1>6, <2>1, GotoType, KeepTypes DEF Advance, Locations, InTurn
<1>7. CASE Settle(k)
  <2>1. RunTypeOK'
    BY <1>7 DEF RunTypeOK, Settle, StepEnds, RunStates
  <2> QED
    BY <1>7, <2>1, GotoType, KeepTypes DEF Settle, Locations, InTurn
<1>8. CASE Abort(k)
  <2>1. RunTypeOK'
    BY <1>8 DEF RunTypeOK, Abort, StepEnds, RunStates
  <2> QED
    BY <1>8, <2>1, DoneType, KeepTypes DEF Abort
<1>9. CASE Budget(k)
  <2>1. runState' \in RunStates /\ WorkTypeOK'
    <3>1. CASE EndRun("completed", stim, turn)
      BY <3>1, EndRunType DEF WorkTypeOK, RunStates
    <3>2. CASE UNCHANGED <<runState, workVars>>
      BY <3>2, KeepTypes DEF RunTypeOK
    <3> QED
      BY <1>9, <3>1, <3>2 DEF Budget
  <2>2. RunTypeOK'
    BY <1>9, <2>1 DEF RunTypeOK, Budget
  <2> QED
    BY <1>9, <2>1, <2>2, DoneType, KeepTypes DEF Budget
<1> QED
  BY <1>2, <1>3, <1>4, <1>5, <1>6, <1>7, <1>8, <1>9, RequeueType, CompleteType
     DEF EndAction

LEMMA RaisesType ==
  ASSUME TypeInv, NEW k \in Tasks, NEW row \in Raises(k)
  PROVE  row \in TaskRow /\ (row.pc \in InTurn => row.agent \in Agents)
<1> USE DEF TypeInv, TypeOK
<1>1. task[k] \in TaskRow
  BY TurnRowType
<1>2. CASE task[k].pc = "prepare"
  BY <1>1, <1>2 DEF Raises, TaskRow, Locations, InTurn
<1>3. CASE task[k].pc = "turn"
  <2>1. PICK a \in task[k].todo : row = [task[k] EXCEPT !.pc = "requeue", !.agent = a]
    BY <1>3 DEF Raises
  <2>2. a \in Agents
    BY <1>1 DEF TaskRow
  <2> QED
    BY <1>1, <2>1, <2>2 DEF TaskRow, Locations, OptAgent
<1>4. CASE task[k].pc \in {"call", "record", "finish"}
  <2>1. row = [task[k] EXCEPT !.pc = "requeue"]
    BY <1>4 DEF Raises
  <2>2. task[k].agent \in Agents
    BY <1>4, TurnRowType DEF InTurn, Agent
  <2> QED
    BY <1>1, <2>1, <2>2 DEF TaskRow, Locations
<1>5. CASE task[k].pc \notin {"prepare", "turn", "call", "record", "finish"}
  <2>1. PICK pc \in {"pausing", "fail", "off"} : row = At(pc)
    BY <1>5 DEF Raises
  <2>2. pc \in Locations /\ At(pc).pc = pc /\ pc \notin InTurn
    BY DEF Locations, At, InTurn
  <2> QED
    BY <2>1, <2>2, AtType
<1> QED
  BY <1>2, <1>3, <1>4, <1>5

LEMMA FaultType ==
  ASSUME TypeInv, NEW k \in Tasks, Fault(k)
  PROVE  TypeInv'
<1> USE DEF TypeInv, TypeOK, TaskInv
<1>1. TaskInv'
  <2>1. PICK row \in Raises(k) : Become(k, row)
    BY DEF Fault
  <2> QED
    BY <2>1, RaisesType, BecomeType
<1>2. {faults, crashes}' \subseteq Nat
  <2>1. faults' = faults + 1 /\ crashes' = crashes
    BY DEF Fault
  <2> QED
    BY <2>1
<1>3. RunTypeOK'
  BY DEF Fault, StepLost, RunTypeOK, Releases
<1> QED
  BY <1>1, <1>2, <1>3, KeepTypes DEF Fault

LEMMA WorkerActionType ==
  ASSUME TypeInv, WorkerAction
  PROVE  TypeInv'
<1> USE DEF TypeInv, TypeOK, TaskInv
<1>0. "worker" \in Tasks
  BY DEF Tasks
<1>1. CASE Rest
  <2>1. thread' \in [Threads -> ThreadStates]
    BY <1>1 DEF Rest, BoardTypeOK, ThreadStates
  <2>2. keys' \in [Threads -> SUBSET {"idle", "new_evidence", "revisit"}]
    BY <1>1 DEF Rest, BoardTypeOK
  <2>3. BoardTypeOK'
    BY <1>1, <2>1, <2>2 DEF Rest, BoardTypeOK
  <2>4. stim' \in [Stimuli -> Row]
    <3>1. CASE UNCHANGED stim
      BY <3>1 DEF WorkTypeOK
    <3>2. CASE \E t \in Threads, r \in FreeRow :
                 stim' = [stim EXCEPT ![r] =
                            NewStimulus(t, "idle_revisit", NoAgent, 0, {}, r)]
      <4>1. PICK t \in Threads, r \in FreeRow :
              stim' = [stim EXCEPT ![r] =
                         NewStimulus(t, "idle_revisit", NoAgent, 0, {}, r)]
        BY <3>2
      <4>2. r \in Stimuli /\ 0 \in 0..MaxDepth
        BY ConstantTypes DEF FreeRow
      <4>3. NewStimulus(t, "idle_revisit", NoAgent, 0, {}, r) \in Row
        BY <4>2, NewStimulusType, ConstantTypes DEF Kinds
      <4> QED
        BY <4>1, <4>2, <4>3 DEF WorkTypeOK
    <3> QED
      BY <1>1, <3>1, <3>2 DEF Rest, Quiet
  <2>5. TaskInv'
    BY <1>0, <1>1, GotoType DEF Rest, Locations, InTurn
  <2>6. WorkTypeOK'
    BY <1>1, <2>4 DEF WorkTypeOK, Rest
  <2> QED
    BY <1>1, <2>3, <2>5, <2>6, KeepTypes DEF Rest
<1>2. CASE Fail
  <2>1. WorkTypeOK'
    BY <1>2, RecoverType DEF Fail, Leases
  <2> QED
    BY <1>0, <1>2, <2>1, GotoType, KeepTypes DEF Fail, Locations, InTurn
<1>3. CASE Pausing
  <2>1. RunTypeOK'
    BY <1>3 DEF RunTypeOK, Pausing, RunStates
  <2> QED
    BY <1>0, <1>3, <2>1, GoAtType, KeepTypes DEF Pausing, Locations, InTurn
<1> QED
  BY <1>1, <1>2, <1>3 DEF WorkerAction

LEMMA RunnerType ==
  ASSUME TaskInv, task' = WithRunner(task) \/ task' = Notified(task)
  PROVE  TaskInv'
<1>1. task' \in [Tasks -> TaskRow]
  BY NotifiedType DEF TaskInv, TaskTypeOK
<1>2. \/ task' = task
      \/ task' = [task EXCEPT !["worker"] = At("top")]
  BY DEF Notified, WithRunner
<1>3. At("top").pc \notin InTurn
  BY DEF At, InTurn
<1>4. \A k \in Tasks : task'[k].pc \in InTurn => task'[k] = task[k]
  BY <1>2, <1>3 DEF TaskInv, TaskTypeOK
<1> QED
  BY <1>1, <1>4 DEF TaskInv, TaskTypeOK, AgentNamed

(* A request that queues a stimulus for a thread. *)
LEMMA QueuedType ==
  ASSUME WorkTypeOK, NEW t \in Threads, NEW kind \in Kinds, NEW target \in OptAgent,
         NEW r \in FreeRow,
         stim' = [stim EXCEPT ![r] = NewStimulus(t, kind, target, 0, {}, r)],
         UNCHANGED turn
  PROVE  WorkTypeOK'
<1>1. r \in Stimuli /\ 0 \in 0..MaxDepth
  BY ConstantTypes DEF FreeRow
<1>2. NewStimulus(t, kind, target, 0, {}, r) \in Row
  BY <1>1, NewStimulusType
<1> QED
  BY <1>1, <1>2 DEF WorkTypeOK

LEMMA HumanPostType ==
  ASSUME TypeInv, HumanPost
  PROVE  TypeInv'
<1> USE DEF TypeInv, TypeOK, TaskInv
<1>1. PICK t \in Threads, r \in FreeRow, p \in Plans("human_post", Enabled) :
        /\ thread' = [thread EXCEPT ![t] = "active"]
        /\ last' = [last EXCEPT ![t] = NoAgent]
        /\ keys' = [keys EXCEPT ![t] = {}]
        /\ stim' = [stim EXCEPT ![r] = NewStimulus(t, p[1], p[2], 0, {}, r)]
  BY DEF HumanPost
<1>2. p[1] \in Kinds /\ p[2] \in OptAgent
  BY PlanType DEF Kinds, Enabled
<1>3. WorkTypeOK'
  BY <1>1, <1>2, QueuedType DEF HumanPost
<1>4. BoardTypeOK'
  BY <1>1, ConstantTypes DEF HumanPost, BoardTypeOK, ThreadStates
<1>5. TaskInv'
  BY RunnerType DEF HumanPost
<1> QED
  BY <1>3, <1>4, <1>5, KeepTypes DEF HumanPost

LEMMA HumanWakeType ==
  ASSUME TypeInv, HumanWake
  PROVE  TypeInv'
<1> USE DEF TypeInv, TypeOK, TaskInv
<1>1. PICK t \in Threads, reason \in InputKinds \cap {"new_evidence", "revisit"} :
        /\ thread' = [thread EXCEPT ![t] = "active"]
        /\ keys' = [keys EXCEPT ![t] = @ \cup {reason}]
        /\ IF reason \in keys[t] THEN UNCHANGED stim
           ELSE \E r \in FreeRow :
                  stim' = [stim EXCEPT ![r] = NewStimulus(t, reason, NoAgent, 0, {}, r)]
  BY DEF HumanWake
<1>2. WorkTypeOK'
  BY <1>1, QueuedType, ConstantTypes DEF HumanWake, WorkTypeOK, Kinds
<1>3. BoardTypeOK'
  BY <1>1 DEF HumanWake, BoardTypeOK, ThreadStates
<1> QED
  BY <1>2, <1>3, KeepTypes DEF HumanWake

LEMMA RequestType ==
  ASSUME TypeInv, Request
  PROVE  TypeInv'
<1> USE DEF TypeInv, TypeOK, TaskInv
<1>0. "worker" \in Tasks /\ "stepper" \in Tasks
  BY DEF Tasks
<1>1. CASE Start
  <2>1. RunTypeOK'
    BY <1>1 DEF Start, RunTypeOK, RunStates, Releases
  <2> QED
    BY <1>1, <2>1, RunnerType, KeepTypes DEF Start
<1>2. CASE EnsureRunner
  <2>1. RunTypeOK'
    BY <1>2 DEF EnsureRunner, RunTypeOK, Releases
  <2> QED
    BY <1>2, <2>1, RunnerType, KeepTypes DEF EnsureRunner
<1>3. CASE Pause
  <2>1. RunTypeOK'
    BY <1>3 DEF Pause, RunTypeOK, RunStates, Releases
  <2> QED
    BY <1>3, <2>1, KeepTypes DEF Pause
<1>4. CASE Stop
  <2>1. runState' \in RunStates /\ WorkTypeOK'
    BY <1>4, EndRunType DEF Stop, WorkTypeOK, RunStates
  <2>2. RunTypeOK'
    BY <1>4, <2>1 DEF Stop, RunTypeOK
  <2> QED
    BY <1>0, <1>4, <2>1, <2>2, GoAtType, KeepTypes DEF Stop, Locations, InTurn
<1>5. CASE RequestStep
  BY <1>0, <1>5, GotoType, KeepTypes DEF RequestStep, Locations, InTurn
<1>6. CASE HumanSetStatus
  <2>1. BoardTypeOK'
    BY <1>6 DEF HumanSetStatus, BoardTypeOK
  <2> QED
    BY <1>6, <2>1, KeepTypes DEF HumanSetStatus
<1>7. CASE SetEnabled
  <2>1. BoardTypeOK'
    BY <1>7 DEF SetEnabled, BoardTypeOK
  <2> QED
    BY <1>7, <2>1, KeepTypes DEF SetEnabled
<1>8. CASE Reconfigure
  <2>1. RunTypeOK'
    BY <1>8 DEF Reconfigure, RunTypeOK
  <2> QED
    BY <1>8, <2>1, KeepTypes DEF Reconfigure
<1> QED
  BY <1>1, <1>2, <1>3, <1>4, <1>5, <1>6, <1>7, <1>8, HumanPostType, HumanWakeType
     DEF Request

LEMMA OutsideType ==
  ASSUME TypeInv, Outside
  PROVE  TypeInv'
<1> USE DEF TypeInv, TypeOK, TaskInv
<1>1. CASE BudgetExpires
  <2>1. RunTypeOK'
    BY <1>1 DEF BudgetExpires, RunTypeOK
  <2> QED
    BY <1>1, <2>1, KeepTypes DEF BudgetExpires
<1>2. CASE TimePasses
  <2>1. PICK s \in Stimuli : stim' = [stim EXCEPT ![s].delayed = FALSE]
    BY <1>2 DEF TimePasses
  <2>2. [stim[s] EXCEPT !.delayed = FALSE] \in Row
    <3>1. stim[s] \in Row
      BY DEF WorkTypeOK
    <3> QED
      BY <3>1 DEF Row
  <2>3. WorkTypeOK'
    BY <1>2, <2>1, <2>2 DEF TimePasses, WorkTypeOK
  <2> QED
    BY <1>2, <2>3, KeepTypes DEF TimePasses
<1>3. CASE Restart
  <2>1. WorkTypeOK'
    BY <1>3, RecoverType DEF Restart, Leases
  <2> DEFINE off == [k \in Tasks |-> At("off")]
  <2>2. off \in [Tasks -> TaskRow]
    BY AtType DEF Locations
  <2>3. \A k \in Tasks : Notified(off)[k].pc \notin InTurn
    BY DEF Notified, WithRunner, At, InTurn, Tasks
  <2>4. Notified(off) \in [Tasks -> TaskRow]
    <3> HIDE DEF off
    <3> QED
      BY <2>2, NotifiedType
  <2>5. TaskInv'
    BY <1>3, <2>3, <2>4 DEF Restart, TaskTypeOK, AgentNamed
  <2>6. {faults, crashes}' \subseteq Nat
    <3>1. crashes' = crashes + 1 /\ faults' = faults
      BY <1>3 DEF Restart
    <3> QED
      BY <3>1
  <2>7. RunTypeOK'
    BY <1>3 DEF Restart, StepLost, RunTypeOK, Releases
  <2> QED
    BY <1>3, <2>1, <2>5, <2>6, <2>7, KeepTypes DEF Restart
<1> QED
  BY <1>1, <1>2, <1>3 DEF Outside

LEMMA InitType == Init => TypeInv
<1> SUFFICES ASSUME Init PROVE TypeInv
  OBVIOUS
<1>1. RunTypeOK
  BY DEF Init, RunTypeOK, RunStates, Releases
<1>2. BoardTypeOK
  BY ConstantTypes DEF Init, BoardTypeOK, ThreadStates
<1>3. WorkTypeOK
  <2>1. \A s \in Stimuli : NewStimulus(FirstThread, "human_post", NoAgent, 0, {}, s) \in Row
    BY NewStimulusType, ConstantTypes DEF Kinds
  <2>2. {"pending", "none"} \subseteq StimStates
    BY DEF StimStates, Open
  <2>3. stim \in [Stimuli -> Row]
    <3>1. \A s \in Stimuli, x \in StimStates :
            [NewStimulus(FirstThread, "human_post", NoAgent, 0, {}, s) EXCEPT
               !.state = x] \in Row
      BY <2>1 DEF Row
    <3> QED
      BY <2>2, <3>1 DEF Init
  <2>4. NoTurn \in TurnRow
    BY ConstantTypes DEF NoTurn, TurnRow, TurnStates
  <2> QED
    BY <2>3, <2>4 DEF Init, WorkTypeOK
<1>4. TaskInv
  BY AtType DEF Init, TaskInv, TaskTypeOK, AgentNamed, Locations, At, InTurn
<1> QED
  BY <1>1, <1>2, <1>3, <1>4 DEF Init, TypeInv, TypeOK, TaskInv

LEMMA NextType == TypeInv /\ [Next]_vars => TypeInv'
<1> SUFFICES ASSUME TypeInv, [Next]_vars PROVE TypeInv'
  OBVIOUS
<1>1. CASE UNCHANGED vars
  BY <1>1, KeepTypes DEF vars, TypeInv, TypeOK, TaskInv
<1>2. CASE \E k \in Tasks : TaskStep(k) \/ Fault(k)
  BY <1>2, StepActionType, TurnActionType, FinishActionType, EndActionType, FaultType
     DEF TaskStep
<1>3. CASE WorkerAction \/ Request \/ Outside
  BY <1>3, WorkerActionType, RequestType, OutsideType
<1> QED
  BY <1>1, <1>2, <1>3 DEF Next

(* The tables, the counters and the locals of both tasks keep their types   *)
(* in every behaviour, and a task in a turn names the agent of that turn.   *)
THEOREM TypeCorrect == Spec => []TypeOK
<1>1. Spec => []TypeInv
  BY InitType, NextType, PTL DEF Spec
<1> QED
  BY <1>1, PTL DEF TypeInv

-----------------------------------------------------------------------------
(* The end of a run.  Two facts make TerminalRunIsQuiet inductive.  Only one *)
(* task at a time is between two suspension points, so nothing can end the  *)
(* run under a task that has claimed a stimulus and is about to prepare it; *)
(* hence a task that claims or prepares does so for a run that goes on.     *)

OneAtATime == \A j, k \in Tasks :
  j # k => task[j].pc \in Suspended \/ task[k].pc \in Suspended

Claiming   == {"claim", "prepare"}
ClaimsLive == \A k \in Tasks : task[k].pc \in Claiming => runState \notin Terminal

QuietInv == TerminalRunIsQuiet /\ OneAtATime /\ ClaimsLive

Frozen == UNCHANGED <<runState, rounds, posts, humanPosts, stim, turn>>

\* A step of task k: it is its turn, and the others stay where they are or are
\* started afresh.
Moves(k) ==
  /\ task[k].pc \notin Suspended \/ LoopFree
  /\ \A j \in Tasks \ {k} : task'[j] = task[j] \/ task'[j].pc \in Suspended

LEMMA OneAtATimeKept ==
  ASSUME OneAtATime, NEW k \in Tasks, Moves(k)
  PROVE  OneAtATime'
BY DEF OneAtATime, Moves, LoopFree

LEMMA BecomeMoves ==
  ASSUME TaskTypeOK, NEW k \in Tasks, NEW row, Become(k, row)
  PROVE  \A j \in Tasks \ {k} : task'[j] = task[j] \/ task'[j].pc \in Suspended
BY DEF TaskTypeOK, Become

LEMMA NotifiedMoves ==
  ASSUME NEW tk \in [Tasks -> TaskRow], NEW j \in Tasks
  PROVE  /\ Notified(tk)[j] = tk[j] \/ Notified(tk)[j].pc \in Suspended
         /\ WithRunner(tk)[j] = tk[j] \/ WithRunner(tk)[j].pc \in Suspended
BY DEF Notified, WithRunner, At, Suspended

LEMMA PostedMoves ==
  ASSUME TypeInv, NEW k \in Tasks, NEW t, Posted(k, t)
  PROVE  \A j \in Tasks \ {k} : task'[j] = task[j] \/ task'[j].pc \in Suspended
<1> DEFINE row == [NextTurn(k) EXCEPT !.made = TRUE]
           tk  == [task EXCEPT ![k] = row]
<1>1. row \in TaskRow
  BY NextTurnType DEF TypeInv, TypeOK, TaskRow
<1>2. tk \in [Tasks -> TaskRow] /\ \A j \in Tasks \ {k} : tk[j] = task[j]
  BY <1>1 DEF TypeInv, TypeOK, TaskTypeOK
<1>3. task' = Notified(tk)
  BY DEF Posted
<1> HIDE DEF tk
<1> QED
  BY <1>2, <1>3, NotifiedMoves

LEMMA TaskStepMoves ==
  ASSUME TypeInv, NEW k \in Tasks, TaskStep(k) \/ Fault(k)
  PROVE  Moves(k)
<1> USE DEF TypeInv, TypeOK, Moves, Suspended
<1>1. CASE StepAction(k)
  BY <1>1, BecomeMoves DEF StepAction, Leave, Begin, ClaimEnds, ClaimNothing, Claim,
     PrepareAgain, PrepareSelect, PrepareDefer, Prepared, Goto
<1>2. CASE TurnAction(k)
  BY <1>2, BecomeMoves DEF TurnAction, TurnYield, TurnSkip, TurnStart, CallRefused,
     CallMade, GatewayAnswers, GatewayMisses, BackoffOver, Goto
<1>3. CASE FinishAction(k)
  <2>1. CASE CommitPost(k) \/ CommitThread(k)
    BY <2>1, PostedMoves DEF CommitPost, CommitThread, Finishing
  <2>2. CASE ~(CommitPost(k) \/ CommitThread(k))
    BY <1>3, <2>2, BecomeMoves DEF FinishAction, Record, Lapsed, Defer, FailUncalled,
       FailCalled, Pass, CommitRejected, CommitRaises, Finishing, Goto
  <2> QED
    BY <2>1, <2>2
<1>4. CASE EndAction(k)
  BY <1>4, BecomeMoves DEF EndAction, Requeue, Release, Yield, TurnsOver, CompleteLost,
     Complete, Advance, Settle, Abort, Budget, Goto
<1>5. CASE Fault(k)
  BY <1>5, BecomeMoves DEF Fault
<1> QED
  BY <1>1, <1>2, <1>3, <1>4, <1>5 DEF TaskStep

LEMMA WorkerMoves ==
  ASSUME TypeInv, WorkerAction
  PROVE  Moves("worker")
BY BecomeMoves DEF TypeInv, TypeOK, Moves, Suspended, WorkerAction, Rest, Fail, Pausing,
   Goto, Tasks

LEMMA OneAtATimeInductive ==
  ASSUME TypeInv, OneAtATime, [Next]_vars
  PROVE  OneAtATime'
<1> USE DEF TypeInv, TypeOK
<1>1. CASE UNCHANGED vars
  BY <1>1 DEF vars, OneAtATime
<1>2. CASE \E k \in Tasks : TaskStep(k) \/ Fault(k)
  BY <1>2, TaskStepMoves, OneAtATimeKept
<1>3. CASE WorkerAction
  BY <1>3, WorkerMoves, OneAtATimeKept DEF Tasks
<1>4. CASE Request
  <2>1. CASE UNCHANGED task
    BY <2>1 DEF OneAtATime
  <2>2. CASE Start \/ EnsureRunner \/ HumanPost
    <3>1. \A j \in Tasks : task'[j] = task[j] \/ task'[j].pc \in Suspended
      BY <2>2, NotifiedMoves DEF Start, EnsureRunner, HumanPost, TaskTypeOK
    <3> QED
      BY <3>1 DEF OneAtATime
  <2>3. CASE Stop
    <3>1. Moves("worker")
      BY <2>3, BecomeMoves DEF Stop, Moves, Tasks
    <3> QED
      BY <3>1, OneAtATimeKept DEF Tasks
  <2>4. CASE RequestStep
    <3>1. Moves("stepper")
      BY <2>4, BecomeMoves DEF RequestStep, Moves, Tasks, Goto
    <3> QED
      BY <3>1, OneAtATimeKept DEF Tasks
  <2> QED
    BY <1>4, <2>1, <2>2, <2>3, <2>4 DEF Request, Pause, HumanSetStatus, HumanWake,
       SetEnabled, Reconfigure
<1>5. CASE Outside
  <2>1. CASE UNCHANGED task
    BY <2>1 DEF OneAtATime
  <2>2. CASE Restart
    <3> DEFINE off == [k \in Tasks |-> At("off")]
    <3>1. \A j \in Tasks : Notified(off)[j].pc \in Suspended
      BY DEF Notified, WithRunner, At, Suspended, Tasks
    <3> QED
      BY <2>2, <3>1 DEF Restart, OneAtATime
  <2> QED
    BY <1>5, <2>1, <2>2 DEF Outside, BudgetExpires, TimePasses
<1> QED
  BY <1>1, <1>2, <1>3, <1>4, <1>5 DEF Next

(* Only these two actions lead to a claim. *)
LEMMA GotoPc ==
  ASSUME TaskTypeOK, NEW k \in Tasks, NEW pc, Goto(k, pc)
  PROVE  task'[k].pc = pc
BY DEF TaskTypeOK, TaskRow, Goto, Become

LEMMA BecomeRow ==
  ASSUME TaskTypeOK, NEW k \in Tasks, NEW row, Become(k, row)
  PROVE  task'[k] = row
BY DEF TaskTypeOK, Become

LEMMA PostedPc ==
  ASSUME TypeInv, NEW k \in Tasks, NEW t, Posted(k, t)
  PROVE  task'[k].pc \notin Claiming
<1> DEFINE row == [NextTurn(k) EXCEPT !.made = TRUE]
           tk  == [task EXCEPT ![k] = row]
<1>1. row \in TaskRow /\ row.pc = "turn"
  BY NextTurnType DEF TypeInv, TypeOK, TaskRow
<1>2. tk \in [Tasks -> TaskRow] /\ tk[k].pc = "turn"
  BY <1>1 DEF TypeInv, TypeOK, TaskTypeOK
<1>3. task' = Notified(tk)
  BY DEF Posted
<1> HIDE DEF tk
<1> QED
  BY <1>2, <1>3, NotifiedMoves DEF Claiming, Suspended

LEMMA ClaimingReached ==
  ASSUME TypeInv, NEW k \in Tasks, TaskStep(k) \/ Fault(k), task'[k].pc \in Claiming
  PROVE  Begin(k) \/ Claim(k)
<1> USE DEF TypeInv, TypeOK, Claiming
<1>1. task[k] \in TaskRow
  BY DEF TaskTypeOK
<1>2. NextTurn(k) \in TaskRow /\ NextTurn(k).pc = "turn"
  BY NextTurnType
<1>3. CASE StepAction(k)
  <2>1. ~(Leave(k) \/ ClaimEnds(k) \/ ClaimNothing(k))
    BY BecomeRow DEF Leave, ClaimEnds, ClaimNothing, At
  <2>2. ~(PrepareAgain(k) \/ PrepareSelect(k))
    <3>1. SUFFICES ASSUME NEW todo,
                          Become(k, [task[k] EXCEPT !.pc = "turn", !.todo = todo])
                   PROVE  FALSE
      BY DEF PrepareAgain, PrepareSelect
    <3>2. task'[k] = [task[k] EXCEPT !.pc = "turn", !.todo = todo]
      BY <3>1, BecomeRow
    <3> QED
      BY <1>1, <3>2 DEF TaskRow
  <2>3. ~PrepareDefer(k)
    BY GotoPc DEF PrepareDefer
  <2> QED
    BY <1>3, <2>1, <2>2, <2>3 DEF StepAction
<1>4. CASE TurnAction(k)
  <2>1. ~(TurnYield(k) \/ BackoffOver(k))
    BY GotoPc DEF TurnYield, BackoffOver
  <2>2. ~TurnSkip(k)
    <3>1. SUFFICES ASSUME NEW todo, NEW made,
                          Become(k, [NextTurn(k) EXCEPT !.todo = todo, !.made = made])
                   PROVE  FALSE
      BY DEF TurnSkip
    <3>2. task'[k] = [NextTurn(k) EXCEPT !.todo = todo, !.made = made]
      BY <3>1, BecomeRow
    <3> QED
      BY <1>2, <3>2 DEF TaskRow
  <2>3. ~TurnStart(k)
    <3>1. SUFFICES ASSUME NEW todo, NEW a, NEW call, NEW attempt,
                          Become(k, [NextTurn(k) EXCEPT !.pc = "call", !.todo = todo,
                                       !.agent = a, !.call = call, !.attempt = attempt])
                   PROVE  FALSE
      BY DEF TurnStart
    <3>2. task'[k] = [NextTurn(k) EXCEPT !.pc = "call", !.todo = todo, !.agent = a,
                                        !.call = call, !.attempt = attempt]
      BY <3>1, BecomeRow
    <3> QED
      BY <1>2, <3>2 DEF TaskRow
  <2>4. ~CallMade(k)
    <3>1. CallMade(k) => task'[k] = [task[k] EXCEPT !.pc = "await", !.called = TRUE]
      BY BecomeRow DEF CallMade
    <3> QED
      BY <1>1, <3>1 DEF TaskRow
  <2>5. \A row \in TaskRow : ~Become(k, Concluded(row))
    <3>1. \A row \in TaskRow : Concluded(row).pc \in {"record", "finish"}
      BY DEF Concluded, TaskRow
    <3> QED
      BY <3>1, BecomeRow
  <2>6. ~(CallRefused(k) \/ GatewayAnswers(k))
    <3>1. \A result \in Results : [task[k] EXCEPT !.result = result] \in TaskRow
      BY <1>1 DEF TaskRow
    <3>2. \A result \in Results : ~Become(k, Concluded([task[k] EXCEPT !.result = result]))
      BY <2>5, <3>1
    <3> QED
      BY <3>2 DEF CallRefused, GatewayAnswers, Results
  <2>7. ~GatewayMisses(k)
    <3>1. SUFFICES ASSUME GatewayMisses(k) PROVE FALSE
      OBVIOUS
    <3>2. PICK again \in BOOLEAN, mark \in Marks :
            LET row == [task[k] EXCEPT !.misses = @ + 1,
                                       !.mark = IF mark = "no" THEN @ ELSE mark]
            IN  Become(k, IF again /\ row.attempt < Retries
                          THEN [row EXCEPT !.pc = "backoff", !.attempt = @ + 1]
                          ELSE Concluded(row))
      BY <3>1 DEF GatewayMisses
    <3> DEFINE row == [task[k] EXCEPT !.misses = @ + 1,
                                      !.mark = IF mark = "no" THEN @ ELSE mark]
               next == [row EXCEPT !.pc = "backoff", !.attempt = @ + 1]
    <3>3. row \in TaskRow
      <4>1. task[k].misses + 1 \in Nat
        BY <1>1 DEF TaskRow
      <4> QED
        BY <1>1, <4>1 DEF TaskRow
    <3>4. next.pc = "backoff"
      <4> HIDE DEF row
      <4> QED
        BY <3>3 DEF TaskRow
    <3>5. Become(k, next) \/ Become(k, Concluded(row))
      BY <3>2
    <3> HIDE DEF row, next
    <3> QED
      BY <2>5, <3>3, <3>4, <3>5, BecomeRow
  <2> QED
    BY <1>4, <2>1, <2>2, <2>3, <2>4, <2>6, <2>7 DEF TurnAction
<1>5. CASE FinishAction(k)
  <2>1. ~(Record(k) \/ Defer(k) \/ CommitRaises(k))
    BY GotoPc DEF Record, Defer, CommitRaises
  <2>2. ~(Lapsed(k) \/ FailUncalled(k) \/ FailCalled(k) \/ Pass(k) \/ CommitRejected(k))
    BY <1>2, BecomeRow DEF Lapsed, FailUncalled, FailCalled, Pass, CommitRejected, TaskRow
  <2>3. ~(CommitPost(k) \/ CommitThread(k))
    BY PostedPc DEF CommitPost, CommitThread
  <2> QED
    BY <1>5, <2>1, <2>2, <2>3 DEF FinishAction
<1>6. CASE EndAction(k)
  <2>1. ~(Abort(k) \/ Budget(k))
    BY BecomeRow DEF Abort, Budget, Done, At
  <2> QED
    BY <1>6, <2>1, GotoPc DEF EndAction, Requeue, Release, Yield, TurnsOver, CompleteLost,
       Complete, Advance, Settle
<1>7. CASE Fault(k)
  <2>1. PICK row \in Raises(k) : Become(k, row)
    BY <1>7 DEF Fault
  <2>2. row.pc \notin Claiming
    <3>1. CASE task[k].pc \in {"prepare", "call", "record", "finish"}
      <4>1. row = [task[k] EXCEPT !.pc = "release"] \/ row = [task[k] EXCEPT !.pc = "requeue"]
        BY <2>1, <3>1 DEF Raises
      <4> QED
        BY <1>1, <4>1 DEF TaskRow
    <3>2. CASE task[k].pc = "turn"
      <4>1. PICK a : row = [task[k] EXCEPT !.pc = "requeue", !.agent = a]
        BY <2>1, <3>2 DEF Raises
      <4> QED
        BY <1>1, <4>1 DEF TaskRow
    <3>3. CASE task[k].pc \notin {"prepare", "call", "record", "finish", "turn"}
      <4>1. PICK pc \in {"pausing", "fail", "off"} : row = At(pc)
        BY <2>1, <3>3 DEF Raises
      <4> QED
        BY <4>1 DEF At
    <3> QED
      BY <3>1, <3>2, <3>3
  <2> QED
    BY <2>1, <2>2, BecomeRow
<1> QED
  BY <1>3, <1>4, <1>5, <1>6, <1>7 DEF TaskStep

(* An ended run: nothing is leased, queued or being called, ... *)
LEMMA NothingLeft ==
  ASSUME TypeInv, TerminalRunIsQuiet, runState \in Terminal
  PROVE  /\ Leases = {} /\ Ready = {}
         /\ \A k \in Tasks : ~OwnsClaim(k)
         /\ \A s \in Stimuli, a \in Agents : turn[s][a].state \notin Unfinished
         /\ \A k \in Tasks : task[k].pc \in InTurn => ~OwnsTurn(k)
<1>1. \A s \in Stimuli : stim[s].state \notin Open
                         /\ \A a \in Agents : turn[s][a].state \notin Unfinished
  BY DEF TerminalRunIsQuiet
<1>2. Leases = {} /\ Ready = {}
  BY <1>1 DEF Leases, Ready, Open
<1>3. \A k \in Tasks : ~OwnsClaim(k)
  BY <1>1, TurnRowType DEF OwnsClaim, Open, Stim
<1>4. \A k \in Tasks : task[k].pc \in InTurn => ~OwnsTurn(k)
  BY <1>1, TurnRowType DEF OwnsTurn, Unfinished, Stim, Agent
<1> QED
  BY <1>1, <1>2, <1>3, <1>4

LEMMA RecoverNothing ==
  ASSUME WorkTypeOK, Recover({})
  PROVE  stim' = stim /\ turn' = turn
BY DEF WorkTypeOK, Recover, RecoverStimuli, RecoverTurns

(* ... so no step changes it, and no task starts to claim. *)
LEMMA FrozenTaskStep ==
  ASSUME TypeInv, TerminalRunIsQuiet, ClaimsLive, runState \in Terminal,
         NEW k \in Tasks, TaskStep(k) \/ Fault(k)
  PROVE  Frozen
<1> USE DEF TypeInv, TypeOK, Frozen, runVars, boardVars, workVars
<1>1. runState \notin {"created", "running", "paused"}
  BY DEF Terminal
<1>2. CASE StepAction(k)
  <2>1. task[k].pc \notin {"claim", "prepare"}
    BY DEF ClaimsLive, Claiming
  <2>2. Leave(k)
    BY <1>1, <1>2, <2>1 DEF StepAction, Begin, ClaimEnds, ClaimNothing, Claim,
       PrepareAgain, PrepareSelect, PrepareDefer, Prepared
  <2> QED
    BY <2>2 DEF Leave
<1>3. CASE TurnAction(k)
  <2>1. ~TurnStart(k)
    <3>1. \A a \in task[k].todo : a \in Agents
      BY TurnRowType DEF TaskRow
    <3> QED
      BY <3>1, NothingLeft, TurnRowType DEF TurnStart
  <2> QED
    BY <1>3, <2>1 DEF TurnAction, TurnYield, TurnSkip, CallRefused, CallMade,
       GatewayAnswers, GatewayMisses, BackoffOver
<1>4. CASE FinishAction(k)
  <2>1. Lapsed(k)
    BY <1>4, NothingLeft DEF FinishAction, Record, Defer, FailUncalled, FailCalled, Pass,
       CommitRejected, CommitRaises, CommitPost, CommitThread, Finishing, InTurn
  <2> QED
    BY <2>1 DEF Lapsed
<1>5. CASE EndAction(k)
  <2>1. CASE Requeue(k)
    <3>1. ~OwnsClaim(k)
      BY NothingLeft
    <3> QED
      BY <2>1, <3>1 DEF Requeue
  <2>2. CASE Release(k) \/ Yield(k) \/ TurnsOver(k) \/ CompleteLost(k) \/ Complete(k)
    <3>1. ~OwnsClaim(k)
      BY NothingLeft
    <3> QED
      BY <2>2, <3>1 DEF Release, Yield, TurnsOver, CompleteLost, Complete
  <2>3. CASE Advance(k) \/ Settle(k) \/ Abort(k)
    BY <1>1, <2>3 DEF Advance, Settle, Abort, StepEnds
  <2>4. CASE Budget(k)
    BY <2>4 DEF Budget
  <2> QED
    BY <1>5, <2>1, <2>2, <2>3, <2>4 DEF EndAction
<1>6. CASE Fault(k)
  BY <1>6 DEF Fault
<1> QED
  BY <1>2, <1>3, <1>4, <1>5, <1>6 DEF TaskStep

LEMMA FrozenElsewhere ==
  ASSUME TypeInv, TerminalRunIsQuiet, runState \in Terminal,
         WorkerAction \/ Request \/ Outside
  PROVE  Frozen
<1> USE DEF TypeInv, TypeOK, Frozen
<1>1. runState \notin {"created", "running", "paused"}
  BY DEF Terminal
<1>2. CASE WorkerAction
  <2>1. CASE Fail
    BY <2>1, NothingLeft, RecoverNothing DEF Fail, runVars, boardVars
  <2> QED
    BY <1>1, <1>2, <2>1 DEF WorkerAction, Rest, Pausing, runVars, boardVars, workVars
<1>3. CASE Request
  BY <1>1, <1>3 DEF Request, Start, EnsureRunner, Pause, Stop, RequestStep, HumanPost,
     HumanSetStatus, HumanWake, SetEnabled, Reconfigure, runVars, boardVars, workVars
<1>4. CASE Outside
  <2>1. CASE Restart
    BY <2>1, NothingLeft, RecoverNothing DEF Restart, runVars, boardVars
  <2>2. ~TimePasses
    BY DEF TimePasses, TerminalRunIsQuiet, Open
  <2> QED
    BY <1>1, <1>4, <2>1, <2>2 DEF Outside, BudgetExpires, boardVars, workVars
<1> QED
  BY <1>2, <1>3, <1>4

LEMMA FrozenStep ==
  ASSUME TypeInv, QuietInv, runState \in Terminal, [Next]_vars
  PROVE  Frozen
<1> USE DEF QuietInv
<1>1. CASE UNCHANGED vars
  BY <1>1 DEF vars, runVars, boardVars, workVars, Frozen
<1>2. CASE Next
  BY <1>2, FrozenTaskStep, FrozenElsewhere DEF Next
<1> QED
  BY <1>1, <1>2

(* A run that ends is quiet: cleanup_terminal_run_work is part of it. *)
LEMMA EndRunQuiet ==
  ASSUME NEW state, NEW st \in [Stimuli -> Row],
         NEW tn \in [Stimuli -> [Agents -> TurnRow]], EndRun(state, st, tn)
  PROVE  TerminalRunIsQuiet'
<1>1. \A s \in Stimuli : stim'[s].state \notin Open
  <2>1. \A s \in Stimuli : [st[s] EXCEPT !.state = "cancelled", !.token = NoToken].state
                             = "cancelled"
    BY DEF Row
  <2> QED
    BY <2>1 DEF EndRun, CancelOpen, Open, Leased
<1>2. \A s \in Stimuli, a \in Agents : turn'[s][a].state \notin Unfinished
  <2>1. \A s \in Stimuli, a \in Agents :
          [tn[s][a] EXCEPT !.state = "failed", !.token = NoToken].state = "failed"
    BY DEF TurnRow
  <2> QED
    BY <2>1 DEF EndRun, FailUnfinished, Unfinished
<1> QED
  BY <1>1, <1>2 DEF TerminalRunIsQuiet

LEMMA TaskStepEnds ==
  ASSUME TypeInv, NEW k \in Tasks, TaskStep(k) \/ Fault(k),
         runState \notin Terminal, runState' \in Terminal
  PROVE  /\ ClaimEnds(k) \/ FailCalled(k) \/ Budget(k)
         /\ TerminalRunIsQuiet'
<1> USE DEF TypeInv, TypeOK, runVars
<1>1. {"created", "running", "paused"} \cap Terminal = {}
  BY DEF Terminal
<1>2. ClaimEnds(k) \/ FailCalled(k) \/ Budget(k)
  <2>1. CASE StepAction(k)
    BY <1>1, <2>1 DEF StepAction, Leave, Begin, ClaimNothing, Claim, PrepareAgain,
       PrepareSelect, PrepareDefer, Prepared
  <2>2. CASE TurnAction(k)
    BY <2>2 DEF TurnAction, TurnYield, TurnSkip, TurnStart, CallRefused, CallMade,
       GatewayAnswers, GatewayMisses, BackoffOver
  <2>3. CASE FinishAction(k)
    BY <2>3 DEF FinishAction, Record, Lapsed, Defer, FailUncalled, Pass, CommitRejected,
       CommitRaises, CommitPost, CommitThread, Posted
  <2>4. CASE EndAction(k)
    BY <1>1, <2>4 DEF EndAction, Requeue, Release, Yield, TurnsOver, CompleteLost,
       Complete, Advance, Settle, Abort, StepEnds
  <2>5. CASE Fault(k)
    BY <2>5 DEF Fault
  <2> QED
    BY <2>1, <2>2, <2>3, <2>4, <2>5 DEF TaskStep
<1>3. TerminalRunIsQuiet'
  <2>1. CASE ClaimEnds(k)
    BY <2>1, EndRunQuiet DEF ClaimEnds, WorkTypeOK
  <2>2. CASE FailCalled(k)
    BY <2>2, EndRunQuiet, FinishedTurnType DEF FailCalled, WorkTypeOK
  <2>3. CASE Budget(k)
    BY <2>3, EndRunQuiet DEF Budget, WorkTypeOK
  <2> QED
    BY <1>2, <2>1, <2>2, <2>3
<1> QED
  BY <1>2, <1>3

LEMMA ElsewhereEnds ==
  ASSUME TypeInv, WorkerAction \/ Request \/ Outside,
         runState \notin Terminal, runState' \in Terminal
  PROVE  Stop /\ TerminalRunIsQuiet'
<1> USE DEF TypeInv, TypeOK, runVars
<1>1. {"created", "running", "paused"} \cap Terminal = {}
  BY DEF Terminal
<1>2. ~WorkerAction /\ ~Outside
  BY <1>1 DEF WorkerAction, Rest, Fail, Pausing, Outside, BudgetExpires, TimePasses, Restart
<1>3. Stop
  BY <1>1, <1>2 DEF Request, Start, EnsureRunner, Pause, RequestStep, HumanPost,
     HumanSetStatus, HumanWake, SetEnabled, Reconfigure
<1>4. TerminalRunIsQuiet'
  BY <1>3, EndRunQuiet DEF Stop, WorkTypeOK
<1> QED
  BY <1>3, <1>4

(* Nobody else brings a task to where it claims. *)
LEMMA ClaimingStep ==
  ASSUME TypeInv, OneAtATime, Next, NEW j \in Tasks, task'[j].pc \in Claiming
  PROVE  Begin(j) \/ Claim(j)
<1> USE DEF TypeInv, TypeOK, Claiming
<1>0. Claiming \cap Suspended = {}
  BY DEF Suspended
<1>1. ASSUME NEW k \in Tasks, TaskStep(k) \/ Fault(k)
      PROVE  Begin(j) \/ Claim(j)
  <2>1. CASE j = k
    BY <1>1, <2>1, ClaimingReached
  <2>2. CASE j # k
    <3>1. Moves(k)
      BY <1>1, TaskStepMoves
    <3>2. task'[j] = task[j] /\ task[j].pc \notin Suspended
      BY <1>0, <2>2, <3>1 DEF Moves
    <3>3. task[k].pc \notin Suspended
      BY <3>1, <3>2 DEF Moves, LoopFree
    <3> QED
      BY <2>2, <3>2, <3>3 DEF OneAtATime
  <2> QED
    BY <2>1, <2>2
<1>2. ~WorkerAction
  <2>0. "worker" \in Tasks
    BY DEF Tasks
  <2>1. SUFFICES ASSUME WorkerAction PROVE FALSE
    OBVIOUS
  <2>2. Moves("worker") /\ task["worker"].pc \notin Suspended
    BY <2>1, WorkerMoves DEF WorkerAction, Rest, Fail, Pausing, Suspended
  <2>3. task'["worker"].pc \notin Claiming
    BY <2>0, <2>1, GotoPc, BecomeRow DEF WorkerAction, Rest, Fail, Pausing, At
  <2>4. j # "worker" => task'[j].pc \in Suspended
    BY <2>0, <2>2 DEF Moves, OneAtATime
  <2> QED
    BY <1>0, <2>3, <2>4
<1>3. ~Request
  <2>0. SUFFICES ASSUME Request PROVE FALSE
    OBVIOUS
  <2>1. LoopFree
    BY <2>0 DEF Request, Start, EnsureRunner, Pause, Stop, RequestStep, HumanPost,
       HumanSetStatus, HumanWake, SetEnabled, Reconfigure
  <2>2. task'[j] = task[j] \/ task'[j].pc \in Suspended
    <3>1. CASE UNCHANGED task
      BY <3>1
    <3>2. CASE Start \/ EnsureRunner \/ HumanPost
      BY <3>2, NotifiedMoves DEF Start, EnsureRunner, HumanPost, TaskTypeOK
    <3>3. CASE Stop
      <4>1. "worker" \in Tasks /\ Become("worker", At("off"))
        BY <3>3 DEF Stop, Tasks
      <4>2. task'["worker"].pc \in Suspended
        BY <4>1, BecomeRow DEF At, Suspended
      <4> QED
        BY <4>1, <4>2, BecomeMoves
    <3>4. CASE RequestStep
      <4>1. "stepper" \in Tasks /\ Goto("stepper", "top")
        BY <3>4 DEF RequestStep, Tasks
      <4>2. task'["stepper"].pc \in Suspended
        BY <4>1, GotoPc DEF Suspended
      <4> QED
        BY <4>1, <4>2, BecomeMoves DEF Goto
    <3> QED
      BY <2>0, <3>1, <3>2, <3>3, <3>4 DEF Request, Pause, HumanSetStatus, HumanWake,
         SetEnabled, Reconfigure
  <2> QED
    BY <1>0, <2>1, <2>2 DEF LoopFree
<1>4. ~Outside
  <2>1. ~(BudgetExpires \/ TimePasses)
    BY <1>0 DEF BudgetExpires, TimePasses, LoopFree
  <2>2. ~Restart
    <3> DEFINE off == [k \in Tasks |-> At("off")]
    <3>1. Notified(off)[j].pc \in Suspended
      BY DEF Notified, WithRunner, At, Suspended, Tasks
    <3> QED
      BY <1>0, <3>1 DEF Restart
  <2> QED
    BY <2>1, <2>2 DEF Outside
<1> QED
  BY <1>1, <1>2, <1>3, <1>4 DEF Next

LEMMA ClaimsLiveInductive ==
  ASSUME TypeInv, QuietInv, [Next]_vars
  PROVE  ClaimsLive'
<1> USE DEF QuietInv
<1>1. CASE UNCHANGED vars
  BY <1>1 DEF vars, runVars, ClaimsLive
<1>2. CASE Next
  <2>1. SUFFICES ASSUME NEW j \in Tasks, task'[j].pc \in Claiming
                 PROVE  runState' \notin Terminal
    BY DEF ClaimsLive
  <2>2. Begin(j) \/ Claim(j)
    BY <1>2, <2>1, ClaimingStep
  <2>3. CASE Begin(j)
    BY <2>3 DEF Begin, runVars, Terminal
  <2>4. CASE Claim(j)
    BY <2>4 DEF Claim, ClaimsLive, Claiming, Terminal
  <2> QED
    BY <2>2, <2>3, <2>4
<1> QED
  BY <1>1, <1>2

LEMMA QuietKept ==
  ASSUME TypeInv, QuietInv, [Next]_vars
  PROVE  TerminalRunIsQuiet'
<1>1. CASE runState \in Terminal
  <2>1. stim' = stim /\ turn' = turn /\ runState' = runState
    BY <1>1, FrozenStep DEF Frozen
  <2> QED
    BY <2>1 DEF QuietInv, TerminalRunIsQuiet
<1>2. CASE runState \notin Terminal /\ runState' \in Terminal
  <2>1. Next
    BY <1>2 DEF vars, runVars
  <2> QED
    BY <1>2, <2>1, TaskStepEnds, ElsewhereEnds DEF Next
<1>3. CASE runState' \notin Terminal
  BY <1>3 DEF TerminalRunIsQuiet
<1> QED
  BY <1>1, <1>2, <1>3

LEMMA QuietInit == Init => QuietInv
BY DEF Init, QuietInv, TerminalRunIsQuiet, OneAtATime, ClaimsLive, Claiming, Terminal,
   At, Suspended

LEMMA QuietInductive == Spec => [](TypeInv /\ QuietInv)
<1>1. Init => TypeInv /\ QuietInv
  BY InitType, QuietInit
<1>2. TypeInv /\ QuietInv /\ [Next]_vars => (TypeInv /\ QuietInv)'
  <2>1. ASSUME TypeInv, QuietInv, [Next]_vars
        PROVE  TypeInv' /\ QuietInv'
    BY <2>1, NextType, QuietKept, OneAtATimeInductive, ClaimsLiveInductive DEF QuietInv
  <2> QED
    BY <2>1
<1> QED
  BY <1>1, <1>2, PTL DEF Spec

(* A run that has ended has no work left, for any number of agents and      *)
(* stimuli, any limits and any number of crashes and faults: whoever ends   *)
(* it (a person, the budget, a safety block, the claim itself) cancels and  *)
(* fails what is in flight, and no task brings any of it back.              *)
THEOREM EndedRunIsQuiet == Spec => []TerminalRunIsQuiet
BY QuietInductive, PTL DEF QuietInv

(* Once a run has ended its state, its counters, its posts and its queue    *)
(* never change again: a late answer, a retry, a restart after a crash or a *)
(* request changes none of them.                                            *)
THEOREM EndedRunIsFrozen == Spec => FrozenAfterEnd
<1>1. TypeInv /\ QuietInv /\ [Next]_vars =>
        [(runState \in Terminal) =>
           UNCHANGED <<runState, rounds, posts, humanPosts, stim, turn>>]_vars
  BY FrozenStep DEF Frozen
<1> QED
  BY <1>1, QuietInductive, PTL DEF Spec, FrozenAfterEnd

-----------------------------------------------------------------------------
(* Posts and attempts *)

(* The inductive form of DeliveredOnce.  A completed turn has a post, a     *)
(* post belongs to a completed turn, and no turn has two posts.  A commit    *)
(* writes for a turn that is CALLING, hence for one without a post.         *)
PostsMatch ==
  /\ \A p \in posts : turn[p[1]][p[2]].state = "completed"
  /\ \A s \in Stimuli, a \in Agents : turn[s][a].state = "completed" =>
       \E t \in Threads : <<s, a, t>> \in posts
  /\ \A p, q \in posts : p[1] = q[1] /\ p[2] = q[2] => p = q

\* The turns tn are completed where the turns of this state are.
SameAnswers(tn) ==
  \A s \in Stimuli, a \in Agents :
    tn[s][a].state = "completed" <=> turn[s][a].state = "completed"

NothingPosted == posts' = posts /\ SameAnswers(turn')

LEMMA MatchKept ==
  ASSUME TypeInv, PostsMatch, NothingPosted
  PROVE  PostsMatch'
<1>1. \A p \in posts : p[1] \in Stimuli /\ p[2] \in Agents
  BY DEF TypeInv, TypeOK, BoardTypeOK
<1> QED
  BY <1>1 DEF PostsMatch, NothingPosted, SameAnswers

-----------------------------------------------------------------------------
(* Every step but a commit leaves the completed turns as they are *)

LEMMA OneTurnMoves ==
  ASSUME TypeInv, NEW s \in Stimuli, NEW a \in Agents, NEW row \in TurnRow,
         turn[s][a].state # "completed", row.state # "completed"
  PROVE  SameAnswers([turn EXCEPT ![s] = [@ EXCEPT ![a] = row]])
BY DEF TypeInv, TypeOK, WorkTypeOK, SameAnswers

LEMMA FinishedAnswers ==
  ASSUME TypeInv, NEW k \in Tasks, Finishing(k), NEW state \in {"passed", "failed"}
  PROVE  SameAnswers(Finished(Stim(k), Agent(k), state))
<1> DEFINE s == Stim(k)
           a == Agent(k)
           row == [turn[s][a] EXCEPT !.state = state, !.token = NoToken]
<1>1. s \in Stimuli /\ a \in Agents /\ turn[s][a] \in TurnRow
  BY TurnRowType DEF Finishing, InTurn
<1>2. row \in TurnRow /\ row.state = state
  BY <1>1, TurnMoved, ConstantTypes DEF TurnStates, TurnRow
<1>3. turn[s][a].state = "calling"
  BY DEF Finishing, OwnsTurn, Stim, Agent
<1>4. Finished(s, a, state) = [turn EXCEPT ![s] = [@ EXCEPT ![a] = row]]
  BY <1>1 DEF Finished, TypeInv, TypeOK, WorkTypeOK
<1> HIDE DEF s, a, row
<1>5. SameAnswers([turn EXCEPT ![s] = [@ EXCEPT ![a] = row]])
  BY <1>1, <1>2, <1>3, OneTurnMoves
<1> QED
  BY <1>4, <1>5 DEF s, a

LEMMA EndRunAnswers ==
  ASSUME NEW state, NEW st, NEW tn \in [Stimuli -> [Agents -> TurnRow]],
         SameAnswers(tn), EndRun(state, st, tn)
  PROVE  SameAnswers(turn')
<1>1. \A s \in Stimuli, a \in Agents :
        [tn[s][a] EXCEPT !.state = "failed", !.token = NoToken].state = "failed"
  BY DEF TurnRow
<1>2. \A s \in Stimuli, a \in Agents :
        turn'[s][a].state = "completed" <=> tn[s][a].state = "completed"
  BY <1>1 DEF EndRun, FailUnfinished, Unfinished
<1> QED
  BY <1>2 DEF SameAnswers

LEMMA RecoverAnswers ==
  ASSUME TypeInv, NEW S, Recover(S)
  PROVE  SameAnswers(turn')
<1> SUFFICES ASSUME NEW s \in Stimuli, NEW a \in Agents
             PROVE  turn'[s][a].state = "completed" <=> turn[s][a].state = "completed"
  BY DEF SameAnswers
<1> DEFINE back == IF stim[s].attempts >= MaxAttempts THEN "failed" ELSE "selected"
<1>1. turn[s][a] \in TurnRow
  BY DEF TypeInv, TypeOK, WorkTypeOK
<1>2. back \in TurnStates /\ back # "completed"
  BY DEF TurnStates, Unfinished
<1>3. turn'[s][a] = IF s \in S /\ turn[s][a].state \in Unfinished
                    THEN [turn[s][a] EXCEPT !.state = back, !.token = NoToken]
                    ELSE turn[s][a]
  BY DEF Recover, RecoverTurns
<1>4. [turn[s][a] EXCEPT !.state = back, !.token = NoToken].state = back
  BY <1>1 DEF TurnRow
<1> HIDE DEF back
<1> QED
  BY <1>2, <1>3, <1>4 DEF Unfinished

LEMMA SameAnswersHere == UNCHANGED turn => SameAnswers(turn')
BY DEF SameAnswers

LEMMA StepActionAnswers ==
  ASSUME TypeInv, NEW k \in Tasks, StepAction(k)
  PROVE  NothingPosted
<1> USE DEF TypeInv, TypeOK, WorkTypeOK, NothingPosted, boardVars, workVars
<1>1. CASE Leave(k) \/ ClaimNothing(k) \/ Claim(k) \/ PrepareDefer(k)
  BY <1>1, SameAnswersHere DEF Leave, ClaimNothing, Claim, PrepareDefer, Prepared
<1>2. CASE Begin(k)
  BY <1>2, RecoverAnswers DEF Begin
<1>3. CASE ClaimEnds(k)
  BY <1>3, EndRunAnswers DEF ClaimEnds, SameAnswers
<1>4. CASE PrepareAgain(k)
  <2>1. Stim(k) \in Stimuli
    BY TurnRowType
  <2>2. \A a \in Agents : [turn[Stim(k)][a] EXCEPT !.token = task[k].token].state
                            = turn[Stim(k)][a].state
    BY TurnRowType DEF TurnRow
  <2> QED
    BY <1>4, <2>1, <2>2 DEF PrepareAgain, SameAnswers
<1>5. CASE PrepareSelect(k)
  <2>1. Stim(k) \in Stimuli /\ \A a \in Agents : turn[Stim(k)][a].state = "none"
    BY <1>5, TurnRowType DEF PrepareSelect, Prepared, Taken
  <2>2. [NoTurn EXCEPT !.state = "selected", !.token = task[k].token].state = "selected"
    BY DEF NoTurn
  <2> QED
    BY <1>5, <2>1, <2>2 DEF PrepareSelect, Prepared, SameAnswers
<1> QED
  BY <1>1, <1>2, <1>3, <1>4, <1>5 DEF StepAction

LEMMA TurnActionAnswers ==
  ASSUME TypeInv, NEW k \in Tasks, TurnAction(k)
  PROVE  NothingPosted
<1> USE DEF TypeInv, TypeOK, WorkTypeOK, NothingPosted, boardVars, workVars
<1>1. CASE TurnStart(k)
  <2>1. PICK a \in task[k].todo : turn[Stim(k)][a].state \in Unfinished
                                  /\ turn' = [turn EXCEPT ![Stim(k)][a].state = "calling"]
    BY <1>1 DEF TurnStart
  <2>2. a \in Agents /\ Stim(k) \in Stimuli /\ turn[Stim(k)][a] \in TurnRow
    BY TurnRowType DEF TaskRow
  <2>3. [turn[Stim(k)][a] EXCEPT !.state = "calling"] \in TurnRow
        /\ [turn[Stim(k)][a] EXCEPT !.state = "calling"].state = "calling"
    BY <2>2 DEF TurnRow, TurnStates, Unfinished
  <2>4. turn' = [turn EXCEPT ![Stim(k)] =
                   [@ EXCEPT ![a] = [turn[Stim(k)][a] EXCEPT !.state = "calling"]]]
    BY <2>1, <2>2
  <2>5. turn[Stim(k)][a].state # "completed"
    BY <2>1 DEF Unfinished
  <2>6. SameAnswers([turn EXCEPT ![Stim(k)] =
                       [@ EXCEPT ![a] = [turn[Stim(k)][a] EXCEPT !.state = "calling"]]])
    BY <2>2, <2>3, <2>5, OneTurnMoves
  <2> QED
    BY <1>1, <2>4, <2>6 DEF TurnStart
<1>2. CASE ~TurnStart(k)
  BY <1>2, SameAnswersHere DEF TurnAction, TurnYield, TurnSkip, CallRefused, CallMade,
     GatewayAnswers, GatewayMisses, BackoffOver
<1> QED
  BY <1>1, <1>2

\* The ends of a turn without a post, and those that keep it as it is.
LEMMA RecordAnswers ==
  ASSUME TypeInv, NEW k \in Tasks, Record(k)
  PROVE  SameAnswers(turn')
<1> DEFINE s == Stim(k)
           a == Agent(k)
           tries == Min2(turn[s][a].tries + task[k].misses, Retries)
<1>1. s \in Stimuli /\ a \in Agents /\ turn[s][a] \in TurnRow
  BY TurnRowType DEF Record, InTurn
<1>2. [turn[s][a] EXCEPT !.tries = tries].state = turn[s][a].state
  BY <1>1 DEF TurnRow
<1>3. turn' = [turn EXCEPT ![s][a] = [turn[s][a] EXCEPT !.tries = tries]]
  BY DEF Record
<1> HIDE DEF s, a, tries
<1> QED
  BY <1>1, <1>2, <1>3 DEF SameAnswers, TypeInv, TypeOK, WorkTypeOK

LEMMA DeferAnswers ==
  ASSUME TypeInv, NEW k \in Tasks, Defer(k)
  PROVE  SameAnswers(turn')
<1> DEFINE s == Stim(k)
           a == Agent(k)
           row == [turn[s][a] EXCEPT !.state = "selected", !.token = NoToken]
<1>1. s \in Stimuli /\ a \in Agents /\ turn[s][a] \in TurnRow
  BY TurnRowType DEF Defer, Finishing, InTurn
<1>2. row \in TurnRow /\ row.state = "selected"
  BY <1>1, TurnMoved, ConstantTypes DEF TurnStates, Unfinished, TurnRow
<1>3. turn[s][a].state = "calling"
  BY DEF Defer, Finishing, OwnsTurn, Stim, Agent
<1>4. turn' = [turn EXCEPT ![s] = [@ EXCEPT ![a] = row]]
  BY <1>1 DEF Defer, TypeInv, TypeOK, WorkTypeOK
<1> HIDE DEF s, a, row
<1> QED
  BY <1>1, <1>2, <1>3, <1>4, OneTurnMoves

LEMMA RequeueAnswers ==
  ASSUME TypeInv, NEW k \in Tasks, Requeue(k)
  PROVE  SameAnswers(turn')
<1> DEFINE s == Stim(k)
           a == Agent(k)
           back == IF stim[s].attempts < MaxAttempts THEN "selected" ELSE "failed"
           row == [turn[s][a] EXCEPT !.state = back, !.token = NoToken]
<1>1. s \in Stimuli /\ a \in Agents /\ turn[s][a] \in TurnRow
  BY TurnRowType DEF Requeue, InTurn
<1>2. back \in TurnStates /\ back # "completed"
  BY DEF TurnStates, Unfinished
<1>3. row \in TurnRow /\ row.state = back
  <2> HIDE DEF back
  <2> QED
    BY <1>1, <1>2, TurnMoved, ConstantTypes DEF TurnRow
<1>4. CASE UNCHANGED turn
  BY <1>4, SameAnswersHere
<1>5. CASE ~UNCHANGED turn
  <2>1. turn[s][a].state # "completed"
    BY <1>5 DEF Requeue, Unfinished, workVars
  <2>2. turn' = [turn EXCEPT ![s] = [@ EXCEPT ![a] = row]]
    BY ZenonT(40), <1>1, <1>5 DEF Requeue, workVars, TypeInv, TypeOK, WorkTypeOK
  <2> HIDE DEF s, a, row, back
  <2> QED
    BY <1>1, <1>2, <1>3, <2>1, <2>2, OneTurnMoves
<1> QED
  BY <1>4, <1>5

LEMMA FinishActionAnswers ==
  ASSUME TypeInv, NEW k \in Tasks, FinishAction(k), ~(CommitPost(k) \/ CommitThread(k))
  PROVE  NothingPosted
<1> USE DEF NothingPosted, boardVars, workVars
<1>1. CASE Lapsed(k) \/ CommitRaises(k)
  BY <1>1, SameAnswersHere DEF Lapsed, CommitRaises
<1>2. CASE Record(k)
  BY <1>2, RecordAnswers DEF Record
<1>3. CASE Defer(k)
  BY <1>3, DeferAnswers DEF Defer
<1>4. CASE FailUncalled(k) \/ Pass(k) \/ CommitRejected(k)
  BY <1>4, FinishedAnswers DEF FailUncalled, Pass, CommitRejected
<1>5. CASE FailCalled(k)
  <2>1. Finished(Stim(k), Agent(k), "failed") \in [Stimuli -> [Agents -> TurnRow]]
        /\ SameAnswers(Finished(Stim(k), Agent(k), "failed"))
    BY <1>5, FinishedTurnType, FinishedAnswers DEF FailCalled
  <2> QED
    BY <1>5, <2>1, EndRunAnswers DEF FailCalled
<1> QED
  BY <1>1, <1>2, <1>3, <1>4, <1>5 DEF FinishAction

LEMMA EndActionAnswers ==
  ASSUME TypeInv, NEW k \in Tasks, EndAction(k)
  PROVE  NothingPosted
<1> USE DEF NothingPosted, boardVars, workVars
<1>1. CASE Requeue(k)
  BY <1>1, RequeueAnswers DEF Requeue
<1>2. CASE Budget(k)
  BY <1>2, EndRunAnswers, SameAnswersHere
     DEF Budget, SameAnswers, TypeInv, TypeOK, WorkTypeOK
<1>3. CASE ~(Requeue(k) \/ Budget(k))
  BY <1>3, SameAnswersHere DEF EndAction, Release, Yield, TurnsOver, CompleteLost,
     Complete, Advance, Settle, Abort
<1> QED
  BY <1>1, <1>2, <1>3

LEMMA ElsewhereAnswers ==
  ASSUME TypeInv, WorkerAction \/ Request \/ Outside
  PROVE  NothingPosted
<1> USE DEF NothingPosted, boardVars, workVars
<1>1. CASE Fail \/ Restart
  BY <1>1, RecoverAnswers DEF Fail, Restart
<1>2. CASE Stop
  BY <1>2, EndRunAnswers DEF Stop, SameAnswers, TypeInv, TypeOK, WorkTypeOK
<1>3. CASE ~(Fail \/ Restart \/ Stop)
  BY <1>3, SameAnswersHere DEF WorkerAction, Rest, Pausing, Request, Start, EnsureRunner,
     Pause, RequestStep, HumanPost, HumanSetStatus, HumanWake, SetEnabled, Reconfigure,
     Outside, BudgetExpires, TimePasses
<1> QED
  BY <1>1, <1>2, <1>3

-----------------------------------------------------------------------------
(* A commit adds the post of the turn it completes *)

LEMMA CommitMatches ==
  ASSUME TypeInv, PostsMatch, NEW k \in Tasks, NEW t \in Threads,
         Finishing(k), Posted(k, t)
  PROVE  PostsMatch'
<1> DEFINE s == Stim(k)
           a == Agent(k)
<1>1. s \in Stimuli /\ a \in Agents /\ turn[s][a] \in TurnRow
  BY TurnRowType DEF Finishing, InTurn
<1>2. turn[s][a].state = "calling"
  BY DEF Finishing, OwnsTurn, Stim, Agent
<1>3. \A p \in posts : p[1] \in Stimuli /\ p[2] \in Agents
  BY DEF TypeInv, TypeOK, BoardTypeOK
<1>4. \A p \in posts : ~(p[1] = s /\ p[2] = a)
  BY <1>2 DEF PostsMatch
<1>5. \A r \in Stimuli, b \in Agents :
        turn'[r][b].state = IF r = s /\ b = a THEN "completed" ELSE turn[r][b].state
  <2>1. turn' = [turn EXCEPT ![s] = [@ EXCEPT ![a] =
                   [turn[s][a] EXCEPT !.state = "completed", !.token = NoToken]]]
    BY <1>1 DEF Posted, Finished, TypeInv, TypeOK, WorkTypeOK
  <2>2. [turn[s][a] EXCEPT !.state = "completed", !.token = NoToken].state = "completed"
    BY <1>1 DEF TurnRow
  <2> HIDE DEF s, a
  <2> QED
    BY <1>1, <2>1, <2>2 DEF TypeInv, TypeOK, WorkTypeOK
<1>6. posts' = posts \cup {<<s, a, t>>}
  BY DEF Posted
<1> HIDE DEF s, a
<1>7. \A p \in posts' : turn'[p[1]][p[2]].state = "completed"
  BY <1>1, <1>3, <1>5, <1>6 DEF PostsMatch
<1>8. ASSUME NEW r \in Stimuli, NEW b \in Agents, turn'[r][b].state = "completed"
      PROVE  \E u \in Threads : <<r, b, u>> \in posts'
  <2>1. CASE r = s /\ b = a
    BY <1>6, <2>1
  <2>2. CASE ~(r = s /\ b = a)
    BY <1>5, <1>6, <1>8, <2>2 DEF PostsMatch
  <2> QED
    BY <2>1, <2>2
<1>9. \A p, q \in posts' : p[1] = q[1] /\ p[2] = q[2] => p = q
  BY <1>4, <1>6 DEF PostsMatch
<1> QED
  BY <1>7, <1>8, <1>9 DEF PostsMatch

LEMMA PostsMatchInductive ==
  ASSUME TypeInv, PostsMatch, [Next]_vars
  PROVE  PostsMatch'
<1>1. CASE UNCHANGED vars
  BY <1>1 DEF vars, boardVars, workVars, PostsMatch
<1>2. ASSUME NEW k \in Tasks, TaskStep(k) \/ Fault(k)
      PROVE  PostsMatch'
  <2>1. CASE CommitPost(k)
    <3>1. PICK t \in Targets(k) : Posted(k, t)
      BY <2>1 DEF CommitPost
    <3>2. t \in Threads /\ Finishing(k)
      BY <2>1, TurnRowType DEF Targets, Row, CommitPost
    <3> QED
      BY <3>1, <3>2, CommitMatches
  <2>2. CASE CommitThread(k)
    BY <2>2, CommitMatches DEF CommitThread
  <2>3. CASE Fault(k)
    BY <2>3, MatchKept, SameAnswersHere DEF Fault, NothingPosted, boardVars, workVars
  <2> QED
    BY <1>2, <2>1, <2>2, <2>3, MatchKept, StepActionAnswers, TurnActionAnswers,
       FinishActionAnswers, EndActionAnswers DEF TaskStep
<1>3. CASE WorkerAction \/ Request \/ Outside
  BY <1>3, MatchKept, ElsewhereAnswers
<1> QED
  BY <1>1, <1>2, <1>3 DEF Next

LEMMA PostsMatchInit == Init => PostsMatch
BY DEF Init, PostsMatch, NoTurn

(* An opportunity leaves at most one post, and a post and the end of its    *)
(* turn come together, for any number of redeliveries by crashes, faults,   *)
(* pauses and steps: the promise behind the delivery key of _commit_action. *)
THEOREM OpportunitiesPostOnce == Spec => []DeliveredOnce
<1>1. Init => TypeInv /\ PostsMatch
  BY InitType, PostsMatchInit
<1>2. TypeInv /\ PostsMatch /\ [Next]_vars => (TypeInv /\ PostsMatch)'
  BY NextType, PostsMatchInductive
<1>3. TypeInv /\ PostsMatch => DeliveredOnce
  <2>1. SUFFICES ASSUME TypeInv, PostsMatch, NEW s \in Stimuli, NEW a \in Agents
                 PROVE  Cardinality({p \in posts : p[1] = s /\ p[2] = a}) =
                          IF turn[s][a].state = "completed" THEN 1 ELSE 0
    BY DEF DeliveredOnce
  <2>2. CASE turn[s][a].state = "completed"
    <3>1. PICK t \in Threads : <<s, a, t>> \in posts
      BY <2>1, <2>2 DEF PostsMatch
    <3>2. {p \in posts : p[1] = s /\ p[2] = a} = {<<s, a, t>>}
      BY <2>1, <3>1 DEF PostsMatch
    <3> QED
      BY <2>2, <3>2, FS_Singleton
  <2>3. CASE turn[s][a].state # "completed"
    <3>1. {p \in posts : p[1] = s /\ p[2] = a} = {}
      BY <2>1, <2>3 DEF PostsMatch
    <3> QED
      BY <2>3, <3>1, FS_EmptySet
  <2> QED
    BY <2>2, <2>3
<1> QED
  BY <1>1, <1>2, <1>3, PTL DEF Spec

-----------------------------------------------------------------------------
(* Attempts.  The inductive form of PendingHasAttempts adds that a task that *)
(* prepares a stimulus has just leased it: _prepare_stimulus marks the row   *)
(* PROCESSING, or gives its attempt back, without another look at the lease. *)

AttemptsOK(row) ==
  /\ row.state = "pending" => row.attempts < MaxAttempts
  /\ row.state \in Leased => row.attempts \in 1..MaxAttempts

QueueOK(st) == \A s \in Stimuli : AttemptsOK(st[s])

PrepareHolds == \A k \in Tasks : task[k].pc = "prepare" => stim[Stim(k)].state \in Leased

AttemptsInv == QueueOK(stim) /\ PrepareHolds

LEMMA AttemptsPositive == MaxAttempts \in Nat /\ 1 <= MaxAttempts
BY DeliveryAssumption DEF DeliveryAssumption

LEMMA OneRowOK ==
  ASSUME TypeInv, QueueOK(stim), NEW s \in Stimuli, NEW row, AttemptsOK(row)
  PROVE  QueueOK([stim EXCEPT ![s] = row])
BY DEF QueueOK, TypeInv, TypeOK, WorkTypeOK

LEMMA ReturnedOK ==
  ASSUME NEW row \in Row
  PROVE  AttemptsOK(Returned(row)) /\ AttemptsOK(Released(row))
<1>1. row.attempts \in Nat /\ MaxAttempts \in Nat
  BY AttemptsPositive DEF Row
<1>2. /\ Returned(row).attempts = row.attempts
      /\ Returned(row).state = IF row.attempts >= MaxAttempts THEN "failed" ELSE "pending"
  BY DEF Returned, Row
<1>3. /\ Released(row).attempts = row.attempts
      /\ Released(row).state = IF row.attempts >= MaxAttempts THEN "failed" ELSE "pending"
  BY DEF Released, Row
<1> QED
  BY <1>1, <1>2, <1>3 DEF AttemptsOK, Leased

LEMMA GivenBackOK ==
  ASSUME NEW row \in Row, AttemptsOK(row), row.state \in Leased, NEW later \in BOOLEAN
  PROVE  AttemptsOK([GivenBack(row) EXCEPT !.delayed = later])
<1>1. row.attempts \in 1..MaxAttempts /\ MaxAttempts \in Nat
  BY AttemptsPositive DEF AttemptsOK
<1>2. GivenBack(row) \in Row
  BY BackInQueueType
<1>3. GivenBack(row).attempts = row.attempts - 1 /\ GivenBack(row).state = "pending"
  BY <1>1 DEF GivenBack, Row
<1>4. /\ [GivenBack(row) EXCEPT !.delayed = later].attempts = row.attempts - 1
      /\ [GivenBack(row) EXCEPT !.delayed = later].state = "pending"
  BY <1>2, <1>3 DEF Row
<1> QED
  BY <1>1, <1>4 DEF AttemptsOK, Leased

LEMMA SettledOK ==
  ASSUME NEW row \in Row, NEW state \in {"cancelled", "completed"}
  PROVE  AttemptsOK([row EXCEPT !.state = state, !.token = NoToken])
<1>1. [row EXCEPT !.state = state, !.token = NoToken].state = state
  BY DEF Row
<1> QED
  BY <1>1 DEF AttemptsOK, Leased

LEMMA NewStimulusOK ==
  ASSUME NEW t, NEW kind, NEW target, NEW depth, NEW attempted, NEW root
  PROVE  AttemptsOK(NewStimulus(t, kind, target, depth, attempted, root))
BY AttemptsPositive DEF AttemptsOK, NewStimulus, Leased

LEMMA CancelOpenOK ==
  ASSUME NEW st \in [Stimuli -> Row], QueueOK(st)
  PROVE  QueueOK(CancelOpen(st)) /\ \A t, x : QueueOK(CancelIn(st, t, x))
BY SettledOK DEF QueueOK, CancelOpen, CancelIn

LEMMA EndRunOK ==
  ASSUME TypeInv, QueueOK(stim), NEW state, NEW tn, EndRun(state, stim, tn)
  PROVE  QueueOK(stim')
BY CancelOpenOK DEF EndRun, TypeInv, TypeOK, WorkTypeOK

LEMMA RecoverOK ==
  ASSUME TypeInv, QueueOK(stim), NEW S, Recover(S)
  PROVE  QueueOK(stim')
BY ReturnedOK DEF Recover, RecoverStimuli, QueueOK, TypeInv, TypeOK, WorkTypeOK

LEMMA QueueStays == QueueOK(stim) /\ UNCHANGED stim => QueueOK(stim')
BY DEF QueueOK

LEMMA StepActionOK ==
  ASSUME TypeInv, AttemptsInv, NEW k \in Tasks, StepAction(k)
  PROVE  QueueOK(stim')
<1> USE DEF AttemptsInv
<1>0. Stim(k) \in Stimuli /\ stim[Stim(k)] \in Row /\ AttemptsOK(stim[Stim(k)])
  BY TurnRowType DEF QueueOK
<1>1. CASE Leave(k) \/ ClaimNothing(k)
  BY <1>1, QueueStays DEF Leave, ClaimNothing, workVars
<1>2. CASE Begin(k)
  BY <1>2, RecoverOK DEF Begin
<1>3. CASE ClaimEnds(k)
  BY <1>3, EndRunOK DEF ClaimEnds
<1>4. CASE Claim(k)
  <2>1. PICK s \in FirstReady, n \in FreshToken :
          stim' = [stim EXCEPT ![s].state = "claimed", ![s].token = n,
                               ![s].attempts = @ + 1]
    BY <1>4 DEF Claim
  <2> DEFINE row == [stim[s] EXCEPT !.state = "claimed", !.token = n,
                                    !.attempts = stim[s].attempts + 1]
  <2>2. s \in Stimuli /\ stim[s] \in Row /\ stim[s].state = "pending"
    BY DEF FirstReady, Ready, TypeInv, TypeOK, WorkTypeOK
  <2>3. stim[s].attempts \in Nat /\ stim[s].attempts < MaxAttempts
    BY <2>2 DEF Row, QueueOK, AttemptsOK
  <2>4. row.state = "claimed" /\ row.attempts = stim[s].attempts + 1
    BY <2>2 DEF Row
  <2>5. AttemptsOK(row)
    <3> HIDE DEF row
    <3> QED
      BY <2>3, <2>4, AttemptsPositive DEF AttemptsOK
  <2>6. stim' = [stim EXCEPT ![s] = row]
    BY <2>1, <2>2 DEF TypeInv, TypeOK, WorkTypeOK
  <2> QED
    BY <2>2, <2>5, <2>6, OneRowOK
<1>5. CASE PrepareAgain(k) \/ PrepareSelect(k)
  <2> DEFINE row == [stim[Stim(k)] EXCEPT !.state = "processing"]
  <2>1. stim' = [stim EXCEPT ![Stim(k)] = row]
    BY <1>5 DEF PrepareAgain, PrepareSelect
  <2>2. row.state = "processing" /\ row.attempts = stim[Stim(k)].attempts
    BY <1>0 DEF Row
  <2>3. stim[Stim(k)].state \in Leased
    BY <1>5 DEF PrepareAgain, PrepareSelect, Prepared, PrepareHolds
  <2>4. AttemptsOK(row)
    <3> HIDE DEF row
    <3> QED
      BY <1>0, <2>2, <2>3 DEF AttemptsOK
  <2> QED
    BY <1>0, <2>1, <2>4, OneRowOK
<1>6. CASE PrepareDefer(k)
  <2>1. stim[Stim(k)].state \in Leased
    BY <1>6 DEF PrepareDefer, Prepared, PrepareHolds
  <2>2. AttemptsOK([GivenBack(stim[Stim(k)]) EXCEPT !.delayed = TRUE])
    BY <1>0, <2>1, GivenBackOK
  <2> QED
    BY <1>0, <1>6, <2>2, OneRowOK DEF PrepareDefer
<1> QED
  BY <1>1, <1>2, <1>3, <1>4, <1>5, <1>6 DEF StepAction

LEMMA FollowUpOK ==
  ASSUME TypeInv, QueueOK(stim), NEW k \in Tasks, NEW t, FollowUp(k, t)
  PROVE  QueueOK(stim')
<1>1. CASE Closes(k)
  BY <1>1, CancelOpenOK DEF FollowUp, TypeInv, TypeOK, WorkTypeOK
<1>2. CASE ~Closes(k)
  BY <1>2, OneRowOK, NewStimulusOK, QueueStays DEF FollowUp, FreeRow
<1> QED
  BY <1>1, <1>2

LEMMA TurnStepOK ==
  ASSUME TypeInv, QueueOK(stim), NEW k \in Tasks, TurnAction(k) \/ FinishAction(k)
  PROVE  QueueOK(stim')
<1>1. CASE TurnAction(k)
  BY <1>1, QueueStays DEF TurnAction, TurnYield, TurnSkip, TurnStart, CallRefused,
     CallMade, GatewayAnswers, GatewayMisses, BackoffOver, workVars
<1>2. CASE CommitPost(k) \/ CommitThread(k)
  BY <1>2, FollowUpOK DEF CommitPost, CommitThread, Posted
<1>3. CASE FailCalled(k)
  BY <1>3, EndRunOK, QueueStays DEF FailCalled
<1>4. CASE FinishAction(k) /\ ~(CommitPost(k) \/ CommitThread(k) \/ FailCalled(k))
  BY <1>4, QueueStays DEF FinishAction, Record, Lapsed, Defer, FailUncalled, Pass,
     CommitRejected, CommitRaises, workVars
<1> QED
  BY <1>1, <1>2, <1>3, <1>4

LEMMA CompleteOK ==
  ASSUME TypeInv, QueueOK(stim), NEW k \in Tasks, Complete(k)
  PROVE  QueueOK(stim')
<1> DEFINE s    == Stim(k)
           row  == [stim[s] EXCEPT !.state = "completed", !.token = NoToken]
           done == [stim EXCEPT ![s].state = "completed", ![s].token = NoToken]
<1>1. s \in Stimuli /\ stim[s] \in Row
  BY TurnRowType
<1>2. done = [stim EXCEPT ![s] = row]
  BY <1>1 DEF TypeInv, TypeOK, WorkTypeOK
<1>3. QueueOK(done)
  <2>1. AttemptsOK(row)
    BY <1>1, SettledOK
  <2> HIDE DEF row
  <2> QED
    BY <1>1, <1>2, <2>1, OneRowOK
<1>4. done \in [Stimuli -> Row]
  <2>1. row \in Row
    BY <1>1, RowMoved, ConstantTypes DEF StimStates
  <2> HIDE DEF row, done
  <2> QED
    BY <1>1, <1>2, <2>1 DEF TypeInv, TypeOK, WorkTypeOK
<1>5. stim' = done \/ \E r \in FreeRow : \E attempted, t, kind, target, depth, root :
        stim' = [done EXCEPT ![r] = NewStimulus(t, kind, target, depth, attempted, root)]
  <2>1. stim' \in Completed(k)
    BY DEF Complete
  <2>2. CASE ~HandsOff(k)
    BY <2>1, <2>2 DEF Completed
  <2>3. CASE HandsOff(k)
    <3>1. PICK r \in FreeRow :
            stim' = [done EXCEPT ![r] = NewStimulus(stim[s].thread, stim[s].kind, NoAgent,
                                   stim[s].depth, AttemptedBy(s), stim[s].root)]
      BY <2>1, <2>3 DEF Completed
    <3> HIDE DEF done
    <3> QED
      BY <3>1
  <2> QED
    BY <2>2, <2>3
<1> HIDE DEF done
<1>6. ASSUME NEW row2, AttemptsOK(row2), NEW r \in FreeRow
      PROVE  QueueOK([done EXCEPT ![r] = row2])
  BY <1>3, <1>4, <1>6 DEF QueueOK
<1> QED
  BY <1>3, <1>5, <1>6, NewStimulusOK

LEMMA EndActionOK ==
  ASSUME TypeInv, QueueOK(stim), NEW k \in Tasks, EndAction(k)
  PROVE  QueueOK(stim')
<1>0. Stim(k) \in Stimuli /\ stim[Stim(k)] \in Row /\ AttemptsOK(stim[Stim(k)])
  BY TurnRowType DEF QueueOK
<1>1. CASE Requeue(k) \/ Release(k)
  BY <1>0, <1>1, ReturnedOK, OneRowOK, QueueStays DEF Requeue, Release, workVars
<1>2. CASE Yield(k)
  <2>1. CASE OwnsClaim(k)
    <3>1. AttemptsOK([GivenBack(stim[Stim(k)]) EXCEPT !.delayed = FALSE])
      BY <1>0, <2>1, GivenBackOK DEF OwnsClaim, Stim
    <3> QED
      BY <1>0, <1>2, <2>1, <3>1, OneRowOK DEF Yield
  <2>2. CASE ~OwnsClaim(k)
    BY <1>2, <2>2, QueueStays DEF Yield
  <2> QED
    BY <2>1, <2>2
<1>3. CASE Complete(k)
  BY <1>3, CompleteOK
<1>4. CASE Budget(k)
  BY <1>4, EndRunOK, QueueStays DEF Budget, workVars
<1>5. CASE TurnsOver(k) \/ CompleteLost(k) \/ Advance(k) \/ Settle(k) \/ Abort(k)
  BY <1>5, QueueStays DEF TurnsOver, CompleteLost, Advance, Settle, Abort, workVars
<1> QED
  BY <1>1, <1>2, <1>3, <1>4, <1>5 DEF EndAction

LEMMA ElsewhereOK ==
  ASSUME TypeInv, QueueOK(stim), WorkerAction \/ Request \/ Outside
  PROVE  QueueOK(stim')
<1> USE DEF workVars
<1>1. CASE WorkerAction
  <2>1. CASE Rest
    <3>1. stim' = stim \/ \E t \in Threads, r \in Stimuli :
            stim' = [stim EXCEPT ![r] = NewStimulus(t, "idle_revisit", NoAgent, 0, {}, r)]
      BY <2>1 DEF Rest, Quiet, FreeRow
    <3> QED
      BY <3>1, OneRowOK, NewStimulusOK, QueueStays
  <2>2. CASE Fail
    BY <2>2, RecoverOK DEF Fail
  <2> QED
    BY <1>1, <2>1, <2>2, QueueStays DEF WorkerAction, Pausing
<1>2. CASE HumanPost \/ HumanWake
  <2>1. stim' = stim \/ \E t \in Threads, r \in Stimuli : \E kind, target :
          stim' = [stim EXCEPT ![r] = NewStimulus(t, kind, target, 0, {}, r)]
    <3>1. CASE HumanPost
      <4>1. PICK t \in Threads, r \in FreeRow, p \in Plans("human_post", Enabled) :
              stim' = [stim EXCEPT ![r] = NewStimulus(t, p[1], p[2], 0, {}, r)]
        BY <3>1 DEF HumanPost
      <4>2. r \in Stimuli
        BY DEF FreeRow
      <4> QED
        BY <4>1, <4>2
    <3>2. CASE HumanWake
      BY <3>2 DEF HumanWake, FreeRow
    <3> QED
      BY <1>2, <3>1, <3>2
  <2> QED
    BY <2>1, OneRowOK, NewStimulusOK, QueueStays
<1>3. CASE Stop
  BY <1>3, EndRunOK DEF Stop
<1>4. CASE Request /\ ~(HumanPost \/ HumanWake \/ Stop)
  BY <1>4, QueueStays DEF Request, Start, EnsureRunner, Pause, RequestStep,
     HumanSetStatus, SetEnabled, Reconfigure
<1>5. CASE TimePasses
  <2>1. PICK s \in Stimuli : stim' = [stim EXCEPT ![s].delayed = FALSE]
    BY <1>5 DEF TimePasses
  <2>2. stim[s] \in Row
    BY DEF TypeInv, TypeOK, WorkTypeOK
  <2> DEFINE row == [stim[s] EXCEPT !.delayed = FALSE]
  <2>3. row.state = stim[s].state /\ row.attempts = stim[s].attempts
    BY <2>2 DEF Row
  <2>4. stim' = [stim EXCEPT ![s] = row]
    BY <2>1
  <2> HIDE DEF row
  <2>5. AttemptsOK(row)
    BY <2>3 DEF QueueOK, AttemptsOK
  <2> QED
    BY <2>4, <2>5, OneRowOK
<1>6. CASE BudgetExpires \/ Restart
  BY <1>6, RecoverOK, QueueStays DEF BudgetExpires, Restart
<1> QED
  BY <1>1, <1>2, <1>3, <1>4, <1>5, <1>6 DEF Outside

LEMMA PrepareHoldsInductive ==
  ASSUME TypeInv, OneAtATime, PrepareHolds, [Next]_vars
  PROVE  PrepareHolds'
<1>1. CASE UNCHANGED vars
  BY <1>1 DEF vars, workVars, PrepareHolds, Stim
<1>2. CASE Next
  <2>1. SUFFICES ASSUME NEW j \in Tasks, task'[j].pc = "prepare"
                 PROVE  stim'[task'[j].stim].state \in Leased
    BY DEF PrepareHolds, Stim
  <2>2. Begin(j) \/ Claim(j)
    BY <1>2, <2>1, ClaimingStep DEF Claiming
  <2>3. ~Begin(j)
    BY <2>1, GotoPc DEF Begin, TypeInv, TypeOK
  <2>4. PICK s \in FirstReady, n \in FreshToken :
          /\ stim' = [stim EXCEPT ![s].state = "claimed", ![s].token = n,
                                  ![s].attempts = @ + 1]
          /\ Become(j, [At("prepare") EXCEPT !.stim = s, !.token = n,
                                             !.once = StepsOnce(j)])
    BY <2>2, <2>3 DEF Claim
  <2>5. s \in Stimuli /\ stim[s] \in Row
    BY DEF FirstReady, Ready, TypeInv, TypeOK, WorkTypeOK
  <2>6. task'[j].stim = s
    <3>1. task'[j] = [At("prepare") EXCEPT !.stim = s, !.token = n, !.once = StepsOnce(j)]
      BY <2>4, BecomeRow DEF TypeInv, TypeOK
    <3> QED
      BY <3>1 DEF At
  <2>7. stim'[s].state = "claimed"
    BY <2>4, <2>5 DEF Row, TypeInv, TypeOK, WorkTypeOK
  <2> QED
    BY <2>6, <2>7 DEF Leased
<1> QED
  BY <1>1, <1>2

(* A stimulus in the queue always has an attempt left, and a leased one has *)
(* not gone over its attempts, whatever sequence of claims, releases,       *)
(* yields, deferrals and recoveries it has been through.                    *)
THEOREM QueuedHasAttempts == Spec => []PendingHasAttempts
<1>1. Init => AttemptsInv
  BY AttemptsPositive DEF Init, AttemptsInv, QueueOK, AttemptsOK, PrepareHolds,
     NewStimulus, At, Leased, Stimuli
<1>2. TypeInv /\ QuietInv /\ AttemptsInv /\ [Next]_vars => AttemptsInv'
  <2>1. SUFFICES ASSUME TypeInv, QuietInv, AttemptsInv, [Next]_vars
                 PROVE  AttemptsInv'
    OBVIOUS
  <2>2. PrepareHolds'
    BY <2>1, PrepareHoldsInductive DEF QuietInv, AttemptsInv
  <2>3. QueueOK(stim')
    <3>1. CASE UNCHANGED vars \/ \E k \in Tasks : Fault(k)
      BY <2>1, <3>1, QueueStays DEF vars, workVars, Fault, AttemptsInv
    <3>2. CASE WorkerAction \/ Request \/ Outside
      BY <2>1, <3>2, ElsewhereOK DEF AttemptsInv
    <3>3. CASE \E k \in Tasks : TaskStep(k)
      BY <2>1, <3>3, StepActionOK, TurnStepOK, EndActionOK DEF TaskStep, AttemptsInv
    <3> QED
      BY <2>1, <3>1, <3>2, <3>3 DEF Next
  <2>4. QueueOK(stim)'
    BY <2>3 DEF QueueOK
  <2> QED
    BY <2>2, <2>4 DEF AttemptsInv
<1>3. AttemptsInv => PendingHasAttempts
  BY DEF AttemptsInv, QueueOK, AttemptsOK, PendingHasAttempts
<1> QED
  BY <1>1, <1>2, <1>3, QuietInductive, PTL DEF Spec
=============================================================================
