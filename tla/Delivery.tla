------------------------------ MODULE Delivery ------------------------------
(***************************************************************************)
(* One run of a board: its queue of stimuli, the turns given to agents for *)
(* each stimulus, and the two asyncio tasks that deliver them, the         *)
(* continuous worker and an explicit "step" request (engine.py), over the  *)
(* transactions of repository.py.                                          *)
(*                                                                         *)
(* Grain: every "with session.begin()" block is one action.  The program   *)
(* is one event loop: between two transactions of a task another task or a *)
(* request runs only where the task really suspends (a model call, a retry *)
(* sleep, the run lock, the worker's wait), but the process may die        *)
(* anywhere.  Suspended names the suspension points; the actions of people *)
(* and of other tasks require LoopFree.                                    *)
(*                                                                         *)
(* An operator marked "Mutant of X" is X as a plausible slip would have it;*)
(* nothing in the specification uses it.                                   *)
(***************************************************************************)
EXTENDS Naturals, FiniteSets

CONSTANTS
  Agents,          \* the run's participants (run.config["agent_ids"])
  NoAgent,         \* no target, no author
  Threads,         \* identities of the run's threads
  FirstThread,     \* the thread the run was attached to
  Closers,         \* agents permitted to close threads (_can_close)
  NoToken,         \* a NULL claim_token
  Tokens,          \* claim tokens (uuid4); numbers, so that the next is definite
  MaxStimuli,      \* bound: stimuli that can ever be created
  MaxAttempts,     \* stimulus.max_attempts
  MaxDepth,        \* run.max_cascade_depth
  MaxRounds,       \* run.max_rounds
  MaxPosts,        \* run.max_posts
  AgentQuota,      \* run.per_agent_quota
  ThreadQuota,     \* run.per_thread_quota
  SelectMax,       \* max_agents_per_stimulus, 1 or 2
  Retries,         \* model_retries
  Continuous,      \* run.continuous
  Autonomous,      \* interaction_mode = "autonomous"
  Dormancy,        \* the run policy's "dormancy"
  VirtualTime,     \* use_virtual_time
  Cooldowns,       \* whether a cooldown may keep an agent from being selected
  InputKinds,      \* bound: the kinds of stimuli people and posts give rise to
  Environment,     \* bound: the requests and outside events that happen
  MaxHumanPosts,   \* bound: posts people write while the run exists
  MaxFaults,       \* bound: transactions that raise
  Faulty,          \* the tasks in which they may raise
  MaxCrashes       \* bound: process crashes or shutdowns

Stimuli == 1..MaxStimuli
Tasks   == {"worker", "stepper"}

ASSUME DeliveryAssumption ==
  /\ NoAgent \notin Agents
  /\ FirstThread \in Threads
  /\ Closers \subseteq Agents
  /\ Tokens \subseteq Nat /\ NoToken \notin Tokens
  /\ Faulty \subseteq Tasks
  /\ InputKinds \subseteq {"mention", "question", "new_evidence", "revisit",
                           "human_post", "agent_post"}
  /\ Environment \subseteq {"start", "pause", "stop", "step", "post", "status",
                            "wake", "agents", "expiry"}
  /\ {MaxStimuli, MaxAttempts, MaxRounds, MaxPosts, SelectMax} \subseteq Nat \ {0}
  /\ {MaxDepth, AgentQuota, ThreadQuota, Retries,
      MaxHumanPosts, MaxFaults, MaxCrashes} \subseteq Nat
  /\ {Continuous, Autonomous, Dormancy, VirtualTime, Cooldowns} \subseteq BOOLEAN

VARIABLES
  runState,     \* run.state
  rounds,       \* run.rounds_used
  expired,      \* the token or duration budget is used up
  unavailable,  \* run.config["unavailable_agent_ids"]
  ticked,       \* stimuli with a "run.virtual_time_advanced" event
  freeRun,      \* history: who let the worker go on, see Releases
  thread,       \* thread.status, "absent" before it is created
  posts,        \* agent posts by delivery key: <<stimulus, agent, thread>>
  humanPosts,   \* posts written by people since the run was attached
  last,         \* author_agent_id of a thread's latest post
  keys,         \* dedupe keys used at a thread's current sequence
  enabled,      \* agent.enabled and its permission to speak
  stim,         \* the stimuli table
  turn,         \* the turns table, by idempotency key turn:{stimulus}:{agent}
  task,         \* the control state and locals of the two tasks
  faults, crashes

runVars   == <<runState, rounds, expired, unavailable, ticked, freeRun>>
boardVars == <<thread, posts, humanPosts, last, keys, enabled>>
workVars  == <<stim, turn>>
envVars   == <<faults, crashes>>
vars == <<runVars, boardVars, workVars, task, envVars>>

-----------------------------------------------------------------------------
(* States and rows *)

RunStates    == {"created", "running", "paused",
                 "stopped", "emergency_stopped", "completed", "failed"}
Terminal     == {"stopped", "emergency_stopped", "completed", "failed"}
\* Who let the worker go on: nobody since a person paused or stepped the run, a
\* person, or a step that had made the run RUNNING and was cut short.
Releases     == {"no", "person", "cut"}
ThreadStates == {"absent", "active", "dormant", "closed"}
Leased       == {"claimed", "processing"}
Open         == {"pending"} \cup Leased
StimStates   == {"none"} \cup Open \cup {"completed", "failed", "cancelled"}
Unfinished   == {"selected", "calling"}
TurnStates   == {"none"} \cup Unfinished \cup {"completed", "passed", "failed"}

\* StimulusKind, in the order of the priorities the code gives them: mention
\* 9-10, unanswered question, new evidence and a person's revisit 6 (an
\* IDLE_REVISIT at another priority), human post 5, agent post 2, idle revisit -1.
Kinds     == {"mention", "question", "new_evidence", "revisit", "human_post",
              "agent_post", "idle_revisit"}
WakeKinds == Kinds \ {"agent_post"}
Priority  == [mention |-> 4, question |-> 3, new_evidence |-> 3, revisit |-> 3,
              human_post |-> 2, agent_post |-> 1, idle_revisit |-> 0]

OptToken == Tokens \cup {NoToken}
OptAgent == Agents \cup {NoAgent}

Row == [state : StimStates, token : OptToken, attempts : Nat,
        delayed : BOOLEAN, thread : Threads, kind : Kinds, target : OptAgent,
        depth : 0..MaxDepth, attempted : SUBSET Agents, root : Stimuli]

TurnRow == [state : TurnStates, token : OptToken, tries : 0..Retries]

NoTurn == [state |-> "none", token |-> NoToken, tries |-> 0]

\* A stimulus as add_stimulus inserts it.  delayed: not_before is still ahead.
\* root: the first stimulus of its chain of fallbacks (fallback_root_id).
NewStimulus(t, kind, target, depth, attempted, root) ==
  [state |-> "pending", token |-> NoToken, attempts |-> 0, delayed |-> FALSE,
   thread |-> t, kind |-> kind, target |-> target, depth |-> depth,
   attempted |-> attempted, root |-> root]

\* Where a task gives the event loop away.
Suspended == {"off", "top", "await", "backoff"}
Locations == {"off", "top", "claim", "prepare", "turn", "call", "await",
              "backoff", "record", "finish", "requeue", "release", "yield",
              "complete", "advance", "settle", "abort", "budget",
              "rest", "fail", "pausing"}
Writes    == {"reply", "new_thread", "propose_close"}
Results   == Writes \cup {"pass", "none", "defer"}
Marks     == {"no", "gateway", "safety"}

TaskRow == [pc : Locations, stim : Stimuli, token : OptToken,
            todo : SUBSET Agents, made : BOOLEAN, once : BOOLEAN,
            agent : OptAgent, call : OptToken, attempt : 0..Retries,
            misses : Nat, called : BOOLEAN, mark : Marks, result : Results]

At(pc) == [pc |-> pc, stim |-> 1, token |-> NoToken, todo |-> {},
           made |-> FALSE, once |-> FALSE, agent |-> NoAgent, call |-> NoToken,
           attempt |-> 0, misses |-> 0, called |-> FALSE, mark |-> "no",
           result |-> "none"]

\* What a task keeps when one of its turns is over.
NextTurn(k) == [At("turn") EXCEPT !.stim = task[k].stim, !.token = task[k].token,
                                  !.todo = task[k].todo, !.made = task[k].made,
                                  !.once = task[k].once]

\* The end of _step_locked: the worker goes round its loop, a request answers.
Done(k) == At(IF k = "worker" THEN "top" ELSE "off")

Become(k, row) == task' = [task EXCEPT ![k] = row]
Goto(k, pc)    == Become(k, [task[k] EXCEPT !.pc = pc])

-----------------------------------------------------------------------------
(* What the code reads *)

LoopFree == \A k \in Tasks : task[k].pc \in Suspended

\* Mutant of LockFree: the run lock is missing.
NoRunLock == TRUE

\* Mutant of LockFree: the worker holds the run lock around its loop.
WorkerKeepsTheLock ==
  task["worker"].pc = "off" /\ task["stepper"].pc \in {"off", "top"}

\* The run lock is held from the start of _step_locked to its end.
LockFree == \A k \in Tasks : task[k].pc \in {"off", "top"}

Min2(m, n) == IF m <= n THEN m ELSE n

PostsUsed == humanPosts + Cardinality(posts)
PostsOf(a) == {p \in posts : p[2] = a}
PostsIn(t) == {p \in posts : p[3] = t}

BudgetExhausted ==
  \/ rounds >= MaxRounds
  \/ PostsUsed >= MaxPosts
  \/ expired

RunCanCall == runState = "running" /\ ~BudgetExhausted

\* The task still owns the lease it claimed: _claimed_stimulus and the guards
\* of _complete_claim, _yield_claim and _requeue_turn_after_exception.
OwnsClaim(k) == /\ stim[task[k].stim].state \in Leased
                /\ stim[task[k].stim].token = task[k].token

\* The fence of every finalizer: the turn is still CALLING under the token the
\* call captured.  A NULL token captured from a reopened turn matches NULL.
OwnsTurn(k) == LET row == turn[task[k].stim][task[k].agent]
               IN  row.state = "calling" /\ row.token = task[k].call

InUse == {stim[s].token : s \in Stimuli}
    \cup {turn[s][a].token : s \in Stimuli, a \in Agents}
    \cup {task[k].token : k \in Tasks} \cup {task[k].call : k \in Tasks}

\* uuid4: the next token is one that nothing refers to.
FreshToken == {n \in Tokens \ InUse : \A m \in Tokens \ InUse : n <= m}

\* The next row of the stimuli table: created_at and id follow the index.
FreeRow == {s \in Stimuli : /\ stim[s].state = "none"
                            /\ \A r \in 1..(s - 1) : stim[r].state # "none"}

\* order_by(priority desc, created_at, id) among the rows that are ready.
Ready == {s \in Stimuli : stim[s].state = "pending" /\ ~stim[s].delayed}
FirstReady ==
  {s \in Ready : \A r \in Ready :
     \/ Priority[stim[s].kind] > Priority[stim[r].kind]
     \/ Priority[stim[s].kind] = Priority[stim[r].kind] /\ s <= r}

OpenIn(st, t) == {s \in Stimuli : st[s].thread = t /\ st[s].state \in Open}

-----------------------------------------------------------------------------
(* What the repository writes *)

\* cleanup_terminal_run_work
CancelOpen(st) ==
  [s \in Stimuli |-> IF st[s].state \in Open
                     THEN [st[s] EXCEPT !.state = "cancelled", !.token = NoToken]
                     ELSE st[s]]

\* Mutant of FailUnfinished: the turns of an ended run are left as they are.
KeepsTurns(tn) == tn

FailUnfinished(tn) ==
  [s \in Stimuli |-> [a \in Agents |->
     IF tn[s][a].state \in Unfinished
     THEN [tn[s][a] EXCEPT !.state = "failed", !.token = NoToken]
     ELSE tn[s][a]]]

\* set_run_state and control_run with a terminal state: the cleanup is part of
\* the same transaction.  st and tn are the tables as that transaction left them.
EndRun(state, st, tn) ==
  /\ runState' = state
  /\ stim' = CancelOpen(st)
  /\ turn' = FailUnfinished(tn)

\* Mutant of Returned: recovery grants one attempt too many.
ReturnsOnceMore(row) ==
  [row EXCEPT !.token = NoToken, !.delayed = FALSE,
              !.state = IF row.attempts > MaxAttempts THEN "failed" ELSE "pending"]

\* recover_inflight_work for the leases S, with the reopening of the interrupted
\* turns that _recover_inflight_work adds in the same transaction.
Returned(row) ==
  [row EXCEPT !.token = NoToken, !.delayed = FALSE,
              !.state = IF row.attempts >= MaxAttempts THEN "failed" ELSE "pending"]
RecoverStimuli(S) == [s \in Stimuli |-> IF s \in S THEN Returned(stim[s]) ELSE stim[s]]

\* Mutant of RecoverTurns: recovery reopens the finished turns as well.
ReopensEveryTurn(S) ==
  [s \in Stimuli |-> [a \in Agents |->
     IF s \in S /\ turn[s][a].state # "none"
     THEN [turn[s][a] EXCEPT !.state = "selected", !.token = NoToken]
     ELSE turn[s][a]]]

\* Mutant of RecoverTurns: recovery looks at the stimuli only.
LeavesTheTurns(S) == turn

RecoverTurns(S) ==
  [s \in Stimuli |-> [a \in Agents |->
     IF s \in S /\ turn[s][a].state \in Unfinished
     THEN [turn[s][a] EXCEPT
             !.state = IF stim[s].attempts >= MaxAttempts THEN "failed" ELSE "selected",
             !.token = NoToken]
     ELSE turn[s][a]]]
Recover(S) == stim' = RecoverStimuli(S) /\ turn' = RecoverTurns(S)

\* Mutant of Leases: recovery forgets the stimuli in processing.
ClaimedOnly == {s \in Stimuli : stim[s].state = "claimed"}

Leases == {s \in Stimuli : stim[s].state \in Leased}

\* _ensure_runner: start the worker task if there is none.
WithRunner(tk) == IF Continuous /\ tk["worker"].pc = "off"
                  THEN [tk EXCEPT !["worker"] = At("top")] ELSE tk

\* Mutant of Notified: nobody starts a worker.
NotifiesNobody(tk) == tk

\* notify: only a running continuous run gets a worker.
Notified(tk) == IF runState = "running" THEN WithRunner(tk) ELSE tk

\* finish_turn.  A terminal row keeps its claim_token; nothing reads it there,
\* so the model clears it.
Finished(s, a, state) ==
  [turn EXCEPT ![s][a].state = state, ![s][a].token = NoToken]

-----------------------------------------------------------------------------
(* Initial state: a created run with its opening post, written by a person *)

Init ==
  /\ runState = "created" /\ rounds = 0 /\ expired = FALSE
  /\ unavailable = {} /\ ticked = {} /\ freeRun = "no"
  /\ thread = [t \in Threads |-> IF t = FirstThread THEN "active" ELSE "absent"]
  /\ posts = {} /\ humanPosts = 0
  /\ last = [t \in Threads |-> NoAgent]
  /\ keys = [t \in Threads |-> {}]
  /\ enabled = [a \in Agents |-> TRUE]
  /\ stim = [s \in Stimuli |->
       [NewStimulus(FirstThread, "human_post", NoAgent, 0, {}, s) EXCEPT
          !.state = IF s = 1 THEN "pending" ELSE "none"]]
  /\ turn = [s \in Stimuli |-> [a \in Agents |-> NoTurn]]
  /\ task = [k \in Tasks |-> At("off")]
  /\ faults = 0 /\ crashes = 0

-----------------------------------------------------------------------------
(* _step_locked: recover expired leases, then claim one stimulus *)

\* The worker's loop ends when the run is not RUNNING; a step of an ended run
\* answers at once.
Leave(k) ==
  /\ task[k].pc = "top" /\ LoopFree /\ LockFree
  /\ IF k = "worker" THEN runState # "running" ELSE runState \in Terminal
  /\ Become(k, At("off"))
  /\ UNCHANGED <<runVars, boardVars, workVars, envVars>>

\* The run lock is taken and the leases that have expired are recovered.
\* Whether a lease has outlived claim_lease_seconds is left open: under the
\* lock every lease is one that a crash or a failure left behind.
Begin(k) ==
  /\ task[k].pc = "top" /\ LoopFree /\ LockFree
  /\ IF k = "worker" THEN runState = "running" ELSE runState \notin Terminal
  /\ \E S \in SUBSET Leases : Recover(S)
  /\ Goto(k, "claim")
  /\ UNCHANGED <<runVars, boardVars, envVars>>

\* step_once: an explicit step of a run that is not running.
StepsOnce(k) == k = "stepper" /\ runState \in {"created", "paused"}

NobodyLeft   == \A a \in Agents : enabled[a] => a \in unavailable
NoOpenThread == \A t \in Threads : thread[t] \in {"absent", "closed"}

\* The transaction of the claim finds the run at its end: out of budget, or
\* (prepare_session) without participants or without an open thread.
ClaimEnds(k) ==
  /\ task[k].pc = "claim"
  /\ \/ BudgetExhausted /\ EndRun("completed", stim, turn)
     \/ /\ ~BudgetExhausted /\ Autonomous /\ NobodyLeft
        /\ EndRun("failed", stim, turn)
     \/ /\ ~BudgetExhausted /\ Autonomous /\ ~NobodyLeft /\ NoOpenThread
        /\ EndRun("completed", stim, turn)
  /\ freeRun' = IF StepsOnce(k) THEN "no" ELSE freeRun
  /\ Become(k, At("off"))
  /\ UNCHANGED <<rounds, expired, unavailable, ticked, boardVars, envVars>>

MayClaim == ~BudgetExhausted /\ (Autonomous => ~NobodyLeft /\ ~NoOpenThread)

ClaimNothing(k) ==
  /\ task[k].pc = "claim" /\ MayClaim /\ Ready = {}
  /\ runState' = IF StepsOnce(k) THEN "paused" ELSE runState
  /\ freeRun' = IF StepsOnce(k) THEN "no" ELSE freeRun
  /\ Become(k, At(IF k = "worker" THEN "rest" ELSE "off"))
  /\ UNCHANGED <<rounds, expired, unavailable, ticked, boardVars, workVars, envVars>>

\* claim_stimuli with limit 1.
Claim(k) ==
  /\ task[k].pc = "claim" /\ MayClaim
  /\ \E s \in FirstReady, n \in FreshToken :
       /\ stim' = [stim EXCEPT ![s].state = "claimed", ![s].token = n,
                               ![s].attempts = @ + 1]
       /\ Become(k, [At("prepare") EXCEPT !.stim = s, !.token = n,
                                          !.once = StepsOnce(k)])
  /\ runState' = IF StepsOnce(k) THEN "running" ELSE runState
  /\ freeRun' = IF StepsOnce(k) THEN "no" ELSE freeRun
  /\ UNCHANGED <<rounds, expired, unavailable, ticked, boardVars, turn, envVars>>

-----------------------------------------------------------------------------
(* _prepare_stimulus: resume the turns of an earlier attempt, or select *)

Stim(k)  == task[k].stim
Agent(k) == task[k].agent
Taken(s) == {a \in Agents : turn[s][a].state # "none"}

\* Turns that already exist are taken up again as they are: no quota, target
\* or thread status is looked at a second time.
PrepareAgain(k) ==
  /\ task[k].pc = "prepare" /\ Taken(Stim(k)) # {}
  /\ stim' = [stim EXCEPT ![Stim(k)].state = "processing"]
  /\ LET again == {a \in Agents : turn[Stim(k)][a].state \in Unfinished}
     IN  /\ turn' = [turn EXCEPT ![Stim(k)] = [a \in Agents |->
                        IF a \in again THEN [@[a] EXCEPT !.token = task[k].token]
                                       ELSE @[a]]]
         /\ Become(k, [task[k] EXCEPT !.pc = "turn", !.todo = again])
  /\ UNCHANGED <<runVars, boardVars, envVars>>

\* allow_consecutive_posts, or a consecutive_turn_cap of 1: nobody answers himself,
\* except in an autonomous run (where a cap is left to the checks on the text).
MayFollow(a, t) == Autonomous \/ a # last[t]

\* Agents the scheduler may consider: _agent_quota_remaining and the filters of
\* _prepare_stimulus.
Eligible(s) ==
  {a \in Agents : /\ enabled[a]
                  /\ a \notin unavailable \cup stim[s].attempted
                  /\ stim[s].target \in {NoAgent, a}
                  /\ MayFollow(a, stim[s].thread)
                  /\ Cardinality(PostsOf(a)) < AgentQuota}

Left(n, limit) == IF n < limit THEN limit - n ELSE 0
RoundSlots     == Left(rounds, MaxRounds)
ThreadSlots(t) == Left(Cardinality(PostsIn(t)), ThreadQuota)
SelectionLimit(s) ==
  Min2(SelectMax, Min2(RoundSlots, ThreadSlots(stim[s].thread)))

\* WeightedFairScheduler.select turns the stimulus away whatever the agents.
Refused(s) ==
  \/ thread[stim[s].thread] = "closed"
  \/ /\ Dormancy /\ thread[stim[s].thread] = "dormant"
     /\ stim[s].kind \notin WakeKinds

\* Mutant of PreparedThread: any stimulus wakes its thread, a closed one too.
WakesAnyThread(s) ==
  IF ThreadSlots(stim[s].thread) = 0 /\ RoundSlots > 0 /\ Dormancy THEN "dormant"
  ELSE "active"

\* What preparing a stimulus does to its thread: a trigger that may wake it
\* does, and an exhausted thread goes dormant, whatever it was before.
PreparedThread(s) ==
  IF ThreadSlots(stim[s].thread) = 0 /\ RoundSlots > 0 /\ Dormancy THEN "dormant"
  ELSE IF thread[stim[s].thread] = "dormant" /\ ~Refused(s) THEN "active"
  ELSE thread[stim[s].thread]

\* _cooldown_deferral_time: only kinds that must not be lost wait for a cooldown.
MayDefer(s) ==
  /\ Cooldowns /\ SelectionLimit(s) > 0 /\ ~Refused(s) /\ Eligible(s) # {}
  /\ stim[s].kind \in {"mention", "question"} \/ stim[s].attempted # {}

Prepared(k) ==
  /\ task[k].pc = "prepare" /\ Taken(Stim(k)) = {}
  /\ thread' = [thread EXCEPT ![stim[Stim(k)].thread] = PreparedThread(Stim(k))]
  /\ UNCHANGED <<runVars, posts, humanPosts, last, keys, enabled, envVars>>

\* The scheduler's weights, and its filters for ping-pong, consecutive posts and
\* cooldowns, decide which of the eligible agents speak: any of them may.
PrepareSelect(k) ==
  /\ Prepared(k)
  /\ \E chosen \in SUBSET Eligible(Stim(k)) :
       /\ Cardinality(chosen) <= SelectionLimit(Stim(k))
       /\ Refused(Stim(k)) => chosen = {}
       /\ stim' = [stim EXCEPT ![Stim(k)].state = "processing"]
       /\ turn' = [turn EXCEPT ![Stim(k)] = [a \in Agents |->
                     IF a \in chosen THEN [NoTurn EXCEPT !.state = "selected",
                                                        !.token = task[k].token]
                                     ELSE @[a]]]
       /\ Become(k, [task[k] EXCEPT !.pc = "turn", !.todo = chosen])

\* Back to the queue without an attempt being used.
GivenBack(row) == [row EXCEPT !.state = "pending", !.token = NoToken,
                              !.attempts = IF @ = 0 THEN 0 ELSE @ - 1]

PrepareDefer(k) ==
  /\ Prepared(k) /\ MayDefer(Stim(k))
  /\ stim' = [stim EXCEPT ![Stim(k)] = [GivenBack(@) EXCEPT !.delayed = TRUE]]
  /\ Goto(k, "turn")
  /\ UNCHANGED turn

-----------------------------------------------------------------------------
(* _execute_turn: one model call with bounded retries *)

\* The worker looks at the run again before each turn; an explicit step does not.
TurnYield(k) ==
  /\ task[k].pc = "turn" /\ task[k].todo # {}
  /\ k = "worker" /\ ~RunCanCall
  /\ Goto(k, "yield")
  /\ UNCHANGED <<runVars, boardVars, workVars, envVars>>

MayTakeTurn(k) == k = "worker" => RunCanCall

\* A turn that is already terminal is only looked at.
TurnSkip(k) ==
  /\ task[k].pc = "turn" /\ MayTakeTurn(k)
  /\ \E a \in task[k].todo :
       /\ turn[Stim(k)][a].state \notin Unfinished
       /\ Become(k, [NextTurn(k) EXCEPT
            !.todo = @ \ {a},
            !.made = @ \/ turn[Stim(k)][a].state = "completed"])
  /\ UNCHANGED <<runVars, boardVars, workVars, envVars>>

TurnStart(k) ==
  /\ task[k].pc = "turn" /\ MayTakeTurn(k)
  /\ \E a \in task[k].todo :
       LET row == turn[Stim(k)][a] IN
       /\ row.state \in Unfinished
       /\ turn' = [turn EXCEPT ![Stim(k)][a].state = "calling"]
       /\ Become(k, [NextTurn(k) EXCEPT !.pc = "call", !.todo = @ \ {a}, !.agent = a,
                                        !.call = row.token,
                                        !.attempt = Min2(row.tries, Retries)])
  /\ UNCHANGED <<runVars, boardVars, stim, envVars>>

\* Retries are made durable before the turn is finished, if there were any.
Concluded(row) == [row EXCEPT !.pc = IF row.misses > 0 THEN "record" ELSE "finish"]

CallPermitted(k) == RunCanCall /\ enabled[Agent(k)]

\* A pause that came before this attempt defers the turn; anything else that
\* forbids the call ends it.
CallRefused(k) ==
  /\ task[k].pc = "call" /\ ~CallPermitted(k)
  /\ Become(k, Concluded([task[k] EXCEPT
       !.result = IF ~RunCanCall /\ runState = "paused" THEN "defer" ELSE "none"]))
  /\ UNCHANGED <<runVars, boardVars, workVars, envVars>>

CallMade(k) ==
  /\ task[k].pc = "call" /\ CallPermitted(k)
  /\ Become(k, [task[k] EXCEPT !.pc = "await", !.called = TRUE])
  /\ UNCHANGED <<runVars, boardVars, workVars, envVars>>

\* action_thread: in an autonomous run a parent post names the thread.
Targets(k) == IF Autonomous THEN {t \in Threads : thread[t] # "absent"}
              ELSE {stim[Stim(k)].thread}

\* The gateway answers with an action that ActionPolicy accepts (pass always).
\* Bound: a new thread is only proposed while an identity is left for it.
GatewayAnswers(k) ==
  /\ task[k].pc = "await" /\ LoopFree
  /\ \E act \in Writes \cup {"pass"} :
       /\ act # "pass" => /\ enabled[Agent(k)]
                          /\ \E t \in Targets(k) :
                               thread[t] # "closed" /\ MayFollow(Agent(k), t)
       /\ act = "new_thread" => \E t \in Threads : thread[t] = "absent"
       /\ Become(k, Concluded([task[k] EXCEPT !.result = act]))
  /\ UNCHANGED <<runVars, boardVars, workVars, envVars>>

\* A policy rejection, an invalid output or a provider failure, with (again) or
\* without another attempt.  The last provider failure is remembered; a safety
\* block is never retried.
GatewayMisses(k) ==
  /\ task[k].pc = "await" /\ LoopFree
  /\ \E again \in BOOLEAN, mark \in Marks :
       LET row == [task[k] EXCEPT !.misses = @ + 1,
                                  !.mark = IF mark = "no" THEN @ ELSE mark]
       IN  /\ mark = "safety" => ~again
           /\ Become(k, IF again /\ row.attempt < Retries
                        THEN [row EXCEPT !.pc = "backoff", !.attempt = @ + 1]
                        ELSE Concluded(row))
  /\ UNCHANGED <<runVars, boardVars, workVars, envVars>>

BackoffOver(k) ==
  /\ task[k].pc = "backoff" /\ LoopFree
  /\ Goto(k, "call")
  /\ UNCHANGED <<runVars, boardVars, workVars, envVars>>

-----------------------------------------------------------------------------
(* The ends of a turn, each behind the fence of the call's token *)

Record(k) ==
  /\ task[k].pc = "record" /\ OwnsTurn(k)
  /\ turn' = [turn EXCEPT ![Stim(k)][Agent(k)].tries =
                            Min2(@ + task[k].misses, Retries)]
  /\ Goto(k, "finish")
  /\ UNCHANGED <<runVars, boardVars, stim, envVars>>

\* The result arrived for a turn that is no longer this call's.
Lapsed(k) ==
  /\ task[k].pc \in {"record", "finish"} /\ ~OwnsTurn(k)
  /\ Become(k, [NextTurn(k) EXCEPT !.made = @ \/
       /\ task[k].pc = "finish" /\ task[k].result \in Writes
       /\ turn[Stim(k)][Agent(k)].state = "completed"])
  /\ UNCHANGED <<runVars, boardVars, workVars, envVars>>

Finishing(k) == task[k].pc = "finish" /\ OwnsTurn(k)

\* Mutant of Defer: the turn is deferred, its stimulus is not yielded.
DefersOnlyTheTurn(k) ==
  /\ Finishing(k) /\ task[k].result = "defer"
  /\ turn' = [turn EXCEPT ![Stim(k)][Agent(k)].state = "selected",
                          ![Stim(k)][Agent(k)].token = NoToken]
  /\ Become(k, NextTurn(k))
  /\ UNCHANGED <<runVars, boardVars, stim, envVars>>

Defer(k) ==
  /\ Finishing(k) /\ task[k].result = "defer"
  /\ turn' = [turn EXCEPT ![Stim(k)][Agent(k)].state = "selected",
                          ![Stim(k)][Agent(k)].token = NoToken]
  /\ Goto(k, "yield")
  /\ UNCHANGED <<runVars, boardVars, stim, envVars>>

\* No call was made: no round is counted.
FailUncalled(k) ==
  /\ Finishing(k) /\ task[k].result = "none" /\ ~task[k].called
  /\ turn' = Finished(Stim(k), Agent(k), "failed")
  /\ Become(k, NextTurn(k))
  /\ UNCHANGED <<runVars, boardVars, stim, envVars>>

\* The attempts are used up.  A safety block ends the run in the same
\* transaction; an autonomous run goes on without the participant.
FailCalled(k) ==
  /\ Finishing(k) /\ task[k].result = "none" /\ task[k].called
  /\ rounds' = rounds + 1
  /\ IF task[k].mark = "safety"
     THEN EndRun("failed", stim, Finished(Stim(k), Agent(k), "failed"))
     ELSE /\ turn' = Finished(Stim(k), Agent(k), "failed")
          /\ UNCHANGED <<runState, stim>>
  /\ unavailable' = unavailable \cup
       (IF Autonomous /\ task[k].mark = "gateway" THEN {Agent(k)} ELSE {})
  /\ Become(k, NextTurn(k))
  /\ UNCHANGED <<expired, ticked, freeRun, boardVars, envVars>>

Pass(k) ==
  /\ Finishing(k) /\ task[k].result = "pass"
  /\ rounds' = rounds + 1
  /\ turn' = Finished(Stim(k), Agent(k), "passed")
  /\ Become(k, NextTurn(k))
  /\ UNCHANGED <<runState, expired, unavailable, ticked, freeRun, boardVars, stim, envVars>>

-----------------------------------------------------------------------------
(* _commit_action: policy is checked again, then post, turn and follow-up work
   are written together *)

\* Mutant of Committable: the thread quota is not checked at commit.
ForgetsThreadQuota(k, t) ==
  /\ runState \notin Terminal
  /\ enabled[Agent(k)] /\ thread[t] # "closed" /\ MayFollow(Agent(k), t)
  /\ PostsUsed < MaxPosts

\* The checks that are made again at commit, apart from those on the text.
Committable(k, t) ==
  /\ runState \notin Terminal
  /\ enabled[Agent(k)] /\ thread[t] # "closed" /\ MayFollow(Agent(k), t)
  /\ PostsUsed < MaxPosts
  /\ task[k].result # "new_thread" => Cardinality(PostsIn(t)) < ThreadQuota

\* Refused by one of them or by a check on the text (repeats, cooldowns,
\* ping-pong), which may fail at any time.
CommitRejected(k) ==
  /\ Finishing(k) /\ task[k].result \in Writes
  /\ rounds' = rounds + 1
  /\ turn' = Finished(Stim(k), Agent(k), "failed")
  /\ Become(k, NextTurn(k))
  /\ UNCHANGED <<runState, expired, unavailable, ticked, freeRun, boardVars, stim, envVars>>

\* create_post refuses an agent's post in a dormant thread by an exception.
CommitRaises(k) ==
  /\ Finishing(k) /\ task[k].result \in {"reply", "propose_close"}
  /\ \E t \in Targets(k) : Committable(k, t) /\ thread[t] = "dormant"
  /\ Goto(k, "requeue")
  /\ UNCHANGED <<runVars, boardVars, workVars, envVars>>

Closes(k) == task[k].result = "propose_close" /\ Agent(k) \in Closers

\* plan_reactive_stimuli over the body of a post: whom it addresses and how.
\* Bound: one stimulus per post.
Plans(default, others) ==
  {p \in (InputKinds \cap {default, "question", "mention"}) \X OptAgent :
     IF p[1] = "mention" THEN p[2] \in others ELSE p[2] = NoAgent}

CancelIn(st, t, except) ==
  [s \in Stimuli |-> IF s \in OpenIn(st, t) \ {except}
                     THEN [st[s] EXCEPT !.state = "cancelled", !.token = NoToken]
                     ELSE st[s]]

\* Mutant of MayCascade: the cascade goes one level too deep.
CascadesOnceMore(k) == stim[Stim(k)].depth <= MaxDepth

MayCascade(k) == stim[Stim(k)].depth < MaxDepth

\* The follow-up of a post in thread t: the thread's closure, or the next
\* stimulus of the cascade.
FollowUp(k, t) ==
  IF Closes(k) THEN
    stim' = CancelIn(stim, t, Stim(k))
  ELSE IF MayCascade(k) THEN
    \E r \in FreeRow, p \in Plans("agent_post",
        {a \in Agents : enabled[a] /\ (Autonomous \/ a # Agent(k))}) :
      stim' = [stim EXCEPT ![r] =
                 NewStimulus(t, p[1], p[2], stim[Stim(k)].depth + 1, {}, r)]
  ELSE UNCHANGED stim

\* The post, its turn and the counters; notify may start the worker.  The branch
\* for a delivery key that has a post already is not modelled: DeliveredOnce
\* shows that a calling turn has none.
Posted(k, t) ==
  /\ posts' = posts \cup {<<Stim(k), Agent(k), t>>}
  /\ last' = [last EXCEPT ![t] = Agent(k)]
  /\ keys' = [keys EXCEPT ![t] = {}]
  /\ turn' = Finished(Stim(k), Agent(k), "completed")
  /\ rounds' = rounds + 1
  /\ FollowUp(k, t)
  /\ task' = Notified([task EXCEPT ![k] = [NextTurn(k) EXCEPT !.made = TRUE]])
  /\ UNCHANGED <<runState, expired, unavailable, ticked, freeRun, humanPosts,
                 enabled, envVars>>

CommitPost(k) ==
  /\ Finishing(k) /\ task[k].result \in {"reply", "propose_close"}
  /\ \E t \in Targets(k) :
       /\ Committable(k, t) /\ thread[t] = "active"
       /\ Posted(k, t)
       /\ thread' = IF Closes(k) THEN [thread EXCEPT ![t] = "closed"] ELSE thread

\* The policy looks at the turn's own thread, the post goes to a new one.
CommitThread(k) ==
  /\ Finishing(k) /\ task[k].result = "new_thread"
  /\ Committable(k, stim[Stim(k)].thread)
  /\ \E t \in Threads :
       /\ thread[t] = "absent"
       /\ Posted(k, t)
       /\ thread' = [thread EXCEPT ![t] = "active"]

-----------------------------------------------------------------------------
(* The ends of a claim *)

\* release_stimulus: back to the queue after a delay, or failed for good.
Released(row) ==
  [row EXCEPT !.token = NoToken,
              !.state = IF row.attempts >= MaxAttempts THEN "failed" ELSE "pending",
              !.delayed = row.attempts < MaxAttempts]

\* _requeue_turn_after_exception
Requeue(k) ==
  LET s == Stim(k)
      a == Agent(k)
  IN  /\ task[k].pc = "requeue"
      /\ IF turn[s][a].state \in Unfinished /\ OwnsClaim(k)
         THEN /\ turn' = [turn EXCEPT
                   ![s][a].state = IF stim[s].attempts < MaxAttempts THEN "selected"
                                                                    ELSE "failed",
                   ![s][a].token = NoToken]
              /\ stim' = [stim EXCEPT ![s] = Released(@)]
         ELSE UNCHANGED workVars
      /\ Goto(k, "abort")
      /\ UNCHANGED <<runVars, boardVars, envVars>>

\* _release_claim, after a failed preparation
Release(k) ==
  /\ task[k].pc = "release"
  /\ stim' = IF OwnsClaim(k) THEN [stim EXCEPT ![Stim(k)] = Released(@)] ELSE stim
  /\ Goto(k, "abort")
  /\ UNCHANGED <<runVars, boardVars, turn, envVars>>

\* _yield_claim
Yield(k) ==
  /\ task[k].pc = "yield"
  /\ stim' = IF OwnsClaim(k)
             THEN [stim EXCEPT ![Stim(k)] = [GivenBack(@) EXCEPT !.delayed = FALSE]]
             ELSE stim
  /\ Goto(k, "abort")
  /\ UNCHANGED <<runVars, boardVars, turn, envVars>>

TurnsOver(k) ==
  /\ task[k].pc = "turn" /\ task[k].todo = {}
  /\ Goto(k, "complete")
  /\ UNCHANGED <<runVars, boardVars, workVars, envVars>>

\* _complete_claim, when the lease is gone
CompleteLost(k) ==
  /\ task[k].pc = "complete" /\ ~OwnsClaim(k)
  /\ Goto(k, "advance")
  /\ UNCHANGED <<runVars, boardVars, workVars, envVars>>

MadePosts(k) ==
  task[k].made \/ \E a \in Agents : turn[Stim(k)][a].state = "completed"

\* The recipient of a stimulus could not be given a turn.
TargetMissed(s) == Taken(s) = {} /\ stim[s].target # NoAgent

Noncontributing(s) ==
  \/ Taken(s) # {} /\ \A a \in Taken(s) : turn[s][a].state \in {"passed", "failed"}
  \/ TargetMissed(s)

\* Mutant of AttemptedBy: only the last stimulus of a chain of fallbacks counts.
ForgetsEarlierAttempts(s) ==
  Taken(s) \cup (IF TargetMissed(s) THEN {stim[s].target} ELSE {})

AttemptedBy(s) == stim[s].attempted \cup Taken(s)
             \cup (IF TargetMissed(s) THEN {stim[s].target} ELSE {})

Remaining(s) ==
  {a \in Agents : /\ enabled[a]
                  /\ a \notin AttemptedBy(s) \cup unavailable
                  /\ MayFollow(a, stim[s].thread)}

HandsOff(k) ==
  /\ ~MadePosts(k) /\ Noncontributing(Stim(k))
  /\ thread[stim[Stim(k)].thread] = "active"
  /\ Remaining(Stim(k)) # {} /\ ~BudgetExhausted

\* The rows once the stimulus is completed, with the fallback that hands it to
\* the agents that have not had it.
Completed(k) ==
  LET s    == Stim(k)
      done == [stim EXCEPT ![s].state = "completed", ![s].token = NoToken]
  IN  IF ~HandsOff(k) THEN {done}
      ELSE {[done EXCEPT ![r] = NewStimulus(stim[s].thread, stim[s].kind, NoAgent,
               stim[s].depth, AttemptedBy(s), stim[s].root)] : r \in FreeRow}

GoesQuiet(k, st) ==
  LET s == Stim(k)
  IN  /\ Dormancy /\ ~MadePosts(k)
      /\ \/ Noncontributing(s)
         \/ stim[s].attempted # {}
         \/ stim[s].kind \in {"idle_revisit", "revisit"}
      /\ OpenIn(st, stim[s].thread) = {}
      /\ thread[stim[s].thread] = "active"

\* _complete_claim: completion, fallback and dormancy in one transaction.
Complete(k) ==
  /\ task[k].pc = "complete" /\ OwnsClaim(k)
  /\ \E st \in Completed(k) :
       /\ stim' = st
       /\ thread' = IF GoesQuiet(k, st)
                    THEN [thread EXCEPT ![stim[Stim(k)].thread] = "dormant"]
                    ELSE thread
  /\ Goto(k, "advance")
  /\ UNCHANGED <<runVars, posts, humanPosts, last, keys, enabled, turn, envVars>>

\* Mutant of ClockMoves: the clock moves only for stimuli that were answered.
ClockMovesForPosts(k) == VirtualTime /\ task[k].made

\* _advance_virtual_time
ClockMoves(k) == VirtualTime /\ stim[Stim(k)].state = "completed"

Advance(k) ==
  /\ task[k].pc = "advance"
  /\ ticked' = ticked \cup (IF ClockMoves(k) THEN {Stim(k)} ELSE {})
  /\ Goto(k, "settle")
  /\ UNCHANGED <<runState, rounds, expired, unavailable, freeRun, boardVars,
                 workVars, envVars>>

\* Mutant of StepEnds: the end of a step does not look at the state of the run.
PausesWhatever(k) == IF task[k].once THEN "paused" ELSE runState

\* Mutant of StepEnds: a step leaves the run running.
NeverPausesAgain(k) == runState

\* _finish_step_once
StepEnds(k) == IF task[k].once /\ runState = "running" THEN "paused" ELSE runState

Settle(k) ==
  /\ task[k].pc = "settle"
  /\ runState' = StepEnds(k)
  /\ Goto(k, "budget")
  /\ UNCHANGED <<rounds, expired, unavailable, ticked, freeRun, boardVars,
                 workVars, envVars>>

Abort(k) ==
  /\ task[k].pc = "abort"
  /\ runState' = StepEnds(k)
  /\ Become(k, Done(k))
  /\ UNCHANGED <<rounds, expired, unavailable, ticked, freeRun, boardVars,
                 workVars, envVars>>

\* _finish_run_if_budget_exhausted
Budget(k) ==
  /\ task[k].pc = "budget"
  /\ IF BudgetExhausted /\ runState \notin Terminal
     THEN EndRun("completed", stim, turn)
     ELSE UNCHANGED <<runState, workVars>>
  /\ Become(k, Done(k))
  /\ UNCHANGED <<rounds, expired, unavailable, ticked, freeRun, boardVars, envVars>>

-----------------------------------------------------------------------------
(* The worker between its steps, and its failure *)

Quiet == {t \in Threads : thread[t] = "active" /\ OpenIn(stim, t) = {}}

\* Mutant of Revisitable: the dedupe key of a revisit is missing.
RevisitsWithoutKey(t) == t \in Threads

\* One revisit for each sequence of a thread (the dedupe key idle:{sequence}).
Revisitable(t) == "idle" \notin keys[t]

\* _idle_maintenance: a quiet thread goes dormant or is revisited.
\* Bound: one revisit per pass.
Rest ==
  LET k == "worker" IN
  /\ task[k].pc = "rest"
  /\ IF runState # "running" \/ ~Dormancy THEN UNCHANGED <<thread, keys, stim>>
     ELSE \E D \in SUBSET Quiet :
       /\ thread' = [t \in Threads |-> IF t \in D THEN "dormant" ELSE thread[t]]
       /\ \/ UNCHANGED <<keys, stim>>
          \/ \E t \in Quiet \ D, r \in FreeRow :
               /\ Revisitable(t)
               /\ keys' = [keys EXCEPT ![t] = @ \cup {"idle"}]
               /\ stim' = [stim EXCEPT ![r] =
                             NewStimulus(t, "idle_revisit", NoAgent, 0, {}, r)]
  /\ Goto(k, "top")
  /\ UNCHANGED <<runVars, posts, humanPosts, last, enabled, turn, envVars>>

\* _handle_runner_failure: every lease of the run is recovered, then the run is
\* paused in a transaction of its own.
Fail ==
  /\ task["worker"].pc = "fail"
  /\ Recover(Leases)
  /\ Goto("worker", "pausing")
  /\ UNCHANGED <<runVars, boardVars, envVars>>

Pausing ==
  /\ task["worker"].pc = "pausing"
  /\ runState' = IF runState = "running" THEN "paused" ELSE runState
  /\ Become("worker", At("off"))
  /\ UNCHANGED <<rounds, expired, unavailable, ticked, freeRun, boardVars,
                 workVars, envVars>>

\* Where _step_locked goes when a transaction raises: its handlers cover the
\* preparation and the turns, anything else leaves _step_locked.
Raises(k) ==
  CASE task[k].pc = "prepare" -> {[task[k] EXCEPT !.pc = "release"]}
    [] task[k].pc = "turn" -> {[task[k] EXCEPT !.pc = "requeue", !.agent = a] :
                                 a \in task[k].todo}
    [] task[k].pc \in {"call", "record", "finish"} -> {[task[k] EXCEPT !.pc = "requeue"]}
    [] task[k].pc = "fail" -> {At("pausing")}
    [] OTHER -> {At(IF k = "worker" THEN "fail" ELSE "off")}

\* step_once is a local of _step_locked: when it is lost, the run stays RUNNING.
StepLost == IF task["stepper"].once /\ runState = "running" /\ freeRun = "no"
            THEN "cut" ELSE freeRun

Fault(k) ==
  /\ k \in Faulty /\ faults < MaxFaults
  /\ task[k].pc \notin {"off", "await", "backoff", "pausing"}
  /\ task[k].pc = "top" => k = "worker" /\ LoopFree
  /\ \E row \in Raises(k) :
       /\ Become(k, row)
       /\ freeRun' = IF k = "stepper" /\ ~row.once THEN StepLost ELSE freeRun
  /\ faults' = faults + 1
  /\ UNCHANGED <<runState, rounds, expired, unavailable, ticked, boardVars, workVars,
                 crashes>>

-----------------------------------------------------------------------------
(* Run control: requests of people, served while both tasks are suspended *)

Start ==
  /\ "start" \in Environment /\ LoopFree
  /\ runState \in {"created", "paused"}
  /\ runState' = "running" /\ freeRun' = "person"
  /\ task' = WithRunner(task)
  /\ UNCHANGED <<rounds, expired, unavailable, ticked, boardVars, workVars, envVars>>

\* resume of a run that is RUNNING only makes sure that it has a worker.
EnsureRunner ==
  /\ "pause" \in Environment /\ LoopFree
  /\ runState = "running"
  /\ freeRun' = "person"
  /\ task' = WithRunner(task)
  /\ UNCHANGED <<runState, rounds, expired, unavailable, ticked, boardVars,
                 workVars, envVars>>

Pause ==
  /\ "pause" \in Environment /\ LoopFree
  /\ runState = "running"
  /\ runState' = "paused" /\ freeRun' = "no"
  /\ UNCHANGED <<rounds, expired, unavailable, ticked, boardVars, workVars, task, envVars>>

\* stop and emergency_stop also cancel the worker; a step in progress goes on.
Stop ==
  /\ "stop" \in Environment /\ LoopFree
  /\ runState \notin Terminal
  /\ \E state \in {"stopped", "emergency_stopped"} : EndRun(state, stim, turn)
  /\ Become("worker", At("off"))
  /\ UNCHANGED <<rounds, expired, unavailable, ticked, freeRun, boardVars, envVars>>

\* Bound: one step request at a time.
RequestStep ==
  /\ "step" \in Environment /\ LoopFree
  /\ task["stepper"].pc = "off"
  /\ Goto("stepper", "top")
  /\ UNCHANGED <<runVars, boardVars, workVars, envVars>>

-----------------------------------------------------------------------------
(* The board: requests of people *)

Enabled == {a \in Agents : enabled[a]}

\* A person's post wakes a dormant thread, and asks for answers.
HumanPost ==
  /\ "post" \in Environment /\ LoopFree
  /\ humanPosts < MaxHumanPosts /\ runState \notin Terminal
  /\ \E t \in Threads, r \in FreeRow, p \in Plans("human_post", Enabled) :
       /\ thread[t] \in {"active", "dormant"}
       /\ thread' = [thread EXCEPT ![t] = "active"]
       /\ last' = [last EXCEPT ![t] = NoAgent]
       /\ keys' = [keys EXCEPT ![t] = {}]
       /\ stim' = [stim EXCEPT ![r] = NewStimulus(t, p[1], p[2], 0, {}, r)]
  /\ humanPosts' = humanPosts + 1
  /\ task' = Notified(task)
  /\ UNCHANGED <<runVars, posts, enabled, turn, envVars>>

\* Closing a thread by hand leaves its stimuli in the queue.
HumanSetStatus ==
  /\ "status" \in Environment /\ LoopFree
  /\ \E t \in Threads, status \in ThreadStates \ {"absent"} :
       /\ thread[t] # "absent"
       /\ runState \in Terminal => status = "closed"
       /\ thread' = [thread EXCEPT ![t] = status]
  /\ UNCHANGED <<runVars, posts, humanPosts, last, keys, enabled, workVars, task, envVars>>

\* Asked twice for the same reason at the same sequence, one stimulus.
HumanWake ==
  /\ "wake" \in Environment /\ LoopFree
  /\ runState \notin Terminal
  /\ \E t \in Threads, reason \in InputKinds \cap {"new_evidence", "revisit"} :
       /\ thread[t] \in {"active", "dormant"}
       /\ thread' = [thread EXCEPT ![t] = "active"]
       /\ keys' = [keys EXCEPT ![t] = @ \cup {reason}]
       /\ IF reason \in keys[t] THEN UNCHANGED stim
          ELSE \E r \in FreeRow :
                 stim' = [stim EXCEPT ![r] = NewStimulus(t, reason, NoAgent, 0, {}, r)]
  /\ UNCHANGED <<runVars, posts, humanPosts, last, enabled, turn, task, envVars>>

\* PATCH of an agent's enabled flag or permission to speak.
SetEnabled ==
  /\ "agents" \in Environment /\ LoopFree
  /\ \E a \in Agents : enabled' = [enabled EXCEPT ![a] = ~@]
  /\ UNCHANGED <<runVars, thread, posts, humanPosts, last, keys, workVars, task, envVars>>

\* PATCH of an agent's configuration: it is available again to live runs.
Reconfigure ==
  /\ "agents" \in Environment /\ LoopFree
  /\ runState \notin Terminal
  /\ \E a \in unavailable : unavailable' = unavailable \ {a}
  /\ UNCHANGED <<runState, rounds, expired, ticked, freeRun, boardVars, workVars,
                 task, envVars>>

-----------------------------------------------------------------------------
(* Time and the process *)

\* The duration runs out, or the tokens of finished turns reach the budget.
BudgetExpires ==
  /\ "expiry" \in Environment /\ LoopFree
  /\ runState \in {"running", "paused"} /\ ~expired
  /\ expired' = TRUE
  /\ UNCHANGED <<runState, rounds, unavailable, ticked, freeRun, boardVars,
                 workVars, task, envVars>>

\* A stimulus's not_before is reached.
TimePasses ==
  /\ LoopFree
  /\ \E s \in Stimuli : /\ stim[s].state = "pending" /\ stim[s].delayed
                        /\ stim' = [stim EXCEPT ![s].delayed = FALSE]
  /\ UNCHANGED <<runVars, boardVars, turn, task, envVars>>

\* The process dies between any two transactions, or is shut down, and starts
\* again: recover() takes back every lease and restarts a continuous worker.
Restart ==
  /\ crashes < MaxCrashes
  /\ crashes' = crashes + 1
  /\ Recover(Leases)
  /\ task' = Notified([k \in Tasks |-> At("off")])
  /\ freeRun' = StepLost
  /\ UNCHANGED <<runState, rounds, expired, unavailable, ticked, boardVars, faults>>

-----------------------------------------------------------------------------
(* The system *)

StepAction(k) ==
  \/ Leave(k) \/ Begin(k) \/ ClaimEnds(k) \/ ClaimNothing(k) \/ Claim(k)
  \/ PrepareAgain(k) \/ PrepareSelect(k) \/ PrepareDefer(k)

TurnAction(k) ==
  \/ TurnYield(k) \/ TurnSkip(k) \/ TurnStart(k)
  \/ CallRefused(k) \/ CallMade(k)
  \/ GatewayAnswers(k) \/ GatewayMisses(k) \/ BackoffOver(k)

FinishAction(k) ==
  \/ Record(k) \/ Lapsed(k) \/ Defer(k) \/ FailUncalled(k) \/ FailCalled(k)
  \/ Pass(k) \/ CommitRejected(k) \/ CommitRaises(k) \/ CommitPost(k)
  \/ CommitThread(k)

EndAction(k) ==
  \/ Requeue(k) \/ Release(k) \/ Yield(k) \/ TurnsOver(k) \/ CompleteLost(k)
  \/ Complete(k) \/ Advance(k) \/ Settle(k) \/ Abort(k) \/ Budget(k)

WorkerAction == Rest \/ Fail \/ Pausing

Request ==
  \/ Start \/ EnsureRunner \/ Pause \/ Stop \/ RequestStep
  \/ HumanPost \/ HumanSetStatus \/ HumanWake \/ SetEnabled \/ Reconfigure

Outside == BudgetExpires \/ TimePasses \/ Restart

TaskStep(k) == StepAction(k) \/ TurnAction(k) \/ FinishAction(k) \/ EndAction(k)

Next ==
  \/ \E k \in Tasks : TaskStep(k) \/ Fault(k)
  \/ WorkerAction
  \/ Request
  \/ Outside

Spec == Init /\ [][Next]_vars
=============================================================================
