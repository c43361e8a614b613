------------------------- MODULE DeliveryProperties -------------------------
(***************************************************************************)
(* What Delivery promises: the type invariant, the safety and action       *)
(* properties of a run's stimuli, turns and posts, and liveness.  Four     *)
(* statements of the documentation are not kept in every case; each stands *)
(* before the property that says what the code does keep of it.            *)
(***************************************************************************)
EXTENDS Delivery

\* The rows of runs, threads and posts, of stimuli and turns, and the tasks' locals.
RunTypeOK ==
  /\ runState \in RunStates
  /\ rounds \in Nat
  /\ expired \in BOOLEAN /\ freeRun \in Releases
  /\ unavailable \subseteq Agents
  /\ ticked \subseteq Stimuli

BoardTypeOK ==
  /\ thread \in [Threads -> ThreadStates]
  /\ posts \subseteq Stimuli \X Agents \X Threads
  /\ humanPosts \in Nat
  /\ last \in [Threads -> OptAgent]
  /\ keys \in [Threads -> SUBSET {"idle", "new_evidence", "revisit"}]
  /\ enabled \in [Agents -> BOOLEAN]

WorkTypeOK ==
  /\ stim \in [Stimuli -> Row]
  /\ turn \in [Stimuli -> [Agents -> TurnRow]]

TaskTypeOK == task \in [Tasks -> TaskRow]

(* The variables have the types that the tables and the tasks' locals have  *)
(* (models.py and the locals of _step_locked and _execute_turn).            *)
TypeOK ==
  /\ RunTypeOK /\ BoardTypeOK /\ WorkTypeOK /\ TaskTypeOK
  /\ {faults, crashes} \subseteq Nat

-----------------------------------------------------------------------------
(* The end of a run *)

(* A run that has ended has no work left: no stimulus can still be claimed  *)
(* and no turn can still be called, whoever ended it and whatever was in    *)
(* flight (cleanup_terminal_run_work, repository.py).                       *)
TerminalRunIsQuiet ==
  runState \in Terminal =>
    \A s \in Stimuli : /\ stim[s].state \notin Open
                       /\ \A a \in Agents : turn[s][a].state \notin Unfinished

(* Nothing is written into a run that has ended: a late model answer, a     *)
(* task that is still on its way out, a restart and the people leave its    *)
(* state, its counters, its posts and its queue as they are.                *)
FrozenAfterEnd ==
  [][(runState \in Terminal) =>
       UNCHANGED <<runState, rounds, posts, humanPosts, stim, turn>>]_vars

-----------------------------------------------------------------------------
(* Delivery *)

(* Each opportunity leaves at most one post, and a post and the end of its  *)
(* turn are written together: however often a stimulus is redelivered after *)
(* crashes and faults, a completed turn has exactly one post and any other  *)
(* turn has none (_commit_action, recover_inflight_work).                   *)
DeliveredOnce ==
  \A s \in Stimuli, a \in Agents :
    Cardinality({p \in posts : p[1] = s /\ p[2] = a}) =
      IF turn[s][a].state = "completed" THEN 1 ELSE 0

(* A stimulus that waits in the queue has an attempt left to be delivered   *)
(* with, and one that is leased has not gone over its attempts: releases,   *)
(* yields, deferrals and recoveries agree on the count.                     *)
PendingHasAttempts ==
  \A s \in Stimuli :
    /\ stim[s].state = "pending" => stim[s].attempts < MaxAttempts
    /\ stim[s].state \in Leased => stim[s].attempts \in 1..MaxAttempts

(* A completed stimulus is settled: none of its turns can be called again.  *)
CompletedIsSettled ==
  \A s \in Stimuli : stim[s].state = "completed" =>
    \A a \in Agents : turn[s][a].state \notin Unfinished

(* "Each participant gets at most one chance for this input": over all the  *)
(* fallbacks of one input an agent has one turn, and no fallback follows a  *)
(* stimulus that was answered (_complete_claim).                            *)
OneChancePerInput ==
  \A s, r \in Stimuli :
    /\ s < r /\ stim[s].root = stim[r].root
    /\ stim[s].state # "none" /\ stim[r].state # "none"
    => \A a \in Agents :
         /\ turn[s][a].state = "none" \/ turn[r][a].state = "none"
         /\ turn[s][a].state # "completed"

(* A board with nothing new to say falls silent: what it does of its own    *)
(* accord, revisiting a quiet thread, happens at most once for the opening  *)
(* post and once for each later post, however often the thread goes dormant *)
(* and is woken (_idle_maintenance).                                        *)
RevisitsFollowPosts ==
  \A t \in Threads :
    Cardinality({s \in Stimuli : /\ stim[s].state # "none" /\ stim[s].root = s
                                /\ stim[s].kind = "idle_revisit"
                                /\ stim[s].thread = t})
      <= 1 + Cardinality(PostsIn(t)) + humanPosts

(* A lease is held by a task that is on its way to give it up.  A restart   *)
(* and a failing worker (one fault) leave none behind; only a step request  *)
(* that fails does, until the lease expires.                                *)
NoStrandedLease ==
  Faulty \subseteq {"worker"} /\ faults <= 1 =>
    \A s \in Stimuli : stim[s].state \in Leased => \E k \in Tasks :
      task[k].pc = "fail" \/ (task[k].stim = s /\ task[k].token = stim[s].token)

(* "A gateway result may commit only while the turn is CALLING and still    *)
(* owns the expected token" (architecture.md:206), the fence it shares with *)
(* the stimulus's lease: whoever posts holds the lease.  The code breaks    *)
(* this when a failing worker recovers the work of a step in progress.      *)
CommitUnderLease ==
  [][posts' # posts => \E k \in Tasks : task[k].pc = "finish" /\ OwnsClaim(k)]_vars

(* A post is written by a task that still holds the lease of the stimulus   *)
(* it answers, whatever crashes and fails; or else by a step request whose  *)
(* turn a failing worker had reopened before the call began, so that the    *)
(* call's fence is the empty token (_handle_runner_failure).                *)
PostsAreFenced ==
  [][posts' # posts => \E k \in Tasks :
       /\ task[k].pc = "finish"
       /\ \/ OwnsClaim(k)
          \/ k = "stepper" /\ task[k].call = NoToken /\ faults > 0]_vars

-----------------------------------------------------------------------------
(* Limits *)

(* The counters stay within the run's limits over every interleaving of     *)
(* pauses, deferred turns, explicit steps and crashes.  The opening post of *)
(* a new thread is not counted against that thread's quota.                 *)
LimitsKept ==
  /\ rounds <= MaxRounds
  /\ Cardinality(posts) <= MaxPosts
  /\ \A t \in Threads : Cardinality(PostsIn(t)) <= IF t = FirstThread THEN ThreadQuota
                                                                   ELSE ThreadQuota + 1

(* No agent posts more than per_agent_quota times in a run.                 *)
AgentQuotaKept == \A a \in Agents : Cardinality(PostsOf(a)) <= AgentQuota

-----------------------------------------------------------------------------
(* Run control *)

(* "Execute at most one durable stimulus, even while manually paused"       *)
(* (engine.py:262): the worker claims work only when the last control of a  *)
(* person let it run.  A step that is cut short by a crash breaks this.     *)
WorkerClaimsWhenReleased ==
  [][task["worker"].pc = "claim" /\ task'["worker"].pc = "prepare"
       => freeRun = "person"]_vars

(* While the last control of a person is a pause or a step, the worker      *)
(* claims nothing, however steps, their ends, late answers and failures     *)
(* interleave; unless a step was cut short by a crash or a fault of its own *)
(* and left the run RUNNING (_step_locked, _finish_step_once).              *)
PausedWorkerWaits ==
  [][task["worker"].pc = "claim" /\ task'["worker"].pc = "prepare"
       => freeRun # "no"]_vars

(* "Closed threads do not wake" (architecture.md:365): a closed thread      *)
(* changes only by a person.  One whose quota is used up breaks this.       *)
ClosedStaysClosed ==
  [][\A t \in Threads : thread[t] = "closed" /\ thread'[t] # "closed" => LoopFree]_vars

\* A closed thread stays closed or is put to sleep because its quota is used up; a
\* sleeping one is woken by a stimulus of a kind that may wake threads, and only
\* while its quota is not used up.
WakesByRule(t) ==
  /\ thread[t] = "closed" =>
       \/ thread'[t] = "closed"
       \/ thread'[t] = "dormant" /\ Dormancy /\ ThreadSlots(t) = 0
  /\ thread[t] = "dormant" /\ thread'[t] = "active" =>
       /\ Dormancy => ThreadSlots(t) > 0
       /\ \E k \in Tasks :
            /\ task[k].pc = "prepare" /\ stim[Stim(k)].thread = t
            /\ Dormancy => stim[Stim(k)].kind \in WakeKinds

(* What the tasks may do to closed and sleeping threads ("Ordinary agent    *)
(* cascades cannot silently wake dormant threads", architecture.md): they   *)
(* follow the rule above whatever the sequence of posts, quotas and claims; *)
(* so no sequence of their steps makes a closed thread active, for the      *)
(* quota that put it to sleep stays used up, only a person does             *)
(* (_prepare_stimulus, _complete_claim, _idle_maintenance).                 *)
ThreadsWakeByRule ==
  [][LoopFree \/ \A t \in Threads : WakesByRule(t)]_vars

(* "The clock advances once after a completed stimulus"                     *)
(* (architecture.md:346): whenever no task is in a step, every completed    *)
(* stimulus has moved the clock.  A crash breaks this.                      *)
ClockCountsCompletions ==
  VirtualTime /\ LockFree =>
    \A s \in Stimuli : stim[s].state = "completed" => s \in ticked

(* The clock counts completed stimuli only, and each crash and each fault   *)
(* costs it one tick at most: whatever is interrupted, the rest is counted  *)
(* when no task is in a step (_advance_virtual_time).                       *)
ClockLosesFewTicks ==
  LET completed == {s \in Stimuli : stim[s].state = "completed"}
  IN  /\ ticked \subseteq completed
      /\ VirtualTime /\ LockFree =>
           Cardinality(completed \ ticked) <= faults + crashes

-----------------------------------------------------------------------------
(* What a run promises *)

StageOf(row) ==
  CASE row.state = "none" -> "new"
    [] row.state \in Open  -> "open"
    [] OTHER -> "done"

Lifecycle == INSTANCE RunLifecycle WITH
  Items <- Stimuli, Writers <- Agents, state <- runState,
  stage <- [s \in Stimuli |-> StageOf(stim[s])],
  answers <- {<<p[1], p[2]>> : p \in posts}

(* A stimulus is queued once, is answered by an agent at most once and only *)
(* while it is open, whether its lease is held or lost, is never taken up   *)
(* again when it is over, and the end of the run ends all of them: the      *)
(* tasks, leases, recoveries and crashes of Delivery implement the abstract *)
(* run of RunLifecycle.                                                     *)
KeepsLifecycle == Lifecycle!LifeSpec

-----------------------------------------------------------------------------
(* Liveness *)

(* The tasks are scheduled: the loop runs what is ready, the gateway has a  *)
(* timeout, and asyncio.Lock serves its waiters in order, so that neither   *)
(* task is passed over for ever (hence SF of Begin).  The clock moves       *)
(* whatever the tasks do, but the model lets not_before pass only where a   *)
(* task is suspended (hence SF of TimePasses).                              *)
Fairness ==
  /\ \A k \in Tasks : SF_vars(Begin(k)) /\ WF_vars(TaskStep(k))
  /\ WF_vars(WorkerAction) /\ SF_vars(TimePasses)

FairSpec == Spec /\ Fairness

(* In a run that goes on RUNNING every queued stimulus is taken out of the  *)
(* queue for good: retries, fallbacks, pauses and crashes starve nobody.    *)
EveryStimulusEnds ==
  \A s \in Stimuli :
    stim[s].state \in Open /\ runState = "running"
      ~> stim[s].state \notin Open \/ runState # "running"

(* A step request is answered.                                              *)
StepsAnswer == task["stepper"].pc # "off" ~> task["stepper"].pc = "off"
=============================================================================
