# Verification of swarmboard

Swarmboard is a discussion board on which people and model-backed agents post.
One FastAPI process with one asyncio event loop serves it over one SQLite
database. What can go wrong is the delivery of work: a *stimulus* (a person's
post, a mention, an idle revisit, ...) is leased from a durable queue, *turns*
are given to agents, a model is called, and its answer is committed as a post,
while people pause, stop, step and close, and while the process dies and comes
back. Around that core stand an event stream for browsers, a ledger of human
interventions, research operations that fork and repeat conversations, a fixed
rotation of speakers, and login sessions. This directory models delivery and
these five in TLA+, checks them with TLC, and proves every safety property the
runs check with TLAPS. Source paths below are relative to `src/swarmboard/`.

## Inventory

| Part | State it keeps | Operations | What is hard | What makes it correct |
| --- | --- | --- | --- | --- |
| Engine (`engine.py`) | worker tasks, run locks, wake events (in memory); the rest in the database | `start` `pause` `resume` `stop` `emergency_stop` `step` `notify` `recover` `shutdown`; `_step_locked`, `_prepare_stimulus`, `_execute_turn`, `_commit_action`, `_complete_claim`, `_yield_claim`, `_requeue_turn_after_exception`, `_idle_maintenance`, `_handle_runner_failure` | two tasks on one run, model calls during which anything may happen, a crash between any two transactions | one post per opportunity; nothing after the end; leases come back; limits; everything queued is eventually taken |
| Repository (`repository.py`, `models.py`) | runs, threads, posts, stimuli, turns, events | one transaction per call: claim, release, complete, finish, recover, cleanup, posts, threads | leases, attempts, delivery keys | fences; cleanup is complete |
| Stimulus planning (`stimuli.py`), scheduler (`scheduler.py`), action policy (`policies.py`), run policy and autonomous mode (`run_policy.py`, `autonomy.py`) | none | who is asked, in which order; what is allowed | a choice made before a call and used after it | limits hold at commit |
| Sessions (`sessions.py`) | run configuration | create, restart, prepare | an autonomous session without participants or threads must end | it ends in the claim transaction |
| Requests (`app.py`) | none | posts, thread status, wake, agents, run control | they run whenever a task is suspended | idempotent wakes; closed stays closed |
| Fixed cadence (`cadence.py`) | `cadence_index` in the run's configuration | `ensure_slot`, `complete_slot` | slots completed by recovery as well | peer and Ada alternate |
| Event stream (`event_stream.py`, `event_stream` in `app.py`) | bounded queues of hints | publish, subscribe, cursor pages | hints are dropped | each durable event once, in order |
| Research (`research.py`, `harness.py`) | forks, resampled and forced turns | fork, force, resample | repeated requests, forks of forks, crash between commit and start | budgets and aliases add up; a sample starts where its turn did; an answered fork runs |
| Ledgers (`interventions.py`, `findings.py`) | events keyed by (author, key) | record | retries with the same or with another request, views of the past | one effect per key; history is stable |
| Authentication (`auth.py`, `auth_sessions.py`) | sessions, throttle | login, inspect, activity, logout, cleanup | idle and absolute expiry, 20 sessions at most | no renewal past the limit |
| Database start (`database.py`, `migration.py`) | schema, triggers | create, migrate | order of steps | append-only events |
| Gateways, personas, exports, browser, deployment | none that the others share | I/O and text | - | not modelled |

The parts interact in three ways: by rows (everything durable), by
`notify`/wake events (hints, a lost one only delays), and by the run lock, which
the worker and a step request take for the length of one step.

`PROJECT.json` lists every component with its status, each hazard at its line,
and for each definition the lines it models.

## Modules

| Module | What it is |
| --- | --- |
| `Delivery` | one run: its state, its thread(s), its queue and its turns; the worker task and the step task as control states; requests, time, faults and restarts |
| `RunLifecycle` | what a run promises, without tasks, leases, turns and crashes (abstract) |
| `DeliveryProperties` | the type invariant, safety and action properties, fairness and liveness, the mapping to `RunLifecycle` |
| `DeliveryProofs` | theorems about types, about the end of a run, and about posts and attempts under redelivery |
| `LeaseProofs` | theorems about leases: completed stimuli, fallbacks, leases that are given up; extends `DeliveryProofs` |
| `LimitProofs` | theorems about limits, revisits, clock, fence, manual control and the threads that tasks may wake, and the refinement of `RunLifecycle`; extends `LeaseProofs` |
| `Cadence` | the rotation of a session in the fixed cadence: slots, skips, quiet cycles |
| `CadenceProofs` | theorems about it |
| `OrderedDelivery` | what a reader of the event log is promised (abstract) |
| `EventStream` | log, hints, generator and browser of one event stream; implements `OrderedDelivery` |
| `StreamProofs` | theorems about it, the refinement among them |
| `Ledger` | findings and interventions with their keys and views |
| `LedgerProofs` | theorems about it |
| `LoginThrottle` | attempt windows by address |
| `AuthSessions` | login sessions; extends `LoginThrottle`, whose `Allow` is part of a login |
| `AuthProofs` | theorems about it |
| `Research` | runs, threads and turns under fork, resample and forced turns |
| `ResearchProofs` | theorems about it |
| `MCDelivery`, `MCCadence`, `MCEventStream`, `MCLedger`, `MCAuthSessions`, `MCResearch` | model values, sets and symmetries for TLC |

The models meet at the rows they share. `Cadence` and `Research` take from
`Delivery` what it establishes (one step of a run at a time under the run lock,
one post per turn, recovery that returns or fails a lease) and work at a coarser
grain; `EventStream` and `Ledger` see of the others only that they append to the
log; `EventStream` asks `AuthSessions` whether a session is valid, which it
models as a change that may come at any time, in both directions, although
`RefusalsStay` shows that a refused token does not come back (its owner may log
in again and reconnect).

### Delivery: state and code

| Variable | Code |
| --- | --- |
| `runState`, `rounds`, `expired`, `unavailable` | `Run.state`, `rounds_used`, whether the token or duration budget is used up, `config["unavailable_agent_ids"]` |
| `thread`, `last`, `keys` | `Thread.status`, the author of its latest post, the dedupe keys (`idle:{sequence}`, wake reasons) used at its current sequence |
| `posts`, `humanPosts` | agents' posts by delivery key (stimulus and agent), and the number of posts of people |
| `stim`, `turn` | the rows of `stimuli` and `turns`, with `claim_token` and `attempts` |
| `task` | per task: where `_step_locked`/`_execute_turn` stands, and its locals (stimulus, token, the turns to do, the token the call captured, attempt, result) |
| `ticked`, `freeRun` | the clock events of the event log; who lets the worker go on: a person (the last control was a start or resume), nobody, or a step that was cut short before its pause (history) |
| `faults`, `crashes` | how many of the permitted ones happened |

### Delivery: grain

Each `with session.begin()` block is one action, and so is each decision
between two blocks that a task takes on its own. The program is one event
loop: between two transactions of a task nothing else runs unless the task
really awaits something that takes time. `Suspended` names those points (the
run lock, the model call, the retry sleep, the worker's wait); what people and
other tasks do requires `LoopFree`. Publishing events to the broker yields to
the loop at most for the broker's own lock and is not a suspension point. A
crash is possible anywhere (`Restart`), and a transaction may raise anywhere
(`Fault`), after which the task goes where the code's `except` clauses send it
(`Raises`).

A step of the worker goes

    top -> claim -> prepare -> turn -> call -> await -> [record ->] finish -> turn
                                                  ... -> complete -> advance -> settle -> budget -> top

with `requeue`, `release`, `yield`, `abort` for its handlers, `rest` for
`_idle_maintenance`, `fail` and `pausing` for `_handle_runner_failure`. A step
request takes the same path with `once` set when it found the run not running.

### Delivery: abstractions

- The scheduler's weights and its checks on text are left open: any subset of
  the eligible agents within the limit may be chosen, and a commit may be
  rejected at any time. What follows from states that the model keeps
  (permission, closed and dormant threads, quota, consecutive posts) is exact.
- Tokens and time: budget expiry, the passing of `not_before` and the expiry of a
  lease may happen at any point. Under the run lock every lease `Begin` finds
  is one that a crash or a failure left behind.
- `Autonomous` is an autonomous research run with free cadence; otherwise
  nobody answers himself (a consecutive cap of 1).
- A post gives rise to at most one stimulus, idle maintenance to at most one
  revisit per pass, and there is one step request at a time.
- Wake events are not modelled: the worker polls, so a lost one delays it.
- Recovery cleans up ended runs once more before it looks at leases (for records
  of older versions); `EndedRunIsQuiet` shows that there is nothing to clean.
- A terminal turn keeps its `claim_token` in the database; nothing reads it
  there, and the model clears it.

### Cadence

| Variable | Code |
| --- | --- |
| `run`, `index`, `active`, `quiet` | `run.state` and `cadence_index`, `cadence_cycle_active`, `cadence_quiet` of `run.config` |
| `stim`, `turn` | the stimulus of each slot by its dedupe key (`cadence:{run}:slot:{n}`, one attempt) and of one forced turn, and their turns |
| `thread`, `recent`, `place` | threads, the order of their latest posts, the thread of the latest answer to a slot |
| `disabled`, `unavailable` | who may not speak, and `config["unavailable_agent_ids"]` |
| `task`, `over` | the step in progress; whether a budget is used up |
| `touched` | history: where the cursor was when people last contributed |

`Claim` is the claim transaction with `prepare_session`, in which `Ensured`
is `ensure_slot` with its loop; `Complete` is `_complete_claim` with
`complete_slot`; `Input` is `on_input`, reached from posts and wake-ups;
`Restart` is a crash with `recover()`. What an answer does is one action (the
transactions in between are `Delivery`'s subject). The prompt's context is text
and left out. A run that is paused and one that is running differ only in who
asks for the next step, so both are "live".

### Event stream

| Variable | Code |
| --- | --- |
| `last`, `owed` | the highest `Event.id`; where the commits begin whose `publish_since` is still to come |
| `hints`, `pc`, `cursor`, `page`, `full` | the subscriber's queue and the generator of `GET /api/events` with its locals |
| `wire`, `received` | what is sent and not received, and what the browser's `EventSource` has received |
| `authorized` | what `auth_session_valid` answers |

Numbers stand for events: `OrderedDelivery` has a counter and a sequence, and
`DeliversInOrder` maps `last` and `received` to them. SQLite gives numbers in the
order of commits, since only one transaction writes at a time; readers therefore
never see a gap that fills later.

### Ledgers

`log` is the event log restricted to one session and one participant; an entry
names its type, author, key, request and the entry it is about. A request's
fingerprint is the request itself. A finding carries its key
(`findings._record`); an intervention is followed by a `research.intervention`
record that carries key and result (`interventions._record`). `Apply` is one of
the write operations in one transaction, `Repeat` the answer from the log,
everything else is refused and rolled back. `Inactive(e)` and
`ActiveInstructions(e)` are the views with `at_event_id`.

### Login

`row` is the table `auth_sessions` by token, a token being the number of its
login; `credential` is what the environment says, read anew by every call.
`Inspect` is what the middleware (and each event of a stream) does, `Activity`
the only renewal, `Cleanup` the deletion at process start, which `Issue` does as
well. `born`, `refused`, `granted` and `dropped` are history. Several sessions
issued within one tick are ordered by their hashes in the code and in any order
in `Newest`. The process keeps the throttle in memory; a restart, which empties
it, is not modelled.

### Research

`run[r]` holds what a fork reads and writes (state, whether a safety block ended
it, its parent, remaining limits and grants, aliases); a post is named by run
and place and knows what it was copied from; a turn holds the posts its context
names (`context_post_ids`) and the post it made. `ForkThread` is the route's
transaction, `CheckFork`/`StartFork` its second part with the start, and
`LoseRequest` the loss of the connection or the process in between, after which
a client may send the request again. `Resample` forks all children and forces
their turns in its one transaction. Not in the model: rosters, policies and
limit overrides in a request, closed threads, several threads per run,
`max_cascade_depth`, pauses, rerun. `max_posts` stands for the four limits that
are inherited in the same way.

## Runs

Names of the limits are the constants of the module. Common values of the runs
of `MCDelivery`: two agents, one thread, two stimuli, two attempts per stimulus,
one agent per stimulus; a run says where it departs from them.

| Run | Question | Checked | Bounds |
| --- | --- | --- | --- |
| Core | Is delivery effectively once, fenced, counted, over at the end, and under manual control? | `TerminalRunIsQuiet` `DeliveredOnce` `PendingHasAttempts` `CompletedIsSettled` `FrozenAfterEnd` `PostsAreFenced` `PausedWorkerWaits` | two agents at once, one retry, two crashes, a fault of the worker or of the step; start, pause, resume, stop, step |
| Board | Do cascades and closures keep the tables sound, and who wakes a thread? | `TypeOK` `ThreadsWakeByRule` | two threads, four stimuli, depth 1, three posts, thread quota 2, dormancy, one closer, people set any status |
| Autonomous | Fallbacks and clock of an autonomous run | `ClockLosesFewTicks` `OneChancePerInput` | five stimuli, three rounds, mentions at depth 1, agents disabled and reconfigured, budget expiry, cooldowns, one crash |
| Limits | Do limits survive deferral, and does the board fall silent? | `LimitsKept` `RevisitsFollowPosts` | four stimuli, two rounds, three posts, thread quota 1, one retry, one post of a person, wake-ups, dormancy |
| Live | Is everything queued taken, every step answered, no lease lost, and the abstract run implemented? | `NoStrandedLease` `EveryStimulusEnds` `StepsAnswer` `KeepsLifecycle` | one fault of the worker, one crash |
| Cadence | Does the rotation keep its order and go on? | `TypeOK` `OneSpeaker` `NobodyPassedOver` `QuietAfterSilentCycle` `RotationGoesOn` | two peers, one thread, five slots, two outside events (with two threads and one outside event all five hold as well) |
| Stream | Does the browser get every event once, in order, and does the connection end with the session? | `Consecutive` `DeliversInOrder` `EndedSessionIsClosed` `CatchesUp` | five events, batches of 0, 1, 2, a queue of one hint, pages of two, three losses |
| Ledger | Do keys make operations idempotent, and is history stable? | `LedgerTypeOK` `OneEffectPerKey` `SettledOnce` `ConfiguredByLog` `HistoryIsStable` | two operators, two keys, a log of five entries, twelve requests |
| Access | Do sessions end when they must, and does the throttle hold? | `AuthTypeOK` `EndsInTime` `RefusedForGood` `FewSessions` `ThrottleHolds` | one user, three logins, two kept, idle 2, absolute 3, four ticks, two credentials and two changes; two addresses, one bucket, two attempts per two ticks |
| Research | Do forks and samples add up? | `LineageKeepsQuota` `AliasesResolve` `SampledAtTheMoment` `AnsweredForkHasStarted` | two agents, three runs, two turns, two forced stimuli, one key, one connection, one outside event |
| QuotaRecheck, Resample | see *Disagreements with the documentation* | `AgentQuotaKept`; `ReusedPromptIsInherited` | six stimuli, one post per agent; as Research, without outside events |

`KeepsLifecycle` says that `Delivery` implements `RunLifecycle`: a stimulus is mapped to
its stage (new, open, over), and the posts to the pairs of stimulus and author. It
stands in `Live`, where a failing worker may recover the very stimulus a step is
working on; with the values of `Core` and of `Board` it holds as well.

Why the bounds are enough for what they show: a second delivery of a stimulus
needs a crash or a fault, and an exhausted one needs two, which are the counts
allowed; races between the two tasks need two turns of one stimulus (one in
flight, one to come), which `SelectMax = 2` provides; a chain of fallbacks needs
as many stimuli as agents plus one. `MaxStimuli` is large enough that no step
blocks for lack of a row (TLC would report a deadlock), except in `Limits` and
`Board`, whose cfgs switch the check off because wake-ups and the board's own
revisits may use up the pool. A quota of two in `Board` is used up by two posts,
after which a thread that was closed meanwhile still has a stimulus queued; the crash
of `Autonomous` falls between a completion and its tick as well. Five slots are a
whole cycle of two peers and the first slot of the next, the shortest rotation
in which a wrap, a skipped pair and a second turn of a peer occur; a slot that
recovery closes and a quiet cycle that an input ends need one and two outside
events. A queue of one hint overflows with the second, a page of two is followed
by a partial one, and three losses allow a lost hint, a crash and a reconnection
in one behaviour. Three runs are the shortest lineage with a grandchild, where
inherited grants and aliases first accumulate. A throttle of two attempts per two
ticks slides over two windows within the four ticks. The deadlock check is off
in the five new models because each of them may use up its bounded resource (slots,
events, log entries, clock, turns).

`Spec` of `Delivery` allows the run to rest for ever in a terminal state only
because people and time may still act; runs with an ended run do not deadlock
since requests that look at it and answer remain possible.

### Fairness

`Live` uses `FairSpec`. Weak fairness of a task's steps: the event loop runs
what is ready, and the gateway has a timeout. Strong fairness of `Begin`: the
run lock is an `asyncio.Lock`, which serves its waiters in order, so neither
task is passed over for ever. Strong fairness of `TimePasses`: the clock moves
whatever the tasks do; the model lets a `not_before` pass only where the loop is
free. People's requests, faults and crashes are not assumed to happen.

`Cadence` uses weak fairness of the step as a whole: a live session is run by
its worker, or stepped again by somebody, and a model call has a timeout; which
answer comes is not fair, so `RotationGoesOn` holds even if nobody ever
contributes. A paused session that nobody steps is outside its claim.
`EventStream` assumes weak fairness of the generator and of the browser's
dispatch, and nothing of writers, hints, losses and the session: `CatchesUp`
promises only that what is in the log when the losses are over is received by a
client whose session lasts; the 15 seconds' keep-alive is what makes it true
without any hint.

### Disagreements with the documentation

Two runs end in a violation of a statement of the repository.

| Run | Statement | What happens |
| --- | --- | --- |
| QuotaRecheck | "Run limits and mutable action policy are checked again at commit time" (`architecture.md:315`, `:327`) | A turn selected before its agent used up `per_agent_quota` is deferred by a pause; when it is resumed nothing looks at the quota again |
| Resample | "Resampling forks the source thread at the captured history boundary" (`architecture.md:593`, `:596`) | A turn that reused a prompt keeps the context ids of the first run; if it made no post, a resample of it finds no cutoff and its branch starts empty, although the forced turn shows the old prompt |

### Observations

Four more statements do not hold as they are written. `DeliveryProperties` defines
each of them; put in its run's cfg in the place of the property named beside it,
with all constants as they are, TLC finds it violated within seconds. The passing
run checks what the code does keep: the same crashes, faults and dormancy happen
in it, and the property names the one case that is excepted.

| Run | Statement | What happens | Checked instead |
| --- | --- | --- | --- |
| Core | `CommitUnderLease`: a result "may commit only while the turn is `CALLING` and still owns the expected token", the "delivery fence shared by a stimulus lease and its active turns" (`architecture.md:205`) | A failing worker recovers the live lease of a step without the run lock (`engine.py:731`) and reopens its turns with a NULL token; the step's next turn captures that NULL (`engine.py:1374`) and posts | `PostsAreFenced`: a post is written under the lease, except by a step whose turn a failing worker had reopened before the call, and only through the empty token |
| Core | `WorkerClaimsWhenReleased`: "Execute at most one durable stimulus, even while manually paused" (`engine.py:262`) | A step sets the run RUNNING (`engine.py:817`) and keeps in a local that it must pause it again; after a crash within it the restart starts the worker, which claims what is queued | `PausedWorkerWaits`: the worker waits for a person, unless a step was interrupted between its claim and its pause |
| Autonomous | `ClockCountsCompletions`: "The clock advances once after a completed stimulus" (`architecture.md:346`) | Completion and clock are two transactions (`engine.py:930`); a crash between them loses the tick for good | `ClockLosesFewTicks`: a crash or a fault costs one tick at most, and the clock never counts what is not completed |
| Board | `ClosedStaysClosed`: "Closed threads do not wake" (`architecture.md:365`) | Preparing a stimulus of a thread whose quota is used up sets it DORMANT whatever its status (`engine.py:1057`); a closed one then takes the posts and wake-ups of people again, which are refused in a closed thread | `ThreadsWakeByRule`: no task makes a closed thread active; it can be put to sleep when its quota is used up, and then no task wakes it either |

`NoStrandedLease` is restricted to a single fault of the worker, since a step
request that fails outside its handlers, or a second fault during recovery,
leaves its lease until the lease expires: that is what the expiry is for.

## Theorems

The theorems hold for every value of the constants that the modules'
assumptions permit: for `Delivery` any sets of agents and threads and any numbers
of stimuli, attempts, faults and crashes; for the others any sets of operators,
keys, users and tokens, any sizes of queues and pages and any times.

### Delivery

`DeliveryProofs` proves

- `TypeCorrect`: `Spec => []TypeOK`
- `EndedRunIsQuiet`: `Spec => []TerminalRunIsQuiet`
- `EndedRunIsFrozen`: `Spec => FrozenAfterEnd`
- `OpportunitiesPostOnce`: `Spec => []DeliveredOnce`
- `QueuedHasAttempts`: `Spec => []PendingHasAttempts`

`LeaseProofs`

- `CompletedStimuliAreSettled`: `Spec => []CompletedIsSettled`
- `InputsAskOnce`: `Spec => []OneChancePerInput`
- `LeasesAreHeld`: `Spec => []NoStrandedLease`

and `LimitProofs`

- `PostsUnderLease`: `Spec => PostsAreFenced`
- `RunKeepsLifecycle`: `Spec => KeepsLifecycle` (the refinement)
- `RunsKeepLimits`: `Spec => []LimitsKept`
- `BoardFallsSilent`: `Spec => []RevisitsFollowPosts`
- `ClockKeepsUp`: `Spec => []ClockLosesFewTicks`
- `WorkerWaitsForPeople`: `Spec => PausedWorkerWaits`
- `ThreadsWakeOnlyByRule`: `Spec => ThreadsWakeByRule`

None of them restricts the constants: they hold for any numbers of crashes and
faults of both tasks, with dormancy and without. Only `NoStrandedLease` carries a
restriction, in its statement (one fault, of the worker).

Types: `TypeInv` is `TypeOK` with `AgentNamed` (a task in a turn has an agent);
every other proof rests on it.

The end of a run needs two facts besides `TerminalRunIsQuiet` (`QuietInv`).

1. `OneAtATime`: at most one task is between two suspension points (the event
   loop). Without it a second task could be just before a write when the first
   one ends the run.
2. `ClaimsLive`: a task that is about to claim or to prepare does so in a run
   that has not ended. The check of the run's state at the start of
   `_step_locked` establishes it, and the event loop preserves it: between that
   check and the claim nothing else runs, so `Stop` cannot come in between.

With them each ending re-establishes `TerminalRunIsQuiet` by the cleanup in its
own transaction (`EndRun`), and every other step keeps it because the fences
(`OwnsTurn`, `OwnsClaim`) are false for rows that are not open. For the same
reason no guard that leads to a write of the queue or of a post holds in an
ended run (`EndedRunIsFrozen`).

`DeliveredOnce` is strengthened to `PostsMatch`: a completed turn has a post, a
post belongs to a completed turn, and no turn has two. Every action but a commit
leaves the completed turns as they are (`SameAnswers`: recovery reopens, the end
of a run fails, only unfinished turns), and a commit writes for a turn that is
CALLING, which by `PostsMatch` has no post yet. This is also why the branch of
`create_post` for a known delivery key need not be modelled.

`PendingHasAttempts` is strengthened by `PrepareHolds`: a task that prepares a
stimulus still leases it. `_prepare_stimulus` writes PROCESSING, or gives an
attempt back, without looking at the lease again; only `OneAtATime` makes that
right.

**Completion.** `_complete_claim` writes COMPLETED without looking at the turns.
`LeaseInv` says why it may: only one task is inside `_step_locked`
(`OneInStep`, the run lock; `OneAtATime` says less, since a task that waits for
the model is suspended but keeps the lock), and as long as a task owns its lease
the unfinished turns of the stimulus are exactly those in its `todo` and the one
it is calling (`HoldsTurns`). At `complete` both are empty. Recovery by a failing
worker takes the lease away, and then nothing is claimed of the turns.

**Fallbacks.** `OneChancePerInput` speaks of two stimuli of one input; its inductive
form `ChainInv` speaks of the whole chain. Rows enter the table in order and a
chain goes forward (`TableInv`); every stimulus but the last is completed,
unanswered, and has left its agents in the `attempted` of all that follow
(`Handed`); nobody is selected who is in `attempted`. That a completed stimulus
cannot get a turn or an answer afterwards comes from `LeaseInv` and
`CompletedIsSettled`.

**Leases.** `LeasesHeld` names the places from which a task comes to give its lease
up (`Claimed`). It also needs `TurnToRequeue`: the turn that is handed to
`_requeue_turn_after_exception` is unfinished, without which the handler
returns early and leaves the lease. `FailCounts` says that a worker that fails
uses up the one fault.

**The fence.** `PostsAreFenced` follows from `Loose`: a task owns its lease, or takes
no turn of a run that goes on (`Idle`), or is a step whose unfinished turns a failing
worker has reopened (`Unfenced`). Nobody else takes the lease of a task inside a
step. In the third case the tokens of these turns are empty and stay so, since
only a claim of the stimulus, which the run lock keeps out, gives them new ones; so
a call that began before the recovery finds its token changed and writes nothing,
and one that begins after it carries the empty token.

**The lifecycle.** `RunKeepsLifecycle` covers the same failures: a post may miss its
lease (*Observations*), but never goes to a stimulus that is over. `OpenWork`
says so of the tasks: one that still takes a turn that is not finished does so for
an open stimulus. It is kept because what ends a stimulus (the end of the run, the
closing of its thread, a recovery without attempts left) ends its turns in the
same transaction, and because the task itself completes it only after its last turn.
`DeliveredOnce` gives that the answer is a new one. Every action is a step of
`RunLifecycle` or a stutter: `AnswerStep` for a commit with a post, `EndStep` for
whatever ends the run, `ControlStep` for starting and pausing, and `QueueStep` for
the rest, a crash among them, which delivers again but queues nothing twice.

**Limits.** Rounds are checked before a call and counted after the answer. `RoundLeft`
says that between the two a round is left, because nobody else counts one before
the turn is over. For posts, `PostsOK` counts those of each thread; the first
post of a thread that an agent opens is the one no quota counts (`ThreadsOpen`).

**Revisits.** `RevisitsOK` counts the key `idle:{sequence}` as a credit: revisits of
a thread, plus one if its key is unused, are never more than its posts plus one.

**The clock.** `ClockInv`: the completed stimuli without a tick are those of a set of
lost ones, which a fault or a crash extends by one at most, and the one whose task
stands between the two transactions. There is one such task at most, for it has the
run lock; hence what is lost is at most `faults + crashes`, and with the lock free
nothing else is missing.

**Manual control.** `Let`: a run that is RUNNING was let go by a person, or a step was
cut short, or an explicit step is under way and still carries the mark (`once`)
that makes it pause the run again (`StepOnce`). `ClaimRuns` adds that a worker about
to claim stands in a run that is RUNNING, and then no step is under way.

**Sleeping and closed threads.** Of the writers of a thread's status that the tasks
run, only the preparation of a stimulus makes one active, and it does so for a
dormant thread with quota left and a stimulus whose kind may wake it. What remains is an exhausted thread when no round
is left either, where the code does not put it to sleep: `RoundToPrepare` shows
that a stimulus is prepared only while a round is left.

### Cadence

`CadenceProofs` proves `CadenceTyped` (`[]TypeOK`), `OneSpeakerAtATime`
(`[]OneSpeaker`), `PeersAreNotPassedOver` (`NobodyPassedOver`) and
`SilenceEndsTheCycle` (`QuietAfterSilentCycle`), for any number of peers, threads,
slots and outside events.

`CadenceInv` says of the session a transaction works on that it is `Sound`:
attempts count deliveries, every thread has a post (so that there is a latest one
to speak in), what is queued stands in a thread that exists, no slot beyond the
cursor has had a stimulus, and what is open in a live session is at the cursor.
The task holds the lease of what it works on (`HoldsLease`); otherwise its end
would close a slot that recovery has queued again, and two speakers would be
open.

`ensure_slot` is a loop of at most as many rounds as the cycle has slots, and so is
`Ensured`, a recursive function. That a round keeps a relation to where the
transaction began (`Follows`: the cursor only grows, passes over nobody who is
available, and leaves what is queued alone) is lifted to all rounds by the
least number principle: the least number of rounds after which it fails would
be preceded by one after which it holds.

`SilenceEndsTheCycle` needs more (`RotationInv`): the mark `cadence_cycle_active`
says at every moment whether a slot of the cursor's cycle was posted in or people
contributed in it (`CycleOK`), a slot without a stimulus has had no turn, and a
session that is not live delivers nothing. One transaction may pass many slots.
That it judges each cycle it leaves, and no more than one, rests on `StopsAt`: if
some peer can be invited the loop does not come beyond the first slot of his,
and that is within one cycle of where it began.

### Event stream

`StreamProofs` proves `StreamIsConsecutive` (`[]Consecutive`) and `StreamDelivers`
(`DeliversInOrder`, the refinement). `Consecutive` is inductive as it stands: the numbers received are 1 to
`Len(received)`, those on the wire continue them, a connected stream's cursor is
their end, and a page ends within the log. `DeliversInOrder` follows because the
log only grows at its end and a dispatch appends the next number, which the
invariant shows to be in the log.

### Ledgers

`LedgerProofs` proves `LedgerTyped`, `KeysActOnce`, `NothingSettledTwice`,
`HistoryStays` and `ConfigurationFollowsLog`. `LedgerInv` adds `KeysAreCarried` to
the properties (a key stands only in an entry of the carrying types), without
which the lookup of `_prior` would not see every use of a key. History is
stable because an entry that comes later has a number above every cutoff
(`HistoryStays` rests on a lemma for each view). `ConfiguredByLog` counts the
configurations that changed the persona; its step lemma shows that an appended
configuration adds exactly its own change to that set.

### Login

`AuthProofs` proves `AuthTyped`, `SessionsEnd`, `RefusalsStay` and `SessionsAreFew`.
`AuthInv` adds `IssuedInOrder` (tokens are issued by number and rows exist only
for issued tokens) and `RefusedStay`: a refused token has no row, is revoked, or
is past its idle or absolute time, which only renewal could move and `Activity`
refuses to a session that is not valid. Noticing old credentials revokes the
row at once; this is the case that needs `Noticed`, since credentials may return.
`SessionsAreFew` counts what `Issue` leaves open: at most `Room` old sessions and
the new one. `ThrottleKeeps` proves `ThrottleHolds`, which looks at the whole
history of what was let through, from `ThrottleInv`: a bucket that was not dropped is the
end of that history, and what it has lost of it was too old and has stayed so. An
attempt that is let through finds fewer than `Limit` in the bucket, and therefore
the one `Limit` attempts before it is out of the bucket.

### Research

`ResearchProofs` proves `AnsweredForksStart` (`[]AnsweredForkHasStarted`),
`SamplesStartAtTheirTurn` (`[]SampledAtTheMoment`), `AliasesNameEveryOrigin`
(`[]AliasesResolve`) and `LineagesKeepTheirQuota` (`[]LineageKeepsQuota`), for any
number of runs, forks of forks and samples.

`ResearchInv` is a conjunction by subject: the types of the tables (`RowsOK`);
turns, forced turns and fork records name posts, turns and runs that exist, and an
answer is later than what its turn saw (`TurnsOK`, `ForcedOK`, `ForksOK`); a copy has
the place and the author of the post of the parent it is copied from (`CopiesOK`); a run
is calling one turn at most, and of an agent that has something left (`CallsOK`);
and `SamplesOK`, `AliasesOK` and `QuotaOK`, each of which relates a run only to its
parent. Every action is first shown to be a `Grows` step: existing runs
keep their origin and their limits, threads gain at most one post, by
somebody who may post, turns get at most one answer, and a new run is a fork of an
older one. That such a step keeps the conjuncts is then proved once, and not once
for each action.

The statements about whole lineages then follow from the invariant: a least run
for which one fails has a parent for which it holds, and `QuotaOK` (what the
parent showed and had left covers what the branch shows and has left) or
`AliasesOK` carries it over. `Lineage` and `Origins` are recursive functions; two lemmas
(`LineageStep`, `OriginsStep`) show that their equations have a solution.

### Only model-checked

Of the properties of the passing runs only the five about liveness:
`EveryStimulusEnds`, `StepsAnswer`, `RotationGoesOn`, `EndedSessionIsClosed` and
`CatchesUp`. They speak of
fairness, and neither fairness nor `ENABLED` is within the prover's reach. What is
recursive (the rounds of `ensure_slot`, lineages, origins) is proved without the
library's induction theorems, whose operator parameters the provers cannot
instantiate: the lemma `LeastOf` of both modules, that a set of naturals has a least member, takes
their place.

## Plan

1. The overlooked participant (`_invite_overlooked_participant`), which needs the
   histories of turns of a long run.
2. Research with rosters, several threads and pauses; rerun.

## Not modelled

Gateways and credentials (I/O), personas, contexts and exports (text), the
browser except its reconnection, deployment, migration of a legacy database.
Within the engine: the invitation of overlooked participants, replay and rerun.
`create_post`'s branch for a delivery key that already has a post is not part of
`Delivery`: `DeliveredOnce` shows that a turn which is being called has no post
yet.
