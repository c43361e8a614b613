------------------------------ MODULE Cadence ------------------------------
(***************************************************************************)
(* The fixed rotation of a session (cadence.py): a peer contributes, Ada   *)
(* answers, then the next peer.  The cursor cadence_index lives in the     *)
(* run's configuration; the stimulus of slot n has the dedupe key          *)
(* cadence:{run}:slot:{n} and one attempt.  The cursor moves when a slot's *)
(* claim is completed, or later, when ensure_slot finds the slot closed.   *)
(*                                                                         *)
(* Deliveries are taken from Delivery at a coarser grain: under the run    *)
(* lock there is one step at a time, and what an answer does is committed  *)
(* in the action that brings it (a crash in between loses the answer, like *)
(* a crash during the call).  A paused run takes none of the task's steps. *)
(***************************************************************************)
EXTENDS Integers, Sequences, FiniteSets

CONSTANTS
  NPeers,       \* peers in the selected order; Ada is participant 0
  Threads,      \* identities of the session's threads
  FirstThread,  \* the thread of the opening post
  Dormancy,     \* the run policy's "dormancy"
  MaxIndex,     \* bound: the slot at which the model stops looking for work
  MaxEvents     \* bound: what people, time and crashes do to the session

Ada          == 0
Participants == 0..NPeers
CycleSize    == 2 * NPeers

\* The loop of ensure_slot may skip this far beyond the bound.
Slots  == 0..(MaxIndex + CycleSize)
Forced == MaxIndex + CycleSize + 1
Items  == Slots \cup {Forced}

ASSUME CadenceAssumption ==
  /\ NPeers \in Nat \ {0} /\ FirstThread \in Threads
  /\ Dormancy \in BOOLEAN
  /\ {MaxIndex, MaxEvents} \subseteq Nat

VARIABLES
  run,         \* run.state; "live" stands for running, or paused and stepped
  index,       \* config["cadence_index"]
  active,      \* config["cadence_cycle_active"]
  quiet,       \* config["cadence_quiet"]
  thread,      \* thread.status, "absent" before it is created
  stim,        \* the stimuli: one per slot, and the forced one
  turn,        \* their turns
  place,       \* the thread of the latest post that answered a slot
  recent,      \* the threads, the one with the latest post first
  disabled,    \* participants switched off or not permitted to speak
  unavailable, \* config["unavailable_agent_ids"]
  over,        \* a budget of the run is used up
  task,        \* the step in progress: its place and its stimulus
  touched,     \* history: 1 + the cursor when people last contributed, or 0
  events       \* how many outside events there were

config  == <<run, index, active, quiet>>
board   == <<thread, recent, place>>
people  == <<disabled, unavailable>>
work    == <<stim, turn, task>>
vars == <<config, board, people, over, work, touched, events>>

-----------------------------------------------------------------------------
Open == {"pending", "leased"}

NoStimulus == [state |-> "none", thread |-> FirstThread, target |-> Ada, attempts |-> 0]

PeerOf(n)    == ((n \div 2) % NPeers) + 1
SpeakerOf(n) == IF n % 2 = 1 THEN Ada ELSE PeerOf(n)
MaxAttempts(i) == IF i = Forced THEN 2 ELSE 1

Available == Participants \ (disabled \cup unavailable)
Idle      == [pc |-> "idle", item |-> Forced]
LoopFree  == task.pc \in {"idle", "await"}

\* Of a stimulus that is closed only the state is read: the model drops the rest.
Closed(state) == [NoStimulus EXCEPT !.state = state]
Cancel(row)   == IF row.state \in Open THEN Closed("cancelled") ELSE row

\* Mutant of Exhausted: a slot has the two attempts of other stimuli.
TwoAttempts(i) == stim[i].attempts >= 2

Exhausted(i) == stim[i].attempts >= MaxAttempts(i)
TakenBack(i) == IF Exhausted(i) THEN Closed("failed")
                ELSE [stim[i] EXCEPT !.state = "pending"]

\* What a transaction of the cadence works on, and how it is written back.
Session == [run |-> run, index |-> index, active |-> active, quiet |-> quiet,
            thread |-> thread, recent |-> recent, stim |-> stim]

Install(c) ==
  /\ run' = c.run /\ index' = c.index /\ active' = c.active /\ quiet' = c.quiet
  /\ thread' = c.thread /\ recent' = c.recent
  /\ stim' = c.stim
  /\ turn' = IF c.run = "live" THEN turn
             ELSE [i \in Items |-> IF turn[i] = "open" THEN "silent" ELSE turn[i]]

\* set_run_state with a terminal state cancels the queue.
Ends(c, state) == [c EXCEPT !.run = state, !.stim = [i \in Items |-> Cancel(c.stim[i])]]

\* Mutant of CycleActive: a post is forgotten when the next slot is silent.
OnlyThisSlot(c, made) == made

CycleActive(c, made) == c.active \/ made

\* _advance: at the end of a cycle in which nobody contributed the session
\* falls quiet, and its threads go dormant.
Advanced(c, amount, made) ==
  LET wraps  == (c.index + amount) \div CycleSize > c.index \div CycleSize
      silent == wraps /\ ~CycleActive(c, made) /\ Dormancy
  IN  [c EXCEPT !.index  = @ + amount,
                !.active = ~wraps /\ CycleActive(c, made),
                !.quiet  = silent,
                !.thread = [t \in Threads |-> IF silent /\ @[t] = "active"
                                              THEN "dormant" ELSE @[t]]]

\* complete_slot: a slot moves the cursor once, and a forced turn never.
SlotCompleted(c, i) ==
  IF i # c.index \/ c.run # "live" THEN c
  ELSE Advanced(c, 1, turn[i] = "posted")

\* Mutant of Waiting: a stimulus in delivery does not count.
WaitingInQueue(c) == \E i \in Items : c.stim[i].state = "pending"

Waiting(c) == \E i \in Items : c.stim[i].state \in Open

Prior(c) == c.stim[c.index].state # "none"

\* Mutant of Skipped: the pair is skipped even when only Ada's reply is left.
SkipsAPair(c) == Advanced(c, 2, FALSE)

\* The unavailable peer's whole pair, or its pending Ada reply.
Skipped(c) == Advanced(c, IF c.index % 2 = 1 THEN 1 ELSE 2, FALSE)

OpenThreads(c) == {t \in Threads : c.thread[t] \notin {"absent", "closed"}}
Latest(c) == LET S == {n \in DOMAIN c.recent : c.recent[n] \in OpenThreads(c)}
             IN  c.recent[CHOOSE n \in S : \A m \in S : n <= m]

\* Ada answers in the thread of the peer's post while that thread is open.
Place(c) ==
  IF /\ c.index % 2 = 1 /\ turn[c.index - 1] = "posted"
     /\ c.thread[place] # "closed"
  THEN place ELSE Latest(c)

Queued(c) ==
  [c EXCEPT !.stim[c.index] = [state |-> "pending", thread |-> Place(c),
                               target |-> SpeakerOf(c.index), attempts |-> 0]]

Round(c) ==
  IF c.quiet \/ c.run # "live" \/ Waiting(c) THEN c
  ELSE IF Prior(c) THEN SlotCompleted(c, c.index)
  ELSE IF PeerOf(c.index) \notin Available THEN Skipped(c)
  ELSE IF OpenThreads(c) = {} THEN Ends(c, "completed")
  ELSE Queued(c)

\* Mutant of Ensured: a slot that recovery has closed stays where it is.
NeverLooksBack(c) ==
  IF c.run # "live" \/ c.quiet THEN {c}
  ELSE IF Ada \notin Available \/ Available = {Ada} THEN {Ends(c, "failed")}
  ELSE IF Waiting(c) \/ Prior(c) THEN {c}
  ELSE {Round(c)}

\* ensure_slot, with its loop: the outcome, as the only member of a set.
Ensured(c) ==
  IF c.run # "live" \/ c.quiet THEN {c}
  ELSE IF Ada \notin Available \/ Available = {Ada} THEN {Ends(c, "failed")}
  ELSE LET after[n \in 0..(CycleSize + 1)] ==
             IF n = 0 THEN {c} ELSE {Round(d) : d \in after[n - 1]}
       IN  after[CycleSize + 1]

\* prepare_session, in the transaction of the claim.
Prepared(c) ==
  IF over THEN {Ends(c, "completed")}
  ELSE IF Available = {} THEN {Ends(c, "failed")}
  ELSE IF OpenThreads(c) = {} THEN {Ends(c, "completed")}
  ELSE Ensured(c)

-----------------------------------------------------------------------------
Init ==
  /\ run = "live" /\ index = 0 /\ active = FALSE /\ quiet = FALSE
  /\ thread = [t \in Threads |-> IF t = FirstThread THEN "active" ELSE "absent"]
  /\ stim = [i \in Items |->
       IF i = 0 THEN [NoStimulus EXCEPT !.state = "pending", !.target = PeerOf(0)]
                ELSE NoStimulus]
  /\ turn = [i \in Items |-> "none"] /\ place = FirstThread
  /\ recent = <<FirstThread>>
  /\ disabled = {} /\ unavailable = {} /\ over = FALSE
  /\ task = Idle
  /\ touched = 0
  /\ events = 0

-----------------------------------------------------------------------------
(* One step *)

\* A forced turn has priority 1000000; otherwise there is the slot.
First(st) == LET S == {i \in Items : st[i].state = "pending"}
             IN  IF Forced \in S THEN {Forced} ELSE S

Leased(c, i) == [c EXCEPT !.stim[i].state = "leased", !.stim[i].attempts = @ + 1]

Goto(pc) == task' = [task EXCEPT !.pc = pc]

Claim ==
  /\ task.pc = "idle" /\ run = "live" /\ index < MaxIndex
  /\ \E c \in Prepared(Session) :
       \/ /\ c.run # "live" \/ First(c.stim) = {}
          /\ Install(c) /\ UNCHANGED task
       \/ /\ c.run = "live"
          /\ \E i \in First(c.stim) :
               /\ Install(Leased(c, i))
               /\ task' = [pc |-> "prepare", item |-> i]
  /\ UNCHANGED <<place, people, over, touched, events>>

Here == stim[task.item].thread

\* The turn of an earlier attempt is taken up again, or was finished by it.
PrepareAgain ==
  /\ task.pc = "prepare" /\ turn[task.item] # "none"
  /\ Goto(IF turn[task.item] = "open" THEN "turn" ELSE "complete")
  /\ UNCHANGED <<config, board, people, over, stim, turn, touched, events>>

\* A slot's kind, new evidence, wakes a dormant thread.
Woken == IF thread[Here] = "dormant" THEN [thread EXCEPT ![Here] = "active"] ELSE thread

PrepareSelect ==
  /\ task.pc = "prepare" /\ turn[task.item] = "none"
  /\ thread[Here] # "closed" /\ stim[task.item].target \in Available
  /\ thread' = Woken
  /\ turn' = [turn EXCEPT ![task.item] = "open"]
  /\ Goto("turn")
  /\ UNCHANGED <<config, recent, place, people, over, stim, touched, events>>

\* Nobody is selected: the thread is closed, the target's quota or the rounds
\* are used up, or the thread's quota is, in which case the thread goes dormant.
PrepareNone ==
  /\ task.pc = "prepare" /\ turn[task.item] = "none"
  /\ \/ thread' = Woken
     \/ Dormancy /\ thread' = [thread EXCEPT ![Here] = "dormant"]
  /\ Goto("complete")
  /\ UNCHANGED <<config, recent, place, people, over, stim, turn, touched, events>>

\* The worker finds the budget used up: the claim goes back to the queue.
Yield ==
  /\ task.pc = "turn" /\ over
  /\ stim' = [stim EXCEPT ![task.item].state = "pending", ![task.item].attempts = @ - 1]
  /\ task' = Idle
  /\ UNCHANGED <<config, board, people, over, turn, touched, events>>

Refused == over \/ stim[task.item].target \in disabled

Call ==
  /\ task.pc = "turn"
  /\ IF Refused THEN /\ turn' = [turn EXCEPT ![task.item] = "silent"]
                     /\ Goto("complete")
     ELSE UNCHANGED turn /\ Goto("await")
  /\ UNCHANGED <<config, board, people, over, stim, touched, events>>

Answering == task.pc = "await" /\ turn[task.item] = "open"

\* The thread of a new post comes first, the others keep their order.
Front(t) ==
  LET S == {n \in DOMAIN recent : recent[n] = t}
  IN  IF S = {} THEN <<t>> \o recent
      ELSE LET old == CHOOSE n \in S : TRUE
           IN  [n \in DOMAIN recent |-> IF n = 1 THEN t
                                        ELSE recent[IF n <= old THEN n - 1 ELSE n]]

\* A post in thread t ends the turn; a proposal to close it closes it, with the
\* other stimuli that wait in it.
Answer ==
  /\ Answering /\ stim[task.item].target \notin disabled
  /\ \E t \in Threads, closes \in BOOLEAN :
       /\ thread[t] \in {"absent", "active"} /\ (closes => thread[t] = "active")
       /\ thread' = [thread EXCEPT ![t] = IF closes THEN "closed" ELSE "active"]
       /\ turn' = [turn EXCEPT ![task.item] = "posted"]
       /\ stim' = [i \in Items |-> IF closes /\ i # task.item /\ stim[i].thread = t
                                   THEN Cancel(stim[i]) ELSE stim[i]]
       /\ recent' = Front(t)
       /\ place' = IF task.item = Forced THEN place ELSE t
  /\ Goto("complete")
  /\ UNCHANGED <<config, people, over, touched, events>>

\* create_post refuses a dormant thread by an exception: the attempt is lost.
AnswerRaises ==
  /\ Answering /\ \E t \in Threads : thread[t] = "dormant"
  /\ LET i == task.item
     IN  /\ stim' = [stim EXCEPT ![i] = TakenBack(i)]
         /\ turn' = [turn EXCEPT ![i] = IF Exhausted(i) THEN "silent" ELSE "open"]
  /\ task' = Idle
  /\ UNCHANGED <<config, board, people, over, touched, events>>

\* A pass, a rejected answer, or a provider that fails: the participant is then
\* left out until somebody reconfigures it.
NoAnswer ==
  /\ Answering
  /\ turn' = [turn EXCEPT ![task.item] = "silent"]
  /\ \/ UNCHANGED unavailable
     \/ unavailable' = unavailable \cup {stim[task.item].target}
  /\ Goto("complete")
  /\ UNCHANGED <<config, board, disabled, over, stim, touched, events>>

\* A provider's safety block ends the run.
Blocked ==
  /\ Answering
  /\ Install(Ends(Session, "failed"))
  /\ Goto("complete")
  /\ UNCHANGED <<place, people, over, touched, events>>

\* The answer comes to a run that was stopped.
Late ==
  /\ task.pc = "await" /\ ~Answering
  /\ Goto("complete")
  /\ UNCHANGED <<config, board, people, over, stim, turn, touched, events>>

\* _complete_claim: the slot is completed in the transaction of the claim.
Complete ==
  /\ task.pc = "complete"
  /\ IF stim[task.item].state = "leased"
     THEN Install([SlotCompleted(Session, task.item)
                     EXCEPT !.stim[task.item] = Closed("completed")])
     ELSE UNCHANGED <<config, thread, recent, stim, turn>>
  /\ Goto("settle")
  /\ UNCHANGED <<place, people, over, touched, events>>

\* _finish_run_if_budget_exhausted
Settle ==
  /\ task.pc = "settle"
  /\ Install(IF over /\ run = "live" THEN Ends(Session, "completed") ELSE Session)
  /\ task' = Idle
  /\ UNCHANGED <<place, people, over, touched, events>>

-----------------------------------------------------------------------------
(* People, time and the process *)

Event   == run = "live" /\ events < MaxEvents /\ events' = events + 1
Request == LoopFree /\ Event

\* on_input: after a post (whose thread is now the latest) or a wake request.
Input ==
  /\ Request /\ index < MaxIndex
  /\ \E t \in Threads, written \in BOOLEAN :
       /\ thread[t] \in {"active", "dormant"}
       /\ \E c \in Ensured([Session EXCEPT !.thread[t] = "active",
                                !.quiet = FALSE, !.active = TRUE,
                                !.recent = IF written THEN Front(t) ELSE @]) :
            Install(c)
  /\ touched' = index + 1
  /\ UNCHANGED <<place, people, over, task>>

\* force_turn: an opportunity outside the rotation.
ForceTurn ==
  /\ Request
  /\ stim[Forced].state = "none"
  /\ \E a \in Available, t \in OpenThreads(Session) :
       stim' = [stim EXCEPT ![Forced] =
                  [state |-> "pending", thread |-> t, target |-> a, attempts |-> 0]]
  /\ UNCHANGED <<config, board, people, over, turn, task, touched>>

HumanSetStatus ==
  /\ Request
  /\ \E t \in Threads, status \in {"active", "dormant", "closed"} :
       /\ thread[t] # "absent"
       /\ thread' = [thread EXCEPT ![t] = status]
  /\ UNCHANGED <<config, recent, place, people, over, work, touched>>

\* An agent is switched off or on, or configured anew.
SetParticipant ==
  /\ Request
  /\ \E a \in Participants :
       \/ disabled' = (disabled \cup {a}) \ (disabled \cap {a}) /\ UNCHANGED unavailable
       \/ unavailable' = unavailable \ {a} /\ UNCHANGED disabled
  /\ UNCHANGED <<config, board, over, work, touched>>

Stop ==
  /\ Request
  /\ Install(Ends(Session, "stopped"))
  /\ UNCHANGED <<place, people, over, task, touched>>

BudgetExpires ==
  /\ Event /\ ~over /\ over' = TRUE
  /\ UNCHANGED <<config, board, people, work, touched>>

\* The process dies and recover() takes back the lease: the only attempt of a
\* slot is used, a forced turn has a second one.
Restart ==
  /\ Event
  /\ LET leased(i) == stim[i].state = "leased"
     IN  /\ stim' = [i \in Items |-> IF leased(i) THEN TakenBack(i) ELSE stim[i]]
         /\ turn' = [i \in Items |->
              IF leased(i) /\ Exhausted(i) /\ turn[i] = "open" THEN "silent"
              ELSE turn[i]]
  /\ task' = Idle
  /\ UNCHANGED <<config, board, people, over, touched>>

Step == \/ Claim \/ PrepareAgain \/ PrepareSelect \/ PrepareNone \/ Yield \/ Call
        \/ Answer \/ AnswerRaises \/ NoAnswer \/ Blocked \/ Late \/ Complete \/ Settle

Next == \/ Step
        \/ Input \/ ForceTurn \/ HumanSetStatus \/ SetParticipant \/ Stop
        \/ BudgetExpires \/ Restart

Spec == Init /\ [][Next]_vars

\* A live session that is running or stepped goes on; a model call has a timeout.
FairSpec == Spec /\ WF_vars(Step)

-----------------------------------------------------------------------------
(* Properties *)

(* The variables have the types of the rows and of the run's configuration, *)
(* and no stimulus has more attempts than max_attempts (a slot has one).    *)
TypeOK ==
  /\ run \in {"live", "stopped", "completed", "failed"}
  /\ index \in Nat /\ {active, quiet, over} \subseteq BOOLEAN
  /\ thread \in [Threads -> {"absent", "active", "dormant", "closed"}]
  /\ stim \in [Items -> [state : Open \cup {"none", "completed", "failed", "cancelled"},
                         thread : Threads, target : Participants, attempts : 0..2]]
  /\ \A i \in Items : stim[i].attempts <= MaxAttempts(i)
  /\ turn \in [Items -> {"none", "open", "posted", "silent"}]
  /\ recent \in Seq(Threads)
  /\ disabled \cup unavailable \subseteq Participants
  /\ task \in [pc : {"idle", "prepare", "turn", "await", "complete", "settle"},
              item : Items]
  /\ {touched, events} \subseteq Nat

(* "Queue at most one speaker": in a live session the only slot that can be *)
(* queued or delivered is the one at the cursor, whatever posts, wake       *)
(* requests, closures and restarts came in between (ensure_slot).           *)
OneSpeaker ==
  run = "live" => \A n \in Slots : stim[n].state \in Open => n = index

(* The cursor passes a slot without inviting its speaker only if the peer   *)
(* of that pair cannot contribute.                                          *)
NobodyPassedOver ==
  [][\A n \in Slots : index <= n /\ n < index' /\ stim'[n].state = "none"
       => PeerOf(n) \notin Available]_vars

(* The session falls quiet at the end of a cycle, and exactly when in that  *)
(* cycle no slot was answered and nobody wrote or asked for a wake-up       *)
(* (_advance, on_input): posts and inputs are not forgotten over skips,     *)
(* restarts and late completions, and silence is always noticed.            *)
QuietAfterSilentCycle ==
  [][LET start == (index' \div CycleSize) * CycleSize
         ended == (start - CycleSize)..(start - 1)
     IN  IF index < start
         THEN quiet' = (/\ Dormancy
                        /\ \A n \in ended : turn[n] # "posted"
                        /\ touched' <= start - CycleSize)
         ELSE quiet' => quiet]_vars

(* The rotation goes on: a session cannot stay live and unquiet at a slot,  *)
(* whatever happened to that slot's stimulus (the cursor only grows, so it  *)
(* would have to come to the bound).                                        *)
RotationGoesOn == []<>(run # "live" \/ quiet \/ index >= MaxIndex)
=============================================================================
