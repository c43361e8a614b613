---------------------------- MODULE RunLifecycle ----------------------------
(***************************************************************************)
(* What a run promises, without its tasks, leases, turns and crashes: a    *)
(* stimulus enters the queue, is open to the answers of the agents, and    *)
(* ends for good; an agent answers it at most once, while it is open; a    *)
(* run that ends closes whatever is open, and nothing happens any more.    *)
(***************************************************************************)
CONSTANTS
  Items,    \* the stimuli that can ever be queued
  Writers   \* the agents that may answer them

VARIABLES
  state,    \* the state of the run
  stage,    \* of each item: not queued yet, open or over
  answers   \* who has answered what: <<item, writer>>

Live   == {"created", "running", "paused"}
Over   == {"stopped", "emergency_stopped", "completed", "failed"}
Stages == {"new", "open", "done"}

LifeInit ==
  /\ state = "created" /\ answers = {}
  /\ stage \in [Items -> {"new", "open"}]

\* Items leave the queue, and at most one enters it.
Queue ==
  /\ stage' \in [Items -> Stages]
  /\ \A i \in Items : /\ stage[i] = "done" => stage'[i] = "done"
                      /\ stage[i] = "open" => stage'[i] \in {"open", "done"}
  /\ \A i, j \in Items : /\ stage[i] = "new" /\ stage'[i] # "new"
                         /\ stage[j] = "new" /\ stage'[j] # "new"
                         => i = j /\ stage'[i] = "open"

\* A person, a step or a failure of the worker starts or pauses the run.
Control ==
  /\ state \in Live /\ state' \in {"running", "paused"}
  /\ UNCHANGED <<stage, answers>>

Deliver ==
  /\ state \in Live /\ Queue
  /\ UNCHANGED <<state, answers>>

\* An answer leaves its item open, and may queue another or close a thread.
Answer(i, a) ==
  /\ state \in Live
  /\ stage[i] = "open" /\ <<i, a>> \notin answers
  /\ answers' = answers \cup {<<i, a>>}
  /\ Queue /\ stage'[i] = "open"
  /\ UNCHANGED state

End ==
  /\ state \in Live /\ state' \in Over
  /\ stage' = [i \in Items |-> IF stage[i] = "open" THEN "done" ELSE stage[i]]
  /\ UNCHANGED answers

LifeNext ==
  \/ Control \/ Deliver \/ End
  \/ \E i \in Items, a \in Writers : Answer(i, a)

LifeSpec == LifeInit /\ [][LifeNext]_<<state, stage, answers>>
=============================================================================
