------------------------------ MODULE Research ------------------------------
(***************************************************************************)
(* Research operations (research.py, research_api.py): a fork copies a     *)
(* prefix of a run's thread into a new run, a resample forks where a turn  *)
(* saw the thread and forces that turn again, and a forced turn names its  *)
(* speaker.  Every run has one thread, open throughout, and the whole      *)
(* roster.  Turns are taken as in Delivery, one at a time and without      *)
(* pauses.  max_posts stands for max_rounds, max_tokens and                *)
(* max_duration_seconds too, which are inherited the same way.             *)
(***************************************************************************)
EXTENDS Integers, Sequences, FiniteSets, Functions

CONSTANTS
  Agents, NoAgent,
  Clients,      \* connections that send fork requests
  Keys,         \* idempotency keys
  AgentQuota, ThreadQuota, RootPosts,  \* limits of the first run
  SampleSizes,  \* sizes of resamples
  ForkKinds,    \* whether forks are continuous
  MaxRuns, MaxTurns, MaxForced, MaxOutside  \* bounds

ASSUME ResearchAssumption ==
  /\ NoAgent \notin Agents
  /\ {AgentQuota, ThreadQuota, RootPosts, MaxRuns} \subseteq Nat \ {0}
  /\ SampleSizes \subseteq 1..20 /\ ForkKinds \subseteq BOOLEAN
  /\ {MaxTurns, MaxForced, MaxOutside} \subseteq Nat

VARIABLES
  run,      \* the runs, in the order of their creation
  thread,   \* their threads, sequences of posts
  turn,     \* the turns of all runs
  forced,   \* the forced stimuli
  log,      \* the research.request, .resampled and .turn_forced records
  handler,  \* the fork request each connection waits for
  answered, \* history: the runs of answered continuous forks
  outside   \* how often people posted, stopped a run or forced a turn

tables == <<run, thread, turn, forced, log>>
researchVars == <<tables, handler, answered, outside>>

\* A post is named by its run and its place; author NoAgent is a person.
NoPost == <<0, 0>>
Monus(a, b) == IF a > b THEN a - b ELSE 0
Least(a, b) == IF a < b THEN a ELSE b

Idle == [phase |-> "idle"]

\* A source run whose opening post is a person's.
ResearchInit ==
  /\ run = <<[state |-> "running", blocked |-> FALSE, parent |-> 0, inherits |-> TRUE,
              sampled |-> 0, maxPosts |-> RootPosts, postsUsed |-> 1,
              agentGrant |-> [a \in Agents |-> AgentQuota], threadGrant |-> ThreadQuota,
              aliases |-> <<>>]>>
  /\ thread = <<<<[author |-> NoAgent, copyOf |-> NoPost]>>>>
  /\ turn = <<>> /\ forced = <<>> /\ log = {}
  /\ handler = [c \in Clients |-> Idle] /\ answered = {} /\ outside = 0

-----------------------------------------------------------------------------
(* Quotas *)

OwnPosts(r)  == {<<r, i>> : i \in DOMAIN thread[r]}
Post(p)      == thread[p[1]][p[2]]
Inherited(r) == {p \in OwnPosts(r) : Post(p).copyOf # NoPost}
Ended(r)     == run[r].state = "ended"

Generated(r) == {p \in OwnPosts(r) \ Inherited(r) : Post(p).author # NoAgent}
GeneratedBy(r, a) == {p \in Generated(r) : Post(p).author = a}

\* Mutant of AgentLeft: the grant of an earlier fork is forgotten.
ForgetsTheGrant(r, a) == Monus(AgentQuota, Cardinality(GeneratedBy(r, a)))

AgentLeft(r, a) ==
  Monus(Least(AgentQuota, run[r].agentGrant[a]), Cardinality(GeneratedBy(r, a)))

ThreadLeft(r) == Monus(Least(ThreadQuota, run[r].threadGrant), Cardinality(Generated(r)))

PostsLeft(r) == Monus(run[r].maxPosts, run[r].postsUsed)

SomethingLeft(r) ==
  PostsLeft(r) > 0 /\ ThreadLeft(r) > 0 /\ \E a \in Agents : AgentLeft(r, a) > 0

-----------------------------------------------------------------------------
(* Forks *)

\* Mutant of PostMap: the aliases of earlier forks are not carried on.
MapsTheCopies(s, c, cut) == [q \in {<<s, i>> : i \in 1..cut} |-> <<c, q[2]>>]

PostMap(s, c, cut) ==
  LET carried == {q \in DOMAIN run[s].aliases : run[s].aliases[q][2] <= cut}
  IN  [q \in {<<s, i>> : i \in 1..cut} \cup carried |->
        IF q \in carried THEN <<c, run[s].aliases[q][2]>> ELSE <<c, q[2]>>]

Copied(s, cut) ==
  [i \in 1..cut |-> [author |-> thread[s][i].author, copyOf |-> <<s, i>>]]

Child(s, c, cut, inherit, t) ==
  [state |-> "created", blocked |-> FALSE, parent |-> s, inherits |-> inherit,
   sampled |-> t, postsUsed |-> 0,
   maxPosts |-> IF inherit THEN PostsLeft(s) ELSE run[s].maxPosts,
   agentGrant |-> [a \in Agents |-> IF inherit THEN AgentLeft(s, a) ELSE AgentQuota],
   threadGrant |-> IF inherit THEN ThreadLeft(s) ELSE ThreadQuota,
   aliases |-> PostMap(s, c, cut)]

\* A provider's safety block ends a line of research for good.
Forkable(s, inherit) == ~run[s].blocked /\ (inherit => SomethingLeft(s))

\* n children of s, all made by one transaction.
Branch(s, cut, inherit, t, n) ==
  /\ Len(run) + n <= MaxRuns
  /\ run' = run \o [i \in 1..n |-> Child(s, Len(run) + i, cut, inherit, t)]
  /\ thread' = thread \o [i \in 1..n |-> Copied(s, cut)]

Prior(op, on, k) == {e \in log : e.op = op /\ e.on = on /\ e.key = k}
Record(op, on, k, request, result) ==
  [op |-> op, on |-> on, key |-> k, request |-> request, result |-> result]

\* POST /api/threads/{id}/fork: a new run, or the earlier answer.
ForkThread(c, k, s, cut, inherit, continuous) ==
  LET request == <<cut, inherit, continuous>>
      prior   == Prior("fork", s, k)
  IN  /\ handler[c] = Idle /\ \A e \in prior : e.request = request
      /\ \/ /\ prior = {} /\ Forkable(s, inherit) /\ Branch(s, cut, inherit, 0, 1)
            /\ log' = log \cup {Record("fork", s, k, request, Len(run) + 1)}
         \/ prior # {} /\ UNCHANGED <<run, thread, log>>
      /\ handler' = IF continuous
           THEN [handler EXCEPT ![c] = [phase |-> "committed", new |-> prior = {},
                   run |-> CHOOSE r \in {e.result : e \in log' \cap Prior("fork", s, k)'} : TRUE]]
           ELSE handler
      /\ UNCHANGED <<turn, forced, answered, outside>>

\* Mutant of ShouldStart: only the request that made the fork starts it.
StartsItsOwn(h) == h.new /\ run[h.run].state = "created"

\* should_start, read after the commit
ShouldStart(h) == run[h.run].state = "created"

Answer(c, h) == handler' = [handler EXCEPT ![c] = Idle] /\ answered' = answered \cup {h.run}

CheckFork(c) ==
  LET h == handler[c]
  IN  /\ h.phase = "committed"
      /\ \/ /\ ShouldStart(h) /\ handler' = [handler EXCEPT ![c].phase = "start"]
            /\ UNCHANGED answered
         \/ ~ShouldStart(h) /\ Answer(c, h)
      /\ UNCHANGED <<run, thread, turn, forced, log, outside>>

\* swarm.start: by now someone else may have started or ended the run.
StartFork(c) ==
  LET h == handler[c]
  IN  /\ h.phase = "start"
      /\ \/ /\ run[h.run].state = "created"
            /\ run' = [run EXCEPT ![h.run].state = "running"] /\ Answer(c, h)
         \/ /\ run[h.run].state # "created"
            /\ handler' = [handler EXCEPT ![c] = Idle] /\ UNCHANGED <<run, answered>>
      /\ UNCHANGED <<thread, turn, forced, log, outside>>

\* The connection drops or the process dies, before the answer.
LoseRequest(c) ==
  /\ handler[c] # Idle /\ handler' = [handler EXCEPT ![c] = Idle]
  /\ UNCHANGED <<run, thread, turn, forced, log, answered, outside>>

-----------------------------------------------------------------------------
(* Forced turns and resampling *)

Stimulus(r, a, t) == [run |-> r, agent |-> a, reuse |-> t, open |-> TRUE]

\* POST /api/runs/{id}/force-turn
ForceTurn(k, r, a) ==
  /\ Prior("force", r, k) = {} /\ ~Ended(r) /\ Len(forced) < MaxForced
  /\ outside < MaxOutside /\ outside' = outside + 1
  /\ forced' = Append(forced, Stimulus(r, a, 0))
  /\ log' = log \cup {Record("force", r, k, a, Len(forced) + 1)}
  /\ UNCHANGED <<run, thread, turn, handler, answered>>

SeenHere(t) == {p \in turn[t].shown : p[1] = turn[t].run}

Last(ps) == IF ps = {} THEN 0 ELSE (CHOOSE p \in ps : \A q \in ps : q[2] <= p[2])[2]

\* Mutant of Cutoff: the history includes the answer.
CutoffAtTheAnswer(t) == IF turn[t].post # NoPost THEN turn[t].post[2] ELSE Last(SeenHere(t))

\* context_cutoff: the last post of the thread that the turn saw; or, when it
\* saw none of them, the post before its own.
Cutoff(t) ==
  IF SeenHere(t) = {} /\ turn[t].post # NoPost THEN turn[t].post[2] - 1 ELSE Last(SeenHere(t))

\* POST /api/turns/{id}/resample with n children
Resample(k, t, n, reuse) ==
  LET s == turn[t].run
  IN  /\ Prior("resample", t, k) = {} /\ Forkable(s, FALSE)
      /\ Branch(s, Cutoff(t), FALSE, t, n) /\ Len(forced) + n <= MaxForced
      /\ forced' = forced \o [i \in 1..n |->
           Stimulus(Len(run) + i, turn[t].agent, IF reuse THEN t ELSE 0)]
      /\ log' = log \cup {Record("resample", t, k, <<n, reuse>>, Len(run) + 1)}
      /\ UNCHANGED <<turn, handler, answered, outside>>

-----------------------------------------------------------------------------
(* Runs, people and turns *)

Calling(r) == {t \in DOMAIN turn : turn[t].run = r /\ turn[t].state = "calling"}

StartRun(r) ==
  /\ run[r].state = "created" /\ run' = [run EXCEPT ![r].state = "running"]
  /\ UNCHANGED <<thread, turn, forced, log, handler, answered, outside>>

\* stop, budget or safety block, with cleanup_terminal_run_work
EndRun(r, blocked) ==
  /\ ~Ended(r) /\ outside < MaxOutside /\ outside' = outside + 1
  /\ run' = [run EXCEPT ![r].state = "ended", ![r].blocked = blocked]
  /\ turn' = [t \in DOMAIN turn |->
       IF t \in Calling(r) THEN [turn[t] EXCEPT !.state = "done"] ELSE turn[t]]
  /\ forced' = [i \in DOMAIN forced |->
       IF forced[i].run = r THEN [forced[i] EXCEPT !.open = FALSE] ELSE forced[i]]
  /\ UNCHANGED <<thread, log, handler, answered>>

AddPost(r, author) ==
  /\ thread' = [thread EXCEPT ![r] = Append(@, [author |-> author, copyOf |-> NoPost])]
  /\ run' = [run EXCEPT ![r].postsUsed = @ + 1]

HumanPost(r) ==
  /\ ~Ended(r) /\ outside < MaxOutside /\ outside' = outside + 1
  /\ AddPost(r, NoAgent) /\ UNCHANGED <<turn, forced, log, handler, answered>>

CanTake(r, a) ==
  /\ run[r].state = "running" /\ Calling(r) = {} /\ Len(turn) < MaxTurns
  /\ AgentLeft(r, a) > 0 /\ ThreadLeft(r) > 0

Turn(r, a, shown) ==
  Append(turn, [run |-> r, agent |-> a, shown |-> shown, post |-> NoPost, state |-> "calling"])

BeginTurn(r, a) ==
  /\ CanTake(r, a) /\ turn' = Turn(r, a, OwnPosts(r))
  /\ UNCHANGED <<run, thread, forced, log, handler, answered, outside>>

\* A reused turn brings its prompt and with it the posts its context names.
BeginForced(i) ==
  LET s == forced[i]
  IN  /\ s.open /\ forced' = [forced EXCEPT ![i].open = FALSE]
      /\ \/ CanTake(s.run, s.agent)
            /\ turn' = Turn(s.run, s.agent, IF s.reuse = 0 THEN OwnPosts(s.run)
                                            ELSE turn[s.reuse].shown)
         \/ /\ run[s.run].state = "running" /\ Calling(s.run) = {}
            /\ AgentLeft(s.run, s.agent) = 0 \/ ThreadLeft(s.run) = 0
            /\ UNCHANGED turn
      /\ UNCHANGED <<run, thread, log, handler, answered, outside>>

\* The parent the answer names, after post_id_map.
Parent(r, p) == IF p \in DOMAIN run[r].aliases THEN run[r].aliases[p] ELSE p

\* A pass, a failed call, or an answer that is refused at the commit.
FinishWithout(t) ==
  /\ turn[t].state = "calling" /\ turn' = [turn EXCEPT ![t].state = "done"]
  /\ UNCHANGED <<run, thread, forced, log, handler, answered, outside>>

FinishWithPost(t) ==
  LET r == turn[t].run
  IN  /\ turn[t].state = "calling" /\ PostsLeft(r) > 0 /\ ThreadLeft(r) > 0
      /\ turn[t].shown # {} => \E p \in turn[t].shown : Parent(r, p) \in OwnPosts(r)
      /\ AddPost(r, turn[t].agent)
      /\ turn' = [turn EXCEPT ![t].state = "done", ![t].post = <<r, Len(thread[r]) + 1>>]
      /\ UNCHANGED <<forced, log, handler, answered, outside>>

ResearchNext ==
  \/ \E c \in Clients, k \in Keys, s \in DOMAIN run, inherit \in BOOLEAN :
       \E continuous \in ForkKinds, cut \in DOMAIN thread[s] : ForkThread(c, k, s, cut, inherit, continuous)
  \/ \E c \in Clients : CheckFork(c) \/ StartFork(c) \/ LoseRequest(c)
  \/ \E k \in Keys, r \in DOMAIN run, a \in Agents : ForceTurn(k, r, a)
  \/ \E k \in Keys, t \in DOMAIN turn, n \in SampleSizes, reuse \in BOOLEAN : Resample(k, t, n, reuse)
  \/ \E r \in DOMAIN run :
       \/ StartRun(r) \/ HumanPost(r)
       \/ \E blocked \in BOOLEAN : EndRun(r, blocked)
       \/ \E a \in Agents : BeginTurn(r, a)
  \/ \E i \in DOMAIN forced : BeginForced(i)
  \/ \E t \in DOMAIN turn : FinishWithout(t) \/ FinishWithPost(t)

ResearchSpec == ResearchInit /\ [][ResearchNext]_researchVars

-----------------------------------------------------------------------------
(* Properties *)

\* Along forks that inherit what was left, no branch shows more posts of an
\* agent, or of all agents, than the first run allowed: what was inherited as
\* history and what was generated since add up, over any number of forks.
Lineage[r \in 0..Len(run)] ==
  IF r = 0 THEN TRUE ELSE run[r].inherits /\ Lineage[run[r].parent]

LineageKeepsQuota ==
  \A r \in DOMAIN run : Lineage[r] =>
    LET shown == {p \in OwnPosts(r) : Post(p).author # NoAgent}
    IN  /\ Cardinality(shown) <= Least(ThreadQuota, RootPosts)
        /\ \A a \in Agents : Cardinality({p \in shown : Post(p).author = a}) <= AgentQuota

\* The posts a post was copied from, through all forks.
Origins[p \in UNION {OwnPosts(r) : r \in DOMAIN run}] ==
  IF Post(p).copyOf = NoPost THEN {} ELSE {Post(p).copyOf} \cup Origins[Post(p).copyOf]

\* A prompt of any ancestor can be answered in a branch: post_id_map names, for
\* each post that was inherited and each post it comes from, the copy, and
\* nothing else.
AliasesResolve ==
  \A r \in DOMAIN run :
    LET aliases == run[r].aliases
    IN  {<<q, aliases[q]>> : q \in DOMAIN aliases}
          = UNION {{<<q, p>> : q \in Origins[p]} : p \in Inherited(r)}

\* A sample starts from the thread at the time of its turn: it inherits every
\* post of the thread that the turn saw, and neither the turn's own post nor
\* one that came later.
SampledAtTheMoment ==
  \A r \in DOMAIN run : run[r].sampled # 0 =>
    LET t    == run[r].sampled
        seen == {Post(p).copyOf : p \in Inherited(r)}
    IN  /\ SeenHere(t) \subseteq seen
        /\ turn[t].post # NoPost => \A p \in seen : p[2] < turn[t].post[2]

\* Once a continuous fork is answered it has been started, whoever made it: a
\* crash between the commit and the start, and the retry, included.
AnsweredForkHasStarted == \A r \in answered : run[r].state # "created"

\* What a reused prompt shows has a counterpart in the branch that reuses it.
ReusedPromptIsInherited ==
  \A i \in DOMAIN forced : forced[i].reuse # 0 =>
    \A p \in turn[forced[i].reuse].shown : Parent(forced[i].run, p) \in OwnPosts(forced[i].run)
=============================================================================
