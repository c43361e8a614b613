--------------------------- MODULE ResearchProofs ---------------------------
(***************************************************************************)
(* Theorems about Research, for every number of agents, clients, keys,     *)
(* runs and turns: quotas along inherited forks, the aliases that prompts  *)
(* of ancestors need, where a sample starts, and the start of continuous   *)
(* forks.  The invariants speak of one run and its parent only; what they  *)
(* mean for a whole line of forks follows by the least number principle.   *)
(***************************************************************************)
EXTENDS Research, FiniteSetTheorems, SequenceTheorems, WellFoundedInduction, TLAPS

Names      == Nat \X Nat
Maps       == UNION {[S -> Names] : S \in SUBSET Names}
PostRows   == [author : Agents \cup {NoAgent}, copyOf : Names]
RunRows    == [state : {"created", "running", "ended"}, blocked : BOOLEAN,
               parent : Nat, inherits : BOOLEAN, sampled : Nat,
               maxPosts : Nat, postsUsed : Nat,
               agentGrant : [Agents -> Nat], threadGrant : Nat, aliases : Maps]
TurnRows   == [run : Nat, agent : Agents, shown : SUBSET Names, post : Names,
               state : {"calling", "done"}]
ForcedRows == [run : Nat, agent : Agents, reuse : Nat, open : BOOLEAN]

\* The tables.
RowsOK ==
  /\ run \in Seq(RunRows) /\ thread \in Seq(Seq(PostRows)) /\ Len(thread) = Len(run)
  /\ turn \in Seq(TurnRows) /\ forced \in Seq(ForcedRows)

AllPosts == UNION {OwnPosts(r) : r \in DOMAIN run}

(* Turns belong to runs and show posts that exist; an answer is later than  *)
(* what the turn saw of its own thread.                                     *)
TurnsOK ==
  \A t \in DOMAIN turn :
    /\ turn[t].run \in DOMAIN run /\ turn[t].shown \subseteq AllPosts
    /\ turn[t].state = "calling" => turn[t].post = NoPost
    /\ turn[t].post # NoPost => /\ turn[t].post \in OwnPosts(turn[t].run)
                                /\ \A p \in SeenHere(t) : p[2] < turn[t].post[2]

\* Forced stimuli name runs and turns.
ForcedOK ==
  \A i \in DOMAIN forced : forced[i].run \in DOMAIN run /\ forced[i].reuse \in 0..Len(turn)

\* The records of forks and the requests in progress name runs that exist.
Handlers == {Idle}
  \cup [phase : {"committed"}, new : BOOLEAN, run : DOMAIN run]
  \cup [phase : {"start"}, new : BOOLEAN, run : DOMAIN run]
ForksOK ==
  /\ \A e \in log : e.op = "fork" => e.result \in DOMAIN run
  /\ handler \in [Clients -> Handlers] /\ answered \subseteq DOMAIN run

\* A copy has the place and the author of the post of the parent it is copied from.
CopiesOK ==
  \A r \in DOMAIN run : \A i \in DOMAIN thread[r] : thread[r][i].copyOf # NoPost =>
    LET s == run[r].parent
    IN  /\ s \in 1..(r - 1) /\ thread[r][i].copyOf = <<s, i>>
        /\ i \in DOMAIN thread[s] /\ thread[s][i].author = thread[r][i].author

\* A sample has copies of what its turn saw, and of nothing after its answer.
SamplesOK ==
  \A r \in DOMAIN run : run[r].sampled # 0 =>
    LET t == run[r].sampled
    IN  /\ t \in DOMAIN turn /\ run[r].parent = turn[t].run
        /\ \A p \in SeenHere(t) : p[2] \in DOMAIN thread[r] /\ thread[r][p[2]].copyOf = p
        /\ turn[t].post # NoPost =>
             \A i \in DOMAIN thread[r] : thread[r][i].copyOf # NoPost => i < turn[t].post[2]

\* Aliases name copies by the post they are a copy of, and by its aliases.
Resolves(r, q, p) == q \in DOMAIN run[r].aliases /\ run[r].aliases[q] = p
AliasesOK ==
  \A r \in DOMAIN run, q, p \in Names :
    /\ Resolves(r, q, p) => q[1] < r
    /\ Resolves(r, q, p) <=>
         /\ p \in Inherited(r)
         /\ q = Post(p).copyOf \/ Resolves(run[r].parent, q, Post(p).copyOf)

InheritedBy(r, a)  == {p \in Inherited(r) : Post(p).author = a}
InheritedByAll(r)  == {p \in Inherited(r) : Post(p).author # NoAgent}
AgentCap(r, a)     == Least(AgentQuota, run[r].agentGrant[a])
ThreadCap(r)       == Least(ThreadQuota, run[r].threadGrant)

\* A branch generates within its grants, and its grants within what its parent had.
WithinCaps(r) ==
  /\ \A a \in Agents : Cardinality(GeneratedBy(r, a)) <= AgentCap(r, a)
  /\ Cardinality(Generated(r)) <= ThreadCap(r)
  /\ Cardinality(Generated(r)) <= run[r].maxPosts
  /\ Cardinality(Generated(r)) <= run[r].postsUsed
AllowedBy(r, s) ==
  /\ \A a \in Agents : Cardinality(InheritedBy(r, a)) + run[r].agentGrant[a]
                          <= Cardinality(InheritedBy(s, a)) + AgentCap(s, a)
  /\ Cardinality(InheritedByAll(r)) + run[r].threadGrant
       <= Cardinality(InheritedByAll(s)) + ThreadCap(s)
  /\ Cardinality(InheritedByAll(r)) + run[r].maxPosts
       <= Cardinality(InheritedByAll(s)) + run[s].maxPosts
QuotaOK ==
  \A r \in DOMAIN run :
    /\ WithinCaps(r)
    /\ run[r].parent < r
    /\ run[r].inherits /\ run[r].parent # 0 => AllowedBy(r, run[r].parent)
    /\ run[r].parent = 0 => run[r].maxPosts <= RootPosts

\* One turn of a run at a time, of an agent that has something left.
CallsOK ==
  \A t \in DOMAIN turn : turn[t].state = "calling" =>
    /\ Calling(turn[t].run) = {t}
    /\ Cardinality(GeneratedBy(turn[t].run, turn[t].agent))
         < AgentCap(turn[t].run, turn[t].agent)

ResearchInv ==
  /\ RowsOK /\ TurnsOK /\ ForcedOK /\ ForksOK /\ CopiesOK
  /\ SamplesOK /\ AliasesOK /\ QuotaOK /\ CallsOK /\ AnsweredForkHasStarted

-----------------------------------------------------------------------------
(* Operators *)

\* A set of naturals has a least member: this is what stands for induction.
LEMMA LeastOf ==
  ASSUME NEW T, T \subseteq Nat, T # {}
  PROVE  \E x \in T : \A y \in T : x <= y
<1> DEFINE R == OpToRel(<, Nat)
<1>1. IsWellFoundedOn(R, Nat)
  BY NatLessThanWellFounded
<1>2. \A x, y \in Nat : <<y, x>> \in R <=> y < x
  BY DEF OpToRel
<1> HIDE DEF R
<1>3. PICK x \in T : \A y \in T : ~ (<<y, x>> \in R)
  BY <1>1, WFMin
<1>4. ASSUME NEW y \in T PROVE x <= y
  <2>1. x \in Nat /\ y \in Nat /\ ~(y < x)
    BY <1>2, <1>3
  <2> QED BY <2>1
<1> QED BY <1>4

\* A non-empty set of numbers up to n has a greatest member.
LEMMA GreatestOf ==
  ASSUME NEW n \in Nat, NEW S, S \subseteq 0..n, S # {}
  PROVE  \E x \in S : \A y \in S : y <= x
<1> DEFINE T == {d \in 0..n : n - d \in S}
<1>1. T # {} /\ T \subseteq Nat
  <2>1. PICK x \in S : TRUE
    OBVIOUS
  <2>2. x \in 0..n
    OBVIOUS
  <2>3. n - x \in 0..n /\ n - (n - x) = x
    BY <2>2
  <2>4. n - x \in T
    BY <2>3
  <2>5. T \subseteq Nat
    OBVIOUS
  <2> HIDE DEF T
  <2> QED BY <2>4, <2>5
<1>2. PICK d \in T : \A e \in T : d <= e
  <2> HIDE DEF T
  <2> QED BY <1>1, LeastOf
<1>3. ASSUME NEW y \in S PROVE y <= n - d
  <2>1. n - y \in 0..n /\ n - (n - y) = y /\ d \in 0..n
    OBVIOUS
  <2>2. d <= n - y
    BY <1>2, <2>1
  <2> QED BY <2>1, <2>2
<1> QED BY <1>3

LEMMA RunRow ==
  ASSUME RowsOK, NEW r \in DOMAIN run
  PROVE  /\ r \in 1..Len(run) /\ run[r] \in RunRows /\ thread[r] \in Seq(PostRows)
         /\ r \in DOMAIN thread /\ DOMAIN thread[r] = 1..Len(thread[r])
         /\ Len(thread[r]) \in Nat /\ Len(run) \in Nat
         /\ \A i \in DOMAIN thread[r] : thread[r][i] \in PostRows
BY DEF RowsOK

LEMMA TurnRow ==
  ASSUME RowsOK, NEW t \in DOMAIN turn
  PROVE  t \in 1..Len(turn) /\ turn[t] \in TurnRows
BY DEF RowsOK

LEMMA PostsAre ==
  ASSUME RowsOK, NEW r \in DOMAIN run
  PROVE  /\ OwnPosts(r) \subseteq Names /\ IsFiniteSet(OwnPosts(r))
         /\ \A i : <<r, i>> \in OwnPosts(r) <=> i \in DOMAIN thread[r]
         /\ \A p \in OwnPosts(r) : /\ p[1] = r /\ p[2] \in DOMAIN thread[r]
                                   /\ p = <<r, p[2]>> /\ Post(p) = thread[r][p[2]]
                                   /\ Post(p) \in PostRows
<1> DEFINE n == Len(thread[r])
           f == [i \in 1..n |-> <<r, i>>]
<1>1. /\ r \in Nat /\ n \in Nat /\ DOMAIN thread[r] = 1..n
      /\ \A i \in DOMAIN thread[r] : thread[r][i] \in PostRows
  BY RunRow
<1>2. OwnPosts(r) = {<<r, i>> : i \in 1..n}
  BY <1>1 DEF OwnPosts
<1>3. IsFiniteSet(OwnPosts(r))
  <2>1. IsFiniteSet(1..n)
    BY <1>1, FS_Interval
  <2>2. f \in Surjection(1..n, OwnPosts(r))
    BY <1>2 DEF Surjection
  <2> QED BY <2>1, <2>2, FS_Surjection
<1> QED BY <1>1, <1>2, <1>3 DEF Post, Names

LEMMA PostSetsFinite ==
  ASSUME RowsOK, NEW r \in DOMAIN run
  PROVE  /\ IsFiniteSet(Generated(r)) /\ Cardinality(Generated(r)) \in Nat
         /\ IsFiniteSet(InheritedByAll(r)) /\ Cardinality(InheritedByAll(r)) \in Nat
         /\ \A a : /\ IsFiniteSet(GeneratedBy(r, a)) /\ Cardinality(GeneratedBy(r, a)) \in Nat
                   /\ IsFiniteSet(InheritedBy(r, a)) /\ Cardinality(InheritedBy(r, a)) \in Nat
<1>1. IsFiniteSet(OwnPosts(r))
  BY PostsAre
<1>2. \A S \in SUBSET OwnPosts(r) : IsFiniteSet(S) /\ Cardinality(S) \in Nat
  BY <1>1, FS_Subset, FS_CardinalityType
<1>3. /\ Generated(r) \in SUBSET OwnPosts(r)
      /\ InheritedByAll(r) \in SUBSET OwnPosts(r)
      /\ \A a : /\ GeneratedBy(r, a) \in SUBSET OwnPosts(r)
                /\ InheritedBy(r, a) \in SUBSET OwnPosts(r)
  BY DEF Generated, GeneratedBy, Inherited, InheritedBy, InheritedByAll
<1> QED BY <1>2, <1>3

LEMMA ConstantTypes ==
  /\ AgentQuota \in Nat \ {0} /\ ThreadQuota \in Nat \ {0} /\ RootPosts \in Nat \ {0}
  /\ NoAgent \notin Agents /\ NoPost \in Names
  /\ \A n \in SampleSizes : n \in Nat /\ n >= 1
BY ResearchAssumption DEF ResearchAssumption, NoPost, Names

LEMMA MonusLeast ==
  ASSUME NEW m \in Nat, NEW n \in Nat
  PROVE  /\ Monus(m, n) \in Nat /\ Monus(m, n) <= m
         /\ n <= m => Monus(m, n) + n = m
         /\ m <= n => Monus(m, n) = 0
         /\ Monus(m, n) > 0 => n < m
         /\ Least(m, n) \in Nat /\ Least(m, n) <= m /\ Least(m, n) <= n
         /\ Least(m, n) = m \/ Least(m, n) = n
BY DEF Monus, Least

LEMMA CapTypes ==
  ASSUME RowsOK, NEW r \in DOMAIN run
  PROVE  /\ ThreadCap(r) \in Nat /\ ThreadLeft(r) \in Nat /\ PostsLeft(r) \in Nat
         /\ ThreadLeft(r) = Monus(ThreadCap(r), Cardinality(Generated(r)))
         /\ \A a \in Agents :
              /\ AgentCap(r, a) \in Nat /\ AgentLeft(r, a) \in Nat
              /\ AgentLeft(r, a) = Monus(AgentCap(r, a), Cardinality(GeneratedBy(r, a)))
<1>1. run[r] \in RunRows
  BY RunRow
<1>2. ThreadCap(r) \in Nat
  <2>1. run[r].threadGrant \in Nat
    BY <1>1 DEF RunRows
  <2> QED BY <2>1, ConstantTypes, MonusLeast DEF ThreadCap
<1>3. ThreadLeft(r) = Monus(ThreadCap(r), Cardinality(Generated(r))) /\ ThreadLeft(r) \in Nat
  BY <1>2, PostSetsFinite, MonusLeast DEF ThreadLeft, ThreadCap
<1>4. PostsLeft(r) \in Nat
  BY <1>1, MonusLeast DEF PostsLeft, RunRows
<1>5. ASSUME NEW a \in Agents
      PROVE  /\ AgentCap(r, a) \in Nat /\ AgentLeft(r, a) \in Nat
             /\ AgentLeft(r, a) = Monus(AgentCap(r, a), Cardinality(GeneratedBy(r, a)))
  <2>1. run[r].agentGrant[a] \in Nat
    BY <1>1 DEF RunRows
  <2>2. AgentCap(r, a) \in Nat
    <3> DEFINE g == run[r].agentGrant[a]
    <3>1. g \in Nat /\ AgentQuota \in Nat
      BY <2>1, ConstantTypes
    <3> HIDE DEF g
    <3>2. Least(AgentQuota, g) \in Nat
      BY <3>1, MonusLeast
    <3> QED BY <3>2 DEF AgentCap, g
  <2>3. AgentLeft(r, a) = Monus(AgentCap(r, a), Cardinality(GeneratedBy(r, a)))
    BY DEF AgentLeft, AgentCap
  <2> QED BY <2>2, <2>3, PostSetsFinite, MonusLeast
<1> QED BY <1>2, <1>3, <1>4, <1>5

\* The map of a fork: a function into the child's posts.
MapsTo(s, c, cut, q, p) ==
  \/ \E x \in Names : Resolves(s, q, x) /\ x[2] <= cut /\ p = <<c, x[2]>>
  \/ /\ ~ \E x \in Names : Resolves(s, q, x) /\ x[2] <= cut
     /\ q[1] = s /\ q[2] \in 1..cut /\ p = <<c, q[2]>>

LEMMA PostMapIs ==
  ASSUME RowsOK, NEW s \in DOMAIN run, NEW c \in Nat, NEW cut \in Nat
  PROVE  /\ PostMap(s, c, cut) \in Maps
         /\ \A q \in Names : \A p :
              (q \in DOMAIN PostMap(s, c, cut) /\ PostMap(s, c, cut)[q] = p)
                <=> MapsTo(s, c, cut, q, p)
<1> DEFINE old == run[s].aliases
           carried == {q \in DOMAIN old : old[q][2] <= cut}
           firsts == {<<s, i>> : i \in 1..cut}
           f == [q \in firsts \cup carried |->
                   IF q \in carried THEN <<c, old[q][2]>> ELSE <<c, q[2]>>]
<1>1. PostMap(s, c, cut) = f
  BY DEF PostMap
<1>2. old \in Maps
  BY RunRow DEF RunRows
<1>3. \A q \in DOMAIN old : q \in Names /\ old[q] \in Names
  BY <1>2 DEF Maps
<1> HIDE DEF old
<1>4. carried \subseteq Names /\ firsts \subseteq Names
  <2>1. s \in Nat
    BY RunRow
  <2> QED BY <1>3, <2>1 DEF Names
<1>5. \A q \in firsts \cup carried : f[q] \in Names
  <2> SUFFICES ASSUME NEW q \in firsts \cup carried PROVE f[q] \in Names
    OBVIOUS
  <2>1. CASE q \in carried
    <3>1. old[q][2] \in Nat
      BY <1>3, <2>1 DEF Names
    <3> QED BY <2>1, <3>1 DEF Names
  <2>2. CASE q \notin carried
    <3>1. q[2] \in Nat
      BY <1>4, <2>2 DEF Names
    <3> QED BY <2>2, <3>1 DEF Names
  <2> QED BY <2>1, <2>2
<1>6. f \in Maps
  <2> DEFINE D == firsts \cup carried
  <2>1. D \in SUBSET Names
    BY <1>4
  <2>2. f \in [D -> Names]
    BY <1>5
  <2> HIDE DEF D, f
  <2> QED BY <2>1, <2>2 DEF Maps
<1>7. ASSUME NEW q \in Names, NEW p
      PROVE  (q \in DOMAIN f /\ f[q] = p) <=> MapsTo(s, c, cut, q, p)
  <2>1. q \in carried <=> \E x \in Names : Resolves(s, q, x) /\ x[2] <= cut
    BY <1>3 DEF Resolves, old
  <2>2. q \in firsts <=> q[1] = s /\ q[2] \in 1..cut
    BY DEF Names
  <2>3. CASE q \in carried
    <3>1. q \in DOMAIN f /\ f[q] = <<c, old[q][2]>>
      BY <2>3
    <3>2. \A x : Resolves(s, q, x) <=> x = old[q]
      BY <2>3 DEF Resolves, old
    <3>3. old[q] \in Names /\ old[q][2] <= cut
      BY <1>3, <2>3
    <3> HIDE DEF f, carried
    <3> QED BY <2>1, <2>3, <3>1, <3>2, <3>3 DEF MapsTo
  <2>4. CASE q \notin carried
    <3>1. q \in DOMAIN f <=> q \in firsts
      BY <2>4
    <3>2. q \in firsts => f[q] = <<c, q[2]>>
      BY <2>4
    <3> HIDE DEF f, carried, firsts
    <3> QED BY <2>1, <2>2, <2>4, <3>1, <3>2 DEF MapsTo
  <2> QED BY <2>3, <2>4
<1> QED BY <1>1, <1>6, <1>7

-----------------------------------------------------------------------------
(* What a step may do.  Runs and turns keep what they are about, a thread    *)
(* grows by at most one new post, and new runs are forks.                    *)

NewPost(a) == [author |-> a, copyOf |-> NoPost]

\* An agent posts while it, its thread and its run have something left.
MayPost(r, a) ==
  a \in Agents =>
    /\ PostsLeft(r) > 0 /\ ThreadLeft(r) > 0
    /\ Cardinality(GeneratedBy(r, a)) < AgentCap(r, a)
    /\ run'[r].postsUsed = run[r].postsUsed + 1

SameRun(r) ==
  /\ run'[r].parent = run[r].parent /\ run'[r].inherits = run[r].inherits
  /\ run'[r].sampled = run[r].sampled /\ run'[r].maxPosts = run[r].maxPosts
  /\ run'[r].agentGrant = run[r].agentGrant /\ run'[r].threadGrant = run[r].threadGrant
  /\ run'[r].aliases = run[r].aliases /\ run[r].postsUsed <= run'[r].postsUsed
  /\ run[r].state # "created" => run'[r].state # "created"

SameThread(r) ==
  \/ thread'[r] = thread[r]
  \/ \E a \in Agents \cup {NoAgent} :
       MayPost(r, a) /\ thread'[r] = Append(thread[r], NewPost(a))

OldRuns ==
  /\ DOMAIN run \subseteq DOMAIN run'
  /\ \A r \in DOMAIN run : SameRun(r) /\ SameThread(r)

\* Run c is a fork of s.
IsFork(c, s, cut, inherit, t) ==
  /\ s \in DOMAIN run /\ s < c /\ cut \in 0..Len(thread[s]) /\ inherit \in BOOLEAN
  /\ t = 0 \/ (t \in DOMAIN turn /\ s = turn[t].run /\ cut = Cutoff(t))
  /\ run'[c] = Child(s, c, cut, inherit, t) /\ thread'[c] = Copied(s, cut)
NewRuns ==
  \A c \in DOMAIN run' \ DOMAIN run : \E s, cut, inherit, t : IsFork(c, s, cut, inherit, t)

\* An answer is the post its run's thread grows by.
SameTurn(t) ==
  LET r == turn[t].run
  IN  /\ turn'[t].run = r /\ turn'[t].agent = turn[t].agent /\ turn'[t].shown = turn[t].shown
      /\ turn'[t].state = "calling" => turn[t].state = "calling"
      /\ \/ turn'[t].post = turn[t].post
         \/ /\ turn[t].post = NoPost /\ turn'[t].state = "done"
            /\ turn'[t].post = <<r, Len(thread[r]) + 1>>
            /\ Len(thread'[r]) = Len(thread[r]) + 1
TurnsGrow ==
  /\ DOMAIN turn \subseteq DOMAIN turn'
  /\ \A t \in DOMAIN turn : SameTurn(t)
  /\ \A t \in DOMAIN turn' \ DOMAIN turn :
       turn'[t].run \in DOMAIN run /\ turn'[t].shown \subseteq AllPosts /\ turn'[t].post = NoPost

Grows == RowsOK' /\ OldRuns /\ NewRuns /\ TurnsGrow

LEMMA ChildRow ==
  ASSUME RowsOK, NEW s \in DOMAIN run, NEW c \in Nat, NEW cut \in 0..Len(thread[s]),
         NEW inherit \in BOOLEAN, NEW t \in Nat
  PROVE  /\ Child(s, c, cut, inherit, t) \in RunRows
         /\ Copied(s, cut) \in Seq(PostRows) /\ Len(Copied(s, cut)) = cut
<1>1. s \in Nat /\ run[s] \in RunRows /\ cut \in Nat /\ cut <= Len(thread[s])
      /\ thread[s] \in Seq(PostRows)
  BY RunRow
<1> DEFINE mp == IF inherit THEN PostsLeft(s) ELSE run[s].maxPosts
           ag == [a \in Agents |-> IF inherit THEN AgentLeft(s, a) ELSE AgentQuota]
           tg == IF inherit THEN ThreadLeft(s) ELSE ThreadQuota
           al == PostMap(s, c, cut)
<1>2. mp \in Nat
  BY <1>1, CapTypes DEF RunRows
<1>3. ag \in [Agents -> Nat]
  <2>1. \A a \in Agents : AgentLeft(s, a) \in Nat
    BY CapTypes
  <2> QED BY <2>1, ConstantTypes
<1>4. tg \in Nat
  BY CapTypes, ConstantTypes
<1>5. al \in Maps
  BY <1>1, PostMapIs
<1>6. Child(s, c, cut, inherit, t)
        = [state |-> "created", blocked |-> FALSE, parent |-> s, inherits |-> inherit,
           sampled |-> t, postsUsed |-> 0, maxPosts |-> mp, agentGrant |-> ag,
           threadGrant |-> tg, aliases |-> al]
  BY DEF Child
<1> HIDE DEF mp, ag, tg, al
<1>7. Child(s, c, cut, inherit, t) \in RunRows
  BY <1>1, <1>2, <1>3, <1>4, <1>5, <1>6 DEF RunRows
<1>8. Copied(s, cut) \in Seq(PostRows) /\ Len(Copied(s, cut)) = cut
  <2>1. ASSUME NEW i \in 1..cut
        PROVE  [author |-> thread[s][i].author, copyOf |-> <<s, i>>] \in PostRows
    <3>1. i \in DOMAIN thread[s] /\ i \in Nat
      BY <1>1
    <3>2. thread[s][i] \in PostRows
      BY <3>1, RunRow
    <3>3. thread[s][i].author \in Agents \cup {NoAgent} /\ <<s, i>> \in Names
      BY <1>1, <3>1, <3>2 DEF PostRows, Names
    <3> QED BY <3>3 DEF PostRows
  <2> DEFINE row(i) == [author |-> thread[s][i].author, copyOf |-> <<s, i>>]
  <2>2. Copied(s, cut) = [i \in 1..cut |-> row(i)] /\ \A i \in 1..cut : row(i) \in PostRows
    BY <2>1 DEF Copied
  <2> HIDE DEF row
  <2> QED BY <1>1, <2>2
<1> QED BY <1>7, <1>8

LEMMA Concatenated ==
  ASSUME NEW S, NEW u \in Seq(S), NEW v \in Seq(S), NEW m, NEW n, Len(u) = m, Len(v) = n
  PROVE  /\ u \o v \in Seq(S) /\ Len(u \o v) = m + n
         /\ \A i \in 1..m : (u \o v)[i] = u[i]
         /\ \A i \in 1..n : (u \o v)[m + i] = v[i]
OBVIOUS

\* Forks are appended.
LEMMA BranchShape ==
  ASSUME RowsOK, NEW s \in DOMAIN run, NEW cut \in 0..Len(thread[s]),
         NEW inherit \in BOOLEAN, NEW t \in Nat, NEW n \in Nat,
         Branch(s, cut, inherit, t, n),
         t = 0 \/ (t \in DOMAIN turn /\ s = turn[t].run /\ cut = Cutoff(t))
  PROVE  /\ run' \in Seq(RunRows) /\ thread' \in Seq(Seq(PostRows))
         /\ Len(thread') = Len(run') /\ Len(run') = Len(run) + n
         /\ OldRuns /\ NewRuns /\ DOMAIN run' = 1..(Len(run) + n)
         /\ \A r \in DOMAIN run : run'[r] = run[r] /\ thread'[r] = thread[r]
<1> DEFINE L == Len(run)
           rs == [i \in 1..n |-> Child(s, L + i, cut, inherit, t)]
           ts == [i \in 1..n |-> Copied(s, cut)]
<1>1. /\ run \in Seq(RunRows) /\ thread \in Seq(Seq(PostRows)) /\ Len(thread) = L /\ L \in Nat
      /\ s \in 1..L
  BY RunRow DEF RowsOK
<1>2. rs \in Seq(RunRows) /\ Len(rs) = n
  <2>1. \A i \in 1..n : Child(s, L + i, cut, inherit, t) \in RunRows
    BY <1>1, ChildRow
  <2> QED BY <2>1
<1>3. ts \in Seq(Seq(PostRows)) /\ Len(ts) = n
  <2>1. Copied(s, cut) \in Seq(PostRows)
    <3>1. 0 \in Nat
      OBVIOUS
    <3> QED BY <3>1, ChildRow
  <2> QED BY <2>1
<1>4. run' = run \o rs /\ thread' = thread \o ts
  BY DEF Branch
<1>5. \A i \in 1..n : rs[i] = Child(s, L + i, cut, inherit, t) /\ ts[i] = Copied(s, cut)
  OBVIOUS
<1> HIDE DEF rs, ts
<1>6. /\ run' \in Seq(RunRows) /\ thread' \in Seq(Seq(PostRows))
      /\ Len(run') = L + n /\ Len(thread') = L + n
      /\ \A r \in 1..L : run'[r] = run[r] /\ thread'[r] = thread[r]
      /\ \A i \in 1..n : run'[L + i] = rs[i] /\ thread'[L + i] = ts[i]
  <2> HIDE DEF L
  <2>1. /\ run \o rs \in Seq(RunRows) /\ Len(run \o rs) = L + n
        /\ \A r \in 1..L : (run \o rs)[r] = run[r]
        /\ \A i \in 1..n : (run \o rs)[L + i] = rs[i]
    <3>1. run \in Seq(RunRows) /\ rs \in Seq(RunRows) /\ Len(run) = L /\ Len(rs) = n
      BY <1>1, <1>2 DEF L
    <3> QED BY <3>1, Concatenated
  <2>2. /\ thread \o ts \in Seq(Seq(PostRows)) /\ Len(thread \o ts) = L + n
        /\ \A r \in 1..L : (thread \o ts)[r] = thread[r]
        /\ \A i \in 1..n : (thread \o ts)[L + i] = ts[i]
    <3> DEFINE T == Seq(PostRows)
    <3>1. thread \in Seq(T) /\ ts \in Seq(T) /\ Len(thread) = L /\ Len(ts) = n
      BY <1>1, <1>3
    <3> HIDE DEF T
    <3>2. /\ thread \o ts \in Seq(T) /\ Len(thread \o ts) = L + n
          /\ \A r \in 1..L : (thread \o ts)[r] = thread[r]
          /\ \A i \in 1..n : (thread \o ts)[L + i] = ts[i]
      BY <3>1, Concatenated
    <3> QED BY <3>2 DEF T
  <2> QED BY <1>4, <2>1, <2>2
<1>7. DOMAIN run = 1..L /\ DOMAIN run' = 1..(L + n)
  BY <1>1, <1>6
<1> HIDE DEF L
<1>8. OldRuns
  <2>1. DOMAIN run \subseteq DOMAIN run'
    BY <1>1, <1>7
  <2>2. ASSUME NEW r \in DOMAIN run PROVE SameRun(r) /\ SameThread(r)
    <3>1. run'[r] = run[r] /\ thread'[r] = thread[r]
      BY <1>6, <1>7
    <3>2. run[r].postsUsed \in Nat
      BY RunRow DEF RunRows
    <3> QED BY <3>1, <3>2 DEF SameRun, SameThread
  <2> QED BY <2>1, <2>2 DEF OldRuns
<1>9. NewRuns
  <2> SUFFICES ASSUME NEW c \in DOMAIN run' \ DOMAIN run
               PROVE  IsFork(c, s, cut, inherit, t)
    BY DEF NewRuns
  <2>1. PICK i \in 1..n : c = L + i
    <3>1. c \in 1..(L + n) /\ c \notin 1..L
      BY <1>7
    <3>2. c - L \in 1..n /\ c = L + (c - L)
      BY <1>1, <3>1
    <3> QED BY <3>2
  <2>2. run'[c] = Child(s, c, cut, inherit, t) /\ thread'[c] = Copied(s, cut)
    BY <1>5, <1>6, <2>1
  <2>3. s < c
    BY <1>1, <2>1
  <2> QED BY <2>1, <2>2, <2>3 DEF IsFork
<1>10. Len(run) = L
  BY DEF L
<1> QED BY <1>6, <1>7, <1>8, <1>9, <1>10

-----------------------------------------------------------------------------
(* What a step keeps, whatever it does within Grows *)

\* Posts stay, copies stay as they are, and no run inherits anything later.
LEMMA OldPosts ==
  ASSUME RowsOK, Grows, NEW r \in DOMAIN run
  PROVE  /\ r \in DOMAIN run' /\ DOMAIN thread[r] \subseteq DOMAIN thread'[r]
         /\ \A i \in DOMAIN thread[r] : thread'[r][i] = thread[r][i]
         /\ \A i \in DOMAIN thread'[r] :
              i \in DOMAIN thread[r] \/ (i = Len(thread[r]) + 1 /\ thread'[r][i].copyOf = NoPost)
         /\ OwnPosts(r) \subseteq OwnPosts(r)' /\ Inherited(r)' = Inherited(r)
         /\ \A p \in OwnPosts(r) : Post(p)' = Post(p)
         /\ \A a : InheritedBy(r, a)' = InheritedBy(r, a)
         /\ InheritedByAll(r)' = InheritedByAll(r)
<1>1. r \in DOMAIN run' /\ SameThread(r)
  BY DEF Grows, OldRuns
<1>2. thread[r] \in Seq(PostRows) /\ DOMAIN thread[r] = 1..Len(thread[r]) /\ Len(thread[r]) \in Nat
  BY RunRow
<1>3. /\ DOMAIN thread[r] \subseteq DOMAIN thread'[r]
      /\ \A i \in DOMAIN thread[r] : thread'[r][i] = thread[r][i]
      /\ \A i \in DOMAIN thread'[r] :
           i \in DOMAIN thread[r] \/ (i = Len(thread[r]) + 1 /\ thread'[r][i].copyOf = NoPost)
  <2>1. CASE thread'[r] = thread[r]
    BY <2>1
  <2>2. ASSUME NEW a, thread'[r] = Append(thread[r], NewPost(a))
        PROVE <1>3
    <3> DEFINE n == Len(thread[r])
               x == NewPost(a)
    <3>1. x.copyOf = NoPost
      BY DEF NewPost
    <3>2. /\ DOMAIN thread'[r] = 1..(n + 1)
          /\ \A i \in 1..n : thread'[r][i] = thread[r][i]
          /\ thread'[r][n + 1] = x
      <4> HIDE DEF x
      <4> QED BY <1>2, <2>2 DEF x
    <3> HIDE DEF x
    <3> QED BY <1>2, <3>1, <3>2
  <2> QED BY <1>1, <2>1, <2>2 DEF SameThread
<1>4. OwnPosts(r) \subseteq OwnPosts(r)'
  BY <1>3 DEF OwnPosts
<1>5. \A p \in OwnPosts(r) : Post(p)' = Post(p)
  BY <1>3 DEF OwnPosts, Post
<1>6. Inherited(r)' = Inherited(r)
  <2>1. ASSUME NEW p \in OwnPosts(r)' PROVE p \in OwnPosts(r) \/ Post(p)'.copyOf = NoPost
    BY <1>3 DEF OwnPosts, Post
  <2> QED BY <1>4, <1>5, <2>1 DEF Inherited
<1>7. Inherited(r) \subseteq OwnPosts(r)
  BY DEF Inherited
<1> QED BY <1>1, <1>3, <1>4, <1>5, <1>6, <1>7 DEF InheritedBy, InheritedByAll

\* What a run generated stays, and grows by the post of an agent that may post.
LEMMA OldGenerated ==
  ASSUME RowsOK, Grows, NEW r \in DOMAIN run
  PROVE  \/ /\ thread'[r] = thread[r] /\ Generated(r)' = Generated(r)
            /\ \A b \in Agents : GeneratedBy(r, b)' = GeneratedBy(r, b)
         \/ \E a \in Agents \cup {NoAgent} : \E x :
              /\ MayPost(r, a) /\ x \notin Generated(r)
              /\ Generated(r)' = IF a = NoAgent THEN Generated(r) ELSE Generated(r) \cup {x}
              /\ \A b \in Agents : GeneratedBy(r, b)' =
                   IF b = a THEN GeneratedBy(r, b) \cup {x} ELSE GeneratedBy(r, b)
<1>1. SameThread(r)
  BY DEF Grows, OldRuns
<1>2. thread[r] \in Seq(PostRows) /\ DOMAIN thread[r] = 1..Len(thread[r]) /\ Len(thread[r]) \in Nat
  BY RunRow
<1>3. CASE thread'[r] = thread[r]
  <2>1. OwnPosts(r)' = OwnPosts(r)
    BY <1>3 DEF OwnPosts
  <2>2. \A p \in OwnPosts(r) : Post(p)' = Post(p)
    BY OldPosts
  <2>3. Inherited(r)' = Inherited(r)
    BY OldPosts
  <2>4. Generated(r)' = Generated(r)
    BY <2>1, <2>2, <2>3 DEF Generated
  <2>5. Generated(r) \subseteq OwnPosts(r)
    BY DEF Generated
  <2> QED BY <1>3, <2>2, <2>4, <2>5 DEF GeneratedBy
<1>4. ASSUME NEW a \in Agents \cup {NoAgent}, MayPost(r, a),
             thread'[r] = Append(thread[r], NewPost(a))
      PROVE  \E x : /\ MayPost(r, a) /\ x \notin Generated(r)
                    /\ Generated(r)' = IF a = NoAgent THEN Generated(r) ELSE Generated(r) \cup {x}
                    /\ \A b \in Agents : GeneratedBy(r, b)' =
                         IF b = a THEN GeneratedBy(r, b) \cup {x} ELSE GeneratedBy(r, b)
  <2> DEFINE w == NewPost(a)
  <2>0. PICK n \in Nat : n = Len(thread[r])
    BY <1>2
  <2>x. PICK x : x = <<r, n + 1>>
    OBVIOUS
  <2>1. w.copyOf = NoPost /\ w.author = a
    BY DEF NewPost
  <2>2. DOMAIN thread'[r] = 1..(n + 1) /\ thread'[r][n + 1] = w
    <3> HIDE DEF w
    <3> QED BY <1>2, <1>4, <2>0 DEF w
  <2>3. OwnPosts(r)' = OwnPosts(r) \cup {x} /\ x \notin OwnPosts(r)
    BY <1>2, <2>0, <2>x, <2>2 DEF OwnPosts
  <2>4. Post(x)' = w
    BY <2>2, <2>x DEF Post
  <2> HIDE DEF w
  <2>5. \A p \in OwnPosts(r) : Post(p)' = Post(p)
    BY OldPosts
  <2>6. Inherited(r)' = Inherited(r) /\ Inherited(r) \subseteq OwnPosts(r)
    BY OldPosts DEF Inherited
  <2>7. Generated(r)' = IF a = NoAgent THEN Generated(r) ELSE Generated(r) \cup {x}
    BY <2>1, <2>3, <2>4, <2>5, <2>6 DEF Generated
  <2>8. Generated(r) \subseteq OwnPosts(r)
    BY DEF Generated
  <2>9. ASSUME NEW b \in Agents
        PROVE  GeneratedBy(r, b)' = IF b = a THEN GeneratedBy(r, b) \cup {x} ELSE GeneratedBy(r, b)
    <3>1. b # NoAgent
      BY ConstantTypes
    <3> QED BY <2>1, <2>4, <2>5, <2>7, <2>8, <3>1 DEF GeneratedBy
  <2> QED BY <1>4, <2>3, <2>7, <2>8, <2>9
<1> QED BY <1>1, <1>3, <1>4 DEF SameThread

\* A fork has the copies and nothing of its own.
LEMMA ForkPosts ==
  ASSUME RowsOK, Grows, NEW c \in DOMAIN run' \ DOMAIN run,
         NEW s, NEW cut, NEW inherit, NEW t, IsFork(c, s, cut, inherit, t)
  PROVE  /\ c \in Nat /\ s \in Nat \ {0} /\ cut \in Nat /\ DOMAIN thread'[c] = 1..cut
         /\ \A i \in 1..cut : /\ thread'[c][i] = [author |-> thread[s][i].author, copyOf |-> <<s, i>>]
                              /\ i \in DOMAIN thread[s] /\ <<s, i>> # NoPost
         /\ Inherited(c)' = {<<c, i>> : i \in 1..cut} /\ Generated(c)' = {}
         /\ \A i \in 1..cut : Post(<<c, i>>)' = thread'[c][i]
         /\ \A i \in 1..cut : thread'[c][i].copyOf = <<s, i>>
         /\ \A i \in 1..cut : thread'[c][i].author = thread[s][i].author
<1>1. c \in Nat /\ s \in 1..Len(run) /\ Len(thread[s]) \in Nat /\ Len(run) \in Nat
      /\ DOMAIN thread[s] = 1..Len(thread[s])
  <2>1. run' \in Seq(RunRows)
    BY DEF Grows, RowsOK
  <2>2. DOMAIN run' = 1..Len(run')
    BY <2>1
  <2> QED BY <2>2, RunRow DEF IsFork
<1>2. cut \in 0..Len(thread[s]) /\ thread'[c] = Copied(s, cut)
  BY DEF IsFork
<1>3. DOMAIN thread'[c] = 1..cut
  BY <1>2 DEF Copied
<1>4. ASSUME NEW i \in 1..cut
      PROVE  /\ thread'[c][i] = [author |-> thread[s][i].author, copyOf |-> <<s, i>>]
             /\ i \in DOMAIN thread[s] /\ <<s, i>> # NoPost
  BY <1>1, <1>2 DEF Copied, NoPost
<1>5. \A i \in 1..cut : Post(<<c, i>>)' = thread'[c][i]
  BY DEF Post
<1>6. OwnPosts(c)' = {<<c, i>> : i \in 1..cut}
  BY <1>3 DEF OwnPosts
<1>7. ASSUME NEW i \in 1..cut
      PROVE  /\ Post(<<c, i>>)'.copyOf # NoPost /\ thread'[c][i].copyOf = <<s, i>>
             /\ thread'[c][i].author = thread[s][i].author
  <2> DEFINE q == <<s, i>>
  <2>0. thread'[c][i] = [author |-> thread[s][i].author, copyOf |-> q] /\ q # NoPost
    BY <1>4
  <2> HIDE DEF q
  <2>1. thread'[c][i].copyOf = q /\ q # NoPost /\ thread'[c][i].author = thread[s][i].author
    BY <2>0
  <2> QED BY <1>5, <2>1 DEF q
<1>8. Inherited(c)' = {<<c, i>> : i \in 1..cut}
  BY <1>6, <1>7 DEF Inherited
<1>9. Generated(c)' = {}
  BY <1>6, <1>8 DEF Generated
<1> QED BY <1>1, <1>2, <1>3, <1>4, <1>5, <1>7, <1>8, <1>9

\* Where the turn saw its thread, and before its own answer.
LEMMA CutoffIs ==
  ASSUME RowsOK, TurnsOK, NEW t \in DOMAIN turn
  PROVE  /\ Cutoff(t) \in 0..Len(thread[turn[t].run])
         /\ \A p \in SeenHere(t) : /\ p \in OwnPosts(turn[t].run) /\ p[2] <= Cutoff(t)
                                   /\ p # NoPost
         /\ turn[t].post # NoPost => Cutoff(t) < turn[t].post[2]
<1> DEFINE s == turn[t].run
           ps == SeenHere(t)
           n == Len(thread[s])
<1>1. s \in DOMAIN run /\ s \in Nat /\ s # 0 /\ n \in Nat /\ DOMAIN thread[s] = 1..n
  BY RunRow DEF TurnsOK
<1>2. ASSUME NEW p \in ps PROVE p \in OwnPosts(s) /\ p[2] \in 1..n /\ p # NoPost
  <2>1. p \in AllPosts /\ p[1] = s
    BY DEF SeenHere, TurnsOK
  <2>2. PICK r \in DOMAIN run : p \in OwnPosts(r)
    BY <2>1 DEF AllPosts
  <2>3. p[1] = r /\ p[2] \in DOMAIN thread[r]
    BY <2>2, PostsAre
  <2> QED BY <1>1, <2>1, <2>2, <2>3 DEF NoPost
<1>3. turn[t].post # NoPost => turn[t].post[2] \in 1..n
  <2>1. turn[t].post # NoPost => turn[t].post \in OwnPosts(s)
    BY DEF TurnsOK
  <2> QED BY <1>1, <2>1, PostsAre
<1>4. turn[t].post # NoPost => \A p \in ps : p[2] < turn[t].post[2]
  BY DEF TurnsOK
<1> HIDE DEF s, n, ps
<1>5. CASE ps = {}
  <2>1. Last(ps) = 0
    BY <1>5 DEF Last
  <2>2. Cutoff(t) = IF turn[t].post # NoPost THEN turn[t].post[2] - 1 ELSE 0
    BY <1>5, <2>1 DEF Cutoff, ps
  <2> QED BY <1>1, <1>3, <1>5, <2>2 DEF s, n, ps
<1>6. CASE ps # {}
  <2>1. \E p \in ps : \A q \in ps : q[2] <= p[2]
    <3> DEFINE Q == {q[2] : q \in ps}
    <3>1. Q \subseteq 0..n /\ Q # {}
      BY <1>2, <1>6
    <3>2. PICK x \in Q : \A y \in Q : y <= x
      <4> HIDE DEF Q
      <4> QED BY <1>1, <3>1, GreatestOf
    <3> QED BY <3>2
  <2> DEFINE m == CHOOSE p \in ps : \A q \in ps : q[2] <= p[2]
  <2>2. m \in ps /\ \A q \in ps : q[2] <= m[2]
    BY <2>1
  <2> HIDE DEF m
  <2>3. Last(ps) = m[2]
    BY <1>6 DEF Last, m
  <2>4. Cutoff(t) = m[2]
    BY <1>6, <2>3 DEF Cutoff, ps
  <2>5. m[2] \in 1..n
    BY <1>2, <2>2
  <2> QED BY <1>1, <1>2, <1>4, <2>2, <2>4, <2>5 DEF s, n, ps
<1> QED BY <1>5, <1>6

\* Copies of old runs stay, and a fork copies from its parent.
LEMMA GrowthKeepsCopies ==
  ASSUME RowsOK, CopiesOK, Grows
  PROVE  CopiesOK'
<1> SUFFICES ASSUME NEW r \in DOMAIN run', NEW i \in DOMAIN thread'[r],
                    thread'[r][i].copyOf # NoPost
             PROVE  LET s == run'[r].parent
                    IN  /\ s \in 1..(r - 1) /\ thread'[r][i].copyOf = <<s, i>>
                        /\ i \in DOMAIN thread'[s]
                        /\ thread'[s][i].author = thread'[r][i].author
  BY DEF CopiesOK
<1>1. CASE r \in DOMAIN run
  <2> DEFINE s == run[r].parent
  <2>1. i \in DOMAIN thread[r] /\ thread'[r][i] = thread[r][i]
    BY <1>1, OldPosts
  <2>2. run'[r].parent = s
    BY <1>1 DEF Grows, OldRuns, SameRun
  <2>3. /\ s \in 1..(r - 1) /\ thread[r][i].copyOf = <<s, i>>
        /\ i \in DOMAIN thread[s] /\ thread[s][i].author = thread[r][i].author
    BY <1>1, <2>1 DEF CopiesOK
  <2>4. s \in DOMAIN run
    <3>1. r \in 1..Len(run) /\ Len(run) \in Nat /\ DOMAIN run = 1..Len(run)
      BY <1>1, RunRow DEF RowsOK
    <3> QED BY <2>3, <3>1
  <2>5. i \in DOMAIN thread'[s] /\ thread'[s][i] = thread[s][i]
    BY <2>3, <2>4, OldPosts
  <2> QED BY <2>1, <2>2, <2>3, <2>5
<1>2. CASE r \notin DOMAIN run
  <2>1. PICK s, cut, inherit, t : IsFork(r, s, cut, inherit, t)
    BY <1>2 DEF Grows, NewRuns
  <2>2. run'[r].parent = s /\ s \in DOMAIN run /\ s < r
    BY <2>1 DEF IsFork, Child
  <2>3. /\ r \in Nat /\ s \in Nat \ {0} /\ i \in 1..cut
        /\ thread'[r][i] = [author |-> thread[s][i].author, copyOf |-> <<s, i>>]
        /\ i \in DOMAIN thread[s]
    BY <1>2, <2>1, ForkPosts
  <2>4. i \in DOMAIN thread'[s] /\ thread'[s][i] = thread[s][i]
    BY <2>2, <2>3, OldPosts
  <2>5. thread'[r][i].copyOf = <<s, i>> /\ thread'[r][i].author = thread[s][i].author
    BY <2>3
  <2> QED BY <2>2, <2>3, <2>4, <2>5
<1> QED BY <1>1, <1>2

\* An answer is a post of the turn's run, after all that the turn saw there.
LEMMA GrowthKeepsTurns ==
  ASSUME RowsOK, TurnsOK, Grows
  PROVE  TurnsOK'
<1>1. DOMAIN run \subseteq DOMAIN run'
  BY DEF Grows, OldRuns
<1>2. AllPosts \subseteq AllPosts'
  <2> SUFFICES ASSUME NEW r \in DOMAIN run, NEW p \in OwnPosts(r) PROVE p \in AllPosts'
    BY DEF AllPosts
  <2>1. p \in OwnPosts(r)' /\ r \in DOMAIN run'
    BY OldPosts
  <2> QED BY <2>1 DEF AllPosts
<1> SUFFICES ASSUME NEW t \in DOMAIN turn', NEW r, r = turn'[t].run
             PROVE  /\ r \in DOMAIN run' /\ turn'[t].shown \subseteq AllPosts'
                    /\ turn'[t].state = "calling" => turn'[t].post = NoPost
                    /\ turn'[t].post # NoPost =>
                         /\ turn'[t].post \in OwnPosts(r)'
                         /\ \A p \in SeenHere(t)' : p[2] < turn'[t].post[2]
  BY DEF TurnsOK, OwnPosts
<1>3. CASE t \notin DOMAIN turn
  BY <1>1, <1>2, <1>3 DEF Grows, TurnsGrow
<1>4. CASE t \in DOMAIN turn
  <2>1. SameTurn(t)
    BY <1>4 DEF Grows, TurnsGrow
  <2>3. turn[t].run = r /\ turn'[t].shown = turn[t].shown
    BY <2>1 DEF SameTurn
  <2>2. r \in DOMAIN run /\ turn[t].shown \subseteq AllPosts
    BY <1>4, <2>3 DEF TurnsOK
  <2>4. SeenHere(t)' = SeenHere(t)
    BY <2>3, r = turn'[t].run DEF SeenHere
  <2>5. CASE turn'[t].post = turn[t].post
    <3>1. OwnPosts(r) \subseteq OwnPosts(r)'
      BY <2>2, OldPosts
    <3>2. turn'[t].state = "calling" => turn[t].state = "calling"
      BY <2>1 DEF SameTurn
    <3>3. /\ turn[t].state = "calling" => turn[t].post = NoPost
          /\ turn[t].post # NoPost => /\ turn[t].post \in OwnPosts(r)
                                      /\ \A p \in SeenHere(t) : p[2] < turn[t].post[2]
      BY <1>4, <2>3 DEF TurnsOK
    <3> QED BY <1>1, <1>2, <2>2, <2>3, <2>4, <2>5, <3>1, <3>2, <3>3
  <2>6. CASE /\ turn[t].post = NoPost /\ turn'[t].state = "done"
             /\ turn'[t].post = <<r, Len(thread[r]) + 1>>
             /\ Len(thread'[r]) = Len(thread[r]) + 1
    <3>1. thread'[r] \in Seq(PostRows) /\ Len(thread[r]) \in Nat
      <4>1. RowsOK' /\ r \in DOMAIN run'
        BY <1>1, <2>2 DEF Grows
      <4>2. thread'[r] \in Seq(PostRows)
        BY <4>1 DEF RowsOK
      <4> QED BY <2>2, <4>2, RunRow
    <3>2. Len(thread[r]) + 1 \in DOMAIN thread'[r]
      BY <2>6, <3>1
    <3>3. turn'[t].post \in OwnPosts(r)'
      BY <2>6, <3>2 DEF OwnPosts
    <3>4. \A p \in SeenHere(t) : p[2] <= Len(thread[r]) /\ p[2] \in Nat
      <4> SUFFICES ASSUME NEW p \in SeenHere(t) PROVE p[2] <= Len(thread[r]) /\ p[2] \in Nat
        OBVIOUS
      <4>1. p \in OwnPosts(r)
        BY <1>4, <2>3, CutoffIs
      <4>2. p[2] \in DOMAIN thread[r]
        BY <2>2, <4>1, PostsAre
      <4>3. DOMAIN thread[r] = 1..Len(thread[r])
        BY <2>2, RunRow
      <4> QED BY <3>1, <4>2, <4>3
    <3>5. turn'[t].post[2] = Len(thread[r]) + 1
      BY <2>6
    <3>6. \A p \in SeenHere(t)' : p[2] < turn'[t].post[2]
      <4> SUFFICES ASSUME NEW p \in SeenHere(t) PROVE p[2] < turn'[t].post[2]
        BY <2>4
      <4> QED BY <3>1, <3>4, <3>5
    <3>7. turn'[t].state # "calling"
      BY <2>6
    <3> QED BY <1>1, <1>2, <2>2, <2>3, <3>3, <3>6, <3>7
  <2> QED BY <2>1, <2>3, <2>5, <2>6 DEF SameTurn
<1> QED BY <1>3, <1>4

\* A sample has what its turn saw, whatever is posted later.
LEMMA GrowthKeepsSamples ==
  ASSUME RowsOK, TurnsOK, CopiesOK, SamplesOK, Grows
  PROVE  SamplesOK'
<1> SUFFICES ASSUME NEW r \in DOMAIN run', NEW t, NEW s,
                    t = run'[r].sampled, t # 0, s = run'[r].parent
             PROVE  /\ t \in DOMAIN turn' /\ s = turn'[t].run
                    /\ \A p \in SeenHere(t)' : p[2] \in DOMAIN thread'[r] /\ thread'[r][p[2]].copyOf = p
                    /\ turn'[t].post # NoPost =>
                         \A i \in DOMAIN thread'[r] :
                           thread'[r][i].copyOf # NoPost => i < turn'[t].post[2]
  BY DEF SamplesOK, SeenHere
<1>1. /\ t \in DOMAIN turn /\ s = turn[t].run /\ s \in DOMAIN run
      /\ \A p \in SeenHere(t) : p[2] \in DOMAIN thread'[r] /\ thread'[r][p[2]].copyOf = p
      /\ \A i \in DOMAIN thread'[r] : thread'[r][i].copyOf # NoPost =>
           /\ i \in DOMAIN thread[s]
           /\ turn[t].post # NoPost => i < turn[t].post[2]
  <2>1. CASE r \in DOMAIN run
    <3>1. run[r].sampled = t /\ run[r].parent = s
      BY <2>1 DEF Grows, OldRuns, SameRun
    <3>2. /\ DOMAIN thread[r] \subseteq DOMAIN thread'[r]
          /\ \A i \in DOMAIN thread[r] : thread'[r][i] = thread[r][i]
          /\ \A i \in DOMAIN thread'[r] :
               i \in DOMAIN thread[r] \/ (i = Len(thread[r]) + 1 /\ thread'[r][i].copyOf = NoPost)
      BY <2>1, OldPosts
    <3>3. /\ t \in DOMAIN turn /\ s = turn[t].run
          /\ \A p \in SeenHere(t) : p[2] \in DOMAIN thread[r] /\ thread[r][p[2]].copyOf = p
          /\ turn[t].post # NoPost =>
               \A i \in DOMAIN thread[r] : thread[r][i].copyOf # NoPost => i < turn[t].post[2]
      <4>1. run[r].sampled # 0
        BY <3>1
      <4> QED BY <2>1, <3>1, <4>1 DEF SamplesOK
    <3>4. \A i \in DOMAIN thread[r] : thread[r][i].copyOf # NoPost => i \in DOMAIN thread[s]
      BY <2>1, <3>1 DEF CopiesOK
    <3>5. s \in DOMAIN run
      BY <3>3 DEF TurnsOK
    <3> QED BY <3>2, <3>3, <3>4, <3>5
  <2>2. CASE r \notin DOMAIN run
    <3>1. PICK src, cut, inherit, tt : IsFork(r, src, cut, inherit, tt)
      BY <2>2 DEF Grows, NewRuns
    <3>2. t = tt /\ s = src
      BY <3>1 DEF IsFork, Child
    <3>3. t \in DOMAIN turn /\ s = turn[t].run /\ cut = Cutoff(t) /\ s \in DOMAIN run
      BY <3>1, <3>2 DEF IsFork
    <3>4. /\ cut \in Nat /\ DOMAIN thread'[r] = 1..cut
          /\ \A i \in 1..cut : /\ thread'[r][i].copyOf = <<s, i>>
                               /\ i \in DOMAIN thread[s]
      <4>1. r \in DOMAIN run' \ DOMAIN run
        BY <2>2
      <4>2. /\ cut \in Nat /\ DOMAIN thread'[r] = 1..cut
        BY <3>1, <4>1, ForkPosts
      <4>3. \A i \in 1..cut : thread'[r][i].copyOf = <<src, i>>
        BY <3>1, <4>1, ForkPosts
      <4>4. \A i \in 1..cut : i \in DOMAIN thread[src]
        BY <3>1, <4>1, ForkPosts
      <4> QED BY <3>2, <4>2, <4>3, <4>4
    <3>5. /\ \A p \in SeenHere(t) : p \in OwnPosts(s) /\ p[2] <= cut
          /\ turn[t].post # NoPost => cut < turn[t].post[2]
      BY <3>3, CutoffIs
    <3>6. ASSUME NEW p \in SeenHere(t)
          PROVE  p[2] \in DOMAIN thread'[r] /\ thread'[r][p[2]].copyOf = p
      <4>1. p = <<s, p[2]>> /\ p[2] \in DOMAIN thread[s]
        BY <3>3, <3>5, PostsAre
      <4>2. DOMAIN thread[s] = 1..Len(thread[s]) /\ Len(thread[s]) \in Nat
        BY <3>3, RunRow
      <4>3. p[2] \in 1..cut
        BY <3>4, <3>5, <4>1, <4>2
      <4> QED BY <3>4, <4>1, <4>3
    <3>7. ASSUME turn[t].post # NoPost, NEW i \in 1..cut PROVE i < turn[t].post[2]
      <4>1. turn[t].post \in Names
        BY <3>3, TurnRow DEF TurnRows
      <4>2. turn[t].post[2] \in Nat
        BY <4>1 DEF Names
      <4> QED BY <3>4, <3>5, <3>7, <4>2
    <3> QED BY <3>3, <3>4, <3>6, <3>7
  <2> QED BY <2>1, <2>2
<1>2. t \in DOMAIN turn' /\ SameTurn(t)
  BY <1>1 DEF Grows, TurnsGrow
<1>3. turn'[t].run = s /\ turn'[t].shown = turn[t].shown
  BY <1>1, <1>2 DEF SameTurn
<1>4. SeenHere(t)' = SeenHere(t)
  BY <1>1, <1>3 DEF SeenHere
<1>5. ASSUME turn'[t].post # NoPost, NEW i \in DOMAIN thread'[r], thread'[r][i].copyOf # NoPost
      PROVE  i < turn'[t].post[2]
  <2>1. CASE turn'[t].post = turn[t].post
    BY <1>1, <1>5, <2>1
  <2>2. CASE turn'[t].post = <<s, Len(thread[s]) + 1>>
    <3>1. i \in 1..Len(thread[s]) /\ Len(thread[s]) \in Nat
      <4>1. i \in DOMAIN thread[s] /\ s \in DOMAIN run
        BY <1>1, <1>5
      <4> QED BY <4>1, RunRow
    <3>2. turn'[t].post[2] = Len(thread[s]) + 1
      BY <2>2
    <3> QED BY <3>1, <3>2
  <2> QED BY <1>1, <1>2, <2>1, <2>2 DEF SameTurn
<1> QED BY <1>1, <1>2, <1>3, <1>4, <1>5

\* A fork can name, by the posts of its parent and by their aliases, its copies.
LEMMA GrowthKeepsAliases ==
  ASSUME RowsOK, CopiesOK, AliasesOK, Grows
  PROVE  AliasesOK'
<1> SUFFICES ASSUME NEW r \in DOMAIN run', NEW q \in Names, NEW p \in Names,
                    NEW s, s = run'[r].parent, NEW o, o = Post(p)'.copyOf
             PROVE  /\ Resolves(r, q, p)' => q[1] < r
                    /\ Resolves(r, q, p)' <=> p \in Inherited(r)' /\ (q = o \/ Resolves(s, q, o)')
  BY DEF AliasesOK, Resolves
<1>1. ASSUME NEW x \in DOMAIN run, NEW y, NEW z PROVE Resolves(x, y, z)' <=> Resolves(x, y, z)
  <2>1. run'[x].aliases = run[x].aliases
    BY DEF Grows, OldRuns, SameRun
  <2> QED BY <2>1 DEF Resolves
<1>2. CASE r \in DOMAIN run
  <2>1. Inherited(r)' = Inherited(r) /\ run[r].parent = s
    BY <1>2, OldPosts DEF Grows, OldRuns, SameRun
  <2>2. ASSUME p \in Inherited(r)
        PROVE  s \in DOMAIN run /\ o = Post(p).copyOf
    <3>1. p \in OwnPosts(r) /\ Post(p).copyOf # NoPost
      BY <2>2 DEF Inherited
    <3>2. Post(p) = thread[r][p[2]] /\ p[2] \in DOMAIN thread[r]
      BY <1>2, <3>1, PostsAre
    <3>3. s \in 1..(r - 1)
      BY <1>2, <2>1, <3>1, <3>2 DEF CopiesOK
    <3>4. r \in 1..Len(run) /\ Len(run) \in Nat /\ DOMAIN run = 1..Len(run)
      BY <1>2, RunRow DEF RowsOK
    <3>5. s \in DOMAIN run
      BY <3>3, <3>4
    <3>6. Post(p)' = Post(p)
      BY <1>2, <3>1, OldPosts
    <3> QED BY <3>5, <3>6
  <2>3. /\ Resolves(r, q, p) => q[1] < r
        /\ Resolves(r, q, p) <=>
             p \in Inherited(r) /\ (q = Post(p).copyOf \/ Resolves(s, q, Post(p).copyOf))
    BY <1>2, <2>1 DEF AliasesOK
  <2>4. Resolves(r, q, p)' <=> Resolves(r, q, p)
    BY <1>1, <1>2
  <2>5. CASE p \in Inherited(r)
    <3>1. Resolves(s, q, o)' <=> Resolves(s, q, o)
      BY <1>1, <2>2, <2>5
    <3> QED BY <2>1, <2>2, <2>3, <2>4, <2>5, <3>1
  <2>6. CASE p \notin Inherited(r)
    BY <2>1, <2>3, <2>4, <2>6
  <2> QED BY <2>5, <2>6
<1>3. CASE r \notin DOMAIN run
  <2>1. PICK cut, inherit, t : IsFork(r, s, cut, inherit, t)
    <3>1. PICK src, cut, inherit, t : IsFork(r, src, cut, inherit, t)
      BY <1>3 DEF Grows, NewRuns
    <3>2. src = s
      BY <3>1 DEF IsFork, Child
    <3> QED BY <3>1, <3>2
  <2>2. s \in DOMAIN run /\ s < r /\ run'[r].aliases = PostMap(s, r, cut)
    BY <2>1 DEF IsFork, Child
  <2>3. r \in DOMAIN run' \ DOMAIN run
    BY <1>3
  <2>4. /\ r \in Nat /\ s \in Nat \ {0} /\ cut \in Nat
        /\ Inherited(r)' = {<<r, i>> : i \in 1..cut}
    BY <2>1, <2>3, ForkPosts
  <2>5. \A i \in 1..cut : i \in DOMAIN thread[s]
    BY <2>1, <2>3, ForkPosts
  <2>6. \A i \in 1..cut : Post(<<r, i>>)'.copyOf = <<s, i>>
    <3>1. \A i \in 1..cut : Post(<<r, i>>)' = thread'[r][i]
      BY <2>1, <2>3, ForkPosts
    <3>2. \A i \in 1..cut : thread'[r][i].copyOf = <<s, i>>
      BY <2>1, <2>3, ForkPosts
    <3> QED BY <3>1, <3>2
  <2>7. Resolves(r, q, p)' <=>
          \/ \E x \in Names : Resolves(s, q, x) /\ x[2] <= cut /\ p = <<r, x[2]>>
          \/ /\ ~ \E x \in Names : Resolves(s, q, x) /\ x[2] <= cut
             /\ q[1] = s /\ q[2] \in 1..cut /\ p = <<r, q[2]>>
    <3>1. Resolves(r, q, p)' <=> q \in DOMAIN PostMap(s, r, cut) /\ PostMap(s, r, cut)[q] = p
      BY <2>2 DEF Resolves
    <3>2. (q \in DOMAIN PostMap(s, r, cut) /\ PostMap(s, r, cut)[q] = p)
            <=> MapsTo(s, r, cut, q, p)
      BY <2>2, <2>4, PostMapIs
    <3> QED BY <3>1, <3>2 DEF MapsTo
  <2>8. ASSUME NEW x \in Names, Resolves(s, q, x)
        PROVE  /\ q[1] < s /\ x[2] \in Nat /\ x[2] >= 1 /\ x = <<s, x[2]>>
    <3>1. q[1] < s /\ x \in Inherited(s)
      BY <2>2, <2>8 DEF AliasesOK
    <3>2. x \in OwnPosts(s)
      BY <3>1 DEF Inherited
    <3>3. x = <<s, x[2]>> /\ x[2] \in DOMAIN thread[s] /\ DOMAIN thread[s] = 1..Len(thread[s])
          /\ Len(thread[s]) \in Nat
      BY <2>2, <3>2, PostsAre, RunRow
    <3> QED BY <3>1, <3>3
  <2>9. q = <<q[1], q[2]>> /\ q[1] \in Nat /\ q[2] \in Nat
    BY DEF Names
  <2>10. ASSUME Resolves(r, q, p)'
         PROVE  /\ q[1] < r
                /\ p \in Inherited(r)' /\ (q = o \/ Resolves(s, q, o)')
    <3>1. CASE \E x \in Names : Resolves(s, q, x) /\ x[2] <= cut /\ p = <<r, x[2]>>
      <4>1. PICK x \in Names : Resolves(s, q, x) /\ x[2] <= cut /\ p = <<r, x[2]>>
        BY <3>1
      <4>2. q[1] < s /\ x[2] \in 1..cut /\ x = <<s, x[2]>>
        BY <2>4, <2>8, <4>1
      <4>3. p \in Inherited(r)' /\ o = x
        BY <2>4, <2>6, <4>1, <4>2
      <4> QED BY <1>1, <2>2, <2>4, <2>9, <4>1, <4>2, <4>3
    <3>2. CASE q[1] = s /\ q[2] \in 1..cut /\ p = <<r, q[2]>>
      <4>1. p \in Inherited(r)' /\ o = <<s, q[2]>>
        BY <2>4, <2>6, <3>2
      <4> QED BY <2>2, <2>9, <3>2, <4>1
    <3> QED BY <2>7, <2>10, <3>1, <3>2
  <2>11. ASSUME p \in Inherited(r)', q = o \/ Resolves(s, q, o)'
         PROVE  Resolves(r, q, p)'
    <3>1. PICK i \in 1..cut : p = <<r, i>>
      BY <2>4, <2>11
    <3>2. o = <<s, i>> /\ o \in Names /\ o[2] = i /\ o[1] = s
      BY <2>4, <2>6, <3>1 DEF Names
    <3>3. CASE q = o
      <4>1. ~ \E x \in Names : Resolves(s, q, x) /\ x[2] <= cut
        BY <2>4, <2>8, <3>2, <3>3
      <4> QED BY <2>7, <3>1, <3>2, <3>3, <4>1
    <3>4. CASE Resolves(s, q, o)'
      <4>1. Resolves(s, q, o)
        BY <1>1, <2>2, <3>4
      <4>2. o[2] <= cut
        BY <2>4, <3>2
      <4> QED BY <2>7, <3>1, <3>2, <4>1, <4>2
    <3> QED BY <2>11, <3>3, <3>4
  <2> QED BY <2>10, <2>11
<1> QED BY <1>2, <1>3

\* Two disjoint sets that cover the images of a third are at least as large.
LEMMA Covered ==
  ASSUME NEW A, NEW B, NEW C, IsFiniteSet(B), IsFiniteSet(C), NEW f \in [A -> B \cup C],
         \A x, y \in A : f[x] = f[y] => x = y
  PROVE  IsFiniteSet(A) /\ Cardinality(A) <= Cardinality(B) + Cardinality(C)
         /\ Cardinality(A) \in Nat
<1>1. /\ IsFiniteSet(B \cup C)
      /\ Cardinality(B \cup C) = Cardinality(B) + Cardinality(C) - Cardinality(B \cap C)
  BY FS_Union
<1>2. IsFiniteSet(B \cap C) /\ Cardinality(B \cap C) \in Nat
      /\ Cardinality(B) \in Nat /\ Cardinality(C) \in Nat
  <2>1. B \cap C \subseteq B
    OBVIOUS
  <2>2. IsFiniteSet(B \cap C)
    BY <2>1, FS_Subset
  <2> QED BY <2>2, FS_CardinalityType
<1>3. f \in Injection(A, B \cup C)
  BY DEF Injection, IsInjective
<1>4. IsFiniteSet(A) /\ Cardinality(A) <= Cardinality(B \cup C)
  BY <1>1, <1>3, FS_Injection
<1>5. Cardinality(A) \in Nat
  BY <1>4, FS_CardinalityType
<1> QED BY <1>1, <1>2, <1>4, <1>5

\* A run stays within its grants.
LEMMA GrowthKeepsCaps ==
  ASSUME RowsOK, QuotaOK, Grows, NEW r \in DOMAIN run
  PROVE  /\ WithinCaps(r)' /\ ThreadCap(r)' = ThreadCap(r)
         /\ \A a \in Agents : AgentCap(r, a)' = AgentCap(r, a)
         /\ run'[r].maxPosts = run[r].maxPosts
<1>1. SameRun(r) /\ r \in DOMAIN run'
  BY DEF Grows, OldRuns
<1>2. /\ ThreadCap(r)' = ThreadCap(r) /\ run'[r].maxPosts = run[r].maxPosts
      /\ \A a \in Agents : AgentCap(r, a)' = AgentCap(r, a)
  BY <1>1 DEF SameRun, ThreadCap, AgentCap
<1> DEFINE g == Cardinality(Generated(r))
           h(a) == Cardinality(GeneratedBy(r, a))
<1>3. /\ \A a \in Agents : h(a) <= AgentCap(r, a)
      /\ g <= ThreadCap(r) /\ g <= run[r].maxPosts /\ g <= run[r].postsUsed
  BY DEF QuotaOK, WithinCaps
<1>4. /\ g \in Nat /\ IsFiniteSet(Generated(r))
      /\ \A a \in Agents : h(a) \in Nat /\ IsFiniteSet(GeneratedBy(r, a))
  BY PostSetsFinite
<1>5. ThreadCap(r) \in Nat /\ \A a \in Agents : AgentCap(r, a) \in Nat
  BY CapTypes
<1>6. run[r].maxPosts \in Nat /\ run[r].postsUsed \in Nat /\ run'[r].postsUsed \in Nat
      /\ run[r].postsUsed <= run'[r].postsUsed
  <2>1. run[r] \in RunRows
    BY RunRow
  <2>2. run'[r] \in RunRows
    <3>1. RowsOK'
      BY DEF Grows
    <3> QED BY <1>1, <3>1 DEF RowsOK
  <2> QED BY <1>1, <2>1, <2>2 DEF RunRows, SameRun
<1>7. CASE /\ Generated(r)' = Generated(r)
           /\ \A b \in Agents : GeneratedBy(r, b)' = GeneratedBy(r, b)
  <2>1. Cardinality(Generated(r))' = g
        /\ \A b \in Agents : Cardinality(GeneratedBy(r, b))' = h(b)
    BY <1>7
  <2> HIDE DEF g, h
  <2> QED BY <1>2, <1>3, <1>4, <1>5, <1>6, <2>1 DEF WithinCaps
<1>8. ASSUME NEW a \in Agents, NEW x, MayPost(r, a), x \notin Generated(r),
             Generated(r)' = Generated(r) \cup {x},
             \A b \in Agents : GeneratedBy(r, b)' =
               IF b = a THEN GeneratedBy(r, b) \cup {x} ELSE GeneratedBy(r, b)
      PROVE  WithinCaps(r)'
  <2>1. Cardinality(Generated(r))' = g + 1
    BY <1>4, <1>8, FS_AddElement
  <2>2. ASSUME NEW b \in Agents
        PROVE  Cardinality(GeneratedBy(r, b))' = IF b = a THEN h(b) + 1 ELSE h(b)
    <3>1. x \notin GeneratedBy(r, b)
      BY <1>8 DEF GeneratedBy
    <3>2. GeneratedBy(r, b)' = IF b = a THEN GeneratedBy(r, b) \cup {x} ELSE GeneratedBy(r, b)
      BY <1>8
    <3> QED BY <1>4, <3>1, <3>2, FS_AddElement
  <2>3. /\ run[r].postsUsed < run[r].maxPosts /\ g < ThreadCap(r) /\ h(a) < AgentCap(r, a)
        /\ run'[r].postsUsed = run[r].postsUsed + 1
    <3>1. /\ PostsLeft(r) > 0 /\ ThreadLeft(r) > 0 /\ h(a) < AgentCap(r, a)
          /\ run'[r].postsUsed = run[r].postsUsed + 1
      BY <1>8 DEF MayPost
    <3>2. g < ThreadCap(r)
      <4>1. ThreadLeft(r) = Monus(ThreadCap(r), g)
        BY CapTypes
      <4> HIDE DEF g
      <4> QED BY <1>4, <1>5, <3>1, <4>1, MonusLeast
    <3>3. run[r].postsUsed < run[r].maxPosts
      BY <1>6, <3>1, MonusLeast DEF PostsLeft
    <3> QED BY <3>1, <3>2, <3>3
  <2> HIDE DEF g, h
  <2>4. \A b \in Agents : Cardinality(GeneratedBy(r, b))' <= AgentCap(r, b)
    BY <1>3, <1>4, <1>5, <2>2, <2>3
  <2>5. /\ Cardinality(Generated(r))' <= ThreadCap(r)
        /\ Cardinality(Generated(r))' <= run[r].maxPosts
        /\ Cardinality(Generated(r))' <= run'[r].postsUsed
    BY <1>3, <1>4, <1>5, <1>6, <2>1, <2>3
  <2> QED BY <1>2, <2>4, <2>5 DEF WithinCaps
<1>9. WithinCaps(r)'
  <2>1. CASE /\ thread'[r] = thread[r] /\ Generated(r)' = Generated(r)
             /\ \A b \in Agents : GeneratedBy(r, b)' = GeneratedBy(r, b)
    BY <1>7, <2>1
  <2>2. ASSUME NEW a \in Agents \cup {NoAgent}, NEW x,
               MayPost(r, a), x \notin Generated(r),
               Generated(r)' = IF a = NoAgent THEN Generated(r) ELSE Generated(r) \cup {x},
               \A b \in Agents : GeneratedBy(r, b)' =
                 IF b = a THEN GeneratedBy(r, b) \cup {x} ELSE GeneratedBy(r, b)
        PROVE  WithinCaps(r)'
    <3>1. CASE a = NoAgent
      <4>1. \A b \in Agents : b # a
        BY <3>1, ConstantTypes
      <4> QED BY <1>7, <2>2, <3>1, <4>1
    <3>2. CASE a # NoAgent
      <4>1. a \in Agents /\ Generated(r)' = Generated(r) \cup {x}
        BY <2>2, <3>2
      <4> QED BY <1>8, <2>2, <4>1
    <3> QED BY <3>1, <3>2
  <2> QED BY <2>1, <2>2, OldGenerated
<1> QED BY <1>2, <1>9

\* What a fork inherits and may still generate, its parent was allowed to show.
LEMMA ForkWithinParent ==
  ASSUME RowsOK, QuotaOK, Grows, NEW c \in DOMAIN run' \ DOMAIN run,
         NEW s, NEW cut, NEW inherit, NEW t, IsFork(c, s, cut, inherit, t), run'[c].inherits
  PROVE  /\ \A a \in Agents :
              Cardinality(InheritedBy(c, a))' + run'[c].agentGrant[a]
                <= Cardinality(InheritedBy(s, a)) + AgentCap(s, a)
         /\ Cardinality(InheritedByAll(c))' + run'[c].threadGrant
              <= Cardinality(InheritedByAll(s)) + ThreadCap(s)
         /\ Cardinality(InheritedByAll(c))' + run'[c].maxPosts
              <= Cardinality(InheritedByAll(s)) + run[s].maxPosts
<1>1. s \in DOMAIN run /\ WithinCaps(s)
  BY DEF IsFork, QuotaOK
<1>2. /\ run'[c].maxPosts = PostsLeft(s) /\ run'[c].threadGrant = ThreadLeft(s)
      /\ \A a \in Agents : run'[c].agentGrant[a] = AgentLeft(s, a)
  <2>1. run'[c] = Child(s, c, cut, inherit, t)
    BY DEF IsFork
  <2> QED BY <2>1 DEF Child
<1>3. Inherited(c)' = {<<c, i>> : i \in 1..cut} /\ cut \in Nat
  BY ForkPosts
<1>4. \A i \in 1..cut : Post(<<c, i>>)' = thread'[c][i]
  BY DEF Post
<1>5. \A i \in 1..cut : thread'[c][i].author = thread[s][i].author
  BY ForkPosts
<1>6. \A i \in 1..cut : i \in DOMAIN thread[s]
  BY ForkPosts
<1>7. ASSUME NEW i \in 1..cut
      PROVE  /\ <<s, i>> \in OwnPosts(s)
             /\ Post(<<c, i>>)'.author = Post(<<s, i>>).author
  <2>1. <<s, i>> \in OwnPosts(s)
    BY <1>6 DEF OwnPosts
  <2>2. Post(<<s, i>>) = thread[s][i]
    BY DEF Post
  <2> QED BY <1>4, <1>5, <2>1, <2>2
<1>8. ASSUME NEW a \in Agents
      PROVE  /\ Cardinality(InheritedBy(c, a))' \in Nat
             /\ Cardinality(InheritedBy(c, a))'
                  <= Cardinality(InheritedBy(s, a)) + Cardinality(GeneratedBy(s, a))
  <2>1. PICK A : A = InheritedBy(c, a)'
    OBVIOUS
  <2> DEFINE f == [x \in A |-> <<s, x[2]>>]
  <2>2. ASSUME NEW x \in A
        PROVE  /\ x = <<c, x[2]>> /\ f[x] \in InheritedBy(s, a) \cup GeneratedBy(s, a)
    <3>1. PICK i \in 1..cut : x = <<c, i>> /\ Post(<<c, i>>)'.author = a
      BY <1>3, <2>1 DEF InheritedBy
    <3>2. f[x] = <<s, i>>
      BY <3>1
    <3>3. <<s, i>> \in OwnPosts(s) /\ Post(<<s, i>>).author = a /\ a # NoAgent
      BY <1>7, <3>1, ConstantTypes
    <3>4. <<s, i>> \in InheritedBy(s, a) \cup GeneratedBy(s, a)
      BY <3>3 DEF InheritedBy, GeneratedBy, Generated
    <3> QED BY <3>1, <3>2, <3>4
  <2>3. /\ f \in [A -> InheritedBy(s, a) \cup GeneratedBy(s, a)]
        /\ \A x, y \in A : f[x] = f[y] => x = y
    <3>1. \A x, y \in A : f[x] = f[y] => x[2] = y[2]
      OBVIOUS
    <3> QED BY <2>2, <3>1
  <2>4. IsFiniteSet(InheritedBy(s, a)) /\ IsFiniteSet(GeneratedBy(s, a))
    BY <1>1, PostSetsFinite
  <2> HIDE DEF f
  <2> QED BY <2>1, <2>3, <2>4, Covered
<1>9. /\ Cardinality(InheritedByAll(c))' \in Nat
      /\ Cardinality(InheritedByAll(c))'
           <= Cardinality(InheritedByAll(s)) + Cardinality(Generated(s))
  <2>1. PICK A : A = InheritedByAll(c)'
    OBVIOUS
  <2> DEFINE f == [x \in A |-> <<s, x[2]>>]
  <2>2. ASSUME NEW x \in A
        PROVE  /\ x = <<c, x[2]>> /\ f[x] \in InheritedByAll(s) \cup Generated(s)
    <3>1. PICK i \in 1..cut : x = <<c, i>> /\ Post(<<c, i>>)'.author # NoAgent
      BY <1>3, <2>1 DEF InheritedByAll
    <3>2. f[x] = <<s, i>>
      BY <3>1
    <3>3. <<s, i>> \in OwnPosts(s) /\ Post(<<s, i>>).author # NoAgent
      BY <1>7, <3>1
    <3>4. <<s, i>> \in InheritedByAll(s) \cup Generated(s)
      BY <3>3 DEF InheritedByAll, Generated
    <3> QED BY <3>1, <3>2, <3>4
  <2>3. /\ f \in [A -> InheritedByAll(s) \cup Generated(s)]
        /\ \A x, y \in A : f[x] = f[y] => x = y
    <3>1. \A x, y \in A : f[x] = f[y] => x[2] = y[2]
      OBVIOUS
    <3> QED BY <2>2, <3>1
  <2>4. IsFiniteSet(InheritedByAll(s)) /\ IsFiniteSet(Generated(s))
    BY <1>1, PostSetsFinite
  <2> HIDE DEF f
  <2> QED BY <2>1, <2>3, <2>4, Covered
<1>10. ASSUME NEW a \in Agents
       PROVE  Cardinality(InheritedBy(c, a))' + run'[c].agentGrant[a]
                <= Cardinality(InheritedBy(s, a)) + AgentCap(s, a)
  <2> DEFINE h == Cardinality(GeneratedBy(s, a))
             k == AgentCap(s, a)
             y == Cardinality(InheritedBy(s, a))
  <2>1. h \in Nat /\ k \in Nat /\ y \in Nat /\ h <= k
    BY <1>1, PostSetsFinite, CapTypes DEF WithinCaps
  <2>2. run'[c].agentGrant[a] = Monus(k, h)
    BY <1>1, <1>2, CapTypes
  <2>3. Cardinality(InheritedBy(c, a))' \in Nat /\ Cardinality(InheritedBy(c, a))' <= y + h
    BY <1>8
  <2> HIDE DEF h, k, y
  <2>4. Monus(k, h) \in Nat /\ Monus(k, h) + h = k
    BY <2>1, MonusLeast
  <2>5. Cardinality(InheritedBy(c, a))' + run'[c].agentGrant[a] <= y + k
    BY <2>1, <2>2, <2>3, <2>4
  <2> QED BY <2>5 DEF k, y
<1>11. /\ Cardinality(InheritedByAll(c))' + run'[c].threadGrant
            <= Cardinality(InheritedByAll(s)) + ThreadCap(s)
       /\ Cardinality(InheritedByAll(c))' + run'[c].maxPosts
            <= Cardinality(InheritedByAll(s)) + run[s].maxPosts
  <2> DEFINE h == Cardinality(Generated(s))
             k == ThreadCap(s)
             y == Cardinality(InheritedByAll(s))
             m == run[s].maxPosts
             u == run[s].postsUsed
  <2>1. h \in Nat /\ k \in Nat /\ y \in Nat /\ h <= k /\ h <= m /\ h <= u
    BY <1>1, PostSetsFinite, CapTypes DEF WithinCaps
  <2>2. m \in Nat /\ u \in Nat
    <3>1. run[s] \in RunRows
      BY <1>1, RunRow
    <3> QED BY <3>1 DEF RunRows
  <2>3. run'[c].threadGrant = Monus(k, h)
    BY <1>1, <1>2, CapTypes
  <2>4. run'[c].maxPosts = Monus(m, u)
    BY <1>2 DEF PostsLeft
  <2>5. Cardinality(InheritedByAll(c))' \in Nat /\ Cardinality(InheritedByAll(c))' <= y + h
    BY <1>9
  <2> HIDE DEF h, k, y, m, u
  <2>6. Monus(k, h) \in Nat /\ Monus(k, h) + h = k
    BY <2>1, MonusLeast
  <2>7. Monus(m, u) \in Nat /\ Monus(m, u) + h <= m
    BY <2>1, <2>2 DEF Monus
  <2>8. /\ Cardinality(InheritedByAll(c))' + run'[c].threadGrant <= y + k
        /\ Cardinality(InheritedByAll(c))' + run'[c].maxPosts <= y + m
    BY <2>1, <2>2, <2>3, <2>4, <2>5, <2>6, <2>7
  <2> QED BY <2>8 DEF k, y, m
<1> QED BY <1>10, <1>11

\* Every run stays within what its parent was allowed to show.
LEMMA GrowthKeepsQuota ==
  ASSUME RowsOK, CopiesOK, QuotaOK, Grows
  PROVE  QuotaOK'
<1>1. ASSUME NEW r \in DOMAIN run', NEW s, s = run'[r].parent
      PROVE  /\ WithinCaps(r)' /\ s < r
             /\ (run'[r].inherits /\ s # 0) => AllowedBy(r, s)'
             /\ s = 0 => run'[r].maxPosts <= RootPosts
  <2>1. ASSUME NEW x \in DOMAIN run
        PROVE  /\ Cardinality(InheritedByAll(x))' = Cardinality(InheritedByAll(x))
               /\ \A a : Cardinality(InheritedBy(x, a))' = Cardinality(InheritedBy(x, a))
               /\ ThreadCap(x)' = ThreadCap(x) /\ run'[x].maxPosts = run[x].maxPosts
               /\ \A a \in Agents : AgentCap(x, a)' = AgentCap(x, a)
    <3>1. /\ InheritedByAll(x)' = InheritedByAll(x)
          /\ \A a : InheritedBy(x, a)' = InheritedBy(x, a)
      BY OldPosts
    <3>2. /\ ThreadCap(x)' = ThreadCap(x) /\ run'[x].maxPosts = run[x].maxPosts
          /\ \A a \in Agents : AgentCap(x, a)' = AgentCap(x, a)
      BY GrowthKeepsCaps
    <3> QED BY <3>1, <3>2
  <2>2. CASE r \in DOMAIN run
    <3>1. WithinCaps(r)'
      BY <2>2, GrowthKeepsCaps
    <3>2. /\ run[r].parent = s /\ run'[r].inherits = run[r].inherits
          /\ run'[r].agentGrant = run[r].agentGrant /\ run'[r].threadGrant = run[r].threadGrant
          /\ run'[r].maxPosts = run[r].maxPosts
      BY <1>1, <2>2 DEF Grows, OldRuns, SameRun
    <3>3. s < r /\ (s = 0 => run[r].maxPosts <= RootPosts)
      BY <2>2, <3>2 DEF QuotaOK
    <3>4. ASSUME run[r].inherits, s # 0
          PROVE  /\ \A a \in Agents : Cardinality(InheritedBy(r, a)) + run[r].agentGrant[a]
                                         <= Cardinality(InheritedBy(s, a)) + AgentCap(s, a)
                 /\ Cardinality(InheritedByAll(r)) + run[r].threadGrant
                      <= Cardinality(InheritedByAll(s)) + ThreadCap(s)
                 /\ Cardinality(InheritedByAll(r)) + run[r].maxPosts
                      <= Cardinality(InheritedByAll(s)) + run[s].maxPosts
                 /\ s \in DOMAIN run
      <4>1. AllowedBy(r, s)
        BY <2>2, <3>2, <3>4 DEF QuotaOK
      <4>2. r \in 1..Len(run) /\ run[r] \in RunRows /\ DOMAIN run = 1..Len(run) /\ Len(run) \in Nat
        BY <2>2, RunRow DEF RowsOK
      <4>3. s \in Nat
        BY <3>2, <4>2 DEF RunRows
      <4>4. s \in DOMAIN run
        BY <3>3, <3>4, <4>2, <4>3
      <4> QED BY <3>2, <4>1, <4>4 DEF AllowedBy
    <3>5. ASSUME run'[r].inherits, s # 0
          PROVE  AllowedBy(r, s)'
      <4>1. s \in DOMAIN run
        BY <3>2, <3>4, <3>5
      <4>2. \A a \in Agents : /\ Cardinality(InheritedBy(r, a))' = Cardinality(InheritedBy(r, a))
                              /\ Cardinality(InheritedBy(s, a))' = Cardinality(InheritedBy(s, a))
                              /\ AgentCap(s, a)' = AgentCap(s, a)
        BY <2>1, <2>2, <4>1
      <4>3. /\ Cardinality(InheritedByAll(r))' = Cardinality(InheritedByAll(r))
            /\ Cardinality(InheritedByAll(s))' = Cardinality(InheritedByAll(s))
            /\ ThreadCap(s)' = ThreadCap(s) /\ run'[s].maxPosts = run[s].maxPosts
        BY <2>1, <2>2, <4>1
      <4> QED BY <3>2, <3>4, <3>5, <4>2, <4>3 DEF AllowedBy
    <3>6. s = 0 => run'[r].maxPosts <= RootPosts
      BY <3>2, <3>3
    <3> QED BY <3>1, <3>3, <3>5, <3>6
  <2>3. CASE r \notin DOMAIN run
    <3>0. r \in DOMAIN run' \ DOMAIN run
      BY <2>3
    <3>1. PICK cut, inherit, t : IsFork(r, s, cut, inherit, t)
      <4>1. PICK src, cut, inherit, t : IsFork(r, src, cut, inherit, t)
        BY <3>0 DEF Grows, NewRuns
      <4>2. src = s
        BY <1>1, <4>1 DEF IsFork, Child
      <4> QED BY <4>1, <4>2
    <3>2. s \in DOMAIN run /\ s < r /\ s # 0
      <4>1. s \in DOMAIN run /\ s < r
        BY <3>1 DEF IsFork
      <4> QED BY <4>1, RunRow
    <3>3. WithinCaps(r)'
      <4>1. Generated(r)' = {}
        BY <3>0, <3>1, ForkPosts
      <4>2. \A a : GeneratedBy(r, a)' = {}
        BY <4>1 DEF GeneratedBy
      <4>3. Cardinality(Generated(r))' = 0 /\ \A a : Cardinality(GeneratedBy(r, a))' = 0
        BY <4>1, <4>2, FS_EmptySet
      <4>4. run'[r] \in RunRows
        BY <3>0 DEF Grows, RowsOK
      <4>5. run'[r].maxPosts \in Nat /\ run'[r].postsUsed \in Nat /\ run'[r].threadGrant \in Nat
            /\ run'[r].agentGrant \in [Agents -> Nat]
        BY <4>4 DEF RunRows
      <4>6. ThreadCap(r)' \in Nat
        BY <4>5, ConstantTypes DEF ThreadCap, Least
      <4>7. \A a \in Agents : AgentCap(r, a)' \in Nat
        BY <4>5, ConstantTypes DEF AgentCap, Least
      <4> QED BY <4>3, <4>5, <4>6, <4>7 DEF WithinCaps
    <3>4. ASSUME run'[r].inherits
          PROVE  /\ \A a \in Agents :
                       Cardinality(InheritedBy(r, a))' + run'[r].agentGrant[a]
                         <= Cardinality(InheritedBy(s, a)) + AgentCap(s, a)
                 /\ Cardinality(InheritedByAll(r))' + run'[r].threadGrant
                       <= Cardinality(InheritedByAll(s)) + ThreadCap(s)
                 /\ Cardinality(InheritedByAll(r))' + run'[r].maxPosts
                       <= Cardinality(InheritedByAll(s)) + run[s].maxPosts
      BY <3>0, <3>1, <3>4, ForkWithinParent
    <3>5. ASSUME run'[r].inherits PROVE AllowedBy(r, s)'
      BY <2>1, <3>2, <3>4, <3>5 DEF AllowedBy
    <3> QED BY <3>2, <3>3, <3>5
  <2> QED BY <2>2, <2>3
<1>2. ASSUME NEW r \in DOMAIN run', NEW s, s = run'[r].parent, run'[r].inherits, s # 0
      PROVE  AllowedBy(r, s)'
  BY <1>1, <1>2
<1>3. ASSUME NEW r \in DOMAIN run'
      PROVE  /\ WithinCaps(r)' /\ run'[r].parent < r
             /\ run'[r].parent = 0 => run'[r].maxPosts <= RootPosts
  BY <1>1
<1>4. ASSUME NEW r \in DOMAIN run'
      PROVE  (run'[r].inherits /\ run'[r].parent # 0) => AllowedBy(r, run[r].parent)'
  <2>1. PICK s : s = run'[r].parent
    OBVIOUS
  <2> SUFFICES ASSUME run'[r].inherits, s # 0 PROVE AllowedBy(r, run[r].parent)'
    BY <2>1
  <2>2. AllowedBy(r, s)'
    BY <1>2, <2>1
  <2> QED BY <2>1, <2>2 DEF AllowedBy, InheritedBy, InheritedByAll, Inherited,
                            OwnPosts, Post, AgentCap, ThreadCap
<1> QED BY <1>3, <1>4 DEF QuotaOK

-----------------------------------------------------------------------------
(* Every step is within Grows *)

\* What a step does besides.
Step == Grows /\ ForcedOK' /\ ForksOK' /\ CallsOK' /\ AnsweredForkHasStarted'

LEMMA SameRunsGrow ==
  ASSUME RowsOK, run' = run, thread' = thread
  PROVE  OldRuns /\ NewRuns
<1>1. ASSUME NEW r \in DOMAIN run PROVE SameRun(r) /\ SameThread(r)
  <2>1. run[r] \in RunRows
    BY RunRow
  <2>2. run[r].postsUsed \in Nat
    BY <2>1 DEF RunRows
  <2> QED BY <2>2 DEF SameRun, SameThread
<1> QED BY <1>1 DEF OldRuns, NewRuns

LEMMA SameTurnsGrow ==
  ASSUME turn' = turn
  PROVE  TurnsGrow
BY DEF TurnsGrow, SameTurn

\* The requests and the answers of old runs stay valid.
LEMMA HandlersStay ==
  ASSUME ForksOK, OldRuns, log' = log, NEW c,
         \/ handler' = handler
         \/ handler' = [handler EXCEPT ![c] = Idle]
         \/ \E h \in Handlers : handler' = [handler EXCEPT ![c] = h],
         answered' \subseteq DOMAIN run
  PROVE  ForksOK'
<1>1. DOMAIN run \subseteq DOMAIN run'
  BY DEF OldRuns
<1>2. Handlers \subseteq Handlers' /\ Idle \in Handlers
  BY <1>1 DEF Handlers
<1>3. handler' \in [Clients -> Handlers]
  BY <1>2 DEF ForksOK
<1>4. \A e \in log' : e.op = "fork" => e.result \in DOMAIN run'
  BY <1>1 DEF ForksOK
<1> QED BY <1>1, <1>2, <1>3, <1>4 DEF ForksOK

\* Open calls have something left as long as their agents do not post.
LEMMA CallsStay ==
  ASSUME RowsOK, TurnsOK, CallsOK, Grows,
         \A t \in DOMAIN turn' : turn'[t].state = "calling" => t \in DOMAIN turn,
         \A t \in DOMAIN turn : \A r : (turn'[t].state = "calling" /\ r = turn[t].run) =>
           \A a \in Agents : GeneratedBy(r, a)' = GeneratedBy(r, a)
  PROVE  CallsOK'
<1> SUFFICES ASSUME NEW t \in DOMAIN turn', turn'[t].state = "calling",
                    NEW r, r = turn'[t].run, NEW a, a = turn'[t].agent
             PROVE  Calling(r)' = {t} /\ Cardinality(GeneratedBy(r, a))' < AgentCap(r, a)'
  BY DEF CallsOK, Calling, GeneratedBy, Generated, Inherited, OwnPosts, Post, AgentCap
<1>1. \A x \in DOMAIN turn : /\ turn'[x].run = turn[x].run /\ turn'[x].agent = turn[x].agent
                             /\ turn'[x].state = "calling" => turn[x].state = "calling"
  BY DEF Grows, TurnsGrow, SameTurn
<1>2. t \in DOMAIN turn /\ turn[t].state = "calling" /\ turn[t].run = r /\ turn[t].agent = a
  BY <1>1
<1>3. Calling(r) = {t} /\ Cardinality(GeneratedBy(r, a)) < AgentCap(r, a)
  BY <1>2 DEF CallsOK
<1>4. Calling(r)' = {t}
  <2>1. Calling(r)' \subseteq Calling(r)
    BY <1>1 DEF Calling
  <2>2. t \in Calling(r)'
    BY DEF Calling
  <2> QED BY <1>3, <2>1, <2>2
<1>5. a \in Agents /\ r \in DOMAIN run
  BY <1>2, TurnRow DEF TurnRows, TurnsOK
<1>6. GeneratedBy(r, a)' = GeneratedBy(r, a)
  BY <1>2, <1>5
<1>7. AgentCap(r, a)' = AgentCap(r, a)
  BY <1>5 DEF Grows, OldRuns, SameRun, AgentCap
<1> QED BY <1>3, <1>4, <1>6, <1>7

\* A request moves on, or is lost.
LEMMA RequestsMove ==
  ASSUME ResearchInv, NEW c \in Clients, CheckFork(c) \/ LoseRequest(c)
  PROVE  Step
<1> USE DEF ResearchInv
<1>1. UNCHANGED <<run, thread, turn, forced, log>>
  BY DEF CheckFork, LoseRequest
<1>2. Grows
  BY <1>1, SameRunsGrow, SameTurnsGrow DEF Grows, RowsOK
<1>3. ForcedOK'
  BY <1>1 DEF ForcedOK
<1>4. CallsOK'
  <2>1. \A r, a : GeneratedBy(r, a)' = GeneratedBy(r, a)
    BY <1>1 DEF GeneratedBy, Generated, Inherited, OwnPosts, Post
  <2> QED BY <1>1, <1>2, <2>1, CallsStay
<1>5. ForksOK' /\ AnsweredForkHasStarted'
  <2>1. handler[c] \in Handlers
    BY DEF ForksOK
  <2>2. ASSUME handler[c].phase = "committed"
        PROVE  handler[c] \in [phase : {"committed"}, new : BOOLEAN, run : DOMAIN run]
    BY <2>1, <2>2 DEF Handlers, Idle
  <2>3. OldRuns
    BY <1>2 DEF Grows
  <2>4. CASE /\ handler[c].phase = "committed" /\ UNCHANGED answered
             /\ handler' = [handler EXCEPT ![c].phase = "start"]
    <3> DEFINE h == [handler[c] EXCEPT !.phase = "start"]
    <3>1. h \in Handlers
      BY <2>2, <2>4 DEF Handlers
    <3>2. handler' = [handler EXCEPT ![c] = h]
      BY <2>4
    <3> HIDE DEF h
    <3>3. ForksOK'
      BY <1>1, <2>3, <2>4, <3>1, <3>2, HandlersStay DEF ForksOK
    <3> QED BY <1>1, <2>4, <3>3 DEF AnsweredForkHasStarted
  <2>5. CASE /\ handler[c].phase = "committed" /\ ~ ShouldStart(handler[c])
             /\ Answer(c, handler[c])
    <3> DEFINE r == handler[c].run
    <3>1. r \in DOMAIN run
      BY <2>2, <2>5
    <3>2. answered' = answered \cup {r} /\ run[r].state # "created"
          /\ handler' = [handler EXCEPT ![c] = Idle]
      BY <2>5 DEF Answer, ShouldStart
    <3> HIDE DEF r
    <3>3. answered' \subseteq DOMAIN run
      BY <3>1, <3>2 DEF ForksOK
    <3>4. ForksOK'
      BY <1>1, <2>3, <3>2, <3>3, HandlersStay
    <3> QED BY <1>1, <3>2, <3>4 DEF AnsweredForkHasStarted
  <2>6. CASE handler' = [handler EXCEPT ![c] = Idle] /\ UNCHANGED answered
    <3>1. ForksOK'
      BY <1>1, <2>3, <2>6, HandlersStay DEF ForksOK
    <3> QED BY <1>1, <2>6, <3>1 DEF AnsweredForkHasStarted
  <2> QED BY <2>4, <2>5, <2>6 DEF CheckFork, LoseRequest
<1> QED BY <1>2, <1>3, <1>4, <1>5 DEF Step

\* A run starts or ends: nothing else about it changes.
LEMMA RunMoves ==
  ASSUME RowsOK, NEW r \in DOMAIN run, NEW row \in RunRows,
         run' = [run EXCEPT ![r] = row], thread' = thread, row.state # "created",
         row.parent = run[r].parent, row.inherits = run[r].inherits,
         row.sampled = run[r].sampled, row.maxPosts = run[r].maxPosts,
         row.postsUsed = run[r].postsUsed, row.agentGrant = run[r].agentGrant,
         row.threadGrant = run[r].threadGrant, row.aliases = run[r].aliases
  PROVE  /\ run' \in Seq(RunRows) /\ Len(run') = Len(run) /\ OldRuns /\ NewRuns
         /\ \A x \in DOMAIN run : x # r => run'[x] = run[x]
         /\ run'[r] = row
<1>1. run \in Seq(RunRows)
  BY DEF RowsOK
<1>2. run' \in Seq(RunRows) /\ Len(run') = Len(run) /\ DOMAIN run' = DOMAIN run
  BY <1>1
<1>3. run'[r] = row /\ \A x \in DOMAIN run : x # r => run'[x] = run[x]
  BY <1>1
<1>4. ASSUME NEW x \in DOMAIN run PROVE SameRun(x) /\ SameThread(x)
  <2>1. run[x] \in RunRows
    BY RunRow
  <2>2. run[x].postsUsed \in Nat
    BY <2>1 DEF RunRows
  <2>3. CASE x = r
    BY <1>3, <2>2, <2>3 DEF SameRun, SameThread
  <2>4. CASE x # r
    BY <1>3, <2>2, <2>4 DEF SameRun, SameThread
  <2> QED BY <2>3, <2>4
<1> QED BY <1>2, <1>3, <1>4 DEF OldRuns, NewRuns

\* What is generated does not depend on the states of runs.
LEMMA SameThreadsSamePosts ==
  ASSUME thread' = thread
  PROVE  \A r, a : GeneratedBy(r, a)' = GeneratedBy(r, a)
BY DEF GeneratedBy, Generated, Inherited, OwnPosts, Post

\* swarm.start, of a fork or of any created run.
LEMMA RunsStart ==
  ASSUME ResearchInv, (\E c \in Clients : StartFork(c)) \/ (\E r \in DOMAIN run : StartRun(r))
  PROVE  Step
<1> USE DEF ResearchInv
<1>1. UNCHANGED <<thread, turn, forced, log, outside>>
  BY DEF StartFork, StartRun
<1>2. ASSUME NEW c \in Clients, run' = run, handler' = [handler EXCEPT ![c] = Idle],
             UNCHANGED answered
      PROVE  Step
  <2>1. Grows
    BY <1>1, <1>2, SameRunsGrow, SameTurnsGrow DEF Grows, RowsOK
  <2>3. ForksOK' /\ AnsweredForkHasStarted'
    <3>1. ForksOK'
      BY <1>1, <1>2, <2>1, HandlersStay DEF ForksOK, Grows
    <3> QED BY <1>2, <3>1 DEF AnsweredForkHasStarted
  <2>4. CallsOK'
    BY <1>1, <2>1, SameThreadsSamePosts, CallsStay
  <2> QED BY <1>1, <1>2, <2>1, <2>3, <2>4 DEF Step, ForcedOK
<1>3. ASSUME NEW r \in DOMAIN run, run[r].state = "created",
             run' = [run EXCEPT ![r].state = "running"],
             \/ UNCHANGED <<handler, answered>>
             \/ \E c \in Clients : /\ handler' = [handler EXCEPT ![c] = Idle]
                                   /\ answered' = answered \cup {r}
      PROVE  Step
  <2> DEFINE row == [run[r] EXCEPT !.state = "running"]
  <2>1. run[r] \in RunRows
    BY RunRow
  <2>2. /\ row \in RunRows /\ row.state = "running"
        /\ row.parent = run[r].parent /\ row.inherits = run[r].inherits
        /\ row.sampled = run[r].sampled /\ row.maxPosts = run[r].maxPosts
        /\ row.postsUsed = run[r].postsUsed /\ row.agentGrant = run[r].agentGrant
        /\ row.threadGrant = run[r].threadGrant /\ row.aliases = run[r].aliases
    BY <2>1 DEF RunRows
  <2>3. run' = [run EXCEPT ![r] = row]
    BY <1>3
  <2> HIDE DEF row
  <2>4. /\ run' \in Seq(RunRows) /\ Len(run') = Len(run) /\ OldRuns /\ NewRuns
        /\ \A x \in DOMAIN run : x # r => run'[x] = run[x]
        /\ run'[r] = row
    BY <1>1, <2>2, <2>3, RunMoves
  <2>5. Grows
    BY <1>1, <2>4, SameTurnsGrow DEF Grows, RowsOK
  <2>6. DOMAIN run' = DOMAIN run
    BY <2>3
  <2>7. ForcedOK'
    BY <1>1, <2>6 DEF ForcedOK
  <2>8. answered' \subseteq DOMAIN run /\ \A x \in answered' : x = r \/ x \in answered
    BY <1>3 DEF ForksOK
  <2>9. ForksOK'
    BY <1>1, <1>3, <2>4, <2>8, HandlersStay
  <2>10. AnsweredForkHasStarted'
    <3> SUFFICES ASSUME NEW x \in answered' PROVE run'[x].state # "created"
      BY DEF AnsweredForkHasStarted
    <3>1. CASE x = r
      BY <2>2, <2>4, <3>1
    <3>2. CASE x # r
      BY <2>4, <2>8, <3>2 DEF AnsweredForkHasStarted
    <3> QED BY <3>1, <3>2
  <2>11. CallsOK'
    BY <1>1, <2>5, SameThreadsSamePosts, CallsStay
  <2> QED BY <2>5, <2>7, <2>9, <2>10, <2>11 DEF Step
<1>4. ASSUME NEW c \in Clients, StartFork(c) PROVE Step
  <2> DEFINE r == handler[c].run
  <2>1. handler[c] \in Handlers /\ handler[c].phase = "start"
    BY <1>4 DEF ForksOK, StartFork
  <2>2. r \in DOMAIN run
    BY <2>1 DEF Handlers, Idle
  <2>3. CASE run' = run /\ handler' = [handler EXCEPT ![c] = Idle] /\ UNCHANGED answered
    BY <1>2, <2>3
  <2>4. CASE /\ run[r].state = "created"
             /\ run' = [run EXCEPT ![r].state = "running"] /\ Answer(c, handler[c])
    BY <1>3, <2>2, <2>4 DEF Answer
  <2> QED BY <1>4, <2>3, <2>4 DEF StartFork
<1>5. ASSUME NEW r \in DOMAIN run, StartRun(r) PROVE Step
  BY <1>3, <1>5 DEF StartRun
<1> QED BY <1>4, <1>5

\* A run ends, with its calls and its forced stimuli.
LEMMA RunsEnd ==
  ASSUME ResearchInv, NEW r \in DOMAIN run, NEW blocked \in BOOLEAN, EndRun(r, blocked)
  PROVE  Step
<1> USE DEF ResearchInv
<1>1. /\ run' = [run EXCEPT ![r].state = "ended", ![r].blocked = blocked]
      /\ turn' = [t \in DOMAIN turn |->
           IF t \in Calling(r) THEN [turn[t] EXCEPT !.state = "done"] ELSE turn[t]]
      /\ forced' = [i \in DOMAIN forced |->
           IF forced[i].run = r THEN [forced[i] EXCEPT !.open = FALSE] ELSE forced[i]]
      /\ UNCHANGED <<thread, log, handler, answered>>
  BY DEF EndRun
<1> DEFINE row == [run[r] EXCEPT !.state = "ended", !.blocked = blocked]
<1>2. run[r] \in RunRows
  BY RunRow
<1>3. /\ row \in RunRows /\ row.state = "ended"
      /\ row.parent = run[r].parent /\ row.inherits = run[r].inherits
      /\ row.sampled = run[r].sampled /\ row.maxPosts = run[r].maxPosts
      /\ row.postsUsed = run[r].postsUsed /\ row.agentGrant = run[r].agentGrant
      /\ row.threadGrant = run[r].threadGrant /\ row.aliases = run[r].aliases
  BY <1>2 DEF RunRows
<1>4. run' = [run EXCEPT ![r] = row]
  BY <1>1
<1> HIDE DEF row
<1>5. /\ run' \in Seq(RunRows) /\ Len(run') = Len(run) /\ OldRuns /\ NewRuns
      /\ \A x \in DOMAIN run : x # r => run'[x] = run[x]
      /\ run'[r] = row
  BY <1>1, <1>3, <1>4, RunMoves
<1>6. /\ turn' \in Seq(TurnRows) /\ DOMAIN turn' = DOMAIN turn /\ Len(turn') = Len(turn)
      /\ TurnsGrow
      /\ \A t \in DOMAIN turn : turn'[t].state = "calling" => turn'[t] = turn[t]
  <2>1. ASSUME NEW t \in DOMAIN turn
        PROVE  /\ turn'[t] \in TurnRows /\ SameTurn(t)
               /\ turn'[t].state = "calling" => turn'[t] = turn[t]
    <3>1. turn[t] \in TurnRows
      BY TurnRow
    <3>2. CASE t \in Calling(r)
      <4>1. turn'[t] = [turn[t] EXCEPT !.state = "done"]
        BY <1>1, <3>2
      <4> QED BY <3>1, <4>1 DEF TurnRows, SameTurn
    <3>3. CASE t \notin Calling(r)
      <4>1. turn'[t] = turn[t]
        BY <1>1, <3>3
      <4> QED BY <3>1, <4>1 DEF SameTurn
    <3> QED BY <3>2, <3>3
  <2>2. turn \in Seq(TurnRows) /\ DOMAIN turn = 1..Len(turn) /\ Len(turn) \in Nat
    BY DEF RowsOK
  <2>3. DOMAIN turn' = 1..Len(turn)
    BY <1>1, <2>2
  <2>4. turn' \in [1..Len(turn) -> TurnRows]
    <3>1. turn' = [t \in 1..Len(turn) |-> turn'[t]]
      BY <1>1, <2>2
    <3> QED BY <2>1, <2>2, <3>1
  <2>5. turn' \in Seq(TurnRows) /\ Len(turn') = Len(turn)
    BY <2>2, <2>4
  <2> QED BY <2>1, <2>2, <2>3, <2>5 DEF TurnsGrow
<1>7. /\ forced' \in Seq(ForcedRows) /\ DOMAIN forced' = DOMAIN forced
      /\ \A i \in DOMAIN forced : /\ forced'[i].run = forced[i].run
                                  /\ forced'[i].reuse = forced[i].reuse
  <2>1. forced \in Seq(ForcedRows) /\ DOMAIN forced = 1..Len(forced) /\ Len(forced) \in Nat
    BY DEF RowsOK
  <2>2. ASSUME NEW i \in DOMAIN forced
        PROVE  /\ forced'[i] \in ForcedRows /\ forced'[i].run = forced[i].run
               /\ forced'[i].reuse = forced[i].reuse
    <3>1. forced[i] \in ForcedRows
      BY <2>1
    <3>2. forced'[i] = IF forced[i].run = r THEN [forced[i] EXCEPT !.open = FALSE] ELSE forced[i]
      BY <1>1
    <3> QED BY <3>1, <3>2 DEF ForcedRows
  <2>3. forced' \in [1..Len(forced) -> ForcedRows]
    <3>1. forced' = [i \in 1..Len(forced) |-> forced'[i]]
      BY <1>1, <2>1
    <3> QED BY <2>1, <2>2, <3>1
  <2>4. forced' \in Seq(ForcedRows) /\ DOMAIN forced' = DOMAIN forced
    BY <2>1, <2>3
  <2> QED BY <2>2, <2>4
<1>8. Grows
  BY <1>1, <1>5, <1>6, <1>7 DEF Grows, RowsOK
<1>9. DOMAIN run' = DOMAIN run
  BY <1>4
<1>10. ForcedOK'
  <2> SUFFICES ASSUME NEW i \in DOMAIN forced'
               PROVE  forced'[i].run \in DOMAIN run' /\ forced'[i].reuse \in 0..Len(turn')
    BY DEF ForcedOK
  <2>1. i \in DOMAIN forced
    BY <1>7
  <2> QED BY <1>6, <1>7, <1>9, <2>1 DEF ForcedOK
<1>11. ForksOK'
  BY <1>1, <1>5, HandlersStay DEF ForksOK
<1>12. AnsweredForkHasStarted'
  BY <1>1, <1>3, <1>5 DEF AnsweredForkHasStarted, ForksOK
<1>13. CallsOK'
  BY <1>1, <1>6, <1>8, SameThreadsSamePosts, CallsStay
<1> QED BY <1>8, <1>10, <1>11, <1>12, <1>13 DEF Step

\* A post of someone who may post.
LEMMA PostAdds ==
  ASSUME RowsOK, NEW r \in DOMAIN run, NEW a \in Agents \cup {NoAgent}, AddPost(r, a),
         a \in Agents => /\ PostsLeft(r) > 0 /\ ThreadLeft(r) > 0
                         /\ Cardinality(GeneratedBy(r, a)) < AgentCap(r, a)
  PROVE  /\ run' \in Seq(RunRows) /\ Len(run') = Len(run) /\ thread' \in Seq(Seq(PostRows))
         /\ Len(thread') = Len(thread) /\ OldRuns /\ NewRuns
         /\ Len(thread'[r]) = Len(thread[r]) + 1
         /\ \A x \in DOMAIN run : x # r => thread'[x] = thread[x]
         /\ \A x \in DOMAIN run : run'[x].state = run[x].state
<1> DEFINE u   == run[r].postsUsed + 1
           row == [run[r] EXCEPT !.postsUsed = u]
           w   == NewPost(a)
           th  == Append(thread[r], w)
<1>1. run \in Seq(RunRows) /\ run[r] \in RunRows /\ run[r].postsUsed \in Nat
  <2>1. run[r] \in RunRows
    BY RunRow
  <2> QED BY <2>1 DEF RowsOK, RunRows
<1>2. /\ row \in RunRows /\ row.state = run[r].state /\ row.postsUsed = u
      /\ row.parent = run[r].parent /\ row.inherits = run[r].inherits
      /\ row.sampled = run[r].sampled /\ row.maxPosts = run[r].maxPosts
      /\ row.agentGrant = run[r].agentGrant
      /\ row.threadGrant = run[r].threadGrant /\ row.aliases = run[r].aliases
  <2>1. u \in Nat
    BY <1>1
  <2> HIDE DEF u
  <2> QED BY <1>1, <2>1 DEF RunRows
<1>3. run' = [run EXCEPT ![r] = row] /\ thread' = [thread EXCEPT ![r] = th]
  BY DEF AddPost, NewPost
<1>4. w \in PostRows
  BY ConstantTypes DEF NewPost, PostRows
<1>5. thread[r] \in Seq(PostRows) /\ r \in DOMAIN thread /\ thread \in Seq(Seq(PostRows))
  BY RunRow DEF RowsOK
<1> HIDE DEF row, w
<1>6. th \in Seq(PostRows) /\ Len(th) = Len(thread[r]) + 1
  BY <1>4, <1>5
<1> HIDE DEF th
<1>7. /\ run' \in Seq(RunRows) /\ Len(run') = Len(run) /\ DOMAIN run' = DOMAIN run
      /\ run'[r] = row /\ \A x \in DOMAIN run : x # r => run'[x] = run[x]
  BY <1>1, <1>2, <1>3
<1>8. /\ thread' \in Seq(Seq(PostRows)) /\ Len(thread') = Len(thread)
      /\ thread'[r] = th /\ \A x \in DOMAIN thread : x # r => thread'[x] = thread[x]
  <2> DEFINE T == Seq(PostRows)
  <2>1. thread \in Seq(T) /\ th \in T
    BY <1>5, <1>6
  <2> HIDE DEF T
  <2>2. /\ thread' \in Seq(T) /\ Len(thread') = Len(thread)
        /\ thread'[r] = th /\ \A x \in DOMAIN thread : x # r => thread'[x] = thread[x]
    BY <1>3, <1>5, <2>1
  <2> QED BY <2>2 DEF T
<1>9. \A x \in DOMAIN run : x # r => thread'[x] = thread[x]
  BY <1>8, RunRow
<1>10. ASSUME NEW x \in DOMAIN run PROVE SameRun(x) /\ SameThread(x)
  <2>1. CASE x = r
    <3>1. MayPost(r, a)
      BY <1>2, <1>7 DEF MayPost
    <3>2. SameThread(r)
      BY <1>8, <3>1 DEF SameThread, th, w
    <3>3. SameRun(r)
      BY <1>1, <1>2, <1>7 DEF SameRun
    <3> QED BY <2>1, <3>2, <3>3
  <2>2. CASE x # r
    <3>1. run[x] \in RunRows
      BY RunRow
    <3>2. run[x].postsUsed \in Nat
      BY <3>1 DEF RunRows
    <3> QED BY <1>7, <1>9, <2>2, <3>2 DEF SameRun, SameThread
  <2> QED BY <2>1, <2>2
<1>11. OldRuns /\ NewRuns
  BY <1>7, <1>10 DEF OldRuns, NewRuns
<1>12. \A x \in DOMAIN run : run'[x].state = run[x].state
  BY <1>2, <1>7
<1> QED BY <1>6, <1>7, <1>8, <1>9, <1>11, <1>12

\* A person posts: nobody's quota is touched.
LEMMA PeoplePost ==
  ASSUME ResearchInv, NEW r \in DOMAIN run, HumanPost(r)
  PROVE  Step
<1> USE DEF ResearchInv
<1>1. AddPost(r, NoAgent) /\ UNCHANGED <<turn, forced, log, handler, answered>>
  BY DEF HumanPost
<1>2. NoAgent \notin Agents
  BY ConstantTypes
<1>3. /\ run' \in Seq(RunRows) /\ Len(run') = Len(run) /\ thread' \in Seq(Seq(PostRows))
      /\ Len(thread') = Len(thread) /\ OldRuns /\ NewRuns
      /\ \A x \in DOMAIN run : x # r => thread'[x] = thread[x]
      /\ \A x \in DOMAIN run : run'[x].state = run[x].state
  <2> DEFINE a == NoAgent
  <2>1. a \in Agents \cup {NoAgent} /\ a \notin Agents /\ AddPost(r, a)
    BY <1>1, <1>2
  <2> HIDE DEF a
  <2> QED BY <2>1, PostAdds
<1>4. Grows
  BY <1>1, <1>3, SameTurnsGrow DEF Grows, RowsOK
<1>5. DOMAIN run' = DOMAIN run
  BY <1>3 DEF RowsOK
<1>6. ForcedOK'
  BY <1>1, <1>5 DEF ForcedOK
<1>7. ForksOK'
  BY <1>1, <1>3, HandlersStay DEF ForksOK
<1>8. AnsweredForkHasStarted'
  BY <1>1, <1>3 DEF AnsweredForkHasStarted, ForksOK
<1>9. ASSUME NEW x \in DOMAIN run, NEW b \in Agents
      PROVE  GeneratedBy(x, b)' = GeneratedBy(x, b)
  <2>1. CASE x # r
    <3>1. thread'[x] = thread[x]
      BY <1>3, <2>1
    <3> QED BY <3>1 DEF GeneratedBy, Generated, Inherited, OwnPosts, Post
  <2>2. CASE x = r
    <3>1. thread[r] \in Seq(PostRows) /\ thread'[r] = Append(thread[r], NewPost(NoAgent))
      BY <1>1, RunRow DEF AddPost, NewPost
    <3>2. PICK n \in Nat : n = Len(thread[r])
      BY <3>1
    <3>3. /\ DOMAIN thread'[r] = 1..(n + 1) /\ DOMAIN thread[r] = 1..n
          /\ \A i \in 1..n : thread'[r][i] = thread[r][i]
          /\ thread'[r][n + 1] = NewPost(NoAgent)
      BY <3>1, <3>2 DEF NewPost
    <3>4. PICK y : y = <<r, n + 1>>
      OBVIOUS
    <3>5. OwnPosts(r)' = OwnPosts(r) \cup {y} /\ y \notin OwnPosts(r)
      BY <3>2, <3>3, <3>4 DEF OwnPosts
    <3>6. Post(y)'.author = NoAgent
      BY <3>3, <3>4 DEF Post, NewPost
    <3>7. Inherited(r)' = Inherited(r) /\ \A p \in OwnPosts(r) : Post(p)' = Post(p)
      BY <1>4, OldPosts
    <3> QED BY <1>2, <2>2, <3>5, <3>6, <3>7 DEF GeneratedBy, Generated
  <2> QED BY <2>1, <2>2
<1>10. CallsOK'
  BY <1>1, <1>4, <1>9, CallsStay DEF TurnsOK
<1> QED BY <1>4, <1>6, <1>7, <1>8, <1>10 DEF Step

\* A row of the turns changes.
LEMMA TurnMoves ==
  ASSUME RowsOK, NEW t \in DOMAIN turn, NEW row \in TurnRows, turn' = [turn EXCEPT ![t] = row]
  PROVE  /\ turn' \in Seq(TurnRows) /\ DOMAIN turn' = DOMAIN turn /\ Len(turn') = Len(turn)
         /\ turn'[t] = row /\ \A x \in DOMAIN turn : x # t => turn'[x] = turn[x]
BY DEF RowsOK

\* A call ends without a post.
LEMMA CallsEnd ==
  ASSUME ResearchInv, NEW t \in DOMAIN turn, FinishWithout(t)
  PROVE  Step
<1> USE DEF ResearchInv
<1>1. turn' = [turn EXCEPT ![t].state = "done"]
      /\ UNCHANGED <<run, thread, forced, log, handler, answered>>
  BY DEF FinishWithout
<1> DEFINE row == [turn[t] EXCEPT !.state = "done"]
<1>2. turn[t] \in TurnRows
  BY TurnRow
<1>3. /\ row \in TurnRows /\ row.run = turn[t].run /\ row.agent = turn[t].agent
      /\ row.shown = turn[t].shown /\ row.post = turn[t].post /\ row.state = "done"
  BY <1>2 DEF TurnRows
<1>4. turn' = [turn EXCEPT ![t] = row]
  BY <1>1
<1> HIDE DEF row
<1>5. /\ turn' \in Seq(TurnRows) /\ DOMAIN turn' = DOMAIN turn /\ Len(turn') = Len(turn)
      /\ turn'[t] = row /\ \A x \in DOMAIN turn : x # t => turn'[x] = turn[x]
  BY <1>3, <1>4, TurnMoves
<1>6. TurnsGrow
  <2>1. ASSUME NEW x \in DOMAIN turn PROVE SameTurn(x)
    <3>1. CASE x = t
      BY <1>3, <1>5, <3>1 DEF SameTurn
    <3>2. CASE x # t
      BY <1>5, <3>2 DEF SameTurn
    <3> QED BY <3>1, <3>2
  <2> QED BY <1>5, <2>1 DEF TurnsGrow
<1>7. Grows
  BY <1>1, <1>5, <1>6, SameRunsGrow DEF Grows, RowsOK
<1>8. ForcedOK' /\ AnsweredForkHasStarted'
  BY <1>1, <1>5 DEF ForcedOK, AnsweredForkHasStarted
<1>9. ForksOK'
  BY <1>1, <1>7, HandlersStay DEF ForksOK, Grows
<1>10. CallsOK'
  BY <1>1, <1>5, <1>7, SameThreadsSamePosts, CallsStay
<1> QED BY <1>7, <1>8, <1>9, <1>10 DEF Step

\* An agent's answer becomes a post: its call was the only one of its run.
LEMMA AgentsPost ==
  ASSUME ResearchInv, NEW t \in DOMAIN turn, FinishWithPost(t)
  PROVE  Step
<1> USE DEF ResearchInv
<1>0. PICK r, a : r = turn[t].run /\ a = turn[t].agent
  OBVIOUS
<1> DEFINE n   == Len(thread[r]) + 1
           row == [turn[t] EXCEPT !.state = "done", !.post = <<r, n>>]
<1>1. /\ turn[t].state = "calling" /\ PostsLeft(r) > 0 /\ ThreadLeft(r) > 0
      /\ AddPost(r, a) /\ turn' = [turn EXCEPT ![t] = row]
      /\ UNCHANGED <<forced, log, handler, answered>>
  BY <1>0 DEF FinishWithPost
<1>2. turn[t] \in TurnRows
  BY TurnRow
<1>3. r \in DOMAIN run /\ r \in Nat /\ n \in Nat /\ a \in Agents
  <2>1. r \in DOMAIN run
    BY <1>0 DEF TurnsOK
  <2>2. a \in Agents
    BY <1>0, <1>2 DEF TurnRows
  <2>3. Len(thread[r]) \in Nat /\ r \in Nat
    BY <2>1, RunRow
  <2> QED BY <2>1, <2>2, <2>3
<1>4. /\ row \in TurnRows /\ row.run = r /\ row.agent = a
      /\ row.shown = turn[t].shown /\ row.post = <<r, n>> /\ row.state = "done"
  <2> DEFINE p == <<r, n>>
  <2>1. p \in Names
    BY <1>3 DEF Names
  <2> HIDE DEF p
  <2>2. /\ [turn[t] EXCEPT !.state = "done", !.post = p] \in TurnRows
        /\ [turn[t] EXCEPT !.state = "done", !.post = p].run = turn[t].run
        /\ [turn[t] EXCEPT !.state = "done", !.post = p].agent = turn[t].agent
        /\ [turn[t] EXCEPT !.state = "done", !.post = p].shown = turn[t].shown
        /\ [turn[t] EXCEPT !.state = "done", !.post = p].post = p
        /\ [turn[t] EXCEPT !.state = "done", !.post = p].state = "done"
    BY <1>2, <2>1 DEF TurnRows
  <2> QED BY <1>0, <2>2 DEF p
<1> HIDE DEF row
<1>5. Calling(r) = {t} /\ Cardinality(GeneratedBy(r, a)) < AgentCap(r, a)
      /\ turn[t].post = NoPost
  BY <1>0, <1>1 DEF CallsOK, TurnsOK
<1>6. /\ run' \in Seq(RunRows) /\ Len(run') = Len(run) /\ thread' \in Seq(Seq(PostRows))
      /\ Len(thread') = Len(thread) /\ OldRuns /\ NewRuns
      /\ Len(thread'[r]) = Len(thread[r]) + 1
      /\ \A x \in DOMAIN run : x # r => thread'[x] = thread[x]
      /\ \A x \in DOMAIN run : run'[x].state = run[x].state
  BY <1>1, <1>3, <1>5, PostAdds
<1>7. /\ turn' \in Seq(TurnRows) /\ DOMAIN turn' = DOMAIN turn /\ Len(turn') = Len(turn)
      /\ turn'[t] = row /\ \A x \in DOMAIN turn : x # t => turn'[x] = turn[x]
  BY <1>1, <1>4, TurnMoves
<1>8. TurnsGrow
  <2>1. ASSUME NEW x \in DOMAIN turn PROVE SameTurn(x)
    <3>1. CASE x = t
      BY <1>0, <1>4, <1>5, <1>6, <1>7, <3>1 DEF SameTurn
    <3>2. CASE x # t
      BY <1>7, <3>2 DEF SameTurn
    <3> QED BY <3>1, <3>2
  <2> QED BY <1>7, <2>1 DEF TurnsGrow
<1>9. Grows
  BY <1>1, <1>6, <1>7, <1>8 DEF Grows, RowsOK
<1>10. DOMAIN run' = DOMAIN run
  BY <1>6 DEF RowsOK
<1>11. ForcedOK'
  BY <1>1, <1>7, <1>10 DEF ForcedOK
<1>12. AnsweredForkHasStarted'
  BY <1>1, <1>6 DEF AnsweredForkHasStarted, ForksOK
<1>13. ForksOK'
  BY <1>1, <1>6, HandlersStay DEF ForksOK
<1>14. ASSUME NEW x \in DOMAIN turn, NEW s, turn'[x].state = "calling", s = turn[x].run,
              NEW b \in Agents
       PROVE  GeneratedBy(s, b)' = GeneratedBy(s, b)
  <2>1. x # t
    BY <1>4, <1>7, <1>14
  <2>2. turn[x].state = "calling"
    BY <1>7, <1>14, <2>1
  <2>3. s # r
    BY <1>5, <1>14, <2>1, <2>2 DEF Calling
  <2>4. thread'[s] = thread[s]
    BY <1>6, <1>14, <2>3 DEF TurnsOK
  <2> QED BY <2>4 DEF GeneratedBy, Generated, Inherited, OwnPosts, Post
<1>15. CallsOK'
  BY <1>7, <1>9, <1>14, CallsStay
<1> QED BY <1>9, <1>11, <1>12, <1>13, <1>15 DEF Step

\* A person asks for a turn.
LEMMA TurnsForced ==
  ASSUME ResearchInv, NEW k \in Keys, NEW r \in DOMAIN run, NEW a \in Agents, ForceTurn(k, r, a)
  PROVE  Step
<1> USE DEF ResearchInv
<1> DEFINE row == Stimulus(r, a, 0)
           e   == Record("force", r, k, a, Len(forced) + 1)
<1>1. /\ forced' = Append(forced, row) /\ log' = log \cup {e}
      /\ UNCHANGED <<run, thread, turn, handler, answered>>
  BY DEF ForceTurn
<1>2. row \in ForcedRows /\ row.run = r /\ row.reuse = 0
  BY RunRow DEF Stimulus, ForcedRows
<1>3. e.op = "force"
  BY DEF Record
<1> HIDE DEF row, e
<1>4. /\ forced' \in Seq(ForcedRows) /\ DOMAIN forced' = 1..(Len(forced) + 1)
      /\ DOMAIN forced = 1..Len(forced) /\ Len(forced) \in Nat
      /\ \A i \in DOMAIN forced : forced'[i] = forced[i]
      /\ forced'[Len(forced) + 1] = row
  BY SMTT(20), <1>1, <1>2 DEF RowsOK
<1>5. Grows
  BY <1>1, <1>4, SameRunsGrow, SameTurnsGrow DEF Grows, RowsOK
<1>6. ForcedOK'
  <2> SUFFICES ASSUME NEW i \in DOMAIN forced'
               PROVE  forced'[i].run \in DOMAIN run /\ forced'[i].reuse \in 0..Len(turn)
    BY <1>1 DEF ForcedOK
  <2>1. CASE i \in DOMAIN forced
    BY <1>4, <2>1 DEF ForcedOK
  <2>2. CASE i \notin DOMAIN forced
    <3>1. i = Len(forced) + 1 /\ Len(turn) \in Nat
      BY <1>4, <2>2 DEF RowsOK
    <3> QED BY <1>2, <1>4, <3>1
  <2> QED BY <2>1, <2>2
<1>7. ForksOK' /\ AnsweredForkHasStarted'
  BY <1>1, <1>3 DEF ForksOK, Handlers, AnsweredForkHasStarted
<1>8. CallsOK'
  BY <1>1, <1>5, SameThreadsSamePosts, CallsStay
<1> QED BY <1>5, <1>6, <1>7, <1>8 DEF Step

\* A call is added to the turns.
LEMMA TurnBegins ==
  ASSUME RowsOK, NEW r \in DOMAIN run, NEW a \in Agents, NEW shown, shown \subseteq AllPosts,
         turn' = Turn(r, a, shown)
  PROVE  /\ turn' \in Seq(TurnRows) /\ TurnsGrow /\ Len(turn') = Len(turn) + 1
         /\ DOMAIN turn' = DOMAIN turn \cup {Len(turn) + 1}
         /\ Len(turn) + 1 \notin DOMAIN turn /\ Len(turn) \in Nat
         /\ \A t \in DOMAIN turn : turn'[t] = turn[t]
         /\ turn'[Len(turn) + 1].run = r /\ turn'[Len(turn) + 1].agent = a
<1> DEFINE row == [run |-> r, agent |-> a, shown |-> shown, post |-> NoPost, state |-> "calling"]
<1>1. turn' = Append(turn, row)
  BY DEF Turn
<1>2. shown \in SUBSET Names
  BY PostsAre DEF AllPosts
<1>3. /\ row \in TurnRows /\ row.run = r /\ row.agent = a /\ row.shown = shown
      /\ row.post = NoPost
  BY <1>2, RunRow, ConstantTypes DEF TurnRows
<1> HIDE DEF row
<1>4. /\ turn' \in Seq(TurnRows) /\ Len(turn') = Len(turn) + 1
      /\ DOMAIN turn' = DOMAIN turn \cup {Len(turn) + 1}
      /\ Len(turn) + 1 \notin DOMAIN turn /\ Len(turn) \in Nat
      /\ \A t \in DOMAIN turn : turn'[t] = turn[t]
      /\ turn'[Len(turn) + 1] = row
  BY <1>1, <1>3 DEF RowsOK
<1>5. TurnsGrow
  <2>1. \A t \in DOMAIN turn : SameTurn(t)
    BY <1>4 DEF SameTurn
  <2>2. \A t \in DOMAIN turn' \ DOMAIN turn :
          turn'[t].run \in DOMAIN run /\ turn'[t].shown \subseteq AllPosts /\ turn'[t].post = NoPost
    BY <1>3, <1>4
  <2> QED BY <1>4, <2>1, <2>2 DEF TurnsGrow
<1> QED BY <1>3, <1>4, <1>5

\* It is the only one of its run, and its agent has something left.
LEMMA CallBegins ==
  ASSUME RowsOK, TurnsOK, CallsOK, UNCHANGED <<run, thread>>,
         NEW r \in DOMAIN run, NEW a \in Agents, NEW shown, shown \subseteq AllPosts,
         turn' = Turn(r, a, shown), CanTake(r, a)
  PROVE  CallsOK'
<1>1. /\ Len(turn) \in Nat
      /\ DOMAIN turn' = DOMAIN turn \cup {Len(turn) + 1}
      /\ Len(turn) + 1 \notin DOMAIN turn
      /\ \A t \in DOMAIN turn : turn'[t] = turn[t]
      /\ turn'[Len(turn) + 1].run = r /\ turn'[Len(turn) + 1].agent = a
  BY TurnBegins
<1> SUFFICES ASSUME NEW t \in DOMAIN turn', turn'[t].state = "calling",
                    NEW s, s = turn'[t].run, NEW b, b = turn'[t].agent
             PROVE  Calling(s)' = {t} /\ Cardinality(GeneratedBy(s, b))' < AgentCap(s, b)'
  BY DEF CallsOK, Calling, GeneratedBy, Generated, Inherited, OwnPosts, Post, AgentCap
<1>2. GeneratedBy(s, b)' = GeneratedBy(s, b) /\ AgentCap(s, b)' = AgentCap(s, b)
  BY DEF GeneratedBy, Generated, Inherited, OwnPosts, Post, AgentCap
<1>3. Calling(r) = {}
  BY DEF CanTake
<1>4. CASE t \in DOMAIN turn
  <2>1. turn[t].state = "calling" /\ turn[t].run = s /\ turn[t].agent = b
    BY <1>1, <1>4
  <2>2. Calling(s) = {t} /\ Cardinality(GeneratedBy(s, b)) < AgentCap(s, b)
    BY <1>4, <2>1 DEF CallsOK
  <2>3. s # r
    BY <1>3, <2>2
  <2>4. Calling(s)' = Calling(s)
    BY <1>1, <2>3 DEF Calling
  <2> QED BY <1>2, <2>2, <2>4
<1>5. CASE t = Len(turn) + 1
  <2>1. s = r /\ b = a
    BY <1>1, <1>5
  <2>2. Calling(s)' = {t}
    <3>1. \A x \in DOMAIN turn : ~ (turn'[x].run = s /\ turn'[x].state = "calling")
      BY <1>1, <1>3, <2>1 DEF Calling
    <3>2. DOMAIN turn' = DOMAIN turn \cup {t}
      BY <1>1, <1>5
    <3> QED BY <3>1, <3>2 DEF Calling
  <2>3. Cardinality(GeneratedBy(r, a)) < AgentCap(r, a)
    <3> DEFINE h == Cardinality(GeneratedBy(r, a))
               m == AgentCap(r, a)
    <3>1. AgentLeft(r, a) > 0 /\ AgentLeft(r, a) = Monus(m, h) /\ m \in Nat /\ h \in Nat
      BY CapTypes, PostSetsFinite DEF CanTake
    <3> HIDE DEF h, m
    <3>2. h < m
      BY <3>1, MonusLeast
    <3> QED BY <3>2 DEF h, m
  <2> QED BY <1>2, <2>1, <2>2, <2>3
<1> QED BY <1>1, <1>4, <1>5

\* A turn begins with the posts of its run.
LEMMA TurnsBegin ==
  ASSUME ResearchInv, NEW r \in DOMAIN run, NEW a \in Agents, BeginTurn(r, a)
  PROVE  Step
<1> USE DEF ResearchInv
<1>1. /\ CanTake(r, a) /\ turn' = Turn(r, a, OwnPosts(r))
      /\ UNCHANGED <<run, thread, forced, log, handler, answered>>
  BY DEF BeginTurn
<1>2. PICK shown : shown = OwnPosts(r)
  OBVIOUS
<1>3. shown \subseteq AllPosts /\ turn' = Turn(r, a, shown)
  BY <1>1, <1>2 DEF AllPosts
<1>4. turn' \in Seq(TurnRows) /\ TurnsGrow /\ Len(turn') = Len(turn) + 1 /\ Len(turn) \in Nat
  BY <1>3, TurnBegins
<1>5. Grows
  BY <1>1, <1>4, SameRunsGrow DEF Grows, RowsOK
<1>6. ForcedOK'
  BY <1>1, <1>4 DEF ForcedOK
<1>7. AnsweredForkHasStarted'
  BY <1>1 DEF AnsweredForkHasStarted
<1>8. ForksOK'
  BY <1>1, <1>5, HandlersStay DEF ForksOK, Grows
<1>9. CallsOK'
  BY <1>1, <1>3, CallBegins
<1> QED BY <1>5, <1>6, <1>7, <1>8, <1>9 DEF Step

\* A forced turn begins, with the posts of its run or with a reused prompt's.
LEMMA ForcedBegin ==
  ASSUME ResearchInv, NEW i \in DOMAIN forced, BeginForced(i)
  PROVE  Step
<1> USE DEF ResearchInv
<1>0. PICK s : s = forced[i]
  OBVIOUS
<1>1. /\ forced' = [forced EXCEPT ![i].open = FALSE]
      /\ UNCHANGED <<run, thread, log, handler, answered>>
      /\ \/ CanTake(s.run, s.agent)
            /\ turn' = Turn(s.run, s.agent, IF s.reuse = 0 THEN OwnPosts(s.run)
                                            ELSE turn[s.reuse].shown)
         \/ UNCHANGED turn
  BY <1>0 DEF BeginForced
<1>2. s \in ForcedRows /\ s.run \in DOMAIN run /\ s.reuse \in 0..Len(turn) /\ s.agent \in Agents
      /\ forced \in Seq(ForcedRows)
  <2>1. s \in ForcedRows
    BY <1>0 DEF RowsOK
  <2> QED BY <1>0, <2>1 DEF ForcedOK, ForcedRows, RowsOK
<1>3. /\ forced' \in Seq(ForcedRows) /\ DOMAIN forced' = DOMAIN forced
      /\ \A x \in DOMAIN forced : /\ forced'[x].run = forced[x].run
                                  /\ forced'[x].reuse = forced[x].reuse
  <2> DEFINE row == [s EXCEPT !.open = FALSE]
  <2>1. row \in ForcedRows /\ row.run = s.run /\ row.reuse = s.reuse
    BY <1>2 DEF ForcedRows
  <2>2. forced' = [forced EXCEPT ![i] = row]
    BY <1>0, <1>1
  <2> HIDE DEF row
  <2>3. /\ forced' \in Seq(ForcedRows) /\ DOMAIN forced' = DOMAIN forced
        /\ forced'[i] = row /\ \A x \in DOMAIN forced : x # i => forced'[x] = forced[x]
    BY <1>2, <2>1, <2>2
  <2> QED BY <1>0, <2>1, <2>3
<1>4. AnsweredForkHasStarted'
  BY <1>1 DEF AnsweredForkHasStarted
<1>5. CASE UNCHANGED turn
  <2>1. Grows
    BY <1>1, <1>3, <1>5, SameRunsGrow, SameTurnsGrow DEF Grows, RowsOK
  <2>2. ForcedOK'
    BY <1>1, <1>3, <1>5 DEF ForcedOK
  <2>3. ForksOK'
    BY <1>1, <2>1, HandlersStay DEF ForksOK, Grows
  <2>4. CallsOK'
    BY <1>1, <1>5, <2>1, SameThreadsSamePosts, CallsStay
  <2> QED BY <1>4, <2>1, <2>2, <2>3, <2>4 DEF Step
<1>6. CASE /\ CanTake(s.run, s.agent)
           /\ turn' = Turn(s.run, s.agent, IF s.reuse = 0 THEN OwnPosts(s.run)
                                           ELSE turn[s.reuse].shown)
  <2>1. PICK r, a, shown : /\ r = s.run /\ a = s.agent
                           /\ shown = IF s.reuse = 0 THEN OwnPosts(s.run)
                                      ELSE turn[s.reuse].shown
    OBVIOUS
  <2>2. r \in DOMAIN run /\ a \in Agents /\ CanTake(r, a) /\ turn' = Turn(r, a, shown)
    BY <1>2, <1>6, <2>1
  <2>3. shown \subseteq AllPosts
    <3>1. CASE s.reuse = 0
      BY <2>1, <2>2, <3>1 DEF AllPosts
    <3>2. CASE s.reuse # 0
      <4>1. s.reuse \in DOMAIN turn
        BY <1>2, <3>2 DEF RowsOK
      <4> QED BY <2>1, <3>2, <4>1 DEF TurnsOK
    <3> QED BY <3>1, <3>2
  <2>4. turn' \in Seq(TurnRows) /\ TurnsGrow /\ Len(turn') = Len(turn) + 1 /\ Len(turn) \in Nat
    BY <2>2, <2>3, TurnBegins
  <2>5. Grows
    BY <1>1, <1>3, <2>4, SameRunsGrow DEF Grows, RowsOK
  <2>6. ForcedOK'
    <3> SUFFICES ASSUME NEW x \in DOMAIN forced
                 PROVE  forced'[x].run \in DOMAIN run /\ forced'[x].reuse \in 0..Len(turn')
      BY <1>1, <1>3 DEF ForcedOK
    <3> QED BY <1>3, <2>4 DEF ForcedOK
  <2>7. ForksOK'
    BY <1>1, <2>5, HandlersStay DEF ForksOK, Grows
  <2>8. CallsOK'
    BY <1>1, <2>2, <2>3, CallBegins
  <2> QED BY <1>4, <2>5, <2>6, <2>7, <2>8 DEF Step
<1> QED BY <1>1, <1>5, <1>6

\* Forks leave the posts of old runs alone.
LEMMA OldThreadsSamePosts ==
  ASSUME NEW r, thread'[r] = thread[r]
  PROVE  \A a : GeneratedBy(r, a)' = GeneratedBy(r, a)
BY DEF GeneratedBy, Generated, Inherited, OwnPosts, Post

\* A fork is made or found, and its request waits if it is continuous.
LEMMA ThreadsFork ==
  ASSUME ResearchInv, NEW c \in Clients, NEW k \in Keys, NEW s \in DOMAIN run,
         NEW inherit \in BOOLEAN, NEW continuous \in BOOLEAN, NEW cut \in DOMAIN thread[s],
         ForkThread(c, k, s, cut, inherit, continuous)
  PROVE  Step
<1> USE DEF ResearchInv
<1> DEFINE request == <<cut, inherit, continuous>>
           prior   == Prior("fork", s, k)
           new     == Record("fork", s, k, request, Len(run) + 1)
<1>1. /\ \/ /\ prior = {} /\ Branch(s, cut, inherit, 0, 1) /\ log' = log \cup {new}
         \/ prior # {} /\ UNCHANGED <<run, thread, log>>
      /\ \/ handler' = [handler EXCEPT ![c] = [phase |-> "committed", new |-> prior = {},
               run |-> CHOOSE r \in {e.result : e \in log' \cap Prior("fork", s, k)'} : TRUE]]
         \/ handler' = handler
      /\ UNCHANGED <<turn, forced, answered>>
  BY DEF ForkThread
<1>2. /\ OldRuns /\ NewRuns /\ run' \in Seq(RunRows) /\ thread' \in Seq(Seq(PostRows))
      /\ Len(thread') = Len(run')
      /\ \A r \in DOMAIN run : run'[r] = run[r] /\ thread'[r] = thread[r]
      /\ \A e \in log' : e.op = "fork" => e.result \in DOMAIN run'
      /\ log' \cap Prior("fork", s, k)' # {}
  <2>1. CASE prior = {} /\ Branch(s, cut, inherit, 0, 1) /\ log' = log \cup {new}
    <3>1. cut \in 0..Len(thread[s]) /\ Len(run) \in Nat
      BY RunRow
    <3>2. /\ run' \in Seq(RunRows) /\ thread' \in Seq(Seq(PostRows))
          /\ Len(thread') = Len(run') /\ Len(run') = Len(run) + 1
          /\ OldRuns /\ NewRuns /\ DOMAIN run' = 1..(Len(run) + 1)
          /\ \A r \in DOMAIN run : run'[r] = run[r] /\ thread'[r] = thread[r]
      <4> DEFINE t == 0
                 n == 1
      <4>1. t \in Nat /\ n \in Nat /\ t = 0 /\ n = 1 /\ Branch(s, cut, inherit, t, n)
        BY <2>1
      <4> HIDE DEF t, n
      <4>2. /\ run' \in Seq(RunRows) /\ thread' \in Seq(Seq(PostRows))
            /\ Len(thread') = Len(run') /\ Len(run') = Len(run) + n
            /\ OldRuns /\ NewRuns /\ DOMAIN run' = 1..(Len(run) + n)
            /\ \A r \in DOMAIN run : run'[r] = run[r] /\ thread'[r] = thread[r]
        BY <3>1, <4>1, BranchShape
      <4> QED BY <4>1, <4>2
    <3>3. new.op = "fork" /\ new.on = s /\ new.key = k /\ new.result = Len(run) + 1
      BY DEF Record
    <3> HIDE DEF new
    <3>4. Len(run) + 1 \in DOMAIN run' /\ DOMAIN run \subseteq DOMAIN run'
      BY <3>1, <3>2 DEF OldRuns
    <3>5. \A e \in log' : e.op = "fork" => e.result \in DOMAIN run'
      BY <2>1, <3>3, <3>4 DEF ForksOK
    <3>6. new \in log' \cap Prior("fork", s, k)'
      BY <2>1, <3>3 DEF Prior
    <3> QED BY <3>2, <3>5, <3>6
  <2>2. CASE prior # {} /\ UNCHANGED <<run, thread, log>>
    <3>1. OldRuns /\ NewRuns
      BY <2>2, SameRunsGrow
    <3>2. log' \cap Prior("fork", s, k)' # {}
      BY <2>2 DEF Prior
    <3>3. /\ run' \in Seq(RunRows) /\ thread' \in Seq(Seq(PostRows))
          /\ Len(thread') = Len(run')
      BY <2>2 DEF RowsOK
    <3>4. \A e \in log' : e.op = "fork" => e.result \in DOMAIN run'
      BY <2>2 DEF ForksOK
    <3> QED BY <2>2, <3>1, <3>2, <3>3, <3>4
  <2> QED BY <1>1, <2>1, <2>2
<1> HIDE DEF request, prior, new
<1>3. Grows
  BY <1>1, <1>2, SameTurnsGrow DEF Grows, RowsOK
<1>4. ForcedOK'
  BY <1>1, <1>2 DEF ForcedOK, OldRuns
<1>5. AnsweredForkHasStarted'
  BY <1>1, <1>2 DEF AnsweredForkHasStarted, ForksOK
<1>6. ForksOK'
  <2> DEFINE r == CHOOSE r \in {e.result : e \in log' \cap Prior("fork", s, k)'} : TRUE
             h == [phase |-> "committed", new |-> prior = {}, run |-> r]
  <2>1. r \in DOMAIN run'
    <3>1. r \in {e.result : e \in log' \cap Prior("fork", s, k)'}
      BY <1>2
    <3>2. \A e \in log' \cap Prior("fork", s, k)' : e.result \in DOMAIN run'
      BY <1>2 DEF Prior
    <3> HIDE DEF r
    <3> QED BY <3>1, <3>2
  <2> HIDE DEF r
  <2>2. h \in Handlers'
    BY <2>1 DEF Handlers
  <2>3. handler' = handler \/ handler' = [handler EXCEPT ![c] = h]
    BY <1>1 DEF r
  <2> HIDE DEF h
  <2>4. DOMAIN run \subseteq DOMAIN run'
    BY <1>2 DEF OldRuns
  <2>5. Handlers \subseteq Handlers' /\ handler \in [Clients -> Handlers]
    BY <2>4 DEF Handlers, ForksOK
  <2>6. handler' \in [Clients -> Handlers']
    BY <2>2, <2>3, <2>5
  <2>7. answered' \subseteq DOMAIN run'
    BY <1>1, <2>4 DEF ForksOK
  <2> QED BY <1>2, <2>6, <2>7 DEF ForksOK, Handlers
<1>7. CallsOK'
  <2>1. ASSUME NEW t \in DOMAIN turn, NEW r, r = turn[t].run, NEW a \in Agents
        PROVE  GeneratedBy(r, a)' = GeneratedBy(r, a)
    BY <1>2, <2>1, OldThreadsSamePosts DEF TurnsOK
  <2> QED BY <1>1, <1>3, <2>1, CallsStay
<1> QED BY <1>3, <1>4, <1>5, <1>6, <1>7 DEF Step

\* A resample: forks at the turn's cutoff, and a forced stimulus for each.
LEMMA TurnsResample ==
  ASSUME ResearchInv, NEW k \in Keys, NEW t \in DOMAIN turn, NEW n \in SampleSizes,
         NEW reuse \in BOOLEAN, Resample(k, t, n, reuse)
  PROVE  Step
<1> USE DEF ResearchInv
<1>0. PICK s, cut : s = turn[t].run /\ cut = Cutoff(t)
  OBVIOUS
<1> DEFINE row(i) == Stimulus(Len(run) + i, turn[t].agent, IF reuse THEN t ELSE 0)
           rows   == [i \in 1..n |-> row(i)]
           new    == Record("resample", t, k, <<n, reuse>>, Len(run) + 1)
<1>1. /\ Branch(s, cut, FALSE, t, n) /\ forced' = forced \o rows
      /\ log' = log \cup {new} /\ UNCHANGED <<turn, handler, answered>>
  BY <1>0 DEF Resample
<1>2. /\ s \in DOMAIN run /\ cut \in 0..Len(thread[s]) /\ t \in Nat /\ n \in Nat
      /\ Len(run) \in Nat /\ DOMAIN run = 1..Len(run) /\ t \in 0..Len(turn)
  <2>1. s \in DOMAIN run /\ cut \in 0..Len(thread[s])
    BY <1>0, CutoffIs DEF TurnsOK
  <2>2. t \in 1..Len(turn) /\ Len(turn) \in Nat
    BY DEF RowsOK
  <2> QED BY <2>1, <2>2, RunRow, ConstantTypes DEF RowsOK
<1>3. /\ run' \in Seq(RunRows) /\ thread' \in Seq(Seq(PostRows))
      /\ Len(thread') = Len(run') /\ OldRuns /\ NewRuns /\ DOMAIN run' = 1..(Len(run) + n)
      /\ \A r \in DOMAIN run : run'[r] = run[r] /\ thread'[r] = thread[r]
  <2> DEFINE inherit == FALSE
  <2>1. inherit \in BOOLEAN /\ Branch(s, cut, inherit, t, n)
    BY <1>1
  <2> HIDE DEF inherit
  <2>2. t = 0 \/ (t \in DOMAIN turn /\ s = turn[t].run /\ cut = Cutoff(t))
    BY <1>0
  <2> QED BY <1>2, <2>1, <2>2, BranchShape
<1>4. ASSUME NEW i \in 1..n
      PROVE  row(i) \in ForcedRows /\ row(i).run = Len(run) + i /\ row(i).reuse \in 0..Len(turn)
  <2>1. turn[t].agent \in Agents
    BY TurnRow DEF TurnRows
  <2>2. (IF reuse THEN t ELSE 0) \in 0..Len(turn) /\ (IF reuse THEN t ELSE 0) \in Nat
    BY <1>2
  <2>3. Len(run) + i \in Nat
    BY <1>2
  <2> DEFINE q == IF reuse THEN t ELSE 0
             m == Len(run) + i
  <2>4. row(i) = [run |-> m, agent |-> turn[t].agent, reuse |-> q, open |-> TRUE]
    BY DEF Stimulus
  <2>5. q \in 0..Len(turn) /\ q \in Nat /\ m \in Nat
    BY <2>2, <2>3
  <2> HIDE DEF row, q, m
  <2>6. row(i) \in ForcedRows /\ row(i).run = m /\ row(i).reuse \in 0..Len(turn)
    BY <2>1, <2>4, <2>5 DEF ForcedRows
  <2> QED BY <2>6 DEF m
<1> HIDE DEF row
<1>5. rows \in Seq(ForcedRows) /\ Len(rows) = n
  BY <1>2, <1>4
<1>6. \A i \in 1..n : rows[i] = row(i)
  OBVIOUS
<1> HIDE DEF rows
<1>7. /\ forced' \in Seq(ForcedRows) /\ Len(forced') = Len(forced) + n
      /\ \A i \in 1..Len(forced) : forced'[i] = forced[i]
      /\ \A i \in 1..n : forced'[Len(forced) + i] = rows[i]
      /\ Len(forced) \in Nat
  <2>1. forced \in Seq(ForcedRows) /\ Len(forced) = Len(forced)
    BY DEF RowsOK
  <2>2. PICK m \in Nat : Len(forced) = m
    BY <2>1
  <2>3. /\ forced \o rows \in Seq(ForcedRows) /\ Len(forced \o rows) = m + n
        /\ \A i \in 1..m : (forced \o rows)[i] = forced[i]
        /\ \A i \in 1..n : (forced \o rows)[m + i] = rows[i]
    BY <1>5, <2>1, <2>2, Concatenated
  <2> QED BY <1>1, <2>2, <2>3
<1>8. Grows
  BY <1>1, <1>3, <1>7, SameTurnsGrow DEF Grows, RowsOK
<1>9. ForcedOK'
  <2> SUFFICES ASSUME NEW i \in DOMAIN forced'
               PROVE  forced'[i].run \in DOMAIN run' /\ forced'[i].reuse \in 0..Len(turn)
    BY <1>1 DEF ForcedOK
  <2>1. i \in 1..(Len(forced) + n) /\ DOMAIN forced = 1..Len(forced)
    BY <1>7 DEF RowsOK
  <2>2. CASE i \in 1..Len(forced)
    <3>1. forced'[i] = forced[i] /\ i \in DOMAIN forced
      BY <1>7, <2>1, <2>2
    <3> QED BY <1>3, <3>1 DEF ForcedOK, OldRuns
  <2>3. CASE i \notin 1..Len(forced)
    <3>1. PICK j \in 1..n : i = Len(forced) + j
      <4>1. i - Len(forced) \in 1..n /\ i = Len(forced) + (i - Len(forced))
        BY <1>2, <1>7, <2>1, <2>3
      <4> QED BY <4>1
    <3>2. forced'[i] = row(j)
      BY <1>6, <1>7, <3>1
    <3>3. Len(run) + j \in DOMAIN run'
      BY <1>2, <1>3
    <3> QED BY <1>4, <3>2, <3>3
  <2> QED BY <2>2, <2>3
<1>10. AnsweredForkHasStarted'
  BY <1>1, <1>3 DEF AnsweredForkHasStarted, ForksOK
<1>11. ForksOK'
  <2>1. new.op = "resample"
    BY DEF Record
  <2> HIDE DEF new
  <2>2. DOMAIN run \subseteq DOMAIN run'
    BY <1>3 DEF OldRuns
  <2>3. \A e \in log' : e.op = "fork" => e.result \in DOMAIN run'
    BY <1>1, <2>1, <2>2 DEF ForksOK
  <2>4. Handlers \subseteq Handlers' /\ handler \in [Clients -> Handlers]
    BY <2>2 DEF Handlers, ForksOK
  <2>5. handler' \in [Clients -> Handlers'] /\ answered' \subseteq DOMAIN run'
    BY <1>1, <2>2, <2>4 DEF ForksOK
  <2> QED BY <2>3, <2>5 DEF ForksOK, Handlers
<1>12. CallsOK'
  <2>1. ASSUME NEW x \in DOMAIN turn, NEW r, r = turn[x].run, NEW a \in Agents
        PROVE  GeneratedBy(r, a)' = GeneratedBy(r, a)
    BY <1>3, <2>1, OldThreadsSamePosts DEF TurnsOK
  <2> QED BY <1>1, <1>8, <2>1, CallsStay
<1> QED BY <1>8, <1>9, <1>10, <1>11, <1>12 DEF Step

-----------------------------------------------------------------------------
(* The invariant *)

LEMMA InvInit ==
  ResearchInit => ResearchInv
<1> SUFFICES ASSUME ResearchInit PROVE ResearchInv
  OBVIOUS
<1> DEFINE grants == [a \in Agents |-> AgentQuota]
           none   == <<>>
           row    == [state |-> "running", blocked |-> FALSE, parent |-> 0, inherits |-> TRUE,
                      sampled |-> 0, maxPosts |-> RootPosts, postsUsed |-> 1,
                      agentGrant |-> grants, threadGrant |-> ThreadQuota, aliases |-> none]
           post   == [author |-> NoAgent, copyOf |-> NoPost]
           posts  == <<post>>
<1>1. /\ run = <<row>> /\ thread = <<posts>> /\ turn = <<>> /\ forced = <<>> /\ log = {}
      /\ handler = [c \in Clients |-> Idle] /\ answered = {}
  BY DEF ResearchInit
<1>2. none \in Maps /\ DOMAIN none = {}
  <2>1. none \in [{} -> Names] /\ {} \in SUBSET Names
    OBVIOUS
  <2> QED BY <2>1 DEF Maps
<1>3. grants \in [Agents -> Nat] /\ \A a \in Agents : grants[a] = AgentQuota
  BY ConstantTypes
<1> HIDE DEF grants, none
<1>4. /\ row \in RunRows /\ row.parent = 0 /\ row.sampled = 0 /\ row.aliases = none
      /\ row.maxPosts = RootPosts /\ row.postsUsed = 1
      /\ row.agentGrant = grants /\ row.threadGrant = ThreadQuota
  BY <1>2, <1>3, ConstantTypes DEF RunRows
<1>5. post \in PostRows /\ post.author = NoAgent /\ post.copyOf = NoPost
  BY ConstantTypes DEF PostRows
<1> HIDE DEF row, post
<1>6. posts \in Seq(PostRows) /\ DOMAIN posts = {1} /\ posts[1] = post
  BY <1>5
<1> HIDE DEF posts
<1>7. RowsOK
  <2>1. run \in Seq(RunRows) /\ Len(run) = 1
    BY <1>1, <1>4
  <2>2. thread \in Seq(Seq(PostRows)) /\ Len(thread) = 1
    <3> DEFINE T == Seq(PostRows)
    <3>1. posts \in T
      BY <1>6
    <3> HIDE DEF T
    <3>2. thread \in Seq(T) /\ Len(thread) = 1
      BY <1>1, <3>1
    <3> QED BY <3>2 DEF T
  <2>3. turn \in Seq(TurnRows) /\ forced \in Seq(ForcedRows)
    BY <1>1
  <2> QED BY <2>1, <2>2, <2>3 DEF RowsOK
<1>8. DOMAIN run = {1} /\ run[1] = row /\ thread[1] = posts
  BY <1>1
<1>9. DOMAIN turn = {} /\ DOMAIN forced = {}
  BY <1>1
<1>10. TurnsOK /\ ForcedOK /\ CallsOK
  BY <1>9 DEF TurnsOK, ForcedOK, CallsOK
<1>11. ForksOK /\ AnsweredForkHasStarted
  BY <1>1 DEF ForksOK, AnsweredForkHasStarted, Handlers
<1>12. CopiesOK
  BY <1>5, <1>6, <1>8 DEF CopiesOK
<1>13. SamplesOK
  BY <1>4, <1>8 DEF SamplesOK
<1>14. Inherited(1) = {} /\ Generated(1) = {}
  <2>1. OwnPosts(1) = {<<1, 1>>} /\ Post(<<1, 1>>) = post
    BY <1>6, <1>8 DEF OwnPosts, Post
  <2> QED BY <1>5, <2>1 DEF Inherited, Generated
<1>15. AliasesOK
  <2>1. \A q, p : ~ Resolves(1, q, p)
    BY <1>2, <1>4, <1>8 DEF Resolves
  <2> QED BY <1>8, <1>14, <2>1 DEF AliasesOK
<1>16. QuotaOK
  <2>1. Cardinality(Generated(1)) = 0 /\ \A a : Cardinality(GeneratedBy(1, a)) = 0
    <3>1. \A a : GeneratedBy(1, a) = {}
      BY <1>14 DEF GeneratedBy
    <3> QED BY <1>14, <3>1, FS_EmptySet
  <2>2. ThreadCap(1) \in Nat /\ \A a \in Agents : AgentCap(1, a) \in Nat
    BY <1>7, <1>8, CapTypes
  <2>3. WithinCaps(1)
    BY <1>4, <1>8, <2>1, <2>2, ConstantTypes DEF WithinCaps
  <2> QED BY <1>4, <1>8, <2>3, ConstantTypes DEF QuotaOK
<1> QED BY <1>7, <1>10, <1>11, <1>12, <1>13, <1>15, <1>16 DEF ResearchInv

\* One case per action.
LEMMA NextSteps ==
  ASSUME ResearchInv, ResearchNext
  PROVE  Step
<1>1. ASSUME NEW c \in Clients, NEW k \in Keys, NEW s \in DOMAIN run, NEW inherit \in BOOLEAN,
             NEW continuous \in ForkKinds, NEW cut \in DOMAIN thread[s],
             ForkThread(c, k, s, cut, inherit, continuous)
      PROVE  Step
  <2>1. continuous \in BOOLEAN
    BY ResearchAssumption DEF ResearchAssumption
  <2> QED BY <1>1, <2>1, ThreadsFork
<1>2. ASSUME NEW c \in Clients, CheckFork(c) \/ StartFork(c) \/ LoseRequest(c)
      PROVE  Step
  BY <1>2, RequestsMove, RunsStart
<1>3. ASSUME NEW k \in Keys, NEW r \in DOMAIN run, NEW a \in Agents, ForceTurn(k, r, a)
      PROVE  Step
  BY <1>3, TurnsForced
<1>4. ASSUME NEW k \in Keys, NEW t \in DOMAIN turn, NEW n \in SampleSizes,
             NEW reuse \in BOOLEAN, Resample(k, t, n, reuse)
      PROVE  Step
  BY <1>4, TurnsResample
<1>5. ASSUME NEW r \in DOMAIN run, StartRun(r) \/ HumanPost(r)
      PROVE  Step
  BY <1>5, RunsStart, PeoplePost
<1>6. ASSUME NEW r \in DOMAIN run, NEW blocked \in BOOLEAN, EndRun(r, blocked)
      PROVE  Step
  BY <1>6, RunsEnd
<1>7. ASSUME NEW r \in DOMAIN run, NEW a \in Agents, BeginTurn(r, a)
      PROVE  Step
  BY <1>7, TurnsBegin
<1>8. ASSUME NEW i \in DOMAIN forced, BeginForced(i)
      PROVE  Step
  BY <1>8, ForcedBegin
<1>9. ASSUME NEW t \in DOMAIN turn, FinishWithout(t) \/ FinishWithPost(t)
      PROVE  Step
  BY <1>9, CallsEnd, AgentsPost
<1> QED BY <1>1, <1>2, <1>3, <1>4, <1>5, <1>6, <1>7, <1>8, <1>9 DEF ResearchNext

LEMMA InvNext ==
  ResearchInv /\ [ResearchNext]_researchVars => ResearchInv'
<1> SUFFICES ASSUME ResearchInv, [ResearchNext]_researchVars PROVE ResearchInv'
  OBVIOUS
<1>1. CASE ResearchNext
  <2>1. Step
    BY <1>1, NextSteps
  <2>2. CopiesOK' /\ TurnsOK' /\ SamplesOK' /\ AliasesOK' /\ QuotaOK'
    BY <2>1, GrowthKeepsCopies, GrowthKeepsTurns, GrowthKeepsSamples, GrowthKeepsAliases,
       GrowthKeepsQuota DEF ResearchInv, Step
  <2> QED BY <2>1, <2>2 DEF ResearchInv, Step, Grows
<1>2. CASE UNCHANGED researchVars
  <2>1. UNCHANGED <<run, thread, turn, forced, log, handler, answered>>
    BY <1>2 DEF researchVars, tables
  <2>2. Grows
    BY <2>1, SameRunsGrow, SameTurnsGrow DEF Grows, ResearchInv, RowsOK
  <2>3. CopiesOK' /\ TurnsOK' /\ SamplesOK' /\ AliasesOK' /\ QuotaOK'
    BY <2>2, GrowthKeepsCopies, GrowthKeepsTurns, GrowthKeepsSamples, GrowthKeepsAliases,
       GrowthKeepsQuota DEF ResearchInv
  <2>4. ForcedOK' /\ ForksOK' /\ AnsweredForkHasStarted'
    BY <2>1 DEF ResearchInv, ForcedOK, ForksOK, AnsweredForkHasStarted, Handlers
  <2>5. CallsOK'
    BY <2>1, <2>2, SameThreadsSamePosts, CallsStay DEF ResearchInv
  <2> QED BY <2>2, <2>3, <2>4, <2>5 DEF ResearchInv, Grows
<1> QED BY <1>1, <1>2

LEMMA InvAlways ==
  ResearchSpec => []ResearchInv
BY InvInit, InvNext, PTL DEF ResearchSpec

-----------------------------------------------------------------------------
(* The properties *)

\* The run of an answered continuous fork has been started, whatever crashed
\* or was retried between the commit of the fork and its start.
THEOREM AnsweredForksStart ==
  ResearchSpec => []AnsweredForkHasStarted
<1>1. ResearchInv => AnsweredForkHasStarted
  BY DEF ResearchInv
<1> QED BY <1>1, InvAlways, PTL

\* A sample starts from the thread at the time of its turn, however the thread,
\* and the turn, went on.
THEOREM SamplesStartAtTheirTurn ==
  ResearchSpec => []SampledAtTheMoment
<1>1. ASSUME ResearchInv PROVE SampledAtTheMoment
  <2> USE DEF ResearchInv
  <2> SUFFICES ASSUME NEW r \in DOMAIN run, NEW t, t = run[r].sampled, t # 0
               PROVE  LET seen == {Post(p).copyOf : p \in Inherited(r)}
                      IN  /\ SeenHere(t) \subseteq seen
                          /\ turn[t].post # NoPost => \A p \in seen : p[2] < turn[t].post[2]
    BY DEF SampledAtTheMoment
  <2> DEFINE seen == {Post(p).copyOf : p \in Inherited(r)}
  <2>1. /\ t \in DOMAIN turn /\ run[r].parent = turn[t].run
        /\ \A p \in SeenHere(t) : p[2] \in DOMAIN thread[r] /\ thread[r][p[2]].copyOf = p
        /\ turn[t].post # NoPost =>
             \A i \in DOMAIN thread[r] : thread[r][i].copyOf # NoPost => i < turn[t].post[2]
    BY <1>1 DEF SamplesOK
  <2>2. ASSUME NEW p \in SeenHere(t) PROVE p \in seen
    <3>1. p # NoPost /\ p[2] \in DOMAIN thread[r] /\ thread[r][p[2]].copyOf = p
      BY <1>1, <2>1, CutoffIs
    <3>2. <<r, p[2]>> \in OwnPosts(r) /\ Post(<<r, p[2]>>) = thread[r][p[2]]
      BY <3>1 DEF OwnPosts, Post
    <3>3. <<r, p[2]>> \in Inherited(r) /\ Post(<<r, p[2]>>).copyOf = p
      BY <3>1, <3>2 DEF Inherited
    <3> QED BY <3>3
  <2>3. ASSUME turn[t].post # NoPost, NEW p \in seen PROVE p[2] < turn[t].post[2]
    <3>1. PICK x \in Inherited(r) : p = Post(x).copyOf
      OBVIOUS
    <3>2. x \in OwnPosts(r) /\ Post(x).copyOf # NoPost
      BY DEF Inherited
    <3>3. x[2] \in DOMAIN thread[r] /\ Post(x) = thread[r][x[2]]
      BY <1>1, <3>2, PostsAre
    <3>4. p = <<run[r].parent, x[2]>>
      BY <1>1, <3>1, <3>2, <3>3 DEF CopiesOK
    <3>5. x[2] < turn[t].post[2]
      BY <2>1, <2>3, <3>2, <3>3
    <3> QED BY <3>4, <3>5
  <2> QED BY <2>2, <2>3
<1> QED BY <1>1, InvAlways, PTL

\* What is inherited has a parent run, and the post it copies.
LEMMA CopyFacts ==
  ASSUME ResearchInv, NEW r \in DOMAIN run, NEW p \in OwnPosts(r), Post(p).copyOf # NoPost
  PROVE  /\ run[r].parent \in DOMAIN run /\ run[r].parent < r
         /\ Post(p).copyOf \in OwnPosts(run[r].parent) /\ Post(p).copyOf \in Names
         /\ p \in Inherited(r)
<1> USE DEF ResearchInv
<1>1. p[2] \in DOMAIN thread[r] /\ Post(p) = thread[r][p[2]]
  BY PostsAre
<1> DEFINE s == run[r].parent
<1>2. s \in 1..(r - 1) /\ Post(p).copyOf = <<s, p[2]>> /\ p[2] \in DOMAIN thread[s]
  BY <1>1 DEF CopiesOK
<1>3. r \in 1..Len(run) /\ Len(run) \in Nat /\ DOMAIN run = 1..Len(run)
  BY RunRow DEF RowsOK
<1> HIDE DEF s
<1>4. s \in DOMAIN run /\ s < r
  BY <1>2, <1>3
<1>5. <<s, p[2]>> \in OwnPosts(s)
  BY <1>2 DEF OwnPosts
<1>6. <<s, p[2]>> \in Names
  BY <1>4, <1>5, PostsAre
<1> QED BY <1>2, <1>4, <1>5, <1>6 DEF s, Inherited

\* The recursion of Origins has a solution: what the aliases resolve to a post.
LEMMA OriginsStep ==
  ASSUME ResearchInv, NEW r \in DOMAIN run, NEW p \in OwnPosts(r)
  PROVE  Origins[p] = IF Post(p).copyOf = NoPost THEN {}
                      ELSE {Post(p).copyOf} \cup Origins[Post(p).copyOf]
<1> USE DEF ResearchInv
<1> DEFINE Unfold(f) ==
             [x \in AllPosts |-> IF Post(x).copyOf = NoPost THEN {}
                                 ELSE {Post(x).copyOf} \cup f[Post(x).copyOf]]
           g == [x \in AllPosts |-> {q \in Names : Resolves(x[1], q, x)}]
<1>1. Origins = CHOOSE f : f = Unfold(f)
  BY DEF Origins, AllPosts
<1>2. ASSUME NEW x \in AllPosts
      PROVE  g[x] = IF Post(x).copyOf = NoPost THEN {}
                    ELSE {Post(x).copyOf} \cup g[Post(x).copyOf]
  <2>1. PICK s \in DOMAIN run : x \in OwnPosts(s)
    BY DEF AllPosts
  <2>2. x[1] = s /\ x \in Names
    BY <2>1, PostsAre
  <2>3. \A q \in Names : Resolves(s, q, x) <=>
          /\ x \in Inherited(s)
          /\ q = Post(x).copyOf \/ Resolves(run[s].parent, q, Post(x).copyOf)
    BY <2>2 DEF AliasesOK
  <2>4. g[x] = {q \in Names : Resolves(s, q, x)}
    BY <2>2
  <2> HIDE DEF g
  <2>5. CASE Post(x).copyOf = NoPost
    <3>1. x \notin Inherited(s)
      BY <2>5 DEF Inherited
    <3> QED BY <2>3, <2>4, <2>5, <3>1
  <2>6. CASE Post(x).copyOf # NoPost
    <3> DEFINE y == Post(x).copyOf
               v == run[s].parent
    <3>1. v \in DOMAIN run /\ y \in OwnPosts(v) /\ y \in Names /\ x \in Inherited(s)
      BY <2>1, <2>6, CopyFacts
    <3> HIDE DEF y, v
    <3>2. y \in AllPosts /\ y[1] = v
      BY <3>1, PostsAre DEF AllPosts
    <3>3. g[y] = {q \in Names : Resolves(v, q, y)}
      BY <3>2 DEF g
    <3>4. g[x] = {y} \cup g[y]
      BY <2>3, <2>4, <3>1, <3>3 DEF y, v
    <3> QED BY <2>6, <3>4 DEF y
  <2> QED BY <2>5, <2>6
<1>3. g = Unfold(g)
  <2> DEFINE h == Unfold(g)
  <2>1. g = [x \in AllPosts |-> g[x]]
    OBVIOUS
  <2> HIDE DEF g
  <2>2. h = [x \in AllPosts |-> g[x]]
    BY <1>2
  <2> QED BY <2>1, <2>2
<1> HIDE DEF g
<1>4. Origins = Unfold(Origins)
  <2> HIDE DEF Unfold
  <2> QED BY <1>1, <1>3
<1>5. p \in AllPosts
  BY DEF AllPosts
<1> QED BY <1>4, <1>5

LEMMA OriginsAre ==
  ASSUME ResearchInv
  PROVE  \A r \in DOMAIN run : \A p \in OwnPosts(r) :
           Origins[p] = {q \in Names : Resolves(r, q, p)}
<1> USE DEF ResearchInv
<1> DEFINE T == {r \in DOMAIN run : \E p \in OwnPosts(r) :
                   Origins[p] # {q \in Names : Resolves(r, q, p)}}
<1> SUFFICES ASSUME T # {} PROVE FALSE
  OBVIOUS
<1>1. T \subseteq Nat
  BY RunRow
<1>2. PICK r \in T : \A x \in T : r <= x
  <2> HIDE DEF T
  <2> QED BY <1>1, LeastOf
<1>3. PICK p \in OwnPosts(r) : Origins[p] # {q \in Names : Resolves(r, q, p)}
  OBVIOUS
<1>4. r \in DOMAIN run /\ p \in Names
  BY <1>3, PostsAre
<1>5. \A q \in Names : Resolves(r, q, p) <=>
        /\ p \in Inherited(r)
        /\ q = Post(p).copyOf \/ Resolves(run[r].parent, q, Post(p).copyOf)
  BY <1>4 DEF AliasesOK
<1>6. Origins[p] = IF Post(p).copyOf = NoPost THEN {}
                   ELSE {Post(p).copyOf} \cup Origins[Post(p).copyOf]
  BY <1>4, OriginsStep
<1>7. CASE Post(p).copyOf = NoPost
  <2>1. p \notin Inherited(r)
    BY <1>7 DEF Inherited
  <2> QED BY <1>3, <1>5, <1>6, <1>7, <2>1
<1>8. CASE Post(p).copyOf # NoPost
  <2> DEFINE y == Post(p).copyOf
             v == run[r].parent
  <2>1. v \in DOMAIN run /\ v < r /\ y \in OwnPosts(v) /\ y \in Names /\ p \in Inherited(r)
    BY <1>4, <1>8, CopyFacts
  <2> HIDE DEF y, v
  <2>2. v \notin T
    <3>1. v \in Nat /\ r \in Nat
      BY <1>4, <2>1, RunRow
    <3> HIDE DEF T
    <3> QED BY <1>2, <2>1, <3>1
  <2>3. Origins[y] = {q \in Names : Resolves(v, q, y)}
    BY <2>1, <2>2
  <2>4. Origins[p] = {y} \cup Origins[y]
    BY <1>6, <1>8 DEF y
  <2>5. \A q \in Names : Resolves(r, q, p) <=> q = y \/ Resolves(v, q, y)
    BY <1>5, <2>1 DEF y, v
  <2> HIDE DEF T
  <2> QED BY <1>3, <2>1, <2>3, <2>4, <2>5
<1> QED BY <1>7, <1>8

\* post_id_map names the copy of every post that an inherited post comes from,
\* through any number of forks, and nothing else.
THEOREM AliasesNameEveryOrigin ==
  ResearchSpec => []AliasesResolve
<1>1. ASSUME ResearchInv PROVE AliasesResolve
  <2> USE DEF ResearchInv
  <2> SUFFICES ASSUME NEW r \in DOMAIN run
               PROVE  LET aliases == run[r].aliases
                      IN  {<<q, aliases[q]>> : q \in DOMAIN aliases}
                            = UNION {{<<q, p>> : q \in Origins[p]} : p \in Inherited(r)}
    BY DEF AliasesResolve
  <2> DEFINE aliases == run[r].aliases
             A == {<<q, aliases[q]>> : q \in DOMAIN aliases}
             B == UNION {{<<q, p>> : q \in Origins[p]} : p \in Inherited(r)}
  <2>1. \A q \in DOMAIN aliases : q \in Names /\ aliases[q] \in Names
    BY <1>1, RunRow DEF RunRows, Maps
  <2>2. \A p \in Inherited(r) : p \in Names /\ Origins[p] = {q \in Names : Resolves(r, q, p)}
    <3>1. Inherited(r) \subseteq OwnPosts(r)
      BY DEF Inherited
    <3> QED BY <1>1, <3>1, OriginsAre, PostsAre
  <2>3. \A q, p \in Names : Resolves(r, q, p) => p \in Inherited(r)
    BY <1>1 DEF AliasesOK
  <2>4. ASSUME NEW q \in DOMAIN aliases PROVE <<q, aliases[q]>> \in B
    <3> DEFINE p == aliases[q]
    <3>1. Resolves(r, q, p) /\ q \in Names /\ p \in Names
      BY <2>1 DEF Resolves
    <3> HIDE DEF p
    <3>2. p \in Inherited(r) /\ q \in Origins[p]
      BY <2>2, <2>3, <3>1
    <3>3. <<q, p>> \in B
      BY <3>2
    <3> QED BY <3>3 DEF p
  <2>5. ASSUME NEW p \in Inherited(r), NEW q \in Origins[p] PROVE <<q, p>> \in A
    <3>1. Resolves(r, q, p)
      BY <2>2
    <3>2. q \in DOMAIN aliases /\ aliases[q] = p
      BY <3>1 DEF Resolves
    <3> QED BY <3>2
  <2>6. A = B
    <3>1. A \subseteq B
      <4> HIDE DEF B
      <4> QED BY <2>4
    <3>2. B \subseteq A
      <4> HIDE DEF A
      <4> QED BY <2>5
    <3> QED BY <3>1, <3>2
  <2> QED BY <2>6
<1> QED BY <1>1, InvAlways, PTL

\* The recursion of Lineage has a solution: the runs from which a chain of
\* inherited forks leads to the beginning.
LEMMA LineageStep ==
  ASSUME ResearchInv, NEW r \in DOMAIN run, Lineage[r]
  PROVE  run[r].inherits /\ (run[r].parent # 0 => Lineage[run[r].parent])
<1> USE DEF ResearchInv
<1> DEFINE N == Len(run)
           Unfold(f) ==
             [x \in 0..N |-> IF x = 0 THEN TRUE ELSE run[x].inherits /\ f[run[x].parent]]
           Chain(S) == \A x \in S : x # 0 => run[x].inherits /\ run[x].parent \in S
           g == [x \in 0..N |-> \E S \in SUBSET (0..N) : x \in S /\ Chain(S)]
<1>1. Lineage = CHOOSE f : f = Unfold(f)
  BY DEF Lineage
<1>2. N \in Nat /\ DOMAIN run = 1..N
  BY DEF RowsOK
<1>3. ASSUME NEW x \in 0..N, x # 0
      PROVE  run[x].parent \in 0..N /\ run[x].inherits \in BOOLEAN
  <2>1. x \in DOMAIN run /\ x \in Nat
    BY <1>2, <1>3
  <2>2. run[x] \in RunRows
    BY <2>1, RunRow
  <2>3. run[x].parent \in Nat /\ run[x].inherits \in BOOLEAN
    BY <2>2 DEF RunRows
  <2>4. run[x].parent < x
    BY <2>1 DEF QuotaOK
  <2> QED BY <1>2, <2>3, <2>4
<1>4. ASSUME NEW x \in 0..N
      PROVE  g[x] = IF x = 0 THEN TRUE ELSE run[x].inherits /\ g[run[x].parent]
  <2>1. g[x] \in BOOLEAN /\ (g[x] <=> \E S \in SUBSET (0..N) : x \in S /\ Chain(S))
    OBVIOUS
  <2>2. CASE x = 0
    <3>1. {0} \in SUBSET (0..N) /\ Chain({0})
      BY <1>2
    <3>2. g[x]
      BY <2>1, <2>2, <3>1
    <3> QED BY <2>1, <2>2, <3>2
  <2>3. CASE x # 0
    <3> DEFINE y == run[x].parent
    <3>1. y \in 0..N /\ run[x].inherits \in BOOLEAN
      BY <1>3, <2>3
    <3>2. g[y] \in BOOLEAN /\ (g[y] <=> \E S \in SUBSET (0..N) : y \in S /\ Chain(S))
      BY <3>1
    <3>3. ASSUME g[x] PROVE run[x].inherits /\ g[y]
      <4>1. PICK S \in SUBSET (0..N) : x \in S /\ Chain(S)
        BY <2>1, <3>3
      <4>2. run[x].inherits /\ y \in S
        BY <2>3, <4>1
      <4> HIDE DEF g, Chain, y
      <4> QED BY <3>2, <4>1, <4>2
    <3>4. ASSUME run[x].inherits, g[y] PROVE g[x]
      <4>1. PICK S \in SUBSET (0..N) : y \in S /\ Chain(S)
        BY <3>2, <3>4
      <4>2. S \cup {x} \in SUBSET (0..N) /\ x \in S \cup {x}
        BY <4>1
      <4>3. Chain(S \cup {x})
        BY <3>4, <4>1
      <4> HIDE DEF g, Chain
      <4> QED BY <2>1, <4>2, <4>3
    <3> HIDE DEF g
    <3> QED BY <2>1, <2>3, <3>1, <3>2, <3>3, <3>4
  <2> QED BY <2>2, <2>3
<1>5. g = Unfold(g)
  <2> DEFINE h == Unfold(g)
  <2>1. g = [x \in 0..N |-> g[x]]
    OBVIOUS
  <2> HIDE DEF g
  <2>2. h = [x \in 0..N |-> g[x]]
    BY <1>4
  <2> QED BY <2>1, <2>2
<1> HIDE DEF g
<1>6. Lineage = Unfold(Lineage)
  <2> HIDE DEF Unfold
  <2> QED BY <1>1, <1>5
<1>7. r \in 0..N /\ r # 0
  BY <1>2
<1>8. Lineage[r] = (run[r].inherits /\ Lineage[run[r].parent])
  BY <1>6, <1>7
<1> QED BY <1>8

\* What a run of the lineage inherited and may still generate.
WithinFirstRun(r) ==
  /\ \A a \in Agents : Cardinality(InheritedBy(r, a)) + AgentCap(r, a) <= AgentQuota
  /\ Cardinality(InheritedByAll(r)) + ThreadCap(r) <= ThreadQuota
  /\ Cardinality(InheritedByAll(r)) + run[r].maxPosts <= RootPosts

LEMMA LineageWithinFirstRun ==
  ASSUME ResearchInv
  PROVE  \A r \in DOMAIN run : Lineage[r] => WithinFirstRun(r)
<1> USE DEF ResearchInv
<1> DEFINE T == {r \in DOMAIN run : Lineage[r] /\ ~ WithinFirstRun(r)}
<1> SUFFICES ASSUME T # {} PROVE FALSE
  OBVIOUS
<1>1. T \subseteq Nat
  BY RunRow
<1>2. PICK r \in T : \A x \in T : r <= x
  <2> HIDE DEF T
  <2> QED BY <1>1, LeastOf
<1>3. r \in DOMAIN run /\ Lineage[r] /\ ~ WithinFirstRun(r) /\ r \in Nat
  BY <1>1, <1>2
<1>4. /\ run[r].threadGrant \in Nat /\ run[r].maxPosts \in Nat
      /\ \A a \in Agents : run[r].agentGrant[a] \in Nat
  <2>1. run[r] \in RunRows
    BY <1>3, RunRow
  <2> QED BY <2>1 DEF RunRows
<1>5. /\ ThreadCap(r) \in Nat /\ ThreadCap(r) <= ThreadQuota /\ ThreadCap(r) <= run[r].threadGrant
      /\ \A a \in Agents : /\ AgentCap(r, a) \in Nat /\ AgentCap(r, a) <= AgentQuota
                           /\ AgentCap(r, a) <= run[r].agentGrant[a]
  BY <1>4, ConstantTypes DEF ThreadCap, AgentCap, Least
<1>6. CASE run[r].parent = 0
  <2>1. Inherited(r) = {}
    <3> SUFFICES ASSUME NEW p \in OwnPosts(r), Post(p).copyOf # NoPost PROVE FALSE
      BY DEF Inherited
    <3>1. run[r].parent \in DOMAIN run
      BY <1>3, CopyFacts
    <3> QED BY <1>6, <3>1, RunRow
  <2>2. InheritedByAll(r) = {} /\ \A a : InheritedBy(r, a) = {}
    BY <2>1 DEF InheritedByAll, InheritedBy
  <2>3. Cardinality(InheritedByAll(r)) = 0 /\ \A a : Cardinality(InheritedBy(r, a)) = 0
    BY <2>2, FS_EmptySet
  <2>4. run[r].maxPosts <= RootPosts
    BY <1>3, <1>6 DEF QuotaOK
  <2>5. WithinFirstRun(r)
    BY <1>4, <1>5, <2>3, <2>4 DEF WithinFirstRun
  <2> QED BY <1>3, <2>5
<1>7. CASE run[r].parent # 0
  <2> DEFINE s == run[r].parent
  <2>1. run[r].inherits /\ Lineage[s]
    BY <1>3, <1>7, LineageStep
  <2>2. AllowedBy(r, s) /\ s < r
    BY <1>3, <1>7, <2>1 DEF QuotaOK
  <2>3. s \in DOMAIN run /\ s \in Nat
    <3>1. run[r] \in RunRows /\ r \in 1..Len(run) /\ Len(run) \in Nat /\ DOMAIN run = 1..Len(run)
      BY <1>3, RunRow DEF RowsOK
    <3>2. s \in Nat
      BY <3>1 DEF RunRows
    <3> QED BY <1>7, <2>2, <3>1, <3>2
  <2> HIDE DEF s
  <2>4. s \notin T
    <3> HIDE DEF T
    <3> QED BY <1>2, <1>3, <2>2, <2>3
  <2>5. WithinFirstRun(s)
    BY <2>1, <2>3, <2>4
  <2>6. /\ Cardinality(InheritedByAll(r)) \in Nat /\ Cardinality(InheritedByAll(s)) \in Nat
        /\ \A a \in Agents : /\ Cardinality(InheritedBy(r, a)) \in Nat
                             /\ Cardinality(InheritedBy(s, a)) \in Nat
        /\ ThreadCap(s) \in Nat /\ \A a \in Agents : AgentCap(s, a) \in Nat
    BY <1>3, <2>3, PostSetsFinite, CapTypes
  <2>7. run[s].maxPosts \in Nat
    <3>1. run[s] \in RunRows
      BY <2>3, RunRow
    <3> QED BY <3>1 DEF RunRows
  <2>8. ASSUME NEW a \in Agents
        PROVE  Cardinality(InheritedBy(r, a)) + AgentCap(r, a) <= AgentQuota
    <3>1. /\ Cardinality(InheritedBy(r, a)) + run[r].agentGrant[a]
               <= Cardinality(InheritedBy(s, a)) + AgentCap(s, a)
          /\ Cardinality(InheritedBy(s, a)) + AgentCap(s, a) <= AgentQuota
      BY <2>2, <2>5 DEF AllowedBy, WithinFirstRun
    <3> QED BY <1>4, <1>5, <2>6, <3>1, ConstantTypes
  <2>9. /\ Cardinality(InheritedByAll(r)) + ThreadCap(r) <= ThreadQuota
        /\ Cardinality(InheritedByAll(r)) + run[r].maxPosts <= RootPosts
    <3>1. /\ Cardinality(InheritedByAll(r)) + run[r].threadGrant
               <= Cardinality(InheritedByAll(s)) + ThreadCap(s)
          /\ Cardinality(InheritedByAll(r)) + run[r].maxPosts
               <= Cardinality(InheritedByAll(s)) + run[s].maxPosts
          /\ Cardinality(InheritedByAll(s)) + ThreadCap(s) <= ThreadQuota
          /\ Cardinality(InheritedByAll(s)) + run[s].maxPosts <= RootPosts
      BY <2>2, <2>5 DEF AllowedBy, WithinFirstRun
    <3> QED BY <1>4, <1>5, <2>6, <2>7, <3>1, ConstantTypes
  <2>10. WithinFirstRun(r)
    BY <2>8, <2>9 DEF WithinFirstRun
  <2> QED BY <1>3, <2>10
<1> QED BY <1>6, <1>7

\* However often a line of research is forked with what was left of its quotas,
\* no branch shows more posts of an agent, or of all, than the first run allowed.
THEOREM LineagesKeepTheirQuota ==
  ResearchSpec => []LineageKeepsQuota
<1>1. ASSUME ResearchInv PROVE LineageKeepsQuota
  <2> USE DEF ResearchInv
  <2> SUFFICES ASSUME NEW r \in DOMAIN run, Lineage[r]
               PROVE  LET shown == {p \in OwnPosts(r) : Post(p).author # NoAgent}
                      IN  /\ Cardinality(shown) <= Least(ThreadQuota, RootPosts)
                          /\ \A a \in Agents :
                               Cardinality({p \in shown : Post(p).author = a}) <= AgentQuota
    BY DEF LineageKeepsQuota
  <2> DEFINE shown == {p \in OwnPosts(r) : Post(p).author # NoAgent}
  <2>1. WithinFirstRun(r) /\ WithinCaps(r)
    BY <1>1, LineageWithinFirstRun DEF QuotaOK
  <2>2. /\ IsFiniteSet(InheritedByAll(r)) /\ IsFiniteSet(Generated(r))
        /\ Cardinality(InheritedByAll(r)) \in Nat /\ Cardinality(Generated(r)) \in Nat
        /\ ThreadCap(r) \in Nat
    BY <1>1, PostSetsFinite, CapTypes
  <2>3. Cardinality(shown) \in Nat
        /\ Cardinality(shown) <= Cardinality(InheritedByAll(r)) + Cardinality(Generated(r))
    <3> DEFINE f == [x \in shown |-> x]
    <3>1. shown \subseteq InheritedByAll(r) \cup Generated(r)
      BY DEF InheritedByAll, Generated
    <3>2. /\ f \in [shown -> InheritedByAll(r) \cup Generated(r)]
          /\ \A x, y \in shown : f[x] = f[y] => x = y
      BY <3>1
    <3> HIDE DEF f, shown
    <3> QED BY <2>2, <3>2, Covered
  <2>4. run[r].maxPosts \in Nat
    <3>1. run[r] \in RunRows
      BY <1>1, RunRow
    <3> QED BY <3>1 DEF RunRows
  <2>5. Cardinality(shown) <= ThreadQuota /\ Cardinality(shown) <= RootPosts
    <3> HIDE DEF shown
    <3> QED BY <2>1, <2>2, <2>3, <2>4, ConstantTypes DEF WithinFirstRun, WithinCaps
  <2>6. ASSUME NEW a \in Agents
        PROVE  Cardinality({p \in shown : Post(p).author = a}) <= AgentQuota
    <3> DEFINE A == {p \in shown : Post(p).author = a}
               f == [x \in A |-> x]
    <3>1. A \subseteq InheritedBy(r, a) \cup GeneratedBy(r, a)
      BY DEF InheritedBy, GeneratedBy, Generated
    <3>2. /\ f \in [A -> InheritedBy(r, a) \cup GeneratedBy(r, a)]
          /\ \A x, y \in A : f[x] = f[y] => x = y
      BY <3>1
    <3>3. /\ IsFiniteSet(InheritedBy(r, a)) /\ IsFiniteSet(GeneratedBy(r, a))
          /\ Cardinality(InheritedBy(r, a)) \in Nat /\ Cardinality(GeneratedBy(r, a)) \in Nat
          /\ AgentCap(r, a) \in Nat
      BY <1>1, PostSetsFinite, CapTypes
    <3> HIDE DEF f, A
    <3>4. /\ Cardinality(A) \in Nat
          /\ Cardinality(A) <= Cardinality(InheritedBy(r, a)) + Cardinality(GeneratedBy(r, a))
      BY <3>2, <3>3, Covered
    <3>5. Cardinality(A) <= AgentQuota
      BY <2>1, <3>3, <3>4, ConstantTypes DEF WithinFirstRun, WithinCaps
    <3> QED BY <3>5 DEF A
  <2> HIDE DEF shown
  <2>7. Cardinality(shown) <= Least(ThreadQuota, RootPosts)
    BY <2>5 DEF Least
  <2> QED BY <2>6, <2>7 DEF shown
<1> QED BY <1>1, InvAlways, PTL
=============================================================================
