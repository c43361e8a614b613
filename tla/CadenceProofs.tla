--------------------------- MODULE CadenceProofs ---------------------------
(***************************************************************************)
(* Theorems about Cadence, for every number of peers, threads and events:  *)
(* its types, that one speaker is queued at a time, that the cursor passes *)
(* over nobody who can contribute, and that the session falls quiet after  *)
(* a silent cycle and only then.                                           *)
(***************************************************************************)
EXTENDS Cadence, SequenceTheorems, WellFoundedInduction, TLAPS

RunStates    == {"live", "stopped", "completed", "failed"}
ThreadStates == {"absent", "active", "dormant", "closed"}
Rows == [state : Open \cup {"none", "completed", "failed", "cancelled"},
         thread : Threads, target : Participants, attempts : 0..2]

Sessions == [run : RunStates, index : Nat, active : BOOLEAN, quiet : BOOLEAN,
             thread : [Threads -> ThreadStates], recent : Seq(Threads),
             stim : [Items -> Rows]]

(* A pending stimulus has an attempt left, and a leased one has used one.   *)
AttemptsOK(c) ==
  \A i \in Items : /\ c.stim[i].attempts <= MaxAttempts(i)
                   /\ c.stim[i].state = "pending" => c.stim[i].attempts < MaxAttempts(i)
                   /\ c.stim[i].state = "leased" => c.stim[i].attempts >= 1

\* Every thread has a post, so that there is a latest one among the open threads.
PostsOK(c) ==
  \A t \in Threads : c.thread[t] # "absent" => \E n \in DOMAIN c.recent : c.recent[n] = t

\* No slot beyond the cursor has had a stimulus.
AheadIsNew(c) == \A n \in Slots : n > c.index => c.stim[n].state = "none"

\* OneSpeaker, of the session a transaction works on.
Single(c) ==
  c.run = "live" => \A n \in Slots : c.stim[n].state \in Open => n = c.index

\* What is queued or in delivery waits in a thread that exists.
PlacesOK(c) ==
  \A i \in Items : c.stim[i].state \in Open => c.thread[c.stim[i].thread] # "absent"

Sound(c) ==
  /\ c \in Sessions
  /\ AttemptsOK(c) /\ PostsOK(c) /\ PlacesOK(c) /\ AheadIsNew(c) /\ Single(c)

(* What a transaction that begins with b may have made of it: the cursor    *)
(* only grows and passes over nobody who is available, and as long as the   *)
(* run goes on what is queued or in delivery stays as it is.                *)
PassesNobody(b, c) ==
  /\ b.index <= c.index
  /\ \A n \in Slots : b.index <= n /\ n < c.index /\ c.stim[n].state = "none"
       => PeerOf(n) \notin Available
KeepsQueue(b, c) ==
  c.run = "live" => /\ b.run = "live"
                    /\ \A i \in Items : b.stim[i].state \in Open => c.stim[i] = b.stim[i]
KeepsThreads(b, c) ==
  \A t \in Threads : c.thread[t] = "absent" <=> b.thread[t] = "absent"
Follows(b, c) == PassesNobody(b, c) /\ KeepsQueue(b, c) /\ KeepsThreads(b, c)

-----------------------------------------------------------------------------
(* A set of naturals has a least member: this is what stands for induction. *)

LEMMA LeastOf ==
  ASSUME NEW T, T \subseteq Nat, T # {}
  PROVE  \E x \in T : \A y \in T : x <= y
<1> DEFINE R == OpToRel(<, Nat)
<1>1. IsWellFoundedOn(R, Nat)
  BY NatLessThanWellFounded
<1>2. \A x, y \in Nat : <<y, x>> \in R <=> y < x
  BY DEF OpToRel
<1> HIDE DEF R
<1>3. PICK x \in T : \A y \in T : ~ (<<y, x>> \in R)
  BY <1>1, WFMin
<1>4. ASSUME NEW y \in T PROVE x <= y
  <2>1. x \in Nat /\ y \in Nat /\ ~(y < x)
    BY <1>2, <1>3
  <2> QED BY <2>1
<1> QED BY <1>4

-----------------------------------------------------------------------------
(* The operators of a transaction *)

LEMMA ConstantTypes ==
  /\ NPeers \in Nat \ {0} /\ MaxIndex \in Nat /\ CycleSize \in Nat /\ CycleSize >= 2
  /\ FirstThread \in Threads /\ Ada \in Participants /\ Forced \in Items
  /\ Slots \subseteq Items /\ Slots \subseteq Nat /\ Forced \notin Slots
  /\ \A i \in Items : MaxAttempts(i) \in {1, 2}
BY CadenceAssumption
   DEF CadenceAssumption, CycleSize, Ada, Participants, Slots, Forced, Items, MaxAttempts

LEMMA SpeakerTypes ==
  ASSUME NEW n \in Nat
  PROVE  PeerOf(n) \in Participants /\ SpeakerOf(n) \in Participants
BY CadenceAssumption
   DEF CadenceAssumption, PeerOf, SpeakerOf, Ada, Participants

LEMMA ClosedRow ==
  ASSUME NEW s \in {"none", "completed", "failed", "cancelled"}
  PROVE  Closed(s) \in Rows /\ Closed(s).state = s /\ Closed(s).attempts = 0
BY ConstantTypes DEF Closed, NoStimulus, Rows, Open

LEMMA CancelRow ==
  ASSUME NEW r \in Rows
  PROVE  /\ Cancel(r) \in Rows /\ Cancel(r).state \notin Open
         /\ Cancel(r).attempts <= r.attempts
         /\ Cancel(r).state = "none" <=> r.state = "none"
BY ClosedRow DEF Cancel, Rows, Open

LEMMA EndsKeeps ==
  ASSUME NEW b, NEW c, Sound(c), Follows(b, c), NEW s \in RunStates \ {"live"}
  PROVE  /\ Sound(Ends(c, s)) /\ Follows(b, Ends(c, s))
         /\ Ends(c, s).run = s /\ Ends(c, s).index = c.index
<1> DEFINE st == [i \in Items |-> Cancel(c.stim[i])]
           d  == [c EXCEPT !.run = s, !.stim = st]
<1>1. c \in Sessions
  BY DEF Sound
<1>2. \A i \in Items : c.stim[i] \in Rows
  BY <1>1 DEF Sessions
<1>3. \A i \in Items : /\ st[i] \in Rows /\ st[i].state \notin Open
                       /\ st[i].attempts <= c.stim[i].attempts
                       /\ st[i].state = "none" <=> c.stim[i].state = "none"
  BY <1>2, CancelRow
<1>4. st \in [Items -> Rows]
  BY <1>3
<1> HIDE DEF st
<1>5. /\ d \in Sessions /\ d.run = s /\ d.index = c.index /\ d.stim = st
      /\ d.thread = c.thread /\ d.recent = c.recent
  BY <1>1, <1>4 DEF Sessions
<1> HIDE DEF d
<1>6. AttemptsOK(d)
  <2> SUFFICES ASSUME NEW i \in Items PROVE st[i].attempts <= MaxAttempts(i)
    BY <1>3, <1>5 DEF AttemptsOK, Open
  <2>1. c.stim[i].attempts <= MaxAttempts(i)
    BY DEF Sound, AttemptsOK
  <2> QED BY <1>2, <1>3, <2>1, ConstantTypes DEF Rows
<1>7. Sound(d)
  BY <1>3, <1>5, <1>6, ConstantTypes DEF Sound, PostsOK, PlacesOK, AheadIsNew, Single
<1>8. Follows(b, d)
  BY <1>3, <1>5, ConstantTypes DEF Follows, PassesNobody, KeepsQueue, KeepsThreads
<1> QED BY <1>5, <1>7, <1>8 DEF d, st, Ends

LEMMA AdvancedShape ==
  ASSUME NEW c \in Sessions, NEW amount \in 1..2, NEW made \in BOOLEAN
  PROVE  LET d == Advanced(c, amount, made)
         IN  /\ d \in Sessions /\ d.run = c.run /\ d.index = c.index + amount
             /\ d.stim = c.stim /\ d.recent = c.recent
             /\ \A t \in Threads : d.thread[t] = "absent" <=> c.thread[t] = "absent"
<1> DEFINE wraps  == (c.index + amount) \div CycleSize > c.index \div CycleSize
           silent == wraps /\ ~CycleActive(c, made) /\ Dormancy
           th     == [t \in Threads |-> IF silent /\ c.thread[t] = "active"
                                        THEN "dormant" ELSE c.thread[t]]
           on     == ~wraps /\ CycleActive(c, made)
           next   == c.index + amount
           d      == [c EXCEPT !.index = next, !.active = on, !.quiet = silent,
                               !.thread = th]
<1>1. wraps \in BOOLEAN /\ silent \in BOOLEAN /\ on \in BOOLEAN
  OBVIOUS
<1>2. /\ th \in [Threads -> ThreadStates]
      /\ \A t \in Threads : th[t] = "absent" <=> c.thread[t] = "absent"
  BY DEF Sessions, ThreadStates
<1>3. Advanced(c, amount, made) = d
  BY DEF Advanced
<1>4. next \in Nat
  BY DEF Sessions
<1> HIDE DEF wraps, silent, th, on, next
<1>5. /\ d \in Sessions /\ d.run = c.run /\ d.index = next
      /\ d.stim = c.stim /\ d.recent = c.recent /\ d.thread = th
  BY <1>1, <1>2, <1>4 DEF Sessions
<1> QED BY <1>2, <1>3, <1>5 DEF next

(* The cursor moves over slots that had a stimulus or whose peer cannot     *)
(* contribute, while nothing is queued or in delivery.                      *)
LEMMA AdvancedKeeps ==
  ASSUME NEW b, b.index \in Nat, NEW c, Sound(c), Follows(b, c),
         NEW amount \in 1..2, NEW made \in BOOLEAN,
         \A n \in Slots : c.stim[n].state \notin Open,
         \A n \in Slots : c.index <= n /\ n < c.index + amount =>
           c.stim[n].state # "none" \/ PeerOf(n) \notin Available
  PROVE  Sound(Advanced(c, amount, made)) /\ Follows(b, Advanced(c, amount, made))
<1> DEFINE d == Advanced(c, amount, made)
<1>1. c \in Sessions /\ c.index \in Nat
  BY DEF Sound, Sessions
<1>2. /\ d \in Sessions /\ d.run = c.run /\ d.index = c.index + amount
      /\ d.stim = c.stim /\ d.recent = c.recent
      /\ \A t \in Threads : d.thread[t] = "absent" <=> c.thread[t] = "absent"
  BY <1>1, AdvancedShape
<1> HIDE DEF d
<1>3. AttemptsOK(d) /\ PostsOK(d) /\ Single(d)
  BY <1>2 DEF Sound, AttemptsOK, PostsOK, Single
<1>a. PlacesOK(d)
  BY <1>1, <1>2 DEF Sound, PlacesOK, Sessions, Rows
<1>4. AheadIsNew(d)
  BY <1>1, <1>2, ConstantTypes DEF Sound, AheadIsNew
<1>5. PassesNobody(b, d)
  <2>1. b.index <= d.index
    BY <1>1, <1>2 DEF Follows, PassesNobody
  <2>2. ASSUME NEW n \in Slots, b.index <= n, n < d.index, d.stim[n].state = "none"
        PROVE  PeerOf(n) \notin Available
    <3>1. n \in Nat
      BY ConstantTypes
    <3>2. CASE n < c.index
      BY <1>2, <2>2, <3>2 DEF Follows, PassesNobody
    <3>3. CASE c.index <= n
      BY <1>2, <2>2, <3>3
    <3> QED BY <1>1, <3>1, <3>2, <3>3
  <2> QED BY <2>1, <2>2 DEF PassesNobody
<1>6. KeepsQueue(b, d) /\ KeepsThreads(b, d)
  BY <1>2 DEF Follows, KeepsQueue, KeepsThreads
<1> QED BY <1>2, <1>3, <1>a, <1>4, <1>5, <1>6 DEF Sound, Follows, d

LEMMA SameSession ==
  ASSUME NEW c, c.index \in Nat
  PROVE  Follows(c, c)
<1>1. \A n \in Slots : ~(c.index <= n /\ n < c.index)
  BY ConstantTypes
<1>2. c.index <= c.index
  OBVIOUS
<1> QED BY <1>1, <1>2 DEF Follows, PassesNobody, KeepsQueue, KeepsThreads

LEMMA LatestThread ==
  ASSUME NEW c, Sound(c), OpenThreads(c) # {}
  PROVE  Latest(c) \in Threads /\ c.thread[Latest(c)] # "absent"
<1> DEFINE S == {n \in DOMAIN c.recent : c.recent[n] \in OpenThreads(c)}
<1>1. c \in Sessions /\ c.recent \in Seq(Threads)
  BY DEF Sound, Sessions
<1>2. S # {} /\ S \subseteq Nat
  BY <1>1 DEF Sound, PostsOK, OpenThreads
<1>3. \E n \in S : \A m \in S : n <= m
  BY <1>2, LeastOf
<1>4. (CHOOSE n \in S : \A m \in S : n <= m) \in S
  BY <1>3
<1> QED BY <1>1, <1>4 DEF Latest, OpenThreads

LEMMA PlaceType ==
  ASSUME NEW c, Sound(c), OpenThreads(c) # {}, place \in Threads, c.thread[place] # "absent"
  PROVE  Place(c) \in Threads /\ c.thread[Place(c)] # "absent"
BY LatestThread DEF Place

\* A slot is queued while nothing else is.
LEMMA QueuedKeeps ==
  ASSUME NEW b, b.index \in Nat, NEW c, Sound(c), Follows(b, c), place \in Threads,
         OpenThreads(c) # {}, ~Waiting(c), c.thread[place] # "absent"
  PROVE  Sound(Queued(c)) /\ Follows(b, Queued(c))
<1> DEFINE row == [state |-> "pending", thread |-> Place(c),
                   target |-> SpeakerOf(c.index), attempts |-> 0]
           st  == [c.stim EXCEPT ![c.index] = row]
           d   == [c EXCEPT !.stim = st]
<1>1. c \in Sessions /\ c.index \in Nat /\ c.stim \in [Items -> Rows]
  BY DEF Sound, Sessions
<1>2. /\ row \in Rows /\ row.state = "pending" /\ row.attempts = 0
      /\ c.thread[row.thread] # "absent"
  BY <1>1, PlaceType, SpeakerTypes DEF Rows, Open
<1> HIDE DEF row
<1>3. /\ st \in [Items -> Rows]
      /\ \A i \in Items : st[i] = IF i = c.index THEN row ELSE c.stim[i]
  BY <1>1, <1>2
<1>4. Queued(c) = d
  BY DEF Queued, row
<1> HIDE DEF st
<1>5. /\ d \in Sessions /\ d.run = c.run /\ d.index = c.index
      /\ d.thread = c.thread /\ d.recent = c.recent /\ d.stim = st
  BY <1>1, <1>3 DEF Sessions
<1> HIDE DEF d
<1>6. \A i \in Items : c.stim[i].state \notin Open
  BY DEF Waiting
<1>7. AttemptsOK(d)
  <2> SUFFICES ASSUME NEW i \in Items
               PROVE  /\ st[i].attempts <= MaxAttempts(i)
                      /\ st[i].state = "pending" => st[i].attempts < MaxAttempts(i)
                      /\ st[i].state = "leased" => st[i].attempts >= 1
    BY <1>5 DEF AttemptsOK
  <2>1. CASE i = c.index
    BY <1>2, <1>3, <2>1, ConstantTypes
  <2>2. CASE i # c.index
    BY <1>3, <2>2 DEF Sound, AttemptsOK
  <2> QED BY <2>1, <2>2
<1>8. PostsOK(d) /\ PlacesOK(d)
  BY <1>2, <1>3, <1>5 DEF Sound, PostsOK, PlacesOK
<1>9. AheadIsNew(d) /\ Single(d)
  BY <1>1, <1>3, <1>5, <1>6, ConstantTypes DEF Sound, AheadIsNew, Single
<1>10. PassesNobody(b, d)
  <2> SUFFICES ASSUME NEW n \in Slots, b.index <= n, n < d.index, d.stim[n].state = "none"
               PROVE  PeerOf(n) \notin Available
    BY <1>5 DEF Follows, PassesNobody
  <2>1. n \in Items /\ n # c.index
    BY <1>1, <1>5, ConstantTypes
  <2>2. c.stim[n].state = "none" /\ n < c.index
    BY <1>3, <1>5, <2>1
  <2> QED BY <2>2 DEF Follows, PassesNobody
<1>11. KeepsQueue(b, d) /\ KeepsThreads(b, d)
  BY <1>5, <1>6 DEF Follows, KeepsQueue, KeepsThreads
<1> QED BY <1>4, <1>5, <1>7, <1>8, <1>9, <1>10, <1>11 DEF Sound, Follows

LEMMA RoundKeeps ==
  ASSUME NEW b, b.index \in Nat, NEW c, Sound(c), Follows(b, c),
         place \in Threads, b.thread[place] # "absent"
  PROVE  Sound(Round(c)) /\ Follows(b, Round(c))
<1>1. c \in Sessions /\ c.index \in Nat
  BY DEF Sound, Sessions
<1>a. c.thread[place] # "absent"
  BY DEF Follows, KeepsThreads
<1>2. CASE c.quiet \/ c.run # "live" \/ Waiting(c)
  BY <1>2 DEF Round
<1>3. CASE ~(c.quiet \/ c.run # "live" \/ Waiting(c))
  <2>1. \A n \in Slots : c.stim[n].state \notin Open
    BY <1>3, ConstantTypes DEF Waiting
  <2>2. CASE Prior(c)
    <3>1. \A n \in Slots : c.index <= n /\ n < c.index + 1 => c.stim[n].state # "none"
      <4> SUFFICES ASSUME NEW n \in Slots, c.index <= n, n < c.index + 1
                   PROVE  n = c.index
        BY <2>2 DEF Prior
      <4>1. n \in Nat
        BY ConstantTypes
      <4> QED BY <1>1, <4>1
    <3>2. Round(c) = Advanced(c, 1, turn[c.index] = "posted")
      BY <1>3, <2>2 DEF Round, SlotCompleted
    <3>3. 1 \in 1..2 /\ (turn[c.index] = "posted") \in BOOLEAN
      OBVIOUS
    <3> DEFINE made == turn[c.index] = "posted"
    <3> HIDE DEF made
    <3>4. Sound(Advanced(c, 1, made)) /\ Follows(b, Advanced(c, 1, made))
      BY <2>1, <3>1, <3>3, AdvancedKeeps DEF made
    <3> QED BY <3>2, <3>4 DEF made
  <2>3. CASE ~Prior(c) /\ PeerOf(c.index) \notin Available
    <3> DEFINE amount == IF c.index % 2 = 1 THEN 1 ELSE 2
    <3>1. amount \in 1..2
      OBVIOUS
    <3>2. \A n \in Slots : c.index <= n /\ n < c.index + amount => PeerOf(n) \notin Available
      <4> SUFFICES ASSUME NEW n \in Slots, c.index <= n, n < c.index + amount
                   PROVE  n \div 2 = c.index \div 2
        BY <2>3 DEF PeerOf
      <4>1. n \in Nat
        BY ConstantTypes
      <4> QED BY <1>1, <4>1
    <3>3. Round(c) = Advanced(c, amount, FALSE)
      BY <1>3, <2>3 DEF Round, Skipped
    <3> HIDE DEF amount
    <3> QED BY <2>1, <3>1, <3>2, <3>3, AdvancedKeeps
  <2>4. CASE ~Prior(c) /\ PeerOf(c.index) \in Available
    <3>1. CASE OpenThreads(c) = {}
      BY <1>3, <2>4, <3>1, EndsKeeps DEF Round, RunStates
    <3>2. CASE OpenThreads(c) # {}
      BY <1>3, <1>a, <2>4, <3>2, QueuedKeeps DEF Round
    <3> QED BY <3>1, <3>2
  <2> QED BY <2>2, <2>3, <2>4
<1> QED BY <1>2, <1>3

-----------------------------------------------------------------------------
(* The loop of ensure_slot.  A set that holds the session at its start and   *)
(* is closed under a round holds the session at its end.                     *)

LEMMA LoopStays ==
  ASSUME NEW c, NEW S, c \in S, \A d \in S : Round(d) \in S
  PROVE  LET after[n \in 0..(CycleSize + 1)] ==
               IF n = 0 THEN {c} ELSE {Round(d) : d \in after[n - 1]}
         IN  after[CycleSize + 1] \subseteq S
<1> DEFINE last == CycleSize + 1
           Upto(f, m) == f = [n \in 0..m |-> IF n = 0 THEN {c}
                                             ELSE {Round(d) : d \in f[n - 1]}]
           after == CHOOSE f : Upto(f, last)
<1>1. last \in Nat
  BY ConstantTypes
<1> HIDE DEF last
\* The recursion defines a function.
<1>2. \A m \in Nat : \E f : Upto(f, m)
  <2> SUFFICES ASSUME NEW k \in Nat, ~ \E f : Upto(f, k) PROVE FALSE
    OBVIOUS
  <2> DEFINE T == {m \in Nat : ~ \E f : Upto(f, m)}
  <2>1. T # {} /\ T \subseteq Nat
    OBVIOUS
  <2> HIDE DEF T
  <2>2. PICK m \in T : \A y \in T : m <= y
    BY <2>1, LeastOf
  <2>3. m \in Nat /\ ~ \E f : Upto(f, m)
    BY DEF T
  <2>4. m # 0
    <3>1. Upto([n \in 0..0 |-> {c}], 0)
      OBVIOUS
    <3> QED BY <2>3, <3>1
  <2>5. m - 1 \in Nat /\ m - 1 \notin T
    BY <2>2, <2>3, <2>4
  <2>6. PICK g : Upto(g, m - 1)
    BY <2>5 DEF T
  <2> DEFINE h == [n \in 0..m |-> IF n = m THEN {Round(d) : d \in g[m - 1]} ELSE g[n]]
  <2>7. \A n \in 0..m : h[n] = IF n = 0 THEN {c} ELSE {Round(d) : d \in h[n - 1]}
    <3> SUFFICES ASSUME NEW n \in 0..m
                 PROVE  h[n] = IF n = 0 THEN {c} ELSE {Round(d) : d \in h[n - 1]}
      OBVIOUS
    <3>1. CASE n = m
      <4>1. m - 1 \in 0..m /\ m - 1 # m /\ n # 0
        BY <2>3, <2>4, <3>1
      <4>2. h[m - 1] = g[m - 1] /\ h[m] = {Round(d) : d \in g[m - 1]}
        BY <3>1, <4>1
      <4> QED BY <3>1, <4>1, <4>2
    <3>2. CASE n # m /\ n # 0
      <4>1. n \in 0..(m - 1) /\ n - 1 \in 0..m /\ n - 1 # m
        BY <2>3, <3>2
      <4>2. h[n] = g[n] /\ h[n - 1] = g[n - 1]
        BY <3>2, <4>1
      <4>3. g[n] = {Round(d) : d \in g[n - 1]}
        BY <2>6, <3>2, <4>1
      <4> QED BY <3>2, <4>2, <4>3
    <3>3. CASE n # m /\ n = 0
      <4>1. 0 \in 0..(m - 1)
        BY <2>3, <2>4
      <4> QED BY <2>6, <3>3, <4>1
    <3> QED BY <3>1, <3>2, <3>3
  <2>8. Upto(h, m)
    <3> HIDE DEF h
    <3>1. h = [n \in 0..m |-> h[n]]
      BY DEF h
    <3> QED BY <2>7, <3>1
  <2> QED BY <2>3, <2>8
<1>3. Upto(after, last)
  BY <1>1, <1>2
<1> HIDE DEF after
\* Every round stays in S.
<1>4. \A n \in 0..last : after[n] \subseteq S
  <2> SUFFICES ASSUME NEW k \in 0..last, ~(after[k] \subseteq S) PROVE FALSE
    OBVIOUS
  <2> DEFINE T == {n \in 0..last : ~(after[n] \subseteq S)}
  <2>1. T # {} /\ T \subseteq Nat
    BY <1>1
  <2> HIDE DEF T
  <2>2. PICK m \in T : \A y \in T : m <= y
    BY <2>1, LeastOf
  <2>3. m \in 0..last /\ ~(after[m] \subseteq S)
    BY DEF T
  <2>4. after[m] = IF m = 0 THEN {c} ELSE {Round(d) : d \in after[m - 1]}
    BY <1>3, <2>3
  <2>5. m # 0
    BY <2>3, <2>4
  <2>6. m - 1 \in 0..last /\ ~(m <= m - 1)
    BY <1>1, <2>3, <2>5
  <2>7. after[m - 1] \subseteq S
    BY <2>2, <2>6 DEF T
  <2> QED BY <2>3, <2>4, <2>5, <2>7
<1>5. after[last] \subseteq S
  BY <1>1, <1>4
<1> QED BY <1>5 DEF after, last

\* ensure_slot keeps the session sound, and passes over nobody.
LEMMA EnsuredKeeps ==
  ASSUME NEW c, Sound(c), place \in Threads, c.thread[place] # "absent",
         NEW e \in Ensured(c)
  PROVE  Sound(e) /\ Follows(c, e)
<1>1. c \in Sessions /\ c.index \in Nat
  BY DEF Sound, Sessions
<1>2. Follows(c, c)
  BY <1>1, SameSession
<1>3. CASE c.run # "live" \/ c.quiet
  BY <1>2, <1>3 DEF Ensured
<1>4. CASE ~(c.run # "live" \/ c.quiet) /\ (Ada \notin Available \/ Available = {Ada})
  <2>1. e = Ends(c, "failed")
    BY <1>4 DEF Ensured
  <2> QED BY <1>2, <2>1, EndsKeeps DEF RunStates
<1>5. CASE ~(c.run # "live" \/ c.quiet) /\ ~(Ada \notin Available \/ Available = {Ada})
  <2> DEFINE S == {d \in Sessions : Sound(d) /\ Follows(c, d)}
  <2>1. c \in S
    BY <1>1, <1>2
  <2>2. \A d \in S : Round(d) \in S
    BY <1>1, RoundKeeps DEF Sound
  <2> HIDE DEF S
  <2>3. Ensured(c) \subseteq S
    BY ZenonT(40), <1>5, <2>1, <2>2, LoopStays DEF Ensured
  <2> QED BY <2>3 DEF S
<1> QED BY <1>3, <1>4, <1>5

LEMMA PreparedKeeps ==
  ASSUME NEW c, Sound(c), place \in Threads, c.thread[place] # "absent",
         NEW e \in Prepared(c)
  PROVE  Sound(e) /\ Follows(c, e)
<1>1. Follows(c, c)
  BY SameSession DEF Sound, Sessions
<1>2. "completed" \in RunStates \ {"live"} /\ "failed" \in RunStates \ {"live"}
  BY DEF RunStates
<1>3. e \in Ensured(c) \/ e = Ends(c, "completed") \/ e = Ends(c, "failed")
  BY DEF Prepared
<1> QED BY <1>1, <1>2, <1>3, EndsKeeps, EnsuredKeeps

-----------------------------------------------------------------------------
(* The inductive invariant.  Until its turn has ended the task holds the     *)
(* lease of the stimulus it works on: only then may it give it back.         *)

TurnStates == {"none", "open", "posted", "silent"}
Places     == {"idle", "prepare", "turn", "await", "complete", "settle"}

RestOK ==
  /\ over \in BOOLEAN /\ turn \in [Items -> TurnStates]
  /\ place \in Threads /\ thread[place] # "absent"
  /\ disabled \subseteq Participants /\ unavailable \subseteq Participants
  /\ task \in [pc : Places, item : Items]
  /\ touched \in Nat /\ events \in Nat

Working == task.pc \in {"prepare", "turn"} \/ Answering
HoldsLease == Working => stim[task.item].state = "leased"

CadenceInv == Sound(Session) /\ RestOK /\ HoldsLease

\* What NobodyPassedOver says of a step.
NobodyPassed ==
  \A n \in Slots : index <= n /\ n < index' /\ stim'[n].state = "none"
    => PeerOf(n) \notin Available

LEMMA SessionTypes ==
  ASSUME CadenceInv
  PROVE  /\ Session \in Sessions
         /\ run \in RunStates /\ index \in Nat /\ active \in BOOLEAN /\ quiet \in BOOLEAN
         /\ thread \in [Threads -> ThreadStates] /\ recent \in Seq(Threads)
         /\ stim \in [Items -> Rows] /\ \A i \in Items : stim[i] \in Rows
BY DEF CadenceInv, Sound, Session, Sessions

LEMMA Installed ==
  ASSUME NEW c, c \in Sessions, Install(c)
  PROVE  Session' = c
BY DEF Session, Sessions, Install

LEMMA InstalledSound ==
  ASSUME NEW c, Sound(c), Install(c)
  PROVE  Sound(Session)'
<1>1. c \in Sessions
  BY DEF Sound
<1>2. Session' = c
  BY <1>1, Installed
<1> QED BY <1>2 DEF Sound, Sessions, AttemptsOK, PostsOK, PlacesOK, AheadIsNew, Single

LEMMA InstalledTurns ==
  ASSUME CadenceInv, NEW c, Sound(c), Install(c)
  PROVE  /\ turn' \in [Items -> TurnStates]
         /\ \A i \in Items : turn'[i] = "open" => turn[i] = "open" /\ c.run = "live"
BY DEF CadenceInv, RestOK, Install, TurnStates

\* A request, while no step is between its transactions.
LEMMA RequestKeepsLease ==
  ASSUME CadenceInv, NEW c, Sound(c), KeepsQueue(Session, c), Install(c),
         task' = task, LoopFree
  PROVE  HoldsLease'
<1> SUFFICES ASSUME Working' PROVE stim'[task.item].state = "leased"
  BY DEF HoldsLease
<1>1. task.pc = "await" /\ turn'[task.item] = "open" /\ task.item \in Items
  BY DEF Working, Answering, LoopFree, CadenceInv, RestOK
<1>2. turn[task.item] = "open" /\ c.run = "live"
  BY <1>1, InstalledTurns
<1>3. stim[task.item].state = "leased"
  BY <1>1, <1>2 DEF CadenceInv, HoldsLease, Working, Answering
<1>4. c.stim[task.item] = stim[task.item]
  BY <1>1, <1>2, <1>3 DEF KeepsQueue, Session, Open
<1> QED BY <1>3, <1>4 DEF Install

-----------------------------------------------------------------------------
(* One step *)

LEMMA LeaseTaken ==
  ASSUME NEW c, Sound(c), c.run = "live", NEW i \in First(c.stim)
  PROVE  /\ Sound(Leased(c, i)) /\ Leased(c, i).stim[i].state = "leased" /\ i \in Items
         /\ Leased(c, i).index = c.index /\ Leased(c, i).run = c.run
         /\ Leased(c, i).thread = c.thread
         /\ \A n \in Items : Leased(c, i).stim[n].state = "none" => c.stim[n].state = "none"
<1> DEFINE used == c.stim[i].attempts + 1
           row  == [c.stim[i] EXCEPT !.state = "leased", !.attempts = used]
           st   == [c.stim EXCEPT ![i] = row]
           d    == Leased(c, i)
<1>1. c \in Sessions /\ c.stim \in [Items -> Rows]
  BY DEF Sound, Sessions
<1>2. i \in Items /\ c.stim[i].state = "pending" /\ c.stim[i] \in Rows
  BY <1>1, ConstantTypes DEF First
<1>3. c.stim[i].attempts < MaxAttempts(i) /\ MaxAttempts(i) \in {1, 2}
  BY <1>2, ConstantTypes DEF Sound, AttemptsOK
<1>a. c.stim[i].attempts \in 0..2
  BY <1>2 DEF Rows
<1>b. used \in 0..2 /\ used >= 1 /\ used <= MaxAttempts(i)
  BY <1>3, <1>a
<1>4. /\ row \in Rows /\ row.state = "leased"
      /\ row.attempts >= 1 /\ row.attempts <= MaxAttempts(i)
  <2> HIDE DEF used
  <2> QED BY <1>2, <1>b DEF Rows, Open
<1>5. d = [c EXCEPT !.stim = st]
  BY <1>1, <1>2 DEF Leased, Sessions, Rows
<1> HIDE DEF row, d
<1>6. /\ st \in [Items -> Rows]
      /\ \A n \in Items : st[n] = IF n = i THEN row ELSE c.stim[n]
  BY <1>1, <1>2, <1>4
<1> HIDE DEF st
<1>7. /\ d \in Sessions /\ d.stim = st /\ d.index = c.index /\ d.run = c.run
      /\ d.thread = c.thread /\ d.recent = c.recent
  BY <1>1, <1>5, <1>6 DEF Sessions
<1>8. AttemptsOK(d)
  BY <1>4, <1>6, <1>7 DEF Sound, AttemptsOK
<1>9. PostsOK(d) /\ PlacesOK(d)
  <2>1. row.thread = c.stim[i].thread /\ c.thread[c.stim[i].thread] # "absent"
    BY <1>2 DEF row, Rows, Sound, PlacesOK, Open
  <2> QED BY <1>6, <1>7, <2>1 DEF Sound, PostsOK, PlacesOK
<1>10. AheadIsNew(d) /\ Single(d)
  BY <1>2, <1>4, <1>6, <1>7, ConstantTypes DEF Sound, AheadIsNew, Single, Open
<1> QED BY <1>2, <1>4, <1>6, <1>7, <1>8, <1>9, <1>10 DEF Sound, d

LEMMA ClaimKeeps ==
  ASSUME CadenceInv, Claim
  PROVE  CadenceInv' /\ NobodyPassed
<1>1. PICK c \in Prepared(Session) :
        \/ /\ c.run # "live" \/ First(c.stim) = {}
           /\ Install(c) /\ UNCHANGED task
        \/ /\ c.run = "live"
           /\ \E i \in First(c.stim) :
                /\ Install(Leased(c, i))
                /\ task' = [pc |-> "prepare", item |-> i]
  BY DEF Claim
<1>2. Sound(c) /\ Follows(Session, c)
  BY PreparedKeeps DEF CadenceInv, RestOK, Session
<1>a. \A t \in Threads : c.thread[t] = "absent" <=> thread[t] = "absent"
  BY <1>2 DEF Follows, KeepsThreads, Session
<1>3. UNCHANGED <<place, people, over, touched, events>> /\ task.pc = "idle"
  BY DEF Claim
<1>4. ASSUME Install(c), UNCHANGED task
      PROVE  CadenceInv' /\ NobodyPassed
  <2>1. Sound(Session)'
    BY <1>2, <1>4, InstalledSound
  <2>2. HoldsLease'
    BY <1>3, <1>4 DEF HoldsLease, Working, Answering
  <2>3. RestOK'
    BY <1>2, <1>a, <1>3, <1>4, InstalledTurns DEF CadenceInv, RestOK, people, Install
  <2>4. NobodyPassed
    BY <1>2, <1>4 DEF Follows, PassesNobody, NobodyPassed, Install, Session
  <2> QED BY <2>1, <2>2, <2>3, <2>4 DEF CadenceInv
<1>5. ASSUME c.run = "live", NEW i \in First(c.stim),
             Install(Leased(c, i)),
             task' = [pc |-> "prepare", item |-> i]
      PROVE  CadenceInv' /\ NobodyPassed
  <2> DEFINE d == Leased(c, i)
  <2>1. /\ Sound(d) /\ d.stim[i].state = "leased" /\ i \in Items
        /\ d.index = c.index /\ d.thread = c.thread
        /\ \A n \in Items : d.stim[n].state = "none" => c.stim[n].state = "none"
    BY <1>2, <1>5, LeaseTaken
  <2>2. Install(d)
    BY <1>5
  <2> HIDE DEF d
  <2>3. Sound(Session)'
    BY <2>1, <2>2, InstalledSound
  <2>4. HoldsLease'
    BY <1>5, <2>1, <2>2 DEF HoldsLease, Install
  <2>5. RestOK'
    BY <1>a, <1>3, <1>5, <2>1, <2>2, InstalledTurns
       DEF CadenceInv, RestOK, people, Places, Install
  <2>6. NobodyPassed
    BY <1>2, <2>1, <2>2, ConstantTypes
       DEF Follows, PassesNobody, NobodyPassed, Install, Session
  <2> QED BY <2>3, <2>4, <2>5, <2>6 DEF CadenceInv
<1> QED BY <1>1, <1>4, <1>5

(* The rows st may take the place of the stimuli: their attempts are in      *)
(* order, no slot is used or queued for the first time.                      *)
RowsFit(st) ==
  /\ st \in [Items -> Rows]
  /\ \A i \in Items :
       /\ st[i].attempts <= MaxAttempts(i)
       /\ st[i].state = "pending" => st[i].attempts < MaxAttempts(i)
       /\ st[i].state = "leased" => st[i].attempts >= 1
  /\ \A n \in Slots : /\ stim[n].state = "none" => st[n].state = "none"
                      /\ st[n].state \in Open => stim[n].state \in Open
  /\ \A i \in Items : st[i].state \in Open => thread[st[i].thread] # "absent"

\* The threads th with the latest posts in the order rs.
BoardFits(th, rs) ==
  /\ th \in [Threads -> ThreadStates] /\ rs \in Seq(Threads)
  /\ \A t \in Threads : /\ th[t] # "absent" => \E n \in DOMAIN rs : rs[n] = t
                        /\ th[t] = "absent" => thread[t] = "absent"

LEMMA StepSound ==
  ASSUME CadenceInv, UNCHANGED config, BoardFits(thread', recent'), RowsFit(stim')
  PROVE  Sound(Session)'
<1> DEFINE c == [run |-> run, index |-> index, active |-> active, quiet |-> quiet,
                 thread |-> thread', recent |-> recent', stim |-> stim']
<1>1. Session' = c
  BY DEF Session, config
<1>2. c \in Sessions
  BY SessionTypes DEF Sessions, BoardFits, RowsFit
<1>3. AttemptsOK(c) /\ PostsOK(c) /\ AheadIsNew(c) /\ Single(c)
  BY DEF CadenceInv, Sound, AttemptsOK, PostsOK, AheadIsNew, Single, Session,
         BoardFits, RowsFit
<1>4. PlacesOK(c)
  BY DEF PlacesOK, BoardFits, RowsFit, Rows
<1> HIDE DEF c
<1> QED BY <1>1, <1>2, <1>3, <1>4
        DEF Sound, Sessions, AttemptsOK, PostsOK, PlacesOK, AheadIsNew, Single

LEMMA SameFits ==
  ASSUME CadenceInv
  PROVE  RowsFit(stim) /\ BoardFits(thread, recent)
BY SessionTypes DEF CadenceInv, Sound, Session, AttemptsOK, PostsOK, PlacesOK, RowsFit, BoardFits

\* One row of the table is written.
LEMMA RowFits ==
  ASSUME CadenceInv, NEW i \in Items, NEW r \in Rows,
         r.attempts <= MaxAttempts(i), r.state = "pending" => r.attempts < MaxAttempts(i),
         r.state = "leased" => r.attempts >= 1,
         i = Forced \/ (stim[i].state \in Open /\ r.state # "none"),
         r.state \in Open => thread[r.thread] # "absent"
  PROVE  RowsFit([stim EXCEPT ![i] = r])
<1> DEFINE st == [stim EXCEPT ![i] = r]
<1>1. RowsFit(stim)
  BY SameFits
<1>2. /\ st \in [Items -> Rows]
      /\ \A j \in Items : st[j] = IF j = i THEN r ELSE stim[j]
  BY SessionTypes
<1> HIDE DEF st
<1>3. \A j \in Items : /\ st[j].attempts <= MaxAttempts(j)
                       /\ st[j].state = "pending" => st[j].attempts < MaxAttempts(j)
                       /\ st[j].state = "leased" => st[j].attempts >= 1
  BY <1>1, <1>2 DEF RowsFit
<1>4. \A n \in Slots : /\ stim[n].state = "none" => st[n].state = "none"
                       /\ st[n].state \in Open => stim[n].state \in Open
  BY <1>2, ConstantTypes DEF Open
<1>5. \A j \in Items : st[j].state \in Open => thread[st[j].thread] # "absent"
  BY <1>1, <1>2 DEF RowsFit
<1>6. RowsFit(st)
  BY <1>2, <1>3, <1>4, <1>5 DEF RowsFit
<1> QED BY <1>6 DEF st

LEMMA TakenBackRow ==
  ASSUME CadenceInv, NEW i \in Items, stim[i].state = "leased"
  PROVE  /\ TakenBack(i) \in Rows /\ TakenBack(i).state \in {"pending", "failed"}
         /\ TakenBack(i).attempts <= MaxAttempts(i)
         /\ TakenBack(i).state = "pending" => /\ TakenBack(i).attempts < MaxAttempts(i)
                                               /\ thread[TakenBack(i).thread] # "absent"
<1>1. /\ stim[i] \in Rows /\ MaxAttempts(i) \in {1, 2} /\ stim[i].attempts \in 0..2
      /\ thread[stim[i].thread] # "absent"
  BY SessionTypes, ConstantTypes DEF Rows, CadenceInv, Sound, PlacesOK, Session, Open
<1>2. CASE Exhausted(i)
  BY <1>1, <1>2, ClosedRow DEF TakenBack
<1>3. CASE ~Exhausted(i)
  <2> DEFINE r == [stim[i] EXCEPT !.state = "pending"]
  <2>1. r \in Rows /\ r.state = "pending" /\ r.attempts = stim[i].attempts
        /\ r.thread = stim[i].thread
    BY <1>1 DEF Rows, Open
  <2>2. stim[i].attempts < MaxAttempts(i)
    BY <1>1, <1>3 DEF Exhausted
  <2> QED BY <1>1, <1>3, <2>1, <2>2 DEF TakenBack
<1> QED BY <1>2, <1>3

LEMMA FrontCovers ==
  ASSUME CadenceInv, NEW t \in Threads
  PROVE  /\ Front(t) \in Seq(Threads)
         /\ \E n \in DOMAIN Front(t) : Front(t)[n] = t
         /\ \A m \in DOMAIN recent : \E n \in DOMAIN Front(t) : Front(t)[n] = recent[m]
<1> DEFINE S == {n \in DOMAIN recent : recent[n] = t}
<1>1. recent \in Seq(Threads)
  BY SessionTypes
<1>2. CASE S = {}
  <2> DEFINE f == <<t>> \o recent
  <2>1. Front(t) = f
    BY <1>2 DEF Front
  <2>2. f \in Seq(Threads) /\ Len(f) = Len(recent) + 1 /\ f[1] = t /\ 1 \in 1..Len(f)
    BY <1>1
  <2>3. ASSUME NEW m \in 1..Len(recent) PROVE f[m + 1] = recent[m] /\ m + 1 \in 1..Len(f)
    BY <1>1
  <2>4. DOMAIN f = 1..Len(f) /\ DOMAIN recent = 1..Len(recent)
    BY <1>1, <2>2
  <2> HIDE DEF f
  <2> QED BY <2>1, <2>2, <2>3, <2>4
<1>3. CASE S # {}
  <2> DEFINE old == CHOOSE n \in S : TRUE
             f == [n \in DOMAIN recent |-> IF n = 1 THEN t
                                           ELSE recent[IF n <= old THEN n - 1 ELSE n]]
  <2>1. Front(t) = f
    BY <1>3 DEF Front
  <2>2. old \in 1..Len(recent) /\ recent[old] = t
    BY <1>1, <1>3
  <2> HIDE DEF old
  <2>3. f \in Seq(Threads) /\ DOMAIN f = 1..Len(recent)
    <3> DEFINE len == Len(recent)
    <3>1. len \in Nat /\ DOMAIN recent = 1..len
      BY <1>1
    <3>2. \A n \in 1..len : f[n] \in Threads
      BY <1>1, <2>2
    <3>3. f \in [1..len -> Threads]
      BY <3>1, <3>2
    <3> HIDE DEF f, len
    <3>4. f \in Seq(Threads)
      BY <3>1, <3>3, SeqDef
    <3> QED BY <3>1, <3>3, <3>4 DEF len
  <2>4. f[1] = t /\ 1 \in 1..Len(recent)
    BY <1>1, <2>2
  <2>5. ASSUME NEW m \in 1..Len(recent)
        PROVE  \E n \in 1..Len(recent) : f[n] = recent[m]
    <3>1. CASE m < old
      <4>1. m + 1 \in 1..Len(recent) /\ m + 1 # 1 /\ m + 1 <= old /\ (m + 1) - 1 = m
        BY <1>1, <2>2, <3>1
      <4>2. f[m + 1] = recent[m]
        BY <1>1, <4>1
      <4> QED BY <4>1, <4>2
    <3>2. CASE m = old
      BY <2>2, <2>4, <3>2
    <3>3. CASE m > old
      <4>1. m # 1 /\ ~(m <= old)
        BY <1>1, <2>2, <3>3
      <4> QED BY <1>1, <4>1
    <3> QED BY <1>1, <2>2, <3>1, <3>2, <3>3
  <2> QED BY <1>1, <2>1, <2>3, <2>4, <2>5
<1> QED BY <1>2, <1>3

-----------------------------------------------------------------------------
(* The steps between a claim and its end do not move the cursor. *)

CursorStays == index' = index

LEMMA StayPasses ==
  ASSUME CadenceInv, CursorStays
  PROVE  NobodyPassed
<1>1. index \in Nat
  BY SessionTypes
<1>2. \A n \in Slots : ~(index <= n /\ n < index')
  BY <1>1, ConstantTypes DEF CursorStays
<1> QED BY <1>2 DEF NobodyPassed

LEMMA PrepareKeeps ==
  ASSUME CadenceInv, PrepareAgain \/ PrepareSelect \/ PrepareNone
  PROVE  CadenceInv' /\ CursorStays
<1>1. /\ task.pc = "prepare" /\ task.item \in Items
      /\ stim[task.item].state = "leased" /\ Here \in Threads
  BY SessionTypes
     DEF CadenceInv, HoldsLease, Working, RestOK, Here, Rows, PrepareAgain, PrepareSelect,
         PrepareNone
<1>2. /\ UNCHANGED <<config, recent, place, people, over, stim, touched, events>>
      /\ task' \in [pc : Places, item : Items] /\ task'.item = task.item
  BY <1>1 DEF CadenceInv, RestOK, PrepareAgain, PrepareSelect, PrepareNone, Goto, Places, board
<1>3. turn' \in [Items -> TurnStates]
  BY <1>1 DEF CadenceInv, RestOK, TurnStates, PrepareAgain, PrepareSelect, PrepareNone
<1>4. BoardFits(thread', recent')
  <2>1. \/ thread' = thread \/ thread' = [thread EXCEPT ![Here] = "dormant"]
        \/ thread' = [thread EXCEPT ![Here] = "active"] /\ thread[Here] = "dormant"
    BY DEF PrepareAgain, PrepareSelect, PrepareNone, Woken, board
  <2>2. thread[Here] # "absent"
    BY <1>1, SameFits DEF RowsFit, Here, Open
  <2> QED BY <1>1, <1>2, <2>1, <2>2, SameFits, SessionTypes DEF BoardFits, ThreadStates
<1>5. Sound(Session)'
  BY <1>2, <1>4, SameFits, StepSound
<1>6. RestOK'
  BY <1>2, <1>3, <1>4 DEF CadenceInv, RestOK, people, BoardFits
<1>7. HoldsLease'
  BY <1>1, <1>2 DEF HoldsLease
<1> QED BY <1>2, <1>5, <1>6, <1>7 DEF CadenceInv, CursorStays, config

\* A stimulus in delivery goes back to the queue, or is used up.
LEMMA YieldKeeps ==
  ASSUME CadenceInv, Yield
  PROVE  CadenceInv' /\ CursorStays
<1> DEFINE i    == task.item
           back == stim[i].attempts - 1
           r    == [stim[i] EXCEPT !.state = "pending", !.attempts = back]
<1>1. i \in Items /\ stim[i].state = "leased" /\ stim[i] \in Rows
  BY SessionTypes DEF CadenceInv, HoldsLease, Working, RestOK, Yield
<1>2. /\ stim[i].attempts <= MaxAttempts(i) /\ stim[i].attempts >= 1
      /\ MaxAttempts(i) \in {1, 2} /\ stim[i].attempts \in 0..2
      /\ thread[stim[i].thread] # "absent"
  BY <1>1, SameFits, ConstantTypes DEF RowsFit, Rows, Open
<1>3. back \in 0..2 /\ back < MaxAttempts(i)
  BY <1>2
<1>4. stim' = [stim EXCEPT ![i] = r]
  BY <1>1, SessionTypes DEF Yield, Rows
<1>5. /\ r \in Rows /\ r.state = "pending" /\ r.attempts <= MaxAttempts(i)
      /\ r.attempts < MaxAttempts(i) /\ r.thread = stim[i].thread
  <2>1. back <= MaxAttempts(i)
    BY <1>2, <1>3
  <2> HIDE DEF back
  <2> QED BY <1>1, <1>3, <2>1 DEF Rows, Open
<1> HIDE DEF r, i
<1>6. RowsFit(stim')
  BY <1>1, <1>2, <1>4, <1>5, RowFits DEF Open
<1>7. Sound(Session)'
  BY <1>6, SameFits, StepSound DEF Yield, board
<1>8. RestOK'
  BY ConstantTypes DEF Yield, CadenceInv, RestOK, board, people, Idle, Places
<1>9. HoldsLease'
  BY DEF Yield, HoldsLease, Working, Answering, Idle
<1> QED BY <1>7, <1>8, <1>9 DEF CadenceInv, CursorStays, Yield, config

LEMMA TurnStepKeeps ==
  ASSUME CadenceInv, Call \/ NoAnswer \/ Late
  PROVE  CadenceInv' /\ CursorStays
<1>1. /\ UNCHANGED <<config, board, over, stim, touched, events, disabled>>
      /\ task.item \in Items
  BY DEF Call, NoAnswer, Late, people, CadenceInv, RestOK
<1>2. /\ turn' \in [Items -> TurnStates]
      /\ task' \in [pc : Places, item : Items] /\ task'.item = task.item
      /\ task'.pc \in {"await", "complete"}
      /\ task'.pc = "await" => Working
  BY <1>1 DEF Call, NoAnswer, Late, CadenceInv, RestOK, TurnStates, Places, Goto, Working
<1>3. unavailable' \subseteq Participants
  BY <1>1, SessionTypes DEF Call, NoAnswer, Late, people, CadenceInv, RestOK, Rows
<1>4. Sound(Session)'
  BY <1>1, SameFits, StepSound DEF board
<1>5. RestOK'
  BY <1>1, <1>2, <1>3 DEF CadenceInv, RestOK, board
<1>6. HoldsLease'
  BY <1>1, <1>2 DEF CadenceInv, HoldsLease, Working, Answering
<1> QED BY <1>1, <1>4, <1>5, <1>6 DEF CadenceInv, CursorStays, config

LEMMA AnswerKeeps ==
  ASSUME CadenceInv, Answer
  PROVE  CadenceInv' /\ CursorStays
<1>1. PICK t \in Threads, closes \in BOOLEAN :
        /\ thread[t] \in {"absent", "active"} /\ (closes => thread[t] = "active")
        /\ thread' = [thread EXCEPT ![t] = IF closes THEN "closed" ELSE "active"]
        /\ turn' = [turn EXCEPT ![task.item] = "posted"]
        /\ stim' = [i \in Items |-> IF closes /\ i # task.item /\ stim[i].thread = t
                                    THEN Cancel(stim[i]) ELSE stim[i]]
        /\ recent' = Front(t)
        /\ place' = IF task.item = Forced THEN place ELSE t
  BY DEF Answer
<1>2. /\ UNCHANGED <<config, people, over, touched, events>>
      /\ task.item \in Items /\ task' \in [pc : Places, item : Items]
      /\ task'.pc = "complete"
  BY DEF Answer, Goto, CadenceInv, RestOK, Places
<1>3. \A i \in Items : stim[i] \in Rows /\ Cancel(stim[i]) \in Rows
        /\ Cancel(stim[i]).state \notin Open
        /\ Cancel(stim[i]).attempts <= stim[i].attempts
        /\ (Cancel(stim[i]).state = "none" <=> stim[i].state = "none")
  BY SessionTypes, CancelRow
<1>4. RowsFit(stim')
  <2>1. ASSUME NEW i \in Items
        PROVE  /\ stim'[i] \in Rows /\ stim'[i].attempts <= MaxAttempts(i)
               /\ stim'[i].state \in Open => stim'[i] = stim[i]
               /\ stim'[i].state = "none" <=> stim[i].state = "none"
    <3>1. stim[i].attempts <= MaxAttempts(i)
      BY SameFits DEF RowsFit
    <3>2. stim'[i] = stim[i] \/ stim'[i] = Cancel(stim[i])
      BY <1>1
    <3>3. CASE stim'[i] = stim[i]
      BY <1>3, <3>1, <3>3
    <3>4. CASE stim'[i] = Cancel(stim[i])
      <4>1. stim[i].attempts \in Int /\ Cancel(stim[i]).attempts \in Int
            /\ MaxAttempts(i) \in Int
        BY <1>3, ConstantTypes DEF Rows
      <4> QED BY <1>3, <3>1, <3>4, <4>1
    <3> QED BY <3>2, <3>3, <3>4
  <2>2. stim' \in [Items -> Rows]
    BY <1>1, <2>1
  <2> QED BY <2>1, <2>2, SameFits, ConstantTypes DEF RowsFit, Open
<1>5. BoardFits(thread', recent')
  <2>1. thread' \in [Threads -> ThreadStates]
    BY <1>1, SessionTypes DEF ThreadStates
  <2>2. recent' \in Seq(Threads)
    BY <1>1, FrontCovers
  <2>3. ASSUME NEW u \in Threads, thread'[u] # "absent"
        PROVE  \E n \in DOMAIN recent' : recent'[n] = u
    <3>1. CASE u = t
      BY <1>1, <3>1, FrontCovers
    <3>2. CASE u # t
      <4>1. thread[u] # "absent"
        BY <1>1, <2>3, <3>2, SessionTypes
      <4>2. PICK m \in DOMAIN recent : recent[m] = u
        BY <4>1, SameFits DEF BoardFits
      <4> QED BY <1>1, <4>2, FrontCovers
    <3> QED BY <3>1, <3>2
  <2>4. \A u \in Threads : thread'[u] = "absent" => thread[u] = "absent"
    BY <1>1, SessionTypes
  <2> QED BY <2>1, <2>2, <2>3, <2>4 DEF BoardFits
<1>6. Sound(Session)'
  BY <1>2, <1>4, <1>5, StepSound
<1>7. place' \in Threads /\ thread'[place'] # "absent"
  BY <1>1, SessionTypes DEF CadenceInv, RestOK
<1>8. RestOK'
  BY <1>1, <1>2, <1>7 DEF CadenceInv, RestOK, people, TurnStates
<1>9. HoldsLease'
  BY <1>2 DEF HoldsLease, Working, Answering
<1> QED BY <1>2, <1>6, <1>8, <1>9 DEF CadenceInv, CursorStays, config

LEMMA AnswerRaisesKeeps ==
  ASSUME CadenceInv, AnswerRaises
  PROVE  CadenceInv' /\ CursorStays
<1> DEFINE i == task.item
<1>1. /\ i \in Items /\ stim[i].state = "leased"
      /\ stim' = [stim EXCEPT ![i] = TakenBack(i)]
      /\ turn' = [turn EXCEPT ![i] = IF Exhausted(i) THEN "silent" ELSE "open"]
      /\ task' = Idle /\ UNCHANGED <<config, board, people, over, touched, events>>
  BY DEF AnswerRaises, CadenceInv, RestOK, HoldsLease, Working
<1> HIDE DEF i
<1>2. RowsFit(stim')
  BY <1>1, TakenBackRow, RowFits DEF Open
<1>3. Sound(Session)'
  BY <1>1, <1>2, SameFits, StepSound DEF board
<1>4. RestOK'
  BY <1>1, ConstantTypes DEF CadenceInv, RestOK, board, people, Idle, Places, TurnStates
<1>5. HoldsLease'
  BY <1>1 DEF HoldsLease, Working, Answering, Idle
<1> QED BY <1>1, <1>3, <1>4, <1>5 DEF CadenceInv, CursorStays, config

\* Whoever ends the run (a safety block, a person, a budget).
LEMMA EndedKeeps ==
  ASSUME CadenceInv, NEW s \in RunStates \ {"live"}, Install(Ends(Session, s)),
         UNCHANGED <<place, people, over, touched>>, events' \in Nat,
         task' \in [pc : Places, item : Items], task'.pc \notin {"prepare", "turn"}
  PROVE  CadenceInv' /\ CursorStays
<1> DEFINE c == Ends(Session, s)
<1>1. Follows(Session, Session) /\ Sound(Session)
  BY SessionTypes, SameSession DEF CadenceInv, Session
<1>2. Sound(c) /\ Follows(Session, c) /\ c.run = s /\ c.index = index
  BY <1>1, EndsKeeps DEF Session
<1>3. Install(c)
  OBVIOUS
<1> HIDE DEF c
<1>4. Sound(Session)'
  BY <1>2, <1>3, InstalledSound
<1>5. /\ turn' \in [Items -> TurnStates]
      /\ \A i \in Items : turn'[i] # "open"
  BY <1>2, <1>3, InstalledTurns
<1>6. thread'[place] # "absent"
  BY <1>2, <1>3 DEF Follows, KeepsThreads, Session, Install, CadenceInv, RestOK
<1>7. RestOK'
  BY <1>5, <1>6 DEF CadenceInv, RestOK, people
<1>8. HoldsLease'
  BY <1>5 DEF HoldsLease, Working, Answering
<1> QED BY <1>2, <1>3, <1>4, <1>7, <1>8 DEF CadenceInv, CursorStays, Install

\* The cursor moves the same way before and after a row is written.
LEMMA AdvancedWrites ==
  ASSUME NEW c \in Sessions, NEW i \in Items, NEW r \in Rows, NEW made \in BOOLEAN
  PROVE  [Advanced(c, 1, made) EXCEPT !.stim[i] = r]
           = Advanced([c EXCEPT !.stim[i] = r], 1, made)
<1> DEFINE wraps  == (c.index + 1) \div CycleSize > c.index \div CycleSize
           silent == wraps /\ ~(c.active \/ made) /\ Dormancy
           th     == [t \in Threads |-> IF silent /\ c.thread[t] = "active"
                                        THEN "dormant" ELSE c.thread[t]]
           on     == ~wraps /\ (c.active \/ made)
           next   == c.index + 1
           st     == [c.stim EXCEPT ![i] = r]
           b      == [c EXCEPT !.stim[i] = r]
<1>1. /\ b = [c EXCEPT !.stim = st] /\ b.index = c.index /\ b.active = c.active
      /\ b.thread = c.thread /\ b.stim = st
  BY DEF Sessions
<1>2. Advanced(c, 1, made) = [c EXCEPT !.index = next, !.active = on, !.quiet = silent,
                                       !.thread = th]
  BY DEF Advanced, CycleActive
<1>3. Advanced(b, 1, made) = [b EXCEPT !.index = next, !.active = on, !.quiet = silent,
                                       !.thread = th]
  <2> HIDE DEF b
  <2> QED BY <1>1 DEF Advanced, CycleActive
<1> HIDE DEF wraps, silent, th, on, next, st
<1>4. [Advanced(c, 1, made) EXCEPT !.stim[i] = r]
        = [c EXCEPT !.index = next, !.active = on, !.quiet = silent, !.thread = th,
                    !.stim = st]
  BY <1>2 DEF Sessions, st
<1>5. Advanced(b, 1, made)
        = [c EXCEPT !.index = next, !.active = on, !.quiet = silent, !.thread = th,
                    !.stim = st]
  <2> HIDE DEF b
  <2> QED BY <1>1, <1>3 DEF Sessions
<1> QED BY <1>4, <1>5

\* The session that the end of a claim makes of the one it finds.
LEMMA CompletedSession ==
  ASSUME CadenceInv, Complete, stim[task.item].state = "leased"
  PROVE  LET i == task.item
             c == [Session EXCEPT !.stim[i] = Closed("completed")]
             d == SlotCompleted(c, i)
         IN  /\ Install(d) /\ Sound(c) /\ Sound(d) /\ Follows(c, d)
             /\ c.run = run /\ c.index = index /\ c.thread = thread
             /\ \A n \in Items : c.stim[n] = IF n = i THEN Closed("completed") ELSE stim[n]
<1> DEFINE i   == task.item
           row == Closed("completed")
           c   == [Session EXCEPT !.stim[i] = row]
           d   == SlotCompleted(c, i)
<1> SUFFICES /\ Install(d) /\ Sound(c) /\ Sound(d) /\ Follows(c, d)
             /\ c.run = run /\ c.index = index /\ c.thread = thread
             /\ \A n \in Items : c.stim[n] = IF n = i THEN row ELSE stim[n]
  OBVIOUS
<1>1. i \in Items
  BY DEF CadenceInv, RestOK
<1>2. row \in Rows /\ row.state = "completed" /\ row.attempts = 0
  BY ClosedRow
<1>4. stim[i].state = "leased"
  OBVIOUS
<1> HIDE DEF i, row
<1> QED
  <2> DEFINE st == [stim EXCEPT ![i] = row]
  <2>1. st \in [Items -> Rows] /\ \A n \in Items : st[n] = IF n = i THEN row ELSE stim[n]
    BY <1>1, <1>2, SessionTypes
  <2>2. RowsFit(st)
    BY <1>1, <1>2, <1>4, RowFits, ConstantTypes DEF Open
  <2> HIDE DEF st
  <2>3. /\ c \in Sessions /\ c.stim = st /\ c.run = run /\ c.index = index
        /\ c.thread = thread /\ c.recent = recent
    BY <1>1, <2>1, SessionTypes DEF Sessions, Session, st
  <2>4. Install(d)
    <3> DEFINE made == turn[i] = "posted"
    <3>1. Install([SlotCompleted(Session, i) EXCEPT !.stim[i] = row])
      BY <1>4 DEF Complete, i, row
    <3>2. made \in BOOLEAN
      OBVIOUS
    <3>3. Session \in Sessions /\ Session.index = index /\ Session.run = run
      BY SessionTypes DEF Session
    <3> HIDE DEF made
    <3>4. [Advanced(Session, 1, made) EXCEPT !.stim[i] = row] = Advanced(c, 1, made)
      BY <1>1, <1>2, <3>2, <3>3, AdvancedWrites
    <3> HIDE DEF c
    <3>5. CASE i # index \/ run # "live"
      <4>1. SlotCompleted(Session, i) = Session /\ d = c
        BY <2>3, <3>3, <3>5 DEF SlotCompleted
      <4> QED BY <3>1, <4>1 DEF c
    <3>6. CASE ~(i # index \/ run # "live")
      <4>1. /\ SlotCompleted(Session, i) = Advanced(Session, 1, made)
            /\ d = Advanced(c, 1, made)
        BY <2>3, <3>3, <3>6 DEF SlotCompleted, made
      <4> QED BY <3>1, <3>4, <4>1
    <3> QED BY <3>5, <3>6
  <2> HIDE DEF c
  <2>5. Sound(c)
    <3>1. AttemptsOK(c)
      BY <2>2, <2>3 DEF AttemptsOK, RowsFit
    <3>2. PostsOK(c) /\ PlacesOK(c)
      BY <2>2, <2>3, SameFits DEF PostsOK, PlacesOK, RowsFit, BoardFits
    <3>3. AheadIsNew(c) /\ Single(c)
      BY <2>2, <2>3 DEF AheadIsNew, Single, RowsFit, CadenceInv, Sound, Session
    <3> QED BY <2>3, <3>1, <3>2, <3>3 DEF Sound
  <2>6. Follows(c, c) /\ c.index \in Nat
    BY <2>3, SessionTypes, SameSession
  <2>7. Sound(d) /\ Follows(c, d)
    <3>1. CASE i # c.index \/ c.run # "live"
      BY <2>5, <2>6, <3>1 DEF SlotCompleted
    <3>2. CASE ~(i # c.index \/ c.run # "live")
      <4> DEFINE made == turn[i] = "posted"
      <4>1. d = Advanced(c, 1, made) /\ made \in BOOLEAN
        BY <3>2 DEF SlotCompleted
      <4> HIDE DEF made
      <4>2. \A n \in Slots : c.stim[n].state \notin Open
        <5>1. \A n \in Slots : stim[n].state \in Open => n = index
          BY <2>3, <3>2 DEF CadenceInv, Sound, Single, Session
        <5> QED BY <1>2, <2>1, <2>3, <3>2, <5>1, ConstantTypes DEF Open
      <4>3. \A n \in Slots : c.index <= n /\ n < c.index + 1 => c.stim[n].state # "none"
        <5> SUFFICES ASSUME NEW n \in Slots, c.index <= n, n < c.index + 1
                     PROVE  n = c.index
          BY <1>1, <1>2, <2>1, <2>3, <3>2, ConstantTypes
        <5>1. n \in Nat
          BY ConstantTypes
        <5> QED BY <2>6, <5>1
      <4> QED BY <2>5, <2>6, <4>1, <4>2, <4>3, AdvancedKeeps
    <3> QED BY <3>1, <3>2
  <2> HIDE DEF d
  <2> QED BY <2>1, <2>3, <2>4, <2>5, <2>7

LEMMA CompleteKeeps ==
  ASSUME CadenceInv, Complete
  PROVE  CadenceInv' /\ NobodyPassed
<1> DEFINE i   == task.item
           row == Closed("completed")
           c   == [Session EXCEPT !.stim[i] = row]
           d   == SlotCompleted(c, i)
<1>1. /\ i \in Items /\ task' \in [pc : Places, item : Items] /\ task'.pc = "settle"
      /\ UNCHANGED <<place, people, over, touched, events>>
  BY DEF Complete, Goto, CadenceInv, RestOK, Places
<1>2. /\ row \in Rows /\ row.state = "completed" /\ row.attempts = 0
  BY ClosedRow
<1> HIDE DEF i, row
<1>3. HoldsLease'
  BY <1>1 DEF HoldsLease, Working, Answering
<1>4. CASE stim[i].state = "leased"
  <2>1. Install(d) /\ Sound(d) /\ Follows(c, d) /\ c.index = index /\ c.thread = thread
    BY <1>4, CompletedSession DEF i, row
  <2> HIDE DEF c, d
  <2>8. Sound(Session)'
    BY <2>1, InstalledSound
  <2>9. RestOK'
    <3>1. thread'[place] # "absent"
      BY <2>1 DEF Follows, KeepsThreads, Install, CadenceInv, RestOK
    <3> QED BY <1>1, <2>1, <3>1, InstalledTurns DEF CadenceInv, RestOK, people
  <2>10. NobodyPassed
    BY <2>1 DEF NobodyPassed, Follows, PassesNobody, Install
  <2> QED BY <1>3, <2>8, <2>9, <2>10 DEF CadenceInv
<1>5. CASE stim[i].state # "leased"
  <2>1. UNCHANGED <<config, thread, recent, stim, turn>>
    BY <1>5 DEF Complete, i
  <2>2. Sound(Session)'
    BY <2>1, SameFits, StepSound
  <2>3. RestOK'
    BY <1>1, <2>1 DEF CadenceInv, RestOK, people
  <2> QED BY <1>3, <2>1, <2>2, <2>3, StayPasses DEF CadenceInv, CursorStays, config
<1> QED BY <1>4, <1>5

LEMMA SettleKeeps ==
  ASSUME CadenceInv, Settle
  PROVE  CadenceInv' /\ CursorStays
<1>1. /\ task' = Idle /\ UNCHANGED <<place, people, over, touched, events>>
      /\ Idle \in [pc : Places, item : Items] /\ Idle.pc = "idle" /\ events' \in Nat
  BY ConstantTypes DEF Settle, Idle, Places, CadenceInv, RestOK
<1>2. CASE over /\ run = "live"
  <2>1. Install(Ends(Session, "completed")) /\ "completed" \in RunStates \ {"live"}
    BY <1>2 DEF Settle, RunStates
  <2> QED BY <1>1, <2>1, EndedKeeps
<1>3. CASE ~(over /\ run = "live")
  <2>1. Install(Session) /\ Sound(Session)
    BY <1>3 DEF Settle, CadenceInv
  <2>2. Sound(Session)'
    BY <2>1, InstalledSound
  <2>3. turn' \in [Items -> TurnStates] /\ UNCHANGED <<thread, config>>
    BY <2>1, InstalledTurns DEF Install, Session, config
  <2>4. RestOK'
    BY <1>1, <2>3 DEF CadenceInv, RestOK, people
  <2>5. HoldsLease'
    BY <1>1 DEF HoldsLease, Working, Answering
  <2> QED BY <2>2, <2>3, <2>4, <2>5 DEF CadenceInv, CursorStays, config
<1> QED BY <1>2, <1>3

LEMMA EndingKeeps ==
  ASSUME CadenceInv, Blocked \/ Stop
  PROVE  CadenceInv' /\ CursorStays
<1>1. /\ "failed" \in RunStates \ {"live"} /\ "stopped" \in RunStates \ {"live"}
      /\ Install(Ends(Session, "failed")) \/ Install(Ends(Session, "stopped"))
      /\ UNCHANGED <<place, people, over, touched>> /\ events' \in Nat
      /\ task' \in [pc : Places, item : Items] /\ task'.pc \notin {"prepare", "turn"}
  BY DEF Blocked, Stop, Request, Event, LoopFree, Goto, RunStates, CadenceInv, RestOK, Places
<1> QED BY <1>1, EndedKeeps

-----------------------------------------------------------------------------
(* People, time and the process *)

\* The session ensure_slot finds after a post or a wake request.
LEMMA InputSession ==
  ASSUME CadenceInv, NEW t \in Threads, NEW written \in BOOLEAN,
         thread[t] \in {"active", "dormant"}
  PROVE  LET b == [Session EXCEPT !.thread[t] = "active", !.quiet = FALSE, !.active = TRUE,
                                  !.recent = IF written THEN Front(t) ELSE @]
         IN  /\ Sound(b) /\ place \in Threads /\ b.thread[place] # "absent"
             /\ b.index = index /\ b.run = run /\ b.stim = stim /\ b.active /\ ~b.quiet
             /\ \A u \in Threads : b.thread[u] = "absent" <=> thread[u] = "absent"
<1> DEFINE th == [thread EXCEPT ![t] = "active"]
           rs == IF written THEN Front(t) ELSE recent
           b  == [Session EXCEPT !.thread[t] = "active", !.quiet = FALSE, !.active = TRUE,
                                 !.recent = IF written THEN Front(t) ELSE @]
<1>3. /\ th \in [Threads -> ThreadStates]
      /\ \A u \in Threads : th[u] = "absent" <=> thread[u] = "absent"
  BY SessionTypes DEF ThreadStates
<1>4. /\ rs \in Seq(Threads)
      /\ \A m \in DOMAIN recent : \E n \in DOMAIN rs : rs[n] = recent[m]
  BY SessionTypes, FrontCovers
<1>5. b = [Session EXCEPT !.thread = th, !.quiet = FALSE, !.active = TRUE, !.recent = rs]
  BY DEF Session
<1> HIDE DEF th, rs
<1> SUFFICES /\ Sound(b) /\ place \in Threads /\ b.thread[place] # "absent"
             /\ b.index = index /\ b.run = run /\ b.stim = stim /\ b.active /\ ~b.quiet
             /\ \A u \in Threads : b.thread[u] = "absent" <=> thread[u] = "absent"
  OBVIOUS
<1> HIDE DEF b
<1>6. /\ b \in Sessions /\ b.run = run /\ b.index = index /\ b.stim = stim
      /\ b.thread = th /\ b.recent = rs /\ b.active = TRUE /\ b.quiet = FALSE
  BY <1>3, <1>4, <1>5, SessionTypes DEF Sessions, Session
<1>7. Sound(b)
  <2>1. AttemptsOK(b) /\ AheadIsNew(b) /\ Single(b)
    BY <1>6 DEF CadenceInv, Sound, AttemptsOK, AheadIsNew, Single, Session
  <2>2. PostsOK(b)
    <3> SUFFICES ASSUME NEW u \in Threads, thread[u] # "absent"
                 PROVE  \E n \in DOMAIN rs : rs[n] = u
      BY <1>3, <1>6 DEF PostsOK
    <3>1. PICK m \in DOMAIN recent : recent[m] = u
      BY SameFits DEF BoardFits
    <3> QED BY <1>4, <3>1
  <2>3. PlacesOK(b)
    BY <1>3, <1>6, SameFits, SessionTypes DEF PlacesOK, RowsFit, Rows
  <2> QED BY <1>6, <2>1, <2>2, <2>3 DEF Sound
<1>8. place \in Threads /\ b.thread[place] # "absent"
  BY <1>3, <1>6 DEF CadenceInv, RestOK
<1> QED BY <1>3, <1>6, <1>7, <1>8

LEMMA InputKeeps ==
  ASSUME CadenceInv, Input
  PROVE  CadenceInv' /\ NobodyPassed
<1>1. PICK t \in Threads, written \in BOOLEAN :
        /\ thread[t] \in {"active", "dormant"}
        /\ \E c \in Ensured([Session EXCEPT !.thread[t] = "active",
                                !.quiet = FALSE, !.active = TRUE,
                                !.recent = IF written THEN Front(t) ELSE @]) :
             Install(c)
  BY DEF Input
<1> DEFINE b == [Session EXCEPT !.thread[t] = "active", !.quiet = FALSE, !.active = TRUE,
                                !.recent = IF written THEN Front(t) ELSE @]
<1>2. PICK c \in Ensured(b) : Install(c)
  BY <1>1
<1>3. /\ Sound(b) /\ place \in Threads /\ b.thread[place] # "absent"
      /\ b.index = index /\ b.run = run /\ b.stim = stim
  BY <1>1, InputSession
<1> HIDE DEF b
<1>9. Sound(c) /\ Follows(b, c)
  BY <1>2, <1>3, EnsuredKeeps
<1>10. /\ UNCHANGED <<place, people, over, task>> /\ LoopFree
       /\ touched' \in Nat /\ events' \in Nat
  BY SessionTypes DEF Input, Request, Event, CadenceInv, RestOK
<1>11. Sound(Session)'
  BY <1>2, <1>9, InstalledSound
<1>12. RestOK'
  <2>1. thread'[place] # "absent"
    BY <1>2, <1>3, <1>9 DEF Follows, KeepsThreads, Install
  <2> QED BY <1>2, <1>9, <1>10, <2>1, InstalledTurns DEF CadenceInv, RestOK, people
<1>13. HoldsLease'
  <2>1. KeepsQueue(Session, c)
    BY <1>3, <1>9 DEF Follows, KeepsQueue, Session
  <2> QED BY <1>2, <1>9, <1>10, <2>1, RequestKeepsLease
<1>14. NobodyPassed
  BY <1>2, <1>3, <1>9 DEF Follows, PassesNobody, NobodyPassed, Install
<1> QED BY <1>11, <1>12, <1>13, <1>14 DEF CadenceInv

LEMMA ForceKeeps ==
  ASSUME CadenceInv, ForceTurn
  PROVE  CadenceInv' /\ CursorStays
<1>1. PICK r \in Rows : /\ stim' = [stim EXCEPT ![Forced] = r]
                        /\ r.state = "pending" /\ r.attempts = 0 /\ thread[r.thread] # "absent"
  <2>1. \A a \in Available, t \in OpenThreads(Session) :
          LET r == [state |-> "pending", thread |-> t, target |-> a, attempts |-> 0]
          IN  /\ r \in Rows /\ r.state = "pending" /\ r.attempts = 0
              /\ thread[r.thread] # "absent"
    BY DEF Rows, Open, Available, OpenThreads, Session
  <2> QED BY <2>1 DEF ForceTurn
<1>4. RowsFit(stim')
  <2>1. Forced \in Items /\ 0 <= MaxAttempts(Forced) /\ 0 < MaxAttempts(Forced)
    BY ConstantTypes
  <2> QED BY <1>1, <2>1, RowFits
<1>5. /\ UNCHANGED <<config, board, people, over, turn, task, touched>>
      /\ stim[Forced].state = "none" /\ events' \in Nat
  BY DEF ForceTurn, Request, Event, CadenceInv, RestOK
<1>6. Sound(Session)'
  BY <1>4, <1>5, SameFits, StepSound DEF board
<1>7. RestOK'
  BY <1>5 DEF CadenceInv, RestOK, board, people
<1>8. HoldsLease'
  BY <1>1, <1>5, SessionTypes DEF CadenceInv, RestOK, HoldsLease, Working, Answering
<1> QED BY <1>5, <1>6, <1>7, <1>8 DEF CadenceInv, CursorStays, config

LEMMA PeopleKeep ==
  ASSUME CadenceInv, HumanSetStatus \/ SetParticipant \/ BudgetExpires
  PROVE  CadenceInv' /\ CursorStays
<1>1. /\ UNCHANGED <<config, recent, place, stim, turn, task, touched>>
      /\ events' \in Nat /\ over' \in BOOLEAN
      /\ disabled' \subseteq Participants /\ unavailable' \subseteq Participants
  <2>a. Event /\ (over' = over \/ over' = TRUE)
    BY DEF HumanSetStatus, SetParticipant, BudgetExpires, Request
  <2>b. events' \in Nat /\ over' \in BOOLEAN
    <3>1. events \in Nat /\ over \in BOOLEAN
      BY DEF CadenceInv, RestOK
    <3>2. over' \in BOOLEAN
      BY <2>a, <3>1
    <3>3. events' \in Nat
      BY <2>a, <3>1 DEF Event
    <3> QED BY <3>2, <3>3
  <2>c. UNCHANGED <<config, recent, place, stim, turn, task, touched>>
    BY DEF HumanSetStatus, SetParticipant, BudgetExpires, board, people, work
  <2>1. /\ UNCHANGED <<config, recent, place, stim, turn, task, touched>>
        /\ events' \in Nat /\ over' \in BOOLEAN
    BY <2>b, <2>c
  <2>2. CASE SetParticipant
    <3>1. PICK a \in Participants :
            \/ disabled' = (disabled \cup {a}) \ (disabled \cap {a}) /\ UNCHANGED unavailable
            \/ unavailable' = unavailable \ {a} /\ UNCHANGED disabled
      BY <2>2 DEF SetParticipant
    <3>2. disabled \subseteq Participants /\ unavailable \subseteq Participants
      BY DEF CadenceInv, RestOK
    <3> QED BY <2>1, <3>1, <3>2
  <2>3. CASE HumanSetStatus \/ BudgetExpires
    BY <2>1, <2>3 DEF HumanSetStatus, BudgetExpires, people, CadenceInv, RestOK
  <2> QED BY <2>2, <2>3
<1>2. BoardFits(thread', recent') /\ (thread'[place] # "absent")
  <2>1. CASE UNCHANGED thread
    BY <1>1, <2>1, SameFits DEF CadenceInv, RestOK
  <2>2. CASE HumanSetStatus
    <3>1. PICK t \in Threads, status \in {"active", "dormant", "closed"} :
            thread[t] # "absent" /\ thread' = [thread EXCEPT ![t] = status]
      BY <2>2 DEF HumanSetStatus
    <3>2. /\ thread' \in [Threads -> ThreadStates]
          /\ \A u \in Threads : thread'[u] = "absent" <=> thread[u] = "absent"
      BY <3>1, SessionTypes DEF ThreadStates
    <3> QED BY <1>1, <3>2, SameFits DEF BoardFits, CadenceInv, RestOK
  <2> QED BY <2>1, <2>2 DEF SetParticipant, BudgetExpires, board
<1>3. Sound(Session)'
  BY <1>1, <1>2, SameFits, StepSound
<1>4. RestOK'
  BY <1>1, <1>2 DEF CadenceInv, RestOK
<1>5. HoldsLease'
  BY <1>1 DEF CadenceInv, HoldsLease, Working, Answering
<1> QED BY <1>1, <1>3, <1>4, <1>5 DEF CadenceInv, CursorStays, config

LEMMA RestartKeeps ==
  ASSUME CadenceInv, Restart
  PROVE  CadenceInv' /\ CursorStays
<1>1. /\ stim' = [i \in Items |-> IF stim[i].state = "leased" THEN TakenBack(i) ELSE stim[i]]
      /\ turn' = [i \in Items |->
           IF stim[i].state = "leased" /\ Exhausted(i) /\ turn[i] = "open" THEN "silent"
           ELSE turn[i]]
      /\ task' = Idle /\ UNCHANGED <<config, board, people, over, touched>>
      /\ events' \in Nat
  BY DEF Restart, Event, CadenceInv, RestOK
<1>2. RowsFit(stim')
  <2>1. ASSUME NEW i \in Items
        PROVE  /\ stim'[i] \in Rows /\ stim'[i].attempts <= MaxAttempts(i)
               /\ stim'[i].state = "pending" => stim'[i].attempts < MaxAttempts(i)
               /\ stim'[i].state = "leased" => stim'[i].attempts >= 1
               /\ stim'[i].state \in Open => thread[stim'[i].thread] # "absent"
               /\ stim'[i].state \in Open => stim[i].state \in Open
               /\ stim[i].state = "none" => stim'[i].state = "none"
    <3>1. CASE stim[i].state = "leased"
      BY <1>1, <3>1, TakenBackRow DEF Open
    <3>2. CASE stim[i].state # "leased"
      BY <1>1, <3>2, SameFits, SessionTypes DEF RowsFit
    <3> QED BY <3>1, <3>2
  <2>2. stim' \in [Items -> Rows]
    BY <1>1, <2>1
  <2> QED BY <2>1, <2>2, ConstantTypes DEF RowsFit
<1>3. Sound(Session)'
  BY <1>1, <1>2, SameFits, StepSound DEF board
<1>4. RestOK'
  BY <1>1, ConstantTypes DEF CadenceInv, RestOK, board, people, TurnStates, Idle, Places
<1>5. HoldsLease'
  BY <1>1 DEF HoldsLease, Working, Answering, Idle
<1> QED BY <1>1, <1>3, <1>4, <1>5 DEF CadenceInv, CursorStays, config

-----------------------------------------------------------------------------
(* The theorems *)

LEMMA CadenceStart == Init => CadenceInv
<1> SUFFICES ASSUME Init PROVE CadenceInv
  OBVIOUS
<1> DEFINE first == [NoStimulus EXCEPT !.state = "pending", !.target = PeerOf(0)]
<1>1. NoStimulus \in Rows /\ NoStimulus.state = "none" /\ NoStimulus.attempts = 0
  BY ConstantTypes DEF NoStimulus, Rows
<1>2. PeerOf(0) \in Participants
  BY SpeakerTypes
<1>3. /\ first \in Rows /\ first.state = "pending" /\ first.attempts = 0
      /\ first.thread = FirstThread
  <2>1. "pending" \in Open
    BY DEF Open
  <2>2. NoStimulus.thread = FirstThread
    BY DEF NoStimulus
  <2> HIDE DEF NoStimulus
  <2> QED BY <1>1, <1>2, <2>1, <2>2 DEF Rows
<1>4. stim = [i \in Items |-> IF i = 0 THEN first ELSE NoStimulus]
  BY DEF Init
<1> HIDE DEF first
<1>5. stim \in [Items -> Rows]
  BY <1>1, <1>3, <1>4
<1>6. /\ thread \in [Threads -> ThreadStates] /\ recent \in Seq(Threads)
      /\ \A t \in Threads : thread[t] # "absent" <=> t = FirstThread
      /\ 1 \in DOMAIN recent /\ recent[1] = FirstThread
  BY ConstantTypes DEF Init, ThreadStates
<1>7. Session \in Sessions
  BY <1>5, <1>6 DEF Init, Session, Sessions, RunStates
<1>8. AttemptsOK(Session) /\ PostsOK(Session) /\ PlacesOK(Session)
  BY <1>1, <1>3, <1>4, <1>6, ConstantTypes DEF Session, AttemptsOK, PostsOK, PlacesOK, Open
<1>9. AheadIsNew(Session) /\ Single(Session)
  BY <1>1, <1>3, <1>4, ConstantTypes DEF Init, Session, AheadIsNew, Single, Open
<1>10. RestOK
  BY <1>6, ConstantTypes DEF Init, RestOK, TurnStates, Idle, Places
<1>11. HoldsLease
  BY DEF Init, HoldsLease, Working, Answering, Idle
<1> QED BY <1>7, <1>8, <1>9, <1>10, <1>11 DEF CadenceInv, Sound

LEMMA CadenceStep ==
  ASSUME CadenceInv, [Next]_vars
  PROVE  CadenceInv' /\ NobodyPassed
<1>1. CASE UNCHANGED vars
  <2>1. UNCHANGED <<config, board, people, over, work, touched, events>>
    BY <1>1 DEF vars
  <2>2. Sound(Session)'
    BY <2>1, SameFits, StepSound DEF board, work
  <2>3. RestOK' /\ HoldsLease' /\ CursorStays
    BY <2>1 DEF CadenceInv, RestOK, HoldsLease, Working, Answering, CursorStays,
                config, board, people, work
  <2> QED BY <2>2, <2>3, StayPasses DEF CadenceInv
<1>2. CASE Claim \/ Complete \/ Input
  BY <1>2, ClaimKeeps, CompleteKeeps, InputKeeps
<1>3. CASE Step /\ ~(Claim \/ Complete)
  BY <1>3, PrepareKeeps, YieldKeeps, TurnStepKeeps, AnswerKeeps, AnswerRaisesKeeps,
     EndingKeeps, SettleKeeps, StayPasses
     DEF Step
<1>4. CASE Next /\ ~Step /\ ~Input
  BY <1>4, ForceKeeps, PeopleKeep, EndingKeeps, RestartKeeps, StayPasses DEF Next
<1> QED BY <1>1, <1>2, <1>3, <1>4

LEMMA CadenceInductive == Spec => []CadenceInv
BY CadenceStart, CadenceStep, PTL DEF Spec

(* The cadence's rows and configuration have their types, and no stimulus    *)
(* has more attempts than it may, for every number of peers and threads      *)
(* (cadence.py; a slot has one attempt).                                     *)
THEOREM CadenceTyped == Spec => []TypeOK
<1>1. CadenceInv => TypeOK
  <2> SUFFICES ASSUME CadenceInv PROVE TypeOK
    OBVIOUS
  <2>1. \A i \in Items : stim[i].attempts <= MaxAttempts(i)
    BY SameFits DEF RowsFit
  <2> QED BY <2>1, SessionTypes
          DEF TypeOK, CadenceInv, RestOK, RunStates, ThreadStates, Rows, TurnStates, Places
<1> QED BY <1>1, CadenceInductive, PTL

(* At most one speaker is queued or speaks, and it is the one at the cursor, *)
(* whatever posts, wake requests, closed threads and restarts come in        *)
(* between (ensure_slot).                                                    *)
THEOREM OneSpeakerAtATime == Spec => []OneSpeaker
<1>1. CadenceInv => OneSpeaker
  BY DEF CadenceInv, Sound, Single, Session, OneSpeaker
<1> QED BY <1>1, CadenceInductive, PTL

(* The loop of ensure_slot skips a participant only if the peer of its pair  *)
(* cannot contribute, however many pairs it skips and whoever is switched    *)
(* off and on between two looks.                                             *)
THEOREM PeersAreNotPassedOver == Spec => NobodyPassedOver
<1>1. CadenceInv /\ [Next]_vars
        => [\A n \in Slots : index <= n /\ n < index' /\ stim'[n].state = "none"
              => PeerOf(n) \notin Available]_vars
  BY CadenceStep DEF NobodyPassed
<1> QED BY <1>1, CadenceInductive, PTL DEF Spec, NobodyPassedOver

-----------------------------------------------------------------------------
(* How far the cursor gets.  While some peer is available the loop stops at   *)
(* a slot of that peer within one cycle, so that every slot it looks at is    *)
(* one of the model's.                                                        *)

LEMMA DivIs ==
  ASSUME NEW k \in Nat \ {0}, NEW n \in Nat, NEW q \in Int, k * q <= n, n < k * q + k
  PROVE  n \div k = q
<1> DEFINE d == n \div k
<1>1. d \in Int /\ k * d <= n /\ n < k * d + k
  OBVIOUS
<1> HIDE DEF d
<1>2. CASE d < q
  <2>1. d + 1 <= q
    BY <1>1, <1>2
  <2>2. k * (d + 1) <= k * q
    BY <1>1, <2>1
  <2> QED BY <1>1, <2>2
<1>3. CASE d > q
  <2>1. q + 1 <= d
    BY <1>1, <1>3
  <2>2. k * (q + 1) <= k * d
    BY <1>1, <2>1
  <2> QED BY <1>1, <2>2
<1> QED BY <1>1, <1>2, <1>3 DEF d

LEMMA DivFacts ==
  ASSUME NEW k \in Nat \ {0}, NEW n \in Nat
  PROVE  /\ n \div k \in Nat /\ n % k \in 0..(k - 1)
         /\ k * (n \div k) <= n /\ n < k * (n \div k) + k
         /\ n = (k * (n \div k)) + (n % k)
OBVIOUS

\* Every peer has an even slot in the cycle that follows slot i.
LEMMA SlotOfPeer ==
  ASSUME NEW p \in 1..NPeers, NEW i \in Nat
  PROVE  \E g \in (i + 1)..(i + CycleSize) : g % 2 = 0 /\ PeerOf(g) = p
<1> DEFINE k == (i \div 2) + 1
           d == k \div NPeers
           r == k % NPeers
<1>1. NPeers \in Nat \ {0}
  BY ConstantTypes
<1>2. k \in Nat /\ i + 1 <= 2 * k /\ 2 * k <= i + 2
  OBVIOUS
<1> HIDE DEF k
<1>3. d \in Nat /\ r \in 0..(NPeers - 1) /\ k = (NPeers * d) + r
  BY <1>1, <1>2, DivFacts
<1> HIDE DEF d, r
<1> DEFINE x == IF p - 1 >= r THEN k + (p - 1 - r) ELSE k + (p - 1 - r) + NPeers
           q == IF p - 1 >= r THEN d ELSE d + 1
<1>4. x \in Nat /\ k <= x /\ x <= k + NPeers - 1
  BY <1>1, <1>2, <1>3
<1>5. q \in Int /\ x = NPeers * q + (p - 1)
  BY <1>1, <1>2, <1>3
<1> HIDE DEF x, q
<1>6. NPeers * q \in Int /\ NPeers * q <= x /\ x < NPeers * q + NPeers
  BY <1>1, <1>4, <1>5
<1>7. x \div NPeers = q
  BY <1>1, <1>4, <1>5, <1>6, DivIs
<1>8. x % NPeers = p - 1
  <2>1. x = (NPeers * q) + (x % NPeers)
    BY <1>1, <1>4, <1>7, DivFacts
  <2>2. x % NPeers \in Int
    BY <1>1, <1>4, DivFacts
  <2> QED BY <1>5, <1>6, <2>1, <2>2
<1> DEFINE g == 2 * x
<1>9. g \in Nat /\ g % 2 = 0 /\ g \div 2 = x
  BY <1>4
<1>10. g \in (i + 1)..(i + CycleSize)
  BY <1>1, <1>2, <1>4 DEF CycleSize
<1>11. PeerOf(g) = p
  BY <1>8, <1>9 DEF PeerOf
<1> QED BY <1>9, <1>10, <1>11

CycleStart(n) == (n \div CycleSize) * CycleSize

\* A move of the cursor stays in its cycle or comes to the start of the next.
LEMMA CycleMove ==
  ASSUME NEW n \in Nat, NEW m \in 1..2, m = 2 => n % 2 = 0
  PROVE  LET s == CycleStart(n)
         IN  /\ s \in Nat /\ s <= n /\ n < s + CycleSize
             /\ \/ /\ n + m < s + CycleSize /\ CycleStart(n + m) = s
                   /\ (n + m) \div CycleSize = n \div CycleSize
                \/ /\ n + m = s + CycleSize /\ CycleStart(n + m) = n + m
                   /\ (n + m) \div CycleSize = n \div CycleSize + 1
<1> DEFINE k == CycleSize
           q == n \div k
           s == CycleStart(n)
           half == NPeers * q
<1>1. k \in Nat \ {0} /\ NPeers \in Nat \ {0} /\ k = 2 * NPeers /\ k >= 2
  BY ConstantTypes DEF CycleSize
<1> HIDE DEF k
<1>2. q \in Nat /\ k * q <= n /\ n < k * q + k
  BY <1>1, DivFacts
<1>3. s = k * q
  BY <1>1, <1>2 DEF CycleStart, k
<1> HIDE DEF q, s
<1>4. s \in Nat /\ s = 2 * half /\ half \in Nat /\ s <= n /\ n < s + k
  BY <1>1, <1>2, <1>3
<1> HIDE DEF half
<1>5. n + m <= s + k
  <2>1. CASE m = 1
    BY <1>1, <1>4, <2>1
  <2>2. CASE m = 2
    <3>1. PICK h \in Nat : n = 2 * h
      BY <2>2
    <3>2. h < half + NPeers
      BY <1>1, <1>4, <3>1
    <3> QED BY <1>1, <1>4, <2>2, <3>1, <3>2
  <2> QED BY <2>1, <2>2
<1>6. CASE n + m < s + k
  <2>1. (n + m) \div k = q
    BY <1>1, <1>2, <1>3, <1>4, <1>6, DivIs
  <2>2. CycleStart(n + m) = s
    BY <1>1, <1>2, <1>3, <2>1 DEF CycleStart, k
  <2> QED BY <1>4, <1>6, <2>1, <2>2 DEF k, q, s
<1>7. CASE n + m = s + k
  <2>1. q + 1 \in Int /\ k * (q + 1) = s + k
    BY <1>1, <1>2, <1>3
  <2>2. (n + m) \div k = q + 1
    BY <1>1, <1>4, <1>7, <2>1, DivIs
  <2>3. CycleStart(n + m) = n + m
    BY <1>1, <1>2, <1>7, <2>1, <2>2 DEF CycleStart, k
  <2> QED BY <1>4, <1>7, <2>2, <2>3 DEF k, q, s
<1> QED BY <1>1, <1>4, <1>5, <1>6, <1>7

(* The cycle the cursor is in counts as active exactly when one of its slots *)
(* was posted in, or when people contributed in it (T is their mark).        *)
Posted(s, n) == \E k \in s..(n - 1) : turn[k] = "posted"
CycleOK(c, T) ==
  /\ T \in Nat /\ T <= c.index + 1
  /\ c.active <=> (Posted(CycleStart(c.index), c.index) \/ T > CycleStart(c.index))

\* What QuietAfterSilentCycle says of a transaction that makes c of b.
Judged(b, c, T) ==
  LET s == CycleStart(c.index)
  IN  /\ b.index < s =>
           (c.quiet <=> (Dormancy /\ ~Posted(s - CycleSize, s) /\ T <= s - CycleSize))
      /\ ~(b.index < s) => (c.quiet => b.quiet)

LEMMA AdvancedCycle ==
  ASSUME NEW c \in Sessions, NEW m \in 1..2, NEW made \in BOOLEAN
  PROVE  LET d == Advanced(c, m, made)
             wraps == (c.index + m) \div CycleSize > c.index \div CycleSize
         IN  /\ d.active <=> (~wraps /\ (c.active \/ made))
             /\ d.quiet <=> (wraps /\ ~(c.active \/ made) /\ Dormancy)
BY DEF Advanced, CycleActive, Sessions

\* One move of the cursor, over slots of which made tells whether one was posted in.
LEMMA MoveJudged ==
  ASSUME NEW b, b.index \in Nat, NEW c \in Sessions, NEW T,
         NEW m \in 1..2, m = 2 => c.index % 2 = 0,
         NEW made \in BOOLEAN, made <=> Posted(c.index, c.index + m),
         CycleOK(c, T), Judged(b, c, T), b.index <= c.index,
         c.index + m <= b.index + CycleSize,
         b.index < CycleStart(c.index) => ~c.quiet
  PROVE  CycleOK(Advanced(c, m, made), T) /\ Judged(b, Advanced(c, m, made), T)
<1> DEFINE d == Advanced(c, m, made)
           n == c.index
           x == n + m
           s == CycleStart(n)
           q == n \div CycleSize
           y == x \div CycleSize
<1>1. n \in Nat /\ CycleSize \in Nat /\ T \in Nat /\ T <= n + 1 /\ x \in Nat
  BY ConstantTypes DEF Sessions, CycleOK
<1>2. /\ d.index = x
      /\ d.active <=> (~(y > q) /\ (c.active \/ made))
      /\ d.quiet <=> (y > q /\ ~(c.active \/ made) /\ Dormancy)
  BY AdvancedShape, AdvancedCycle
<1>3. /\ s \in Nat /\ s <= n /\ n < s + CycleSize /\ q \in Nat
      /\ \/ x < s + CycleSize /\ CycleStart(x) = s /\ y = q
         \/ x = s + CycleSize /\ CycleStart(x) = x /\ y = q + 1
  <2>1. q \in Nat
    <3>1. CycleSize \in Nat \ {0}
      BY ConstantTypes
    <3> QED BY <1>1, <3>1, DivFacts
  <2>2. /\ s \in Nat /\ s <= n /\ n < s + CycleSize
        /\ \/ x < s + CycleSize /\ CycleStart(x) = s /\ y = q
           \/ x = s + CycleSize /\ CycleStart(x) = x /\ y = q + 1
    BY <1>1, CycleMove
  <2> QED BY <2>1, <2>2
<1>4. Posted(s, x) <=> Posted(s, n) \/ made
  <2>1. \A k : k \in s..(x - 1) <=> k \in s..(n - 1) \/ k \in n..(x - 1)
    <3> HIDE DEF s
    <3> QED BY <1>1, <1>3
  <2> QED BY <2>1 DEF Posted
<1>5. c.active <=> Posted(s, n) \/ T > s
  BY DEF CycleOK
<1> HIDE DEF d, q, y, s
<1>6. CASE x < s + CycleSize /\ CycleStart(x) = s /\ y = q
  <2>1. ~(y > q)
    BY <1>3, <1>6
  <2>2. (d.active <=> c.active \/ made) /\ ~d.quiet
    BY <1>2, <2>1
  <2>3. T <= x + 1
    BY <1>1
  <2> HIDE DEF x
  <2>4. d.active <=> Posted(s, x) \/ T > s
    BY <1>4, <1>5, <2>2
  <2>5. CycleOK(d, T)
    BY <1>1, <1>2, <1>6, <2>3, <2>4 DEF CycleOK
  <2>6. Judged(b, d, T)
    <3>1. b.index < s => ~(Dormancy /\ ~Posted(s - CycleSize, s) /\ T <= s - CycleSize)
      BY DEF Judged, s
    <3> QED BY <1>2, <1>6, <2>2, <3>1 DEF Judged
  <2> QED BY <2>5, <2>6 DEF d
<1>7. CASE x = s + CycleSize /\ CycleStart(x) = x /\ y = q + 1
  <2>1. y > q
    BY <1>3, <1>7
  <2>2. ~d.active /\ (d.quiet <=> Dormancy /\ ~(c.active \/ made))
    BY <1>2, <2>1
  <2>3. T <= x + 1 /\ ~(T > x) /\ ~Posted(x, x)
    BY <1>1 DEF Posted
  <2>4. b.index < x /\ x - CycleSize = s
    BY <1>1, <1>3, <1>7
  <2>5. T <= s <=> ~(T > s)
    BY <1>1, <1>3
  <2> HIDE DEF x
  <2>6. CycleOK(d, T)
    BY <1>1, <1>2, <1>7, <2>2, <2>3 DEF CycleOK
  <2>7. d.quiet <=> (Dormancy /\ ~Posted(s, x) /\ T <= s)
    BY <1>4, <1>5, <2>2, <2>5
  <2>8. Judged(b, d, T)
    BY <1>2, <1>7, <2>4, <2>7 DEF Judged
  <2> QED BY <2>6, <2>8 DEF d
<1> QED BY <1>3, <1>6, <1>7

\* A stimulus that is there stays; a slot without one has had no turn.
RowsStay(b, c) == \A n \in Slots : c.stim[n].state = "none" => b.stim[n].state = "none"
NoTurnYet(c)   == \A n \in Slots : c.stim[n].state = "none" => turn[n] = "none"

\* The loop does not come beyond slot g, whose peer it can invite.
StopsAt(g, c) ==
  c.index <= g /\ (c.index = g => c.stim[g].state = "none" \/ Waiting(c))

LEMMA RoundJudged ==
  ASSUME NEW b, b.index \in Nat, NoTurnYet(b), NEW g \in Slots, g % 2 = 0,
         PeerOf(g) \in Available, g <= b.index + CycleSize,
         NEW c, Sound(c), b.index <= c.index, RowsStay(b, c), StopsAt(g, c),
         NEW T, CycleOK(c, T), Judged(b, c, T)
  PROVE  LET d == Round(c)
         IN  CycleOK(d, T) /\ Judged(b, d, T) /\ RowsStay(b, d) /\ StopsAt(g, d)
<1> DEFINE d == Round(c)
           n == c.index
<1> SUFFICES CycleOK(d, T) /\ Judged(b, d, T) /\ RowsStay(b, d) /\ StopsAt(g, d)
  OBVIOUS
<1>1. c \in Sessions /\ n \in Nat /\ g \in Nat /\ CycleSize \in Nat /\ n <= g
  BY ConstantTypes DEF Sound, Sessions, StopsAt
<1>2. ASSUME d.index = n, d.active = c.active, d.quiet = c.quiet
      PROVE  CycleOK(d, T) /\ Judged(b, d, T)
  <2> HIDE DEF d, n
  <2> QED BY <1>2 DEF CycleOK, Judged, n
\* A move of the cursor before slot g.
<1>3. ASSUME ~c.quiet, NEW m \in 1..2, m = 2 => n % 2 = 0, n + m <= g,
             NEW made \in BOOLEAN, made <=> Posted(n, n + m), d = Advanced(c, m, made)
      PROVE  CycleOK(d, T) /\ Judged(b, d, T) /\ RowsStay(b, d) /\ StopsAt(g, d)
  <2>1. CycleOK(d, T) /\ Judged(b, d, T)
    <3>1. n + m <= b.index + CycleSize
      BY <1>1, <1>3
    <3> HIDE DEF d
    <3> QED BY <1>1, <1>3, <3>1, MoveJudged
  <2>2. d.index = n + m /\ d.stim = c.stim
    BY <1>1, <1>3, AdvancedShape
  <2> HIDE DEF d
  <2>3. c.stim[g].state = "none"
    <3>1. g > n
      <4> HIDE DEF d, n
      <4> QED BY <1>1, <1>3
    <3> QED BY <3>1 DEF Sound, AheadIsNew
  <2> QED BY <1>3, <2>1, <2>2, <2>3 DEF RowsStay, StopsAt
<1>4. CASE c.quiet \/ c.run # "live" \/ Waiting(c)
  BY <1>4 DEF Round
<1>5. CASE ~(c.quiet \/ c.run # "live" \/ Waiting(c)) /\ Prior(c)
  <2> DEFINE made == turn[n] = "posted"
  <2>1. d = Advanced(c, 1, made)
    BY <1>5 DEF Round, SlotCompleted
  <2>2. made \in BOOLEAN /\ (made <=> Posted(n, n + 1))
    <3>1. \A k : k \in n..(n + 1 - 1) <=> k = n
      BY <1>1
    <3> QED BY <3>1 DEF Posted
  <2>3. n + 1 <= g
    <3>1. n # g
      BY <1>5 DEF Prior, StopsAt
    <3> QED BY <1>1, <3>1
  <2>4. 1 \in 1..2 /\ ~(1 = 2)
    OBVIOUS
  <2> HIDE DEF made, d
  <2> QED BY <1>3, <1>5, <2>1, <2>2, <2>3, <2>4
<1>6. CASE /\ ~(c.quiet \/ c.run # "live" \/ Waiting(c)) /\ ~Prior(c)
           /\ PeerOf(n) \notin Available
  <2> DEFINE m == IF n % 2 = 1 THEN 1 ELSE 2
  <2>1. d = Advanced(c, m, FALSE)
    BY <1>6 DEF Round, Skipped
  <2>2. m \in 1..2 /\ (m = 2 => n % 2 = 0)
    BY <1>1
  <2>3. n + m <= g
    <3>1. n # g
      BY <1>6
    <3>2. CASE n % 2 = 1
      BY <1>1, <3>1, <3>2
    <3>3. CASE n % 2 = 0
      <4>1. n + 1 # g
        BY <1>1, <3>3
      <4> QED BY <1>1, <3>1, <3>3, <4>1
    <3> QED BY <1>1, <3>2, <3>3
  <2> HIDE DEF m, d
  <2>4. ~Posted(n, n + m)
    <3> SUFFICES ASSUME Posted(n, n + m) PROVE FALSE
      OBVIOUS
    <3> PICK k \in n..(n + m - 1) : turn[k] = "posted"
      BY <1>1, <2>2 DEF Posted
    <3>a. k \in Nat /\ k <= g /\ (k = n \/ k > n)
      BY <1>1, <2>2, <2>3
    <3>1. k \in Slots
      BY <1>1, <3>a, ConstantTypes DEF Slots
    <3>2. c.stim[k].state = "none"
      <4>1. CASE k = n
        BY <1>6, <4>1 DEF Prior
      <4>2. CASE k > n
        BY <3>1, <4>2 DEF Sound, AheadIsNew
      <4> QED BY <3>a, <4>1, <4>2
    <3> QED BY <3>1, <3>2 DEF RowsStay, NoTurnYet
  <2> QED BY <1>3, <1>6, <2>1, <2>2, <2>3, <2>4
<1>7. CASE /\ ~(c.quiet \/ c.run # "live" \/ Waiting(c)) /\ ~Prior(c)
           /\ PeerOf(n) \in Available /\ OpenThreads(c) = {}
  <2>1. d = Ends(c, "completed")
    BY <1>7 DEF Round
  <2>2. /\ d.index = n /\ d.active = c.active /\ d.quiet = c.quiet
        /\ \A i \in Items : d.stim[i] = Cancel(c.stim[i])
    BY <1>1, <2>1 DEF Ends, Sessions
  <2>3. \A i \in Items : d.stim[i].state = "none" <=> c.stim[i].state = "none"
    BY <1>1, <2>2, CancelRow DEF Sessions
  <2> HIDE DEF d
  <2> QED BY <1>2, <1>7, <2>2, <2>3, ConstantTypes DEF RowsStay, StopsAt
<1>8. CASE /\ ~(c.quiet \/ c.run # "live" \/ Waiting(c)) /\ ~Prior(c)
           /\ PeerOf(n) \in Available /\ OpenThreads(c) # {}
  <2>1. d = Queued(c)
    BY <1>8 DEF Round
  <2>a. n \in Items /\ c.stim \in [Items -> Rows]
    <3>1. n \in Slots
      BY <1>1, ConstantTypes DEF Slots
    <3> QED BY <1>1, <3>1 DEF Sessions, Items
  <2>2. /\ d.index = n /\ d.active = c.active /\ d.quiet = c.quiet
        /\ \A i \in Items : i # n => d.stim[i] = c.stim[i]
        /\ d.stim[n].state = "pending"
    BY <1>1, <2>1, <2>a DEF Queued, Sessions
  <2> HIDE DEF d
  <2>3. Waiting(d)
    BY <2>a, <2>2 DEF Waiting, Open
  <2> QED BY <1>1, <1>2, <2>2, <2>3, ConstantTypes DEF RowsStay, StopsAt
<1> HIDE DEF d
<1> QED BY <1>4, <1>5, <1>6, <1>7, <1>8

LEMMA SameJudged ==
  ASSUME NEW c \in Sessions, NEW T
  PROVE  Judged(c, c, T) /\ RowsStay(c, c)
<1> DEFINE k == CycleSize
<1>1. c.index \in Nat /\ c.index \div k \in Nat /\ k * (c.index \div k) <= c.index
  <2>1. k \in Nat \ {0} /\ c.index \in Nat
    BY ConstantTypes DEF Sessions
  <2> QED BY <2>1, DivFacts
<1>2. CycleStart(c.index) = k * (c.index \div k) /\ CycleStart(c.index) \in Nat
  BY <1>1, ConstantTypes DEF CycleStart
<1>3. ~(c.index < CycleStart(c.index))
  <2> HIDE DEF k
  <2> QED BY <1>1, <1>2
<1> QED BY <1>3 DEF Judged, RowsStay

\* Ending the run leaves the cursor and its cycle as they are.
LEMMA EndsJudged ==
  ASSUME NEW c \in Sessions, NEW T, CycleOK(c, T), NEW s
  PROVE  LET e == Ends(c, s)
         IN  /\ CycleOK(e, T) /\ Judged(c, e, T) /\ RowsStay(c, e)
             /\ e.index = c.index /\ e.run = s
<1> DEFINE e == Ends(c, s)
<1>1. /\ e.index = c.index /\ e.active = c.active /\ e.quiet = c.quiet /\ e.run = s
      /\ \A i \in Items : e.stim[i] = Cancel(c.stim[i])
  BY DEF Ends, Sessions
<1>2. \A i \in Items : e.stim[i].state = "none" <=> c.stim[i].state = "none"
  BY <1>1, CancelRow DEF Sessions
<1> HIDE DEF e
<1>3. CycleOK(e, T) /\ Judged(c, e, T) /\ RowsStay(c, e)
  BY <1>1, <1>2, SameJudged, ConstantTypes DEF RowsStay, CycleOK, Judged
<1> QED BY <1>1, <1>3 DEF e

\* ensure_slot as a whole, from a cursor within the bound.
LEMMA EnsuredJudged ==
  ASSUME NEW c, Sound(c), place \in Threads, c.thread[place] # "absent",
         NoTurnYet(c), c.index < MaxIndex, NEW T, CycleOK(c, T), NEW e \in Ensured(c)
  PROVE  /\ CycleOK(e, T) /\ Judged(c, e, T) /\ RowsStay(c, e)
         /\ e.index < MaxIndex + CycleSize
<1>1. c \in Sessions /\ c.index \in Nat
  BY DEF Sound, Sessions
<1>2. Judged(c, c, T) /\ RowsStay(c, c)
  BY <1>1, SameJudged
<1>3. c.index < MaxIndex + CycleSize
  BY <1>1, ConstantTypes
<1>4. CASE c.run # "live" \/ c.quiet
  BY <1>2, <1>3, <1>4 DEF Ensured
<1>5. CASE ~(c.run # "live" \/ c.quiet) /\ (Ada \notin Available \/ Available = {Ada})
  <2>1. e = Ends(c, "failed")
    BY <1>5 DEF Ensured
  <2> QED BY <1>1, <1>3, <2>1, EndsJudged
<1>6. CASE ~(c.run # "live" \/ c.quiet) /\ ~(Ada \notin Available \/ Available = {Ada})
  <2>1. PICK p \in Available : p \in 1..NPeers
    <3>1. PICK p \in Available : p # Ada
      BY <1>6
    <3> QED BY <3>1, ConstantTypes DEF Available, Participants, Ada
  <2>2. PICK g \in (c.index + 1)..(c.index + CycleSize) : g % 2 = 0 /\ PeerOf(g) = p
    BY <1>1, <2>1, SlotOfPeer
  <2>3. /\ g \in Slots /\ c.index < g /\ g <= c.index + CycleSize
        /\ g < MaxIndex + CycleSize /\ PeerOf(g) \in Available
    BY <1>1, <2>1, <2>2, ConstantTypes DEF Slots
  <2> DEFINE S == {d \in Sessions : /\ Sound(d) /\ Follows(c, d)
                                    /\ CycleOK(d, T) /\ Judged(c, d, T)
                                    /\ RowsStay(c, d) /\ StopsAt(g, d)}
  <2>4. c \in S
    <3>1. StopsAt(g, c)
      BY <1>1, <2>3 DEF StopsAt
    <3> QED BY <1>1, <1>2, <3>1, SameSession
  <2>5. \A d \in S : Round(d) \in S
    <3> SUFFICES ASSUME NEW d \in S PROVE Round(d) \in S
      OBVIOUS
    <3>1. c.index <= d.index
      BY DEF Follows, PassesNobody
    <3>2. Sound(Round(d)) /\ Follows(c, Round(d))
      BY <1>1, RoundKeeps
    <3>3. /\ CycleOK(Round(d), T) /\ Judged(c, Round(d), T)
          /\ RowsStay(c, Round(d)) /\ StopsAt(g, Round(d))
      BY <1>1, <2>2, <2>3, <3>1, RoundJudged
    <3> QED BY <3>2, <3>3 DEF Sound
  <2>6. \A d \in S : CycleOK(d, T) /\ Judged(c, d, T) /\ RowsStay(c, d)
                     /\ d.index < MaxIndex + CycleSize
    <3> SUFFICES ASSUME NEW d \in S PROVE d.index < MaxIndex + CycleSize
      OBVIOUS
    <3>1. d.index \in Nat /\ d.index <= g
      BY DEF Sessions, StopsAt
    <3> QED BY <2>3, <3>1, ConstantTypes DEF Slots
  <2> HIDE DEF S
  <2>7. Ensured(c) \subseteq S
    BY <1>6, <2>4, <2>5, LoopStays DEF Ensured
  <2> QED BY <2>6, <2>7
<1> QED BY <1>4, <1>5, <1>6

LEMMA PreparedJudged ==
  ASSUME NEW c, Sound(c), place \in Threads, c.thread[place] # "absent",
         NoTurnYet(c), c.index < MaxIndex, NEW T, CycleOK(c, T), NEW e \in Prepared(c)
  PROVE  /\ CycleOK(e, T) /\ Judged(c, e, T) /\ RowsStay(c, e)
         /\ e.index < MaxIndex + CycleSize
<1>1. CASE e \in Ensured(c)
  BY <1>1, EnsuredJudged
<1>2. ASSUME NEW s, e = Ends(c, s)
      PROVE  /\ CycleOK(e, T) /\ Judged(c, e, T) /\ RowsStay(c, e)
             /\ e.index < MaxIndex + CycleSize
  <2>1. c \in Sessions /\ c.index \in Nat
    BY DEF Sound, Sessions
  <2>2. CycleOK(e, T) /\ Judged(c, e, T) /\ RowsStay(c, e) /\ e.index = c.index
    BY <1>2, <2>1, EndsJudged
  <2> QED BY <2>1, <2>2, ConstantTypes
<1> QED BY <1>1, <1>2 DEF Prepared

-----------------------------------------------------------------------------
(* The invariant behind QuietAfterSilentCycle: what is known of the cycle    *)
(* before its end.  The turns before the cursor are over, because only the   *)
(* slot at the cursor is delivered, and only while the run is live.          *)

InBounds ==
  /\ index <= MaxIndex + CycleSize
  /\ (run = "live" /\ \E n \in Slots : stim[n].state \in Open)
       => index < MaxIndex + CycleSize

RotationInv ==
  /\ CadenceInv /\ (Working => run = "live")
  /\ NoTurnYet(Session) /\ InBounds /\ CycleOK(Session, touched)

\* What QuietAfterSilentCycle says of a step.
SilenceNoticed ==
  LET start == (index' \div CycleSize) * CycleSize
      ended == (start - CycleSize)..(start - 1)
  IN  IF index < start
      THEN quiet' = (/\ Dormancy
                     /\ \A n \in ended : turn[n] # "posted"
                     /\ touched' <= start - CycleSize)
      ELSE quiet' => quiet

LEMMA JudgedStep ==
  ASSUME RotationInv, NEW c \in Sessions, Judged(Session, c, touched'),
         index' = c.index, quiet' = c.quiet
  PROVE  SilenceNoticed
<1> DEFINE start == CycleStart(c.index)
           silent == /\ Dormancy
                     /\ \A n \in (start - CycleSize)..(start - 1) : turn[n] # "posted"
                     /\ touched' <= start - CycleSize
<1>1. Session.index = index /\ Session.quiet = quiet /\ c.quiet \in BOOLEAN
  BY DEF Session, Sessions
<1>2. index < start => (c.quiet <=> silent)
  BY <1>1 DEF Judged, Posted
<1>3. ~(index < start) => (c.quiet => quiet)
  BY <1>1 DEF Judged
<1>4. silent \in BOOLEAN
  OBVIOUS
<1> HIDE DEF silent
<1>5. index < start => c.quiet = silent
  BY <1>1, <1>2, <1>4
<1>6. SilenceNoticed <=> IF index < start THEN c.quiet = silent ELSE c.quiet => quiet
  BY DEF SilenceNoticed, CycleStart, silent
<1> QED BY <1>3, <1>5, <1>6

\* The turns before the cursor, and so the cycle, are the same after a step.
LEMMA CycleKept ==
  ASSUME NEW c \in Sessions, Session' = c, c.index <= MaxIndex + CycleSize + 1,
         CycleOK(c, touched'),
         \A n \in Slots : n < c.index => (turn'[n] = "posted" <=> turn[n] = "posted")
  PROVE  CycleOK(Session, touched)'
<1> DEFINE s == CycleStart(c.index)
           posted == \E k \in s..(c.index - 1) : turn[k] = "posted"
<1>1. c.index \in Nat /\ s \in Nat
  <2>1. c.index \in Nat /\ CycleSize \in Nat \ {0}
    BY ConstantTypes DEF Sessions
  <2>2. c.index \div CycleSize \in Nat
    BY <2>1, DivFacts
  <2> QED BY <2>1, <2>2 DEF CycleStart
<1>2. /\ touched' \in Nat /\ touched' <= c.index + 1
      /\ c.active <=> (posted \/ touched' > s)
  BY DEF CycleOK, Posted
<1> HIDE DEF s
<1>3. \A k \in s..(c.index - 1) : turn'[k] = "posted" <=> turn[k] = "posted"
  <2> SUFFICES ASSUME NEW k \in s..(c.index - 1) PROVE k \in Slots /\ k < c.index
    OBVIOUS
  <2> QED BY <1>1, ConstantTypes DEF Slots
<1>4. posted <=> \E k \in s..(c.index - 1) : turn'[k] = "posted"
  BY <1>3
<1> QED BY <1>2, <1>4 DEF CycleOK, Posted, s

\* Who works on a slot works on the slot at the cursor.
LEMMA WorksAtCursor ==
  ASSUME RotationInv, Working
  PROVE  /\ task.item \in Items /\ stim[task.item].state = "leased" /\ run = "live"
         /\ task.item \in Slots => task.item = index
BY DEF RotationInv, CadenceInv, HoldsLease, RestOK, Sound, Single, Session, Open

(* A step that leaves the cursor alone: no stimulus goes away, no slot is    *)
(* queued, and of the slots only the one at the cursor may get an answer.    *)
LEMMA RotationStays ==
  ASSUME RotationInv, CadenceInv', UNCHANGED <<config, touched>>,
         \A n \in Slots : stim'[n].state = "none" => stim[n].state = "none",
         \A n \in Slots : stim'[n].state \in Open => stim[n].state \in Open,
         \A n \in Slots : \/ turn'[n] = turn[n]
                          \/ /\ stim[n].state # "none"
                             /\ n = index \/ (turn[n] # "posted" /\ turn'[n] # "posted"),
         Working' => run = "live"
  PROVE  RotationInv' /\ SilenceNoticed
<1>1. Session' \in Sessions /\ Session \in Sessions /\ index \in Nat
  BY SessionTypes DEF RotationInv, CadenceInv, Sound
<1>2. /\ Session'.index = index /\ Session'.active = active /\ Session'.quiet = quiet
      /\ Session'.stim = stim'
      /\ Session.index = index /\ Session.active = active /\ Session.quiet = quiet
      /\ Session.stim = stim
  BY DEF Session, config
<1>3. CycleOK(Session', touched')
  BY <1>2 DEF RotationInv, CycleOK
<1>4. index <= MaxIndex + CycleSize /\ index <= MaxIndex + CycleSize + 1
  BY <1>1, ConstantTypes DEF RotationInv, InBounds
<1>5. \A n \in Slots : n < index => (turn'[n] = "posted" <=> turn[n] = "posted")
  <2> SUFFICES ASSUME NEW n \in Slots, n < index
               PROVE  turn'[n] = "posted" <=> turn[n] = "posted"
    OBVIOUS
  <2>1. n # index
    BY <1>1, ConstantTypes
  <2> QED BY <2>1
<1>6. CycleOK(Session, touched)'
  BY <1>1, <1>2, <1>3, <1>4, <1>5, CycleKept
<1>7. NoTurnYet(Session)'
  BY <1>2 DEF RotationInv, NoTurnYet
<1>8. InBounds'
  BY <1>4 DEF RotationInv, InBounds, config
<1>9. (Working => run = "live")'
  BY DEF config
<1>10. SilenceNoticed
  <2>1. Judged(Session, Session', touched')
    BY <1>1, <1>2, SameJudged DEF Judged
  <2> QED BY <1>1, <1>2, <2>1, JudgedStep DEF config
<1> QED BY <1>6, <1>7, <1>8, <1>9, <1>10 DEF RotationInv

\* A step that installs the session c.
LEMMA RotationInstalled ==
  ASSUME RotationInv, CadenceInv', NEW c \in Sessions, Install(c),
         CycleOK(c, touched'), Judged(Session, c, touched'), RowsStay(Session, c),
         c.index <= MaxIndex + CycleSize,
         (c.run = "live" /\ \E n \in Slots : c.stim[n].state \in Open)
           => c.index < MaxIndex + CycleSize,
         Working' => c.run = "live"
  PROVE  RotationInv' /\ SilenceNoticed
<1>1. Session' = c
  BY Installed
<1>2. /\ run' = c.run /\ index' = c.index /\ quiet' = c.quiet /\ stim' = c.stim
      /\ Session.stim = stim
  BY DEF Install, Session
<1>3. \A n \in Slots : turn'[n] = turn[n] \/ (turn[n] = "open" /\ turn'[n] = "silent")
  BY ConstantTypes DEF RotationInv, CadenceInv, RestOK, Install
<1>4. CycleOK(Session, touched)'
  <2>1. c.index <= MaxIndex + CycleSize + 1
    BY ConstantTypes DEF Sessions
  <2> QED BY <1>1, <1>3, <2>1, CycleKept
<1>5. NoTurnYet(Session)'
  <2>1. \A n \in Slots : c.stim[n].state = "none" => turn[n] = "none"
    BY DEF RotationInv, NoTurnYet, RowsStay
  <2>2. Session'.stim = c.stim
    BY <1>1
  <2> QED BY <1>3, <2>1, <2>2 DEF NoTurnYet
<1>6. InBounds'
  BY <1>2 DEF InBounds
<1>7. (Working => run = "live")'
  BY <1>2
<1>8. SilenceNoticed
  BY <1>2, JudgedStep
<1> QED BY <1>4, <1>5, <1>6, <1>7, <1>8 DEF RotationInv

LEMMA ClaimRotates ==
  ASSUME RotationInv, Claim
  PROVE  RotationInv' /\ SilenceNoticed
<1>1. PICK c \in Prepared(Session) :
        \/ /\ c.run # "live" \/ First(c.stim) = {}
           /\ Install(c) /\ UNCHANGED task
        \/ /\ c.run = "live"
           /\ \E i \in First(c.stim) :
                /\ Install(Leased(c, i))
                /\ task' = [pc |-> "prepare", item |-> i]
  BY DEF Claim
<1>2. /\ Sound(Session) /\ place \in Threads /\ Session.thread[place] # "absent"
      /\ Session.index = index /\ index < MaxIndex /\ task.pc = "idle"
      /\ touched' = touched /\ NoTurnYet(Session) /\ CycleOK(Session, touched)
  BY DEF Claim, RotationInv, CadenceInv, RestOK, Session
<1>3. /\ Sound(c) /\ CycleOK(c, touched) /\ Judged(Session, c, touched)
      /\ RowsStay(Session, c) /\ c.index < MaxIndex + CycleSize
  BY <1>2, PreparedKeeps, PreparedJudged
<1>4. CadenceInv'
  BY ClaimKeeps DEF RotationInv
<1>5. c.index <= MaxIndex + CycleSize /\ c \in Sessions
  BY <1>3, ConstantTypes DEF Sound, Sessions
<1>6. ASSUME Install(c), UNCHANGED task
      PROVE  RotationInv' /\ SilenceNoticed
  <2>1. ~Working'
    BY <1>2, <1>6 DEF Working, Answering
  <2> QED BY <1>2, <1>3, <1>4, <1>5, <1>6, <2>1, RotationInstalled
<1>7. ASSUME c.run = "live", NEW i \in First(c.stim), Install(Leased(c, i))
      PROVE  RotationInv' /\ SilenceNoticed
  <2> DEFINE d == Leased(c, i)
  <2>1. /\ Sound(d) /\ d.index = c.index /\ d.run = "live"
        /\ \A n \in Items : d.stim[n].state = "none" => c.stim[n].state = "none"
    BY <1>3, <1>7, LeaseTaken
  <2>2. d.active = c.active /\ d.quiet = c.quiet
    BY <1>5 DEF Leased, Sessions
  <2>3. Install(d) /\ d \in Sessions
    BY <1>7, <2>1 DEF Sound
  <2> HIDE DEF d
  <2>4. CycleOK(d, touched) /\ Judged(Session, d, touched)
    BY <1>3, <2>1, <2>2 DEF CycleOK, Judged
  <2>5. RowsStay(Session, d)
    BY <1>3, <2>1, ConstantTypes DEF RowsStay
  <2> QED BY <1>2, <1>3, <1>4, <1>5, <2>1, <2>3, <2>4, <2>5, RotationInstalled
<1> QED BY <1>1, <1>6, <1>7

LEMMA InputRotates ==
  ASSUME RotationInv, Input
  PROVE  RotationInv' /\ SilenceNoticed
<1>1. PICK t \in Threads, written \in BOOLEAN :
        /\ thread[t] \in {"active", "dormant"}
        /\ \E c \in Ensured([Session EXCEPT !.thread[t] = "active",
                                !.quiet = FALSE, !.active = TRUE,
                                !.recent = IF written THEN Front(t) ELSE @]) :
             Install(c)
  BY DEF Input
<1> DEFINE b == [Session EXCEPT !.thread[t] = "active", !.quiet = FALSE, !.active = TRUE,
                                !.recent = IF written THEN Front(t) ELSE @]
<1>2. PICK c \in Ensured(b) : Install(c)
  BY <1>1
<1>3. /\ Sound(b) /\ place \in Threads /\ b.thread[place] # "absent"
      /\ b.index = index /\ b.run = run /\ b.stim = stim /\ b.active /\ ~b.quiet
  BY <1>1, InputSession DEF RotationInv
<1> HIDE DEF b
<1>4. /\ touched' = index + 1 /\ index < MaxIndex /\ UNCHANGED task /\ LoopFree
      /\ index \in Nat /\ Session.index = index /\ Session.stim = stim
  BY SessionTypes DEF Input, Request, RotationInv, Session
<1>5. NoTurnYet(b)
  BY <1>3 DEF RotationInv, NoTurnYet, Session
<1>6. CycleOK(b, touched')
  <2>1. CycleStart(index) \in Nat /\ CycleStart(index) <= index
    <3>1. 1 \in 1..2 /\ ~(1 = 2)
      OBVIOUS
    <3> QED BY <1>4, <3>1, CycleMove
  <2>2. touched' > CycleStart(index) /\ touched' \in Nat /\ touched' <= index + 1
    BY <1>4, <2>1
  <2> QED BY <1>3, <2>2 DEF CycleOK
<1>7. /\ Sound(c) /\ CycleOK(c, touched') /\ Judged(b, c, touched')
      /\ RowsStay(b, c) /\ c.index < MaxIndex + CycleSize
  BY <1>2, <1>3, <1>4, <1>5, <1>6, EnsuredKeeps, EnsuredJudged
<1>8. Judged(Session, c, touched') /\ RowsStay(Session, c)
  BY <1>3, <1>4, <1>7 DEF Judged, RowsStay
<1>9. CadenceInv'
  BY InputKeeps DEF RotationInv
<1>10. Working' => c.run = "live"
  <2> SUFFICES ASSUME Working' PROVE c.run = "live"
    OBVIOUS
  <2>1. task.pc = "await" /\ task.item \in Items /\ turn'[task.item] = "open"
    BY <1>4 DEF Working, Answering, LoopFree, RotationInv, CadenceInv, RestOK
  <2> QED BY <1>2, <1>7, <2>1, InstalledTurns DEF RotationInv
<1>11. c.index <= MaxIndex + CycleSize /\ c \in Sessions
  BY <1>7, ConstantTypes DEF Sound, Sessions
<1> QED BY <1>2, <1>7, <1>8, <1>9, <1>10, <1>11, RotationInstalled

\* Whoever ends the run, and the step that finds no reason to.
LEMMA EndingRotates ==
  ASSUME RotationInv, CadenceInv', NEW c,
         c = Session \/ \E s \in RunStates \ {"live"} : c = Ends(Session, s),
         Install(c), touched' = touched,
         task'.pc \notin {"prepare", "turn"}, c = Session => task'.pc = "idle"
  PROVE  RotationInv' /\ SilenceNoticed
<1>1. /\ Session \in Sessions /\ Sound(Session) /\ CycleOK(Session, touched)
      /\ Session.index = index /\ Session.run = run /\ Session.stim = stim
      /\ index \in Nat
  BY SessionTypes DEF RotationInv, CadenceInv, Session
<1>2. CASE c = Session
  <2>1. ~Working'
    BY <1>2 DEF Working, Answering
  <2>2. Judged(Session, c, touched') /\ RowsStay(Session, c)
    BY <1>1, <1>2, SameJudged
  <2> QED BY <1>1, <1>2, <2>1, <2>2, RotationInstalled DEF RotationInv, InBounds
<1>3. ASSUME NEW s \in RunStates \ {"live"}, c = Ends(Session, s)
      PROVE  RotationInv' /\ SilenceNoticed
  <2>1. /\ CycleOK(c, touched') /\ Judged(Session, c, touched')
        /\ RowsStay(Session, c) /\ c.index = index /\ c.run = s
    BY <1>1, <1>3, EndsJudged
  <2>2. Sound(c) /\ c \in Sessions
    BY <1>1, <1>3, EndsKeeps, SameSession DEF Sound
  <2>3. ~Working'
    <3>1. \A i \in Items : turn'[i] # "open"
      BY <2>1, <2>2, InstalledTurns DEF RotationInv
    <3>2. task'.item \in Items
      BY DEF CadenceInv, RestOK
    <3> QED BY <3>1, <3>2 DEF Working, Answering
  <2> QED BY <2>1, <2>2, <2>3, RotationInstalled DEF RotationInv, InBounds
<1> QED BY <1>2, <1>3

LEMMA CompleteRotates ==
  ASSUME RotationInv, Complete
  PROVE  RotationInv' /\ SilenceNoticed
<1> DEFINE i == task.item
           c == [Session EXCEPT !.stim[i] = Closed("completed")]
           d == SlotCompleted(c, i)
<1>1. /\ task'.pc = "settle" /\ touched' = touched /\ i \in Items /\ index \in Nat
      /\ CycleOK(Session, touched) /\ NoTurnYet(Session) /\ Session \in Sessions
  BY SessionTypes DEF Complete, Goto, RotationInv, CadenceInv, RestOK
<1>2. CadenceInv' /\ ~Working'
  BY <1>1, CompleteKeeps DEF RotationInv, Working, Answering
<1>3. CASE stim[i].state # "leased"
  <2>1. UNCHANGED <<config, stim, turn>>
    BY <1>3 DEF Complete
  <2> QED BY <1>1, <1>2, <2>1, RotationStays
<1>4. CASE stim[i].state = "leased"
  <2>1. /\ Install(d) /\ Sound(c) /\ Sound(d)
        /\ c.run = run /\ c.index = index
        /\ \A n \in Items : c.stim[n] = IF n = i THEN Closed("completed") ELSE stim[n]
    BY <1>4, CompletedSession DEF RotationInv
  <2>2. c.active = active /\ c.quiet = quiet
    BY DEF Session
  <2> HIDE DEF c
  <2>3. /\ c \in Sessions /\ d \in Sessions /\ Closed("completed").state = "completed"
        /\ index <= MaxIndex + CycleSize
    BY <2>1, ClosedRow DEF Sound, RotationInv, InBounds
  <2>4. CycleOK(c, touched)
    BY <1>1, <2>1, <2>2 DEF CycleOK, Session
  <2>5. Judged(Session, c, touched) /\ Session.index = index
    <3>1. /\ Session.index = c.index /\ Session.quiet = c.quiet
      BY <2>1, <2>2 DEF Session
    <3> QED BY <2>1, <2>3, <3>1, SameJudged DEF Judged
  <2>6. RowsStay(Session, c)
    BY <2>1, <2>3, ConstantTypes DEF RowsStay, Session
  <2>7. CASE i # index \/ run # "live"
    <3>1. d = c
      BY <2>1, <2>7 DEF SlotCompleted
    <3>2. \A n \in Slots : c.stim[n].state \in Open => stim[n].state \in Open
      BY <2>1, <2>3, ConstantTypes DEF Open
    <3>3. (c.run = "live" /\ \E n \in Slots : c.stim[n].state \in Open)
             => c.index < MaxIndex + CycleSize
      BY <2>1, <3>2 DEF RotationInv, InBounds
    <3> QED BY <1>1, <1>2, <2>1, <2>3, <2>4, <2>5, <2>6, <3>1, <3>3, RotationInstalled
  <2>8. CASE i = index /\ run = "live"
    <3> DEFINE made == turn[index] = "posted"
    <3>1. d = Advanced(c, 1, made)
      BY <2>1, <2>8 DEF SlotCompleted
    <3>2. /\ index \in Slots /\ index < MaxIndex + CycleSize
          /\ index + 1 <= MaxIndex + CycleSize /\ index + 1 <= index + CycleSize
      <4>1. index \in Slots
        BY <1>1, <2>3, ConstantTypes DEF Slots
      <4>2. index < MaxIndex + CycleSize
        BY <1>4, <2>8, <4>1 DEF RotationInv, InBounds, Open
      <4> QED BY <1>1, <4>1, <4>2, ConstantTypes
    <3>3. made <=> Posted(index, index + 1)
      <4>1. \A k : k \in index..(index + 1 - 1) <=> k = index
        BY <1>1
      <4> QED BY <4>1 DEF Posted
    <3>4. 1 \in 1..2 /\ ~(1 = 2) /\ made \in BOOLEAN
      OBVIOUS
    <3> HIDE DEF made, d
    <3>5. CycleStart(index) <= index /\ CycleStart(index) \in Nat
      BY <1>1, <3>4, CycleMove
    <3>6. CycleOK(d, touched) /\ Judged(Session, d, touched)
      <4>1. ~(Session.index < CycleStart(c.index)) /\ Session.index <= c.index
        BY <1>1, <2>1, <2>5, <3>5
      <4> QED BY <1>1, <2>1, <2>3, <2>4, <2>5, <3>1, <3>2, <3>3, <3>4, <4>1, MoveJudged
    <3>7. d.index = index + 1 /\ d.stim = c.stim
      BY <2>1, <2>3, <3>1, <3>4, AdvancedShape
    <3>8. RowsStay(Session, d)
      BY <2>6, <3>7 DEF RowsStay
    <3>9. \A n \in Slots : d.stim[n].state \notin Open
      <4>1. \A n \in Slots : stim[n].state \in Open => n = index
        BY <2>8 DEF RotationInv, CadenceInv, Sound, Single, Session
      <4> QED BY <2>1, <2>3, <2>8, <3>7, <4>1, ConstantTypes DEF Open
    <3> QED BY <1>1, <1>2, <2>1, <2>3, <3>2, <3>6, <3>7, <3>8, <3>9, RotationInstalled
  <2> QED BY <2>7, <2>8
<1> QED BY <1>3, <1>4

\* Steps that leave the stimuli alone.
LEMMA TurnStepRotates ==
  ASSUME RotationInv, CadenceInv',
         \/ PrepareAgain \/ PrepareSelect \/ PrepareNone \/ Call \/ NoAnswer \/ Late
  PROVE  RotationInv' /\ SilenceNoticed
<1>1. UNCHANGED <<config, touched, stim>>
  BY DEF PrepareAgain, PrepareSelect, PrepareNone, Call, NoAnswer, Late, config
<1>2. Working' => run = "live"
  <2>1. Working \/ task'.pc = "complete"
    BY DEF PrepareAgain, PrepareSelect, PrepareNone, Call, NoAnswer, Late, Goto,
           Working, RotationInv, CadenceInv, RestOK
  <2>2. task'.pc = "complete" => ~Working'
    BY DEF Working, Answering
  <2> QED BY <2>1, <2>2 DEF RotationInv
<1>3. \A n \in Slots : turn'[n] = turn[n] \/ (stim[n].state # "none" /\ n = index)
  <2> SUFFICES ASSUME NEW n \in Slots, turn'[n] # turn[n]
               PROVE  stim[n].state # "none" /\ n = index
    OBVIOUS
  <2>1. turn \in [Items -> TurnStates] /\ n \in Items
    BY ConstantTypes DEF RotationInv, CadenceInv, RestOK
  <2>2. Working /\ n = task.item
    BY <2>1 DEF PrepareAgain, PrepareSelect, PrepareNone, Call, NoAnswer, Late, Working,
                Answering
  <2> QED BY <2>2, WorksAtCursor
<1> QED BY <1>1, <1>2, <1>3, RotationStays

\* Steps that write the stimulus in delivery, or cancel others.
LEMMA WriteStepRotates ==
  ASSUME RotationInv, CadenceInv', Yield \/ Answer \/ AnswerRaises
  PROVE  RotationInv' /\ SilenceNoticed
<1> DEFINE i == task.item
<1>1. UNCHANGED <<config, touched>> /\ ~Working'
  <2>1. task'.pc = "idle" \/ task'.pc = "complete"
    BY DEF Yield, Answer, AnswerRaises, Goto, Idle, RotationInv, CadenceInv, RestOK
  <2>2. UNCHANGED <<config, touched>>
    BY DEF Yield, Answer, AnswerRaises
  <2> QED BY <2>1, <2>2 DEF Working, Answering
<1>2. Working /\ i \in Items /\ turn \in [Items -> TurnStates]
  BY DEF Yield, Answer, AnswerRaises, Working, RotationInv, CadenceInv, RestOK
<1>3. stim[i].state = "leased" /\ (i \in Slots => i = index)
  BY <1>2, WorksAtCursor
<1>4. \A n \in Items : n # i => turn'[n] = turn[n]
  BY <1>2 DEF Yield, Answer, AnswerRaises
<1>5. \A n \in Items : n # i => \/ stim'[n] = stim[n]
                                \/ stim'[n] = Cancel(stim[n])
  BY SessionTypes DEF Yield, Answer, AnswerRaises, RotationInv
<1>6. \A n \in Items : stim[n] \in Rows /\ Cancel(stim[n]).state \notin Open
        /\ (Cancel(stim[n]).state = "none" <=> stim[n].state = "none")
  BY SessionTypes, CancelRow DEF RotationInv
<1>7. stim'[i].state # "none"
  <2>1. CASE Yield
    <3> DEFINE back == stim[i].attempts - 1
    <3>1. stim' = [stim EXCEPT ![i].state = "pending", ![i].attempts = back]
      BY <2>1 DEF Yield
    <3>2. stim \in [Items -> Rows]
      BY SessionTypes DEF RotationInv
    <3> HIDE DEF back
    <3>3. stim'[i].state = "pending"
      BY <1>2, <3>1, <3>2 DEF Rows
    <3> QED BY <3>3
  <2>2. CASE Answer
    <3>1. stim'[i] = stim[i]
      BY <1>2, <2>2 DEF Answer
    <3> QED BY <1>3, <3>1
  <2>3. CASE AnswerRaises
    <3>1. stim'[i] = TakenBack(i)
      BY <1>2, <2>3, SessionTypes DEF AnswerRaises, RotationInv
    <3> QED BY <1>2, <1>3, <3>1, TakenBackRow DEF RotationInv
  <2> QED BY <2>1, <2>2, <2>3
<1> HIDE DEF i
<1>8. \A n \in Slots : /\ stim'[n].state = "none" => stim[n].state = "none"
                       /\ stim'[n].state \in Open => stim[n].state \in Open
                       /\ turn'[n] = turn[n] \/ (stim[n].state # "none" /\ n = index)
  <2> SUFFICES ASSUME NEW n \in Slots
               PROVE  /\ stim'[n].state = "none" => stim[n].state = "none"
                      /\ stim'[n].state \in Open => stim[n].state \in Open
                      /\ turn'[n] = turn[n] \/ (stim[n].state # "none" /\ n = index)
    OBVIOUS
  <2>1. CASE n = i
    BY <1>3, <1>7, <2>1 DEF Open
  <2>2. CASE n # i
    BY <1>4, <1>5, <1>6, <2>2, ConstantTypes
  <2> QED BY <2>1, <2>2
<1> QED BY <1>1, <1>8, RotationStays

\* What people, time and crashes do to a session, other than by ending it.
LEMMA EventRotates ==
  ASSUME RotationInv, CadenceInv',
         \/ ForceTurn \/ HumanSetStatus \/ SetParticipant \/ BudgetExpires \/ Restart
  PROVE  RotationInv' /\ SilenceNoticed
<1>1. UNCHANGED <<config, touched>>
  BY DEF ForceTurn, HumanSetStatus, SetParticipant, BudgetExpires, Restart, config
<1>2. turn \in [Items -> TurnStates] /\ stim \in [Items -> Rows]
  BY SessionTypes DEF RotationInv, CadenceInv, RestOK
<1>3. Working' => run = "live"
  <2>1. CASE Restart
    BY <2>1 DEF Restart, Idle, Working, Answering
  <2>2. CASE ~Restart
    <3>1. UNCHANGED <<turn, task>>
      BY <2>2 DEF ForceTurn, HumanSetStatus, SetParticipant, BudgetExpires, work
    <3> QED BY <3>1 DEF RotationInv, Working, Answering
  <2> QED BY <2>1, <2>2
<1>4. \A n \in Slots :
        /\ stim'[n].state = "none" => stim[n].state = "none"
        /\ stim'[n].state \in Open => stim[n].state \in Open
        /\ \/ turn'[n] = turn[n]
           \/ stim[n].state # "none" /\ turn[n] # "posted" /\ turn'[n] # "posted"
  <2> SUFFICES ASSUME NEW n \in Slots
               PROVE  /\ stim'[n].state = "none" => stim[n].state = "none"
                      /\ stim'[n].state \in Open => stim[n].state \in Open
                      /\ \/ turn'[n] = turn[n]
                         \/ stim[n].state # "none" /\ turn[n] # "posted" /\ turn'[n] # "posted"
    OBVIOUS
  <2>1. n \in Items /\ n # Forced
    BY ConstantTypes
  <2>2. CASE ~Restart
    <3>1. turn' = turn /\ stim'[n] = stim[n]
      BY <1>2, <2>1, <2>2
         DEF ForceTurn, HumanSetStatus, SetParticipant, BudgetExpires, work
    <3> QED BY <3>1
  <2>3. CASE Restart
    <3>1. /\ stim'[n] = IF stim[n].state = "leased" THEN TakenBack(n) ELSE stim[n]
          /\ turn'[n] = IF stim[n].state = "leased" /\ Exhausted(n) /\ turn[n] = "open"
                        THEN "silent" ELSE turn[n]
      BY <2>1, <2>3 DEF Restart
    <3>2. stim[n].state = "leased" => TakenBack(n).state \in {"pending", "failed"}
      BY <2>1, TakenBackRow DEF RotationInv
    <3> QED BY <3>1, <3>2 DEF Open
  <2> QED BY <2>2, <2>3
<1> QED BY <1>1, <1>3, <1>4, RotationStays

LEMMA RotationStep ==
  ASSUME RotationInv, [Next]_vars
  PROVE  RotationInv' /\ SilenceNoticed
<1>1. CadenceInv'
  BY CadenceStep DEF RotationInv
<1>2. CASE UNCHANGED vars
  <2>1. UNCHANGED <<config, touched, stim, turn, task>>
    BY <1>2 DEF vars, work
  <2>2. Working' => run = "live"
    BY <2>1 DEF RotationInv, Working, Answering
  <2> QED BY <1>1, <2>1, <2>2, RotationStays
<1>3. CASE Blocked \/ Stop \/ Settle
  <2>1. PICK c : /\ c = Session \/ \E s \in RunStates \ {"live"} : c = Ends(Session, s)
                 /\ Install(c) /\ touched' = touched
                 /\ task'.pc \notin {"prepare", "turn"} /\ (c = Session => task'.pc = "idle")
    <3>1. "failed" \in RunStates \ {"live"} /\ "stopped" \in RunStates \ {"live"}
          /\ "completed" \in RunStates \ {"live"}
      BY DEF RunStates
    <3>2. Session.run = run
      BY DEF Session
    <3>3. \A s : Ends(Session, s).run = s
      BY SessionTypes DEF RotationInv, Ends, Sessions
    <3>4. CASE Blocked
      <4>1. Install(Ends(Session, "failed")) /\ touched' = touched /\ task'.pc = "complete"
            /\ run = "live"
        BY <3>4 DEF Blocked, Goto, RotationInv, Working, CadenceInv, RestOK
      <4> QED BY <3>1, <3>2, <3>3, <4>1
    <3>5. CASE Stop
      <4>1. Install(Ends(Session, "stopped")) /\ UNCHANGED <<touched, task>>
            /\ task.pc \in {"idle", "await"} /\ run = "live"
        BY <3>5 DEF Stop, Request, Event, LoopFree
      <4> QED BY <3>1, <3>2, <3>3, <4>1
    <3>6. CASE Settle
      <4>1. /\ Install(IF over /\ run = "live" THEN Ends(Session, "completed") ELSE Session)
            /\ touched' = touched /\ task'.pc = "idle"
        BY <3>6 DEF Settle, Idle
      <4> QED BY <3>1, <4>1
    <3> QED BY <1>3, <3>4, <3>5, <3>6
  <2> QED BY <1>1, <2>1, EndingRotates
<1>4. CASE Step /\ ~(Blocked \/ Settle)
  BY <1>1, <1>4, ClaimRotates, CompleteRotates, TurnStepRotates, WriteStepRotates DEF Step
<1>5. CASE Next /\ ~Step /\ ~Stop
  BY <1>1, <1>5, InputRotates, EventRotates DEF Next
<1> QED BY <1>2, <1>3, <1>4, <1>5 DEF Next

LEMMA RotationStart == Init => RotationInv
<1> SUFFICES ASSUME Init PROVE RotationInv
  OBVIOUS
<1>1. CadenceInv
  BY CadenceStart
<1>2. ~Working /\ NoTurnYet(Session)
  BY ConstantTypes DEF Init, Working, Answering, Idle, NoTurnYet, Session
<1>3. InBounds
  <2>1. 0 <= MaxIndex + CycleSize /\ 0 < MaxIndex + CycleSize
    BY ConstantTypes
  <2> QED BY <2>1 DEF Init, InBounds
<1>4. CycleOK(Session, touched)
  <2>1. CycleStart(0) <= 0 /\ CycleStart(0) \in Nat
    <3>1. 0 \in Nat /\ 1 \in 1..2 /\ ~(1 = 2)
      OBVIOUS
    <3> QED BY <3>1, CycleMove
  <2>2. CycleStart(0) = 0 /\ ~Posted(0, 0)
    BY <2>1 DEF Posted
  <2> QED BY <2>2 DEF Init, CycleOK, Session
<1> QED BY <1>1, <1>2, <1>3, <1>4 DEF RotationInv

LEMMA RotationInductive == Spec => []RotationInv
BY RotationStart, RotationStep, PTL DEF Spec

(* The session falls quiet at the end of a cycle exactly when nobody posted  *)
(* and nobody wrote or asked for a wake-up in it: no post and no input is    *)
(* forgotten, and no silence overlooked, over skipped pairs, restarts and    *)
(* slots that are completed late (_advance, on_input).                       *)
THEOREM SilenceEndsTheCycle == Spec => QuietAfterSilentCycle
<1>1. RotationInv /\ [Next]_vars
        => [LET start == (index' \div CycleSize) * CycleSize
                ended == (start - CycleSize)..(start - 1)
            IN  IF index < start
                THEN quiet' = (/\ Dormancy
                               /\ \A n \in ended : turn[n] # "posted"
                               /\ touched' <= start - CycleSize)
                ELSE quiet' => quiet]_vars
  BY RotationStep DEF SilenceNoticed
<1> QED BY <1>1, RotationInductive, PTL DEF Spec, QuietAfterSilentCycle
=============================================================================
