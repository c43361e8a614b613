--------------------------- MODULE LoginThrottle ---------------------------
(***************************************************************************)
(* The login throttle (auth.py): per address a window of attempt times, in *)
(* an ordered table whose least recently used bucket is dropped when there *)
(* are too many.                                                           *)
(***************************************************************************)
EXTENDS Integers, Sequences, FiniteSets

CONSTANTS
  Addresses,   \* clients
  Limit,       \* attempts that are let through in a window
  Window,      \* the length of the window
  MaxBuckets   \* addresses the table remembers

ASSUME LoginThrottleAssumption == {Limit, Window, MaxBuckets} \subseteq Nat \ {0}

VARIABLES
  now,       \* the clock
  order,     \* the addresses in the table, the least recently used first
  attempts,  \* the attempt times of each bucket
  granted,   \* history: the attempts that were ever let through
  dropped    \* history: the addresses whose bucket was dropped

throttleVars == <<order, attempts, granted, dropped>>

ThrottleInit ==
  /\ order = <<>> /\ dropped = {}
  /\ attempts = [a \in Addresses |-> <<>>] /\ granted = [a \in Addresses |-> <<>>]

\* popleft, while the first attempt is too old.
Expired(times) == {n \in 1..Len(times) : \A m \in 1..n : times[m] <= now - Window}
Recent(times)  == SubSeq(times, Cardinality(Expired(times)) + 1, Len(times))

\* Mutant of Admits: one attempt too many.
AdmitsOneMore(a) == Len(Recent(attempts[a])) <= Limit

Admits(a) == Len(Recent(attempts[a])) < Limit

\* pop and set: the address comes last; popitem drops the first.
Touched(a) == Append(SelectSeq(order, LAMBDA b : b # a), a)

With(times, admitted) == IF admitted THEN Append(Recent(times), now) ELSE Recent(times)

Allow(a, admitted) ==
  LET full   == Len(Touched(a)) > MaxBuckets
      victim == Head(Touched(a))
  IN  /\ admitted = Admits(a)
      /\ order' = IF full THEN Tail(Touched(a)) ELSE Touched(a)
      /\ attempts' = [b \in Addresses |->
           IF full /\ b = victim THEN <<>>
           ELSE IF b = a THEN With(attempts[a], admitted) ELSE attempts[b]]
      /\ dropped' = IF full THEN dropped \cup {victim} ELSE dropped
      /\ granted' = [b \in Addresses |->
           IF b \in dropped' THEN <<>>
           ELSE IF b = a /\ admitted THEN Append(granted[a], now) ELSE granted[b]]

(* No window, wherever it begins, has more than Limit attempts of an address *)
(* whose bucket was not dropped: an attempt comes at least a window after    *)
(* the one Limit attempts before it, whatever was refused in between         *)
(* (LoginThrottle.allow).                                                    *)
ThrottleHolds ==
  \A a \in Addresses \ dropped : \A n \in DOMAIN granted[a] :
    n > Limit => granted[a][n] >= granted[a][n - Limit] + Window
=============================================================================
