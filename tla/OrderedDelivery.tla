-------------------------- MODULE OrderedDelivery --------------------------
(***************************************************************************)
(* What the event stream promises a client: the events of the log in the   *)
(* order of their numbers, each of them once, and none that is not in the  *)
(* log.  The numbers are 1, 2, ... ; sent is the highest one in the log.   *)
(***************************************************************************)
EXTENDS Naturals, Sequences

VARIABLES sent, received

OrderedInit == sent = 0 /\ received = <<>>

Send == sent' \in Nat /\ sent' > sent /\ UNCHANGED received

Receive ==
  /\ Len(received) < sent
  /\ received' = Append(received, Len(received) + 1)
  /\ UNCHANGED sent

OrderedSpec == OrderedInit /\ [][Send \/ Receive]_<<sent, received>>
=============================================================================
