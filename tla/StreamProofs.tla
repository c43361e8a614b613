---------------------------- MODULE StreamProofs ----------------------------
(***************************************************************************)
(* The event stream delivers every event once and in order, for every size *)
(* of queue and page, every batch and any number of losses: Consecutive is *)
(* inductive, and every step of the stream is a step of OrderedDelivery or *)
(* a stutter.                                                              *)
(***************************************************************************)
EXTENDS EventStream, TLAPS

USE EventStreamAssumption

(* The types of the variables the proofs count with. *)
LEMMA Typed ==
  ASSUME Consecutive
  PROVE  /\ {cursor, page, last} \subseteq Nat
         /\ received \in Seq(Nat) /\ wire \in Seq(Nat)
         /\ Len(received) \in Nat /\ DOMAIN received = 1..Len(received)
         /\ Len(wire) \in Nat /\ DOMAIN wire = 1..Len(wire)
  BY DEF Consecutive

(* Between commits every step of the process leaves the log alone, and a     *)
(* step that touches neither the wire nor what was received, and opens no    *)
(* page, keeps them consecutive.                                             *)
LEMMA QuietStep ==
  ASSUME Consecutive, UNCHANGED <<last, cursor, page, wire, received>>,
         pc' # "off" => pc # "off",
         pc' = "page" => pc = "page"
  PROVE  Consecutive'
  BY DEF Consecutive

(* What goes out next, and what comes in next, carries the next number.      *)
LEMMA SendKeeps ==
  ASSUME Consecutive, SendEvent
  PROVE  Consecutive'
  <1>1. pc = "page" /\ cursor < page /\ cursor' = cursor + 1
        /\ wire' = Append(wire, cursor + 1)
        /\ UNCHANGED <<last, pc, page, received>>
    BY DEF SendEvent
  <1>2. cursor = Len(received) + Len(wire) /\ page <= last
    BY <1>1 DEF Consecutive
  <1>3. wire' \in Seq(Nat) /\ Len(wire') = Len(wire) + 1 /\ cursor' \in Nat
    BY <1>1 DEF Consecutive
  <1>4. \A n \in DOMAIN wire' : wire'[n] = Len(received) + n
    <2> SUFFICES ASSUME NEW n \in DOMAIN wire' PROVE wire'[n] = Len(received) + n
      OBVIOUS
    <2>1. CASE n \in DOMAIN wire
      BY SMTT(20), <1>1, <2>1 DEF Consecutive
    <2>2. CASE n = Len(wire) + 1
      BY <1>1, <1>2, <2>2 DEF Consecutive
    <2> QED BY SMTT(20), <1>1, <2>1, <2>2 DEF Consecutive
  <1>5. Len(received) + Len(wire) + 1 <= last
    BY <1>1, <1>2 DEF Consecutive
  <1> QED BY <1>1, <1>2, <1>3, <1>4, <1>5 DEF Consecutive

(* What is taken from the wire is the next number the client misses.         *)
LEMMA DispatchKeeps ==
  ASSUME Consecutive, Dispatch
  PROVE  Consecutive' /\ received' = Append(received, Len(received) + 1)
         /\ Len(received) < last /\ last' = last
  <1>1. wire # <<>> /\ wire' = Tail(wire)
        /\ received' = Append(received, Head(wire))
        /\ UNCHANGED <<last, pc, cursor, page>>
    BY DEF Dispatch
  <1>2. Len(wire) > 0 /\ Len(wire) \in Nat /\ Head(wire) = wire[1] /\ 1 \in DOMAIN wire
    BY <1>1 DEF Consecutive
  <1>3. Head(wire) = Len(received) + 1
    BY <1>2 DEF Consecutive
  <1>4. wire' \in Seq(Nat) /\ Len(wire') = Len(wire) - 1
        /\ DOMAIN wire' = 1..(Len(wire) - 1)
        /\ (\A n \in DOMAIN wire' : wire'[n] = wire[n + 1] /\ n + 1 \in DOMAIN wire)
    BY <1>1, <1>2 DEF Consecutive
  <1>5. received' = Append(received, Len(received) + 1) /\ received' \in Seq(Nat)
        /\ Len(received') = Len(received) + 1
        /\ DOMAIN received' = 1..(Len(received) + 1)
    BY <1>1, <1>3, Typed
  <1>6. \A n \in DOMAIN received' : received'[n] = n
    <2> SUFFICES ASSUME NEW n \in DOMAIN received' PROVE received'[n] = n
      OBVIOUS
    <2>1. CASE n \in DOMAIN received
      BY <1>5, <2>1 DEF Consecutive
    <2>2. CASE n = Len(received) + 1
      BY <1>5, <2>2 DEF Consecutive
    <2> QED BY SMTT(20), <1>5, <2>1, <2>2, Typed
  <1>7. \A n \in DOMAIN wire' : wire'[n] = Len(received') + n
    <2> SUFFICES ASSUME NEW n \in DOMAIN wire' PROVE wire'[n] = Len(received') + n
      OBVIOUS
    <2>1. wire'[n] = Len(received) + (n + 1)
      BY <1>4 DEF Consecutive
    <2>2. n \in Nat /\ Len(received) \in Nat
      BY <1>4, Typed
    <2> QED BY <1>5, <2>1, <2>2
  <1>8. Len(received') + Len(wire') = Len(received) + Len(wire)
    BY <1>2, <1>4, <1>5 DEF Consecutive
  <1>9. Len(received) < last
    BY <1>2 DEF Consecutive
  <1> QED BY <1>1, <1>4, <1>5, <1>6, <1>7, <1>8, <1>9 DEF Consecutive

(* What is on the wire is lost with the connection; what was received is     *)
(* not, and the next connection begins after it.                             *)
LEMMA LostKeeps ==
  ASSUME Consecutive, pc' # "page", wire' = <<>>, UNCHANGED <<last, page, received>>,
         \/ pc' = "off" /\ cursor' = cursor
         \/ cursor' = Len(received)
  PROVE  Consecutive'
  <1>1. wire' \in Seq(Nat) /\ Len(wire') = 0 /\ DOMAIN wire' = {}
    OBVIOUS
  <1>2. cursor' \in Nat /\ Len(received) \in Nat /\ Len(received) <= last
    BY DEF Consecutive
  <1> QED BY <1>1, <1>2 DEF Consecutive

(* A page begins at the cursor and ends at the end of the log at most.       *)
LEMMA ReadKeeps ==
  ASSUME Consecutive, Read
  PROVE  Consecutive'
  <1>1. pc # "off" /\ pc' = "page" /\ page' = Least(cursor + PageSize, last)
        /\ UNCHANGED <<last, cursor, wire, received>>
    BY DEF Read
  <1>2. cursor \in Nat /\ last \in Nat /\ cursor <= last /\ cursor + PageSize \in Nat
    BY <1>1 DEF Consecutive
  <1>3. page' \in Nat /\ cursor <= page' /\ page' <= last
    BY <1>1, <1>2 DEF Least
  <1> QED BY <1>1, <1>2, <1>3 DEF Consecutive

(* A commit adds numbers at the end of the log.                              *)
LEMMA CommitKeeps ==
  ASSUME Consecutive, Commit
  PROVE  Consecutive' /\ (last' = last \/ last' > last) /\ received' = received
  <1>1. PICK n \in Batches : last' = last + n
    BY DEF Commit
  <1>2. n \in Nat /\ last' \in Nat /\ last' >= last
    BY <1>1 DEF Consecutive
  <1>3. UNCHANGED <<pc, cursor, page, wire, received>>
    BY DEF Commit, reader
  <1> QED BY <1>2, <1>3 DEF Consecutive

-----------------------------------------------------------------------------

(* One step: what was sent, is on the wire and was received stays            *)
(* consecutive, and the step is one of OrderedDelivery or a stutter.         *)
LEMMA StreamStep ==
  ASSUME Consecutive, [StreamNext]_streamVars
  PROVE  Consecutive' /\ [Ordered!Send \/ Ordered!Receive]_<<last, received>>
  <1> USE DEF Ordered!Send, Ordered!Receive
  <1>0. CASE UNCHANGED streamVars
    BY <1>0, QuietStep DEF streamVars, reader
  <1>1. CASE Commit
    BY <1>1, CommitKeeps DEF Consecutive
  <1>2. ASSUME NEW b \in owed, Announce(b) \/ Forget(b)
        PROVE  Consecutive' /\ UNCHANGED <<last, received>>
    BY <1>2, QuietStep DEF Announce, Forget, reader
  <1>3. CASE Connect
    BY <1>3, LostKeeps DEF Connect, LastEventId
  <1>4. CASE Read
    BY <1>4, ReadKeeps DEF Read
  <1>5. CASE SendEvent
    BY <1>5, SendKeeps DEF SendEvent
  <1>6. CASE PageDone
    BY <1>6, QuietStep DEF PageDone
  <1>7. CASE Hint
    BY <1>7, QuietStep DEF Hint
  <1>8. CASE KeepAlive
    BY <1>8, QuietStep DEF KeepAlive, AfterTimeout
  <1>9. CASE Return
    BY <1>9, QuietStep DEF Return
  <1>10. CASE Dispatch
    BY <1>10, DispatchKeeps
  <1>11. CASE Disconnect
    BY <1>11, LostKeeps DEF Disconnect
  <1>12. CASE SessionChanges
    BY <1>12, QuietStep DEF SessionChanges, reader
  <1>13. CASE StreamCrash
    BY <1>13, LostKeeps DEF StreamCrash
  <1> QED
    BY <1>0, <1>1, <1>2, <1>3, <1>4, <1>5, <1>6, <1>7, <1>8, <1>9, <1>10, <1>11,
       <1>12, <1>13 DEF StreamNext, Generate

(* Nothing is sent and nothing received at the beginning.                    *)
LEMMA StreamStart == StreamInit => Consecutive /\ Ordered!OrderedInit
  BY DEF StreamInit, Consecutive, Ordered!OrderedInit

(* What the client has received, what is on the wire and what the cursor has *)
(* passed are consecutive numbers of the log, through lost hints, dropped    *)
(* connections, expired sessions and restarts (event_stream).                *)
THEOREM StreamIsConsecutive == StreamSpec => []Consecutive
  BY StreamStart, StreamStep, PTL DEF StreamSpec

(* The event stream implements OrderedDelivery: every event once, in order.  *)
THEOREM StreamDelivers == StreamSpec => DeliversInOrder
  BY StreamStart, StreamStep, StreamIsConsecutive, PTL
     DEF StreamSpec, DeliversInOrder, Ordered!OrderedSpec
=============================================================================
