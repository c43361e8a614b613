---------------------------- MODULE EventStream ----------------------------
(***************************************************************************)
(* The event stream of one client.  The log is durable; EventBroker tells  *)
(* the stream of each connected client, by hints in a bounded queue, that  *)
(* there is something to read, and drops the oldest hint of a full queue.  *)
(* What a hint carries is never used, so the queue is a number of hints.   *)
(* The client acknowledges nothing: it reconnects with the number of the   *)
(* last event it received, and what was under way is lost.                 *)
(* (once=true is a client that disconnects when its stream would wait.)    *)
(***************************************************************************)
EXTENDS Integers, Sequences

CONSTANTS
  QueueSize,     \* EventBroker's queue_size
  PageSize,      \* EVENT_STREAM_PAGE_SIZE
  PublishLimit,  \* the limit of publish_since
  Batches,       \* how many events a transaction may add
  MaxLast,       \* bound: events in the log
  MaxLosses      \* bound: losses, crashes and changes of the session

ASSUME EventStreamAssumption ==
  /\ {QueueSize, PageSize, PublishLimit} \subseteq Nat \ {0}
  /\ Batches \subseteq Nat /\ {MaxLast, MaxLosses} \subseteq Nat

VARIABLES
  last,        \* the highest number in the log
  owed,        \* where commits begin whose hints are not published yet
  pc,          \* where event_stream's generator stands
  cursor,      \* its cursor
  page,        \* the last number of the page it has read
  full,        \* whether that page had PageSize events
  hints,       \* how many hints its queue holds
  wire,        \* numbers sent, and not received yet
  received,    \* the numbers the client has received, in order
  authorized,  \* whether the client's session is valid
  losses       \* how many of the permitted losses happened

reader     == <<pc, cursor, page, full, hints, wire, received>>
streamVars == <<last, owed, reader, authorized, losses>>

StreamInit ==
  /\ last = 0 /\ owed = {}
  /\ pc = "off" /\ cursor = 0 /\ page = 0 /\ full = FALSE /\ hints = 0
  /\ wire = <<>> /\ received = <<>>
  /\ authorized = TRUE /\ losses = 0

Lose == losses < MaxLosses /\ losses' = losses + 1

Least(m, n) == IF m < n THEN m ELSE n

-----------------------------------------------------------------------------
(* Writers *)

\* A transaction commits its events (a repeated request has none), and owes hints.
Commit ==
  /\ \E n \in Batches : last + n <= MaxLast /\ last' = last + n
  /\ owed' = owed \cup {last}
  /\ UNCHANGED <<reader, authorized, losses>>

\* publish_since(b), publish: put_nowait, after dropping the oldest when full.
Announce(b) ==
  /\ owed' = owed \ {b}
  /\ hints' = IF pc = "off" THEN hints
              ELSE Least(QueueSize, hints + Least(PublishLimit, last - b))
  /\ UNCHANGED <<last, pc, cursor, page, full, wire, received, authorized, losses>>

\* A hint is lost: publishing raises, or another process wrote.
Forget(b) == Lose /\ owed' = owed \ {b} /\ UNCHANGED <<last, reader, authorized>>

-----------------------------------------------------------------------------
(* The generator *)

\* Mutant of LastEventId: a client that comes back starts at the end of the log.
FromTheEnd == last

LastEventId == Len(received)

\* The queue is subscribed before the first page is read.
Connect ==
  /\ pc = "off" /\ authorized
  /\ pc' = "top" /\ cursor' = LastEventId /\ hints' = 0 /\ wire' = <<>>
  /\ UNCHANGED <<last, owed, page, full, received, authorized, losses>>

\* Mutant of SessionChecked: the session is looked at only before an event.
CheckedPerEvent == pc = "page" /\ cursor < page

\* Where the session is looked at again: at the top of the loop, before every
\* event and after a timeout.
SessionChecked ==
  \/ pc = "top"
  \/ pc = "page" /\ cursor < page
  \/ pc = "wait" /\ hints = 0

MayGoOn == SessionChecked => authorized

Read ==
  /\ pc \in {"top", "more"} /\ MayGoOn
  /\ page' = Least(cursor + PageSize, last)
  /\ full' = (last >= cursor + PageSize)
  /\ pc' = "page"
  /\ UNCHANGED <<last, owed, cursor, hints, wire, received, authorized, losses>>

\* Mutant of SendEvent: an event that may not be sent is passed over.
PassesOver ==
  /\ pc = "page" /\ cursor < page
  /\ cursor' = cursor + 1
  /\ wire' = IF authorized THEN Append(wire, cursor + 1) ELSE wire
  /\ UNCHANGED <<last, owed, pc, page, full, hints, received, authorized, losses>>

\* Suspended at each event until the client takes it.
SendEvent ==
  /\ pc = "page" /\ cursor < page /\ MayGoOn
  /\ cursor' = cursor + 1 /\ wire' = Append(wire, cursor + 1)
  /\ UNCHANGED <<last, owed, pc, page, full, hints, received, authorized, losses>>

PageDone ==
  /\ pc = "page" /\ cursor = page
  /\ pc' = IF full THEN "more" ELSE "wait"
  /\ UNCHANGED <<last, owed, cursor, page, full, hints, wire, received, authorized, losses>>

Hint ==
  /\ pc = "wait" /\ hints > 0
  /\ hints' = hints - 1 /\ pc' = "top"
  /\ UNCHANGED <<last, owed, cursor, page, full, wire, received, authorized, losses>>

\* Mutant of AfterTimeout: after a keep-alive the stream waits for a hint again.
WaitsOn == "wait"

AfterTimeout == "top"

\* 15 seconds pass: a keep-alive, and the loop begins again.
KeepAlive ==
  /\ pc = "wait" /\ hints = 0 /\ MayGoOn
  /\ pc' = AfterTimeout
  /\ UNCHANGED <<last, owed, cursor, page, full, hints, wire, received, authorized, losses>>

\* The generator returns, which ends the connection.
Return ==
  /\ SessionChecked /\ ~authorized
  /\ pc' = "off"
  /\ UNCHANGED <<last, owed, cursor, page, full, hints, wire, received, authorized, losses>>

-----------------------------------------------------------------------------
(* The client and the network *)

\* EventSource dispatches an event and remembers its number.
Dispatch ==
  /\ wire # <<>>
  /\ wire' = Tail(wire) /\ received' = Append(received, Head(wire))
  /\ UNCHANGED <<last, owed, pc, cursor, page, full, hints, authorized, losses>>

Disconnect ==
  /\ Lose /\ pc # "off"
  /\ pc' = "off" /\ wire' = <<>>
  /\ UNCHANGED <<last, owed, cursor, page, full, hints, received, authorized>>

\* The session expires or is revoked; its owner logs in again.
SessionChanges ==
  /\ Lose /\ authorized' = ~authorized
  /\ UNCHANGED <<last, owed, reader>>

\* The process ends: connections, queues and the writers' duties go with it.
StreamCrash ==
  /\ Lose /\ pc' = "off" /\ wire' = <<>> /\ owed' = {}
  /\ UNCHANGED <<last, cursor, page, full, hints, received, authorized>>

Generate == Connect \/ Read \/ SendEvent \/ PageDone \/ Hint \/ KeepAlive \/ Return

StreamNext ==
  \/ Commit \/ (\E b \in owed : Announce(b) \/ Forget(b))
  \/ Generate \/ Dispatch \/ Disconnect \/ SessionChanges \/ StreamCrash

StreamSpec == StreamInit /\ [][StreamNext]_streamVars

\* The event loop runs what is ready, timeouts pass, and EventSource reconnects.
FairStreamSpec == StreamSpec /\ WF_streamVars(Generate) /\ WF_streamVars(Dispatch)

-----------------------------------------------------------------------------
(* Properties *)

(* The strengthening that makes the stream deliver in order: what the client *)
(* has received, what is on the wire and what the cursor has passed are      *)
(* consecutive numbers of the log (event_stream).                            *)
Consecutive ==
  /\ {cursor, page, last} \subseteq Nat
  /\ received \in Seq(Nat) /\ wire \in Seq(Nat)
  /\ \A n \in DOMAIN received : received[n] = n
  /\ \A n \in DOMAIN wire : wire[n] = Len(received) + n
  /\ Len(received) + Len(wire) <= last
  /\ pc # "off" => Len(received) + Len(wire) = cursor /\ cursor <= last
  /\ pc = "page" => cursor <= page /\ page <= last

Ordered == INSTANCE OrderedDelivery WITH sent <- last, received <- received

(* "Queue overflow, reconnects, and process restarts therefore do not create *)
(* permanent gaps": the stream delivers every event once and in order        *)
(* (architecture.md:387, event_stream).                                      *)
DeliversInOrder == Ordered!OrderedSpec

(* The connection of a session that has ended is closed: between two events *)
(* of a page, before the next page, and also when nothing happens any more  *)
(* and only timeouts wake the stream up, unless its owner logs in again     *)
(* meanwhile (event_stream).                                                *)
EndedSessionIsClosed == ~authorized /\ pc # "off" ~> authorized \/ pc = "off"

(* Whatever hints are lost or dropped, a client with a valid session         *)
(* receives what is in the log (event_stream, EventBroker.publish).          *)
CatchesUp == \A n \in 1..MaxLast : last >= n ~> Len(received) >= n \/ ~authorized
=============================================================================
