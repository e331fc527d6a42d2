----------------------------- MODULE EventQueue -----------------------------
(***************************************************************************)
(* The global event queue of KyroOS (event.c): a circular buffer filled by *)
(* the keyboard handler and emptied by the readers of input.  event_push   *)
(* and event_pop run between cli and sti on the only processor, so each is *)
(* one step.                                                               *)
(***************************************************************************)
EXTENDS Naturals, Sequences

CONSTANTS Size,      \* EVENT_QUEUE_SIZE, 256 in the code
          Events,    \* the events the handlers push
          NoEvent    \* the content of a slot before any event

ASSUME QueueAssumption == Size \in Nat \ {0} /\ NoEvent \notin Events

VARIABLES event_queue, queue_head, queue_tail, event_count,
          popped     \* the event the last successful event_pop returned

vars == <<event_queue, queue_head, queue_tail, event_count, popped>>

Slots == 0 .. Size - 1

Init ==
  /\ event_queue = [i \in Slots |-> NoEvent]
  /\ queue_head = 0 /\ queue_tail = 0 /\ event_count = 0
  /\ popped = NoEvent

(* Mutant of Room: the queue takes one event too many. *)
RoomForOneMore == event_count <= Size

Room == event_count < Size

(* Mutant of After: the index is not wrapped at the last slot but one. *)
AfterShort(i) == IF i + 2 >= Size THEN 0 ELSE i + 1

After(i) == (i + 1) % Size

(* event_push: a full queue drops the event. *)
event_push(e) ==
  /\ IF Room
       THEN /\ event_queue' = [event_queue EXCEPT ![queue_tail] = e]
            /\ queue_tail'  = After(queue_tail)
            /\ event_count' = event_count + 1
       ELSE UNCHANGED <<event_queue, queue_tail, event_count>>
  /\ UNCHANGED <<queue_head, popped>>

(* Mutant of event_pop: the count is not given back. *)
PopKeepsCount ==
  /\ event_count > 0
  /\ popped'      = event_queue[queue_head]
  /\ queue_head'  = After(queue_head)
  /\ UNCHANGED <<event_queue, queue_tail, event_count>>

(* event_pop, which returns 0 and changes nothing when the queue is empty.  All
   readers, the shell, tty_read, keyboard_get_char and input_poll_event, take
   from the one queue and discard the events they have no use for. *)
event_pop ==
  /\ event_count > 0
  /\ popped'      = event_queue[queue_head]
  /\ queue_head'  = After(queue_head)
  /\ event_count' = event_count - 1
  /\ UNCHANGED <<event_queue, queue_tail>>

Next == event_pop \/ \E e \in Events : event_push(e)

Spec == Init /\ [][Next]_vars

----------------------------------------------------------------------------
TypeOK ==
  /\ event_queue \in [Slots -> Events \cup {NoEvent}]
  /\ queue_head  \in Slots
  /\ queue_tail  \in Slots
  /\ event_count \in 0 .. Size
  /\ popped \in Events \cup {NoEvent}

(* The two indexes and the counter, which event_push and event_pop update
   separately, agree: an empty and a full queue are told apart by the counter. *)
IndexesAgree == queue_tail = (queue_head + event_count) % Size

(* The circular buffer is a bounded first-in first-out queue: an event that
   event_push accepted is neither lost, duplicated nor overtaken. *)
RingSeq(b, h, n) == [i \in 1 .. n |-> b[(h + i - 1) % Size]]

Contents == RingSeq(event_queue, queue_head, event_count)

Fifo == INSTANCE BoundedFifo
          WITH Items <- Events, NoItem <- NoEvent, queue <- Contents, out <- popped
FifoSpec == Fifo!Spec
=============================================================================
