---------------------------- MODULE QueuesProofs ----------------------------
(***************************************************************************)
(* The event queue and the pipe.  For every capacity and every set of      *)
(* events the circular buffer keeps its indexes consistent and implements  *)
(* the bounded queue.  For any readers and writers of a pipe, any size and *)
(* any counts, whoever sleeps is found by a wakeup, and the ring is a      *)
(* bounded queue of bytes.  The kernel log, the events of the mouse, and   *)
(* the history and the editor of the shell keep what was put into them.    *)
(***************************************************************************)
EXTENDS MCQueues, ListFacts

----------------------------------------------------------------------------
(* The event queue.                                                        *)

IInv == TypeOK /\ IndexesAgree

(* Every step keeps the types and the agreement of indexes and counter. *)
LEMMA StepInv == IInv /\ [Next]_vars => IInv'
<1> SUFFICES ASSUME IInv, [Next]_vars PROVE IInv'
  OBVIOUS
<1>0. /\ Size \in Nat \ {0}
      /\ queue_head \in Slots /\ queue_tail \in Slots /\ event_count \in 0 .. Size
      /\ event_queue \in [Slots -> Events \cup {NoEvent}]
      /\ popped \in Events \cup {NoEvent}
  BY QueueAssumption DEF IInv, TypeOK
<1>p. ASSUME NEW h \in Slots, NEW n \in 0 .. Size
      PROVE  (h + n) % Size = IF h + n < Size THEN h + n ELSE h + n - Size
  BY <1>0, PlaceLemma DEF Slots
<1>s. ASSUME NEW i \in Slots
      PROVE  After(i) \in Slots /\ After(i) = IF i + 1 = Size THEN 0 ELSE i + 1
  BY <1>0, AfterLemma DEF After, Slots
<1>a. queue_tail = IF queue_head + event_count < Size THEN queue_head + event_count
                   ELSE queue_head + event_count - Size
  BY <1>0, <1>p DEF IInv, IndexesAgree
<1>1. ASSUME NEW e \in Events, event_push(e) PROVE IInv'
  <2>1. CASE ~Room
    BY <1>1, <2>1 DEF event_push, IInv, TypeOK, IndexesAgree
  <2>2. CASE Room
    <3>1. /\ event_queue' = [event_queue EXCEPT ![queue_tail] = e]
          /\ queue_tail' = After(queue_tail)
          /\ event_count' = event_count + 1
          /\ UNCHANGED <<queue_head, popped>>
      BY <1>1, <2>2 DEF event_push
    <3>2. event_count' \in 0 .. Size /\ queue_tail' \in Slots
      BY <3>1, <2>2, <1>0, <1>s DEF Room
    <3>3. queue_tail' = IF queue_tail + 1 = Size THEN 0 ELSE queue_tail + 1
      BY <3>1, <1>0, <1>s
    <3>4. (queue_head + event_count') % Size =
            IF queue_head + event_count' < Size THEN queue_head + event_count'
            ELSE queue_head + event_count' - Size
      BY <1>0, <3>2, <1>p
    <3>5. queue_tail' = (queue_head' + event_count') % Size
      BY <1>0, <1>a, <2>2, <3>1, <3>3, <3>4 DEF Slots, Room
    <3>6. event_queue' \in [Slots -> Events \cup {NoEvent}]
      BY <1>0, <3>1
    <3> QED BY <1>0, <3>1, <3>2, <3>5, <3>6 DEF IInv, TypeOK, IndexesAgree
  <2> QED BY <2>1, <2>2
<1>2. ASSUME event_pop PROVE IInv'
  <2>1. /\ event_count > 0
        /\ popped' = event_queue[queue_head]
        /\ queue_head' = After(queue_head)
        /\ event_count' = event_count - 1
        /\ UNCHANGED <<event_queue, queue_tail>>
    BY <1>2 DEF event_pop
  <2>2. event_count' \in 0 .. Size /\ queue_head' \in Slots
    BY <2>1, <1>0, <1>s
  <2>3. queue_head' = IF queue_head + 1 = Size THEN 0 ELSE queue_head + 1
    BY <2>1, <1>0, <1>s
  <2>4. (queue_head' + event_count') % Size =
          IF queue_head' + event_count' < Size THEN queue_head' + event_count'
          ELSE queue_head' + event_count' - Size
    BY <1>0, <2>2, <1>p
  <2>5. queue_tail' = (queue_head' + event_count') % Size
    BY <1>0, <1>a, <2>1, <2>3, <2>4 DEF Slots
  <2>6. popped' \in Events \cup {NoEvent}
    BY <1>0, <2>1
  <2> QED BY <1>0, <1>2, <2>1, <2>2, <2>5, <2>6 DEF IInv, TypeOK, IndexesAgree
<1>3. CASE UNCHANGED vars
  BY <1>3 DEF vars, IInv, TypeOK, IndexesAgree
<1> QED BY <1>1, <1>2, <1>3 DEF Next

(* The types of event.c's state and the agreement of its indexes hold in every
   reachable state. *)
THEOREM Invariance == Spec => []IInv
<1>1. Init => IInv
  <2>1. 0 \in Slots /\ (0 + 0) % Size = 0
    BY QueueAssumption DEF Slots
  <2> QED BY <2>1, QueueAssumption DEF Init, IInv, TypeOK, IndexesAgree, Slots
<1> QED BY <1>1, StepInv, PTL DEF Spec

(* queue_head, queue_tail and event_count of event.c agree. *)
THEOREM IndexesAgreeHolds == Spec => []IndexesAgree
<1>1. IInv => IndexesAgree
  BY DEF IInv
<1> QED BY <1>1, Invariance, PTL

(* event.c implements the bounded first-in first-out queue. *)
THEOREM Refinement == Spec => FifoSpec
<1>1. Init => Fifo!Init
  <2>1. ASSUME Init PROVE Contents = <<>>
    BY <2>1 DEF Init, Contents, RingSeq
  <2> QED BY <2>1 DEF Init, Fifo!Init
<1>2. IInv /\ [Next]_vars => [Fifo!Next]_(Fifo!fvars)
  <2> SUFFICES ASSUME IInv, [Next]_vars PROVE [Fifo!Next]_(Fifo!fvars)
    OBVIOUS
  <2> DEFINE S == Events \cup {NoEvent}
  <2>0. /\ Size \in Nat \ {0} /\ event_queue \in [0 .. Size - 1 -> S]
        /\ queue_head \in 0 .. Size - 1 /\ event_count \in 0 .. Size
        /\ queue_tail = (queue_head + event_count) % Size
    BY QueueAssumption DEF IInv, TypeOK, IndexesAgree, Slots
  <2> DEFINE items == RingItems(Size, event_queue, queue_head, event_count)
  <2>c. Contents = items /\ Len(items) = event_count
    BY <2>0, RingLen DEF Contents, RingSeq, RingItems
  <2>1. ASSUME NEW e \in Events, event_push(e) PROVE [Fifo!Next]_(Fifo!fvars)
    <3>1. CASE Room
      <4>1. Contents' = RingItems(Size, [event_queue EXCEPT ![queue_tail] = e],
                                  queue_head, event_count + 1)
        BY <2>0, <2>1, <3>1 DEF event_push, Contents, RingSeq, RingItems
      <4>2. event_count \in 0 .. Size - 1 /\ e \in S
        BY <2>0, <3>1 DEF Room
      <4> HIDE DEF S
      <4>a. RingItems(Size, [event_queue EXCEPT ![queue_tail] = e],
                      queue_head, event_count + 1) = Append(items, e)
        <5> DEFINE b == [event_queue EXCEPT ![queue_tail] = e]
        <5>1. /\ b[queue_tail] = e
              /\ \A i \in 0 .. Size - 1 : i # queue_tail => b[i] = event_queue[i]
          <6>1. queue_tail \in 0 .. Size - 1
            BY <2>0, PlaceLemma
          <6> QED BY <2>0, <6>1
        <5> HIDE DEF b
        <5>2. RingItems(Size, b, queue_head, event_count + 1)
                = Append(items, b[(queue_head + event_count) % Size])
          BY <2>0, <4>2, <5>1, RingPut
        <5> QED BY <2>0, <5>1, <5>2 DEF b
      <4>3. Contents' = Append(Contents, e)
        BY <2>c, <4>1, <4>a
      <4>4. Len(Contents) < Size
        BY <2>0, <2>c, <4>2
      <4> QED BY <2>1, <4>3, <4>4 DEF event_push, Fifo!Next, Fifo!Put
    <3>2. CASE ~Room
      BY <2>1, <3>2 DEF event_push, Fifo!fvars, Contents, RingSeq
    <3> QED BY <3>1, <3>2
  <2>2. CASE event_pop
    <3>1. /\ popped' = event_queue[queue_head] /\ event_count \in 1 .. Size
          /\ Contents' = RingItems(Size, event_queue, (queue_head + 1) % Size, event_count - 1)
      BY <2>0, <2>2 DEF event_pop, Contents, RingSeq, RingItems, After
    <3> HIDE DEF S
    <3>2. /\ items # <<>> /\ Head(items) = event_queue[queue_head]
          /\ Tail(items) = RingItems(Size, event_queue, (queue_head + 1) % Size, event_count - 1)
      BY <2>0, <3>1, RingTake, Zenon
    <3>3. Contents # <<>> /\ Contents' = Tail(Contents) /\ popped' = Head(Contents)
      BY <2>c, <3>1, <3>2
    <3> QED BY <3>3 DEF Fifo!Next, Fifo!Take
  <2>3. CASE UNCHANGED vars
    BY <2>3 DEF vars, Fifo!fvars, Contents, RingSeq
  <2> QED BY <2>1, <2>2, <2>3 DEF Next
<1> QED BY <1>1, <1>2, Invariance, PTL DEF Spec, FifoSpec, Fifo!Spec

----------------------------------------------------------------------------
(* The pipe.                                                               *)

Users == PipeReaders \cup PipeWriters
Ends  == {"read_queue", "write_queue"}

\* A thread is linked into the queue of its end.
Linked(t) == Contains(waiters[Ring!QueueOf(t)], t)

\* Who is where, of the threads that use the pipe.
InvThreads ==
  /\ current \in Users \cup {PipeIdle}
  /\ state \in [Users \cup {PipeIdle} -> {"RUNNING", "READY", "BLOCKED"}]
  /\ pc \in [Users -> {"linked", "blocked", "unlocked", "asleep", "out", "inside"}]
  /\ held \in Users \cup {Ring!Nobody}
  /\ waiters \in [Ends -> Seq(Users)]

\* Nobody is queued twice, and everybody at the own end.
InvQueues ==
  \A q \in Ends : /\ IsInjective(waiters[q])
                  /\ \A t \in Users : Contains(waiters[q], t) => q = Ring!QueueOf(t)

\* The spinlock is held between its acquisition and its release.
InvLock == \A t \in Users : held = t <=> pc[t] \in {"inside", "linked", "blocked"}

\* A thread is linked from waitqueue_add to the wakeup, and BLOCKED but for the first moment.
InvLinked ==
  \A t \in Users :
    /\ state[t] = "BLOCKED" \/ pc[t] = "linked" => Linked(t)
    /\ Linked(t) => \/ pc[t] = "linked"
                    \/ pc[t] \in {"blocked", "unlocked", "asleep"} /\ state[t] = "BLOCKED"

\* A thread that is BLOCKED keeps the processor only until it calls schedule().
InvAwake ==
  \A t \in Users : current = t /\ state[t] = "BLOCKED" => pc[t] \in {"blocked", "unlocked"}

WaitInv == InvThreads /\ InvQueues /\ InvLock /\ InvLinked /\ InvAwake

\* The indexes agree.
InvIndexes == write_pos = (read_pos + data_size) % PipeSize

\* While the only reader waits beside data, a writer is in its call and will not
\* leave it by the way of a broken pipe, which wakes nobody.
InvData ==
  \A r \in PipeReaders :
    PipeReaders = {r} /\ Linked(r) /\ data_size > 0 =>
      ~read_closed /\ \E w \in PipeWriters : pc[w] # "out"

(* What the constants of the pipe are, and where its threads wait. *)
LEMMA PipeFacts ==
  /\ PipeSize \in Nat \ {0} /\ PipeCounts \subseteq Nat \ {0}
  /\ PipeReaders \cap PipeWriters = {} /\ PipeIdle \notin Users
  /\ Ring!Nobody \notin Users \cup {PipeIdle}
  /\ \A t : Ring!QueueOf(t) \in Ends
  /\ "read_queue" # "write_queue"
  BY MachineConstants DEF Ring!PipeConstants, Ring!WaitConstants, Users, Ends, Ring!QueueOf

(* The queues when they do not change. *)
LEMMA SameQueues ==
  ASSUME UNCHANGED waiters
  PROVE  (InvQueues' <=> InvQueues) /\ \A t : Linked(t)' <=> Linked(t)
  BY DEF InvQueues, Linked, Ring!QueueOf

(* Steps of a thread into its call and out of it. *)
LEMMA MoveWait ==
  ASSUME WaitInv, NEW t \in Users, current = t,
         UNCHANGED <<current, state, waiters>>,
         \/ /\ pc[t] \in {"out", "asleep"} /\ held = Ring!Nobody
            /\ held' = t /\ pc' = [pc EXCEPT ![t] = "inside"]
         \/ /\ pc[t] = "inside"
            /\ held' = Ring!Nobody /\ pc' = [pc EXCEPT ![t] = "out"]
  PROVE  WaitInv' /\ ~Linked(t)
<1>1. ~Linked(t) /\ state[t] # "BLOCKED"
  BY DEF WaitInv, InvLinked, InvAwake
<1>2. InvThreads'
  BY DEF WaitInv, InvThreads
<1>3. InvQueues' /\ \A u : Linked(u)' <=> Linked(u)
  BY SameQueues DEF WaitInv
<1>4. InvLock'
  BY PipeFacts DEF WaitInv, InvLock, InvThreads
<1>5. InvLinked'
  BY <1>1, <1>3 DEF WaitInv, InvLinked, InvThreads
<1>6. InvAwake'
  BY <1>1 DEF WaitInv, InvAwake, InvThreads
<1> QED BY <1>1, <1>2, <1>3, <1>4, <1>5, <1>6 DEF WaitInv

(* waitqueue_add. *)
LEMMA EnqueueWait ==
  ASSUME WaitInv, NEW t \in Users, current = t, pc[t] = "inside", Ring!Enqueue(t)
  PROVE  /\ WaitInv' /\ ~Linked(t)
         /\ \A u \in Users : Linked(u)' <=> Linked(u) \/ u = t
<1> DEFINE h == Ring!QueueOf(t)
<1>0. /\ h \in Ends /\ waiters' = [waiters EXCEPT ![h] = <<t>> \o @]
      /\ pc' = [pc EXCEPT ![t] = "linked"] /\ UNCHANGED <<current, state, held>>
  BY PipeFacts DEF Ring!Enqueue, Ring!waitqueue_add, Ring!GoTo
<1>1. ~Linked(t) /\ state[t] # "BLOCKED"
  BY DEF WaitInv, InvLinked, InvAwake
<1>2. waiters[h] \in Seq(Users) /\ IsInjective(waiters[h]) /\ ~Contains(waiters[h], t)
  BY <1>0, <1>1 DEF WaitInv, InvThreads, InvQueues, Linked
<1>3. /\ waiters'[h] = <<t>> \o waiters[h] /\ waiters'[h] \in Seq(Users)
      /\ \A q \in Ends : q # h => waiters'[q] = waiters[q]
  BY <1>0, <1>2 DEF WaitInv, InvThreads
<1>4. IsInjective(waiters'[h]) /\ \A u : Contains(waiters'[h], u) <=> Contains(waiters[h], u) \/ u = t
  BY <1>2, <1>3, ConsOnce, ConsMembers
<1> HIDE DEF h
<1>5. \A q \in Ends, u \in Users :
        Contains(waiters'[q], u) <=> Contains(waiters[q], u) \/ (q = h /\ u = t)
  BY <1>3, <1>4
<1>6. \A u \in Users : Linked(u)' <=> Linked(u) \/ u = t
  BY <1>5, PipeFacts DEF Linked, h, Ring!QueueOf
<1>7. InvThreads'
  BY <1>0, <1>3 DEF WaitInv, InvThreads
<1>8. InvQueues'
  BY <1>3, <1>4, <1>5 DEF WaitInv, InvQueues, h, Ring!QueueOf
<1>9. InvLock'
  BY <1>0 DEF WaitInv, InvLock, InvThreads
<1>10. InvLinked'
  BY <1>0, <1>1, <1>6 DEF WaitInv, InvLinked, InvThreads
<1>11. InvAwake'
  BY <1>0, <1>1 DEF WaitInv, InvAwake, InvThreads
<1> QED BY <1>1, <1>6, <1>7, <1>8, <1>9, <1>10, <1>11 DEF WaitInv

(* The way to sleep. *)
LEMMA SleepWait ==
  ASSUME WaitInv, NEW t \in Users, Ring!Mark(t) \/ Ring!Unlock(t) \/ Ring!Sleep(t)
  PROVE  /\ WaitInv' /\ UNCHANGED waiters /\ pc'[t] # "out"
         /\ \A u \in Users : u # t => pc'[u] = pc[u]
<1>1. current = t /\ UNCHANGED waiters
  BY DEF Ring!Mark, Ring!Unlock, Ring!Sleep, Ring!At
<1>2. InvQueues' /\ \A u : Linked(u)' <=> Linked(u)
  BY <1>1, SameQueues DEF WaitInv
<1>3. CASE Ring!Mark(t)
  <2>1. /\ pc[t] = "linked" /\ state' = [state EXCEPT ![t] = "BLOCKED"]
        /\ pc' = [pc EXCEPT ![t] = "blocked"] /\ UNCHANGED <<current, held>>
    BY <1>3 DEF Ring!Mark, Ring!At, Ring!GoTo
  <2>2. InvThreads' /\ InvLock'
    BY <2>1, <1>1 DEF WaitInv, InvThreads, InvLock
  <2>3. InvLinked'
    BY <2>1, <1>2 DEF WaitInv, InvThreads, InvLinked
  <2>4. InvAwake'
    BY <2>1, <1>1 DEF WaitInv, InvThreads, InvAwake
  <2> QED BY <1>1, <1>2, <2>1, <2>2, <2>3, <2>4 DEF WaitInv, InvThreads
<1>4. CASE Ring!Unlock(t)
  <2>1. /\ pc[t] = "blocked" /\ held' = Ring!Nobody
        /\ pc' = [pc EXCEPT ![t] = "unlocked"] /\ UNCHANGED <<current, state>>
    BY <1>4 DEF Ring!Unlock, Ring!spinlock_release, Ring!At, Ring!GoTo
  <2>2. InvThreads' /\ InvLock'
    BY <2>1, <1>1, PipeFacts DEF WaitInv, InvThreads, InvLock
  <2>3. InvLinked'
    BY <2>1, <1>2 DEF WaitInv, InvThreads, InvLinked
  <2>4. InvAwake'
    BY <2>1, <1>1 DEF WaitInv, InvThreads, InvAwake
  <2> QED BY <1>1, <1>2, <2>1, <2>2, <2>3, <2>4 DEF WaitInv, InvThreads
<1>5. CASE Ring!Sleep(t)
  <2>1. PICK u \in Users \cup {PipeIdle} : Ring!CPU!Give(u)
    BY <1>5 DEF Ring!Sleep, Users
  <2>2. /\ pc[t] = "unlocked" /\ pc' = [pc EXCEPT ![t] = "asleep"] /\ UNCHANGED held
    BY <1>5 DEF Ring!Sleep, Ring!At, Ring!GoTo
  <2>3. /\ current' = u /\ state'[u] = "RUNNING"
        /\ state' \in [Users \cup {PipeIdle} -> {"RUNNING", "READY", "BLOCKED"}]
        /\ \A v \in Users \cup {PipeIdle} : state'[v] = "BLOCKED" <=> state[v] = "BLOCKED"
    BY <2>1 DEF WaitInv, InvThreads, Ring!CPU!Give
  <2>4. InvThreads' /\ InvLock'
    BY <2>2, <2>3, <1>1 DEF WaitInv, InvThreads, InvLock
  <2>5. InvLinked'
    BY <2>2, <2>3, <1>2 DEF WaitInv, InvThreads, InvLinked
  <2>6. InvAwake'
    BY <2>2, <2>3 DEF InvAwake
  <2> QED BY <1>1, <1>2, <2>2, <2>4, <2>5, <2>6 DEF WaitInv, InvThreads
<1> QED BY <1>3, <1>4, <1>5

(* The timer. *)
LEMMA PreemptWait ==
  ASSUME WaitInv, NEW u \in Users \cup {PipeIdle}, Ring!Preempt(u)
  PROVE  WaitInv' /\ UNCHANGED <<pc, waiters>>
<1>1. UNCHANGED <<pc, held, waiters>>
  BY DEF Ring!Preempt
<1>2. /\ current' = u /\ state'[u] = "RUNNING"
      /\ state' \in [Users \cup {PipeIdle} -> {"RUNNING", "READY", "BLOCKED"}]
      /\ \A v \in Users \cup {PipeIdle} : state'[v] = "BLOCKED" <=> state[v] = "BLOCKED"
  BY DEF WaitInv, InvThreads, Ring!Preempt, Ring!CPU!Give
<1>3. InvQueues' /\ \A v : Linked(v)' <=> Linked(v)
  BY <1>1, SameQueues DEF WaitInv
<1>4. InvThreads' /\ InvLock'
  BY <1>1, <1>2 DEF WaitInv, InvThreads, InvLock
<1>5. InvLinked'
  BY <1>1, <1>2, <1>3 DEF WaitInv, InvLinked
<1>6. InvAwake'
  BY <1>2 DEF InvAwake
<1> QED BY <1>1, <1>3, <1>4, <1>5, <1>6 DEF WaitInv

(* waitqueue_wakeup_one at the end of a call. *)
LEMMA WakeOneWait ==
  ASSUME WaitInv, NEW t \in Users, current = t, pc[t] = "inside",
         NEW q \in Ends, Ring!waitqueue_wakeup_one(q),
         held' = Ring!Nobody, pc' = [pc EXCEPT ![t] = "out"], UNCHANGED current
  PROVE  /\ WaitInv' /\ ~Linked(t)
         /\ \A u \in Users : Linked(u)' => Linked(u)
         /\ \A u \in Users : Ring!QueueOf(u) = q /\ (\A v \in Users : Ring!QueueOf(v) = q => v = u)
                            => ~Linked(u)'
<1>1. CASE waiters[q] = <<>>
  <2>1. UNCHANGED <<current, state, waiters>>
    BY <1>1 DEF Ring!waitqueue_wakeup_one
  <2>2. WaitInv' /\ ~Linked(t)
    BY <2>1, MoveWait
  <2>3. \A u : Linked(u)' <=> Linked(u)
    BY <2>1, SameQueues
  <2>4. \A u : ~Contains(waiters[q], u)
    BY <1>1 DEF Contains
  <2> QED BY <2>2, <2>3, <2>4 DEF Linked
<1>2. CASE waiters[q] # <<>>
  <2> DEFINE h == Head(waiters[q])
  <2>1. waiters[q] \in Seq(Users) /\ IsInjective(waiters[q])
    BY DEF WaitInv, InvThreads, InvQueues
  <2>2. /\ h \in Users /\ Contains(waiters[q], h)
        /\ Tail(waiters[q]) \in Seq(Users) /\ IsInjective(Tail(waiters[q]))
        /\ \A u : Contains(Tail(waiters[q]), u) <=> Contains(waiters[q], u) /\ u # h
    BY <1>2, <2>1, TailMembers
  <2>3. state' = [state EXCEPT ![h] = "READY"] /\ waiters' = [waiters EXCEPT ![q] = Tail(@)]
    BY <1>2 DEF Ring!waitqueue_wakeup_one
  <2> HIDE DEF h
  <2>4. /\ waiters' \in [Ends -> Seq(Users)] /\ waiters'[q] = Tail(waiters[q])
        /\ \A r \in Ends : r # q => waiters'[r] = waiters[r]
    BY <2>2, <2>3 DEF WaitInv, InvThreads
  <2>5. Ring!QueueOf(h) = q
    BY <2>2 DEF WaitInv, InvQueues
  <2>6. \A u \in Users : Linked(u)' <=> Linked(u) /\ u # h
    <3>1. \A u \in Users : Ring!QueueOf(u) \in Ends /\ Ring!QueueOf(u)' = Ring!QueueOf(u)
      BY PipeFacts DEF Ring!QueueOf
    <3> QED BY <2>2, <2>4, <2>5, <3>1 DEF Linked
  <2>7. ~Linked(t) /\ state[t] # "BLOCKED" /\ \A u \in Users : pc[u] # "linked"
    BY DEF WaitInv, InvLinked, InvAwake, InvLock
  <2>8. InvThreads'
    BY <2>2, <2>3, <2>4 DEF WaitInv, InvThreads
  <2>9. InvQueues'
    BY <2>2, <2>4 DEF WaitInv, InvQueues, Ring!QueueOf
  <2>10. InvLock'
    BY PipeFacts DEF WaitInv, InvLock, InvThreads
  <2>11. InvLinked'
    BY <2>2, <2>3, <2>6, <2>7 DEF WaitInv, InvLinked, InvThreads
  <2>12. InvAwake'
    BY <2>3, <2>7 DEF WaitInv, InvAwake, InvThreads
  <2>13. WaitInv'
    BY <2>8, <2>9, <2>10, <2>11, <2>12 DEF WaitInv
  <2> QED BY <2>2, <2>5, <2>6, <2>7, <2>13
<1> QED BY <1>1, <1>2

(* waitqueue_wakeup_all, which a close calls. *)
LEMMA WakeAllWait ==
  ASSUME WaitInv, NEW t \in Users, current = t, pc[t] = "out", held = Ring!Nobody,
         NEW q \in Ends, Ring!waitqueue_wakeup_all(q), UNCHANGED <<current, pc, held>>
  PROVE  /\ WaitInv' /\ ~Linked(t)
         /\ \A u \in Users : Linked(u)' => Linked(u)
<1>1. /\ waiters' \in [Ends -> Seq(Users)] /\ waiters'[q] = <<>>
      /\ \A r \in Ends : r # q => waiters'[r] = waiters[r]
  <2>1. <<>> \in Seq(Users)
    BY EmptySeq
  <2> QED BY <2>1 DEF Ring!waitqueue_wakeup_all, WaitInv, InvThreads
<1>2. IsInjective(waiters'[q]) /\ \A u : ~Contains(waiters'[q], u)
  BY <1>1 DEF IsInjective, Contains
<1>3. /\ state' \in [Users \cup {PipeIdle} -> {"RUNNING", "READY", "BLOCKED"}]
      /\ \A u \in Users : state'[u] = IF Contains(waiters[q], u) THEN "READY" ELSE state[u]
  <2>1. DOMAIN state = Users \cup {PipeIdle}
    BY DEF WaitInv, InvThreads
  <2>2. state' = [u \in Users \cup {PipeIdle} |-> IF Contains(waiters[q], u) THEN "READY" ELSE state[u]]
    BY <2>1 DEF Ring!waitqueue_wakeup_all, Ring!Contains, Contains
  <2> QED BY <2>2 DEF WaitInv, InvThreads
<1>4. \A u \in Users : Linked(u)' <=> Linked(u) /\ ~Contains(waiters[q], u)
  <2>1. \A u \in Users : Ring!QueueOf(u) \in Ends /\ Ring!QueueOf(u)' = Ring!QueueOf(u)
    BY PipeFacts DEF Ring!QueueOf
  <2> QED BY <1>1, <1>2, <2>1 DEF Linked, WaitInv, InvQueues
<1>5. ~Linked(t) /\ \A u \in Users : pc[u] # "linked"
  BY PipeFacts DEF WaitInv, InvLinked, InvLock
<1>6. InvThreads'
  BY <1>1, <1>3 DEF WaitInv, InvThreads
<1>7. InvQueues'
  BY <1>1, <1>2 DEF WaitInv, InvQueues, Ring!QueueOf
<1>8. InvLock'
  BY DEF WaitInv, InvLock
<1>9. InvLinked'
  BY <1>3, <1>4, <1>5 DEF WaitInv, InvLinked
<1>10. InvAwake'
  BY <1>3 DEF WaitInv, InvAwake
<1> QED BY <1>4, <1>5, <1>6, <1>7, <1>8, <1>9, <1>10 DEF WaitInv

----------------------------------------------------------------------------
\* The ring and what the calls remember of it.
InvRing ==
  /\ buffer \in [0 .. PipeSize - 1 -> PipeBytes \cup {PipeNone}]
  /\ read_pos \in 0 .. PipeSize - 1 /\ write_pos \in 0 .. PipeSize - 1
  /\ data_size \in 0 .. PipeSize
  /\ read_closed \in BOOLEAN /\ write_closed \in BOOLEAN
  /\ left \in [Users -> Nat] /\ moved \in [Users -> BOOLEAN]
  /\ last \in PipeBytes \cup {PipeNone}

PipeInv == WaitInv /\ InvRing /\ InvIndexes /\ InvData

(* Steps that leave the ring alone. *)
LEMMA SameRing ==
  ASSUME PipeInv, UNCHANGED <<buffer, read_pos, write_pos, data_size, last>>,
         left' \in [Users -> Nat], moved' \in [Users -> BOOLEAN],
         read_closed' \in BOOLEAN, write_closed' \in BOOLEAN
  PROVE  InvRing' /\ InvIndexes'
  BY DEF PipeInv, InvRing, InvIndexes

(* Steps that neither link a reader nor take a writer out of its call. *)
LEMMA SameData ==
  ASSUME PipeInv, UNCHANGED <<data_size, read_closed>>,
         \A r \in PipeReaders : Linked(r)' => Linked(r),
         \A w \in PipeWriters : pc[w] # "out" => pc'[w] # "out"
  PROVE  InvData'
  BY DEF PipeInv, InvData

(* No user of the pipe both reads and writes, and who is outside or inside a call is not linked. *)
LEMMA WhoIsWho ==
  ASSUME WaitInv
  PROVE  /\ \A t \in PipeReaders : t \in Users /\ t \notin PipeWriters
         /\ \A t \in PipeWriters : t \in Users /\ t \notin PipeReaders
         /\ \A t \in Users : pc[t] \in {"out", "inside"} => ~Linked(t)
  BY PipeFacts DEF WaitInv, InvLinked, Users

(* A call begins, or goes on after a wait. *)
LEMMA CallInv ==
  ASSUME PipeInv, NEW t \in Users, Ring!Again(t) \/ \E n \in PipeCounts : Ring!Call(t, n)
  PROVE  PipeInv'
<1>1. /\ current = t /\ pc[t] \in {"out", "asleep"} /\ held = Ring!Nobody
      /\ held' = t /\ pc' = [pc EXCEPT ![t] = "inside"]
      /\ UNCHANGED <<current, state, waiters>>
      /\ UNCHANGED <<buffer, read_pos, write_pos, data_size, last, read_closed, write_closed>>
  BY DEF Ring!Again, Ring!Call, Ring!At, Ring!GoTo, Ring!spinlock_acquire, Ring!pipeVars,
         Ring!ring, Ring!closing
<1>2. left' \in [Users -> Nat] /\ moved' \in [Users -> BOOLEAN]
  BY PipeFacts DEF Ring!Again, Ring!Call, Ring!pipeVars, PipeInv, InvRing
<1>3. WaitInv'
  BY <1>1, MoveWait DEF PipeInv
<1>4. InvRing' /\ InvIndexes'
  BY <1>1, <1>2, SameRing DEF PipeInv, InvRing
<1>5. InvData'
  <2>1. \A r \in PipeReaders : Linked(r)' => Linked(r)
    BY <1>1, SameQueues
  <2>2. \A w \in PipeWriters : pc[w] # "out" => pc'[w] # "out"
    BY <1>1, WhoIsWho DEF PipeInv, WaitInv, InvThreads
  <2> QED BY <1>1, <2>1, <2>2, SameData
<1> QED BY <1>3, <1>4, <1>5 DEF PipeInv

(* A call waits. *)
LEMMA WaitStepInv ==
  ASSUME PipeInv, NEW t \in Users, Ring!Wait(t)
  PROVE  PipeInv'
<1>1. /\ Ring!Mark(t) \/ Ring!Unlock(t) \/ Ring!Sleep(t)
      /\ UNCHANGED <<buffer, read_pos, write_pos, data_size, last, read_closed, write_closed,
                     left, moved>>
  BY DEF Ring!Wait, Ring!pipeVars, Ring!ring, Ring!closing
<1>2. /\ WaitInv' /\ UNCHANGED waiters /\ pc'[t] # "out"
      /\ \A u \in Users : u # t => pc'[u] = pc[u]
  BY <1>1, SleepWait DEF PipeInv
<1>3. InvRing' /\ InvIndexes'
  BY <1>1 DEF PipeInv, InvRing, InvIndexes
<1>4. InvData'
  <2>1. \A r \in PipeReaders : Linked(r)' => Linked(r)
    BY <1>2, SameQueues
  <2>2. \A w \in PipeWriters : pc[w] # "out" => pc'[w] # "out"
    BY <1>2, WhoIsWho DEF PipeInv
  <2> QED BY <1>1, <2>1, <2>2, SameData
<1> QED BY <1>2, <1>3, <1>4 DEF PipeInv

(* A timer interrupt in the middle of pipe_read or pipe_write keeps the invariant. *)
LEMMA PreemptInv ==
  ASSUME PipeInv, NEW u \in Users \cup {PipeIdle}, Ring!Preempt(u), UNCHANGED Ring!pipeVars
  PROVE  PipeInv'
<1>1. UNCHANGED <<buffer, read_pos, write_pos, data_size, last, read_closed, write_closed,
                  left, moved>>
  BY DEF Ring!pipeVars, Ring!ring, Ring!closing
<1>2. WaitInv' /\ UNCHANGED <<pc, waiters>>
  BY PreemptWait DEF PipeInv
<1>3. InvRing' /\ InvIndexes'
  BY <1>1 DEF PipeInv, InvRing, InvIndexes
<1>4. InvData'
  BY <1>1, <1>2, SameQueues, SameData
<1> QED BY <1>2, <1>3, <1>4 DEF PipeInv

(* pipe_read waits for data, pipe_write for room. *)
LEMMA EnqueueInv ==
  ASSUME PipeInv, NEW t \in Users,
         \/ t \in PipeReaders /\ Ring!ReadWait(t)
         \/ t \in PipeWriters /\ Ring!WriteWait(t)
  PROVE  PipeInv'
<1>1. /\ current = t /\ pc[t] = "inside" /\ Ring!Enqueue(t)
      /\ pc' = [pc EXCEPT ![t] = "linked"]
      /\ UNCHANGED <<buffer, read_pos, write_pos, data_size, last, read_closed, write_closed,
                     left, moved>>
  BY DEF Ring!ReadWait, Ring!WriteWait, Ring!Enqueue, Ring!At, Ring!GoTo, Ring!pipeVars,
         Ring!ring, Ring!closing
<1>2. WaitInv' /\ \A u \in Users : Linked(u)' <=> Linked(u) \/ u = t
  BY <1>1, EnqueueWait DEF PipeInv
<1>3. InvRing' /\ InvIndexes'
  BY <1>1 DEF PipeInv, InvRing, InvIndexes
<1>4. InvData'
  <2>1. CASE t \in PipeReaders /\ Ring!ReadWait(t)
    <3>1. data_size = 0
      BY <2>1 DEF Ring!ReadWait
    <3> QED BY <1>1, <3>1 DEF InvData
  <2>2. CASE t \in PipeWriters
    <3>1. \A r \in PipeReaders : Linked(r)' => Linked(r)
      BY <1>2, <2>2, WhoIsWho DEF PipeInv
    <3>2. \A w \in PipeWriters : pc[w] # "out" => pc'[w] # "out"
      BY <1>1, WhoIsWho DEF PipeInv, WaitInv, InvThreads
    <3> QED BY <1>1, <3>1, <3>2, SameData
  <2> QED BY <2>1, <2>2
<1> QED BY <1>2, <1>3, <1>4 DEF PipeInv

(* The three ways out of a call that wake nobody or a writer, and the fourth. *)
LEMMA ReturnInv ==
  ASSUME PipeInv, NEW t \in Users,
         \/ t \in PipeReaders /\ (Ring!ReadEof(t) \/ Ring!ReadDone(t))
         \/ t \in PipeWriters /\ (Ring!WriteBroken(t) \/ Ring!WriteDone(t))
  PROVE  PipeInv'
<1>1. /\ current = t /\ pc[t] = "inside" /\ held' = Ring!Nobody
      /\ pc' = [pc EXCEPT ![t] = "out"]
      /\ left' = [left EXCEPT ![t] = 0] /\ moved' = [moved EXCEPT ![t] = FALSE]
      /\ UNCHANGED current
      /\ UNCHANGED <<buffer, read_pos, write_pos, data_size, last, read_closed, write_closed>>
  BY DEF Ring!ReadEof, Ring!ReadDone, Ring!WriteBroken, Ring!WriteDone, Ring!Return, Ring!At,
         Ring!GoTo, Ring!spinlock_release, Ring!ring, Ring!closing
<1>2. InvRing' /\ InvIndexes'
  <2>1. left' \in [Users -> Nat] /\ moved' \in [Users -> BOOLEAN]
    BY <1>1 DEF PipeInv, InvRing
  <2> QED BY <1>1, <2>1, SameRing DEF PipeInv, InvRing
<1>3. ASSUME UNCHANGED <<state, waiters>>
      PROVE  WaitInv' /\ \A u \in Users : Linked(u)' => Linked(u)
  BY <1>1, <1>3, MoveWait, SameQueues DEF PipeInv
<1>4. ASSUME t \in PipeReaders, WaitInv', \A u \in Users : Linked(u)' => Linked(u)
      PROVE  PipeInv'
  <2>1. \A w \in PipeWriters : pc[w] # "out" => pc'[w] # "out"
    BY <1>1, <1>4, WhoIsWho DEF PipeInv, WaitInv, InvThreads
  <2>2. InvData'
    BY <1>1, <1>4, <2>1, WhoIsWho, SameData DEF PipeInv
  <2> QED BY <1>2, <1>4, <2>2 DEF PipeInv
<1>5. CASE t \in PipeReaders /\ Ring!ReadEof(t)
  <2>1. UNCHANGED <<state, waiters>>
    BY <1>5 DEF Ring!ReadEof
  <2> QED BY <1>3, <1>4, <1>5, <2>1
<1>6. CASE t \in PipeReaders /\ Ring!ReadDone(t)
  <2>1. Ring!waitqueue_wakeup_one("write_queue") /\ "write_queue" \in Ends
    BY <1>6 DEF Ring!ReadDone, Ends
  <2>2. WaitInv' /\ \A u \in Users : Linked(u)' => Linked(u)
    BY <1>1, <2>1, WakeOneWait DEF PipeInv
  <2> QED BY <1>4, <1>6, <2>2
<1>7. CASE t \in PipeWriters /\ Ring!WriteBroken(t)
  <2>1. read_closed /\ UNCHANGED <<state, waiters>>
    BY <1>7 DEF Ring!WriteBroken
  <2>2. WaitInv' /\ \A u \in Users : Linked(u)' => Linked(u)
    BY <1>3, <2>1
  <2>3. InvData'
    BY <1>1, <2>1, <2>2, WhoIsWho DEF PipeInv, InvData
  <2> QED BY <1>2, <2>2, <2>3 DEF PipeInv
<1>8. CASE t \in PipeWriters /\ Ring!WriteDone(t)
  <2>1. Ring!waitqueue_wakeup_one("read_queue") /\ "read_queue" \in Ends
    BY <1>8 DEF Ring!WriteDone, Ends
  <2>2. /\ WaitInv' /\ \A u \in Users : Linked(u)' => Linked(u)
        /\ \A u \in Users :
             Ring!QueueOf(u) = "read_queue" /\ (\A v \in Users : Ring!QueueOf(v) = "read_queue" => v = u)
             => ~Linked(u)'
    BY <1>1, <2>1, WakeOneWait DEF PipeInv
  <2>3. ASSUME NEW r \in PipeReaders, PipeReaders = {r} PROVE ~Linked(r)'
    <3>1. /\ r \in Users /\ Ring!QueueOf(r) = "read_queue"
          /\ \A v \in Users : Ring!QueueOf(v) = "read_queue" => v = r
      BY <2>3, PipeFacts, WhoIsWho DEF PipeInv, Ring!QueueOf
    <3> QED BY <2>2, <3>1
  <2>4. InvData'
    BY <2>3 DEF InvData
  <2> QED BY <1>2, <2>2, <2>4 DEF PipeInv
<1> QED BY <1>5, <1>6, <1>7, <1>8

(* An end is closed. *)
LEMMA CloseInv ==
  ASSUME PipeInv, NEW t \in Users,
         \/ t \in PipeReaders /\ Ring!pipe_close_read(t)
         \/ t \in PipeWriters /\ Ring!pipe_close_write(t)
  PROVE  PipeInv'
<1>1. /\ current = t /\ pc[t] = "out" /\ held = Ring!Nobody /\ UNCHANGED <<current, pc, held>>
      /\ UNCHANGED <<buffer, read_pos, write_pos, data_size, last, left, moved>>
  BY DEF Ring!pipe_close_read, Ring!pipe_close_write, Ring!At, Ring!ring
<1>2. PICK q \in Ends : Ring!waitqueue_wakeup_all(q)
  BY DEF Ring!pipe_close_read, Ring!pipe_close_write, Ends
<1>3. WaitInv' /\ ~Linked(t) /\ \A u \in Users : Linked(u)' => Linked(u)
  BY <1>1, <1>2, WakeAllWait DEF PipeInv
<1>4. read_closed' \in BOOLEAN /\ write_closed' \in BOOLEAN
  BY DEF Ring!pipe_close_read, Ring!pipe_close_write, PipeInv, InvRing
<1>5. InvRing' /\ InvIndexes'
  BY <1>1, <1>4, SameRing DEF PipeInv, InvRing
<1>6. InvData'
  <2>1. CASE t \in PipeReaders
    <3>1. \A r \in PipeReaders : PipeReaders = {r} => ~Linked(r)'
      BY <1>3, <2>1
    <3> QED BY <3>1 DEF InvData
  <2>2. CASE t \in PipeWriters /\ Ring!pipe_close_write(t)
    <3>1. UNCHANGED read_closed
      BY <2>2 DEF Ring!pipe_close_write
    <3> QED BY <1>1, <1>3, <3>1, WhoIsWho, SameData DEF PipeInv
  <2> QED BY <2>1, <2>2
<1> QED BY <1>3, <1>5, <1>6 DEF PipeInv

(* The slot k places after slot h of the pipe. *)
LEMMA PipePlace ==
  ASSUME NEW h \in 0 .. PipeSize - 1, NEW k \in 0 .. PipeSize
  PROVE  (h + k) % PipeSize = IF h + k < PipeSize THEN h + k ELSE h + k - PipeSize
<1>1. PipeSize \in Nat \ {0}
  BY PipeFacts
<1> QED BY <1>1, PlaceLemma

(* One byte is read. *)
LEMMA ReadByteInv ==
  ASSUME PipeInv, NEW t \in PipeReaders, Ring!ReadByte(t)
  PROVE  PipeInv'
<1>1. /\ pc[t] = "inside" /\ left[t] > 0 /\ data_size > 0 /\ last' = buffer[read_pos]
      /\ read_pos' = (read_pos + 1) % PipeSize /\ data_size' = data_size - 1
      /\ left' = [left EXCEPT ![t] = @ - 1] /\ moved' = [moved EXCEPT ![t] = TRUE]
      /\ UNCHANGED <<current, state, pc, held, waiters>>
      /\ UNCHANGED <<buffer, write_pos, read_closed, write_closed>>
  BY DEF Ring!ReadByte, Ring!At, Ring!waitVars, Ring!closing
<1>2. t \in Users /\ ~Linked(t)
  BY <1>1, WhoIsWho DEF PipeInv
<1>3. /\ PipeSize \in Nat \ {0} /\ read_pos \in 0 .. PipeSize - 1 /\ data_size \in 1 .. PipeSize
      /\ data_size' \in 0 .. PipeSize
      /\ write_pos = IF read_pos + data_size < PipeSize THEN read_pos + data_size
                     ELSE read_pos + data_size - PipeSize
  <2>1. PipeSize \in Nat \ {0} /\ read_pos \in 0 .. PipeSize - 1 /\ data_size \in 0 .. PipeSize
    BY PipeFacts DEF PipeInv, InvRing
  <2>2. write_pos = (read_pos + data_size) % PipeSize
    BY DEF PipeInv, InvIndexes
  <2>3. (read_pos + data_size) % PipeSize = IF read_pos + data_size < PipeSize
          THEN read_pos + data_size ELSE read_pos + data_size - PipeSize
    BY <2>1, PipePlace
  <2> QED BY <1>1, <2>1, <2>2, <2>3
<1>4. /\ read_pos' = (IF read_pos + 1 = PipeSize THEN 0 ELSE read_pos + 1)
      /\ read_pos' \in 0 .. PipeSize - 1
  BY <1>1, <1>3, AfterLemma
<1>5. (read_pos' + data_size') % PipeSize =
        IF read_pos' + data_size' < PipeSize THEN read_pos' + data_size'
        ELSE read_pos' + data_size' - PipeSize
  BY <1>3, <1>4, PipePlace
<1>6. InvIndexes'
  BY <1>1, <1>3, <1>4, <1>5 DEF InvIndexes
<1>7. InvRing'
  <2>1. left' \in [Users -> Nat] /\ moved' \in [Users -> BOOLEAN]
    BY <1>1, <1>2 DEF PipeInv, InvRing
  <2>2. last' \in PipeBytes \cup {PipeNone}
    BY <1>1, <1>3 DEF PipeInv, InvRing
  <2> QED BY <1>1, <1>3, <1>4, <2>1, <2>2 DEF PipeInv, InvRing
<1>8. WaitInv' /\ \A u : Linked(u)' <=> Linked(u)
  <2>1. InvQueues' /\ \A u : Linked(u)' <=> Linked(u)
    BY <1>1, SameQueues DEF PipeInv, WaitInv
  <2> QED BY <1>1, <2>1 DEF PipeInv, WaitInv, InvThreads, InvLock, InvLinked, InvAwake
<1>9. InvData'
  BY <1>2, <1>8 DEF InvData
<1> QED BY <1>6, <1>7, <1>8, <1>9 DEF PipeInv

(* One byte is written. *)
LEMMA WriteByteInv ==
  ASSUME PipeInv, NEW t \in PipeWriters, NEW x \in PipeBytes, Ring!WriteByte(t, x)
  PROVE  PipeInv'
<1>1. /\ pc[t] = "inside" /\ left[t] > 0 /\ data_size < PipeSize /\ ~read_closed
      /\ buffer' = [buffer EXCEPT ![write_pos] = x]
      /\ write_pos' = (write_pos + 1) % PipeSize /\ data_size' = data_size + 1
      /\ left' = [left EXCEPT ![t] = @ - 1]
      /\ UNCHANGED <<current, state, pc, held, waiters>>
      /\ UNCHANGED <<read_pos, moved, last, read_closed, write_closed>>
  BY DEF Ring!WriteByte, Ring!At, Ring!waitVars, Ring!closing
<1>2. t \in Users
  BY WhoIsWho DEF PipeInv
<1>3. /\ PipeSize \in Nat \ {0} /\ read_pos \in 0 .. PipeSize - 1 /\ data_size \in 0 .. PipeSize - 1
      /\ data_size' \in 0 .. PipeSize
      /\ write_pos \in 0 .. PipeSize - 1
      /\ write_pos = IF read_pos + data_size < PipeSize THEN read_pos + data_size
                     ELSE read_pos + data_size - PipeSize
  <2>1. /\ PipeSize \in Nat \ {0} /\ read_pos \in 0 .. PipeSize - 1 /\ data_size \in 0 .. PipeSize
        /\ write_pos \in 0 .. PipeSize - 1
    BY PipeFacts DEF PipeInv, InvRing
  <2>2. write_pos = (read_pos + data_size) % PipeSize
    BY DEF PipeInv, InvIndexes
  <2>3. (read_pos + data_size) % PipeSize = IF read_pos + data_size < PipeSize
          THEN read_pos + data_size ELSE read_pos + data_size - PipeSize
    BY <2>1, PipePlace
  <2> QED BY <1>1, <2>1, <2>2, <2>3
<1>4. /\ write_pos' = (IF write_pos + 1 = PipeSize THEN 0 ELSE write_pos + 1)
      /\ write_pos' \in 0 .. PipeSize - 1
  BY <1>1, <1>3, AfterLemma
<1>5. (read_pos + data_size') % PipeSize =
        IF read_pos + data_size' < PipeSize THEN read_pos + data_size'
        ELSE read_pos + data_size' - PipeSize
  BY <1>3, PipePlace
<1>6. InvIndexes'
  BY <1>1, <1>3, <1>4, <1>5 DEF InvIndexes
<1>7. InvRing'
  <2>1. left' \in [Users -> Nat] /\ buffer' \in [0 .. PipeSize - 1 -> PipeBytes \cup {PipeNone}]
    BY <1>1, <1>2, <1>3 DEF PipeInv, InvRing
  <2> QED BY <1>1, <1>3, <1>4, <2>1 DEF PipeInv, InvRing
<1>8. WaitInv' /\ \A u : Linked(u)' <=> Linked(u)
  <2>1. InvQueues' /\ \A u : Linked(u)' <=> Linked(u)
    BY <1>1, SameQueues DEF PipeInv, WaitInv
  <2> QED BY <1>1, <2>1 DEF PipeInv, WaitInv, InvThreads, InvLock, InvLinked, InvAwake
<1>9. InvData'
  BY <1>1 DEF InvData
<1> QED BY <1>6, <1>7, <1>8, <1>9 DEF PipeInv

(* The invariant holds of the pipe that pipe_create returns. *)
LEMMA PipeInit == Ring!Init => PipeInv
<1> SUFFICES ASSUME Ring!Init PROVE PipeInv
  OBVIOUS
<1>1. /\ current = PipeIdle /\ held = Ring!Nobody /\ waiters = [q \in Ends |-> <<>>]
      /\ state = [t \in Users \cup {PipeIdle} |-> IF t = PipeIdle THEN "RUNNING" ELSE "READY"]
      /\ pc = [t \in Users |-> "out"]
      /\ buffer = [i \in 0 .. PipeSize - 1 |-> PipeNone]
      /\ read_pos = 0 /\ write_pos = 0 /\ data_size = 0 /\ last = PipeNone
      /\ read_closed = FALSE /\ write_closed = FALSE
      /\ left = [t \in Users |-> 0] /\ moved = [t \in Users |-> FALSE]
  BY DEF Ring!Init, Ring!WaitInit, Users, Ends
<1>2. \A q \in Ends : waiters[q] = <<>> /\ waiters[q] \in Seq(Users) /\ IsInjective(waiters[q])
                    /\ \A u : ~Contains(waiters[q], u)
  BY <1>1, EmptySeq DEF IsInjective, Contains
<1>3. \A u : ~Linked(u)
  BY <1>2, PipeFacts DEF Linked
<1>4. InvThreads /\ InvQueues
  BY <1>1, <1>2 DEF InvThreads, InvQueues
<1>5. InvLock /\ InvLinked /\ InvAwake
  BY <1>1, <1>3, PipeFacts DEF InvLock, InvLinked, InvAwake
<1>6. InvRing /\ InvIndexes
  <2>1. (0 + 0) % PipeSize = 0
    <3> DEFINE z == 0
    <3>1. z \in 0 .. PipeSize - 1 /\ z \in 0 .. PipeSize /\ z + z < PipeSize /\ z + z = 0
      BY PipeFacts
    <3> HIDE DEF z
    <3>2. (z + z) % PipeSize = 0
      BY <3>1, PipePlace
    <3> QED BY <3>2 DEF z
  <2>2. InvIndexes
    BY <1>1, <2>1 DEF InvIndexes
  <2>3. /\ PipeSize \in Nat \ {0}
        /\ 0 \in 0 .. PipeSize - 1 /\ 0 \in 0 .. PipeSize /\ 0 \in Nat
    BY PipeFacts
  <2>4. /\ buffer \in [0 .. PipeSize - 1 -> PipeBytes \cup {PipeNone}]
        /\ read_closed \in BOOLEAN /\ write_closed \in BOOLEAN
        /\ last \in PipeBytes \cup {PipeNone}
    BY <1>1
  <2>5. left \in [Users -> Nat] /\ moved \in [Users -> BOOLEAN]
    BY <1>1
  <2> QED BY <1>1, <2>2, <2>3, <2>4, <2>5 DEF InvRing
<1>7. InvData
  BY <1>3 DEF InvData
<1> QED BY <1>4, <1>5, <1>6, <1>7 DEF PipeInv, WaitInv

(* Every statement of pipe_read, pipe_write and pipe_close keeps the invariant. *)
LEMMA PipeStep == ASSUME PipeInv, [Ring!Next]_(Ring!vars) PROVE PipeInv'
<1>1. ASSUME NEW t \in Users, Ring!Wait(t) \/ Ring!Again(t) \/ \E n \in PipeCounts : Ring!Call(t, n)
      PROVE  PipeInv'
  BY <1>1, WaitStepInv, CallInv
<1>2. ASSUME NEW t \in PipeReaders,
             \/ Ring!ReadWait(t) \/ Ring!ReadEof(t) \/ Ring!ReadByte(t) \/ Ring!ReadDone(t)
             \/ Ring!pipe_close_read(t)
      PROVE  PipeInv'
  <2>1. t \in Users /\ t \in PipeReaders
    BY DEF Users
  <2>2. CASE Ring!ReadWait(t)
    BY <2>1, <2>2, EnqueueInv
  <2>3. CASE Ring!ReadEof(t) \/ Ring!ReadDone(t)
    BY <2>1, <2>3, ReturnInv
  <2>4. CASE Ring!ReadByte(t) \/ Ring!pipe_close_read(t)
    BY <2>1, <2>4, ReadByteInv, CloseInv
  <2> QED BY <1>2, <2>2, <2>3, <2>4
<1>3. ASSUME NEW t \in PipeWriters,
             \/ Ring!WriteWait(t) \/ Ring!WriteBroken(t) \/ Ring!WriteDone(t)
             \/ \E x \in PipeBytes : Ring!WriteByte(t, x)
             \/ Ring!pipe_close_write(t)
      PROVE  PipeInv'
  <2>1. t \in Users /\ t \in PipeWriters
    BY DEF Users
  <2>2. CASE Ring!WriteWait(t)
    BY <2>1, <2>2, EnqueueInv
  <2>3. CASE Ring!WriteBroken(t) \/ Ring!WriteDone(t)
    BY <2>1, <2>3, ReturnInv
  <2>4. CASE Ring!pipe_close_write(t)
    BY <2>1, <2>4, CloseInv
  <2> QED BY <1>3, <2>2, <2>3, <2>4, WriteByteInv
<1>4. ASSUME NEW u \in Users \cup {PipeIdle}, Ring!Preempt(u), UNCHANGED Ring!pipeVars
      PROVE  PipeInv'
  BY <1>4, PreemptInv
<1>5. CASE UNCHANGED Ring!vars
  BY <1>5, SameQueues
     DEF Ring!vars, Ring!waitVars, Ring!pipeVars, Ring!ring, Ring!closing, PipeInv, WaitInv,
         InvThreads, InvLock, InvLinked, InvAwake, InvRing, InvIndexes, InvData
<1> QED BY <1>1, <1>2, <1>3, <1>4, <1>5 DEF Ring!Next, Users

(* What the run checks of the pipe follows from the invariant. *)
LEMMA PipeGives == PipeInv => Ring!TypeOK /\ Ring!SleepersQueued /\ Ring!NoSleepBesideData
<1> SUFFICES ASSUME PipeInv PROVE Ring!TypeOK /\ Ring!SleepersQueued /\ Ring!NoSleepBesideData
  OBVIOUS
<1>1. Ring!TypeOK
  <2>1. Ring!WaitTypeOK
    BY DEF PipeInv, WaitInv, InvThreads, Ring!WaitTypeOK, Users, Ends
  <2>2. pc \in [Users -> Ring!WaitPlaces \cup {"out", "inside"}]
    <3>1. Ring!WaitPlaces \cup {"out", "inside"}
            = {"linked", "blocked", "unlocked", "asleep", "out", "inside"}
      BY DEF Ring!WaitPlaces
    <3> QED BY <3>1 DEF PipeInv, WaitInv, InvThreads
  <2> QED BY <2>1, <2>2 DEF Ring!TypeOK, PipeInv, InvRing, Users
<1>2. Ring!SleepersQueued
  <2>1. \A q \in Ends : Ring!IsInjective(waiters[q])
    BY DEF PipeInv, WaitInv, InvQueues, IsInjective, Ring!IsInjective
  <2>2. ASSUME NEW t \in Users
        PROVE  LET queued == {q \in Ends : Ring!Contains(waiters[q], t)} IN
                 /\ state[t] = "BLOCKED" => queued # {}
                 /\ \A q, r \in queued : q = r
                 /\ queued # {} => \/ pc[t] = "linked" /\ held = t
                                   \/ /\ pc[t] \in Ring!WaitPlaces \ {"linked"}
                                      /\ state[t] = "BLOCKED"
    <3> DEFINE queued == {q \in Ends : Ring!Contains(waiters[q], t)}
    <3>1. \A q : Ring!Contains(waiters[q], t) <=> Contains(waiters[q], t)
      BY DEF Contains, Ring!Contains
    <3>2. \A q \in queued : q = Ring!QueueOf(t) /\ Linked(t)
      BY <3>1 DEF PipeInv, WaitInv, InvQueues, Linked
    <3>3. Linked(t) => Ring!QueueOf(t) \in queued
      BY <3>1, PipeFacts DEF Linked
    <3>4. /\ state[t] = "BLOCKED" => Linked(t)
          /\ Linked(t) => \/ pc[t] = "linked"
                          \/ pc[t] \in {"blocked", "unlocked", "asleep"} /\ state[t] = "BLOCKED"
          /\ pc[t] = "linked" => held = t
      BY DEF PipeInv, WaitInv, InvLinked, InvLock
    <3>5. {"blocked", "unlocked", "asleep"} = Ring!WaitPlaces \ {"linked"}
      BY DEF Ring!WaitPlaces
    <3> HIDE DEF queued
    <3>6. /\ state[t] = "BLOCKED" => queued # {}
          /\ \A q, r \in queued : q = r
          /\ queued # {} => \/ pc[t] = "linked" /\ held = t
                            \/ /\ pc[t] \in Ring!WaitPlaces \ {"linked"}
                               /\ state[t] = "BLOCKED"
      BY <3>2, <3>3, <3>4, <3>5
    <3> QED BY <3>6 DEF queued
  <2> QED BY <2>1, <2>2 DEF Ring!SleepersQueued, Users, Ends
<1>3. Ring!NoSleepBesideData
  <2> SUFFICES ASSUME NEW r \in PipeReaders, Ring!Asleep(r), PipeReaders = {r}, data_size > 0
               PROVE  \E w \in PipeWriters : pc[w] # "out"
    BY DEF Ring!NoSleepBesideData
  <2>1. r \in Users /\ state[r] = "BLOCKED"
    BY DEF Ring!Asleep, Users
  <2>2. Linked(r)
    BY <2>1 DEF PipeInv, WaitInv, InvLinked
  <2> QED BY <2>2 DEF PipeInv, InvData
<1> QED BY <1>1, <1>2, <1>3

(* The invariant of the pipe holds in every state of pipe.c's calls, whatever the timer does. *)
THEOREM PipeInductive == Ring!Spec => []PipeInv
  BY PipeInit, PipeStep, PTL DEF Ring!Spec

(* What the machine of the pipe does in the system of the run is what pipe.c does. *)
LEMMA PipeRuns == MCSpec => Ring!Spec
<1>1. MCInit => Ring!Init
  BY DEF MCInit
<1>2. [MCNext]_all => [Ring!Next]_(Ring!vars)
  <2>1. MCNext => (machine = "pipe" /\ Ring!Next) \/ UNCHANGED pipeVars
    BY DEF MCNext, EventsOnly, LogOnly, KeysOnly, CardOnly, LanOnly, DisplayOnly, TypedOnly,
           BusOnly, others
  <2>2. UNCHANGED pipeVars => UNCHANGED Ring!vars
    BY DEF pipeVars, Ring!vars, Ring!waitVars, Ring!pipeVars, Ring!ring, Ring!closing
  <2>3. UNCHANGED all => UNCHANGED pipeVars
    BY DEF all, others
  <2> QED BY <2>1, <2>2, <2>3
<1> QED BY <1>1, <1>2, PTL DEF MCSpec, Ring!Spec

(* Whoever sleeps at an end of the pipe is linked where a wakeup looks for it, once; and
   the only reader is not left asleep beside data (pipe_read, pipe_write, waitqueue.c). *)
THEOREM PipeWakesHolds == MCSpec => []PipeWakes
<1>1. PipeInv => PipeWakes
  BY PipeGives DEF PipeWakes
<1> QED BY <1>1, PipeInductive, PipeRuns, PTL

(* The types of the pipe's state and of the threads that use it (pipe_t, thread_t). *)
THEOREM PipeTypes == MCSpec => []Ring!TypeOK
<1>1. PipeInv => Ring!TypeOK
  BY PipeGives
<1> QED BY <1>1, PipeInductive, PipeRuns, PTL

PipeContents == RingItems(PipeSize, buffer, read_pos, data_size)

(* A byte that is read is the oldest of the queue, a byte that is written the newest. *)
LEMMA PipeRefines ==
  ASSUME PipeInv, [Ring!Next]_(Ring!vars)
  PROVE  [Ring!Stream!Next]_(Ring!Stream!fvars)
<1>0. /\ PipeSize \in Nat \ {0} /\ read_pos \in 0 .. PipeSize - 1 /\ data_size \in 0 .. PipeSize
      /\ buffer \in [0 .. PipeSize - 1 -> PipeBytes \cup {PipeNone}]
      /\ write_pos \in 0 .. PipeSize - 1
      /\ write_pos = (read_pos + data_size) % PipeSize
  BY PipeFacts DEF PipeInv, InvRing, InvIndexes
<1>1. ASSUME UNCHANGED <<buffer, read_pos, data_size, last>>
      PROVE  [Ring!Stream!Next]_(Ring!Stream!fvars)
  BY <1>1 DEF Ring!Stream!fvars
<1>2. ASSUME NEW t \in PipeReaders, Ring!ReadByte(t)
      PROVE  [Ring!Stream!Next]_(Ring!Stream!fvars)
  <2>1. /\ data_size > 0 /\ last' = buffer[read_pos]
        /\ read_pos' = (read_pos + 1) % PipeSize /\ data_size' = data_size - 1
        /\ buffer' = buffer
    BY <1>2 DEF Ring!ReadByte
  <2>2. /\ PipeSize \in Nat \ {0} /\ read_pos \in 0 .. PipeSize - 1 /\ data_size \in 1 .. PipeSize
    BY <1>0, <2>1
  <2>3. /\ PipeContents # <<>> /\ Head(PipeContents) = buffer[read_pos]
        /\ Tail(PipeContents)
             = RingItems(PipeSize, buffer, (read_pos + 1) % PipeSize, data_size - 1)
    BY <2>2, RingTake, Zenon DEF PipeContents
  <2>4. PipeContents' = RingItems(PipeSize, buffer, (read_pos + 1) % PipeSize, data_size - 1)
    BY <2>1 DEF PipeContents, RingItems
  <2>5. PipeContents # <<>> /\ PipeContents' = Tail(PipeContents) /\ last' = Head(PipeContents)
    BY <2>1, <2>3, <2>4
  <2>6. Ring!Stream!Take
    BY <2>5 DEF Ring!Stream!Take, PipeContents, RingItems
  <2> QED BY <2>6 DEF Ring!Stream!Next
<1>3. ASSUME NEW t \in PipeWriters, NEW x \in PipeBytes, Ring!WriteByte(t, x)
      PROVE  [Ring!Stream!Next]_(Ring!Stream!fvars)
  <2>1. /\ data_size < PipeSize /\ buffer' = [buffer EXCEPT ![write_pos] = x]
        /\ read_pos' = read_pos /\ data_size' = data_size + 1 /\ last' = last
    BY <1>3 DEF Ring!WriteByte
  <2>2. /\ buffer'[write_pos] = x
        /\ \A i \in 0 .. PipeSize - 1 : i # write_pos => buffer'[i] = buffer[i]
        /\ data_size \in 0 .. PipeSize - 1 /\ data_size \in Nat
    BY <1>0, <2>1
  <2>3. RingItems(PipeSize, buffer', read_pos, data_size + 1)
          = Append(PipeContents, buffer'[(read_pos + data_size) % PipeSize])
    <3> DEFINE c == buffer'
    <3>1. /\ PipeSize \in Nat \ {0} /\ read_pos \in 0 .. PipeSize - 1
          /\ data_size \in 0 .. PipeSize - 1
          /\ \A i \in 0 .. PipeSize - 1 :
               i # (read_pos + data_size) % PipeSize => c[i] = buffer[i]
      BY <1>0, <2>2
    <3> HIDE DEF c
    <3>2. RingItems(PipeSize, c, read_pos, data_size + 1)
            = Append(RingItems(PipeSize, buffer, read_pos, data_size),
                     c[(read_pos + data_size) % PipeSize])
      BY <3>1, RingPut, Zenon
    <3> QED BY <3>2 DEF PipeContents, c
  <2>4. PipeContents' = RingItems(PipeSize, buffer', read_pos, data_size + 1)
    BY <2>1 DEF PipeContents, RingItems
  <2>5. PipeContents' = Append(PipeContents, x)
    BY <1>0, <2>2, <2>3, <2>4
  <2>6. Len(PipeContents) < PipeSize
    BY <2>1, <2>2, RingLen DEF PipeContents
  <2>7. Ring!Stream!Put(x)
    BY <2>1, <2>5, <2>6 DEF Ring!Stream!Put, PipeContents, RingItems
  <2> QED BY <2>7 DEF Ring!Stream!Next
<1>4. CASE UNCHANGED Ring!vars
  BY <1>1, <1>4 DEF Ring!vars, Ring!pipeVars, Ring!ring
<1>5. \/ UNCHANGED <<buffer, read_pos, data_size, last>>
      \/ \E t \in PipeReaders : Ring!ReadByte(t)
      \/ \E t \in PipeWriters, x \in PipeBytes : Ring!WriteByte(t, x)
  BY <1>4 DEF Ring!Next, Ring!Call, Ring!Wait, Ring!Again, Ring!ReadWait, Ring!ReadEof,
     Ring!ReadDone, Ring!pipe_close_read, Ring!WriteWait, Ring!WriteBroken, Ring!WriteDone,
     Ring!pipe_close_write, Ring!Enqueue, Ring!pipeVars, Ring!ring, Ring!vars
<1> QED BY <1>1, <1>2, <1>3, <1>5

(* The pipe is a bounded first-in first-out queue of bytes: nothing is lost, repeated or
   read out of order, whoever calls pipe_read and pipe_write and wherever the timer comes. *)
THEOREM PipeStreamHolds == MCSpec => PipeStream
<1>1. Ring!Init => Ring!Stream!Init
  <2> SUFFICES ASSUME Ring!Init PROVE Ring!Stream!Init
    OBVIOUS
  <2>1. data_size = 0 /\ last = PipeNone
    BY DEF Ring!Init
  <2>2. [i \in 1 .. data_size |-> buffer[(read_pos + i - 1) % PipeSize]] = <<>>
    BY <2>1
  <2> QED BY <2>1, <2>2 DEF Ring!Stream!Init
<1>2. PipeInv /\ [Ring!Next]_(Ring!vars) => [Ring!Stream!Next]_(Ring!Stream!fvars)
  BY PipeRefines
<1>3. Ring!Spec => Ring!Stream!Spec
  BY <1>1, <1>2, PipeInductive, PTL DEF Ring!Spec, Ring!Stream!Spec
<1> QED BY <1>3, PipeRuns DEF PipeStream, Ring!StreamSpec

----------------------------------------------------------------------------
(* Slots counted backwards from i. *)
Back(N, i, k) == (i + N - k) % N

(* The kernel log.  h has the newest c messages of s before slot i, wherever it
   wrapped around. *)
LogKept(h, s, i, c) ==
  /\ c <= Len(s) /\ c <= LogSize
  /\ \A k \in 1 .. c : h[Back(LogSize, i, k)] = s[Len(s) + 1 - k]

(* Where the thread in klog is, the place its index stands for, and the messages
   that will be there. *)
LogPlace == IF call.at = "advance" THEN log_history_idx + 1 ELSE log_history_idx
LogHeld  == IF call.at = "idle" THEN since ELSE Log!Cap(since + 1)

LogTypes ==
  /\ log_history \in [Log!Slots -> LogMessages \cup {LogNone}]
  /\ log_history_idx \in 0 .. LogSize /\ log_history_full \in BOOLEAN
  /\ crossed \in BOOLEAN /\ overrun \in BOOLEAN
  /\ said \in Seq(LogMessages) /\ Len(said) <= LogSize /\ since \in 0 .. LogSize
  /\ call.at \in {"idle", "advance", "wrap"} /\ (call.at = "idle" <=> call = Log!Idle)
  /\ call \in [at : {"idle", "advance", "wrap"}, msg : LogMessages \cup {LogNone}, idx : Nat]

LogInv ==
  /\ LogTypes
  /\ call.at # "wrap" => log_history_idx \in Log!Slots
  /\ call.at = "advance" => call.idx \in Log!Slots
  /\ call.at = "idle" => ~crossed
  /\ ~crossed => /\ call.at = "advance" => call.idx = log_history_idx
                 /\ LogKept(log_history, said, LogPlace, LogHeld)
                 /\ log_history_full \/ LogHeld <= LogPlace

(* One more message among the last ones. *)
LogSaid(s, m) == LET r == Append(s, m) IN Log!LastOf(r, Log!Cap(Len(r)))

(* What they are. *)
LogNewer(t, s, m) ==
  /\ t \in Seq(LogMessages) /\ Len(t) = Log!Cap(Len(s) + 1) /\ Len(t) <= LogSize
  /\ t[Len(t)] = m
  /\ \A k \in 1 .. Len(t) - 1 : t[Len(t) - k] = s[Len(s) + 1 - k]

(* The newest is the last, and the others follow. *)
LEMMA SayItems ==
  ASSUME Log!KLogConstants, NEW s \in Seq(LogMessages), Len(s) <= LogSize, NEW m \in LogMessages,
         NEW t, t = LogSaid(s, m)
  PROVE  LogNewer(t, s, m)
<1> DEFINE a == Append(s, m)
           n == Log!Cap(Len(s) + 1)
<1>1. LogSize \in Nat /\ 1 <= LogSize /\ Len(s) \in Nat
  BY DEF Log!KLogConstants
<1>2. /\ a \in Seq(LogMessages) /\ Len(a) = Len(s) + 1 /\ a[Len(s) + 1] = m
      /\ \A i \in 1 .. Len(s) : a[i] = s[i]
  OBVIOUS
<1>3. n \in Nat /\ 1 <= n /\ n <= Len(s) + 1 /\ n <= LogSize
  BY <1>1 DEF Log!Cap
<1> HIDE DEF a, n
<1>4. t = SubSeq(a, Len(a) - n + 1, Len(a))
  BY <1>2 DEF LogSaid, Log!LastOf, a, n
<1> DEFINE l == Len(a) - n + 1
<1>5. l \in Nat /\ 1 <= l /\ l <= Len(a) /\ Len(a) \in Nat /\ Len(a) - l + 1 = n
  BY <1>1, <1>2, <1>3
<1>s. t = SubSeq(a, l, Len(a))
  BY <1>4
<1> HIDE DEF l
<1>6. t \in Seq(LogMessages) /\ Len(t) = n /\ \A i \in 1 .. n : t[i] = a[l + i - 1]
  BY <1>2, <1>3, <1>s, <1>5
<1>7. t[n] = m
  <2>1. n \in 1 .. n /\ l + n - 1 = Len(s) + 1
    BY <1>2, <1>3, <1>5
  <2> QED BY <1>2, <1>6, <2>1
<1>8. ASSUME NEW k \in 1 .. n - 1 PROVE t[n - k] = s[Len(s) + 1 - k]
  <2>1. n - k \in 1 .. n /\ l + (n - k) - 1 = Len(s) + 1 - k /\ Len(s) + 1 - k \in 1 .. Len(s)
    BY <1>1, <1>2, <1>3, <1>5
  <2>2. t[n - k] = a[l + (n - k) - 1]
    BY <1>6, <2>1
  <2> QED BY <1>2, <2>1, <2>2
<1> QED BY <1>2, <1>3, <1>6, <1>7, <1>8 DEF n, LogNewer

(* Without the remainder operator. *)
LEMMA BackLemma ==
  ASSUME NEW N \in Nat \ {0}, NEW i \in 0 .. N, NEW k \in 1 .. N
  PROVE  /\ Back(N, i, k) = IF i < k THEN i + N - k ELSE i - k
         /\ Back(N, i, k) \in 0 .. N - 1
<1> DEFINE a == i + N - k
<1>1. a \in Nat /\ a < 2 * N /\ (a < N <=> i < k) /\ a - N = i - k
  OBVIOUS
<1> HIDE DEF a
<1>2. a % N = (IF a < N THEN a ELSE a - N) /\ a % N \in 0 .. N - 1
  BY <1>1, WrapLemma
<1> QED BY <1>1, <1>2 DEF a, Back

(* A message is stored and the index passes it. *)
LEMMA LogStored ==
  ASSUME Log!KLogConstants, NEW h \in [Log!Slots -> LogMessages \cup {LogNone}],
         NEW s \in Seq(LogMessages), Len(s) <= LogSize, NEW m \in LogMessages,
         NEW t, t = LogSaid(s, m),
         NEW i \in Log!Slots, NEW c \in 0 .. LogSize, LogKept(h, s, i, c),
         NEW g, g = [h EXCEPT ![i] = m]
  PROVE  LogKept(g, t, i + 1, Log!Cap(c + 1))
<1> DEFINE d == Log!Cap(c + 1)
           N == LogSize
<1>1. N \in Nat \ {0} /\ Log!Slots = 0 .. N - 1 /\ Len(s) \in Nat
  BY DEF Log!KLogConstants, Log!Slots
<1>2. d \in Nat /\ 1 <= d /\ d <= N /\ d <= c + 1 /\ d <= Log!Cap(Len(s) + 1)
  BY <1>1 DEF Log!Cap, LogKept
<1>3. LogNewer(t, s, m)
  BY SayItems
<1>4. \A x \in Log!Slots : g[x] = IF x = i THEN m ELSE h[x]
  OBVIOUS
<1> HIDE DEF d, N
<1>5. Len(t) \in Nat /\ d <= Len(t)
  BY <1>2, <1>3 DEF LogNewer
<1>b. \A x \in 0 .. N, y \in 1 .. N :
        Back(N, x, y) \in 0 .. N - 1 /\ Back(N, x, y) = IF x < y THEN x + N - y ELSE x - y
  BY <1>1, BackLemma
<1>6. ASSUME NEW k \in 1 .. d PROVE g[Back(N, i + 1, k)] = t[Len(t) + 1 - k]
  <2>1. k \in 1 .. N /\ i \in 0 .. N - 1 /\ i \in 0 .. N /\ i + 1 \in 0 .. N
    BY <1>1, <1>2
  <2>2. /\ Back(N, i + 1, k) = IF i + 1 < k THEN i + 1 + N - k ELSE i + 1 - k
        /\ Back(N, i + 1, k) \in 0 .. N - 1
    BY <1>b, <2>1
  <2>3. CASE k = 1
    <3>1. Back(N, i + 1, k) = i
      BY <1>1, <2>1, <2>2, <2>3
    <3>2. Len(t) + 1 - k = Len(t)
      BY <1>5, <2>3
    <3> QED BY <1>3, <1>4, <3>1, <3>2 DEF LogNewer
  <2>4. CASE k # 1
    <3>1. k - 1 \in 1 .. N /\ k - 1 \in 1 .. c /\ k - 1 \in 1 .. Len(t) - 1
      BY <1>1, <1>2, <1>5, <2>1, <2>4
    <3>2. Back(N, i, k - 1) = IF i < k - 1 THEN i + N - (k - 1) ELSE i - (k - 1)
      BY <1>1, <1>b, <2>1, <3>1
    <3>3. Back(N, i + 1, k) = Back(N, i, k - 1) /\ Back(N, i + 1, k) # i
      BY <1>1, <2>1, <2>2, <2>4, <3>2
    <3>4. g[Back(N, i + 1, k)] = h[Back(N, i, k - 1)]
      BY <1>1, <1>4, <2>2, <3>3
    <3>5. h[Back(N, i, k - 1)] = s[Len(s) + 1 - (k - 1)]
      BY <3>1 DEF LogKept, N
    <3>6. t[Len(t) - (k - 1)] = s[Len(s) + 1 - (k - 1)]
      BY <1>3, <3>1 DEF LogNewer
    <3>7. Len(t) - (k - 1) = Len(t) + 1 - k
      BY <1>5, <2>1
    <3> QED BY <3>4, <3>5, <3>6, <3>7
  <2> QED BY <2>3, <2>4
<1> QED BY <1>2, <1>5, <1>6 DEF LogKept, d, N

(* The slot behind the last is the first. *)
LEMMA LogWrapped ==
  ASSUME Log!KLogConstants, NEW h, NEW s, NEW c \in 0 .. LogSize, LogKept(h, s, LogSize, c)
  PROVE  LogKept(h, s, 0, c)
<1>1. LogSize \in Nat \ {0}
  BY DEF Log!KLogConstants
<1>2. ASSUME NEW k \in 1 .. c PROVE Back(LogSize, LogSize, k) = Back(LogSize, 0, k)
  <2>1. k \in 1 .. LogSize /\ 0 \in 0 .. LogSize /\ LogSize \in 0 .. LogSize
    BY <1>1
  <2>2. Back(LogSize, LogSize, k) = IF LogSize < k THEN LogSize + LogSize - k ELSE LogSize - k
    BY <1>1, <2>1, BackLemma
  <2>3. Back(LogSize, 0, k) = IF 0 < k THEN 0 + LogSize - k ELSE 0 - k
    BY <1>1, <2>1, BackLemma
  <2> QED BY <1>1, <2>1, <2>2, <2>3
<1> QED BY <1>2 DEF LogKept

(* What the invariant gives as numbers. *)
LEMMA LogNumbers ==
  ASSUME Log!KLogConstants, LogTypes
  PROVE  /\ LogSize \in Nat \ {0} /\ Log!Slots = 0 .. LogSize - 1 /\ log_history_idx \in Nat
         /\ since \in Nat /\ Log!Cap(since + 1) \in 0 .. LogSize /\ Log!Cap(since + 1) <= since + 1
         /\ since <= Log!Cap(since + 1)
BY DEF Log!KLogConstants, LogTypes, Log!Slots, Log!Cap

(* What a message stored in its slot does. *)
LEMMA LogSay ==
  ASSUME Log!KLogConstants, LogInv, NEW m \in LogMessages, Log!Say(m),
         log_history' = Log!Stored(m, log_history_idx)
  PROVE  /\ said' \in Seq(LogMessages) /\ Len(said') <= LogSize
         /\ log_history' \in [Log!Slots -> LogMessages \cup {LogNone}]
         /\ call = Log!Idle =>
              /\ LogKept(log_history', said', log_history_idx + 1, Log!Cap(since + 1))
              /\ log_history_full \/ Log!Cap(since + 1) <= log_history_idx + 1
<1>1. LogTypes
  BY DEF LogInv
<1>2. said' = LogSaid(said, m)
  BY DEF Log!Say, LogSaid
<1>3. said \in Seq(LogMessages) /\ Len(said) <= LogSize /\ since \in 0 .. LogSize
      /\ log_history \in [Log!Slots -> LogMessages \cup {LogNone}]
  BY <1>1 DEF LogTypes
<1>4. LogNewer(said', said, m)
  BY <1>2, <1>3, SayItems
<1>5. log_history' \in [Log!Slots -> LogMessages \cup {LogNone}]
  BY <1>3 DEF Log!Stored
<1>6. ASSUME call = Log!Idle
      PROVE  /\ LogKept(log_history', said', log_history_idx + 1, Log!Cap(since + 1))
             /\ log_history_full \/ Log!Cap(since + 1) <= log_history_idx + 1
  <2>1. call.at = "idle"
    BY <1>6 DEF Log!Idle
  <2>2. log_history_idx \in Log!Slots /\ ~crossed
    BY <2>1 DEF LogInv
  <2>3. LogKept(log_history, said, log_history_idx, since) /\ (log_history_full \/ since <= log_history_idx)
    BY <2>1, <2>2 DEF LogInv, LogPlace, LogHeld
  <2>4. log_history' = [log_history EXCEPT ![log_history_idx] = m]
    BY <2>2 DEF Log!Stored
  <2>5. LogKept(log_history', said', log_history_idx + 1, Log!Cap(since + 1))
    BY <1>2, <1>3, <2>2, <2>3, <2>4, LogStored
  <2>6. log_history_full \/ Log!Cap(since + 1) <= log_history_idx + 1
    BY <1>1, <2>3, LogNumbers
  <2> QED BY <2>5, <2>6
<1> QED BY <1>4, <1>5, <1>6 DEF LogNewer

(* The thread writes the slot. *)
LEMMA StoreKeeps ==
  ASSUME Log!KLogConstants, LogInv, NEW m \in LogMessages, Log!Store(m)
  PROVE  LogInv'
<1>1. LogTypes
  BY DEF LogInv
<1>2. /\ call = Log!Idle /\ log_history' = Log!Stored(m, log_history_idx) /\ Log!Say(m)
      /\ call' = [at |-> "advance", msg |-> m, idx |-> log_history_idx]
      /\ log_history_idx' = log_history_idx /\ log_history_full' = log_history_full
      /\ crossed' = crossed /\ overrun' = overrun /\ since' = since
  BY DEF Log!Store
<1>3. call.at = "idle" /\ log_history_idx \in Log!Slots
  BY <1>2 DEF LogInv, Log!Idle
<1>4. call'.at = "advance" /\ call'.idx = log_history_idx /\ call' # Log!Idle
      /\ call' \in [at : {"idle", "advance", "wrap"}, msg : LogMessages \cup {LogNone}, idx : Nat]
  BY <1>1, <1>2, LogNumbers DEF Log!Idle
<1>5. LogTypes'
  BY <1>1, <1>2, <1>4, LogSay DEF LogTypes, Log!Slots, Log!Idle
<1>6. LogPlace' = log_history_idx + 1 /\ LogHeld' = Log!Cap(since + 1)
  BY <1>2, <1>4 DEF LogPlace, LogHeld, Log!Cap
<1>7. LogKept(log_history, said, LogPlace, LogHeld)' /\ (log_history_full \/ LogHeld <= LogPlace)'
  BY <1>2, <1>6, LogSay DEF LogKept
<1> QED BY <1>2, <1>3, <1>4, <1>5, <1>7 DEF LogInv, Log!Slots

(* It advances the index. *)
LEMMA AdvanceKeeps ==
  ASSUME Log!KLogConstants, LogInv, Log!Advance
  PROVE  LogInv'
<1>1. LogTypes
  BY DEF LogInv
<1>2. /\ call.at = "advance" /\ log_history_idx' \in {log_history_idx + 1, call.idx + 1}
      /\ call' = [call EXCEPT !.at = "wrap"]
      /\ log_history' = log_history /\ log_history_full' = log_history_full
      /\ crossed' = crossed /\ overrun' = overrun /\ since' = since /\ said' = said
  BY DEF Log!Advance
<1>3. call'.at = "wrap" /\ call' # Log!Idle
      /\ call' \in [at : {"idle", "advance", "wrap"}, msg : LogMessages \cup {LogNone}, idx : Nat]
  BY <1>1, <1>2 DEF LogTypes, Log!Idle
<1>4. log_history_idx \in Log!Slots /\ call.idx \in Log!Slots
  BY <1>2 DEF LogInv
<1>5. log_history_idx' \in 0 .. LogSize
  BY <1>1, <1>2, <1>4, LogNumbers
<1>6. LogTypes'
  BY <1>1, <1>2, <1>3, <1>5 DEF LogTypes, Log!Slots, Log!Idle
<1>7. ASSUME ~crossed
      PROVE  LogKept(log_history, said, LogPlace, LogHeld)' /\ (log_history_full \/ LogHeld <= LogPlace)'
  <2>1. log_history_idx' = log_history_idx + 1
    BY <1>2, <1>7 DEF LogInv
  <2>2. LogPlace' = LogPlace /\ LogHeld' = LogHeld
    BY <1>2, <1>3, <2>1 DEF LogPlace, LogHeld, Log!Cap
  <2>3. LogKept(log_history, said, LogPlace, LogHeld) /\ (log_history_full \/ LogHeld <= LogPlace)
    BY <1>7 DEF LogInv
  <2> QED BY <1>2, <2>2, <2>3 DEF LogKept
<1> QED BY <1>2, <1>3, <1>6, <1>7 DEF LogInv, Log!Slots

(* An index that is wrapped when it has to be. *)
LEMMA WrapKeeps ==
  ASSUME Log!KLogConstants, NEW h, NEW s, NEW i \in Nat, NEW c \in 0 .. LogSize, NEW f \in BOOLEAN,
         i <= LogSize, LogKept(h, s, i, c), f \/ c <= i,
         NEW j, NEW g, IF Log!Wraps(i) THEN j = 0 /\ g = TRUE ELSE j = i /\ g = f
  PROVE  LogKept(h, s, j, c) /\ (g \/ c <= j) /\ j \in Log!Slots
<1>1. LogSize \in Nat \ {0} /\ Log!Slots = 0 .. LogSize - 1
  BY DEF Log!KLogConstants, Log!Slots
<1>2. CASE Log!Wraps(i)
  <2>1. i = LogSize
    BY <1>1, <1>2 DEF Log!Wraps
  <2> QED BY <1>1, <1>2, <2>1, LogWrapped
<1>3. CASE ~Log!Wraps(i)
  BY <1>1, <1>3 DEF Log!Wraps
<1> QED BY <1>2, <1>3

(* It wraps the index and leaves. *)
LEMMA WrapLeaves ==
  ASSUME Log!KLogConstants, LogInv, Log!Wrap
  PROVE  LogInv'
<1> DEFINE c == Log!Cap(since + 1)
           i == log_history_idx
<1>1. LogTypes /\ LogSize \in Nat \ {0} /\ i \in Nat /\ i <= LogSize /\ c \in 0 .. LogSize
      /\ log_history_full \in BOOLEAN
  BY LogNumbers DEF LogInv, LogTypes
<1>2. /\ call.at = "wrap" /\ call' = Log!Idle /\ crossed' = FALSE
      /\ IF Log!Wraps(i) THEN log_history_idx' = 0 /\ log_history_full' = TRUE
         ELSE log_history_idx' = i /\ log_history_full' = log_history_full
      /\ since' = IF crossed THEN 0 ELSE c
      /\ log_history' = log_history /\ overrun' = overrun /\ said' = said
  BY DEF Log!Wrap
<1>3. call'.at = "idle"
      /\ call' \in [at : {"idle", "advance", "wrap"}, msg : LogMessages \cup {LogNone}, idx : Nat]
  BY <1>2 DEF Log!Idle
<1> HIDE DEF c
<1>4. log_history_idx' \in Log!Slots /\ log_history_full' \in BOOLEAN
  <2> HIDE DEF i
  <2>1. CASE Log!Wraps(i)
    <3>1. log_history_idx' = 0 /\ log_history_full' = TRUE
      BY <1>2, <2>1
    <3> QED BY <1>1, <3>1 DEF Log!Slots
  <2>2. CASE ~Log!Wraps(i)
    <3>1. log_history_idx' = i /\ log_history_full' = log_history_full
      BY <1>2, <2>2
    <3>2. i \in Nat /\ i < LogSize
      BY <1>1, <2>2 DEF Log!Wraps, i
    <3>3. i \in 0 .. LogSize - 1
      BY <1>1, <3>2
    <3> QED BY <1>1, <3>1, <3>3 DEF Log!Slots
  <2> QED BY <2>1, <2>2
<1>5. LogTypes'
  <2>1. log_history_idx' \in 0 .. LogSize /\ since' \in 0 .. LogSize
    BY <1>1, <1>2, <1>4, LogNumbers
  <2> QED BY <1>1, <1>2, <1>3, <1>4, <2>1 DEF LogTypes, Log!Slots, Log!Idle
<1>6. LogPlace' = log_history_idx' /\ LogHeld' = since'
  BY <1>2, <1>3 DEF LogPlace, LogHeld
<1>7. LogKept(log_history, said, log_history_idx', since')
      /\ (log_history_full' \/ since' <= log_history_idx')
  <2>1. CASE crossed
    <3>1. since' = 0 /\ log_history_idx' \in Nat /\ Len(said) \in Nat
      BY <1>1, <1>2, <1>4, <2>1, LogNumbers DEF LogTypes
    <3>2. LogKept(log_history, said, log_history_idx', 0)
      BY <1>1, <3>1 DEF LogKept
    <3> QED BY <3>1, <3>2
  <2>2. CASE ~crossed
    <3>1. LogKept(log_history, said, i, c) /\ (log_history_full \/ c <= i)
      BY <1>2, <2>2 DEF LogInv, LogPlace, LogHeld, c
    <3>2. since' = c
      BY <1>2, <2>2
    <3> QED BY <1>1, <1>2, <3>1, <3>2, WrapKeeps
  <2> QED BY <1>1, <2>1, <2>2
<1>8. LogKept(log_history, said, LogPlace, LogHeld)' /\ (log_history_full \/ LogHeld <= LogPlace)'
  BY <1>2, <1>6, <1>7 DEF LogKept
<1> QED BY <1>2, <1>3, <1>4, <1>5, <1>8 DEF LogInv, Log!Slots

(* A whole klog. *)
LEMMA KlogKeeps ==
  ASSUME Log!KLogConstants, LogInv, NEW m \in LogMessages, Log!klog(m)
  PROVE  LogInv'
<1> DEFINE i == log_history_idx + 1
           d == Log!Cap(since + 1)
<1>1. LogTypes /\ LogSize \in Nat \ {0} /\ log_history_full \in BOOLEAN
      /\ log_history_idx \in Nat /\ d \in 0 .. LogSize /\ log_history_idx \in 0 .. LogSize
  BY LogNumbers DEF LogInv, LogTypes
<1>2. /\ log_history' = Log!Stored(m, log_history_idx) /\ Log!Say(m) /\ call' = call
      /\ IF Log!Wraps(i) THEN log_history_idx' = 0 /\ log_history_full' = TRUE
         ELSE log_history_idx' = i /\ log_history_full' = log_history_full
      /\ crossed' = (call # Log!Idle)
      /\ since' = IF call = Log!Idle THEN d ELSE since
      /\ overrun' \in BOOLEAN
  BY DEF Log!klog
<1>3. call.at = "idle" <=> call = Log!Idle
  BY <1>1 DEF LogTypes
<1> HIDE DEF d
<1>4. log_history_idx' \in Log!Slots /\ log_history_full' \in BOOLEAN
  <2> HIDE DEF i
  <2>1. CASE Log!Wraps(i)
    <3>1. log_history_idx' = 0 /\ log_history_full' = TRUE
      BY <1>2, <2>1
    <3> QED BY <1>1, <3>1 DEF Log!Slots
  <2>2. CASE ~Log!Wraps(i)
    <3>1. log_history_idx' = i /\ log_history_full' = log_history_full
      BY <1>2, <2>2
    <3>2. i \in Nat /\ i < LogSize
      BY <1>1, <2>2 DEF Log!Wraps, i
    <3>3. i \in 0 .. LogSize - 1
      BY <1>1, <3>2
    <3> QED BY <1>1, <3>1, <3>3 DEF Log!Slots
  <2> QED BY <2>1, <2>2
<1>5. LogTypes'
  <2>1. log_history_idx' \in 0 .. LogSize /\ since' \in 0 .. LogSize
    BY <1>1, <1>2, <1>4, LogNumbers DEF LogTypes
  <2>2. crossed' \in BOOLEAN
    BY <1>2
  <2>3. said' \in Seq(LogMessages) /\ Len(said') <= LogSize
        /\ log_history' \in [Log!Slots -> LogMessages \cup {LogNone}]
    BY <1>2, LogSay
  <2> QED BY <1>1, <1>2, <1>4, <2>1, <2>2, <2>3 DEF LogTypes, Log!Slots, Log!Idle
<1>6. CASE call # Log!Idle
  <2>1. crossed' = TRUE /\ call'.at # "idle"
    BY <1>2, <1>3, <1>6
  <2>2. call'.at = "advance" => call'.idx \in Log!Slots
    BY <1>2 DEF LogInv
  <2> QED BY <1>4, <1>5, <2>1, <2>2 DEF LogInv, Log!Slots
<1>7. CASE call = Log!Idle
  <2>1. call'.at = "idle" /\ crossed' = FALSE /\ since' = d
    BY <1>2, <1>3, <1>7
  <2>2. LogPlace' = log_history_idx' /\ LogHeld' = since'
    BY <2>1 DEF LogPlace, LogHeld
  <2>3. log_history_idx \in Log!Slots
    BY <1>3, <1>7 DEF LogInv
  <2>4. i \in Nat /\ i <= LogSize
    BY <1>1, <2>3, LogNumbers
  <2>5. LogKept(log_history', said', i, d) /\ (log_history_full \/ d <= i)
    BY <1>2, <1>7, LogSay DEF d
  <2> HIDE DEF i
  <2>6. LogKept(log_history', said', log_history_idx', since')
        /\ (log_history_full' \/ since' <= log_history_idx')
    BY <1>1, <1>2, <2>1, <2>4, <2>5, WrapKeeps
  <2>7. LogKept(log_history, said, LogPlace, LogHeld)' /\ (log_history_full \/ LogHeld <= LogPlace)'
    BY <2>2, <2>6 DEF LogKept
  <2> QED BY <1>4, <1>5, <2>1, <2>7 DEF LogInv, Log!Slots
<1> QED BY <1>6, <1>7

(* Every step of the log. *)
LEMMA LogStep ==
  ASSUME Log!KLogConstants, LogInv, [Log!Next]_(Log!vars)
  PROVE  LogInv'
<1>1. CASE Log!Next
  BY <1>1, StoreKeeps, KlogKeeps, AdvanceKeeps, WrapLeaves DEF Log!Next
<1>2. CASE UNCHANGED Log!vars
  BY <1>2 DEF Log!vars, Log!log, LogInv, LogTypes, LogPlace, LogHeld, LogKept, Log!Cap, Log!Idle, Log!Slots, Back
<1> QED BY <1>1, <1>2

(* The empty log. *)
LEMMA LogInit ==
  ASSUME Log!KLogConstants, Log!Init
  PROVE  LogInv
<1>1. /\ log_history = [i \in Log!Slots |-> LogNone] /\ log_history_idx = 0 /\ log_history_full = FALSE
      /\ call = Log!Idle /\ crossed = FALSE /\ overrun = FALSE /\ said = <<>> /\ since = 0
  BY DEF Log!Init
<1>2. call.at = "idle"
  BY <1>1 DEF Log!Idle
<1>3. LogSize \in Nat \ {0} /\ 0 \in Log!Slots
  BY DEF Log!KLogConstants, Log!Slots
<1>4. LogTypes
  BY <1>1, <1>2, <1>3 DEF LogTypes, Log!Idle
<1>5. LogPlace = 0 /\ LogHeld = 0
  BY <1>1, <1>2 DEF LogPlace, LogHeld
<1>6. LogKept(log_history, said, 0, 0)
  BY <1>1, <1>3 DEF LogKept
<1> QED BY <1>1, <1>2, <1>3, <1>4, <1>5, <1>6 DEF LogInv

(* Behind the start of the last n. *)
LEMMA FromStart ==
  ASSUME NEW N \in Nat \ {0}, NEW i \in 0 .. N - 1, NEW n \in 1 .. N, NEW j \in 1 .. n
  PROVE  (((i + N - n) % N) + j - 1) % N = Back(N, i, n - j + 1)
<1> DEFINE b == Back(N, i, n)
           a == b + j - 1
<1>1. b = (IF i < n THEN i + N - n ELSE i - n) /\ b \in 0 .. N - 1
  <2>1. i \in 0 .. N
    OBVIOUS
  <2> QED BY <2>1, BackLemma
<1>2. b = (i + N - n) % N
  BY DEF Back
<1>3. Back(N, i, n - j + 1) = IF i < n - j + 1 THEN i + N - (n - j + 1) ELSE i - (n - j + 1)
  <2> DEFINE k == n - j + 1
  <2>1. k \in 1 .. N /\ i \in 0 .. N
    OBVIOUS
  <2> HIDE DEF k
  <2>2. Back(N, i, k) = IF i < k THEN i + N - k ELSE i - k
    BY <2>1, BackLemma
  <2> QED BY <2>2 DEF k
<1> HIDE DEF b
<1>4. a \in Nat /\ a < 2 * N
  BY <1>1
<1>5. a % N = IF a < N THEN a ELSE a - N
  <2> HIDE DEF a
  <2> QED BY <1>4, WrapLemma
<1>6. a % N = Back(N, i, n - j + 1)
  BY <1>1, <1>3, <1>5
<1> QED BY <1>2, <1>6

(* What log_get_entries returns. *)
LEMMA LogRecent ==
  ASSUME Log!KLogConstants, LogInv
  PROVE  Log!Recent
<1> SUFFICES ASSUME call = Log!Idle
             PROVE  /\ log_history_idx \in Log!Slots
                    /\ \A n \in 1 .. since : Log!log_get_entries(n) = Log!LastOf(said, n)
  BY DEF Log!Recent
<1>1. LogTypes /\ call.at = "idle" /\ LogSize \in Nat \ {0} /\ Log!Slots = 0 .. LogSize - 1 /\ since \in 0 .. LogSize
  BY LogNumbers DEF LogInv, LogTypes
<1>2. log_history_idx \in Log!Slots /\ LogKept(log_history, said, log_history_idx, since)
      /\ (log_history_full \/ since <= log_history_idx)
  BY <1>1 DEF LogInv, LogPlace, LogHeld
<1>3. ASSUME NEW n \in 1 .. since PROVE Log!log_get_entries(n) = Log!LastOf(said, n)
  <2> DEFINE st == (log_history_idx + LogSize - n) % LogSize
             L == Len(said)
  <2>1. n \in 1 .. LogSize /\ n \in Nat /\ 1 <= n /\ n <= L /\ L \in Nat /\ said \in Seq(LogMessages)
    BY <1>1, <1>2 DEF LogTypes, LogKept
  <2>2. ~(n > Log!NumAvailable)
    BY <1>1, <1>2, <2>1 DEF Log!NumAvailable
  <2>3. Log!log_get_entries(n) = [j \in 1 .. n |-> log_history[(st + j - 1) % LogSize]]
    BY <2>2 DEF Log!log_get_entries
  <2>4. Log!LastOf(said, n) = [j \in 1 .. n |-> said[L - n + 1 + j - 1]]
    <3> DEFINE l == L - n + 1
    <3>1. l \in Nat /\ 1 <= l /\ L - l + 1 = n
      BY <2>1
    <3> HIDE DEF l
    <3>2. SubSeq(said, l, L) = [j \in 1 .. L - l + 1 |-> said[l + j - 1]]
      BY <2>1, <3>1
    <3>3. SubSeq(said, l, L) = [j \in 1 .. n |-> said[l + j - 1]]
      BY <3>1, <3>2
    <3> QED BY <3>3 DEF Log!LastOf, l
  <2>5. ASSUME NEW j \in 1 .. n
        PROVE  log_history[(st + j - 1) % LogSize] = said[L - n + 1 + j - 1]
    <3>1. (st + j - 1) % LogSize = Back(LogSize, log_history_idx, n - j + 1)
      BY <1>1, <1>2, <2>1, FromStart
    <3>2. n - j + 1 \in 1 .. since /\ L + 1 - (n - j + 1) = L - n + 1 + j - 1
      BY <1>1, <2>1
    <3>3. log_history[Back(LogSize, log_history_idx, n - j + 1)] = said[L + 1 - (n - j + 1)]
      BY <1>2, <3>2 DEF LogKept
    <3> QED BY <3>1, <3>2, <3>3
  <2> HIDE DEF st, L
  <2> QED BY <2>3, <2>4, <2>5
<1> QED BY <1>2, <1>3

----------------------------------------------------------------------------
(* The history of the shell.  The slot of the i-th line before the one in slot x. *)
Before(N, x, i) == (x - (i - 1)) % N

BeforeIs(b, N, x, i) ==
  b \in 0 .. N - 1 /\ b = (IF i - 1 <= x THEN x - (i - 1) ELSE x - (i - 1) + N)

(* Without the remainder operator. *)
LEMMA BeforeLemma ==
  ASSUME NEW N \in Nat, N # 0, NEW x \in 0 .. N - 1, NEW i \in 1 .. N
  PROVE  BeforeIs(Before(N, x, i), N, x, i)
<1> DEFINE a == x - (i - 1)
<1>1. a \in Int /\ 0 - N < a /\ a < N /\ (0 <= a <=> i - 1 <= x)
  OBVIOUS
<1> HIDE DEF a
<1>2. a % N = (IF 0 <= a THEN a ELSE a + N) /\ a % N \in 0 .. N - 1
  BY <1>1
<1> QED BY <1>1, <1>2 DEF a, Before, BeforeIs

HistoryInv ==
  /\ l_history \in [Typed!Slots -> HistoryLines \cup {NoEvent}]
  /\ l_history_index \in -1 .. HistorySize - 1 /\ (l_history_count > 0 => l_history_index # -1)
  /\ l_typed \in Seq(HistoryLines) /\ l_history_count = Len(l_typed) /\ l_history_count <= HistorySize
  /\ \A i \in 1 .. l_history_count : l_history[Before(HistorySize, l_history_index, i)] = l_typed[i]
  /\ \A i \in 1 .. l_history_count - 1 : l_typed[i] # l_typed[i + 1]

(* The lines with one more in front, as many as there are slots. *)
LinesWith(cmd, q) ==
  SubSeq(<<cmd>> \o q, 1, IF Len(q) < HistorySize THEN Len(q) + 1 ELSE HistorySize)

LinesAre(r, cmd, q) ==
  /\ r \in Seq(HistoryLines) /\ Len(q) \in Nat
  /\ Len(r) = (IF Len(q) < HistorySize THEN Len(q) + 1 ELSE HistorySize)
  /\ r[1] = cmd
  /\ \A i \in 2 .. Len(r) : r[i] = q[i - 1]

(* What they are. *)
LEMMA LinesItems ==
  ASSUME Typed!LineConstants, NEW q \in Seq(HistoryLines), Len(q) <= HistorySize, NEW cmd \in HistoryLines
  PROVE  LinesAre(LinesWith(cmd, q), cmd, q)
<1> DEFINE p == <<cmd>> \o q
           n == IF Len(q) < HistorySize THEN Len(q) + 1 ELSE HistorySize
           r == SubSeq(p, 1, n)
<1>1. p \in Seq(HistoryLines) /\ Len(q) \in Nat /\ Len(p) = Len(q) + 1
      /\ p[1] = cmd /\ \A i \in 2 .. Len(p) : p[i] = q[i - 1]
  BY ConsItems
<1>2. n \in Nat /\ 1 <= n /\ n <= Len(p)
  BY <1>1 DEF Typed!LineConstants
<1>3. LinesWith(cmd, q) = r
  BY DEF LinesWith
<1> HIDE DEF p, n
<1>4. r \in Seq(HistoryLines) /\ Len(r) = n /\ \A i \in 1 .. n : r[i] = p[i]
  BY <1>1, <1>2
<1> HIDE DEF r
<1>5. r[1] = cmd
  BY <1>1, <1>2, <1>4
<1>6. \A i \in 2 .. n : r[i] = q[i - 1]
  BY <1>1, <1>2, <1>4
<1> QED BY <1>1, <1>3, <1>4, <1>5, <1>6 DEF n, LinesAre

(* A line is recorded. *)
LEMMA HistoryStep ==
  ASSUME Typed!LineConstants, HistoryInv, NEW cmd \in HistoryLines, Typed!add_to_history(cmd)
  PROVE  HistoryInv'
<1> DEFINE N == HistorySize
           x == l_history_index
           y == l_history_index'
           n == l_history_count
           m == l_history_count'
<1>1. N \in Nat \ {0, 1} /\ Typed!Slots = 0 .. N - 1 /\ x \in -1 .. N - 1 /\ n \in Nat /\ n <= N
  BY DEF Typed!LineConstants, Typed!Slots, HistoryInv
<1>2. /\ n > 0 => l_history[x % N] # cmd
      /\ y = (x + 1) % N
      /\ l_history' = [l_history EXCEPT ![(x + 1) % N] = cmd]
      /\ m = IF n < N THEN n + 1 ELSE n
      /\ l_typed' = LinesWith(cmd, l_typed)
  BY DEF Typed!add_to_history, Typed!Slot, LinesWith
<1>3. y \in 0 .. N - 1 /\ (x \in 0 .. N - 1 => y = IF x + 1 = N THEN 0 ELSE x + 1)
  <2>1. CASE x = -1
    BY <1>1, <1>2, <2>1
  <2>2. CASE x # -1
    <3>1. x \in 0 .. N - 1
      BY <1>1, <2>2
    <3> HIDE DEF x, N
    <3>2. (x + 1) % N = (IF x + 1 = N THEN 0 ELSE x + 1) /\ (x + 1) % N \in 0 .. N - 1
      BY <1>1, <3>1, AfterLemma
    <3> QED BY <1>2, <3>2
  <2> QED BY <2>1, <2>2
<1>4. /\ l_typed' \in Seq(HistoryLines) /\ m = Len(l_typed') /\ m <= N /\ m \in Nat /\ l_typed'[1] = cmd
      /\ \A i \in 2 .. m : l_typed'[i] = l_typed[i - 1]
  <2> DEFINE r == l_typed'
  <2>0. LinesAre(r, cmd, l_typed)
    BY <1>2, LinesItems DEF HistoryInv
  <2>1. /\ r \in Seq(HistoryLines) /\ Len(l_typed) \in Nat
        /\ Len(r) = (IF Len(l_typed) < N THEN Len(l_typed) + 1 ELSE N)
        /\ r[1] = cmd
        /\ \A i \in 2 .. Len(r) : r[i] = l_typed[i - 1]
    BY <2>0 DEF LinesAre
  <2>2. n = Len(l_typed)
    BY DEF HistoryInv
  <2> HIDE DEF r
  <2>3. m = Len(r) /\ m <= N /\ m \in Nat
    BY <1>1, <1>2, <2>1, <2>2
  <2> QED BY <2>1, <2>3 DEF r
<1>5. l_history' \in [Typed!Slots -> HistoryLines \cup {NoEvent}]
      /\ \A z \in Typed!Slots : l_history'[z] = IF z = y THEN cmd ELSE l_history[z]
  BY <1>2, <1>3 DEF HistoryInv
<1>6. ASSUME NEW i \in 1 .. m PROVE l_history'[Before(N, y, i)] = l_typed'[i]
  <2>1. i \in 1 .. N
    BY <1>1, <1>4
  <2>2. Before(N, y, i) \in 0 .. N - 1
        /\ Before(N, y, i) = IF i - 1 <= y THEN y - (i - 1) ELSE y - (i - 1) + N
    <3> HIDE DEF N, y
    <3>1. BeforeIs(Before(N, y, i), N, y, i)
      BY <1>1, <1>3, <2>1, BeforeLemma
    <3> QED BY <3>1 DEF BeforeIs
  <2>3. CASE i = 1
    <3>1. Before(N, y, i) = y
      <4> HIDE DEF N, x, y
      <4> QED BY <1>1, <1>3, <2>2, <2>3
    <3> QED BY <1>1, <1>3, <1>4, <1>5, <2>3, <3>1
  <2>4. CASE i # 1
    <3>1. i - 1 \in 1 .. n /\ i - 1 \in 1 .. N /\ i \in 2 .. m
      BY <1>1, <1>2, <1>4, <2>1, <2>4
    <3>2. x \in 0 .. N - 1
      BY <1>1, <3>1 DEF HistoryInv
    <3>3. Before(N, x, i - 1) = IF (i - 1) - 1 <= x THEN x - ((i - 1) - 1) ELSE x - ((i - 1) - 1) + N
      <4> DEFINE k == i - 1
      <4>1. k \in 1 .. N
        BY <3>1
      <4> HIDE DEF k, N, x
      <4>2. BeforeIs(Before(N, x, k), N, x, k)
        BY <1>1, <3>2, <4>1, BeforeLemma
      <4> QED BY <4>2 DEF k, BeforeIs
    <3>4. Before(N, y, i) = Before(N, x, i - 1) /\ Before(N, y, i) # y
      <4> DEFINE b == Before(N, y, i)
                 d == Before(N, x, i - 1)
      <4>1. b \in 0 .. N - 1 /\ b = (IF i - 1 <= y THEN y - (i - 1) ELSE y - (i - 1) + N)
        BY <2>2
      <4>2. d = (IF (i - 1) - 1 <= x THEN x - ((i - 1) - 1) ELSE x - ((i - 1) - 1) + N)
        BY <3>3
      <4>3. y = (IF x + 1 = N THEN 0 ELSE x + 1) /\ x \in 0 .. N - 1 /\ i \in 2 .. N /\ N \in Nat
        BY <1>1, <1>3, <2>1, <2>4, <3>2
      <4> HIDE DEF N, x, y, b, d
      <4>4. b = d /\ b # y
        BY <4>1, <4>2, <4>3
      <4> QED BY <4>4 DEF b, d
    <3>5. l_history[Before(N, x, i - 1)] = l_typed[i - 1]
      BY <3>1 DEF HistoryInv
    <3> QED BY <1>1, <1>4, <1>5, <2>2, <3>1, <3>4, <3>5
  <2> QED BY <2>3, <2>4
<1>7. ASSUME NEW i \in 1 .. m - 1 PROVE l_typed'[i] # l_typed'[i + 1]
  <2>1. i \in 1 .. n /\ i + 1 \in 2 .. m /\ (i + 1) - 1 = i
    <3>1. n \in Nat /\ m \in Nat /\ m <= n + 1
      <4> HIDE DEF N
      <4> QED BY <1>1, <1>2, <1>4
    <3>2. i \in 1 .. m - 1
      BY <1>7
    <3> HIDE DEF n, m
    <3> QED BY <3>1, <3>2
  <2>2. l_typed'[i + 1] = l_typed[i]
    BY <1>4, <2>1
  <2>3. CASE i = 1
    <3>1. x \in 0 .. N - 1 /\ n > 0
      BY <1>1, <2>1 DEF HistoryInv
    <3>2. Before(N, x, 1) = x /\ x % N = x
      BY <1>1, <3>1 DEF Before
    <3>3. l_history[Before(N, x, 1)] = l_typed[1]
      BY <2>1, <2>3 DEF HistoryInv
    <3> QED BY <1>2, <1>4, <2>2, <2>3, <3>1, <3>2, <3>3
  <2>4. CASE i # 1
    <3>1. i - 1 \in 1 .. n - 1 /\ i \in 2 .. m /\ (i - 1) + 1 = i
      BY <1>1, <1>4, <2>1, <2>4
    <3>2. l_typed'[i] = l_typed[i - 1]
      BY <1>4, <3>1
    <3>3. l_typed[i - 1] # l_typed[(i - 1) + 1]
      BY <3>1 DEF HistoryInv
    <3> QED BY <2>2, <3>1, <3>2, <3>3
  <2> QED BY <2>3, <2>4
<1>8. y \in -1 .. N - 1 /\ y # -1
  BY <1>1, <1>3
<1> QED BY <1>4, <1>5, <1>6, <1>7, <1>8 DEF HistoryInv, Before, Typed!Slots

----------------------------------------------------------------------------
(* A sequence that is one after another. *)
Joined(r, p, q, S) ==
  /\ p \in Seq(S) /\ q \in Seq(S) /\ r \in Seq(S)
  /\ Len(p) \in Nat /\ Len(q) \in Nat /\ Len(r) = Len(p) + Len(q)
  /\ \A i \in 1 .. Len(p) : r[i] = p[i]
  /\ \A i \in 1 .. Len(q) : r[Len(p) + i] = q[i]

(* What the concatenation is. *)
LEMMA JoinedLemma ==
  ASSUME NEW S, NEW p \in Seq(S), NEW q \in Seq(S)
  PROVE  Joined(p \o q, p, q, S)
<1> DEFINE r == p \o q
<1>1. r \in Seq(S) /\ Len(p) \in Nat /\ Len(q) \in Nat /\ Len(r) = Len(p) + Len(q)
  OBVIOUS
<1>2. \A i \in 1 .. Len(p) : r[i] = p[i]
  OBVIOUS
<1>3. ASSUME NEW i \in 1 .. Len(q)
      PROVE  r[Len(p) + i] = q[i]
  <2>1. Len(p) + i \in 1 .. Len(r) /\ ~(Len(p) + i <= Len(p)) /\ (Len(p) + i) - Len(p) = i
    BY <1>1
  <2> QED BY <2>1
<1> QED BY <1>1, <1>2, <1>3 DEF Joined

(* The editor of the shell.  A sequence that begins with another. *)
Begins(s, t) == Len(t) <= Len(s) /\ \A i \in 1 .. Len(t) : s[i] = t[i]

EditTypes ==
  /\ l_file \in Seq(EditChars)
  /\ l_edit # NoEvent => l_edit \in Seq(EditChars) /\ Len(l_edit) <= EditSize
  /\ l_saved # NoEvent => l_saved \in Seq(EditChars) /\ Len(l_saved) <= EditSize

(* What was saved is the beginning of the file, and all of it unless the file was longer. *)
SavedInFile ==
  l_saved # NoEvent => Begins(l_file, l_saved) /\ (~l_longer => Len(l_file) = Len(l_saved))

(* So it is of a buffer that nobody changed since it was read. *)
SavedInBuffer ==
  l_saved # NoEvent /\ l_edit # NoEvent /\ l_clean =>
    Begins(l_edit, l_saved) /\ (~l_longer => Len(l_edit) = Len(l_saved))

EditInv == EditTypes /\ SavedInFile /\ SavedInBuffer

(* The file is read into the buffer. *)
LEMMA OpenStep ==
  ASSUME Typed!LineConstants, EditInv, Typed!Open
  PROVE  EditInv'
<1> DEFINE L == Len(l_file)
           n == IF L < EditSize THEN L ELSE EditSize
           e == l_edit'
<1>1. l_file \in Seq(EditChars) /\ L \in Nat /\ EditSize \in Nat
  BY DEF EditInv, EditTypes, Typed!LineConstants
<1>2. n \in 0 .. L /\ n <= EditSize /\ n \in Nat /\ (L <= EditSize => n = L) /\ (L > EditSize => n = EditSize)
  BY <1>1
<1>3. e = SubSeq(l_file, 1, n) /\ UNCHANGED <<l_file, l_saved, l_longer>>
  BY DEF Typed!Open
<1> HIDE DEF n, e
<1>4. e \in Seq(EditChars) /\ Len(e) = n /\ \A i \in 1 .. n : e[i] = l_file[i]
  BY <1>1, <1>2, <1>3
<1>5. EditTypes'
  BY <1>2, <1>3, <1>4 DEF EditInv, EditTypes, e
<1>6. SavedInFile'
  BY <1>3 DEF EditInv, SavedInFile
<1>7. ASSUME l_saved # NoEvent
      PROVE  Begins(e, l_saved) /\ (~l_longer => Len(e) = Len(l_saved))
  <2>1. Len(l_saved) \in Nat /\ Len(l_saved) <= EditSize /\ Len(l_saved) <= L
        /\ \A i \in 1 .. Len(l_saved) : l_file[i] = l_saved[i]
    BY <1>7 DEF EditInv, EditTypes, SavedInFile, Begins
  <2>2. ~l_longer => L = Len(l_saved)
    BY <1>7 DEF EditInv, SavedInFile
  <2>3. Len(l_saved) <= n /\ (~l_longer => n = Len(l_saved))
    BY <1>1, <1>2, <2>1, <2>2
  <2> QED BY <1>2, <1>4, <2>1, <2>3 DEF Begins
<1>8. SavedInBuffer'
  BY <1>3, <1>7 DEF SavedInBuffer, e
<1> QED BY <1>5, <1>6, <1>8 DEF EditInv

(* The buffer is written over the beginning of the file. *)
LEMMA SaveStep ==
  ASSUME Typed!LineConstants, EditInv, Typed!Save
  PROVE  EditInv'
<1> DEFINE L == Len(l_file)
           n == Len(l_edit)
           r == SubSeq(l_file, n + 1, L)
           f == l_file'
<1>1. l_file \in Seq(EditChars) /\ L \in Nat /\ l_edit \in Seq(EditChars) /\ n \in Nat /\ n <= EditSize
      /\ l_edit # NoEvent
  BY DEF EditInv, EditTypes, Typed!Save
<1>2. f = l_edit \o r /\ l_saved' = l_edit /\ l_longer' = (L > n) /\ UNCHANGED <<l_edit, l_clean>>
  BY DEF Typed!Save
<1>3. r \in Seq(EditChars) /\ Len(r) = IF L > n THEN L - n ELSE 0
  BY <1>1
<1> HIDE DEF r, f
<1>4. f \in Seq(EditChars) /\ Len(f) = n + Len(r) /\ \A i \in 1 .. n : f[i] = l_edit[i]
  <2>1. Joined(l_edit \o r, l_edit, r, EditChars)
    BY <1>1, <1>3, JoinedLemma
  <2> QED BY <1>2, <2>1 DEF Joined
<1>5. EditTypes'
  BY <1>1, <1>2, <1>4 DEF EditTypes, f
<1>6. Len(f) >= n /\ (~(L > n) => Len(f) = n)
  BY <1>1, <1>3, <1>4
<1>7. SavedInFile'
  BY <1>1, <1>2, <1>4, <1>6 DEF SavedInFile, Begins, f
<1>8. SavedInBuffer'
  BY <1>1, <1>2 DEF SavedInBuffer, Begins
<1> QED BY <1>5, <1>7, <1>8 DEF EditInv

(* A key. *)
LEMMA PutStep ==
  ASSUME Typed!LineConstants, EditInv, NEW c \in EditChars, Typed!Put(c) \/ Typed!Backspace \/ Typed!Exit
  PROVE  EditInv'
<1> USE DEF EditInv, EditTypes, SavedInFile, SavedInBuffer
<1>1. CASE Typed!Put(c)
  <2>1. l_edit \in Seq(EditChars) /\ Len(l_edit) < EditSize /\ EditSize \in Nat
    BY <1>1 DEF Typed!Put, Typed!LineConstants
  <2>2. l_edit' = Append(l_edit, c) /\ l_clean' = FALSE /\ UNCHANGED <<l_file, l_saved, l_longer>>
    BY <1>1 DEF Typed!Put
  <2>3. l_edit' \in Seq(EditChars) /\ Len(l_edit') <= EditSize
    BY <2>1, <2>2
  <2> QED BY <2>2, <2>3
<1>2. CASE Typed!Backspace
  <2>1. l_edit \in Seq(EditChars) /\ Len(l_edit) <= EditSize /\ EditSize \in Nat /\ l_edit # <<>>
    BY <1>2 DEF Typed!Backspace, Typed!LineConstants
  <2>2. l_edit' = SubSeq(l_edit, 1, Len(l_edit) - 1) /\ l_clean' = FALSE
        /\ UNCHANGED <<l_file, l_saved, l_longer>>
    BY <1>2 DEF Typed!Backspace, Typed!Front
  <2>3. Len(l_edit) - 1 \in Nat /\ Len(l_edit) - 1 <= Len(l_edit)
    BY <2>1
  <2>4. l_edit' \in Seq(EditChars) /\ Len(l_edit') <= EditSize
    BY <2>1, <2>2, <2>3
  <2> QED BY <2>2, <2>4
<1>3. CASE Typed!Exit
  BY <1>3 DEF Typed!Exit
<1> QED BY <1>1, <1>2, <1>3

LineInv == HistoryInv /\ EditInv

(* The history and the editor. *)
LEMMA LineStep ==
  ASSUME Typed!LineConstants, LineInv, [Typed!Next]_(Typed!lineVars)
  PROVE  LineInv'
<1> USE DEF LineInv
<1>1. ASSUME NEW cmd \in HistoryLines, Typed!add_to_history(cmd)
      PROVE  LineInv'
  <2>1. UNCHANGED <<l_edit, l_file, l_clean, l_saved, l_longer>>
    BY <1>1 DEF Typed!add_to_history, Typed!editor
  <2>2. EditInv'
    BY <2>1 DEF EditInv, EditTypes, SavedInFile, SavedInBuffer
  <2> QED BY <1>1, <2>2, HistoryStep
<1>2. ASSUME UNCHANGED <<l_history, l_history_count, l_history_index, l_typed>>
      PROVE  HistoryInv'
  BY <1>2 DEF HistoryInv, Typed!Slots
<1>3. CASE Typed!Open
  BY <1>2, <1>3, OpenStep DEF Typed!Open, Typed!lines
<1>4. CASE Typed!Save
  BY <1>2, <1>4, SaveStep DEF Typed!Save, Typed!lines
<1>5. ASSUME NEW c \in EditChars, Typed!Put(c)
      PROVE  LineInv'
  BY <1>2, <1>5, PutStep DEF Typed!Put, Typed!lines
<1>6. CASE Typed!Backspace
  <2>1. EditInv'
    <3>1. CASE EditChars = {}
      <4>1. l_edit \in Seq(EditChars) /\ l_edit # <<>>
        BY <1>6 DEF EditInv, EditTypes, Typed!Backspace
      <4> QED BY <3>1, <4>1
    <3>2. CASE EditChars # {}
      BY <1>6, <3>2, PutStep
    <3> QED BY <3>1, <3>2
  <2> QED BY <1>2, <1>6, <2>1 DEF Typed!Backspace, Typed!lines
<1>7. CASE Typed!Exit
  BY <1>2, <1>7 DEF Typed!Exit, Typed!lines, EditInv, EditTypes, SavedInFile, SavedInBuffer
<1>8. CASE UNCHANGED Typed!lineVars
  <2>1. UNCHANGED <<l_edit, l_file, l_clean, l_saved, l_longer>>
        /\ UNCHANGED <<l_history, l_history_count, l_history_index, l_typed>>
    BY <1>8 DEF Typed!lineVars
  <2>2. EditInv'
    BY <2>1 DEF EditInv, EditTypes, SavedInFile, SavedInBuffer
  <2> QED BY <1>2, <2>1, <2>2
<1> QED BY <1>1, <1>3, <1>4, <1>5, <1>6, <1>7, <1>8 DEF Typed!Next

(* Initially nothing was typed or saved. *)
LEMMA LineInit ==
  ASSUME Typed!LineConstants, Typed!Init
  PROVE  LineInv
<1>1. HistoryInv
  BY DEF Typed!Init, HistoryInv, Typed!Slots, Typed!LineConstants
<1>2. l_file \in Seq(EditChars)
  <2>1. PICK m \in 0 .. EditFile : l_file \in [1 .. m -> EditChars]
    BY DEF Typed!Init, Typed!BoundedSeq, Typed!SeqOf
  <2> QED BY <2>1 DEF Typed!LineConstants
<1>3. EditInv
  BY <1>2 DEF Typed!Init, EditInv, EditTypes, SavedInFile, SavedInBuffer
<1> QED BY <1>1, <1>3 DEF LineInv

(* What the editor shows. *)
LEMMA LineHolds ==
  ASSUME Typed!LineConstants, LineInv
  PROVE  Typed!LineSound
<1>1. Typed!HistoryTrue
  BY DEF LineInv, HistoryInv, Typed!HistoryTrue, Before
<1>2. ASSUME l_saved # NoEvent, l_edit # NoEvent, l_clean
      PROVE  /\ Len(l_saved) <= Len(l_edit) /\ SubSeq(l_edit, 1, Len(l_saved)) = l_saved
             /\ ~l_longer => l_edit = l_saved
  <2>1. /\ l_saved \in Seq(EditChars) /\ l_edit \in Seq(EditChars)
        /\ Len(l_saved) <= Len(l_edit) /\ Len(l_saved) \in Nat
        /\ \A i \in 1 .. Len(l_saved) : l_edit[i] = l_saved[i]
        /\ ~l_longer => Len(l_edit) = Len(l_saved)
    BY <1>2 DEF LineInv, EditInv, EditTypes, SavedInBuffer, Begins
  <2>2. SubSeq(l_edit, 1, Len(l_saved)) = l_saved
    BY <2>1
  <2>3. Len(l_edit) = Len(l_saved) => l_edit = l_saved
    BY <2>1
  <2> QED BY <2>1, <2>2, <2>3
<1> QED BY <1>1, <1>2 DEF Typed!LineSound, Typed!SavedIsShown

----------------------------------------------------------------------------
(* The mouse.  The events a reader may see. *)
ReaderEvents ==
  [type : {"key_down", "key_up"}, key : InputLetters \cup InputOthers \cup {"caps"},
   upper : BOOLEAN]
  \cup {[type |-> "mouse_down"], [type |-> "mouse_up"]}
  \cup [type : {"move"}, x : 0 .. InputWidth - 1, y : 0 .. InputHeight - 1]

(* The button goes down and up by turns in s, and is b at its end. *)
Alternates(s, b) ==
  /\ \A i \in 1 .. Len(s) : /\ s[i].type = "mouse_down" => ~Keys!DownAfter(s, i - 1)
                            /\ s[i].type = "mouse_up"   => Keys!DownAfter(s, i - 1)
  /\ b <=> Keys!DownAfter(s, Len(s))

(* What an event makes of the state of the button. *)
Turns(e, b, c) ==
  /\ e.type = "mouse_down" => ~b /\ c
  /\ e.type = "mouse_up" => b /\ ~c
  /\ e.type \notin {"mouse_down", "mouse_up"} => (b <=> c)

(* Such an event may be next. *)
LEMMA AlternatesPut ==
  ASSUME NEW s \in Seq(ReaderEvents), NEW e \in ReaderEvents, NEW b \in BOOLEAN, NEW c \in BOOLEAN,
         Alternates(s, b), Turns(e, b, c)
  PROVE  Alternates(Append(s, e), c)
<1> DEFINE r == Append(s, e)
           n == Len(s)
<1>1. n \in Nat /\ Len(r) = n + 1 /\ r[n + 1] = e /\ \A i \in 1 .. n : r[i] = s[i]
  OBVIOUS
<1> HIDE DEF r
<1>2. ASSUME NEW k \in 0 .. n
      PROVE  Keys!DownAfter(r, k) <=> Keys!DownAfter(s, k)
  <2>1. \A i \in 1 .. k : r[i] = s[i]
    BY <1>1
  <2>2. \A i \in 1 .. k : \A j \in i + 1 .. k : r[j] = s[j]
    BY <1>1
  <2> QED BY <2>1, <2>2 DEF Keys!DownAfter
<1>3. Keys!DownAfter(r, n + 1) <=> \/ e.type = "mouse_down"
                                   \/ e.type # "mouse_up" /\ Keys!DownAfter(r, n)
  <2>1. ASSUME e.type = "mouse_down"
        PROVE  Keys!DownAfter(r, n + 1)
    BY <1>1, <2>1 DEF Keys!DownAfter
  <2>2. ASSUME e.type # "mouse_up", Keys!DownAfter(r, n)
        PROVE  Keys!DownAfter(r, n + 1)
    <3>1. PICK i \in 1 .. n : r[i].type = "mouse_down" /\ \A j \in i + 1 .. n : r[j].type # "mouse_up"
      BY <2>2 DEF Keys!DownAfter
    <3>2. \A j \in i + 1 .. n + 1 : r[j].type # "mouse_up"
      BY <1>1, <2>2, <3>1
    <3> QED BY <1>1, <3>1, <3>2 DEF Keys!DownAfter
  <2>3. ASSUME Keys!DownAfter(r, n + 1), e.type # "mouse_down"
        PROVE  e.type # "mouse_up" /\ Keys!DownAfter(r, n)
    <3>1. PICK i \in 1 .. n + 1 : r[i].type = "mouse_down"
                                  /\ \A j \in i + 1 .. n + 1 : r[j].type # "mouse_up"
      BY <2>3 DEF Keys!DownAfter
    <3>2. i \in 1 .. n
      BY <1>1, <2>3, <3>1
    <3>3. n + 1 \in i + 1 .. n + 1 /\ \A j \in i + 1 .. n : j \in i + 1 .. n + 1
      BY <1>1, <3>2
    <3> QED BY <1>1, <3>1, <3>2, <3>3 DEF Keys!DownAfter
  <2> QED BY <2>1, <2>2, <2>3
<1>4. Keys!DownAfter(r, n) <=> b
  BY <1>1, <1>2 DEF Alternates
<1>5. c <=> Keys!DownAfter(r, n + 1)
  BY <1>3, <1>4 DEF Turns
<1>6. ASSUME NEW i \in 1 .. n + 1
      PROVE  /\ r[i].type = "mouse_down" => ~Keys!DownAfter(r, i - 1)
             /\ r[i].type = "mouse_up"   => Keys!DownAfter(r, i - 1)
  <2>1. CASE i = n + 1
    <3>1. i - 1 = n /\ r[i] = e
      BY <1>1, <2>1
    <3> QED BY <1>4, <3>1 DEF Turns
  <2>2. CASE i # n + 1
    <3>1. i \in 1 .. n /\ i - 1 \in 0 .. n
      BY <1>1, <2>2
    <3>2. r[i] = s[i] /\ (Keys!DownAfter(r, i - 1) <=> Keys!DownAfter(s, i - 1))
      BY <1>1, <1>2, <3>1
    <3>3. /\ s[i].type = "mouse_down" => ~Keys!DownAfter(s, i - 1)
          /\ s[i].type = "mouse_up"   => Keys!DownAfter(s, i - 1)
      BY <3>1 DEF Alternates
    <3> QED BY <3>2, <3>3
  <2> QED BY <2>1, <2>2
<1> QED BY <1>1, <1>5, <1>6 DEF Alternates, r

(* No event yet. *)
LEMMA AlternatesNone ==
  Alternates(<<>>, FALSE)
  BY DEF Alternates, Keys!DownAfter

(* One event more at the end of the second part. *)
LEMMA SeenOne ==
  ASSUME NEW S, NEW p \in Seq(S), NEW q \in Seq(S), NEW e \in S
  PROVE  /\ q \o <<e>> = Append(q, e) /\ Append(q, e) \in Seq(S)
         /\ p \o Append(q, e) = Append(p \o q, e) /\ p \o q \in Seq(S)
<1>1. q \o <<e>> = Append(q, e) /\ Append(q, e) \in Seq(S) /\ p \o q \in Seq(S)
  OBVIOUS
<1>2. p \o Append(q, e) = Append(p \o q, e)
  OBVIOUS
<1> QED BY <1>1, <1>2

(* The first event of the second part becomes the last of the first. *)
LEMMA SeenMoved ==
  ASSUME NEW S, NEW p \in Seq(S), NEW q \in Seq(S), q # <<>>
  PROVE  /\ Head(q) \in S /\ Append(p, Head(q)) \in Seq(S) /\ Tail(q) \in Seq(S)
         /\ Len(Tail(q)) = Len(q) - 1
         /\ Append(p, Head(q)) \o Tail(q) = p \o q
<1>1. Head(q) \in S /\ Append(p, Head(q)) \in Seq(S) /\ Tail(q) \in Seq(S) /\ Len(Tail(q)) = Len(q) - 1
  OBVIOUS
<1>2. Append(p, Head(q)) \o Tail(q) = p \o q
  OBVIOUS
<1> QED BY <1>1, <1>2

(* A packet of the mouse, as far as it came. *)
PacketItems == [button : BOOLEAN, left : BOOLEAN, up : BOOLEAN] \cup Int

PacketTypes ==
  /\ mouse_cycle \in 0 .. 2 /\ packet \in Seq(PacketItems) /\ Len(packet) = mouse_cycle
  /\ mouse_cycle = 2 => packet[2] \in Int
  /\ mouse_cycle # 0 => packet[1].button \in BOOLEAN

InputTypes ==
  /\ shift \in BOOLEAN /\ caps \in BOOLEAN /\ dropped \in BOOLEAN /\ last_button_state \in BOOLEAN
  /\ mouse_x \in Int /\ mouse_y \in Int
  /\ queue \in Seq(ReaderEvents) /\ Len(queue) <= InputQueue /\ taken \in Seq(ReaderEvents)

InputInv ==
  /\ PacketTypes /\ InputTypes
  /\ ~dropped => Alternates(taken \o queue, last_button_state)

(* No event is lost while nothing is dropped. *)
LEMMA PushTypes ==
  ASSUME Keys!InputConstants, InputTypes, NEW events \in Seq(ReaderEvents), Keys!Push(events)
  PROVE  /\ queue' \in Seq(ReaderEvents) /\ Len(queue') <= InputQueue /\ dropped' \in BOOLEAN
         /\ ~dropped' => ~dropped /\ queue' = queue \o events
<1> DEFINE L == Len(queue)
           n == Len(events)
           room == InputQueue - L
           k == IF n < room THEN n ELSE room
           r == SubSeq(events, 1, k)
           q == queue'
<1>1. queue \in Seq(ReaderEvents) /\ L \in Nat /\ L <= InputQueue /\ n \in Nat /\ InputQueue \in Nat
      /\ dropped \in BOOLEAN
  BY DEF InputTypes, Keys!InputConstants
<1>2. q = queue \o r /\ dropped' = (dropped \/ n > room)
  BY DEF Keys!Push
<1>3. room \in Nat
  BY <1>1
<1> HIDE DEF L, n, room
<1>4. k \in 0 .. n /\ k <= room /\ (~(n > room) => k = n)
  BY <1>1, <1>3
<1> HIDE DEF k
<1>5. r \in Seq(ReaderEvents) /\ Len(r) = k
  BY <1>1, <1>4 DEF n
<1>6. k = n => r = events
  BY DEF n
<1> HIDE DEF r, q
<1>7. Joined(queue \o r, queue, r, ReaderEvents)
  BY <1>1, <1>5, JoinedLemma
<1>8. q \in Seq(ReaderEvents) /\ Len(q) = L + k
  BY <1>2, <1>5, <1>7 DEF Joined, L
<1>9. Len(q) <= InputQueue
  BY <1>1, <1>3, <1>4, <1>8 DEF room
<1>10. dropped' \in BOOLEAN /\ (~dropped' => ~dropped /\ ~(n > room))
  BY <1>1, <1>2
<1>11. ~dropped' => queue' = queue \o events
  BY <1>2, <1>4, <1>6, <1>10 DEF q
<1> QED BY <1>8, <1>9, <1>10, <1>11 DEF q

(* One event is pushed. *)
LEMMA PushOne ==
  ASSUME Keys!InputConstants, InputInv, NEW e \in ReaderEvents, NEW c \in BOOLEAN,
         Turns(e, last_button_state, c), Keys!Push(<<e>>), taken' = taken
  PROVE  /\ queue' \in Seq(ReaderEvents) /\ Len(queue') <= InputQueue /\ dropped' \in BOOLEAN
         /\ ~dropped' => Alternates(taken' \o queue', c)
<1>1. queue \in Seq(ReaderEvents) /\ taken \in Seq(ReaderEvents) /\ last_button_state \in BOOLEAN
  BY DEF InputInv, InputTypes
<1>2. <<e>> \in Seq(ReaderEvents)
  OBVIOUS
<1>3. /\ queue' \in Seq(ReaderEvents) /\ Len(queue') <= InputQueue /\ dropped' \in BOOLEAN
      /\ ~dropped' => ~dropped /\ queue' = queue \o <<e>>
  BY <1>2, PushTypes DEF InputInv
<1>4. ASSUME ~dropped'
      PROVE  Alternates(taken' \o queue', c)
  <2>1. ~dropped /\ queue' = queue \o <<e>>
    BY <1>3, <1>4
  <2>2. queue \o <<e>> = Append(queue, e)
        /\ taken \o Append(queue, e) = Append(taken \o queue, e) /\ taken \o queue \in Seq(ReaderEvents)
    BY <1>1, SeenOne
  <2>3. Alternates(taken \o queue, last_button_state)
    BY <2>1 DEF InputInv
  <2>4. Alternates(Append(taken \o queue, e), c)
    BY <1>1, <2>2, <2>3, AlternatesPut
  <2> QED BY <2>1, <2>2, <2>4
<1> QED BY <1>3, <1>4

(* Two events are pushed. *)
LEMMA PushTwo ==
  ASSUME Keys!InputConstants, InputInv, NEW e \in ReaderEvents, NEW f \in ReaderEvents,
         NEW b \in BOOLEAN, NEW c \in BOOLEAN,
         Turns(e, last_button_state, b), Turns(f, b, c), Keys!Push(<<e>> \o <<f>>), taken' = taken
  PROVE  /\ queue' \in Seq(ReaderEvents) /\ Len(queue') <= InputQueue /\ dropped' \in BOOLEAN
         /\ ~dropped' => Alternates(taken' \o queue', c)
<1>1. queue \in Seq(ReaderEvents) /\ taken \in Seq(ReaderEvents) /\ last_button_state \in BOOLEAN
  BY DEF InputInv, InputTypes
<1>2. <<e>> \o <<f>> \in Seq(ReaderEvents) /\ <<e>> \in Seq(ReaderEvents) /\ <<f>> \in Seq(ReaderEvents)
  OBVIOUS
<1>3. /\ queue' \in Seq(ReaderEvents) /\ Len(queue') <= InputQueue /\ dropped' \in BOOLEAN
      /\ ~dropped' => ~dropped /\ queue' = queue \o (<<e>> \o <<f>>)
  BY <1>2, PushTypes DEF InputInv
<1>4. ASSUME ~dropped'
      PROVE  Alternates(taken' \o queue', c)
  <2> DEFINE q == Append(queue, e)
  <2>1. ~dropped /\ queue' = queue \o (<<e>> \o <<f>>)
    BY <1>3, <1>4
  <2>2. queue \o (<<e>> \o <<f>>) = (queue \o <<e>>) \o <<f>>
    BY <1>1, <1>2
  <2>3. queue \o <<e>> = q /\ q \in Seq(ReaderEvents)
        /\ taken \o q = Append(taken \o queue, e) /\ taken \o queue \in Seq(ReaderEvents)
    BY <1>1, SeenOne
  <2> HIDE DEF q
  <2>4. q \o <<f>> = Append(q, f)
        /\ taken \o Append(q, f) = Append(taken \o q, f) /\ taken \o q \in Seq(ReaderEvents)
    <3>1. q \in Seq(ReaderEvents) /\ taken \in Seq(ReaderEvents) /\ f \in ReaderEvents
      BY <1>1, <2>3
    <3> HIDE DEF ReaderEvents
    <3> QED BY <3>1, SeenOne
  <2>5. Alternates(taken \o queue, last_button_state)
    BY <2>1 DEF InputInv
  <2>6. Alternates(Append(taken \o queue, e), b)
    BY <1>1, <2>3, <2>5, AlternatesPut
  <2>7. Alternates(Append(taken \o q, f), c)
    BY <2>3, <2>4, <2>6, AlternatesPut
  <2> QED BY <2>1, <2>2, <2>3, <2>4, <2>7
<1> QED BY <1>3, <1>4

(* A key. *)
LEMMA KeyStep ==
  ASSUME Keys!InputConstants, InputInv, NEW key \in InputLetters \cup InputOthers \cup {"caps"},
         NEW down \in BOOLEAN, Keys!Key(key, down)
  PROVE  InputInv'
<1> DEFINE e == [type |-> IF down THEN "key_down" ELSE "key_up", key |-> key,
                 upper |-> down /\ Keys!Upper(key)]
<1>1. Keys!Push(<<e>>) /\ UNCHANGED <<shift, caps, mouse_cycle, packet, mouse_x, mouse_y, last_button_state, taken>>
  BY DEF Keys!Key, Keys!keyboard, Keys!mouse
<1>2. (down /\ Keys!Upper(key)) \in BOOLEAN
  OBVIOUS
<1>3. e \in ReaderEvents /\ e.type \in {"key_down", "key_up"}
  BY <1>2 DEF ReaderEvents
<1>4. last_button_state \in BOOLEAN /\ PacketTypes /\ InputTypes
  BY DEF InputInv, InputTypes
<1> HIDE DEF e
<1>5. Turns(e, last_button_state, last_button_state)
  BY <1>3, <1>4 DEF Turns
<1>6. /\ queue' \in Seq(ReaderEvents) /\ Len(queue') <= InputQueue /\ dropped' \in BOOLEAN
      /\ ~dropped' => Alternates(taken' \o queue', last_button_state)
  BY <1>1, <1>3, <1>4, <1>5, PushOne
<1>7. PacketTypes'
  BY <1>1, <1>4 DEF PacketTypes
<1>8. InputTypes'
  BY <1>1, <1>4, <1>6 DEF InputTypes
<1> QED BY <1>1, <1>6, <1>7, <1>8 DEF InputInv

(* A second item. *)
LEMMA AppendSecond ==
  ASSUME NEW S, NEW p \in Seq(S), Len(p) = 1, NEW e \in S
  PROVE  Append(p, e) \in Seq(S) /\ Len(Append(p, e)) = 2 /\ Append(p, e)[1] = p[1] /\ Append(p, e)[2] = e
<1> DEFINE r == Append(p, e)
<1>1. r \in Seq(S) /\ Len(r) = Len(p) + 1 /\ r[Len(p) + 1] = e /\ \A i \in 1 .. Len(p) : r[i] = p[i]
  OBVIOUS
<1> HIDE DEF r
<1>2. r \in Seq(S) /\ Len(r) = 2 /\ r[1] = p[1] /\ r[2] = e
  BY <1>1
<1> QED BY <1>2 DEF r

(* The first two bytes of a packet, a modifier, or nothing. *)
LEMMA ByteStep ==
  ASSUME Keys!InputConstants, InputInv, UNCHANGED <<mouse_x, mouse_y, last_button_state, queue, taken, dropped>>,
         \/ /\ UNCHANGED <<mouse_cycle, packet>>
            /\ shift' \in BOOLEAN /\ caps' \in BOOLEAN
         \/ /\ UNCHANGED <<shift, caps>>
            /\ \/ \E marked, button, lft, up \in BOOLEAN : Keys!FirstByte(marked, button, lft, up)
               \/ \E delta \in InputDeltas : Keys!SecondByte(delta)
  PROVE  InputInv'
<1>1. PacketTypes'
  <2>1. CASE UNCHANGED <<mouse_cycle, packet>>
    BY <2>1 DEF InputInv, PacketTypes
  <2>2. ASSUME NEW marked \in BOOLEAN, NEW button \in BOOLEAN, NEW lft \in BOOLEAN, NEW up \in BOOLEAN,
               Keys!FirstByte(marked, button, lft, up)
        PROVE  PacketTypes'
    <3>1. CASE marked
      <4> DEFINE a == [button |-> button, left |-> lft, up |-> up]
      <4>1. mouse_cycle' = 1 /\ packet' = <<a>>
        BY <2>2, <3>1 DEF Keys!FirstByte
      <4>2. a \in PacketItems /\ a.button \in BOOLEAN
        BY DEF PacketItems
      <4> HIDE DEF a
      <4> QED BY <4>1, <4>2 DEF PacketTypes
    <3>2. CASE ~marked
      BY <2>1, <2>2, <3>2 DEF Keys!FirstByte
    <3> QED BY <3>1, <3>2
  <2>3. ASSUME NEW delta \in InputDeltas, Keys!SecondByte(delta)
        PROVE  PacketTypes'
    <3>1. mouse_cycle = 1 /\ packet \in Seq(PacketItems) /\ Len(packet) = 1 /\ packet[1].button \in BOOLEAN
          /\ mouse_cycle' = 2 /\ packet' = Append(packet, delta) /\ delta \in Int
      BY <2>3 DEF Keys!SecondByte, InputInv, PacketTypes, Keys!InputConstants
    <3>2. packet' \in Seq(PacketItems) /\ Len(packet') = 2 /\ packet'[1] = packet[1] /\ packet'[2] = delta
      <4>1. packet \in Seq(PacketItems) /\ Len(packet) = 1 /\ delta \in PacketItems
        BY <3>1 DEF PacketItems
      <4> QED BY <3>1, <4>1, AppendSecond
    <3> QED BY <3>1, <3>2 DEF PacketTypes
  <2> QED BY <2>1, <2>2, <2>3
<1>2. shift' \in BOOLEAN /\ caps' \in BOOLEAN
  BY DEF InputInv, InputTypes
<1>3. InputTypes'
  BY <1>2 DEF InputInv, InputTypes
<1> QED BY <1>1, <1>3 DEF InputInv

(* The third byte of a packet. *)
LEMMA PacketStep ==
  ASSUME Keys!InputConstants, InputInv, NEW delta \in InputDeltas, Keys!ThirdByte(delta)
  PROVE  InputInv'
<1> DEFINE e == [type |-> "move", x |-> mouse_x', y |-> mouse_y']
           b == last_button_state
           c == packet[1].button
           u == [type |-> "mouse_up"]
           d == [type |-> "mouse_down"]
<1>1. b \in BOOLEAN /\ c \in BOOLEAN /\ packet[2] \in Int /\ delta \in Int /\ mouse_x \in Int /\ mouse_y \in Int
      /\ InputTypes
  BY DEF InputInv, InputTypes, PacketTypes, Keys!InputConstants, Keys!ThirdByte
<1>2. ASSUME NEW n \in Int, NEW limit \in Nat, limit # 0
      PROVE  Keys!Clamp(n, limit) \in 0 .. limit - 1
  BY <1>2 DEF Keys!Clamp
<1>3. mouse_x' \in 0 .. InputWidth - 1 /\ mouse_y' \in 0 .. InputHeight - 1
  <2>1. mouse_x + (IF packet[1].left THEN -packet[2] ELSE packet[2]) \in Int
        /\ mouse_y - (IF packet[1].up THEN -delta ELSE delta) \in Int
    BY <1>1
  <2>2. InputWidth \in Nat /\ InputWidth # 0 /\ InputHeight \in Nat /\ InputHeight # 0
    BY DEF Keys!InputConstants
  <2>3. /\ mouse_x' = Keys!Clamp(mouse_x + (IF packet[1].left THEN -packet[2] ELSE packet[2]), InputWidth)
        /\ mouse_y' = Keys!Clamp(mouse_y - (IF packet[1].up THEN -delta ELSE delta), InputHeight)
    BY DEF Keys!ThirdByte
  <2> QED BY <1>2, <2>1, <2>2, <2>3
<1>4. /\ mouse_cycle' = 0 /\ packet' = <<>> /\ last_button_state' = c
      /\ Keys!Push(<<e>> \o Keys!ButtonEvents(c)) /\ UNCHANGED <<shift, caps, taken>>
  BY DEF Keys!ThirdByte, Keys!keyboard
<1>5. e \in ReaderEvents /\ u \in ReaderEvents /\ d \in ReaderEvents
  BY <1>3 DEF ReaderEvents
<1>6. e.type = "move" /\ u.type = "mouse_up" /\ d.type = "mouse_down"
  OBVIOUS
<1>7. PacketTypes'
  BY <1>4 DEF PacketTypes
<1> HIDE DEF e, u, c, d
<1>8. /\ queue' \in Seq(ReaderEvents) /\ Len(queue') <= InputQueue /\ dropped' \in BOOLEAN
      /\ ~dropped' => Alternates(taken' \o queue', c)
  <2>1. Turns(e, b, b)
    BY <1>1, <1>6 DEF Turns
  <2>2. CASE c = b
    <3>1. <<e>> \o Keys!ButtonEvents(c) = <<e>>
      BY <2>2 DEF Keys!ButtonEvents
    <3>2. Keys!Push(<<e>>)
      BY <1>4, <3>1
    <3> QED BY <1>1, <1>4, <1>5, <2>1, <2>2, <3>2, PushOne
  <2>3. CASE c # b /\ c
    <3>1. Keys!ButtonEvents(c) = <<d>>
      BY <2>3 DEF Keys!ButtonEvents, d
    <3>2. Keys!Push(<<e>> \o <<d>>) /\ Turns(d, b, c)
      BY <1>1, <1>4, <1>6, <2>3, <3>1 DEF Turns
    <3> QED BY <1>1, <1>4, <1>5, <2>1, <3>2, PushTwo
  <2>4. CASE c # b /\ ~c
    <3>1. Keys!ButtonEvents(c) = <<u>>
      BY <2>4 DEF Keys!ButtonEvents, u
    <3>2. Keys!Push(<<e>> \o <<u>>) /\ Turns(u, b, c)
      BY <1>1, <1>4, <1>6, <2>4, <3>1 DEF Turns
    <3> QED BY <1>1, <1>4, <1>5, <2>1, <3>2, PushTwo
  <2> QED BY <1>1, <2>2, <2>3, <2>4
<1>9. InputTypes'
  BY <1>1, <1>3, <1>4, <1>8 DEF InputTypes
<1> QED BY <1>4, <1>7, <1>8, <1>9 DEF InputInv

(* A reader takes an event. *)
LEMMA TakeStep ==
  ASSUME Keys!InputConstants, InputInv, Keys!Take
  PROVE  InputInv'
<1>1. queue \in Seq(ReaderEvents) /\ taken \in Seq(ReaderEvents) /\ queue # <<>>
  BY DEF InputInv, InputTypes, Keys!Take
<1>2. taken' = Append(taken, Head(queue)) /\ queue' = Tail(queue)
      /\ UNCHANGED <<shift, caps, mouse_cycle, packet, mouse_x, mouse_y, last_button_state, dropped>>
  BY DEF Keys!Take, Keys!keyboard, Keys!mouse
<1>3. /\ taken' \in Seq(ReaderEvents) /\ queue' \in Seq(ReaderEvents) /\ Len(queue') = Len(queue) - 1
      /\ taken' \o queue' = taken \o queue
  BY <1>1, <1>2, SeenMoved
<1>4. Len(queue') <= InputQueue
  <2>1. Len(queue) \in Nat /\ Len(queue) <= InputQueue /\ InputQueue \in Nat
    BY <1>1 DEF InputInv, InputTypes, Keys!InputConstants
  <2> QED BY <1>3, <2>1
<1>5. PacketTypes'
  BY <1>2 DEF InputInv, PacketTypes
<1>6. InputTypes'
  BY <1>2, <1>3, <1>4 DEF InputInv, InputTypes
<1> QED BY <1>2, <1>3, <1>5, <1>6 DEF InputInv

(* The handlers and the readers. *)
LEMMA InputStep ==
  ASSUME Keys!InputConstants, InputInv, [Keys!Next]_(Keys!vars)
  PROVE  InputInv'
<1>1. ASSUME NEW key \in {"shift", "ctrl", "caps"}, NEW down \in BOOLEAN, Keys!Modifier(key, down)
      PROVE  InputInv'
  <2>1. UNCHANGED <<mouse_cycle, packet, mouse_x, mouse_y, last_button_state, queue, taken, dropped>>
    BY <1>1 DEF Keys!Modifier, Keys!mouse
  <2>2. shift' \in BOOLEAN /\ caps' \in BOOLEAN
    BY <1>1 DEF Keys!Modifier, InputInv, InputTypes
  <2> QED BY <2>1, <2>2, ByteStep
<1>2. ASSUME NEW marked \in BOOLEAN, NEW button \in BOOLEAN, NEW lft \in BOOLEAN, NEW up \in BOOLEAN,
             Keys!FirstByte(marked, button, lft, up)
      PROVE  InputInv'
  <2>1. UNCHANGED <<shift, caps, mouse_x, mouse_y, last_button_state, queue, taken, dropped>>
    BY <1>2 DEF Keys!FirstByte, Keys!keyboard
  <2> QED BY <1>2, <2>1, ByteStep
<1>3. ASSUME NEW delta \in InputDeltas, Keys!SecondByte(delta)
      PROVE  InputInv'
  <2>1. UNCHANGED <<shift, caps, mouse_x, mouse_y, last_button_state, queue, taken, dropped>>
    BY <1>3 DEF Keys!SecondByte, Keys!keyboard
  <2> QED BY <1>3, <2>1, ByteStep
<1>4. CASE UNCHANGED Keys!vars
  <2>1. UNCHANGED <<shift, caps, mouse_cycle, packet, mouse_x, mouse_y, last_button_state, queue, taken, dropped>>
    BY <1>4 DEF Keys!vars, Keys!keyboard, Keys!mouse
  <2>2. shift' \in BOOLEAN /\ caps' \in BOOLEAN
    BY <2>1 DEF InputInv, InputTypes
  <2> QED BY <2>1, <2>2, ByteStep
<1>5. CASE Keys!Key("caps", FALSE)
  BY <1>5, KeyStep
<1> QED BY <1>1, <1>2, <1>3, <1>4, <1>5, KeyStep, PacketStep, TakeStep DEF Keys!Next

(* Initially no event was seen. *)
LEMMA InputInit ==
  ASSUME Keys!InputConstants, Keys!Init
  PROVE  InputInv
<1>1. queue = <<>> /\ taken = <<>> /\ taken \o queue = <<>> /\ Len(queue) = 0
  BY DEF Keys!Init
<1>2. PacketTypes
  BY DEF Keys!Init, PacketTypes
<1>3. InputTypes
  <2>1. queue \in Seq(ReaderEvents) /\ taken \in Seq(ReaderEvents) /\ Len(queue) <= InputQueue
    BY <1>1 DEF Keys!InputConstants
  <2>2. /\ shift \in BOOLEAN /\ caps \in BOOLEAN /\ dropped \in BOOLEAN /\ last_button_state \in BOOLEAN
        /\ mouse_x = 0 /\ mouse_y = 0
    BY DEF Keys!Init
  <2> QED BY <2>1, <2>2 DEF InputTypes
<1>4. Alternates(taken \o queue, last_button_state)
  BY <1>1, AlternatesNone DEF Keys!Init
<1> QED BY <1>2, <1>3, <1>4 DEF InputInv

(* What the readers see. *)
LEMMA InputHolds ==
  ASSUME InputInv
  PROVE  Keys!MouseTrue
<1> DEFINE s == taken \o queue
<1>1. s \in Seq(ReaderEvents) /\ last_button_state \in BOOLEAN
  BY DEF InputInv, InputTypes
<1>2. Keys!Seen = s
  BY DEF Keys!Seen
<1> HIDE DEF s
<1>3. ASSUME NEW i \in 1 .. Len(s), s[i].type = "move"
      PROVE  s[i].x \in 0 .. InputWidth - 1 /\ s[i].y \in 0 .. InputHeight - 1
  <2>1. s[i] \in ReaderEvents
    BY <1>1
  <2>2. s[i] \in [type : {"move"}, x : 0 .. InputWidth - 1, y : 0 .. InputHeight - 1]
    BY <1>3, <2>1 DEF ReaderEvents
  <2> QED BY <2>2
<1>4. ASSUME ~dropped
      PROVE  Alternates(s, last_button_state)
  BY <1>4 DEF InputInv, s
<1>5. ASSUME ~dropped
      PROVE  last_button_state = Keys!DownAfter(s, Len(s))
  <2>1. last_button_state <=> Keys!DownAfter(s, Len(s))
    BY <1>4, <1>5 DEF Alternates
  <2>2. Keys!DownAfter(s, Len(s)) \in BOOLEAN
    BY DEF Keys!DownAfter
  <2> QED BY <1>1, <2>1, <2>2
<1>6. ASSUME ~dropped
      PROVE  \A i \in 1 .. Len(s) : /\ s[i].type = "mouse_down" => ~Keys!DownAfter(s, i - 1)
                                    /\ s[i].type = "mouse_up"   => Keys!DownAfter(s, i - 1)
  BY <1>4, <1>6 DEF Alternates
<1> QED BY <1>2, <1>3, <1>5, <1>6 DEF Keys!MouseTrue

----------------------------------------------------------------------------
RingsInv == LogInv /\ LineInv /\ InputInv

(* One step of one machine. *)
LEMMA RingsStep ==
  ASSUME RingsInv, [MCNext]_all
  PROVE  RingsInv'
<1>1. Log!KLogConstants /\ Typed!LineConstants /\ Keys!InputConstants
  BY MachineConstants
<1>2. [Log!Next]_(Log!vars)
  BY DEF MCNext, all, others, vars, logVars, EventsOnly, RingOnly, KeysOnly, CardOnly, LanOnly,
         DisplayOnly, TypedOnly, BusOnly, Log!vars, Log!log
<1>3. [Typed!Next]_(Typed!lineVars)
  BY DEF MCNext, all, others, vars, lineVars, EventsOnly, RingOnly, LogOnly, KeysOnly, CardOnly, LanOnly,
         DisplayOnly, TypedOnly, BusOnly, Typed!lineVars
<1>4. [Keys!Next]_(Keys!vars)
  BY DEF MCNext, all, others, vars, inputVars, EventsOnly, RingOnly, LogOnly, KeysOnly, CardOnly, LanOnly,
         DisplayOnly, TypedOnly, BusOnly, Keys!vars, Keys!keyboard, Keys!mouse
<1> QED BY <1>1, <1>2, <1>3, <1>4, LogStep, LineStep, InputStep DEF RingsInv

(* The newest messages of the log are complete and in their order, whatever message was cut
   between its steps (log.c:52-84); who reads the events sees the left button go down and up by
   turns, while none was dropped, and no position off the screen (mouse.c:60-123); the history
   shows the last lines of the shell in the order they were typed, and the editor what it saved
   (shell.c:20-62, 640-713). *)
THEOREM RingsTheorem == MCSpec => []RingsTrue
<1>1. MCInit => RingsInv
  <2>1. Log!KLogConstants /\ Typed!LineConstants /\ Keys!InputConstants
    BY MachineConstants
  <2> QED BY <2>1, LogInit, LineInit, InputInit DEF MCInit, RingsInv
<1>2. RingsInv /\ [MCNext]_all => RingsInv'
  BY RingsStep
<1>3. RingsInv => RingsTrue
  <2>1. Log!KLogConstants /\ Typed!LineConstants
    BY MachineConstants
  <2> QED BY <2>1, LogRecent, LineHolds, InputHolds DEF RingsInv, RingsTrue
<1> QED BY <1>1, <1>2, <1>3, PTL DEF MCSpec
=============================================================================
