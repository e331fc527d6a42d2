-------------------------------- MODULE Pipe --------------------------------
(***************************************************************************)
(* The pipe of KyroOS (pipe.c): a ring of bytes under a spinlock, readers  *)
(* that wait while it is empty and writers that wait while it is full.     *)
(***************************************************************************)
EXTENDS WaitQueues

CONSTANTS Readers, Writers,  \* a partition of the threads
          BufSize,           \* PIPE_BUF_SIZE, 4096 in the code
          Counts,            \* the counts read and written
          Bytes, NoByte

\* What the constants are.
PipeConstants ==
  /\ Threads = Readers \cup Writers /\ Readers \cap Writers = {}
  /\ {"read_queue", "write_queue"} \subseteq Queues
  /\ BufSize \in Nat \ {0} /\ Counts \subseteq Nat \ {0}

VARIABLES buffer, read_pos, write_pos, data_size, read_closed, write_closed,  \* pipe_t
          left,    \* bytes a call has yet to read or write
          moved,   \* bytes_read or bytes_written # 0
          last     \* history: the byte read last

ring     == <<buffer, read_pos, write_pos, data_size, last>>
closing  == <<read_closed, write_closed>>
pipeVars == <<ring, closing, left, moved>>
vars     == <<waitVars, pipeVars>>

(* The queue readers wait in and the queue writers wait in. *)
QueueOf(t) == IF t \in Readers THEN "read_queue" ELSE "write_queue"

(* pipe_create. *)
Init ==
  /\ WaitInit
  /\ buffer = [i \in 0 .. BufSize - 1 |-> NoByte]
  /\ read_pos = 0 /\ write_pos = 0 /\ data_size = 0
  /\ read_closed = FALSE /\ write_closed = FALSE
  /\ left  = [t \in Threads |-> 0]
  /\ moved = [t \in Threads |-> FALSE]
  /\ last  = NoByte

Call(t, n) ==
  /\ At(t, "out")
  /\ spinlock_acquire(t)
  /\ left'  = [left EXCEPT ![t] = n]
  /\ moved' = [moved EXCEPT ![t] = FALSE]
  /\ GoTo(t, "inside")
  /\ UNCHANGED <<current, state, waiters, ring, closing>>

Return(t) ==
  /\ spinlock_release
  /\ left'  = [left EXCEPT ![t] = 0]
  /\ moved' = [moved EXCEPT ![t] = FALSE]
  /\ GoTo(t, "out")

Enqueue(t) ==
  /\ waitqueue_add(t, QueueOf(t))
  /\ GoTo(t, "linked")
  /\ UNCHANGED <<current, state, held, pipeVars>>

(* The wait is over: the loop takes the spinlock and tests again. *)
Again(t) ==
  /\ At(t, "asleep")
  /\ spinlock_acquire(t)
  /\ GoTo(t, "inside")
  /\ UNCHANGED <<current, state, waiters, pipeVars>>

----------------------------------------------------------------------------
(* pipe_read: wait while there is nothing and the other end is open. *)
ReadWait(t) ==
  /\ At(t, "inside") /\ ~moved[t]
  /\ data_size = 0 /\ ~write_closed
  /\ Enqueue(t)

ReadEof(t) ==
  /\ At(t, "inside") /\ ~moved[t]
  /\ data_size = 0 /\ write_closed
  /\ Return(t)
  /\ UNCHANGED <<current, state, waiters, ring, closing>>

(* Mutant of ReadByte: the position does not wrap. *)
ReadByteNoWrap(t) ==
  /\ At(t, "inside")
  /\ left[t] > 0 /\ data_size > 0
  /\ last' = buffer[read_pos]
  /\ read_pos'  = IF read_pos = BufSize - 1 THEN read_pos ELSE read_pos + 1
  /\ data_size' = data_size - 1
  /\ left'  = [left EXCEPT ![t] = @ - 1]
  /\ moved' = [moved EXCEPT ![t] = TRUE]
  /\ UNCHANGED <<waitVars, buffer, write_pos, closing>>

ReadByte(t) ==
  /\ At(t, "inside")
  /\ left[t] > 0 /\ data_size > 0
  /\ last' = buffer[read_pos]
  /\ read_pos'  = (read_pos + 1) % BufSize
  /\ data_size' = data_size - 1
  /\ left'  = [left EXCEPT ![t] = @ - 1]
  /\ moved' = [moved EXCEPT ![t] = TRUE]
  /\ UNCHANGED <<waitVars, buffer, write_pos, closing>>

(* What was there has been read; one writer is woken. *)
ReadDone(t) ==
  /\ At(t, "inside") /\ moved[t]
  /\ left[t] = 0 \/ data_size = 0
  /\ waitqueue_wakeup_one("write_queue")
  /\ Return(t)
  /\ UNCHANGED <<current, ring, closing>>

----------------------------------------------------------------------------
(* pipe_write: wait while it is full and the other end is open. *)
WriteWait(t) ==
  /\ At(t, "inside")
  /\ left[t] > 0 /\ data_size = BufSize /\ ~read_closed
  /\ Enqueue(t)

(* -EPIPE, or the count so far: no reader is woken. *)
WriteBroken(t) ==
  /\ At(t, "inside")
  /\ left[t] > 0 /\ read_closed
  /\ Return(t)
  /\ UNCHANGED <<current, state, waiters, ring, closing>>

WriteByte(t, x) ==
  /\ At(t, "inside")
  /\ left[t] > 0 /\ data_size < BufSize /\ ~read_closed
  /\ buffer' = [buffer EXCEPT ![write_pos] = x]
  /\ write_pos' = (write_pos + 1) % BufSize
  /\ data_size' = data_size + 1
  /\ left' = [left EXCEPT ![t] = @ - 1]
  /\ UNCHANGED <<waitVars, read_pos, moved, last, closing>>

(* Mutant of WriteDone: no reader is woken. *)
WriteDoneSilent(t) ==
  /\ At(t, "inside")
  /\ left[t] = 0
  /\ Return(t)
  /\ UNCHANGED <<current, state, waiters, ring, closing>>

(* Every byte is in; one reader is woken. *)
WriteDone(t) ==
  /\ At(t, "inside")
  /\ left[t] = 0
  /\ waitqueue_wakeup_one("read_queue")
  /\ Return(t)
  /\ UNCHANGED <<current, ring, closing>>

----------------------------------------------------------------------------
(* The four statements of a close run under the lock and wait for nothing. *)
pipe_close_read(t) ==
  /\ At(t, "out") /\ held = Nobody
  /\ read_closed' = TRUE
  /\ waitqueue_wakeup_all("write_queue")
  /\ UNCHANGED <<current, pc, held, ring, write_closed, left, moved>>

pipe_close_write(t) ==
  /\ At(t, "out") /\ held = Nobody
  /\ write_closed' = TRUE
  /\ waitqueue_wakeup_all("read_queue")
  /\ UNCHANGED <<current, pc, held, ring, read_closed, left, moved>>

Wait(t) == (Mark(t) \/ Unlock(t) \/ Sleep(t)) /\ UNCHANGED pipeVars

Next ==
  \/ \E t \in Threads : \/ \E n \in Counts : Call(t, n)
                        \/ Wait(t) \/ Again(t)
  \/ \E t \in Readers : \/ ReadWait(t) \/ ReadEof(t) \/ ReadByte(t) \/ ReadDone(t)
                        \/ pipe_close_read(t)
  \/ \E t \in Writers : \/ WriteWait(t) \/ WriteBroken(t) \/ WriteDone(t)
                        \/ \E x \in Bytes : WriteByte(t, x)
                        \/ pipe_close_write(t)
  \/ \E u \in Threads \cup {Idle} : Preempt(u) /\ UNCHANGED pipeVars

Spec == Init /\ [][Next]_vars

----------------------------------------------------------------------------
TypeOK ==
  /\ WaitTypeOK
  /\ pc \in [Threads -> WaitPlaces \cup {"out", "inside"}]
  /\ buffer \in [0 .. BufSize - 1 -> Bytes \cup {NoByte}]
  /\ read_pos \in 0 .. BufSize - 1 /\ write_pos \in 0 .. BufSize - 1
  /\ data_size \in 0 .. BufSize
  /\ <<read_closed, write_closed>> \in BOOLEAN \X BOOLEAN
  /\ left \in [Threads -> Nat] /\ moved \in [Threads -> BOOLEAN]
  /\ last \in Bytes \cup {NoByte}

(* The ring is a bounded queue of bytes, whoever reads and writes it and
   wherever the timer comes: no byte is lost, repeated or read out of order. *)
Stream == INSTANCE BoundedFifo
            WITH Size <- BufSize, Items <- Bytes, NoItem <- NoByte, out <- last,
                 queue <- [i \in 1 .. data_size |-> buffer[(read_pos + i - 1) % BufSize]]
StreamSpec == Stream!Spec

Asleep(t) == pc[t] = "asleep" /\ state[t] = "BLOCKED"

(* A reader that is alone is asleep beside data only while a writer is in its
   call, whatever the counts are. *)
NoSleepBesideData ==
  \A r \in Readers :
    Asleep(r) /\ Readers = {r} /\ data_size > 0 => \E w \in Writers : pc[w] # "out"

(* "Block until data available" (pipe.c:50): nobody who reads is asleep beside a
   full pipe while everyone who could wake it is asleep for want of room. *)
BlockedOnlyWhenEmpty ==
  ~ \E r \in Readers : /\ Asleep(r) /\ data_size = BufSize
                       /\ \A w \in Writers : Asleep(w)
=============================================================================
