----------------------------- MODULE WaitQueues -----------------------------
(***************************************************************************)
(* What sleeping on a mutex or a pipe is made of: spinlock.c, waitqueue.c  *)
(* and the call of schedule() that follows.  The callers are kernel        *)
(* threads with interrupts on, so the timer may come between any two       *)
(* statements.                                                             *)
(*                                                                         *)
(* A queue's own spinlock is only taken under the lock of the object the   *)
(* queue belongs to, so it is never contended and is left out.             *)
(***************************************************************************)
EXTENDS Naturals, Sequences, SequencesExt

CONSTANTS Threads,  \* the threads that use the object
          Idle,     \* a thread that is always ready
          Queues    \* the wait queues of the object

Nobody == "nobody"

\* What the constants are.
WaitConstants == Idle \notin Threads /\ Nobody \notin Threads \cup {Idle}

VARIABLES current, state,  \* current_thread and thread_t.state
          pc,              \* where a thread is in its call
          held,            \* who holds the object's spinlock
          waiters          \* the entries of each queue, newest first

waitVars == <<current, state, pc, held, waiters>>

CPU == INSTANCE Processor
         WITH Main <- Nobody, Shell <- Idle, Programs <- Threads, owner <- current

(* The part of a call that waits: linked into a queue, marked BLOCKED, the
   spinlock released, schedule() called. *)
WaitPlaces == {"linked", "blocked", "unlocked", "asleep"}

WaitInit ==
  /\ current = Idle
  /\ state   = [t \in Threads \cup {Idle} |-> IF t = Idle THEN "RUNNING" ELSE "READY"]
  /\ pc      = [t \in Threads |-> "out"]
  /\ held    = Nobody
  /\ waiters = [q \in Queues |-> <<>>]

At(t, place)   == current = t /\ pc[t] = place
GoTo(t, place) == pc' = [pc EXCEPT ![t] = place]

spinlock_acquire(t) == held = Nobody /\ held' = t
spinlock_release    == held' = Nobody

(* waitqueue_add up to the store of the list head. *)
waitqueue_add(t, q) == waiters' = [waiters EXCEPT ![q] = <<t>> \o @]

(* waitqueue_wakeup_one: the newest entry. *)
waitqueue_wakeup_one(q) ==
  IF waiters[q] = <<>>
    THEN UNCHANGED <<state, waiters>>
    ELSE /\ state'   = [state EXCEPT ![Head(waiters[q])] = "READY"]
         /\ waiters' = [waiters EXCEPT ![q] = Tail(@)]

(* waitqueue_wakeup_all *)
waitqueue_wakeup_all(q) ==
  /\ state'   = [t \in DOMAIN state |-> IF Contains(waiters[q], t) THEN "READY" ELSE state[t]]
  /\ waiters' = [waiters EXCEPT ![q] = <<>>]

(* waitqueue_add, the rest: the thread is BLOCKED, the spinlock still held. *)
Mark(t) ==
  /\ At(t, "linked")
  /\ state' = [state EXCEPT ![t] = "BLOCKED"]
  /\ GoTo(t, "blocked")
  /\ UNCHANGED <<current, held, waiters>>

Unlock(t) ==
  /\ At(t, "blocked")
  /\ spinlock_release
  /\ GoTo(t, "unlocked")
  /\ UNCHANGED <<current, state, waiters>>

(* The call of schedule(). *)
Sleep(t) ==
  /\ At(t, "unlocked")
  /\ \E u \in Threads \cup {Idle} : CPU!Give(u)
  /\ GoTo(t, "asleep")
  /\ UNCHANGED <<held, waiters>>

(* The timer. *)
Preempt(u) == CPU!Give(u) /\ UNCHANGED <<pc, held, waiters>>

WaitTypeOK ==
  /\ current \in Threads \cup {Idle}
  /\ state \in [Threads \cup {Idle} -> {"RUNNING", "READY", "BLOCKED"}]
  /\ held \in Threads \cup {Nobody}
  /\ waiters \in [Queues -> Seq(Threads)]

(* Whoever is BLOCKED is where a wakeup will look for it, and only once; and
   whoever is queued has not gone on with its call: no wakeup is lost and none
   is spent on a thread that does not wait. *)
SleepersQueued ==
  /\ \A q \in Queues : IsInjective(waiters[q])
  /\ \A t \in Threads :
       LET queued == {q \in Queues : Contains(waiters[q], t)} IN
         /\ state[t] = "BLOCKED" => queued # {}
         /\ \A q, r \in queued : q = r
         /\ queued # {} => \/ pc[t] = "linked" /\ held = t
                           \/ pc[t] \in WaitPlaces \ {"linked"} /\ state[t] = "BLOCKED"
=============================================================================
