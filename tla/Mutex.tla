------------------------------- MODULE Mutex -------------------------------
(***************************************************************************)
(* The sleeping mutex of KyroOS (mutex.c).                                 *)
(*                                                                         *)
(* mutex_lock has no loop: a thread that had to wait returns once it is    *)
(* woken, whoever has the mutex by then.                                   *)
(***************************************************************************)
EXTENDS WaitQueues

VARIABLES locked, owner,  \* mutex_t; owner is Nobody for NULL
          taken           \* history: who set locked and has not released it since

vars == <<waitVars, locked, owner, taken>>

\* A mutex has one wait queue.
MutexConstants == WaitConstants /\ \E q \in Queues : Queues = {q}

Waiting == CHOOSE q \in Queues : TRUE

Init == WaitInit /\ locked = FALSE /\ owner = Nobody /\ taken = {}

(* mutex_lock, first part: the spinlock. *)
Acquire(t) ==
  /\ At(t, "out")
  /\ spinlock_acquire(t)
  /\ GoTo(t, "test")
  /\ UNCHANGED <<current, state, waiters, locked, owner, taken>>

Take(t) ==
  /\ locked' = TRUE
  /\ owner'  = t
  /\ taken'  = taken \cup {t}

(* Mutant of Test: the mutex is taken without a look at it. *)
TestNothing(t) ==
  /\ At(t, "test")
  /\ Take(t)
  /\ spinlock_release
  /\ GoTo(t, "in")
  /\ UNCHANGED <<current, state, waiters>>

(* mutex_lock: take a free mutex, or wait for one that is not. *)
Test(t) ==
  /\ At(t, "test")
  /\ IF locked
       THEN /\ waitqueue_add(t, Waiting)
            /\ GoTo(t, "linked")
            /\ UNCHANGED <<held, locked, owner, taken>>
       ELSE /\ Take(t)
            /\ spinlock_release
            /\ GoTo(t, "in")
            /\ UNCHANGED waiters
  /\ UNCHANGED <<current, state>>

(* mutex_lock after the wait: it just returns. *)
Woken(t) ==
  /\ At(t, "asleep")
  /\ GoTo(t, "in")
  /\ UNCHANGED <<current, state, held, waiters, locked, owner, taken>>

(* mutex_try_lock, which never waits. *)
mutex_try_lock(t) ==
  /\ At(t, "out")
  /\ held = Nobody
  /\ ~locked
  /\ Take(t)
  /\ GoTo(t, "in")
  /\ UNCHANGED <<current, state, held, waiters>>

Leave(t) ==
  /\ At(t, "in")
  /\ spinlock_acquire(t)
  /\ GoTo(t, "leaving")
  /\ UNCHANGED <<current, state, waiters, locked, owner, taken>>

(* mutex_unlock: who is not the owner changes nothing. *)
mutex_unlock(t) ==
  /\ At(t, "leaving")
  /\ IF owner = t
       THEN /\ locked' = FALSE
            /\ owner'  = Nobody
            /\ taken'  = taken \ {t}
            /\ waitqueue_wakeup_one(Waiting)
       ELSE UNCHANGED <<state, waiters, locked, owner, taken>>
  /\ spinlock_release
  /\ GoTo(t, "out")
  /\ UNCHANGED current

Wait(t) == (Mark(t) \/ Unlock(t) \/ Sleep(t)) /\ UNCHANGED <<locked, owner, taken>>

Next ==
  \/ \E t \in Threads : \/ Acquire(t) \/ Test(t) \/ Wait(t) \/ Woken(t)
                        \/ mutex_try_lock(t) \/ Leave(t) \/ mutex_unlock(t)
  \/ \E u \in Threads \cup {Idle} : Preempt(u) /\ UNCHANGED <<locked, owner, taken>>

Spec == Init /\ [][Next]_vars

----------------------------------------------------------------------------
TypeOK ==
  /\ WaitTypeOK
  /\ pc \in [Threads -> WaitPlaces \cup {"out", "test", "in", "leaving"}]
  /\ locked \in BOOLEAN
  /\ owner \in Threads \cup {Nobody}
  /\ taken \subseteq Threads

(* Of those who found the mutex free one at most has it at a time, and it is
   the owner that mutex_unlock compares with, so no other thread can open it.
   A thread that had to wait is in its critical section without having it
   (mutex.c:23), and its mutex_unlock does nothing. *)
OneTaker ==
  /\ taken = (IF locked THEN {owner} ELSE {})
  /\ \A t \in taken : pc[t] \in {"in", "leaving"}
=============================================================================
