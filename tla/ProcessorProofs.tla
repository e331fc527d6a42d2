-------------------------- MODULE ProcessorProofs --------------------------
(***************************************************************************)
(* The mutex, for any threads, the delivery of interrupts, for any threads *)
(* and any depth of nesting, and the start of the machine, for any files of*)
(* quotes: no wakeup of a mutex is lost, one thread at most has taken it,  *)
(* as many lines are in service as handlers owe an end of interrupt, and a *)
(* step of kmain_x64 that uses what is not there is dhcp_client_start only.*)
(***************************************************************************)
EXTENDS MCProcessor, SchedulerProofs, ListFacts, FiniteSetTheorems

----------------------------------------------------------------------------
(* The mutex.                                                              *)

LockStates == [LockThreads \cup {LockIdle} -> {"RUNNING", "READY", "BLOCKED"}]
sleepers   == waiters[Lock!Waiting]

\* A thread is parked in the wait queue of the mutex.
Parked(t) == Contains(sleepers, t)

\* Who is where, of the threads that use the mutex.
LockTypes ==
  /\ l_current \in LockThreads \cup {LockIdle}
  /\ l_state \in LockStates
  /\ pc \in [LockThreads -> {"out", "test", "linked", "blocked", "unlocked", "asleep", "in",
                             "leaving"}]
  /\ held \in LockThreads \cup {Lock!Nobody}
  /\ waiters \in [LockQueues -> Seq(LockThreads)]

\* Nobody is queued twice.
LockQueue == IsInjective(sleepers)

\* The spinlock of the mutex is held between its acquisition and its release.
LockHeld ==
  \A t \in LockThreads : held = t <=> pc[t] \in {"test", "linked", "blocked", "leaving"}

\* A thread is linked from waitqueue_add to the wakeup, and BLOCKED but for the first moment.
LockLinked ==
  \A t \in LockThreads :
    /\ l_state[t] = "BLOCKED" \/ pc[t] = "linked" => Parked(t)
    /\ Parked(t) => \/ pc[t] = "linked"
                    \/ pc[t] \in {"blocked", "unlocked", "asleep"} /\ l_state[t] = "BLOCKED"

\* A thread that is BLOCKED keeps the processor only until it calls schedule().
LockAwake ==
  \A t \in LockThreads :
    l_current = t /\ l_state[t] = "BLOCKED" => pc[t] \in {"blocked", "unlocked"}

LockWait == LockTypes /\ LockQueue /\ LockHeld /\ LockLinked /\ LockAwake

\* The fields of the mutex have their types.
LockFields == locked \in BOOLEAN /\ owner \in LockThreads \cup {Lock!Nobody} /\ taken \subseteq LockThreads

LockInv == LockWait /\ LockFields /\ Lock!OneTaker

(* What the constants of the mutex are. *)
LEMMA LockFacts ==
  /\ LockQueues = {Lock!Waiting}
  /\ LockIdle \notin LockThreads /\ Lock!Nobody \notin LockThreads \cup {LockIdle}
<1>1. PICK q : LockQueues = {q}
  BY MachineConstants DEF Lock!MutexConstants
<1>2. Lock!Waiting \in LockQueues
  BY <1>1 DEF Lock!Waiting
<1> QED BY <1>1, <1>2, MachineConstants DEF Lock!MutexConstants, Lock!WaitConstants

(* Steps of a thread that neither waits nor wakes. *)
LEMMA LockMove ==
  ASSUME LockWait, NEW t \in LockThreads, l_current = t,
         UNCHANGED <<l_current, l_state, waiters>>,
         NEW p \in {"out", "test", "in", "leaving"}, pc' = [pc EXCEPT ![t] = p],
         pc[t] \in {"out", "test", "in", "leaving", "asleep"},
         IF p \in {"test", "leaving"}
           THEN held \in {t, Lock!Nobody} /\ held' = t
           ELSE held' = IF held = t THEN Lock!Nobody ELSE held
  PROVE  LockWait'
<1>1. ~Parked(t) /\ l_state[t] # "BLOCKED" /\ \A u : Parked(u)' <=> Parked(u)
  BY DEF LockWait, LockLinked, LockAwake, Parked, sleepers
<1>2. LockTypes' /\ LockQueue'
  BY DEF LockWait, LockTypes, LockQueue, sleepers
<1>3. LockHeld'
  BY LockFacts DEF LockWait, LockHeld, LockTypes
<1>4. LockLinked'
  BY <1>1 DEF LockWait, LockLinked, LockTypes
<1>5. LockAwake'
  BY <1>1 DEF LockWait, LockAwake, LockTypes
<1> QED BY <1>2, <1>3, <1>4, <1>5 DEF LockWait

(* waitqueue_add under the spinlock. *)
LEMMA LockEnqueue ==
  ASSUME LockWait, NEW t \in LockThreads, l_current = t, pc[t] = "test",
         Lock!waitqueue_add(t, Lock!Waiting), pc' = [pc EXCEPT ![t] = "linked"],
         UNCHANGED <<l_current, l_state, held>>
  PROVE  LockWait'
<1>1. ~Parked(t) /\ l_state[t] # "BLOCKED"
  BY DEF LockWait, LockLinked, LockAwake
<1>2. sleepers \in Seq(LockThreads) /\ IsInjective(sleepers) /\ ~Contains(sleepers, t)
  BY <1>1, LockFacts DEF LockWait, LockTypes, LockQueue, Parked, sleepers
<1>3. /\ sleepers' = <<t>> \o sleepers /\ sleepers' \in Seq(LockThreads)
      /\ waiters' \in [LockQueues -> Seq(LockThreads)]
  <2>1. waiters' = [waiters EXCEPT ![Lock!Waiting] = <<t>> \o @]
    BY DEF Lock!waitqueue_add
  <2>2. <<t>> \o sleepers \in Seq(LockThreads)
    BY <1>2
  <2> QED BY <2>1, <2>2, LockFacts DEF sleepers, LockWait, LockTypes
<1>4. LockQueue' /\ \A u : Parked(u)' <=> Parked(u) \/ u = t
  <2>1. IsInjective(<<t>> \o sleepers)
    BY <1>2, ConsOnce
  <2>2. \A u : Contains(<<t>> \o sleepers, u) <=> Contains(sleepers, u) \/ u = t
    BY <1>2, ConsMembers
  <2> QED BY <1>3, <2>1, <2>2 DEF LockQueue, Parked
<1>5. LockTypes'
  BY <1>3 DEF LockWait, LockTypes
<1>6. LockHeld'
  BY DEF LockWait, LockHeld, LockTypes
<1>7. LockLinked'
  BY <1>1, <1>4 DEF LockWait, LockLinked, LockTypes
<1>8. LockAwake'
  BY <1>1 DEF LockWait, LockAwake, LockTypes
<1> QED BY <1>4, <1>5, <1>6, <1>7, <1>8 DEF LockWait

(* The way to sleep and the timer. *)
LEMMA LockGive ==
  ASSUME LockWait, NEW u \in LockThreads \cup {LockIdle}, Lock!CPU!Give(u)
  PROVE  /\ l_current' = u /\ l_state'[u] = "RUNNING" /\ l_state' \in LockStates
         /\ \A v \in LockThreads : l_state'[v] = "BLOCKED" <=> l_state[v] = "BLOCKED"
  BY DEF LockWait, LockTypes, LockStates, Lock!CPU!Give

(* BLOCKED, the spinlock released, schedule() called: three steps of going to sleep. *)
LEMMA LockSleep ==
  ASSUME LockWait, NEW t \in LockThreads, Lock!Mark(t) \/ Lock!Unlock(t) \/ Lock!Sleep(t)
  PROVE  LockWait' /\ pc[t] \notin {"in", "leaving"} /\ \A u \in LockThreads : u # t => pc'[u] = pc[u]
<1>1. l_current = t /\ UNCHANGED waiters
  BY DEF Lock!Mark, Lock!Unlock, Lock!Sleep, Lock!At
<1>2. LockQueue' /\ \A u : Parked(u)' <=> Parked(u)
  BY <1>1 DEF LockWait, LockQueue, Parked, sleepers
<1>3. CASE Lock!Mark(t)
  <2>1. /\ pc[t] = "linked" /\ l_state' = [l_state EXCEPT ![t] = "BLOCKED"]
        /\ pc' = [pc EXCEPT ![t] = "blocked"] /\ UNCHANGED <<l_current, held>>
    BY <1>3 DEF Lock!Mark, Lock!At, Lock!GoTo
  <2>2. LockTypes' /\ LockHeld'
    BY <2>1, <1>1 DEF LockWait, LockTypes, LockHeld, LockStates
  <2>3. LockLinked'
    BY <2>1, <1>2 DEF LockWait, LockTypes, LockLinked, LockStates
  <2>4. LockAwake'
    BY <2>1, <1>1 DEF LockWait, LockTypes, LockAwake, LockStates
  <2> QED BY <1>2, <2>1, <2>2, <2>3, <2>4 DEF LockWait, LockTypes
<1>4. CASE Lock!Unlock(t)
  <2>1. /\ pc[t] = "blocked" /\ held' = Lock!Nobody
        /\ pc' = [pc EXCEPT ![t] = "unlocked"] /\ UNCHANGED <<l_current, l_state>>
    BY <1>4 DEF Lock!Unlock, Lock!spinlock_release, Lock!At, Lock!GoTo
  <2>2. LockTypes' /\ LockHeld'
    BY <2>1, <1>1, LockFacts DEF LockWait, LockTypes, LockHeld
  <2>3. LockLinked'
    BY <2>1, <1>2 DEF LockWait, LockTypes, LockLinked
  <2>4. LockAwake'
    BY <2>1, <1>1 DEF LockWait, LockTypes, LockAwake
  <2> QED BY <1>2, <2>1, <2>2, <2>3, <2>4 DEF LockWait, LockTypes
<1>5. CASE Lock!Sleep(t)
  <2>1. PICK u \in LockThreads \cup {LockIdle} : Lock!CPU!Give(u)
    BY <1>5 DEF Lock!Sleep
  <2>2. pc[t] = "unlocked" /\ pc' = [pc EXCEPT ![t] = "asleep"] /\ UNCHANGED held
    BY <1>5 DEF Lock!Sleep, Lock!At, Lock!GoTo
  <2>3. /\ l_current' = u /\ l_state'[u] = "RUNNING" /\ l_state' \in LockStates
        /\ \A v \in LockThreads : l_state'[v] = "BLOCKED" <=> l_state[v] = "BLOCKED"
    BY <2>1, LockGive
  <2>4. LockTypes' /\ LockHeld'
    BY <2>2, <2>3, <1>1 DEF LockWait, LockTypes, LockHeld
  <2>5. LockLinked'
    BY <2>2, <2>3, <1>2 DEF LockWait, LockTypes, LockLinked
  <2>6. LockAwake'
    BY <2>2, <2>3 DEF LockAwake
  <2> QED BY <1>2, <2>2, <2>4, <2>5, <2>6 DEF LockWait, LockTypes
<1> QED BY <1>3, <1>4, <1>5

(* A timer interrupt between two statements keeps the invariant of the mutex. *)
LEMMA LockPreempt ==
  ASSUME LockWait, NEW u \in LockThreads \cup {LockIdle}, Lock!Preempt(u)
  PROVE  LockWait' /\ UNCHANGED pc
<1>1. UNCHANGED <<pc, held, waiters>> /\ Lock!CPU!Give(u)
  BY DEF Lock!Preempt
<1>2. /\ l_current' = u /\ l_state'[u] = "RUNNING" /\ l_state' \in LockStates
      /\ \A v \in LockThreads : l_state'[v] = "BLOCKED" <=> l_state[v] = "BLOCKED"
  BY <1>1, LockGive
<1>3. LockQueue' /\ \A v : Parked(v)' <=> Parked(v)
  BY <1>1 DEF LockWait, LockQueue, Parked, sleepers
<1>4. LockTypes' /\ LockHeld'
  BY <1>1, <1>2 DEF LockWait, LockTypes, LockHeld
<1>5. LockLinked'
  BY <1>1, <1>2, <1>3 DEF LockWait, LockLinked
<1>6. LockAwake'
  BY <1>2 DEF LockAwake
<1> QED BY <1>1, <1>3, <1>4, <1>5, <1>6 DEF LockWait

(* The owner leaves and wakes the newest of those who wait. *)
LEMMA LockWake ==
  ASSUME LockWait, NEW t \in LockThreads, l_current = t, pc[t] = "leaving",
         Lock!waitqueue_wakeup_one(Lock!Waiting), held' = Lock!Nobody,
         pc' = [pc EXCEPT ![t] = "out"], UNCHANGED l_current
  PROVE  LockWait'
<1>1. CASE sleepers = <<>>
  <2>1. UNCHANGED <<l_state, waiters>>
    BY <1>1 DEF Lock!waitqueue_wakeup_one, sleepers
  <2>2. held = t
    BY DEF LockWait, LockHeld
  <2> QED BY <2>1, <2>2, LockMove
<1>2. CASE sleepers # <<>>
  <2> DEFINE h == Head(sleepers)
  <2>1. sleepers \in Seq(LockThreads) /\ IsInjective(sleepers)
    BY LockFacts DEF LockWait, LockTypes, LockQueue, sleepers
  <2>2. /\ h \in LockThreads /\ Contains(sleepers, h)
        /\ Tail(sleepers) \in Seq(LockThreads) /\ IsInjective(Tail(sleepers))
        /\ \A u : Contains(Tail(sleepers), u) <=> Contains(sleepers, u) /\ u # h
    BY <1>2, <2>1, TailMembers
  <2>3. /\ l_state' = [l_state EXCEPT ![h] = "READY"]
        /\ waiters' = [waiters EXCEPT ![Lock!Waiting] = Tail(@)]
    BY <1>2 DEF Lock!waitqueue_wakeup_one, sleepers
  <2> HIDE DEF h
  <2>4. waiters' \in [LockQueues -> Seq(LockThreads)] /\ sleepers' = Tail(sleepers)
    BY <2>2, <2>3, LockFacts DEF LockWait, LockTypes, sleepers
  <2>5. LockQueue' /\ \A u : Parked(u)' <=> Parked(u) /\ u # h
    BY <2>2, <2>4 DEF LockQueue, Parked
  <2>6. Parked(h) /\ ~Parked(t) /\ \A u \in LockThreads : pc[u] # "linked"
    BY <2>2 DEF LockWait, LockLinked, LockHeld, Parked
  <2>7. LockTypes'
    BY <2>2, <2>3, <2>4 DEF LockWait, LockTypes, LockStates
  <2>8. LockHeld'
    BY LockFacts DEF LockWait, LockHeld, LockTypes
  <2>9. LockLinked'
    BY <2>2, <2>3, <2>5, <2>6 DEF LockWait, LockLinked, LockTypes, LockStates
  <2>10. LockAwake'
    BY <2>2, <2>3, <2>6 DEF LockWait, LockAwake, LockTypes, LockStates, LockLinked
  <2> QED BY <2>5, <2>7, <2>8, <2>9, <2>10 DEF LockWait
<1> QED BY <1>1, <1>2

(* One call of mutex_lock, mutex_try_lock or mutex_unlock goes one step on. *)
LEMMA LockCall ==
  ASSUME LockInv, NEW t \in LockThreads,
         \/ Lock!Acquire(t) \/ Lock!Test(t) \/ Lock!Woken(t) \/ Lock!mutex_try_lock(t)
         \/ Lock!Leave(t) \/ Lock!mutex_unlock(t)
  PROVE  LockInv'
<1>1. CASE Lock!Acquire(t) \/ Lock!Leave(t)
  <2>1. PICK p \in {"test", "leaving"} :
          /\ pc' = [pc EXCEPT ![t] = p] /\ (p = "test" => pc[t] = "out")
          /\ (p = "leaving" => pc[t] = "in")
    BY <1>1 DEF Lock!Acquire, Lock!Leave, Lock!At, Lock!GoTo
  <2>2. /\ l_current = t /\ held = Lock!Nobody /\ held' = t
        /\ UNCHANGED <<l_current, l_state, waiters>> /\ UNCHANGED <<locked, owner, taken>>
    BY <1>1 DEF Lock!Acquire, Lock!Leave, Lock!At, Lock!spinlock_acquire
  <2>3. LockWait'
    BY <2>1, <2>2, LockMove DEF LockInv
  <2>4. Lock!OneTaker' /\ LockFields'
    BY <2>1, <2>2 DEF LockInv, Lock!OneTaker, LockFields, LockWait, LockTypes
  <2> QED BY <2>3, <2>4 DEF LockInv
<1>2. CASE Lock!Test(t) /\ locked
  <2>1. /\ l_current = t /\ pc[t] = "test" /\ Lock!waitqueue_add(t, Lock!Waiting)
        /\ pc' = [pc EXCEPT ![t] = "linked"]
        /\ UNCHANGED <<l_current, l_state, held>> /\ UNCHANGED <<locked, owner, taken>>
    BY <1>2 DEF Lock!Test, Lock!At, Lock!GoTo
  <2>2. LockWait'
    BY <2>1, LockEnqueue DEF LockInv
  <2>3. Lock!OneTaker' /\ LockFields'
    BY <2>1 DEF LockInv, Lock!OneTaker, LockFields, LockWait, LockTypes
  <2> QED BY <2>2, <2>3 DEF LockInv
<1>3. CASE (Lock!Test(t) /\ ~locked) \/ Lock!mutex_try_lock(t)
  <2>1. /\ l_current = t /\ pc[t] \in {"test", "out"} /\ pc' = [pc EXCEPT ![t] = "in"]
        /\ UNCHANGED <<l_current, l_state, waiters>> /\ ~locked
        /\ locked' = TRUE /\ owner' = t /\ taken' = taken \cup {t}
    BY <1>3 DEF Lock!Test, Lock!mutex_try_lock, Lock!At, Lock!GoTo, Lock!Take
  <2>2. held' = IF held = t THEN Lock!Nobody ELSE held
    BY <1>3, LockFacts
       DEF Lock!Test, Lock!mutex_try_lock, Lock!At, Lock!spinlock_release, LockInv, LockWait, LockHeld
  <2>3. LockWait'
    BY <2>1, <2>2, LockMove DEF LockInv
  <2>4. Lock!OneTaker' /\ LockFields'
    BY <2>1 DEF LockInv, Lock!OneTaker, LockFields, LockWait, LockTypes
  <2> QED BY <2>3, <2>4 DEF LockInv
<1>4. CASE Lock!Woken(t)
  <2>1. /\ l_current = t /\ pc[t] = "asleep" /\ pc' = [pc EXCEPT ![t] = "in"]
        /\ UNCHANGED <<l_current, l_state, waiters>>
        /\ UNCHANGED <<held, locked, owner, taken>>
    BY <1>4 DEF Lock!Woken, Lock!At, Lock!GoTo
  <2>2. held # t
    BY <2>1 DEF LockInv, LockWait, LockHeld
  <2>3. LockWait'
    BY <2>1, <2>2, LockMove DEF LockInv
  <2>4. Lock!OneTaker' /\ LockFields'
    BY <2>1 DEF LockInv, Lock!OneTaker, LockFields, LockWait, LockTypes
  <2> QED BY <2>3, <2>4 DEF LockInv
<1>5. CASE Lock!mutex_unlock(t)
  <2>1. /\ l_current = t /\ pc[t] = "leaving" /\ pc' = [pc EXCEPT ![t] = "out"]
        /\ held' = Lock!Nobody /\ UNCHANGED l_current /\ held = t
    BY <1>5 DEF Lock!mutex_unlock, Lock!At, Lock!GoTo, Lock!spinlock_release, LockInv, LockWait,
                LockHeld
  <2>2. CASE owner = t
    <3>1. /\ locked' = FALSE /\ owner' = Lock!Nobody /\ taken' = taken \ {t}
          /\ Lock!waitqueue_wakeup_one(Lock!Waiting)
      BY <1>5, <2>2 DEF Lock!mutex_unlock
    <3>2. LockWait'
      BY <2>1, <3>1, LockWake DEF LockInv
    <3>3. taken \subseteq {t}
      BY <2>2 DEF LockInv, Lock!OneTaker
    <3>4. Lock!OneTaker' /\ LockFields'
      BY <3>1, <3>3 DEF Lock!OneTaker, LockFields
    <3> QED BY <3>2, <3>4 DEF LockInv
  <2>3. CASE owner # t
    <3>1. UNCHANGED <<l_state, waiters>> /\ UNCHANGED <<locked, owner, taken>>
      BY <1>5, <2>3 DEF Lock!mutex_unlock
    <3>2. LockWait'
      BY <2>1, <3>1, LockMove DEF LockInv
    <3>3. t \notin taken
      BY <2>3 DEF LockInv, Lock!OneTaker
    <3>4. Lock!OneTaker' /\ LockFields'
      BY <2>1, <3>1, <3>3 DEF LockInv, Lock!OneTaker, LockFields, LockWait, LockTypes
    <3> QED BY <3>2, <3>4 DEF LockInv
  <2> QED BY <2>2, <2>3
<1> QED BY <1>1, <1>2, <1>3, <1>4, <1>5

(* The invariant holds of the mutex that mutex_init leaves. *)
LEMMA LockStart == Lock!Init => LockInv
<1> SUFFICES ASSUME Lock!Init PROVE LockInv
  OBVIOUS
<1>1. /\ l_current = LockIdle /\ held = Lock!Nobody /\ waiters = [q \in LockQueues |-> <<>>]
      /\ l_state = [t \in LockThreads \cup {LockIdle} |-> IF t = LockIdle THEN "RUNNING" ELSE "READY"]
      /\ pc = [t \in LockThreads |-> "out"]
      /\ locked = FALSE /\ owner = Lock!Nobody /\ taken = {}
  BY DEF Lock!Init, Lock!WaitInit
<1>2. sleepers = <<>> /\ <<>> \in Seq(LockThreads)
  BY <1>1, LockFacts, EmptySeq DEF sleepers
<1>3. LockQueue /\ \A t : ~Parked(t)
  BY <1>2 DEF LockQueue, Parked, IsInjective, Contains
<1>4. LockTypes
  BY <1>1, <1>2 DEF LockTypes, LockStates
<1>5. LockHeld /\ LockLinked /\ LockAwake
  BY <1>1, <1>3, LockFacts DEF LockHeld, LockLinked, LockAwake
<1>6. LockFields /\ Lock!OneTaker
  BY <1>1 DEF LockFields, Lock!OneTaker
<1> QED BY <1>3, <1>4, <1>5, <1>6 DEF LockInv, LockWait

(* Every statement of mutex_lock and mutex_unlock keeps the invariant. *)
LEMMA LockStep == LockInv /\ [Lock!Next]_(Lock!vars) => LockInv'
<1> SUFFICES ASSUME LockInv, [Lock!Next]_(Lock!vars) PROVE LockInv'
  OBVIOUS
<1>1. ASSUME NEW t \in LockThreads, Lock!Wait(t) PROVE LockInv'
  <2>1. /\ Lock!Mark(t) \/ Lock!Unlock(t) \/ Lock!Sleep(t)
        /\ UNCHANGED <<locked, owner, taken>>
    BY <1>1 DEF Lock!Wait
  <2>2. /\ LockWait' /\ pc[t] \notin {"in", "leaving"}
        /\ \A u \in LockThreads : u # t => pc'[u] = pc[u]
    BY <2>1, LockSleep DEF LockInv
  <2>3. Lock!OneTaker' /\ LockFields'
    BY <2>1, <2>2 DEF LockInv, Lock!OneTaker, LockFields
  <2> QED BY <2>2, <2>3 DEF LockInv
<1>2. ASSUME NEW u \in LockThreads \cup {LockIdle}, Lock!Preempt(u), UNCHANGED <<locked, owner, taken>>
      PROVE  LockInv'
  BY <1>2, LockPreempt DEF LockInv, Lock!OneTaker, LockFields
<1>3. CASE UNCHANGED Lock!vars
  BY <1>3 DEF Lock!vars, Lock!waitVars, LockInv, LockWait, LockTypes, LockQueue, LockHeld, LockLinked,
              LockAwake, LockFields, Lock!OneTaker, Parked, sleepers
<1> QED BY <1>1, <1>2, <1>3, LockCall DEF Lock!Next

(* What the run checks of the mutex follows from the invariant. *)
LEMMA LockGives == LockInv => Lock!TypeOK /\ Lock!SleepersQueued /\ Lock!OneTaker
<1> SUFFICES ASSUME LockInv PROVE Lock!TypeOK /\ Lock!SleepersQueued
  BY DEF LockInv
<1>1. Lock!TypeOK
  <2>1. pc \in [LockThreads -> Lock!WaitPlaces \cup {"out", "test", "in", "leaving"}]
    <3>1. Lock!WaitPlaces \cup {"out", "test", "in", "leaving"}
            = {"out", "test", "linked", "blocked", "unlocked", "asleep", "in", "leaving"}
      BY DEF Lock!WaitPlaces
    <3> QED BY <3>1 DEF LockInv, LockWait, LockTypes
  <2> QED BY <2>1 DEF LockInv, LockWait, LockTypes, LockStates, LockFields, Lock!TypeOK, Lock!WaitTypeOK
<1>2. Lock!SleepersQueued
  <2>1. \A q \in LockQueues : Lock!IsInjective(waiters[q])
    BY LockFacts DEF LockInv, LockWait, LockQueue, sleepers, IsInjective, Lock!IsInjective
  <2>2. ASSUME NEW t \in LockThreads
        PROVE  LET queued == {q \in LockQueues : Lock!Contains(waiters[q], t)} IN
                 /\ l_state[t] = "BLOCKED" => queued # {}
                 /\ \A q, r \in queued : q = r
                 /\ queued # {} => \/ pc[t] = "linked" /\ held = t
                                   \/ /\ pc[t] \in Lock!WaitPlaces \ {"linked"}
                                      /\ l_state[t] = "BLOCKED"
    <3> DEFINE queued == {q \in LockQueues : Lock!Contains(waiters[q], t)}
    <3>1. Lock!Contains(sleepers, t) <=> Parked(t)
      BY DEF Contains, Lock!Contains, Parked
    <3>2. \A q \in queued : q = Lock!Waiting /\ Parked(t)
      BY <3>1, LockFacts DEF sleepers
    <3>3. Parked(t) => Lock!Waiting \in queued
      BY <3>1, LockFacts DEF sleepers
    <3>4. /\ l_state[t] = "BLOCKED" => Parked(t)
          /\ Parked(t) => \/ pc[t] = "linked"
                          \/ pc[t] \in {"blocked", "unlocked", "asleep"} /\ l_state[t] = "BLOCKED"
          /\ pc[t] = "linked" => held = t
      BY DEF LockInv, LockWait, LockLinked, LockHeld
    <3>5. {"blocked", "unlocked", "asleep"} = Lock!WaitPlaces \ {"linked"}
      BY DEF Lock!WaitPlaces
    <3> HIDE DEF queued
    <3>6. /\ l_state[t] = "BLOCKED" => queued # {}
          /\ \A q, r \in queued : q = r
          /\ queued # {} => \/ pc[t] = "linked" /\ held = t
                            \/ /\ pc[t] \in Lock!WaitPlaces \ {"linked"}
                               /\ l_state[t] = "BLOCKED"
      BY <3>2, <3>3, <3>4, <3>5
    <3> QED BY <3>6 DEF queued
  <2> QED BY <2>1, <2>2 DEF Lock!SleepersQueued
<1> QED BY <1>1, <1>2

(* The invariant of the mutex holds in every state of mutex.c's calls, whatever the timer does. *)
THEOREM MutexInductive == Lock!Spec => []LockInv
  BY LockStart, LockStep, PTL DEF Lock!Spec

(* What the machine of the mutex does in the system of the run is what mutex.c does. *)
LEMMA LockRuns == MCSpec => Lock!Spec
<1>1. MCInit => Lock!Init
  BY DEF MCInit
<1>2. [MCNext]_all => [Lock!Next]_(Lock!vars)
  <2>1. MCNext => (machine = "lock" /\ Lock!Next) \/ UNCHANGED lockVars
    BY DEF MCNext, ThreadsOnly, IrqOnly, LockOnly, StartOnly, others
  <2>2. UNCHANGED lockVars => UNCHANGED Lock!vars
    BY DEF lockVars, Lock!vars, Lock!waitVars
  <2>3. UNCHANGED all => UNCHANGED lockVars
    BY DEF all, others
  <2> QED BY <2>1, <2>2, <2>3
<1> QED BY <1>1, <1>2, PTL DEF MCSpec, Lock!Spec

(* No wakeup of a mutex is lost or spent on a thread that does not wait, and of the
   threads that found the mutex free one at most has it, its owner (mutex.c, waitqueue.c). *)
THEOREM MutexSoundHolds == MCSpec => []MutexSound
<1>1. LockInv => MutexSound
  BY LockGives DEF MutexSound
<1> QED BY <1>1, MutexInductive, LockRuns, PTL

(* The types of the mutex and of the threads that use it (mutex_t, thread_t). *)
THEOREM MutexTypes == MCSpec => []Lock!TypeOK
<1>1. LockInv => Lock!TypeOK
  BY LockGives
<1> QED BY <1>1, MutexInductive, LockRuns, PTL

----------------------------------------------------------------------------
(* The delivery of interrupts.                                             *)

Frames == [irq : IrqLines, at : {"handler", "eoi", "schedule", "iret"}]

\* The types of the processor, the controllers and the stacks.
IrqTypes ==
  /\ i_current \in Irq!Threads
  /\ i_state \in [Irq!Threads -> {"RUNNING", "READY", "BLOCKED"}]
  /\ i_iflag \in BOOLEAN
  /\ i_pending \subseteq IrqLines
  /\ i_master \subseteq {Irq!Line(i) : i \in IrqLines}
  /\ i_slave \subseteq IrqLines \cap {11}
  /\ i_base \in [Irq!Threads -> {"user", "asleep", "register", "mark", "yield"}]
  /\ i_waiting \in [Irq!Threads -> BOOLEAN]
  /\ i_frames \in [Irq!Threads -> Seq(Frames)]
  /\ \A t \in Irq!Threads : Len(i_frames[t]) <= IrqDepth

\* The handler in frame k of thread t has yet to acknowledge its interrupt.
Owes(t, k) == /\ t \in Irq!Threads /\ k \in 1 .. Len(i_frames[t])
              /\ i_frames[t][k].at \in {"handler", "eoi"}
Open(i, t, k) == Owes(t, k) /\ i_frames[t][k].irq = i

\* The frames of all handlers that have yet to acknowledge theirs.
Owed == {p \in Irq!Threads \X (1 .. IrqDepth) : Owes(p[1], p[2])}

\* As many lines of the master are in service.
Counted == IsFiniteSet(Owed) /\ Cardinality(i_master) = Cardinality(Owed)

\* The timer's handler is never interrupted or preempted before its acknowledgement, and its
\* line is in service until then.
TimerAlone ==
  /\ \A t, k : Open(0, t, k) => t = i_current /\ k = 1 /\ i_iflag = FALSE
  /\ 0 \in i_master <=> \E t, k : Open(0, t, k)

\* The slave has one line in service, for one handler that may have been preempted while it sends.
SlaveAlone ==
  /\ \A t, k, u, m : Open(11, t, k) /\ Open(11, u, m) => t = u /\ k = m
  /\ 11 \in i_slave <=> \E t, k : Open(11, t, k)

IrqInv == IrqTypes /\ Counted /\ TimerAlone /\ SlaveAlone

(* What the constants of the interrupts are, and the lines of the master. *)
LEMMA IrqFacts ==
  /\ IrqLines \subseteq {0, 1, 11} /\ IrqDepth \in Nat \ {0}
  /\ Irq!Line(0) = 0 /\ Irq!Line(1) = 1 /\ Irq!Line(11) = 2
  /\ Irq!Timer = 0 /\ Irq!Keyboard = 1 /\ Irq!Network = 11
  /\ IrqIdle \in Irq!Threads /\ IrqBoot \subseteq Irq!Threads /\ IrqPrograms \subseteq Irq!Threads
  BY MachineConstants
     DEF Irq!InterruptsConstants, Irq!Line, Irq!Timer, Irq!Keyboard, Irq!Network, Irq!Cascade,
         Irq!Threads

(* The controllers have few lines. *)
LEMMA MasterFinite == IrqTypes => i_master \subseteq {0, 1, 2} /\ IsFiniteSet(i_master)
<1> SUFFICES ASSUME IrqTypes PROVE i_master \subseteq {0, 1, 2} /\ IsFiniteSet(i_master)
  OBVIOUS
<1>1. i_master \subseteq {0, 1, 2}
  <2>1. \A i \in IrqLines : Irq!Line(i) \in {0, 1, 2}
    BY IrqFacts
  <2> QED BY <2>1 DEF IrqTypes
<1>2. i_master \subseteq 0 .. 2
  BY <1>1
<1>3. IsFiniteSet(0 .. 2)
  <2>1. 0 \in Int /\ 2 \in Int
    OBVIOUS
  <2> QED BY <2>1, FS_Interval
<1> QED BY <1>1, <1>2, <1>3, FS_Subset

(* The line of highest priority in a set of lines. *)
LEMMA HighestOf ==
  ASSUME NEW S, S \subseteq Nat, NEW i \in S, \A j \in S : i <= j
  PROVE  Irq!Highest(S) = {i}
<1>1. \A x \in S : (\A j \in S : x <= j) => x = i
  <2>1. ASSUME NEW x \in S, \A j \in S : x <= j PROVE x = i
    <3>1. x <= i /\ i <= x /\ x \in Nat /\ i \in Nat
      BY <2>1
    <3> QED BY <3>1
  <2> QED BY <2>1
<1> QED BY <1>1 DEF Irq!Highest

(* The innermost handler of the current thread. *)
LEMMA TopFrame ==
  ASSUME IrqTypes, NEW i, NEW p, Irq!Top(i, p)
  PROVE  /\ i_frames[i_current] \in Seq(Frames) /\ 1 \in 1 .. Len(i_frames[i_current])
         /\ i_frames[i_current][1].irq = i /\ i_frames[i_current][1].at = p /\ i \in IrqLines
<1>1. /\ i_frames[i_current] \in Seq(Frames) /\ i_frames[i_current] # <<>>
      /\ Head(i_frames[i_current]) = [irq |-> i, at |-> p]
  BY DEF Irq!Top, IrqTypes
<1>2. /\ Len(i_frames[i_current]) \in Nat \ {0}
      /\ i_frames[i_current][1] = [irq |-> i, at |-> p] /\ i_frames[i_current][1] \in Frames
  BY <1>1
<1> QED BY <1>1, <1>2 DEF Frames

(* A handler goes on at another place. *)
LEMMA AdvanceFrames ==
  ASSUME IrqTypes, NEW i, NEW p, Irq!Top(i, p),
         NEW r \in {"handler", "eoi", "schedule", "iret"}, Irq!Advance(r)
  PROVE  /\ i_frames' \in [Irq!Threads -> Seq(Frames)]
         /\ \A t \in Irq!Threads : Len(i_frames'[t]) = Len(i_frames[t])
         /\ \A t \in Irq!Threads : \A k \in 1 .. Len(i_frames[t]) :
              /\ i_frames'[t][k].irq = i_frames[t][k].irq
              /\ i_frames'[t][k].at = IF t = i_current /\ k = 1 THEN r ELSE i_frames[t][k].at
<1> DEFINE s == i_frames[i_current]
           z == [s EXCEPT ![1].at = r]
<1>1. s \in Seq(Frames) /\ 1 \in 1 .. Len(s) /\ s[1].irq = i
  BY TopFrame
<1>2. s \in [1 .. Len(s) -> Frames] /\ Len(s) \in Nat
  BY <1>1
<1> HIDE DEF s
<1>3. /\ z \in [1 .. Len(s) -> Frames]
      /\ z[1].irq = s[1].irq /\ z[1].at = r
      /\ \A k \in 1 .. Len(s) : k # 1 => z[k] = s[k]
  <2>1. s[1] \in Frames /\ [s[1] EXCEPT !.at = r] \in Frames
    BY <1>1, <1>2 DEF Frames
  <2>2. z = [s EXCEPT ![1] = [s[1] EXCEPT !.at = r]]
    BY <1>1, <1>2
  <2>3. [s[1] EXCEPT !.at = r].irq = s[1].irq /\ [s[1] EXCEPT !.at = r].at = r
    BY <2>1 DEF Frames
  <2> QED BY <1>1, <1>2, <2>1, <2>2, <2>3
<1>4. z \in Seq(Frames) /\ Len(z) = Len(s)
  BY <1>2, <1>3
<1>5. i_frames' = [i_frames EXCEPT ![i_current] = z]
  BY DEF Irq!Advance, s
<1> HIDE DEF z
<1>6. i_current \in Irq!Threads /\ i_frames \in [Irq!Threads -> Seq(Frames)]
  BY DEF IrqTypes
<1> QED BY <1>3, <1>4, <1>5, <1>6 DEF s

(* The pairs of Owed are the frames that owe an acknowledgement. *)
LEMMA OwedPairs ==
  IrqTypes => /\ Owed \in SUBSET (Irq!Threads \X (Nat \ {0}))
              /\ \A t, k : <<t, k>> \in Owed <=> Owes(t, k)
<1> SUFFICES ASSUME IrqTypes
             PROVE  /\ Owed \in SUBSET (Irq!Threads \X (Nat \ {0}))
                    /\ \A t, k : <<t, k>> \in Owed <=> Owes(t, k)
  OBVIOUS
<1>1. \A t \in Irq!Threads : Len(i_frames[t]) \in Nat /\ Len(i_frames[t]) <= IrqDepth
  BY DEF IrqTypes
<1>2. \A t, k : Owes(t, k) => <<t, k>> \in Irq!Threads \X (1 .. IrqDepth)
  BY <1>1, IrqFacts DEF Owes
<1>3. \A t, k : <<t, k>> \in Owed <=> Owes(t, k)
  BY <1>2 DEF Owed
<1>4. Owed \in SUBSET (Irq!Threads \X (Nat \ {0}))
  BY IrqFacts DEF Owed
<1> QED BY <1>3, <1>4

(* They are so after a step, too. *)
LEMMA OwedPairsNext ==
  IrqTypes' => /\ Owed' \in SUBSET (Irq!Threads \X (Nat \ {0}))
               /\ \A t, k : <<t, k>> \in Owed' <=> Owes(t, k)'
<1> SUFFICES ASSUME IrqTypes'
             PROVE  /\ Owed' \in SUBSET (Irq!Threads \X (Nat \ {0}))
                    /\ \A t, k : <<t, k>> \in Owed' <=> Owes(t, k)'
  OBVIOUS
<1>1. \A t \in Irq!Threads : Len(i_frames'[t]) \in Nat /\ Len(i_frames'[t]) <= IrqDepth
  BY DEF IrqTypes
<1>2. \A t, k : Owes(t, k)' => <<t, k>> \in Irq!Threads \X (1 .. IrqDepth)
  BY <1>1, IrqFacts DEF Owes
<1>3. \A t, k : <<t, k>> \in Owed' <=> Owes(t, k)'
  BY <1>2 DEF Owed
<1>4. Owed' \in SUBSET (Irq!Threads \X (Nat \ {0}))
  BY IrqFacts DEF Owed
<1> QED BY <1>3, <1>4

(* The frames of one stack all move by a place: there are as many as before. *)
LEMMA ShiftCount ==
  ASSUME NEW T, NEW c \in T,
         NEW A \in SUBSET (T \X (Nat \ {0})), NEW B \in SUBSET (T \X (Nat \ {0})),
         IsFiniteSet(A) \/ IsFiniteSet(B), <<c, 1>> \notin B,
         \A t \in T, k \in Nat \ {0} :
           /\ t # c => (<<t, k>> \in A <=> <<t, k>> \in B)
           /\ <<c, k>> \in A <=> <<c, k + 1>> \in B
  PROVE  IsFiniteSet(A) /\ IsFiniteSet(B) /\ Cardinality(A) = Cardinality(B)
<1> DEFINE f == [p \in A |-> <<p[1], IF p[1] = c THEN p[2] + 1 ELSE p[2]>>]
<1>1. ASSUME NEW p \in A
      PROVE  /\ p = <<p[1], p[2]>> /\ p[1] \in T /\ p[2] \in Nat \ {0}
             /\ f[p] \in B /\ f[p][1] = p[1] /\ f[p][2] = IF p[1] = c THEN p[2] + 1 ELSE p[2]
  <2>1. p = <<p[1], p[2]>> /\ p[1] \in T /\ p[2] \in Nat \ {0}
    OBVIOUS
  <2>2. f[p] = <<p[1], IF p[1] = c THEN p[2] + 1 ELSE p[2]>>
    OBVIOUS
  <2>3. CASE p[1] = c
    <3>1. <<c, p[2] + 1>> \in B
      BY <2>1, <2>3
    <3> QED BY <2>1, <2>2, <2>3, <3>1
  <2>4. CASE p[1] # c
    <3>1. <<p[1], p[2]>> \in B
      BY <2>1, <2>4
    <3> QED BY <2>1, <2>2, <2>4, <3>1
  <2> QED BY <2>3, <2>4
<1>2. ASSUME NEW q \in B PROVE \E p \in A : f[p] = q
  <2>1. q = <<q[1], q[2]>> /\ q[1] \in T /\ q[2] \in Nat \ {0}
    OBVIOUS
  <2>2. CASE q[1] = c
    <3> DEFINE m == q[2] - 1
    <3>1. q[2] # 1
      BY <2>1, <2>2
    <3>2. m \in Nat \ {0} /\ m + 1 = q[2]
      BY <2>1, <3>1
    <3> HIDE DEF m
    <3>3. <<c, m>> \in A
      BY <2>1, <2>2, <3>2
    <3>4. f[<<c, m>>] = <<c, m + 1>>
      BY <3>3
    <3> QED BY <2>1, <2>2, <3>2, <3>3, <3>4
  <2>3. CASE q[1] # c
    <3>1. <<q[1], q[2]>> \in A
      BY <2>1, <2>3
    <3>2. f[q] = q
      BY <2>1, <2>3, <3>1
    <3> QED BY <2>1, <3>1, <3>2
  <2> QED BY <2>2, <2>3
<1> HIDE DEF f
<1>3. ASSUME NEW p \in A, NEW q \in A, f[p] = f[q] PROVE p = q
  <2>1. p[1] = q[1]
    BY <1>1, <1>3
  <2>2. p[2] = q[2]
    <3>1. p[2] \in Nat /\ q[2] \in Nat
      BY <1>1
    <3>2. f[p][2] = f[q][2]
      BY <1>3
    <3>3. (IF p[1] = c THEN p[2] + 1 ELSE p[2]) = IF p[1] = c THEN q[2] + 1 ELSE q[2]
      BY <1>1, <2>1, <3>2
    <3> QED BY <3>1, <3>3
  <2> QED BY <1>1, <2>1, <2>2
<1>4. f \in Bijection(A, B)
  <2>1. f \in [A -> B]
    BY <1>1 DEF f
  <2> QED BY <1>2, <1>3, <2>1 DEF Bijection, Injection, Surjection, IsInjective
<1>5. ExistsBijection(A, B)
  BY <1>4 DEF ExistsBijection
<1>6. CASE IsFiniteSet(A)
  BY <1>5, <1>6, FS_Bijection
<1>7. CASE IsFiniteSet(B)
  <2>1. f \in Injection(A, B)
    BY <1>4 DEF Bijection
  <2>2. IsFiniteSet(A)
    BY <1>7, <2>1, FS_Injection
  <2> QED BY <1>5, <2>2, FS_Bijection
<1> QED BY <1>6, <1>7

\* No handler of the timer has yet to acknowledge its interrupt.
TimerDone == \A t, k : ~Open(0, t, k)

(* It is so while the innermost handler of the current thread is not one. *)
LEMMA TimerDoneHere ==
  ASSUME IrqInv, i_iflag \/ ~Open(0, i_current, 1)
  PROVE  TimerDone
<1>1. ASSUME NEW t, NEW k, Open(0, t, k) PROVE FALSE
  BY <1>1 DEF IrqInv, TimerAlone
<1> QED BY <1>1 DEF TimerDone

(* Steps that neither begin a handler nor acknowledge an interrupt. *)
LEMMA SameOwed ==
  ASSUME IrqInv, IrqTypes', UNCHANGED <<i_master, i_slave>>,
         \A t, k : Owes(t, k)' <=> Owes(t, k),
         \A t, k : Owes(t, k) => i_frames'[t][k].irq = i_frames[t][k].irq,
         TimerDone \/ UNCHANGED <<i_current, i_iflag>>
  PROVE  IrqInv'
<1>1. \A i, t, k : Open(i, t, k)' <=> Open(i, t, k)
  BY DEF Open
<1>2. Counted'
  <2>1. /\ Owed \in SUBSET (Irq!Threads \X (Nat \ {0}))
        /\ Owed' \in SUBSET (Irq!Threads \X (Nat \ {0}))
        /\ \A t, k : <<t, k>> \in Owed <=> <<t, k>> \in Owed'
    BY OwedPairs, OwedPairsNext DEF IrqInv
  <2>2. Owed' = Owed
    BY <2>1
  <2> QED BY <2>2 DEF IrqInv, Counted
<1>3. TimerAlone'
  BY <1>1 DEF IrqInv, TimerAlone, TimerDone
<1>4. SlaveAlone'
  BY <1>1 DEF IrqInv, SlaveAlone
<1> QED BY <1>2, <1>3, <1>4 DEF IrqInv

(* An interrupt is taken. *)
LEMMA AcceptInv ==
  ASSUME IrqInv, NEW i \in IrqLines, Irq!Accept(i)
  PROVE  IrqInv'
<1> DEFINE c == i_current
           s == i_frames[c]
           f == [irq |-> i, at |-> IF i = 0 THEN "eoi" ELSE "handler"]
           z == <<f>> \o s
<1>1. /\ i_iflag /\ Irq!Unmasked(i) /\ Len(s) < IrqDepth
      /\ i_iflag' = FALSE /\ i_pending' = i_pending \ {i}
      /\ i_master' = i_master \cup {Irq!Line(i)}
      /\ i_slave' = (IF i >= 8 THEN i_slave \cup {i} ELSE i_slave)
      /\ i_frames' = [i_frames EXCEPT ![c] = z]
      /\ UNCHANGED <<i_current, i_state, i_base, i_waiting>>
  BY IrqFacts DEF Irq!Accept, Irq!cpuVars
<1>2. /\ c \in Irq!Threads /\ s \in Seq(Frames) /\ f \in Frames /\ Len(s) \in Nat
  <2>1. (IF i = 0 THEN "eoi" ELSE "handler") \in {"handler", "eoi", "schedule", "iret"}
    OBVIOUS
  <2>2. f \in Frames
    BY <2>1 DEF Frames
  <2>3. c \in Irq!Threads /\ s \in Seq(Frames)
    BY DEF IrqInv, IrqTypes
  <2>4. Len(s) \in Nat
    BY <2>3
  <2> QED BY <2>2, <2>3, <2>4
<1>3. /\ z \in Seq(Frames) /\ Len(z) = Len(s) + 1 /\ z[1] = f
      /\ \A k \in 2 .. Len(z) : z[k] = s[k - 1]
      /\ \A k \in 1 .. Len(s) : z[k + 1] = s[k]
  BY <1>2, ConsItems
<1>4. /\ i \in {0, 1, 11} /\ f.irq = i /\ f.at \in {"handler", "eoi"} /\ (f.at = "handler" => i # 0)
  BY IrqFacts
<1> HIDE DEF f, z
<1>5. /\ i_frames'[c] = z /\ \A t \in Irq!Threads : t # c => i_frames'[t] = i_frames[t]
      /\ i_frames' \in [Irq!Threads -> Seq(Frames)]
  BY <1>1, <1>2, <1>3 DEF IrqInv, IrqTypes
<1> HIDE DEF s
<1>6. IrqTypes'
  <2>1. IrqDepth \in Nat /\ \A t \in Irq!Threads : Len(i_frames'[t]) <= IrqDepth
    BY <1>1, <1>2, <1>3, <1>5, IrqFacts DEF IrqInv, IrqTypes
  <2>2. i_master' \subseteq {Irq!Line(j) : j \in IrqLines}
    BY <1>1 DEF IrqInv, IrqTypes
  <2>3. i_slave' \subseteq IrqLines \cap {11}
    BY <1>1, <1>4 DEF IrqInv, IrqTypes
  <2> QED BY <1>1, <1>5, <2>1, <2>2, <2>3 DEF IrqInv, IrqTypes
<1>7. /\ TimerDone
      /\ Irq!Line(i) \notin i_master /\ (i = 11 => i_slave = {})
      /\ Irq!Line(i) = 0 <=> i = 0
  <2>1. Irq!Line(i) \in Nat /\ (Irq!Line(i) = 0 <=> i = 0)
    BY <1>4, IrqFacts
  <2>2. Irq!Line(i) \notin i_master
    BY <1>1, <2>1 DEF Irq!Unmasked
  <2>3. i = 11 => i_slave = {}
    BY <1>1 DEF Irq!Unmasked, IrqInv, IrqTypes
  <2> QED BY <1>1, <2>1, <2>2, <2>3, TimerDoneHere
<1>8. ASSUME NEW t, NEW k
      PROVE  /\ Owes(t, k)' <=> \/ t = c /\ k = 1
                                \/ t = c /\ k \in 2 .. Len(z) /\ Owes(c, k - 1)
                                \/ t # c /\ Owes(t, k)
             /\ t = c /\ k = 1 => i_frames'[t][k] = f
             /\ t = c /\ k \in 2 .. Len(z) => i_frames'[t][k] = i_frames[t][k - 1]
             /\ t # c /\ Owes(t, k) => i_frames'[t][k] = i_frames[t][k]
  <2>1. CASE t # c
    BY <1>5, <2>1 DEF Owes
  <2>2. CASE t = c
    <3>1. Owes(t, k)' <=> k \in 1 .. Len(z) /\ z[k].at \in {"handler", "eoi"}
      BY <1>2, <1>5, <2>2 DEF Owes
    <3>2. k \in 1 .. Len(z) <=> k = 1 \/ k \in 2 .. Len(z)
      BY <1>2, <1>3
    <3>3. \A m \in 2 .. Len(z) : z[m] = s[m - 1] /\ m - 1 \in 1 .. Len(s)
      BY <1>2, <1>3
    <3>4. \A m \in 2 .. Len(z) : Owes(c, m - 1) <=> s[m - 1].at \in {"handler", "eoi"}
      BY <1>2, <3>3 DEF Owes, s
    <3> QED BY <1>2, <1>3, <1>4, <1>5, <2>2, <3>1, <3>2, <3>3, <3>4 DEF s
  <2> QED BY <2>1, <2>2
<1>9. \A j : (\E t, k : Open(j, t, k)') <=> j = i \/ \E t, k : Open(j, t, k)
  <2>1. ASSUME NEW j, NEW t, NEW k, Open(j, t, k)' PROVE j = i \/ \E u, m : Open(j, u, m)
    BY <1>4, <1>8, <2>1 DEF Open
  <2>2. ASSUME NEW j, NEW t, NEW k, Open(j, t, k) PROVE \E u, m : Open(j, u, m)'
    <3>1. CASE t # c
      BY <1>8, <2>2, <3>1 DEF Open
    <3>2. CASE t = c
      <4>1. k \in 1 .. Len(s) /\ k + 1 \in 2 .. Len(z) /\ (k + 1) - 1 = k
        BY <1>2, <1>3, <2>2, <3>2 DEF Open, Owes, s
      <4>2. i_frames'[t][k + 1] = i_frames[t][k] /\ Owes(t, k + 1)'
        BY <1>8, <2>2, <3>2, <4>1 DEF Open
      <4>3. Open(j, t, k + 1)'
        BY <2>2, <4>2 DEF Open
      <4> QED BY <4>3
    <3> QED BY <3>1, <3>2
  <2>3. ASSUME NEW t, t = c PROVE Open(i, t, 1)'
    BY <1>4, <1>8, <2>3 DEF Open
  <2> QED BY <2>1, <2>2, <2>3
<1>10. Counted'
  <2> DEFINE B == Owed' \ {<<c, 1>>}
  <2>1. /\ Owed \in SUBSET (Irq!Threads \X (Nat \ {0}))
        /\ \A t, k : <<t, k>> \in Owed <=> Owes(t, k)
    BY OwedPairs DEF IrqInv
  <2>2. /\ Owed' \in SUBSET (Irq!Threads \X (Nat \ {0}))
        /\ \A t, k : <<t, k>> \in Owed' <=> Owes(t, k)'
    BY <1>6, OwedPairsNext
  <2>3. <<c, 1>> \in Owed'
    BY <1>8, <2>2
  <2>4. ASSUME NEW t \in Irq!Threads, NEW k \in Nat \ {0}
        PROVE  /\ t # c => (<<t, k>> \in Owed <=> <<t, k>> \in B)
               /\ <<c, k>> \in Owed <=> <<c, k + 1>> \in B
    <3>1. t # c => (<<t, k>> \in Owed <=> <<t, k>> \in B)
      <4>1. t # c => (Owes(t, k)' <=> Owes(t, k))
        BY <1>8
      <4>2. t # c => <<t, k>> # <<c, 1>>
        OBVIOUS
      <4> QED BY <2>1, <2>2, <4>1, <4>2
    <3>2. ASSUME NEW u, u = c, NEW m \in Nat, m = k + 1
          PROVE  <<u, k>> \in Owed <=> <<u, m>> \in B
      <4>1. m # 1 /\ m - 1 = k
        BY <3>2
      <4>2. Owes(u, k) => m \in 2 .. Len(z)
        BY <1>2, <1>3, <3>2 DEF Owes, s
      <4>3. Owes(u, m)' <=> m \in 2 .. Len(z) /\ Owes(c, m - 1)
        BY <1>8, <3>2, <4>1
      <4>4. Owes(u, m)' <=> Owes(u, k)
        BY <3>2, <4>1, <4>2, <4>3
      <4>5. <<u, m>> \in Owed' <=> Owes(u, m)'
        BY <2>2
      <4>6. <<u, k>> \in Owed <=> Owes(u, k)
        BY <2>1
      <4>7. <<u, m>> # <<c, 1>>
        BY <4>1
      <4> QED BY <4>4, <4>5, <4>6, <4>7
    <3>3. k + 1 \in Nat
      OBVIOUS
    <3> QED BY <3>1, <3>2, <3>3
  <2>5. B \in SUBSET (Irq!Threads \X (Nat \ {0})) /\ <<c, 1>> \notin B
    BY <2>2
  <2>6. Owed' = B \cup {<<c, 1>>}
    BY <2>3
  <2> HIDE DEF B
  <2>7. IsFiniteSet(Owed) /\ Cardinality(i_master) = Cardinality(Owed)
    BY DEF IrqInv, Counted
  <2>8. IsFiniteSet(B) /\ Cardinality(Owed) = Cardinality(B)
    BY <1>2, <2>1, <2>4, <2>5, <2>7, ShiftCount
  <2>9. IsFiniteSet(Owed') /\ Cardinality(Owed') = Cardinality(B) + 1
    BY <2>5, <2>6, <2>8, FS_AddElement
  <2>10. IsFiniteSet(i_master)
    BY MasterFinite DEF IrqInv
  <2>11. Cardinality(i_master') = Cardinality(i_master) + 1
    BY <1>1, <1>7, <2>10, FS_AddElement
  <2> QED BY <2>7, <2>8, <2>9, <2>11 DEF Counted
<1>11. TimerAlone'
  <2>1. ASSUME NEW t, NEW k, Open(0, t, k)' PROVE t = c /\ k = 1
    BY <1>7, <1>8, <2>1 DEF Open, TimerDone
  <2>2. 0 \in i_master' <=> 0 \in i_master \/ i = 0
    BY <1>1, <1>7
  <2>3. (\E t, k : Open(0, t, k)') <=> 0 = i \/ \E t, k : Open(0, t, k)
    BY <1>9
  <2> QED BY <1>1, <2>1, <2>2, <2>3 DEF IrqInv, TimerAlone
<1>12. SlaveAlone'
  <2>1. (\E t, k : Open(11, t, k)') <=> 11 = i \/ \E t, k : Open(11, t, k)
    BY <1>9
  <2>2. i_slave' = IF i = 11 THEN i_slave \cup {11} ELSE i_slave
    <3>1. i = 11 => i >= 8
      BY <1>4
    <3>2. i # 11 => ~(i >= 8)
      BY <1>4
    <3> QED BY <1>1, <3>1, <3>2
  <2>3. ASSUME NEW t, NEW k, NEW u, NEW m, Open(11, t, k)', Open(11, u, m)'
        PROVE  t = u /\ k = m
    <3>1. CASE i = 11
      <4>1. \A v, n : ~Open(11, v, n)
        BY <1>7, <3>1 DEF IrqInv, SlaveAlone
      <4> QED BY <1>8, <2>3, <4>1 DEF Open
    <3>2. CASE i # 11
      <4>1. \/ t = c /\ k \in 2 .. Len(z) /\ Open(11, c, k - 1)
            \/ t # c /\ Open(11, t, k)
        BY <1>4, <1>8, <2>3, <3>2 DEF Open
      <4>2. \/ u = c /\ m \in 2 .. Len(z) /\ Open(11, c, m - 1)
            \/ u # c /\ Open(11, u, m)
        BY <1>4, <1>8, <2>3, <3>2 DEF Open
      <4> QED BY <4>1, <4>2 DEF IrqInv, SlaveAlone
    <3> QED BY <3>1, <3>2
  <2>4. 11 \in i_slave' <=> \E t, k : Open(11, t, k)'
    BY <2>1, <2>2 DEF IrqInv, SlaveAlone
  <2> QED BY <2>3, <2>4 DEF SlaveAlone
<1> QED BY <1>6, <1>10, <1>11, <1>12 DEF IrqInv

(* What is owed after a handler has gone on. *)
LEMMA AdvanceOwes ==
  ASSUME IrqTypes, NEW i, NEW p, Irq!Top(i, p),
         NEW r \in {"handler", "eoi", "schedule", "iret"}, Irq!Advance(r), NEW t, NEW k
  PROVE  /\ Owes(t, k)' <=> IF t = i_current /\ k = 1 THEN r \in {"handler", "eoi"} ELSE Owes(t, k)
         /\ t \in Irq!Threads /\ k \in 1 .. Len(i_frames[t]) =>
              /\ i_frames'[t][k].irq = i_frames[t][k].irq
              /\ i_frames'[t][k].at = IF t = i_current /\ k = 1 THEN r ELSE i_frames[t][k].at
<1>1. /\ \A u \in Irq!Threads : Len(i_frames'[u]) = Len(i_frames[u])
      /\ \A u \in Irq!Threads : \A m \in 1 .. Len(i_frames[u]) :
           /\ i_frames'[u][m].irq = i_frames[u][m].irq
           /\ i_frames'[u][m].at = IF u = i_current /\ m = 1 THEN r ELSE i_frames[u][m].at
  BY AdvanceFrames
<1>2. 1 \in 1 .. Len(i_frames[i_current]) /\ i_current \in Irq!Threads
  BY TopFrame DEF IrqTypes
<1> QED BY <1>1, <1>2 DEF Owes

(* What a handler before its end of interrupt is called for, and a handler that goes on to it. *)
LEMMA GoesOnInv ==
  ASSUME IrqInv, NEW i \in {1, 11}, Irq!Top(i, "handler"), Irq!Advance("eoi"),
         UNCHANGED <<i_current, i_state, i_pending, i_master, i_slave, i_base, i_waiting>>,
         i_iflag' \in BOOLEAN
  PROVE  IrqInv'
<1> DEFINE c == i_current
<1>1. /\ c \in Irq!Threads /\ 1 \in 1 .. Len(i_frames[c])
      /\ i_frames[c][1].irq = i /\ i_frames[c][1].at = "handler"
  BY TopFrame DEF IrqInv, IrqTypes
<1>2. Owes(c, 1)
  BY <1>1 DEF Owes
<1>3. ASSUME NEW t, NEW k
      PROVE  /\ Owes(t, k)' <=> Owes(t, k)
             /\ Owes(t, k) => i_frames'[t][k].irq = i_frames[t][k].irq
  <2>1. /\ Owes(t, k)' <=> IF t = c /\ k = 1 THEN "eoi" \in {"handler", "eoi"} ELSE Owes(t, k)
        /\ t \in Irq!Threads /\ k \in 1 .. Len(i_frames[t]) =>
             /\ i_frames'[t][k].irq = i_frames[t][k].irq
             /\ i_frames'[t][k].at = IF t = c /\ k = 1 THEN "eoi" ELSE i_frames[t][k].at
    BY AdvanceOwes DEF IrqInv
  <2> QED BY <1>2, <2>1 DEF Owes
<1>4. IrqTypes'
  <2>1. /\ i_frames' \in [Irq!Threads -> Seq(Frames)]
        /\ \A t \in Irq!Threads : Len(i_frames'[t]) = Len(i_frames[t])
    BY AdvanceFrames DEF IrqInv
  <2> QED BY <2>1 DEF IrqInv, IrqTypes
<1>5. TimerDone
  <2>1. ~Open(0, c, 1)
    BY <1>1 DEF Open
  <2> QED BY <2>1, TimerDoneHere
<1> QED BY <1>3, <1>4, <1>5, SameOwed

(* schedule() gives the processor to a READY thread, or to none. *)
LEMMA GiveAway ==
  ASSUME NEW s \in [Irq!Threads -> {"RUNNING", "READY", "BLOCKED"}], i_current \in Irq!Threads,
         Irq!Reschedule(s)
  PROVE  /\ i_current' \in Irq!Threads /\ i_iflag' = TRUE
         /\ i_state' \in [Irq!Threads -> {"RUNNING", "READY", "BLOCKED"}]
  BY DEF Irq!Reschedule

(* keyboard_handler and e1000_interrupt_handler: a thread is woken, an answer is sent, the
   handler returns. *)
LEMMA HandlerInv ==
  ASSUME IrqInv, Irq!KeyboardHandler \/ Irq!NetworkHandler
  PROVE  IrqInv'
<1>1. CASE Irq!KeyboardHandler
  <2>1. /\ Irq!Top(1, "handler") /\ Irq!Advance("eoi") /\ i_iflag' \in BOOLEAN
        /\ UNCHANGED <<i_current, i_state, i_pending, i_master, i_slave, i_base, i_waiting>>
    BY <1>1, IrqFacts DEF Irq!KeyboardHandler, Irq!cpuVars, Irq!picVars
  <2> QED BY <2>1, GoesOnInv
<1>2. CASE Irq!NetworkReturns
  <2>1. /\ Irq!Top(11, "handler") /\ Irq!Advance("eoi")
        /\ UNCHANGED <<i_current, i_state, i_iflag, i_pending, i_master, i_slave, i_base, i_waiting>>
    BY <1>2, IrqFacts DEF Irq!NetworkReturns, Irq!cpuVars, Irq!picVars
  <2>2. i_iflag' \in BOOLEAN
    BY <2>1 DEF IrqInv, IrqTypes
  <2> QED BY <2>1, <2>2, GoesOnInv
<1>3. ASSUME NEW t \in IrqPrograms, Irq!NetworkWakes(t) PROVE IrqInv'
  <2>1. /\ i_state' = [i_state EXCEPT ![t] = "READY"] /\ i_waiting' = [i_waiting EXCEPT ![t] = FALSE]
        /\ UNCHANGED <<i_current, i_iflag, i_pending, i_master, i_slave, i_frames, i_base>>
    BY <1>3 DEF Irq!NetworkWakes, Irq!picVars
  <2>2. IrqTypes'
    BY <2>1 DEF IrqInv, IrqTypes
  <2>3. \A u, k : (Owes(u, k)' <=> Owes(u, k)) /\ i_frames'[u][k].irq = i_frames[u][k].irq
    BY <2>1 DEF Owes
  <2> QED BY <2>1, <2>2, <2>3, SameOwed
<1>4. CASE Irq!NetworkSends
  <2>1. /\ Irq!Top(11, "handler") /\ Irq!Reschedule(i_state)
        /\ UNCHANGED <<i_pending, i_master, i_slave, i_frames, i_base, i_waiting>>
    BY <1>4, IrqFacts DEF Irq!NetworkSends, Irq!picVars
  <2>2. TimerDone
    <3>1. i_frames[i_current][1].irq = 11
      BY <2>1, TopFrame DEF IrqInv
    <3>2. ~Open(0, i_current, 1)
      BY <3>1 DEF Open
    <3> QED BY <3>2, TimerDoneHere
  <2>3. /\ i_current' \in Irq!Threads /\ i_iflag' = TRUE
        /\ i_state' \in [Irq!Threads -> {"RUNNING", "READY", "BLOCKED"}]
    BY <2>1, GiveAway DEF IrqInv, IrqTypes
  <2>4. IrqTypes'
    BY <2>1, <2>3 DEF IrqInv, IrqTypes
  <2>5. \A u, k : (Owes(u, k)' <=> Owes(u, k)) /\ i_frames'[u][k].irq = i_frames[u][k].irq
    BY <2>1 DEF Owes
  <2> QED BY <2>1, <2>2, <2>4, <2>5, SameOwed
<1> QED BY <1>1, <1>2, <1>3, <1>4 DEF Irq!NetworkHandler

(* The timer's handler calls schedule(). *)
LEMMA TickInv ==
  ASSUME IrqInv, Irq!TimerSchedules
  PROVE  IrqInv'
<1> DEFINE c == i_current
<1>1. /\ Irq!Top(0, "schedule") /\ Irq!Advance("iret") /\ Irq!Reschedule(i_state)
      /\ UNCHANGED <<i_pending, i_master, i_slave, i_base, i_waiting>>
  BY IrqFacts DEF Irq!TimerSchedules, Irq!picVars
<1>2. ~Owes(c, 1)
  <2>1. i_frames[c][1].at = "schedule"
    BY <1>1, TopFrame DEF IrqInv
  <2> QED BY <2>1 DEF Owes
<1>3. TimerDone
  <2>1. ~Open(0, c, 1)
    BY <1>2 DEF Open
  <2> QED BY <2>1, TimerDoneHere
<1>4. ASSUME NEW t, NEW k
      PROVE  /\ Owes(t, k)' <=> Owes(t, k)
             /\ Owes(t, k) => i_frames'[t][k].irq = i_frames[t][k].irq
  <2>1. /\ Owes(t, k)' <=> IF t = c /\ k = 1 THEN "iret" \in {"handler", "eoi"} ELSE Owes(t, k)
        /\ t \in Irq!Threads /\ k \in 1 .. Len(i_frames[t]) =>
             /\ i_frames'[t][k].irq = i_frames[t][k].irq
             /\ i_frames'[t][k].at = IF t = c /\ k = 1 THEN "iret" ELSE i_frames[t][k].at
    BY <1>1, AdvanceOwes DEF IrqInv
  <2> QED BY <1>2, <2>1 DEF Owes
<1>5. IrqTypes'
  <2>1. /\ i_frames' \in [Irq!Threads -> Seq(Frames)]
        /\ \A t \in Irq!Threads : Len(i_frames'[t]) = Len(i_frames[t])
    BY <1>1, AdvanceFrames DEF IrqInv
  <2>2. /\ i_current' \in Irq!Threads /\ i_iflag' = TRUE
        /\ i_state' \in [Irq!Threads -> {"RUNNING", "READY", "BLOCKED"}]
    BY <1>1, GiveAway DEF IrqInv, IrqTypes
  <2> QED BY <1>1, <2>1, <2>2 DEF IrqInv, IrqTypes
<1> QED BY <1>1, <1>3, <1>4, <1>5, SameOwed

(* The end of interrupt of a handler clears one line: the timer's for the timer and the network
   card's for the card, but perhaps the line of another handler for the keyboard. *)
LEMMA EoiLine ==
  ASSUME IrqInv, NEW i, Irq!Top(i, "eoi")
  PROVE  /\ Open(i, i_current, 1)
         /\ \E m \in i_master : Irq!Highest(i_master) = {m} /\ (m = 0 <=> i = 0)
         /\ i = 11 => 11 \in i_slave /\ Irq!Highest(i_slave) = {11}
<1> DEFINE c == i_current
<1>1. /\ i \in IrqLines /\ c \in Irq!Threads /\ 1 \in 1 .. Len(i_frames[c])
      /\ i_frames[c][1].irq = i /\ i_frames[c][1].at = "eoi"
  BY TopFrame DEF IrqInv, IrqTypes
<1>2. Open(i, c, 1)
  BY <1>1 DEF Open, Owes
<1>3. i_master \subseteq {0, 1, 2} /\ IsFiniteSet(i_master)
  BY MasterFinite DEF IrqInv
<1>4. i_master # {}
  <2>1. <<c, 1>> \in Owed /\ IsFiniteSet(Owed) /\ Cardinality(i_master) = Cardinality(Owed)
    BY <1>2, OwedPairs DEF Open, IrqInv, Counted
  <2>2. Cardinality(Owed) # 0
    BY <2>1, FS_EmptySet
  <2> QED BY <1>3, <2>1, <2>2, FS_EmptySet
<1>5. 0 \in i_master <=> i = 0
  <2>1. i = 0 => 0 \in i_master
    BY <1>2 DEF IrqInv, TimerAlone
  <2>2. ASSUME 0 \in i_master PROVE i = 0
    <3>1. PICK t, k : Open(0, t, k)
      BY <2>2 DEF IrqInv, TimerAlone
    <3>2. t = c /\ k = 1
      BY <3>1 DEF IrqInv, TimerAlone
    <3> QED BY <1>1, <3>1, <3>2 DEF Open
  <2> QED BY <2>1, <2>2
<1>6. \E m \in i_master : (\A j \in i_master : m <= j) /\ (m = 0 <=> i = 0)
  <2>1. CASE 0 \in i_master
    BY <1>3, <1>5, <2>1
  <2>2. CASE 0 \notin i_master /\ 1 \in i_master
    BY <1>3, <1>5, <2>2
  <2>3. CASE 0 \notin i_master /\ 1 \notin i_master
    <3>1. \A j \in i_master : j = 2
      BY <1>3, <2>3
    <3>2. 2 \in i_master
      BY <1>4, <3>1
    <3> QED BY <1>5, <2>3, <3>1, <3>2
  <2> QED BY <2>1, <2>2, <2>3
<1>7. \E m \in i_master : Irq!Highest(i_master) = {m} /\ (m = 0 <=> i = 0)
  <2>1. i_master \subseteq Nat
    BY <1>3
  <2>2. PICK m \in i_master : (\A j \in i_master : m <= j) /\ (m = 0 <=> i = 0)
    BY <1>6
  <2>3. Irq!Highest(i_master) = {m}
    BY <2>1, <2>2, HighestOf
  <2> QED BY <2>2, <2>3
<1>8. i = 11 => 11 \in i_slave /\ Irq!Highest(i_slave) = {11}
  <2> SUFFICES ASSUME i = 11 PROVE 11 \in i_slave /\ Irq!Highest(i_slave) = {11}
    OBVIOUS
  <2>1. 11 \in i_slave
    BY <1>2 DEF IrqInv, SlaveAlone
  <2>2. i_slave \subseteq Nat /\ \A j \in i_slave : 11 <= j
    BY DEF IrqInv, IrqTypes
  <2> QED BY <2>1, <2>2, HighestOf
<1> QED BY <1>2, <1>7, <1>8

(* One handler less owes an end of interrupt, and one line less is in service. *)
LEMMA EoiInv ==
  ASSUME IrqInv, NEW i \in IrqLines, Irq!Eoi(i)
  PROVE  IrqInv'
<1> DEFINE c == i_current
<1>1. /\ Irq!Top(i, "eoi") /\ i_master' = i_master \ Irq!Highest(i_master)
      /\ i_slave' = (IF i >= 8 THEN i_slave \ Irq!Highest(i_slave) ELSE i_slave)
      /\ UNCHANGED <<i_current, i_state, i_iflag, i_pending, i_base, i_waiting>>
  BY DEF Irq!Eoi, Irq!cpuVars
<1>2. PICK r \in {"schedule", "iret"} : Irq!Advance(r)
  BY DEF Irq!Eoi
<1>3. PICK m \in i_master : Irq!Highest(i_master) = {m} /\ (m = 0 <=> i = 0)
  BY <1>1, EoiLine
<1>4. /\ Open(i, c, 1)
      /\ i = 11 => 11 \in i_slave /\ i_slave' = i_slave \ {11}
      /\ i # 11 => i_slave' = i_slave
  <2>1. i = 11 \/ (i # 11 /\ ~(i >= 8))
    BY IrqFacts
  <2> QED BY <1>1, <2>1, EoiLine
<1>5. ASSUME NEW t, NEW k
      PROVE  /\ Owes(t, k)' <=> Owes(t, k) /\ ~(t = c /\ k = 1)
             /\ Owes(t, k)' => i_frames'[t][k].irq = i_frames[t][k].irq
  <2>1. /\ Owes(t, k)' <=> IF t = c /\ k = 1 THEN r \in {"handler", "eoi"} ELSE Owes(t, k)
        /\ t \in Irq!Threads /\ k \in 1 .. Len(i_frames[t]) =>
             /\ i_frames'[t][k].irq = i_frames[t][k].irq
             /\ i_frames'[t][k].at = IF t = c /\ k = 1 THEN r ELSE i_frames[t][k].at
    BY <1>1, <1>2, AdvanceOwes DEF IrqInv
  <2> QED BY <2>1 DEF Owes
<1>6. \A j, t, k : Open(j, t, k)' <=> Open(j, t, k) /\ ~(t = c /\ k = 1)
  BY <1>5 DEF Open
<1>7. IrqTypes'
  <2>1. r \in {"handler", "eoi", "schedule", "iret"}
    OBVIOUS
  <2>2. /\ i_frames' \in [Irq!Threads -> Seq(Frames)]
        /\ \A t \in Irq!Threads : Len(i_frames'[t]) = Len(i_frames[t])
    BY <1>1, <1>2, <2>1, AdvanceFrames DEF IrqInv
  <2>3. i_master' \subseteq {Irq!Line(j) : j \in IrqLines} /\ i_slave' \subseteq IrqLines \cap {11}
    BY <1>1, <1>4 DEF IrqInv, IrqTypes
  <2> QED BY <1>1, <2>2, <2>3 DEF IrqInv, IrqTypes
<1>8. Counted'
  <2>1. /\ Owed \in SUBSET (Irq!Threads \X (Nat \ {0})) /\ <<c, 1>> \in Owed
        /\ Owed' \in SUBSET (Irq!Threads \X (Nat \ {0}))
        /\ \A t, k : <<t, k>> \in Owed' <=> <<t, k>> \in Owed /\ <<t, k>> # <<c, 1>>
    <3>1. <<c, 1>> \in Owed
      BY <1>4, OwedPairs DEF Open, IrqInv
    <3>2. \A t, k : <<t, k>> # <<c, 1>> <=> ~(t = c /\ k = 1)
      OBVIOUS
    <3> QED BY <1>5, <1>7, <3>1, <3>2, OwedPairs, OwedPairsNext DEF IrqInv
  <2>2. Owed' = Owed \ {<<c, 1>>}
    BY <2>1
  <2>3. IsFiniteSet(Owed) /\ Cardinality(i_master) = Cardinality(Owed)
    BY DEF IrqInv, Counted
  <2>4. IsFiniteSet(Owed') /\ Cardinality(Owed') = Cardinality(Owed) - 1
    BY <2>1, <2>2, <2>3, FS_RemoveElement
  <2>5. Cardinality(i_master') = Cardinality(i_master) - 1
    <3>1. IsFiniteSet(i_master)
      BY MasterFinite DEF IrqInv
    <3> QED BY <1>1, <1>3, <3>1, FS_RemoveElement
  <2> QED BY <2>3, <2>4, <2>5 DEF Counted
<1>9. TimerAlone'
  <2>1. ASSUME NEW t, NEW k, Open(0, t, k)' PROVE FALSE
    BY <1>6, <2>1 DEF IrqInv, TimerAlone
  <2>2. 0 \notin i_master'
    <3>1. CASE i = 0
      BY <1>1, <1>3, <3>1
    <3>2. CASE i # 0
      <4>1. ~Open(0, c, 1)
        BY <1>4, <3>2 DEF Open
      <4>2. TimerDone
        BY <4>1, TimerDoneHere
      <4> QED BY <1>1, <4>2 DEF IrqInv, TimerAlone, TimerDone
    <3> QED BY <3>1, <3>2
  <2> QED BY <2>1, <2>2 DEF TimerAlone
<1>10. SlaveAlone'
  <2>1. CASE i = 11
    <3>1. \A t, k : ~Open(11, t, k)'
      BY <1>4, <1>6, <2>1 DEF IrqInv, SlaveAlone
    <3> QED BY <1>4, <2>1, <3>1 DEF SlaveAlone
  <2>2. CASE i # 11
    <3>1. ~Open(11, c, 1)
      BY <1>4, <2>2 DEF Open
    <3>2. \A t, k : Open(11, t, k)' <=> Open(11, t, k)
      BY <1>6, <3>1
    <3> QED BY <1>4, <2>2, <3>2 DEF IrqInv, SlaveAlone
  <2> QED BY <2>1, <2>2
<1> QED BY <1>7, <1>8, <1>9, <1>10 DEF IrqInv

(* A handler returns. *)
LEMMA IretInv ==
  ASSUME IrqInv, NEW i \in IrqLines, Irq!Iret(i)
  PROVE  IrqInv'
<1> DEFINE c == i_current
           s == i_frames[c]
           z == Tail(s)
<1>1. /\ Irq!Top(i, "iret") /\ i_frames' = [i_frames EXCEPT ![c] = z] /\ i_iflag' = TRUE
      /\ UNCHANGED <<i_current, i_state, i_pending, i_master, i_slave, i_base, i_waiting>>
  BY DEF Irq!Iret, Irq!cpuVars, Irq!picVars
<1>2. /\ c \in Irq!Threads /\ s \in Seq(Frames) /\ 1 \in 1 .. Len(s)
      /\ s[1].irq = i /\ s[1].at = "iret"
  BY <1>1, TopFrame DEF IrqInv, IrqTypes
<1>3. /\ Len(s) \in Nat /\ z \in Seq(Frames) /\ Len(z) = Len(s) - 1
      /\ \A k \in 1 .. Len(z) : z[k] = s[k + 1]
  <2>1. s # <<>>
    BY <1>2
  <2> QED BY <1>2, <2>1, HeadTailProperties
<1>4. ~Owes(c, 1) /\ TimerDone
  <2>1. ~Owes(c, 1)
    BY <1>2 DEF Owes
  <2>2. ~Open(0, c, 1)
    BY <2>1 DEF Open
  <2> QED BY <2>1, <2>2, TimerDoneHere
<1> HIDE DEF z
<1>5. /\ i_frames'[c] = z /\ \A t \in Irq!Threads : t # c => i_frames'[t] = i_frames[t]
      /\ i_frames' \in [Irq!Threads -> Seq(Frames)]
  BY <1>1, <1>2, <1>3 DEF IrqInv, IrqTypes
<1>6. ASSUME NEW t, NEW k
      PROVE  /\ t # c => Owes(t, k)' = Owes(t, k)
             /\ t = c => (Owes(t, k)' <=> k \in 1 .. Len(z) /\ Owes(c, k + 1))
             /\ Owes(t, k)' => i_frames'[t][k] = IF t = c THEN i_frames[c][k + 1] ELSE i_frames[t][k]
  <2>1. CASE t # c
    BY <1>5, <2>1 DEF Owes
  <2>2. CASE t = c
    <3>1. Owes(t, k)' <=> k \in 1 .. Len(z) /\ z[k].at \in {"handler", "eoi"}
      BY <1>2, <1>5, <2>2 DEF Owes
    <3>2. k \in 1 .. Len(z) => z[k] = s[k + 1] /\ k + 1 \in 1 .. Len(s)
      BY <1>3
    <3> QED BY <1>2, <1>5, <2>2, <3>1, <3>2 DEF Owes
  <2> QED BY <2>1, <2>2
<1>7. \A j : (\E t, k : Open(j, t, k)') <=> \E t, k : Open(j, t, k)
  <2>1. ASSUME NEW j, NEW t, NEW k, Open(j, t, k)' PROVE \E u, m : Open(j, u, m)
    <3>1. IF t = c THEN Open(j, c, k + 1) ELSE Open(j, t, k)
      BY <1>6, <2>1 DEF Open
    <3> QED BY <3>1
  <2>2. ASSUME NEW j, NEW t, NEW k, Open(j, t, k) PROVE \E u, m : Open(j, u, m)'
    <3>1. CASE t # c
      BY <1>6, <2>2, <3>1 DEF Open
    <3>2. CASE t = c
      <4>1. k \in 1 .. Len(s) /\ k # 1
        BY <1>2, <2>2, <3>2 DEF Open, Owes
      <4>2. k - 1 \in 1 .. Len(z) /\ (k - 1) + 1 = k
        BY <1>3, <4>1
      <4>3. Owes(t, k - 1)' /\ i_frames'[t][k - 1] = i_frames[t][k]
        BY <1>6, <2>2, <3>2, <4>2 DEF Open
      <4>4. Open(j, t, k - 1)'
        BY <2>2, <4>3 DEF Open
      <4> QED BY <4>4
    <3> QED BY <3>1, <3>2
  <2> QED BY <2>1, <2>2
<1>8. IrqTypes'
  <2>1. IrqDepth \in Nat /\ Len(s) <= IrqDepth /\ \A t \in Irq!Threads : Len(i_frames[t]) <= IrqDepth
    BY <1>2, IrqFacts DEF IrqInv, IrqTypes
  <2>2. Len(i_frames'[c]) <= IrqDepth
    BY <1>3, <1>5, <2>1
  <2>3. \A t \in Irq!Threads : Len(i_frames'[t]) <= IrqDepth
    BY <1>5, <2>1, <2>2
  <2> QED BY <1>1, <1>5, <2>3 DEF IrqInv, IrqTypes
<1>9. Counted'
  <2>1. /\ Owed \in SUBSET (Irq!Threads \X (Nat \ {0}))
        /\ \A t, k : <<t, k>> \in Owed <=> Owes(t, k)
    BY OwedPairs DEF IrqInv
  <2>2. /\ Owed' \in SUBSET (Irq!Threads \X (Nat \ {0}))
        /\ \A t, k : <<t, k>> \in Owed' <=> Owes(t, k)'
    BY <1>8, OwedPairsNext
  <2>3. ASSUME NEW t \in Irq!Threads, NEW k \in Nat \ {0}
        PROVE  /\ t # c => (<<t, k>> \in Owed' <=> <<t, k>> \in Owed)
               /\ <<c, k>> \in Owed' <=> <<c, k + 1>> \in Owed
    <3>1. t # c => (Owes(t, k)' <=> Owes(t, k))
      BY <1>6
    <3>2. ASSUME NEW u, u = c PROVE <<u, k>> \in Owed' <=> <<u, k + 1>> \in Owed
      <4>1. Owes(u, k + 1) => k \in 1 .. Len(z)
        BY <1>3, <3>2 DEF Owes
      <4>2. Owes(u, k)' <=> k \in 1 .. Len(z) /\ Owes(c, k + 1)
        BY <1>6, <3>2
      <4>3. <<u, k>> \in Owed' <=> Owes(u, k)'
        BY <2>2
      <4>4. <<u, k + 1>> \in Owed <=> Owes(u, k + 1)
        BY <2>1
      <4> QED BY <3>2, <4>1, <4>2, <4>3, <4>4
    <3> QED BY <2>1, <2>2, <3>1, <3>2
  <2>4. <<c, 1>> \notin Owed
    BY <1>4, <2>1
  <2>5. IsFiniteSet(Owed) /\ Cardinality(i_master) = Cardinality(Owed)
    BY DEF IrqInv, Counted
  <2>6. IsFiniteSet(Owed') /\ Cardinality(Owed') = Cardinality(Owed)
    BY <1>2, <2>1, <2>2, <2>3, <2>4, <2>5, ShiftCount
  <2> QED BY <1>1, <2>5, <2>6 DEF Counted
<1>10. TimerAlone'
  BY <1>1, <1>4, <1>7 DEF IrqInv, TimerAlone, TimerDone
<1>11. SlaveAlone'
  <2>1. ASSUME NEW t, NEW k, NEW u, NEW m, Open(11, t, k)', Open(11, u, m)'
        PROVE  t = u /\ k = m
    <3>1. IF t = c THEN Open(11, c, k + 1) /\ k \in 1 .. Len(z) ELSE Open(11, t, k)
      BY <1>6, <2>1 DEF Open
    <3>2. IF u = c THEN Open(11, c, m + 1) /\ m \in 1 .. Len(z) ELSE Open(11, u, m)
      BY <1>6, <2>1 DEF Open
    <3>3. t = u /\ (IF t = c THEN k + 1 = m + 1 ELSE k = m)
      BY <3>1, <3>2 DEF IrqInv, SlaveAlone
    <3> QED BY <1>3, <3>1, <3>2, <3>3
  <2>2. 11 \in i_slave' <=> \E t, k : Open(11, t, k)'
    BY <1>1, <1>7 DEF IrqInv, SlaveAlone
  <2> QED BY <2>1, <2>2 DEF SlaveAlone
<1> QED BY <1>8, <1>9, <1>10, <1>11 DEF IrqInv

(* sock_recv below the handlers. *)
LEMMA RecvInv ==
  ASSUME IrqInv, NEW t \in IrqPrograms, Irq!Recv(t)
  PROVE  IrqInv'
<1>1. /\ i_current = t /\ i_frames[i_current] = <<>>
      /\ UNCHANGED <<i_pending, i_master, i_slave, i_frames>>
  BY DEF Irq!Recv, Irq!RecvBlocks, Irq!Wakes, Irq!RegistersAgain, Irq!MarksBlocked,
         Irq!YieldsAgain, Irq!At, Irq!picVars
<1>2. t \in Irq!Threads
  BY IrqFacts
<1>3. TimerDone
  <2>1. ~Open(0, i_current, 1)
    BY <1>1 DEF Open, Owes
  <2> QED BY <2>1, TimerDoneHere
<1>4. \A u, k : (Owes(u, k)' <=> Owes(u, k)) /\ i_frames'[u][k].irq = i_frames[u][k].irq
  BY <1>1 DEF Owes
<1>5. IrqTypes'
  <2>1. CASE Irq!RecvBlocks(t)
    <3>1. [i_state EXCEPT ![t] = "BLOCKED"] \in [Irq!Threads -> {"RUNNING", "READY", "BLOCKED"}]
      BY <1>2 DEF IrqInv, IrqTypes
    <3>2. /\ Irq!Reschedule([i_state EXCEPT ![t] = "BLOCKED"])
          /\ i_base' = [i_base EXCEPT ![t] = "asleep"] /\ i_waiting' = [i_waiting EXCEPT ![t] = TRUE]
      BY <2>1 DEF Irq!RecvBlocks
    <3>3. /\ i_current' \in Irq!Threads /\ i_iflag' = TRUE
          /\ i_state' \in [Irq!Threads -> {"RUNNING", "READY", "BLOCKED"}]
      BY <3>1, <3>2, GiveAway DEF IrqInv, IrqTypes
    <3> QED BY <1>1, <1>2, <3>2, <3>3 DEF IrqInv, IrqTypes
  <2>2. CASE Irq!YieldsAgain(t)
    <3>1. Irq!Reschedule(i_state) /\ i_base' = [i_base EXCEPT ![t] = "asleep"] /\ UNCHANGED i_waiting
      BY <2>2 DEF Irq!YieldsAgain
    <3>2. /\ i_current' \in Irq!Threads /\ i_iflag' = TRUE
          /\ i_state' \in [Irq!Threads -> {"RUNNING", "READY", "BLOCKED"}]
      BY <3>1, GiveAway DEF IrqInv, IrqTypes
    <3> QED BY <1>1, <1>2, <3>1, <3>2 DEF IrqInv, IrqTypes
  <2>3. CASE Irq!Wakes(t) \/ Irq!RegistersAgain(t) \/ Irq!MarksBlocked(t)
    <3>1. /\ UNCHANGED <<i_current, i_iflag>>
          /\ i_state' = i_state \/ i_state' = [i_state EXCEPT ![t] = "BLOCKED"]
          /\ i_waiting' = i_waiting \/ \E b \in BOOLEAN : i_waiting' = [i_waiting EXCEPT ![t] = b]
      BY <2>3 DEF Irq!Wakes, Irq!RegistersAgain, Irq!MarksBlocked, Irq!cpuVars
    <3>2. \E p \in {"user", "register", "mark", "yield"} : i_base' = [i_base EXCEPT ![t] = p]
      BY <2>3 DEF Irq!Wakes, Irq!RegistersAgain, Irq!MarksBlocked
    <3>3. i_base' \in [Irq!Threads -> {"user", "asleep", "register", "mark", "yield"}]
      BY <1>2, <3>2 DEF IrqInv, IrqTypes
    <3> QED BY <1>1, <1>2, <3>1, <3>3 DEF IrqInv, IrqTypes
  <2> QED BY <2>1, <2>2, <2>3 DEF Irq!Recv
<1> QED BY <1>1, <1>3, <1>4, <1>5, SameOwed

(* The invariant holds when the controllers have been initialised. *)
LEMMA IrqStart == Irq!Init => IrqInv
<1> SUFFICES ASSUME Irq!Init PROVE IrqInv
  OBVIOUS
<1>1. /\ i_current = IF IrqBoot = {} THEN IrqIdle ELSE CHOOSE b \in IrqBoot : TRUE
      /\ i_state = [t \in Irq!Threads |-> IF t = i_current THEN "RUNNING" ELSE "READY"]
      /\ i_iflag = TRUE /\ i_pending = {} /\ i_master = {} /\ i_slave = {}
      /\ i_frames = [t \in Irq!Threads |-> <<>>] /\ i_base = [t \in Irq!Threads |-> "user"]
      /\ i_waiting = [t \in Irq!Threads |-> FALSE]
  BY DEF Irq!Init
<1>2. i_current \in Irq!Threads
  <2>1. IrqBoot # {} => (CHOOSE b \in IrqBoot : TRUE) \in IrqBoot
    OBVIOUS
  <2> QED BY <1>1, <2>1, IrqFacts
<1>3. \A t \in Irq!Threads : i_frames[t] = <<>> /\ Len(i_frames[t]) = 0
  BY <1>1
<1>4. IrqTypes
  <2>1. <<>> \in Seq(Frames)
    BY EmptySeq
  <2>2. i_frames \in [Irq!Threads -> Seq(Frames)]
    BY <1>1, <2>1
  <2>3. \A t \in Irq!Threads : Len(i_frames[t]) <= IrqDepth
    BY <1>3, IrqFacts
  <2> QED BY <1>1, <1>2, <2>2, <2>3 DEF IrqTypes
<1>5. \A t, k : ~Owes(t, k)
  BY <1>3 DEF Owes
<1>6. Counted
  <2>1. Owed = {}
    BY <1>5 DEF Owed
  <2> QED BY <1>1, <2>1, FS_EmptySet DEF Counted
<1>7. TimerAlone /\ SlaveAlone
  BY <1>1, <1>5 DEF TimerAlone, SlaveAlone, Open
<1> QED BY <1>4, <1>6, <1>7 DEF IrqInv

(* Entering, finishing and leaving a handler keep the invariant. *)
LEMMA IrqStep == IrqInv /\ [Irq!Next]_(Irq!vars) => IrqInv'
<1> SUFFICES ASSUME IrqInv, [Irq!Next]_(Irq!vars) PROVE IrqInv'
  OBVIOUS
<1>1. ASSUME NEW P \in SUBSET IrqLines, i_pending' = P,
             UNCHANGED <<i_current, i_state, i_iflag, i_master, i_slave, i_frames, i_base, i_waiting>>
      PROVE  IrqInv'
  <2>1. IrqTypes'
    BY <1>1 DEF IrqInv, IrqTypes
  <2>2. \A u, k : (Owes(u, k)' <=> Owes(u, k)) /\ i_frames'[u][k].irq = i_frames[u][k].irq
    BY <1>1 DEF Owes
  <2> QED BY <1>1, <2>1, <2>2, SameOwed
<1>2. ASSUME NEW i \in IrqLines, Irq!Raise(i) PROVE IrqInv'
  <2>1. /\ i_pending' = i_pending \cup {i} /\ i_pending \cup {i} \in SUBSET IrqLines
        /\ UNCHANGED <<i_current, i_state, i_iflag, i_master, i_slave, i_frames, i_base, i_waiting>>
    BY <1>2 DEF Irq!Raise, Irq!cpuVars, IrqInv, IrqTypes
  <2> QED BY <1>1, <2>1
<1>3. CASE Irq!Handle
  BY <1>3, HandlerInv, TickInv, EoiInv, IretInv DEF Irq!Handle
<1>4. CASE UNCHANGED Irq!vars
  <2>1. /\ i_pending' = i_pending /\ i_pending \in SUBSET IrqLines
        /\ UNCHANGED <<i_current, i_state, i_iflag, i_master, i_slave, i_frames, i_base, i_waiting>>
    BY <1>4 DEF Irq!vars, Irq!cpuVars, Irq!picVars, IrqInv, IrqTypes
  <2> QED BY <1>1, <2>1
<1> QED BY <1>2, <1>3, <1>4, AcceptInv, RecvInv DEF Irq!Next

(* What the run checks of the interrupts follows from the invariant. *)
LEMMA IrqGives == IrqInv => Irq!TypeOK /\ Irq!InServiceIsHandled
<1> SUFFICES ASSUME IrqInv PROVE Irq!TypeOK /\ Irq!InServiceIsHandled
  OBVIOUS
<1>1. Irq!TypeOK
  <2>1. i_master \subseteq {Irq!Timer, Irq!Keyboard, Irq!Cascade} /\ i_slave \subseteq {Irq!Network}
    BY IrqFacts DEF IrqInv, IrqTypes, Irq!Cascade
  <2> QED BY <2>1 DEF IrqInv, IrqTypes, Irq!TypeOK
<1>2. \A S : Irq!Cardinality(S) = Cardinality(S)
  BY DEF Irq!Cardinality, Cardinality
<1>3. ASSUME NEW i
      PROVE  /\ \A p : p \in Irq!Unacknowledged(i) <=>
                        p \in Irq!Threads \X (1 .. IrqDepth) /\ Open(i, p[1], p[2])
             /\ \A t, k : Open(i, t, k) => <<t, k>> \in Irq!Unacknowledged(i)
  <2>1. \A t \in Irq!Threads : Len(i_frames[t]) \in Nat /\ Len(i_frames[t]) <= IrqDepth
    BY DEF IrqInv, IrqTypes
  <2>2. \A p : p \in Irq!Unacknowledged(i) <=>
               p \in Irq!Threads \X (1 .. IrqDepth) /\ Open(i, p[1], p[2])
    BY <2>1 DEF Irq!Unacknowledged, Open, Owes
  <2>3. \A t, k : Open(i, t, k) => <<t, k>> \in Irq!Threads \X (1 .. IrqDepth)
    BY <2>1, IrqFacts DEF Open, Owes
  <2> QED BY <2>2, <2>3
<1>4. UNION {Irq!Unacknowledged(i) : i \in IrqLines} = Owed
  <2>1. ASSUME NEW p \in Owed PROVE \E i \in IrqLines : p \in Irq!Unacknowledged(i)
    <3>1. p \in Irq!Threads \X (1 .. IrqDepth) /\ Owes(p[1], p[2])
      BY DEF Owed
    <3>2. i_frames[p[1]] \in Seq(Frames) /\ p[2] \in 1 .. Len(i_frames[p[1]])
      BY <3>1 DEF Owes, IrqInv, IrqTypes
    <3>3. i_frames[p[1]][p[2]] \in Frames
      BY <3>2
    <3>4. i_frames[p[1]][p[2]].irq \in IrqLines
      BY <3>3 DEF Frames
    <3> QED BY <1>3, <3>1, <3>4 DEF Open
  <2>2. ASSUME NEW i \in IrqLines, NEW p \in Irq!Unacknowledged(i) PROVE p \in Owed
    BY <1>3 DEF Open, Owed
  <2> QED BY <2>1, <2>2
<1>5. ASSUME NEW i, \A t, k, u, m : Open(i, t, k) /\ Open(i, u, m) => t = u /\ k = m
      PROVE  Cardinality(Irq!Unacknowledged(i)) = IF \E t, k : Open(i, t, k) THEN 1 ELSE 0
  <2>1. CASE \E t, k : Open(i, t, k)
    <3>1. PICK t, k : Open(i, t, k)
      BY <2>1
    <3>2. <<t, k>> \in Irq!Unacknowledged(i)
      BY <1>3, <3>1
    <3>3. ASSUME NEW p \in Irq!Unacknowledged(i) PROVE p = <<t, k>>
      <4>1. p \in Irq!Threads \X (1 .. IrqDepth) /\ Open(i, p[1], p[2])
        BY <1>3
      <4>2. p[1] = t /\ p[2] = k
        BY <1>5, <3>1, <4>1
      <4> QED BY <4>1, <4>2
    <3>4. Irq!Unacknowledged(i) = {<<t, k>>}
      BY <3>2, <3>3
    <3> QED BY <2>1, <3>4, FS_Singleton
  <2>2. CASE ~ \E t, k : Open(i, t, k)
    <3>1. Irq!Unacknowledged(i) = {}
      BY <1>3, <2>2
    <3> QED BY <2>2, <3>1, FS_EmptySet
  <2> QED BY <2>1, <2>2
<1>6. Cardinality(i_master) = Cardinality(UNION {Irq!Unacknowledged(i) : i \in IrqLines})
  BY <1>4 DEF IrqInv, Counted
<1>7. Cardinality(Irq!Unacknowledged(0)) = IF 0 \in i_master THEN 1 ELSE 0
  <2>1. \A t, k, u, m : Open(0, t, k) /\ Open(0, u, m) => t = u /\ k = m
    BY DEF IrqInv, TimerAlone
  <2>2. Cardinality(Irq!Unacknowledged(0)) = IF \E t, k : Open(0, t, k) THEN 1 ELSE 0
    BY <1>5, <2>1
  <2> QED BY <2>2 DEF IrqInv, TimerAlone
<1>8. Cardinality(Irq!Unacknowledged(11)) = IF 11 \in i_slave THEN 1 ELSE 0
  <2>1. \A t, k, u, m : Open(11, t, k) /\ Open(11, u, m) => t = u /\ k = m
    BY DEF IrqInv, SlaveAlone
  <2>2. Cardinality(Irq!Unacknowledged(11)) = IF \E t, k : Open(11, t, k) THEN 1 ELSE 0
    BY <1>5, <2>1
  <2> QED BY <2>2 DEF IrqInv, SlaveAlone
<1>9. Irq!InServiceIsHandled
  <2>1. Irq!Timer = 0 /\ Irq!Network = 11
    BY IrqFacts
  <2> QED BY <1>2, <1>6, <1>7, <1>8, <2>1 DEF Irq!InServiceIsHandled
<1> QED BY <1>1, <1>9

(* The count of the lines in service, and the frames of the timer and of the network card: kept
   by every step of isr.c and of the handlers, wherever one is interrupted or preempted. *)
THEOREM IrqInductive == Irq!Spec => []IrqInv
  BY IrqStart, IrqStep, PTL DEF Irq!Spec

(* The behaviours of the machine are behaviours of the interrupts. *)
LEMMA IrqRuns == MCSpec => Irq!Spec
<1>1. MCInit => Irq!Init
  BY DEF MCInit
<1>2. [MCNext]_all => [Irq!Next]_(Irq!vars)
  <2>1. MCNext => (machine = "irq" /\ Irq!Next) \/ UNCHANGED irqVars
    BY DEF MCNext, ThreadsOnly, IrqOnly, LockOnly, StartOnly, others
  <2>2. UNCHANGED irqVars => UNCHANGED Irq!vars
    BY DEF irqVars, Irq!vars, Irq!cpuVars, Irq!picVars
  <2>3. UNCHANGED all => UNCHANGED irqVars
    BY DEF all, others
  <2> QED BY <2>1, <2>2, <2>3
<1> QED BY <1>1, <1>2, PTL DEF MCSpec, Irq!Spec

(* No end of interrupt is lost or sent twice: as many lines are in service as handlers, on
   whatever stack, have yet to send one, also when the handler of the network card is preempted
   while it sends; the timer's line and the slave's are in service exactly for their own handler
   (isr.c:102-118, e1000.c:196-230, interrupt_asm.asm). *)
THEOREM InServiceHolds == MCSpec => []InServiceIsHandled
<1>1. IrqInv => InServiceIsHandled
  BY IrqGives DEF InServiceIsHandled
<1> QED BY <1>1, IrqInductive, IrqRuns, PTL

(* The types of the flag, the controllers and the stacks of handler frames (isr.c). *)
THEOREM IrqTypesHold == MCSpec => []Irq!TypeOK
<1>1. IrqInv => Irq!TypeOK
  BY IrqGives
<1> QED BY <1>1, IrqInductive, IrqRuns, PTL

----------------------------------------------------------------------------
(* The start of the kernel.                                                *)

BootTypes ==
  /\ b_env \in [screen : BOOLEAN, map : BOOLEAN, memory : {"plenty", "small", "none"},
                card : BOOLEAN]
  /\ b_pc \in 1 .. 36
  /\ b_iflag \in BOOLEAN /\ b_latched \in BOOLEAN /\ b_early \in BOOLEAN
  /\ b_outcome \in {"boot", "shell", "no screen", "hang", "reset", "drawing", "panic", "dark"}

\* A step that was done left its component started, but for those that need not.
Passed ==
  \A j \in 1 .. b_pc - 1 :
    \/ Start!Order[j] \in b_up \cup {"shell"}
    \/ Start!Order[j] \in Start!OfMemory /\ ~b_env.map
    \/ Start!Order[j] = "backbuffer" /\ b_env.memory = "small"

\* Interrupts are on behind the step that makes the shell only.
FlagPlace ==
  /\ b_iflag => b_pc \in {35, 36} /\ b_outcome \in {"boot", "shell"}
  /\ b_outcome = "shell" => b_pc \in {35, 36}

\* A tick that waits when interrupts first go on is taken before the next step.
TickFirst ==
  /\ b_early => b_pc \in {35, 36}
  /\ b_early /\ b_outcome = "boot" /\ "shell" \in b_up => b_iflag /\ b_latched
  /\ b_outcome = "hang" => ~b_early \/ "shell" \notin b_up

\* A step that misses something is the last one; with a memory map it misses the network card.
CardMissed == /\ b_missing = {"card"} /\ b_pc = 33
              /\ b_env.card => b_env.memory = "small"
Missed ==
  /\ b_outcome = "boot" => b_missing = {}
  /\ b_missing # {} /\ b_env.map => CardMissed
  /\ b_pc > 32 /\ b_env.card /\ b_env.memory # "small" => "card" \in b_up

\* What an exception finds and leaves.
Faulted ==
  /\ b_frame # <<>> => "idt" \in b_up /\ b_frame = Start!registers
  /\ b_outcome = "boot" => b_frame = <<>>
  /\ b_outcome = "reset" => ~b_env.map
  /\ b_outcome \in {"drawing", "dark"} /\ b_env.map /\ b_env.memory = "plenty" =>
       "backbuffer" \in b_up
  /\ b_outcome = "dark" => ~("backbuffer" \in b_up)

BootInv == /\ BootTypes /\ Passed /\ FlagPlace /\ TickFirst /\ Missed /\ Faulted
           /\ Start!QuotesTrue

----------------------------------------------------------------------------
(* The steps in their order. *)
LEMMA StepNames ==
  /\ Start!Order[1] = "log" /\ Start!Order[2] = "fb check" /\ Start!Order[3] = "fb"
  /\ Start!Order[4] = "clear" /\ Start!Order[5] = "pmm"
  /\ Start!Order[6] = "heap" /\ Start!Order[7] = "vmm" /\ Start!Order[8] = "backbuffer"
  /\ Start!Order[9] = "threads" /\ Start!Order[10] = "gdt"
  /\ Start!Order[11] = "idt" /\ Start!Order[12] = "tss" /\ Start!Order[13] = "keyboard"
  /\ Start!Order[14] = "timer" /\ Start!Order[15] = "vfs"
  /\ Start!Order[16] = "kyrofs" /\ Start!Order[17] = "tty"
  /\ Start!Order[18] = "fs_disk" /\ Start!Order[19] = "panic_screen"
  /\ Start!Order[20] = "modules" /\ Start!Order[21] = "deviceman"
  /\ Start!Order[22] = "ide" /\ Start!Order[23] = "amdgpu"
  /\ Start!Order[24] = "net" /\ Start!Order[25] = "e1000" /\ Start!Order[26] = "ip"
  /\ Start!Order[27] = "arp" /\ Start!Order[28] = "udp"
  /\ Start!Order[29] = "tcp" /\ Start!Order[30] = "dhcp" /\ Start!Order[31] = "pci"
  /\ Start!Order[32] = "probe" /\ Start!Order[33] = "dhcp start"
  /\ Start!Order[34] = "shell" /\ Start!Order[35] = "sti" /\ Start!Order[36] = "return"
  BY DEF Start!Order, Start!Steps

(* A name comes from a step before. *)
Behind(x, k) == x \notin {"shell", "backbuffer"} /\ \E j \in 1 .. k - 1 : Start!Order[j] = x

(* The components that others use, and the step that starts them. *)
LEMMA BehindNames ==
  ASSUME NEW k \in 1 .. 36
  PROVE  /\ k > 3 => Behind("fb", k)
         /\ k > 5 => Behind("pmm", k)
         /\ k > 6 => Behind("heap", k)
         /\ k > 7 => Behind("vmm", k)
         /\ k > 9 => Behind("threads", k)
         /\ k > 10 => Behind("gdt", k)
         /\ k > 11 => Behind("idt", k)
         /\ k > 12 => Behind("tss", k)
         /\ k > 13 => Behind("keyboard", k)
         /\ k > 16 => Behind("kyrofs", k)
         /\ k > 21 => Behind("deviceman", k)
         /\ k > 22 => Behind("ide", k)
         /\ k > 23 => Behind("amdgpu", k)
         /\ k > 24 => Behind("net", k)
         /\ k > 25 => Behind("e1000", k)
         /\ k > 26 => Behind("ip", k)
         /\ k > 27 => Behind("arp", k)
         /\ k > 28 => Behind("udp", k)
         /\ k > 31 => Behind("pci", k)
         /\ k > 32 => Behind("probe", k)
<1>1. k > 3 => Behind("fb", k)
  <2>1. Start!Order[3] = "fb"
    BY StepNames
  <2> QED BY <2>1 DEF Behind
<1>2. k > 5 => Behind("pmm", k)
  <2>1. Start!Order[5] = "pmm"
    BY StepNames
  <2> QED BY <2>1 DEF Behind
<1>3. k > 6 => Behind("heap", k)
  <2>1. Start!Order[6] = "heap"
    BY StepNames
  <2> QED BY <2>1 DEF Behind
<1>4. k > 7 => Behind("vmm", k)
  <2>1. Start!Order[7] = "vmm"
    BY StepNames
  <2> QED BY <2>1 DEF Behind
<1>5. k > 9 => Behind("threads", k)
  <2>1. Start!Order[9] = "threads"
    BY StepNames
  <2> QED BY <2>1 DEF Behind
<1>6. k > 10 => Behind("gdt", k)
  <2>1. Start!Order[10] = "gdt"
    BY StepNames
  <2> QED BY <2>1 DEF Behind
<1>7. k > 11 => Behind("idt", k)
  <2>1. Start!Order[11] = "idt"
    BY StepNames
  <2> QED BY <2>1 DEF Behind
<1>8. k > 12 => Behind("tss", k)
  <2>1. Start!Order[12] = "tss"
    BY StepNames
  <2> QED BY <2>1 DEF Behind
<1>9. k > 13 => Behind("keyboard", k)
  <2>1. Start!Order[13] = "keyboard"
    BY StepNames
  <2> QED BY <2>1 DEF Behind
<1>10. k > 16 => Behind("kyrofs", k)
  <2>1. Start!Order[16] = "kyrofs"
    BY StepNames
  <2> QED BY <2>1 DEF Behind
<1>11. k > 21 => Behind("deviceman", k)
  <2>1. Start!Order[21] = "deviceman"
    BY StepNames
  <2> QED BY <2>1 DEF Behind
<1>12. k > 22 => Behind("ide", k)
  <2>1. Start!Order[22] = "ide"
    BY StepNames
  <2> QED BY <2>1 DEF Behind
<1>13. k > 23 => Behind("amdgpu", k)
  <2>1. Start!Order[23] = "amdgpu"
    BY StepNames
  <2> QED BY <2>1 DEF Behind
<1>14. k > 24 => Behind("net", k)
  <2>1. Start!Order[24] = "net"
    BY StepNames
  <2> QED BY <2>1 DEF Behind
<1>15. k > 25 => Behind("e1000", k)
  <2>1. Start!Order[25] = "e1000"
    BY StepNames
  <2> QED BY <2>1 DEF Behind
<1>16. k > 26 => Behind("ip", k)
  <2>1. Start!Order[26] = "ip"
    BY StepNames
  <2> QED BY <2>1 DEF Behind
<1>17. k > 27 => Behind("arp", k)
  <2>1. Start!Order[27] = "arp"
    BY StepNames
  <2> QED BY <2>1 DEF Behind
<1>18. k > 28 => Behind("udp", k)
  <2>1. Start!Order[28] = "udp"
    BY StepNames
  <2> QED BY <2>1 DEF Behind
<1>19. k > 31 => Behind("pci", k)
  <2>1. Start!Order[31] = "pci"
    BY StepNames
  <2> QED BY <2>1 DEF Behind
<1>20. k > 32 => Behind("probe", k)
  <2>1. Start!Order[32] = "probe"
    BY StepNames
  <2> QED BY <2>1 DEF Behind
<1> QED BY <1>1, <1>2, <1>3, <1>4, <1>5, <1>6, <1>7, <1>8, <1>9, <1>10, <1>11, <1>12, <1>13,
        <1>14, <1>15, <1>16, <1>17, <1>18, <1>19, <1>20

Needy == {"clear", "backbuffer", "heap", "threads", "tss", "kyrofs", "tty", "panic_screen",
        "modules", "ide", "amdgpu", "e1000", "pci", "probe", "dhcp start", "shell", "sti"}

(* What the steps use. *)
LEMMA NeedsOf ==
  /\ Start!Needs("clear") = {"fb"}
  /\ Start!Needs("backbuffer") = {"fb", "heap"}
  /\ Start!Needs("heap") = {"pmm"}
  /\ Start!Needs("threads") = {"heap", "vmm"}
  /\ Start!Needs("tss") = {"gdt"}
  /\ Start!Needs("kyrofs") = {"heap"}
  /\ Start!Needs("tty") = {"kyrofs"}
  /\ Start!Needs("panic_screen") = {"kyrofs"}
  /\ Start!Needs("modules") = {"kyrofs"}
  /\ Start!Needs("ide") = {"deviceman"}
  /\ Start!Needs("amdgpu") = {"deviceman"}
  /\ Start!Needs("e1000") = {"deviceman"}
  /\ Start!Needs("pci") = {"heap", "deviceman"}
  /\ Start!Needs("probe") = {"heap", "pci", "ide", "amdgpu", "e1000", "net", "idt"}
  /\ Start!Needs("dhcp start") = {"card", "udp", "ip", "arp"}
  /\ Start!Needs("shell") = {"heap", "threads"}
  /\ Start!Needs("sti") = {"idt", "tss", "gdt", "keyboard"}
  /\ \A s : s \notin Needy => Start!Needs(s) = {}
  BY DEF Start!Needs, Needy

(* What a step uses was to be started before, but for the card; the steps whose place counts
   are where their names are. *)
LEMMA NeedsBehind ==
  ASSUME NEW k \in 1 .. 36
  PROVE  /\ \A x \in Start!Needs(Start!Order[k]) : Behind(x, k) \/ (x = "card" /\ k = 33)
         /\ Start!Order[k] = "probe" => k = 32
         /\ Start!Order[k] = "shell" => k = 34
         /\ Start!Order[k] = "sti" => k = 35
         /\ Start!Order[k] = "return" => k = 36
<1>1. CASE k = 4
  <2>1. Start!Order[k] = "clear"
    BY <1>1, StepNames
  <2>2. Start!Needs("clear") = {"fb"}
    BY NeedsOf
  <2>3. Behind("fb", k)
    BY <1>1, BehindNames
  <2> QED BY <2>1, <2>2, <2>3
<1>2. CASE k = 8
  <2>1. Start!Order[k] = "backbuffer"
    BY <1>2, StepNames
  <2>2. Start!Needs("backbuffer") = {"fb", "heap"}
    BY NeedsOf
  <2>3. Behind("fb", k) /\ Behind("heap", k)
    BY <1>2, BehindNames
  <2> QED BY <2>1, <2>2, <2>3
<1>3. CASE k = 6
  <2>1. Start!Order[k] = "heap"
    BY <1>3, StepNames
  <2>2. Start!Needs("heap") = {"pmm"}
    BY NeedsOf
  <2>3. Behind("pmm", k)
    BY <1>3, BehindNames
  <2> QED BY <2>1, <2>2, <2>3
<1>4. CASE k = 9
  <2>1. Start!Order[k] = "threads"
    BY <1>4, StepNames
  <2>2. Start!Needs("threads") = {"heap", "vmm"}
    BY NeedsOf
  <2>3. Behind("heap", k) /\ Behind("vmm", k)
    BY <1>4, BehindNames
  <2> QED BY <2>1, <2>2, <2>3
<1>5. CASE k = 12
  <2>1. Start!Order[k] = "tss"
    BY <1>5, StepNames
  <2>2. Start!Needs("tss") = {"gdt"}
    BY NeedsOf
  <2>3. Behind("gdt", k)
    BY <1>5, BehindNames
  <2> QED BY <2>1, <2>2, <2>3
<1>6. CASE k = 16
  <2>1. Start!Order[k] = "kyrofs"
    BY <1>6, StepNames
  <2>2. Start!Needs("kyrofs") = {"heap"}
    BY NeedsOf
  <2>3. Behind("heap", k)
    BY <1>6, BehindNames
  <2> QED BY <2>1, <2>2, <2>3
<1>7. CASE k = 17
  <2>1. Start!Order[k] = "tty"
    BY <1>7, StepNames
  <2>2. Start!Needs("tty") = {"kyrofs"}
    BY NeedsOf
  <2>3. Behind("kyrofs", k)
    BY <1>7, BehindNames
  <2> QED BY <2>1, <2>2, <2>3
<1>8. CASE k = 19
  <2>1. Start!Order[k] = "panic_screen"
    BY <1>8, StepNames
  <2>2. Start!Needs("panic_screen") = {"kyrofs"}
    BY NeedsOf
  <2>3. Behind("kyrofs", k)
    BY <1>8, BehindNames
  <2> QED BY <2>1, <2>2, <2>3
<1>9. CASE k = 20
  <2>1. Start!Order[k] = "modules"
    BY <1>9, StepNames
  <2>2. Start!Needs("modules") = {"kyrofs"}
    BY NeedsOf
  <2>3. Behind("kyrofs", k)
    BY <1>9, BehindNames
  <2> QED BY <2>1, <2>2, <2>3
<1>10. CASE k = 22
  <2>1. Start!Order[k] = "ide"
    BY <1>10, StepNames
  <2>2. Start!Needs("ide") = {"deviceman"}
    BY NeedsOf
  <2>3. Behind("deviceman", k)
    BY <1>10, BehindNames
  <2> QED BY <2>1, <2>2, <2>3
<1>11. CASE k = 23
  <2>1. Start!Order[k] = "amdgpu"
    BY <1>11, StepNames
  <2>2. Start!Needs("amdgpu") = {"deviceman"}
    BY NeedsOf
  <2>3. Behind("deviceman", k)
    BY <1>11, BehindNames
  <2> QED BY <2>1, <2>2, <2>3
<1>12. CASE k = 25
  <2>1. Start!Order[k] = "e1000"
    BY <1>12, StepNames
  <2>2. Start!Needs("e1000") = {"deviceman"}
    BY NeedsOf
  <2>3. Behind("deviceman", k)
    BY <1>12, BehindNames
  <2> QED BY <2>1, <2>2, <2>3
<1>13. CASE k = 31
  <2>1. Start!Order[k] = "pci"
    BY <1>13, StepNames
  <2>2. Start!Needs("pci") = {"heap", "deviceman"}
    BY NeedsOf
  <2>3. Behind("heap", k) /\ Behind("deviceman", k)
    BY <1>13, BehindNames
  <2> QED BY <2>1, <2>2, <2>3
<1>14. CASE k = 32
  <2>1. Start!Order[k] = "probe"
    BY <1>14, StepNames
  <2>2. Start!Needs("probe") = {"heap", "pci", "ide", "amdgpu", "e1000", "net", "idt"}
    BY NeedsOf
  <2>3. Behind("heap", k) /\ Behind("pci", k) /\ Behind("ide", k) /\ Behind("amdgpu", k) /\
        Behind("e1000", k) /\ Behind("net", k) /\ Behind("idt", k)
    BY <1>14, BehindNames
  <2> QED BY <1>14, <2>1, <2>2, <2>3
<1>15. CASE k = 33
  <2>1. Start!Order[k] = "dhcp start"
    BY <1>15, StepNames
  <2>2. Start!Needs("dhcp start") = {"card", "udp", "ip", "arp"}
    BY NeedsOf
  <2>3. Behind("udp", k) /\ Behind("ip", k) /\ Behind("arp", k)
    BY <1>15, BehindNames
  <2> QED BY <1>15, <2>1, <2>2, <2>3
<1>16. CASE k = 34
  <2>1. Start!Order[k] = "shell"
    BY <1>16, StepNames
  <2>2. Start!Needs("shell") = {"heap", "threads"}
    BY NeedsOf
  <2>3. Behind("heap", k) /\ Behind("threads", k)
    BY <1>16, BehindNames
  <2> QED BY <1>16, <2>1, <2>2, <2>3
<1>17. CASE k = 35
  <2>1. Start!Order[k] = "sti"
    BY <1>17, StepNames
  <2>2. Start!Needs("sti") = {"idt", "tss", "gdt", "keyboard"}
    BY NeedsOf
  <2>3. Behind("idt", k) /\ Behind("tss", k) /\ Behind("gdt", k) /\ Behind("keyboard", k)
    BY <1>17, BehindNames
  <2> QED BY <1>17, <2>1, <2>2, <2>3
<1>18. CASE k = 1
  <2>1. Start!Order[k] = "log"
    BY <1>18, StepNames
  <2>2. Start!Order[k] \notin Needy
    BY <2>1 DEF Needy
  <2> QED BY <2>1, <2>2, NeedsOf
<1>19. CASE k = 2
  <2>1. Start!Order[k] = "fb check"
    BY <1>19, StepNames
  <2>2. Start!Order[k] \notin Needy
    BY <2>1 DEF Needy
  <2> QED BY <2>1, <2>2, NeedsOf
<1>20. CASE k = 3
  <2>1. Start!Order[k] = "fb"
    BY <1>20, StepNames
  <2>2. Start!Order[k] \notin Needy
    BY <2>1 DEF Needy
  <2> QED BY <2>1, <2>2, NeedsOf
<1>21. CASE k = 5
  <2>1. Start!Order[k] = "pmm"
    BY <1>21, StepNames
  <2>2. Start!Order[k] \notin Needy
    BY <2>1 DEF Needy
  <2> QED BY <2>1, <2>2, NeedsOf
<1>22. CASE k = 7
  <2>1. Start!Order[k] = "vmm"
    BY <1>22, StepNames
  <2>2. Start!Order[k] \notin Needy
    BY <2>1 DEF Needy
  <2> QED BY <2>1, <2>2, NeedsOf
<1>23. CASE k = 10
  <2>1. Start!Order[k] = "gdt"
    BY <1>23, StepNames
  <2>2. Start!Order[k] \notin Needy
    BY <2>1 DEF Needy
  <2> QED BY <2>1, <2>2, NeedsOf
<1>24. CASE k = 11
  <2>1. Start!Order[k] = "idt"
    BY <1>24, StepNames
  <2>2. Start!Order[k] \notin Needy
    BY <2>1 DEF Needy
  <2> QED BY <2>1, <2>2, NeedsOf
<1>25. CASE k = 13
  <2>1. Start!Order[k] = "keyboard"
    BY <1>25, StepNames
  <2>2. Start!Order[k] \notin Needy
    BY <2>1 DEF Needy
  <2> QED BY <2>1, <2>2, NeedsOf
<1>26. CASE k = 14
  <2>1. Start!Order[k] = "timer"
    BY <1>26, StepNames
  <2>2. Start!Order[k] \notin Needy
    BY <2>1 DEF Needy
  <2> QED BY <2>1, <2>2, NeedsOf
<1>27. CASE k = 15
  <2>1. Start!Order[k] = "vfs"
    BY <1>27, StepNames
  <2>2. Start!Order[k] \notin Needy
    BY <2>1 DEF Needy
  <2> QED BY <2>1, <2>2, NeedsOf
<1>28. CASE k = 18
  <2>1. Start!Order[k] = "fs_disk"
    BY <1>28, StepNames
  <2>2. Start!Order[k] \notin Needy
    BY <2>1 DEF Needy
  <2> QED BY <2>1, <2>2, NeedsOf
<1>29. CASE k = 21
  <2>1. Start!Order[k] = "deviceman"
    BY <1>29, StepNames
  <2>2. Start!Order[k] \notin Needy
    BY <2>1 DEF Needy
  <2> QED BY <2>1, <2>2, NeedsOf
<1>30. CASE k = 24
  <2>1. Start!Order[k] = "net"
    BY <1>30, StepNames
  <2>2. Start!Order[k] \notin Needy
    BY <2>1 DEF Needy
  <2> QED BY <2>1, <2>2, NeedsOf
<1>31. CASE k = 26
  <2>1. Start!Order[k] = "ip"
    BY <1>31, StepNames
  <2>2. Start!Order[k] \notin Needy
    BY <2>1 DEF Needy
  <2> QED BY <2>1, <2>2, NeedsOf
<1>32. CASE k = 27
  <2>1. Start!Order[k] = "arp"
    BY <1>32, StepNames
  <2>2. Start!Order[k] \notin Needy
    BY <2>1 DEF Needy
  <2> QED BY <2>1, <2>2, NeedsOf
<1>33. CASE k = 28
  <2>1. Start!Order[k] = "udp"
    BY <1>33, StepNames
  <2>2. Start!Order[k] \notin Needy
    BY <2>1 DEF Needy
  <2> QED BY <2>1, <2>2, NeedsOf
<1>34. CASE k = 29
  <2>1. Start!Order[k] = "tcp"
    BY <1>34, StepNames
  <2>2. Start!Order[k] \notin Needy
    BY <2>1 DEF Needy
  <2> QED BY <2>1, <2>2, NeedsOf
<1>35. CASE k = 30
  <2>1. Start!Order[k] = "dhcp"
    BY <1>35, StepNames
  <2>2. Start!Order[k] \notin Needy
    BY <2>1 DEF Needy
  <2> QED BY <2>1, <2>2, NeedsOf
<1>36. CASE k = 36
  <2>1. Start!Order[k] = "return"
    BY <1>36, StepNames
  <2>2. Start!Order[k] \notin Needy
    BY <2>1 DEF Needy
  <2> QED BY <1>36, <2>1, <2>2, NeedsOf
<1>37. k = 1 \/ k = 2 \/ k = 3 \/ k = 4 \/ k = 5 \/ k = 6 \/ k = 7 \/ k = 8 \/ k = 9 \/ k = 10 \/
       k = 11 \/ k = 12 \/ k = 13 \/ k = 14 \/ k = 15 \/ k = 16 \/ k = 17 \/ k = 18 \/ k = 19 \/
        k = 20 \/ k = 21 \/ k = 22 \/ k = 23 \/ k = 24 \/ k = 25 \/ k = 26 \/ k = 27 \/ k = 28 \/
        k = 29 \/ k = 30 \/ k = 31 \/ k = 32 \/ k = 33 \/ k = 34 \/ k = 35 \/ k = 36
  OBVIOUS
<1> QED BY <1>1, <1>2, <1>3, <1>4, <1>5, <1>6, <1>7, <1>8, <1>9, <1>10, <1>11, <1>12, <1>13,
        <1>14, <1>15, <1>16, <1>17, <1>18, <1>19, <1>20, <1>21, <1>22, <1>23, <1>24, <1>25, <1>26,
        <1>27, <1>28, <1>29, <1>30, <1>31, <1>32, <1>33, <1>34, <1>35, <1>36, <1>37

(* With a memory map every step finds what it needs, but for the card. *)
LEMMA NeedsMet ==
  ASSUME BootInv, b_env.map, NEW x \in Start!Needs(Start!step), x \notin b_up
  PROVE  x = "card" /\ b_pc = 33
<1>1. b_pc \in 1 .. 36
  BY DEF BootInv, BootTypes
<1>2. Behind(x, b_pc) \/ (x = "card" /\ b_pc = 33)
  BY <1>1, NeedsBehind DEF Start!step
<1>3. ~Behind(x, b_pc)
  BY DEF BootInv, Passed, Behind
<1> QED BY <1>2, <1>3

(* The stack an exception leaves is what the handler reads. *)
LEMMA FrameLemma ==
  ASSUME NEW v
  PROVE  Start!FrameOf(v) = Start!registers
<1>1. CASE Start!HasErrorCode(v)
  BY <1>1 DEF Start!FrameOf, Start!registers, Start!Pushed, Start!StubPushes, Start!PUSH_REGS,
              Start!Reverse,
              Start!HasErrorCode, Start!ErrorStubs
<1>2. CASE ~Start!HasErrorCode(v)
  BY <1>2 DEF Start!FrameOf, Start!registers, Start!Pushed, Start!StubPushes, Start!PUSH_REGS,
              Start!Reverse,
              Start!HasErrorCode, Start!ErrorStubs
<1> QED BY <1>1, <1>2
----------------------------------------------------------------------------
(* The quotes.                                                             *)

(* A line of the file holds no newline. *)
LEMMA LineWhole ==
  ASSUME NEW s \in Seq(STRING), NEW k \in 0 .. Len(s), NEW q \in Start!Lines(s, k)
  PROVE  \A j \in DOMAIN q : q[j] # "newline"
<1>1. PICK r \in (1 .. k) \X (1 .. Len(s) + 1) :
        Start!Line(s, r[1], r[2]) /\ q = SubSeq(s, r[1], r[2] - 1)
  BY DEF Start!Lines
<1> DEFINE a == r[1]
           b == r[2]
<1>2. a \in 1 .. Len(s) /\ b \in 1 .. Len(s) + 1 /\ Len(s) \in Nat
  BY <1>1
<1>3. /\ a <= b /\ q = SubSeq(s, a, b - 1)
      /\ \A j \in a .. b - 1 : s[j] # "newline"
  BY <1>1 DEF Start!Line
<1> HIDE DEF a, b
<1>4. \A i \in a .. b - 1 : s[i] \in STRING
  BY <1>2
<1>5. /\ q \in Seq(STRING) /\ Len(q) = (IF a <= b - 1 THEN b - 1 - a + 1 ELSE 0)
      /\ \A i \in 1 .. b - 1 - a + 1 : q[i] = s[a + i - 1]
  BY <1>2, <1>3, <1>4, SubSeqProperties
<1>6. ASSUME NEW j \in DOMAIN q
      PROVE  q[j] # "newline"
  <2>1. DOMAIN q = 1 .. Len(q)
    BY <1>5
  <2>2. j \in 1 .. b - 1 - a + 1 /\ a + j - 1 \in a .. b - 1
    BY <1>2, <1>5, <2>1
  <2> QED BY <1>3, <1>5, <2>2
<1> QED BY <1>6

(* What panic_screen_init leaves are lines. *)
LEMMA QuotesWhole ==
  ASSUME NEW content \in Seq(STRING), NEW st_size \in 0 .. 4,
         NEW Q \in Start!panic_screen_init(content, st_size)
  PROVE  \A q \in Q : \A j \in DOMAIN q : q[j] # "newline"
<1>1. CASE st_size > Len(content)
  BY <1>1 DEF Start!panic_screen_init
<1>2. CASE ~(st_size > Len(content))
  <2> DEFINE s == SubSeq(content, 1, st_size)
  <2>1. Len(content) \in Nat /\ st_size <= Len(content)
    BY <1>2
  <2>2. s \in Seq(STRING) /\ Len(s) = st_size
    <3>1. \A i \in 1 .. st_size : content[i] \in STRING
      BY <2>1
    <3> QED BY <3>1, SubSeqProperties
  <2>3. PICK k \in 0 .. st_size : Q = Start!Lines(s, k)
    BY <1>2 DEF Start!panic_screen_init
  <2> QED BY <2>2, <2>3, LineWhole
<1> QED BY <1>1, <1>2

----------------------------------------------------------------------------
(* The steps of kmain_x64.                                                 *)

(* The steps that are not the last. *)
LEMMA NotLast ==
  ASSUME NEW k \in 1 .. 36
  PROVE  /\ Start!Order[k] \in Start!OfMemory \cup {"fb check", "backbuffer", "shell", "sti"} => k < 36
         /\ Start!Order[k] # "return" => k < 36
         /\ ~(Start!Needs(Start!Order[k]) \subseteq b_up) => k < 36
<1>1. CASE k = 36
  <2>1. Start!Order[k] = "return"
    BY <1>1, StepNames
  <2>2. "return" \notin Needy
    BY DEF Needy
  <2>3. Start!Needs(Start!Order[k]) = {}
    BY <2>1, <2>2, NeedsOf
  <2> QED BY <2>1, <2>3 DEF Start!OfMemory
<1>2. CASE k < 36
  BY <1>2
<1>3. k = 36 \/ k < 36
  OBVIOUS
<1> QED BY <1>1, <1>2, <1>3, Zenon

(* Behind the probe every component is started that needs no more than memory. *)
LEMMA ShellUp ==
  ASSUME BootInv, b_pc \in {33, 35, 36}
  PROVE  /\ {"gdt", "idt", "tss", "keyboard", "kyrofs"} \subseteq b_up
         /\ b_env.map /\ b_env.memory = "plenty" => "backbuffer" \in b_up
<1>1. \A j \in 1 .. 32 :
        \/ Start!Order[j] \in b_up \cup {"shell"}
        \/ Start!Order[j] \in Start!OfMemory /\ ~b_env.map
        \/ Start!Order[j] = "backbuffer" /\ b_env.memory = "small"
  BY DEF BootInv, Passed
<1>2. "gdt" \in b_up
  <2>1. Start!Order[10] = "gdt"
    BY StepNames
  <2> QED BY <1>1, <2>1 DEF Start!OfMemory
<1>3. "idt" \in b_up
  <2>1. Start!Order[11] = "idt"
    BY StepNames
  <2> QED BY <1>1, <2>1 DEF Start!OfMemory
<1>4. "tss" \in b_up
  <2>1. Start!Order[12] = "tss"
    BY StepNames
  <2> QED BY <1>1, <2>1 DEF Start!OfMemory
<1>5. "keyboard" \in b_up
  <2>1. Start!Order[13] = "keyboard"
    BY StepNames
  <2> QED BY <1>1, <2>1 DEF Start!OfMemory
<1>6. "kyrofs" \in b_up
  <2>1. Start!Order[16] = "kyrofs"
    BY StepNames
  <2> QED BY <1>1, <2>1 DEF Start!OfMemory
<1>7. b_env.map /\ b_env.memory = "plenty" => "backbuffer" \in b_up
  <2>1. Start!Order[8] = "backbuffer"
    BY StepNames
  <2> QED BY <1>1, <2>1
<1> QED BY <1>2, <1>3, <1>4, <1>5, <1>6, <1>7

(* Interrupts are off until the shell is made. *)
LEMMA FlagOff ==
  ASSUME BootInv, b_pc \in 1 .. 34
  PROVE  b_iflag = FALSE /\ b_early = FALSE
<1>1. b_pc \notin {35, 36}
  OBVIOUS
<1> QED BY <1>1, Zenon DEF BootInv, FlagPlace, TickFirst, BootTypes

(* kmain_x64 goes on to its next step. *)
LEMMA GotoInv ==
  ASSUME BootInv, b_outcome = "boot", ~(b_iflag /\ b_latched), b_pc < 36, NEW s, Start!Goto(s),
         \/ Start!Order[b_pc] \in b_up \cup s \cup {"shell"}
         \/ Start!Order[b_pc] \in Start!OfMemory /\ ~b_env.map
         \/ Start!Order[b_pc] = "backbuffer" /\ b_env.memory = "small",
         b_pc = 32 /\ b_env.card /\ b_env.memory # "small" => "card" \in s,
         \/ b_iflag' = b_iflag /\ b_early' = b_early /\ b_pc < 34
         \/ b_pc \in {34, 35} /\ Start!TurnsOn /\ ("shell" \in s => b_pc = 34)
  PROVE  BootInv'
<1>1. /\ b_pc \in 1 .. 35 /\ b_pc' = b_pc + 1 /\ b_up' = b_up \cup s
      /\ b_env' = b_env /\ b_latched' = b_latched /\ b_outcome' = b_outcome /\ b_frame' = b_frame
      /\ b_quotes' = b_quotes /\ b_missing' = b_missing
  BY DEF Start!Goto, BootInv, BootTypes
<1>2. \/ b_pc' \in 1 .. 34 /\ b_iflag' = FALSE /\ b_early' = FALSE
      \/ /\ b_pc' \in {35, 36} /\ b_iflag' = TRUE /\ b_early' \in BOOLEAN
         /\ b_early' /\ "shell" \in b_up' => b_latched
  <2>1. CASE b_iflag' = b_iflag /\ b_early' = b_early /\ b_pc < 34
    <3>1. b_pc \in 1 .. 34 /\ b_pc' \in 1 .. 34
      BY <1>1, <2>1
    <3> QED BY <2>1, <3>1, FlagOff
  <2>2. CASE b_pc = 34 /\ Start!TurnsOn
    <3>1. b_pc \in 1 .. 34 /\ b_pc' = 35
      BY <1>1, <2>2
    <3>2. b_iflag' = TRUE /\ b_early' = b_latched
      BY <2>2, <3>1, FlagOff DEF Start!TurnsOn
    <3>3. b_latched \in BOOLEAN
      BY Zenon DEF BootInv, BootTypes
    <3> QED BY <3>1, <3>2, <3>3
  <2>3. CASE b_pc = 35 /\ Start!TurnsOn /\ "shell" \notin s
    <3>1. b_pc' = 36
      BY <1>1, <2>3
    <3>2. b_iflag' = TRUE /\ b_early' = IF b_iflag THEN b_early ELSE b_latched
      BY <2>3 DEF Start!TurnsOn
    <3>3. b_early \in BOOLEAN /\ b_latched \in BOOLEAN
      BY Zenon DEF BootInv, BootTypes
    <3>4. b_early' \in BOOLEAN
      BY <3>2, <3>3
    <3>5. ("shell" \in b_up') <=> ("shell" \in b_up)
      BY <1>1, <2>3
    <3>6. b_iflag /\ b_early => "shell" \notin b_up
      BY Zenon DEF BootInv, TickFirst
    <3>7. b_early' /\ "shell" \in b_up' => b_latched
      BY <3>2, <3>5, <3>6
    <3> QED BY <3>1, <3>2, <3>4, <3>7
  <2>4. b_pc = 34 \/ b_pc # 34
    OBVIOUS
  <2> QED BY <2>1, <2>2, <2>3, <2>4
<1>3. BootTypes'
  <2>1. b_pc' \in 1 .. 36
    BY <1>1
  <2>2. b_iflag' \in BOOLEAN /\ b_early' \in BOOLEAN
    BY <1>2
  <2> QED BY <1>1, <2>1, <2>2 DEF BootInv, BootTypes
<1>4. Passed'
  <2>1. ASSUME NEW j \in 1 .. b_pc' - 1
        PROVE  \/ Start!Order[j] \in b_up' \cup {"shell"}
               \/ Start!Order[j] \in Start!OfMemory /\ ~b_env.map
               \/ Start!Order[j] = "backbuffer" /\ b_env.memory = "small"
    <3>1. j = b_pc \/ j \in 1 .. b_pc - 1
      BY <1>1
    <3>2. CASE j = b_pc
      BY <1>1, <3>2
    <3>3. CASE j \in 1 .. b_pc - 1
      BY <1>1, <3>3 DEF BootInv, Passed
    <3> QED BY <3>1, <3>2, <3>3
  <2> QED BY <1>1, <2>1 DEF Passed, Start!OfMemory, Start!Order, Start!Steps
<1>5. FlagPlace'
  BY <1>1, <1>2 DEF FlagPlace
<1>6. TickFirst'
  BY <1>1, <1>2 DEF TickFirst
<1>7. Faulted'
  BY <1>1 DEF BootInv, Faulted, Start!registers
<1>8. Start!QuotesTrue'
  BY <1>1 DEF BootInv, Start!QuotesTrue
<1>9. Missed'
  <2>1. b_missing' = {}
    BY <1>1 DEF BootInv, Missed
  <2>2. b_pc' > 32 => b_pc = 32 \/ b_pc > 32
    BY <1>1
  <2>3. b_pc' > 32 /\ b_env'.card /\ b_env'.memory # "small" => "card" \in b_up'
    BY <1>1, <2>2 DEF BootInv, Missed
  <2> QED BY <2>1, <2>3 DEF Missed
<1> QED BY <1>3, <1>4, <1>5, <1>6, <1>7, <1>8, <1>9 DEF BootInv

(* What does not move kmain_x64 and leaves interrupts off. *)
LEMMA StopInv ==
  ASSUME BootInv, UNCHANGED <<b_env, b_pc, b_up, b_latched, b_early, b_quotes>>, b_iflag' = FALSE,
         b_outcome' \in {"no screen", "hang", "reset", "drawing", "panic", "dark"},
         Faulted', b_outcome' = "hang" => ~b_early \/ "shell" \notin b_up,
         b_missing' = b_missing \/ (b_env.map => CardMissed')
  PROVE  BootInv'
<1>1. BootTypes'
  BY DEF BootInv, BootTypes
<1>2. Passed'
  BY DEF BootInv, Passed, Start!OfMemory, Start!Order, Start!Steps
<1>3. FlagPlace'
  BY DEF FlagPlace
<1>4. TickFirst'
  BY DEF BootInv, TickFirst
<1>5. Start!QuotesTrue'
  BY DEF BootInv, Start!QuotesTrue
<1>6. Missed'
  BY DEF BootInv, Missed, CardMissed
<1> QED BY <1>1, <1>2, <1>3, <1>4, <1>5, <1>6 DEF BootInv

(* kmain_x64 looks at what is not there: without a memory map, or without a network card. *)
LEMMA MissingInv ==
  ASSUME BootInv, b_outcome = "boot", Start!Missing, Start!Exception(14),
         b_missing' = Start!Needs(Start!step) \ b_up
  PROVE  BootInv'
<1>1. b_pc < 36 /\ b_pc \in 1 .. 36
  BY NotLast DEF BootInv, BootTypes, Start!Missing, Start!step
<1>2. b_frame = <<>>
  BY DEF BootInv, Faulted
<1>3. b_env.map => b_pc = 33 /\ b_missing' = {"card"}
  <2>1. PICK x : x \in Start!Needs(Start!step) /\ x \notin b_up
    BY DEF Start!Missing
  <2> QED BY <2>1, NeedsMet
<1>4. b_env.map => /\ "idt" \in b_up /\ (b_env.memory = "plenty" => "backbuffer" \in b_up)
                   /\ b_env.card => b_env.memory = "small"
  <2>1. b_env.map => "idt" \in b_up /\ (b_env.memory = "plenty" => "backbuffer" \in b_up)
    BY <1>3, ShellUp
  <2>2. b_env.map => "card" \notin b_up /\ b_pc > 32
    BY <1>3
  <2> QED BY <2>1, <2>2 DEF BootInv, Missed
<1>5. CASE "idt" \in b_up
  <2>1. /\ UNCHANGED <<b_env, b_pc, b_up, b_latched, b_early, b_quotes>> /\ b_iflag' = FALSE
        /\ b_outcome' = "drawing" /\ b_frame' = Start!registers
    BY <1>5, FrameLemma DEF Start!Exception, Start!panic
  <2>2. Faulted'
    BY <1>4, <1>5, <2>1 DEF Faulted, Start!registers
  <2>3. b_env.map => CardMissed'
    BY <1>3, <1>4, <2>1 DEF CardMissed
  <2> QED BY <2>1, <2>2, <2>3, StopInv
<1>6. CASE "idt" \notin b_up
  <2>1. /\ UNCHANGED <<b_env, b_pc, b_up, b_latched, b_early, b_quotes, b_iflag>>
        /\ b_outcome' = "reset" /\ b_frame' = <<>>
    BY <1>2, <1>6 DEF Start!Exception
  <2>2. ~b_env.map
    BY <1>4, <1>6
  <2>3. b_iflag = FALSE
    <3>1. b_pc \notin {35, 36}
      BY <1>6, ShellUp
    <3> QED BY <3>1, Zenon DEF BootInv, FlagPlace, BootTypes
  <2>4. Faulted'
    BY <2>1, <2>2 DEF Faulted, Start!registers
  <2> QED BY <2>1, <2>2, <2>3, <2>4, StopInv
<1> QED BY <1>5, <1>6

(* A step of kmain_x64 that is run. *)
LEMMA RunInv ==
  ASSUME BootInv, b_outcome = "boot", ~(b_iflag /\ b_latched), Start!Run
  PROVE  BootInv'
<1>1. b_pc \in 1 .. 36 /\ b_frame = <<>>
  BY DEF BootInv, BootTypes, Faulted
<1> DEFINE k == Start!Order[b_pc]
<1>2. /\ Start!step = k
      /\ (k = "probe" => b_pc = 32) /\ (k = "shell" => b_pc = 34) /\ (k = "sti" => b_pc = 35)
      /\ (b_pc = 32 => k = "probe") /\ (b_pc = 34 => k = "shell") /\ (b_pc = 35 => k = "sti")
      /\ (b_pc = 36 => k = "return")
  <2>1. (k = "probe" => b_pc = 32) /\ (k = "shell" => b_pc = 34) /\ (k = "sti" => b_pc = 35)
    BY <1>1, NeedsBehind
  <2>2. b_pc = 32 => k = "probe"
    BY StepNames
  <2>3. b_pc = 34 => k = "shell"
    BY StepNames
  <2>4. b_pc = 35 => k = "sti"
    BY StepNames
  <2>5. b_pc = 36 => k = "return"
    BY StepNames
  <2> QED BY <2>1, <2>2, <2>3, <2>4, <2>5 DEF Start!step
<1> HIDE DEF k
<1>3. CASE /\ Start!NoBitmap \/ Start!NoThread
           /\ Start!panic /\ UNCHANGED <<b_missing, b_frame, b_nested>>
  <2>1. /\ UNCHANGED <<b_env, b_pc, b_up, b_latched, b_early, b_quotes>> /\ b_iflag' = FALSE
        /\ b_outcome' = "drawing" /\ b_frame' = <<>> /\ b_env.memory \in {"small", "none"}
    BY <1>1, <1>3 DEF Start!panic, Start!NoBitmap, Start!NoThread
  <2>2. Faulted'
    BY <2>1 DEF Faulted, Start!registers
  <2> QED BY <1>3, <2>1, <2>2, StopInv
<1>4. CASE Start!NoBuffer /\ Start!Goto({}) /\ UNCHANGED <<b_iflag, b_early>>
  <2>1. k = "backbuffer" /\ b_env.memory = "small"
    BY <1>2, <1>4 DEF Start!NoBuffer
  <2>2. b_pc # 34 /\ b_pc # 35 /\ b_pc # 36
    BY <1>2, <2>1
  <2>3. b_pc < 34 /\ b_pc < 36
    BY <1>1, <2>2
  <2> QED BY <1>4, <2>1, <2>3, GotoInv DEF k
<1>5. CASE /\ k = "probe" /\ Start!Goto({"probe", "card"}) /\ UNCHANGED <<b_iflag, b_early>>
  <2>1. b_pc < 34 /\ b_pc < 36 /\ k \in b_up \cup {"probe", "card"} \cup {"shell"}
    BY <1>2, <1>5
  <2> QED BY <1>5, <2>1, GotoInv DEF k
<1>6. CASE /\ k = "probe" /\ (b_env.card => b_env.memory = "small")
           /\ Start!Goto({"probe"}) /\ UNCHANGED <<b_iflag, b_early>>
  <2>1. b_pc < 34 /\ b_pc < 36 /\ k \in b_up \cup {"probe"} \cup {"shell"}
    BY <1>2, <1>6
  <2> QED BY <1>6, <2>1, GotoInv DEF k
<1>7. ASSUME k = "shell", NEW s \in {{"shell"}, {}}, Start!Goto(s), Start!TurnsOn PROVE BootInv'
  <2>1. b_pc = 34 /\ b_pc < 36 /\ b_pc \in {34, 35} /\ k \in b_up \cup s \cup {"shell"}
    BY <1>2, <1>7
  <2>2. b_pc # 32
    BY <2>1
  <2> QED BY <1>7, <2>1, <2>2, GotoInv DEF k
<1>8. CASE k = "sti" /\ Start!Goto({"sti"}) /\ Start!TurnsOn
  <2>1. b_pc = 35 /\ b_pc < 36 /\ b_pc \in {34, 35} /\ k \in b_up \cup {"sti"} \cup {"shell"}
    BY <1>2, <1>8
  <2>2. b_pc # 32 /\ "shell" \notin {"sti"}
    BY <2>1
  <2> QED BY <1>8, <2>1, <2>2, GotoInv DEF k
<1>9. CASE /\ b_outcome' = "hang" /\ b_iflag' = FALSE
           /\ UNCHANGED <<b_env, b_pc, b_up, b_latched, b_early, b_missing, b_frame, b_quotes,
                          b_nested>>
  <2>1. ~b_early \/ "shell" \notin b_up
    BY Zenon DEF BootInv, TickFirst
  <2>2. Faulted'
    BY <1>1, <1>9 DEF Faulted, Start!registers
  <2> QED BY <1>9, <2>1, <2>2, StopInv
<1>10. CASE /\ k \notin {"probe", "shell", "sti", "return"}
            /\ Start!Goto({k}) /\ UNCHANGED <<b_iflag, b_early>>
  <2>1. b_pc # 32 /\ b_pc # 34 /\ b_pc # 35 /\ b_pc # 36
    BY <1>2, <1>10
  <2>2. b_pc < 34 /\ b_pc < 36
    BY <1>1, <2>1
  <2>3. k \in b_up \cup {k} \cup {"shell"}
    OBVIOUS
  <2> QED BY <1>10, <2>1, <2>2, <2>3, GotoInv DEF k
<1> QED BY <1>2, <1>3, <1>4, <1>5, <1>6, <1>7, <1>8, <1>9, <1>10 DEF Start!Run

(* The step of kmain_x64. *)
LEMMA KmainInv ==
  ASSUME BootInv, Start!kmain_x64
  PROVE  BootInv'
<1>1. b_outcome = "boot" /\ ~(b_iflag /\ b_latched) /\ b_pc \in 1 .. 36 /\ b_frame = <<>>
  BY DEF Start!kmain_x64, BootInv, BootTypes, Faulted
<1>2. CASE /\ Start!NoScreen /\ b_outcome' = "no screen"
           /\ UNCHANGED <<b_env, b_pc, b_up, b_iflag, b_latched, b_early, b_missing, b_frame,
                          b_quotes, b_nested>>
  <2>1. b_pc < 36
    BY <1>1, <1>2, NotLast DEF Start!NoScreen, Start!step
  <2>2. b_iflag = FALSE
    <3>1. b_pc \notin {35, 36}
      BY <1>1, <1>2, StepNames DEF Start!NoScreen, Start!step
    <3> QED BY <3>1, Zenon DEF BootInv, FlagPlace, BootTypes
  <2>3. Faulted'
    BY <1>1, <1>2 DEF Faulted, Start!registers
  <2> QED BY <1>2, <2>2, <2>3, StopInv
<1>3. CASE Start!Skipped /\ Start!Goto({}) /\ UNCHANGED <<b_iflag, b_early>>
  <2>1. Start!Order[b_pc] \in Start!OfMemory /\ ~b_env.map
    BY <1>3 DEF Start!Skipped, Start!step
  <2>2. b_pc # 32 /\ b_pc # 34 /\ b_pc # 35 /\ b_pc # 36
    BY <2>1, StepNames DEF Start!OfMemory
  <2>3. b_pc < 34 /\ b_pc < 36
    BY <1>1, <2>2
  <2> QED BY <1>1, <1>3, <2>1, <2>2, <2>3, GotoInv
<1>4. CASE Start!Missing /\ Start!Exception(14) /\ b_missing' = Start!Needs(Start!step) \ b_up
  BY <1>1, <1>4, MissingInv
<1>5. CASE Start!Run
  BY <1>1, <1>5, RunInv
<1> QED BY <1>2, <1>3, <1>4, <1>5 DEF Start!kmain_x64

----------------------------------------------------------------------------
(* The timer, exceptions and panics.                                       *)

(* The timer ticks. *)
LEMMA BootTickInv ==
  ASSUME BootInv, Start!Tick
  PROVE  BootInv'
<1>1. /\ b_latched' = TRUE
      /\ UNCHANGED <<b_env, b_pc, b_up, b_iflag, b_early, b_missing, b_outcome, b_frame, b_quotes,
                     b_nested>>
  BY DEF Start!Tick
<1>2. BootTypes' /\ FlagPlace'
  BY <1>1 DEF BootInv, BootTypes, FlagPlace
<1>3. Passed'
  BY <1>1 DEF BootInv, Passed, Start!OfMemory, Start!Order, Start!Steps
<1>4. TickFirst'
  BY <1>1, Zenon DEF BootInv, TickFirst
<1>5. Faulted' /\ Start!QuotesTrue'
  BY <1>1 DEF BootInv, Faulted, Start!QuotesTrue, Start!registers
<1>6. Missed'
  BY <1>1 DEF BootInv, Missed, CardMissed
<1> QED BY <1>2, <1>3, <1>4, <1>5, <1>6 DEF BootInv

(* The tick is served. *)
LEMMA TakeTickInv ==
  ASSUME BootInv, Start!TakeTick
  PROVE  BootInv'
<1>1. /\ b_latched' = FALSE /\ b_iflag = TRUE /\ b_outcome \in {"boot", "shell"}
      /\ b_outcome' = (IF "shell" \in b_up THEN "shell" ELSE b_outcome)
      /\ UNCHANGED <<b_env, b_pc, b_up, b_iflag, b_early, b_missing, b_frame, b_quotes, b_nested>>
  BY DEF Start!TakeTick, BootInv, BootTypes
<1>2. b_pc \in {35, 36}
  BY <1>1 DEF BootInv, FlagPlace
<1>3. BootTypes' /\ FlagPlace'
  BY <1>1, <1>2 DEF BootInv, BootTypes, FlagPlace
<1>4. Passed'
  BY <1>1 DEF BootInv, Passed, Start!OfMemory, Start!Order, Start!Steps
<1>5. TickFirst'
  BY <1>1, <1>2 DEF TickFirst
<1>6. Faulted' /\ Start!QuotesTrue'
  BY <1>1 DEF BootInv, Faulted, Start!QuotesTrue, Start!registers
<1>7. Missed'
  <2>1. b_outcome' = "boot" => b_missing' = {}
    BY <1>1 DEF BootInv, Missed
  <2> QED BY <1>1, <2>1 DEF BootInv, Missed, CardMissed
<1> QED BY <1>3, <1>4, <1>5, <1>6, <1>7 DEF BootInv

(* An exception in the shell. *)
LEMMA FaultInv ==
  ASSUME BootInv, b_outcome = "shell", NEW v, Start!Exception(v), UNCHANGED b_missing
  PROVE  BootInv'
<1>1. b_pc \in {35, 36}
  BY DEF BootInv, FlagPlace
<1>2. "idt" \in b_up /\ (b_env.map /\ b_env.memory = "plenty" => "backbuffer" \in b_up)
  BY <1>1, ShellUp
<1>3. /\ UNCHANGED <<b_env, b_pc, b_up, b_latched, b_early, b_quotes>> /\ b_iflag' = FALSE
      /\ b_outcome' = "drawing" /\ b_frame' = Start!registers
  BY <1>2, FrameLemma DEF Start!Exception, Start!panic
<1>4. Faulted'
  BY <1>2, <1>3 DEF Faulted, Start!registers
<1> QED BY <1>3, <1>4, StopInv

(* The panic screen is shown, or its stack trace faults. *)
LEMMA PanicScreenInv ==
  ASSUME BootInv, Start!panic_screen_show \/ Start!print_stack_trace
  PROVE  BootInv'
<1>1. CASE Start!panic_screen_show
  <2>1. /\ UNCHANGED <<b_env, b_pc, b_up, b_latched, b_early, b_quotes, b_iflag, b_frame,
                       b_missing>>
        /\ b_outcome = "drawing"
        /\ b_outcome' = (IF "backbuffer" \in b_up THEN "panic" ELSE "dark")
    BY <1>1 DEF Start!panic_screen_show
  <2>2. b_iflag = FALSE
    BY <2>1, Zenon DEF BootInv, BootTypes, FlagPlace
  <2>3. Faulted'
    BY <2>1 DEF BootInv, Faulted, Start!registers
  <2> QED BY <2>1, <2>2, <2>3, StopInv
<1>2. CASE Start!print_stack_trace
  <2>1. b_outcome = "drawing" /\ "idt" \in b_up
    BY <1>2 DEF Start!print_stack_trace, BootInv, Faulted
  <2>2. /\ UNCHANGED <<b_env, b_pc, b_up, b_latched, b_early, b_missing, b_quotes>>
        /\ b_iflag' = FALSE
        /\ b_outcome' = "drawing" /\ b_frame' = Start!registers
    BY <1>2, <2>1, FrameLemma DEF Start!print_stack_trace, Start!Exception, Start!panic
  <2>3. Faulted'
    BY <2>1, <2>2 DEF BootInv, Faulted, Start!registers
  <2> QED BY <2>2, <2>3, StopInv
<1> QED BY <1>1, <1>2

(* The program that asks for a panic. *)
LEMMA TriggerInv ==
  ASSUME BootInv, NEW q \in BootQuotes, NEW n \in 0 .. 4, Start!trigger_kernel_panic(q, n)
  PROVE  BootInv'
<1>1. /\ UNCHANGED <<b_env, b_pc, b_up, b_latched, b_early, b_missing>> /\ b_iflag' = FALSE
      /\ b_outcome = "shell" /\ b_outcome' = "drawing" /\ b_frame' = <<>>
      /\ b_quotes' \in Start!panic_screen_init(q, n)
  BY DEF Start!trigger_kernel_panic
<1>2. b_pc \in {35, 36}
  BY <1>1 DEF BootInv, FlagPlace
<1>3. b_env.map /\ b_env.memory = "plenty" => "backbuffer" \in b_up
  BY <1>2, ShellUp
<1>4. BootTypes' /\ FlagPlace'
  BY <1>1 DEF BootInv, BootTypes, FlagPlace
<1>5. Passed'
  BY <1>1 DEF BootInv, Passed, Start!OfMemory, Start!Order, Start!Steps
<1>6. TickFirst'
  BY <1>1, <1>2 DEF BootInv, TickFirst
<1>7. Faulted'
  BY <1>1, <1>3 DEF Faulted, Start!registers
<1>8. Start!QuotesTrue'
  <2>1. q \in Seq(STRING)
    BY MachineConstants DEF Start!BootConstants
  <2>2. \A x \in b_quotes' : \A j \in DOMAIN x : x[j] # "newline"
    BY <1>1, <2>1, QuotesWhole
  <2> QED BY <2>2 DEF Start!QuotesTrue
<1>9. Missed'
  BY <1>1 DEF BootInv, Missed, CardMissed
<1> QED BY <1>4, <1>5, <1>6, <1>7, <1>8, <1>9 DEF BootInv

----------------------------------------------------------------------------
(* The invariant.                                                          *)

(* What the loader leaves. *)
LEMMA BootStart == Start!Init => BootInv
<1> SUFFICES ASSUME Start!Init PROVE BootInv
  OBVIOUS
<1>1. /\ b_env \in [screen : BOOLEAN, map : BOOLEAN, memory : {"plenty", "small", "none"},
                    card : BOOLEAN]
      /\ b_missing = {} /\ b_pc = 1 /\ b_iflag = FALSE /\ b_latched = FALSE /\ b_early = FALSE
      /\ b_outcome = "boot" /\ b_frame = <<>> /\ b_quotes = {}
  BY DEF Start!Init
<1>2. BootTypes
  <2>1. b_pc \in 1 .. 36
    BY <1>1
  <2>2. b_outcome \in {"boot", "shell", "no screen", "hang", "reset", "drawing", "panic", "dark"}
    BY <1>1
  <2> QED BY <1>1, <2>1, <2>2, Zenon DEF BootTypes
<1>3. Passed
  BY <1>1 DEF Passed
<1>4. FlagPlace /\ TickFirst /\ Faulted /\ Missed
  BY <1>1 DEF FlagPlace, TickFirst, Faulted, Missed
<1>5. Start!QuotesTrue
  BY <1>1 DEF Start!QuotesTrue
<1> QED BY <1>2, <1>3, <1>4, <1>5 DEF BootInv

(* Every step keeps the invariant. *)
LEMMA BootStep == BootInv /\ [Start!Next]_(Start!bootVars) => BootInv'
<1> SUFFICES ASSUME BootInv, [Start!Next]_(Start!bootVars) PROVE BootInv'
  OBVIOUS
<1>1. CASE UNCHANGED Start!bootVars
  <2>1. UNCHANGED <<b_env, b_pc, b_up, b_iflag, b_latched, b_early, b_missing, b_outcome, b_frame,
                    b_quotes>>
    BY <1>1 DEF Start!bootVars
  <2>2. BootTypes' /\ FlagPlace'
    <3>1. BootTypes'
      BY <2>1, Zenon DEF BootInv, BootTypes
    <3>2. FlagPlace'
      BY <2>1, Zenon DEF BootInv, FlagPlace
    <3> QED BY <3>1, <3>2
  <2>3. Passed'
    BY <2>1 DEF BootInv, Passed, Start!OfMemory, Start!Order, Start!Steps
  <2>4. TickFirst'
    BY <2>1, Zenon DEF BootInv, TickFirst
  <2>5. Faulted' /\ Start!QuotesTrue'
    BY <2>1 DEF BootInv, Faulted, Start!QuotesTrue, Start!registers
  <2>6. Missed'
    BY <2>1 DEF BootInv, Missed, CardMissed
  <2> QED BY <2>2, <2>3, <2>4, <2>5, <2>6 DEF BootInv
<1>2. CASE Start!kmain_x64
  BY <1>2, KmainInv
<1>3. CASE Start!Tick
  BY <1>3, BootTickInv
<1>4. CASE Start!TakeTick
  BY <1>4, TakeTickInv
<1>5. CASE Start!panic_screen_show \/ Start!print_stack_trace
  BY <1>5, PanicScreenInv
<1>6. CASE \E v \in BootVectors : Start!Fault(v) \/ Start!SoftwareInterrupt(v)
  <2>1. PICK v : b_outcome = "shell" /\ Start!Exception(v) /\ UNCHANGED b_missing
    BY <1>6 DEF Start!Fault, Start!SoftwareInterrupt
  <2> QED BY <2>1, FaultInv
<1>7. CASE \E q \in BootQuotes, n \in 0 .. 4 : Start!trigger_kernel_panic(q, n)
  BY <1>7, TriggerInv
<1> QED BY <1>1, <1>2, <1>3, <1>4, <1>5, <1>6, <1>7 DEF Start!Next, Start!Ended

(* What the invariant says. *)
LEMMA BootGives == BootInv => Start!BootSound
<1> SUFFICES ASSUME BootInv PROVE Start!BootSound
  OBVIOUS
<1>1. Start!DarkWithoutMemory
  BY DEF BootInv, Faulted, Start!DarkWithoutMemory
<1>2. Start!InOrder
  <2>1. CardMissed => Start!step = "dhcp start"
    BY StepNames DEF CardMissed, Start!step
  <2> QED BY <2>1 DEF BootInv, Faulted, Missed, CardMissed, Start!InOrder
<1>3. Start!HangsOnlyUnticked
  BY DEF BootInv, TickFirst, Start!HangsOnlyUnticked
<1>4. Start!OnWhenReady
  <2>1. b_iflag => {"gdt", "idt", "tss", "keyboard", "kyrofs"} \subseteq b_up
    BY ShellUp DEF BootInv, FlagPlace
  <2>2. b_outcome \in {"panic", "dark", "drawing", "hang", "no screen"} => ~b_iflag
    BY DEF BootInv, FlagPlace
  <2> QED BY <2>1, <2>2 DEF Start!OnWhenReady
<1>5. Start!FrameTrue
  BY DEF BootInv, Faulted, Start!FrameTrue
<1>6. Start!QuotesTrue
  BY DEF BootInv
<1> QED BY <1>1, <1>2, <1>3, <1>4, <1>5, <1>6 DEF Start!BootSound

(* The invariant holds in every state kmain_x64 and what follows it reach. *)
THEOREM BootInductive == Start!Spec => []BootInv
  BY BootStart, BootStep, PTL DEF Start!Spec

(* The behaviours of the machine are behaviours of its start. *)
LEMMA BootRuns == MCSpec => Start!Spec
<1>1. MCInit => Start!Init
  BY DEF MCInit
<1>2. [MCNext]_all => [Start!Next]_(Start!bootVars)
  <2>1. MCNext => (machine = "boot" /\ Start!Next) \/ UNCHANGED bootVars
    BY DEF MCNext, ThreadsOnly, IrqOnly, LockOnly, StartOnly, others
  <2>2. UNCHANGED bootVars => UNCHANGED Start!bootVars
    BY DEF bootVars, Start!bootVars
  <2>3. UNCHANGED all => UNCHANGED bootVars
    BY DEF all, others
  <2> QED BY <2>1, <2>2, <2>3
<1> QED BY <1>1, <1>2, PTL DEF MCSpec, Start!Spec

(* With a memory map no step of kmain_x64 uses what is not started, but for dhcp_client_start
   on a machine whose network card was not attached, and the machine never starts again by
   itself; interrupts are on only with the tables loaded; the boot context stops only when no
   tick was waiting as they first went on; the stack of an exception is what the handler reads,
   and the panic screen shows whole lines of its file (kernel.c, thread.c, dhcp.c,
   isr_stubs.asm, panic_screen.c). *)
THEOREM BootSoundHolds == MCSpec => []BootSound
<1>1. BootInv => BootSound
  BY BootGives DEF BootSound
<1> QED BY <1>1, BootInductive, BootRuns, PTL

----------------------------------------------------------------------------
(* The types.                                                              *)

\* Only steps are started, and the panic screen faults so often only.
StartedSteps == /\ b_up \subseteq {Start!Steps[i] : i \in 1 .. 36} \cup {"card"}
                /\ b_nested \in 0 .. BootNested

(* A step starts itself only. *)
LEMMA StartedStep == BootTypes /\ StartedSteps /\ [Start!Next]_(Start!bootVars) => StartedSteps'
<1> SUFFICES ASSUME BootTypes, StartedSteps, [Start!Next]_(Start!bootVars) PROVE StartedSteps'
  OBVIOUS
<1> DEFINE All == {Start!Steps[i] : i \in 1 .. 36} \cup {"card"}
<1>1. BootNested \in Nat
  BY MachineConstants DEF Start!BootConstants
<1>2. Start!step \in All
  BY DEF BootTypes, Start!step, Start!Order
<1>3. "sti" \in All
  <2>1. Start!Order[35] = "sti"
    BY StepNames
  <2> QED BY <2>1 DEF Start!Order
<1>4. {"probe", "shell", "card"} \subseteq All
  <2>1. Start!Order[32] = "probe" /\ Start!Order[34] = "shell"
    BY StepNames
  <2> QED BY <2>1 DEF Start!Order
<1>5. Start!Steps' = Start!Steps
  BY DEF Start!Steps
<1> HIDE DEF All
<1>6. b_up \subseteq All /\ b_nested \in 0 .. BootNested
  BY DEF StartedSteps, All
<1>7. b_up' \subseteq All /\ b_nested' \in 0 .. BootNested
  <2>1. ASSUME NEW s, Start!Goto(s), s \subseteq All
        PROVE  b_up' \subseteq All /\ b_nested' \in 0 .. BootNested
    BY <1>6, <2>1 DEF Start!Goto
  <2>2. CASE UNCHANGED <<b_up, b_nested>>
    BY <1>6, <2>2
  <2>3. CASE Start!kmain_x64
    <3>1. CASE Start!Missing /\ Start!Exception(14) /\ UNCHANGED b_nested
      BY <2>2, <3>1 DEF Start!Exception, Start!panic
    <3>2. CASE Start!Run
      <4>1. CASE Start!panic /\ UNCHANGED <<b_missing, b_frame, b_nested>>
        BY <2>2, <4>1 DEF Start!panic
      <4>2. CASE Start!Goto({}) \/ Start!Goto({"sti"}) \/ Start!Goto({Start!step})
        BY <1>2, <1>3, <2>1, <4>2
      <4>3. CASE Start!Goto({"shell"}) \/ Start!Goto({"probe"}) \/ Start!Goto({"probe", "card"})
        <5>1. {"shell"} \subseteq All /\ {"probe"} \subseteq All /\ {"probe", "card"} \subseteq All
          BY <1>4
        <5> QED BY <2>1, <4>3, <5>1
      <4> QED BY <2>2, <3>2, <4>1, <4>2, <4>3 DEF Start!Run
    <3> QED BY <2>1, <2>2, <2>3, <3>1, <3>2 DEF Start!kmain_x64
  <2>4. CASE Start!print_stack_trace
    BY <1>1, <1>6, <2>4 DEF Start!print_stack_trace, Start!Exception, Start!panic
  <2>5. CASE Start!Tick \/ Start!TakeTick \/ Start!panic_screen_show
    BY <2>2, <2>5 DEF Start!Tick, Start!TakeTick, Start!panic_screen_show
  <2>6. CASE \E v \in BootVectors : Start!Fault(v) \/ Start!SoftwareInterrupt(v)
    BY <2>2, <2>6 DEF Start!Fault, Start!SoftwareInterrupt, Start!Exception, Start!panic
  <2>7. CASE \E q \in BootQuotes, n \in 0 .. 4 : Start!trigger_kernel_panic(q, n)
    BY <2>2, <2>7 DEF Start!trigger_kernel_panic
  <2>8. CASE UNCHANGED Start!bootVars
    BY <2>2, <2>8 DEF Start!bootVars
  <2> QED BY <2>3, <2>4, <2>5, <2>6, <2>7, <2>8 DEF Start!Next, Start!Ended
<1> QED BY <1>5, <1>7 DEF StartedSteps, All

(* The types of the start of the machine (kernel.c). *)
THEOREM BootTypesHold == MCSpec => []Start!TypeOK
<1>1. Start!Init => StartedSteps
  <2>1. BootNested \in Nat
    BY MachineConstants DEF Start!BootConstants
  <2> QED BY <2>1 DEF Start!Init, StartedSteps
<1>2. Start!Spec => []StartedSteps
  <2>1. BootInv => BootTypes
    BY DEF BootInv
  <2> QED BY <1>1, <2>1, BootInductive, StartedStep, PTL DEF Start!Spec
<1>3. BootInv /\ StartedSteps => Start!TypeOK
  <2>1. Len(Start!Order) = 36 /\ Len(Start!Steps) = 36
    BY DEF Start!Order, Start!Steps
  <2> SUFFICES ASSUME BootTypes, StartedSteps PROVE Start!TypeOK
    BY DEF BootInv
  <2>2. b_pc \in 1 .. Len(Start!Order)
    BY <2>1 DEF BootTypes
  <2>3. b_up \subseteq {Start!Steps[i] : i \in 1 .. Len(Start!Steps)} \cup {"card"} /\
       b_nested \in 0 .. BootNested
    BY <2>1 DEF StartedSteps
  <2>4. {b_iflag, b_latched, b_early} \subseteq BOOLEAN
    BY Zenon DEF BootTypes
  <2> QED BY <2>2, <2>3, <2>4 DEF BootTypes, Start!TypeOK
<1> QED BY <1>2, <1>3, BootInductive, BootRuns, PTL

(* The behaviours of the machine are behaviours of its threads. *)
LEMMA ThreadsRun == MCSpec => Spec
<1>1. MCInit => Init
  BY DEF MCInit
<1>2. [MCNext]_all => [Next]_vars
  <2>1. MCNext => (machine = "threads" /\ Next) \/ UNCHANGED vars
    BY DEF MCNext, ThreadsOnly, IrqOnly, LockOnly, StartOnly, others
  <2>2. UNCHANGED all => UNCHANGED vars
    BY DEF all, others
  <2> QED BY <2>1, <2>2
<1> QED BY <1>1, <1>2, PTL DEF MCSpec, Spec

(* The types of the threads and of what depends on the scheduler (thread.h, mutex.h, isr.c,
   kernel.c). *)
THEOREM TypesHold == MCSpec => []TypesOK
<1>1. TypeOK /\ Irq!TypeOK /\ Lock!TypeOK /\ Start!TypeOK => TypesOK
  BY DEF TypesOK
<1> QED BY <1>1, TypeCorrect, ThreadsRun, IrqTypesHold, MutexTypes, BootTypesHold, PTL
=============================================================================
