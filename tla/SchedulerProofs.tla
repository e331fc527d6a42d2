-------------------------- MODULE SchedulerProofs --------------------------
(***************************************************************************)
(* Proofs about the scheduler for any set of programs.                     *)
(*                                                                         *)
(* The argument: the boot context and the shell never block or exit, so    *)
(* whenever a program has the processor the shell is READY in the list     *)
(* (InvKernel).  A scan has found no READY thread from start_node to the   *)
(* node before `curr` (InvScan); a scan that has come round has therefore  *)
(* seen the shell not READY, so the shell itself is running and schedule() *)
(* keeps it.  InvSleep is the sleep protocol: a thread some socket points  *)
(* to is a program between its registration and its return, never dead;    *)
(* InvRun says when the thread on the processor is RUNNING.                *)
(***************************************************************************)
EXTENDS Scheduler, TLAPS, SequenceTheorems

Awake == {"RUNNING", "READY", "BLOCKED"}

InvKernel ==
  /\ state[Main] \in {"RUNNING", "READY"}
  /\ state[Shell] \in {"none", "RUNNING", "READY"}
  /\ current \in {Main, Shell} => state[current] = "RUNNING"
  /\ current \in Programs => state[Shell] # "none"
  /\ \A p \in Programs : state[p] # "none" => state[Shell] # "none"
  /\ phase[Main] = "boot" => state[Shell] = "none"
  /\ Live(current)
  /\ OneRunner

InvSleep ==
  /\ waiting \subseteq Programs
  /\ \A t \in waiting : state[t] \in Awake /\ phase[t] # "run"
  /\ \A t \in Threads : phase[t] \in {"registered", "marked", "asleep"}
                          => t \in Programs /\ state[t] \in Awake
  /\ sched = "off" => state[current] # "DEAD"

InvScan ==
  /\ sched = "scan" => ring # <<>>
  /\ sched = "scan" =>
       \A k \in 2 .. Len(ring) : ring[k] = start =>
         \A j \in k .. Len(ring) : state[ring[j]] # "READY"

InvRun ==
  /\ \A t \in Threads : phase[t] = "registered" => state[t] \in {"RUNNING", "READY"}
  /\ \A t \in waiting : phase[t] \in {"marked", "asleep"} => state[t] = "BLOCKED"
  /\ sched = "off" /\ phase[current] \in {"run", "asleep"} => state[current] = "RUNNING"

IInv == TypeOK /\ InvKernel /\ InvSleep /\ InvRun /\ NoneLost /\ InvScan /\ NeverStranded

----------------------------------------------------------------------------
(* What a step of the scan does to the list: the head goes to the end. *)
LEMMA RotateLemma ==
  ASSUME NEW S, NEW s \in Seq(S), s # <<>>
  PROVE  LET r == Append(Tail(s), Head(s)) IN
         /\ r \in Seq(S)
         /\ Len(s) \in Nat /\ Len(s) >= 1
         /\ Len(r) = Len(s)
         /\ Head(s) = s[1]
         /\ Head(s) \in S
         /\ r # <<>>
         /\ \A i \in 1 .. Len(s) - 1 : r[i] = s[i + 1]
         /\ r[Len(s)] = s[1]
<1>1. /\ Len(s) \in Nat /\ Len(s) >= 1 /\ Head(s) = s[1] /\ Head(s) \in S
  BY EmptySeq, LenProperties, ElementOfSeq
<1>2. /\ Tail(s) \in Seq(S) /\ Len(Tail(s)) = Len(s) - 1
      /\ \A i \in 1 .. Len(Tail(s)) : Tail(s)[i] = s[i + 1]
  BY HeadTailProperties
<1>3. LET r == Append(Tail(s), Head(s)) IN
      /\ r \in Seq(S) /\ r # <<>> /\ Len(r) = Len(Tail(s)) + 1
      /\ \A i \in 1 .. Len(Tail(s)) : r[i] = Tail(s)[i]
      /\ r[Len(Tail(s)) + 1] = Head(s)
  BY <1>1, <1>2, AppendProperties
<1> QED
  BY <1>1, <1>2, <1>3

(* The invariant holds when kmain_x64 has set up an empty queue. *)
LEMMA InitInv == Init => IInv
<1> SUFFICES ASSUME Init PROVE IInv
  OBVIOUS
<1>1. TypeOK
  BY EmptySeq DEF Init, TypeOK, LiveStates, SchedStates, Phases, Threads
<1>2. InvKernel
  BY ThreadsAssumption DEF Init, InvKernel, OneRunner, Live, LiveStates, Threads
<1>3. InvSleep /\ InvRun
  BY ThreadsAssumption DEF Init, InvSleep, InvRun, Threads, Awake
<1>4. NoneLost
  <2>1. 1 .. Len(ring) = {}
    BY DEF Init
  <2>2. \A t \in Threads : Live(t) => t = Main
    BY DEF Init, Live, LiveStates
  <2>3. Live(Main)
    BY DEF Init, Live, LiveStates, Threads
  <2> QED
    BY <2>1, <2>2, <2>3 DEF NoneLost, Queued
<1>5. InvScan /\ NeverStranded
  BY DEF Init, InvScan, NeverStranded
<1> QED
  BY <1>1, <1>2, <1>3, <1>4, <1>5 DEF IInv

(* Appending a thread to the list of the scheduler adds it and nothing else. *)
LEMMA AppendedMembers ==
  ASSUME NEW t \in Threads, ring \in Seq(Threads), Len(ring') = Len(ring) + 1,
         \A i \in 1 .. Len(ring) : ring'[i] = ring[i], ring'[Len(ring) + 1] = t
  PROVE  \A u \in Threads : Queued(u)' <=> Queued(u) \/ u = t
<1>1. Len(ring) \in Nat
  OBVIOUS
<1>2. ASSUME NEW u \in Threads, Queued(u)' PROVE Queued(u) \/ u = t
  <2>1. PICK i \in 1 .. Len(ring') : ring'[i] = u
    BY <1>2 DEF Queued
  <2>2. i \in 1 .. Len(ring) \/ i = Len(ring) + 1
    BY <1>1, <2>1
  <2> QED
    BY <2>1, <2>2 DEF Queued
<1>3. ASSUME NEW u \in Threads, Queued(u) PROVE Queued(u)'
  BY <1>1, <1>3 DEF Queued
<1>4. Queued(t)'
  BY <1>1 DEF Queued
<1> QED
  BY <1>2, <1>3, <1>4

(* Starting threads keeps the invariant. *)
LEMMA StartInv ==
  ASSUME IInv, CreateShell \/ MainReturns \/ \E p \in Programs : CreateProgram(p)
  PROVE  IInv'
<1> USE DEF IInv, TypeOK, InvKernel, InvSleep, InvRun, InvScan, NoneLost, NeverStranded, OneRunner,
      Queued, Live, LiveStates, SchedStates, Phases, Threads, Awake
<1>1. ASSUME NEW t \in {Shell} \cup Programs, AddThread(t), state[t] = "none", sched = "off",
             UNCHANGED <<current, sched, start, waiting>>
      PROVE  /\ ring' \in Seq(Threads) /\ Len(ring') = Len(ring) + 1
             /\ \A i \in 1 .. Len(ring) : ring'[i] = ring[i]
             /\ ring'[Len(ring) + 1] = t
             /\ NoneLost'
  <2>1. /\ ring' \in Seq(Threads) /\ Len(ring') = Len(ring) + 1
        /\ \A i \in 1 .. Len(ring) : ring'[i] = ring[i]
        /\ ring'[Len(ring) + 1] = t
    BY <1>1 DEF AddThread
  <2>2. state' = [state EXCEPT ![t] = "READY"] /\ t # Main /\ ~Queued(t)
    BY <1>1, ThreadsAssumption DEF AddThread
  <2>3. \A u \in Threads : Queued(u)' <=> Queued(u) \/ u = t
    <3> HIDE DEF IInv, TypeOK, InvKernel, InvSleep, InvRun, InvScan, NoneLost, NeverStranded,
               OneRunner, Queued, Live, LiveStates, SchedStates, Phases, Threads, Awake
    <3>1. ring \in Seq(Threads) /\ t \in Threads
      BY DEF IInv, TypeOK, Threads
    <3> QED
      BY <2>1, <3>1, AppendedMembers
  <2>4. \A u \in Threads : Live(u)' <=> Live(u) \/ u = t
    BY <2>2
  <2>5. \A i, j \in 1 .. Len(ring') : ring'[i] = ring'[j] => i = j
    BY <2>1, <2>2
  <2> QED
    BY <2>1, <2>2, <2>3, <2>4, <2>5
<1>2. CASE CreateShell
  <2>1. CASE AddThread(Shell)
    BY <1>1, <1>2, <2>1, ThreadsAssumption DEF CreateShell, thread_create, AddThread
  <2>2. CASE UNCHANGED <<state, ring>>
    BY <1>2, <2>2, ThreadsAssumption DEF CreateShell, thread_create
  <2> QED
    BY <1>2, <2>1, <2>2 DEF CreateShell, thread_create
<1>3. CASE MainReturns
  BY <1>3 DEF MainReturns
<1>4. ASSUME NEW p \in Programs, CreateProgram(p) PROVE IInv'
  BY <1>1, <1>4, ThreadsAssumption DEF CreateProgram, AddThread
<1> QED
  BY <1>2, <1>3, <1>4

(* Preemption, exit and the steps of blocking and waking keep the invariant. *)
LEMMA SleepInv ==
  ASSUME IInv, Preempt \/ Exit \/ Register \/ MarkBlocked \/ Sleep \/ Resume
               \/ \E t \in Programs : Wake(t)
  PROVE  IInv'
<1> USE DEF IInv, TypeOK, InvKernel, InvSleep, InvRun, InvScan, NoneLost, NeverStranded, OneRunner,
      Queued, Live, LiveStates, SchedStates, Phases, Threads, Awake
<1>1. ASSUME EnterSchedule, sched = "off"
      PROVE  /\ UNCHANGED <<ring, current>>
             /\ sched' \in {"off", "scan"} /\ start' \in Threads
             /\ sched' = "scan" => ring # <<>> /\ start' = ring[1]
             /\ current # Main => sched' = "scan"
  BY <1>1, RotateLemma DEF EnterSchedule
<1>2. ASSUME EnterSchedule, sched = "off" PROVE InvScan'
  BY <1>1, <1>2, LenProperties
<1>3. CASE Preempt
  BY <1>1, <1>2, <1>3 DEF Preempt
<1>4. CASE Exit
  BY <1>1, <1>2, <1>4, ThreadsAssumption DEF Exit
<1>5. CASE Register
  BY <1>5, ThreadsAssumption DEF Register
<1>6. CASE MarkBlocked
  BY <1>6, ThreadsAssumption DEF MarkBlocked
<1>7. CASE Sleep
  BY <1>1, <1>2, <1>7, ThreadsAssumption DEF Sleep
<1>8. CASE Resume
  BY <1>8, ThreadsAssumption DEF Resume
<1>9. ASSUME NEW t \in Programs, Wake(t) PROVE IInv'
  BY <1>9, ThreadsAssumption DEF Wake
<1> QED
  BY <1>3, <1>4, <1>5, <1>6, <1>7, <1>8, <1>9

(* Rotating a list keeps its items, and repeats none that it did not repeat. *)
LEMMA RotatedItems ==
  ASSUME NEW S, NEW s \in Seq(S), s # <<>>
  PROVE  LET r == Append(Tail(s), Head(s)) IN
         /\ r \in Seq(S) /\ r # <<>> /\ Len(r) = Len(s)
         /\ \A t \in S : (\E i \in 1 .. Len(r) : r[i] = t) <=> (\E i \in 1 .. Len(s) : s[i] = t)
         /\ (\A i, j \in 1 .. Len(s) : s[i] = s[j] => i = j)
              => (\A i, j \in 1 .. Len(r) : r[i] = r[j] => i = j)
<1> DEFINE n == Len(s)
           r == Append(Tail(s), Head(s))
           f == [i \in 1 .. n |-> s[i]]
           g == [i \in 1 .. n |-> r[i]]
<1>1. /\ r \in Seq(S) /\ r # <<>> /\ Len(r) = n
      /\ n \in Nat /\ n >= 1
      /\ \A i \in 1 .. n - 1 : g[i] = f[i + 1]
      /\ g[n] = f[1]
      /\ \A i \in 1 .. n : g[i] = r[i] /\ f[i] = s[i]
  BY RotateLemma
<1> HIDE DEF n, r, f, g
<1>2. ASSUME NEW i \in 1 .. n PROVE \E j \in 1 .. n : f[i] = g[j]
  <2>1. CASE i = 1
    BY <1>1, <2>1
  <2>2. CASE i # 1
    <3>1. i - 1 \in 1 .. n - 1 /\ i - 1 \in 1 .. n /\ (i - 1) + 1 = i
      BY <1>1, <2>2
    <3> QED
      BY <1>1, <3>1
  <2> QED
    BY <2>1, <2>2
<1>3. ASSUME NEW i \in 1 .. n PROVE \E j \in 1 .. n : g[i] = f[j]
  <2>1. CASE i = n
    BY <1>1, <2>1
  <2>2. CASE i # n
    <3>1. i \in 1 .. n - 1 /\ i + 1 \in 1 .. n
      BY <1>1, <2>2
    <3> QED
      BY <1>1, <3>1
  <2> QED
    BY <2>1, <2>2
<1>4. ASSUME \A i, j \in 1 .. n : f[i] = f[j] => i = j,
             NEW i \in 1 .. n, NEW j \in 1 .. n, g[i] = g[j]
      PROVE  i = j
  <2>1. \A k \in 1 .. n : g[k] = f[IF k = n THEN 1 ELSE k + 1]
    BY <1>1
  <2>2. \A k \in 1 .. n : (IF k = n THEN 1 ELSE k + 1) \in 1 .. n
    BY <1>1
  <2>3. (IF i = n THEN 1 ELSE i + 1) = (IF j = n THEN 1 ELSE j + 1)
    BY <1>4, <2>1, <2>2
  <2> QED
    BY <1>1, <2>3
<1>5. ASSUME NEW t \in S, \E i \in 1 .. n : r[i] = t PROVE \E i \in 1 .. n : s[i] = t
  <2>1. PICK i \in 1 .. n : r[i] = t
    BY <1>5
  <2>2. PICK j \in 1 .. n : g[i] = f[j]
    BY <1>3
  <2> QED
    BY <1>1, <2>1, <2>2
<1>6. ASSUME NEW t \in S, \E i \in 1 .. n : s[i] = t PROVE \E i \in 1 .. n : r[i] = t
  <2>1. PICK i \in 1 .. n : s[i] = t
    BY <1>6
  <2>2. PICK j \in 1 .. n : f[i] = g[j]
    BY <1>2
  <2> QED
    BY <1>1, <2>1, <2>2
<1>7. (\A i, j \in 1 .. n : s[i] = s[j] => i = j) => (\A i, j \in 1 .. n : r[i] = r[j] => i = j)
  BY <1>1, <1>4
<1> QED
  BY <1>1, <1>5, <1>6, <1>7 DEF n, r

(* Rotating the list of the scheduler keeps its members. *)
LEMMA RotatedMembers ==
  ASSUME TypeOK, NoneLost, ring # <<>>, ring' = Append(Tail(ring), Head(ring))
  PROVE  /\ ring' \in Seq(Threads) /\ ring' # <<>> /\ Len(ring') = Len(ring)
         /\ \A t \in Threads : Queued(t)' <=> Queued(t)
         /\ \A i, j \in 1 .. Len(ring') : ring'[i] = ring'[j] => i = j
<1>1. ring \in Seq(Threads)
  BY DEF TypeOK
<1>2. /\ ring' \in Seq(Threads) /\ ring' # <<>> /\ Len(ring') = Len(ring)
      /\ \A t \in Threads : (\E i \in 1 .. Len(ring') : ring'[i] = t)
                             <=> (\E i \in 1 .. Len(ring) : ring[i] = t)
      /\ (\A i, j \in 1 .. Len(ring) : ring[i] = ring[j] => i = j)
            => (\A i, j \in 1 .. Len(ring') : ring'[i] = ring'[j] => i = j)
  BY <1>1, RotatedItems
<1>3. \A t \in Threads : Queued(t)' <=> Queued(t)
  BY <1>2, Zenon DEF Queued
<1>4. \A i, j \in 1 .. Len(ring') : ring'[i] = ring'[j] => i = j
  BY <1>2, Zenon DEF NoneLost
<1> QED
  BY <1>2, <1>3, <1>4

(* Unlinking the head of the list removes it and nothing else. *)
LEMMA UnlinkedMembers ==
  ASSUME TypeOK, NoneLost, ring # <<>>, ring' = Tail(ring)
  PROVE  /\ ring' \in Seq(Threads) /\ Len(ring') = Len(ring) - 1
         /\ \A t \in Threads : Queued(t)' <=> Queued(t) /\ t # Head(ring)
         /\ \A i, j \in 1 .. Len(ring') : ring'[i] = ring'[j] => i = j
         /\ \A i \in 1 .. Len(ring') : ring'[i] = ring[i + 1]
<1>1. /\ ring' \in Seq(Threads) /\ Len(ring') = Len(ring) - 1
      /\ Len(ring) \in Nat /\ Len(ring) >= 1
      /\ Head(ring) = ring[1]
      /\ \A i \in 1 .. Len(ring') : ring'[i] = ring[i + 1]
  BY HeadTailProperties, RotateLemma DEF TypeOK
<1>2. /\ \A i \in 1 .. Len(ring') : i + 1 \in 1 .. Len(ring) /\ i + 1 # 1
      /\ \A i \in 1 .. Len(ring) : i # 1 => i - 1 \in 1 .. Len(ring') /\ (i - 1) + 1 = i
      /\ 1 \in 1 .. Len(ring)
  BY <1>1
<1>3. ASSUME NEW t \in Threads, Queued(t), t # Head(ring) PROVE Queued(t)'
  <2>1. PICK i \in 1 .. Len(ring) : ring[i] = t /\ i # 1
    BY <1>1, <1>3 DEF Queued
  <2> QED
    BY <1>1, <1>2, <2>1 DEF Queued
<1>4. ASSUME NEW t \in Threads, Queued(t)' PROVE Queued(t) /\ t # Head(ring)
  <2>1. PICK i \in 1 .. Len(ring') : ring'[i] = t
    BY <1>4 DEF Queued
  <2> QED
    BY <1>1, <1>2, <2>1 DEF Queued, NoneLost
<1>5. ASSUME NEW i \in 1 .. Len(ring'), NEW j \in 1 .. Len(ring'), ring'[i] = ring'[j]
      PROVE  i = j
  <2>1. i + 1 = j + 1
    BY <1>1, <1>2, <1>5 DEF NoneLost
  <2> QED
    BY <2>1
<1> QED
  BY <1>1, <1>3, <1>4, <1>5

(* While a program owns the processor the shell is READY in the list. *)
LEMMA ShellReady ==
  ASSUME IInv, current \in Programs
  PROVE  state[Shell] = "READY" /\ Queued(Shell) /\ Shell # current
  BY ThreadsAssumption DEF IInv, TypeOK, InvKernel, NoneLost, OneRunner, Live, LiveStates, Threads

(* Giving the processor to the head of the list keeps the invariant. *)
LEMMA SwitchInv ==
  ASSUME IInv, Switch
  PROVE  IInv'
<1>1. ring # <<>>
  BY DEF IInv, InvScan, Switch
<1>2. Head(ring) \in Threads /\ Head(ring) = ring[1] /\ Queued(Head(ring)) /\ Head(ring) # Main
  <2>1. Head(ring) \in Threads /\ Head(ring) = ring[1] /\ 1 \in 1 .. Len(ring)
    BY <1>1, RotateLemma DEF IInv, TypeOK
  <2> QED
    BY <2>1 DEF IInv, NoneLost, Queued
<1>3. /\ ring' \in Seq(Threads) /\ ring' # <<>> /\ Len(ring') = Len(ring)
      /\ \A t \in Threads : Queued(t)' <=> Queued(t)
      /\ \A i, j \in 1 .. Len(ring') : ring'[i] = ring'[j] => i = j
  BY <1>1, RotatedMembers DEF IInv, Switch
<1>4. /\ state[Head(ring)] = "READY" /\ current' = Head(ring) /\ sched' = "off"
      /\ state' \in [Threads -> LiveStates \cup {"none", "freed"}]
      /\ \A t \in Threads : state'[t] = IF t = current' THEN "RUNNING"
                                        ELSE IF t = current /\ state[t] = "RUNNING" THEN "READY"
                                        ELSE state[t]
  BY <1>2 DEF IInv, TypeOK, Switch, LiveStates
<1>5. TypeOK'
  BY <1>2, <1>3, <1>4 DEF IInv, TypeOK, Switch, SchedStates
<1>6. InvKernel'
  <2>1. state'[Main] \in {"RUNNING", "READY"} /\ state'[Shell] \in {"none", "RUNNING", "READY"}
    BY <1>2, <1>4 DEF IInv, InvKernel, Threads
  <2>2. OneRunner' /\ state'[current'] = "RUNNING"
    BY <1>2, <1>4 DEF IInv, InvKernel, OneRunner
  <2>3. phase' = phase /\ \A t \in Threads : state'[t] = "none" <=> state[t] = "none"
    BY <1>2, <1>4 DEF Switch
  <2>4. \A p \in Programs : state'[p] # "none" => state'[Shell] # "none"
    BY <2>3 DEF IInv, InvKernel, Threads
  <2>5. phase'[Main] = "boot" => state'[Shell] = "none"
    BY <2>3 DEF IInv, InvKernel, Threads
  <2> QED
    <3>1. Live(current)'
      BY <2>2 DEF Live, LiveStates
    <3>2. current' \in Programs => state'[Shell] # "none"
      BY <2>2, <2>4
    <3> QED
      BY <2>1, <2>2, <2>4, <2>5, <3>1, <3>2 DEF InvKernel
<1>7. InvSleep' /\ InvRun'
  <2>1. waiting' = waiting /\ phase' = phase
    BY DEF Switch
  <2>2. current' \in Threads /\ waiting \subseteq Programs /\ waiting \subseteq Threads
    BY <1>2, <1>4 DEF IInv, TypeOK, InvSleep
  <2>3. \A t \in Threads : state[t] \in Awake => state'[t] \in Awake
    BY <1>4 DEF Awake
  <2>4. \A t \in Threads : state[t] \in {"RUNNING", "READY"} => state'[t] \in {"RUNNING", "READY"}
    BY <1>4
  <2>5. \A t \in Threads : state[t] = "BLOCKED" => state'[t] = "BLOCKED"
    BY <1>2, <1>4
  <2>6. state'[current'] = "RUNNING"
    BY <1>4, <2>2
  <2>7. InvSleep'
    BY <2>1, <2>2, <2>3, <2>6 DEF IInv, InvSleep
  <2>8. InvRun'
    BY <2>1, <2>2, <2>4, <2>5, <2>6 DEF IInv, InvRun
  <2> QED
    BY <2>7, <2>8
<1>8. NoneLost'
  <2>1. \A t \in Threads : Live(t)' <=> Live(t)
    BY <1>2, <1>4 DEF Live, LiveStates
  <2> QED
    BY <1>3, <2>1 DEF IInv, NoneLost
<1>9. InvScan' /\ NeverStranded'
  BY <1>4 DEF InvScan, NeverStranded
<1> QED
  BY <1>5, <1>6, <1>7, <1>8, <1>9 DEF IInv

(* If no queued thread is READY, the thread that has the processor keeps it:
   it is the shell or the boot context, and those are RUNNING. *)
LEMMA NobodyReady ==
  ASSUME IInv, \A t \in Threads : Queued(t) => state[t] # "READY"
  PROVE  state[current] = "RUNNING"
<1>1. CASE current \in Programs
  BY <1>1, ShellReady DEF Threads
<1>2. CASE current \notin Programs
  BY <1>2 DEF IInv, TypeOK, InvKernel, Threads
<1> QED
  BY <1>1, <1>2

(* Passing over the head of the list keeps the invariant. *)
LEMMA AdvanceInv ==
  ASSUME IInv, Advance
  PROVE  IInv'
<1>1. /\ ring # <<>> /\ sched = "scan" /\ ring' = Append(Tail(ring), Head(ring))
      /\ state[Head(ring)] # "READY" /\ sched' = NextRound(ring')
      /\ UNCHANGED <<state, current, start, waiting, phase>>
  BY DEF IInv, InvScan, Advance
<1>2. /\ ring' \in Seq(Threads) /\ ring' # <<>> /\ Len(ring') = Len(ring)
      /\ \A t \in Threads : Queued(t)' <=> Queued(t)
      /\ \A i, j \in 1 .. Len(ring') : ring'[i] = ring'[j] => i = j
  BY <1>1, RotatedMembers DEF IInv
<1>3. /\ Len(ring) \in Nat /\ Len(ring) >= 1 /\ Head(ring) = ring[1]
      /\ \A i \in 1 .. Len(ring) - 1 : ring'[i] = ring[i + 1]
      /\ ring'[Len(ring)] = ring[1]
  BY <1>1, RotateLemma DEF IInv, TypeOK
<1>4. \A k \in 2 .. Len(ring) : ring[k] = start =>
        \A j \in k .. Len(ring) : state[ring[j]] # "READY"
  BY <1>1 DEF IInv, InvScan
<1>5. \A k \in 1 .. Len(ring') : ring'[k] = start =>
        \A j \in k .. Len(ring') : state[ring'[j]] # "READY"
  <2> SUFFICES ASSUME NEW k \in 1 .. Len(ring), ring'[k] = start,
                      NEW j \in k .. Len(ring)
               PROVE  state[ring'[j]] # "READY"
    BY <1>2
  <2>1. CASE j = Len(ring)
    BY <1>1, <1>3, <2>1
  <2>2. CASE j # Len(ring)
    <3>1. /\ j \in 1 .. Len(ring) - 1 /\ k \in 1 .. Len(ring) - 1
          /\ k + 1 \in 2 .. Len(ring) /\ j + 1 \in (k + 1) .. Len(ring)
      BY <1>3, <2>2
    <3>2. ring[k + 1] = start /\ ring'[j] = ring[j + 1]
      BY <1>3, <3>1
    <3> QED
      BY <1>4, <3>1, <3>2
  <2> QED
    BY <2>1, <2>2
<1>6. Head(ring') = ring'[1] /\ Len(ring') \in Nat
  BY <1>2, LenProperties
<1>7. ASSUME Head(ring') = start PROVE state[current] = "RUNNING"
  <2>1. \A j \in 1 .. Len(ring') : state[ring'[j]] # "READY"
    BY <1>2, <1>3, <1>5, <1>6, <1>7
  <2>2. \A t \in Threads : Queued(t) => state[t] # "READY"
    BY <1>2, <2>1 DEF Queued
  <2> QED
    BY <2>2, NobodyReady
<1>8. sched' \in {"scan", "off"} /\ (sched' = "off" => state[current] = "RUNNING")
  BY <1>1, <1>2, <1>7 DEF NextRound
<1>9. TypeOK'
  BY <1>1, <1>2, <1>8 DEF IInv, TypeOK, SchedStates
<1>10. InvKernel'
  BY <1>1 DEF IInv, InvKernel, OneRunner, Live
<1>11. InvSleep' /\ InvRun'
  BY <1>1, <1>8 DEF IInv, InvSleep, InvRun
<1>12. NoneLost'
  BY <1>1, <1>2 DEF IInv, NoneLost, Live
<1>13. InvScan'
  <2>1. \A k \in 2 .. Len(ring') : k \in 1 .. Len(ring')
    BY <1>6
  <2>2. \A k \in 2 .. Len(ring') : ring'[k] = start' =>
          \A j \in k .. Len(ring') : state'[ring'[j]] # "READY"
    BY <1>1, <1>5, <2>1
  <2> QED
    BY <1>2, <2>2, Zenon DEF InvScan
<1>14. NeverStranded'
  BY <1>8 DEF NeverStranded
<1> QED
  BY <1>9, <1>10, <1>11, <1>12, <1>13, <1>14 DEF IInv

(* Unlinking and freeing a dead thread keeps the invariant. *)
LEMMA ReapInv ==
  ASSUME IInv, Reap
  PROVE  IInv'
<1> DEFINE dead == Head(ring)
<1>1. /\ ring # <<>> /\ sched = "scan" /\ ring' = Tail(ring)
      /\ state[dead] = "DEAD" /\ dead # Main /\ dead # current
      /\ state' = [state EXCEPT ![dead] = "freed"]
      /\ sched' = NextRound(ring')
      /\ UNCHANGED <<current, start, waiting, phase>>
  BY DEF IInv, InvScan, Reap, Reapable
<1>2. /\ ring' \in Seq(Threads) /\ Len(ring') = Len(ring) - 1
      /\ \A t \in Threads : Queued(t)' <=> Queued(t) /\ t # dead
      /\ \A i, j \in 1 .. Len(ring') : ring'[i] = ring'[j] => i = j
      /\ \A i \in 1 .. Len(ring') : ring'[i] = ring[i + 1]
  BY <1>1, UnlinkedMembers DEF IInv
<1>3. Len(ring) \in Nat /\ Len(ring) >= 1 /\ dead = ring[1] /\ dead \in Threads
  BY <1>1, RotateLemma DEF IInv, TypeOK
<1>4. dead \in Programs /\ Shell # dead /\ state[Shell] # "none"
  BY <1>1, <1>3 DEF IInv, InvKernel, Threads
<1>5. ring' # <<>> /\ Head(ring') = ring'[1] /\ Len(ring') \in Nat /\ Len(ring') >= 1
  <2>1. Shell \in Threads /\ Queued(Shell)
    BY <1>4, ThreadsAssumption DEF IInv, InvKernel, NoneLost, Live, LiveStates, Threads
  <2>2. Queued(Shell)'
    BY <1>2, <1>4, <2>1
  <2>3. PICK i \in 1 .. Len(ring') : ring'[i] = Shell
    BY <2>2 DEF Queued
  <2> QED
    BY <1>2, <2>3, EmptySeq, LenProperties
<1>6. \A t \in Threads : t # dead => state'[t] = state[t]
  BY <1>1
<1>7. state'[dead] = "freed"
  BY <1>1, <1>3 DEF IInv, TypeOK
<1>8. \A i \in 1 .. Len(ring') : ring'[i] \in Threads /\ ring'[i] # dead
  BY <1>2, <1>3, ElementOfSeq DEF IInv, NoneLost
<1>9. \A k \in 1 .. Len(ring') : ring'[k] = start =>
        \A j \in k .. Len(ring') : state[ring'[j]] # "READY"
  <2> SUFFICES ASSUME NEW k \in 1 .. Len(ring'), ring'[k] = start,
                      NEW j \in k .. Len(ring')
               PROVE  state[ring'[j]] # "READY"
    OBVIOUS
  <2>1. /\ k + 1 \in 2 .. Len(ring) /\ j + 1 \in (k + 1) .. Len(ring) /\ j \in 1 .. Len(ring')
    BY <1>2, <1>3
  <2>2. ring[k + 1] = start /\ ring'[j] = ring[j + 1]
    BY <1>2, <2>1
  <2> QED
    BY <1>1, <2>1, <2>2 DEF IInv, InvScan
<1>10. ASSUME Head(ring') = start PROVE state[current] = "RUNNING"
  <2>1. \A j \in 1 .. Len(ring') : state[ring'[j]] # "READY"
    BY <1>5, <1>9, <1>10
  <2>2. ASSUME NEW t \in Threads, Queued(t) PROVE state[t] # "READY"
    <3>1. CASE t = dead
      BY <1>1, <3>1
    <3>2. CASE t # dead
      BY <1>2, <2>1, <2>2, <3>2 DEF Queued
    <3> QED
      BY <3>1, <3>2
  <2> QED
    BY <2>2, NobodyReady
<1>11. sched' \in {"scan", "off"} /\ (sched' = "off" => state[current] = "RUNNING")
  BY <1>1, <1>5, <1>10 DEF NextRound
<1>12. TypeOK'
  BY <1>1, <1>2, <1>11 DEF IInv, TypeOK, SchedStates
<1>13. InvKernel'
  BY <1>1, <1>3, <1>4, <1>6, <1>7, ThreadsAssumption
  DEF IInv, TypeOK, InvKernel, OneRunner, Live, LiveStates, Threads
<1>14. InvSleep' /\ InvRun'
  BY <1>1, <1>6, <1>11 DEF IInv, TypeOK, InvSleep, InvRun, Awake, Threads
<1>15. NoneLost'
  <2>1. \A t \in Threads : Live(t)' <=> Live(t) /\ t # dead
    BY <1>1, <1>6, <1>7 DEF Live, LiveStates
  <2>2. \A t \in Threads : Queued(t)' <=> t # Main /\ Live(t)'
    BY <1>1, <1>2, <2>1 DEF IInv, NoneLost
  <2> QED
    BY <1>2, <2>2, Zenon DEF NoneLost
<1>16. InvScan'
  <2>1. \A k \in 2 .. Len(ring') : k \in 1 .. Len(ring')
    BY <1>5
  <2>2. \A k \in 2 .. Len(ring') : ring'[k] = start' =>
          \A j \in k .. Len(ring') : state'[ring'[j]] # "READY"
    <3> SUFFICES ASSUME NEW k \in 2 .. Len(ring'), ring'[k] = start,
                        NEW j \in k .. Len(ring')
                 PROVE  state'[ring'[j]] # "READY"
      BY <1>1
    <3>1. j \in 1 .. Len(ring') /\ state[ring'[j]] # "READY"
      BY <1>9, <2>1, <1>5
    <3> QED
      BY <1>6, <1>8, <3>1
  <2> QED
    BY <1>5, <2>2, Zenon DEF InvScan
<1>17. NeverStranded'
  BY <1>11 DEF NeverStranded
<1> QED
  BY <1>12, <1>13, <1>14, <1>15, <1>16, <1>17 DEF IInv

(* Every step of the scheduler keeps the invariant. *)
LEMMA StepInv == IInv /\ [Next]_vars => IInv'
<1> SUFFICES ASSUME IInv, [Next]_vars PROVE IInv'
  OBVIOUS
<1>1. CASE Hang \/ UNCHANGED vars
  BY <1>1 DEF Hang, vars, IInv, TypeOK, InvKernel, InvSleep, InvRun, NoneLost, InvScan, NeverStranded,
              OneRunner, Queued, Live
<1> QED
  BY <1>1, StartInv, SleepInv, SwitchInv, AdvanceInv, ReapInv DEF Next, Scan

(* IInv holds throughout every execution of the scheduler. *)
THEOREM Invariance == Spec => []IInv
  BY InitInv, StepInv, PTL DEF Spec

(* The variables of the scheduler keep their types. *)
THEOREM TypeCorrect == Spec => []TypeOK
<1>1. IInv => TypeOK
  BY DEF IInv
<1> QED
  BY <1>1, Invariance, PTL

(* At most one thread is RUNNING and it is current_thread (scheduler.c 119-126). *)
THEOREM OneRunnerHolds == Spec => []OneRunner
<1>1. IInv => OneRunner
  BY DEF IInv, InvKernel
<1> QED
  BY <1>1, Invariance, PTL

(* schedule() loses no live thread and lists none twice (scheduler.c 24-38, 60-120). *)
THEOREM NoneLostHolds == Spec => []NoneLost
<1>1. IInv => NoneLost
  BY DEF IInv
<1> QED
  BY <1>1, Invariance, PTL

(* Neither "No runnable threads!" nor a scan ending on a freed node is reached
   while the shell neither blocks nor exits (scheduler.c 94-117). *)
THEOREM NeverStrandedHolds == Spec => []NeverStranded
<1>1. IInv => NeverStranded
  BY DEF IInv
<1> QED
  BY <1>1, Invariance, PTL

(* No pointer to a thread outlives it: current_thread, next, waiting_thread
   (scheduler.c 78-92, socket.c 44-47 and 197-200). *)
THEOREM NoDanglingHolds == Spec => []NoDangling
<1>1. IInv => NoDangling
  <2> SUFFICES ASSUME IInv PROVE NoDangling
    OBVIOUS
  <2>1. Live(current)
    BY DEF IInv, InvKernel
  <2>2. ASSUME NEW i \in 1 .. Len(ring) PROVE Live(ring[i])
    BY ElementOfSeq DEF IInv, TypeOK, NoneLost, Queued
  <2>3. \A t \in waiting : state[t] \in {"RUNNING", "READY", "BLOCKED"}
    BY DEF IInv, InvSleep, Awake
  <2> QED
    BY <2>1, <2>2, <2>3 DEF NoDangling
<1> QED
  BY <1>1, Invariance, PTL

----------------------------------------------------------------------------
(* Every step of the scheduler is a step of the abstract processor or leaves
   the states and the owner of the processor alone. *)
LEMMA StepSimulates == IInv /\ [Next]_vars => [CPU!Next]_<<state, current>>
<1> SUFFICES ASSUME IInv, Next PROVE [CPU!Next]_<<state, current>>
  BY DEF vars
<1> USE DEF CPU!Next, CPU!Threads, Threads
<1>1. ring # <<>> /\ sched = "scan" =>
        /\ Head(ring) \in Threads /\ Head(ring) # Main
  <2>1. ASSUME ring # <<>> PROVE Head(ring) \in Threads /\ Head(ring) = ring[1] /\ 1 \in 1 .. Len(ring)
    BY <2>1, RotateLemma DEF IInv, TypeOK
  <2> QED
    BY <2>1 DEF IInv, NoneLost, Queued
<1>2. sched = "scan" => ring # <<>>
  BY DEF IInv, InvScan
<1>3. CASE CreateShell
  BY <1>3, ThreadsAssumption DEF CreateShell, thread_create, AddThread, CPU!Start, IInv, InvKernel
<1>4. CASE MainReturns \/ Hang \/ Preempt \/ Register \/ Sleep \/ Resume
  BY <1>4 DEF MainReturns, Hang, vars, Preempt, Register, Sleep, Resume, EnterSchedule
<1>5. ASSUME NEW p \in Programs, CreateProgram(p) PROVE CPU!Next
  BY <1>5 DEF CreateProgram, AddThread, CPU!Start
<1>6. CASE Exit
  <2>1. state[current] = "RUNNING"
    BY <1>6 DEF Exit, IInv, InvRun
  <2> QED
    BY <1>6, <2>1 DEF Exit, EnterSchedule, CPU!Exit
<1>7. CASE MarkBlocked
  BY <1>7 DEF MarkBlocked, CPU!Block, IInv, InvSleep, InvRun, TypeOK, Awake
<1>8. ASSUME NEW t \in Programs, Wake(t) PROVE CPU!Next
  BY <1>8 DEF Wake, CPU!Wake, IInv, InvSleep, Awake
<1>9. CASE Switch
  BY <1>1, <1>2, <1>9 DEF Switch, CPU!Give
<1>10. CASE Reap
  <2>1. Head(ring) \in Programs
    BY <1>1, <1>2, <1>10 DEF Reap, Reapable, IInv, InvKernel
  <2> QED
    BY <1>10, <2>1 DEF Reap, Reapable, CPU!Release
<1>11. CASE Advance
  BY <1>11 DEF Advance
<1> QED
  BY <1>3, <1>4, <1>5, <1>6, <1>7, <1>8, <1>9, <1>10, <1>11 DEF Next, Scan

(* The list, the scan and the sleep protocol implement the abstract processor:
   only READY threads get it, exited ones never, and a thread_t is released
   only after the processor has left it (scheduler.c 43-137). *)
THEOREM Refinement == Spec => ProcessorSpec
<1>1. Init => CPU!Init
  BY DEF Init, CPU!Init, Threads, CPU!Threads
<1> QED
  BY <1>1, Invariance, StepSimulates, PTL DEF Spec, ProcessorSpec, CPU!Spec, CPU!pvars

(* An exited thread stays dead until it is freed, off the processor. *)
THEOREM DeadStaysDeadHolds == Spec => DeadStaysDead
<1> DEFINE A == \A t \in Threads :
       /\ state[t] = "DEAD" => state'[t] \in {"DEAD", "freed"}
       /\ state[t] # "freed" /\ state'[t] = "freed" => t \notin {current, current'}
<1>1. IInv /\ [Next]_vars => [A]_vars
  <2> SUFFICES ASSUME IInv, [CPU!Next]_<<state, current>> PROVE A
    BY StepSimulates
  <2> QED
    BY DEF IInv, TypeOK, CPU!Next, CPU!Start, CPU!Give, CPU!Block, CPU!Wake, CPU!Exit, CPU!Release,
           CPU!Threads, Threads
<1> QED
  BY <1>1, Invariance, PTL DEF Spec, DeadStaysDead
=============================================================================
