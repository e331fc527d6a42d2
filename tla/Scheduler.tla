----------------------------- MODULE Scheduler -----------------------------
(***************************************************************************)
(* The round-robin scheduler of the KyroOS kernel (scheduler.c, thread.c,  *)
(* the timer interrupt of isr.c) on its single processor.                  *)
(*                                                                         *)
(* The circular list of threads is the sequence ring: Head(ring) is the    *)
(* node the scan of schedule() looks at (`curr`), the last element is      *)
(* `prev`.  While no scan is in progress Head(ring) is ready_queue->next   *)
(* and the last element is ready_queue, the tail of the queue.             *)
(***************************************************************************)
EXTENDS Naturals, Sequences

CONSTANTS Main,      \* the boot context of kmain_x64, thread id 0
          Shell,     \* the kernel thread that runs shell_main
          Programs   \* the user threads the shell starts

ASSUME ThreadsAssumption == /\ Main # Shell
                            /\ Main \notin Programs
                            /\ Shell \notin Programs

Threads == {Main, Shell} \cup Programs

VARIABLES state,    \* thread_t.state, "none" before kmalloc and "freed" after kfree
          ring,     \* ready_queue and the next pointers, see above
          current,  \* current_thread
          sched,    \* what the processor does about scheduling
          start,    \* start_node of the scan in progress
          waiting,  \* the threads some sock->waiting_thread points to
          phase     \* how far a thread is in the blocking loop of sock_recv

vars == <<state, ring, current, sched, start, waiting, phase>>

(* "off": schedule() is not running.  "scan": its loop is.  "halted": the
   boot context executes cli; hlt for ever.  "panic": the kernel panicked.
   "wild": the loop ended on a node it has just freed. *)
SchedStates == {"off", "scan", "halted", "panic", "wild"}
LiveStates  == {"RUNNING", "READY", "BLOCKED", "DEAD"}
Phases      == {"boot", "run", "registered", "marked", "asleep"}

Queued(t) == \E i \in 1 .. Len(ring) : ring[i] = t

----------------------------------------------------------------------------
(* kmain_x64 runs with an empty queue until it creates the shell. *)
Init ==
  /\ state   = [t \in Threads |-> IF t = Main THEN "RUNNING" ELSE "none"]
  /\ ring    = <<>>
  /\ current = Main
  /\ sched   = "off"
  /\ start   = Main
  /\ waiting = {}
  /\ phase   = [t \in Threads |-> IF t = Main THEN "boot" ELSE "run"]

(* scheduler_add_thread of a new READY thread: it becomes the tail. *)
AddThread(t) ==
  /\ state' = [state EXCEPT ![t] = "READY"]
  /\ ring'  = Append(ring, t)

(* A kernel thread: when kmalloc gives neither the structure nor its stack there is
   none; otherwise it is queued with the frame that thread_switch will return into. *)
thread_create(t) == AddThread(t) \/ UNCHANGED <<state, ring>>

(* kmain_x64 creates the shell, and does not look at the result. *)
CreateShell ==
  /\ sched = "off"
  /\ current = Main
  /\ phase[Main] = "boot"
  /\ phase' = [phase EXCEPT ![Main] = "run"]
  /\ thread_create(Shell)
  /\ UNCHANGED <<current, sched, start, waiting>>

(* kmain_x64 returns to _start, which clears the interrupt flag and halts. *)
MainReturns ==
  /\ sched = "off"
  /\ current = Main
  /\ phase[Main] = "run"
  /\ sched' = "halted"
  /\ UNCHANGED <<state, ring, current, start, waiting, phase>>

(* The loop `cli; hlt; jmp hang` of _start. *)
Hang ==
  /\ sched = "halted"
  /\ UNCHANGED vars

(* The shell starts a program: thread_create_userspace, with interrupts off. *)
CreateProgram(p) ==
  /\ sched = "off"
  /\ current = Shell
  /\ state[p] = "none"
  /\ AddThread(p)
  /\ UNCHANGED <<current, sched, start, waiting, phase>>

----------------------------------------------------------------------------
(* The entry of schedule(): with an empty queue it returns at once. *)
EnterSchedule ==
  /\ IF ring = <<>>
       THEN UNCHANGED <<sched, start>>
       ELSE sched' = "scan" /\ start' = Head(ring)
  /\ UNCHANGED <<ring, current>>

(* The timer interrupt preempts the current thread, or e1000_send gives the
   processor up while its descriptor is busy. *)
Preempt ==
  /\ sched = "off"
  /\ EnterSchedule
  /\ UNCHANGED <<state, waiting, phase>>

(* Mutant of Exit: a thread may exit while a socket still points to it. *)
ExitWhileWaiting ==
  /\ sched = "off"
  /\ current \in Programs
  /\ state' = [state EXCEPT ![current] = "DEAD"]
  /\ EnterSchedule
  /\ UNCHANGED <<waiting, phase>>

(* thread_exit of a program. *)
Exit ==
  /\ sched = "off"
  /\ current \in Programs
  /\ phase[current] = "run"
  /\ state' = [state EXCEPT ![current] = "DEAD"]
  /\ EnterSchedule
  /\ UNCHANGED <<waiting, phase>>

(* Mutant of Register: the shell, too, may wait for a packet. *)
RegisterShell ==
  /\ sched = "off"
  /\ current # Main
  /\ phase[current] = "run"
  /\ waiting' = waiting \cup {current}
  /\ phase' = [phase EXCEPT ![current] = "registered"]
  /\ UNCHANGED <<state, ring, current, sched, start>>

(* Mutant of MarkBlocked: the state is set to something schedule() does not know. *)
MarkUnknown ==
  /\ sched = "off"
  /\ phase[current] = "registered"
  /\ state' = [state EXCEPT ![current] = "ASLEEP"]
  /\ phase' = [phase EXCEPT ![current] = "marked"]
  /\ UNCHANGED <<ring, current, sched, start, waiting>>

(* The blocking loop of sock_recv, one statement at a time: the timer and the
   network card may interrupt it between any two of them. *)
Register ==
  /\ sched = "off"
  /\ current \in Programs
  /\ phase[current] = "run"
  /\ waiting' = waiting \cup {current}
  /\ phase' = [phase EXCEPT ![current] = "registered"]
  /\ UNCHANGED <<state, ring, current, sched, start>>

MarkBlocked ==
  /\ sched = "off"
  /\ phase[current] = "registered"
  /\ state' = [state EXCEPT ![current] = "BLOCKED"]
  /\ phase' = [phase EXCEPT ![current] = "marked"]
  /\ UNCHANGED <<ring, current, sched, start, waiting>>

Sleep ==
  /\ sched = "off"
  /\ phase[current] = "marked"
  /\ phase' = [phase EXCEPT ![current] = "asleep"]
  /\ EnterSchedule
  /\ UNCHANGED <<state, waiting>>

Resume ==
  /\ sched = "off"
  /\ phase[current] = "asleep"
  /\ waiting' = waiting \ {current}
  /\ phase' = [phase EXCEPT ![current] = "run"]
  /\ UNCHANGED <<state, ring, current, sched, start>>

(* The receive interrupt makes the thread a socket points to READY. *)
Wake(t) ==
  /\ sched = "off"
  /\ t \in waiting
  /\ state' = [state EXCEPT ![t] = "READY"]
  /\ waiting' = waiting \ {t}
  /\ UNCHANGED <<ring, current, sched, start, phase>>

----------------------------------------------------------------------------
(* What follows the scan once the list is `rest`, whose head is the new
   `curr`: go round, or end the loop and decide without a READY thread. *)
NextRound(rest) ==
  IF rest = <<>>            THEN "wild"
  ELSE IF Head(rest) # start THEN "scan"
  ELSE IF state[current] = "RUNNING" THEN "off"
  ELSE "panic"

Reapable(t) == state[t] = "DEAD" /\ t # Main /\ t # current

(* Mutant of Switch: the old thread is not made READY again. *)
SwitchNoDemote ==
  /\ sched = "scan"
  /\ state[Head(ring)] = "READY"
  /\ state' = [state EXCEPT ![Head(ring)] = "RUNNING"]
  /\ current' = Head(ring)
  /\ ring' = Append(Tail(ring), Head(ring))
  /\ sched' = "off"
  /\ UNCHANGED <<start, waiting, phase>>

(* Mutant of Switch: the thread that gets the processor leaves the list. *)
SwitchUnlinks ==
  /\ sched = "scan"
  /\ state[Head(ring)] = "READY"
  /\ state' = [state EXCEPT ![current]    = IF @ = "RUNNING" THEN "READY" ELSE @,
                            ![Head(ring)] = "RUNNING"]
  /\ current' = Head(ring)
  /\ ring' = Tail(ring)
  /\ sched' = "off"
  /\ UNCHANGED <<start, waiting, phase>>

(* A READY thread ends the scan and gets the processor; it becomes the tail. *)
Switch ==
  /\ sched = "scan"
  /\ state[Head(ring)] = "READY"
  /\ state' = [state EXCEPT ![current]    = IF @ = "RUNNING" THEN "READY" ELSE @,
                            ![Head(ring)] = "RUNNING"]
  /\ current' = Head(ring)
  /\ ring' = Append(Tail(ring), Head(ring))
  /\ sched' = "off"
  /\ UNCHANGED <<start, waiting, phase>>

(* A DEAD thread is unlinked and its stacks, tables and thread_t are freed. *)
Reap ==
  /\ sched = "scan"
  /\ Reapable(Head(ring))
  /\ state' = [state EXCEPT ![Head(ring)] = "freed"]
  /\ ring' = Tail(ring)
  /\ sched' = NextRound(Tail(ring))
  /\ UNCHANGED <<current, start, waiting, phase>>

(* Mutant of Advance: the scan gives up at the first thread that is not READY. *)
AdvanceGivesUp ==
  /\ sched = "scan"
  /\ state[Head(ring)] # "READY"
  /\ ~Reapable(Head(ring))
  /\ sched' = IF state[current] = "RUNNING" THEN "off" ELSE "panic"
  /\ UNCHANGED <<state, ring, current, start, waiting, phase>>

(* Any other thread is passed over. *)
Advance ==
  /\ sched = "scan"
  /\ state[Head(ring)] # "READY"
  /\ ~Reapable(Head(ring))
  /\ ring' = Append(Tail(ring), Head(ring))
  /\ sched' = NextRound(Append(Tail(ring), Head(ring)))
  /\ UNCHANGED <<state, current, start, waiting, phase>>

Scan == Switch \/ Reap \/ Advance

Next ==
  \/ CreateShell \/ MainReturns \/ Hang
  \/ \E p \in Programs : CreateProgram(p)
  \/ Preempt \/ Exit
  \/ Register \/ MarkBlocked \/ Sleep \/ Resume
  \/ \E t \in Programs : Wake(t)
  \/ Scan

Spec == Init /\ [][Next]_vars

(* The timer fires at 100 Hz whenever interrupts are on, and the loop of
   schedule() runs without anything to wait for. *)
FairSpec == Spec /\ WF_vars(Preempt) /\ WF_vars(Scan)

----------------------------------------------------------------------------
TypeOK ==
  /\ state   \in [Threads -> LiveStates \cup {"none", "freed"}]
  /\ ring    \in Seq(Threads)
  /\ current \in Threads
  /\ sched   \in SchedStates
  /\ start   \in Threads
  /\ waiting \in SUBSET Threads
  /\ phase   \in [Threads -> Phases]

Live(t) == state[t] \in LiveStates

(* At most one thread believes it owns the processor, and it is current_thread:
   schedule() demotes the old thread whenever it promotes another. *)
OneRunner == \A t \in Threads : state[t] = "RUNNING" => t = current

(* No reference outlives its thread: current_thread, the next pointers and the
   waiting_thread pointers of sockets never lead to a thread_t that was freed,
   and no waker can find a thread that has exited. *)
NoDangling ==
  /\ Live(current)
  /\ \A i \in 1 .. Len(ring) : Live(ring[i])
  /\ \A t \in waiting : state[t] \in {"RUNNING", "READY", "BLOCKED"}

(* The list holds every thread but the boot context once, whatever the scan
   has unlinked or rotated: no live thread is lost and none is listed twice. *)
NoneLost ==
  /\ \A t \in Threads : Queued(t) <=> (t # Main /\ Live(t))
  /\ \A i, j \in 1 .. Len(ring) : ring[i] = ring[j] => i = j

(* schedule() neither ends its loop on a node it has freed nor panics with
   "No runnable threads!": the shell is always there to run. *)
NeverStranded == sched \notin {"wild", "panic"}

(* An exited thread never runs again, and its memory is released only when
   it is not the thread the processor is on or about to return to. *)
DeadStaysDead ==
  [][\A t \in Threads :
       /\ state[t] = "DEAD" => state'[t] \in {"DEAD", "freed"}
       /\ state[t] # "freed" /\ state'[t] = "freed" => t \notin {current, current'}]_vars

(* Round robin: a queued READY thread gets the processor, unless the boot
   context has already halted the machine. *)
ReadyRuns ==
  \A t \in Threads :
    (Queued(t) /\ state[t] = "READY" /\ t # current) ~> (t = current \/ sched = "halted")

(* A call of schedule() comes back: "If we only have the current thread and
   it's still running, keep it." *)
ScheduleReturns == (sched = "scan") ~> (sched # "scan")

(* The list, its scan and the sleep protocol implement the abstract processor. *)
CPU == INSTANCE Processor WITH owner <- current
ProcessorSpec == CPU!Spec
=============================================================================
