----------------------------- MODULE Interrupts -----------------------------
(***************************************************************************)
(* Interrupt delivery on KyroOS: the two 8259 controllers, the interrupt   *)
(* flag, the handler frames on the stack of each thread (isr_stubs.asm,    *)
(* isr_handler of isr.c), and the places where a handler turns interrupts  *)
(* on again or gives the processor away before it has finished.            *)
(*                                                                         *)
(* cli and sti do not nest: event_push, called by the keyboard handler,    *)
(* returns with interrupts on although the handler was entered with        *)
(* interrupts off, and schedule() always returns with interrupts on: the   *)
(* handler of the network card calls it before its end of interrupt, while *)
(* it waits to send an answer.                                             *)
(***************************************************************************)
EXTENDS Integers, Sequences, SequencesExt, FiniteSets

CONSTANTS Boot,      \* {the boot context} or {}: it is in no list of threads
          Idle,      \* the shell, always ready to run
          Programs,  \* user threads that call recv()
          Irqs,      \* the lines with a device: 0 timer, 1 keyboard, 11 network
          MaxDepth   \* bound: handler frames on one stack

Threads == Boot \cup {Idle} \cup Programs
Timer    == 0
Keyboard == 1
Network  == 11
Cascade  == 2        \* the line of the master the slave controller drives

\* What the constants are.
InterruptsConstants ==
  /\ Idle \notin Boot \cup Programs /\ Boot \cap Programs = {}
  /\ Irqs \subseteq {Timer, Keyboard, Network}
  /\ MaxDepth \in Nat \ {0}

VARIABLES
  current, state,   \* current_thread and thread_t.state
  iflag,            \* the interrupt flag of the processor
  pending,          \* lines raised and not yet taken
  master, slave,    \* in-service registers of the two controllers
  frames,           \* per thread: its unfinished handlers, innermost first
  base,             \* per thread: where it is in sock_recv below those handlers
  waiting           \* per thread: a socket's waiting_thread points to it

picVars == <<pending, master, slave>>
cpuVars == <<current, state>>
vars    == <<cpuVars, iflag, picVars, frames, base, waiting>>

Init ==
  /\ current = IF Boot = {} THEN Idle ELSE CHOOSE b \in Boot : TRUE
  /\ state   = [t \in Threads |-> IF t = current THEN "RUNNING" ELSE "READY"]
  /\ iflag   = TRUE
  /\ pending = {} /\ master = {} /\ slave = {}
  /\ frames  = [t \in Threads |-> <<>>]
  /\ base    = [t \in Threads |-> "user"]
  /\ waiting = [t \in Threads |-> FALSE]

----------------------------------------------------------------------------
(* The controllers and the entry of a handler.                             *)

(* Mutant of Line: the lines of the slave reach the processor on their own. *)
LineFlat(i) == i

Line(i) == IF i >= 8 THEN Cascade ELSE i

(* A line in service holds back itself and every line of lower priority. *)
Unmasked(i) == /\ \A j \in master : Line(i) < j
               /\ i >= 8 => \A j \in slave : i < j

Raise(i) ==
  /\ i \notin pending
  /\ pending' = pending \cup {i}
  /\ UNCHANGED <<cpuVars, iflag, master, slave, frames, base, waiting>>

(* The controller hands over the line of highest priority; the stub is entered
   with interrupts off.  The timer has no handler to call. *)
Accept(i) ==
  /\ iflag
  /\ i \in pending /\ Unmasked(i)
  /\ \A j \in pending : j < i => ~Unmasked(j)
  /\ Len(frames[current]) < MaxDepth
  /\ iflag'   = FALSE
  /\ pending' = pending \ {i}
  /\ master'  = master \cup {Line(i)}
  /\ slave'   = IF i >= 8 THEN slave \cup {i} ELSE slave
  /\ frames'  = [frames EXCEPT ![current] =
                   <<[irq |-> i, at |-> IF i = Timer THEN "eoi" ELSE "handler"]>> \o @]
  /\ UNCHANGED <<cpuVars, base, waiting>>

(* The innermost handler of the current thread is that of line i, at `place`. *)
Top(i, place) ==
  /\ frames[current] # <<>>
  /\ Head(frames[current]) = [irq |-> i, at |-> place]

Advance(place) == frames' = [frames EXCEPT ![current][1].at = place]

----------------------------------------------------------------------------
(* Handlers.                                                               *)

(* keyboard_handler: a modifier key is only noted; any other key is pushed, and
   event_push ends with sti. *)
KeyboardHandler ==
  /\ Top(Keyboard, "handler")
  /\ Advance("eoi")
  /\ iflag' \in BOOLEAN
  /\ UNCHANGED <<cpuVars, picVars, base, waiting>>

(* schedule(): the processor goes to a READY thread of the list, if any, and
   interrupts are on when that thread continues. *)
Reschedule(s) ==
  /\ iflag' = TRUE
  /\ IF \E t \in Threads \ Boot : s[t] = "READY"
       THEN \E u \in Threads \ Boot :
              /\ s[u] = "READY"
              /\ current' = u
              /\ state' = [s EXCEPT ![current] = IF @ = "RUNNING" THEN "READY" ELSE @,
                                    ![u] = "RUNNING"]
       ELSE s[current] = "RUNNING" /\ current' = current /\ state' = s

(* e1000_interrupt_handler takes packet after packet.  A datagram may wake the
   thread waiting for it. *)
NetworkWakes(t) ==
  /\ Top(Network, "handler")
  /\ waiting[t]
  /\ state'   = [state EXCEPT ![t] = "READY"]
  /\ waiting' = [waiting EXCEPT ![t] = FALSE]
  /\ UNCHANGED <<current, iflag, picVars, frames, base>>

(* A packet may be answered (ARP, echo, DHCP): e1000_send_packet calls
   schedule() until its descriptor is free, with line 11 still in service. *)
NetworkSends ==
  /\ Top(Network, "handler")
  /\ Reschedule(state)
  /\ UNCHANGED <<picVars, frames, base, waiting>>

(* No packet is left. *)
NetworkReturns ==
  /\ Top(Network, "handler")
  /\ Advance("eoi")
  /\ UNCHANGED <<cpuVars, iflag, picVars, base, waiting>>

NetworkHandler == NetworkSends \/ NetworkReturns \/ \E t \in Programs : NetworkWakes(t)

Highest(S) == {i \in S : \A j \in S : i <= j}

(* Mutant of Eoi: schedule() is called with the timer still in service. *)
EoiNotForTimer(i) ==
  /\ Top(i, "eoi")
  /\ master' = IF i = Timer THEN master ELSE master \ Highest(master)
  /\ slave'  = IF i >= 8 THEN slave \ Highest(slave) ELSE slave
  /\ Advance(IF i = Timer THEN "schedule" ELSE "iret")
  /\ UNCHANGED <<cpuVars, iflag, pending, base, waiting>>

(* Mutant of Eoi: the slave controller gets no end of interrupt. *)
EoiMasterOnly(i) ==
  /\ Top(i, "eoi")
  /\ master' = master \ Highest(master)
  /\ Advance(IF i = Timer THEN "schedule" ELSE "iret")
  /\ UNCHANGED <<cpuVars, iflag, pending, slave, base, waiting>>

(* The end-of-interrupt command 0x20 names no line: each controller clears
   the line of highest priority it has in service. *)
Eoi(i) ==
  /\ Top(i, "eoi")
  /\ master' = master \ Highest(master)
  /\ slave'  = IF i >= 8 THEN slave \ Highest(slave) ELSE slave
  /\ Advance(IF i = Timer THEN "schedule" ELSE "iret")
  /\ UNCHANGED <<cpuVars, iflag, pending, base, waiting>>

(* The timer's handler gives the processor away after its end of interrupt. *)
TimerSchedules ==
  /\ Top(Timer, "schedule")
  /\ Advance("iret")
  /\ Reschedule(state)
  /\ UNCHANGED <<picVars, base, waiting>>

(* iretq restores the flag of the interrupted code, which had it set. *)
Iret(i) ==
  /\ Top(i, "iret")
  /\ frames' = [frames EXCEPT ![current] = Tail(@)]
  /\ iflag' = TRUE
  /\ UNCHANGED <<cpuVars, picVars, base, waiting>>

----------------------------------------------------------------------------
(* The blocking loop of sock_recv below the handlers: its first round has
   interrupts off, later rounds do not. *)

At(t, place) == current = t /\ frames[t] = <<>> /\ base[t] = place

RecvBlocks(t) ==
  /\ At(t, "user")
  /\ base'    = [base EXCEPT ![t] = "asleep"]
  /\ waiting' = [waiting EXCEPT ![t] = TRUE]
  /\ Reschedule([state EXCEPT ![t] = "BLOCKED"])
  /\ UNCHANGED <<picVars, frames>>

Wakes(t) ==
  /\ At(t, "asleep")
  /\ waiting' = [waiting EXCEPT ![t] = FALSE]
  /\ base' \in {[base EXCEPT ![t] = p] : p \in {"user", "register"}}
  /\ UNCHANGED <<cpuVars, iflag, picVars, frames>>

RegistersAgain(t) ==
  /\ At(t, "register")
  /\ waiting' = [waiting EXCEPT ![t] = TRUE]
  /\ base'    = [base EXCEPT ![t] = "mark"]
  /\ UNCHANGED <<cpuVars, iflag, picVars, frames>>

MarksBlocked(t) ==
  /\ At(t, "mark")
  /\ state' = [state EXCEPT ![t] = "BLOCKED"]
  /\ base'  = [base EXCEPT ![t] = "yield"]
  /\ UNCHANGED <<current, iflag, picVars, frames, waiting>>

YieldsAgain(t) ==
  /\ At(t, "yield")
  /\ base' = [base EXCEPT ![t] = "asleep"]
  /\ Reschedule(state)
  /\ UNCHANGED <<picVars, frames, waiting>>

----------------------------------------------------------------------------
Recv(t) == RecvBlocks(t) \/ Wakes(t) \/ RegistersAgain(t) \/ MarksBlocked(t) \/ YieldsAgain(t)

Handle == \/ KeyboardHandler \/ NetworkHandler \/ TimerSchedules
          \/ \E i \in Irqs : Eoi(i) \/ Iret(i)

Next == \/ \E i \in Irqs : Raise(i) \/ Accept(i)
        \/ Handle
        \/ \E t \in Programs : Recv(t)

Spec == Init /\ [][Next]_vars

(* The timer never stops and its interrupt is taken when the flag allows (the
   keyboard in service holds back the other lines); a step that runs with
   interrupts off happens; one that may run with them on happens however often
   it is interrupted, as a tick lasts longer than a few instructions and what
   is sent leaves in the end; every READY thread gets its turn (ReadyRuns of
   Scheduler). *)
FairSpec ==
  /\ Spec
  /\ WF_vars(Raise(Timer)) /\ WF_vars(KeyboardHandler \/ Eoi(Timer))
  /\ SF_vars(Eoi(Keyboard)) /\ SF_vars(Iret(Keyboard)) /\ SF_vars(Iret(Timer))
  /\ SF_vars(NetworkReturns \/ Eoi(Network) \/ Iret(Network))
  /\ SF_vars(Accept(Timer))
  /\ \A t \in Threads : SF_vars(TimerSchedules /\ current' = t)

(* What the timer alone needs: the steps that run with interrupts off, and its
   own interrupt taken sooner or later while they are on. *)
TimerSpec == Spec /\ WF_vars(Handle) /\ SF_vars(Accept(Timer))

----------------------------------------------------------------------------
TypeOK ==
  /\ current \in Threads
  /\ state   \in [Threads -> {"RUNNING", "READY", "BLOCKED"}]
  /\ iflag   \in BOOLEAN
  /\ pending \subseteq Irqs
  /\ master  \subseteq {Timer, Keyboard, Cascade}
  /\ slave   \subseteq {Network}
  /\ base    \in [Threads -> {"user", "asleep", "register", "mark", "yield"}]
  /\ waiting \in [Threads -> BOOLEAN]
  /\ \A t \in Threads : Len(frames[t]) <= MaxDepth

(* The unfinished handlers of line i, on whatever stack, that have not yet
   acknowledged their interrupt. *)
Unacknowledged(i) ==
  {p \in Threads \X (1 .. MaxDepth) :
     LET stack == frames[p[1]]
     IN  /\ p[2] <= Len(stack)
         /\ stack[p[2]].irq = i /\ stack[p[2]].at \in {"handler", "eoi"}}

(* No end of interrupt is lost or sent twice: as many lines are in service as
   handlers, wherever they were preempted, still owe one, although the command
   names no line and so the handler of the network card, preempted while it
   sends, and one of the keyboard may clear each other's.  The timer's line and
   the slave's are never cleared for another. *)
InServiceIsHandled ==
  /\ Cardinality(master) = Cardinality(UNION {Unacknowledged(i) : i \in Irqs})
  /\ Cardinality(Unacknowledged(Timer)) = IF Timer \in master THEN 1 ELSE 0
  /\ Cardinality(Unacknowledged(Network)) = IF Network \in slave THEN 1 ELSE 0

(* The timer is never locked out, whatever handler or thread is stuck: the
   interrupt it raises is taken, so preemption goes on. *)
TimerServed == (Timer \in pending) ~> (Timer \notin pending)

(* "After the C handler completes its work, control returns to the assembly
   stub": a line that is in service is released, so the device can interrupt again. *)
KeyboardReleased == (Keyboard \in master) ~> (Keyboard \notin master)
=============================================================================
