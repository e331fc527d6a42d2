---------------------------- MODULE MCProcessor -----------------------------
(***************************************************************************)
(* The scheduler and what depends on it, for TLC: the interrupt            *)
(* controllers, the mutex and the start of the kernel. `machine' is the one*)
(* a behaviour is about; the others stay as they are initially.            *)
(***************************************************************************)
EXTENDS Scheduler, TLC

CONSTANTS IrqBoot, IrqIdle, IrqPrograms, IrqLines, IrqDepth, LockThreads, LockIdle, LockQueues,
          BootVectors, BootQuotes, BootNested

VARIABLES
  machine,
  i_current, i_state, i_iflag, i_pending, i_master, i_slave, i_frames, i_base, i_waiting,
  l_current, l_state, pc, held, waiters, locked, owner, taken,
  b_env, b_pc, b_up, b_iflag, b_latched, b_early, b_missing, b_outcome, b_frame, b_quotes,
  b_nested

irqVars == <<i_current, i_state, i_iflag, i_pending, i_master, i_slave, i_frames, i_base,
             i_waiting>>
lockVars == <<l_current, l_state, pc, held, waiters, locked, owner, taken>>
bootVars == <<b_env, b_pc, b_up, b_iflag, b_latched, b_early, b_missing, b_outcome, b_frame,
              b_quotes, b_nested>>

\* What the file of quotes may hold.
MCQuotes == {<<>>, <<"x", "newline", "newline", "y">>, <<"newline", "x", "newline">>}

Irq == INSTANCE Interrupts
  WITH Boot <- IrqBoot, Idle <- IrqIdle, Programs <- IrqPrograms, Irqs <- IrqLines,
       MaxDepth <- IrqDepth,
       current <- i_current, state <- i_state, iflag <- i_iflag, pending <- i_pending,
       master <- i_master, slave <- i_slave, frames <- i_frames, base <- i_base,
       waiting <- i_waiting
Lock == INSTANCE Mutex
  WITH Threads <- LockThreads, Idle <- LockIdle, Queues <- LockQueues,
       current <- l_current, state <- l_state
Start == INSTANCE Boot
  WITH Vectors <- BootVectors, Quotes <- BootQuotes, MaxNested <- BootNested,
       env <- b_env, pc <- b_pc, up <- b_up, iflag <- b_iflag,
       latched <- b_latched, early <- b_early, missing <- b_missing, outcome <- b_outcome,
       frame <- b_frame, quotes <- b_quotes, nested <- b_nested

ASSUME MachineConstants ==
  /\ Irq!InterruptsConstants
  /\ Lock!MutexConstants
  /\ Start!BootConstants

others == <<machine, irqVars, lockVars, bootVars>>
all    == <<vars, others>>

MCInit ==
  /\ machine \in {"threads", "irq", "lock", "boot"}
  /\ Init /\ Irq!Init /\ Lock!Init /\ Start!Init
  /\ machine # "boot" => b_env = [screen |-> TRUE, map |-> TRUE, memory |-> "plenty",
                                   card |-> TRUE]

\* A step of one machine; whatever is not one of its variables stays.
ThreadsOnly == UNCHANGED others
IrqOnly == UNCHANGED <<machine, vars, lockVars, bootVars>>
LockOnly == UNCHANGED <<machine, vars, irqVars, bootVars>>
StartOnly == UNCHANGED <<machine, vars, irqVars, lockVars>>

MCNext ==
  \/ machine = "threads" /\ Next /\ ThreadsOnly
  \/ machine = "irq" /\ Irq!Next /\ IrqOnly
  \/ machine = "lock" /\ Lock!Next /\ LockOnly
  \/ machine = "boot" /\ Start!Next /\ StartOnly

MCSpec == MCInit /\ [][MCNext]_all
  \* FairSpec of Scheduler
  /\ WF_all(machine = "threads" /\ Preempt /\ ThreadsOnly)
  /\ WF_all(machine = "threads" /\ Scan /\ ThreadsOnly)
  \* TimerSpec of Interrupts
  /\ WF_all(machine = "irq" /\ Irq!Handle /\ IrqOnly)
  /\ SF_all(machine = "irq" /\ Irq!Accept(0) /\ IrqOnly)

----------------------------------------------------------------------------
\* Types of every machine.
TypesOK ==
  /\ TypeOK
  /\ machine = "irq" => Irq!TypeOK
  /\ machine = "lock" => Lock!TypeOK
  /\ machine = "boot" => Start!TypeOK
\* The end of interrupt and the handlers agree (isr.c, interrupt_asm.asm).
InServiceIsHandled == machine = "irq" => Irq!InServiceIsHandled
\* The timer is never locked out, whatever handler is stuck (isr.c).
TimerServed == Irq!TimerServed
\* No wakeup of a mutex is lost or spent on a thread that does not wait, and of those who
\* found it free one has it (mutex.c, waitqueue.c).
MutexSound == machine = "lock" => Lock!SleepersQueued /\ Lock!OneTaker
\* The start of the kernel needs nothing it has not, and a panic shows its quotes (kernel.c,
\* isr_stubs.asm, panic_screen.c).
BootSound == machine = "boot" => Start!BootSound
=============================================================================
