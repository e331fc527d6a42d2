-------------------------------- MODULE Boot --------------------------------
(***************************************************************************)
(* The start of the machine: kmain_x64 (kernel.c) step by step with what   *)
(* the loader gave it, the tables of the processor (gdt.c, tss.c, idt.c),  *)
(* the entry of an interrupt (isr_stubs.asm), exceptions (isr.c) and the   *)
(* panic screen (log.c, panic.c, panic_screen.c).  What a step does to its *)
(* own component is modelled in the module of the component.               *)
(***************************************************************************)
EXTENDS Integers, Sequences, SequencesExt

CONSTANTS Vectors,  \* the interrupts and exceptions that happen
          Quotes,   \* what /panic_quotes.txt may hold: letters and "newline"
          MaxNested \* bound: exceptions of the panic screen until the stack is used up

BootConstants == Vectors \subseteq 0 .. 255 /\ Quotes \subseteq Seq(STRING) /\ MaxNested \in Nat

VARIABLES env,      \* what there is: a display, a memory map, how much memory, a network card
          pc,       \* the step of kmain_x64
          up,       \* the components that were started
          iflag,    \* the interrupt flag
          latched,  \* the timer has ticked and was not served
          early,    \* history: it had when interrupts first went on
          missing,  \* history: what a step of kmain_x64 used that was not there
          outcome,  \* "boot", "shell", "no screen", "hang", "reset", "drawing", "panic", "dark"
          frame,    \* what isr_handler is given: the stack of the last exception
          quotes,   \* what panic_quotes points to
          nested    \* exceptions of the panic screen itself

bootVars == <<env, pc, up, iflag, latched, early, missing, outcome, frame, quotes, nested>>

Steps == <<"log", "fb check", "fb", "clear", "pmm", "heap", "vmm", "backbuffer", "threads",
           "gdt", "idt", "tss", "keyboard", "timer", "vfs", "kyrofs", "tty", "fs_disk",
           "panic_screen", "modules", "deviceman", "ide", "amdgpu", "net", "e1000", "ip",
           "arp", "udp", "tcp", "dhcp", "pci", "probe", "dhcp start", "shell", "sti", "return">>

\* Mutated form of Order: interrupts are on before there is a thread to switch to.
OrderSti == [Steps EXCEPT ![34] = "sti", ![35] = "shell"]

Order == Steps
step  == Order[pc]

\* The steps inside the test of memmap_request.response.
OfMemory == {"pmm", "heap", "vmm", "backbuffer", "threads"}

\* What a step uses: kmalloc needs the list heap_init makes and threads a current thread;
\* deviceman_init and net_init forget what was registered before them.  Once a card was attached
\* its driver has sent the first request itself; without one dhcp_send_discover reads its address.
Needs(s) ==
  CASE s \in {"clear", "backbuffer"} -> {"fb"} \cup (IF s = "clear" THEN {} ELSE {"heap"})
    [] s = "heap"    -> {"pmm"}
    [] s = "threads" -> {"heap", "vmm"}
    [] s = "tss"     -> {"gdt"}
    [] s = "kyrofs"  -> {"heap"}
    [] s \in {"tty", "panic_screen", "modules"} -> {"kyrofs"}
    [] s \in {"ide", "amdgpu", "e1000"} -> {"deviceman"}
    [] s = "pci"     -> {"heap", "deviceman"}
    [] s = "probe"   -> {"heap", "pci", "ide", "amdgpu", "e1000", "net", "idt"}
    [] s = "dhcp start" -> {"card", "udp", "ip", "arp"}
    [] s = "shell"   -> {"heap", "threads"}
    [] s = "sti"     -> {"idt", "tss", "gdt", "keyboard"}
    [] OTHER         -> {}

Init == /\ env \in [screen : BOOLEAN, map : BOOLEAN, memory : {"plenty", "small", "none"},
                    card : BOOLEAN]
        /\ pc = 1 /\ up = {} /\ iflag = FALSE /\ latched = FALSE /\ early = FALSE
        /\ missing = {} /\ outcome = "boot" /\ frame = <<>> /\ quotes = {} /\ nested = 0

----------------------------------------------------------------------------
(* The tables and the entry of an interrupt.                               *)

\* idt_init and pic_remap: the lines of the controllers are 32 .. 47.  A gate that is not
\* set has the privilege of the kernel, too.
Gate(v) == IF v < 48 THEN "kernel" ELSE IF v = 128 THEN "user" ELSE "absent"

\* The processor pushes these, and an error code for some of the exceptions.
Pushed == <<"ss", "rsp", "rflags", "cs", "rip">>
HasErrorCode(v) == v \in {8, 10, 11, 12, 13, 14, 17, 21}

\* ISR_ERR, ISR_NO_ERR and IRQ, then PUSH_REGS.
ErrorStubs == {8, 10, 11, 12, 13, 14, 17, 21}
StubPushes(v) == IF v \in ErrorStubs THEN <<"int_no">> ELSE <<"err_code", "int_no">>
PUSH_REGS == <<"r15", "r14", "r13", "r12", "r11", "r10", "r9", "r8", "rbp", "rdi", "rsi", "rdx",
               "rcx", "rbx", "rax">>
FrameOf(v) == Reverse(Pushed \o (IF HasErrorCode(v) THEN <<"err_code">> ELSE <<>>)
                      \o StubPushes(v) \o PUSH_REGS)

\* struct registers of isr.h.
registers == <<"rax", "rbx", "rcx", "rdx", "rsi", "rdi", "rbp", "r8", "r9", "r10", "r11", "r12",
               "r13", "r14", "r15", "int_no", "err_code", "rip", "cs", "rflags", "rsp", "ss">>

\* int n of a program: without the privilege of the gate it is a protection fault.
SoftwareVector(v) == IF Gate(v) = "user" THEN v ELSE 13

----------------------------------------------------------------------------
(* A panic.                                                                *)

\* panic(): the screen is drawn, the stack trace last but one, and shown; then cli; hlt.
panic == /\ outcome' = "drawing" /\ iflag' = FALSE
         /\ UNCHANGED <<env, pc, up, latched, early, quotes>>

\* isr_handler of an exception.  Before idt_init the machine starts again.
Exception(v) ==
  IF "idt" \in up THEN panic /\ frame' = FrameOf(v)
  ELSE /\ outcome' = "reset" /\ UNCHANGED <<env, pc, up, iflag, latched, early, frame, quotes>>

\* What was drawn is flushed and the processor stops.  Without a back buffer nothing is drawn.
panic_screen_show ==
  /\ outcome = "drawing"
  /\ outcome' = IF "backbuffer" \in up THEN "panic" ELSE "dark"
  /\ UNCHANGED <<env, pc, up, iflag, latched, early, missing, frame, quotes, nested>>

\* print_stack_trace follows rbp, which holds anything (the kernel and the programs are built
\* without frame pointers), so that it may fault before anything is shown.
print_stack_trace ==
  /\ outcome = "drawing" /\ frame # <<>> /\ nested < MaxNested
  /\ Exception(14) /\ nested' = nested + 1 /\ UNCHANGED missing

\* The characters from a up to b are a line; the last one need not be ended by a newline.
Line(s, a, b) == /\ a <= b /\ \A j \in a .. b - 1 : s[j] # "newline"
                 /\ a = 1 \/ s[a - 1] = "newline"
                 /\ b = Len(s) + 1 \/ s[b] = "newline"

\* panic_screen_init: the lines that begin in the first k characters.  kmalloc may fail for one.
Lines(s, k) == {SubSeq(s, l[1], l[2] - 1) :
                  l \in {r \in (1 .. k) \X (1 .. Len(s) + 1) : Line(s, r[1], r[2])}}

\* The quotes it may leave.  st_size is what stat gave, or anything for a file of the RAM file
\* system; a read of fewer characters is an error.
panic_screen_init(content, st_size) ==
  IF st_size > Len(content) THEN {{}}
  ELSE {Lines(SubSeq(content, 1, st_size), k) : k \in 0 .. st_size}

\* trigger_kernel_panic, with the file as it is then; the random generator was not started
\* before its first number, any quote may be chosen.
trigger_kernel_panic(content, st_size) ==
  /\ outcome = "shell"
  /\ outcome' = "drawing" /\ iflag' = FALSE /\ frame' = <<>>
  /\ quotes' \in panic_screen_init(content, st_size)
  /\ UNCHANGED <<env, pc, up, latched, early, missing, nested>>

----------------------------------------------------------------------------
(* kmain_x64.                                                              *)
Goto(s) == /\ pc' = pc + 1 /\ up' = up \cup s
           /\ UNCHANGED <<env, latched, missing, outcome, frame, quotes, nested>>

\* Interrupts go on.
TurnsOn == iflag' = TRUE /\ early' = IF iflag THEN early ELSE latched

\* What is skipped without a memory map, and what uses what is not there.
Skipped == step \in OfMemory /\ ~env.map
Missing == ~Skipped /\ ~(Needs(step) \subseteq up)

\* The steps that do not always leave their component started.
NoScreen == step = "fb check" /\ ~env.screen
NoBitmap == step = "pmm" /\ env.memory = "none"
NoBuffer == step = "backbuffer" /\ env.memory = "small"
NoThread == step = "threads" /\ env.memory = "small"

Run ==
  \* There is no room for the bitmap, or none for the first thread.
  \/ /\ NoBitmap \/ NoThread
     /\ panic /\ UNCHANGED <<missing, frame, nested>>
  \/ NoBuffer /\ Goto({}) /\ UNCHANGED <<iflag, early>>
  \* A card that is found and has memory for its rings is attached, and is the network device.
  \/ step = "probe" /\ env.card /\ Goto({"probe", "card"}) /\ UNCHANGED <<iflag, early>>
  \/ /\ step = "probe" /\ (env.card => env.memory = "small")
     /\ Goto({"probe"}) /\ UNCHANGED <<iflag, early>>
  \* thread_create turns interrupts on, also when it finds no memory; its result is not looked at.
  \/ step = "shell" /\ (Goto({"shell"}) \/ Goto({})) /\ TurnsOn
  \/ step = "sti" /\ Goto({"sti"}) /\ TurnsOn
  \* Back in _start: cli; hlt.
  \/ /\ step = "return" /\ outcome' = "hang" /\ iflag' = FALSE
     /\ UNCHANGED <<env, pc, up, latched, early, missing, frame, quotes, nested>>
  \/ /\ ~NoBitmap /\ ~NoBuffer /\ step \notin {"probe", "shell", "sti", "return"}
     /\ Goto({step}) /\ UNCHANGED <<iflag, early>>

kmain_x64 ==
  /\ outcome = "boot" /\ ~(iflag /\ latched)
  /\ \/ NoScreen /\ outcome' = "no screen"
        /\ UNCHANGED <<env, pc, up, iflag, latched, early, missing, frame, quotes, nested>>
     \/ Skipped /\ Goto({}) /\ UNCHANGED <<iflag, early>>
     \/ Missing /\ Exception(14) /\ missing' = Needs(step) \ up /\ UNCHANGED nested
     \/ ~NoScreen /\ ~Skipped /\ ~Missing /\ Run

\* The timer runs on its own; the controllers are programmed by idt_init.
Tick == /\ "idt" \in up /\ ~latched /\ latched' = TRUE
        /\ UNCHANGED <<env, pc, up, iflag, early, missing, outcome, frame, quotes, nested>>

\* schedule(): the boot context is in no list, so once another thread runs it never does.
TakeTick ==
  /\ outcome \in {"boot", "shell"} /\ iflag /\ latched
  /\ latched' = FALSE
  /\ outcome' = IF "shell" \in up THEN "shell" ELSE outcome
  /\ UNCHANGED <<env, pc, up, iflag, early, missing, frame, quotes, nested>>

\* A thread makes an exception, or a program executes int n.
Fault(v) == outcome = "shell" /\ v < 32 /\ Exception(v) /\ UNCHANGED <<missing, nested>>
SoftwareInterrupt(v) ==
  /\ outcome = "shell" /\ SoftwareVector(v) < 32 /\ Exception(SoftwareVector(v))
  /\ UNCHANGED <<missing, nested>>

\* The machine stands still, or runs the shell.
Ended == outcome \notin {"boot", "drawing"} /\ UNCHANGED bootVars

Next == \/ Ended \/ kmain_x64 \/ Tick \/ TakeTick \/ panic_screen_show \/ print_stack_trace
        \/ \E v \in Vectors : Fault(v) \/ SoftwareInterrupt(v)
        \/ \E q \in Quotes, n \in 0 .. 4 : trigger_kernel_panic(q, n)

Spec == Init /\ [][Next]_bootVars

----------------------------------------------------------------------------
TypeOK ==
  /\ pc \in 1 .. Len(Order) /\ up \subseteq {Steps[i] : i \in 1 .. Len(Steps)} \cup {"card"}
  /\ {iflag, latched, early} \subseteq BOOLEAN /\ nested \in 0 .. MaxNested
  /\ outcome \in {"boot", "shell", "no screen", "hang", "reset", "drawing", "panic", "dark"}

\* With a memory map no step uses what is not there but dhcp_client_start, and that one only on a
\* machine whose network card was not attached: there is none, or no memory for its rings.  The
\* machine never starts again by itself (kernel.c:72-249, dhcp.c:77-90, e1000.c:305-392).
InOrder ==
  env.map => /\ outcome # "reset"
             /\ missing # {} => /\ missing = {"card"} /\ step = "dhcp start"
                                /\ env.card => env.memory = "small"

\* The boot context stops the machine only when no tick was waiting as interrupts first went on,
\* or there was no memory for the shell (kernel.c:243-249, thread.c:66-131, boot.asm:35-42).
HangsOnlyUnticked == outcome = "hang" => ~early \/ "shell" \notin up

\* Interrupts are on only with the tables loaded, and off for good after a panic.
OnWhenReady == /\ iflag => {"gdt", "idt", "tss", "keyboard", "kyrofs"} \subseteq up
               /\ outcome \in {"panic", "dark", "drawing", "hang", "no screen"} => ~iflag

\* The stack an exception leaves is the structure the handler reads (isr_stubs.asm, isr.h).
FrameTrue == frame # <<>> => frame = registers

\* The quotes are whole lines of what was read of the file (panic_screen.c:130-217).
QuotesTrue == \A q \in quotes : \A j \in DOMAIN q : q[j] # "newline"

\* A panic that nobody sees is one of a machine without memory for the back buffer
\* (fb.c:44-54).
DarkWithoutMemory == outcome = "dark" => ~env.map \/ env.memory # "plenty"

BootSound == DarkWithoutMemory /\ InOrder /\ HangsOnlyUnticked /\ OnWhenReady /\ FrameTrue /\ QuotesTrue

\* log.c:123: the panic that is shown is the first one (violated: the stack trace faults).
FirstPanicShown == outcome = "panic" => nested = 0
=============================================================================
