---------------------------- MODULE AddressSpace ----------------------------
(***************************************************************************)
(* The life of an address space of KyroOS: elf_exec_as_thread of the shell *)
(* (elf.c) creates it (vmm.c), maps the image and the user stack           *)
(* (thread.c), and the reaper of schedule() destroys it.  Pages come from  *)
(* the page allocator.                                                     *)
(*                                                                         *)
(* A virtual page is the tuple of its four table indexes.  A space is a    *)
(* function on index tuples: <<>> is the PML4, a tuple of 1, 2 or 3        *)
(* indexes a PDPT, PD or PT, and a tuple of 4 a mapped page.  It belongs   *)
(* to the physical page of its PML4.                                       *)
(***************************************************************************)
EXTENDS Naturals, Sequences, FiniteSets, SequencesExt, TLC

CONSTANTS Programs,
          Pages,      \* physical pages the allocator may give; page 0 is reserved
          Images,     \* the virtual pages of a program's segments, in load order
          StackPages, \* the virtual pages of the user stack, in order
          PageSize,
          Arguments,  \* the lengths of the argument strings of a command
          Screen,     \* the virtual pages of the framebuffer in a program, in order
          Frames      \* the physical pages of the framebuffer, in the same order

\* What the constants are.
SpaceConstants ==
  /\ Pages \subseteq Nat \ {0} /\ ToSet(Frames) \cap Pages = {} /\ Len(Frames) = Len(Screen)
  /\ PageSize \in Nat \ {0} /\ ToSet(Screen) \cap ToSet(StackPages) = {}

VARIABLES used,   \* the pages the allocator has given
          space,  \* space[c]: what the tables below the PML4 in page c map
          cr3,    \* thread->pml4, or the new_pml4 of the call under way
          phase,  \* how far the life of a program is
          todo,   \* virtual pages to map in this phase
          args,   \* the physical pages the arguments of a program were written to
          halted, \* panic
          short   \* history: a PML4 was asked for when no page was free

vars == <<used, space, cr3, phase, todo, args, halted, short>>

Init ==
  /\ used = {}
  /\ space = [c \in Pages \cup {0} |-> <<>>]
  /\ cr3   = [p \in Programs |-> 0]
  /\ phase = [p \in Programs |-> "none"]
  /\ todo  = [p \in Programs |-> <<>>]
  /\ args  = [p \in Programs |-> {}]
  /\ halted = FALSE /\ short = FALSE

Unused  == Pages \ used
Keys(f) == DOMAIN f
(* The allocator gives the lowest free page each time (Pmm). *)
Given(n) ==
  [i \in 1 .. n |-> CHOOSE c \in Unused : Cardinality({d \in Unused : d < c}) = i - 1]

(* The tables on the way to v, top down, and those map_page has to make for a
   sequence of pages. *)
Path(v) == <<SubSeq(v, 1, 1), SubSeq(v, 1, 2), SubSeq(v, 1, 3)>>
Missing(c, vs) ==
  FoldLeft(LAMBDA make, v :
             make \o SelectSeq(Path(v), LAMBDA k : k \notin Keys(space[c]) \cup ToSet(make)),
           <<>>, vs)

(* The walk of the tables: 0 when one of them or the page is not present. *)
vmm_get_phys_addr(f, v) ==
  IF ToSet(Path(v)) \cup {v} \subseteq Keys(f) THEN f[v] ELSE 0

(* The same walk; the entry of the page is cleared, its tables stay. *)
vmm_unmap_page(f, v) ==
  [map  |-> [k \in Keys(f) \ (IF vmm_get_phys_addr(f, v) = 0 THEN {} ELSE {v}) |-> f[k]],
   page |-> vmm_get_phys_addr(f, v)]

(* Page after page; the copy ends silently at one that is not mapped. *)
vmm_memcpy_to_userspace(f, vs) ==
  LET mapped == {i \in 0 .. Len(vs) : \A j \in 1 .. i : vmm_get_phys_addr(f, vs[j]) # 0}
  IN  {vmm_get_phys_addr(f, vs[j]) : j \in 1 .. CHOOSE i \in mapped : \A k \in mapped : k <= i}

(* The shell execs one program at a time; programs are then threads of their own. *)
ShellBusy == \E p \in Programs : phase[p] \in {"loading", "stack"}

(* vmm_create_address_space.  With no page left the NULL of the allocator becomes
   the address of page 0, which is not NULL, and page 0 is taken as the PML4. *)
vmm_create_address_space(p) ==
  LET c == IF Unused = {} THEN 0 ELSE Given(1)[1]
  IN  /\ phase[p] = "none" /\ ~ShellBusy
      /\ cr3'   = [cr3 EXCEPT ![p] = c]
      /\ used'  = used \cup ({c} \ {0})
      /\ space' = [space EXCEPT ![c] = <<>> :> c]
      /\ short' = (short \/ c = 0)
      /\ phase' = [phase EXCEPT ![p] = "loading"]
      /\ \E image \in Images : todo' = [todo EXCEPT ![p] = image]
      /\ UNCHANGED <<args, halted>>

(* A page for v, then one for each table that is made; without one of them: panic. *)
MapWith(c, v, make) ==
  LET n == Len(make)
      f == Given(n + 1)
  IN  IF Cardinality(Unused) <= n
        THEN halted' = TRUE /\ UNCHANGED <<used, space>>
        ELSE /\ used'  = used \cup {f[i] : i \in 1 .. n + 1}
             /\ space' = [space EXCEPT ![c] =
                   (v :> f[1]) @@ [k \in ToSet(make) |-> f[1 + SelectInSeq(make, LAMBDA m : m = k)]] @@ @]
             /\ UNCHANGED halted

(* pmm_alloc_page for v, then vmm_map_page; what v mapped before is lost. *)
vmm_map_page(c, v) == MapWith(c, v, Missing(c, <<v>>))

Step(p) == todo' = [todo EXCEPT ![p] = Tail(@)]

(* elf_load, one page: out of memory is a panic. *)
LoadPage(p) ==
  /\ phase[p] = "loading" /\ todo[p] # <<>>
  /\ vmm_map_page(cr3[p], Head(todo[p]))
  /\ Step(p)
  /\ UNCHANGED <<cr3, phase, args, short>>

(* vmm_destroy_address_space frees the tables and no page they map. *)
Tables(c) == {space[c][k] : k \in {k \in Keys(space[c]) : Len(k) < 4}}

Destroy(c, more) ==
  /\ used'  = used \ (Tables(c) \cup more)
  /\ space' = [space EXCEPT ![c] = <<>>]

(* The header of the file is that of no program: elf_load loads nothing. *)
NoProgram(p) == todo[p] # <<>> /\ Keys(space[cr3[p]]) = {<<>>}

(* That, or an entry point of 0, which is seen after the segments are loaded:
   elf_exec_as_thread destroys the space, and the pages of the segments are lost. *)
BadImage(p) ==
  /\ phase[p] = "loading"
  /\ NoProgram(p) \/ todo[p] = <<>>
  /\ Destroy(cr3[p], {})
  /\ phase' = [phase EXCEPT ![p] = "none"]
  /\ todo'  = [todo EXCEPT ![p] = <<>>]
  /\ UNCHANGED <<cr3, args, halted, short>>

(* thread_create_userspace.  A failed kmalloc of the thread leaves the space. *)
EnterCreate(p) ==
  /\ phase[p] = "loading" /\ todo[p] = <<>>
  /\ \/ phase' = [phase EXCEPT ![p] = "stack"] /\ todo' = [todo EXCEPT ![p] = StackPages]
     \/ phase' = [phase EXCEPT ![p] = "gone"] /\ UNCHANGED todo
  /\ UNCHANGED <<used, space, cr3, args, halted, short>>

(* One page of the stack; without one the space is destroyed, and the stack pages
   mapped so far stay allocated. *)
StackPage(p) ==
  /\ phase[p] = "stack" /\ todo[p] # <<>>
  /\ IF Unused = {}
       THEN /\ Destroy(cr3[p], {})
            /\ phase' = [phase EXCEPT ![p] = "gone"]
            /\ UNCHANGED <<todo, halted>>
       ELSE /\ vmm_map_page(cr3[p], Head(todo[p]))
            /\ Step(p)
            /\ UNCHANGED phase
  /\ UNCHANGED <<cr3, args, short>>

(* The stack is unmapped page by page; the pages it gave are freed. *)
Unmapped(c) ==
  FoldLeft(LAMBDA now, v : LET r == vmm_unmap_page(now.map, v)
                           IN  [map |-> r.map, pages |-> now.pages \cup ({r.page} \ {0})],
           [map |-> space[c], pages |-> {}], StackPages)
Stack(c) == Unmapped(c).pages

(* The strings of the arguments, from the top of the stack downwards, and below them
   their addresses; an address of the stack is its distance from the stack's base. *)
Aligned(a) == (a \div 16) * 16
Lengths(command) == Append(command, 8 * (Len(command) + 1))
Starts(command) ==
  FoldLeft(LAMBDA at, n : Append(at, Aligned((IF at = <<>> THEN Len(StackPages) * PageSize
                                              ELSE Last(at)) - n)),
           <<>>, Lengths(command))
StackRange(a, n) == SubSeq(StackPages, a \div PageSize + 1, (a + n - 1) \div PageSize + 1)
Written(c, command) ==
  UNION {vmm_memcpy_to_userspace(space[c], StackRange(Starts(command)[i], Lengths(command)[i])) :
           i \in 1 .. Len(command) + 1}

(* The kernel stack, and the arguments; without a kernel stack the user stack is
   returned and the space destroyed. *)
FinishCreate(p) ==
  /\ phase[p] = "stack" /\ todo[p] = <<>>
  /\ \/ /\ phase' = [phase EXCEPT ![p] = "alive"]
        /\ \E command \in Arguments : args' = [args EXCEPT ![p] = Written(cr3[p], command)]
        /\ UNCHANGED <<used, space>>
     \/ phase' = [phase EXCEPT ![p] = "gone"] /\ Destroy(cr3[p], Stack(cr3[p])) /\ UNCHANGED args
  /\ UNCHANGED <<cr3, todo, halted, short>>

(* The framebuffer is mapped into the program that asks for it, each time it asks;
   without a page for a table: panic. *)
sys_gfx_get_fb_info(p) ==
  LET c    == cr3[p]
      make == Missing(c, Screen)
      f    == Given(Len(make))
  IN  /\ phase[p] = "alive"
      /\ IF Cardinality(Unused) < Len(make)
           THEN halted' = TRUE /\ UNCHANGED <<used, space>>
           ELSE /\ used'  = used \cup ToSet(f)
                /\ space' = [space EXCEPT ![c] =
                      [v \in ToSet(Screen) |-> Frames[SelectInSeq(Screen, LAMBDA x : x = v)]]
                      @@ [k \in ToSet(make) |-> f[SelectInSeq(make, LAMBDA m : m = k)]] @@ @]
                /\ UNCHANGED halted
      /\ UNCHANGED <<cr3, phase, todo, args, short>>

(* Mutant of Exit: the thread gives its tables back while it still runs on them. *)
ExitFrees(p) ==
  /\ phase[p] = "alive"
  /\ phase' = [phase EXCEPT ![p] = "dead"]
  /\ used'  = used \ Tables(cr3[p])
  /\ UNCHANGED <<space, cr3, todo, args, halted, short>>

(* thread_exit, and later the reaper of schedule(): it unmaps and frees the user
   stack, then destroys the space. *)
Exit(p) ==
  /\ phase[p] = "alive"
  /\ phase' = [phase EXCEPT ![p] = "dead"]
  /\ UNCHANGED <<used, space, cr3, todo, args, halted, short>>

Reap(p) ==
  /\ phase[p] = "dead"
  /\ Destroy(cr3[p], Stack(cr3[p]))
  /\ phase' = [phase EXCEPT ![p] = "gone"]
  /\ args'  = [args EXCEPT ![p] = {}]
  /\ UNCHANGED <<cr3, todo, halted, short>>

Stopped == halted \/ \A p \in Programs : phase[p] = "gone"

Next ==
  \/ /\ ~halted
     /\ \E p \in Programs :
          \/ vmm_create_address_space(p) \/ LoadPage(p) \/ BadImage(p) \/ EnterCreate(p)
          \/ StackPage(p) \/ FinishCreate(p) \/ sys_gfx_get_fb_info(p) \/ Exit(p) \/ Reap(p)
  \/ Stopped /\ UNCHANGED vars

Spec == Init /\ [][Next]_vars

----------------------------------------------------------------------------
Live == {p \in Programs : phase[p] \in {"loading", "stack", "alive", "dead"}}
OwnKeys(p) == Keys(space[cr3[p]]) \ ToSet(Screen)
Refs(p) == {space[cr3[p]][k] : k \in OwnKeys(p)}

TypeOK ==
  /\ used \subseteq Pages
  /\ cr3 \in [Programs -> Pages \cup {0}]
  /\ phase \in [Programs -> {"none", "loading", "stack", "alive", "dead", "gone"}]
  /\ \A c \in Pages \cup {0} : \A k \in Keys(space[c]) :
       Len(k) <= 4 /\ space[c][k] \in Pages \cup ToSet(Frames) \cup {0}
  /\ args \in [Programs -> SUBSET Pages]
  /\ <<halted, short>> \in BOOLEAN \X BOOLEAN

(* A page a space refers to is allocated and referred to once: no table is freed
   while another points to it, none is shared, and no page is mapped that the
   allocator may give again.  The framebuffer is nobody's.  It holds until memory
   runs out in a create. *)
PagesOwnedOnce ==
  ~short => \A p, q \in Live :
     /\ Refs(p) \subseteq used
     /\ p # q => Refs(p) \cap Refs(q) = {}
     /\ \A k, l \in OwnKeys(p) : k # l => space[cr3[p]][k] # space[cr3[p]][l]

(* The kernel wrote the arguments of a program into the pages of its own stack and
   nowhere else, whatever they straddle, and they stay its own until it is reaped. *)
ArgumentsThere ==
  ~short => \A p \in Programs : phase[p] \in {"alive", "dead"} => args[p] # {} /\ args[p] \subseteq Stack(cr3[p])
=============================================================================
