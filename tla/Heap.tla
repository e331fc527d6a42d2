-------------------------------- MODULE Heap --------------------------------
(***************************************************************************)
(* The kernel heap of KyroOS (heap.c): a circular list of free blocks in   *)
(* address order, whose headers are part of the blocks.                    *)
(*                                                                         *)
(* Sizes and addresses are in units of a header.  System calls and the     *)
(* reaper call it with interrupts off: these calls are one step each.  The *)
(* shell calls it with interrupts on: between the search of its call and   *)
(* the stores that follow, a system call may change the list.              *)
(***************************************************************************)
EXTENDS Naturals, FiniteSets

CONSTANTS Units,     \* unit addresses 1 .. Units of the memory that may be given to the heap
          MinUnits,  \* the least morecore asks for, 1024 in the code
          PageUnits, \* units of a page, 256 in the code
          Sizes      \* block sizes asked for, header included

\* What the constants are.
HeapConstants ==
  /\ Units \in Nat /\ MinUnits \in Nat \ {0} /\ PageUnits \in Nat \ {0}
  /\ Sizes \subseteq Nat \ {0, 1}

Addr == 1 .. Units
Base == Units + 1   \* the static header `base`: the kernel image is above all of memory
None == 0           \* NULL

VARIABLES heap,     \* the fields next and size of every header, and freelist
          arena,    \* the units morecore has taken from the page allocator
          out,      \* the blocks in use
          job,      \* the call of the shell that is under way
          overlap   \* history: a call came between the two parts of the shell's

vars == <<heap, arena, out, job, overlap>>

Idle == [call |-> "none", at |-> None, block |-> None, arg |-> 0]

(* heap_init *)
Init ==
  /\ heap = [next     |-> [a \in Addr \cup {Base} |-> IF a = Base THEN Base ELSE None],
             size     |-> [a \in Addr \cup {Base} |-> 0],
             freelist |-> Base]
  /\ arena = {} /\ out = {} /\ job = Idle /\ overlap = FALSE

----------------------------------------------------------------------------
(* The node k steps after freelist. *)
Walk(h) ==
  LET walk[k \in 0 .. Units + 2] == IF k = 0 THEN h.freelist ELSE h.next[walk[k - 1]]
  IN  walk

(* Mutant of FindPlace: the wrap from the highest block to the lowest is missed
   for blocks below all others. *)
FindPlaceNoWrap(h, b) ==
  LET w == Walk(h)
      k == CHOOSE i \in 0 .. Units + 1 :
             /\ (b > w[i] /\ b < w[i + 1]) \/ w[i] >= w[i + 1]
             /\ \A j \in 0 .. i - 1 : ~((b > w[j] /\ b < w[j + 1]) \/ w[j] >= w[j + 1])
  IN  w[k]

(* The loop of kfree: the last free block below b, or the end of the list. *)
FindPlace(h, b) ==
  LET w == Walk(h)
      Here(i) == \/ b > w[i] /\ b < w[i + 1]
                 \/ w[i] >= w[i + 1] /\ (b > w[i] \/ b < w[i + 1])
  IN  w[CHOOSE i \in 0 .. Units + 1 : Here(i) /\ \A j \in 0 .. i - 1 : ~Here(j)]

(* Mutant of Link: the lower neighbour is not looked at. *)
LinkUpOnly(h, p, b) ==
  LET up    == b + h.size[b] = h.next[p] /\ h.next[p] # Base
      bsize == IF up THEN h.size[b] + h.size[h.next[p]] ELSE h.size[b]
      bnext == IF up THEN h.next[h.next[p]] ELSE h.next[p]
  IN  [next |-> [h.next EXCEPT ![b] = bnext, ![p] = b],
       size |-> [h.size EXCEPT ![b] = bsize], freelist |-> p]

(* The rest of kfree: b goes behind p and merges with what it touches. *)
Link(h, p, b) ==
  LET up    == b + h.size[b] = h.next[p] /\ h.next[p] # Base
      bsize == IF up THEN h.size[b] + h.size[h.next[p]] ELSE h.size[b]
      bnext == IF up THEN h.next[h.next[p]] ELSE h.next[p]
  IN  IF p # Base /\ p + h.size[p] = b
        THEN [next |-> [h.next EXCEPT ![b] = bnext, ![p] = bnext],
              size |-> [h.size EXCEPT ![b] = bsize, ![p] = @ + bsize], freelist |-> p]
        ELSE [next |-> [h.next EXCEPT ![b] = bnext, ![p] = b],
              size |-> [h.size EXCEPT ![b] = bsize], freelist |-> p]

Free(h, b) == Link(h, FindPlace(h, b), b)

(* The steps of the loop of kmalloc at which a block is big enough; it ends
   when it has come back to freelist. *)
Lap(h)     == CHOOSE k \in 1 .. Units + 1 :
                Walk(h)[k] = h.freelist /\ \A j \in 1 .. k - 1 : Walk(h)[j] # h.freelist
Fits(h, n) == {k \in 1 .. Lap(h) : h.size[Walk(h)[k]] >= n}

(* The block before the first that fits. *)
FindPrev(h, n) == Walk(h)[(CHOOSE k \in Fits(h, n) : \A j \in Fits(h, n) : k <= j) - 1]

(* The rest of kmalloc: the whole block p after prev, or its tail end. *)
Unlink(h, prev, p, n) ==
  IF h.size[p] = n
    THEN [next |-> [h.next EXCEPT ![prev] = h.next[p]], size |-> h.size, freelist |-> prev]
    ELSE [next |-> h.next, freelist |-> prev,
          size |-> [h.size EXCEPT ![p] = @ - n, ![p + h.size[p] - n] = n]]

(* A call of kmalloc that finds a block, and the header it returns. *)
Take(h, n)  == Unlink(h, FindPrev(h, n), h.next[FindPrev(h, n)], n)
Taken(h, n) == LET p == h.next[FindPrev(h, n)] IN p + h.size[p] - n

(* morecore: whole pages from the page allocator, given to kfree. *)
ChunkUnits(n) ==
  LET want == IF n < MinUnits THEN MinUnits ELSE n
  IN  ((want + PageUnits - 1) \div PageUnits) * PageUnits
Chunks(n) == {a \in Addr : /\ a % PageUnits = 1 % PageUnits
                           /\ a + ChunkUnits(n) - 1 <= Units
                           /\ a .. a + ChunkUnits(n) - 1 \cap arena = {}}
Grown(h, a, n) == Free([h EXCEPT !.size[a] = ChunkUnits(n)], a)

(* What an old header holds once it is inside a block is read by nobody, unless
   the shell still has a pointer to it. *)
FreeIn(h) == {Walk(h)[k] : k \in 0 .. Units + 1} \ {Base}
Settled(h, used) ==
  [next |-> [a \in Addr \cup {Base} |-> IF a \in FreeIn(h) \cup {Base} THEN h.next[a] ELSE None],
   size |-> [a \in Addr \cup {Base} |-> IF a \in FreeIn(h) \cup used THEN h.size[a] ELSE 0],
   freelist |-> h.freelist]
Becomes(h, used) ==
  /\ heap' = IF job = Idle THEN Settled(h, used) ELSE h
  /\ out'  = used

----------------------------------------------------------------------------
(* kmalloc, in one step.  Pages may also all be taken by others: NULL. *)
kmalloc(n) ==
  /\ \/ /\ Fits(heap, n) # {}
        /\ Becomes(Take(heap, n), out \cup {Taken(heap, n)})
        /\ UNCHANGED arena
     \/ /\ Fits(heap, n) = {}
        /\ \E a \in Chunks(n) :
             LET h == Grown(heap, a, n) IN
               /\ Becomes(Take(h, n), out \cup {Taken(h, n)})
               /\ arena' = arena \cup a .. a + ChunkUnits(n) - 1
  /\ overlap' = (overlap \/ job # Idle)
  /\ UNCHANGED job

kfree(b) ==
  /\ b \in out
  /\ job.call = "kfree" => job.block # b
  /\ Becomes(Free(heap, b), out \ {b})
  /\ overlap' = (overlap \/ job # Idle)
  /\ UNCHANGED <<arena, job>>

(* krealloc of a block that is too small: a new one, a copy, a free. *)
krealloc(b, n) ==
  /\ b \in out
  /\ job.call = "kfree" => job.block # b
  /\ heap.size[b] < n
  /\ Fits(heap, n) # {}
  /\ Becomes(Free(Take(heap, n), b), (out \ {b}) \cup {Taken(heap, n)})
  /\ overlap' = (overlap \/ job # Idle)
  /\ UNCHANGED <<arena, job>>

(* The shell: the search ... *)
ShellSearch(n) ==
  /\ job = Idle
  /\ Fits(heap, n) # {}
  /\ job' = [call |-> "kmalloc", at |-> FindPrev(heap, n),
             block |-> heap.next[FindPrev(heap, n)], arg |-> n]
  /\ UNCHANGED <<heap, arena, out, overlap>>

ShellFind(b) ==
  /\ job = Idle
  /\ b \in out
  /\ job' = [call |-> "kfree", at |-> FindPlace(heap, b), block |-> b, arg |-> 0]
  /\ UNCHANGED <<heap, arena, out, overlap>>

(* ... and the stores, on what it found. *)
ShellTake ==
  /\ job.call = "kmalloc"
  /\ LET n == job.arg
         p == job.block IN
       IF heap.size[p] >= n
         THEN LET h == Unlink(heap, job.at, p, n) IN
              /\ out'  = out \cup {p + heap.size[p] - n}
              /\ heap' = IF overlap THEN h ELSE Settled(h, out')
         ELSE UNCHANGED <<heap, out>>  \* p->size wraps
  /\ job' = Idle
  /\ UNCHANGED <<arena, overlap>>

ShellLink ==
  /\ job.call = "kfree"
  /\ out'  = out \ {job.block}
  /\ LET h == Link(heap, job.at, job.block) IN
       heap' = IF overlap THEN h ELSE Settled(h, out')
  /\ job'  = Idle
  /\ UNCHANGED <<arena, overlap>>

(* Calls that overlapped may leave the list in any state; what follows is not
   modelled. *)
Spoilt == overlap /\ job = Idle /\ UNCHANGED vars

Next ==
  \/ /\ ~overlap
     /\ \/ \E n \in Sizes : kmalloc(n) \/ ShellSearch(n)
        \/ \E b \in out : kfree(b) \/ ShellFind(b) \/ \E n \in Sizes : krealloc(b, n)
  \/ ShellTake \/ ShellLink \/ Spoilt

Spec == Init /\ [][Next]_vars

----------------------------------------------------------------------------
FreeBlocks == FreeIn(heap)
Cover(b)   == b .. b + heap.size[b] - 1

TypeOK ==
  /\ heap \in [next : [Addr \cup {Base} -> Addr \cup {Base, None}],
               size : [Addr \cup {Base} -> 0 .. Units],
               freelist : Addr \cup {Base}]
  /\ arena \subseteq Addr /\ out \subseteq Addr
  /\ job \in [call : {"none", "kmalloc", "kfree"}, at : {None, Base} \cup Addr,
              block : {None} \cup Addr, arg : Nat]
  /\ overlap \in BOOLEAN

(* Every unit the heap ever got is in exactly one block, free or in use: nothing
   is lost, nothing is given twice, whatever is split and merged. *)
Partitioned ==
  /\ UNION {Cover(b) : b \in FreeBlocks \cup out} = arena
  /\ \A b, c \in FreeBlocks \cup out : b # c => Cover(b) \cap Cover(c) = {}
  /\ FreeBlocks \cap out = {}

(* The list is one lap in address order and two free blocks never touch. *)
Merged ==
  /\ \A b \in FreeBlocks : /\ b + heap.size[b] \notin FreeBlocks
                           /\ heap.next[b] > b
  /\ heap.next[Base] <= Base

(* Unless a call came between the two parts of a call of the shell. *)
HeapSound == ~overlap => Partitioned /\ Merged

(* "The freed block is added back to the free list" (docs_en/memory.md:67). *)
FreedIsBack == job = Idle => UNION {Cover(b) : b \in FreeBlocks \cup out} = arena
=============================================================================
