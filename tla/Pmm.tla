-------------------------------- MODULE Pmm --------------------------------
(***************************************************************************)
(* The physical memory manager (pmm.c): a bitmap of pages, a hint where to *)
(* look for a free one and a count of the pages given out.                 *)
(*                                                                         *)
(* The shell calls it with interrupts on, one statement at a time.  System *)
(* calls and the reaper of schedule() call it with interrupts off, so      *)
(* their calls are single steps, but they may come between two statements  *)
(* of a call of the shell.  Nothing locks the bitmap.                      *)
(***************************************************************************)
EXTENDS Naturals, FiniteSets

CONSTANTS Total,     \* pmm_total_pages
          Reserved,  \* pages that are not usable, and those of the bitmap
          PerByte,   \* pages in one byte of the bitmap, 8 in the code
          Runs,      \* lengths pmm_alloc_pages is called with, above 1
          MaxCount   \* bound: no call comes between two statements when this many
                     \* pages are counted

Pages == 0 .. Total - 1

ASSUME PmmAssumption ==
  /\ Total \in Nat \ {0} /\ PerByte \in Nat \ {0} /\ MaxCount \in Nat
  /\ Reserved \subseteq Pages
  /\ Runs \subseteq 2 .. Total

VARIABLES used,       \* the bits that are set in pmm_bitmap
          hint,       \* pmm_last_free_page
          allocated,  \* pmm_allocated_pages
          mine,       \* pages the shell was given and that were not freed
          theirs,     \* the same for system calls and the reaper
          call,       \* the call of the shell in progress
          overlap     \* history: another call came between its statements

vars == <<used, hint, allocated, mine, theirs, call, overlap>>

Places == {"idle", "first", "second", "take", "count", "hint", "run", "mark",
           "full", "clear", "uncount"}

Calls == [pc : Places, i : 0 .. Total, j : 0 .. Total, n : Runs \cup {1},
          from : 0 .. Total, limit : 0 .. Total, seen : SUBSET Pages]

Idle == [pc |-> "idle", i |-> 0, j |-> 0, n |-> 1, from |-> 0, limit |-> 0, seen |-> {}]

(* pmm_init. *)
Init == /\ used = Reserved
        /\ hint = 0
        /\ allocated = 0
        /\ mine = {} /\ theirs = {}
        /\ call = Idle
        /\ overlap = "no"

----------------------------------------------------------------------------
Byte(p) == {q \in Pages : q \div PerByte = p \div PerByte}

(* Mutant of AfterSet: the byte is stored, not or-ed. *)
AfterStore(p, seen) == {(used \ Byte(p)) \cup {p}}

(* pmm_bitmap_set and pmm_bitmap_unset after pmm_bitmap_test: the compiler may
   update the byte in place or store the byte it read for the test. *)
AfterSet(p, seen)   == {used \cup {p}, (used \ Byte(p)) \cup seen \cup {p}}
AfterUnset(p, seen) == {used \ {p}, (used \ Byte(p)) \cup (seen \ {p})}

Goto(pc) == call' = [call EXCEPT !.pc = pc]

(* Mutant of NextHint: the next page is skipped, also at the end. *)
HintTwo(p) == p + 2

NextHint(p) == p + 1

(* pmm_alloc_page by the shell. *)
BeginPage ==
  /\ call.pc = "idle"
  /\ call' = [Idle EXCEPT !.pc = "first", !.i = hint, !.from = hint, !.limit = Total]
  /\ UNCHANGED <<used, hint, allocated, mine, theirs, overlap>>

TestPage ==
  /\ call.pc \in {"first", "second"}
  /\ call.i < call.limit
  /\ call' = IF call.i \in used
               THEN [call EXCEPT !.i = @ + 1]
               ELSE [call EXCEPT !.pc = "take", !.seen = used \cap Byte(call.i)]
  /\ UNCHANGED <<used, hint, allocated, mine, theirs, overlap>>

(* The second loop ends at the hint, read anew or kept from the start. *)
WrapAround ==
  /\ call.pc = "first"
  /\ call.i >= call.limit
  /\ \E limit \in {call.from, hint} :
       call' = [call EXCEPT !.pc = "second", !.i = 0, !.limit = limit]
  /\ UNCHANGED <<used, hint, allocated, mine, theirs, overlap>>

NoPage ==
  /\ call.pc = "second"
  /\ call.i >= call.limit
  /\ Goto("full")
  /\ UNCHANGED <<used, hint, allocated, mine, theirs, overlap>>

Take ==
  /\ call.pc = "take"
  /\ used' \in AfterSet(call.i, call.seen)
  /\ Goto("count")
  /\ UNCHANGED <<hint, allocated, mine, theirs, overlap>>

Count ==
  /\ call.pc = "count"
  /\ allocated' = allocated + 1
  /\ Goto("hint")
  /\ UNCHANGED <<used, hint, mine, theirs, overlap>>

ReturnPage ==
  /\ call.pc = "hint"
  /\ hint' = NextHint(call.i)
  /\ mine' = mine \cup {call.i}
  /\ call' = Idle
  /\ UNCHANGED <<used, allocated, theirs, overlap>>

(* "Out of physical memory" is logged and NULL returned. *)
ReturnNull ==
  /\ call.pc = "full"
  /\ call' = Idle
  /\ UNCHANGED <<used, hint, allocated, mine, theirs, overlap>>

----------------------------------------------------------------------------
(* Where the search of a run goes on after page i + j was found used. *)
Skip(i, j) == i + j + 1

(* pmm_alloc_pages(n) by the shell. *)
BeginRun(n) ==
  /\ call.pc = "idle"
  /\ call' = [Idle EXCEPT !.pc = "run", !.n = n]
  /\ UNCHANGED <<used, hint, allocated, mine, theirs, overlap>>

(* Mutant of Complete: the last page of a run is not tested. *)
CompleteEarly(j, n) == j = n - 1

(* j pages of n were found free, as many as wanted. *)
Complete(j, n) == j = n

TestRun ==
  /\ call.pc = "run"
  /\ call' = IF call.i + call.n > Total THEN [call EXCEPT !.pc = "full"]
             ELSE IF Complete(call.j, call.n) THEN [call EXCEPT !.pc = "mark", !.j = 0]
             ELSE IF call.i + call.j \in used
               THEN [call EXCEPT !.i = Skip(call.i, call.j), !.j = 0]
               ELSE [call EXCEPT !.j = @ + 1]
  /\ UNCHANGED <<used, hint, allocated, mine, theirs, overlap>>

Mark ==
  /\ call.pc = "mark"
  /\ call.j < call.n
  /\ used' = used \cup {call.i + call.j}
  /\ call' = [call EXCEPT !.j = @ + 1]
  /\ UNCHANGED <<hint, allocated, mine, theirs, overlap>>

Run(i, n) == i .. i + n - 1

(* Mutant of Gain: a run counts as one page. *)
GainOne(n) == 1

(* What a run of n pages adds to pmm_allocated_pages. *)
Gain(n) == n

ReturnRun ==
  /\ call.pc = "mark"
  /\ call.j = call.n
  /\ allocated' = allocated + Gain(call.n)
  /\ mine' = mine \cup Run(call.i, call.n)
  /\ call' = Idle
  /\ UNCHANGED <<used, hint, theirs, overlap>>

----------------------------------------------------------------------------
(* pmm_free_page by the shell, of a page it was given. *)
BeginFree(p) ==
  /\ call.pc = "idle"
  /\ mine' = mine \ {p}
  /\ call' = IF p \in used
               THEN [Idle EXCEPT !.pc = "clear", !.i = p, !.seen = used \cap Byte(p)]
               ELSE Idle
  /\ UNCHANGED <<used, hint, allocated, theirs, overlap>>

Clear ==
  /\ call.pc = "clear"
  /\ used' \in AfterUnset(call.i, call.seen)
  /\ Goto("uncount")
  /\ UNCHANGED <<hint, allocated, mine, theirs, overlap>>

(* Mutant of LowerHint: a page that is freed leaves the hint where it is. *)
HintStays(p) == hint

LowerHint(p) == IF p < hint THEN p ELSE hint

Uncount ==
  /\ call.pc = "uncount"
  /\ allocated' = allocated - 1
  /\ hint' = LowerHint(call.i)
  /\ call' = Idle
  /\ UNCHANGED <<used, mine, theirs, overlap>>

----------------------------------------------------------------------------
(* What the searches find when nothing interferes. *)
FreePages == Pages \ used
LowestIn(S) == CHOOSE p \in S : \A q \in S : p <= q
FirstFree(h) == IF \E p \in FreePages : p >= h
                  THEN LowestIn({p \in FreePages : p >= h}) ELSE LowestIn(FreePages)
Starts(n) == {i \in Pages : Run(i, n) \subseteq FreePages}

(* The same calls with interrupts off. *)
Overlap == /\ call.pc # "idle" => allocated < MaxCount
           /\ overlap' = IF call.pc # "idle" THEN "yes" ELSE overlap

AllocPage ==
  /\ FreePages # {}
  /\ LET p == FirstFree(hint)
     IN  used' = used \cup {p} /\ hint' = NextHint(p) /\ theirs' = theirs \cup {p}
  /\ allocated' = allocated + 1
  /\ Overlap
  /\ UNCHANGED <<mine, call>>

AllocPages(n) ==
  /\ Starts(n) # {}
  /\ LET r == Run(LowestIn(Starts(n)), n)
     IN  used' = used \cup r /\ theirs' = theirs \cup r
  /\ allocated' = allocated + Gain(n)
  /\ Overlap
  /\ UNCHANGED <<hint, mine, call>>

(* Also of a page the shell was given: the reaper frees the stack the shell
   allocated for a program. *)
FreePage(p) ==
  /\ mine' = mine \ {p} /\ theirs' = theirs \ {p}
  /\ IF p \in used
       THEN used' = used \ {p} /\ allocated' = allocated - 1 /\ hint' = LowerHint(p)
       ELSE UNCHANGED <<used, allocated, hint>>
  /\ Overlap
  /\ UNCHANGED call

ShellStep == \/ BeginPage \/ TestPage \/ WrapAround \/ NoPage \/ Take \/ Count \/ ReturnPage
             \/ ReturnNull \/ TestRun \/ Mark \/ ReturnRun \/ Clear \/ Uncount
             \/ \E n \in Runs : BeginRun(n)
             \/ \E p \in mine : BeginFree(p)

Next == \/ ShellStep
        \/ AllocPage
        \/ \E n \in Runs : AllocPages(n)
        \/ \E p \in mine \cup theirs : FreePage(p)

Spec == Init /\ [][Next]_vars

----------------------------------------------------------------------------
TypeOK ==
  /\ used \subseteq Pages
  /\ hint \in 0 .. Total
  /\ allocated \in Nat
  /\ mine \subseteq Pages /\ theirs \subseteq Pages
  /\ call \in Calls
  /\ overlap \in {"no", "yes"}

(* The pages the call in progress has marked and not yet handed over, or has
   taken back and not yet cleared. *)
InFlight == CASE call.pc \in {"count", "hint", "clear"} -> {call.i}
              [] call.pc = "mark" -> Run(call.i, call.j)
              [] OTHER -> {}

(* What the counter must still cover for the call in progress. *)
Pending == IF call.pc \in {"hint", "clear", "uncount"} THEN 1 ELSE 0

(* The kernel, the firmware and the bitmap itself are never free and never given
   out, however calls interleave, although a call may store a byte of the bitmap
   that it read before another call. *)
ReservedKept == /\ Reserved \subseteq used
                /\ (mine \cup theirs) \cap Reserved = {}

(* The counter never falls below the pages that are out, so it never wraps,
   however calls interleave. *)
CountCovers == allocated >= Cardinality(mine) + Cardinality(theirs) + Pending

(* As long as no call comes between the statements of another, a page has one
   owner, and a bit is set exactly for the reserved pages and those that are out:
   none is lost and none is given twice. *)
Exclusive ==
  overlap = "no" =>
    /\ mine \cap theirs = {}
    /\ InFlight \cap (mine \cup theirs) = {}
    /\ used = Reserved \cup mine \cup theirs \cup InFlight

(* Both searches are first fit although one starts at the hint and the other
   skips, and they report that memory is full only when it is.  The hint is never
   above a free page, so what it saves costs nothing. *)
SearchComplete ==
  overlap = "no" =>
    /\ call.pc = "take" => call.i = LowestIn(FreePages)
    /\ call.pc = "mark" /\ call.j = 0 => call.i = LowestIn(Starts(call.n))
    /\ call.pc = "full" => IF call.n = 1 THEN FreePages = {} ELSE Starts(call.n) = {}
    /\ call.pc = "idle" => \A p \in FreePages : hint <= p
=============================================================================
