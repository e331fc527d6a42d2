---------------------------- MODULE MemoryProofs ----------------------------
(***************************************************************************)
(* For every size of memory, every set of reserved pages and every run     *)
(* length the page allocator keeps the reserved pages and its counter,     *)
(* however calls interleave, and as long as they do not its searches are   *)
(* complete and a page has one owner.  For every memory and block sizes    *)
(* the list of the kernel heap is sound as long as no call comes between   *)
(* the two parts of a call of the shell; and however many threads and      *)
(* descriptors there are, a socket is named by one of them.                *)
(***************************************************************************)
EXTENDS MCMemory, FiniteSetTheorems, WellFoundedInduction, TLAPS

(* The page of the call in progress, and its run, are pages. *)
CallOK ==
  /\ call.pc \in {"take", "count", "hint", "clear", "uncount"} => call.i < Total
  /\ call.pc \in {"first", "second"} => call.n = 1
  /\ call.pc = "run" => /\ call.n \in Runs /\ call.j <= call.n
                        /\ call.j > 0 => call.i + call.n <= Total
  /\ call.pc = "mark" => /\ call.n \in Runs /\ call.j <= call.n
                         /\ call.i + call.n <= Total

(* No call is about to touch a reserved page, or to store a byte without the
   bits of the reserved pages in it. *)
KeepOK ==
  /\ call.pc \in {"take", "clear"} => Reserved \cap Byte(call.i) \subseteq call.seen
  /\ call.pc \in {"take", "count", "hint", "clear", "uncount"} => call.i \notin Reserved
  /\ call.pc = "run" => \A k \in Run(call.i, call.j) : k \notin Reserved
  /\ call.pc = "mark" => \A k \in Run(call.i, call.n) : k \notin Reserved

(* The invariant that holds however calls interleave: each part needs the others. *)
IInv == TypeOK /\ CallOK /\ ReservedKept /\ KeepOK /\ CountCovers

(* Every page below p is used. *)
Below(p) == \A q \in Pages : q < p => q \in used

(* What a call knows of the pages it has looked at, if no other call came. *)
SeenOK ==
  overlap = "no" =>
    /\ call.pc # "uncount" => Below(hint)
    /\ call.pc = "uncount" => \A q \in Pages : q < hint /\ q # call.i => q \in used
    /\ call.pc = "first" => call.limit = Total
    /\ call.pc = "second" => Below(Total)
    /\ call.pc \in {"first", "take", "count", "hint"} => Below(call.i)
    /\ call.pc = "take" => call.i \notin used
    /\ call.pc = "hint" => call.i \in used
    /\ call.pc = "clear" => call.i \in used
    /\ call.pc \in {"take", "clear"} => call.seen = used \cap Byte(call.i)
    /\ call.pc = "run" => /\ \A k \in Run(call.i, call.j) : k \notin used
                          /\ \A s \in Starts(call.n) : call.i <= s
    /\ call.pc = "mark" => \A k \in Run(call.i + call.j, call.n - call.j) : k \notin used

(* The invariant while no call has come between the statements of another. *)
AloneInv == SeenOK /\ Exclusive /\ SearchComplete

(* A nonempty set of pages has a lowest one, and LowestIn is it. *)
LEMMA LowestLemma ==
  ASSUME NEW S \in SUBSET Nat, S # {}
  PROVE  LowestIn(S) \in S /\ \A q \in S : LowestIn(S) <= q
<1> DEFINE less == OpToRel(<, Nat)
<1>1. IsWellFoundedOn(less, Nat)
  BY NatLessThanWellFounded
<1>2. PICK p \in S : \A q \in S : <<q, p>> \notin less
  <2> HIDE DEF less
  <2> QED BY <1>1, WFMin
<1>3. ASSUME NEW q \in S PROVE p <= q
  <2>1. <<q, p>> \in Nat \X Nat
    OBVIOUS
  <2>2. <<q, p>> \notin {ss \in Nat \X Nat : ss[1] < ss[2]}
    BY <1>2 DEF OpToRel
  <2> QED BY <2>1, <2>2
<1> QED BY <1>3 DEF LowestIn

(* Only the lowest element is below all others. *)
LEMMA LowestUnique ==
  ASSUME NEW S \in SUBSET Nat, NEW p \in S, \A q \in S : p <= q
  PROVE  LowestIn(S) = p
<1>1. LowestIn(S) \in S /\ LowestIn(S) <= p
  BY LowestLemma
<1>2. p <= LowestIn(S)
  BY <1>1
<1>3. p \in Nat /\ LowestIn(S) \in Nat
  BY <1>1
<1> QED BY <1>1, <1>2, <1>3

(* With a free page the search that starts at the hint finds a free page. *)
LEMMA FreeLemma ==
  ASSUME NEW h \in Nat, FreePages # {}
  PROVE  FirstFree(h) \in Pages /\ FirstFree(h) \notin used
<1>1. FreePages \subseteq Nat
  BY PmmAssumption DEF FreePages, Pages
<1>2. CASE \E p \in FreePages : p >= h
  <2> DEFINE S == {p \in FreePages : p >= h}
  <2>1. S \in SUBSET Nat /\ S # {}
    BY <1>1, <1>2
  <2>2. LowestIn(S) \in S
    BY <2>1, LowestLemma
  <2> QED BY <1>2, <2>2 DEF FirstFree, FreePages
<1>3. CASE ~ \E p \in FreePages : p >= h
  <2>1. LowestIn(FreePages) \in FreePages
    BY <1>1, LowestLemma
  <2> QED BY <1>3, <2>1 DEF FirstFree, FreePages
<1> QED BY <1>2, <1>3

(* The run that is found consists of free pages. *)
LEMMA StartLemma ==
  ASSUME NEW n \in Runs, Starts(n) # {}
  PROVE  /\ LowestIn(Starts(n)) \in Starts(n)
         /\ Run(LowestIn(Starts(n)), n) \subseteq Pages \ used
         /\ Run(LowestIn(Starts(n)), n) \subseteq Pages
<1>1. Starts(n) \in SUBSET Nat
  BY PmmAssumption DEF Starts, Pages
<1>2. LowestIn(Starts(n)) \in Starts(n)
  BY <1>1, LowestLemma
<1> QED BY <1>2 DEF Starts, FreePages

(* Sets of pages are finite. *)
LEMMA PagesFinite ==
  ASSUME NEW S \in SUBSET Pages
  PROVE  IsFiniteSet(S) /\ Cardinality(S) \in Nat
<1>1. IsFiniteSet(Pages)
  BY FS_Interval, PmmAssumption DEF Pages
<1> QED BY <1>1, FS_Subset, FS_CardinalityType

----------------------------------------------------------------------------
(* pmm_init establishes the invariant. *)
THEOREM Initial == Init => IInv
<1> SUFFICES ASSUME Init PROVE IInv
  OBVIOUS
<1>1. TypeOK
  <2>1. Idle \in Calls
    BY PmmAssumption DEF Idle, Calls, Places
  <2> QED BY <2>1, PmmAssumption DEF Init, TypeOK
<1>2. CallOK /\ KeepOK /\ ReservedKept
  BY DEF Init, Idle, CallOK, KeepOK, ReservedKept
<1>3. CountCovers
  BY FS_EmptySet DEF Init, Idle, CountCovers, Pending
<1> QED BY <1>1, <1>2, <1>3 DEF IInv

(* The counter is a number after every step. *)
LEMMA Positive ==
  ASSUME TypeOK, CountCovers
  PROVE  /\ call.pc = "uncount" => allocated > 0
         /\ \A p \in mine \cup theirs : allocated > 0
<1>1. /\ IsFiniteSet(mine) /\ Cardinality(mine) \in Nat
      /\ IsFiniteSet(theirs) /\ Cardinality(theirs) \in Nat
  BY PagesFinite DEF TypeOK
<1>2. ASSUME NEW p \in mine \cup theirs
      PROVE  Cardinality(mine) + Cardinality(theirs) > 0
  BY <1>1, FS_EmptySet
<1> QED BY <1>1, <1>2 DEF TypeOK, CountCovers, Pending

(* Pages, run lengths and bounds as numbers. *)
LEMMA SizeLemma ==
  /\ \A p \in Pages : p \in 0 .. Total /\ p + 1 \in 0 .. Total /\ p < Total
  /\ \A n \in Runs : n \in 0 .. Total /\ n \in Runs \cup {1}
  /\ \A p \in 0 .. Total : p < Total => p \in Pages
  /\ 0 \in 0 .. Total /\ Total \in 0 .. Total
BY PmmAssumption DEF Pages

(* The record of no call in progress. *)
LEMMA IdleLemma == Idle \in Calls /\ Idle.pc = "idle" /\ Idle.n = 1 /\ Idle.j = 0
<1>1. 0 \in 0 .. Total
  BY PmmAssumption
<1> QED BY <1>1 DEF Idle, Calls, Places

(* The names of the places of a call. *)
LEMMA PlacesLemma ==
  /\ "first" \in Places /\ "second" \in Places /\ "take" \in Places /\ "count" \in Places
  /\ "hint" \in Places /\ "run" \in Places /\ "mark" \in Places /\ "full" \in Places
  /\ "clear" \in Places /\ "uncount" \in Places
BY DEF Places

(* Every step keeps the types and the bounds of the call in progress. *)
LEMMA TypeStep ==
  ASSUME TypeOK, CallOK, CountCovers, [Next]_vars
  PROVE  TypeOK' /\ CallOK'
<1> USE PmmAssumption DEF TypeOK, CallOK
<1>0. /\ Idle \in Calls /\ Idle.pc = "idle" /\ Idle.n = 1
      /\ \A p \in Pages : p \in 0 .. Total /\ p + 1 \in 0 .. Total /\ p < Total
      /\ \A n \in Runs : n \in 0 .. Total /\ n \in Runs \cup {1}
      /\ \A p \in 0 .. Total : p < Total => p \in Pages
      /\ 0 \in 0 .. Total /\ Total \in 0 .. Total
  BY SizeLemma, IdleLemma
<1>1. CASE UNCHANGED vars
  <2>1. TypeOK'
    BY <1>1 DEF vars
  <2>2. CallOK'
    BY <1>1 DEF vars
  <2> QED BY <2>1, <2>2
<1>2. CASE BeginPage
  <2>1. call' = [Idle EXCEPT !.pc = "first", !.i = hint, !.from = hint, !.limit = Total]
    BY <1>2 DEF BeginPage
  <2>2. call' \in Calls
    BY <1>0, <2>1, PlacesLemma DEF Calls
  <2>3. CallOK'
    BY <2>1 DEF Idle
  <2> QED BY <1>2, <2>2, <2>3 DEF BeginPage
<1>3. CASE TestPage
  <2>1. call' \in Calls
    <3>1. CASE call.i \in used
      BY <1>3, <3>1 DEF TestPage, Calls, Places
    <3>2. CASE call.i \notin used
      BY <1>3, <3>2 DEF TestPage, Calls, Places
    <3> QED BY <3>1, <3>2
  <2>2. CallOK'
    BY <1>3 DEF TestPage, Calls
  <2> QED BY <1>3, <2>1, <2>2 DEF TestPage
<1>4. CASE WrapAround
  <2>1. PICK limit \in {call.from, hint} :
          call' = [call EXCEPT !.pc = "second", !.i = 0, !.limit = limit]
    BY <1>4 DEF WrapAround
  <2>2. call' \in Calls
    BY <1>0, <2>1, PlacesLemma DEF Calls
  <2>3. CallOK'
    BY <1>4, <2>1 DEF WrapAround, Calls
  <2> QED BY <1>4, <2>2, <2>3 DEF WrapAround
<1>5. CASE NoPage
  BY <1>5 DEF NoPage, Goto, Calls, Places
<1>6. CASE Take
  <2>1. call' \in Calls /\ CallOK'
    BY <1>6 DEF Take, Goto, Calls, Places
  <2>2. used' \subseteq Pages
    BY <1>0, <1>6 DEF Take, AfterSet, Calls
  <2> QED BY <1>6, <2>1, <2>2 DEF Take
<1>7. CASE Count
  BY <1>7 DEF Count, Goto, Calls, Places
<1>8. CASE ReturnPage
  <2>1. hint' \in 0 .. Total /\ mine' \subseteq Pages
    BY <1>0, <1>8 DEF ReturnPage, NextHint, Calls
  <2>2. call' = Idle
    BY <1>8 DEF ReturnPage
  <2> QED BY <1>0, <1>8, <2>1, <2>2 DEF ReturnPage
<1>9. CASE ReturnNull
  BY <1>0, <1>9 DEF ReturnNull
<1>10. CASE TestRun
  <2>1. call' \in Calls
    <3>1. CASE call.i + call.n > Total
      BY <1>10, <3>1 DEF TestRun, Calls, Places
    <3>2. CASE call.i + call.n <= Total /\ call.j = call.n
      <4>1. call' = [call EXCEPT !.pc = "mark", !.j = 0]
        BY <1>10, <3>2 DEF TestRun, Complete, Calls
      <4> QED BY <1>0, <4>1, PlacesLemma DEF Calls
    <3>3. CASE call.i + call.n <= Total /\ call.j # call.n /\ call.i + call.j \in used
      <4>1. call' = [call EXCEPT !.i = call.i + call.j + 1, !.j = 0]
        BY <1>10, <3>3 DEF TestRun, Skip, Complete, Calls
      <4>2. call.i + call.j + 1 \in 0 .. Total
        BY <1>10, <3>3 DEF TestRun, Calls
      <4> QED BY <1>0, <4>1, <4>2 DEF Calls
    <3>4. CASE call.i + call.n <= Total /\ call.j # call.n /\ call.i + call.j \notin used
      <4>1. call' = [call EXCEPT !.j = @ + 1]
        BY <1>10, <3>4 DEF TestRun, Complete, Calls
      <4>2. call.j + 1 \in 0 .. Total
        BY <1>10, <3>4 DEF TestRun, Calls
      <4> QED BY <4>1, <4>2 DEF Calls
    <3>5. call.i \in Nat /\ call.n \in Nat /\ call.j \in Nat
      <4>1. call.n \in Runs \cup {1} /\ call.i \in 0 .. Total /\ call.j \in 0 .. Total
        BY DEF Calls
      <4>2. \A x \in 0 .. Total : x \in Nat
        OBVIOUS
      <4>3. call.n \in 0 .. Total \/ call.n = 1
        BY <1>0, <4>1, Zenon
      <4> QED BY <4>1, <4>2, <4>3
    <3> QED BY <3>1, <3>2, <3>3, <3>4, <3>5
  <2>2. CallOK'
    BY <1>10 DEF TestRun, Skip, Complete, Calls
  <2> QED BY <1>10, <2>1, <2>2 DEF TestRun
<1>11. CASE Mark
  <2>1. call' \in Calls /\ CallOK'
    BY <1>11 DEF Mark, Calls, Places
  <2>2. used' \subseteq Pages
    BY <1>11 DEF Mark, Calls, Pages
  <2> QED BY <1>11, <2>1, <2>2 DEF Mark
<1>12. CASE ReturnRun
  <2>1. mine' \subseteq Pages
    <3>1. call.n \in Runs /\ call.i + call.n <= Total /\ call.i \in Nat /\ call.n \in Nat
      BY <1>12 DEF ReturnRun, Calls
    <3>2. Run(call.i, call.n) \subseteq Pages
      BY <3>1 DEF Run, Pages
    <3> QED BY <1>12, <3>2 DEF ReturnRun
  <2>2. allocated' \in Nat
    BY <1>12 DEF ReturnRun, Gain, Calls
  <2>3. call' = Idle
    BY <1>12 DEF ReturnRun
  <2> QED BY <1>0, <1>12, <2>1, <2>2, <2>3 DEF ReturnRun
<1>13. CASE Clear
  <2>1. call' \in Calls /\ CallOK'
    BY <1>13 DEF Clear, Goto, Calls, Places
  <2>2. used' \subseteq Pages
    BY <1>13 DEF Clear, AfterUnset, Calls
  <2> QED BY <1>13, <2>1, <2>2 DEF Clear
<1>14. CASE Uncount
  <2>1. allocated' \in Nat
    BY <1>14, Positive DEF Uncount
  <2>2. hint' \in 0 .. Total
    BY <1>14 DEF Uncount, LowerHint, Calls
  <2>3. call' = Idle
    BY <1>14 DEF Uncount
  <2> QED BY <1>0, <1>14, <2>1, <2>2, <2>3 DEF Uncount
<1>15. ASSUME NEW n \in Runs, BeginRun(n) PROVE TypeOK' /\ CallOK'
  <2>1. call' = [Idle EXCEPT !.pc = "run", !.n = n]
    BY <1>15 DEF BeginRun
  <2>2. call' \in Calls
    BY <1>0, <2>1, PlacesLemma DEF Calls
  <2>3. CallOK'
    BY <2>1 DEF Idle
  <2> QED BY <1>15, <2>2, <2>3 DEF BeginRun
<1>16. ASSUME NEW p \in mine, BeginFree(p) PROVE TypeOK' /\ CallOK'
  <2>1. call' = Idle \/ call' = [Idle EXCEPT !.pc = "clear", !.i = p, !.seen = used \cap Byte(p)]
    BY <1>16 DEF BeginFree
  <2>2. call' \in Calls
    <3>1. used \cap Byte(p) \in SUBSET Pages /\ p \in 0 .. Total
      BY <1>0
    <3> QED BY <1>0, <2>1, <3>1, PlacesLemma DEF Calls
  <2>3. CallOK'
    BY <1>0, <2>1 DEF Idle
  <2> QED BY <1>16, <2>2, <2>3 DEF BeginFree
<1>17. ASSUME call' = call, used' \subseteq Pages, mine' \subseteq Pages, theirs' \subseteq Pages,
              hint' \in 0 .. Total, allocated' \in Nat, Overlap
       PROVE  TypeOK' /\ CallOK'
  BY <1>17 DEF Overlap
<1>18. CASE AllocPage
  <2>1. FirstFree(hint) \in Pages
    BY <1>18, FreeLemma DEF AllocPage
  <2>2. hint' \in 0 .. Total /\ used' \subseteq Pages /\ theirs' \subseteq Pages
    BY <1>0, <1>18, <2>1 DEF AllocPage, NextHint
  <2> QED BY <1>17, <1>18, <2>2 DEF AllocPage
<1>19. ASSUME NEW n \in Runs, AllocPages(n) PROVE TypeOK' /\ CallOK'
  <2>1. used' \subseteq Pages /\ theirs' \subseteq Pages
    BY <1>19, StartLemma DEF AllocPages
  <2>2. allocated' \in Nat
    BY <1>0, <1>19 DEF AllocPages, Gain
  <2> QED BY <1>17, <1>19, <2>1, <2>2 DEF AllocPages
<1>20. ASSUME NEW p \in mine \cup theirs, FreePage(p) PROVE TypeOK' /\ CallOK'
  <2>1. allocated' \in Nat
    BY <1>20, Positive DEF FreePage
  <2>2. hint' \in 0 .. Total
    BY <1>0, <1>20 DEF FreePage, LowerHint
  <2>3. used' \subseteq Pages /\ mine' \subseteq Pages /\ theirs' \subseteq Pages
    BY <1>20 DEF FreePage
  <2> QED BY <1>17, <1>20, <2>1, <2>2, <2>3 DEF FreePage
<1> QED BY <1>1, <1>2, <1>3, <1>4, <1>5, <1>6, <1>7, <1>8, <1>9, <1>10, <1>11, <1>12,
           <1>13, <1>14, <1>15, <1>16, <1>18, <1>19, <1>20 DEF Next, ShellStep

----------------------------------------------------------------------------
(* No step, of whichever call, unmarks or hands out a reserved page. *)
LEMMA KeepStep ==
  ASSUME TypeOK, CallOK, ReservedKept, KeepOK, [Next]_vars
  PROVE  ReservedKept' /\ KeepOK'
<1> USE DEF TypeOK, ReservedKept, KeepOK
<1>0. Idle.pc = "idle"
  BY IdleLemma
<1>1. CASE UNCHANGED vars
  BY <1>1 DEF vars, Byte, Run
<1>2. CASE BeginPage
  <2>1. used' = used /\ mine' = mine /\ theirs' = theirs /\ call'.pc = "first"
    BY <1>2 DEF BeginPage, Idle
  <2> QED BY <2>1
<1>3. CASE TestPage
  <2>1. CASE call.i \in used
    <3>1. call'.pc = call.pc
      BY <1>3, <2>1 DEF TestPage, Calls
    <3> QED BY <1>3, <3>1 DEF TestPage
  <2>2. CASE call.i \notin used
    <3>1. call'.pc = "take" /\ call'.i = call.i /\ call'.seen = used \cap Byte(call.i)
      BY <1>3, <2>2 DEF TestPage, Calls
    <3> QED BY <1>3, <2>2, <3>1 DEF TestPage
  <2> QED BY <2>1, <2>2
<1>4. CASE WrapAround
  <2>1. call'.pc = "second"
    BY <1>4 DEF WrapAround, Calls
  <2> QED BY <1>4, <2>1 DEF WrapAround
<1>5. CASE NoPage
  <2>1. call'.pc = "full"
    BY <1>5 DEF NoPage, Goto, Calls
  <2> QED BY <1>5, <2>1 DEF NoPage
<1>6. CASE Take
  <2>1. call'.pc = "count" /\ call'.i = call.i
    BY <1>6 DEF Take, Goto, Calls
  <2>2. Reserved \subseteq used'
    BY <1>6 DEF Take, AfterSet
  <2> QED BY <1>6, <2>1, <2>2 DEF Take
<1>7. CASE Count
  <2>1. call'.pc = "hint" /\ call'.i = call.i
    BY <1>7 DEF Count, Goto, Calls
  <2> QED BY <1>7, <2>1 DEF Count
<1>8. CASE ReturnPage
  BY <1>0, <1>8 DEF ReturnPage
<1>9. CASE ReturnNull
  BY <1>0, <1>9 DEF ReturnNull
<1>10. CASE TestRun
  <2>0. call.pc = "run" /\ call.i \in Nat /\ call.j \in Nat /\ call.n \in Nat /\ call.j <= call.n
    BY <1>10, SizeLemma DEF TestRun, CallOK, Calls
  <2>1. CASE call.i + call.n > Total
    <3>1. call'.pc = "full"
      BY <1>10, <2>1 DEF TestRun, Calls
    <3> QED BY <1>10, <3>1 DEF TestRun
  <2>2. CASE call.i + call.n <= Total /\ call.j = call.n
    <3>1. call'.pc = "mark" /\ call'.i = call.i /\ call'.n = call.n
      BY <1>10, <2>0, <2>2, PmmAssumption DEF TestRun, Complete, Calls
    <3> QED BY <1>10, <2>0, <2>2, <3>1 DEF TestRun
  <2>3. CASE call.i + call.n <= Total /\ call.j # call.n /\ call.i + call.j \in used
    <3>1. call'.pc = "run" /\ call'.j = 0 /\ call'.i \in Nat
      BY <1>10, <2>0, <2>3, PmmAssumption DEF TestRun, Skip, Complete, Calls
    <3>2. Run(call'.i, call'.j) = {}
      BY <3>1 DEF Run
    <3> QED BY <1>10, <3>1, <3>2 DEF TestRun
  <2>4. CASE call.i + call.n <= Total /\ call.j # call.n /\ call.i + call.j \notin used
    <3>1. call'.pc = "run" /\ call'.j = call.j + 1 /\ call'.i = call.i
      BY <1>10, <2>0, <2>4, PmmAssumption DEF TestRun, Complete, Calls
    <3>2. \A k \in Run(call.i, call.j + 1) : k \in Run(call.i, call.j) \/ k = call.i + call.j
      BY <2>0 DEF Run
    <3>3. \A k \in Run(call'.i, call'.j) : k \notin Reserved
      BY <2>0, <2>4, <3>1, <3>2
    <3> QED BY <1>10, <3>1, <3>3 DEF TestRun
  <2> QED BY <2>0, <2>1, <2>2, <2>3, <2>4, PmmAssumption
<1>11. CASE Mark
  <2>1. call'.pc = "mark" /\ call'.i = call.i /\ call'.n = call.n
    BY <1>11 DEF Mark, Calls
  <2> QED BY <1>11, <2>1 DEF Mark
<1>12. CASE ReturnRun
  BY <1>0, <1>12 DEF ReturnRun
<1>13. CASE Clear
  <2>1. call'.pc = "uncount" /\ call'.i = call.i
    BY <1>13 DEF Clear, Goto, Calls
  <2>2. Reserved \subseteq used'
    BY <1>13 DEF Clear, AfterUnset
  <2> QED BY <1>13, <2>1, <2>2 DEF Clear
<1>14. CASE Uncount
  BY <1>0, <1>14 DEF Uncount
<1>15. ASSUME NEW n \in Runs, BeginRun(n) PROVE ReservedKept' /\ KeepOK'
  <2>1. call'.pc = "run" /\ call'.i = 0 /\ call'.j = 0
    BY <1>15 DEF BeginRun, Idle
  <2>2. Run(call'.i, call'.j) = {}
    BY <2>1 DEF Run
  <2> QED BY <1>15, <2>1, <2>2 DEF BeginRun
<1>16. ASSUME NEW p \in mine, BeginFree(p) PROVE ReservedKept' /\ KeepOK'
  <2>1. \/ call'.pc = "idle"
        \/ call'.pc = "clear" /\ call'.i = p /\ call'.seen = used \cap Byte(p)
    BY <1>16 DEF BeginFree, Idle
  <2>2. p \notin Reserved
    OBVIOUS
  <2> QED BY <1>16, <2>1, <2>2 DEF BeginFree
<1>17. ASSUME call' = call, ReservedKept' PROVE KeepOK'
  BY <1>17 DEF Byte, Run
<1>18. CASE AllocPage
  <2>1. FirstFree(hint) \notin used
    BY <1>18, FreeLemma, SizeLemma DEF AllocPage
  <2>2. ReservedKept'
    BY <1>18, <2>1 DEF AllocPage
  <2> QED BY <1>17, <1>18, <2>2 DEF AllocPage
<1>19. ASSUME NEW n \in Runs, AllocPages(n) PROVE ReservedKept' /\ KeepOK'
  <2>1. ReservedKept'
    BY <1>19, StartLemma DEF AllocPages
  <2> QED BY <1>17, <1>19, <2>1 DEF AllocPages
<1>20. ASSUME NEW p \in mine \cup theirs, FreePage(p) PROVE ReservedKept' /\ KeepOK'
  <2>1. ReservedKept'
    BY <1>20 DEF FreePage
  <2> QED BY <1>17, <1>20, <2>1 DEF FreePage
<1> QED BY <1>1, <1>2, <1>3, <1>4, <1>5, <1>6, <1>7, <1>8, <1>9, <1>10, <1>11, <1>12,
           <1>13, <1>14, <1>15, <1>16, <1>18, <1>19, <1>20 DEF Next, ShellStep

----------------------------------------------------------------------------
(* The size of a union is at most the sum of the sizes. *)
LEMMA AddLemma ==
  ASSUME NEW S \in SUBSET Pages, NEW T \in SUBSET Pages
  PROVE  Cardinality(S \cup T) <= Cardinality(S) + Cardinality(T)
<1>1. IsFiniteSet(S) /\ IsFiniteSet(T) /\ Cardinality(S) \in Nat /\ Cardinality(T) \in Nat
  BY PagesFinite
<1>2. Cardinality(S \cap T) \in Nat
  BY PagesFinite
<1>3. Cardinality(S \cup T) = Cardinality(S) + Cardinality(T) - Cardinality(S \cap T)
  BY <1>1, FS_Union
<1> QED BY <1>1, <1>2, <1>3

(* Adding a page. *)
LEMMA OneMore ==
  ASSUME NEW S \in SUBSET Pages, NEW p
  PROVE  Cardinality(S \cup {p}) <= Cardinality(S) + 1
<1>1. IsFiniteSet(S) /\ Cardinality(S) \in Nat
  BY PagesFinite
<1>2. Cardinality(S \cup {p}) = IF p \in S THEN Cardinality(S) ELSE Cardinality(S) + 1
  BY <1>1, FS_AddElement
<1> QED BY <1>1, <1>2

(* Removing a page. *)
LEMMA OneLess ==
  ASSUME NEW S \in SUBSET Pages, NEW p
  PROVE  Cardinality(S \ {p}) = IF p \in S THEN Cardinality(S) - 1 ELSE Cardinality(S)
BY PagesFinite, FS_RemoveElement

(* A run of n pages has n pages. *)
LEMMA RunSize ==
  ASSUME NEW i \in Nat, NEW n \in Nat
  PROVE  Cardinality(Run(i, n)) = n
<1>1. Cardinality(i .. i + n - 1) = IF i > i + n - 1 THEN 0 ELSE i + n - 1 - i + 1
  BY FS_Interval
<1> QED BY <1>1 DEF Run

(* No step lets the counter fall below the pages that are out. *)
LEMMA CountStep ==
  ASSUME TypeOK, CallOK, CountCovers, [Next]_vars
  PROVE  CountCovers'
<1>a. /\ Cardinality(mine) \in Nat /\ Cardinality(theirs) \in Nat /\ allocated \in Nat
      /\ mine \in SUBSET Pages /\ theirs \in SUBSET Pages /\ call \in Calls
  BY PagesFinite DEF TypeOK
<1>b. /\ Pending = IF call.pc \in {"hint", "clear", "uncount"} THEN 1 ELSE 0
      /\ Pending' = IF call'.pc \in {"hint", "clear", "uncount"} THEN 1 ELSE 0
  BY DEF Pending
<1>c. allocated >= Cardinality(mine) + Cardinality(theirs) + Pending
  BY DEF CountCovers
<1>0. Idle.pc = "idle"
  BY IdleLemma
<1>k. ASSUME mine' = mine, theirs' = theirs, allocated' = allocated, Pending' <= Pending
      PROVE  CountCovers'
  BY <1>a, <1>b, <1>c, <1>k DEF CountCovers
<1>1. CASE UNCHANGED vars
  BY <1>b, <1>k, <1>1 DEF vars
<1>2. CASE BeginPage
  <2>1. call'.pc = "first"
    BY <1>2 DEF BeginPage, Idle
  <2> QED BY <1>b, <1>k, <1>2, <2>1 DEF BeginPage
<1>3. CASE TestPage
  <2>1. call'.pc \in {call.pc, "take"}
    BY <1>a, <1>3 DEF TestPage, Calls
  <2> QED BY <1>b, <1>k, <1>3, <2>1 DEF TestPage
<1>4. CASE WrapAround
  <2>1. call'.pc = "second"
    BY <1>a, <1>4 DEF WrapAround, Calls
  <2> QED BY <1>b, <1>k, <1>4, <2>1 DEF WrapAround
<1>5. CASE NoPage
  <2>1. call'.pc = "full"
    BY <1>a, <1>5 DEF NoPage, Goto, Calls
  <2> QED BY <1>b, <1>k, <1>5, <2>1 DEF NoPage
<1>6. CASE Take
  <2>1. call'.pc = "count"
    BY <1>a, <1>6 DEF Take, Goto, Calls
  <2> QED BY <1>b, <1>k, <1>6, <2>1 DEF Take
<1>7. CASE Count
  <2>1. call.pc = "count" /\ call'.pc = "hint"
    BY <1>a, <1>7 DEF Count, Goto, Calls
  <2> QED BY <1>a, <1>b, <1>c, <1>7, <2>1 DEF Count, CountCovers
<1>8. CASE ReturnPage
  <2>1. call.pc = "hint" /\ call'.pc = "idle"
    BY <1>0, <1>8 DEF ReturnPage
  <2>2. Cardinality(mine') <= Cardinality(mine) + 1 /\ mine' \in SUBSET Pages
    <3>1. call.i \in Pages
      BY <1>a, <1>8, SizeLemma DEF ReturnPage, CallOK, Calls
    <3> QED BY <1>a, <1>8, <3>1, OneMore DEF ReturnPage
  <2>3. Cardinality(mine') \in Nat
    BY <2>2, PagesFinite
  <2> QED BY <1>a, <1>b, <1>c, <1>8, <2>1, <2>2, <2>3 DEF ReturnPage, CountCovers
<1>9. CASE ReturnNull
  BY <1>0, <1>b, <1>k, <1>9 DEF ReturnNull
<1>10. CASE TestRun
  <2>1. call'.pc \in {"run", "full", "mark"}
    BY <1>a, <1>10 DEF TestRun, Calls
  <2> QED BY <1>b, <1>k, <1>10, <2>1 DEF TestRun
<1>11. CASE Mark
  <2>1. call'.pc = "mark"
    BY <1>a, <1>11 DEF Mark, Calls
  <2> QED BY <1>b, <1>k, <1>11, <2>1 DEF Mark
<1>12. CASE ReturnRun
  <2>1. call'.pc = "idle" /\ call.pc = "mark"
    BY <1>0, <1>12 DEF ReturnRun
  <2>2. call.i \in Nat /\ call.n \in Nat /\ call.i + call.n <= Total
    BY <1>a, <2>1, SizeLemma DEF CallOK, Calls
  <2>3. Run(call.i, call.n) \in SUBSET Pages
    BY <2>2, PmmAssumption DEF Run, Pages
  <2>4. Cardinality(mine') <= Cardinality(mine) + call.n /\ mine' \in SUBSET Pages
    BY <1>a, <1>12, <2>2, <2>3, AddLemma, RunSize DEF ReturnRun
  <2>5. Cardinality(mine') \in Nat
    BY <2>4, PagesFinite
  <2> QED BY <1>a, <1>b, <1>c, <1>12, <2>1, <2>2, <2>4, <2>5 DEF ReturnRun, Gain, CountCovers
<1>13. CASE Clear
  <2>1. call.pc = "clear" /\ call'.pc = "uncount"
    BY <1>a, <1>13 DEF Clear, Goto, Calls
  <2> QED BY <1>b, <1>k, <1>13, <2>1 DEF Clear
<1>14. CASE Uncount
  <2>1. call.pc = "uncount" /\ call'.pc = "idle"
    BY <1>0, <1>14 DEF Uncount
  <2> QED BY <1>a, <1>b, <1>c, <1>14, <2>1 DEF Uncount, CountCovers
<1>15. ASSUME NEW n \in Runs, BeginRun(n) PROVE CountCovers'
  <2>1. call'.pc = "run"
    BY <1>15 DEF BeginRun, Idle
  <2> QED BY <1>b, <1>k, <1>15, <2>1 DEF BeginRun
<1>16. ASSUME NEW p \in mine, BeginFree(p) PROVE CountCovers'
  <2>1. Cardinality(mine') = Cardinality(mine) - 1
    BY <1>a, <1>16, OneLess DEF BeginFree
  <2>2. call.pc = "idle" /\ theirs' = theirs /\ allocated' = allocated
    BY <1>16 DEF BeginFree
  <2>3. Pending = 0 /\ Pending' \in {0, 1}
    BY <1>b, <2>2
  <2> QED BY <1>a, <1>c, <2>1, <2>2, <2>3 DEF CountCovers
<1>18. CASE AllocPage
  <2>1. FirstFree(hint) \in Pages
    BY <1>18, FreeLemma DEF AllocPage, TypeOK
  <2>2. Cardinality(theirs') <= Cardinality(theirs) + 1 /\ theirs' \in SUBSET Pages
    BY <1>a, <1>18, <2>1, OneMore DEF AllocPage
  <2>3. Cardinality(theirs') \in Nat /\ mine' = mine /\ call' = call /\ allocated' = allocated + 1
    BY <1>18, <2>2, PagesFinite DEF AllocPage
  <2> QED BY <1>a, <1>b, <1>c, <2>2, <2>3 DEF CountCovers
<1>19. ASSUME NEW n \in Runs, AllocPages(n) PROVE CountCovers'
  <2> DEFINE i == LowestIn(Starts(n))
  <2>1. i \in Nat /\ n \in Nat /\ Run(i, n) \in SUBSET Pages
    BY <1>19, StartLemma, PmmAssumption DEF AllocPages, Starts, Pages
  <2>2. theirs' = theirs \cup Run(i, n) /\ mine' = mine /\ call' = call /\ allocated' = allocated + n
    BY <1>19 DEF AllocPages, Gain
  <2> HIDE DEF i
  <2>3. Cardinality(theirs') <= Cardinality(theirs) + n /\ theirs' \in SUBSET Pages
    BY <1>a, <2>1, <2>2, AddLemma, RunSize
  <2>4. Cardinality(theirs') \in Nat
    BY <2>3, PagesFinite
  <2> QED BY <1>a, <1>b, <1>c, <2>1, <2>2, <2>3, <2>4 DEF CountCovers
<1>20. ASSUME NEW p \in mine \cup theirs, FreePage(p) PROVE CountCovers'
  <2>1. /\ Cardinality(mine') = IF p \in mine THEN Cardinality(mine) - 1 ELSE Cardinality(mine)
        /\ Cardinality(theirs') = IF p \in theirs THEN Cardinality(theirs) - 1 ELSE Cardinality(theirs)
    BY <1>a, <1>20, OneLess DEF FreePage
  <2>2. call' = call /\ allocated' \in {allocated, allocated - 1}
    BY <1>20 DEF FreePage
  <2>3. Pending' = Pending /\ Pending \in Nat
    BY <1>b, <2>2
  <2> QED BY <1>a, <1>c, <2>1, <2>2, <2>3 DEF CountCovers
<1> QED BY <1>1, <1>2, <1>3, <1>4, <1>5, <1>6, <1>7, <1>8, <1>9, <1>10, <1>11, <1>12,
           <1>13, <1>14, <1>15, <1>16, <1>18, <1>19, <1>20 DEF Next, ShellStep

----------------------------------------------------------------------------
(* The invariant holds in every reachable state, however calls interleave. *)
THEOREM Invariance == Spec => []IInv
<1>1. IInv /\ [Next]_vars => IInv'
  BY TypeStep, KeepStep, CountStep DEF IInv
<1> QED BY <1>1, Initial, PTL DEF Spec

(* Every variable keeps its type, so the counter never goes below zero. *)
THEOREM Types == Spec => []TypeOK
<1>1. IInv => TypeOK
  BY DEF IInv
<1> QED BY <1>1, Invariance, PTL

(* Reserved pages stay marked and are never given out, however calls interleave. *)
THEOREM Kept == Spec => []ReservedKept
<1>1. IInv => ReservedKept
  BY DEF IInv
<1> QED BY <1>1, Invariance, PTL

(* The counter covers the pages that are out, however calls interleave. *)
THEOREM Counted == Spec => []CountCovers
<1>1. IInv => CountCovers
  BY DEF IInv
<1> QED BY <1>1, Invariance, PTL

----------------------------------------------------------------------------
(* When no free page is below the hint, the search that starts there is first fit. *)
LEMMA LowestFree ==
  ASSUME TypeOK, FreePages # {}, \A p \in FreePages : hint <= p
  PROVE  FirstFree(hint) \in FreePages /\ \A p \in FreePages : FirstFree(hint) <= p
<1>1. FreePages \in SUBSET Nat
  BY PmmAssumption DEF FreePages, Pages
<1>2. {p \in FreePages : p >= hint} = FreePages
  BY <1>1, PmmAssumption DEF TypeOK
<1>3. FirstFree(hint) = LowestIn(FreePages)
  BY <1>2 DEF FirstFree
<1> QED BY <1>1, <1>3, LowestLemma

(* Every step that comes alone keeps ownership and what the searches know. *)
LEMMA AloneStep ==
  ASSUME IInv, IInv', AloneInv, [Next]_vars
  PROVE  AloneInv'
<1> SUFFICES ASSUME overlap' = "no" PROVE AloneInv'
  BY DEF AloneInv, SeenOK, Exclusive, SearchComplete
<1>a. overlap = "no"
  BY DEF Next, ShellStep, vars, BeginPage, TestPage, WrapAround, NoPage, Take, Count,
         ReturnPage, ReturnNull, TestRun, Mark, ReturnRun, Clear, Uncount, BeginRun, BeginFree,
         AllocPage, AllocPages, FreePage, Overlap
<1>b. /\ TypeOK /\ CallOK /\ ReservedKept /\ KeepOK /\ call \in Calls
      /\ used \subseteq Pages /\ mine \subseteq Pages /\ theirs \subseteq Pages
      /\ Total \in Nat /\ hint \in 0 .. Total
      /\ call.i \in 0 .. Total /\ call.j \in 0 .. Total /\ call.limit \in 0 .. Total
      /\ call.n \in Runs \cup {1}
  BY PmmAssumption DEF IInv, TypeOK, Calls
<1>c. /\ mine \cap theirs = {}
      /\ InFlight \cap (mine \cup theirs) = {}
      /\ used = Reserved \cup mine \cup theirs \cup InFlight
  BY <1>a DEF AloneInv, Exclusive
<1>d. \A p \in Pages : p \in Nat /\ p < Total
  BY PmmAssumption DEF Pages
<1>e. \A n \in Runs : n \in Nat /\ n > 1 /\ n <= Total
  BY PmmAssumption
<1>0. Idle.pc = "idle"
  BY IdleLemma
<1>x. ASSUME used' = used, mine' = mine, theirs' = theirs, InFlight' = InFlight
      PROVE  Exclusive'
  BY <1>c, <1>x DEF Exclusive
<1>y. ASSUME call'.pc \notin {"take", "mark", "full", "idle"}
      PROVE  SearchComplete'
  BY <1>y DEF SearchComplete
<1>f. /\ call.pc # "uncount" => Below(hint)
      /\ call.pc = "uncount" => \A q \in Pages : q < hint /\ q # call.i => q \in used
      /\ call.pc = "first" => call.limit = Total
      /\ call.pc = "second" => Below(Total)
      /\ call.pc \in {"first", "take", "count", "hint"} => Below(call.i)
      /\ call.pc = "take" => call.i \notin used
      /\ call.pc = "hint" => call.i \in used
      /\ call.pc = "clear" => call.i \in used
      /\ call.pc \in {"take", "clear"} => call.seen = used \cap Byte(call.i)
      /\ call.pc = "run" => /\ \A k \in Run(call.i, call.j) : k \notin used
                            /\ \A s \in Starts(call.n) : call.i <= s
      /\ call.pc = "mark" => \A k \in Run(call.i + call.j, call.n - call.j) : k \notin used
  BY <1>a DEF AloneInv, SeenOK
<1>g. FreePages \in SUBSET Nat /\ \A p : p \in FreePages <=> p \in Pages /\ p \notin used
  BY <1>d DEF FreePages
<1>i. /\ call.pc \notin {"count", "hint", "clear", "mark"} => InFlight = {}
      /\ call.pc \in {"count", "hint", "clear"} => InFlight = {call.i}
      /\ call.pc = "mark" => InFlight = Run(call.i, call.j)
      /\ call'.pc \notin {"count", "hint", "clear", "mark"} => InFlight' = {}
      /\ call'.pc \in {"count", "hint", "clear"} => InFlight' = {call'.i}
      /\ call'.pc = "mark" => InFlight' = Run(call'.i, call'.j)
  BY DEF InFlight
<1>1. CASE UNCHANGED vars
  <2>1. SeenOK'
    BY <1>1 DEF vars, AloneInv, SeenOK, Below, Byte, Run, Starts, FreePages
  <2>2. Exclusive'
    BY <1>1 DEF vars, AloneInv, Exclusive, InFlight, Run
  <2>3. SearchComplete'
    BY <1>1 DEF vars, AloneInv, SearchComplete, FreePages, Starts, LowestIn, Run
  <2> QED BY <2>1, <2>2, <2>3 DEF AloneInv
<1>2. CASE BeginPage
  <2>1. /\ call.pc = "idle" /\ call'.pc = "first" /\ call'.i = hint /\ call'.limit = Total
        /\ used' = used /\ mine' = mine /\ theirs' = theirs /\ hint' = hint
    BY <1>2 DEF BeginPage, Idle
  <2>2. SeenOK'
    BY <1>f, <2>1 DEF SeenOK, Below
  <2>3. Exclusive'
    BY <1>i, <1>x, <2>1
  <2>4. SearchComplete'
    BY <1>y, <2>1
  <2> QED BY <2>2, <2>3, <2>4 DEF AloneInv
<1>3. CASE TestPage
  <2>0. /\ call.pc \in {"first", "second"} /\ call.i < call.limit
        /\ used' = used /\ mine' = mine /\ theirs' = theirs /\ hint' = hint
    BY <1>3 DEF TestPage
  <2>1. CASE call.i \in used
    <3>1. call'.pc = call.pc /\ call'.i = call.i + 1 /\ call'.limit = call.limit
      BY <1>3, <1>b, <2>1 DEF TestPage, Calls
    <3>2. call.pc = "first" => \A q \in Pages : q < call.i + 1 => q \in used
      BY <1>b, <1>d, <1>f, <2>1 DEF Below
    <3>3. SeenOK'
      BY <1>f, <2>0, <3>1, <3>2 DEF SeenOK, Below
    <3>4. Exclusive'
      BY <1>i, <1>x, <2>0, <3>1
    <3>5. SearchComplete'
      BY <1>y, <2>0, <3>1
    <3> QED BY <3>3, <3>4, <3>5 DEF AloneInv
  <2>2. CASE call.i \notin used
    <3>1. call'.pc = "take" /\ call'.i = call.i /\ call'.seen = used \cap Byte(call.i)
      BY <1>3, <1>b, <2>2 DEF TestPage, Calls
    <3>2. call.i \in Pages
      BY <1>b, <2>0, SizeLemma
    <3>3. call.pc = "first"
      BY <1>b, <1>d, <1>f, <2>0, <2>2, <3>2 DEF Below
    <3>4. \A p \in FreePages : call.i <= p
      BY <1>b, <1>d, <1>f, <1>g, <3>3 DEF Below
    <3>5. call.i \in FreePages
      BY <1>g, <2>2, <3>2
    <3>6. LowestIn(FreePages) = call.i
      BY <1>g, <3>4, <3>5, LowestUnique
    <3>7. SeenOK'
      BY <1>f, <2>0, <2>2, <3>1, <3>3 DEF SeenOK, Below, Byte
    <3>8. Exclusive'
      BY <1>i, <1>x, <2>0, <3>1
    <3>9. FreePages' = FreePages
      BY <2>0 DEF FreePages
    <3>10. SearchComplete'
      BY <3>1, <3>6, <3>9 DEF SearchComplete
    <3> QED BY <3>7, <3>8, <3>10 DEF AloneInv
  <2> QED BY <2>1, <2>2
<1>4. CASE WrapAround
  <2>1. /\ call.pc = "first" /\ call'.pc = "second" /\ call.i >= Total
        /\ used' = used /\ mine' = mine /\ theirs' = theirs /\ hint' = hint
    BY <1>4, <1>b, <1>f DEF WrapAround, Calls
  <2>2. Below(Total)
    BY <1>b, <1>d, <1>f, <2>1 DEF Below
  <2>3. SeenOK'
    BY <1>f, <2>1, <2>2 DEF SeenOK, Below
  <2>4. Exclusive'
    BY <1>i, <1>x, <2>1
  <2>5. SearchComplete'
    BY <1>y, <2>1
  <2> QED BY <2>3, <2>4, <2>5 DEF AloneInv
<1>5. CASE NoPage
  <2>1. /\ call.pc = "second" /\ call'.pc = "full" /\ call'.n = call.n
        /\ used' = used /\ mine' = mine /\ theirs' = theirs /\ hint' = hint
    BY <1>5, <1>b DEF NoPage, Goto, Calls
  <2>2. call'.n = 1 /\ FreePages' = {}
    BY <1>b, <1>d, <1>f, <2>1 DEF CallOK, FreePages, Below
  <2>3. SeenOK'
    BY <1>f, <2>1 DEF SeenOK, Below
  <2>4. Exclusive'
    BY <1>i, <1>x, <2>1
  <2>5. SearchComplete'
    BY <2>1, <2>2 DEF SearchComplete
  <2> QED BY <2>3, <2>4, <2>5 DEF AloneInv
<1>6. CASE Take
  <2>1. /\ call.pc = "take" /\ call'.pc = "count" /\ call'.i = call.i
        /\ mine' = mine /\ theirs' = theirs /\ hint' = hint
    BY <1>6, <1>b DEF Take, Goto, Calls
  <2>2. used' = used \cup {call.i}
    BY <1>6, <1>f, <2>1 DEF Take, AfterSet
  <2>3. SeenOK'
    BY <1>f, <2>1, <2>2 DEF SeenOK, Below
  <2>4. Exclusive'
    BY <1>c, <1>f, <1>i, <2>1, <2>2 DEF Exclusive
  <2>5. SearchComplete'
    BY <1>y, <2>1
  <2> QED BY <2>3, <2>4, <2>5 DEF AloneInv
<1>7. CASE Count
  <2>1. /\ call.pc = "count" /\ call'.pc = "hint" /\ call'.i = call.i
        /\ used' = used /\ mine' = mine /\ theirs' = theirs /\ hint' = hint
    BY <1>7, <1>b DEF Count, Goto, Calls
  <2>2. call.i \in used
    BY <1>c, <1>i, <2>1
  <2>3. SeenOK'
    BY <1>f, <2>1, <2>2 DEF SeenOK, Below
  <2>4. Exclusive'
    BY <1>i, <1>x, <2>1
  <2>5. SearchComplete'
    BY <1>y, <2>1
  <2> QED BY <2>3, <2>4, <2>5 DEF AloneInv
<1>z. ASSUME call'.pc = "idle", Below(hint)'
      PROVE  SeenOK' /\ SearchComplete'
  <2>1. SeenOK'
    BY <1>z DEF SeenOK
  <2>2. hint' \in Nat /\ \A p \in FreePages' : p \in Pages /\ p \in Nat /\ p \notin used'
    BY <1>d, PmmAssumption DEF IInv, TypeOK, FreePages
  <2>3. \A p \in FreePages' : hint' <= p
    BY <1>z, <2>2 DEF Below
  <2> QED BY <1>z, <2>1, <2>3 DEF SearchComplete
<1>8. CASE ReturnPage
  <2>1. /\ call.pc = "hint" /\ call'.pc = "idle" /\ hint' = call.i + 1
        /\ used' = used /\ mine' = mine \cup {call.i} /\ theirs' = theirs
    BY <1>0, <1>8 DEF ReturnPage, NextHint
  <2>2. Below(hint)'
    BY <1>b, <1>d, <1>f, <2>1 DEF Below
  <2>3. Exclusive'
    BY <1>c, <1>i, <2>1 DEF Exclusive
  <2> QED BY <1>z, <2>1, <2>2, <2>3 DEF AloneInv
<1>9. CASE ReturnNull
  <2>1. /\ call.pc = "full" /\ call'.pc = "idle" /\ hint' = hint
        /\ used' = used /\ mine' = mine /\ theirs' = theirs
    BY <1>0, <1>9 DEF ReturnNull
  <2>2. Below(hint)'
    BY <1>f, <2>1 DEF Below
  <2>3. Exclusive'
    BY <1>i, <1>x, <2>1
  <2> QED BY <1>z, <2>1, <2>2, <2>3 DEF AloneInv
<1>10. CASE TestRun
  <2>0. /\ call.pc = "run" /\ call.n \in Runs /\ call.n \in Nat /\ call.n > 1
        /\ call.i \in Nat /\ call.j \in Nat /\ call.j <= call.n
        /\ used' = used /\ mine' = mine /\ theirs' = theirs /\ hint' = hint
    BY <1>10, <1>b, <1>e DEF TestRun, CallOK
  <2>1. Starts(call.n)' = Starts(call'.n) /\ Starts(call.n) \in SUBSET Nat
    BY <1>d, <2>0 DEF Starts, FreePages
  <2>2. CASE call.i + call.n > Total
    <3>1. call'.pc = "full" /\ call'.n = call.n
      BY <1>10, <1>b, <2>2 DEF TestRun, Calls
    <3>2. ASSUME NEW s \in Starts(call.n) PROVE FALSE
      <4>1. s \in Nat /\ call.i <= s
        BY <1>f, <2>0, <2>1
      <4>2. s + call.n - 1 \in Run(s, call.n)
        BY <2>0, <4>1 DEF Run
      <4>3. s + call.n - 1 \in Pages
        BY <1>g, <4>2 DEF Starts
      <4> QED BY <1>b, <1>d, <2>0, <2>2, <4>1, <4>3
    <3>3. SearchComplete'
      BY <2>0, <2>1, <3>1, <3>2 DEF SearchComplete
    <3>4. SeenOK'
      BY <1>f, <2>0, <3>1 DEF SeenOK, Below
    <3>5. Exclusive'
      BY <1>i, <1>x, <2>0, <3>1
    <3> QED BY <3>3, <3>4, <3>5 DEF AloneInv
  <2>3. CASE call.i + call.n <= Total /\ call.j = call.n
    <3>1. call'.pc = "mark" /\ call'.i = call.i /\ call'.j = 0 /\ call'.n = call.n
      BY <1>10, <1>b, <2>0, <2>3 DEF TestRun, Complete, Calls
    <3>2. call.i \in Starts(call.n)
      <4>1. \A k \in Run(call.i, call.n) : k \in Pages /\ k \notin used
        BY <1>b, <1>f, <2>0, <2>3 DEF Run, Pages
      <4>2. call.i \in Pages
        BY <1>b, <2>0, <2>3 DEF Pages
      <4> QED BY <1>g, <4>1, <4>2 DEF Starts
    <3>3. LowestIn(Starts(call.n)) = call.i
      BY <1>f, <2>0, <2>1, <3>2, LowestUnique
    <3>4. SearchComplete'
      BY <2>0, <2>1, <3>1, <3>3 DEF SearchComplete
    <3>5. \A k \in Run(call'.i + call'.j, call'.n - call'.j) : k \notin used
      BY <1>f, <2>0, <2>3, <3>1 DEF Run
    <3>6. SeenOK'
      BY <1>f, <2>0, <3>1, <3>5 DEF SeenOK, Below
    <3>7. Run(call'.i, call'.j) = {}
      BY <2>0, <3>1 DEF Run
    <3>8. Exclusive'
      BY <1>i, <1>x, <2>0, <3>1, <3>7
    <3> QED BY <3>4, <3>6, <3>8 DEF AloneInv
  <2>4. CASE call.i + call.n <= Total /\ call.j # call.n /\ call.i + call.j \in used
    <3>1. /\ call'.pc = "run" /\ call'.i = call.i + call.j + 1 /\ call'.j = 0
          /\ call'.n = call.n
      BY <1>10, <1>b, <2>0, <2>4 DEF TestRun, Skip, Complete, Calls
    <3>2. ASSUME NEW s \in Starts(call.n) PROVE call.i + call.j + 1 <= s
      <4>1. s \in Nat /\ call.i <= s
        BY <1>f, <2>0, <2>1
      <4>2. call.i + call.j \notin Run(s, call.n)
        BY <1>g, <2>4 DEF Starts
      <4> QED BY <2>0, <2>4, <4>1, <4>2 DEF Run
    <3>3. Run(call'.i, call'.j) = {}
      BY <2>0, <3>1 DEF Run
    <3>4. \A s \in Starts(call.n)' : call'.i <= s
      BY <2>1, <3>1, <3>2
    <3>5. SeenOK'
      BY <1>f, <2>0, <3>1, <3>3, <3>4 DEF SeenOK, Below
    <3>6. Exclusive'
      BY <1>i, <1>x, <2>0, <3>1
    <3>7. SearchComplete'
      BY <1>y, <3>1
    <3> QED BY <3>5, <3>6, <3>7 DEF AloneInv
  <2>5. CASE call.i + call.n <= Total /\ call.j # call.n /\ call.i + call.j \notin used
    <3>1. call'.pc = "run" /\ call'.i = call.i /\ call'.j = call.j + 1 /\ call'.n = call.n
      BY <1>10, <1>b, <2>0, <2>5 DEF TestRun, Complete, Calls
    <3>2. \A k \in Run(call'.i, call'.j) : k \in Run(call.i, call.j) \/ k = call.i + call.j
      BY <2>0, <3>1 DEF Run
    <3>3. \A s \in Starts(call.n)' : call'.i <= s
      BY <1>f, <2>0, <2>1, <3>1
    <3>4. \A k \in Run(call'.i, call'.j) : k \notin used
      BY <1>f, <2>0, <2>5, <3>2
    <3>5. SeenOK'
      BY <1>f, <2>0, <3>1, <3>3, <3>4 DEF SeenOK, Below
    <3>6. Exclusive'
      BY <1>i, <1>x, <2>0, <3>1
    <3>7. SearchComplete'
      BY <1>y, <3>1
    <3> QED BY <3>5, <3>6, <3>7 DEF AloneInv
  <2> QED BY <1>b, <2>0, <2>2, <2>3, <2>4, <2>5
<1>11. CASE Mark
  <2>1. /\ call.pc = "mark" /\ call'.pc = "mark" /\ call'.i = call.i /\ call'.n = call.n
        /\ call'.j = call.j + 1 /\ call.j < call.n /\ used' = used \cup {call.i + call.j}
        /\ mine' = mine /\ theirs' = theirs /\ hint' = hint
    BY <1>11, <1>b DEF Mark, Calls
  <2>2. call.i \in Nat /\ call.j \in Nat /\ call.n \in Nat
    BY <1>b, <1>e, <2>1 DEF CallOK
  <2>3. call.i + call.j \notin used
    BY <1>f, <2>1, <2>2 DEF Run
  <2>4. Run(call'.i, call'.j) = Run(call.i, call.j) \cup {call.i + call.j}
    BY <2>1, <2>2 DEF Run
  <2>5. \A k \in Run(call'.i + call'.j, call'.n - call'.j) :
          k \in Run(call.i + call.j, call.n - call.j) /\ k # call.i + call.j
    BY <2>1, <2>2 DEF Run
  <2>6. SeenOK'
    BY <1>f, <2>1, <2>5 DEF SeenOK, Below
  <2>7. Exclusive'
    BY <1>c, <1>i, <2>1, <2>3, <2>4 DEF Exclusive
  <2>8. SearchComplete'
    BY <2>1, <2>2 DEF SearchComplete
  <2> QED BY <2>6, <2>7, <2>8 DEF AloneInv
<1>12. CASE ReturnRun
  <2>1. /\ call.pc = "mark" /\ call'.pc = "idle" /\ call.j = call.n /\ hint' = hint
        /\ used' = used /\ mine' = mine \cup Run(call.i, call.n) /\ theirs' = theirs
    BY <1>0, <1>12 DEF ReturnRun
  <2>2. Below(hint)'
    BY <1>f, <2>1 DEF Below
  <2>3. Exclusive'
    BY <1>c, <1>i, <2>1 DEF Exclusive
  <2> QED BY <1>z, <2>1, <2>2, <2>3 DEF AloneInv
<1>13. CASE Clear
  <2>1. /\ call.pc = "clear" /\ call'.pc = "uncount" /\ call'.i = call.i
        /\ mine' = mine /\ theirs' = theirs /\ hint' = hint
    BY <1>13, <1>b DEF Clear, Goto, Calls
  <2>2. used' = used \ {call.i}
    <3>1. call.i \in Byte(call.i)
      BY <1>b, <2>1, SizeLemma DEF CallOK, Byte
    <3> QED BY <1>13, <1>f, <2>1, <3>1 DEF Clear, AfterUnset
  <2>3. call.i \notin Reserved
    BY <1>b, <2>1 DEF KeepOK
  <2>4. SeenOK'
    BY <1>f, <2>1, <2>2 DEF SeenOK, Below
  <2>5. Exclusive'
    BY <1>c, <1>i, <2>1, <2>2, <2>3 DEF Exclusive
  <2>6. SearchComplete'
    BY <1>y, <2>1
  <2> QED BY <2>4, <2>5, <2>6 DEF AloneInv
<1>14. CASE Uncount
  <2>1. /\ call.pc = "uncount" /\ call'.pc = "idle"
        /\ hint' = IF call.i < hint THEN call.i ELSE hint
        /\ used' = used /\ mine' = mine /\ theirs' = theirs
    BY <1>0, <1>14 DEF Uncount, LowerHint
  <2>2. Below(hint)'
    BY <1>b, <1>d, <1>f, <2>1 DEF Below
  <2>3. Exclusive'
    BY <1>i, <1>x, <2>1
  <2> QED BY <1>z, <2>1, <2>2, <2>3 DEF AloneInv
<1>15. ASSUME NEW n \in Runs, BeginRun(n) PROVE AloneInv'
  <2>1. /\ call.pc = "idle" /\ call'.pc = "run" /\ call'.i = 0 /\ call'.j = 0
        /\ used' = used /\ mine' = mine /\ theirs' = theirs /\ hint' = hint
    BY <1>15 DEF BeginRun, Idle
  <2>2. Run(call'.i, call'.j) = {}
    BY <2>1 DEF Run
  <2>3. \A s \in Starts(call.n)' : call'.i <= s
    BY <1>d, <2>1 DEF Starts
  <2>4. SeenOK'
    BY <1>f, <2>1, <2>2, <2>3 DEF SeenOK, Below
  <2>5. Exclusive'
    BY <1>i, <1>x, <2>1
  <2>6. SearchComplete'
    BY <1>y, <2>1
  <2> QED BY <2>4, <2>5, <2>6 DEF AloneInv
<1>16. ASSUME NEW p \in mine, BeginFree(p) PROVE AloneInv'
  <2>1. /\ call.pc = "idle" /\ call'.pc = "clear" /\ call'.i = p
        /\ call'.seen = used \cap Byte(p)
        /\ used' = used /\ mine' = mine \ {p} /\ theirs' = theirs /\ hint' = hint
    BY <1>16, <1>c DEF BeginFree, Idle
  <2>2. p \in used
    BY <1>c
  <2>3. SeenOK'
    BY <1>f, <2>1, <2>2 DEF SeenOK, Below, Byte
  <2>4. Exclusive'
    BY <1>c, <1>i, <2>1 DEF Exclusive
  <2>5. SearchComplete'
    BY <1>y, <2>1
  <2> QED BY <2>3, <2>4, <2>5 DEF AloneInv
<1>17. ASSUME Overlap, call' = call
       PROVE  call.pc = "idle" /\ call'.pc = "idle" /\ InFlight = {} /\ InFlight' = {} /\ Below(hint)
  BY <1>17, <1>f, <1>i DEF Overlap
<1>18. CASE AllocPage
  <2> DEFINE p == FirstFree(hint)
  <2>1. /\ FreePages # {} /\ used' = used \cup {p} /\ theirs' = theirs \cup {p} /\ mine' = mine
        /\ hint' = p + 1 /\ call' = call /\ Overlap
    BY <1>18 DEF AllocPage, NextHint
  <2>2. \A q \in FreePages : hint <= q
    BY <1>b, <1>d, <1>g, <1>17, <2>1 DEF Below
  <2>3. p \in FreePages /\ \A q \in FreePages : p <= q
    BY <1>b, <2>1, <2>2, LowestFree
  <2> HIDE DEF p
  <2>4. Below(hint)'
    BY <1>d, <1>g, <2>1, <2>3 DEF Below
  <2>5. Exclusive'
    BY <1>c, <1>g, <1>17, <2>1, <2>3 DEF Exclusive
  <2> QED BY <1>z, <1>17, <2>1, <2>4, <2>5 DEF AloneInv
<1>19. ASSUME NEW n \in Runs, AllocPages(n) PROVE AloneInv'
  <2> DEFINE r == Run(LowestIn(Starts(n)), n)
  <2>1. /\ used' = used \cup r /\ theirs' = theirs \cup r /\ mine' = mine
        /\ hint' = hint /\ call' = call /\ Overlap
    BY <1>19 DEF AllocPages
  <2>2. r \cap used = {}
    BY <1>19, StartLemma DEF AllocPages
  <2> HIDE DEF r
  <2>3. Below(hint)'
    BY <1>17, <2>1 DEF Below
  <2>4. Exclusive'
    BY <1>c, <1>17, <2>1, <2>2 DEF Exclusive
  <2> QED BY <1>z, <1>17, <2>1, <2>3, <2>4 DEF AloneInv
<1>20. ASSUME NEW p \in mine \cup theirs, FreePage(p) PROVE AloneInv'
  <2>1. p \in used /\ p \notin Reserved /\ p \in Pages
    BY <1>b, <1>c DEF ReservedKept
  <2>2. /\ used' = used \ {p} /\ theirs' = theirs \ {p} /\ mine' = mine \ {p}
        /\ hint' = (IF p < hint THEN p ELSE hint) /\ call' = call /\ Overlap
    BY <1>20, <2>1 DEF FreePage, LowerHint
  <2>3. Below(hint)'
    BY <1>b, <1>d, <1>17, <2>1, <2>2 DEF Below
  <2>4. Exclusive'
    BY <1>c, <1>17, <2>1, <2>2 DEF Exclusive
  <2> QED BY <1>z, <1>17, <2>2, <2>3, <2>4 DEF AloneInv
<1> QED BY <1>1, <1>2, <1>3, <1>4, <1>5, <1>6, <1>7, <1>8, <1>9, <1>10, <1>11, <1>12,
           <1>13, <1>14, <1>15, <1>16, <1>18, <1>19, <1>20 DEF Next, ShellStep

(* Before the first call nothing is given out and every page below the hint is used. *)
LEMMA AloneInitial == Init => AloneInv
<1> SUFFICES ASSUME Init PROVE AloneInv
  OBVIOUS
<1>1. call.pc = "idle" /\ hint = 0
  BY IdleLemma DEF Init
<1>2. \A q \in Pages : q \in Nat
  BY PmmAssumption DEF Pages
<1>3. SeenOK
  BY <1>1, <1>2 DEF SeenOK, Below
<1>4. Exclusive
  BY <1>1 DEF Init, Exclusive, InFlight
<1>5. SearchComplete
  BY <1>1, <1>2 DEF SearchComplete, FreePages
<1> QED BY <1>3, <1>4, <1>5 DEF AloneInv

(* While calls do not overlap, a page has one owner and no page is lost. *)
THEOREM Owned == Spec => []Exclusive
<1>1. AloneInv => Exclusive
  BY DEF AloneInv
<1>2. Spec => []AloneInv
  BY Invariance, AloneInitial, AloneStep, PTL DEF Spec
<1> QED BY <1>1, <1>2, PTL

(* While calls do not overlap, both searches are first fit and complete. *)
THEOREM FirstFit == Spec => []SearchComplete
<1>1. AloneInv => SearchComplete
  BY DEF AloneInv
<1>2. Spec => []AloneInv
  BY Invariance, AloneInitial, AloneStep, PTL DEF Spec
<1> QED BY <1>1, <1>2, PTL

----------------------------------------------------------------------------
(* The kernel heap. *)

(* What can be reached by adding ones is every number. *)
LEMMA AllNumbers ==
  ASSUME NEW S \in SUBSET Nat, 0 \in S, \A k \in S : k + 1 \in S
  PROVE  S = Nat
<1> SUFFICES ASSUME Nat \ S # {} PROVE FALSE
  OBVIOUS
<1> DEFINE k == LowestIn(Nat \ S)
<1>1. k \in Nat \ S /\ \A q \in Nat \ S : k <= q
  BY LowestLemma
<1> HIDE DEF k
<1>2. k # 0
  BY <1>1
<1>3. k - 1 \in Nat /\ k - 1 \notin Nat \ S
  BY <1>1, <1>2
<1>4. (k - 1) + 1 \in S
  BY <1>3
<1> QED BY <1>1, <1>4

(* A nonempty set of numbers that are not above n has a highest one. *)
LEMMA HighestLemma ==
  ASSUME NEW n \in Nat, NEW S \in SUBSET (0 .. n), S # {}
  PROVE  \E p \in S : \A q \in S : q <= p
<1> DEFINE T == {k \in Nat : n - k \in S}
<1>1. T \in SUBSET Nat /\ T # {}
  <2>1. PICK q \in S : TRUE
    OBVIOUS
  <2>2. n - q \in Nat /\ n - (n - q) = q
    BY <2>1
  <2> QED BY <2>1, <2>2
<1>2. LowestIn(T) \in T /\ \A k \in T : LowestIn(T) <= k
  <2> HIDE DEF T
  <2> QED BY <1>1, LowestLemma
<1>3. n - LowestIn(T) \in S
  BY <1>2
<1>4. ASSUME NEW q \in S PROVE q <= n - LowestIn(T)
  <2>1. n - q \in Nat /\ n - (n - q) = q
    OBVIOUS
  <2>2. n - q \in T
    BY <2>1
  <2>3. LowestIn(T) <= n - q /\ LowestIn(T) \in Nat
    BY <1>2, <2>2
  <2> HIDE DEF T
  <2> QED BY <2>3
<1> QED BY <1>3, <1>4

----------------------------------------------------------------------------
(* The free list.  F is the set of free blocks; the list goes through them in the
   order of their addresses and comes back over the static header. *)
HeapAddr  == Chunks!Addr
HeapEnd   == Chunks!Base
HeapNodes == HeapAddr \cup {HeapEnd}

HeapTyped(h) ==
  /\ h \in [next : [HeapNodes -> HeapNodes \cup {0}], size : [HeapNodes -> Nat], freelist : HeapNodes]
  /\ h.size[HeapEnd] = 0

Ordered(h, F) ==
  /\ F \subseteq HeapAddr
  /\ h.freelist \in F \cup {HeapEnd}
  /\ \A a \in F \cup {HeapEnd} : h.next[a] \in F \cup {HeapEnd}
  /\ \A a \in F : a < h.next[a]
  /\ \A a, c \in F : a < c => h.next[a] <= c
  /\ \A c \in F : h.next[HeapEnd] <= c

(* Addresses are numbers, and the header is above all blocks. *)
LEMMA HeapNumbers ==
  ASSUME Chunks!HeapConstants, NEW F, F \subseteq HeapAddr
  PROVE  /\ HeapUnits \in Nat /\ HeapEnd = HeapUnits + 1
         /\ \A q \in F : q \in Nat /\ 1 <= q /\ q <= HeapUnits /\ q # HeapEnd
         /\ \A q \in F \cup {HeapEnd} : q \in Nat /\ 1 <= q /\ q <= HeapUnits + 1
BY DEF Chunks!HeapConstants, HeapAddr, HeapEnd, Chunks!Addr, Chunks!Base

(* The function Walk of the model is its equation. *)
WalkBy(h, w) == w = [k \in 0 .. HeapUnits + 2 |-> IF k = 0 THEN h.freelist ELSE h.next[w[k - 1]]]

(* So many steps of it there are: *)
Steps(h, g, n) == g = [k \in 0 .. n |-> g[k]] /\ g[0] = h.freelist /\ \A k \in 0 .. n - 1 : g[k + 1] = h.next[g[k]]

(* A walk of any length can be made. *)
LEMMA StepsExist ==
  ASSUME NEW h, NEW n \in Nat
  PROVE  \E g : Steps(h, g, n)
<1> DEFINE S == {m \in Nat : \E g : Steps(h, g, m)}
<1>1. 0 \in S
  <2> DEFINE g == [k \in 0 .. 0 |-> h.freelist]
  <2>1. Steps(h, g, 0)
    BY DEF Steps
  <2> HIDE DEF g
  <2> QED BY <2>1
<1>2. ASSUME NEW m \in S PROVE m + 1 \in S
  <2>1. PICK g : Steps(h, g, m)
    OBVIOUS
  <2> DEFINE f == [k \in 0 .. m + 1 |-> IF k = m + 1 THEN h.next[g[m]] ELSE g[k]]
  <2>2. m \in Nat /\ m + 1 \in Nat
    OBVIOUS
  <2>3. Steps(h, f, m + 1)
    <3>1. f = [k \in 0 .. m + 1 |-> f[k]]
      OBVIOUS
    <3>2. f[0] = h.freelist
      BY <2>1, <2>2 DEF Steps
    <3>3. ASSUME NEW k \in 0 .. m PROVE f[k + 1] = h.next[f[k]]
      <4>1. k \in 0 .. m + 1 /\ k + 1 \in 0 .. m + 1 /\ k # m + 1
        BY <2>2
      <4>2. CASE k = m
        BY <4>1, <4>2
      <4>3. CASE k # m
        <5>1. k \in 0 .. m - 1 /\ k + 1 # m + 1
          BY <2>2, <4>3
        <5> QED BY <2>1, <4>1, <5>1 DEF Steps
      <4> QED BY <4>2, <4>3
    <3>4. (m + 1) - 1 = m
      BY <2>2
    <3> HIDE DEF f
    <3> QED BY <3>1, <3>2, <3>3, <3>4 DEF Steps
  <2> HIDE DEF f
  <2> QED BY <2>2, <2>3
<1>3. S = Nat
  <2> HIDE DEF S
  <2>1. S \in SUBSET Nat
    BY DEF S
  <2> QED BY <1>1, <1>2, <2>1, AllNumbers
<1> QED BY <1>3

(* The walk of a list: where it starts, and where each step leads. *)
LEMMA WalkLemma ==
  ASSUME Chunks!HeapConstants, NEW h
  PROVE  /\ Chunks!Walk(h)[0] = h.freelist
         /\ \A k \in 0 .. HeapUnits + 1 : Chunks!Walk(h)[k + 1] = h.next[Chunks!Walk(h)[k]]
<1>0. HeapUnits \in Nat
  BY DEF Chunks!HeapConstants
<1>1. PICK g : Steps(h, g, HeapUnits + 2)
  BY <1>0, StepsExist
<1>2. WalkBy(h, g)
  <2>1. g = [k \in 0 .. HeapUnits + 2 |-> g[k]]
    BY <1>1 DEF Steps
  <2>2. ASSUME NEW k \in 0 .. HeapUnits + 2 PROVE g[k] = IF k = 0 THEN h.freelist ELSE h.next[g[k - 1]]
    <3>1. CASE k = 0
      BY <1>1, <3>1 DEF Steps
    <3>2. CASE k # 0
      <4>1. k - 1 \in 0 .. (HeapUnits + 2) - 1 /\ (k - 1) + 1 = k
        BY <1>0, <3>2
      <4> QED BY <1>1, <3>2, <4>1 DEF Steps
    <3> QED BY <3>1, <3>2
  <2>3. [k \in 0 .. HeapUnits + 2 |-> g[k]]
          = [k \in 0 .. HeapUnits + 2 |-> IF k = 0 THEN h.freelist ELSE h.next[g[k - 1]]]
    BY <2>2
  <2> QED BY <2>1, <2>3 DEF WalkBy
<1>3. WalkBy(h, CHOOSE w : WalkBy(h, w))
  BY <1>2
<1>4. Chunks!Walk(h) = CHOOSE w : WalkBy(h, w)
  BY DEF Chunks!Walk, WalkBy
<1> DEFINE w == Chunks!Walk(h)
<1>5. WalkBy(h, w)
  BY <1>3, <1>4
<1> HIDE DEF w
<1>6. \A k \in 0 .. HeapUnits + 2 : w[k] = IF k = 0 THEN h.freelist ELSE h.next[w[k - 1]]
  BY <1>5 DEF WalkBy
<1>7. w[0] = h.freelist
  BY <1>0, <1>6
<1>8. ASSUME NEW k \in 0 .. HeapUnits + 1 PROVE w[k + 1] = h.next[w[k]]
  <2>1. k + 1 \in 0 .. HeapUnits + 2 /\ k + 1 # 0 /\ (k + 1) - 1 = k
    BY <1>0
  <2> QED BY <1>6, <2>1
<1> QED BY <1>7, <1>8 DEF w

(* The walk stays in the list. *)
LEMMA WalkNodes ==
  ASSUME Chunks!HeapConstants, NEW h, NEW F, Ordered(h, F)
  PROVE  \A k \in 0 .. HeapUnits + 2 : Chunks!Walk(h)[k] \in F \cup {HeapEnd}
<1> DEFINE w == Chunks!Walk(h)
           S == {m \in Nat : m <= HeapUnits + 2 => w[m] \in F \cup {HeapEnd}}
<1>0. HeapUnits \in Nat
  BY DEF Chunks!HeapConstants
<1>1. w[0] = h.freelist /\ \A k \in 0 .. HeapUnits + 1 : w[k + 1] = h.next[w[k]]
  BY WalkLemma
<1> HIDE DEF w
<1>2. 0 \in S
  BY <1>1 DEF Ordered
<1>3. ASSUME NEW m \in S PROVE m + 1 \in S
  <2>1. CASE m + 1 <= HeapUnits + 2
    <3>1. w[m] \in F \cup {HeapEnd} /\ m \in 0 .. HeapUnits + 1
      BY <1>0, <2>1
    <3> QED BY <1>1, <3>1 DEF Ordered
  <2> QED BY <2>1
<1>4. S = Nat
  <2>1. S \in SUBSET Nat
    OBVIOUS
  <2> HIDE DEF S
  <2> QED BY <1>2, <1>3, <2>1, AllNumbers
<1>5. ASSUME NEW k \in 0 .. HeapUnits + 2 PROVE w[k] \in F \cup {HeapEnd}
  <2>1. k \in S
    BY <1>0, <1>4
  <2> QED BY <1>0, <2>1
<1> QED BY <1>5 DEF w

(* Going up, the walk passes no block. *)
LEMMA WalkUp ==
  ASSUME Chunks!HeapConstants, NEW h, NEW F, Ordered(h, F), NEW i \in 0 .. HeapUnits + 2,
         NEW c \in F \cup {HeapEnd}, NEW x \in F \cup {HeapEnd}, x = Chunks!Walk(h)[i],
         x <= c, i + (c - x) <= HeapUnits + 2
  PROVE  \E k \in i .. i + (c - x) : Chunks!Walk(h)[k] = c
<1> DEFINE w == Chunks!Walk(h)
           Met(m) == \E k \in i .. i + m : w[k] = c
           S == {m \in Nat : i + m <= HeapUnits + 2 => Met(m) \/ (x + m <= w[i + m] /\ w[i + m] < c)}
<1>b. /\ HeapUnits \in Nat /\ HeapEnd = HeapUnits + 1
      /\ \A q \in F : q \in Nat /\ 1 <= q /\ q <= HeapUnits /\ q # HeapEnd
      /\ \A q \in F \cup {HeapEnd} : q \in Nat /\ 1 <= q /\ q <= HeapUnits + 1
  BY HeapNumbers DEF Ordered
<1>0. HeapUnits \in Nat /\ i \in Nat /\ x \in Nat /\ c \in Nat /\ c <= HeapUnits + 1
  BY <1>b
<1>1. \A k \in 0 .. HeapUnits + 1 : w[k + 1] = h.next[w[k]]
  BY WalkLemma
<1>n. \A k \in 0 .. HeapUnits + 2 : w[k] \in F \cup {HeapEnd}
  BY WalkNodes
<1>w. w[i] = x
  OBVIOUS
<1> HIDE DEF w
<1>2. 0 \in S
  <2>1. CASE x = c
    BY <1>0, <1>w, <2>1
  <2>2. CASE x # c
    BY <1>0, <1>w, <2>2
  <2> QED BY <2>1, <2>2
<1>3. ASSUME NEW m \in S PROVE m + 1 \in S
  <2> SUFFICES ASSUME i + (m + 1) <= HeapUnits + 2, ~Met(m + 1)
               PROVE  x + (m + 1) <= w[i + (m + 1)] /\ w[i + (m + 1)] < c
    OBVIOUS
  <2>1. m \in Nat /\ i + m \in 0 .. HeapUnits + 1 /\ i + (m + 1) = (i + m) + 1
    BY <1>0
  <2>2. ~Met(m)
    BY <1>0, <2>1
  <2>3. x + m <= w[i + m] /\ w[i + m] < c
    BY <1>0, <2>1, <2>2
  <2>4. w[i + m] \in F
    BY <1>0, <1>b, <1>n, <2>1, <2>3
  <2> DEFINE a == w[i + m]
             b == w[i + (m + 1)]
  <2>5. b = h.next[a]
    BY <1>1, <2>1
  <2>6. a < b /\ b \in F \cup {HeapEnd}
    BY <2>4, <2>5 DEF Ordered
  <2>7. b <= c
    <3>1. CASE c \in F
      BY <2>3, <2>4, <2>5, <3>1 DEF Ordered
    <3>2. CASE c = HeapEnd
      BY <1>b, <2>6, <3>2
    <3> QED BY <3>1, <3>2
  <2>8. b # c
    BY <1>0, <2>1
  <2> HIDE DEF a, b
  <2>9. x + (m + 1) <= b /\ b < c
    <3>1. x + m <= a
      BY <2>3 DEF a
    <3>2. a \in Nat /\ b \in Nat
      BY <1>b, <2>4, <2>6 DEF a
    <3> QED BY <1>0, <2>1, <3>1, <3>2, <2>6, <2>7, <2>8
  <2> QED BY <2>9 DEF b
<1>4. S = Nat
  <2>1. S \in SUBSET Nat
    OBVIOUS
  <2> HIDE DEF S
  <2> QED BY <1>2, <1>3, <2>1, AllNumbers
<1>5. c - x \in S
  BY <1>0, <1>4
<1>6. Met(c - x)
  <2>1. x + (c - x) = c
    BY <1>0
  <2>2. i + (c - x) \in 0 .. HeapUnits + 2
    BY <1>0
  <2>3. w[i + (c - x)] \in Nat
    BY <1>b, <1>n, <2>2
  <2> HIDE DEF Met
  <2> QED BY <1>0, <1>5, <2>1, <2>3
<1> QED BY <1>6 DEF w

(* Whatever it starts from, the walk comes to every block, and to the header, within as
   many steps as the heap has units, and back to where it started in one more. *)
LEMMA WalkReaches ==
  ASSUME Chunks!HeapConstants, NEW h, NEW F, Ordered(h, F), NEW c \in F \cup {HeapEnd}
  PROVE  /\ \E k \in 0 .. HeapUnits : Chunks!Walk(h)[k] = c
         /\ \E k \in 1 .. HeapUnits + 1 : Chunks!Walk(h)[k] = c
<1> DEFINE w == Chunks!Walk(h)
           x == h.freelist
           y == h.next[HeapEnd]
<1>b. /\ HeapUnits \in Nat /\ HeapEnd = HeapUnits + 1
      /\ \A q \in F : q \in Nat /\ 1 <= q /\ q <= HeapUnits /\ q # HeapEnd
      /\ \A q \in F \cup {HeapEnd} : q \in Nat /\ 1 <= q /\ q <= HeapUnits + 1
  BY HeapNumbers DEF Ordered
<1>y. y \in F \cup {HeapEnd} /\ x \in F \cup {HeapEnd} /\ \A q \in F : y <= q
  BY DEF Ordered
<1> HIDE DEF x, y
<1>0. /\ HeapUnits \in Nat /\ HeapEnd = HeapUnits + 1
      /\ x \in 1 .. HeapUnits + 1 /\ y \in F \cup {HeapEnd} /\ x \in F \cup {HeapEnd}
      /\ y <= x /\ y <= c /\ x <= HeapEnd /\ y \in Nat /\ 1 <= y /\ c \in Nat /\ c <= HeapEnd
  BY <1>b, <1>y
<1>1. w[0] = x /\ \A k \in 0 .. HeapUnits + 1 : w[k + 1] = h.next[w[k]]
  BY WalkLemma DEF x
<1> HIDE DEF w
<1>h. HeapEnd \in F \cup {HeapEnd} /\ 0 \in 0 .. HeapUnits + 2
  BY <1>0
<1>2. PICK i \in 0 .. HeapEnd - x : w[i] = HeapEnd
  <2>1. 0 + (HeapEnd - x) <= HeapUnits + 2 /\ x = w[0]
    BY <1>0, <1>1
  <2>2. \E k \in 0 .. 0 + (HeapEnd - x) : w[k] = HeapEnd
    BY <1>y, <1>h, <1>0, <2>1, WalkUp DEF w
  <2> QED BY <1>0, <2>2
<1>3. i + 1 \in 0 .. HeapUnits + 2 /\ w[i + 1] = y
  BY <1>0, <1>1, <1>2 DEF y
<1>4. PICK j \in i + 1 .. (i + 1) + (c - y) : c <= x => w[j] = c
  <2>1. CASE c <= x
    <3>1. (i + 1) + (c - y) <= HeapUnits + 2 /\ y = w[i + 1]
      BY <1>0, <1>2, <1>3, <2>1
    <3> QED BY <1>0, <1>3, <3>1, WalkUp DEF w
  <2>2. CASE ~(c <= x)
    <3>1. i + 1 \in i + 1 .. (i + 1) + (c - y)
      BY <1>0
    <3> QED BY <2>2, <3>1
  <2> QED BY <2>1, <2>2
<1>5. CASE x < c
  <2>1. 0 + (c - x) <= HeapUnits + 2 /\ x = w[0] /\ x <= c
    BY <1>0, <1>1, <1>5
  <2>2. PICK k \in 0 .. 0 + (c - x) : w[k] = c
    BY <1>y, <1>h, <2>1, WalkUp DEF w
  <2>3. k \in 0 .. HeapUnits /\ k # 0
    BY <1>0, <1>1, <1>5, <2>2
  <2> QED BY <1>0, <2>2, <2>3 DEF w
<1>6. CASE c = x
  <2>1. w[0] = c
    BY <1>1, <1>6
  <2>2. CASE x # HeapEnd
    <3>1. j \in 1 .. HeapUnits + 1 /\ w[j] = c
      BY <1>0, <1>2, <1>4, <1>6, <2>2
    <3> QED BY <1>0, <2>1, <3>1 DEF w
  <2>3. CASE x = HeapEnd
    <3>1. i = 0
      BY <1>0, <1>2, <2>3
    <3>2. j \in 1 .. HeapUnits + 1 /\ w[j] = c
      BY <1>0, <1>4, <1>6, <2>3, <3>1
    <3> QED BY <1>0, <2>1, <3>2 DEF w
  <2> QED BY <2>2, <2>3
<1>7. CASE c < x
  <2>1. j \in 1 .. HeapUnits /\ w[j] = c
    BY <1>0, <1>2, <1>4, <1>7
  <2> QED BY <1>0, <2>1 DEF w
<1> QED BY <1>0, <1>5, <1>6, <1>7

(* What the model takes for the free blocks are those of the list. *)
LEMMA FreeInList ==
  ASSUME Chunks!HeapConstants, NEW h, NEW F, Ordered(h, F)
  PROVE  Chunks!FreeIn(h) = F
<1>1. HeapUnits \in Nat /\ HeapEnd \notin F
  BY DEF Chunks!HeapConstants, Ordered, HeapAddr, HeapEnd, Chunks!Addr, Chunks!Base
<1>2. ASSUME NEW c \in F PROVE c \in Chunks!FreeIn(h)
  <2>1. PICK k \in 0 .. HeapUnits : Chunks!Walk(h)[k] = c
    BY <1>2, WalkReaches
  <2>2. k \in 0 .. HeapUnits + 1
    BY <1>1
  <2> QED BY <1>1, <2>1, <2>2 DEF Chunks!FreeIn, HeapEnd
<1>3. ASSUME NEW c \in Chunks!FreeIn(h) PROVE c \in F
  <2>1. PICK k \in 0 .. HeapUnits + 1 : Chunks!Walk(h)[k] = c /\ c # HeapEnd
    BY <1>3 DEF Chunks!FreeIn, HeapEnd
  <2>2. k \in 0 .. HeapUnits + 2
    BY <1>1
  <2> QED BY <2>1, <2>2, WalkNodes
<1> QED BY <1>2, <1>3

----------------------------------------------------------------------------
(* The place of b: behind the last free block below it, or behind the header. *)
HeapPlace(h, F, b, p) ==
  p \in F \cup {HeapEnd} /\ b < h.next[p] /\ (p # HeapEnd => p < b)

(* The test of the loop of kfree at the step i of a walk. *)
AtPlace(w, b, i) ==
  \/ b > w[i] /\ b < w[i + 1]
  \/ w[i] >= w[i + 1] /\ (b > w[i] \/ b < w[i + 1])

(* A block has a place. *)
LEMMA PlaceExists ==
  ASSUME Chunks!HeapConstants, NEW h, NEW F, Ordered(h, F), NEW b \in HeapAddr \ F
  PROVE  \E p : HeapPlace(h, F, b, p)
<1> DEFINE S == {c \in F : c < b}
<1>0. /\ HeapUnits \in Nat /\ HeapEnd = HeapUnits + 1
      /\ \A q \in F : q \in Nat /\ 1 <= q /\ q <= HeapUnits /\ q # HeapEnd
      /\ b \in Nat /\ b < HeapEnd
  <2>1. /\ HeapUnits \in Nat /\ HeapEnd = HeapUnits + 1
        /\ \A q \in F : q \in Nat /\ 1 <= q /\ q <= HeapUnits /\ q # HeapEnd
    BY HeapNumbers DEF Ordered
  <2>2. b \in 1 .. HeapUnits
    BY DEF HeapAddr, Chunks!Addr
  <2> QED BY <2>1, <2>2
<1>1. CASE S = {}
  <2>1. h.next[HeapEnd] \in F \cup {HeapEnd}
    BY DEF Ordered
  <2>2. b < h.next[HeapEnd]
    BY <1>0, <1>1, <2>1
  <2> QED BY <2>2 DEF HeapPlace
<1>2. CASE S # {}
  <2>1. S \in SUBSET (0 .. HeapUnits)
    BY <1>0
  <2>2. PICK p \in S : \A q \in S : q <= p
    <3> HIDE DEF S
    <3> QED BY <1>0, <1>2, <2>1, HighestLemma
  <2>3. p \in F /\ p < b /\ h.next[p] \in F \cup {HeapEnd} /\ p < h.next[p]
    BY DEF Ordered
  <2>4. h.next[p] \in F => ~(h.next[p] < b)
    BY <1>0, <2>2, <2>3
  <2>5. b < h.next[p]
    BY <1>0, <2>3, <2>4
  <2> QED BY <1>0, <2>3, <2>5 DEF HeapPlace
<1> QED BY <1>1, <1>2

(* The loop of kfree finds it. *)
LEMMA PlaceFound ==
  ASSUME Chunks!HeapConstants, NEW h, NEW F, Ordered(h, F), NEW b \in HeapAddr \ F
  PROVE  HeapPlace(h, F, b, Chunks!FindPlace(h, b))
<1> DEFINE w == Chunks!Walk(h)
           S == {i \in 0 .. HeapUnits + 1 : AtPlace(w, b, i)}
           i0 == CHOOSE i \in 0 .. HeapUnits + 1 :
                   AtPlace(w, b, i) /\ \A j \in 0 .. i - 1 : ~AtPlace(w, b, j)
<1>0. /\ HeapUnits \in Nat /\ HeapEnd = HeapUnits + 1
      /\ \A q \in F : q \in Nat /\ 1 <= q /\ q <= HeapUnits /\ q # HeapEnd
      /\ b \in Nat /\ b < HeapEnd
  <2>1. /\ HeapUnits \in Nat /\ HeapEnd = HeapUnits + 1
        /\ \A q \in F : q \in Nat /\ 1 <= q /\ q <= HeapUnits /\ q # HeapEnd
    BY HeapNumbers DEF Ordered
  <2>2. b \in 1 .. HeapUnits
    BY DEF HeapAddr, Chunks!Addr
  <2> QED BY <2>1, <2>2
<1>1. Chunks!FindPlace(h, b) = w[i0]
  BY DEF Chunks!FindPlace, AtPlace
<1>2. \A k \in 0 .. HeapUnits + 1 : w[k + 1] = h.next[w[k]]
  BY WalkLemma
<1>3. \A k \in 0 .. HeapUnits + 2 : w[k] \in F \cup {HeapEnd}
  BY WalkNodes
<1>4. ASSUME NEW k \in 0 .. HeapUnits + 1
      PROVE  AtPlace(w, b, k) <=> HeapPlace(h, F, b, w[k])
  <2> DEFINE x == w[k]
             y == w[k + 1]
  <2>1. k \in 0 .. HeapUnits + 2
    BY <1>0
  <2>2. x \in F \cup {HeapEnd} /\ y = h.next[x]
    BY <1>2, <1>3, <2>1
  <2>3. y \in F \cup {HeapEnd} /\ (x \in F => x < y)
    BY <2>2 DEF Ordered
  <2>4. AtPlace(w, b, k) <=> (b > x /\ b < y) \/ (x >= y /\ (b > x \/ b < y))
    BY DEF AtPlace
  <2> HIDE DEF x, y, w
  <2>5. CASE x \in F
    BY <1>0, <2>2, <2>3, <2>4, <2>5 DEF HeapPlace, x
  <2>6. CASE x = HeapEnd
    BY <1>0, <2>2, <2>3, <2>4, <2>6 DEF HeapPlace, x
  <2> QED BY <2>2, <2>5, <2>6
<1>5. S # {}
  <2>1. PICK p : HeapPlace(h, F, b, p)
    BY PlaceExists
  <2>2. PICK k \in 0 .. HeapUnits : w[k] = p
    BY <2>1, WalkReaches DEF HeapPlace
  <2>3. k \in 0 .. HeapUnits + 1
    BY <1>0
  <2> HIDE DEF w
  <2> QED BY <1>4, <2>1, <2>2, <2>3
<1> HIDE DEF w
<1>6. LowestIn(S) \in S /\ \A q \in S : LowestIn(S) <= q
  <2>1. S \in SUBSET Nat
    OBVIOUS
  <2> HIDE DEF S
  <2> QED BY <1>5, <2>1, LowestLemma
<1>7. \A j \in 0 .. LowestIn(S) - 1 : ~AtPlace(w, b, j)
  BY <1>0, <1>6
<1>8. i0 \in 0 .. HeapUnits + 1 /\ AtPlace(w, b, i0)
  <2> DEFINE z == LowestIn(S)
  <2>1. z \in 0 .. HeapUnits + 1 /\ AtPlace(w, b, z)
    BY <1>6
  <2>2. \A j \in 0 .. z - 1 : ~AtPlace(w, b, j)
    BY <1>7
  <2> HIDE DEF z, S
  <2> QED BY <2>1, <2>2
<1> HIDE DEF i0
<1> QED BY <1>1, <1>4, <1>8

(* After one lap the walk goes the same way again. *)
LEMMA WalkAgain ==
  ASSUME Chunks!HeapConstants, NEW h, NEW L \in 1 .. HeapUnits + 1, Chunks!Walk(h)[L] = h.freelist
  PROVE  \A j \in Nat : L + j <= HeapUnits + 2 => Chunks!Walk(h)[L + j] = Chunks!Walk(h)[j]
<1> DEFINE w == Chunks!Walk(h)
           S == {j \in Nat : L + j <= HeapUnits + 2 => w[L + j] = w[j]}
<1>0. HeapUnits \in Nat
  BY DEF Chunks!HeapConstants
<1>1. w[0] = h.freelist /\ \A k \in 0 .. HeapUnits + 1 : w[k + 1] = h.next[w[k]]
  BY WalkLemma
<1>w. w[L] = w[0]
  BY <1>1
<1> HIDE DEF w
<1>2. 0 \in S
  BY <1>w
<1>3. ASSUME NEW m \in S PROVE m + 1 \in S
  <2> SUFFICES ASSUME L + (m + 1) <= HeapUnits + 2
               PROVE  w[L + (m + 1)] = w[m + 1]
    OBVIOUS
  <2>1. m \in 0 .. HeapUnits + 1 /\ L + m \in 0 .. HeapUnits + 1 /\ L + (m + 1) = (L + m) + 1
    BY <1>0
  <2>2. w[L + m] = w[m]
    BY <1>0, <2>1
  <2> QED BY <1>1, <2>1, <2>2
<1>4. S = Nat
  <2>1. S \in SUBSET Nat
    OBVIOUS
  <2> HIDE DEF S
  <2> QED BY <1>2, <1>3, <2>1, AllNumbers
<1>5. ASSUME NEW j \in Nat, L + j <= HeapUnits + 2 PROVE w[L + j] = w[j]
  BY <1>4, <1>5
<1> QED BY <1>5 DEF w

(* The loop of kmalloc sees every block: it finds one of n units if there is one, and
   what it remembers is the block before it. *)
LEMMA FitsFound ==
  ASSUME Chunks!HeapConstants, NEW h, NEW F, HeapTyped(h), Ordered(h, F), NEW n \in Nat, 1 <= n
  PROVE  /\ (\E c \in F : h.size[c] >= n) => Chunks!Fits(h, n) # {}
         /\ Chunks!Fits(h, n) # {} =>
              /\ Chunks!FindPrev(h, n) \in F \cup {HeapEnd}
              /\ h.next[Chunks!FindPrev(h, n)] \in F
              /\ h.size[h.next[Chunks!FindPrev(h, n)]] >= n
<1> DEFINE w == Chunks!Walk(h)
           L == Chunks!Lap(h)
           T == {k \in 1 .. HeapUnits + 1 : w[k] = h.freelist}
<1>0. HeapUnits \in Nat
  BY DEF Chunks!HeapConstants
<1>1. w[0] = h.freelist /\ \A k \in 0 .. HeapUnits + 1 : w[k + 1] = h.next[w[k]]
  BY WalkLemma
<1>2. L \in 1 .. HeapUnits + 1 /\ w[L] = h.freelist
  <2>1. T # {}
    BY WalkReaches DEF Ordered
  <2>2. LowestIn(T) \in T /\ \A q \in T : LowestIn(T) <= q
    <3>1. T \in SUBSET Nat
      OBVIOUS
    <3> HIDE DEF T
    <3> QED BY <2>1, <3>1, LowestLemma
  <2> DEFINE z == LowestIn(T)
  <2>3. z \in 1 .. HeapUnits + 1 /\ w[z] = h.freelist /\ \A j \in 1 .. z - 1 : w[j] # h.freelist
    <3>1. z \in 1 .. HeapUnits + 1 /\ w[z] = h.freelist
      BY <2>2
    <3>2. ASSUME NEW j \in 1 .. z - 1 PROVE w[j] # h.freelist
      <4>1. j \in 1 .. HeapUnits + 1 /\ ~(z <= j)
        BY <1>0, <3>1
      <4>2. j \notin T
        BY <2>2, <4>1
      <4> QED BY <4>1, <4>2
    <3> QED BY <3>1, <3>2
  <2> HIDE DEF z, T
  <2> QED BY <2>3 DEF Chunks!Lap
<1> HIDE DEF L
<1>3. Chunks!Fits(h, n) = {k \in 1 .. L : h.size[w[k]] >= n}
  BY DEF Chunks!Fits, L
<1>4. ASSUME NEW c \in F, h.size[c] >= n
      PROVE  Chunks!Fits(h, n) # {}
  <2> DEFINE V == {k \in 1 .. HeapUnits + 1 : w[k] = c}
             k == LowestIn(V)
  <2>1. V # {}
    BY WalkReaches
  <2>2. k \in V /\ \A q \in V : k <= q
    <3>1. V \in SUBSET Nat
      OBVIOUS
    <3> HIDE DEF V
    <3> QED BY <2>1, <3>1, LowestLemma
  <2>3. k \in 1 .. HeapUnits + 1 /\ w[k] = c
    BY <2>2
  <2>4. k <= L
    <3> SUFFICES ASSUME L < k PROVE FALSE
      BY <1>2, <2>3
    <3> DEFINE j == k - L
    <3>1. j \in Nat /\ L + j = k /\ L + j <= HeapUnits + 2 /\ j \in 1 .. HeapUnits + 1 /\ ~(k <= j)
      BY <1>0, <1>2, <2>3
    <3>2. w[L + j] = w[j]
      <4> HIDE DEF j
      <4> QED BY <1>2, <3>1, WalkAgain
    <3>3. j \in V
      BY <2>3, <3>1, <3>2
    <3> QED BY <2>2, <3>1, <3>3
  <2>5. k \in 1 .. L
    BY <1>2, <2>3, <2>4
  <2> HIDE DEF k, V, w
  <2> QED BY <1>3, <1>4, <2>3, <2>5
<1>5. ASSUME Chunks!Fits(h, n) # {}
      PROVE  /\ Chunks!FindPrev(h, n) \in F \cup {HeapEnd}
             /\ h.next[Chunks!FindPrev(h, n)] \in F
             /\ h.size[h.next[Chunks!FindPrev(h, n)]] >= n
  <2> DEFINE I == Chunks!Fits(h, n)
             k == LowestIn(I)
  <2>1. I \in SUBSET Nat
    BY <1>2, <1>3
  <2>2. k \in I
    <3> HIDE DEF I
    <3> QED BY <1>5, <2>1, LowestLemma DEF I
  <2>3. Chunks!FindPrev(h, n) = w[k - 1]
    BY DEF Chunks!FindPrev, LowestIn
  <2>4. k \in 1 .. L /\ h.size[w[k]] >= n
    BY <1>3, <2>2
  <2> HIDE DEF I, k, w
  <2>5. k - 1 \in 0 .. HeapUnits + 1 /\ (k - 1) + 1 = k /\ k \in 0 .. HeapUnits + 2
        /\ k - 1 \in 0 .. HeapUnits + 2
    BY <1>0, <1>2, <2>4
  <2>6. w[k] = h.next[w[k - 1]]
    BY <1>1, <2>5
  <2>7. w[k] \in F \cup {HeapEnd} /\ w[k - 1] \in F \cup {HeapEnd}
    BY <2>5, WalkNodes DEF w
  <2>8. w[k] # HeapEnd
    BY <2>4 DEF HeapTyped
  <2> QED BY <2>3, <2>4, <2>6, <2>7, <2>8
<1> QED BY <1>4, <1>5

----------------------------------------------------------------------------
(* The blocks.  F are the free ones, U those in use, A the units of the heap: each
   unit is in one block, and two free blocks do not touch. *)
BlocksApart(h, S) ==
  /\ S \subseteq HeapAddr
  /\ \A b \in S : 1 <= h.size[b] /\ b + h.size[b] <= HeapUnits + 1
  /\ \A b, c \in S : b < c => b + h.size[b] <= c

InBlocks(h, S, u) == \E b \in S : b <= u /\ u < b + h.size[b]

Untouched(h, F) == \A b, c \in F : b + h.size[b] # c

HeapWhole(h, F, U, A) ==
  /\ HeapTyped(h) /\ Ordered(h, F) /\ F \cap U = {} /\ BlocksApart(h, F \cup U) /\ Untouched(h, F)
  /\ A \subseteq HeapAddr /\ \A u \in HeapAddr : u \in A <=> InBlocks(h, F \cup U, u)

(* The neighbours of b in the list. *)
Near(F, p, b, q) ==
  /\ p \in F \cup {HeapEnd} /\ q \in F \cup {HeapEnd} /\ b < q /\ (p # HeapEnd => p < b)
  /\ \A c \in F : /\ c < b => p # HeapEnd /\ c <= p
                  /\ b < c => q <= c

(* The place of a block is between its neighbours. *)
LEMMA PlaceNear ==
  ASSUME Chunks!HeapConstants, NEW h, NEW F, Ordered(h, F), NEW b \in HeapAddr, b \notin F,
         NEW p, HeapPlace(h, F, b, p)
  PROVE  Near(F, p, b, h.next[p])
<1>0. /\ HeapUnits \in Nat /\ HeapEnd = HeapUnits + 1
      /\ \A q \in F : q \in Nat /\ 1 <= q /\ q <= HeapUnits /\ q # HeapEnd
      /\ b \in Nat /\ b < HeapEnd
  <2>1. /\ HeapUnits \in Nat /\ HeapEnd = HeapUnits + 1
        /\ \A q \in F : q \in Nat /\ 1 <= q /\ q <= HeapUnits /\ q # HeapEnd
    BY HeapNumbers DEF Ordered
  <2>2. b \in 1 .. HeapUnits
    BY DEF HeapAddr, Chunks!Addr
  <2> QED BY <2>1, <2>2
<1> DEFINE q == h.next[p]
<1>1. p \in F \cup {HeapEnd} /\ b < q /\ (p # HeapEnd => p < b)
  BY DEF HeapPlace
<1>2. q \in F \cup {HeapEnd} /\ (\A c \in F : p \in F /\ p < c => q <= c) /\ (p = HeapEnd => \A c \in F : q <= c)
  BY <1>1 DEF Ordered
<1> HIDE DEF q
<1>3. ASSUME NEW c \in F, c < b PROVE p # HeapEnd /\ c <= p
  BY <1>0, <1>1, <1>2, <1>3
<1>4. ASSUME NEW c \in F, b < c PROVE q <= c
  BY <1>0, <1>1, <1>2, <1>4
<1> QED BY <1>1, <1>2, <1>3, <1>4 DEF Near, q

(* What kfree looks at: the block touches the free one above it, and the one below it. *)
TouchUp(h, p, b)  == b + h.size[b] = h.next[p] /\ h.next[p] # HeapEnd
TouchLow(h, p, b) == p # HeapEnd /\ p + h.size[p] = b

LinkEnd(h, p, b)  == IF TouchUp(h, p, b) THEN h.next[h.next[p]] ELSE h.next[p]
LinkSize(h, p, b) == IF TouchUp(h, p, b) THEN h.size[b] + h.size[h.next[p]] ELSE h.size[b]

(* The free blocks once b is among them. *)
LinkFree(h, F, p, b) ==
  {c \in F : ~(TouchUp(h, p, b) /\ c = h.next[p])} \cup {c \in {b} : ~TouchLow(h, p, b)}

(* The stores of kfree, header by header. *)
LEMMA LinkFields ==
  ASSUME Chunks!HeapConstants, NEW h, HeapTyped(h), NEW p \in HeapNodes, NEW b \in HeapAddr, p # b,
         h.next[p] \in HeapNodes, NEW g, g = Chunks!Link(h, p, b)
  PROVE  /\ g.freelist = p
         /\ \A x \in HeapNodes : g.next[x] =
              IF x = b THEN LinkEnd(h, p, b)
              ELSE IF x = p THEN (IF TouchLow(h, p, b) THEN LinkEnd(h, p, b) ELSE b) ELSE h.next[x]
         /\ \A x \in HeapNodes : g.size[x] =
              IF x = b THEN LinkSize(h, p, b)
              ELSE IF x = p /\ TouchLow(h, p, b) THEN h.size[p] + LinkSize(h, p, b) ELSE h.size[x]
         /\ HeapTyped(g)
<1> DEFINE e == LinkEnd(h, p, b)
           z == LinkSize(h, p, b)
<1>0. /\ h.next \in [HeapNodes -> HeapNodes \cup {0}] /\ h.size \in [HeapNodes -> Nat] /\ b \in HeapNodes
      /\ h.size[HeapEnd] = 0 /\ HeapEnd \in HeapNodes
  BY DEF HeapTyped, HeapNodes
<1>1. e \in HeapNodes \cup {0} /\ z \in Nat /\ h.size[p] \in Nat
  BY <1>0 DEF LinkEnd, LinkSize
<1>b. b # HeapEnd
  BY HeapNumbers
<1>2. CASE TouchLow(h, p, b)
  <2>1. g = [next |-> [h.next EXCEPT ![b] = e, ![p] = e],
             size |-> [h.size EXCEPT ![b] = z, ![p] = @ + z], freelist |-> p]
    BY <1>2 DEF Chunks!Link, TouchLow, TouchUp, LinkEnd, LinkSize, HeapEnd
  <2>2. p # HeapEnd
    BY <1>2 DEF TouchLow
  <2> HIDE DEF e, z
  <2>3. g.freelist = p /\ g.next = [h.next EXCEPT ![b] = e, ![p] = e]
        /\ g.size = [h.size EXCEPT ![b] = z, ![p] = @ + z]
    BY <2>1
  <2>4. \A x \in HeapNodes : g.next[x] = IF x = b THEN e ELSE IF x = p THEN e ELSE h.next[x]
    BY <1>0, <2>3
  <2>5. \A x \in HeapNodes : g.size[x] = IF x = b THEN z ELSE IF x = p THEN h.size[p] + z ELSE h.size[x]
    BY <1>0, <2>3
  <2>6. g.next \in [HeapNodes -> HeapNodes \cup {0}] /\ g.size \in [HeapNodes -> Nat]
    BY <1>0, <1>1, <2>3
  <2>7. HeapTyped(g)
    BY <1>0, <1>b, <2>1, <2>2, <2>5, <2>6 DEF HeapTyped
  <2> QED BY <1>2, <2>3, <2>4, <2>5, <2>7 DEF e, z
<1>3. CASE ~TouchLow(h, p, b)
  <2>1. g = [next |-> [h.next EXCEPT ![b] = e, ![p] = b],
             size |-> [h.size EXCEPT ![b] = z], freelist |-> p]
    BY <1>3 DEF Chunks!Link, TouchLow, TouchUp, LinkEnd, LinkSize, HeapEnd
  <2> HIDE DEF e, z
  <2>3. g.freelist = p /\ g.next = [h.next EXCEPT ![b] = e, ![p] = b]
        /\ g.size = [h.size EXCEPT ![b] = z]
    BY <2>1
  <2>4. \A x \in HeapNodes : g.next[x] = IF x = b THEN e ELSE IF x = p THEN b ELSE h.next[x]
    BY <1>0, <2>3
  <2>5. \A x \in HeapNodes : g.size[x] = IF x = b THEN z ELSE h.size[x]
    BY <1>0, <2>3
  <2>6. g.next \in [HeapNodes -> HeapNodes \cup {0}] /\ g.size \in [HeapNodes -> Nat]
    BY <1>0, <1>1, <2>3
  <2>7. HeapTyped(g)
    BY <1>0, <1>b, <2>1, <2>5, <2>6 DEF HeapTyped
  <2> QED BY <1>3, <2>3, <2>4, <2>5, <2>7 DEF e, z
<1> QED BY <1>2, <1>3

(* The list and the blocks before the stores of kfree: what the rest is about. *)
LinkFrom(h, F, U, A, p, b) ==
  HeapWhole(h, F, U, A) /\ b \in U /\ HeapPlace(h, F, b, p)

(* Its parts. *)
LEMMA LinkBefore ==
  ASSUME Chunks!HeapConstants, NEW h, NEW F, NEW U, NEW A, NEW p, NEW b, NEW q, q = h.next[p],
         LinkFrom(h, F, U, A, p, b)
  PROVE  /\ HeapUnits \in Nat /\ HeapEnd = HeapUnits + 1
         /\ \A x \in F \cup U : x \in Nat /\ 1 <= x /\ x <= HeapUnits /\ x # HeapEnd /\ x \in HeapNodes
         /\ \A x \in HeapNodes : x \in Nat /\ x <= HeapEnd
         /\ b \in U /\ b \notin F /\ p # b /\ p \in HeapNodes /\ q \in HeapNodes
         /\ Near(F, p, b, q)
<1>1. /\ HeapUnits \in Nat /\ HeapEnd = HeapUnits + 1
      /\ \A x \in F \cup U : x \in Nat /\ 1 <= x /\ x <= HeapUnits /\ x # HeapEnd
  BY HeapNumbers DEF LinkFrom, HeapWhole, BlocksApart
<1>2. F \cup U \subseteq HeapAddr /\ b \in U /\ b \notin F /\ Ordered(h, F)
  BY DEF LinkFrom, HeapWhole, BlocksApart
<1>3. Near(F, p, b, q)
  BY <1>2, PlaceNear DEF LinkFrom
<1>4. \A x \in HeapNodes : x \in Nat /\ x <= HeapEnd
  BY <1>1, HeapNumbers DEF HeapNodes
<1> QED BY <1>1, <1>2, <1>3, <1>4 DEF Near, HeapNodes

(* The free blocks are in order again. *)
LEMMA LinkOrdered ==
  ASSUME Chunks!HeapConstants, NEW h, NEW F, NEW U, NEW A, NEW p, NEW b, LinkFrom(h, F, U, A, p, b)
  PROVE  Ordered(Chunks!Link(h, p, b), LinkFree(h, F, p, b))
<1> DEFINE q == h.next[p]
           g == Chunks!Link(h, p, b)
           G == LinkFree(h, F, p, b)
           e == LinkEnd(h, p, b)
           up == TouchUp(h, p, b)
           low == TouchLow(h, p, b)
<1>1. /\ HeapUnits \in Nat /\ HeapEnd = HeapUnits + 1
      /\ \A x \in F \cup U : x \in Nat /\ 1 <= x /\ x <= HeapUnits /\ x # HeapEnd /\ x \in HeapNodes
      /\ \A x \in HeapNodes : x \in Nat /\ x <= HeapEnd
      /\ b \in U /\ b \notin F /\ p # b /\ p \in HeapNodes /\ q \in HeapNodes
      /\ Near(F, p, b, q)
  BY LinkBefore
<1>2. HeapTyped(h) /\ Ordered(h, F) /\ b \in HeapAddr /\ F \subseteq HeapAddr
  BY DEF LinkFrom, HeapWhole, BlocksApart
<1>3. /\ g.freelist = p
      /\ \A x \in HeapNodes : g.next[x] =
           IF x = b THEN e ELSE IF x = p THEN (IF low THEN e ELSE b) ELSE h.next[x]
  BY <1>1, <1>2, LinkFields
<1>4. up => q \in F /\ b < q
  BY <1>1 DEF TouchUp, Near
<1>5. low => p \in F
  BY <1>1 DEF TouchLow, Near
<1>6. G = {c \in F : ~(up /\ c = q)} \cup {c \in {b} : ~low}
  BY DEF LinkFree
<1>7. e = IF up THEN h.next[q] ELSE q
  BY DEF LinkEnd
<1>8. /\ p \in F \cup {HeapEnd} /\ q \in F \cup {HeapEnd} /\ b < q /\ (p # HeapEnd => p < b)
      /\ \A c \in F : /\ c < b => p # HeapEnd /\ c <= p
                      /\ b < c => q <= c
  BY <1>1 DEF Near
<1> HIDE DEF q, g, G, e, up, low
<1>e. /\ e \in G \cup {HeapEnd} /\ b < e
      /\ \A c \in G : b < c => e <= c
  <2>1. CASE up
    <3>1. q \in F /\ e = h.next[q] /\ e \in F \cup {HeapEnd} /\ q < e
      BY <1>2, <1>4, <1>7, <2>1 DEF Ordered
    <3>2. \A c \in F : q < c => e <= c
      BY <1>2, <3>1 DEF Ordered
    <3>3. e \in G \cup {HeapEnd} /\ b < e
      BY <1>1, <1>6, <1>8, <3>1
    <3>4. ASSUME NEW c \in G, b < c PROVE e <= c
      <4>1. c \in F /\ c # q
        BY <1>1, <1>6, <2>1, <3>4
      <4>2. q <= c /\ c \in Nat /\ q \in Nat
        BY <1>1, <1>8, <3>1, <3>4, <4>1
      <4> QED BY <3>2, <4>1, <4>2
    <3> QED BY <3>3, <3>4
  <2>2. CASE ~up
    <3>1. e = q
      BY <1>7, <2>2
    <3>2. ASSUME NEW c \in G, b < c PROVE e <= c
      BY <1>1, <1>6, <1>8, <3>1, <3>2
    <3> QED BY <1>6, <1>8, <2>2, <3>1, <3>2
  <2> QED BY <2>1, <2>2
<1>m. b \in Nat /\ p \in Nat
  BY <1>1
<1>f. ASSUME NEW a \in F \cup {HeapEnd}, a # p
      PROVE  /\ h.next[a] \in F \cup {HeapEnd}
             /\ h.next[a] = q => ~up
             /\ a < b /\ a # HeapEnd => h.next[a] < b
             /\ a = HeapEnd => h.next[a] < b
  <2>1. h.next[a] \in F \cup {HeapEnd} /\ h.next[a] \in Nat /\ a \in Nat
    BY <1>1, <1>2 DEF Ordered
  <2>2. a < b /\ a # HeapEnd => h.next[a] < b
    <3> SUFFICES ASSUME a < b, a # HeapEnd PROVE h.next[a] < b
      OBVIOUS
    <3>1. p \in F /\ a < p
      BY <1>1, <1>8, <1>f
    <3>2. h.next[a] <= p /\ p < b
      BY <1>2, <1>8, <1>1, <1>f, <3>1 DEF Ordered
    <3> QED BY <1>1, <2>1, <3>1, <3>2
  <2>3. a = HeapEnd => h.next[a] < b
    <3> SUFFICES ASSUME a = HeapEnd PROVE h.next[a] < b
      OBVIOUS
    <3>1. p \in F /\ p < b
      BY <1>1, <1>8, <1>f
    <3>2. h.next[a] <= p
      BY <1>2, <3>1 DEF Ordered
    <3> QED BY <1>m, <2>1, <3>1, <3>2
  <2>4. h.next[a] = q => ~up
    <3> SUFFICES ASSUME h.next[a] = q, up PROVE FALSE
      OBVIOUS
    <3>1. q \in F /\ b < q /\ q \in Nat /\ b \in Nat
      BY <1>1, <1>4
    <3>2. a \in F /\ ~(a < b)
      BY <1>f, <2>2, <2>3, <3>1
    <3>3. b < a
      BY <1>1, <3>1, <3>2
    <3>4. q <= a /\ a < h.next[a]
      BY <1>2, <1>8, <3>2, <3>3 DEF Ordered
    <3> QED BY <2>1, <3>1, <3>4
  <2> QED BY <2>1, <2>2, <2>3, <2>4
<1>9. G \subseteq HeapAddr
  BY <1>2, <1>6
<1>10. g.freelist \in G \cup {HeapEnd}
  <2>1. up => p # q
    BY <1>1, <1>4, <1>8
  <2> QED BY <1>3, <1>6, <1>8, <2>1
<1>n. \A a \in G \cup {HeapEnd} : a \in HeapNodes /\ a \in Nat
  BY <1>1, <1>6, <1>8 DEF HeapNodes
<1>11. ASSUME NEW a \in G \cup {HeapEnd} PROVE g.next[a] \in G \cup {HeapEnd}
  <2>0. a \in HeapNodes
    BY <1>n
  <2>1. CASE a = b
    BY <1>3, <1>e, <2>0, <2>1
  <2>2. CASE a = p
    BY <1>1, <1>3, <1>6, <1>e, <2>0, <2>2
  <2>3. CASE a # b /\ a # p
    <3>1. a \in F \cup {HeapEnd}
      BY <1>6, <2>3
    <3> QED BY <1>3, <1>6, <1>f, <2>0, <2>3, <3>1
  <2> QED BY <2>1, <2>2, <2>3
<1>12. ASSUME NEW a \in G PROVE a < g.next[a]
  <2>0. a \in HeapNodes /\ a # HeapEnd
    BY <1>1, <1>6, <1>n
  <2>1. CASE a = b
    BY <1>3, <1>e, <2>0, <2>1
  <2>2. CASE a = p
    <3>1. p < b /\ e \in Nat /\ p \in Nat /\ b \in Nat
      BY <1>1, <1>8, <1>e, <1>n, <2>0, <2>2
    <3> QED BY <1>1, <1>3, <1>e, <2>0, <2>2, <3>1
  <2>3. CASE a # b /\ a # p
    <3>1. a \in F
      BY <1>6, <2>3
    <3> QED BY <1>2, <1>3, <2>0, <2>3, <3>1 DEF Ordered
  <2> QED BY <2>1, <2>2, <2>3
<1>13. ASSUME NEW a \in G, NEW c \in G, a < c PROVE g.next[a] <= c
  <2>0. a \in HeapNodes /\ a # HeapEnd /\ c \in Nat /\ a \in Nat /\ b \in Nat
    BY <1>1, <1>6, <1>n
  <2>1. CASE a = b
    BY <1>3, <1>e, <1>13, <2>0, <2>1
  <2>2. CASE a = p /\ low
    <3>1. c \in F
      BY <1>6, <2>2
    <3>2. p < b /\ ~(c < b) /\ c # b
      BY <1>1, <1>8, <1>13, <2>0, <2>2, <3>1
    <3> QED BY <1>1, <1>3, <1>e, <2>0, <2>2, <3>2
  <2>3. CASE a = p /\ ~low
    <3>1. p < b /\ g.next[a] = b
      BY <1>1, <1>3, <1>8, <2>0, <2>3
    <3>2. c = b \/ (c \in F /\ ~(c < b))
      BY <1>1, <1>6, <1>8, <1>13, <2>0, <2>3
    <3> QED BY <2>0, <3>1, <3>2
  <2>4. CASE a # b /\ a # p
    <3>1. a \in F /\ g.next[a] = h.next[a]
      BY <1>3, <1>6, <2>0, <2>4
    <3>2. CASE c = b
      <4>1. h.next[a] < b /\ h.next[a] \in Nat
        <5>1. a < b /\ a \in F \cup {HeapEnd} /\ a # HeapEnd
          BY <1>13, <2>0, <3>1, <3>2
        <5>2. h.next[a] < b /\ h.next[a] \in F \cup {HeapEnd}
          BY <1>f, <2>4, <5>1
        <5>3. h.next[a] \in HeapNodes
          BY <1>1, <5>2 DEF HeapNodes
        <5> QED BY <1>1, <5>2, <5>3
      <4> QED BY <2>0, <3>1, <3>2, <4>1
    <3>3. CASE c # b
      <4>1. c \in F
        BY <1>6, <3>3
      <4> QED BY <1>2, <1>13, <3>1, <4>1 DEF Ordered
    <3> QED BY <3>2, <3>3
  <2> QED BY <2>1, <2>2, <2>3, <2>4
<1>14. ASSUME NEW c \in G PROVE g.next[HeapEnd] <= c
  <2>0. HeapEnd \in HeapNodes /\ HeapEnd # b /\ c \in Nat /\ b \in Nat
    BY <1>1, <1>n DEF HeapNodes
  <2>1. CASE p = HeapEnd
    <3>1. ~low
      BY <1>1, <1>5, <2>1
    <3>2. g.next[HeapEnd] = b
      BY <1>3, <2>0, <2>1, <3>1
    <3>3. c = b \/ (c \in F /\ ~(c < b))
      BY <1>6, <1>8, <2>1
    <3> QED BY <2>0, <3>2, <3>3
  <2>2. CASE p # HeapEnd
    <3>1. g.next[HeapEnd] = h.next[HeapEnd] /\ h.next[HeapEnd] < b /\ h.next[HeapEnd] \in Nat
      BY <1>1, <1>3, <1>f, <2>0, <2>2
    <3>2. c = b \/ c \in F
      BY <1>6
    <3> QED BY <1>2, <2>0, <3>1, <3>2 DEF Ordered
  <2> QED BY <2>1, <2>2
<1> QED
  <2>1. Ordered(g, G)
    BY <1>9, <1>10, <1>11, <1>12, <1>13, <1>14 DEF Ordered
  <2> QED BY <2>1 DEF g, G

(* The freed block, with what it merges with, takes the units they had. *)
LEMMA LinkBlocks ==
  ASSUME Chunks!HeapConstants, NEW h, NEW F, NEW U, NEW A, NEW p, NEW b, LinkFrom(h, F, U, A, p, b),
         NEW g, g = Chunks!Link(h, p, b), NEW G, G = LinkFree(h, F, p, b)
  PROVE  /\ G \cap (U \ {b}) = {} /\ BlocksApart(g, G \cup (U \ {b})) /\ Untouched(g, G)
         /\ \A u \in HeapAddr : u \in A <=> InBlocks(g, G \cup (U \ {b}), u)
         /\ \E x \in G : g.size[x] >= h.size[b]
<1> DEFINE q == h.next[p]
           z == LinkSize(h, p, b)
           up == TouchUp(h, p, b)
           low == TouchLow(h, p, b)
           S == F \cup U
           T == G \cup (U \ {b})
           s == IF low THEN p ELSE b
           t == IF up THEN q + h.size[q] ELSE b + h.size[b]
<1>1. /\ HeapUnits \in Nat /\ HeapEnd = HeapUnits + 1
      /\ \A x \in S : x \in Nat /\ 1 <= x /\ x <= HeapUnits /\ x # HeapEnd /\ x \in HeapNodes
      /\ \A x \in HeapNodes : x \in Nat /\ x <= HeapEnd
      /\ b \in U /\ b \notin F /\ p # b /\ p \in HeapNodes /\ q \in HeapNodes
      /\ Near(F, p, b, q)
  BY LinkBefore
<1>2. /\ HeapTyped(h) /\ S \subseteq HeapAddr /\ F \cap U = {} /\ BlocksApart(h, S) /\ Untouched(h, F)
      /\ \A u \in HeapAddr : u \in A <=> InBlocks(h, S, u)
  BY DEF LinkFrom, HeapWhole, BlocksApart
<1>3. \A x \in HeapNodes : g.size[x] = IF x = b THEN z ELSE IF x = p /\ low THEN h.size[p] + z ELSE h.size[x]
  BY <1>1, <1>2, LinkFields
<1>4. /\ p \in F \cup {HeapEnd} /\ q \in F \cup {HeapEnd} /\ b < q /\ (p # HeapEnd => p < b)
      /\ \A c \in F : /\ c < b => p # HeapEnd /\ c <= p
                      /\ b < c => q <= c
  BY <1>1 DEF Near
<1>5. /\ up <=> b + h.size[b] = q /\ q # HeapEnd
      /\ low <=> p # HeapEnd /\ p + h.size[p] = b
  BY DEF TouchUp, TouchLow
<1>6. up => q \in F /\ q \in S
  BY <1>4, <1>5
<1>7. low => p \in F /\ p \in S /\ p < b
  BY <1>4, <1>5
<1>8. G = {c \in F : ~(up /\ c = q)} \cup {c \in {b} : ~low}
  BY DEF LinkFree
<1>9. z = IF up THEN h.size[b] + h.size[q] ELSE h.size[b]
  BY DEF LinkSize
<1>10. \A x \in S : h.size[x] \in Nat /\ 1 <= h.size[x] /\ x + h.size[x] <= HeapUnits + 1
  BY <1>1, <1>2 DEF HeapTyped, BlocksApart
<1>11. \A x, y \in S : x < y => x + h.size[x] <= y
  BY <1>2 DEF BlocksApart
<1>b. b \in S
  BY <1>1
<1> HIDE DEF q, z, up, low
<1>12. /\ s \in S /\ s \in G /\ s \in T /\ s \in HeapNodes /\ s \in Nat /\ t \in Nat
       /\ s <= b /\ b < t /\ t <= HeapUnits + 1
  <2>1. s \in S /\ s \in G
    BY <1>6, <1>7, <1>8, <1>b, <1>4, <1>1
  <2>2. s \in Nat /\ s <= b /\ b \in Nat /\ s \in HeapNodes
    BY <1>1, <1>7, <1>b, <2>1
  <2>3. CASE up
    <3>1. q \in Nat /\ h.size[q] \in Nat /\ 1 <= h.size[q] /\ q + h.size[q] <= HeapUnits + 1 /\ t = q + h.size[q]
      BY <1>1, <1>6, <1>10, <2>3
    <3> QED BY <1>4, <2>1, <2>2, <3>1, <1>1
  <2>4. CASE ~up
    BY <1>1, <1>10, <1>b, <2>1, <2>2, <2>4
  <2> QED BY <2>3, <2>4
<1>13. s + g.size[s] = t
  <2>1. h.size[b] \in Nat /\ b \in Nat /\ b \in HeapNodes /\ p # b
    BY <1>1, <1>10, <1>b
  <2>2. b + z = t /\ z \in Nat
    <3>1. CASE up
      <4>1. h.size[q] \in Nat /\ b + h.size[b] = q /\ q \in Nat
        BY <1>1, <1>5, <1>6, <1>10, <3>1
      <4> QED BY <1>9, <2>1, <3>1, <4>1
    <3>2. CASE ~up
      BY <1>9, <2>1, <3>2
    <3> QED BY <3>1, <3>2
  <2>3. CASE low
    <3>1. p + h.size[p] = b /\ p \in Nat /\ h.size[p] \in Nat /\ p \in HeapNodes
      BY <1>1, <1>5, <1>7, <1>10, <2>3
    <3>2. g.size[p] = h.size[p] + z
      BY <1>3, <2>1, <2>3, <3>1
    <3> HIDE DEF t
    <3> QED BY <2>1, <2>2, <2>3, <3>1, <3>2
  <2>4. CASE ~low
    <3>1. g.size[b] = z
      BY <1>3, <2>1
    <3> HIDE DEF t
    <3> QED BY <2>2, <2>4, <3>1
  <2> QED BY <2>3, <2>4
<1>14. ASSUME NEW x \in T, x # s
       PROVE  x \in S /\ x # b /\ ~(up /\ x = q) /\ ~(low /\ x = p) /\ g.size[x] = h.size[x]
  <2>0. x \in F \/ (x = b /\ ~low) \/ (x \in U /\ x # b)
    BY <1>8, <1>14
  <2>1. x \in S /\ x # b /\ ~(low /\ x = p)
    BY <1>1, <1>14, <2>0
  <2>2. ~(up /\ x = q)
    BY <1>1, <1>2, <1>4, <1>6, <1>8, <1>14
  <2>3. x \in HeapNodes
    BY <1>1, <2>1
  <2> QED BY <1>3, <2>1, <2>2, <2>3
<1>15. ASSUME NEW x \in S, x # b, ~(up /\ x = q), ~(low /\ x = p)
       PROVE  x \in T /\ x # s
  BY <1>8, <1>15
<1>16. ASSUME NEW x \in T, x # s
       PROVE  /\ x < s => x + g.size[x] <= s
              /\ s < x => t <= x
  <2>1. x \in S /\ x # b /\ ~(up /\ x = q) /\ ~(low /\ x = p) /\ g.size[x] = h.size[x]
    BY <1>14, <1>16
  <2>2. x < s => x + g.size[x] <= s
    BY <1>11, <1>12, <2>1
  <2>3. ASSUME s < x PROVE t <= x
    <3>1. b \in Nat /\ x \in Nat /\ h.size[b] \in Nat
      BY <1>1, <1>10, <1>b, <2>1
    <3>2. b < x
      <4>1. CASE low
        <5>1. p + h.size[p] <= x
          BY <1>7, <1>11, <2>1, <2>3, <4>1
        <5> QED BY <1>5, <2>1, <3>1, <4>1, <5>1
      <4>2. CASE ~low
        BY <2>3, <4>2
      <4> QED BY <4>1, <4>2
    <3>3. b + h.size[b] <= x
      BY <1>11, <1>b, <2>1, <3>2
    <3>4. CASE up
      <4>1. q < x
        BY <1>1, <1>5, <1>6, <2>1, <3>1, <3>3, <3>4
      <4> QED BY <1>6, <1>11, <2>1, <3>4, <4>1
    <3>5. CASE ~up
      BY <3>3, <3>5
    <3> QED BY <3>4, <3>5
  <2> QED BY <2>2, <2>3
<1>n. \A x \in T : x \in S /\ x \in Nat
  BY <1>1, <1>12, <1>14
<1>17. G \cap (U \ {b}) = {}
  BY <1>2, <1>8
<1>18. BlocksApart(g, T)
  <2>1. T \subseteq HeapAddr
    BY <1>2, <1>n
  <2>2. ASSUME NEW x \in T PROVE 1 <= g.size[x] /\ x + g.size[x] <= HeapUnits + 1
    <3>1. CASE x = s
      <4>1. g.size[s] \in Nat
        <5>1. h.size[b] \in Nat /\ z \in Nat
          BY <1>6, <1>9, <1>10, <1>b
        <5> QED BY <1>1, <1>3, <1>7, <1>10, <1>12, <5>1
      <4> HIDE DEF s, t
      <4>2. 1 <= g.size[s]
        <5>1. b \in Nat
          BY <1>1, <1>b
        <5> QED BY <1>12, <1>13, <4>1, <5>1
      <4> QED BY <1>12, <1>13, <3>1, <4>2
    <3>2. CASE x # s
      BY <1>10, <1>14, <3>2
    <3> QED BY <3>1, <3>2
  <2>3. ASSUME NEW x \in T, NEW y \in T, x < y PROVE x + g.size[x] <= y
    <3>1. CASE x = s
      <4>1. y # s
        BY <1>n, <2>3, <3>1
      <4> HIDE DEF s, t
      <4> QED BY <1>13, <1>16, <2>3, <3>1, <4>1
    <3>2. CASE x # s /\ y = s
      BY <1>16, <2>3, <3>2
    <3>3. CASE x # s /\ y # s
      BY <1>11, <1>14, <2>3, <3>3
    <3> QED BY <3>1, <3>2, <3>3
  <2> QED BY <2>1, <2>2, <2>3 DEF BlocksApart
<1>19. ASSUME NEW u \in HeapAddr PROVE u \in A <=> InBlocks(g, T, u)
  <2>0. u \in Nat
    BY <1>1 DEF HeapAddr, Chunks!Addr
  <2>1. ASSUME InBlocks(h, S, u) PROVE InBlocks(g, T, u)
    <3>1. PICK x \in S : x <= u /\ u < x + h.size[x]
      BY <2>1 DEF InBlocks
    <3>2. CASE x # b /\ ~(up /\ x = q) /\ ~(low /\ x = p)
      <4>1. x \in T /\ g.size[x] = h.size[x]
        BY <1>14, <1>15, <3>2
      <4> QED BY <3>1, <4>1 DEF InBlocks
    <3>3. CASE x = b \/ (up /\ x = q) \/ (low /\ x = p)
      <4>1. h.size[b] \in Nat /\ b \in Nat /\ x \in Nat /\ h.size[x] \in Nat
        BY <1>1, <1>10, <1>b
      <4>2. s <= u /\ u < t
        <5>1. CASE x = b
          <6>1. CASE up
            <7>1. q + h.size[q] \in Nat /\ b + h.size[b] <= q + h.size[q]
              BY <1>1, <1>5, <1>6, <1>10, <6>1
            <7> QED BY <1>12, <2>0, <3>1, <4>1, <5>1, <6>1, <7>1
          <6>2. CASE ~up
            BY <1>12, <2>0, <3>1, <4>1, <5>1, <6>2
          <6> QED BY <6>1, <6>2
        <5>2. CASE up /\ x = q
          <6>1. b < q
            BY <1>4
          <6> QED BY <1>12, <2>0, <3>1, <4>1, <5>2, <6>1
        <5>3. CASE low /\ x = p
          <6>1. s = p /\ p + h.size[p] = b
            BY <1>5, <5>3
          <6> QED BY <1>12, <2>0, <3>1, <4>1, <5>3, <6>1
        <5> QED BY <3>3, <5>1, <5>2, <5>3
      <4> HIDE DEF s, t, T
      <4> QED BY <1>12, <1>13, <4>2 DEF InBlocks
    <3> QED BY <3>2, <3>3
  <2>2. ASSUME InBlocks(g, T, u) PROVE InBlocks(h, S, u)
    <3>1. PICK x \in T : x <= u /\ u < x + g.size[x]
      BY <2>2 DEF InBlocks
    <3>2. CASE x # s
      <4>1. x \in S /\ g.size[x] = h.size[x]
        BY <1>14, <3>2
      <4> QED BY <3>1, <4>1 DEF InBlocks
    <3>3. CASE x = s
      <4>1. s <= u /\ u < t
        <5> HIDE DEF s, t
        <5> QED BY <1>13, <3>1, <3>3
      <4>2. CASE low /\ u < b
        <5>1. p \in S /\ p <= u /\ u < p + h.size[p]
          BY <1>5, <1>7, <4>1, <4>2
        <5> QED BY <5>1 DEF InBlocks
      <4>3. CASE b <= u /\ u < b + h.size[b]
        BY <1>b, <4>3 DEF InBlocks
      <4>4. CASE ~(low /\ u < b) /\ ~(b <= u /\ u < b + h.size[b])
        <5>1. b \in Nat /\ h.size[b] \in Nat
          BY <1>1, <1>10, <1>b
        <5>2. b <= u /\ b + h.size[b] <= u
          BY <2>0, <4>1, <4>4, <5>1
        <5>3. up
          BY <2>0, <4>1, <5>1, <5>2
        <5>4. q \in S /\ q <= u /\ u < q + h.size[q]
          BY <1>5, <1>6, <4>1, <5>2, <5>3
        <5> QED BY <5>4 DEF InBlocks
      <4> QED BY <4>2, <4>3, <4>4
    <3> QED BY <3>2, <3>3
  <2> QED BY <1>2, <2>1, <2>2
<1>20. Untouched(g, G)
  <2> SUFFICES ASSUME NEW x \in G, NEW y \in G, x + g.size[x] = y PROVE FALSE
    BY DEF Untouched
  <2>1. x \in T /\ y \in T /\ x \in Nat /\ y \in Nat
    BY <1>n
  <2>2. CASE x = s
    <3>1. y = t
      <4> HIDE DEF s, t
      <4> QED BY <1>13, <2>2
    <3>2. y # s /\ y # b /\ y \in F
      BY <1>1, <1>8, <1>12, <1>b, <2>1, <3>1
    <3>3. CASE up
      <4>1. q \in F /\ q + h.size[q] = y
        BY <1>6, <3>1, <3>3
      <4> QED BY <1>2, <3>2, <4>1 DEF Untouched
    <3>4. CASE ~up
      <4>1. b + h.size[b] = y /\ b < y /\ y \in Nat /\ h.size[b] \in Nat /\ b \in Nat
        BY <1>1, <1>10, <1>12, <1>b, <3>1, <3>4, <2>1
      <4>2. q <= y /\ q \in Nat
        BY <1>1, <1>4, <3>2, <4>1
      <4>3. q \in F
        BY <1>1, <1>4, <2>1, <3>2, <4>2
      <4>4. b + h.size[b] <= q
        BY <1>4, <1>11, <1>b, <4>3
      <4>5. q = y
        BY <4>1, <4>2, <4>4
      <4> QED BY <1>1, <1>5, <3>4, <4>1, <4>3, <4>5
    <3> QED BY <3>3, <3>4
  <2>3. CASE x # s
    <3>1. x \in F /\ g.size[x] = h.size[x] /\ ~(low /\ x = p) /\ x # b
      BY <1>8, <1>14, <2>1, <2>3
    <3>2. y # b \/ low
      <4> SUFFICES ASSUME y = b, ~low PROVE FALSE
        OBVIOUS
      <4>1. h.size[x] \in Nat /\ 1 <= h.size[x] /\ x + h.size[x] = b
        BY <1>10, <3>1
      <4>2. x < b /\ p # HeapEnd /\ x <= p /\ p \in F /\ p < b
        BY <1>1, <1>4, <1>b, <2>1, <3>1, <4>1
      <4>3. x # p
        BY <1>5, <4>1, <4>2
      <4>4. x < p /\ x + h.size[x] <= p /\ p \in Nat /\ b \in Nat
        BY <1>1, <1>11, <1>b, <2>1, <3>1, <4>2, <4>3
      <4> QED BY <4>1, <4>2, <4>4
    <3>3. y \in F
      BY <1>8, <3>2
    <3> QED BY <1>2, <3>1, <3>3 DEF Untouched
  <2> QED BY <2>2, <2>3
<1>21. g.size[s] >= h.size[b]
  <2>1. g.size[s] \in Nat /\ h.size[b] \in Nat /\ b \in Nat
    BY <1>1, <1>10, <1>12, <1>18, <1>b, <1>3, <1>9, <1>6, <1>7
  <2>2. b + h.size[b] <= t
    <3>1. CASE up
      BY <1>5, <1>6, <1>10, <1>1, <2>1, <3>1
    <3>2. CASE ~up
      BY <2>1, <3>2
    <3> QED BY <3>1, <3>2
  <2> HIDE DEF s, t
  <2> QED BY <1>12, <1>13, <2>1, <2>2
<1> QED BY <1>12, <1>17, <1>18, <1>19, <1>20, <1>21

(* kfree of a block in use leaves the list and the blocks as they should be, with a free
   block that is no smaller. *)
LEMMA FreeWhole ==
  ASSUME Chunks!HeapConstants, NEW h, NEW F, NEW U, NEW A, HeapWhole(h, F, U, A), NEW b \in U,
         NEW p, HeapPlace(h, F, b, p)
  PROVE  \E G : /\ HeapWhole(Chunks!Link(h, p, b), G, U \ {b}, A)
                /\ \E x \in G : Chunks!Link(h, p, b).size[x] >= h.size[b]
<1> DEFINE g == Chunks!Link(h, p, b)
           G == LinkFree(h, F, p, b)
           V == U \ {b}
<1>1. LinkFrom(h, F, U, A, p, b)
  BY DEF LinkFrom
<1>2. Ordered(g, G)
  BY <1>1, LinkOrdered
<1>3. /\ G \cap V = {} /\ BlocksApart(g, G \cup V) /\ Untouched(g, G)
      /\ \A u \in HeapAddr : u \in A <=> InBlocks(g, G \cup V, u)
      /\ \E x \in G : g.size[x] >= h.size[b]
  BY <1>1, LinkBlocks
<1>4. HeapTyped(g)
  <2> DEFINE q == h.next[p]
  <2>1. p # b /\ p \in HeapNodes /\ q \in HeapNodes
    BY <1>1, LinkBefore
  <2>2. HeapTyped(h) /\ b \in HeapAddr
    BY DEF HeapWhole, BlocksApart
  <2> QED BY <2>1, <2>2, LinkFields
<1>5. A \subseteq HeapAddr
  BY DEF HeapWhole
<1> HIDE DEF g, G, V
<1>6. HeapWhole(g, G, V, A) /\ \E x \in G : g.size[x] >= h.size[b]
  BY <1>2, <1>3, <1>4, <1>5 DEF HeapWhole
<1> QED BY <1>6 DEF g, V

(* A whole block leaves the list, and is one in use. *)
LEMMA UnlinkWhole ==
  ASSUME Chunks!HeapConstants, NEW h, NEW F, NEW U, NEW A, HeapWhole(h, F, U, A),
         NEW prev \in F \cup {HeapEnd}, NEW p \in F, p = h.next[prev],
         NEW n \in Nat, 1 <= n, h.size[p] = n
  PROVE  HeapWhole(Chunks!Unlink(h, prev, p, n), F \ {p}, U \cup {p}, A)
<1> DEFINE g == Chunks!Unlink(h, prev, p, n)
           G == F \ {p}
           e == h.next[p]
<1>1. /\ HeapUnits \in Nat /\ HeapEnd = HeapUnits + 1
      /\ \A x \in F : x \in Nat /\ 1 <= x /\ x <= HeapUnits /\ x # HeapEnd
      /\ \A x \in F \cup {HeapEnd} : x \in Nat /\ x \in HeapNodes
  <2>1. F \subseteq HeapAddr
    BY DEF HeapWhole, Ordered
  <2> QED BY <2>1, HeapNumbers DEF HeapNodes
<1>2. HeapTyped(h) /\ Ordered(h, F) /\ F \cap U = {} /\ BlocksApart(h, F \cup U) /\ Untouched(h, F)
      /\ A \subseteq HeapAddr /\ \A u \in HeapAddr : u \in A <=> InBlocks(h, F \cup U, u)
  BY DEF HeapWhole
<1>3. e \in F \cup {HeapEnd} /\ p < e /\ (prev # HeapEnd => prev < p)
  BY <1>2 DEF Ordered
<1>4. /\ g.freelist = prev /\ g.size = h.size /\ g.next = [h.next EXCEPT ![prev] = e]
      /\ g = [next |-> g.next, size |-> h.size, freelist |-> prev]
  BY DEF Chunks!Unlink
<1> HIDE DEF g, e
<1>5. \A x \in HeapNodes : g.next[x] = IF x = prev THEN e ELSE h.next[x]
  BY <1>2, <1>4 DEF HeapTyped
<1>6. HeapTyped(g)
  <2>1. g.next \in [HeapNodes -> HeapNodes \cup {0}]
    BY <1>1, <1>2, <1>3, <1>4 DEF HeapTyped
  <2>2. h.size \in [HeapNodes -> Nat] /\ h.size[HeapEnd] = 0 /\ prev \in HeapNodes
    BY <1>1, <1>2 DEF HeapTyped
  <2> QED BY <1>4, <2>1, <2>2 DEF HeapTyped
<1>7. ASSUME NEW a \in F \cup {HeapEnd}, a # prev PROVE h.next[a] # p
  <2> SUFFICES ASSUME h.next[a] = p PROVE FALSE
    OBVIOUS
  <2>1. a \in Nat /\ prev \in Nat /\ p \in Nat
    BY <1>1
  <2>2. CASE a \in F /\ prev \in F
    <3>1. a < p /\ prev < p
      BY <1>2, <2>2 DEF Ordered
    <3>2. a < prev => p <= prev
      BY <1>2, <2>2 DEF Ordered
    <3>3. prev < a => p <= a
      BY <1>2, <2>2 DEF Ordered
    <3> QED BY <1>7, <2>1, <3>1, <3>2, <3>3
  <2>3. CASE a = HeapEnd
    <3>1. prev \in F /\ prev < p /\ p <= prev
      BY <1>2, <1>3, <1>7, <2>3 DEF Ordered
    <3> QED BY <2>1, <3>1
  <2>4. CASE prev = HeapEnd
    <3>1. a \in F /\ a < p /\ p <= a
      BY <1>2, <1>7, <2>4 DEF Ordered
    <3> QED BY <2>1, <3>1
  <2> QED BY <2>2, <2>3, <2>4
<1>8. \A c \in G : p < c => e <= c
  BY <1>2 DEF Ordered, e
<1>9. Ordered(g, G)
  <2>1. G \subseteq HeapAddr /\ prev \in G \cup {HeapEnd}
    BY <1>1, <1>2, <1>3 DEF Ordered
  <2>2. ASSUME NEW a \in G \cup {HeapEnd} PROVE g.next[a] \in G \cup {HeapEnd}
    <3>1. CASE a = prev
      BY <1>1, <1>3, <1>5, <3>1
    <3>2. CASE a # prev
      BY <1>1, <1>2, <1>5, <1>7, <3>2 DEF Ordered
    <3> QED BY <3>1, <3>2
  <2>3. ASSUME NEW a \in G PROVE a < g.next[a]
    <3>1. CASE a = prev
      <4>1. prev < p /\ p < e /\ a \in Nat /\ p \in Nat /\ e \in Nat
        BY <1>1, <1>3, <3>1
      <4> QED BY <1>1, <1>5, <3>1, <4>1
    <3>2. CASE a # prev
      BY <1>1, <1>2, <1>5, <3>2 DEF Ordered
    <3> QED BY <3>1, <3>2
  <2>4. ASSUME NEW a \in G, NEW c \in G, a < c PROVE g.next[a] <= c
    <3>1. CASE a = prev
      <4>1. p <= c
        BY <1>2, <2>4, <3>1 DEF Ordered
      <4>2. p < c
        BY <1>1, <4>1
      <4> QED BY <1>1, <1>5, <1>8, <3>1, <4>2
    <3>2. CASE a # prev
      BY <1>1, <1>2, <1>5, <2>4, <3>2 DEF Ordered
    <3> QED BY <3>1, <3>2
  <2>5. ASSUME NEW c \in G PROVE g.next[HeapEnd] <= c
    <3>1. CASE prev = HeapEnd
      <4>1. p <= c
        BY <1>2, <3>1 DEF Ordered
      <4>2. p < c
        BY <1>1, <4>1
      <4> QED BY <1>1, <1>5, <1>8, <3>1, <4>2
    <3>2. CASE prev # HeapEnd
      BY <1>1, <1>2, <1>5, <3>2 DEF Ordered
    <3> QED BY <3>1, <3>2
  <2> QED BY <1>4, <2>1, <2>2, <2>3, <2>4, <2>5 DEF Ordered
<1>10. G \cup (U \cup {p}) = F \cup U /\ G \cap (U \cup {p}) = {}
  BY <1>2
<1>11. BlocksApart(g, F \cup U) /\ Untouched(g, G)
  BY <1>2, <1>4 DEF BlocksApart, Untouched
<1>12. \A u \in HeapAddr : InBlocks(g, F \cup U, u) <=> InBlocks(h, F \cup U, u)
  BY <1>4 DEF InBlocks
<1> HIDE DEF G
<1>13. HeapWhole(g, G, U \cup {p}, A)
  BY <1>2, <1>6, <1>9, <1>10, <1>11, <1>12 DEF HeapWhole
<1> QED BY <1>13 DEF g, G

(* A block that is too big keeps its lower part. *)
LEMMA SplitWhole ==
  ASSUME Chunks!HeapConstants, NEW h, NEW F, NEW U, NEW A, HeapWhole(h, F, U, A),
         NEW prev \in F \cup {HeapEnd}, NEW p \in F,
         NEW n \in Nat, 1 <= n, n < h.size[p], NEW t, t = p + h.size[p] - n
  PROVE  t \notin F \cup U /\ HeapWhole(Chunks!Unlink(h, prev, p, n), F, U \cup {t}, A)
<1> DEFINE g == Chunks!Unlink(h, prev, p, n)
           S == F \cup U
           m == h.size[p] - n
<1>1. /\ HeapUnits \in Nat /\ HeapEnd = HeapUnits + 1
      /\ \A x \in S : x \in Nat /\ 1 <= x /\ x <= HeapUnits /\ x # HeapEnd
      /\ \A x \in S \cup {HeapEnd} : x \in HeapNodes
  <2>1. S \subseteq HeapAddr
    BY DEF HeapWhole, BlocksApart
  <2> QED BY <2>1, HeapNumbers DEF HeapNodes
<1>2. HeapTyped(h) /\ Ordered(h, F) /\ F \cap U = {} /\ BlocksApart(h, S) /\ Untouched(h, F)
      /\ A \subseteq HeapAddr /\ \A u \in HeapAddr : u \in A <=> InBlocks(h, S, u)
  BY DEF HeapWhole
<1>3. \A x \in S : h.size[x] \in Nat /\ 1 <= h.size[x] /\ x + h.size[x] <= HeapUnits + 1
  BY <1>1, <1>2 DEF BlocksApart, HeapTyped
<1>4. \A x, y \in S : x < y => x + h.size[x] <= y
  BY <1>2 DEF BlocksApart
<1>5. /\ m \in Nat /\ 1 <= m /\ t = p + m /\ p < t /\ t + n = p + h.size[p] /\ t <= HeapUnits
      /\ t \in Nat /\ p \in Nat /\ h.size[p] \in Nat /\ t \in HeapAddr
  <2>1. p \in Nat /\ h.size[p] \in Nat /\ p + h.size[p] <= HeapUnits + 1
    BY <1>1, <1>3
  <2> QED BY <1>1, <2>1 DEF HeapAddr, Chunks!Addr
<1>6. ASSUME NEW x \in S, x # p PROVE x # t /\ (x < p => x + h.size[x] <= p) /\ (p < x => t + n <= x)
                                      /\ x + h.size[x] # t
  <2>1. x \in Nat /\ h.size[x] \in Nat /\ 1 <= h.size[x]
    BY <1>1, <1>3
  <2>2. (x < p => x + h.size[x] <= p) /\ (p < x => p + h.size[p] <= x)
    BY <1>4
  <2> QED BY <1>5, <1>6, <2>1, <2>2
<1>7. t \notin S
  BY <1>5, <1>6
<1>8. /\ g.freelist = prev /\ g.next = h.next /\ g.size = [h.size EXCEPT ![p] = @ - n, ![t] = n]
      /\ g = [next |-> h.next, size |-> g.size, freelist |-> prev]
  BY <1>5 DEF Chunks!Unlink
<1> HIDE DEF g
<1>9. \A x \in HeapNodes : g.size[x] = IF x = t THEN n ELSE IF x = p THEN m ELSE h.size[x]
  <2>1. h.size \in [HeapNodes -> Nat] /\ t # p
    BY <1>2, <1>5 DEF HeapTyped
  <2> QED BY <1>8, <2>1
<1> HIDE DEF m
<1>10. HeapTyped(g)
  <2>1. g.size \in [HeapNodes -> Nat]
    <3>1. h.size \in [HeapNodes -> Nat]
      BY <1>2 DEF HeapTyped
    <3>2. DOMAIN g.size = HeapNodes /\ g.size = [x \in HeapNodes |-> g.size[x]]
      BY <1>8, <3>1
    <3>3. \A x \in HeapNodes : g.size[x] \in Nat
      BY <1>5, <1>9, <3>1
    <3> QED BY <3>2, <3>3
  <2>2. h.next \in [HeapNodes -> HeapNodes \cup {0}] /\ h.size[HeapEnd] = 0 /\ prev \in HeapNodes
        /\ HeapEnd \in HeapNodes
    BY <1>1, <1>2 DEF HeapTyped
  <2>3. HeapEnd # t /\ HeapEnd # p
    BY <1>1, <1>5
  <2> QED BY <1>8, <1>9, <2>1, <2>2, <2>3 DEF HeapTyped
<1>11. Ordered(g, F)
  BY <1>2, <1>8 DEF Ordered
<1> DEFINE T == F \cup (U \cup {t})
<1>t. \A x \in T : (x \in S \/ x = t) /\ x \in HeapNodes /\ x \in Nat
  BY <1>1, <1>5 DEF HeapNodes
<1>12. \A x \in T : /\ x = t => g.size[x] = n
                    /\ x = p => g.size[x] = m
                    /\ x # t /\ x # p => g.size[x] = h.size[x] /\ x \in S
  BY <1>5, <1>9, <1>t
<1>13. BlocksApart(g, T)
  <2>1. T \subseteq HeapAddr
    BY <1>2, <1>5 DEF BlocksApart
  <2>2. ASSUME NEW x \in T PROVE 1 <= g.size[x] /\ x + g.size[x] <= HeapUnits + 1
    <3>1. CASE x = t
      BY <1>1, <1>3, <1>5, <1>12, <3>1
    <3>2. CASE x = p
      BY <1>1, <1>5, <1>12, <3>2
    <3>3. CASE x # t /\ x # p
      BY <1>3, <1>12, <3>3
    <3> QED BY <3>1, <3>2, <3>3
  <2>3. ASSUME NEW x \in T, NEW y \in T, x < y PROVE x + g.size[x] <= y
    <3>1. CASE x = t
      <4>1. y # p /\ y # t /\ y \in S /\ y \in Nat
        BY <1>5, <1>t, <2>3, <3>1
      <4>2. p < y
        BY <1>5, <2>3, <3>1, <4>1
      <4> QED BY <1>6, <1>12, <3>1, <4>1, <4>2
    <3>2. CASE x = p
      <4>1. CASE y = t
        BY <1>5, <1>12, <3>2, <4>1
      <4>2. CASE y # t
        <5>1. y \in S /\ y # p /\ y \in Nat /\ t + n <= y
          BY <1>5, <1>6, <1>t, <2>3, <3>2, <4>2
        <5> QED BY <1>5, <1>12, <3>2, <5>1
      <4> QED BY <4>1, <4>2
    <3>3. CASE x # t /\ x # p
      <4>1. x \in S /\ g.size[x] = h.size[x] /\ x \in Nat /\ h.size[x] \in Nat
        BY <1>3, <1>12, <1>t, <3>3
      <4>2. CASE y = t
        <5>1. x < p
          <6>1. ~(p < x)
            BY <1>5, <1>6, <2>3, <3>3, <4>1, <4>2
          <6> QED BY <1>5, <3>3, <4>1, <6>1
        <5>2. x + h.size[x] <= p
          BY <1>6, <3>3, <4>1, <5>1
        <5> QED BY <1>5, <4>1, <4>2, <5>2
      <4>3. CASE y # t
        BY <1>4, <1>t, <2>3, <4>1, <4>3
      <4> QED BY <4>2, <4>3
    <3> QED BY <3>1, <3>2, <3>3
  <2> QED BY <2>1, <2>2, <2>3 DEF BlocksApart
<1>14. ASSUME NEW u \in HeapAddr PROVE InBlocks(g, T, u) <=> InBlocks(h, S, u)
  <2>0. u \in Nat
    BY <1>1 DEF HeapAddr, Chunks!Addr
  <2>1. ASSUME InBlocks(h, S, u) PROVE InBlocks(g, T, u)
    <3>1. PICK x \in S : x <= u /\ u < x + h.size[x]
      BY <2>1 DEF InBlocks
    <3>2. CASE x # p
      <4>1. x \in T /\ g.size[x] = h.size[x]
        BY <1>7, <1>12, <3>2
      <4> QED BY <3>1, <4>1 DEF InBlocks
    <3>3. CASE x = p /\ u < t
      <4>1. p \in T /\ p <= u /\ u < p + g.size[p]
        BY <1>5, <1>12, <3>1, <3>3
      <4> QED BY <4>1 DEF InBlocks
    <3>4. CASE x = p /\ ~(u < t)
      <4>1. t \in T /\ t <= u /\ u < t + g.size[t]
        BY <1>5, <1>12, <2>0, <3>1, <3>4
      <4> QED BY <4>1 DEF InBlocks
    <3> QED BY <3>2, <3>3, <3>4
  <2>2. ASSUME InBlocks(g, T, u) PROVE InBlocks(h, S, u)
    <3>1. PICK x \in T : x <= u /\ u < x + g.size[x]
      BY <2>2 DEF InBlocks
    <3>2. CASE x # p /\ x # t
      <4>1. x \in S /\ g.size[x] = h.size[x]
        BY <1>12, <3>2
      <4> QED BY <3>1, <4>1 DEF InBlocks
    <3>3. CASE x = p \/ x = t
      <4>1. p \in S /\ p <= u /\ u < p + h.size[p]
        BY <1>5, <1>12, <2>0, <3>1, <3>3
      <4> QED BY <4>1 DEF InBlocks
    <3> QED BY <3>2, <3>3
  <2> QED BY <2>1, <2>2
<1>15. Untouched(g, F)
  <2> SUFFICES ASSUME NEW x \in F, NEW y \in F, x + g.size[x] = y PROVE FALSE
    BY DEF Untouched
  <2>1. x # t /\ y # t /\ x \in T
    BY <1>7
  <2>2. CASE x = p
    BY <1>5, <1>12, <2>1, <2>2
  <2>3. CASE x # p
    BY <1>2, <1>12, <2>1, <2>3 DEF Untouched
  <2> QED BY <2>2, <2>3
<1>16. F \cap (U \cup {t}) = {}
  BY <1>2, <1>7
<1>17. \A u \in HeapAddr : u \in A <=> InBlocks(g, T, u)
  BY <1>2, <1>14
<1>18. HeapWhole(g, F, U \cup {t}, A)
  BY <1>2, <1>10, <1>11, <1>13, <1>15, <1>16, <1>17 DEF HeapWhole
<1> QED BY <1>7, <1>18 DEF g

(* kmalloc takes a block that is not in use. *)
LEMMA UnlinkTakes ==
  ASSUME Chunks!HeapConstants, NEW h, NEW F, NEW U, NEW A, HeapWhole(h, F, U, A),
         NEW prev \in F \cup {HeapEnd}, NEW p \in F, p = h.next[prev],
         NEW n \in Nat, 1 <= n, n <= h.size[p], NEW t, t = p + h.size[p] - n
  PROVE  t \notin U /\ \E G : HeapWhole(Chunks!Unlink(h, prev, p, n), G, U \cup {t}, A)
<1>0. n \in Nat /\ n <= h.size[p]
  OBVIOUS
<1>1. p \in Nat /\ h.size[p] \in Nat
  <2>1. p \in HeapAddr /\ h.size \in [HeapNodes -> Nat]
    BY DEF HeapWhole, Ordered, HeapTyped
  <2>2. F \subseteq HeapAddr
    BY DEF HeapWhole, Ordered
  <2> QED BY <2>1, <2>2, HeapNumbers DEF HeapNodes
<1>2. CASE h.size[p] = n
  <2>1. t = p
    BY <1>1, <1>2
  <2>2. HeapWhole(Chunks!Unlink(h, prev, p, n), F \ {p}, U \cup {p}, A)
    BY <1>2, UnlinkWhole
  <2>3. p \notin U
    BY DEF HeapWhole
  <2> QED BY <2>1, <2>2, <2>3
<1>3. CASE h.size[p] # n
  <2>1. n < h.size[p]
    <3> DEFINE s == h.size[p]
    <3>1. s \in Nat /\ n \in Nat /\ n <= s /\ s # n
      BY <1>0, <1>1, <1>3
    <3> HIDE DEF s
    <3>2. n < s
      BY <3>1
    <3> QED BY <3>2 DEF s
  <2>2. t \notin F \cup U /\ HeapWhole(Chunks!Unlink(h, prev, p, n), F, U \cup {t}, A)
    BY <2>1, SplitWhole
  <2> QED BY <2>2
<1> QED BY <1>2, <1>3

(* A call of kmalloc that finds a block. *)
LEMMA TakeWhole ==
  ASSUME Chunks!HeapConstants, NEW h, NEW F, NEW U, NEW A, HeapWhole(h, F, U, A),
         NEW n \in BlockSizes, Chunks!Fits(h, n) # {}
  PROVE  /\ Chunks!Taken(h, n) \notin U
         /\ \E G : HeapWhole(Chunks!Take(h, n), G, U \cup {Chunks!Taken(h, n)}, A)
<1> DEFINE prev == Chunks!FindPrev(h, n)
           p == h.next[prev]
           t == p + h.size[p] - n
<1>1. n \in Nat /\ 1 <= n
  BY DEF Chunks!HeapConstants
<1>2. HeapTyped(h) /\ Ordered(h, F)
  BY DEF HeapWhole
<1>3. prev \in F \cup {HeapEnd} /\ p \in F /\ h.size[p] >= n
  BY <1>1, <1>2, FitsFound
<1>4. h.size[p] \in Nat
  BY <1>2, <1>3 DEF HeapTyped, Ordered, HeapNodes
<1>5. Chunks!Take(h, n) = Chunks!Unlink(h, prev, p, n) /\ Chunks!Taken(h, n) = t
  BY DEF Chunks!Take, Chunks!Taken
<1> HIDE DEF prev
<1>6. t \notin U /\ \E G : HeapWhole(Chunks!Unlink(h, prev, p, n), G, U \cup {t}, A)
  BY <1>1, <1>3, <1>4, UnlinkTakes
<1> QED BY <1>5, <1>6

(* h with a block at a. *)
Sized(h, a, c) == [h EXCEPT !.size[a] = c]

(* morecore: new units are a block in use until they are freed. *)
LEMMA GrownWhole ==
  ASSUME Chunks!HeapConstants, NEW h, NEW F, NEW U, NEW A, HeapWhole(h, F, U, A),
         NEW a \in HeapAddr, NEW c \in Nat, 1 <= c, a + c <= HeapUnits + 1, (a .. a + c - 1) \cap A = {},
         NEW g, g = Sized(h, a, c)
  PROVE  a \notin F \cup U /\ HeapWhole(g, F, U \cup {a}, A \cup (a .. a + c - 1)) /\ g.size[a] = c
<1> DEFINE S == F \cup U
           T == F \cup (U \cup {a})
<1>1. /\ HeapUnits \in Nat /\ HeapEnd = HeapUnits + 1
      /\ \A x \in S : x \in Nat /\ 1 <= x /\ x <= HeapUnits /\ x # HeapEnd
      /\ \A x \in S \cup {HeapEnd} : x \in HeapNodes
      /\ a \in Nat /\ 1 <= a /\ a <= HeapUnits /\ a \in HeapNodes /\ a # HeapEnd
  <2>1. S \subseteq HeapAddr
    BY DEF HeapWhole, BlocksApart
  <2>2. S \cup {a} \subseteq HeapAddr
    BY <2>1
  <2> QED BY <2>1, <2>2, HeapNumbers DEF HeapNodes
<1>2. HeapTyped(h) /\ Ordered(h, F) /\ F \cap U = {} /\ BlocksApart(h, S) /\ Untouched(h, F)
      /\ A \subseteq HeapAddr /\ \A u \in HeapAddr : u \in A <=> InBlocks(h, S, u)
  BY DEF HeapWhole
<1>3. \A x \in S : h.size[x] \in Nat /\ 1 <= h.size[x] /\ x + h.size[x] <= HeapUnits + 1
  BY <1>1, <1>2 DEF BlocksApart, HeapTyped
<1>4. ASSUME NEW x \in S, NEW u \in HeapAddr, x <= u, u < x + h.size[x] PROVE u \in A
  BY <1>2, <1>4 DEF InBlocks
<1>5. ASSUME NEW x \in S PROVE x # a /\ (x < a => x + h.size[x] <= a) /\ (a < x => a + c <= x)
  <2>1. x \in Nat /\ h.size[x] \in Nat /\ 1 <= h.size[x] /\ x \in HeapAddr
    BY <1>1, <1>2, <1>3 DEF BlocksApart
  <2>2. x \in A
    BY <1>4, <2>1
  <2>3. ~(a <= x /\ x < a + c)
    BY <1>1, <2>1, <2>2
  <2>4. a \notin A
    BY <1>1
  <2>5. ~(x <= a /\ a < x + h.size[x])
    BY <1>4, <2>4
  <2> QED BY <1>1, <2>1, <2>3, <2>5
<1>6. g.next = h.next /\ g.freelist = h.freelist /\ g.size = [h.size EXCEPT ![a] = c]
      /\ g = [next |-> g.next, size |-> g.size, freelist |-> g.freelist]
  BY <1>2 DEF HeapTyped, Sized
<1> HIDE DEF S
<1>7. \A x \in HeapNodes : g.size[x] = IF x = a THEN c ELSE h.size[x]
  BY <1>2, <1>6 DEF HeapTyped
<1>8. HeapTyped(g)
  <2>1. g.size \in [HeapNodes -> Nat]
    BY <1>2, <1>6 DEF HeapTyped
  <2>2. h.next \in [HeapNodes -> HeapNodes \cup {0}] /\ h.size[HeapEnd] = 0 /\ h.freelist \in HeapNodes
        /\ HeapEnd \in HeapNodes
    BY <1>1, <1>2 DEF HeapTyped
  <2> QED BY <1>1, <1>6, <1>7, <2>1, <2>2 DEF HeapTyped
<1>9. Ordered(g, F)
  BY <1>2, <1>6 DEF Ordered
<1>10. \A x \in T : /\ x = a => g.size[x] = c
                    /\ x # a => x \in S /\ g.size[x] = h.size[x]
                    /\ x \in Nat
  BY <1>1, <1>5, <1>7 DEF S
<1>11. BlocksApart(g, T)
  <2>1. T \subseteq HeapAddr
    BY <1>2 DEF BlocksApart, S
  <2>2. ASSUME NEW x \in T PROVE 1 <= g.size[x] /\ x + g.size[x] <= HeapUnits + 1
    BY <1>3, <1>10
  <2>3. ASSUME NEW x \in T, NEW y \in T, x < y PROVE x + g.size[x] <= y
    <3>1. CASE x = a
      <4>1. y # a
        BY <1>1, <2>3, <3>1
      <4> QED BY <1>5, <1>10, <2>3, <3>1, <4>1
    <3>2. CASE x # a /\ y = a
      BY <1>5, <1>10, <2>3, <3>2
    <3>3. CASE x # a /\ y # a
      BY <1>2, <1>10, <2>3, <3>3 DEF BlocksApart
    <3> QED BY <3>1, <3>2, <3>3
  <2> QED BY <2>1, <2>2, <2>3 DEF BlocksApart
<1>12. Untouched(g, F)
  <2>1. \A x \in F : x \in T /\ x # a
    BY <1>5 DEF S
  <2> QED BY <1>2, <1>10, <2>1 DEF Untouched
<1>13. ASSUME NEW u \in HeapAddr PROVE u \in A \cup (a .. a + c - 1) <=> InBlocks(g, T, u)
  <2>0. u \in Nat
    BY <1>1 DEF HeapAddr, Chunks!Addr
  <2>1. u \in a .. a + c - 1 <=> a <= u /\ u < a + g.size[a]
    BY <1>1, <1>10, <2>0
  <2>2. ASSUME u \in A PROVE InBlocks(g, T, u)
    <3>1. PICK x \in S : x <= u /\ u < x + h.size[x]
      BY <1>2, <2>2 DEF InBlocks
    <3>2. x \in T /\ g.size[x] = h.size[x]
      BY <1>5, <1>10, <3>1 DEF S
    <3> QED BY <3>1, <3>2 DEF InBlocks
  <2>3. ASSUME InBlocks(g, T, u), ~(u \in a .. a + c - 1) PROVE u \in A
    <3>1. PICK x \in T : x <= u /\ u < x + g.size[x]
      BY <2>3 DEF InBlocks
    <3>2. x # a
      BY <2>1, <2>3, <3>1
    <3> QED BY <1>4, <1>10, <3>1, <3>2
  <2>4. ASSUME u \in a .. a + c - 1 PROVE InBlocks(g, T, u)
    BY <2>1, <2>4 DEF InBlocks
  <2> QED BY <2>2, <2>3, <2>4
<1>14. A \cup (a .. a + c - 1) \subseteq HeapAddr
  <2>1. a .. a + c - 1 \subseteq HeapAddr
    BY <1>1 DEF HeapAddr, Chunks!Addr
  <2> QED BY <1>2, <2>1
<1>15. a \notin S
  BY <1>5
<1>16. F \cap (U \cup {a}) = {} /\ a \notin F \cup U
  BY <1>2, <1>15 DEF S
<1>17. HeapWhole(g, F, U \cup {a}, A \cup (a .. a + c - 1))
  BY <1>8, <1>9, <1>11, <1>12, <1>13, <1>14, <1>16 DEF HeapWhole
<1>18. g.size[a] = c
  BY <1>1, <1>7
<1> QED BY <1>16, <1>17, <1>18

(* Headers inside blocks are read by nobody. *)
LEMMA SettledWhole ==
  ASSUME Chunks!HeapConstants, NEW h, NEW F, NEW U, NEW A, HeapWhole(h, F, U, A)
  PROVE  HeapWhole(Chunks!Settled(h, U), F, U, A)
<1> DEFINE g == Chunks!Settled(h, U)
<1>1. HeapTyped(h) /\ Ordered(h, F) /\ F \cap U = {} /\ BlocksApart(h, F \cup U) /\ Untouched(h, F)
      /\ A \subseteq HeapAddr /\ \A u \in HeapAddr : u \in A <=> InBlocks(h, F \cup U, u)
  BY DEF HeapWhole
<1>2. Chunks!FreeIn(h) = F
  BY <1>1, FreeInList
<1>3. g = [next |-> [a \in HeapNodes |-> IF a \in F \cup {HeapEnd} THEN h.next[a] ELSE 0],
           size |-> [a \in HeapNodes |-> IF a \in F \cup U THEN h.size[a] ELSE 0],
           freelist |-> h.freelist]
  BY <1>2 DEF Chunks!Settled, HeapNodes, HeapAddr, HeapEnd, Chunks!None
<1>4. F \cup U \subseteq HeapAddr /\ HeapEnd \notin F \cup U
  <2>1. F \cup U \subseteq HeapAddr
    BY <1>1 DEF BlocksApart
  <2> QED BY <2>1, HeapNumbers
<1> HIDE DEF g
<1>5. /\ g.freelist = h.freelist
      /\ \A a \in F \cup {HeapEnd} : g.next[a] = h.next[a]
      /\ \A a \in F \cup U : g.size[a] = h.size[a]
  BY <1>3, <1>4 DEF HeapNodes
<1>6. HeapTyped(g)
  BY <1>1, <1>3, <1>4 DEF HeapTyped, HeapNodes
<1>7. Ordered(g, F)
  BY <1>1, <1>5 DEF Ordered
<1>8. BlocksApart(g, F \cup U) /\ Untouched(g, F)
  BY <1>1, <1>5 DEF BlocksApart, Untouched
<1>9. \A u \in HeapAddr : InBlocks(g, F \cup U, u) <=> InBlocks(h, F \cup U, u)
  BY <1>5 DEF InBlocks
<1>10. HeapWhole(g, F, U, A)
  BY <1>1, <1>6, <1>7, <1>8, <1>9 DEF HeapWhole
<1> QED BY <1>10 DEF g

(* Whole pages are no less than what is asked for. *)
LEMMA ChunkEnough ==
  ASSUME Chunks!HeapConstants, NEW n \in BlockSizes
  PROVE  Chunks!ChunkUnits(n) \in Nat /\ n <= Chunks!ChunkUnits(n)
<1> DEFINE want == IF n < LeastUnits THEN LeastUnits ELSE n
           x == want + UnitsOfPage - 1
           k == x \div UnitsOfPage
<1>1. n \in Nat /\ want \in Nat /\ n <= want /\ UnitsOfPage \in Nat /\ 0 < UnitsOfPage /\ x \in Nat
  BY DEF Chunks!HeapConstants
<1>2. Chunks!ChunkUnits(n) = k * UnitsOfPage
  BY DEF Chunks!ChunkUnits
<1> HIDE DEF want
<1>d. x = want + UnitsOfPage - 1
  OBVIOUS
<1> HIDE DEF x
<1>3. x = UnitsOfPage * k + (x % UnitsOfPage) /\ x % UnitsOfPage \in 0 .. UnitsOfPage - 1 /\ k \in Nat
  BY <1>1
<1> HIDE DEF k
<1>4. k * UnitsOfPage \in Nat /\ UnitsOfPage * k = k * UnitsOfPage
  BY <1>1, <1>3
<1> DEFINE y == k * UnitsOfPage
           r == x % UnitsOfPage
<1>5. y \in Nat /\ x = y + r /\ r \in 0 .. UnitsOfPage - 1
  BY <1>3, <1>4
<1> HIDE DEF y, r
<1>6. want <= y
  BY <1>1, <1>d, <1>5
<1> QED BY <1>1, <1>2, <1>5, <1>6 DEF y

----------------------------------------------------------------------------
(* What the shell has found stays true until its stores, unless a call comes
   between. *)
JobSound(h, F, U, j) ==
  \/ j = Chunks!Idle
  \/ /\ j.call = "kmalloc" /\ j.arg \in BlockSizes
     /\ j.at \in F \cup {HeapEnd} /\ j.block \in F /\ j.block = h.next[j.at] /\ h.size[j.block] >= j.arg
  \/ j.call = "kfree" /\ j.block \in U /\ HeapPlace(h, F, j.block, j.at)

HeapOK(h, U, A, j) == \E F : HeapWhole(h, F, U, A) /\ JobSound(h, F, U, j)

HeapInv == ~h_overlap => HeapOK(heap, out, arena, job)

(* The invariant of the next state, in terms of the next values. *)
LEMMA HeapNext ==
  ASSUME ~h_overlap' => HeapOK(heap', out', arena', job')
  PROVE  HeapInv'
BY DEF HeapInv, HeapOK, HeapWhole, HeapTyped, Ordered, BlocksApart, InBlocks, Untouched, JobSound, HeapPlace,
       HeapNodes, HeapAddr, HeapEnd, Chunks!Addr, Chunks!Base, Chunks!Idle, Chunks!None

(* A call outside a call of the shell leaves a sound list. *)
LEMMA BecomesSound ==
  ASSUME Chunks!HeapConstants, NEW h, NEW F, NEW U, HeapWhole(h, F, U, arena'), Chunks!Becomes(h, U),
         job' = job, h_overlap' = (h_overlap \/ job # Chunks!Idle)
  PROVE  HeapInv'
<1> SUFFICES ASSUME ~h_overlap' PROVE HeapOK(heap', out', arena', job')
  BY HeapNext
<1>1. job = Chunks!Idle
  OBVIOUS
<1>2. heap' = Chunks!Settled(h, U) /\ out' = U
  BY <1>1 DEF Chunks!Becomes
<1>3. HeapWhole(Chunks!Settled(h, U), F, U, arena')
  BY SettledWhole
<1> QED BY <1>1, <1>2, <1>3 DEF HeapOK, JobSound

(* kmalloc. *)
LEMMA MallocStep ==
  ASSUME Chunks!HeapConstants, HeapInv, ~h_overlap, NEW n \in BlockSizes, Chunks!kmalloc(n)
  PROVE  HeapInv'
<1>1. PICK F : HeapWhole(heap, F, out, arena)
  BY DEF HeapInv, HeapOK
<1>2. job' = job /\ h_overlap' = (h_overlap \/ job # Chunks!Idle)
  BY DEF Chunks!kmalloc
<1>3. n \in Nat /\ 1 <= n
  BY DEF Chunks!HeapConstants
<1>4. CASE /\ Chunks!Fits(heap, n) # {}
           /\ Chunks!Becomes(Chunks!Take(heap, n), out \cup {Chunks!Taken(heap, n)})
           /\ arena' = arena
  <2>1. PICK G : HeapWhole(Chunks!Take(heap, n), G, out \cup {Chunks!Taken(heap, n)}, arena)
    BY <1>1, <1>4, TakeWhole
  <2> QED BY <1>2, <1>4, <2>1, BecomesSound
<1>5. ASSUME NEW a \in Chunks!Chunks(n), NEW h, h = Chunks!Grown(heap, a, n),
             Chunks!Becomes(Chunks!Take(h, n), out \cup {Chunks!Taken(h, n)}),
             arena' = arena \cup a .. a + Chunks!ChunkUnits(n) - 1
      PROVE  HeapInv'
  <2> DEFINE c == Chunks!ChunkUnits(n)
             g == [heap EXCEPT !.size[a] = c]
             A == arena \cup (a .. a + c - 1)
             p == Chunks!FindPlace(g, a)
  <2>1. c \in Nat /\ n <= c
    BY ChunkEnough
  <2>2. a \in HeapAddr /\ a + c - 1 <= HeapUnits /\ (a .. a + c - 1) \cap arena = {}
    BY DEF Chunks!Chunks, HeapAddr
  <2>3. a \in Nat /\ HeapUnits \in Nat
    BY <2>2 DEF HeapAddr, Chunks!Addr, Chunks!HeapConstants
  <2>4. h = Chunks!Link(g, p, a)
    BY <1>5 DEF Chunks!Grown, Chunks!Free
  <2> HIDE DEF c
  <2>5. 1 <= c /\ a + c <= HeapUnits + 1
    BY <1>3, <2>1, <2>2, <2>3
  <2>d. g = Sized(heap, a, c)
    BY DEF Sized
  <2> HIDE DEF g
  <2>6. a \notin F \cup out /\ HeapWhole(g, F, out \cup {a}, A) /\ g.size[a] = c
    BY <1>1, <2>1, <2>2, <2>5, <2>d, GrownWhole
  <2>7. Ordered(g, F)
    BY <2>6 DEF HeapWhole
  <2>8. HeapPlace(g, F, a, p)
    BY <2>2, <2>6, <2>7, PlaceFound
  <2> HIDE DEF p, A
  <2>9. PICK G : /\ HeapWhole(Chunks!Link(g, p, a), G, (out \cup {a}) \ {a}, A)
                 /\ \E x \in G : Chunks!Link(g, p, a).size[x] >= g.size[a]
    BY <2>6, <2>8, FreeWhole
  <2>10. (out \cup {a}) \ {a} = out
    BY <2>6
  <2>11. HeapWhole(h, G, out, A) /\ \E x \in G : h.size[x] >= c
    BY <2>4, <2>6, <2>9, <2>10
  <2>12. HeapTyped(h) /\ Ordered(h, G)
    BY <2>11 DEF HeapWhole
  <2>13. \A x \in G : h.size[x] \in Nat
    BY <2>12 DEF HeapTyped, Ordered, HeapNodes
  <2>14. \E x \in G : h.size[x] >= n
    BY <1>3, <2>1, <2>11, <2>13
  <2>15. Chunks!Fits(h, n) # {}
    BY <1>3, <2>12, <2>14, FitsFound
  <2>16. PICK H : HeapWhole(Chunks!Take(h, n), H, out \cup {Chunks!Taken(h, n)}, A)
    BY <2>11, <2>15, TakeWhole
  <2>17. A = arena'
    BY <1>5 DEF A, c
  <2>18. HeapWhole(Chunks!Take(h, n), H, out \cup {Chunks!Taken(h, n)}, arena')
    BY <2>16, <2>17
  <2> QED BY <1>2, <1>5, <2>18, BecomesSound
<1> QED BY <1>4, <1>5 DEF Chunks!kmalloc

(* kfree. *)
LEMMA FreeStep ==
  ASSUME Chunks!HeapConstants, HeapInv, ~h_overlap, NEW b \in out, Chunks!kfree(b)
  PROVE  HeapInv'
<1>1. PICK F : HeapWhole(heap, F, out, arena)
  BY DEF HeapInv, HeapOK
<1>2. job' = job /\ h_overlap' = (h_overlap \/ job # Chunks!Idle) /\ arena' = arena
      /\ Chunks!Becomes(Chunks!Free(heap, b), out \ {b})
  BY DEF Chunks!kfree
<1>3. Ordered(heap, F) /\ b \in HeapAddr \ F
  BY <1>1 DEF HeapWhole, BlocksApart
<1>4. HeapPlace(heap, F, b, Chunks!FindPlace(heap, b))
  BY <1>3, PlaceFound
<1>5. PICK G : HeapWhole(Chunks!Free(heap, b), G, out \ {b}, arena)
  BY <1>1, <1>4, FreeWhole DEF Chunks!Free
<1> QED BY <1>2, <1>5, BecomesSound

(* krealloc: the block is given back after the new one is taken. *)
LEMMA ReallocStep ==
  ASSUME Chunks!HeapConstants, HeapInv, ~h_overlap, NEW b \in out, NEW n \in BlockSizes,
         Chunks!krealloc(b, n)
  PROVE  HeapInv'
<1> DEFINE t == Chunks!Taken(heap, n)
           h == Chunks!Take(heap, n)
<1>1. PICK F : HeapWhole(heap, F, out, arena)
  BY DEF HeapInv, HeapOK
<1>2. job' = job /\ h_overlap' = (h_overlap \/ job # Chunks!Idle) /\ arena' = arena
      /\ Chunks!Fits(heap, n) # {} /\ Chunks!Becomes(Chunks!Free(h, b), (out \ {b}) \cup {t})
  BY DEF Chunks!krealloc
<1>3. t \notin out /\ \E G : HeapWhole(h, G, out \cup {t}, arena)
  BY <1>1, <1>2, TakeWhole
<1> HIDE DEF t, h
<1>4. PICK G : HeapWhole(h, G, out \cup {t}, arena)
  BY <1>3
<1>5. Ordered(h, G) /\ b \in HeapAddr \ G
  BY <1>4 DEF HeapWhole, BlocksApart
<1>6. HeapPlace(h, G, b, Chunks!FindPlace(h, b))
  BY <1>5, PlaceFound
<1>7. PICK H : HeapWhole(Chunks!Free(h, b), H, (out \cup {t}) \ {b}, arena)
  BY <1>4, <1>6, FreeWhole DEF Chunks!Free
<1>8. (out \cup {t}) \ {b} = (out \ {b}) \cup {t}
  BY <1>3
<1> QED BY <1>2, <1>7, <1>8, BecomesSound

(* The searches of the shell. *)
LEMMA SearchStep ==
  ASSUME Chunks!HeapConstants, HeapInv, ~h_overlap,
         \/ \E n \in BlockSizes : Chunks!ShellSearch(n)
         \/ \E b \in out : Chunks!ShellFind(b)
  PROVE  HeapInv'
<1>1. PICK F : HeapWhole(heap, F, out, arena)
  BY DEF HeapInv, HeapOK
<1>2. HeapTyped(heap) /\ Ordered(heap, F)
  BY <1>1 DEF HeapWhole
<1>3. heap' = heap /\ arena' = arena /\ out' = out
  BY DEF Chunks!ShellSearch, Chunks!ShellFind
<1>4. JobSound(heap, F, out, job')
  <2>1. ASSUME NEW n \in BlockSizes, Chunks!ShellSearch(n) PROVE JobSound(heap, F, out, job')
    <3> DEFINE q == Chunks!FindPrev(heap, n)
    <3>1. n \in Nat /\ 1 <= n
      BY DEF Chunks!HeapConstants
    <3>2. q \in F \cup {HeapEnd} /\ heap.next[q] \in F /\ heap.size[heap.next[q]] >= n
      BY <1>2, <2>1, <3>1, FitsFound DEF Chunks!ShellSearch
    <3>3. job' = [call |-> "kmalloc", at |-> q, block |-> heap.next[q], arg |-> n]
      BY <2>1 DEF Chunks!ShellSearch
    <3> HIDE DEF q
    <3>4. job'.call = "kmalloc" /\ job'.at = q /\ job'.block = heap.next[q] /\ job'.arg = n
      BY <3>3
    <3> QED BY <3>2, <3>4 DEF JobSound
  <2>2. ASSUME NEW b \in out, Chunks!ShellFind(b) PROVE JobSound(heap, F, out, job')
    <3>1. b \in HeapAddr \ F
      BY <1>1 DEF HeapWhole, BlocksApart
    <3>2. HeapPlace(heap, F, b, Chunks!FindPlace(heap, b))
      BY <1>2, <3>1, PlaceFound
    <3>3. job'.call = "kfree" /\ job'.at = Chunks!FindPlace(heap, b) /\ job'.block = b
      BY <2>2 DEF Chunks!ShellFind
    <3> QED BY <3>2, <3>3 DEF JobSound
  <2> QED BY <2>1, <2>2
<1>5. HeapOK(heap', out', arena', job')
  BY <1>1, <1>3, <1>4 DEF HeapOK
<1> QED BY <1>5, HeapNext

(* The stores of the shell, when no call came between. *)
LEMMA StoreStep ==
  ASSUME Chunks!HeapConstants, HeapInv, Chunks!ShellTake \/ Chunks!ShellLink
  PROVE  HeapInv'
<1>1. h_overlap' = h_overlap /\ arena' = arena /\ job' = Chunks!Idle
  BY DEF Chunks!ShellTake, Chunks!ShellLink
<1> SUFFICES ASSUME ~h_overlap' PROVE HeapOK(heap', out', arena', job')
  BY HeapNext
<1>2. PICK F : HeapWhole(heap, F, out, arena) /\ JobSound(heap, F, out, job)
  BY <1>1 DEF HeapInv, HeapOK
<1>3. job.call # "kmalloc" \/ job.call # "kfree"
  OBVIOUS
<1>4. job = Chunks!Idle => job.call # "kmalloc" /\ job.call # "kfree"
  BY DEF Chunks!Idle
<1>5. CASE Chunks!ShellTake
  <2> DEFINE n == job.arg
             p == job.block
             t == p + heap.size[p] - n
             h == Chunks!Unlink(heap, job.at, p, n)
  <2>1. job.call = "kmalloc"
    BY <1>5 DEF Chunks!ShellTake
  <2>2. n \in BlockSizes /\ job.at \in F \cup {HeapEnd} /\ p \in F /\ p = heap.next[job.at] /\ heap.size[p] >= n
    BY <1>2, <1>4, <2>1 DEF JobSound
  <2>3. out' = out \cup {t} /\ heap' = Chunks!Settled(h, out')
    <3>1. heap.size[job.block] >= job.arg
      BY <2>2
    <3>2. /\ out' = out \cup {job.block + heap.size[job.block] - job.arg}
          /\ heap' = IF h_overlap
                       THEN Chunks!Unlink(heap, job.at, job.block, job.arg)
                       ELSE Chunks!Settled(Chunks!Unlink(heap, job.at, job.block, job.arg), out')
      BY <1>5, <3>1 DEF Chunks!ShellTake
    <3>3. ~h_overlap
      BY <1>1
    <3>4. heap' = Chunks!Settled(Chunks!Unlink(heap, job.at, job.block, job.arg), out')
      BY <3>2, <3>3
    <3>5. out' = out \cup {t}
      BY <3>2
    <3>6. h = Chunks!Unlink(heap, job.at, job.block, job.arg)
      OBVIOUS
    <3> HIDE DEF t, h
    <3> QED BY <3>4, <3>5, <3>6
  <2>4. n \in Nat /\ 1 <= n
    <3>1. n \in BlockSizes
      BY <2>2
    <3> HIDE DEF n
    <3> QED BY <3>1 DEF Chunks!HeapConstants
  <2>5. heap.size[p] \in Nat
    BY <1>2, <2>2 DEF HeapWhole, HeapTyped, Ordered, HeapNodes
  <2>6. \E G : HeapWhole(h, G, out \cup {t}, arena)
    <3> HIDE DEF n, p
    <3>1. n <= heap.size[p]
      BY <2>2, <2>4, <2>5
    <3> QED BY <1>2, <2>2, <2>4, <3>1, UnlinkTakes
  <2> HIDE DEF h, t
  <2>7. PICK G : HeapWhole(h, G, out', arena)
    BY <2>3, <2>6
  <2>8. HeapWhole(Chunks!Settled(h, out'), G, out', arena)
    BY <2>7, SettledWhole
  <2> QED BY <1>1, <2>3, <2>8 DEF HeapOK, JobSound
<1>6. CASE Chunks!ShellLink
  <2> DEFINE h == Chunks!Link(heap, job.at, job.block)
  <2>1. job.call = "kfree"
    BY <1>6 DEF Chunks!ShellLink
  <2>2. job.block \in out /\ HeapPlace(heap, F, job.block, job.at)
    BY <1>2, <1>4, <2>1 DEF JobSound
  <2>3. out' = out \ {job.block} /\ heap' = Chunks!Settled(h, out')
    BY <1>1, <1>6 DEF Chunks!ShellLink
  <2>4. \E G : HeapWhole(h, G, out \ {job.block}, arena)
    BY <1>2, <2>2, FreeWhole
  <2> HIDE DEF h
  <2>5. PICK G : HeapWhole(h, G, out', arena)
    BY <2>3, <2>4
  <2>6. HeapWhole(Chunks!Settled(h, out'), G, out', arena)
    BY <2>5, SettledWhole
  <2> QED BY <1>1, <2>3, <2>6 DEF HeapOK, JobSound
<1> QED BY <1>5, <1>6

(* Every step of the heap. *)
LEMMA HeapStep ==
  ASSUME Chunks!HeapConstants, HeapInv, [Chunks!Next]_(Chunks!vars)
  PROVE  HeapInv'
<1>1. CASE ~h_overlap /\ \E n \in BlockSizes : Chunks!kmalloc(n) \/ Chunks!ShellSearch(n)
  BY <1>1, MallocStep, SearchStep
<1>2. CASE ~h_overlap /\ \E b \in out : \/ Chunks!kfree(b) \/ Chunks!ShellFind(b)
                                        \/ \E n \in BlockSizes : Chunks!krealloc(b, n)
  BY <1>2, FreeStep, SearchStep, ReallocStep
<1>3. CASE Chunks!ShellTake \/ Chunks!ShellLink
  BY <1>3, StoreStep
<1>4. CASE Chunks!Spoilt \/ UNCHANGED Chunks!vars
  <2>1. /\ heap' = heap /\ out' = out /\ arena' = arena /\ job' = job /\ h_overlap' = h_overlap
    BY <1>4 DEF Chunks!Spoilt, Chunks!vars
  <2>2. h_overlap' \/ HeapOK(heap', out', arena', job')
    <3>1. CASE h_overlap
      BY <2>1, <3>1
    <3>2. CASE ~h_overlap
      <4>1. HeapOK(heap, out, arena, job)
        BY <3>2 DEF HeapInv
      <4> QED BY <2>1, <4>1
    <3> QED BY <3>1, <3>2
  <2> QED BY <2>2, HeapNext
<1> QED BY <1>1, <1>2, <1>3, <1>4 DEF Chunks!Next

(* At first there is no block. *)
LEMMA HeapInit ==
  ASSUME Chunks!HeapConstants, Chunks!Init
  PROVE  HeapInv
<1>1. /\ HeapUnits \in Nat /\ HeapEnd = HeapUnits + 1 /\ HeapEnd \in HeapNodes
      /\ \A a \in HeapNodes : a \in Nat
  BY HeapNumbers DEF HeapNodes, HeapAddr, Chunks!Addr
<1>2. heap = [next     |-> [a \in HeapNodes |-> IF a = HeapEnd THEN HeapEnd ELSE 0],
              size     |-> [a \in HeapNodes |-> 0],
              freelist |-> HeapEnd]
  BY DEF Chunks!Init, HeapNodes, HeapAddr, HeapEnd, Chunks!None
<1>3. HeapTyped(heap)
  BY <1>1, <1>2 DEF HeapTyped
<1>4. Ordered(heap, {})
  BY <1>1, <1>2 DEF Ordered
<1>5. BlocksApart(heap, {}) /\ Untouched(heap, {}) /\ \A u : ~InBlocks(heap, {}, u)
  BY DEF BlocksApart, Untouched, InBlocks
<1>6. HeapWhole(heap, {}, {}, {})
  BY <1>3, <1>4, <1>5 DEF HeapWhole
<1>7. JobSound(heap, {}, {}, job) /\ out = {} /\ arena = {}
  BY DEF Chunks!Init, JobSound
<1> QED BY <1>6, <1>7 DEF HeapInv, HeapOK

(* What the invariant says of the blocks the walk meets. *)
LEMMA WholeSound ==
  ASSUME Chunks!HeapConstants, NEW F, HeapWhole(heap, F, out, arena)
  PROVE  Chunks!Partitioned /\ Chunks!Merged
<1> DEFINE S == F \cup out
<1>1. HeapTyped(heap) /\ Ordered(heap, F) /\ F \cap out = {} /\ BlocksApart(heap, S) /\ Untouched(heap, F)
      /\ arena \subseteq HeapAddr /\ \A u \in HeapAddr : u \in arena <=> InBlocks(heap, S, u)
  BY DEF HeapWhole
<1>2. Chunks!FreeBlocks = F
  BY <1>1, FreeInList DEF Chunks!FreeBlocks
<1>3. /\ HeapUnits \in Nat /\ HeapEnd = HeapUnits + 1
      /\ \A x \in S : x \in Nat /\ 1 <= x /\ x \in HeapNodes
  <2>1. S \subseteq HeapAddr
    BY <1>1 DEF BlocksApart
  <2> QED BY <2>1, HeapNumbers DEF HeapNodes
<1>4. \A x \in S : heap.size[x] \in Nat /\ 1 <= heap.size[x] /\ x + heap.size[x] <= HeapUnits + 1
  BY <1>1, <1>3 DEF BlocksApart, HeapTyped
<1> HIDE DEF S
<1>5. ASSUME NEW x \in S, NEW u
      PROVE  u \in Chunks!Cover(x) <=> u \in HeapAddr /\ x <= u /\ u < x + heap.size[x]
  BY <1>3, <1>4 DEF Chunks!Cover, HeapAddr, Chunks!Addr
<1>6. UNION {Chunks!Cover(x) : x \in S} = arena
  <2>1. ASSUME NEW u \in arena PROVE u \in UNION {Chunks!Cover(x) : x \in S}
    <3>1. u \in HeapAddr /\ InBlocks(heap, S, u)
      BY <1>1
    <3>2. PICK x \in S : x <= u /\ u < x + heap.size[x]
      BY <3>1 DEF InBlocks
    <3>3. u \in Chunks!Cover(x)
      BY <1>5, <3>1, <3>2
    <3> QED BY <3>3
  <2>2. ASSUME NEW x \in S, NEW u \in Chunks!Cover(x) PROVE u \in arena
    <3>1. u \in HeapAddr /\ x <= u /\ u < x + heap.size[x]
      BY <1>5
    <3> QED BY <1>1, <3>1 DEF InBlocks
  <2> QED BY <2>1, <2>2
<1>7. ASSUME NEW x \in S, NEW y \in S, x # y PROVE Chunks!Cover(x) \cap Chunks!Cover(y) = {}
  <2> SUFFICES ASSUME NEW u \in Chunks!Cover(x), u \in Chunks!Cover(y) PROVE FALSE
    OBVIOUS
  <2>1. u \in HeapAddr /\ x <= u /\ u < x + heap.size[x] /\ y <= u /\ u < y + heap.size[y]
    BY <1>5
  <2>2. u \in Nat /\ x \in Nat /\ y \in Nat /\ heap.size[x] \in Nat /\ heap.size[y] \in Nat
    BY <1>3, <1>4, <2>1 DEF HeapAddr, Chunks!Addr
  <2>3. CASE x < y
    <3>1. x + heap.size[x] <= y
      BY <1>1, <2>3 DEF BlocksApart
    <3> QED BY <2>1, <2>2, <3>1
  <2>4. CASE y < x
    <3>1. y + heap.size[y] <= x
      BY <1>1, <2>4 DEF BlocksApart
    <3> QED BY <2>1, <2>2, <3>1
  <2> QED BY <1>7, <2>2, <2>3, <2>4
<1>8. Chunks!Partitioned
  BY <1>1, <1>2, <1>6, <1>7 DEF Chunks!Partitioned, S
<1>9. \A x \in F : x + heap.size[x] \notin F /\ heap.next[x] > x
  <2> SUFFICES ASSUME NEW x \in F PROVE x + heap.size[x] \notin F /\ heap.next[x] > x
    OBVIOUS
  <2>1. x + heap.size[x] \notin F
    BY <1>1 DEF Untouched
  <2>2. x < heap.next[x]
    BY <1>1 DEF Ordered
  <2>3. F \cup {HeapEnd} \subseteq Nat
    BY <1>3 DEF S
  <2>4. heap.next[x] \in Nat /\ x \in Nat
    BY <1>1, <2>3 DEF Ordered
  <2> QED BY <2>1, <2>2, <2>4
<1>10. heap.next[HeapEnd] <= HeapEnd
  <2>1. heap.next[HeapEnd] \in F \cup {HeapEnd}
    BY <1>1 DEF Ordered
  <2>2. F \subseteq HeapAddr
    BY <1>1 DEF Ordered
  <2> QED BY <1>3, <2>1, <2>2, HeapNumbers
<1>11. Chunks!Merged
  BY <1>2, <1>9, <1>10 DEF Chunks!Merged, HeapEnd
<1> QED BY <1>8, <1>11

(* Every unit the heap ever got is in exactly one block, and the free blocks are one
   lap in address order that do not touch, until a call comes between the two parts
   of a call of the shell (kmalloc, kfree and krealloc in heap.c). *)
THEOREM HeapTheorem == MCSpec => []HeapSound
<1>1. Chunks!HeapConstants
  BY MachineConstants
<1>2. MCInit => HeapInv
  BY <1>1, HeapInit DEF MCInit
<1>3. HeapInv /\ [MCNext]_all => HeapInv'
  <2>1. [MCNext]_all => [Chunks!Next]_(Chunks!vars)
    BY DEF MCNext, all, others, heapVars, Chunks!vars, PagesOnly, ChunksOnly, SpacesOnly, KernelOnly,
           TextOnly, ShaOnly
  <2> QED BY <1>1, <2>1, HeapStep
<1>4. HeapInv => HeapSound
  <2> SUFFICES ASSUME HeapInv, ~h_overlap PROVE Chunks!Partitioned /\ Chunks!Merged
    BY DEF HeapSound, Chunks!HeapSound
  <2>1. PICK F : HeapWhole(heap, F, out, arena)
    BY DEF HeapInv, HeapOK
  <2> QED BY <1>1, <2>1, WholeSound
<1> QED BY <1>2, <1>3, <1>4, PTL DEF MCSpec

----------------------------------------------------------------------------
(* The calls of programs. *)

KernelDescs == {Kernel!Closed} \cup [type : {"file"}, node : Kernel!Nodes]
                               \cup [type : {"socket"}, sock : SocketPlaces]

(* What descriptors and sockets are. *)
DescTypes ==
  /\ alive \subseteq Callers /\ active \subseteq SocketPlaces
  /\ desc \in [Callers -> [Kernel!Fds -> KernelDescs]]

(* The sockets of all threads, those that ended included: the address of a socket
   that nobody closed is not given away. *)
SocketsHeld ==
  \A t, u \in Callers, i, j \in Kernel!Fds :
    Kernel!IsSocket(t, i) =>
      /\ desc[t][i].sock \in active
      /\ Kernel!IsSocket(u, j) /\ desc[u][j].sock = desc[t][i].sock => t = u /\ i = j

CallsInv == DescTypes /\ SocketsHeld /\ Kernel!WrappersReach

(* The table of descriptors of one thread with another descriptor in one slot. *)
DescPut(t, i, d) == [desc EXCEPT ![t][i] = d]

(* What a slot holds after one was filled. *)
LEMMA DescPutLemma ==
  ASSUME DescTypes, NEW t \in Callers, NEW i \in Kernel!Fds, NEW d \in KernelDescs,
         desc' = DescPut(t, i, d)
  PROVE  /\ desc' \in [Callers -> [Kernel!Fds -> KernelDescs]]
         /\ \A u \in Callers, j \in Kernel!Fds :
              desc'[u][j] = IF u = t /\ j = i THEN d ELSE desc[u][j]
BY DEF DescTypes, DescPut

(* The lowest free descriptor is a free one. *)
LEMMA LowestSlot ==
  ASSUME Kernel!CallsConstants, NEW t \in Callers, Kernel!Free(t) # {}
  PROVE  Kernel!Lowest(Kernel!Free(t)) \in Kernel!Free(t)
<1> DEFINE S == Kernel!Free(t)
<1>1. S \in SUBSET Nat /\ S # {}
  BY DEF Kernel!Free, Kernel!Fds, Kernel!CallsConstants
<1> HIDE DEF S
<1>2. LowestIn(S) \in S
  BY <1>1, LowestLemma
<1>3. Kernel!Lowest(S) = LowestIn(S)
  BY DEF Kernel!Lowest, LowestIn
<1> QED BY <1>2, <1>3 DEF S

(* A slot that gets a file, or nothing, takes no socket from another. *)
LEMMA PutOther ==
  ASSUME DescTypes, SocketsHeld, NEW t \in Callers, NEW i \in Kernel!Fds, NEW d \in KernelDescs,
         d.type # "socket", desc' = DescPut(t, i, d),
         \/ active' = active
         \/ Kernel!IsSocket(t, i) /\ active' = active \ {desc[t][i].sock}
  PROVE  active' \subseteq SocketPlaces /\ SocketsHeld'
<1>1. \A u \in Callers, j \in Kernel!Fds :
        Kernel!IsSocket(u, j)' => Kernel!IsSocket(u, j) /\ desc'[u][j] = desc[u][j] /\ (u # t \/ j # i)
  BY DescPutLemma DEF Kernel!IsSocket
<1>2. ASSUME NEW u \in Callers, NEW j \in Kernel!Fds, Kernel!IsSocket(u, j)'
      PROVE  desc'[u][j].sock \in active'
  <2>1. /\ Kernel!IsSocket(u, j) /\ desc'[u][j] = desc[u][j] /\ (u # t \/ j # i)
    BY <1>1, <1>2
  <2>2. desc[u][j].sock \in active
    BY <2>1 DEF SocketsHeld
  <2>3. Kernel!IsSocket(t, i) => desc[u][j].sock # desc[t][i].sock
    BY <2>1 DEF SocketsHeld
  <2> QED BY <2>1, <2>2, <2>3
<1>3. active' \subseteq SocketPlaces
  BY DEF DescTypes
<1>4. ASSUME NEW u \in Callers, NEW j \in Kernel!Fds, Kernel!IsSocket(u, j)',
             NEW v \in Callers, NEW k \in Kernel!Fds, Kernel!IsSocket(v, k)',
             desc'[v][k].sock = desc'[u][j].sock
      PROVE  u = v /\ j = k
  <2>1. Kernel!IsSocket(u, j) /\ Kernel!IsSocket(v, k) /\ desc[v][k].sock = desc[u][j].sock
    BY <1>1, <1>4
  <2> QED BY <2>1 DEF SocketsHeld
<1> QED BY <1>2, <1>3, <1>4 DEF SocketsHeld, Kernel!IsSocket

(* A slot that gets a new socket gets one that no slot names. *)
LEMMA PutSocket ==
  ASSUME DescTypes, SocketsHeld, NEW t \in Callers, NEW i \in Kernel!Free(t),
         NEW s \in SocketPlaces \ active, active' = active \cup {s}, alive' = alive,
         desc' = DescPut(t, i, [type |-> "socket", sock |-> s])
  PROVE  DescTypes' /\ SocketsHeld'
<1> DEFINE d == [type |-> "socket", sock |-> s]
<1>1. i \in Kernel!Fds /\ d \in KernelDescs
  BY DEF Kernel!Free, KernelDescs
<1>2. /\ desc' \in [Callers -> [Kernel!Fds -> KernelDescs]]
      /\ \A u \in Callers, j \in Kernel!Fds :
           desc'[u][j] = IF u = t /\ j = i THEN d ELSE desc[u][j]
  BY <1>1, DescPutLemma
<1> HIDE DEF d
<1>d. d.type = "socket" /\ d.sock = s
  BY DEF d
<1>3. ASSUME NEW u \in Callers, NEW j \in Kernel!Fds, Kernel!IsSocket(u, j)'
      PROVE  IF u = t /\ j = i THEN desc'[u][j].sock = s
             ELSE Kernel!IsSocket(u, j) /\ desc'[u][j] = desc[u][j] /\ desc[u][j].sock \in active
  BY <1>2, <1>3, <1>d DEF Kernel!IsSocket, SocketsHeld
<1>4. ASSUME NEW u \in Callers, NEW j \in Kernel!Fds, Kernel!IsSocket(u, j)',
             NEW v \in Callers, NEW k \in Kernel!Fds, Kernel!IsSocket(v, k)',
             desc'[v][k].sock = desc'[u][j].sock
      PROVE  u = v /\ j = k
  <2>1. CASE u = t /\ j = i
    BY <1>3, <1>4, <2>1
  <2>2. CASE ~(u = t /\ j = i)
    <3>1. ~(v = t /\ k = i)
      BY <1>3, <1>4, <2>2
    <3> QED BY <1>3, <1>4, <2>2, <3>1 DEF SocketsHeld
  <2> QED BY <2>1, <2>2
<1>5. SocketsHeld'
  BY <1>3, <1>4 DEF SocketsHeld, Kernel!IsSocket
<1>6. active' \subseteq SocketPlaces
  BY DEF DescTypes
<1> QED BY <1>2, <1>5, <1>6 DEF DescTypes

(* A handler keeps descriptors and sockets together. *)
LEMMA HandlerStep ==
  ASSUME Kernel!CallsConstants, DescTypes, SocketsHeld, NEW t \in Callers, NEW h, Kernel!syscall_handler(t, h)
  PROVE  DescTypes' /\ SocketsHeld'
<1>1. CASE Kernel!sys_exit(t)
  BY <1>1 DEF Kernel!sys_exit, DescTypes, SocketsHeld, Kernel!IsSocket
<1>2. ASSUME NEW n \in Kernel!Nodes, Kernel!sys_open(t, n)
      PROVE  DescTypes' /\ SocketsHeld'
  <2>1. CASE Kernel!Free(t) = {}
    BY <1>2, <2>1 DEF Kernel!sys_open, DescTypes, SocketsHeld, Kernel!IsSocket
  <2>2. CASE Kernel!Free(t) # {}
    <3> DEFINE i == Kernel!Lowest(Kernel!Free(t))
               d == [type |-> "file", node |-> n]
    <3>1. i \in Kernel!Fds
      BY <2>2, LowestSlot DEF Kernel!Free
    <3>2. d \in KernelDescs /\ d.type # "socket"
      BY DEF KernelDescs
    <3>3. desc' = DescPut(t, i, d) /\ active' = active /\ alive' = alive
      BY <1>2, <2>2 DEF Kernel!sys_open, Kernel!Install, DescPut
    <3> HIDE DEF i, d
    <3> QED BY <3>1, <3>2, <3>3, DescPutLemma, PutOther DEF DescTypes
  <2> QED BY <2>1, <2>2
<1>3. ASSUME NEW i \in Kernel!Fds \ Kernel!Free(t), Kernel!sys_close(t, i)
      PROVE  DescTypes' /\ SocketsHeld'
  <2>1. Kernel!Closed \in KernelDescs /\ Kernel!Closed.type # "socket"
    BY DEF KernelDescs, Kernel!Closed
  <2>2. /\ desc' = DescPut(t, i, Kernel!Closed) /\ alive' = alive
        /\ active' = IF Kernel!IsSocket(t, i) THEN active \ {desc[t][i].sock} ELSE active
    BY <1>3 DEF Kernel!sys_close, DescPut
  <2>3. active' \subseteq SocketPlaces /\ SocketsHeld'
    BY <2>1, <2>2, PutOther
  <2> QED BY <2>1, <2>2, <2>3, DescPutLemma DEF DescTypes
<1>4. CASE Kernel!sys_socket(t)
  <2>1. CASE UNCHANGED <<active, desc>>
    BY <1>4, <2>1 DEF Kernel!sys_socket, DescTypes, SocketsHeld, Kernel!IsSocket
  <2>2. ASSUME NEW s \in SocketPlaces \ active, Kernel!Free(t) # {}, active' = active \cup {s},
               Kernel!Install(t, [type |-> "socket", sock |-> s])
        PROVE  DescTypes' /\ SocketsHeld'
    <3> DEFINE i == Kernel!Lowest(Kernel!Free(t))
    <3>1. i \in Kernel!Free(t)
      BY <2>2, LowestSlot
    <3>2. desc' = DescPut(t, i, [type |-> "socket", sock |-> s]) /\ alive' = alive
      BY <1>4, <2>2 DEF Kernel!sys_socket, Kernel!Install, DescPut
    <3> HIDE DEF i
    <3> QED BY <2>2, <3>1, <3>2, PutSocket
  <2> QED BY <1>4, <2>1, <2>2 DEF Kernel!sys_socket
<1>5. CASE Kernel!sys_malloc \/ Kernel!sys_free \/ Kernel!sys_sbrk(t)
           \/ UNCHANGED <<alive, desc, active, Kernel!memory, Kernel!names>>
  BY <1>5 DEF Kernel!sys_malloc, Kernel!sys_free, Kernel!sys_sbrk, DescTypes, SocketsHeld, Kernel!IsSocket
<1> QED BY <1>1, <1>2, <1>3, <1>4, <1>5 DEF Kernel!syscall_handler

(* The number a wrapper passes leads to the handler of its name. *)
LEMMA NumbersMeet ==
  ASSUME NEW name \in Kernel!kyroolib
  PROVE  Kernel!syscall_table(Kernel!SYS(name)) = Kernel!Meant(name)
<1>1. CASE name = "exit"
  BY <1>1 DEF Kernel!SYS, Kernel!syscall_table, Kernel!Meant
<1>2. CASE name # "exit"
  <2>1. PICK n \in DOMAIN Kernel!Names : Kernel!Names[n] = name
    BY <1>2 DEF Kernel!kyroolib
  <2>2. Kernel!SYS(name) \in DOMAIN Kernel!Names /\ Kernel!Names[Kernel!SYS(name)] = name
    <3> DEFINE names == Kernel!Names
    <3> HIDE DEF names
    <3> SUFFICES (CHOOSE k \in DOMAIN names : names[k] = name) \in DOMAIN names
                 /\ names[CHOOSE k \in DOMAIN names : names[k] = name] = name
      BY <1>2 DEF Kernel!SYS, names
    <3> QED BY <2>1 DEF names
  <2>3. Kernel!SYS(name) # 0
    <3>1. 0 \notin DOMAIN Kernel!Names
      BY DEF Kernel!Names
    <3> QED BY <2>2, <3>1
  <2> QED BY <2>2, <2>3 DEF Kernel!syscall_table, Kernel!Meant
<1> QED BY <1>1, <1>2

(* A wrapper keeps the invariant and reaches its handler. *)
LEMMA WrapperStep ==
  ASSUME Kernel!CallsConstants, CallsInv, NEW t \in Callers, NEW name \in Kernel!kyroolib,
         Kernel!Wrapper(t, name)
  PROVE  CallsInv'
<1> DEFINE h == Kernel!syscall_table(Kernel!SYS(name))
<1>1. h = Kernel!Meant(name)
  BY NumbersMeet
<1>2. CASE h # "readdir"
  <2>1. Kernel!syscall_handler(t, h) /\ served' = "right"
    BY <1>1, <1>2 DEF Kernel!Wrapper
  <2> HIDE DEF h
  <2> QED BY <2>1, HandlerStep DEF CallsInv, Kernel!WrappersReach
<1>3. CASE h = "readdir"
  <2>1. served' \in {"right", "node"} /\ UNCHANGED <<alive, desc, active>>
    BY <1>3 DEF Kernel!Wrapper, Kernel!sys_readdir
  <2> QED BY <2>1 DEF CallsInv, DescTypes, SocketsHeld, Kernel!IsSocket, Kernel!WrappersReach
<1> QED BY <1>2, <1>3

(* Every step of a program, its graphics libraries included, keeps the invariant. *)
LEMMA CallsStep ==
  ASSUME Kernel!CallsConstants, CallsInv, [Kernel!Next]_(Kernel!callVars)
  PROVE  CallsInv'
<1>1. CASE UNCHANGED Kernel!callVars
  BY <1>1 DEF Kernel!callVars, CallsInv, DescTypes, SocketsHeld, Kernel!IsSocket, Kernel!WrappersReach
<1>2. ASSUME NEW t \in Callers, Kernel!gfx_init(t)
      PROVE  CallsInv'
  BY <1>2 DEF Kernel!gfx_init, Kernel!sys_mkdir_empty, CallsInv, DescTypes, SocketsHeld, Kernel!IsSocket,
              Kernel!WrappersReach
<1>3. ASSUME NEW t \in Callers, Kernel!tui_init(t)
      PROVE  CallsInv'
  <2>1. PICK h : Kernel!syscall_handler(t, h)
    BY <1>3 DEF Kernel!tui_init
  <2>2. served' = "graphics"
    BY <1>3 DEF Kernel!tui_init
  <2> QED BY <2>1, <2>2, HandlerStep DEF CallsInv, Kernel!WrappersReach
<1> QED BY <1>1, <1>2, <1>3, WrapperStep DEF Kernel!Next, Kernel!Ended, Kernel!CallOf

(* An open socket is named by one descriptor of one thread, and a library call of a
   program reaches the service it names, for every set of threads, every length of
   the tables and every break (socket_create, close and syscall_dispatch). *)
THEOREM CallsTheorem == MCSpec => []CallsSound
<1>1. Kernel!CallsConstants
  BY MachineConstants
<1>2. MCInit => CallsInv
  <2> SUFFICES ASSUME MCInit PROVE CallsInv
    OBVIOUS
  <2>1. Kernel!Init
    BY DEF MCInit
  <2>2. \A t \in Callers, i \in Kernel!Fds : desc[t][i] = Kernel!Closed
    BY <2>1 DEF Kernel!Init
  <2>3. \A t \in Callers, i \in Kernel!Fds : ~Kernel!IsSocket(t, i)
    BY <2>2 DEF Kernel!IsSocket, Kernel!Closed
  <2> QED BY <2>1, <2>3 DEF Kernel!Init, CallsInv, DescTypes, SocketsHeld, Kernel!WrappersReach, KernelDescs
<1>3. CallsInv /\ [MCNext]_all => CallsInv'
  <2>1. [MCNext]_all => [Kernel!Next]_(Kernel!callVars)
    BY DEF MCNext, all, others, callsVars, Kernel!callVars, PagesOnly, ChunksOnly, SpacesOnly, KernelOnly,
           TextOnly, ShaOnly
  <2> QED BY <1>1, <2>1, CallsStep
<1>4. CallsInv => CallsSound
  BY DEF CallsInv, DescTypes, SocketsHeld, CallsSound, Kernel!CallsSound, Kernel!SocketsNamed
<1> QED BY <1>2, <1>3, <1>4, PTL DEF MCSpec
=============================================================================
