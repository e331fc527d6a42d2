------------------------------ MODULE MCMemory ------------------------------
(***************************************************************************)
(* The page allocator and what is built on it, for TLC: the kernel heap,   *)
(* the address spaces of programs, the calls of programs and the functions *)
(* on strings and digests. `machine' is the one a behaviour is about; the  *)
(* others stay as they are initially.                                      *)
(***************************************************************************)
EXTENDS Pmm, TLC

CONSTANTS
  HeapUnits, LeastUnits, UnitsOfPage, BlockSizes,                 \* of the heap
  Callers, DescriptorCount, Folders, PlainFiles, RootFolder,      \* of the calls of programs
  SocketPlaces, ProgramBlocks, FirstBreak, BreakValues, BreakSteps

VARIABLES
  machine,
  heap, arena, out, job, h_overlap,
  s_used, space, cr3, phase, todo, args, halted, short,
  alive, desc, active, brk, given, unnamed, c_halted, served,
  mem, last,
  caller, d_phase, len, data, buffer, hash, loaded

heapVars == <<heap, arena, out, job, h_overlap>>
spaceVars == <<s_used, space, cr3, phase, todo, args, halted, short>>
callsVars == <<alive, desc, active, brk, given, unnamed, c_halted, served>>
stringsVars == <<mem, last>>
digestVars == <<caller, d_phase, len, data, buffer, hash, loaded>>

Chunks == INSTANCE Heap
  WITH Units <- HeapUnits, MinUnits <- LeastUnits, PageUnits <- UnitsOfPage, Sizes <- BlockSizes,
       overlap <- h_overlap
Spaces == INSTANCE AddressSpace
  WITH Programs <- {"p", "q"}, Pages <- 1 .. 15,
       Images <- {<<<<0, 0, 0, 0>>>>, <<<<0, 0, 0, 0>>, <<0, 0, 0, 0>>>>},
       StackPages <- <<<<1, 1, 1, 0>>, <<1, 1, 1, 1>>>>, PageSize <- 64,
       Arguments <- {<<5>>, <<70>>}, Screen <- <<<<2, 0, 0, 0>>, <<2, 0, 0, 1>>>>,
       Frames <- <<100, 101>>, used <- s_used
Kernel == INSTANCE Calls
  WITH Threads <- Callers, MAX_FILES <- DescriptorCount, Directories <- Folders,
       Plain <- PlainFiles, Top <- RootFolder, Sockets <- SocketPlaces,
       Blocks <- ProgramBlocks, Bottom <- FirstBreak, W <- BreakValues,
       Increments <- BreakSteps, halted <- c_halted
Text == INSTANCE Strings
  WITH Cells <- 4, Bytes <- {0, 1, 2}, Half <- 8, Base <- 3
Sha == INSTANCE Digest
  WITH Block <- 4, Room <- 3, Trailer <- 2, MaxLen <- 13, phase <- d_phase

ASSUME MachineConstants ==
  /\ Chunks!HeapConstants
  /\ Spaces!SpaceConstants
  /\ Kernel!CallsConstants
  /\ Text!StringsConstants
  /\ Sha!DigestConstants

others == <<machine, heapVars, spaceVars, callsVars, stringsVars, digestVars>>
all    == <<vars, others>>

MCInit ==
  /\ machine \in {"pages", "heap", "space", "calls", "strings", "digest"}
  /\ Init /\ Chunks!Init /\ Spaces!Init /\ Kernel!Init /\ Text!Init /\ Sha!Init
  /\ machine # "strings" => mem = [i \in 1 .. 4 |-> 0]

\* A step of one machine; whatever is not one of its variables stays.
PagesOnly == UNCHANGED others
ChunksOnly == UNCHANGED <<machine, vars, spaceVars, callsVars, stringsVars, digestVars>>
SpacesOnly == UNCHANGED <<machine, vars, heapVars, callsVars, stringsVars, digestVars>>
KernelOnly == UNCHANGED <<machine, vars, heapVars, spaceVars, stringsVars, digestVars>>
TextOnly == UNCHANGED <<machine, vars, heapVars, spaceVars, callsVars, digestVars>>
ShaOnly == UNCHANGED <<machine, vars, heapVars, spaceVars, callsVars, stringsVars>>

MCNext ==
  \/ machine = "pages" /\ Next /\ PagesOnly
  \/ machine = "heap" /\ Chunks!Next /\ ChunksOnly
  \/ machine = "space" /\ Spaces!Next /\ SpacesOnly
  \/ machine = "calls" /\ Kernel!Next /\ KernelOnly
  \/ machine = "strings" /\ Text!Next /\ TextOnly
  \/ machine = "digest" /\ Sha!Next /\ ShaOnly

MCSpec == MCInit /\ [][MCNext]_all

----------------------------------------------------------------------------
\* Types of every machine.
TypesOK ==
  /\ TypeOK
  /\ machine = "heap" => Chunks!TypeOK
  /\ machine = "space" => Spaces!TypeOK
  /\ machine = "calls" => Kernel!TypeOK
  /\ machine = "strings" => Text!TypeOK
  /\ machine = "digest" => Sha!TypeOK
\* The list of free blocks is sound while no call comes between (heap.c).
HeapSound == machine = "heap" => Chunks!HeapSound
\* A physical page is part of one address space only (vmm.c, elf.c, thread.c).
PagesOwnedOnce == machine = "space" => Spaces!PagesOwnedOnce /\ Spaces!ArgumentsThere
\* Sockets have an owner that can name them, and a library call reaches its service (syscall.c).
CallsSound == machine = "calls" => Kernel!CallsSound
\* The functions of the libraries do what their names say (string.c, crypto.c).
LibraryTrue == (machine = "strings" => Text!StringsTrue) /\ (machine = "digest" => Sha!DigestTrue)
=============================================================================
