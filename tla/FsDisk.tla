------------------------------- MODULE FsDisk -------------------------------
(***************************************************************************)
(* The on-disk file system of KyroOS (fs_disk.c): a superblock, a table    *)
(* with one entry per block and a data area that is handed out in order.   *)
(* The table and the superblock are cached in memory.  Every write of a    *)
(* block is a step of its own, it may fail, and the machine may stop       *)
(* before it.  Calls follow one another: a second call starts when the     *)
(* first has returned.                                                     *)
(***************************************************************************)
EXTENDS Naturals, Sequences

CONSTANTS Names,     \* names shorter than FS_MAX_FILENAME_LEN
          Values,    \* what a written file may hold
          MaxFiles,  \* FS_MAX_FILES, 32 in the code
          Total,     \* size of the partition in blocks
          MaxLen,    \* longest file, in blocks
          Faults,    \* bound: the kinds of fault that happen, of {"io", "format", "long"}
          NoSignature, Unused, NoCache, Absent

First  == 1 + MaxFiles                 \* the first data block
Slots  == 1 .. MaxFiles
Blocks == First .. Total - 1

(* An entry of the table.  A file without data starts at block 0. *)
Entries == [name : Names, kind : {"file", "dir"}, start : {0} \cup First .. Total, size : 0 .. MaxLen]
Supers  == [next : First .. Total, free : 0 .. Total]

DiskConstants ==
  /\ MaxFiles \in Nat \ {0} /\ Total \in Nat /\ First < Total /\ MaxLen \in Nat
  /\ NoSignature \notin Supers /\ Unused \notin Entries
  /\ NoCache \notin [Slots -> Entries \cup {Unused}]

VARIABLES super,    \* superblock on the disk
          table,    \* file table on the disk
          data,     \* data area on the disk: <<value, index>> of the file it was written for
          mounted,  \* mounted_disk_node is not NULL
          sb,       \* current_superblock
          cache,    \* file_table_cache
          op,       \* the call in progress
          content,  \* history: what completed calls made of each file, before a fault
          faults    \* the faults that have happened: "io", a block could not be
                    \* written; "format", a mounted disk was formatted or a
                    \* format was cut short; "long", a file of several blocks
                    \* was written

disk == <<super, table, data>>
vars == <<disk, mounted, sb, cache, op, content, faults>>

Chunks == (Values \X (1 .. MaxLen)) \cup {Unused}
Idle   == [kind |-> "none"]
Nothing == [n \in Names |-> Absent]

Init ==
  /\ super   = NoSignature
  /\ table   = [s \in Slots |-> Unused]
  /\ data    = [b \in Blocks |-> Unused]
  /\ mounted = FALSE
  /\ sb      = NoSignature
  /\ cache   = NoCache
  /\ op      = Idle
  /\ content = Nothing
  /\ faults  = {}

----------------------------------------------------------------------------
(* The model allows one kind of fault in a behaviour. *)
MayFail(f) == f \in Faults /\ faults \subseteq {f}

Used(t, s) == t[s] # Unused

(* Mutant of find_file_entry: no name is ever found. *)
FindNothing(name) == {}

(* find_file_entry, as the set of slots that hold name; the code takes the
   first, and there is at most one (NamesUnique) unless a write failed. *)
find_file_entry(name) == {s \in Slots : Used(cache, s) /\ cache[s].name = name}

Lowest(S) == CHOOSE s \in S : \A r \in S : s <= r

FreeSlots == {s \in Slots : ~Used(cache, s)}

(* Mutants of Taken, the superblock after allocate_block: it does not count
   below zero, it does not move on, it does not count. *)
TakenUnchecked(s) == [next |-> s.next + 1, free |-> s.free - 1]
TakenInPlace(s)   == IF s.free = 0 THEN s ELSE [s EXCEPT !.free = @ - 1]
TakenUncounted(s) == IF s.free = 0 THEN s ELSE [s EXCEPT !.next = @ + 1]

Taken(s) == IF s.free = 0 THEN s ELSE [next |-> s.next + 1, free |-> s.free - 1]

(* The result of allocate_block, 0 when nothing is free. *)
NewBlock(s) == IF s.free = 0 THEN 0 ELSE s.next

(* Mutant of Fits: the free blocks are not looked at. *)
FitsAlways(n) == TRUE

Fits(n) == n <= sb.free

File(v, n) == [i \in 1 .. n |-> <<v, i>>]

Begin(kind, pc, name, slot, new) ==
  op' = [kind |-> kind, pc |-> pc, name |-> name, slot |-> slot, new |-> new, i |-> 1]

(* fs_write_file up to the first write.  One block is allocated, whatever the
   size, and the entry in memory points to it at once. *)
fs_write_file(name, v, n) ==
  /\ op = Idle
  /\ cache # NoCache
  /\ find_file_entry(name) # {}
  /\ LET s == Lowest(find_file_entry(name)) IN
       /\ cache[s].kind = "file"
       /\ Fits(n)
       /\ n > 1 => MayFail("long")
       /\ faults' = IF n > 1 THEN faults \cup {"long"} ELSE faults
       /\ cache' = [cache EXCEPT ![s].start = NewBlock(sb)]
       /\ Begin("write", IF sb.free = 0 THEN "data" ELSE "super", name, s, File(v, n))
  /\ sb' = Taken(sb)
  /\ UNCHANGED <<disk, mounted, content>>

(* fs_create_file up to the first write. *)
fs_create_file(name, kind) ==
  /\ op = Idle
  /\ mounted
  /\ cache # NoCache
  /\ find_file_entry(name) = {}
  /\ FreeSlots # {}
  /\ LET s == Lowest(FreeSlots) IN
       /\ cache' = [cache EXCEPT ![s] = [name |-> name, kind |-> kind, start |-> 0, size |-> 0]]
       /\ Begin("create", "table", name, s, <<>>)
  /\ UNCHANGED <<disk, mounted, sb, content, faults>>

(* fs_delete_file up to the first write; the blocks of the file are not freed. *)
fs_delete_file(name) ==
  /\ op = Idle
  /\ mounted
  /\ cache # NoCache
  /\ find_file_entry(name) # {}
  /\ LET s == Lowest(find_file_entry(name)) IN
       /\ cache' = [cache EXCEPT ![s] = Unused]
       /\ Begin("delete", "table", name, s, Absent)
  /\ UNCHANGED <<disk, mounted, sb, content, faults>>

(* fs_format up to the first write.  Nothing keeps it off a mounted disk. *)
fs_format ==
  /\ op = Idle
  /\ mounted => MayFail("format")
  /\ Begin("format", "super", Absent, 1, Absent)
  /\ faults' = IF mounted THEN faults \cup {"format"} ELSE faults
  /\ UNCHANGED <<disk, mounted, sb, cache, content>>

(* fs_mount, also of a disk that is mounted already.  A table that cannot be
   read leaves no cache. *)
fs_mount ==
  /\ op = Idle
  /\ super # NoSignature
  /\ \/ /\ mounted' = TRUE /\ sb' = super /\ cache' = table
     \/ /\ cache' = NoCache /\ UNCHANGED <<mounted, sb>>
  /\ UNCHANGED <<disk, op, content, faults>>

(* fs_unmount up to the first write. *)
fs_unmount ==
  /\ op = Idle
  /\ mounted
  /\ Begin("unmount", "super", Absent, 1, Absent)
  /\ UNCHANGED <<disk, mounted, sb, cache, content, faults>>

----------------------------------------------------------------------------
(* The writes of a call.  Only fs_format and the loop over the data blocks
   look at their result. *)
Finish ==
  /\ op' = Idle
  /\ IF op.kind = "unmount" THEN mounted' = FALSE /\ cache' = NoCache
                            ELSE UNCHANGED <<mounted, cache>>
  /\ content' = IF op.kind = "format" \/ faults' # {} THEN Nothing
                ELSE IF op.kind = "unmount" THEN content
                ELSE [content EXCEPT ![op.name] = op.new]

Abort == op' = Idle /\ content' = Nothing /\ UNCHANGED <<mounted, cache>>

Goto(pc) == op' = [op EXCEPT !.pc = pc, !.i = 1] /\ UNCHANGED <<mounted, cache, content>>

AfterSuper == Goto(IF op.kind = "write" THEN "data" ELSE "table")

Blank == [next |-> First, free |-> Total - First]

WriteSuper ==
  /\ op # Idle
  /\ op.pc = "super"
  /\ \/ /\ super' = IF op.kind = "format" THEN Blank ELSE sb
        /\ AfterSuper
        /\ UNCHANGED faults
     \/ /\ MayFail("io")
        /\ faults' = faults \cup {"io"}
        /\ IF op.kind = "format" THEN Abort ELSE AfterSuper
        /\ UNCHANGED super
  /\ UNCHANGED <<table, data, sb>>

Target == cache[op.slot].start + op.i - 1

WriteData ==
  /\ op # Idle
  /\ op.pc = "data"
  /\ op.i <= Len(op.new)
  /\ \/ /\ data' = [data EXCEPT ![Target] = op.new[op.i]]
        /\ op' = [op EXCEPT !.i = @ + 1]
        /\ UNCHANGED <<mounted, cache, content, faults>>
     \/ /\ MayFail("io")
        /\ faults' = faults \cup {"io"}
        /\ Abort
        /\ UNCHANGED data
  /\ UNCHANGED <<super, table, sb>>

(* All blocks are written: the size is set and the table goes to the disk. *)
SetSize ==
  /\ op # Idle
  /\ op.pc = "data"
  /\ op.i > Len(op.new)
  /\ cache' = [cache EXCEPT ![op.slot].size = Len(op.new)]
  /\ op' = [op EXCEPT !.pc = "table", !.i = 1]
  /\ UNCHANGED <<disk, mounted, sb, content, faults>>

(* update_file_table, or the zeroing loop of fs_format. *)
WriteTable ==
  /\ op # Idle
  /\ op.pc = "table"
  /\ op.kind = "format" \/ cache # NoCache
  /\ \/ /\ table' = [table EXCEPT ![op.i] = IF op.kind = "format" THEN Unused ELSE cache[op.i]]
        /\ UNCHANGED faults
        /\ IF op.i < MaxFiles
             THEN op' = [op EXCEPT !.i = @ + 1] /\ UNCHANGED <<mounted, cache, content>>
             ELSE Finish
     \/ /\ MayFail("io")
        /\ faults' = faults \cup {"io"}
        /\ IF op.kind = "format" THEN Abort ELSE Finish
        /\ UNCHANGED table
  /\ UNCHANGED <<super, data, sb>>

(* update_file_table without a cache, on the way of fs_unmount. *)
NoTable ==
  /\ op # Idle
  /\ op.pc = "table"
  /\ op.kind = "unmount"
  /\ cache = NoCache
  /\ UNCHANGED <<disk, sb, faults>>
  /\ Finish

----------------------------------------------------------------------------
(* What the disk holds under a name. *)
OnDisk(name) ==
  LET found == {s \in Slots : Used(table, s) /\ table[s].name = name}
      e     == table[Lowest(found)]
  IN  IF found = {} THEN Absent
      ELSE [i \in 1 .. e.size |-> IF e.start + i - 1 \in Blocks THEN data[e.start + i - 1] ELSE Unused]

(* The machine stops between two writes of blocks and starts again. *)
Crash ==
  /\ op # Idle /\ op.kind = "format" => MayFail("format")
  /\ mounted' = FALSE /\ sb' = NoSignature /\ cache' = NoCache /\ op' = Idle
  /\ faults'  = IF op # Idle /\ op.kind = "format" THEN faults \cup {"format"} ELSE faults
  /\ content' = IF faults' = {} THEN [n \in Names |-> OnDisk(n)] ELSE Nothing
  /\ UNCHANGED disk

Next == \/ \E name \in Names, v \in Values, n \in 0 .. MaxLen : fs_write_file(name, v, n)
        \/ \E name \in Names, kind \in {"file", "dir"} : fs_create_file(name, kind)
        \/ \E name \in Names : fs_delete_file(name)
        \/ fs_format \/ fs_mount \/ fs_unmount
        \/ WriteSuper \/ WriteData \/ SetSize \/ WriteTable \/ NoTable
        \/ Crash

Spec == Init /\ [][Next]_vars

----------------------------------------------------------------------------
SuperOK(s) == s = NoSignature \/ s \in Supers
EntryOK(e) == e = Unused \/ e \in Entries

TypeOK ==
  /\ SuperOK(super) /\ SuperOK(sb)
  /\ \A s \in Slots : EntryOK(table[s])
  /\ cache = NoCache \/ \A s \in Slots : EntryOK(cache[s])
  /\ data \in [Blocks -> Chunks]
  /\ mounted \in BOOLEAN
  /\ cache # NoCache => mounted
  /\ op = Idle \/ (op.kind \in {"write", "create", "delete", "unmount", "format"}
                   /\ op.pc \in {"super", "data", "table"})
  /\ faults \subseteq {"io", "format", "long"}

(* Whenever the machine stops, a file holds what the last completed call left
   in it or all of what the call in progress writes, never a mixture and never
   the data of another file.  This takes files of one block, no failed write and
   no format of a mounted disk or cut short. *)
CrashAtomic ==
  faults = {} =>
    \A n \in Names :
      \/ OnDisk(n) = content[n]
      \/ /\ op # Idle
         /\ op.kind = "format" \/ (op.name = n /\ OnDisk(n) = op.new)

(* No two entries have the same name, on the disk and in the cache, across
   interrupted calls and remounts, as long as no write fails. *)
UniqueIn(t) == \A r, s \in Slots : Used(t, r) /\ Used(t, s) /\ t[r].name = t[s].name => r = s
NamesUnique == "io" \notin faults => UniqueIn(table) /\ (cache # NoCache => UniqueIn(cache))

(* The counter of free blocks agrees with the next free block, in memory and on
   the disk, through failed and interrupted writes and formats. *)
SpaceAccounted ==
  /\ super # NoSignature => super.next + super.free = Total
  /\ sb # NoSignature => sb.next + sb.free = Total

(* The blocks of a file are written in the data area of the partition: never
   over the superblock or the table and never past the end. *)
DataStaysData == op # Idle /\ op.pc = "data" /\ op.i <= Len(op.new) => Target \in Blocks

(* Two files never share a block. *)
Extent(e) == e.start .. e.start + e.size - 1
ExtentsDisjoint ==
  cache # NoCache =>
    \A r, s \in Slots : r # s /\ Used(cache, r) /\ Used(cache, s)
                        => Extent(cache[r]) \cap Extent(cache[s]) = {}

=============================================================================
