-------------------------------- MODULE Ide --------------------------------
(***************************************************************************)
(* ide.c: one disk behind the registers of the primary ATA channel.  The   *)
(* shell transfers sectors register by register with interrupts on; the    *)
(* system call of a program is one step that may come between two of its   *)
(* register writes.  Nothing locks the channel.                            *)
(***************************************************************************)
EXTENDS Integers, Sequences

CONSTANTS Sectors,   \* number of sectors of the disk
          Bytes,     \* bytes of a sector: 512
          Counts,    \* values of the sector count register: 256
          Sizes,     \* sizes of the transfers asked for, in bytes
          Values,    \* contents of a sector
          Blank      \* what is read from a channel that has no data

\* What the constants are.
IdeConstants ==
  /\ Sectors \in Nat \ {0} /\ Bytes \in Nat \ {0}
  /\ Counts \in Nat \ {0} /\ Sizes \subseteq Nat
  /\ Blank \notin Values

Lba   == 0 .. Sectors - 1
NoJob == [op |-> "none", lba |-> 0, left |-> 0]
Fail  == -1

VARIABLES
    media,      \* contents of the sectors
    nodes,      \* device nodes under /dev; empty until a disk was found
    count, lba, \* the sector count and address registers
    job,        \* the transfer the drive is in
    call,       \* the shell's call
    before,     \* media when that call began
    overlap     \* a program's transfer came into that call

vars == <<media, nodes, count, lba, job, call, before, overlap>>

Idle == [op |-> "none", at |-> "idle", lba |-> 0, size |-> 0, i |-> 0, data |-> <<>>, result |-> 0]

\* The wrappers put the number of sectors, rounded up, in eight bits.
NumSectors(size) == ((size + Bytes - 1) \div Bytes) % Counts
Asked(size)      == (size + Bytes - 1) \div Bytes

Init == /\ media \in [Lba -> Values]
        /\ nodes = {}
        /\ count = 0 /\ lba = 0
        /\ job = NoJob
        /\ call = Idle /\ before = media /\ overlap = FALSE

\* ide_read_wrapper returns 0 for a sector that was read.
ReadWrapper(ok) == IF ok THEN 0 ELSE Fail

\* ide_init_partitions makes the nodes of the partitions of the boot record
\* if the wrapper says that it read 512 bytes.
InitPartitions(ok, listed) == IF ReadWrapper(ok) = Bytes THEN listed ELSE {}

\* ide_attach, at boot: IDENTIFY may find no drive or time out.
Attach(ok, listed) ==
    /\ nodes = {}
    /\ nodes' = {"sda"} \cup InitPartitions(ok, listed)
    /\ UNCHANGED <<media, count, lba, job, call, before, overlap>>

\* A transfer asked for by the shell; a write must be of whole sectors.
Call(op, at, size, data) ==
    /\ nodes # {} /\ call.at = "idle" /\ at + Asked(size) <= Sectors
    /\ Len(data) = IF op = "write" THEN Asked(size) ELSE 0
    /\ call' = [op |-> op, lba |-> at, size |-> size, i |-> 0, data |-> data,
                at |-> IF op = "write" /\ size % Bytes # 0 THEN "done" ELSE "count",
                result |-> IF op = "write" /\ size % Bytes # 0 THEN Fail ELSE 0]
    /\ before' = media /\ overlap' = FALSE
    /\ UNCHANGED <<media, nodes, count, lba, job>>

\* Mutated form of SetLba: the address register is forgotten.
SetLbaLate ==
    /\ call.at = "lba"
    /\ call' = [call EXCEPT !.at = "command"]
    /\ UNCHANGED <<media, nodes, count, lba, job, before, overlap>>

\* ide_wait_for_ready gives up after 100000 reads of a busy status, and a drive fault
\* or error ends the loop.
GiveUp ==
    /\ call.at \in {"count", "sectors", "flush"}
    /\ call' = [call EXCEPT !.at = "done", !.result = Fail] /\ job' = NoJob
    /\ UNCHANGED <<media, nodes, count, lba, before, overlap>>

SetCount ==
    /\ call.at = "count"
    /\ count' = NumSectors(call.size)
    /\ call' = [call EXCEPT !.at = "lba"]
    /\ UNCHANGED <<media, nodes, lba, job, before, overlap>>

SetLba ==
    /\ call.at = "lba"
    /\ lba' = call.lba
    /\ call' = [call EXCEPT !.at = "command"]
    /\ UNCHANGED <<media, nodes, count, job, before, overlap>>

\* The drive takes a count of zero as the largest.
Command ==
    /\ call.at = "command"
    /\ job' = [op |-> call.op, lba |-> lba, left |-> IF count = 0 THEN Counts ELSE count]
    /\ call' = [call EXCEPT !.at = IF NumSectors(call.size) # 0 THEN "sectors"
                                   ELSE IF call.op = "write" THEN "flush" ELSE "done"]
    /\ UNCHANGED <<media, nodes, count, lba, before, overlap>>

\* The sector that the data port reads or writes next.
Port     == IF job.op = call.op /\ job.left > 0 /\ job.lba \in Lba THEN job.lba ELSE Fail
NextJob  == IF Port = Fail THEN NoJob ELSE [job EXCEPT !.lba = @ + 1, !.left = @ - 1]
NextTurn == [call EXCEPT !.i = @ + 1,
                         !.at = IF call.i + 1 < NumSectors(call.size) THEN "sectors"
                                ELSE IF call.op = "write" THEN "flush" ELSE "done"]

\* One turn of the loop: one sector goes over.
ReadSector ==
    /\ call.at = "sectors" /\ call.op = "read"
    /\ call' = [NextTurn EXCEPT !.data = Append(@, IF Port = Fail THEN Blank ELSE media[Port])]
    /\ job' = NextJob
    /\ UNCHANGED <<media, nodes, count, lba, before, overlap>>

WriteSector ==
    /\ call.at = "sectors" /\ call.op = "write"
    /\ media' = IF Port = Fail THEN media ELSE [media EXCEPT ![Port] = call.data[call.i + 1]]
    /\ call' = NextTurn /\ job' = NextJob
    /\ UNCHANGED <<nodes, count, lba, before, overlap>>

Flush ==
    /\ call.at = "flush"
    /\ call' = [call EXCEPT !.at = "done"] /\ job' = NoJob
    /\ UNCHANGED <<media, nodes, count, lba, before, overlap>>

Return ==
    /\ call.at = "done"
    /\ call' = Idle /\ before' = media /\ overlap' = FALSE
    /\ UNCHANGED <<media, nodes, count, lba, job>>

\* A program reads or writes one sector; the write may fail before it.
ProgramCalls(op, at, value, ok) ==
    /\ nodes # {}
    /\ count' = 1 /\ lba' = at /\ job' = NoJob
    /\ media' = IF op = "write" /\ ok THEN [media EXCEPT ![at] = value] ELSE media
    /\ overlap' = (call.at # "idle")
    /\ before' = IF call.at = "idle" THEN media' ELSE before
    /\ UNCHANGED <<nodes, call>>

Next ==
    \/ \E ok \in BOOLEAN, listed \in SUBSET {"sda1", "sda2"} : Attach(ok, listed)
    \/ \E op \in {"read", "write"}, at \in Lba, size \in Sizes,
          data \in UNION {[1 .. n -> Values] : n \in 0 .. Sectors} : Call(op, at, size, data)
    \/ GiveUp \/ SetCount \/ SetLba \/ Command
    \/ ReadSector \/ WriteSector \/ Flush \/ Return
    \/ \E op \in {"read", "write"}, at \in Lba, value \in Values, ok \in BOOLEAN :
          ProgramCalls(op, at, value, ok)

Spec == Init /\ [][Next]_vars

-----------------------------------------------------------------------------
\* Types of the registers, the drive and the call.
TypeOK ==
    /\ media \in [Lba -> Values] /\ before \in [Lba -> Values]
    /\ nodes \subseteq {"sda", "sda1", "sda2"}
    /\ count \in 0 .. Counts - 1 /\ lba \in Lba
    /\ job.op \in {"none", "read", "write"} /\ job.left \in 0 .. Counts
    /\ call.at \in {"idle", "count", "lba", "command", "sectors", "flush", "done"}
    /\ call.result \in {0, Fail} /\ overlap \in BOOLEAN

\* A transfer that nobody came into: a read that returned 0 brought the sectors asked
\* for; a write changed only a prefix of the sectors asked for, and all of them if it
\* returned 0.  Sizes that the eight bits of the count hold only (ide.c:22, 53).
TransferSound ==
    call.at = "done" /\ ~overlap /\ Asked(call.size) < Counts =>
        LET n == Asked(call.size)
        IN  /\ call.op = "read" =>
                  /\ media = before
                  /\ call.result = 0 =>
                        call.data = [k \in 1 .. n |-> media[call.lba + k - 1]]
            /\ call.op = "write" =>
                  /\ call.result = 0 => call.i = n
                  /\ media = [s \in Lba |-> IF s \in call.lba .. call.lba + call.i - 1
                                            THEN call.data[s - call.lba + 1] ELSE before[s]]
=============================================================================
