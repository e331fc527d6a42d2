-------------------------------- MODULE Copy --------------------------------
(***************************************************************************)
(* The programs that copy files: cp and mv (copy_recursive and             *)
(* move_recursive of one file) and copy_file_to_mounted_fs of the          *)
(* installer, system call by system call.  A file is a sequence of chunks, *)
(* as much as cp and mv read at a time.  The system calls behave as those  *)
(* of KyroFS and of a mounted disk do; any of them may fail.               *)
(***************************************************************************)
EXTENDS Integers, Sequences

CONSTANTS Files,    \* paths
          OnDisk,   \* those on a mounted disk; the others are in KyroFS
          MaxLen,   \* bound: chunks of a file
          Absent

\* What the constants are.
CopyConstants == OnDisk \subseteq Files /\ MaxLen \in Nat

VARIABLES file,   \* contents of the paths
          job,    \* the program: what it copies, where it stands, its contents
          old     \* history: the source as it was when the program began

vars == <<file, job, old>>

Idle == [tool |-> "none", src |-> Absent, dst |-> Absent, at |-> "idle",
         pos |-> 0, data |-> <<>>, short |-> FALSE, result |-> 0]

Contents(f) == {[i \in 1 .. n |-> <<f, i>>] : n \in 0 .. MaxLen}

Init == /\ file \in {c \in [Files -> {Absent} \cup UNION {Contents(f) : f \in Files}] :
                        \A f \in Files : c[f] \in {Absent} \cup Contents(f)}
        /\ job = Idle /\ old = <<>>

Exists(f) == file[f] # Absent

\* sys_stat: the files of KyroFS have no stat function.
Stat(f) == Exists(f) /\ f \in OnDisk

\* The chunks from pos on that one read of up to n chunks can bring; a disk reads from the
\* start of a file only.
CanRead(f, pos, n) == Exists(f) /\ (f \in OnDisk => pos = 0)
Chunks(f, pos, n)  == SubSeq(file[f], pos + 1, IF pos + n < Len(file[f]) THEN pos + n ELSE Len(file[f]))

\* A write at pos: KyroFS puts it there, a disk replaces the whole file.
CanWrite(f, pos) == Exists(f) /\ (f \in OnDisk => pos = 0)
Written(f, pos, data) == IF f \in OnDisk THEN data ELSE SubSeq(file[f], 1, pos) \o data

Step(at)  == job' = [job EXCEPT !.at = at]
Leave(r)  == job' = [job EXCEPT !.at = "end", !.result = r]

Begin(tool, src, dst) ==
    /\ job = Idle
    /\ old' = IF Exists(src) THEN file[src] ELSE <<>>
    /\ job' = [Idle EXCEPT !.tool = tool, !.src = src, !.dst = dst,
                           !.at = IF tool = "install" THEN "open" ELSE "stat"]
    /\ UNCHANGED file

\* cp and mv ask for the kind of file before they open it, the installer for its size after.
\* (A directory ends in sys_readdir, which takes the descriptor for a pointer.)
CallStat ==
    /\ job.at = "stat"
    /\ IF ~Stat(job.src) THEN Leave(-1)
       ELSE IF job.tool = "install"
       THEN Step("read") \/ Leave(-1)
       ELSE Step("open")
    /\ UNCHANGED <<file, old>>

OpenSource ==
    /\ job.at = "open"
    /\ \/ /\ Exists(job.src)
          /\ job' = [job EXCEPT !.at = IF job.tool = "install" THEN "stat" ELSE "create"]
       \/ Leave(-1)
    /\ UNCHANGED <<file, old>>

\* O_CREAT | O_TRUNC; a disk does not truncate.
OpenTarget ==
    /\ job.at = "create"
    /\ \/ /\ job' = [job EXCEPT !.at = IF job.tool = "install" THEN "write" ELSE "read"]
          /\ file' = IF Exists(job.dst) /\ job.dst \in OnDisk THEN file
                     ELSE [file EXCEPT ![job.dst] = <<>>]
       \/ Leave(-1) /\ UNCHANGED file
    /\ UNCHANGED old

\* Mutated form of AfterCopy: the source goes whatever became of the copy.
AfterCopyAlways == job.tool = "mv"

\* move_recursive removes the source when the loop has ended.
AfterCopy == job.tool = "mv" /\ job.result = 0

\* The loop of cp and mv ends at the end of the file and at an error alike.  The
\* installer reads the whole file at once and compares the length.
Read ==
    /\ job.at = "read"
    /\ LET n == IF job.tool = "install" THEN MaxLen ELSE 1
           ok == CanRead(job.src, job.pos, n)
           got == IF ok THEN Chunks(job.src, job.pos, n) ELSE <<>>
       IN  IF job.tool = "install"
           THEN \/ ok /\ job' = [job EXCEPT !.at = "create", !.data = got]
                \/ Leave(-1)
           ELSE \/ got # <<>> /\ job' = [job EXCEPT !.at = "write", !.data = got]
                \/ job' = [job EXCEPT !.at = "unlink", !.short = got # <<>> \/ job.pos < Len(old)]
    /\ UNCHANGED <<file, old>>

Write ==
    /\ job.at = "write"
    /\ \/ /\ CanWrite(job.dst, job.pos)
          /\ file' = [file EXCEPT ![job.dst] = Written(job.dst, job.pos, job.data)]
          /\ IF job.tool = "install" THEN Leave(0)
             ELSE job' = [job EXCEPT !.at = "read", !.pos = @ + Len(job.data), !.data = <<>>]
       \/ /\ job' = [job EXCEPT !.at = "unlink", !.result = -1]
          /\ UNCHANGED file
    /\ UNCHANGED old

Unlink ==
    /\ job.at = "unlink"
    /\ \/ AfterCopy /\ file' = [file EXCEPT ![job.src] = Absent]
       \/ UNCHANGED file
    /\ Leave(job.result)
    /\ UNCHANGED old

Exit == job.at = "end" /\ job' = Idle /\ old' = <<>> /\ UNCHANGED file

Next == \/ \E tool \in {"cp", "mv", "install"}, src, dst \in Files : Begin(tool, src, dst)
        \/ CallStat \/ OpenSource \/ OpenTarget \/ Read \/ Write \/ Unlink \/ Exit

Spec == Init /\ [][Next]_vars

-----------------------------------------------------------------------------
\* Types of the files and the program.
TypeOK ==
    /\ \A f \in Files : file[f] = Absent \/ Len(file[f]) <= MaxLen
    /\ job.at \in {"idle", "stat", "open", "create", "read", "write", "unlink", "end"}
    /\ job.result \in {0, -1}

\* Unless a read stopped short, copying or moving a file onto another path loses nothing:
\* if the source is gone or success was reported the target has its contents, whatever
\* call failed (mv.c:33-47, cp.c:32-42, installer.c:160-213).
NothingLost ==
    job.at = "end" /\ job.src # job.dst /\ ~job.short =>
        \/ file[job.dst] = old
        \/ job.result = -1 /\ file[job.src] = old
        \/ old = <<>>
=============================================================================
