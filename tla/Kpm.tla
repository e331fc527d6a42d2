-------------------------------- MODULE Kpm --------------------------------
(***************************************************************************)
(* The package manager: pkg_install_file, pkg_remove and pkg_list          *)
(* (tools/kpm), on the KyroFS directories they work in.  mkdir of KyroFS   *)
(* never says that a directory exists: it makes a second one of the name,  *)
(* in front of the first.                                                  *)
(***************************************************************************)
EXTENDS Integers, Sequences, SequencesExt

CONSTANTS Packages,   \* name -> [dir, files]: install path and data entries in order
          MaxDirs,    \* bound: directory entries made
          MaxLines    \* bound: lines of the database

Installable == DOMAIN Packages

VARIABLES
    dirs,     \* directory entries, newest first: name and files
    db,       \* names of the lines of the database
    job,      \* what kpm does: package, where, entries left
    made,     \* history: packages in the order their installation ended
    failed    \* history: some file or the database could not be opened

vars == <<dirs, db, job, made, failed>>

Idle == [op |-> "none", pkg |-> "none", left |-> <<>>]

Init == dirs = <<>> /\ db = <<>> /\ job = Idle /\ made = <<>> /\ failed = FALSE

\* kyrofs_finddir: the first entry of the name.
Hits(dir)       == {i \in DOMAIN dirs : dirs[i].name = dir}
First(dir)      == CHOOSE i \in Hits(dir) : \A j \in Hits(dir) : i <= j
Visible(dir, f) == Hits(dir) # {} /\ f \in dirs[First(dir)].files

\* The first pass looks for the entry of the metadata; without it nothing is done.
BeginInstall(pkg, meta) ==
    /\ job = Idle
    /\ Len(dirs) + Len(Packages[pkg].files) <= MaxDirs /\ Len(db) < MaxLines
    /\ job' = IF meta THEN [op |-> "install", pkg |-> pkg, left |-> Packages[pkg].files] ELSE Idle
    /\ UNCHANGED <<dirs, db, made, failed>>

\* mkdir_p makes the directory of each file anew; the file goes into the newest.  A file that
\* cannot be created is skipped and the installation goes on.
Extract(created) ==
    /\ job.op = "install" /\ job.left # <<>>
    /\ dirs' = <<[name |-> Packages[job.pkg].dir,
                  files |-> IF created THEN {Head(job.left)} ELSE {}]>> \o dirs
    /\ job' = [job EXCEPT !.left = Tail(@)]
    /\ failed' = (failed \/ ~created)
    /\ UNCHANGED <<db, made>>

\* Mutated form of AddLine: the line is written at the start of the file.
AddLineAtStart(name) == IF db = <<>> THEN <<name>> ELSE [db EXCEPT ![1] = name]

\* A write to a descriptor with O_APPEND goes to the end (syscall.c:42).
AddLine(name) == Append(db, name)

Register(opened) ==
    /\ job.op = "install" /\ job.left = <<>>
    /\ db' = IF opened THEN AddLine(job.pkg) ELSE db
    /\ made' = Append(made, job.pkg)
    /\ failed' = (failed \/ ~opened)
    /\ job' = Idle
    /\ UNCHANGED dirs

\* pkg_remove of a package that is listed.  Its install path is gone: the lines stay.  Its
\* path is a directory: remove_recursive reads it with sys_readdir, which takes the
\* descriptor for the address of a node, and the machine stops there.
RemovePackage(pkg) ==
    /\ job = Idle /\ SelectInSeq(db, LAMBDA n : n = pkg) # 0
    /\ job' = IF Hits(Packages[pkg].dir) # {} THEN [Idle EXCEPT !.op = "panic"] ELSE Idle
    /\ UNCHANGED <<dirs, db, made, failed>>

\* kpm is not called any more, or the machine stopped: the last two.
Next == \/ \E pkg \in Installable, meta \in BOOLEAN : BeginInstall(pkg, meta)
        \/ \E ok \in BOOLEAN : Extract(ok) \/ Register(ok)
        \/ \E pkg \in Installable : RemovePackage(pkg)
        \/ job.op = "panic" /\ UNCHANGED vars
        \/ job = Idle /\ UNCHANGED vars

Spec == Init /\ [][Next]_vars

-----------------------------------------------------------------------------
\* Types of the tree, the database and the program.
TypeOK ==
    /\ \A i \in DOMAIN dirs : dirs[i].name \in {Packages[p].dir : p \in Installable}
    /\ db \in Seq(Installable) /\ made \in Seq(Installable) /\ failed \in BOOLEAN
    /\ job.op \in {"none", "install", "panic"}

\* Unless a file could not be opened, the database lists every installation once, in
\* order, and the newest package of a directory has its last file there (install.c:160-199).
Listed ==
    ~failed => /\ db = made
               /\ job = Idle /\ made # <<>> =>
                     LET p == Packages[Last(made)] IN Visible(p.dir, Last(p.files))

\* All files of the package installed last are there (violated: each file of a package
\* hides the ones before it, install.c:150-156).
AllVisible ==
    ~failed /\ job = Idle /\ made # <<>> =>
        LET p == Packages[Last(made)] IN \A i \in DOMAIN p.files : Visible(p.dir, p.files[i])
=============================================================================
