------------------------------ MODULE MCFiles -------------------------------
(***************************************************************************)
(* The file tree of a program and what is below and above it, for TLC: the *)
(* adapter of the disk, the file system on the disk, the driver of the     *)
(* disk, the programs that copy files, the package manager and the         *)
(* installer. `machine' is the one a behaviour is about; the others stay as*)
(* they are initially.                                                     *)
(***************************************************************************)
EXTENDS Vfs, TLC

CONSTANTS
  MountPoints, MountNames, MountFds,       \* the adapter of the disk
  SectorsOfDisk, BytesOfSector, SectorCounts, TransferSizes, SectorValues, NoData,  \* its driver
  FilesOfDisk, BlocksOfDisk, LongestFile   \* the file system on it

VARIABLES
  machine,
  a_flag, a_adapter, a_ram, a_disk, a_table, a_mounted, a_device, a_fd, a_shared,
  media, nodes, count, lba, job, call, before, overlap,
  file, c_job, old,
  dirs, db, k_job, made, failed,
  d_super, d_table, d_data, d_mounted, d_sb, d_cache, d_op, d_content, d_faults,
  s_item, s_kids, s_cwd, s_debug, s_halted, s_made, s_careful,
  s_table, s_nodes, s_stage, s_at, s_selected, s_formatted, s_mounted, s_held, s_written

adapterVars == <<a_flag, a_adapter, a_ram, a_disk, a_table, a_mounted, a_device, a_fd, a_shared>>
driveVars == <<media, nodes, count, lba, job, call, before, overlap>>
copyVars == <<file, c_job, old>>
kpmVars == <<dirs, db, k_job, made, failed>>
diskVars == <<d_super, d_table, d_data, d_mounted, d_sb, d_cache, d_op, d_content, d_faults>>
shellVars == <<s_item, s_kids, s_cwd, s_debug, s_halted, s_made, s_careful>>
setupVars == <<s_table, s_nodes, s_stage, s_at, s_selected, s_formatted, s_mounted, s_held,
               s_written>>

Mounts == INSTANCE DiskVfs
  WITH Points <- MountPoints, Names <- MountNames, Fds <- MountFds, NoTable <- Null,
       Closed <- Closed, flag <- a_flag, adapter <- a_adapter, ram <- a_ram, disk <- a_disk,
       table <- a_table, mounted <- a_mounted, device <- a_device, fd <- a_fd, shared <- a_shared
Drive == INSTANCE Ide
  WITH Sectors <- SectorsOfDisk, Bytes <- BytesOfSector, Counts <- SectorCounts,
       Sizes <- TransferSizes, Values <- SectorValues, Blank <- NoData
Tools == INSTANCE Copy
  WITH Files <- {"f", "g", "h"}, OnDisk <- {"f", "g"}, MaxLen <- 2, Absent <- Null, job <- c_job
Packs == INSTANCE Kpm
  WITH Packages <- [a |-> [dir |-> "d", files |-> <<"x", "y">>], b |-> [dir |-> "e", files |-> <<"x">>]],
       MaxDirs <- 5, MaxLines <- 4, job <- k_job
Disk == INSTANCE FsDisk
  WITH Names <- Names, Values <- Nodes, MaxFiles <- FilesOfDisk, Total <- BlocksOfDisk,
       MaxLen <- LongestFile, Faults <- {"io", "format", "long"}, NoSignature <- Garbage, Unused <- Free,
       NoCache <- Null, Absent <- Closed, super <- d_super, table <- d_table, data <- d_data,
       mounted <- d_mounted, sb <- d_sb, cache <- d_cache, op <- d_op, content <- d_content,
       faults <- d_faults
Prompt == INSTANCE Shell
  WITH Nodes <- 1 .. 11, Modules <- <<"init">>,
       Args <- {<<"">>, <<"a">>, <<"a", "">>, <<"", "a", "a">>, <<"", "a", "">>, <<"a", "..">>, <<"..">>, <<".">>, <<"", "dev", "tty", "a">>},
       MaxSegs <- 5, Free <- Free, Null <- Null, Junk <- "?", item <- s_item, kids <- s_kids,
       cwd <- s_cwd, debug <- s_debug, halted <- s_halted, made <- s_made, careful <- s_careful
Setup == INSTANCE Installer
  WITH Entries <- 2, Essential <- <<"shell", "kpm">>, table <- s_table, nodes <- s_nodes,
       stage <- s_stage, at <- s_at, selected <- s_selected, formatted <- s_formatted,
       mounted <- s_mounted, held <- s_held, written <- s_written

ASSUME MachineConstants ==
  /\ Drive!IdeConstants
  /\ Tools!CopyConstants
  /\ Disk!DiskConstants
  /\ Prompt!ShellConstants
  /\ Setup!InstallerConstants

others == <<machine, adapterVars, driveVars, copyVars, kpmVars, diskVars, shellVars, setupVars>>
all    == <<vars, others>>

MCInit ==
  /\ machine \in {"tree", "adapter", "drive", "copy", "kpm", "disk", "shell", "setup"}
  /\ Init /\ Mounts!Init /\ Drive!Init /\ Tools!Init /\ Packs!Init /\ Disk!Init /\ Prompt!Init /\ Setup!Init
  /\ machine # "drive" => media = [l \in Drive!Lba |-> CHOOSE v \in SectorValues : TRUE]
  /\ machine # "copy"  => file = [f \in {"f", "g", "h"} |-> Null]
  /\ machine # "adapter" => a_disk = {}
  /\ machine # "setup" => s_table = [e \in {1, 2} |-> "used"] /\ s_nodes = {1}

\* A step of one machine; whatever is not one of its variables stays.
TreeOnly == UNCHANGED others
MountsOnly == UNCHANGED <<machine, vars, driveVars, copyVars, kpmVars, diskVars, shellVars,
                          setupVars>>
DriveOnly == UNCHANGED <<machine, vars, adapterVars, copyVars, kpmVars, diskVars, shellVars,
                         setupVars>>
ToolsOnly == UNCHANGED <<machine, vars, adapterVars, driveVars, kpmVars, diskVars, shellVars,
                         setupVars>>
PacksOnly == UNCHANGED <<machine, vars, adapterVars, driveVars, copyVars, diskVars, shellVars,
                         setupVars>>
DiskOnly == UNCHANGED <<machine, vars, adapterVars, driveVars, copyVars, kpmVars, shellVars,
                        setupVars>>
PromptOnly == UNCHANGED <<machine, vars, adapterVars, driveVars, copyVars, kpmVars, diskVars,
                          setupVars>>
SetupOnly == UNCHANGED <<machine, vars, adapterVars, driveVars, copyVars, kpmVars, diskVars,
                         shellVars>>

MCNext ==
  \/ machine = "tree" /\ Next /\ TreeOnly
  \/ machine = "adapter" /\ Mounts!Next /\ MountsOnly
  \/ machine = "drive" /\ Drive!Next /\ DriveOnly
  \/ machine = "copy" /\ Tools!Next /\ ToolsOnly
  \/ machine = "kpm" /\ Packs!Next /\ PacksOnly
  \/ machine = "disk" /\ Disk!Next /\ DiskOnly
  \/ machine = "shell" /\ Prompt!Next /\ PromptOnly
  \/ machine = "setup" /\ Setup!Next /\ SetupOnly

MCSpec == MCInit /\ [][MCNext]_all

----------------------------------------------------------------------------
\* Types of every machine.
TypesOK ==
  /\ TypeOK
  /\ machine = "adapter" => Mounts!TypeOK
  /\ machine = "drive" => Drive!TypeOK
  /\ machine = "copy" => Tools!TypeOK
  /\ machine = "kpm" => Packs!TypeOK
  /\ machine = "disk" => Disk!TypeOK
  /\ machine = "shell" => Prompt!TypeOK
  /\ machine = "setup" => Setup!TypeOK
\* Nodes and symbol names are interchangeable.
Perms == Permutations(Nodes) \cup Permutations(Names)

\* Points and the table agree while one mount is made at a time (fs_disk_vfs.c).
MountsAgree == machine = "adapter" => Mounts!MountsAgree
\* A transfer that came in between changes nothing it was not asked for (ide.c).
TransferSound == machine = "drive" => Drive!TransferSound
\* A copy that is reported done is whole, and no source is lost (cp.c, mv.c); the database of
\* the package manager lists what was installed (install.c); the installer holds nothing after
\* a stage and touches no other partition (installer.c); paths lead to what they name (shell.c, vfs.c).
ToolsSound ==
  /\ machine = "copy"  => Tools!NothingLost
  /\ machine = "kpm"   => Packs!Listed
  /\ machine = "setup" => Setup!InstallSound
  /\ machine = "shell" => Prompt!ShellSound
\* At every stop of the machine a file is what a completed call left (fs_disk.c).
CrashAtomic == machine = "disk" => Disk!CrashAtomic
\* The table and the superblock are consistent on the disk and in memory (fs_disk.c).
TableSound == machine = "disk" => Disk!NamesUnique /\ Disk!SpaceAccounted
\* A write of a file hits neither the table nor another partition (fs_disk.c).
DataStaysData == machine = "disk" => Disk!DataStaysData
=============================================================================
