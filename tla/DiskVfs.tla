------------------------------ MODULE DiskVfs ------------------------------
(***************************************************************************)
(* The mount points of the file tree and the adapter between its nodes and *)
(* the on-disk file system: vfs_mount, vfs_unmount (kyrofs.c) and          *)
(* fs_disk_vfs.c.  The disk side is the one global state of fs_disk.c: the *)
(* table on the disk, its cached copy, whether it is mounted (module       *)
(* FsDisk has its blocks).  Each call is one step.                         *)
(***************************************************************************)
EXTENDS Naturals, FiniteSets

CONSTANTS Points,    \* directories something can be mounted on
          Names,     \* names of files
          Fds,       \* descriptors of the program, the one of the device left out
          NoTable, Closed

VARIABLES
    flag,      \* points with VFS_MOUNTPOINT
    adapter,   \* points whose operations are those of fs_disk_vfs.c
    ram,       \* KyroFS entries of the points
    disk,      \* names in the table on the disk
    table,     \* file_table_cache
    mounted,   \* mounted_disk_node is not NULL
    device,    \* this thread has the device open
    fd,        \* open files: point, name, what the offset is
    shared     \* history: a mount was tried while something was mounted

vars == <<flag, adapter, ram, disk, table, mounted, device, fd, shared>>
tree == <<flag, adapter, ram>>
fs   == <<disk, table, mounted>>

Init == /\ flag = {} /\ adapter = {}
        /\ ram = [p \in Points |-> {}]
        /\ disk \in SUBSET Names /\ table = NoTable /\ mounted = FALSE
        /\ device = FALSE
        /\ fd = [f \in Fds |-> Closed]
        /\ shared = FALSE

\* sys_open and sys_close of the device.
Device == device' = ~device /\ UNCHANGED <<tree, fs, fd, shared>>

\* vfs_mount.  fs_disk_mount_func wants the device among the open files of the calling
\* thread; then fs_mount reads the superblock ("super" when that fails, nothing has
\* changed then) and the table into the cache, freed before ("table" when that fails).
Mount(p, fails) ==
    /\ p \notin flag /\ device /\ fails # "super"
    /\ shared' = (shared \/ mounted)
    /\ IF fails = "table"
       THEN table' = NoTable /\ UNCHANGED <<tree, mounted>>
       ELSE /\ table' = disk /\ mounted' = TRUE
            /\ flag' = flag \cup {p} /\ adapter' = adapter \cup {p}
            /\ UNCHANGED ram
    /\ UNCHANGED <<disk, device, fd>>

\* Mutated form of Unmount: it leaves when nothing is mounted by now.
UnmountFlagKept(p) ==
    /\ p \in flag
    /\ table' = NoTable /\ mounted' = FALSE
    /\ UNCHANGED <<tree, disk, device, fd, shared>>

\* vfs_unmount: fs_unmount writes the table back.  The operations of the point stay those
\* of the adapter.
Unmount(p) ==
    /\ p \in flag
    /\ table' = NoTable /\ mounted' = FALSE
    /\ flag' = flag \ {p}
    /\ UNCHANGED <<adapter, ram, disk, device, fd, shared>>

\* finddir of the point: KyroFS's, or the adapter's, which makes a new node.
Found(p, name) == IF p \in adapter
                  THEN p \in flag /\ mounted /\ table # NoTable /\ name \in table
                  ELSE name \in ram[p]

\* create and mkdir of the point.  The adapter refuses a name it has.
CreateAt(p, name) ==
    IF p \in adapter
    THEN /\ mounted /\ table # NoTable /\ name \notin table
         /\ table' = table \cup {name} /\ disk' = table'
         /\ UNCHANGED ram
    ELSE ram' = [ram EXCEPT ![p] = @ \cup {name}] /\ UNCHANGED <<disk, table>>

Create(p, name) == /\ CreateAt(p, name)
                   /\ UNCHANGED <<flag, adapter, mounted, device, fd, shared>>

\* remove and rmdir of the point.
Remove(p, name) ==
    /\ IF p \in adapter
       THEN /\ mounted /\ table # NoTable /\ name \in table
            /\ table' = table \ {name} /\ disk' = table'
            /\ UNCHANGED ram
       ELSE name \in ram[p] /\ ram' = [ram EXCEPT ![p] = @ \ {name}] /\ UNCHANGED <<disk, table>>
    /\ UNCHANGED <<flag, adapter, mounted, device, fd, shared>>

\* sys_open: what is not found is created if asked for, and looked for again.
Open(p, name, create) ==
    /\ UNCHANGED <<flag, adapter, mounted, device, shared>>
    /\ IF Found(p, name) THEN UNCHANGED <<ram, disk, table>>
       ELSE create /\ CreateAt(p, name)
    /\ \E f \in Fds :
          /\ \A g \in Fds : fd[g] = Closed => f <= g
          /\ fd[f] = Closed
          /\ fd' = [fd EXCEPT ![f] = IF ~Found(p, name)' THEN Closed
                                     ELSE [adapter |-> p \in adapter, name |-> name,
                                           offset |-> "start"]]

\* sys_read and sys_write on a node of the adapter.  Only offset 0 is served.  The error is
\* 32 bits of ones; the system call compares with 64 and adds it to the offset.
ReadWrite(f) ==
    /\ fd[f] # Closed /\ fd[f].adapter
    /\ LET served == fd[f].offset = "start" /\ mounted /\ table # NoTable /\ fd[f].name \in table
       IN  fd' = [fd EXCEPT ![f].offset = IF served THEN "moved" ELSE "wild"]
    /\ UNCHANGED <<tree, fs, device, shared>>

Close(f) == /\ fd[f] # Closed /\ fd' = [fd EXCEPT ![f] = Closed]
            /\ UNCHANGED <<tree, fs, device, shared>>

Next ==
    \/ Device
    \/ \E p \in Points : \/ \E fails \in {"none", "super", "table"} : Mount(p, fails)
                         \/ Unmount(p)
                         \/ \E name \in Names : \/ Create(p, name) \/ Remove(p, name)
                                                \/ \E create \in BOOLEAN : Open(p, name, create)
    \/ \E f \in Fds : ReadWrite(f) \/ Close(f)

Spec == Init /\ [][Next]_vars

-----------------------------------------------------------------------------
\* Types of the tree, the disk and the descriptors.
TypeOK ==
    /\ flag \subseteq Points /\ adapter \subseteq Points
    /\ ram \in [Points -> SUBSET Names] /\ disk \subseteq Names
    /\ table = NoTable \/ table \subseteq Names
    /\ fd \in [Fds -> {Closed} \cup [adapter : BOOLEAN, name : Names, offset : {"start", "moved", "wild"}]]
    /\ mounted \in BOOLEAN /\ device \in BOOLEAN /\ shared \in BOOLEAN

\* As long as nobody tried to mount a second time on the one global state, a point is a
\* mount point exactly while the disk is mounted, and shows what the disk holds
\* (fs_disk_vfs.c:152-196, kyrofs.c:371-409).
MountsAgree == ~shared => /\ mounted <=> flag # {}
                          /\ mounted => table = disk /\ Cardinality(flag) = 1

\* A mount point is a directory of a mounted disk (violated: two points share one state).
MountPointMounted == flag # {} => mounted
=============================================================================
