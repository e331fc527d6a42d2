-------------------------------- MODULE Vfs --------------------------------
(***************************************************************************)
(* The file tree of KyroOS and the descriptors of a thread: the file       *)
(* system calls (syscall.c), the VFS (vfs.c) and the in-memory KyroFS      *)
(* (kyrofs.c).  System calls run with interrupts off, so each is one step. *)
(* Node addresses are reused after kfree.                                  *)
(***************************************************************************)
EXTENDS Naturals, Sequences, SequencesExt

CONSTANTS Root, Nodes,  \* addresses: of the root directory, of all other nodes
          Names,
          Fds,          \* 0 .. MAX_FILES - 1
          Cap0,         \* capacity of a new file, 128 in the code
          MaxSize,      \* bound: no file is written beyond this size
          Free, Null, Closed, Garbage, Byte

All == Nodes \cup {Root}

(* What a node is, when it is allocated. *)
NodeRecords == [kind : {"file", "dir"}, name : Names \cup {Root}, parent : All]

(* A kfreed node, a null pointer and a byte of the heap are told from a node,
   a buffer and a byte that was written. *)
ASSUME VfsAssumption ==
  /\ Root \notin Nodes /\ Cap0 \in Nat /\ MaxSize \in Nat
  /\ Free \notin NodeRecords
  /\ Null \notin Seq({Byte, Garbage})
  /\ Garbage # Byte

VARIABLES node,   \* kind, name and parent of a node, Free when not allocated
          kids,   \* the list of a directory, newest first
          size, cap, buf,   \* kyrofs_file_content_t; buf is Null or cap bytes
          fd,     \* fd_table
          page_fault,  \* the kernel accessed a null pointer
          careful      \* history: no file was truncated, none removed while open

vars == <<node, kids, size, cap, buf, fd, page_fault, careful>>
tree == <<node, kids>>
body == <<size, cap, buf>>

Init ==
  /\ node = [n \in All |-> IF n = Root THEN [kind |-> "dir", name |-> Root, parent |-> Root] ELSE Free]
  /\ kids = [n \in All |-> <<>>]
  /\ size = [n \in All |-> 0]
  /\ cap  = [n \in All |-> 0]
  /\ buf  = [n \in All |-> Null]
  /\ fd   = [f \in Fds |-> Closed]
  /\ page_fault = FALSE
  /\ careful = TRUE

----------------------------------------------------------------------------
Live(n)   == node[n] # Free
IsDir(n)  == Live(n) /\ node[n].kind = "dir"
IsFile(n) == Live(n) /\ node[n].kind = "file"

(* kyrofs_finddir: the newest entry of that name. *)
finddir(d, name) ==
  LET i == SelectInSeq(kids[d], LAMBDA n : node[n].name = name)
  IN  IF i = 0 THEN Null ELSE kids[d][i]

(* Paths of one or two names.  The directory of a path and the node it names. *)
Paths == {<<a>> : a \in Names} \cup {<<a, b>> : a, b \in Names}
DirOf(path)  == IF Len(path) = 1 THEN Root ELSE finddir(Root, path[1])
Resolve(path) == LET d == DirOf(path)
                 IN  IF d = Null \/ ~IsDir(d) THEN Null ELSE finddir(d, Last(path))

kyrofs_create_node(n, d, name, kind) ==
  /\ node' = [node EXCEPT ![n] = [kind |-> kind, name |-> name, parent |-> d]]
  /\ kids' = [kids EXCEPT ![d] = <<n>> \o @, ![n] = <<>>]

(* The content of a new file. *)
Fresh(n) ==
  /\ size' = [size EXCEPT ![n] = 0]
  /\ cap'  = [cap EXCEPT ![n] = Cap0]
  /\ buf'  = [buf EXCEPT ![n] = [i \in 1 .. Cap0 |-> Garbage]]

(* The same after kyrofs_open with O_TRUNC. *)
FreshTruncated(n) ==
  /\ size' = [size EXCEPT ![n] = 0]
  /\ cap'  = [cap EXCEPT ![n] = Cap0]
  /\ buf'  = [buf EXCEPT ![n] = Null]

(* Mutant of Truncate: the capacity is forgotten and the buffer is not. *)
TruncateCap(n) ==
  /\ size' = [size EXCEPT ![n] = 0]
  /\ cap'  = [cap EXCEPT ![n] = 0]
  /\ UNCHANGED buf

(* kyrofs_open with O_TRUNC frees the buffer and leaves the capacity. *)
Truncate(n) ==
  /\ size' = [size EXCEPT ![n] = 0]
  /\ buf'  = [buf EXCEPT ![n] = Null]
  /\ UNCHANGED cap

FreeFds == {f \in Fds : fd[f] = Closed}

(* The lowest free descriptor gets the node; without one the call fails, after
   the file was created or truncated. *)
Install(n, len, flags) ==
  IF FreeFds = {} THEN UNCHANGED fd
  ELSE LET f == CHOOSE f \in FreeFds : \A g \in FreeFds : f <= g
       IN  fd' = [fd EXCEPT ![f] = [node |-> n, off |-> IF "append" \in flags THEN len ELSE 0,
                                    append |-> "append" \in flags]]

Flags == SUBSET {"trunc", "append"}

(* sys_open of a node that exists. *)
OpenExisting(path, flags) ==
  LET n == Resolve(path) IN
  /\ n # Null
  /\ IF "trunc" \in flags /\ IsFile(n)
       THEN Truncate(n) /\ Install(n, 0, flags)
       ELSE UNCHANGED body /\ Install(n, size[n], flags)
  /\ careful' = (careful /\ "trunc" \notin flags)
  /\ UNCHANGED <<tree, page_fault>>

(* sys_open with O_CREAT of a path that does not resolve; kyrofs_open then
   truncates the new file if it is told to. *)
OpenNew(path, n, flags) ==
  LET d == DirOf(path) IN
  /\ Resolve(path) = Null
  /\ d # Null
  /\ IsDir(d)
  /\ ~Live(n)
  /\ kyrofs_create_node(n, d, Last(path), "file")
  /\ IF "trunc" \in flags THEN FreshTruncated(n) ELSE Fresh(n)
  /\ Install(n, 0, flags)
  /\ careful' = (careful /\ "trunc" \notin flags)
  /\ UNCHANGED page_fault

(* sys_close. *)
sys_close(f) ==
  /\ fd[f] # Closed
  /\ fd' = [fd EXCEPT ![f] = Closed]
  /\ UNCHANGED <<tree, body, page_fault, careful>>

(* sys_read of a file.  A node that was freed is not read: nothing is known of
   what would happen. *)
sys_read(f, n) ==
  /\ fd[f] # Closed
  /\ IsFile(fd[f].node)
  /\ LET x == fd[f].node
         o == fd[f].off
     IN  fd' = [fd EXCEPT ![f].off = IF buf[x] = Null \/ o >= size[x] THEN o
                                      ELSE IF o + n > size[x] THEN size[x] ELSE o + n]
  /\ UNCHANGED <<tree, body, page_fault, careful>>

(* Mutant of Grown: the new buffer is as large as the write, not the file. *)
GrownShort(x, o, n) ==
  [cap |-> 2 * n,
   buf |-> [i \in 1 .. 2 * n |-> IF buf[x] # Null /\ i <= size[x] THEN buf[x][i] ELSE Garbage]]

(* Mutant of Grown: the old content is not copied. *)
GrownEmpty(x, o, n) == [cap |-> 2 * (o + n), buf |-> [i \in 1 .. 2 * (o + n) |-> Garbage]]

(* The larger buffer kyrofs_write allocates. *)
Grown(x, o, n) ==
  [cap |-> 2 * (o + n),
   buf |-> [i \in 1 .. 2 * (o + n) |-> IF buf[x] # Null /\ i <= size[x] THEN buf[x][i] ELSE Garbage]]

(* sys_write of a file, of n > 0 bytes. *)
sys_write(f, n) ==
  /\ fd[f] # Closed
  /\ IsFile(fd[f].node)
  /\ LET x == fd[f].node
         o == IF fd[f].append THEN size[x] ELSE fd[f].off
         g == IF o + n > cap[x] THEN Grown(x, o, n) ELSE [cap |-> cap[x], buf |-> buf[x]]
     IN  /\ o + n <= MaxSize
         /\ IF g.buf = Null
              THEN page_fault' = TRUE /\ UNCHANGED <<body, fd>>
              ELSE /\ buf'  = [buf EXCEPT ![x] = [i \in DOMAIN g.buf |->
                                 IF i \in o + 1 .. o + n THEN Byte ELSE g.buf[i]]]
                   /\ cap'  = [cap EXCEPT ![x] = g.cap]
                   /\ size' = [size EXCEPT ![x] = IF o + n > @ THEN o + n ELSE @]
                   /\ fd'   = [fd EXCEPT ![f].off = o + n]
                   /\ UNCHANGED page_fault
  /\ UNCHANGED <<tree, careful>>

(* sys_mkdir: nothing looks for an entry of the same name. *)
sys_mkdir(path, n) ==
  LET d == DirOf(path) IN
  /\ d # Null
  /\ IsDir(d)
  /\ ~Live(n)
  /\ kyrofs_create_node(n, d, Last(path), "dir")
  /\ size' = [size EXCEPT ![n] = 0]
  /\ UNCHANGED <<cap, buf, fd, page_fault, careful>>

(* The command touch of the shell, which calls vfs_create whatever is there. *)
touch(path, n) ==
  LET d == DirOf(path) IN
  /\ d # Null
  /\ IsDir(d)
  /\ ~Live(n)
  /\ kyrofs_create_node(n, d, Last(path), "file")
  /\ Fresh(n)
  /\ UNCHANGED <<fd, page_fault, careful>>

(* Mutant of Removable: a directory may be removed with what it holds. *)
RemovableAny(n) == TRUE

Removable(n) == node[n].kind = "dir" => kids[n] = <<>>

(* The node is unlinked and freed, whoever has it open. *)
Delete(d, n) ==
  /\ node' = [node EXCEPT ![n] = Free]
  /\ kids' = [kids EXCEPT ![d] = RemoveFirst(@, n)]
  /\ size' = [size EXCEPT ![n] = 0]
  /\ cap'  = [cap EXCEPT ![n] = 0]
  /\ buf'  = [buf EXCEPT ![n] = Null]
  /\ careful' = (careful /\ \A f \in Fds : fd[f] # Closed => fd[f].node # n)
  /\ UNCHANGED <<fd, page_fault>>

sys_unlink(path) ==
  LET n == Resolve(path) IN
  /\ n # Null
  /\ Removable(n)
  /\ Delete(DirOf(path), n)

sys_rmdir(path) ==
  LET n == Resolve(path) IN
  /\ n # Null
  /\ IsDir(n)
  /\ Removable(n)
  /\ Delete(DirOf(path), n)

(* The page fault in the kernel is a panic. *)
Panicked == page_fault /\ UNCHANGED vars

SystemCall ==
  \/ \E path \in Paths, flags \in Flags : OpenExisting(path, flags)
  \/ \E path \in Paths, n \in Nodes, flags \in Flags : OpenNew(path, n, flags)
  \/ \E f \in Fds : sys_close(f)
  \/ \E f \in Fds, n \in 1 .. MaxSize : sys_read(f, n)
  \/ \E f \in Fds, n \in 1 .. MaxSize : sys_write(f, n)
  \/ \E path \in Paths, n \in Nodes : sys_mkdir(path, n)
  \/ \E path \in Paths, n \in Nodes : touch(path, n)
  \/ \E path \in Paths : sys_unlink(path)
  \/ \E path \in Paths : sys_rmdir(path)

Next == Panicked \/ (~page_fault /\ SystemCall)

Spec == Init /\ [][Next]_vars

----------------------------------------------------------------------------
TypeOK ==
  /\ \A n \in All : /\ node[n] = Free \/ node[n] \in NodeRecords
                    /\ kids[n] \in Seq(Nodes)
                    /\ size[n] \in 0 .. MaxSize
                    /\ cap[n] \in Nat
                    /\ buf[n] = Null \/ buf[n] \in [1 .. cap[n] -> {Byte, Garbage}]
  /\ \A f \in Fds : fd[f] = Closed \/ fd[f] \in [node : Nodes, off : 0 .. MaxSize, append : BOOLEAN]
  /\ page_fault \in BOOLEAN
  /\ careful \in BOOLEAN

(* Every node is in the list of exactly one directory, once, that directory is
   the parent kyrofs_finddir follows for "..", and it is still allocated: no
   sequence of creations and removals loses a node or leaves one in a list. *)
TreeOK ==
  \A n \in Nodes :
    /\ Live(n) => /\ IsDir(node[n].parent)
                  /\ \E i \in 1 .. Len(kids[node[n].parent]) : kids[node[n].parent][i] = n
    /\ \A d \in All : \A i, j \in 1 .. Len(kids[d]) :
         kids[d][i] = n => /\ IsDir(d)
                           /\ Live(n) /\ node[n].parent = d
                           /\ kids[d][j] = n => i = j

(* A file never reaches beyond its buffer. *)
SizeInBuffer == \A n \in Nodes : IsFile(n) /\ buf[n] # Null => size[n] <= Len(buf[n])

(* A write never goes through a null pointer: when a file has no buffer, the
   write allocates one. *)
WriteHasBuffer == ~page_fault


(* What is read from a file was written to it: no byte below its size is what
   the heap happened to hold.  This takes programs that neither truncate files
   nor remove the ones they have open. *)
NoHeapBytes ==
  careful => \A n \in Nodes : IsFile(n) => \A i \in 1 .. size[n] : buf[n][i] # Garbage
=============================================================================
