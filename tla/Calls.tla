------------------------------- MODULE Calls -------------------------------
(***************************************************************************)
(* The system call gate of KyroOS and the libraries in front of it: the    *)
(* table of the calls (syscall.c), the wrappers of kyroolib.h and of the   *)
(* two graphics libraries, and the descriptor table, which files and       *)
(* sockets share.  What the calls do to files, sockets and pages is in the *)
(* modules Vfs, DiskVfs, Socket, Heap and AddressSpace; a result that they *)
(* decide is any of the possible ones here.                                *)
(***************************************************************************)
EXTENDS Integers, FiniteSets, Sequences

CONSTANTS
  Threads,
  MAX_FILES,
  Directories, Plain,  \* nodes a program may open
  Top,                 \* vfs_root
  Sockets,             \* addresses kmalloc may give to a socket
  Blocks,              \* and to a program
  Bottom, W,           \* initial_program_break, and the size of the address space
  Increments           \* of sbrk, modulo W

\* What the constants are.
CallsConstants ==
  /\ MAX_FILES \in Nat \ {0} /\ Top \in Directories
  /\ Bottom \in 0 .. W - 1 /\ Increments \subseteq 0 .. W - 1

Nodes   == Directories \cup Plain
Fds     == 0 .. MAX_FILES - 1
Closed  == [type |-> "none"]

VARIABLES
  alive,    \* threads that have not called exit
  desc,     \* fd_table of a thread
  active,   \* active_sockets
  brk,      \* program_break
  given,    \* blocks of the kernel heap that programs have
  unnamed,  \* vfs_root has an entry without a name
  halted,   \* the kernel followed a number as an address
  served    \* the last call was "right", reached the "handler" of another or was about another
            \* "node", or came from a "graphics" library

callVars == <<alive, desc, active, brk, given, unnamed, halted, served>>
memory == <<brk, given>>
names  == <<unnamed, halted>>

Init == /\ alive = Threads /\ desc = [t \in Threads |-> [i \in Fds |-> Closed]]
        /\ active = {} /\ brk = [t \in Threads |-> Bottom] /\ given = {}
        /\ unnamed = FALSE /\ halted = FALSE /\ served = "right"

----------------------------------------------------------------------------
(* Numbers.                                                                *)

\* The numbers of syscall.h from 1 on; exit is 0.
Names == <<"write", "open", "close", "read", "stat", "mkdir", "readdir", "unlink", "rmdir", "socket",
           "connect", "send", "recv", "bind", "listen", "accept", "get_ticks", "sha256", "malloc",
           "free", "ioctl", "mount", "unmount", "exec", "gfx_get_fb_info", "input_poll_event", "sbrk">>

\* syscall_init: send is the write of a socket.
syscall_table(n) == IF n = 0 THEN "exit" ELSE IF Names[n] = "send" THEN "write" ELSE Names[n]

\* The wrappers of kyroolib.h, which exec has none in, and the numbers they pass.
kyroolib == ({"exit"} \cup {Names[n] : n \in DOMAIN Names}) \ {"exec"}
SYS(name) == IF name = "exit" THEN 0 ELSE CHOOSE n \in DOMAIN Names : Names[n] = name

\* kyroos_gfx.c and tui.c have numbers of their own.
kyroos_gfx(name) == IF name = "gfx_get_fb_info" THEN 6 ELSE 7
tui(name)        == 15

----------------------------------------------------------------------------
(* Handlers of descriptors.                                                *)
Free(t) == {i \in Fds : desc[t][i] = Closed}
Lowest(s) == CHOOSE i \in s : \A j \in s : i <= j
IsSocket(t, i) == desc[t][i].type = "socket"
IsFile(t, i)   == desc[t][i].type = "file"
Install(t, d)  == desc' = [desc EXCEPT ![t][Lowest(Free(t))] = d]

\* sys_open of a node that exists.
sys_open(t, n) ==
  /\ IF Free(t) = {} THEN UNCHANGED desc ELSE Install(t, [type |-> "file", node |-> n])
  /\ UNCHANGED <<alive, active, memory, names>>

\* A close that forgets the descriptor of a socket.
sys_close_kept(t, i) ==
  /\ active' = IF IsSocket(t, i) THEN active \ {desc[t][i].sock} ELSE active
  /\ desc' = IF IsSocket(t, i) THEN desc ELSE [desc EXCEPT ![t][i] = Closed]
  /\ UNCHANGED <<alive, memory, names>>

\* sys_close with sock_close.
sys_close(t, i) ==
  /\ active' = IF IsSocket(t, i) THEN active \ {desc[t][i].sock} ELSE active
  /\ desc' = [desc EXCEPT ![t][i] = Closed]
  /\ UNCHANGED <<alive, memory, names>>

\* sys_socket and sock_create; a protocol that is not known, or no memory, leaves nothing.
sys_socket(t) ==
  /\ \/ \E s \in Sockets \ active :
          /\ Free(t) # {} /\ active' = active \cup {s}
          /\ Install(t, [type |-> "socket", sock |-> s])
     \/ UNCHANGED <<active, desc>>
  /\ UNCHANGED <<alive, memory, names>>

\* sys_exit: thread_exit closes nothing, the sockets stay listed.
sys_exit(t) == alive' = alive \ {t} /\ UNCHANGED <<desc, active, memory, names>>

----------------------------------------------------------------------------
(* Memory.                                                                 *)

\* sys_malloc: a block of the kernel heap, or none.
sys_malloc == /\ given' \in {given \cup {b} : b \in Blocks \ given} \cup {given}
              /\ UNCHANGED <<alive, desc, active, brk, names>>

\* sys_free: whoever names it.
sys_free == /\ given' \in {given \ {b} : b \in given} \cup {given}
            /\ UNCHANGED <<alive, desc, active, brk, names>>

\* sys_sbrk moves a number; no page is mapped.
sys_sbrk(t) ==
  /\ \E inc \in Increments :
       LET new == (brk[t] + inc) % W
       IN  brk' = [brk EXCEPT ![t] = IF new < Bottom THEN @ ELSE new]
  /\ UNCHANGED <<alive, desc, active, given, names>>

----------------------------------------------------------------------------
(* Nodes.                                                                  *)

\* sys_readdir takes the address of a node, NULL for the root.
sys_readdir(address) == /\ halted' = (address # 0)
                        /\ UNCHANGED <<alive, desc, active, memory, unnamed>>

\* sys_mkdir with an empty path, which vfs_mkdir gives to the root as a name.
sys_mkdir_empty == unnamed' = TRUE /\ UNCHANGED <<alive, desc, active, memory, halted>>

\* The others change no state of this module: what they find is for Vfs, DiskVfs, Socket and AddressSpace.
Elsewhere == {"write", "read", "stat", "mkdir", "unlink", "rmdir", "connect", "recv", "bind", "listen",
              "accept", "get_ticks", "sha256", "ioctl", "mount", "unmount", "exec",
              "gfx_get_fb_info", "input_poll_event"}

----------------------------------------------------------------------------
\* syscall_handler, for a call whose arguments are right.
syscall_handler(t, h) ==
  \/ h = "exit" /\ sys_exit(t)
  \/ h = "open" /\ \E n \in Nodes : sys_open(t, n)
  \/ h = "close" /\ \E i \in Fds \ Free(t) : sys_close(t, i)
  \/ h = "socket" /\ sys_socket(t)
  \/ h = "malloc" /\ sys_malloc
  \/ h = "free" /\ sys_free
  \/ h = "sbrk" /\ sys_sbrk(t)
  \/ h \in Elsewhere /\ UNCHANGED <<alive, desc, active, memory, names>>

\* What a wrapper is for.
Meant(name) == IF name = "send" THEN "write" ELSE name

\* A wrapper of kyroolib.h; that of readdir passes the descriptor on.
Wrapper(t, name) ==
  LET h == syscall_table(SYS(name)) IN
  /\ t \in alive /\ ~halted
  /\ IF h # "readdir"
       THEN /\ syscall_handler(t, h)
            /\ served' = IF h = Meant(name) THEN "right" ELSE "handler"
       ELSE \E i \in Fds : /\ IsFile(t, i) /\ desc[t][i].node \in Directories
                           /\ sys_readdir(i)
                           /\ served' = IF i = 0 /\ desc[t][i].node = Top THEN "right" ELSE "node"

\* gfx_init of kyroos_gfx.c, whose fb_info holds zeros, makes a directory; tui_init makes a
\* socket listen.  Neither finds a framebuffer.
gfx_init(t) == /\ t \in alive /\ ~halted /\ served' = "graphics"
               /\ syscall_table(kyroos_gfx("gfx_get_fb_info")) = "mkdir" /\ sys_mkdir_empty
tui_init(t) == /\ t \in alive /\ ~halted /\ served' = "graphics"
               /\ syscall_handler(t, syscall_table(tui("gfx_get_fb_info")))

CallOf(t) == (\E name \in kyroolib : Wrapper(t, name)) \/ gfx_init(t) \/ tui_init(t)

\* Nothing runs: the kernel stopped, or every thread ended.
Ended == (halted \/ alive = {}) /\ UNCHANGED callVars

Next == Ended \/ \E t \in Threads : CallOf(t)

Spec == Init /\ [][Next]_callVars

----------------------------------------------------------------------------
TypeOK == /\ alive \subseteq Threads /\ active \subseteq Sockets /\ given \subseteq Blocks
          /\ desc \in [Threads -> [Fds -> {Closed} \cup [type : {"file"}, node : Nodes]
                                          \cup [type : {"socket"}, sock : Sockets]]]
          /\ brk \in [Threads -> Bottom .. W - 1]
          /\ unnamed \in BOOLEAN /\ halted \in BOOLEAN /\ served \in {"right", "handler", "node", "graphics"}

\* A descriptor that is a socket names a listed one, and no two descriptors name the same: a
\* close must not leave the address for the next sock_create to give to another program
\* (sys_close, sys_socket, thread_exit).
SocketsNamed ==
  \A t, u \in alive, i, j \in Fds :
    IsSocket(t, i) => /\ desc[t][i].sock \in active
                      /\ IsSocket(u, j) /\ desc[u][j].sock = desc[t][i].sock => t = u /\ i = j

\* A program that stays with kyroolib.h reaches the handlers of the names it calls (syscall_init,
\* kyroolib.h).
WrappersReach == served # "handler"

CallsSound == SocketsNamed /\ WrappersReach

\* kyroolib.h:29 "SYS_READDIR 7   // (int fd, int index, struct dirent *dir_entry)": the entries
\* are those of the directory that is open.
ReaddirOfDescriptor == served # "node"
=============================================================================
