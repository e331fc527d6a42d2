------------------------------- MODULE Shell --------------------------------
(***************************************************************************)
(* Paths: how vfs.c splits and follows them over the tree that kyrofs_init *)
(* makes (kyrofs.c), what the system calls of programs and the commands of *)
(* the shell (shell.c) do with them, and the shell's current directory.    *)
(* The commands are what execute_command does with a line; the loop of the *)
(* shell leaves the handling of keys out, so nothing types one yet.        *)
(*                                                                         *)
(* A path is cut at its slashes: "a" is <<"a">>, "/a" is <<"", "a">>, "/"  *)
(* is <<"", "">> and "/a//" is <<"", "a", "", "">>.                        *)
(***************************************************************************)
EXTENDS Naturals, Sequences, SequencesExt, FiniteSets

CONSTANTS Nodes,    \* bound: the addresses of nodes, below them 0 is the root
          Args,     \* the paths that are given to commands and system calls
          MaxSegs,  \* bound: a current directory has no more parts, 256 bytes in the code
          Modules,  \* the names of the boot modules
          Free, Null,
          Junk      \* what an argument holds that was not passed

ShellConstants == Nodes \subseteq Nat \ {0} /\ MaxSegs > 2 /\ Junk \in STRING

VARIABLES item,     \* name, parent and kind of a node; Free when it is not allocated
          kids,     \* the list of a directory, newest first
          cwd,      \* the text of the current directory
          debug,    \* debug_mode_enabled
          halted,   \* panic
          made,     \* history: the path and node of the last call, if it created one
          careful   \* history: no directory was removed, or hidden by a newer entry of its name

shellVars == <<item, kids, cwd, debug, halted, made, careful>>

vfs_root == 0
All  == Nodes \cup {vfs_root}
Slash == <<"", "">>
Live(n)  == item[n] # Free
IsDir(n) == n # Null /\ Live(n) /\ item[n].kind = "dir"
Unused   == {n \in Nodes : ~Live(n)}
New      == CHOOSE n \in Unused : \A m \in Unused : n <= m

\* What kyrofs_init creates below the root, in order.
Layout ==
  <<[at |-> 0, name |-> "bin", kind |-> "dir"], [at |-> 0, name |-> "etc", kind |-> "dir"],
    [at |-> 0, name |-> "var", kind |-> "dir"], [at |-> 0, name |-> "mnt", kind |-> "dir"],
    [at |-> 0, name |-> "dev", kind |-> "dir"], [at |-> 3, name |-> "lib", kind |-> "dir"],
    [at |-> 6, name |-> "kpm", kind |-> "dir"], [at |-> 5, name |-> "tty", kind |-> "char"]>>

\* A boot module becomes a file of /bin.
kyrofs_add_file(name) == [at |-> 1, name |-> name, kind |-> "file"]
Started == Layout \o [k \in DOMAIN Modules |-> kyrofs_add_file(Modules[k])]

TreeAtStart ==
  LET places == DOMAIN Started IN
  /\ item = [n \in All |-> IF n = vfs_root THEN [name |-> "/", parent |-> vfs_root, kind |-> "dir"]
                           ELSE IF n \in places
                           THEN [name |-> Started[n].name, parent |-> Started[n].at, kind |-> Started[n].kind]
                           ELSE Free]
  /\ kids = [n \in All |-> Reverse(SelectSeq([i \in places |-> i], LAMBDA i : Started[i].at = n))]

Init ==
  /\ TreeAtStart
  /\ cwd = Slash /\ debug = FALSE /\ halted = FALSE /\ made = Null /\ careful = TRUE

----------------------------------------------------------------------------
(* The tree. *)
Named(d, name) == SelectSeq(kids[d], LAMBDA n : item[n].name = name)
Newest(d, name) == IF Named(d, name) = <<>> THEN Null ELSE Head(Named(d, name))

kyrofs_finddir(d, name) ==
  CASE name = "."  -> d
    [] name = ".." -> item[d].parent
    [] OTHER       -> Newest(d, name)
vfs_finddir(d, name) == IF IsDir(d) THEN kyrofs_finddir(d, name) ELSE Null

\* Empty parts are passed over, wherever they are.
Walk(from, path) ==
  FoldLeft(LAMBDA at, name : IF name = "" THEN at ELSE vfs_finddir(at, name), from, path)
vfs_resolve_path(path) == Walk(vfs_root, path)
readdir(d) == [i \in DOMAIN kids[d] |-> item[kids[d][i]].name]

\* What is before the last slash is the directory, or the root, and the rest is the name, even
\* when it is empty, "." or "..".
Parent(path) == IF Len(path) = 1 THEN vfs_root ELSE vfs_resolve_path(Front(path))

kyrofs_create_node(d, name, kind, path) ==
  /\ item' = [item EXCEPT ![New] = [name |-> name, parent |-> d, kind |-> kind]]
  /\ kids' = [kids EXCEPT ![d] = <<New>> \o @]
  /\ made' = [path |-> path, node |-> New]
  /\ careful' = (careful /\ ~IsDir(Newest(d, name)))

Create(path, kind) ==
  /\ IsDir(Parent(path)) /\ Unused # {}
  /\ kyrofs_create_node(Parent(path), Last(path), kind, path)
vfs_mkdir(path)  == Create(path, "dir")
vfs_create(path) == Create(path, "file")

Delete(d, n) ==
  /\ item' = [item EXCEPT ![n] = Free]
  /\ kids' = [kids EXCEPT ![d] = SelectSeq(@, LAMBDA m : m # n)]
  /\ made' = Null
  /\ careful' = (careful /\ ~IsDir(n))

\* The newest entry of the name decides: when it is a directory that is not empty, or no
\* directory where one is asked for, an older one is not tried.
vfs_remove(path) ==
  LET d == Parent(path) IN
  /\ IsDir(d) /\ Newest(d, Last(path)) # Null
  /\ IsDir(Newest(d, Last(path))) => kids[Newest(d, Last(path))] = <<>>
  /\ Delete(d, Newest(d, Last(path)))
vfs_rmdir(path) ==
  LET d == Parent(path) IN
  /\ IsDir(d) /\ IsDir(Newest(d, Last(path)))
  /\ kids[Newest(d, Last(path))] = <<>>
  /\ Delete(d, Newest(d, Last(path)))

----------------------------------------------------------------------------
(* The calls of programs give a path as it is; a relative one starts at the root. *)
Stays == UNCHANGED <<cwd, debug, halted>>
sys_mkdir(path)  == vfs_mkdir(path) /\ Stays
sys_unlink(path) == vfs_remove(path) /\ Stays
sys_rmdir(path)  == vfs_rmdir(path) /\ Stays

(* The commands. *)
Absolute(arg) == Len(arg) > 1 /\ Head(arg) = ""
Full(arg) == IF Absolute(arg) THEN arg ELSE IF cwd = Slash THEN <<"">> \o arg ELSE cwd \o arg
ResolvedDir(path) == IsDir(vfs_resolve_path(path))
\* One slash at the end is removed, unless the text is "/".
Canonical(path) == IF path # Slash /\ Last(path) = "" THEN Front(path) ELSE path
Tree == <<item, kids, made, careful>>

cd_home == cwd' = Slash /\ UNCHANGED <<Tree, debug, halted>>
\* What is after the last slash of the text is cut off.
cd_up == /\ cwd # Slash
         /\ cwd' = IF Len(cwd) = 2 THEN Slash ELSE Front(cwd)
         /\ UNCHANGED <<Tree, debug, halted>>
cd(arg) ==
  /\ arg \notin {<<"..">>, <<".">>} /\ Len(Full(arg)) <= MaxSegs
  /\ ResolvedDir(Full(arg))
  /\ cwd' = Canonical(Full(arg))
  /\ UNCHANGED <<Tree, debug, halted>>

\* The text of a relative path needs an argument that is not passed when the current directory
\* is not the root: what is read instead faults, or is text, that is a name here.
mkdir(arg) ==
  IF Absolute(arg) \/ cwd = Slash
  THEN vfs_mkdir(Full(arg)) /\ Stays
  ELSE \/ halted' = TRUE /\ UNCHANGED <<Tree, cwd, debug>>
       \/ vfs_mkdir(arg \o <<Junk>>) /\ Stays

touch(arg) == vfs_create(Full(arg)) /\ Stays
rm(arg)    == vfs_remove(Full(arg)) /\ Stays
\* A file that is not there is created before it is edited.
shell_edit(arg) ==
  /\ vfs_resolve_path(Full(arg)) = Null
  /\ vfs_create(Full(arg)) /\ Stays

enable_debug  == debug' = TRUE /\ UNCHANGED <<Tree, cwd, halted>>
disable_debug == debug' = FALSE /\ UNCHANGED <<Tree, cwd, halted>>
panic == debug /\ halted' = TRUE /\ UNCHANGED <<Tree, cwd, debug>>

execute_command ==
  \/ cd_home \/ cd_up \/ enable_debug \/ disable_debug \/ panic
  \/ \E arg \in Args \ {<<"">>} : cd(arg) \/ mkdir(arg) \/ touch(arg) \/ rm(arg) \/ shell_edit(arg)

Next ==
  \/ ~halted /\ execute_command
  \/ ~halted /\ \E path \in Args : sys_mkdir(path) \/ sys_unlink(path) \/ sys_rmdir(path)
  \/ halted /\ UNCHANGED shellVars

Spec == Init /\ [][Next]_shellVars

----------------------------------------------------------------------------
(* What the commands that only read show. *)
cat(arg)  == LET n == vfs_resolve_path(Full(arg))
             IN  IF n # Null /\ item[n].kind = "file" THEN n ELSE Null
\* Only directories have a stat function.
stat(arg) == IF ResolvedDir(Full(arg)) THEN vfs_resolve_path(Full(arg)) ELSE Null
ls        == IF ResolvedDir(cwd) THEN readdir(vfs_resolve_path(cwd)) ELSE Null

TypeOK ==
  /\ \A n \in All : /\ item[n] = Free \/ item[n].parent \in All
                    /\ kids[n] \in Seq(Nodes)
  /\ cwd \in Seq(STRING) /\ Head(cwd) = "" /\ Len(cwd) \in 2 .. MaxSegs
  /\ <<debug, halted, careful>> \in BOOLEAN \X BOOLEAN \X BOOLEAN

(* The text of the current directory, to which slashes, "." and ".." were added and from which
   parts were cut, still leads to a directory, as long as none was removed or hidden. *)
CwdResolves == careful => ResolvedDir(cwd)

(* What cat and stat reach by the text of the current directory and an argument is what a walk
   from the current directory reaches, and ls lists that directory. *)
LooksRight ==
  ResolvedDir(cwd) =>
    /\ Len(ls) = Len(kids[vfs_resolve_path(cwd)])
    /\ \A arg \in Args \ {<<"">>} : ~Absolute(arg) =>
         {cat(arg), stat(arg)} \subseteq {Null, Walk(vfs_resolve_path(cwd), arg)}

(* The path that created a node leads to it, also when it hides an older file; a name that is
   empty, "." or ".." leads elsewhere, and a directory that is hidden may be on the way. *)
FoundAgain ==
  careful /\ made # Null =>
    (Last(made.path) \in {"", ".", ".."} \/ vfs_resolve_path(made.path) = made.node)

ShellSound == CwdResolves /\ LooksRight /\ FoundAgain
=============================================================================
