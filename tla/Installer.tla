----------------------------- MODULE Installer -----------------------------
(***************************************************************************)
(* The installer of KyroOS (src/tools/installer/installer.c).  Its stages  *)
(* return nothing: one that gives up is followed by the next.  A stage is  *)
(* the list of its calls, each with what it takes (a descriptor or a       *)
(* buffer), what it gives back, and what the stage gives back when it      *)
(* fails.  What a call of the kernel answers is any of its answers.        *)
(***************************************************************************)
EXTENDS Naturals, Sequences, FiniteSets, SequencesExt

CONSTANTS Entries,   \* entries of the partition table, 4 in the code
          Essential  \* the files copy_file_to_mounted_fs copies, in order

\* What the constants are.
InstallerConstants == Entries \in Nat \ {0} /\ Essential # <<>>

VARIABLES
  table,      \* the partitions of the disk: "none", "empty" or "used", the first is number 1
  nodes,      \* those /dev has a node for
  stage, at,  \* where the program is: the number of the stage, and of its call
  selected,   \* selected_partition_lba, by number; 0 is none
  formatted, mounted,
  held,       \* descriptors and buffers the program has
  written     \* where it wrote which file, 0 is the RAM file system

instVars == <<table, nodes, stage, at, selected, formatted, mounted, held, written>>

\* One call; whether it can fail at all.
Do(call, takes, gives, undo) == [call |-> call, takes |-> takes, gives |-> gives, undo |-> undo]
Sure == {"close", "free", "select", "mkdir", "print", "key"}

installer_disk_detection == <<
  Do("open", {"disk"}, {}, {}), Do("info", {}, {}, {"disk"}), Do("read", {}, {}, {"disk"}),
  Do("close", {}, {"disk"}, {})>>

installer_partition_selection == <<
  Do("open", {"disk"}, {}, {}), Do("read", {}, {}, {"disk"}), Do("close", {}, {"disk"}, {}),
  Do("select", {}, {}, {})>>

installer_filesystem_formatting == <<
  Do("selected", {}, {}, {}), Do("open", {"disk"}, {}, {}), Do("format", {}, {}, {"disk"}),
  Do("close", {}, {"disk"}, {}), Do("mount", {}, {}, {})>>

\* A copy in which a failed read keeps the buffer.
copy_file_leaky(f) == <<
  Do("open", {"src"}, {}, {}), Do("stat", {}, {}, {"src"}), Do("malloc", {"buffer"}, {}, {"src"}),
  Do("read", {}, {}, {"src"}), Do("close", {}, {"src"}, {}),
  Do("create", {"dest"}, {}, {"buffer"}), Do(f, {}, {}, {"buffer", "dest"}),
  Do("close", {}, {"dest"}, {}), Do("free", {}, {"buffer"}, {})>>

copy_file_to_mounted_fs(f) == <<
  Do("open", {"src"}, {}, {}), Do("stat", {}, {}, {"src"}), Do("malloc", {"buffer"}, {}, {"src"}),
  Do("read", {}, {}, {"buffer", "src"}), Do("close", {}, {"src"}, {}),
  Do("create", {"dest"}, {}, {"buffer"}), Do(f, {}, {}, {"buffer", "dest"}),
  Do("close", {}, {"dest"}, {}), Do("free", {}, {"buffer"}, {})>>

installer_base_system_installation ==
  <<Do("mkdir", {}, {}, {})>> \o FlattenSeq([i \in DOMAIN Essential |-> copy_file_to_mounted_fs(Essential[i])])

\* A file whose write is not looked at.
Note(f) == <<Do("create", {"dest"}, {}, {}), Do(f, {}, {}, {}), Do("close", {}, {"dest"}, {})>>
Notes == {"limine.cfg", "passwd"}
installer_install_bootloader  == Note("limine.cfg")
installer_create_initial_user == Note("passwd") \o <<Do("mkdir", {}, {}, {})>>

\* installer_install_initial_packages and installer_basic_configuration.
Printed == <<Do("print", {}, {}, {})>>

\* main: without a framebuffer it returns; a key other than 1 ends it or is ignored.
main == <<
  <<Do("framebuffer", {}, {}, {}), Do("key", {}, {}, {})>>,
  installer_disk_detection, installer_partition_selection, installer_filesystem_formatting,
  installer_base_system_installation, Printed, installer_install_bootloader,
  installer_create_initial_user, Printed>>

Init == /\ table \in [1 .. Entries -> {"none", "empty", "used"}] /\ nodes \in SUBSET (1 .. Entries)
        /\ stage = 1 /\ at = 1 /\ selected = 0 /\ formatted = {} /\ mounted = 0
        /\ held = {} /\ written = {}

----------------------------------------------------------------------------
Running == stage <= Len(main)
Call    == main[stage][at]

\* The first partition with a type and a size.
Valid  == {i \in 1 .. Entries : table[i] = "used"}
First  == IF Valid = {} THEN 0 ELSE CHOOSE i \in Valid : \A j \in Valid : i <= j

\* The next call, of this stage or the next.
Forward == IF at < Len(main[stage]) THEN stage' = stage /\ at' = at + 1 ELSE stage' = stage + 1 /\ at' = 1

\* What a call does when it succeeds.  IDE_IOCTL_FORMAT formats the partition selected; the
\* node that is mounted is /dev/sda1 whatever was selected.
Effect ==
  /\ selected'  = IF Call.call = "select" THEN First ELSE selected
  /\ formatted' = IF Call.call = "format" THEN formatted \cup {selected} ELSE formatted
  /\ mounted'   = IF Call.call = "mount" THEN 1 ELSE mounted
  /\ written'   = IF Call.call \in ToSet(Essential) \cup Notes
                    THEN written \cup {<<mounted, Call.call>>} ELSE written

\* Calls that answer only when they can.
Possible == /\ Call.call = "selected" => selected # 0
            /\ Call.call = "mount" => 1 \in nodes
            /\ Call.call = "format" => selected \in 1 .. Entries

Succeed == /\ Running /\ Possible
           /\ Effect /\ Forward
           /\ held' = (held \cup Call.takes) \ Call.gives
           /\ UNCHANGED <<table, nodes>>

\* The stage ends; without a framebuffer the program does.
Fail == /\ Running /\ Call.call \notin Sure
        /\ Call.call = "selected" => selected = 0
        /\ held' = IF Call.call \in Notes THEN held ELSE held \ Call.undo
        /\ IF Call.call \in Notes THEN Forward
           ELSE at' = 1 /\ stage' = IF stage = 1 THEN Len(main) + 1 ELSE stage + 1
        /\ UNCHANGED <<table, nodes, selected, formatted, mounted, written>>

\* The user ends the program from the menu.
Exit == /\ Running /\ Call.call = "key" /\ stage' = Len(main) + 1 /\ at' = 1
        /\ UNCHANGED <<table, nodes, selected, formatted, mounted, held, written>>

Done == ~Running /\ UNCHANGED instVars

Next == Succeed \/ Fail \/ Exit \/ Done

Spec == Init /\ [][Next]_instVars

----------------------------------------------------------------------------
TypeOK == /\ selected \in 0 .. Entries /\ formatted \subseteq 0 .. Entries /\ mounted \in {0, 1}
          /\ held \subseteq {"disk", "src", "dest", "buffer"}

\* A stage ends with nothing open and nothing allocated, whichever of its calls failed: the
\* program has 16 descriptors (copy_file_to_mounted_fs and the other stages).
NothingHeld == at = 1 => held = {}

\* Only the partition that was selected is formatted, and one that is there; nothing is mounted
\* that was not formatted before, and no file is on the disk unless all before it were copied
\* (installer_filesystem_formatting, installer_base_system_installation).
OthersKept ==
  /\ formatted \subseteq {selected} \cap Valid
  /\ mounted # 0 => formatted # {}
  /\ \A i, j \in DOMAIN Essential :
       i < j /\ <<mounted, Essential[j]>> \in written => <<mounted, Essential[i]>> \in written

InstallSound == NothingHeld /\ OthersKept

\* installer.c:140 "Mount the formatted partition to /mnt".
MountsTheFormatted == mounted # 0 => mounted \in formatted
=============================================================================
