-------------------------------- MODULE Line --------------------------------
(***************************************************************************)
(* What the shell keeps of the lines it executes, and its editor           *)
(* (shell.c): the ring of the history, and the buffer of shell_edit with   *)
(* the keys it takes, on one file of the file system in memory             *)
(* (kyrofs.c).  A save writes the buffer over the beginning of the file,   *)
(* which is not made shorter.  That write returns no error: without memory *)
(* it panics, and without memory for its buffer the editor faults when it  *)
(* clears it, so in both cases the machine stops, which is a behaviour     *)
(* that ends in stuttering.                                                *)
(***************************************************************************)
EXTENDS Integers, Sequences, SequencesExt

CONSTANTS HISTORY_SIZE,  \* 10 in the code
          Lines,
          MaxEdit,       \* the characters of the editor's buffer, 4095 in the code
          MaxFile,       \* bound: the length of the file when the editor is first opened
          Chars,
          Closed

LineConstants == HISTORY_SIZE \in Nat \ {0, 1} /\ MaxEdit \in Nat \ {0} /\ MaxFile \in Nat

VARIABLES history, history_count, history_index,
          typed,     \* history: what was recorded, the newest first, as many as there are slots
          edit,      \* the buffer of the editor, or Closed
          file,      \* the characters of the file
          clean,     \* no key changed the buffer since it was read
          saved,     \* history: the buffer when it was saved last, or Closed
          longer     \* history: the file was longer than what was saved

lineVars == <<history, history_count, history_index, typed, edit, file, clean, saved, longer>>
lines  == <<history, history_count, history_index, typed>>
editor == <<edit, file, clean, saved, longer>>

Slots == 0 .. HISTORY_SIZE - 1

Init ==
  /\ history = [i \in Slots |-> Closed] /\ history_count = 0 /\ history_index = -1
  /\ typed = <<>>
  /\ edit = Closed /\ clean = FALSE /\ saved = Closed /\ longer = FALSE
  /\ file \in BoundedSeq(Chars, MaxFile)

----------------------------------------------------------------------------
Slot(i) == i % HISTORY_SIZE

\* A line that repeats the one before it is not recorded again.
add_to_history(cmd) ==
  /\ history_count > 0 => history[Slot(history_index)] # cmd
  /\ history_index' = Slot(history_index + 1)
  /\ history' = [history EXCEPT ![Slot(history_index + 1)] = cmd]
  /\ history_count' = IF history_count < HISTORY_SIZE THEN history_count + 1 ELSE history_count
  /\ typed' = SubSeq(<<cmd>> \o typed, 1, IF Len(typed) < HISTORY_SIZE THEN Len(typed) + 1 ELSE HISTORY_SIZE)
  /\ UNCHANGED editor

(* The editor.  As much of the file is read as the buffer holds. *)
Open ==
  /\ edit = Closed
  /\ edit' = SubSeq(file, 1, IF Len(file) < MaxEdit THEN Len(file) ELSE MaxEdit)
  /\ clean' = TRUE
  /\ UNCHANGED <<lines, file, saved, longer>>

Put(c) ==
  /\ edit # Closed /\ Len(edit) < MaxEdit
  /\ edit' = Append(edit, c) /\ clean' = FALSE
  /\ UNCHANGED <<lines, file, saved, longer>>

Backspace ==
  /\ edit # Closed /\ edit # <<>>
  /\ edit' = Front(edit) /\ clean' = FALSE
  /\ UNCHANGED <<lines, file, saved, longer>>

\* vfs_write from the beginning of the file (kyrofs_write); what the file has beyond the
\* buffer stays.
Save ==
  /\ edit # Closed
  /\ file' = edit \o SubSeq(file, Len(edit) + 1, Len(file))
  /\ saved' = edit
  /\ longer' = (Len(file) > Len(edit))
  /\ UNCHANGED <<lines, edit, clean>>

Exit ==
  /\ edit # Closed
  /\ edit' = Closed /\ clean' = FALSE
  /\ UNCHANGED <<lines, file, saved, longer>>

Next ==
  \/ edit = Closed /\ \E cmd \in Lines : add_to_history(cmd)
  \/ Open \/ Backspace \/ Save \/ Exit
  \/ \E c \in Chars : Put(c)

Spec == Init /\ [][Next]_lineVars

----------------------------------------------------------------------------
TypeOK ==
  /\ history \in [Slots -> Lines \cup {Closed}]
  /\ history_count \in 0 .. HISTORY_SIZE /\ history_index \in -1 .. HISTORY_SIZE - 1
  /\ typed \in Seq(Lines)
  /\ edit = Closed \/ (edit \in Seq(Chars) /\ Len(edit) <= MaxEdit)
  /\ file \in Seq(Chars)
  /\ saved = Closed \/ saved \in Seq(Chars)
  /\ clean \in BOOLEAN /\ longer \in BOOLEAN

(* The ring holds the last lines in the order they were typed, whatever it has wrapped around,
   and no two neighbours are the same. *)
HistoryTrue ==
  /\ history_count = Len(typed)
  /\ \A i \in 1 .. history_count : history[(history_index - (i - 1)) % HISTORY_SIZE] = typed[i]
  /\ \A i \in 1 .. history_count - 1 : typed[i] # typed[i + 1]

(* Who opens the editor again sees what was saved, unless the file was longer than that: then
   its end is still there. *)
SavedIsShown ==
  saved # Closed /\ edit # Closed /\ clean =>
    /\ Len(saved) <= Len(edit) /\ SubSeq(edit, 1, Len(saved)) = saved
    /\ ~longer => edit = saved

LineSound == HistoryTrue /\ SavedIsShown
=============================================================================
