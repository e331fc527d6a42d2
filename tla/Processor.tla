----------------------------- MODULE Processor -----------------------------
(***************************************************************************)
(* What the scheduler promises, without its list and its scan: one         *)
(* processor, given only to READY threads; a thread that exits never runs  *)
(* again and is released only after the processor has left it.             *)
(***************************************************************************)
CONSTANTS Main, Shell, Programs

Threads == {Main, Shell} \cup Programs

VARIABLES state,   \* the state of each thread
          owner    \* the thread that has the processor

pvars == <<state, owner>>

Init == /\ state = [t \in Threads |-> IF t = Main THEN "RUNNING" ELSE "none"]
        /\ owner = Main

(* The boot context starts the shell and the shell starts programs. *)
Start(t) ==
  /\ \/ t = Shell /\ owner = Main
     \/ t \in Programs /\ owner = Shell
  /\ state[t] = "none"
  /\ state' = [state EXCEPT ![t] = "READY"]
  /\ UNCHANGED owner

(* The processor goes to a READY thread; the old owner keeps what it asked
   for (to sleep, to exit) and is READY again if it asked for nothing. *)
Give(t) ==
  /\ state[t] = "READY"
  /\ state' = [state EXCEPT ![owner] = IF @ = "RUNNING" THEN "READY" ELSE @,
                            ![t]     = "RUNNING"]
  /\ owner' = t

Block ==
  /\ owner \in Programs
  /\ state[owner] \in {"RUNNING", "READY"}
  /\ state' = [state EXCEPT ![owner] = "BLOCKED"]
  /\ UNCHANGED owner

Wake(t) ==
  /\ state[t] \in {"RUNNING", "READY", "BLOCKED"}
  /\ state' = [state EXCEPT ![t] = "READY"]
  /\ UNCHANGED owner

Exit ==
  /\ owner \in Programs
  /\ state[owner] = "RUNNING"
  /\ state' = [state EXCEPT ![owner] = "DEAD"]
  /\ UNCHANGED owner

Release(t) ==
  /\ state[t] = "DEAD"
  /\ t # owner
  /\ state' = [state EXCEPT ![t] = "freed"]
  /\ UNCHANGED owner

Next ==
  \/ Block \/ Exit
  \/ \E t \in Threads : Start(t) \/ Give(t)
  \/ \E t \in Programs : Wake(t) \/ Release(t)

Spec == Init /\ [][Next]_pvars
=============================================================================
