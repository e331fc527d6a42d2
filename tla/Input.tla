------------------------------- MODULE Input -------------------------------
(***************************************************************************)
(* Keyboard, mouse and terminal (keyboard.c, mouse.c, tty.c): the handlers *)
(* turn scancodes and packets into events, the readers take them from the  *)
(* one queue.  The queue is the sequence that module EventQueue            *)
(* implements; at its limit it drops the new event.                        *)
(***************************************************************************)
EXTENDS Integers, Sequences, SequencesExt

CONSTANTS EVENT_QUEUE_SIZE,
          Letters, Others,  \* keys that caps lock is about, and those it is not
          Width, Height,    \* pixels of the screen
          Deltas,           \* movements in a packet
          MaxTaken          \* bound: events taken by readers that are remembered

\* What the constants are.
InputConstants ==
  /\ EVENT_QUEUE_SIZE \in Nat \ {0} /\ Width \in Nat \ {0}
  /\ Height \in Nat \ {0} /\ Deltas \subseteq Int

VARIABLES
    shift, caps, ctrl,                \* the modifiers as keyboard.c has them
    mouse_cycle, packet, mouse_x, mouse_y, last_button_state,
    queue,
    taken,     \* history: events the readers took, the last ones
    dropped    \* history: an event was dropped

keyboard == <<shift, caps, ctrl>>
mouse    == <<mouse_cycle, packet, mouse_x, mouse_y, last_button_state>>
vars     == <<keyboard, mouse, queue, taken, dropped>>

Init == /\ shift = FALSE /\ caps = FALSE /\ ctrl = FALSE
        /\ mouse_cycle = 0 /\ packet = <<>> /\ mouse_x = 0 /\ mouse_y = 0
        /\ last_button_state = FALSE
        /\ queue = <<>> /\ taken = <<>> /\ dropped = FALSE

\* event_push of some events in a row.
Push(events) ==
    LET room == EVENT_QUEUE_SIZE - Len(queue)
    IN  /\ queue' = queue \o SubSeq(events, 1, IF Len(events) < room THEN Len(events) ELSE room)
        /\ dropped' = (dropped \/ Len(events) > room)

\* keyboard_handler: a modifier key, pressed or released.  Of caps lock only the press
\* is taken here; its release goes on as that of any other key.
Modifier(key, down) ==
    /\ key = "caps" => down
    /\ shift' = IF key = "shift" THEN down ELSE shift
    /\ ctrl'  = IF key = "ctrl" THEN down ELSE ctrl
    /\ caps'  = IF key = "caps" THEN ~caps ELSE caps
    /\ UNCHANGED <<mouse, queue, taken, dropped>>

\* Whether the upper character of a key is meant.
Upper(key) == IF key \in Letters THEN shift # caps ELSE shift

\* keyboard_handler: any other key.  A release has the lower character always.
Key(key, down) ==
    /\ Push(<<[type |-> IF down THEN "key_down" ELSE "key_up", key |-> key,
               upper |-> down /\ Upper(key)]>>)
    /\ UNCHANGED <<keyboard, mouse, taken>>

\* mouse_handler: a first byte without its mark is skipped.
FirstByte(marked, button, left, up) ==
    /\ mouse_cycle = 0
    /\ IF marked THEN /\ mouse_cycle' = 1
                      /\ packet' = <<[button |-> button, left |-> left, up |-> up]>>
       ELSE UNCHANGED <<mouse_cycle, packet>>
    /\ UNCHANGED <<keyboard, mouse_x, mouse_y, last_button_state, queue, taken, dropped>>

SecondByte(delta) ==
    /\ mouse_cycle = 1
    /\ mouse_cycle' = 2 /\ packet' = Append(packet, delta)
    /\ UNCHANGED <<keyboard, mouse_x, mouse_y, last_button_state, queue, taken, dropped>>

Clamp(n, limit) == IF n < 0 THEN 0 ELSE IF n >= limit THEN limit - 1 ELSE n

\* The event of the left button, when it changed.
ButtonEvents(button) ==
    IF button = last_button_state THEN <<>>
    ELSE IF button THEN <<[type |-> "mouse_down"]>> ELSE <<[type |-> "mouse_up"]>>

\* The third byte completes the packet.  The deltas are signed already; those of the
\* directions left and down are negated once more.
ThirdByte(delta) ==
    LET x == mouse_x + (IF packet[1].left THEN -packet[2] ELSE packet[2])
        y == mouse_y - (IF packet[1].up THEN -delta ELSE delta)
    IN  /\ mouse_cycle = 2
        /\ mouse_cycle' = 0 /\ packet' = <<>>
        /\ mouse_x' = Clamp(x, Width) /\ mouse_y' = Clamp(y, Height)
        /\ Push(<<[type |-> "move", x |-> mouse_x', y |-> mouse_y']>>
                \o ButtonEvents(packet[1].button))
        /\ last_button_state' = packet[1].button
        /\ UNCHANGED <<keyboard, taken>>

\* event_pop by a reader: sys_input_poll_event, the shell, and tty_read and
\* keyboard_get_char, which pass over what is no character.
Take ==
    /\ queue # <<>> /\ Len(taken) < MaxTaken
    /\ taken' = Append(taken, Head(queue)) /\ queue' = Tail(queue)
    /\ UNCHANGED <<keyboard, mouse, dropped>>

Next ==
    \/ \E key \in {"shift", "ctrl", "caps"}, down \in BOOLEAN : Modifier(key, down)
    \/ \E key \in Letters \cup Others, down \in BOOLEAN : Key(key, down)
    \/ Key("caps", FALSE)
    \/ \E marked, button, left, up \in BOOLEAN : FirstByte(marked, button, left, up)
    \/ \E delta \in Deltas : SecondByte(delta) \/ ThirdByte(delta)
    \/ Take

Spec == Init /\ [][Next]_vars

-----------------------------------------------------------------------------
Seen == taken \o queue

\* Types of the keyboard and the mouse.
TypeOK ==
    /\ shift \in BOOLEAN /\ caps \in BOOLEAN /\ ctrl \in BOOLEAN /\ dropped \in BOOLEAN
    /\ mouse_cycle \in 0 .. 2 /\ Len(packet) = mouse_cycle
    /\ Len(queue) <= EVENT_QUEUE_SIZE

\* The left button is down after the first n events.
DownAfter(s, n) == \E i \in 1 .. n : /\ s[i].type = "mouse_down"
                                     /\ \A j \in i + 1 .. n : s[j].type # "mouse_up"

\* The readers together see the left button go down and up by turns, and the last they
\* see is its state in the last packet, unless an event was dropped; and no position they
\* see is off the screen (mouse.c:68-112).
MouseTrue ==
    /\ ~dropped =>
          /\ \A i \in 1 .. Len(Seen) :
                /\ Seen[i].type = "mouse_down" => ~DownAfter(Seen, i - 1)
                /\ Seen[i].type = "mouse_up"   => DownAfter(Seen, i - 1)
          /\ last_button_state = DownAfter(Seen, Len(Seen))
    /\ \A i \in 1 .. Len(Seen) : Seen[i].type = "move" =>
             Seen[i].x \in 0 .. Width - 1 /\ Seen[i].y \in 0 .. Height - 1
=============================================================================
