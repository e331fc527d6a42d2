------------------------------- MODULE E1000 -------------------------------
(***************************************************************************)
(* The driver of the network card (e1000.c): the ring of transmit          *)
(* descriptors shared by the senders and the card, and the ring of receive *)
(* descriptors the interrupt handler empties.                              *)
(*                                                                         *)
(* A sender in a system call has interrupts off until it waits with        *)
(* schedule().  The handler itself sends, when it answers an ARP or ICMP   *)
(* request, and may wait in the middle of its loop: the interrupt is not   *)
(* acknowledged meanwhile, so the handler is not entered again.            *)
(***************************************************************************)
EXTENDS Naturals, Integers, Sequences, FiniteSets, SequencesExt

CONSTANTS Senders,  \* the threads that send
          Handler,  \* the interrupt handler as a sender
          N,        \* descriptors in each ring: 8 and 32 in the code
          MaxSent,  \* bound: frames handed to e1000_send_packet
          MaxCame   \* bound: frames that reach the card

\* What the constants are.
RingConstants ==
  /\ N \in Nat \ {0, 1} /\ Handler \notin Senders
  /\ MaxSent \in Nat /\ MaxCame \in Nat

All   == Senders \cup {Handler}
Slots == 0 .. N - 1
Inc(i) == (i + 1) % N

VARIABLES tdt, tdh,     \* TDT, written by the driver; TDH, kept by the card
          txbuf, txdd,  \* tx_buffers; the descriptors whose DD bit is set
          sending,      \* descriptors the card took and has not reported done
          pc, slot, frame,  \* per sender: its place, current_tdt, what it sends
          calls,        \* frames handed to e1000_send_packet, numbered in order
          wire,         \* history: the frames the card has sent
          raced,        \* history: a frame was handed over while a sender waited
          rdt, rdh, rx_cur,
          rxbuf, rxdd,  \* rx_buffers; the descriptors whose DD bit is set
          handling,     \* the handler is working on the frame at rx_cur
          came, taken,  \* frames that came, and the history of those handled
          wild          \* history: the card received while RDT was no descriptor

txVars == <<tdt, tdh, txbuf, txdd, sending, pc, slot, frame, calls, wire, raced>>
rxVars == <<rdt, rdh, rx_cur, rxbuf, rxdd, handling, came, taken, wild>>
vars   == <<txVars, rxVars>>

(* e1000_attach. *)
Init ==
  /\ tdt = 0 /\ tdh = 0
  /\ txbuf = [i \in Slots |-> 0] /\ txdd = Slots /\ sending = <<>>
  /\ pc    = [s \in All |-> "idle"]
  /\ slot  = [s \in All |-> 0]
  /\ frame = [s \in All |-> 0]
  /\ calls = 0 /\ wire = <<>> /\ raced = FALSE
  /\ rdt = N - 1 /\ rdh = 0 /\ rx_cur = 0
  /\ rxbuf = [i \in Slots |-> 0] /\ rxdd = {}
  /\ handling = FALSE /\ came = 0 /\ taken = <<>> /\ wild = FALSE

----------------------------------------------------------------------------
(* The end of e1000_send_packet: TDT is computed from what was read at the start. *)
Submit(i) == tdt' = Inc(i) /\ txdd' = txdd \ {i}

(* Mutant of Free: the loop does not wait. *)
FreeAlways(i) == TRUE

(* The DD bit the loop waits for. *)
Free(i) == i \in txdd

(* The call, with interrupts off: TDT is read, and if its descriptor is free the
   frame is in it before anything else runs. *)
Enter(s) ==
  /\ calls < MaxSent
  /\ calls' = calls + 1
  /\ raced' = (raced \/ \E t \in All : pc[t] # "idle")
  /\ slot'  = [slot EXCEPT ![s] = tdt]
  /\ frame' = [frame EXCEPT ![s] = calls + 1]
  /\ IF Free(tdt)
       THEN /\ txbuf' = [txbuf EXCEPT ![tdt] = calls + 1]
            /\ Submit(tdt)
            /\ UNCHANGED pc
       ELSE /\ pc' = [pc EXCEPT ![s] = "wait"]
            /\ UNCHANGED <<txbuf, tdt, txdd>>
  /\ UNCHANGED <<tdh, sending, wire>>

Send(s) == pc[s] = "idle" /\ Enter(s) /\ UNCHANGED rxVars

(* The loop ends after schedule(), with interrupts on: the copy and the rest are
   two steps. *)
Copy(s) ==
  /\ pc[s] = "wait" /\ Free(slot[s])
  /\ txbuf' = [txbuf EXCEPT ![slot[s]] = frame[s]]
  /\ pc' = [pc EXCEPT ![s] = "submit"]
  /\ UNCHANGED <<tdt, tdh, txdd, sending, slot, frame, calls, wire, raced, rxVars>>

Finish(s) ==
  /\ pc[s] = "submit"
  /\ Submit(slot[s])
  /\ pc' = [pc EXCEPT ![s] = "idle"]
  /\ UNCHANGED <<tdh, txbuf, sending, slot, frame, calls, wire, raced, rxVars>>

(* The card sends what lies between TDH and TDT, when they are equal nothing, and
   reports a descriptor done later. *)
Transmit ==
  /\ tdh # tdt
  /\ wire' = Append(wire, txbuf[tdh])
  /\ sending' = Append(sending, tdh)
  /\ tdh'  = Inc(tdh)
  /\ UNCHANGED <<tdt, txbuf, txdd, pc, slot, frame, calls, raced, rxVars>>

Report ==
  /\ sending # <<>>
  /\ txdd' = txdd \cup {Head(sending)}
  /\ sending' = Tail(sending)
  /\ UNCHANGED <<tdt, tdh, txbuf, pc, slot, frame, calls, wire, raced, rxVars>>

----------------------------------------------------------------------------
(* A frame arrives: the card fills the descriptor at RDH, up to RDT.  An RDT that
   is no descriptor is never reached. *)
Arrive ==
  /\ came < MaxCame
  /\ came' = came + 1
  /\ IF rdh = rdt
       THEN UNCHANGED <<rdh, rxbuf, rxdd, wild>>
       ELSE /\ rxbuf' = [rxbuf EXCEPT ![rdh] = came + 1]
            /\ rxdd'  = rxdd \cup {rdh}
            /\ rdh'   = Inc(rdh)
            /\ wild'  = (wild \/ rdt \notin Slots)
  /\ UNCHANGED <<rdt, rx_cur, handling, taken, txVars>>

(* e1000_interrupt_handler: one round of the loop.  Some frames are answered. *)
Take ==
  /\ ~handling /\ rx_cur \in rxdd
  /\ handling' = TRUE
  /\ taken' = Append(taken, rxbuf[rx_cur])
  /\ Enter(Handler) \/ UNCHANGED txVars
  /\ UNCHANGED <<rdt, rdh, rx_cur, rxbuf, rxdd, came, wild>>

(* Mutant of GiveBack: the status is not cleared. *)
GiveBackSet == UNCHANGED rxdd

GiveBack == rxdd' = rxdd \ {rx_cur}

(* The end of the round.  At the wrap rx_cur - 1 is not a descriptor. *)
Advance ==
  /\ handling /\ pc[Handler] = "idle"
  /\ GiveBack
  /\ rx_cur' = Inc(rx_cur)
  /\ rdt' = Inc(rx_cur) - 1
  /\ handling' = FALSE
  /\ UNCHANGED <<rdh, rxbuf, came, taken, wild, txVars>>

(* A sender polls in its loop, or nothing is left to do. *)
Poll == (\E s \in All : pc[s] # "idle") \/ (calls = MaxSent /\ came = MaxCame)

Next ==
  \/ \E s \in Senders : Send(s)
  \/ \E s \in All : Copy(s)
  \/ \E s \in All : Finish(s)
  \/ Transmit
  \/ Report
  \/ Arrive
  \/ Take
  \/ Advance
  \/ Poll /\ UNCHANGED vars

Spec == Init /\ [][Next]_vars

----------------------------------------------------------------------------
(* The slots i, i + 1, ... of a ring while they are in the set. *)
Stretch(buf, i, set) ==
  LET n == CHOOSE n \in 0 .. N :
             /\ \A k \in 0 .. n - 1 : (i + k) % N \in set
             /\ n = N \/ (i + n) % N \notin set
  IN  [k \in 1 .. n |-> buf[(i + k - 1) % N]]

TypeOK ==
  /\ tdt \in Slots /\ tdh \in Slots /\ txdd \subseteq Slots /\ rxdd \subseteq Slots
  /\ rdt \in -1 .. N - 1 /\ rdh \in Slots /\ rx_cur \in Slots
  /\ pc \in [All -> {"idle", "wait", "submit"}] /\ slot \in [All -> Slots]
  /\ frame \in [All -> 0 .. MaxSent] /\ calls \in 0 .. MaxSent
  /\ <<raced, wild, handling>> \in BOOLEAN \X BOOLEAN \X BOOLEAN

(* What the card has sent and what waits in the ring are the frames of the calls in
   order, each once: it holds as long as no call comes while a sender waits. *)
SentInOrder ==
  ~raced => \E n \in 0 .. calls :
     /\ wire \o Stretch(txbuf, tdh, Slots \ (txdd \cup ToSet(sending))) = [i \in 1 .. n |-> i]
     /\ n < calls => \E s \in All : pc[s] # "idle" /\ frame[s] = n + 1

(* Frames are handled in the order they came, none twice and none overwritten, as
   long as the card does not receive while RDT holds rx_cur - 1 at the wrap. *)
TakenInOrder ==
  ~wild => LET waiting == Stretch(rxbuf, rx_cur, rxdd)
               unread  == IF handling THEN Tail(waiting) ELSE waiting
           IN  /\ IsSorted(taken \o unread, <)
               /\ Len(waiting) = Cardinality(rxdd)
=============================================================================
