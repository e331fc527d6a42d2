----------------------------- MODULE BoundedFifo -----------------------------
(***************************************************************************)
(* A queue of at most Size items that loses what arrives while it is full. *)
(***************************************************************************)
EXTENDS Naturals, Sequences

CONSTANTS Size, Items, NoItem

VARIABLES queue,   \* the items, oldest first
          out      \* the item taken last

fvars == <<queue, out>>

Init == queue = <<>> /\ out = NoItem

Put(x) == Len(queue) < Size /\ queue' = Append(queue, x) /\ UNCHANGED out

Take == queue # <<>> /\ queue' = Tail(queue) /\ out' = Head(queue)

Next == Take \/ \E x \in Items : Put(x)

Spec == Init /\ [][Next]_fvars
=============================================================================
