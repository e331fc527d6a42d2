-------------------------------- MODULE KLog --------------------------------
(***************************************************************************)
(* The history of the kernel log (log.c): klog called by a thread with     *)
(* interrupts on, statement by statement, and by interrupt handlers and    *)
(* system calls as one step that may come between; log_get_entries.        *)
(* Nothing locks the slots or the index.                                   *)
(***************************************************************************)
EXTENDS Naturals, Sequences

CONSTANTS LOG_HISTORY_SIZE, Messages, NoMessage

\* What the constants are.
KLogConstants == LOG_HISTORY_SIZE \in Nat \ {0} /\ NoMessage \notin Messages

Slots == 0 .. LOG_HISTORY_SIZE - 1

VARIABLES
    log_history, log_history_idx, log_history_full,
    call,      \* the thread in klog: where it is, its message, the index it has read
    crossed,   \* klog was called between the statements of that call
    overrun,   \* history: a message was written behind the last slot
    said,      \* history: the last messages, LOG_HISTORY_SIZE at most
    since      \* history: how many of them came since the last crossing

log  == <<log_history, log_history_idx, log_history_full>>
vars == <<log, call, crossed, overrun, said, since>>

Idle == [at |-> "idle", msg |-> NoMessage, idx |-> 0]
Cap(n) == IF n < LOG_HISTORY_SIZE THEN n ELSE LOG_HISTORY_SIZE
LastOf(s, n) == SubSeq(s, Len(s) - n + 1, Len(s))
Say(m) == said' = LET s == Append(said, m) IN LastOf(s, Cap(Len(s)))

Init == /\ log_history = [i \in Slots |-> NoMessage]
        /\ log_history_idx = 0 /\ log_history_full = FALSE
        /\ call = Idle /\ crossed = FALSE /\ overrun = FALSE
        /\ said = <<>> /\ since = 0

Stored(m, i) == IF i \in Slots THEN [log_history EXCEPT ![i] = m] ELSE log_history

\* Mutated form of Wraps: the index is compared one too late.
WrapsLate(i) == i > LOG_HISTORY_SIZE

Wraps(i) == i >= LOG_HISTORY_SIZE

\* The thread: the slot is written,
Store(m) ==
    /\ call = Idle
    /\ log_history' = Stored(m, log_history_idx)
    /\ call' = [at |-> "advance", msg |-> m, idx |-> log_history_idx]
    /\ Say(m)
    /\ UNCHANGED <<log_history_idx, log_history_full, crossed, overrun, since>>

\* the index advanced, in place or by storing the value read before,
Advance ==
    /\ call.at = "advance"
    /\ \E i \in {log_history_idx, call.idx} : log_history_idx' = i + 1
    /\ call' = [call EXCEPT !.at = "wrap"]
    /\ UNCHANGED <<log_history, log_history_full, crossed, overrun, said, since>>

\* and wrapped.
Wrap ==
    /\ call.at = "wrap"
    /\ IF Wraps(log_history_idx) THEN log_history_idx' = 0 /\ log_history_full' = TRUE
       ELSE UNCHANGED <<log_history_idx, log_history_full>>
    /\ call' = Idle /\ crossed' = FALSE
    /\ since' = IF crossed THEN 0 ELSE Cap(since + 1)
    /\ UNCHANGED <<log_history, overrun, said>>

\* klog with interrupts off, whole.
klog(m) ==
    /\ log_history' = Stored(m, log_history_idx)
    /\ overrun' = (overrun \/ log_history_idx \notin Slots)
    /\ IF Wraps(log_history_idx + 1) THEN log_history_idx' = 0 /\ log_history_full' = TRUE
       ELSE log_history_idx' = log_history_idx + 1 /\ UNCHANGED log_history_full
    /\ Say(m)
    /\ crossed' = (call # Idle)
    /\ since' = IF call = Idle THEN Cap(since + 1) ELSE since
    /\ UNCHANGED call

\* log_get_entries: the last n messages, oldest first.
NumAvailable == IF log_history_full THEN LOG_HISTORY_SIZE ELSE log_history_idx
log_get_entries(n) ==
    LET count == IF n > NumAvailable THEN NumAvailable ELSE n
        start == (log_history_idx + LOG_HISTORY_SIZE - count) % LOG_HISTORY_SIZE
    IN  [i \in 1 .. count |-> log_history[(start + i - 1) % LOG_HISTORY_SIZE]]

Next == \/ \E m \in Messages : Store(m) \/ klog(m)
        \/ Advance \/ Wrap

Spec == Init /\ [][Next]_vars

-----------------------------------------------------------------------------
\* Types of the log and the call.
TypeOK ==
    /\ log_history \in [Slots -> Messages \cup {NoMessage}]
    /\ log_history_idx \in 0 .. LOG_HISTORY_SIZE /\ log_history_full \in BOOLEAN
    /\ call.at \in {"idle", "advance", "wrap"} /\ crossed \in BOOLEAN /\ overrun \in BOOLEAN
    /\ since \in 0 .. LOG_HISTORY_SIZE

\* Whatever calls of klog crossed before, once the thread has left klog the index is one of
\* a slot, and log_get_entries gives every message said since the last crossing, in order
\* and ending with the newest (log.c:161-169, 222-243).
Recent == call = Idle => /\ log_history_idx \in Slots
                         /\ \A n \in 1 .. since : log_get_entries(n) = LastOf(said, n)

\* No message is written behind the last slot (violated: klog between the two statements of
\* another at the last slot).
InSlots == ~overrun
=============================================================================
