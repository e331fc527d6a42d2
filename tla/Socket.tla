------------------------------- MODULE Socket -------------------------------
(***************************************************************************)
(* The UDP sockets of KyroOS (socket.c): the list active_sockets, the      *)
(* receive buffer of each socket, and the blocking sock_recv racing with   *)
(* the receive interrupt of the network card.                              *)
(*                                                                         *)
(* System calls enter through an interrupt gate, so they run with          *)
(* interrupts off and are one step each, until schedule() returns inside   *)
(* sock_recv with interrupts on: from there the call is modelled one       *)
(* statement at a time and the card or the timer may interrupt it.         *)
(***************************************************************************)
EXTENDS Naturals, Sequences, SequencesExt

CONSTANTS Callers,    \* the user threads
          Idle,       \* the shell: always ready to run
          Sockets,    \* socket_t objects; one that is freed is not used again
          Ports,      \* the ports a socket may be bound to
          DhcpPorts,  \* 67 and 68: their datagrams go to the DHCP client
          Lengths,    \* payload lengths of the datagrams that arrive
          Wants,      \* the lengths sock_recv is called with
          BufSize,    \* recv_buffer_size, 4096 in the code
          MaxHandlers,\* UDP_MAX_HANDLERS, 64 in the code
          MaxBytes    \* bound: bytes accepted by a socket over its life

NoThread == "none"
NoSocket == "none"

ASSUME SocketAssumption ==
  /\ Idle \notin Callers /\ NoThread \notin Callers /\ NoSocket \notin Sockets
  /\ 0 \notin Ports
  /\ Lengths \subseteq Nat /\ Wants \subseteq Nat \ {0}
  /\ BufSize \in Nat \ {0} /\ MaxHandlers \in Nat /\ MaxBytes \in Nat

VARIABLES
  current, state,        \* the processor: current_thread, thread_t.state
  pc, on, want, copied,  \* per thread: its place in sock_recv and its locals
  active,                \* active_sockets, first element first
  st, owner, port,       \* per socket: state, whose descriptor it is, local port
  buf, len, rd, waiter,  \* recv_buffer, recv_data_len, recv_read_idx, waiting_thread
  handlers,              \* udp_handler_count
  accepted, consumed     \* history: bytes put into and taken out of a buffer

threadVars == <<pc, on, want, copied>>
cpuVars    == <<current, state>>
bufVars    == <<buf, len, rd, accepted, consumed>>
sockVars   == <<active, st, owner, port, handlers>>
vars       == <<threadVars, cpuVars, bufVars, sockVars, waiter>>

CPU == INSTANCE Processor
         WITH Main <- NoThread, Shell <- Idle, Programs <- Callers, owner <- current

(* "sleep" is the call of schedule() with interrupts still off; "yield" the
   same call on a later round of the loop, with interrupts on. *)
Places == {"user", "sleep", "asleep", "asleep again", "check", "register", "mark", "yield",
           "copy", "consume", "reset"}

(* Bytes are numbered in the order a socket accepts them; 0 is no byte. *)
Init ==
  /\ current = Idle
  /\ state    = [t \in Callers \cup {Idle} |-> IF t = Idle THEN "RUNNING" ELSE "READY"]
  /\ pc       = [t \in Callers |-> "user"]
  /\ on       = [t \in Callers |-> NoSocket]
  /\ want     = [t \in Callers |-> 0]
  /\ copied   = [t \in Callers |-> 0]
  /\ active   = <<>>
  /\ st       = [s \in Sockets |-> "none"]
  /\ owner    = [s \in Sockets |-> NoThread]
  /\ port     = [s \in Sockets |-> 0]
  /\ buf      = [s \in Sockets |-> [i \in 0 .. BufSize - 1 |-> 0]]
  /\ len      = [s \in Sockets |-> 0]
  /\ rd       = [s \in Sockets |-> 0]
  /\ waiter   = [s \in Sockets |-> NoThread]
  /\ handlers = 0
  /\ accepted = [s \in Sockets |-> 0]
  /\ consumed = [s \in Sockets |-> 0]

At(t, place)   == current = t /\ pc[t] = place
GoTo(t, place) == pc' = [pc EXCEPT ![t] = place]
IsActive(s)    == Contains(active, s)
Mine(t, s)     == IsActive(s) /\ owner[s] = t

----------------------------------------------------------------------------
(* socket(): the new socket is the first of the list. *)
Create(t, s) ==
  /\ At(t, "user")
  /\ st[s] = "none"
  /\ active' = <<s>> \o active
  /\ st'     = [st EXCEPT ![s] = "closed"]
  /\ owner'  = [owner EXCEPT ![s] = t]
  /\ UNCHANGED <<threadVars, cpuVars, bufVars, port, handlers, waiter>>

(* Mutant of Registered: the size of the table is not checked. *)
RegisteredAlways(count) == count + 1

(* udp_register_handler: a full table takes no more, and bind does not notice. *)
Registered(count) == IF count < MaxHandlers THEN count + 1 ELSE count

(* Mutant of InUse: only the first socket of the list is compared. *)
InUseFirstOnly(s, p) == active # <<>> /\ active[1] # s /\ port[active[1]] = p

(* Another socket of the list has the port. *)
InUse(s, p) == \E i \in 1 .. Len(active) : active[i] # s /\ port[active[i]] = p

Bind(t, s, p) ==
  /\ At(t, "user") /\ Mine(t, s)
  /\ ~InUse(s, p)
  /\ st'   = [st EXCEPT ![s] = "bound"]
  /\ port' = [port EXCEPT ![s] = p]
  /\ handlers' = Registered(handlers)
  /\ UNCHANGED <<threadVars, cpuVars, bufVars, active, owner, waiter>>

Connect(t, s) ==
  /\ At(t, "user") /\ Mine(t, s)
  /\ st' = [st EXCEPT ![s] = "connected"]
  /\ UNCHANGED <<threadVars, cpuVars, bufVars, active, owner, port, handlers, waiter>>

(* Mutant of Close: whose descriptor the socket is does not matter. *)
CloseAny(t, s) ==
  /\ At(t, "user") /\ IsActive(s)
  /\ active' = RemoveFirst(active, s)
  /\ st'     = [st EXCEPT ![s] = "freed"]
  /\ UNCHANGED <<threadVars, cpuVars, bufVars, owner, port, handlers, waiter>>

(* close(): the socket leaves the list and is freed with its buffer. *)
Close(t, s) ==
  /\ At(t, "user") /\ Mine(t, s)
  /\ active' = RemoveFirst(active, s)
  /\ st'     = [st EXCEPT ![s] = "freed"]
  /\ UNCHANGED <<threadVars, cpuVars, bufVars, owner, port, handlers, waiter>>

(* thread_exit closes no descriptor: the sockets of the thread stay listed. *)
Exit(t) ==
  /\ At(t, "user")
  /\ \E u \in (Callers \cup {Idle}) \ {t} :
       /\ state[u] = "READY"
       /\ state'   = [state EXCEPT ![t] = "DEAD", ![u] = "RUNNING"]
       /\ current' = u
  /\ UNCHANGED <<threadVars, bufVars, sockVars, waiter>>

----------------------------------------------------------------------------
(* recv(): with an empty buffer the thread registers, blocks and goes to
   schedule() in one step, as interrupts are off. *)
RecvCall(t, s, n) ==
  /\ At(t, "user") /\ Mine(t, s)
  /\ st[s] # "closed"
  /\ IF len[s] = 0
       THEN /\ on'     = [on EXCEPT ![t] = s]
            /\ want'   = [want EXCEPT ![t] = n]
            /\ waiter' = [waiter EXCEPT ![s] = t]
            /\ state'  = [state EXCEPT ![t] = "BLOCKED"]
            /\ GoTo(t, "sleep")
            /\ UNCHANGED <<bufVars, current, copied>>
       ELSE LET k == IF n > len[s] THEN len[s] ELSE n IN
            /\ len'      = [len EXCEPT ![s] = @ - k]
            /\ rd'       = [rd EXCEPT ![s] = IF len[s] = k THEN 0 ELSE @ + k]
            /\ consumed' = [consumed EXCEPT ![s] = @ + k]
            /\ UNCHANGED <<buf, accepted, waiter, cpuVars, threadVars>>
  /\ UNCHANGED sockVars

(* schedule() gives the processor to a READY thread, which may be t. *)
Yield(t) ==
  /\ At(t, "sleep") \/ At(t, "yield")
  /\ GoTo(t, IF At(t, "sleep") THEN "asleep" ELSE "asleep again")
  /\ \E u \in Callers \cup {Idle} : CPU!Give(u)
  /\ UNCHANGED <<on, want, copied, bufVars, sockVars, waiter>>

(* schedule() has returned, interrupts are on: waiting_thread is cleared. *)
Clear(t) ==
  /\ At(t, "asleep") \/ At(t, "asleep again")
  /\ waiter' = [waiter EXCEPT ![on[t]] = NoThread]
  /\ GoTo(t, "check")
  /\ UNCHANGED <<cpuVars, on, want, copied, bufVars, sockVars>>

Check(t) ==
  /\ At(t, "check")
  /\ GoTo(t, IF len[on[t]] = 0 THEN "register" ELSE "copy")
  /\ UNCHANGED <<cpuVars, on, want, copied, bufVars, sockVars, waiter>>

Register(t) ==
  /\ At(t, "register")
  /\ waiter' = [waiter EXCEPT ![on[t]] = t]
  /\ GoTo(t, "mark")
  /\ UNCHANGED <<cpuVars, on, want, copied, bufVars, sockVars>>

MarkBlocked(t) ==
  /\ At(t, "mark")
  /\ state' = [state EXCEPT ![t] = "BLOCKED"]
  /\ GoTo(t, "yield")
  /\ UNCHANGED <<current, on, want, copied, bufVars, sockVars, waiter>>

(* The bytes are copied out of the buffer ... *)
Copy(t) ==
  /\ At(t, "copy")
  /\ copied' = [copied EXCEPT ![t] = IF want[t] > len[on[t]] THEN len[on[t]] ELSE want[t]]
  /\ GoTo(t, "consume")
  /\ UNCHANGED <<cpuVars, on, want, bufVars, sockVars, waiter>>

(* ... the indexes move ... *)
Consume(t) ==
  /\ At(t, "consume")
  /\ rd'  = [rd EXCEPT ![on[t]] = @ + copied[t]]
  /\ len' = [len EXCEPT ![on[t]] = @ - copied[t]]
  /\ consumed' = [consumed EXCEPT ![on[t]] = @ + copied[t]]
  /\ GoTo(t, "reset")
  /\ UNCHANGED <<cpuVars, on, want, copied, buf, accepted, sockVars, waiter>>

(* ... and the read index returns to the start if the buffer is empty. *)
Reset(t) ==
  /\ At(t, "reset")
  /\ rd' = [rd EXCEPT ![on[t]] = IF len[on[t]] = 0 THEN 0 ELSE @]
  /\ GoTo(t, "user")
  /\ on'     = [on EXCEPT ![t] = NoSocket]
  /\ want'   = [want EXCEPT ![t] = 0]
  /\ copied' = [copied EXCEPT ![t] = 0]
  /\ UNCHANGED <<cpuVars, buf, len, accepted, consumed, sockVars, waiter>>

----------------------------------------------------------------------------
InterruptsOn == \A t \in Callers : ~At(t, "sleep")

(* The timer: schedule() gives the processor to another thread. *)
Preempt(u) ==
  /\ InterruptsOn
  /\ CPU!Give(u)
  /\ UNCHANGED <<threadVars, bufVars, sockVars, waiter>>

(* With no READY thread schedule() keeps the current one, which must run. *)
KeepRunning ==
  /\ InterruptsOn
  /\ \A u \in Callers \cup {Idle} : state[u] # "READY"
  /\ state[current] = "RUNNING"
  /\ UNCHANGED vars

(* The socket that gets a datagram for port p: the first of the list with it. *)
ForPort(p) == SelectInSeq(active, LAMBDA s : port[s] = p)

Fits(s, n) == n <= BufSize - len[s]

(* Mutant of Wake: the waiter is forgotten before it is made READY. *)
WakeNobody(s) ==
  /\ waiter' = [waiter EXCEPT ![s] = NoThread]
  /\ UNCHANGED state

(* The thread registered in the socket becomes READY, once. *)
Wake(s) ==
  /\ waiter' = [waiter EXCEPT ![s] = NoThread]
  /\ state' = IF waiter[s] = NoThread THEN state
              ELSE [state EXCEPT ![waiter[s]] = "READY"]

(* A datagram of n bytes arrives for port p: its bytes are written at offset
   recv_data_len of the buffer of the socket, and its waiter is woken. *)
Receive(p, n) ==
  /\ InterruptsOn
  /\ p \notin DhcpPorts
  /\ ForPort(p) # 0
  /\ LET s == active[ForPort(p)] IN
       /\ Fits(s, n)
       /\ accepted[s] + n <= MaxBytes
       /\ buf' = [buf EXCEPT ![s] = [i \in DOMAIN @ |->
                    IF i \in len[s] .. len[s] + n - 1
                      THEN accepted[s] + 1 + i - len[s] ELSE @[i]]]
       /\ len' = [len EXCEPT ![s] = @ + n]
       /\ accepted' = [accepted EXCEPT ![s] = @ + n]
       /\ Wake(s)
  /\ UNCHANGED <<threadVars, current, rd, consumed, sockVars>>

----------------------------------------------------------------------------
Recv(t) == \/ Yield(t) \/ Clear(t) \/ Check(t) \/ Register(t) \/ MarkBlocked(t)
           \/ Copy(t) \/ Consume(t) \/ Reset(t)

Next ==
  \/ \E t \in Callers :
       \/ \E s \in Sockets : \/ Create(t, s) \/ Connect(t, s) \/ Close(t, s)
                             \/ \E p \in Ports : Bind(t, s, p)
                             \/ \E n \in Wants : RecvCall(t, s, n)
       \/ Exit(t) \/ Recv(t)
  \/ \E u \in Callers \cup {Idle} : Preempt(u)
  \/ KeepRunning
  \/ \E p \in Ports \cup {0}, n \in Lengths : Receive(p, n)

Spec == Init /\ [][Next]_vars

(* Round robin gives every READY thread the processor again and again (the
   property ReadyRuns of Scheduler), and a quantum of 10 ms is longer than any
   one statement of sock_recv. *)
FairSpec == /\ Spec
            /\ \A t \in Callers : SF_vars(Preempt(t)) /\ SF_vars(Recv(t))

----------------------------------------------------------------------------
TypeOK ==
  /\ current \in Callers \cup {Idle}
  /\ state    \in [Callers \cup {Idle} -> {"RUNNING", "READY", "BLOCKED", "DEAD"}]
  /\ pc       \in [Callers -> Places]
  /\ on       \in [Callers -> Sockets \cup {NoSocket}]
  /\ want     \in [Callers -> Wants \cup {0}]
  /\ copied   \in [Callers -> 0 .. BufSize]
  /\ active   \in Seq(Sockets)
  /\ st       \in [Sockets -> {"none", "closed", "bound", "connected", "freed"}]
  /\ owner    \in [Sockets -> Callers \cup {NoThread}]
  /\ port     \in [Sockets -> Ports \cup {0}]
  /\ len      \in [Sockets -> 0 .. BufSize]
  /\ rd       \in [Sockets -> Nat]
  /\ waiter   \in [Sockets -> Callers \cup {NoThread}]
  /\ handlers \in 0 .. MaxHandlers

InRecv(t) == pc[t] # "user"

(* No two sockets are bound to one port, across binding again, closing and
   exiting: the search of the receive handler has one possible answer. *)
PortsUnique ==
  \A i, j \in 1 .. Len(active) :
    port[active[i]] # 0 /\ port[active[i]] = port[active[j]] => i = j

(* What the receive interrupt and a blocked call point to is still there: the
   waiter of a listed socket is alive and inside sock_recv on that very socket, and
   a socket some thread is receiving on has not been freed. *)
NothingFreedInUse ==
  /\ \A s \in Sockets : IsActive(s) <=> st[s] \in {"closed", "bound", "connected"}
  /\ \A t \in Callers : InRecv(t) => state[t] # "DEAD" /\ Mine(t, on[t])
  /\ \A s \in Sockets : waiter[s] # NoThread =>
       IsActive(s) /\ InRecv(waiter[s]) /\ on[waiter[s]] = s

(* The two above: a datagram has one socket to go to, and it is there. *)
SocketsSound == PortsUnique /\ NothingFreedInUse

(* A thread left BLOCKED in schedule() is registered with its socket, whose
   buffer is empty: the next datagram will wake it.  This is the first round of
   the loop; a thread that an empty datagram woke goes through it with interrupts
   on and may sleep with data in its buffer. *)
SleepersRegistered ==
  \A t \in Callers :
    pc[t] = "asleep" /\ state[t] = "BLOCKED" => waiter[on[t]] = t /\ len[on[t]] = 0

(* A thread sleeping in sock_recv on a socket that has data returns (again in
   the first round). *)
RecvReturns ==
  \A t \in Callers : (pc[t] = "asleep" /\ len[on[t]] > 0) ~> (pc[t] = "user")

(* "Copy data to the end of the circular buffer": the unread bytes of the
   buffer are those accepted and not yet read, in order. *)
StreamIntact ==
  \A s \in Sockets : \A i \in 0 .. len[s] - 1 :
    (\A t \in Callers : ~(pc[t] = "reset" /\ on[t] = s)) /\ rd[s] + i < BufSize
      => buf[s][rd[s] + i] = consumed[s] + 1 + i

=============================================================================
