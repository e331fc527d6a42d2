---------------------------- MODULE SocketProofs ----------------------------
(***************************************************************************)
(* Proofs about the sockets for any set of threads, sockets and ports, any *)
(* buffer size and any lengths.                                            *)
(*                                                                         *)
(* The argument: a socket has one owner for life, and only its owner       *)
(* receives on it, so the calls of two threads never touch one socket      *)
(* (InRecv(t) => Mine(t, on[t]), part of NothingFreedInUse).  waiting_     *)
(* thread names a thread only while that thread is between its             *)
(* registration and its return from schedule() (InvWaiter): it is gone     *)
(* before the call ends and the descriptor may be closed.  From the test   *)
(* of recv_data_len to schedule() nothing else runs (InvSleep), which is   *)
(* why no datagram is missed in the first round of the loop.               *)
(***************************************************************************)
EXTENDS Socket, ListFacts

Waiting == {"sleep", "asleep", "asleep again", "mark", "yield"}

InvList ==
  /\ \A i, j \in 1 .. Len(active) : active[i] = active[j] => i = j
  /\ \A s \in Sockets : st[s] = "none" => port[s] = 0

InvWaiter == \A s \in Sockets : waiter[s] # NoThread => pc[waiter[s]] \in Waiting

InvSleep ==
  \A t \in Callers : pc[t] = "sleep" =>
    current = t /\ state[t] = "BLOCKED" /\ waiter[on[t]] = t /\ len[on[t]] = 0

InvCopied == \A t \in Callers : pc[t] = "consume" => copied[t] <= len[on[t]]

InvAlive == state[current] # "DEAD"

IInv ==
  /\ TypeOK /\ InvList /\ InvWaiter /\ InvSleep /\ InvCopied /\ InvAlive
  /\ SocketsSound /\ SleepersRegistered

----------------------------------------------------------------------------
(* The socket a datagram is given to is listed. *)
LEMMA ForPortListed ==
  ASSUME active \in Seq(Sockets), NEW p, ForPort(p) # 0
  PROVE  active[ForPort(p)] \in Sockets /\ IsActive(active[ForPort(p)])
<1> DEFINE I == {i \in 1 .. Len(active) : port[active[i]] = p}
<1>1. Len(active) \in Nat
  BY LenProperties
<1>2. I # {} /\ ForPort(p) = Min(I)
  BY DEF ForPort, SelectInSeq
<1>3. ForPort(p) \in I
  <2> HIDE DEF I
  <2>1. I \in SUBSET (1 .. Len(active))
    BY DEF I
  <2> QED BY <1>1, <1>2, <2>1, SearchLemma
<1> QED
  BY <1>3, ElementOfSeq DEF IsActive, Contains

(* Putting a socket at the head of the list adds it and nothing else. *)
LEMMA LinkedMembers ==
  ASSUME active \in Seq(Sockets), NEW s \in Sockets, active' = <<s>> \o active
  PROVE  /\ active' \in Seq(Sockets) /\ Len(active') = Len(active) + 1
         /\ active'[1] = s
         /\ \A i \in 2 .. Len(active') : active'[i] = active[i - 1]
         /\ \A u : IsActive(u)' <=> IsActive(u) \/ u = s
<1>1. /\ active' \in Seq(Sockets) /\ Len(active') = Len(active) + 1
      /\ active'[1] = s
      /\ \A i \in 2 .. Len(active') : active'[i] = active[i - 1]
  BY ConsItems
<1>2. \A u : Contains(active', u) <=> Contains(active, u) \/ u = s
  BY ConsMembers
<1> QED
  BY <1>1, <1>2 DEF IsActive

(* Unlinking a socket of a list without repetitions removes it and nothing else. *)
LEMMA UnlinkedMembers ==
  ASSUME active \in Seq(Sockets), NEW s \in Sockets, IsActive(s),
         \A i, j \in 1 .. Len(active) : active[i] = active[j] => i = j,
         active' = RemoveFirst(active, s)
  PROVE  /\ active' \in Seq(Sockets)
         /\ \A u : IsActive(u)' <=> IsActive(u) /\ u # s
         /\ \E k \in 1 .. Len(active) :
              /\ Len(active') = Len(active) - 1
              /\ \A i \in 1 .. Len(active') : active'[i] = active[IF i < k THEN i ELSE i + 1]
<1>1. Contains(active, s)
  BY DEF IsActive
<1>2. /\ active' \in Seq(Sockets)
      /\ Len(active') = Len(active) - 1
      /\ \E k \in 1 .. Len(active) :
           \A i \in 1 .. Len(active') : active'[i] = active[IF i < k THEN i ELSE i + 1]
  <2> DEFINE r == RemoveFirst(active, s)
  <2>1. /\ r \in Seq(Sockets) /\ Len(r) = Len(active) - 1
        /\ \E k \in 1 .. Len(active) :
             /\ active[k] = s
             /\ \A i \in 1 .. Len(r) : r[i] = active[IF i < k THEN i ELSE i + 1]
    BY <1>1, RemoveFirstItems
  <2>2. active' = r
    OBVIOUS
  <2> HIDE DEF r
  <2> QED BY <2>1, <2>2
<1>3. \A u : u # s => (Contains(active', u) <=> Contains(active, u))
  BY <1>1, RemoveFirstMembers
<1>4. ~Contains(active', s)
  BY <1>1, RemoveFirstOnce
<1> QED
  BY <1>1, <1>2, <1>3, <1>4 DEF IsActive

----------------------------------------------------------------------------
LEMMA InitInv == Init => IInv
<1> SUFFICES ASSUME Init PROVE IInv
  OBVIOUS
<1>1. TypeOK
  BY SocketAssumption, EmptySeq DEF Init, TypeOK, Places
<1>2. 1 .. Len(active) = {}
  BY EmptySeq DEF Init
<1>3. InvList /\ InvWaiter /\ InvSleep /\ InvCopied /\ InvAlive
  BY <1>2, SocketAssumption DEF Init, InvList, InvWaiter, InvSleep, InvCopied, InvAlive
<1>4. SocketsSound /\ SleepersRegistered
  BY <1>2 DEF Init, SocketsSound, PortsUnique, NothingFreedInUse, SleepersRegistered, InRecv,
              IsActive, Contains
<1> QED
  BY <1>1, <1>3, <1>4 DEF IInv

(* The types of the variables the calls change. *)
LEMMA TypeFacts ==
  ASSUME IInv
  PROVE  /\ pc \in [Callers -> Places] /\ on \in [Callers -> Sockets \cup {NoSocket}]
         /\ state \in [Callers \cup {Idle} -> {"RUNNING", "READY", "BLOCKED", "DEAD"}]
         /\ want \in [Callers -> Wants \cup {0}] /\ copied \in [Callers -> 0 .. BufSize]
         /\ len \in [Sockets -> 0 .. BufSize] /\ rd \in [Sockets -> Nat]
         /\ waiter \in [Sockets -> Callers \cup {NoThread}]
         /\ \A n \in Wants : n \in Nat
         /\ BufSize \in Nat /\ NoThread \notin Callers /\ NoSocket \notin Sockets
BY SocketAssumption DEF IInv, TypeOK

(* A call has its socket to itself, and only its own thread is the waiter there. *)
LEMMA CallFacts ==
  ASSUME IInv
  PROVE  /\ \A t \in Callers : InRecv(t) =>
              on[t] \in Sockets /\ IsActive(on[t]) /\ owner[on[t]] = t /\ state[t] # "DEAD"
         /\ \A t, u \in Callers : InRecv(t) /\ InRecv(u) /\ on[t] = on[u] => t = u
         /\ \A s \in Sockets : waiter[s] # NoThread =>
              waiter[s] \in Callers /\ IsActive(s) /\ InRecv(waiter[s]) /\ on[waiter[s]] = s
                /\ owner[s] = waiter[s]
<1>1. ASSUME NEW t \in Callers, InRecv(t)
      PROVE  on[t] \in Sockets /\ IsActive(on[t]) /\ owner[on[t]] = t /\ state[t] # "DEAD"
  <2>1. state[t] # "DEAD" /\ IsActive(on[t]) /\ owner[on[t]] = t
    BY <1>1 DEF IInv, SocketsSound, NothingFreedInUse, Mine
  <2>2. on[t] \in Sockets
    BY <2>1, ElementOfSeq DEF IInv, TypeOK, IsActive, Contains
  <2> QED BY <2>1, <2>2
<1>2. ASSUME NEW s \in Sockets, waiter[s] # NoThread
      PROVE  waiter[s] \in Callers /\ IsActive(s) /\ InRecv(waiter[s]) /\ on[waiter[s]] = s
  BY <1>2 DEF IInv, TypeOK, SocketsSound, NothingFreedInUse
<1> QED
  BY <1>1, <1>2

(* A socket that is created, bound, connected or closed. *)
LEMMA CreateInv ==
  ASSUME IInv, NEW t \in Callers, NEW s \in Sockets, Create(t, s)
  PROVE  IInv'
<1>1. /\ active' \in Seq(Sockets) /\ Len(active') = Len(active) + 1
      /\ active'[1] = s
      /\ \A i \in 2 .. Len(active') : active'[i] = active[i - 1]
      /\ \A u : IsActive(u)' <=> IsActive(u) \/ u = s
  BY LinkedMembers DEF IInv, TypeOK, Create
<1>2. ~IsActive(s) /\ port[s] = 0
  BY DEF IInv, SocketsSound, NothingFreedInUse, Create, InvList
<1>3. \A i \in 1 .. Len(active) : active[i] # s
  BY <1>2 DEF IsActive, Contains
<1>4. Len(active) \in Nat /\ \A i \in 2 .. Len(active') : i - 1 \in 1 .. Len(active)
  BY <1>1, LenProperties DEF IInv, TypeOK
<1>5. UNCHANGED <<threadVars, cpuVars, bufVars, port, handlers, waiter>>
  BY DEF Create
<1>6. TypeOK'
  BY <1>1, <1>5 DEF IInv, TypeOK, Create, threadVars, cpuVars, bufVars
<1>7. InvList'
  <2>1. ASSUME NEW i \in 1 .. Len(active'), NEW j \in 1 .. Len(active'), active'[i] = active'[j]
        PROVE  i = j
    <3>1. CASE i = 1 /\ j = 1
      BY <3>1
    <3>2. CASE i # 1 /\ j # 1
      <4>1. i - 1 = j - 1
        BY <1>1, <1>4, <2>1, <3>2 DEF IInv, InvList
      <4> QED BY <4>1
    <3>3. CASE i = 1 /\ j # 1
      BY <1>1, <1>3, <1>4, <2>1, <3>3
    <3>4. CASE i # 1 /\ j = 1
      BY <1>1, <1>3, <1>4, <2>1, <3>4
    <3> QED BY <3>1, <3>2, <3>3, <3>4
  <2>2. \A u \in Sockets : st'[u] = "none" => port'[u] = 0
    BY DEF IInv, InvList, TypeOK, Create
  <2> QED BY <2>1, <2>2 DEF InvList
<1>8. InvWaiter' /\ InvSleep' /\ InvCopied' /\ InvAlive' /\ SleepersRegistered'
  BY <1>5 DEF IInv, InvWaiter, InvSleep, InvCopied, InvAlive, SleepersRegistered, threadVars,
              cpuVars, bufVars
<1>9. PortsUnique'
  <2>1. ASSUME NEW i \in 1 .. Len(active'), NEW j \in 1 .. Len(active'),
               port[active'[i]] # 0, port[active'[i]] = port[active'[j]]
        PROVE  i = j
    <3>1. i # 1 /\ j # 1
      BY <1>1, <1>2, <2>1
    <3>2. i - 1 = j - 1
      BY <1>1, <1>4, <2>1, <3>1 DEF IInv, SocketsSound, PortsUnique
    <3> QED BY <3>2
  <2> QED BY <1>5, <2>1 DEF PortsUnique
<1>10. NothingFreedInUse'
  <2>1. \A u \in Sockets : IsActive(u)' <=> st'[u] \in {"closed", "bound", "connected"}
    BY <1>1 DEF IInv, TypeOK, SocketsSound, NothingFreedInUse, Create
  <2>2. ASSUME NEW u \in Callers, InRecv(u)' PROVE state'[u] # "DEAD" /\ Mine(u, on[u])'
    <3>1. InRecv(u)
      BY <1>5, <2>2 DEF InRecv, threadVars
    <3>2. on[u] \in Sockets /\ IsActive(on[u]) /\ owner[on[u]] = u /\ state[u] # "DEAD"
      BY <3>1, CallFacts
    <3>3. owner'[on[u]] = owner[on[u]]
      BY <1>2, <3>2 DEF IInv, TypeOK, Create
    <3> QED BY <1>1, <1>5, <3>2, <3>3 DEF Mine, threadVars, cpuVars
  <2>3. ASSUME NEW u \in Sockets, waiter'[u] # NoThread
        PROVE  IsActive(u)' /\ InRecv(waiter[u])' /\ on'[waiter'[u]] = u
    BY <1>1, <1>5, <2>3, CallFacts DEF InRecv, threadVars
  <2> QED BY <1>5, <2>1, <2>2, <2>3 DEF NothingFreedInUse, InRecv, threadVars
<1> QED
  BY <1>6, <1>7, <1>8, <1>9, <1>10 DEF IInv, SocketsSound

(* Connecting and binding keep the invariant. *)
LEMMA BindInv ==
  ASSUME IInv, NEW t \in Callers, NEW s \in Sockets,
         Connect(t, s) \/ \E p \in Ports : Bind(t, s, p)
  PROVE  IInv'
<1>1. /\ IsActive(s)
      /\ UNCHANGED <<threadVars, cpuVars, bufVars, active, owner, waiter>>
      /\ \A u : IsActive(u)' <=> IsActive(u)
  BY DEF Connect, Bind, Mine, sockVars, IsActive
<1>2. /\ \A u \in Sockets \ {s} : st'[u] = st[u] /\ port'[u] = port[u]
      /\ st'[s] \in {"bound", "connected"}
      /\ st' \in [Sockets -> {"none", "closed", "bound", "connected", "freed"}]
      /\ port' \in [Sockets -> Ports \cup {0}]
      /\ handlers' \in 0 .. MaxHandlers
  <2>1. /\ st \in [Sockets -> {"none", "closed", "bound", "connected", "freed"}]
        /\ port \in [Sockets -> Ports \cup {0}] /\ handlers \in 0 .. MaxHandlers
    BY DEF IInv, TypeOK
  <2>2. CASE Connect(t, s)
    BY <2>1, <2>2 DEF Connect
  <2>3. ASSUME NEW p \in Ports, Bind(t, s, p)
        PROVE  /\ st' = [st EXCEPT ![s] = "bound"] /\ port' = [port EXCEPT ![s] = p]
               /\ handlers' \in 0 .. MaxHandlers
    BY <2>1, <2>3, SocketAssumption DEF Bind, Registered
  <2> QED BY <2>1, <2>2, <2>3
<1>3. TypeOK'
  BY <1>1, <1>2 DEF IInv, TypeOK, threadVars, cpuVars, bufVars
<1>4. InvList'
  BY <1>1, <1>2 DEF IInv, InvList
<1>5. InvWaiter' /\ InvSleep' /\ InvCopied' /\ InvAlive' /\ SleepersRegistered'
  BY <1>1 DEF IInv, InvWaiter, InvSleep, InvCopied, InvAlive, SleepersRegistered, threadVars,
              cpuVars, bufVars
<1>6. PortsUnique'
  <2>1. CASE Connect(t, s)
    BY <2>1 DEF IInv, SocketsSound, PortsUnique, Connect
  <2>2. ASSUME NEW p \in Ports, Bind(t, s, p) PROVE PortsUnique'
    <3>1. ASSUME NEW i \in 1 .. Len(active), NEW j \in 1 .. Len(active),
                 port'[active[i]] # 0, port'[active[i]] = port'[active[j]]
          PROVE  i = j
      <4>1. active[i] \in Sockets /\ active[j] \in Sockets
        BY ElementOfSeq DEF IInv, TypeOK
      <4>2. \A u \in Sockets : port'[u] = IF u = s THEN p ELSE port[u]
        BY <2>2 DEF Bind, IInv, TypeOK
      <4>3. \A k \in 1 .. Len(active) : active[k] # s => port[active[k]] # p
        BY <2>2 DEF Bind, InUse
      <4>4. CASE active[i] = s
        BY <3>1, <4>1, <4>2, <4>3, <4>4 DEF IInv, InvList
      <4>5. CASE active[i] # s
        BY <3>1, <4>1, <4>2, <4>3, <4>5 DEF IInv, SocketsSound, PortsUnique
      <4> QED BY <4>4, <4>5
    <3> QED BY <1>1, <3>1 DEF PortsUnique
  <2> QED BY <2>1, <2>2
<1>7. NothingFreedInUse'
  <2>1. \A u \in Sockets : IsActive(u)' <=> st'[u] \in {"closed", "bound", "connected"}
    BY <1>1, <1>2 DEF IInv, SocketsSound, NothingFreedInUse
  <2> QED
    BY <1>1, <2>1 DEF IInv, SocketsSound, NothingFreedInUse, InRecv, Mine, threadVars, cpuVars
<1> QED
  BY <1>3, <1>4, <1>5, <1>6, <1>7 DEF IInv, SocketsSound

(* Closing a socket keeps the invariant. *)
LEMMA CloseInv ==
  ASSUME IInv, NEW t \in Callers, NEW s \in Sockets, Close(t, s)
  PROVE  IInv'
<1>1. /\ active' \in Seq(Sockets)
      /\ \A u : IsActive(u)' <=> IsActive(u) /\ u # s
      /\ \E k \in 1 .. Len(active) :
              /\ Len(active') = Len(active) - 1
              /\ \A i \in 1 .. Len(active') : active'[i] = active[IF i < k THEN i ELSE i + 1]
  BY UnlinkedMembers DEF IInv, TypeOK, InvList, Close, Mine
<1>2. /\ pc[t] = "user" /\ owner[s] = t
      /\ UNCHANGED <<threadVars, cpuVars, bufVars, owner, port, handlers, waiter>>
  BY DEF Close, At, Mine
<1>3. PICK k \in 1 .. Len(active) :
              /\ Len(active') = Len(active) - 1
              /\ \A i \in 1 .. Len(active') : active'[i] = active[IF i < k THEN i ELSE i + 1]
  BY <1>1
<1>4. /\ \A i \in 1 .. Len(active') : (IF i < k THEN i ELSE i + 1) \in 1 .. Len(active)
      /\ \A i, j \in 1 .. Len(active') :
           (IF i < k THEN i ELSE i + 1) = (IF j < k THEN j ELSE j + 1) => i = j
  <2>1. Len(active) \in Nat
    BY LenProperties DEF IInv, TypeOK
  <2> QED BY <1>3, <2>1
<1>5. TypeOK'
  BY <1>1, <1>2 DEF IInv, TypeOK, Close, threadVars, cpuVars, bufVars
<1>6. InvList'
  <2>1. ASSUME NEW i \in 1 .. Len(active'), NEW j \in 1 .. Len(active'), active'[i] = active'[j]
        PROVE  i = j
    BY <1>3, <1>4, <2>1 DEF IInv, InvList
  <2>2. \A u \in Sockets : st'[u] = "none" => port'[u] = 0
    BY DEF IInv, InvList, TypeOK, Close
  <2> QED BY <2>1, <2>2 DEF InvList
<1>7. InvWaiter' /\ InvSleep' /\ InvCopied' /\ InvAlive' /\ SleepersRegistered'
  BY <1>2 DEF IInv, InvWaiter, InvSleep, InvCopied, InvAlive, SleepersRegistered, threadVars,
              cpuVars, bufVars
<1>8. PortsUnique'
  <2>1. ASSUME NEW i \in 1 .. Len(active'), NEW j \in 1 .. Len(active'),
               port[active'[i]] # 0, port[active'[i]] = port[active'[j]]
        PROVE  i = j
    BY <1>3, <1>4, <2>1 DEF IInv, SocketsSound, PortsUnique
  <2> QED BY <1>2, <2>1 DEF PortsUnique
<1>9. NothingFreedInUse'
  <2>1. \A u \in Sockets : IsActive(u)' <=> st'[u] \in {"closed", "bound", "connected"}
    <3>1. \A u \in Sockets : IsActive(u) <=> st[u] \in {"closed", "bound", "connected"}
      BY DEF IInv, SocketsSound, NothingFreedInUse
    <3>2. \A u \in Sockets : st'[u] = IF u = s THEN "freed" ELSE st[u]
      BY DEF Close, IInv, TypeOK
    <3> QED BY <1>1, <3>1, <3>2
  <2>2. ASSUME NEW u \in Callers, InRecv(u) PROVE IsActive(on[u])'
    <3>1. on[u] \in Sockets /\ IsActive(on[u]) /\ owner[on[u]] = u
      BY <2>2, CallFacts
    <3>2. on[u] # s
      BY <1>2, <2>2, <3>1 DEF InRecv
    <3> QED BY <1>1, <1>2, <3>1, <3>2 DEF threadVars
  <2>3. ASSUME NEW u \in Sockets, waiter[u] # NoThread PROVE IsActive(u)'
    <3>1. /\ waiter[u] \in Callers /\ IsActive(u) /\ InRecv(waiter[u]) /\ owner[u] = waiter[u]
      BY <2>3, CallFacts
    <3> QED BY <1>1, <1>2, <3>1 DEF InRecv
  <2> QED
    BY <1>2, <2>1, <2>2, <2>3
       DEF IInv, SocketsSound, NothingFreedInUse, InRecv, Mine, threadVars, cpuVars
<1> QED
  BY <1>5, <1>6, <1>7, <1>8, <1>9 DEF IInv, SocketsSound

----------------------------------------------------------------------------
(* The processor changes hands among the threads that can run. *)
LEMMA GiveFacts ==
  ASSUME TypeOK, NEW u \in Callers \cup {Idle}, CPU!Give(u)
  PROVE  /\ current' = u
         /\ state' \in [Callers \cup {Idle} -> {"RUNNING", "READY", "BLOCKED", "DEAD"}]
         /\ state'[u] = "RUNNING"
         /\ \A v \in Callers \cup {Idle} : \A x \in {"BLOCKED", "DEAD"} :
              state'[v] = x <=> state[v] = x
  BY DEF TypeOK, CPU!Give

(* Whether a socket is listed and whose it is, when neither changes. *)
LEMMA SameSockets ==
  ASSUME UNCHANGED sockVars
  PROVE  /\ \A s : IsActive(s)' <=> IsActive(s)
         /\ PortsUnique' <=> PortsUnique
         /\ InvList' <=> InvList
  BY DEF sockVars, IsActive, PortsUnique, InvList

(* NothingFreedInUse when the list does not change: what is left to show is
   about the threads. *)
LEMMA StillInUse ==
  ASSUME IInv, UNCHANGED sockVars,
         \A t \in Callers : InRecv(t)' =>
           state'[t] # "DEAD" /\ on'[t] \in Sockets /\ IsActive(on'[t]) /\ owner[on'[t]] = t,
         \A s \in Sockets : waiter'[s] # NoThread =>
           IsActive(s) /\ InRecv(waiter[s])' /\ on'[waiter'[s]] = s
  PROVE  SocketsSound'
<1>1. \A s : IsActive(s)' <=> IsActive(s)
  BY SameSockets
<1>2. \A s \in Sockets : IsActive(s)' <=> st'[s] \in {"closed", "bound", "connected"}
  BY <1>1 DEF IInv, SocketsSound, NothingFreedInUse, sockVars
<1>3. ASSUME NEW t \in Callers, InRecv(t)' PROVE state'[t] # "DEAD" /\ Mine(t, on[t])'
  BY <1>1, <1>3 DEF Mine, sockVars
<1>4. ASSUME NEW s \in Sockets, waiter'[s] # NoThread
      PROVE  IsActive(s)' /\ InRecv(waiter[s])' /\ on'[waiter'[s]] = s
  BY <1>1, <1>4
<1>5. NothingFreedInUse'
  BY <1>2, <1>3, <1>4 DEF NothingFreedInUse
<1>6. PortsUnique'
  BY SameSockets DEF IInv, SocketsSound
<1> QED
  BY <1>5, <1>6 DEF SocketsSound

(* The steps of the timer, and a thread that exits. *)
LEMMA SwitchInv ==
  ASSUME IInv, (\E u \in Callers \cup {Idle} : Preempt(u)) \/ \E t \in Callers : Exit(t)
  PROVE  IInv'
<1>1. UNCHANGED <<threadVars, bufVars, sockVars, waiter>>
  BY DEF Preempt, Exit
<1>2. /\ current' \in Callers \cup {Idle}
      /\ state' \in [Callers \cup {Idle} -> {"RUNNING", "READY", "BLOCKED", "DEAD"}]
      /\ state'[current'] # "DEAD"
      /\ \A v \in Callers : InRecv(v) => (state'[v] = "DEAD" <=> state[v] = "DEAD")
      /\ \A v \in Callers : InRecv(v) => (state'[v] = "BLOCKED" <=> state[v] = "BLOCKED")
  <2>1. ASSUME NEW u \in Callers \cup {Idle}, Preempt(u) PROVE <1>2!1 /\ <1>2!2 /\ <1>2!3 /\ <1>2!4 /\ <1>2!5
    BY <2>1, GiveFacts DEF IInv, Preempt
  <2>2. ASSUME NEW t \in Callers, Exit(t) PROVE <1>2!1 /\ <1>2!2 /\ <1>2!3 /\ <1>2!4 /\ <1>2!5
    BY <2>2 DEF IInv, TypeOK, Exit, At, InRecv
  <2> QED BY <2>1, <2>2
<1>3. \A v \in Callers : pc[v] # "sleep"
  <2>1. ASSUME NEW v \in Callers, pc[v] = "sleep" PROVE current = v
    BY <2>1 DEF IInv, InvSleep
  <2>2. ASSUME NEW u \in Callers \cup {Idle}, Preempt(u), NEW v \in Callers PROVE pc[v] # "sleep"
    BY <2>1, <2>2 DEF Preempt, InterruptsOn, At
  <2>3. ASSUME NEW t \in Callers, Exit(t), NEW v \in Callers PROVE pc[v] # "sleep"
    BY <2>1, <2>3 DEF Exit, At
  <2> QED BY <2>2, <2>3
<1>4. TypeOK'
  BY <1>1, <1>2 DEF IInv, TypeOK, threadVars, bufVars, sockVars
<1>5. InvList'
  BY <1>1, SameSockets DEF IInv
<1>6. InvWaiter' /\ InvCopied'
  BY <1>1 DEF IInv, InvWaiter, InvCopied, threadVars, bufVars
<1>7. InvSleep' /\ InvAlive'
  BY <1>1, <1>2, <1>3 DEF InvSleep, InvAlive, threadVars
<1>8. SleepersRegistered'
  BY <1>1, <1>2 DEF IInv, SleepersRegistered, InRecv, threadVars, bufVars
<1>9. SocketsSound'
  BY <1>1, <1>2, CallFacts, StillInUse DEF InRecv, threadVars
<1> QED
  BY <1>4, <1>5, <1>6, <1>7, <1>8, <1>9 DEF IInv

(* A call that finds the buffer empty registers; one that does not, reads. *)
LEMMA RecvCallInv ==
  ASSUME IInv, NEW t \in Callers, NEW s \in Sockets, NEW n \in Wants, RecvCall(t, s, n)
  PROVE  IInv'
<1>1. /\ current = t /\ pc[t] = "user" /\ IsActive(s) /\ owner[s] = t
      /\ UNCHANGED sockVars
  BY DEF RecvCall, At, Mine
<1>2. CASE len[s] = 0
  <2>1. /\ on' = [on EXCEPT ![t] = s] /\ want' = [want EXCEPT ![t] = n]
        /\ waiter' = [waiter EXCEPT ![s] = t] /\ state' = [state EXCEPT ![t] = "BLOCKED"]
        /\ pc' = [pc EXCEPT ![t] = "sleep"]
        /\ UNCHANGED <<bufVars, current, copied>>
    BY <1>2 DEF RecvCall, GoTo
  <2>2. TypeOK'
    BY <1>1, <2>1 DEF IInv, TypeOK, Places, bufVars, sockVars
  <2>3. InvList'
    BY <1>1, SameSockets DEF IInv
  <2>4. InvWaiter'
    BY <2>1 DEF IInv, TypeOK, InvWaiter, Waiting
  <2>5. InvSleep'
    BY <1>1, <1>2, <2>1 DEF IInv, TypeOK, InvSleep, bufVars
  <2>6. InvCopied' /\ InvAlive'
    BY <1>1, <2>1 DEF IInv, TypeOK, InvCopied, InvAlive, bufVars
  <2>7. SleepersRegistered'
    <3>1. ASSUME NEW u \in Callers, pc'[u] = "asleep", state'[u] = "BLOCKED"
          PROVE  waiter'[on'[u]] = u /\ len'[on'[u]] = 0
      <4>1. u # t /\ pc[u] = "asleep" /\ state[u] = "BLOCKED" /\ on'[u] = on[u]
        BY <2>1, <3>1 DEF IInv, TypeOK
      <4>2. waiter[on[u]] = u /\ len[on[u]] = 0
        BY <4>1 DEF IInv, SleepersRegistered
      <4>3. on[u] \in Sockets /\ owner[on[u]] = u
        BY <4>1, CallFacts DEF InRecv
      <4> QED BY <1>1, <2>1, <4>1, <4>2, <4>3 DEF IInv, TypeOK, bufVars
    <3> QED BY <3>1 DEF SleepersRegistered
  <2>8. SocketsSound'
    <3>1. ASSUME NEW u \in Callers, InRecv(u)'
          PROVE  state'[u] # "DEAD" /\ on'[u] \in Sockets /\ IsActive(on'[u]) /\ owner[on'[u]] = u
      BY <1>1, <2>1, <3>1, CallFacts DEF IInv, TypeOK, InRecv
    <3>2. ASSUME NEW u \in Sockets, waiter'[u] # NoThread
          PROVE  IsActive(u) /\ InRecv(waiter[u])' /\ on'[waiter'[u]] = u
      <4>1. CASE u = s
        BY <1>1, <2>1, <4>1 DEF IInv, TypeOK, InRecv
      <4>2. CASE u # s
        <5>1. waiter'[u] = waiter[u]
          BY <2>1, <4>2 DEF IInv, TypeOK
        <5>2. waiter[u] \in Callers /\ IsActive(u) /\ pc[waiter[u]] # "user" /\ on[waiter[u]] = u
          BY <3>2, <5>1, CallFacts DEF InRecv
        <5>3. waiter[u] # t
          BY <1>1, <5>2
        <5> QED BY <2>1, <5>1, <5>2, <5>3 DEF IInv, TypeOK, InRecv
      <4> QED BY <4>1, <4>2
    <3> QED BY <1>1, <3>1, <3>2, StillInUse
  <2> QED BY <2>2, <2>3, <2>4, <2>5, <2>6, <2>7, <2>8 DEF IInv
<1>3. CASE len[s] # 0
  <2> DEFINE k == IF n > len[s] THEN len[s] ELSE n
  <2>1. /\ len' = [len EXCEPT ![s] = @ - k]
        /\ rd' = [rd EXCEPT ![s] = IF len[s] = k THEN 0 ELSE @ + k]
        /\ UNCHANGED <<buf, accepted, waiter, cpuVars, threadVars>>
    BY <1>3 DEF RecvCall
  <2>2. k \in Nat /\ k <= len[s] /\ len[s] \in 0 .. BufSize
    BY SocketAssumption DEF IInv, TypeOK
  <2> HIDE DEF k
  <2>3. TypeOK'
    <3>1. len' \in [Sockets -> 0 .. BufSize] /\ rd' \in [Sockets -> Nat]
      BY <2>1, <2>2, SocketAssumption DEF IInv, TypeOK
    <3> QED BY <1>1, <2>1, <3>1 DEF IInv, TypeOK, cpuVars, threadVars, sockVars
  <2>4. InvList'
    BY <1>1, SameSockets DEF IInv
  <2>5. InvWaiter' /\ InvAlive'
    BY <2>1 DEF IInv, InvWaiter, InvAlive, threadVars, cpuVars
  <2>6. ASSUME NEW u \in Callers, InRecv(u) PROVE len'[on[u]] = len[on[u]]
    <3>1. on[u] \in Sockets /\ owner[on[u]] = u /\ u # t
      BY <1>1, <2>6, CallFacts DEF InRecv
    <3> QED BY <1>1, <2>1, <3>1 DEF IInv, TypeOK
  <2>7. InvSleep' /\ InvCopied' /\ SleepersRegistered'
    BY <2>1, <2>6 DEF IInv, InvSleep, InvCopied, SleepersRegistered, InRecv, threadVars, cpuVars
  <2>8. SocketsSound'
    BY <1>1, <2>1, CallFacts, StillInUse DEF InRecv, threadVars, cpuVars
  <2> QED BY <2>3, <2>4, <2>5, <2>7, <2>8 DEF IInv
<1> QED
  BY <1>2, <1>3

(* schedule(), called by the thread itself. *)
LEMMA YieldInv ==
  ASSUME IInv, NEW t \in Callers, Yield(t)
  PROVE  IInv'
<1>1. /\ current = t /\ pc[t] \in {"sleep", "yield"}
      /\ pc' = [pc EXCEPT ![t] = IF pc[t] = "sleep" THEN "asleep" ELSE "asleep again"]
      /\ UNCHANGED <<on, want, copied, bufVars, sockVars, waiter>>
  BY DEF Yield, At, GoTo
<1>2. /\ current' \in Callers \cup {Idle}
      /\ state' \in [Callers \cup {Idle} -> {"RUNNING", "READY", "BLOCKED", "DEAD"}]
      /\ state'[current'] # "DEAD"
      /\ \A v \in Callers : \A x \in {"BLOCKED", "DEAD"} : state'[v] = x <=> state[v] = x
  <2>1. PICK u \in Callers \cup {Idle} : CPU!Give(u)
    BY DEF Yield
  <2> QED BY <2>1, GiveFacts DEF IInv
<1>3. \A v \in Callers : InRecv(v)' <=> InRecv(v)
  BY <1>1 DEF IInv, TypeOK, InRecv
<1>4. TypeOK'
  BY <1>1, <1>2 DEF IInv, TypeOK, Places, bufVars, sockVars
<1>5. InvList'
  BY <1>1, SameSockets DEF IInv
<1>6. InvWaiter' /\ InvCopied' /\ InvAlive'
  BY <1>1, <1>2 DEF IInv, TypeOK, InvWaiter, InvCopied, InvAlive, Waiting, bufVars
<1>7. InvSleep'
  BY <1>1 DEF IInv, TypeOK, InvSleep
<1>8. SleepersRegistered'
  <2>1. ASSUME NEW u \in Callers, pc'[u] = "asleep", state'[u] = "BLOCKED"
        PROVE  waiter[on[u]] = u /\ len[on[u]] = 0
    <3>1. state[u] = "BLOCKED" /\ pc[u] \in {"asleep", "sleep"}
      BY <1>1, <1>2, <2>1, TypeFacts
    <3> QED BY <3>1 DEF IInv, InvSleep, SleepersRegistered
  <2> QED BY <1>1, <2>1 DEF SleepersRegistered, bufVars
<1>9. SocketsSound'
  <2>1. ASSUME NEW s \in Sockets, waiter'[s] # NoThread
        PROVE  IsActive(s) /\ InRecv(waiter[s])' /\ on'[waiter'[s]] = s
    BY <1>1, <1>3, <2>1, CallFacts
  <2>2. ASSUME NEW u \in Callers, InRecv(u)'
        PROVE  state'[u] # "DEAD" /\ on'[u] \in Sockets /\ IsActive(on'[u]) /\ owner[on'[u]] = u
    BY <1>1, <1>2, <1>3, <2>2, CallFacts
  <2> QED BY <1>1, <2>1, <2>2, StillInUse
<1> QED
  BY <1>4, <1>5, <1>6, <1>7, <1>8, <1>9 DEF IInv

(* waiting_thread of the thread's own socket, set or cleared. *)
LEMMA RegisterInv ==
  ASSUME IInv, NEW t \in Callers, Clear(t) \/ Register(t)
  PROVE  IInv'
<1>1. /\ current = t /\ pc[t] \in {"asleep", "asleep again", "register"}
      /\ UNCHANGED <<cpuVars, on, want, copied, bufVars, sockVars>>
      /\ \/ waiter' = [waiter EXCEPT ![on[t]] = NoThread] /\ pc' = [pc EXCEPT ![t] = "check"]
         \/ waiter' = [waiter EXCEPT ![on[t]] = t] /\ pc' = [pc EXCEPT ![t] = "mark"]
  BY DEF Clear, Register, At, GoTo
<1> InRecv(t) /\ on[t] \in Sockets /\ IsActive(on[t]) /\ owner[on[t]] = t
  BY <1>1, CallFacts DEF InRecv
<1>2. /\ pc'[t] \in {"check", "mark"}
      /\ waiter'[on[t]] \in {NoThread, t}
      /\ waiter'[on[t]] = t => pc'[t] = "mark"
      /\ \A v \in Callers \ {t} : pc'[v] = pc[v]
      /\ \A s \in Sockets : s # on[t] => waiter'[s] = waiter[s]
      /\ \A v \in Callers : InRecv(v)' <=> InRecv(v)
      /\ pc' \in [Callers -> Places] /\ waiter' \in [Sockets -> Callers \cup {NoThread}]
  <2>1. pc'[t] \in {"check", "mark"} /\ \A v \in Callers \ {t} : pc'[v] = pc[v]
    BY <1>1, TypeFacts
  <2>2. /\ waiter'[on[t]] \in {NoThread, t}
        /\ waiter'[on[t]] = t => pc'[t] = "mark"
        /\ \A s \in Sockets : s # on[t] => waiter'[s] = waiter[s]
    BY <1>1, TypeFacts
  <2>3. \A v \in Callers : InRecv(v)' <=> InRecv(v)
    BY <1>1, <2>1 DEF InRecv
  <2>4. pc' \in [Callers -> Places] /\ waiter' \in [Sockets -> Callers \cup {NoThread}]
    BY <1>1, TypeFacts DEF Places
  <2> QED BY <2>1, <2>2, <2>3, <2>4
<1>3. \A v \in Callers \ {t} : InRecv(v) => waiter'[on[v]] = waiter[on[v]]
  BY <1>2, CallFacts
<1>4. ASSUME NEW s \in Sockets, waiter'[s] # NoThread
      PROVE  /\ IsActive(s) /\ waiter'[s] \in Callers /\ InRecv(waiter'[s]) /\ on[waiter'[s]] = s
             /\ pc'[waiter'[s]] \in Waiting
  <2>1. CASE s = on[t]
    BY <1>2, <1>4, <2>1, TypeFacts DEF Waiting
  <2>2. CASE s # on[t]
    <3>1. waiter'[s] = waiter[s] /\ waiter[s] # t
      BY <1>2, <1>4, <2>2, CallFacts
    <3>2. waiter[s] \in Callers /\ pc'[waiter[s]] = pc[waiter[s]]
      BY <1>2, <1>4, <3>1, TypeFacts
    <3> QED BY <1>4, <3>1, <3>2, CallFacts DEF IInv, InvWaiter
  <2> QED BY <2>1, <2>2
<1>5. TypeOK'
  BY <1>1, <1>2 DEF IInv, TypeOK, cpuVars, bufVars, sockVars
<1>6. InvList'
  BY <1>1, SameSockets DEF IInv
<1>7. InvWaiter'
  BY <1>4 DEF InvWaiter
<1>8. InvCopied' /\ InvAlive'
  BY <1>1 DEF IInv, TypeOK, InvCopied, InvAlive, bufVars, cpuVars
<1>9. InvSleep'
  BY <1>1, <1>2 DEF IInv, TypeOK, InvSleep
<1>10. SleepersRegistered'
  <2>1. ASSUME NEW u \in Callers, pc'[u] = "asleep", state[u] = "BLOCKED"
        PROVE  waiter'[on[u]] = u /\ len[on[u]] = 0
    <3>1. u # t /\ pc[u] = "asleep"
      BY <1>2, <2>1
    <3> QED BY <1>3, <2>1, <3>1 DEF IInv, SleepersRegistered, InRecv
  <2> QED BY <1>1, <2>1 DEF SleepersRegistered, bufVars, cpuVars
<1>11. SocketsSound'
  <2>1. ASSUME NEW s \in Sockets, waiter'[s] # NoThread
        PROVE  IsActive(s) /\ InRecv(waiter[s])' /\ on'[waiter'[s]] = s
    BY <1>1, <1>2, <1>4, <2>1
  <2> QED BY <1>1, <1>2, <2>1, CallFacts, StillInUse DEF cpuVars
<1> QED
  BY <1>5, <1>6, <1>7, <1>8, <1>9, <1>10, <1>11 DEF IInv

(* The thread marks itself BLOCKED, or looks at the length of the buffer. *)
LEMMA MarkInv ==
  ASSUME IInv, NEW t \in Callers, Check(t) \/ MarkBlocked(t) \/ Copy(t)
  PROVE  IInv'
<1>1. /\ current = t /\ pc[t] \in {"check", "mark", "copy"}
      /\ UNCHANGED <<current, on, want, bufVars, sockVars, waiter>>
      /\ pc' = [pc EXCEPT ![t] = pc'[t]]
      /\ pc'[t] \in {"register", "copy", "yield", "consume"}
      /\ pc[t] = "mark" <=> pc'[t] = "yield"
  BY DEF Check, MarkBlocked, Copy, At, GoTo, cpuVars, IInv, TypeOK
<1>2. /\ state' \in [Callers \cup {Idle} -> {"RUNNING", "READY", "BLOCKED", "DEAD"}]
      /\ \A v \in Callers \cup {Idle} : state'[v] = "DEAD" => state[v] = "DEAD"
      /\ \A v \in Callers \ {t} : state'[v] = state[v]
  BY DEF Check, MarkBlocked, Copy, cpuVars, IInv, TypeOK
<1>3. /\ copied' \in [Callers -> 0 .. BufSize]
      /\ \A v \in Callers \ {t} : copied'[v] = copied[v]
      /\ pc'[t] = "consume" => copied'[t] <= len[on[t]]
  <2>1. CASE Copy(t)
    <3>1. on[t] \in Sockets
      BY <1>1, CallFacts DEF InRecv
    <3>2. want[t] \in Nat /\ len[on[t]] \in 0 .. BufSize /\ BufSize \in Nat
      BY <3>1, TypeFacts
    <3>3. copied' = [copied EXCEPT ![t] = IF want[t] > len[on[t]] THEN len[on[t]] ELSE want[t]]
      BY <2>1 DEF Copy
    <3> QED BY <3>2, <3>3 DEF IInv, TypeOK
  <2>2. CASE Check(t) \/ MarkBlocked(t)
    BY <2>2 DEF Check, MarkBlocked, GoTo, IInv, TypeOK
  <2> QED BY <2>1, <2>2
<1>4. /\ \A v \in Callers : InRecv(v)' <=> InRecv(v)
      /\ \A v \in Callers \ {t} : pc'[v] = pc[v]
  BY <1>1 DEF IInv, TypeOK, InRecv
<1>5. TypeOK'
  <2>1. pc' \in [Callers -> Places]
    BY <1>1, TypeFacts DEF Places
  <2> QED BY <1>1, <1>2, <1>3, <2>1 DEF IInv, TypeOK, bufVars, sockVars
<1>6. InvList'
  BY <1>1, SameSockets DEF IInv
<1>7. InvWaiter'
  BY <1>1, <1>4 DEF IInv, TypeOK, InvWaiter, Waiting
<1>8. InvCopied' /\ InvAlive'
  BY <1>1, <1>2, <1>3, <1>4 DEF IInv, TypeOK, InvCopied, InvAlive, bufVars
<1>9. InvSleep'
  BY <1>1, <1>2, <1>4 DEF IInv, InvSleep
<1>10. SleepersRegistered'
  BY <1>1, <1>2, <1>4 DEF IInv, SleepersRegistered, bufVars
<1>11. SocketsSound'
  <2>1. ASSUME NEW s \in Sockets, waiter'[s] # NoThread
        PROVE  IsActive(s) /\ InRecv(waiter[s])' /\ on'[waiter'[s]] = s
    BY <1>1, <1>4, <2>1, CallFacts
  <2>2. ASSUME NEW u \in Callers, InRecv(u)'
        PROVE  state'[u] # "DEAD" /\ on'[u] \in Sockets /\ IsActive(on'[u]) /\ owner[on'[u]] = u
    BY <1>1, <1>2, <1>4, <2>2, CallFacts
  <2> QED BY <1>1, <2>1, <2>2, StillInUse
<1> QED
  BY <1>5, <1>6, <1>7, <1>8, <1>9, <1>10, <1>11 DEF IInv

(* The indexes move, and the call returns. *)
LEMMA ConsumeInv ==
  ASSUME IInv, NEW t \in Callers, Consume(t) \/ Reset(t)
  PROVE  IInv'
<1>1. /\ current = t /\ pc[t] \in {"consume", "reset"}
      /\ pc' = [pc EXCEPT ![t] = pc'[t]] /\ pc'[t] \in {"reset", "user"}
      /\ UNCHANGED <<cpuVars, sockVars, waiter>>
      /\ \A v \in Callers \ {t} : on'[v] = on[v] /\ copied'[v] = copied[v]
      /\ pc'[t] = "reset" => on'[t] = on[t]
  BY DEF Consume, Reset, At, GoTo, IInv, TypeOK
<1>2. InRecv(t) /\ on[t] \in Sockets /\ owner[on[t]] = t
  BY <1>1, CallFacts DEF InRecv
<1>3. len' \in [Sockets -> 0 .. BufSize] /\ rd' \in [Sockets -> Nat]
      /\ \A s \in Sockets : s # on[t] => len'[s] = len[s]
  <2>1. /\ copied[t] \in Nat /\ len[on[t]] \in 0 .. BufSize /\ BufSize \in Nat
        /\ pc[t] = "consume" => copied[t] <= len[on[t]]
    BY <1>2, SocketAssumption DEF IInv, TypeOK, InvCopied
  <2>2. CASE Consume(t)
    <3>1. /\ len' = [len EXCEPT ![on[t]] = @ - copied[t]] /\ rd' = [rd EXCEPT ![on[t]] = @ + copied[t]]
          /\ copied[t] <= len[on[t]]
      BY <2>1, <2>2 DEF Consume, At
    <3> QED BY <1>2, <2>1, <3>1, TypeFacts
  <2>3. CASE Reset(t)
    BY <2>3 DEF Reset, IInv, TypeOK
  <2> QED BY <2>2, <2>3
<1>4. /\ \A v \in Callers \ {t} : pc'[v] = pc[v] /\ (InRecv(v)' <=> InRecv(v))
      /\ \A v \in Callers \ {t} : InRecv(v) => len'[on[v]] = len[on[v]]
  <2>1. \A v \in Callers \ {t} : pc'[v] = pc[v] /\ (InRecv(v)' <=> InRecv(v))
    BY <1>1, TypeFacts DEF InRecv
  <2>2. \A v \in Callers \ {t} : InRecv(v) => len'[on[v]] = len[on[v]]
    BY <1>2, <1>3, CallFacts
  <2> QED BY <2>1, <2>2
<1>5. ASSUME NEW s \in Sockets, waiter[s] # NoThread
      PROVE  waiter[s] \in Callers \ {t}
  BY <1>1, <1>5 DEF IInv, TypeOK, InvWaiter, Waiting
<1>6. TypeOK'
  <2>1. /\ on' \in [Callers -> Sockets \cup {NoSocket}] /\ want' \in [Callers -> Wants \cup {0}]
        /\ copied' \in [Callers -> 0 .. BufSize]
    <3>1. CASE Consume(t)
      BY <3>1, TypeFacts DEF Consume
    <3>2. CASE Reset(t)
      BY <3>2, TypeFacts DEF Reset
    <3> QED BY <3>1, <3>2
  <2>2. pc' \in [Callers -> Places]
    BY <1>1, TypeFacts DEF Places
  <2> QED BY <1>1, <1>3, <2>1, <2>2 DEF IInv, TypeOK, cpuVars, sockVars
<1>7. InvList'
  BY <1>1, SameSockets DEF IInv
<1>8. InvWaiter'
  BY <1>1, <1>4, <1>5 DEF IInv, InvWaiter
<1>9. InvCopied' /\ InvAlive'
  <2>1. ASSUME NEW v \in Callers, pc'[v] = "consume" PROVE copied'[v] <= len'[on'[v]]
    <3>1. v # t /\ pc[v] = "consume"
      BY <1>1, <1>4, <2>1
    <3>2. InRecv(v) /\ copied[v] <= len[on[v]]
      BY <3>1 DEF IInv, InvCopied, InRecv
    <3> QED BY <1>1, <1>4, <3>1, <3>2
  <2>2. InvAlive'
    BY <1>1 DEF IInv, InvAlive, cpuVars
  <2> QED BY <2>1, <2>2 DEF InvCopied
<1>10. InvSleep' /\ SleepersRegistered'
  <2>1. pc'[t] # "sleep" /\ pc'[t] # "asleep"
    BY <1>1
  <2>2. \A v \in Callers \ {t} : pc[v] \in {"sleep", "asleep"} => on'[v] = on[v] /\ len'[on[v]] = len[on[v]]
    BY <1>1, <1>4 DEF InRecv
  <2>3. InvSleep'
    BY <1>1, <1>4, <2>1, <2>2 DEF IInv, InvSleep, cpuVars
  <2>4. SleepersRegistered'
    BY <1>1, <1>4, <2>1, <2>2 DEF IInv, SleepersRegistered, cpuVars
  <2> QED BY <2>3, <2>4
<1>11. SocketsSound'
  <2>1. ASSUME NEW s \in Sockets, waiter'[s] # NoThread
        PROVE  IsActive(s) /\ InRecv(waiter[s])' /\ on'[waiter'[s]] = s
    BY <1>1, <1>4, <1>5, <2>1, CallFacts
  <2>2. ASSUME NEW u \in Callers, InRecv(u)'
        PROVE  state'[u] # "DEAD" /\ on'[u] \in Sockets /\ IsActive(on'[u]) /\ owner[on'[u]] = u
    <3>1. InRecv(u) /\ on'[u] = on[u]
      BY <1>1, <1>2, <1>4, <2>2 DEF IInv, TypeOK, InRecv
    <3> QED BY <1>1, <3>1, CallFacts DEF cpuVars
  <2> QED BY <1>1, <2>1, <2>2, StillInUse
<1> QED
  BY <1>6, <1>7, <1>8, <1>9, <1>10, <1>11 DEF IInv

(* A datagram goes into the buffer of a listed socket and wakes its waiter. *)
LEMMA ReceiveInv ==
  ASSUME IInv, NEW p \in Ports \cup {0}, NEW n \in Lengths, Receive(p, n)
  PROVE  IInv'
<1> DEFINE s == active[ForPort(p)]
<1>1. s \in Sockets /\ IsActive(s)
  BY ForPortListed DEF IInv, TypeOK, Receive
<1>2. /\ Fits(s, n) /\ len' = [len EXCEPT ![s] = @ + n]
      /\ waiter' = [waiter EXCEPT ![s] = NoThread]
      /\ state' = IF waiter[s] = NoThread THEN state ELSE [state EXCEPT ![waiter[s]] = "READY"]
      /\ UNCHANGED <<threadVars, current, rd, consumed, sockVars>>
  BY DEF Receive, Wake
<1> HIDE DEF s
<1>3. \A v \in Callers : pc[v] # "sleep"
  BY DEF Receive, InterruptsOn, At, IInv, InvSleep
<1>4. /\ len' \in [Sockets -> 0 .. BufSize]
      /\ \A u \in Sockets : u # s => len'[u] = len[u]
      /\ \A u \in Sockets : len'[u] >= len[u]
  <2>1. n \in Nat /\ n <= BufSize - len[s]
    BY <1>2, SocketAssumption DEF Fits
  <2>2. len[s] \in Nat /\ BufSize \in Nat
    BY <1>1, TypeFacts
  <2> QED BY <1>1, <1>2, <2>1, <2>2, TypeFacts
<1>5. /\ \A u \in Sockets : u # s => waiter'[u] = waiter[u]
      /\ waiter'[s] = NoThread
      /\ waiter' \in [Sockets -> Callers \cup {NoThread}]
  BY <1>1, <1>2, TypeFacts
<1>6. /\ state' \in [Callers \cup {Idle} -> {"RUNNING", "READY", "BLOCKED", "DEAD"}]
      /\ waiter[s] # NoThread => state'[waiter[s]] = "READY"
      /\ \A v \in Callers \cup {Idle} : v # waiter[s] => state'[v] = state[v]
      /\ \A v \in Callers \cup {Idle} : state'[v] = "DEAD" => state[v] = "DEAD"
  BY <1>1, <1>2, TypeFacts
<1>7. TypeOK'
  BY <1>2, <1>4, <1>5, <1>6 DEF IInv, TypeOK, threadVars, sockVars
<1>8. InvList'
  BY <1>2, SameSockets DEF IInv
<1>9. InvWaiter'
  BY <1>2, <1>5 DEF IInv, InvWaiter, threadVars
<1>10. InvSleep'
  BY <1>2, <1>3 DEF InvSleep, threadVars
<1>11. InvCopied'
  <2>1. ASSUME NEW t \in Callers, pc[t] = "consume" PROVE copied[t] <= len'[on[t]]
    <3>1. on[t] \in Sockets /\ copied[t] \in Nat /\ len[on[t]] \in Nat /\ len'[on[t]] \in Nat
      BY <1>4, <2>1, TypeFacts, CallFacts DEF InRecv
    <3>2. copied[t] <= len[on[t]]
      BY <2>1 DEF IInv, InvCopied
    <3> QED BY <1>4, <3>1, <3>2
  <2> QED BY <1>2, <2>1 DEF InvCopied, threadVars
<1>12. InvAlive'
  BY <1>2, <1>6 DEF IInv, TypeOK, InvAlive
<1>13. SleepersRegistered'
  <2>1. ASSUME NEW t \in Callers, pc[t] = "asleep", state'[t] = "BLOCKED"
        PROVE  waiter'[on[t]] = t /\ len'[on[t]] = 0
    <3>1. on[t] \in Sockets
      BY <2>1, CallFacts DEF InRecv
    <3>2. state[t] = "BLOCKED" /\ t # waiter[s]
      BY <1>6, <2>1, TypeFacts
    <3>3. waiter[on[t]] = t /\ len[on[t]] = 0
      BY <2>1, <3>2 DEF IInv, SleepersRegistered
    <3> QED BY <1>4, <1>5, <3>1, <3>2, <3>3
  <2> QED BY <1>2, <2>1 DEF SleepersRegistered, threadVars
<1>14. SocketsSound'
  <2>1. ASSUME NEW u \in Sockets, waiter'[u] # NoThread
        PROVE  IsActive(u) /\ InRecv(waiter[u])' /\ on'[waiter'[u]] = u
    BY <1>2, <1>5, <2>1, CallFacts DEF InRecv, threadVars
  <2>2. ASSUME NEW u \in Callers, InRecv(u)'
        PROVE  state'[u] # "DEAD" /\ on'[u] \in Sockets /\ IsActive(on'[u]) /\ owner[on'[u]] = u
    BY <1>2, <1>6, <2>2, CallFacts DEF InRecv, threadVars
  <2> QED BY <1>2, <2>1, <2>2, StillInUse
<1> QED
  BY <1>7, <1>8, <1>9, <1>10, <1>11, <1>12, <1>13, <1>14 DEF IInv

(* The invariant speaks of the variables only. *)
LEMMA StutterInv == ASSUME IInv, UNCHANGED vars PROVE IInv'
<1>1. UNCHANGED <<sockVars, threadVars, cpuVars, bufVars, waiter>>
  BY DEF vars
<1>2. TypeOK' /\ InvWaiter' /\ InvSleep' /\ InvCopied' /\ InvAlive' /\ SleepersRegistered'
  BY <1>1 DEF IInv, TypeOK, InvWaiter, InvSleep, InvCopied, InvAlive, SleepersRegistered,
              sockVars, threadVars, cpuVars, bufVars
<1>3. InvList'
  BY <1>1, SameSockets DEF IInv
<1>4. SocketsSound'
  BY <1>1, CallFacts, StillInUse DEF InRecv, threadVars, cpuVars
<1> QED BY <1>2, <1>3, <1>4 DEF IInv

(* Every step of the sockets keeps the invariant. *)
LEMMA NextInv == ASSUME IInv, [Next]_vars PROVE IInv'
<1>1. ASSUME NEW t \in Callers, NEW s \in Sockets,
             \/ Create(t, s) \/ Connect(t, s) \/ Close(t, s)
             \/ \E p \in Ports : Bind(t, s, p)
             \/ \E n \in Wants : RecvCall(t, s, n)
      PROVE  IInv'
  BY <1>1, CreateInv, BindInv, CloseInv, RecvCallInv
<1>2. ASSUME NEW t \in Callers, Recv(t) PROVE IInv'
  BY <1>2, YieldInv, RegisterInv, MarkInv, ConsumeInv DEF Recv
<1>3. ASSUME \/ \E t \in Callers : Exit(t)
             \/ \E u \in Callers \cup {Idle} : Preempt(u)
      PROVE  IInv'
  BY <1>3, SwitchInv
<1>4. ASSUME KeepRunning PROVE IInv'
  BY <1>4, StutterInv DEF KeepRunning
<1>5. ASSUME \E p \in Ports \cup {0}, n \in Lengths : Receive(p, n) PROVE IInv'
  BY <1>5, ReceiveInv
<1>6. ASSUME UNCHANGED vars PROVE IInv'
  BY <1>6, StutterInv
<1> QED
  BY <1>1, <1>2, <1>3, <1>4, <1>5, <1>6 DEF Next

(* The strengthening is an invariant of every execution. *)
THEOREM Inductive == Spec => []IInv
<1>1. Init => IInv
  BY InitInv
<1>2. IInv /\ [Next]_vars => IInv'
  BY NextInv
<1> QED
  BY <1>1, <1>2, PTL DEF Spec

(* The variables keep their types: in particular sock_recv never takes more
   than recv_data_len out of a buffer and the receive handler never puts more
   than its size into it, for any sizes, whoever interrupts whom. *)
THEOREM TypeCorrect == Spec => []TypeOK
<1>1. IInv => TypeOK
  BY DEF IInv
<1> QED
  BY <1>1, Inductive, PTL

(* No two listed sockets share a port, and no thread, no waiting_thread and no
   blocked call points to a socket that close() has freed (sock_close,
   sock_recv and sock_udp_receive_packet_handler). *)
THEOREM SocketsStaySound == Spec => []SocketsSound
<1>1. IInv => SocketsSound
  BY DEF IInv
<1> QED
  BY <1>1, Inductive, PTL

(* The sleep protocol of sock_recv, lines 189 to 201: a thread that sleeps in
   its first schedule() is registered on an empty buffer, so that no datagram
   slipped in between its test and its sleep. *)
THEOREM SleepersStayRegistered == Spec => []SleepersRegistered
<1>1. IInv => SleepersRegistered
  BY DEF IInv
<1> QED
  BY <1>1, Inductive, PTL
=============================================================================
