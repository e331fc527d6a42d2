---------------------------- MODULE NetworkProofs ----------------------------
(***************************************************************************)
(* The network, for any stations, servers and addresses: what the cache    *)
(* answers and which address is used.  The network card, for any senders   *)
(* and rings of any size: frames go both ways once and in order.  The bus, *)
(* for any slots, functions and kinds of cards: each device is found once, *)
(* and a card is ready before it interrupts.                               *)
(***************************************************************************)
EXTENDS MCQueues, ListFacts, FiniteSetTheorems

----------------------------------------------------------------------------
(* The tables of the network.                                              *)

Cells == 0 .. LanCache - 1

\* The types of what TypeOK of Network leaves open.
LanTypes ==
  /\ Lan!TypeOK
  /\ announced \in [LanAddresses -> LanStations \cup {Lan!NoMac}]
  /\ leases \in [LanServers -> LanAddresses \cup {Lan!Zero}]

\* An address has one entry at most, and the entry has what the address announced last.
ArpNewest ==
  \A i \in Cells : arp_cache[i].ip # Lan!Zero =>
    /\ \A j \in Cells : arp_cache[j].ip = arp_cache[i].ip => i = j
    /\ \E a \in LanAddresses : arp_cache[i].ip = Lan!bswap(a) /\ arp_cache[i].mac = announced[a]

\* The client asks once: every request and every acknowledgement there ever was names the
\* server it chose and the address it was offered, and a server that acknowledged one has
\* given it.
AskedOnce ==
  \A m \in lan :
    /\ m.kind = "OFFER" => m.addr \in LanAddresses /\ m.server \in LanServers
    /\ m.kind \in {"REQUEST", "ACK"} =>
         /\ dhcp_state \in {"REQUESTING", "BOUND"}
         /\ m.addr = offered /\ m.server = server
         /\ server \in LanServers /\ offered \in LanAddresses
    /\ m.kind = "ACK" => leases[server] = offered

BoundFirst == local_ip # Lan!Zero => dhcp_state = "BOUND"

LanInv == LanTypes /\ ArpNewest /\ AskedOnce /\ BoundFirst /\ Lan!LatestMac /\ Lan!AddressWasGiven

(* What the constants of the network are. *)
LEMMA LanFacts ==
  /\ LanCache \in Nat \ {0} /\ Lan!Zero \notin LanAddresses
  /\ Lan!Everyone \notin LanAddresses
  /\ LanAddresses \subseteq Nat \X Nat
  /\ \A s \in LanServers : LanPool[s] \subseteq LanAddresses
  BY MachineConstants DEF Lan!NetworkConstants

(* An address of two bytes read backwards. *)
LEMMA Swapped == ASSUME NEW a \in Nat \X Nat PROVE Lan!bswap(a) = <<a[2], a[1]>>
<1>1. Len(a) = 2
  OBVIOUS
<1>2. Lan!bswap(a) = [i \in 1 .. 2 |-> a[(2 - i) + 1]]
  BY <1>1 DEF Lan!bswap, Lan!Reverse
<1>3. a[(2 - 1) + 1] = a[2] /\ a[(2 - 2) + 1] = a[1]
  OBVIOUS
<1> QED BY <1>2, <1>3

(* Nothing is lost by it, and twice it changes nothing. *)
LEMMA SwapTwice ==
  ASSUME NEW a \in Nat \X Nat
  PROVE  /\ Lan!bswap(a) \in Nat \X Nat /\ Lan!bswap(Lan!bswap(a)) = a
         /\ Lan!bswap(a) = Lan!Zero => a = Lan!Zero
<1>1. Lan!bswap(a) = <<a[2], a[1]>>
  BY Swapped
<1>2. <<a[2], a[1]>> \in Nat \X Nat
  OBVIOUS
<1>3. Lan!bswap(<<a[2], a[1]>>) = <<a[1], a[2]>>
  BY <1>2, Swapped
<1>4. <<a[1], a[2]>> = a
  OBVIOUS
<1> QED BY <1>1, <1>2, <1>3, <1>4 DEF Lan!Zero

(* The first of one entry. *)
LEMMA FirstOne == ASSUME NEW i \in Cells PROVE Lan!First({i}) = i
<1>1. i <= i
  BY DEF Cells
<1> QED BY <1>1 DEF Lan!First

(* The entry of an address in the cache is the one that is found. *)
LEMMA FoundEntry ==
  ASSUME LanInv, NEW a \in LanAddresses
  PROVE  LET ip == Lan!bswap(a) IN
           /\ ip # Lan!Zero
           /\ \A i \in Cells : arp_cache[i].ip = ip => Lan!Holding(ip) = {i} /\ Lan!Slot(ip) = i
           /\ (\A i \in Cells : arp_cache[i].ip # ip) => Lan!Holding(ip) = {}
           /\ Lan!Slot(ip) \in Cells
<1> DEFINE ip == Lan!bswap(a)
<1>1. a \in Nat \X Nat /\ a # Lan!Zero
  BY LanFacts
<1>2. ip # Lan!Zero
  BY <1>1, SwapTwice
<1>3. DOMAIN arp_cache = Cells /\ arp_cache_next_idx \in Cells
  BY DEF LanInv, LanTypes, Lan!TypeOK, Cells
<1> HIDE DEF ip
<1>4. \A i \in Cells : arp_cache[i].ip = ip => Lan!Holding(ip) = {i}
  BY <1>2, <1>3 DEF LanInv, ArpNewest, Lan!Holding
<1>5. \A i \in Cells : arp_cache[i].ip = ip => Lan!Slot(ip) = i
  <2> SUFFICES ASSUME NEW i \in Cells, arp_cache[i].ip = ip PROVE Lan!Slot(ip) = i
    OBVIOUS
  <2>1. Lan!Holding(ip) = {i}
    BY <1>4
  <2>2. Lan!First({i}) = i
    BY FirstOne
  <2> QED BY <2>1, <2>2 DEF Lan!Slot
<1>6. (\A i \in Cells : arp_cache[i].ip # ip) => Lan!Holding(ip) = {}
  BY <1>3 DEF Lan!Holding
<1>7. Lan!Slot(ip) \in Cells
  BY <1>3, <1>5, <1>6 DEF Lan!Slot
<1> QED BY <1>2, <1>4, <1>5, <1>6, <1>7 DEF ip

(* Where a frame goes that carries a packet to one machine, or to all of them. *)
GoesRight(f) == f.mac = IF f.ip = Lan!Everyone THEN Lan!Broadcast ELSE announced[f.ip]

(* The address of every machine is its own reverse, and no other one has it as its
   reverse. *)
LEMMA EveryoneSwapped ==
  /\ Lan!bswap(Lan!Everyone) = Lan!Everyone
  /\ \A a \in LanAddresses : Lan!bswap(a) # Lan!Everyone
<1>1. Lan!Everyone \in Nat \X Nat
  BY DEF Lan!Everyone
<1>2. Lan!bswap(Lan!Everyone) = Lan!Everyone
  BY <1>1, Swapped DEF Lan!Everyone
<1>3. ASSUME NEW a \in LanAddresses PROVE Lan!bswap(a) # Lan!Everyone
  <2>1. a \in Nat \X Nat /\ a # Lan!Everyone
    BY LanFacts
  <2>2. Lan!bswap(Lan!bswap(a)) = a
    BY <2>1, SwapTwice
  <2> QED BY <1>2, <2>1, <2>2
<1> QED BY <1>2, <1>3

(* What is sent to every machine is broadcast. *)
LEMMA BroadcastRight ==
  ASSUME NEW kind, NEW f, f = Lan!ip_send_packet(kind, Lan!bswap(Lan!Everyone))
  PROVE  GoesRight(f)
<1>1. f = Lan!Frame(kind, Lan!Broadcast, Lan!Everyone)
  BY EveryoneSwapped DEF Lan!ip_send_packet, Lan!Broadcast, Lan!NoMac
<1> QED BY <1>1 DEF GoesRight, Lan!Frame

(* What is sent to an address goes to the hardware address it announced last. *)
LEMMA SentRight ==
  ASSUME LanInv, NEW a \in LanAddresses, NEW kind \in {"udp", "echo reply"},
         NEW f, f = Lan!ip_send_packet(kind, Lan!bswap(a))
  PROVE  f.kind \in {"udp", "echo reply"} => GoesRight(f)
<1> DEFINE ip == Lan!bswap(a)
<1>0. /\ ip # Lan!Zero
      /\ \A i \in Cells : arp_cache[i].ip = ip => Lan!Holding(ip) = {i}
      /\ (\A i \in Cells : arp_cache[i].ip # ip) => Lan!Holding(ip) = {}
  BY FoundEntry
<1>1. a \in Nat \X Nat
  BY LanFacts
<1>2. Lan!bswap(ip) = a /\ a # Lan!Everyone /\ ip # Lan!Everyone
  BY <1>1, SwapTwice, LanFacts, EveryoneSwapped
<1>3. CASE \A i \in Cells : arp_cache[i].ip # ip
  <2>1. Lan!arp_lookup_mac(ip) = Lan!NoMac
    BY <1>0, <1>3 DEF Lan!arp_lookup_mac
  <2>2. f.kind = "arp request"
    BY <1>2, <2>1 DEF Lan!ip_send_packet, Lan!Frame
  <2> QED BY <2>2
<1>4. ASSUME NEW i \in Cells, arp_cache[i].ip = ip
      PROVE  f.kind \in {"udp", "echo reply"} => GoesRight(f)
  <2>1. Lan!Holding(ip) = {i} /\ Lan!First({i}) = i /\ ip # Lan!Zero
    BY <1>0, <1>4, FirstOne
  <2>2. Lan!arp_lookup_mac(ip) = arp_cache[i].mac
    BY <2>1 DEF Lan!arp_lookup_mac
  <2>3. PICK b \in LanAddresses : arp_cache[i].ip = Lan!bswap(b) /\ arp_cache[i].mac = announced[b]
    BY <1>4, <2>1 DEF LanInv, ArpNewest
  <2>4. b = a
    BY <1>1, <1>2, <1>4, <2>3, LanFacts, SwapTwice
  <2>5. f.kind \in {"udp", "echo reply"} => f.mac = arp_cache[i].mac /\ f.ip = a
    BY <1>2, <2>2 DEF Lan!ip_send_packet, Lan!Frame
  <2> QED BY <1>2, <2>3, <2>4, <2>5 DEF GoesRight
<1> QED BY <1>3, <1>4

(* A packet of ARP, request or answer, updates the entry of its sender. *)
LEMMA ArpStep ==
  ASSUME LanInv, NEW mac \in LanStations, NEW src \in LanAddresses, NEW dst \in LanAddresses,
         NEW request \in BOOLEAN, Lan!arp_handle_packet(mac, src, dst, request)
  PROVE  LanInv'
<1> DEFINE ip == Lan!bswap(src)
           at == Lan!Slot(ip)
<1>1. /\ arp_cache' = [arp_cache EXCEPT ![at] = [ip |-> ip, mac |-> mac]]
      /\ announced' = [announced EXCEPT ![src] = mac]
      /\ out'.kind \in {"none", "arp reply"}
      /\ UNCHANGED <<dhcp_state, offered, server, local_ip, lan, leases>>
  <2>1. out' = Lan!Silence \/ out' = Lan!Frame("arp reply", mac, src)
    <3>1. out' \in (IF request /\ Lan!bswap(dst) = local_ip
                      THEN {Lan!Silence, Lan!Frame("arp reply", mac, src)} ELSE {Lan!Silence})
      BY DEF Lan!arp_handle_packet
    <3> QED BY <3>1, Zenon
  <2>2. out'.kind \in {"none", "arp reply"}
    <3>1. CASE out' = Lan!Silence
      BY <3>1 DEF Lan!Silence, Lan!Frame
    <3>2. CASE out' = Lan!Frame("arp reply", mac, src)
      BY <3>2 DEF Lan!Frame
    <3> QED BY <2>1, <3>1, <3>2
  <2>3. arp_cache' = [arp_cache EXCEPT ![at] = [ip |-> ip, mac |-> mac]]
    BY DEF Lan!arp_handle_packet, Lan!arp_update_cache
  <2>4. /\ announced' = [announced EXCEPT ![src] = mac]
        /\ UNCHANGED <<dhcp_state, offered, server, local_ip, lan, leases>>
    BY DEF Lan!arp_handle_packet, Lan!dhcpVars
  <2> QED BY <2>2, <2>3, <2>4
<1>2. /\ at \in Cells /\ ip # Lan!Zero
      /\ \A i \in Cells : arp_cache[i].ip = ip => i = at
  BY FoundEntry
<1>3. DOMAIN arp_cache = Cells /\ DOMAIN announced = LanAddresses
  BY DEF LanInv, LanTypes, Lan!TypeOK, Cells
<1>4. arp_cache_next_idx' \in Cells
  <2>1. arp_cache_next_idx \in Cells /\ arp_cache_next_idx \in 0 .. LanCache - 1
    BY DEF LanInv, LanTypes, Lan!TypeOK, Cells
  <2>2. (arp_cache_next_idx + 1) % LanCache \in 0 .. LanCache - 1
    <3>1. 1 \in 0 .. LanCache /\ LanCache \in Nat \ {0}
      BY LanFacts
    <3> QED BY <2>1, <3>1, PlaceLemma
  <2> QED BY <2>1, <2>2 DEF Lan!arp_handle_packet, Lan!arp_update_cache, Cells
<1> HIDE DEF at
<1>5. /\ arp_cache'[at] = [ip |-> ip, mac |-> mac]
      /\ \A i \in Cells : i # at => arp_cache'[i] = arp_cache[i]
      /\ DOMAIN arp_cache' = Cells
  BY <1>1, <1>2, <1>3
<1>6. announced'[src] = mac /\ \A a \in LanAddresses : a # src => announced'[a] = announced[a]
  BY <1>1, <1>3
<1>7. LanTypes'
  <2>1. arp_cache' \in [Cells -> [ip : LanAddresses \cup {Lan!bswap(a) : a \in LanAddresses}
                                       \cup {Lan!Zero},
                                 mac : LanStations \cup {Lan!NoMac}]]
    BY <1>1 DEF LanInv, LanTypes, Lan!TypeOK, Cells
  <2>2. announced' \in [LanAddresses -> LanStations \cup {Lan!NoMac}]
    BY <1>1 DEF LanInv, LanTypes
  <2> QED BY <1>1, <1>4, <2>1, <2>2 DEF LanInv, LanTypes, Lan!TypeOK, Cells
<1>8. ArpNewest'
  <2> SUFFICES ASSUME NEW i \in Cells, arp_cache'[i].ip # Lan!Zero
               PROVE  /\ \A j \in Cells : arp_cache'[j].ip = arp_cache'[i].ip => i = j
                      /\ \E a \in LanAddresses :
                           arp_cache'[i].ip = Lan!bswap(a) /\ arp_cache'[i].mac = announced'[a]
    BY DEF ArpNewest, Cells
  <2>1. CASE i = at
    BY <1>2, <1>5, <1>6, <2>1
  <2>2. CASE i # at
    <3>1. arp_cache'[i] = arp_cache[i] /\ arp_cache[i].ip # ip
      BY <1>2, <1>5, <2>2
    <3>2. PICK a \in LanAddresses : arp_cache[i].ip = Lan!bswap(a) /\ arp_cache[i].mac = announced[a]
      BY <3>1 DEF LanInv, ArpNewest
    <3>3. a # src
      BY <3>1, <3>2
    <3>4. \A j \in Cells : arp_cache'[j].ip = arp_cache[i].ip => i = j
      BY <1>5, <3>1 DEF LanInv, ArpNewest
    <3> QED BY <1>6, <3>1, <3>2, <3>3, <3>4
  <2> QED BY <2>1, <2>2
<1>9. AskedOnce' /\ BoundFirst' /\ Lan!AddressWasGiven'
  BY <1>1 DEF LanInv, AskedOnce, BoundFirst, Lan!AddressWasGiven
<1>10. Lan!LatestMac'
  BY <1>1 DEF Lan!LatestMac
<1> QED BY <1>7, <1>8, <1>9, <1>10 DEF LanInv

(* A packet of IP that comes or that a program sends. *)
LEMMA SendStep ==
  ASSUME LanInv,
         \E dst \in LanAddresses \cup {Lan!Everyone} :
           \/ Lan!SendDatagram(dst) \/ \E src \in LanAddresses : Lan!EchoRequest(src, dst)
  PROVE  LanInv'
<1>1. UNCHANGED <<dhcp_state, offered, server, local_ip, lan, leases, arp_cache,
                  arp_cache_next_idx, announced>>
  BY DEF Lan!SendDatagram, Lan!EchoRequest, Lan!dhcpVars, Lan!arpVars
<1>2. \/ out' = Lan!Silence
      \/ \E a \in LanAddresses \cup {Lan!Everyone}, kind \in {"udp", "echo reply"} :
           out' = Lan!ip_send_packet(kind, Lan!bswap(a))
  BY DEF Lan!SendDatagram, Lan!EchoRequest
<1>3. out'.kind \in {"udp", "echo reply"} => GoesRight(out')
  <2>1. CASE out' = Lan!Silence
    BY <2>1 DEF Lan!Silence, Lan!Frame
  <2>2. ASSUME NEW a \in LanAddresses \cup {Lan!Everyone},
               NEW kind \in {"udp", "echo reply"}, NEW f,
               f = Lan!ip_send_packet(kind, Lan!bswap(a))
        PROVE  f.kind \in {"udp", "echo reply"} => GoesRight(f)
    BY <2>2, SentRight, BroadcastRight
  <2> QED BY <1>2, <2>1, <2>2
<1>4. LanTypes' /\ ArpNewest' /\ AskedOnce' /\ BoundFirst' /\ Lan!AddressWasGiven'
  BY <1>1 DEF LanInv, LanTypes, Lan!TypeOK, ArpNewest, AskedOnce, BoundFirst,
              Lan!AddressWasGiven
<1>5. Lan!LatestMac'
  BY <1>1, <1>3 DEF GoesRight, Lan!LatestMac
<1> QED BY <1>4, <1>5 DEF LanInv

(* The messages of the client and of its servers. *)
LEMMA DhcpStep ==
  ASSUME LanInv,
         \/ Lan!dhcp_client_start
         \/ \E m \in lan : Lan!HandleOffer(m) \/ Lan!HandleAck(m)
         \/ \E s \in LanServers : \E a \in LanPool[s] : Lan!Offer(s, a) \/ Lan!Acknowledge(s, a)
  PROVE  LanInv'
<1>1. UNCHANGED <<arp_cache, arp_cache_next_idx, announced, out>>
  BY DEF Lan!dhcp_client_start, Lan!HandleOffer, Lan!HandleAck, Lan!Offer, Lan!Acknowledge,
         Lan!arpVars
<1>2. ArpNewest' /\ Lan!LatestMac'
  BY <1>1 DEF LanInv, ArpNewest, Lan!LatestMac
<1>3. CASE Lan!dhcp_client_start
  <2>1. /\ dhcp_state = "INIT" /\ dhcp_state' = "SELECTING"
        /\ lan' = lan \cup {Lan!Message("DISCOVER", Lan!Zero, Lan!NoMac)}
        /\ UNCHANGED <<offered, server, local_ip, leases>>
    BY <1>3 DEF Lan!dhcp_client_start
  <2>2. \A m \in lan' : m \in lan \/ m.kind = "DISCOVER"
    BY <2>1 DEF Lan!Message
  <2>3. \A m \in lan : m.kind \notin {"REQUEST", "ACK"}
    BY <2>1 DEF LanInv, AskedOnce
  <2>4. AskedOnce'
    BY <2>1, <2>2, <2>3 DEF LanInv, AskedOnce
  <2> QED BY <1>1, <1>2, <2>1, <2>4
          DEF LanInv, LanTypes, Lan!TypeOK, BoundFirst, Lan!AddressWasGiven
<1>4. ASSUME NEW m \in lan, Lan!HandleOffer(m) PROVE LanInv'
  <2>1. /\ dhcp_state = "SELECTING" /\ dhcp_state' = "REQUESTING" /\ m.kind = "OFFER"
        /\ offered' = m.addr /\ server' = m.server
        /\ lan' = lan \cup {Lan!Message("REQUEST", m.addr, m.server)}
        /\ UNCHANGED <<local_ip, leases>>
    BY <1>4 DEF Lan!HandleOffer, Lan!SetOnOffer
  <2>2. m.addr \in LanAddresses /\ m.server \in LanServers
    BY <2>1 DEF LanInv, AskedOnce
  <2>3. \A k \in lan : k.kind \notin {"REQUEST", "ACK"}
    BY <2>1 DEF LanInv, AskedOnce
  <2>4. \A k \in lan' : k \in lan \/ k = Lan!Message("REQUEST", m.addr, m.server)
    BY <2>1
  <2>5. AskedOnce'
    BY <2>1, <2>2, <2>3, <2>4 DEF LanInv, AskedOnce, Lan!Message
  <2>6. local_ip = Lan!Zero
    BY <2>1 DEF LanInv, BoundFirst
  <2>7. LanTypes'
    BY <1>1, <2>1, <2>2 DEF LanInv, LanTypes, Lan!TypeOK
  <2> QED BY <1>2, <2>1, <2>5, <2>6, <2>7 DEF LanInv, BoundFirst, Lan!AddressWasGiven
<1>5. ASSUME NEW m \in lan, Lan!HandleAck(m) PROVE LanInv'
  <2>1. /\ m.kind = "ACK" /\ dhcp_state' = "BOUND"
        /\ offered' = m.addr /\ local_ip' = m.addr
        /\ UNCHANGED <<server, lan, leases>>
    BY <1>5 DEF Lan!HandleAck
  <2>2. /\ m.addr = offered /\ server \in LanServers /\ offered \in LanAddresses
        /\ leases[server] = offered
    BY <2>1 DEF LanInv, AskedOnce
  <2>3. AskedOnce'
    BY <2>1, <2>2 DEF LanInv, AskedOnce
  <2>4. LanTypes'
    BY <1>1, <2>1, <2>2 DEF LanInv, LanTypes, Lan!TypeOK
  <2> QED BY <1>2, <2>1, <2>2, <2>3, <2>4 DEF LanInv, BoundFirst, Lan!AddressWasGiven
<1>6. ASSUME NEW s \in LanServers, NEW a \in LanPool[s], Lan!Offer(s, a) PROVE LanInv'
  <2>1. /\ lan' = lan \cup {Lan!Message("OFFER", a, s)}
        /\ UNCHANGED <<dhcp_state, offered, server, local_ip, leases>>
    BY <1>6 DEF Lan!Offer
  <2>2. a \in LanAddresses
    BY LanFacts
  <2>3. \A k \in lan' : k \in lan \/ k = Lan!Message("OFFER", a, s)
    BY <2>1
  <2>4. AskedOnce'
    BY <2>1, <2>2, <2>3 DEF LanInv, AskedOnce, Lan!Message
  <2> QED BY <1>1, <1>2, <2>1, <2>4
          DEF LanInv, LanTypes, Lan!TypeOK, BoundFirst, Lan!AddressWasGiven
<1>7. ASSUME NEW s \in LanServers, NEW a \in LanPool[s], Lan!Acknowledge(s, a) PROVE LanInv'
  <2> DEFINE r == Lan!Message("REQUEST", a, s)
  <2>1. /\ r \in lan
        /\ \/ lan' = lan \cup {Lan!Message("ACK", a, s)} /\ leases' = [leases EXCEPT ![s] = a]
           \/ lan' = lan \cup {Lan!Message("NAK", a, s)} /\ UNCHANGED leases
        /\ UNCHANGED <<dhcp_state, offered, server, local_ip>>
    BY <1>7 DEF Lan!Acknowledge
  <2>2. /\ a = offered /\ s = server /\ a \in LanAddresses
        /\ dhcp_state \in {"REQUESTING", "BOUND"}
    <3>1. r.kind = "REQUEST" /\ r.addr = a /\ r.server = s
      BY DEF Lan!Message
    <3> HIDE DEF r
    <3> QED BY <2>1, <3>1 DEF LanInv, AskedOnce
  <2>3. leases \in [LanServers -> LanAddresses \cup {Lan!Zero}]
    BY DEF LanInv, LanTypes
  <2>4. /\ leases' \in [LanServers -> LanAddresses \cup {Lan!Zero}]
        /\ leases[server] = offered => leases'[server] = offered
    BY <2>1, <2>2, <2>3
  <2>5. \A k \in lan' : \/ k \in lan
                        \/ k = Lan!Message("ACK", a, s) /\ leases'[server] = offered
                        \/ k = Lan!Message("NAK", a, s)
    BY <2>1, <2>2, <2>3
  <2>6. AskedOnce'
    <3> SUFFICES ASSUME NEW k \in lan'
                 PROVE  /\ k.kind = "OFFER" => k.addr \in LanAddresses /\ k.server \in LanServers
                        /\ k.kind \in {"REQUEST", "ACK"} =>
                             /\ dhcp_state \in {"REQUESTING", "BOUND"}
                             /\ k.addr = offered /\ k.server = server
                             /\ server \in LanServers /\ offered \in LanAddresses
                        /\ k.kind = "ACK" => leases'[server] = offered
      BY <2>1 DEF AskedOnce
    <3>1. CASE k \in lan
      BY <2>4, <3>1 DEF LanInv, AskedOnce
    <3>2. CASE k = Lan!Message("ACK", a, s) /\ leases'[server] = offered
      BY <2>2, <3>2 DEF Lan!Message
    <3>3. CASE k = Lan!Message("NAK", a, s)
      BY <3>3 DEF Lan!Message
    <3> QED BY <2>5, <3>1, <3>2, <3>3
  <2>7. LanTypes'
    BY <1>1, <2>1, <2>4 DEF LanInv, LanTypes, Lan!TypeOK
  <2> QED BY <1>2, <2>1, <2>2, <2>4, <2>6, <2>7
          DEF LanInv, BoundFirst, Lan!AddressWasGiven
<1> QED BY <1>3, <1>4, <1>5, <1>6, <1>7

(* The invariant holds before anything was sent or has come. *)
LEMMA LanStart == Lan!Init => LanInv
<1> SUFFICES ASSUME Lan!Init PROVE LanInv
  OBVIOUS
<1>1. /\ arp_cache = [i \in Cells |-> [ip |-> Lan!Zero, mac |-> Lan!NoMac]]
      /\ arp_cache_next_idx = 0 /\ local_ip = Lan!Zero /\ offered = Lan!Zero
      /\ dhcp_state = "INIT" /\ server = Lan!NoMac /\ lan = {} /\ out = Lan!Silence
      /\ leases = [s \in LanServers |-> Lan!Zero]
      /\ announced = [a \in LanAddresses |-> Lan!NoMac]
  BY DEF Lan!Init, Cells
<1>2. 0 \in 0 .. LanCache - 1
  BY LanFacts
<1>3. LanTypes
  BY <1>1, <1>2 DEF LanTypes, Lan!TypeOK, Cells
<1>4. ArpNewest /\ AskedOnce /\ BoundFirst
  BY <1>1 DEF ArpNewest, AskedOnce, BoundFirst
<1>5. Lan!LatestMac /\ Lan!AddressWasGiven
  BY <1>1 DEF Lan!LatestMac, Lan!AddressWasGiven, Lan!Silence, Lan!Frame
<1> QED BY <1>3, <1>4, <1>5 DEF LanInv

(* Every packet, whatever is lost, repeated or late, keeps the invariant. *)
LEMMA LanStep == LanInv /\ [Lan!Next]_(Lan!vars) => LanInv'
<1> SUFFICES ASSUME LanInv, [Lan!Next]_(Lan!vars) PROVE LanInv'
  OBVIOUS
<1>1. CASE UNCHANGED Lan!vars
  BY <1>1 DEF Lan!vars, Lan!dhcpVars, Lan!arpVars, LanInv, LanTypes, Lan!TypeOK, ArpNewest,
              AskedOnce, BoundFirst, Lan!LatestMac, Lan!AddressWasGiven
<1>2. ASSUME NEW mac \in LanStations, NEW src \in LanAddresses, NEW dst \in LanAddresses,
             NEW request \in BOOLEAN, Lan!arp_handle_packet(mac, src, dst, request)
      PROVE  LanInv'
  BY <1>2, ArpStep
<1>3. CASE \E dst \in LanAddresses \cup {Lan!Everyone} :
             \/ Lan!SendDatagram(dst) \/ \E src \in LanAddresses : Lan!EchoRequest(src, dst)
  BY <1>3, SendStep
<1>4. CASE \/ Lan!dhcp_client_start
           \/ \E m \in lan : Lan!HandleOffer(m) \/ Lan!HandleAck(m)
           \/ \E s \in LanServers : \E a \in LanPool[s] : Lan!Offer(s, a) \/ Lan!Acknowledge(s, a)
  BY <1>4, DhcpStep
<1> QED BY <1>1, <1>2, <1>3, <1>4 DEF Lan!Next

(* The invariant of the network holds for any stations, addresses, servers and pools. *)
THEOREM LanInductive == Lan!Spec => []LanInv
  BY LanStart, LanStep, PTL DEF Lan!Spec

(* The behaviours of the machine are behaviours of the network. *)
LEMMA LanRuns == MCSpec => Lan!Spec
<1>1. MCInit => Lan!Init
  BY DEF MCInit
<1>2. [MCNext]_all => [Lan!Next]_(Lan!vars)
  <2>1. MCNext => (machine = "lan" /\ Lan!Next) \/ UNCHANGED lanVars
    BY DEF MCNext, EventsOnly, RingOnly, LogOnly, KeysOnly, CardOnly, DisplayOnly, TypedOnly,
           BusOnly, others
  <2>2. UNCHANGED lanVars => UNCHANGED Lan!vars
    BY DEF lanVars, Lan!vars, Lan!dhcpVars, Lan!arpVars
  <2>3. UNCHANGED all => UNCHANGED lanVars
    BY DEF all, others
  <2> QED BY <2>1, <2>2, <2>3
<1> QED BY <1>1, <1>2, PTL DEF MCSpec, Lan!Spec

(* A datagram or an echo reply goes to the hardware address its destination announced last,
   and the address the IP layer uses is the one the chosen server acknowledged, for any number of
   stations and servers, any cache and any loss, repetition or delay of messages. *)
THEOREM LanTrueHolds == MCSpec => []LanTrue
<1>1. LanInv => Lan!LatestMac /\ Lan!AddressWasGiven
  BY DEF LanInv
<1>2. Lan!Spec => [](Lan!LatestMac /\ Lan!AddressWasGiven)
  BY <1>1, LanInductive, PTL
<1>3. Lan!LatestMac /\ Lan!AddressWasGiven => LanTrue
  BY DEF LanTrue
<1> QED BY <1>2, <1>3, LanRuns, PTL

(* The cache, its index, the state of the client and the addresses keep their types. *)
THEOREM LanTypesHold == MCSpec => []Lan!TypeOK
<1>1. LanInv => Lan!TypeOK
  BY DEF LanInv, LanTypes
<1> QED BY <1>1, LanInductive, LanRuns, PTL

----------------------------------------------------------------------------
(* The rings of the network card.                                          *)

CardUsers == CardSenders \cup {CardHandler}
Descs     == 0 .. CardSlots - 1

\* How far descriptor x comes after descriptor h.
Beyond(h, x) == IF x >= h THEN x - h ELSE x - h + CardSlots

(* What the constants of the card are. *)
LEMMA CardFacts ==
  /\ CardSlots \in Nat \ {0, 1} /\ CardSlots \in Nat \ {0} /\ CardHandler \notin CardSenders
  /\ CardSent \in Nat /\ CardCame \in Nat
  /\ Card!Slots = Descs /\ Card!All = CardUsers
  BY MachineConstants DEF Card!RingConstants, Card!Slots, Card!All, Descs, CardUsers

(* Distances are below the size of the ring, and one descriptor is at each. *)
LEMMA BeyondFacts ==
  ASSUME NEW h \in Descs, NEW x \in Descs
  PROVE  /\ Beyond(h, x) \in Descs /\ (Beyond(h, x) = 0 <=> x = h)
         /\ \A y \in Descs : Beyond(h, x) = Beyond(h, y) => x = y
  BY CardFacts DEF Beyond, Descs

(* One step of the start, or of the end, changes a distance by one. *)
LEMMA BeyondInc ==
  ASSUME NEW h \in Descs, NEW x \in Descs
  PROVE  /\ Card!Inc(h) \in Descs
         /\ Beyond(Card!Inc(h), x) = IF x = h THEN CardSlots - 1 ELSE Beyond(h, x) - 1
         /\ Beyond(h, Card!Inc(x)) = IF Beyond(h, x) = CardSlots - 1 THEN 0 ELSE Beyond(h, x) + 1
<1>1. /\ Card!Inc(h) = IF h + 1 = CardSlots THEN 0 ELSE h + 1
      /\ Card!Inc(x) = IF x + 1 = CardSlots THEN 0 ELSE x + 1
  BY CardFacts, AfterLemma DEF Card!Inc, Descs
<1> QED BY <1>1, CardFacts DEF Beyond, Descs

(* The k-th descriptor after h. *)
LEMMA Ahead ==
  ASSUME NEW h \in Descs, NEW k \in 0 .. CardSlots - 1
  PROVE  (h + k) % CardSlots \in Descs /\ Beyond(h, (h + k) % CardSlots) = k
<1>1. k \in 0 .. CardSlots /\ h \in 0 .. CardSlots - 1 /\ CardSlots \in Nat \ {0}
  BY CardFacts DEF Descs
<1>2. (h + k) % CardSlots = IF h + k < CardSlots THEN h + k ELSE h + k - CardSlots
  BY <1>1, PlaceLemma
<1> QED BY <1>1, <1>2 DEF Beyond, Descs

(* The stretch of a ring that starts at h and has q descriptors. *)
LEMMA StretchIs ==
  ASSUME NEW b, NEW h \in Descs, NEW S, NEW q \in 0 .. CardSlots,
         \A x \in Descs : x \in S <=> Beyond(h, x) < q
  PROVE  Card!Stretch(b, h, S) = RingItems(CardSlots, b, h, q)
<1> DEFINE Fits(n) == /\ \A k \in 0 .. n - 1 : (h + k) % CardSlots \in S
                      /\ n = CardSlots \/ (h + n) % CardSlots \notin S
<1>1. CardSlots \in Nat /\ q \in Nat
  BY CardFacts
<1>2. \A k \in 0 .. CardSlots - 1 : (h + k) % CardSlots \in S <=> k < q
  BY Ahead
<1>3. Fits(q)
  BY <1>1, <1>2
<1>4. ASSUME NEW n \in 0 .. CardSlots, Fits(n) PROVE n = q
  <2>1. ~ (n < q)
    BY <1>1, <1>2, <1>4
  <2>2. ~ (q < n)
    BY <1>1, <1>2, <1>4
  <2> QED BY <1>1, <2>1, <2>2
<1> HIDE DEF Fits
<1>5. (CHOOSE n \in 0 .. CardSlots : Fits(n)) = q
  BY <1>3, <1>4
<1>6. (CHOOSE n \in 0 .. CardSlots : /\ \A k \in 0 .. n - 1 : (h + k) % CardSlots \in S
                                     /\ n = CardSlots \/ (h + n) % CardSlots \notin S) = q
  BY <1>5 DEF Fits
<1> QED BY <1>6 DEF Card!Stretch, RingItems

(* Types of the rings, of the callers and of the histories. *)
CardTypes ==
  /\ Card!TypeOK
  /\ txbuf \in [Descs -> Nat] /\ rxbuf \in [Descs -> Nat]
  /\ sending \in Seq(Descs) /\ wire \in Seq(Nat)
  /\ c_taken \in Seq(Nat) /\ came \in Nat

\* A sender is in its call; the frames whose descriptors TDT has passed; those of them the
\* card has not sent.
Sending(s) == c_pc[s] # "idle"
Handed     == IF \E s \in CardUsers : Sending(s) THEN calls - 1 ELSE calls
Unsent     == Handed - Len(wire)

\* From TDH on: what the card has to send, in order, up to TDT; the free descriptors; what it
\* has sent and not reported.
TxOrder ==
  /\ Unsent \in Nat /\ Unsent + Len(sending) <= CardSlots
  /\ Beyond(tdh, tdt) = IF Unsent = CardSlots THEN 0 ELSE Unsent
  /\ \A i \in 1 .. Len(sending) : Beyond(tdh, sending[i]) = CardSlots - Len(sending) + i - 1
  /\ \A x \in Descs : x \in txdd <=>
       Unsent <= Beyond(tdh, x) /\ Beyond(tdh, x) < CardSlots - Len(sending)
  /\ \A i \in 1 .. Len(wire) : wire[i] = i
  /\ \A x \in Descs : Beyond(tdh, x) < Unsent => txbuf[x] = Len(wire) + Beyond(tdh, x) + 1

\* One sender at most is in its call, with the last frame and the descriptor TDT names.
TxCaller ==
  /\ \A s, t \in CardUsers : Sending(s) /\ Sending(t) => s = t
  /\ \A s \in CardUsers : Sending(s) =>
       /\ slot[s] = tdt /\ frame[s] = calls /\ calls > 0
       /\ c_pc[s] = "submit" => tdt \in txdd /\ txbuf[tdt] = calls

TxInv == ~raced => TxOrder /\ TxCaller

(* The types of what Card!TypeOK says, in the names of this module. *)
LEMMA TypesOfCard ==
  ASSUME CardTypes
  PROVE  /\ tdt \in Descs /\ tdh \in Descs /\ txdd \subseteq Descs /\ rxdd \subseteq Descs
         /\ rdh \in Descs /\ rx_cur \in Descs /\ rdt \in -1 .. CardSlots - 1
         /\ c_pc \in [CardUsers -> {"idle", "wait", "submit"}] /\ slot \in [CardUsers -> Descs]
         /\ frame \in [CardUsers -> 0 .. CardSent] /\ calls \in 0 .. CardSent
         /\ raced \in BOOLEAN /\ wild \in BOOLEAN /\ handling \in BOOLEAN
         /\ Len(sending) \in Nat /\ Len(wire) \in Nat /\ Len(c_taken) \in Nat
  BY CardFacts, LenProperties DEF CardTypes, Card!TypeOK

(* The statements at the end of e1000_send_packet put the frame behind the ones that wait. *)
LEMMA SubmitOrder ==
  ASSUME CardTypes, TxOrder, tdt \in txdd, Card!Submit(tdt),
         UNCHANGED <<tdh, sending, wire>>, Handed' = Handed + 1,
         DOMAIN txbuf' = Descs, txbuf'[tdt] = Handed + 1,
         \A x \in Descs : x # tdt => txbuf'[x] = txbuf[x]
  PROVE  TxOrder'
<1> DEFINE k == Len(sending)
           q == Unsent
<1>1. /\ tdt \in Descs /\ tdh \in Descs /\ k \in Nat /\ Len(wire) \in Nat
      /\ CardSlots \in Nat \ {0, 1} /\ Handed \in Int
  BY TypesOfCard, CardFacts DEF Handed
<1>2. /\ q \in Nat /\ q + k <= CardSlots /\ q = Handed - Len(wire)
      /\ Beyond(tdh, tdt) = IF q = CardSlots THEN 0 ELSE q
      /\ q <= Beyond(tdh, tdt) /\ Beyond(tdh, tdt) < CardSlots - k
  BY <1>1 DEF TxOrder, Unsent
<1>3. q < CardSlots - k /\ Beyond(tdh, tdt) = q
  BY <1>1, <1>2
<1>4. Unsent' = q + 1
  <2>1. Unsent' = Handed' - Len(wire')
    BY DEF Unsent
  <2> QED BY <1>1, <1>2, <2>1
<1>5. /\ Len(sending') = k /\ Len(wire') = Len(wire) /\ tdh' = tdh
      /\ tdt' = Card!Inc(tdt) /\ txdd' = txdd \ {tdt}
  <2>1. sending' = sending /\ wire' = wire /\ tdh' = tdh
    OBVIOUS
  <2>2. tdt' = Card!Inc(tdt) /\ txdd' = txdd \ {tdt}
    BY DEF Card!Submit
  <2> QED BY <2>1, <2>2
<1> HIDE DEF k, q
<1>6. Beyond(tdh', tdt') = IF q + 1 = CardSlots THEN 0 ELSE q + 1
  <2>1. Beyond(tdh, Card!Inc(tdt)) = IF q = CardSlots - 1 THEN 0 ELSE q + 1
    BY <1>1, <1>3, BeyondInc
  <2> QED BY <1>1, <1>2, <1>5, <2>1
<1>7. ASSUME NEW x \in Descs
      PROVE  x \in txdd' <=> q + 1 <= Beyond(tdh, x) /\ Beyond(tdh, x) < CardSlots - k
  <2>1. x \in txdd <=> q <= Beyond(tdh, x) /\ Beyond(tdh, x) < CardSlots - k
    BY DEF TxOrder, k, q
  <2>2. Beyond(tdh, x) \in Descs /\ (Beyond(tdh, x) = q <=> x = tdt)
    BY <1>1, <1>3, BeyondFacts
  <2>3. Beyond(tdh, x) \in Nat
    BY <2>2 DEF Descs
  <2>4. x \in txdd' <=> x \in txdd /\ Beyond(tdh, x) # q
    BY <1>5, <2>2
  <2>5. Beyond(tdh, x) # q /\ q <= Beyond(tdh, x) <=> q + 1 <= Beyond(tdh, x)
    BY <1>2, <2>3
  <2> QED BY <2>1, <2>4, <2>5
<1>8. ASSUME NEW x \in Descs, Beyond(tdh, x) < q + 1
      PROVE  txbuf'[x] = Len(wire) + Beyond(tdh, x) + 1
  <2>1. Beyond(tdh, x) \in Descs /\ (Beyond(tdh, x) = q <=> x = tdt)
    BY <1>1, <1>3, BeyondFacts
  <2>2. Beyond(tdh, x) \in Nat
    BY <2>1 DEF Descs
  <2>3. CASE x = tdt
    BY <1>1, <1>2, <2>1, <2>3
  <2>4. CASE x # tdt
    <3>1. Beyond(tdh, x) < q
      BY <1>2, <1>8, <2>1, <2>2, <2>4
    <3>2. txbuf[x] = Len(wire) + Beyond(tdh, x) + 1
      BY <3>1 DEF TxOrder, q
    <3> QED BY <2>4, <3>2
  <2> QED BY <2>3, <2>4
<1>9. /\ \A i \in 1 .. k : Beyond(tdh, sending[i]) = CardSlots - k + i - 1
      /\ \A i \in 1 .. Len(wire) : wire[i] = i
  BY DEF TxOrder, k
<1>10. q + 1 \in Nat /\ q + 1 + k <= CardSlots
  BY <1>1, <1>2, <1>3
<1> QED
  BY <1>4, <1>5, <1>6, <1>7, <1>8, <1>9, <1>10 DEF TxOrder

(* The card sends the oldest frame that waits. *)
LEMMA TransmitOrder ==
  ASSUME CardTypes, TxOrder, Card!Transmit
  PROVE  TxOrder'
<1> DEFINE k == Len(sending)
           q == Unsent
           w == Len(wire)
<1>1. /\ tdt \in Descs /\ tdh \in Descs /\ k \in Nat /\ w \in Nat
      /\ CardSlots \in Nat \ {0, 1} /\ Handed \in Int
      /\ sending \in Seq(Descs) /\ wire \in Seq(Nat) /\ txbuf[tdh] \in Nat
  <2>1. sending \in Seq(Descs) /\ wire \in Seq(Nat) /\ txbuf \in [Descs -> Nat]
    BY DEF CardTypes
  <2> QED BY <2>1, TypesOfCard, CardFacts DEF Handed
<1>2. /\ tdh # tdt /\ wire' = Append(wire, txbuf[tdh]) /\ sending' = Append(sending, tdh)
      /\ tdh' = Card!Inc(tdh) /\ UNCHANGED <<tdt, txbuf, txdd, c_pc, calls>>
  BY DEF Card!Transmit
<1>3. /\ q \in Nat /\ q + k <= CardSlots /\ q = Handed - w
      /\ Beyond(tdh, tdt) = IF q = CardSlots THEN 0 ELSE q
  BY DEF TxOrder, Unsent
<1>4. q \in 1 .. CardSlots - 1 /\ Beyond(tdh, tdt) = q
  <2>1. Beyond(tdh, tdt) # 0
    BY <1>1, <1>2, BeyondFacts
  <2>2. q # CardSlots /\ Beyond(tdh, tdt) = q
    BY <1>3, <2>1
  <2>3. q \in Nat /\ q + k <= CardSlots /\ q # 0
    BY <1>3, <2>1, <2>2
  <2> HIDE DEF q, k
  <2> QED BY <1>1, <2>2, <2>3
<1>5. /\ Len(wire') = w + 1 /\ wire'[w + 1] = txbuf[tdh]
      /\ \A i \in 1 .. w : wire'[i] = wire[i]
      /\ Len(sending') = k + 1 /\ sending'[k + 1] = tdh
      /\ \A i \in 1 .. k : sending'[i] = sending[i]
  BY <1>1, <1>2, AppendProperties
<1>6. Unsent' = q - 1
  <2>1. Handed' = Handed
    BY <1>2 DEF Handed, Sending
  <2>2. Unsent' = Handed' - Len(wire')
    BY DEF Unsent
  <2> QED BY <1>1, <1>3, <1>5, <2>1, <2>2
<1>7. /\ \A i \in 1 .. k : Beyond(tdh, sending[i]) = CardSlots - k + i - 1
      /\ \A i \in 1 .. w : wire[i] = i
      /\ \A x \in Descs : x \in txdd <=> q <= Beyond(tdh, x) /\ Beyond(tdh, x) < CardSlots - k
      /\ \A x \in Descs : Beyond(tdh, x) < q => txbuf[x] = w + Beyond(tdh, x) + 1
  BY DEF TxOrder
<1> HIDE DEF k, q, w
<1>8. \A x \in Descs : /\ Beyond(tdh', x) = IF x = tdh THEN CardSlots - 1 ELSE Beyond(tdh, x) - 1
                       /\ Beyond(tdh, x) \in Nat /\ (Beyond(tdh, x) = 0 <=> x = tdh)
  <2>1. \A x \in Descs :
          Beyond(tdh', x) = IF x = tdh THEN CardSlots - 1 ELSE Beyond(tdh, x) - 1
    BY <1>1, <1>2, BeyondInc
  <2>2. \A x \in Descs : Beyond(tdh, x) \in Descs /\ (Beyond(tdh, x) = 0 <=> x = tdh)
    BY <1>1, BeyondFacts
  <2> QED BY <2>1, <2>2 DEF Descs
<1>9. Beyond(tdh', tdt') = q - 1
  BY <1>1, <1>2, <1>4, <1>8
<1>10. ASSUME NEW i \in 1 .. k + 1
       PROVE  Beyond(tdh', sending'[i]) = CardSlots - (k + 1) + i - 1
  <2>1. CASE i = k + 1
    BY <1>1, <1>5, <1>8, <2>1
  <2>2. CASE i # k + 1
    <3>1. i \in 1 .. k /\ sending'[i] = sending[i] /\ sending[i] \in Descs
      BY <1>1, <1>5, <2>2 DEF k
    <3>2. Beyond(tdh, sending[i]) = CardSlots - k + i - 1 /\ CardSlots - k + i - 1 > 0
      BY <1>1, <1>3, <1>4, <1>7, <3>1
    <3>3. Beyond(tdh', sending[i]) = Beyond(tdh, sending[i]) - 1
      BY <1>8, <3>1, <3>2
    <3> QED BY <1>1, <3>1, <3>2, <3>3
  <2> QED BY <2>1, <2>2
<1>11. txbuf[tdh] = w + 1
  <2>1. Beyond(tdh, tdh) = 0 /\ 0 < q
    BY <1>1, <1>4, <1>8
  <2>2. txbuf[tdh] = w + 0 + 1
    BY <1>1, <1>7, <2>1
  <2> QED BY <1>1, <2>2
<1>12. ASSUME NEW x \in Descs
       PROVE  /\ x \in txdd <=> q - 1 <= Beyond(tdh', x) /\ Beyond(tdh', x) < CardSlots - (k + 1)
              /\ Beyond(tdh', x) < q - 1 => txbuf[x] = (w + 1) + Beyond(tdh', x) + 1
  <2>1. CASE x = tdh
    BY <1>1, <1>3, <1>4, <1>7, <1>8, <2>1
  <2>2. CASE x # tdh
    <3>1. Beyond(tdh', x) = Beyond(tdh, x) - 1 /\ Beyond(tdh, x) \in Nat
      BY <1>8, <2>2
    <3>2. /\ x \in txdd <=> q <= Beyond(tdh, x) /\ Beyond(tdh, x) < CardSlots - k
          /\ Beyond(tdh, x) < q => txbuf[x] = w + Beyond(tdh, x) + 1
      BY <1>7
    <3> QED BY <1>1, <1>4, <3>1, <3>2
  <2> QED BY <2>1, <2>2
<1>13. ASSUME NEW i \in 1 .. w + 1 PROVE wire'[i] = i
  <2>1. CASE i = w + 1
    BY <1>5, <1>11, <2>1
  <2>2. CASE i # w + 1
    <3>1. i \in 1 .. w
      BY <1>1, <2>2
    <3> QED BY <1>5, <1>7, <3>1
  <2> QED BY <2>1, <2>2
<1>14. q - 1 \in Nat /\ (q - 1) + (k + 1) <= CardSlots /\ q - 1 # CardSlots
  BY <1>1, <1>3, <1>4
<1> QED
  BY <1>2, <1>5, <1>6, <1>9, <1>10, <1>12, <1>13, <1>14 DEF TxOrder

(* The card reports the oldest frame it has sent: its descriptor is free again. *)
LEMMA ReportOrder ==
  ASSUME CardTypes, TxOrder, Card!Report
  PROVE  TxOrder'
<1> DEFINE k == Len(sending)
           q == Unsent
<1>1. /\ tdt \in Descs /\ tdh \in Descs /\ k \in Nat /\ CardSlots \in Nat \ {0, 1}
      /\ sending \in Seq(Descs)
  BY TypesOfCard, CardFacts DEF CardTypes
<1>2. /\ sending # <<>> /\ txdd' = txdd \cup {Head(sending)} /\ sending' = Tail(sending)
      /\ UNCHANGED <<tdt, tdh, txbuf, wire, c_pc, calls>>
  BY DEF Card!Report
<1>3. /\ k \in Nat \ {0} /\ Head(sending) = sending[1] /\ Len(sending') = k - 1
      /\ \A i \in 1 .. k - 1 : sending'[i] = sending[i + 1]
      /\ \A i \in 1 .. k : sending[i] \in Descs
  BY <1>1, <1>2, HeadTailProperties, EmptySeq, ElementOfSeq
<1>4. Unsent' = q
  <2>1. Handed' = Handed
    BY <1>2 DEF Handed, Sending
  <2> QED BY <1>2, <2>1 DEF Unsent
<1>5. /\ q \in Nat /\ q + k <= CardSlots
      /\ Beyond(tdh, tdt) = IF q = CardSlots THEN 0 ELSE q
      /\ \A i \in 1 .. k : Beyond(tdh, sending[i]) = CardSlots - k + i - 1
      /\ \A x \in Descs : x \in txdd <=> q <= Beyond(tdh, x) /\ Beyond(tdh, x) < CardSlots - k
      /\ \A i \in 1 .. Len(wire) : wire[i] = i
      /\ \A x \in Descs : Beyond(tdh, x) < q => txbuf[x] = Len(wire) + Beyond(tdh, x) + 1
  BY DEF TxOrder
<1> HIDE DEF k, q
<1>6. \A i \in 1 .. k - 1 : Beyond(tdh, sending'[i]) = CardSlots - (k - 1) + i - 1
  <2> SUFFICES ASSUME NEW i \in 1 .. k - 1
               PROVE  Beyond(tdh, sending'[i]) = CardSlots - (k - 1) + i - 1
    OBVIOUS
  <2>1. i + 1 \in 1 .. k /\ sending'[i] = sending[i + 1]
    BY <1>3
  <2> QED BY <1>1, <1>3, <1>5, <2>1
<1>7. ASSUME NEW x \in Descs
      PROVE  x \in txdd' <=> q <= Beyond(tdh, x) /\ Beyond(tdh, x) < CardSlots - (k - 1)
  <2>1. x = sending[1] <=> Beyond(tdh, x) = CardSlots - k
    <3>1. 1 \in 1 .. k /\ sending[1] \in Descs
      BY <1>3
    <3>2. Beyond(tdh, sending[1]) = CardSlots - k
      BY <1>1, <1>5, <3>1
    <3> QED BY <1>1, <3>1, <3>2, BeyondFacts
  <2>2. Beyond(tdh, x) \in Nat
    BY <1>1, BeyondFacts DEF Descs
  <2>3. x \in txdd' <=> x \in txdd \/ Beyond(tdh, x) = CardSlots - k
    BY <1>2, <1>3, <2>1
  <2> QED BY <1>1, <1>3, <1>5, <2>2, <2>3
<1>8. q + (k - 1) <= CardSlots
  BY <1>1, <1>5
<1> QED
  BY <1>2, <1>3, <1>4, <1>5, <1>6, <1>7, <1>8 DEF TxOrder

(* The order depends on the ring, on what was sent and on what was handed over. *)
LEMMA SameOrder ==
  ASSUME TxOrder, UNCHANGED <<tdt, tdh, txbuf, txdd, sending, wire>>, Handed' = Handed
  PROVE  TxOrder'
<1>1. Unsent' = Unsent
  BY DEF Unsent
<1> QED BY <1>1 DEF TxOrder

(* A call of e1000_send_packet finds its descriptor free or waits for it. *)
LEMMA EnterInv ==
  ASSUME CardTypes, TxInv, NEW s \in CardUsers, Card!Enter(s)
  PROVE  TxInv'
<1> SUFFICES ASSUME ~raced' PROVE TxOrder' /\ TxCaller'
  BY DEF TxInv
<1>1. /\ ~raced /\ calls' = calls + 1
      /\ \A t \in CardUsers : ~Sending(t)
      /\ slot' = [slot EXCEPT ![s] = tdt] /\ frame' = [frame EXCEPT ![s] = calls + 1]
      /\ UNCHANGED <<tdh, sending, wire>>
  BY CardFacts DEF Card!Enter, Sending
<1>2. Handed = calls /\ calls \in Nat /\ TxOrder
  BY <1>1, TypesOfCard DEF Handed, TxInv
<1>3. CASE tdt \in txdd
  <2>1. txbuf' = [txbuf EXCEPT ![tdt] = calls + 1] /\ Card!Submit(tdt) /\ c_pc' = c_pc
    BY <1>3 DEF Card!Enter, Card!Free
  <2>2. \A t \in CardUsers : ~Sending(t)'
    BY <1>1, <2>1 DEF Sending
  <2>3. Handed' = Handed + 1
    BY <1>1, <1>2, <2>2 DEF Handed
  <2>4. /\ DOMAIN txbuf' = Descs /\ txbuf'[tdt] = Handed + 1
        /\ \A x \in Descs : x # tdt => txbuf'[x] = txbuf[x]
    BY <1>2, <2>1, TypesOfCard DEF CardTypes
  <2>5. TxOrder'
    BY <1>1, <1>2, <1>3, <2>1, <2>3, <2>4, SubmitOrder
  <2>6. TxCaller'
    BY <2>2 DEF TxCaller
  <2> QED BY <2>5, <2>6
<1>4. CASE tdt \notin txdd
  <2>1. c_pc' = [c_pc EXCEPT ![s] = "wait"] /\ UNCHANGED <<txbuf, tdt, txdd>>
    BY <1>4 DEF Card!Enter, Card!Free
  <2>2. c_pc'[s] = "wait" /\ \A t \in CardUsers : t # s => c_pc'[t] = c_pc[t]
    BY <2>1, TypesOfCard
  <2>3. \A t \in CardUsers : Sending(t)' <=> t = s
    BY <1>1, <2>2 DEF Sending
  <2>4. Handed' = calls' - 1
    BY <2>3 DEF Handed
  <2>5. TxOrder'
    BY <1>1, <1>2, <2>1, <2>4, SameOrder
  <2>6. slot'[s] = tdt /\ frame'[s] = calls + 1
    BY <1>1, TypesOfCard
  <2>7. TxCaller'
    BY <1>1, <1>2, <2>1, <2>2, <2>3, <2>6 DEF TxCaller
  <2> QED BY <2>5, <2>7
<1> QED BY <1>3, <1>4

(* The frame is copied into the descriptor that became free. *)
LEMMA CopyInv ==
  ASSUME CardTypes, TxInv, NEW s \in CardUsers, Card!Copy(s)
  PROVE  TxInv'
<1> SUFFICES ASSUME ~raced PROVE TxOrder' /\ TxCaller'
  BY DEF TxInv, Card!Copy
<1>1. /\ c_pc[s] = "wait" /\ slot[s] \in txdd
      /\ txbuf' = [txbuf EXCEPT ![slot[s]] = frame[s]]
      /\ c_pc' = [c_pc EXCEPT ![s] = "submit"]
      /\ UNCHANGED <<tdt, tdh, txdd, sending, slot, frame, calls, wire>>
  BY DEF Card!Copy, Card!Free
<1>2. TxOrder /\ TxCaller /\ Sending(s)
  BY <1>1 DEF TxInv, Sending
<1>3. slot[s] = tdt /\ frame[s] = calls /\ calls > 0 /\ tdt \in txdd /\ tdt \in Descs
  BY <1>1, <1>2, TypesOfCard DEF TxCaller
<1>4. \A t \in CardUsers : Sending(t) <=> t = s
  BY <1>2 DEF TxCaller
<1>5. c_pc'[s] = "submit" /\ \A t \in CardUsers : t # s => c_pc'[t] = c_pc[t]
  BY <1>1, TypesOfCard
<1>6. \A t \in CardUsers : Sending(t)' <=> t = s
  BY <1>4, <1>5 DEF Sending
<1>7. Handed' = Handed /\ Unsent' = Unsent
  <2>1. Handed' = Handed
    BY <1>1, <1>4, <1>6 DEF Handed
  <2> QED BY <1>1, <2>1 DEF Unsent
<1>8. txbuf'[tdt] = calls /\ \A x \in Descs : x # tdt => txbuf'[x] = txbuf[x]
  BY <1>1, <1>3 DEF CardTypes
<1>9. \A x \in Descs : Beyond(tdh, x) < Unsent => x # tdt
  <2>1. Unsent <= Beyond(tdh, tdt) /\ Unsent \in Nat
    BY <1>2, <1>3 DEF TxOrder
  <2>2. \A x \in Descs : Beyond(tdh, x) \in Int
    BY TypesOfCard, BeyondFacts DEF Descs
  <2> QED BY <1>3, <2>1, <2>2
<1>10. TxOrder'
  BY <1>1, <1>2, <1>7, <1>8, <1>9 DEF TxOrder
<1>11. TxCaller'
  BY <1>1, <1>3, <1>6, <1>8 DEF TxCaller
<1> QED BY <1>10, <1>11

(* The call that waited ends as one that did not. *)
LEMMA FinishInv ==
  ASSUME CardTypes, TxInv, NEW s \in CardUsers, Card!Finish(s)
  PROVE  TxInv'
<1> SUFFICES ASSUME ~raced PROVE TxOrder' /\ TxCaller'
  BY DEF TxInv, Card!Finish
<1>1. /\ c_pc[s] = "submit" /\ Card!Submit(slot[s])
      /\ c_pc' = [c_pc EXCEPT ![s] = "idle"]
      /\ UNCHANGED <<tdh, txbuf, sending, slot, frame, calls, wire>>
  BY DEF Card!Finish
<1>2. TxOrder /\ TxCaller /\ Sending(s)
  BY <1>1 DEF TxInv, Sending
<1>3. slot[s] = tdt /\ tdt \in txdd /\ txbuf[tdt] = calls
  BY <1>1, <1>2 DEF TxCaller
<1>4. \A t \in CardUsers : Sending(t) <=> t = s
  BY <1>2 DEF TxCaller
<1>5. \A t \in CardUsers : ~Sending(t)'
  BY <1>1, <1>4, TypesOfCard DEF Sending
<1>6. Handed = calls - 1 /\ Handed' = Handed + 1 /\ txbuf[tdt] = Handed + 1
  BY <1>1, <1>3, <1>4, <1>5, TypesOfCard DEF Handed
<1>7. DOMAIN txbuf' = Descs
  BY <1>1 DEF CardTypes
<1>8. TxOrder'
  BY <1>1, <1>2, <1>3, <1>6, <1>7, SubmitOrder
<1>9. TxCaller'
  BY <1>5 DEF TxCaller
<1> QED BY <1>8, <1>9

(* The card's own steps free descriptors and change no frame that waits. *)
LEMMA CardInv ==
  ASSUME CardTypes, TxInv, Card!Transmit \/ Card!Report
  PROVE  TxInv'
<1> SUFFICES ASSUME ~raced PROVE TxOrder' /\ TxCaller'
  BY DEF TxInv, Card!Transmit, Card!Report
<1>1. /\ UNCHANGED <<tdt, txbuf, c_pc, slot, frame, calls>> /\ txdd \subseteq txdd'
  BY DEF Card!Transmit, Card!Report
<1>2. TxOrder'
  BY TransmitOrder, ReportOrder DEF TxInv
<1>3. TxCaller'
  BY <1>1 DEF TxInv, TxCaller, Sending
<1> QED BY <1>2, <1>3

(* The driver and the card keep the types. *)
LEMMA CardTypesStep ==
  ASSUME CardTypes, [Card!Next]_(Card!vars)
  PROVE  CardTypes'
<1>0. /\ tdt \in Descs /\ tdh \in Descs /\ txdd \subseteq Descs /\ rxdd \subseteq Descs
      /\ rdh \in Descs /\ rx_cur \in Descs /\ rdt \in -1 .. CardSlots - 1
      /\ c_pc \in [CardUsers -> {"idle", "wait", "submit"}] /\ slot \in [CardUsers -> Descs]
      /\ frame \in [CardUsers -> 0 .. CardSent] /\ calls \in 0 .. CardSent
      /\ raced \in BOOLEAN /\ wild \in BOOLEAN /\ handling \in BOOLEAN
      /\ txbuf \in [Descs -> Nat] /\ rxbuf \in [Descs -> Nat]
      /\ sending \in Seq(Descs) /\ wire \in Seq(Nat)
      /\ c_taken \in Seq(Nat) /\ came \in Nat
  BY TypesOfCard DEF CardTypes
<1>1. ASSUME NEW s \in CardUsers,
             Card!Enter(s) \/ Card!Copy(s) \/ Card!Finish(s) \/ Card!Transmit \/ Card!Report
      PROVE  /\ tdt' \in Descs /\ tdh' \in Descs /\ txdd' \subseteq Descs
             /\ c_pc' \in [CardUsers -> {"idle", "wait", "submit"}]
             /\ slot' \in [CardUsers -> Descs] /\ frame' \in [CardUsers -> 0 .. CardSent]
             /\ calls' \in 0 .. CardSent /\ raced' \in BOOLEAN
             /\ txbuf' \in [Descs -> Nat] /\ sending' \in Seq(Descs) /\ wire' \in Seq(Nat)
  <2>1. CASE Card!Enter(s)
    <3>1. /\ calls' = calls + 1 /\ calls < CardSent
          /\ slot' = [slot EXCEPT ![s] = tdt] /\ frame' = [frame EXCEPT ![s] = calls + 1]
          /\ UNCHANGED <<tdh, sending, wire>> /\ raced' \in BOOLEAN
          /\ \/ /\ txbuf' = [txbuf EXCEPT ![tdt] = calls + 1]
                /\ tdt' = Card!Inc(tdt) /\ txdd' = txdd \ {tdt} /\ UNCHANGED c_pc
             \/ /\ c_pc' = [c_pc EXCEPT ![s] = "wait"] /\ UNCHANGED <<txbuf, tdt, txdd>>
      BY <2>1 DEF Card!Enter, Card!Submit
    <3>2. calls + 1 \in 0 .. CardSent /\ calls + 1 \in Nat
      BY <1>0, <3>1, CardFacts
    <3>3. Card!Inc(tdt) \in Descs
      BY <1>0, BeyondInc
    <3>4. slot' \in [CardUsers -> Descs] /\ frame' \in [CardUsers -> 0 .. CardSent]
      BY <1>0, <3>1, <3>2
    <3>5. txbuf' \in [Descs -> Nat] /\ c_pc' \in [CardUsers -> {"idle", "wait", "submit"}]
      <4>1. /\ [txbuf EXCEPT ![tdt] = calls + 1] \in [Descs -> Nat]
            /\ [c_pc EXCEPT ![s] = "wait"] \in [CardUsers -> {"idle", "wait", "submit"}]
        BY <1>0, <3>2
      <4> QED BY <1>0, <3>1, <4>1
    <3>6. tdt' \in Descs /\ txdd' \subseteq Descs
      BY <1>0, <3>1, <3>3
    <3>7. tdh' \in Descs /\ sending' \in Seq(Descs) /\ wire' \in Seq(Nat)
      BY <1>0, <3>1
    <3>8. calls' \in 0 .. CardSent /\ raced' \in BOOLEAN
      BY <3>1, <3>2
    <3> QED BY <3>4, <3>5, <3>6, <3>7, <3>8
  <2>2. CASE Card!Copy(s)
    <3>1. frame[s] \in Nat
      BY <1>0, CardFacts
    <3> QED BY <1>0, <2>2, <3>1 DEF Card!Copy
  <2>3. CASE Card!Finish(s)
    <3>1. slot[s] \in Descs /\ Card!Inc(slot[s]) \in Descs
      BY <1>0, BeyondInc
    <3> QED BY <1>0, <2>3, <3>1 DEF Card!Finish, Card!Submit
  <2>4. CASE Card!Transmit
    <3>1. Card!Inc(tdh) \in Descs /\ txbuf[tdh] \in Nat
      BY <1>0, BeyondInc
    <3>2. Append(wire, txbuf[tdh]) \in Seq(Nat) /\ Append(sending, tdh) \in Seq(Descs)
      BY <1>0, <3>1, AppendProperties
    <3> QED BY <1>0, <2>4, <3>1, <3>2 DEF Card!Transmit
  <2>5. CASE Card!Report
    <3>1. sending # <<>>
      BY <2>5 DEF Card!Report
    <3>2. Head(sending) \in Descs /\ Tail(sending) \in Seq(Descs)
      BY <1>0, <3>1, HeadTailProperties
    <3> QED BY <1>0, <2>5, <3>2 DEF Card!Report
  <2> QED BY <1>1, <2>1, <2>2, <2>3, <2>4, <2>5
<1>2. ASSUME Card!Arrive \/ Card!Take \/ Card!Advance
      PROVE  /\ rxdd' \subseteq Descs /\ rdh' \in Descs /\ rx_cur' \in Descs
             /\ rdt' \in -1 .. CardSlots - 1 /\ rxbuf' \in [Descs -> Nat]
             /\ wild' \in BOOLEAN /\ handling' \in BOOLEAN
             /\ c_taken' \in Seq(Nat) /\ came' \in Nat
  <2>1. CASE Card!Arrive
    <3>1. /\ came' = came + 1
          /\ \/ UNCHANGED <<rdh, rxbuf, rxdd, wild>>
             \/ /\ rxbuf' = [rxbuf EXCEPT ![rdh] = came + 1] /\ rxdd' = rxdd \cup {rdh}
                /\ rdh' = Card!Inc(rdh) /\ wild' \in BOOLEAN
          /\ UNCHANGED <<rdt, rx_cur, handling, c_taken>>
      BY <2>1 DEF Card!Arrive
    <3>2. Card!Inc(rdh) \in Descs
      BY <1>0, BeyondInc
    <3>3. came' \in Nat /\ [rxbuf EXCEPT ![rdh] = came + 1] \in [Descs -> Nat]
      BY <1>0, <3>1
    <3>4. rxbuf' \in [Descs -> Nat] /\ rxdd' \subseteq Descs /\ rdh' \in Descs /\ wild' \in BOOLEAN
      <4>1. CASE UNCHANGED <<rdh, rxbuf, rxdd, wild>>
        BY <1>0, <4>1
      <4>2. CASE /\ rxbuf' = [rxbuf EXCEPT ![rdh] = came + 1] /\ rxdd' = rxdd \cup {rdh}
                 /\ rdh' = Card!Inc(rdh) /\ wild' \in BOOLEAN
        BY <1>0, <3>2, <3>3, <4>2
      <4> QED BY <3>1, <4>1, <4>2
    <3>5. rdt' = rdt /\ rx_cur' = rx_cur /\ handling' = handling /\ c_taken' = c_taken
      BY <3>1
    <3> QED BY <1>0, <3>3, <3>4, <3>5
  <2>2. CASE Card!Take
    <3>1. Append(c_taken, rxbuf[rx_cur]) \in Seq(Nat)
      BY <1>0, AppendProperties
    <3> QED BY <1>0, <2>2, <3>1 DEF Card!Take
  <2>3. CASE Card!Advance
    <3>1. Card!Inc(rx_cur) \in Descs
      BY <1>0, BeyondInc
    <3>2. Card!Inc(rx_cur) - 1 \in -1 .. CardSlots - 1
      BY <3>1, CardFacts DEF Descs
    <3> QED BY <1>0, <2>3, <3>1, <3>2 DEF Card!Advance, Card!GiveBack
  <2> QED BY <1>2, <2>1, <2>2, <2>3
<1>3. ASSUME /\ tdt' \in Descs /\ tdh' \in Descs /\ txdd' \subseteq Descs
             /\ c_pc' \in [CardUsers -> {"idle", "wait", "submit"}]
             /\ slot' \in [CardUsers -> Descs] /\ frame' \in [CardUsers -> 0 .. CardSent]
             /\ calls' \in 0 .. CardSent /\ raced' \in BOOLEAN
             /\ txbuf' \in [Descs -> Nat] /\ sending' \in Seq(Descs) /\ wire' \in Seq(Nat),
             /\ rxdd' \subseteq Descs /\ rdh' \in Descs /\ rx_cur' \in Descs
             /\ rdt' \in -1 .. CardSlots - 1 /\ rxbuf' \in [Descs -> Nat]
             /\ wild' \in BOOLEAN /\ handling' \in BOOLEAN
             /\ c_taken' \in Seq(Nat) /\ came' \in Nat
      PROVE  CardTypes'
  BY <1>3, CardFacts DEF CardTypes, Card!TypeOK
<1>4. CASE UNCHANGED Card!txVars
  BY <1>4, <1>0, <1>2, <1>3 DEF Card!Next, Card!vars, Card!txVars, Card!rxVars, Card!Send,
     Card!Copy, Card!Finish, Card!Transmit, Card!Report
<1>5. CASE UNCHANGED Card!rxVars
  BY <1>5, <1>0, <1>1, <1>3, CardFacts
     DEF Card!Next, Card!vars, Card!txVars, Card!rxVars, Card!Send, CardUsers,
         Card!Arrive, Card!Take, Card!Advance
<1>6. CASE Card!Take /\ Card!Enter(CardHandler)
  BY <1>6, <1>1, <1>2, <1>3 DEF CardUsers
<1> QED BY <1>4, <1>5, <1>6 DEF Card!Next, Card!vars, Card!Send, Card!Copy, Card!Finish,
        Card!Transmit, Card!Report, Card!Arrive, Card!Take, Card!Advance

\* The frames received and not handed back.
Filled == Beyond(rx_cur, rdh)

\* From rx_cur on: what the card has filled, in order.
RxRing ==
  /\ rdt = rx_cur - 1 \/ (rx_cur = 0 /\ rdt = CardSlots - 1)
  /\ \A x \in Descs : x \in rxdd <=> Beyond(rx_cur, x) < Filled
  /\ handling => rx_cur \in rxdd

\* Frames are numbered as they come: those handled, then those in the ring.
RxFrames ==
  /\ \A x \in rxdd : rxbuf[x] <= came
  /\ \A x, y \in rxdd : Beyond(rx_cur, x) < Beyond(rx_cur, y) => rxbuf[x] < rxbuf[y]
  /\ \A i, j \in 1 .. Len(c_taken) : i < j => c_taken[i] < c_taken[j]
  /\ \A i \in 1 .. Len(c_taken) : c_taken[i] <= came
  /\ \A i \in 1 .. Len(c_taken), x \in rxdd :
       c_taken[i] < rxbuf[x] \/ (handling /\ x = rx_cur)

RxInv == ~wild => RxRing /\ RxFrames

(* A frame that arrives is behind the others, in a descriptor that was free. *)
LEMMA ArriveInv ==
  ASSUME CardTypes, RxInv, Card!Arrive
  PROVE  RxInv'
<1> SUFFICES ASSUME ~wild' PROVE RxRing' /\ RxFrames'
  BY DEF RxInv
<1>0. /\ rx_cur \in Descs /\ rdh \in Descs /\ CardSlots \in Nat \ {0, 1} /\ came \in Nat
      /\ rxdd \subseteq Descs /\ rxbuf \in [Descs -> Nat] /\ c_taken \in Seq(Nat)
      /\ Len(c_taken) \in Nat
  BY TypesOfCard, CardFacts DEF CardTypes
<1>1. /\ came' = came + 1 /\ UNCHANGED <<rdt, rx_cur, handling, c_taken>>
      /\ rdh = rdt => UNCHANGED <<rdh, rxbuf, rxdd, wild>>
      /\ rdh # rdt => /\ rxbuf' = [rxbuf EXCEPT ![rdh] = came + 1] /\ rxdd' = rxdd \cup {rdh}
                      /\ rdh' = Card!Inc(rdh) /\ wild' = (wild \/ rdt \notin Descs)
  <2>1. CASE rdh = rdt
    BY <2>1 DEF Card!Arrive
  <2>2. CASE rdh # rdt
    <3>1. /\ rxbuf' = [rxbuf EXCEPT ![rdh] = came + 1] /\ rxdd' = rxdd \cup {rdh}
          /\ rdh' = Card!Inc(rdh) /\ wild' = (wild \/ rdt \notin Card!Slots)
          /\ came' = came + 1 /\ UNCHANGED <<rdt, rx_cur, handling, c_taken>>
      BY <2>2 DEF Card!Arrive
    <3>2. wild' = (wild \/ rdt \notin Descs)
      BY <3>1, CardFacts, Zenon
    <3> QED BY <2>2, <3>1, <3>2
  <2> QED BY <2>1, <2>2
<1>2. ~wild /\ RxRing /\ RxFrames
  <2>1. (wild' = wild) \/ wild' = (wild \/ rdt \notin Descs)
    BY <1>1, Zenon
  <2>2. ~wild
    BY <2>1, TypesOfCard
  <2> QED BY <2>2 DEF RxInv
<1>3. \A i \in 1 .. Len(c_taken) : c_taken[i] \in Nat
  BY <1>0
<1>4. CASE rdh = rdt
  <2>1. UNCHANGED <<rdt, rx_cur, handling, c_taken, rdh, rxbuf, rxdd>> /\ came' = came + 1
    BY <1>1, <1>4
  <2>2. RxRing'
    BY <1>2, <2>1 DEF RxRing, Filled
  <2>3. /\ \A x \in rxdd : rxbuf[x] <= came + 1
        /\ \A i \in 1 .. Len(c_taken) : c_taken[i] <= came + 1
    <3>1. \A x \in rxdd : rxbuf[x] \in Nat
      BY <1>0
    <3> QED BY <1>0, <1>2, <1>3, <3>1 DEF RxFrames
  <2>4. RxFrames'
    BY <1>2, <2>1, <2>3 DEF RxFrames
  <2> QED BY <2>2, <2>4
<1>5. CASE rdh # rdt
  <2> DEFINE f == Filled
  <2>1. /\ rxbuf' = [rxbuf EXCEPT ![rdh] = came + 1] /\ rxdd' = rxdd \cup {rdh}
        /\ rdh' = Card!Inc(rdh) /\ rdt \in Descs
    BY <1>1, <1>5
  <2>2. rdt = rx_cur - 1 \/ (rx_cur = 0 /\ rdt = CardSlots - 1)
    BY <1>2 DEF RxRing
  <2>3. Beyond(rx_cur, rdt) = CardSlots - 1
    BY <1>0, <2>1, <2>2 DEF Beyond, Descs
  <2>4. f \in Nat /\ f < CardSlots - 1
    <3>1. f \in Descs /\ f # CardSlots - 1
      BY <1>0, <1>5, <2>1, <2>3, BeyondFacts DEF Filled
    <3> QED BY <1>0, <3>1 DEF Descs
  <2>5. Filled' = f + 1
    <3>1. Beyond(rx_cur, Card!Inc(rdh)) = f + 1
      BY <1>0, <2>4, BeyondInc DEF Filled
    <3> QED BY <1>1, <2>1, <3>1 DEF Filled
  <2>6. \A x \in Descs : /\ Beyond(rx_cur, x) \in Nat /\ (Beyond(rx_cur, x) = f <=> x = rdh)
                         /\ x \in rxdd <=> Beyond(rx_cur, x) < f
    <3>1. \A x \in Descs : Beyond(rx_cur, x) \in Descs /\ (Beyond(rx_cur, x) = f <=> x = rdh)
      BY <1>0, BeyondFacts DEF Filled
    <3> QED BY <1>2, <3>1 DEF RxRing, Descs
  <2> HIDE DEF f
  <2>7. \A x \in Descs : x \in rxdd' <=> Beyond(rx_cur, x) < f + 1
    BY <2>1, <2>4, <2>6
  <2>8. RxRing'
    BY <1>1, <1>2, <2>1, <2>5, <2>7 DEF RxRing
  <2>9. rdh \notin rxdd /\ \A x \in rxdd : x \in Descs /\ Beyond(rx_cur, x) < f
    BY <1>0, <2>4, <2>6
  <2>10. /\ rxbuf'[rdh] = came + 1
         /\ \A x \in rxdd : rxbuf'[x] = rxbuf[x] /\ rxbuf[x] \in Nat /\ rxbuf[x] <= came
    BY <1>0, <1>2, <2>1, <2>9 DEF RxFrames
  <2>11. \A x \in rxdd' : rxbuf'[x] <= came + 1
    BY <1>0, <2>1, <2>10
  <2>12. ASSUME NEW x \in rxdd', NEW y \in rxdd', Beyond(rx_cur, x) < Beyond(rx_cur, y)
         PROVE  rxbuf'[x] < rxbuf'[y]
    <3>1. CASE y = rdh
      <4>1. x \in rxdd
        BY <1>0, <2>1, <2>4, <2>6, <2>12, <3>1
      <4> QED BY <1>0, <2>10, <3>1, <4>1
    <3>2. CASE y # rdh
      <4>1. y \in rxdd /\ x # rdh
        BY <1>0, <2>1, <2>4, <2>6, <2>9, <2>12, <3>2
      <4>2. x \in rxdd
        BY <2>1, <4>1
      <4> QED BY <1>2, <2>10, <2>12, <4>1, <4>2 DEF RxFrames
    <3> QED BY <3>1, <3>2
  <2>13. \A i \in 1 .. Len(c_taken) : c_taken[i] <= came + 1
    BY <1>0, <1>2, <1>3 DEF RxFrames
  <2>14. ASSUME NEW i \in 1 .. Len(c_taken), NEW x \in rxdd'
         PROVE  c_taken[i] < rxbuf'[x] \/ (handling /\ x = rx_cur)
    <3>1. CASE x = rdh
      BY <1>0, <1>2, <1>3, <2>10, <3>1 DEF RxFrames
    <3>2. CASE x # rdh
      <4>1. x \in rxdd
        BY <2>1, <3>2
      <4> QED BY <1>2, <2>10, <4>1 DEF RxFrames
    <3> QED BY <3>1, <3>2
  <2>15. \A i, j \in 1 .. Len(c_taken) : i < j => c_taken[i] < c_taken[j]
    BY <1>2 DEF RxFrames
  <2>16. rx_cur' = rx_cur /\ c_taken' = c_taken /\ handling' = handling /\ came' = came + 1
    BY <1>1
  <2>17. RxFrames'
    BY <2>11, <2>12, <2>13, <2>14, <2>15, <2>16 DEF RxFrames
  <2> QED BY <2>8, <2>17
<1> QED BY <1>4, <1>5

(* The handler takes the oldest frame of the ring. *)
LEMMA TakeInv ==
  ASSUME CardTypes, RxInv, Card!Take
  PROVE  RxInv'
<1> SUFFICES ASSUME ~wild PROVE RxRing' /\ RxFrames'
  BY DEF RxInv, Card!Take
<1>0. /\ rx_cur \in Descs /\ rxdd \subseteq Descs /\ rxbuf \in [Descs -> Nat]
      /\ c_taken \in Seq(Nat) /\ came \in Nat
  BY TypesOfCard DEF CardTypes
<1>1. /\ ~handling /\ rx_cur \in rxdd /\ handling' = TRUE
      /\ c_taken' = Append(c_taken, rxbuf[rx_cur])
      /\ UNCHANGED <<rdt, rdh, rx_cur, rxbuf, rxdd, came>>
  BY DEF Card!Take
<1>2. RxRing /\ RxFrames
  BY DEF RxInv
<1>3. RxRing'
  BY <1>1, <1>2 DEF RxRing, Filled
<1> DEFINE n == Len(c_taken)
           b == rxbuf[rx_cur]
<1>4. /\ n \in Nat /\ b \in Nat /\ b <= came
      /\ Len(c_taken') = n + 1 /\ c_taken'[n + 1] = b
      /\ \A i \in 1 .. n : c_taken'[i] = c_taken[i] /\ c_taken[i] \in Nat
  <2>1. b <= came
    BY <1>1, <1>2 DEF RxFrames
  <2> QED BY <1>0, <1>1, <2>1, AppendProperties, LenProperties
<1>5. /\ \A i, j \in 1 .. n : i < j => c_taken[i] < c_taken[j]
      /\ \A i \in 1 .. n : c_taken[i] <= came
      /\ \A i \in 1 .. n, x \in rxdd : c_taken[i] < rxbuf[x]
      /\ \A x \in rxdd : x # rx_cur => b < rxbuf[x]
  <2>1. ASSUME NEW x \in rxdd, x # rx_cur PROVE b < rxbuf[x]
    <3>1. Beyond(rx_cur, rx_cur) = 0 /\ Beyond(rx_cur, x) \in Nat \ {0}
      BY <1>0, <2>1, BeyondFacts DEF Descs
    <3>2. Beyond(rx_cur, rx_cur) < Beyond(rx_cur, x)
      BY <3>1
    <3> QED BY <1>1, <1>2, <3>2 DEF RxFrames
  <2> QED BY <1>1, <1>2, <2>1 DEF RxFrames
<1> HIDE DEF n, b
<1>6. ASSUME NEW i \in 1 .. n + 1, NEW j \in 1 .. n + 1, i < j
      PROVE  c_taken'[i] < c_taken'[j]
  <2>1. i \in 1 .. n
    BY <1>4, <1>6
  <2>2. CASE j = n + 1
    BY <1>1, <1>4, <1>5, <2>1, <2>2 DEF b
  <2>3. CASE j # n + 1
    <3>1. j \in 1 .. n
      BY <1>4, <2>3
    <3> QED BY <1>4, <1>5, <1>6, <2>1, <3>1
  <2> QED BY <2>2, <2>3
<1>7. ASSUME NEW i \in 1 .. n + 1
      PROVE  /\ c_taken'[i] <= came
             /\ \A x \in rxdd : c_taken'[i] < rxbuf[x] \/ x = rx_cur
  <2>1. CASE i = n + 1
    BY <1>4, <1>5, <2>1
  <2>2. CASE i # n + 1
    <3>1. i \in 1 .. n
      BY <1>4, <2>2
    <3> QED BY <1>4, <1>5, <3>1
  <2> QED BY <2>1, <2>2
<1>8. /\ \A x \in rxdd : rxbuf[x] <= came
      /\ \A x, y \in rxdd : Beyond(rx_cur, x) < Beyond(rx_cur, y) => rxbuf[x] < rxbuf[y]
  BY <1>2 DEF RxFrames
<1>9. RxFrames'
  BY <1>1, <1>4, <1>6, <1>7, <1>8 DEF RxFrames
<1> QED BY <1>3, <1>9

(* The descriptor of the frame that was handled goes back to the card. *)
LEMMA AdvanceInv ==
  ASSUME CardTypes, RxInv, Card!Advance
  PROVE  RxInv'
<1> SUFFICES ASSUME ~wild PROVE RxRing' /\ RxFrames'
  BY DEF RxInv, Card!Advance
<1>0. /\ rx_cur \in Descs /\ rdh \in Descs /\ rxdd \subseteq Descs
      /\ CardSlots \in Nat \ {0, 1}
  BY TypesOfCard, CardFacts
<1>1. /\ handling /\ rxdd' = rxdd \ {rx_cur} /\ rx_cur' = Card!Inc(rx_cur)
      /\ rdt' = Card!Inc(rx_cur) - 1 /\ handling' = FALSE
      /\ UNCHANGED <<rdh, rxbuf, came, c_taken>>
  BY DEF Card!Advance, Card!GiveBack
<1>2. RxRing /\ RxFrames /\ rx_cur \in rxdd
  BY <1>1 DEF RxInv, RxRing
<1> DEFINE f == Filled
<1>3. f \in Nat \ {0} /\ f < CardSlots /\ rdh # rx_cur
  <2>1. f \in Descs /\ Beyond(rx_cur, rx_cur) = 0 /\ Beyond(rx_cur, rx_cur) < f
    BY <1>0, <1>2, BeyondFacts DEF Filled, RxRing
  <2> QED BY <1>0, <2>1, BeyondFacts DEF Descs, Filled
<1>4. \A x \in Descs :
        /\ Beyond(rx_cur', x) = IF x = rx_cur THEN CardSlots - 1 ELSE Beyond(rx_cur, x) - 1
        /\ Beyond(rx_cur, x) \in Nat /\ (Beyond(rx_cur, x) = 0 <=> x = rx_cur)
        /\ x \in rxdd <=> Beyond(rx_cur, x) < f
  <2>1. \A x \in Descs :
          Beyond(rx_cur', x) = IF x = rx_cur THEN CardSlots - 1 ELSE Beyond(rx_cur, x) - 1
    BY <1>0, <1>1, BeyondInc
  <2>2. \A x \in Descs : Beyond(rx_cur, x) \in Descs /\ (Beyond(rx_cur, x) = 0 <=> x = rx_cur)
    BY <1>0, BeyondFacts
  <2> QED BY <1>2, <2>1, <2>2 DEF Descs, RxRing
<1>5. Filled' = f - 1
  <2>1. Beyond(rx_cur', rdh) = f - 1
    BY <1>0, <1>3, <1>4 DEF Filled
  <2> QED BY <1>1, <2>1 DEF Filled
<1> HIDE DEF f
<1>6. \A x \in Descs : x \in rxdd' <=> Beyond(rx_cur', x) < f - 1
  BY <1>0, <1>1, <1>3, <1>4
<1>7. RxRing'
  BY <1>1, <1>5, <1>6 DEF RxRing
<1>8. \A x \in rxdd' :
        /\ x \in Descs /\ x \in rxdd /\ x # rx_cur
        /\ Beyond(rx_cur', x) = Beyond(rx_cur, x) - 1 /\ Beyond(rx_cur, x) \in Nat
  BY <1>0, <1>1, <1>4
<1>9. /\ \A x \in rxdd : rxbuf[x] <= came
      /\ \A x, y \in rxdd : Beyond(rx_cur, x) < Beyond(rx_cur, y) => rxbuf[x] < rxbuf[y]
      /\ \A i, j \in 1 .. Len(c_taken) : i < j => c_taken[i] < c_taken[j]
      /\ \A i \in 1 .. Len(c_taken) : c_taken[i] <= came
      /\ \A i \in 1 .. Len(c_taken), x \in rxdd : c_taken[i] < rxbuf[x] \/ x = rx_cur
  BY <1>2 DEF RxFrames
<1>10. \A x, y \in rxdd' : Beyond(rx_cur', x) < Beyond(rx_cur', y) => rxbuf[x] < rxbuf[y]
  BY <1>8, <1>9
<1>11. RxFrames'
  BY <1>1, <1>8, <1>9, <1>10 DEF RxFrames
<1> QED BY <1>7, <1>11

(* Every step of the driver and of the card keeps the orders of both rings. *)
LEMMA CardStep ==
  ASSUME CardTypes, TxInv, RxInv, [Card!Next]_(Card!vars)
  PROVE  TxInv' /\ RxInv'
<1>1. ASSUME UNCHANGED Card!txVars PROVE TxInv'
  <2>1. UNCHANGED <<tdt, tdh, txbuf, txdd, sending, c_pc, slot, frame, calls, wire, raced>>
    BY <1>1 DEF Card!txVars
  <2>2. Handed' = Handed
    BY <2>1 DEF Handed, Sending
  <2>3. TxOrder => TxOrder'
    BY <2>1, <2>2, SameOrder
  <2>4. TxCaller => TxCaller'
    BY <2>1 DEF TxCaller, Sending
  <2> QED BY <2>1, <2>3, <2>4 DEF TxInv
<1>2. ASSUME UNCHANGED Card!rxVars PROVE RxInv'
  <2>1. UNCHANGED <<rdt, rdh, rx_cur, rxbuf, rxdd, handling, came, c_taken, wild>>
    BY <1>2 DEF Card!rxVars
  <2> QED BY <2>1 DEF RxInv, RxRing, RxFrames, Filled
<1>3. ASSUME NEW s \in CardSenders, Card!Send(s) PROVE TxInv' /\ RxInv'
  <2>1. s \in CardUsers /\ Card!Enter(s) /\ UNCHANGED Card!rxVars
    BY <1>3 DEF Card!Send, CardUsers
  <2> QED BY <1>2, <2>1, EnterInv
<1>4. ASSUME NEW s \in CardUsers, Card!Copy(s) \/ Card!Finish(s) PROVE TxInv' /\ RxInv'
  <2>1. UNCHANGED Card!rxVars
    BY <1>4 DEF Card!Copy, Card!Finish
  <2> QED BY <1>2, <1>4, <2>1, CopyInv, FinishInv
<1>5. ASSUME Card!Transmit \/ Card!Report PROVE TxInv' /\ RxInv'
  <2>1. UNCHANGED Card!rxVars
    BY <1>5 DEF Card!Transmit, Card!Report
  <2> QED BY <1>2, <1>5, <2>1, CardInv
<1>6. ASSUME Card!Arrive PROVE TxInv' /\ RxInv'
  <2>1. UNCHANGED Card!txVars
    BY <1>6 DEF Card!Arrive
  <2> QED BY <1>1, <1>6, <2>1, ArriveInv
<1>7. ASSUME Card!Take PROVE TxInv' /\ RxInv'
  <2>1. Card!Enter(CardHandler) \/ UNCHANGED Card!txVars
    BY <1>7 DEF Card!Take
  <2>2. CardHandler \in CardUsers
    BY DEF CardUsers
  <2> QED BY <1>1, <1>7, <2>1, <2>2, TakeInv, EnterInv
<1>8. ASSUME Card!Advance PROVE TxInv' /\ RxInv'
  <2>1. UNCHANGED Card!txVars
    BY <1>8 DEF Card!Advance
  <2> QED BY <1>1, <1>8, <2>1, AdvanceInv
<1>9. ASSUME UNCHANGED Card!vars PROVE TxInv' /\ RxInv'
  <2>1. UNCHANGED Card!txVars /\ UNCHANGED Card!rxVars
    BY <1>9 DEF Card!vars
  <2> QED BY <1>1, <1>2, <2>1
<1> QED BY <1>3, <1>4, <1>5, <1>6, <1>7, <1>8, <1>9, CardFacts DEF Card!Next

(* The rings as e1000_attach leaves them. *)
LEMMA CardStart ==
  ASSUME Card!Init
  PROVE  CardTypes /\ TxInv /\ RxInv
<1>1. /\ tdt = 0 /\ tdh = 0 /\ txbuf = [i \in Descs |-> 0] /\ txdd = Descs /\ sending = <<>>
      /\ c_pc = [s \in CardUsers |-> "idle"] /\ slot = [s \in CardUsers |-> 0]
      /\ frame = [s \in CardUsers |-> 0] /\ calls = 0 /\ wire = <<>> /\ raced = FALSE
      /\ rdt = CardSlots - 1 /\ rdh = 0 /\ rx_cur = 0 /\ rxbuf = [i \in Descs |-> 0]
      /\ rxdd = {} /\ handling = FALSE /\ came = 0 /\ c_taken = <<>> /\ wild = FALSE
  BY CardFacts DEF Card!Init
<1>2. 0 \in Descs /\ CardSlots \in Nat \ {0, 1} /\ CardSent \in Nat
  BY CardFacts DEF Descs
<1>3. CardTypes
  <2>1. Card!TypeOK
    <3>1. rdt \in -1 .. CardSlots - 1 /\ calls \in 0 .. CardSent
      BY <1>1, <1>2
    <3>2. /\ c_pc \in [CardUsers -> {"idle", "wait", "submit"}]
          /\ slot \in [CardUsers -> Descs] /\ frame \in [CardUsers -> 0 .. CardSent]
      BY <1>1, <1>2
    <3> QED BY <1>1, <1>2, <3>1, <3>2, CardFacts DEF Card!TypeOK
  <2> QED BY <1>1, <2>1 DEF CardTypes
<1>4. \A x \in Descs : Beyond(0, x) = x /\ x \in 0 .. CardSlots - 1
  BY <1>2 DEF Beyond, Descs
<1>5. Handed = 0 /\ Unsent = 0
  <2>1. \A s \in CardUsers : ~Sending(s)
    BY <1>1 DEF Sending
  <2>2. Len(wire) = 0
    BY <1>1
  <2> QED BY <1>1, <2>1, <2>2 DEF Handed, Unsent
<1>6. TxInv
  <2>1. TxOrder
    <3>1. Len(wire) = 0 /\ Len(sending) = 0
      BY <1>1
    <3>2. Beyond(tdh, tdt) = 0
      BY <1>1, <1>2, <1>4
    <3>3. \A x \in Descs : 0 <= Beyond(tdh, x) /\ Beyond(tdh, x) < CardSlots /\ x \in txdd
      BY <1>1, <1>2, <1>4
    <3>4. /\ 0 \in Nat /\ 0 + Len(sending) <= CardSlots
          /\ Beyond(tdh, tdt) = IF 0 = CardSlots THEN 0 ELSE 0
      BY <1>2, <3>1, <3>2
    <3>5. \A i \in 1 .. Len(sending) : Beyond(tdh, sending[i]) = CardSlots - Len(sending) + i - 1
      BY <3>1
    <3>6. \A x \in Descs : x \in txdd <=>
            0 <= Beyond(tdh, x) /\ Beyond(tdh, x) < CardSlots - Len(sending)
      BY <1>2, <3>1, <3>3
    <3>7. \A i \in 1 .. Len(wire) : wire[i] = i
      BY <3>1
    <3>8. \A x \in Descs : Beyond(tdh, x) < 0 => txbuf[x] = Len(wire) + Beyond(tdh, x) + 1
      BY <1>1, <1>4
    <3> QED BY <1>5, <3>4, <3>5, <3>6, <3>7, <3>8 DEF TxOrder
  <2>2. TxCaller
    BY <1>1 DEF TxCaller, Sending
  <2> QED BY <2>1, <2>2 DEF TxInv
<1>7. RxInv
  <2>1. Filled = 0
    BY <1>1, <1>2, <1>4 DEF Filled
  <2>2. \A x \in Descs : ~(Beyond(rx_cur, x) < Filled)
    BY <1>1, <1>4, <2>1
  <2>3. RxRing
    BY <1>1, <2>2 DEF RxRing
  <2>4. RxFrames
    BY <1>1 DEF RxFrames
  <2> QED BY <2>3, <2>4 DEF RxInv
<1> QED BY <1>3, <1>6, <1>7

CardInvs == CardTypes /\ TxInv /\ RxInv

(* What the driver and the card keep, in every behaviour of the component. *)
THEOREM CardInductive == Card!Spec => []CardInvs
<1>1. Card!Init => CardInvs
  BY CardStart DEF CardInvs
<1>2. CardInvs /\ [Card!Next]_(Card!vars) => CardInvs'
  BY CardTypesStep, CardStep DEF CardInvs
<1> QED BY <1>1, <1>2, PTL DEF Card!Spec

(* A behaviour of the machines is one of the card. *)
LEMMA CardRuns == MCSpec => Card!Spec
<1>1. MCInit => Card!Init
  BY DEF MCInit
<1>2. [MCNext]_all => [Card!Next]_(Card!vars)
  <2>1. MCNext => (machine = "card" /\ Card!Next) \/ UNCHANGED cardVars
    BY DEF MCNext, EventsOnly, RingOnly, LogOnly, KeysOnly, LanOnly, DisplayOnly, TypedOnly,
           BusOnly, others
  <2>2. UNCHANGED cardVars => UNCHANGED Card!vars
    BY DEF cardVars, Card!vars, Card!txVars, Card!rxVars
  <2>3. UNCHANGED all => UNCHANGED cardVars
    BY DEF all, others
  <2> QED BY <2>1, <2>2, <2>3
<1> QED BY <1>1, <1>2, PTL DEF MCSpec, Card!Spec

(* The descriptors of the stretch after h are as many as it is long. *)
LEMMA StretchSize ==
  ASSUME NEW h \in Descs, NEW S \in SUBSET Descs, NEW q \in 0 .. CardSlots,
         \A x \in Descs : x \in S <=> Beyond(h, x) < q
  PROVE  Cardinality(S) = q
<1> DEFINE f == [i \in 1 .. q |-> (h + (i - 1)) % CardSlots]
<1>1. \A i \in 1 .. q : i - 1 \in 0 .. CardSlots - 1
  BY CardFacts
<1>2. \A i \in 1 .. q : f[i] \in Descs /\ Beyond(h, f[i]) = i - 1
  BY <1>1, Ahead
<1> HIDE DEF f
<1>3. f \in [1 .. q -> S]
  <2>1. \A i \in 1 .. q : f[i] \in S
    BY <1>2, CardFacts
  <2> QED BY <2>1 DEF f
<1>4. \A i, j \in 1 .. q : f[i] = f[j] => i = j
  BY <1>2, CardFacts
<1>5. \A x \in S : \E i \in 1 .. q : f[i] = x
  <2> SUFFICES ASSUME NEW x \in S PROVE \E i \in 1 .. q : f[i] = x
    OBVIOUS
  <2>1. x \in Descs /\ Beyond(h, x) \in Nat /\ Beyond(h, x) < q
    BY BeyondFacts DEF Descs
  <2>2. Beyond(h, x) + 1 \in 1 .. q
    BY <2>1, CardFacts
  <2>3. Beyond(h, f[Beyond(h, x) + 1]) = Beyond(h, x) /\ f[Beyond(h, x) + 1] \in Descs
    BY <1>2, <2>1, <2>2
  <2> QED BY <2>1, <2>2, <2>3, BeyondFacts
<1>6. f \in Bijection(1 .. q, S)
  <2>1. f \in Injection(1 .. q, S)
    BY <1>3, <1>4 DEF Injection, IsInjective
  <2>2. f \in Surjection(1 .. q, S)
    BY <1>3, <1>5 DEF Surjection
  <2> QED BY <2>1, <2>2 DEF Bijection
<1>7. q \in Nat /\ ExistsBijection(1 .. q, S)
  BY <1>6, CardFacts DEF ExistsBijection
<1> QED BY <1>7, FS_CountingElements

(* From TDH on, what is neither free nor with the card waits to be sent. *)
LEMMA WaitingIs ==
  ASSUME CardTypes, TxOrder
  PROVE  Card!Stretch(txbuf, tdh, Card!Slots \ (txdd \cup Card!ToSet(sending)))
           = RingItems(CardSlots, txbuf, tdh, Unsent)
<1> DEFINE k == Len(sending)
           q == Unsent
           W == Card!Slots \ (txdd \cup Card!ToSet(sending))
<1>1. /\ tdh \in Descs /\ k \in Nat /\ CardSlots \in Nat \ {0, 1} /\ sending \in Seq(Descs)
      /\ q \in Nat /\ q + k <= CardSlots
  BY TypesOfCard, CardFacts DEF CardTypes, TxOrder
<1>2. /\ \A i \in 1 .. k : Beyond(tdh, sending[i]) = CardSlots - k + i - 1
      /\ \A x \in Descs : x \in txdd <=> q <= Beyond(tdh, x) /\ Beyond(tdh, x) < CardSlots - k
  BY DEF TxOrder
<1>3. /\ \A i \in 1 .. k : sending[i] \in Descs
      /\ \A x : x \in Card!ToSet(sending) <=> \E i \in 1 .. k : x = sending[i]
  BY <1>1 DEF Card!ToSet
<1> HIDE DEF k, q
<1>4. \A x \in Descs : /\ Beyond(tdh, x) \in Nat /\ Beyond(tdh, x) < CardSlots
                       /\ \A y \in Descs : Beyond(tdh, x) = Beyond(tdh, y) => x = y
  <2>1. \A x \in Descs : /\ Beyond(tdh, x) \in Descs
                         /\ \A y \in Descs : Beyond(tdh, x) = Beyond(tdh, y) => x = y
    BY <1>1, BeyondFacts, Zenon
  <2>2. \A b \in Descs : b \in Nat /\ b < CardSlots
    BY <1>1 DEF Descs
  <2> QED BY <2>1, <2>2, Zenon
<1>5. ASSUME NEW x \in Descs
      PROVE  x \in Card!ToSet(sending) <=> CardSlots - k <= Beyond(tdh, x)
  <2>1. ASSUME NEW i \in 1 .. k, x = sending[i] PROVE CardSlots - k <= Beyond(tdh, x)
    BY <1>1, <1>2, <2>1
  <2>2. ASSUME CardSlots - k <= Beyond(tdh, x) PROVE \E i \in 1 .. k : x = sending[i]
    <3> DEFINE i == Beyond(tdh, x) - (CardSlots - k) + 1
    <3>1. i \in 1 .. k /\ CardSlots - k + i - 1 = Beyond(tdh, x)
      BY <1>1, <1>4, <2>2
    <3> HIDE DEF i
    <3>2. Beyond(tdh, sending[i]) = Beyond(tdh, x) /\ sending[i] \in Descs
      BY <1>2, <1>3, <3>1
    <3> QED BY <1>4, <3>1, <3>2
  <2> QED BY <1>3, <2>1, <2>2
<1>6. \A x \in Descs : x \in W <=> Beyond(tdh, x) < q
  <2> SUFFICES ASSUME NEW x \in Descs PROVE x \in W <=> Beyond(tdh, x) < q
    OBVIOUS
  <2>1. x \in W <=> ~(x \in txdd) /\ ~(x \in Card!ToSet(sending))
    BY CardFacts
  <2>2. x \in txdd <=> q <= Beyond(tdh, x) /\ Beyond(tdh, x) < CardSlots - k
    BY <1>2
  <2> HIDE DEF W
  <2> QED BY <1>1, <1>4, <1>5, <2>1, <2>2
<1> HIDE DEF W
<1>7. Card!Stretch(txbuf, tdh, W) = RingItems(CardSlots, txbuf, tdh, q)
  <2>1. q \in 0 .. CardSlots
    BY <1>1
  <2> QED BY <1>1, <1>6, <2>1, StretchIs
<1> QED BY <1>7 DEF W, q

(* What went out and what waits are the frames in the order of their calls. *)
LEMMA SentHolds ==
  ASSUME CardInvs
  PROVE  Card!SentInOrder
<1> SUFFICES ASSUME ~raced
             PROVE  \E n \in 0 .. calls :
                      /\ wire \o Card!Stretch(txbuf, tdh,
                                   Card!Slots \ (txdd \cup Card!ToSet(sending)))
                           = [i \in 1 .. n |-> i]
                      /\ n < calls => \E s \in Card!All : c_pc[s] # "idle" /\ frame[s] = n + 1
  BY DEF Card!SentInOrder
<1> DEFINE W == RingItems(CardSlots, txbuf, tdh, Unsent)
           n == Handed
<1>1. CardTypes /\ TxOrder /\ TxCaller
  BY DEF CardInvs, TxInv
<1>2. /\ tdh \in Descs /\ wire \in Seq(Nat) /\ Len(wire) \in Nat /\ txbuf \in [Descs -> Nat]
      /\ calls \in Nat /\ CardSlots \in Nat \ {0, 1}
      /\ Unsent \in Nat /\ Unsent = Handed - Len(wire) /\ Handed \in Int
      /\ Unsent \in 0 .. CardSlots
  <2>1. Len(sending) \in Nat /\ Unsent \in Nat /\ Unsent + Len(sending) <= CardSlots
    BY <1>1, TypesOfCard DEF TxOrder
  <2>2. wire \in Seq(Nat) /\ txbuf \in [Descs -> Nat]
    BY <1>1 DEF CardTypes
  <2>3. tdh \in Descs /\ Len(wire) \in Nat /\ calls \in Nat /\ CardSlots \in Nat \ {0, 1}
    BY <1>1, TypesOfCard, CardFacts
  <2>4. Handed \in Int /\ Unsent = Handed - Len(wire)
    BY <2>3 DEF Handed, Unsent
  <2>5. Unsent \in 0 .. CardSlots
    BY <2>1, <2>3
  <2> QED BY <2>1, <2>2, <2>3, <2>4, <2>5
<1>3. n \in Nat /\ n = Len(wire) + Unsent
  BY <1>2
<1>4. n \in 0 .. calls /\ (n < calls => \E s \in Card!All : c_pc[s] # "idle" /\ frame[s] = n + 1)
  <2>1. CASE \E s \in CardUsers : Sending(s)
    <3>1. PICK s \in CardUsers : Sending(s)
      BY <2>1
    <3>2. n = calls - 1 /\ calls > 0 /\ frame[s] = calls /\ c_pc[s] # "idle"
      BY <1>1, <2>1, <3>1 DEF TxCaller, Handed, Sending
    <3>3. n \in 0 .. calls /\ frame[s] = n + 1
      BY <1>2, <3>2
    <3> QED BY <3>1, <3>2, <3>3, CardFacts
  <2>2. CASE ~ \E s \in CardUsers : Sending(s)
    <3>1. n = calls
      BY <2>2 DEF Handed
    <3> QED BY <1>2, <3>1
  <2> QED BY <2>1, <2>2
<1>5. W \in Seq(Nat) /\ Len(W) = Unsent
  <2>1. \A i \in 0 .. CardSlots - 1 : txbuf[i] \in Nat
    BY <1>2 DEF Descs
  <2>2. tdh \in 0 .. CardSlots - 1 /\ CardSlots \in Nat \ {0}
    BY <1>2 DEF Descs
  <2> QED BY <1>2, <2>1, <2>2, RingLemma, RingLen
<1>6. ASSUME NEW i \in 1 .. Unsent PROVE W[i] = Len(wire) + i
  <2>1. i - 1 \in 0 .. CardSlots - 1 /\ tdh + (i - 1) = tdh + i - 1
    BY <1>2 DEF Descs
  <2>2. /\ (tdh + (i - 1)) % CardSlots \in Descs
        /\ Beyond(tdh, (tdh + (i - 1)) % CardSlots) = i - 1
    BY <1>2, <2>1, Ahead
  <2>3. W[i] = txbuf[(tdh + (i - 1)) % CardSlots]
    BY <2>1 DEF RingItems
  <2>4. txbuf[(tdh + (i - 1)) % CardSlots] = Len(wire) + (i - 1) + 1
    <3>1. i - 1 < Unsent
      BY <1>2
    <3> QED BY <1>1, <2>2, <3>1 DEF TxOrder
  <2> QED BY <1>2, <2>3, <2>4
<1>7. \A i \in 1 .. Len(wire) : wire[i] = i
  BY <1>1 DEF TxOrder
<1> HIDE DEF W, n
<1>8. wire \o W = [i \in 1 .. n |-> i]
  <2>1. /\ wire \o W \in Seq(Nat) /\ Len(wire \o W) = n
        /\ \A i \in 1 .. n : (wire \o W)[i] =
             IF i <= Len(wire) THEN wire[i] ELSE W[i - Len(wire)]
    BY <1>2, <1>3, <1>5, ConcatProperties
  <2>2. ASSUME NEW i \in 1 .. n PROVE (wire \o W)[i] = i
    <3>1. CASE i <= Len(wire)
      BY <1>2, <1>3, <1>7, <2>1, <3>1
    <3>2. CASE ~(i <= Len(wire))
      <4>1. i - Len(wire) \in 1 .. Unsent /\ Len(wire) + (i - Len(wire)) = i
        BY <1>2, <1>3, <3>2
      <4> QED BY <1>6, <2>1, <3>2, <4>1
    <3> QED BY <3>1, <3>2
  <2>3. DOMAIN (wire \o W) = 1 .. n /\ wire \o W = [i \in 1 .. n |-> (wire \o W)[i]]
    BY <2>1, LenProperties
  <2> QED BY <2>2, <2>3
<1>9. wire \o Card!Stretch(txbuf, tdh, Card!Slots \ (txdd \cup Card!ToSet(sending)))
        = [i \in 1 .. n |-> i]
  BY <1>1, <1>8, WaitingIs DEF W
<1> QED BY <1>4, <1>9

(* What was handled and what waits in the ring are in the order in which they came. *)
LEMMA TakenHolds ==
  ASSUME CardInvs
  PROVE  Card!TakenInOrder
<1> DEFINE waiting == RingItems(CardSlots, rxbuf, rx_cur, Filled)
           d       == IF handling THEN 1 ELSE 0
           unread  == IF handling THEN Tail(waiting) ELSE waiting
           n       == Len(c_taken)
           u       == Filled - d
           joined    == c_taken \o unread
<1> SUFFICES ASSUME ~wild
             PROVE  /\ Card!IsSorted(c_taken \o (IF handling
                                       THEN Tail(Card!Stretch(rxbuf, rx_cur, rxdd))
                                       ELSE Card!Stretch(rxbuf, rx_cur, rxdd)), <)
                    /\ Len(Card!Stretch(rxbuf, rx_cur, rxdd)) = Card!Cardinality(rxdd)
  BY DEF Card!TakenInOrder
<1>1. CardTypes /\ RxRing /\ RxFrames
  BY DEF CardInvs, RxInv
<1>2. /\ rx_cur \in Descs /\ rxdd \in SUBSET Descs /\ rxbuf \in [Descs -> Nat]
      /\ c_taken \in Seq(Nat) /\ n \in Nat /\ CardSlots \in Nat \ {0, 1}
      /\ Filled \in 0 .. CardSlots /\ Filled \in Nat /\ Filled \in Descs
  <2>1. Filled \in Descs
    BY <1>1, TypesOfCard, BeyondFacts DEF Filled
  <2>2. rxbuf \in [Descs -> Nat] /\ c_taken \in Seq(Nat)
    BY <1>1 DEF CardTypes
  <2>3. rx_cur \in Descs /\ rxdd \subseteq Descs /\ n \in Nat /\ CardSlots \in Nat \ {0, 1}
    BY <1>1, TypesOfCard, CardFacts
  <2>4. Filled \in 0 .. CardSlots /\ Filled \in Nat
    BY <2>1, <2>3 DEF Descs
  <2> QED BY <2>1, <2>2, <2>3, <2>4
<1>3. \A x \in Descs : x \in rxdd <=> Beyond(rx_cur, x) < Filled
  BY <1>1 DEF RxRing
<1>4. Card!Stretch(rxbuf, rx_cur, rxdd) = waiting
  BY <1>2, <1>3, StretchIs
<1>5. Cardinality(rxdd) = Filled
  BY <1>2, <1>3, StretchSize
<1>6. waiting \in Seq(Nat) /\ Len(waiting) = Filled
  <2>1. \A i \in 0 .. CardSlots - 1 : rxbuf[i] \in Nat
    BY <1>2 DEF Descs
  <2>2. rx_cur \in 0 .. CardSlots - 1 /\ CardSlots \in Nat \ {0}
    BY <1>2 DEF Descs
  <2> QED BY <1>2, <2>1, <2>2, RingLemma, RingLen
<1>7. \A i \in 1 .. Filled : \E x \in rxdd : waiting[i] = rxbuf[x] /\ Beyond(rx_cur, x) = i - 1
  <2> SUFFICES ASSUME NEW i \in 1 .. Filled
               PROVE  \E x \in rxdd : waiting[i] = rxbuf[x] /\ Beyond(rx_cur, x) = i - 1
    OBVIOUS
  <2>1. i - 1 \in 0 .. CardSlots - 1 /\ rx_cur + (i - 1) = rx_cur + i - 1 /\ i - 1 < Filled
    BY <1>2 DEF Descs
  <2>2. /\ (rx_cur + (i - 1)) % CardSlots \in Descs
        /\ Beyond(rx_cur, (rx_cur + (i - 1)) % CardSlots) = i - 1
    BY <1>2, <2>1, Ahead
  <2>3. (rx_cur + (i - 1)) % CardSlots \in rxdd
    BY <1>3, <2>1, <2>2
  <2>4. waiting[i] = rxbuf[(rx_cur + (i - 1)) % CardSlots]
    BY <2>1 DEF RingItems
  <2> QED BY <2>2, <2>3, <2>4
<1>8. handling => Filled > 0
  <2>1. Beyond(rx_cur, rx_cur) = 0
    BY <1>2, BeyondFacts
  <2> QED BY <1>1, <1>2, <1>3, <2>1 DEF RxRing
<1> HIDE DEF waiting, n
<1>9. /\ unread \in Seq(Nat) /\ Len(unread) = u /\ d \in Nat /\ u \in Nat
      /\ \A i \in 1 .. u : unread[i] = waiting[i + d] /\ i + d \in 1 .. Filled
  <2>1. CASE handling
    <3>1. waiting # <<>>
      BY <1>2, <1>6, <1>8, <2>1
    <3>2. /\ Tail(waiting) \in Seq(Nat) /\ Len(Tail(waiting)) = Filled - 1
          /\ \A i \in 1 .. Filled - 1 : Tail(waiting)[i] = waiting[i + 1]
      BY <1>6, <3>1, HeadTailProperties
    <3> QED BY <1>2, <1>8, <2>1, <3>2
  <2>2. CASE ~handling
    BY <1>2, <1>6, <2>2
  <2> QED BY <2>1, <2>2
<1>10. \A i \in 1 .. u : \E x \in rxdd :
         unread[i] = rxbuf[x] /\ Beyond(rx_cur, x) = i + d - 1
  BY <1>7, <1>9
<1>11. handling => d = 1
  OBVIOUS
<1> HIDE DEF unread, d, u
<1>12. \A i, j \in 1 .. u : i < j => unread[i] < unread[j]
  <2> SUFFICES ASSUME NEW i \in 1 .. u, NEW j \in 1 .. u, i < j PROVE unread[i] < unread[j]
    OBVIOUS
  <2>1. PICK x \in rxdd : unread[i] = rxbuf[x] /\ Beyond(rx_cur, x) = i + d - 1
    BY <1>10
  <2>2. PICK y \in rxdd : unread[j] = rxbuf[y] /\ Beyond(rx_cur, y) = j + d - 1
    BY <1>10
  <2>3. Beyond(rx_cur, x) < Beyond(rx_cur, y)
    BY <1>9, <2>1, <2>2
  <2> QED BY <1>1, <2>1, <2>2, <2>3 DEF RxFrames
<1>13. \A i \in 1 .. n, j \in 1 .. u : c_taken[i] < unread[j]
  <2> SUFFICES ASSUME NEW i \in 1 .. n, NEW j \in 1 .. u PROVE c_taken[i] < unread[j]
    OBVIOUS
  <2>1. PICK x \in rxdd : unread[j] = rxbuf[x] /\ Beyond(rx_cur, x) = j + d - 1
    BY <1>10
  <2>2. handling => x # rx_cur
    <3>1. handling => Beyond(rx_cur, x) # 0
      BY <1>9, <1>11, <2>1
    <3> QED BY <1>2, <3>1, BeyondFacts
  <2> QED BY <1>1, <2>1, <2>2 DEF RxFrames, n
<1>14. \A i, j \in 1 .. n : i < j => c_taken[i] < c_taken[j]
  BY <1>1 DEF RxFrames, n
<1>15. /\ Len(joined) = n + u
       /\ \A i \in 1 .. n + u : joined[i] = IF i <= n THEN c_taken[i] ELSE unread[i - n]
  BY <1>2, <1>9, ConcatProperties DEF n
<1> HIDE DEF joined
<1>16. ASSUME NEW i \in 1 .. Len(joined), NEW j \in 1 .. Len(joined), i < j
       PROVE  joined[i] < joined[j]
  <2>0. i \in 1 .. n + u /\ j \in 1 .. n + u /\ n \in Nat /\ u \in Nat
    BY <1>2, <1>9, <1>15
  <2>1. CASE j <= n
    <3>1. i \in 1 .. n /\ j \in 1 .. n
      BY <1>16, <2>0, <2>1
    <3> QED BY <1>14, <1>15, <1>16, <2>0, <2>1, <3>1
  <2>2. CASE i <= n /\ ~(j <= n)
    <3>1. i \in 1 .. n /\ j - n \in 1 .. u
      BY <2>0, <2>2
    <3> QED BY <1>13, <1>15, <2>0, <2>2, <3>1
  <2>3. CASE ~(i <= n) /\ ~(j <= n)
    <3>1. i - n \in 1 .. u /\ j - n \in 1 .. u /\ i - n < j - n
      BY <1>16, <2>0, <2>3
    <3> QED BY <1>12, <1>15, <2>0, <2>3, <3>1
  <2> QED BY <1>16, <2>0, <2>1, <2>2, <2>3
<1>17. Card!IsSorted(joined, <)
  BY <1>16 DEF Card!IsSorted
<1>18. Card!Cardinality(rxdd) = Cardinality(rxdd)
  BY DEF Card!Cardinality, Cardinality
<1>19. Card!IsSorted(c_taken \o (IF handling THEN Tail(waiting) ELSE waiting), <)
  BY <1>17 DEF joined, unread
<1> QED BY <1>4, <1>5, <1>6, <1>18, <1>19

(* Frames go out, and are handed up, once and in order. *)
THEOREM CardInOrderHolds == MCSpec => []CardInOrder
<1>1. CardInvs => CardInOrder
  BY SentHolds, TakenHolds DEF CardInOrder
<1> QED BY <1>1, CardInductive, CardRuns, PTL

(* TypeOK of the card. *)
THEOREM CardTypesHold == MCSpec => []Card!TypeOK
<1>1. CardInvs => Card!TypeOK
  BY DEF CardInvs, CardTypes
<1> QED BY <1>1, CardInductive, CardRuns, PTL

----------------------------------------------------------------------------
(* The bus.                                                                *)

NicStages == {"off", "reset", "rings", "receiving", "unmasked", "registered", "attached", "failed"}

\* The machine, and the types of what was found on it.
BusTypes ==
  /\ bus \in [0 .. BusSlots - 1 -> [multi : BOOLEAN, kind : [0 .. BusFuncs - 1 -> BusKinds \cup {"none"}]]]
  /\ bar \in BusBars /\ DOMAIN low = Bus!Places /\ DOMAIN gpu = Bus!Places
  /\ phase \in {"scan", "probe", "done"} /\ iflag \in BOOLEAN
  /\ todo \in Seq(Bus!Places) /\ devices \in Seq(Bus!Places) /\ networks \in Seq(Bus!Places)
  /\ command \in [Bus!Places -> SUBSET {"memory", "master"}]
  /\ nic \in [Bus!Places -> NicStages]
  /\ rings \subseteq Bus!Places

\* The numbers still to be looked at are different ones, and none was found before.
ScanNew ==
  phase = "scan" =>
    /\ \A i, j \in 1 .. Len(todo) : todo[i] = todo[j] => i = j
    /\ \A i \in 1 .. Len(todo), j \in 1 .. Len(devices) : todo[i] # devices[j]

\* What was found is there, once.
Found ==
  /\ \A i, j \in 1 .. Len(devices) : devices[i] = devices[j] => i = j
  /\ \A j \in 1 .. Len(devices) : bus[devices[j][1]].kind[devices[j][2]] # "none"

\* How far the attachment of a card has come, and what must be done by then.
NicReady ==
  \A p \in Bus!Places :
    /\ nic[p] # "off" => "master" \in command[p]
    /\ nic[p] \in {"rings", "receiving", "unmasked", "registered", "attached"} => p \in rings
    /\ nic[p] \in {"unmasked", "registered", "attached"} /\ BusLine[p[1]] < 16 => BusLine[p[1]] \in handlers
    /\ nic[p] \in {"registered", "attached"} => networks # <<>>

\* Only a registered card turns interrupts on; a registered card has its rings.
Registered ==
  /\ iflag => networks # <<>>
  /\ \A i \in 1 .. Len(networks) : networks[i] \in rings

BusInv == BusTypes /\ ScanNew /\ Found /\ NicReady /\ Registered /\ Bus!BarsKept

----------------------------------------------------------------------------
(* The numbers of the scan are places, each once. *)
LEMMA OrderLemma ==
  /\ Bus!Order \in Seq(Bus!Places) /\ Len(Bus!Order) = BusSlots * BusFuncs
  /\ \A i, j \in 1 .. Len(Bus!Order) : Bus!Order[i] = Bus!Order[j] => i = j
<1> DEFINE N == BusSlots * BusFuncs
<1>1. BusSlots \in Nat \ {0} /\ BusFuncs \in Nat \ {0}
  BY MachineConstants DEF Bus!DevicesConstants
<1>2. N \in Nat
  BY <1>1
<1>3. ASSUME NEW n \in 1 .. N
      PROVE  /\ (n - 1) \div BusFuncs \in 0 .. BusSlots - 1 /\ (n - 1) % BusFuncs \in 0 .. BusFuncs - 1
             /\ n - 1 = BusFuncs * ((n - 1) \div BusFuncs) + ((n - 1) % BusFuncs)
  <2> DEFINE q == (n - 1) \div BusFuncs
             r == (n - 1) % BusFuncs
  <2>1. n - 1 \in Nat /\ n - 1 < N
    BY <1>2
  <2>2. q \in Int /\ r \in 0 .. BusFuncs - 1 /\ n - 1 = BusFuncs * q + r
    BY <1>1, <2>1
  <2>3. q >= 0
    BY <1>1, <2>1
  <2>4. q < BusSlots
    <3>1. SUFFICES ASSUME q >= BusSlots PROVE FALSE
      BY <1>1, <2>2
    <3> HIDE DEF q, r
    <3>2. BusFuncs * q >= BusFuncs * BusSlots
      BY <1>1, <2>2, <3>1
    <3>3. BusFuncs * BusSlots = N /\ BusFuncs * q \in Int
      BY <1>1, <2>2
    <3> QED BY <1>2, <2>1, <2>2, <3>2, <3>3
  <2> QED BY <1>1, <2>2, <2>3, <2>4
<1>4. ASSUME NEW i \in 1 .. N, NEW j \in 1 .. N, Bus!Order[i] = Bus!Order[j]
      PROVE  i = j
  <2>1. /\ Bus!Order[i][1] = (i - 1) \div BusFuncs /\ Bus!Order[i][2] = (i - 1) % BusFuncs
        /\ Bus!Order[j][1] = (j - 1) \div BusFuncs /\ Bus!Order[j][2] = (j - 1) % BusFuncs
    BY DEF Bus!Order
  <2>2. (i - 1) \div BusFuncs = (j - 1) \div BusFuncs /\ (i - 1) % BusFuncs = (j - 1) % BusFuncs
    BY <1>4, <2>1
  <2>3. i - 1 = j - 1
    BY <1>3, <2>2
  <2> QED BY <1>2, <2>3
<1>5. Bus!Order \in [1 .. N -> Bus!Places]
  BY <1>3 DEF Bus!Order, Bus!Places
<1>6. Bus!Order \in Seq(Bus!Places) /\ Len(Bus!Order) = N
  BY <1>2, <1>5
<1> QED BY <1>4, <1>6

(* A multiple of 16 modulo another one. *)
LEMMA Sixteen ==
  ASSUME NEW b \in Nat, NEW d \in Nat \ {0}, b % 16 = 0, d % 16 = 0
  PROVE  /\ b % d \in 0 .. d - 1 /\ b \div d \in Nat /\ b = d * (b \div d) + (b % d)
         /\ (b % d) % 16 = 0
<1> DEFINE q == b \div d
           r == b % d
           m == b \div 16
           k == d \div 16
<1>1. q \in Nat /\ r \in 0 .. d - 1 /\ b = d * q + r
  BY Z3
<1>2. m \in Int /\ k \in Int /\ b = 16 * m /\ d = 16 * k
  OBVIOUS
<1> HIDE DEF q, r, m, k
<1>3. d * q = 16 * (k * q) /\ k * q \in Int
  BY <1>1, <1>2
<1>4. r = 16 * (m - k * q) /\ m - k * q \in Int
  BY <1>1, <1>2, <1>3
<1>5. r % 16 = 0
  BY <1>4
<1> QED BY <1>1, <1>5 DEF q, r

(* What pci_get_bar_info makes of a register, and leaves in it. *)
LEMMA BarLemma ==
  ASSUME BusTypes, Bus!BarsKept, NEW p \in Bus!Places
  PROVE  Bus!pci_get_bar_info(p).low = low[p] /\ Bus!pci_get_bar_info(p).base = bar.base
<1> DEFINE B == bar.base
<1>1. /\ B \in Nat /\ Bus!D \in Nat \ {0} /\ Bus!D % 16 = 0 /\ bar.type \in {"io", "mem32", "mem64"}
      /\ bar.type # "mem64" => B < Bus!D
      /\ bar.type = "io" => B % 4 = 0
      /\ bar.type # "io" => B % 16 = 0
  BY MachineConstants DEF Bus!DevicesConstants, BusTypes, Bus!D
<1>2. low[p] = (B % Bus!D) + Bus!Flags /\ high[p] = B \div Bus!D
  BY DEF Bus!BarsKept
<1> HIDE DEF B
<1>3. CASE bar.type = "io"
  <2>1. Bus!Flags = 1 /\ B % Bus!D = B
    BY <1>1, <1>3 DEF Bus!Flags
  <2>2. low[p] = B + 1 /\ low[p] # 0
    BY <1>1, <1>2, <2>1
  <2>3. low[p] - (low[p] % 4) = B
    BY <1>1, <1>3, <2>2
  <2> QED BY <1>3, <2>2, <2>3 DEF Bus!pci_get_bar_info, B
<1>4. CASE bar.type = "mem32"
  <2>1. Bus!Flags = 0 /\ B % Bus!D = B
    BY <1>1, <1>4 DEF Bus!Flags
  <2>2. low[p] = B
    BY <1>1, <1>2, <2>1
  <2>3. low[p] - (low[p] % 16) = B
    BY <1>1, <1>4, <2>2
  <2> QED BY <1>4, <2>2, <2>3 DEF Bus!pci_get_bar_info, B
<1>5. CASE bar.type = "mem64"
  <2> DEFINE r == B % Bus!D
  <2>1. r \in Nat /\ B \div Bus!D \in Nat /\ B = Bus!D * (B \div Bus!D) + r /\ r % 16 = 0
    <3>1. B \in Nat /\ Bus!D \in Nat \ {0} /\ B % 16 = 0 /\ Bus!D % 16 = 0
      BY <1>1, <1>5
    <3> HIDE DEF r
    <3>2. /\ B % Bus!D \in 0 .. Bus!D - 1 /\ B \div Bus!D \in Nat /\ B = Bus!D * (B \div Bus!D) + (B % Bus!D)
          /\ (B % Bus!D) % 16 = 0
      BY <3>1, Sixteen
    <3>3. r = B % Bus!D
      BY DEF r
    <3> QED BY <3>1, <3>2, <3>3
  <2>2. Bus!Flags = 4
    BY <1>5 DEF Bus!Flags
  <2>3. low[p] = r + 4
    BY <1>2, <2>2
  <2> HIDE DEF r
  <2>4. low[p] # 0 /\ low[p] - (low[p] % 16) = r
    BY <2>1, <2>3
  <2>5. high[p] * Bus!D + (low[p] - (low[p] % 16)) = B
    BY <1>1, <1>2, <2>1, <2>4
  <2> QED BY <1>5, <2>4, <2>5 DEF Bus!pci_get_bar_info, B
<1> QED BY <1>1, <1>3, <1>4, <1>5

----------------------------------------------------------------------------
(* What the loader leaves. *)
LEMMA BusStart == Bus!Init => BusInv
<1> SUFFICES ASSUME Bus!Init PROVE BusInv
  OBVIOUS
<1>1. /\ bus \in [0 .. BusSlots - 1 -> [multi : BOOLEAN, kind : [0 .. BusFuncs - 1 -> BusKinds \cup {"none"}]]]
      /\ bar \in BusBars /\ phase = "scan" /\ todo = Bus!Order /\ devices = <<>> /\ networks = <<>>
      /\ command = [p \in Bus!Places |-> {"memory"}] /\ nic = [p \in Bus!Places |-> "off"] /\ rings = {}
      /\ iflag = FALSE
  BY DEF Bus!Init
<1>2. DOMAIN low = Bus!Places /\ DOMAIN gpu = Bus!Places
  BY DEF Bus!Init
<1>3. BusTypes
  <2>1. phase \in {"scan", "probe", "done"} /\ iflag \in BOOLEAN
    BY <1>1
  <2>2. todo \in Seq(Bus!Places) /\ devices \in Seq(Bus!Places) /\ networks \in Seq(Bus!Places)
    BY <1>1, OrderLemma
  <2>3. command \in [Bus!Places -> SUBSET {"memory", "master"}] /\ nic \in [Bus!Places -> NicStages]
    BY <1>1 DEF NicStages
  <2> QED BY <1>1, <1>2, <2>1, <2>2, <2>3, Zenon DEF BusTypes
<1>4. ScanNew /\ Found
  BY <1>1, OrderLemma DEF ScanNew, Found
<1>5. NicReady /\ Registered
  BY <1>1 DEF NicReady, Registered
<1>6. Bus!BarsKept
  BY DEF Bus!Init, Bus!BarsKept
<1> QED BY <1>3, <1>4, <1>5, <1>6 DEF BusInv

(* The place under probe. *)
LEMMA DevPlace ==
  ASSUME BusTypes, todo # <<>>
  PROVE  Bus!Dev \in Bus!Places /\ Tail(todo) \in Seq(Bus!Places)
  BY DEF BusTypes, Bus!Dev

(* A function is looked at. *)
LEMMA CheckInv ==
  ASSUME BusInv, Bus!pci_check_function
  PROVE  BusInv'
<1> DEFINE h == Head(todo)
           t == Tail(todo)
           d == <<h>> \o devices
<1>1. /\ phase = "scan" /\ todo # <<>> /\ todo' = t /\ UNCHANGED <<Bus!pciVars, phase, driver, nic, rings, handlers, networks, iflag, gpu>>
  BY DEF Bus!pci_check_function
<1>2. /\ bus' = bus /\ bar' = bar /\ low' = low /\ high' = high /\ command' = command /\ status' = status
      /\ phase' = phase /\ nic' = nic /\ rings' = rings /\ handlers' = handlers /\ networks' = networks
      /\ iflag' = iflag /\ gpu' = gpu
  BY <1>1 DEF Bus!pciVars
<1>3. /\ todo \in Seq(Bus!Places) /\ devices \in Seq(Bus!Places) /\ h \in Bus!Places
      /\ t \in Seq(Bus!Places) /\ Len(t) = Len(todo) - 1 /\ h = todo[1] /\ Len(todo) \in Nat \ {0}
      /\ \A i \in 1 .. Len(t) : t[i] = todo[i + 1]
  BY <1>1 DEF BusInv, BusTypes
<1>4. /\ d \in Seq(Bus!Places) /\ Len(d) = Len(devices) + 1 /\ Len(devices) \in Nat
      /\ \A i \in 1 .. Len(d) : d[i] = IF i = 1 THEN h ELSE devices[i - 1]
  <2> HIDE DEF h
  <2>1. <<h>> \in Seq(Bus!Places) /\ Len(<<h>>) = 1 /\ <<h>>[1] = h
    BY <1>3
  <2>2. Len(devices) \in Nat
    BY <1>3
  <2> QED BY <1>3, <2>1, <2>2, ConcatProperties
<1>5. /\ \A i, j \in 1 .. Len(todo) : todo[i] = todo[j] => i = j
      /\ \A i \in 1 .. Len(todo), j \in 1 .. Len(devices) : todo[i] # devices[j]
  BY <1>1 DEF BusInv, ScanNew
<1>6. (Bus!Looked(h) /\ Bus!Answers(h) # "none" /\ devices' = d) \/ devices' = devices
  BY DEF Bus!pci_check_function
<1> HIDE DEF h, t, d
<1>7. BusTypes'
  BY <1>1, <1>2, <1>3, <1>4, <1>6 DEF BusInv, BusTypes, Bus!Places, NicStages
<1>8. /\ \A i, j \in 1 .. Len(t) : t[i] = t[j] => i = j
      /\ \A i \in 1 .. Len(t) : t[i] # h
      /\ \A i \in 1 .. Len(t), j \in 1 .. Len(devices) : t[i] # devices[j]
  <2>1. ASSUME NEW i \in 1 .. Len(t)
        PROVE  i + 1 \in 1 .. Len(todo) /\ 1 \in 1 .. Len(todo) /\ t[i] = todo[i + 1] /\ i + 1 # 1
    BY <1>3
  <2>2. ASSUME NEW i \in 1 .. Len(t), NEW j \in 1 .. Len(t), t[i] = t[j]
        PROVE  i = j
    <3>1. i + 1 = j + 1
      BY <1>5, <2>1, <2>2
    <3> QED BY <3>1
  <2>3. ASSUME NEW i \in 1 .. Len(t)
        PROVE  t[i] # h
    BY <1>3, <1>5, <2>1
  <2>4. ASSUME NEW i \in 1 .. Len(t), NEW j \in 1 .. Len(devices)
        PROVE  t[i] # devices[j]
    BY <1>5, <2>1
  <2> QED BY <2>2, <2>3, <2>4
<1>9. CASE devices' = devices
  <2>1. ScanNew'
    BY <1>1, <1>8, <1>9 DEF ScanNew
  <2>2. Found'
    BY <1>2, <1>9 DEF BusInv, Found
  <2> QED BY <1>2, <1>7, <2>1, <2>2 DEF BusInv, NicReady, Registered, Bus!BarsKept, Bus!Places, Bus!Flags, Bus!D
<1>10. CASE Bus!Looked(h) /\ Bus!Answers(h) # "none" /\ devices' = d
  <2>1. ASSUME NEW i \in 1 .. Len(t), NEW j \in 1 .. Len(d)
        PROVE  t[i] # d[j]
    <3>1. CASE j = 1
      BY <1>4, <1>8, <3>1
    <3>2. CASE j # 1
      <4>1. j - 1 \in 1 .. Len(devices) /\ d[j] = devices[j - 1]
        BY <1>4, <3>2
      <4> QED BY <1>8, <4>1
    <3> QED BY <3>1, <3>2
  <2>2. ScanNew'
    BY <1>1, <1>8, <1>10, <2>1 DEF ScanNew
  <2>3. \A j \in 1 .. Len(devices) : devices[j] # h
    <3>1. 1 \in 1 .. Len(todo)
      BY <1>3
    <3> QED BY <1>3, <1>5, <3>1
  <2>4. ASSUME NEW i \in 1 .. Len(d), NEW j \in 1 .. Len(d), d[i] = d[j]
        PROVE  i = j
    <3>1. \A k \in 1 .. Len(d) : k # 1 => k - 1 \in 1 .. Len(devices) /\ d[k] = devices[k - 1]
      BY <1>4
    <3>2. d[1] = h
      BY <1>4
    <3>3. CASE i = 1
      BY <2>3, <2>4, <3>1, <3>2, <3>3
    <3>4. CASE j = 1
      BY <2>3, <2>4, <3>1, <3>2, <3>4
    <3>5. CASE i # 1 /\ j # 1
      <4>1. i - 1 \in 1 .. Len(devices) /\ j - 1 \in 1 .. Len(devices) /\ devices[i - 1] = devices[j - 1]
        BY <2>4, <3>1, <3>5
      <4>2. i - 1 = j - 1
        BY <4>1 DEF BusInv, Found
      <4> QED BY <4>2
    <3> QED BY <3>3, <3>4, <3>5
  <2>5. bus[h[1]].kind[h[2]] # "none"
    <3>1. h[1] \in 0 .. BusSlots - 1 /\ h[2] \in 0 .. BusFuncs - 1
      BY <1>3 DEF Bus!Places
    <3>2. CASE bus[h[1]].multi
      BY <1>10, <3>2 DEF Bus!Answers
    <3>3. CASE ~bus[h[1]].multi
      BY <1>10, <3>1, <3>3 DEF Bus!Answers, Bus!Looked
    <3> QED BY <3>2, <3>3
  <2>6. ASSUME NEW j \in 1 .. Len(d)
        PROVE  bus[d[j][1]].kind[d[j][2]] # "none"
    <3>1. CASE j = 1
      BY <1>4, <2>5, <3>1
    <3>2. CASE j # 1
      <4>1. j - 1 \in 1 .. Len(devices) /\ d[j] = devices[j - 1]
        BY <1>4, <3>2
      <4> QED BY <4>1 DEF BusInv, Found
    <3> QED BY <3>1, <3>2
  <2>7. Found'
    BY <1>2, <1>10, <2>4, <2>6 DEF Found
  <2> QED BY <1>2, <1>7, <2>2, <2>7 DEF BusInv, NicReady, Registered, Bus!BarsKept, Bus!Places, Bus!Flags, Bus!D
<1> QED BY <1>6, <1>9, <1>10

(* What attachment leaves alone: the machine and what was found. *)
LEMMA ProbeInv ==
  ASSUME BusInv, bus' = bus, bar' = bar, devices' = devices, phase' \in {"probe", "done"},
         todo' \in Seq(Bus!Places), networks' \in Seq(Bus!Places), iflag' \in BOOLEAN, rings' \subseteq Bus!Places,
         command' \in [Bus!Places -> SUBSET {"memory", "master"}], nic' \in [Bus!Places -> NicStages],
         DOMAIN low' = Bus!Places, DOMAIN gpu' = Bus!Places,
         NicReady', Registered', Bus!BarsKept'
  PROVE  BusInv'
<1>1. BusTypes'
  <2>1. phase' \in {"scan", "probe", "done"}
    OBVIOUS
  <2>2. /\ bus' \in [0 .. BusSlots - 1 -> [multi : BOOLEAN, kind : [0 .. BusFuncs - 1 -> BusKinds \cup {"none"}]]]
        /\ bar' \in BusBars /\ devices' \in Seq(Bus!Places)
    BY Zenon DEF BusInv, BusTypes
  <2>3. Bus!Places' = Bus!Places /\ NicStages' = NicStages
    BY DEF Bus!Places, NicStages
  <2> QED BY <2>1, <2>2, <2>3, Zenon DEF BusTypes
<1>2. ScanNew'
  BY DEF ScanNew
<1>3. Found'
  BY DEF BusInv, Found
<1> QED BY <1>1, <1>2, <1>3 DEF BusInv

(* Nothing of the attachment changes. *)
LEMMA SameInv ==
  ASSUME BusInv, UNCHANGED <<Bus!pciVars, devices, nic, rings, handlers, networks, iflag, gpu>>,
         phase' \in {"probe", "done"}, todo' \in Seq(Bus!Places)
  PROVE  BusInv'
<1>1. /\ bus' = bus /\ bar' = bar /\ low' = low /\ high' = high /\ command' = command
      /\ devices' = devices /\ nic' = nic /\ rings' = rings /\ handlers' = handlers /\ networks' = networks
      /\ iflag' = iflag /\ gpu' = gpu
  BY DEF Bus!pciVars
<1>2. NicReady'
  BY <1>1 DEF BusInv, NicReady, Bus!Places
<1>3. Registered'
  BY <1>1 DEF BusInv, Registered
<1>4. Bus!BarsKept'
  BY <1>1 DEF BusInv, Bus!BarsKept, Bus!Places, Bus!Flags, Bus!D
<1>5. /\ networks' \in Seq(Bus!Places) /\ iflag' \in BOOLEAN /\ rings' \subseteq Bus!Places
      /\ command' \in [Bus!Places -> SUBSET {"memory", "master"}] /\ nic' \in [Bus!Places -> NicStages]
      /\ DOMAIN low' = Bus!Places /\ DOMAIN gpu' = Bus!Places
  BY <1>1, Zenon DEF BusInv, BusTypes
<1> QED BY <1>1, <1>2, <1>3, <1>4, <1>5, ProbeInv

(* A card comes to its next stage. *)
LEMMA StageInv ==
  ASSUME BusInv, phase = "probe", todo # <<>>, NEW r \in NicStages, NEW s \in NicStages, Bus!Stage(r, s),
         UNCHANGED <<bus, bar, low, high, devices, gpu, phase>>,
         todo' = todo \/ todo' = Tail(todo),
         command' = command \/ Bus!Command({"master"}), rings' = rings \/ rings' = rings \cup {Bus!Dev},
         handlers \subseteq handlers', networks' = networks \/ networks' = <<Bus!Dev>> \o networks,
         iflag' \in {iflag, TRUE}, iflag' => networks' # <<>>,
         s # "off" => "master" \in command'[Bus!Dev],
         s \in {"rings", "receiving", "unmasked", "registered", "attached"} => Bus!Dev \in rings',
         s \in {"unmasked", "registered", "attached"} /\ BusLine[Bus!Dev[1]] < 16 => BusLine[Bus!Dev[1]] \in handlers',
         s \in {"registered", "attached"} => networks' # <<>>,
         networks' = networks \/ Bus!Dev \in rings
  PROVE  BusInv'
<1>1. Bus!Dev \in Bus!Places /\ Tail(todo) \in Seq(Bus!Places) /\ todo \in Seq(Bus!Places)
  BY DevPlace DEF BusInv, BusTypes
<1>2. /\ command \in [Bus!Places -> SUBSET {"memory", "master"}] /\ nic \in [Bus!Places -> NicStages]
      /\ rings \subseteq Bus!Places /\ networks \in Seq(Bus!Places) /\ iflag \in BOOLEAN
      /\ DOMAIN low = Bus!Places /\ DOMAIN gpu = Bus!Places
  BY DEF BusInv, BusTypes
<1> DEFINE e == Bus!Dev
           n == <<e>> \o networks
<1>3. /\ nic' \in [Bus!Places -> NicStages] /\ nic'[e] = s
      /\ \A p \in Bus!Places : p # e => nic'[p] = nic[p]
  BY <1>1, <1>2 DEF Bus!Stage
<1>4. /\ command' \in [Bus!Places -> SUBSET {"memory", "master"}]
      /\ \A p \in Bus!Places : command[p] \subseteq command'[p]
  BY <1>1, <1>2 DEF Bus!Command
<1>5. rings' \subseteq Bus!Places /\ rings \subseteq rings'
  BY <1>1, <1>2
<1>6. /\ n \in Seq(Bus!Places) /\ n # <<>> /\ Len(n) = Len(networks) + 1 /\ Len(networks) \in Nat
      /\ \A i \in 1 .. Len(n) : n[i] = IF i = 1 THEN e ELSE networks[i - 1]
  <2> HIDE DEF e
  <2>1. <<e>> \in Seq(Bus!Places) /\ Len(<<e>>) = 1 /\ <<e>>[1] = e /\ Len(networks) \in Nat
    BY <1>1, <1>2 DEF e
  <2>2. /\ n \in Seq(Bus!Places) /\ Len(n) = Len(networks) + 1
        /\ \A i \in 1 .. Len(n) : n[i] = IF i = 1 THEN e ELSE networks[i - 1]
    BY <1>2, <2>1, ConcatProperties
  <2>3. n # <<>>
    BY <2>1, <2>2
  <2> QED BY <2>1, <2>2, <2>3
<1>7. networks' = networks \/ networks' = n
  OBVIOUS
<1>8. e \in Bus!Places /\ (networks' = networks \/ e \in rings)
  BY <1>1
<1>9. /\ s # "off" => "master" \in command'[e]
      /\ s \in {"rings", "receiving", "unmasked", "registered", "attached"} => e \in rings'
      /\ s \in {"unmasked", "registered", "attached"} /\ BusLine[e[1]] < 16 => BusLine[e[1]] \in handlers'
  OBVIOUS
<1> HIDE DEF e, n
<1>10. NicReady'
  <2>1. networks # <<>> => networks' # <<>>
    BY <1>6, <1>7
  <2>2. ASSUME NEW p \in Bus!Places
        PROVE  /\ nic'[p] # "off" => "master" \in command'[p]
               /\ nic'[p] \in {"rings", "receiving", "unmasked", "registered", "attached"} => p \in rings'
               /\ nic'[p] \in {"unmasked", "registered", "attached"} /\ BusLine[p[1]] < 16 => BusLine[p[1]] \in handlers'
               /\ nic'[p] \in {"registered", "attached"} => networks' # <<>>
    <3>1. CASE p = e
      BY <1>3, <1>9, <3>1
    <3>2. CASE p # e
      <4>1. nic'[p] = nic[p] /\ command[p] \subseteq command'[p]
        BY <1>3, <1>4, <3>2
      <4> QED BY <1>5, <2>1, <4>1 DEF BusInv, NicReady
    <3> QED BY <3>1, <3>2
  <2> QED BY <2>2 DEF NicReady, Bus!Places
<1>11. Registered'
  <2>1. ASSUME NEW i \in 1 .. Len(networks')
        PROVE  networks'[i] \in rings'
    <3>1. \A j \in 1 .. Len(networks) : networks[j] \in rings'
      BY <1>5 DEF BusInv, Registered
    <3>2. CASE networks' = networks
      BY <3>1, <3>2
    <3>3. CASE networks' = n /\ networks' # networks
      <4>1. CASE i = 1
        BY <1>5, <1>6, <1>8, <3>3, <4>1
      <4>2. CASE i # 1
        <5>1. i \in 1 .. Len(n) /\ i - 1 \in 1 .. Len(networks) /\ networks'[i] = networks[i - 1]
          BY <1>6, <3>3, <4>2
        <5> QED BY <3>1, <5>1
      <4> QED BY <4>1, <4>2
    <3> QED BY <1>7, <3>2, <3>3
  <2> QED BY <2>1 DEF Registered
<1>12. Bus!BarsKept'
  BY DEF BusInv, Bus!BarsKept, Bus!Places, Bus!Flags, Bus!D
<1>13. networks' \in Seq(Bus!Places) /\ todo' \in Seq(Bus!Places) /\ iflag' \in BOOLEAN
  BY <1>1, <1>2, <1>6, <1>7
<1> QED BY <1>2, <1>3, <1>4, <1>5, <1>10, <1>11, <1>12, <1>13, ProbeInv

(* The steps of e1000_attach. *)
LEMMA NicInv ==
  ASSUME BusInv, Bus!Reset \/ Bus!Rings \/ Bus!Enable \/ Bus!Unmask \/ Bus!net_register_device \/ Bus!StartDhcp
  PROVE  BusInv'
<1>1. /\ phase = "probe" /\ todo # <<>>
      /\ UNCHANGED <<bus, bar, low, high, devices, gpu, phase>>
  BY DEF Bus!Reset, Bus!Rings, Bus!Enable, Bus!Unmask, Bus!net_register_device, Bus!StartDhcp, Bus!Probing, Bus!pciVars
<1>2. Bus!Dev \in Bus!Places
  BY <1>1, DevPlace DEF BusInv
<1>3. /\ command \in [Bus!Places -> SUBSET {"memory", "master"}] /\ iflag \in BOOLEAN
      /\ rings \subseteq Bus!Places
  BY DEF BusInv, BusTypes
<1>4. /\ iflag => networks # <<>>
      /\ nic[Bus!Dev] # "off" => "master" \in command[Bus!Dev]
      /\ nic[Bus!Dev] \in {"rings", "receiving", "unmasked", "registered", "attached"} => Bus!Dev \in rings
      /\ nic[Bus!Dev] \in {"unmasked", "registered", "attached"} /\ BusLine[Bus!Dev[1]] < 16 => BusLine[Bus!Dev[1]] \in handlers
      /\ nic[Bus!Dev] \in {"registered", "attached"} => networks # <<>>
  BY <1>2, Zenon DEF BusInv, NicReady, Registered
<1> DEFINE e == Bus!Dev
<1>5. CASE Bus!Reset
  <2>1. /\ Bus!Stage("off", "reset") /\ Bus!Command({"master"}) /\ todo' = todo /\ rings' = rings
        /\ handlers' = handlers /\ networks' = networks /\ iflag' = iflag
    BY <1>5 DEF Bus!Reset
  <2>2. "master" \in command'[e]
    BY <1>2, <1>3, <2>1 DEF Bus!Command
  <2> HIDE DEF e
  <2> QED BY <1>1, <1>3, <1>4, <2>1, <2>2, StageInv DEF e, NicStages
<1>6. CASE Bus!Rings
  <2>1. /\ handlers' = handlers /\ networks' = networks /\ iflag' = iflag /\ command' = command
    BY <1>6 DEF Bus!Rings, Bus!pciVars
  <2>2. CASE Bus!Stage("reset", "rings") /\ rings' = rings \cup {e} /\ todo' = todo
    <3>1. nic[e] = "reset"
      BY <2>2 DEF Bus!Stage
    <3> QED BY <1>1, <1>3, <1>4, <2>1, <2>2, <3>1, StageInv DEF NicStages
  <2>3. CASE Bus!Stage("reset", "failed") /\ todo' = Tail(todo) /\ rings' = rings
    <3>1. nic[e] = "reset"
      BY <2>3 DEF Bus!Stage
    <3> QED BY <1>1, <1>3, <1>4, <2>1, <2>3, <3>1, StageInv DEF NicStages
  <2> QED BY <1>6, <2>2, <2>3 DEF Bus!Rings
<1>7. CASE Bus!Enable
  <2>1. /\ Bus!Stage("rings", "receiving") /\ command' = command /\ todo' = todo /\ rings' = rings
        /\ handlers' = handlers /\ networks' = networks /\ iflag' = iflag /\ nic[e] = "rings"
    BY <1>7 DEF Bus!Enable, Bus!pciVars, Bus!Stage
  <2> QED BY <1>1, <1>3, <1>4, <2>1, StageInv DEF NicStages
<1>8. CASE Bus!Unmask
  <2>1. /\ Bus!Stage("receiving", "unmasked") /\ command' = command /\ todo' = todo /\ rings' = rings
        /\ networks' = networks /\ iflag' = iflag /\ nic[e] = "receiving"
        /\ handlers' = IF BusLine[e[1]] < 16 THEN handlers \cup {BusLine[e[1]]} ELSE handlers
    BY <1>8 DEF Bus!Unmask, Bus!pciVars, Bus!Stage
  <2>2. handlers \subseteq handlers' /\ (BusLine[e[1]] < 16 => BusLine[e[1]] \in handlers')
    BY <2>1
  <2> QED BY <1>1, <1>3, <1>4, <2>1, <2>2, StageInv DEF NicStages
<1>9. CASE Bus!net_register_device
  <2>1. /\ Bus!Stage("unmasked", "registered") /\ command' = command /\ todo' = todo /\ rings' = rings
        /\ networks' = <<e>> \o networks /\ iflag' = iflag /\ nic[e] = "unmasked" /\ handlers' = handlers
    BY <1>9 DEF Bus!net_register_device, Bus!pciVars, Bus!Stage
  <2>2. networks' # <<>>
    <3>1. networks \in Seq(Bus!Places)
      BY DEF BusInv, BusTypes
    <3>2. <<e>> \in Seq(Bus!Places) /\ Len(<<e>>) = 1
      BY <1>2
    <3>3. networks' \in Seq(Bus!Places) /\ Len(networks') = 1 + Len(networks) /\ Len(networks) \in Nat
      BY <2>1, <3>1, <3>2, ConcatProperties
    <3> QED BY <3>3
  <2> QED BY <1>1, <1>3, <1>4, <2>1, <2>2, StageInv DEF NicStages
<1>10. CASE Bus!StartDhcp
  <2>1. /\ Bus!Stage("registered", "attached") /\ command' = command /\ todo' = Tail(todo) /\ rings' = rings
        /\ networks' = networks /\ iflag' \in {iflag, TRUE} /\ nic[e] = "registered" /\ handlers' = handlers
    BY <1>10 DEF Bus!StartDhcp, Bus!pciVars, Bus!Stage
  <2> QED BY <1>1, <1>3, <1>4, <2>1, StageInv DEF NicStages
<1> QED BY <1>5, <1>6, <1>7, <1>8, <1>9, <1>10

(* amdgpu_attach. *)
LEMMA GpuInv ==
  ASSUME BusInv, Bus!amdgpu_attach
  PROVE  BusInv'
<1> DEFINE e == Bus!Dev
           i == Bus!pci_get_bar_info(e)
<1>1. /\ phase = "probe" /\ todo # <<>>
      /\ low' = [low EXCEPT ![e] = i.low]
      /\ gpu' = [gpu EXCEPT ![e] = [found |-> TRUE, base |-> i.base, size |-> i.size]]
      /\ Bus!Command({"memory", "master"}) /\ todo' = Tail(todo)
      /\ UNCHANGED <<bus, bar, high, phase, devices, nic, rings, handlers, networks, iflag>>
  BY DEF Bus!amdgpu_attach, Bus!Probing
<1>2. e \in Bus!Places /\ Tail(todo) \in Seq(Bus!Places)
  BY <1>1, DevPlace DEF BusInv
<1>3. i.low = low[e] /\ i.base = bar.base
  BY <1>2, BarLemma DEF BusInv
<1>4. /\ command \in [Bus!Places -> SUBSET {"memory", "master"}] /\ nic \in [Bus!Places -> NicStages]
      /\ rings \subseteq Bus!Places /\ networks \in Seq(Bus!Places) /\ iflag \in BOOLEAN
      /\ DOMAIN low = Bus!Places /\ DOMAIN gpu = Bus!Places
  BY DEF BusInv, BusTypes
<1> HIDE DEF e, i
<1>5. /\ command' \in [Bus!Places -> SUBSET {"memory", "master"}]
      /\ \A p \in Bus!Places : command[p] \subseteq command'[p]
  BY <1>1, <1>2, <1>4 DEF Bus!Command, e
<1>6. /\ DOMAIN low' = Bus!Places /\ \A p \in Bus!Places : low'[p] = low[p]
      /\ DOMAIN gpu' = Bus!Places
      /\ \A p \in Bus!Places :
           gpu'[p].found => (gpu[p].found /\ gpu'[p].base = gpu[p].base) \/ gpu'[p].base = bar.base
  <2>1. DOMAIN low' = Bus!Places /\ \A p \in Bus!Places : low'[p] = low[p]
    BY <1>1, <1>2, <1>3, <1>4
  <2>2. DOMAIN gpu' = Bus!Places
    BY <1>1, <1>4
  <2>3. ASSUME NEW p \in Bus!Places, gpu'[p].found
        PROVE  (gpu[p].found /\ gpu'[p].base = gpu[p].base) \/ gpu'[p].base = bar.base
    <3>1. CASE p = e
      BY <1>1, <1>2, <1>3, <1>4, <3>1
    <3>2. CASE p # e
      BY <1>1, <1>4, <2>3, <3>2
    <3> QED BY <3>1, <3>2
  <2> QED BY <2>1, <2>2, <2>3
<1>7. Bus!BarsKept'
  <2>1. Bus!D' = Bus!D /\ Bus!Flags' = Bus!Flags /\ bar' = bar /\ high' = high /\ Bus!Places' = Bus!Places
    BY <1>1 DEF Bus!D, Bus!Flags, Bus!Places
  <2> SUFFICES ASSUME NEW p \in Bus!Places
               PROVE  /\ low'[p] = (bar.base % Bus!D) + Bus!Flags /\ high'[p] = bar.base \div Bus!D
                      /\ gpu'[p].found => gpu'[p].base = bar.base
    BY <2>1 DEF Bus!BarsKept
  <2>2. /\ low[p] = (bar.base % Bus!D) + Bus!Flags /\ high[p] = bar.base \div Bus!D
        /\ gpu[p].found => gpu[p].base = bar.base
    BY DEF BusInv, Bus!BarsKept
  <2>3. low'[p] = low[p]
    BY <1>6
  <2>4. gpu'[p].found => (gpu[p].found /\ gpu'[p].base = gpu[p].base) \/ gpu'[p].base = bar.base
    BY <1>6
  <2> QED BY <2>1, <2>2, <2>3, <2>4
<1>8. NicReady'
  BY <1>1, <1>5 DEF BusInv, NicReady, Bus!Places
<1>9. Registered'
  BY <1>1 DEF BusInv, Registered
<1> QED BY <1>1, <1>2, <1>4, <1>5, <1>6, <1>7, <1>8, <1>9, ProbeInv

(* Every step of the scan and of the attachment. *)
LEMMA BusStep == BusInv /\ [Bus!Next]_(Bus!devVars) => BusInv'
<1> SUFFICES ASSUME BusInv, [Bus!Next]_(Bus!devVars) PROVE BusInv'
  OBVIOUS
<1>1. todo \in Seq(Bus!Places) /\ devices \in Seq(Bus!Places) /\ phase \in {"scan", "probe", "done"}
  BY DEF BusInv, BusTypes
<1>2. CASE UNCHANGED Bus!devVars
  <2>1. /\ bus' = bus /\ bar' = bar /\ low' = low /\ high' = high /\ command' = command /\ todo' = todo
        /\ devices' = devices /\ nic' = nic /\ rings' = rings /\ handlers' = handlers /\ networks' = networks
        /\ iflag' = iflag /\ gpu' = gpu /\ phase' = phase
    BY <1>2 DEF Bus!devVars
  <2>2. BusTypes'
    BY <2>1 DEF BusInv, BusTypes, Bus!Places, NicStages
  <2>3. ScanNew' /\ Found' /\ Registered'
    BY <2>1 DEF BusInv, ScanNew, Found, Registered
  <2>4. NicReady'
    BY <2>1 DEF BusInv, NicReady, Bus!Places
  <2>5. Bus!BarsKept'
    BY <2>1 DEF BusInv, Bus!BarsKept, Bus!Places, Bus!Flags, Bus!D
  <2> QED BY <2>2, <2>3, <2>4, <2>5 DEF BusInv
<1>3. CASE Bus!pci_check_function
  BY <1>3, CheckInv
<1>4. CASE Bus!ScanComplete
  BY <1>1, <1>4, SameInv DEF Bus!ScanComplete
<1>5. CASE Bus!Skip
  <2>1. phase = "probe" /\ todo # <<>> /\ todo' = Tail(todo) /\ phase' = phase
    BY <1>5 DEF Bus!Skip
  <2>2. Tail(todo) \in Seq(Bus!Places)
    BY <1>1, <2>1
  <2>3. UNCHANGED <<Bus!pciVars, devices, nic, rings, handlers, networks, iflag, gpu>>
    BY <1>5 DEF Bus!Skip
  <2> QED BY <2>1, <2>2, <2>3, SameInv
<1>6. CASE Bus!Reset \/ Bus!Rings \/ Bus!Enable \/ Bus!Unmask \/ Bus!net_register_device \/ Bus!StartDhcp
  BY <1>6, NicInv
<1>7. CASE Bus!amdgpu_attach
  BY <1>7, GpuInv
<1>8. CASE Bus!ide_attach
  <2>1. phase = "probe" /\ todo # <<>> /\ todo' = Tail(todo) /\ phase' = phase
    BY <1>8 DEF Bus!ide_attach, Bus!Probing
  <2>2. Tail(todo) \in Seq(Bus!Places)
    BY <1>1, <2>1
  <2>3. UNCHANGED <<Bus!pciVars, devices, nic, rings, handlers, networks, iflag, gpu>>
    BY <1>8 DEF Bus!ide_attach
  <2> QED BY <2>1, <2>2, <2>3, SameInv
<1>9. CASE Bus!Done
  BY <1>1, <1>9, SameInv DEF Bus!Done
<1> QED BY <1>2, <1>3, <1>4, <1>5, <1>6, <1>7, <1>8, <1>9 DEF Bus!Next

(* What the invariant says. *)
LEMMA BusGives == BusInv => Bus!TypeOK /\ Bus!DevicesSound
<1> SUFFICES ASSUME BusInv PROVE Bus!TypeOK /\ Bus!DevicesSound
  OBVIOUS
<1>1. Bus!TypeOK
  BY DEF BusInv, BusTypes, Bus!TypeOK
<1>2. Bus!FoundOnce
  <2>1. Bus!ToSet(devices) = {devices[j] : j \in 1 .. Len(devices)}
    BY DEF BusInv, BusTypes, Bus!ToSet
  <2> QED BY <2>1 DEF BusInv, Found, Bus!FoundOnce
<1>3. Bus!CardsReady
  <2>1. iflag => networks # <<>> /\ Head(networks) \in rings
    <3>1. networks \in Seq(Bus!Places)
      BY DEF BusInv, BusTypes
    <3>2. networks # <<>> => 1 \in 1 .. Len(networks) /\ Head(networks) = networks[1]
      BY <3>1
    <3> QED BY <3>2 DEF BusInv, Registered
  <2>2. ASSUME NEW p \in Bus!Places
        PROVE  /\ nic[p] \in {"receiving", "unmasked", "registered", "attached"} =>
                    p \in rings /\ "master" \in command[p]
               /\ nic[p] \in {"unmasked", "registered", "attached"} /\ BusLine[p[1]] < 16 => BusLine[p[1]] \in handlers
    BY DEF BusInv, NicReady
  <2> QED BY <2>1, <2>2 DEF Bus!CardsReady
<1>4. Bus!BarsKept
  BY DEF BusInv
<1> QED BY <1>1, <1>2, <1>3, <1>4 DEF Bus!DevicesSound

(* The invariant holds in every state the scan and the attachment reach. *)
THEOREM BusInductive == Bus!Spec => []BusInv
  BY BusStart, BusStep, PTL DEF Bus!Spec

(* The behaviours of the machine are behaviours of its bus. *)
LEMMA BusRuns == MCSpec => Bus!Spec
<1>1. MCInit => Bus!Init
  BY DEF MCInit
<1>2. [MCNext]_all => [Bus!Next]_(Bus!devVars)
  <2>1. MCNext => (machine = "bus" /\ Bus!Next) \/ UNCHANGED busVars
    BY DEF MCNext, EventsOnly, RingOnly, LogOnly, KeysOnly, CardOnly, LanOnly, DisplayOnly,
           TypedOnly, others
  <2>2. UNCHANGED busVars => UNCHANGED Bus!devVars
    BY DEF busVars, Bus!devVars
  <2>3. UNCHANGED all => UNCHANGED busVars
    BY DEF all, others
  <2> QED BY <2>1, <2>2, <2>3
<1> QED BY <1>1, <1>2, PTL DEF MCSpec, Bus!Spec

(* Every function of the bus is found once; a card receives only into complete rings and
   interrupts only when its handler is there; a graphics card keeps its place (pci.c, e1000.c,
   radeon.c). *)
THEOREM DevicesSoundHolds == MCSpec => []DevicesSound
<1>1. BusInv => DevicesSound
  BY BusGives DEF DevicesSound
<1> QED BY <1>1, BusInductive, BusRuns, PTL

(* The types of the device manager and of what is attached (deviceman.c, pci.c). *)
THEOREM BusTypesHold == MCSpec => []Bus!TypeOK
<1>1. BusInv => Bus!TypeOK
  BY BusGives
<1> QED BY <1>1, BusInductive, BusRuns, PTL
=============================================================================
