------------------------------ MODULE Network ------------------------------
(***************************************************************************)
(* A KyroOS machine on a local network: the ARP cache (arp.c), the         *)
(* decisions of the IP layer (ip.c), the echo of ICMP (icmp.c), udp_send   *)
(* (udp.c) and the DHCP client (dhcp.c), with DHCP servers and other       *)
(* stations around it.  Messages of DHCP may be lost, duplicated and       *)
(* reordered: `lan' keeps what was sent and any of it may arrive.          *)
(*                                                                         *)
(* An address is the tuple of its bytes as they are in memory;             *)
(* __builtin_bswap32 reverses it.  The subnet mask and the gateway are     *)
(* stored by the client and read by nothing, so they are left out.         *)
(***************************************************************************)
EXTENDS Naturals, Sequences, SequencesExt

CONSTANTS Stations,   \* the hardware addresses of the other machines
          Addresses,  \* the addresses in use, in network byte order
          Servers,    \* DHCP servers
          Pool,       \* the addresses each server gives
          CacheSize   \* ARP_CACHE_SIZE, 16 in the code

Broadcast == "broadcast"
NoMac     == "none"
Zero      == <<0, 0>>
Everyone  == <<255, 255>>   \* 255.255.255.255, the address of every machine
bswap(a)  == Reverse(a)

\* What the constants are.
NetworkConstants ==
  /\ CacheSize \in Nat \ {0} /\ {Zero, Everyone} \cap Addresses = {}
  /\ Addresses \subseteq Nat \X Nat
  /\ Pool \in [Servers -> SUBSET Addresses]

VARIABLES arp_cache, arp_cache_next_idx,
          local_ip,     \* of ip.c
          dhcp_state,
          offered,      \* local_ip of dhcp.c
          server,       \* dhcp_server_ip
          lan,          \* the DHCP messages that were sent
          leases,       \* per server, the address it acknowledged
          out,          \* the last frame this machine sent for a frame it got
          announced     \* history: the hardware address an address last announced

dhcpVars == <<dhcp_state, offered, server, local_ip, lan, leases>>
arpVars  == <<arp_cache, arp_cache_next_idx, announced>>
vars     == <<dhcpVars, arpVars, out>>

Frame(kind, mac, ip) == [kind |-> kind, mac |-> mac, ip |-> ip]
Silence == Frame("none", NoMac, Zero)

Init ==
  /\ arp_cache = [i \in 0 .. CacheSize - 1 |-> [ip |-> Zero, mac |-> NoMac]]
  /\ arp_cache_next_idx = 0
  /\ local_ip = Zero /\ offered = Zero
  /\ dhcp_state = "INIT" /\ server = NoMac
  /\ lan = {}
  /\ leases = [s \in Servers |-> Zero]
  /\ out = Silence
  /\ announced = [a \in Addresses |-> NoMac]

----------------------------------------------------------------------------
(* ARP *)

Holding(ip) == {i \in DOMAIN arp_cache : arp_cache[i].ip = ip}
First(s)    == CHOOSE i \in s : \A j \in s : i <= j

arp_lookup_mac(ip) ==
  IF Holding(ip) = {} THEN NoMac ELSE arp_cache[First(Holding(ip))].mac

(* Mutant of Slot: an address is always added. *)
SlotNew(ip) == arp_cache_next_idx

(* The entry arp_update_cache writes: that of the address, or the oldest. *)
Slot(ip) == IF Holding(ip) = {} THEN arp_cache_next_idx ELSE First(Holding(ip))

arp_update_cache(ip, mac) ==
  /\ arp_cache' = [arp_cache EXCEPT ![Slot(ip)] = [ip |-> ip, mac |-> mac]]
  /\ arp_cache_next_idx' = IF Holding(ip) # {} THEN arp_cache_next_idx
                           ELSE (arp_cache_next_idx + 1) % CacheSize

(* arp_handle_packet: a station with address src asks for dst, or answers.  A reply
   that cannot be allocated is not sent. *)
arp_handle_packet(mac, src, dst, request) ==
  /\ arp_update_cache(bswap(src), mac)
  /\ announced' = [announced EXCEPT ![src] = mac]
  /\ out' \in (IF request /\ bswap(dst) = local_ip
                 THEN {Silence, Frame("arp reply", mac, src)} ELSE {Silence})
  /\ UNCHANGED dhcpVars

----------------------------------------------------------------------------
(* IP, ICMP *)

(* ip_send_packet to an address of the host's byte order: every machine is reached by
   a broadcast; without a hardware address for one machine an ARP request is sent and
   the packet is dropped. *)
ip_send_packet(kind, dest) ==
  LET mac == IF dest = Everyone THEN Broadcast ELSE arp_lookup_mac(dest)
  IN  IF mac = NoMac THEN Frame("arp request", Broadcast, bswap(dest))
                     ELSE Frame(kind, mac, bswap(dest))

(* ip_handle_packet drops what is neither for local_ip nor for every machine. *)
ForUs(dst) == bswap(dst) \in {local_ip, Everyone}

(* ip_handle_packet and icmp_handle_packet: an echo request is answered to the
   address it came from. *)
EchoRequest(src, dst) ==
  /\ out' \in (IF ForUs(dst) THEN {Silence, ip_send_packet("echo reply", bswap(src))}
                             ELSE {Silence})
  /\ UNCHANGED <<dhcpVars, arpVars>>

(* sock_send: udp_send_packet to a destination a program chose. *)
SendDatagram(dst) ==
  /\ out' \in {Silence, ip_send_packet("udp", bswap(dst))}
  /\ UNCHANGED <<dhcpVars, arpVars>>

----------------------------------------------------------------------------
(* DHCP: messages are broadcast, and a server is named in an offer and a request. *)

Message(kind, addr, srv) == [kind |-> kind, addr |-> addr, server |-> srv]

dhcp_client_start ==
  /\ dhcp_state = "INIT"
  /\ lan' = lan \cup {Message("DISCOVER", Zero, NoMac)}
  /\ dhcp_state' = "SELECTING"
  /\ UNCHANGED <<offered, server, local_ip, leases, arpVars, out>>

(* Mutant of SetOnOffer: the IP layer is told the address that was offered. *)
SetOnOfferToo(a) == local_ip' = a

(* What an OFFER changes in the IP layer: nothing. *)
SetOnOffer(a) == UNCHANGED local_ip

(* dhcp_handle_packet. *)
HandleOffer(m) ==
  /\ m \in lan /\ m.kind = "OFFER" /\ dhcp_state = "SELECTING"
  /\ offered' = m.addr
  /\ server' = m.server
  /\ dhcp_state' = "REQUESTING"
  /\ lan' = lan \cup {Message("REQUEST", m.addr, m.server)}
  /\ SetOnOffer(m.addr)
  /\ UNCHANGED <<leases, arpVars, out>>

(* The address of the ACK is kept as it is in the packet. *)
HandleAck(m) ==
  /\ m \in lan /\ m.kind = "ACK" /\ dhcp_state = "REQUESTING"
  /\ offered' = m.addr
  /\ local_ip' = m.addr
  /\ dhcp_state' = "BOUND"
  /\ UNCHANGED <<server, lan, leases, arpVars, out>>

(* The servers, outside the code: offers to a DISCOVER, and an answer to a REQUEST
   that names the server, which may also be refused. *)
Offer(s, a) ==
  /\ Message("DISCOVER", Zero, NoMac) \in lan
  /\ lan' = lan \cup {Message("OFFER", a, s)}
  /\ UNCHANGED <<dhcp_state, offered, server, local_ip, leases, arpVars, out>>

Acknowledge(s, a) ==
  /\ Message("REQUEST", a, s) \in lan
  /\ \/ lan' = lan \cup {Message("ACK", a, s)} /\ leases' = [leases EXCEPT ![s] = a]
     \/ lan' = lan \cup {Message("NAK", a, s)} /\ UNCHANGED leases
  /\ UNCHANGED <<dhcp_state, offered, server, local_ip, arpVars, out>>

Next ==
  \/ \E mac \in Stations, src, dst \in Addresses, request \in BOOLEAN :
       arp_handle_packet(mac, src, dst, request)
  \/ \E src \in Addresses, dst \in Addresses \cup {Everyone} : EchoRequest(src, dst)
  \/ \E dst \in Addresses \cup {Everyone} : SendDatagram(dst)
  \/ dhcp_client_start
  \/ \E m \in lan : HandleOffer(m)
  \/ \E m \in lan : HandleAck(m)
  \/ \E s \in Servers : \E a \in Pool[s] : Offer(s, a)
  \/ \E s \in Servers : \E a \in Pool[s] : Acknowledge(s, a)

Spec == Init /\ [][Next]_vars

----------------------------------------------------------------------------
TypeOK ==
  /\ arp_cache \in [0 .. CacheSize - 1 ->
        [ip : Addresses \cup {bswap(a) : a \in Addresses} \cup {Zero},
         mac : Stations \cup {NoMac}]]
  /\ arp_cache_next_idx \in 0 .. CacheSize - 1
  /\ dhcp_state \in {"INIT", "SELECTING", "REQUESTING", "BOUND"}
  /\ {local_ip, offered} \subseteq Addresses \cup {Zero}
  /\ server \in Servers \cup {NoMac}

(* A datagram or an echo reply goes to the hardware address which its destination
   last announced: an entry is replaced in place, so no older one is found first.
   Only what is for every machine is broadcast. *)
LatestMac ==
  out.kind \in {"udp", "echo reply"} =>
    out.mac = IF out.ip = Everyone THEN Broadcast ELSE announced[out.ip]

(* The IP layer uses an address only when the server the client chose has given it,
   whatever is lost, repeated or late, and whatever other servers offer. *)
AddressWasGiven ==
  local_ip # Zero => local_ip = offered /\ leases[server] = local_ip

(* "For automatically obtaining an IP address" (docs_en/networking.md:49): a bound
   machine takes the packets sent to its address. *)
Reachable == dhcp_state = "BOUND" => ForUs(offered)
=============================================================================
