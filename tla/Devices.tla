------------------------------ MODULE Devices ------------------------------
(***************************************************************************)
(* The device manager, the scan of the PCI bus and the attachment of the   *)
(* drivers (deviceman.c, pci.c, radeon.c, the attach half of e1000.c and   *)
(* ide.c).                                                                 *)
(*                                                                         *)
(* A machine has slots 0 .. Slots-1 with functions 0 .. Funcs-1, empty or  *)
(* of a kind.  A slot of one function only answers to every function       *)
(* number with it.  A place is what the scan records, <<slot, function>>.  *)
(***************************************************************************)
EXTENDS Integers, Sequences, FiniteSets, SequencesExt

CONSTANTS
  Slots, Funcs,  \* what the bus has room for
  Kinds,         \* subset of {"nic", "gpu", "ide", "other"}
  Line,          \* the interrupt line of a slot
  Bits,          \* bits of a dword of the configuration space, 32 in the code
  Bars           \* what the base address register of a graphics card may stand for

\* A region is a power of two, 4 ports or 16 bytes at least, at a multiple of its size; a 64-bit
\* one may be anywhere.  A register leaves the bits below to its flags.
DevicesConstants ==
  /\ Slots \in Nat \ {0} /\ Funcs \in Nat \ {0} /\ Line \in [0 .. Slots - 1 -> Nat]
  /\ Kinds \subseteq {"nic", "gpu", "ide", "other"}
  /\ Bits > 4 /\ 2^Bits \in Nat \ {0} /\ 2^Bits % 16 = 0
  /\ \A b \in Bars :
       /\ b.base \in Nat /\ b.size \in Nat \ {0} /\ b.base % b.size = 0
       /\ b.type \in {"io", "mem32", "mem64"} /\ (b.type # "mem64" => b.base < 2^Bits)
       /\ b.base % (IF b.type = "io" THEN 4 ELSE 16) = 0

VARIABLES
  bus,       \* slot -> [multi, kind of each function]
  bar,       \* the region of every graphics card
  low, high, \* the two dwords of its register, by place
  command,   \* place -> the bits of PCI_COMMAND that are set
  status,    \* place -> whether an error is latched in PCI_STATUS
  phase,     \* "scan", "probe", "done"
  todo,      \* the function numbers still to be looked at, or the devices still to be probed
  devices,   \* discovered_devices
  driver,    \* dev->driver of a place, and what attach did for it
  nic,       \* place -> how far e1000_attach came
  rings,     \* places whose rings are complete
  handlers,  \* the lines with the network handler
  networks,  \* network_devices, newest first
  iflag,     \* interrupts are on: a driver that sends may turn them on
  gpu        \* place -> what radeon.c found

devVars == <<bus, bar, low, high, command, status, phase, todo, devices, driver, nic, rings,
             handlers, networks, iflag, gpu>>
pciVars == <<bus, bar, low, high, command, status>>

Places == (0 .. Slots - 1) \X (0 .. Funcs - 1)
D == 2^Bits
\* pci_config answers for a place: a slot of one function does not look at the number.
Answers(p) == LET s == bus[p[1]] IN IF s.multi THEN s.kind[p[2]] ELSE s.kind[0]
Flags == CASE bar.type = "io" -> 1 [] bar.type = "mem32" -> 0 [] bar.type = "mem64" -> 4

\* pci_check_all_buses goes up; every device is put in front.
Order == [n \in 1 .. Slots * Funcs |-> <<(n - 1) \div Funcs, (n - 1) % Funcs>>]

Init == /\ bus \in [0 .. Slots - 1 ->
                      [multi : BOOLEAN, kind : [0 .. Funcs - 1 -> Kinds \cup {"none"}]]]
        /\ \A s \in 0 .. Slots - 1 : ~bus[s].multi => \A f \in 1 .. Funcs - 1 : bus[s].kind[f] = "none"
        /\ bar \in Bars
        /\ low = [p \in Places |-> (bar.base % D) + Flags] /\ high = [p \in Places |-> bar.base \div D]
        /\ command = [p \in Places |-> {"memory"}] /\ status \in [Places -> {"error"}]
        /\ phase = "scan" /\ todo = Order /\ devices = <<>>
        /\ driver = [p \in Places |-> "none"] /\ nic = [p \in Places |-> "off"] /\ rings = {}
        /\ handlers = {} /\ networks = <<>> /\ iflag = FALSE
        /\ gpu = [p \in Places |-> [found |-> FALSE, base |-> 0, size |-> 0]]

----------------------------------------------------------------------------
(* The scan.                                                               *)

\* A scan that trusts the numbers: every function that answers is one.
LookedAll(p) == Answers(<<p[1], 0>>) # "none"

\* pci_check_device: functions other than 0 only behind a function 0 that says so.
Looked(p) == /\ Answers(<<p[1], 0>>) # "none"
             /\ p[2] = 0 \/ bus[p[1]].multi

\* pci_check_function and deviceman_register_device; kmalloc may fail.
pci_check_function ==
  /\ phase = "scan" /\ todo # <<>>
  /\ todo' = Tail(todo)
  /\ \/ /\ Looked(Head(todo)) /\ Answers(Head(todo)) # "none"
        /\ devices' = <<Head(todo)>> \o devices
     \/ UNCHANGED devices
  /\ UNCHANGED <<pciVars, phase, driver, nic, rings, handlers, networks, iflag, gpu>>

ScanComplete == /\ phase = "scan" /\ todo = <<>>
                /\ phase' = "probe" /\ todo' = devices
                /\ UNCHANGED <<pciVars, devices, driver, nic, rings, handlers, networks, iflag, gpu>>

----------------------------------------------------------------------------
(* Attachment.  deviceman_probe_devices asks the drivers newest first; a   *)
(* kind has one driver only, so that one that fails to attach leaves the   *)
(* device to the others, who do not know it.                               *)
Probing(kind) == phase = "probe" /\ todo # <<>> /\ Answers(Head(todo)) = kind
Dev == Head(todo)

\* pci_write_config_word: the dword is read and written back whole, so that the errors that
\* PCI_STATUS had latched are cleared by it.
Command(bits) == /\ command' = [command EXCEPT ![Dev] = @ \cup bits]
                 /\ status'  = [status EXCEPT ![Dev] = "clear"]

\* No driver, or one whose first kmalloc fails; ide_attach has none.
Skip == /\ phase = "probe" /\ todo # <<>> /\ nic[Dev] = "off" /\ ~Probing("ide")
        /\ todo' = Tail(todo)
        /\ UNCHANGED <<pciVars, phase, devices, driver, nic, rings, handlers, networks, iflag, gpu>>

Stage(from, to) == nic[Dev] = from /\ nic' = [nic EXCEPT ![Dev] = to]

\* e1000_attach, to the reset of the card: bus mastering, IMC, CTRL.
Reset == /\ Probing("nic") /\ Stage("off", "reset") /\ Command({"master"})
         /\ UNCHANGED <<bus, bar, low, high, phase, todo, devices, driver, rings, handlers, networks,
                        iflag, gpu>>

\* The two rings and their buffers; a page that is missing ends it, what there is stays.
Rings == /\ Probing("nic")
         /\ \/ /\ Stage("reset", "rings") /\ rings' = rings \cup {Dev} /\ UNCHANGED todo
            \/ /\ Stage("reset", "failed") /\ todo' = Tail(todo) /\ UNCHANGED rings
         /\ UNCHANGED <<pciVars, phase, devices, driver, handlers, networks, iflag, gpu>>

\* RCTL and TCTL.
Enable == /\ Probing("nic") /\ Stage("rings", "receiving")
          /\ UNCHANGED <<pciVars, phase, todo, devices, driver, rings, handlers, networks, iflag, gpu>>

\* register_irq_handler, then IMS.
Unmask == /\ Probing("nic") /\ Stage("receiving", "unmasked")
          /\ handlers' = IF Line[Dev[1]] < 16 THEN handlers \cup {Line[Dev[1]]} ELSE handlers
          /\ UNCHANGED <<pciVars, phase, todo, devices, driver, rings, networks, iflag, gpu>>

\* net_register_device.
net_register_device ==
  /\ Probing("nic") /\ Stage("unmasked", "registered")
  /\ networks' = <<Dev>> \o networks
  /\ UNCHANGED <<pciVars, phase, todo, devices, driver, rings, handlers, iflag, gpu>>

\* dhcp_client_start sends; with no thread to run, schedule turns interrupts on.
StartDhcp ==
  /\ Probing("nic") /\ Stage("registered", "attached")
  /\ iflag' \in {iflag, TRUE}
  /\ driver' = [driver EXCEPT ![Dev] = "e1000"] /\ todo' = Tail(todo)
  /\ UNCHANGED <<pciVars, phase, devices, rings, handlers, networks, gpu>>

\* What a base address register holds when ones were written to it.
Sized == ((D - (bar.size % D)) % D) + Flags

\* pci_get_bar_info of a register: the value restored, the base and the size it returns.  The
\* high dword is read twice and never written.
pci_get_bar_info(p) ==
  LET mask  == IF bar.type = "io" THEN 4 ELSE 16
      Clear(v) == v - (v % mask)
      ones  == Clear(Sized)
  IN CASE low[p] = 0 -> [low |-> low[p], base |-> 0, size |-> 0]
       [] bar.type = "mem64" ->
            [low |-> low[p], base |-> high[p] * D + Clear(low[p]),
             size |-> (D * D - (high[p] * D + ones)) % (D * D)]
       [] OTHER ->
            [low |-> low[p], base |-> Clear(low[p]), size |-> (D - ones) % D]

\* amdgpu_attach.
amdgpu_attach ==
  /\ Probing("gpu")
  /\ LET i == pci_get_bar_info(Dev) IN
       /\ low' = [low EXCEPT ![Dev] = i.low]
       /\ gpu' = [gpu EXCEPT ![Dev] = [found |-> TRUE, base |-> i.base, size |-> i.size]]
  /\ Command({"memory", "master"})
  /\ driver' = [driver EXCEPT ![Dev] = "amdgpu"] /\ todo' = Tail(todo)
  /\ UNCHANGED <<bus, bar, high, phase, devices, nic, rings, handlers, networks, iflag>>

\* ide_attach: the driver is set at the start and stays when /dev/sda cannot be made.
ide_attach ==
  /\ Probing("ide") /\ driver' = [driver EXCEPT ![Dev] = "ide"] /\ todo' = Tail(todo)
  /\ UNCHANGED <<pciVars, phase, devices, nic, rings, handlers, networks, iflag, gpu>>

Done == /\ phase = "probe" /\ todo = <<>> /\ phase' = "done"
        /\ UNCHANGED <<pciVars, todo, devices, driver, nic, rings, handlers, networks, iflag, gpu>>

Next == \/ pci_check_function \/ ScanComplete \/ Skip
        \/ Reset \/ Rings \/ Enable \/ Unmask \/ net_register_device \/ StartDhcp
        \/ amdgpu_attach \/ ide_attach \/ Done
        \/ phase = "done" /\ UNCHANGED devVars

Spec == Init /\ [][Next]_devVars

----------------------------------------------------------------------------
TypeOK == /\ phase \in {"scan", "probe", "done"}
          /\ todo \in Seq(Places) /\ devices \in Seq(Places) /\ networks \in Seq(Places)
          /\ command \in [Places -> SUBSET {"memory", "master"}]
          /\ rings \subseteq Places /\ iflag \in BOOLEAN

\* Every function of the machine is found at most once, and has one driver at most: a slot of
\* one function must not be taken for several (pci_check_device).
FoundOnce == /\ \A i, j \in 1 .. Len(devices) : devices[i] = devices[j] => i = j
             /\ \A p \in ToSet(devices) : bus[p[1]].kind[p[2]] # "none"

\* A card receives only into rings that are complete, as a bus master, and one that may
\* interrupt while interrupts are on finds a handler, which finds a card (e1000_attach,
\* e1000_interrupt_handler).
CardsReady ==
  \A p \in Places :
    /\ nic[p] \in {"receiving", "unmasked", "registered", "attached"} =>
         p \in rings /\ "master" \in command[p]
    /\ iflag /\ nic[p] \in {"unmasked", "registered", "attached"} /\ Line[p[1]] < 16 =>
         Line[p[1]] \in handlers /\ networks # <<>> /\ Head(networks) \in rings

\* A graphics card is where it was before it was asked for its size, and the driver knows where
\* that is (pci_get_bar_info).
BarsKept ==
  \A p \in Places : /\ low[p] = (bar.base % D) + Flags /\ high[p] = bar.base \div D
                    /\ gpu[p].found => gpu[p].base = bar.base

DevicesSound == FoundOnce /\ CardsReady /\ BarsKept

\* radeon.c:27 "Returns the base address and fills size. Handles 32-bit and 64-bit BARs."
SizesRight == \A p \in Places : gpu[p].found => gpu[p].size = bar.size

=============================================================================
