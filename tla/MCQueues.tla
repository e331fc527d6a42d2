------------------------------ MODULE MCQueues ------------------------------
(***************************************************************************)
(* The event queue and the other rings of the kernel, for TLC: the pipe,   *)
(* the kernel log, keyboard and mouse, the rings of the network card, the  *)
(* tables of the network, the screen and the devices. `machine' is the one *)
(* a behaviour is about; the others stay as they are initially.            *)
(***************************************************************************)
EXTENDS EventQueue, TLC

CONSTANTS PipeReaders, PipeWriters, PipeIdle, PipeSize, PipeCounts, PipeBytes, PipeNone,
          CardSenders, CardHandler, CardSlots, CardSent, CardCame,
          LanStations, LanAddresses, LanServers, LanPool, LanCache,
          LogSize, LogMessages, LogNone,
          InputQueue, InputLetters, InputOthers, InputWidth, InputHeight, InputDeltas, InputTaken,
          HistorySize, HistoryLines, EditSize, EditFile, EditChars,
          BusSlots, BusFuncs, BusKinds, BusLine, BusBits, BusBars

VARIABLES
  machine,
  current, state, pc, held, waiters, buffer, read_pos, write_pos, data_size, read_closed,
  write_closed, left, moved, last,
  log_history, log_history_idx, log_history_full, call, crossed, overrun, said, since,
  shift, caps, ctrl, mouse_cycle, packet, mouse_x, mouse_y, last_button_state, queue, taken,
  dropped,
  tdt, tdh, txbuf, txdd, sending, c_pc, slot, frame, calls, wire, raced, rdt, rdh, rx_cur,
  rxbuf, rxdd, handling, came, c_taken, wild,
  arp_cache, arp_cache_next_idx, local_ip, dhcp_state, offered, server, lan, leases, out,
  announced,
  mode, con, shown, s_call, text, exact, dead,
  l_history, l_history_count, l_history_index, l_typed, l_edit, l_file, l_clean, l_saved,
  l_longer,
  bus, bar, low, high, command, status, phase, todo, devices, driver, nic, rings, handlers,
  networks, iflag, gpu

pipeVars == <<current, state, pc, held, waiters, buffer, read_pos, write_pos, data_size,
              read_closed, write_closed, left, moved, last>>
logVars == <<log_history, log_history_idx, log_history_full, call, crossed, overrun, said, since>>
inputVars == <<shift, caps, ctrl, mouse_cycle, packet, mouse_x, mouse_y, last_button_state,
               queue, taken, dropped>>
cardVars == <<tdt, tdh, txbuf, txdd, sending, c_pc, slot, frame, calls, wire, raced, rdt, rdh,
              rx_cur, rxbuf, rxdd, handling, came, c_taken, wild>>
lanVars == <<arp_cache, arp_cache_next_idx, local_ip, dhcp_state, offered, server, lan, leases,
             out, announced>>
screenVars == <<mode, con, shown, s_call, text, exact, dead>>
lineVars == <<l_history, l_history_count, l_history_index, l_typed, l_edit, l_file, l_clean,
              l_saved, l_longer>>
busVars == <<bus, bar, low, high, command, status, phase, todo, devices, driver, nic, rings,
             handlers, networks, iflag, gpu>>

\* The addresses of the network and those its servers give, in the order of their bytes.
MCAddresses == {<<10, 1>>, <<10, 2>>, <<10, 3>>}
MCPool      == [s \in LanServers |-> {<<10, 1>>}]

\* The interrupt lines of the slots, and what a base address register may stand for.
MCLine  == 0 :> 11 @@ 1 :> 16
Regions == {[type |-> "mem32", base |-> 64, size |-> 32], [type |-> "mem32", base |-> 0, size |-> 16],
            [type |-> "mem64", base |-> 64, size |-> 32], [type |-> "mem64", base |-> 512, size |-> 64]}

Ring == INSTANCE Pipe
  WITH Threads <- PipeReaders \cup PipeWriters, Readers <- PipeReaders, Writers <- PipeWriters,
       Idle <- PipeIdle, Queues <- {"read_queue", "write_queue"}, BufSize <- PipeSize,
       Counts <- PipeCounts, Bytes <- PipeBytes, NoByte <- PipeNone
Log == INSTANCE KLog
  WITH LOG_HISTORY_SIZE <- LogSize, Messages <- LogMessages, NoMessage <- LogNone
Keys == INSTANCE Input
  WITH EVENT_QUEUE_SIZE <- InputQueue, Letters <- InputLetters, Others <- InputOthers,
       Width <- InputWidth, Height <- InputHeight, Deltas <- InputDeltas, MaxTaken <- InputTaken
Card == INSTANCE E1000
  WITH Senders <- CardSenders, Handler <- CardHandler, N <- CardSlots, MaxSent <- CardSent,
       MaxCame <- CardCame, pc <- c_pc, taken <- c_taken
Lan == INSTANCE Network
  WITH Stations <- LanStations, Addresses <- LanAddresses, Servers <- LanServers,
       Pool <- LanPool, CacheSize <- LanCache
Display == INSTANCE Screen
  WITH Modes <- {[width |-> 2, height |-> 5, pitch |-> 8], [width |-> 4, height |-> 2, pitch |-> 12]},
       FONT_HEIGHT <- 2, Letters <- {"a"}, Said <- {"h", "newline"}, MaxText <- 5,
       call <- s_call
Typed == INSTANCE Line
  WITH HISTORY_SIZE <- HistorySize, Lines <- HistoryLines, MaxEdit <- EditSize,
       MaxFile <- EditFile, Chars <- EditChars, Closed <- NoEvent, history <- l_history, history_count <- l_history_count,
       history_index <- l_history_index, typed <- l_typed, edit <- l_edit, file <- l_file,
       clean <- l_clean, saved <- l_saved, longer <- l_longer
Bus == INSTANCE Devices
  WITH Slots <- BusSlots, Funcs <- BusFuncs, Kinds <- BusKinds, Line <- BusLine,
       Bits <- BusBits, Bars <- BusBars

ASSUME MachineConstants ==
  /\ Ring!PipeConstants
  /\ Ring!WaitConstants
  /\ Log!KLogConstants
  /\ Keys!InputConstants
  /\ Card!RingConstants
  /\ Lan!NetworkConstants
  /\ Display!ScreenConstants
  /\ Typed!LineConstants
  /\ Bus!DevicesConstants

others == <<machine, pipeVars, logVars, inputVars, cardVars, lanVars, screenVars, lineVars,
            busVars>>
all    == <<vars, others>>

MCInit ==
  /\ machine \in {"events", "pipe", "log", "input", "card", "lan", "screen", "line", "bus"}
  /\ Init /\ Ring!Init /\ Log!Init /\ Keys!Init /\ Card!Init /\ Lan!Init /\ Display!Init /\ Typed!Init /\ Bus!Init
  /\ machine # "line" => l_file = <<>>
  /\ machine # "screen" => mode.width = 2
  /\ machine # "bus" => /\ \A s \in DOMAIN bus : ~bus[s].multi /\ bus[s].kind[0] = "none"
                        /\ bar.base = 0

\* A step of one machine; whatever is not one of its variables stays.
EventsOnly == UNCHANGED others
RingOnly == UNCHANGED <<machine, vars, logVars, inputVars, cardVars, lanVars, screenVars,
                        lineVars, busVars>>
LogOnly == UNCHANGED <<machine, vars, pipeVars, inputVars, cardVars, lanVars, screenVars,
                       lineVars, busVars>>
KeysOnly == UNCHANGED <<machine, vars, pipeVars, logVars, cardVars, lanVars, screenVars,
                        lineVars, busVars>>
CardOnly == UNCHANGED <<machine, vars, pipeVars, logVars, inputVars, lanVars, screenVars,
                        lineVars, busVars>>
LanOnly == UNCHANGED <<machine, vars, pipeVars, logVars, inputVars, cardVars, screenVars,
                       lineVars, busVars>>
DisplayOnly == UNCHANGED <<machine, vars, pipeVars, logVars, inputVars, cardVars, lanVars,
                           lineVars, busVars>>
TypedOnly == UNCHANGED <<machine, vars, pipeVars, logVars, inputVars, cardVars, lanVars,
                         screenVars, busVars>>
BusOnly == UNCHANGED <<machine, vars, pipeVars, logVars, inputVars, cardVars, lanVars,
                       screenVars, lineVars>>

MCNext ==
  \/ machine = "events" /\ Next /\ EventsOnly
  \/ machine = "pipe" /\ Ring!Next /\ RingOnly
  \/ machine = "log" /\ Log!Next /\ LogOnly
  \/ machine = "input" /\ Keys!Next /\ KeysOnly
  \/ machine = "card" /\ Card!Next /\ CardOnly
  \/ machine = "lan" /\ Lan!Next /\ LanOnly
  \/ machine = "screen" /\ Display!Next /\ DisplayOnly
  \/ machine = "line" /\ Typed!Next /\ TypedOnly
  \/ machine = "bus" /\ Bus!Next /\ BusOnly

MCSpec == MCInit /\ [][MCNext]_all

----------------------------------------------------------------------------
\* Types of every machine.
TypesOK ==
  /\ TypeOK
  /\ machine = "pipe" => Ring!TypeOK
  /\ machine = "log" => Log!TypeOK
  /\ machine = "input" => Keys!TypeOK
  /\ machine = "card" => Card!TypeOK
  /\ machine = "lan" => Lan!TypeOK
  /\ machine = "screen" => Display!TypeOK
  /\ machine = "line" => Typed!TypeOK
  /\ machine = "bus" => Bus!TypeOK
\* Both ends of the pipe are found by a wakeup, and no reader sleeps beside data (pipe.c).
PipeWakes == machine = "pipe" => Ring!SleepersQueued /\ Ring!NoSleepBesideData
\* The pipe is a bounded first-in first-out queue of bytes (pipe.c).
PipeStream == Ring!StreamSpec
\* The newest messages of the log are complete and in order (log.c), the readers see the
\* movements of the mouse (mouse.c), and the history and the editor of the shell show what was
\* typed (shell.c).
RingsTrue ==
  /\ machine = "log"   => Log!Recent
  /\ machine = "input" => Keys!MouseTrue
  /\ machine = "line"  => Typed!LineSound
\* Frames go out and are handed up once and in order (e1000.c).
CardInOrder == machine = "card" => Card!SentInOrder /\ Card!TakenInOrder
\* The ARP cache has the newest address, and the address in use was given (arp.c, dhcp.c).
LanTrue == machine = "lan" => Lan!LatestMac /\ Lan!AddressWasGiven
\* The screen shows what was printed, inside its buffer (fb.c, log.c).
ScreenTrue == machine = "screen" => Display!ScreenTrue
\* Every device is found once, ready before its interrupts, its registers kept (pci.c, e1000.c).
DevicesSound == machine = "bus" => Bus!DevicesSound
=============================================================================
