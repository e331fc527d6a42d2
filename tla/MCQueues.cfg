CONSTANTS
  Size = 4
  Events = {k1, k2, m1}
  NoEvent = NoEvent
  PipeReaders = {r1}
  PipeWriters = {w1, w2}
  PipeIdle = idle
  PipeSize = 2
  PipeCounts = {1, 2}
  PipeBytes = {x, y}
  PipeNone = none
  CardSenders = {a}
  CardHandler = h
  CardSlots = 2
  CardSent = 4
  CardCame = 6
  LanStations = {m1, m2}
  LanAddresses <- MCAddresses
  LanServers = {s1, s2}
  LanPool <- MCPool
  LanCache = 2
  LogSize = 3
  LogMessages = {"a", "b"}
  LogNone = "none"
  InputQueue = 2
  InputLetters = {"q"}
  InputOthers = {}
  InputWidth = 2
  InputHeight = 1
  InputDeltas = {1}
  InputTaken = 1
  HistorySize = 2
  HistoryLines = {"x", "y"}
  EditSize = 2
  EditFile = 3
  EditChars = {"c", "d"}
  BusSlots = 2
  BusFuncs = 2
  BusKinds = {"nic", "gpu", "ide"}
  BusLine <- MCLine
  BusBits = 8
  BusBars <- Regions
SPECIFICATION MCSpec
INVARIANTS TypesOK PipeWakes RingsTrue CardInOrder  ScreenTrue DevicesSound
PROPERTIES FifoSpec PipeStream
