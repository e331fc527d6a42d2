CONSTANTS
  Root = Root
  Nodes = {n1, n2}
  Names = {a, b}
  Fds = {0, 1}
  Cap0 = 1
  MaxSize = 3
  Free = Free
  Null = Null
  Closed = Closed
  Garbage = Garbage
  Byte = Byte
  MountPoints = {p, q}
  MountNames = {name}
  MountFds = {0}
  SectorsOfDisk = 2
  BytesOfSector = 2
  SectorCounts = 3
  TransferSizes = {2, 3, 4, 6}
  SectorValues = {x, y}
  NoData = NoData
  FilesOfDisk = 2
  BlocksOfDisk = 5
  LongestFile = 2
SPECIFICATION MCSpec
SYMMETRY Perms
INVARIANTS TypesOK TreeOK NoHeapBytes MountsAgree TransferSound ToolsSound CrashAtomic TableSound DataStaysData
