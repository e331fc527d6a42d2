CONSTANTS
  Total = 5
  Reserved = {0}
  PerByte = 2
  Runs = {2}
  MaxCount = 5
  HeapUnits = 12
  LeastUnits = 4
  UnitsOfPage = 2
  BlockSizes = {2, 3, 5}
  Callers = {"a", "b"}
  DescriptorCount = 2
  Folders = {"root", "dev"}
  PlainFiles = {}
  RootFolder = "root"
  SocketPlaces = {"s1", "s2"}
  ProgramBlocks = {"k"}
  FirstBreak = 4
  BreakValues = 6
  BreakSteps = {1}
SPECIFICATION MCSpec
INVARIANTS TypesOK CountCovers Exclusive SearchComplete HeapSound PagesOwnedOnce CallsSound LibraryTrue
