CONSTANTS
  Threads = {"a"}
  MAX_FILES = 2
  Directories = {"root", "dev"}
  Plain = {"f"}
  Top = "root"
  Sockets = {"s1"}
  Blocks = {"k"}
  Bottom = 4
  W = 6
  Increments = {1}
SPECIFICATION Spec
INVARIANTS ReaddirOfDescriptor
