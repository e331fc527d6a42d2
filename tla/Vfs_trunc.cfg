CONSTANTS
  Root = Root
  Nodes = {n1, n2}
  Names = {a, b}
  Fds = {0, 1}
  Cap0 = 1
  MaxSize = 2
  Free = Free
  Null = Null
  Closed = Closed
  Garbage = Garbage
  Byte = Byte
SPECIFICATION Spec
INVARIANTS WriteHasBuffer
