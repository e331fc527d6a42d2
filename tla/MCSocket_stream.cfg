CONSTANTS
  Callers = {t1}
  Idle = Idle
  Sockets = {s1}
  Ports = {7}
  DhcpPorts = {68}
  Lengths = {1, 2}
  Wants = {1, 2}
  BufSize = 2
  MaxHandlers = 1
  MaxBytes = 4
SPECIFICATION Spec
INVARIANT StreamIntact
