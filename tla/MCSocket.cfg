CONSTANTS
  Callers = {t1, t2}
  Idle = Idle
  Sockets = {s1, s2}
  Ports = {7}
  DhcpPorts = {68}
  Lengths = {0, 1}
  Wants = {1}
  BufSize = 1
  MaxHandlers = 1
  MaxBytes = 1
SPECIFICATION FairSpec
INVARIANTS TypeOK SocketsSound 
 
