CONSTANTS
  Boot = {}
  Idle = Idle
  Programs = {p1}
  Irqs = {0, 1, 11}
  MaxDepth = 2
SPECIFICATION FairSpec
PROPERTY KeyboardReleased
