CONSTANTS
  Names = {a, b}
  Values = {v}
  MaxFiles = 2
  Total = 6
  MaxLen = 2
  Faults = {"long"}
  NoSignature = NoSignature
  Unused = Unused
  NoCache = NoCache
  Absent = Absent
SPECIFICATION Spec
INVARIANTS ExtentsDisjoint
