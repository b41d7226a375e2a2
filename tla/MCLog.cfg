SPECIFICATION Spec
CONSTANTS
  Process = {p1, p2, p3}
  Block = {b1, b2, b3}
  Val = {v1, v2}
  Torn = Torn
  Absent = Absent
  LOGBLOCKS = 6
  MAXOPBLOCKS = 3
  OpBlocks = 2
  MaxOps = 3
  MaxCrashes = 2
SYMMETRY Symmetry
PROPERTIES
  CrashAtomic
