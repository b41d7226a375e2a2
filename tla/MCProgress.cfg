SPECIFICATION PartsSpec
CONSTANTS
  Process = {p1, p2}
  p1 = p1
  Block = {b1, b2, b3, b4}
  Val = {v1}
  Torn = Torn
  Absent = Absent
  LOGBLOCKS = 4
  MAXOPBLOCKS = 2
  OpBlocks = 1
  MaxOps = 5
  MaxCrashes = 1
PROPERTIES
  BeginOpReturns
  PromptReturns
