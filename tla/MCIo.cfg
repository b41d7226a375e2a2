SPECIFICATION PartsSpec
CONSTANTS
  Reader = {r1, r2}
  Writer = {w1, w2}
  Hart = {"h1", "h2"}
  Byte = {0, 1}
  Failed = Failed
  PIPESIZE = 2
  WRAP = 4
  MaxN = 2
  INPUT_BUF_SIZE = 2
  UINT = 8
  Polls = 2
  MaxRead = 2
  MaxTyped = 5
  FifoSize = 4
  BATCH = 2
  MaxChars = 3
  MaxSync = 3
CONSTRAINT PipeBound
SYMMETRY Symmetry
INVARIANTS
  WrittenInOrder
PROPERTIES
  IsFifo
  
