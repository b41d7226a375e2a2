SPECIFICATION PartsSpec
CONSTANTS
  Proc = {p1, p2, p3}
  Name = {n1, n2}
  Inum = {2, 3}
  NINODE = 3
  None = None
  MaxCalls = 4
  MaxCrashes = 1
  NB = 4
  BSIZE = 2
  NDIRECT = 1
  NINDIRECT = 2
  BPB = 8
  MAXOPBLOCKS = 6
  MaxN = 4
  NUM = 6
  IDX = 12
VIEW View
SYMMETRY Symmetry
INVARIANTS
  InodesKept
  IputNeverBlocks
  ReclaimComplete
  FilesIntact
  LogBound
  
PROPERTIES
  Atomic
