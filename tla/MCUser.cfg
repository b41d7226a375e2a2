SPECIFICATION PartsSpec
CONSTANTS
  Commands <- MCCommands
  MaxCmds = 2
  NPROC = 8
  NOFILE = 6
  MaxPipe = 2
  CanFail = TRUE
  Alphabet = {"a", " ", ">", "<", "|", "&", ";", "(", ")"}
  MaxLen = 5
  MAXARGS = 3
  MORE = 4
  LIMIT = 10
  MaxUnits = 5
  MaxGap = 1
  ReChar = {"a", ".", "*", "^", "$"}
  TextChar = {"a", "b"}
  MaxRe = 4
  MaxInput = 4
  BUFSIZE = 3
  INT_MAX = 127
  PerSecond = 2
  PerMinute = 16
  PerTick = 4
  MaxArgs = 3
  K = 16
  TOTAL_MEM_BYTES = 4096
  MaxV = 5000
  Totals = {0, 1, 7, 16, 100, 1250, 9999}
  N = 6
  Keys = {0, 1, 2}
  BSIZE = 2
  NDIRECT = 2
  NINDIRECT = 2
  FSSIZE = 24
  BPB = 32
  nmeta = 3
  Sizes = {0, 1, 2, 3, 5, 8}
  MaxFiles = 4
VIEW View
INVARIANTS
  RunsAsTyped
  ParsesGrammar
  
  GrepExact
  
  ImageConsistent

  
