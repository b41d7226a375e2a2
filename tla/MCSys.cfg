SPECIFICATION PartsSpec
CONSTANTS
  Parts = {"names", "files", "memory"}
  Proc = {p1, p2}
  Inum = {1, 2, 3, 4}
  Root = 1
  a = "a"
  b = "b"
  Dot = "."
  DotDot = ".."
  Name = {"a", "b", ".", ".."}
  Calls <- Absolute
  MaxCalls = 5
  NFILE = 3
  NOFILE = 2
  NObj = 4
  NPAGE = 14
  FAN = 2
  USERSTACK = 1
  MaxArg = 1
VIEW View
SYMMETRY Symmetry
INVARIANTS
  TreeShape
  NoLockCycle
  ClosedOnce
  PagesOnce
  KernelRuns
PROPERTIES
  FailureKeepsImage
