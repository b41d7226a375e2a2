SPECIFICATION PartsSpec
CONSTANTS
  Parts = {"names"}
  Proc = {p1}
  Inum = {1, 2, 3}
  Root = 1
  a = "a"
  b = "b"
  Dot = "."
  DotDot = ".."
  Name = {"a", "b", ".", ".."}
  Calls <- Relative
  MaxCalls = 6
  NFILE = 3
  NOFILE = 2
  NObj = 4
  NPAGE = 14
  FAN = 2
  USERSTACK = 1
  MaxArg = 1
INVARIANTS NoPanic
