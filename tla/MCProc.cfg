SPECIFICATION PartsSpec
CONSTANTS
  Parts = {"proc", "monitor"}
  NPROC = 4
  MaxListed = 5
  MaxScan = 1
  Proc = {p0, p1, p2, p3}
  initproc = p0
  CPU = {c1, c2}
  NoProc = NoProc
  MaxPid = 5
  KillPids = {2, 3}
SYMMETRY Symmetry
INVARIANTS
  StackInUse
  NoLostExit
  ScanSound
