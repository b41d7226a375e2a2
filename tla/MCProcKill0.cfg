SPECIFICATION PartsSpec
CONSTANTS
  Parts = {"proc"}
  NPROC = 4
  MaxListed = 5
  MaxScan = 1
  Proc = {p0, p1, p2}
  initproc = p0
  CPU = {c1, c2}
  NoProc = NoProc
  MaxPid = 3
  KillPids = {0, 2}
INVARIANTS
  KillHitsTarget
