SPECIFICATION PartsSpec
CONSTANTS
  Proc = {p0, q1, q2}
  initproc = p0
  q1 = q1
  q2 = q2
  CPU = {c1, c2}
  NoProc = NoProc
  MaxPid = 3
  KillPids = {2}
PROPERTIES
  ProcessesEnd
  PipeReturns
  DiskReturns
  TerminalReturns
