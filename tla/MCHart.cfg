SPECIFICATION PartsSpec
CONSTANTS
  c1 = c1
  c2 = c2
  t1 = t1
  t2 = t2
  l1 = l1
  CPU = {c1, c2}
  Thread = {t1, t2}
  Lock = {l1}
  Rank <- MCRank
  Scheduler = Scheduler
  NoCPU = NoCPU
  NoLock = NoLock
  NPC = 2
  Proc = {"p"}
  NHART = 2
  UINT = 4
  ULONG = 64
  MaxPause = 2
  MaxTick = 6
VIEW View
SYMMETRY Symmetry
INVARIANTS
  MutualExclusion
  InterruptsRestored
  UserStateKept
  KernelStateKept
  
  ChargeBound
