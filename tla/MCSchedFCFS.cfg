\* Three slots, so that a parent can leave a child or a zombie to init, one of them
\* used twice; two CPUs; two creation times.
CONSTANTS
  NPROC    = 3
  CPUs     = {c1, c2}
  c1       = c1
  c2       = c2
  Ticks    = Ticks
  MaxPid   = 4
  MaxTicks = 1
SPECIFICATION FSpec
SYMMETRY CPUSymmetry
INVARIANTS
  TypeOK
  OneCPUPerProc
  LockHandoff
  NoMissedExit
  ParentsLive
  PidsUnique
  WaitSeesKill
  EmbryoOwned
PROPERTIES
  PolicySpec
