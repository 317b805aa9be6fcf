\* Three slots: init, a child, and its child, which it may leave to init.  One CPU
\* serves them all.
CONSTANTS
  NPROC  = 3
  CPUs   = {c1}
  c1     = c1
  Ticks  = Ticks
  MaxPid = 3
SPECIFICATION DSpec
PROPERTIES
  EveryProcessRuns
  KillSeen
  OrphansReaped
