\* ps() against the keyboard interrupt, or a reader of the console.
CHECK_DEADLOCK FALSE
CONSTANTS
  CPUS     = {c0, c1}
  c0       = c0
  c1       = c1
  CPU0     = c0
  LastCPU  = c1
  Threads  = {t1, t2}
  t1       = t1
  t2       = t2
  SleepLocks = {sl}
  sl       = sl
  PlainLocks = {pl}
  pl       = pl
  Nobody   = nobody
  MaxTraps = 2
SPECIFICATION LockSpec
INVARIANT
  NoCircularWait
