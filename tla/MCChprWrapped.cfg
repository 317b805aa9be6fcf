\* chpr() wherever the rings stand.
CONSTANTS
  NPROC   = 3
  CPUs    = {c1}
  c1      = c1
  Ticks   = Ticks
  MaxPid  = 3
  Builds  = {"MLQ"}
  NUMPR   = 2
  MDPR    = 2
  AnyRing = TRUE
SPECIFICATION MSpec
INVARIANTS
  HoldsRunnable
