\* The MLQ and DMLQ builds: two levels, two CPUs, two slots.
CONSTANTS
  NPROC   = 2
  CPUs    = {c1, c2}
  c1      = c1
  c2      = c2
  Ticks   = Ticks
  MaxPid  = 3
  Builds  = {"MLQ", "DMLQ"}
  NUMPR   = 2
  MDPR    = 2
  AnyRing = FALSE
SPECIFICATION MSpec
SYMMETRY CPUSymmetry
PROPERTIES
  MultilevelFifo
