\* Two calls on a log of LOGSIZE blocks, its header included, as mkfs makes it.
CONSTANTS
  Ops         = {o1, o2}
  o1          = o1
  o2          = o2
  Blocks      = {b1, b2, b3}
  b1          = b1
  b2          = b2
  b3          = b3
  Values      = {0, 1}
  NoBuf       = NoBuf
  MAXOPBLOCKS = 2
  LOGSIZE     = 4
  NLog        = 4
SPECIFICATION LogSpec
INVARIANTS
  LogFits
