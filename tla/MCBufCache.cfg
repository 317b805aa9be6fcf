\* Two processes, and a block more than there are buffers, one of which may be pinned.
CONSTANTS
  Procs     = {p1, p2}
  p1        = p1
  p2        = p2
  Bufs      = {x1, x2, x3}
  x1        = x1
  x2        = x2
  x3        = x3
  Blocks    = {b1, b2, b3, b4}
  b1        = b1
  b2        = b2
  b3        = b3
  b4        = b4
  Values    = {0, 1}
  Null      = Null
  MaxPinned = 1
SPECIFICATION Spec
SYMMETRY CacheSymmetry
INVARIANTS
  BufferKept
  NoLostWakeup
  BuffersReturned
PROPERTIES
  OneCopy
