\* Three processes on twelve pages, enough for two of them to grow beside an
\* exec() but not for all.
\* A user heap of nine headers.
\* Two files of three blocks, the last two through the indirect block, that
\* compete for four blocks, and two writers, with an open file between them.
\* Two CPUs with their interrupts and two processes; two system calls or
\* interrupts under way at a time.
\* balloc() panics when there is no block left, and ps() can stop both CPUs.
CHECK_DEADLOCK FALSE
CONSTANTS
  PSlots   = {1, 2, 3}
  NPAGES   = 12
  PGSIZE   = 2
  SPAN     = 2
  UTABLES  = 2
  KTABLES  = 1
  Requests = {0, 5}
  NALLOC   = 4
  MaxUnits = 5
  HEAPMAX  = 9
  Writers  = {w1, w2}
  w1       = w1
  w2       = w2
  None     = None
  Files    = {0, 1}
  Opens    = {f1}
  f1       = f1
  NBLOCKS  = 4
  BPB      = 1
  BSIZE    = 2
  NDIRECT  = 1
  NINDIRECT = 2
  MAXOPBLOCKS = 6
  Counts   = {3}
  CPUS     = {c0, c1}
  c0       = c0
  c1       = c1
  CPU0     = c0
  LastCPU  = c1
  Threads  = {t1, t2}
  t1       = t1
  t2       = t2
  SleepLocks = {sl}
  sl       = sl
  PlainLocks = {pl}
  pl       = pl
  Nobody   = nobody
  MaxTraps = 2
SYMMETRY StructSymmetry
SPECIFICATION StructSpec
INVARIANTS
  MemoryKept
  ArenaTiled
  BlocksKept
  WritesFit
  CirclesThroughPs
  InterruptsKept
