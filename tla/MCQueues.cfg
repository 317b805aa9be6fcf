\* A heap of five processes in three levels, created at three times, ties
\* included; three processes at three levels of four cells each.
\* A pipe with a reader, two writers and kills; writes larger than the pipe,
\* counts that wrap.
\* A console of two cells whose indices wrap, two readers, and reads of up to
\* three bytes, more than the ring holds.
\* The system stops once every process has closed its end of the pipe.
CHECK_DEADLOCK FALSE
CONSTANTS
  Slots    = {1, 2, 3, 4, 5}
  Times    = {0, 1, 2}
  Items    = {1, 2, 3}
  Levels   = {1, 2, 3}
  AnyRing  = FALSE
  Readers  = {r1}
  r1       = r1
  Writers  = {w1, w2}
  w1       = w1
  w2       = w2
  Bytes    = {0, 1}
  PIPESIZE = 2
  UMax     = 4
  MaxCount = 3
  Writes  <- SomeWrites
  TReaders = {t1, t2}
  t1       = t1
  t2       = t2
  Chars    = {ch}
  ch       = ch
  Newline  = newline
  Eof      = eof
  Erased   = erased
  INPUT_BUF = 2
  IndexMax = 4
  ReadMax  = 3
SYMMETRY QueuesSymmetry
SPECIFICATION AllSpec
INVARIANTS
  SleepersWoken
PROPERTIES
  ReadyInOrder
  BytesInOrder
  TerminalSpec
