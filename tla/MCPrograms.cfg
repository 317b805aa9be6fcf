\* Programs: eight processes and few of everything else, so that each limit is met.
\* Tests and lines run on two pipes of two units and files of four.
\* grep reads four characters at a time; an int has 256 values.
\* Files of up to three blocks of two units, two of them indirect.
CONSTANTS
  Slots = {1, 2, 3, 4, 5, 6, 7}
  NOFILE = 5
  NFILE = 8
  NPIPES = 2
  NINODES = 27
  MAXFILE = 4
  MAXCHUNK = 2
  PIPEUNITS = 2
  MEMORY = 10
  ARGROOM = 5
  Truncated <- LongNames
  CATBUF = 2
  StressFiles <- Stress
  MAXARGS = 6
  CreateRounds = 3
  CreateTotal = 3
  BIG = 3
  Lines <- SomeLines
  GREPBUF = 4
  WORD = 256
  BSIZE = 2
  NDIRECT = 1
  NINDIRECT = 2
  nmeta = 3
  FSBLOCKS = 20
SPECIFICATION MCSpec
INVARIANTS
  AsExpected
  OutputAsMeant
  ParsedRight
  TextsRight
  ImageRight
PROPERTIES
  EveryLineEnds
CHECK_DEADLOCK FALSE
