\* Two processes that make any calls on a root, and two files or directories,
\* with two names each; one open file, forks, exits and restarts, within the
\* bounds of Small.  Calls that wait for each other stop the system
\* (CirclesPutUpwards).
\* Two calls that share commits, and blocks enough to fill the log: like the
\* one that mkfs makes it has LOGSIZE blocks, one of them its header.  Two of
\* the blocks bear the values of the names, so that one symmetry does for both.
CONSTANTS
  Procs = {p1, p2}
  p1 = p1
  p2 = p2
  Nobody = Nobody
  a = a
  b = b
  Names = {a, b}
  NINODES = 3
  NFILE = 1
  MaxLinks = 2
  Kinds = {"file", "dir"}
  Elements = {a, b}
  Ops = {p1, p2}
  Blocks = {a, b, more}
  more = more
  Values = {0, 1}
  NoBuf = NoBuf
  MAXOPBLOCKS = 2
  LOGSIZE = 4
  NLog = 4
SYMMETRY FSSymmetry
CHECK_DEADLOCK FALSE
SPECIFICATION PartSpec
INVARIANTS
  CountsHold
  CirclesPutUpwards
  DurableWhenQuiet
  SpaceReserved
  SleepsForCause
PROPERTIES
  TreeSpec
  CrashAtomic
