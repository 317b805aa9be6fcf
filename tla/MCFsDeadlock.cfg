\* create() and unlink() of one name at the same time.
CONSTANTS
  Procs = {p1, p2}
  p1 = p1
  p2 = p2
  Nobody = Nobody
  a = a
  b = b
  Names = {a, b}
  NINODES = 3
  NFILE = 1
  MaxLinks = 2
  Kinds = {"file", "dir"}
  Elements = {a, b}
CHECK_DEADLOCK FALSE
SPECIFICATION Spec
INVARIANTS
  NoCircularWait
