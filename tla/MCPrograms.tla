----------------------------- MODULE MCPrograms -----------------------------
(***************************************************************************)
(* User space, small enough for TLC.  The programs are every user test,    *)
(* and lines for the shell.  The algorithms of user programs are checked   *)
(* on all small inputs: an input is an initial state, and nothing happens  *)
(* to it.                                                                  *)
(***************************************************************************)
EXTENDS Programs, Texts, MkFs

VARIABLES
  part,    \* what moves, or is checked
  sample   \* the input, of a part that does nothing but compute

CommandLines ==
  {<<<<"echo", "a", "b", "|", "cat", ">", "f">>, <<"cat", "f">>>>,
   <<<<"(", "echo", "a", ";", "echo", "b", ")", "|", "cat">>>>,
   <<<<"echo", "a", "|", "cat", "|", "cat">>>>,
   <<<<"echo", "a", "b", ">", "f", ">>", "g">>, <<"echo", "c", ">", "f">>,
     <<"cat", "<", "f", "g", "f">>>>,
   <<<<"cat", "<", "none", "|", "cat">>, <<"none", ">", "f", ";", "cat", "f", "none">>>>,
   <<<<"echo", "a", "&", "echo", "b">>, <<";", "echo", "a", "b", "c", "|", "echo", "d">>>>,
   <<<<"echo", "a", "&", ";", "zombie", "&">>, <<"echo", "b">>>>,
   <<<<"mkdir", "d">>, <<"cd", "d">>, <<"echo", "a", ">", "f">>, <<"cd", "none">>>>,
   <<<<"ln", "README", "f", ";", "rm", "README">>, <<"cat", "f">>>>,
   <<<<"scheduler_user", "2">>, <<"MLQ_user_check", "3">>, <<"forktest">>>>,
   <<<<"stressfs">>>>}

SomeLines == {<<<<"usertests", t>>>> : t \in DOMAIN Tests} \cup CommandLines

LongNames == [N15 |-> "N14"]
Stress == <<"s0", "s1">>

-----------------------------------------------------------------------------
(* The inputs of the parts that compute: a state has those that begin with *)
(* its sample.                                                             *)
Tokens   == {"aa", "|", ";", "&", "(", ")", ">"}
Patterns == Strings({"a", ".", "*", "^", "$"}, 3)

(* Up to three files, of up to as many units as a file can have. *)
FileSets ==
  LET units == [k \in 1 .. (NDIRECT + NINDIRECT) * BSIZE |-> <<k>>]
      file(name, n) == [name |-> name, data |-> SubSeq(units, 1, n)]
  IN {[k \in DOMAIN ns |-> file(k, ns[k])] : ns \in Strings(0 .. Len(units), 3)}

Samples(p) ==
  CASE p = "parser"  -> Strings(Tokens, 2)
    [] p = "grep"    -> Patterns
    [] p \in {"library", "mkfs"} -> {<< >>}

(* No process that makes system calls. *)
NoPrograms ==
  /\ procs = [s \in Slots |-> NoProc] /\ files = [f \in FileNos |-> UnusedFile]
  /\ pipes = << >> /\ inodes = << >> /\ verdict = TRUE
  /\ typed = << >> /\ taken = 0

MCInit ==
  \/ part = "programs" /\ sample = << >> /\ SysInit
  \/ part \in {"parser", "grep", "library", "mkfs"} /\ sample \in Samples(part) /\ NoPrograms

MCNext == part = "programs" /\ ProgNext /\ UNCHANGED <<part, sample>>

MCSpec == MCInit /\ [][MCNext]_<<progvars, part, sample>> /\ ProgFairness

-----------------------------------------------------------------------------
(* What is typed comes to an end: no pipeline waits for a writer that is   *)
(* itself, no wait() for a child that was taken by another, and killed and *)
(* orphaned processes are gone in the end (sh.c, usertests.c, init.c).     *)
(* Nothing is said of a line from the moment at which two of its processes *)
(* may wait for each other's inodes: the tests concreate, createdelete,    *)
(* fourfiles and linkunlink come to that.                                  *)
EveryLineEnds == part = "programs" => <>(Finished \/ Contended)

(* parsecmd() accepts the right lines and makes the right tree of them.    *)
ParsedRight ==
  part = "parser" =>
    \A rest \in Strings(Tokens, IF Len(sample) = 2 THEN 3 ELSE 0) : RightlyParsed(sample \o rest)

(* The matcher and the loops of grep and wc, and the functions of the C    *)
(* libraries, at their edges: empty strings, lines and numbers cut by the  *)
(* end of a buffer, overlaps, the least integer, sums that wrap around.    *)
TextsRight == /\ part = "grep" => GrepRight(sample)
              /\ part = "library" => WcRight /\ LibraryRight

(* What mkfs makes is a file system, with the files it was given.          *)
ImageRight == part = "mkfs" => \A fs \in FileSets : ImageOf(fs, MkFs(fs))
=============================================================================
