------------------------------- MODULE Shell --------------------------------
(***************************************************************************)
(* sh.c: the parser, from a line to a tree of commands, and the shell's    *)
(* loop, which runs the tree with the system calls. A parse is a record:   *)
(* the tree so far in cmd, the tokens to come in rest, and ok, or not      *)
(* after panic(). typed is what is typed at the console, line by line, and *)
(* taken how much of it the shell has read.                                *)
(***************************************************************************)
EXTENDS UserPrograms

CONSTANT MAXARGS

VARIABLES typed, taken

Symbols == {"|", "(", ")", ";", "&", "<", ">", ">>"}

ExecCmd(argv)         == [type |-> "EXEC", argv |-> argv]
RedirCmd(c, op, file) == [type |-> "REDIR", cmd |-> c, file |-> file,
                          fd |-> IF op = "<" THEN 0 ELSE 1,
                          mode |-> IF op = "<" THEN {} ELSE {"w", "create"}]
PipeCmd(l, r) == [type |-> "PIPE", left |-> l, right |-> r]
ListCmd(l, r) == [type |-> "LIST", left |-> l, right |-> r]
BackCmd(c)    == [type |-> "BACK", cmd |-> c]

(* gettoken(): the first token of a line of characters, of which " " is    *)
(* the whitespace, and the characters after it.                            *)
FirstIn(s, P(_)) == IF SelectInSeq(s, P) = 0 THEN Len(s) + 1 ELSE SelectInSeq(s, P)
SkipSpace(s) == SubSeq(s, FirstIn(s, LAMBDA c : c # " "), Len(s))

GetToken(s) ==
  LET n == IF Len(s) > 1 /\ s[1] = ">" /\ s[2] = ">" THEN 2
           ELSE IF s[1] \in Symbols THEN 1
           ELSE FirstIn(s, LAMBDA c : c = " " \/ c \in Symbols) - 1
  IN [token |-> FoldLeft(LAMBDA t, c : t \o c, "", SubSeq(s, 1, n)),
      rest  |-> SkipSpace(SubSeq(s, n + 1, Len(s)))]

RECURSIVE AllTokens(_)
AllTokens(s) ==
  IF s = << >> THEN << >> ELSE <<GetToken(s).token>> \o AllTokens(GetToken(s).rest)

Peek(tokens, S) == tokens # << >> /\ Head(tokens) \in S
Panic == [ok |-> FALSE, cmd |-> ExecCmd(<< >>), rest |-> << >>]
Parsed(c, rest) == [ok |-> TRUE, cmd |-> c, rest |-> rest]

(* The parse r, which is made once, and F of it unless it is a panic. *)
Then(r, F(_)) == CHOOSE x \in {IF y.ok THEN F(y) ELSE Panic : y \in {r}} : TRUE

RECURSIVE ParseLine(_), ParsePipe(_), ParseRedirs(_, _), ParseArgs(_, _, _), Backed(_)

(* Each redirection goes around those before it. *)
ParseRedirs(c, ts) ==
  IF ~Peek(ts, {"<", ">", ">>"}) THEN Parsed(c, ts)
  ELSE IF Len(ts) < 2 \/ Peek(Tail(ts), Symbols) THEN Panic
  ELSE ParseRedirs(RedirCmd(c, ts[1], ts[2]), SubSeq(ts, 3, Len(ts)))

ParseBlock(ts) ==
  Then(ParseLine(Tail(ts)), LAMBDA r :
    IF Peek(r.rest, {")"}) THEN ParseRedirs(r.cmd, Tail(r.rest)) ELSE Panic)

(* The arguments go to the command inside the redirections. *)
RECURSIVE WithArgs(_, _)
WithArgs(c, argv) ==
  IF c.type = "EXEC" THEN ExecCmd(argv) ELSE [c EXCEPT !.cmd = WithArgs(@, argv)]

ParseArgs(c, argv, ts) ==
  IF ts = << >> \/ Peek(ts, {"|", ")", "&", ";"}) THEN Parsed(WithArgs(c, argv), ts)
  ELSE IF Head(ts) \in Symbols \/ Len(argv) + 1 >= MAXARGS THEN Panic
  ELSE Then(ParseRedirs(c, Tail(ts)), LAMBDA r :
         ParseArgs(r.cmd, Append(argv, Head(ts)), r.rest))

ParseExec(ts) ==
  IF Peek(ts, {"("}) THEN ParseBlock(ts)
  ELSE Then(ParseRedirs(ExecCmd(<< >>), ts), LAMBDA r : ParseArgs(r.cmd, << >>, r.rest))

(* Mutant: what follows a | is taken as a line. *)
ParsePipeLine(ts) ==
  Then(ParseExec(ts), LAMBDA l :
    IF ~Peek(l.rest, {"|"}) THEN l
    ELSE Then(ParseLine(Tail(l.rest)), LAMBDA r : Parsed(PipeCmd(l.cmd, r.cmd), r.rest)))

ParsePipe(ts) ==
  Then(ParseExec(ts), LAMBDA l :
    IF ~Peek(l.rest, {"|"}) THEN l
    ELSE Then(ParsePipe(Tail(l.rest)), LAMBDA r : Parsed(PipeCmd(l.cmd, r.cmd), r.rest)))

Backed(r) ==
  IF Peek(r.rest, {"&"}) THEN Backed(Parsed(BackCmd(r.cmd), Tail(r.rest))) ELSE r

ParseLine(ts) ==
  Then(ParsePipe(ts), LAMBDA p : Then(Backed(p), LAMBDA l :
    IF ~Peek(l.rest, {";"}) THEN l
    ELSE Then(ParseLine(Tail(l.rest)), LAMBDA r : Parsed(ListCmd(l.cmd, r.cmd), r.rest))))

ParseCmd(ts) ==
  Then(ParseLine(ts), LAMBDA r : IF r.rest = << >> THEN r ELSE Panic)

-----------------------------------------------------------------------------
(* The language, by how a line can be cut into parts *)

Sub(ts, m, n) == SubSeq(ts, m, n)

RECURSIVE IsRedirs(_), IsSimple(_), IsLine(_), IsPipe(_)

IsRedirs(ts) ==
  ts = << >> \/ (/\ Len(ts) > 1 /\ ts[1] \in {"<", ">", ">>"} /\ ts[2] \notin Symbols
                 /\ IsRedirs(Sub(ts, 3, Len(ts))))

IsSimple(ts) ==
  \/ IsRedirs(ts)
  \/ Head(ts) \notin Symbols /\ IsSimple(Tail(ts))
  \/ /\ Len(ts) > 1 /\ IsRedirs(Sub(ts, 1, 2)) /\ IsSimple(Sub(ts, 3, Len(ts)))

IsBlock(ts) ==
  /\ ts # << >> /\ Head(ts) = "("
  /\ \E k \in 2 .. Len(ts) :
       ts[k] = ")" /\ IsLine(Sub(ts, 2, k - 1)) /\ IsRedirs(Sub(ts, k + 1, Len(ts)))

IsPart(ts) == IsSimple(ts) \/ IsBlock(ts)

IsPipe(ts) ==
  \/ IsPart(ts)
  \/ \E k \in 1 .. Len(ts) :
       ts[k] = "|" /\ IsPart(Sub(ts, 1, k - 1)) /\ IsPipe(Sub(ts, k + 1, Len(ts)))

(* A pipeline, any number of &, and ; with another line or nothing. *)
IsLine(ts) ==
  \/ IsPipe(ts)
  \/ \E k \in 1 .. Len(ts) : ts[k] = "&" /\ k = Len(ts) /\ IsLine(Sub(ts, 1, k - 1))
  \/ \E k \in 1 .. Len(ts) :
       /\ ts[k] = ";" /\ IsLine(Sub(ts, k + 1, Len(ts)))
       /\ IsLine(Sub(ts, 1, k - 1))

(* The tree as a line, with parentheses only where the tree needs them. *)
RECURSIVE Unparsed(_)

Grouped(c) ==
  IF c.type \in {"EXEC", "REDIR"} THEN Unparsed(c) ELSE <<"(">> \o Unparsed(c) \o <<")">>

Unparsed(c) ==
  CASE c.type = "EXEC"  -> c.argv
    [] c.type = "REDIR" -> Grouped(c.cmd) \o <<IF c.fd = 0 THEN "<" ELSE ">", c.file>>
    [] c.type = "PIPE"  -> Grouped(c.left) \o <<"|">>
                             \o (IF c.right.type = "PIPE" THEN Unparsed(c.right) ELSE Grouped(c.right))
    [] c.type = "BACK"  -> (IF c.cmd.type = "LIST" THEN Grouped(c.cmd) ELSE Unparsed(c.cmd)) \o <<"&">>
    [] c.type = "LIST"  -> (IF c.left.type = "LIST" THEN Grouped(c.left) ELSE Unparsed(c.left))
                             \o <<";">> \o Unparsed(c.right)

(* The characters of a line, with spaces everywhere or only where tokens   *)
(* would run together; its words are all the same.                         *)
Written(ts, spaced) ==
  LET chars(t) == IF t = ">>" THEN <<">", ">">> ELSE IF t \in Symbols THEN <<t>> ELSE <<"a", "a">>
      joins(t, u) == ({t, u} \cap Symbols = {}) \/ (t = ">" /\ u \in {">", ">>"})
      gap(k) == k > 1 /\ (spaced \/ joins(ts[k - 1], ts[k]))
  IN FlattenSeq([k \in DOMAIN ts |-> (IF gap(k) THEN <<" ">> ELSE << >>) \o chars(ts[k])])

Bare(ts) == SelectSeq(ts, LAMBDA t : t \notin {"(", ")"})

(* No word of a command comes after a redirection. *)
WordsFirst(ts) ==
  \A k \in 1 .. Len(ts) - 2 :
    ts[k] \in {"<", ">", ">>"} => ts[k + 2] \in Symbols

(* A line is cut into its tokens, with spaces between them or without.     *)
(* The parser takes the lines of the language and no others; it puts all   *)
(* words and symbols in the tree in their order, & and ; bind weaker than  *)
(* the pipe, and parentheses are for what binds weaker still.              *)
RightlyParsed(ts) ==
  LET r == ParseCmd(ts) IN
  /\ \A spaced \in BOOLEAN : AllTokens(SkipSpace(Written(ts, spaced))) = ts
  /\ r.ok <=> IsLine(ts)
  /\ r.ok /\ WordsFirst(ts) => Bare(Unparsed(r.cmd)) = Bare(ts)
  /\ r.ok /\ Bare(ts) = ts => Bare(Unparsed(r.cmd)) = Unparsed(r.cmd)
  /\ r.ok => ParseCmd(Unparsed(r.cmd)) = r

-----------------------------------------------------------------------------
(* runcmd() and the loop of main() *)

FdName(fd) == IF fd = 0 THEN "stdin" ELSE "stdout"

ShPanic == <<Complaint("panic")>>
Fork1(child) == OrElse(Fork("pid", child), ShPanic)

RECURSIVE RunCmd(_)

(* Mutant: the shell does not close its own ends of the pipe. *)
RunPipeOpen(c) ==
  <<OrElse(Pipe, ShPanic),
    Fork1(<<Close("stdout"), Dup("p1"), Close("p0"), Close("p1")>> \o RunCmd(c.left)),
    Fork1(<<Close("stdin"), Dup("p0"), Close("p0"), Close("p1")>> \o RunCmd(c.right)),
    Wait, Wait>>

(* Mutant: the shell waits for one of the two. *)
RunPipeOneWait(c) ==
  <<OrElse(Pipe, ShPanic),
    Fork1(<<Close("stdout"), Dup("p1"), Close("p0"), Close("p1")>> \o RunCmd(c.left)),
    Fork1(<<Close("stdin"), Dup("p0"), Close("p0"), Close("p1")>> \o RunCmd(c.right)),
    Close("p0"), Close("p1"), Wait>>

RunPipe(c) ==
  <<OrElse(Pipe, ShPanic),
    Fork1(<<Close("stdout"), Dup("p1"), Close("p0"), Close("p1")>> \o RunCmd(c.left)),
    Fork1(<<Close("stdin"), Dup("p0"), Close("p0"), Close("p1")>> \o RunCmd(c.right)),
    Close("p0"), Close("p1"), Wait, Wait>>

RunRedir(c) ==
  <<Close(FdName(c.fd)), OrElse(Open(<<c.file>>, c.mode), <<Complaint("open")>>)>>
    \o RunCmd(c.cmd)

(* runcmd(); that the program ends is its exit(). *)
RunCmd(c) ==
  CASE c.type = "EXEC"  -> IF c.argv = << >> THEN << >>
                           ELSE <<Exec(c.argv), Complaint("exec")>>
    [] c.type = "REDIR" -> RunRedir(c)
    [] c.type = "LIST"  -> <<Fork1(RunCmd(c.left)), Wait>> \o RunCmd(c.right)
    [] c.type = "PIPE"  -> RunPipe(c)
    [] c.type = "BACK"  -> <<Fork1(RunCmd(c.cmd))>>

(* What the child does with a line. *)
RunLine(line) ==
  LET r == ParseCmd(line) IN IF r.ok THEN RunCmd(r.cmd) ELSE <<Complaint("syntax")>>

IsCd(line) == Len(line) > 1 /\ line[1] = "cd"

GetCmdCall == Call("getcmd", << >>)

(* while(getcmd()): cd in the shell itself, all else in a child. *)
GetCmd(p) ==
  LET line == typed[taken + 1] IN
  /\ Calls(p, "getcmd")
  /\ taken < Len(typed)
  /\ taken' = taken + 1
  /\ procs' = [procs EXCEPT ![p].prog =
       (IF IsCd(line) THEN <<OrElse(Chdir(<<line[2]>>), <<Complaint("cd"), GetCmdCall>>)>>
        ELSE <<Fork1(RunLine(line)), Wait>>) \o @]
  /\ UNCHANGED <<files, pipes, inodes, verdict, typed>>

ShText == <<Open(<<"console">>, RW), Close("fd"), GetCmdCall>>

-----------------------------------------------------------------------------
(* What a line means: s has the contents of the files by name, what is to  *)
(* be read, and what has been written to the standard output.              *)

Printed(s, word) == [s EXCEPT !.out = Append(@, word)]

RECURSIVE CatMeans(_, _), Means(_, _)

CatMeans(s, names) ==
  IF names = << >> THEN s
  ELSE IF Head(names) \notin DOMAIN s.files THEN Printed(s, "cannot open")
  ELSE CatMeans([s EXCEPT !.out = @ \o s.files[Head(names)]], Tail(names))

ExecMeans(s, argv) ==
  CASE argv = << >> -> s
    [] argv # << >> /\ argv[1] = "echo" -> [s EXCEPT !.out = @ \o Tail(argv)]
    [] argv = <<"cat">> -> [s EXCEPT !.out = @ \o s.in, !.in = << >>]
    [] Len(argv) > 1 /\ argv[1] = "cat" -> CatMeans(s, Tail(argv))
    [] argv # << >> /\ argv[1] \notin {"echo", "cat"} -> [s EXCEPT !.err = Append(@, "exec")]

(* A file is not cut when it is opened for writing. *)
RedirMeans(c, s) ==
  IF c.fd = 0
  THEN IF c.file \notin DOMAIN s.files THEN [s EXCEPT !.err = Append(@, "open")]
       ELSE [Means(c.cmd, [s EXCEPT !.in = s.files[c.file]]) EXCEPT !.in = s.in]
  ELSE LET old == IF c.file \in DOMAIN s.files THEN s.files[c.file] ELSE << >>
           r == Means(c.cmd, [s EXCEPT !.out = << >>, !.files = With(@, c.file, old)])
       IN [r EXCEPT !.out = s.out, !.files = With(@, c.file, Overwritten(old, 0, r.out))]

PipeMeans(c, s) ==
  LET l == Means(c.left, [s EXCEPT !.out = << >>])
      r == Means(c.right, [l EXCEPT !.in = l.out, !.out = s.out])
  IN [r EXCEPT !.in = l.in]

Means(c, s) ==
  CASE c.type = "EXEC"  -> ExecMeans(s, c.argv)
    [] c.type = "REDIR" -> RedirMeans(c, s)
    [] c.type = "LIST"  -> Means(c.right, Means(c.left, s))
    [] c.type = "PIPE"  -> PipeMeans(c, s)
    [] c.type = "BACK"  -> Means(c.cmd, s)

LineMeans(s, line) ==
  LET r == ParseCmd(line) IN IF r.ok THEN Means(r.cmd, s) ELSE [s EXCEPT !.err = Append(@, "syntax")]
=============================================================================
