---------------------------- MODULE UserPrograms ----------------------------
(***************************************************************************)
(* The user programs that the shell runs, as instructions for SysCalls:    *)
(* init, echo, cat, rm, mkdir, ln, forktest, stressfs, and the tests of    *)
(* usertests.c, each with the results that it takes for right. Loops are   *)
(* shorter and sizes smaller than in the code, as the constants of the     *)
(* system are.                                                             *)
(***************************************************************************)
EXTENDS SysCalls, TLC

CONSTANTS
  CATBUF,         \* the units cat reads at a time
  StressFiles,    \* the files of stressfs
  CreateRounds,   \* of createdelete
  CreateTotal,    \* of concreate
  BIG             \* the memory that sbrktest asks for at a time

(* The least and the greatest result of a call that a program goes on      *)
(* with: a failure, a success, either.                                     *)
Bad      == <<-1, -1>>
Good     == <<0, MEMORY + MAXFILE>>
Whatever == <<-1, MEMORY + MAXFILE>>

Call(op, args) ==
  args @@ [op |-> op, var |-> "", want |-> Whatever, loop |-> FALSE, body |-> << >>,
           contents |-> {}, bail |-> FALSE, other |-> << >>]

Must(i)     == [i EXCEPT !.want = Good]
MustFail(i) == [i EXCEPT !.want = Bad]
Gives(i, n) == [i EXCEPT !.want = <<n, n>>]
OrElse(i, other) == [i EXCEPT !.bail = TRUE, !.other = other]
To(var, i)  == [i EXCEPT !.var = var]

Open(path, mode) == To("fd", Call("open", [path |-> path, mode |-> mode]))
Mkdir(path)      == Call("make", [path |-> path, type |-> "dir"])
Mknod(path)      == Call("make", [path |-> path, type |-> "dev"])
Link(old, path)  == Call("link", [old |-> old, path |-> path])
Unlink(path)     == Call("unlink", [path |-> path])
Chdir(path)      == Call("chdir", [path |-> path])
List(among, names) == [Call("list", [among |-> among]) EXCEPT !.contents = {names}]
Dup(fd)          == Call("dup", [fd |-> fd])
Close(fd)        == Call("close", [fd |-> fd])
Pipe             == Call("pipe", << >>)
Write(fd, data)  == Call("write", [fd |-> fd, data |-> data, fromBuf |-> FALSE])
WriteBuf(fd)     == Call("write", [fd |-> fd, data |-> << >>, fromBuf |-> TRUE])
Read(fd, n)      == Call("read", [fd |-> fd, n |-> n])
Fork(var, child) == To(var, Call("fork", [child |-> child]))
Wait             == Call("wait", [child |-> ""])
WaitIs(var)      == Must(Call("wait", [child |-> var]))
WaitFor(var)     == [Call("wait", [child |-> var]) EXCEPT !.loop = TRUE]
KillIt(var)      == Call("kill", [child |-> var])
Sbrk(n)          == Call("sbrk", [n |-> n])
Exec(argv)       == Call("exec", [argv |-> argv])
Spin             == Call("spin", << >>)
FaultAt          == Call("fault", << >>)

(* Where a program must not get: a call that fails and should not. *)
NotHere == Must(Close("none"))

(* while((n = read(fd, buf, n)) > 0) body *)
ReadLoop(fd, n, body) == [Read(fd, n) EXCEPT !.loop = TRUE, !.body = body]

(* read() of all, and what is expected there. *)
HasAll(fd, n, contents) == [ReadLoop(fd, n, << >>) EXCEPT !.contents = contents]

Repeat(n, body(_)) == FlattenSeq([k \in 1 .. n |-> body(k - 1)])

RD     == {}
CREATE == {"create"}
MAKE   == {"create", "rw"}
RW     == {"rw"}
WR     == {"w"}
AtRoot == <<"/">>

-----------------------------------------------------------------------------
(* Programs; each word of echo is a unit. *)

EachArg(argv, body(_)) == FlattenSeq([k \in 1 .. Len(argv) - 1 |-> body(<<argv[k + 1]>>)])
Complaint(word) == Write("stderr", <<word>>)

Echo(argv) == [k \in 1 .. Len(argv) - 1 |-> Write("stdout", <<argv[k + 1]>>)]

CatFd(fd) == <<ReadLoop(fd, CATBUF, <<WriteBuf("stdout")>>)>>
Cat(argv) ==
  IF Len(argv) = 1 THEN CatFd("stdin")
  ELSE EachArg(argv, LAMBDA path :
         <<OrElse(Open(path, RD), <<Write("stdout", <<"cannot open">>)>>)>>
           \o CatFd("fd") \o <<Close("fd")>>)

Rm(argv) == EachArg(argv, LAMBDA path : <<OrElse(Unlink(path), <<Complaint("rm")>>)>>)
MkdirText(argv) == EachArg(argv, LAMBDA path : <<OrElse(Mkdir(path), <<Complaint("mkdir")>>)>>)
Ln(argv) == <<OrElse(Link(<<argv[2]>>, <<argv[3]>>), <<Complaint("ln")>>)>>
Zombie == <<Fork("pid", << >>)>>

(* As many processes as there is room for beside init, the shell and this  *)
(* one, and no more.                                                       *)
ForkAll ==
  LET n == Least(Cardinality(Slots), MEMORY) - 3 IN
  Repeat(n, LAMBDA k : <<Must(Fork("pid", << >>))>>) \o <<MustFail(Fork("pid", << >>))>>
  \o Repeat(n, LAMBDA k : <<Must(Wait)>>) \o <<MustFail(Wait)>>

(* Children that use the CPU, and as many calls of waitnstats(), that are  *)
(* wait() here.  The number of them is an argument.                        *)
SchedulerUser(argv, n) ==
  IF Len(argv) # 2 THEN <<Write("stdout", <<"wrong arguments">>)>>
  ELSE Repeat(n, LAMBDA k : <<Fork("pid", << >>)>>) \o Repeat(n, LAMBDA k : <<Must(Wait)>>)

(* The same, with chpr() for each child, whose effect is in SchedMLQ.      *)
MlqUserCheck(argv, n) == SchedulerUser(argv, n)

(* A chain of processes, each with a file of its own. *)
StressFs(n) ==
  LET own(k) == <<Open(<<StressFiles[k + 1]>>, MAKE), Write("fd", <<"a", "a">>), Close("fd"),
                  Open(<<StressFiles[k + 1]>>, RD), HasAll("fd", 2, {<<"a", "a">>}),
                  Close("fd"), Wait>>
      chain[k \in 0 .. n] ==
        IF k = n THEN own(n) ELSE <<Fork("pid", chain[k + 1])>> \o own(k)
  IN chain[0]

(* init: open the console, or make it, as the three standard files. *)
InitText ==
  LET serve == <<Dup("stdin"), Dup("stdin"), Fork("pid", <<Exec(<<"sh">>)>>), WaitFor("pid")>>
  IN <<OrElse(Open(<<"console">>, RW), <<Mknod(<<"console">>), Open(<<"console">>, RW)>> \o serve)>>
       \o serve

-----------------------------------------------------------------------------
(* usertests.c *)

(* A name with a number. *)
Nth(name, k) == name \o ToString(k)

-----------------------------------------------------------------------------
(* Directories and what is removed while it is in use *)

IputTest ==
  <<Must(Mkdir(<<"iputdir">>)), Must(Chdir(<<"iputdir">>)),
    Must(Unlink(<<"..", "iputdir">>)), Must(Chdir(AtRoot))>>

ExitIputTest ==
  <<Must(Fork("pid", <<Must(Mkdir(<<"iputdir">>)), Must(Chdir(<<"iputdir">>)),
                       Must(Unlink(<<"..", "iputdir">>))>>)), Wait>>

OpenIputTest ==
  <<Must(Mkdir(<<"oidir">>)), Must(Fork("pid", <<MustFail(Open(<<"oidir">>, RW))>>)),
    Gives(Unlink(<<"oidir">>), 0), Wait>>

DirTest ==
  <<Must(Mkdir(<<"dir0">>)), Must(Chdir(<<"dir0">>)), Must(Chdir(<<"..">>)),
    Must(Unlink(<<"dir0">>))>>

RmDot ==
  <<Must(Mkdir(<<"dots">>)), Must(Chdir(<<"dots">>)),
    MustFail(Unlink(<<".">>)), MustFail(Unlink(<<"..">>)), Must(Chdir(AtRoot)),
    MustFail(Unlink(<<"dots", ".">>)), MustFail(Unlink(<<"dots", "..">>)),
    Must(Unlink(<<"dots">>))>>

(* N14 is a name of DIRSIZ characters and N15 the same with one more. *)
Fourteen ==
  <<Must(Mkdir(<<"N14">>)), Must(Mkdir(<<"N14", "N15">>)),
    Must(Open(<<"N15", "N15", "N15">>, CREATE)), Close("fd"),
    Must(Open(<<"N14", "N14", "N14">>, RD)), Close("fd"),
    MustFail(Mkdir(<<"N14", "N14">>)), MustFail(Mkdir(<<"N15", "N14">>))>>

(* Files in directories, by all kinds of paths. *)
SubdirFiles ==
  <<Unlink(<<"ff">>), Must(Mkdir(<<"dd">>)),
    Must(Open(<<"dd", "ff">>, MAKE)), Write("fd", <<"f">>), Close("fd"),
    MustFail(Unlink(<<"dd">>)), Must(Mkdir(<<"/", "dd", "dd">>)),
    Must(Open(<<"dd", "dd", "ff">>, MAKE)), Write("fd", <<"F">>), Close("fd"),
    Must(Open(<<"dd", "dd", "..", "ff">>, RD)), HasAll("fd", 2, {<<"f">>}), Close("fd"),
    Must(Link(<<"dd", "dd", "ff">>, <<"dd", "dd", "ffff">>)),
    Must(Unlink(<<"dd", "dd", "ff">>)), MustFail(Open(<<"dd", "dd", "ff">>, RD)),
    Must(Chdir(<<"dd">>)), Must(Chdir(<<"dd", "..", "..", "dd">>)),
    Must(Chdir(<<"dd", "..", "..", "..", "dd">>)), Must(Chdir(<<".", "..">>)),
    Must(Open(<<"dd", "dd", "ffff">>, RD)), Gives(Read("fd", 2), 1), Close("fd")>>

(* What must fail there, and the removal of all, from the leaves up. *)
SubdirFailures ==
  [k \in 1 .. 3 |-> MustFail(Open(<<<<"dd", "dd", "ff">>, <<"dd", "ff", "ff">>,
                                       <<"dd", "xx", "ff">>>>[k],
                                     IF k = 1 THEN RD ELSE MAKE))]
  \o <<MustFail(Open(<<"dd">>, CREATE)), MustFail(Open(<<"dd">>, RW)),
       MustFail(Open(<<"dd">>, WR)),
       MustFail(Link(<<"dd", "ff", "ff">>, <<"dd", "dd", "xx">>)),
       MustFail(Link(<<"dd", "xx", "ff">>, <<"dd", "dd", "xx">>)),
       MustFail(Link(<<"dd", "ff">>, <<"dd", "dd", "ffff">>)),
       MustFail(Mkdir(<<"dd", "ff", "ff">>)), MustFail(Mkdir(<<"dd", "xx", "ff">>)),
       MustFail(Mkdir(<<"dd", "dd", "ffff">>)),
       MustFail(Unlink(<<"dd", "xx", "ff">>)), MustFail(Unlink(<<"dd", "ff", "ff">>)),
       MustFail(Chdir(<<"dd", "ff">>)), MustFail(Chdir(<<"dd", "xx">>)),
       Must(Unlink(<<"dd", "dd", "ffff">>)), Must(Unlink(<<"dd", "ff">>)),
       MustFail(Unlink(<<"dd">>)), Must(Unlink(<<"dd", "dd">>)), Must(Unlink(<<"dd">>))>>

Subdir == SubdirFiles \o SubdirFailures

DirFile ==
  <<Must(Open(<<"dirfile">>, CREATE)), Close("fd"), MustFail(Chdir(<<"dirfile">>)),
    MustFail(Open(<<"dirfile", "xx">>, RD)), MustFail(Open(<<"dirfile", "xx">>, CREATE)),
    MustFail(Mkdir(<<"dirfile", "xx">>)), MustFail(Unlink(<<"dirfile", "xx">>)),
    MustFail(Link(<<"README">>, <<"dirfile", "xx">>)), Must(Unlink(<<"dirfile">>)),
    MustFail(Open(<<".">>, RW)), Open(<<".">>, RD), MustFail(Write("fd", <<"x">>)),
    Close("fd")>>

(* More directories than there are inodes in memory. *)
Iref(n) ==
  Repeat(n, LAMBDA k :
    <<Must(Mkdir(<<"irefd">>)), Must(Chdir(<<"irefd">>)),
      Mkdir(<< >>), Link(<<"README">>, << >>), Open(<< >>, CREATE), Close("fd"),
      Open(<<"xx">>, CREATE), Close("fd"), Unlink(<<"xx">>)>>)
  \o <<Chdir(AtRoot)>>

BigDir(n) ==
  <<Unlink(<<"bd">>), Must(Open(<<"bd">>, CREATE)), Close("fd")>>
  \o Repeat(n, LAMBDA k : <<Must(Link(<<"bd">>, <<Nth("x", k)>>))>>)
  \o <<Unlink(<<"bd">>)>>
  \o Repeat(n, LAMBDA k : <<Must(Unlink(<<Nth("x", k)>>))>>)

-----------------------------------------------------------------------------
(* Files *)

OpenTest ==
  <<Must(Open(<<"echo">>, RD)), Close("fd"), MustFail(Open(<<"doesnotexist">>, RD))>>

(* A file is written in parts, read as a whole and removed. *)
Stored(name, parts, n) ==
  <<Must(Open(<<name>>, MAKE))>>
  \o [k \in DOMAIN parts |-> Gives(Write("fd", parts[k]), Len(parts[k]))]
  \o <<Close("fd"), Must(Open(<<name>>, RD)), HasAll("fd", n, {FlattenSeq(parts)}),
       Close("fd"), Must(Unlink(<<name>>))>>

WriteTest  == Stored("small", <<<<"a">>, <<"b">>, <<"a">>, <<"b">>>>, MAXFILE)
WriteTest1 == Stored("big", [k \in 1 .. MAXFILE |-> <<k>>], 1)
BigFile    == <<Unlink(<<"bigfile">>)>> \o Stored("bigfile", <<<<0, 0>>, <<1, 1>>>>, 1)

(* Writes larger than what goes in a transaction. *)
BigWrite ==
  <<Unlink(<<"bigwrite">>)>>
  \o Repeat(MAXFILE \div 2, LAMBDA sz :
       LET data == [k \in 1 .. sz + 1 |-> "w"] IN
       <<Must(Open(<<"bigwrite">>, MAKE)), Gives(Write("fd", data), sz + 1),
         Gives(Write("fd", data), sz + 1), Close("fd"), Unlink(<<"bigwrite">>)>>)

CreateTest(n) ==
  Repeat(n, LAMBDA k : <<Open(<<Nth("a", k)>>, MAKE), Close("fd")>>)
  \o Repeat(n, LAMBDA k : <<Unlink(<<Nth("a", k)>>)>>)

LinkTest ==
  <<Unlink(<<"lf1">>), Unlink(<<"lf2">>),
    Must(Open(<<"lf1">>, MAKE)), Gives(Write("fd", <<"hello">>), 1), Close("fd"),
    Must(Link(<<"lf1">>, <<"lf2">>)), Unlink(<<"lf1">>), MustFail(Open(<<"lf1">>, RD)),
    Must(Open(<<"lf2">>, RD)), Gives(Read("fd", 2), 1), Close("fd"),
    MustFail(Link(<<"lf2">>, <<"lf2">>)), Unlink(<<"lf2">>),
    MustFail(Link(<<"lf2">>, <<"lf1">>)), MustFail(Link(<<".">>, <<"lf1">>))>>

UnlinkRead ==
  <<Must(Open(<<"unlinkread">>, MAKE)), Write("fd", <<"h", "o">>), Close("fd"),
    Must(Open(<<"unlinkread">>, RW)), Gives(Unlink(<<"unlinkread">>), 0),
    To("fd1", Open(<<"unlinkread">>, MAKE)), Write("fd1", <<"y">>), Close("fd1"),
    HasAll("fd", 2, {<<"h", "o">>}), Gives(Write("fd", <<"h", "o">>), 2), Close("fd"),
    Unlink(<<"unlinkread">>)>>

-----------------------------------------------------------------------------
(* Files that several processes use *)

Interleaved == {<<"c", "c", "p", "p">>, <<"c", "p", "c", "p">>, <<"c", "p", "p", "c">>,
                <<"p", "c", "c", "p">>, <<"p", "c", "p", "c">>, <<"p", "p", "c", "c">>}

(* Two processes write through one open file: nothing gets lost. *)
SharedFd ==
  LET twice(c) == Repeat(2, LAMBDA k : <<Gives(Write("fd", <<c>>), 1)>>) IN
  <<Unlink(<<"sharedfd">>), Must(Open(<<"sharedfd">>, MAKE)), Must(Fork("pid", twice("c")))>>
  \o twice("p")
  \o <<Wait, Close("fd"), Must(Open(<<"sharedfd">>, RD)), HasAll("fd", 1, Interleaved),
       Close("fd"), Unlink(<<"sharedfd">>)>>

FourFiles(n) ==
  LET child(k) == <<Must(Open(<<Nth("f", k)>>, MAKE)), Gives(Write("fd", <<k>>), 1),
                    Gives(Write("fd", <<k>>), 1)>>
  IN Repeat(n, LAMBDA k : <<Unlink(<<Nth("f", k)>>), Must(Fork("pid", child(k)))>>)
     \o Repeat(n, LAMBDA k : <<Wait>>)
     \o Repeat(2, LAMBDA k : <<Must(Open(<<Nth("f", k)>>, RD)), HasAll("fd", 2, {<<k, k>>}),
                               Close("fd"), Unlink(<<Nth("f", k)>>)>>)

(* Each child makes its files, and removes every second one again.  The    *)
(* names that are unlinked at the end are those of the code, most of which *)
(* nobody made.                                                            *)
CreateDelete(n) ==
  LET name(c, k) == <<Nth(Nth("p", c), k)>>
      child(c) == Repeat(CreateRounds, LAMBDA k :
        <<Must(Open(name(c, k), MAKE)), Close("fd")>>
        \o IF k > 0 /\ k % 2 = 0 THEN <<Must(Unlink(name(c, k \div 2)))>> ELSE << >>)
      gone(k) == 1 <= k /\ k < (CreateRounds + 1) \div 2
  IN Repeat(n, LAMBDA c : <<Must(Fork("pid", child(c)))>>)
     \o Repeat(n, LAMBDA c : <<Wait>>)
     \o Repeat(CreateRounds, LAMBDA k : Repeat(n, LAMBDA c :
          IF gone(k) THEN <<MustFail(Open(name(c, k), RD))>>
          ELSE <<Must(Open(name(c, k), RD)), Close("fd")>>))
     \o Repeat(CreateRounds, LAMBDA k : Repeat(n, LAMBDA c : <<Unlink(name(k, k))>>))

(* Creates, links and unlinks of the same name by two processes. *)
ConCreate ==
  LET name(k) == <<Nth("C", k)>>
      make(k) == <<Must(Open(name(k), MAKE)), Close("fd")>>
      round(k) == <<Unlink(name(k)),
                    Fork("pid", IF k % 5 = 1 THEN <<Link(name(0), name(k))>> ELSE make(k))>>
                  \o (IF k % 3 = 1 THEN <<Link(name(0), name(k))>> ELSE make(k)) \o <<Wait>>
      opens(k)   == <<Open(name(k), RD), Close("fd")>>
      unlinks(k) == <<Unlink(name(k)), Unlink(name(k))>>
      again(k) == <<Must(Fork("pid", IF k % 3 = 0 THEN opens(k) ELSE unlinks(k)))>>
                  \o (IF k % 3 = 1 THEN opens(k) ELSE unlinks(k)) \o <<Wait>>
      made == {Nth("C", k) : k \in 0 .. CreateTotal - 1}
  IN Repeat(CreateTotal, round) \o <<List({Nth("C", k) : k \in 0 .. CreateTotal}, made)>> \o Repeat(CreateTotal, again)

(* Two processes that do the three in different orders. *)
LinkUnlink ==
  LET step(x) == CASE x = 0 -> <<Open(<<"x">>, MAKE), Close("fd")>>
                   [] x = 1 -> <<Link(<<"cat">>, <<"x">>)>>
                   [] x = 2 -> <<Unlink(<<"x">>)>>
  IN <<Unlink(<<"x">>), Must(Fork("pid", step(1) \o step(2) \o step(0)))>>
     \o step(0) \o step(1) \o step(2) \o <<Wait>>

-----------------------------------------------------------------------------
(* Processes, pipes and memory *)

ForkTest == ForkAll

(* The parent reads ever more at a time, the child writes in parts. *)
Pipe1 ==
  LET parts == <<<<1, 2, 3>>, <<4, 5, 6>>>> IN
  <<Must(Pipe), Must(Fork("pid", <<Close("p0")>>
        \o [k \in DOMAIN parts |-> Gives(Write("p1", parts[k]), Len(parts[k]))])),
    Close("p1"), Gives(Read("p0", 1), 1), HasAll("p0", 2, {<<2, 3, 4, 5, 6>>}),
    Close("p0"), Wait>>

(* Processes that do not end are killed. *)
Preempt ==
  <<Fork("pid1", <<Spin>>), Fork("pid2", <<Spin>>), Pipe,
    Fork("pid3", <<Close("p0"), Gives(Write("p1", <<"x">>), 1), Close("p1"), Spin>>),
    Close("p1"), Gives(Read("p0", 2), 1), Close("p0"),
    KillIt("pid1"), KillIt("pid2"), KillIt("pid3"), Wait, Wait, Wait>>

ExitWait(n) == Repeat(n, LAMBDA k : <<Must(Fork("pid", << >>)), WaitIs("pid")>>)

(* A child takes all memory there is; what it had is there again. *)
Mem ==
  <<Fork("pid", <<[Sbrk(1) EXCEPT !.loop = TRUE], MustFail(Sbrk(1))>>), Wait, Must(Sbrk(1))>>

SbrkTest(n) ==
  <<Must(Sbrk(1)), Must(Fork("pid", <<Sbrk(1)>>)), Sbrk(1), Must(Wait),
    Must(Sbrk(BIG)), Must(Sbrk(-BIG)), Must(Sbrk(-2)),
    Must(Fork("pid", <<FaultAt, NotHere>>)), Must(Wait), Must(Pipe)>>
  \o Repeat(n, LAMBDA k :
       <<Fork(Nth("pid", k), <<Sbrk(BIG), Write("p1", <<"x">>), Spin>>), Read("p0", 1)>>)
  \o <<Must(Sbrk(1))>>
  \o Repeat(n, LAMBDA k : <<KillIt(Nth("pid", k)), Must(Wait)>>)

(* A call with an argument where there is no memory. *)
ValidateTest ==
  <<Fork("pid", <<FaultAt, NotHere>>), KillIt("pid"), Wait,
    MustFail(Link(<<"nosuchfile">>, <<"x">>))>>

Uio == <<Must(Fork("pid", <<FaultAt, NotHere>>)), Wait>>

(* exec() of more arguments than fit says so, and the program goes on. *)
BigArgTest ==
  <<Unlink(<<"bigarg-ok">>),
    Must(Fork("pid", <<MustFail(Exec(<<"echo">> \o [k \in 1 .. ARGROOM |-> "bigargs"])),
                       Open(<<"bigarg-ok">>, CREATE), Close("fd")>>)), Wait,
    Must(Open(<<"bigarg-ok">>, RD)), Close("fd"), Unlink(<<"bigarg-ok">>)>>

ArgpTest == <<Must(Open(<<"init">>, RD)), MustFail(Read("fd", -1)), Close("fd")>>

ExecTest == <<Must(Exec(<<"echo", "ALL TESTS PASSED">>)), NotHere>>

Tests ==
  [argptest |-> ArgpTest, createdelete |-> CreateDelete(2), linkunlink |-> LinkUnlink,
   concreate |-> ConCreate, fourfiles |-> FourFiles(2), sharedfd |-> SharedFd,
   bigargtest |-> BigArgTest, bigwrite |-> BigWrite, sbrktest |-> SbrkTest(3),
   validatetest |-> ValidateTest, opentest |-> OpenTest, writetest |-> WriteTest,
   writetest1 |-> WriteTest1, createtest |-> CreateTest(3), openiputtest |-> OpenIputTest,
   exitiputtest |-> ExitIputTest, iputtest |-> IputTest, mem |-> Mem, pipe1 |-> Pipe1,
   preempt |-> Preempt, exitwait |-> ExitWait(3), rmdot |-> RmDot, fourteen |-> Fourteen,
   bigfile |-> BigFile, subdir |-> Subdir, linktest |-> LinkTest,
   unlinkread |-> UnlinkRead, dirfile |-> DirFile, iref |-> Iref(2),
   forktest |-> ForkTest, bigdir |-> BigDir(3), uio |-> Uio, dirtest |-> DirTest]

(* main() with one of its tests. *)
UserTestsText(test) ==
  <<MustFail(Open(<<"usertests.ran">>, RD)), Open(<<"usertests.ran">>, CREATE), Close("fd")>>
  \o Tests[test] \o ExecTest
=============================================================================
