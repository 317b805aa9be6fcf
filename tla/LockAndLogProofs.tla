-------------------------- MODULE LockAndLogProofs --------------------------
(***************************************************************************)
(* Proofs about KernelLocks and about Log, which have no name in common.   *)
(*                                                                         *)
(* Locks: whatever the number of CPUs, processes and locks, the interrupts *)
(* that acquire() keeps off are put back, sched() and release() do not     *)
(* panic, and CPUs wait for each other in a circle only where ps() is part *)
(* of it.  What is left of a code path tells which locks its CPU holds.    *)
(* Code relates the two, and no step of a path leaves it.                  *)
(*                                                                         *)
(* The log keeps its promises for every number of calls, blocks and        *)
(* values.  Each stage of a commit, and of a recovery that a crash may cut *)
(* short, leaves the disk, the log and the buffers in a relation of its    *)
(* own (Stages); what the calls may still write is counted in              *)
(* SpaceReserved.                                                          *)
(***************************************************************************)
EXTENDS KernelLocks, Log, SequenceTheorems, FiniteSetTheorems, TLAPS

AnyOp == {Acq(l) : l \in Locks} \cup {Rel(l) : l \in Locks} \cup {Sti, Choose, Sched, Gone}

Then(op, ops) == <<op>> \o ops

(* The locks under which ptable.lock is taken, and those taken under it. *)
Outer == {"cons", "ticks", "ide"} \cup SleepLocks
Inner == {"cons", "kmem"}

TakeTable(ops) == Then(Acq("ptable"), ops)
DropTable(ops) == Then(Rel("ptable"), ops)

(* What a path does when it holds no lock any more, where only a process   *)
(* can yield, and when it comes out of sleep().                            *)
Afters(inprocess) == {<< >>, Cprintf} \cup (IF inprocess THEN {Yield} ELSE {})
Wakes == {<< >>} \cup {Alone(l) : l \in Outer}

(* The rest of a path that holds ptable.lock alone. *)
Table(inprocess) ==
  {DropTable(ops) : ops \in Wakes} \cup
  {Then(Acq(l), Then(Rel(l), DropTable(<< >>))) : l \in Inner} \cup
  (IF inprocess THEN {Then(Sched, DropTable(ops)) : ops \in Wakes} \cup {<<Gone>>} ELSE {})

(* The rest of one that holds l, or l and ptable.lock; it takes the latter *)
(* twice at most.                                                          *)
Last(l, inprocess) == {Then(Rel(l), ops) : ops \in Afters(inprocess)}

LastTable(l, inprocess) ==
  {DropTable(ops) : ops \in Last(l, inprocess)} \cup
  (IF inprocess THEN {Then(Rel(l), Then(Sched, DropTable(Alone(l))))} ELSE {})

Once(l, inprocess) ==
  Last(l, inprocess) \cup {TakeTable(ops) : ops \in LastTable(l, inprocess)}

OnceTable(l, inprocess) ==
  LastTable(l, inprocess) \cup {DropTable(ops) : ops \in Once(l, inprocess)}

Under(l, inprocess) ==
  Last(l, inprocess) \cup
  (IF l \in Outer THEN {TakeTable(ops) : ops \in OnceTable(l, inprocess)} ELSE {})

(* The rest of a path that holds nothing. *)
Free(inprocess) ==
  {<< >>} \cup {TakeTable(ops) : ops \in Table(inprocess)} \cup
  UNION {{Then(Acq(l), ops) : ops \in Under(l, inprocess)} : l \in Locks \ {"ptable"}}

Code(h, ops, inprocess) ==
  \/ h = {} /\ ops \in Free(inprocess)
  \/ h = {"ptable"} /\ ops \in Table(inprocess)
  \/ \E l \in Locks \ {"ptable"} : h = {l} /\ ops \in Under(l, inprocess)
  \/ \E l \in Outer : h = {l, "ptable"} /\ ops \in OnceTable(l, inprocess)
  \/ \E l \in Inner : h = {l, "ptable"} /\ ops = Then(Rel(l), DropTable(<< >>))

(* scheduler() and forkret() have paths of their own. *)
LoopCode(h, ops) ==
  \/ h = {} /\ ops \in {Tail(SchedulerLoop), TakeTable(<<Choose>>)}
  \/ h = {"ptable"} /\ ops \in {<<Choose>>, SchedulerLoop}

Runs(f, h, inprocess) ==
  CASE f.trap = "scheduler" -> ~inprocess /\ LoopCode(h, f.ops)
    [] f.trap = "forkret" ->
         /\ inprocess
         /\ (h = {} /\ f.ops = << >>) \/ (h = {"ptable"} /\ f.ops = DropTable(<< >>))
    [] OTHER -> Code(h, f.ops, inprocess)

-----------------------------------------------------------------------------
Frames == [trap : {"scheduler", "forkret", "syscall", "interrupt"}, ops : Seq(AnyOp)]

TypeOK ==
  /\ owner \in [Locks -> CPUS \cup {Nobody}]
  /\ ncli \in [CPUS -> Nat] /\ intena \in [CPUS -> BOOLEAN]
  /\ fl_if \in [CPUS -> BOOLEAN] /\ spins \in [CPUS -> BOOLEAN]
  /\ cproc \in [CPUS -> Threads \cup {Nobody}]
  /\ stack \in [CPUS \cup Threads -> Seq(Frames)]
  /\ saved \in [Threads -> BOOLEAN]
  /\ away \in [Threads -> {"new", "off", "on"}]

(* A process is on one CPU, whose scheduler waits for it. *)
Placed ==
  /\ \A c \in CPUS : cproc[c] # Nobody =>
       away[cproc[c]] = "on" /\ stack[c] = <<Frame("scheduler", <<Choose>>)>>
  /\ \A c, d \in CPUS : cproc[c] = cproc[d] /\ cproc[c] # Nobody => c = d

(* An interrupt comes on top of at most one other trap, or of the          *)
(* scheduler, which held no lock.                                          *)
Bottom(f, inprocess) ==
  IF inprocess THEN f.trap \in {"syscall", "forkret"} ELSE f.trap = "scheduler"

Nesting(x, s) ==
  LET inprocess == x \in Threads IN
  /\ x \in CPUS => s # << >>
  /\ Len(s) <= 2
  /\ Len(s) = 1 => Bottom(s[1], inprocess) \/ (inprocess /\ s[1].trap = "interrupt")
  /\ Len(s) = 2 => /\ s[1].trap = "interrupt" /\ Bottom(s[2], inprocess)
                   /\ Runs(s[2], {}, inprocess)

Nested == \A x \in CPUS \cup Threads : Nesting(x, stack[x])

(* A process that has left its CPU goes on with ptable.lock held, and with *)
(* intena as its trap had it.                                              *)
Off ==
  \A t \in Threads : away[t] = "off" =>
    /\ stack[t] # << >> /\ Head(stack[t]).trap \in {"syscall", "interrupt"}
    /\ Code({"ptable"}, Head(stack[t]).ops, TRUE)
    /\ saved[t] <=> Head(stack[t]).trap = "syscall"

(* Each CPU holds what the rest of its path says, ... *)
Holds(c) ==
  IF UserMode(c) THEN LocksOf(c) = {}
  ELSE Runs(Top(c), LocksOf(c), cproc[c] # Nobody)

(* ... and counts it, with the lock that it waits for, ... *)
Counts(c) ==
  /\ IsFiniteSet(LocksOf(c))
  /\ ncli[c] = Cardinality(LocksOf(c)) + (IF spins[c] THEN 1 ELSE 0)
  /\ spins[c] => \E l \in Locks : AtOp(c, Acq(l))

(* ... and knows whether its trap had interrupts on. *)
Interrupts(c) ==
  /\ fl_if[c] => ncli[c] = 0
  /\ UserMode(c) => fl_if[c]
  /\ ~UserMode(c) /\ Top(c).trap = "interrupt" =>
       ~fl_if[c] /\ (ncli[c] > 0 => ~intena[c])
  /\ ~UserMode(c) /\ Top(c).trap = "syscall" =>
       IF ncli[c] = 0 THEN fl_if[c] ELSE intena[c]

Works(c) == Holds(c) /\ Counts(c) /\ Interrupts(c)

Inductive ==
  TypeOK /\ Placed /\ Nested /\ Off /\ \A c \in CPUS : Works(c)

-----------------------------------------------------------------------------
(* Sequences that begin with an operation. *)

LEMMA OpsDiffer ==
  /\ \A l, k : /\ Acq(l) = Acq(k) => l = k
               /\ Rel(l) = Rel(k) => l = k
               /\ Acq(l) # Rel(k)
  /\ \A l : /\ Acq(l) # Sti /\ Acq(l) # Choose /\ Acq(l) # Sched /\ Acq(l) # Gone
            /\ Rel(l) # Sti /\ Rel(l) # Choose /\ Rel(l) # Sched /\ Rel(l) # Gone
  /\ Sti # Choose /\ Sti # Sched /\ Sti # Gone
  /\ Choose # Sched /\ Choose # Gone /\ Sched # Gone
<1>1. \A l, k : /\ Acq(l) = Acq(k) => l = k
                /\ Rel(l) = Rel(k) => l = k
                /\ Acq(l) # Rel(k)
  BY DEF Acq, Rel
<1>2. \A l : /\ Acq(l) # Sti /\ Acq(l) # Choose /\ Acq(l) # Sched /\ Acq(l) # Gone
             /\ Rel(l) # Sti /\ Rel(l) # Choose /\ Rel(l) # Sched /\ Rel(l) # Gone
  BY DEF Acq, Rel, Sti, Choose, Sched, Gone
<1>3. /\ Sti # Choose /\ Sti # Sched /\ Sti # Gone
      /\ Choose # Sched /\ Choose # Gone /\ Sched # Gone
  BY DEF Sti, Choose, Sched, Gone
<1> QED
  BY <1>1, <1>2, <1>3

LEMMA OpTypes ==
  /\ \A l \in Locks : Acq(l) \in AnyOp /\ Rel(l) \in AnyOp
  /\ Sti \in AnyOp /\ Choose \in AnyOp /\ Sched \in AnyOp /\ Gone \in AnyOp
  /\ "ptable" \in Locks /\ Outer \subseteq Locks \ {"ptable"} /\ Inner \subseteq Locks \ {"ptable"}
<1>1. /\ \A l \in Locks : Acq(l) \in AnyOp /\ Rel(l) \in AnyOp
      /\ Sti \in AnyOp /\ Choose \in AnyOp /\ Sched \in AnyOp /\ Gone \in AnyOp
  BY DEF AnyOp
<1>2. /\ "ptable" \in Locks /\ Inner \subseteq Locks \ {"ptable"}
      /\ Outer \subseteq Locks \ {"ptable"}
  BY LocksAssumption DEF Locks, Named, Outer, Inner
<1> QED
  BY <1>1, <1>2

LEMMA ThenParts ==
  ASSUME NEW op \in AnyOp, NEW ops \in Seq(AnyOp)
  PROVE  /\ Then(op, ops) \in Seq(AnyOp) /\ Then(op, ops) # << >>
         /\ Head(Then(op, ops)) = op /\ Tail(Then(op, ops)) = ops
  BY DEF Then

LEMMA ThenConcat ==
  ASSUME NEW op \in AnyOp, NEW x \in Seq(AnyOp), NEW y \in Seq(AnyOp)
  PROVE  Then(op, x) \o y = Then(op, x \o y)
<1>1. <<op>> \in Seq(AnyOp)
  OBVIOUS
<1> QED
  BY <1>1, ConcatAssociative DEF Then

(* Paths that are written down as tuples. *)
LEMMA OneOp ==
  ASSUME NEW a \in AnyOp
  PROVE  <<a>> = Then(a, << >>) /\ <<a>> \in Seq(AnyOp)
<1>1. <<a>> \in Seq(AnyOp)
  OBVIOUS
<1> QED
  BY <1>1, ConcatEmptySeq DEF Then

LEMMA TwoOps ==
  ASSUME NEW a \in AnyOp, NEW b \in AnyOp
  PROVE  <<a, b>> = Then(a, <<b>>) /\ <<a, b>> \in Seq(AnyOp)
<1> DEFINE s == <<a>> \o <<b>>
<1>1. /\ <<a, b>> \in Seq(AnyOp) /\ Len(<<a, b>>) = 2
      /\ <<b>> \in Seq(AnyOp) /\ <<a>> \in Seq(AnyOp) /\ Len(<<b>>) = 1 /\ Len(<<a>>) = 1
  OBVIOUS
<1>2. Len(s) = 2 /\ s \in Seq(AnyOp)
  BY <1>1, ConcatProperties
<1>3. \A i \in 1 .. 2 : s[i] = <<a, b>>[i]
  <2>1. s[1] = a /\ s[2] = b
    BY <1>1, ConcatProperties
  <2> QED
    BY <2>1
<1> QED
  BY <1>1, <1>2, <1>3, SeqEqual DEF Then

LEMMA ThreeOps ==
  ASSUME NEW a \in AnyOp, NEW b \in AnyOp, NEW c \in AnyOp
  PROVE  <<a, b, c>> = Then(a, <<b, c>>) /\ <<a, b, c>> \in Seq(AnyOp)
<1> DEFINE s == <<a>> \o <<b, c>>
<1>1. /\ <<a, b, c>> \in Seq(AnyOp) /\ Len(<<a, b, c>>) = 3
      /\ <<b, c>> \in Seq(AnyOp) /\ <<a>> \in Seq(AnyOp)
      /\ Len(<<b, c>>) = 2 /\ Len(<<a>>) = 1
  OBVIOUS
<1>2. Len(s) = 3 /\ s \in Seq(AnyOp)
  BY <1>1, ConcatProperties
<1>3. \A i \in 1 .. 3 : s[i] = <<a, b, c>>[i]
  <2>1. s[1] = a /\ s[2] = b /\ s[3] = c
    BY <1>1, ConcatProperties
  <2> QED
    BY <2>1
<1> QED
  BY <1>1, <1>2, <1>3, SeqEqual DEF Then

LEMMA FourOps ==
  ASSUME NEW a \in AnyOp, NEW b \in AnyOp, NEW c \in AnyOp, NEW d \in AnyOp
  PROVE  <<a, b, c, d>> = Then(a, <<b, c, d>>) /\ <<a, b, c, d>> \in Seq(AnyOp)
<1> DEFINE s == <<a>> \o <<b, c, d>>
<1>1. /\ <<a, b, c, d>> \in Seq(AnyOp) /\ Len(<<a, b, c, d>>) = 4
      /\ <<b, c, d>> \in Seq(AnyOp) /\ <<a>> \in Seq(AnyOp)
      /\ Len(<<b, c, d>>) = 3 /\ Len(<<a>>) = 1
  OBVIOUS
<1>2. Len(s) = 4 /\ s \in Seq(AnyOp)
  BY <1>1, ConcatProperties
<1>3. \A i \in 1 .. 4 : s[i] = <<a, b, c, d>>[i]
  <2>1. s[1] = a /\ s[2] = b /\ s[3] = c /\ s[4] = d
    BY <1>1, ConcatProperties
  <2> QED
    BY <2>1
<1> QED
  BY <1>1, <1>2, <1>3, SeqEqual DEF Then

LEMMA FiveOps ==
  ASSUME NEW a \in AnyOp, NEW b \in AnyOp, NEW c \in AnyOp, NEW d \in AnyOp, NEW e \in AnyOp
  PROVE  <<a, b, c, d, e>> = Then(a, <<b, c, d, e>>) /\ <<a, b, c, d, e>> \in Seq(AnyOp)
<1> DEFINE s == <<a>> \o <<b, c, d, e>>
<1>1. /\ <<a, b, c, d, e>> \in Seq(AnyOp) /\ Len(<<a, b, c, d, e>>) = 5
      /\ <<b, c, d, e>> \in Seq(AnyOp) /\ <<a>> \in Seq(AnyOp)
      /\ Len(<<b, c, d, e>>) = 4 /\ Len(<<a>>) = 1
  OBVIOUS
<1>2. Len(s) = 5 /\ s \in Seq(AnyOp)
  BY <1>1, ConcatProperties
<1>3. \A i \in 1 .. 5 : s[i] = <<a, b, c, d, e>>[i]
  <2>1. s[1] = a /\ s[2] = b /\ s[3] = c /\ s[4] = d /\ s[5] = e
    BY <1>1, ConcatProperties
  <2> QED
    BY <2>1
<1> QED
  BY <1>1, <1>2, <1>3, SeqEqual DEF Then

(* The paths of the code, operation by operation. *)
LEMMA PathParts ==
  /\ \A l \in Locks : Alone(l) = Then(Acq(l), Then(Rel(l), << >>)) /\ Alone(l) \in Seq(AnyOp)
  /\ Cprintf = Alone("cons") /\ Wakeup = Alone("ptable")
  /\ Yield = TakeTable(Then(Sched, DropTable(<< >>))) /\ Yield \in Seq(AnyOp)
  /\ <<Gone>> = Then(Gone, << >>) /\ <<Choose>> = Then(Choose, << >>)
  /\ SchedulerLoop = DropTable(Then(Sti, TakeTable(<<Choose>>)))
  /\ SchedulerLoop \in Seq(AnyOp)
<1> USE OpTypes
<1>1. \A l \in Locks : Alone(l) = Then(Acq(l), Then(Rel(l), << >>)) /\ Alone(l) \in Seq(AnyOp)
  BY OneOp, TwoOps DEF Alone
<1>2. Yield = TakeTable(Then(Sched, DropTable(<< >>))) /\ Yield \in Seq(AnyOp)
  BY OneOp, TwoOps, ThreeOps DEF Yield, TakeTable, DropTable
<1>3. <<Gone>> = Then(Gone, << >>) /\ <<Choose>> = Then(Choose, << >>)
  BY OneOp
<1>4. /\ SchedulerLoop = DropTable(Then(Sti, TakeTable(<<Choose>>)))
      /\ SchedulerLoop \in Seq(AnyOp)
  BY TwoOps, ThreeOps, FourOps DEF SchedulerLoop, TakeTable, DropTable
<1> QED
  BY <1>1, <1>2, <1>3, <1>4 DEF Cprintf, Wakeup

(* What follows the last lock is the beginning of a path. *)
LEMMA FreeParts ==
  ASSUME NEW in \in BOOLEAN
  PROVE  /\ Afters(in) \subseteq Free(in) /\ Wakes \subseteq Free(in)
         /\ \A l \in Locks : Alone(l) \in Free(in)
         /\ << >> \in Afters(in) /\ << >> \in Wakes /\ << >> \in Free(in)
<1> USE OpTypes
<1>1. << >> \in Afters(in) /\ << >> \in Wakes /\ << >> \in Free(in)
  BY DEF Afters, Wakes, Free
<1>2. ASSUME NEW l \in Locks PROVE Alone(l) \in Free(in)
  <2>1. CASE l = "ptable"
    <3>1. DropTable(<< >>) \in Table(in)
      BY <1>1 DEF Table
    <3> QED
      BY <2>1, <3>1, PathParts DEF Free, TakeTable, DropTable
  <2>2. CASE l # "ptable"
    <3>1. Then(Rel(l), << >>) \in Under(l, in)
      BY <1>1 DEF Under, Last
    <3> QED
      BY <2>2, <3>1, PathParts DEF Free
  <2> QED
    BY <2>1, <2>2
<1>3. in => Yield \in Free(in)
  <2>1. in => Then(Sched, DropTable(<< >>)) \in Table(in)
    BY <1>1 DEF Table
  <2> QED
    BY <2>1, PathParts DEF Free
<1> QED
  BY <1>1, <1>2, <1>3, PathParts DEF Afters, Wakes, Locks, Named

(* All of these are sequences of operations. *)
LEMMA CodeTypes ==
  ASSUME NEW in \in BOOLEAN
  PROVE  /\ Afters(in) \subseteq Seq(AnyOp) /\ Wakes \subseteq Seq(AnyOp)
         /\ Table(in) \subseteq Seq(AnyOp) /\ Free(in) \subseteq Seq(AnyOp)
         /\ \A l \in Locks : /\ Last(l, in) \subseteq Seq(AnyOp)
                             /\ LastTable(l, in) \subseteq Seq(AnyOp)
                             /\ Once(l, in) \subseteq Seq(AnyOp)
                             /\ OnceTable(l, in) \subseteq Seq(AnyOp)
                             /\ Under(l, in) \subseteq Seq(AnyOp)
<1> USE OpTypes DEF TakeTable, DropTable
<1>0. << >> \in Seq(AnyOp)
  OBVIOUS
<1>1. Afters(in) \subseteq Seq(AnyOp) /\ Wakes \subseteq Seq(AnyOp)
  BY <1>0, PathParts DEF Afters, Wakes, Locks, Named
<1>2. Table(in) \subseteq Seq(AnyOp)
  <2>1. \A x \in Wakes : DropTable(x) \in Seq(AnyOp) /\ Then(Sched, DropTable(x)) \in Seq(AnyOp)
    BY <1>1, ThenParts
  <2>2. \A l \in Inner : Then(Acq(l), Then(Rel(l), DropTable(<< >>))) \in Seq(AnyOp)
    BY <1>0, ThenParts
  <2>3. <<Gone>> \in Seq(AnyOp)
    BY OneOp
  <2> HIDE DEF DropTable
  <2> QED
    BY <2>1, <2>2, <2>3 DEF Table
<1>3. ASSUME NEW l \in Locks
      PROVE  /\ Last(l, in) \subseteq Seq(AnyOp) /\ LastTable(l, in) \subseteq Seq(AnyOp)
             /\ Once(l, in) \subseteq Seq(AnyOp) /\ OnceTable(l, in) \subseteq Seq(AnyOp)
             /\ Under(l, in) \subseteq Seq(AnyOp)
  <2>1. Last(l, in) \subseteq Seq(AnyOp)
    BY <1>1, ThenParts DEF Last
  <2>2. LastTable(l, in) \subseteq Seq(AnyOp)
    <3>1. Then(Rel(l), Then(Sched, DropTable(Alone(l)))) \in Seq(AnyOp)
      BY PathParts, ThenParts
    <3>2. \A x \in Last(l, in) : DropTable(x) \in Seq(AnyOp)
      BY <2>1, ThenParts
    <3> HIDE DEF DropTable
    <3> QED
      BY <3>1, <3>2 DEF LastTable
  <2>3. Once(l, in) \subseteq Seq(AnyOp)
    BY <2>1, <2>2, ThenParts DEF Once
  <2>4. OnceTable(l, in) \subseteq Seq(AnyOp)
    BY <2>2, <2>3, ThenParts DEF OnceTable
  <2> QED
    BY <2>1, <2>2, <2>3, <2>4, ThenParts DEF Under
<1>4. Free(in) \subseteq Seq(AnyOp)
  <2>1. \A x \in Table(in) : TakeTable(x) \in Seq(AnyOp)
    BY <1>2, ThenParts
  <2>2. \A l \in Locks : \A x \in Under(l, in) : Then(Acq(l), x) \in Seq(AnyOp)
    BY <1>3, ThenParts
  <2> HIDE DEF TakeTable
  <2> SUFFICES ASSUME NEW x \in Free(in) PROVE x \in Seq(AnyOp)
    OBVIOUS
  <2>3. \/ x = << >> \/ x \in {TakeTable(ops) : ops \in Table(in)}
        \/ \E l \in Locks \ {"ptable"} : x \in {Then(Acq(l), ops) : ops \in Under(l, in)}
    BY DEF Free
  <2> QED
    BY <1>0, <2>1, <2>2, <2>3
<1> QED
  BY <1>1, <1>2, <1>3, <1>4

(* A lock taken alone, and a path that begins with taking one. *)
LEMMA AloneThen ==
  ASSUME NEW l \in Locks, NEW ops \in Seq(AnyOp)
  PROVE  Alone(l) \o ops = Then(Acq(l), Then(Rel(l), ops))
<1> DEFINE r == Then(Rel(l), << >>)
<1> USE OpTypes
<1>0. << >> \in Seq(AnyOp)
  OBVIOUS
<1>1. r \in Seq(AnyOp) /\ r \o ops = Then(Rel(l), ops)
  <2>1. r \in Seq(AnyOp)
    BY <1>0, ThenParts
  <2>2. << >> \o ops = ops
    BY ConcatEmptySeq
  <2>3. r \o ops = Then(Rel(l), << >> \o ops)
    BY <1>0, ThenConcat, ZenonT(60)
  <2> QED
    BY <2>1, <2>2, <2>3
<1>2. Alone(l) = Then(Acq(l), r)
  BY PathParts
<1> HIDE DEF r
<1>3. Then(Acq(l), r) \o ops = Then(Acq(l), r \o ops)
  BY <1>1, ThenConcat, ZenonT(60)
<1> QED
  BY <1>1, <1>2, <1>3

LEMMA Starts ==
  /\ \A x \in Table(TRUE) : TakeTable(x) \in Free(TRUE)
  /\ \A in \in BOOLEAN : \A l \in Outer : \A x \in Under(l, in) : Then(Acq(l), x) \in Free(in)
  /\ \A in \in BOOLEAN : \A l \in Outer : \A x \in OnceTable(l, in) : TakeTable(x) \in Under(l, in)
<1>1. \A x \in Table(TRUE) : TakeTable(x) \in Free(TRUE)
  BY DEF Free
<1>2. ASSUME NEW in \in BOOLEAN, NEW l \in Outer, NEW x \in Under(l, in)
      PROVE  Then(Acq(l), x) \in Free(in)
  BY OpTypes DEF Free
<1>3. ASSUME NEW in \in BOOLEAN, NEW l \in Outer, NEW x \in OnceTable(l, in)
      PROVE  TakeTable(x) \in Under(l, in)
  BY DEF Under
<1> QED
  BY <1>1, <1>2, <1>3

(* Every system call starts with no lock ... *)
LEMMA CallsFree == SystemCalls \subseteq Free(TRUE)
<1>0. << >> \in Seq(AnyOp) /\ << >> \in Wakes /\ << >> \in Afters(TRUE)
  <2>1. TRUE \in BOOLEAN /\ << >> \in Seq(AnyOp)
    OBVIOUS
  <2> QED
    BY <2>1, FreeParts
<1>1. ASSUME NEW l \in Inner
      PROVE  (<<Acq("ptable")>> \o Alone(l)) \o <<Rel("ptable")>> \in Free(TRUE)
  <2>1. <<Rel("ptable")>> = DropTable(<< >>) /\ <<Rel("ptable")>> \in Seq(AnyOp)
    BY OneOp, OpTypes DEF DropTable
  <2>2. l \in Locks /\ Alone(l) \in Seq(AnyOp)
    BY OpTypes, PathParts
  <2>3. (<<Acq("ptable")>> \o Alone(l)) \o <<Rel("ptable")>>
          = TakeTable(Alone(l) \o <<Rel("ptable")>>)
    BY <2>1, <2>2, OpTypes, ThenConcat DEF Then, TakeTable
  <2>4. Alone(l) \o <<Rel("ptable")>> = Then(Acq(l), Then(Rel(l), DropTable(<< >>)))
    BY <2>1, <2>2, AloneThen
  <2>5. Alone(l) \o <<Rel("ptable")>> \in Table(TRUE)
    BY <2>4 DEF Table
  <2> QED
    BY <2>3, <2>5, Starts
<1>2. Ps \in Free(TRUE) /\ Reap \in Free(TRUE)
  BY <1>1, PathParts DEF Ps, Reap, Inner
<1>3. Yield \in Free(TRUE)
  <2>1. Then(Sched, DropTable(<< >>)) \in Table(TRUE)
    BY <1>0 DEF Table
  <2> QED
    BY <2>1, PathParts, Starts
<1>4. Exit \in Free(TRUE)
  <2>1. Exit = TakeTable(<<Gone>>)
    BY TwoOps, OpTypes DEF Exit, TakeTable
  <2> QED
    BY <2>1, Starts DEF Table
<1>5. ASSUME NEW l \in Locks PROVE Alone(l) \in Free(TRUE)
  BY FreeParts
<1>6. ASSUME NEW l \in Outer
      PROVE  /\ Sleeping(l) \in Free(TRUE) /\ Waking(l) \in Free(TRUE)
             /\ ((<<Acq(l)>> \o Wakeup) \o SleepUnder(l)) \o <<Rel(l)>> \in Free(TRUE)
  <2> DEFINE end == <<Rel(l)>>
             rest == Then(Rel(l), Then(Sched, DropTable(Alone(l))))
  <2> USE OpTypes
  <2>0. /\ Acq(l) \in AnyOp /\ Rel(l) \in AnyOp
        /\ Acq("ptable") \in AnyOp /\ Rel("ptable") \in AnyOp /\ Sched \in AnyOp
    OBVIOUS
  <2>1. end = Then(Rel(l), << >>) /\ end \in Seq(AnyOp) /\ end \in Last(l, TRUE)
    BY <1>0, OneOp DEF Last
  <2>2. SleepUnder(l) \in Seq(AnyOp) /\ SleepUnder(l) \o end = TakeTable(rest)
    <3>1. /\ SleepUnder(l) = TakeTable(<<Rel(l), Sched, Rel("ptable"), Acq(l)>>)
          /\ SleepUnder(l) \in Seq(AnyOp)
      BY FiveOps DEF SleepUnder, TakeTable
    <3>2. /\ <<Rel(l), Sched, Rel("ptable"), Acq(l)>> \in Seq(AnyOp)
          /\ <<Sched, Rel("ptable"), Acq(l)>> \in Seq(AnyOp)
          /\ <<Rel("ptable"), Acq(l)>> \in Seq(AnyOp) /\ <<Acq(l)>> \in Seq(AnyOp)
      BY OneOp, TwoOps, ThreeOps, FourOps
    <3>3. <<Acq(l)>> \o end = Alone(l)
      BY <2>1, PathParts DEF Then
    <3> HIDE DEF end
    <3> DEFINE s2 == <<Rel("ptable"), Acq(l)>>
               s3 == <<Sched, Rel("ptable"), Acq(l)>>
               s4 == <<Rel(l), Sched, Rel("ptable"), Acq(l)>>
    <3>0. \A op \in AnyOp, x \in Seq(AnyOp) : Then(op, x) \o end = Then(op, x \o end)
      BY <2>1, ThenConcat, ZenonT(60)
    <3>4. s2 \o end = DropTable(Alone(l))
      <4>1. s2 = Then(Rel("ptable"), <<Acq(l)>>)
        BY TwoOps
      <4>2. Then(Rel("ptable"), <<Acq(l)>>) \o end = Then(Rel("ptable"), <<Acq(l)>> \o end)
        BY <2>0, <3>2, <3>0
      <4> QED
        BY <3>3, <4>1, <4>2 DEF DropTable
    <3>5. s3 \o end = Then(Sched, DropTable(Alone(l)))
      <4>1. s3 = Then(Sched, s2)
        BY ThreeOps
      <4>2. Then(Sched, s2) \o end = Then(Sched, s2 \o end)
        BY <2>0, <3>2, <3>0
      <4> QED
        BY <3>4, <4>1, <4>2
    <3>6. s4 \o end = rest
      <4>1. s4 = Then(Rel(l), s3)
        BY FourOps
      <4>2. Then(Rel(l), s3) \o end = Then(Rel(l), s3 \o end)
        BY <2>0, <3>2, <3>0
      <4> QED
        BY <3>5, <4>1, <4>2
    <3>7. Then(Acq("ptable"), s4) \o end = Then(Acq("ptable"), s4 \o end)
      BY <2>0, <3>2, <3>0
    <3> QED
      BY <3>1, <3>6, <3>7 DEF TakeTable
  <2>3. rest \in LastTable(l, TRUE) /\ rest \in Seq(AnyOp)
    BY CodeTypes DEF LastTable
  <2> HIDE DEF end, rest
  <2>4. Wakeup \in Seq(AnyOp) /\ TakeTable(rest) \in Seq(AnyOp)
    BY <2>2, <2>1, <2>3, PathParts, ThenParts DEF TakeTable
  <2>5. \A x \in Seq(AnyOp) : Wakeup \o x = TakeTable(DropTable(x))
    BY PathParts, AloneThen DEF TakeTable, DropTable
  <2>6. Sleeping(l) = Then(Acq(l), TakeTable(rest))
    BY <2>1, <2>2, ConcatAssociative DEF Sleeping, Then
  <2>7. Waking(l) = Then(Acq(l), TakeTable(DropTable(end)))
    <3>1. (<<Acq(l)>> \o Wakeup) \o end = <<Acq(l)>> \o (Wakeup \o end)
      BY <2>1, <2>4, ConcatAssociative
    <3>2. Wakeup \o end = TakeTable(DropTable(end))
      BY <2>1, <2>5
    <3> QED
      BY <3>1, <3>2 DEF Waking, Then, end
  <2>8. ((<<Acq(l)>> \o Wakeup) \o SleepUnder(l)) \o end
          = Then(Acq(l), TakeTable(DropTable(TakeTable(rest))))
    <3>1. ((<<Acq(l)>> \o Wakeup) \o SleepUnder(l)) \o end
            = (<<Acq(l)>> \o Wakeup) \o TakeTable(rest)
      <4> DEFINE s == <<Acq(l)>> \o Wakeup
      <4>1. s \in Seq(AnyOp)
        BY <2>4, ConcatProperties
      <4> HIDE DEF s
      <4>2. \A x, y, z \in Seq(AnyOp) : (x \o y) \o z = x \o (y \o z)
        BY ConcatAssociative
      <4>3. (s \o SleepUnder(l)) \o end = s \o (SleepUnder(l) \o end)
        BY <2>1, <2>2, <4>1, <4>2, Zenon
      <4> QED
        BY <2>2, <4>3 DEF s
    <3>2. (<<Acq(l)>> \o Wakeup) \o TakeTable(rest) = <<Acq(l)>> \o (Wakeup \o TakeTable(rest))
      BY <2>4, ConcatAssociative
    <3> QED
      BY <2>4, <2>5, <3>1, <3>2 DEF Then
  <2>9. /\ TakeTable(rest) \in Under(l, TRUE) /\ TakeTable(DropTable(end)) \in Under(l, TRUE)
        /\ TakeTable(DropTable(TakeTable(rest))) \in Under(l, TRUE)
    <3>1. rest \in OnceTable(l, TRUE) /\ DropTable(end) \in OnceTable(l, TRUE)
      BY <2>1, <2>3 DEF OnceTable, LastTable
    <3>2. DropTable(TakeTable(rest)) \in OnceTable(l, TRUE)
      BY <2>3 DEF OnceTable, Once
    <3> QED
      BY <3>1, <3>2, Starts
  <2> QED
    BY <2>6, <2>7, <2>8, <2>9, Starts DEF end
<1> QED
  BY <1>2, <1>3, <1>4, <1>5, <1>6 DEF SystemCalls, Outer

LEMMA WakingParts ==
  ASSUME NEW l \in Outer
  PROVE  /\ Waking(l) = Then(Acq(l), TakeTable(DropTable(Then(Rel(l), << >>))))
         /\ \A ops \in Seq(AnyOp) :
              Waking(l) \o ops = Then(Acq(l), TakeTable(DropTable(Then(Rel(l), ops))))
<1> USE OpTypes
<1>0. /\ Acq(l) \in AnyOp /\ Rel(l) \in AnyOp /\ << >> \in Seq(AnyOp)
      /\ Acq("ptable") \in AnyOp /\ Rel("ptable") \in AnyOp
  OBVIOUS
<1>1. \A op \in AnyOp, x \in Seq(AnyOp), y \in Seq(AnyOp) : Then(op, x) \o y = Then(op, x \o y)
  BY ThenConcat
<1>2. \A op \in AnyOp, x \in Seq(AnyOp) : Then(op, x) \in Seq(AnyOp)
  BY ThenParts
<1>3. Waking(l) = Then(Acq(l), TakeTable(DropTable(Then(Rel(l), << >>))))
  <2> DEFINE end == <<Rel(l)>>
  <2>1. end = Then(Rel(l), << >>) /\ end \in Seq(AnyOp)
    BY <1>0, OneOp
  <2>2. Wakeup = Alone("ptable") /\ Wakeup \in Seq(AnyOp)
    BY PathParts
  <2> HIDE DEF end
  <2>3. Wakeup \o end = TakeTable(DropTable(end))
    BY <2>1, <2>2, AloneThen DEF TakeTable, DropTable
  <2>4. <<Acq(l)>> = Then(Acq(l), << >>) /\ << >> \o Wakeup = Wakeup
    BY <1>0, <2>2, OneOp, ConcatEmptySeq
  <2>5. <<Acq(l)>> \o Wakeup = Then(Acq(l), Wakeup)
    BY DEF Then
  <2>6. Then(Acq(l), Wakeup) \o end = Then(Acq(l), Wakeup \o end)
    <3> HIDE OpTypes
    <3> QED
      BY <1>0, <1>1, <2>1, <2>2, Zenon
  <2> QED
    BY <2>1, <2>3, <2>5, <2>6 DEF Waking, end
<1>4. ASSUME NEW ops \in Seq(AnyOp)
      PROVE  Waking(l) \o ops = Then(Acq(l), TakeTable(DropTable(Then(Rel(l), ops))))
  <2> DEFINE r == Then(Rel(l), << >>)
             d == Then(Rel("ptable"), r)
             t == Then(Acq("ptable"), d)
  <2>1. << >> \o ops = ops
    BY ConcatEmptySeq
  <2>2. r \in Seq(AnyOp) /\ r \o ops = Then(Rel(l), << >> \o ops)
    <3>1. r \in Seq(AnyOp)
      BY <1>0, <1>2
    <3>2. r \o ops = Then(Rel(l), << >> \o ops)
      BY <1>0, <1>1
    <3> QED
      BY <3>1, <3>2
  <2> HIDE DEF r
  <2>3. d \in Seq(AnyOp) /\ d \o ops = Then(Rel("ptable"), r \o ops)
    <3>1. d \in Seq(AnyOp)
      BY <1>0, <1>2, <2>2
    <3>2. d \o ops = Then(Rel("ptable"), r \o ops)
      BY <1>0, <1>1, <2>2
    <3> QED
      BY <3>1, <3>2
  <2> HIDE DEF d
  <2>4. t \in Seq(AnyOp) /\ t \o ops = Then(Acq("ptable"), d \o ops)
    <3>1. t \in Seq(AnyOp)
      BY <1>0, <1>2, <2>3
    <3>2. t \o ops = Then(Acq("ptable"), d \o ops)
      BY <1>0, <1>1, <2>3
    <3> QED
      BY <3>1, <3>2
  <2> HIDE DEF t
  <2>5. Then(Acq(l), t) \o ops = Then(Acq(l), t \o ops)
    BY <1>0, <1>1, <2>4, ZenonT(60)
  <2> QED
    BY <1>3, <2>1, <2>2, <2>3, <2>4, <2>5 DEF TakeTable, DropTable, r, d, t
<1> QED
  BY <1>3, <1>4

LEMMA ClockParts ==
  LET rest(ops) == TakeTable(DropTable(TakeTable(DropTable(Then(Rel("ticks"), ops))))) IN
  /\ Clock = Then(Acq("ticks"), rest(<< >>))
  /\ Clock \o Yield = Then(Acq("ticks"), rest(Yield))
<1> DEFINE end == <<Rel("ticks")>>
<1>0. /\ Acq("ticks") \in AnyOp /\ Rel("ticks") \in AnyOp /\ << >> \in Seq(AnyOp)
      /\ Acq("ptable") \in AnyOp /\ Rel("ptable") \in AnyOp
  BY OpTypes DEF Locks, Named
<1>1. \A op \in AnyOp, x \in Seq(AnyOp), y \in Seq(AnyOp) : Then(op, x) \o y = Then(op, x \o y)
  BY ThenConcat
<1>2. \A op \in AnyOp, x \in Seq(AnyOp) : Then(op, x) \in Seq(AnyOp)
  BY ThenParts
<1>3. Wakeup = Alone("ptable") /\ Wakeup \in Seq(AnyOp) /\ Yield \in Seq(AnyOp)
  BY OpTypes, PathParts
<1>4. \A x \in Seq(AnyOp) : Wakeup \o x = TakeTable(DropTable(x))
  BY <1>3, OpTypes, AloneThen DEF TakeTable, DropTable
<1>5. end = Then(Rel("ticks"), << >>) /\ end \in Seq(AnyOp)
  BY <1>0, OneOp
<1>6. end \o Yield = Then(Rel("ticks"), Yield)
  BY DEF Then
<1> HIDE DEF end
<1>7. \A x \in Seq(AnyOp) :
        ((<<Acq("ticks")>> \o Wakeup) \o Wakeup) \o x
          = Then(Acq("ticks"), TakeTable(DropTable(TakeTable(DropTable(x)))))
  <2> SUFFICES ASSUME NEW x \in Seq(AnyOp)
               PROVE  ((<<Acq("ticks")>> \o Wakeup) \o Wakeup) \o x
                        = Then(Acq("ticks"), TakeTable(DropTable(TakeTable(DropTable(x)))))
    OBVIOUS
  <2> DEFINE w == Wakeup \o x
  <2>1. w \in Seq(AnyOp) /\ Wakeup \o Wakeup \in Seq(AnyOp)
    BY <1>3, ConcatProperties
  <2>2. <<Acq("ticks")>> \o Wakeup = Then(Acq("ticks"), Wakeup)
    BY DEF Then
  <2>3. Then(Acq("ticks"), Wakeup) \o Wakeup = Then(Acq("ticks"), Wakeup \o Wakeup)
    BY <1>0, <1>1, <1>3
  <2>4. Then(Acq("ticks"), Wakeup \o Wakeup) \o x = Then(Acq("ticks"), (Wakeup \o Wakeup) \o x)
    BY <1>0, <1>1, <2>1
  <2>5. (Wakeup \o Wakeup) \o x = Wakeup \o w
    BY <1>3, ConcatAssociative
  <2>6. Wakeup \o w = TakeTable(DropTable(w))
    BY <1>4, <2>1
  <2> QED
    BY <1>4, <2>2, <2>3, <2>4, <2>5, <2>6
<1>8. Clock = Then(Acq("ticks"), TakeTable(DropTable(TakeTable(DropTable(end)))))
  BY <1>5, <1>7 DEF Clock, end
<1>9. Clock \o Yield = ((<<Acq("ticks")>> \o Wakeup) \o Wakeup) \o (end \o Yield)
  <2> DEFINE s == (<<Acq("ticks")>> \o Wakeup) \o Wakeup
  <2>1. <<Acq("ticks")>> \in Seq(AnyOp)
    BY <1>0
  <2>2. <<Acq("ticks")>> \o Wakeup \in Seq(AnyOp)
    BY <1>3, <2>1, ConcatProperties
  <2>3. s \in Seq(AnyOp)
    BY <1>3, <2>2, ConcatProperties
  <2> HIDE DEF s
  <2>4. \A x, y, z \in Seq(AnyOp) : (x \o y) \o z = x \o (y \o z)
    BY ConcatAssociative
  <2>5. (s \o end) \o Yield = s \o (end \o Yield)
    BY <1>3, <1>5, <2>3, <2>4, Zenon
  <2> QED
    BY <2>5 DEF Clock, s, end
<1>10. end \o Yield \in Seq(AnyOp)
  BY <1>0, <1>2, <1>3, <1>6
<1> QED
  BY <1>5, <1>6, <1>7, <1>8, <1>9, <1>10

(* ... and so does every interrupt; only in a process may it yield. *)
LEMMA HandlersFree ==
  ASSUME NEW c \in CPUS, NEW in \in BOOLEAN
  PROVE  Handlers(c, in) \subseteq Free(in)
<1>1. \A l \in Outer : \A ops \in Afters(in) :
        Then(Acq(l), TakeTable(DropTable(Then(Rel(l), ops)))) \in Free(in)
  <2> SUFFICES ASSUME NEW l \in Outer, NEW ops \in Afters(in)
               PROVE  Then(Acq(l), TakeTable(DropTable(Then(Rel(l), ops)))) \in Free(in)
    OBVIOUS
  <2>1. DropTable(Then(Rel(l), ops)) \in OnceTable(l, in)
    BY DEF OnceTable, LastTable, Last
  <2> QED
    BY <2>1, Starts
<1>2. << >> \in Afters(in) /\ Afters(in) \subseteq Seq(AnyOp)
  BY FreeParts, CodeTypes
<1>3. ConsoleIntr \subseteq Free(in)
  <2>1. Cprintf \in Afters(in) /\ "cons" \in Outer /\ Alone("cons") \in Free(in)
    BY OpTypes, FreeParts DEF Afters, Outer
  <2>2. Waking("cons") \in Free(in)
    BY <1>1, <1>2, <2>1, WakingParts
  <2>3. Waking("cons") \o Cprintf \in Free(in)
    <3>1. Cprintf \in Seq(AnyOp)
      BY <1>2, <2>1
    <3>2. Waking("cons") \o Cprintf
            = Then(Acq("cons"), TakeTable(DropTable(Then(Rel("cons"), Cprintf))))
      BY <2>1, <3>1, WakingParts
    <3> QED
      BY <1>1, <2>1, <3>2
  <2> QED
    BY <2>1, <2>2, <2>3 DEF ConsoleIntr
<1>4. IdeIntr \subseteq Free(in)
  <2>1. "ide" \in Outer /\ Alone("ide") \in Free(in)
    BY OpTypes, FreeParts DEF Outer
  <2> QED
    BY <1>1, <1>2, <2>1, WakingParts DEF IdeIntr
<1>5. Cprintf \in Free(in) /\ << >> \in Free(in) /\ (in => Yield \in Free(in))
  BY FreeParts DEF Afters
<1>6. \A ops \in Afters(in) :
        Then(Acq("ticks"), TakeTable(DropTable(TakeTable(DropTable(Then(Rel("ticks"), ops)))))) \in Free(in)
  <2> SUFFICES ASSUME NEW ops \in Afters(in)
               PROVE  Then(Acq("ticks"), TakeTable(DropTable(TakeTable(DropTable(Then(Rel("ticks"), ops)))))) \in Free(in)
    OBVIOUS
  <2>1. DropTable(Then(Rel("ticks"), ops)) \in LastTable("ticks", in)
    BY DEF LastTable, Last
  <2>2. DropTable(TakeTable(DropTable(Then(Rel("ticks"), ops)))) \in OnceTable("ticks", in)
    BY <2>1 DEF OnceTable, Once
  <2>3. "ticks" \in Outer
    BY DEF Outer
  <2> QED
    BY <2>2, <2>3, Starts
<1>7. Clock \in Free(in) /\ (in => Clock \o Yield \in Free(in))
  BY <1>2, <1>6, ClockParts DEF Afters
<1>8. << >> \o Yield = Yield
  BY PathParts, ConcatEmptySeq
<1> QED
  BY <1>3, <1>4, <1>5, <1>7, <1>8 DEF Handlers
-----------------------------------------------------------------------------
(* What the next operation of a path can be. *)

(* Locks are taken in one order, but for cons.lock inside ptable.lock. *)
Ordered(h, l) ==
  \/ h = {}
  \/ l = "ptable" /\ h \subseteq Outer
  \/ l \in Inner /\ h = {"ptable"}

Acquires(h, ops, in) ==
  \E l \in Locks : /\ Head(ops) = Acq(l) /\ l \notin h /\ Ordered(h, l)
                   /\ Code(h \cup {l}, Tail(ops), in)

Releases(h, ops, in) ==
  \E l \in Locks : Head(ops) = Rel(l) /\ l \in h /\ Code(h \ {l}, Tail(ops), in)

Leaves(h, ops, in) ==
  /\ in /\ h = {"ptable"}
  /\ \/ Head(ops) = Sched /\ Code(h, Tail(ops), in)
     \/ Head(ops) = Gone

LEMMA CodeSteps ==
  ASSUME NEW in \in BOOLEAN, NEW h, NEW ops, Code(h, ops, in)
  PROVE  /\ ops \in Seq(AnyOp)
         /\ IF ops = << >> THEN h = {}
            ELSE Acquires(h, ops, in) \/ Releases(h, ops, in) \/ Leaves(h, ops, in)
<1> USE OpTypes
<1>0. << >> \in Wakes /\ << >> \in Seq(AnyOp)
  BY FreeParts
<1>1. CASE h = {} /\ ops \in Free(in)
  <2>0. ops \in Seq(AnyOp)
    BY <1>1, CodeTypes
  <2>1. CASE \E x \in Table(in) : ops = TakeTable(x)
    <3> PICK x \in Table(in) : ops = TakeTable(x)
      BY <2>1
    <3>1. Head(ops) = Acq("ptable") /\ Tail(ops) = x
      BY CodeTypes, ThenParts DEF TakeTable
    <3>2. Code({"ptable"}, x, in)
      BY DEF Code
    <3>3. h \cup {"ptable"} = {"ptable"}
      BY <1>1
    <3>4. Acquires(h, ops, in)
      BY <1>1, <3>1, <3>2, <3>3 DEF Acquires, Ordered
    <3> QED
      BY <1>1, <2>0, <3>4
  <2>2. CASE \E k \in Locks \ {"ptable"} : \E x \in Under(k, in) : ops = Then(Acq(k), x)
    <3> PICK k \in Locks \ {"ptable"} : \E x \in Under(k, in) : ops = Then(Acq(k), x)
      BY <2>2
    <3> PICK x \in Under(k, in) : ops = Then(Acq(k), x)
      OBVIOUS
    <3>1. Head(ops) = Acq(k) /\ Tail(ops) = x
      BY CodeTypes, ThenParts
    <3>2. Code({k}, x, in)
      BY DEF Code
    <3>3. h \cup {k} = {k}
      BY <1>1
    <3>4. Acquires(h, ops, in)
      BY <1>1, <3>1, <3>2, <3>3 DEF Acquires, Ordered
    <3> QED
      BY <1>1, <2>0, <3>4
  <2>3. CASE ops = << >>
    BY <1>1, <2>0, <2>3
  <2> QED
    BY <1>1, <2>1, <2>2, <2>3 DEF Free
<1>2. CASE h = {"ptable"} /\ ops \in Table(in)
  <2>0. ops \in Seq(AnyOp)
    BY <1>2, CodeTypes
  <2>1. CASE \E x \in Wakes : ops = DropTable(x)
    <3> PICK x \in Wakes : ops = DropTable(x)
      BY <2>1
    <3>1. Head(ops) = Rel("ptable") /\ Tail(ops) = x /\ ops # << >>
      BY CodeTypes, ThenParts DEF DropTable
    <3>2. Code({}, x, in) /\ h \ {"ptable"} = {}
      BY <1>2, FreeParts DEF Code
    <3>3. Releases(h, ops, in)
      BY <1>2, <3>1, <3>2 DEF Releases
    <3> QED
      BY <2>0, <3>1, <3>3
  <2>2. CASE \E k \in Inner : ops = Then(Acq(k), Then(Rel(k), DropTable(<< >>)))
    <3> PICK k \in Inner : ops = Then(Acq(k), Then(Rel(k), DropTable(<< >>)))
      BY <2>2
    <3> DEFINE x == Then(Rel(k), DropTable(<< >>))
    <3>1. x \in Seq(AnyOp)
      BY <1>0, ThenParts DEF DropTable
    <3>2. Code({k, "ptable"}, x, in)
      BY DEF Code
    <3> HIDE DEF x
    <3>3. Head(ops) = Acq(k) /\ Tail(ops) = x /\ ops # << >>
      BY <3>1, ThenParts DEF x
    <3>4. h \cup {k} = {k, "ptable"} /\ k \notin h
      BY <1>2
    <3>5. Acquires(h, ops, in)
      BY <1>2, <3>2, <3>3, <3>4 DEF Acquires, Ordered
    <3> QED
      BY <2>0, <3>3, <3>5
  <2>3. CASE in /\ \E x \in Wakes : ops = Then(Sched, DropTable(x))
    <3> PICK x \in Wakes : ops = Then(Sched, DropTable(x))
      BY <2>3
    <3>1. DropTable(x) \in Table(in) /\ DropTable(x) \in Seq(AnyOp)
      BY CodeTypes DEF Table
    <3>2. Head(ops) = Sched /\ Tail(ops) = DropTable(x) /\ ops # << >>
      BY <3>1, ThenParts
    <3>3. Leaves(h, ops, in)
      BY <1>2, <2>3, <3>1, <3>2 DEF Leaves, Code
    <3> QED
      BY <2>0, <3>2, <3>3
  <2>4. CASE in /\ ops = <<Gone>>
    <3>1. Head(ops) = Gone /\ ops # << >>
      BY <2>4, <1>0, PathParts, ThenParts
    <3> QED
      BY <1>2, <2>0, <2>4, <3>1 DEF Leaves
  <2> QED
    BY <1>2, <2>1, <2>2, <2>3, <2>4 DEF Table
<1>3. CASE \E k \in Locks \ {"ptable"} : h = {k} /\ ops \in Under(k, in)
  <2> PICK k \in Locks \ {"ptable"} : h = {k} /\ ops \in Under(k, in)
    BY <1>3
  <2>0. ops \in Seq(AnyOp)
    BY CodeTypes
  <2>1. CASE ops \in Last(k, in)
    <3> PICK x \in Afters(in) : ops = Then(Rel(k), x)
      BY <2>1 DEF Last
    <3>1. Head(ops) = Rel(k) /\ Tail(ops) = x /\ ops # << >>
      BY CodeTypes, ThenParts
    <3>2. Code({}, x, in) /\ h \ {k} = {}
      BY FreeParts DEF Code
    <3>3. Releases(h, ops, in)
      BY <3>1, <3>2 DEF Releases
    <3> QED
      BY <2>0, <3>1, <3>3
  <2>2. CASE k \in Outer /\ \E x \in OnceTable(k, in) : ops = TakeTable(x)
    <3> PICK x \in OnceTable(k, in) : ops = TakeTable(x)
      BY <2>2
    <3>1. Head(ops) = Acq("ptable") /\ Tail(ops) = x /\ ops # << >>
      BY CodeTypes, ThenParts DEF TakeTable
    <3>2. Code({k, "ptable"}, x, in) /\ h \cup {"ptable"} = {k, "ptable"} /\ "ptable" \notin h
      BY <2>2 DEF Code
    <3>3. Acquires(h, ops, in)
      BY <2>2, <3>1, <3>2 DEF Acquires, Ordered
    <3> QED
      BY <2>0, <3>1, <3>3
  <2> QED
    BY <2>1, <2>2 DEF Under
<1>4. CASE \E k \in Outer : h = {k, "ptable"} /\ ops \in OnceTable(k, in)
  <2> PICK k \in Outer : h = {k, "ptable"} /\ ops \in OnceTable(k, in)
    BY <1>4
  <2>0. ops \in Seq(AnyOp) /\ k # "ptable"
    BY CodeTypes
  <2>1. CASE \E x \in Once(k, in) : ops = DropTable(x)
    <3> PICK x \in Once(k, in) : ops = DropTable(x)
      BY <2>1
    <3>1. Head(ops) = Rel("ptable") /\ Tail(ops) = x /\ ops # << >>
      BY CodeTypes, ThenParts DEF DropTable
    <3>2. x \in Under(k, in)
      BY DEF Once, Under, OnceTable
    <3>3. Code({k}, x, in) /\ h \ {"ptable"} = {k}
      BY <2>0, <3>2 DEF Code
    <3>4. Releases(h, ops, in)
      BY <3>1, <3>3 DEF Releases
    <3> QED
      BY <2>0, <3>1, <3>4
  <2>2. CASE in /\ ops = Then(Rel(k), Then(Sched, DropTable(Alone(k))))
    <3> DEFINE x == Then(Sched, DropTable(Alone(k)))
    <3>1. x \in Table(in)
      BY <2>2 DEF Table, Wakes
    <3> HIDE DEF x
    <3>2. Head(ops) = Rel(k) /\ Tail(ops) = x /\ ops # << >>
      BY <2>2, <3>1, CodeTypes, ThenParts DEF x
    <3>3. Code({"ptable"}, x, in) /\ h \ {k} = {"ptable"}
      BY <2>0, <3>1 DEF Code
    <3>4. Releases(h, ops, in)
      BY <3>2, <3>3 DEF Releases
    <3> QED
      BY <2>0, <3>2, <3>4
  <2> QED
    BY <2>1, <2>2 DEF OnceTable, LastTable, Once
<1>5. CASE \E k \in Inner : h = {k, "ptable"} /\ ops = Then(Rel(k), DropTable(<< >>))
  <2> PICK k \in Inner : h = {k, "ptable"} /\ ops = Then(Rel(k), DropTable(<< >>))
    BY <1>5
  <2> DEFINE x == DropTable(<< >>)
  <2>1. x \in Table(in)
    BY <1>0 DEF Table
  <2>2. x \in Seq(AnyOp)
    BY <2>1, CodeTypes
  <2> HIDE DEF x
  <2>3. Head(ops) = Rel(k) /\ Tail(ops) = x /\ ops # << >> /\ ops \in Seq(AnyOp)
    BY <2>2, ThenParts DEF x
  <2>4. Code({"ptable"}, x, in) /\ h \ {k} = {"ptable"}
    BY <2>1 DEF Code
  <2>5. Releases(h, ops, in)
    BY <2>3, <2>4 DEF Releases
  <2> QED
    BY <2>3, <2>5
<1> QED
  BY <1>1, <1>2, <1>3, <1>4, <1>5 DEF Code
-----------------------------------------------------------------------------
(* The same for the frame of a trap, of scheduler() or of forkret(). *)

Ahead(f) == Frame(f.trap, Tail(f.ops))

FrameAcquires(f, h, in) ==
  \E l \in Locks : /\ Head(f.ops) = Acq(l) /\ l \notin h /\ Ordered(h, l)
                   /\ Runs(Ahead(f), h \cup {l}, in)

FrameReleases(f, h, in) ==
  \E l \in Locks : Head(f.ops) = Rel(l) /\ l \in h /\ Runs(Ahead(f), h \ {l}, in)

FrameLeaves(f, h, in) ==
  /\ in /\ h = {"ptable"} /\ f.trap \in {"syscall", "interrupt"}
  /\ \/ Head(f.ops) = Sched /\ Code(h, Tail(f.ops), in)
     \/ Head(f.ops) = Gone

FrameLoops(f, h, in) ==
  /\ ~in /\ f.trap = "scheduler"
  /\ \/ h = {} /\ Head(f.ops) = Sti /\ Runs(Ahead(f), h, in)
     \/ h = {"ptable"} /\ Head(f.ops) = Choose /\ f.ops = <<Choose>>

LEMMA FrameSteps ==
  ASSUME NEW in \in BOOLEAN, NEW h, NEW f \in Frames, Runs(f, h, in)
  PROVE  IF f.ops = << >> THEN h = {} /\ f.trap # "scheduler"
         ELSE \/ FrameAcquires(f, h, in) \/ FrameReleases(f, h, in)
              \/ FrameLeaves(f, h, in) \/ FrameLoops(f, h, in)
<1> USE OpTypes
<1>0. Ahead(f).trap = f.trap /\ Ahead(f).ops = Tail(f.ops)
  BY DEF Ahead, Frame
<1>1. CASE f.trap \in {"syscall", "interrupt"}
  <2>1. Code(h, f.ops, in)
    BY <1>1 DEF Runs
  <2>2. IF f.ops = << >> THEN h = {}
        ELSE Acquires(h, f.ops, in) \/ Releases(h, f.ops, in) \/ Leaves(h, f.ops, in)
    BY <2>1, CodeSteps
  <2>3. \A g : Code(g, Tail(f.ops), in) => Runs(Ahead(f), g, in)
    BY <1>0, <1>1 DEF Runs
  <2>4. Acquires(h, f.ops, in) => FrameAcquires(f, h, in)
    BY <2>3 DEF Acquires, FrameAcquires
  <2>5. Releases(h, f.ops, in) => FrameReleases(f, h, in)
    BY <2>3 DEF Releases, FrameReleases
  <2>6. Leaves(h, f.ops, in) => FrameLeaves(f, h, in)
    BY <1>1 DEF Leaves, FrameLeaves
  <2> QED
    BY <1>1, <2>2, <2>4, <2>5, <2>6
<1>2. CASE f.trap = "forkret"
  <2>1. \/ h = {} /\ f.ops = << >>
        \/ in /\ h = {"ptable"} /\ f.ops = DropTable(<< >>)
    BY <1>2 DEF Runs
  <2>2. CASE h = {} /\ f.ops = << >>
    BY <1>2, <2>2
  <2>3. CASE in /\ h = {"ptable"} /\ f.ops = DropTable(<< >>)
    <3>0. << >> \in Seq(AnyOp)
      OBVIOUS
    <3>1. f.ops # << >> /\ Head(f.ops) = Rel("ptable") /\ Tail(f.ops) = << >>
      <4>1. \A x \in Seq(AnyOp) :
              DropTable(x) # << >> /\ Head(DropTable(x)) = Rel("ptable") /\ Tail(DropTable(x)) = x
        BY ThenParts DEF DropTable
      <4> QED
        BY <2>3, <3>0, <4>1
    <3>2. Runs(Ahead(f), {}, in) /\ h \ {"ptable"} = {}
      BY <1>0, <1>2, <2>3, <3>1 DEF Runs
    <3>3. FrameReleases(f, h, in)
      BY <2>3, <3>1, <3>2 DEF FrameReleases
    <3> QED
      BY <3>1, <3>3
  <2> QED
    BY <2>1, <2>2, <2>3
<1>3. CASE f.trap = "scheduler"
  <2> DEFINE choose == TakeTable(<<Choose>>)
             sti == Then(Sti, choose)
  <2>1. ~in /\ LoopCode(h, f.ops)
    BY <1>3 DEF Runs
  <2>2. <<Choose>> \in Seq(AnyOp) /\ <<Choose>> # << >> /\ Head(<<Choose>>) = Choose
    OBVIOUS
  <2>3. /\ choose \in Seq(AnyOp) /\ choose # << >>
        /\ Head(choose) = Acq("ptable") /\ Tail(choose) = <<Choose>>
    BY <2>2, ThenParts DEF TakeTable
  <2> HIDE DEF choose
  <2>4. sti \in Seq(AnyOp) /\ sti # << >> /\ Head(sti) = Sti /\ Tail(sti) = choose
    BY <2>3, ThenParts
  <2> HIDE DEF sti
  <2>5. /\ SchedulerLoop # << >> /\ Head(SchedulerLoop) = Rel("ptable")
        /\ Tail(SchedulerLoop) = sti
    BY <2>4, ThenParts, PathParts DEF DropTable, sti, choose
  <2>6. CASE h = {} /\ f.ops = sti
    <3>1. Runs(Ahead(f), h, in)
      BY <1>0, <1>3, <2>1, <2>4, <2>6 DEF Runs, LoopCode, choose
    <3> QED
      BY <1>3, <2>1, <2>4, <2>6, <3>1 DEF FrameLoops
  <2>7. CASE h = {} /\ f.ops = choose
    <3>1. Runs(Ahead(f), {"ptable"}, in) /\ h \cup {"ptable"} = {"ptable"}
      BY <1>0, <1>3, <2>1, <2>3, <2>7 DEF Runs, LoopCode
    <3>2. FrameAcquires(f, h, in)
      BY <2>3, <2>7, <3>1 DEF FrameAcquires, Ordered
    <3> QED
      BY <2>3, <2>7, <3>2
  <2>8. CASE h = {"ptable"} /\ f.ops = <<Choose>>
    BY <1>3, <2>1, <2>2, <2>8 DEF FrameLoops
  <2>9. CASE h = {"ptable"} /\ f.ops = SchedulerLoop
    <3>1. Runs(Ahead(f), {}, in) /\ h \ {"ptable"} = {}
      BY <1>0, <1>3, <2>1, <2>5, <2>9 DEF Runs, LoopCode
    <3>2. FrameReleases(f, h, in)
      BY <2>5, <2>9, <3>1 DEF FrameReleases
    <3> QED
      BY <2>5, <2>9, <3>2
  <2> QED
    BY <2>1, <2>5, <2>6, <2>7, <2>8, <2>9 DEF LoopCode, choose
<1> QED
  BY <1>1, <1>2, <1>3 DEF Frames

-----------------------------------------------------------------------------
(* Stacks *)

LEMMA StackParts ==
  ASSUME NEW s \in Seq(Frames), NEW f \in Frames
  PROVE  /\ s # << >> => /\ Head(s) = s[1] /\ Head(s) \in Frames
                         /\ Tail(s) \in Seq(Frames) /\ Len(Tail(s)) = Len(s) - 1
                         /\ Len(s) = 2 => Tail(s) # << >> /\ Head(Tail(s)) = s[2] /\ Tail(s)[1] = s[2]
                         /\ Len(s) = 1 => Tail(s) = << >>
         /\ LET t == <<f>> \o s IN
            /\ t \in Seq(Frames) /\ t # << >> /\ Len(t) = Len(s) + 1
            /\ Head(t) = f /\ t[1] = f /\ (Len(s) = 1 => t[2] = s[1])
         /\ LET t == <<f>> \o Tail(s) IN
            s # << >> => /\ t \in Seq(Frames) /\ t # << >> /\ Len(t) = Len(s)
                         /\ Head(t) = f /\ t[1] = f /\ (Len(s) = 2 => t[2] = s[2])
<1>1. ASSUME NEW r \in Seq(Frames)
      PROVE  LET t == <<f>> \o r IN
             /\ t \in Seq(Frames) /\ t # << >> /\ Len(t) = Len(r) + 1
             /\ Head(t) = f /\ t[1] = f /\ (Len(r) = 1 => t[2] = r[1])
  <2>1. <<f>> \in Seq(Frames) /\ Len(<<f>>) = 1 /\ <<f>>[1] = f
    OBVIOUS
  <2> DEFINE t == <<f>> \o r
  <2>2. t \in Seq(Frames) /\ Len(t) = Len(r) + 1 /\ t[1] = f /\ (Len(r) = 1 => t[2] = r[1])
    BY <2>1, ConcatProperties
  <2>3. t # << >> /\ Head(t) = f
    OBVIOUS
  <2> QED
    BY <2>2, <2>3
<1>2. s # << >> => /\ Head(s) = s[1] /\ Head(s) \in Frames
                   /\ Tail(s) \in Seq(Frames) /\ Len(Tail(s)) = Len(s) - 1
                   /\ Len(s) = 2 => Tail(s)[1] = s[2]
  BY HeadTailProperties
<1>0. \A r \in Seq(Frames) : /\ r # << >> => Len(r) \in Nat \ {0} /\ Head(r) = r[1]
                             /\ r = << >> => Len(r) = 0
  BY EmptySeq
<1>3. s # << >> /\ Len(s) = 2 => Tail(s) # << >> /\ Head(Tail(s)) = s[2]
  <2> SUFFICES ASSUME s # << >>, Len(s) = 2 PROVE Tail(s) # << >> /\ Head(Tail(s)) = s[2]
    OBVIOUS
  <2>1. Len(Tail(s)) = 1 /\ Tail(s) \in Seq(Frames) /\ Tail(s)[1] = s[2]
    BY <1>2
  <2> QED
    BY <1>0, <2>1
<1>4. s # << >> /\ Len(s) = 1 => Tail(s) = << >>
  <2> SUFFICES ASSUME s # << >>, Len(s) = 1 PROVE Tail(s) = << >>
    OBVIOUS
  <2>1. Len(Tail(s)) = 0 /\ Tail(s) \in Seq(Frames)
    BY <1>2
  <2> QED
    BY <1>0, <2>1
<1>5. s # << >> => LET t == <<f>> \o Tail(s) IN
                   /\ t \in Seq(Frames) /\ t # << >> /\ Len(t) = Len(Tail(s)) + 1
                   /\ Head(t) = f /\ t[1] = f /\ (Len(Tail(s)) = 1 => t[2] = Tail(s)[1])
  BY <1>1, <1>2
<1>6. Len(s) \in Nat
  OBVIOUS
<1> QED
  BY <1>1, <1>2, <1>3, <1>4, <1>5, <1>6
-----------------------------------------------------------------------------
(* What steps of one CPU leave alone. *)

LEMMA TopFrame ==
  ASSUME TypeOK, NEW c \in CPUS
  PROVE  /\ Context(c) \in CPUS \cup Threads
         /\ Context(c) \in Threads <=> cproc[c] # Nobody
         /\ cproc[c] = Nobody => Context(c) = c
         /\ stack[Context(c)] \in Seq(Frames)
         /\ ~UserMode(c) => Top(c) \in Frames /\ Top(c) = stack[Context(c)][1]
<1>1. /\ Context(c) \in CPUS \cup Threads
      /\ Context(c) \in Threads <=> cproc[c] # Nobody
      /\ cproc[c] = Nobody => Context(c) = c
  BY LocksAssumption DEF TypeOK, Context
<1>2. stack[Context(c)] \in Seq(Frames)
  BY <1>1 DEF TypeOK
<1>3. ~UserMode(c) => Top(c) \in Frames /\ Top(c) = stack[Context(c)][1]
  BY <1>2, HeadTailProperties DEF UserMode, Top
<1> QED
  BY <1>1, <1>2, <1>3

LEMMA Apart ==
  ASSUME TypeOK, Placed, NEW c \in CPUS, NEW d \in CPUS, c # d
  PROVE  Context(c) # Context(d)
  BY LocksAssumption DEF TypeOK, Placed, Context

LEMMA Unmoved ==
  ASSUME NEW d \in CPUS, Works(d), cproc'[d] = cproc[d],
         stack'[Context(d)] = stack[Context(d)], LocksOf(d)' = LocksOf(d),
         ncli'[d] = ncli[d], intena'[d] = intena[d], fl_if'[d] = fl_if[d], spins'[d] = spins[d]
  PROVE  Works(d)'
<1>1. Context(d)' = Context(d)
  BY DEF Context
<1>2. UserMode(d)' = UserMode(d) /\ Top(d)' = Top(d)
  BY <1>1 DEF UserMode, Top
<1>3. Holds(d)'
  BY <1>2 DEF Works, Holds
<1>4. \A op : AtOp(d, op)' <=> AtOp(d, op)
  BY <1>2 DEF AtOp
<1>5. Counts(d)'
  BY <1>4 DEF Works, Counts
<1>6. Interrupts(d)'
  BY <1>2 DEF Works, Interrupts
<1> QED
  BY <1>3, <1>5, <1>6 DEF Works

(* A step of c that changes its own stack alone leaves the rest as it was. *)
LEMMA OwnStack ==
  ASSUME Inductive, TypeOK', NEW c \in CPUS, NEW s,
         stack' = [stack EXCEPT ![Context(c)] = s], Nesting(Context(c), s),
         cproc' = cproc, saved' = saved, away' = away,
         \A d \in CPUS \ {c} :
           /\ LocksOf(d)' = LocksOf(d) /\ ncli'[d] = ncli[d] /\ intena'[d] = intena[d]
           /\ fl_if'[d] = fl_if[d] /\ spins'[d] = spins[d],
         Works(c)'
  PROVE  Inductive'
<1> DEFINE x == Context(c)
<1> USE DEF Inductive
<1>1. x \in CPUS \cup Threads /\ stack \in [CPUS \cup Threads -> Seq(Frames)]
  BY TopFrame DEF TypeOK
<1>2. stack'[x] = s /\ \A y \in CPUS \cup Threads : y # x => stack'[y] = stack[y]
  BY <1>1
<1>3. \A d \in CPUS : d # c => Works(d)'
  <2> SUFFICES ASSUME NEW d \in CPUS, d # c PROVE Works(d)'
    OBVIOUS
  <2>1. stack'[Context(d)] = stack[Context(d)]
    BY <1>2, Apart, TopFrame
  <2> HIDE DEF x
  <2> QED
    BY <2>1, Unmoved
<1>4. Placed'
  <2>1. ASSUME NEW d \in CPUS, cproc[d] # Nobody
        PROVE  stack'[d] = stack[d]
    <3>1. Context(d) \in Threads /\ d \notin Threads
      BY <2>1, TopFrame, LocksAssumption
    <3>2. d # x
      BY <2>1, <3>1, TopFrame
    <3> QED
      BY <1>2, <3>2
  <2> QED
    BY <2>1 DEF Placed
<1>5. Off'
  <2>1. ASSUME NEW t \in Threads, away[t] = "off"
        PROVE  stack'[t] = stack[t]
    <3>1. t # x
      BY <2>1, TopFrame DEF Placed, Context
    <3> QED
      BY <1>2, <3>1
  <2> QED
    BY <2>1 DEF Off
<1>6. Nested'
  BY <1>2 DEF Nested
<1> QED
  BY <1>3, <1>4, <1>5, <1>6

(* GoOn(c) takes one operation off the path. *)
LEMMA NestsAhead ==
  ASSUME NEW x, NEW s \in Seq(Frames), s # << >>, Nesting(x, s),
         NEW f \in Frames, f.trap = Head(s).trap
  PROVE  /\ <<f>> \o Tail(s) \in Seq(Frames) /\ Nesting(x, <<f>> \o Tail(s))
         /\ <<f>> \o Tail(s) # << >> /\ Head(<<f>> \o Tail(s)) = f
<1> DEFINE t == <<f>> \o Tail(s)
<1>1. /\ t \in Seq(Frames) /\ t # << >> /\ Len(t) = Len(s)
      /\ Head(t) = f /\ t[1] = f /\ (Len(s) = 2 => t[2] = s[2]) /\ Head(s) = s[1]
  BY StackParts
<1> HIDE DEF t
<1>2. \A in : Bottom(s[1], in) => Bottom(t[1], in)
  BY <1>1 DEF Bottom
<1>3. Nesting(x, t)
  BY <1>1, <1>2 DEF Nesting
<1> QED
  BY <1>1, <1>3 DEF t

LEMMA AheadType ==
  ASSUME NEW f \in Frames, f.ops # << >>
  PROVE  Ahead(f) \in Frames /\ Ahead(f).trap = f.trap /\ Ahead(f).ops = Tail(f.ops)
<1>1. f.ops \in Seq(AnyOp) /\ f.trap \in {"scheduler", "forkret", "syscall", "interrupt"}
  BY DEF Frames
<1>2. Tail(f.ops) \in Seq(AnyOp)
  BY <1>1, HeadTailProperties
<1> QED
  BY <1>1, <1>2 DEF Ahead, Frame, Frames

LEMMA GoesOn ==
  ASSUME TypeOK, Nested, NEW c \in CPUS, ~UserMode(c), Top(c).ops # << >>, GoOn(c)
  PROVE  /\ stack' \in [CPUS \cup Threads -> Seq(Frames)]
         /\ Ahead(Top(c)) \in Frames
         /\ \E s \in Seq(Frames) :
              /\ stack' = [stack EXCEPT ![Context(c)] = s] /\ Nesting(Context(c), s)
              /\ s # << >> /\ Head(s) = Ahead(Top(c))
         /\ cproc'[c] = cproc[c] => ~UserMode(c)' /\ Top(c)' = Ahead(Top(c))
<1> DEFINE x == Context(c)
           f == Ahead(Top(c))
           s == <<f>> \o Tail(stack[x])
<1>1. /\ x \in CPUS \cup Threads /\ stack[x] \in Seq(Frames) /\ Top(c) \in Frames
      /\ stack[x] # << >> /\ Head(stack[x]) = Top(c)
  BY TopFrame DEF UserMode, Top
<1>2. f \in Frames /\ f.trap = Head(stack[x]).trap
  BY <1>1, AheadType
<1>3. Nesting(x, stack[x])
  BY <1>1 DEF Nested
<1>4. s \in Seq(Frames) /\ Nesting(x, s) /\ s # << >> /\ Head(s) = f
  BY <1>1, <1>2, <1>3, NestsAhead
<1>5. stack' = [stack EXCEPT ![x] = s]
  BY <1>1 DEF GoOn, WithTop, Ahead, Top
<1>6. stack \in [CPUS \cup Threads -> Seq(Frames)]
  BY DEF TypeOK
<1>7. stack' \in [CPUS \cup Threads -> Seq(Frames)] /\ stack'[x] = s
  BY <1>1, <1>4, <1>5, <1>6
<1>8. cproc'[c] = cproc[c] => ~UserMode(c)' /\ Top(c)' = f
  BY <1>4, <1>7 DEF UserMode, Top, Context
<1> HIDE DEF s
<1> QED
  BY <1>2, <1>4, <1>5, <1>7, <1>8
-----------------------------------------------------------------------------
(* Steps that acquire and release. *)

LEMMA AtOpFrame ==
  ASSUME Inductive, NEW c \in CPUS, NEW op, AtOp(c, op)
  PROVE  /\ ~UserMode(c) /\ Top(c) \in Frames /\ Top(c).ops # << >> /\ Head(Top(c).ops) = op
         /\ LET in == cproc[c] # Nobody  h == LocksOf(c) IN
              \/ FrameAcquires(Top(c), h, in) \/ FrameReleases(Top(c), h, in)
              \/ FrameLeaves(Top(c), h, in) \/ FrameLoops(Top(c), h, in)
<1>1. ~UserMode(c) /\ Top(c).ops # << >> /\ Head(Top(c).ops) = op
  BY DEF AtOp
<1>2. Top(c) \in Frames
  BY <1>1, TopFrame DEF Inductive
<1>3. Runs(Top(c), LocksOf(c), cproc[c] # Nobody)
  BY <1>1 DEF Inductive, Works, Holds
<1>4. (cproc[c] # Nobody) \in BOOLEAN
  OBVIOUS
<1> QED
  BY <1>1, <1>2, <1>3, <1>4, FrameSteps

(* Two CPUs do not hold the same lock. *)
LEMMA LocksMove ==
  ASSUME TypeOK, NEW c \in CPUS, NEW l \in Locks,
         NEW v \in {c, Nobody}, owner[l] \in {c, Nobody}, owner' = [owner EXCEPT ![l] = v]
  PROVE  /\ \A d \in CPUS : d # c => LocksOf(d)' = LocksOf(d)
         /\ v = c => LocksOf(c)' = LocksOf(c) \cup {l}
         /\ v = Nobody => LocksOf(c)' = LocksOf(c) \ {l}
<1>1. \A k \in Locks : owner'[k] = IF k = l THEN v ELSE owner[k]
  BY DEF TypeOK
<1>2. Nobody \notin CPUS
  BY LocksAssumption
<1> QED
  BY <1>1, <1>2 DEF LocksOf

LEMMA AcquireStep ==
  ASSUME Inductive, NEW c \in CPUS, NEW l \in Locks, Acquire(c, l)
  PROVE  Inductive'
<1> DEFINE in == cproc[c] # Nobody
           h == LocksOf(c)
<1>1. AtOp(c, Acq(l)) /\ owner[l] = Nobody /\ GoOn(c) /\ UNCHANGED <<cproc, saved, away>>
  BY DEF Acquire
<1>2. ~UserMode(c) /\ Top(c) \in Frames /\ Top(c).ops # << >> /\ Head(Top(c).ops) = Acq(l)
  BY <1>1, AtOpFrame
<1>3. l \notin h /\ Runs(Ahead(Top(c)), h \cup {l}, in)
  <2>1. FrameAcquires(Top(c), h, in)
    <3>1. \/ FrameAcquires(Top(c), h, in) \/ FrameReleases(Top(c), h, in)
          \/ FrameLeaves(Top(c), h, in) \/ FrameLoops(Top(c), h, in)
      BY <1>1, AtOpFrame
    <3> QED
      BY <1>2, <3>1, OpsDiffer DEF FrameReleases, FrameLeaves, FrameLoops
  <2> QED
    BY <1>2, <2>1, OpsDiffer DEF FrameAcquires
<1>4. /\ \A d \in CPUS : d # c => LocksOf(d)' = LocksOf(d)
      /\ LocksOf(c)' = h \cup {l}
  BY <1>1, LocksMove DEF Acquire, Inductive
<1>5. /\ stack' \in [CPUS \cup Threads -> Seq(Frames)]
      /\ ~UserMode(c)' /\ Top(c)' = Ahead(Top(c)) /\ Ahead(Top(c)).trap = Top(c).trap
  BY <1>1, <1>2, GoesOn, AheadType DEF Inductive
<1>6. TypeOK'
  <2> USE DEF Inductive, TypeOK
  <2>1. owner' \in [Locks -> CPUS \cup {Nobody}] /\ spins' \in [CPUS -> BOOLEAN]
    BY DEF Acquire
  <2>2. /\ ncli' \in [CPUS -> Nat] /\ intena' \in [CPUS -> BOOLEAN]
        /\ fl_if' \in [CPUS -> BOOLEAN]
    <3>1. CASE spins[c]
      BY <3>1 DEF Acquire
    <3>2. CASE ~spins[c]
      <4>1. /\ fl_if' = [fl_if EXCEPT ![c] = FALSE] /\ ncli' = [ncli EXCEPT ![c] = @ + 1]
            /\ intena' = IF ncli[c] = 0 THEN [intena EXCEPT ![c] = fl_if[c]] ELSE intena
        BY <3>2 DEF Acquire, PushCli
      <4>2. ncli' \in [CPUS -> Nat]
        BY <4>1
      <4>3. fl_if' \in [CPUS -> BOOLEAN] /\ intena' \in [CPUS -> BOOLEAN]
        BY <4>1
      <4> QED
        BY <4>2, <4>3
    <3> QED
      BY <3>1, <3>2
  <2> QED
    BY <1>1, <1>5, <2>1, <2>2
<1>7. Holds(c)'
  BY <1>1, <1>3, <1>4, <1>5 DEF Holds
<1>8. Counts(c)' /\ Interrupts(c)'
  <2>1. /\ IsFiniteSet(h) /\ Cardinality(h) \in Nat
        /\ IsFiniteSet(h \cup {l}) /\ Cardinality(h \cup {l}) = Cardinality(h) + 1
    BY <1>3, FS_AddElement, FS_CardinalityType DEF Inductive, Works, Counts
  <2>2. /\ ncli[c] = Cardinality(h) + (IF spins[c] THEN 1 ELSE 0)
        /\ Interrupts(c)
    BY DEF Inductive, Works, Counts
  <2>3. ~spins'[c] /\ ncli'[c] = Cardinality(h) + 1
    BY <2>1, <2>2 DEF Acquire, PushCli, Inductive, TypeOK
  <2>4. /\ fl_if'[c] = FALSE
        /\ intena'[c] = IF ncli[c] = 0 THEN fl_if[c] ELSE intena[c]
    <3>1. CASE spins[c]
      BY <2>1, <2>2, <3>1 DEF Interrupts, Acquire, Inductive, TypeOK
    <3>2. CASE ~spins[c]
      BY <3>2 DEF Acquire, PushCli, Inductive, TypeOK
    <3> QED
      BY <3>1, <3>2
  <2>5. Counts(c)'
    BY <1>4, <2>1, <2>3 DEF Counts
  <2>6. Interrupts(c)'
    BY <1>2, <1>5, <2>1, <2>2, <2>3, <2>4 DEF Interrupts
  <2> QED
    BY <2>5, <2>6
<1>9. \A d \in CPUS \ {c} :
        /\ ncli'[d] = ncli[d] /\ intena'[d] = intena[d]
        /\ fl_if'[d] = fl_if[d] /\ spins'[d] = spins[d]
  BY DEF Acquire, PushCli, Inductive, TypeOK
<1>10. PICK s \in Seq(Frames) :
         stack' = [stack EXCEPT ![Context(c)] = s] /\ Nesting(Context(c), s)
  BY <1>1, <1>2, GoesOn DEF Inductive
<1> QED
  BY <1>1, <1>4, <1>6, <1>7, <1>8, <1>9, <1>10, OwnStack DEF Works

LEMMA SpinStep ==
  ASSUME Inductive, NEW c \in CPUS, NEW l \in Locks, Spin(c, l)
  PROVE  Inductive'
<1>1. AtOp(c, Acq(l)) /\ ~spins[c] /\ UNCHANGED <<owner, cproc, stack, saved, away>>
  BY DEF Spin
<1>2. TypeOK'
  BY DEF Inductive, TypeOK, Spin, PushCli
<1>3. /\ \A d \in CPUS : LocksOf(d)' = LocksOf(d)
      /\ Context(c)' = Context(c) /\ UserMode(c)' = UserMode(c) /\ Top(c)' = Top(c)
      /\ AtOp(c, Acq(l))'
  BY <1>1 DEF LocksOf, Context, UserMode, Top, AtOp
<1>4. Holds(c)'
  BY <1>1, <1>3 DEF Inductive, Works, Holds
<1>5. Counts(c)' /\ Interrupts(c)'
  <2>1. IsFiniteSet(LocksOf(c)) /\ Cardinality(LocksOf(c)) \in Nat
    BY FS_CardinalityType DEF Inductive, Works, Counts
  <2>2. ncli[c] = Cardinality(LocksOf(c)) /\ Interrupts(c) /\ ~UserMode(c)
    BY <1>1, <2>1 DEF Inductive, Works, Counts, AtOp
  <2>3. /\ spins'[c] /\ ncli'[c] = ncli[c] + 1 /\ fl_if'[c] = FALSE
        /\ intena'[c] = IF ncli[c] = 0 THEN fl_if[c] ELSE intena[c]
    BY DEF Spin, PushCli, Inductive, TypeOK
  <2>4. Counts(c)'
    BY <1>3, <2>1, <2>2, <2>3 DEF Counts
  <2>5. Interrupts(c)'
    BY <1>3, <2>1, <2>2, <2>3 DEF Interrupts
  <2> QED
    BY <2>4, <2>5
<1>6. \A d \in CPUS \ {c} :
        /\ ncli'[d] = ncli[d] /\ intena'[d] = intena[d]
        /\ fl_if'[d] = fl_if[d] /\ spins'[d] = spins[d]
  BY DEF Spin, PushCli, Inductive, TypeOK
<1>7. Context(c) \in CPUS \cup Threads /\ stack = [stack EXCEPT ![Context(c)] = stack[Context(c)]]
  BY TopFrame DEF Inductive, TypeOK
<1>8. Nesting(Context(c), stack[Context(c)])
  BY <1>7 DEF Inductive, Nested
<1> QED
  BY <1>1, <1>2, <1>3, <1>4, <1>5, <1>6, <1>7, <1>8, OwnStack DEF Works

LEMMA ReleaseStep ==
  ASSUME Inductive, NEW c \in CPUS, NEW l \in Locks, Release(c, l)
  PROVE  Inductive'
<1> DEFINE in == cproc[c] # Nobody
           h == LocksOf(c)
<1>1. AtOp(c, Rel(l)) /\ owner[l] = c /\ GoOn(c) /\ UNCHANGED <<spins, cproc, saved, away>>
  BY DEF Release
<1>2. ~UserMode(c) /\ Top(c) \in Frames /\ Top(c).ops # << >> /\ Head(Top(c).ops) = Rel(l)
  BY <1>1, AtOpFrame
<1>3. l \in h /\ Runs(Ahead(Top(c)), h \ {l}, in)
  <2>1. FrameReleases(Top(c), h, in)
    <3>1. \/ FrameAcquires(Top(c), h, in) \/ FrameReleases(Top(c), h, in)
          \/ FrameLeaves(Top(c), h, in) \/ FrameLoops(Top(c), h, in)
      BY <1>1, AtOpFrame
    <3> QED
      BY <1>2, <3>1, OpsDiffer DEF FrameAcquires, FrameLeaves, FrameLoops
  <2> QED
    BY <1>2, <2>1, OpsDiffer DEF FrameReleases
<1>4. /\ \A d \in CPUS : d # c => LocksOf(d)' = LocksOf(d)
      /\ LocksOf(c)' = h \ {l}
  BY <1>1, LocksMove DEF Release, Inductive
<1>5. /\ stack' \in [CPUS \cup Threads -> Seq(Frames)]
      /\ ~UserMode(c)' /\ Top(c)' = Ahead(Top(c)) /\ Ahead(Top(c)).trap = Top(c).trap
  BY <1>1, <1>2, GoesOn, AheadType DEF Inductive
<1>6. TypeOK'
  <2> USE DEF Inductive, TypeOK
  <2>1. owner' \in [Locks -> CPUS \cup {Nobody}]
    BY DEF Release
  <2>2. ncli' \in [CPUS -> Nat]
    BY DEF Release, PopCli
  <2>3. intena' \in [CPUS -> BOOLEAN] /\ fl_if' \in [CPUS -> BOOLEAN]
    BY DEF Release, PopCli
  <2> QED
    BY <1>1, <1>5, <2>1, <2>2, <2>3
<1>7. Holds(c)'
  BY <1>1, <1>3, <1>4, <1>5 DEF Holds
<1>8. Counts(c)' /\ Interrupts(c)'
  <2>1. /\ IsFiniteSet(h) /\ Cardinality(h) \in Nat
        /\ IsFiniteSet(h \ {l}) /\ Cardinality(h \ {l}) = Cardinality(h) - 1
    BY <1>3, FS_RemoveElement, FS_CardinalityType DEF Inductive, Works, Counts
  <2>2. ~spins[c]
    BY <1>2, OpsDiffer DEF Inductive, Works, Counts, AtOp
  <2>3. ncli[c] = Cardinality(h) /\ Interrupts(c)
    BY <2>1, <2>2 DEF Inductive, Works, Counts
  <2>4. ~spins'[c] /\ ncli'[c] = Cardinality(h) - 1 /\ intena' = intena /\ ~fl_if[c]
    BY <1>1, <2>1, <2>2, <2>3 DEF Release, PopCli, Inductive, TypeOK
  <2>5. fl_if'[c] = IF ncli'[c] = 0 THEN intena[c] ELSE FALSE
    <3>1. fl_if' = IF ncli[c] = 1 THEN [fl_if EXCEPT ![c] = intena[c]] ELSE fl_if
      BY DEF Release, PopCli
    <3>2. ncli[c] = 1 <=> ncli'[c] = 0
      BY <2>1, <2>3, <2>4
    <3>3. fl_if \in [CPUS -> BOOLEAN]
      BY DEF Inductive, TypeOK
    <3> QED
      BY <2>4, <3>1, <3>2, <3>3
  <2>6. Counts(c)'
    BY <1>4, <2>1, <2>4 DEF Counts
  <2>7. Cardinality(h) > 0
    BY <2>3 DEF Release, PopCli
  <2>8. Interrupts(c)'
    BY <1>2, <1>5, <2>1, <2>3, <2>4, <2>5, <2>7 DEF Interrupts
  <2> QED
    BY <2>6, <2>8
<1>9. \A d \in CPUS \ {c} :
        /\ ncli'[d] = ncli[d] /\ intena'[d] = intena[d]
        /\ fl_if'[d] = fl_if[d] /\ spins'[d] = spins[d]
  BY DEF Release, PopCli, Inductive, TypeOK
<1>10. PICK s \in Seq(Frames) :
         stack' = [stack EXCEPT ![Context(c)] = s] /\ Nesting(Context(c), s)
  BY <1>1, <1>2, GoesOn DEF Inductive
<1> QED
  BY <1>1, <1>4, <1>6, <1>7, <1>8, <1>9, <1>10, OwnStack DEF Works
-----------------------------------------------------------------------------
(* Steps of scheduler(), traps and their ends. *)

LEMMA EnableStep ==
  ASSUME Inductive, NEW c \in CPUS, EnableInterrupts(c)
  PROVE  Inductive'
<1> DEFINE in == cproc[c] # Nobody
           h == LocksOf(c)
<1>1. /\ AtOp(c, Sti) /\ GoOn(c) /\ fl_if' = [fl_if EXCEPT ![c] = TRUE]
      /\ UNCHANGED <<owner, ncli, intena, spins, cproc, saved, away>>
  BY DEF EnableInterrupts
<1>2. ~UserMode(c) /\ Top(c) \in Frames /\ Top(c).ops # << >> /\ Head(Top(c).ops) = Sti
  BY <1>1, AtOpFrame
<1>3. h = {} /\ Top(c).trap = "scheduler" /\ Runs(Ahead(Top(c)), h, in)
  <2>1. \/ FrameAcquires(Top(c), h, in) \/ FrameReleases(Top(c), h, in)
        \/ FrameLeaves(Top(c), h, in) \/ FrameLoops(Top(c), h, in)
    BY <1>1, AtOpFrame
  <2> QED
    BY <1>2, <2>1, OpsDiffer DEF FrameAcquires, FrameReleases, FrameLeaves, FrameLoops
<1>4. \A d \in CPUS : LocksOf(d)' = LocksOf(d)
  BY <1>1 DEF LocksOf
<1>5. /\ stack' \in [CPUS \cup Threads -> Seq(Frames)]
      /\ ~UserMode(c)' /\ Top(c)' = Ahead(Top(c)) /\ Ahead(Top(c)).trap = Top(c).trap
  BY <1>1, <1>2, GoesOn, AheadType DEF Inductive
<1>6. TypeOK'
  BY <1>1, <1>5 DEF Inductive, TypeOK
<1>7. Holds(c)'
  BY <1>1, <1>3, <1>4, <1>5 DEF Holds
<1>8. Counts(c)' /\ Interrupts(c)'
  <2>1. ~spins[c]
    BY <1>2, OpsDiffer DEF Inductive, Works, Counts, AtOp
  <2>2. ncli[c] = 0
    BY <1>3, <2>1, FS_EmptySet DEF Inductive, Works, Counts
  <2>3. Counts(c)'
    BY <1>1, <1>4, <2>1 DEF Counts, Inductive, Works
  <2>4. Interrupts(c)'
    BY <1>1, <1>3, <1>5, <2>2 DEF Interrupts
  <2> QED
    BY <2>3, <2>4
<1>9. \A d \in CPUS \ {c} : fl_if'[d] = fl_if[d]
  BY <1>1 DEF Inductive, TypeOK
<1>10. PICK s \in Seq(Frames) :
         stack' = [stack EXCEPT ![Context(c)] = s] /\ Nesting(Context(c), s)
  BY <1>1, <1>2, GoesOn DEF Inductive
<1> QED
  BY <1>1, <1>4, <1>6, <1>7, <1>8, <1>9, <1>10, OwnStack DEF Works

(* scheduler() chooses with ptable.lock held. *)
LEMMA AtChoose ==
  ASSUME Inductive, NEW c \in CPUS, AtOp(c, Choose)
  PROVE  /\ cproc[c] = Nobody /\ Context(c) = c /\ ~UserMode(c)
         /\ Top(c) = Frame("scheduler", <<Choose>>) /\ stack[c] = <<Top(c)>>
         /\ LocksOf(c) = {"ptable"} /\ ~spins[c] /\ ncli[c] = 1 /\ ~fl_if[c]
<1> DEFINE in == cproc[c] # Nobody
           h == LocksOf(c)
<1>2. ~UserMode(c) /\ Top(c) \in Frames /\ Top(c).ops # << >> /\ Head(Top(c).ops) = Choose
  BY AtOpFrame
<1>3. FrameLoops(Top(c), h, in)
  <2>1. \/ FrameAcquires(Top(c), h, in) \/ FrameReleases(Top(c), h, in)
        \/ FrameLeaves(Top(c), h, in) \/ FrameLoops(Top(c), h, in)
    BY AtOpFrame
  <2> QED
    BY <1>2, <2>1, OpsDiffer DEF FrameAcquires, FrameReleases, FrameLeaves
<1>4. h = {"ptable"} /\ Top(c).trap = "scheduler" /\ Top(c).ops = <<Choose>> /\ cproc[c] = Nobody
  BY <1>2, <1>3, OpsDiffer DEF FrameLoops
<1>5. Top(c) = Frame("scheduler", <<Choose>>)
  BY <1>2, <1>4 DEF Frames, Frame
<1>6. ~spins[c]
  BY <1>2, OpsDiffer DEF Inductive, Works, Counts, AtOp
<1>7. ncli[c] = 1
  <2>1. ncli[c] = Cardinality(h) + 0
    BY <1>6 DEF Inductive, Works, Counts
  <2>2. Cardinality({"ptable"}) = 1
    BY FS_Singleton
  <2> QED
    BY <1>4, <2>1, <2>2
<1>8. ~fl_if[c]
  BY <1>7 DEF Inductive, Works, Interrupts
<1>9. Context(c) = c /\ stack[c] \in Seq(Frames) /\ Top(c) = stack[c][1] /\ Nesting(c, stack[c])
  BY <1>2, <1>4, TopFrame DEF Inductive, Nested
<1>10. stack[c] = <<Top(c)>>
  <2>1. Len(stack[c]) = 1 \/ Len(stack[c]) = 2
    <3>1. stack[c] # << >> /\ Len(stack[c]) <= 2
      BY <1>9 DEF Nesting
    <3>2. Len(stack[c]) \in Nat \ {0}
      BY <1>9, <3>1, EmptySeq
    <3> DEFINE n == Len(stack[c])
    <3>3. n \in Nat /\ n # 0 /\ n <= 2
      BY <3>1, <3>2
    <3> HIDE DEF n
    <3>4. n = 1 \/ n = 2
      BY <3>3
    <3> QED
      BY <3>4 DEF n
  <2>2. Len(stack[c]) = 1
    BY <1>4, <1>9, <2>1 DEF Nesting
  <2>3. <<Top(c)>> \in Seq(Frames) /\ Len(<<Top(c)>>) = 1 /\ <<Top(c)>>[1] = Top(c)
    BY <1>2
  <2>4. \A i \in 1 .. Len(stack[c]) : stack[c][i] = <<Top(c)>>[i]
    BY <1>9, <2>2, <2>3
  <2> HIDE <1>9
  <2>5. stack[c] \in Seq(Frames)
    BY <1>9
  <2> QED
    BY <2>2, <2>3, <2>4, <2>5, SeqEqual
<1> QED
  BY <1>2, <1>4, <1>5, <1>6, <1>7, <1>8, <1>9, <1>10

LEMMA RoundEndsStep ==
  ASSUME Inductive, NEW c \in CPUS, RoundEnds(c)
  PROVE  Inductive'
<1> DEFINE f == Frame("scheduler", SchedulerLoop)
           s == <<f>> \o Tail(stack[c])
<1>1. /\ AtOp(c, Choose) /\ stack' = WithTop(c, SchedulerLoop)
      /\ UNCHANGED <<owner, ncli, intena, fl_if, spins, cproc, saved, away>>
  BY DEF RoundEnds
<1>2. /\ cproc[c] = Nobody /\ Context(c) = c /\ ~UserMode(c)
      /\ Top(c) = Frame("scheduler", <<Choose>>) /\ stack[c] = <<Top(c)>>
      /\ LocksOf(c) = {"ptable"} /\ ~spins[c] /\ ncli[c] = 1 /\ ~fl_if[c]
  BY <1>1, AtChoose
<1>3. f \in Frames /\ f.trap = "scheduler" /\ f.ops = SchedulerLoop
  BY PathParts DEF Frame, Frames
<1>4. Head(stack[c]).trap = "scheduler" /\ stack[c] # << >> /\ stack[c] \in Seq(Frames)
  BY <1>2, TopFrame DEF Frame, Inductive
<1>5. s \in Seq(Frames) /\ Nesting(c, s) /\ s # << >> /\ Head(s) = f
  BY <1>3, <1>4, NestsAhead DEF Inductive, Nested
<1>6. stack' = [stack EXCEPT ![c] = s]
  BY <1>1, <1>2, <1>4 DEF WithTop
<1> HIDE DEF s, f
<1>7. stack'[c] = s
  BY <1>6 DEF Inductive, TypeOK
<1>8. TypeOK'
  BY <1>1, <1>5, <1>6 DEF Inductive, TypeOK
<1>9. /\ \A d \in CPUS : LocksOf(d)' = LocksOf(d)
      /\ ~UserMode(c)' /\ Top(c)' = f
  BY <1>1, <1>2, <1>5, <1>7 DEF LocksOf, UserMode, Top, Context
<1>10. Runs(f, {"ptable"}, FALSE)
  BY <1>3 DEF Runs, LoopCode
<1>11. Holds(c)'
  BY <1>1, <1>2, <1>9, <1>10 DEF Holds
<1>12. Counts(c)' /\ Interrupts(c)'
  BY <1>1, <1>2, <1>3, <1>9 DEF Counts, Interrupts, Inductive, Works
<1> QED
  BY <1>1, <1>2, <1>5, <1>6, <1>8, <1>9, <1>11, <1>12, OwnStack DEF Works

LEMMA SystemCallStep ==
  ASSUME Inductive, NEW c \in CPUS, NEW ops \in SystemCalls, SystemCall(c, ops)
  PROVE  Inductive'
<1> DEFINE x == Context(c)
           f == Frame("syscall", ops)
           s == <<f>> \o stack[x]
<1>1. /\ UserMode(c) /\ fl_if[c] /\ stack' = [stack EXCEPT ![x] = s]
      /\ UNCHANGED <<owner, ncli, intena, fl_if, spins, cproc, saved, away>>
  BY TopFrame DEF SystemCall, Enter, Inductive
<1>2. x \in CPUS \cup Threads /\ stack[x] = << >> /\ stack[x] \in Seq(Frames) /\ Nesting(x, stack[x])
  BY <1>1, TopFrame DEF UserMode, Inductive, Nested
<1>3. x \in Threads /\ x \notin CPUS /\ cproc[c] # Nobody
  BY <1>2, TopFrame DEF Nesting, Inductive
<1>4. ops \in Free(TRUE) /\ ops \in Seq(AnyOp)
  <2>1. TRUE \in BOOLEAN /\ ops \in Free(TRUE)
    BY CallsFree
  <2> QED
    BY <2>1, CodeTypes
<1>5. f \in Frames /\ f.trap = "syscall" /\ f.ops = ops
  BY <1>4 DEF Frame, Frames
<1> HIDE DEF f
<1>6. s \in Seq(Frames) /\ s # << >> /\ Len(s) = 1 /\ Head(s) = f /\ s[1] = f
  <2>1. Len(stack[x]) = 0
    BY <1>2, EmptySeq
  <2> QED
    BY <1>2, <1>5, <2>1, StackParts
<1> HIDE DEF s, x
<1>7. Nesting(x, s)
  BY <1>3, <1>5, <1>6 DEF Nesting, Bottom
<1>8. stack'[x] = s /\ stack' \in [CPUS \cup Threads -> Seq(Frames)]
  BY <1>1, <1>2, <1>6 DEF Inductive, TypeOK
<1>9. TypeOK'
  BY <1>1, <1>8 DEF Inductive, TypeOK
<1>10. /\ \A d \in CPUS : LocksOf(d)' = LocksOf(d)
       /\ ~UserMode(c)' /\ Top(c)' = f
  BY <1>1, <1>6, <1>8 DEF LocksOf, UserMode, Top, Context, x
<1>11. LocksOf(c) = {} /\ ~spins[c] /\ ncli[c] = 0
  BY <1>1 DEF Inductive, Works, Holds, Counts, Interrupts, AtOp
<1>12. Runs(f, {}, TRUE)
  BY <1>4, <1>5 DEF Runs, Code
<1>13. Holds(c)'
  BY <1>1, <1>3, <1>10, <1>11, <1>12 DEF Holds
<1>14. Counts(c)' /\ Interrupts(c)'
  BY <1>1, <1>5, <1>10, <1>11 DEF Counts, Interrupts, Inductive, Works
<1> QED
  BY <1>1, <1>7, <1>9, <1>10, <1>13, <1>14, OwnStack DEF Works, x

LEMMA InterruptStep ==
  ASSUME Inductive, NEW c \in CPUS, NEW ops \in Handlers(c, cproc[c] # Nobody), Interrupt(c, ops)
  PROVE  Inductive'
<1> DEFINE x == Context(c)
           in == cproc[c] # Nobody
           f == Frame("interrupt", ops)
           s == <<f>> \o stack[x]
<1>1. /\ fl_if[c] /\ stack' = [stack EXCEPT ![x] = s] /\ fl_if' = [fl_if EXCEPT ![c] = FALSE]
      /\ UNCHANGED <<owner, ncli, intena, spins, cproc, saved, away>>
  BY TopFrame DEF Interrupt, Enter, Inductive
<1>2. x \in CPUS \cup Threads /\ stack[x] \in Seq(Frames) /\ Nesting(x, stack[x]) /\ (x \in Threads <=> in)
  BY TopFrame DEF Inductive, Nested
<1>3. LocksOf(c) = {} /\ ~spins[c] /\ ncli[c] = 0
  <2>1. ncli[c] = 0 /\ IsFiniteSet(LocksOf(c)) /\ Cardinality(LocksOf(c)) \in Nat
    BY <1>1, FS_CardinalityType DEF Inductive, Works, Interrupts, Counts
  <2>2. Cardinality(LocksOf(c)) = 0 /\ ~spins[c]
    BY <2>1 DEF Inductive, Works, Counts
  <2> QED
    BY <2>1, <2>2, FS_EmptySet
<1>4. ops \in Free(in) /\ ops \in Seq(AnyOp)
  <2>1. in \in BOOLEAN
    OBVIOUS
  <2> HIDE DEF in
  <2>2. ops \in Free(in)
    BY <2>1, HandlersFree DEF in
  <2> QED
    BY <2>1, <2>2, CodeTypes
<1>5. f \in Frames /\ f.trap = "interrupt" /\ f.ops = ops
  BY <1>4 DEF Frame, Frames
<1> HIDE DEF f
<1>6. /\ s \in Seq(Frames) /\ s # << >> /\ Len(s) = Len(stack[x]) + 1 /\ Head(s) = f /\ s[1] = f
      /\ Len(stack[x]) = 1 => s[2] = stack[x][1]
  BY <1>2, <1>5, StackParts
<1>7. stack[x] # << >> => /\ stack[x][1].trap # "interrupt"
                          /\ Runs(stack[x][1], {}, in)
  <2>1. ASSUME stack[x] # << >>
        PROVE  ~UserMode(c) /\ Top(c) = stack[x][1]
    BY <2>1, TopFrame DEF UserMode, Inductive
  <2> QED
    BY <1>1, <1>3, <2>1 DEF Inductive, Works, Holds, Interrupts
<1> HIDE DEF s, x, in
<1>8. Nesting(x, s)
  <2>1. Len(stack[x]) = 0 \/ Len(stack[x]) = 1
    <3>1. Len(stack[x]) \in Nat /\ Len(stack[x]) <= 2 /\ (stack[x] = << >> => Len(stack[x]) = 0)
      BY <1>2, EmptySeq DEF Nesting
    <3>2. Len(stack[x]) # 2
      BY <1>2, <1>7, <3>1 DEF Nesting
    <3> DEFINE n == Len(stack[x])
    <3>3. n \in Nat /\ n <= 2 /\ n # 2
      BY <3>1, <3>2
    <3> HIDE DEF n
    <3>4. n = 0 \/ n = 1
      BY <3>3
    <3> QED
      BY <3>4 DEF n
  <2>2. CASE Len(stack[x]) = 0
    <3>1. stack[x] = << >>
      BY <1>2, <2>2, EmptySeq
    <3> QED
      BY <1>2, <1>5, <1>6, <2>2, <3>1 DEF Nesting
  <2>3. CASE Len(stack[x]) = 1
    <3>1. stack[x] # << >>
      BY <2>3, EmptySeq
    <3>2. Bottom(stack[x][1], x \in Threads) /\ Runs(stack[x][1], {}, x \in Threads)
      <4>1. in = (x \in Threads)
        BY <1>2 DEF in
      <4> QED
        BY <1>2, <1>7, <2>3, <3>1, <4>1 DEF Nesting
    <3> QED
      BY <1>2, <1>5, <1>6, <2>3, <3>2 DEF Nesting
  <2> QED
    BY <2>1, <2>2, <2>3
<1>9. stack'[x] = s /\ stack' \in [CPUS \cup Threads -> Seq(Frames)]
  BY <1>1, <1>2, <1>6 DEF Inductive, TypeOK
<1>10. TypeOK'
  BY <1>1, <1>9 DEF Inductive, TypeOK
<1>11. /\ \A d \in CPUS : LocksOf(d)' = LocksOf(d)
       /\ ~UserMode(c)' /\ Top(c)' = f
  BY <1>1, <1>6, <1>9 DEF LocksOf, UserMode, Top, Context, x
<1>12. Runs(f, {}, in)
  BY <1>4, <1>5 DEF Runs, Code
<1>13. Holds(c)'
  BY <1>1, <1>3, <1>11, <1>12 DEF Holds, in
<1>14. Counts(c)' /\ Interrupts(c)'
  BY <1>1, <1>3, <1>5, <1>11 DEF Counts, Interrupts, Inductive, Works, TypeOK
<1>15. \A d \in CPUS \ {c} : fl_if'[d] = fl_if[d]
  BY <1>1 DEF Inductive, TypeOK
<1> QED
  BY <1>1, <1>8, <1>10, <1>11, <1>13, <1>14, <1>15, OwnStack DEF Works, x

LEMMA ReturnStep ==
  ASSUME Inductive, NEW c \in CPUS, Return(c)
  PROVE  Inductive'
<1> DEFINE x == Context(c)
           in == cproc[c] # Nobody
           s == Tail(stack[x])
<1>1. /\ ~UserMode(c) /\ Top(c).ops = << >> /\ stack' = [stack EXCEPT ![x] = s]
      /\ fl_if' = [fl_if EXCEPT ![c] = TRUE]
      /\ UNCHANGED <<owner, ncli, intena, spins, cproc, saved, away>>
  BY TopFrame DEF Return, Inductive
<1>2. /\ x \in CPUS \cup Threads /\ stack[x] \in Seq(Frames) /\ stack[x] # << >>
      /\ Nesting(x, stack[x]) /\ in = (x \in Threads)
      /\ Top(c) \in Frames /\ Top(c) = stack[x][1]
  BY <1>1, TopFrame DEF UserMode, Inductive, Nested
<1>3. LocksOf(c) = {} /\ Top(c).trap # "scheduler"
  <2>1. Runs(Top(c), LocksOf(c), in)
    BY <1>1 DEF Inductive, Works, Holds
  <2>2. in \in BOOLEAN
    OBVIOUS
  <2> HIDE DEF in
  <2> QED
    BY <1>1, <1>2, <2>1, <2>2, FrameSteps
<1>4. ~spins[c] /\ ncli[c] = 0
  <2>1. ~spins[c]
    BY <1>1 DEF Inductive, Works, Counts, AtOp
  <2> QED
    BY <1>3, <2>1, FS_EmptySet DEF Inductive, Works, Counts
<1>5. /\ s \in Seq(Frames)
      /\ Len(stack[x]) = 2 => s # << >> /\ Head(s) = stack[x][2] /\ s[1] = stack[x][2] /\ Len(s) = 1
      /\ Len(stack[x]) = 1 => s = << >> /\ Len(s) = 0
  <2>1. /\ s \in Seq(Frames) /\ Len(s) = Len(stack[x]) - 1
        /\ Len(stack[x]) = 2 => s # << >> /\ Head(s) = stack[x][2] /\ s[1] = stack[x][2]
        /\ Len(stack[x]) = 1 => s = << >>
    BY <1>2, StackParts
  <2> HIDE DEF s
  <2> QED
    BY <2>1
<1>6. Len(stack[x]) = 1 \/ Len(stack[x]) = 2
  <2> DEFINE n == Len(stack[x])
  <2>1. n \in Nat \ {0} /\ n <= 2
    BY <1>2, EmptySeq DEF Nesting
  <2> HIDE DEF n
  <2>2. n = 1 \/ n = 2
    BY <2>1
  <2> QED
    BY <2>2 DEF n
<1> HIDE DEF s, x, in
<1>7. Len(stack[x]) = 1 => x \in Threads
  BY <1>2, <1>3 DEF Nesting, Bottom
<1>8. Nesting(x, s) /\ (s # << >> => Runs(Head(s), {}, in) /\ Bottom(Head(s), in))
  <2>1. CASE Len(stack[x]) = 1
    BY <1>5, <1>7, <2>1, LocksAssumption DEF Nesting
  <2>2. CASE Len(stack[x]) = 2
    BY <1>2, <1>5, <2>2 DEF Nesting
  <2> QED
    BY <1>6, <2>1, <2>2
<1>9. stack'[x] = s /\ stack' \in [CPUS \cup Threads -> Seq(Frames)]
  BY <1>1, <1>2, <1>5 DEF Inductive, TypeOK
<1>10. TypeOK'
  BY <1>1, <1>9 DEF Inductive, TypeOK
<1>11. /\ \A d \in CPUS : LocksOf(d)' = LocksOf(d)
       /\ UserMode(c)' <=> s = << >>
       /\ Top(c)' = Head(s)
  BY <1>1, <1>9 DEF LocksOf, UserMode, Top, Context, x
<1>12. Holds(c)'
  BY <1>1, <1>3, <1>8, <1>11 DEF Holds, in
<1>13. Counts(c)' /\ Interrupts(c)'
  <2>1. fl_if'[c] /\ ncli'[c] = 0 /\ ~spins'[c]
    BY <1>1, <1>4 DEF Inductive, TypeOK
  <2>2. s # << >> => Head(s).trap # "interrupt"
    BY <1>8 DEF Bottom
  <2>3. Counts(c)'
    BY <1>1, <1>11, <2>1 DEF Counts, Inductive, Works
  <2>4. Interrupts(c)'
    BY <1>11, <2>1, <2>2 DEF Interrupts
  <2> QED
    BY <2>3, <2>4
<1>14. \A d \in CPUS \ {c} : fl_if'[d] = fl_if[d]
  BY <1>1 DEF Inductive, TypeOK
<1> QED
  BY <1>1, <1>8, <1>10, <1>11, <1>12, <1>13, <1>14, OwnStack DEF Works, x

-----------------------------------------------------------------------------
(* Steps from process to scheduler and back. *)

(* sched() does not panic, and the scheduler of its CPU waits for it. *)
LEMMA AtSched ==
  ASSUME Inductive, NEW c \in CPUS, AtOp(c, Sched) \/ AtOp(c, Gone)
  PROVE  /\ cproc[c] \in Threads /\ Context(c) = cproc[c]
         /\ ~UserMode(c) /\ Top(c) \in Frames /\ Top(c).ops # << >>
         /\ Top(c).trap \in {"syscall", "interrupt"}
         /\ LocksOf(c) = {"ptable"} /\ ~spins[c] /\ ncli[c] = 1 /\ ~fl_if[c]
         /\ AtOp(c, Sched) => Code({"ptable"}, Tail(Top(c).ops), TRUE)
<1> DEFINE in == cproc[c] # Nobody
           h == LocksOf(c)
<1>1. /\ ~UserMode(c) /\ Top(c) \in Frames /\ Top(c).ops # << >>
      /\ Head(Top(c).ops) = Sched \/ Head(Top(c).ops) = Gone
  BY AtOpFrame
<1>2. \/ FrameAcquires(Top(c), h, in) \/ FrameReleases(Top(c), h, in)
      \/ FrameLeaves(Top(c), h, in) \/ FrameLoops(Top(c), h, in)
  BY AtOpFrame
<1>3. FrameLeaves(Top(c), h, in)
  BY <1>1, <1>2, OpsDiffer DEF FrameAcquires, FrameReleases, FrameLoops
<1>4. /\ in /\ h = {"ptable"} /\ Top(c).trap \in {"syscall", "interrupt"}
      /\ Head(Top(c).ops) = Sched => Code({"ptable"}, Tail(Top(c).ops), TRUE)
  BY <1>3, OpsDiffer DEF FrameLeaves
<1>5. cproc[c] \in Threads /\ Context(c) = cproc[c]
  BY <1>4 DEF Inductive, TypeOK, Context
<1>6. ~spins[c]
  BY <1>1, OpsDiffer DEF Inductive, Works, Counts, AtOp
<1>7. ncli[c] = 1
  <2>1. ncli[c] = Cardinality(h) + 0
    BY <1>6 DEF Inductive, Works, Counts
  <2>2. Cardinality({"ptable"}) = 1
    BY FS_Singleton
  <2> QED
    BY <1>4, <2>1, <2>2
<1>8. ~fl_if[c]
  BY <1>7 DEF Inductive, Works, Interrupts
<1>9. AtOp(c, Sched) => Head(Top(c).ops) = Sched
  BY DEF AtOp
<1> QED
  BY <1>1, <1>4, <1>5, <1>6, <1>7, <1>8, <1>9

(* A CPU that has left process t is at the choice of its scheduler. *)
LEMMA LeftBehind ==
  ASSUME Inductive, TypeOK', NEW c \in CPUS, cproc[c] \in Threads, NEW s \in Seq(Frames),
         LocksOf(c) = {"ptable"}, ~spins[c], ~fl_if[c],
         stack' = [stack EXCEPT ![cproc[c]] = s], Nesting(cproc[c], s),
         cproc' = [cproc EXCEPT ![c] = Nobody],
         NEW to \in {"new", "off"}, away' = [away EXCEPT ![cproc[c]] = to],
         \A t \in Threads \ {cproc[c]} : saved'[t] = saved[t],
         to = "off" => /\ s # << >> /\ Head(s).trap \in {"syscall", "interrupt"}
                       /\ Code({"ptable"}, Head(s).ops, TRUE)
                       /\ saved'[cproc[c]] <=> Head(s).trap = "syscall",
         UNCHANGED <<owner, ncli, intena, fl_if, spins>>
  PROVE  Inductive'
<1> DEFINE t == cproc[c]
<1> USE DEF Inductive
<1>1. /\ cproc[c] # Nobody /\ Nobody \notin Threads /\ \A d \in CPUS : d \notin Threads
      /\ away[t] = "on" /\ stack[c] = <<Frame("scheduler", <<Choose>>)>>
  BY LocksAssumption DEF Placed
<1>2. /\ stack'[t] = s /\ \A y \in CPUS \cup Threads : y # t => stack'[y] = stack[y]
      /\ cproc'[c] = Nobody /\ \A d \in CPUS : d # c => cproc'[d] = cproc[d]
      /\ away'[t] = to /\ \A u \in Threads : u # t => away'[u] = away[u]
  BY DEF TypeOK
<1>3. \A d \in CPUS : LocksOf(d)' = LocksOf(d)
  BY DEF LocksOf
<1>4. \A d \in CPUS : d # c => Works(d)'
  <2> SUFFICES ASSUME NEW d \in CPUS, d # c PROVE Works(d)'
    OBVIOUS
  <2>1. Context(c) = t /\ Context(d) # t /\ Context(d) \in CPUS \cup Threads
    BY <1>1, Apart, TopFrame DEF Context
  <2>2. stack'[Context(d)] = stack[Context(d)]
    BY <1>2, <2>1
  <2> QED
    BY <1>2, <1>3, <2>2, Unmoved
<1>5. Works(c)'
  <2> DEFINE f == Frame("scheduler", <<Choose>>)
  <2>1. stack'[c] = <<f>>
    BY <1>1, <1>2
  <2>2. Context(c)' = c
    BY <1>2 DEF Context
  <2>3. <<f>> # << >> /\ Head(<<f>>) = f
    OBVIOUS
  <2>4. ~UserMode(c)' /\ Top(c)' = f
    BY <2>1, <2>2, <2>3 DEF UserMode, Top
  <2>5. f.trap = "scheduler" /\ f.ops = <<Choose>>
    BY DEF Frame
  <2> HIDE DEF f
  <2>6. Holds(c)'
    BY <1>2, <1>3, <2>4, <2>5 DEF Holds, Runs, LoopCode
  <2>7. Counts(c)'
    BY <1>3 DEF Works, Counts
  <2>8. Interrupts(c)'
    BY <2>4, <2>5 DEF Interrupts
  <2> QED
    BY <2>6, <2>7, <2>8 DEF Works
<1>6. Placed'
  <2>1. ASSUME NEW d \in CPUS, cproc'[d] # Nobody
        PROVE  d # c /\ cproc'[d] = cproc[d] /\ cproc[d] # t
    BY <1>2, <2>1 DEF Placed
  <2>2. ASSUME NEW d \in CPUS, cproc'[d] # Nobody
        PROVE  away'[cproc'[d]] = "on" /\ stack'[d] = <<Frame("scheduler", <<Choose>>)>>
    <3>1. cproc'[d] = cproc[d] /\ cproc[d] # t /\ cproc[d] \in Threads /\ d # t
      BY <1>1, <2>1, <2>2 DEF TypeOK
    <3> QED
      BY <1>2, <2>2, <3>1 DEF Placed
  <2> QED
    BY <2>1, <2>2 DEF Placed
<1>7. Nested'
  BY <1>2 DEF Nested
<1>8. Off'
  <2> SUFFICES ASSUME NEW u \in Threads, away'[u] = "off"
               PROVE  /\ stack'[u] # << >> /\ Head(stack'[u]).trap \in {"syscall", "interrupt"}
                      /\ Code({"ptable"}, Head(stack'[u]).ops, TRUE)
                      /\ saved'[u] <=> Head(stack'[u]).trap = "syscall"
    BY DEF Off
  <2>1. CASE u = t
    BY <1>2, <2>1
  <2>2. CASE u # t
    BY <1>2, <2>2 DEF Off
  <2> QED
    BY <2>1, <2>2
<1> QED
  BY <1>4, <1>5, <1>6, <1>7, <1>8

LEMMA SwitchAwayStep ==
  ASSUME Inductive, NEW c \in CPUS, SwitchAway(c)
  PROVE  Inductive'
<1> DEFINE t == cproc[c]
           f == Ahead(Top(c))
<1>1. /\ AtOp(c, Sched) /\ GoOn(c)
      /\ saved' = [saved EXCEPT ![t] = intena[c]] /\ cproc' = [cproc EXCEPT ![c] = Nobody]
      /\ away' = [away EXCEPT ![t] = "off"]
      /\ UNCHANGED <<owner, ncli, intena, fl_if, spins>>
  BY DEF SwitchAway
<1>2. /\ t \in Threads /\ Context(c) = t
      /\ ~UserMode(c) /\ Top(c) \in Frames /\ Top(c).ops # << >>
      /\ Top(c).trap \in {"syscall", "interrupt"}
      /\ LocksOf(c) = {"ptable"} /\ ~spins[c] /\ ncli[c] = 1 /\ ~fl_if[c]
      /\ Code({"ptable"}, Tail(Top(c).ops), TRUE)
  BY <1>1, AtSched
<1>3. PICK s \in Seq(Frames) :
        /\ stack' = [stack EXCEPT ![t] = s] /\ Nesting(t, s) /\ s # << >> /\ Head(s) = f
  BY <1>1, <1>2, GoesOn DEF Inductive
<1>4. stack' \in [CPUS \cup Threads -> Seq(Frames)] /\ f.trap = Top(c).trap /\ f.ops = Tail(Top(c).ops)
  BY <1>1, <1>2, GoesOn, AheadType DEF Inductive
<1>5. intena[c] \in BOOLEAN /\ saved'[t] = intena[c]
  BY <1>1, <1>2 DEF Inductive, TypeOK
<1>6. intena[c] <=> Top(c).trap = "syscall"
  BY <1>2 DEF Inductive, Works, Interrupts
<1>7. TypeOK'
  BY <1>1, <1>2, <1>4, <1>5 DEF Inductive, TypeOK
<1>8. \A u \in Threads \ {t} : saved'[u] = saved[u]
  BY <1>1 DEF Inductive, TypeOK
<1> HIDE DEF f
<1>9. /\ Head(s).trap \in {"syscall", "interrupt"} /\ Code({"ptable"}, Head(s).ops, TRUE)
      /\ saved'[t] <=> Head(s).trap = "syscall"
  BY <1>2, <1>3, <1>4, <1>5, <1>6
<1>10. "off" \in {"new", "off"}
  OBVIOUS
<1> QED
  BY <1>1, <1>2, <1>3, <1>7, <1>8, <1>9, <1>10, LeftBehind

LEMMA ExitAwayStep ==
  ASSUME Inductive, NEW c \in CPUS, ExitAway(c)
  PROVE  Inductive'
<1> DEFINE t == cproc[c]
<1>1. /\ AtOp(c, Gone) /\ cproc' = [cproc EXCEPT ![c] = Nobody]
      /\ away' = [away EXCEPT ![t] = "new"] /\ stack' = [stack EXCEPT ![t] = << >>]
      /\ saved' = [saved EXCEPT ![t] = FALSE]
      /\ UNCHANGED <<owner, ncli, intena, fl_if, spins>>
  BY DEF ExitAway
<1>2. /\ t \in Threads /\ LocksOf(c) = {"ptable"} /\ ~spins[c] /\ ~fl_if[c]
  BY <1>1, AtSched
<1>3. << >> \in Seq(Frames) /\ Len(<< >>) = 0
  OBVIOUS
<1>4. Nesting(t, << >>)
  BY <1>2, <1>3, LocksAssumption DEF Nesting
<1>5. TypeOK'
  BY <1>1, <1>2, <1>3 DEF Inductive, TypeOK
<1>6. \A u \in Threads \ {t} : saved'[u] = saved[u]
  BY <1>1 DEF Inductive, TypeOK
<1>7. "new" \in {"new", "off"} /\ "new" # "off"
  OBVIOUS
<1> QED
  BY <1>1, <1>2, <1>3, <1>4, <1>5, <1>6, <1>7, LeftBehind

(* Process t starts in forkret(), or goes on with its frame f, on c. *)
LEMMA PutOn ==
  ASSUME Inductive, TypeOK', NEW c \in CPUS, NEW t \in Threads, AtOp(c, Choose), away[t] # "on",
         NEW s \in Seq(Frames), stack' = [stack EXCEPT ![t] = s], Nesting(t, s), s # << >>,
         Runs(Head(s), {"ptable"}, TRUE), Head(s).trap \in {"forkret", "syscall", "interrupt"},
         Head(s).trap # "forkret" => (intena'[c] <=> Head(s).trap = "syscall"),
         \A d \in CPUS \ {c} : intena'[d] = intena[d],
         cproc' = [cproc EXCEPT ![c] = t], away' = [away EXCEPT ![t] = "on"],
         UNCHANGED <<owner, ncli, fl_if, spins, saved>>
  PROVE  Inductive'
<1> USE DEF Inductive
<1>1. /\ cproc[c] = Nobody /\ stack[c] = <<Frame("scheduler", <<Choose>>)>>
      /\ LocksOf(c) = {"ptable"} /\ ~spins[c] /\ ncli[c] = 1 /\ ~fl_if[c]
  BY AtChoose
<1>2. t # Nobody /\ \A d \in CPUS : d # t
  BY LocksAssumption
<1>3. /\ stack'[t] = s /\ \A y \in CPUS \cup Threads : y # t => stack'[y] = stack[y]
      /\ cproc'[c] = t /\ \A d \in CPUS : d # c => cproc'[d] = cproc[d]
      /\ away'[t] = "on" /\ \A u \in Threads : u # t => away'[u] = away[u]
  BY DEF TypeOK
<1>4. \A d \in CPUS : LocksOf(d)' = LocksOf(d)
  BY DEF LocksOf
<1>5. \A d \in CPUS : cproc[d] # t
  BY <1>2 DEF Placed
<1>6. \A d \in CPUS : d # c => Works(d)'
  <2> SUFFICES ASSUME NEW d \in CPUS, d # c PROVE Works(d)'
    OBVIOUS
  <2>1. Context(d) # t /\ Context(d) \in CPUS \cup Threads
    BY <1>2, <1>5, TopFrame DEF Context
  <2>2. stack'[Context(d)] = stack[Context(d)]
    BY <1>3, <2>1
  <2> QED
    BY <1>3, <1>4, <2>2, Unmoved
<1>7. Works(c)'
  <2>1. ~UserMode(c)' /\ Top(c)' = Head(s)
    BY <1>2, <1>3 DEF UserMode, Top, Context
  <2>2. Holds(c)'
    BY <1>1, <1>2, <1>3, <1>4, <2>1 DEF Holds
  <2>3. Counts(c)'
    BY <1>1, <1>4 DEF Works, Counts
  <2>4. Interrupts(c)'
    BY <1>1, <2>1 DEF Interrupts
  <2> QED
    BY <2>2, <2>3, <2>4 DEF Works
<1>8. Placed'
  <2>1. \A d \in CPUS : stack'[d] = stack[d]
    BY <1>2, <1>3
  <2>2. ASSUME NEW d \in CPUS, cproc'[d] # Nobody
        PROVE  away'[cproc'[d]] = "on" /\ stack'[d] = <<Frame("scheduler", <<Choose>>)>>
    <3>1. CASE d = c
      BY <1>1, <1>3, <2>1, <3>1
    <3>2. CASE d # c
      <4>1. cproc'[d] = cproc[d] /\ cproc[d] # t /\ cproc[d] \in Threads
        BY <1>3, <1>5, <2>2, <3>2 DEF TypeOK
      <4> QED
        BY <1>3, <2>1, <2>2, <4>1 DEF Placed
    <3> QED
      BY <3>1, <3>2
  <2>3. ASSUME NEW d \in CPUS, NEW e \in CPUS, cproc'[d] = cproc'[e], cproc'[d] # Nobody
        PROVE  d = e
    BY <1>3, <1>5, <2>3 DEF Placed
  <2> QED
    BY <2>2, <2>3 DEF Placed
<1>9. Nested'
  BY <1>3 DEF Nested
<1>10. Off'
  <2>1. \A u \in Threads : away'[u] = "off" => u # t /\ away[u] = "off" /\ stack'[u] = stack[u]
    BY <1>3
  <2> QED
    BY <2>1 DEF Off
<1> QED
  BY <1>6, <1>7, <1>8, <1>9, <1>10

LEMMA SwitchToStep ==
  ASSUME Inductive, NEW c \in CPUS, NEW t \in Threads, SwitchTo(c, t)
  PROVE  Inductive'
<1>1. /\ AtOp(c, Choose) /\ away[t] # "on"
      /\ cproc' = [cproc EXCEPT ![c] = t] /\ away' = [away EXCEPT ![t] = "on"]
      /\ UNCHANGED <<owner, ncli, fl_if, spins, saved>>
  BY DEF SwitchTo
<1>2. /\ stack \in [CPUS \cup Threads -> Seq(Frames)] /\ intena \in [CPUS -> BOOLEAN]
      /\ saved \in [Threads -> BOOLEAN] /\ away[t] \in {"new", "off"}
  BY <1>1 DEF Inductive, TypeOK
<1>3. CASE away[t] = "new"
  <2> DEFINE f == Frame("forkret", <<Rel("ptable")>>)
             s == <<f>>
  <2>1. stack' = [stack EXCEPT ![t] = s] /\ intena' = intena
    BY <1>3 DEF SwitchTo
  <2>2. <<Rel("ptable")>> = DropTable(<< >>) /\ <<Rel("ptable")>> \in Seq(AnyOp)
    BY OpTypes, OneOp DEF DropTable
  <2>3. f \in Frames /\ f.trap = "forkret" /\ f.ops = <<Rel("ptable")>>
    BY <2>2 DEF Frames, Frame
  <2>4. Runs(f, {"ptable"}, TRUE)
    BY <2>2, <2>3 DEF Runs
  <2> HIDE DEF f
  <2>5. s \in Seq(Frames) /\ s # << >> /\ Head(s) = f /\ Len(s) = 1 /\ s[1] = f
    BY <2>3
  <2> HIDE DEF s
  <2>6. Nesting(t, s)
    BY <2>3, <2>5 DEF Nesting, Bottom
  <2>7. TypeOK'
    BY <1>1, <1>2, <2>1, <2>5 DEF Inductive, TypeOK
  <2> QED
    BY <1>1, <2>1, <2>3, <2>4, <2>5, <2>6, <2>7, PutOn
<1>4. CASE away[t] = "off"
  <2> DEFINE s == stack[t]
  <2>1. stack' = stack /\ intena' = [intena EXCEPT ![c] = saved[t]]
    BY <1>4 DEF SwitchTo
  <2>2. /\ s # << >> /\ Head(s).trap \in {"syscall", "interrupt"}
        /\ Code({"ptable"}, Head(s).ops, TRUE) /\ (saved[t] <=> Head(s).trap = "syscall")
    BY <1>4 DEF Inductive, Off
  <2>3. Runs(Head(s), {"ptable"}, TRUE)
    BY <2>2 DEF Runs
  <2>4. s \in Seq(Frames) /\ stack' = [stack EXCEPT ![t] = s] /\ Nesting(t, s)
    BY <1>2, <2>1 DEF Inductive, Nested
  <2>5. TypeOK'
    BY <1>1, <1>2, <2>1 DEF Inductive, TypeOK
  <2>6. intena'[c] = saved[t] /\ \A d \in CPUS \ {c} : intena'[d] = intena[d]
    BY <1>2, <2>1
  <2> HIDE DEF s
  <2> QED
    BY <1>1, <2>2, <2>3, <2>4, <2>5, <2>6, PutOn
<1> QED
  BY <1>2, <1>3, <1>4

-----------------------------------------------------------------------------
LEMMA InitInductive ==
  ASSUME LockInit
  PROVE  Inductive
<1> DEFINE ops == Tail(SchedulerLoop)
           f == Frame("scheduler", ops)
           s == <<f>>
<1>1. /\ \A c \in CPUS : stack[c] = s /\ cproc[c] = Nobody /\ ncli[c] = 0
                         /\ fl_if[c] = FALSE /\ spins[c] = FALSE
      /\ \A t \in Threads : stack[t] = << >> /\ away[t] = "new"
      /\ \A l \in Locks : owner[l] = Nobody
  BY LocksAssumption DEF LockInit
<1>2. ops \in Seq(AnyOp)
  <2>1. SchedulerLoop \in Seq(AnyOp) /\ SchedulerLoop # << >>
    BY PathParts DEF SchedulerLoop
  <2> QED
    BY <2>1, HeadTailProperties
<1> HIDE DEF ops
<1>3. f \in Frames /\ f.trap = "scheduler" /\ f.ops = ops
  BY <1>2 DEF Frames, Frame
<1> HIDE DEF f
<1>4. s \in Seq(Frames) /\ s # << >> /\ Head(s) = f /\ Len(s) = 1 /\ s[1] = f
  BY <1>3
<1> HIDE DEF s
<1>5. TypeOK
  <2>1. << >> \in Seq(Frames)
    OBVIOUS
  <2>2. stack = [x \in CPUS \cup Threads |-> IF x \in CPUS THEN s ELSE << >>]
    BY DEF LockInit, s, f, ops
  <2>3. stack \in [CPUS \cup Threads -> Seq(Frames)]
    BY <1>4, <2>1, <2>2
  <2> QED
    BY <2>3 DEF LockInit, TypeOK
<1>6. Nested
  <2>1. ASSUME NEW c \in CPUS PROVE Nesting(c, stack[c])
    <3>1. stack[c] = s /\ c \notin Threads
      BY <1>1, LocksAssumption
    <3>2. Bottom(s[1], c \in Threads)
      BY <1>3, <1>4, <3>1 DEF Bottom
    <3>3. Nesting(c, s)
      BY <1>4, <3>2 DEF Nesting
    <3> QED
      BY <3>1, <3>3
  <2>2. ASSUME NEW t \in Threads PROVE Nesting(t, stack[t])
    <3>1. Len(<< >>) = 0
      OBVIOUS
    <3> QED
      BY <1>1, <3>1, LocksAssumption DEF Nesting
  <2> QED
    BY <2>1, <2>2 DEF Nested
<1>7. ASSUME NEW c \in CPUS PROVE Works(c)
  <2>1. LocksOf(c) = {}
    BY <1>1, LocksAssumption DEF LocksOf
  <2>2. ~UserMode(c) /\ Top(c) = f
    BY <1>1, <1>4 DEF UserMode, Top, Context
  <2>3. Runs(f, {}, FALSE)
    BY <1>3 DEF Runs, LoopCode, ops
  <2>4. Holds(c)
    BY <1>1, <2>1, <2>2, <2>3 DEF Holds
  <2>5. Counts(c)
    BY <1>1, <2>1, FS_EmptySet DEF Counts
  <2>6. Interrupts(c)
    BY <1>1, <1>3, <2>2 DEF Interrupts
  <2> QED
    BY <2>4, <2>5, <2>6 DEF Works
<1>8. Placed /\ Off
  BY <1>1 DEF Placed, Off
<1> QED
  BY <1>5, <1>6, <1>7, <1>8 DEF Inductive

LEMMA Stutter ==
  ASSUME Inductive, UNCHANGED lockvars
  PROVE  Inductive'
<1> USE DEF lockvars, Inductive
<1>1. ASSUME NEW c \in CPUS PROVE Works(c)'
  <2>1. LocksOf(c)' = LocksOf(c) /\ Works(c)
    BY DEF LocksOf
  <2> QED
    BY <2>1, Unmoved
<1>2. TypeOK' /\ Placed' /\ Nested' /\ Off'
  BY DEF TypeOK, Placed, Nested, Off
<1> QED
  BY <1>1, <1>2

THEOREM InductiveInvariant == LockSpec => []Inductive
<1>1. LockInit => Inductive
  BY InitInductive
<1>2. Inductive /\ [LockNext]_lockvars => Inductive'
  <2> SUFFICES ASSUME Inductive, [LockNext]_lockvars PROVE Inductive'
    OBVIOUS
  <2>1. CASE UNCHANGED lockvars
    BY <2>1, Stutter
  <2>2. ASSUME NEW c \in CPUS, NEW l \in Locks, Acquire(c, l) \/ Spin(c, l) \/ Release(c, l)
        PROVE  Inductive'
    BY <2>2, AcquireStep, SpinStep, ReleaseStep
  <2>3. ASSUME NEW c \in CPUS,
               EnableInterrupts(c) \/ RoundEnds(c) \/ SwitchAway(c) \/ ExitAway(c) \/ Return(c)
        PROVE  Inductive'
    BY <2>3, EnableStep, RoundEndsStep, SwitchAwayStep, ExitAwayStep, ReturnStep
  <2>4. ASSUME NEW c \in CPUS, NEW t \in Threads, SwitchTo(c, t)
        PROVE  Inductive'
    BY <2>4, SwitchToStep
  <2>5. ASSUME NEW c \in CPUS, NEW ops \in SystemCalls, SystemCall(c, ops)
        PROVE  Inductive'
    BY <2>5, SystemCallStep
  <2>6. ASSUME NEW c \in CPUS, NEW ops \in Handlers(c, cproc[c] # Nobody), Interrupt(c, ops)
        PROVE  Inductive'
    BY <2>6, InterruptStep
  <2> QED
    BY <2>1, <2>2, <2>3, <2>4, <2>5, <2>6 DEF LockNext
<1> QED
  BY <1>1, <1>2, PTL DEF LockSpec
-----------------------------------------------------------------------------
(* Where a path releases a lock, its CPU holds it. *)
LEMMA ReleasesOwn ==
  ASSUME Inductive, NEW c \in CPUS, NEW l \in Locks, AtOp(c, Rel(l))
  PROVE  owner[l] = c
<1> DEFINE in == cproc[c] # Nobody
           h == LocksOf(c)
<1>1. Head(Top(c).ops) = Rel(l)
  BY AtOpFrame
<1>2. \/ FrameAcquires(Top(c), h, in) \/ FrameReleases(Top(c), h, in)
      \/ FrameLeaves(Top(c), h, in) \/ FrameLoops(Top(c), h, in)
  BY AtOpFrame
<1>3. FrameReleases(Top(c), h, in)
  BY <1>1, <1>2, OpsDiffer DEF FrameAcquires, FrameLeaves, FrameLoops
<1>4. l \in h
  BY <1>1, <1>3, OpsDiffer DEF FrameReleases
<1> QED
  BY <1>4 DEF LocksOf

(* pushcli(), popcli() and the intena that sched() carries from CPU to     *)
(* CPU keep interrupts off where a lock is held and in handlers, and have  *)
(* them on in a system call that holds none; ncli counts the locks, and    *)
(* sched() and release() do not panic, for any number of CPUs, processes,  *)
(* locks and nested traps.                                                 *)
THEOREM InterruptsPutBack == LockSpec => []InterruptsKept
<1>1. Inductive => InterruptsKept
  <2> SUFFICES ASSUME Inductive, NEW c \in CPUS
               PROVE  /\ ncli[c] = Cardinality(LocksOf(c)) + (IF spins[c] THEN 1 ELSE 0)
                      /\ fl_if[c] => ncli[c] = 0
                      /\ UserMode(c) => fl_if[c]
                      /\ ~UserMode(c) =>
                           /\ Top(c).trap = "interrupt" => ~fl_if[c]
                           /\ Top(c).trap = "syscall" /\ ncli[c] = 0 => fl_if[c]
                      /\ AtOp(c, Sched) \/ AtOp(c, Gone) => MaySched(c)
                      /\ \A l \in Locks : AtOp(c, Rel(l)) => owner[l] = c
    BY DEF InterruptsKept
  <2>1. Counts(c) /\ Interrupts(c)
    BY DEF Inductive, Works
  <2>2. AtOp(c, Sched) \/ AtOp(c, Gone) => MaySched(c)
    BY AtSched DEF MaySched, LocksOf
  <2>3. \A l \in Locks : AtOp(c, Rel(l)) => owner[l] = c
    BY ReleasesOwn
  <2> QED
    BY <2>1, <2>2, <2>3 DEF Counts, Interrupts
<1> QED
  BY <1>1, InductiveInvariant, PTL

-----------------------------------------------------------------------------
(* A CPU that waits takes the lock in order after those that it holds. *)
LEMMA WaitsInOrder ==
  ASSUME Inductive, NEW c \in CPUS, NEW l \in Locks, AtOp(c, Acq(l))
  PROVE  Ordered(LocksOf(c), l)
<1> DEFINE in == cproc[c] # Nobody
           h == LocksOf(c)
<1>1. Head(Top(c).ops) = Acq(l)
  BY AtOpFrame
<1>2. \/ FrameAcquires(Top(c), h, in) \/ FrameReleases(Top(c), h, in)
      \/ FrameLeaves(Top(c), h, in) \/ FrameLoops(Top(c), h, in)
  BY AtOpFrame
<1>3. FrameAcquires(Top(c), h, in)
  BY <1>1, <1>2, OpsDiffer DEF FrameReleases, FrameLeaves, FrameLoops
<1> QED
  BY <1>1, <1>3, OpsDiffer DEF FrameAcquires

(* The holder of a lock that is waited for waits itself: for ptable.lock,  *)
(* if it holds another, or else for one of the locks inside ptable.lock.   *)
LEMMA HolderWaits ==
  ASSUME Inductive, NEW d \in CPUS, NEW l \in Locks, owner[l] = d,
         NEW k \in Locks, AtOp(d, Acq(k))
  PROVE  \/ l \in Outer /\ k = "ptable"
         \/ l = "ptable" /\ k \in Inner
<1>1. l \in LocksOf(d)
  BY DEF LocksOf
<1>2. Ordered(LocksOf(d), k)
  BY WaitsInOrder
<1> QED
  BY <1>1, <1>2 DEF Ordered

(* The one circle in which CPUs can wait for each other's spin locks has   *)
(* ps() in it, which takes cons.lock under ptable.lock.                    *)
THEOREM CirclesOnlyThroughPs == LockSpec => []CirclesThroughPs
<1>1. Inductive => CirclesThroughPs
  <2> SUFFICES ASSUME Inductive, NEW S \in SUBSET CPUS, Circle(S), \A c \in S : ~InPs(c)
               PROVE  FALSE
    BY DEF CirclesThroughPs
  <2>1. ASSUME NEW c \in S
        PROVE  \E l \in Locks : \E d \in S :
                 AtOp(c, Acq(l)) /\ owner[l] = d
    BY DEF Circle, WaitsFor
  <2>2. ASSUME NEW c \in S, NEW l \in Locks, AtOp(c, Acq(l))
        PROVE  l \in Outer \cup {"ptable"}
    <3>1. PICK k \in Locks : AtOp(c, Acq(k)) /\ owner[k] \in S
      BY <2>1
    <3>2. k = l
      BY <2>2, <3>1, OpsDiffer DEF AtOp
    <3>3. PICK m \in Locks : AtOp(owner[k], Acq(m))
      BY <2>1, <3>1
    <3> QED
      BY <3>1, <3>2, <3>3, HolderWaits
  <2>3. ASSUME NEW c \in S, AtOp(c, Acq("ptable"))
        PROVE  FALSE
    <3>1. PICK k \in Locks : AtOp(c, Acq(k)) /\ owner[k] \in S
      BY <2>1
    <3>2. k = "ptable"
      BY <2>3, <3>1, OpsDiffer DEF AtOp
    <3>3. PICK m \in Locks : AtOp(owner[k], Acq(m))
      BY <2>1, <3>1
    <3>4. m \in Inner /\ m \in Outer \cup {"ptable"}
      BY <2>2, <3>1, <3>2, <3>3, HolderWaits, OpTypes
    <3>5. m = "cons"
      BY <3>4, LocksAssumption DEF Inner, Outer, Named
    <3> QED
      BY <3>1, <3>2, <3>3, <3>5 DEF InPs
  <2>4. PICK c \in S : TRUE
    BY DEF Circle
  <2>5. PICK k \in Locks : AtOp(c, Acq(k)) /\ owner[k] \in S
    BY <2>1
  <2>6. PICK m \in Locks : AtOp(owner[k], Acq(m))
    BY <2>1, <2>5
  <2>7. k = "ptable" \/ m = "ptable"
    BY <2>5, <2>6, HolderWaits
  <2> QED
    BY <2>3, <2>5, <2>6, <2>7
<1> QED
  BY <1>1, InductiveInvariant, PTL
-----------------------------------------------------------------------------
LogTypeOK ==
  /\ home \in [Blocks -> Values]
  /\ logged \in Seq(Values) /\ header \in Seq(Blocks)
  /\ cache \in [Blocks -> Values \cup {NoBuf}]
  /\ dirty \in [Blocks -> BOOLEAN]
  /\ lh \in Seq(Blocks)
  /\ outstanding \in Nat /\ committing \in BOOLEAN
  /\ pc \in [Ops -> {"idle", "begin", "asleep", "active", "modified", "commit"}]
  /\ holds \in [Ops -> Blocks \cup {NoBuf}]
  /\ \A o \in Ops : pc[o] = "modified" => holds[o] \in Blocks
  /\ writes \in [Ops -> Nat]
  /\ stage \in {"none", "read_head", "recover", "write_log", "install", "done"}
  /\ tail \in Nat

(* No call runs before the log has been recovered, or while it is committed. *)
Calls ==
  /\ IsFiniteSet(InCall) /\ outstanding = Cardinality(InCall)
  /\ ~Running => \A o \in Ops : pc[o] = "idle"
  /\ committing <=> stage \in {"write_log", "install", "done"}
  /\ committing => outstanding = 0
  /\ \A o \in Ops : /\ pc[o] = "active" => writes[o] <= MAXOPBLOCKS
                    /\ pc[o] = "modified" => writes[o] < MAXOPBLOCKS

Distinct(s) == \A i, j \in DOMAIN s : s[i] = s[j] => i = j

Held(b) == \E o \in Ops : pc[o] = "modified" /\ holds[o] = b

(* Buffers differ from the disk only where a call is about to write to the *)
(* log, or has done so and the block is not installed yet.                 *)
Buffers ==
  \A b \in Blocks :
    /\ dirty[b] \/ Held(b) => cache[b] # NoBuf
    /\ ~dirty[b] /\ ~Held(b) => cache[b] \in {NoBuf, home[b]}
    /\ dirty[b] => \E i \in DOMAIN lh : lh[i] = b

(* The blocks of s from the n-th on are dirty, or those before it are in   *)
(* their places on the disk.                                               *)
DirtyFrom(n) == \A i \in DOMAIN lh : i > n <=> dirty[lh[i]]

InPlace(n) == \A i \in DOMAIN lh : i <= n => home[lh[i]] = logged[i]

(* The header never counts a block that is not in the log, and no block is *)
(* in the log twice.                                                       *)
LogOnDisk ==
  /\ Distinct(lh) /\ Distinct(header)
  /\ header # << >> => Len(header) <= Len(logged)

Stages ==
  /\ stage = "none" =>
       header = << >> /\ DirtyFrom(0) /\ (outstanding = 0 => lh = << >>)
  /\ stage = "write_log" =>
       /\ header = << >> /\ DirtyFrom(0)
       /\ tail <= Len(lh) /\ tail <= Len(logged)
       /\ \A i \in 1 .. tail : cache[lh[i]] = logged[i]
  /\ stage = "install" =>
       /\ header = lh /\ Len(lh) <= Len(logged) /\ tail <= Len(lh)
       /\ DirtyFrom(tail) /\ InPlace(tail)
       /\ \A i \in DOMAIN lh : i > tail => cache[lh[i]] = logged[i]
  /\ stage = "done" => header = << >> /\ lh = << >>
  /\ stage = "read_head" =>
       /\ lh = << >> /\ tail = 0
       /\ \A b \in Blocks : cache[b] = NoBuf
  /\ stage = "recover" =>
       /\ header = lh /\ tail <= Len(lh) /\ InPlace(tail)
       /\ \A b \in Blocks : ~dirty[b]
       /\ \A i \in DOMAIN lh : i > tail => cache[lh[i]] = NoBuf

LogInductive ==
  /\ LogTypeOK /\ Calls /\ SpaceReserved /\ Buffers /\ LogOnDisk /\ Stages /\ SleepsForCause

(* Every step keeps disk, buffers and calls well formed. *)
LEMMA TypeStep == LogTypeOK /\ LogOnDisk /\ Stages /\ [LogNext]_allvars => LogTypeOK'
<1> SUFFICES ASSUME LogTypeOK, LogOnDisk, Stages, [LogNext]_allvars PROVE LogTypeOK'
  OBVIOUS
<1> USE LogAssumption DEF LogTypeOK, disk, logvars, callvars
<1>1. ASSUME NEW o \in Ops, Start(o) \/ BeginOp(o) \/ BeginSleep(o) \/ Killed(o)
     PROVE  LogTypeOK'
  <2>1. CASE Start(o)      BY <2>1 DEF Start
  <2>2. CASE BeginOp(o)    BY <2>2 DEF BeginOp
  <2>3. CASE BeginSleep(o) BY <2>3 DEF BeginSleep
  <2>4. CASE Killed(o)     BY <2>4 DEF Killed
  <2> QED
    BY <1>1, <2>1, <2>2, <2>3, <2>4
<1>2. ASSUME NEW o \in Ops, NEW b \in Blocks, NEW v \in Values, Modify(o, b, v)
     PROVE  LogTypeOK'
  BY <1>2 DEF Modify
<1>3. ASSUME NEW o \in Ops, LogWrite(o)
     PROVE  LogTypeOK'
  BY <1>3 DEF LogWrite
<1>4. ASSUME NEW o \in Ops, EndOpOthers(o) \/ EndOpLast(o) \/ CommitDone(o)
     PROVE  LogTypeOK'
  <2>1. CASE EndOpOthers(o) BY <2>1 DEF EndOpOthers, Awake
  <2>2. CASE EndOpLast(o)   BY <2>2 DEF EndOpLast
  <2>3. CASE CommitDone(o)  BY <2>3 DEF CommitDone, Awake
  <2> QED
    BY <1>4, <2>1, <2>2, <2>3
<1>5. ASSUME NEW b \in Blocks, Evict(b)
     PROVE  LogTypeOK'
  BY <1>5 DEF Evict
<1>6. ASSUME WriteLog
     PROVE  LogTypeOK'
  <2>1. lh[tail + 1] \in Blocks
    BY <1>6 DEF WriteLog
  <2>2. Read(lh[tail + 1]) \in Values
    BY <2>1 DEF Read
  <2>3. \A i \in 1 .. tail : logged[i] \in Values
    BY <1>6 DEF WriteLog, Stages
  <2>4. logged' \in [1 .. tail + 1 -> Values]
    BY <1>6, <2>2, <2>3 DEF WriteLog
  <2>5. logged' \in Seq(Values)
    BY <2>4, SeqDef
  <2> QED
    BY <1>6, <2>5 DEF WriteLog
<1>7. ASSUME WriteHead \/ Erase \/ ReadHead \/ Clear
     PROVE  LogTypeOK'
  <2>1. CASE WriteHead BY <2>1 DEF WriteHead
  <2>2. CASE Erase     BY <2>2 DEF Erase
  <2>3. CASE ReadHead  BY <2>3 DEF ReadHead
  <2>4. CASE Clear     BY <2>4 DEF Clear
  <2> QED
    BY <1>7, <2>1, <2>2, <2>3, <2>4
<1>8. ASSUME Install \/ Recover
     PROVE  LogTypeOK'
  <2>1. lh[tail + 1] \in Blocks
    BY <1>8 DEF Install, Recover
  <2>2. logged[tail + 1] \in Values
    BY <1>8 DEF Install, Recover, Stages, LogOnDisk
  <2>3. CASE Install BY <2>1, <2>2, <2>3 DEF Install, InstallOne
  <2>4. CASE Recover BY <2>1, <2>2, <2>4 DEF Recover, InstallOne
  <2> QED
    BY <1>8, <2>3, <2>4
<1>9. ASSUME LogCrash
     PROVE  LogTypeOK'
  <2>1. pc' = [o \in Ops |-> "idle"] /\ holds' = [o \in Ops |-> NoBuf] /\ UNCHANGED disk
    BY <1>9 DEF LogCrash
  <2>2. \A o \in Ops : pc'[o] = "modified" => holds'[o] \in Blocks
    BY <2>1
  <2>3. /\ cache' \in [Blocks -> Values \cup {NoBuf}] /\ dirty' \in [Blocks -> BOOLEAN]
        /\ writes' \in [Ops -> Nat]
        /\ pc' \in [Ops -> {"idle", "begin", "asleep", "active", "modified", "commit"}]
        /\ holds' \in [Ops -> Blocks \cup {NoBuf}]
    BY <1>9 DEF LogCrash
  <2>4. lh' \in Seq(Blocks) /\ outstanding' = 0 /\ committing' = FALSE
        /\ stage' = "read_head" /\ tail' = 0
    BY <1>9 DEF LogCrash
  <2> QED
    BY <2>1, <2>2, <2>3, <2>4
<1>10. ASSUME UNCHANGED allvars
     PROVE  LogTypeOK'
  BY <1>10 DEF allvars
<1> QED
  BY <1>1, <1>2, <1>3, <1>4, <1>5, <1>6, <1>7, <1>8, <1>9, <1>10
     DEF LogNext, CallStep, CommitStep, RecoverStep

(* Every step counts the calls in progress. *)
LEMMA CallsStep == LogTypeOK /\ Calls /\ [LogNext]_allvars => Calls'
<1> SUFFICES ASSUME LogTypeOK, Calls, [LogNext]_allvars PROVE Calls'
  OBVIOUS
<1> USE LogAssumption DEF LogTypeOK, Calls, Running, disk, logvars, callvars
<1>0. InCall = {} <=> outstanding = 0
  BY FS_EmptySet
<1>1. ASSUME NEW o \in Ops, Start(o) \/ BeginSleep(o) \/ Killed(o)
     PROVE  Calls'
  <2>1. InCall' = InCall
    BY <1>1 DEF Start, BeginSleep, Killed, InCall
  <2>2. CASE Start(o)      BY <2>1, <2>2 DEF Start
  <2>3. CASE BeginSleep(o) BY <2>1, <2>3 DEF BeginSleep
  <2>4. CASE Killed(o)     BY <2>1, <2>4 DEF Killed
  <2> QED
    BY <1>1, <2>2, <2>3, <2>4
<1>2. ASSUME NEW o \in Ops, BeginOp(o)
     PROVE  Calls'
  <2>1. InCall' = InCall \cup {o} /\ o \notin InCall
    BY <1>2 DEF BeginOp, InCall
  <2>2. IsFiniteSet(InCall') /\ outstanding' = Cardinality(InCall')
    BY <1>2, <2>1, FS_AddElement DEF BeginOp
  <2> QED
    BY <1>2, <2>2 DEF BeginOp
<1>3. ASSUME NEW o \in Ops, NEW b \in Blocks, NEW v \in Values, Modify(o, b, v)
     PROVE  Calls'
  <2>1. InCall' = InCall
    BY <1>3 DEF Modify, InCall
  <2> QED
    BY <1>3, <2>1 DEF Modify
<1>4. ASSUME NEW o \in Ops, LogWrite(o)
     PROVE  Calls'
  <2>1. InCall' = InCall
    BY <1>4 DEF LogWrite, InCall
  <2> QED
    BY <1>4, <2>1 DEF LogWrite
<1>5. ASSUME NEW o \in Ops, EndOpOthers(o) \/ EndOpLast(o)
     PROVE  Calls'
  <2>1. InCall' = InCall \ {o} /\ o \in InCall
    BY <1>5 DEF EndOpOthers, EndOpLast, InCall, Awake
  <2>2. IsFiniteSet(InCall') /\ outstanding' = Cardinality(InCall')
    BY <1>5, <2>1, FS_RemoveElement DEF EndOpOthers, EndOpLast
  <2>3. CASE EndOpOthers(o) BY <2>2, <2>3 DEF EndOpOthers, Awake
  <2>4. CASE EndOpLast(o)   BY <2>2, <2>4 DEF EndOpLast
  <2> QED
    BY <1>5, <2>3, <2>4
<1>6. ASSUME NEW o \in Ops, CommitDone(o)
     PROVE  Calls'
  <2>1. InCall' = InCall
    BY <1>6 DEF CommitDone, InCall, Awake
  <2> QED
    BY <1>6, <2>1 DEF CommitDone, Awake
<1>7. ASSUME UNCHANGED <<pc, writes, outstanding, committing>>,
             committing /\ stage' # stage => stage' \in {"write_log", "install", "done"},
             ~committing /\ stage' # stage => stage \in {"read_head", "recover"}
                                              /\ stage' \in {"recover", "none"}
     PROVE  Calls'
  <2>1. InCall' = InCall
    BY <1>7 DEF InCall
  <2> QED
    BY <1>7, <2>1
<1>8. ASSUME WriteLog \/ WriteHead \/ Install \/ Erase \/ \E b \in Blocks : Evict(b)
     PROVE  Calls'
  BY <1>7, <1>8 DEF Evict, WriteLog, WriteHead, Install, InstallOne, Erase
<1>9. ASSUME RecoverStep
     PROVE  Calls'
  BY <1>7, <1>9 DEF RecoverStep, ReadHead, Recover, InstallOne, Clear
<1>10. ASSUME LogCrash
     PROVE  Calls'
  <2>1. InCall' = {}
    BY <1>10 DEF LogCrash, InCall
  <2> QED
    BY <1>10, <2>1, FS_EmptySet DEF LogCrash
<1>11. ASSUME UNCHANGED allvars
     PROVE  Calls'
  BY <1>7, <1>11 DEF allvars
<1> QED
  BY <1>1, <1>2, <1>3, <1>4, <1>5, <1>6, <1>8, <1>9, <1>10, <1>11
     DEF LogNext, CallStep, CommitStep

(* Calls that may write MAXOPBLOCKS blocks each, and no more than that. *)
LEMMA UnwrittenBound ==
  ASSUME NEW S, IsFiniteSet(S), NEW f,
         NEW U, U = {w \in S \X (1 .. MAXOPBLOCKS) : f[w[1]] < w[2]}
  PROVE  /\ IsFiniteSet(U) /\ Cardinality(U) \in Nat
         /\ Cardinality(U) <= Cardinality(S) * MAXOPBLOCKS
<1> DEFINE All == S \X (1 .. MAXOPBLOCKS)
<1>1. IsFiniteSet(1 .. MAXOPBLOCKS) /\ Cardinality(1 .. MAXOPBLOCKS) = MAXOPBLOCKS
  BY LogAssumption, FS_Interval
<1>2. IsFiniteSet(All) /\ Cardinality(All) = Cardinality(S) * MAXOPBLOCKS
  BY <1>1, FS_Product
<1>3. U \in SUBSET All
  OBVIOUS
<1> QED
  BY <1>2, <1>3, FS_Subset, FS_CardinalityType

(* Every step leaves room in the log for what the calls may still write. *)
LEMMA ReserveStep == LogTypeOK /\ Calls /\ SpaceReserved /\ [LogNext]_allvars => SpaceReserved'
<1> SUFFICES ASSUME LogTypeOK, Calls, SpaceReserved, [LogNext]_allvars PROVE SpaceReserved'
  OBVIOUS
<1> USE LogAssumption DEF SpaceReserved, Running, disk, logvars, callvars
<1>0. IsFiniteSet(Unwritten) /\ Cardinality(Unwritten) \in Nat
  BY UnwrittenBound DEF Unwritten, Calls
<1>1. ASSUME UNCHANGED <<pc, writes>>, Running' => Running /\ Len(lh') <= Len(lh),
             lh' \in Seq(Blocks)
     PROVE  SpaceReserved'
  <2>1. InCall' = InCall
    BY <1>1 DEF InCall
  <2>2. Unwritten' = Unwritten
    BY <1>1, <2>1 DEF Unwritten
  <2> QED
    BY <1>0, <1>1, <2>2 DEF LogTypeOK
<1>2. ASSUME InCall' \subseteq InCall, UNCHANGED <<writes, lh>>, Running' => Running
     PROVE  SpaceReserved'
  <2>1. Unwritten' \in SUBSET Unwritten
    BY <1>2 DEF Unwritten
  <2>2. Cardinality(Unwritten') <= Cardinality(Unwritten) /\ Cardinality(Unwritten') \in Nat
    BY <1>0, <2>1, FS_Subset, FS_CardinalityType
  <2> QED
    BY <1>0, <1>2, <2>2 DEF LogTypeOK
<1>3. ASSUME NEW o \in Ops, \/ Start(o) \/ BeginSleep(o) \/ Killed(o)
                            \/ EndOpOthers(o) \/ EndOpLast(o) \/ CommitDone(o)
     PROVE  SpaceReserved'
  <2>1. CASE Start(o)       BY <1>2, <2>1 DEF Start, InCall, LogTypeOK
  <2>2. CASE BeginSleep(o)  BY <1>2, <2>2 DEF BeginSleep, InCall, LogTypeOK
  <2>3. CASE Killed(o)      BY <1>2, <2>3 DEF Killed, InCall, LogTypeOK
  <2>4. CASE EndOpOthers(o)
    <3>1. InCall' \subseteq InCall
      BY <2>4 DEF EndOpOthers, Awake, InCall, LogTypeOK
    <3> QED
      BY <1>2, <2>4, <3>1 DEF EndOpOthers
  <2>5. CASE EndOpLast(o)
    <3>1. InCall' \subseteq InCall
      BY <2>5 DEF EndOpLast, InCall, LogTypeOK
    <3> QED
      BY <1>2, <2>5, <3>1 DEF EndOpLast, Calls, LogTypeOK
  <2>6. CASE CommitDone(o)  BY <1>2, <2>6 DEF CommitDone, Awake, InCall, LogTypeOK
  <2> QED
    BY <1>3, <2>1, <2>2, <2>3, <2>4, <2>5, <2>6
<1>4. ASSUME NEW o \in Ops, NEW b \in Blocks, NEW v \in Values, Modify(o, b, v)
     PROVE  SpaceReserved'
  BY <1>2, <1>4 DEF LogTypeOK, InCall, Modify
<1>5. ASSUME NEW o \in Ops, BeginOp(o)
     PROVE  SpaceReserved'
  <2>1. InCall' = InCall \cup {o} /\ o \notin InCall
    BY <1>5 DEF BeginOp, InCall, LogTypeOK
  <2>2. IsFiniteSet(InCall') /\ Cardinality(InCall') = outstanding + 1
    BY <2>1, FS_AddElement DEF Calls
  <2>3. Cardinality(Unwritten') \in Nat
        /\ Cardinality(Unwritten') <= Cardinality(InCall') * MAXOPBLOCKS
    BY <2>2, UnwrittenBound DEF Unwritten
  <2> QED
    BY <1>5, <2>2, <2>3 DEF BeginOp, HasSpace, LogTypeOK
<1>6. ASSUME NEW o \in Ops, LogWrite(o)
     PROVE  SpaceReserved'
  <2> DEFINE next == <<o, writes[o] + 1>>
  <2>1. InCall' = InCall /\ o \in InCall
    BY <1>6 DEF LogWrite, InCall, LogTypeOK
  <2>2. writes[o] < MAXOPBLOCKS /\ writes' = [writes EXCEPT ![o] = @ + 1]
    BY <1>6 DEF LogWrite, Calls
  <2>3. next \in Unwritten
    BY <2>1, <2>2 DEF Unwritten, LogTypeOK
  <2>4. Unwritten' = Unwritten \ {next}
    <3>1. \A w \in InCall \X (1 .. MAXOPBLOCKS) :
            writes'[w[1]] < w[2] <=> writes[w[1]] < w[2] /\ w # next
      BY <2>1, <2>2 DEF LogTypeOK, InCall
    <3> QED
      BY <2>1, <3>1 DEF Unwritten
  <2> HIDE DEF next
  <2>5. Cardinality(Unwritten \ {next}) = Cardinality(Unwritten) - 1
    BY <1>0, <2>3, FS_RemoveElement, ZenonT(60)
  <2>6. Len(lh') <= Len(lh) + 1 /\ Len(lh') \in Nat
    BY <1>6 DEF LogWrite, LogTypeOK
  <2>7. Running' => Running
    BY <1>6 DEF LogWrite
  <2> QED
    BY <1>0, <2>4, <2>5, <2>6, <2>7 DEF LogTypeOK
<1>7. ASSUME NEW b \in Blocks, Evict(b)
     PROVE  SpaceReserved'
  BY <1>1, <1>7 DEF Evict, LogTypeOK
<1>8. ASSUME WriteLog \/ WriteHead \/ Install \/ Erase \/ ReadHead \/ Recover
     PROVE  SpaceReserved'
  <2>1. CASE WriteLog  BY <1>1, <2>1 DEF WriteLog, LogTypeOK
  <2>2. CASE WriteHead BY <1>1, <2>2 DEF WriteHead, LogTypeOK
  <2>3. CASE Install   BY <1>1, <2>3 DEF Install, InstallOne, LogTypeOK
  <2>4. CASE Erase     BY <1>1, <2>4 DEF Erase, LogTypeOK
  <2>5. CASE ReadHead  BY <2>5 DEF ReadHead
  <2>6. CASE Recover   BY <2>6 DEF Recover
  <2> QED
    BY <1>8, <2>1, <2>2, <2>3, <2>4, <2>5, <2>6
<1>9. ASSUME Clear
     PROVE  SpaceReserved'
  <2>1. InCall' = {}
    BY <1>9 DEF Clear, Calls, InCall
  <2>2. Unwritten' = {}
    BY <2>1 DEF Unwritten
  <2> QED
    BY <1>9, <2>2, FS_EmptySet DEF Clear
<1>10. ASSUME LogCrash
     PROVE  SpaceReserved'
  BY <1>10 DEF LogCrash
<1>11. ASSUME UNCHANGED allvars
     PROVE  SpaceReserved'
  BY <1>1, <1>11 DEF allvars, LogTypeOK
<1> QED
  BY <1>3, <1>4, <1>5, <1>6, <1>7, <1>8, <1>9, <1>10, <1>11
     DEF LogNext, CallStep, CommitStep, RecoverStep

(* Every step leaves each process that sleeps in begin_op() a cause to. *)
LEMMA SleepStep ==
  LogTypeOK /\ Calls /\ Stages /\ SleepsForCause /\ [LogNext]_allvars => SleepsForCause'
<1> SUFFICES ASSUME LogTypeOK, Calls, Stages, SleepsForCause, [LogNext]_allvars
             PROVE  SleepsForCause'
  OBVIOUS
<1> USE LogAssumption
    DEF SleepsForCause, HasSpace, Running, disk, logvars, callvars
<1>1. ASSUME pc' = pc, UNCHANGED <<outstanding, committing, lh>>
     PROVE  SleepsForCause'
  BY <1>1
<1>2. ASSUME NEW o \in Ops, Start(o) \/ Killed(o)
     PROVE  SleepsForCause'
  BY <1>2 DEF Start, Killed, LogTypeOK
<1>3. ASSUME NEW o \in Ops, BeginSleep(o)
     PROVE  SleepsForCause'
  <2>1. outstanding = 0 /\ ~committing => HasSpace
    <3> SUFFICES ASSUME outstanding = 0, ~committing PROVE HasSpace
      OBVIOUS
    <3>1. stage = "none"
      BY <1>3 DEF BeginSleep, Calls, LogTypeOK
    <3>2. lh = << >>
      BY <3>1 DEF Stages
    <3> QED
      BY <3>2
  <2> QED
    BY <1>3, <2>1 DEF BeginSleep, LogTypeOK
<1>4. ASSUME NEW o \in Ops, BeginOp(o)
     PROVE  SleepsForCause'
  <2>1. outstanding * MAXOPBLOCKS \in Nat
        /\ (outstanding + 1 + 1) * MAXOPBLOCKS = (outstanding + 1) * MAXOPBLOCKS + MAXOPBLOCKS
    BY DEF LogTypeOK
  <2> QED
    BY <1>4, <2>1 DEF BeginOp, LogTypeOK
<1>5. ASSUME NEW o \in Ops, LogWrite(o)
     PROVE  SleepsForCause'
  <2>1. Len(lh') >= Len(lh) /\ Len(lh') \in Nat
    BY <1>5 DEF LogWrite, LogTypeOK
  <2>2. Len(lh) \in Nat /\ (outstanding + 1) * MAXOPBLOCKS \in Nat
    BY DEF LogTypeOK
  <2>3. ~HasSpace => ~HasSpace'
    BY <1>5, <2>1, <2>2 DEF LogWrite
  <2> QED
    BY <1>5, <2>3 DEF LogWrite, LogTypeOK
<1>6. ASSUME NEW o \in Ops, EndOpOthers(o) \/ CommitDone(o)
     PROVE  SleepsForCause'
  BY <1>6 DEF EndOpOthers, CommitDone, Awake, LogTypeOK
<1>7. ASSUME NEW o \in Ops, EndOpLast(o)
     PROVE  SleepsForCause'
  BY <1>7 DEF EndOpLast
<1>8. ASSUME NEW o \in Ops, NEW b \in Blocks, NEW v \in Values, Modify(o, b, v)
     PROVE  SleepsForCause'
  BY <1>8 DEF Modify, LogTypeOK
<1>9. ASSUME WriteLog \/ WriteHead \/ Install \/ Erase
     PROVE  SleepsForCause'
  BY <1>9 DEF WriteLog, WriteHead, Install, InstallOne, Erase, Calls
<1>10. ASSUME RecoverStep
     PROVE  SleepsForCause'
  BY <1>10 DEF RecoverStep, ReadHead, Recover, InstallOne, Clear, Calls
<1>11. ASSUME LogCrash
     PROVE  SleepsForCause'
  BY <1>11 DEF LogCrash
<1>12. ASSUME UNCHANGED allvars \/ \E b \in Blocks : Evict(b)
     PROVE  SleepsForCause'
  BY <1>1, <1>12 DEF allvars, Evict
<1> QED
  BY <1>2, <1>3, <1>4, <1>5, <1>6, <1>7, <1>8, <1>9, <1>10, <1>11, <1>12
     DEF LogNext, CallStep, CommitStep

DiskInv == Buffers /\ LogOnDisk /\ Stages

(* No call holds a buffer while the log is committed or recovered. *)
LEMMA QuietStages ==
  ASSUME LogTypeOK, Calls
  PROVE  /\ stage # "none" => \A b \in Blocks : ~Held(b)
         /\ \A o \in Ops : pc[o] \in {"active", "modified"} => stage = "none" /\ outstanding > 0
         /\ \A o \in Ops : pc[o] = "active" /\ outstanding = 1 => \A b \in Blocks : ~Held(b)
<1>1. InCall = {} <=> outstanding = 0
  BY FS_EmptySet DEF Calls
<1>2. ASSUME NEW o \in Ops, pc[o] \in {"active", "modified"}
      PROVE  stage = "none" /\ outstanding > 0
  BY <1>1, <1>2 DEF InCall, Calls, Running, LogTypeOK
<1>3. ASSUME NEW o \in Ops, pc[o] = "active", outstanding = 1, NEW b \in Blocks
      PROVE  ~Held(b)
  <2>1. PICK x : InCall = {x}
    BY <1>3, FS_Singleton DEF Calls
  <2> QED
    BY <1>3, <2>1 DEF InCall, Held
<1> QED
  BY <1>2, <1>3 DEF Held

(* Every step relates disk, log and buffers as the stage requires. *)
LEMMA DiskStep == LogTypeOK /\ Calls /\ DiskInv /\ [LogNext]_allvars => DiskInv'
<1> SUFFICES ASSUME LogTypeOK, Calls, DiskInv, [LogNext]_allvars PROVE DiskInv'
  OBVIOUS
<1>0. /\ stage # "none" => \A b \in Blocks : ~Held(b)
      /\ \A o \in Ops : pc[o] \in {"active", "modified"} => stage = "none" /\ outstanding > 0
      /\ \A o \in Ops : pc[o] = "active" /\ outstanding = 1 => \A b \in Blocks : ~Held(b)
  BY QuietStages
<1> USE LogAssumption DEF DiskInv, disk, logvars, callvars
<1>1. ASSUME UNCHANGED <<disk, cache, dirty, lh, stage, tail>>,
             \A b \in Blocks : Held(b)' <=> Held(b),
             outstanding' = 0 => outstanding = 0
      PROVE  DiskInv'
  BY <1>1 DEF Buffers, LogOnDisk, Distinct, Stages, DirtyFrom, InPlace
<1>2. ASSUME NEW o \in Ops, Start(o) \/ BeginOp(o) \/ BeginSleep(o) \/ Killed(o) \/ EndOpOthers(o)
      PROVE  DiskInv'
  <2>1. holds' = holds /\ \A q \in Ops : pc'[q] = "modified" <=> pc[q] = "modified"
    <3>1. CASE Start(o)       BY <3>1 DEF Start, LogTypeOK
    <3>2. CASE BeginOp(o)     BY <3>2 DEF BeginOp, LogTypeOK
    <3>3. CASE BeginSleep(o)  BY <3>3 DEF BeginSleep, LogTypeOK
    <3>4. CASE Killed(o)      BY <3>4 DEF Killed, LogTypeOK
    <3>5. CASE EndOpOthers(o) BY <3>5 DEF EndOpOthers, Awake, LogTypeOK
    <3> QED
      BY <1>2, <3>1, <3>2, <3>3, <3>4, <3>5
  <2>2. \A b \in Blocks : Held(b)' <=> Held(b)
    BY <2>1 DEF Held
  <2> QED
    BY <1>1, <1>2, <2>2 DEF Start, BeginOp, BeginSleep, Killed, EndOpOthers, LogTypeOK
<1>3. ASSUME NEW o \in Ops, NEW b \in Blocks, NEW v \in Values, Modify(o, b, v)
      PROVE  DiskInv'
  <2>1. stage = "none" /\ outstanding > 0
    BY <1>0, <1>3 DEF Modify
  <2>2. \A c \in Blocks : Held(c)' <=> Held(c) \/ c = b
    BY <1>3 DEF Modify, Held, LogTypeOK
  <2>3. Buffers'
    BY <1>3, <2>2 DEF Modify, Buffers, LogTypeOK
  <2>4. Stages' /\ LogOnDisk'
    BY <1>3, <2>1 DEF Modify, Stages, LogOnDisk, Distinct, DirtyFrom
  <2> QED
    BY <2>3, <2>4
<1>4. ASSUME NEW o \in Ops, LogWrite(o)
      PROVE  DiskInv'
  <2> DEFINE h == holds[o]
  <2>1. stage = "none" /\ outstanding > 0 /\ h \in Blocks /\ Held(h)
    BY <1>0, <1>4 DEF LogWrite, LogTypeOK, Held
  <2>2. \A c \in Blocks : c # h => (Held(c)' <=> Held(c))
    BY <1>4 DEF LogWrite, Held, LogTypeOK
  <2>3. /\ dirty' = [dirty EXCEPT ![h] = TRUE] /\ cache' = cache /\ home' = home
        /\ header' = header /\ logged' = logged /\ stage' = stage /\ outstanding' = outstanding
    BY <1>4 DEF LogWrite
  <2>4. /\ lh' \in Seq(Blocks) /\ DOMAIN lh \subseteq DOMAIN lh'
        /\ \A i \in DOMAIN lh : lh'[i] = lh[i]
        /\ \E i \in DOMAIN lh' : lh'[i] = h
        /\ \A i \in DOMAIN lh' : i \in DOMAIN lh \/ (lh'[i] = h /\ \A j \in DOMAIN lh : lh[j] # h)
        /\ \A i, j \in DOMAIN lh' : i \notin DOMAIN lh /\ j \notin DOMAIN lh => i = j
    <3>1. CASE \E i \in DOMAIN lh : lh[i] = h
      <4>1. lh' = lh
        BY <1>4, <3>1 DEF LogWrite
      <4>2. lh \in Seq(Blocks)
        BY DEF LogTypeOK
      <4> QED
        BY <3>1, <4>1, <4>2
    <3>2. CASE ~\E i \in DOMAIN lh : lh[i] = h
      <4>1. lh' = Append(lh, h)
        BY <1>4, <3>2 DEF LogWrite
      <4>2. /\ lh' \in Seq(Blocks) /\ DOMAIN lh = 1 .. Len(lh) /\ DOMAIN lh' = 1 .. Len(lh) + 1
            /\ \A i \in 1 .. Len(lh) : lh'[i] = lh[i]
            /\ lh'[Len(lh) + 1] = h /\ Len(lh) \in Nat
        BY <2>1, <4>1, AppendProperties, LenProperties DEF LogTypeOK
      <4> QED
        BY <3>2, <4>2
    <3> QED
      BY <3>1, <3>2
  <2>5. Buffers'
    BY <2>1, <2>2, <2>3, <2>4 DEF Buffers, LogTypeOK
  <2>6. LogOnDisk'
    BY <2>3, <2>4 DEF LogOnDisk, Distinct
  <2>7. DirtyFrom(0)'
    BY <2>1, <2>3, <2>4 DEF DirtyFrom, Stages, LogTypeOK
  <2>8. Stages'
    BY <2>1, <2>3, <2>7 DEF Stages
  <2> QED
    BY <2>5, <2>6, <2>8
<1>5. ASSUME NEW o \in Ops, EndOpLast(o)
      PROVE  DiskInv'
  <2>1. stage = "none" /\ \A b \in Blocks : ~Held(b)
    BY <1>0, <1>5 DEF EndOpLast
  <2>2. \A b \in Blocks : ~Held(b)'
    BY <1>5, <2>1 DEF EndOpLast, Held, LogTypeOK
  <2>3. Buffers' /\ LogOnDisk'
    BY <1>5, <2>1, <2>2 DEF EndOpLast, Buffers, LogOnDisk, Distinct
  <2>4. Stages'
    BY <1>5, <2>1 DEF EndOpLast, Stages, DirtyFrom, LogTypeOK
  <2> QED
    BY <2>3, <2>4
<1>6. ASSUME NEW b \in Blocks, Evict(b)
      PROVE  DiskInv'
  <2>1. \A c \in Blocks : Held(c)' <=> Held(c)
    BY <1>6 DEF Evict, Held
  <2>2. ~Held(b)
    BY <1>6 DEF Evict, Held
  <2>3. Buffers' /\ LogOnDisk'
    BY <1>6, <2>1, <2>2 DEF Evict, Buffers, LogOnDisk, Distinct, LogTypeOK
  <2>4. \A i \in DOMAIN lh : lh[i] \in Blocks
    BY DEF LogTypeOK
  <2>5. Stages'
    BY <1>6, <2>4 DEF Evict, Stages, DirtyFrom, InPlace, LogTypeOK
  <2> QED
    BY <2>3, <2>5
<1>7. ASSUME WriteLog
      PROVE  DiskInv'
  <2>1. Buffers' /\ LogOnDisk'
    BY <1>7 DEF WriteLog, Buffers, LogOnDisk, Distinct, Stages, Held
  <2>2. lh[tail + 1] \in Blocks /\ tail + 1 \in DOMAIN lh
    BY <1>7 DEF WriteLog, LogTypeOK
  <2>3. Read(lh[tail + 1]) = cache[lh[tail + 1]]
    BY <1>7, <2>2 DEF WriteLog, Stages, DirtyFrom, Buffers, Read, LogTypeOK
  <2>4. Len(logged') = tail + 1
    <3>1. logged' \in Seq(Values)
      BY <1>7, TypeStep DEF LogTypeOK
    <3> QED
      BY <1>7, <3>1 DEF WriteLog, LogTypeOK
  <2>5. \A i \in 1 .. tail + 1 : cache[lh[i]] = logged'[i]
    BY <1>7, <2>3 DEF WriteLog, Stages, LogTypeOK
  <2>6. Stages'
    BY <1>7, <2>4, <2>5 DEF WriteLog, Stages, DirtyFrom, LogTypeOK
  <2> QED
    BY <2>1, <2>6
<1>8. ASSUME WriteHead
      PROVE  DiskInv'
  <2>1. Buffers'
    BY <1>8 DEF WriteHead, Buffers, Held
  <2>2. LogOnDisk'
    BY <1>8 DEF WriteHead, LogOnDisk, Distinct, Stages, LogTypeOK
  <2>3. Stages'
    BY <1>8 DEF WriteHead, Stages, DirtyFrom, InPlace, LogTypeOK
  <2> QED
    BY <2>1, <2>2, <2>3
<1>9. ASSUME Install \/ Recover
      PROVE  DiskInv'
  <2> DEFINE b == lh[tail + 1]
             v == logged[tail + 1]
  <2>1. /\ tail < Len(lh) /\ InstallOne(b, v)
        /\ UNCHANGED <<logged, header, lh, outstanding, pc, holds, stage>>
        /\ stage \in {"install", "recover"}
    BY <1>9 DEF Install, Recover
  <2>2. /\ tail + 1 \in DOMAIN lh /\ b \in Blocks
        /\ \A i \in DOMAIN lh : lh[i] \in Blocks /\ (lh[i] = b => i = tail + 1)
    BY <2>1 DEF LogTypeOK, LogOnDisk, Distinct
  <2>3. v \in Values
    BY <2>1, <2>2 DEF Stages, LogOnDisk, LogTypeOK
  <2>4. /\ home' = [home EXCEPT ![b] = v] /\ cache' = [cache EXCEPT ![b] = v]
        /\ dirty' = [dirty EXCEPT ![b] = FALSE] /\ tail' = tail + 1
    BY <2>1 DEF InstallOne
  <2>5. \A c \in Blocks : ~Held(c) /\ ~Held(c)'
    BY <1>0, <2>1 DEF Held
  <2>6. Buffers'
    BY <2>1, <2>2, <2>3, <2>4, <2>5 DEF Buffers, LogTypeOK
  <2>7. LogOnDisk'
    BY <2>1 DEF LogOnDisk, Distinct
  <2>8. InPlace(tail)
    BY <2>1 DEF Stages
  <2>9. \A i \in DOMAIN lh : i <= tail + 1 => home'[lh[i]] = logged[i]
    <3> SUFFICES ASSUME NEW i \in DOMAIN lh, i <= tail + 1 PROVE home'[lh[i]] = logged[i]
      OBVIOUS
    <3>1. CASE i = tail + 1
      BY <2>2, <2>4, <3>1 DEF LogTypeOK
    <3>2. CASE i # tail + 1
      <4>1. i <= tail /\ lh[i] # b /\ lh[i] \in Blocks
        BY <2>2, <3>2 DEF LogTypeOK
      <4> QED
        BY <2>4, <2>8, <4>1 DEF InPlace, LogTypeOK
    <3> QED
      BY <3>1, <3>2
  <2>10. CASE stage = "install"
    <3>1. \A i \in DOMAIN lh : i > tail + 1 <=> dirty'[lh[i]]
      <4> SUFFICES ASSUME NEW i \in DOMAIN lh PROVE i > tail + 1 <=> dirty'[lh[i]]
        OBVIOUS
      <4>1. lh[i] \in Blocks /\ (i > tail <=> dirty[lh[i]])
        BY <2>2, <2>10 DEF Stages, DirtyFrom
      <4> QED
        BY <2>2, <2>4, <4>1 DEF LogTypeOK
    <3>2. \A i \in DOMAIN lh : i > tail + 1 => cache'[lh[i]] = logged[i]
      BY <2>1, <2>2, <2>4, <2>10 DEF Stages, LogTypeOK
    <3> QED
      BY <2>1, <2>4, <2>6, <2>7, <2>9, <2>10, <3>1, <3>2 DEF Stages, DirtyFrom, InPlace, LogTypeOK
  <2>11. CASE stage = "recover"
    <3>1. \A i \in DOMAIN lh : i > tail + 1 => cache'[lh[i]] = NoBuf
      BY <2>1, <2>2, <2>4, <2>11 DEF Stages, LogTypeOK
    <3>2. \A c \in Blocks : ~dirty'[c]
      BY <2>2, <2>4, <2>11 DEF Stages, LogTypeOK
    <3> QED
      BY <2>1, <2>4, <2>6, <2>7, <2>9, <2>11, <3>1, <3>2 DEF Stages, InPlace, LogTypeOK
  <2> QED
    BY <2>1, <2>10, <2>11
<1>10. ASSUME Erase
      PROVE  DiskInv'
  <2>1. \A b \in Blocks : ~dirty[b]
    BY <1>10 DEF Erase, Stages, DirtyFrom, Buffers, LogTypeOK
  <2>2. Buffers'
    BY <1>10, <2>1 DEF Erase, Buffers, Held
  <2> QED
    BY <1>10, <2>2 DEF Erase, LogOnDisk, Distinct, Stages
<1>11. ASSUME NEW o \in Ops, CommitDone(o)
      PROVE  DiskInv'
  <2>1. \A b \in Blocks : ~Held(b)
    BY <1>0, <1>11 DEF CommitDone
  <2>2. \A b \in Blocks : ~Held(b)'
    BY <1>11, <2>1 DEF CommitDone, Awake, Held, LogTypeOK
  <2>3. Buffers' /\ LogOnDisk'
    BY <1>11, <2>1, <2>2 DEF CommitDone, Buffers, LogOnDisk, Distinct
  <2>4. Stages'
    BY <1>11 DEF CommitDone, Stages, DirtyFrom
  <2> QED
    BY <2>3, <2>4
<1>12. ASSUME ReadHead
      PROVE  DiskInv'
  <2>1. \A b \in Blocks : ~dirty[b]
    BY <1>12 DEF ReadHead, Stages, Buffers
  <2>2. Buffers' /\ LogOnDisk'
    BY <1>12, <2>1 DEF ReadHead, Buffers, LogOnDisk, Distinct, Held
  <2>3. Stages'
    BY <1>12, <2>1 DEF ReadHead, Stages, InPlace, LogTypeOK
  <2> QED
    BY <2>2, <2>3
<1>13. ASSUME Clear
      PROVE  DiskInv'
  <2>1. Buffers'
    BY <1>13 DEF Clear, Stages, Buffers, Held
  <2> QED
    BY <1>13, <2>1 DEF Clear, LogOnDisk, Distinct, Stages, DirtyFrom
<1>14. ASSUME LogCrash
      PROVE  DiskInv'
  <2>1. \A b \in Blocks : ~Held(b)'
    BY <1>14 DEF LogCrash, Held
  <2>2. Buffers' /\ Stages'
    BY <1>14, <2>1 DEF LogCrash, Buffers, Stages
  <2> QED
    BY <1>14, <2>2 DEF LogCrash, LogOnDisk, Distinct
<1>15. ASSUME UNCHANGED allvars
      PROVE  DiskInv'
  BY <1>1, <1>15 DEF allvars, Held
<1> QED
  BY <1>2, <1>3, <1>4, <1>5, <1>6, <1>7, <1>8, <1>9, <1>10, <1>11, <1>12, <1>13, <1>14, <1>15
     DEF LogNext, CallStep, CommitStep, RecoverStep

LEMMA LogInvariant == LogSpec => []LogInductive
<1> USE LogAssumption DEF LogInductive, DiskInv
<1>1. LogInit => LogInductive
  <2> SUFFICES ASSUME LogInit PROVE LogInductive
    OBVIOUS
  <2>0. /\ cache \in [Blocks -> Values \cup {NoBuf}] /\ dirty \in [Blocks -> BOOLEAN]
        /\ writes \in [Ops -> Nat] /\ holds \in [Ops -> Blocks \cup {NoBuf}]
        /\ pc \in [Ops -> {"idle", "begin", "asleep", "active", "modified", "commit"}]
        /\ logged \in Seq(Values) /\ header \in Seq(Blocks) /\ lh \in Seq(Blocks)
    BY DEF LogInit
  <2>1. LogTypeOK
    BY <2>0 DEF LogInit, LogTypeOK
  <2>2. InCall = {}
    BY DEF LogInit, InCall
  <2>3. Calls
    BY <2>2, FS_EmptySet DEF LogInit, Calls, Running
  <2>4. SpaceReserved /\ SleepsForCause
    BY DEF LogInit, SpaceReserved, Running, SleepsForCause
  <2>5. DiskInv
    BY DEF LogInit, Buffers, Held, LogOnDisk, Distinct, Stages
  <2> QED
    BY <2>1, <2>3, <2>4, <2>5
<1>2. LogInductive /\ [LogNext]_allvars => LogInductive'
  BY TypeStep, CallsStep, ReserveStep, SleepStep, DiskStep
<1> QED
  BY <1>1, <1>2, PTL DEF LogSpec

-----------------------------------------------------------------------------
(* A process that sleeps in begin_op() has a commit to wait for, or a call *)
(* that will make room: no wakeup(&log) of end_op() is missed, for every   *)
(* number of calls and every log that has room for one of them.            *)
THEOREM SleepersHaveCause == LogSpec => []SleepsForCause
  BY LogInvariant, PTL DEF LogInductive

(* The log never holds so much that a call in progress could not make the *)
(* log_write()s that begin_op() let it in for, whatever the calls, the     *)
(* blocks they have in common and the size of the log.                     *)
THEOREM RoomReserved == LogSpec => []SpaceReserved
  BY LogInvariant, PTL DEF LogInductive

(* Where the header stands, Durable reads the log, and elsewhere the disk. *)
LEMMA DurableBlocks ==
  ASSUME Distinct(header), NEW b \in Blocks
  PROVE  /\ \A i \in DOMAIN header : header[i] = b => Durable(b) = logged[i]
         /\ (\A i \in DOMAIN header : header[i] # b) => Durable(b) = home[b]
<1>1. ASSUME NEW i \in DOMAIN header, header[i] = b
      PROVE  Durable(b) = logged[i]
  <2>1. (CHOOSE j \in DOMAIN header : header[j] = b) = i
    BY <1>1 DEF Distinct
  <2> QED
    BY <1>1, <2>1 DEF Durable
<1> QED
  BY <1>1 DEF Durable

(* Once the last end_op() has returned, all that the calls wrote would     *)
(* survive a crash, whatever the calls and the buffers that were recycled. *)
THEOREM QuietIsDurable == LogSpec => []DurableWhenQuiet
<1>1. LogInductive => DurableWhenQuiet
  <2> SUFFICES ASSUME LogInductive, Running, outstanding = 0, ~committing, NEW b \in Blocks
               PROVE  Durable(b) = Read(b)
    BY DEF DurableWhenQuiet
  <2> USE DEF LogInductive
  <2>1. stage = "none" /\ InCall = {}
    BY FS_EmptySet DEF Calls, Running, LogTypeOK
  <2>2. header = << >> /\ lh = << >>
    BY <2>1 DEF Stages
  <2>3. ~Held(b) /\ ~dirty[b]
    BY <2>1, <2>2 DEF Held, InCall, Buffers
  <2> QED
    BY <2>2, <2>3, DurableBlocks DEF Buffers, LogOnDisk, Read
<1> QED
  BY <1>1, LogInvariant, PTL

-----------------------------------------------------------------------------
(* The refinement of AtomicDisk: what a crash would leave is what it left  *)
(* before every step but the write of the header, and that step leaves     *)
(* what the calls see.                                                     *)
SameDisk == \A b \in Blocks : Durable(b)' = Durable(b)
SameMem  == \A b \in Blocks : Current(b)' = Current(b)

(* A buffer that may be recycled holds what is durable.                    *)
LEMMA CleanIsDurable ==
  ASSUME LogInductive, NEW b \in Blocks, ~dirty[b], ~Held(b), cache[b] # NoBuf
  PROVE  Durable(b) = cache[b]
<1> USE DEF LogInductive, DiskInv
<1>1. cache[b] = home[b] /\ Distinct(header)
  BY DEF Buffers, LogOnDisk
<1>2. CASE header = << >>
  BY <1>1, <1>2, DurableBlocks
<1>3. CASE header # << >>
  <2>1. stage \in {"install", "recover"} /\ header = lh
    BY <1>3 DEF Stages, LogTypeOK
  <2>2. \A i \in DOMAIN lh : lh[i] = b => home[b] = logged[i]
    BY <2>1 DEF Stages, DirtyFrom, InPlace, LogTypeOK
  <2> QED
    BY <1>1, <2>1, <2>2, DurableBlocks
<1> QED
  BY <1>2, <1>3

LEMMA DiskRefines == LogInductive /\ [LogNext]_allvars => [Disk!DiskNext]_(Disk!diskvars)
<1> SUFFICES ASSUME LogInductive, [LogNext]_allvars PROVE [Disk!DiskNext]_(Disk!diskvars)
  OBVIOUS
<1> USE DEF LogInductive, DiskInv, disk, logvars, callvars
<1>1. ASSUME UNCHANGED <<disk, cache>>
      PROVE  SameDisk /\ SameMem
  BY <1>1 DEF SameDisk, SameMem, Durable, Current
<1>2. ASSUME SameDisk, SameMem, InCall' = InCall
      PROVE  UNCHANGED Disk!diskvars
  BY <1>2 DEF SameDisk, SameMem, Disk!diskvars
<1>3. ASSUME NEW o \in Ops, Start(o) \/ BeginSleep(o) \/ Killed(o) \/ LogWrite(o) \/ CommitDone(o)
      PROVE  UNCHANGED Disk!diskvars
  <2>1. InCall' = InCall
    <3>1. CASE Start(o)      BY <3>1 DEF Start, InCall, LogTypeOK
    <3>2. CASE BeginSleep(o) BY <3>2 DEF BeginSleep, InCall, LogTypeOK
    <3>3. CASE Killed(o)     BY <3>3 DEF Killed, InCall, LogTypeOK
    <3>4. CASE LogWrite(o)   BY <3>4 DEF LogWrite, InCall, LogTypeOK
    <3>5. CASE CommitDone(o) BY <3>5 DEF CommitDone, Awake, InCall, LogTypeOK
    <3> QED
      BY <1>3, <3>1, <3>2, <3>3, <3>4, <3>5
  <2>2. UNCHANGED <<disk, cache>>
    BY <1>3 DEF Start, BeginSleep, Killed, LogWrite, CommitDone
  <2> QED
    BY <1>1, <1>2, <2>1, <2>2
<1>4. ASSUME NEW o \in Ops, BeginOp(o)
      PROVE  Disk!Enter(o)
  <2>1. o \notin InCall /\ InCall' = InCall \cup {o}
    BY <1>4 DEF BeginOp, InCall, LogTypeOK
  <2> QED
    BY <1>1, <1>4, <2>1 DEF BeginOp, SameDisk, SameMem, Disk!Enter
<1>5. ASSUME NEW o \in Ops, EndOpOthers(o) \/ EndOpLast(o)
      PROVE  Disk!Leave(o)
  <2>1. o \in InCall /\ InCall' = InCall \ {o}
    BY <1>5 DEF EndOpOthers, EndOpLast, Awake, InCall, LogTypeOK
  <2>2. UNCHANGED <<disk, cache>>
    BY <1>5 DEF EndOpOthers, EndOpLast
  <2> QED
    BY <1>1, <2>1, <2>2 DEF SameDisk, SameMem, Disk!Leave
<1>6. ASSUME NEW o \in Ops, NEW b \in Blocks, NEW v \in Values, Modify(o, b, v)
      PROVE  Disk!Write(o, b, v)
  <2>1. o \in InCall /\ InCall' = InCall
    BY <1>6 DEF Modify, InCall, LogTypeOK
  <2>2. SameDisk
    BY <1>6 DEF Modify, SameDisk, Durable
  <2>3. \A c \in Blocks : Current(c)' = IF c = b THEN v ELSE Current(c)
    BY <1>6, <2>2, LogAssumption DEF Modify, SameDisk, Current, LogTypeOK
  <2> QED
    BY <2>1, <2>2, <2>3 DEF SameDisk, Disk!Write
<1>7. ASSUME NEW b \in Blocks, Evict(b)
      PROVE  UNCHANGED Disk!diskvars
  <2>1. SameDisk
    BY <1>7 DEF Evict, SameDisk, Durable
  <2>2. Durable(b) = cache[b]
    BY <1>7, CleanIsDurable DEF Evict, Held
  <2>3. SameMem
    BY <1>7, <2>1, <2>2 DEF Evict, SameDisk, SameMem, Current, LogTypeOK
  <2>4. InCall' = InCall
    BY <1>7 DEF Evict, InCall
  <2> QED
    BY <1>2, <2>1, <2>3, <2>4
<1>8. ASSUME WriteLog
      PROVE  UNCHANGED Disk!diskvars
  <2>1. header = << >> /\ header' = << >> /\ UNCHANGED <<home, cache>> /\ InCall' = InCall
    BY <1>8 DEF WriteLog, Stages, InCall
  <2>2. SameDisk
    BY <2>1 DEF SameDisk, Durable
  <2>3. SameMem
    BY <2>1, <2>2 DEF SameDisk, SameMem, Current
  <2> QED
    BY <1>2, <2>1, <2>2, <2>3
<1>9. ASSUME WriteHead
      PROVE  Disk!Commit
  <2>1. /\ header = << >> /\ header' = lh /\ UNCHANGED <<home, logged, cache>>
        /\ InCall' = InCall /\ InCall = {}
    BY <1>9, FS_EmptySet DEF WriteHead, Stages, Calls, InCall
  <2>2. \A b \in Blocks : Durable(b)' = Current(b)
    <3> SUFFICES ASSUME NEW b \in Blocks PROVE Durable(b)' = Current(b)
      OBVIOUS
    <3>1. Durable(b) = home[b]
      BY <2>1, DurableBlocks DEF Distinct
    <3>2. CASE \E i \in DOMAIN lh : lh[i] = b
      <4>1. PICK i \in DOMAIN lh : lh[i] = b
        BY <3>2
      <4>2. cache[b] = logged[i] /\ dirty[b]
        BY <1>9, <4>1 DEF WriteHead, Stages, DirtyFrom, LogTypeOK
      <4>3. Durable(b)' = logged[i]
        <5>1. (CHOOSE j \in DOMAIN lh : lh[j] = b) = i
          BY <4>1 DEF LogOnDisk, Distinct
        <5> QED
          BY <2>1, <3>2, <5>1 DEF Durable
      <4> QED
        BY <4>2, <4>3 DEF Current, Buffers
    <3>3. CASE ~\E i \in DOMAIN lh : lh[i] = b
      <4>1. ~dirty[b] /\ ~Held(b)
        BY <2>1, <3>3 DEF Buffers, Held, InCall
      <4>2. Durable(b)' = home[b]
        BY <2>1, <3>3 DEF Durable
      <4> QED
        BY <3>1, <4>1, <4>2 DEF Current, Buffers
    <3> QED
      BY <3>2, <3>3
  <2>3. SameMem
    BY <2>1, <2>2 DEF SameMem, Current
  <2> QED
    BY <2>1, <2>2, <2>3 DEF SameMem, Disk!Commit
<1>10. ASSUME Install \/ Recover
      PROVE  UNCHANGED Disk!diskvars
  <2> DEFINE b == lh[tail + 1]
             v == logged[tail + 1]
  <2>1. /\ home' = [home EXCEPT ![b] = v] /\ cache' = [cache EXCEPT ![b] = v]
        /\ UNCHANGED <<logged, header, pc>>
        /\ stage \in {"install", "recover"} /\ tail < Len(lh)
    BY <1>10 DEF Install, Recover, InstallOne
  <2>2. header = lh /\ tail + 1 \in DOMAIN header /\ b \in Blocks
    BY <2>1 DEF Stages, LogTypeOK
  <2>3. v \in Values /\ Durable(b) = v
    BY <2>1, <2>2, DurableBlocks DEF LogOnDisk, LogTypeOK
  <2>4. SameDisk
    BY <2>1, <2>2 DEF SameDisk, Durable, LogTypeOK
  <2>5. cache[b] = v \/ cache[b] = NoBuf
    BY <2>1, <2>2 DEF Stages, LogTypeOK
  <2>6. SameMem
    BY <2>1, <2>2, <2>3, <2>4, <2>5, LogAssumption DEF SameDisk, SameMem, Current, LogTypeOK
  <2>7. InCall' = InCall
    BY <2>1 DEF InCall
  <2> QED
    BY <1>2, <2>4, <2>6, <2>7
<1>11. ASSUME Erase \/ Clear
      PROVE  UNCHANGED Disk!diskvars
  <2>1. /\ header' = << >> /\ UNCHANGED <<home, cache, pc>>
        /\ header = lh /\ InPlace(Len(lh))
    BY <1>11 DEF Erase, Clear, Stages
  <2>2. SameDisk
    <3> SUFFICES ASSUME NEW b \in Blocks PROVE Durable(b)' = Durable(b)
      BY DEF SameDisk
    <3>1. Durable(b)' = home[b]
      BY <2>1 DEF Durable
    <3>2. \A i \in DOMAIN header : home[header[i]] = logged[i]
      BY <2>1 DEF InPlace, LogTypeOK
    <3>3. Durable(b) = home[b]
      BY <3>2, DurableBlocks DEF LogOnDisk
    <3> QED
      BY <3>1, <3>3
  <2>3. SameMem /\ InCall' = InCall
    BY <2>1, <2>2 DEF SameDisk, SameMem, Current, InCall
  <2> QED
    BY <1>2, <2>2, <2>3
<1>12. ASSUME ReadHead
      PROVE  UNCHANGED Disk!diskvars
  BY <1>1, <1>2, <1>12 DEF ReadHead, InCall
<1>13. ASSUME LogCrash
      PROVE  Disk!Crash
  <2>1. SameDisk
    BY <1>13 DEF LogCrash, SameDisk, Durable
  <2>2. \A b \in Blocks : Current(b)' = Durable(b)
    BY <1>13, <2>1 DEF LogCrash, SameDisk, Current
  <2>3. InCall' = {}
    BY <1>13 DEF LogCrash, InCall
  <2> QED
    BY <2>1, <2>2, <2>3 DEF SameDisk, Disk!Crash
<1>14. ASSUME UNCHANGED allvars
      PROVE  UNCHANGED Disk!diskvars
  BY <1>1, <1>2, <1>14 DEF allvars, InCall
<1> QED
  BY <1>3, <1>4, <1>5, <1>6, <1>7, <1>8, <1>9, <1>10, <1>11, <1>12, <1>13, <1>14
     DEF LogNext, CallStep, CommitStep, RecoverStep, Disk!DiskNext

(* The log implements a disk on which each call happens as a whole or not  *)
(* at all, whenever the machine stops: between two writes of a commit, or  *)
(* of the recovery from an earlier stop.                                   *)
THEOREM CallsAtomic == LogSpec => CrashAtomic
<1>1. LogInit => Disk!DiskInit
  <2> SUFFICES ASSUME LogInit PROVE Disk!DiskInit
    OBVIOUS
  <2>1. \A b \in Blocks : Durable(b) = home[b] /\ Current(b) = home[b]
    BY DEF LogInit, Durable, Current
  <2>2. InCall = {} /\ home \in [Blocks -> Values]
    BY DEF LogInit, InCall
  <2> QED
    BY <2>1, <2>2 DEF Disk!DiskInit
<1>2. LogInductive /\ [LogNext]_allvars => [Disk!DiskNext]_(Disk!diskvars)
  BY DiskRefines
<1> QED
  BY <1>1, <1>2, LogInvariant, PTL DEF LogSpec, CrashAtomic, Disk!DiskSpec
=============================================================================
