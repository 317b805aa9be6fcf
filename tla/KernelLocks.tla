---------------------------- MODULE KernelLocks ----------------------------
(***************************************************************************)
(* The spin locks of the kernel (spinlock.c), the order in which its code  *)
(* paths take them, and the interrupts that acquire() keeps off.           *)
(*                                                                         *)
(* A code path is the sequence of what it does to locks; the rest is left  *)
(* out, and so is what a process sleeps for: a process that has left its   *)
(* CPU may be run again at any time.  What system calls and interrupts     *)
(* have in common is written once: SleepLocks are the locks under which a  *)
(* process sleeps or wakes others and takes no other lock (log.lock, a     *)
(* pipe's lock, the lk of a sleep lock), PlainLocks are those under which  *)
(* nothing is taken (kmem.lock, bcache.lock, icache.lock, ftable.lock).    *)
(***************************************************************************)
EXTENDS Integers, Sequences, FiniteSets

CONSTANTS
  CPUS, CPU0, LastCPU,  \* keyboard and clock interrupt CPU0, the disk LastCPU
  Threads,              \* processes in the kernel
  SleepLocks, PlainLocks,
  Nobody,
  MaxTraps              \* bound on the system calls and interrupts under way

Named == {"ptable", "cons", "ticks", "ide", "kmem"}
Locks == Named \cup SleepLocks \cup PlainLocks

ASSUME LocksAssumption ==
  /\ CPU0 \in CPUS /\ LastCPU \in CPUS
  /\ CPUS \cap Threads = {} /\ Nobody \notin CPUS \cup Threads
  /\ Named \cap SleepLocks = {} /\ PlainLocks \cap (Named \cup SleepLocks) = {}
  /\ MaxTraps \in Nat

-----------------------------------------------------------------------------
(* Code paths *)

Acq(l) == <<"acquire", l>>
Rel(l) == <<"release", l>>
Sti    == <<"sti">>
Choose == <<"choose">>  \* scheduler() looks for a process to run
Sched  == <<"sched">>
Gone   == <<"gone">>    \* sched() of a process that has exited

Alone(l) == <<Acq(l), Rel(l)>>
Wakeup   == Alone("ptable")

SleepUnder(l) == <<Acq("ptable"), Rel(l), Sched, Rel("ptable"), Acq(l)>>

Cprintf == Alone("cons")

Waking(l)   == <<Acq(l)>> \o Wakeup \o <<Rel(l)>>
Sleeping(l) == <<Acq(l)>> \o SleepUnder(l) \o <<Rel(l)>>

Ps    == <<Acq("ptable")>> \o Cprintf \o <<Rel("ptable")>>
Yield == <<Acq("ptable"), Sched, Rel("ptable")>>
Reap  == <<Acq("ptable")>> \o Alone("kmem") \o <<Rel("ptable")>>
Exit  == <<Acq("ptable"), Gone>>

(* fork(), kill(), chpr() and the rest hold ptable.lock alone; wait()      *)
(* sleeps under it; cprintf(), consolewrite() and uptime() take one lock;  *)
(* pipewrite() wakes readers and sleeps in one section.                    *)
SystemCalls ==
  {Ps, Yield, Reap, Exit} \cup
  {Alone(l) : l \in Locks} \cup
  {Sleeping(l) : l \in {"cons", "ticks", "ide"} \cup SleepLocks} \cup
  {Waking(l) : l \in SleepLocks} \cup
  {<<Acq(l)>> \o Wakeup \o SleepUnder(l) \o <<Rel(l)>> : l \in SleepLocks}

(* trap() counts the tick, with updateprocesstimes() and wakeup(&ticks).   *)
Clock == <<Acq("ticks")>> \o Wakeup \o Wakeup \o <<Rel("ticks")>>

(* Mutant: procdump() is called where ^P is read. *)
ConsoleIntrDumps ==
  {<<Acq("cons")>> \o Cprintf \o <<Rel("cons")>>, Waking("cons"), Alone("cons")}

(* consoleintr(), with procdump() after ^P, or without a whole line. *)
ConsoleIntr == {Waking("cons"), Waking("cons") \o Cprintf, Alone("cons")}

IdeIntr == {Waking("ide"), Alone("ide")}

(* What a trap does on c: a clock interrupt makes a process yield once its *)
(* quantum is over, and any CPU has spurious interrupts.                   *)
Handlers(c, inprocess) ==
  LET tick == IF c = CPU0 THEN Clock ELSE << >>
  IN  {tick, Cprintf} \cup (IF inprocess THEN {tick \o Yield} ELSE {})
        \cup (IF c = CPU0 THEN ConsoleIntr ELSE {})
        \cup (IF c = LastCPU THEN IdeIntr ELSE {})

SchedulerLoop == <<Rel("ptable"), Sti, Acq("ptable"), Choose>>

-----------------------------------------------------------------------------
VARIABLES
  owner,         \* the CPU that holds each lock, or Nobody
  ncli, intena,  \* of each struct cpu
  fl_if,         \* FL_IF of each CPU: interrupts are on
  spins,         \* the CPU has called pushcli() in acquire() and waits
  cproc,         \* the process each CPU runs, or Nobody: the scheduler
  stack,         \* of each process and each scheduler: the traps it is in, the
                 \* last first, each with what it has still to do
  saved,         \* the local intena of sched(), of a process that left its CPU
  away           \* of each process: "new", "off" a CPU, or "on" one

lockvars == <<owner, ncli, intena, fl_if, spins, cproc, stack, saved, away>>

Frame(trap, ops) == [trap |-> trap, ops |-> ops]

LockInit ==
  /\ owner = [l \in Locks |-> Nobody]
  /\ ncli = [c \in CPUS |-> 0] /\ intena = [c \in CPUS |-> FALSE]
  /\ fl_if = [c \in CPUS |-> FALSE] /\ spins = [c \in CPUS |-> FALSE]
  /\ cproc = [c \in CPUS |-> Nobody]
  /\ stack = [x \in CPUS \cup Threads |->
                IF x \in CPUS THEN <<Frame("scheduler", Tail(SchedulerLoop))>> ELSE << >>]
  /\ saved = [t \in Threads |-> FALSE]
  /\ away  = [t \in Threads |-> "new"]

Context(c) == IF cproc[c] = Nobody THEN c ELSE cproc[c]
UserMode(c) == stack[Context(c)] = << >>
Top(c) == Head(stack[Context(c)])
AtOp(c, op) == ~UserMode(c) /\ Top(c).ops # << >> /\ Head(Top(c).ops) = op

WithTop(c, ops) ==
  [stack EXCEPT ![Context(c)] = <<Frame(Head(@).trap, ops)>> \o Tail(@)]

GoOn(c) == stack' = WithTop(c, Tail(Top(c).ops))

-----------------------------------------------------------------------------
(* spinlock.c *)

PushCli(c) ==
  /\ fl_if' = [fl_if EXCEPT ![c] = FALSE]
  /\ intena' = IF ncli[c] = 0 THEN [intena EXCEPT ![c] = fl_if[c]] ELSE intena
  /\ ncli' = [ncli EXCEPT ![c] = @ + 1]

PopCli(c) ==
  /\ ~fl_if[c] /\ ncli[c] > 0
  /\ ncli' = [ncli EXCEPT ![c] = @ - 1]
  /\ fl_if' = IF ncli[c] = 1 THEN [fl_if EXCEPT ![c] = intena[c]] ELSE fl_if
  /\ UNCHANGED intena

(* acquire(): the lock is taken at once, or after a while.  A CPU that has *)
(* it already panics, which is to wait for itself.                         *)
Acquire(c, l) ==
  /\ AtOp(c, Acq(l)) /\ owner[l] = Nobody
  /\ owner' = [owner EXCEPT ![l] = c]
  /\ IF spins[c] THEN UNCHANGED <<ncli, intena, fl_if>> ELSE PushCli(c)
  /\ spins' = [spins EXCEPT ![c] = FALSE]
  /\ GoOn(c)
  /\ UNCHANGED <<cproc, saved, away>>

Spin(c, l) ==
  /\ AtOp(c, Acq(l)) /\ owner[l] # Nobody /\ ~spins[c]
  /\ PushCli(c)
  /\ spins' = [spins EXCEPT ![c] = TRUE]
  /\ UNCHANGED <<owner, cproc, stack, saved, away>>

Release(c, l) ==
  /\ AtOp(c, Rel(l)) /\ owner[l] = c
  /\ owner' = [owner EXCEPT ![l] = Nobody]
  /\ PopCli(c)
  /\ GoOn(c)
  /\ UNCHANGED <<spins, cproc, saved, away>>

-----------------------------------------------------------------------------
(* scheduler() and sched() *)

EnableInterrupts(c) ==
  /\ AtOp(c, Sti)
  /\ fl_if' = [fl_if EXCEPT ![c] = TRUE]
  /\ GoOn(c)
  /\ UNCHANGED <<owner, ncli, intena, spins, cproc, saved, away>>

(* Mutant: sched() does not put its intena back. *)
SwitchToKeepsIntena(c, t) ==
  /\ AtOp(c, Choose) /\ away[t] # "on"
  /\ cproc' = [cproc EXCEPT ![c] = t]
  /\ away' = [away EXCEPT ![t] = "on"]
  /\ stack' = IF away[t] = "new"
              THEN [stack EXCEPT ![t] = <<Frame("forkret", <<Rel("ptable")>>)>>] ELSE stack
  /\ UNCHANGED <<owner, ncli, intena, fl_if, spins, saved>>

(* A process goes on in sched(), which puts back its intena, or starts in  *)
(* forkret().                                                              *)
SwitchTo(c, t) ==
  /\ AtOp(c, Choose) /\ away[t] # "on"
  /\ cproc' = [cproc EXCEPT ![c] = t]
  /\ away' = [away EXCEPT ![t] = "on"]
  /\ IF away[t] = "new"
     THEN /\ stack' = [stack EXCEPT ![t] = <<Frame("forkret", <<Rel("ptable")>>)>>]
          /\ UNCHANGED intena
     ELSE /\ intena' = [intena EXCEPT ![c] = saved[t]]
          /\ UNCHANGED stack
  /\ UNCHANGED <<owner, ncli, fl_if, spins, saved>>

(* No process to run, or none after the one that came back. *)
RoundEnds(c) ==
  /\ AtOp(c, Choose)
  /\ stack' = WithTop(c, SchedulerLoop)
  /\ UNCHANGED <<owner, ncli, intena, fl_if, spins, cproc, saved, away>>

(* sched() panics unless ptable.lock is all that it holds. *)
MaySched(c) == owner["ptable"] = c /\ ncli[c] = 1 /\ ~fl_if[c]

SwitchAway(c) ==
  LET t == cproc[c] IN
  /\ AtOp(c, Sched) /\ MaySched(c)
  /\ saved' = [saved EXCEPT ![t] = intena[c]]
  /\ cproc' = [cproc EXCEPT ![c] = Nobody]
  /\ away' = [away EXCEPT ![t] = "off"]
  /\ GoOn(c)
  /\ UNCHANGED <<owner, ncli, intena, fl_if, spins>>

(* The slot of a process that has exited is that of a new one. *)
ExitAway(c) ==
  LET t == cproc[c] IN
  /\ AtOp(c, Gone) /\ MaySched(c)
  /\ cproc' = [cproc EXCEPT ![c] = Nobody]
  /\ away' = [away EXCEPT ![t] = "new"]
  /\ stack' = [stack EXCEPT ![t] = << >>] /\ saved' = [saved EXCEPT ![t] = FALSE]
  /\ UNCHANGED <<owner, ncli, intena, fl_if, spins>>

-----------------------------------------------------------------------------
(* Traps: a system call leaves interrupts as they are, an interrupt turns  *)
(* them off, and both come only where they were on, as they are afterwards.*)
Traps == UNION {{<<x, i>> : i \in {j \in DOMAIN stack[x] :
                              stack[x][j].trap \in {"syscall", "interrupt"}}}
                : x \in CPUS \cup Threads}

Enter(c, trap, ops) ==
  /\ Cardinality(Traps) < MaxTraps
  /\ stack' = [stack EXCEPT ![Context(c)] = <<Frame(trap, ops)>> \o @]

SystemCall(c, ops) ==
  /\ UserMode(c) /\ fl_if[c]
  /\ Enter(c, "syscall", ops)
  /\ UNCHANGED <<owner, ncli, intena, fl_if, spins, cproc, saved, away>>

Interrupt(c, ops) ==
  /\ fl_if[c]
  /\ Enter(c, "interrupt", ops)
  /\ fl_if' = [fl_if EXCEPT ![c] = FALSE]
  /\ UNCHANGED <<owner, ncli, intena, spins, cproc, saved, away>>

Return(c) ==
  /\ ~UserMode(c) /\ Top(c).ops = << >>
  /\ stack' = [stack EXCEPT ![Context(c)] = Tail(@)]
  /\ fl_if' = [fl_if EXCEPT ![c] = TRUE]
  /\ UNCHANGED <<owner, ncli, intena, spins, cproc, saved, away>>

LockNext ==
  \E c \in CPUS :
    \/ \E l \in Locks : Acquire(c, l) \/ Spin(c, l) \/ Release(c, l)
    \/ EnableInterrupts(c) \/ RoundEnds(c) \/ SwitchAway(c) \/ ExitAway(c)
    \/ \E t \in Threads : SwitchTo(c, t)
    \/ \E ops \in SystemCalls : SystemCall(c, ops)
    \/ \E ops \in Handlers(c, cproc[c] # Nobody) : Interrupt(c, ops)
    \/ Return(c)

LockSpec == LockInit /\ [][LockNext]_lockvars

-----------------------------------------------------------------------------
(* Properties *)

WaitsFor(c, d) ==
  spins[c] /\ \E l \in Locks : AtOp(c, Acq(l)) /\ owner[l] = d

Circle(S) == S # {} /\ \A c \in S : \E d \in S : WaitsFor(c, d)

(* "disable interrupts to avoid deadlock" (spinlock.c:27) and "procdump()  *)
(* locks cons.lock indirectly; invoke later" (console.c:200): CPUs do not  *)
(* wait in a circle for each other's locks, nor one for its own.           *)
NoCircularWait == \A S \in SUBSET CPUS : ~Circle(S)

(* ps() breaks the order of cons.lock before ptable.lock; every other path *)
(* keeps to one order, so a circle has a CPU in it that is in ps().        *)
InPs(c) == AtOp(c, Acq("cons")) /\ owner["ptable"] = c

CirclesThroughPs == \A S \in SUBSET CPUS : Circle(S) => \E c \in S : InPs(c)

(* pushcli(), popcli() and the intena that sched() carries across CPUs: a  *)
(* system call has interrupts on wherever it holds no lock, a handler has  *)
(* them off throughout, ncli counts the locks of the CPU, and sched() and  *)
(* release() never panic.                                                  *)
LocksOf(c) == {l \in Locks : owner[l] = c}

InterruptsKept ==
  \A c \in CPUS :
    /\ ncli[c] = Cardinality(LocksOf(c)) + (IF spins[c] THEN 1 ELSE 0)
    /\ fl_if[c] => ncli[c] = 0
    /\ UserMode(c) => fl_if[c]
    /\ ~UserMode(c) =>
         /\ Top(c).trap = "interrupt" => ~fl_if[c]
         /\ Top(c).trap = "syscall" /\ ncli[c] = 0 => fl_if[c]
    /\ AtOp(c, Sched) \/ AtOp(c, Gone) => MaySched(c)
    /\ \A l \in Locks : AtOp(c, Rel(l)) => owner[l] = c
=============================================================================
