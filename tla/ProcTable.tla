------------------------------ MODULE ProcTable ------------------------------
(***************************************************************************)
(* The xv6 process table (proc.c, with the trap and system call code that  *)
(* drives it): process life cycle, sleep and wakeup, kill, and the hand    *)
(* over of ptable.lock between a process and the per-CPU scheduler.        *)
(*                                                                         *)
(* A critical section of ptable.lock that does not switch context is one   *)
(* atomic action, enabled when the lock is free.  A section that ends in   *)
(* sched() leaves the lock with the CPU: the scheduler resumes holding it, *)
(* and the process it dispatches next releases it.  What a process does    *)
(* between two critical sections is a separate action, so every other CPU  *)
(* can run in between.                                                     *)
(*                                                                         *)
(* Which RUNNABLE process a CPU picks is left open here (Dispatch); the    *)
(* modules Sched* add the ready structure of each build of the kernel and  *)
(* are shown to implement this one.                                        *)
(***************************************************************************)
EXTENDS Naturals, FiniteSets

CONSTANTS
  NPROC,   \* the number of slots of ptable.proc
  CPUs,    \* the processors
  Ticks,   \* the sleep channel &ticks
  MaxPid   \* bound on nextpid: no process is created beyond this pid

Procs    == 1 .. NPROC
InitProc == 1            \* the slot allocproc() gives to userinit()
Null     == 0            \* the null pointer

ASSUME ConstantsAssumption ==
  /\ NPROC \in Nat \ {0}
  /\ MaxPid \in Nat \ {0}
  /\ Null \notin CPUs
  /\ Ticks \notin Procs \cup {Null}

VARIABLES
  state, pid, parent, chan, killed,  \* the fields of struct proc
  nextpid,
  cpuproc,  \* c->proc, set by scheduler() and cleared when it gets control
  ptlock,   \* the CPU that holds ptable.lock, or Null
  kpc,      \* where the process is in its system call ("user": in none)
  ctx,      \* what p->context resumes ("live": p has the CPU)
  child     \* fork()'s local np

procvars == <<state, pid, parent, chan, killed, nextpid>>
cpuvars  == <<cpuproc, ptlock, ctx>>
vars     == <<procvars, cpuvars, kpc, child>>

ProcStates == {"UNUSED", "EMBRYO", "SLEEPING", "RUNNABLE", "RUNNING", "ZOMBIE"}
Locations  == {"user", "allocated", "copied", "wait", "exit", "sleep", "tickslock"}
Contexts   == {"none", "forkret", "yield", "sleep", "live"}

(***************************************************************************)
(* The state main() leaves behind once userinit() has made the first       *)
(* process RUNNABLE and every CPU is about to enter scheduler().           *)
(***************************************************************************)
Init ==
  /\ state   = [p \in Procs |-> IF p = InitProc THEN "RUNNABLE" ELSE "UNUSED"]
  /\ pid     = [p \in Procs |-> IF p = InitProc THEN 1 ELSE 0]
  /\ parent  = [p \in Procs |-> Null]
  /\ chan    = [p \in Procs |-> Null]
  /\ killed  = [p \in Procs |-> FALSE]
  /\ nextpid = 2
  /\ cpuproc = [c \in CPUs |-> Null]
  /\ ptlock  = Null
  /\ kpc     = [p \in Procs |-> "user"]
  /\ ctx     = [p \in Procs |-> IF p = InitProc THEN "forkret" ELSE "none"]
  /\ child   = [p \in Procs |-> Null]

(* Process p executes on CPU c, outside the scheduler. *)
Live(c, p) == cpuproc[c] = p /\ ctx[p] = "live"

(* acquire(&ptable.lock) succeeds. *)
LockFree == ptlock = Null

(* tickslock is held by a process on its way into sleep(&ticks, ...). *)
TicksLocked == \E p \in Procs : kpc[p] = "tickslock"

(* p is in user mode, about to trap; trap() lets it into a system call *)
(* only if it has not been killed.                                     *)
InSyscall(c, p) == Live(c, p) /\ kpc[p] = "user" /\ ~killed[p]

(* wakeup1(ch) for every ch of chs: all processes asleep there can run. *)
Woken(chs) ==
  [q \in Procs |-> IF state[q] = "SLEEPING" /\ chan[q] \in chs
                     THEN "RUNNABLE" ELSE state[q]]

Children(p)       == {q \in Procs : parent[q] = p}
ZombieChildren(p) == {q \in Children(p) : state[q] = "ZOMBIE"}

(* sched(): p leaves the CPU with its context saved as k; the scheduler of *)
(* c continues, holding ptable.lock.                                       *)
Sched(c, p, k) ==
  /\ cpuproc' = [cpuproc EXCEPT ![c] = Null]
  /\ ptlock'  = c
  /\ ctx'     = [ctx EXCEPT ![p] = k]

-----------------------------------------------------------------------------
(* fork() and allocproc() *)

(* Mutant: ++nextpid in place of nextpid++. *)
AllocProcNextPid(c, p, np) ==
  /\ InSyscall(c, p) /\ LockFree
  /\ state[np] = "UNUSED" /\ \A q \in 1 .. np - 1 : state[q] # "UNUSED"
  /\ nextpid <= MaxPid
  /\ state'   = [state EXCEPT ![np] = "EMBRYO"]
  /\ nextpid' = nextpid + 1
  /\ pid'     = [pid EXCEPT ![np] = nextpid']
  /\ ctx'     = [ctx EXCEPT ![np] = "forkret"]
  /\ child'   = [child EXCEPT ![p] = np]
  /\ kpc'     = [kpc EXCEPT ![p] = "allocated"]
  /\ UNCHANGED <<parent, chan, killed, cpuproc, ptlock>>

(* The first free slot is claimed under the lock; stack and page table come *)
(* later.  With no free slot, fork() returns -1 and nothing changes.        *)
AllocProc(c, p, np) ==
  /\ InSyscall(c, p) /\ LockFree
  /\ state[np] = "UNUSED" /\ \A q \in 1 .. np - 1 : state[q] # "UNUSED"
  /\ nextpid <= MaxPid
  /\ state'   = [state EXCEPT ![np] = "EMBRYO"]
  /\ pid'     = [pid EXCEPT ![np] = nextpid]
  /\ nextpid' = nextpid + 1
  /\ ctx'     = [ctx EXCEPT ![np] = "forkret"]
  /\ child'   = [child EXCEPT ![p] = np]
  /\ kpc'     = [kpc EXCEPT ![p] = "allocated"]
  /\ UNCHANGED <<parent, chan, killed, cpuproc, ptlock>>

(* Mutants: the pid of a failed fork is taken back; the slot stays EMBRYO. *)
ForkNoMemoryPidBack(c, p) ==
  /\ Live(c, p) /\ kpc[p] = "allocated"
  /\ state'   = [state EXCEPT ![child[p]] = "UNUSED"]
  /\ nextpid' = nextpid - 1
  /\ ctx'     = [ctx EXCEPT ![child[p]] = "none"]
  /\ child'   = [child EXCEPT ![p] = Null]
  /\ kpc'     = [kpc EXCEPT ![p] = "user"]
  /\ UNCHANGED <<pid, parent, chan, killed, cpuproc, ptlock>>

ForkNoMemoryKeepsSlot(c, p) ==
  /\ Live(c, p) /\ kpc[p] = "allocated"
  /\ child' = [child EXCEPT ![p] = Null]
  /\ kpc'   = [kpc EXCEPT ![p] = "user"]
  /\ UNCHANGED <<procvars, cpuvars>>

(* kalloc() or copyuvm() fails: the slot is given back without the lock and *)
(* keeps its pid.                                                           *)
ForkNoMemory(c, p) ==
  /\ Live(c, p) /\ kpc[p] = "allocated"
  /\ state' = [state EXCEPT ![child[p]] = "UNUSED"]
  /\ ctx'   = [ctx EXCEPT ![child[p]] = "none"]
  /\ child' = [child EXCEPT ![p] = Null]
  /\ kpc'   = [kpc EXCEPT ![p] = "user"]
  /\ UNCHANGED <<pid, parent, chan, killed, nextpid, cpuproc, ptlock>>

(* The image is copied and np->parent written, without the lock. *)
ForkCopy(c, p) ==
  /\ Live(c, p) /\ kpc[p] = "allocated"
  /\ parent' = [parent EXCEPT ![child[p]] = p]
  /\ kpc'    = [kpc EXCEPT ![p] = "copied"]
  /\ UNCHANGED <<state, pid, chan, killed, nextpid, cpuvars, child>>

ForkRun(c, p) ==
  /\ Live(c, p) /\ kpc[p] = "copied" /\ LockFree
  /\ state' = [state EXCEPT ![child[p]] = "RUNNABLE"]
  /\ child' = [child EXCEPT ![p] = Null]
  /\ kpc'   = [kpc EXCEPT ![p] = "user"]
  /\ UNCHANGED <<pid, parent, chan, killed, nextpid, cpuvars>>

-----------------------------------------------------------------------------
(* exit() *)

(* exit() is called by the program, by trap() for a fault, which also sets *)
(* killed, or by trap() because the process has been killed.  init never   *)
(* exits: the kernel would panic.                                          *)
EnterExit(c, p) ==
  /\ Live(c, p) /\ kpc[p] = "user" /\ p # InitProc
  /\ \/ UNCHANGED killed
     \/ killed' = [killed EXCEPT ![p] = TRUE]
  /\ kpc' = [kpc EXCEPT ![p] = "exit"]
  /\ UNCHANGED <<state, pid, parent, chan, nextpid, cpuvars, child>>

(* Mutant: only init is told, of the zombies it inherits. *)
ExitWakesInitOnly(p) == IF ZombieChildren(p) # {} THEN {InitProc} ELSE {}

(* The processes whose wait() exit() wakes. *)
ExitWakes(p) ==
  {parent[p]} \cup
  (IF ZombieChildren(p) # {} THEN {InitProc} ELSE {})

(* Mutant: the children are left with the dead process. *)
ExitKeepsChildren(c, p) ==
  /\ Live(c, p) /\ kpc[p] = "exit" /\ LockFree
  /\ state' = [Woken(ExitWakes(p)) EXCEPT ![p] = "ZOMBIE"]
  /\ kpc'   = [kpc EXCEPT ![p] = "user"]
  /\ Sched(c, p, "none")
  /\ UNCHANGED <<pid, parent, chan, killed, nextpid, child>>

(* The critical section of exit(): wake the parent, hand the children to   *)
(* init, waking it if one is a zombie already, and become a zombie.        *)
Exit(c, p) ==
  /\ Live(c, p) /\ kpc[p] = "exit" /\ LockFree
  /\ state'  = [Woken(ExitWakes(p)) EXCEPT ![p] = "ZOMBIE"]
  /\ parent' = [q \in Procs |-> IF parent[q] = p THEN InitProc ELSE parent[q]]
  /\ kpc'    = [kpc EXCEPT ![p] = "user"]
  /\ Sched(c, p, "none")
  /\ UNCHANGED <<pid, chan, killed, nextpid, child>>

-----------------------------------------------------------------------------
(* wait() and waitnstats() *)

EnterWait(c, p) ==
  /\ InSyscall(c, p)
  /\ kpc' = [kpc EXCEPT ![p] = "wait"]
  /\ UNCHANGED <<procvars, cpuvars, child>>

(* The scan of the table: with the lock just acquired, or still held since *)
(* sleep(curproc, &ptable.lock) returned.                                  *)
Scanning(c, p) == Live(c, p) /\ kpc[p] = "wait" /\ ptlock \in {Null, c}

(* The first zombie child gives its slot back. *)
Reap(c, p, q) ==
  /\ Scanning(c, p)
  /\ q \in ZombieChildren(p) /\ \A r \in 1 .. q - 1 : r \notin ZombieChildren(p)
  /\ state'  = [state EXCEPT ![q] = "UNUSED"]
  /\ pid'    = [pid EXCEPT ![q] = 0]
  /\ parent' = [parent EXCEPT ![q] = Null]
  /\ killed' = [killed EXCEPT ![q] = FALSE]
  /\ kpc'    = [kpc EXCEPT ![p] = "user"]
  /\ ptlock' = Null
  /\ UNCHANGED <<chan, nextpid, cpuproc, ctx, child>>

(* No children, or killed: wait() returns -1. *)
WaitFail(c, p) ==
  /\ Scanning(c, p) /\ ZombieChildren(p) = {}
  /\ Children(p) = {} \/ killed[p]
  /\ kpc'    = [kpc EXCEPT ![p] = "user"]
  /\ ptlock' = Null
  /\ UNCHANGED <<procvars, cpuproc, ctx, child>>

(* Mutant: killed is not looked at before sleeping. *)
WaitSleepKilled(c, p) ==
  /\ Scanning(c, p) /\ ZombieChildren(p) = {} /\ Children(p) # {}
  /\ state' = [state EXCEPT ![p] = "SLEEPING"]
  /\ chan'  = [chan EXCEPT ![p] = p]
  /\ Sched(c, p, "sleep")
  /\ UNCHANGED <<pid, parent, killed, nextpid, kpc, child>>

WaitSleep(c, p) ==
  /\ Scanning(c, p) /\ ZombieChildren(p) = {}
  /\ Children(p) # {} /\ ~killed[p]
  /\ state' = [state EXCEPT ![p] = "SLEEPING"]
  /\ chan'  = [chan EXCEPT ![p] = p]
  /\ Sched(c, p, "sleep")
  /\ UNCHANGED <<pid, parent, killed, nextpid, kpc, child>>

-----------------------------------------------------------------------------
(* sys_sleep() and the clock *)

EnterSleep(c, p) ==
  /\ InSyscall(c, p)
  /\ kpc' = [kpc EXCEPT ![p] = "sleep"]
  /\ UNCHANGED <<procvars, cpuvars, child>>

(* Under tickslock: the time is up or p has been killed, and the call      *)
(* returns; or p has to sleep on, and keeps tickslock until it does.       *)
SleepReturn(c, p) ==
  /\ Live(c, p) /\ kpc[p] = "sleep" /\ ~TicksLocked
  /\ kpc' = [kpc EXCEPT ![p] = "user"]
  /\ UNCHANGED <<procvars, cpuvars, child>>

SleepAgain(c, p) ==
  /\ Live(c, p) /\ kpc[p] = "sleep" /\ ~TicksLocked /\ ~killed[p]
  /\ kpc' = [kpc EXCEPT ![p] = "tickslock"]
  /\ UNCHANGED <<procvars, cpuvars, child>>

(* sleep(&ticks, &tickslock): takes ptable.lock, then lets tickslock go. *)
TickSleep(c, p) ==
  /\ Live(c, p) /\ kpc[p] = "tickslock" /\ LockFree
  /\ state' = [state EXCEPT ![p] = "SLEEPING"]
  /\ chan'  = [chan EXCEPT ![p] = Ticks]
  /\ kpc'   = [kpc EXCEPT ![p] = "sleep"]
  /\ Sched(c, p, "sleep")
  /\ UNCHANGED <<pid, parent, killed, nextpid, child>>

(* The timer interrupt of CPU 0: wakeup(&ticks), with tickslock held. *)
Tick ==
  /\ LockFree /\ ~TicksLocked
  /\ state' = Woken({Ticks})
  /\ UNCHANGED <<pid, parent, chan, killed, nextpid, cpuvars, kpc, child>>

-----------------------------------------------------------------------------
(* kill() *)

(* Mutant: a sleeping process is marked but not woken. *)
KillNoWake(c, p, t) ==
  /\ InSyscall(c, p) /\ LockFree
  /\ t # InitProc
  /\ \A q \in 1 .. t - 1 : pid[q] # pid[t]
  /\ killed' = [killed EXCEPT ![t] = TRUE]
  /\ UNCHANGED <<state, pid, parent, chan, nextpid, cpuvars, kpc, child>>

(* p kills the process in slot t: the first slot with the given pid, which *)
(* may be UNUSED (a slot keeps its pid when fork fails; pid 0 names a free *)
(* slot).  Nobody kills init.                                              *)
Kill(c, p, t) ==
  /\ InSyscall(c, p) /\ LockFree
  /\ t # InitProc
  /\ \A q \in 1 .. t - 1 : pid[q] # pid[t]
  /\ killed' = [killed EXCEPT ![t] = TRUE]
  /\ state'  = IF state[t] = "SLEEPING"
                 THEN [state EXCEPT ![t] = "RUNNABLE"] ELSE state
  /\ UNCHANGED <<pid, parent, chan, nextpid, cpuvars, kpc, child>>

-----------------------------------------------------------------------------
(* yield(), sched() and scheduler() *)

(* yield(), called by sys_yield() or by trap() when a timer interrupt finds *)
(* the quantum used up.  Interrupts are off while tickslock is held.  A     *)
(* process killed since trap() looked at killed yields all the same.        *)
Yield(c, p) ==
  /\ Live(c, p) /\ LockFree
  /\ kpc[p] # "tickslock"
  /\ state' = [state EXCEPT ![p] = "RUNNABLE"]
  /\ Sched(c, p, "yield")
  /\ UNCHANGED <<pid, parent, chan, killed, nextpid, kpc, child>>

SchedAcquire(c) ==
  /\ cpuproc[c] = Null /\ LockFree
  /\ ptlock' = c
  /\ UNCHANGED <<procvars, cpuproc, ctx, kpc, child>>

SchedRelease(c) ==
  /\ cpuproc[c] = Null /\ ptlock = c
  /\ ptlock' = Null
  /\ UNCHANGED <<procvars, cpuproc, ctx, kpc, child>>

(* scheduler() switches to p; p starts running with the lock held. *)
SwitchTo(c, p) ==
  /\ cpuproc[c] = Null /\ ptlock = c
  /\ state'   = [state EXCEPT ![p] = "RUNNING"]
  /\ cpuproc' = [cpuproc EXCEPT ![c] = p]
  /\ UNCHANGED <<pid, parent, chan, killed, nextpid, ptlock, ctx, kpc, child>>

Dispatch(c, p) == state[p] = "RUNNABLE" /\ SwitchTo(c, p)

(* Mutant: a new process enters user mode without releasing the lock. *)
ResumeKeepsLock(c, p) ==
  /\ cpuproc[c] = p /\ ptlock = c /\ ctx[p] # "live"
  /\ chan'   = IF ctx[p] = "sleep" THEN [chan EXCEPT ![p] = Null] ELSE chan
  /\ ptlock' = IF ctx[p] = "yield" THEN Null ELSE c
  /\ ctx'    = [ctx EXCEPT ![p] = "live"]
  /\ UNCHANGED <<state, pid, parent, killed, nextpid, cpuproc, kpc, child>>

(* The process switched to continues after its swtch(): forkret(), yield() *)
(* and sleep(&ticks, ...) release ptable.lock, sleep() in wait() keeps it. *)
Resume(c, p) ==
  /\ cpuproc[c] = p /\ ptlock = c /\ ctx[p] # "live"
  /\ chan'   = IF ctx[p] = "sleep" THEN [chan EXCEPT ![p] = Null] ELSE chan
  /\ ptlock' = IF ctx[p] = "sleep" /\ kpc[p] = "wait" THEN c ELSE Null
  /\ ctx'    = [ctx EXCEPT ![p] = "live"]
  /\ UNCHANGED <<state, pid, parent, killed, nextpid, cpuproc, kpc, child>>

-----------------------------------------------------------------------------
ForkStep(c, p) ==
  \/ \E np \in Procs : AllocProc(c, p, np)
  \/ ForkNoMemory(c, p) \/ ForkCopy(c, p) \/ ForkRun(c, p)

WaitStep(c, p) ==
  \/ EnterWait(c, p) \/ WaitFail(c, p) \/ WaitSleep(c, p)
  \/ \E q \in Procs : Reap(c, p, q)

SleepStep(c, p) ==
  EnterSleep(c, p) \/ SleepReturn(c, p) \/ SleepAgain(c, p) \/ TickSleep(c, p)

(* What a process does other than giving up the CPU without blocking. *)
OwnStep(c, p) ==
  \/ ForkStep(c, p) \/ WaitStep(c, p) \/ SleepStep(c, p)
  \/ EnterExit(c, p) \/ Exit(c, p) \/ Resume(c, p)
  \/ \E t \in Procs : Kill(c, p, t)

ProcStep(c, p) == OwnStep(c, p) \/ Yield(c, p)

SchedStep(c) ==
  SchedAcquire(c) \/ SchedRelease(c) \/ \E p \in Procs : Dispatch(c, p)

Next ==
  \/ \E c \in CPUs, p \in Procs : ProcStep(c, p)
  \/ \E c \in CPUs : SchedStep(c)
  \/ Tick

Spec == Init /\ [][Next]_vars
-----------------------------------------------------------------------------
(* Properties *)

TypeOK ==
  /\ state   \in [Procs -> ProcStates]
  /\ pid     \in [Procs -> 0 .. MaxPid]
  /\ parent  \in [Procs -> Procs \cup {Null}]
  /\ chan    \in [Procs -> Procs \cup {Null, Ticks}]
  /\ killed  \in [Procs -> BOOLEAN]
  /\ nextpid \in Nat
  /\ cpuproc \in [CPUs -> Procs \cup {Null}]
  /\ ptlock  \in CPUs \cup {Null}
  /\ kpc     \in [Procs -> Locations]
  /\ ctx     \in [Procs -> Contexts]
  /\ child   \in [Procs -> Procs \cup {Null}]

(* No process is on two CPUs, and the table says RUNNING of exactly the   *)
(* processes that are on one: scheduler() and sched() never disagree,     *)
(* though a process is taken off a CPU by code that runs on its own stack. *)
OneCPUPerProc ==
  /\ \A c, d \in CPUs : cpuproc[c] # Null /\ cpuproc[c] = cpuproc[d] => c = d
  /\ \A p \in Procs : state[p] = "RUNNING" <=> \E c \in CPUs : cpuproc[c] = p

(* ptable.lock is handed over, never dropped, across swtch(): a process    *)
(* that has not come out of its swtch() yet is on the CPU that holds the   *)
(* lock, and the lock is held only by a scheduler, by such a process, or   *)
(* by a process that scans the table in wait().                            *)
LockHandoff ==
  /\ \A c \in CPUs : cpuproc[c] # Null /\ ctx[cpuproc[c]] # "live" => ptlock = c
  /\ \A c \in CPUs : ptlock = c /\ cpuproc[c] # Null /\ ctx[cpuproc[c]] = "live"
                       => kpc[cpuproc[c]] = "wait"

(* No exit is missed: while a process sleeps in wait() it has no zombie    *)
(* child, neither one of its own nor, for init, one left by another.       *)
NoMissedExit ==
  \A p \in Procs : state[p] = "SLEEPING" /\ chan[p] = p => ZombieChildren(p) = {}

(* Somebody who can call wait() is the parent of every process but init:   *)
(* exit() leaves no child of a dead process behind, not even one that is   *)
(* being made by fork().                                                   *)
ParentsLive ==
  \A q \in Procs \ {InitProc} :
    /\ state[q] \notin {"UNUSED", "EMBRYO"} => parent[q] # Null
    /\ parent[q] # Null => state[parent[q]] \in {"RUNNABLE", "RUNNING", "SLEEPING"}

(* kill(pid) names at most one process: no pid is in two slots, not even   *)
(* the one a failed fork() leaves in a free slot.                          *)
PidsUnique ==
  \A p, q \in Procs : pid[p] = pid[q] /\ pid[p] # 0 => p = q

(* wait() misses no kill: a killed process does not sleep there, on its    *)
(* own slot.  kill() sets killed and wakes the sleeper in one critical     *)
(* section of ptable.lock, and wait() looks at killed in the one that puts *)
(* it to sleep.  sys_sleep() can miss a kill, until the next tick.  The    *)
(* sleeps of the pipe, the console, the log, the buffers and the disk are  *)
(* not in this module, and nothing is said of them: a kill between a test  *)
(* of killed and sleep() can be missed there (pipe.c:107-111).             *)
WaitSeesKill ==
  \A p \in Procs : killed[p] /\ state[p] = "SLEEPING" => chan[p] # p

(* A slot is EMBRYO exactly while one fork() is filling it, though fork()  *)
(* fills it, and gives it back on failure, without the lock.               *)
EmbryoOwned ==
  /\ \A q \in Procs : state[q] = "EMBRYO" <=> \E p \in Procs : child[p] = q
  /\ \A p, r \in Procs : child[p] # Null /\ child[p] = child[r] => p = r
=============================================================================
