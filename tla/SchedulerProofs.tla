-------------------------- MODULE SchedulerProofs --------------------------
(***************************************************************************)
(* Proofs about the process table and about the builds of the kernel, that *)
(* choose in different ways which process runs.                            *)
(*                                                                         *)
(* First, the invariants of ProcTable hold for every number of slots, CPUs *)
(* and pids.  They are not inductive on their own: what fork() and sleep() *)
(* have half done is tied to the table by Placement, and Inductive joins   *)
(* the two.                                                                *)
(*                                                                         *)
(* Then, the builds restrict what scheduler() may do with the table, and   *)
(* add to it what they choose by; they let it do nothing else.  So the     *)
(* invariants hold in each of them.  In the MLQ and DMLQ builds this rests *)
(* on the rings: what each operation does to the sequence of processes a   *)
(* ring holds comes first, then that every step queues the processes it    *)
(* makes RUNNABLE, and no others.                                          *)
(***************************************************************************)
EXTENDS SchedDefault, FcfsPolicy, SchedMLQ, WellFoundedInduction, SequenceTheorems,
        FiniteSetTheorems, TLAPS

Alive == {"RUNNABLE", "RUNNING", "SLEEPING"}

(* A process that has come out of its swtch() is on a CPU; one that is in a *)
(* system call is alive, asleep only in wait() or sys_sleep() and on their  *)
(* channels, and not asleep while it holds tickslock or a new slot.         *)
Placement ==
  \A p \in Procs :
    /\ ctx[p] = "live" => state[p] = "RUNNING"
    /\ kpc[p] # "user" => state[p] \in Alive
    /\ kpc[p] \in {"allocated", "copied"} <=> child[p] # Null
    /\ state[p] = "SLEEPING" => \/ kpc[p] = "wait" /\ chan[p] = p
                                \/ kpc[p] = "sleep" /\ chan[p] = Ticks

(* fork() has written np->parent before the child can run, and no process *)
(* is its own parent.                                                     *)
CopiedChild ==
  \A p \in Procs : /\ kpc[p] = "copied" => parent[child[p]] = p
                   /\ parent[p] # p

InitLives ==
  /\ state[InitProc] \in Alive /\ kpc[InitProc] # "exit"
  /\ parent[InitProc] = Null

PidsBelowNext == \A p \in Procs : pid[p] < nextpid

(* What a step that leaves the table alone cannot disturb. *)
FamilyInv ==
  /\ CopiedChild /\ InitLives /\ ParentsLive /\ NoMissedExit /\ WaitSeesKill
  /\ PidsBelowNext /\ PidsUnique

Inductive ==
  /\ TypeOK /\ OneCPUPerProc /\ LockHandoff /\ Placement /\ EmbryoOwned
  /\ FamilyInv

(* Every step of the kernel keeps the table well formed. *)
LEMMA TypeStep == TypeOK /\ [Next]_vars => TypeOK'
<1> SUFFICES ASSUME TypeOK, [Next]_vars PROVE TypeOK'
  OBVIOUS
<1> USE ConstantsAssumption
    DEF TypeOK, Procs, Null, InitProc, ProcStates, Locations, Contexts
<1>1. ASSUME NEW c \in CPUs, NEW p \in Procs, NEW np \in Procs, AllocProc(c, p, np)
     PROVE  TypeOK'
  BY <1>1, SMTT(60) DEF AllocProc, InSyscall, Live, LockFree
<1>2. ASSUME NEW c \in CPUs, NEW p \in Procs, ForkNoMemory(c, p)
     PROVE  TypeOK'
  BY <1>2 DEF ForkNoMemory, Live
<1>3. ASSUME NEW c \in CPUs, NEW p \in Procs, ForkCopy(c, p)
     PROVE  TypeOK'
  BY <1>3 DEF ForkCopy, Live, cpuvars
<1>4. ASSUME NEW c \in CPUs, NEW p \in Procs, ForkRun(c, p)
     PROVE  TypeOK'
  BY <1>4 DEF ForkRun, Live, LockFree, cpuvars
<1>5. ASSUME NEW c \in CPUs, NEW p \in Procs, EnterExit(c, p)
     PROVE  TypeOK'
  BY <1>5 DEF EnterExit, Live, cpuvars
<1>6. ASSUME NEW c \in CPUs, NEW p \in Procs, Exit(c, p)
     PROVE  TypeOK'
  <2>1. Woken(ExitWakes(p)) \in [Procs -> ProcStates]
    BY DEF Woken
  <2>2. state' \in [Procs -> ProcStates]
    BY <1>6, <2>1 DEF Exit
  <2> QED
    BY <1>6, <2>2 DEF Exit, Sched
<1>7. ASSUME NEW c \in CPUs, NEW p \in Procs, EnterWait(c, p)
     PROVE  TypeOK'
  BY <1>7 DEF EnterWait, InSyscall, Live, procvars, cpuvars
<1>8. ASSUME NEW c \in CPUs, NEW p \in Procs, NEW q \in Procs, Reap(c, p, q)
     PROVE  TypeOK'
  BY <1>8, SMTT(30) DEF Reap, Scanning, Live, Children, ZombieChildren
<1>9. ASSUME NEW c \in CPUs, NEW p \in Procs, WaitFail(c, p)
     PROVE  TypeOK'
  BY <1>9 DEF WaitFail, Scanning, Live, procvars
<1>10. ASSUME NEW c \in CPUs, NEW p \in Procs, WaitSleep(c, p)
     PROVE  TypeOK'
  BY <1>10 DEF WaitSleep, Scanning, Live, Sched, Children, ZombieChildren
<1>11. ASSUME NEW c \in CPUs, NEW p \in Procs, EnterSleep(c, p)
     PROVE  TypeOK'
  BY <1>11 DEF EnterSleep, InSyscall, Live, procvars, cpuvars
<1>12. ASSUME NEW c \in CPUs, NEW p \in Procs, SleepReturn(c, p)
     PROVE  TypeOK'
  BY <1>12 DEF SleepReturn, Live, procvars, cpuvars
<1>13. ASSUME NEW c \in CPUs, NEW p \in Procs, SleepAgain(c, p)
     PROVE  TypeOK'
  BY <1>13 DEF SleepAgain, Live, procvars, cpuvars
<1>14. ASSUME NEW c \in CPUs, NEW p \in Procs, TickSleep(c, p)
     PROVE  TypeOK'
  BY <1>14 DEF TickSleep, Live, LockFree, Sched
<1>15. ASSUME NEW c \in CPUs, NEW p \in Procs, NEW t \in Procs, Kill(c, p, t)
     PROVE  TypeOK'
  BY <1>15 DEF Kill, InSyscall, Live, LockFree, cpuvars
<1>16. ASSUME NEW c \in CPUs, NEW p \in Procs, Yield(c, p)
     PROVE  TypeOK'
  BY <1>16 DEF Yield, Live, LockFree, Sched
<1>17. ASSUME NEW c \in CPUs, NEW p \in Procs, Resume(c, p)
     PROVE  TypeOK'
  BY <1>17 DEF Resume
<1>18. ASSUME NEW c \in CPUs, SchedAcquire(c)
     PROVE  TypeOK'
  BY <1>18 DEF SchedAcquire, LockFree, procvars
<1>19. ASSUME NEW c \in CPUs, SchedRelease(c)
     PROVE  TypeOK'
  BY <1>19 DEF SchedRelease, procvars
<1>20. ASSUME NEW c \in CPUs, NEW p \in Procs, Dispatch(c, p)
     PROVE  TypeOK'
  BY <1>20 DEF Dispatch, SwitchTo
<1>21. ASSUME Tick
     PROVE  TypeOK'
  BY <1>21 DEF Tick, LockFree, Woken, cpuvars
<1>22. ASSUME UNCHANGED vars
     PROVE  TypeOK'
  BY <1>22 DEF vars, procvars, cpuvars
<1> QED
  BY <1>1, <1>2, <1>3, <1>4, <1>5, <1>6, <1>7, <1>8, <1>9, <1>10,
     <1>11, <1>12, <1>13, <1>14, <1>15, <1>16, <1>17, <1>18, <1>19, <1>20,
     <1>21, <1>22
     DEF Next, ProcStep, OwnStep, ForkStep, WaitStep, SleepStep, SchedStep

(* The process on a CPU is RUNNING, there and nowhere else. *)
LEMMA LiveProc ==
  ASSUME TypeOK, OneCPUPerProc, Placement,
         NEW c \in CPUs, NEW p \in Procs, Live(c, p)
  PROVE  /\ state[p] = "RUNNING"
         /\ \A d \in CPUs : cpuproc[d] = p => d = c
  BY ConstantsAssumption DEF Live, OneCPUPerProc, Placement, TypeOK, Procs, Null

(* What fork() fills is a slot of its own that nobody runs. *)
LEMMA ForkingChild ==
  ASSUME TypeOK, OneCPUPerProc, Placement, EmbryoOwned, InitLives,
         NEW p \in Procs, state[p] = "RUNNING",
         kpc[p] \in {"allocated", "copied"}
  PROVE  /\ child[p] \in Procs \ {p, InitProc}
         /\ state[child[p]] = "EMBRYO" /\ kpc[child[p]] = "user"
         /\ \A q \in Procs : child[q] = child[p] => q = p
         /\ \A d \in CPUs : cpuproc[d] # child[p]
<1>1. child[p] \in Procs
  BY DEF TypeOK, Placement
<1>2. state[child[p]] = "EMBRYO"
  BY <1>1 DEF EmbryoOwned
<1>3. child[p] # Null
  BY DEF Placement
<1>4. child[p] # InitProc
  BY <1>2 DEF InitLives, Alive
<1>5. kpc[child[p]] = "user"
  BY <1>1, <1>2 DEF Placement, Alive
<1>6. \A q \in Procs : child[q] = child[p] => q = p
  BY <1>3 DEF EmbryoOwned
<1>7. \A d \in CPUs : cpuproc[d] # child[p]
  BY <1>1, <1>2 DEF OneCPUPerProc
<1> QED
  BY <1>1, <1>2, <1>4, <1>5, <1>6, <1>7

(* A step that changes no slot of the table, no fork() under way, and at   *)
(* most enters a system call or leaves one, preserves FamilyInv.           *)
LEMMA FamilyUnchanged ==
  ASSUME FamilyInv, UNCHANGED <<procvars, child>>,
         \A p \in Procs : kpc'[p] \in {"copied", "exit"} => kpc'[p] = kpc[p]
  PROVE  FamilyInv'
  BY ConstantsAssumption DEF FamilyInv, procvars, CopiedChild, InitLives,
     ParentsLive, NoMissedExit, WaitSeesKill, PidsBelowNext, PidsUnique, Children,
     ZombieChildren, Procs, InitProc, Null, Alive

(* The same for EmbryoOwned, of a step that is not one of fork(). *)
LEMMA EmbryoUnchanged ==
  ASSUME EmbryoOwned, UNCHANGED child,
         \A q \in Procs : state'[q] = "EMBRYO" <=> state[q] = "EMBRYO"
  PROVE  EmbryoOwned'
  BY DEF EmbryoOwned

(* Every step of the kernel preserves the inductive invariant. *)
LEMMA InductiveStep == Inductive /\ [Next]_vars => Inductive'
<1> SUFFICES ASSUME Inductive, [Next]_vars PROVE Inductive'
  OBVIOUS
<1>0. /\ TypeOK /\ OneCPUPerProc /\ LockHandoff /\ Placement /\ EmbryoOwned
      /\ FamilyInv /\ TypeOK'
  BY TypeStep DEF Inductive
<1>00. /\ CopiedChild /\ InitLives /\ ParentsLive /\ NoMissedExit /\ WaitSeesKill
       /\ PidsBelowNext /\ PidsUnique
  BY <1>0 DEF FamilyInv
<1> USE ConstantsAssumption, <1>0, <1>00
    DEF Procs, Null, InitProc, ProcStates, Locations, Contexts
<1>1. ASSUME NEW c \in CPUs, NEW p \in Procs, NEW np \in Procs, AllocProc(c, p, np)
     PROVE  Inductive'
  <2>1. /\ state[p] = "RUNNING"
        /\ \A d \in CPUs : cpuproc[d] = p => d = c
    BY <1>1, LiveProc DEF AllocProc, InSyscall
  <2>2. OneCPUPerProc' /\ LockHandoff'
    BY <1>1, <2>1 DEF AllocProc, InSyscall, Live, LockFree, TypeOK,
       OneCPUPerProc, LockHandoff, Placement
  <2>3. Placement'
    BY <1>1, <2>1 DEF AllocProc, InSyscall, Live, LockFree, TypeOK, Placement,
       Alive
  <2>4. EmbryoOwned'
    <3>1. \A q \in Procs : state'[q] = "EMBRYO" <=> q = np \/ state[q] = "EMBRYO"
      BY <1>1 DEF AllocProc, TypeOK
    <3>2. child[p] = Null /\ \A q \in Procs : child'[q] = IF q = p THEN np ELSE child[q]
      BY <1>1 DEF AllocProc, InSyscall, TypeOK, Placement
    <3>3. \A q \in Procs : child[q] # np
      BY <1>1 DEF AllocProc, EmbryoOwned
    <3> QED
      BY <3>1, <3>2, <3>3 DEF EmbryoOwned
  <2>5. CopiedChild' /\ InitLives' /\ ParentsLive'
    BY <1>1, <2>1 DEF AllocProc, InSyscall, Live, LockFree, TypeOK, Placement,
       CopiedChild, InitLives, ParentsLive, Alive
  <2>6. NoMissedExit' /\ WaitSeesKill'
    BY <1>1, <2>1 DEF AllocProc, InSyscall, Live, LockFree, TypeOK,
       NoMissedExit, WaitSeesKill, Children, ZombieChildren
  <2>7. PidsBelowNext' /\ PidsUnique'
    BY <1>1, <2>1, SMTT(30) DEF AllocProc, TypeOK, PidsBelowNext, PidsUnique
  <2> QED
    BY <2>2, <2>3, <2>4, <2>5, <2>6, <2>7 DEF Inductive, FamilyInv
<1>2. ASSUME NEW c \in CPUs, NEW p \in Procs, ForkNoMemory(c, p)
     PROVE  Inductive'
  <2>1. /\ state[p] = "RUNNING"
        /\ \A d \in CPUs : cpuproc[d] = p => d = c
    BY <1>2, LiveProc DEF ForkNoMemory
  <2>2. /\ child[p] \in Procs \ {p, InitProc}
        /\ state[child[p]] = "EMBRYO" /\ kpc[child[p]] = "user"
        /\ \A q \in Procs : child[q] = child[p] => q = p
        /\ \A d \in CPUs : cpuproc[d] # child[p]
    BY <1>2, <2>1, ForkingChild DEF ForkNoMemory
  <2>3. OneCPUPerProc'
    BY <1>2, <2>1, <2>2 DEF ForkNoMemory, Live, TypeOK, OneCPUPerProc
  <2>4. LockHandoff'
    BY <1>2, <2>1, <2>2 DEF ForkNoMemory, Live, TypeOK, OneCPUPerProc,
       LockHandoff, Placement
  <2>5. Placement'
    BY <1>2, <2>1, <2>2 DEF ForkNoMemory, Live, TypeOK, Placement, Alive
  <2>6. EmbryoOwned'
    BY <1>2, <2>1, <2>2 DEF ForkNoMemory, Live, TypeOK, Placement,
       EmbryoOwned, Alive
  <2>7. CopiedChild' /\ InitLives'
    BY <1>2, <2>1, <2>2 DEF ForkNoMemory, Live, TypeOK, Placement,
       CopiedChild, InitLives, Alive
  <2>8. ParentsLive'
    BY <1>2, <2>1, <2>2 DEF ForkNoMemory, Live, TypeOK, Placement, InitLives,
       ParentsLive, Alive
  <2>9. NoMissedExit' /\ WaitSeesKill'
    BY <1>2, <2>1, <2>2 DEF ForkNoMemory, Live, TypeOK, NoMissedExit,
       WaitSeesKill, Children, ZombieChildren
  <2>10. PidsBelowNext' /\ PidsUnique'
    BY <1>2, <2>1, <2>2 DEF ForkNoMemory, TypeOK, PidsBelowNext, PidsUnique
  <2> QED
    BY <2>3, <2>4, <2>5, <2>6, <2>7, <2>8, <2>9, <2>10 DEF Inductive, FamilyInv
<1>3. ASSUME NEW c \in CPUs, NEW p \in Procs, ForkCopy(c, p)
     PROVE  Inductive'
  <2>1. /\ state[p] = "RUNNING"
        /\ \A d \in CPUs : cpuproc[d] = p => d = c
    BY <1>3, LiveProc DEF ForkCopy
  <2>2. /\ child[p] \in Procs \ {p, InitProc}
        /\ state[child[p]] = "EMBRYO" /\ kpc[child[p]] = "user"
        /\ \A q \in Procs : child[q] = child[p] => q = p
        /\ \A d \in CPUs : cpuproc[d] # child[p]
    BY <1>3, <2>1, ForkingChild DEF ForkCopy
  <2>3. OneCPUPerProc' /\ LockHandoff'
    BY <1>3, <2>1, <2>2 DEF ForkCopy, Live, cpuvars, TypeOK, OneCPUPerProc,
       LockHandoff, Placement
  <2>4. Placement'
    BY <1>3, <2>1, <2>2 DEF ForkCopy, Live, cpuvars, TypeOK, Placement, Alive
  <2>5. EmbryoOwned'
    BY <1>3, <2>1, <2>2 DEF ForkCopy, Live, cpuvars, TypeOK, Placement,
       EmbryoOwned, Alive
  <2>6. CopiedChild' /\ InitLives' /\ ParentsLive'
    BY <1>3, <2>1, <2>2 DEF ForkCopy, Live, cpuvars, TypeOK, Placement,
       CopiedChild, InitLives, ParentsLive, Alive
  <2>7. NoMissedExit' /\ WaitSeesKill'
    BY <1>3, <2>1, <2>2 DEF ForkCopy, Live, cpuvars, TypeOK, NoMissedExit,
       WaitSeesKill, Children, ZombieChildren
  <2>8. PidsBelowNext' /\ PidsUnique'
    BY <1>3, <2>1, <2>2 DEF ForkCopy, cpuvars, TypeOK, PidsBelowNext,
       PidsUnique
  <2> QED
    BY <2>3, <2>4, <2>5, <2>6, <2>7, <2>8 DEF Inductive, FamilyInv
<1>4. ASSUME NEW c \in CPUs, NEW p \in Procs, ForkRun(c, p)
     PROVE  Inductive'
  <2>1. /\ state[p] = "RUNNING"
        /\ \A d \in CPUs : cpuproc[d] = p => d = c
    BY <1>4, LiveProc DEF ForkRun
  <2>2. /\ child[p] \in Procs \ {p, InitProc}
        /\ state[child[p]] = "EMBRYO" /\ kpc[child[p]] = "user"
        /\ \A q \in Procs : child[q] = child[p] => q = p
        /\ \A d \in CPUs : cpuproc[d] # child[p]
    BY <1>4, <2>1, ForkingChild DEF ForkRun
  <2>3. OneCPUPerProc'
    BY <1>4, <2>1, <2>2 DEF ForkRun, Live, LockFree, cpuvars, TypeOK,
       OneCPUPerProc
  <2>4. LockHandoff'
    BY <1>4, <2>1, <2>2 DEF ForkRun, Live, LockFree, cpuvars, TypeOK,
       OneCPUPerProc, LockHandoff, Placement
  <2>5. Placement'
    BY <1>4, <2>1, <2>2 DEF ForkRun, Live, LockFree, cpuvars, TypeOK,
       Placement, Alive
  <2>6. EmbryoOwned'
    BY <1>4, <2>1, <2>2 DEF ForkRun, Live, LockFree, cpuvars, TypeOK,
       Placement, EmbryoOwned, Alive
  <2>7. CopiedChild' /\ InitLives' /\ ParentsLive'
    BY <1>4, <2>1, <2>2 DEF ForkRun, Live, LockFree, cpuvars, TypeOK,
       Placement, CopiedChild, InitLives, ParentsLive, Alive
  <2>8. NoMissedExit' /\ WaitSeesKill'
    BY <1>4, <2>1, <2>2 DEF ForkRun, Live, LockFree, cpuvars, TypeOK,
       NoMissedExit, WaitSeesKill, Children, ZombieChildren
  <2>9. PidsBelowNext' /\ PidsUnique'
    BY <1>4, <2>1, <2>2 DEF ForkRun, cpuvars, TypeOK, PidsBelowNext,
       PidsUnique
  <2> QED
    BY <2>3, <2>4, <2>5, <2>6, <2>7, <2>8, <2>9 DEF Inductive, FamilyInv
<1>5. ASSUME NEW c \in CPUs, NEW p \in Procs, EnterExit(c, p)
     PROVE  Inductive'
  <2>1. /\ state[p] = "RUNNING"
        /\ \A d \in CPUs : cpuproc[d] = p => d = c
    BY <1>5, LiveProc DEF EnterExit
  <2>2. OneCPUPerProc' /\ LockHandoff'
    BY <1>5, <2>1 DEF EnterExit, Live, cpuvars, TypeOK, OneCPUPerProc,
       LockHandoff, Placement
  <2>3. Placement'
    BY <1>5, <2>1 DEF EnterExit, Live, cpuvars, TypeOK, Placement, Alive
  <2>4. EmbryoOwned'
    BY <1>5, <2>1, EmbryoUnchanged DEF EnterExit, cpuvars, TypeOK
  <2>5. CopiedChild' /\ InitLives' /\ ParentsLive'
    BY <1>5, <2>1 DEF EnterExit, Live, cpuvars, TypeOK, Placement,
       CopiedChild, InitLives, ParentsLive, Alive
  <2>6. NoMissedExit' /\ WaitSeesKill'
    BY <1>5, <2>1 DEF EnterExit, Live, cpuvars, TypeOK, NoMissedExit,
       WaitSeesKill, Children, ZombieChildren
  <2>7. PidsBelowNext' /\ PidsUnique'
    BY <1>5, <2>1 DEF EnterExit, cpuvars, TypeOK, PidsBelowNext, PidsUnique
  <2> QED
    BY <2>2, <2>3, <2>4, <2>5, <2>6, <2>7 DEF Inductive, FamilyInv
<1>6. ASSUME NEW c \in CPUs, NEW p \in Procs, Exit(c, p)
     PROVE  Inductive'
  <2>1. /\ state[p] = "RUNNING" /\ cpuproc[c] = p
        /\ \A d \in CPUs : cpuproc[d] = p => d = c
    BY <1>6, LiveProc DEF Exit, Live
  <2>2. p # InitProc
    BY <1>6 DEF TypeOK, Exit, InitLives
  <2>3. /\ state'[p] = "ZOMBIE"
        /\ \A q \in Procs \ {p} :
             \/ state'[q] = state[q] /\ ~(state[q] = "SLEEPING" /\ chan[q] \in ExitWakes(p))
             \/ state'[q] = "RUNNABLE" /\ state[q] = "SLEEPING"
    BY <1>6 DEF TypeOK, Exit, Woken
  <2>4. \A q \in Procs : parent'[q] = IF parent[q] = p THEN InitProc ELSE parent[q]
    BY <1>6 DEF TypeOK, Exit
  <2>5. /\ cpuproc' = [cpuproc EXCEPT ![c] = Null] /\ ptlock = Null /\ ptlock' = c
        /\ kpc[p] = "exit" /\ kpc' = [kpc EXCEPT ![p] = "user"]
        /\ ctx' = [ctx EXCEPT ![p] = "none"]
        /\ UNCHANGED <<pid, chan, killed, nextpid, child>>
    BY <1>6 DEF Exit, LockFree, Sched
  <2>6. OneCPUPerProc'
    <3>1. \A d \in CPUs : cpuproc'[d] = IF d = c THEN Null ELSE cpuproc[d]
      BY <2>5 DEF TypeOK
    <3>2. \A q \in Procs : state'[q] = "RUNNING" <=> state[q] = "RUNNING" /\ q # p
      BY <2>3
    <3> QED
      BY <2>1, <3>1, <3>2 DEF OneCPUPerProc
  <2>7. LockHandoff'
    BY <2>1, <2>5 DEF TypeOK, OneCPUPerProc, LockHandoff
  <2>8. Placement'
    <3>1. \A q \in Procs \ {p} : ctx'[q] = ctx[q] /\ kpc'[q] = kpc[q]
      BY <2>5 DEF TypeOK
    <3>2. ctx'[p] = "none" /\ kpc'[p] = "user"
      BY <2>5 DEF TypeOK
    <3>4. child'[p] = Null
      BY <2>5 DEF Placement
    <3>3. \A q \in Procs \ {p} : /\ state[q] \in Alive => state'[q] \in Alive
                                 /\ state'[q] = "SLEEPING" => state[q] = "SLEEPING"
                                 /\ state[q] = "RUNNING" => state'[q] = "RUNNING"
      BY <2>3 DEF Alive
    <3> QED
      BY <2>3, <2>5, <3>1, <3>2, <3>3, <3>4 DEF Placement
  <2>9. EmbryoOwned'
    BY <2>1, <2>3, <2>5, EmbryoUnchanged
  <2>10. CopiedChild'
    <3> SUFFICES ASSUME NEW r \in Procs
                 PROVE  /\ kpc'[r] = "copied" => parent'[child'[r]] = r
                        /\ parent'[r] # r
      BY DEF CopiedChild
    <3>1. parent'[r] # r
      BY <2>4 DEF CopiedChild, InitLives
    <3>2. ASSUME kpc'[r] = "copied" PROVE parent'[child'[r]] = r
      <4>1. r # p /\ kpc[r] = "copied"
        BY <2>5, <3>2 DEF TypeOK
      <4>2. child[r] \in Procs /\ parent[child[r]] = r
        BY <4>1 DEF TypeOK, CopiedChild, Placement
      <4> QED
        BY <2>4, <2>5, <4>1, <4>2
    <3> QED
      BY <3>1, <3>2
  <2>11. InitLives'
    BY <2>1, <2>2, <2>3, <2>4, <2>5 DEF TypeOK, InitLives, Alive
  <2>12. ParentsLive'
    <3> SUFFICES ASSUME NEW q \in Procs \ {InitProc}
                 PROVE  /\ state'[q] \notin {"UNUSED", "EMBRYO"} => parent'[q] # Null
                        /\ parent'[q] # Null => state'[parent'[q]] \in Alive
      BY DEF TypeOK, ParentsLive, Alive
    <3>1. state'[q] \notin {"UNUSED", "EMBRYO"} => parent'[q] # Null
      <4>1. state'[q] \notin {"UNUSED", "EMBRYO"} => state[q] \notin {"UNUSED", "EMBRYO"}
        BY <2>1, <2>3
      <4> QED
        BY <2>4, <4>1 DEF ParentsLive
    <3>2. CASE parent[q] = p
      BY <2>4, <2>11, <3>1, <3>2 DEF TypeOK, InitLives
    <3>3. CASE parent[q] # p
      <4>1. parent'[q] = parent[q]
        BY <2>4, <3>3
      <4>2. parent[q] # Null => parent[q] \in Procs \ {p} /\ state[parent[q]] \in Alive
        BY <3>3 DEF TypeOK, ParentsLive, Alive
      <4>3. \A r \in Procs \ {p} : state[r] \in Alive => state'[r] \in Alive
        BY <2>3 DEF Alive
      <4> QED
        BY <3>1, <4>1, <4>2, <4>3
    <3> QED
      BY <3>2, <3>3
  <2>13. NoMissedExit'
    <3> SUFFICES ASSUME NEW r \in Procs, state'[r] = "SLEEPING", chan'[r] = r,
                        NEW q \in Procs, parent'[q] = r, state'[q] = "ZOMBIE"
                 PROVE  FALSE
      BY DEF TypeOK, NoMissedExit, Children, ZombieChildren
    <3>1. r # p /\ state[r] = "SLEEPING" /\ chan[r] = r /\ r \notin ExitWakes(p)
      BY <2>3, <2>5
    <3>2. CASE q = p
      <4>1. parent[p] = r
        BY <2>4, <3>2 DEF CopiedChild
      <4> QED
        BY <3>1, <4>1 DEF TypeOK, ExitWakes
    <3>3. CASE q # p /\ parent[q] = p
      <4>1. q \in ZombieChildren(p)
        BY <2>3, <3>3 DEF Children, ZombieChildren
      <4>2. r = InitProc
        BY <2>4, <3>3
      <4> QED
        BY <3>1, <4>1, <4>2 DEF TypeOK, ExitWakes
    <3>4. CASE q # p /\ parent[q] # p
      <4>1. parent[q] = r /\ state[q] = "ZOMBIE"
        BY <2>3, <2>4, <3>4
      <4> QED
        BY <3>1, <4>1 DEF NoMissedExit, Children, ZombieChildren
    <3> QED
      BY <3>2, <3>3, <3>4
  <2>14. WaitSeesKill'
    BY <2>3, <2>5 DEF TypeOK, WaitSeesKill
  <2>15. PidsBelowNext' /\ PidsUnique'
    BY <2>5 DEF TypeOK, PidsBelowNext, PidsUnique
  <2> QED
    BY <2>6, <2>7, <2>8, <2>9, <2>10, <2>11, <2>12, <2>13, <2>14, <2>15
       DEF Inductive, FamilyInv
<1>7. ASSUME NEW c \in CPUs, NEW p \in Procs, EnterWait(c, p)
     PROVE  Inductive'
  <2>1. /\ state[p] = "RUNNING"
        /\ \A d \in CPUs : cpuproc[d] = p => d = c
    BY <1>7, LiveProc DEF EnterWait, InSyscall
  <2>2. OneCPUPerProc' /\ LockHandoff'
    BY <1>7, <2>1 DEF EnterWait, InSyscall, Live, procvars, cpuvars, TypeOK,
       OneCPUPerProc, LockHandoff, Placement
  <2>3. Placement'
    BY <1>7, <2>1 DEF EnterWait, InSyscall, Live, procvars, cpuvars, TypeOK,
       Placement, Alive
  <2>4. EmbryoOwned'
    BY <1>7, <2>1, EmbryoUnchanged DEF EnterWait, procvars, cpuvars
  <2>5. FamilyInv'
    BY <1>7, FamilyUnchanged DEF EnterWait, procvars, cpuvars, FamilyInv
  <2> QED
    BY <2>2, <2>3, <2>4, <2>5 DEF Inductive, FamilyInv
<1>8. ASSUME NEW c \in CPUs, NEW p \in Procs, NEW q \in Procs, Reap(c, p, q)
     PROVE  Inductive'
  <2>1. /\ state[p] = "RUNNING"
        /\ \A d \in CPUs : cpuproc[d] = p => d = c
    BY <1>8, LiveProc DEF Reap, Scanning
  <2>2. OneCPUPerProc' /\ LockHandoff'
    BY <1>8, <2>1 DEF Reap, Scanning, Live, Children, ZombieChildren, TypeOK,
       OneCPUPerProc, LockHandoff, Placement
  <2>3. Placement'
    BY <1>8, <2>1 DEF Reap, Scanning, Live, Children, ZombieChildren, TypeOK,
       Placement, Alive
  <2>4. EmbryoOwned'
    BY <1>8, <2>1, EmbryoUnchanged DEF Reap, Children, ZombieChildren, TypeOK
  <2>5. CopiedChild' /\ InitLives' /\ ParentsLive'
    BY <1>8, <2>1 DEF Reap, Scanning, Live, Children, ZombieChildren, TypeOK,
       Placement, CopiedChild, InitLives, ParentsLive, Alive
  <2>6. NoMissedExit'
    BY <1>8, <2>1 DEF Reap, Scanning, Live, Children, ZombieChildren, TypeOK,
       NoMissedExit
  <2>7. WaitSeesKill'
    BY <1>8, <2>1 DEF Reap, Scanning, Live, Children, ZombieChildren, TypeOK,
       WaitSeesKill
  <2>8. PidsBelowNext' /\ PidsUnique'
    BY <1>8, <2>1 DEF Reap, TypeOK, PidsBelowNext, PidsUnique
  <2> QED
    BY <2>2, <2>3, <2>4, <2>5, <2>6, <2>7, <2>8 DEF Inductive, FamilyInv
<1>9. ASSUME NEW c \in CPUs, NEW p \in Procs, WaitFail(c, p)
     PROVE  Inductive'
  <2>1. /\ state[p] = "RUNNING"
        /\ \A d \in CPUs : cpuproc[d] = p => d = c
    BY <1>9, LiveProc DEF WaitFail, Scanning
  <2>2. OneCPUPerProc' /\ LockHandoff'
    BY <1>9, <2>1 DEF WaitFail, Scanning, Live, procvars, TypeOK,
       OneCPUPerProc, LockHandoff, Placement
  <2>3. Placement'
    BY <1>9, <2>1 DEF WaitFail, Scanning, Live, procvars, TypeOK, Placement,
       Alive
  <2>4. EmbryoOwned'
    BY <1>9, <2>1, EmbryoUnchanged DEF WaitFail, procvars
  <2>5. FamilyInv'
    BY <1>9, FamilyUnchanged DEF WaitFail, procvars, FamilyInv
  <2> QED
    BY <2>2, <2>3, <2>4, <2>5 DEF Inductive, FamilyInv
<1>10. ASSUME NEW c \in CPUs, NEW p \in Procs, WaitSleep(c, p)
     PROVE  Inductive'
  <2>1. /\ state[p] = "RUNNING"
        /\ \A d \in CPUs : cpuproc[d] = p => d = c
    BY <1>10, LiveProc DEF WaitSleep, Scanning
  <2>2. OneCPUPerProc' /\ LockHandoff'
    BY <1>10, <2>1 DEF WaitSleep, Scanning, Live, Sched, Children,
       ZombieChildren, TypeOK, OneCPUPerProc, LockHandoff, Placement
  <2>3. Placement'
    BY <1>10, <2>1 DEF WaitSleep, Scanning, Live, Sched, Children,
       ZombieChildren, TypeOK, Placement, Alive
  <2>4. EmbryoOwned'
    BY <1>10, <2>1, EmbryoUnchanged DEF WaitSleep, Sched, Children,
       ZombieChildren, TypeOK
  <2>5. CopiedChild' /\ InitLives' /\ ParentsLive'
    BY <1>10, <2>1 DEF WaitSleep, Scanning, Live, Sched, Children,
       ZombieChildren, TypeOK, Placement, CopiedChild, InitLives, ParentsLive,
       Alive
  <2>6. NoMissedExit' /\ WaitSeesKill'
    BY <1>10, <2>1 DEF WaitSleep, Scanning, Live, Sched, Children,
       ZombieChildren, TypeOK, NoMissedExit, WaitSeesKill
  <2>7. PidsBelowNext' /\ PidsUnique'
    BY <1>10, <2>1 DEF WaitSleep, Sched, TypeOK, PidsBelowNext, PidsUnique
  <2> QED
    BY <2>2, <2>3, <2>4, <2>5, <2>6, <2>7 DEF Inductive, FamilyInv
<1>11. ASSUME NEW c \in CPUs, NEW p \in Procs, EnterSleep(c, p)
     PROVE  Inductive'
  <2>1. /\ state[p] = "RUNNING"
        /\ \A d \in CPUs : cpuproc[d] = p => d = c
    BY <1>11, LiveProc DEF EnterSleep, InSyscall
  <2>2. OneCPUPerProc' /\ LockHandoff'
    BY <1>11, <2>1 DEF EnterSleep, InSyscall, Live, procvars, cpuvars, TypeOK,
       OneCPUPerProc, LockHandoff, Placement
  <2>3. Placement'
    BY <1>11, <2>1 DEF EnterSleep, InSyscall, Live, procvars, cpuvars, TypeOK,
       Placement, Alive
  <2>4. EmbryoOwned'
    BY <1>11, <2>1, EmbryoUnchanged DEF EnterSleep, procvars, cpuvars
  <2>5. FamilyInv'
    BY <1>11, FamilyUnchanged DEF EnterSleep, procvars, cpuvars, FamilyInv
  <2> QED
    BY <2>2, <2>3, <2>4, <2>5 DEF Inductive, FamilyInv
<1>12. ASSUME NEW c \in CPUs, NEW p \in Procs, SleepReturn(c, p)
     PROVE  Inductive'
  <2>1. /\ state[p] = "RUNNING"
        /\ \A d \in CPUs : cpuproc[d] = p => d = c
    BY <1>12, LiveProc DEF SleepReturn
  <2>2. OneCPUPerProc' /\ LockHandoff'
    BY <1>12, <2>1 DEF SleepReturn, Live, procvars, cpuvars, TypeOK,
       OneCPUPerProc, LockHandoff, Placement
  <2>3. Placement'
    BY <1>12, <2>1 DEF SleepReturn, Live, procvars, cpuvars, TypeOK,
       Placement, Alive
  <2>4. EmbryoOwned'
    BY <1>12, <2>1, EmbryoUnchanged DEF SleepReturn, procvars, cpuvars
  <2>5. FamilyInv'
    BY <1>12, FamilyUnchanged DEF SleepReturn, procvars, cpuvars, FamilyInv
  <2> QED
    BY <2>2, <2>3, <2>4, <2>5 DEF Inductive, FamilyInv
<1>13. ASSUME NEW c \in CPUs, NEW p \in Procs, SleepAgain(c, p)
     PROVE  Inductive'
  <2>1. /\ state[p] = "RUNNING"
        /\ \A d \in CPUs : cpuproc[d] = p => d = c
    BY <1>13, LiveProc DEF SleepAgain
  <2>2. OneCPUPerProc' /\ LockHandoff'
    BY <1>13, <2>1 DEF SleepAgain, Live, procvars, cpuvars, TypeOK,
       OneCPUPerProc, LockHandoff, Placement
  <2>3. Placement'
    BY <1>13, <2>1 DEF SleepAgain, Live, procvars, cpuvars, TypeOK, Placement,
       Alive
  <2>4. EmbryoOwned'
    BY <1>13, <2>1, EmbryoUnchanged DEF SleepAgain, procvars, cpuvars
  <2>5. FamilyInv'
    BY <1>13, FamilyUnchanged DEF SleepAgain, procvars, cpuvars, FamilyInv
  <2> QED
    BY <2>2, <2>3, <2>4, <2>5 DEF Inductive, FamilyInv
<1>14. ASSUME NEW c \in CPUs, NEW p \in Procs, TickSleep(c, p)
     PROVE  Inductive'
  <2>1. /\ state[p] = "RUNNING"
        /\ \A d \in CPUs : cpuproc[d] = p => d = c
    BY <1>14, LiveProc DEF TickSleep
  <2>2. OneCPUPerProc' /\ LockHandoff'
    BY <1>14, <2>1 DEF TickSleep, Live, LockFree, Sched, TypeOK,
       OneCPUPerProc, LockHandoff, Placement
  <2>3. Placement'
    <3>1. /\ state'[p] = "SLEEPING" /\ chan'[p] = Ticks /\ kpc'[p] = "sleep"
          /\ ctx'[p] = "sleep" /\ kpc[p] = "tickslock" /\ child' = child
          /\ \A q \in Procs \ {p} : /\ state'[q] = state[q] /\ chan'[q] = chan[q]
                                   /\ kpc'[q] = kpc[q] /\ ctx'[q] = ctx[q]
      BY <1>14 DEF TickSleep, Sched, TypeOK
    <3> QED
      BY <3>1 DEF Placement, Alive
  <2>4. EmbryoOwned'
    BY <1>14, <2>1, EmbryoUnchanged DEF TickSleep, Sched, TypeOK
  <2>5. CopiedChild' /\ InitLives'
    BY <1>14, <2>1 DEF TickSleep, Live, LockFree, Sched, TypeOK, Placement,
       CopiedChild, InitLives, Alive
  <2>6. ParentsLive'
    <3>1. parent' = parent /\ \A q \in Procs \ {p} : state'[q] = state[q]
      BY <1>14 DEF TickSleep, TypeOK
    <3>2. state[p] = "RUNNING" /\ state'[p] = "SLEEPING"
      BY <1>14, <2>1 DEF TickSleep, TypeOK
    <3>3. \A q \in Procs \ {InitProc} : parent[q] # Null => parent[q] \in Procs
      BY DEF TypeOK
    <3> QED
      BY <3>1, <3>2, <3>3 DEF ParentsLive
  <2>7. NoMissedExit' /\ WaitSeesKill'
    BY <1>14, <2>1 DEF TickSleep, Live, LockFree, Sched, TypeOK, NoMissedExit,
       WaitSeesKill, Children, ZombieChildren
  <2>8. PidsBelowNext' /\ PidsUnique'
    BY <1>14, <2>1 DEF TickSleep, Sched, TypeOK, PidsBelowNext, PidsUnique
  <2> QED
    BY <2>2, <2>3, <2>4, <2>5, <2>6, <2>7, <2>8 DEF Inductive, FamilyInv
<1>15. ASSUME NEW c \in CPUs, NEW p \in Procs, NEW t \in Procs, Kill(c, p, t)
     PROVE  Inductive'
  <2>1. /\ state[p] = "RUNNING"
        /\ \A d \in CPUs : cpuproc[d] = p => d = c
    BY <1>15, LiveProc DEF Kill, InSyscall
  <2>2. OneCPUPerProc' /\ LockHandoff'
    BY <1>15, <2>1 DEF Kill, InSyscall, Live, LockFree, cpuvars, TypeOK,
       OneCPUPerProc, LockHandoff, Placement
  <2>3. Placement'
    BY <1>15, <2>1 DEF Kill, InSyscall, Live, LockFree, cpuvars, TypeOK,
       Placement, Alive
  <2>4. EmbryoOwned'
    BY <1>15, <2>1, EmbryoUnchanged DEF Kill, cpuvars, TypeOK
  <2>5. CopiedChild' /\ InitLives' /\ ParentsLive'
    BY <1>15, <2>1 DEF Kill, InSyscall, Live, LockFree, cpuvars, TypeOK,
       Placement, CopiedChild, InitLives, ParentsLive, Alive
  <2>6. NoMissedExit' /\ WaitSeesKill'
    BY <1>15, <2>1, SMTT(30) DEF Kill, InSyscall, Live, LockFree, cpuvars, TypeOK,
       NoMissedExit, WaitSeesKill, Children, ZombieChildren
  <2>7. PidsBelowNext' /\ PidsUnique'
    BY <1>15, <2>1 DEF Kill, cpuvars, TypeOK, PidsBelowNext, PidsUnique
  <2> QED
    BY <2>2, <2>3, <2>4, <2>5, <2>6, <2>7 DEF Inductive, FamilyInv
<1>16. ASSUME NEW c \in CPUs, NEW p \in Procs, Yield(c, p)
     PROVE  Inductive'
  <2>1. /\ state[p] = "RUNNING"
        /\ \A d \in CPUs : cpuproc[d] = p => d = c
    BY <1>16, LiveProc DEF Yield
  <2>2. OneCPUPerProc' /\ LockHandoff'
    BY <1>16, <2>1 DEF Yield, Live, LockFree, Sched, TypeOK, OneCPUPerProc,
       LockHandoff, Placement
  <2>3. Placement'
    BY <1>16, <2>1 DEF Yield, Live, LockFree, Sched, TypeOK, Placement, Alive
  <2>4. EmbryoOwned'
    BY <1>16, <2>1, EmbryoUnchanged DEF Yield, Sched, TypeOK
  <2>5. CopiedChild' /\ InitLives' /\ ParentsLive'
    BY <1>16, <2>1 DEF Yield, Live, LockFree, Sched, TypeOK, Placement,
       CopiedChild, InitLives, ParentsLive, Alive
  <2>6. NoMissedExit' /\ WaitSeesKill'
    BY <1>16, <2>1 DEF Yield, Live, LockFree, Sched, TypeOK, NoMissedExit,
       WaitSeesKill, Children, ZombieChildren
  <2>7. PidsBelowNext' /\ PidsUnique'
    BY <1>16, <2>1 DEF Yield, Sched, TypeOK, PidsBelowNext, PidsUnique
  <2> QED
    BY <2>2, <2>3, <2>4, <2>5, <2>6, <2>7 DEF Inductive, FamilyInv
<1>17. ASSUME NEW c \in CPUs, NEW p \in Procs, Resume(c, p)
     PROVE  Inductive'
  <2>1. state[p] = "RUNNING"
    BY <1>17 DEF Resume, OneCPUPerProc
  <2>2. OneCPUPerProc' /\ LockHandoff'
    BY <1>17, <2>1 DEF Resume, TypeOK, OneCPUPerProc, LockHandoff, Placement
  <2>3. Placement'
    BY <1>17, <2>1 DEF Resume, TypeOK, Placement, Alive
  <2>4. EmbryoOwned'
    BY <1>17, <2>1, EmbryoUnchanged DEF Resume, TypeOK
  <2>5. CopiedChild' /\ InitLives' /\ ParentsLive'
    BY <1>17, <2>1 DEF Resume, TypeOK, Placement, CopiedChild, InitLives,
       ParentsLive, Alive
  <2>6. NoMissedExit' /\ WaitSeesKill'
    BY <1>17, <2>1 DEF Resume, TypeOK, NoMissedExit, WaitSeesKill, Children,
       ZombieChildren
  <2>7. PidsBelowNext' /\ PidsUnique'
    BY <1>17, <2>1 DEF Resume, TypeOK, PidsBelowNext, PidsUnique
  <2> QED
    BY <2>2, <2>3, <2>4, <2>5, <2>6, <2>7 DEF Inductive, FamilyInv
<1>18. ASSUME NEW c \in CPUs, SchedAcquire(c)
     PROVE  Inductive'
  <2>1. OneCPUPerProc' /\ LockHandoff'
    BY <1>18 DEF SchedAcquire, LockFree, procvars, TypeOK, OneCPUPerProc,
       LockHandoff, Placement
  <2>2. Placement'
    BY <1>18 DEF SchedAcquire, LockFree, procvars, TypeOK, Placement, Alive
  <2>3. EmbryoOwned'
    BY <1>18, EmbryoUnchanged DEF SchedAcquire, procvars
  <2>4. FamilyInv'
    BY <1>18, FamilyUnchanged DEF SchedAcquire, procvars, FamilyInv
  <2> QED
    BY <2>1, <2>2, <2>3, <2>4 DEF Inductive, FamilyInv
<1>19. ASSUME NEW c \in CPUs, SchedRelease(c)
     PROVE  Inductive'
  <2>1. OneCPUPerProc' /\ LockHandoff'
    BY <1>19 DEF SchedRelease, procvars, TypeOK, OneCPUPerProc, LockHandoff,
       Placement
  <2>2. Placement'
    BY <1>19 DEF SchedRelease, procvars, TypeOK, Placement, Alive
  <2>3. EmbryoOwned'
    BY <1>19, EmbryoUnchanged DEF SchedRelease, procvars
  <2>4. FamilyInv'
    BY <1>19, FamilyUnchanged DEF SchedRelease, procvars, FamilyInv
  <2> QED
    BY <2>1, <2>2, <2>3, <2>4 DEF Inductive, FamilyInv
<1>20. ASSUME NEW c \in CPUs, NEW p \in Procs, Dispatch(c, p)
     PROVE  Inductive'
  <2>1. OneCPUPerProc'
    BY <1>20 DEF Dispatch, SwitchTo, TypeOK, OneCPUPerProc
  <2>2. LockHandoff'
    BY <1>20 DEF Dispatch, SwitchTo, TypeOK, OneCPUPerProc, LockHandoff,
       Placement
  <2>3. Placement'
    BY <1>20 DEF Dispatch, SwitchTo, TypeOK, Placement, Alive
  <2>4. EmbryoOwned'
    BY <1>20, EmbryoUnchanged DEF Dispatch, SwitchTo, TypeOK
  <2>5. CopiedChild' /\ InitLives' /\ ParentsLive'
    BY <1>20 DEF Dispatch, SwitchTo, TypeOK, Placement, CopiedChild,
       InitLives, ParentsLive, Alive
  <2>6. NoMissedExit' /\ WaitSeesKill'
    BY <1>20 DEF Dispatch, SwitchTo, TypeOK, NoMissedExit, WaitSeesKill,
       Children, ZombieChildren
  <2>7. PidsBelowNext' /\ PidsUnique'
    BY <1>20 DEF Dispatch, SwitchTo, TypeOK, PidsBelowNext, PidsUnique
  <2> QED
    BY <2>1, <2>2, <2>3, <2>4, <2>5, <2>6, <2>7 DEF Inductive, FamilyInv
<1>21. ASSUME Tick
     PROVE  Inductive'
  <2>1. OneCPUPerProc' /\ LockHandoff'
    BY <1>21 DEF Tick, LockFree, Woken, cpuvars, TypeOK, OneCPUPerProc,
       LockHandoff, Placement
  <2>2. Placement'
    BY <1>21 DEF Tick, LockFree, Woken, cpuvars, TypeOK, Placement, Alive
  <2>3. EmbryoOwned'
    BY <1>21, EmbryoUnchanged DEF Tick, Woken, cpuvars, TypeOK
  <2>4. CopiedChild' /\ InitLives' /\ ParentsLive'
    BY <1>21 DEF Tick, LockFree, Woken, cpuvars, TypeOK, Placement,
       CopiedChild, InitLives, ParentsLive, Alive
  <2>5. NoMissedExit' /\ WaitSeesKill'
    BY <1>21 DEF Tick, LockFree, Woken, cpuvars, TypeOK, NoMissedExit,
       WaitSeesKill, Children, ZombieChildren
  <2>6. PidsBelowNext' /\ PidsUnique'
    BY <1>21 DEF Tick, Woken, cpuvars, TypeOK, PidsBelowNext, PidsUnique
  <2> QED
    BY <2>1, <2>2, <2>3, <2>4, <2>5, <2>6 DEF Inductive, FamilyInv
<1>22. ASSUME UNCHANGED vars
     PROVE  Inductive'
  <2>1. OneCPUPerProc' /\ LockHandoff'
    BY <1>22 DEF vars, procvars, cpuvars, TypeOK, OneCPUPerProc, LockHandoff,
       Placement
  <2>2. Placement'
    BY <1>22 DEF vars, procvars, cpuvars, TypeOK, Placement, Alive
  <2>3. EmbryoOwned'
    BY <1>22, EmbryoUnchanged DEF vars, procvars, cpuvars
  <2>4. FamilyInv'
    BY <1>22, FamilyUnchanged DEF vars, procvars, cpuvars, FamilyInv
  <2> QED
    BY <2>1, <2>2, <2>3, <2>4 DEF Inductive, FamilyInv
<1> QED
  BY <1>1, <1>2, <1>3, <1>4, <1>5, <1>6, <1>7, <1>8, <1>9, <1>10,
     <1>11, <1>12, <1>13, <1>14, <1>15, <1>16, <1>17, <1>18, <1>19, <1>20,
     <1>21, <1>22
     DEF Next, ProcStep, OwnStep, ForkStep, WaitStep, SleepStep, SchedStep

(* The state that main() leaves behind satisfies the invariant. *)
LEMMA InitInductive ==
  ASSUME Init
  PROVE  Inductive
<1> USE ConstantsAssumption
    DEF Init, Procs, Null, InitProc, ProcStates, Locations, Contexts
<1>1. TypeOK
  BY DEF TypeOK
<1>2. OneCPUPerProc /\ LockHandoff
  BY DEF OneCPUPerProc, LockHandoff
<1>3. Placement /\ EmbryoOwned
  BY DEF Placement, EmbryoOwned, Alive
<1>4. CopiedChild /\ InitLives /\ ParentsLive
  BY DEF CopiedChild, InitLives, ParentsLive, Alive
<1>5. NoMissedExit /\ WaitSeesKill /\ PidsBelowNext /\ PidsUnique
  BY DEF NoMissedExit, WaitSeesKill, PidsBelowNext, PidsUnique
<1> QED
  BY <1>1, <1>2, <1>3, <1>4, <1>5 DEF Inductive, FamilyInv

(***************************************************************************)
(* The theorems.                                                           *)
(***************************************************************************)

(* Inductive holds in every reachable state of the kernel. *)
THEOREM InductiveInvariant == Spec => []Inductive
<1>1. Init => Inductive
  BY InitInductive
<1> QED
  BY <1>1, InductiveStep, PTL DEF Spec

(* The table is well formed. *)
THEOREM TypeCorrect == Spec => []TypeOK
  BY InductiveInvariant, PTL DEF Inductive

(* No process is ever on two CPUs, or RUNNING and on none. *)
THEOREM OneCPU == Spec => []OneCPUPerProc
  BY InductiveInvariant, PTL DEF Inductive

(* ptable.lock is handed over across every swtch() and never dropped. *)
THEOREM LockHandedOver == Spec => []LockHandoff
  BY InductiveInvariant, PTL DEF Inductive

(* No process sleeps in wait() beside a zombie child. *)
THEOREM NoExitMissed == Spec => []NoMissedExit
  BY InductiveInvariant, PTL DEF Inductive, FamilyInv

(* Every process but init has a parent that can still call wait(). *)
THEOREM ParentsAlive == Spec => []ParentsLive
  BY InductiveInvariant, PTL DEF Inductive, FamilyInv

(* No killed process sleeps in wait(). *)
THEOREM WaitMissesNoKill == Spec => []WaitSeesKill
  BY InductiveInvariant, PTL DEF Inductive, FamilyInv

(* No two slots have the same pid. *)
THEOREM PidsDiffer == Spec => []PidsUnique
  BY InductiveInvariant, PTL DEF Inductive, FamilyInv

(* A slot is EMBRYO exactly while one fork() fills it. *)
THEOREM EmbryosOwned == Spec => []EmbryoOwned
  BY InductiveInvariant, PTL DEF Inductive
-----------------------------------------------------------------------------
(* A step of the DEFAULT build is a step of the process table: the scan    *)
(* runs only RUNNABLE processes.                                           *)
THEOREM DefaultImplementsTable == DSpec => Spec
<1>1. DInit => Init
  BY DEF DInit
<1>2. [DNext]_dvars => [Next]_vars
  <2>1. ASSUME NEW c \in CPUs, NEW p \in Procs, RunNext(c, p)
        PROVE  Dispatch(c, p)
    BY <2>1 DEF RunNext, Ahead, Dispatch
  <2> QED
    BY <2>1 DEF DNext, Next, SchedStep, StartScan, EndScan, dvars
<1> QED
  BY <1>1, <1>2, PTL DEF DSpec, Spec

(* A step of the FCFS build is a step of the process table: only RUNNABLE  *)
(* processes are served, and sys_yield() is a yield().                     *)
LEMMA PolicyStepOfTable == [PolicyNext]_policyvars => [Next]_vars
<1>1. ASSUME NEW c \in CPUs, NEW p \in Procs, ServeFirst(c, p)
      PROVE  Dispatch(c, p)
  BY <1>1 DEF ServeFirst, Runnable, RunInRound, Dispatch
<1>2. ASSUME NEW c \in CPUs, BeginRound(c) \/ EndRound(c, Runnable = {})
      PROVE  SchedStep(c)
  BY <1>2 DEF BeginRound, EndRound, SchedStep
<1> QED
  BY <1>1, <1>2 DEF PolicyNext, Next, ProcStep, SysYield, SchedStep, policyvars

(* So the FCFS build keeps to the process table. *)
THEOREM FcfsImplementsTable == PolicySpec => Spec
<1>1. PolicyInit => Init
  BY DEF PolicyInit
<1> QED
  BY <1>1, PolicyStepOfTable, PTL DEF PolicySpec, Spec

TableInvariants ==
  /\ TypeOK /\ OneCPUPerProc /\ LockHandoff /\ NoMissedExit /\ ParentsLive
  /\ PidsUnique /\ WaitSeesKill /\ EmbryoOwned

(* Under either scheduler no process is on two CPUs, wait() misses no exit *)
(* and no kill, every process has a parent, and ptable.lock is handed over. *)
THEOREM InvariantsOfBuilds ==
  /\ DSpec => []TableInvariants
  /\ PolicySpec => []TableInvariants
<1>1. Spec => []TableInvariants
  BY InductiveInvariant, PTL DEF Inductive, FamilyInv, TableInvariants
<1> QED
  BY <1>1, DefaultImplementsTable, FcfsImplementsTable, PTL
-----------------------------------------------------------------------------
(* The rings of the MLQ and DMLQ builds as sequences. *)
Held(r) == Contents(r, Cells)

RingType == [start : 0 .. NPROC, end : 0 .. NPROC, slot : [-1 .. NPROC -> 0 .. NPROC]]

Rings == {r \in RingType : Held(r) \in Seq(Procs)}

(* The cell k cells after the start. *)
Place(r, k) == (r.start + k) % Cells

LEMMA CellsAre == NPROC \in Nat \ {0} /\ Cells = NPROC + 1 /\ Cells \in Nat
  BY ConstantsAssumption DEF Cells

LEMMA ProcNumbers ==
  Procs = 1 .. NPROC /\ \A p \in Procs : p \in 0 .. NPROC /\ p \in Nat
  BY ConstantsAssumption DEF Procs

LEMMA ProcSeqs == \A q \in Seq(Procs) : q \in Seq(0 .. NPROC)
<1>1. Procs \subseteq 0 .. NPROC
  BY ProcNumbers
<1> QED
  BY <1>1, SeqMonotonic

LEMMA Around ==
  ASSUME NEW a \in 0 .. NPROC, NEW b \in 0 .. NPROC + 1
  PROVE  /\ (a + b) % Cells = IF a + b < Cells THEN a + b ELSE a + b - Cells
         /\ (a + b) % Cells \in 0 .. NPROC
<1> USE CellsAre
<1>1. CASE a + b < Cells
  BY <1>1
<1>2. CASE a + b >= Cells
  BY <1>2
<1> QED
  BY <1>1, <1>2

LEMMA Offsets ==
  ASSUME NEW r \in RingType, NEW i \in 0 .. NPROC
  PROVE  /\ Offset(r, Cells, i) = IF i >= r.start THEN i - r.start ELSE i + Cells - r.start
         /\ Offset(r, Cells, i) \in 0 .. NPROC
<1> USE CellsAre
<1>1. r.start \in 0 .. NPROC
  BY DEF RingType
<1> DEFINE b == Cells - r.start
<1>2. b \in 0 .. NPROC + 1 /\ i + Cells - r.start = i + b /\ i - r.start = i + b - Cells
  BY <1>1
<1>3. i >= r.start <=> ~(i + b < Cells)
  BY <1>1
<1> HIDE DEF b
<1>4. /\ (i + b) % Cells = IF i + b < Cells THEN i + b ELSE i + b - Cells
      /\ (i + b) % Cells \in 0 .. NPROC
  BY <1>2, Around
<1> QED
  BY <1>2, <1>3, <1>4 DEF Offset

LEMMA PlacesOfCells ==
  ASSUME NEW r \in RingType
  PROVE  /\ \A k \in 0 .. NPROC :
              /\ Place(r, k) = IF r.start + k < Cells THEN r.start + k ELSE r.start + k - Cells
              /\ Place(r, k) \in 0 .. NPROC
              /\ Offset(r, Cells, Place(r, k)) = k
         /\ \A i \in 0 .. NPROC : Place(r, Offset(r, Cells, i)) = i
<1>1. r.start \in 0 .. NPROC
  BY DEF RingType
<1>2. ASSUME NEW k \in 0 .. NPROC
      PROVE  /\ Place(r, k) = IF r.start + k < Cells THEN r.start + k ELSE r.start + k - Cells
             /\ Place(r, k) \in 0 .. NPROC
  <2>1. k \in 0 .. NPROC + 1
    BY CellsAre
  <2> QED
    BY <1>1, <2>1, Around DEF Place
<1>3. ASSUME NEW k \in 0 .. NPROC
      PROVE  Offset(r, Cells, Place(r, k)) = k
  <2>1. Offset(r, Cells, Place(r, k)) =
          IF Place(r, k) >= r.start THEN Place(r, k) - r.start ELSE Place(r, k) + Cells - r.start
    BY <1>2, Offsets
  <2>2. Place(r, k) = IF r.start + k < Cells THEN r.start + k ELSE r.start + k - Cells
    BY <1>2
  <2> QED
    BY <2>1, <2>2, <1>1, CellsAre
<1>4. ASSUME NEW i \in 0 .. NPROC
      PROVE  Place(r, Offset(r, Cells, i)) = i
  <2> DEFINE k == Offset(r, Cells, i)
  <2>1. k \in 0 .. NPROC /\ k = IF i >= r.start THEN i - r.start ELSE i + Cells - r.start
    BY Offsets
  <2> HIDE DEF k
  <2>2. Place(r, k) = IF r.start + k < Cells THEN r.start + k ELSE r.start + k - Cells
    BY <2>1, <1>2
  <2>3. Place(r, k) = i
    BY <2>1, <2>2, <1>1, CellsAre
  <2> QED
    BY <2>3 DEF k
<1> QED
  BY <1>2, <1>3, <1>4

LEMMA HeldParts ==
  ASSUME NEW r \in RingType
  PROVE  /\ Held(r) \in Seq(0 .. NPROC)
         /\ Len(Held(r)) = Offset(r, Cells, r.end) /\ Len(Held(r)) \in 0 .. NPROC
         /\ \A k \in 1 .. Len(Held(r)) : Held(r)[k] = r.slot[Place(r, k - 1)]
<1> USE CellsAre
<1>1. r.end \in 0 .. NPROC /\ r.slot \in [-1 .. NPROC -> 0 .. NPROC]
  BY DEF RingType
<1>2. Offset(r, Cells, r.end) \in 0 .. NPROC
  BY <1>1, Offsets
<1>3. ASSUME NEW k \in 1 .. Offset(r, Cells, r.end)
      PROVE  Place(r, k - 1) = (r.start + k - 1) % Cells /\ Place(r, k - 1) \in 0 .. NPROC
  <2>1. k - 1 \in 0 .. NPROC /\ r.start + (k - 1) = r.start + k - 1
    BY <1>2 DEF RingType
  <2> QED
    BY <2>1, PlacesOfCells DEF Place
<1>4. Held(r) = [k \in 1 .. Offset(r, Cells, r.end) |-> r.slot[Place(r, k - 1)]]
  BY <1>3 DEF Held, Contents
<1>5. Held(r) \in [1 .. Offset(r, Cells, r.end) -> 0 .. NPROC]
  BY <1>1, <1>3, <1>4
<1> QED
  BY <1>2, <1>4, <1>5, SeqDef, SMTT(30)

LEMMA HeldInRings ==
  ASSUME NEW r \in Rings
  PROVE  /\ r \in RingType /\ Held(r) \in Seq(Procs)
         /\ Len(Held(r)) = Offset(r, Cells, r.end) /\ Len(Held(r)) \in 0 .. NPROC
         /\ \A k \in 1 .. Len(Held(r)) : /\ Held(r)[k] = r.slot[Place(r, k - 1)]
                                         /\ Held(r)[k] \in Procs
BY HeldParts DEF Rings
LEMMA NextPlace ==
  ASSUME NEW r \in RingType, NEW k \in 0 .. NPROC - 1
  PROVE  (Place(r, k) + 1) % Cells = Place(r, k + 1)
<1> DEFINE i == Place(r, k)
<1>1. k \in 0 .. NPROC /\ k + 1 \in 0 .. NPROC /\ 1 \in 0 .. NPROC + 1
  BY CellsAre
<1>2. /\ i \in 0 .. NPROC
      /\ i = IF r.start + k < Cells THEN r.start + k ELSE r.start + k - Cells
      /\ Place(r, k + 1) = IF r.start + (k + 1) < Cells THEN r.start + (k + 1)
                           ELSE r.start + (k + 1) - Cells
  BY <1>1, PlacesOfCells
<1> HIDE DEF i
<1>3. (i + 1) % Cells = IF i + 1 < Cells THEN i + 1 ELSE i + 1 - Cells
  BY <1>1, <1>2, Around
<1>4. r.start \in 0 .. NPROC
  BY DEF RingType
<1>5. (i + 1) % Cells = Place(r, k + 1)
  <2>1. CASE r.start + k < Cells
    BY <1>2, <1>3, <1>4, <2>1, CellsAre
  <2>2. CASE r.start + k >= Cells
    BY <1>2, <1>3, <1>4, <2>2, CellsAre
  <2> QED
    BY <1>4, <2>1, <2>2, CellsAre
<1> QED
  BY <1>5 DEF i

(* The start has place 0, and the end the place after the last process. *)
LEMMA Ends ==
  ASSUME NEW r \in RingType
  PROVE  /\ Place(r, 0) = r.start
         /\ Place(r, Len(Held(r))) = r.end
         /\ IsEmpty(r) <=> Held(r) = << >>
<1> USE CellsAre
<1>1. 0 \in 0 .. NPROC /\ r.start \in 0 .. NPROC /\ r.end \in 0 .. NPROC
  BY DEF RingType
<1>2. Place(r, 0) = r.start
  <2>1. Place(r, 0) = IF r.start + 0 < Cells THEN r.start + 0 ELSE r.start + 0 - Cells
    BY <1>1, PlacesOfCells
  <2> QED
    BY <2>1, <1>1
<1>3. Place(r, Len(Held(r))) = r.end
  BY <1>1, PlacesOfCells, HeldParts, SMTT(30)
<1>4. Len(Held(r)) = 0 <=> r.end = r.start
  <2>1. Len(Held(r)) \in 0 .. NPROC
    BY HeldParts
  <2>2. Offset(r, Cells, r.end) = Len(Held(r)) /\ Offset(r, Cells, r.start) = 0
    BY <1>1, <1>2, HeldParts, PlacesOfCells
  <2> QED
    BY <1>1, <1>2, <1>3, <2>1, <2>2
<1>5. Len(Held(r)) = 0 <=> Held(r) = << >>
  BY HeldParts, EmptySeq
<1> QED
  BY <1>2, <1>3, <1>4, <1>5 DEF IsEmpty

(* enque() puts a process at the end, ... *)
LEMMA Enqued ==
  ASSUME NEW r \in Rings, NEW p \in Procs, Len(Held(r)) < NPROC
  PROVE  Enque(r, Cells, p) \in Rings /\ Held(Enque(r, Cells, p)) = Append(Held(r), p)
<1> DEFINE n == Len(Held(r))
           s == Enque(r, Cells, p)
<1> USE CellsAre
<1>1. /\ r \in RingType /\ Held(r) \in Seq(Procs)
      /\ n \in 0 .. NPROC - 1 /\ n + 1 \in 0 .. NPROC /\ n \in 0 .. NPROC
      /\ \A k \in 1 .. n : Held(r)[k] = r.slot[Place(r, k - 1)]
  <2>1. n \in 0 .. NPROC
    BY HeldInRings
  <2>2. n \in 0 .. NPROC - 1 /\ n + 1 \in 0 .. NPROC
    BY <2>1
  <2>3. \A k \in 1 .. n : Held(r)[k] = r.slot[Place(r, k - 1)]
    BY HeldInRings
  <2> QED
    BY <2>1, <2>2, <2>3, HeldInRings
<1>2. r.end = Place(r, n) /\ r.start = Place(r, 0)
  BY <1>1, Ends
<1>3. (r.end + 1) % Cells = Place(r, n + 1) /\ Place(r, n + 1) \in 0 .. NPROC
  BY <1>1, <1>2, NextPlace, PlacesOfCells
<1>4. (r.end + 1) % Cells # r.start
  BY <1>1, <1>2, <1>3, PlacesOfCells
<1>5. s = [r EXCEPT !.slot[r.end] = p, !.end = Place(r, n + 1)]
  BY <1>3, <1>4 DEF Enque
<1>6. /\ s \in RingType /\ s.start = r.start /\ s.end = Place(r, n + 1)
      /\ \A i \in 0 .. NPROC : s.slot[i] = IF i = r.end THEN p ELSE r.slot[i]
  <2>1. /\ r.start \in 0 .. NPROC /\ r.end \in 0 .. NPROC
        /\ r.slot \in [-1 .. NPROC -> 0 .. NPROC]
    BY <1>1 DEF RingType
  <2> DEFINE slots == [r.slot EXCEPT ![r.end] = p]
  <2>2. /\ slots \in [-1 .. NPROC -> 0 .. NPROC]
        /\ \A i \in 0 .. NPROC : slots[i] = IF i = r.end THEN p ELSE r.slot[i]
    <3>1. p \in 0 .. NPROC
      BY ProcNumbers
    <3>2. slots \in [-1 .. NPROC -> 0 .. NPROC]
      BY <2>1, <3>1
    <3>3. \A i \in 0 .. NPROC : i \in -1 .. NPROC
      OBVIOUS
    <3> QED
      BY <2>1, <3>2, <3>3
  <2>3. s = [start |-> r.start, end |-> Place(r, n + 1), slot |-> slots]
    BY <1>1, <1>5 DEF RingType
  <2> HIDE DEF slots, s
  <2>4. s.slot = slots /\ s.start = r.start /\ s.end = Place(r, n + 1)
    BY <2>3
  <2>5. s \in RingType
    BY <1>3, <2>1, <2>2, <2>3, Zenon DEF RingType
  <2> QED
    BY <2>2, <2>4, <2>5
<1> HIDE DEF s
<1>7. \A k : Place(s, k) = Place(r, k) /\ Offset(s, Cells, k) = Offset(r, Cells, k)
  BY <1>6 DEF Place, Offset
<1>8. /\ Len(Held(s)) = n + 1
      /\ \A k \in 1 .. n + 1 : Held(s)[k] = s.slot[Place(r, k - 1)]
  <2>1. Offset(s, Cells, s.end) = n + 1
    BY <1>1, <1>6, <1>7, PlacesOfCells
  <2> QED
    BY <1>6, <1>7, <2>1, HeldParts
<1>9. ASSUME NEW k \in 1 .. n + 1
      PROVE  Held(s)[k] = IF k = n + 1 THEN p ELSE Held(r)[k]
  <2>0. k - 1 \in 0 .. NPROC
    BY <1>1
  <2>1. k - 1 \in 0 .. NPROC /\ Place(r, k - 1) \in 0 .. NPROC
    BY <1>1, <2>0, PlacesOfCells
  <2>2. Offset(r, Cells, Place(r, k - 1)) = k - 1 /\ Offset(r, Cells, r.end) = n
    BY <1>1, <1>2, <2>1, PlacesOfCells
  <2>3. CASE k = n + 1
    <3>1. k - 1 = n
      BY <1>1, <2>3
    <3> QED
      BY <1>2, <1>6, <1>8, <2>1, <2>3, <3>1
  <2>4. CASE k # n + 1
    <3>1. k \in 1 .. n /\ k - 1 # n
      BY <1>1, <2>4
    <3>2. Place(r, k - 1) # r.end
      BY <2>2, <3>1
    <3> QED
      BY <1>1, <1>6, <1>8, <2>1, <2>4, <3>1, <3>2
  <2> QED
    BY <2>3, <2>4
<1>10. Append(Held(r), p) \in Seq(Procs) /\ Len(Append(Held(r), p)) = n + 1
       /\ \A k \in 1 .. n + 1 : Append(Held(r), p)[k] = IF k = n + 1 THEN p ELSE Held(r)[k]
  BY <1>1, AppendProperties
<1>11. Held(s) \in Seq(0 .. NPROC) /\ Append(Held(r), p) \in Seq(0 .. NPROC)
  BY <1>6, <1>10, HeldParts, ProcSeqs
<1>12. Held(s) = Append(Held(r), p)
  BY <1>8, <1>9, <1>10, <1>11, SeqEqual
<1> QED
  BY <1>6, <1>10, <1>12 DEF Rings, s

(* ... deque() takes the first one, ... *)
LEMMA Dequed ==
  ASSUME NEW r \in Rings, Held(r) # << >>
  PROVE  /\ Deque(r, Cells) \in Rings /\ Held(Deque(r, Cells)) = Tail(Held(r))
         /\ First(r) = Head(Held(r))
<1> DEFINE n == Len(Held(r))
           s == Deque(r, Cells)
<1> USE CellsAre
<1>1. /\ r \in RingType /\ Held(r) \in Seq(Procs)
      /\ n \in 1 .. NPROC /\ n - 1 \in 0 .. NPROC
      /\ \A k \in 1 .. n : Held(r)[k] = r.slot[Place(r, k - 1)]
  BY HeldInRings, EmptySeq
<1>2. r.end = Place(r, n) /\ r.start = Place(r, 0)
  BY <1>1, Ends
<1>3. First(r) = Head(Held(r))
  BY <1>1, <1>2 DEF First
<1>4. (r.start + 1) % Cells = Place(r, 1) /\ Place(r, 1) \in 0 .. NPROC
  <2>1. 0 \in 0 .. NPROC - 1 /\ 0 + 1 = 1 /\ 1 \in 0 .. NPROC
    OBVIOUS
  <2>2. (Place(r, 0) + 1) % Cells = Place(r, 0 + 1)
    BY <1>1, <2>1, NextPlace
  <2> QED
    BY <1>1, <1>2, <2>1, <2>2, PlacesOfCells
<1>5. s = [r EXCEPT !.start = Place(r, 1), !.slot[r.start] = 0]
  BY <1>4 DEF Deque
<1>6. /\ s \in RingType /\ s.start = Place(r, 1) /\ s.end = r.end
      /\ \A i \in 0 .. NPROC : i # r.start => s.slot[i] = r.slot[i]
  <2>1. /\ r.start \in 0 .. NPROC /\ r.end \in 0 .. NPROC
        /\ r.slot \in [-1 .. NPROC -> 0 .. NPROC]
    BY <1>1 DEF RingType
  <2> DEFINE slots == [r.slot EXCEPT ![r.start] = 0]
  <2>2. /\ slots \in [-1 .. NPROC -> 0 .. NPROC]
        /\ \A i \in 0 .. NPROC : i # r.start => slots[i] = r.slot[i]
    <3>1. 0 \in 0 .. NPROC
      OBVIOUS
    <3>2. slots \in [-1 .. NPROC -> 0 .. NPROC]
      BY <2>1, <3>1
    <3>3. \A i \in 0 .. NPROC : i \in -1 .. NPROC
      OBVIOUS
    <3> QED
      BY <2>1, <3>2, <3>3
  <2>3. s = [start |-> Place(r, 1), end |-> r.end, slot |-> slots]
    BY <1>1, <1>5 DEF RingType
  <2> HIDE DEF slots, s
  <2>4. s.slot = slots /\ s.start = Place(r, 1) /\ s.end = r.end
    BY <2>3
  <2>5. s \in RingType
    BY <1>4, <2>1, <2>2, <2>3, Zenon DEF RingType
  <2> QED
    BY <2>2, <2>4, <2>5
<1> HIDE DEF s
<1>7. ASSUME NEW k \in 0 .. NPROC - 1
      PROVE  Place(s, k) = Place(r, k + 1)
  <2>1. k \in 0 .. NPROC /\ k + 1 \in 0 .. NPROC /\ 1 \in 0 .. NPROC
    OBVIOUS
  <2>2. /\ Place(s, k) = IF s.start + k < Cells THEN s.start + k ELSE s.start + k - Cells
        /\ Place(r, k + 1) = IF r.start + (k + 1) < Cells THEN r.start + (k + 1)
                             ELSE r.start + (k + 1) - Cells
        /\ s.start = IF r.start + 1 < Cells THEN r.start + 1 ELSE r.start + 1 - Cells
    <3>1. s \in RingType /\ r \in RingType /\ s.start = Place(r, 1)
      BY <1>1, <1>6
    <3> HIDE <1>1, <1>6
    <3>2. Place(s, k) = IF s.start + k < Cells THEN s.start + k ELSE s.start + k - Cells
      BY <2>1, <3>1, PlacesOfCells
    <3>3. Place(r, k + 1) = IF r.start + (k + 1) < Cells THEN r.start + (k + 1)
                            ELSE r.start + (k + 1) - Cells
      BY <2>1, <3>1, PlacesOfCells, ZenonT(60)
    <3>4. Place(r, 1) = IF r.start + 1 < Cells THEN r.start + 1 ELSE r.start + 1 - Cells
      BY <2>1, <3>1, PlacesOfCells
    <3> QED
      BY <3>1, <3>2, <3>3, <3>4
  <2>3. r.start \in 0 .. NPROC
    BY <1>1 DEF RingType
  <2> QED
    BY <2>2, <2>3
<1>8. s.end = Place(s, n - 1)
  BY <1>1, <1>2, <1>6, <1>7
<1>9. /\ Len(Held(s)) = n - 1
      /\ \A k \in 1 .. n - 1 : Held(s)[k] = s.slot[Place(s, k - 1)]
  <2>1. Offset(s, Cells, s.end) = n - 1
    BY <1>1, <1>6, <1>8, PlacesOfCells
  <2> QED
    BY <1>6, <2>1, HeldParts
<1>10. ASSUME NEW k \in 1 .. n - 1
       PROVE  Held(s)[k] = Held(r)[k + 1]
  <2>1. k - 1 \in 0 .. NPROC - 1 /\ k \in 0 .. NPROC /\ k - 1 + 1 = k /\ k + 1 \in 1 .. n
        /\ k + 1 - 1 = k
    BY <1>1
  <2>2. Place(s, k - 1) = Place(r, k) /\ Place(r, k) \in 0 .. NPROC
    BY <1>1, <1>7, <2>1, PlacesOfCells
  <2>3. Place(r, k) # r.start
    BY <1>1, <1>2, <2>1, PlacesOfCells
  <2>4. Held(r)[k + 1] = r.slot[Place(r, k)]
    BY <1>1, <2>1
  <2> QED
    BY <1>6, <1>9, <2>2, <2>3, <2>4
<1>11. /\ Tail(Held(r)) \in Seq(Procs) /\ Len(Tail(Held(r))) = n - 1
       /\ \A k \in 1 .. n - 1 : Tail(Held(r))[k] = Held(r)[k + 1]
  BY <1>1, HeadTailProperties
<1>12. Held(s) \in Seq(0 .. NPROC) /\ Tail(Held(r)) \in Seq(0 .. NPROC)
  BY <1>6, <1>11, HeldParts, ProcSeqs
<1>13. Held(s) = Tail(Held(r))
  BY <1>9, <1>10, <1>11, <1>12, SeqEqual
<1> QED
  BY <1>3, <1>6, <1>11, <1>13 DEF Rings, s

(* The cells in which a process is, and its places in the queue. *)
LEMMA CellPlaces ==
  ASSUME NEW r \in RingType, NEW p
  PROVE  /\ \A i \in CellsOf(r, Cells, p) :
              /\ i \in 0 .. NPROC /\ Offset(r, Cells, i) \in 0 .. Len(Held(r)) - 1
              /\ i = Place(r, Offset(r, Cells, i))
              /\ Held(r)[Offset(r, Cells, i) + 1] = p
         /\ \A k \in 1 .. Len(Held(r)) :
              Held(r)[k] = p => Place(r, k - 1) \in CellsOf(r, Cells, p)
<1> DEFINE n == Len(Held(r))
<1>0. /\ n = Offset(r, Cells, r.end) /\ n \in 0 .. NPROC /\ Cells - 1 = NPROC
      /\ \A k \in 1 .. n : Held(r)[k] = r.slot[Place(r, k - 1)]
  BY HeldParts, CellsAre
<1>1. ASSUME NEW i \in CellsOf(r, Cells, p)
      PROVE  /\ i \in 0 .. NPROC /\ Offset(r, Cells, i) \in 0 .. n - 1
             /\ i = Place(r, Offset(r, Cells, i))
             /\ Held(r)[Offset(r, Cells, i) + 1] = p
  <2> DEFINE o == Offset(r, Cells, i)
  <2>1. i \in 0 .. NPROC /\ o < n /\ r.slot[i] = p
    BY <1>0 DEF CellsOf, Occupied
  <2>2. o \in 0 .. NPROC /\ i = Place(r, o)
    BY <2>1, PlacesOfCells, Offsets
  <2> HIDE DEF o, n
  <2>3. o \in 0 .. n - 1 /\ o + 1 \in 1 .. n /\ (o + 1) - 1 = o
    BY <1>0, <2>1, <2>2
  <2>4. Held(r)[o + 1] = p
    BY <1>0, <2>1, <2>2, <2>3
  <2> QED
    BY <2>1, <2>2, <2>3, <2>4 DEF o
<1>2. ASSUME NEW k \in 1 .. n, Held(r)[k] = p
      PROVE  Place(r, k - 1) \in CellsOf(r, Cells, p)
  <2> HIDE DEF n
  <2>1. k - 1 \in 0 .. NPROC /\ k - 1 < n
    BY <1>0, CellsAre
  <2>2. Place(r, k - 1) \in 0 .. NPROC /\ Offset(r, Cells, Place(r, k - 1)) = k - 1
    BY <2>1, PlacesOfCells
  <2>3. r.slot[Place(r, k - 1)] = p
    BY <1>0, <1>2
  <2> QED
    BY <1>0, <2>1, <2>2, <2>3 DEF CellsOf, Occupied
<1> QED
  BY <1>1, <1>2

(* Between a cell that is in front of the end and the end, the places are  *)
(* one after the other.                                                    *)
LEMMA NoWrap ==
  ASSUME NEW r \in RingType, NEW o \in 0 .. NPROC, NEW n \in 0 .. NPROC,
         o < n, Place(r, o) < Place(r, n),
         NEW k \in o .. n
  PROVE  Place(r, k) = Place(r, o) + (k - o)
<1> USE CellsAre
<1>1. r.start \in 0 .. NPROC
  BY DEF RingType
<1>2. k \in 0 .. NPROC
  OBVIOUS
<1>3. Place(r, o) = IF r.start + o < Cells THEN r.start + o ELSE r.start + o - Cells
  BY PlacesOfCells
<1>4. Place(r, n) = IF r.start + n < Cells THEN r.start + n ELSE r.start + n - Cells
  BY PlacesOfCells
<1>5. Place(r, k) = IF r.start + k < Cells THEN r.start + k ELSE r.start + k - Cells
  BY <1>2, PlacesOfCells
<1>6. CASE r.start + o >= Cells
  BY <1>1, <1>2, <1>3, <1>5, <1>6
<1>7. CASE r.start + o < Cells
  <2>1. r.start + n < Cells
    BY <1>1, <1>3, <1>4, <1>7
  <2> QED
    BY <1>1, <1>2, <1>3, <1>5, <1>7, <2>1
<1> QED
  BY <1>1, <1>6, <1>7

(* ... and swapque() takes one from the middle, as long as the end is not  *)
(* behind it.                                                              *)
TakenOut(r, i) == [r EXCEPT !.slot = CloseGap(r, Cells, i), !.end = @ - 1]

LEMMA SwappedOut ==
  ASSUME NEW r \in Rings, NEW p, NEW i \in CellsOf(r, Cells, p), i < r.end
  PROVE  /\ TakenOut(r, i) \in Rings
         /\ Len(Held(TakenOut(r, i))) = Len(Held(r)) - 1
         /\ \A k \in 1 .. Len(Held(r)) - 1 :
              Held(TakenOut(r, i))[k] = IF k <= Offset(r, Cells, i) THEN Held(r)[k]
                                        ELSE Held(r)[k + 1]
<1> DEFINE n == Len(Held(r))
           o == Offset(r, Cells, i)
           s == TakenOut(r, i)
           moved == {j \in Occupied(r, Cells) : Offset(r, Cells, j) > Offset(r, Cells, i)}
<1> USE CellsAre
<1>1. /\ r \in RingType /\ Held(r) \in Seq(Procs) /\ n \in 0 .. NPROC
      /\ n = Offset(r, Cells, r.end)
      /\ \A k \in 1 .. n : Held(r)[k] = r.slot[Place(r, k - 1)]
  BY HeldInRings
<1>2. i \in 0 .. NPROC /\ o \in 0 .. n - 1 /\ i = Place(r, o)
  BY <1>1, CellPlaces
<1>3. r.end = Place(r, n) /\ r.start = Place(r, 0)
  BY <1>1, Ends
<1> HIDE DEF n, o
<1>4. o < n /\ o \in 0 .. NPROC /\ n - 1 \in o .. n /\ n - 1 \in 0 .. NPROC
  BY <1>1, <1>2
<1>5. \A k \in o .. n : Place(r, k) = i + (k - o)
  BY <1>1, <1>2, <1>3, <1>4, NoWrap
<1>6. r.end - 1 = Place(r, n - 1) /\ r.end - 1 \in 0 .. NPROC
  <2>1. n \in o .. n
    BY <1>1, <1>4
  <2>2. r.end = i + (n - o) /\ Place(r, n - 1) = i + (n - 1 - o)
    BY <1>3, <1>4, <1>5, <2>1
  <2>3. r.end - 1 = Place(r, n - 1)
    BY <1>1, <1>2, <2>2
  <2>4. Place(r, n - 1) \in 0 .. NPROC
    BY <1>1, <1>4, PlacesOfCells
  <2> QED
    BY <2>3, <2>4
<1>7. /\ s \in RingType /\ s.start = r.start /\ s.end = r.end - 1
      /\ \A k \in 0 .. NPROC :
           s.slot[k] = IF k + 1 \in moved THEN r.slot[k + 1]
                       ELSE IF k = r.end - 1 THEN 0 ELSE r.slot[k]
  <2>1. /\ r.start \in 0 .. NPROC /\ r.end \in 0 .. NPROC
        /\ r.slot \in [-1 .. NPROC -> 0 .. NPROC]
    BY <1>1 DEF RingType
  <2> DEFINE slots == CloseGap(r, Cells, i)
  <2>2. slots = [k \in -1 .. NPROC |->
                   IF k + 1 \in moved THEN r.slot[k + 1]
                   ELSE IF k = r.end - 1 THEN 0 ELSE r.slot[k]]
    <3>1. DOMAIN r.slot = -1 .. NPROC
      BY <2>1
    <3> QED
      BY <3>1 DEF CloseGap
  <2>3. moved \subseteq 0 .. NPROC
    BY DEF Occupied
  <2>4. slots \in [-1 .. NPROC -> 0 .. NPROC]
    <3>1. ASSUME NEW k \in -1 .. NPROC
          PROVE  (IF k + 1 \in moved THEN r.slot[k + 1]
                  ELSE IF k = r.end - 1 THEN 0 ELSE r.slot[k]) \in 0 .. NPROC
      <4>1. CASE k + 1 \in moved
        <5>1. k + 1 \in -1 .. NPROC
          BY <4>1, <2>3
        <5> QED
          BY <2>1, <4>1, <5>1
      <4>2. 0 \in 0 .. NPROC /\ r.slot[k] \in 0 .. NPROC
        BY <2>1
      <4> QED
        BY <4>1, <4>2
    <3> QED
      BY <2>2, <3>1
  <2>5. s = [start |-> r.start, end |-> r.end - 1, slot |-> slots]
    <3>1. r = [start |-> r.start, end |-> r.end, slot |-> r.slot]
      BY <1>1 DEF RingType
    <3> HIDE DEF slots
    <3>2. s = [r EXCEPT !.slot = slots, !.end = r.end - 1]
      BY <3>1 DEF TakenOut, slots
    <3> QED
      BY <3>1, <3>2
  <2>6. \A k \in 0 .. NPROC : k \in -1 .. NPROC
    OBVIOUS
  <2>7. \A k \in 0 .. NPROC :
           slots[k] = IF k + 1 \in moved THEN r.slot[k + 1]
                       ELSE IF k = r.end - 1 THEN 0 ELSE r.slot[k]
    BY <2>2, <2>6
  <2> HIDE DEF slots, s, moved
  <2>8. s.slot = slots /\ s.start = r.start /\ s.end = r.end - 1
    BY <2>5
  <2>9. s \in RingType
    BY <1>6, <2>1, <2>4, <2>5, Zenon DEF RingType
  <2> QED
    BY <2>7, <2>8, <2>9
<1> HIDE DEF s, moved
<1>8. \A k : Place(s, k) = Place(r, k) /\ Offset(s, Cells, k) = Offset(r, Cells, k)
  BY <1>7 DEF Place, Offset
<1>9. /\ Len(Held(s)) = n - 1 /\ Held(s) \in Seq(0 .. NPROC)
      /\ \A k \in 1 .. n - 1 : Held(s)[k] = s.slot[Place(r, k - 1)]
  <2>1. Offset(s, Cells, s.end) = n - 1
    BY <1>1, <1>4, <1>6, <1>7, <1>8, PlacesOfCells
  <2> QED
    BY <1>7, <1>8, <2>1, HeldParts
<1>10. ASSUME NEW k \in 1 .. n - 1
       PROVE  Held(s)[k] = IF k <= o THEN Held(r)[k] ELSE Held(r)[k + 1]
  <2> DEFINE j == Place(r, k - 1)
  <2>1. /\ k - 1 \in 0 .. NPROC - 1 /\ k - 1 \in 0 .. NPROC /\ k \in 0 .. NPROC
        /\ k \in 1 .. n /\ k + 1 \in 1 .. n /\ k + 1 - 1 = k /\ k - 1 + 1 = k
    BY <1>1
  <2>2. j \in 0 .. NPROC /\ Offset(r, Cells, j) = k - 1
    BY <1>1, <2>1, PlacesOfCells
  <2>3. Place(r, k) \in 0 .. NPROC /\ Offset(r, Cells, Place(r, k)) = k
    BY <1>1, <2>1, PlacesOfCells
  <2>4. (j + 1) % Cells = Place(r, k)
    BY <1>1, <2>1, NextPlace
  <2> HIDE DEF j
  <2>5. CASE k <= o
    <3>1. j + 1 \notin moved
      <4> SUFFICES ASSUME j + 1 \in moved PROVE FALSE
        OBVIOUS
      <4>1. j + 1 \in 0 .. NPROC /\ Offset(r, Cells, j + 1) > o
        BY DEF moved, Occupied, o
      <4>2. (j + 1) % Cells = j + 1
        BY <4>1
      <4>3. Offset(r, Cells, j + 1) = k
        BY <2>3, <2>4, <4>2
      <4> QED
        BY <1>2, <2>1, <2>5, <4>1, <4>3
    <3>2. j # r.end - 1
      <4>1. Offset(r, Cells, r.end - 1) = n - 1
        BY <1>1, <1>4, <1>6, PlacesOfCells
      <4>2. k - 1 # n - 1
        BY <1>1, <1>2, <2>5
      <4> QED
        BY <2>2, <4>1, <4>2
    <3>3. s.slot[j] = r.slot[j]
      BY <1>7, <2>2, <3>1, <3>2
    <3> QED
      BY <1>1, <1>9, <2>1, <2>5, <3>3 DEF j
  <2>6. CASE ~(k <= o)
    <3>1. k - 1 \in o .. n /\ k \in o .. n /\ k > o /\ k < n
      BY <1>1, <1>2, <2>1, <2>6
    <3>2. Place(r, k) = j + 1
      <4>1. j = i + (k - 1 - o) /\ Place(r, k) = i + (k - o)
        BY <1>5, <3>1 DEF j
      <4> QED
        BY <1>2, <2>1, <4>1
    <3>3. Place(r, k) \in moved
      BY <1>1, <2>3, <3>1 DEF moved, Occupied, o
    <3>4. s.slot[j] = r.slot[Place(r, k)]
      BY <1>7, <2>2, <3>2, <3>3
    <3> QED
      BY <1>1, <1>9, <2>1, <2>6, <3>4 DEF j
  <2> QED
    BY <2>5, <2>6
<1>11. ASSUME NEW k \in 1 .. n - 1
       PROVE  Held(s)[k] \in Procs
  <2>1. k \in 1 .. n /\ k + 1 \in 1 .. n
    BY <1>1
  <2>2. Held(r)[k] \in Procs /\ Held(r)[k + 1] \in Procs
    BY <2>1, HeldInRings DEF n
  <2> QED
    BY <1>10, <2>2
<1>12. Held(s) \in Seq(Procs)
  <2>1. Held(s) \in [1 .. n - 1 -> Procs]
    <3>1. Held(s) = [k \in 1 .. n - 1 |-> Held(s)[k]]
      BY <1>9, LenProperties
    <3> QED
      BY <1>11, <3>1
  <2>2. n - 1 \in Nat
    BY <1>1, <1>4
  <2> QED
    BY <2>1, <2>2, SeqDef
<1> QED
  BY <1>7, <1>9, <1>10, <1>12 DEF Rings, s, n, o
-----------------------------------------------------------------------------
(* What enque() and the scans of the table do one process after another. *)

(* Induction up to n, over a set. *)
LEMMA UpTo ==
  ASSUME NEW n \in Nat, NEW G, 0 \in G, \A i \in 0 .. n : i # n /\ i \in G => i + 1 \in G
  PROVE  \A i \in 0 .. n : i \in G
<1> SUFFICES ASSUME NEW j \in 0 .. n, j \notin G PROVE FALSE
  OBVIOUS
<1> DEFINE B == {k \in Nat : k \in 0 .. n /\ k \notin G}
<1>1. B \subseteq Nat /\ j \in B
  OBVIOUS
<1> HIDE DEF B
<1>2. PICK m \in B : \A k \in B : <<k, m>> \notin OpToRel(<, Nat)
  BY <1>1, WFMin, NatLessThanWellFounded, Zenon
<1>3. \A k \in B : ~(k < m)
  BY <1>1, <1>2, Zenon DEF OpToRel
<1>4. m \in 0 .. n /\ m \notin G
  BY DEF B
<1>5. m # 0 /\ m - 1 \in 0 .. n /\ m - 1 # n /\ m - 1 + 1 = m /\ m - 1 < m
  BY <1>4
<1>6. m - 1 \in G
  BY <1>3, <1>5 DEF B
<1> QED
  BY <1>4, <1>5, <1>6

StepsOn(n, S) == [1 .. n -> [S -> S]]

Follows(f, n, S, s, step) ==
  f \in [0 .. n -> S] /\ f[0] = s /\ \A i \in 1 .. n : f[i] = step[i][f[i - 1]]

(* A function on 0 .. n may be defined by what each step makes of it. *)
LEMMA Iterated ==
  ASSUME NEW n \in Nat, NEW S, NEW s \in S, NEW step \in StepsOn(n, S)
  PROVE  \E f : Follows(f, n, S, s, step)
<1> USE DEF StepsOn, Follows
<1> DEFINE Until(m, f) == Follows(f, m, S, s, step)
           G == {m \in 0 .. n : \E f : Until(m, f)}
<1>1. 0 \in G
  <2> DEFINE f == [i \in 0 .. 0 |-> s]
  <2>1. f \in [0 .. 0 -> S] /\ f[0] = s /\ 1 .. 0 = {}
    OBVIOUS
  <2> HIDE DEF f
  <2>2. Until(0, f) /\ 0 \in 0 .. n
    BY <2>1
  <2> QED
    BY <2>2
<1>2. ASSUME NEW m \in 0 .. n, m # n, m \in G
      PROVE  m + 1 \in G
  <2> PICK f : Until(m, f)
    BY <1>2
  <2> DEFINE g == [i \in 0 .. m + 1 |-> IF i = m + 1 THEN step[m + 1][f[m]] ELSE f[i]]
  <2>1. m + 1 \in 0 .. n /\ m + 1 \in 1 .. n /\ m \in 0 .. m /\ m + 1 \in 0 .. m + 1
    BY <1>2
  <2>2. step[m + 1] \in [S -> S] /\ f[m] \in S
    BY <2>1
  <2>3. step[m + 1][f[m]] \in S
    BY <2>2
  <2>4. \A i \in 0 .. m + 1 : i # m + 1 => i \in 0 .. m
    BY <2>1
  <2>5. g \in [0 .. m + 1 -> S]
    BY <2>3, <2>4
  <2>6. g[0] = s
    <3>1. 0 \in 0 .. m + 1 /\ 0 # m + 1
      BY <2>1
    <3> QED
      BY <3>1
  <2>7. ASSUME NEW i \in 1 .. m + 1
        PROVE  g[i] = step[i][g[i - 1]]
    <3>1. i \in 0 .. m + 1 /\ i - 1 \in 0 .. m + 1 /\ i - 1 # m + 1
      BY <2>1
    <3>2. g[i - 1] = f[i - 1]
      BY <3>1
    <3>3. CASE i = m + 1
      <4>1. i - 1 = m
        BY <2>1, <3>3
      <4> QED
        BY <3>1, <3>2, <3>3, <4>1
    <3>4. CASE i # m + 1
      <4>1. i \in 1 .. m
        BY <2>1, <3>4
      <4> QED
        BY <3>1, <3>2, <3>4, <4>1
    <3> QED
      BY <3>3, <3>4
  <2> HIDE DEF g
  <2>8. Until(m + 1, g)
    BY <2>5, <2>6, <2>7
  <2> QED
    BY <2>1, <2>8
<1>3. \A i \in 0 .. n : i \in G
  <2> HIDE DEF G
  <2> QED
    BY <1>1, <1>2, UpTo
<1>4. n \in 0 .. n
  OBVIOUS
<1> QED
  BY <1>3, <1>4

Elems(s) == {s[k] : k \in 1 .. Len(s)}

Distinct(s) == \A j, k \in 1 .. Len(s) : s[j] = s[k] => j = k

(* No more processes are queued than there are, ... *)
LEMMA RoomLeft ==
  ASSUME NEW s \in Seq(Procs), Distinct(s), NEW p \in Procs, p \notin Elems(s)
  PROVE  Len(s) < NPROC
<1> DEFINE n == Len(s)
<1>1. n \in Nat /\ s \in [1 .. n -> Procs]
  BY LenProperties
<1>2. s \in [1 .. n -> Procs \ {p}]
  <2>1. \A k \in 1 .. n : s[k] \in Procs \ {p}
    BY <1>1 DEF Elems
  <2>2. s = [k \in 1 .. n |-> s[k]]
    BY <1>1
  <2> HIDE DEF n
  <2> QED
    BY <2>1, <2>2
<1>3. s \in Injection(1 .. n, Procs \ {p})
  BY <1>2 DEF Injection, IsInjective, Distinct
<1>4. IsFiniteSet(Procs) /\ Cardinality(Procs) = NPROC
  <2>1. 1 \in Int /\ NPROC \in Int /\ ~(1 > NPROC)
    BY CellsAre
  <2>2. IsFiniteSet(1 .. NPROC) /\ Cardinality(1 .. NPROC) = NPROC - 1 + 1
    BY <2>1, FS_Interval
  <2> QED
    BY <2>2, CellsAre DEF Procs
<1>5. IsFiniteSet(Procs \ {p}) /\ Cardinality(Procs \ {p}) = NPROC - 1
  BY <1>4, FS_RemoveElement
<1>6. Cardinality(1 .. n) = n
  <2> HIDE DEF n
  <2>1. 1 \in Int /\ n \in Int
    BY <1>1
  <2>2. Cardinality(1 .. n) = IF 1 > n THEN 0 ELSE n - 1 + 1
    BY <2>1, FS_Interval
  <2> QED
    BY <1>1, <2>2
<1>7. Cardinality(1 .. n) <= Cardinality(Procs \ {p})
  BY <1>3, <1>5, FS_Injection
<1> QED
  BY <1>1, <1>5, <1>6, <1>7, CellsAre

(* ... and as many processes as places. *)
LEMMA CountOfPlaces ==
  ASSUME NEW s, Distinct(s), NEW a \in Nat, NEW b \in Nat, a <= b, Len(s) = b
  PROVE  Cardinality({s[k] : k \in a + 1 .. b}) = b - a
<1> DEFINE T == {s[k] : k \in a + 1 .. b}
           f == [k \in a + 1 .. b |-> s[k]]
<1>1. \A k \in a + 1 .. b : k \in 1 .. Len(s)
  OBVIOUS
<1>2. f \in Bijection(a + 1 .. b, T)
  BY <1>1, ZenonT(60) DEF Distinct, Bijection, Injection, Surjection, IsInjective
<1>3. IsFiniteSet(a + 1 .. b) /\ Cardinality(a + 1 .. b) = b - a
  <2>1. a + 1 \in Int /\ b \in Int
    OBVIOUS
  <2>2. /\ IsFiniteSet(a + 1 .. b)
        /\ Cardinality(a + 1 .. b) = IF a + 1 > b THEN 0 ELSE b - (a + 1) + 1
    BY <2>1, FS_Interval
  <2> QED
    BY <2>2
<1> HIDE DEF f, T
<1>4. Cardinality(T) = Cardinality(a + 1 .. b)
  BY <1>2, <1>3, FS_Bijection DEF ExistsBijection
<1> QED
  BY <1>3, <1>4 DEF T

(* Ring q is ring r with the processes N put at its end, in some order. *)
Grown(r, q, N) ==
  /\ q \in Rings /\ Distinct(Held(q)) /\ Len(Held(r)) <= Len(Held(q))
  /\ \A k \in 1 .. Len(Held(r)) : Held(q)[k] = Held(r)[k]
  /\ {Held(q)[k] : k \in Len(Held(r)) + 1 .. Len(Held(q))} = N

LEMMA RingWith ==
  ASSUME NEW r \in RingType, NEW e \in 0 .. NPROC, NEW cells \in [-1 .. NPROC -> 0 .. NPROC]
  PROVE  [r EXCEPT !.slot = cells, !.end = e] \in RingType
  BY DEF RingType

LEMMA EnqueTypes ==
  ASSUME NEW r \in RingType, NEW p \in Procs
  PROVE  Enque(r, Cells, p) \in RingType
<1> USE CellsAre
<1>1. /\ r.start \in 0 .. NPROC /\ r.end \in 0 .. NPROC
      /\ r.slot \in [-1 .. NPROC -> 0 .. NPROC]
      /\ r = [start |-> r.start, end |-> r.end, slot |-> r.slot]
  BY DEF RingType
<1>2. p \in 0 .. NPROC
  BY ProcNumbers
<1> DEFINE slots == [r.slot EXCEPT ![r.end] = p]
           next == (r.end + 1) % Cells
<1>3. slots \in [-1 .. NPROC -> 0 .. NPROC]
  BY <1>1, <1>2
<1>4. next \in 0 .. NPROC
  <2>1. 1 \in 0 .. NPROC + 1
    OBVIOUS
  <2> QED
    BY <1>1, <2>1, Around
<1> HIDE DEF slots, next
<1>6. [r EXCEPT !.slot = slots, !.end = next] \in RingType
  BY <1>3, <1>4, RingWith
<1> QED
  BY <1>6 DEF Enque, slots, next

LEMMA GrownByOne ==
  ASSUME NEW r \in Rings, NEW q, NEW N, Grown(r, q, N),
         NEW p \in Procs, p \notin Elems(Held(r)), p \notin N
  PROVE  Grown(r, Enque(q, Cells, p), N \cup {p})
<1> DEFINE s == Enque(q, Cells, p)
           a == Len(Held(r))
           b == Len(Held(q))
<1>1. /\ q \in Rings /\ Distinct(Held(q)) /\ a \in Nat /\ b \in Nat /\ a <= b
      /\ Held(q) \in Seq(Procs)
      /\ \A k \in 1 .. a : Held(q)[k] = Held(r)[k]
      /\ {Held(q)[k] : k \in a + 1 .. b} = N
  BY HeldInRings, LenProperties DEF Grown
<1>2. p \notin Elems(Held(q))
  <2> SUFFICES ASSUME NEW k \in 1 .. b, Held(q)[k] = p PROVE FALSE
    BY DEF Elems
  <2>1. CASE k \in 1 .. a
    BY <1>1, <2>1 DEF Elems
  <2>2. CASE k \in a + 1 .. b
    BY <1>1, <2>2
  <2> QED
    BY <1>1, <2>1, <2>2
<1>3. s \in Rings /\ Held(s) = Append(Held(q), p)
  <2>1. b < NPROC
    BY <1>1, <1>2, RoomLeft
  <2> QED
    BY <1>1, <2>1, Enqued
<1> HIDE DEF s, a, b
<1>4. /\ Len(Held(s)) = b + 1
      /\ \A k \in 1 .. b : Held(s)[k] = Held(q)[k]
      /\ Held(s)[b + 1] = p
  BY <1>1, <1>3, AppendProperties DEF b
<1>5. Distinct(Held(s))
  <2> SUFFICES ASSUME NEW j \in 1 .. b + 1, NEW k \in 1 .. b + 1, Held(s)[j] = Held(s)[k]
               PROVE  j = k
    BY <1>4 DEF Distinct
  <2>1. \A i \in 1 .. b : Held(q)[i] # p
    BY <1>2 DEF Elems, b
  <2>2. CASE j \in 1 .. b /\ k \in 1 .. b
    BY <1>1, <1>4, <2>2 DEF Distinct, b
  <2>3. CASE j = b + 1
    BY <1>1, <1>4, <2>1, <2>3
  <2>4. CASE k = b + 1
    BY <1>1, <1>4, <2>1, <2>4
  <2> QED
    BY <1>1, <2>2, <2>3, <2>4
<1>6. {Held(s)[k] : k \in a + 1 .. b + 1} = N \cup {p}
  <2>1. ASSUME NEW k \in a + 1 .. b + 1, k # b + 1
        PROVE  k \in a + 1 .. b /\ k \in 1 .. b
    <3>1. k \in a + 1 .. b
      BY <1>1, <2>1
    <3>2. k \in 1 .. b
      BY <1>1, <3>1
    <3> QED
      BY <3>1, <3>2
  <2>2. \A k \in a + 1 .. b : k \in a + 1 .. b + 1 /\ k \in 1 .. b
    BY <1>1
  <2>3. b + 1 \in a + 1 .. b + 1
    BY <1>1
  <2> QED
    BY <1>1, <1>4, <2>1, <2>2, <2>3, ZenonT(60)
<1>7. \A k \in 1 .. a : k \in 1 .. b
  BY <1>1
<1>8. a <= b + 1
  BY <1>1
<1> QED
  BY <1>1, <1>3, <1>4, <1>5, <1>6, <1>7, <1>8 DEF Grown, s, a

(* enque() one after the other: every process that belongs in the ring gets *)
(* into it, as there is room.                                               *)
LEMMA EnquedEach ==
  ASSUME NEW r \in Rings, Distinct(Held(r)), NEW ps \in Seq(Procs), Distinct(ps),
         Elems(ps) \cap Elems(Held(r)) = {}, NEW mine
  PROVE  Grown(r, EnqueEach(r, ps, mine), Elems(ps) \cap mine)
<1> DEFINE n == Len(ps)
           at == CHOOSE f : f = [i \in 0 .. n |->
                    IF i = 0 THEN r
                    ELSE IF ps[i] \in mine THEN Enque(f[i - 1], Cells, ps[i]) ELSE f[i - 1]]
<1>1. n \in Nat /\ \A i \in 1 .. n : ps[i] \in Procs
  BY LenProperties, ElementOfSeq
<1>2. at = [i \in 0 .. n |->
             IF i = 0 THEN r
             ELSE IF ps[i] \in mine THEN Enque(at[i - 1], Cells, ps[i]) ELSE at[i - 1]]
  <2> DEFINE step == [i \in 1 .. n |-> [x \in RingType |->
                        IF ps[i] \in mine THEN Enque(x, Cells, ps[i]) ELSE x]]
  <2>1. step \in StepsOn(n, RingType)
    BY <1>1, EnqueTypes DEF StepsOn
  <2>2. r \in RingType
    BY HeldInRings
  <2> HIDE DEF n, step
  <2>3. \E f : Follows(f, n, RingType, r, step)
    BY <1>1, <2>1, <2>2, Iterated
  <2>4. PICK f : /\ f \in [0 .. n -> RingType] /\ f[0] = r
                 /\ \A i \in 1 .. n : f[i] = step[i][f[i - 1]]
    BY <2>3 DEF Follows
  <2>5. ASSUME NEW i \in 0 .. n
        PROVE  f[i] = IF i = 0 THEN r
                      ELSE IF ps[i] \in mine THEN Enque(f[i - 1], Cells, ps[i]) ELSE f[i - 1]
    <3>1. CASE i # 0
      <4>1. i \in 1 .. n /\ i - 1 \in 0 .. n
        BY <1>1, <3>1
      <4>2. f[i] = step[i][f[i - 1]] /\ f[i - 1] \in RingType
        BY <2>4, <4>1
      <4> QED
        BY <3>1, <4>1, <4>2 DEF step
    <3> QED
      BY <2>4, <3>1
  <2>6. f = [i \in 0 .. n |->
              IF i = 0 THEN r
              ELSE IF ps[i] \in mine THEN Enque(f[i - 1], Cells, ps[i]) ELSE f[i - 1]]
    <3>1. f = [i \in 0 .. n |-> f[i]]
      BY <2>4
    <3>2. [i \in 0 .. n |-> f[i]] =
          [i \in 0 .. n |->
              IF i = 0 THEN r
              ELSE IF ps[i] \in mine THEN Enque(f[i - 1], Cells, ps[i]) ELSE f[i - 1]]
      BY <2>5, Zenon
    <3> QED
      BY <3>1, <3>2, Zenon
  <2> QED
    BY <2>6, Zenon
<1> HIDE DEF at, n
<1> DEFINE New(i) == {ps[j] : j \in 1 .. i} \cap mine
           G == {i \in 0 .. n : Grown(r, at[i], New(i))}
<1>3. 0 \in G
  <2>1. at[0] = r /\ 0 \in 0 .. n
    <3>1. 0 \in 0 .. n
      BY <1>1
    <3> QED
      BY <1>2, <3>1
  <2>2. New(0) = {}
    OBVIOUS
  <2>3. {Held(r)[k] : k \in Len(Held(r)) + 1 .. Len(Held(r))} = {}
    <3>1. Len(Held(r)) \in Nat
      BY HeldInRings, LenProperties
    <3>2. Len(Held(r)) + 1 .. Len(Held(r)) = {}
      BY <3>1
    <3> QED
      BY <3>2
  <2>4. Len(Held(r)) <= Len(Held(r))
    BY HeldInRings, LenProperties
  <2>5. Grown(r, r, {})
    BY <2>3, <2>4 DEF Grown
  <2> HIDE DEF New
  <2> QED
    BY <2>1, <2>2, <2>5
<1>4. ASSUME NEW i \in 0 .. n, i # n, i \in G
      PROVE  i + 1 \in G
  <2>1. i + 1 \in 0 .. n /\ i + 1 \in 1 .. n /\ i + 1 # 0 /\ i + 1 - 1 = i
    BY <1>1, <1>4
  <2>2. at[i + 1] = IF ps[i + 1] \in mine THEN Enque(at[i], Cells, ps[i + 1]) ELSE at[i]
    BY <1>2, <2>1
  <2>3. New(i + 1) = IF ps[i + 1] \in mine THEN New(i) \cup {ps[i + 1]} ELSE New(i)
    <3>1. 1 .. i + 1 = (1 .. i) \cup {i + 1}
      BY <1>1
    <3>2. {ps[j] : j \in 1 .. i + 1} = {ps[j] : j \in 1 .. i} \cup {ps[i + 1]}
      BY <3>1
    <3> QED
      BY <3>2
  <2>4. ps[i + 1] \in Procs /\ ps[i + 1] \notin Elems(Held(r))
    BY <1>1, <2>1 DEF Elems, n
  <2>5. ps[i + 1] \notin New(i)
    <3> SUFFICES ASSUME NEW j \in 1 .. i, ps[j] = ps[i + 1] PROVE FALSE
      OBVIOUS
    <3>1. j \in 1 .. n /\ j # i + 1
      BY <1>1
    <3> QED
      BY <2>1, <3>1 DEF Distinct, n
  <2> HIDE DEF New
  <2>6. CASE ps[i + 1] \in mine
    BY <1>4, <2>1, <2>2, <2>3, <2>4, <2>5, <2>6, GrownByOne
  <2>7. CASE ps[i + 1] \notin mine
    BY <1>4, <2>1, <2>2, <2>3, <2>7
  <2> QED
    BY <2>6, <2>7
<1>5. n \in G
  <2> HIDE DEF G
  <2>1. \A i \in 0 .. n : i \in G
    BY <1>1, <1>3, <1>4, UpTo
  <2> QED
    BY <1>1, <2>1
<1>6. EnqueEach(r, ps, mine) = at[n]
  BY Zenon DEF EnqueEach, at, n
<1> QED
  BY <1>5, <1>6 DEF Elems, n

LEMMA OneMore ==
  ASSUME NEW T, NEW s \in Seq(T), Distinct(s), NEW p \in T, p \notin Elems(s)
  PROVE  /\ Append(s, p) \in Seq(T) /\ Distinct(Append(s, p))
         /\ Elems(Append(s, p)) = Elems(s) \cup {p}
<1> DEFINE n == Len(s)
           t == Append(s, p)
<1>1. n \in Nat
  BY LenProperties
<1>2. /\ t \in Seq(T) /\ Len(t) = n + 1 /\ t[n + 1] = p
      /\ \A k \in 1 .. n : t[k] = s[k]
  BY AppendProperties
<1>3. \A k \in 1 .. n : s[k] # p
  BY DEF Elems
<1>4. \A j, k \in 1 .. n : s[j] = s[k] => j = k
  BY DEF Distinct
<1>5. Elems(s) = {s[k] : k \in 1 .. n}
  BY DEF Elems
<1> HIDE DEF n, t
<1>6. \A k \in 1 .. n + 1 : k \in 1 .. n \/ k = n + 1
  BY <1>1
<1>7. \A k \in 1 .. n : k \in 1 .. n + 1
  BY <1>1
<1>8. n + 1 \in 1 .. n + 1
  BY <1>1
<1>9. Distinct(t)
  BY <1>2, <1>3, <1>4, <1>6 DEF Distinct
<1>10. {t[k] : k \in 1 .. n + 1} = {s[k] : k \in 1 .. n} \cup {p}
  BY <1>2, <1>6, <1>7, <1>8, Zenon
<1> QED
  BY <1>2, <1>5, <1>9, <1>10 DEF t, Elems

(* The scan of wakeup1() finds each process that is to be woken, once. *)
LEMMA SlotOrder ==
  ASSUME NEW S \in SUBSET Procs
  PROVE  /\ InSlotOrder(S) \in Seq(Procs) /\ Distinct(InSlotOrder(S))
         /\ Elems(InSlotOrder(S)) = S
<1> DEFINE n == NPROC
           upto == CHOOSE f : f = [i \in 0 .. n |->
                     IF i = 0 THEN << >>
                     ELSE IF i \in S THEN Append(f[i - 1], i) ELSE f[i - 1]]
<1>1. n \in Nat /\ Procs = 1 .. n
  BY CellsAre, ProcNumbers
<1> HIDE DEF n
<1>2. upto = [i \in 0 .. n |->
                IF i = 0 THEN << >>
                ELSE IF i \in S THEN Append(upto[i - 1], i) ELSE upto[i - 1]]
  <2> DEFINE step == [i \in 1 .. n |-> [x \in Seq(Nat) |-> IF i \in S THEN Append(x, i) ELSE x]]
  <2>1. step \in StepsOn(n, Seq(Nat))
    <3>1. ASSUME NEW i \in 1 .. n, NEW x \in Seq(Nat)
          PROVE  (IF i \in S THEN Append(x, i) ELSE x) \in Seq(Nat)
      <4>1. i \in Nat
        BY <1>1
      <4> QED
        BY <4>1, AppendProperties
    <3> QED
      BY <3>1 DEF StepsOn
  <2>2. << >> \in Seq(Nat)
    BY EmptySeq
  <2> HIDE DEF step
  <2>3. \E f : Follows(f, n, Seq(Nat), << >>, step)
    BY <1>1, <2>1, <2>2, Iterated
  <2>4. PICK f : /\ f \in [0 .. n -> Seq(Nat)] /\ f[0] = << >>
                 /\ \A i \in 1 .. n : f[i] = step[i][f[i - 1]]
    BY <2>3 DEF Follows
  <2>5. ASSUME NEW i \in 0 .. n
        PROVE  f[i] = IF i = 0 THEN << >>
                      ELSE IF i \in S THEN Append(f[i - 1], i) ELSE f[i - 1]
    <3>1. CASE i # 0
      <4>1. i \in 1 .. n /\ i - 1 \in 0 .. n
        BY <1>1, <3>1
      <4>2. f[i] = step[i][f[i - 1]] /\ f[i - 1] \in Seq(Nat)
        BY <2>4, <4>1
      <4> QED
        BY <3>1, <4>1, <4>2 DEF step
    <3> QED
      BY <2>4, <3>1
  <2>6. f = [i \in 0 .. n |->
               IF i = 0 THEN << >>
               ELSE IF i \in S THEN Append(f[i - 1], i) ELSE f[i - 1]]
    <3>1. f = [i \in 0 .. n |-> f[i]]
      BY <2>4
    <3>2. [i \in 0 .. n |-> f[i]] =
          [i \in 0 .. n |->
               IF i = 0 THEN << >>
               ELSE IF i \in S THEN Append(f[i - 1], i) ELSE f[i - 1]]
      BY <2>5, Zenon
    <3> QED
      BY <3>1, <3>2, Zenon
  <2> QED
    BY <2>6, Zenon
<1> HIDE DEF upto
<1> DEFINE Right(i) == /\ upto[i] \in Seq(Procs) /\ Distinct(upto[i])
                       /\ Elems(upto[i]) = S \cap 1 .. i
           G == {i \in 0 .. n : Right(i)}
<1>3. 0 \in G
  <2>1. 0 \in 0 .. n /\ upto[0] = << >>
    <3>1. 0 \in 0 .. n
      BY <1>1
    <3> QED
      BY <1>2, <3>1
  <2>2. << >> \in Seq(Procs) /\ Len(<< >>) = 0 /\ 1 .. 0 = {}
    BY EmptySeq
  <2>3. Distinct(<< >>) /\ Elems(<< >>) = {}
    BY <2>2 DEF Distinct, Elems
  <2> QED
    BY <2>1, <2>2, <2>3
<1>4. ASSUME NEW i \in 0 .. n, i # n, i \in G
      PROVE  i + 1 \in G
  <2>1. i + 1 \in 0 .. n /\ i + 1 \in Procs /\ i + 1 # 0 /\ i + 1 - 1 = i
    BY <1>1, <1>4
  <2>2. upto[i + 1] = IF i + 1 \in S THEN Append(upto[i], i + 1) ELSE upto[i]
    <3>1. \A j \in 0 .. n : j # 0 =>
            upto[j] = IF j \in S THEN Append(upto[j - 1], j) ELSE upto[j - 1]
      BY <1>2, Zenon
    <3>2. upto[i + 1] = IF i + 1 \in S THEN Append(upto[i + 1 - 1], i + 1)
                        ELSE upto[i + 1 - 1]
      BY <2>1, <3>1
    <3> QED
      BY <2>1, <3>2
  <2>3. 1 .. i + 1 = (1 .. i) \cup {i + 1} /\ i + 1 \notin 1 .. i
    BY <1>1
  <2>4. Right(i)
    BY <1>4
  <2>5. CASE i + 1 \in S
    <3>1. i + 1 \notin Elems(upto[i])
      BY <2>3, <2>4
    <3>2. /\ Append(upto[i], i + 1) \in Seq(Procs) /\ Distinct(Append(upto[i], i + 1))
          /\ Elems(Append(upto[i], i + 1)) = Elems(upto[i]) \cup {i + 1}
      BY <2>1, <2>4, <3>1, OneMore
    <3> QED
      BY <2>1, <2>2, <2>3, <2>4, <2>5, <3>2
  <2>6. CASE i + 1 \notin S
    BY <2>1, <2>2, <2>3, <2>4, <2>6
  <2> QED
    BY <2>5, <2>6
<1>5. n \in G
  <2> HIDE DEF G
  <2>1. \A i \in 0 .. n : i \in G
    BY <1>1, <1>3, <1>4, UpTo
  <2> QED
    BY <1>1, <2>1
<1>6. InSlotOrder(S) = upto[n]
  BY Zenon DEF InSlotOrder, upto, n
<1>7. S \cap 1 .. n = S
  BY <1>1
<1> QED
  BY <1>5, <1>6, <1>7
-----------------------------------------------------------------------------
(* The inductive invariant of the MLQ and DMLQ builds: beside that of the  *)
(* process table, every process that is in use has a priority, the one     *)
(* that fork() is making from the moment its image has been copied, and    *)
(* the ring of a level holds the RUNNABLE processes of that priority.      *)
Ready(l) == {p \in Procs : state[p] = "RUNNABLE" /\ priority[p] = l}

Rankings ==
  /\ priority \in [Procs -> 0 .. NUMPR]
  /\ \A p \in Procs : state[p] \notin {"UNUSED", "EMBRYO"} => priority[p] \in Levels
  /\ \A p \in Procs : kpc[p] = "copied" => priority[child[p]] \in Levels

Queued ==
  /\ multiqueue \in [Levels -> Rings]
  /\ \A l \in Levels : /\ Distinct(Held(multiqueue[l]))
                       /\ Elems(Held(multiqueue[l])) = Ready(l)

MlqInductive == Inductive /\ Rankings /\ Queued

LEMMA LevelNumbers ==
  NUMPR \in Nat /\ MDPR \in Levels /\ HIPR \in Levels /\ \A l \in Levels : l \in 0 .. NUMPR
<1>1. NUMPR \in Nat /\ MDPR \in 1 .. NUMPR
  BY LevelsAssumption DEF Levels
<1>2. 1 \in 1 .. NUMPR
  BY <1>1
<1> QED
  BY <1>1, <1>2 DEF Levels, HIPR

(* A step makes the processes W RUNNABLE, and no other ceases to be; no    *)
(* other is put to use, and what a fork() copies gets a priority.          *)
MakesReady(W) ==
  \A q \in Procs :
    /\ state'[q] = "RUNNABLE" <=> state[q] = "RUNNABLE" \/ q \in W
    /\ q \in W => state[q] # "RUNNABLE"
    /\ state'[q] \notin {"UNUSED", "EMBRYO"} => q \in W \/ state[q] \notin {"UNUSED", "EMBRYO"}
    /\ kpc'[q] = "copied" => /\ child'[q] = child[q]
                             /\ kpc[q] = "copied" \/ priority'[child[q]] \in Levels

(* The priorities may change, but not of who waits. *)
Reranks(W) ==
  /\ priority' \in [Procs -> 0 .. NUMPR]
  /\ \A q \in Procs : /\ priority'[q] = priority[q] \/ priority'[q] \in Levels
                      /\ q \in W => priority'[q] \in Levels
                      /\ state[q] = "RUNNABLE" => priority'[q] = priority[q]

(* The rings get the processes W. *)
RingsGrow(W) ==
  /\ multiqueue' \in [Levels -> Rings]
  /\ \A l \in Levels : Grown(multiqueue[l], multiqueue'[l], {q \in W : priority'[q] = l})

LEMMA GrownByNone ==
  ASSUME NEW r \in Rings, Distinct(Held(r))
  PROVE  Grown(r, r, {})
<1>1. Len(Held(r)) \in Nat
  BY HeldInRings, LenProperties
<1>2. Len(Held(r)) + 1 .. Len(Held(r)) = {} /\ Len(Held(r)) <= Len(Held(r))
  BY <1>1
<1>3. {Held(r)[k] : k \in Len(Held(r)) + 1 .. Len(Held(r))} = {}
  BY <1>2
<1> QED
  BY <1>2, <1>3 DEF Grown

LEMMA EnquedAll ==
  ASSUME MlqInductive, NEW ps \in Seq(Procs), Distinct(ps),
         \A p \in Elems(ps) : state[p] # "RUNNABLE", EnqueAll(ps)
  PROVE  RingsGrow(Elems(ps))
<1>1. ASSUME NEW l \in Levels
      PROVE  /\ multiqueue'[l] \in Rings
             /\ Grown(multiqueue[l], multiqueue'[l], {q \in Elems(ps) : priority'[q] = l})
  <2> DEFINE mine == {p \in Procs : priority'[p] = l}
  <2>1. multiqueue'[l] = EnqueEach(multiqueue[l], ps, mine)
    BY DEF EnqueAll
  <2>2. /\ multiqueue[l] \in Rings /\ Distinct(Held(multiqueue[l]))
        /\ Elems(Held(multiqueue[l])) = Ready(l)
    BY DEF MlqInductive, Queued
  <2>3. Elems(ps) \cap Elems(Held(multiqueue[l])) = {}
    BY <2>2 DEF Ready
  <2>4. \A p \in Elems(ps) : p \in Procs
    BY ElementOfSeq DEF Elems
  <2>5. Elems(ps) \cap mine = {q \in Elems(ps) : priority'[q] = l}
    BY <2>4
  <2> HIDE DEF mine
  <2>6. Grown(multiqueue[l], multiqueue'[l], Elems(ps) \cap mine)
    BY <2>1, <2>2, <2>3, EnquedEach
  <2> QED
    BY <2>5, <2>6 DEF Grown
<1>2. multiqueue' = [l \in Levels |-> multiqueue'[l]]
  BY DEF EnqueAll
<1>3. multiqueue' \in [Levels -> Rings]
  BY <1>1, <1>2
<1> QED
  BY <1>1, <1>3 DEF RingsGrow

LEMMA PolicyCounts == \A S : Policy!Cardinality(S) = Cardinality(S)
  BY Zenon DEF Policy!Cardinality, Cardinality, Policy!IsFiniteSet, IsFiniteSet

LEMMA WaitingIs ==
  /\ \A l \in Levels : Waiting[l] = Held(multiqueue[l])
  /\ \A l \in Levels : Waiting'[l] = Held(multiqueue'[l])
<1> USE DEF Waiting, Held
<1> QED
  OBVIOUS

(* What becomes RUNNABLE is put at the end of the queues of its level, and *)
(* nothing else happens to them.                                           *)
LEMMA QueuesGrow ==
  ASSUME MlqInductive, Inductive', NEW W \in SUBSET Procs,
         MakesReady(W), Reranks(W), RingsGrow(W)
  PROVE  MlqInductive' /\ Policy!QueueNewlyReady
<1>1. /\ priority \in [Procs -> 0 .. NUMPR] /\ priority' \in [Procs -> 0 .. NUMPR]
      /\ multiqueue \in [Levels -> Rings] /\ multiqueue' \in [Levels -> Rings]
  BY DEF MlqInductive, Rankings, Queued, Reranks, RingsGrow
<1>2. Rankings'
  <2>1. ASSUME NEW p \in Procs, state'[p] \notin {"UNUSED", "EMBRYO"}
        PROVE  priority'[p] \in Levels
    BY <2>1 DEF MakesReady, Reranks, MlqInductive, Rankings
  <2>2. ASSUME NEW p \in Procs, kpc'[p] = "copied"
        PROVE  priority'[child'[p]] \in Levels
    <3>1. CASE kpc[p] = "copied"
      <4>1. child'[p] = child[p] /\ priority[child[p]] \in Levels
        BY <2>2, <3>1 DEF MakesReady, MlqInductive, Rankings
      <4>2. child[p] \in Procs
        BY <3>1 DEF MlqInductive, Inductive, TypeOK, Placement
      <4> QED
        BY <4>1, <4>2 DEF Reranks
    <3>2. CASE kpc[p] # "copied"
      BY <2>2, <3>2 DEF MakesReady
    <3> QED
      BY <3>1, <3>2
  <2> QED
    BY <1>1, <2>1, <2>2 DEF Rankings
<1>3. ASSUME NEW l \in Levels
      PROVE  /\ Distinct(Held(multiqueue'[l])) /\ Elems(Held(multiqueue'[l])) = Ready(l)'
             /\ {q \in W : priority'[q] = l} = Policy!NewlyReady(l)
             /\ Len(Held(multiqueue'[l])) =
                  Len(Held(multiqueue[l])) + Cardinality(Policy!NewlyReady(l))
             /\ SubSeq(Held(multiqueue'[l]), 1, Len(Held(multiqueue[l]))) = Held(multiqueue[l])
             /\ {Held(multiqueue'[l])[i] : i \in Len(Held(multiqueue[l])) + 1 ..
                   Len(Held(multiqueue'[l]))} = Policy!NewlyReady(l)
  <2> DEFINE s == Held(multiqueue[l])
             t == Held(multiqueue'[l])
             a == Len(s)
             b == Len(t)
             N == {q \in W : priority'[q] = l}
  <2>1. /\ s \in Seq(Procs) /\ t \in Seq(Procs) /\ a \in Nat /\ b \in Nat
    BY <1>1, HeldInRings, LenProperties
  <2>2. /\ Distinct(t) /\ a <= b /\ \A k \in 1 .. a : t[k] = s[k]
        /\ {t[k] : k \in a + 1 .. b} = N
    BY DEF RingsGrow, Grown
  <2>3. Elems(s) = Ready(l)
    BY DEF MlqInductive, Queued
  <2>4. N = Policy!NewlyReady(l)
    BY DEF MakesReady, Policy!NewlyReady, Policy!Procs, Procs
  <2> HIDE DEF s, t, a, b, N
  <2>5. Elems(t) = Elems(s) \cup N
    <3>1. \A k \in 1 .. b : k \in 1 .. a \/ k \in a + 1 .. b
      BY <2>1
    <3>2. \A k \in 1 .. a : k \in 1 .. b
      BY <2>1, <2>2
    <3>3. \A k \in a + 1 .. b : k \in 1 .. b
      BY <2>1
    <3>4. {t[k] : k \in 1 .. b} = {s[k] : k \in 1 .. a} \cup {t[k] : k \in a + 1 .. b}
      BY <2>2, <3>1, <3>2, <3>3, Zenon
    <3> QED
      BY <2>2, <3>4 DEF Elems, a, b
  <2>6. Ready(l) \cup N = Ready(l)'
    <3>1. \A q \in Procs : q \in Ready(l)' <=> state'[q] = "RUNNABLE" /\ priority'[q] = l
      BY DEF Ready
    <3>2. \A q \in Procs : q \in Ready(l) <=> state[q] = "RUNNABLE" /\ priority[q] = l
      BY DEF Ready
    <3>3. \A q \in Procs : q \in N <=> q \in W /\ priority'[q] = l
      BY DEF N
    <3>4. Ready(l) \subseteq Procs /\ Ready(l)' \subseteq Procs /\ N \subseteq Procs
      BY DEF Ready, N
    <3>5. \A q \in Procs : q \in Ready(l)' <=> q \in Ready(l) \/ q \in N
      BY <3>1, <3>2, <3>3 DEF MakesReady, Reranks
    <3> QED
      BY <3>4, <3>5
  <2>7. b = a + Cardinality(N)
    <3>1. Cardinality({t[k] : k \in a + 1 .. b}) = b - a
      BY <2>1, <2>2, CountOfPlaces DEF b
    <3>2. Cardinality(N) = b - a
      BY <2>2, <3>1
    <3> HIDE <2>2
    <3> QED
      BY <2>1, <3>2
  <2>8. SubSeq(t, 1, a) = s
    <3>1. \A k \in 1 .. a : t[k] \in Procs
      BY <2>1, <2>2, ElementOfSeq DEF a
    <3>2. 1 \in Int /\ a \in Int
      BY <2>1
    <3>3. /\ SubSeq(t, 1, a) \in Seq(Procs)
          /\ Len(SubSeq(t, 1, a)) = IF 1 <= a THEN a - 1 + 1 ELSE 0
          /\ \A i \in 1 .. a - 1 + 1 : SubSeq(t, 1, a)[i] = t[1 + i - 1]
      BY <3>1, <3>2, SubSeqProperties
    <3>4. Len(SubSeq(t, 1, a)) = a
      BY <2>1, <3>3
    <3>5. \A i \in 1 .. a : SubSeq(t, 1, a)[i] = s[i]
      <4> TAKE i \in 1 .. a
      <4>1. i \in 1 .. a - 1 + 1 /\ 1 + i - 1 = i
        BY <2>1
      <4> QED
        BY <2>2, <3>3, <4>1
    <3> QED
      BY <2>1, <3>3, <3>4, <3>5, SeqEqual DEF a
  <2> QED
    BY <2>2, <2>3, <2>4, <2>5, <2>6, <2>7, <2>8 DEF s, t, a, b, N
<1>4. Queued'
  BY <1>1, <1>3 DEF Queued
<1>5. Policy!QueueNewlyReady
  <2>1. Policy!Levels = Levels
    BY DEF Policy!Levels, Levels
  <2>2. SUFFICES ASSUME NEW l \in Levels
                 PROVE  /\ Len(Waiting'[l]) = Len(Waiting[l]) + Cardinality(Policy!NewlyReady(l))
                        /\ SubSeq(Waiting'[l], 1, Len(Waiting[l])) = Waiting[l]
                        /\ {Waiting'[l][i] : i \in Len(Waiting[l]) + 1 .. Len(Waiting'[l])} =
                             Policy!NewlyReady(l)
    BY <2>1, PolicyCounts, Zenon DEF Policy!QueueNewlyReady
  <2>3. Waiting[l] = Held(multiqueue[l]) /\ Waiting'[l] = Held(multiqueue'[l])
    BY WaitingIs
  <2> QED
    BY <1>3, <2>3
<1> QED
  BY <1>2, <1>4, <1>5 DEF MlqInductive

(* The policy has the steps of the process table. *)
LEMMA StepOfPolicy ==
  ASSUME NEW c \in CPUs, NEW p \in Procs, ProcStep(c, p)
  PROVE  Policy!ProcStep(c, p)
  BY DEF ProcStep, OwnStep, ForkStep, WaitStep, SleepStep, AllocProc,
         ForkNoMemory, ForkCopy, ForkRun, EnterExit, Exit, EnterWait,
         WaitFail, WaitSleep, Reap, EnterSleep, SleepReturn, SleepAgain,
         TickSleep, Resume, Kill, Yield, InSyscall, Live, LockFree,
         TicksLocked, Scanning, ZombieChildren, Children, Woken, ExitWakes,
         Sched, InitProc, Procs, Null, procvars, cpuvars, Policy!ProcStep,
         Policy!OwnStep, Policy!ForkStep, Policy!WaitStep, Policy!SleepStep,
         Policy!AllocProc, Policy!ForkNoMemory, Policy!ForkCopy,
         Policy!ForkRun, Policy!EnterExit, Policy!Exit, Policy!EnterWait,
         Policy!WaitFail, Policy!WaitSleep, Policy!Reap, Policy!EnterSleep,
         Policy!SleepReturn, Policy!SleepAgain, Policy!TickSleep,
         Policy!Resume, Policy!Kill, Policy!Yield, Policy!InSyscall,
         Policy!Live, Policy!LockFree, Policy!TicksLocked, Policy!Scanning,
         Policy!ZombieChildren, Policy!Children, Policy!Woken,
         Policy!ExitWakes, Policy!Sched, Policy!InitProc, Policy!Procs,
         Policy!Null, Policy!procvars, Policy!cpuvars

LEMMA PolicyTick == Tick => Policy!Tick
  BY DEF Tick, LockFree, TicksLocked, Woken, Procs, Null, cpuvars, Policy!Tick,
         Policy!LockFree, Policy!TicksLocked, Policy!Woken, Policy!Procs, Policy!Null,
         Policy!cpuvars

LEMMA PolicyParts ==
  /\ Policy!vars = vars /\ Policy!Procs = Procs /\ Policy!Levels = Levels
  /\ Policy!mlqvars = <<vars, ran, priority, Waiting>>
  BY DEF vars, procvars, cpuvars, Procs, Levels, Policy!vars, Policy!procvars,
         Policy!cpuvars, Policy!Procs, Policy!Levels, Policy!mlqvars

(* A step that does no more than to queue what it makes RUNNABLE. *)
Queueing ==
  \E W \in SUBSET Procs : MakesReady(W) /\ Reranks(W) /\ RingsGrow(W)

LEMMA QueueingStep ==
  ASSUME MlqInductive, Inductive', Queueing, UNCHANGED ran,
         \/ \E c \in CPUs, p \in Procs : ProcStep(c, p)
         \/ Tick
         \/ UNCHANGED vars
  PROVE  MlqInductive' /\ Policy!PolicyStep
<1>1. PICK W \in SUBSET Procs : MakesReady(W) /\ Reranks(W) /\ RingsGrow(W)
  BY DEF Queueing
<1>2. MlqInductive' /\ Policy!QueueNewlyReady
  BY <1>1, QueuesGrow
<1>3. \/ \E c \in CPUs, p \in Policy!Procs : Policy!ProcStep(c, p)
      \/ Policy!Tick
      \/ UNCHANGED Policy!vars
  <2>1. UNCHANGED vars => UNCHANGED Policy!vars
    BY DEF vars, procvars, cpuvars, Policy!vars, Policy!procvars, Policy!cpuvars
  <2>2. Policy!Procs = Procs
    BY PolicyParts
  <2>3. CASE \E c \in CPUs, p \in Procs : ProcStep(c, p)
    BY <2>2, <2>3, StepOfPolicy
  <2> QED
    BY <2>1, <2>3, PolicyTick
<1>4. \A p \in Policy!Procs : state[p] = "RUNNABLE" => priority'[p] = priority[p]
  BY <1>1, PolicyParts DEF Reranks
<1> QED
  BY <1>2, <1>3, <1>4 DEF Policy!PolicyStep

LEMMA RingsStay ==
  ASSUME MlqInductive, UNCHANGED multiqueue
  PROVE  RingsGrow({})
<1>1. multiqueue \in [Levels -> Rings]
  BY DEF MlqInductive, Queued
<1>2. ASSUME NEW l \in Levels
      PROVE  Grown(multiqueue[l], multiqueue'[l], {q \in {} : priority'[q] = l})
  <2>1. Grown(multiqueue[l], multiqueue[l], {})
    BY <1>1, GrownByNone DEF MlqInductive, Queued
  <2>2. {q \in {} : priority'[q] = l} = {}
    OBVIOUS
  <2> QED
    BY <2>1, <2>2
<1> QED
  BY <1>1, <1>2 DEF RingsGrow

LEMMA QuietQueues ==
  ASSUME MlqInductive, NEW c \in CPUs, NEW p \in Procs, QuietStep(c, p),
         UNCHANGED <<priority, multiqueue>>
  PROVE  Queueing
<1>1. TypeOK /\ Placement /\ OneCPUPerProc /\ EmbryoOwned /\ InitLives
  BY DEF MlqInductive, Inductive, FamilyInv
<1>2. MakesReady({})
  <2> USE DEF MakesReady, Live, InSyscall
  <2>1. ASSUME NEW np \in Procs, AllocProc(c, p, np)
        PROVE  MakesReady({})
    BY <1>1, <2>1 DEF AllocProc, TypeOK
  <2>2. CASE ForkNoMemory(c, p)
    <3>1. child[p] \in Procs /\ state[child[p]] = "EMBRYO"
      BY <1>1, <2>2, LiveProc, ForkingChild DEF ForkNoMemory
    <3> QED
      BY <1>1, <2>2, <3>1 DEF ForkNoMemory, TypeOK
  <2>3. CASE EnterExit(c, p)
    BY <1>1, <2>3 DEF EnterExit, TypeOK
  <2>4. CASE Resume(c, p)
    BY <1>1, <2>4 DEF Resume, TypeOK
  <2>5. CASE WaitStep(c, p)
    <3>1. CASE EnterWait(c, p)
      BY <1>1, <3>1 DEF EnterWait, TypeOK, procvars
    <3>2. CASE WaitFail(c, p)
      BY <1>1, <3>2 DEF WaitFail, TypeOK, procvars
    <3>3. CASE WaitSleep(c, p)
      <4>1. state[p] = "RUNNING"
        BY <1>1, <3>3, LiveProc DEF WaitSleep, Scanning
      <4> QED
        BY <1>1, <3>3, <4>1 DEF WaitSleep, TypeOK
    <3>4. ASSUME NEW q \in Procs, Reap(c, p, q)
          PROVE  MakesReady({})
      BY <1>1, <3>4 DEF Reap, TypeOK, ZombieChildren
    <3> QED
      BY <2>5, <3>1, <3>2, <3>3, <3>4 DEF WaitStep
  <2>6. CASE SleepStep(c, p)
    <3>1. CASE EnterSleep(c, p) \/ SleepReturn(c, p) \/ SleepAgain(c, p)
      BY <1>1, <3>1 DEF EnterSleep, SleepReturn, SleepAgain, TypeOK, procvars
    <3>2. CASE TickSleep(c, p)
      <4>1. state[p] = "RUNNING"
        BY <1>1, <3>2, LiveProc DEF TickSleep
      <4> QED
        BY <1>1, <3>2, <4>1 DEF TickSleep, TypeOK
    <3> QED
      BY <2>6, <3>1, <3>2 DEF SleepStep
  <2> QED
    BY <2>1, <2>2, <2>3, <2>4, <2>5, <2>6 DEF QuietStep
<1>3. Reranks({})
  BY DEF Reranks, MlqInductive, Rankings
<1> QED
  BY <1>2, <1>3, RingsStay DEF Queueing


LEMMA NoneOrOne ==
  /\ << >> \in Seq(Procs) /\ Distinct(<< >>) /\ Elems(<< >>) = {}
  /\ \A q \in Procs : <<q>> \in Seq(Procs) /\ Distinct(<<q>>) /\ Elems(<<q>>) = {q}
<1>1. << >> \in Seq(Procs) /\ Len(<< >>) = 0 /\ 1 .. 0 = {}
  BY EmptySeq
<1>2. Distinct(<< >>) /\ Elems(<< >>) = {}
  BY <1>1 DEF Distinct, Elems
<1>3. ASSUME NEW q \in Procs
      PROVE  <<q>> \in Seq(Procs) /\ Distinct(<<q>>) /\ Elems(<<q>>) = {q}
  <2>1. <<q>> \in Seq(Procs) /\ Len(<<q>>) = 1 /\ <<q>>[1] = q
    OBVIOUS
  <2>2. \A k \in 1 .. 1 : k = 1
    OBVIOUS
  <2>3. Distinct(<<q>>)
    BY <2>1, <2>2 DEF Distinct
  <2>4. Elems(<<q>>) = {q}
    BY <2>1, <2>2 DEF Elems
  <2> QED
    BY <2>1, <2>3, <2>4
<1> QED
  BY <1>1, <1>2, <1>3

LEMMA OneQueued ==
  ASSUME MlqInductive, NEW q \in Procs, state[q] # "RUNNABLE", EnqueAll(<<q>>)
  PROVE  RingsGrow({q})
  BY NoneOrOne, EnquedAll

LEMMA ForkQueues ==
  ASSUME MlqInductive, NEW c \in CPUs, NEW p \in Procs,
         MForkCopy(c, p) \/ MForkRun(c, p)
  PROVE  Queueing
<1>1. TypeOK /\ Placement /\ OneCPUPerProc /\ EmbryoOwned /\ InitLives
  BY DEF MlqInductive, Inductive, FamilyInv
<1>2. Live(c, p) /\ kpc[p] \in {"allocated", "copied"}
  BY DEF MForkCopy, MForkRun, ForkCopy, ForkRun
<1>3. /\ state[p] = "RUNNING" /\ child[p] \in Procs /\ child[p] # p
      /\ state[child[p]] = "EMBRYO" /\ kpc[child[p]] = "user"
      /\ \A q \in Procs : child[q] = child[p] => q = p
  BY <1>1, <1>2, LiveProc, ForkingChild
<1>4. priority \in [Procs -> 0 .. NUMPR]
  BY DEF MlqInductive, Rankings
<1>5. CASE MForkCopy(c, p)
  <2>1. priority[p] \in Levels
    BY <1>3 DEF MlqInductive, Rankings
  <2>2. priority' = [priority EXCEPT ![child[p]] = priority[p]]
    BY <1>5 DEF MForkCopy
  <2>3. Reranks({})
    BY <1>3, <1>4, <2>1, <2>2 DEF Reranks
  <2>4. MakesReady({})
    <3>1. priority'[child[p]] \in Levels
      BY <1>3, <1>4, <2>1, <2>2
    <3> QED
      BY <1>1, <1>3, <1>5, <3>1 DEF MakesReady, MForkCopy, ForkCopy, TypeOK
  <2>5. RingsGrow({})
    BY <1>5, RingsStay DEF MForkCopy
  <2> QED
    BY <2>3, <2>4, <2>5 DEF Queueing
<1>6. CASE MForkRun(c, p)
  <2>1. RingsGrow({child[p]})
    BY <1>3, <1>6, OneQueued DEF MForkRun
  <2>2. priority[child[p]] \in Levels
    BY <1>6 DEF MlqInductive, Rankings, MForkRun, ForkRun
  <2>3. Reranks({child[p]})
    BY <1>3, <1>4, <1>6, <2>2 DEF Reranks, MForkRun
  <2>4. MakesReady({child[p]})
    BY <1>1, <1>3, <1>6 DEF MakesReady, MForkRun, ForkRun, TypeOK
  <2> QED
    BY <1>3, <2>1, <2>3, <2>4 DEF Queueing
<1> QED
  BY <1>5, <1>6

LEMMA YieldQueues ==
  ASSUME MlqInductive, NEW c \in CPUs, NEW p \in Procs,
         MSysYield(c, p) \/ TimerYield(c, p)
  PROVE  Queueing
<1>1. TypeOK /\ Placement /\ OneCPUPerProc
  BY DEF MlqInductive, Inductive
<1>2. Yield(c, p) /\ EnqueAll(<<p>>)
  BY DEF MSysYield, TimerYield
<1>3. state[p] = "RUNNING"
  BY <1>1, <1>2, LiveProc DEF Yield
<1>4. priority \in [Procs -> 0 .. NUMPR] /\ priority[p] \in Levels
  BY <1>3 DEF MlqInductive, Rankings
<1>5. RingsGrow({p})
  BY <1>2, <1>3, OneQueued
<1>6. MakesReady({p})
  BY <1>1, <1>2, <1>3 DEF MakesReady, Yield, TypeOK
<1>7. Reranks({p})
  <2>1. CASE priority' = priority
    BY <1>3, <1>4, <2>1 DEF Reranks
  <2>2. CASE priority[p] < LWPR /\ priority' = [priority EXCEPT ![p] = @ + 1]
    <3>1. priority[p] + 1 \in Levels /\ priority[p] + 1 \in 0 .. NUMPR
      BY <1>4, <2>2, LevelNumbers DEF Levels, LWPR
    <3> QED
      BY <1>3, <1>4, <2>2, <3>1 DEF Reranks
  <2> QED
    BY <2>1, <2>2 DEF MSysYield, TimerYield
<1> QED
  BY <1>5, <1>6, <1>7 DEF Queueing

LEMMA ExecQueues ==
  ASSUME MlqInductive, NEW c \in CPUs, NEW p \in Procs, Exec(c, p)
  PROVE  Queueing
<1>1. TypeOK /\ Placement /\ OneCPUPerProc
  BY DEF MlqInductive, Inductive
<1>2. state[p] = "RUNNING"
  BY <1>1, LiveProc DEF Exec, InSyscall
<1>3. priority \in [Procs -> 0 .. NUMPR]
  BY DEF MlqInductive, Rankings
<1>4. MDPR \in Levels /\ MDPR \in 0 .. NUMPR
  BY LevelNumbers
<1>5. Reranks({})
  BY <1>2, <1>3, <1>4 DEF Reranks, Exec
<1>6. MakesReady({})
  BY DEF MakesReady, Exec, vars, procvars
<1>7. RingsGrow({})
  BY RingsStay DEF Exec
<1> QED
  BY <1>5, <1>6, <1>7 DEF Queueing

LEMMA WakeQueues ==
  ASSUME MlqInductive, NEW ps \in Seq(Procs), Distinct(ps),
         \A p \in Elems(ps) : state[p] = "SLEEPING", Wake(ps)
  PROVE  Reranks(Elems(ps)) /\ RingsGrow(Elems(ps))
<1>1. RingsGrow(Elems(ps))
  BY EnquedAll DEF Wake
<1>2. priority \in [Procs -> 0 .. NUMPR]
  BY DEF MlqInductive, Rankings
<1>3. DOMAIN ps = 1 .. Len(ps)
  BY LenProperties
<1>4. ASSUME NEW q \in Procs
      PROVE  priority'[q] = IF DMLQ /\ q \in Elems(ps) THEN HIPR ELSE priority[q]
  BY <1>3 DEF Wake, Raised, Elems
<1>5. DOMAIN priority' = Procs /\ priority' = [q \in Procs |-> priority'[q]]
  BY DEF Wake, Raised
<1>6. HIPR \in Levels /\ HIPR \in 0 .. NUMPR
  BY LevelNumbers
<1>7. ASSUME NEW q \in Elems(ps)
      PROVE  q \in Procs /\ state[q] = "SLEEPING" /\ priority[q] \in Levels
  BY <1>7, ElementOfSeq DEF Elems, MlqInductive, Rankings
<1>8. \A q \in Procs : priority'[q] \in 0 .. NUMPR
  BY <1>2, <1>4, <1>6
<1>9. priority' \in [Procs -> 0 .. NUMPR]
  BY <1>5, <1>8
<1>10. ASSUME NEW q \in Procs
       PROVE  /\ priority'[q] = priority[q] \/ priority'[q] \in Levels
              /\ q \in Elems(ps) => priority'[q] \in Levels
              /\ state[q] = "RUNNABLE" => priority'[q] = priority[q]
  BY <1>4, <1>6, <1>7
<1> QED
  BY <1>1, <1>9, <1>10 DEF Reranks

(* wakeup(&ticks) queues the sleepers in the order of their slots. *)
LEMMA TickQueues ==
  ASSUME MlqInductive, Tick, Wake(WokenByTick)
  PROVE  Queueing
<1> DEFINE W == {p \in Procs : state[p] = "SLEEPING" /\ chan[p] = Ticks}
<1>1. WokenByTick \in Seq(Procs) /\ Distinct(WokenByTick) /\ Elems(WokenByTick) = W
  BY SlotOrder DEF WokenByTick
<1>2. Reranks(W) /\ RingsGrow(W)
  BY <1>1, WakeQueues
<1>3. MakesReady(W)
  BY DEF MakesReady, Tick, Woken, MlqInductive, Inductive, TypeOK
<1> QED
  BY <1>2, <1>3 DEF Queueing

LEMMA KillQueues ==
  ASSUME MlqInductive, NEW c \in CPUs, NEW p \in Procs, NEW t \in Procs,
         Kill(c, p, t), Wake(WokenByKill(t))
  PROVE  Queueing
<1>1. TypeOK
  BY DEF MlqInductive, Inductive
<1>2. CASE state[t] = "SLEEPING"
  <2>1. WokenByKill(t) = <<t>>
    BY <1>2 DEF WokenByKill
  <2>2. Reranks({t}) /\ RingsGrow({t})
    BY <1>2, <2>1, NoneOrOne, WakeQueues
  <2>3. MakesReady({t})
    BY <1>1, <1>2 DEF MakesReady, Kill, TypeOK
  <2> QED
    BY <2>2, <2>3 DEF Queueing
<1>3. CASE state[t] # "SLEEPING"
  <2>1. WokenByKill(t) = << >>
    BY <1>3 DEF WokenByKill
  <2>2. Reranks({}) /\ RingsGrow({})
    BY <2>1, NoneOrOne, WakeQueues
  <2>3. MakesReady({})
    BY <1>3 DEF MakesReady, Kill
  <2> QED
    BY <2>2, <2>3 DEF Queueing
<1> QED
  BY <1>2, <1>3

LEMMA Joined ==
  ASSUME NEW s \in Seq(Procs), NEW t \in Seq(Procs), Distinct(s), Distinct(t),
         Elems(s) \cap Elems(t) = {}
  PROVE  s \o t \in Seq(Procs) /\ Distinct(s \o t) /\ Elems(s \o t) = Elems(s) \cup Elems(t)
<1> DEFINE a == Len(s)
           b == Len(t)
<1>1. a \in Nat /\ b \in Nat
  BY LenProperties
<1>2. /\ s \o t \in Seq(Procs) /\ Len(s \o t) = a + b
      /\ \A i \in 1 .. a + b : (s \o t)[i] = IF i <= a THEN s[i] ELSE t[i - a]
  BY ConcatProperties
<1> HIDE DEF a, b
<1>3. ASSUME NEW i \in 1 .. a + b
      PROVE  \/ i \in 1 .. a /\ (s \o t)[i] = s[i] /\ (s \o t)[i] \in Elems(s)
             \/ i - a \in 1 .. b /\ i > a /\ (s \o t)[i] = t[i - a] /\ (s \o t)[i] \in Elems(t)
  <2>1. CASE i <= a
    <3>1. i \in 1 .. a
      BY <1>1, <2>1
    <3> QED
      BY <1>2, <2>1, <3>1 DEF Elems, a
  <2>2. CASE ~(i <= a)
    <3>1. i - a \in 1 .. b
      BY <1>1, <2>2
    <3>2. i > a
      BY <1>1, <2>2
    <3> QED
      BY <1>2, <2>2, <3>1, <3>2 DEF Elems, b
  <2> QED
    BY <2>1, <2>2
<1>4. ASSUME NEW i \in 1 .. a + b, NEW j \in 1 .. a + b, (s \o t)[i] = (s \o t)[j]
      PROVE  i = j
  <2>1. CASE (s \o t)[i] \in Elems(s)
    <3>1. i \in 1 .. a /\ j \in 1 .. a /\ s[i] = s[j]
      BY <1>3, <1>4, <2>1
    <3> QED
      BY <3>1 DEF Distinct, a
  <2>2. CASE (s \o t)[i] \in Elems(t)
    <3>1. i - a \in 1 .. b /\ j - a \in 1 .. b /\ t[i - a] = t[j - a]
      BY <1>3, <1>4, <2>2
    <3>2. i - a = j - a
      BY <3>1 DEF Distinct, b
    <3> QED
      BY <1>1, <3>2
  <2> QED
    BY <1>3, <2>1, <2>2
<1>5. Distinct(s \o t)
  BY <1>2, <1>4 DEF Distinct
<1>6. Elems(s \o t) = Elems(s) \cup Elems(t)
  <2>1. Elems(s \o t) \subseteq Elems(s) \cup Elems(t)
    BY <1>2, <1>3 DEF Elems
  <2>2. ASSUME NEW i \in 1 .. a
        PROVE  s[i] \in Elems(s \o t)
    <3>1. i \in 1 .. a + b /\ i <= a
      BY <1>1
    <3> QED
      BY <1>2, <3>1 DEF Elems
  <2>3. ASSUME NEW j \in 1 .. b
        PROVE  t[j] \in Elems(s \o t)
    <3>1. a + j \in 1 .. a + b /\ ~(a + j <= a) /\ a + j - a = j
      BY <1>1
    <3>2. PICK k \in 1 .. a + b : ~(k <= a) /\ k - a = j
      BY <1>1, <3>1
    <3>3. (s \o t)[k] = t[k - a]
      BY <1>2, <3>2
    <3> QED
      BY <1>2, <3>2, <3>3 DEF Elems
  <2>4. Elems(s) \subseteq Elems(s \o t)
    BY <2>2 DEF Elems, a
  <2>5. Elems(t) \subseteq Elems(s \o t)
    BY <2>3 DEF Elems, b
  <2> QED
    BY <2>1, <2>4, <2>5
<1> QED
  BY <1>2, <1>5, <1>6

(* exit() queues the parent if it sleeps in wait(), and then init if there *)
(* is a zombie for it and it is not the parent.                            *)
LEMMA ExitWoken ==
  ASSUME Inductive, NEW c \in CPUs, NEW p \in Procs, Exit(c, p)
  PROVE  LET ps == WokenByExit(p) IN
         /\ ps \in Seq(Procs) /\ Distinct(ps) /\ Elems(ps) \in SUBSET Procs
         /\ state[p] = "RUNNING" /\ p \notin Elems(ps)
         /\ \A q \in Elems(ps) : state[q] = "SLEEPING"
         /\ \A q \in Procs : state'[q] = IF q = p THEN "ZOMBIE"
                                        ELSE IF q \in Elems(ps) THEN "RUNNABLE" ELSE state[q]
<1> DEFINE told(q) == IF state[q] = "SLEEPING" /\ chan[q] = q THEN <<q>> ELSE << >>
           s == IF parent[p] # Null THEN told(parent[p]) ELSE << >>
           t == IF ZombieChildren(p) # {} /\ parent[p] # InitProc THEN told(InitProc)
                ELSE << >>
           W == {q \in Procs : /\ state[q] = "SLEEPING" /\ chan[q] = q
                               /\ \/ q = parent[p]
                                  \/ q = InitProc /\ ZombieChildren(p) # {}}
<1>1. TypeOK /\ Placement /\ OneCPUPerProc
  BY DEF Inductive
<1>2. InitProc \in Procs /\ Null \notin Procs /\ Ticks \notin Procs /\ Ticks # Null
  BY ConstantsAssumption DEF InitProc, Procs, Null
<1>3. state[p] = "RUNNING"
  BY <1>1, LiveProc DEF Exit
<1>4. WokenByExit(p) = s \o t
  BY DEF WokenByExit
<1>5. /\ s \in Seq(Procs) /\ Distinct(s)
      /\ Elems(s) = {q \in Procs : state[q] = "SLEEPING" /\ chan[q] = q /\ q = parent[p]}
  <2>1. CASE parent[p] \in Procs /\ state[parent[p]] = "SLEEPING" /\ chan[parent[p]] = parent[p]
    <3>1. s = <<parent[p]>>
      BY <1>2, <2>1
    <3>2. {parent[p]} = {q \in Procs : state[q] = "SLEEPING" /\ chan[q] = q /\ q = parent[p]}
      BY <2>1
    <3> QED
      BY <2>1, <3>1, <3>2, NoneOrOne
  <2>2. CASE ~(parent[p] \in Procs /\ state[parent[p]] = "SLEEPING" /\ chan[parent[p]] = parent[p])
    <3>1. s = << >>
      BY <1>1, <2>2 DEF TypeOK
    <3>2. {q \in Procs : state[q] = "SLEEPING" /\ chan[q] = q /\ q = parent[p]} = {}
      BY <2>2
    <3> QED
      BY <3>1, <3>2, NoneOrOne
  <2> QED
    BY <2>1, <2>2
<1>6. /\ t \in Seq(Procs) /\ Distinct(t)
      /\ Elems(t) = {q \in Procs : /\ state[q] = "SLEEPING" /\ chan[q] = q
                                   /\ q = InitProc /\ ZombieChildren(p) # {}
                                   /\ q # parent[p]}
  <2> DEFINE Now == /\ ZombieChildren(p) # {} /\ parent[p] # InitProc
                    /\ state[InitProc] = "SLEEPING" /\ chan[InitProc] = InitProc
  <2>1. CASE Now
    <3>1. t = <<InitProc>>
      BY <2>1
    <3>2. {InitProc} = {q \in Procs : /\ state[q] = "SLEEPING" /\ chan[q] = q
                                      /\ q = InitProc /\ ZombieChildren(p) # {}
                                      /\ q # parent[p]}
      BY <1>2, <2>1
    <3> QED
      BY <1>2, <3>1, <3>2, NoneOrOne
  <2>2. CASE ~Now
    <3>1. t = << >>
      BY <2>2
    <3>2. {q \in Procs : /\ state[q] = "SLEEPING" /\ chan[q] = q
                         /\ q = InitProc /\ ZombieChildren(p) # {} /\ q # parent[p]} = {}
      BY <2>2
    <3> QED
      BY <3>1, <3>2, NoneOrOne
  <2> QED
    BY <2>1, <2>2
<1> HIDE DEF s, t
<1>7. Elems(s) \cap Elems(t) = {} /\ Elems(s) \cup Elems(t) = W
  BY <1>5, <1>6
<1>8. WokenByExit(p) \in Seq(Procs) /\ Distinct(WokenByExit(p)) /\ Elems(WokenByExit(p)) = W
  BY <1>4, <1>5, <1>6, <1>7, Joined
<1>9. ASSUME NEW q \in Procs
      PROVE  state[q] = "SLEEPING" /\ chan[q] \in ExitWakes(p) <=> q \in W
  <2>1. state[q] = "SLEEPING" => chan[q] = q \/ chan[q] = Ticks
    BY <1>1 DEF Placement
  <2>2. Ticks \notin ExitWakes(p)
    BY <1>1, <1>2 DEF ExitWakes, TypeOK
  <2> QED
    BY <2>1, <2>2 DEF ExitWakes
<1> HIDE DEF W
<1>10. p \notin W
  BY <1>3 DEF W
<1>11. ASSUME NEW q \in Procs
       PROVE  state'[q] = IF q = p THEN "ZOMBIE" ELSE IF q \in W THEN "RUNNABLE" ELSE state[q]
  BY <1>9 DEF Exit, Woken
<1>12. \A q \in Procs : q \in W => state[q] = "SLEEPING"
  BY DEF W
<1>13. W \in SUBSET Procs
  BY DEF W
<1> QED
  BY <1>3, <1>8, <1>10, <1>11, <1>12, <1>13

LEMMA ExitQueues ==
  ASSUME MlqInductive, NEW c \in CPUs, NEW p \in Procs, Exit(c, p), Wake(WokenByExit(p))
  PROVE  Queueing
<1> DEFINE W == Elems(WokenByExit(p))
<1>1. Inductive /\ TypeOK
  BY DEF MlqInductive, Inductive
<1>2. /\ WokenByExit(p) \in Seq(Procs) /\ Distinct(WokenByExit(p)) /\ W \in SUBSET Procs
      /\ state[p] = "RUNNING" /\ p \notin W /\ \A q \in W : state[q] = "SLEEPING"
      /\ \A q \in Procs : state'[q] = IF q = p THEN "ZOMBIE"
                                     ELSE IF q \in W THEN "RUNNABLE" ELSE state[q]
  BY <1>1, ExitWoken
<1>3. Reranks(W) /\ RingsGrow(W)
  BY <1>2, WakeQueues
<1>4. \A q \in Procs : kpc'[q] = "copied" => kpc[q] = "copied" /\ child'[q] = child[q]
  BY <1>1 DEF Exit, TypeOK
<1> HIDE DEF W
<1>5. MakesReady(W)
  BY <1>2, <1>4 DEF MakesReady
<1> QED
  BY <1>2, <1>3, <1>5 DEF Queueing
-----------------------------------------------------------------------------
(* A process is taken out of a queue from where it waits. *)
Without(s, i) == SubSeq(s, 1, i - 1) \o SubSeq(s, i + 1, Len(s))

LEMMA Removed ==
  ASSUME NEW s \in Seq(Procs), NEW i \in 1 .. Len(s)
  PROVE  /\ Without(s, i) \in Seq(Procs) /\ Len(Without(s, i)) = Len(s) - 1
         /\ \A k \in 1 .. Len(s) - 1 : Without(s, i)[k] = IF k < i THEN s[k] ELSE s[k + 1]
<1> DEFINE n == Len(s)
           u == SubSeq(s, 1, i - 1)
           v == SubSeq(s, i + 1, n)
<1>1. n \in Nat /\ i \in Nat /\ 1 <= i /\ i <= n
  BY LenProperties
<1>2. \A k \in 1 .. n : s[k] \in Procs
  BY ElementOfSeq
<1>3. u \in Seq(Procs) /\ Len(u) = i - 1 /\ \A k \in 1 .. i - 1 : u[k] = s[k]
  <2>1. 1 \in Int /\ i - 1 \in Int /\ \A k \in 1 .. i - 1 : k \in 1 .. n
    BY <1>1
  <2>2. /\ u \in Seq(Procs) /\ Len(u) = IF 1 <= i - 1 THEN i - 1 - 1 + 1 ELSE 0
        /\ \A k \in 1 .. i - 1 - 1 + 1 : u[k] = s[1 + k - 1]
    BY <1>2, <2>1, SubSeqProperties
  <2> HIDE DEF u
  <2>3. Len(u) = i - 1
    BY <1>1, <2>2
  <2>4. \A k \in 1 .. i - 1 : k \in 1 .. i - 1 - 1 + 1 /\ 1 + k - 1 = k
    BY <1>1
  <2> QED
    BY <2>2, <2>3, <2>4
<1>4. v \in Seq(Procs) /\ Len(v) = n - i /\ \A k \in 1 .. n - i : v[k] = s[i + k]
  <2>1. i + 1 \in Int /\ n \in Int /\ \A k \in i + 1 .. n : k \in 1 .. n
    BY <1>1
  <2>2. /\ v \in Seq(Procs) /\ Len(v) = IF i + 1 <= n THEN n - (i + 1) + 1 ELSE 0
        /\ \A k \in 1 .. n - (i + 1) + 1 : v[k] = s[i + 1 + k - 1]
    BY <1>2, <2>1, SubSeqProperties
  <2> HIDE DEF v, n
  <2>3. Len(v) = n - i
    BY <1>1, <2>2
  <2>4. \A k \in 1 .. n - i : k \in 1 .. n - (i + 1) + 1 /\ i + 1 + k - 1 = i + k
    BY <1>1
  <2> QED
    BY <2>2, <2>3, <2>4
<1> HIDE DEF u, v, n
<1>5. /\ u \o v \in Seq(Procs) /\ Len(u \o v) = Len(u) + Len(v)
      /\ \A k \in 1 .. Len(u) + Len(v) :
           (u \o v)[k] = IF k <= Len(u) THEN u[k] ELSE v[k - Len(u)]
  BY <1>3, <1>4, ConcatProperties
<1>6. Len(u) + Len(v) = n - 1
  BY <1>1, <1>3, <1>4
<1>7. ASSUME NEW k \in 1 .. n - 1
      PROVE  (u \o v)[k] = IF k < i THEN s[k] ELSE s[k + 1]
  <2>1. (u \o v)[k] = IF k <= Len(u) THEN u[k] ELSE v[k - Len(u)]
    BY <1>5, <1>6
  <2>2. CASE k < i
    <3>1. k <= Len(u) /\ k \in 1 .. i - 1
      BY <1>1, <1>3, <2>2
    <3> QED
      BY <1>3, <2>1, <2>2, <3>1
  <2>3. CASE ~(k < i)
    <3>1. ~(k <= Len(u)) /\ k - Len(u) \in 1 .. n - i
      BY <1>1, <1>3, <2>3
    <3>2. i + (k - Len(u)) = k + 1
      BY <1>1, <1>3
    <3>3. v[k - Len(u)] = s[i + (k - Len(u))]
      BY <1>4, <3>1
    <3> QED
      BY <2>1, <2>3, <3>1, <3>2, <3>3
  <2> QED
    BY <2>2, <2>3
<1>8. Without(s, i) = u \o v
  BY DEF Without, u, v, n
<1> QED
  BY <1>5, <1>6, <1>7, <1>8 DEF n

LEMMA RemovedElems ==
  ASSUME NEW s \in Seq(Procs), Distinct(s), NEW i \in 1 .. Len(s)
  PROVE  Distinct(Without(s, i)) /\ Elems(Without(s, i)) = Elems(s) \ {s[i]}
<1> DEFINE n == Len(s)
           t == Without(s, i)
           from(k) == IF k < i THEN k ELSE k + 1
<1>0. /\ Len(t) = n - 1
      /\ \A k \in 1 .. n - 1 : t[k] = IF k < i THEN s[k] ELSE s[k + 1]
  BY Removed
<1> HIDE DEF t
<1>1. n \in Nat /\ i \in Nat /\ 1 <= i /\ i <= n
  BY LenProperties
<1>2. ASSUME NEW k \in 1 .. n - 1
      PROVE  from(k) \in 1 .. n /\ from(k) # i /\ t[k] = s[from(k)]
  BY <1>0, <1>1
<1>3. \A j, k \in 1 .. n - 1 : from(j) = from(k) => j = k
  BY <1>1
<1>4. \A m \in 1 .. n : m # i => \E k \in 1 .. n - 1 : from(k) = m
  <2> SUFFICES ASSUME NEW m \in 1 .. n, m # i
               PROVE  \E k \in 1 .. n - 1 : from(k) = m
    OBVIOUS
  <2>1. CASE m < i
    <3>1. m \in 1 .. n - 1 /\ from(m) = m
      BY <1>1, <2>1
    <3> QED
      BY <3>1
  <2>2. CASE ~(m < i)
    <3>1. m - 1 \in 1 .. n - 1 /\ from(m - 1) = m
      BY <1>1, <2>2
    <3> QED
      BY <3>1
  <2> QED
    BY <2>1, <2>2
<1> HIDE DEF from, n
<1>5. Len(t) = n - 1
  BY <1>0
<1>6. \A j, k \in 1 .. n : s[j] = s[k] => j = k
  BY DEF Distinct, n
<1>7. Distinct(t)
  BY <1>2, <1>3, <1>5, <1>6 DEF Distinct
<1>8. Elems(t) \subseteq Elems(s) \ {s[i]}
  <2> SUFFICES ASSUME NEW k \in 1 .. n - 1
               PROVE  t[k] \in Elems(s) /\ t[k] # s[i]
    BY <1>5 DEF Elems
  <2>1. from(k) \in 1 .. n /\ from(k) # i /\ t[k] = s[from(k)]
    BY <1>2
  <2>2. i \in 1 .. n
    BY DEF n
  <2> QED
    BY <1>6, <2>1, <2>2 DEF Elems, n
<1>9. Elems(s) \ {s[i]} \subseteq Elems(t)
  <2> SUFFICES ASSUME NEW m \in 1 .. n, m # i
               PROVE  s[m] \in Elems(t)
    BY DEF Elems, n
  <2>1. PICK k \in 1 .. n - 1 : from(k) = m
    BY <1>4
  <2> QED
    BY <1>2, <1>5, <2>1 DEF Elems
<1> QED
  BY <1>7, <1>8, <1>9 DEF t

(* chpr() of a waiting process, where its ring has not wrapped around.     *)
LEMMA ChprStep ==
  ASSUME AnyRing = FALSE, MlqInductive, Inductive', UNCHANGED ran,
         NEW c \in CPUs, NEW p \in Procs, NEW t \in Procs, NEW l \in Levels, Chpr(c, p, t, l)
  PROVE  MlqInductive' /\ (Policy!PolicyStep \/ Policy!ChangeLevel(t, l))
<1>1. /\ priority \in [Procs -> 0 .. NUMPR] /\ multiqueue \in [Levels -> Rings]
      /\ \A m \in Levels : /\ Distinct(Held(multiqueue[m]))
                           /\ Elems(Held(multiqueue[m])) = Ready(m)
  BY DEF MlqInductive, Rankings, Queued
<1>2. l \in 0 .. NUMPR
  BY LevelNumbers
<1>3. UNCHANGED vars /\ UNCHANGED <<state, kpc, child>>
  BY DEF Chpr, vars, procvars
<1>4. priority' = [priority EXCEPT ![t] = l] /\ priority[t] # l
  BY DEF Chpr
<1>5. CASE state[t] # "RUNNABLE"
  <2>1. UNCHANGED multiqueue
    BY <1>5 DEF Chpr
  <2>2. Reranks({})
    BY <1>1, <1>2, <1>4, <1>5 DEF Reranks
  <2>3. MakesReady({})
    BY <1>3 DEF MakesReady
  <2>4. Queueing
    BY <2>1, <2>2, <2>3, RingsStay DEF Queueing
  <2> QED
    BY <1>3, <2>4, QueueingStep
<1>6. CASE state[t] = "RUNNABLE"
  <2> DEFINE k == priority[t]
             r == multiqueue[k]
             at == CellsOf(r, Cells, t)
             i == CHOOSE j \in at : TRUE
             o == Offset(r, Cells, i)
             s == Held(r)
  <2>1. k \in Levels /\ k # l
    BY <1>4, <1>6 DEF MlqInductive, Rankings
  <2>2. r \in Rings /\ r \in RingType /\ s \in Seq(Procs) /\ Distinct(s) /\ Elems(s) = Ready(k)
    BY <1>1, <2>1, HeldInRings
  <2>3. i \in at /\ i < r.end
    <3>1. t \in Elems(s)
      BY <1>6, <2>2 DEF Ready
    <3>2. PICK j \in 1 .. Len(s) : s[j] = t
      BY <3>1 DEF Elems
    <3>3. Place(r, j - 1) \in at
      BY <2>2, <3>2, CellPlaces
    <3>4. \A j1 \in at : j1 < r.end
      BY <1>6 DEF Chpr
    <3> QED
      BY <3>3, <3>4
  <2>4. multiqueue' = [multiqueue EXCEPT ![k].slot = CloseGap(r, Cells, i),
                                         ![k].end  = @ - 1,
                                         ![l]      = Enque(@, Cells, t)]
    BY <1>6, <2>3, Zenon DEF Chpr, SwapQue
  <2> HIDE DEF i, at
  <2>5. /\ multiqueue'[k] = TakenOut(r, i)
        /\ multiqueue'[l] = Enque(multiqueue[l], Cells, t)
        /\ \A m \in Levels : m # k /\ m # l => multiqueue'[m] = multiqueue[m]
        /\ multiqueue' = [m \in Levels |-> multiqueue'[m]]
    BY <1>1, <2>1, <2>4 DEF TakenOut
  <2> HIDE DEF k, r, s, o
  <2>6. /\ o \in 0 .. Len(s) - 1 /\ s[o + 1] = t
        /\ TakenOut(r, i) \in Rings
        /\ Len(Held(TakenOut(r, i))) = Len(s) - 1
        /\ \A j \in 1 .. Len(s) - 1 :
             Held(TakenOut(r, i))[j] = IF j <= o THEN s[j] ELSE s[j + 1]
    BY <2>2, <2>3, CellPlaces, SwappedOut DEF s, o, at
  <2>7. Len(s) \in Nat
    BY <2>2, LenProperties
  <2>8. o + 1 \in 1 .. Len(s)
    BY <2>6, <2>7
  <2>9. Held(TakenOut(r, i)) \in Seq(Procs)
    BY <2>6, HeldInRings
  <2>10. \A j \in 1 .. Len(s) - 1 :
           Held(TakenOut(r, i))[j] = IF j < o + 1 THEN s[j] ELSE s[j + 1]
    <3>1. \A j \in 1 .. Len(s) - 1 : j <= o <=> j < o + 1
      BY <2>6, <2>7
    <3> QED
      BY <2>6, <3>1
  <2>11. Held(TakenOut(r, i)) = Without(s, o + 1)
    <3>1. /\ Without(s, o + 1) \in Seq(Procs) /\ Len(Without(s, o + 1)) = Len(s) - 1
          /\ \A j \in 1 .. Len(s) - 1 :
               Without(s, o + 1)[j] = IF j < o + 1 THEN s[j] ELSE s[j + 1]
      BY <2>2, <2>8, Removed
    <3>2. \A j \in 1 .. Len(s) - 1 : Held(TakenOut(r, i))[j] = Without(s, o + 1)[j]
      BY <2>10, <3>1
    <3> QED
      BY <2>6, <2>9, <3>1, <3>2, SeqEqual
  <2>12. Distinct(Held(TakenOut(r, i))) /\ Elems(Held(TakenOut(r, i))) = Ready(k) \ {t}
    BY <2>2, <2>6, <2>8, <2>11, RemovedElems
  <2>13. t \notin Ready(l)
    BY <1>4 DEF Ready
  <2>14. /\ Enque(multiqueue[l], Cells, t) \in Rings
         /\ Held(Enque(multiqueue[l], Cells, t)) = Append(Held(multiqueue[l]), t)
    <3>1. multiqueue[l] \in Rings /\ Held(multiqueue[l]) \in Seq(Procs)
      BY <1>1, HeldInRings
    <3>2. Len(Held(multiqueue[l])) < NPROC
      BY <1>1, <2>13, <3>1, RoomLeft
    <3> QED
      BY <3>1, <3>2, Enqued
  <2>15. /\ Distinct(Held(multiqueue'[l]))
         /\ Elems(Held(multiqueue'[l])) = Ready(l) \cup {t}
    <3>1. Held(multiqueue[l]) \in Seq(Procs)
      BY <1>1, HeldInRings
    <3> QED
      BY <1>1, <2>5, <2>13, <2>14, <3>1, OneMore
  <2>16. \A m \in Levels : Ready(m)' = IF m = k THEN Ready(k) \ {t}
                                       ELSE IF m = l THEN Ready(l) \cup {t}
                                       ELSE Ready(m)
    <3>1. \A m : \A q \in Procs : q \in Ready(m)' <=> state[q] = "RUNNABLE" /\ priority'[q] = m
      BY <1>3 DEF Ready
    <3>2. \A m : \A q \in Procs : q \in Ready(m) <=> state[q] = "RUNNABLE" /\ priority[q] = m
      BY DEF Ready
    <3>3. \A m : Ready(m) \subseteq Procs /\ Ready(m)' \subseteq Procs
      BY DEF Ready
    <3>4. \A q \in Procs : priority'[q] = IF q = t THEN l ELSE priority[q]
      BY <1>1, <1>4
    <3>5. ASSUME NEW m \in Levels, NEW q \in Procs
          PROVE  q \in Ready(m)' <=> q \in IF m = k THEN Ready(k) \ {t}
                                           ELSE IF m = l THEN Ready(l) \cup {t}
                                           ELSE Ready(m)
      BY <1>6, <2>1, <3>1, <3>2, <3>4 DEF k
    <3> QED
      BY <3>3, <3>5
  <2>17. Queued'
    <3>1. \A m \in Levels : multiqueue'[m] \in Rings
      BY <1>1, <2>5, <2>6, <2>14
    <3>2. multiqueue' \in [Levels -> Rings]
      BY <2>5, <3>1
    <3>3. ASSUME NEW m \in Levels
          PROVE  Distinct(Held(multiqueue'[m])) /\ Elems(Held(multiqueue'[m])) = Ready(m)'
      <4>1. CASE m = k
        BY <2>1, <2>5, <2>12, <2>16, <4>1
      <4>2. CASE m = l
        BY <2>1, <2>15, <2>16, <4>2
      <4>3. CASE m # k /\ m # l
        BY <1>1, <2>5, <2>16, <4>3
      <4> QED
        BY <4>1, <4>2, <4>3
    <3> QED
      BY <3>2, <3>3 DEF Queued
  <2>18. Rankings'
    <3>1. priority' \in [Procs -> 0 .. NUMPR]
      BY <1>1, <1>2, <1>4
    <3>2. \A q \in Procs : priority'[q] = priority[q] \/ priority'[q] \in Levels
      BY <1>1, <1>4
    <3>3. \A q \in Procs : kpc[q] = "copied" => child[q] \in Procs
      BY DEF MlqInductive, Inductive, TypeOK, Placement
    <3> QED
      BY <1>3, <3>1, <3>2, <3>3 DEF MlqInductive, Rankings
  <2>19. Policy!ChangeLevel(t, l)
    <3>1. /\ \A m \in Levels : Waiting[m] = Held(multiqueue[m])
          /\ \A m \in Levels : Waiting'[m] = Held(multiqueue'[m])
          /\ Waiting = [m \in Levels |-> Waiting[m]]
          /\ Waiting' = [m \in Levels |-> Waiting'[m]]
      BY WaitingIs, Zenon DEF Waiting
    <3>2. Waiting[k] = s
      BY <2>1, <3>1 DEF s, r
    <3>3. o + 1 \in DOMAIN Waiting[k] /\ Waiting[k][o + 1] = t
      BY <2>2, <2>6, <2>8, <3>2, LenProperties
    <3>4. Waiting'[k] = Without(s, o + 1) /\ Waiting'[l] = Append(Waiting[l], t)
          /\ \A m \in Levels : m # k /\ m # l => Waiting'[m] = Waiting[m]
      BY <2>1, <2>5, <2>11, <2>14, <3>1
    <3>5. PICK j \in DOMAIN Waiting[k] : j = o + 1
      BY <3>3
    <3>6. Waiting' = [Waiting EXCEPT ![k] = Without(@, j), ![l] = Append(@, t)]
      BY <2>1, <3>1, <3>2, <3>4, <3>5
    <3>7. UNCHANGED Policy!vars /\ UNCHANGED <<Policy!vars, ran>>
      BY <1>3 DEF vars, procvars, cpuvars, Policy!vars, Policy!procvars, Policy!cpuvars
    <3>8. Waiting' = [Waiting EXCEPT ![k] = SubSeq(@, 1, j - 1) \o SubSeq(@, j + 1, Len(@)),
                                     ![l] = Append(@, t)]
      BY <3>6, Zenon DEF Without
    <3>9. \E m \in DOMAIN Waiting[k] :
            /\ Waiting[k][m] = t
            /\ Waiting' = [Waiting EXCEPT
                             ![k] = SubSeq(@, 1, m - 1) \o SubSeq(@, m + 1, Len(@)),
                             ![l] = Append(@, t)]
      BY <3>3, <3>5, <3>8, Zenon
    <3> QED
      BY <1>4, <1>6, <3>7, <3>9, Zenon DEF Policy!ChangeLevel, k
  <2> QED
    BY <2>17, <2>18, <2>19 DEF MlqInductive
<1> QED
  BY <1>5, <1>6

LEMMA TailIs ==
  ASSUME NEW s \in Seq(Procs), s # << >>
  PROVE  /\ 1 \in 1 .. Len(s) /\ Head(s) = s[1] /\ Head(s) \in Procs
         /\ Tail(s) \in Seq(Procs) /\ Tail(s) = Without(s, 1)
<1>1. /\ Head(s) \in Procs /\ Tail(s) \in Seq(Procs) /\ Len(Tail(s)) = Len(s) - 1
      /\ \A i \in 1 .. Len(Tail(s)) : Tail(s)[i] = s[i + 1]
  BY HeadTailProperties
<1>2. Len(s) \in Nat /\ Len(s) # 0
  BY LenProperties, EmptySeq
<1>3. 1 \in 1 .. Len(s) /\ \A i \in 1 .. Len(s) - 1 : ~(i < 1)
  BY <1>2
<1>4. /\ Without(s, 1) \in Seq(Procs) /\ Len(Without(s, 1)) = Len(s) - 1
      /\ \A k \in 1 .. Len(s) - 1 : Without(s, 1)[k] = IF k < 1 THEN s[k] ELSE s[k + 1]
  BY <1>3, Removed
<1>5. \A i \in 1 .. Len(Tail(s)) : Tail(s)[i] = Without(s, 1)[i]
  BY <1>1, <1>3, <1>4
<1>6. Tail(s) = Without(s, 1)
  BY <1>1, <1>4, <1>5, SeqEqual
<1>7. Head(s) = s[1]
  BY <1>2
<1> QED
  BY <1>1, <1>3, <1>6, <1>7

LEMMA EmptyIs ==
  ASSUME MlqInductive
  PROVE  \A l \in Levels : IsEmpty(multiqueue[l]) <=> Waiting[l] = << >>
<1> SUFFICES ASSUME NEW l \in Levels
             PROVE  IsEmpty(multiqueue[l]) <=> Waiting[l] = << >>
  OBVIOUS
<1>1. multiqueue[l] \in RingType
  BY HeldInRings DEF MlqInductive, Queued
<1> QED
  BY <1>1, Ends, WaitingIs

(* The scheduler finds a RUNNABLE process at the front of the ring. *)
LEMMA ServesReady ==
  ASSUME MlqInductive, NEW c \in CPUs, NEW l \in Levels, RunHighest(c, l)
  PROVE  /\ Held(multiqueue[l]) \in Seq(Procs) /\ Held(multiqueue[l]) # << >>
         /\ First(multiqueue[l]) = Head(Held(multiqueue[l]))
         /\ First(multiqueue[l]) \in Ready(l)
         /\ Dispatch(c, First(multiqueue[l]))
<1>1. /\ multiqueue[l] \in Rings /\ multiqueue[l] \in RingType
      /\ Held(multiqueue[l]) \in Seq(Procs) /\ Elems(Held(multiqueue[l])) = Ready(l)
  BY HeldInRings DEF MlqInductive, Queued
<1>2. Held(multiqueue[l]) # << >>
  BY <1>1, Ends DEF RunHighest
<1>3. First(multiqueue[l]) = Head(Held(multiqueue[l]))
  BY <1>1, <1>2, Dequed
<1>4. First(multiqueue[l]) \in Ready(l)
  BY <1>1, <1>2, <1>3, TailIs DEF Elems
<1>5. Dispatch(c, First(multiqueue[l]))
  BY <1>4 DEF RunHighest, RunInRound, Dispatch, Ready
<1> QED
  BY <1>1, <1>2, <1>3, <1>4, <1>5

(* A CPU takes the first process of the highest level that has one. *)
LEMMA ServeStep ==
  ASSUME MlqInductive, Inductive', NEW c \in CPUs, NEW l \in Levels, RunHighest(c, l)
  PROVE  MlqInductive' /\ Policy!ServeHighest(c, l)
<1> DEFINE r == multiqueue[l]
           s == Held(r)
           p == First(r)
<1>1. /\ priority \in [Procs -> 0 .. NUMPR] /\ multiqueue \in [Levels -> Rings]
      /\ \A m \in Levels : /\ Distinct(Held(multiqueue[m]))
                           /\ Elems(Held(multiqueue[m])) = Ready(m)
  BY DEF MlqInductive, Rankings, Queued
<1>2. s \in Seq(Procs) /\ s # << >> /\ p = Head(s) /\ p \in Ready(l) /\ Dispatch(c, p)
  BY ServesReady
<1>3. p \in Procs /\ state[p] = "RUNNABLE" /\ priority[p] = l
  BY <1>2 DEF Ready
<1>4. /\ state' = [state EXCEPT ![p] = "RUNNING"] /\ kpc' = kpc /\ child' = child
      /\ priority' = priority /\ multiqueue' = [multiqueue EXCEPT ![l] = Deque(r, Cells)]
  BY <1>2 DEF Dispatch, SwitchTo, RunHighest
<1>5. state \in [Procs -> ProcStates]
  BY DEF MlqInductive, Inductive, TypeOK
<1>6. Deque(r, Cells) \in Rings /\ Held(Deque(r, Cells)) = Tail(s)
  BY <1>1, <1>2, Dequed
<1>7. Tail(s) = Without(s, 1) /\ 1 \in 1 .. Len(s) /\ s[1] = p
  BY <1>2, TailIs
<1>8. Distinct(Tail(s)) /\ Elems(Tail(s)) = Ready(l) \ {p}
  BY <1>1, <1>2, <1>7, RemovedElems
<1> HIDE DEF r, s, p
<1>9. \A m \in Levels : Ready(m)' = IF m = l THEN Ready(l) \ {p} ELSE Ready(m)
  <2>1. \A m : \A q \in Procs : q \in Ready(m)' <=> state'[q] = "RUNNABLE" /\ priority[q] = m
    BY <1>4 DEF Ready
  <2>2. \A m : \A q \in Procs : q \in Ready(m) <=> state[q] = "RUNNABLE" /\ priority[q] = m
    BY DEF Ready
  <2>3. \A m : Ready(m) \subseteq Procs /\ Ready(m)' \subseteq Procs
    BY DEF Ready
  <2>4. \A q \in Procs : state'[q] = "RUNNABLE" <=> state[q] = "RUNNABLE" /\ q # p
    BY <1>4, <1>5
  <2>5. ASSUME NEW m \in Levels, NEW q \in Procs
        PROVE  q \in Ready(m)' <=> q \in IF m = l THEN Ready(l) \ {p} ELSE Ready(m)
    BY <1>3, <2>1, <2>2, <2>4
  <2> QED
    BY <2>3, <2>5
<1>10. Queued'
  <2>1. multiqueue' \in [Levels -> Rings]
    BY <1>1, <1>4, <1>6
  <2>2. ASSUME NEW m \in Levels
        PROVE  Distinct(Held(multiqueue'[m])) /\ Elems(Held(multiqueue'[m])) = Ready(m)'
    <3>1. CASE m = l
      BY <1>1, <1>4, <1>6, <1>8, <1>9, <3>1
    <3>2. CASE m # l
      BY <1>1, <1>4, <1>9, <3>2
    <3> QED
      BY <3>1, <3>2
  <2> QED
    BY <2>1, <2>2 DEF Queued
<1>11. Rankings'
  <2>1. \A q \in Procs : state'[q] \notin {"UNUSED", "EMBRYO"} =>
                           state[q] \notin {"UNUSED", "EMBRYO"}
    BY <1>3, <1>4, <1>5
  <2> QED
    BY <1>4, <2>1 DEF MlqInductive, Rankings
<1>12. Policy!ServeHighest(c, l)
  <2>1. /\ \A m \in Levels : Waiting[m] = Held(multiqueue[m])
        /\ \A m \in Levels : Waiting'[m] = Held(multiqueue'[m])
        /\ Waiting = [m \in Levels |-> Waiting[m]]
        /\ Waiting' = [m \in Levels |-> Waiting'[m]]
    BY WaitingIs, Zenon DEF Waiting
  <2>2. Waiting[l] = s
    BY <2>1 DEF s, r
  <2>3. Waiting' = [Waiting EXCEPT ![l] = Tail(Waiting[l])]
    <3>1. Waiting'[l] = Tail(s)
      BY <1>1, <1>4, <1>6, <2>1
    <3>2. \A m \in Levels : m # l => Waiting'[m] = Waiting[m]
      BY <1>1, <1>4, <2>1
    <3> QED
      BY <2>1, <2>2, <3>1, <3>2
  <2>4. \A k \in 1 .. l - 1 : Waiting[k] = << >>
    <3>1. \A k \in 1 .. l - 1 : k \in Levels
      BY LevelNumbers DEF Levels
    <3> QED
      BY <3>1, EmptyIs DEF RunHighest
  <2>5. Policy!RunInRound(c, Head(Waiting[l]))
    BY <1>2, <2>2 DEF RunHighest, RunInRound, SwitchTo, Null, Policy!RunInRound,
       Policy!SwitchTo, Policy!Null, p, r
  <2> QED
    BY <1>2, <1>4, <2>2, <2>3, <2>4, <2>5 DEF Policy!ServeHighest
<1> QED
  BY <1>10, <1>11, <1>12 DEF MlqInductive
-----------------------------------------------------------------------------
LEMMA InitQueued ==
  ASSUME MInit
  PROVE  MlqInductive /\ Policy!MlqInit
<1> DEFINE r == EmptyRing(Cells)
<1>1. InitProc \in Procs /\ MDPR \in Levels /\ MDPR \in 0 .. NUMPR
  BY ConstantsAssumption, LevelNumbers DEF InitProc, Procs
<1>2. Inductive
  BY InitInductive DEF MInit
<1>3. r \in RingType /\ IsEmpty(r)
  <2>1. [i \in -1 .. Cells - 1 |-> 0] \in [-1 .. NPROC -> 0 .. NPROC]
    BY CellsAre
  <2>2. 0 \in 0 .. NPROC
    BY CellsAre
  <2> QED
    BY <2>1, <2>2 DEF EmptyRing, RingType, IsEmpty
<1>4. r \in Rings /\ Held(r) = << >> /\ Len(Held(r)) < NPROC
  <2>1. Held(r) = << >>
    BY <1>3, Ends
  <2>2. << >> \in Seq(Procs) /\ Len(<< >>) = 0 /\ 0 < NPROC
    BY CellsAre, EmptySeq
  <2> QED
    BY <1>3, <2>1, <2>2 DEF Rings
<1>5. /\ Enque(r, Cells, InitProc) \in Rings
      /\ Held(Enque(r, Cells, InitProc)) = <<InitProc>>
  <2>1. Append(<< >>, InitProc) = <<InitProc>>
    OBVIOUS
  <2> QED
    BY <1>1, <1>4, <2>1, Enqued
<1>6. /\ multiqueue = [l \in Levels |-> IF l = MDPR THEN Enque(r, Cells, InitProc) ELSE r]
      /\ priority = [p \in Procs |-> IF p = InitProc THEN MDPR ELSE 0]
      /\ state = [p \in Procs |-> IF p = InitProc THEN "RUNNABLE" ELSE "UNUSED"]
      /\ kpc = [p \in Procs |-> "user"]
  BY DEF MInit, Init
<1> HIDE DEF r
<1>7. Rankings
  <2>1. 0 \in 0 .. NUMPR
    BY LevelNumbers
  <2> QED
    BY <1>1, <1>6, <2>1 DEF Rankings
<1>8. ASSUME NEW l \in Levels
      PROVE  Distinct(Held(multiqueue[l])) /\ Elems(Held(multiqueue[l])) = Ready(l)
  <2>1. CASE l = MDPR
    <3>1. Held(multiqueue[l]) = <<InitProc>>
      BY <1>1, <1>5, <1>6, <2>1
    <3>2. Ready(l) = {InitProc}
      BY <1>1, <1>6, <2>1 DEF Ready
    <3> QED
      BY <1>1, <3>1, <3>2, NoneOrOne
  <2>2. CASE l # MDPR
    <3>1. Held(multiqueue[l]) = << >>
      BY <1>4, <1>6, <2>2
    <3>2. Ready(l) = {}
      BY <1>6, <2>2 DEF Ready
    <3> QED
      BY <3>1, <3>2, NoneOrOne
  <2> QED
    BY <2>1, <2>2
<1>9. Queued
  <2>1. multiqueue \in [Levels -> Rings]
    BY <1>4, <1>5, <1>6
  <2> QED
    BY <1>8, <2>1 DEF Queued
<1>10. Policy!MlqInit
  <2>1. Policy!Init /\ Policy!RoundInit
    BY DEF MInit, Init, RoundInit, InitProc, Null, Procs, Policy!Init, Policy!RoundInit,
       Policy!InitProc, Policy!Null, Policy!Procs
  <2>2. priority[InitProc] = MDPR /\ Policy!InitProc = InitProc
    BY <1>1, <1>6 DEF InitProc, Policy!InitProc
  <2>3. Waiting = [l \in Levels |-> IF l = MDPR THEN <<InitProc>> ELSE << >>]
    <3>1. \A l \in Levels : Held(multiqueue[l]) = IF l = MDPR THEN <<InitProc>> ELSE << >>
      BY <1>4, <1>5, <1>6
    <3>2. Waiting = [l \in Levels |-> Held(multiqueue[l])]
      BY Zenon DEF Waiting, Held
    <3> QED
      BY <3>1, <3>2
  <2>4. Policy!Levels = Levels
    BY PolicyParts
  <2> QED
    BY <2>1, <2>2, <2>3, <2>4 DEF Policy!MlqInit
<1> QED
  BY <1>2, <1>7, <1>9, <1>10 DEF MlqInductive

(* Every step of these builds is one of the process table. *)
LEMMA TableStep ==
  ASSUME MlqInductive, [MNext]_mvars
  PROVE  [Next]_vars
<1>1. ASSUME NEW c \in CPUs, NEW p \in Procs, MProcStep(c, p)
      PROVE  ProcStep(c, p) \/ UNCHANGED vars
  <2>1. CASE QuietStep(c, p)
    BY <2>1 DEF QuietStep, ProcStep, OwnStep, ForkStep
  <2>2. CASE MForkCopy(c, p) \/ MForkRun(c, p)
    BY <2>2 DEF MForkCopy, MForkRun, ProcStep, OwnStep, ForkStep
  <2>3. CASE MSysYield(c, p) \/ TimerYield(c, p)
    BY <2>3 DEF MSysYield, TimerYield, ProcStep
  <2>4. CASE Exec(c, p) \/ \E t \in Procs, l \in Levels : Chpr(c, p, t, l)
    BY <2>4 DEF Exec, Chpr
  <2>5. CASE Exit(c, p) \/ \E t \in Procs : Kill(c, p, t)
    BY <2>5 DEF ProcStep, OwnStep
  <2> QED
    BY <1>1, <2>1, <2>2, <2>3, <2>4, <2>5 DEF MProcStep
<1>2. ASSUME NEW c \in CPUs, NEW l \in Levels, RunHighest(c, l)
      PROVE  SchedStep(c)
  <2>1. First(multiqueue[l]) \in Procs /\ Dispatch(c, First(multiqueue[l]))
    BY <1>2, ServesReady DEF Ready
  <2> QED
    BY <2>1 DEF SchedStep
<1>3. ASSUME NEW c \in CPUs, BeginRound(c) \/ EndRound(c, NothingReady)
      PROVE  SchedStep(c)
  BY <1>3 DEF BeginRound, EndRound, SchedStep
<1>4. UNCHANGED mvars => UNCHANGED vars
  BY DEF mvars
<1> QED
  BY <1>1, <1>2, <1>3, <1>4 DEF MNext, Next

(* Every step keeps the invariant and is one of the policy.                *)
LEMMA MlqStep ==
  ASSUME AnyRing = FALSE, MlqInductive, [MNext]_mvars
  PROVE  MlqInductive' /\ [Policy!MlqNext]_(Policy!mlqvars)
<1>1. Inductive'
  BY TableStep, InductiveStep DEF MlqInductive
<1>2. ASSUME NEW c \in CPUs, NEW p \in Procs, MProcStep(c, p), UNCHANGED ran
      PROVE  MlqInductive' /\ Policy!MlqNext
  <2>1. ASSUME Queueing, ProcStep(c, p) \/ UNCHANGED vars
        PROVE  MlqInductive' /\ Policy!MlqNext
    BY <1>1, <1>2, <2>1, QueueingStep DEF Policy!MlqNext
  <2>2. CASE QuietStep(c, p) /\ UNCHANGED <<priority, multiqueue>>
    BY <2>1, <2>2, QuietQueues DEF QuietStep, ProcStep, OwnStep, ForkStep
  <2>3. CASE MForkCopy(c, p) \/ MForkRun(c, p)
    BY <2>1, <2>3, ForkQueues DEF MForkCopy, MForkRun, ProcStep, OwnStep, ForkStep
  <2>4. CASE MSysYield(c, p) \/ TimerYield(c, p)
    BY <2>1, <2>4, YieldQueues DEF MSysYield, TimerYield, ProcStep
  <2>5. CASE Exec(c, p)
    BY <2>1, <2>5, ExecQueues DEF Exec
  <2>6. CASE Exit(c, p) /\ Wake(WokenByExit(p))
    BY <2>1, <2>6, ExitQueues DEF ProcStep, OwnStep
  <2>7. ASSUME NEW t \in Procs, Kill(c, p, t), Wake(WokenByKill(t))
        PROVE  MlqInductive' /\ Policy!MlqNext
    BY <2>1, <2>7, KillQueues DEF ProcStep, OwnStep
  <2>8. ASSUME NEW t \in Procs, NEW l \in Levels, Chpr(c, p, t, l)
        PROVE  MlqInductive' /\ Policy!MlqNext
    <3>1. MlqInductive' /\ (Policy!PolicyStep \/ Policy!ChangeLevel(t, l))
      BY <1>1, <1>2, <2>8, ChprStep
    <3> QED
      BY <3>1, PolicyParts DEF Policy!MlqNext
  <2> QED
    BY <1>2, <2>2, <2>3, <2>4, <2>5, <2>6, <2>7, <2>8 DEF MProcStep
<1>3. ASSUME Tick, Wake(WokenByTick), UNCHANGED ran
      PROVE  MlqInductive' /\ Policy!MlqNext
  BY <1>1, <1>3, TickQueues, QueueingStep DEF Policy!MlqNext
<1>4. ASSUME NEW c \in CPUs, NEW l \in Levels, RunHighest(c, l)
      PROVE  MlqInductive' /\ Policy!MlqNext
  <2>1. MlqInductive' /\ Policy!ServeHighest(c, l)
    BY <1>1, <1>4, ServeStep
  <2> QED
    BY <2>1, PolicyParts DEF Policy!MlqNext
<1>5. ASSUME UNCHANGED <<state, kpc, child, priority, multiqueue>>
      PROVE  MlqInductive' /\ UNCHANGED Waiting
  <2>1. Rankings' /\ Queued'
    BY <1>5 DEF MlqInductive, Rankings, Queued, Ready
  <2> QED
    BY <1>1, <1>5, <2>1 DEF MlqInductive, Waiting
<1>6. ASSUME NEW c \in CPUs, BeginRound(c) \/ EndRound(c, NothingReady),
             UNCHANGED <<priority, multiqueue>>
      PROVE  MlqInductive' /\ Policy!MlqNext
  <2>1. UNCHANGED <<state, kpc, child>>
    BY <1>6 DEF BeginRound, EndRound, SchedAcquire, SchedRelease, procvars
  <2>2. MlqInductive' /\ UNCHANGED Waiting
    BY <1>5, <1>6, <2>1
  <2>3. NothingReady => Policy!NothingReady
    BY EmptyIs, PolicyParts DEF NothingReady, Policy!NothingReady
  <2>4. Policy!BeginRound(c) \/ Policy!EndRound(c, Policy!NothingReady)
    BY <1>6, <2>3 DEF BeginRound, EndRound, SchedAcquire, SchedRelease, LockFree, Null,
       procvars, Policy!BeginRound, Policy!EndRound, Policy!SchedAcquire,
       Policy!SchedRelease, Policy!LockFree, Policy!Null, Policy!procvars
  <2> QED
    BY <1>6, <2>2, <2>4 DEF Policy!MlqNext
<1>7. CASE UNCHANGED mvars
  <2>1. UNCHANGED <<vars, ran, priority, multiqueue>> /\ UNCHANGED <<state, kpc, child>>
    BY <1>7 DEF mvars, vars, procvars
  <2>2. MlqInductive' /\ UNCHANGED Waiting
    BY <1>5, <2>1
  <2>3. UNCHANGED Policy!mlqvars
    BY <2>1, <2>2 DEF vars, procvars, cpuvars, Policy!mlqvars, Policy!vars, Policy!procvars,
       Policy!cpuvars
  <2> QED
    BY <2>2, <2>3
<1> QED
  BY <1>2, <1>3, <1>4, <1>6, <1>7 DEF MNext

LEMMA MlqAlways ==
  ASSUME AnyRing = FALSE
  PROVE  MSpec => []MlqInductive
<1>1. MInit => MlqInductive
  BY InitQueued
<1>2. MlqInductive /\ [MNext]_mvars => MlqInductive'
  BY MlqStep
<1> QED
  BY <1>1, <1>2, PTL DEF MSpec

(* The rings of the MLQ and DMLQ builds are a multilevel queue with FIFO   *)
(* levels: whoever becomes RUNNABLE goes to the end of the queue of its    *)
(* priority, the scheduler takes the first process of the highest level,   *)
(* and nothing else changes the order, on any number of CPUs and levels.   *)
(* Provided that chpr() is not called where a ring has wrapped around.     *)
THEOREM RingsAreMultilevelFifo ==
  ASSUME AnyRing = FALSE
  PROVE  MSpec => MultilevelFifo
<1>1. MInit => Policy!MlqInit
  BY InitQueued
<1>2. MlqInductive /\ [MNext]_mvars => [Policy!MlqNext]_(Policy!mlqvars)
  BY MlqStep
<1>3. MSpec => []MlqInductive
  BY MlqAlways
<1> QED
  BY <1>1, <1>2, <1>3, PTL DEF MSpec, MultilevelFifo, Policy!MlqSpec

(* The scheduler of these builds, which does not look at the state of the  *)
(* process it takes from a ring, does what the process table allows, and   *)
(* the invariants of the table hold.                                       *)
THEOREM MlqImplementsTable ==
  ASSUME AnyRing = FALSE
  PROVE  MSpec => Spec /\ []TableInvariants
<1>1. MInit => Init
  BY DEF MInit
<1>2. MlqInductive /\ [MNext]_mvars => [Next]_vars
  BY TableStep
<1>3. MSpec => []MlqInductive
  BY MlqAlways
<1>4. MSpec => Spec
  BY <1>1, <1>2, <1>3, PTL DEF MSpec, Spec
<1>5. MlqInductive => TableInvariants
  BY DEF MlqInductive, Inductive, FamilyInv, TableInvariants
<1> QED
  BY <1>3, <1>4, <1>5, PTL

LEMMA CellOfProcess ==
  ASSUME MlqInductive, NEW p \in Procs, NEW l \in Levels
  PROVE  /\ multiqueue[l].end \in 0 .. NPROC
         /\ CellsOf(multiqueue[l], Cells, p) = {} <=> p \notin Ready(l)
         /\ Cardinality(CellsOf(multiqueue[l], Cells, p)) = IF p \in Ready(l) THEN 1 ELSE 0
<1> DEFINE r == multiqueue[l]
           s == Held(r)
           at == CellsOf(r, Cells, p)
<1>1. r \in RingType /\ s \in Seq(Procs) /\ Len(s) \in Nat /\ Distinct(s) /\ Elems(s) = Ready(l)
  BY HeldInRings, LenProperties DEF MlqInductive, Queued
<1>2. r.end \in 0 .. NPROC
  BY <1>1 DEF RingType
<1>3. /\ \A i \in at : /\ Offset(r, Cells, i) \in 0 .. Len(s) - 1
                       /\ i = Place(r, Offset(r, Cells, i))
                       /\ s[Offset(r, Cells, i) + 1] = p
      /\ \A k \in 1 .. Len(s) : s[k] = p => Place(r, k - 1) \in at
  BY <1>1, CellPlaces
<1> HIDE DEF r, s, at
<1>4. ASSUME NEW i \in at
      PROVE  Offset(r, Cells, i) + 1 \in 1 .. Len(s)
  BY <1>1, <1>3
<1>5. ASSUME NEW i \in at, NEW j \in at
      PROVE  i = j
  <2>1. Offset(r, Cells, i) + 1 = Offset(r, Cells, j) + 1
    BY <1>1, <1>3, <1>4 DEF Distinct
  <2>2. Offset(r, Cells, i) = Offset(r, Cells, j)
    BY <1>1, <1>3, <2>1
  <2> QED
    BY <1>3, <2>2
<1>6. CASE p \in Ready(l)
  <2>1. PICK k \in 1 .. Len(s) : s[k] = p
    BY <1>1, <1>6 DEF Elems
  <2>2. Place(r, k - 1) \in at
    BY <1>3, <2>1
  <2>3. at = {Place(r, k - 1)}
    BY <1>5, <2>2
  <2>4. Cardinality(at) = 1
    BY <2>3, FS_Singleton
  <2> QED
    BY <1>2, <1>6, <2>2, <2>4 DEF at, r
<1>7. CASE p \notin Ready(l)
  <2>1. at = {}
    <3> SUFFICES ASSUME NEW i \in at PROVE FALSE
      OBVIOUS
    <3>1. p \in Elems(s)
      BY <1>3, <1>4 DEF Elems
    <3> QED
      BY <1>1, <1>7, <3>1
  <2>2. Cardinality(at) = 0
    BY <2>1, FS_EmptySet
  <2> QED
    BY <1>2, <1>7, <2>1, <2>2 DEF at, r
<1> QED
  BY <1>6, <1>7

(* No process is lost from the rings or in two of them, or in one twice:   *)
(* a RUNNABLE process is in one cell of the ring of its priority, and no   *)
(* other process is in any, so the scheduler runs no process by accident.  *)
THEOREM RingsHoldTheRunnable ==
  ASSUME AnyRing = FALSE
  PROVE  MSpec => [](QueuedOnce /\ HoldsRunnable)
<1>1. ASSUME MlqInductive
      PROVE  QueuedOnce
  <2>1. 1 \in Procs
    BY ConstantsAssumption DEF Procs
  <2>2. \A l \in Levels : multiqueue[l].end \in 0 .. NPROC
    BY <1>1, <2>1, CellOfProcess
  <2>3. \A p \in Procs, l \in Levels :
          Cardinality(CellsOf(multiqueue[l], Cells, p)) =
            IF state[p] = "RUNNABLE" /\ priority[p] = l THEN 1 ELSE 0
    BY <1>1, CellOfProcess DEF Ready
  <2> QED
    BY <2>2, <2>3 DEF QueuedOnce
<1>2. ASSUME MlqInductive
      PROVE  HoldsRunnable
  <2>1. ASSUME NEW p \in Procs
        PROVE  state[p] = "RUNNABLE" <=>
                 \E l \in Levels : CellsOf(multiqueue[l], Cells, p) # {}
    <3>1. \A l \in Levels : CellsOf(multiqueue[l], Cells, p) # {} <=>
                              state[p] = "RUNNABLE" /\ priority[p] = l
      BY <1>2, CellOfProcess DEF Ready
    <3>2. state[p] = "RUNNABLE" => priority[p] \in Levels
      BY <1>2 DEF MlqInductive, Rankings
    <3> QED
      BY <3>1, <3>2
  <2> QED
    BY <2>1 DEF HoldsRunnable
<1> QED
  BY <1>1, <1>2, MlqAlways, PTL
=============================================================================
