------------------------------ MODULE SchedMLQ ------------------------------
(***************************************************************************)
(* The kernels built with SCHEDFLAG=MLQ and DMLQ: every step of ProcTable  *)
(* with what it does to the priorities and to multiqueue.  In MLQ chpr()   *)
(* changes priorities; in DMLQ waking up raises a process to HIPR, using   *)
(* up a quantum lowers it by one and exec() sets MDPR.                     *)
(***************************************************************************)
EXTENDS RoundSched, MultiQueue

CONSTANTS
  Builds,     \* the values of SCHEDFLAG looked at
  NUMPR,      \* the number of priorities
  MDPR,       \* the priority of init, and in DMLQ of a program exec() starts
  AnyRing     \* FALSE: chpr() is not called where a ring has wrapped around

HIPR   == 1
LWPR   == NUMPR
Levels == 1 .. NUMPR
Cells  == NPROC + 1

ASSUME LevelsAssumption ==
  Builds \subseteq {"MLQ", "DMLQ"} /\ AnyRing \in BOOLEAN /\ NUMPR \in Nat /\ MDPR \in Levels

VARIABLES
  priority, multiqueue,
  build       \* the SCHEDFLAG the kernel was built with: never changes

DMLQ == build = "DMLQ"

mvars == <<vars, ran, priority, multiqueue, build>>

MInit ==
  /\ Init /\ RoundInit
  /\ build \in Builds
  /\ priority = [p \in Procs |-> IF p = InitProc THEN MDPR ELSE 0]
  /\ multiqueue = [l \in Levels |-> IF l = MDPR
                                      THEN Enque(EmptyRing(Cells), Cells, InitProc)
                                      ELSE EmptyRing(Cells)]

(* enque() into ring r of those of the processes ps that belong there.     *)
EnqueEach(r, ps, mine) ==
  LET at[i \in 0 .. Len(ps)] ==
        IF i = 0 THEN r
        ELSE IF ps[i] \in mine THEN Enque(at[i - 1], Cells, ps[i]) ELSE at[i - 1]
  IN at[Len(ps)]

(* enque(p->priority, p) for the processes ps in turn, with the priorities *)
(* they have after the step.                                               *)
EnqueAll(ps) ==
  multiqueue' = [l \in Levels |->
                   EnqueEach(multiqueue[l], ps, {p \in Procs : priority'[p] = l})]

(* The priorities after waking up the processes ps. *)
Raised(ps) ==
  [q \in Procs |-> IF DMLQ /\ \E i \in DOMAIN ps : ps[i] = q
                     THEN HIPR ELSE priority[q]]

(* Mutant: the priority is raised after the process has been queued. *)
WakeQueueFirst(ps) ==
  /\ priority' = Raised(ps)
  /\ multiqueue' = [l \in Levels |->
       IF ps # << >> /\ priority[ps[1]] = l THEN Enque(multiqueue[l], Cells, ps[1])
       ELSE multiqueue[l]]

Wake(ps) == priority' = Raised(ps) /\ EnqueAll(ps)

-----------------------------------------------------------------------------
(* fork() copies the priority of the parent, without the lock. *)
MForkCopy(c, p) ==
  /\ ForkCopy(c, p)
  /\ priority' = [priority EXCEPT ![child[p]] = priority[p]]
  /\ UNCHANGED multiqueue

(* A new process, or one that gives up the CPU, is queued where it is. *)
MForkRun(c, p) ==
  ForkRun(c, p) /\ UNCHANGED priority /\ EnqueAll(<<child[p]>>)

MSysYield(c, p) ==
  InSyscall(c, p) /\ Yield(c, p) /\ UNCHANGED priority /\ EnqueAll(<<p>>)

(* trap(): a timer interrupt finds the quantum used up. *)
TimerYield(c, p) ==
  /\ Yield(c, p)
  /\ priority' = IF DMLQ /\ priority[p] < LWPR
                   THEN [priority EXCEPT ![p] = @ + 1] ELSE priority
  /\ EnqueAll(<<p>>)

(* exec() in the DMLQ build. *)
Exec(c, p) ==
  /\ DMLQ /\ InSyscall(c, p)
  /\ priority' = [priority EXCEPT ![p] = MDPR]
  /\ UNCHANGED <<vars, multiqueue>>

(* The steps that make no process RUNNABLE. *)
QuietStep(c, p) ==
  \/ \E np \in Procs : AllocProc(c, p, np)
  \/ ForkNoMemory(c, p) \/ EnterExit(c, p) \/ Resume(c, p)
  \/ WaitStep(c, p) \/ SleepStep(c, p)

(* chpr() of the process in slot t: an existing pid and a valid priority.  *)
(* Unless AnyRing, a waiting process is in front of the end of its ring.   *)
Chpr(c, p, t, l) ==
  /\ ~DMLQ /\ InSyscall(c, p) /\ LockFree
  /\ \A q \in 1 .. t - 1 : pid[q] # pid[t]
  /\ priority[t] # l
  /\ priority' = [priority EXCEPT ![t] = l]
  /\ IF state[t] = "RUNNABLE"
       THEN LET r == multiqueue[priority[t]] IN
            /\ AnyRing \/ \A i \in CellsOf(r, Cells, t) : i < r.end
            /\ multiqueue' = SwapQue(multiqueue, Cells, priority[t], l, t)
       ELSE UNCHANGED multiqueue
  /\ UNCHANGED vars

MProcStep(c, p) ==
  \/ QuietStep(c, p) /\ UNCHANGED <<priority, multiqueue>>
  \/ MForkCopy(c, p) \/ MForkRun(c, p) \/ Exec(c, p)
  \/ MSysYield(c, p) \/ TimerYield(c, p)
  \/ Exit(c, p) /\ Wake(WokenByExit(p))
  \/ \E t \in Procs : Kill(c, p, t) /\ Wake(WokenByKill(t))
  \/ \E t \in Procs, l \in Levels : Chpr(c, p, t, l)

NothingReady == \A l \in Levels : IsEmpty(multiqueue[l])

RunHighest(c, l) ==
  /\ ~IsEmpty(multiqueue[l]) /\ \A k \in 1 .. l - 1 : IsEmpty(multiqueue[k])
  /\ RunInRound(c, First(multiqueue[l]))
  /\ multiqueue' = [multiqueue EXCEPT ![l] = Deque(@, Cells)]
  /\ UNCHANGED priority

MNext ==
  /\ UNCHANGED build
  /\ \/ (\E c \in CPUs, p \in Procs : MProcStep(c, p)) /\ UNCHANGED ran
     \/ Tick /\ Wake(WokenByTick) /\ UNCHANGED ran
     \/ \E c \in CPUs, l \in Levels : RunHighest(c, l)
     \/ /\ \E c \in CPUs : BeginRound(c) \/ EndRound(c, NothingReady)
        /\ UNCHANGED <<priority, multiqueue>>

MSpec == MInit /\ [][MNext]_mvars

-----------------------------------------------------------------------------
(* Properties *)

(* Every RUNNABLE process waits in the ring of its priority, once, and the *)
(* rings hold nobody else: no wake up is lost to a full ring, no process   *)
(* waits at a level it has left, and none is run twice at a time.          *)
QueuedOnce ==
  /\ \A l \in Levels : multiqueue[l].end \in 0 .. NPROC
  /\ \A p \in Procs, l \in Levels :
       Cardinality(CellsOf(multiqueue[l], Cells, p)) =
         IF state[p] = "RUNNABLE" /\ priority[p] = l THEN 1 ELSE 0

(* "Multilevel queue of RUNNABLE processes" (proc.c:128): a RUNNABLE process *)
(* is in some ring, and only such processes are.  Not so after chpr() of a   *)
(* process whose ring has wrapped around: swapque() goes back over cell 0,   *)
(* and what is put in front of it is lost.                                   *)
HoldsRunnable ==
  \A p \in Procs : state[p] = "RUNNABLE" <=>
                     \E l \in Levels : CellsOf(multiqueue[l], Cells, p) # {}

(* The rings keep the promise of a multilevel queue with FIFO levels. *)
Waiting == [l \in Levels |-> Contents(multiqueue[l], Cells)]

Policy == INSTANCE MlqPolicy WITH queue <- Waiting

MultilevelFifo == Policy!MlqSpec

=============================================================================
