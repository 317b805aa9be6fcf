----------------------------- MODULE SchedFCFS -----------------------------
(***************************************************************************)
(* The kernel built with SCHEDFLAG=FCFS: every step of ProcTable with what *)
(* it does to pqueue, the heap of RUNNABLE processes ordered by creation   *)
(* time.  scheduler() takes the process remove() returns and does not look *)
(* at its state.                                                           *)
(***************************************************************************)
EXTENDS FcfsPolicy, FcfsHeap

VARIABLE pqueue

fvars == <<policyvars, pqueue>>

FInit == PolicyInit /\ pqueue = <<InitProc>>

(* insert() of the processes ps, one after the other. *)
Queue(ps) == pqueue' = InsertAll(pqueue, timecreated, ps, NPROC)

(* The steps that make no process RUNNABLE. *)
TableOnly(c, p) ==
  \/ \E np \in Procs : AllocProc(c, p, np)
  \/ ForkNoMemory(c, p) \/ ForkCopy(c, p) \/ EnterExit(c, p) \/ Resume(c, p)
  \/ WaitStep(c, p) \/ SleepStep(c, p)

(* Mutant: kill() wakes the process but does not queue it. *)
FKillNoInsert(c, p, t) == Kill(c, p, t) /\ UNCHANGED pqueue

FKill(c, p, t) == Kill(c, p, t) /\ Queue(WokenByKill(t))

FTableStep(c, p) ==
  \/ TableOnly(c, p) /\ UNCHANGED pqueue
  \/ ForkRun(c, p) /\ Queue(<<child[p]>>)
  \/ SysYield(c, p) /\ Queue(<<p>>)
  \/ Exit(c, p) /\ Queue(WokenByExit(p))
  \/ \E t \in Procs : FKill(c, p, t)

(* Mutant: the process stays in the heap while it runs. *)
RunFirstKept(c) == pqueue # << >> /\ RunInRound(c, Head(pqueue)) /\ UNCHANGED pqueue

RunFirst(c) ==
  /\ pqueue # << >>
  /\ RunInRound(c, Head(pqueue))
  /\ pqueue' = Remove(pqueue, timecreated)

FNext ==
  \/ /\ \E c \in CPUs, p \in Procs : FTableStep(c, p)
     /\ timecreated' = Stamped
     /\ UNCHANGED <<ran, ticks>>
  \/ /\ Tick /\ Queue(WokenByTick)
     /\ ticks' = Advanced /\ UNCHANGED <<ran, timecreated>>
  \/ /\ \E c \in CPUs : \/ RunFirst(c)
                        \/ /\ BeginRound(c) \/ EndRound(c, pqueue = << >>)
                           /\ UNCHANGED pqueue
     /\ UNCHANGED <<timecreated, ticks>>

FSpec == FInit /\ [][FNext]_fvars

-----------------------------------------------------------------------------
(* Properties *)

(* The heap holds the RUNNABLE processes and no other, each once, so that  *)
(* no process is lost or run on two CPUs, though six places in the code    *)
(* change the state and the heap side by side and the scheduler trusts the *)
(* heap.                                                                   *)
HeapIsRunnable == Holds(pqueue) = Runnable /\ NoDuplicates(pqueue)
=============================================================================
