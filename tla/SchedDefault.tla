---------------------------- MODULE SchedDefault ----------------------------
(***************************************************************************)
(* The kernel built with SCHEDFLAG=DEFAULT: every CPU scans the process    *)
(* table, runs each RUNNABLE process it meets, and goes on from there when *)
(* the process comes back.                                                 *)
(*                                                                         *)
(* This module adds scheduler()'s loop variable to ProcTable, and the      *)
(* fairness under which its promises of progress hold.                     *)
(***************************************************************************)
EXTENDS ProcTable

VARIABLE scan   \* scan[c]: the slot at which CPU c's scan goes on

dvars == <<vars, scan>>

DInit == Init /\ scan = [c \in CPUs |-> 1]

(* The slots CPU c has still to look at in this pass over the table. *)
Ahead(c) == {p \in Procs : p >= scan[c] /\ state[p] = "RUNNABLE"}

StartScan(c) == SchedAcquire(c) /\ UNCHANGED scan

(* Mutant: the scan starts over after every process. *)
RunNextFromStart(c, p) ==
  /\ p \in Ahead(c) /\ \A q \in Ahead(c) : p <= q
  /\ SwitchTo(c, p)
  /\ UNCHANGED scan

(* The next RUNNABLE slot; the scan goes on after it when it comes back. *)
RunNext(c, p) ==
  /\ p \in Ahead(c) /\ \A q \in Ahead(c) : p <= q
  /\ SwitchTo(c, p)
  /\ scan' = [scan EXCEPT ![c] = p + 1]

EndScan(c) ==
  /\ Ahead(c) = {}
  /\ SchedRelease(c)
  /\ scan' = [scan EXCEPT ![c] = 1]

(* The first process runs init.c: it forks and waits, and never sleeps. *)
InitProgram == kpc'[InitProc] # "sleep"

DNext ==
  \/ \E c \in CPUs, p \in Procs : ProcStep(c, p) /\ InitProgram /\ UNCHANGED scan
  \/ \E c \in CPUs : StartScan(c) \/ EndScan(c) \/ \E p \in Procs : RunNext(c, p)
  \/ Tick /\ UNCHANGED scan

-----------------------------------------------------------------------------
(* Fairness.  A CPU that can go on goes on.  Where it has to get            *)
(* ptable.lock or tickslock first, strong fairness: acquire() spins on xchg *)
(* and is assumed to win some time.  A process need never leave user mode,  *)
(* but the timer takes it off its CPU, and trap() makes a killed one exit.  *)
(* In the kernel it goes on when it has the CPU.  init calls wait() again   *)
(* and again.                                                               *)

KernelStep(c, p) ==
  \/ ForkNoMemory(c, p) \/ ForkCopy(c, p) \/ ForkRun(c, p) \/ Exit(c, p)
  \/ WaitFail(c, p) \/ WaitSleep(c, p) \/ \E q \in Procs : Reap(c, p, q)
  \/ SleepReturn(c, p) \/ SleepAgain(c, p) \/ TickSleep(c, p)
  \/ killed[p] /\ EnterExit(c, p)
  \/ p = InitProc /\ EnterWait(c, p)

SchedulerStep(c) ==
  \/ EndScan(c)
  \/ \E p \in Procs : RunNext(c, p) \/ (Resume(c, p) /\ UNCHANGED scan)

Fairness ==
  /\ \A c \in CPUs : /\ SF_dvars(StartScan(c))
                      /\ WF_dvars(SchedulerStep(c))
                      /\ SF_dvars(\E p \in Procs : Yield(c, p) /\ UNCHANGED scan)
  /\ \A p \in Procs : SF_dvars(\E c \in CPUs : KernelStep(c, p) /\ UNCHANGED scan)
  /\ SF_dvars(Tick /\ UNCHANGED scan)

DSpec == DInit /\ [][DNext]_dvars /\ Fairness

-----------------------------------------------------------------------------
(* Properties *)

(* No process starves: every RUNNABLE process gets a CPU, whatever the      *)
(* others do, because a scan goes on where it left off.                     *)
EveryProcessRuns ==
  \A p \in Procs : state[p] = "RUNNABLE" ~> state[p] = "RUNNING"

(* kill() gets a process that is in user mode, in wait() or in sys_sleep(), *)
(* awake or asleep, into exit() ("Process won't exit until it returns to    *)
(* user space", proc.c:803).  Of the other calls that sleep nothing is said *)
(* here: a process in a pipe may miss the kill and sleep on until the pipe  *)
(* changes (pipe.c:107-111).  Nor is anything said of what exit() waits for *)
(* when it closes files.                                                    *)
KillSeen ==
  \A p \in Procs :
    killed[p] /\ state[p] # "UNUSED" /\ kpc[p] \in {"user", "wait", "sleep", "tickslock"}
      ~> kpc[p] = "exit" \/ state[p] \in {"ZOMBIE", "UNUSED"}

(* An exited process whose parent is init, or has exited, gives its slot    *)
(* back: init is awake whenever there is one to reap.                       *)
OrphansReaped ==
  \A p \in Procs : state[p] = "ZOMBIE" /\ parent[p] = InitProc ~> state[p] = "UNUSED"
=============================================================================
