----------------------------- MODULE FcfsPolicy -----------------------------
(***************************************************************************)
(* First come, first served, without a data structure: a CPU that looks    *)
(* for work runs a RUNNABLE process that was created no later than any     *)
(* other, and the process keeps the CPU until it sleeps, exits or calls    *)
(* yield().  SchedFCFS, with the heap of the code, implements this.        *)
(***************************************************************************)
EXTENDS RoundSched

CONSTANT MaxTicks   \* bound: the clock is not followed beyond this time

ASSUME MaxTicksAssumption == MaxTicks \in Nat

VARIABLES timecreated, ticks

policyvars == <<vars, ran, timecreated, ticks>>

PolicyInit ==
  /\ Init /\ RoundInit
  /\ timecreated = [p \in Procs |-> 0] /\ ticks = 0

(* allocproc() stamps the slot it takes with the time. *)
Stamped ==
  [p \in Procs |-> IF state[p] = "UNUSED" /\ state'[p] = "EMBRYO"
                     THEN ticks ELSE timecreated[p]]

Advanced == IF ticks < MaxTicks THEN ticks + 1 ELSE ticks

(* The FCFS build has no timer preemption: only sys_yield() yields. *)
SysYield(c, p) == InSyscall(c, p) /\ Yield(c, p)

Runnable == {p \in Procs : state[p] = "RUNNABLE"}

ServeFirst(c, p) ==
  /\ p \in Runnable /\ \A q \in Runnable : timecreated[p] <= timecreated[q]
  /\ RunInRound(c, p)

PolicyNext ==
  \/ /\ \E c \in CPUs, p \in Procs : OwnStep(c, p) \/ SysYield(c, p)
     /\ timecreated' = Stamped
     /\ UNCHANGED <<ran, ticks>>
  \/ Tick /\ ticks' = Advanced /\ UNCHANGED <<ran, timecreated>>
  \/ /\ \E c \in CPUs : \/ BeginRound(c) \/ EndRound(c, Runnable = {})
                        \/ \E p \in Procs : ServeFirst(c, p)
     /\ UNCHANGED <<timecreated, ticks>>

PolicySpec == PolicyInit /\ [][PolicyNext]_policyvars
=============================================================================
