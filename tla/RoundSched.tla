----------------------------- MODULE RoundSched -----------------------------
(***************************************************************************)
(* What the FCFS and the MLQ/DMLQ builds share: scheduler() runs one       *)
(* process for each time it acquires ptable.lock, taking it from a ready   *)
(* queue, and every place that makes a process RUNNABLE queues it.  This   *)
(* module says which processes those places queue, in which order.         *)
(***************************************************************************)
EXTENDS ProcTable, Sequences

VARIABLE ran   \* ran[c]: c's scheduler has run a process in this round

RoundInit == ran = [c \in CPUs |-> FALSE]

BeginRound(c) == SchedAcquire(c) /\ ran' = [ran EXCEPT ![c] = FALSE]

EndRound(c, empty) == (ran[c] \/ empty) /\ SchedRelease(c) /\ UNCHANGED ran

RunInRound(c, p) == ~ran[c] /\ SwitchTo(c, p) /\ ran' = [ran EXCEPT ![c] = TRUE]

-----------------------------------------------------------------------------
(* The processes of set S in the order of their slots. *)
InSlotOrder(S) ==
  LET upto[i \in 0 .. NPROC] ==
        IF i = 0 THEN << >>
        ELSE IF i \in S THEN Append(upto[i - 1], i) ELSE upto[i - 1]
  IN upto[NPROC]

(* wakeup1(&ticks) *)
WokenByTick == InSlotOrder({p \in Procs : state[p] = "SLEEPING" /\ chan[p] = Ticks})

(* kill() of the process in slot t. *)
WokenByKill(t) == IF state[t] = "SLEEPING" THEN <<t>> ELSE << >>

(* exit(): the parent first, then init.  Only q itself sleeps on channel q. *)
WokenByExit(p) ==
  LET told(q) == IF state[q] = "SLEEPING" /\ chan[q] = q THEN <<q>> ELSE << >>
  IN  (IF parent[p] # Null THEN told(parent[p]) ELSE << >>) \o
      (IF ZombieChildren(p) # {} /\ parent[p] # InitProc THEN told(InitProc) ELSE << >>)
=============================================================================
