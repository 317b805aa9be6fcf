----------------------------- MODULE MlqPolicy -----------------------------
(***************************************************************************)
(* What a multilevel queue promises, with unbounded FIFO queues: RUNNABLE  *)
(* processes wait in the queue of their priority in the order in which     *)
(* they got there, a CPU that looks for work takes the first process of    *)
(* the highest level that has one, and a process changes level while it    *)
(* waits only by chpr(), which puts it at the end of the other queue.      *)
(* SchedMLQ, with the rings of the code, implements this.                  *)
(***************************************************************************)
EXTENDS RoundSched

CONSTANTS NUMPR, MDPR   \* the number of priorities, and the one init gets

VARIABLES priority, queue

mlqvars == <<vars, ran, priority, queue>>

Levels == 1 .. NUMPR

MlqInit ==
  /\ Init /\ RoundInit
  /\ queue = [l \in Levels |-> IF l = MDPR THEN <<InitProc>> ELSE << >>]
  /\ priority[InitProc] = MDPR

(* Some order of the processes that this step makes RUNNABLE at level l. *)
NewlyReady(l) ==
  {p \in Procs : state[p] # "RUNNABLE" /\ state'[p] = "RUNNABLE" /\ priority'[p] = l}

QueueNewlyReady ==
  \A l \in Levels :
    LET old == Len(queue[l]) IN
    /\ Len(queue'[l]) = old + Cardinality(NewlyReady(l))
    /\ SubSeq(queue'[l], 1, old) = queue[l]
    /\ {queue'[l][i] : i \in old + 1 .. Len(queue'[l])} = NewlyReady(l)

(* Any step of the table; who is not waiting may change priority. *)
PolicyStep ==
  /\ \/ \E c \in CPUs, p \in Procs : ProcStep(c, p)
     \/ Tick
     \/ UNCHANGED vars
  /\ QueueNewlyReady
  /\ \A p \in Procs : state[p] = "RUNNABLE" => priority'[p] = priority[p]
  /\ UNCHANGED ran

ServeHighest(c, l) ==
  /\ queue[l] # << >> /\ \A k \in 1 .. l - 1 : queue[k] = << >>
  /\ RunInRound(c, Head(queue[l]))
  /\ queue' = [queue EXCEPT ![l] = Tail(@)]
  /\ UNCHANGED priority

NothingReady == \A l \in Levels : queue[l] = << >>

ChangeLevel(p, l) ==
  /\ state[p] = "RUNNABLE" /\ priority[p] # l
  /\ \E i \in DOMAIN queue[priority[p]] :
       /\ queue[priority[p]][i] = p
       /\ queue' = [queue EXCEPT ![priority[p]] = SubSeq(@, 1, i - 1) \o SubSeq(@, i + 1, Len(@)),
                                 ![l] = Append(@, p)]
  /\ priority' = [priority EXCEPT ![p] = l]
  /\ UNCHANGED <<vars, ran>>

MlqNext ==
  \/ PolicyStep
  \/ \E c \in CPUs, l \in Levels : ServeHighest(c, l)
  \/ \E p \in Procs, l \in Levels : ChangeLevel(p, l)
  \/ /\ \E c \in CPUs : BeginRound(c) \/ EndRound(c, NothingReady)
     /\ UNCHANGED <<priority, queue>>

MlqSpec == MlqInit /\ [][MlqNext]_mlqvars
=============================================================================
