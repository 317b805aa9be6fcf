------------------------------ MODULE MCQueues ------------------------------
(***************************************************************************)
(* The queues of the kernel, each as large as its algorithm needs: the two *)
(* ready structures of proc.c, a pipe, and the console's ring. They share  *)
(* no state, and one of them moves in a behaviour. Of the ready            *)
(* structures, the heap of the FCFS build is deep enough for two levels of *)
(* shifting, and the rings of the MLQ and DMLQ builds stand anywhere:      *)
(* processes go in and out, and change level, in any order.                *)
(***************************************************************************)
EXTENDS FcfsHeap, MultiQueue, Pipe, Console, TLC

CONSTANTS
  Slots, Times,   \* the processes of the FCFS build, and when they were created
  Items, Levels,  \* the processes and the priorities of the MLQ build
  AnyRing         \* FALSE: swapque() is not called where a ring has wrapped

VARIABLES
  build,          \* the scheduler the kernel was built with
  pqueue, timecreated,
  queued,         \* the processes inserted and not removed
  multiqueue,
  level           \* the level at which each process waits, or 0

heapvars == <<pqueue, timecreated, queued>>
ringvars == <<multiqueue, level>>

(* A ring has a cell more than there are processes. *)
RingSize == Cardinality(Items) + 1

QueuesInit ==
  /\ build \in {"FCFS", "MLQ"}
  /\ pqueue = << >> /\ queued = {}
  /\ timecreated \in [Slots -> IF build = "FCFS" THEN Times ELSE {0}]
  /\ multiqueue = [l \in Levels |-> EmptyRing(RingSize)]
  /\ level = [p \in Items |-> 0]

HInsert(p) ==
  /\ p \notin queued
  /\ pqueue' = Insert(pqueue, timecreated, p, Cardinality(Slots))
  /\ queued' = queued \cup {p}
  /\ UNCHANGED timecreated

HRemove ==
  /\ pqueue # << >>
  /\ pqueue' = Remove(pqueue, timecreated)
  /\ queued' = queued \ {Head(pqueue)}
  /\ UNCHANGED timecreated

QEnque(l, p) ==
  /\ level[p] = 0
  /\ multiqueue' = [multiqueue EXCEPT ![l] = Enque(@, RingSize, p)]
  /\ level' = [level EXCEPT ![p] = l]

QDeque(l) ==
  /\ ~IsEmpty(multiqueue[l])
  /\ multiqueue' = [multiqueue EXCEPT ![l] = Deque(@, RingSize)]
  /\ level' = [level EXCEPT ![First(multiqueue[l])] = 0]

QSwap(l, p) ==
  LET k == level[p] IN
  /\ k \notin {0, l}
  /\ AnyRing \/ \A i \in CellsOf(multiqueue[k], RingSize, p) : i < multiqueue[k].end
  /\ multiqueue' = SwapQue(multiqueue, RingSize, k, l, p)
  /\ level' = [level EXCEPT ![p] = l]

HeapStep == HRemove \/ \E p \in Slots : HInsert(p)

RingStep ==
  \E l \in Levels : QDeque(l) \/ \E p \in Items : QEnque(l, p) \/ QSwap(l, p)

QueuesNext ==
  /\ UNCHANGED build
  /\ \/ build = "FCFS" /\ HeapStep /\ UNCHANGED ringvars
     \/ build = "MLQ"  /\ RingStep /\ UNCHANGED heapvars

(* remove() hands out a process created no later than any other queued one. *)
EarliestFirst ==
  [][\A p \in queued \ queued' : \A q \in queued : timecreated[p] <= timecreated[q]]_heapvars

(* The rings of enque(), deque() and swapque() are FIFO queues: going round *)
(* the ring and closing gaps keep the order in which the processes came.    *)
Fifo == INSTANCE FifoLevels
          WITH queue <- [l \in Levels |-> Contents(multiqueue[l], RingSize)]

RingsAreQueues == Fifo!FifoSpec

(* What the schedulers take of their ready structures is what came first. *)
ReadyInOrder == EarliestFirst /\ RingsAreQueues

-----------------------------------------------------------------------------
(* The ready structures, the pipe and the console *)

(* Writes that fit, that fill the pipe and that are larger than it. *)
SomeWrites == {<<0>>, <<0, 1>>, <<1, 0, 1>>}

VARIABLE part

readyvars == <<build, heapvars, ringvars>>

AllInit ==
  /\ part \in {"ready", "pipe", "console"}
  /\ QueuesInit /\ (part # "ready" => build = "MLQ")
  /\ Init /\ ConsInit

AllNext ==
  /\ UNCHANGED part
  /\ \/ part = "ready"   /\ QueuesNext /\ UNCHANGED <<vars, consvars>>
     \/ part = "pipe"    /\ Next       /\ UNCHANGED <<readyvars, consvars>>
     \/ part = "console" /\ ConsNext   /\ UNCHANGED <<readyvars, vars>>

AllSpec == AllInit /\ [][AllNext]_<<part, readyvars, vars, consvars>>

(* No definition tells one writer of the pipe, or one reader of the        *)
(* console, from another.                                                  *)
QueuesSymmetry == Permutations(Writers) \cup Permutations(TReaders)
=============================================================================
