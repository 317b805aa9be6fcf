----------------------------- MODULE FifoLevels -----------------------------
(***************************************************************************)
(* Queues without bound, one for each level: what the rings of MultiQueue  *)
(* stand for.                                                              *)
(***************************************************************************)
EXTENDS Naturals, Sequences

CONSTANTS Items, Levels
VARIABLE queue

FifoInit == queue = [l \in Levels |-> << >>]

Put(l, p) == queue' = [queue EXCEPT ![l] = Append(@, p)]

Take(l) == queue[l] # << >> /\ queue' = [queue EXCEPT ![l] = Tail(@)]

(* p leaves level k, wherever it is in it, for the end of level l. *)
Move(k, l, p) ==
  queue' = [queue EXCEPT ![k] = SelectSeq(@, LAMBDA q : q # p), ![l] = Append(@, p)]

FifoNext ==
  /\ queue' # queue
  /\ \/ \E l \in Levels : Take(l) \/ \E p \in Items : Put(l, p)
     \/ \E k, l \in Levels, p \in Items : Move(k, l, p)

FifoSpec == FifoInit /\ [][FifoNext]_queue
=============================================================================
