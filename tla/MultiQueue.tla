----------------------------- MODULE MultiQueue -----------------------------
(***************************************************************************)
(* The multilevel queue of the MLQ and DMLQ builds (multiqueue in proc.c)  *)
(* as operators: one ring of n = NPROC + 1 cells for each priority, empty  *)
(* when start = end.                                                       *)
(*                                                                         *)
(* Cell -1 stands for the word in front of a ring, which belongs to the    *)
(* ring before it: swapque() writes there when a ring has wrapped around.  *)
(***************************************************************************)
EXTENDS Integers, Sequences

EmptyRing(n) == [start |-> 0, end |-> 0, slot |-> [i \in -1 .. n - 1 |-> 0]]

IsEmpty(r) == r.start = r.end

(* Dropped if the ring is full. *)
Enque(r, n, p) ==
  IF (r.end + 1) % n = r.start THEN r
  ELSE [r EXCEPT !.slot[r.end] = p, !.end = (r.end + 1) % n]

First(r) == r.slot[r.start]

(* A cell that is given up is cleared here; in the code it goes stale, and *)
(* nothing reads it before enque() writes it.                              *)
Deque(r, n) == [r EXCEPT !.start = (r.start + 1) % n, !.slot[r.start] = 0]

(* How many cells after start cell i is, and which cells are in use. *)
Offset(r, n, i) == (i + n - r.start) % n
Occupied(r, n)  == {i \in 0 .. n - 1 : Offset(r, n, i) < Offset(r, n, r.end)}

CellsOf(r, n, p) == {i \in Occupied(r, n) : r.slot[i] = p}

Contents(r, n) == [k \in 1 .. Offset(r, n, r.end) |-> r.slot[(r.start + k - 1) % n]]

(* Mutant: the gap is filled with the last process. *)
CloseGapWithLast(r, n, i) == [r.slot EXCEPT ![i] = r.slot[r.end - 1], ![r.end - 1] = 0]

(* Every process after cell i moves to the cell before its own. *)
CloseGap(r, n, i) ==
  LET moved == {j \in Occupied(r, n) : Offset(r, n, j) > Offset(r, n, i)}
  IN  [k \in DOMAIN r.slot |-> IF k + 1 \in moved THEN r.slot[k + 1]
                              ELSE IF k = r.end - 1 THEN 0 ELSE r.slot[k]]

(* swapque(): p leaves the ring of level l1 for the end of that of l2.  The *)
(* end goes back by one even from 0, for in C -1 % n is -1, and even if p   *)
(* was not there.                                                           *)
SwapQue(mq, n, l1, l2, p) ==
  LET r  == mq[l1]
      at == CellsOf(r, n, p)
  IN  IF at = {} THEN [mq EXCEPT ![l1].end = @ - 1]
      ELSE [mq EXCEPT ![l1].slot = CloseGap(r, n, CHOOSE i \in at : TRUE),
                      ![l1].end  = @ - 1,
                      ![l2]      = Enque(@, n, p)]
=============================================================================
