------------------------------ MODULE FcfsHeap ------------------------------
(***************************************************************************)
(* The binary heap of the FCFS build (pqueue in proc.c) as operators on a  *)
(* sequence of slots: slot i of the C array is element i + 1 here, and     *)
(* key[p] is p->timecreated.                                               *)
(***************************************************************************)
EXTENDS Naturals, Sequences

ParentOf(i)   == i \div 2
LeftChild(i)  == 2 * i
RightChild(i) == 2 * i + 1

Swap(h, i, j) == [h EXCEPT ![i] = h[j], ![j] = h[i]]

(* Element i exists and was created before element j. *)
Earlier(h, key, i, j) == i <= Len(h) /\ key[h[i]] < key[h[j]]

(* A loop that moves through the heap has come to element at.  A turn takes *)
(* what is there along to element j; with j = at it changes nothing, and so *)
(* the loop has ended, which it has by the time it has made as many turns   *)
(* as there are elements.                                                   *)
MoveTo(loop, j) == [heap |-> Swap(loop.heap, loop.at, j), at |-> j]

(* The parent of element i, if i was created before it. *)
UpFrom(h, key, i) == IF i > 1 /\ Earlier(h, key, i, ParentOf(i)) THEN ParentOf(i) ELSE i

UpTurn(loop, key) == MoveTo(loop, UpFrom(loop.heap, key, loop.at))

ShiftUp(h, key, i) ==
  LET loop[n \in 0 .. Len(h)] ==
        IF n = 0 THEN [heap |-> h, at |-> i]
        ELSE UpTurn(loop[n - 1], key)
  IN loop[Len(h)].heap

(* The earliest of element i and its children. *)
MinIndex(h, key, i) ==
  LET m == IF Earlier(h, key, LeftChild(i), i) THEN LeftChild(i) ELSE i
  IN  IF Earlier(h, key, RightChild(i), m) THEN RightChild(i) ELSE m

DownTurn(loop, key) == MoveTo(loop, MinIndex(loop.heap, key, loop.at))

ShiftDown(h, key, i) ==
  LET loop[n \in 0 .. Len(h)] ==
        IF n = 0 THEN [heap |-> h, at |-> i]
        ELSE DownTurn(loop[n - 1], key)
  IN loop[Len(h)].heap

(* insert(): a process that finds the heap full is dropped. *)
Insert(h, key, p, capacity) ==
  IF Len(h) < capacity THEN ShiftUp(Append(h, p), key, Len(h) + 1) ELSE h

(* insert() of the processes ps in turn. *)
InsertAll(h, key, ps, capacity) ==
  LET after[n \in 0 .. Len(ps)] ==
        IF n = 0 THEN h ELSE Insert(after[n - 1], key, ps[n], capacity)
  IN after[Len(ps)]

(* What remove() leaves of a heap that is not empty, h[1] being its result. *)
Remove(h, key) ==
  IF Len(h) = 1 THEN << >>
  ELSE ShiftDown([SubSeq(h, 1, Len(h) - 1) EXCEPT ![1] = h[Len(h)]], key, 1)

-----------------------------------------------------------------------------
Holds(h) == {h[i] : i \in DOMAIN h}

NoDuplicates(h) == \A i, j \in DOMAIN h : h[i] = h[j] => i = j
=============================================================================
