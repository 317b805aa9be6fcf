----------------------------- MODULE FcfsProofs -----------------------------
(***************************************************************************)
(* Proofs about the FCFS build of the kernel: the heap of SchedFCFS is     *)
(* first come, first served, as FcfsPolicy says it without a data          *)
(* structure.                                                              *)
(*                                                                         *)
(* The loops of shiftup() and shiftdown() come first.  Each moves one      *)
(* element that is out of order through the heap; a turn keeps everything  *)
(* else in order, and moves towards an end of the heap, so that the loop   *)
(* ends, with all in order.  Hence insert() and remove() keep a heap of    *)
(* what they are told, and the heap of the kernel is one of the RUNNABLE   *)
(* processes.                                                              *)
(***************************************************************************)
EXTENDS SchedulerProofs, SchedFCFS

Keys == [Procs -> Nat]

(* Element i was created no earlier than its parent. *)
InOrder(h, key, i) == key[h[ParentOf(i)]] <= key[h[i]]

Ordered(h, key) == \A i \in 2 .. Len(h) : InOrder(h, key, i)

(* All is in order but for element j and its parent, ... *)
OrderedAbove(h, key, j) == \A i \in 2 .. Len(h) : i # j => InOrder(h, key, i)

(* ... or but for element j and its children; ... *)
OrderedBelow(h, key, j) == \A i \in 2 .. Len(h) : ParentOf(i) # j => InOrder(h, key, i)

(* ... and these would be, were element j not there. *)
Bridged(h, key, j) ==
  \A i \in 2 .. Len(h) : ParentOf(i) = j /\ j > 1 => key[h[ParentOf(j)]] <= key[h[i]]

(* A heap of the processes R. *)
HeapOf(h, key, R) == h \in Seq(Procs) /\ Distinct(h) /\ Elems(h) = R /\ Ordered(h, key)

LEMMA Parents ==
  /\ \A i \in Nat : i >= 2 => /\ ParentOf(i) \in Nat /\ 1 <= ParentOf(i) /\ ParentOf(i) < i
                              /\ \/ i = LeftChild(ParentOf(i))
                                 \/ i = RightChild(ParentOf(i))
  /\ \A j \in Nat : /\ LeftChild(j) \in Nat /\ RightChild(j) \in Nat
                    /\ ParentOf(LeftChild(j)) = j /\ ParentOf(RightChild(j)) = j
                    /\ j >= 1 => j < LeftChild(j) /\ j < RightChild(j)
  BY DEF ParentOf, LeftChild, RightChild

LEMMA KeyOf ==
  ASSUME NEW h \in Seq(Procs), NEW key \in Keys
  PROVE  \A i \in 1 .. Len(h) : h[i] \in Procs /\ key[h[i]] \in Nat
  BY ElementOfSeq DEF Keys

(* An exchange of two elements. *)
Exchanged(g, h, i, j) ==
  \A k \in 1 .. Len(h) : g[k] = IF k = i THEN h[j] ELSE IF k = j THEN h[i] ELSE h[k]

LEMMA Swapped ==
  ASSUME NEW h \in Seq(Procs), NEW i \in 1 .. Len(h), NEW j \in 1 .. Len(h)
  PROVE  /\ Swap(h, i, j) \in Seq(Procs) /\ Len(Swap(h, i, j)) = Len(h)
         /\ Exchanged(Swap(h, i, j), h, i, j)
         /\ Distinct(h) => Distinct(Swap(h, i, j))
         /\ Elems(Swap(h, i, j)) = Elems(h)
         /\ i = j => Swap(h, i, j) = h
<1> DEFINE n == Len(h)
           g == Swap(h, i, j)
<1>1. n \in Nat /\ h \in [1 .. n -> Procs]
  BY LenProperties
<1>2. g \in [1 .. n -> Procs]
  BY <1>1 DEF Swap
<1>3. g \in Seq(Procs) /\ Len(g) = n
  <2>1. g \in Seq(Procs)
    BY <1>1, <1>2, SeqDef
  <2>2. DOMAIN g = 1 .. n /\ DOMAIN g = 1 .. Len(g) /\ Len(g) \in Nat
    BY <1>2, <2>1, LenProperties
  <2> HIDE DEF g, n
  <2> QED
    BY <1>1, <2>1, <2>2
<1>4. \A k \in 1 .. n : g[k] = IF k = i THEN h[j] ELSE IF k = j THEN h[i] ELSE h[k]
  BY <1>1 DEF Swap
<1> HIDE DEF g
<1>5. Distinct(h) => Distinct(g)
  BY <1>3, <1>4 DEF Distinct
<1>6. Elems(g) = Elems(h)
  <2>1. ASSUME NEW k \in 1 .. n
        PROVE  g[k] \in Elems(h) /\ h[k] \in Elems(g)
    BY <1>3, <1>4 DEF Elems
  <2> QED
    BY <1>3, <2>1 DEF Elems
<1>7. i = j => g = h
  <2>1. \A k \in 1 .. n : i = j => g[k] = h[k]
    BY <1>4
  <2>2. g = [k \in 1 .. n |-> g[k]] /\ h = [k \in 1 .. n |-> h[k]]
    BY <1>1, <1>2 DEF g
  <2> HIDE DEF n
  <2> QED
    BY <2>1, <2>2
<1> QED
  BY <1>3, <1>4, <1>5, <1>6, <1>7 DEF g, Exchanged

(* A turn of shiftup() leaves the element in order with its parent, or     *)
(* exchanges the two, which puts it in order with all below it.            *)
LEMMA UpStep ==
  ASSUME NEW h \in Seq(Procs), NEW key \in Keys, NEW j \in 1 .. Len(h),
         OrderedAbove(h, key, j), Bridged(h, key, j),
         NEW m, m = UpFrom(h, key, j)
  PROVE  /\ m \in 1 .. Len(h) /\ m <= j
         /\ m = j => Ordered(h, key)
         /\ OrderedAbove(Swap(h, j, m), key, m) /\ Bridged(Swap(h, j, m), key, m)
<1> DEFINE n == Len(h)
           g == Swap(h, j, m)
<1>1. n \in Nat /\ j \in Nat /\ 1 <= j /\ j <= n
  BY LenProperties
<1>2. \A i \in 1 .. n : key[h[i]] \in Nat
  BY KeyOf
<1>3. CASE m = j
  <2>1. j > 1 => InOrder(h, key, j)
    <3>1. j > 1 => ParentOf(j) \in 1 .. n /\ ParentOf(j) < j
      BY <1>1, Parents
    <3> QED
      BY <1>1, <1>2, <1>3, <3>1 DEF UpFrom, Earlier, InOrder
  <2>2. Ordered(h, key)
    BY <1>1, <2>1 DEF Ordered, OrderedAbove
  <2>3. g = h
    BY <1>3, Swapped
  <2> QED
    BY <1>1, <1>3, <2>2, <2>3
<1>4. CASE m # j
  <2>1. j > 1 /\ m = ParentOf(j) /\ key[h[j]] < key[h[m]]
    BY <1>4 DEF UpFrom, Earlier
  <2>2. m \in Nat /\ 1 <= m /\ m < j /\ m \in 1 .. n
    BY <1>1, <2>1, Parents
  <2>3. /\ Len(g) = n
        /\ \A k \in 1 .. n : g[k] = IF k = j THEN h[m] ELSE IF k = m THEN h[j] ELSE h[k]
    <3>1. Len(g) = n /\ Exchanged(g, h, j, m)
      BY <2>2, Swapped
    <3> QED
      BY <3>1 DEF Exchanged
  <2> HIDE DEF g
  <2>4. ASSUME NEW i \in 2 .. n
        PROVE  /\ i \in 1 .. n /\ ParentOf(i) \in 1 .. n /\ ParentOf(i) < i
               /\ key[h[i]] \in Nat /\ key[h[ParentOf(i)]] \in Nat
    <3>1. i \in Nat /\ i >= 2 /\ i <= n /\ i \in 1 .. n
      BY <1>1
    <3>2. ParentOf(i) \in 1 .. n /\ ParentOf(i) < i
      BY <1>1, <3>1, Parents
    <3> QED
      BY <1>2, <3>1, <3>2
  <2>5. \A i \in 2 .. n : i # j => key[h[ParentOf(i)]] <= key[h[i]]
    BY DEF OrderedAbove, InOrder
  <2>6. \A i \in 2 .. n : ParentOf(i) = j => key[h[m]] <= key[h[i]]
    BY <2>1 DEF Bridged
  <2>7. key[h[j]] \in Nat /\ key[h[m]] \in Nat
    BY <1>2, <2>2
  <2>8. ASSUME NEW i \in 2 .. n, i # m
        PROVE  key[g[ParentOf(i)]] <= key[g[i]]
    <3>1. CASE i = j
      BY <2>1, <2>2, <2>3, <2>7, <3>1
    <3>2. CASE i # j /\ ParentOf(i) = j
      BY <2>3, <2>4, <2>6, <2>8, <3>2
    <3>3. CASE i # j /\ ParentOf(i) = m
      BY <2>1, <2>2, <2>3, <2>4, <2>5, <2>7, <2>8, <3>3
    <3>4. CASE i # j /\ ParentOf(i) # j /\ ParentOf(i) # m
      BY <2>3, <2>4, <2>5, <2>8, <3>4
    <3> QED
      BY <3>1, <3>2, <3>3, <3>4
  <2>9. ASSUME NEW i \in 2 .. n, ParentOf(i) = m, m > 1
        PROVE  key[g[ParentOf(m)]] <= key[g[i]]
    <3>1. m \in 2 .. n
      BY <2>2, <2>9
    <3>2. /\ ParentOf(m) \in 1 .. n /\ ParentOf(m) # m /\ ParentOf(m) # j
          /\ key[h[ParentOf(m)]] \in Nat
      BY <2>2, <2>4, <3>1
    <3>3. key[h[ParentOf(m)]] <= key[h[m]]
      BY <2>2, <2>5, <3>1
    <3>4. g[ParentOf(m)] = h[ParentOf(m)]
      BY <2>3, <3>2
    <3>5. CASE i = j
      BY <2>2, <2>3, <3>3, <3>4, <3>5
    <3>6. CASE i # j
      <4>1. key[h[m]] <= key[h[i]]
        BY <2>5, <2>9, <3>6
      <4>2. g[i] = h[i] /\ key[h[i]] \in Nat
        BY <2>3, <2>4, <2>9, <3>6
      <4> QED
        BY <2>7, <3>2, <3>3, <3>4, <4>1, <4>2
    <3> QED
      BY <3>5, <3>6
  <2>10. OrderedAbove(g, key, m) /\ Bridged(g, key, m)
    BY <2>3, <2>8, <2>9 DEF OrderedAbove, Bridged, InOrder
  <2> QED
    BY <1>1, <1>4, <2>2, <2>10 DEF g
<1> QED
  BY <1>3, <1>4

(* A turn of shiftdown() leaves the element in order with its children, or *)
(* exchanges it with the earlier one, which puts that in order with all    *)
(* around it.                                                              *)
LEMMA DownStep ==
  ASSUME NEW h \in Seq(Procs), NEW key \in Keys, NEW j \in 1 .. Len(h),
         OrderedBelow(h, key, j), Bridged(h, key, j),
         NEW m, m = MinIndex(h, key, j)
  PROVE  /\ m \in 1 .. Len(h) /\ m >= j
         /\ m = j => Ordered(h, key)
         /\ OrderedBelow(Swap(h, j, m), key, m) /\ Bridged(Swap(h, j, m), key, m)
<1> DEFINE n == Len(h)
           g == Swap(h, j, m)
           l == LeftChild(j)
           r == RightChild(j)
<1>1. n \in Nat /\ j \in Nat /\ 1 <= j /\ j <= n
  BY LenProperties
<1>2. \A i \in 1 .. n : key[h[i]] \in Nat
  BY KeyOf
<1>3. l \in Nat /\ r \in Nat /\ j < l /\ j < r /\ ParentOf(l) = j /\ ParentOf(r) = j
  BY <1>1, Parents
<1>4. \A i \in 2 .. n : ParentOf(i) = j => i = l \/ i = r
  <2>1. \A i \in 2 .. n : i \in Nat /\ i >= 2
    BY <1>1
  <2> QED
    BY <2>1, Parents
<1> HIDE DEF l, r
<1>5. /\ m \in {j, l, r} /\ m \in 1 .. n
      /\ key[h[m]] <= key[h[j]]
      /\ l <= n => key[h[m]] <= key[h[l]]
      /\ r <= n => key[h[m]] <= key[h[r]]
  <2>1. /\ key[h[j]] \in Nat /\ (l <= n => key[h[l]] \in Nat) /\ (r <= n => key[h[r]] \in Nat)
    BY <1>1, <1>2, <1>3
  <2> DEFINE u == IF Earlier(h, key, l, j) THEN l ELSE j
  <2>2. m = IF Earlier(h, key, r, u) THEN r ELSE u
    BY DEF MinIndex, l, r
  <2>3. u \in {j, l} /\ u <= n /\ key[h[u]] \in Nat /\ key[h[u]] <= key[h[j]]
        /\ (l <= n => key[h[u]] <= key[h[l]])
    BY <1>1, <2>1 DEF Earlier
  <2> HIDE DEF u
  <2>4. CASE Earlier(h, key, r, u)
    <3>1. m = r /\ r <= n /\ key[h[r]] < key[h[u]] /\ key[h[r]] \in Nat
      BY <2>1, <2>2, <2>4 DEF Earlier
    <3>2. key[h[r]] <= key[h[j]] /\ (l <= n => key[h[r]] <= key[h[l]])
      BY <2>1, <2>3, <3>1
    <3> QED
      BY <1>1, <1>3, <3>1, <3>2
  <2>5. CASE ~Earlier(h, key, r, u)
    <3>1. m = u /\ (r <= n => key[h[u]] <= key[h[r]])
      BY <2>1, <2>2, <2>3, <2>5 DEF Earlier
    <3> QED
      BY <1>1, <1>3, <2>3, <3>1
  <2> QED
    BY <2>4, <2>5
<1>6. ASSUME NEW i \in 2 .. n
      PROVE  /\ i \in 1 .. n /\ ParentOf(i) \in 1 .. n /\ ParentOf(i) < i
             /\ key[h[i]] \in Nat /\ key[h[ParentOf(i)]] \in Nat
  <2>1. i \in Nat /\ i >= 2 /\ i <= n /\ i \in 1 .. n
    BY <1>1
  <2>2. ParentOf(i) \in 1 .. n /\ ParentOf(i) < i
    BY <1>1, <2>1, Parents
  <2> QED
    BY <1>2, <2>1, <2>2
<1>7. \A i \in 2 .. n : ParentOf(i) # j => key[h[ParentOf(i)]] <= key[h[i]]
  BY DEF OrderedBelow, InOrder
<1>8. \A i \in 2 .. n : ParentOf(i) = j => key[h[m]] <= key[h[i]]
  <2> SUFFICES ASSUME NEW i \in 2 .. n, ParentOf(i) = j
               PROVE  key[h[m]] <= key[h[i]]
    OBVIOUS
  <2>1. i <= n /\ (i = l \/ i = r)
    BY <1>1, <1>4
  <2> QED
    BY <1>5, <2>1
<1>9. CASE m = j
  <2>1. Ordered(h, key)
    BY <1>7, <1>8, <1>9 DEF Ordered, InOrder
  <2>2. g = h
    BY <1>9, Swapped
  <2> QED
    BY <1>1, <1>9, <2>1, <2>2
<1>10. CASE m # j
  <2>1. m \in Nat /\ j < m /\ ParentOf(m) = j /\ m \in 2 .. n
    BY <1>1, <1>3, <1>5, <1>10
  <2>2. /\ Len(g) = n
        /\ \A k \in 1 .. n : g[k] = IF k = j THEN h[m] ELSE IF k = m THEN h[j] ELSE h[k]
    <3>1. Len(g) = n /\ Exchanged(g, h, j, m)
      BY <1>5, Swapped
    <3> QED
      BY <3>1 DEF Exchanged
  <2> HIDE DEF g
  <2>3. key[h[j]] \in Nat /\ key[h[m]] \in Nat
    BY <1>1, <1>2, <1>5
  <2>4. ASSUME NEW i \in 2 .. n, ParentOf(i) # m
        PROVE  key[g[ParentOf(i)]] <= key[g[i]]
    <3>1. CASE i = m
      BY <1>1, <1>5, <2>1, <2>2, <2>3, <3>1
    <3>2. CASE i # m /\ ParentOf(i) = j
      <4>1. i # j
        BY <1>6, <2>4, <3>2
      <4> QED
        BY <1>6, <1>8, <2>2, <2>4, <3>2, <4>1
    <3>3. CASE i = j
      <4>1. j > 1 /\ ParentOf(j) \in 1 .. n /\ ParentOf(j) # j /\ ParentOf(j) # m
        BY <1>1, <1>6, <2>1, <2>4, <3>3
      <4>2. key[h[ParentOf(j)]] <= key[h[m]]
        BY <2>1, <4>1 DEF Bridged
      <4> QED
        BY <1>1, <2>2, <3>3, <4>1, <4>2
    <3>4. CASE i # m /\ i # j /\ ParentOf(i) # j
      BY <1>6, <1>7, <2>2, <2>4, <3>4
    <3> QED
      BY <3>1, <3>2, <3>3, <3>4
  <2>5. ASSUME NEW i \in 2 .. n, ParentOf(i) = m
        PROVE  key[g[ParentOf(m)]] <= key[g[i]]
    <3>1. i # m /\ i # j /\ i \in 1 .. n
      BY <1>6, <2>1, <2>5
    <3>2. key[h[m]] <= key[h[i]]
      BY <1>7, <1>10, <2>5
    <3> QED
      BY <1>1, <2>1, <2>2, <3>1, <3>2
  <2>6. OrderedBelow(g, key, m) /\ Bridged(g, key, m)
    BY <2>2, <2>4, <2>5 DEF OrderedBelow, Bridged, InOrder
  <2> QED
    BY <1>1, <1>10, <2>1, <2>6 DEF g
<1> QED
  BY <1>9, <1>10
-----------------------------------------------------------------------------
(* A loop that gets nearer to its end with every turn that changes what it *)
(* has, has come to its end once it has made enough turns.                 *)
LEMMA LoopEnds ==
  ASSUME NEW n \in Nat, NEW S, NEW s \in S, NEW turn \in [S -> S], NEW left \in [S -> Nat],
         left[s] <= n, \A x \in S : turn[x] = x \/ left[turn[x]] < left[x],
         NEW f, Follows(f, n, S, s, [i \in 1 .. n |-> turn])
  PROVE  f[n] \in S /\ turn[f[n]] = f[n]
<1>1. f \in [0 .. n -> S] /\ f[0] = s /\ \A i \in 1 .. n : f[i] = turn[f[i - 1]]
  BY DEF Follows
<1> DEFINE G == {i \in 0 .. n : turn[f[i]] = f[i] \/ left[f[i]] + i <= n}
<1>2. 0 \in G
  BY <1>1
<1>3. ASSUME NEW i \in 0 .. n, i # n, i \in G
      PROVE  i + 1 \in G
  <2>1. i + 1 \in 1 .. n /\ i + 1 \in 0 .. n /\ i + 1 - 1 = i
    BY <1>3
  <2>2. f[i] \in S /\ f[i + 1] = turn[f[i]] /\ f[i + 1] \in S
    BY <1>1, <2>1
  <2>3. left[f[i]] \in Nat /\ left[f[i + 1]] \in Nat
    BY <2>2
  <2>4. CASE turn[f[i]] = f[i]
    BY <2>1, <2>2, <2>4
  <2>5. CASE turn[f[i]] # f[i]
    <3>1. left[f[i]] + i <= n /\ left[f[i + 1]] < left[f[i]]
      BY <1>3, <2>2, <2>5
    <3>2. left[f[i + 1]] + (i + 1) <= n
      BY <2>3, <3>1
    <3> QED
      BY <2>1, <3>2
  <2> QED
    BY <2>4, <2>5
<1>4. n \in G
  <2> HIDE DEF G
  <2>1. \A i \in 0 .. n : i \in G
    BY <1>2, <1>3, UpTo
  <2> QED
    BY <2>1
<1>5. f[n] \in S
  BY <1>1
<1>6. turn[f[n]] = f[n] \/ left[f[n]] <= 0
  <2>1. left[f[n]] \in Nat
    BY <1>5
  <2> QED
    BY <1>4, <2>1
<1>7. left[turn[f[n]]] \in Nat /\ left[f[n]] \in Nat
  BY <1>5
<1> QED
  BY <1>5, <1>6, <1>7

Rearranged(g, h) ==
  g \in Seq(Procs) /\ Len(g) = Len(h) /\ Distinct(g) /\ Elems(g) = Elems(h)

(* The loop of shiftup(), from turn to turn. *)
UpLoops(h, key) ==
  {x \in [heap : Seq(Procs), at : 1 .. Len(h)] :
     /\ Rearranged(x.heap, h)
     /\ OrderedAbove(x.heap, key, x.at) /\ Bridged(x.heap, key, x.at)}

LEMMA UpTurns ==
  ASSUME NEW h, NEW key \in Keys, NEW x \in UpLoops(h, key)
  PROVE  /\ UpTurn(x, key) \in UpLoops(h, key)
         /\ (UpTurn(x, key) = x /\ Ordered(x.heap, key)) \/ UpTurn(x, key).at < x.at
<1> DEFINE g == x.heap
           j == x.at
           m == UpFrom(g, key, j)
           y == Swap(g, j, m)
<1>1. /\ x = [heap |-> g, at |-> j] /\ g \in Seq(Procs) /\ j \in 1 .. Len(g) /\ Len(g) = Len(h)
      /\ Rearranged(g, h) /\ OrderedAbove(g, key, j) /\ Bridged(g, key, j)
  BY DEF UpLoops, Rearranged
<1>2. UpTurn(x, key) = [heap |-> y, at |-> m]
  BY DEF UpTurn, MoveTo
<1> HIDE DEF g, j, m, y
<1>3. /\ m \in 1 .. Len(g) /\ m <= j /\ (m = j => Ordered(g, key))
      /\ OrderedAbove(y, key, m) /\ Bridged(y, key, m)
  BY <1>1, UpStep DEF m, y
<1>4. Rearranged(y, h) /\ (m = j => y = g)
  BY <1>1, <1>3, Swapped DEF Rearranged, y
<1>5. [heap |-> y, at |-> m] \in UpLoops(h, key)
  BY <1>1, <1>3, <1>4 DEF UpLoops, Rearranged
<1>6. j \in Nat /\ m \in Nat
  BY <1>1, <1>3, LenProperties
<1> QED
  BY <1>1, <1>2, <1>3, <1>4, <1>5, <1>6 DEF g, j

LEMMA ShiftedUp ==
  ASSUME NEW h \in Seq(Procs), Distinct(h), NEW key \in Keys, NEW i \in 1 .. Len(h),
         OrderedAbove(h, key, i), Bridged(h, key, i)
  PROVE  HeapOf(ShiftUp(h, key, i), key, Elems(h))
<1> DEFINE n == Len(h)
           S == UpLoops(h, key)
           s == [heap |-> h, at |-> i]
           turn == [x \in S |-> UpTurn(x, key)]
           left == [x \in S |-> x.at]
           loop == CHOOSE f : f = [k \in 0 .. n |-> IF k = 0 THEN s
                                                    ELSE UpTurn(f[k - 1], key)]
<1>1. n \in Nat /\ i \in Nat /\ 1 <= i /\ i <= n
  BY LenProperties
<1>2. s \in S
  BY DEF UpLoops, Rearranged
<1>3. ShiftUp(h, key, i) = loop[n].heap
  BY Zenon DEF ShiftUp
<1> HIDE DEF S, s, loop, n
<1>4. turn \in [S -> S]
  BY UpTurns DEF S
<1>5. \A x \in S : x.at \in Nat /\ x.at <= n /\ 1 <= x.at
  BY <1>1 DEF S, UpLoops, n
<1>6. left \in [S -> Nat]
  BY <1>1, <1>5
<1>7. left[s] <= n
  <2>1. left[s] = i
    BY <1>2 DEF s
  <2> QED
    BY <1>1, <2>1
<1>8. \A x \in S : (turn[x] = x /\ Ordered(x.heap, key)) \/ left[turn[x]] < left[x]
  <2> TAKE x \in S
  <2>1. turn[x] = UpTurn(x, key) /\ turn[x] \in S
    BY <1>4
  <2>2. left[turn[x]] = turn[x].at /\ left[x] = x.at
    BY <2>1
  <2>3. (turn[x] = x /\ Ordered(x.heap, key)) \/ turn[x].at < x.at
    BY <2>1, UpTurns DEF S
  <2>4. x.at \in Nat /\ turn[x].at \in Nat
    BY <1>5, <2>1
  <2> HIDE DEF turn, left
  <2> QED
    BY <1>1, <2>2, <2>3, <2>4
<1>9. \A x \in S : turn[x] = UpTurn(x, key)
  OBVIOUS
<1> HIDE DEF turn, left
<1>10. PICK f : Follows(f, n, S, s, [k \in 1 .. n |-> turn])
  <2> DEFINE step == [k \in 1 .. n |-> turn]
  <2>1. step \in StepsOn(n, S)
    BY <1>4 DEF StepsOn
  <2> HIDE DEF step
  <2>2. \E f : Follows(f, n, S, s, step)
    BY <1>1, <1>2, <2>1, Iterated
  <2> QED
    BY <2>2 DEF step
<1>11. f[n] \in S /\ turn[f[n]] = f[n]
  BY <1>1, <1>2, <1>4, <1>6, <1>7, <1>8, <1>10, LoopEnds
<1>12. Ordered(f[n].heap, key)
  <2>1. left[f[n]] \in Nat
    BY <1>6, <1>11
  <2> QED
    BY <1>8, <1>11, <2>1
<1>13. f \in [0 .. n -> S] /\ f[0] = s /\ \A k \in 1 .. n : f[k] = turn[f[k - 1]]
  BY <1>10 DEF Follows
<1>14. loop = [k \in 0 .. n |-> IF k = 0 THEN s ELSE UpTurn(loop[k - 1], key)]
  <2>1. ASSUME NEW k \in 0 .. n
        PROVE  f[k] = IF k = 0 THEN s ELSE UpTurn(f[k - 1], key)
    <3>1. CASE k # 0
      <4>1. k \in 1 .. n /\ k - 1 \in 0 .. n
        BY <1>1, <3>1
      <4>2. f[k] = turn[f[k - 1]] /\ f[k - 1] \in S
        BY <1>13, <4>1
      <4> QED
        BY <1>9, <3>1, <4>2
    <3> QED
      BY <1>13, <3>1
  <2>2. f = [k \in 0 .. n |-> f[k]]
    BY <1>13
  <2>3. f = [k \in 0 .. n |-> IF k = 0 THEN s ELSE UpTurn(f[k - 1], key)]
    BY <2>1, <2>2, Zenon
  <2> QED
    BY <2>3, Zenon DEF loop
<1>15. loop[n] = f[n]
  <2> DEFINE G == {k \in 0 .. n : loop[k] = f[k]}
  <2>1. 0 \in G
    BY <1>1, <1>13, <1>14
  <2>2. ASSUME NEW k \in 0 .. n, k # n, k \in G
        PROVE  k + 1 \in G
    <3>1. k + 1 \in 0 .. n /\ k + 1 \in 1 .. n /\ k + 1 # 0 /\ k + 1 - 1 = k
      BY <1>1, <2>2
    <3>2. \A d \in 0 .. n : d # 0 => loop[d] = UpTurn(loop[d - 1], key)
      BY <1>14, Zenon
    <3>3. loop[k + 1] = UpTurn(loop[k], key)
      BY <3>1, <3>2
    <3>4. f[k + 1] = turn[f[k]] /\ f[k] \in S /\ loop[k] = f[k]
      BY <1>13, <2>2, <3>1
    <3>5. f[k + 1] = loop[k + 1]
      BY <1>9, <3>3, <3>4
    <3> QED
      BY <3>1, <3>5
  <2>3. n \in 0 .. n
    BY <1>1
  <2> HIDE DEF G
  <2>4. \A k \in 0 .. n : k \in G
    BY <1>1, <2>1, <2>2, UpTo
  <2> QED
    BY <2>3, <2>4 DEF G
<1>16. Rearranged(f[n].heap, h)
  BY <1>11 DEF S, UpLoops
<1> QED
  BY <1>3, <1>12, <1>15, <1>16 DEF HeapOf, Rearranged

(* The loop of shiftdown(), from turn to turn. *)
DownLoops(h, key) ==
  {x \in [heap : Seq(Procs), at : 1 .. Len(h)] :
     /\ Rearranged(x.heap, h)
     /\ OrderedBelow(x.heap, key, x.at) /\ Bridged(x.heap, key, x.at)}

LEMMA DownTurns ==
  ASSUME NEW h, NEW key \in Keys, NEW x \in DownLoops(h, key)
  PROVE  /\ DownTurn(x, key) \in DownLoops(h, key)
         /\ (DownTurn(x, key) = x /\ Ordered(x.heap, key)) \/ DownTurn(x, key).at > x.at
<1> DEFINE g == x.heap
           j == x.at
           m == MinIndex(g, key, j)
           y == Swap(g, j, m)
<1>1. /\ x = [heap |-> g, at |-> j] /\ g \in Seq(Procs) /\ j \in 1 .. Len(g) /\ Len(g) = Len(h)
      /\ Rearranged(g, h) /\ OrderedBelow(g, key, j) /\ Bridged(g, key, j)
  BY DEF DownLoops, Rearranged
<1>2. DownTurn(x, key) = [heap |-> y, at |-> m]
  BY DEF DownTurn, MoveTo
<1> HIDE DEF g, j, m, y
<1>3. /\ m \in 1 .. Len(g) /\ m >= j /\ (m = j => Ordered(g, key))
      /\ OrderedBelow(y, key, m) /\ Bridged(y, key, m)
  BY <1>1, DownStep DEF m, y
<1>4. Rearranged(y, h) /\ (m = j => y = g)
  BY <1>1, <1>3, Swapped DEF Rearranged, y
<1>5. [heap |-> y, at |-> m] \in DownLoops(h, key)
  BY <1>1, <1>3, <1>4 DEF DownLoops, Rearranged
<1>6. j \in Nat /\ m \in Nat
  BY <1>1, <1>3, LenProperties
<1> QED
  BY <1>1, <1>2, <1>3, <1>4, <1>5, <1>6 DEF g, j

LEMMA ShiftedDown ==
  ASSUME NEW h \in Seq(Procs), Distinct(h), NEW key \in Keys, NEW i \in 1 .. Len(h),
         OrderedBelow(h, key, i), Bridged(h, key, i)
  PROVE  HeapOf(ShiftDown(h, key, i), key, Elems(h))
<1> DEFINE n == Len(h)
           S == DownLoops(h, key)
           s == [heap |-> h, at |-> i]
           turn == [x \in S |-> DownTurn(x, key)]
           left == [x \in S |-> n - x.at]
           loop == CHOOSE f : f = [k \in 0 .. n |-> IF k = 0 THEN s
                                                    ELSE DownTurn(f[k - 1], key)]
<1>1. n \in Nat /\ i \in Nat /\ 1 <= i /\ i <= n
  BY LenProperties
<1>2. s \in S
  BY DEF DownLoops, Rearranged
<1>3. ShiftDown(h, key, i) = loop[n].heap
  BY Zenon DEF ShiftDown
<1> HIDE DEF S, s, loop, n
<1>4. turn \in [S -> S]
  BY DownTurns DEF S
<1>5. \A x \in S : x.at \in Nat /\ x.at <= n /\ 1 <= x.at
  BY <1>1 DEF S, DownLoops, n
<1>6. left \in [S -> Nat]
  BY <1>1, <1>5
<1>7. left[s] <= n
  <2>1. left[s] = n - i
    BY <1>2 DEF s
  <2> QED
    BY <1>1, <2>1
<1>8. \A x \in S : (turn[x] = x /\ Ordered(x.heap, key)) \/ left[turn[x]] < left[x]
  <2> TAKE x \in S
  <2>1. turn[x] = DownTurn(x, key) /\ turn[x] \in S
    BY <1>4
  <2>2. left[turn[x]] = n - turn[x].at /\ left[x] = n - x.at
    BY <2>1
  <2>3. (turn[x] = x /\ Ordered(x.heap, key)) \/ turn[x].at > x.at
    BY <2>1, DownTurns DEF S
  <2>4. x.at \in Nat /\ turn[x].at \in Nat
    BY <1>5, <2>1
  <2> HIDE DEF turn, left
  <2> QED
    BY <1>1, <2>2, <2>3, <2>4
<1>9. \A x \in S : turn[x] = DownTurn(x, key)
  OBVIOUS
<1> HIDE DEF turn, left
<1>10. PICK f : Follows(f, n, S, s, [k \in 1 .. n |-> turn])
  <2> DEFINE step == [k \in 1 .. n |-> turn]
  <2>1. step \in StepsOn(n, S)
    BY <1>4 DEF StepsOn
  <2> HIDE DEF step
  <2>2. \E f : Follows(f, n, S, s, step)
    BY <1>1, <1>2, <2>1, Iterated
  <2> QED
    BY <2>2 DEF step
<1>11. f[n] \in S /\ turn[f[n]] = f[n]
  BY <1>1, <1>2, <1>4, <1>6, <1>7, <1>8, <1>10, LoopEnds
<1>12. Ordered(f[n].heap, key)
  <2>1. left[f[n]] \in Nat
    BY <1>6, <1>11
  <2> QED
    BY <1>8, <1>11, <2>1
<1>13. f \in [0 .. n -> S] /\ f[0] = s /\ \A k \in 1 .. n : f[k] = turn[f[k - 1]]
  BY <1>10 DEF Follows
<1>14. loop = [k \in 0 .. n |-> IF k = 0 THEN s ELSE DownTurn(loop[k - 1], key)]
  <2>1. ASSUME NEW k \in 0 .. n
        PROVE  f[k] = IF k = 0 THEN s ELSE DownTurn(f[k - 1], key)
    <3>1. CASE k # 0
      <4>1. k \in 1 .. n /\ k - 1 \in 0 .. n
        BY <1>1, <3>1
      <4>2. f[k] = turn[f[k - 1]] /\ f[k - 1] \in S
        BY <1>13, <4>1
      <4> QED
        BY <1>9, <3>1, <4>2
    <3> QED
      BY <1>13, <3>1
  <2>2. f = [k \in 0 .. n |-> f[k]]
    BY <1>13
  <2>3. f = [k \in 0 .. n |-> IF k = 0 THEN s ELSE DownTurn(f[k - 1], key)]
    BY <2>1, <2>2, Zenon
  <2> QED
    BY <2>3, Zenon DEF loop
<1>15. loop[n] = f[n]
  <2> DEFINE G == {k \in 0 .. n : loop[k] = f[k]}
  <2>1. 0 \in G
    BY <1>1, <1>13, <1>14
  <2>2. ASSUME NEW k \in 0 .. n, k # n, k \in G
        PROVE  k + 1 \in G
    <3>1. k + 1 \in 0 .. n /\ k + 1 \in 1 .. n /\ k + 1 # 0 /\ k + 1 - 1 = k
      BY <1>1, <2>2
    <3>2. \A d \in 0 .. n : d # 0 => loop[d] = DownTurn(loop[d - 1], key)
      BY <1>14, Zenon
    <3>3. loop[k + 1] = DownTurn(loop[k], key)
      BY <3>1, <3>2
    <3>4. f[k + 1] = turn[f[k]] /\ f[k] \in S /\ loop[k] = f[k]
      BY <1>13, <2>2, <3>1
    <3>5. f[k + 1] = loop[k + 1]
      BY <1>9, <3>3, <3>4
    <3> QED
      BY <3>1, <3>5
  <2>3. n \in 0 .. n
    BY <1>1
  <2> HIDE DEF G
  <2>4. \A k \in 0 .. n : k \in G
    BY <1>1, <2>1, <2>2, UpTo
  <2> QED
    BY <2>3, <2>4 DEF G
<1>16. Rearranged(f[n].heap, h)
  BY <1>11 DEF S, DownLoops
<1> QED
  BY <1>3, <1>12, <1>15, <1>16 DEF HeapOf, Rearranged
-----------------------------------------------------------------------------
(* insert() adds to a heap a process that is not in it: there is room.     *)
LEMMA Inserted ==
  ASSUME NEW key \in Keys, NEW R, NEW h, HeapOf(h, key, R), NEW p \in Procs, p \notin R
  PROVE  HeapOf(Insert(h, key, p, NPROC), key, R \cup {p})
<1> DEFINE n == Len(h)
           g == Append(h, p)
<1>1. h \in Seq(Procs) /\ Distinct(h) /\ Elems(h) = R /\ Ordered(h, key) /\ n \in Nat
  BY LenProperties DEF HeapOf
<1>2. n < NPROC
  BY <1>1, RoomLeft
<1>3. g \in Seq(Procs) /\ Distinct(g) /\ Elems(g) = R \cup {p}
  BY <1>1, OneMore
<1>4. Len(g) = n + 1 /\ \A i \in 1 .. n : g[i] = h[i]
  BY <1>1, AppendProperties
<1>5. Insert(h, key, p, NPROC) = ShiftUp(g, key, n + 1)
  BY <1>2 DEF Insert
<1> HIDE DEF g, n
<1>6. n + 1 \in 1 .. Len(g)
  BY <1>1, <1>4
<1>7. ASSUME NEW i \in 2 .. n + 1
      PROVE  /\ ParentOf(i) # n + 1
             /\ i # n + 1 => ParentOf(i) \in 1 .. n /\ i \in 2 .. n /\ i \in 1 .. n
  <2>1. i \in Nat /\ i >= 2 /\ i <= n + 1
    BY <1>1
  <2>2. ParentOf(i) \in Nat /\ 1 <= ParentOf(i) /\ ParentOf(i) < i
    BY <2>1, Parents
  <2> QED
    BY <1>1, <2>1, <2>2
<1>8. OrderedAbove(g, key, n + 1)
  BY <1>1, <1>4, <1>7 DEF OrderedAbove, Ordered, InOrder, n
<1>9. Bridged(g, key, n + 1)
  BY <1>4, <1>7 DEF Bridged
<1> QED
  BY <1>3, <1>5, <1>6, <1>8, <1>9, ShiftedUp

(* insert() of one process after another. *)
LEMMA InsertedAll ==
  ASSUME NEW key \in Keys, NEW R, NEW h, HeapOf(h, key, R),
         NEW ps \in Seq(Procs), Distinct(ps), Elems(ps) \cap R = {}
  PROVE  HeapOf(InsertAll(h, key, ps, NPROC), key, R \cup Elems(ps))
<1> DEFINE n == Len(ps)
           S == Seq(Procs)
           T(k) == R \cup {ps[i] : i \in 1 .. k}
           step == [k \in 1 .. n |-> [x \in S |-> IF HeapOf(x, key, T(k - 1))
                                                    THEN Insert(x, key, ps[k], NPROC) ELSE x]]
           after == CHOOSE f : f = [k \in 0 .. n |-> IF k = 0 THEN h
                                       ELSE Insert(f[k - 1], key, ps[k], NPROC)]
<1>1. n \in Nat /\ h \in S
  BY LenProperties DEF HeapOf
<1>2. InsertAll(h, key, ps, NPROC) = after[n]
  BY Zenon DEF InsertAll
<1> HIDE DEF after
<1>3. ASSUME NEW k \in 1 .. n, NEW x, HeapOf(x, key, T(k - 1))
      PROVE  HeapOf(Insert(x, key, ps[k], NPROC), key, T(k))
  <2>1. ps[k] \in Procs /\ k \in Nat /\ 1 <= k
    BY <1>1, ElementOfSeq
  <2>2. ps[k] \notin T(k - 1)
    <3>1. ps[k] \in Elems(ps)
      BY DEF Elems
    <3>2. ASSUME NEW i \in 1 .. k - 1
          PROVE  ps[i] # ps[k]
      <4>1. i \in 1 .. n /\ i # k
        BY <1>1, <2>1
      <4> QED
        BY <4>1 DEF Distinct
    <3> QED
      BY <3>1, <3>2
  <2>3. T(k - 1) \cup {ps[k]} = T(k)
    <3>1. \A i \in 1 .. k : i = k \/ i \in 1 .. k - 1
      BY <2>1
    <3>2. \A i \in 1 .. k - 1 : i \in 1 .. k
      BY <2>1
    <3>3. k \in 1 .. k
      BY <2>1
    <3> QED
      BY <3>1, <3>2, <3>3, Zenon
  <2> HIDE DEF T
  <2> QED
    BY <1>3, <2>1, <2>2, <2>3, Inserted
<1>4. step \in StepsOn(n, S)
  <2>1. ASSUME NEW k \in 1 .. n, NEW x \in S
        PROVE  (IF HeapOf(x, key, T(k - 1)) THEN Insert(x, key, ps[k], NPROC) ELSE x) \in S
    <3> HIDE DEF T
    <3> QED
      BY <1>3 DEF HeapOf
  <2> HIDE DEF T, S
  <2> QED
    BY <2>1 DEF StepsOn
<1> HIDE DEF step
<1>5. \E f : Follows(f, n, S, h, step)
  <2> HIDE DEF S, n
  <2> QED
    BY <1>1, <1>4, Iterated
<1>6. PICK f : /\ f \in [0 .. n -> S] /\ f[0] = h
               /\ \A k \in 1 .. n : f[k] = step[k][f[k - 1]]
  BY <1>5 DEF Follows
<1>7. HeapOf(f[0], key, T(0))
  <2>1. 1 .. 0 = {}
    OBVIOUS
  <2>2. T(0) = R
    BY <2>1
  <2> HIDE DEF T
  <2> QED
    BY <1>6, <2>2
<1> HIDE DEF n, S, T
<1>8. ASSUME NEW k \in 1 .. n, HeapOf(f[k - 1], key, T(k - 1))
      PROVE  f[k] = Insert(f[k - 1], key, ps[k], NPROC) /\ HeapOf(f[k], key, T(k))
  <2>1. k - 1 \in 0 .. n
    BY <1>1
  <2>2. f[k] = step[k][f[k - 1]] /\ f[k - 1] \in S
    BY <1>6, <2>1
  <2>3. step[k][f[k - 1]] = Insert(f[k - 1], key, ps[k], NPROC)
    BY <1>8, <2>2 DEF step
  <2> QED
    BY <1>3, <1>8, <2>2, <2>3
<1>9. \A k \in 0 .. n : HeapOf(f[k], key, T(k))
  <2> DEFINE G == {k \in 0 .. n : HeapOf(f[k], key, T(k))}
  <2>1. 0 \in G
    BY <1>1, <1>7
  <2>2. ASSUME NEW k \in 0 .. n, k # n, k \in G
        PROVE  k + 1 \in G
    <3>1. k + 1 \in 0 .. n /\ k + 1 \in 1 .. n /\ k + 1 - 1 = k
      BY <1>1, <2>2
    <3>2. HeapOf(f[k + 1 - 1], key, T(k + 1 - 1))
      BY <2>2, <3>1
    <3> QED
      BY <1>8, <3>1, <3>2
  <2> HIDE DEF G
  <2>3. \A k \in 0 .. n : k \in G
    BY <1>1, <2>1, <2>2, UpTo
  <2> QED
    BY <2>3 DEF G
<1>10. ASSUME NEW k \in 1 .. n
       PROVE  f[k] = Insert(f[k - 1], key, ps[k], NPROC) /\ k # 0 /\ k - 1 \in 0 .. n
  <2>1. k - 1 \in 0 .. n /\ k # 0
    BY <1>1
  <2> QED
    BY <1>8, <1>9, <2>1
<1>11. after = [k \in 0 .. n |-> IF k = 0 THEN h ELSE Insert(after[k - 1], key, ps[k], NPROC)]
  <2>1. ASSUME NEW k \in 0 .. n
        PROVE  f[k] = IF k = 0 THEN h ELSE Insert(f[k - 1], key, ps[k], NPROC)
    <3>1. k # 0 => k \in 1 .. n
      BY <1>1
    <3> QED
      BY <1>6, <1>10, <3>1
  <2>2. f = [k \in 0 .. n |-> f[k]]
    BY <1>6
  <2>3. f = [k \in 0 .. n |-> IF k = 0 THEN h ELSE Insert(f[k - 1], key, ps[k], NPROC)]
    BY <2>1, <2>2, Zenon
  <2> QED
    BY <2>3, Zenon DEF after, n
<1>12. after[n] = f[n]
  <2> DEFINE G == {k \in 0 .. n : after[k] = f[k]}
  <2>1. 0 \in G
    BY <1>1, <1>6, <1>11
  <2>2. ASSUME NEW k \in 0 .. n, k # n, k \in G
        PROVE  k + 1 \in G
    <3>1. k + 1 \in 0 .. n /\ k + 1 \in 1 .. n /\ k + 1 # 0 /\ k + 1 - 1 = k
      BY <1>1, <2>2
    <3>2. \A d \in 0 .. n : d # 0 => after[d] = Insert(after[d - 1], key, ps[d], NPROC)
      BY <1>11, Zenon
    <3>3. after[k + 1] = Insert(after[k], key, ps[k + 1], NPROC)
      BY <3>1, <3>2
    <3>4. f[k + 1] = Insert(f[k + 1 - 1], key, ps[k + 1], NPROC)
      BY <1>10, <3>1
    <3> QED
      BY <2>2, <3>1, <3>3, <3>4
  <2>3. n \in 0 .. n
    BY <1>1
  <2> HIDE DEF G
  <2>4. \A k \in 0 .. n : k \in G
    BY <1>1, <2>1, <2>2, UpTo
  <2> QED
    BY <2>3, <2>4 DEF G
<1>13. T(n) = R \cup Elems(ps)
  BY Zenon DEF T, n, Elems
<1>14. n \in 0 .. n
  BY <1>1
<1> QED
  BY <1>2, <1>9, <1>12, <1>13, <1>14

(* The first element of a heap was created no later than any other. *)
LEMMA EarliestAtRoot ==
  ASSUME NEW key \in Keys, NEW R, NEW h, HeapOf(h, key, R), h # << >>
  PROVE  /\ Len(h) \in Nat \ {0} /\ Head(h) = h[1] /\ h[1] \in R /\ R \subseteq Procs
         /\ \A p \in R : key[h[1]] <= key[p]
<1> DEFINE n == Len(h)
<1>1. h \in Seq(Procs) /\ Elems(h) = R /\ Ordered(h, key) /\ n \in Nat /\ n # 0
  BY LenProperties, EmptySeq DEF HeapOf
<1>2. Head(h) = h[1]
  BY <1>1, HeadTailProperties
<1>3. 1 \in 1 .. n /\ h[1] \in R
  BY <1>1 DEF Elems
<1>4. \A i \in 1 .. n : h[i] \in Procs /\ key[h[i]] \in Nat
  BY <1>1, KeyOf
<1> DEFINE G == {k \in 0 .. n : \A i \in 1 .. k : key[h[1]] <= key[h[i]]}
<1> HIDE DEF n
<1>5. 0 \in G
  <2>1. 0 \in 0 .. n /\ 1 .. 0 = {}
    BY <1>1
  <2> QED
    BY <2>1
<1>6. ASSUME NEW k \in 0 .. n, k # n, k \in G
      PROVE  k + 1 \in G
  <2>1. k \in Nat /\ k + 1 \in 0 .. n /\ k + 1 \in 1 .. n
    BY <1>1, <1>6
  <2>2. key[h[1]] <= key[h[k + 1]]
    <3>1. CASE k = 0
      <4>1. h[k + 1] = h[1]
        BY <3>1
      <4> QED
        BY <1>3, <1>4, <4>1
    <3>2. CASE k # 0
      <4>1. k + 1 \in 2 .. n /\ k + 1 \in Nat /\ k + 1 >= 2
        BY <1>1, <2>1, <3>2
      <4>2. InOrder(h, key, k + 1)
        BY <1>1, <4>1 DEF Ordered, n
      <4>3. ParentOf(k + 1) \in 1 .. k /\ ParentOf(k + 1) \in 1 .. n
        <5>1. ParentOf(k + 1) \in Nat /\ 1 <= ParentOf(k + 1) /\ ParentOf(k + 1) < k + 1
          BY <4>1, Parents
        <5> QED
          BY <1>1, <2>1, <5>1
      <4>4. key[h[1]] <= key[h[ParentOf(k + 1)]]
        BY <1>6, <4>3
      <4> QED
        BY <1>3, <1>4, <2>1, <4>2, <4>3, <4>4 DEF InOrder
    <3> QED
      BY <3>1, <3>2
  <2>3. \A i \in 1 .. k + 1 : i = k + 1 \/ i \in 1 .. k
    BY <2>1
  <2> QED
    BY <1>6, <2>1, <2>2, <2>3
<1>7. \A i \in 1 .. n : key[h[1]] <= key[h[i]]
  <2>1. n \in 0 .. n
    BY <1>1
  <2> HIDE DEF G
  <2>2. \A k \in 0 .. n : k \in G
    BY <1>1, <1>5, <1>6, UpTo
  <2> QED
    BY <2>1, <2>2 DEF G
<1>8. \A p \in R : p \in Procs /\ key[h[1]] <= key[p]
  BY <1>1, <1>4, <1>7 DEF Elems, n
<1> QED
  BY <1>1, <1>2, <1>3, <1>8 DEF n

(* remove() takes the first element out of a heap. *)
LEMMA Taken ==
  ASSUME NEW key \in Keys, NEW R, NEW h, HeapOf(h, key, R), h # << >>
  PROVE  HeapOf(Remove(h, key), key, R \ {h[1]})
<1> DEFINE n == Len(h)
           f == SubSeq(h, 1, n - 1)
           g == [f EXCEPT ![1] = h[n]]
<1>1. /\ h \in Seq(Procs) /\ Distinct(h) /\ Elems(h) = R /\ Ordered(h, key)
      /\ n \in Nat \ {0} /\ R \subseteq Procs
  BY EarliestAtRoot DEF HeapOf
<1>2. CASE n = 1
  <2>1. Remove(h, key) = << >>
    BY <1>2 DEF Remove
  <2>2. R \ {h[1]} = {}
    <3>1. \A i \in 1 .. n : i = 1
      BY <1>2
    <3> QED
      BY <1>1, <3>1 DEF Elems
  <2>3. Len(<< >>) = 0 /\ 2 .. 0 = {}
    OBVIOUS
  <2>4. Ordered(<< >>, key)
    BY <2>3 DEF Ordered
  <2> QED
    BY <2>1, <2>2, <2>4, NoneOrOne DEF HeapOf
<1>3. CASE n # 1
  <2>1. n - 1 \in Nat /\ 1 <= n - 1 /\ 1 \in 1 .. n - 1 /\ n \in 1 .. n /\ 1 \in 1 .. n
    <3> HIDE DEF n
    <3> QED
      BY <1>1, <1>3
  <2>2. Remove(h, key) = ShiftDown(g, key, 1)
    BY <1>3 DEF Remove
  <2>3. \A k \in 1 .. n - 1 : k \in 1 .. n /\ k # n
    BY <1>1
  <2>4. f \in Seq(Procs) /\ Len(f) = n - 1 /\ \A k \in 1 .. n - 1 : f[k] = h[k]
    <3>1. \A k \in 1 .. n - 1 : h[k] \in Procs
      BY <1>1, <2>3, ElementOfSeq
    <3>2. 1 \in Int /\ n - 1 \in Int
      BY <2>1
    <3> HIDE DEF n
    <3>3. /\ f \in Seq(Procs) /\ Len(f) = IF 1 <= n - 1 THEN n - 1 - 1 + 1 ELSE 0
          /\ \A i \in 1 .. n - 1 - 1 + 1 : f[i] = h[1 + i - 1]
      BY <3>1, <3>2, SubSeqProperties
    <3>4. \A k \in 1 .. n - 1 : k \in 1 .. n - 1 - 1 + 1 /\ 1 + k - 1 = k
      BY <2>1
    <3> QED
      BY <2>1, <3>3, <3>4
  <2>5. h[n] \in Procs
    BY <1>1, <2>1, ElementOfSeq
  <2> HIDE DEF f, n
  <2>6. g \in Seq(Procs) /\ Len(g) = n - 1
        /\ \A k \in 1 .. n - 1 : g[k] = IF k = 1 THEN h[n] ELSE h[k]
    <3>1. f \in [1 .. n - 1 -> Procs]
      BY <2>4, LenProperties
    <3>2. g \in [1 .. n - 1 -> Procs] /\ \A k \in 1 .. n - 1 : g[k] = IF k = 1 THEN h[n] ELSE f[k]
      BY <2>5, <3>1
    <3> HIDE DEF g
    <3>3. g \in Seq(Procs)
      BY <2>1, <3>2, SeqDef
    <3>4. DOMAIN g = 1 .. n - 1 /\ DOMAIN g = 1 .. Len(g) /\ Len(g) \in Nat
      BY <3>2, <3>3, LenProperties
    <3>5. Len(g) = n - 1
      BY <2>1, <3>4
    <3> QED
      BY <2>4, <3>2, <3>3, <3>5
  <2> HIDE DEF g
  <2>7. Distinct(g)
    <3>1. \A i, k \in 1 .. n : h[i] = h[k] => i = k
      BY <1>1 DEF Distinct, n
    <3> QED
      BY <2>1, <2>3, <2>6, <3>1 DEF Distinct
  <2>8. Elems(g) = R \ {h[1]}
    <3>1. ASSUME NEW k \in 1 .. n - 1
          PROVE  g[k] \in R \ {h[1]}
      <4>1. \A i, d \in 1 .. n : h[i] = h[d] => i = d
        BY <1>1 DEF Distinct, n
      <4>2. \A i \in 1 .. n : h[i] \in R
        BY <1>1 DEF Elems, n
      <4> QED
        BY <1>3, <2>1, <2>3, <2>6, <4>1, <4>2
    <3>2. ASSUME NEW i \in 1 .. n, i # 1
          PROVE  h[i] \in Elems(g)
      <4>1. CASE i = n
        BY <2>1, <2>6, <4>1 DEF Elems
      <4>2. CASE i # n
        <5>1. i \in 1 .. n - 1
          BY <1>1, <4>2
        <5> QED
          BY <2>6, <3>2, <5>1 DEF Elems
      <4> QED
        BY <4>1, <4>2
    <3>3. R = {h[i] : i \in 1 .. n} /\ Elems(g) = {g[k] : k \in 1 .. n - 1}
      BY <1>1, <2>6 DEF Elems, n
    <3> QED
      BY <3>1, <3>2, <3>3
  <2>9. OrderedBelow(g, key, 1) /\ Bridged(g, key, 1)
    <3>1. ASSUME NEW i \in 2 .. n - 1, ParentOf(i) # 1
          PROVE  InOrder(g, key, i)
      <4>1. i \in Nat /\ i >= 2 /\ i <= n - 1 /\ i \in 2 .. n /\ i \in 1 .. n - 1
        BY <1>1
      <4>2. ParentOf(i) \in 1 .. n - 1
        <5>1. ParentOf(i) \in Nat /\ 1 <= ParentOf(i) /\ ParentOf(i) < i
          BY <4>1, Parents
        <5> QED
          BY <1>1, <4>1, <5>1
      <4>3. InOrder(h, key, i)
        BY <1>1, <4>1 DEF Ordered, n
      <4>4. g[i] = h[i] /\ g[ParentOf(i)] = h[ParentOf(i)]
        BY <2>6, <3>1, <4>1, <4>2
      <4> QED
        BY <4>3, <4>4 DEF InOrder
    <3> QED
      BY <2>6, <3>1 DEF OrderedBelow, Bridged
  <2>10. 1 \in 1 .. Len(g)
    BY <2>1, <2>6
  <2>11. HeapOf(ShiftDown(g, key, 1), key, Elems(g))
    BY <2>6, <2>7, <2>9, <2>10, ShiftedDown
  <2> QED
    BY <2>2, <2>8, <2>11
<1> QED
  BY <1>2, <1>3
-----------------------------------------------------------------------------
(* The inductive invariant of the FCFS build: beside that of the process   *)
(* table, pqueue is a heap of the RUNNABLE processes by creation time.     *)
Stamps == timecreated \in Keys /\ ticks \in Nat

FcfsInductive == Inductive /\ Stamps /\ HeapOf(pqueue, timecreated, Runnable)

LEMMA InitHeap == FInit => FcfsInductive
<1> SUFFICES ASSUME FInit PROVE FcfsInductive
  OBVIOUS
<1>1. Inductive
  BY InitInductive DEF FInit, PolicyInit
<1>2. Stamps
  BY DEF FInit, PolicyInit, Stamps, Keys
<1>3. InitProc \in Procs
  BY ConstantsAssumption DEF InitProc, Procs
<1>4. Runnable = {InitProc}
  BY <1>3 DEF FInit, PolicyInit, Init, Runnable
<1>5. pqueue \in Seq(Procs) /\ Distinct(pqueue) /\ Elems(pqueue) = Runnable
  BY <1>3, <1>4, NoneOrOne DEF FInit
<1>6. Len(pqueue) = 1 /\ 2 .. 1 = {}
  BY DEF FInit
<1>7. Ordered(pqueue, timecreated)
  BY <1>6 DEF Ordered
<1> QED
  BY <1>1, <1>2, <1>5, <1>7 DEF FcfsInductive, HeapOf

(* A heap does not depend on the keys of processes that are not in it. *)
LEMMA SameKeys ==
  ASSUME NEW key \in Keys, NEW other \in Keys, NEW R, NEW h, HeapOf(h, key, R),
         \A p \in R : other[p] = key[p]
  PROVE  HeapOf(h, other, R)
<1>1. h \in Seq(Procs) /\ Elems(h) = R /\ Ordered(h, key) /\ Len(h) \in Nat
  BY LenProperties DEF HeapOf
<1>2. \A i \in 1 .. Len(h) : other[h[i]] = key[h[i]]
  BY <1>1 DEF Elems
<1>3. ASSUME NEW i \in 2 .. Len(h)
      PROVE  InOrder(h, other, i)
  <2>1. i \in Nat /\ i >= 2 /\ i \in 1 .. Len(h) /\ i <= Len(h)
    BY <1>1
  <2>2. ParentOf(i) \in Nat /\ 1 <= ParentOf(i) /\ ParentOf(i) < i
    BY <2>1, Parents
  <2>3. ParentOf(i) \in 1 .. Len(h)
    BY <1>1, <2>1, <2>2
  <2> QED
    BY <1>1, <1>2, <2>1, <2>3 DEF Ordered, InOrder
<1> QED
  BY <1>3 DEF HeapOf, Ordered

(* Processes that are not RUNNABLE are queued and become so. *)
QueuedAsReady(ps) ==
  /\ ps \in Seq(Procs) /\ Distinct(ps) /\ Queue(ps)
  /\ \A p \in Procs : /\ p \in Elems(ps) => state[p] # "RUNNABLE"
                      /\ state'[p] = "RUNNABLE" <=> state[p] = "RUNNABLE" \/ p \in Elems(ps)

LEMMA HeapGrows ==
  ASSUME FcfsInductive, NEW ps, QueuedAsReady(ps)
  PROVE  HeapOf(pqueue', timecreated, Runnable')
<1>1. ps \in Seq(Procs) /\ Distinct(ps)
  BY DEF QueuedAsReady
<1>2. Elems(ps) \subseteq Procs
  BY <1>1, ElementOfSeq DEF Elems
<1>3. Elems(ps) \cap Runnable = {} /\ Runnable' = Runnable \cup Elems(ps)
  BY <1>2 DEF QueuedAsReady, Runnable
<1>4. timecreated \in Keys /\ HeapOf(pqueue, timecreated, Runnable)
  BY DEF FcfsInductive, Stamps
<1>5. pqueue' = InsertAll(pqueue, timecreated, ps, NPROC)
  BY DEF QueuedAsReady, Queue
<1>6. PICK key \in Keys : key = timecreated
  BY <1>4
<1>7. PICK R : R = Runnable
  OBVIOUS
<1>8. PICK h : h = pqueue
  OBVIOUS
<1>9. HeapOf(InsertAll(h, key, ps, NPROC), key, R \cup Elems(ps))
  BY <1>1, <1>3, <1>4, <1>6, <1>7, <1>8, InsertedAll
<1> QED
  BY <1>3, <1>5, <1>6, <1>7, <1>8, <1>9

(* The steps that queue nobody make nobody RUNNABLE. *)
LEMMA NobodyReady ==
  ASSUME Inductive, NEW c \in CPUs, NEW p \in Procs, TableOnly(c, p)
  PROVE  Runnable' = Runnable
<1>1. TypeOK /\ Placement /\ OneCPUPerProc /\ EmbryoOwned /\ InitLives
  BY DEF Inductive, FamilyInv
<1> USE DEF Runnable, Live, InSyscall
<1>2. ASSUME NEW np \in Procs, AllocProc(c, p, np)
      PROVE  Runnable' = Runnable
  BY <1>1, <1>2 DEF AllocProc, TypeOK
<1>3. CASE ForkNoMemory(c, p)
  <2>1. child[p] \in Procs /\ state[child[p]] = "EMBRYO"
    BY <1>1, <1>3, LiveProc, ForkingChild DEF ForkNoMemory
  <2> QED
    BY <1>1, <1>3, <2>1 DEF ForkNoMemory, TypeOK
<1>4. CASE ForkCopy(c, p) \/ EnterExit(c, p) \/ Resume(c, p)
  BY <1>4 DEF ForkCopy, EnterExit, Resume
<1>5. CASE EnterWait(c, p) \/ WaitFail(c, p) \/ EnterSleep(c, p) \/ SleepReturn(c, p)
           \/ SleepAgain(c, p)
  BY <1>5 DEF EnterWait, WaitFail, EnterSleep, SleepReturn, SleepAgain, procvars
<1>6. CASE WaitSleep(c, p) \/ TickSleep(c, p)
  <2>1. state[p] = "RUNNING"
    BY <1>1, <1>6, LiveProc DEF WaitSleep, TickSleep, Scanning
  <2> QED
    BY <1>1, <1>6, <2>1 DEF WaitSleep, TickSleep, TypeOK
<1>7. ASSUME NEW q \in Procs, Reap(c, p, q)
      PROVE  Runnable' = Runnable
  BY <1>1, <1>7 DEF Reap, TypeOK, ZombieChildren
<1> QED
  BY <1>2, <1>3, <1>4, <1>5, <1>6, <1>7 DEF TableOnly, WaitStep, SleepStep

(* Every other step of a process queues those it makes RUNNABLE. *)
LEMMA ReadyQueued ==
  ASSUME Inductive, NEW c \in CPUs, NEW p \in Procs,
         FTableStep(c, p), ~(TableOnly(c, p) /\ UNCHANGED pqueue)
  PROVE  \E ps : QueuedAsReady(ps)
<1>1. TypeOK /\ Placement /\ OneCPUPerProc /\ EmbryoOwned /\ InitLives
  BY DEF Inductive, FamilyInv
<1> USE DEF QueuedAsReady
<1>2. CASE ForkRun(c, p) /\ Queue(<<child[p]>>)
  <2>1. child[p] \in Procs /\ state[child[p]] = "EMBRYO"
    BY <1>1, <1>2, LiveProc, ForkingChild DEF ForkRun
  <2>2. QueuedAsReady(<<child[p]>>)
    BY <1>1, <1>2, <2>1, NoneOrOne DEF ForkRun, TypeOK
  <2> QED
    BY <2>2
<1>3. CASE SysYield(c, p) /\ Queue(<<p>>)
  <2>1. state[p] = "RUNNING"
    BY <1>1, <1>3, LiveProc DEF SysYield, Yield
  <2>2. QueuedAsReady(<<p>>)
    BY <1>1, <1>3, <2>1, NoneOrOne DEF SysYield, Yield, TypeOK
  <2> QED
    BY <2>2
<1>4. CASE Exit(c, p) /\ Queue(WokenByExit(p))
  <2>1. QueuedAsReady(WokenByExit(p))
    BY <1>4, ExitWoken
  <2> QED
    BY <2>1
<1>5. ASSUME NEW t \in Procs, FKill(c, p, t)
      PROVE  QueuedAsReady(WokenByKill(t))
  <2>1. CASE state[t] = "SLEEPING"
    <3>1. WokenByKill(t) = <<t>>
      BY <2>1 DEF WokenByKill
    <3> QED
      BY <1>1, <1>5, <2>1, <3>1, NoneOrOne DEF FKill, Kill, TypeOK
  <2>2. CASE state[t] # "SLEEPING"
    <3>1. WokenByKill(t) = << >>
      BY <2>2 DEF WokenByKill
    <3> QED
      BY <1>5, <2>2, <3>1, NoneOrOne DEF FKill, Kill
  <2> QED
    BY <2>1, <2>2
<1> QED
  BY <1>2, <1>3, <1>4, <1>5 DEF FTableStep

LEMMA TickQueued ==
  ASSUME Inductive, Tick, Queue(WokenByTick)
  PROVE  QueuedAsReady(WokenByTick)
<1> DEFINE W == {p \in Procs : state[p] = "SLEEPING" /\ chan[p] = Ticks}
<1>1. WokenByTick \in Seq(Procs) /\ Distinct(WokenByTick) /\ Elems(WokenByTick) = W
  BY SlotOrder DEF WokenByTick
<1> QED
  BY <1>1 DEF QueuedAsReady, Tick, Woken

(* allocproc() stamps no process that is RUNNABLE. *)
LEMMA Restamped ==
  ASSUME FcfsInductive, timecreated' = Stamped, UNCHANGED ticks,
         HeapOf(pqueue', timecreated, Runnable')
  PROVE  Stamps' /\ HeapOf(pqueue', timecreated', Runnable')
<1>1. timecreated \in Keys /\ ticks \in Nat
  BY DEF FcfsInductive, Stamps
<1>2. timecreated' \in Keys
  BY <1>1 DEF Stamped, Keys
<1>3. \A p \in Runnable' : timecreated'[p] = timecreated[p]
  BY DEF Stamped, Runnable
<1>4. PICK key \in Keys : key = timecreated
  BY <1>1
<1>5. PICK other \in Keys : other = timecreated'
  BY <1>2
<1>6. PICK R : R = Runnable'
  OBVIOUS
<1>7. PICK h : h = pqueue'
  OBVIOUS
<1>8. HeapOf(h, other, R)
  BY <1>3, <1>4, <1>5, <1>6, <1>7, SameKeys
<1> QED
  BY <1>1, <1>2, <1>5, <1>6, <1>7, <1>8 DEF Stamps

(* What the scheduler takes out of the heap is what the policy serves. *)
LEMMA FirstServed ==
  ASSUME FcfsInductive, NEW c \in CPUs, RunFirst(c)
  PROVE  /\ Head(pqueue) \in Procs /\ ServeFirst(c, Head(pqueue))
         /\ HeapOf(pqueue', timecreated, Runnable')
<1>1. timecreated \in Keys /\ HeapOf(pqueue, timecreated, Runnable) /\ pqueue # << >>
      /\ RunInRound(c, Head(pqueue)) /\ pqueue' = Remove(pqueue, timecreated)
  BY DEF FcfsInductive, Stamps, RunFirst
<1>2. PICK key \in Keys : key = timecreated
  BY <1>1
<1>3. PICK R : R = Runnable
  OBVIOUS
<1>4. PICK h : h = pqueue
  OBVIOUS
<1>5. HeapOf(h, key, R) /\ h # << >>
  BY <1>1, <1>2, <1>3, <1>4
<1>6. Head(h) = h[1] /\ h[1] \in R /\ R \subseteq Procs /\ \A p \in R : key[h[1]] <= key[p]
  BY <1>5, EarliestAtRoot
<1>7. HeapOf(Remove(h, key), key, R \ {h[1]})
  BY <1>5, Taken
<1>8. Head(pqueue) \in Procs /\ ServeFirst(c, Head(pqueue))
  BY <1>1, <1>2, <1>3, <1>4, <1>6 DEF ServeFirst
<1>9. Runnable' = Runnable \ {Head(pqueue)}
  BY <1>1, <1>8 DEF RunInRound, SwitchTo, Runnable, FcfsInductive, Inductive, TypeOK
<1> QED
  BY <1>1, <1>2, <1>3, <1>4, <1>6, <1>7, <1>8, <1>9

(* The heap is empty when nobody is RUNNABLE, and only then. *)
LEMMA EmptyHeap ==
  ASSUME FcfsInductive
  PROVE  pqueue = << >> <=> Runnable = {}
<1>1. CASE pqueue = << >>
  BY <1>1, NoneOrOne DEF FcfsInductive, HeapOf
<1>2. CASE pqueue # << >>
  <2>1. timecreated \in Keys /\ HeapOf(pqueue, timecreated, Runnable)
    BY DEF FcfsInductive, Stamps
  <2>2. PICK key \in Keys : key = timecreated
    BY <2>1
  <2>3. PICK R : R = Runnable
    OBVIOUS
  <2>4. PICK h : h = pqueue
    OBVIOUS
  <2>5. h[1] \in R
    BY <1>2, <2>1, <2>2, <2>3, <2>4, EarliestAtRoot
  <2> QED
    BY <1>2, <2>3, <2>5
<1> QED
  BY <1>1, <1>2

(* Every step of the FCFS build keeps the invariant, and is one of the policy. *)
LEMMA FcfsStep ==
  ASSUME FcfsInductive, [FNext]_fvars
  PROVE  FcfsInductive' /\ [PolicyNext]_policyvars
<1>1. SUFFICES [PolicyNext]_policyvars /\ Stamps' /\ HeapOf(pqueue', timecreated', Runnable')
  <2>1. ASSUME [PolicyNext]_policyvars
        PROVE  Inductive'
    BY <2>1, PolicyStepOfTable, InductiveStep DEF FcfsInductive
  <2> QED
    BY <1>1, <2>1 DEF FcfsInductive
<1>2. Inductive /\ Stamps /\ HeapOf(pqueue, timecreated, Runnable)
  BY DEF FcfsInductive
<1>3. ASSUME NEW c \in CPUs, NEW p \in Procs, FTableStep(c, p),
             timecreated' = Stamped, UNCHANGED <<ran, ticks>>
      PROVE  PolicyNext /\ Stamps' /\ HeapOf(pqueue', timecreated', Runnable')
  <2>1. OwnStep(c, p) \/ SysYield(c, p)
    BY <1>3 DEF FTableStep, TableOnly, FKill, OwnStep, ForkStep
  <2>2. HeapOf(pqueue', timecreated, Runnable')
    <3>1. CASE TableOnly(c, p) /\ UNCHANGED pqueue
      BY <1>2, <3>1, NobodyReady
    <3>2. CASE ~(TableOnly(c, p) /\ UNCHANGED pqueue)
      BY <1>2, <1>3, <3>2, ReadyQueued, HeapGrows
    <3> QED
      BY <3>1, <3>2
  <2>3. Stamps' /\ HeapOf(pqueue', timecreated', Runnable')
    BY <1>3, <2>2, Restamped
  <2> QED
    BY <1>3, <2>1, <2>3 DEF PolicyNext
<1>4. ASSUME Tick, Queue(WokenByTick), ticks' = Advanced, UNCHANGED <<ran, timecreated>>
      PROVE  PolicyNext /\ Stamps' /\ HeapOf(pqueue', timecreated', Runnable')
  <2>1. HeapOf(pqueue', timecreated, Runnable')
    BY <1>2, <1>4, TickQueued, HeapGrows
  <2>2. Stamps'
    BY <1>2, <1>4 DEF Stamps, Advanced
  <2> QED
    BY <1>4, <2>1, <2>2 DEF PolicyNext
<1>5. ASSUME NEW c \in CPUs, RunFirst(c), UNCHANGED <<timecreated, ticks>>
      PROVE  PolicyNext /\ Stamps' /\ HeapOf(pqueue', timecreated', Runnable')
  <2>1. /\ Head(pqueue) \in Procs /\ ServeFirst(c, Head(pqueue))
        /\ HeapOf(pqueue', timecreated, Runnable')
    BY <1>5, FirstServed
  <2> QED
    BY <1>2, <1>5, <2>1 DEF PolicyNext, Stamps
<1>6. ASSUME NEW c \in CPUs, BeginRound(c) \/ EndRound(c, pqueue = << >>),
             UNCHANGED <<pqueue, timecreated, ticks>>
      PROVE  PolicyNext /\ Stamps' /\ HeapOf(pqueue', timecreated', Runnable')
  <2>1. BeginRound(c) \/ EndRound(c, Runnable = {})
    BY <1>6, EmptyHeap DEF EndRound
  <2>2. Runnable' = Runnable
    BY <1>6 DEF BeginRound, EndRound, SchedAcquire, SchedRelease, procvars, Runnable
  <2> QED
    BY <1>2, <1>6, <2>1, <2>2 DEF PolicyNext, Stamps
<1>7. CASE UNCHANGED fvars
  <2>1. UNCHANGED policyvars /\ UNCHANGED <<pqueue, timecreated, ticks, state>>
    BY <1>7 DEF fvars, policyvars, vars, procvars
  <2> QED
    BY <1>2, <2>1 DEF Stamps, Runnable
<1> QED
  BY <1>3, <1>4, <1>5, <1>6, <1>7 DEF FNext

LEMMA FcfsAlways == FSpec => []FcfsInductive
<1>1. FcfsInductive /\ [FNext]_fvars => FcfsInductive'
  BY FcfsStep
<1> QED
  BY <1>1, InitHeap, PTL DEF FSpec

(* The heap is first come, first served: on any number of CPUs and with    *)
(* any number of processes, the scheduler, which takes what remove() gives *)
(* it and does not look at its state, runs a RUNNABLE process that was     *)
(* created no later than any other, and stops looking when there is none.  *)
THEOREM HeapIsFirstComeFirstServed == FSpec => PolicySpec
<1>1. FInit => PolicyInit
  BY DEF FInit
<1>2. FcfsInductive /\ [FNext]_fvars => [PolicyNext]_policyvars
  BY FcfsStep
<1> QED
  BY <1>1, <1>2, FcfsAlways, PTL DEF FSpec, PolicySpec

(* No process is lost from the heap, put in it twice, or left in it while  *)
(* it runs or sleeps; and the invariants of the process table hold, for a  *)
(* step of this build is one of the table.                                 *)
THEOREM HeapHoldsTheRunnable == FSpec => [](HeapIsRunnable /\ TableInvariants)
<1>1. FcfsInductive => HeapIsRunnable
  <2> SUFFICES ASSUME FcfsInductive PROVE HeapIsRunnable
    OBVIOUS
  <2>1. pqueue \in Seq(Procs) /\ Distinct(pqueue) /\ Elems(pqueue) = Runnable
    BY DEF FcfsInductive, HeapOf
  <2>2. DOMAIN pqueue = 1 .. Len(pqueue)
    BY <2>1, LenProperties
  <2> QED
    BY <2>1, <2>2 DEF HeapIsRunnable, Holds, NoDuplicates, Elems, Distinct
<1>2. FcfsInductive => TableInvariants
  BY DEF FcfsInductive, Inductive, FamilyInv, TableInvariants
<1> QED
  BY <1>1, <1>2, FcfsAlways, PTL
=============================================================================
