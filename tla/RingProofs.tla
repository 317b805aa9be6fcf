----------------------------- MODULE RingProofs -----------------------------
(***************************************************************************)
(* Three rings: a pipe and the console keep their promises for every size, *)
(* every number of processes and everything they read, write and type,     *)
(* with counts that wrap around; and malloc() and free() keep the ring of  *)
(* free blocks, for every size of the heap and of what is asked for.       *)
(***************************************************************************)
EXTENDS Pipe, Console, Umalloc, SequenceTheorems, WellFoundedInduction,
        FiniteSetTheorems, TLAPS

-----------------------------------------------------------------------------
(* Counts that wrap at m, and the c cells of a ring, of which m is a       *)
(* multiple.                                                               *)
Wrapped(m, a, n) == (a + n) % m
RingCell(m, c, a, i) == Wrapped(m, a, i) % c
RingSizes(m, c) == m \in Nat /\ c \in Nat \ {0} /\ m % c = 0 /\ m > c

LEMMA Quotient ==
  ASSUME NEW m \in Nat \ {0}, NEW a \in Int
  PROVE  a \div m \in Int /\ a = m * (a \div m) + (a % m)
  BY SMT

LEMMA Remainder ==
  ASSUME NEW m \in Nat \ {0}, NEW q \in Int, NEW r \in 0 .. m - 1
  PROVE  (m * q + r) % m = r
  BY SMT

LEMMA SameRemainder ==
  ASSUME NEW m \in Nat \ {0}, NEW a \in Int, NEW b \in Int, a % m = b % m
  PROVE  (a - b) % m = 0
  BY SMT

LEMMA AddMultiple ==
  ASSUME NEW m \in Nat \ {0}, NEW a \in Int, NEW k \in Int
  PROVE  (a + m * k) % m = a % m
<1>1. a % m \in 0 .. m - 1
  BY SMT
<1>2. a \div m + k \in Int /\ a + m * k = m * (a \div m + k) + (a % m)
  BY <1>1, Quotient
<1> QED
  BY <1>1, <1>2, Remainder

(* A count that goes past the last one goes on from 0. *)
LEMMA WrapsRound ==
  ASSUME NEW m \in Nat, NEW a \in 0 .. m - 1, NEW n \in 0 .. m - 1
  PROVE  /\ Wrapped(m, a, n) = IF a + n < m THEN a + n ELSE a + n - m
         /\ Wrapped(m, a, n) \in 0 .. m - 1
<1> USE DEF Wrapped
<1>1. CASE a + n < m
  BY <1>1
<1>2. CASE a + n >= m
  BY <1>2
<1> QED
  BY <1>1, <1>2

(* How far b is ahead of a. *)
LEMMA AheadBy ==
  ASSUME NEW m \in Nat, NEW a \in 0 .. m - 1, NEW b \in 0 .. m - 1
  PROVE  (b + m - a) % m = IF b >= a THEN b - a ELSE b + m - a
<1>1. CASE b >= a
  <2>1. b + m - a \in m .. 2 * m - 1 /\ (b + m - a) - m = b - a
    BY <1>1
  <2>2. (b + m - a) % m = (b + m - a) - m
    BY <2>1
  <2> QED
    BY <1>1, <2>1, <2>2
<1>2. CASE b < a
  <2>1. b + m - a \in 0 .. m - 1
    BY <1>2
  <2> QED
    BY <1>2, <2>1
<1> QED
  BY <1>1, <1>2

(* A count that has gone n ahead is n ahead. *)
LEMMA AheadAgain ==
  ASSUME NEW m \in Nat, NEW a \in 0 .. m - 1, NEW n \in 0 .. m - 1
  PROVE  (Wrapped(m, a, n) + m - a) % m = n
<1> DEFINE b == Wrapped(m, a, n)
<1>1. b \in 0 .. m - 1 /\ b = IF a + n < m THEN a + n ELSE a + n - m
  BY WrapsRound
<1> HIDE DEF b
<1>2. (b + m - a) % m = IF b >= a THEN b - a ELSE b + m - a
  BY <1>1, AheadBy
<1>3. (b + m - a) % m = n
  BY <1>1, <1>2
<1> QED
  BY <1>3 DEF b

LEMMA WrappedTwice ==
  ASSUME NEW m \in Nat, NEW a \in 0 .. m - 1, NEW k \in 0 .. m - 1, NEW n \in 0 .. m - 1,
         k + n < m
  PROVE  Wrapped(m, Wrapped(m, a, k), n) = Wrapped(m, a, k + n)
<1> DEFINE b == Wrapped(m, a, k)
<1>1. k + n \in 0 .. m - 1
  OBVIOUS
<1>2. b \in 0 .. m - 1 /\ b = IF a + k < m THEN a + k ELSE a + k - m
  BY WrapsRound
<1> HIDE DEF b
<1>3. Wrapped(m, b, n) = IF b + n < m THEN b + n ELSE b + n - m
  BY <1>2, WrapsRound
<1>4. Wrapped(m, a, k + n) = IF a + (k + n) < m THEN a + (k + n) ELSE a + (k + n) - m
  BY <1>1, WrapsRound, ZenonT(60)
<1>5. Wrapped(m, b, n) = Wrapped(m, a, k + n)
  BY <1>1, <1>2, <1>3, <1>4
<1> QED
  BY <1>5 DEF b

(* The cell of a count is that of the count before it is wrapped. *)
LEMMA WrappedCell ==
  ASSUME NEW m, NEW c, RingSizes(m, c), NEW a \in Int, NEW n \in Int
  PROVE  /\ RingCell(m, c, a, n) = (a + n) % c
         /\ RingCell(m, c, a, n) \in 0 .. c - 1
<1> DEFINE w == Wrapped(m, a, n)
           q == m \div c
           d == (a + n) \div m
<1>0. m \in Nat \ {0} /\ c \in Nat \ {0} /\ m % c = 0
  BY DEF RingSizes
<1>1. q \in Int /\ m = c * q
  BY <1>0, Quotient
<1>2. d \in Int /\ a + n = m * d + w /\ w \in 0 .. m - 1
  BY <1>0, Quotient DEF Wrapped
<1> HIDE DEF q, d, w
<1>3. q * d \in Int /\ a + n = w + c * (q * d)
  BY <1>0, <1>1, <1>2
<1>4. (a + n) % c = w % c
  <2>1. c \in Nat \ {0} /\ w \in Int
    BY <1>0, <1>2
  <2>2. (w + c * (q * d)) % c = w % c
    BY <1>3, <2>1, AddMultiple
  <2> QED
    BY <1>3, <2>2
<1>5. w % c \in 0 .. c - 1
  BY <1>0, <1>2
<1> QED
  BY <1>4, <1>5 DEF RingCell, w

(* c counts in a row have as many cells. *)
LEMMA RowDiffers ==
  ASSUME NEW c \in Nat \ {0}, NEW a \in Int, NEW i \in 0 .. c - 1, NEW j \in 0 .. c - 1,
         (a + i) % c = (a + j) % c
  PROVE  i = j
<1>1. ((a + i) - (a + j)) % c = 0
  <2> a + i \in Int /\ a + j \in Int
    OBVIOUS
  <2> QED
    BY SameRemainder
<1>2. i - j \in Int /\ (a + i) - (a + j) = i - j
  OBVIOUS
<1>3. (i - j) % c = 0
  BY <1>1, <1>2
<1>4. CASE i >= j
  <2>1. i - j \in 0 .. c - 1
    BY <1>4
  <2> QED
    BY <1>3, <2>1
<1>5. CASE i < j
  <2>1. i - j + c \in 1 .. c - 1
    BY <1>5
  <2>2. (c * (-1) + (i - j + c)) % c = i - j + c
    BY <2>1, Remainder
  <2>3. c * (-1) + (i - j + c) = i - j
    OBVIOUS
  <2> QED
    BY <1>3, <2>1, <2>2, <2>3
<1> QED
  BY <1>4, <1>5

(* The i-th cell from a count k ahead is the k + i-th. *)
LEMMA CellsOn ==
  ASSUME NEW m, NEW c, RingSizes(m, c), NEW a \in Int, NEW k \in Int, NEW i \in Int
  PROVE  RingCell(m, c, Wrapped(m, a, k), i) = RingCell(m, c, a, k + i)
<1> DEFINE b == Wrapped(m, a, k)
<1>0. m \in Nat \ {0} /\ c \in Nat \ {0}
  BY DEF RingSizes
<1>1. b \in Int /\ b % c = (a + k) % c
  <2>1. b % c = (a + k) % c
    BY WrappedCell DEF RingCell
  <2>2. b \in Int
    BY <1>0 DEF Wrapped
  <2> QED
    BY <2>1, <2>2
<1> HIDE DEF b
<1>2. RingCell(m, c, b, i) = (b + i) % c
  BY <1>1, WrappedCell
<1>3. a + k \in Int /\ k + i \in Int
  OBVIOUS
<1>4. RingCell(m, c, a, k + i) = (a + (k + i)) % c
  BY <1>3, WrappedCell
<1>6. /\ b \div c \in Int /\ b = c * (b \div c) + (b % c)
      /\ (a + k) \div c \in Int
      /\ a + k = c * ((a + k) \div c) + ((a + k) % c)
  BY <1>0, <1>1, <1>3, Quotient
<1> DEFINE p == b \div c
           q == (a + k) \div c
<1>7. p \in Int /\ q \in Int /\ b = (a + k) + c * (p - q)
  <2> DEFINE s == b % c
  <2>1. s \in Int /\ p \in Int /\ q \in Int /\ b = c * p + s /\ a + k = c * q + s
    BY <1>0, <1>1, <1>6
  <2> HIDE DEF s, p, q
  <2> QED
    BY <2>1, <1>0
<1> HIDE DEF p, q
<1>8. b + i = (a + (k + i)) + c * (p - q)
  BY <1>0, <1>1, <1>7
<1>9. a + (k + i) \in Int /\ p - q \in Int
  BY <1>7
<1>10. ((a + (k + i)) + c * (p - q)) % c = (a + (k + i)) % c
  BY <1>0, <1>9, AddMultiple
<1>11. RingCell(m, c, b, i) = RingCell(m, c, a, k + i)
  BY <1>2, <1>4, <1>8, <1>10
<1> QED
  BY <1>11 DEF b

-----------------------------------------------------------------------------
(* The pipe's counts are modulo UMax, its cells modulo PIPESIZE.           *)
LEMMA PipeSizes ==
  /\ RingSizes(UMax, PIPESIZE) /\ UMax \in Nat /\ PIPESIZE \in Nat \ {0}
  /\ \A a, n : Plus(a, n) = Wrapped(UMax, a, n)
  /\ \A a, n : Plus(a, n) % PIPESIZE = RingCell(UMax, PIPESIZE, a, n)
BY PipeAssumption DEF PipeAssumption, RingSizes, Plus, Wrapped, RingCell

LEMMA Wraps ==
  ASSUME NEW a \in 0 .. UMax - 1, NEW n \in 0 .. UMax - 1
  PROVE  /\ Plus(a, n) = IF a + n < UMax THEN a + n ELSE a + n - UMax
         /\ Plus(a, n) \in 0 .. UMax - 1
BY PipeSizes, WrapsRound

LEMMA CellOf ==
  ASSUME NEW a \in Int, NEW n \in Int
  PROVE  /\ Plus(a, n) % PIPESIZE = (a + n) % PIPESIZE
         /\ (a + n) % PIPESIZE \in 0 .. PIPESIZE - 1
BY PipeSizes, WrappedCell

LEMMA CellsDiffer ==
  ASSUME NEW a \in Int, NEW i \in 0 .. PIPESIZE - 1, NEW j \in 0 .. PIPESIZE - 1,
         (a + i) % PIPESIZE = (a + j) % PIPESIZE
  PROVE  i = j
BY PipeSizes, RowDiffers

-----------------------------------------------------------------------------
TypeOK ==
  /\ data \in [0 .. PIPESIZE - 1 -> Bytes]
  /\ nread \in 0 .. UMax - 1 /\ nwrite \in 0 .. UMax - 1
  /\ readopen \in BOOLEAN /\ writeopen \in BOOLEAN /\ lock \in BOOLEAN
  /\ pc \in [Procs -> {"idle", "call", "dozing", "asleep", "closed"}]
  /\ killed \in [Procs -> BOOLEAN]
  /\ todo \in [Writers -> Seq(Bytes)] /\ count \in [Readers -> Nat]

(* The pipe never has more bytes in it than it has cells. *)
Bounded == Used <= PIPESIZE

(* One process at a time is on its way into sleep(), and holds p->lock. *)
OneDozes ==
  \A p \in Procs :
    pc[p] = "dozing" => lock /\ \A q \in Procs : pc[q] = "dozing" => q = p

(* An end is closed once all who hold it have closed it. *)
OpenEnds ==
  /\ ~readopen  => \A r \in Readers : pc[r] = "closed"
  /\ ~writeopen => \A w \in Writers : pc[w] = "closed"

Inductive == TypeOK /\ Bounded /\ OneDozes /\ OpenEnds /\ SleepersWoken

-----------------------------------------------------------------------------
(* The number of bytes in the pipe, and what steps do to it. *)

LEMMA Ahead ==
  ASSUME NEW a \in 0 .. UMax - 1, NEW b \in 0 .. UMax - 1
  PROVE  (b + UMax - a) % UMax = IF b >= a THEN b - a ELSE b + UMax - a
BY PipeSizes, AheadBy

(* nwrite is Used bytes ahead of nread. *)
LEMMA UsedAhead ==
  ASSUME TypeOK
  PROVE  /\ Used \in 0 .. UMax - 1 /\ nwrite = Plus(nread, Used)
         /\ Empty <=> Used = 0
         /\ Full <=> Used = PIPESIZE
<1> USE PipeAssumption DEF TypeOK
<1>1. Used = IF nwrite >= nread THEN nwrite - nread ELSE nwrite + UMax - nread
  BY Ahead DEF Used
<1>2. Used \in 0 .. UMax - 1
  BY <1>1
<1>3. Plus(nread, Used) = IF nread + Used < UMax THEN nread + Used ELSE nread + Used - UMax
  BY <1>2, Wraps
<1>4. PIPESIZE \in 0 .. UMax - 1
  OBVIOUS
<1>5. Plus(nread, PIPESIZE) =
        IF nread + PIPESIZE < UMax THEN nread + PIPESIZE ELSE nread + PIPESIZE - UMax
  BY <1>4, Wraps
<1>6. nwrite = Plus(nread, Used)
  BY <1>1, <1>3
<1>7. Empty <=> Used = 0
  BY <1>1 DEF Empty
<1>8. Full <=> Used = PIPESIZE
  BY <1>1, <1>5 DEF Full
<1> QED
  BY <1>2, <1>6, <1>7, <1>8

(* A count of bytes n ahead of another is Used = n. *)
LEMMA AheadIsUsed ==
  ASSUME NEW a \in 0 .. UMax - 1, NEW n \in 0 .. UMax - 1
  PROVE  (Plus(a, n) + UMax - a) % UMax = n
BY PipeSizes, AheadAgain

LEMMA PlusPlus ==
  ASSUME NEW a \in 0 .. UMax - 1, NEW m \in 0 .. UMax - 1, NEW n \in 0 .. UMax - 1,
         m + n < UMax
  PROVE  Plus(Plus(a, m), n) = Plus(a, m + n)
BY PipeSizes, WrappedTwice

(* The count that piperead() takes from. *)
Taken(r) == IF count[r] < Used THEN count[r] ELSE Used

(* piperead() takes as many bytes as it is asked for and there are. *)
LEMMA ReadCounts ==
  ASSUME TypeOK, Bounded, NEW r \in Readers, Read(r)
  PROVE  /\ Taken(r) \in 0 .. Used
         /\ nread' = Plus(nread, Taken(r)) /\ nread' \in 0 .. UMax - 1
         /\ Used' = Used - Taken(r)
<1> USE PipeAssumption
<1>1. Used \in 0 .. UMax - 1 /\ nwrite = Plus(nread, Used)
  BY UsedAhead
<1>2. Taken(r) \in 0 .. Used
  BY <1>1 DEF Taken, TypeOK
<1>3. nread \in 0 .. UMax - 1 /\ Taken(r) \in 0 .. UMax - 1
  BY <1>1, <1>2 DEF TypeOK
<1>4. nread' = Plus(nread, Taken(r)) /\ nread' \in 0 .. UMax - 1 /\ nwrite' = nwrite
  BY <1>3, Wraps DEF Read, Taken
<1>5. Used - Taken(r) \in 0 .. UMax - 1
  BY <1>1, <1>2
<1>6. nwrite = Plus(nread', Used - Taken(r))
  BY <1>1, <1>2, <1>3, <1>4, <1>5, PlusPlus
<1>7. Used' = Used - Taken(r)
  BY <1>4, <1>5, <1>6, AheadIsUsed DEF Used
<1> QED
  BY <1>2, <1>4, <1>7

(* pipewrite() puts in as many bytes as it has and there is room for. *)
LEMMA FillCounts ==
  ASSUME TypeOK, Bounded, NEW w \in Writers, Fill(w), nread' = nread
  PROVE  /\ Fits(w) \in 0 .. PIPESIZE - Used /\ Fits(w) <= Len(todo[w])
         /\ Fits(w) < Len(todo[w]) => Fits(w) = PIPESIZE - Used
         /\ nwrite' \in 0 .. UMax - 1
         /\ Used' = Used + Fits(w)
<1> USE PipeAssumption
<1>1. Used \in 0 .. PIPESIZE /\ nwrite = Plus(nread, Used)
  BY UsedAhead DEF Bounded
<1>2. Len(todo[w]) \in Nat
  BY LenProperties DEF TypeOK
<1>3. /\ Fits(w) \in 0 .. PIPESIZE - Used /\ Fits(w) <= Len(todo[w])
      /\ Fits(w) < Len(todo[w]) => Fits(w) = PIPESIZE - Used
  BY <1>1, <1>2 DEF Fits, Free
<1>4. nread \in 0 .. UMax - 1 /\ Fits(w) \in 0 .. UMax - 1 /\ Used \in 0 .. UMax - 1
  BY <1>1, <1>3 DEF TypeOK
<1>5. Used + Fits(w) \in 0 .. UMax - 1
  BY <1>1, <1>3
<1>6. nwrite' = Plus(nread, Used + Fits(w)) /\ nwrite' \in 0 .. UMax - 1
  <2>1. nwrite' = Plus(nwrite, Fits(w))
    BY DEF Fill
  <2>2. Plus(Plus(nread, Used), Fits(w)) = Plus(nread, Used + Fits(w))
    BY <1>4, <1>5, PlusPlus
  <2>3. Plus(nread, Used + Fits(w)) \in 0 .. UMax - 1
    BY <1>4, <1>5, Wraps
  <2> QED
    BY <1>1, <2>1, <2>2, <2>3
<1>7. Used' = Used + Fits(w)
  BY <1>4, <1>5, <1>6, AheadIsUsed DEF Used
<1> QED
  BY <1>3, <1>6, <1>7

-----------------------------------------------------------------------------
(* What steps do to the cells. *)

(* The i-th cell from the count a on. *)
Cell(a, i) == Plus(a, i) % PIPESIZE

LEMMA CellsAhead ==
  ASSUME NEW a \in Int, NEW n \in 0 .. PIPESIZE, NEW i \in 0 .. PIPESIZE - 1
  PROVE  /\ Cell(a, i) \in 0 .. PIPESIZE - 1
         /\ Cell(a, i) \in Cells(a, n) => i < n
<1> USE PipeAssumption
<1>1. Cell(a, i) = (a + i) % PIPESIZE /\ Cell(a, i) \in 0 .. PIPESIZE - 1
  <2> i \in Int
    OBVIOUS
  <2> QED
    BY CellOf DEF Cell
<1>2. ASSUME Cell(a, i) \in Cells(a, n)
      PROVE  i < n
  <2>1. PICK k \in 0 .. n - 1 : Cell(a, i) = Plus(a, k) % PIPESIZE
    BY <1>2 DEF Cells
  <2>2. k \in Int /\ k \in 0 .. PIPESIZE - 1
    OBVIOUS
  <2>3. Plus(a, k) % PIPESIZE = (a + k) % PIPESIZE
    BY <2>2, CellOf
  <2>4. i = k
    BY <1>1, <2>1, <2>2, <2>3, CellsDiffer
  <2> QED
    BY <2>4
<1> QED
  BY <1>1, <1>2

(* A count n ahead of a count m ahead is m + n ahead. *)
LEMMA CellPlus ==
  ASSUME NEW a \in Int, NEW m \in Int, NEW i \in Int
  PROVE  Cell(Plus(a, m), i) = Cell(a, m + i)
<1>1. RingCell(UMax, PIPESIZE, Wrapped(UMax, a, m), i) = RingCell(UMax, PIPESIZE, a, m + i)
  BY PipeSizes, CellsOn
<1> QED
  BY <1>1, PipeSizes DEF Cell

(* pipewrite() writes bytes, and over none that is still to be read. *)
LEMMA FillCells ==
  ASSUME TypeOK, Bounded, NEW w \in Writers, Fill(w), nread' = nread
  PROVE  /\ data' \in [0 .. PIPESIZE - 1 -> Bytes]
         /\ \A i \in 0 .. Used - 1 : data'[Cell(nread, i)] = data[Cell(nread, i)]
<1> USE PipeAssumption
<1> DEFINE n == Fits(w)
           byte(i) == CHOOSE k \in 1 .. n : i \in Cells(Plus(nwrite, k - 1), 1)
<1>1. Used \in 0 .. PIPESIZE /\ nwrite = Plus(nread, Used) /\ nread \in Int /\ nwrite \in Int
  BY UsedAhead DEF Bounded, TypeOK
<1>2. n \in 0 .. PIPESIZE - Used /\ n <= Len(todo[w])
  BY FillCounts
<1>3. data' = [i \in DOMAIN data |->
                 IF i \in Cells(nwrite, n) THEN todo[w][byte(i)] ELSE data[i]]
  BY DEF Fill
<1>4. DOMAIN data = 0 .. PIPESIZE - 1 /\ \A i \in 0 .. PIPESIZE - 1 : data[i] \in Bytes
  BY DEF TypeOK
<1> HIDE DEF n
<1>5. ASSUME NEW i \in Cells(nwrite, n)
      PROVE  byte(i) \in 1 .. n
  <2>1. PICK k \in 0 .. n - 1 : i = Plus(nwrite, k) % PIPESIZE
    BY <1>5 DEF Cells
  <2>2. Plus(Plus(nwrite, k), 0) = Plus(nwrite, k)
    <3>1. Plus(nwrite, k) \in 0 .. UMax - 1
      BY <1>1, <1>2 DEF Plus
    <3> QED
      BY <3>1, Wraps
  <2>3. k + 1 \in 1 .. n /\ (k + 1) - 1 = k /\ 0 \in 0 .. 1 - 1
    BY <1>1, <1>2
  <2>4. i \in Cells(Plus(nwrite, (k + 1) - 1), 1)
    BY <2>1, <2>2, <2>3 DEF Cells
  <2> QED
    BY <2>3, <2>4
<1>6. ASSUME NEW i \in Cells(nwrite, n)
      PROVE  todo[w][byte(i)] \in Bytes
  <2>1. byte(i) \in 1 .. Len(todo[w])
    <3>1. Len(todo[w]) \in Nat /\ n \in Int
      BY <1>1, <1>2, LenProperties DEF TypeOK
    <3> HIDE DEF byte
    <3> QED
      BY <1>2, <1>5, <3>1
  <2> HIDE DEF byte
  <2> QED
    BY <2>1, ElementOfSeq DEF TypeOK
<1> HIDE DEF byte
<1>7. data' \in [0 .. PIPESIZE - 1 -> Bytes]
  BY <1>3, <1>4, <1>6
<1>8. ASSUME NEW i \in 0 .. Used - 1
      PROVE  data'[Cell(nread, i)] = data[Cell(nread, i)]
  <2>1. i \in 0 .. PIPESIZE - 1 /\ Cell(nread, i) \in 0 .. PIPESIZE - 1
    BY <1>1, <1>8, CellsAhead
  <2>2. Cell(nread, i) \notin Cells(nwrite, n)
    <3>1. SUFFICES ASSUME NEW k \in 0 .. n - 1, Cell(nread, i) = Cell(nwrite, k)
                   PROVE  FALSE
      BY DEF Cells, Cell
    <3>2. k \in Int /\ Used \in Int /\ Used + k \in 0 .. PIPESIZE - 1 /\ i # Used + k
      BY <1>1, <1>2, <1>8, <3>1
    <3>3. Cell(nwrite, k) = Cell(nread, Used + k)
      BY <1>1, <3>2, CellPlus
    <3>4. /\ Cell(nread, i) = (nread + i) % PIPESIZE
          /\ Cell(nread, Used + k) = (nread + (Used + k)) % PIPESIZE
      <4>1. i \in Int /\ Used + k \in Int
        BY <3>2
      <4>2. Cell(nread, i) = (nread + i) % PIPESIZE
        BY <1>1, <4>1, CellOf DEF Cell
      <4>3. Cell(nread, Used + k) = (nread + (Used + k)) % PIPESIZE
        BY <1>1, <4>1, CellOf DEF Cell
      <4> QED
        BY <4>2, <4>3
    <3> QED
      BY <1>1, <2>1, <3>1, <3>2, <3>3, <3>4, CellsDiffer
  <2> QED
    BY <1>3, <1>4, <2>1, <2>2
<1> QED
  BY <1>7, <1>8

(* piperead() moves the bytes that it leaves to the front. *)
LEMMA ReadCells ==
  ASSUME TypeOK, Bounded, NEW r \in Readers, Read(r)
  PROVE  /\ data' \in [0 .. PIPESIZE - 1 -> Bytes]
         /\ \A i \in 0 .. Used - Taken(r) - 1 :
              data'[Cell(nread', i)] = data[Cell(nread, Taken(r) + i)]
<1> USE PipeAssumption
<1> DEFINE n == Taken(r)
<1>1. Used \in 0 .. PIPESIZE /\ nread \in Int
  BY UsedAhead DEF Bounded, TypeOK
<1>2. n \in 0 .. Used /\ nread' = Plus(nread, n)
  BY ReadCounts
<1>3. data' = [i \in DOMAIN data |-> IF i \in Cells(nread, n) THEN Blank ELSE data[i]]
  BY DEF Read, Taken
<1>4. DOMAIN data = 0 .. PIPESIZE - 1 /\ \A i \in 0 .. PIPESIZE - 1 : data[i] \in Bytes
  BY DEF TypeOK
<1> HIDE DEF n
<1>5. data' \in [0 .. PIPESIZE - 1 -> Bytes]
  BY <1>3, <1>4 DEF Blank
<1>6. ASSUME NEW i \in 0 .. Used - n - 1
      PROVE  data'[Cell(nread', i)] = data[Cell(nread, n + i)]
  <2>1. i \in Int /\ n \in Int /\ n \in 0 .. PIPESIZE /\ n + i \in 0 .. PIPESIZE - 1
    BY <1>1, <1>2, <1>6
  <2>2. Cell(nread', i) = Cell(nread, n + i)
    BY <1>1, <1>2, <2>1, CellPlus
  <2>3. Cell(nread, n + i) \in 0 .. PIPESIZE - 1 /\ Cell(nread, n + i) \notin Cells(nread, n)
    BY <1>1, <1>6, <2>1, CellsAhead
  <2> QED
    BY <1>3, <1>4, <2>2, <2>3
<1> QED
  BY <1>5, <1>6 DEF n

-----------------------------------------------------------------------------
(* The inductive invariant. *)

LEMMA WakeAfterType ==
  ASSUME NEW S, NEW at \in [Procs -> {"idle", "call", "dozing", "asleep", "closed"}]
  PROVE  /\ WakeAfter(S, at) \in [Procs -> {"idle", "call", "dozing", "asleep", "closed"}]
         /\ \A p \in Procs :
              /\ WakeAfter(S, at)[p] \in {"dozing", "closed"} => WakeAfter(S, at)[p] = at[p]
              /\ WakeAfter(S, at)[p] = "asleep" => p \notin S /\ at[p] = "asleep"
              /\ at[p] \in {"dozing", "closed"} => WakeAfter(S, at)[p] = at[p]
  BY DEF WakeAfter

(* Every step keeps cells, counts and processes well formed. *)
LEMMA TypeStep ==
  ASSUME TypeOK, Bounded, [Next]_vars
  PROVE  TypeOK' /\ Bounded'
<1> USE PipeAssumption
<1>1. ASSUME NEW r \in Readers, Read(r)
      PROVE  TypeOK' /\ Bounded'
  <2>1. pc' \in [Procs -> {"idle", "call", "dozing", "asleep", "closed"}]
    <3>1. pc' = WakeAfter(Writers, [pc EXCEPT ![r] = "idle"])
      BY <1>1 DEF Read
    <3>2. [pc EXCEPT ![r] = "idle"] \in [Procs -> {"idle", "call", "dozing", "asleep", "closed"}]
      BY DEF TypeOK
    <3> QED
      BY <3>1, <3>2, WakeAfterType
  <2>2. data' \in [0 .. PIPESIZE - 1 -> Bytes] /\ nread' \in 0 .. UMax - 1
    BY <1>1, ReadCells, ReadCounts
  <2>3. count' \in [Readers -> Nat]
    BY <1>1 DEF Read, TypeOK
  <2>4. TypeOK'
    BY <1>1, <2>1, <2>2, <2>3 DEF Read, TypeOK
  <2>5. Used' = Used - Taken(r) /\ Taken(r) \in 0 .. Used /\ Used \in Int
    BY <1>1, ReadCounts, UsedAhead
  <2> QED
    BY <2>4, <2>5 DEF Bounded
<1>2. ASSUME NEW w \in Writers, WriteStep(w)
      PROVE  TypeOK' /\ Bounded'
  <2>1. Fill(w) /\ nread' = nread
    BY <1>2 DEF WriteStep, Write, WriteFail, WriteDoze
  <2>2. data' \in [0 .. PIPESIZE - 1 -> Bytes] /\ nwrite' \in 0 .. UMax - 1
    BY <2>1, FillCells, FillCounts
  <2>3. Used' = Used + Fits(w) /\ Fits(w) \in 0 .. PIPESIZE - Used /\ Used \in Int
    BY <2>1, FillCounts, UsedAhead
  <2>4. pc' \in [Procs -> {"idle", "call", "dozing", "asleep", "closed"}]
    <3>1. \/ pc' = WakeAfter(Readers, [pc EXCEPT ![w] = "idle"])
          \/ pc' = WakeAfter(Readers, [pc EXCEPT ![w] = "dozing"])
          \/ pc' = [pc EXCEPT ![w] = "idle"]
      BY <1>2 DEF WriteStep, Write, WriteFail, WriteDoze
    <3>2. /\ [pc EXCEPT ![w] = "idle"] \in [Procs -> {"idle", "call", "dozing", "asleep", "closed"}]
          /\ [pc EXCEPT ![w] = "dozing"] \in [Procs -> {"idle", "call", "dozing", "asleep", "closed"}]
      BY DEF TypeOK
    <3>3. CASE pc' = WakeAfter(Readers, [pc EXCEPT ![w] = "idle"])
      BY <3>2, <3>3, WakeAfterType
    <3>4. CASE pc' = WakeAfter(Readers, [pc EXCEPT ![w] = "dozing"])
      BY <3>2, <3>4, WakeAfterType
    <3> QED
      BY <3>1, <3>2, <3>3, <3>4
  <2>5. Left(w) \in Seq(Bytes)
    <3>1. todo[w] \in Seq(Bytes) /\ Fits(w) + 1 \in 1 .. Len(todo[w]) + 1
      BY <2>1, <2>3, FillCounts, LenProperties DEF TypeOK
    <3> QED
      BY <3>1, SubSeqProperties DEF Left
  <2>6. todo' \in [Writers -> Seq(Bytes)]
    <3>1. << >> \in Seq(Bytes)
      OBVIOUS
    <3>2. todo' = [todo EXCEPT ![w] = << >>] \/ todo' = [todo EXCEPT ![w] = Left(w)]
      BY <1>2 DEF WriteStep, Write, WriteFail, WriteDoze
    <3> QED
      BY <2>5, <3>1, <3>2 DEF TypeOK
  <2>7. /\ readopen' = readopen /\ writeopen' = writeopen /\ killed' = killed
        /\ count' = count /\ lock' \in BOOLEAN
    BY <1>2 DEF WriteStep, Write, WriteFail, WriteDoze, TypeOK
  <2>8. TypeOK'
    BY <2>1, <2>2, <2>4, <2>6, <2>7 DEF TypeOK
  <2> QED
    BY <2>3, <2>8 DEF Bounded
<1>3. ASSUME NEW r \in Readers, ReadKilled(r) \/ ReadDoze(r)
      PROVE  TypeOK' /\ Bounded'
  <2>1. r \in Procs /\ 0 \in Nat
    BY DEF Procs
  <2>2. CASE ReadKilled(r)
    BY <2>1, <2>2 DEF ReadKilled, pipevars, TypeOK, Bounded, Used
  <2>3. CASE ReadDoze(r)
    BY <2>1, <2>3 DEF ReadDoze, pipevars, TypeOK, Bounded, Used
  <2> QED
    BY <1>3, <2>2, <2>3
<1>4. ASSUME NEW p \in Procs, Sleep(p)
      PROVE  TypeOK' /\ Bounded'
  BY <1>4 DEF Sleep, pipevars, TypeOK, Bounded, Used
<1>5. ASSUME NEW p \in Procs, Close(p)
      PROVE  TypeOK' /\ Bounded'
  <2>1. [pc EXCEPT ![p] = "closed"] \in [Procs -> {"idle", "call", "dozing", "asleep", "closed"}]
    BY DEF TypeOK
  <2>2. pc' \in [Procs -> {"idle", "call", "dozing", "asleep", "closed"}]
    BY <1>5, <2>1, WakeAfterType DEF Close
  <2> QED
    BY <1>5, <2>2 DEF Close, TypeOK, Bounded, Used
<1>6. ASSUME NEW p \in Procs, Kill(p)
      PROVE  TypeOK' /\ Bounded'
  <2>1. pc' \in [Procs -> {"idle", "call", "dozing", "asleep", "closed"}]
    BY <1>6, WakeAfterType DEF Kill, TypeOK
  <2> QED
    BY <1>6, <2>1 DEF Kill, pipevars, TypeOK, Bounded, Used
<1>7. ASSUME CallStep
      PROVE  TypeOK' /\ Bounded'
  <2>1. UNCHANGED <<data, nread, nwrite, readopen, writeopen, lock, killed>>
    BY <1>7 DEF CallStep, CallRead, CallWrite, pipevars
  <2>2. ASSUME NEW r \in Readers, NEW n \in 1 .. MaxCount, CallRead(r, n)
        PROVE  TypeOK'
    BY <2>1, <2>2 DEF CallRead, TypeOK, Procs
  <2>3. ASSUME NEW w \in Writers, NEW s \in Writes, CallWrite(w, s)
        PROVE  TypeOK'
    BY <2>1, <2>3 DEF CallWrite, TypeOK, Procs
  <2>4. TypeOK'
    BY <1>7, <2>2, <2>3 DEF CallStep
  <2> QED
    BY <2>1, <2>4 DEF Bounded, Used
<1>8. CASE UNCHANGED vars
  BY <1>8 DEF vars, pipevars, TypeOK, Bounded, Used
<1> QED
  BY <1>1, <1>2, <1>3, <1>4, <1>5, <1>6, <1>7, <1>8 DEF Next, ReadStep

(* Steps keep to the lock, and to the ends that are open. *)
LEMMA LockStep ==
  ASSUME TypeOK, OneDozes, OpenEnds, [Next]_vars
  PROVE  OneDozes' /\ OpenEnds'
<1> USE PipeAssumption DEF TypeOK, Procs
<1>1. ASSUME NEW r \in Readers, ReadStep(r)
      PROVE  OneDozes' /\ OpenEnds'
  <2>1. CASE Read(r)
    BY <2>1 DEF Read, OneDozes, OpenEnds, WakeAfter
  <2>2. CASE ReadKilled(r)
    BY <2>2 DEF ReadKilled, OneDozes, OpenEnds, pipevars
  <2>3. CASE ReadDoze(r)
    BY <2>3 DEF ReadDoze, OneDozes, OpenEnds, pipevars
  <2> QED
    BY <1>1, <2>1, <2>2, <2>3 DEF ReadStep
<1>2. ASSUME NEW w \in Writers, WriteStep(w)
      PROVE  OneDozes' /\ OpenEnds'
  <2>1. CASE Write(w)
    BY <2>1 DEF Write, OneDozes, OpenEnds, WakeAfter
  <2>2. CASE WriteFail(w)
    BY <2>2 DEF WriteFail, OneDozes, OpenEnds
  <2>3. CASE WriteDoze(w)
    BY <2>3 DEF WriteDoze, OneDozes, OpenEnds, WakeAfter
  <2> QED
    BY <1>2, <2>1, <2>2, <2>3 DEF WriteStep
<1>3. ASSUME NEW p \in Procs, Sleep(p)
      PROVE  OneDozes' /\ OpenEnds'
  BY <1>3 DEF Sleep, OneDozes, OpenEnds, pipevars
<1>4. ASSUME NEW p \in Procs, Close(p)
      PROVE  OneDozes' /\ OpenEnds'
  BY <1>4 DEF Close, Last, OneDozes, OpenEnds, WakeAfter
<1>5. ASSUME NEW p \in Procs, Kill(p)
      PROVE  OneDozes' /\ OpenEnds'
  BY <1>5 DEF Kill, OneDozes, OpenEnds, WakeAfter, pipevars
<1>6. ASSUME CallStep
      PROVE  OneDozes' /\ OpenEnds'
  BY <1>6 DEF CallStep, CallRead, CallWrite, OneDozes, OpenEnds, pipevars
<1>7. CASE UNCHANGED vars
  BY <1>7 DEF vars, OneDozes, OpenEnds, pipevars
<1> QED
  BY <1>1, <1>2, <1>3, <1>4, <1>5, <1>6, <1>7 DEF Next

(* Nobody dozes while p->lock is free, and a writer that has slept has     *)
(* found the pipe full: who makes room, or closes the end, wakes it.       *)
LEMMA SleepStep ==
  ASSUME Inductive, [Next]_vars
  PROVE  SleepersWoken'
<1> USE PipeAssumption DEF Inductive
<1>1. pc \in [Procs -> {"idle", "call", "dozing", "asleep", "closed"}]
  BY DEF TypeOK
<1> USE <1>1 DEF Procs
<1>2. ASSUME NEW r \in Readers, ReadStep(r)
      PROVE  SleepersWoken'
  <2>1. CASE Read(r)
    <3>1. WriterWoken'
      BY <2>1 DEF Read, WriterWoken, OneDozes, WakeAfter
    <3>2. ReaderWoken'
      BY <2>1 DEF Read, SleepersWoken, ReaderWoken, OneDozes, WakeAfter
    <3> QED
      BY <3>1, <3>2 DEF SleepersWoken
  <2>2. CASE ReadKilled(r)
    BY <2>2 DEF ReadKilled, SleepersWoken, WriterWoken, ReaderWoken, Full, Empty, pipevars
  <2>3. CASE ReadDoze(r)
    BY <2>3 DEF ReadDoze, SleepersWoken, WriterWoken, ReaderWoken, Full, Empty, pipevars
  <2> QED
    BY <1>2, <2>1, <2>2, <2>3 DEF ReadStep
<1>3. ASSUME NEW w \in Writers, WriteStep(w)
      PROVE  SleepersWoken'
  <2>1. /\ Fill(w) /\ nread' = nread /\ readopen' = readopen /\ writeopen' = writeopen
        /\ killed' = killed /\ ~lock /\ pc[w] = "call"
    BY <1>3 DEF WriteStep, Write, WriteFail, WriteDoze
  <2>2. /\ Used \in Int /\ Used' = Used + Fits(w) /\ Fits(w) \in 0 .. PIPESIZE - Used
        /\ Fits(w) < Len(todo[w]) => Fits(w) = PIPESIZE - Used
    BY <2>1, UsedAhead, FillCounts
  <2>3. TypeOK'
    BY TypeStep DEF Next
  <2>4. (Full <=> Used = PIPESIZE) /\ (Full' <=> Used' = PIPESIZE)
    <3>1. Full <=> Used = PIPESIZE
      BY UsedAhead
    <3>2. (TypeOK => (Full <=> Used = PIPESIZE))'
      BY UsedAhead, PTL
    <3> QED
      BY <2>3, <3>1, <3>2
  <2>5. Full => Full'
    BY <2>2, <2>4
  <2>6. \A q \in Procs : pc[q] # "dozing"
    BY <2>1 DEF OneDozes
  <2>7. WriterWoken'
    <3> SUFFICES ASSUME NEW q \in Writers, pc'[q] \in {"dozing", "asleep"}
                 PROVE  Full' /\ readopen'
      BY DEF WriterWoken
    <3>1. CASE pc[q] = "asleep"
      BY <2>1, <2>5, <3>1 DEF SleepersWoken, WriterWoken
    <3>2. CASE pc[q] # "asleep"
      <4>1. q = w /\ WriteDoze(w)
        BY <1>3, <2>6, <3>2 DEF WriteStep, Write, WriteFail, WriteDoze, WakeAfter
      <4>2. Fits(w) < Len(todo[w]) /\ readopen
        BY <4>1 DEF WriteDoze
      <4> QED
        BY <2>1, <2>2, <2>4, <4>2
    <3> QED
      BY <3>1, <3>2
  <2>8. ReaderWoken'
    <3> SUFFICES ASSUME \A v \in Writers : ~killed[v], NEW r \in Readers
                 PROVE  pc'[r] \notin {"dozing", "asleep"}
      BY <2>1 DEF ReaderWoken
    <3>1. r # w
      OBVIOUS
    <3>2. CASE Write(w)
      BY <2>6, <3>1, <3>2 DEF Write, WakeAfter
    <3>3. CASE WriteFail(w)
      BY <3>1, <3>3 DEF WriteFail, OpenEnds
    <3>4. CASE WriteDoze(w)
      BY <2>6, <3>1, <3>4 DEF WriteDoze, WakeAfter
    <3> QED
      BY <1>3, <3>2, <3>3, <3>4 DEF WriteStep
  <2> QED
    BY <2>7, <2>8 DEF SleepersWoken
<1>4. ASSUME NEW p \in Procs, Sleep(p)
      PROVE  SleepersWoken'
  BY <1>4 DEF Sleep, SleepersWoken, WriterWoken, ReaderWoken, Full, Empty, pipevars
<1>5. ASSUME NEW p \in Procs, Close(p)
      PROVE  SleepersWoken'
  <2>1. UNCHANGED <<nread, nwrite, killed>> /\ ~lock
    BY <1>5 DEF Close
  <2>2. \A q \in Procs : pc'[q] \in {"dozing", "asleep"} => q # p /\ pc[q] = "asleep"
    BY <1>5, <2>1 DEF Close, WakeAfter, OneDozes
  <2>3. WriterWoken'
    BY <1>5, <2>1, <2>2 DEF Close, WakeAfter, SleepersWoken, WriterWoken, Full
  <2>4. ReaderWoken'
    BY <1>5, <2>1, <2>2 DEF Close, WakeAfter, SleepersWoken, ReaderWoken, Empty
  <2> QED
    BY <2>3, <2>4 DEF SleepersWoken
<1>6. ASSUME NEW p \in Procs, Kill(p)
      PROVE  SleepersWoken'
  <2>1. UNCHANGED <<nread, nwrite, readopen, writeopen>>
    BY <1>6 DEF Kill, pipevars
  <2>2. \A q \in Procs : pc'[q] \in {"dozing", "asleep"} => pc[q] = pc'[q]
    BY <1>6 DEF Kill, WakeAfter
  <2>3. \A q \in Procs : killed[q] => killed'[q]
    BY <1>6 DEF Kill, TypeOK
  <2> QED
    BY <2>1, <2>2, <2>3 DEF SleepersWoken, WriterWoken, ReaderWoken, Full, Empty
<1>7. ASSUME CallStep
      PROVE  SleepersWoken'
  BY <1>7 DEF CallStep, CallRead, CallWrite, SleepersWoken, WriterWoken, ReaderWoken,
              Full, Empty, pipevars
<1>8. CASE UNCHANGED vars
  BY <1>8 DEF vars, pipevars, SleepersWoken, WriterWoken, ReaderWoken, Full, Empty
<1> QED
  BY <1>2, <1>3, <1>4, <1>5, <1>6, <1>7, <1>8 DEF Next

LEMMA InitInductive == Init => Inductive
<1> SUFFICES ASSUME Init PROVE Inductive
  OBVIOUS
<1> USE PipeAssumption DEF Init
<1>1. TypeOK
  <2>1. Blank \in Bytes
    BY DEF Blank
  <2>2. todo \in [Writers -> Seq(Bytes)]
    <3>1. << >> \in Seq(Bytes)
      OBVIOUS
    <3> QED
      BY <3>1
  <2>3. data \in [0 .. PIPESIZE - 1 -> Bytes] /\ 0 \in 0 .. UMax - 1
    BY <2>1
  <2>4. /\ pc \in [Procs -> {"idle", "call", "dozing", "asleep", "closed"}]
        /\ killed \in [Procs -> BOOLEAN] /\ count \in [Readers -> Nat]
    OBVIOUS
  <2> QED
    BY <2>2, <2>3, <2>4 DEF TypeOK
<1>2. Bounded
  <2>1. Used = 0
    BY <1>1, UsedAhead DEF Empty
  <2> QED
    BY <2>1 DEF Bounded
<1>3. OneDozes /\ OpenEnds /\ SleepersWoken
  BY DEF OneDozes, OpenEnds, SleepersWoken, WriterWoken, ReaderWoken, Procs
<1> QED
  BY <1>1, <1>2, <1>3 DEF Inductive

LEMMA InductiveInvariant == Spec => []Inductive
<1>1. Inductive /\ [Next]_vars => Inductive'
  BY TypeStep, LockStep, SleepStep DEF Inductive
<1> QED
  BY <1>1, InitInductive, PTL DEF Spec

(* piperead() and pipewrite() sleep only for what they are woken from,     *)
(* however many processes hold the ends, and whatever is written, killed   *)
(* and closed on the way into sleep().                                     *)
THEOREM PipeWakes == Spec => []SleepersWoken
<1>1. Inductive => SleepersWoken
  BY DEF Inductive
<1> QED
  BY <1>1, InductiveInvariant, PTL

-----------------------------------------------------------------------------
(* The pipe implements the channel. *)

(* The bytes to be read, in order. *)
InPipe == [i \in 1 .. Used |-> data[Plus(nread, i - 1) % PIPESIZE]]

LEMMA InPipeSeq ==
  ASSUME TypeOK, Bounded
  PROVE  /\ InPipe \in Seq(Bytes) /\ Len(InPipe) = Used
         /\ \A i \in 0 .. Used - 1 : InPipe[i + 1] = data[Cell(nread, i)]
<1> USE PipeAssumption
<1>1. Used \in 0 .. PIPESIZE /\ nread \in Int
  BY UsedAhead DEF Bounded, TypeOK
<1>2. ASSUME NEW i \in 1 .. Used
      PROVE  data[Plus(nread, i - 1) % PIPESIZE] \in Bytes
  <2>1. i - 1 \in 0 .. PIPESIZE - 1
    BY <1>1
  <2>2. Cell(nread, i - 1) \in 0 .. PIPESIZE - 1
    BY <1>1, <2>1, CellsAhead
  <2> QED
    BY <2>2 DEF Cell, TypeOK
<1>3. InPipe \in [1 .. Used -> Bytes] /\ Used \in Nat
  BY <1>1, <1>2 DEF InPipe
<1>4. InPipe \in Seq(Bytes) /\ Len(InPipe) = Used
  BY <1>3, SeqDef
<1>5. ASSUME NEW i \in 0 .. Used - 1
      PROVE  InPipe[i + 1] = data[Cell(nread, i)]
  <2>1. i + 1 \in 1 .. Used /\ (i + 1) - 1 = i
    BY <1>1
  <2> QED
    BY <2>1 DEF InPipe, Cell
<1> QED
  BY <1>4, <1>5

LEMMA SendStep ==
  ASSUME TypeOK, Bounded, TypeOK', Bounded', NEW w \in Writers, WriteStep(w)
  PROVE  Chan!Send
<1>1. Fill(w) /\ nread' = nread /\ read' = read
  BY DEF WriteStep, Write, WriteFail, WriteDoze
<1>2. Used \in Nat /\ Used' \in Used .. PIPESIZE
  BY <1>1, UsedAhead, FillCounts DEF Bounded
<1>3. /\ InPipe \in Seq(Bytes) /\ Len(InPipe) = Used
      /\ \A i \in 0 .. Used - 1 : InPipe[i + 1] = data[Cell(nread, i)]
  BY InPipeSeq
<1>4. /\ InPipe' \in Seq(Bytes) /\ Len(InPipe') = Used'
      /\ \A i \in 0 .. Used' - 1 : InPipe'[i + 1] = data'[Cell(nread', i)]
  <2>1. (TypeOK /\ Bounded => /\ InPipe \in Seq(Bytes) /\ Len(InPipe) = Used
                              /\ \A i \in 0 .. Used - 1 : InPipe[i + 1] = data[Cell(nread, i)])'
    BY InPipeSeq, PTL
  <2> QED
    BY <2>1
<1>5. \A i \in 0 .. Used - 1 : data'[Cell(nread, i)] = data[Cell(nread, i)]
  BY <1>1, FillCells
<1>6. ASSUME NEW j \in 1 .. Used
      PROVE  InPipe'[j] = InPipe[j]
  <2>1. j - 1 \in 0 .. Used - 1 /\ j - 1 \in 0 .. Used' - 1 /\ (j - 1) + 1 = j
    <3> DEFINE m == Used
               n == Used'
    <3>1. m \in Nat /\ n \in Nat /\ m <= n /\ j \in 1 .. m
      BY <1>2, <1>6
    <3> HIDE DEF m, n
    <3>2. j - 1 \in 0 .. m - 1 /\ j - 1 \in 0 .. n - 1 /\ (j - 1) + 1 = j
      BY <3>1
    <3> QED
      BY <3>2 DEF m, n
  <2>2. InPipe[j] = data[Cell(nread, j - 1)] /\ InPipe'[j] = data'[Cell(nread, j - 1)]
    BY <1>1, <1>3, <1>4, <2>1
  <2> QED
    BY <1>5, <2>1, <2>2
<1>7. SubSeq(InPipe', 1, Len(InPipe)) = InPipe
  <2> DEFINE s == SubSeq(InPipe', 1, Len(InPipe))
  <2>1. /\ s \in Seq(Bytes) /\ Len(s) = Used
        /\ \A j \in 1 .. Used : s[j] = InPipe'[j]
    BY <1>2, <1>3, <1>4, SubSeqProperties
  <2> HIDE DEF s
  <2>2. s = InPipe
    BY <1>3, <1>6, <2>1, SeqEqual
  <2> QED
    BY <2>2 DEF s
<1> QED
  BY <1>1, <1>2, <1>3, <1>4, <1>7 DEF Chan!Send, InPipe

LEMMA ReceiveStep ==
  ASSUME TypeOK, Bounded, TypeOK', Bounded', NEW r \in Readers, Read(r)
  PROVE  Chan!Receive \/ UNCHANGED <<InPipe, read>>
<1> DEFINE n == Taken(r)
<1>1. /\ n \in 0 .. Used /\ Used \in Nat /\ Used' = Used - n /\ nread' = Plus(nread, n)
  BY ReadCounts, UsedAhead
<1>2. /\ InPipe \in Seq(Bytes) /\ Len(InPipe) = Used
      /\ \A i \in 0 .. Used - 1 : InPipe[i + 1] = data[Cell(nread, i)]
  BY InPipeSeq
<1>3. /\ InPipe' \in Seq(Bytes) /\ Len(InPipe') = Used'
      /\ \A i \in 0 .. Used' - 1 : InPipe'[i + 1] = data'[Cell(nread', i)]
  <2>1. (TypeOK /\ Bounded => /\ InPipe \in Seq(Bytes) /\ Len(InPipe) = Used
                              /\ \A i \in 0 .. Used - 1 : InPipe[i + 1] = data[Cell(nread, i)])'
    BY InPipeSeq, PTL
  <2> QED
    BY <2>1
<1>4. \A i \in 0 .. Used - n - 1 : data'[Cell(nread', i)] = data[Cell(nread, n + i)]
  BY ReadCells
<1>5. read' = IF n = 0 THEN read
              ELSE [i \in 1 .. n |-> data[Cell(nread, i - 1)]]
  BY DEF Read, Taken, Cell
<1> HIDE DEF n
<1>6. ASSUME NEW j \in 1 .. Used'
      PROVE  InPipe'[j] = InPipe[n + j]
  <2>1. /\ j - 1 \in 0 .. Used' - 1 /\ (j - 1) + 1 = j
        /\ n + (j - 1) \in 0 .. Used - 1 /\ (n + (j - 1)) + 1 = n + j
        /\ j - 1 \in 0 .. Used - n - 1
    BY <1>1
  <2>2. InPipe'[j] = data'[Cell(nread', j - 1)]
    BY <1>3, <2>1
  <2>3. InPipe[n + j] = data[Cell(nread, n + (j - 1))]
    BY <1>2, <2>1
  <2> QED
    BY <1>4, <2>1, <2>2, <2>3
<1>7. CASE n = 0
  <2>1. Used' = Used /\ \A j \in 1 .. Used : InPipe'[j] = InPipe[j]
    BY <1>1, <1>6, <1>7
  <2>2. InPipe' = InPipe
    BY <1>2, <1>3, <2>1, SeqEqual
  <2> QED
    BY <1>5, <1>7, <2>2
<1>8. CASE n # 0
  <2>1. n \in 1 .. Len(InPipe)
    BY <1>1, <1>2, <1>8
  <2>2. read' = SubSeq(InPipe, 1, n)
    <3> DEFINE s == SubSeq(InPipe, 1, n)
    <3>1. s \in Seq(Bytes) /\ Len(s) = n /\ \A j \in 1 .. n : s[j] = InPipe[j]
      BY <1>2, <2>1, SubSeqProperties
    <3> HIDE DEF s
    <3>2. \A j \in 1 .. n : InPipe[j] = data[Cell(nread, j - 1)]
      <4> TAKE j \in 1 .. n
      <4>1. j - 1 \in 0 .. Used - 1 /\ (j - 1) + 1 = j
        BY <1>1
      <4> QED
        BY <1>2, <4>1
    <3>3. s = [i \in 1 .. n |-> s[i]]
      BY <3>1
    <3>4. s = [i \in 1 .. n |-> data[Cell(nread, i - 1)]]
      BY <3>1, <3>2, <3>3
    <3> QED
      BY <1>5, <1>8, <3>4 DEF s
  <2>3. InPipe' = SubSeq(InPipe, n + 1, Len(InPipe))
    <3> DEFINE s == SubSeq(InPipe, n + 1, Len(InPipe))
    <3>1. /\ s \in Seq(Bytes) /\ Len(s) = Used'
          /\ \A j \in 1 .. Used' : s[j] = InPipe[n + j]
      BY <1>1, <1>2, <2>1, SubSeqProperties
    <3> HIDE DEF s
    <3>2. InPipe' = s
      BY <1>3, <1>6, <3>1, SeqEqual
    <3> QED
      BY <3>2 DEF s
  <2> QED
    BY <2>1, <2>2, <2>3 DEF Chan!Receive, InPipe
<1> QED
  BY <1>7, <1>8

(* The bytes come out of a pipe once each, in the order in which they went *)
(* in, and at most PIPESIZE are in between.                                *)
THEOREM PipeIsChannel == Spec => BytesInOrder
<1>1. Init => Chan!ChannelInit
  <2> SUFFICES ASSUME Init PROVE Chan!ChannelInit
    OBVIOUS
  <2>1. Inductive
    BY InitInductive
  <2>2. Used = 0
    BY <2>1, UsedAhead DEF Inductive, Init, Empty
  <2>3. InPipe \in Seq(Bytes) /\ Len(InPipe) = 0
    BY <2>1, <2>2, InPipeSeq DEF Inductive
  <2>4. InPipe = << >>
    BY <2>3, EmptySeq
  <2> QED
    BY <2>4 DEF Chan!ChannelInit, Init, InPipe
<1>2. Inductive /\ Inductive' /\ [Next]_vars => [Chan!Send \/ Chan!Receive]_<<InPipe, read>>
  <2> SUFFICES ASSUME Inductive, Inductive', [Next]_vars
               PROVE  Chan!Send \/ Chan!Receive \/ UNCHANGED <<InPipe, read>>
    OBVIOUS
  <2> USE DEF Inductive
  <2>1. ASSUME NEW r \in Readers, Read(r)
        PROVE  Chan!Receive \/ UNCHANGED <<InPipe, read>>
    BY <2>1, ReceiveStep
  <2>2. ASSUME NEW w \in Writers, WriteStep(w)
        PROVE  Chan!Send
    BY <2>2, SendStep
  <2>3. CASE UNCHANGED <<data, nread, nwrite, read>>
    BY <2>3 DEF InPipe, Used
  <2>4. (\E r \in Readers : Read(r)) \/ (\E w \in Writers : WriteStep(w))
          \/ UNCHANGED <<data, nread, nwrite, read>>
    BY DEF Next, ReadStep, ReadKilled, ReadDoze, Sleep, Close, Kill, CallStep, CallRead,
           CallWrite, vars, pipevars
  <2> QED
    BY <2>1, <2>2, <2>3, <2>4
<1>3. [Chan!Send \/ Chan!Receive]_<<InPipe, read>> <=> [Chan!Send \/ Chan!Receive]_Chan!channelvars
  BY DEF Chan!channelvars, InPipe
<1>4. Chan!ChannelInit /\ [][Chan!Send \/ Chan!Receive]_Chan!channelvars => BytesInOrder
  BY DEF BytesInOrder, Chan!ChannelSpec
<1> QED
  BY <1>1, <1>2, <1>3, <1>4, InductiveInvariant, PTL DEF Spec

-----------------------------------------------------------------------------
(* The console. *)

Marks == Chars \cup Ends \cup {Erased}

(* What has been released and not read, and the line being edited: their   *)
(* lengths and their characters.                                           *)
NR == Gap(input.r, input.w)
NE == Gap(input.w, input.e)
Released == Between(input.r, input.w)
LineNow  == Between(input.w, input.e)

(* The cell of the i-th character after input.r, from 0.                   *)
Spot(i) == CellAt(Up(input.r, i))

InputTypes ==
  /\ input \in [buf : [0 .. INPUT_BUF - 1 -> Marks], r : 0 .. IndexMax - 1,
                w : 0 .. IndexMax - 1, e : 0 .. IndexMax - 1]
  /\ NR + NE <= INPUT_BUF

(* A reader in its call wants something; one that dozes has cons.lock.     *)
ReaderTypes ==
  /\ conslock \in BOOLEAN
  /\ rpc \in [TReaders -> {"idle", "call", "dozing", "asleep"}]
  /\ rkilled \in [TReaders -> BOOLEAN]
  /\ want \in [TReaders -> Nat] /\ got \in [TReaders -> Seq(Marks)]
  /\ \A p \in TReaders : rpc[p] # "idle" => want[p] >= 1
  /\ \A p \in TReaders : rpc[p] = "dozing" => conslock
  /\ \A p, q \in TReaders : rpc[p] = "dozing" /\ rpc[q] = "dozing" => p = q

ConsInductive == InputTypes /\ ReaderTypes

LEMMA ConsoleSizes ==
  /\ INPUT_BUF \in Nat \ {0} /\ IndexMax \in Nat /\ ReadMax \in Nat /\ IndexMax > INPUT_BUF
  /\ RingSizes(IndexMax, INPUT_BUF)
  /\ \A a, n : Up(a, n) = Wrapped(IndexMax, a, n)
  /\ \A a, n : CellAt(Up(a, n)) = RingCell(IndexMax, INPUT_BUF, a, n)
  /\ \A a, b : Gap(a, b) = (b + IndexMax - a) % IndexMax
BY ConsoleAssumption DEF ConsoleAssumption, RingSizes, Up, Wrapped, CellAt, RingCell, Gap

(* Indices a and b ahead of one index. *)
LEMMA IndexGaps ==
  ASSUME NEW r \in 0 .. IndexMax - 1, NEW a \in 0 .. INPUT_BUF, NEW b \in a .. INPUT_BUF
  PROVE  /\ Up(r, a) \in 0 .. IndexMax - 1
         /\ Gap(r, Up(r, a)) = a
         /\ Gap(Up(r, a), Up(r, b)) = b - a
         /\ Up(Up(r, a), b - a) = Up(r, b)
<1> USE ConsoleSizes
<1>1. a \in 0 .. IndexMax - 1 /\ b - a \in 0 .. IndexMax - 1 /\ a + (b - a) = b /\ b < IndexMax
  OBVIOUS
<1>2. Wrapped(IndexMax, r, a) \in 0 .. IndexMax - 1
  BY <1>1, WrapsRound
<1>3. Gap(r, Up(r, a)) = a
  BY <1>1, AheadAgain
<1>4. Wrapped(IndexMax, Wrapped(IndexMax, r, a), b - a) = Wrapped(IndexMax, r, b)
  <2>1. a + (b - a) < IndexMax
    BY <1>1
  <2>2. Wrapped(IndexMax, Wrapped(IndexMax, r, a), b - a) = Wrapped(IndexMax, r, a + (b - a))
    BY <1>1, <2>1, WrappedTwice
  <2> QED
    BY <2>2, <1>1
<1>5. Up(Up(r, a), b - a) = Up(r, b)
  BY <1>4
<1>6. Gap(Up(r, a), Up(r, b)) = b - a
  <2> DEFINE x == Wrapped(IndexMax, r, a)
  <2>1. x \in 0 .. IndexMax - 1 /\ Wrapped(IndexMax, x, b - a) = Up(r, b) /\ x = Up(r, a)
    BY <1>2, <1>4
  <2> HIDE DEF x
  <2>2. (Wrapped(IndexMax, x, b - a) + IndexMax - x) % IndexMax = b - a
    BY <1>1, <2>1, AheadAgain
  <2> QED
    BY <2>1, <2>2
<1> QED
  BY <1>2, <1>3, <1>5, <1>6

(* n before an index that is k ahead. *)
LEMMA IndexBack ==
  ASSUME NEW r \in 0 .. IndexMax - 1, NEW k \in 0 .. INPUT_BUF, NEW n \in 0 .. k
  PROVE  Gap(n, Up(r, k)) = Up(r, k - n)
<1> USE ConsoleSizes
<1> DEFINE x == Up(r, k - n)
<1>1. x \in 0 .. IndexMax - 1 /\ Up(x, n) = Up(r, k)
  <2>1. k - n \in 0 .. INPUT_BUF /\ k \in k - n .. INPUT_BUF /\ k - (k - n) = n
    OBVIOUS
  <2>2. Up(r, k - n) \in 0 .. IndexMax - 1 /\ Up(Up(r, k - n), k - (k - n)) = Up(r, k)
    BY <2>1, IndexGaps
  <2> QED
    BY <2>1, <2>2
<1> HIDE DEF x
<1>2. n \in 0 .. IndexMax - 1
  OBVIOUS
<1>3. /\ Up(x, n) = IF x + n < IndexMax THEN x + n ELSE x + n - IndexMax
      /\ Up(x, n) \in 0 .. IndexMax - 1
  BY <1>1, <1>2, WrapsRound
<1>4. Gap(n, Up(x, n)) = IF Up(x, n) >= n THEN Up(x, n) - n ELSE Up(x, n) + IndexMax - n
  BY <1>2, <1>3, AheadBy
<1>5. Gap(n, Up(x, n)) = x
  BY <1>1, <1>2, <1>3, <1>4
<1> QED
  BY <1>1, <1>5 DEF x

(* What stands where. *)
LEMMA InputView ==
  ASSUME InputTypes
  PROVE  /\ NR \in 0 .. INPUT_BUF /\ NE \in 0 .. INPUT_BUF
         /\ input.r \in 0 .. IndexMax - 1
         /\ input.w = Up(input.r, NR) /\ input.e = Up(input.r, NR + NE)
         /\ Gap(input.r, input.e) = NR + NE
         /\ \A i \in 0 .. INPUT_BUF - 1 : Spot(i) \in 0 .. INPUT_BUF - 1
         /\ \A i, j \in 0 .. INPUT_BUF - 1 : Spot(i) = Spot(j) => i = j
<1> USE ConsoleSizes
<1> DEFINE r == input.r
           w == input.w
           e == input.e
<1>1. r \in 0 .. IndexMax - 1 /\ w \in 0 .. IndexMax - 1 /\ e \in 0 .. IndexMax - 1
  BY DEF InputTypes
<1> HIDE DEF r, w, e
<1>2. /\ Gap(r, w) = IF w >= r THEN w - r ELSE w + IndexMax - r
      /\ Gap(w, e) = IF e >= w THEN e - w ELSE e + IndexMax - w
  BY <1>1, AheadBy
<1>3. Gap(r, w) \in 0 .. IndexMax - 1 /\ Gap(w, e) \in 0 .. IndexMax - 1
  BY <1>1, <1>2
<1>4. Gap(r, w) + Gap(w, e) <= INPUT_BUF
  BY DEF InputTypes, NR, NE, r, w, e
<1>5. Gap(r, w) + Gap(w, e) \in 0 .. IndexMax - 1
  BY <1>3, <1>4
<1>6. /\ Up(r, Gap(r, w)) = IF r + Gap(r, w) < IndexMax THEN r + Gap(r, w) ELSE r + Gap(r, w) - IndexMax
      /\ Up(r, Gap(r, w) + Gap(w, e)) =
           IF r + (Gap(r, w) + Gap(w, e)) < IndexMax THEN r + (Gap(r, w) + Gap(w, e))
           ELSE r + (Gap(r, w) + Gap(w, e)) - IndexMax
  BY <1>1, <1>3, <1>5, WrapsRound
<1>7. w = Up(r, Gap(r, w))
  BY <1>1, <1>2, <1>6
<1>8. e = Up(r, Gap(r, w) + Gap(w, e))
  <2> DEFINE x == Gap(r, w)
             y == Gap(w, e)
  <2>1. /\ x = IF w >= r THEN w - r ELSE w + IndexMax - r
        /\ y = IF e >= w THEN e - w ELSE e + IndexMax - w
        /\ x + y \in 0 .. IndexMax - 1
        /\ Up(r, x + y) = IF r + (x + y) < IndexMax THEN r + (x + y) ELSE r + (x + y) - IndexMax
    BY <1>2, <1>5, <1>6
  <2> HIDE DEF x, y
  <2>2. e = Up(r, x + y)
    BY <1>1, <2>1
  <2> QED
    BY <2>2 DEF x, y
<1>9. Gap(r, e) = Gap(r, w) + Gap(w, e)
  BY <1>1, <1>5, <1>8, AheadAgain
<1>10. \A i \in 0 .. INPUT_BUF - 1 : Spot(i) = (r + i) % INPUT_BUF /\ Spot(i) \in 0 .. INPUT_BUF - 1
  BY <1>1, WrappedCell DEF Spot, r
<1>11. \A i, j \in 0 .. INPUT_BUF - 1 : Spot(i) = Spot(j) => i = j
  <2> TAKE i, j \in 0 .. INPUT_BUF - 1
  <2>1. r \in Int /\ INPUT_BUF \in Nat \ {0}
    BY <1>1
  <2> QED
    BY <1>10, <2>1, RowDiffers, ZenonT(60)
<1> QED
  BY <1>1, <1>3, <1>4, <1>7, <1>8, <1>9, <1>10, <1>11 DEF NR, NE, r, w, e

LEMMA TextView ==
  ASSUME InputTypes
  PROVE  /\ Released \in Seq(Marks) /\ Len(Released) = NR
         /\ \A i \in 1 .. NR : Released[i] = input.buf[Spot(i - 1)]
         /\ LineNow \in Seq(Marks) /\ Len(LineNow) = NE
         /\ \A i \in 1 .. NE : LineNow[i] = input.buf[Spot(NR + (i - 1))]
<1> USE ConsoleSizes
<1>1. /\ NR \in Nat /\ NE \in Nat /\ NR + NE <= INPUT_BUF
      /\ input.r \in 0 .. IndexMax - 1 /\ input.w = Up(input.r, NR)
      /\ input.buf \in [0 .. INPUT_BUF - 1 -> Marks]
      /\ \A i \in 0 .. INPUT_BUF - 1 : Spot(i) \in 0 .. INPUT_BUF - 1
  <2>1. NR \in 0 .. INPUT_BUF /\ NE \in 0 .. INPUT_BUF /\ NR + NE <= INPUT_BUF
    BY InputView DEF InputTypes
  <2>2. input.buf \in [0 .. INPUT_BUF - 1 -> Marks]
    BY DEF InputTypes
  <2> QED
    BY <2>1, <2>2, InputView
<1>2. /\ Released = [k \in 1 .. NR |-> input.buf[Spot(k - 1)]]
      /\ LineNow = [k \in 1 .. NE |-> input.buf[CellAt(Up(input.w, k - 1))]]
  BY DEF Released, LineNow, Between, NR, NE, Spot
<1>3. \A k \in 1 .. NE : CellAt(Up(input.w, k - 1)) = Spot(NR + (k - 1))
  <2> TAKE k \in 1 .. NE
  <2>1. k - 1 \in Int /\ NR \in Int /\ input.r \in Int
    BY <1>1
  <2>2. RingCell(IndexMax, INPUT_BUF, Wrapped(IndexMax, input.r, NR), k - 1)
          = RingCell(IndexMax, INPUT_BUF, input.r, NR + (k - 1))
    BY <2>1, CellsOn
  <2> QED
    BY <1>1, <2>2 DEF Spot
<1>4. \A k \in 1 .. NR : k - 1 \in 0 .. INPUT_BUF - 1
  BY <1>1
<1>5. \A k \in 1 .. NE : NR + (k - 1) \in 0 .. INPUT_BUF - 1
  BY <1>1
<1>6. Released \in [1 .. NR -> Marks] /\ LineNow \in [1 .. NE -> Marks]
  <2>1. \A k \in 1 .. NR : input.buf[Spot(k - 1)] \in Marks
    BY <1>1, <1>4
  <2>2. \A k \in 1 .. NE : input.buf[Spot(NR + (k - 1))] \in Marks
    BY <1>1, <1>5
  <2> QED
    BY <2>1, <2>2, <1>2, <1>3
<1>7. Released \in Seq(Marks) /\ Len(Released) = NR /\ LineNow \in Seq(Marks) /\ Len(LineNow) = NE
  <2>1. NR \in Nat /\ NE \in Nat
    BY <1>1
  <2>2. Released \in Seq(Marks) /\ LineNow \in Seq(Marks)
    BY <2>1, <1>6, SeqDef
  <2> QED
    BY <2>1, <2>2, <1>6
<1> QED
  BY <1>2, <1>3, <1>7

(* The input of the next state, told by how far w and e are ahead of r.    *)
LEMMA InputNext ==
  ASSUME NEW B \in [0 .. INPUT_BUF - 1 -> Marks], NEW r \in 0 .. IndexMax - 1,
         NEW a \in 0 .. INPUT_BUF, NEW b \in a .. INPUT_BUF,
         input' = [buf |-> B, r |-> r, w |-> Up(r, a), e |-> Up(r, b)]
  PROVE  InputTypes' /\ NR' = a /\ NE' = b - a
<1> USE ConsoleSizes
<1>1. b \in 0 .. INPUT_BUF /\ a + (b - a) = b /\ b \in b .. INPUT_BUF /\ b <= INPUT_BUF
  OBVIOUS
<1>2. /\ Up(r, a) \in 0 .. IndexMax - 1 /\ Up(r, b) \in 0 .. IndexMax - 1
      /\ Gap(r, Up(r, a)) = a /\ Gap(Up(r, a), Up(r, b)) = b - a
  BY <1>1, IndexGaps
<1>3. NR' = a /\ NE' = b - a
  BY <1>2 DEF NR, NE
<1>4. input' \in [buf : [0 .. INPUT_BUF - 1 -> Marks], r : 0 .. IndexMax - 1,
                  w : 0 .. IndexMax - 1, e : 0 .. IndexMax - 1]
  BY <1>2
<1> QED
  BY <1>1, <1>3, <1>4 DEF InputTypes

(* The texts of the next state. *)
LEMMA TextNext ==
  ASSUME InputTypes'
  PROVE  /\ Released' \in Seq(Marks) /\ Len(Released') = NR'
         /\ \A i \in 1 .. NR' : Released'[i] = input'.buf[CellAt(Up(input'.r, i - 1))]
         /\ LineNow' \in Seq(Marks) /\ Len(LineNow') = NE'
         /\ \A i \in 1 .. NE' : LineNow'[i] = input'.buf[CellAt(Up(input'.r, NR' + (i - 1)))]
<1>1. (InputTypes => /\ Released \in Seq(Marks) /\ Len(Released) = NR
                     /\ \A i \in 1 .. NR : Released[i] = input.buf[Spot(i - 1)]
                     /\ LineNow \in Seq(Marks) /\ Len(LineNow) = NE
                     /\ \A i \in 1 .. NE : LineNow[i] = input.buf[Spot(NR + (i - 1))])'
  BY TextView, PTL
<1> QED
  BY <1>1 DEF Spot

(* Marks that are cleared, and those that are not. *)
LEMMA ClearedCells ==
  ASSUME InputTypes, NEW j \in 0 .. INPUT_BUF, NEW n \in 0 .. INPUT_BUF - j
  PROVE  LET B == Cleared(CellsFrom(Up(input.r, j), n)) IN
         /\ B \in [0 .. INPUT_BUF - 1 -> Marks]
         /\ \A i \in 0 .. INPUT_BUF - 1 : (i < j \/ i >= j + n) => B[Spot(i)] = input.buf[Spot(i)]
<1> USE ConsoleSizes
<1> DEFINE C == CellsFrom(Up(input.r, j), n)
           B == Cleared(C)
<1>1. /\ input.buf \in [0 .. INPUT_BUF - 1 -> Marks] /\ input.r \in Int
      /\ \A i \in 0 .. INPUT_BUF - 1 : Spot(i) \in 0 .. INPUT_BUF - 1
      /\ \A i, k \in 0 .. INPUT_BUF - 1 : Spot(i) = Spot(k) => i = k
  <2>1. /\ input.r \in 0 .. IndexMax - 1
        /\ \A i \in 0 .. INPUT_BUF - 1 : Spot(i) \in 0 .. INPUT_BUF - 1
        /\ \A i, k \in 0 .. INPUT_BUF - 1 : Spot(i) = Spot(k) => i = k
    BY InputView
  <2>2. input.buf \in [0 .. INPUT_BUF - 1 -> Marks]
    BY DEF InputTypes
  <2> QED
    BY <2>1, <2>2
<1>2. B = [i \in 0 .. INPUT_BUF - 1 |-> IF i \in C THEN Erased ELSE input.buf[i]]
  BY <1>1 DEF Cleared
<1>3. \A c \in C : \E k \in 0 .. n - 1 : c = Spot(j + k)
  <2> TAKE c \in C
  <2>1. PICK k \in 0 .. n - 1 : c = CellAt(Up(Up(input.r, j), k))
    BY DEF CellsFrom
  <2>2. RingCell(IndexMax, INPUT_BUF, Wrapped(IndexMax, input.r, j), k)
          = RingCell(IndexMax, INPUT_BUF, input.r, j + k)
    BY <1>1, CellsOn
  <2> QED
    BY <2>1, <2>2 DEF Spot
<1>4. Erased \in Marks
  BY DEF Marks
<1> HIDE DEF C
<1>5. B \in [0 .. INPUT_BUF - 1 -> Marks]
  BY <1>1, <1>2, <1>4
<1>6. ASSUME NEW i \in 0 .. INPUT_BUF - 1, i < j \/ i >= j + n
      PROVE  B[Spot(i)] = input.buf[Spot(i)]
  <2>1. Spot(i) \notin C
    <3>1. ASSUME NEW k \in 0 .. n - 1, Spot(i) = Spot(j + k) PROVE FALSE
      <4>1. j + k \in 0 .. INPUT_BUF - 1 /\ i # j + k
        BY <1>6
      <4> QED
        BY <4>1, <3>1, <1>1
    <3> QED
      BY <3>1, <1>3
  <2> QED
    BY <2>1, <1>1, <1>2
<1> QED
  BY <1>5, <1>6 DEF C

(* r, w and e move to counts k, a and b from where r was, over cells B, and *)
(* the texts that are then read there.                                     *)
Moves(B, k, a, b) ==
  input' = [buf |-> B, r |-> Up(input.r, k), w |-> Up(input.r, a), e |-> Up(input.r, b)]

Reads(B, k, a, b) ==
  /\ InputTypes'
  /\ Released' \in Seq(Marks) /\ Len(Released') = a - k
  /\ \A i \in 1 .. a - k : Released'[i] = B[Spot(k + (i - 1))]
  /\ LineNow' \in Seq(Marks) /\ Len(LineNow') = b - a
  /\ \A i \in 1 .. b - a : LineNow'[i] = B[Spot(a + (i - 1))]

LEMMA NewTexts ==
  ASSUME InputTypes, NEW B \in [0 .. INPUT_BUF - 1 -> Marks],
         NEW k \in 0 .. INPUT_BUF, NEW a \in k .. INPUT_BUF, NEW b \in a .. INPUT_BUF,
         Moves(B, k, a, b)
  PROVE  Reads(B, k, a, b)
<1> USE DEF Moves, Reads
<1> USE ConsoleSizes
<1> DEFINE r == input.r
           s == Up(r, k)
<1>1. r \in 0 .. IndexMax - 1
  BY InputView
<1>2. /\ a \in 0 .. INPUT_BUF /\ b \in k .. INPUT_BUF
      /\ a - k \in 0 .. INPUT_BUF /\ b - k \in a - k .. INPUT_BUF /\ (b - k) - (a - k) = b - a
      /\ k \in Int /\ a \in Int /\ r \in Int
  BY <1>1
<1>3. s \in 0 .. IndexMax - 1 /\ Up(s, a - k) = Up(r, a) /\ Up(s, b - k) = Up(r, b)
  BY <1>1, <1>2, IndexGaps
<1> HIDE DEF r
<1>4. \A j \in Int : CellAt(Up(s, j)) = Spot(k + j)
  <2> TAKE j \in Int
  <2>1. RingCell(IndexMax, INPUT_BUF, Wrapped(IndexMax, r, k), j)
          = RingCell(IndexMax, INPUT_BUF, r, k + j)
    BY <1>2, CellsOn
  <2> QED
    BY <2>1 DEF Spot, r
<1>5. input' = [buf |-> B, r |-> s, w |-> Up(s, a - k), e |-> Up(s, b - k)]
  BY <1>3 DEF r
<1> HIDE DEF s
<1>6. InputTypes' /\ NR' = a - k /\ NE' = b - a
  BY <1>2, <1>3, <1>5, InputNext
<1>7. /\ Released' \in Seq(Marks) /\ Len(Released') = a - k
      /\ \A i \in 1 .. a - k : Released'[i] = B[CellAt(Up(s, i - 1))]
      /\ LineNow' \in Seq(Marks) /\ Len(LineNow') = b - a
      /\ \A i \in 1 .. b - a : LineNow'[i] = B[CellAt(Up(s, (a - k) + (i - 1)))]
  <2>1. input'.r = s /\ input'.buf = B /\ InputTypes'
    BY <1>5, <1>6
  <2> QED
    BY <2>1, <1>6, TextNext
<1>8. \A i \in 1 .. a - k : CellAt(Up(s, i - 1)) = Spot(k + (i - 1))
  BY <1>4
<1>9. \A i \in 1 .. b - a : CellAt(Up(s, (a - k) + (i - 1))) = Spot(a + (i - 1))
  <2> TAKE i \in 1 .. b - a
  <2>1. (a - k) + (i - 1) \in Int /\ k + ((a - k) + (i - 1)) = a + (i - 1)
    BY <1>2
  <2> QED
    BY <2>1, <1>4
<1> QED
  BY <1>6, <1>7, <1>8, <1>9

LEMMA PutText ==
  ASSUME InputTypes, NEW c \in Chars \cup Ends, PutChar(c)
  PROVE  /\ InputTypes' /\ NR + NE < INPUT_BUF
         /\ Completes(c) <=> c \in Ends \/ NR + (NE + 1) = INPUT_BUF
         /\ Completes(c) => LineNow' = << >> /\ Released' = Released \o Append(LineNow, c)
         /\ ~Completes(c) => LineNow' = Append(LineNow, c) /\ Released' = Released
<1> USE ConsoleSizes
<1> DEFINE k == NR + NE
           r == input.r
           B == [input.buf EXCEPT ![Spot(k)] = c]
           a == IF Completes(c) THEN k + 1 ELSE NR
<1>1. /\ NR \in 0 .. INPUT_BUF /\ NE \in 0 .. INPUT_BUF /\ r \in 0 .. IndexMax - 1
      /\ input.w = Up(r, NR) /\ input.e = Up(r, k) /\ Gap(r, input.e) = k
      /\ \A i \in 0 .. INPUT_BUF - 1 : Spot(i) \in 0 .. INPUT_BUF - 1
      /\ \A i, j \in 0 .. INPUT_BUF - 1 : Spot(i) = Spot(j) => i = j
  BY InputView
<1>2. k \in 0 .. INPUT_BUF - 1
  BY <1>1 DEF PutChar
<1>3. k + 1 \in k .. INPUT_BUF /\ k + 1 \in 0 .. INPUT_BUF /\ k \in 0 .. INPUT_BUF /\ (k + 1) - k = 1
  BY <1>1, <1>2
<1>4. Up(input.e, 1) = Up(r, k + 1) /\ CellAt(input.e) = Spot(k)
  <2>1. Up(Up(r, k), (k + 1) - k) = Up(r, k + 1)
    BY <1>1, <1>3, IndexGaps
  <2> QED
    BY <2>1, <1>1, <1>3 DEF Spot
<1>5. Completes(c) <=> c \in Ends \/ k + 1 = INPUT_BUF
  <2>1. Gap(r, Up(r, k + 1)) = k + 1 /\ Gap(r, Up(r, INPUT_BUF)) = INPUT_BUF
    <3>1. INPUT_BUF \in 0 .. INPUT_BUF /\ INPUT_BUF \in INPUT_BUF .. INPUT_BUF /\ k + 1 \in k + 1 .. INPUT_BUF
      BY <1>3
    <3> QED
      BY <3>1, <1>1, <1>3, IndexGaps
  <2> QED
    BY <2>1, <1>4 DEF Completes
<1>6. input' = [buf |-> B, r |-> Up(r, 0), w |-> Up(r, a), e |-> Up(r, k + 1)]
  <2>1. Up(r, 0) = r
    <3>1. 0 \in 0 .. IndexMax - 1 /\ r + 0 < IndexMax /\ r + 0 = r
      BY <1>1
    <3>2. Wrapped(IndexMax, r, 0) = IF r + 0 < IndexMax THEN r + 0 ELSE r + 0 - IndexMax
      BY <1>1, <3>1, WrapsRound
    <3> QED
      BY <3>1, <3>2
  <2> QED
    BY <2>1, <1>1, <1>4 DEF PutChar, InputTypes
<1>7. B \in [0 .. INPUT_BUF - 1 -> Marks]
  BY <1>1, <1>2 DEF InputTypes, Marks
<1>8. a \in 0 .. INPUT_BUF /\ k + 1 \in a .. INPUT_BUF /\ a - 0 = a /\ 0 \in 0 .. INPUT_BUF
  BY <1>1, <1>3
<1>9. ASSUME NEW i \in 0 .. k PROVE B[Spot(i)] = IF i = k THEN c ELSE input.buf[Spot(i)]
  <2>1. input.buf \in [0 .. INPUT_BUF - 1 -> Marks]
    BY DEF InputTypes
  <2>2. i \in 0 .. INPUT_BUF - 1 /\ k \in 0 .. INPUT_BUF - 1
    BY <1>2
  <2>3. Spot(i) \in 0 .. INPUT_BUF - 1 /\ (Spot(i) = Spot(k) <=> i = k)
    BY <2>2, <1>1
  <2> HIDE DEF k
  <2> QED
    BY <2>1, <2>3
<1> HIDE DEF a, B
<1>11. /\ InputTypes'
       /\ Released' \in Seq(Marks) /\ Len(Released') = a
       /\ \A i \in 1 .. a : Released'[i] = B[Spot(0 + (i - 1))]
       /\ LineNow' \in Seq(Marks) /\ Len(LineNow') = (k + 1) - a
       /\ \A i \in 1 .. (k + 1) - a : LineNow'[i] = B[Spot(a + (i - 1))]
  <2> HIDE DEF k
  <2>1. PICK O, A, E, C : O = 0 /\ A = a /\ E = k + 1 /\ C = B
    OBVIOUS
  <2>2. /\ C \in [0 .. INPUT_BUF - 1 -> Marks]
        /\ O \in 0 .. INPUT_BUF /\ A \in O .. INPUT_BUF /\ E \in A .. INPUT_BUF
        /\ Moves(C, O, A, E)
    BY <2>1, <1>6, <1>7, <1>8 DEF Moves
  <2>3. Reads(C, O, A, E)
    BY <2>2, NewTexts
  <2> QED
    BY <2>1, <2>3, <1>8 DEF Reads
<1>12. /\ Released \in Seq(Marks) /\ Len(Released) = NR
       /\ \A i \in 1 .. NR : Released[i] = input.buf[Spot(i - 1)]
       /\ LineNow \in Seq(Marks) /\ Len(LineNow) = NE
       /\ \A i \in 1 .. NE : LineNow[i] = input.buf[Spot(NR + (i - 1))]
  BY TextView
<1>13. /\ Append(LineNow, c) \in Seq(Marks) /\ Len(Append(LineNow, c)) = NE + 1
       /\ \A i \in 1 .. NE : Append(LineNow, c)[i] = LineNow[i]
       /\ Append(LineNow, c)[NE + 1] = c
  BY <1>12, AppendProperties DEF Marks
<1>14. ASSUME NEW i \in 1 .. NE + 1 PROVE Append(LineNow, c)[i] = B[Spot(NR + (i - 1))]
  <2>1. NR + (i - 1) \in 0 .. k /\ (NR + (i - 1) = k <=> i = NE + 1)
    BY <1>1
  <2>2. B[Spot(NR + (i - 1))] = IF i = NE + 1 THEN c ELSE input.buf[Spot(NR + (i - 1))]
    BY <2>1, <1>9
  <2>3. i # NE + 1 => i \in 1 .. NE
    BY <1>1
  <2> QED
    BY <2>2, <2>3, <1>12, <1>13
<1>15. CASE Completes(c)
  <2>1. a = NR + (NE + 1) /\ (k + 1) - a = 0
    BY <1>15, <1>1, <1>3 DEF a
  <2>2. LineNow' = << >>
    BY <2>1, <1>11, EmptySeq
  <2> DEFINE s == Append(LineNow, c)
             t == Released \o s
  <2>3. /\ t \in Seq(Marks) /\ Len(t) = NR + (NE + 1)
        /\ \A i \in 1 .. NR : t[i] = Released[i]
        /\ \A i \in 1 .. NE + 1 : t[NR + i] = s[i]
    <3>1. Released \in Seq(Marks) /\ s \in Seq(Marks) /\ Len(Released) = NR /\ Len(s) = NE + 1
      BY <1>12, <1>13
    <3> HIDE DEF s
    <3>2. /\ t \in Seq(Marks) /\ Len(t) = Len(Released) + Len(s)
          /\ \A i \in 1 .. Len(Released) + Len(s) :
               t[i] = IF i <= Len(Released) THEN Released[i] ELSE s[i - Len(Released)]
      BY <3>1, ConcatProperties, Zenon
    <3>3. \A i \in 1 .. NR : t[i] = Released[i]
      <4> TAKE i \in 1 .. NR
      <4>1. i \in 1 .. NR + (NE + 1) /\ i <= NR
        BY <1>1
      <4> HIDE DEF t
      <4> QED
        BY <4>1, <3>1, <3>2
    <3>4. \A i \in 1 .. NE + 1 : t[NR + i] = s[i]
      <4> TAKE i \in 1 .. NE + 1
      <4>1. NR + i \in 1 .. NR + (NE + 1) /\ ~ (NR + i <= NR) /\ (NR + i) - NR = i
        BY <1>1
      <4> HIDE DEF t
      <4> QED
        BY <4>1, <3>1, <3>2
    <3> QED
      BY <3>1, <3>2, <3>3, <3>4
  <2> HIDE DEF t
  <2>4. ASSUME NEW i \in 1 .. NR + (NE + 1) PROVE Released'[i] = t[i]
    <3>1. Released'[i] = B[Spot(i - 1)]
      <4>1. 0 + (i - 1) = i - 1
        OBVIOUS
      <4> QED
        BY <4>1, <2>1, <1>11
    <3>2. CASE i <= NR
      <4>1. i \in 1 .. NR /\ i - 1 \in 0 .. k /\ i - 1 # k
        BY <3>2, <1>1
      <4>2. B[Spot(i - 1)] = input.buf[Spot(i - 1)]
        BY <4>1, <1>9
      <4> QED
        BY <4>1, <4>2, <3>1, <2>3, <1>12
    <3>3. CASE i > NR
      <4>1. PICK j \in 1 .. NE + 1 : i = NR + j /\ NR + (j - 1) = i - 1
        <5>1. i - NR \in 1 .. NE + 1 /\ i = NR + (i - NR) /\ NR + ((i - NR) - 1) = i - 1
          BY <3>3, <1>1
        <5> QED
          BY <5>1
      <4>2. s[j] = B[Spot(NR + (j - 1))]
        BY <1>14
      <4>3. t[NR + j] = s[j]
        BY <2>3
      <4> QED
        BY <4>1, <4>2, <4>3, <3>1
    <3> QED
      BY <3>2, <3>3, <1>1
  <2>5. Released' = t
    BY <2>1, <2>3, <2>4, <1>11, SeqEqual
  <2>6. (k + 1 = INPUT_BUF) <=> (NR + (NE + 1) = INPUT_BUF)
    BY <1>1
  <2> QED
    BY <2>2, <2>5, <2>6, <1>2, <1>5, <1>11, <1>15 DEF t
<1>16. CASE ~Completes(c)
  <2>1. a = NR /\ (k + 1) - a = NE + 1
    BY <1>16, <1>1 DEF a
  <2>2. LineNow' = Append(LineNow, c)
    <3> DEFINE s == Append(LineNow, c)
    <3>1. s \in Seq(Marks) /\ Len(s) = NE + 1 /\ \A i \in 1 .. NE + 1 : s[i] = B[Spot(NR + (i - 1))]
      BY <1>13, <1>14
    <3>2. /\ LineNow' \in Seq(Marks) /\ Len(LineNow') = NE + 1
          /\ \A i \in 1 .. NE + 1 : LineNow'[i] = B[Spot(NR + (i - 1))]
      BY <2>1, <1>11
    <3> HIDE DEF s
    <3>3. LineNow' = s
      BY <3>1, <3>2, SeqEqual
    <3> QED
      BY <3>3 DEF s
  <2>3. ASSUME NEW i \in 1 .. NR PROVE Released'[i] = Released[i]
    <3>1. i - 1 \in 0 .. k /\ i - 1 # k /\ 0 + (i - 1) = i - 1
      BY <1>1
    <3>2. B[Spot(i - 1)] = input.buf[Spot(i - 1)]
      BY <3>1, <1>9
    <3> QED
      BY <3>1, <3>2, <2>1, <1>11, <1>12
  <2>4. Released' = Released
    BY <2>1, <2>3, <1>11, <1>12, SeqEqual
  <2>5. (k + 1 = INPUT_BUF) <=> (NR + (NE + 1) = INPUT_BUF)
    BY <1>1
  <2> QED
    BY <2>2, <2>4, <2>5, <1>2, <1>5, <1>11, <1>16
<1> QED
  BY <1>15, <1>16

(* n characters are erased: the line gets shorter. *)
LEMMA BackText ==
  ASSUME InputTypes, NEW n \in 1 .. NE, Back(n)
  PROVE  InputTypes' /\ Released' = Released /\ LineNow' = SubSeq(LineNow, 1, NE - n)
<1> USE ConsoleSizes
<1> DEFINE r == input.r
           b == (NR + NE) - n
           B == Cleared(CellsFrom(Up(r, b), n))
<1>1. /\ NR \in 0 .. INPUT_BUF /\ NE \in 0 .. INPUT_BUF /\ r \in 0 .. IndexMax - 1
      /\ input.w = Up(r, NR) /\ input.e = Up(r, NR + NE) /\ NR + NE <= INPUT_BUF
  BY InputView DEF InputTypes
<1>2. /\ b \in 0 .. INPUT_BUF /\ n \in 0 .. INPUT_BUF - b /\ b \in NR .. INPUT_BUF
      /\ NR \in 0 .. INPUT_BUF /\ 0 \in 0 .. INPUT_BUF /\ NR + NE \in 0 .. INPUT_BUF
      /\ n \in 0 .. NR + NE
  BY <1>1
<1>3. Gap(n, input.e) = Up(r, b)
  BY <1>1, <1>2, IndexBack
<1>4. Up(r, 0) = r
  <2>1. 0 \in 0 .. IndexMax - 1 /\ r + 0 < IndexMax /\ r + 0 = r
    BY <1>1
  <2>2. Wrapped(IndexMax, r, 0) = IF r + 0 < IndexMax THEN r + 0 ELSE r + 0 - IndexMax
    BY <1>1, <2>1, WrapsRound
  <2> QED
    BY <2>1, <2>2
<1>5. Moves(B, 0, NR, b)
  BY <1>1, <1>3, <1>4 DEF Moves, Back, InputTypes
<1>6. /\ B \in [0 .. INPUT_BUF - 1 -> Marks]
      /\ \A i \in 0 .. INPUT_BUF - 1 : (i < b \/ i >= b + n) => B[Spot(i)] = input.buf[Spot(i)]
  <2> HIDE DEF b
  <2>1. PICK j, m : j = b /\ m = n
    OBVIOUS
  <2>2. j \in 0 .. INPUT_BUF /\ m \in 0 .. INPUT_BUF - j
    BY <2>1, <1>2
  <2>3. LET D == Cleared(CellsFrom(Up(input.r, j), m)) IN
        /\ D \in [0 .. INPUT_BUF - 1 -> Marks]
        /\ \A i \in 0 .. INPUT_BUF - 1 : (i < j \/ i >= j + m) => D[Spot(i)] = input.buf[Spot(i)]
    BY <2>2, ClearedCells
  <2> QED
    BY <2>1, <2>3
<1> HIDE DEF B
<1>7. Reads(B, 0, NR, b)
  <2> HIDE DEF b
  <2>1. PICK O, A, E, C : O = 0 /\ A = NR /\ E = b /\ C = B
    OBVIOUS
  <2>2. /\ C \in [0 .. INPUT_BUF - 1 -> Marks]
        /\ O \in 0 .. INPUT_BUF /\ A \in O .. INPUT_BUF /\ E \in A .. INPUT_BUF
        /\ Moves(C, O, A, E)
    BY <2>1, <1>2, <1>5, <1>6
  <2>3. Reads(C, O, A, E)
    BY <2>2, NewTexts
  <2> QED
    BY <2>1, <2>3
<1>8. b - NR = NE - n /\ NE - n \in 0 .. NE /\ NR - 0 = NR
  BY <1>1
<1>9. /\ InputTypes'
      /\ Released' \in Seq(Marks) /\ Len(Released') = NR
      /\ \A i \in 1 .. NR : Released'[i] = B[Spot(0 + (i - 1))]
      /\ LineNow' \in Seq(Marks) /\ Len(LineNow') = NE - n
      /\ \A i \in 1 .. NE - n : LineNow'[i] = B[Spot(NR + (i - 1))]
  <2> HIDE DEF b
  <2> QED
    BY <1>7, <1>8 DEF Reads
<1>10. /\ Released \in Seq(Marks) /\ Len(Released) = NR
       /\ \A i \in 1 .. NR : Released[i] = input.buf[Spot(i - 1)]
       /\ LineNow \in Seq(Marks) /\ Len(LineNow) = NE
       /\ \A i \in 1 .. NE : LineNow[i] = input.buf[Spot(NR + (i - 1))]
  BY TextView
<1>11. ASSUME NEW i \in 1 .. NR PROVE Released'[i] = Released[i]
  <2>1. i - 1 \in 0 .. INPUT_BUF - 1 /\ i - 1 < b /\ 0 + (i - 1) = i - 1
    BY <1>1, <1>2
  <2>2. B[Spot(i - 1)] = input.buf[Spot(i - 1)]
    BY <2>1, <1>6
  <2> QED
    BY <2>1, <2>2, <1>9, <1>10
<1>12. Released' = Released
  BY <1>9, <1>10, <1>11, SeqEqual
<1> DEFINE t == SubSeq(LineNow, 1, NE - n)
<1>13. t \in Seq(Marks) /\ Len(t) = NE - n /\ \A i \in 1 .. NE - n : t[i] = LineNow[i]
  <2> DEFINE m == NE - n
  <2>1. m \in 0 .. NE /\ 1 \in 1 .. NE + 1 /\ m \in 0 .. Len(LineNow)
    BY <1>1, <1>8, <1>10
  <2> HIDE DEF m
  <2>2. /\ SubSeq(LineNow, 1, m) \in Seq(Marks)
        /\ Len(SubSeq(LineNow, 1, m)) = m
        /\ \A i \in 1 .. m : SubSeq(LineNow, 1, m)[i] = LineNow[i]
    BY <2>1, <1>1, <1>10
  <2> QED
    BY <2>2 DEF m
<1> HIDE DEF t
<1>14. ASSUME NEW i \in 1 .. NE - n PROVE LineNow'[i] = t[i]
  <2>1. i \in 1 .. NE /\ NR + (i - 1) \in 0 .. INPUT_BUF - 1 /\ NR + (i - 1) < b
    BY <1>1
  <2>2. B[Spot(NR + (i - 1))] = input.buf[Spot(NR + (i - 1))]
    BY <2>1, <1>6
  <2> QED
    BY <2>1, <2>2, <1>9, <1>10, <1>13
<1>15. LineNow' = t
  BY <1>9, <1>13, <1>14, SeqEqual
<1> QED
  BY <1>9, <1>12, <1>15 DEF t

(* k characters are consumed: what is released loses its first k. *)
Consumes(k) ==
  input' = [input EXCEPT !.r = Up(@, k), !.buf = Cleared(CellsFrom(input.r, k))]

LEMMA TakeText ==
  ASSUME InputTypes, NEW k \in 0 .. NR, Consumes(k)
  PROVE  InputTypes' /\ LineNow' = LineNow /\ Released' = SubSeq(Released, k + 1, NR)
<1> USE ConsoleSizes
<1> DEFINE r == input.r
           B == Cleared(CellsFrom(r, k))
<1>1. /\ NR \in 0 .. INPUT_BUF /\ NE \in 0 .. INPUT_BUF /\ r \in 0 .. IndexMax - 1
      /\ input.w = Up(r, NR) /\ input.e = Up(r, NR + NE) /\ NR + NE <= INPUT_BUF
  BY InputView DEF InputTypes
<1>2. /\ k \in 0 .. INPUT_BUF /\ 0 \in 0 .. INPUT_BUF /\ k \in 0 .. INPUT_BUF - 0
      /\ NR \in k .. INPUT_BUF /\ NR + NE \in NR .. INPUT_BUF
  BY <1>1
<1>3. Up(r, 0) = r
  <2>1. 0 \in 0 .. IndexMax - 1 /\ r + 0 < IndexMax /\ r + 0 = r
    BY <1>1
  <2>2. Wrapped(IndexMax, r, 0) = IF r + 0 < IndexMax THEN r + 0 ELSE r + 0 - IndexMax
    BY <1>1, <2>1, WrapsRound
  <2> QED
    BY <2>1, <2>2
<1>4. Moves(B, k, NR, NR + NE)
  BY <1>1 DEF Moves, Consumes, InputTypes
<1>5. /\ B \in [0 .. INPUT_BUF - 1 -> Marks]
      /\ \A i \in 0 .. INPUT_BUF - 1 : i >= k => B[Spot(i)] = input.buf[Spot(i)]
  <2>1. PICK j : j = 0
    OBVIOUS
  <2>2. j \in 0 .. INPUT_BUF /\ k \in 0 .. INPUT_BUF - j
    BY <2>1, <1>2
  <2>3. LET D == Cleared(CellsFrom(Up(input.r, j), k)) IN
        /\ D \in [0 .. INPUT_BUF - 1 -> Marks]
        /\ \A i \in 0 .. INPUT_BUF - 1 : (i < j \/ i >= j + k) => D[Spot(i)] = input.buf[Spot(i)]
    BY <2>2, ClearedCells
  <2>4. Up(input.r, j) = input.r /\ j + k = k
    BY <2>1, <1>2, <1>3
  <2> QED
    BY <2>3, <2>4
<1> HIDE DEF B
<1>6. Reads(B, k, NR, NR + NE)
  <2>1. PICK A, E, C : A = NR /\ E = NR + NE /\ C = B
    OBVIOUS
  <2>2. /\ C \in [0 .. INPUT_BUF - 1 -> Marks]
        /\ k \in 0 .. INPUT_BUF /\ A \in k .. INPUT_BUF /\ E \in A .. INPUT_BUF
        /\ Moves(C, k, A, E)
    BY <2>1, <1>2, <1>4, <1>5
  <2>3. Reads(C, k, A, E)
    BY <2>2, NewTexts
  <2> QED
    BY <2>1, <2>3
<1>7. (NR + NE) - NR = NE /\ NR - k \in 0 .. NR
  BY <1>1
<1>8. /\ InputTypes'
      /\ Released' \in Seq(Marks) /\ Len(Released') = NR - k
      /\ \A i \in 1 .. NR - k : Released'[i] = B[Spot(k + (i - 1))]
      /\ LineNow' \in Seq(Marks) /\ Len(LineNow') = NE
      /\ \A i \in 1 .. NE : LineNow'[i] = B[Spot(NR + (i - 1))]
  BY <1>6, <1>7 DEF Reads
<1>9. /\ Released \in Seq(Marks) /\ Len(Released) = NR
      /\ \A i \in 1 .. NR : Released[i] = input.buf[Spot(i - 1)]
      /\ LineNow \in Seq(Marks) /\ Len(LineNow) = NE
      /\ \A i \in 1 .. NE : LineNow[i] = input.buf[Spot(NR + (i - 1))]
  BY TextView
<1>10. ASSUME NEW i \in 1 .. NE PROVE LineNow'[i] = LineNow[i]
  <2>1. NR + (i - 1) \in 0 .. INPUT_BUF - 1 /\ NR + (i - 1) >= k
    BY <1>1
  <2>2. B[Spot(NR + (i - 1))] = input.buf[Spot(NR + (i - 1))]
    BY <2>1, <1>5
  <2> QED
    BY <2>2, <1>8, <1>9
<1>11. LineNow' = LineNow
  BY <1>8, <1>9, <1>10, SeqEqual
<1> DEFINE t == SubSeq(Released, k + 1, NR)
<1>12. t \in Seq(Marks) /\ Len(t) = NR - k /\ \A i \in 1 .. NR - k : t[i] = Released[k + i]
  <2>1. /\ k + 1 \in 1 .. NR + 1 /\ NR \in k .. NR /\ NR \in Nat /\ k \in Nat
    BY <1>1
  <2>2. Len(SubSeq(Released, k + 1, NR)) = NR - k
    <3>1. \A i \in k + 1 .. NR : Released[i] \in Marks
      <4> TAKE i \in k + 1 .. NR
      <4>1. i \in 1 .. Len(Released)
        BY <2>1, <1>9
      <4> QED
        BY <4>1, <1>9
    <3>2. Len(SubSeq(Released, k + 1, NR)) = IF k + 1 <= NR THEN NR - (k + 1) + 1 ELSE 0
      BY <2>1, <3>1, SubSeqProperties
    <3> QED
      BY <2>1, <3>2
  <2>3. \A i \in 1 .. NR - k : SubSeq(Released, k + 1, NR)[i] = Released[k + i]
    BY <2>1, <1>9
  <2>4. SubSeq(Released, k + 1, NR) \in Seq(Marks)
    BY <2>1, <1>9
  <2> QED
    BY <2>2, <2>3, <2>4
<1> HIDE DEF t
<1>13. ASSUME NEW i \in 1 .. NR - k PROVE Released'[i] = t[i]
  <2>1. k + i \in 1 .. NR /\ k + (i - 1) = (k + i) - 1
        /\ k + (i - 1) \in 0 .. INPUT_BUF - 1 /\ k + (i - 1) >= k
    BY <1>1
  <2>2. B[Spot(k + (i - 1))] = input.buf[Spot(k + (i - 1))]
    BY <2>1, <1>5
  <2>3. Released[k + i] = input.buf[Spot((k + i) - 1)]
    BY <2>1, <1>9
  <2> QED
    BY <2>1, <2>2, <2>3, <1>8, <1>12
<1>14. Released' = t
  BY <1>8, <1>12, <1>13, SeqEqual
<1> QED
  BY <1>8, <1>11, <1>14 DEF t

(* The first and the last of a set of numbers. *)
LEMMA FirstIn ==
  ASSUME NEW S \in SUBSET Nat, S # {}
  PROVE  Min(S) \in S /\ \A k \in S : Min(S) <= k
<1>1. PICK m \in S : \A k \in S : <<k, m>> \notin OpToRel(<, Nat)
  BY WFMin, NatLessThanWellFounded, Zenon
<1>2. \A k \in S : ~(k < m)
  BY <1>1, Zenon DEF OpToRel
<1>3. \A k \in S : m =< k
  BY <1>2
<1> QED
  BY <1>3 DEF Min

LEMMA LastIn ==
  ASSUME NEW b \in Nat, NEW S \in SUBSET (0 .. b), S # {}
  PROVE  Max(S) \in S
<1> DEFINE T == {k \in 0 .. b : b - k \in S}
<1>1. PICK x \in S : TRUE
  OBVIOUS
<1>2. x \in 0 .. b /\ b - x \in 0 .. b /\ b - (b - x) = x
  BY <1>1
<1>3. T \in SUBSET Nat /\ T # {}
  BY <1>1, <1>2
<1>4. /\ T \in SUBSET (0 .. b) /\ \A k \in T : b - k \in S
      /\ \A k \in S : b - k \in T
  <2>1. ASSUME NEW k \in S PROVE b - k \in T
    <3>1. k \in 0 .. b /\ b - k \in 0 .. b /\ b - (b - k) = k
      OBVIOUS
    <3> QED
      BY <3>1
  <2> QED
    BY <2>1
<1> HIDE DEF T
<1>5. Min(T) \in T /\ \A k \in T : Min(T) <= k
  BY <1>3, FirstIn
<1>6. PICK y \in S : \A k \in S : y >= k
  <2>1. \A k \in S : b - Min(T) >= k
    <3> TAKE k \in S
    <3>1. Min(T) <= b - k /\ k \in 0 .. b /\ Min(T) \in 0 .. b
      BY <1>4, <1>5
    <3> QED
      BY <3>1
  <2> QED
    BY <2>1, <1>4, <1>5
<1> QED
  BY <1>6 DEF Max

(* Where a turn of consoleread()'s loop stops. *)
LEMMA WhereItStops ==
  ASSUME InputTypes, NEW p \in TReaders, want[p] \in Nat
  PROVE  /\ Stop(p) \in 0 .. NR /\ Stop(p) <= want[p]
         /\ \A i \in 1 .. NR : i < Stop(p) => Released[i] \notin Ends
         /\ Stop(p) = want[p] \/ Stop(p) = NR
              \/ (Stop(p) \in 1 .. NR /\ Released[Stop(p)] \in Ends)
<1> DEFINE E == {i \in DOMAIN Ready : Ready[i] \in Ends}
           S == E \cup {want[p], Len(Ready)}
           n == Min(S)
<1>1. Ready = Released /\ Released \in Seq(Marks) /\ Len(Released) = NR /\ NR \in Nat
  BY TextView, InputView, ConsoleSizes DEF Ready, Released
<1>2. DOMAIN Ready = 1 .. NR
  BY <1>1
<1>3. S \in SUBSET Nat /\ S # {} /\ want[p] \in S /\ NR \in S
  BY <1>1, <1>2
<1>4. \A i \in S : i \in E \/ i = want[p] \/ i = NR
  BY <1>1
<1>5. \A i \in 1 .. NR : Released[i] \in Ends => i \in S
  BY <1>1, <1>2
<1>6. \A i \in E : i \in 1 .. NR /\ Released[i] \in Ends
  BY <1>1, <1>2
<1>7. Stop(p) = n
  BY DEF Stop
<1> HIDE DEF S, E
<1>8. n \in S /\ \A k \in S : n <= k
  BY <1>3, FirstIn
<1>9. n \in 0 .. NR /\ n <= want[p]
  <2>1. n \in Nat /\ n <= NR /\ n <= want[p]
    BY <1>3, <1>8
  <2> HIDE DEF n
  <2> QED
    BY <2>1, <1>1
<1>10. \A i \in 1 .. NR : i < n => Released[i] \notin Ends
  BY <1>5, <1>8, <1>9
<1> QED
  BY <1>4, <1>6, <1>7, <1>8, <1>9, <1>10

(* What is ready to be read. *)
LEMMA ReadyIs ==
  ASSUME InputTypes
  PROVE  /\ Ready = Released /\ Released \in Seq(Marks) /\ Len(Released) = NR
         /\ NR \in Nat /\ NR <= INPUT_BUF
<1>1. Released \in Seq(Marks) /\ Len(Released) = NR
  BY TextView
<1>2. NR \in 0 .. INPUT_BUF /\ INPUT_BUF \in Nat
  BY InputView, ConsoleSizes
<1>3. Ready = Released
  BY Zenon DEF Ready, Released
<1> QED
  BY <1>1, <1>2, <1>3

(* What a reader copies and consumes is what Terminal lets it take. *)
LEMMA CopiesAndConsumes ==
  ASSUME InputTypes, ReaderTypes, NEW p \in TReaders
  PROVE  LET n == Stop(p)
             chars == SubSeq(Released, 1, n)
             bytes == IF n > 0 /\ Released[n] = Eof THEN SubSeq(chars, 1, n - 1) ELSE chars IN
         /\ Copied(p) = bytes /\ bytes \in Seq(Marks)
         /\ Consumed(p) = IF bytes # chars /\ got[p] \o bytes # << >> THEN n - 1 ELSE n
         /\ Consumed(p) \in {n - 1, n} /\ Consumed(p) \in 0 .. NR
         /\ (n > 0 /\ Released[n] = Eof) \/ (Len(bytes) = n /\ Consumed(p) = n)
<1> DEFINE n == Stop(p)
           chars == SubSeq(Released, 1, n)
           bytes == IF n > 0 /\ Released[n] = Eof THEN SubSeq(chars, 1, n - 1) ELSE chars
<1>1. want[p] \in Nat /\ got[p] \in Seq(Marks)
  BY DEF ReaderTypes
<1>2. /\ Ready = Released /\ Released \in Seq(Marks) /\ Len(Released) = NR /\ NR \in Nat
      /\ n \in 0 .. NR
  <2>1. n \in 0 .. NR
    BY <1>1, WhereItStops
  <2> QED
    BY <2>1, ReadyIs
<1>3. Copied(p) = SubSeq(Released, 1, IF n > 0 /\ Released[n] = Eof THEN n - 1 ELSE n)
  BY <1>2 DEF Copied
<1>4. Consumed(p) = IF got[p] \o Copied(p) # << >> THEN Len(Copied(p)) ELSE n
  BY DEF Consumed
<1> HIDE DEF n
<1>5. chars \in Seq(Marks) /\ Len(chars) = n /\ \A i \in 1 .. n : chars[i] = Released[i]
  BY <1>2
<1>6. ASSUME n > 0
      PROVE  /\ SubSeq(chars, 1, n - 1) = SubSeq(Released, 1, n - 1)
             /\ SubSeq(chars, 1, n - 1) \in Seq(Marks)
             /\ Len(SubSeq(chars, 1, n - 1)) = n - 1
  <2> DEFINE m == n - 1
             s == SubSeq(chars, 1, m)
             t == SubSeq(Released, 1, m)
  <2>1. m \in 0 .. n /\ m \in 0 .. NR /\ n \in Nat
    BY <1>2, <1>6
  <2> HIDE DEF m, chars
  <2>2. s \in Seq(Marks) /\ Len(s) = m /\ \A i \in 1 .. m : s[i] = chars[i]
    BY <2>1, <1>5
  <2>3. t \in Seq(Marks) /\ Len(t) = m /\ \A i \in 1 .. m : t[i] = Released[i]
    BY <2>1, <1>2
  <2>4. \A i \in 1 .. m : s[i] = t[i]
    BY <2>1, <2>2, <2>3, <1>5
  <2> HIDE DEF s, t
  <2>5. s = t
    BY <2>2, <2>3, <2>4, SeqEqual
  <2> QED
    BY <2>2, <2>5 DEF s, t, m
<1>7. CASE n > 0 /\ Released[n] = Eof
  <2>1. bytes = SubSeq(chars, 1, n - 1)
    BY <1>7
  <2>2. Copied(p) = bytes /\ bytes \in Seq(Marks) /\ Len(bytes) = n - 1
    BY <2>1, <1>3, <1>6, <1>7
  <2>3. bytes # chars /\ n - 1 \in 0 .. NR
    BY <2>2, <1>2, <1>5, <1>7
  <2> HIDE DEF bytes, chars
  <2>4. Consumed(p) = IF bytes # chars /\ got[p] \o bytes # << >> THEN n - 1 ELSE n
    BY <2>2, <2>3, <1>4
  <2> QED
    BY <2>2, <2>3, <2>4, <1>2, <1>7 DEF bytes, chars, n
<1>8. CASE ~(n > 0 /\ Released[n] = Eof)
  <2>1. bytes = chars
    BY <1>8
  <2>2. Copied(p) = bytes /\ bytes \in Seq(Marks) /\ Len(bytes) = n
    BY <2>1, <1>3, <1>5, <1>8
  <2> HIDE DEF bytes, chars
  <2>3. Consumed(p) = n
    BY <2>2, <1>4
  <2> QED
    BY <2>1, <2>2, <2>3, <1>2 DEF bytes, chars, n
<1> QED
  BY <1>7, <1>8

-----------------------------------------------------------------------------
(* Each section of the console is a step of Terminal. *)
Phases == [p \in TReaders |-> ReaderPhase(p)]

LEMMA Renamed ==
  /\ Term!Ends = Ends
  /\ \A c : Term!Type(c) <=>
       LET typed == Append(LineNow, c)
           ends  == c \in Ends \/ Len(Released) + Len(typed) = INPUT_BUF
       IN /\ Len(Released) + Len(LineNow) < INPUT_BUF
          /\ LineNow' = IF ends THEN << >> ELSE typed
          /\ Released' = IF ends THEN Released \o typed ELSE Released
          /\ Phases' = IF ends THEN [p \in TReaders |-> IF Phases[p] = "waits" THEN "reads"
                                                        ELSE Phases[p]]
                       ELSE Phases
          /\ UNCHANGED <<want, got>>
BY Zenon DEF Term!Ends, Ends, Term!Type, LineNow, Released, Phases

LEMMA PhasesOf ==
  ASSUME ReaderTypes
  PROVE  /\ Phases \in [TReaders -> {"idle", "reads", "waits"}]
         /\ \A p \in TReaders : /\ Phases[p] = "idle"  <=> rpc[p] = "idle"
                                /\ Phases[p] = "reads" <=> rpc[p] = "call"
                                /\ Phases[p] = "waits" <=> rpc[p] \in {"dozing", "asleep"}
BY DEF Phases, ReaderPhase, ReaderTypes

LEMMA InputTurns ==
  ASSUME InputTypes, UNCHANGED input
  PROVE  InputTypes' /\ Released' = Released /\ LineNow' = LineNow
BY Zenon DEF InputTypes, Released, LineNow, Between, Gap, NR, NE, Up, CellAt

LEMMA TypingStep ==
  ASSUME ConsInductive, NEW c \in Chars \cup Ends, PutChar(c)
  PROVE  ConsInductive' /\ Term!Type(c)
<1>1. InputTypes /\ ReaderTypes
  BY DEF ConsInductive
<1>2. /\ InputTypes' /\ NR + NE < INPUT_BUF
      /\ Completes(c) <=> c \in Ends \/ NR + (NE + 1) = INPUT_BUF
      /\ Completes(c) => LineNow' = << >> /\ Released' = Released \o Append(LineNow, c)
      /\ ~Completes(c) => LineNow' = Append(LineNow, c) /\ Released' = Released
  BY <1>1, PutText
<1>3. /\ Len(Released) = NR /\ Len(LineNow) = NE /\ LineNow \in Seq(Marks)
      /\ Len(Append(LineNow, c)) = NE + 1
  BY <1>1, TextView, AppendProperties DEF Marks
<1>4. /\ rpc' = IF Completes(c) THEN Woken ELSE rpc
      /\ ~conslock /\ conslock' = conslock /\ rkilled' = rkilled
      /\ want' = want /\ got' = got
  BY DEF PutChar
<1>5. /\ rpc \in [TReaders -> {"idle", "call", "dozing", "asleep"}]
      /\ \A p \in TReaders : rpc[p] # "dozing"
  BY <1>1, <1>4 DEF ReaderTypes
<1>6. /\ rpc' \in [TReaders -> {"idle", "call", "dozing", "asleep"}]
      /\ \A p \in TReaders : (rpc'[p] = "idle" <=> rpc[p] = "idle") /\ rpc'[p] # "dozing"
  BY <1>4, <1>5 DEF Woken
<1>7. ReaderTypes'
  BY <1>1, <1>4, <1>6 DEF ReaderTypes
<1>8. Phases' = IF Completes(c) THEN [p \in TReaders |-> IF Phases[p] = "waits" THEN "reads"
                                                         ELSE Phases[p]]
                ELSE Phases
  <2>1. CASE Completes(c)
    <3>1. \A p \in TReaders : rpc'[p] = IF rpc[p] = "asleep" THEN "call" ELSE rpc[p]
      BY <2>1, <1>4 DEF Woken
    <3>2. \A p \in TReaders : ReaderPhase(p)' = IF ReaderPhase(p) = "waits" THEN "reads"
                                                ELSE ReaderPhase(p)
      BY <3>1, <1>5 DEF ReaderPhase
    <3> QED
      BY <2>1, <3>2 DEF Phases
  <2>2. CASE ~Completes(c)
    BY <2>2, <1>4 DEF Phases, ReaderPhase
  <2> QED
    BY <2>1, <2>2
<1>9. Term!Type(c)
  <2>1. c \in Ends \/ Len(Released) + Len(Append(LineNow, c)) = INPUT_BUF <=> Completes(c)
    BY <1>2, <1>3
  <2>2. Len(Released) + Len(LineNow) < INPUT_BUF
    BY <1>2, <1>3
  <2>3. UNCHANGED <<want, got>>
    BY <1>4
  <2> QED
    BY <2>1, <2>2, <2>3, <1>2, <1>8, Renamed
<1> QED
  BY <1>2, <1>7, <1>9 DEF ConsInductive

LEMMA EraseStep ==
  ASSUME ConsInductive, NEW n \in 1 .. NE, Back(n)
  PROVE  ConsInductive' /\ \E m \in 1 .. INPUT_BUF : Term!Erase(m)
<1>1. InputTypes /\ ReaderTypes
  BY DEF ConsInductive
<1>2. InputTypes' /\ Released' = Released /\ LineNow' = SubSeq(LineNow, 1, NE - n)
  BY <1>1, BackText
<1>3. UNCHANGED <<conslock, rpc, rkilled, want, got>>
  BY DEF Back
<1>4. ReaderTypes'
  BY <1>1, <1>3 DEF ReaderTypes
<1>5. Phases' = Phases
  BY <1>3 DEF Phases, ReaderPhase
<1>6. Len(LineNow) = NE /\ NE \in 0 .. INPUT_BUF /\ n \in 1 .. INPUT_BUF
  BY <1>1, TextView, InputView, ConsoleSizes
<1>7. Term!Erase(n)
  BY <1>2, <1>3, <1>5, <1>6 DEF Term!Erase, LineNow, Released, Phases
<1> QED
  BY <1>2, <1>4, <1>6, <1>7 DEF ConsInductive

(* One reader takes what its turn finds. *)
LEMMA TakeStep ==
  ASSUME InputTypes, ReaderTypes, NEW p \in TReaders, Take(p)
  PROVE  /\ InputTypes' /\ LineNow' = LineNow
         /\ Released' = SubSeq(Released, Consumed(p) + 1, Len(Released))
         /\ got' = [got EXCEPT ![p] = @ \o Copied(p)] =>
              /\ Term!Takes(p, Stop(p), Consumed(p))
              /\ got' \in [TReaders -> Seq(Marks)]
<1> DEFINE n == Stop(p)
           chars == SubSeq(Released, 1, n)
           bytes == IF n > 0 /\ Released[n] = Eof THEN SubSeq(chars, 1, n - 1) ELSE chars
<1>1. /\ Copied(p) = bytes /\ bytes \in Seq(Marks)
      /\ Consumed(p) = IF bytes # chars /\ got[p] \o bytes # << >> THEN n - 1 ELSE n
      /\ Consumed(p) \in 0 .. NR
  BY CopiesAndConsumes
<1>2. /\ n \in 0 .. NR /\ \A i \in 1 .. NR : i < n => Released[i] \notin Ends
  BY WhereItStops DEF ReaderTypes
<1>3. Len(Released) = NR /\ NR \in Nat
  BY TextView, InputView, ConsoleSizes
<1>4. InputTypes' /\ LineNow' = LineNow /\ Released' = SubSeq(Released, Consumed(p) + 1, NR)
  <2>1. PICK k : k = Consumed(p)
    OBVIOUS
  <2>2. k \in 0 .. NR
    BY <2>1, <1>1
  <2>3. Consumes(k)
    BY <2>1 DEF Take, Consumes
  <2>4. InputTypes' /\ LineNow' = LineNow /\ Released' = SubSeq(Released, k + 1, NR)
    BY <2>2, <2>3, TakeText
  <2> QED
    BY <2>1, <2>4
<1>5. ASSUME got' = [got EXCEPT ![p] = @ \o Copied(p)]
      PROVE  Term!Takes(p, n, Consumed(p)) /\ got' \in [TReaders -> Seq(Marks)]
  <2>1. \A i \in 1 .. n - 1 : Released[i] \notin Ends
    BY <1>2, <1>3
  <2>2. got' = [got EXCEPT ![p] = @ \o bytes]
    BY <1>1, <1>5
  <2>3. Term!Takes(p, n, Consumed(p))
    BY <2>1, <2>2, <1>1, <1>3, <1>4, Renamed, Zenon DEF Term!Takes, LineNow, Released
  <2>4. got[p] \o bytes \in Seq(Marks)
    <3>1. got[p] \in Seq(Marks)
      BY DEF ReaderTypes
    <3> QED
      BY <3>1, <1>1, ConcatProperties
  <2> HIDE DEF bytes
  <2> QED
    BY <2>2, <2>3, <2>4 DEF ReaderTypes
<1> QED
  BY <1>3, <1>4, <1>5

(* The phases when the state of one reader changes. *)
LEMMA PhaseMoves ==
  ASSUME ReaderTypes, NEW p \in TReaders, NEW s \in {"idle", "call", "dozing", "asleep"},
         rpc' = [rpc EXCEPT ![p] = s]
  PROVE  /\ rpc' \in [TReaders -> {"idle", "call", "dozing", "asleep"}]
         /\ Phases' = [Phases EXCEPT ![p] =
              IF s = "idle" THEN "idle" ELSE IF s = "call" THEN "reads" ELSE "waits"]
<1>1. rpc \in [TReaders -> {"idle", "call", "dozing", "asleep"}]
  BY DEF ReaderTypes
<1>2. rpc' \in [TReaders -> {"idle", "call", "dozing", "asleep"}]
  BY <1>1
<1>3. \A q \in TReaders : ReaderPhase(q)' =
        IF q = p THEN (IF s = "idle" THEN "idle" ELSE IF s = "call" THEN "reads" ELSE "waits")
        ELSE ReaderPhase(q)
  BY <1>1 DEF ReaderPhase
<1> QED
  BY <1>2, <1>3 DEF Phases

LEMMA CallStarts ==
  ASSUME ConsInductive, NEW p \in TReaders, NEW n \in 1 .. ReadMax, CallConsole(p, n)
  PROVE  ConsInductive' /\ Term!StartRead(p, n)
<1>1. InputTypes /\ ReaderTypes
  BY DEF ConsInductive
<1>2. /\ rpc[p] = "idle" /\ rpc' = [rpc EXCEPT ![p] = "call"]
      /\ want' = [want EXCEPT ![p] = n] /\ got' = [got EXCEPT ![p] = << >>]
      /\ UNCHANGED <<input, conslock, rkilled>>
  BY DEF CallConsole
<1>3. /\ rpc' \in [TReaders -> {"idle", "call", "dozing", "asleep"}]
      /\ Phases' = [Phases EXCEPT ![p] = "reads"] /\ Phases[p] = "idle"
  BY <1>1, <1>2, PhaseMoves, PhasesOf
<1>4. InputTypes' /\ Released' = Released /\ LineNow' = LineNow
  BY <1>1, <1>2, InputTurns
<1>5. n \in Nat /\ n >= 1
  BY ConsoleSizes
<1>6. ReaderTypes'
  <2>1. want' \in [TReaders -> Nat] /\ got' \in [TReaders -> Seq(Marks)]
    BY <1>1, <1>2, <1>5 DEF ReaderTypes
  <2> QED
    BY <2>1, <1>1, <1>2, <1>3, <1>5 DEF ReaderTypes
<1>7. Term!StartRead(p, n)
  BY <1>2, <1>3, <1>4, Zenon DEF Term!StartRead, LineNow, Released, Phases
<1> QED
  BY <1>4, <1>6, <1>7 DEF ConsInductive

LEMMA ReturnStep ==
  ASSUME ConsInductive, NEW p \in TReaders, ReadReturns(p)
  PROVE  ConsInductive' /\ Phases[p] = "reads" /\ Term!Return(p)
<1> DEFINE n == Stop(p)
<1>1. InputTypes /\ ReaderTypes
  BY DEF ConsInductive
<1>2. /\ rpc[p] = "call" /\ AtEnd(p) /\ Take(p)
      /\ got' = [got EXCEPT ![p] = @ \o Copied(p)]
      /\ want' = [want EXCEPT ![p] = 0] /\ rpc' = [rpc EXCEPT ![p] = "idle"]
      /\ UNCHANGED <<conslock, rkilled>>
  BY DEF ReadReturns
<1>3. /\ rpc' \in [TReaders -> {"idle", "call", "dozing", "asleep"}]
      /\ Phases' = [Phases EXCEPT ![p] = "idle"] /\ Phases[p] = "reads"
  BY <1>1, <1>2, PhaseMoves, PhasesOf
<1>4. /\ InputTypes' /\ Term!Takes(p, n, Consumed(p)) /\ got' \in [TReaders -> Seq(Marks)]
  BY <1>1, <1>2, TakeStep
<1>5. ReaderTypes'
  <2>1. want' \in [TReaders -> Nat]
    BY <1>1, <1>2 DEF ReaderTypes
  <2> QED
    BY <2>1, <1>1, <1>2, <1>3, <1>4 DEF ReaderTypes
<1>6. /\ Len(Released) = NR /\ NR \in Nat /\ want[p] \in Nat /\ Ready = Released
      /\ n \in 0 .. NR /\ n <= want[p] /\ Consumed(p) \in {n - 1, n}
  <2>1. Ready = Released /\ Len(Released) = NR /\ NR \in Nat
    BY <1>1, ReadyIs
  <2>2. want[p] \in Nat
    BY <1>1 DEF ReaderTypes
  <2>3. n \in 0 .. NR /\ n <= want[p]
    BY <1>1, <2>2, WhereItStops
  <2>4. Consumed(p) \in {n - 1, n}
    BY <1>1, CopiesAndConsumes
  <2> QED
    BY <2>1, <2>2, <2>3, <2>4
<1>7. n > 0 /\ (n = want[p] \/ Released[n] \in Ends)
  BY <1>2, <1>6 DEF AtEnd
<1>8. n \in 1 .. Min({want[p], Len(Released)})
  <2>1. {want[p], Len(Released)} \in SUBSET Nat /\ {want[p], Len(Released)} # {}
    BY <1>6
  <2>2. Min({want[p], Len(Released)}) \in {want[p], Len(Released)}
    BY <2>1, FirstIn
  <2> QED
    BY <2>2, <1>6, <1>7
<1> HIDE DEF n
<1>9. \E k \in {n - 1, n} : Term!Takes(p, n, k)
  BY <1>4, <1>6, Zenon
<1>10. Term!Return(p)
  <2>1. /\ n = want[p] \/ Released[n] \in Ends
        /\ \E k \in {n - 1, n} : Term!Takes(p, n, k)
        /\ want' = [want EXCEPT ![p] = 0]
        /\ Phases' = [Phases EXCEPT ![p] = "idle"]
        /\ Term!Ends = Ends
    BY <1>2, <1>3, <1>7, <1>9, Renamed, Zenon
  <2>2. \E i \in 1 .. Term!Min({want[p], Len(Released)}) :
          /\ i = want[p] \/ Released[i] \in Term!Ends
          /\ \E k \in {i - 1, i} : Term!Takes(p, i, k)
          /\ want' = [want EXCEPT ![p] = 0]
          /\ Phases' = [Phases EXCEPT ![p] = "idle"]
    <3>1. Term!Min({want[p], Len(Released)}) = Min({want[p], Len(Released)})
      BY Zenon DEF Term!Min, Min
    <3> QED
      BY <3>1, <2>1, <1>8, Zenon
  <2> QED
    BY <2>2, Zenon DEF Term!Return, Released, Phases
<1> QED
  BY <1>3, <1>4, <1>5, <1>10 DEF ConsInductive

(* A reader that does not return has met the end of what is released. *)
LEMMA TakesAll ==
  ASSUME ConsInductive, NEW p \in TReaders, rpc[p] = "call", ~AtEnd(p)
  PROVE  /\ Stop(p) = Len(Released) /\ Len(Released) \in Nat /\ Len(Released) < want[p]
         /\ Len(Released) > 0 => Released[Len(Released)] \notin Ends
         /\ Len(Copied(p)) = Len(Released) /\ Consumed(p) = Len(Released)
<1> DEFINE n == Stop(p)
           chars == SubSeq(Released, 1, n)
           bytes == IF n > 0 /\ Released[n] = Eof THEN SubSeq(chars, 1, n - 1) ELSE chars
<1>1. InputTypes /\ ReaderTypes /\ want[p] \in Nat /\ want[p] >= 1
  BY DEF ConsInductive, ReaderTypes
<1>2. /\ Len(Released) = NR /\ NR \in Nat /\ Ready = Released
      /\ n \in 0 .. NR /\ n <= want[p]
      /\ n = want[p] \/ n = NR \/ (n \in 1 .. NR /\ Released[n] \in Ends)
  <2>1. Ready = Released /\ Len(Released) = NR /\ NR \in Nat
    BY <1>1, ReadyIs
  <2>2. /\ n \in 0 .. NR /\ n <= want[p]
        /\ n = want[p] \/ n = NR \/ (n \in 1 .. NR /\ Released[n] \in Ends)
    BY <1>1, WhereItStops
  <2> QED
    BY <2>1, <2>2
<1>3. ~(n > 0 /\ (n = want[p] \/ Released[n] \in Ends))
  BY <1>2 DEF AtEnd
<1>4. Copied(p) = bytes /\ ((n > 0 /\ Released[n] = Eof) \/ (Len(bytes) = n /\ Consumed(p) = n))
  BY <1>1, CopiesAndConsumes
<1> HIDE DEF n, bytes
<1>5. n = NR /\ n < want[p] /\ (n > 0 => Released[n] \notin Ends)
  BY <1>1, <1>2, <1>3
<1>6. Len(Copied(p)) = n /\ Consumed(p) = n
  BY <1>4, <1>5 DEF Ends
<1> QED
  BY <1>2, <1>5, <1>6 DEF n

LEMMA WaitStep ==
  ASSUME ConsInductive, NEW p \in TReaders, ReadDozes(p)
  PROVE  ConsInductive' /\ Term!Wait(p)
<1> DEFINE n == Len(Released)
<1>1. InputTypes /\ ReaderTypes
  BY DEF ConsInductive
<1>2. /\ rpc[p] = "call" /\ ~AtEnd(p) /\ Take(p) /\ ~conslock
      /\ got' = [got EXCEPT ![p] = @ \o Copied(p)]
      /\ want' = [want EXCEPT ![p] = @ - Len(Copied(p))] /\ rpc' = [rpc EXCEPT ![p] = "dozing"]
      /\ conslock' = TRUE /\ UNCHANGED rkilled
  BY DEF ReadDozes
<1>3. /\ Stop(p) = n /\ n \in Nat /\ n < want[p] /\ (n > 0 => Released[n] \notin Ends)
      /\ Len(Copied(p)) = n /\ Consumed(p) = n
  BY <1>2, TakesAll
<1>4. /\ rpc' \in [TReaders -> {"idle", "call", "dozing", "asleep"}]
      /\ Phases' = [Phases EXCEPT ![p] = "waits"] /\ Phases[p] = "reads"
  BY <1>1, <1>2, PhaseMoves, PhasesOf
<1>5. InputTypes' /\ Term!Takes(p, n, n) /\ got' \in [TReaders -> Seq(Marks)]
  BY <1>1, <1>2, <1>3, TakeStep
<1> HIDE DEF n
<1>6. ReaderTypes'
  <2>1. want' = [want EXCEPT ![p] = @ - n] /\ want[p] - n \in Nat /\ want[p] - n >= 1
    BY <1>1, <1>2, <1>3 DEF ReaderTypes
  <2>2. want' \in [TReaders -> Nat] /\ \A q \in TReaders : want'[q] = IF q = p THEN want[p] - n ELSE want[q]
    BY <2>1, <1>1 DEF ReaderTypes
  <2>3. \A q \in TReaders : rpc[q] # "dozing"
    BY <1>1, <1>2 DEF ReaderTypes
  <2>4. \A q \in TReaders : rpc'[q] = IF q = p THEN "dozing" ELSE rpc[q]
    BY <1>1, <1>2 DEF ReaderTypes
  <2> QED
    BY <2>1, <2>2, <2>3, <2>4, <1>1, <1>2, <1>4, <1>5 DEF ReaderTypes
<1>7. Term!TakeAll(p)
  BY <1>3, <1>5, Renamed, Zenon DEF Term!TakeAll, Released, n
<1>8. want' = [want EXCEPT ![p] = @ - n]
  BY <1>2, <1>3
<1>9. Term!Wait(p)
  BY <1>4, <1>7, <1>8, Zenon DEF Term!Wait, Released, Phases, n
<1> QED
  BY <1>5, <1>6, <1>9 DEF ConsInductive

LEMMA GiveUpStep ==
  ASSUME ConsInductive, NEW p \in TReaders, ReadGivesUp(p)
  PROVE  ConsInductive' /\ Term!GiveUp(p)
<1>1. InputTypes /\ ReaderTypes
  BY DEF ConsInductive
<1>2. /\ rpc[p] = "call" /\ ~AtEnd(p) /\ Take(p)
      /\ got' = [got EXCEPT ![p] = << >>] /\ want' = [want EXCEPT ![p] = 0]
      /\ rpc' = [rpc EXCEPT ![p] = "idle"] /\ UNCHANGED <<conslock, rkilled>>
  BY DEF ReadGivesUp
<1>3. Len(Released) \in Nat /\ Consumed(p) = Len(Released)
  BY <1>2, TakesAll
<1>4. /\ rpc' \in [TReaders -> {"idle", "call", "dozing", "asleep"}]
      /\ Phases' = [Phases EXCEPT ![p] = "idle"] /\ Phases[p] = "reads"
  BY <1>1, <1>2, PhaseMoves, PhasesOf
<1>5. /\ InputTypes' /\ LineNow' = LineNow
      /\ Released' = SubSeq(Released, Len(Released) + 1, Len(Released))
  BY <1>1, <1>2, <1>3, TakeStep
<1>6. Released' = << >>
  <2>1. Len(Released) + 1 \in Int /\ Len(Released) \in Int /\ Len(Released) < Len(Released) + 1
    BY <1>3
  <2> QED
    BY <2>1, <1>5, SubSeqEmpty
<1>7. ReaderTypes'
  <2>1. want' \in [TReaders -> Nat] /\ got' \in [TReaders -> Seq(Marks)]
    BY <1>1, <1>2 DEF ReaderTypes
  <2> QED
    BY <2>1, <1>1, <1>2, <1>4 DEF ReaderTypes
<1>8. Term!GiveUp(p)
  BY <1>2, <1>4, <1>5, <1>6, Zenon DEF Term!GiveUp, Released, LineNow, Phases
<1> QED
  BY <1>5, <1>7, <1>8 DEF ConsInductive

LEMMA QuietSteps ==
  ASSUME ConsInductive, NEW p \in TReaders
  PROVE  /\ ReaderSleeps(p) => ConsInductive' /\ UNCHANGED <<LineNow, Released, Phases, want, got>>
         /\ KillReader(p) => ConsInductive'
              /\ (Term!Rouse(p) \/ UNCHANGED <<LineNow, Released, Phases, want, got>>)
<1>1. InputTypes /\ ReaderTypes
  BY DEF ConsInductive
<1>2. ASSUME ReaderSleeps(p)
      PROVE  ConsInductive' /\ UNCHANGED <<LineNow, Released, Phases, want, got>>
  <2>1. /\ rpc[p] = "dozing" /\ rpc' = [rpc EXCEPT ![p] = "asleep"] /\ conslock' = FALSE
        /\ UNCHANGED <<input, rkilled, want, got>>
    BY <1>2 DEF ReaderSleeps
  <2>2. /\ rpc' \in [TReaders -> {"idle", "call", "dozing", "asleep"}]
        /\ Phases' = [Phases EXCEPT ![p] = "waits"] /\ Phases[p] = "waits"
        /\ Phases \in [TReaders -> {"idle", "reads", "waits"}]
    BY <2>1, <1>1, PhaseMoves, PhasesOf
  <2>3. Phases' = Phases
    BY <2>2
  <2>4. InputTypes' /\ Released' = Released /\ LineNow' = LineNow
    BY <2>1, <1>1, InputTurns
  <2>5. \A q \in TReaders : rpc'[q] = IF q = p THEN "asleep" ELSE rpc[q]
    BY <2>1, <1>1 DEF ReaderTypes
  <2>6. \A q \in TReaders : rpc'[q] # "dozing"
    BY <2>1, <2>5, <1>1 DEF ReaderTypes
  <2>7. ReaderTypes'
    BY <2>1, <2>2, <2>5, <2>6, <1>1 DEF ReaderTypes
  <2> QED
    BY <2>1, <2>3, <2>4, <2>7 DEF ConsInductive
<1>3. ASSUME KillReader(p)
      PROVE  /\ ConsInductive'
             /\ Term!Rouse(p) \/ UNCHANGED <<LineNow, Released, Phases, want, got>>
  <2>1. /\ rkilled' = [rkilled EXCEPT ![p] = TRUE]
        /\ rpc' = [rpc EXCEPT ![p] = IF @ = "asleep" THEN "call" ELSE @]
        /\ UNCHANGED <<input, conslock, want, got>>
    BY <1>3 DEF KillReader
  <2>2. InputTypes' /\ Released' = Released /\ LineNow' = LineNow
    BY <2>1, <1>1, InputTurns
  <2>3. CASE rpc[p] = "asleep"
    <3>1. rpc' = [rpc EXCEPT ![p] = "call"]
      BY <2>1, <2>3, <1>1 DEF ReaderTypes
    <3>2. /\ rpc' \in [TReaders -> {"idle", "call", "dozing", "asleep"}]
          /\ Phases' = [Phases EXCEPT ![p] = "reads"] /\ Phases[p] = "waits"
      BY <3>1, <2>3, <1>1, PhaseMoves, PhasesOf
    <3>3. ReaderTypes'
      BY <3>1, <3>2, <2>1, <2>3, <1>1 DEF ReaderTypes
    <3>4. Term!Rouse(p)
      BY <3>2, <2>1, <2>2, Zenon DEF Term!Rouse, LineNow, Released, Phases
    <3> QED
      BY <3>3, <3>4, <2>2 DEF ConsInductive
  <2>4. CASE rpc[p] # "asleep"
    <3>1. rpc' = rpc
      BY <2>1, <2>4, <1>1 DEF ReaderTypes
    <3>2. Phases' = Phases
      BY <3>1 DEF Phases, ReaderPhase
    <3>3. ReaderTypes'
      BY <3>1, <2>1, <1>1 DEF ReaderTypes
    <3> QED
      BY <3>2, <3>3, <2>1, <2>2 DEF ConsInductive
  <2> QED
    BY <2>3, <2>4
<1> QED
  BY <1>2, <1>3

(* Every step of the console keeps its invariant, and is one of Terminal,   *)
(* or leaves what Terminal sees as it is.                                   *)
TermSees == UNCHANGED <<LineNow, Released, Phases, want, got>>

LEMMA ConsoleSteps ==
  ASSUME ConsInductive, ConsNext
  PROVE  ConsInductive' /\ (Term!TermNext \/ TermSees)
<1>0. InputTypes /\ ReaderTypes
  BY DEF ConsInductive
<1>1. ASSUME NEW c \in Chars \cup Ends, PutChar(c)
      PROVE  ConsInductive' /\ Term!TermNext
  BY <1>1, TypingStep, Renamed, Zenon DEF Term!TermNext
<1>2. ASSUME NEW n \in 1 .. NE, Back(n)
      PROVE  ConsInductive' /\ Term!TermNext
  BY <1>2, EraseStep, Zenon DEF Term!TermNext
<1>3. ASSUME Backspace
      PROVE  ConsInductive' /\ Term!TermNext
  <2>1. NR \in 0 .. INPUT_BUF /\ NE \in 0 .. INPUT_BUF
        /\ input.w = Up(input.r, NR) /\ input.e = Up(input.r, NR + NE)
    BY <1>0, InputView
  <2>2. NE # 0
    BY <2>1, <1>3, ConsoleSizes DEF Backspace
  <2>3. 1 \in 1 .. NE
    BY <2>1, <2>2, ConsoleSizes
  <2>4. PICK n : n = 1
    OBVIOUS
  <2>5. n \in 1 .. NE /\ Back(n)
    BY <2>3, <2>4, <1>3 DEF Backspace
  <2> QED
    BY <2>5, <1>2
<1>4. ASSUME KillLine
      PROVE  ConsInductive' /\ Term!TermNext
  <2> DEFINE E == {i \in DOMAIN LineNow : LineNow[i] = Newline}
  <2>1. Len(LineNow) = NE /\ LineNow \in Seq(Marks) /\ NE \in Nat
    BY <1>0, TextView, InputView, ConsoleSizes
  <2>2. E \cup {0} \in SUBSET (0 .. NE) /\ E \cup {0} # {}
    BY <2>1
  <2>3. Max(E \cup {0}) \in 0 .. NE
    <3> HIDE DEF E
    <3>1. Max(E \cup {0}) \in E \cup {0}
      BY <2>1, <2>2, LastIn
    <3> QED
      BY <3>1, <2>2
  <2>4. NE - Max(E \cup {0}) > 0 /\ Back(NE - Max(E \cup {0}))
    BY <2>1, <1>4 DEF KillLine, LineNow
  <2> HIDE DEF E
  <2>5. PICK n : n = NE - Max(E \cup {0})
    OBVIOUS
  <2>6. n \in 1 .. NE /\ Back(n)
    BY <2>1, <2>3, <2>4, <2>5
  <2> QED
    BY <2>6, <1>2
<1>5. ASSUME NEW p \in TReaders, NEW n \in 1 .. ReadMax, CallConsole(p, n)
      PROVE  ConsInductive' /\ Term!TermNext
  BY <1>5, CallStarts, Zenon DEF Term!TermNext
<1>6. ASSUME NEW p \in TReaders, ReadReturns(p)
      PROVE  ConsInductive' /\ Term!TermNext
  BY <1>6, ReturnStep, Zenon DEF Term!TermNext, Phases
<1>7. ASSUME NEW p \in TReaders, ReadDozes(p)
      PROVE  ConsInductive' /\ Term!TermNext
  BY <1>7, WaitStep, Zenon DEF Term!TermNext
<1>8. ASSUME NEW p \in TReaders, ReadGivesUp(p)
      PROVE  ConsInductive' /\ Term!TermNext
  BY <1>8, GiveUpStep, Zenon DEF Term!TermNext
<1>9. ASSUME NEW p \in TReaders, ReaderSleeps(p) \/ KillReader(p)
      PROVE  ConsInductive' /\ (Term!TermNext \/ TermSees)
  BY <1>9, QuietSteps, Zenon DEF Term!TermNext, TermSees
<1> QED
  BY <1>1, <1>3, <1>4, <1>5, <1>6, <1>7, <1>8, <1>9 DEF ConsNext

LEMMA ConsoleStarts ==
  ASSUME ConsInit
  PROVE  ConsInductive /\ Term!TermInit
<1> USE ConsoleSizes
<1>1. Gap(0, 0) = 0
  BY DEF Gap
<1>2. NR = 0 /\ NE = 0
  BY <1>1 DEF ConsInit, NR, NE
<1>3. InputTypes
  <2>1. /\ [i \in 0 .. INPUT_BUF - 1 |-> Erased] \in [0 .. INPUT_BUF - 1 -> Marks]
        /\ 0 \in 0 .. IndexMax - 1
    BY DEF Marks
  <2>2. input = [buf |-> [i \in 0 .. INPUT_BUF - 1 |-> Erased], r |-> 0, w |-> 0, e |-> 0]
    BY DEF ConsInit
  <2> QED
    BY <2>1, <2>2, <1>2 DEF InputTypes
<1>4. ReaderTypes
  <2>1. << >> \in Seq(Marks)
    OBVIOUS
  <2>2. /\ conslock = FALSE
        /\ rpc = [p \in TReaders |-> "idle"] /\ rkilled = [p \in TReaders |-> FALSE]
        /\ want = [p \in TReaders |-> 0] /\ got = [p \in TReaders |-> << >>]
    BY DEF ConsInit
  <2>3. /\ want \in [TReaders -> Nat] /\ got \in [TReaders -> Seq(Marks)]
        /\ rpc \in [TReaders -> {"idle", "call", "dozing", "asleep"}]
        /\ rkilled \in [TReaders -> BOOLEAN] /\ conslock \in BOOLEAN
        /\ \A p \in TReaders : rpc[p] = "idle"
    BY <2>1, <2>2
  <2> QED
    BY <2>3 DEF ReaderTypes
<1>5. Released = << >> /\ LineNow = << >>
  BY <1>2, <1>3, TextView, EmptySeq
<1>6. Phases = [p \in TReaders |-> "idle"]
  BY DEF ConsInit, Phases, ReaderPhase
<1>7. Term!TermInit
  BY <1>5, <1>6, Zenon DEF ConsInit, Term!TermInit, Released, LineNow, Phases
<1> QED
  BY <1>3, <1>4, <1>7 DEF ConsInductive

(* consoleintr() and consoleread(): whatever the indices of the ring, its   *)
(* size and the readers, the console is a terminal: nothing typed is lost   *)
(* or doubled, and only the line being edited can be erased.                *)
THEOREM ConsoleIsTerminal == ConsSpec => TerminalSpec
<1>1. ConsInit => ConsInductive /\ Term!TermInit
  BY ConsoleStarts
<1>2. ConsInductive /\ [ConsNext]_consvars => ConsInductive' /\ [Term!TermNext]_Term!termvars
  <2> SUFFICES ASSUME ConsInductive, [ConsNext]_consvars
               PROVE  ConsInductive' /\ [Term!TermNext]_Term!termvars
    OBVIOUS
  <2>1. CASE ConsNext
    <3>1. TermSees => UNCHANGED Term!termvars
      BY Zenon DEF TermSees, Term!termvars, LineNow, Released, Phases
    <3> QED
      BY <2>1, <3>1, ConsoleSteps
  <2>2. CASE UNCHANGED consvars
    <3>1. UNCHANGED <<input, conslock, rpc, rkilled, want, got>>
      BY <2>2 DEF consvars
    <3>2. InputTypes /\ ReaderTypes
      BY DEF ConsInductive
    <3>3. InputTypes' /\ Released' = Released /\ LineNow' = LineNow
      BY <3>1, <3>2, InputTurns
    <3>4. ReaderTypes'
      BY <3>1, <3>2 DEF ReaderTypes
    <3>5. Phases' = Phases
      BY <3>1 DEF Phases, ReaderPhase
    <3>6. UNCHANGED Term!termvars
      BY <3>1, <3>3, <3>5, Zenon DEF Term!termvars, LineNow, Released, Phases
    <3> QED
      BY <3>3, <3>4, <3>6 DEF ConsInductive
  <2> QED
    BY <2>1, <2>2
<1> QED
  BY <1>1, <1>2, PTL DEF ConsSpec, TerminalSpec, Term!TermSpec

-----------------------------------------------------------------------------
(* The ring of malloc() and free(). *)

(* The blocks on the ring, and all blocks: that which a call of free(), or *)
(* morecore(), is about to put into the ring among them.                   *)
OnRing == {a \in Addresses : header[a].ptr # Null}
IsBlock(a) == a \in 1 .. HEAPMAX /\ (a \in OnRing \/ a \in lent \/ a = uop.bp)

ArenaTypes ==
  /\ header \in [Addresses -> [ptr : 0 .. HEAPMAX + 1, size : Nat]]
  /\ freep \in 0 .. HEAPMAX + 1
  /\ top \in Nat \ {0} /\ top <= HEAPMAX + 1
  /\ lent \subseteq 1 .. HEAPMAX /\ extra \subseteq 1 .. HEAPMAX
  /\ uop \in [do : {"idle", "search", "free", "refill"}, need : Nat,
              prevp : 0 .. HEAPMAX + 1, bp : 0 .. HEAPMAX + 1]

(* What a call has found out.                                              *)
CallsKnow ==
  /\ uop.do \in {"idle", "search"} => uop.bp = Null
  /\ uop.do # "idle" => freep # Null /\ uop.prevp \in OnRing
  /\ uop.do \in {"search", "refill"} => uop.need >= 1
  /\ uop.do \in {"free", "refill"} => uop.bp \in 1 .. HEAPMAX /\ uop.bp \notin lent \cup OnRing

(* Before the first malloc() there is no ring.  After it base is in it.    *)
RingBegins ==
  /\ header[base].size = 0
  /\ IF freep = Null THEN OnRing = {} /\ lent = {} ELSE freep \in OnRing /\ base \in OnRing
  /\ lent \cap OnRing = {}

(* Blocks lie below top, beside each other, and leave nothing out.         *)
BlocksApart ==
  /\ \A a \in 1 .. HEAPMAX : IsBlock(a) =>
       /\ header[a].size >= 1 /\ a + header[a].size <= top
       /\ \A u \in extra : u < a \/ a + header[a].size <= u
  /\ \A a, b \in 1 .. HEAPMAX : IsBlock(a) /\ IsBlock(b) /\ a < b => a + header[a].size <= b

BlocksCover ==
  \A u \in 1 .. top - 1 : u \in extra \/ \E a \in 1 .. HEAPMAX : IsBlock(a) /\ a <= u /\ u < a + header[a].size

ExtraBelow == \A u \in extra : u < top

(* The ring goes up through the free blocks, which do not touch.           *)
RingRises ==
  \A a \in OnRing :
    /\ header[a].ptr \in OnRing
    /\ header[a].ptr = base => \A b \in OnRing : b <= a
    /\ header[a].ptr # base => header[a].ptr > a /\ \A b \in OnRing : b <= a \/ header[a].ptr <= b

RingJoined == \A a, b \in OnRing : b # base => a + header[a].size # b

ArenaInductive ==
  ArenaTypes /\ CallsKnow /\ RingBegins /\ BlocksApart /\ BlocksCover /\ ExtraBelow /\
  RingRises /\ RingJoined

LEMMA ArenaNumbers ==
  /\ HEAPMAX \in Nat /\ NALLOC \in Nat /\ NALLOC >= 1 /\ MaxUnits \in Nat
  /\ Null = HEAPMAX + 1 /\ base = 0 /\ base \in Addresses
  /\ Null \notin Addresses /\ Addresses = {base} \cup 1 .. HEAPMAX
  /\ Addresses \subseteq Nat
BY UmallocAssumption DEF UmallocAssumption, Null, base, Addresses

LEMMA RingKinds ==
  ASSUME ArenaInductive
  PROVE  /\ \A a \in OnRing : a \in Addresses /\ a \in Nat /\ (a # base => a \in 1 .. HEAPMAX /\ IsBlock(a))
         /\ \A a \in Addresses : a \in OnRing <=> header[a].ptr # Null
         /\ \A a \in Addresses : header[a].size \in Nat /\ header[a].ptr \in 0 .. HEAPMAX + 1
BY ArenaNumbers DEF ArenaInductive, ArenaTypes, OnRing, IsBlock

LEMMA ArenaInit == UInit => ArenaInductive
<1> SUFFICES ASSUME UInit PROVE ArenaInductive
  OBVIOUS
<1> USE ArenaNumbers
<1>1. \A a \in Addresses : header[a] = [ptr |-> Null, size |-> 0]
  BY DEF UInit, NoHeader
<1>2. OnRing = {}
  BY <1>1 DEF OnRing
<1>3. \A a \in 1 .. HEAPMAX : ~IsBlock(a)
  BY <1>2 DEF IsBlock, UInit, NoCall
<1>4. ArenaTypes
  BY DEF ArenaTypes, UInit, NoHeader, NoCall
<1>5. CallsKnow /\ RingBegins
  BY <1>1, <1>2 DEF CallsKnow, RingBegins, UInit, NoCall
<1>6. BlocksApart /\ BlocksCover /\ ExtraBelow
  BY <1>3 DEF BlocksApart, BlocksCover, ExtraBelow, UInit
<1>7. RingRises /\ RingJoined
  BY <1>2 DEF RingRises, RingJoined
<1> QED
  BY <1>4, <1>5, <1>6, <1>7 DEF ArenaInductive

(* A step that leaves the blocks as they are.                              *)
LEMMA SameBlocks ==
  ASSUME ArenaInductive, ArenaTypes', CallsKnow', RingBegins',
         UNCHANGED <<header, top, extra>>,
         \A a \in 1 .. HEAPMAX : IsBlock(a)' <=> IsBlock(a)
  PROVE  ArenaInductive'
<1>1. OnRing' = OnRing
  BY DEF OnRing
<1>3. BlocksApart' /\ BlocksCover' /\ ExtraBelow'
  BY DEF ArenaInductive, BlocksApart, BlocksCover, ExtraBelow
<1>4. RingRises' /\ RingJoined'
  BY <1>1 DEF ArenaInductive, RingRises, RingJoined
<1> QED
  BY <1>3, <1>4 DEF ArenaInductive

LEMMA MallocKeeps ==
  ASSUME ArenaInductive, NEW n \in 1 .. MaxUnits, Malloc(n)
  PROVE  ArenaInductive'
<1> USE ArenaNumbers
<1>1. CASE freep # Null
  <2>1. /\ UNCHANGED <<header, freep, top, lent, extra>> /\ uop.do = "idle"
        /\ uop' = [do |-> "search", need |-> n, prevp |-> freep, bp |-> Null]
    BY <1>1 DEF Malloc, NoCall
  <2>2. OnRing' = OnRing
    BY <2>1 DEF OnRing
  <2>3. \A a \in 1 .. HEAPMAX : IsBlock(a)' <=> IsBlock(a)
    BY <2>1, <2>2 DEF IsBlock, ArenaInductive, CallsKnow
  <2>4. ArenaTypes'
    BY <2>1 DEF ArenaInductive, ArenaTypes
  <2>5. CallsKnow' /\ RingBegins'
    BY <2>1, <2>2, <1>1 DEF ArenaInductive, CallsKnow, RingBegins
  <2> QED
    BY <2>1, <2>3, <2>4, <2>5, SameBlocks
<1>2. CASE freep = Null
  <2>1. /\ header' = [header EXCEPT ![base] = [ptr |-> base, size |-> 0]] /\ freep' = base
        /\ UNCHANGED <<top, lent, extra>> /\ uop.do = "idle"
        /\ uop' = [do |-> "search", need |-> n, prevp |-> base, bp |-> Null]
    BY <1>2 DEF Malloc, NoCall
  <2>2. /\ header \in [Addresses -> [ptr : 0 .. HEAPMAX + 1, size : Nat]]
        /\ OnRing = {} /\ lent = {} /\ uop.bp = Null /\ uop'.bp = Null
    BY <1>2, <2>1 DEF ArenaInductive, ArenaTypes, RingBegins, CallsKnow
  <2>3. OnRing' = {base}
    BY <2>1, <2>2 DEF OnRing
  <2>4. header'[base].ptr = base /\ header'[base].size = 0
    BY <2>1, <2>2
  <2>5. \A a \in 1 .. HEAPMAX : ~IsBlock(a) /\ ~IsBlock(a)'
    BY <2>1, <2>2, <2>3 DEF IsBlock
  <2>6. ArenaTypes'
    BY <2>1, <2>2 DEF ArenaInductive, ArenaTypes
  <2>7. CallsKnow' /\ RingBegins'
    BY <2>1, <2>2, <2>3, <2>4 DEF CallsKnow, RingBegins
  <2>8. BlocksApart' /\ BlocksCover' /\ ExtraBelow'
    BY <2>1, <2>5 DEF ArenaInductive, BlocksApart, BlocksCover, ExtraBelow
  <2>9. RingRises' /\ RingJoined'
    BY <2>3, <2>4 DEF RingRises, RingJoined
  <2> QED
    BY <2>6, <2>7, <2>8, <2>9 DEF ArenaInductive
<1> QED
  BY <1>1, <1>2

LEMMA WalkKeeps ==
  ASSUME ArenaInductive, NextBlock \/ Seek \/ NoCore \/ \E a \in Addresses : FreeCall(a)
  PROVE  ArenaInductive'
<1> USE ArenaNumbers
<1>a. UNCHANGED <<header, freep, top, extra>>
  BY Zenon DEF NextBlock, Seek, NoCore, FreeCall
<1>1. UNCHANGED <<header, freep, top, extra>> /\ OnRing' = OnRing
  BY <1>a DEF OnRing
<1>2. CASE NextBlock \/ Seek
  <2>1. uop.do # "idle" /\ uop' = [uop EXCEPT !.prevp = Looked] /\ UNCHANGED lent
    BY <1>2 DEF NextBlock, Seek
  <2>2. Looked \in OnRing /\ Looked \in 0 .. HEAPMAX + 1
    BY <2>1, RingKinds DEF ArenaInductive, CallsKnow, RingRises, Looked
  <2>3. \A a \in 1 .. HEAPMAX : IsBlock(a)' <=> IsBlock(a)
    BY <1>1, <2>1 DEF IsBlock, ArenaInductive, ArenaTypes
  <2>4. ArenaTypes'
    BY <1>1, <2>1, <2>2 DEF ArenaInductive, ArenaTypes
  <2>5. CallsKnow' /\ RingBegins'
    BY <1>1, <2>1, <2>2 DEF ArenaInductive, ArenaTypes, CallsKnow, RingBegins
  <2> QED
    BY <1>1, <2>3, <2>4, <2>5, SameBlocks
<1>3. CASE NoCore
  <2>1. \A a \in 1 .. HEAPMAX : IsBlock(a)' <=> IsBlock(a)
    BY <1>1, <1>3 DEF NoCore, NoCall, IsBlock, ArenaInductive, CallsKnow
  <2>2. ArenaTypes'
    BY <1>1, <1>3 DEF NoCore, NoCall, ArenaInductive, ArenaTypes
  <2>3. CallsKnow' /\ RingBegins'
    BY <1>1, <1>3 DEF NoCore, NoCall, ArenaInductive, CallsKnow, RingBegins
  <2> QED
    BY <1>1, <2>1, <2>2, <2>3, SameBlocks
<1>4. ASSUME NEW b \in Addresses, FreeCall(b) PROVE ArenaInductive'
  <2>a. /\ lent' = lent \ {b} /\ b \in lent /\ uop.do = "idle"
        /\ uop' = [NoCall EXCEPT !.do = "free", !.bp = b, !.prevp = freep]
    BY <1>4, Zenon DEF FreeCall
  <2>b. uop' = [do |-> "free", need |-> 0, prevp |-> freep, bp |-> b]
    BY <2>a DEF NoCall
  <2>1. /\ lent' = lent \ {b} /\ b \in lent /\ b \in 1 .. HEAPMAX /\ uop.bp = Null
        /\ uop' = [do |-> "free", need |-> 0, prevp |-> freep, bp |-> b]
    BY <2>a, <2>b DEF ArenaInductive, ArenaTypes, CallsKnow
  <2>2. freep # Null /\ b \notin OnRing
    BY <2>1 DEF ArenaInductive, RingBegins
  <2>3. \A a \in 1 .. HEAPMAX : IsBlock(a)' <=> IsBlock(a)
    BY <1>1, <2>1 DEF IsBlock
  <2>4. ArenaTypes'
    BY <1>1, <2>1 DEF ArenaInductive, ArenaTypes
  <2>5. CallsKnow' /\ RingBegins'
    BY <1>1, <2>1, <2>2 DEF ArenaInductive, CallsKnow, RingBegins
  <2> QED
    BY <1>1, <2>3, <2>4, <2>5, SameBlocks
<1> QED
  BY <1>2, <1>3, <1>4


LEMMA OwnSbrkKeeps ==
  ASSUME ArenaInductive, OwnSbrk
  PROVE  ArenaInductive'
<1> USE ArenaNumbers
<1>1. /\ UNCHANGED <<header, freep, lent, uop>> /\ top' = top + 1
      /\ extra' = extra \cup {top} /\ top \in 1 .. HEAPMAX /\ OnRing' = OnRing
  BY DEF OwnSbrk, OnRing, ArenaInductive, ArenaTypes
<1>2. \A a \in 1 .. HEAPMAX : IsBlock(a)' <=> IsBlock(a)
  BY <1>1 DEF IsBlock
<1>4. ArenaTypes' /\ CallsKnow' /\ RingBegins' /\ RingRises' /\ RingJoined'
  BY <1>1 DEF ArenaInductive, ArenaTypes, CallsKnow, RingBegins, RingRises, RingJoined
<1>5. BlocksApart'
  <2>1. ASSUME NEW a \in 1 .. HEAPMAX, IsBlock(a)
        PROVE  /\ header[a].size >= 1 /\ a + header[a].size <= top + 1
               /\ \A u \in extra \cup {top} : u < a \/ a + header[a].size <= u
    BY <2>1, <1>1, RingKinds DEF ArenaInductive, BlocksApart
  <2>2. \A a, b \in 1 .. HEAPMAX : IsBlock(a) /\ IsBlock(b) /\ a < b => a + header[a].size <= b
    BY DEF ArenaInductive, BlocksApart
  <2> QED
    BY <1>1, <1>2, <2>1, <2>2 DEF BlocksApart
<1>6. BlocksCover' /\ ExtraBelow'
  <2>1. \A u \in 1 .. top - 1 : u \in extra \/ \E a \in 1 .. HEAPMAX : IsBlock(a) /\ a <= u /\ u < a + header[a].size
    BY DEF ArenaInductive, BlocksCover
  <2>2. \A u \in 1 .. top' - 1 : u = top \/ u \in 1 .. top - 1
    BY <1>1
  <2>3. BlocksCover'
    BY <1>1, <1>2, <2>1, <2>2 DEF BlocksCover
  <2> QED
    BY <1>1, <2>3 DEF ArenaInductive, ExtraBelow, ArenaTypes
<1> QED
  BY <1>4, <1>5, <1>6 DEF ArenaInductive

LEMMA MoreCoreKeeps ==
  ASSUME ArenaInductive, MoreCore
  PROVE  ArenaInductive'
<1> USE ArenaNumbers
<1>1. /\ uop.do = "search" /\ Ask \in Nat /\ Ask >= 1 /\ top + Ask <= HEAPMAX /\ top \in 1 .. HEAPMAX
      /\ header' = [header EXCEPT ![top] = [ptr |-> Null, size |-> Ask]]
      /\ top' = top + Ask /\ UNCHANGED <<freep, lent, extra>>
      /\ uop' = [uop EXCEPT !.do = "refill", !.bp = top, !.prevp = freep]
  BY DEF MoreCore, Ask, ArenaInductive, ArenaTypes, CallsKnow
<1>2. \A a \in Addresses : (a \in OnRing \/ a \in lent) => a < top
  BY <1>1, RingKinds DEF ArenaInductive, ArenaTypes, BlocksApart, IsBlock
<1>3. /\ header'[top] = [ptr |-> Null, size |-> Ask]
      /\ \A a \in Addresses : a # top => header'[a] = header[a]
  BY <1>1 DEF ArenaInductive, ArenaTypes
<1>4. OnRing' = OnRing
  BY <1>1, <1>2, <1>3 DEF OnRing
<1>5. \A a \in 1 .. HEAPMAX : IsBlock(a)' <=> IsBlock(a) \/ a = top
  BY <1>1, <1>4 DEF IsBlock, ArenaInductive, ArenaTypes, CallsKnow
<1>6. ~IsBlock(top)
  BY <1>1, <1>2 DEF IsBlock, ArenaInductive, CallsKnow
<1>8. ArenaTypes'
  <2>1. header' \in [Addresses -> [ptr : 0 .. HEAPMAX + 1, size : Nat]]
    BY <1>1 DEF ArenaInductive, ArenaTypes
  <2>2. uop' \in [do : {"idle", "search", "free", "refill"}, need : Nat,
                  prevp : 0 .. HEAPMAX + 1, bp : 0 .. HEAPMAX + 1]
    <3>1. uop' = [do |-> "refill", need |-> uop.need, prevp |-> freep, bp |-> top]
      BY <1>1 DEF ArenaInductive, ArenaTypes
    <3>2. uop.need \in Nat /\ freep \in 0 .. HEAPMAX + 1 /\ top \in 0 .. HEAPMAX + 1
      BY <1>1 DEF ArenaInductive, ArenaTypes
    <3> QED
      BY <3>1, <3>2
  <2> QED
    BY <1>1, <2>1, <2>2 DEF ArenaInductive, ArenaTypes
<1>9. CallsKnow' /\ RingBegins'
  BY <1>1, <1>2, <1>3, <1>4 DEF ArenaInductive, ArenaTypes, CallsKnow, RingBegins
<1>10. BlocksApart'
  <2>1. ASSUME NEW a \in 1 .. HEAPMAX, IsBlock(a)'
        PROVE  /\ header'[a].size >= 1 /\ a + header'[a].size <= top'
               /\ \A u \in extra' : u < a \/ a + header'[a].size <= u
    <3>1. CASE a = top
      <4>1. header'[top].size = Ask
        BY <1>3
      <4>2. \A u \in extra' : u < top
        BY <1>1 DEF ArenaInductive, ExtraBelow
      <4> QED
        BY <3>1, <4>1, <4>2, <1>1
    <3>2. CASE a # top
      <4>1. IsBlock(a) /\ header'[a] = header[a] /\ header[a].size \in Nat
        BY <2>1, <3>2, <1>3, <1>5, RingKinds
      <4>2. /\ header[a].size >= 1 /\ a + header[a].size <= top
            /\ \A u \in extra : u < a \/ a + header[a].size <= u
        BY <4>1 DEF ArenaInductive, BlocksApart
      <4> QED
        BY <4>1, <4>2, <1>1
    <3> QED
      BY <3>1, <3>2
  <2>2. ASSUME NEW a \in 1 .. HEAPMAX, NEW b \in 1 .. HEAPMAX, IsBlock(a)', IsBlock(b)', a < b
        PROVE  a + header'[a].size <= b
    BY <2>2, <1>1, <1>3, <1>5, RingKinds DEF ArenaInductive, BlocksApart, ArenaTypes
  <2> QED
    BY <2>1, <2>2 DEF BlocksApart
<1>11. BlocksCover' /\ ExtraBelow'
  <2>1. ASSUME NEW u \in 1 .. top' - 1, u \notin extra'
        PROVE  \E a \in 1 .. HEAPMAX : IsBlock(a)' /\ a <= u /\ u < a + header'[a].size
    <3>1. CASE u >= top
      <4>1. PICK t \in 1 .. HEAPMAX : t = top
        BY <1>1
      <4>2. header'[t].size = Ask /\ IsBlock(t)'
        BY <1>3, <1>5, <4>1
      <4>3. u \in Nat /\ u < top + Ask
        BY <1>1
      <4> QED
        BY <3>1, <4>1, <4>2, <4>3, <1>1
    <3>2. CASE u < top
      <4>1. u \in 1 .. top - 1
        BY <3>2, <1>1
      <4>2. PICK a \in 1 .. HEAPMAX : IsBlock(a) /\ a <= u /\ u < a + header[a].size
        BY <4>1, <2>1, <1>1 DEF ArenaInductive, BlocksCover
      <4>3. header'[a] = header[a] /\ IsBlock(a)'
        BY <4>2, <1>3, <1>5, <1>6
      <4> QED
        BY <4>2, <4>3
    <3> QED
      BY <3>1, <3>2, <1>1
  <2> QED
    BY <2>1, <1>1 DEF ArenaInductive, ArenaTypes, BlocksCover, ExtraBelow
<1>12. RingRises' /\ RingJoined'
  <2>1. \A a \in OnRing : header'[a] = header[a]
    BY <1>2, <1>3, RingKinds, <1>1
  <2> QED
    BY <2>1, <1>4 DEF ArenaInductive, RingRises, RingJoined
<1> QED
  BY <1>8, <1>9, <1>10, <1>11, <1>12 DEF ArenaInductive

(* The block that malloc() looks at, when it is large enough: it is on the *)
(* ring and not base.                                                      *)
LEMMA LookedAt ==
  ASSUME ArenaInductive, uop.do = "search", header[Looked].size >= uop.need
  PROVE  /\ Looked \in OnRing /\ Looked \in 1 .. HEAPMAX /\ IsBlock(Looked)
         /\ uop.prevp \in OnRing /\ uop.prevp \in Addresses /\ uop.prevp # Looked
         /\ header[uop.prevp].ptr = Looked /\ uop.prevp < Looked
         /\ uop.need \in Nat /\ uop.need >= 1 /\ freep # Null
<1> USE ArenaNumbers
<1>1. uop.prevp \in OnRing /\ uop.need >= 1 /\ uop.need \in Nat /\ header[base].size = 0 /\ freep # Null
  BY DEF ArenaInductive, ArenaTypes, CallsKnow, RingBegins
<1>2. Looked \in OnRing /\ header[uop.prevp].ptr = Looked
  BY <1>1 DEF ArenaInductive, RingRises, Looked
<1>3. Looked # base
  BY <1>1
<1> QED
  BY <1>1, <1>2, <1>3, RingKinds DEF ArenaInductive, RingRises

LEMMA TakeAllKeeps ==
  ASSUME ArenaInductive, TakeAll
  PROVE  ArenaInductive'
<1> USE ArenaNumbers
<1> DEFINE p == Looked
           q == uop.prevp
<1>1. /\ uop.do = "search" /\ header[p].size = uop.need
      /\ header' = [header EXCEPT ![q].ptr = header[p].ptr, ![p].ptr = Null]
      /\ lent' = lent \cup {p} /\ freep' = q /\ UNCHANGED <<top, extra>>
      /\ uop' = [do |-> "idle", need |-> 0, prevp |-> Null, bp |-> Null]
  BY DEF TakeAll, NoCall
<1>2. /\ p \in OnRing /\ p \in 1 .. HEAPMAX /\ IsBlock(p)
      /\ q \in OnRing /\ q \in Addresses /\ q # p /\ header[q].ptr = p /\ q < p /\ freep # Null
  <2>1. header[p].size >= uop.need
    BY <1>1 DEF ArenaInductive, ArenaTypes
  <2> QED
    BY <2>1, <1>1, LookedAt
<1> HIDE DEF p, q
<1>3. /\ \A a \in Addresses : header'[a].size = header[a].size
      /\ header'[p].ptr = Null /\ header'[q].ptr = header[p].ptr
      /\ \A a \in Addresses : a \notin {p, q} => header'[a].ptr = header[a].ptr
  BY <1>1, <1>2 DEF ArenaInductive, ArenaTypes
<1>4. OnRing' = OnRing \ {p}
  BY <1>2, <1>3, RingKinds DEF OnRing
<1>5. \A a \in 1 .. HEAPMAX : IsBlock(a)' <=> IsBlock(a)
  BY <1>1, <1>2, <1>4 DEF IsBlock, ArenaInductive, CallsKnow
<1>7. ArenaTypes'
  <2>1. header[p].ptr \in 0 .. HEAPMAX + 1
    BY <1>2, RingKinds
  <2> QED
    BY <1>1, <1>2, <2>1 DEF ArenaInductive, ArenaTypes
<1>8. CallsKnow' /\ RingBegins'
  <2>1. uop'.do = "idle" /\ uop'.bp = Null
    BY <1>1
  <2>2. freep' \in OnRing' /\ base \in OnRing' /\ freep' # Null
    BY <1>1, <1>2, <1>4 DEF ArenaInductive, RingBegins
  <2> QED
    BY <1>1, <1>3, <1>4, <2>1, <2>2 DEF ArenaInductive, CallsKnow, RingBegins
<1>9. BlocksApart' /\ BlocksCover' /\ ExtraBelow'
  <2>1. \A a \in 1 .. HEAPMAX : header'[a].size = header[a].size
    BY <1>3
  <2>2. BlocksApart'
    BY <1>1, <1>5, <2>1, ZenonT(60) DEF ArenaInductive, BlocksApart
  <2>3. BlocksCover'
    BY <1>1, <1>5, <2>1 DEF ArenaInductive, BlocksCover
  <2> QED
    BY <1>1, <2>2, <2>3 DEF ArenaInductive, ExtraBelow
<1>10. RingRises'
  <2>1. ASSUME NEW a \in OnRing, a # p
        PROVE  /\ header'[a].ptr \in OnRing /\ header'[a].ptr # p
               /\ header'[a].ptr = base => \A b \in OnRing : b # p => b <= a
               /\ header'[a].ptr # base =>
                    header'[a].ptr > a /\ \A b \in OnRing : b # p => b <= a \/ header'[a].ptr <= b
    <3>1. CASE a = q
      <4> DEFINE r == header[p].ptr
      <4>1. /\ r \in OnRing /\ (r = base => \A b \in OnRing : b <= p)
            /\ r # base => r > p /\ \A b \in OnRing : b <= p \/ r <= b
        BY <1>2 DEF ArenaInductive, RingRises
      <4>2. \A b \in OnRing : b <= q \/ p <= b
        BY <1>2 DEF ArenaInductive, RingRises
      <4>3. header'[a].ptr = r
        BY <3>1, <1>3
      <4>4. \A b \in OnRing : b \in Nat
        BY RingKinds
      <4> HIDE DEF r
      <4>a. r \in Nat /\ p \in Nat /\ q \in Nat /\ p # base
        <5>1. p \in OnRing /\ q \in OnRing /\ p # base
          BY <1>2, ArenaNumbers
        <5> QED
          BY <5>1, <4>1, <4>4
      <4>5. r # p /\ r \in Nat /\ p \in Nat /\ q \in Nat
        BY <4>1, <4>a
      <4>6. r = base => \A b \in OnRing : b # p => b <= q
        BY <4>1, <4>2, <4>4, <4>5
      <4>7. r # base => r > q /\ \A b \in OnRing : b # p => b <= q \/ r <= b
        BY <4>1, <4>2, <4>4, <4>5, <1>2
      <4> QED
        BY <3>1, <4>1, <4>3, <4>5, <4>6, <4>7
    <3>2. CASE a # q
      <4>1. header'[a].ptr = header[a].ptr
        BY <2>1, <3>2, <1>3, RingKinds
      <4>2. header[a].ptr # p
        BY <2>1, <3>2, <1>2, RingKinds DEF ArenaInductive, RingRises
      <4> QED
        BY <4>1, <4>2 DEF ArenaInductive, RingRises
    <3> QED
      BY <3>1, <3>2
  <2> QED
    BY <2>1, <1>4 DEF RingRises
<1>11. RingJoined'
  BY <1>3, <1>4, RingKinds DEF ArenaInductive, RingJoined
<1> QED
  BY <1>7, <1>8, <1>9, <1>10, <1>11 DEF ArenaInductive

LEMMA TakeTailKeeps ==
  ASSUME ArenaInductive, TakeTail
  PROVE  ArenaInductive'
<1> USE ArenaNumbers
<1>1. PICK p \in 1 .. HEAPMAX, t \in 1 .. HEAPMAX, rest \in Nat :
        /\ p = Looked /\ rest = header[p].size - uop.need /\ t = p + rest
        /\ rest >= 1 /\ p < t /\ p \in OnRing /\ IsBlock(p)
        /\ t + uop.need = p + header[p].size /\ uop.need \in Nat /\ uop.need >= 1
        /\ uop.prevp \in OnRing /\ freep # Null
  <2>1. Looked \in OnRing /\ header[Looked].size \in Nat
    <3>1. uop.prevp \in OnRing
      BY DEF TakeTail, ArenaInductive, CallsKnow
    <3> QED
      BY <3>1, RingKinds DEF Looked, ArenaInductive, RingRises
  <2>2. uop.do = "search" /\ header[Looked].size > uop.need /\ uop.need \in Nat
    BY DEF TakeTail, ArenaInductive, ArenaTypes
  <2>3. /\ Looked \in 1 .. HEAPMAX /\ IsBlock(Looked) /\ uop.need >= 1
        /\ uop.prevp \in OnRing /\ freep # Null
    BY <2>1, <2>2, LookedAt
  <2>4. Looked + header[Looked].size <= top /\ top \in Nat /\ top <= HEAPMAX + 1
    BY <2>3 DEF ArenaInductive, BlocksApart, ArenaTypes
  <2>5. /\ Looked + (header[Looked].size - uop.need) \in 1 .. HEAPMAX
        /\ header[Looked].size - uop.need \in Nat /\ header[Looked].size - uop.need >= 1
        /\ Looked + (header[Looked].size - uop.need) + uop.need = Looked + header[Looked].size
        /\ Looked < Looked + (header[Looked].size - uop.need)
    BY <2>1, <2>2, <2>3, <2>4
  <2> QED
    BY <2>1, <2>2, <2>3, <2>5
<1>2. /\ header' = [header EXCEPT ![p].size = rest, ![t] = [ptr |-> Null, size |-> uop.need]]
      /\ lent' = lent \cup {t} /\ freep' = uop.prevp /\ UNCHANGED <<top, extra>>
      /\ uop.do = "search" /\ uop' = [do |-> "idle", need |-> 0, prevp |-> Null, bp |-> Null]
  BY <1>1 DEF TakeTail, NoCall
<1>3. /\ header'[p] = [ptr |-> header[p].ptr, size |-> rest]
      /\ header'[t] = [ptr |-> Null, size |-> uop.need]
      /\ \A a \in Addresses : a \notin {p, t} => header'[a] = header[a]
  BY <1>1, <1>2 DEF ArenaInductive, ArenaTypes
<1>4. ~IsBlock(t)
  BY <1>1, RingKinds DEF ArenaInductive, BlocksApart
<1>5. OnRing' = OnRing
  BY <1>1, <1>3, <1>4, RingKinds DEF OnRing, IsBlock
<1>6. \A a \in 1 .. HEAPMAX : IsBlock(a)' <=> IsBlock(a) \/ a = t
  BY <1>2, <1>5 DEF IsBlock, ArenaInductive, CallsKnow
<1>7. /\ header'[p].size = rest /\ header'[t].size = uop.need
      /\ \A a \in 1 .. HEAPMAX : a \notin {p, t} => header'[a].size = header[a].size
      /\ header'[base].size = header[base].size
      /\ \A a \in OnRing : header'[a].ptr = header[a].ptr
  BY <1>1, <1>3, <1>4, RingKinds DEF IsBlock
<1>8. ArenaTypes'
  <2>1. header[p].ptr \in 0 .. HEAPMAX + 1
    BY <1>1, RingKinds
  <2>2. header' \in [Addresses -> [ptr : 0 .. HEAPMAX + 1, size : Nat]]
    BY <1>1, <1>2, <2>1 DEF ArenaInductive, ArenaTypes
  <2> QED
    BY <1>1, <1>2, <2>2, RingKinds, ZenonT(60) DEF ArenaInductive, ArenaTypes
<1>9. CallsKnow' /\ RingBegins'
  <2>1. uop'.do = "idle" /\ uop'.bp = Null
    BY <1>2
  <2>2. t \notin OnRing
    BY <1>4 DEF IsBlock
  <2>3. CallsKnow'
    BY <2>1 DEF CallsKnow
  <2>4. freep \in OnRing /\ base \in OnRing /\ header[base].size = 0 /\ lent \cap OnRing = {}
    BY <1>1 DEF ArenaInductive, RingBegins
  <2>5. header'[base].size = 0 /\ freep' \in OnRing' /\ base \in OnRing' /\ freep' # Null
    BY <1>1, <1>2, <1>5, <1>7, <2>4, RingKinds, ZenonT(60)
  <2>6. lent' \cap OnRing' = {}
    BY <1>2, <1>5, <2>2, <2>4
  <2> QED
    BY <2>3, <2>5, <2>6 DEF RingBegins
<1>10. BlocksApart'
  <2>1. \A a \in 1 .. HEAPMAX : IsBlock(a) =>
          /\ header[a].size >= 1 /\ a + header[a].size <= top /\ header[a].size \in Nat
          /\ \A u \in extra : u < a \/ a + header[a].size <= u
    BY RingKinds DEF ArenaInductive, BlocksApart
  <2>2. \A a, b \in 1 .. HEAPMAX : IsBlock(a) /\ IsBlock(b) /\ a < b => a + header[a].size <= b
    BY DEF ArenaInductive, BlocksApart
  <2>3. top \in Nat /\ extra \subseteq Nat
    BY DEF ArenaInductive, ArenaTypes
  <2>4. ASSUME NEW a \in 1 .. HEAPMAX, IsBlock(a) \/ a = t
        PROVE  /\ header'[a].size >= 1 /\ a + header'[a].size <= top
               /\ \A u \in extra : u < a \/ a + header'[a].size <= u
    <3>1. CASE a = p
      BY <3>1, <1>1, <1>7, <2>1, <2>3
    <3>2. CASE a = t
      BY <3>2, <1>1, <1>7, <2>1, <2>3
    <3>3. CASE a \notin {p, t}
      BY <3>3, <1>7, <2>1, <2>4
    <3> QED
      BY <3>1, <3>2, <3>3
  <2>5. ASSUME NEW a \in 1 .. HEAPMAX, NEW b \in 1 .. HEAPMAX, IsBlock(a) \/ a = t, IsBlock(b) \/ b = t, a < b
        PROVE  a + header'[a].size <= b
    BY <1>1, <1>7, <2>1, <2>2, <2>5
  <2>6. ASSUME NEW a \in 1 .. HEAPMAX, IsBlock(a)'
        PROVE  /\ header'[a].size >= 1 /\ a + header'[a].size <= top'
               /\ \A u \in extra' : u < a \/ a + header'[a].size <= u
    BY <2>6, <1>2, <1>6, <2>4
  <2>7. ASSUME NEW a \in 1 .. HEAPMAX, NEW b \in 1 .. HEAPMAX, IsBlock(a)', IsBlock(b)', a < b
        PROVE  a + header'[a].size <= b
    BY <2>7, <1>6, <2>5
  <2> QED
    BY <2>6, <2>7 DEF BlocksApart
<1>11. BlocksCover' /\ ExtraBelow'
  <2>1. ASSUME NEW u \in 1 .. top - 1, u \notin extra
        PROVE  \E a \in 1 .. HEAPMAX : (IsBlock(a) \/ a = t) /\ a <= u /\ u < a + header'[a].size
    <3>1. PICK a \in 1 .. HEAPMAX : IsBlock(a) /\ a <= u /\ u < a + header[a].size
      BY <2>1 DEF ArenaInductive, BlocksCover
    <3>2. CASE a = p /\ u >= t
      BY <3>1, <3>2, <1>1, <1>7
    <3>3. CASE a = p /\ u < t
      BY <3>1, <3>3, <1>1, <1>7
    <3>4. CASE a # p
      BY <3>1, <3>4, <1>4, <1>7
    <3> QED
      BY <3>2, <3>3, <3>4, <1>1
  <2>2. BlocksCover'
    BY <1>2, <1>6, <2>1 DEF BlocksCover
  <2> QED
    BY <1>2, <2>2 DEF ArenaInductive, ExtraBelow
<1>12. RingRises'
  BY <1>5, <1>7 DEF ArenaInductive, RingRises
<1>13. RingJoined'
  <2>1. ASSUME NEW a \in OnRing, NEW b \in OnRing, b # base PROVE a + header'[a].size # b
    <3>1. CASE a = p
      <4>1. IsBlock(b) /\ b \in 1 .. HEAPMAX
        BY <2>1, RingKinds
      <4>2. b # t
        BY <4>1, <1>4
      <4> QED
        BY <3>1, <4>2, <1>1, <1>7
    <3>2. CASE a # p
      <4>1. header'[a].size = header[a].size
        BY <3>2, <1>4, <1>7, RingKinds DEF IsBlock
      <4> QED
        BY <4>1, <2>1 DEF ArenaInductive, RingJoined
    <3> QED
      BY <3>1, <3>2
  <2> QED
    BY <2>1, <1>5 DEF RingJoined
<1> QED
  BY <1>8, <1>9, <1>10, <1>11, <1>12, <1>13 DEF ArenaInductive

(* Insertion puts bp between q and nx.  z is where the block begins that   *)
(* bp is then part of, e its end, and r the block after it on the ring.    *)
LEMMA InsertionKeeps ==
  ASSUME ArenaInductive, Insertion
  PROVE  ArenaInductive'
<1> USE ArenaNumbers
<1>1. PICK q \in Addresses, nx \in Addresses, bp \in 1 .. HEAPMAX :
        /\ q = uop.prevp /\ nx = Looked /\ bp = uop.bp
        /\ q \in OnRing /\ nx \in OnRing /\ header[q].ptr = nx /\ bp \notin OnRing /\ bp \notin lent
        /\ q < bp /\ (nx = base \/ bp < nx) /\ IsBlock(bp)
  <2>1. /\ uop.prevp \in OnRing /\ uop.bp \in 1 .. HEAPMAX /\ uop.bp \notin lent \cup OnRing
        /\ Belongs(uop.prevp, Looked, uop.bp)
    BY DEF Insertion, ArenaInductive, CallsKnow
  <2>2. /\ Looked \in OnRing
        /\ Looked # base => Looked > uop.prevp
    BY <2>1 DEF ArenaInductive, RingRises, Looked
  <2>3. uop.prevp \in Nat /\ Looked \in Nat /\ uop.bp \in Nat
    BY <2>1, <2>2, RingKinds
  <2>4. uop.prevp < uop.bp /\ (Looked = base \/ uop.bp < Looked)
    BY <2>1, <2>2, <2>3 DEF Belongs
  <2> QED
    BY <2>1, <2>2, <2>4, RingKinds DEF Looked, IsBlock
<1>2. /\ \A a \in 1 .. HEAPMAX : IsBlock(a) =>
           /\ header[a].size >= 1 /\ a + header[a].size <= top /\ header[a].size \in Nat
           /\ \A u \in extra : u < a \/ a + header[a].size <= u
      /\ \A a, b \in 1 .. HEAPMAX : IsBlock(a) /\ IsBlock(b) /\ a < b => a + header[a].size <= b
      /\ top \in Nat /\ extra \subseteq Nat /\ extra \subseteq 1 .. HEAPMAX /\ header[base].size = 0
  BY RingKinds DEF ArenaInductive, BlocksApart, ArenaTypes, RingBegins
<1>3. /\ \A b \in OnRing : b \in Nat /\ b \in Addresses /\ (b # base => b \in 1 .. HEAPMAX /\ IsBlock(b))
      /\ nx = base => \A b \in OnRing : b <= q
      /\ nx # base => nx > q /\ \A b \in OnRing : b <= q \/ nx <= b
  BY <1>1, RingKinds DEF ArenaInductive, RingRises
<1> DEFINE J == bp + header[bp].size = nx
           K == q + header[q].size = bp
<1>4. PICK z \in 1 .. HEAPMAX, e \in Nat, r \in Addresses, gone \in SUBSET Addresses :
        /\ z = IF K THEN q ELSE bp
        /\ e = IF J THEN nx + header[nx].size ELSE bp + header[bp].size
        /\ r = IF J THEN header[nx].ptr ELSE nx
        /\ gone = (IF J THEN {nx} ELSE {}) \cup (IF K THEN {bp} ELSE {})
  <2>1. K => q \in 1 .. HEAPMAX
    BY <1>1, <1>2
  <2>2. nx \in OnRing /\ header[nx].ptr \in OnRing
    BY <1>1 DEF ArenaInductive, RingRises
  <2> DEFINE ee == IF J THEN nx + header[nx].size ELSE bp + header[bp].size
             rr == IF J THEN header[nx].ptr ELSE nx
             zz == IF K THEN q ELSE bp
             gg == (IF J THEN {nx} ELSE {}) \cup (IF K THEN {bp} ELSE {})
  <2>3. ee \in Nat
    BY <1>1, RingKinds
  <2>4. rr \in Addresses /\ gg \in SUBSET Addresses /\ zz \in 1 .. HEAPMAX
    BY <1>1, <2>1, <2>2, RingKinds
  <2> QED
    BY <2>3, <2>4
<1>5. J => nx # base /\ nx \in 1 .. HEAPMAX /\ IsBlock(nx) /\ nx # q /\ nx # bp
  BY <1>1, <1>2, <1>3
<1>6. K => q # base /\ IsBlock(q)
  BY <1>1, <1>2, <1>3
<1> HIDE DEF J, K
(* What the step has made of the headers.                                  *)
<1>7. /\ \A a \in Addresses : a \in gone => header'[a].ptr = Null
      /\ header'[z].ptr = r /\ header'[z].size \in Nat /\ z + header'[z].size = e
      /\ ~K => header'[q].ptr = bp
      /\ \A a \in Addresses : a \notin gone \cup {z} => header'[a].size = header[a].size
      /\ \A a \in Addresses : a \notin gone \cup {z, q} => header'[a].ptr = header[a].ptr
      /\ header' \in [Addresses -> [ptr : 0 .. HEAPMAX + 1, size : Nat]]
  <2> DEFINE h == JoinNext(header, bp, nx)
  <2>1. header' = JoinPrev(h, q, bp) /\ header \in [Addresses -> [ptr : 0 .. HEAPMAX + 1, size : Nat]]
    BY <1>1 DEF Insertion, ArenaInductive, ArenaTypes
  <2>2. /\ h \in [Addresses -> [ptr : 0 .. HEAPMAX + 1, size : Nat]]
        /\ h[bp].ptr = r /\ h[bp].size \in Nat /\ bp + h[bp].size = e
        /\ J => h[nx] = NoHeader
        /\ \A a \in Addresses : a # bp /\ (J => a # nx) => h[a] = header[a]
    <3>1. CASE J
      <4>1. h = [header EXCEPT ![bp] = [ptr |-> header[nx].ptr, size |-> header[bp].size + header[nx].size],
                               ![nx] = NoHeader]
        BY <3>1, <2>1, <1>1 DEF JoinNext, J
      <4>2. /\ header[bp].size \in Nat /\ header[nx].size \in Nat /\ header[nx].ptr \in 0 .. HEAPMAX + 1
            /\ bp + header[bp].size = nx /\ e = nx + header[nx].size /\ r = header[nx].ptr
        BY <3>1, <1>1, <1>4, RingKinds DEF J
      <4>3. bp # nx /\ bp \in Addresses
        BY <3>1, <1>5
      <4>4. h[bp] = [ptr |-> header[nx].ptr, size |-> header[bp].size + header[nx].size] /\ h[nx] = NoHeader
        BY <4>1, <4>3, <2>1
      <4>a. /\ [ptr |-> header[nx].ptr, size |-> header[bp].size + header[nx].size] \in
                 [ptr : 0 .. HEAPMAX + 1, size : Nat]
            /\ NoHeader \in [ptr : 0 .. HEAPMAX + 1, size : Nat]
        BY <4>2 DEF NoHeader
      <4>5. h \in [Addresses -> [ptr : 0 .. HEAPMAX + 1, size : Nat]]
        BY <4>1, <4>a, <2>1
      <4>6. \A a \in Addresses : a # bp /\ a # nx => h[a] = header[a]
        BY <4>1, <2>1
      <4> HIDE DEF h
      <4> QED
        BY <3>1, <4>2, <4>3, <4>4, <4>5, <4>6
    <3>2. CASE ~J
      <4>1. h = [header EXCEPT ![bp].ptr = nx]
        BY <3>2, <2>1, <1>1 DEF JoinNext, J
      <4>2. bp \in Addresses /\ header[bp].size \in Nat /\ e = bp + header[bp].size /\ r = nx
        BY <3>2, <1>1, <1>4, RingKinds
      <4>3. h[bp] = [ptr |-> nx, size |-> header[bp].size]
        BY <4>1, <4>2, <2>1
      <4>4. h \in [Addresses -> [ptr : 0 .. HEAPMAX + 1, size : Nat]]
        BY <4>1, <4>2, <2>1
      <4>5. \A a \in Addresses : a # bp => h[a] = header[a]
        BY <4>1, <2>1
      <4> HIDE DEF h
      <4> QED
        BY <3>2, <4>2, <4>3, <4>4, <4>5
    <3> QED
      BY <3>1, <3>2
  <2> HIDE DEF h
  <2>3. q # bp /\ (J => q # nx) /\ h[q] = header[q] /\ bp \in Addresses
    BY <1>1, <1>5, <2>2
  <2>4. CASE K
    <3>1. header' = [h EXCEPT ![q] = [ptr |-> h[bp].ptr, size |-> h[q].size + h[bp].size], ![bp] = NoHeader]
      BY <2>1, <2>3, <2>4 DEF JoinPrev, K
    <3>2. /\ z = q /\ h[q].size \in Nat /\ h[bp].ptr \in 0 .. HEAPMAX + 1
          /\ q + h[q].size = bp
      BY <2>2, <2>3, <2>4, <1>1, <1>4 DEF K
    <3>3. /\ header' \in [Addresses -> [ptr : 0 .. HEAPMAX + 1, size : Nat]]
          /\ header'[q] = [ptr |-> h[bp].ptr, size |-> h[q].size + h[bp].size] /\ header'[bp] = NoHeader
          /\ \A a \in Addresses : a # q /\ a # bp => header'[a] = h[a]
      BY <3>1, <3>2, <2>2, <2>3 DEF NoHeader
    <3>4. header'[z].ptr = r /\ header'[z].size \in Nat /\ z + header'[z].size = e
      BY <3>2, <3>3, <2>2, <1>1
    <3>5. \A a \in Addresses : a \in gone => header'[a].ptr = Null
      BY <3>3, <2>2, <2>3, <1>4 DEF NoHeader
    <3>6. \A a \in Addresses : a \notin gone \cup {z} => header'[a] = header[a]
      BY <3>2, <3>3, <2>2, <2>4, <1>4
    <3> QED
      BY <2>4, <3>2, <3>3, <3>4, <3>5, <3>6
  <2>5. CASE ~K
    <3>1. header' = [h EXCEPT ![q].ptr = bp]
      BY <2>1, <2>3, <2>5 DEF JoinPrev, K
    <3>2. /\ header' \in [Addresses -> [ptr : 0 .. HEAPMAX + 1, size : Nat]]
          /\ header'[q].ptr = bp /\ header'[q].size = header[q].size
          /\ \A a \in Addresses : a # q => header'[a] = h[a]
      BY <3>1, <2>2, <2>3
    <3>3. z = bp /\ header'[z] = h[bp]
      BY <2>3, <2>5, <3>2, <1>4
    <3>4. \A a \in Addresses : a \in gone => header'[a].ptr = Null
      BY <3>2, <2>2, <2>3, <2>5, <1>4 DEF NoHeader
    <3>5. \A a \in Addresses : a \notin gone \cup {z, q} => header'[a] = header[a]
      BY <3>2, <3>3, <2>2, <2>5, <1>4
    <3> QED
      BY <3>2, <3>3, <3>4, <3>5, <2>2
  <2> QED
    BY <2>4, <2>5
<1>8. /\ freep' = q /\ UNCHANGED <<top, lent, extra>>
      /\ uop' \in [do : {"idle", "search", "free", "refill"}, need : Nat,
                   prevp : 0 .. HEAPMAX + 1, bp : 0 .. HEAPMAX + 1]
      /\ uop'.bp = Null /\ uop'.do \in {"idle", "search"}
      /\ uop'.do = "search" => uop'.prevp = q /\ uop'.need >= 1
  <2>1. /\ freep' = q /\ UNCHANGED <<top, lent, extra>>
        /\ uop.do \in {"free", "refill"}
        /\ uop' = IF uop.do = "free" THEN [do |-> "idle", need |-> 0, prevp |-> Null, bp |-> Null]
                  ELSE [uop EXCEPT !.do = "search", !.bp = Null]
    BY <1>1 DEF Insertion, NoCall
  <2>2. CASE uop.do = "free"
    BY <2>1, <2>2
  <2>3. CASE uop.do = "refill"
    <3>1. uop' = [do |-> "search", need |-> uop.need, prevp |-> q, bp |-> Null]
      BY <2>1, <2>3, <1>1 DEF ArenaInductive, ArenaTypes
    <3>2. uop.need \in Nat /\ uop.need >= 1
      BY <2>3 DEF ArenaInductive, ArenaTypes, CallsKnow
    <3>3. q \in 0 .. HEAPMAX + 1
      BY <1>1
    <3>4. uop' \in [do : {"idle", "search", "free", "refill"}, need : Nat,
                    prevp : 0 .. HEAPMAX + 1, bp : 0 .. HEAPMAX + 1]
      BY <3>1, <3>2, <3>3
    <3>5. /\ uop'.bp = Null /\ uop'.do \in {"idle", "search"}
          /\ uop'.do = "search" => uop'.prevp = q /\ uop'.need >= 1
      BY <3>1, <3>2
    <3> QED
      BY <2>1, <3>4, <3>5
  <2> QED
    BY <2>1, <2>2, <2>3
<1>a. z \notin gone /\ q \notin gone /\ z \in Addresses /\ z <= bp /\ q <= z
  BY <1>1, <1>4, <1>5
<1>9. OnRing' = (OnRing \cup {z}) \ gone
  <2>1. ASSUME NEW a \in Addresses
        PROVE  header'[a].ptr # Null <=> (a \in OnRing \/ a = z) /\ a \notin gone
    <3>1. CASE a \in gone
      BY <3>1, <1>7
    <3>2. CASE a = z
      BY <3>2, <1>7, <1>a
    <3>3. CASE a = q /\ a # z
      <4>1. ~K
        BY <3>3, <1>4
      <4> QED
        BY <3>3, <4>1, <1>1, <1>7, <1>a
    <3>4. CASE a \notin gone \cup {z, q}
      BY <3>4, <1>7, RingKinds
    <3> QED
      BY <3>1, <3>2, <3>3, <3>4
  <2> QED
    BY <2>1, <1>1, <1>a DEF OnRing
<1>10. \A a \in 1 .. HEAPMAX : IsBlock(a)' <=> IsBlock(a) /\ a \notin gone
  <2>1. bp \in gone \/ bp = z
    BY <1>4
  <2>2. IsBlock(z)
    BY <1>1, <1>4, <1>6
  <2>3. \A a \in gone : a \notin lent /\ a # base
    <3>1. nx \notin lent /\ bp \notin lent
      BY <1>1 DEF ArenaInductive, RingBegins
    <3> QED
      BY <3>1, <1>1, <1>4, <1>5
  <2>4. ASSUME NEW a \in 1 .. HEAPMAX
        PROVE  (a \in (OnRing \cup {z}) \ gone \/ a \in lent) <=> IsBlock(a) /\ a \notin gone
    BY <2>1, <2>2, <2>3, <1>1, <1>4 DEF IsBlock
  <2>5. ASSUME NEW a \in 1 .. HEAPMAX
        PROVE  IsBlock(a)' <=> (a \in (OnRing \cup {z}) \ gone \/ a \in lent)
    BY <1>8, <1>9 DEF IsBlock
  <2> QED
    BY <2>4, <2>5
(* Where the new block lies: what is before it ends before it, and what is *)
(* after it begins after it.                                               *)
<1>11. /\ z < e /\ e <= top
       /\ \A u \in extra : u < z \/ e <= u
       /\ \A a \in 1 .. HEAPMAX : IsBlock(a) /\ a \notin gone /\ a # z =>
            a + header[a].size <= z \/ e <= a
       /\ \A a \in 1 .. HEAPMAX, u \in Nat : IsBlock(a) /\ (a \in gone \/ a = z) /\ a <= u /\ u < a + header[a].size =>
            z <= u /\ u < e
  <2>1. /\ header[bp].size \in Nat /\ header[bp].size >= 1 /\ bp + header[bp].size <= top
        /\ \A u \in extra : u < bp \/ bp + header[bp].size <= u
    BY <1>1, <1>2
  <2>2. J => /\ nx = bp + header[bp].size /\ e = nx + header[nx].size /\ header[nx].size \in Nat
             /\ header[nx].size >= 1 /\ nx + header[nx].size <= top
             /\ \A u \in extra : u < nx \/ nx + header[nx].size <= u
    BY <1>2, <1>4, <1>5 DEF J
  <2>3. ~J => e = bp + header[bp].size
    BY <1>4
  <2>4. K => /\ z = q /\ q + header[q].size = bp /\ q \in 1 .. HEAPMAX /\ header[q].size \in Nat
             /\ \A u \in extra : u < q \/ bp <= u
    BY <1>1, <1>2, <1>4, <1>6 DEF K
  <2>5. ~K => z = bp
    BY <1>4
  <2>6. z < e /\ e <= top
    BY <2>1, <2>2, <2>3, <1>a
  <2>7. ASSUME NEW u \in extra PROVE u < z \/ e <= u
    <3>1. u < bp \/ e <= u
      BY <2>1, <2>2, <2>3, <1>2
    <3> QED
      BY <3>1, <2>4, <2>5, <1>1, <1>2
  <2>8. ASSUME NEW a \in 1 .. HEAPMAX, IsBlock(a), a \notin gone, a # z
        PROVE  a + header[a].size <= z \/ e <= a
    <3>1. a # bp /\ (J => a # nx) /\ header[a].size \in Nat
      BY <2>8, <1>2, <1>4
    <3>2. CASE a < bp
      <4>1. a + header[a].size <= bp
        BY <2>8, <3>2, <1>1, <1>2
      <4>2. CASE K
        <5>1. IsBlock(q) /\ a # q
          BY <4>2, <2>4, <2>8, <1>6
        <5>2. a < q \/ q < a
          BY <5>1, <4>2, <2>4
        <5>3. q < a => bp <= a
          BY <5>1, <4>2, <2>4, <2>8, <1>2
        <5>4. a < q => a + header[a].size <= q
          BY <5>1, <4>2, <2>4, <2>8, <1>2
        <5> QED
          BY <5>2, <5>3, <5>4, <3>2, <4>2, <2>4
      <4> QED
        BY <4>1, <4>2, <2>5
    <3>3. CASE bp < a
      <4>1. bp + header[bp].size <= a
        BY <2>8, <3>3, <1>1, <1>2
      <4>2. CASE J
        <5>1. nx < a /\ IsBlock(nx) /\ nx \in 1 .. HEAPMAX
          BY <4>1, <4>2, <2>2, <3>1, <1>5
        <5> QED
          BY <5>1, <4>2, <2>2, <2>8, <1>2
      <4> QED
        BY <4>1, <4>2, <2>3
    <3> QED
      BY <3>1, <3>2, <3>3, <1>1
  <2>9. ASSUME NEW a \in 1 .. HEAPMAX, NEW u \in Nat, a \in gone \/ a = z, a <= u, u < a + header[a].size
        PROVE  z <= u /\ u < e
    <3>1. (a = nx /\ J) \/ a = bp \/ (a = q /\ K)
      BY <2>9, <1>4
    <3>2. CASE a = nx /\ J
      BY <3>2, <2>9, <2>1, <2>2, <1>a
    <3>3. CASE a = bp
      BY <3>3, <2>9, <2>1, <2>2, <2>3, <1>a
    <3>4. CASE a = q /\ K
      BY <3>4, <2>9, <2>1, <2>2, <2>3, <2>4
    <3> QED
      BY <3>1, <3>2, <3>3, <3>4
  <2> QED
    BY <2>6, <2>7, <2>8, <2>9
<1>12. ArenaTypes' /\ CallsKnow' /\ RingBegins'
  <2>1. ArenaTypes'
    BY <1>1, <1>2, <1>7, <1>8 DEF ArenaInductive, ArenaTypes
  <2>2. base \in OnRing /\ base \notin gone /\ base # z /\ lent \cap OnRing = {}
    BY <1>1, <1>4, <1>5 DEF ArenaInductive, RingBegins, CallsKnow, Insertion
  <2>3. q \in OnRing' /\ base \in OnRing'
    BY <2>2, <1>1, <1>9, <1>a
  <2>4. CallsKnow'
    BY <2>3, <1>1, <1>8 DEF CallsKnow
  <2>5. header'[base].size = 0
    BY <2>2, <1>2, <1>7
  <2>6. lent' \cap OnRing' = {}
    BY <2>2, <1>1, <1>4, <1>8, <1>9
  <2> QED
    BY <2>1, <2>3, <2>4, <2>5, <2>6, <1>1, <1>8 DEF RingBegins
<1>13. BlocksApart'
  <2>1. ASSUME NEW a \in 1 .. HEAPMAX, IsBlock(a), a \notin gone
        PROVE  /\ header'[a].size >= 1 /\ a + header'[a].size <= top
               /\ \A u \in extra : u < a \/ a + header'[a].size <= u
    <3>1. CASE a = z
      BY <3>1, <1>7, <1>11
    <3>2. CASE a # z
      BY <2>1, <3>2, <1>2, <1>7
    <3> QED
      BY <3>1, <3>2
  <2>2. ASSUME NEW a \in 1 .. HEAPMAX, NEW b \in 1 .. HEAPMAX,
               IsBlock(a), a \notin gone, IsBlock(b), b \notin gone, a < b
        PROVE  a + header'[a].size <= b
    <3>1. CASE a = z
      BY <2>2, <3>1, <1>2, <1>7, <1>11
    <3>2. CASE a # z
      BY <2>2, <3>2, <1>2, <1>7
    <3> QED
      BY <3>1, <3>2
  <2>3. ASSUME NEW a \in 1 .. HEAPMAX, IsBlock(a)'
        PROVE  /\ header'[a].size >= 1 /\ a + header'[a].size <= top'
               /\ \A u \in extra' : u < a \/ a + header'[a].size <= u
    BY <2>1, <2>3, <1>8, <1>10
  <2>4. ASSUME NEW a \in 1 .. HEAPMAX, NEW b \in 1 .. HEAPMAX, IsBlock(a)', IsBlock(b)', a < b
        PROVE  a + header'[a].size <= b
    BY <2>2, <2>4, <1>10
  <2> QED
    BY <2>3, <2>4 DEF BlocksApart
<1>14. BlocksCover' /\ ExtraBelow'
  <2>1. ASSUME NEW u \in 1 .. top - 1, u \notin extra
        PROVE  \E a \in 1 .. HEAPMAX : IsBlock(a)' /\ a <= u /\ u < a + header'[a].size
    <3>1. PICK a \in 1 .. HEAPMAX : IsBlock(a) /\ a <= u /\ u < a + header[a].size
      BY <2>1 DEF ArenaInductive, BlocksCover
    <3>2. IsBlock(z)'
      BY <1>1, <1>4, <1>6, <1>10, <1>a
    <3>3. CASE a \in gone \/ a = z
      <4>1. z <= u /\ u < z + header'[z].size
        BY <3>1, <3>3, <1>7, <1>11
      <4> QED
        BY <3>2, <4>1
    <3>4. CASE a \notin gone /\ a # z
      <4>1. IsBlock(a)' /\ header'[a].size = header[a].size
        BY <3>1, <3>4, <1>7, <1>10
      <4> QED
        BY <3>1, <4>1
    <3> QED
      BY <3>3, <3>4
  <2>2. BlocksCover'
    BY <2>1, <1>8 DEF BlocksCover
  <2> QED
    BY <2>2, <1>8 DEF ArenaInductive, ExtraBelow
(* Who follows whom: q alone came before nx.                               *)
<1>15. RingRises'
  <2>1. /\ r \in OnRing /\ r \notin gone /\ r # z
        /\ r = base => \A b \in OnRing \ gone : b <= q
        /\ r # base => r > bp /\ \A b \in OnRing \ gone : b <= q \/ r <= b
    <3>1. bp \notin OnRing /\ q \in Nat /\ nx \in Nat /\ bp \in Nat /\ q < bp
      BY <1>1
    <3>2. CASE J
      <4>1. /\ r = header[nx].ptr /\ r \in OnRing
            /\ r = base => \A b \in OnRing : b <= nx
            /\ r # base => r > nx /\ \A b \in OnRing : b <= nx \/ r <= b
        BY <3>2, <1>1, <1>4 DEF ArenaInductive, RingRises
      <4>2. /\ nx # base /\ bp < nx /\ gone = {nx} \cup (IF K THEN {bp} ELSE {}) /\ nx \in gone
        BY <3>2, <1>1, <1>4, <1>5
      <4>3. \A b \in OnRing \ gone : b \in Nat /\ b # nx /\ (b <= q \/ nx <= b)
        BY <4>2, <1>3
      <4>4. r # nx /\ r \in Nat
        BY <4>1, <4>2, <1>3
      <4>5. r \notin gone
        BY <4>1, <4>2, <4>4, <3>1
      <4>6. r # z
        BY <4>1, <4>2, <3>1, <1>4, <1>6
      <4>7. r = base => \A b \in OnRing \ gone : b <= q
        BY <4>1, <4>3, <3>1
      <4>8. r # base => r > bp /\ \A b \in OnRing \ gone : b <= q \/ r <= b
        BY <4>1, <4>2, <4>3, <4>4, <3>1
      <4> QED
        BY <4>1, <4>5, <4>6, <4>7, <4>8
    <3>3. CASE ~J
      <4>1. r = nx /\ gone \subseteq {bp}
        BY <3>3, <1>4
      <4>2. r # z
        BY <4>1, <3>1, <1>1, <1>4, <1>6
      <4> QED
        BY <4>1, <4>2, <3>1, <1>1, <1>3
    <3> QED
      BY <3>2, <3>3
  <2>2. ASSUME NEW a \in OnRing, a # q, a # z, a \notin gone
        PROVE  LET m == header[a].ptr IN
               /\ m \in OnRing /\ m \notin gone
               /\ m = base => z <= a /\ \A b \in OnRing : b <= a
               /\ m # base => m > a /\ (z <= a \/ m <= z) /\ \A b \in OnRing : b <= a \/ m <= b
    <3> DEFINE m == header[a].ptr
    <3>1. /\ m \in OnRing /\ (m = base => \A b \in OnRing : b <= a)
          /\ m # base => m > a /\ \A b \in OnRing : b <= a \/ m <= b
      BY DEF ArenaInductive, RingRises
    <3>2. m \in Nat /\ a \in Nat /\ q \in Nat /\ nx \in Nat /\ bp \in Nat /\ z \in Nat
      BY <3>1, <1>1, <1>3
    <3> HIDE DEF m
    <3>3. q < a \/ a < q
      BY <2>2, <3>2
    <3>4. q < a => nx # base /\ nx <= a /\ bp < nx
      BY <3>2, <1>1, <1>3
    <3>5. a < q => m # base /\ m <= q
      BY <3>1, <3>2, <1>1
    <3>6. m # bp /\ m \notin {bp}
      BY <3>1, <1>1
    <3>7. J => m # nx
      BY <3>1, <3>2, <3>3, <3>4, <3>5, <1>1, <1>5
    <3>8. m \notin gone
      BY <3>6, <3>7, <1>4
    <3>9. m = base => z <= a
      BY <3>2, <3>3, <3>4, <3>5, <1>a
    <3>10. z <= a \/ m <= z
      BY <3>2, <3>3, <3>4, <3>5, <1>a
    <3>11. /\ m \in OnRing /\ m \notin gone
           /\ m = base => z <= a /\ \A b \in OnRing : b <= a
           /\ m # base => m > a /\ (z <= a \/ m <= z) /\ \A b \in OnRing : b <= a \/ m <= b
      BY <3>1, <3>8, <3>9, <3>10
    <3> QED
      BY <3>11 DEF m
  <2>3. ASSUME NEW a \in OnRing \cup {z}, a \notin gone
        PROVE  LET m == header'[a].ptr IN
               /\ m \in (OnRing \cup {z}) \ gone
               /\ m = base => \A b \in (OnRing \cup {z}) \ gone : b <= a
               /\ m # base => m > a /\ \A b \in (OnRing \cup {z}) \ gone : b <= a \/ m <= b
    <3>a. \A b \in OnRing : b \in Nat
      BY <1>3
    <3>b. q \in Nat /\ z \in Nat /\ bp \in Nat /\ q <= z /\ z <= bp /\ z \notin gone
      BY <1>1, <1>a
    <3>1. CASE a = z
      <4>1. header'[a].ptr = r
        BY <3>1, <1>7
      <4>2. r \in (OnRing \cup {z}) \ gone /\ r \in Nat
        BY <2>1, <3>a
      <4>3. r = base => \A b \in (OnRing \cup {z}) \ gone : b <= z
        BY <2>1, <3>a, <3>b
      <4>4. r # base => r > z /\ \A b \in (OnRing \cup {z}) \ gone : b <= z \/ r <= b
        BY <2>1, <3>a, <3>b, <4>2
      <4> QED
        BY <3>1, <4>1, <4>2, <4>3, <4>4
    <3>2. CASE a = q /\ a # z
      <4>1. header'[a].ptr = bp /\ z = bp
        BY <3>2, <1>4, <1>7
      <4>2. r \in Nat
        BY <2>1, <3>a
      <4>3. \A b \in (OnRing \cup {z}) \ gone : b <= q \/ bp <= b
        <5>1. ASSUME NEW b \in OnRing \ gone PROVE b <= q \/ bp <= b
          BY <2>1, <3>a, <3>b, <4>2
        <5> QED
          BY <5>1, <4>1, <3>b
      <4> QED
        BY <3>2, <4>1, <4>3, <3>b, <1>1
    <3>3. CASE a # q /\ a # z
      <4> DEFINE m == header[a].ptr
      <4>1. a \in OnRing /\ a \in Addresses /\ header'[a].ptr = m
        BY <2>3, <3>3, <1>3, <1>7
      <4>2. /\ m \in OnRing /\ m \notin gone
            /\ m = base => z <= a /\ \A b \in OnRing : b <= a
            /\ m # base => m > a /\ (z <= a \/ m <= z) /\ \A b \in OnRing : b <= a \/ m <= b
        BY <2>2, <2>3, <3>3, <4>1
      <4> HIDE DEF m
      <4>3. /\ m \in (OnRing \cup {z}) \ gone
            /\ m = base => \A b \in (OnRing \cup {z}) \ gone : b <= a
            /\ m # base => m > a /\ \A b \in (OnRing \cup {z}) \ gone : b <= a \/ m <= b
        BY <4>2
      <4> QED
        BY <4>1, <4>3
    <3> QED
      BY <3>1, <3>2, <3>3
  <2> QED
    BY <2>3, <1>9 DEF RingRises
<1>16. RingJoined'
  <2>1. ASSUME NEW a \in OnRing \cup {z}, a \notin gone, NEW b \in OnRing \cup {z}, b \notin gone, b # base
        PROVE  a + header'[a].size # b
    <3>a. /\ a \in Nat /\ b \in Nat /\ z \in Nat /\ bp \in Nat /\ q \in Nat /\ nx \in Nat
          /\ b \in 1 .. HEAPMAX /\ IsBlock(b)
      BY <2>1, <1>1, <1>3, <1>4, <1>6
    <3>b. \A c, d \in OnRing : d # base => c + header[c].size # d
      BY DEF ArenaInductive, RingJoined
    <3>1. CASE a = z
      <4>1. a + header'[a].size = e
        BY <3>1, <1>7
      <4>2. CASE b = z
        BY <4>1, <4>2, <1>11, <3>a
      <4>3. CASE b # z
        <5>1. b \in OnRing
          BY <2>1, <4>3
        <5>2. CASE J
          BY <5>1, <5>2, <4>1, <3>b, <2>1, <1>1, <1>4
        <5>3. CASE ~J
          <6>1. e = bp + header[bp].size /\ header[bp].size \in Nat /\ header[bp].size >= 1
            BY <5>3, <1>1, <1>2, <1>4
          <6>2. ASSUME b = e PROVE FALSE
            <7>1. nx # base /\ nx <= b /\ bp < nx
              BY <6>1, <6>2, <5>1, <3>a, <1>1, <1>3
            <7>2. bp + header[bp].size <= nx
              BY <7>1, <1>1, <1>2, <1>3
            <7> QED
              BY <7>1, <7>2, <6>1, <6>2, <5>3, <3>a DEF J
          <6> QED
            BY <6>2, <4>1
        <5> QED
          BY <5>2, <5>3
      <4> QED
        BY <4>2, <4>3
    <3>2. CASE a # z
      <4>1. a \in OnRing /\ header'[a].size = header[a].size
        BY <2>1, <3>2, <1>3, <1>7
      <4>2. CASE b \in OnRing
        BY <4>1, <4>2, <3>b, <2>1
      <4>3. CASE b \notin OnRing
        <5>1. b = z /\ b = bp /\ ~K
          BY <4>3, <2>1, <1>1, <1>4
        <5>2. ASSUME a + header[a].size = bp PROVE FALSE
          <6>1. header[a].size \in Nat /\ a <= bp
            BY <5>2, <4>1, <3>a, RingKinds
          <6>2. a <= q
            BY <6>1, <4>1, <3>a, <1>1, <1>3
          <6>3. a # q
            BY <5>1, <5>2 DEF K
          <6>4. a # base
            BY <5>2, <1>1, <1>2
          <6>5. a \in 1 .. HEAPMAX /\ IsBlock(a) /\ q \in 1 .. HEAPMAX /\ IsBlock(q)
            BY <6>2, <6>4, <4>1, <3>a, <1>1, <1>3
          <6>6. a + header[a].size <= q
            BY <6>2, <6>3, <6>5, <3>a, <1>2
          <6> QED
            BY <6>6, <5>2, <3>a, <1>1
        <5> QED
          BY <4>1, <5>1, <5>2
      <4> QED
        BY <4>2, <4>3
    <3> QED
      BY <3>1, <3>2
  <2> QED
    BY <2>1, <1>9 DEF RingJoined
<1> QED
  BY <1>12, <1>13, <1>14, <1>15, <1>16 DEF ArenaInductive

LEMMA ArenaStep ==
  ASSUME ArenaInductive, [UNext]_uvars
  PROVE  ArenaInductive'
<1>1. CASE \E n \in 1 .. MaxUnits : Malloc(n)
  BY <1>1, MallocKeeps
<1>2. CASE NextBlock \/ Seek \/ NoCore \/ \E a \in Addresses : FreeCall(a)
  BY <1>2, WalkKeeps
<1>3. CASE UNCHANGED uvars
  BY <1>3 DEF uvars, ArenaInductive, ArenaTypes, CallsKnow, RingBegins, BlocksApart, BlocksCover,
              ExtraBelow, RingRises, RingJoined, OnRing, IsBlock
<1> QED
  BY <1>1, <1>2, <1>3, TakeAllKeeps, TakeTailKeeps, MoreCoreKeeps, InsertionKeeps, OwnSbrkKeeps DEF UNext

(* Belongs calls: a unit is in no two blocks and in none of the program's  *)
(* own memory.                                                             *)
LEMMA ArenaHolds == ArenaInductive => ArenaTiled
<1> USE ArenaNumbers
<1> SUFFICES ASSUME ArenaInductive, uop.do = "idle", freep # Null
             PROVE  /\ freep \in InRing \cup {base}
                    /\ \A u \in 1 .. top - 1 :
                         Cardinality({a \in InRing \cup lent : u \in Extent(a)}) = IF u \in extra THEN 0 ELSE 1
                    /\ \A a \in InRing \cup {base} :
                         LET later == {b \in InRing : b > a} IN
                         /\ IF later = {} THEN header[a].ptr = base
                            ELSE header[a].ptr \in later /\ \A b \in later : header[a].ptr <= b
                         /\ a + header[a].size \notin InRing
  BY DEF ArenaTiled
<1>1. /\ InRing = OnRing \ {base} /\ InRing \cup {base} = OnRing
      /\ \A b \in OnRing : b \in Nat
      /\ \A b \in InRing : b # base
  <2>1. base \in OnRing
    BY DEF ArenaInductive, RingBegins
  <2> QED
    BY <2>1 DEF InRing, OnRing
<1>2. freep \in InRing \cup {base}
  BY <1>1 DEF ArenaInductive, RingBegins
<1>3. \A a : a \in InRing \cup lent <=> a \in 1 .. HEAPMAX /\ IsBlock(a)
  <2>1. uop.bp = Null /\ lent \subseteq 1 .. HEAPMAX
    BY DEF ArenaInductive, ArenaTypes, CallsKnow
  <2>2. ASSUME NEW a, a \in InRing \cup lent PROVE a \in 1 .. HEAPMAX /\ IsBlock(a)
    BY <2>1, <2>2, <1>1, RingKinds DEF IsBlock
  <2>3. ASSUME NEW a \in 1 .. HEAPMAX, IsBlock(a) PROVE a \in InRing \cup lent
    <3>1. a # base /\ a # uop.bp
      BY <2>1
    <3> QED
      BY <2>3, <3>1, <1>1 DEF IsBlock
  <2> QED
    BY <2>2, <2>3
<1>4. ASSUME NEW u \in 1 .. top - 1
      PROVE  Cardinality({a \in InRing \cup lent : u \in Extent(a)}) = IF u \in extra THEN 0 ELSE 1
  <2>a. top \in Nat
    BY DEF ArenaInductive, ArenaTypes
  <2>1. \A a \in InRing \cup lent : u \in Extent(a) <=> a <= u /\ u < a + header[a].size
    BY <1>3, <2>a, RingKinds DEF Extent
  <2>2. CASE u \in extra
    <3>1. {a \in InRing \cup lent : u \in Extent(a)} = {}
      BY <2>1, <2>2, <1>3, <2>a, RingKinds DEF ArenaInductive, BlocksApart
    <3> QED
      BY <3>1, <2>2, FS_EmptySet
  <2>3. CASE u \notin extra
    <3>1. PICK a \in 1 .. HEAPMAX : IsBlock(a) /\ a <= u /\ u < a + header[a].size
      BY <2>3 DEF ArenaInductive, BlocksCover
    <3>2. ASSUME NEW b \in InRing \cup lent, u \in Extent(b) PROVE b = a
      <4>1. /\ b \in 1 .. HEAPMAX /\ IsBlock(b) /\ b <= u /\ u < b + header[b].size
            /\ header[a].size \in Nat /\ header[b].size \in Nat
        BY <3>2, <2>1, <1>3, RingKinds
      <4>2. /\ a < b => a + header[a].size <= b
            /\ b < a => b + header[b].size <= a
        BY <3>1, <4>1 DEF ArenaInductive, BlocksApart
      <4> QED
        BY <3>1, <4>1, <4>2, <2>a
    <3>3. {b \in InRing \cup lent : u \in Extent(b)} = {a}
      BY <3>1, <3>2, <2>1, <1>3
    <3> QED
      BY <3>3, <2>3, FS_Singleton
  <2> QED
    BY <2>2, <2>3
<1>5. ASSUME NEW a \in InRing \cup {base}
      PROVE  LET later == {b \in InRing : b > a} IN
             /\ IF later = {} THEN header[a].ptr = base
                ELSE header[a].ptr \in later /\ \A b \in later : header[a].ptr <= b
             /\ a + header[a].size \notin InRing
  <2> DEFINE later == {b \in InRing : b > a}
             m == header[a].ptr
  <2>1. /\ a \in OnRing /\ a \in Nat /\ m \in OnRing
        /\ m = base => \A b \in OnRing : b <= a
        /\ m # base => m > a /\ \A b \in OnRing : b <= a \/ m <= b
        /\ \A b \in OnRing : b # base => a + header[a].size # b
    BY <1>1 DEF ArenaInductive, RingRises, RingJoined
  <2> HIDE DEF m
  <2>2. m = base => later = {}
    <3>1. ASSUME m = base, NEW b \in InRing, b > a PROVE FALSE
      <4>1. b \in OnRing /\ b \in Nat
        BY <3>1, <1>1
      <4>2. b <= a
        BY <2>1, <3>1, <4>1
      <4> QED
        BY <3>1, <4>1, <4>2, <2>1
    <3> QED
      BY <3>1
  <2>3. m # base => m \in later /\ \A b \in later : m <= b
    BY <2>1, <1>1
  <2>4. a + header[a].size \notin InRing
    BY <2>1, <1>1
  <2> HIDE DEF later
  <2>5. IF later = {} THEN m = base ELSE m \in later /\ \A b \in later : m <= b
    BY <2>2, <2>3
  <2> QED
    BY <2>4, <2>5 DEF later, m
<1> QED
  BY <1>2, <1>4, <1>5

(* malloc() and free() lose no memory and lend none twice: after any calls *)
(* of both, with sbrk() of the program's own between them, each unit of    *)
(* the heap is in one free block, in one that is lent, or the program's    *)
(* own, and the free blocks are on the ring in order and joined.           *)
THEOREM ArenaStaysTiled == USpec => []ArenaTiled
<1>1. USpec => []ArenaInductive
  BY ArenaInit, ArenaStep, PTL DEF USpec
<1> QED
  BY <1>1, ArenaHolds, PTL
=============================================================================
