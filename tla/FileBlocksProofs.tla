-------------------------- MODULE FileBlocksProofs --------------------------
(***************************************************************************)
(* Whatever the number and the size of files, blocks, bitmap blocks and    *)
(* writers: a disk block is free or has one place in one file, each file   *)
(* reads back as it was written, and no chunk of a write() overflows the   *)
(* transaction it is made in.                                              *)
(*                                                                         *)
(* A block that a bmap() takes goes to a place that was empty, and one     *)
(* that a bfree() gives back comes from its only place.  So a writei() can *)
(* change no block but the one it means, and the log of a chunk holds the  *)
(* blocks of its own part of the file and the ones that lead there.        *)
(***************************************************************************)
EXTENDS FileBlocks, WellFoundedInduction, FiniteSetTheorems, TLAPS

LogBlocks == {"data", "bitmap", "inode"} \X Nat

Op == [do : {"idle", "write", "writei", "written", "itrunc"}, f : Opens \cup {None},
       left : Nat, at : Nat, end : Nat, log : SUBSET LogBlocks]

TypeOK ==
  /\ used \in SUBSET Blocks
  /\ word \in [Blocks -> [Words -> Nat]]
  /\ addrs \in [Files -> [0 .. NDIRECT -> 0 .. NBLOCKS]]
  /\ size \in [Files -> Nat]
  /\ open \in [Opens -> [ip : Files \cup {None}, off : Nat]]
  /\ holder \in [Files -> Writers \cup {None}]
  /\ op \in [Writers -> Op]

-----------------------------------------------------------------------------
(* Places, and the blocks in them.  Place <<i, n>> is addrs[i][n], or an   *)
(* entry of the indirect block for n > NDIRECT; what itrunc() has freed of *)
(* the indirect block is no longer there.                                  *)
Places == Files \X (0 .. MAXFILE)

IndirectAt(i) == <<i, NDIRECT>>
EntryAt(i, e) == <<i, NDIRECT + 1 + e>>
DataAt(i, n)  == IF n < NDIRECT THEN <<i, n>> ELSE EntryAt(i, n - NDIRECT)

Going(i)   == \E p \in Writers : Truncating(p, i)
Gone(i, e) == \E p \in Writers : Truncating(p, i) /\ e < op[p].at

EntryOf(i, e) ==
  IF addrs[i][NDIRECT] = 0 \/ Gone(i, e) THEN 0 ELSE word[addrs[i][NDIRECT]][e]

At == [x \in Places |-> IF x[2] <= NDIRECT THEN addrs[x[1]][x[2]]
                        ELSE EntryOf(x[1], x[2] - 1 - NDIRECT)]

(* BlocksOwnedOnce without counting: each place has a block of its own.    *)
Owners(at, set) ==
  /\ \A x \in Places : at[x] # 0 => at[x] \in set
  /\ \A x, y \in Places : at[x] = at[y] /\ at[x] # 0 => x = y
  /\ \A b \in set : \E x \in Places : at[x] = b

(* An indirect block holds block numbers. *)
Indirect(i) == At[IndirectAt(i)] # 0 =>
                 \A e \in 0 .. NINDIRECT - 1 : word[At[IndirectAt(i)]][e] \in 0 .. NBLOCKS

(* Word k of file i is written, ...                                        *)
Reached(i, k) ==
  \/ k < size[i]
  \/ \E p \in Writers : op[p].do = "writei" /\ InodeOf(p) = i /\ k < op[p].at

(* ... and can be read.                                                    *)
Stored(i, k) ==
  LET b == At[DataAt(i, k \div BSIZE)] IN b # 0 /\ word[b][k % BSIZE] = Text(i, k)

Contents(i) ==
  Going(i) \/ \A k \in 0 .. MAXFILE * BSIZE - 1 : Reached(i, k) => Stored(i, k)

Disk == Owners(At, used) /\ \A i \in Files : Indirect(i) /\ Contents(i)

-----------------------------------------------------------------------------
(* Processes and the locks of inodes. *)
Works(p) ==
  LET o == op[p]
      i == InodeOf(p)
      off == open[o.f].off
  IN /\ o.do = "idle" => o = NoOp
     /\ o.do \in {"idle", "write", "itrunc"} => o.log = {}
     /\ o.do \in {"write", "writei", "written"} => o.f \in Opens /\ i \in Files
     /\ o.do \in {"writei", "written"} =>
          /\ holder[i] = p
          /\ off <= o.at /\ o.at <= o.end
          /\ o.end = off + Chunk(p) /\ o.end <= MAXFILE * BSIZE
     /\ o.do = "written" => o.at = o.end /\ o.end <= size[i]

Holds(i) ==
  LET p == holder[i] IN
  p # None =>
    \/ op[p].do = "itrunc" /\ \A j \in Files : holder[j] = p => j = i
    \/ op[p].do \in {"writei", "written"} /\ InodeOf(p) = i

(* A file that is open is not removed, and is read and written from a      *)
(* place that it has.                                                      *)
Opened(f) ==
  LET i == open[f].ip IN i # None => open[f].off <= size[i] /\ ~Going(i)

Locking ==
  /\ \A p \in Writers : Works(p)
  /\ \A i \in Files : Holds(i)
  /\ \A f \in Opens : Opened(f)

(* What a writei() from word off to word end - 1 of file i has logged: the *)
(* blocks it writes, the bitmap's of those it can have allocated - not of  *)
(* the first when it starts inside it, as that was there -, the indirect   *)
(* block and its bitmap block, and the inode.                              *)
First(p) == open[op[p].f].off \div BSIZE
Fresh(p) == IF open[op[p].f].off % BSIZE = 0 THEN First(p) ELSE First(p) + 1
Touched(p, n) == n \in Nat /\ n * BSIZE < op[p].end

InLog(p, x) ==
  LET i == InodeOf(p)
      b(n) == At[DataAt(i, n)]
      a == At[IndirectAt(i)]
  IN \/ \E n \in 0 .. MAXFILE - 1 :
          /\ First(p) <= n /\ Touched(p, n) /\ b(n) # 0
          /\ x = Data(b(n)) \/ (Fresh(p) <= n /\ x = Bitmap(b(n)))
     \/ a # 0 /\ x \in {Data(a), Bitmap(a)}
     \/ op[p].do = "written" /\ x = Inode(i)

Logging ==
  \A p \in Writers : op[p].do \in {"writei", "written"} => \A x \in op[p].log : InLog(p, x)

Inductive == TypeOK /\ Locking /\ Disk /\ Logging
-----------------------------------------------------------------------------
(* Numbers *)

LEMMA Times ==
  ASSUME NEW d \in Nat, NEW m \in Int, NEW n \in Int, m <= n
  PROVE  m * d <= n * d
<1>1. (n - m) * d >= 0
  BY SMT
<1>2. (n - m) * d = n * d - m * d
  BY SMT
<1> QED
  BY <1>1, <1>2

LEMMA Quotient ==
  ASSUME NEW k \in Nat, NEW d \in Nat \ {0}
  PROVE  /\ k \div d \in Nat /\ k % d \in 0 .. d - 1
         /\ (k \div d) * d \in Nat /\ k = (k \div d) * d + (k % d)
<1> DEFINE q == k \div d
           r == k % d
<1>1. q \in Int /\ r \in 0 .. d - 1 /\ k = d * q + r
  BY SMT
<1> HIDE DEF q, r
<1>2. d * q = q * d /\ q * d \in Int
  BY <1>1
<1>3. q >= 0
  <2> SUFFICES ASSUME q < 0 PROVE FALSE
    BY <1>1
  <2>1. q * d <= (-1) * d
    BY <1>1, Times
  <2> QED
    BY <1>1, <1>2, <2>1
<1>4. q * d >= 0
  BY <1>1, <1>3, Times
<1> QED
  BY <1>1, <1>2, <1>3, <1>4 DEF q, r

LEMMA QuotientOf ==
  ASSUME NEW k \in Nat, NEW d \in Nat \ {0}, NEW n \in Nat
  PROVE  /\ n * d \in Nat /\ (n + 1) * d = n * d + d
         /\ n * d <= k /\ k < n * d + d => k \div d = n /\ k % d = k - n * d
         /\ n * d <= k <=> n <= k \div d
         /\ k < n * d <=> k \div d < n
<1> DEFINE q == k \div d
           r == k % d
<1>1. q \in Nat /\ r \in 0 .. d - 1 /\ q * d \in Nat /\ k = q * d + r
  BY Quotient
<1> HIDE DEF q, r
<1>2. n * d \in Nat /\ (n + 1) * d = n * d + d /\ (q + 1) * d = q * d + d
  BY <1>1
<1>3. q < n => q * d + d <= n * d
  BY <1>1, <1>2, Times
<1>4. n < q => n * d + d <= q * d
  BY <1>1, <1>2, Times
<1>5. n <= q => n * d <= q * d
  BY <1>1, <1>2, Times
<1>6. n * d <= k /\ k < n * d + d => q = n /\ r = k - n * d
  <2> SUFFICES ASSUME n * d <= k, k < n * d + d PROVE q = n /\ r = k - n * d
    OBVIOUS
  <2>1. ~(q < n) /\ ~(n < q)
    BY <1>1, <1>2, <1>3, <1>4
  <2>2. q = n
    BY <1>1, <2>1
  <2> QED
    BY <1>1, <1>2, <2>2
<1>7. n * d <= k <=> n <= q
  BY <1>1, <1>2, <1>3, <1>5
<1>8. k < n * d <=> q < n
  BY <1>1, <1>2, <1>7
<1> QED
  BY <1>2, <1>6, <1>7, <1>8 DEF q, r

LEMMA LeastIn ==
  ASSUME NEW S \in SUBSET Nat, S # {}
  PROVE  Min(S) \in S
<1>1. PICK m \in S : \A k \in S : <<k, m>> \notin OpToRel(<, Nat)
  BY WFMin, NatLessThanWellFounded, Zenon
<1>2. \A k \in S : ~(k < m)
  BY <1>1, Zenon DEF OpToRel
<1>3. \A k \in S : m =< k
  BY <1>2
<1> QED
  BY <1>3 DEF Min

LEMMA MinOfTwo ==
  ASSUME NEW a \in Nat, NEW b \in Nat
  PROVE  Min({a, b}) = IF a <= b THEN a ELSE b
<1>1. \E x \in {a, b} : \A y \in {a, b} : x =< y
  OBVIOUS
<1>2. Min({a, b}) \in {a, b} /\ \A y \in {a, b} : Min({a, b}) =< y
  BY <1>1 DEF Min
<1> QED
  BY <1>2

LEMMA MaxOfTwo ==
  ASSUME NEW a \in Nat, NEW b \in Nat
  PROVE  Max({a, b}) = IF a >= b THEN a ELSE b
<1>1. \E x \in {a, b} : \A y \in {a, b} : x >= y
  OBVIOUS
<1>2. Max({a, b}) \in {a, b} /\ \A y \in {a, b} : Max({a, b}) >= y
  BY <1>1 DEF Max
<1> QED
  BY <1>2

(* The constants, and a chunk of a write(). *)
LEMMA Constants ==
  /\ NBLOCKS \in Nat \ {0} /\ BPB \in Nat \ {0} /\ BSIZE \in Nat \ {0}
  /\ NDIRECT \in Nat \ {0} /\ NINDIRECT \in Nat \ {0} /\ MAXOPBLOCKS \in Nat
  /\ MAXFILE \in Nat \ {0} /\ MAXFILE = NDIRECT + NINDIRECT /\ MAXFILE * BSIZE \in Nat
  /\ Files \subseteq Nat /\ Counts \subseteq Nat /\ NINDIRECT <= BSIZE /\ MAXOPBLOCKS >= 6
  /\ None \notin Files /\ None \notin Writers
<1>1. {NBLOCKS, BPB, BSIZE, NDIRECT, NINDIRECT, MAXOPBLOCKS} \subseteq Nat \ {0}
  BY FileBlocksAssumption
<1>2. MAXFILE = NDIRECT + NINDIRECT
  BY DEF MAXFILE
<1>3. MAXFILE \in Nat \ {0} /\ BSIZE \in Nat
  BY <1>1, <1>2
<1>4. MAXFILE * BSIZE \in Nat
  <2> HIDE DEF MAXFILE
  <2> QED
    BY <1>3
<1> QED
  BY <1>1, <1>2, <1>3, <1>4, FileBlocksAssumption

ChunkBlocks == (MAXOPBLOCKS - 1 - 1 - 2) \div 2

LEMMA Chunks ==
  /\ ChunkBlocks \in Nat /\ 2 * ChunkBlocks <= MAXOPBLOCKS - 4
  /\ MaxChunk \in Nat /\ MaxChunk = ChunkBlocks * BSIZE
  /\ \A p \in Writers : op[p].left \in Nat =>
       Chunk(p) \in Nat /\ Chunk(p) <= op[p].left /\ Chunk(p) <= MaxChunk
<1>1. MAXOPBLOCKS - 1 - 1 - 2 \in Nat /\ BSIZE \in Nat
  BY Constants
<1>2. ChunkBlocks \in Nat /\ 2 * ChunkBlocks <= MAXOPBLOCKS - 4
  <2> DEFINE m == MAXOPBLOCKS - 1 - 1 - 2
  <2>1. m \in Nat /\ m = MAXOPBLOCKS - 4
    BY Constants
  <2> HIDE DEF m
  <2>2. m \div 2 \in Nat /\ m % 2 \in 0 .. 1 /\ m = (m \div 2) * 2 + (m % 2)
    BY <2>1, SMT
  <2>3. m \div 2 \in Nat /\ 2 * (m \div 2) <= m
    BY <2>1, <2>2
  <2> QED
    BY <2>1, <2>3 DEF ChunkBlocks, m
<1>3. MaxChunk \in Nat /\ MaxChunk = ChunkBlocks * BSIZE
  <2>1. MaxChunk = ChunkBlocks * BSIZE
    BY DEF MaxChunk, ChunkBlocks
  <2> QED
    BY <1>1, <1>2, <2>1, QuotientOf, Constants
<1>4. ASSUME NEW p \in Writers, op[p].left \in Nat
      PROVE  Chunk(p) \in Nat /\ Chunk(p) <= op[p].left /\ Chunk(p) <= MaxChunk
  BY <1>3, <1>4, MinOfTwo DEF Chunk
<1> QED
  BY <1>2, <1>3, <1>4

LEMMA Texts ==
  ASSUME NEW i \in Files, NEW k \in Nat
  PROVE  Text(i, k) \in Nat
<1>1. i \in Nat /\ MAXFILE \in Nat /\ BSIZE \in Nat /\ NBLOCKS \in Nat
  BY Constants
<1>2. i * MAXFILE \in Nat
  BY <1>1
<1>3. i * MAXFILE * BSIZE \in Nat
  <2> DEFINE m == i * MAXFILE
  <2>1. m \in Nat
    BY <1>2
  <2> HIDE DEF m
  <2>2. m * BSIZE \in Nat
    BY <1>1, <2>1
  <2> QED
    BY <2>2 DEF m
<1> QED
  BY <1>1, <1>3 DEF Text
-----------------------------------------------------------------------------
(* Places *)

LEMMA PlacesAre ==
  /\ \A i \in Files : /\ IndirectAt(i) \in Places
                      /\ \A k \in 0 .. NDIRECT : <<i, k>> \in Places
                      /\ \A e \in 0 .. NINDIRECT - 1 : EntryAt(i, e) \in Places
                      /\ \A n \in 0 .. MAXFILE - 1 : DataAt(i, n) \in Places
  /\ \A x \in Places : \E i \in Files : \/ \E k \in 0 .. NDIRECT : x = <<i, k>>
                                        \/ \E e \in 0 .. NINDIRECT - 1 : x = EntryAt(i, e)
<1>1. /\ NDIRECT \in Nat /\ NINDIRECT \in Nat /\ MAXFILE \in Nat
      /\ MAXFILE = NDIRECT + NINDIRECT
  BY Constants
<1>2. ASSUME NEW i \in Files
      PROVE  /\ IndirectAt(i) \in Places
             /\ \A k \in 0 .. NDIRECT : <<i, k>> \in Places
             /\ \A e \in 0 .. NINDIRECT - 1 : EntryAt(i, e) \in Places
             /\ \A n \in 0 .. MAXFILE - 1 : DataAt(i, n) \in Places
  <2>1. \A m \in 0 .. MAXFILE : <<i, m>> \in Places
    BY DEF Places
  <2>2. \A k \in 0 .. NDIRECT : k \in 0 .. MAXFILE
    BY <1>1
  <2>3. \A e \in 0 .. NINDIRECT - 1 : NDIRECT + 1 + e \in 0 .. MAXFILE
    BY <1>1
  <2>4. \A e \in 0 .. NINDIRECT - 1 : EntryAt(i, e) \in Places
    BY <2>1, <2>3 DEF EntryAt
  <2>6. \A n \in 0 .. MAXFILE - 1 : n < NDIRECT \/ n >= NDIRECT
    BY <1>1
  <2>7. ASSUME NEW n \in 0 .. MAXFILE - 1 PROVE DataAt(i, n) \in Places
    <3>1. CASE n < NDIRECT
      <4>1. n \in 0 .. MAXFILE
        BY <1>1
      <4> QED
        BY <2>1, <3>1, <4>1 DEF DataAt
    <3>2. CASE n >= NDIRECT
      <4>1. ~(n < NDIRECT) /\ n - NDIRECT \in 0 .. NINDIRECT - 1
        BY <1>1, <3>2
      <4>2. DataAt(i, n) = EntryAt(i, n - NDIRECT)
        BY <4>1 DEF DataAt
      <4> QED
        BY <2>4, <4>1, <4>2
    <3> QED
      BY <2>6, <3>1, <3>2
  <2>8. NDIRECT \in 0 .. MAXFILE
    BY <1>1
  <2> QED
    BY <2>1, <2>2, <2>4, <2>7, <2>8 DEF IndirectAt
<1>3. ASSUME NEW x \in Places
      PROVE  \E i \in Files : \/ \E k \in 0 .. NDIRECT : x = <<i, k>>
                              \/ \E e \in 0 .. NINDIRECT - 1 : x = EntryAt(i, e)
  <2>1. PICK i \in Files, m \in 0 .. MAXFILE : x = <<i, m>>
    BY DEF Places
  <2>2. CASE m <= NDIRECT
    BY <1>1, <2>1, <2>2
  <2>3. CASE m > NDIRECT
    <3>1. m - 1 - NDIRECT \in 0 .. NINDIRECT - 1 /\ NDIRECT + 1 + (m - 1 - NDIRECT) = m
      BY <1>1, <2>3
    <3>2. x = EntryAt(i, m - 1 - NDIRECT)
      BY <2>1, <3>1 DEF EntryAt
    <3> QED
      BY <3>1, <3>2
  <2> QED
    BY <1>1, <2>2, <2>3
<1> QED
  BY <1>2, <1>3

LEMMA PlacesDiffer ==
  /\ \A i, j \in Files : \A k \in 0 .. NDIRECT : \A e, d \in 0 .. NINDIRECT - 1 :
       /\ <<i, k>> # EntryAt(j, e)
       /\ EntryAt(i, e) = EntryAt(j, d) => i = j /\ e = d
  /\ \A i, j \in Files : IndirectAt(i) = IndirectAt(j) => i = j
  /\ \A i, j \in Files : \A n, m \in 0 .. MAXFILE - 1 :
       /\ DataAt(i, n) # IndirectAt(j)
       /\ DataAt(i, n) = DataAt(j, m) => i = j /\ n = m
<1>1. /\ NDIRECT \in Nat /\ NINDIRECT \in Nat /\ MAXFILE \in Nat
      /\ MAXFILE = NDIRECT + NINDIRECT
  BY Constants
<1>2. \A i, j \in Files : \A k \in 0 .. NDIRECT : \A e, d \in 0 .. NINDIRECT - 1 :
        /\ <<i, k>> # EntryAt(j, e)
        /\ EntryAt(i, e) = EntryAt(j, d) => i = j /\ e = d
  BY <1>1 DEF EntryAt
<1>3. ASSUME NEW i \in Files, NEW j \in Files, NEW n \in 0 .. MAXFILE - 1, NEW m \in 0 .. MAXFILE - 1
      PROVE  /\ DataAt(i, n) # IndirectAt(j)
             /\ DataAt(i, n) = DataAt(j, m) => i = j /\ n = m
  <2>1. /\ n < NDIRECT => DataAt(i, n) = <<i, n>>
        /\ ~(n < NDIRECT) => DataAt(i, n) = <<i, n + 1>>
        /\ m < NDIRECT => DataAt(j, m) = <<j, m>>
        /\ ~(m < NDIRECT) => DataAt(j, m) = <<j, m + 1>>
    BY <1>1 DEF DataAt, EntryAt
  <2> QED
    BY <1>1, <2>1 DEF IndirectAt
<1> QED
  BY <1>2, <1>3 DEF IndirectAt

Located ==
  /\ DOMAIN At = Places
  /\ \A i \in Files : /\ \A k \in 0 .. NDIRECT : At[<<i, k>>] = addrs[i][k]
                      /\ At[IndirectAt(i)] = addrs[i][NDIRECT]
                      /\ \A e \in 0 .. NINDIRECT - 1 : At[EntryAt(i, e)] = EntryOf(i, e)

LEMMA BlocksAt == Located
<1>1. NDIRECT \in Nat /\ NINDIRECT \in Nat
  BY Constants
<1>2. \A x \in Places : At[x] = IF x[2] <= NDIRECT THEN addrs[x[1]][x[2]]
                                ELSE EntryOf(x[1], x[2] - 1 - NDIRECT)
  BY DEF At
<1>3. ASSUME NEW i \in Files PROVE \A k \in 0 .. NDIRECT : At[<<i, k>>] = addrs[i][k]
  BY <1>1, <1>2, PlacesAre
<1>4. ASSUME NEW i \in Files, NEW e \in 0 .. NINDIRECT - 1 PROVE At[EntryAt(i, e)] = EntryOf(i, e)
  <2>1. EntryAt(i, e) \in Places /\ EntryAt(i, e)[1] = i /\ EntryAt(i, e)[2] = NDIRECT + 1 + e
    BY PlacesAre DEF EntryAt
  <2>2. ~(NDIRECT + 1 + e <= NDIRECT) /\ NDIRECT + 1 + e - 1 - NDIRECT = e
    BY <1>1
  <2> DEFINE x == EntryAt(i, e)
  <2>3. At[x] = EntryOf(x[1], x[2] - 1 - NDIRECT)
    <3> HIDE DEF x
    <3> QED
      BY <1>2, <2>1, <2>2 DEF x
  <2> HIDE DEF x
  <2>4. x[1] = i /\ x[2] - 1 - NDIRECT = e
    <3>1. x[1] = i /\ x[2] = NDIRECT + 1 + e
      BY <2>1 DEF x
    <3> QED
      BY <1>1, <3>1
  <2> QED
    BY <2>3, <2>4 DEF x
<1>5. ASSUME NEW i \in Files PROVE At[IndirectAt(i)] = addrs[i][NDIRECT]
  BY <1>1, <1>3 DEF IndirectAt
<1> QED
  BY <1>3, <1>4, <1>5 DEF Located, At

LEMMA BlocksAtNext == Located'
  BY BlocksAt, PTL

LEMMA OnePlace ==
  ASSUME NEW x \in Places, NEW b, At'[x] = b,
         \A y \in Places : y # x => At'[y] = At[y]
  PROVE  At' = [At EXCEPT ![x] = b]
<1>1. At' = [y \in Places |-> At'[y]]
  BY DEF At
<1>2. [At EXCEPT ![x] = b] = [y \in Places |-> IF y = x THEN b ELSE At[y]]
  BY BlocksAt DEF Located
<1>3. \A y \in Places : At'[y] = IF y = x THEN b ELSE At[y]
  OBVIOUS
<1> QED
  BY <1>1, <1>2, <1>3

LEMMA SamePlaces ==
  ASSUME addrs' = addrs, \A i \in Files : \A e \in 0 .. NINDIRECT - 1 : EntryOf(i, e)' = EntryOf(i, e)
  PROVE  At' = At
<1>1. \A x \in Places : At'[x] = At[x]
  BY PlacesAre, BlocksAt, BlocksAtNext DEF Located
<1>2. At' = [y \in Places |-> At'[y]] /\ At = [y \in Places |-> At[y]]
  BY DEF At
<1> QED
  BY <1>1, <1>2

(* Who truncates a file holds its lock. *)
HolderGoes ==
  \A i \in Files : /\ Going(i) <=> holder[i] \in Writers /\ op[holder[i]].do = "itrunc"
                   /\ \A e : Gone(i, e) <=> Going(i) /\ e < op[holder[i]].at

LEMMA GoingAre == HolderGoes
  BY DEF HolderGoes, Going, Gone, Truncating

LEMMA GoingAreNext == HolderGoes'
  BY GoingAre, PTL

(* bmap() *)
LEMMA Mapped ==
  ASSUME NEW i \in Files, ~Going(i), NEW n \in 0 .. MAXFILE - 1
  PROVE  BlockOf(i, n) = At[DataAt(i, n)]
<1>1. /\ NDIRECT \in Nat /\ NINDIRECT \in Nat /\ MAXFILE \in Nat
      /\ MAXFILE = NDIRECT + NINDIRECT
  BY Constants
<1>2. CASE n < NDIRECT
  <2>1. n \in 0 .. NDIRECT
    BY <1>1, <1>2
  <2> QED
    BY <1>2, <2>1, BlocksAt DEF Located, BlockOf, DataAt
<1>3. CASE ~(n < NDIRECT)
  <2>1. n - NDIRECT \in 0 .. NINDIRECT - 1
    BY <1>1, <1>3
  <2>2. ~Gone(i, n - NDIRECT)
    BY GoingAre DEF HolderGoes
  <2>3. EntryOf(i, n - NDIRECT) = BlockOf(i, n)
    BY <1>3, <2>2 DEF EntryOf, BlockOf
  <2> QED
    BY <1>3, <2>1, <2>3, BlocksAt DEF Located, DataAt
<1> QED
  BY <1>2, <1>3
-----------------------------------------------------------------------------
(* Blocks that are taken and given back. *)

LEMMA BlockNumbers == 0 \notin Blocks /\ Blocks \subseteq Nat /\ Blocks \subseteq 0 .. NBLOCKS
  BY Constants DEF Blocks

LEMMA Taken ==
  ASSUME NEW at, DOMAIN at = Places, NEW set \in SUBSET Blocks, Owners(at, set),
         NEW x \in Places, at[x] = 0, NEW b \in Blocks \ set
  PROVE  Owners([at EXCEPT ![x] = b], set \cup {b})
<1> DEFINE new == [at EXCEPT ![x] = b]
<1>1. new[x] = b /\ \A y \in Places : y # x => new[y] = at[y]
  OBVIOUS
<1>2. \A y \in Places : at[y] # b
  BY BlockNumbers DEF Owners
<1> HIDE DEF new
<1>3. \A y \in Places : new[y] # 0 => new[y] \in set \cup {b}
  BY <1>1 DEF Owners
<1>4. \A y, z \in Places : new[y] = new[z] /\ new[y] # 0 => y = z
  BY <1>1, <1>2 DEF Owners
<1>5. ASSUME NEW c \in set \cup {b} PROVE \E y \in Places : new[y] = c
  <2>1. CASE c = b
    BY <1>1, <2>1
  <2>2. CASE c # b
    <3>1. PICK y \in Places : at[y] = c
      BY <1>5, <2>2 DEF Owners
    <3>2. y # x
      BY <1>5, <2>2, <3>1, BlockNumbers
    <3> QED
      BY <1>1, <3>1, <3>2
  <2> QED
    BY <2>1, <2>2
<1> QED
  BY <1>3, <1>4, <1>5 DEF Owners, new

LEMMA Given ==
  ASSUME NEW at, DOMAIN at = Places, NEW set \in SUBSET Blocks, Owners(at, set),
         NEW x \in Places, at[x] # 0
  PROVE  Owners([at EXCEPT ![x] = 0], set \ {at[x]})
<1> DEFINE new == [at EXCEPT ![x] = 0]
<1>1. new[x] = 0 /\ \A y \in Places : y # x => new[y] = at[y]
  OBVIOUS
<1> HIDE DEF new
<1>2. \A y \in Places : new[y] # 0 => new[y] \in set \ {at[x]}
  BY <1>1 DEF Owners
<1>3. \A y, z \in Places : new[y] = new[z] /\ new[y] # 0 => y = z
  BY <1>1 DEF Owners
<1>4. \A c \in set \ {at[x]} : \E y \in Places : new[y] = c
  BY <1>1 DEF Owners
<1> QED
  BY <1>2, <1>3, <1>4 DEF Owners, new
-----------------------------------------------------------------------------
(* What a step does to the files: it leaves them alone, takes a block for  *)
(* a place of file i, gives one back from there, or writes one.            *)

LEMMA Numbers ==
  /\ \A e \in 0 .. NINDIRECT - 1 : e \in Words
  /\ \A k \in 0 .. MAXFILE * BSIZE - 1 : /\ k \in Nat /\ k \div BSIZE \in 0 .. MAXFILE - 1
                                         /\ k % BSIZE \in Words
<1>1. \A e \in 0 .. NINDIRECT - 1 : e \in Words
  BY Constants DEF Words
<1>2. ASSUME NEW k \in 0 .. MAXFILE * BSIZE - 1
      PROVE  k \in Nat /\ k \div BSIZE \in 0 .. MAXFILE - 1 /\ k % BSIZE \in Words
  <2> DEFINE m == MAXFILE * BSIZE
  <2>1. m \in Nat /\ MAXFILE \in Nat /\ BSIZE \in Nat \ {0}
    BY Constants
  <2>2. k \in Nat /\ k < m
    <3> HIDE DEF m
    <3> QED
      BY <2>1 DEF m
  <2>3. k \div BSIZE \in Nat /\ k % BSIZE \in 0 .. BSIZE - 1
    BY <2>1, <2>2, Quotient
  <2>4. k \div BSIZE < MAXFILE
    BY <2>1, <2>2, QuotientOf
  <2> QED
    BY <2>1, <2>2, <2>3, <2>4 DEF Words
<1> QED
  BY <1>1, <1>2

(* Two places do not share a block. *)
LEMMA Alone ==
  ASSUME Disk, NEW x \in Places, NEW y \in Places, x # y, At[y] # 0
  PROVE  At[x] # At[y] /\ At[y] \in used
  BY DEF Disk, Owners

LEMMA StoredStays ==
  ASSUME NEW i \in Files, NEW k \in 0 .. MAXFILE * BSIZE - 1, Stored(i, k),
         LET x == DataAt(i, k \div BSIZE) IN
           /\ At'[x] = At[x]
           /\ At[x] # 0 => word'[At[x]][k % BSIZE] = word[At[x]][k % BSIZE]
  PROVE  Stored(i, k)'
  BY DEF Stored

LEMMA IndirectStays ==
  ASSUME NEW i \in Files, Indirect(i), At'[IndirectAt(i)] = At[IndirectAt(i)],
         \A e \in 0 .. NINDIRECT - 1 : At[IndirectAt(i)] # 0 =>
           word'[At[IndirectAt(i)]][e] \in {word[At[IndirectAt(i)]][e]} \cup (0 .. NBLOCKS)
  PROVE  Indirect(i)'
  BY DEF Indirect

LEMMA DiskSame ==
  ASSUME Disk, used' = used, At' = At, word' = word,
         \A i \in Files : ~Going(i)' =>
           \A k \in 0 .. MAXFILE * BSIZE - 1 : Reached(i, k)' => ~Going(i) /\ Reached(i, k)
  PROVE  Disk'
<1>1. Owners(At, used)'
  BY DEF Disk
<1>2. ASSUME NEW i \in Files PROVE Indirect(i)'
  BY IndirectStays DEF Disk
<1>3. ASSUME NEW i \in Files PROVE Contents(i)'
  <2> SUFFICES ASSUME ~Going(i)', NEW k \in 0 .. MAXFILE * BSIZE - 1, Reached(i, k)'
               PROVE  Stored(i, k)'
    BY DEF Contents
  <2>1. Stored(i, k)
    BY DEF Disk, Contents
  <2> QED
    BY <2>1, StoredStays
<1> QED
  BY <1>1, <1>2, <1>3 DEF Disk

LEMMA DiskTaken ==
  ASSUME TypeOK, Disk, NEW i \in Files, NEW x \in Places, At[x] = 0, NEW b \in Blocks \ used,
         used' = used \cup {b}, At' = [At EXCEPT ![x] = b],
         \A w \in Words : word'[b][w] = 0,
         \A c \in used, w \in Words :
           \/ word'[c][w] = word[c][w]
           \/ c = At[IndirectAt(i)] /\ word'[c][w] = b,
         \A j \in Files : /\ Going(j) => Going(j)'
                          /\ \A k \in 0 .. MAXFILE * BSIZE - 1 : Reached(j, k)' => Reached(j, k)
  PROVE  Disk'
<1>1. /\ DOMAIN At = Places /\ used \in SUBSET Blocks /\ b # 0 /\ b \in 0 .. NBLOCKS
      /\ At'[x] = b /\ \A y \in Places : y # x => At'[y] = At[y]
  BY BlocksAt, BlockNumbers DEF Located, TypeOK
<1>2. Owners(At, used)'
  BY <1>1, Taken DEF Disk
<1>3. ASSUME NEW j \in Files PROVE Indirect(j)'
  <2>1. CASE IndirectAt(j) = x
    <3>1. \A e \in 0 .. NINDIRECT - 1 : word'[b][e] \in 0 .. NBLOCKS
      BY Numbers, Constants
    <3> QED
      BY <1>1, <2>1, <3>1 DEF Indirect
  <2>2. CASE IndirectAt(j) # x
    <3>1. IndirectAt(j) \in Places /\ At'[IndirectAt(j)] = At[IndirectAt(j)]
      BY <1>1, <2>2, PlacesAre
    <3>2. At[IndirectAt(j)] # 0 => At[IndirectAt(j)] \in used
      BY <3>1 DEF Disk, Owners
    <3>3. \A e \in 0 .. NINDIRECT - 1 : At[IndirectAt(j)] # 0 =>
            word'[At[IndirectAt(j)]][e] \in {word[At[IndirectAt(j)]][e]} \cup (0 .. NBLOCKS)
      BY <1>1, <3>2, Numbers, ZenonT(60)
    <3> QED
      BY <3>1, <3>3, IndirectStays DEF Disk
  <2> QED
    BY <2>1, <2>2
<1>4. ASSUME NEW j \in Files PROVE Contents(j)'
  <2> SUFFICES ASSUME ~Going(j)', NEW k \in 0 .. MAXFILE * BSIZE - 1, Reached(j, k)'
               PROVE  Stored(j, k)'
    BY DEF Contents
  <2> DEFINE y == DataAt(j, k \div BSIZE)
  <2>1. Stored(j, k)
    BY DEF Disk, Contents
  <2>2. y \in Places /\ y # IndirectAt(i) /\ IndirectAt(i) \in Places /\ k % BSIZE \in Words
    BY Numbers, PlacesAre, PlacesDiffer
  <2>3. At[y] # 0
    BY <2>1 DEF Stored
  <2>4. y # x /\ At'[y] = At[y]
    BY <1>1, <2>2, <2>3
  <2>5. At[y] # At[IndirectAt(i)] /\ At[y] \in used
    BY <2>2, <2>3, Alone
  <2>6. word'[At[y]][k % BSIZE] = word[At[y]][k % BSIZE]
    BY <2>2, <2>5
  <2> QED
    BY <2>1, <2>4, <2>6, StoredStays
<1> QED
  BY <1>2, <1>3, <1>4 DEF Disk

LEMMA DiskGiven ==
  ASSUME TypeOK, Disk, NEW i \in Files, Going(i)', NEW x \in Places, At[x] # 0,
         \/ x = IndirectAt(i) \/ \E k \in 0 .. NDIRECT : x = <<i, k>>
         \/ \E e \in 0 .. NINDIRECT - 1 : x = EntryAt(i, e),
         used' = used \ {At[x]}, At' = [At EXCEPT ![x] = 0],
         \A c \in used : c # At[x] => word'[c] = word[c],
         \A j \in Files : /\ Going(j) => Going(j)'
                          /\ \A k \in 0 .. MAXFILE * BSIZE - 1 : Reached(j, k)' => Reached(j, k)
  PROVE  Disk'
<1>1. /\ DOMAIN At = Places /\ used \in SUBSET Blocks
      /\ At'[x] = 0 /\ \A y \in Places : y # x => At'[y] = At[y]
  BY BlocksAt DEF Located, TypeOK
<1>2. Owners(At, used)'
  BY <1>1, Given DEF Disk
<1>3. ASSUME NEW y \in Places, y # x, At[y] # 0 PROVE At'[y] = At[y] /\ word'[At[y]] = word[At[y]]
  BY <1>1, <1>3, Alone
<1>4. ASSUME NEW j \in Files PROVE Indirect(j)'
  <2>1. CASE IndirectAt(j) = x
    BY <1>1, <2>1 DEF Indirect
  <2>2. CASE IndirectAt(j) # x
    BY <1>1, <1>3, <2>2, PlacesAre, IndirectStays DEF Disk
  <2> QED
    BY <2>1, <2>2
<1>5. ASSUME NEW j \in Files PROVE Contents(j)'
  <2> SUFFICES ASSUME ~Going(j)', NEW k \in 0 .. MAXFILE * BSIZE - 1, Reached(j, k)'
               PROVE  Stored(j, k)'
    BY DEF Contents
  <2> DEFINE y == DataAt(j, k \div BSIZE)
  <2>1. Stored(j, k)
    BY DEF Disk, Contents
  <2>2. y \in Places /\ At[y] # 0
    BY <2>1, Numbers, PlacesAre DEF Stored
  <2>3. y # x
    <3>1. j # i
      OBVIOUS
    <3>2. x[1] = i
      BY DEF IndirectAt, EntryAt
    <3>3. y[1] = j
      BY DEF DataAt, EntryAt
    <3> QED
      BY <3>1, <3>2, <3>3
  <2>4. At'[y] = At[y] /\ word'[At[y]] = word[At[y]]
    BY <1>3, <2>2, <2>3
  <2> QED
    BY <2>1, <2>4, StoredStays
<1> QED
  BY <1>2, <1>4, <1>5 DEF Disk

LEMMA DiskWritten ==
  ASSUME TypeOK, Disk, NEW i \in Files, NEW n \in 0 .. MAXFILE - 1, At[DataAt(i, n)] # 0,
         NEW part \in SUBSET Words, used' = used, At' = At,
         word' = [word EXCEPT ![At[DataAt(i, n)]] =
                    [w \in Words |-> IF w \in part THEN Text(i, n * BSIZE + w) ELSE @[w]]],
         \A j \in Files : ~Going(j)' => ~Going(j),
         \A j \in Files, k \in 0 .. MAXFILE * BSIZE - 1 : Reached(j, k)' =>
           Reached(j, k) \/ (j = i /\ k \div BSIZE = n /\ k % BSIZE \in part)
  PROVE  Disk'
<1> DEFINE x == DataAt(i, n)
           b == At[x]
<1>1. x \in Places /\ b \in used /\ b # 0 /\ used \in SUBSET Blocks /\ word \in [Blocks -> [Words -> Nat]]
  BY PlacesAre DEF TypeOK, Disk, Owners
<1>2. /\ \A c \in used : c # b => word'[c] = word[c]
      /\ \A w \in Words : word'[b][w] = IF w \in part THEN Text(i, n * BSIZE + w) ELSE word[b][w]
  <2> HIDE DEF b
  <2>1. word' = [word EXCEPT ![b] =
                   [w \in Words |-> IF w \in part THEN Text(i, n * BSIZE + w) ELSE @[w]]]
    BY DEF b
  <2> QED
    BY <1>1, <2>1
<1> HIDE DEF b
<1>3. Owners(At, used)'
  BY DEF Disk
<1>4. ASSUME NEW j \in Files PROVE Indirect(j)'
  <2>1. IndirectAt(j) \in Places /\ IndirectAt(j) # x
    BY PlacesAre, PlacesDiffer
  <2>2. At[IndirectAt(j)] # 0 => At[IndirectAt(j)] \in used /\ At[IndirectAt(j)] # b
    BY <1>1, <2>1, Alone DEF b
  <2>3. At[IndirectAt(j)] # 0 => word'[At[IndirectAt(j)]] = word[At[IndirectAt(j)]]
    BY <1>2, <2>2
  <2> QED
    BY <2>3, IndirectStays DEF Disk
<1>5. ASSUME NEW j \in Files PROVE Contents(j)'
  <2> SUFFICES ASSUME ~Going(j)', NEW k \in 0 .. MAXFILE * BSIZE - 1, Reached(j, k)'
               PROVE  Stored(j, k)'
    BY DEF Contents
  <2> DEFINE y == DataAt(j, k \div BSIZE)
  <2>1. ~Going(j)
    OBVIOUS
  <2>2. k \in Nat /\ k \div BSIZE \in 0 .. MAXFILE - 1 /\ k % BSIZE \in Words /\ y \in Places
    BY Numbers, PlacesAre
  <2>3. CASE y # x
    <3>1. Stored(j, k)
      BY <2>1, <2>3 DEF Disk, Contents
    <3>2. At[y] # 0 /\ At[y] # b /\ At[y] \in used
      BY <1>1, <2>2, <2>3, <3>1, Alone DEF Stored, b
    <3> QED
      BY <1>2, <3>1, <3>2, StoredStays
  <2>4. CASE y = x
    <3>1. j = i /\ k \div BSIZE = n
      BY <2>2, <2>4, PlacesDiffer
    <3>2. n * BSIZE + (k % BSIZE) = k
      BY <2>2, <3>1, Quotient, Constants
    <3>3. At'[y] = b /\ b # 0
      BY <1>1, <2>4 DEF b
    <3>4. CASE k % BSIZE \in part
      <4>1. word'[b][k % BSIZE] = Text(i, k)
        BY <1>2, <2>2, <3>2, <3>4
      <4> QED
        BY <3>1, <3>3, <4>1 DEF Stored
    <3>5. CASE k % BSIZE \notin part
      <4>1. Stored(j, k)
        BY <2>1, <3>1, <3>5 DEF Disk, Contents
      <4>2. word'[At[y]][k % BSIZE] = word[At[y]][k % BSIZE]
        BY <1>2, <2>2, <2>4, <3>5 DEF b
      <4> QED
        BY <4>1, <4>2, StoredStays
    <3> QED
      BY <3>4, <3>5
  <2> QED
    BY <2>3, <2>4
<1> QED
  BY <1>3, <1>4, <1>5 DEF Disk
-----------------------------------------------------------------------------
(* What a step of one process leaves to the others. *)

OthersStay(p) ==
  /\ op' \in [Writers -> Op] /\ \A q \in Writers : q # p => op'[q] = op[q]
  /\ \A j \in Files : holder'[j] = holder[j] \/ {holder[j], holder'[j]} \subseteq {None, p}
  /\ \A f \in Opens : open'[f].ip = open[f].ip
  /\ \A q \in Writers : q # p /\ op[q].do \in {"writei", "written"} =>
       open'[op[q].f] = open[op[q].f]
  /\ \A j \in Files : size'[j] >= size[j] \/ holder[j] = p

LEMMA Others ==
  ASSUME TypeOK, Locking, NEW p \in Writers, OthersStay(p), size' \in [Files -> Nat]
  PROVE  /\ \A q \in Writers : q # p => Works(q)'
         /\ \A j \in Files : holder'[j] # p => Holds(j)'
<1>1. ASSUME NEW q \in Writers, q # p PROVE Works(q)'
  <2>1. Works(q) /\ op'[q] = op[q]
    BY <1>1 DEF Locking, OthersStay
  <2>2. Chunk(q)' = Chunk(q)
    BY <2>1 DEF Chunk, MaxChunk
  <2>3. op[q].do \in {"write", "writei", "written"} => InodeOf(q)' = InodeOf(q)
    BY <2>1 DEF Works, OthersStay, InodeOf
  <2>4. ASSUME op[q].do \in {"writei", "written"}
        PROVE  /\ holder'[InodeOf(q)] = q /\ open'[op[q].f] = open[op[q].f]
               /\ size'[InodeOf(q)] >= size[InodeOf(q)] /\ InodeOf(q) \in Files
    <3>1. InodeOf(q) \in Files /\ holder[InodeOf(q)] = q
      BY <2>1, <2>4 DEF Works
    <3>2. q # None
      BY Constants
    <3> QED
      BY <1>1, <2>4, <3>1, <3>2 DEF OthersStay
  <2>5. op[q].do = "written" => op[q].end <= size'[InodeOf(q)]
    <3> SUFFICES ASSUME op[q].do = "written" PROVE op[q].end <= size'[InodeOf(q)]
      OBVIOUS
    <3>1. op[q].end \in Nat /\ size[InodeOf(q)] \in Nat /\ size'[InodeOf(q)] \in Nat
      BY <2>4 DEF TypeOK, Op
    <3>2. op[q].end <= size[InodeOf(q)]
      BY <2>1 DEF Works
    <3> QED
      BY <2>4, <3>1, <3>2
  <2> QED
    BY <2>1, <2>2, <2>3, <2>4, <2>5 DEF Works, NoOp
<1>2. ASSUME NEW j \in Files, holder'[j] # p PROVE Holds(j)'
  <2> SUFFICES ASSUME holder'[j] # None PROVE Holds(j)'
    BY DEF Holds
  <2>1. PICK q \in Writers : q # p /\ holder[j] = q /\ holder'[j] = q
    BY <1>2 DEF OthersStay, TypeOK
  <2>2. Holds(j) /\ op'[q] = op[q] /\ Works(q)
    BY <2>1 DEF Locking, OthersStay
  <2>3. op[q].do \in {"writei", "written"} => InodeOf(q)' = InodeOf(q)
    BY <2>2 DEF Works, OthersStay, InodeOf
  <2>4. \A l \in Files : holder'[l] = q => holder[l] = q
    BY <2>1 DEF OthersStay
  <2>5. \/ op'[q].do = "itrunc" /\ \A l \in Files : holder'[l] = q => l = j
        \/ op'[q].do \in {"writei", "written"} /\ InodeOf(q)' = j
    BY <2>1, <2>2, <2>3, <2>4, Constants DEF Holds
  <2> QED
    BY <2>1, <2>5 DEF Holds, InodeOf
<1> QED
  BY <1>1, <1>2

(* A process that is not truncating leaves truncations alone. *)
LEMMA GoingSame ==
  ASSUME TypeOK, Locking, NEW p \in Writers, OthersStay(p), op[p].do # "itrunc", op'[p].do # "itrunc"
  PROVE  \A j \in Files : /\ Going(j)' <=> Going(j)
                          /\ Going(j) => /\ holder'[j] = holder[j]
                                         /\ op'[holder[j]] = op[holder[j]]
<1> SUFFICES ASSUME NEW j \in Files
             PROVE  /\ Going(j)' <=> Going(j)
                    /\ Going(j) => /\ holder'[j] = holder[j]
                                   /\ op'[holder[j]] = op[holder[j]]
  OBVIOUS
<1>1. p # None /\ None \notin Writers
  BY Constants
<1> QED
  BY <1>1, GoingAre, GoingAreNext DEF HolderGoes, OthersStay

LEMMA WriterPlaces ==
  ASSUME TypeOK, Locking, NEW p \in Writers, OthersStay(p), op[p].do # "itrunc", op'[p].do # "itrunc",
         addrs' = addrs, word' = word
  PROVE  At' = At
<1>1. ASSUME NEW j \in Files, NEW e \in 0 .. NINDIRECT - 1 PROVE EntryOf(j, e)' = EntryOf(j, e)
  <2>1. Gone(j, e)' <=> Gone(j, e)
    BY GoingSame, GoingAre, GoingAreNext DEF HolderGoes
  <2> QED
    BY <2>1 DEF EntryOf
<1> QED
  BY <1>1, SamePlaces

LEMMA ReachedBy ==
  ASSUME TypeOK, Locking, NEW p \in Writers, OthersStay(p), NEW j \in Files, NEW k \in Nat, Reached(j, k)'
  PROVE  \/ k < size'[j] \/ Reached(j, k)
         \/ op'[p].do = "writei" /\ InodeOf(p)' = j /\ k < op'[p].at
<1> SUFFICES ASSUME NEW q \in Writers, q # p, op'[q].do = "writei", InodeOf(q)' = j, k < op'[q].at
             PROVE  Reached(j, k)
  BY DEF Reached
<1>1. op'[q] = op[q] /\ Works(q)
  BY DEF OthersStay, Locking
<1>2. InodeOf(q) = j
  BY <1>1 DEF Works, InodeOf, OthersStay
<1> QED
  BY <1>1, <1>2 DEF Reached

LEMMA InLogStays ==
  ASSUME NEW q \in Writers, NEW x, InLog(q, x), InodeOf(q) \in Files,
         op'[q].f = op[q].f, op'[q].end = op[q].end,
         op[q].do = "written" => op'[q].do = "written", open'[op[q].f] = open[op[q].f],
         \A y \in Places : y[1] = InodeOf(q) /\ At[y] # 0 => At'[y] = At[y]
  PROVE  InLog(q, x)'
<1> DEFINE i == InodeOf(q)
<1>1. InodeOf(q)' = i /\ First(q)' = First(q) /\ Fresh(q)' = Fresh(q)
  BY DEF InodeOf, First, Fresh
<1>2. \A n : Touched(q, n)' <=> Touched(q, n)
  BY DEF Touched
<1>3. \A n \in 0 .. MAXFILE - 1 : DataAt(i, n) \in Places /\ DataAt(i, n)[1] = i
  BY PlacesAre DEF DataAt, EntryAt
<1>4. IndirectAt(i) \in Places /\ IndirectAt(i)[1] = i
  BY PlacesAre DEF IndirectAt
<1> HIDE DEF i
<1>5. CASE \E n \in 0 .. MAXFILE - 1 :
             LET b == At[DataAt(i, n)] IN
             /\ First(q) <= n /\ Touched(q, n) /\ b # 0
             /\ x = Data(b) \/ (Fresh(q) <= n /\ x = Bitmap(b))
  <2>1. PICK n \in 0 .. MAXFILE - 1 :
               LET b == At[DataAt(i, n)] IN
               /\ First(q) <= n /\ Touched(q, n) /\ b # 0
               /\ x = Data(b) \/ (Fresh(q) <= n /\ x = Bitmap(b))
    BY <1>5
  <2>2. At'[DataAt(i, n)] = At[DataAt(i, n)]
    BY <1>3, <2>1 DEF i
  <2> QED
    BY <1>1, <1>2, <2>1, <2>2 DEF InLog
<1>6. CASE LET a == At[IndirectAt(i)] IN a # 0 /\ x \in {Data(a), Bitmap(a)}
  <2>1. At'[IndirectAt(i)] = At[IndirectAt(i)]
    BY <1>4, <1>6 DEF i
  <2> QED
    BY <1>1, <1>6, <2>1 DEF InLog
<1>7. CASE op[q].do = "written" /\ x = Inode(i)
  BY <1>1, <1>7 DEF InLog
<1> QED
  BY <1>5, <1>6, <1>7 DEF InLog, i

LEMMA OthersLog ==
  ASSUME TypeOK, Locking, Logging, NEW p \in Writers, OthersStay(p),
         \A y \in Places : At[y] # 0 => At'[y] = At[y] \/ holder[y[1]] = p
  PROVE  \A q \in Writers : q # p /\ op'[q].do \in {"writei", "written"} =>
           \A x \in op'[q].log : InLog(q, x)'
<1> SUFFICES ASSUME NEW q \in Writers, q # p, op'[q].do \in {"writei", "written"},
                    NEW x \in op'[q].log
             PROVE  InLog(q, x)'
  OBVIOUS
<1>1. op'[q] = op[q] /\ Works(q)
  BY DEF OthersStay, Locking
<1>2. InodeOf(q) \in Files /\ holder[InodeOf(q)] = q /\ open'[op[q].f] = open[op[q].f]
  BY <1>1 DEF Works, OthersStay
<1>3. InLog(q, x)
  BY <1>1 DEF Logging
<1>4. \A y \in Places : y[1] = InodeOf(q) /\ At[y] # 0 => At'[y] = At[y]
  BY <1>2
<1> QED
  BY <1>1, <1>2, <1>3, <1>4, InLogStays

LEMMA Assembled ==
  ASSUME TypeOK, Locking, Logging, NEW p \in Writers, OthersStay(p), TypeOK', Works(p)',
         \A j \in Files : holder'[j] = p => Holds(j)',
         \A f \in Opens : Opened(f)', Disk',
         \A y \in Places : At[y] # 0 => At'[y] = At[y] \/ holder[y[1]] = p,
         op'[p].do \in {"writei", "written"} => \A x \in op'[p].log : InLog(p, x)'
  PROVE  Inductive'
<1>1. size' \in [Files -> Nat]
  BY DEF TypeOK
<1>2. Locking'
  BY <1>1, Others DEF Locking
<1>3. Logging'
  BY OthersLog DEF Logging
<1> QED
  BY <1>2, <1>3 DEF Inductive

LEMMA AtWork ==
  ASSUME TypeOK, Locking, NEW p \in Writers, op[p].do \in {"writei", "written"}
  PROVE  LET o == op[p]
             i == InodeOf(p)
             off == open[o.f].off
         IN /\ o \in Op /\ o.f \in Opens /\ i \in Files /\ open[o.f].ip = i /\ holder[i] = p
            /\ off \in Nat /\ o.at \in Nat /\ o.end \in Nat /\ o.left \in Nat
            /\ off <= o.at /\ o.at <= o.end /\ o.end = off + Chunk(p)
            /\ o.end <= MAXFILE * BSIZE
            /\ Chunk(p) \in Nat /\ Chunk(p) <= o.left /\ Chunk(p) <= MaxChunk
            /\ off <= size[i] /\ size[i] \in Nat /\ ~Going(i)
            /\ \A j \in Files : holder[j] = p => j = i
<1> DEFINE o == op[p]
           i == InodeOf(p)
           off == open[o.f].off
<1>1. /\ o \in Op /\ o.f \in Opens /\ i \in Files /\ holder[i] = p
      /\ off <= o.at /\ o.at <= o.end /\ o.end = off + Chunk(p) /\ o.end <= MAXFILE * BSIZE
  BY DEF TypeOK, Locking, Works
<1>2. off \in Nat /\ o.at \in Nat /\ o.end \in Nat /\ o.left \in Nat /\ size[i] \in Nat
  BY <1>1 DEF TypeOK, Op
<1>3. open[o.f].ip = i /\ i # None
  BY <1>1, Constants DEF InodeOf
<1>4. off <= size[i] /\ ~Going(i)
  BY <1>1, <1>3 DEF Locking, Opened
<1>5. \A j \in Files : holder[j] = p => j = i
  BY Constants DEF Locking, Holds
<1>6. Chunk(p) \in Nat /\ Chunk(p) <= o.left /\ Chunk(p) <= MaxChunk
  BY <1>2, Chunks
<1> QED
  BY <1>1, <1>2, <1>3, <1>4, <1>5, <1>6

LEMMA NoLock ==
  ASSUME TypeOK, Locking, NEW p \in Writers, op[p].do \in {"idle", "write"}
  PROVE  \A j \in Files : holder[j] # p
  BY Constants DEF Locking, Holds

LEMMA WorkType ==
  ASSUME TypeOK, NEW p \in Writers, NEW o \in Op, op' = [op EXCEPT ![p] = o]
  PROVE  op' \in [Writers -> Op] /\ op'[p] = o /\ \A q \in Writers : q # p => op'[q] = op[q]
  BY DEF TypeOK

(* Steps of p that take no block. *)
LEMMA SameFiles ==
  ASSUME Inductive, NEW p \in Writers, OthersStay(p), op[p].do # "itrunc", op'[p].do # "itrunc",
         UNCHANGED <<used, word, addrs>>,
         \A j \in Files, k \in Nat : k < size'[j] => Reached(j, k),
         op'[p].do = "writei" => \A k \in Nat : k < op'[p].at => Reached(InodeOf(p)', k)
  PROVE  Disk' /\ At' = At /\ \A j \in Files : Going(j)' <=> Going(j)
<1>1. At' = At
  BY WriterPlaces DEF Inductive
<1>2. \A j \in Files : Going(j)' <=> Going(j)
  BY GoingSame DEF Inductive
<1>3. ASSUME NEW j \in Files, NEW k \in 0 .. MAXFILE * BSIZE - 1, Reached(j, k)'
      PROVE  Reached(j, k)
  BY <1>3, Numbers, ReachedBy DEF Inductive
<1> QED
  BY <1>1, <1>2, <1>3, DiskSame DEF Inductive

LEMMA WriteBegins ==
  ASSUME Inductive, NEW p \in Writers, NEW f \in Opens, NEW n \in Counts, Write(p, f, n)
  PROVE  Inductive'
<1> DEFINE o == [NoOp EXCEPT !.do = "write", !.f = f, !.left = n]
<1>1. /\ TypeOK /\ Locking /\ Logging /\ op[p].do = "idle" /\ open[f].ip # None
      /\ op' = [op EXCEPT ![p] = o] /\ UNCHANGED <<used, word, addrs, size, open, holder>>
  BY DEF Inductive, Write, Idle
<1>2. o \in Op /\ o.do = "write" /\ o.f = f /\ o.log = {}
  BY Constants DEF NoOp, Op
<1> HIDE DEF o
<1>3. op' \in [Writers -> Op] /\ op'[p] = o /\ \A q \in Writers : q # p => op'[q] = op[q]
  BY <1>1, <1>2, WorkType
<1>4. OthersStay(p) /\ TypeOK'
  BY <1>1, <1>3 DEF OthersStay, TypeOK
<1>5. Disk' /\ At' = At /\ \A j \in Files : Going(j)' <=> Going(j)
  BY <1>1, <1>2, <1>3, <1>4, SameFiles DEF Reached
<1>6. Works(p)'
  <2>1. InodeOf(p)' = open[f].ip /\ open[f].ip \in Files
    BY <1>1, <1>2, <1>3 DEF InodeOf, TypeOK
  <2> QED
    BY <1>2, <1>3, <2>1 DEF Works
<1>7. \A g \in Opens : Opened(g)'
  BY <1>1, <1>5 DEF Locking, Opened, TypeOK
<1>8. \A j \in Files : holder'[j] # p
  BY <1>1, NoLock
<1> QED
  BY <1>1, <1>2, <1>3, <1>4, <1>5, <1>6, <1>7, <1>8, Assembled

LEMMA BeginStep ==
  ASSUME Inductive, NEW p \in Writers, Begin(p)
  PROVE  Inductive'
<1> DEFINE i == InodeOf(p)
           off == open[op[p].f].off
           o == [op[p] EXCEPT !.do = "writei", !.at = off, !.end = off + Chunk(p), !.log = {}]
<1>1. /\ TypeOK /\ Locking /\ Logging /\ op[p].do = "write" /\ holder[i] = None
      /\ off + Chunk(p) <= MAXFILE * BSIZE
      /\ holder' = [holder EXCEPT ![i] = p] /\ UNCHANGED <<used, word, addrs, size, open>>
  BY DEF Inductive, Begin
<1>2. op[p] \in Op /\ op[p].f \in Opens /\ i \in Files /\ off \in Nat /\ op[p].left \in Nat
  BY <1>1 DEF TypeOK, Locking, Works, Op
<1>3. Chunk(p) \in Nat
  BY <1>2, Chunks
<1>4. op' = [op EXCEPT ![p] = o]
  BY DEF Begin, TypeOK, Inductive
<1>5. /\ o \in Op /\ o.do = "writei" /\ o.f = op[p].f /\ o.log = {} /\ o.at = off
      /\ o.end = off + Chunk(p) /\ o.left = op[p].left
  <2> DEFINE e == off + Chunk(p)
  <2>1. e \in Nat
    BY <1>2, <1>3
  <2>2. o = [op[p] EXCEPT !.do = "writei", !.at = off, !.end = e, !.log = {}]
    OBVIOUS
  <2> HIDE DEF o, e, off
  <2>3. /\ o \in Op /\ o.do = "writei" /\ o.f = op[p].f /\ o.log = {} /\ o.at = off
        /\ o.end = e /\ o.left = op[p].left
    BY <1>2, <2>1, <2>2 DEF Op
  <2> QED
    BY <2>3 DEF e
<1> HIDE DEF o
<1>6. op' \in [Writers -> Op] /\ op'[p] = o /\ \A q \in Writers : q # p => op'[q] = op[q]
  BY <1>1, <1>4, <1>5, WorkType
<1>7. OthersStay(p) /\ TypeOK'
  BY <1>1, <1>2, <1>6 DEF OthersStay, TypeOK
<1>8. open[op[p].f].ip = i /\ off <= size[i] /\ size[i] \in Nat
  <2>1. open[op[p].f].ip = i /\ i # None /\ size[i] \in Nat
    BY <1>1, <1>2, Constants DEF InodeOf, TypeOK
  <2> QED
    BY <1>1, <1>2, <2>1 DEF Locking, Opened
<1>9. InodeOf(p)' = i /\ Chunk(p)' = Chunk(p)
  BY <1>1, <1>5, <1>6 DEF InodeOf, Chunk, MaxChunk
<1>10. Disk' /\ At' = At /\ \A j \in Files : Going(j)' <=> Going(j)
  <2>1. \A k \in Nat : k < off => k < size[i]
    BY <1>2, <1>8
  <2> QED
    BY <1>1, <1>5, <1>6, <1>7, <1>9, <2>1, SameFiles DEF Reached
<1>11. Works(p)'
  <2>1. holder'[i] = p
    BY <1>1, <1>2 DEF TypeOK
  <2> QED
    BY <1>1, <1>2, <1>3, <1>5, <1>6, <1>9, <2>1 DEF Works
<1>12. \A g \in Opens : Opened(g)'
  BY <1>1, <1>10 DEF Locking, Opened, TypeOK
<1>13. \A j \in Files : holder'[j] = p => Holds(j)'
  <2>1. \A j \in Files : holder'[j] = p => j = i
    BY <1>1, NoLock
  <2> QED
    BY <1>5, <1>6, <1>9, <2>1 DEF Holds, InodeOf
<1> QED
  BY <1>1, <1>5, <1>6, <1>7, <1>10, <1>11, <1>12, <1>13, Assembled

LEMMA TooLargeStep ==
  ASSUME Inductive, NEW p \in Writers, TooLarge(p)
  PROVE  Inductive'
<1>1. /\ TypeOK /\ Locking /\ Logging /\ op[p].do = "write"
      /\ op' = [op EXCEPT ![p] = NoOp] /\ UNCHANGED <<used, word, addrs, size, open, holder>>
  BY DEF Inductive, TooLarge
<1>2. NoOp \in Op /\ NoOp.do = "idle" /\ NoOp.log = {}
  BY DEF NoOp, Op
<1>3. op' \in [Writers -> Op] /\ op'[p] = NoOp /\ \A q \in Writers : q # p => op'[q] = op[q]
  BY <1>1, <1>2, WorkType
<1>4. OthersStay(p) /\ TypeOK'
  BY <1>1, <1>3 DEF OthersStay, TypeOK
<1>5. Disk' /\ At' = At /\ \A j \in Files : Going(j)' <=> Going(j)
  BY <1>1, <1>2, <1>3, <1>4, SameFiles DEF Reached
<1>6. Works(p)'
  BY <1>2, <1>3 DEF Works
<1>7. \A g \in Opens : Opened(g)'
  BY <1>1, <1>5 DEF Locking, Opened, TypeOK
<1>8. \A j \in Files : holder'[j] # p
  BY <1>1, NoLock
<1> QED
  BY <1>1, <1>2, <1>3, <1>4, <1>5, <1>6, <1>7, <1>8, Assembled

LEMMA SetSizeStep ==
  ASSUME Inductive, NEW p \in Writers, SetSize(p)
  PROVE  Inductive'
<1> DEFINE i == InodeOf(p)
           end == op[p].end
<1>1. /\ TypeOK /\ Locking /\ Logging /\ op[p].do = "writei" /\ op[p].at = end
      /\ size' = [size EXCEPT ![i] = SizeAfter(p)] /\ UNCHANGED <<used, word, addrs, open, holder>>
  BY DEF Inductive, SetSize
<1>2. /\ op[p] \in Op /\ op[p].f \in Opens /\ i \in Files /\ holder[i] = p /\ end \in Nat
      /\ size[i] \in Nat /\ \A j \in Files : holder[j] = p => j = i
      /\ open[op[p].f].off <= op[p].at /\ op[p].end = open[op[p].f].off + Chunk(p)
      /\ op[p].end <= MAXFILE * BSIZE
  BY <1>1, AtWork
<1>3. SizeAfter(p) \in Nat /\ SizeAfter(p) >= size[i] /\ SizeAfter(p) >= end
      /\ (SizeAfter(p) = size[i] \/ SizeAfter(p) = end)
  <2>1. PICK a \in Nat : a = size[i]
    BY <1>2
  <2>2. PICK b \in Nat : b = end
    BY <1>2
  <2>3. Max({a, b}) = IF a >= b THEN a ELSE b
    BY MaxOfTwo
  <2>4. SizeAfter(p) = Max({a, b})
    BY <2>1, <2>2 DEF SizeAfter
  <2> QED
    BY <2>1, <2>2, <2>3, <2>4
<1>4. PICK log \in SUBSET LogBlocks : /\ log \subseteq op[p].log \cup {Inode(i)}
                                      /\ op' = [op EXCEPT ![p].do = "written", ![p].log = log]
  <2>1. Inode(i) \in LogBlocks /\ op[p].log \in SUBSET LogBlocks
    BY <1>2, Constants DEF Inode, LogBlocks, Op
  <2>2. op' = [op EXCEPT ![p].do = "written",
                         ![p].log = IF end > size[i] THEN @ \cup {Inode(i)} ELSE @]
    BY DEF SetSize
  <2>3. CASE end > size[i]
    <3>1. op' = [op EXCEPT ![p].do = "written", ![p].log = op[p].log \cup {Inode(i)}]
      BY <1>1, <2>2, <2>3 DEF TypeOK, Op
    <3> QED
      BY <2>1, <3>1
  <2>4. CASE ~(end > size[i])
    <3>1. op' = [op EXCEPT ![p].do = "written", ![p].log = op[p].log]
      BY <1>1, <2>2, <2>4 DEF TypeOK, Op
    <3> QED
      BY <2>1, <3>1
  <2> QED
    BY <2>3, <2>4
<1> DEFINE o == [op[p] EXCEPT !.do = "written", !.log = log]
<1>5. op' = [op EXCEPT ![p] = o]
  BY <1>1, <1>4 DEF TypeOK
<1>6. /\ o \in Op /\ o.do = "written" /\ o.f = op[p].f /\ o.log = log /\ o.at = op[p].at
      /\ o.end = end /\ o.left = op[p].left
  BY <1>2 DEF Op
<1> HIDE DEF o
<1>7. op' \in [Writers -> Op] /\ op'[p] = o /\ \A q \in Writers : q # p => op'[q] = op[q]
  BY <1>1, <1>5, <1>6, WorkType
<1>8. size' \in [Files -> Nat] /\ size'[i] = SizeAfter(p) /\ \A j \in Files : j # i => size'[j] = size[j]
  BY <1>1, <1>2, <1>3 DEF TypeOK
<1>9. \A j \in Files : size[j] \in Nat /\ size'[j] \in Nat /\ size'[j] >= size[j]
  BY <1>1, <1>3, <1>8 DEF TypeOK
<1>10. OthersStay(p) /\ TypeOK'
  BY <1>1, <1>7, <1>8, <1>9 DEF OthersStay, TypeOK
<1>11. InodeOf(p)' = i /\ Chunk(p)' = Chunk(p)
  BY <1>1, <1>6, <1>7 DEF InodeOf, Chunk, MaxChunk
<1>12. Disk' /\ At' = At /\ \A j \in Files : Going(j)' <=> Going(j)
  <2>1. ASSUME NEW j \in Files, NEW k \in Nat, k < size'[j] PROVE Reached(j, k)
    <3>1. CASE k < size[j]
      BY <3>1 DEF Reached
    <3>2. CASE ~(k < size[j])
      <4>1. j = i /\ k < op[p].at
        BY <1>1, <1>2, <1>3, <1>8, <2>1, <3>2
      <4> QED
        BY <1>1, <4>1 DEF Reached
    <3> QED
      BY <3>1, <3>2
  <2> QED
    BY <1>1, <1>6, <1>7, <1>10, <2>1, SameFiles
<1>13. Works(p)'
  BY <1>1, <1>2, <1>3, <1>6, <1>7, <1>8, <1>11 DEF Works
<1>14. ASSUME NEW g \in Opens PROVE Opened(g)'
  <2>1. Opened(g) /\ open[g].off \in Nat /\ (open[g].ip # None => open[g].ip \in Files)
    BY <1>1 DEF Locking, TypeOK
  <2>2. open[g].ip # None => open[g].off <= size'[open[g].ip]
    BY <1>9, <2>1 DEF Opened
  <2> QED
    BY <1>1, <1>12, <2>1, <2>2 DEF Opened
<1>15. \A j \in Files : holder'[j] = p => Holds(j)'
  BY <1>1, <1>2, <1>6, <1>7, <1>11 DEF Holds, InodeOf
<1>16. ASSUME NEW x \in op'[p].log PROVE InLog(p, x)'
  <2>1. x \in op[p].log \/ x = Inode(i)
    BY <1>4, <1>6, <1>7, <1>16
  <2>2. CASE x \in op[p].log
    <3>1. InLog(p, x)
      BY <1>1, <2>2 DEF Logging
    <3> QED
      BY <1>1, <1>2, <1>6, <1>7, <1>12, <3>1, InLogStays
  <2>3. CASE x = Inode(i)
    BY <1>6, <1>7, <1>11, <2>3 DEF InLog, Inode
  <2> QED
    BY <2>1, <2>2, <2>3
<1> QED
  BY <1>1, <1>10, <1>12, <1>13, <1>14, <1>15, <1>16, Assembled

LEMMA EndWriteStep ==
  ASSUME Inductive, NEW p \in Writers, EndWrite(p)
  PROVE  Inductive'
<1> DEFINE i == InodeOf(p)
           f == op[p].f
           end == op[p].end
           left == op[p].left - (end - open[f].off)
           o == IF left = 0 THEN NoOp ELSE [NoOp EXCEPT !.do = "write", !.f = f, !.left = left]
<1>1. /\ TypeOK /\ Locking /\ Logging /\ op[p].do = "written"
      /\ open' = [open EXCEPT ![f].off = end] /\ holder' = [holder EXCEPT ![i] = None]
      /\ op' = [op EXCEPT ![p] = o] /\ UNCHANGED <<used, word, addrs, size>>
  BY DEF Inductive, EndWrite
<1>2. /\ f \in Opens /\ i \in Files /\ open[f].ip = i /\ holder[i] = p /\ end \in Nat
      /\ size[i] \in Nat /\ \A j \in Files : holder[j] = p => j = i
  BY <1>1, AtWork
<1>3. left \in Nat
  <2>1. /\ open[f].off \in Nat /\ op[p].left \in Nat /\ Chunk(p) \in Nat
        /\ Chunk(p) <= op[p].left /\ end = open[f].off + Chunk(p)
    BY <1>1, AtWork
  <2> QED
    BY <2>1
<1>4. end <= size[i]
  BY <1>1 DEF Locking, Works
<1>5. o \in Op /\ o.log = {} /\ (o = NoOp \/ (o.do = "write" /\ o.f = f)) /\ o.do \in {"idle", "write"}
  <2> HIDE DEF left, f
  <2> QED
    BY <1>2, <1>3 DEF NoOp, Op
<1> HIDE DEF o
<1>6. op' \in [Writers -> Op] /\ op'[p] = o /\ \A q \in Writers : q # p => op'[q] = op[q]
  BY <1>1, <1>5, WorkType
<1>7. /\ open' \in [Opens -> [ip : Files \cup {None}, off : Nat]]
      /\ open'[f].ip = i /\ open'[f].off = end /\ \A g \in Opens : g # f => open'[g] = open[g]
      /\ holder' \in [Files -> Writers \cup {None}] /\ holder'[i] = None
      /\ \A j \in Files : j # i => holder'[j] = holder[j]
  <2> HIDE DEF f, i, end
  <2> QED
    BY <1>1, <1>2 DEF TypeOK
<1>8. ASSUME NEW q \in Writers, q # p, op[q].do \in {"writei", "written"}
      PROVE  open'[op[q].f] = open[op[q].f]
  <2>1. op[q].f \in Opens /\ holder[InodeOf(q)] = q /\ open[op[q].f].ip = InodeOf(q)
    BY <1>1, <1>8, AtWork
  <2>2. op[q].f # f
    BY <1>2, <1>8, <2>1
  <2> QED
    BY <1>7, <2>1, <2>2
<1>9. OthersStay(p) /\ TypeOK'
  <2>1. TypeOK'
    BY <1>1, <1>6, <1>7 DEF TypeOK
  <2>2. OthersStay(p)
    BY <1>1, <1>2, <1>6, <1>7, <1>8 DEF OthersStay, TypeOK
  <2> QED
    BY <2>1, <2>2
<1>10. Disk' /\ At' = At /\ \A j \in Files : Going(j)' <=> Going(j)
  <2>1. op'[p].do # "writei" /\ op'[p].do # "itrunc"
    BY <1>5, <1>6
  <2> QED
    BY <1>1, <1>9, <2>1, SameFiles DEF Reached
<1>11. Works(p)'
  <2>1. CASE o = NoOp
    BY <1>6, <2>1 DEF Works, NoOp
  <2>2. CASE o.do = "write" /\ o.f = f
    <3>1. InodeOf(p)' = i
      BY <1>6, <1>7, <2>2 DEF InodeOf
    <3> QED
      BY <1>2, <1>5, <1>6, <2>2, <3>1 DEF Works
  <2> QED
    BY <1>5, <2>1, <2>2
<1>12. ASSUME NEW g \in Opens PROVE Opened(g)'
  <2>1. CASE g = f
    <3>1. ~Going(i)
      BY <1>1, AtWork
    <3> QED
      BY <1>1, <1>2, <1>4, <1>7, <1>10, <2>1, <3>1 DEF Opened
  <2>2. CASE g # f
    BY <1>1, <1>7, <1>10, <2>2 DEF Locking, Opened, TypeOK
  <2> QED
    BY <2>1, <2>2
<1>13. \A j \in Files : holder'[j] # p
  BY <1>2, <1>7, Constants
<1> QED
  BY <1>1, <1>5, <1>6, <1>9, <1>10, <1>11, <1>12, <1>13, Assembled

LEMMA WriteBlockStep ==
  ASSUME Inductive, NEW p \in Writers, WriteBlock(p)
  PROVE  Inductive'
<1> DEFINE i == InodeOf(p)
           k == op[p].at
           n == Block(p)
           b == BlockOf(i, n)
           m == Min({op[p].end - k, BSIZE - (k % BSIZE)})
           part == {w \in Words : w \in (k % BSIZE) .. (k % BSIZE) + m - 1}
<1>1. /\ TypeOK /\ Locking /\ Logging /\ Disk /\ op[p].do = "writei" /\ k < op[p].end /\ b # 0
      /\ word' = [word EXCEPT ![b] =
                    [w \in Words |-> IF w \in (k % BSIZE) .. (k % BSIZE) + m - 1
                                     THEN Text(i, n * BSIZE + w) ELSE @[w]]]
      /\ op' = [op EXCEPT ![p].at = @ + m, ![p].log = @ \cup {Data(b)}]
      /\ UNCHANGED <<used, addrs, size, open, holder>>
  BY DEF Inductive, WriteBlock, Writing
<1>2. /\ op[p] \in Op /\ op[p].f \in Opens /\ i \in Files /\ holder[i] = p /\ ~Going(i)
      /\ \A j \in Files : holder[j] = p => j = i
      /\ k \in Nat /\ op[p].end \in Nat /\ op[p].end <= MAXFILE * BSIZE
      /\ open[op[p].f].off \in Nat /\ open[op[p].f].off <= k
      /\ op[p].end = open[op[p].f].off + Chunk(p)
  BY <1>1, AtWork
<1>3. BSIZE \in Nat \ {0} /\ MAXFILE \in Nat /\ MAXFILE * BSIZE \in Nat
  BY Constants
<1>4. /\ n \in Nat /\ k % BSIZE \in 0 .. BSIZE - 1 /\ n * BSIZE \in Nat
      /\ k = n * BSIZE + (k % BSIZE)
  BY <1>2, <1>3, Quotient DEF Block
<1>5. /\ m \in Nat \ {0} /\ k + m <= op[p].end /\ (k % BSIZE) + m <= BSIZE
  <2> DEFINE r == k % BSIZE
             x == op[p].end - k
             y == BSIZE - r
  <2>1. x \in Nat \ {0} /\ y \in Nat \ {0} /\ r \in Nat
    BY <1>1, <1>2, <1>3, <1>4
  <2>2. m = IF x <= y THEN x ELSE y
    <3> HIDE DEF x, y
    <3> QED
      BY <2>1, MinOfTwo DEF x, y
  <2>3. k + x = op[p].end /\ r + y = BSIZE
    BY <1>2, <1>3, <2>1
  <2> HIDE DEF m, x, y, r
  <2>4. m \in Nat \ {0} /\ m <= x /\ m <= y
    BY <2>1, <2>2
  <2>5. k + m <= op[p].end /\ r + m <= BSIZE
    BY <1>2, <2>1, <2>3, <2>4
  <2> QED
    BY <2>4, <2>5 DEF r
<1> HIDE DEF m
<1>6. n \in 0 .. MAXFILE - 1 /\ b = At[DataAt(i, n)] /\ b \in used
  <2>1. k \in 0 .. MAXFILE * BSIZE - 1
    BY <1>1, <1>2, <1>3
  <2>2. n \in 0 .. MAXFILE - 1
    BY <2>1, Numbers DEF Block
  <2>3. b = At[DataAt(i, n)]
    BY <1>2, <2>2, Mapped
  <2> QED
    BY <1>1, <1>2, <2>2, <2>3, PlacesAre DEF Disk, Owners
<1> DEFINE o == [op[p] EXCEPT !.at = k + m, !.log = @ \cup {Data(b)}]
<1>7. /\ op' = [op EXCEPT ![p] = o] /\ o \in Op /\ o.do = "writei" /\ o.f = op[p].f
      /\ o.at = k + m /\ o.end = op[p].end /\ o.left = op[p].left
      /\ o.log = op[p].log \cup {Data(b)}
  <2>1. Data(b) \in LogBlocks
    BY <1>1, <1>6 DEF Data, LogBlocks, TypeOK, Blocks
  <2>2. k + m \in Nat
    BY <1>2, <1>5
  <2>3. op' = [op EXCEPT ![p] = o]
    BY <1>1 DEF TypeOK
  <2> HIDE DEF b
  <2> QED
    BY <1>1, <1>2, <2>1, <2>2, <2>3 DEF Op
<1> HIDE DEF o
<1>8. op' \in [Writers -> Op] /\ op'[p] = o /\ \A q \in Writers : q # p => op'[q] = op[q]
  BY <1>1, <1>7, WorkType
<1>9. word' \in [Blocks -> [Words -> Nat]] /\ \A c \in Blocks : c # b => word'[c] = word[c]
  <2>1. b \in Blocks /\ \A w \in Words : Text(i, n * BSIZE + w) \in Nat
    <3>1. \A w \in Words : n * BSIZE + w \in Nat
      BY <1>3, <1>4 DEF Words
    <3> QED
      BY <1>1, <1>2, <1>6, <3>1, Texts DEF TypeOK
  <2> HIDE DEF b, n, i
  <2> QED
    BY <1>1, <2>1 DEF TypeOK
<1>10. OthersStay(p) /\ TypeOK'
  BY <1>1, <1>8, <1>9 DEF OthersStay, TypeOK
<1>11. InodeOf(p)' = i /\ Chunk(p)' = Chunk(p)
  BY <1>1, <1>7, <1>8 DEF InodeOf, Chunk, MaxChunk
<1>12. \A j \in Files : Going(j)' <=> Going(j)
  BY <1>1, <1>7, <1>8, <1>10, GoingSame
<1>13. At' = At
  <2>1. ASSUME NEW j \in Files, NEW e \in 0 .. NINDIRECT - 1 PROVE EntryOf(j, e)' = EntryOf(j, e)
    <3>1. Gone(j, e)' <=> Gone(j, e)
      BY <1>1, <1>7, <1>8, <1>10, GoingSame, GoingAre, GoingAreNext DEF HolderGoes
    <3>2. addrs[j][NDIRECT] # 0 => word'[addrs[j][NDIRECT]] = word[addrs[j][NDIRECT]]
      <4>1. IndirectAt(j) \in Places /\ DataAt(i, n) \in Places /\ IndirectAt(j) # DataAt(i, n)
        BY <1>2, <1>6, PlacesAre, PlacesDiffer
      <4>2. At[IndirectAt(j)] = addrs[j][NDIRECT]
        BY BlocksAt DEF Located
      <4>3. addrs[j][NDIRECT] # 0 => addrs[j][NDIRECT] \in used /\ addrs[j][NDIRECT] # b
        BY <1>1, <1>6, <4>1, <4>2, Alone
      <4> QED
        BY <1>1, <1>9, <4>3 DEF TypeOK
    <3> QED
      BY <1>1, <3>1, <3>2 DEF EntryOf
  <2> QED
    BY <1>1, <2>1, SamePlaces
<1>14. Disk'
  <2>1. ASSUME NEW j \in Files, NEW c \in 0 .. MAXFILE * BSIZE - 1, Reached(j, c)'
        PROVE  Reached(j, c) \/ (j = i /\ c \div BSIZE = n /\ c % BSIZE \in part)
    <3>1. c \in Nat
      BY Numbers
    <3>2. k < size'[j] => Reached(j, k)
      BY <1>1 DEF Reached
    <3>3. Reached(j, c) \/ (j = i /\ c < k + m)
      BY <1>1, <1>7, <1>8, <1>10, <1>11, <2>1, <3>1, ReachedBy DEF Reached
    <3>4. CASE c < k /\ j = i
      BY <1>1, <3>4 DEF Reached
    <3>5. CASE k <= c /\ c < k + m /\ j = i
      <4>1. n * BSIZE <= c /\ c < n * BSIZE + BSIZE /\ k % BSIZE <= c - n * BSIZE
            /\ c - n * BSIZE < (k % BSIZE) + m
        <5> DEFINE s == n * BSIZE
                   r == k % BSIZE
        <5>1. s \in Nat /\ r \in Nat /\ k = s + r /\ r + m <= BSIZE /\ m \in Nat
          BY <1>3, <1>4, <1>5
        <5> HIDE DEF s, r
        <5>2. s <= c /\ c < s + BSIZE /\ r <= c - s /\ c - s < r + m
          BY <1>2, <1>3, <3>1, <3>5, <5>1
        <5> QED
          BY <5>2 DEF s, r
      <4>2. c \div BSIZE = n /\ c % BSIZE = c - n * BSIZE
        BY <1>3, <1>4, <3>1, <4>1, QuotientOf
      <4>3. c % BSIZE \in Words
        BY Numbers
      <4>4. c % BSIZE \in (k % BSIZE) .. (k % BSIZE) + m - 1
        <5> DEFINE r == k % BSIZE
                   d == c % BSIZE
        <5>1. r \in Nat /\ m \in Nat /\ d \in Nat /\ r <= d /\ d < r + m
          BY <1>3, <1>4, <1>5, <4>1, <4>2, <4>3 DEF Words
        <5> HIDE DEF r, d
        <5>2. d \in r .. r + m - 1
          BY <5>1
        <5> QED
          BY <5>2 DEF r, d
      <4> QED
        BY <3>5, <4>2, <4>3, <4>4
    <3> QED
      BY <1>2, <1>5, <3>1, <3>3, <3>4, <3>5
  <2>2. word' = [word EXCEPT ![At[DataAt(i, n)]] =
                   [w \in Words |-> IF w \in part THEN Text(i, n * BSIZE + w) ELSE @[w]]]
    BY <1>1, <1>6
  <2>3. part \in SUBSET Words /\ At[DataAt(i, n)] # 0
    BY <1>1, <1>6
  <2> HIDE DEF part, n
  <2> QED
    BY <1>1, <1>2, <1>6, <1>12, <1>13, <2>1, <2>2, <2>3, DiskWritten
<1>15. Works(p)'
  BY <1>1, <1>2, <1>5, <1>7, <1>8, <1>11 DEF Works
<1>16. \A g \in Opens : Opened(g)'
  BY <1>1, <1>12 DEF Locking, Opened, TypeOK
<1>17. \A j \in Files : holder'[j] = p => Holds(j)'
  BY <1>1, <1>2, <1>7, <1>8, <1>11 DEF Holds, InodeOf
<1>18. ASSUME NEW x \in op'[p].log PROVE InLog(p, x)'
  <2>1. x \in op[p].log \/ x = Data(b)
    BY <1>7, <1>8, <1>18
  <2>2. CASE x \in op[p].log
    <3>1. InLog(p, x)
      BY <1>1, <2>2 DEF Logging
    <3> QED
      BY <1>1, <1>2, <1>7, <1>8, <1>13, <3>1, InLogStays
  <2>3. CASE x = Data(b)
    <3>1. First(p) <= n
      <4> DEFINE off == open[op[p].f].off
      <4>1. off \div BSIZE \in Nat /\ (off \div BSIZE) * BSIZE \in Nat /\ (off \div BSIZE) * BSIZE <= off
        <5>1. off \in Nat
          BY <1>2
        <5> HIDE DEF off
        <5>2. /\ off \div BSIZE \in Nat /\ off % BSIZE \in 0 .. BSIZE - 1
              /\ (off \div BSIZE) * BSIZE \in Nat /\ off = (off \div BSIZE) * BSIZE + (off % BSIZE)
          BY <1>3, <5>1, Quotient
        <5> QED
          BY <1>3, <5>2
      <4>2. (off \div BSIZE) * BSIZE <= k
        BY <1>2, <4>1
      <4>3. off \div BSIZE <= k \div BSIZE
        BY <1>2, <1>3, <4>1, <4>2, QuotientOf
      <4> QED
        BY <4>3 DEF First, Block
    <3>2. Touched(p, n)
      BY <1>1, <1>2, <1>3, <1>4 DEF Touched
    <3>3. First(p)' = First(p)
      BY <1>1, <1>7, <1>8 DEF First
    <3>4. At'[DataAt(i, n)] = b
      BY <1>6, <1>13
    <3>5. PICK c : c = n
      OBVIOUS
    <3>6. Touched(p, c)'
      BY <1>7, <1>8, <3>2, <3>5 DEF Touched
    <3> HIDE DEF n, b
    <3> QED
      BY <1>1, <1>6, <1>11, <2>3, <3>1, <3>3, <3>4, <3>5, <3>6 DEF InLog, Data
  <2> QED
    BY <2>1, <2>2, <2>3
<1> QED
  BY <1>1, <1>10, <1>13, <1>14, <1>15, <1>16, <1>17, <1>18, Assembled

(* A round of the loop of writei() that takes a block. *)
LEMMA MapFrame ==
  ASSUME Inductive, NEW p \in Writers, Writing(p), NEW S \in SUBSET LogBlocks,
         op' = [op EXCEPT ![p].log = @ \cup S], UNCHANGED <<size, open, holder>>
  PROVE  /\ OthersStay(p) /\ op'[p].log = op[p].log \cup S
         /\ \A r \in {"do", "f", "left", "at", "end"} : op'[p][r] = op[p][r]
         /\ InodeOf(p)' = InodeOf(p) /\ Chunk(p)' = Chunk(p)
         /\ \A j \in Files : /\ Going(j)' <=> Going(j)
                             /\ \A e : Gone(j, e)' <=> Gone(j, e)
                             /\ \A k \in Nat : Reached(j, k)' => Reached(j, k)
<1>1. TypeOK /\ Locking /\ op[p].do = "writei" /\ op[p] \in Op
  BY AtWork DEF Inductive, Writing
<1> DEFINE o == [op[p] EXCEPT !.log = @ \cup S]
<1>2. op' = [op EXCEPT ![p] = o]
  BY <1>1 DEF TypeOK
<1>3. /\ o \in Op /\ o.log = op[p].log \cup S /\ o.do = op[p].do /\ o.f = op[p].f
      /\ o.left = op[p].left /\ o.at = op[p].at /\ o.end = op[p].end
  BY <1>1 DEF Op
<1> HIDE DEF o
<1>4. op' \in [Writers -> Op] /\ op'[p] = o /\ \A q \in Writers : q # p => op'[q] = op[q]
  BY <1>1, <1>2, <1>3, WorkType
<1>5. OthersStay(p)
  BY <1>1, <1>4 DEF OthersStay, TypeOK
<1>6. InodeOf(p)' = InodeOf(p) /\ Chunk(p)' = Chunk(p)
  BY <1>3, <1>4 DEF InodeOf, Chunk, MaxChunk
<1>7. \A j \in Files : /\ Going(j)' <=> Going(j)
                       /\ \A e : Gone(j, e)' <=> Gone(j, e)
  BY <1>1, <1>3, <1>4, <1>5, GoingSame, GoingAre, GoingAreNext DEF HolderGoes
<1>8. ASSUME NEW j \in Files, NEW k \in Nat, Reached(j, k)' PROVE Reached(j, k)
  <2>1. \/ k < size'[j] \/ Reached(j, k)
        \/ op'[p].do = "writei" /\ InodeOf(p)' = j /\ k < op'[p].at
    BY <1>1, <1>5, <1>8, ReachedBy
  <2>2. size' = size /\ op'[p].do = op[p].do /\ op'[p].at = op[p].at
    BY <1>3, <1>4
  <2> QED
    BY <1>6, <2>1, <2>2 DEF Reached
<1> QED
  BY <1>3, <1>4, <1>5, <1>6, <1>7, <1>8

LEMMA MapStep ==
  ASSUME Inductive, NEW p \in Writers, Writing(p), NEW S \in SUBSET LogBlocks,
         op' = [op EXCEPT ![p].log = @ \cup S], UNCHANGED <<size, open, holder>>,
         NEW x \in Places, At[x] = 0, NEW b \in Blocks \ used,
         used' = used \cup {b}, At' = [At EXCEPT ![x] = b],
         word' \in [Blocks -> [Words -> Nat]], addrs' \in [Files -> [0 .. NDIRECT -> 0 .. NBLOCKS]],
         \A w \in Words : word'[b][w] = 0,
         \A c \in used, w \in Words :
           \/ word'[c][w] = word[c][w]
           \/ c = At[IndirectAt(InodeOf(p))] /\ word'[c][w] = b,
         \A y \in S : InLog(p, y)'
  PROVE  Inductive'
<1> DEFINE i == InodeOf(p)
<1>1. TypeOK /\ Locking /\ Disk /\ Logging /\ op[p].do = "writei" /\ op[p] \in Op
  BY AtWork DEF Inductive, Writing
<1>2. /\ OthersStay(p) /\ op'[p].log = op[p].log \cup S
      /\ op'[p].do = op[p].do /\ op'[p].f = op[p].f /\ op'[p].left = op[p].left
      /\ op'[p].at = op[p].at /\ op'[p].end = op[p].end
      /\ InodeOf(p)' = i /\ Chunk(p)' = Chunk(p)
      /\ \A j \in Files : /\ Going(j)' <=> Going(j)
                          /\ \A k \in Nat : Reached(j, k)' => Reached(j, k)
  BY MapFrame
<1>3. i \in Files /\ op[p].f \in Opens /\ holder[i] = p /\ \A j \in Files : holder[j] = p => j = i
  BY <1>1, AtWork
<1>4. TypeOK'
  BY <1>1, <1>2 DEF TypeOK, OthersStay
<1>5. Disk'
  BY <1>1, <1>2, <1>3, Numbers, DiskTaken
<1>6. \A y \in Places : At[y] # 0 => At'[y] = At[y]
  BY BlocksAt DEF Located
<1>7. Works(p)'
  BY <1>1, <1>2, <1>3 DEF Works, Locking
<1>8. \A f \in Opens : Opened(f)'
  BY <1>1, <1>2 DEF Locking, Opened, TypeOK
<1>9. \A j \in Files : holder'[j] = p => Holds(j)'
  BY <1>1, <1>2, <1>3 DEF Holds, InodeOf
<1>10. ASSUME NEW y \in op'[p].log PROVE InLog(p, y)'
  <2>1. CASE y \in S
    BY <2>1
  <2>2. CASE y \in op[p].log
    <3>1. InLog(p, y)
      BY <1>1, <2>2 DEF Logging
    <3> QED
      BY <1>1, <1>2, <1>3, <1>6, <3>1, InLogStays
  <2> QED
    BY <1>2, <1>10, <2>1, <2>2
<1> QED
  BY <1>1, <1>2, <1>4, <1>5, <1>6, <1>7, <1>8, <1>9, <1>10, Assembled

LEMMA FreeBlock ==
  ASSUME TypeOK, FreeBlocks # {}
  PROVE  Min(FreeBlocks) \in Blocks \ used
<1>1. FreeBlocks \in SUBSET Nat
  BY BlockNumbers DEF FreeBlocks
<1> QED
  BY <1>1, LeastIn DEF FreeBlocks

LEMMA LogTypes ==
  ASSUME NEW b \in Blocks
  PROVE  Data(b) \in LogBlocks /\ Bitmap(b) \in LogBlocks
<1>1. b \in Nat /\ BPB \in Nat \ {0}
  BY BlockNumbers, Constants
<1>2. b \div BPB \in Nat
  BY <1>1, Quotient
<1> QED
  BY <1>1, <1>2 DEF Data, Bitmap, LogBlocks

(* The block that is written lies in the part that the call writes; it is  *)
(* missing only when the call does not begin inside it.                    *)
LEMMA InPart ==
  ASSUME Inductive, NEW p \in Writers, Writing(p)
  PROVE  LET i == InodeOf(p)
             n == Block(p)
         IN /\ n \in 0 .. MAXFILE - 1 /\ First(p) <= n /\ Touched(p, n)
            /\ At[DataAt(i, n)] = 0 => Fresh(p) <= n
<1> DEFINE i == InodeOf(p)
           k == op[p].at
           n == Block(p)
           off == open[op[p].f].off
           f == First(p)
<1>1. TypeOK /\ Locking /\ Disk /\ op[p].do = "writei" /\ k < op[p].end
  BY DEF Inductive, Writing
<1>2. /\ i \in Files /\ ~Going(i) /\ k \in Nat /\ op[p].end \in Nat /\ off \in Nat /\ off <= k
      /\ op[p].end <= MAXFILE * BSIZE /\ off <= size[i] /\ size[i] \in Nat
  BY <1>1, AtWork
<1>3. BSIZE \in Nat \ {0} /\ MAXFILE \in Nat /\ MAXFILE * BSIZE \in Nat
  BY Constants
<1>4. n = k \div BSIZE /\ f = off \div BSIZE
  BY DEF Block, First
<1> HIDE DEF n, off, f, k
<1>5. /\ n \in Nat /\ k % BSIZE \in 0 .. BSIZE - 1 /\ n * BSIZE \in Nat
      /\ k = n * BSIZE + (k % BSIZE)
  BY <1>2, <1>3, <1>4, Quotient
<1>6. /\ f \in Nat /\ off % BSIZE \in 0 .. BSIZE - 1 /\ f * BSIZE \in Nat
      /\ off = f * BSIZE + (off % BSIZE)
  BY <1>2, <1>3, <1>4, Quotient
<1>7. k \in 0 .. MAXFILE * BSIZE - 1
  BY <1>1, <1>2, <1>3
<1>8. n \in 0 .. MAXFILE - 1
  BY <1>4, <1>7, Numbers
<1>9. f <= n
  <2>1. f * BSIZE <= k
    BY <1>2, <1>3, <1>6
  <2> QED
    BY <1>2, <1>3, <1>4, <1>6, <2>1, QuotientOf
<1>10. Touched(p, n)
  <2>1. n * BSIZE < op[p].end
    BY <1>1, <1>2, <1>3, <1>5
  <2> QED
    BY <1>5, <2>1 DEF Touched
<1>11. ASSUME At[DataAt(i, n)] = 0 PROVE Fresh(p) <= n
  <2>1. CASE off % BSIZE = 0
    BY <1>9, <2>1 DEF Fresh, off, f
  <2>2. CASE off % BSIZE # 0
    <3>1. f # n
      <4> SUFFICES ASSUME f = n PROVE FALSE
        OBVIOUS
      <4> DEFINE c == f * BSIZE
      <4>1. c \in Nat /\ c < size[i] /\ c <= k
        BY <1>2, <1>3, <1>6, <2>2
      <4>2. c \in 0 .. MAXFILE * BSIZE - 1
        BY <1>2, <1>3, <1>7, <4>1
      <4>3. c \div BSIZE = f
        <5>1. f * BSIZE <= c /\ c < f * BSIZE + BSIZE
          BY <1>3, <4>1
        <5> HIDE DEF c
        <5> QED
          BY <1>3, <1>6, <4>1, <5>1, QuotientOf
      <4> HIDE DEF c
      <4>4. Reached(i, c)
        BY <4>1 DEF Reached
      <4>5. Stored(i, c)
        BY <1>1, <1>2, <4>2, <4>4 DEF Disk, Contents
      <4> QED
        BY <1>11, <4>3, <4>5 DEF Stored
    <3>2. Fresh(p) = f + 1
      BY <2>2 DEF Fresh, off, f
    <3> QED
      BY <1>5, <1>6, <1>9, <3>1, <3>2
  <2> QED
    BY <2>1, <2>2
<1> QED
  BY <1>8, <1>9, <1>10, <1>11 DEF n, f

LEMMA MapDirectStep ==
  ASSUME Inductive, NEW p \in Writers, NEW b \in Blocks, MapDirect(p, b)
  PROVE  Inductive'
<1> DEFINE i == InodeOf(p)
           n == Block(p)
           S == {Bitmap(b), Data(b)}
<1>1. /\ TypeOK /\ Locking /\ Disk /\ Writing(p) /\ n < NDIRECT /\ addrs[i][n] = 0
      /\ b \in Blocks \ used /\ used' = used \cup {b} /\ word' = [word EXCEPT ![b] = Blank]
      /\ addrs' = [addrs EXCEPT ![i][n] = b] /\ op' = [op EXCEPT ![p].log = @ \cup S]
      /\ UNCHANGED <<size, open, holder>>
  BY FreeBlock DEF Inductive, MapDirect, Balloc, Logs
<1>2. i \in Files /\ ~Going(i)
  BY <1>1, AtWork DEF Writing
<1>3. n \in 0 .. MAXFILE - 1 /\ First(p) <= n /\ Touched(p, n)
  BY <1>1, InPart
<1> HIDE DEF n
<1>4. n \in 0 .. NDIRECT /\ n # NDIRECT /\ NDIRECT \in Nat
  BY <1>1, <1>3, Constants
<1> DEFINE x == DataAt(i, n)
<1>5. x = <<i, n>> /\ x \in Places /\ At[x] = 0
  BY <1>1, <1>2, <1>3, <1>4, PlacesAre, BlocksAt DEF DataAt, Located
<1>6. Fresh(p) <= n
  BY <1>1, <1>5, InPart DEF n
<1>7. S \in SUBSET LogBlocks
  BY LogTypes
<1> HIDE DEF S
<1>8. \A j \in Files : \A e : Gone(j, e)' <=> Gone(j, e)
  BY <1>1, <1>7, MapFrame
<1>9. /\ addrs' \in [Files -> [0 .. NDIRECT -> 0 .. NBLOCKS]] /\ addrs'[i][n] = b
      /\ \A j \in Files, k \in 0 .. NDIRECT : <<j, k>> # <<i, n>> => addrs'[j][k] = addrs[j][k]
  BY <1>1, <1>2, <1>4, BlockNumbers DEF TypeOK
<1>10. /\ word' \in [Blocks -> [Words -> Nat]] /\ \A w \in Words : word'[b][w] = 0
       /\ \A c \in used : word'[c] = word[c]
  <2>1. Blank \in [Words -> Nat] /\ \A w \in Words : Blank[w] = 0
    BY DEF Blank
  <2> HIDE DEF S
  <2> QED
    BY <1>1, <2>1 DEF TypeOK
<1>11. At' = [At EXCEPT ![x] = b]
  <2>1. At'[x] = b
    BY <1>2, <1>4, <1>5, <1>9, BlocksAtNext DEF Located
  <2>2. ASSUME NEW y \in Places, y # x PROVE At'[y] = At[y]
    <3>1. PICK j \in Files : \/ \E k \in 0 .. NDIRECT : y = <<j, k>>
                             \/ \E e \in 0 .. NINDIRECT - 1 : y = EntryAt(j, e)
      BY PlacesAre
    <3>2. CASE \E k \in 0 .. NDIRECT : y = <<j, k>>
      BY <1>5, <1>9, <2>2, <3>2, BlocksAt, BlocksAtNext DEF Located
    <3>3. CASE \E e \in 0 .. NINDIRECT - 1 : y = EntryAt(j, e)
      <4>1. PICK e \in 0 .. NINDIRECT - 1 : y = EntryAt(j, e)
        BY <3>3
      <4>2. NDIRECT \in 0 .. NDIRECT /\ addrs'[j][NDIRECT] = addrs[j][NDIRECT]
        BY <1>4, <1>9
      <4>3. addrs[j][NDIRECT] # 0 => addrs[j][NDIRECT] \in used
        BY <1>1, PlacesAre, BlocksAt DEF Disk, Owners, Located
      <4>4. EntryOf(j, e)' = EntryOf(j, e)
        BY <1>8, <1>10, <4>2, <4>3 DEF EntryOf
      <4> QED
        BY <4>1, <4>4, BlocksAt, BlocksAtNext DEF Located
    <3> QED
      BY <3>1, <3>2, <3>3
  <2> QED
    BY <1>5, <2>1, <2>2, OnePlace
<1>12. ASSUME NEW y \in S PROVE InLog(p, y)'
  <2>1. /\ InodeOf(p)' = i /\ op'[p].f = op[p].f /\ op'[p].end = op[p].end
    BY <1>1, <1>7, MapFrame
  <2>2. First(p)' = First(p) /\ Fresh(p)' = Fresh(p)
    BY <1>1, <2>1 DEF First, Fresh
  <2>3. PICK c : c = n
    OBVIOUS
  <2>4. Touched(p, c)'
    BY <1>3, <2>1, <2>3 DEF Touched
  <2>5. At'[x] = b /\ b # 0
    BY <1>5, <1>11, BlocksAt, BlockNumbers DEF Located
  <2>6. y = Data(b) \/ y = Bitmap(b)
    BY <1>12 DEF S
  <2> QED
    BY <1>3, <1>6, <2>1, <2>2, <2>3, <2>4, <2>5, <2>6 DEF InLog, Data, Bitmap
<1> QED
  BY <1>1, <1>5, <1>7, <1>9, <1>10, <1>11, <1>12, MapStep, ZenonT(60)

LEMMA MapIndirectStep ==
  ASSUME Inductive, NEW p \in Writers, NEW b \in Blocks, MapIndirect(p, b)
  PROVE  Inductive'
<1> DEFINE i == InodeOf(p)
           S == {Bitmap(b), Data(b)}
           x == IndirectAt(i)
<1>1. /\ TypeOK /\ Locking /\ Disk /\ Writing(p) /\ addrs[i][NDIRECT] = 0
      /\ b \in Blocks \ used /\ used' = used \cup {b} /\ word' = [word EXCEPT ![b] = Blank]
      /\ addrs' = [addrs EXCEPT ![i][NDIRECT] = b] /\ op' = [op EXCEPT ![p].log = @ \cup S]
      /\ UNCHANGED <<size, open, holder>>
  BY FreeBlock DEF Inductive, MapIndirect, Balloc, Logs
<1>2. i \in Files /\ ~Going(i)
  BY <1>1, AtWork DEF Writing
<1>3. NDIRECT \in 0 .. NDIRECT
  BY Constants
<1>4. x = <<i, NDIRECT>> /\ x \in Places /\ At[x] = 0
  BY <1>1, <1>2, PlacesAre, BlocksAt DEF IndirectAt, Located
<1>5. S \in SUBSET LogBlocks
  BY LogTypes
<1> HIDE DEF S
<1>6. \A j \in Files : \A e : Gone(j, e)' <=> Gone(j, e)
  BY <1>1, <1>5, MapFrame
<1>7. /\ addrs' \in [Files -> [0 .. NDIRECT -> 0 .. NBLOCKS]] /\ addrs'[i][NDIRECT] = b
      /\ \A j \in Files, k \in 0 .. NDIRECT : <<j, k>> # x => addrs'[j][k] = addrs[j][k]
  BY <1>1, <1>2, <1>3, <1>4, BlockNumbers DEF TypeOK
<1>8. /\ word' \in [Blocks -> [Words -> Nat]] /\ \A w \in Words : word'[b][w] = 0
      /\ \A c \in used : word'[c] = word[c]
  <2>1. Blank \in [Words -> Nat] /\ \A w \in Words : Blank[w] = 0
    BY DEF Blank
  <2> QED
    BY <1>1, <2>1 DEF TypeOK
<1>9. At' = [At EXCEPT ![x] = b]
  <2>1. At'[x] = b
    BY <1>2, <1>7, BlocksAtNext DEF Located
  <2>2. ASSUME NEW y \in Places, y # x PROVE At'[y] = At[y]
    <3>1. PICK j \in Files : \/ \E k \in 0 .. NDIRECT : y = <<j, k>>
                             \/ \E e \in 0 .. NINDIRECT - 1 : y = EntryAt(j, e)
      BY PlacesAre
    <3>2. CASE \E k \in 0 .. NDIRECT : y = <<j, k>>
      BY <1>7, <2>2, <3>2, BlocksAt, BlocksAtNext DEF Located
    <3>3. CASE \E e \in 0 .. NINDIRECT - 1 : y = EntryAt(j, e)
      <4>1. PICK e \in 0 .. NINDIRECT - 1 : y = EntryAt(j, e)
        BY <3>3
      <4>2. CASE j = i
        <5>1. EntryOf(j, e) = 0
          BY <1>1, <4>2 DEF EntryOf
        <5>2. addrs'[j][NDIRECT] = b /\ word'[b][e] = 0
          BY <1>7, <1>8, <4>2, Numbers
        <5>3. EntryOf(j, e)' = 0
          BY <5>2 DEF EntryOf
        <5> QED
          BY <4>1, <5>1, <5>3, BlocksAt, BlocksAtNext DEF Located
      <4>3. CASE j # i
        <5>1. addrs'[j][NDIRECT] = addrs[j][NDIRECT]
          BY <1>3, <1>4, <1>7, <4>3
        <5>2. addrs[j][NDIRECT] # 0 => addrs[j][NDIRECT] \in used
          BY <1>1, PlacesAre, BlocksAt DEF Disk, Owners, Located
        <5>3. EntryOf(j, e)' = EntryOf(j, e)
          BY <1>6, <1>8, <5>1, <5>2 DEF EntryOf
        <5> QED
          BY <4>1, <5>3, BlocksAt, BlocksAtNext DEF Located
      <4> QED
        BY <4>2, <4>3
    <3> QED
      BY <3>1, <3>2, <3>3
  <2> QED
    BY <1>4, <2>1, <2>2, OnePlace
<1>10. ASSUME NEW y \in S PROVE InLog(p, y)'
  <2>1. InodeOf(p)' = i
    BY <1>1, <1>5, MapFrame
  <2>2. At'[x] = b /\ b # 0
    BY <1>4, <1>9, BlocksAt, BlockNumbers DEF Located
  <2>3. y = Data(b) \/ y = Bitmap(b)
    BY <1>10 DEF S
  <2> QED
    BY <2>1, <2>2, <2>3 DEF InLog, Data, Bitmap
<1> QED
  BY <1>1, <1>4, <1>5, <1>7, <1>8, <1>9, <1>10, MapStep, ZenonT(60)

LEMMA MapEntryStep ==
  ASSUME Inductive, NEW p \in Writers, NEW b \in Blocks, MapEntry(p, b)
  PROVE  Inductive'
<1> DEFINE i == InodeOf(p)
           a == addrs[i][NDIRECT]
           n == Block(p)
           e == n - NDIRECT
           S == {Bitmap(b), Data(b), Data(a)}
           x == DataAt(i, n)
<1>1. /\ TypeOK /\ Locking /\ Disk /\ Writing(p) /\ n >= NDIRECT /\ a # 0 /\ word[a][e] = 0
      /\ b \in Blocks \ used /\ used' = used \cup {b}
      /\ word' = [word EXCEPT ![b] = Blank, ![a][e] = b]
      /\ op' = [op EXCEPT ![p].log = @ \cup S] /\ UNCHANGED <<addrs, size, open, holder>>
  BY FreeBlock DEF Inductive, MapEntry, Logs
<1>2. i \in Files /\ ~Going(i)
  BY <1>1, AtWork DEF Writing
<1>3. n \in 0 .. MAXFILE - 1 /\ First(p) <= n /\ Touched(p, n)
  BY <1>1, InPart
<1> HIDE DEF n
<1>4. e \in 0 .. NINDIRECT - 1 /\ ~(n < NDIRECT)
  BY <1>1, <1>3, Constants
<1>5. a = At[IndirectAt(i)] /\ a \in used /\ a # b /\ used \in SUBSET Blocks
  BY <1>1, <1>2, PlacesAre, BlocksAt DEF Disk, Owners, Located, TypeOK
<1>6. \A c : ~Gone(i, c)
  BY <1>2, GoingAre DEF HolderGoes
<1>7. x = EntryAt(i, e) /\ x \in Places /\ At[x] = 0
  <2>1. x = EntryAt(i, e) /\ x \in Places
    BY <1>2, <1>3, <1>4, PlacesAre DEF DataAt
  <2>2. EntryOf(i, e) = 0
    BY <1>1 DEF EntryOf
  <2> QED
    BY <1>2, <1>4, <2>1, <2>2, BlocksAt DEF Located
<1>8. Fresh(p) <= n
  BY <1>1, <1>7, InPart DEF n
<1>9. S \in SUBSET LogBlocks
  BY <1>5, LogTypes
<1> HIDE DEF e, a, x
<1>10. /\ word' \in [Blocks -> [Words -> Nat]] /\ \A w \in Words : word'[b][w] = 0
       /\ word'[a][e] = b /\ \A w \in Words : w # e => word'[a][w] = word[a][w]
       /\ \A c \in used : c # a => word'[c] = word[c]
  <2>1. Blank \in [Words -> Nat] /\ \A w \in Words : Blank[w] = 0
    BY DEF Blank
  <2>2. e \in Words /\ b \in Nat
    BY <1>4, Numbers, BlockNumbers
  <2> HIDE DEF S
  <2>3. word' = [[word EXCEPT ![b] = Blank] EXCEPT ![a][e] = b]
    BY <1>1
  <2> DEFINE v == [word EXCEPT ![b] = Blank]
  <2>4. v \in [Blocks -> [Words -> Nat]] /\ v[b] = Blank /\ \A c \in Blocks : c # b => v[c] = word[c]
    BY <1>1, <2>1 DEF TypeOK
  <2> HIDE DEF v
  <2>5. word' = [v EXCEPT ![a][e] = b]
    BY <2>3 DEF v
  <2>6. /\ word' \in [Blocks -> [Words -> Nat]] /\ word'[a][e] = b
        /\ \A w \in Words : w # e => word'[a][w] = v[a][w]
        /\ \A c \in Blocks : c # a => word'[c] = v[c]
    BY <1>5, <2>2, <2>4, <2>5
  <2> QED
    BY <1>1, <1>5, <2>1, <2>4, <2>6
<1> HIDE DEF S
<1>11. \A j \in Files : \A c : Gone(j, c)' <=> Gone(j, c)
  BY <1>1, <1>9, MapFrame
<1>12. At' = [At EXCEPT ![x] = b]
  <2>1. At'[x] = b
    <3>1. PICK j \in Files, d \in 0 .. NINDIRECT - 1 : j = i /\ d = e
      BY <1>2, <1>4
    <3>2. addrs'[j][NDIRECT] = a /\ a # 0 /\ word'[a][d] = b /\ ~Gone(j, d)'
      BY <1>1, <1>6, <1>10, <1>11, <3>1 DEF a
    <3>3. EntryOf(j, d)' = b
      BY <3>2 DEF EntryOf
    <3>4. At'[EntryAt(j, d)] = b
      BY <3>3, BlocksAtNext DEF Located
    <3> QED
      BY <1>7, <3>1, <3>4
  <2>2. ASSUME NEW y \in Places, y # x PROVE At'[y] = At[y]
    <3>1. PICK j \in Files : \/ \E k \in 0 .. NDIRECT : y = <<j, k>>
                             \/ \E d \in 0 .. NINDIRECT - 1 : y = EntryAt(j, d)
      BY PlacesAre
    <3>2. CASE \E k \in 0 .. NDIRECT : y = <<j, k>>
      BY <1>1, <3>2, BlocksAt, BlocksAtNext DEF Located
    <3>3. CASE \E d \in 0 .. NINDIRECT - 1 : y = EntryAt(j, d)
      <4>1. PICK d \in 0 .. NINDIRECT - 1 : y = EntryAt(j, d)
        BY <3>3
      <4>2. CASE j = i
        <5>1. d # e /\ d \in Words
          BY <1>7, <2>2, <4>1, <4>2, Numbers
        <5>2. addrs[j][NDIRECT] = a /\ addrs'[j][NDIRECT] = a /\ word'[a][d] = word[a][d]
          BY <1>1, <1>10, <4>2, <5>1 DEF a
        <5>3. Gone(j, d)' <=> Gone(j, d)
          BY <1>11
        <5>4. EntryOf(j, d)' = EntryOf(j, d)
          BY <5>2, <5>3 DEF EntryOf
        <5> QED
          BY <4>1, <5>4, BlocksAt, BlocksAtNext DEF Located
      <4>3. CASE j # i
        <5>1. IndirectAt(j) # IndirectAt(i) /\ IndirectAt(j) \in Places /\ IndirectAt(i) \in Places
          BY <1>2, <4>3, PlacesAre, PlacesDiffer
        <5>2. addrs[j][NDIRECT] = At[IndirectAt(j)]
          BY BlocksAt DEF Located
        <5>3. addrs[j][NDIRECT] # 0 => addrs[j][NDIRECT] \in used /\ addrs[j][NDIRECT] # a
          BY <1>1, <1>5, <5>1, <5>2, Alone
        <5>4. /\ addrs'[j][NDIRECT] = addrs[j][NDIRECT]
              /\ addrs[j][NDIRECT] # 0 => word'[addrs[j][NDIRECT]] = word[addrs[j][NDIRECT]]
          BY <1>1, <1>10, <5>3
        <5>5. Gone(j, d)' <=> Gone(j, d)
          BY <1>11
        <5>6. EntryOf(j, d)' = EntryOf(j, d)
          BY <5>4, <5>5 DEF EntryOf
        <5> QED
          BY <4>1, <5>6, BlocksAt, BlocksAtNext DEF Located
      <4> QED
        BY <4>2, <4>3
    <3> QED
      BY <3>1, <3>2, <3>3
  <2> QED
    BY <1>7, <2>1, <2>2, OnePlace
<1>13. ASSUME NEW y \in S PROVE InLog(p, y)'
  <2>1. /\ InodeOf(p)' = i /\ op'[p].f = op[p].f /\ op'[p].end = op[p].end
    BY <1>1, <1>9, MapFrame
  <2>2. First(p)' = First(p) /\ Fresh(p)' = Fresh(p)
    BY <1>1, <2>1 DEF First, Fresh
  <2>3. PICK c : c = n
    OBVIOUS
  <2>4. Touched(p, c)'
    BY <1>3, <2>1, <2>3 DEF Touched
  <2>5. At'[DataAt(i, n)] = b /\ b # 0
    BY <1>7, <1>12, BlocksAt, BlockNumbers DEF Located, x
  <2>6. CASE y = Data(b) \/ y = Bitmap(b)
    BY <1>3, <1>8, <2>1, <2>2, <2>3, <2>4, <2>5, <2>6 DEF InLog, Data, Bitmap
  <2>7. CASE y = Data(a)
    <3>1. At'[IndirectAt(i)] = a /\ a # 0
      BY <1>1, <1>2, <1>5, BlocksAt, BlocksAtNext DEF Located
    <3> QED
      BY <2>1, <2>7, <3>1 DEF InLog, Data
  <2> QED
    BY <1>13, <2>6, <2>7 DEF S
<1>14. \A c \in used, w \in Words :
         \/ word'[c][w] = word[c][w]
         \/ c = At[IndirectAt(InodeOf(p))] /\ word'[c][w] = b
  BY <1>5, <1>10
<1>15. addrs' \in [Files -> [0 .. NDIRECT -> 0 .. NBLOCKS]]
  BY <1>1 DEF TypeOK
<1>16. /\ Writing(p) /\ b \in Blocks \ used /\ used' = used \cup {b}
       /\ op' = [op EXCEPT ![p].log = @ \cup S] /\ UNCHANGED <<size, open, holder>>
  BY <1>1
<1>17. x \in Places /\ At[x] = 0
  BY <1>7
<1>18. word' \in [Blocks -> [Words -> Nat]] /\ \A w \in Words : word'[b][w] = 0
  BY <1>10
<1> QED
  BY <1>9, <1>12, <1>13, <1>14, <1>15, <1>16, <1>17, <1>18, MapStep
-----------------------------------------------------------------------------
(* itrunc() *)

LEMMA TruncFrame ==
  ASSUME TypeOK, Locking, NEW p \in Writers, NEW i \in Files,
         op' \in [Writers -> Op], \A q \in Writers : q # p => op'[q] = op[q],
         op'[p].do \in {"itrunc", "idle"},
         {holder[i], holder'[i]} \subseteq {None, p},
         \A j \in Files : j # i => holder'[j] = holder[j] /\ holder[j] # p,
         \A j \in Files : size'[j] = size[j] \/ (j = i /\ holder[i] = p),
         open' = open
  PROVE  /\ OthersStay(p)
         /\ \A j \in Files : j # i => /\ Going(j)' <=> Going(j)
                                      /\ \A e : Gone(j, e)' <=> Gone(j, e)
         /\ \A j \in Files, k \in Nat : size'[j] = size[j] /\ Reached(j, k)' => Reached(j, k)
<1>1. OthersStay(p)
  <2>1. \A j \in Files : size[j] \in Nat
    BY DEF TypeOK
  <2> QED
    BY <2>1 DEF OthersStay
<1>2. ASSUME NEW j \in Files, j # i
      PROVE  (Going(j)' <=> Going(j)) /\ \A e : Gone(j, e)' <=> Gone(j, e)
  <2>1. holder'[j] = holder[j] /\ holder[j] # p
    BY <1>2
  <2>2. holder[j] \in Writers => op'[holder[j]] = op[holder[j]]
    BY <2>1
  <2>3. Going(j)' <=> Going(j)
    BY <2>1, <2>2, GoingAre, GoingAreNext DEF HolderGoes
  <2>4. \A e : Gone(j, e)' <=> Gone(j, e)
    BY <2>1, <2>2, <2>3, GoingAre, GoingAreNext DEF HolderGoes
  <2> QED
    BY <2>3, <2>4
<1>3. ASSUME NEW j \in Files, NEW k \in Nat, size'[j] = size[j], Reached(j, k)'
      PROVE  Reached(j, k)
  <2>1. k < size'[j] \/ Reached(j, k)
    BY <1>1, <1>3, ReachedBy
  <2> QED
    BY <1>3, <2>1 DEF Reached
<1> QED
  BY <1>1, <1>2, <1>3

LEMMA TruncateStep ==
  ASSUME Inductive, NEW p \in Writers, NEW i \in Files, Truncate(p, i)
  PROVE  Inductive'
<1> DEFINE o == [NoOp EXCEPT !.do = "itrunc"]
<1>1. /\ TypeOK /\ Locking /\ Disk /\ Logging /\ op[p].do = "idle" /\ holder[i] = None
      /\ \A f \in Opens : open[f].ip # i
      /\ holder' = [holder EXCEPT ![i] = p] /\ op' = [op EXCEPT ![p].do = "itrunc"]
      /\ UNCHANGED <<used, word, addrs, size, open>>
  BY DEF Inductive, Truncate, Idle
<1>2. op' = [op EXCEPT ![p] = o]
  BY <1>1 DEF Locking, Works, TypeOK
<1>3. o \in Op /\ o.do = "itrunc" /\ o.at = 0 /\ o.log = {}
  BY DEF NoOp, Op
<1> HIDE DEF o
<1>4. op' \in [Writers -> Op] /\ op'[p] = o /\ \A q \in Writers : q # p => op'[q] = op[q]
  BY <1>1, <1>2, <1>3, WorkType
<1>5. \A j \in Files : holder[j] # p
  BY <1>1, NoLock
<1>6. /\ holder' \in [Files -> Writers \cup {None}] /\ holder'[i] = p
      /\ \A j \in Files : j # i => holder'[j] = holder[j]
  BY <1>1 DEF TypeOK
<1>7. /\ OthersStay(p)
      /\ \A j \in Files : j # i => /\ Going(j)' <=> Going(j)
                                   /\ \A e : Gone(j, e)' <=> Gone(j, e)
      /\ \A j \in Files, k \in Nat : Reached(j, k)' => Reached(j, k)
  BY <1>1, <1>3, <1>4, <1>5, <1>6, TruncFrame
<1>8. TypeOK'
  BY <1>1, <1>4, <1>6 DEF TypeOK
<1>9. Going(i)' /\ ~Going(i) /\ \A e \in Nat : ~Gone(i, e)' /\ ~Gone(i, e)
  <2>1. ~Going(i) /\ \A e : ~Gone(i, e)
    BY <1>1, Constants, GoingAre DEF HolderGoes
  <2>2. holder'[i] = p /\ op'[p].do = "itrunc" /\ op'[p].at = 0
    BY <1>3, <1>4, <1>6
  <2>3. Going(i)' /\ \A e : Gone(i, e)' => e < 0
    BY <2>2, GoingAreNext DEF HolderGoes
  <2> QED
    BY <2>1, <2>3
<1>10. At' = At
  <2>1. ASSUME NEW j \in Files, NEW e \in 0 .. NINDIRECT - 1 PROVE EntryOf(j, e)' = EntryOf(j, e)
    <3>1. Gone(j, e)' <=> Gone(j, e)
      BY <1>7, <1>9
    <3> QED
      BY <1>1, <3>1 DEF EntryOf
  <2> QED
    BY <1>1, <2>1, SamePlaces
<1>11. Disk'
  BY <1>1, <1>7, <1>9, <1>10, Numbers, DiskSame
<1>12. Works(p)'
  BY <1>3, <1>4 DEF Works
<1>13. \A f \in Opens : Opened(f)'
  BY <1>1, <1>7 DEF Locking, Opened, TypeOK
<1>14. \A j \in Files : holder'[j] = p => Holds(j)'
  BY <1>3, <1>4, <1>5, <1>6 DEF Holds
<1> QED
  BY <1>1, <1>3, <1>4, <1>7, <1>8, <1>10, <1>11, <1>12, <1>13, <1>14, Assembled

(* What p frees is of the file whose lock it has. *)
LEMMA FreeFrame ==
  ASSUME Inductive, NEW p \in Writers, NEW i \in Files, Truncating(p, i),
         op' \in [Writers -> Op], \A q \in Writers : q # p => op'[q] = op[q],
         op'[p].do = "itrunc", UNCHANGED <<size, open, holder>>
  PROVE  /\ OthersStay(p) /\ Going(i) /\ Going(i)'
         /\ \A j \in Files : /\ Going(j)' <=> Going(j)
                             /\ j # i => \A e : Gone(j, e)' <=> Gone(j, e)
                             /\ \A k \in Nat : Reached(j, k)' => Reached(j, k)
         /\ \A e : /\ Gone(i, e) <=> e < op[p].at
                   /\ Gone(i, e)' <=> e < op'[p].at
<1>1. TypeOK /\ Locking /\ op[p].do = "itrunc" /\ holder[i] = p
  BY DEF Inductive, Truncating
<1>2. \A j \in Files : j # i => holder[j] # p
  BY <1>1, Constants DEF Locking, Holds
<1>3. /\ OthersStay(p)
      /\ \A j \in Files : j # i => /\ Going(j)' <=> Going(j)
                                   /\ \A e : Gone(j, e)' <=> Gone(j, e)
      /\ \A j \in Files, k \in Nat : Reached(j, k)' => Reached(j, k)
  BY <1>1, <1>2, TruncFrame
<1>4. /\ Going(i) /\ Going(i)'
      /\ \A e : /\ Gone(i, e) <=> e < op[p].at
                /\ Gone(i, e)' <=> e < op'[p].at
  BY <1>1, GoingAre, GoingAreNext DEF HolderGoes
<1> QED
  BY <1>3, <1>4

LEMMA FreeStep ==
  ASSUME Inductive, NEW p \in Writers, NEW i \in Files, Truncating(p, i),
         op' \in [Writers -> Op], \A q \in Writers : q # p => op'[q] = op[q],
         op'[p].do = "itrunc", op'[p].log = op[p].log, UNCHANGED <<size, open, holder>>,
         addrs' \in [Files -> [0 .. NDIRECT -> 0 .. NBLOCKS]],
         \/ UNCHANGED <<used, word>> /\ At' = At
         \/ \E x \in Places :
              /\ At[x] # 0 /\ x[1] = i
              /\ \/ x = IndirectAt(i) \/ \E k \in 0 .. NDIRECT : x = <<i, k>>
                 \/ \E e \in 0 .. NINDIRECT - 1 : x = EntryAt(i, e)
              /\ Bfree(At[x]) /\ At' = [At EXCEPT ![x] = 0]
  PROVE  Inductive'
<1>1. /\ TypeOK /\ Locking /\ Disk /\ Logging /\ op[p].do = "itrunc" /\ holder[i] = p
      /\ used \in SUBSET Blocks /\ word \in [Blocks -> [Words -> Nat]]
  BY DEF Inductive, Truncating, TypeOK
<1>2. /\ OthersStay(p) /\ Going(i)'
      /\ \A j \in Files : /\ Going(j)' <=> Going(j)
                          /\ \A k \in Nat : Reached(j, k)' => Reached(j, k)
  BY FreeFrame
<1>3. /\ used' \in SUBSET Blocks /\ word' \in [Blocks -> [Words -> Nat]] /\ Disk'
      /\ \A y \in Places : At[y] # 0 => At'[y] = At[y] \/ y[1] = i
  <2>1. CASE UNCHANGED <<used, word>> /\ At' = At
    BY <1>1, <1>2, <2>1, Numbers, DiskSame
  <2>2. CASE \E x \in Places :
               /\ At[x] # 0 /\ x[1] = i
               /\ \/ x = IndirectAt(i) \/ \E k \in 0 .. NDIRECT : x = <<i, k>>
                  \/ \E e \in 0 .. NINDIRECT - 1 : x = EntryAt(i, e)
               /\ Bfree(At[x]) /\ At' = [At EXCEPT ![x] = 0]
    <3>1. PICK x \in Places :
               /\ At[x] # 0 /\ x[1] = i
               /\ \/ x = IndirectAt(i) \/ \E k \in 0 .. NDIRECT : x = <<i, k>>
                  \/ \E e \in 0 .. NINDIRECT - 1 : x = EntryAt(i, e)
               /\ Bfree(At[x]) /\ At' = [At EXCEPT ![x] = 0]
      BY <2>2
    <3>2. PICK b \in Blocks : b = At[x]
      BY <1>1, <3>1 DEF Bfree
    <3>3. used' = used \ {b} /\ word' = [word EXCEPT ![b] = Old]
      BY <3>1, <3>2 DEF Bfree
    <3>4. Old \in [Words -> Nat]
      BY Constants DEF Old
    <3>5. word' \in [Blocks -> [Words -> Nat]] /\ \A c \in used : c # b => word'[c] = word[c]
      BY <1>1, <3>3, <3>4
    <3>6. \A y \in Places : At[y] # 0 => At'[y] = At[y] \/ y[1] = i
      BY <3>1, BlocksAt DEF Located
    <3>7. Disk'
      <4>1. \A j \in Files : /\ Going(j) => Going(j)'
                             /\ \A k \in 0 .. MAXFILE * BSIZE - 1 : Reached(j, k)' => Reached(j, k)
        BY <1>2, Numbers
      <4>2. used' = used \ {At[x]} /\ \A c \in used : c # At[x] => word'[c] = word[c]
        BY <3>2, <3>3, <3>5
      <4>3. /\ At[x] # 0 /\ At' = [At EXCEPT ![x] = 0]
            /\ \/ x = IndirectAt(i) \/ \E k \in 0 .. NDIRECT : x = <<i, k>>
               \/ \E e \in 0 .. NINDIRECT - 1 : x = EntryAt(i, e)
        BY <3>1
      <4> QED
        BY <1>1, <1>2, <4>1, <4>2, <4>3, DiskGiven
    <3> QED
      BY <1>1, <3>3, <3>5, <3>6, <3>7
  <2> QED
    BY <2>1, <2>2
<1>4. TypeOK'
  BY <1>1, <1>3 DEF TypeOK
<1>5. Works(p)'
  BY <1>1 DEF Works, Locking
<1>6. \A f \in Opens : Opened(f)'
  BY <1>1, <1>2 DEF Locking, Opened, TypeOK
<1>7. \A j \in Files : holder'[j] = p => Holds(j)'
  BY <1>1, Constants DEF Locking, Holds
<1> QED
  BY <1>1, <1>2, <1>3, <1>4, <1>5, <1>6, <1>7, Assembled

LEMMA FreeDirectStep ==
  ASSUME Inductive, NEW p \in Writers, NEW i \in Files, FreeDirect(p, i)
  PROVE  Inductive'
<1>1. PICK k : k = Min(Direct(i))
  OBVIOUS
<1>2. /\ TypeOK /\ Locking /\ Disk /\ Truncating(p, i) /\ Direct(i) # {} /\ Bfree(addrs[i][k])
      /\ addrs' = [addrs EXCEPT ![i][k] = 0] /\ UNCHANGED <<size, open, holder, op>>
  BY <1>1 DEF Inductive, FreeDirect
<1>3. k \in 0 .. NDIRECT /\ k # NDIRECT /\ addrs[i][k] # 0 /\ NDIRECT \in 0 .. NDIRECT
  <2>1. NDIRECT \in Nat
    BY Constants
  <2>2. Direct(i) \in SUBSET Nat
    BY <2>1 DEF Direct
  <2>3. k \in Direct(i)
    BY <1>1, <1>2, <2>2, LeastIn
  <2> QED
    BY <2>1, <2>3 DEF Direct
<1> DEFINE x == <<i, k>>
<1>4. x \in Places /\ x[1] = i /\ At[x] = addrs[i][k]
  BY <1>3, PlacesAre, BlocksAt DEF Located
<1>5. /\ addrs' \in [Files -> [0 .. NDIRECT -> 0 .. NBLOCKS]] /\ addrs'[i][k] = 0
      /\ \A j \in Files, m \in 0 .. NDIRECT : <<j, m>> # x => addrs'[j][m] = addrs[j][m]
  BY <1>2, <1>3, Constants DEF TypeOK
<1>6. op' \in [Writers -> Op] /\ op' = op /\ op[p].do = "itrunc"
  BY <1>2 DEF TypeOK, Truncating
<1>7. \A j \in Files : \A e : Gone(j, e)' <=> Gone(j, e)
  BY <1>2, <1>6, FreeFrame
<1>8. \A c \in used : c # addrs[i][k] => word'[c] = word[c]
  BY <1>2 DEF Bfree, TypeOK
<1>9. At' = [At EXCEPT ![x] = 0]
  <2>1. At'[x] = 0
    BY <1>3, <1>5, BlocksAtNext DEF Located
  <2>2. ASSUME NEW y \in Places, y # x PROVE At'[y] = At[y]
    <3>1. PICK j \in Files : \/ \E m \in 0 .. NDIRECT : y = <<j, m>>
                             \/ \E e \in 0 .. NINDIRECT - 1 : y = EntryAt(j, e)
      BY PlacesAre
    <3>2. CASE \E m \in 0 .. NDIRECT : y = <<j, m>>
      BY <1>5, <2>2, <3>2, BlocksAt, BlocksAtNext DEF Located
    <3>3. CASE \E e \in 0 .. NINDIRECT - 1 : y = EntryAt(j, e)
      <4>1. PICK e \in 0 .. NINDIRECT - 1 : y = EntryAt(j, e)
        BY <3>3
      <4>2. addrs'[j][NDIRECT] = addrs[j][NDIRECT]
        BY <1>3, <1>5
      <4>3. IndirectAt(j) \in Places /\ IndirectAt(j) # x /\ At[IndirectAt(j)] = addrs[j][NDIRECT]
        BY <1>3, PlacesAre, BlocksAt DEF IndirectAt, Located
      <4>4. addrs[j][NDIRECT] # 0 => addrs[j][NDIRECT] \in used /\ addrs[j][NDIRECT] # addrs[i][k]
        BY <1>2, <1>4, <4>3, Alone
      <4>5. addrs[j][NDIRECT] # 0 => word'[addrs[j][NDIRECT]] = word[addrs[j][NDIRECT]]
        BY <1>8, <4>4
      <4>6. EntryOf(j, e)' = EntryOf(j, e)
        BY <1>7, <4>2, <4>5 DEF EntryOf
      <4> QED
        BY <4>1, <4>6, BlocksAt, BlocksAtNext DEF Located
    <3> QED
      BY <3>1, <3>2, <3>3
  <2> QED
    BY <1>4, <2>1, <2>2, OnePlace
<1>10. \E y \in Places :
         /\ At[y] # 0 /\ y[1] = i
         /\ \/ y = IndirectAt(i) \/ \E m \in 0 .. NDIRECT : y = <<i, m>>
            \/ \E e \in 0 .. NINDIRECT - 1 : y = EntryAt(i, e)
         /\ Bfree(At[y]) /\ At' = [At EXCEPT ![y] = 0]
  BY <1>2, <1>3, <1>4, <1>9
<1> QED
  BY <1>2, <1>5, <1>6, <1>10, FreeStep

LEMMA FreeEntryStep ==
  ASSUME Inductive, NEW p \in Writers, NEW i \in Files, FreeEntry(p, i)
  PROVE  Inductive'
<1>1. PICK a, d, b : a = addrs[i][NDIRECT] /\ d = op[p].at /\ b = word[a][d]
  OBVIOUS
<1>2. /\ TypeOK /\ Locking /\ Disk /\ Truncating(p, i) /\ a # 0 /\ d < NINDIRECT
      /\ IF b # 0 THEN Bfree(b) ELSE UNCHANGED <<used, word>>
      /\ op' = [op EXCEPT ![p].at = @ + 1] /\ UNCHANGED <<addrs, size, open, holder>>
  BY <1>1 DEF Inductive, FreeEntry
<1>3. op[p] \in Op /\ op[p].do = "itrunc" /\ d \in Nat /\ d \in 0 .. NINDIRECT - 1
  <2>1. op[p] \in Op /\ op[p].do = "itrunc"
    BY <1>2 DEF TypeOK, Truncating
  <2>2. d \in Nat
    BY <1>1, <2>1 DEF Op
  <2> QED
    BY <1>2, <2>1, <2>2, Constants
<1> DEFINE o == [op[p] EXCEPT !.at = d + 1]
<1>4. op' = [op EXCEPT ![p] = o] /\ o \in Op /\ o.do = "itrunc" /\ o.at = d + 1 /\ o.log = op[p].log
  <2>1. op' = [op EXCEPT ![p] = o]
    BY <1>1, <1>2 DEF TypeOK
  <2>2. d + 1 \in Nat
    BY <1>3
  <2> QED
    BY <1>3, <2>1, <2>2 DEF Op
<1> HIDE DEF o
<1>5. op' \in [Writers -> Op] /\ op'[p] = o /\ \A q \in Writers : q # p => op'[q] = op[q]
  BY <1>2, <1>4, WorkType
<1>6. /\ \A j \in Files : j # i => \A e : Gone(j, e)' <=> Gone(j, e)
      /\ \A e : /\ Gone(i, e) <=> e < d
                /\ Gone(i, e)' <=> e < d + 1
  <2>1. op'[p].do = "itrunc" /\ op'[p].at = d + 1 /\ UNCHANGED <<size, open, holder>>
    BY <1>2, <1>4, <1>5
  <2>2. /\ \A j \in Files : j # i => \A e : Gone(j, e)' <=> Gone(j, e)
        /\ \A e : /\ Gone(i, e) <=> e < op[p].at
                  /\ Gone(i, e)' <=> e < op'[p].at
    BY <1>2, <1>5, <2>1, FreeFrame
  <2> QED
    BY <1>1, <2>1, <2>2
<1> DEFINE x == EntryAt(i, d)
<1>7. x \in Places /\ x[1] = i /\ At[x] = b
  <2>1. x \in Places /\ x[1] = i /\ At[x] = EntryOf(i, d)
    BY <1>3, PlacesAre, BlocksAt DEF EntryAt, Located
  <2>2. ~Gone(i, d)
    BY <1>3, <1>6
  <2> QED
    BY <1>1, <1>2, <2>1, <2>2 DEF EntryOf
<1>8. \A c \in used : c # b => word'[c] = word[c]
  BY <1>2 DEF Bfree, TypeOK
<1>9. ASSUME NEW j \in Files
      PROVE  LET c == addrs[j][NDIRECT] IN c # 0 => word'[c] = word[c]
  <2>1. IndirectAt(j) \in Places /\ IndirectAt(j) # x /\ At[IndirectAt(j)] = addrs[j][NDIRECT]
    BY <1>3, PlacesAre, PlacesDiffer, BlocksAt, Constants DEF IndirectAt, Located
  <2>2. addrs[j][NDIRECT] # 0 => addrs[j][NDIRECT] \in used /\ addrs[j][NDIRECT] # b
    BY <1>2, <1>7, <2>1, Alone
  <2> QED
    BY <1>8, <2>2
<1>10. At'[x] = 0
  <2>1. Gone(i, d)'
    BY <1>3, <1>6
  <2>2. EntryOf(i, d)' = 0
    BY <2>1 DEF EntryOf
  <2> QED
    BY <1>3, <2>2, BlocksAtNext DEF Located
<1>11. ASSUME NEW y \in Places, y # x PROVE At'[y] = At[y]
  <2>1. PICK j \in Files : \/ \E m \in 0 .. NDIRECT : y = <<j, m>>
                           \/ \E e \in 0 .. NINDIRECT - 1 : y = EntryAt(j, e)
    BY PlacesAre
  <2>2. CASE \E m \in 0 .. NDIRECT : y = <<j, m>>
    BY <1>2, <2>2, BlocksAt, BlocksAtNext DEF Located
  <2>3. CASE \E e \in 0 .. NINDIRECT - 1 : y = EntryAt(j, e)
    <3>1. PICK e \in 0 .. NINDIRECT - 1 : y = EntryAt(j, e)
      BY <2>3
    <3>2. Gone(j, e)' <=> Gone(j, e)
      <4>1. CASE j = i
        <5>1. e # d /\ e \in Nat
          BY <1>11, <3>1, <4>1, Constants
        <5> QED
          BY <1>3, <1>6, <4>1, <5>1
      <4>2. CASE j # i
        BY <1>6, <4>2
      <4> QED
        BY <4>1, <4>2
    <3>3. EntryOf(j, e)' = EntryOf(j, e)
      BY <1>2, <1>9, <3>2 DEF EntryOf
    <3> QED
      BY <3>1, <3>3, BlocksAt, BlocksAtNext DEF Located
  <2> QED
    BY <2>1, <2>2, <2>3
<1>12. At' = [At EXCEPT ![x] = 0]
  BY <1>7, <1>10, <1>11, OnePlace
<1>13. \/ UNCHANGED <<used, word>> /\ At' = At
       \/ \E y \in Places :
            /\ At[y] # 0 /\ y[1] = i
            /\ \/ y = IndirectAt(i) \/ \E m \in 0 .. NDIRECT : y = <<i, m>>
               \/ \E e \in 0 .. NINDIRECT - 1 : y = EntryAt(i, e)
            /\ Bfree(At[y]) /\ At' = [At EXCEPT ![y] = 0]
  <2>1. CASE b = 0
    <3>1. [At EXCEPT ![x] = 0] = At
      <4>1. At = [y \in Places |-> At[y]]
        BY DEF At
      <4> QED
        BY <1>7, <2>1, <4>1
    <3> QED
      BY <1>2, <1>12, <2>1, <3>1
  <2>2. CASE b # 0
    BY <1>2, <1>3, <1>7, <1>12, <2>2
  <2> QED
    BY <2>1, <2>2
<1>14. addrs' \in [Files -> [0 .. NDIRECT -> 0 .. NBLOCKS]]
  BY <1>2 DEF TypeOK
<1> QED
  BY <1>2, <1>4, <1>5, <1>13, <1>14, FreeStep

LEMMA FreeIndirectStep ==
  ASSUME Inductive, NEW p \in Writers, NEW i \in Files, FreeIndirect(p, i)
  PROVE  Inductive'
<1> DEFINE x == IndirectAt(i)
<1>1. PICK a : a = addrs[i][NDIRECT]
  OBVIOUS
<1>2. /\ TypeOK /\ Locking /\ Disk /\ Truncating(p, i) /\ a # 0 /\ op[p].at = NINDIRECT /\ Bfree(a)
      /\ addrs' = [addrs EXCEPT ![i][NDIRECT] = 0] /\ UNCHANGED <<size, open, holder, op>>
  BY <1>1 DEF Inductive, FreeIndirect
<1>3. NDIRECT \in 0 .. NDIRECT
  BY Constants
<1>4. x = <<i, NDIRECT>> /\ x \in Places /\ x[1] = i /\ At[x] = a
  BY <1>1, <1>3, PlacesAre, BlocksAt DEF IndirectAt, Located
<1>5. /\ addrs' \in [Files -> [0 .. NDIRECT -> 0 .. NBLOCKS]] /\ addrs'[i][NDIRECT] = 0
      /\ \A j \in Files, m \in 0 .. NDIRECT : <<j, m>> # x => addrs'[j][m] = addrs[j][m]
  BY <1>2, <1>3, <1>4, Constants DEF TypeOK
<1>6. op' \in [Writers -> Op] /\ op' = op /\ op[p].do = "itrunc"
  BY <1>2 DEF TypeOK, Truncating
<1>7. /\ \A j \in Files : j # i => \A e : Gone(j, e)' <=> Gone(j, e)
      /\ \A e \in 0 .. NINDIRECT - 1 : Gone(i, e)
  <2>1. /\ \A j \in Files : j # i => \A e : Gone(j, e)' <=> Gone(j, e)
        /\ \A e : Gone(i, e) <=> e < op[p].at
    BY <1>2, <1>6, FreeFrame
  <2>2. \A e \in 0 .. NINDIRECT - 1 : e < NINDIRECT
    BY Constants
  <2> QED
    BY <1>2, <2>1, <2>2
<1>8. \A c \in used : c # a => word'[c] = word[c]
  BY <1>2 DEF Bfree, TypeOK
<1>9. At' = [At EXCEPT ![x] = 0]
  <2>1. At'[x] = 0
    BY <1>5, BlocksAtNext DEF Located
  <2>2. ASSUME NEW y \in Places, y # x PROVE At'[y] = At[y]
    <3>1. PICK j \in Files : \/ \E m \in 0 .. NDIRECT : y = <<j, m>>
                             \/ \E e \in 0 .. NINDIRECT - 1 : y = EntryAt(j, e)
      BY PlacesAre
    <3>2. CASE \E m \in 0 .. NDIRECT : y = <<j, m>>
      BY <1>5, <2>2, <3>2, BlocksAt, BlocksAtNext DEF Located
    <3>3. CASE \E e \in 0 .. NINDIRECT - 1 : y = EntryAt(j, e)
      <4>1. PICK e \in 0 .. NINDIRECT - 1 : y = EntryAt(j, e)
        BY <3>3
      <4>2. CASE j = i
        <5>1. EntryOf(j, e) = 0
          BY <1>7, <4>2 DEF EntryOf
        <5>2. addrs'[j][NDIRECT] = 0
          BY <1>5, <4>2
        <5>3. EntryOf(j, e)' = 0
          BY <5>2 DEF EntryOf
        <5> QED
          BY <4>1, <5>1, <5>3, BlocksAt, BlocksAtNext DEF Located
      <4>3. CASE j # i
        <5>1. addrs'[j][NDIRECT] = addrs[j][NDIRECT]
          BY <1>3, <1>4, <1>5, <4>3
        <5>2. IndirectAt(j) \in Places /\ IndirectAt(j) # x /\ At[IndirectAt(j)] = addrs[j][NDIRECT]
          BY <4>3, PlacesAre, PlacesDiffer, BlocksAt DEF Located
        <5>3. addrs[j][NDIRECT] # 0 => addrs[j][NDIRECT] \in used /\ addrs[j][NDIRECT] # a
          BY <1>2, <1>4, <5>2, Alone
        <5>4. addrs[j][NDIRECT] # 0 => word'[addrs[j][NDIRECT]] = word[addrs[j][NDIRECT]]
          BY <1>8, <5>3
        <5>5. Gone(j, e)' <=> Gone(j, e)
          BY <1>7, <4>3
        <5>6. EntryOf(j, e)' = EntryOf(j, e)
          BY <5>1, <5>4, <5>5 DEF EntryOf
        <5> QED
          BY <4>1, <5>6, BlocksAt, BlocksAtNext DEF Located
      <4> QED
        BY <4>2, <4>3
    <3> QED
      BY <3>1, <3>2, <3>3
  <2> QED
    BY <1>4, <2>1, <2>2, OnePlace
<1>10. \E y \in Places :
         /\ At[y] # 0 /\ y[1] = i
         /\ \/ y = IndirectAt(i) \/ \E m \in 0 .. NDIRECT : y = <<i, m>>
            \/ \E e \in 0 .. NINDIRECT - 1 : y = EntryAt(i, e)
         /\ Bfree(At[y]) /\ At' = [At EXCEPT ![y] = 0]
  BY <1>2, <1>4, <1>9
<1> QED
  BY <1>2, <1>5, <1>6, <1>10, FreeStep

LEMMA TruncatedStep ==
  ASSUME Inductive, NEW p \in Writers, NEW i \in Files, Truncated(p, i)
  PROVE  Inductive'
<1>1. /\ TypeOK /\ Locking /\ Disk /\ Logging /\ op[p].do = "itrunc" /\ holder[i] = p
      /\ addrs[i] = NoAddrs /\ size' = [size EXCEPT ![i] = 0]
      /\ holder' = [holder EXCEPT ![i] = None] /\ op' = [op EXCEPT ![p] = NoOp]
      /\ UNCHANGED <<used, word, addrs, open>>
  BY DEF Inductive, Truncated, Truncating
<1>2. NoOp \in Op /\ NoOp.do = "idle" /\ NoOp.log = {}
  BY DEF NoOp, Op
<1>3. op' \in [Writers -> Op] /\ op'[p] = NoOp /\ \A q \in Writers : q # p => op'[q] = op[q]
  BY <1>1, <1>2, WorkType
<1>4. \A j \in Files : j # i => holder[j] # p
  BY <1>1, Constants DEF Locking, Holds
<1>5. /\ holder' \in [Files -> Writers \cup {None}] /\ holder'[i] = None
      /\ \A j \in Files : j # i => holder'[j] = holder[j]
      /\ size' \in [Files -> Nat] /\ size'[i] = 0 /\ \A j \in Files : j # i => size'[j] = size[j]
  BY <1>1 DEF TypeOK
<1>6. /\ OthersStay(p)
      /\ \A j \in Files : j # i => /\ Going(j)' <=> Going(j)
                                   /\ \A e : Gone(j, e)' <=> Gone(j, e)
      /\ \A j \in Files, k \in Nat : size'[j] = size[j] /\ Reached(j, k)' => Reached(j, k)
  BY <1>1, <1>2, <1>3, <1>4, <1>5, TruncFrame
<1>7. TypeOK'
  BY <1>1, <1>3, <1>5 DEF TypeOK
<1>8. Going(i) /\ ~Going(i)'
  BY <1>1, <1>5, Constants, GoingAre, GoingAreNext DEF HolderGoes
<1>9. At' = At
  <2>1. ASSUME NEW j \in Files, NEW e \in 0 .. NINDIRECT - 1 PROVE EntryOf(j, e)' = EntryOf(j, e)
    <3>1. CASE j = i
      <4>1. addrs[j][NDIRECT] = 0 /\ addrs'[j][NDIRECT] = 0
        BY <1>1, <3>1, Constants DEF NoAddrs
      <4> QED
        BY <4>1 DEF EntryOf
    <3>2. CASE j # i
      BY <1>1, <1>6, <3>2 DEF EntryOf
    <3> QED
      BY <3>1, <3>2
  <2> QED
    BY <1>1, <2>1, SamePlaces
<1>10. \A k \in Nat : ~Reached(i, k)'
  <2> SUFFICES ASSUME NEW k \in Nat, Reached(i, k)' PROVE FALSE
    OBVIOUS
  <2>1. PICK q \in Writers : op'[q].do = "writei" /\ InodeOf(q)' = i
    BY <1>5 DEF Reached
  <2>2. q # p /\ op'[q] = op[q]
    BY <1>2, <1>3, <2>1
  <2>3. InodeOf(q) = i
    BY <1>1, <2>1, <2>2 DEF InodeOf
  <2> QED
    BY <1>1, <2>1, <2>2, <2>3 DEF Locking, Works
<1>11. Disk'
  <2>1. ASSUME NEW j \in Files, ~Going(j)', NEW k \in 0 .. MAXFILE * BSIZE - 1, Reached(j, k)'
        PROVE  ~Going(j) /\ Reached(j, k)
    <3>1. j # i
      BY <1>10, <2>1, Numbers
    <3> QED
      BY <1>5, <1>6, <2>1, <3>1, Numbers
  <2> QED
    BY <1>1, <1>9, <2>1, DiskSame
<1>12. Works(p)'
  BY <1>2, <1>3 DEF Works
<1>13. \A f \in Opens : Opened(f)'
  BY <1>1, <1>5, <1>6, <1>8 DEF Locking, Opened, TypeOK
<1>14. \A j \in Files : holder'[j] # p
  BY <1>4, <1>5, Constants
<1> QED
  BY <1>1, <1>2, <1>3, <1>6, <1>7, <1>9, <1>11, <1>12, <1>13, <1>14, Assembled
-----------------------------------------------------------------------------
(* The file table *)

(* What happens to entries of the file table that no writei() is at work   *)
(* on.                                                                     *)
LEMMA TableStep ==
  ASSUME Inductive, UNCHANGED <<used, word, addrs, size, holder, op>>,
         open' \in [Opens -> [ip : Files \cup {None}, off : Nat]],
         \A f \in Opens : Opened(f)',
         \A q \in Writers : op[q].do \in {"write", "writei", "written"} =>
           /\ open'[op[q].f].ip = open[op[q].f].ip
           /\ op[q].do # "write" => open'[op[q].f] = open[op[q].f]
  PROVE  Inductive'
<1>1. TypeOK /\ Locking /\ Disk /\ Logging
  BY DEF Inductive
<1>2. TypeOK'
  BY <1>1 DEF TypeOK
<1>3. ASSUME NEW q \in Writers, op[q].do \in {"write", "writei", "written"}
      PROVE  InodeOf(q)' = InodeOf(q)
  BY <1>3 DEF InodeOf
<1>4. \A q \in Writers : Works(q)'
  <2> SUFFICES ASSUME NEW q \in Writers PROVE Works(q)'
    OBVIOUS
  <2>1. Works(q) /\ Chunk(q)' = Chunk(q)
    BY <1>1 DEF Locking, Chunk, MaxChunk
  <2> QED
    BY <1>3, <2>1 DEF Works, NoOp
<1>5. \A j \in Files : Holds(j)'
  <2> SUFFICES ASSUME NEW j \in Files, holder[j] # None PROVE Holds(j)'
    BY DEF Holds
  <2>1. Holds(j) /\ holder[j] \in Writers
    BY <1>1 DEF Locking, TypeOK
  <2>2. op[holder[j]].do \in {"writei", "written"} => InodeOf(holder[j])' = InodeOf(holder[j])
    BY <1>3, <2>1 DEF InodeOf
  <2> QED
    BY <2>1, <2>2 DEF Holds, InodeOf
<1>6. \A j \in Files : (Going(j)' <=> Going(j)) /\ \A e : Gone(j, e)' <=> Gone(j, e)
  BY GoingAre, GoingAreNext DEF HolderGoes
<1>7. At' = At
  <2>1. \A j \in Files : \A e \in 0 .. NINDIRECT - 1 : EntryOf(j, e)' = EntryOf(j, e)
    BY <1>6 DEF EntryOf
  <2> QED
    BY <2>1, SamePlaces
<1>8. Disk'
  <2>1. ASSUME NEW j \in Files, NEW k \in 0 .. MAXFILE * BSIZE - 1, Reached(j, k)' PROVE Reached(j, k)
    BY <1>3, <2>1 DEF Reached
  <2> QED
    BY <1>1, <1>6, <1>7, <2>1, DiskSame
<1>9. Logging'
  <2> SUFFICES ASSUME NEW q \in Writers, op[q].do \in {"writei", "written"}, NEW x \in op[q].log
               PROVE  InLog(q, x)'
    BY DEF Logging
  <2>1. InLog(q, x) /\ InodeOf(q) \in Files /\ open'[op[q].f] = open[op[q].f]
    BY <1>1 DEF Logging, Locking, Works
  <2> QED
    BY <1>7, <2>1, InLogStays
<1> QED
  BY <1>2, <1>4, <1>5, <1>8, <1>9 DEF Inductive, Locking

LEMMA OpenStep ==
  ASSUME Inductive, NEW f \in Opens, NEW i \in Files, Open(f, i)
  PROVE  Inductive'
<1>1. /\ TypeOK /\ Locking /\ open[f] = NotOpen /\ holder[i] = None
      /\ open' = [open EXCEPT ![f].ip = i] /\ UNCHANGED <<used, word, addrs, size, holder, op>>
  BY DEF Inductive, Open
<1>2. /\ open' \in [Opens -> [ip : Files \cup {None}, off : Nat]]
      /\ open'[f].ip = i /\ open'[f].off = 0 /\ \A g \in Opens : g # f => open'[g] = open[g]
  BY <1>1 DEF TypeOK, NotOpen
<1>3. \A j \in Files : Going(j)' <=> Going(j)
  BY <1>1, GoingAre, GoingAreNext DEF HolderGoes
<1>4. \A g \in Opens : Opened(g)'
  <2>1. Opened(f)'
    <3>1. ~Going(i) /\ size[i] \in Nat
      BY <1>1, GoingAre, Constants DEF HolderGoes, TypeOK
    <3> QED
      BY <1>1, <1>2, <1>3, <3>1 DEF Opened
  <2>2. \A g \in Opens : g # f => Opened(g)'
    BY <1>1, <1>2, <1>3 DEF Locking, Opened, TypeOK
  <2> QED
    BY <2>1, <2>2
<1>5. ASSUME NEW q \in Writers, op[q].do \in {"write", "writei", "written"}
      PROVE  open'[op[q].f] = open[op[q].f]
  <2>1. op[q].f \in Opens /\ open[op[q].f].ip \in Files
    BY <1>1, <1>5 DEF Locking, Works, InodeOf
  <2>2. op[q].f # f
    BY <1>1, <2>1, Constants DEF NotOpen
  <2> QED
    BY <1>2, <2>1, <2>2
<1> QED
  BY <1>1, <1>2, <1>4, <1>5, TableStep

LEMMA CloseStep ==
  ASSUME Inductive, NEW f \in Opens, Close(f)
  PROVE  Inductive'
<1>1. /\ TypeOK /\ Locking /\ \A q \in Writers : op[q].f # f
      /\ open' = [open EXCEPT ![f] = NotOpen] /\ UNCHANGED <<used, word, addrs, size, holder, op>>
  BY DEF Inductive, Close, InUse
<1>2. /\ open' \in [Opens -> [ip : Files \cup {None}, off : Nat]]
      /\ open'[f].ip = None /\ \A g \in Opens : g # f => open'[g] = open[g]
  BY <1>1 DEF TypeOK, NotOpen
<1>3. \A j \in Files : Going(j)' <=> Going(j)
  BY <1>1, GoingAre, GoingAreNext DEF HolderGoes
<1>4. \A g \in Opens : Opened(g)'
  BY <1>1, <1>2, <1>3 DEF Locking, Opened, TypeOK
<1>5. ASSUME NEW q \in Writers, op[q].do \in {"write", "writei", "written"}
      PROVE  open'[op[q].f] = open[op[q].f]
  BY <1>1, <1>2, <1>5 DEF Locking, Works
<1> QED
  BY <1>1, <1>2, <1>4, <1>5, TableStep

LEMMA ReadStep ==
  ASSUME Inductive, NEW f \in Opens, NEW n \in Nat, Read(f, n)
  PROVE  Inductive'
<1> DEFINE i == open[f].ip
           off == Min({open[f].off + n, size[i]})
<1>1. /\ TypeOK /\ Locking /\ i # None /\ holder[i] = None
      /\ open' = [open EXCEPT ![f].off = off] /\ UNCHANGED <<used, word, addrs, size, holder, op>>
  BY DEF Inductive, Read, TypeOK
<1>2. i \in Files /\ size[i] \in Nat /\ off \in Nat /\ off <= size[i]
  <2>1. i \in Files /\ open[f].off \in Nat
    BY <1>1 DEF TypeOK
  <2>2. PICK a \in Nat, b \in Nat : a = open[f].off + n /\ b = size[i]
    BY <1>1, <2>1 DEF TypeOK
  <2>3. off = IF a <= b THEN a ELSE b
    BY <2>2, MinOfTwo
  <2> QED
    BY <2>1, <2>2, <2>3
<1> HIDE DEF off
<1>3. /\ open' \in [Opens -> [ip : Files \cup {None}, off : Nat]]
      /\ open'[f].ip = i /\ open'[f].off = off /\ \A g \in Opens : g # f => open'[g] = open[g]
  BY <1>1, <1>2 DEF TypeOK
<1>4. \A j \in Files : Going(j)' <=> Going(j)
  BY <1>1, GoingAre, GoingAreNext DEF HolderGoes
<1>5. \A g \in Opens : Opened(g)'
  <2>1. Opened(f)'
    BY <1>1, <1>2, <1>3, <1>4 DEF Locking, Opened
  <2>2. \A g \in Opens : g # f => Opened(g)'
    BY <1>1, <1>3, <1>4 DEF Locking, Opened, TypeOK
  <2> QED
    BY <2>1, <2>2
<1>6. ASSUME NEW q \in Writers, op[q].do \in {"write", "writei", "written"}
      PROVE  /\ open'[op[q].f].ip = open[op[q].f].ip
             /\ op[q].do # "write" => open'[op[q].f] = open[op[q].f]
  <2>1. op[q].f \in Opens
    BY <1>1, <1>6 DEF Locking, Works
  <2>2. ASSUME op[q].do # "write" PROVE op[q].f # f
    <3>1. holder[open[op[q].f].ip] = q
      BY <1>1, <1>6, <2>2 DEF Locking, Works, InodeOf
    <3> QED
      BY <1>1, <3>1, Constants
  <2> QED
    BY <1>3, <2>1, <2>2
<1> QED
  BY <1>1, <1>3, <1>5, <1>6, TableStep
-----------------------------------------------------------------------------
LEMMA InitInductive ==
  ASSUME FBInit
  PROVE  Inductive
<1>1. TypeOK
  <2>1. Old \in [Words -> Nat] /\ NoAddrs \in [0 .. NDIRECT -> 0 .. NBLOCKS]
    BY Constants DEF Old, NoAddrs
  <2>2. NoOp \in Op
    BY DEF NoOp, Op
  <2> QED
    BY <2>1, <2>2 DEF FBInit, TypeOK, NotOpen
<1>2. \A p \in Writers : op[p] = NoOp /\ NoOp.do = "idle" /\ NoOp.log = {}
  BY DEF FBInit, NoOp
<1>3. \A i \in Files : holder[i] = None /\ ~Going(i) /\ size[i] = 0
  BY Constants, GoingAre DEF FBInit, HolderGoes
<1>4. Locking
  <2>1. \A p \in Writers : Works(p)
    BY <1>2 DEF Works
  <2>2. \A i \in Files : Holds(i)
    BY <1>3 DEF Holds
  <2>3. \A f \in Opens : Opened(f)
    BY DEF FBInit, NotOpen, Opened
  <2> QED
    BY <2>1, <2>2, <2>3 DEF Locking
<1>5. \A x \in Places : At[x] = 0
  <2>1. \A i \in Files, k \in 0 .. NDIRECT : addrs[i][k] = 0
    BY DEF FBInit, NoAddrs
  <2>2. \A i \in Files, e \in 0 .. NINDIRECT - 1 : EntryOf(i, e) = 0
    BY <2>1, Constants DEF EntryOf
  <2> QED
    BY <2>1, <2>2, PlacesAre, BlocksAt DEF Located
<1>6. Owners(At, used)
  BY <1>5 DEF FBInit, Owners
<1>7. ASSUME NEW i \in Files PROVE Indirect(i) /\ Contents(i)
  <2>1. \A k \in 0 .. MAXFILE * BSIZE - 1 : ~Reached(i, k)
    BY <1>2, <1>3, Numbers DEF Reached
  <2>2. Indirect(i)
    BY <1>5, PlacesAre DEF Indirect
  <2> QED
    BY <2>1, <2>2 DEF Contents
<1>8. Logging
  BY <1>2 DEF Logging
<1> QED
  BY <1>1, <1>4, <1>6, <1>7, <1>8 DEF Inductive, Disk

LEMMA NextInductive ==
  ASSUME Inductive, [FBNext]_fbvars
  PROVE  Inductive'
<1>1. ASSUME NEW p \in Writers, WriteStep(p) PROVE Inductive'
  <2>1. CASE \E f \in Opens, n \in Counts : Write(p, f, n)
    BY <2>1, WriteBegins
  <2>2. CASE Begin(p) \/ TooLarge(p) \/ WriteBlock(p) \/ SetSize(p) \/ EndWrite(p)
    BY <2>2, BeginStep, TooLargeStep, WriteBlockStep, SetSizeStep, EndWriteStep
  <2>3. CASE \E b \in Blocks : MapDirect(p, b) \/ MapIndirect(p, b) \/ MapEntry(p, b)
    BY <2>3, MapDirectStep, MapIndirectStep, MapEntryStep
  <2> QED
    BY <1>1, <2>1, <2>2, <2>3 DEF WriteStep
<1>2. ASSUME NEW p \in Writers, NEW i \in Files, TruncStep(p, i) PROVE Inductive'
  BY <1>2, TruncateStep, FreeDirectStep, FreeEntryStep, FreeIndirectStep, TruncatedStep DEF TruncStep
<1>3. ASSUME NEW f \in Opens, Close(f) \/ Read(f, 1) \/ \E i \in Files : Open(f, i) PROVE Inductive'
  <2>1. 1 \in Nat
    OBVIOUS
  <2> QED
    BY <1>3, <2>1, CloseStep, ReadStep, OpenStep
<1>4. CASE UNCHANGED fbvars
  <2>1. Inductive /\ UNCHANGED <<used, word, addrs, size, holder, op, open>>
    BY <1>4 DEF fbvars
  <2>2. \A f \in Opens : Opened(f)'
    <3>1. \A j \in Files : Going(j)' <=> Going(j)
      BY <2>1, GoingAre, GoingAreNext DEF HolderGoes
    <3> QED
      BY <2>1, <3>1 DEF Inductive, Locking, Opened, TypeOK
  <2>3. open' \in [Opens -> [ip : Files \cup {None}, off : Nat]]
    BY <2>1 DEF Inductive, TypeOK
  <2> QED
    BY <2>1, <2>2, <2>3, TableStep
<1> QED
  BY <1>1, <1>2, <1>3, <1>4 DEF FBNext

(* Blocks, locks, the contents of files and the logs of write() calls in   *)
(* progress agree, after every step of filewrite(), itrunc(), fileread(),  *)
(* open and close, whichever processes take them (fs.c, file.c).           *)
THEOREM InductiveInvariant == FBSpec => []Inductive
BY InitInductive, NextInductive, PTL DEF FBSpec
-----------------------------------------------------------------------------
(* ... and what the runs check follows from it. *)

LEMMA OwnedOnce ==
  ASSUME Inductive
  PROVE  BlocksOwnedOnce
<1> DEFINE f == [x \in BlockPlaces |-> BlockAt(x)]
<1>1. NDIRECT \in Nat /\ NINDIRECT \in Nat /\ MAXFILE = NDIRECT + NINDIRECT
  BY Constants
<1>2. ASSUME NEW x \in Places
      PROVE  (x \in BlockPlaces <=> At[x] # 0) /\ (At[x] # 0 => BlockAt(x) = At[x])
  <2>1. PICK i \in Files, n \in 0 .. MAXFILE : x = <<i, n>>
    BY DEF Places
  <2>2. x[1] = i /\ x[2] = n
    BY <2>1
  <2>3. CASE n <= NDIRECT
    <3>1. At[x] = addrs[i][n]
      BY <1>1, <2>1, <2>3, BlocksAt DEF Located
    <3> QED
      BY <2>1, <2>2, <2>3, <3>1 DEF BlockPlaces, BlockAt
  <2>4. CASE n > NDIRECT
    <3> DEFINE e == n - 1 - NDIRECT
    <3>1. e \in 0 .. NINDIRECT - 1 /\ n - 1 - NDIRECT = e /\ NDIRECT + 1 + e = n
          /\ ~(n <= NDIRECT) /\ ~(n - 1 < NDIRECT)
      BY <1>1, <2>4
    <3>2. At[x] = EntryOf(i, e)
      <4>1. x = EntryAt(i, e)
        BY <2>1, <3>1 DEF EntryAt
      <4> HIDE DEF e
      <4> QED
        BY <3>1, <4>1, BlocksAt DEF Located
    <3>3. BlockOf(i, n - 1) = IF addrs[i][NDIRECT] = 0 THEN 0 ELSE word[addrs[i][NDIRECT]][e]
      BY <3>1 DEF BlockOf
    <3>4. Gone(i, e) <=> ~ \A p \in Writers : Truncating(p, i) => e >= op[p].at
      <4>1. \A p \in Writers : op[p].at \in Nat
        BY DEF Inductive, TypeOK, Op
      <4> HIDE DEF e
      <4> QED
        BY <3>1, <4>1 DEF Gone
    <3>5. x \in BlockPlaces <=>
            /\ BlockOf(i, n - 1) # 0
            /\ \A p \in Writers : Truncating(p, i) => n - 1 - NDIRECT >= op[p].at
      BY <2>1, <2>2, <3>1 DEF BlockPlaces
    <3>6. BlockAt(x) = BlockOf(i, n - 1)
      BY <2>2, <3>1 DEF BlockAt
    <3> QED
      BY <3>2, <3>3, <3>4, <3>5, <3>6 DEF EntryOf
  <2> QED
    BY <1>1, <2>3, <2>4
<1>3. BlockPlaces \subseteq Places
  BY DEF BlockPlaces, Places
<1>4. Owners(At, used)
  BY DEF Inductive, Disk
<1>5. \A x \in BlockPlaces : f[x] \in used
  BY <1>2, <1>3, <1>4 DEF Owners
<1>6. \A x, y \in BlockPlaces : f[x] = f[y] => x = y
  BY <1>2, <1>3, <1>4 DEF Owners
<1>7. \A b \in used : \E x \in BlockPlaces : f[x] = b
  <2> SUFFICES ASSUME NEW b \in used PROVE \E x \in BlockPlaces : f[x] = b
    OBVIOUS
  <2>1. PICK x \in Places : At[x] = b
    BY <1>4 DEF Owners
  <2>2. b # 0
    BY BlockNumbers DEF Inductive, TypeOK
  <2> QED
    BY <1>2, <2>1, <2>2
<1>8. {BlockAt(x) : x \in BlockPlaces} = used
  BY <1>5, <1>7
<1>9. f \in Injection(BlockPlaces, used) /\ f \in Surjection(BlockPlaces, used)
  <2>1. f \in [BlockPlaces -> used] /\ DOMAIN f = BlockPlaces
    BY <1>5
  <2> HIDE DEF f
  <2> QED
    BY <1>6, <1>7, <2>1 DEF Injection, Surjection, IsInjective
<1>10. IsFiniteSet(used)
  <2>1. IsFiniteSet(1 .. NBLOCKS)
    BY FS_Interval, Constants
  <2> QED
    BY <2>1, FS_Subset DEF Blocks, Inductive, TypeOK
<1>11. Cardinality(BlockPlaces) = Cardinality(used)
  <2> HIDE DEF f
  <2> QED
    BY <1>9, <1>10, FS_Injection
<1> QED
  BY <1>8, <1>11 DEF BlocksOwnedOnce

LEMMA FilesReadBack ==
  ASSUME Inductive
  PROVE  ReadsBack
<1> SUFFICES ASSUME NEW i \in Files, ~Going(i), NEW k \in 0 .. MAXFILE * BSIZE - 1, k < Written(i)
             PROVE  LET b == BlockOf(i, k \div BSIZE) IN b # 0 /\ word[b][k % BSIZE] = Text(i, k)
  BY DEF ReadsBack, Going
<1>1. TypeOK /\ Locking /\ Disk
  BY DEF Inductive
<1>2. k \in Nat /\ k \div BSIZE \in 0 .. MAXFILE - 1
  BY Numbers
<1>3. Reached(i, k)
  <2>1. CASE \E p \in Writers : op[p].do = "writei" /\ InodeOf(p) = i
    <3>1. PICK p \in Writers : op[p].do = "writei" /\ InodeOf(p) = i
      BY <2>1
    <3>2. holder[i] = p
      BY <1>1, <3>1 DEF Locking, Works
    <3>3. PICK a \in Nat, b \in Nat : a = size[i] /\ b = op[p].at
      BY <1>1 DEF TypeOK, Op
    <3>4. Written(i) = IF a >= b THEN a ELSE b
      BY <2>1, <3>2, <3>3, MaxOfTwo DEF Written
    <3>5. k < a \/ k < b
      BY <3>4
    <3> QED
      BY <3>1, <3>3, <3>5 DEF Reached
  <2>2. CASE ~ \E p \in Writers : op[p].do = "writei" /\ InodeOf(p) = i
    BY <2>2 DEF Written, Reached
  <2> QED
    BY <2>1, <2>2
<1>4. Stored(i, k)
  BY <1>1, <1>3 DEF Disk, Contents
<1>5. BlockOf(i, k \div BSIZE) = At[DataAt(i, k \div BSIZE)]
  BY <1>2, Mapped
<1> QED
  BY <1>4, <1>5 DEF Stored

(* A disk block is free or is in one place of one file, and what a file    *)
(* holds is what was written there: balloc(), bfree(), bmap(), itrunc(),   *)
(* readi() and writei(), when files grow, are removed and compete for      *)
(* blocks at the same time.                                                *)
THEOREM BlocksStayKept == FBSpec => []BlocksKept
<1>1. Inductive => BlocksKept
  BY OwnedOnce, FilesReadBack DEF BlocksKept
<1> QED
  BY <1>1, InductiveInvariant, PTL

LEMMA Counted ==
  ASSUME NEW S, NEW n \in Nat, NEW g, DOMAIN g = 0 .. n - 1,
         \A x \in S : \E k \in 0 .. n - 1 : g[k] = x
  PROVE  Cardinality(S) \in Nat /\ Cardinality(S) <= n
<1> DEFINE D == 0 .. n - 1
           T == {g[k] : k \in D}
           f == [k \in D |-> g[k]]
<1>1. IsFiniteSet(D) /\ Cardinality(D) = n
  BY FS_Interval
<1>2. f \in Surjection(D, T)
  BY DEF Surjection
<1>3. S \subseteq T
  OBVIOUS
<1> HIDE DEF D, T, f
<1>4. IsFiniteSet(T) /\ Cardinality(T) <= n
  BY <1>1, <1>2, FS_Surjection
<1>5. IsFiniteSet(S) /\ Cardinality(S) <= Cardinality(T)
  BY <1>3, <1>4, FS_Subset, ZenonT(60)
<1>6. Cardinality(S) \in Nat /\ Cardinality(T) \in Nat
  BY <1>4, <1>5, FS_CardinalityType
<1> QED
  BY <1>4, <1>5, <1>6

(* A chunk touches at most ChunkBlocks + 1 blocks, and can have allocated  *)
(* at most ChunkBlocks of them.                                            *)
LEMMA ChunkParts ==
  ASSUME TypeOK, Locking, NEW p \in Writers, op[p].do \in {"writei", "written"},
         NEW n \in Nat, Touched(p, n)
  PROVE  /\ First(p) \in Nat /\ Fresh(p) \in Nat
         /\ n <= First(p) + ChunkBlocks /\ n < Fresh(p) + ChunkBlocks
<1> DEFINE off == open[op[p].f].off
           q == ChunkBlocks
           f == First(p)
           s == Fresh(p)
<1>1. /\ off \in Nat /\ op[p].end \in Nat /\ Chunk(p) \in Nat /\ op[p].end = off + Chunk(p)
      /\ Chunk(p) <= q * BSIZE
  BY AtWork, Chunks
<1>2. BSIZE \in Nat \ {0} /\ q \in Nat
  BY Constants, Chunks
<1>3. f = off \div BSIZE /\ s = IF off % BSIZE = 0 THEN f ELSE f + 1
  BY DEF First, Fresh
<1> HIDE DEF off, q, f, s
<1>4. /\ f \in Nat /\ off % BSIZE \in 0 .. BSIZE - 1 /\ f * BSIZE \in Nat
      /\ off = f * BSIZE + (off % BSIZE) /\ (f + 1) * BSIZE = f * BSIZE + BSIZE
  BY <1>1, <1>2, <1>3, Quotient, QuotientOf
<1>5. s \in Nat /\ s <= f + 1 /\ off <= s * BSIZE
  <2>1. CASE off % BSIZE = 0
    BY <1>1, <1>2, <1>3, <1>4, <2>1
  <2>2. CASE off % BSIZE # 0
    BY <1>1, <1>2, <1>3, <1>4, <2>2
  <2> QED
    BY <2>1, <2>2
<1>6. n < s + q
  <2> SUFFICES ASSUME s + q <= n PROVE FALSE
    BY <1>2, <1>5
  <2>1. (s + q) * BSIZE <= n * BSIZE
    BY <1>2, <1>5, Times
  <2>2. (s + q) * BSIZE = s * BSIZE + q * BSIZE
    BY <1>2, <1>5, SMT
  <2>3. s * BSIZE \in Nat /\ q * BSIZE \in Nat /\ n * BSIZE \in Nat
    BY <1>2, <1>5, QuotientOf
  <2>4. n * BSIZE < op[p].end
    BY DEF Touched
  <2> QED
    BY <1>1, <1>5, <2>1, <2>2, <2>3, <2>4
<1> QED
  BY <1>2, <1>4, <1>5, <1>6 DEF f, s, q

LEMMA LogFits ==
  ASSUME Inductive, NEW p \in Writers
  PROVE  Cardinality(op[p].log) <= MAXOPBLOCKS
<1>1. TypeOK /\ Locking /\ Logging /\ MAXOPBLOCKS \in Nat
  BY Constants DEF Inductive
<1>2. CASE op[p].do \notin {"writei", "written"}
  <2>1. op[p].log = {}
    <3>1. op[p].do \in {"idle", "write", "writei", "written", "itrunc"} /\ Works(p)
      BY <1>1 DEF TypeOK, Op, Locking
    <3> QED
      BY <1>2, <3>1 DEF Works
  <2> QED
    BY <1>1, <2>1, FS_EmptySet
<1>3. CASE op[p].do \in {"writei", "written"}
  <2> DEFINE i == InodeOf(p)
             q == ChunkBlocks
             f == First(p)
             s == Fresh(p)
             b(n) == At[DataAt(i, n)]
             a == At[IndirectAt(i)]
             g == [k \in 0 .. 2 * q + 4 - 1 |->
                     IF k <= q THEN Data(b(f + k))
                     ELSE IF k <= 2 * q THEN Bitmap(b(s + (k - q - 1)))
                     ELSE IF k = 2 * q + 1 THEN Data(a)
                     ELSE IF k = 2 * q + 2 THEN Bitmap(a)
                     ELSE Inode(i)]
  <2>1. q \in Nat /\ 2 * q + 4 \in Nat /\ 2 * q + 4 <= MAXOPBLOCKS
    BY Chunks, Constants
  <2>2. /\ \A k \in 0 .. q : g[k] = Data(b(f + k))
        /\ \A k \in q + 1 .. 2 * q : g[k] = Bitmap(b(s + (k - q - 1)))
        /\ g[2 * q + 1] = Data(a) /\ g[2 * q + 2] = Bitmap(a) /\ g[2 * q + 3] = Inode(i)
    BY <2>1
  <2>3. DOMAIN g = 0 .. 2 * q + 4 - 1
    OBVIOUS
  <2> HIDE DEF g
  <2>4. ASSUME NEW x \in op[p].log PROVE \E k \in 0 .. 2 * q + 4 - 1 : g[k] = x
    <3>1. InLog(p, x)
      BY <1>1, <1>3 DEF Logging
    <3>2. CASE x = Data(a)
      BY <2>1, <2>2, <3>2
    <3>3. CASE x = Bitmap(a)
      BY <2>1, <2>2, <3>3
    <3>4. CASE x = Inode(i)
      BY <2>1, <2>2, <3>4
    <3>5. ASSUME NEW n \in 0 .. MAXFILE - 1, f <= n, Touched(p, n),
                 x = Data(b(n)) \/ (s <= n /\ x = Bitmap(b(n)))
          PROVE  \E k \in 0 .. 2 * q + 4 - 1 : g[k] = x
      <4>1. f \in Nat /\ s \in Nat /\ n \in Nat /\ n <= f + q /\ n < s + q
        <5>1. n \in Nat
          BY Constants
        <5> QED
          BY <1>1, <1>3, <3>5, <5>1, ChunkParts
      <4> HIDE DEF f, s, q, b
      <4>2. CASE x = Data(b(n))
        <5>1. n - f \in 0 .. q /\ f + (n - f) = n
          BY <2>1, <3>5, <4>1
        <5>2. g[n - f] = x
          BY <2>2, <4>2, <5>1
        <5>3. n - f \in 0 .. 2 * q + 4 - 1
          BY <2>1, <5>1
        <5> QED
          BY <5>2, <5>3
      <4>3. CASE s <= n /\ x = Bitmap(b(n))
        <5> DEFINE k == n - s + q + 1
        <5>1. k \in q + 1 .. 2 * q /\ s + (k - q - 1) = n /\ k \in 0 .. 2 * q + 4 - 1
          BY <2>1, <4>1, <4>3
        <5> HIDE DEF k
        <5>2. g[k] = x
          BY <2>2, <4>3, <5>1
        <5> QED
          BY <5>1, <5>2
      <4> QED
        BY <3>5, <4>2, <4>3
    <3> QED
      BY <3>1, <3>2, <3>3, <3>4, <3>5 DEF InLog
  <2>5. Cardinality(op[p].log) \in Nat /\ Cardinality(op[p].log) <= 2 * q + 4
    <3> HIDE DEF q
    <3> QED
      BY <2>1, <2>3, <2>4, Counted
  <2> QED
    BY <1>1, <2>1, <2>5
<1> QED
  BY <1>2, <1>3

(* No writei() logs more blocks than begin_op() has reserved for its call  *)
(* (filewrite(), file.c): with max as the code computes it, each chunk     *)
(* fits whatever its offset in a block, the sizes of blocks and files, and *)
(* however the blocks it allocates lie in the bitmap.                      *)
THEOREM WritesStayFit == FBSpec => []WritesFit
<1>1. Inductive => WritesFit
  BY LogFits DEF WritesFit
<1> QED
  BY <1>1, InductiveInvariant, PTL
=============================================================================
