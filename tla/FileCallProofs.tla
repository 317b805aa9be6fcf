--------------------------- MODULE FileCallProofs ---------------------------
(***************************************************************************)
(* Proofs about FileSystem: what the calls refer to and which locks they   *)
(* hold, at each place of each call, and that every step gives back what   *)
(* it no longer needs, once.                                               *)
(*                                                                         *)
(* The references to an inode are counted process by process: Count is     *)
(* what one process has, HoldersCounted says that Holders is their sum and *)
(* the open files, and Balance is what a step has to show.                 *)
(***************************************************************************)
EXTENDS FileSystem, FiniteSetTheorems, TLAPS

(* The steps of iunlockput() are told apart by what they do and to what.   *)
LEMMA StepsApart ==
  ASSUME NEW i, NEW j
  PROVE  /\ Put(i) = Put(j) <=> i = j
         /\ Drop(i) = Drop(j) <=> i = j
         /\ Unlock(i) = Unlock(j) <=> i = j
         /\ Put(i) # Drop(j) /\ Put(i) # Unlock(j) /\ Drop(i) # Unlock(j)
         /\ Put(i)[1] = "put" /\ Drop(i)[1] # "put" /\ Unlock(i)[1] # "put"
         /\ Put(i)[2] = i /\ Drop(i)[2] = i /\ Unlock(i)[2] = i
BY DEF Put, Drop, Unlock

(* What a process may still have to do before it goes on with its call:    *)
(* nothing or a single reference to put, the two of a link() that is done, *)
(* or what unlink() and link() do to a directory that they hold.           *)
NoSteps  == << >>
OnePut   == {<<Put(i)>> : i \in Inodes} \cup {<<Drop(i)>> : i \in Inodes}
TwoPuts  == {<<Put(i), Put(j)>> : i \in Inodes, j \in Inodes} \cup
            {<<Drop(i), Put(j)>> : i \in Inodes, j \in Inodes}
Release  == {<<Put(i), Unlock(j), Put(j)>> : i \in Inodes, j \in Inodes} \cup
            {<<Drop(i), Unlock(j), Put(j)>> : i \in Inodes, j \in Inodes} \cup
            {<<Unlock(j), Put(j)>> : j \in Inodes}

AtMostOne == {NoSteps} \cup OnePut
AnySteps  == AtMostOne \cup TwoPuts \cup Release

(* After the first of its steps: iput() has dropped the reference next.    *)
After(t) == (IF Head(t)[1] = "put" THEN <<Drop(Head(t)[2])>> ELSE << >>) \o Tail(t)

LEMMA TwoElements ==
  ASSUME NEW a, NEW b
  PROVE  <<a>> \o <<b>> = <<a, b>>
<1>1. <<a>> \in Seq({a, b}) /\ <<b>> \in Seq({a, b})
  OBVIOUS
<1>2. <<a>> \o <<b>> = [k \in 1 .. 2 |-> IF k <= 1 THEN <<a>>[k] ELSE <<b>>[k - 1]]
  BY <1>1
<1>3. <<a, b>> = [k \in 1 .. 2 |-> IF k <= 1 THEN <<a>>[k] ELSE <<b>>[k - 1]]
  OBVIOUS
<1> QED
  BY <1>2, <1>3

LEMMA ThreeElements ==
  ASSUME NEW a, NEW b, NEW c
  PROVE  <<a>> \o <<b, c>> = <<a, b, c>>
<1>1. <<a>> \in Seq({a, b, c}) /\ <<b, c>> \in Seq({a, b, c})
  OBVIOUS
<1>2. <<a>> \o <<b, c>> = [k \in 1 .. 3 |-> IF k <= 1 THEN <<a>>[k] ELSE <<b, c>>[k - 1]]
  BY <1>1
<1>3. <<a, b, c>> = [k \in 1 .. 3 |-> IF k <= 1 THEN <<a>>[k] ELSE <<b, c>>[k - 1]]
  OBVIOUS
<1> QED
  BY <1>2, <1>3

LEMMA AfterOne ==
  ASSUME NEW a
  PROVE  /\ a[1] = "put" => After(<<a>>) = <<Drop(a[2])>>
         /\ a[1] # "put" => After(<<a>>) = << >>
<1>1. Head(<<a>>) = a
  OBVIOUS
<1>2. Tail(<<a>>) = << >> /\ << >> \o << >> = << >>
  OBVIOUS
<1>3. <<Drop(a[2])>> \o << >> = <<Drop(a[2])>>
  OBVIOUS
<1> QED
  BY <1>1, <1>2, <1>3 DEF After

LEMMA AfterTwo ==
  ASSUME NEW a, NEW b
  PROVE  /\ a[1] = "put" => After(<<a, b>>) = <<Drop(a[2]), b>>
         /\ a[1] # "put" => After(<<a, b>>) = <<b>>
<1>1. Head(<<a, b>>) = a
  OBVIOUS
<1>2. Tail(<<a, b>>) = <<b>> /\ << >> \o <<b>> = <<b>>
  OBVIOUS
<1>3. <<Drop(a[2])>> \o <<b>> = <<Drop(a[2]), b>>
  BY TwoElements
<1> QED
  BY <1>1, <1>2, <1>3 DEF After

LEMMA AfterThree ==
  ASSUME NEW a, NEW b, NEW c
  PROVE  /\ a[1] = "put" => After(<<a, b, c>>) = <<Drop(a[2]), b, c>>
         /\ a[1] # "put" => After(<<a, b, c>>) = <<b, c>>
<1>1. Head(<<a, b, c>>) = a
  OBVIOUS
<1>2. Tail(<<a, b, c>>) = <<b, c>> /\ << >> \o <<b, c>> = <<b, c>>
  OBVIOUS
<1>3. <<Drop(a[2])>> \o <<b, c>> = <<Drop(a[2]), b, c>>
  BY ThreeElements
<1> QED
  BY <1>1, <1>2, <1>3 DEF After

LEMMA AfterOnePut ==
  ASSUME NEW i
  PROVE  /\ Head(<<Put(i)>>) = Put(i) /\ After(<<Put(i)>>) = <<Drop(i)>>
         /\ Head(<<Drop(i)>>) = Drop(i) /\ After(<<Drop(i)>>) = NoSteps
BY AfterOne, StepsApart DEF NoSteps

LEMMA AfterTwoPuts ==
  ASSUME NEW i, NEW j
  PROVE  /\ Head(<<Put(i), Put(j)>>) = Put(i)
         /\ After(<<Put(i), Put(j)>>) = <<Drop(i), Put(j)>>
         /\ Head(<<Drop(i), Put(j)>>) = Drop(i)
         /\ After(<<Drop(i), Put(j)>>) = <<Put(j)>>
<1>1. After(<<Put(i), Put(j)>>) = <<Drop(i), Put(j)>>
  BY AfterTwo, StepsApart
<1>2. After(<<Drop(i), Put(j)>>) = <<Put(j)>>
  BY AfterTwo, StepsApart
<1> QED
  BY <1>1, <1>2

LEMMA AfterRelease ==
  ASSUME NEW i, NEW j
  PROVE  /\ Head(<<Put(i), Unlock(j), Put(j)>>) = Put(i)
         /\ After(<<Put(i), Unlock(j), Put(j)>>) = <<Drop(i), Unlock(j), Put(j)>>
         /\ Head(<<Drop(i), Unlock(j), Put(j)>>) = Drop(i)
         /\ After(<<Drop(i), Unlock(j), Put(j)>>) = <<Unlock(j), Put(j)>>
<1>1. After(<<Put(i), Unlock(j), Put(j)>>) = <<Drop(i), Unlock(j), Put(j)>>
  BY AfterThree, StepsApart
<1>2. After(<<Drop(i), Unlock(j), Put(j)>>) = <<Unlock(j), Put(j)>>
  BY AfterThree, StepsApart
<1> QED
  BY <1>1, <1>2

LEMMA AfterRest ==
  ASSUME NEW j
  PROVE  /\ Head(<<Unlock(j), Put(j)>>) = Unlock(j)
         /\ After(<<Unlock(j), Put(j)>>) = <<Put(j)>>
BY AfterTwo, StepsApart
-----------------------------------------------------------------------------
Hit(a, x) == IF a = x THEN 1 ELSE 0

StepHit(t, k, x) == IF k \in DOMAIN t /\ t[k] \in {Put(x), Drop(x)} THEN 1 ELSE 0

Steps(t, x) == StepHit(t, 1, x) + StepHit(t, 2, x) + StepHit(t, 3, x)

LEMMA StepsOne ==
  ASSUME NEW i, NEW x
  PROVE  /\ Steps(NoSteps, x) = 0
         /\ Steps(<<Put(i)>>, x) = Hit(i, x)
         /\ Steps(<<Drop(i)>>, x) = Hit(i, x)
<1>1. Steps(NoSteps, x) = 0
  BY DEF NoSteps, Steps, StepHit
<1>2. Steps(<<Put(i)>>, x) = Hit(i, x) /\ Steps(<<Drop(i)>>, x) = Hit(i, x)
  BY StepsApart DEF Steps, StepHit, Hit
<1> QED
  BY <1>1, <1>2

LEMMA StepsTwo ==
  ASSUME NEW i, NEW j, NEW x
  PROVE  /\ Steps(<<Put(i), Put(j)>>, x) = Hit(i, x) + Hit(j, x)
         /\ Steps(<<Drop(i), Put(j)>>, x) = Hit(i, x) + Hit(j, x)
<1>1. Steps(<<Put(i), Put(j)>>, x) = Hit(i, x) + Hit(j, x)
  BY StepsApart DEF Steps, StepHit, Hit
<1>2. Steps(<<Drop(i), Put(j)>>, x) = Hit(i, x) + Hit(j, x)
  BY StepsApart DEF Steps, StepHit, Hit
<1> QED
  BY <1>1, <1>2

LEMMA StepsThree ==
  ASSUME NEW i, NEW j, NEW x
  PROVE  /\ Steps(<<Put(i), Unlock(j), Put(j)>>, x) = Hit(i, x) + Hit(j, x)
         /\ Steps(<<Drop(i), Unlock(j), Put(j)>>, x) = Hit(i, x) + Hit(j, x)
<1>1. Steps(<<Put(i), Unlock(j), Put(j)>>, x) = Hit(i, x) + Hit(j, x)
  BY StepsApart DEF Steps, StepHit, Hit
<1>2. Steps(<<Drop(i), Unlock(j), Put(j)>>, x) = Hit(i, x) + Hit(j, x)
  BY StepsApart DEF Steps, StepHit, Hit
<1> QED
  BY <1>1, <1>2

LEMMA StepsRest ==
  ASSUME NEW j, NEW x
  PROVE  Steps(<<Unlock(j), Put(j)>>, x) = Hit(j, x)
BY StepsApart DEF Steps, StepHit, Hit
-----------------------------------------------------------------------------
(* Cardinalities of the sets that the invariants count in.                 *)
LEMMA InodesFinite ==
  /\ IsFiniteSet(Inodes) /\ IsFiniteSet(Files)
  /\ IsFiniteSet(Procs) /\ IsFiniteSet(Names)
BY FSAssumption, FS_Interval DEF FSAssumption, Inodes, Files

(* The values of a function on a finite set.                               *)
LEMMA ValuesFinite ==
  ASSUME NEW S, IsFiniteSet(S), NEW f, f = [x \in S |-> f[x]]
  PROVE  IsFiniteSet({f[x] : x \in S})
<1> DEFINE T == {f[x] : x \in S}
<1>1. f \in Surjection(S, T)
  BY Zenon DEF Surjection
<1> QED
  BY <1>1, FS_Surjection, Zenon

(* ... and as many as it has arguments, if it tells those apart.           *)
LEMMA ValuesCounted ==
  ASSUME NEW S, IsFiniteSet(S), NEW f, f = [x \in S |-> f[x]],
         \A x, y \in S : f[x] = f[y] => x = y
  PROVE  Cardinality({f[x] : x \in S}) = Cardinality(S)
<1> DEFINE T == {f[x] : x \in S}
<1>1. f \in Bijection(S, T)
  BY Zenon DEF Bijection, Injection, Surjection, IsInjective
<1> QED
  BY <1>1, FS_Bijection, Zenon DEF ExistsBijection

(* One element or none.                                                    *)
Flag(k, e) == IF k = 1 THEN {e} ELSE {}

LEMMA FlagCounted ==
  ASSUME NEW S, IsFiniteSet(S), NEW k \in {0, 1}, NEW e, e \notin S
  PROVE  /\ IsFiniteSet(S \cup Flag(k, e))
         /\ Cardinality(S \cup Flag(k, e)) = Cardinality(S) + k
<1>1. Cardinality(S) \in Nat
  BY FS_CardinalityType
<1>2. CASE k = 1
  BY <1>1, <1>2, FS_AddElement DEF Flag
<1>3. CASE k = 0
  BY <1>1, <1>3 DEF Flag
<1> QED
  BY <1>2, <1>3

(* Two sets without a common element.                                      *)
LEMMA ApartCounted ==
  ASSUME NEW S, NEW T, IsFiniteSet(S), IsFiniteSet(T), S \cap T = {}
  PROVE  /\ IsFiniteSet(S \cup T)
         /\ Cardinality(S \cup T) = Cardinality(S) + Cardinality(T)
<1>1. Cardinality(S \cap T) = 0
  BY FS_EmptySet
<1> QED
  BY <1>1, FS_Union, FS_CardinalityType
-----------------------------------------------------------------------------
(* Who refers to the in-core entry of an inode: the share of a process p   *)
(* that is in directory w, in call c and has the steps t to do, and that   *)
(* of the file table.                                                      *)
Share(p, w, c, t, x) ==
  Flag(Hit(w, x), <<p, "cwd", 0>>) \cup
  Flag(Hit(c.cur, x), <<p, "cur", 0>>) \cup
  Flag(Hit(c.other, x), <<p, "other", 0>>) \cup
  Flag(StepHit(t, 1, x), <<p, "todo", 1>>) \cup
  Flag(StepHit(t, 2, x), <<p, "todo", 2>>) \cup
  Flag(StepHit(t, 3, x), <<p, "todo", 3>>)

Count(w, c, t, x) == Hit(w, x) + Hit(c.cur, x) + Hit(c.other, x) + Steps(t, x)

TableShare(tab, x) == {<<Nobody, "file", f>> : f \in {g \in Files : tab[g].ip = x}}

LEMMA ShareCounted ==
  ASSUME NEW p, NEW w, NEW c, NEW t, NEW x
  PROVE  /\ IsFiniteSet(Share(p, w, c, t, x))
         /\ Cardinality(Share(p, w, c, t, x)) = Count(w, c, t, x)
         /\ Count(w, c, t, x) \in Nat
<1> DEFINE F1 == Flag(Hit(w, x), <<p, "cwd", 0>>)
           F2 == F1 \cup Flag(Hit(c.cur, x), <<p, "cur", 0>>)
           F3 == F2 \cup Flag(Hit(c.other, x), <<p, "other", 0>>)
           F4 == F3 \cup Flag(StepHit(t, 1, x), <<p, "todo", 1>>)
           F5 == F4 \cup Flag(StepHit(t, 2, x), <<p, "todo", 2>>)
           F6 == F5 \cup Flag(StepHit(t, 3, x), <<p, "todo", 3>>)
<1>1. \A a : Hit(a, x) \in {0, 1}
  BY DEF Hit
<1>2. \A k : StepHit(t, k, x) \in {0, 1}
  BY DEF StepHit
<1>3. IsFiniteSet(F1) /\ Cardinality(F1) = Hit(w, x)
  <2>1. {} \cup F1 = F1 /\ IsFiniteSet({}) /\ Cardinality({}) = 0
    BY FS_EmptySet
  <2>2. IsFiniteSet({} \cup F1) /\ Cardinality({} \cup F1) = Cardinality({}) + Hit(w, x)
    BY <1>1, <2>1, FlagCounted
  <2> QED
    BY <1>1, <2>1, <2>2
<1>4. IsFiniteSet(F2) /\ Cardinality(F2) = Cardinality(F1) + Hit(c.cur, x)
  <2>1. <<p, "cur", 0>> \notin F1
    BY DEF Flag
  <2> HIDE DEF F1
  <2> QED
    BY <1>1, <1>3, <2>1, FlagCounted
<1>5. IsFiniteSet(F3) /\ Cardinality(F3) = Cardinality(F2) + Hit(c.other, x)
  <2>1. <<p, "other", 0>> \notin F2
    BY DEF Flag
  <2> HIDE DEF F2
  <2> QED
    BY <1>1, <1>4, <2>1, FlagCounted
<1>6. IsFiniteSet(F4) /\ Cardinality(F4) = Cardinality(F3) + StepHit(t, 1, x)
  <2>1. <<p, "todo", 1>> \notin F3
    BY DEF Flag
  <2> HIDE DEF F3
  <2> QED
    BY <1>2, <1>5, <2>1, FlagCounted
<1>7. IsFiniteSet(F5) /\ Cardinality(F5) = Cardinality(F4) + StepHit(t, 2, x)
  <2>1. <<p, "todo", 2>> \notin F4
    BY DEF Flag
  <2> HIDE DEF F4
  <2> QED
    BY <1>2, <1>6, <2>1, FlagCounted
<1>8. IsFiniteSet(F6) /\ Cardinality(F6) = Cardinality(F5) + StepHit(t, 3, x)
  <2>1. <<p, "todo", 3>> \notin F5
    BY DEF Flag
  <2> HIDE DEF F5
  <2> QED
    BY <1>2, <1>7, <2>1, FlagCounted
<1>9. F6 = Share(p, w, c, t, x)
  BY DEF Share
<1> HIDE DEF F1, F2, F3, F4, F5, F6
<1> QED
  BY <1>1, <1>2, <1>3, <1>4, <1>5, <1>6, <1>7, <1>8, <1>9 DEF Count, Steps

(* Holders for any values of the variables, and by process.                *)
HoldersAt(w, c, t, tab, x) ==
  {<<p, "cwd", 0>> : p \in {q \in Procs : w[q] = x}} \cup
  {<<p, "cur", 0>> : p \in {q \in Procs : c[q].cur = x}} \cup
  {<<p, "other", 0>> : p \in {q \in Procs : c[q].other = x}} \cup
  (UNION {{<<p, "todo", k>> : k \in {j \in DOMAIN t[p] : t[p][j] \in {Put(x), Drop(x)}}} : p \in Procs}) \cup
  {<<Nobody, "file", f>> : f \in {g \in Files : tab[g].ip = x}}

SharesOf(P, w, c, t, x) == UNION {Share(p, w[p], c[p], t[p], x) : p \in P}

LEMMA HoldersByProcess ==
  ASSUME NEW w, NEW c, NEW t, NEW tab, NEW x,
         \A p \in Procs : DOMAIN t[p] \subseteq {1, 2, 3}
  PROVE  HoldersAt(w, c, t, tab, x) = SharesOf(Procs, w, c, t, x) \cup TableShare(tab, x)
<1> DEFINE W == {<<p, "cwd", 0>> : p \in {q \in Procs : w[q] = x}}
           C == {<<p, "cur", 0>> : p \in {q \in Procs : c[q].cur = x}}
           O == {<<p, "other", 0>> : p \in {q \in Procs : c[q].other = x}}
           T1(p) == {<<p, "todo", k>> : k \in {j \in DOMAIN t[p] : t[p][j] \in {Put(x), Drop(x)}}}
           T == UNION {T1(p) : p \in Procs}
           S(p) == Share(p, w[p], c[p], t[p], x)
<1>0. HoldersAt(w, c, t, tab, x) = W \cup C \cup O \cup T \cup TableShare(tab, x)
  BY DEF HoldersAt, TableShare
<1>1. ASSUME NEW p \in Procs, NEW h
      PROVE  h \in S(p) <=>
               \/ w[p] = x /\ h = <<p, "cwd", 0>>
               \/ c[p].cur = x /\ h = <<p, "cur", 0>>
               \/ c[p].other = x /\ h = <<p, "other", 0>>
               \/ \E k \in {1, 2, 3} : /\ k \in DOMAIN t[p] /\ t[p][k] \in {Put(x), Drop(x)}
                                       /\ h = <<p, "todo", k>>
  BY DEF Share, Flag, Hit, StepHit
<1>2. ASSUME NEW p \in Procs, NEW h \in S(p) PROVE h \in W \cup C \cup O \cup T
  <2>1. CASE w[p] = x /\ h = <<p, "cwd", 0>>
    BY <2>1, Zenon
  <2>2. CASE c[p].cur = x /\ h = <<p, "cur", 0>>
    BY <2>2, Zenon
  <2>3. CASE c[p].other = x /\ h = <<p, "other", 0>>
    BY <2>3, Zenon
  <2>4. CASE \E k \in {1, 2, 3} : /\ k \in DOMAIN t[p] /\ t[p][k] \in {Put(x), Drop(x)}
                                  /\ h = <<p, "todo", k>>
    <3>1. PICK k \in DOMAIN t[p] : t[p][k] \in {Put(x), Drop(x)} /\ h = <<p, "todo", k>>
      BY <2>4, Zenon
    <3>2. h \in T1(p)
      BY <3>1, Zenon
    <3> HIDE DEF T1
    <3>3. h \in T
      BY <3>2, Zenon
    <3> HIDE DEF W, C, O, T
    <3> QED
      BY <3>3
  <2> QED
    BY <1>1, <1>2, <2>1, <2>2, <2>3, <2>4, Zenon
<1>3. ASSUME NEW h \in W \cup C \cup O \cup T PROVE \E p \in Procs : h \in S(p)
  <2>1. CASE h \in W
    BY <1>1, <2>1, Zenon
  <2>2. CASE h \in C
    BY <1>1, <2>2, Zenon
  <2>3. CASE h \in O
    BY <1>1, <2>3, Zenon
  <2>4. CASE h \in T
    <3>1. PICK p \in Procs : h \in T1(p)
      BY <2>4, Zenon
    <3>2. PICK k \in DOMAIN t[p] : t[p][k] \in {Put(x), Drop(x)} /\ h = <<p, "todo", k>>
      BY <3>1, Zenon
    <3>3. k \in {1, 2, 3}
      BY <3>2
    <3>4. \E j \in {1, 2, 3} : /\ j \in DOMAIN t[p] /\ t[p][j] \in {Put(x), Drop(x)}
                               /\ h = <<p, "todo", j>>
      BY <3>2, <3>3
    <3> HIDE DEF S
    <3> QED
      BY <1>1, <3>4
  <2> QED
    BY <1>3, <2>1, <2>2, <2>3, <2>4, Zenon
<1>4. SharesOf(Procs, w, c, t, x) = UNION {S(p) : p \in Procs}
  BY Zenon DEF SharesOf
<1> HIDE DEF S
<1> HIDE DEF W, C, O, T
<1>5. UNION {S(p) : p \in Procs} = W \cup C \cup O \cup T
  <2>1. ASSUME NEW h \in UNION {S(p) : p \in Procs} PROVE h \in W \cup C \cup O \cup T
    BY <1>2, Zenon
  <2>2. ASSUME NEW h \in W \cup C \cup O \cup T PROVE h \in UNION {S(p) : p \in Procs}
    BY <1>3, Zenon
  <2> QED
    BY <2>1, <2>2, Zenon
<1> QED
  BY <1>0, <1>4, <1>5, Zenon

LEMMA SharesFinite ==
  ASSUME NEW w, NEW c, NEW t, NEW x, NEW P \in SUBSET Procs
  PROVE  IsFiniteSet(SharesOf(P, w, c, t, x))
<1> DEFINE f == [p \in P |-> Share(p, w[p], c[p], t[p], x)]
<1>1. IsFiniteSet(P)
  BY InodesFinite, FS_Subset
<1>2. IsFiniteSet({f[p] : p \in P})
  BY <1>1, ValuesFinite
<1>3. \A p \in P : IsFiniteSet(f[p])
  BY ShareCounted
<1>4. SharesOf(P, w, c, t, x) = UNION {f[p] : p \in P}
  BY Zenon DEF SharesOf
<1> HIDE DEF f
<1> QED
  BY <1>2, <1>3, <1>4, FS_UNION

LEMMA TableFinite ==
  ASSUME NEW tab, NEW x
  PROVE  IsFiniteSet(TableShare(tab, x))
<1> DEFINE S == {g \in Files : tab[g].ip = x}
           f == [g \in S |-> <<Nobody, "file", g>>]
<1>1. IsFiniteSet(S)
  BY InodesFinite, FS_Subset
<1>2. IsFiniteSet({f[g] : g \in S})
  BY <1>1, ValuesFinite, ZenonT(60)
<1>3. TableShare(tab, x) = {f[g] : g \in S}
  BY Zenon DEF TableShare
<1> QED
  BY <1>2, <1>3

(* The references of one process, of the others, and of the files.         *)
LEMMA HoldersCounted ==
  ASSUME NEW w, NEW c, NEW t, NEW tab, NEW x, NEW p \in Procs,
         \A q \in Procs : DOMAIN t[q] \subseteq {1, 2, 3}
  PROVE  /\ IsFiniteSet(HoldersAt(w, c, t, tab, x))
         /\ Cardinality(HoldersAt(w, c, t, tab, x)) =
              Cardinality(SharesOf(Procs \ {p}, w, c, t, x)) + Count(w[p], c[p], t[p], x)
                + Cardinality(TableShare(tab, x))
         /\ Cardinality(SharesOf(Procs \ {p}, w, c, t, x)) \in Nat
         /\ Cardinality(TableShare(tab, x)) \in Nat
<1> DEFINE M == Share(p, w[p], c[p], t[p], x)
           R == SharesOf(Procs \ {p}, w, c, t, x)
           F == TableShare(tab, x)
<1>1. IsFiniteSet(R) /\ IsFiniteSet(F) /\ IsFiniteSet(M) /\ Cardinality(M) = Count(w[p], c[p], t[p], x)
  BY SharesFinite, TableFinite, ShareCounted
<1>2. SharesOf(Procs, w, c, t, x) = R \cup M
  BY Zenon DEF SharesOf
<1>3. \A q, h : h \in Share(q, w[q], c[q], t[q], x) => h[1] = q
  BY DEF Share, Flag
<1>4. \A h \in R : h[1] \in Procs \ {p}
  BY <1>3, Zenon DEF SharesOf
<1>5. \A h \in M : h[1] = p
  BY <1>3
<1>6. \A h \in F : h[1] = Nobody
  BY DEF TableShare
<1>7. R \cap M = {} /\ (R \cup M) \cap F = {}
  <2>1. Nobody \notin Procs
    BY FSAssumption DEF FSAssumption
  <2>2. \A h \in R : h \notin M /\ h \notin F
    BY <1>4, <1>5, <1>6, <2>1, Zenon
  <2>3. \A h \in M : h \notin F
    BY <1>5, <1>6, <2>1, Zenon
  <2> HIDE DEF R, M, F
  <2>4. R \cap M = {}
    BY <2>2
  <2>5. (R \cup M) \cap F = {}
    BY <2>2, <2>3
  <2> QED
    BY <2>4, <2>5
<1>8. HoldersAt(w, c, t, tab, x) = (R \cup M) \cup F
  <2>1. HoldersAt(w, c, t, tab, x) = SharesOf(Procs, w, c, t, x) \cup F
    BY HoldersByProcess
  <2> QED
    BY <1>2, <2>1
<1> HIDE DEF M, R, F
<1>9. IsFiniteSet(R \cup M) /\ Cardinality(R \cup M) = Cardinality(R) + Cardinality(M)
  BY <1>1, <1>7, ApartCounted
<1>10. IsFiniteSet((R \cup M) \cup F) /\ Cardinality((R \cup M) \cup F) = Cardinality(R \cup M) + Cardinality(F)
  BY <1>1, <1>7, <1>9, ApartCounted
<1> QED
  BY <1>1, <1>8, <1>9, <1>10, FS_CardinalityType DEF M, R, F
-----------------------------------------------------------------------------
(* The inductive invariant *)

CallRecords ==
  [at : {"idle", "walk", "parent", "made", "old", "undo", "child", "dec"},
   cur : Inodes \cup {0}, other : Inodes \cup {0},
   kind : Kinds \cup {"none"}, name : Names \cup {".."}]

NodeTypes == {"free", "file", "dir", "dev"}

DiskTypes ==
  /\ dinode \in [Inodes -> [type : NodeTypes, nlink : Int]]
  /\ inode \in [Inodes -> [type : NodeTypes \cup {"none"}, nlink : Int]]
  /\ entry \in [Inodes -> [Names \cup {".."} -> Inodes \cup {0}]]

RefTypes ==
  /\ ref \in [Inodes -> Int]
  /\ lock \in [Inodes -> Procs \cup {Nobody}]
  /\ ftable \in [Files -> [ref : Int, ip : Inodes \cup {0}]]
  /\ cwd \in [Procs -> Inodes \cup {0}]
  /\ ofile \in [Procs -> Files \cup {0}]

CallTypes ==
  /\ call \in [Procs -> CallRecords]
  /\ todo \in [Procs -> AnySteps]

(* What a call at a place has, and may have to do first.                   *)
Placed(c, t) ==
  \/ c = Idle /\ t \in AnySteps
  \/ c.at = "walk" /\ c.cur # 0 /\ t \in AtMostOne
  \/ c.at = "parent" /\ c.cur # 0 /\ t = NoSteps
  \/ c.at \in {"made", "old", "dec"} /\ c.cur = 0 /\ c.other # 0 /\ t \in AtMostOne
  \/ c.at = "undo" /\ c.cur = 0 /\ c.other # 0 /\ t \in AtMostOne \cup Release
  \/ c.at = "child" /\ c.cur # 0 /\ c.other # 0 /\ c.name \in Names /\ t = NoSteps

(* A process that has exited is in no call.                                *)
CallsPlaced ==
  \A p \in Procs : /\ Placed(call[p], todo[p])
                   /\ call[p].at # "idle" => cwd[p] # 0

EntryRefs == \A i \in Inodes : ref[i] = Cardinality(Holders(i))

FileRefs == \A f \in Files : ftable[f].ref = Cardinality({p \in Procs : ofile[p] = f})

FilesUsed == \A f \in Files : ftable[f].ref = 0 <=> ftable[f].ip = 0

LEMMA Numbers == 0 \notin Inodes /\ 0 \notin Files /\ ROOTINO \in Inodes
BY FSAssumption DEF FSAssumption, Inodes, Files, ROOTINO

LEMMA StepsShort ==
  ASSUME NEW t \in AnySteps
  PROVE  DOMAIN t \subseteq {1, 2, 3}
<1>1. CASE t = NoSteps
  BY <1>1 DEF NoSteps
<1>2. CASE t \in OnePut
  BY <1>2 DEF OnePut
<1>3. CASE t \in TwoPuts
  BY <1>3 DEF TwoPuts
<1>4. CASE t \in Release
  BY <1>4 DEF Release
<1> QED
  BY <1>1, <1>2, <1>3, <1>4 DEF AnySteps, AtMostOne

LEMMA PlacedSteps ==
  ASSUME NEW c, NEW t, Placed(c, t)
  PROVE  t \in AnySteps
BY DEF Placed, AnySteps, AtMostOne

(* What a process does leaves the calls of the others alone.               *)
LEMMA GotoStep ==
  ASSUME CallTypes, CallsPlaced, NEW p \in Procs, NEW c \in CallRecords, NEW s,
         Goto(p, c, s), Placed(c, s), c.at # "idle" => cwd'[p] # 0,
         \A q \in Procs \ {p} : cwd'[q] = cwd[q]
  PROVE  /\ CallTypes' /\ CallsPlaced'
         /\ call'[p] = c /\ todo'[p] = s
         /\ \A q \in Procs \ {p} : call'[q] = call[q] /\ todo'[q] = todo[q]
<1>1. s \in AnySteps
  BY PlacedSteps
<1>2. /\ call'[p] = c /\ todo'[p] = s
      /\ \A q \in Procs \ {p} : call'[q] = call[q] /\ todo'[q] = todo[q]
  BY DEF Goto, CallTypes
<1>3. CallTypes'
  BY <1>1 DEF Goto, CallTypes
<1>4. CallsPlaced'
  BY <1>2 DEF CallsPlaced
<1> QED
  BY <1>2, <1>3, <1>4

MovesOnly(p, w1, c1, t1, w2, c2, t2) ==
  /\ \A q \in Procs : t1[q] \in AnySteps /\ t2[q] \in AnySteps
  /\ \A q \in Procs \ {p} : w2[q] = w1[q] /\ c2[q] = c1[q] /\ t2[q] = t1[q]

(* ... and their references; so ref[x] moves with those of the process and *)
(* of the file table.                                                      *)
LEMMA RefsMove ==
  ASSUME NEW w1, NEW c1, NEW t1, NEW tab1, NEW w2, NEW c2, NEW t2, NEW tab2,
         NEW p \in Procs, NEW x,
         MovesOnly(p, w1, c1, t1, w2, c2, t2)
  PROVE  Cardinality(HoldersAt(w2, c2, t2, tab2, x)) =
           Cardinality(HoldersAt(w1, c1, t1, tab1, x))
             + (Count(w2[p], c2[p], t2[p], x) - Count(w1[p], c1[p], t1[p], x))
             + (Cardinality(TableShare(tab2, x)) - Cardinality(TableShare(tab1, x)))
<1>1. \A q \in Procs : DOMAIN t1[q] \subseteq {1, 2, 3} /\ DOMAIN t2[q] \subseteq {1, 2, 3}
  BY StepsShort DEF MovesOnly
<1>2. SharesOf(Procs \ {p}, w2, c2, t2, x) = SharesOf(Procs \ {p}, w1, c1, t1, x)
  <2>1. \A q \in Procs \ {p} : Share(q, w2[q], c2[q], t2[q], x) = Share(q, w1[q], c1[q], t1[q], x)
    BY DEF MovesOnly
  <2> QED
    BY <2>1, Zenon DEF SharesOf
<1>3. Cardinality(HoldersAt(w1, c1, t1, tab1, x)) =
        Cardinality(SharesOf(Procs \ {p}, w1, c1, t1, x)) + Count(w1[p], c1[p], t1[p], x)
          + Cardinality(TableShare(tab1, x))
  BY <1>1, HoldersCounted
<1>4. Cardinality(HoldersAt(w2, c2, t2, tab2, x)) =
        Cardinality(SharesOf(Procs \ {p}, w2, c2, t2, x)) + Count(w2[p], c2[p], t2[p], x)
          + Cardinality(TableShare(tab2, x))
  BY <1>1, HoldersCounted
<1>5. /\ Cardinality(SharesOf(Procs \ {p}, w1, c1, t1, x)) \in Nat
      /\ Cardinality(TableShare(tab1, x)) \in Nat /\ Cardinality(TableShare(tab2, x)) \in Nat
  BY <1>1, HoldersCounted
<1>6. Count(w1[p], c1[p], t1[p], x) \in Nat /\ Count(w2[p], c2[p], t2[p], x) \in Nat
  BY ShareCounted
<1> QED
  BY <1>2, <1>3, <1>4, <1>5, <1>6

LEMMA HoldersNow ==
  /\ \A x : Holders(x) = HoldersAt(cwd, call, todo, ftable, x)
  /\ \A x : Holders(x)' = HoldersAt(cwd', call', todo', ftable', x)
BY DEF Holders, HoldersAt

LEMMA Balance ==
  ASSUME CallTypes, CallTypes', EntryRefs, NEW p \in Procs,
         \A q \in Procs \ {p} : cwd'[q] = cwd[q] /\ call'[q] = call[q] /\ todo'[q] = todo[q],
         \A x \in Inodes :
           ref'[x] = ref[x]
             + (Count(cwd'[p], call'[p], todo'[p], x) - Count(cwd[p], call[p], todo[p], x))
             + (Cardinality(TableShare(ftable', x)) - Cardinality(TableShare(ftable, x)))
  PROVE  EntryRefs'
<1> SUFFICES ASSUME NEW x \in Inodes
             PROVE  ref'[x] = Cardinality(HoldersAt(cwd', call', todo', ftable', x))
  BY HoldersNow DEF EntryRefs
<1>1. ref[x] = Cardinality(HoldersAt(cwd, call, todo, ftable, x))
  BY HoldersNow DEF EntryRefs
<1>2. \A q \in Procs : todo[q] \in AnySteps /\ todo'[q] \in AnySteps
  BY DEF CallTypes
<1>3. Cardinality(HoldersAt(cwd', call', todo', ftable', x)) =
        Cardinality(HoldersAt(cwd, call, todo, ftable, x))
          + (Count(cwd'[p], call'[p], todo'[p], x) - Count(cwd[p], call[p], todo[p], x))
          + (Cardinality(TableShare(ftable', x)) - Cardinality(TableShare(ftable, x)))
  <2>1. MovesOnly(p, cwd, call, todo, cwd', call', todo')
    BY <1>2 DEF MovesOnly
  <2> QED
    BY <2>1, RefsMove
<1> QED
  BY <1>1, <1>3

(* A step that goes on with call c, and changes neither its directory nor  *)
(* the file table.                                                         *)
LEMMA GotoBalance ==
  ASSUME CallTypes, CallsPlaced, EntryRefs, RefTypes, NEW p \in Procs, NEW c \in CallRecords, NEW s,
         Goto(p, c, s), Placed(c, s), c.at # "idle" => cwd[p] # 0, todo[p] = NoSteps,
         cwd' = cwd, ftable' = ftable,
         \A x \in Inodes :
           ref'[x] = ref[x] + (Hit(c.cur, x) + Hit(c.other, x) + Steps(s, x))
                            - (Hit(call[p].cur, x) + Hit(call[p].other, x))
  PROVE  CallTypes' /\ CallsPlaced' /\ EntryRefs'
<1>1. /\ CallTypes' /\ CallsPlaced' /\ call'[p] = c /\ todo'[p] = s
      /\ \A q \in Procs \ {p} : call'[q] = call[q] /\ todo'[q] = todo[q]
  BY GotoStep
<1>2. ASSUME NEW x \in Inodes
      PROVE  ref'[x] = ref[x]
               + (Count(cwd'[p], call'[p], todo'[p], x) - Count(cwd[p], call[p], todo[p], x))
               + (Cardinality(TableShare(ftable', x)) - Cardinality(TableShare(ftable, x)))
  <2>1. Count(cwd[p], call[p], todo[p], x) = Hit(cwd[p], x) + Hit(call[p].cur, x) + Hit(call[p].other, x) + 0
    BY StepsOne DEF Count
  <2>2. Count(cwd'[p], call'[p], todo'[p], x) = Hit(cwd[p], x) + Hit(c.cur, x) + Hit(c.other, x) + Steps(s, x)
    BY <1>1 DEF Count
  <2>3. \A a : Hit(a, x) \in Int
    BY DEF Hit
  <2>4. Steps(s, x) \in Int
    BY DEF Steps, StepHit
  <2>5. ref[x] \in Int
    BY DEF RefTypes
  <2>6. Cardinality(TableShare(ftable', x)) - Cardinality(TableShare(ftable, x)) = 0
    BY TableFinite, FS_CardinalityType
  <2> QED
    BY <2>1, <2>2, <2>3, <2>4, <2>5, <2>6
<1> QED
  BY <1>1, <1>2, Balance

LEMMA HitInt == ASSUME NEW a, NEW x PROVE Hit(a, x) \in Int
BY DEF Hit

LEMMA HitNone == ASSUME NEW x \in Inodes PROVE Hit(0, x) = 0
BY Numbers DEF Hit

LEMMA Referred ==
  ASSUME RefTypes, NEW i \in Inodes, Refer(i)
  PROVE  /\ ref' \in [Inodes -> Int]
         /\ \A x \in Inodes : ref'[x] = ref[x] + Hit(i, x)
BY DEF RefTypes, Refer, Hit
-----------------------------------------------------------------------------
(* The calls of every action that goes on with one. *)

CallInv == CallTypes /\ CallsPlaced /\ RefTypes /\ EntryRefs

(* What a process has at a place of its call.                              *)
LEMMA AtPlace ==
  ASSUME CallTypes, CallsPlaced, NEW p \in Procs, NEW a, At(p, a)
  PROVE  /\ todo[p] = NoSteps /\ call[p].at = a /\ call[p] \in CallRecords
         /\ a = "idle" => call[p] = Idle
         /\ a # "idle" => cwd[p] # 0
         /\ a \in {"walk", "parent", "child"} => call[p].cur \in Inodes
         /\ a \in {"made", "old", "dec", "undo"} => call[p].cur = 0
         /\ a \in {"made", "old", "dec", "undo", "child"} => call[p].other \in Inodes
         /\ a = "child" => call[p].name \in Names
<1>1. /\ todo[p] = NoSteps /\ call[p].at = a /\ call[p] \in CallRecords
      /\ Placed(call[p], todo[p]) /\ (a # "idle" => cwd[p] # 0)
  BY DEF At, CallTypes, CallsPlaced, NoSteps
<1>2. Idle.at = "idle"
  BY DEF Idle
<1> QED
  BY <1>1, <1>2 DEF Placed, CallRecords

LEMMA MinIn ==
  ASSUME NEW S \in SUBSET Nat, S # {}
  PROVE  Min(S) \in S
<1>1. PICK m \in S : \A k \in S : <<k, m>> \notin OpToRel(<, Nat)
  BY WFMin, NatLessThanWellFounded, Zenon
<1>2. \A k \in S : ~(k < m)
  BY <1>1, Zenon DEF OpToRel
<1>3. \A k \in S : m =< k
  BY <1>2
<1> QED
  BY <1>3 DEF Min

LEMMA BeginCalls ==
  ASSUME CallInv, DiskTypes, NEW p \in Procs, NEW i \in Starts(p), Begin(p, i)
  PROVE  CallTypes' /\ CallsPlaced' /\ EntryRefs'
<1> DEFINE c == [Idle EXCEPT !.at = "walk", !.cur = i]
           s == NoSteps
<1>1. At(p, "idle")
  BY DEF Begin, Ready
<1>2. /\ todo[p] = NoSteps /\ call[p].at = "idle" /\ call[p] \in CallRecords
      /\ call[p] = Idle /\ cwd[p] # 0
  BY <1>1, AtPlace DEF CallInv, Begin, Ready
<1>3. i \in Inodes
  BY <1>2, Numbers DEF Begin, CallInv, RefTypes, Starts, Ready
<1>4. /\ c \in CallRecords /\ c.at = "walk"
      /\ c.cur = i /\ c.other = 0
  BY <1>2, <1>3 DEF Idle, CallRecords
<1>5. Placed(c, s)
  BY <1>2, <1>3, <1>4, Numbers DEF Placed, AtMostOne, AnySteps
<1>6. Goto(p, c, s) /\ cwd' = cwd /\ ftable' = ftable /\ Refer(i)
  BY DEF Begin, procvars, NoSteps
<1>7. ASSUME NEW x \in Inodes
      PROVE  ref'[x] = ref[x] + (Hit(c.cur, x) + Hit(c.other, x) + Steps(s, x))
                              - (Hit(call[p].cur, x) + Hit(call[p].other, x))
  <2>1. ref'[x] = ref[x] + Hit(i, x) /\ ref[x] \in Int
    BY <1>2, <1>3, <1>6, Referred DEF CallInv, RefTypes
  <2>2. Steps(s, x) = 0
    BY StepsOne
  <2>3. /\ Hit(call[p].cur, x) \in Int /\ Hit(call[p].other, x) \in Int
        /\ Hit(i, x) \in Int
        /\ Hit(0, x) = 0
    BY HitInt, HitNone
  <2> HIDE DEF c, s
  <2>4. call[p].cur = 0 /\ call[p].other = 0
    BY <1>2 DEF Idle
  <2> QED
    BY <1>2, <1>3, <1>4, <2>1, <2>2, <2>3, <2>4
<1> HIDE DEF c, s
<1> QED
  BY <1>2, <1>3, <1>4, <1>5, <1>6, <1>7, GotoBalance DEF CallInv

LEMMA WalkOnCalls ==
  ASSUME CallInv, DiskTypes, NEW p \in Procs, NEW n \in Elements, WalkOn(p, n)
  PROVE  CallTypes' /\ CallsPlaced' /\ EntryRefs'
<1> DEFINE c == [call[p] EXCEPT !.cur = entry[call[p].cur][n]]
           s == <<Put(call[p].cur)>>
<1>1. At(p, "walk")
  BY DEF WalkOn
<1>2. /\ todo[p] = NoSteps /\ call[p].at = "walk" /\ call[p] \in CallRecords
      /\ cwd[p] # 0 /\ call[p].cur \in Inodes
  BY <1>1, AtPlace DEF CallInv
<1>3. entry[call[p].cur][n] \in Inodes
  BY <1>2, FSAssumption DEF WalkOn, DiskTypes, FSAssumption
<1>4. /\ c \in CallRecords /\ c.at = "walk"
      /\ c.cur = entry[call[p].cur][n] /\ c.other = call[p].other
  BY <1>2, <1>3 DEF Idle, CallRecords
<1>5. s \in OnePut
  BY <1>2, <1>3 DEF OnePut
<1>6. Placed(c, s)
  BY <1>2, <1>3, <1>4, <1>5, Numbers DEF Placed, AtMostOne, AnySteps
<1>7. Goto(p, c, s) /\ cwd' = cwd /\ ftable' = ftable /\ Refer(entry[call[p].cur][n])
  BY DEF WalkOn, procvars, NoSteps
<1>8. ASSUME NEW x \in Inodes
      PROVE  ref'[x] = ref[x] + (Hit(c.cur, x) + Hit(c.other, x) + Steps(s, x))
                              - (Hit(call[p].cur, x) + Hit(call[p].other, x))
  <2>1. ref'[x] = ref[x] + Hit(entry[call[p].cur][n], x) /\ ref[x] \in Int
    BY <1>2, <1>3, <1>7, Referred DEF CallInv, RefTypes
  <2>2. Steps(s, x) = Hit(call[p].cur, x)
    BY StepsOne
  <2>3. /\ Hit(call[p].cur, x) \in Int /\ Hit(call[p].other, x) \in Int
        /\ Hit(entry[call[p].cur][n], x) \in Int
        /\ Hit(0, x) = 0
    BY HitInt, HitNone
  <2> HIDE DEF c, s
  <2> QED
    BY <1>2, <1>3, <1>4, <2>1, <2>2, <2>3
<1> HIDE DEF c, s
<1> QED
  BY <1>2, <1>3, <1>4, <1>6, <1>7, <1>8, GotoBalance DEF CallInv

LEMMA WalkStopCalls ==
  ASSUME CallInv, DiskTypes, NEW p \in Procs, WalkStop(p)
  PROVE  CallTypes' /\ CallsPlaced' /\ EntryRefs'
<1> DEFINE c == [call[p] EXCEPT !.at = "parent"]
           s == NoSteps
<1>1. At(p, "walk")
  BY DEF WalkStop
<1>2. /\ todo[p] = NoSteps /\ call[p].at = "walk" /\ call[p] \in CallRecords
      /\ cwd[p] # 0 /\ call[p].cur \in Inodes
  BY <1>1, AtPlace DEF CallInv
<1>3. /\ c \in CallRecords /\ c.at = "parent"
      /\ c.cur = call[p].cur /\ c.other = call[p].other
  BY <1>2 DEF Idle, CallRecords
<1>4. Placed(c, s)
  BY <1>2, <1>3, Numbers DEF Placed, AtMostOne, AnySteps
<1>5. Goto(p, c, s) /\ cwd' = cwd /\ ftable' = ftable /\ ref' = ref
  BY DEF WalkStop, procvars, NoSteps
<1>6. ASSUME NEW x \in Inodes
      PROVE  ref'[x] = ref[x] + (Hit(c.cur, x) + Hit(c.other, x) + Steps(s, x))
                              - (Hit(call[p].cur, x) + Hit(call[p].other, x))
  <2>1. ref'[x] = ref[x] /\ ref[x] \in Int
    BY <1>5 DEF CallInv, RefTypes
  <2>2. Steps(s, x) = 0
    BY StepsOne
  <2>3. /\ Hit(call[p].cur, x) \in Int /\ Hit(call[p].other, x) \in Int
        /\ Hit(0, x) = 0
    BY HitInt, HitNone
  <2> HIDE DEF c, s
  <2> QED
    BY <1>2, <1>3, <2>1, <2>2, <2>3
<1> HIDE DEF c, s
<1> QED
  BY <1>2, <1>3, <1>4, <1>5, <1>6, GotoBalance DEF CallInv

LEMMA WalkFailCalls ==
  ASSUME CallInv, DiskTypes, NEW p \in Procs, NEW n \in Elements, WalkFail(p, n)
  PROVE  CallTypes' /\ CallsPlaced' /\ EntryRefs'
<1> DEFINE c == Failed(call[p])
           s == <<Put(call[p].cur)>>
<1>1. At(p, "walk")
  BY DEF WalkFail
<1>2. /\ todo[p] = NoSteps /\ call[p].at = "walk" /\ call[p] \in CallRecords
      /\ cwd[p] # 0 /\ call[p].cur \in Inodes
  BY <1>1, AtPlace DEF CallInv
<1>3. /\ c \in CallRecords /\ ((c = Idle /\ c.at = "idle") \/ (c.at = "undo" /\ c.other # 0))
      /\ c.cur = 0 /\ c.other = call[p].other
  BY <1>2, Numbers DEF Idle, CallRecords, Failed
<1>4. s \in OnePut
  BY <1>2 DEF OnePut
<1>5. Placed(c, s)
  BY <1>2, <1>3, <1>4, Numbers DEF Placed, AtMostOne, AnySteps
<1>6. Goto(p, c, s) /\ cwd' = cwd /\ ftable' = ftable /\ ref' = ref
  BY DEF WalkFail, procvars, NoSteps
<1>7. ASSUME NEW x \in Inodes
      PROVE  ref'[x] = ref[x] + (Hit(c.cur, x) + Hit(c.other, x) + Steps(s, x))
                              - (Hit(call[p].cur, x) + Hit(call[p].other, x))
  <2>1. ref'[x] = ref[x] /\ ref[x] \in Int
    BY <1>6 DEF CallInv, RefTypes
  <2>2. Steps(s, x) = Hit(call[p].cur, x)
    BY StepsOne
  <2>3. /\ Hit(call[p].cur, x) \in Int /\ Hit(call[p].other, x) \in Int
        /\ Hit(0, x) = 0
    BY HitInt, HitNone
  <2> HIDE DEF c, s
  <2> QED
    BY <1>2, <1>3, <2>1, <2>2, <2>3
<1> HIDE DEF c, s
<1> QED
  BY <1>2, <1>3, <1>5, <1>6, <1>7, GotoBalance DEF CallInv

LEMMA WrongKindCalls ==
  ASSUME CallInv, DiskTypes, NEW p \in Procs, WrongKind(p)
  PROVE  CallTypes' /\ CallsPlaced' /\ EntryRefs'
<1> DEFINE c == Idle
           s == <<Put(call[p].cur)>>
<1>1. At(p, "walk")
  BY DEF WrongKind
<1>2. /\ todo[p] = NoSteps /\ call[p].at = "walk" /\ call[p] \in CallRecords
      /\ cwd[p] # 0 /\ call[p].cur \in Inodes
  BY <1>1, AtPlace DEF CallInv
<1>3. call[p].other = 0
  BY <1>2 DEF WrongKind, CallRecords
<1>4. /\ c \in CallRecords /\ c.at = "idle" /\ c = Idle
      /\ c.cur = 0 /\ c.other = 0
  BY <1>2, <1>3 DEF Idle, CallRecords
<1>5. s \in OnePut
  BY <1>2, <1>3 DEF OnePut
<1>6. Placed(c, s)
  BY <1>2, <1>3, <1>4, <1>5, Numbers DEF Placed, AtMostOne, AnySteps
<1>7. Goto(p, c, s) /\ cwd' = cwd /\ ftable' = ftable /\ ref' = ref
  BY DEF WrongKind, procvars, NoSteps
<1>8. ASSUME NEW x \in Inodes
      PROVE  ref'[x] = ref[x] + (Hit(c.cur, x) + Hit(c.other, x) + Steps(s, x))
                              - (Hit(call[p].cur, x) + Hit(call[p].other, x))
  <2>1. ref'[x] = ref[x] /\ ref[x] \in Int
    BY <1>7 DEF CallInv, RefTypes
  <2>2. Steps(s, x) = Hit(call[p].cur, x)
    BY StepsOne
  <2>3. /\ Hit(call[p].cur, x) \in Int /\ Hit(call[p].other, x) \in Int
        /\ Hit(0, x) = 0
    BY HitInt, HitNone
  <2> HIDE DEF c, s
  <2> QED
    BY <1>2, <1>3, <1>4, <2>1, <2>2, <2>3, SMTT(30)
<1> HIDE DEF c, s
<1> QED
  BY <1>2, <1>3, <1>4, <1>6, <1>7, <1>8, GotoBalance DEF CallInv

LEMMA CreateNewCalls ==
  ASSUME CallInv, DiskTypes, NEW p \in Procs, NEW k \in Kinds, NEW n \in Names, CreateNew(p, k, n)
  PROVE  CallTypes' /\ CallsPlaced' /\ EntryRefs'
<1> DEFINE c == [Idle EXCEPT !.at = "made", !.kind = k, !.other = Min(FreeInodes)]
           s == <<Put(call[p].cur)>>
<1>1. At(p, "parent")
  BY DEF CreateNew
<1>2. /\ todo[p] = NoSteps /\ call[p].at = "parent" /\ call[p] \in CallRecords
      /\ cwd[p] # 0 /\ call[p].cur \in Inodes
  BY <1>1, AtPlace DEF CallInv
<1>3. Min(FreeInodes) \in Inodes
  <2>1. FreeInodes \in SUBSET Nat /\ FreeInodes # {}
    BY DEF CreateNew, FreeInodes, Inodes
  <2> QED
    BY <2>1, MinIn, SMTT(30) DEF FreeInodes
<1>4. call[p].other = 0
  BY <1>2 DEF CreateNew, CallRecords
<1>5. /\ c \in CallRecords /\ c.at = "made"
      /\ c.cur = 0 /\ c.other = Min(FreeInodes)
  BY <1>2, <1>3, <1>4 DEF Idle, CallRecords
<1>6. s \in OnePut
  BY <1>2, <1>3, <1>4 DEF OnePut
<1>7. Placed(c, s)
  BY <1>2, <1>3, <1>4, <1>5, <1>6, Numbers DEF Placed, AtMostOne, AnySteps
<1>8. Goto(p, c, s) /\ cwd' = cwd /\ ftable' = ftable /\ Refer(Min(FreeInodes))
  BY DEF CreateNew, procvars, NoSteps
<1>9. ASSUME NEW x \in Inodes
      PROVE  ref'[x] = ref[x] + (Hit(c.cur, x) + Hit(c.other, x) + Steps(s, x))
                              - (Hit(call[p].cur, x) + Hit(call[p].other, x))
  <2>1. ref'[x] = ref[x] + Hit(Min(FreeInodes), x) /\ ref[x] \in Int
    BY <1>2, <1>3, <1>4, <1>8, Referred DEF CallInv, RefTypes
  <2>2. Steps(s, x) = Hit(call[p].cur, x)
    BY StepsOne
  <2>3. /\ Hit(call[p].cur, x) \in Int /\ Hit(call[p].other, x) \in Int
        /\ Hit(Min(FreeInodes), x) \in Int
        /\ Hit(0, x) = 0
    BY HitInt, HitNone
  <2> HIDE DEF c, s
  <2> QED
    BY <1>2, <1>3, <1>4, <1>5, <2>1, <2>2, <2>3
<1> HIDE DEF c, s
<1> QED
  BY <1>2, <1>3, <1>4, <1>5, <1>7, <1>8, <1>9, GotoBalance DEF CallInv

LEMMA CreateOldCalls ==
  ASSUME CallInv, DiskTypes, NEW p \in Procs, NEW n \in Names \cup Elements \cup {"."}, CreateOld(p, n)
  PROVE  CallTypes' /\ CallsPlaced' /\ EntryRefs'
<1> DEFINE c == [Idle EXCEPT !.at = "old", !.other = Lookup(call[p].cur, n)]
           s == <<Put(call[p].cur)>>
<1>1. At(p, "parent")
  BY DEF CreateOld
<1>2. /\ todo[p] = NoSteps /\ call[p].at = "parent" /\ call[p] \in CallRecords
      /\ cwd[p] # 0 /\ call[p].cur \in Inodes
  BY <1>1, AtPlace DEF CallInv
<1>3. Lookup(call[p].cur, n) \in Inodes
  BY <1>2, FSAssumption DEF CreateOld, Lookup, DiskTypes, FSAssumption
<1>4. call[p].other = 0
  BY <1>2 DEF CreateOld, CallRecords
<1>5. /\ c \in CallRecords /\ c.at = "old"
      /\ c.cur = 0 /\ c.other = Lookup(call[p].cur, n)
  BY <1>2, <1>3, <1>4 DEF Idle, CallRecords
<1>6. s \in OnePut
  BY <1>2, <1>3, <1>4 DEF OnePut
<1>7. Placed(c, s)
  BY <1>2, <1>3, <1>4, <1>5, <1>6, Numbers DEF Placed, AtMostOne, AnySteps
<1>8. Goto(p, c, s) /\ cwd' = cwd /\ ftable' = ftable /\ Refer(Lookup(call[p].cur, n))
  BY DEF CreateOld, procvars, NoSteps
<1>9. ASSUME NEW x \in Inodes
      PROVE  ref'[x] = ref[x] + (Hit(c.cur, x) + Hit(c.other, x) + Steps(s, x))
                              - (Hit(call[p].cur, x) + Hit(call[p].other, x))
  <2>1. ref'[x] = ref[x] + Hit(Lookup(call[p].cur, n), x) /\ ref[x] \in Int
    BY <1>2, <1>3, <1>4, <1>8, Referred DEF CallInv, RefTypes
  <2>2. Steps(s, x) = Hit(call[p].cur, x)
    BY StepsOne
  <2>3. /\ Hit(call[p].cur, x) \in Int /\ Hit(call[p].other, x) \in Int
        /\ Hit(Lookup(call[p].cur, n), x) \in Int
        /\ Hit(0, x) = 0
    BY HitInt, HitNone
  <2> HIDE DEF c, s
  <2> QED
    BY <1>2, <1>3, <1>4, <1>5, <2>1, <2>2, <2>3
<1> HIDE DEF c, s
<1> QED
  BY <1>2, <1>3, <1>4, <1>5, <1>7, <1>8, <1>9, GotoBalance DEF CallInv

LEMMA LinkOldCalls ==
  ASSUME CallInv, DiskTypes, NEW p \in Procs, NEW i \in Starts(p), LinkOld(p, i)
  PROVE  CallTypes' /\ CallsPlaced' /\ EntryRefs'
<1> DEFINE c == [call[p] EXCEPT !.cur = i, !.other = call[p].cur]
           s == NoSteps
<1>1. At(p, "walk")
  BY DEF LinkOld
<1>2. /\ todo[p] = NoSteps /\ call[p].at = "walk" /\ call[p] \in CallRecords
      /\ cwd[p] # 0 /\ call[p].cur \in Inodes
  BY <1>1, AtPlace DEF CallInv
<1>3. i \in Inodes
  BY <1>2, Numbers DEF LinkOld, CallInv, RefTypes, Starts
<1>4. call[p].other = 0
  BY <1>2 DEF LinkOld, CallRecords
<1>5. /\ c \in CallRecords /\ c.at = "walk"
      /\ c.cur = i /\ c.other = call[p].cur
  BY <1>2, <1>3, <1>4 DEF Idle, CallRecords
<1>6. Placed(c, s)
  BY <1>2, <1>3, <1>4, <1>5, Numbers DEF Placed, AtMostOne, AnySteps
<1>7. Goto(p, c, s) /\ cwd' = cwd /\ ftable' = ftable /\ Refer(i)
  BY DEF LinkOld, procvars, NoSteps
<1>8. ASSUME NEW x \in Inodes
      PROVE  ref'[x] = ref[x] + (Hit(c.cur, x) + Hit(c.other, x) + Steps(s, x))
                              - (Hit(call[p].cur, x) + Hit(call[p].other, x))
  <2>1. ref'[x] = ref[x] + Hit(i, x) /\ ref[x] \in Int
    BY <1>2, <1>3, <1>4, <1>7, Referred DEF CallInv, RefTypes
  <2>2. Steps(s, x) = 0
    BY StepsOne
  <2>3. /\ Hit(call[p].cur, x) \in Int /\ Hit(call[p].other, x) \in Int
        /\ Hit(i, x) \in Int
        /\ Hit(0, x) = 0
    BY HitInt, HitNone
  <2> HIDE DEF c, s
  <2> QED
    BY <1>2, <1>3, <1>4, <1>5, <2>1, <2>2, <2>3
<1> HIDE DEF c, s
<1> QED
  BY <1>2, <1>3, <1>4, <1>5, <1>6, <1>7, <1>8, GotoBalance DEF CallInv

LEMMA LinkNewCalls ==
  ASSUME CallInv, DiskTypes, NEW p \in Procs, NEW n \in Names, LinkNew(p, n)
  PROVE  CallTypes' /\ CallsPlaced' /\ EntryRefs'
<1> DEFINE c == Idle
           s == <<Put(call[p].cur), Put(call[p].other)>>
<1>1. At(p, "parent")
  BY DEF LinkNew
<1>2. /\ todo[p] = NoSteps /\ call[p].at = "parent" /\ call[p] \in CallRecords
      /\ cwd[p] # 0 /\ call[p].cur \in Inodes
  BY <1>1, AtPlace DEF CallInv
<1>3. call[p].other \in Inodes
  BY <1>2 DEF LinkNew, CallRecords
<1>4. /\ c \in CallRecords /\ c.at = "idle" /\ c = Idle
      /\ c.cur = 0 /\ c.other = 0
  BY <1>2, <1>3 DEF Idle, CallRecords
<1>5. s \in TwoPuts
  BY <1>2, <1>3 DEF TwoPuts
<1>6. Placed(c, s)
  BY <1>2, <1>3, <1>4, <1>5, Numbers DEF Placed, AtMostOne, AnySteps
<1>7. Goto(p, c, s) /\ cwd' = cwd /\ ftable' = ftable /\ ref' = ref
  BY DEF LinkNew, procvars, NoSteps
<1>8. ASSUME NEW x \in Inodes
      PROVE  ref'[x] = ref[x] + (Hit(c.cur, x) + Hit(c.other, x) + Steps(s, x))
                              - (Hit(call[p].cur, x) + Hit(call[p].other, x))
  <2>1. ref'[x] = ref[x] /\ ref[x] \in Int
    BY <1>7 DEF CallInv, RefTypes
  <2>2. Steps(s, x) = Hit(call[p].cur, x) + Hit(call[p].other, x)
    BY StepsTwo
  <2>3. /\ Hit(call[p].cur, x) \in Int /\ Hit(call[p].other, x) \in Int
        /\ Hit(0, x) = 0
    BY HitInt, HitNone
  <2> HIDE DEF c, s
  <2> QED
    BY <1>2, <1>3, <1>4, <2>1, <2>2, <2>3
<1> HIDE DEF c, s
<1> QED
  BY <1>2, <1>3, <1>4, <1>6, <1>7, <1>8, GotoBalance DEF CallInv

LEMMA LinkClashCalls ==
  ASSUME CallInv, DiskTypes, NEW p \in Procs, NEW n \in Names \cup {".", ".."}, LinkClash(p, n)
  PROVE  CallTypes' /\ CallsPlaced' /\ EntryRefs'
<1> DEFINE c == Failed(call[p])
           s == <<Put(Lookup(call[p].cur, n)), Unlock(call[p].cur), Put(call[p].cur)>>
<1>1. At(p, "parent")
  BY DEF LinkClash
<1>2. /\ todo[p] = NoSteps /\ call[p].at = "parent" /\ call[p] \in CallRecords
      /\ cwd[p] # 0 /\ call[p].cur \in Inodes
  BY <1>1, AtPlace DEF CallInv
<1>3. Lookup(call[p].cur, n) \in Inodes
  BY <1>2, FSAssumption DEF LinkClash, Lookup, DiskTypes, FSAssumption
<1>4. call[p].other \in Inodes
  BY <1>2 DEF LinkClash, CallRecords
<1>5. /\ c \in CallRecords /\ c.at = "undo"
      /\ c.cur = 0 /\ c.other = call[p].other
  BY <1>2, <1>3, <1>4, Numbers DEF Idle, CallRecords, Failed
<1>6. s \in Release
  BY <1>2, <1>3, <1>4 DEF Release
<1>7. Placed(c, s)
  BY <1>2, <1>3, <1>4, <1>5, <1>6, Numbers DEF Placed, AtMostOne, AnySteps
<1>8. Goto(p, c, s) /\ cwd' = cwd /\ ftable' = ftable /\ Refer(Lookup(call[p].cur, n))
  BY DEF LinkClash, procvars, NoSteps
<1>9. ASSUME NEW x \in Inodes
      PROVE  ref'[x] = ref[x] + (Hit(c.cur, x) + Hit(c.other, x) + Steps(s, x))
                              - (Hit(call[p].cur, x) + Hit(call[p].other, x))
  <2>1. ref'[x] = ref[x] + Hit(Lookup(call[p].cur, n), x) /\ ref[x] \in Int
    BY <1>2, <1>3, <1>4, <1>8, Referred DEF CallInv, RefTypes
  <2>2. Steps(s, x) = Hit(Lookup(call[p].cur, n), x) + Hit(call[p].cur, x)
    BY StepsThree
  <2>3. /\ Hit(call[p].cur, x) \in Int /\ Hit(call[p].other, x) \in Int
        /\ Hit(Lookup(call[p].cur, n), x) \in Int
        /\ Hit(0, x) = 0
    BY HitInt, HitNone
  <2> HIDE DEF c, s
  <2> QED
    BY <1>2, <1>3, <1>4, <1>5, <2>1, <2>2, <2>3
<1> HIDE DEF c, s
<1> QED
  BY <1>2, <1>3, <1>4, <1>5, <1>7, <1>8, <1>9, GotoBalance DEF CallInv

LEMMA LinkUndoCalls ==
  ASSUME CallInv, DiskTypes, NEW p \in Procs, LinkUndo(p)
  PROVE  CallTypes' /\ CallsPlaced' /\ EntryRefs'
<1> DEFINE c == Idle
           s == <<Put(call[p].other)>>
<1>1. At(p, "undo")
  BY DEF LinkUndo
<1>2. /\ todo[p] = NoSteps /\ call[p].at = "undo" /\ call[p] \in CallRecords
      /\ cwd[p] # 0 /\ call[p].cur = 0 /\ call[p].other \in Inodes
  BY <1>1, AtPlace DEF CallInv
<1>3. /\ c \in CallRecords /\ c.at = "idle" /\ c = Idle
      /\ c.cur = 0 /\ c.other = 0
  BY <1>2 DEF Idle, CallRecords
<1>4. s \in OnePut
  BY <1>2 DEF OnePut
<1>5. Placed(c, s)
  BY <1>2, <1>3, <1>4, Numbers DEF Placed, AtMostOne, AnySteps
<1>6. Goto(p, c, s) /\ cwd' = cwd /\ ftable' = ftable /\ ref' = ref
  BY DEF LinkUndo, procvars, NoSteps
<1>7. ASSUME NEW x \in Inodes
      PROVE  ref'[x] = ref[x] + (Hit(c.cur, x) + Hit(c.other, x) + Steps(s, x))
                              - (Hit(call[p].cur, x) + Hit(call[p].other, x))
  <2>1. ref'[x] = ref[x] /\ ref[x] \in Int
    BY <1>6 DEF CallInv, RefTypes
  <2>2. Steps(s, x) = Hit(call[p].other, x)
    BY StepsOne
  <2>3. /\ Hit(call[p].cur, x) \in Int /\ Hit(call[p].other, x) \in Int
        /\ Hit(0, x) = 0
    BY HitInt, HitNone
  <2> HIDE DEF c, s
  <2> QED
    BY <1>2, <1>3, <2>1, <2>2, <2>3, SMTT(30)
<1> HIDE DEF c, s
<1> QED
  BY <1>2, <1>3, <1>5, <1>6, <1>7, GotoBalance DEF CallInv

LEMMA UnlinkFindCalls ==
  ASSUME CallInv, DiskTypes, NEW p \in Procs, NEW n \in Names, UnlinkFind(p, n)
  PROVE  CallTypes' /\ CallsPlaced' /\ EntryRefs'
<1> DEFINE c == [call[p] EXCEPT !.at = "child", !.name = n, !.other = entry[call[p].cur][n]]
           s == NoSteps
<1>1. At(p, "parent")
  BY DEF UnlinkFind
<1>2. /\ todo[p] = NoSteps /\ call[p].at = "parent" /\ call[p] \in CallRecords
      /\ cwd[p] # 0 /\ call[p].cur \in Inodes
  BY <1>1, AtPlace DEF CallInv
<1>3. entry[call[p].cur][n] \in Inodes
  BY <1>2, FSAssumption DEF UnlinkFind, DiskTypes, FSAssumption
<1>4. call[p].other = 0
  BY <1>2 DEF UnlinkFind, CallRecords
<1>5. /\ c \in CallRecords /\ c.at = "child" /\ c.name \in Names
      /\ c.cur = call[p].cur /\ c.other = entry[call[p].cur][n]
  BY <1>2, <1>3, <1>4 DEF Idle, CallRecords
<1>6. Placed(c, s)
  BY <1>2, <1>3, <1>4, <1>5, Numbers DEF Placed, AtMostOne, AnySteps
<1>7. Goto(p, c, s) /\ cwd' = cwd /\ ftable' = ftable /\ Refer(entry[call[p].cur][n])
  BY DEF UnlinkFind, procvars, NoSteps
<1>8. ASSUME NEW x \in Inodes
      PROVE  ref'[x] = ref[x] + (Hit(c.cur, x) + Hit(c.other, x) + Steps(s, x))
                              - (Hit(call[p].cur, x) + Hit(call[p].other, x))
  <2>1. ref'[x] = ref[x] + Hit(entry[call[p].cur][n], x) /\ ref[x] \in Int
    BY <1>2, <1>3, <1>4, <1>7, Referred DEF CallInv, RefTypes
  <2>2. Steps(s, x) = 0
    BY StepsOne
  <2>3. /\ Hit(call[p].cur, x) \in Int /\ Hit(call[p].other, x) \in Int
        /\ Hit(entry[call[p].cur][n], x) \in Int
        /\ Hit(0, x) = 0
    BY HitInt, HitNone
  <2> HIDE DEF c, s
  <2> QED
    BY <1>2, <1>3, <1>4, <1>5, <2>1, <2>2, <2>3
<1> HIDE DEF c, s
<1> QED
  BY <1>2, <1>3, <1>4, <1>5, <1>6, <1>7, <1>8, GotoBalance DEF CallInv

LEMMA UnlinkNoneCalls ==
  ASSUME CallInv, DiskTypes, NEW p \in Procs, UnlinkNone(p)
  PROVE  CallTypes' /\ CallsPlaced' /\ EntryRefs'
<1> DEFINE c == Idle
           s == <<Put(call[p].cur)>>
<1>1. At(p, "parent")
  BY DEF UnlinkNone
<1>2. /\ todo[p] = NoSteps /\ call[p].at = "parent" /\ call[p] \in CallRecords
      /\ cwd[p] # 0 /\ call[p].cur \in Inodes
  BY <1>1, AtPlace DEF CallInv
<1>3. call[p].other = 0
  BY <1>2 DEF UnlinkNone, CallRecords
<1>4. /\ c \in CallRecords /\ c.at = "idle" /\ c = Idle
      /\ c.cur = 0 /\ c.other = 0
  BY <1>2, <1>3 DEF Idle, CallRecords
<1>5. s \in OnePut
  BY <1>2, <1>3 DEF OnePut
<1>6. Placed(c, s)
  BY <1>2, <1>3, <1>4, <1>5, Numbers DEF Placed, AtMostOne, AnySteps
<1>7. Goto(p, c, s) /\ cwd' = cwd /\ ftable' = ftable /\ ref' = ref
  BY DEF UnlinkNone, procvars, NoSteps
<1>8. ASSUME NEW x \in Inodes
      PROVE  ref'[x] = ref[x] + (Hit(c.cur, x) + Hit(c.other, x) + Steps(s, x))
                              - (Hit(call[p].cur, x) + Hit(call[p].other, x))
  <2>1. ref'[x] = ref[x] /\ ref[x] \in Int
    BY <1>7 DEF CallInv, RefTypes
  <2>2. Steps(s, x) = Hit(call[p].cur, x)
    BY StepsOne
  <2>3. /\ Hit(call[p].cur, x) \in Int /\ Hit(call[p].other, x) \in Int
        /\ Hit(0, x) = 0
    BY HitInt, HitNone
  <2> HIDE DEF c, s
  <2> QED
    BY <1>2, <1>3, <1>4, <2>1, <2>2, <2>3, SMTT(30)
<1> HIDE DEF c, s
<1> QED
  BY <1>2, <1>3, <1>4, <1>6, <1>7, <1>8, GotoBalance DEF CallInv

LEMMA UnlinkEntryCalls ==
  ASSUME CallInv, DiskTypes, NEW p \in Procs, UnlinkEntry(p)
  PROVE  CallTypes' /\ CallsPlaced' /\ EntryRefs'
<1> DEFINE c == [Idle EXCEPT !.at = "dec", !.other = call[p].other]
           s == <<Put(call[p].cur)>>
<1>1. At(p, "child")
  BY DEF UnlinkEntry
<1>2. /\ todo[p] = NoSteps /\ call[p].at = "child" /\ call[p] \in CallRecords
      /\ cwd[p] # 0 /\ call[p].cur \in Inodes /\ call[p].other \in Inodes /\ call[p].name \in Names
  BY <1>1, AtPlace DEF CallInv
<1>3. /\ c \in CallRecords /\ c.at = "dec"
      /\ c.cur = 0 /\ c.other = call[p].other
  BY <1>2 DEF Idle, CallRecords
<1>4. s \in OnePut
  BY <1>2 DEF OnePut
<1>5. Placed(c, s)
  BY <1>2, <1>3, <1>4, Numbers DEF Placed, AtMostOne, AnySteps
<1>6. Goto(p, c, s) /\ cwd' = cwd /\ ftable' = ftable /\ ref' = ref
  BY DEF UnlinkEntry, procvars, NoSteps
<1>7. ASSUME NEW x \in Inodes
      PROVE  ref'[x] = ref[x] + (Hit(c.cur, x) + Hit(c.other, x) + Steps(s, x))
                              - (Hit(call[p].cur, x) + Hit(call[p].other, x))
  <2>1. ref'[x] = ref[x] /\ ref[x] \in Int
    BY <1>6 DEF CallInv, RefTypes
  <2>2. Steps(s, x) = Hit(call[p].cur, x)
    BY StepsOne
  <2>3. /\ Hit(call[p].cur, x) \in Int /\ Hit(call[p].other, x) \in Int
        /\ Hit(0, x) = 0
    BY HitInt, HitNone
  <2> HIDE DEF c, s
  <2> QED
    BY <1>2, <1>3, <2>1, <2>2, <2>3
<1> HIDE DEF c, s
<1> QED
  BY <1>2, <1>3, <1>5, <1>6, <1>7, GotoBalance DEF CallInv

LEMMA UnlinkDecCalls ==
  ASSUME CallInv, DiskTypes, NEW p \in Procs, UnlinkDec(p)
  PROVE  CallTypes' /\ CallsPlaced' /\ EntryRefs'
<1> DEFINE c == Idle
           s == <<Put(call[p].other)>>
<1>1. At(p, "dec")
  BY DEF UnlinkDec
<1>2. /\ todo[p] = NoSteps /\ call[p].at = "dec" /\ call[p] \in CallRecords
      /\ cwd[p] # 0 /\ call[p].cur = 0 /\ call[p].other \in Inodes
  BY <1>1, AtPlace DEF CallInv
<1>3. /\ c \in CallRecords /\ c.at = "idle" /\ c = Idle
      /\ c.cur = 0 /\ c.other = 0
  BY <1>2 DEF Idle, CallRecords
<1>4. s \in OnePut
  BY <1>2 DEF OnePut
<1>5. Placed(c, s)
  BY <1>2, <1>3, <1>4, Numbers DEF Placed, AtMostOne, AnySteps
<1>6. Goto(p, c, s) /\ cwd' = cwd /\ ftable' = ftable /\ ref' = ref
  BY DEF UnlinkDec, procvars, NoSteps
<1>7. ASSUME NEW x \in Inodes
      PROVE  ref'[x] = ref[x] + (Hit(c.cur, x) + Hit(c.other, x) + Steps(s, x))
                              - (Hit(call[p].cur, x) + Hit(call[p].other, x))
  <2>1. ref'[x] = ref[x] /\ ref[x] \in Int
    BY <1>6 DEF CallInv, RefTypes
  <2>2. Steps(s, x) = Hit(call[p].other, x)
    BY StepsOne
  <2>3. /\ Hit(call[p].cur, x) \in Int /\ Hit(call[p].other, x) \in Int
        /\ Hit(0, x) = 0
    BY HitInt, HitNone
  <2> HIDE DEF c, s
  <2> QED
    BY <1>2, <1>3, <2>1, <2>2, <2>3, SMTT(30)
<1> HIDE DEF c, s
<1> QED
  BY <1>2, <1>3, <1>5, <1>6, <1>7, GotoBalance DEF CallInv

LEMMA UnlinkBusyCalls ==
  ASSUME CallInv, DiskTypes, NEW p \in Procs, UnlinkBusy(p)
  PROVE  CallTypes' /\ CallsPlaced' /\ EntryRefs'
<1> DEFINE c == Idle
           s == <<Put(call[p].other), Unlock(call[p].cur), Put(call[p].cur)>>
<1>1. At(p, "child")
  BY DEF UnlinkBusy
<1>2. /\ todo[p] = NoSteps /\ call[p].at = "child" /\ call[p] \in CallRecords
      /\ cwd[p] # 0 /\ call[p].cur \in Inodes /\ call[p].other \in Inodes /\ call[p].name \in Names
  BY <1>1, AtPlace DEF CallInv
<1>3. /\ c \in CallRecords /\ c.at = "idle" /\ c = Idle
      /\ c.cur = 0 /\ c.other = 0
  BY <1>2 DEF Idle, CallRecords
<1>4. s \in Release
  BY <1>2 DEF Release
<1>5. Placed(c, s)
  BY <1>2, <1>3, <1>4, Numbers DEF Placed, AtMostOne, AnySteps
<1>6. Goto(p, c, s) /\ cwd' = cwd /\ ftable' = ftable /\ ref' = ref
  BY DEF UnlinkBusy, procvars, NoSteps
<1>7. ASSUME NEW x \in Inodes
      PROVE  ref'[x] = ref[x] + (Hit(c.cur, x) + Hit(c.other, x) + Steps(s, x))
                              - (Hit(call[p].cur, x) + Hit(call[p].other, x))
  <2>1. ref'[x] = ref[x] /\ ref[x] \in Int
    BY <1>6 DEF CallInv, RefTypes
  <2>2. Steps(s, x) = Hit(call[p].other, x) + Hit(call[p].cur, x)
    BY StepsThree
  <2>3. /\ Hit(call[p].cur, x) \in Int /\ Hit(call[p].other, x) \in Int
        /\ Hit(0, x) = 0
    BY HitInt, HitNone
  <2> HIDE DEF c, s
  <2> QED
    BY <1>2, <1>3, <2>1, <2>2, <2>3
<1> HIDE DEF c, s
<1> QED
  BY <1>2, <1>3, <1>5, <1>6, <1>7, GotoBalance DEF CallInv

(* One file is opened or closed.                                           *)
LEMMA TableSet ==
  ASSUME NEW tab, NEW tab2, NEW f \in Files, NEW x,
         \A g \in Files \ {f} : tab2[g].ip = tab[g].ip
  PROVE  Cardinality(TableShare(tab2, x)) =
           Cardinality(TableShare(tab, x)) + Hit(tab2[f].ip, x) - Hit(tab[f].ip, x)
<1> DEFINE e == <<Nobody, "file", f>>
           R == TableShare(tab, x) \ {e}
<1>1. \A T, g : <<Nobody, "file", g>> \in TableShare(T, x) <=> g \in Files /\ T[g].ip = x
  BY DEF TableShare
<1>2. IsFiniteSet(TableShare(tab, x)) /\ Cardinality(TableShare(tab, x)) \in Nat
  BY TableFinite, FS_CardinalityType
<1>3. IsFiniteSet(R) /\ Cardinality(R) = Cardinality(TableShare(tab, x)) - Hit(tab[f].ip, x)
  <2>1. e \in TableShare(tab, x) <=> tab[f].ip = x
    BY <1>1
  <2>2. /\ IsFiniteSet(R)
        /\ Cardinality(R) = IF e \in TableShare(tab, x) THEN Cardinality(TableShare(tab, x)) - 1
                            ELSE Cardinality(TableShare(tab, x))
    BY <1>2, FS_RemoveElement
  <2> QED
    BY <1>2, <2>1, <2>2 DEF Hit
<1>4. TableShare(tab2, x) = R \cup Flag(Hit(tab2[f].ip, x), e)
  <2>1. e \in TableShare(tab2, x) <=> tab2[f].ip = x
    BY <1>1
  <2>2. ASSUME NEW h, h # e PROVE h \in TableShare(tab2, x) <=> h \in TableShare(tab, x)
    BY <2>2, Zenon DEF TableShare
  <2> QED
    BY <2>1, <2>2 DEF Flag, Hit
<1>5. e \notin R /\ Hit(tab2[f].ip, x) \in {0, 1}
  BY DEF Hit
<1> HIDE DEF e, R
<1>6. Cardinality(R \cup Flag(Hit(tab2[f].ip, x), e)) = Cardinality(R) + Hit(tab2[f].ip, x)
  BY <1>3, <1>5, FlagCounted
<1> QED
  BY <1>2, <1>3, <1>4, <1>6, HitInt

(* A step of iunlockput(): the references of the process stay, but for the *)
(* one that it drops.                                                      *)
LEMMA AfterKeeps ==
  ASSUME NEW t \in AnySteps, t # << >>
  PROVE  /\ After(t) \in AnySteps
         /\ t \in AtMostOne => After(t) \in AtMostOne
         /\ t \in AtMostOne \cup Release => After(t) \in AtMostOne \cup Release
         /\ \A i, x : Head(t) \in {Put(i), Unlock(i)} => Steps(After(t), x) = Steps(t, x)
         /\ \A i, x : Head(t) = Drop(i) => Steps(After(t), x) = Steps(t, x) - Hit(i, x)
<1>1. CASE t \in OnePut
  <2>1. PICK j \in Inodes : t = <<Put(j)>> \/ t = <<Drop(j)>>
    BY <1>1 DEF OnePut
  <2>2. CASE t = <<Put(j)>>
    <3>1. After(t) = <<Drop(j)>> /\ Head(t) = Put(j)
      BY <2>2, AfterOnePut
    <3>2. After(t) \in OnePut
      BY <3>1 DEF OnePut
    <3>3. \A x : Steps(After(t), x) = Steps(t, x)
      BY <3>1, <2>2, StepsOne
    <3> QED
      BY <3>1, <3>2, <3>3, StepsApart DEF AtMostOne, AnySteps
  <2>3. CASE t = <<Drop(j)>>
    <3>1. After(t) = NoSteps /\ Head(t) = Drop(j)
      BY <2>3, AfterOnePut
    <3>2. \A x : Steps(After(t), x) = 0 /\ Steps(t, x) = Hit(j, x) /\ Hit(j, x) \in Int
      BY <3>1, <2>3, StepsOne, HitInt
    <3> QED
      BY <3>1, <3>2, StepsApart DEF AtMostOne, AnySteps
  <2> QED
    BY <2>1, <2>2, <2>3
<1>2. CASE t \in TwoPuts
  <2>1. PICK j \in Inodes, k \in Inodes : t = <<Put(j), Put(k)>> \/ t = <<Drop(j), Put(k)>>
    BY <1>2 DEF TwoPuts
  <2>2. CASE t = <<Put(j), Put(k)>>
    <3>1. After(t) = <<Drop(j), Put(k)>> /\ Head(t) = Put(j)
      BY <2>2, AfterTwoPuts
    <3>2. After(t) \in TwoPuts
      BY <3>1 DEF TwoPuts
    <3>3. \A x : Steps(After(t), x) = Steps(t, x)
      BY <3>1, <2>2, StepsTwo
    <3>4. t \notin AtMostOne \cup Release
      BY <2>2, StepsApart DEF AtMostOne, OnePut, Release, NoSteps
    <3> QED
      BY <3>1, <3>2, <3>3, <3>4, StepsApart DEF AtMostOne, AnySteps
  <2>3. CASE t = <<Drop(j), Put(k)>>
    <3>1. After(t) = <<Put(k)>> /\ Head(t) = Drop(j)
      BY <2>3, AfterTwoPuts
    <3>2. After(t) \in OnePut
      BY <3>1 DEF OnePut
    <3>3. \A x : /\ Steps(After(t), x) = Hit(k, x) /\ Steps(t, x) = Hit(j, x) + Hit(k, x)
                 /\ Hit(j, x) \in Int /\ Hit(k, x) \in Int
      <4>1. \A x : Steps(After(t), x) = Hit(k, x)
        BY <3>1, StepsOne
      <4>2. \A x : Steps(t, x) = Hit(j, x) + Hit(k, x)
        BY <2>3, StepsTwo
      <4> QED
        BY <4>1, <4>2, HitInt
    <3> QED
      BY <3>1, <3>2, <3>3, StepsApart DEF AtMostOne, AnySteps
  <2> QED
    BY <2>1, <2>2, <2>3
<1>3. CASE t \in Release
  <2>1. PICK j \in Inodes, k \in Inodes :
          \/ t = <<Put(j), Unlock(k), Put(k)>> \/ t = <<Drop(j), Unlock(k), Put(k)>>
          \/ t = <<Unlock(k), Put(k)>>
    BY <1>3 DEF Release
  <2>2. CASE t = <<Put(j), Unlock(k), Put(k)>>
    <3>1. After(t) = <<Drop(j), Unlock(k), Put(k)>> /\ Head(t) = Put(j)
      BY <2>2, AfterRelease
    <3>2. After(t) \in Release
      BY <3>1 DEF Release
    <3>3. \A x : Steps(After(t), x) = Steps(t, x)
      BY <3>1, <2>2, StepsThree
    <3>4. t \notin AtMostOne
      BY <2>2, StepsApart DEF AtMostOne, OnePut, NoSteps
    <3> QED
      BY <3>1, <3>2, <3>3, <3>4, StepsApart DEF AnySteps
  <2>3. CASE t = <<Drop(j), Unlock(k), Put(k)>>
    <3>1. After(t) = <<Unlock(k), Put(k)>> /\ Head(t) = Drop(j)
      BY <2>3, AfterRelease
    <3>2. After(t) \in Release
      BY <3>1 DEF Release
    <3>3. \A x : /\ Steps(After(t), x) = Hit(k, x) /\ Steps(t, x) = Hit(j, x) + Hit(k, x)
                 /\ Hit(j, x) \in Int /\ Hit(k, x) \in Int
      <4>1. \A x : Steps(After(t), x) = Hit(k, x)
        BY <3>1, StepsRest
      <4>2. \A x : Steps(t, x) = Hit(j, x) + Hit(k, x)
        BY <2>3, StepsThree
      <4>3. \A x : Hit(j, x) \in Int /\ Hit(k, x) \in Int
        BY HitInt
      <4> QED
        BY <4>1, <4>2, <4>3
    <3>4. t \notin AtMostOne
      BY <2>3, StepsApart DEF AtMostOne, OnePut, NoSteps
    <3> QED
      BY <3>1, <3>2, <3>3, <3>4, StepsApart DEF AnySteps
  <2>4. CASE t = <<Unlock(k), Put(k)>>
    <3>1. After(t) = <<Put(k)>> /\ Head(t) = Unlock(k)
      BY <2>4, AfterRest
    <3>2. After(t) \in OnePut
      BY <3>1 DEF OnePut
    <3>3. \A x : Steps(After(t), x) = Hit(k, x) /\ Steps(t, x) = Hit(k, x)
      BY <3>1, <2>4, StepsRest, StepsOne
    <3> QED
      BY <3>1, <3>2, <3>3, StepsApart DEF AnySteps, AtMostOne
  <2> QED
    BY <2>1, <2>2, <2>3, <2>4
<1> QED
  BY <1>1, <1>2, <1>3 DEF AnySteps, AtMostOne, NoSteps

(* A process that has exited has closed its file.                          *)
ExitedClosed == \A p \in Procs : cwd[p] = 0 => ofile[p] = 0

FileInv == FileRefs /\ FilesUsed /\ ExitedClosed

(* The call goes on with an open file, or puts its inode.                  *)
LEMMA OpenedCalls ==
  ASSUME CallInv, FilesUsed, NEW p \in Procs, NEW i \in Inodes,
         todo[p] = NoSteps, call[p] \in CallRecords,
         \/ call[p].cur = i /\ call[p].other = 0
         \/ call[p].cur = 0 /\ call[p].other = i,
         Opened(p, i), ref' = ref
  PROVE  CallTypes' /\ CallsPlaced' /\ EntryRefs'
<1>1. Idle \in CallRecords /\ Idle.at = "idle" /\ Idle.cur = 0 /\ Idle.other = 0
  BY DEF Idle, CallRecords
<1>2. ASSUME NEW x \in Inodes
      PROVE  /\ Hit(call[p].cur, x) + Hit(call[p].other, x) = Hit(i, x)
             /\ Hit(0, x) = 0 /\ Hit(i, x) \in Int /\ ref'[x] = ref[x] /\ ref[x] \in Int
             /\ Hit(call[p].cur, x) \in Int /\ Hit(call[p].other, x) \in Int
  BY HitNone, HitInt DEF CallInv, RefTypes
<1>3. CASE ofile[p] = 0 /\ FreeFiles # {}
  <2> DEFINE f == Min(FreeFiles)
  <2>1. f \in Files /\ ftable[f].ref = 0
    <3>1. FreeFiles \in SUBSET Nat
      BY DEF FreeFiles, Files
    <3> QED
      BY <1>3, <3>1, MinIn DEF FreeFiles
  <2>2. ftable[f].ip = 0
    BY <2>1 DEF FilesUsed
  <2>3. /\ ftable' = [ftable EXCEPT ![f] = [ref |-> 1, ip |-> i]]
        /\ Goto(p, Idle, NoSteps) /\ cwd' = cwd
    BY <1>3 DEF Opened, NoSteps
  <2> HIDE DEF f
  <2>4. Placed(Idle, NoSteps)
    BY DEF Placed, AnySteps, AtMostOne
  <2>5. /\ CallTypes' /\ CallsPlaced' /\ call'[p] = Idle /\ todo'[p] = NoSteps
        /\ \A q \in Procs \ {p} : call'[q] = call[q] /\ todo'[q] = todo[q]
    BY <1>1, <2>3, <2>4, GotoStep DEF CallInv
  <2>6. ASSUME NEW x \in Inodes
        PROVE  ref'[x] = ref[x]
                 + (Count(cwd'[p], call'[p], todo'[p], x) - Count(cwd[p], call[p], todo[p], x))
                 + (Cardinality(TableShare(ftable', x)) - Cardinality(TableShare(ftable, x)))
    <3>1. Count(cwd'[p], call'[p], todo'[p], x) = Hit(cwd[p], x) + Hit(0, x) + Hit(0, x) + 0
      BY <1>1, <2>3, <2>5, StepsOne DEF Count
    <3>2. Count(cwd[p], call[p], todo[p], x) = Hit(cwd[p], x) + Hit(call[p].cur, x) + Hit(call[p].other, x) + 0
      BY StepsOne DEF Count
    <3>3. \A g \in Files \ {f} : ftable'[g].ip = ftable[g].ip
      BY <2>1, <2>3 DEF CallInv, RefTypes
    <3>6. ftable'[f].ip = i
      BY <2>1, <2>3 DEF CallInv, RefTypes
    <3>7. Cardinality(TableShare(ftable', x)) =
            Cardinality(TableShare(ftable, x)) + Hit(ftable'[f].ip, x) - Hit(ftable[f].ip, x)
      BY <2>1, <3>3, TableSet
    <3>4. Cardinality(TableShare(ftable', x)) = Cardinality(TableShare(ftable, x)) + Hit(i, x) - Hit(0, x)
      BY <2>2, <3>6, <3>7
    <3>5. Cardinality(TableShare(ftable, x)) \in Int /\ Hit(cwd[p], x) \in Int
      BY TableFinite, FS_CardinalityType, HitInt
    <3> QED
      BY <1>2, <3>1, <3>2, <3>4, <3>5
  <2> QED
    BY <2>3, <2>5, <2>6, Balance DEF CallInv
<1>4. CASE ~(ofile[p] = 0 /\ FreeFiles # {})
  <2> DEFINE s == <<Put(i)>>
  <2>1. Goto(p, Idle, s) /\ cwd' = cwd /\ ftable' = ftable
    BY <1>4, Zenon DEF Opened, procvars
  <2>2. Placed(Idle, s)
    BY DEF Placed, AnySteps, AtMostOne, OnePut
  <2>3. \A x : Steps(s, x) = Hit(i, x)
    BY StepsOne
  <2> HIDE DEF s
  <2>4. ASSUME NEW x \in Inodes
        PROVE  ref'[x] = ref[x] + (Hit(Idle.cur, x) + Hit(Idle.other, x) + Steps(s, x))
                                - (Hit(call[p].cur, x) + Hit(call[p].other, x))
    <3>1. /\ Hit(call[p].cur, x) + Hit(call[p].other, x) = Hit(i, x)
          /\ Hit(0, x) = 0 /\ Hit(i, x) \in Int /\ ref'[x] = ref[x] /\ ref[x] \in Int
      BY <1>2
    <3> QED
      BY <1>1, <2>3, <3>1
  <2> QED
    BY <1>1, <2>1, <2>2, <2>4, GotoBalance DEF CallInv
<1> QED
  BY <1>3, <1>4

(* mkdir() and mknod() put the inode that they made.                       *)
LEMMA PutCalls ==
  ASSUME CallInv, NEW p \in Procs, NEW i \in Inodes,
         todo[p] = NoSteps, call[p] \in CallRecords,
         \/ call[p].cur = i /\ call[p].other = 0
         \/ call[p].cur = 0 /\ call[p].other = i,
         Goto(p, Idle, <<Put(i)>>), UNCHANGED procvars, ref' = ref
  PROVE  CallTypes' /\ CallsPlaced' /\ EntryRefs'
<1> DEFINE s == <<Put(i)>>
<1>1. Idle \in CallRecords /\ Idle.at = "idle" /\ Idle.cur = 0 /\ Idle.other = 0
  BY DEF Idle, CallRecords
<1>2. Goto(p, Idle, s) /\ cwd' = cwd /\ ftable' = ftable
  BY DEF procvars
<1>3. Placed(Idle, s)
  BY DEF Placed, AnySteps, AtMostOne, OnePut
<1>4. \A x : Steps(s, x) = Hit(i, x)
  BY StepsOne
<1> HIDE DEF s
<1>5. ASSUME NEW x \in Inodes
      PROVE  ref'[x] = ref[x] + (Hit(Idle.cur, x) + Hit(Idle.other, x) + Steps(s, x))
                              - (Hit(call[p].cur, x) + Hit(call[p].other, x))
  <2>1. /\ Hit(call[p].cur, x) + Hit(call[p].other, x) = Hit(i, x)
        /\ Hit(0, x) = 0 /\ Hit(i, x) \in Int /\ ref'[x] = ref[x] /\ ref[x] \in Int
    BY HitNone, HitInt DEF CallInv, RefTypes
  <2> QED
    BY <1>1, <1>4, <2>1
<1> QED
  BY <1>1, <1>2, <1>3, <1>5, GotoBalance DEF CallInv

LEMMA OpenCalls ==
  ASSUME CallInv, FilesUsed, NEW p \in Procs, Open(p)
  PROVE  CallTypes' /\ CallsPlaced' /\ EntryRefs'
<1>1. At(p, "walk") /\ call[p].other = 0 /\ Opened(p, call[p].cur) /\ ref' = ref
  BY DEF Open
<1>2. todo[p] = NoSteps /\ call[p] \in CallRecords /\ call[p].cur \in Inodes
  BY <1>1, AtPlace DEF CallInv
<1> QED
  BY <1>1, <1>2, OpenedCalls

LEMMA CreatedCalls ==
  ASSUME CallInv, FilesUsed, NEW p \in Procs, Created(p)
  PROVE  CallTypes' /\ CallsPlaced' /\ EntryRefs'
<1>1. At(p, "made") /\ ref' = ref
  BY DEF Created
<1>2. todo[p] = NoSteps /\ call[p] \in CallRecords /\ call[p].cur = 0 /\ call[p].other \in Inodes
  BY <1>1, AtPlace DEF CallInv
<1>3. CASE call[p].kind = "file"
  BY <1>1, <1>2, <1>3, OpenedCalls DEF Created
<1>4. CASE call[p].kind # "file"
  BY <1>1, <1>2, <1>4, PutCalls DEF Created
<1> QED
  BY <1>3, <1>4

LEMMA CreateTakeCalls ==
  ASSUME CallInv, FilesUsed, NEW p \in Procs, CreateTake(p)
  PROVE  CallTypes' /\ CallsPlaced' /\ EntryRefs'
<1>1. At(p, "old") /\ ref' = ref
  BY DEF CreateTake
<1>2. todo[p] = NoSteps /\ call[p] \in CallRecords /\ call[p].cur = 0 /\ call[p].other \in Inodes
  BY <1>1, AtPlace DEF CallInv
<1>3. \/ Opened(p, call[p].other)
      \/ Goto(p, Idle, <<Put(call[p].other)>>) /\ UNCHANGED procvars
  BY DEF CreateTake
<1> QED
  BY <1>1, <1>2, <1>3, OpenedCalls, PutCalls

LEMMA ChdirCalls ==
  ASSUME CallInv, NEW p \in Procs, Chdir(p)
  PROVE  CallTypes' /\ CallsPlaced' /\ EntryRefs'
<1> DEFINE s == <<Put(cwd[p])>>
<1>1. At(p, "walk") /\ call[p].other = 0
  BY DEF Chdir
<1>2. /\ todo[p] = NoSteps /\ call[p] \in CallRecords /\ call[p].cur \in Inodes
      /\ cwd[p] \in Inodes
  BY <1>1, AtPlace DEF CallInv, RefTypes
<1>3. Goto(p, Idle, s) /\ ref' = ref /\ ftable' = ftable /\ cwd' = [cwd EXCEPT ![p] = call[p].cur]
  BY DEF Chdir
<1>4. Idle \in CallRecords /\ Idle.at = "idle" /\ Idle.cur = 0 /\ Idle.other = 0
  BY DEF Idle, CallRecords
<1>5. Placed(Idle, s)
  BY <1>2 DEF Placed, AnySteps, AtMostOne, OnePut
<1>6. \A x : Steps(s, x) = Hit(cwd[p], x)
  BY StepsOne
<1> HIDE DEF s
<1>7. cwd'[p] = call[p].cur /\ \A q \in Procs \ {p} : cwd'[q] = cwd[q]
  BY <1>3 DEF CallInv, RefTypes
<1>8. /\ CallTypes' /\ CallsPlaced' /\ call'[p] = Idle /\ todo'[p] = s
      /\ \A q \in Procs \ {p} : call'[q] = call[q] /\ todo'[q] = todo[q]
  BY <1>3, <1>4, <1>5, <1>7, GotoStep DEF CallInv
<1>9. ASSUME NEW x \in Inodes
      PROVE  ref'[x] = ref[x]
               + (Count(cwd'[p], call'[p], todo'[p], x) - Count(cwd[p], call[p], todo[p], x))
               + (Cardinality(TableShare(ftable', x)) - Cardinality(TableShare(ftable, x)))
  <2>1. Count(cwd[p], call[p], todo[p], x) = Hit(cwd[p], x) + Hit(call[p].cur, x) + Hit(0, x) + 0
    BY <1>1, <1>2, StepsOne DEF Count
  <2>2. Count(cwd'[p], call'[p], todo'[p], x) = Hit(call[p].cur, x) + Hit(0, x) + Hit(0, x) + Hit(cwd[p], x)
    BY <1>4, <1>6, <1>7, <1>8 DEF Count
  <2>3. Cardinality(TableShare(ftable', x)) - Cardinality(TableShare(ftable, x)) = 0
    BY <1>3, TableFinite, FS_CardinalityType
  <2>4. ref'[x] = ref[x] /\ ref[x] \in Int
    BY <1>3 DEF CallInv, RefTypes
  <2> QED
    BY <2>1, <2>2, <2>3, <2>4, HitInt, HitNone
<1> QED
  BY <1>7, <1>8, <1>9, Balance DEF CallInv

LEMMA ExitCalls ==
  ASSUME CallInv, NEW p \in Procs, Exit(p)
  PROVE  CallTypes' /\ CallsPlaced' /\ EntryRefs'
<1> DEFINE s == <<Put(cwd[p])>>
<1>1. At(p, "idle") /\ cwd[p] # 0
  BY DEF Exit, Ready
<1>2. todo[p] = NoSteps /\ call[p] = Idle /\ cwd[p] \in Inodes
  BY <1>1, AtPlace DEF CallInv, RefTypes
<1>3. Goto(p, Idle, s) /\ ref' = ref /\ ftable' = ftable /\ cwd' = [cwd EXCEPT ![p] = 0]
  BY DEF Exit
<1>4. Idle \in CallRecords /\ Idle.at = "idle" /\ Idle.cur = 0 /\ Idle.other = 0
  BY DEF Idle, CallRecords
<1>5. Placed(Idle, s)
  BY <1>2 DEF Placed, AnySteps, AtMostOne, OnePut
<1>6. \A x : Steps(s, x) = Hit(cwd[p], x)
  BY StepsOne
<1> HIDE DEF s
<1>7. cwd'[p] = 0 /\ \A q \in Procs \ {p} : cwd'[q] = cwd[q]
  BY <1>3 DEF CallInv, RefTypes
<1>8. /\ CallTypes' /\ CallsPlaced' /\ call'[p] = Idle /\ todo'[p] = s
      /\ \A q \in Procs \ {p} : call'[q] = call[q] /\ todo'[q] = todo[q]
  BY <1>3, <1>4, <1>5, <1>7, GotoStep DEF CallInv
<1>9. ASSUME NEW x \in Inodes
      PROVE  ref'[x] = ref[x]
               + (Count(cwd'[p], call'[p], todo'[p], x) - Count(cwd[p], call[p], todo[p], x))
               + (Cardinality(TableShare(ftable', x)) - Cardinality(TableShare(ftable, x)))
  <2>1. Count(cwd[p], call[p], todo[p], x) = Hit(cwd[p], x) + Hit(0, x) + Hit(0, x) + 0
    BY <1>2, <1>4, StepsOne DEF Count
  <2>2. Count(cwd'[p], call'[p], todo'[p], x) = Hit(0, x) + Hit(0, x) + Hit(0, x) + Hit(cwd[p], x)
    BY <1>4, <1>6, <1>7, <1>8 DEF Count
  <2>3. Cardinality(TableShare(ftable', x)) - Cardinality(TableShare(ftable, x)) = 0
    BY <1>3, TableFinite, FS_CardinalityType
  <2>4. ref'[x] = ref[x] /\ ref[x] \in Int
    BY <1>3 DEF CallInv, RefTypes
  <2> QED
    BY <2>1, <2>2, <2>3, <2>4, HitInt, HitNone, SMTT(30)
<1> QED
  BY <1>7, <1>8, <1>9, Balance DEF CallInv

(* A file that a process has open has a reference, and so an inode.        *)
LEMMA OpenFile ==
  ASSUME RefTypes, FileInv, NEW p \in Procs, ofile[p] # 0
  PROVE  /\ ofile[p] \in Files /\ ftable[ofile[p]].ip \in Inodes
         /\ ftable[ofile[p]].ref \in Nat \ {0}
<1>1. ofile[p] \in Files
  BY DEF RefTypes
<1> DEFINE S == {q \in Procs : ofile[q] = ofile[p]}
<1>2. IsFiniteSet(S) /\ S # {}
  BY InodesFinite, FS_Subset
<1>3. Cardinality(S) \in Nat /\ Cardinality(S) # 0
  BY <1>2, FS_CardinalityType, FS_EmptySet
<1>4. ftable[ofile[p]].ref = Cardinality(S)
  BY <1>1 DEF FileInv, FileRefs
<1> QED
  BY <1>1, <1>3, <1>4 DEF FileInv, FilesUsed, RefTypes

LEMMA CloseCalls ==
  ASSUME CallInv, FileInv, NEW p \in Procs, Close(p)
  PROVE  CallTypes' /\ CallsPlaced' /\ EntryRefs'
<1> DEFINE f == ofile[p]
           i == ftable[f].ip
           s == <<Put(i)>>
<1>1. At(p, "idle") /\ f # 0 /\ ref' = ref /\ cwd' = cwd
  BY DEF Close, Ready
<1>2. todo[p] = NoSteps /\ call[p] = Idle /\ f \in Files /\ i \in Inodes
  BY <1>1, AtPlace, OpenFile DEF CallInv
<1>3. Idle \in CallRecords /\ Idle.at = "idle" /\ Idle.cur = 0 /\ Idle.other = 0
  BY DEF Idle, CallRecords
<1>4. ASSUME NEW x \in Inodes
      PROVE  /\ Count(cwd[p], call[p], todo[p], x) = Hit(cwd[p], x) + Hit(0, x) + Hit(0, x) + 0
             /\ ref'[x] = ref[x] /\ ref[x] \in Int /\ Hit(cwd[p], x) \in Int /\ Hit(0, x) = 0
             /\ Hit(i, x) \in Int /\ Cardinality(TableShare(ftable, x)) \in Int
  <2>1. Count(cwd[p], call[p], todo[p], x) = Hit(cwd[p], x) + Hit(0, x) + Hit(0, x) + 0
    BY <1>2, <1>3, StepsOne DEF Count
  <2> QED
    BY <1>1, <2>1, HitInt, HitNone, TableFinite, FS_CardinalityType DEF CallInv, RefTypes
<1>5. CASE ftable[f].ref = 1
  <2>1. Goto(p, Idle, s) /\ ftable' = [ftable EXCEPT ![f] = NoFile]
    BY <1>5 DEF Close
  <2>2. Placed(Idle, s)
    BY <1>2 DEF Placed, AnySteps, AtMostOne, OnePut
  <2>3. \A x : Steps(s, x) = Hit(i, x)
    BY StepsOne
  <2>4. (\A g \in Files \ {f} : ftable'[g].ip = ftable[g].ip) /\ ftable'[f].ip = 0
    BY <1>2, <2>1 DEF CallInv, RefTypes, NoFile
  <2> HIDE DEF s, f, i
  <2>5. /\ CallTypes' /\ CallsPlaced' /\ call'[p] = Idle /\ todo'[p] = s
        /\ \A q \in Procs \ {p} : call'[q] = call[q] /\ todo'[q] = todo[q]
    BY <1>1, <1>3, <2>1, <2>2, GotoStep DEF CallInv
  <2>6. ASSUME NEW x \in Inodes
        PROVE  ref'[x] = ref[x]
                 + (Count(cwd'[p], call'[p], todo'[p], x) - Count(cwd[p], call[p], todo[p], x))
                 + (Cardinality(TableShare(ftable', x)) - Cardinality(TableShare(ftable, x)))
    <3>1. Count(cwd'[p], call'[p], todo'[p], x) = Hit(cwd[p], x) + Hit(0, x) + Hit(0, x) + Hit(i, x)
      BY <1>1, <1>3, <2>3, <2>5 DEF Count
    <3>2. \A g \in Files \ {f} : ftable'[g].ip = ftable[g].ip
      BY <2>4
    <3>3. Cardinality(TableShare(ftable', x)) =
            Cardinality(TableShare(ftable, x)) + Hit(ftable'[f].ip, x) - Hit(ftable[f].ip, x)
      BY <1>2, <3>2, TableSet
    <3>4. Cardinality(TableShare(ftable', x)) = Cardinality(TableShare(ftable, x)) + Hit(0, x) - Hit(i, x)
      BY <2>4, <3>3 DEF i
    <3> QED
      BY <1>4, <3>1, <3>4
  <2> QED
    BY <1>1, <2>5, <2>6, Balance DEF CallInv
<1>6. CASE ftable[f].ref # 1
  <2>1. call' = call /\ todo' = todo /\ ftable' = [ftable EXCEPT ![f].ref = @ - 1]
    BY <1>6 DEF Close
  <2>2. \A g \in Files : ftable'[g].ip = ftable[g].ip
    BY <1>2, <2>1 DEF CallInv, RefTypes
  <2>3. \A x : TableShare(ftable', x) = TableShare(ftable, x)
    BY <2>2, Zenon DEF TableShare
  <2>4. \A x : HoldersAt(cwd', call', todo', ftable', x) = HoldersAt(cwd, call, todo, ftable, x)
    BY <1>1, <2>1, <2>3 DEF HoldersAt, TableShare
  <2> QED
    BY <1>1, <2>1, <2>4, HoldersNow DEF CallInv, CallTypes, CallsPlaced, EntryRefs
<1> QED
  BY <1>5, <1>6

LEMMA ForkCalls ==
  ASSUME CallInv, NEW p \in Procs, NEW q \in Procs, Fork(p, q)
  PROVE  CallTypes' /\ CallsPlaced' /\ EntryRefs'
<1>1. /\ cwd[p] \in Inodes /\ At(q, "idle") /\ cwd[q] = 0
      /\ Refer(cwd[p]) /\ cwd' = [cwd EXCEPT ![q] = cwd[p]] /\ call' = call /\ todo' = todo
  BY DEF Fork, Ready, CallInv, RefTypes
<1>2. /\ cwd'[q] = cwd[p] /\ cwd[p] # 0
      /\ \A r \in Procs \ {q} : cwd'[r] = cwd[r] /\ call'[r] = call[r] /\ todo'[r] = todo[r]
  BY <1>1, Numbers DEF CallInv, RefTypes
<1>3. CallTypes' /\ CallsPlaced'
  BY <1>1, <1>2 DEF CallInv, CallTypes, CallsPlaced
<1>4. \A f \in Files : ftable'[f].ip = ftable[f].ip
  BY DEF Fork, CallInv, RefTypes
<1>5. \A x : TableShare(ftable', x) = TableShare(ftable, x)
  BY <1>4, Zenon DEF TableShare
<1>6. ASSUME NEW x \in Inodes
      PROVE  ref'[x] = ref[x]
               + (Count(cwd'[q], call'[q], todo'[q], x) - Count(cwd[q], call[q], todo[q], x))
               + (Cardinality(TableShare(ftable', x)) - Cardinality(TableShare(ftable, x)))
  <2>1. /\ Count(cwd[q], call[q], todo[q], x) = Hit(0, x) + Hit(call[q].cur, x) + Hit(call[q].other, x) + Steps(todo[q], x)
        /\ Count(cwd'[q], call'[q], todo'[q], x) = Hit(cwd[p], x) + Hit(call[q].cur, x) + Hit(call[q].other, x) + Steps(todo[q], x)
    BY <1>1, <1>2 DEF Count
  <2>2. Steps(todo[q], x) \in Int
    BY DEF Steps, StepHit
  <2>3. Cardinality(TableShare(ftable', x)) - Cardinality(TableShare(ftable, x)) = 0
    BY <1>5, TableFinite, FS_CardinalityType
  <2>4. ref'[x] = ref[x] + Hit(cwd[p], x) /\ ref[x] \in Int
    BY <1>1, Referred DEF CallInv, RefTypes
  <2> QED
    BY <2>1, <2>2, <2>3, <2>4, HitInt, HitNone
<1> QED
  BY <1>2, <1>3, <1>6, Balance DEF CallInv

(* A step of iunlockput(): the rest is done later.                         *)
LEMMA StepTaken ==
  ASSUME CallTypes, CallsPlaced, NEW p \in Procs, NEW s, Does(p, s), call' = call, cwd' = cwd
  PROVE  /\ CallTypes' /\ CallsPlaced'
         /\ todo[p] \in AnySteps /\ todo[p] # << >> /\ Head(todo[p]) = s
         /\ todo'[p] = After(todo[p])
         /\ \A q \in Procs \ {p} : todo'[q] = todo[q]
<1>1. todo[p] \in AnySteps /\ todo[p] # << >> /\ Head(todo[p]) = s
  BY DEF Does, CallTypes
<1>2. todo' = [todo EXCEPT ![p] = After(todo[p])]
  BY <1>1, Zenon DEF Does, After
<1>3. todo'[p] = After(todo[p]) /\ \A q \in Procs \ {p} : todo'[q] = todo[q]
  BY <1>2 DEF CallTypes
<1>4. After(todo[p]) \in AnySteps
  BY <1>1, AfterKeeps
<1>5. CallTypes'
  BY <1>2, <1>4 DEF CallTypes
<1>6. Placed(call[p], todo[p])
  BY DEF CallsPlaced
<1>7. /\ todo[p] \in AtMostOne => After(todo[p]) \in AtMostOne
      /\ todo[p] \in AtMostOne \cup Release => After(todo[p]) \in AtMostOne \cup Release
  BY <1>1, AfterKeeps
<1>8. Placed(call[p], After(todo[p]))
  <2> DEFINE t == todo[p]
             u == After(todo[p])
  <2>1. /\ t # NoSteps /\ u \in AnySteps
        /\ (t \in AtMostOne => u \in AtMostOne)
        /\ (t \in AtMostOne \cup Release => u \in AtMostOne \cup Release)
        /\ Placed(call[p], t)
    BY <1>1, <1>4, <1>6, <1>7 DEF NoSteps
  <2> HIDE DEF t, u
  <2>2. Placed(call[p], u)
    BY <2>1 DEF Placed
  <2> QED
    BY <2>2 DEF u
<1>9. CallsPlaced'
  BY <1>3, <1>8 DEF CallsPlaced
<1> QED
  BY <1>1, <1>3, <1>5, <1>9

LEMMA FinishCalls ==
  ASSUME CallInv, NEW p \in Procs, NEW i \in Inodes,
         DoPut(p, i) \/ DoDrop(p, i) \/ DoUnlock(p, i)
  PROVE  CallTypes' /\ CallsPlaced' /\ EntryRefs'
<1>1. call' = call /\ cwd' = cwd /\ ftable' = ftable
  BY DEF DoPut, DoDrop, DoUnlock, procvars
<1>2. PICK s \in {Put(i), Unlock(i), Drop(i)} :
        /\ Does(p, s)
        /\ s = Drop(i) => ref' = [ref EXCEPT ![i] = @ - 1]
        /\ s # Drop(i) => ref' = ref
  BY StepsApart DEF DoPut, DoDrop, DoUnlock
<1>3. /\ CallTypes' /\ CallsPlaced'
      /\ todo[p] \in AnySteps /\ todo[p] # << >> /\ Head(todo[p]) = s
      /\ todo'[p] = After(todo[p])
      /\ \A q \in Procs \ {p} : todo'[q] = todo[q]
  BY <1>1, <1>2, StepTaken DEF CallInv
<1>4. \A q \in Procs \ {p} : cwd'[q] = cwd[q] /\ call'[q] = call[q] /\ todo'[q] = todo[q]
  BY <1>1, <1>3
<1>5. ASSUME NEW x \in Inodes
      PROVE  ref'[x] = ref[x]
               + (Count(cwd'[p], call'[p], todo'[p], x) - Count(cwd[p], call[p], todo[p], x))
               + (Cardinality(TableShare(ftable', x)) - Cardinality(TableShare(ftable, x)))
  <2>1. /\ s \in {Put(i), Unlock(i)} => Steps(todo'[p], x) = Steps(todo[p], x)
        /\ s = Drop(i) => Steps(todo'[p], x) = Steps(todo[p], x) - Hit(i, x)
    BY <1>3, AfterKeeps
  <2>2. /\ s \in {Put(i), Unlock(i)} => ref'[x] = ref[x]
        /\ s = Drop(i) => ref'[x] = ref[x] - Hit(i, x)
        /\ ref[x] \in Int
    <3>1. ref \in [Inodes -> Int] /\ ref[x] \in Int
      BY DEF CallInv, RefTypes
    <3>2. s \in {Put(i), Unlock(i)} => s # Drop(i)
      BY StepsApart
    <3>3. CASE s = Drop(i)
      <4>1. ref' = [ref EXCEPT ![i] = @ - 1]
        BY <1>2, <3>3
      <4>2. ref'[x] = ref[x] - Hit(i, x)
        BY <3>1, <4>1 DEF Hit
      <4> QED
        BY <3>1, <3>2, <3>3, <4>2
    <3>4. CASE s # Drop(i)
      BY <1>2, <3>1, <3>4
    <3> QED
      BY <3>3, <3>4
  <2>3. /\ Count(cwd'[p], call'[p], todo'[p], x) =
             Hit(cwd[p], x) + Hit(call[p].cur, x) + Hit(call[p].other, x) + Steps(todo'[p], x)
        /\ Count(cwd[p], call[p], todo[p], x) =
             Hit(cwd[p], x) + Hit(call[p].cur, x) + Hit(call[p].other, x) + Steps(todo[p], x)
    BY <1>1 DEF Count
  <2>4. Cardinality(TableShare(ftable', x)) - Cardinality(TableShare(ftable, x)) = 0
    BY <1>1, TableFinite, FS_CardinalityType
  <2>5. Steps(todo[p], x) \in Int /\ Steps(todo'[p], x) \in Int
    BY DEF Steps, StepHit
  <2>6. s \in {Put(i), Unlock(i)} \/ s = Drop(i)
    BY <1>2
  <2> QED
    BY <2>1, <2>2, <2>3, <2>4, <2>5, <2>6, HitInt
<1> QED
  BY <1>3, <1>4, <1>5, Balance DEF CallInv

(* A machine that has been started.                                        *)
LEMMA RootHolders ==
  ASSUME NEW c, NEW t, NEW x \in Inodes,
         \A p \in Procs : c[p] = Idle /\ t[p] = << >>
  PROVE  RootRefs[x] = Cardinality(HoldersAt(AtRoot, c, t, NoneOpen, x))
<1> DEFINE S == {q \in Procs : AtRoot[q] = x}
           f == [q \in S |-> <<q, "cwd", 0>>]
<1>1. Idle.cur # x /\ Idle.other # x
  BY Numbers DEF Idle
<1>2. {<<p, "cur", 0>> : p \in {q \in Procs : c[q].cur = x}} = {}
  BY <1>1
<1>3. {<<p, "other", 0>> : p \in {q \in Procs : c[q].other = x}} = {}
  BY <1>1
<1>4. (UNION {{<<p, "todo", k>> : k \in {j \in DOMAIN t[p] : t[p][j] \in {Put(x), Drop(x)}}} : p \in Procs}) = {}
  <2>1. \A p \in Procs : {j \in DOMAIN t[p] : t[p][j] \in {Put(x), Drop(x)}} = {}
    <3>1. DOMAIN << >> = {}
      OBVIOUS
    <3> QED
      BY <3>1
  <2>2. \A p \in Procs : {<<p, "todo", k>> : k \in {j \in DOMAIN t[p] : t[p][j] \in {Put(x), Drop(x)}}} = {}
    BY <2>1, Zenon
  <2> QED
    BY <2>2, Zenon
<1>5. {<<Nobody, "file", g>> : g \in {h \in Files : NoneOpen[h].ip = x}} = {}
  BY Numbers DEF NoneOpen, NoFile
<1>6. HoldersAt(AtRoot, c, t, NoneOpen, x) = {<<q, "cwd", 0>> : q \in S}
  BY <1>2, <1>3, <1>4, <1>5, Zenon DEF HoldersAt
<1>7. {<<q, "cwd", 0>> : q \in S} = {f[q] : q \in S}
  BY Zenon
<1>8. IsFiniteSet(S) /\ f = [q \in S |-> f[q]]
  BY InodesFinite, FS_Subset
<1>9. \A q, r \in S : f[q] = f[r] => q = r
  OBVIOUS
<1> HIDE DEF f
<1>10. Cardinality({f[q] : q \in S}) = Cardinality(S)
  BY <1>8, <1>9, ValuesCounted
<1>11. S = IF x = ROOTINO THEN Procs ELSE {}
  BY DEF AtRoot
<1> HIDE DEF S
<1>12. RootRefs[x] = Cardinality(S)
  BY <1>11, FS_EmptySet DEF RootRefs
<1> QED
  BY <1>6, <1>7, <1>10, <1>12

LEMMA StartedFiles ==
  ASSUME ftable' = NoneOpen, ofile' = Closed
  PROVE  FileInv'
<1>1. ASSUME NEW f \in Files
      PROVE  /\ ftable'[f].ref = Cardinality({p \in Procs : ofile'[p] = f})
             /\ ftable'[f].ref = 0 /\ ftable'[f].ip = 0
  <2>1. {p \in Procs : ofile'[p] = f} = {}
    BY Numbers DEF Closed
  <2>2. Cardinality({p \in Procs : ofile'[p] = f}) = 0
    BY <2>1, FS_EmptySet
  <2> QED
    BY <2>2 DEF NoneOpen, NoFile
<1>2. ExitedClosed'
  BY DEF ExitedClosed, Closed
<1> QED
  BY <1>1, <1>2 DEF FileInv, FileRefs, FilesUsed

LEMMA StartTypes ==
  /\ RootRefs \in [Inodes -> Int] /\ NoneOpen \in [Files -> [ref : Int, ip : Inodes \cup {0}]]
  /\ AtRoot \in [Procs -> Inodes \cup {0}] /\ Closed \in [Procs -> Files \cup {0}]
<1>1. Cardinality(Procs) \in Nat
  BY InodesFinite, FS_CardinalityType
<1> QED
  BY <1>1, Numbers DEF RootRefs, NoneOpen, NoFile, AtRoot, Closed

LEMMA CrashCalls ==
  ASSUME CallInv, Crash
  PROVE  CallTypes' /\ CallsPlaced' /\ EntryRefs' /\ RefTypes' /\ FileInv'
<1>1. /\ \A p \in Procs : At(p, "idle")
      /\ ref' = RootRefs /\ ftable' = NoneOpen /\ cwd' = AtRoot /\ ofile' = Closed
      /\ call' = call /\ todo' = todo /\ lock' = lock
  BY DEF Crash
<1>2. \A p \in Procs : call[p] = Idle /\ todo[p] = << >>
  BY <1>1, AtPlace DEF CallInv, NoSteps
<1>3. RefTypes'
  BY <1>1, StartTypes DEF CallInv, RefTypes
<1>4. CallTypes' /\ CallsPlaced'
  BY <1>1, <1>2 DEF CallInv, CallTypes, CallsPlaced, Idle
<1>5. ASSUME NEW x \in Inodes PROVE ref'[x] = Cardinality(HoldersAt(cwd', call', todo', ftable', x))
  <2>1. \A p \in Procs : call'[p] = Idle /\ todo'[p] = << >>
    BY <1>1, <1>2
  <2>2. RootRefs[x] = Cardinality(HoldersAt(AtRoot, call', todo', NoneOpen, x))
    BY <2>1, RootHolders
  <2> QED
    BY <1>1, <2>2
<1>6. EntryRefs'
  BY <1>5, HoldersNow DEF EntryRefs
<1> QED
  BY <1>1, <1>3, <1>4, <1>6, StartedFiles

LEMMA InitCalls ==
  ASSUME Init
  PROVE  CallTypes /\ CallsPlaced /\ EntryRefs /\ RefTypes /\ FileInv
<1>1. /\ ref = RootRefs /\ ftable = NoneOpen /\ cwd = AtRoot /\ ofile = Closed
      /\ call = [p \in Procs |-> Idle] /\ todo = [p \in Procs |-> << >>]
      /\ lock = [i \in Inodes |-> Nobody]
  BY DEF Init
<1>2. \A p \in Procs : call[p] = Idle /\ todo[p] = << >>
  BY <1>1
<1>3. RefTypes
  BY <1>1, StartTypes DEF RefTypes
<1>4. Idle \in CallRecords /\ << >> \in AnySteps /\ Placed(Idle, << >>) /\ Idle.at = "idle"
  BY DEF Idle, CallRecords, AnySteps, AtMostOne, NoSteps, Placed
<1>5. CallTypes /\ CallsPlaced
  BY <1>1, <1>2, <1>4 DEF CallTypes, CallsPlaced
<1>6. ASSUME NEW x \in Inodes PROVE ref[x] = Cardinality(HoldersAt(cwd, call, todo, ftable, x))
  <2>1. RootRefs[x] = Cardinality(HoldersAt(AtRoot, call, todo, NoneOpen, x))
    BY <1>2, RootHolders
  <2> QED
    BY <1>1, <2>1
<1>7. EntryRefs
  BY <1>6, HoldersNow DEF EntryRefs
<1>8. ASSUME NEW f \in Files
      PROVE  /\ ftable[f].ref = Cardinality({p \in Procs : ofile[p] = f})
             /\ ftable[f].ref = 0 /\ ftable[f].ip = 0
  <2>1. {p \in Procs : ofile[p] = f} = {}
    BY <1>1, Numbers DEF Closed
  <2>2. Cardinality({p \in Procs : ofile[p] = f}) = 0
    BY <2>1, FS_EmptySet
  <2> QED
    BY <1>1, <2>2 DEF NoneOpen, NoFile
<1>9. ExitedClosed
  BY <1>1 DEF ExitedClosed, Closed
<1> QED
  BY <1>3, <1>5, <1>7, <1>8, <1>9 DEF FileInv, FileRefs, FilesUsed
-----------------------------------------------------------------------------
(* The file table *)

Users(o, f) == {p \in Procs : o[p] = f}

OneOpens(p, o, o2) == \A q \in Procs \ {p} : o2[q] = o[q]

(* One process opens or closes a file.                                     *)
LEMMA UsersMove ==
  ASSUME NEW o, NEW o2, NEW p \in Procs, NEW f, OneOpens(p, o, o2)
  PROVE  /\ Cardinality(Users(o2, f)) = Cardinality(Users(o, f)) + Hit(o2[p], f) - Hit(o[p], f)
         /\ Cardinality(Users(o, f)) \in Nat
<1> DEFINE R == Users(o, f) \ {p}
<1>1. IsFiniteSet(Users(o, f)) /\ Cardinality(Users(o, f)) \in Nat
  BY InodesFinite, FS_Subset, FS_CardinalityType DEF Users
<1>2. /\ IsFiniteSet(R)
      /\ Cardinality(R) = IF p \in Users(o, f) THEN Cardinality(Users(o, f)) - 1
                          ELSE Cardinality(Users(o, f))
  BY <1>1, FS_RemoveElement
<1>3. Cardinality(R) = Cardinality(Users(o, f)) - Hit(o[p], f)
  BY <1>1, <1>2 DEF Users, Hit
<1>4. Users(o2, f) = R \cup Flag(Hit(o2[p], f), p)
  BY DEF Users, Flag, Hit, OneOpens
<1>5. p \notin R /\ Hit(o2[p], f) \in {0, 1} /\ Hit(o[p], f) \in {0, 1}
  BY DEF Hit
<1> HIDE DEF R
<1>6. Cardinality(R \cup Flag(Hit(o2[p], f), p)) = Cardinality(R) + Hit(o2[p], f)
  BY <1>2, <1>5, FlagCounted
<1> QED
  BY <1>1, <1>3, <1>4, <1>5, <1>6

LEMMA FileRefsMove ==
  ASSUME FileRefs, NEW p \in Procs, \A q \in Procs \ {p} : ofile'[q] = ofile[q],
         \A f \in Files : ftable'[f].ref = ftable[f].ref + Hit(ofile'[p], f) - Hit(ofile[p], f)
  PROVE  FileRefs'
<1> SUFFICES ASSUME NEW f \in Files
             PROVE  ftable'[f].ref = Cardinality(Users(ofile', f))
  BY DEF FileRefs, Users
<1>1. ftable[f].ref = Cardinality(Users(ofile, f))
  BY DEF FileRefs, Users
<1>2. OneOpens(p, ofile, ofile')
  BY DEF OneOpens
<1>3. Cardinality(Users(ofile', f)) = Cardinality(Users(ofile, f)) + Hit(ofile'[p], f) - Hit(ofile[p], f)
  BY <1>2, UsersMove
<1> QED
  BY <1>1, <1>3

LEMMA HitNoFile == ASSUME NEW f \in Files PROVE Hit(0, f) = 0
BY Numbers DEF Hit

LEMMA OpenedFiles ==
  ASSUME RefTypes, FileInv, NEW p \in Procs, NEW i \in Inodes, cwd[p] # 0, Opened(p, i)
  PROVE  /\ ftable' \in [Files -> [ref : Int, ip : Inodes \cup {0}]]
         /\ cwd' = cwd /\ ofile' \in [Procs -> Files \cup {0}]
         /\ FileInv'
<1>1. CASE ofile[p] = 0 /\ FreeFiles # {}
  <2> DEFINE f == Min(FreeFiles)
             u == [ref |-> 1, ip |-> i]
  <2>1. f \in Files /\ ftable[f].ref = 0
    <3>1. FreeFiles \in SUBSET Nat
      BY DEF FreeFiles, Files
    <3> QED
      BY <1>1, <3>1, MinIn DEF FreeFiles
  <2>2. /\ ftable' = [ftable EXCEPT ![f] = u] /\ ofile' = [ofile EXCEPT ![p] = f]
        /\ cwd' = cwd
    BY <1>1 DEF Opened
  <2>3. u \in [ref : Int, ip : Inodes \cup {0}] /\ u.ref = 1 /\ u.ip # 0
    BY Numbers
  <2> HIDE DEF f, u
  <2>4. /\ ofile'[p] = f /\ \A q \in Procs \ {p} : ofile'[q] = ofile[q]
        /\ ftable'[f] = u /\ \A g \in Files \ {f} : ftable'[g] = ftable[g]
    BY <2>1, <2>2 DEF RefTypes
  <2>5. ASSUME NEW g \in Files
        PROVE  ftable'[g].ref = ftable[g].ref + Hit(ofile'[p], g) - Hit(ofile[p], g)
    <3>1. Hit(ofile[p], g) = 0 /\ ftable[g].ref \in Int
      BY <1>1, HitNoFile DEF RefTypes
    <3>2. CASE g = f
      BY <2>1, <2>3, <2>4, <3>1, <3>2 DEF Hit
    <3>3. CASE g # f
      BY <2>4, <3>1, <3>3 DEF Hit
    <3> QED
      BY <3>2, <3>3
  <2>6. FileRefs'
    BY <2>4, <2>5, FileRefsMove DEF FileInv
  <2>7. FilesUsed'
    BY <2>3, <2>4 DEF FileInv, FilesUsed
  <2>8. ExitedClosed'
    BY <2>2, <2>4 DEF FileInv, ExitedClosed
  <2> QED
    BY <2>1, <2>2, <2>3, <2>6, <2>7, <2>8 DEF RefTypes, FileInv
<1>2. CASE ~(ofile[p] = 0 /\ FreeFiles # {})
  <2>1. UNCHANGED procvars
    BY <1>2, Zenon DEF Opened
  <2> QED
    BY <2>1 DEF procvars, RefTypes, FileInv, FileRefs, FilesUsed, ExitedClosed
<1> QED
  BY <1>1, <1>2

LEMMA CloseFiles ==
  ASSUME RefTypes, FileInv, NEW p \in Procs, Close(p)
  PROVE  RefTypes' /\ FileInv'
<1> DEFINE f == ofile[p]
           u == IF ftable[f].ref = 1 THEN NoFile ELSE [ftable[f] EXCEPT !.ref = @ - 1]
<1>1. f # 0 /\ ofile' = [ofile EXCEPT ![p] = 0] /\ ref' = ref /\ lock' = lock /\ cwd' = cwd
  BY DEF Close
<1>2. f \in Files /\ ftable[f].ip \in Inodes /\ ftable[f].ref \in Nat \ {0}
  BY <1>1, OpenFile
<1>3. ftable' = [ftable EXCEPT ![f] = u]
  BY <1>2 DEF Close, RefTypes
<1>4. /\ u \in [ref : Int, ip : Inodes \cup {0}] /\ u.ref = ftable[f].ref - 1
      /\ u.ref = 0 <=> u.ip = 0
  BY <1>2, Numbers DEF RefTypes, NoFile
<1> HIDE DEF f, u
<1>5. /\ ofile'[p] = 0 /\ \A q \in Procs \ {p} : ofile'[q] = ofile[q]
      /\ ftable'[f] = u /\ \A g \in Files \ {f} : ftable'[g] = ftable[g]
  BY <1>1, <1>2, <1>3 DEF RefTypes
<1>6. ASSUME NEW g \in Files
      PROVE  ftable'[g].ref = ftable[g].ref + Hit(ofile'[p], g) - Hit(ofile[p], g)
  <2>1. Hit(ofile'[p], g) = 0 /\ ftable[g].ref \in Int /\ ofile[p] = f
    BY <1>5, HitNoFile DEF RefTypes, f
  <2>2. CASE g = f
    BY <1>4, <1>5, <2>1, <2>2 DEF Hit
  <2>3. CASE g # f
    BY <1>5, <2>1, <2>3 DEF Hit
  <2> QED
    BY <2>2, <2>3
<1>7. FileRefs'
  BY <1>5, <1>6, FileRefsMove DEF FileInv
<1>8. FilesUsed'
  BY <1>4, <1>5 DEF FileInv, FilesUsed
<1>9. ExitedClosed'
  BY <1>1, <1>5 DEF FileInv, ExitedClosed
<1> QED
  BY <1>1, <1>2, <1>3, <1>4, <1>7, <1>8, <1>9 DEF RefTypes, FileInv

LEMMA ForkFiles ==
  ASSUME RefTypes, FileInv, NEW p \in Procs, NEW q \in Procs, Fork(p, q)
  PROVE  RefTypes' /\ FileInv'
<1>1. /\ cwd[p] # 0 /\ cwd[q] = 0 /\ lock' = lock
      /\ ofile' = [ofile EXCEPT ![q] = ofile[p]] /\ cwd' = [cwd EXCEPT ![q] = cwd[p]]
      /\ ftable' = [f \in Files |-> IF f = ofile[p] THEN [ftable[f] EXCEPT !.ref = @ + 1]
                                    ELSE ftable[f]]
      /\ ref' = [ref EXCEPT ![cwd[p]] = @ + 1]
  BY DEF Fork, Ready, Refer
<1>2. RefTypes'
  BY <1>1 DEF RefTypes
<1>3. ofile[q] = 0
  BY <1>1 DEF FileInv, ExitedClosed
<1>4. ofile'[q] = ofile[p] /\ \A r \in Procs \ {q} : ofile'[r] = ofile[r]
  BY <1>1 DEF RefTypes
<1>5. ASSUME NEW g \in Files
      PROVE  /\ ftable'[g].ref = ftable[g].ref + Hit(ofile'[q], g) - Hit(ofile[q], g)
             /\ ftable'[g].ip = ftable[g].ip
  <2>1. Hit(ofile[q], g) = 0 /\ ftable[g] \in [ref : Int, ip : Inodes \cup {0}]
    BY <1>3, HitNoFile DEF RefTypes
  <2>2. CASE g = ofile[p]
    BY <1>1, <1>4, <2>1, <2>2 DEF Hit
  <2>3. CASE g # ofile[p]
    BY <1>1, <1>4, <2>1, <2>3 DEF Hit
  <2> QED
    BY <2>2, <2>3
<1>6. FileRefs'
  BY <1>4, <1>5, FileRefsMove DEF FileInv
<1>7. FilesUsed'
  <2> SUFFICES ASSUME NEW g \in Files PROVE ftable'[g].ref = 0 <=> ftable'[g].ip = 0
    BY DEF FilesUsed
  <2>1. CASE g = ofile[p]
    <3>1. ftable[g].ip \in Inodes /\ ftable[g].ref \in Nat \ {0}
      BY <2>1, Numbers, OpenFile
    <3>2. ftable'[g].ref = ftable[g].ref + 1
      BY <1>1, <2>1 DEF RefTypes
    <3> QED
      BY <1>5, <3>1, <3>2, Numbers
  <2>2. CASE g # ofile[p]
    BY <1>1, <2>2 DEF FileInv, FilesUsed
  <2> QED
    BY <2>1, <2>2
<1>8. ExitedClosed'
  BY <1>1, <1>4 DEF FileInv, ExitedClosed, RefTypes
<1> QED
  BY <1>2, <1>6, <1>7, <1>8 DEF FileInv

LEMMA FilesStay == ASSUME FileInv, UNCHANGED procvars PROVE FileInv'
BY DEF procvars, FileInv, FileRefs, FilesUsed, ExitedClosed

LEMMA WalkKeeps ==
  ASSUME NEW p \in Procs, Walk(p)
  PROVE  UNCHANGED diskvars /\ UNCHANGED procvars
<1>1. ASSUME NEW i, Begin(p, i) PROVE UNCHANGED diskvars /\ UNCHANGED procvars
  BY <1>1 DEF Begin
<1>2. ASSUME NEW n, WalkOn(p, n) \/ WalkFail(p, n) PROVE UNCHANGED diskvars /\ UNCHANGED procvars
  BY <1>2 DEF WalkOn, WalkFail
<1>3. ASSUME WalkStop(p) \/ WrongKind(p) PROVE UNCHANGED diskvars /\ UNCHANGED procvars
  BY <1>3 DEF WalkStop, WrongKind
<1> QED
  BY <1>1, <1>2, <1>3, Zenon DEF Walk

LEMMA WalkTypes ==
  ASSUME CallInv, FileInv, NEW p \in Procs, Walk(p)
  PROVE  RefTypes' /\ FileInv'
<1> DEFINE Only == UNCHANGED procvars /\ lock' = lock /\ ref' \in [Inodes -> Int]
<1>1. ASSUME NEW i, Refer(i) PROVE ref' \in [Inodes -> Int]
  <2>1. ref \in [Inodes -> Int] /\ ref' = [ref EXCEPT ![i] = ref[i] + 1]
    BY <1>1 DEF CallInv, RefTypes, Refer
  <2>2. i \notin Inodes => ref' = ref
    BY <2>1
  <2>3. i \in Inodes => ref[i] + 1 \in Int
    BY <2>1
  <2> QED
    BY <2>1, <2>2, <2>3
<1>2. ref' = ref => ref' \in [Inodes -> Int]
  BY DEF CallInv, RefTypes
<1>3. ASSUME NEW i, Begin(p, i) PROVE Only
  BY <1>1, <1>3 DEF Begin
<1>4. ASSUME NEW n, WalkOn(p, n) PROVE Only
  BY <1>1, <1>4 DEF WalkOn
<1>5. ASSUME NEW n, WalkFail(p, n) PROVE Only
  BY <1>2, <1>5 DEF WalkFail
<1>6. ASSUME WalkStop(p) \/ WrongKind(p) PROVE Only
  BY <1>2, <1>6 DEF WalkStop, WrongKind
<1> HIDE DEF Only
<1>7. Only
  BY <1>3, <1>4, <1>5, <1>6, Zenon DEF Walk
<1>8. UNCHANGED <<ftable, cwd, ofile>> /\ lock' = lock /\ ref' \in [Inodes -> Int] /\ FileInv'
  BY <1>7, FilesStay DEF Only, procvars
<1> QED
  BY <1>8 DEF CallInv, RefTypes

LEMMA ActTypes ==
  ASSUME CallInv, FileInv, NEW p \in Procs, Act(p)
  PROVE  RefTypes' /\ FileInv'
<1> DEFINE Takes == ref' = ref \/ \E i : Refer(i)
           Holds == lock' \in [Inodes -> Procs \cup {Nobody}]
           Only  == Takes /\ Holds /\ UNCHANGED procvars
<1>0. /\ lock' = lock => Holds
      /\ \A i, q : q \in Procs \cup {Nobody} /\ lock' = [lock EXCEPT ![i] = q] => Holds
      /\ \A i, j : lock' = [lock EXCEPT ![i] = Nobody, ![j] = p] => Holds
  BY DEF CallInv, RefTypes
<1> HIDE DEF Holds
<1>1. ASSUME NEW i, LinkOld(p, i) PROVE Only
  BY <1>0, <1>1, Zenon DEF LinkOld
<1>2. ASSUME UnlinkNone(p) \/ \E n : LinkNew(p, n) PROVE Only
  BY <1>0, <1>2, Zenon DEF LinkNew, UnlinkNone
<1>3. ASSUME NEW n, LinkClash(p, n) PROVE Only
  BY <1>0, <1>3, Zenon DEF LinkClash, procvars
<1>4. ASSUME NEW n, UnlinkFind(p, n) PROVE Only
  BY <1>0, <1>4, Zenon DEF UnlinkFind, procvars
<1>5. ASSUME NEW n, CreateOld(p, n) PROVE Only
  BY <1>0, <1>5, Zenon DEF CreateOld
<1>6. ASSUME NEW k, NEW n, CreateNew(p, k, n) PROVE Only
  BY <1>0, <1>6, Zenon DEF CreateNew
<1>7. ASSUME LinkUndo(p) \/ UnlinkBusy(p) PROVE Only
  BY <1>0, <1>7, Zenon DEF LinkUndo, UnlinkBusy
<1>8. ASSUME UnlinkEntry(p) PROVE Only
  BY <1>0, <1>8, Zenon DEF UnlinkEntry
<1>9. ASSUME UnlinkDec(p) PROVE Only
  BY <1>0, <1>9, Zenon DEF UnlinkDec
<1>10. ASSUME Open(p) \/ Chdir(p) PROVE Takes /\ Holds
  BY <1>0, <1>10, Zenon DEF Open, Chdir
<1>11. ASSUME Created(p) PROVE Takes /\ Holds
  BY <1>0, <1>11, Zenon DEF Created
<1>12. ASSUME CreateTake(p) PROVE Takes /\ Holds
  BY <1>0, <1>12, Zenon DEF CreateTake
<1> HIDE DEF Takes
<1>13. Takes => ref' \in [Inodes -> Int]
  BY DEF Takes, CallInv, RefTypes, Refer
<1>14. ASSUME Takes, Holds, UNCHANGED procvars PROVE RefTypes' /\ FileInv'
  <2>1. UNCHANGED <<ftable, cwd, ofile>> /\ FileInv'
    BY <1>14, FilesStay DEF procvars
  <2> QED
    BY <1>13, <1>14, <2>1 DEF CallInv, RefTypes, Holds
<1>15. ASSUME Takes, Holds, NEW i \in Inodes, cwd[p] # 0, Opened(p, i)
       PROVE  RefTypes' /\ FileInv'
  BY <1>13, <1>15, OpenedFiles DEF CallInv, RefTypes, Holds
<1>16. CASE Chdir(p)
  <2>1. At(p, "walk") /\ ftable' = ftable /\ ofile' = ofile /\ cwd' = [cwd EXCEPT ![p] = call[p].cur]
    BY <1>16 DEF Chdir
  <2>2. call[p].cur \in Inodes /\ cwd[p] # 0
    BY <2>1, AtPlace DEF CallInv
  <2> QED
    BY <1>10, <1>13, <1>16, <2>1, <2>2, Numbers
       DEF Holds, CallInv, RefTypes, FileInv, FileRefs, FilesUsed, ExitedClosed
<1>17. CASE Open(p)
  <2>1. At(p, "walk") /\ Opened(p, call[p].cur)
    BY <1>17 DEF Open
  <2> QED
    BY <1>10, <1>15, <1>17, <2>1, AtPlace DEF CallInv
<1>18. CASE Created(p)
  <2>1. At(p, "made") /\ (Opened(p, call[p].other) \/ UNCHANGED procvars)
    BY <1>18 DEF Created
  <2> QED
    BY <1>11, <1>14, <1>15, <1>18, <2>1, AtPlace DEF CallInv
<1>19. CASE CreateTake(p)
  <2>1. At(p, "old") /\ (Opened(p, call[p].other) \/ UNCHANGED procvars)
    BY <1>19 DEF CreateTake
  <2> QED
    BY <1>12, <1>14, <1>15, <1>19, <2>1, AtPlace DEF CallInv
<1>20. Only => RefTypes' /\ FileInv'
  BY <1>14 DEF Only
<1> HIDE DEF Only
<1> QED
  BY <1>1, <1>2, <1>3, <1>4, <1>5, <1>6, <1>7, <1>8, <1>9, <1>16, <1>17, <1>18, <1>19, <1>20, Zenon DEF Act

LEMMA FinishTypes ==
  ASSUME CallInv, FileInv, NEW p \in Procs, NEW i \in Inodes,
         DoPut(p, i) \/ DoDrop(p, i) \/ DoUnlock(p, i)
  PROVE  RefTypes' /\ FileInv'
<1>1. UNCHANGED procvars
  BY DEF DoPut, DoDrop, DoUnlock
<1>2. ref' \in [Inodes -> Int] /\ lock' \in [Inodes -> Procs \cup {Nobody}]
  BY DEF DoPut, DoDrop, DoUnlock, CallInv, RefTypes
<1> QED
  BY <1>1, <1>2, FilesStay DEF CallInv, RefTypes, procvars

LEMMA ExitTypes ==
  ASSUME CallInv, FileInv, NEW p \in Procs, Exit(p)
  PROVE  RefTypes' /\ FileInv'
BY DEF Exit, CallInv, RefTypes, FileInv, FileRefs, FilesUsed, ExitedClosed
-----------------------------------------------------------------------------
(* What every step does to the references: the first half of the invariant. *)
LEMMA WalkRefs ==
  ASSUME CallInv, DiskTypes, NEW p \in Procs, Walk(p)
  PROVE  CallTypes' /\ CallsPlaced' /\ EntryRefs'
BY BeginCalls, WalkOnCalls, WalkFailCalls, WalkStopCalls, WrongKindCalls, Zenon DEF Walk

LEMMA ActRefs ==
  ASSUME CallInv, DiskTypes, FileInv, NEW p \in Procs, Act(p)
  PROVE  CallTypes' /\ CallsPlaced' /\ EntryRefs'
<1>1. CASE Open(p) \/ Chdir(p) \/ \E i \in Starts(p) : LinkOld(p, i)
  BY <1>1, OpenCalls, ChdirCalls, LinkOldCalls, Zenon DEF FileInv
<1>2. CASE \E n \in Names : LinkNew(p, n) \/ UnlinkFind(p, n) \/ \E k \in Kinds : CreateNew(p, k, n)
  BY <1>2, LinkNewCalls, UnlinkFindCalls, CreateNewCalls, Zenon
<1>3. CASE \/ \E n \in Names \cup {".", ".."} : LinkClash(p, n)
           \/ \E n \in Names \cup Elements \cup {"."} : CreateOld(p, n)
           \/ UnlinkNone(p)
  BY <1>3, LinkClashCalls, CreateOldCalls, UnlinkNoneCalls, Zenon
<1>4. CASE Created(p) \/ CreateTake(p) \/ LinkUndo(p)
  BY <1>4, CreatedCalls, CreateTakeCalls, LinkUndoCalls, Zenon DEF FileInv
<1>5. CASE UnlinkEntry(p) \/ UnlinkDec(p) \/ UnlinkBusy(p)
  BY <1>5, UnlinkEntryCalls, UnlinkDecCalls, UnlinkBusyCalls, Zenon
<1> QED
  BY <1>1, <1>2, <1>3, <1>4, <1>5, Zenon DEF Act

LEMMA NextRefs ==
  ASSUME CallInv, FileInv, DiskTypes, Next
  PROVE  CallInv' /\ FileInv'
<1>1. ASSUME NEW p \in Procs, Walk(p) PROVE CallInv' /\ FileInv'
  BY <1>1, WalkRefs, WalkTypes DEF CallInv
<1>2. ASSUME NEW p \in Procs, Act(p) PROVE CallInv' /\ FileInv'
  BY <1>2, ActRefs, ActTypes DEF CallInv
<1>3. ASSUME NEW p \in Procs, Finish(p) PROVE CallInv' /\ FileInv'
  <2>1. PICK i \in Inodes : DoPut(p, i) \/ DoDrop(p, i) \/ DoUnlock(p, i)
    BY <1>3, Zenon DEF Finish
  <2> QED
    BY <2>1, FinishCalls, FinishTypes DEF CallInv
<1>4. ASSUME NEW p \in Procs, Close(p) PROVE CallInv' /\ FileInv'
  BY <1>4, CloseCalls, CloseFiles DEF CallInv
<1>5. ASSUME NEW p \in Procs, Exit(p) PROVE CallInv' /\ FileInv'
  BY <1>5, ExitCalls, ExitTypes DEF CallInv
<1>6. ASSUME NEW p \in Procs, NEW q \in Procs, Fork(p, q) PROVE CallInv' /\ FileInv'
  BY <1>6, ForkCalls, ForkFiles DEF CallInv
<1>7. CASE Crash
  BY <1>7, CrashCalls DEF CallInv
<1> QED
  BY <1>1, <1>2, <1>3, <1>4, <1>5, <1>6, <1>7, Zenon DEF Next
-----------------------------------------------------------------------------
(* Which locks a process holds.                                            *)
Unlocks(t, x) == \E k \in DOMAIN t : t[k] = Unlock(x)

LEMMA UnlocksOne ==
  ASSUME NEW i, NEW x
  PROVE  ~Unlocks(NoSteps, x) /\ ~Unlocks(<<Put(i)>>, x) /\ ~Unlocks(<<Drop(i)>>, x)
<1>1. ~Unlocks(NoSteps, x)
  BY DEF Unlocks, NoSteps
<1>2. ~Unlocks(<<Put(i)>>, x) /\ ~Unlocks(<<Drop(i)>>, x)
  BY StepsApart DEF Unlocks
<1> QED
  BY <1>1, <1>2

LEMMA UnlocksTwo ==
  ASSUME NEW i, NEW j, NEW x
  PROVE  ~Unlocks(<<Put(i), Put(j)>>, x) /\ ~Unlocks(<<Drop(i), Put(j)>>, x)
BY StepsApart DEF Unlocks

LEMMA UnlocksThree ==
  ASSUME NEW i, NEW j, NEW x
  PROVE  /\ Unlocks(<<Put(i), Unlock(j), Put(j)>>, x) <=> j = x
         /\ Unlocks(<<Drop(i), Unlock(j), Put(j)>>, x) <=> j = x
<1>1. Unlocks(<<Put(i), Unlock(j), Put(j)>>, x) <=> j = x
  BY StepsApart DEF Unlocks
<1>2. Unlocks(<<Drop(i), Unlock(j), Put(j)>>, x) <=> j = x
  BY StepsApart DEF Unlocks
<1> QED
  BY <1>1, <1>2

LEMMA UnlocksRest ==
  ASSUME NEW j, NEW x
  PROVE  Unlocks(<<Unlock(j), Put(j)>>, x) <=> j = x
BY StepsApart DEF Unlocks

LEMMA UnlocksAtMostOne ==
  ASSUME NEW t \in AtMostOne, NEW x
  PROVE  ~Unlocks(t, x)
BY UnlocksOne DEF AtMostOne, OnePut

LEMMA AfterUnlocks ==
  ASSUME NEW t \in AnySteps, t # << >>, NEW x, NEW i
  PROVE  /\ Head(t) \in {Put(i), Drop(i)} => (Unlocks(After(t), x) <=> Unlocks(t, x))
         /\ Head(t) = Unlock(i) => ~Unlocks(After(t), x) /\ (Unlocks(t, x) <=> i = x)
<1>1. CASE t \in OnePut
  <2>1. PICK j \in Inodes : t = <<Put(j)>> \/ t = <<Drop(j)>>
    BY <1>1 DEF OnePut
  <2>2. CASE t = <<Put(j)>>
    <3>1. After(t) = <<Drop(j)>> /\ Head(t) = Put(j)
      BY <2>2, AfterOnePut
    <3>2. ~Unlocks(t, x)
      BY <2>2, UnlocksOne
    <3>3. ~Unlocks(After(t), x)
      BY <3>1, UnlocksOne
    <3> QED
      BY <3>1, <3>2, <3>3, StepsApart
  <2>3. CASE t = <<Drop(j)>>
    <3>1. After(t) = NoSteps /\ Head(t) = Drop(j)
      BY <2>3, AfterOnePut
    <3>2. ~Unlocks(t, x)
      BY <2>3, UnlocksOne
    <3>3. ~Unlocks(After(t), x)
      BY <3>1, UnlocksOne
    <3> QED
      BY <3>1, <3>2, <3>3, StepsApart
  <2> QED
    BY <2>1, <2>2, <2>3
<1>2. CASE t \in TwoPuts
  <2>1. PICK j \in Inodes, k \in Inodes : t = <<Put(j), Put(k)>> \/ t = <<Drop(j), Put(k)>>
    BY <1>2 DEF TwoPuts
  <2>2. CASE t = <<Put(j), Put(k)>>
    <3>1. After(t) = <<Drop(j), Put(k)>> /\ Head(t) = Put(j)
      BY <2>2, AfterTwoPuts
    <3>2. ~Unlocks(t, x)
      BY <2>2, UnlocksTwo
    <3>3. ~Unlocks(After(t), x)
      BY <3>1, UnlocksTwo
    <3> QED
      BY <3>1, <3>2, <3>3, StepsApart
  <2>3. CASE t = <<Drop(j), Put(k)>>
    <3>1. After(t) = <<Put(k)>> /\ Head(t) = Drop(j)
      BY <2>3, AfterTwoPuts
    <3>2. ~Unlocks(t, x)
      BY <2>3, UnlocksTwo
    <3>3. ~Unlocks(After(t), x)
      BY <3>1, UnlocksOne
    <3> QED
      BY <3>1, <3>2, <3>3, StepsApart
  <2> QED
    BY <2>1, <2>2, <2>3
<1>3. CASE t \in Release
  <2>1. PICK j \in Inodes, k \in Inodes :
          \/ t = <<Put(j), Unlock(k), Put(k)>> \/ t = <<Drop(j), Unlock(k), Put(k)>>
          \/ t = <<Unlock(k), Put(k)>>
    BY <1>3 DEF Release
  <2>2. CASE t = <<Put(j), Unlock(k), Put(k)>>
    <3>1. After(t) = <<Drop(j), Unlock(k), Put(k)>> /\ Head(t) = Put(j)
      BY <2>2, AfterRelease
    <3>2. Unlocks(t, x) <=> k = x
      BY <2>2, UnlocksThree
    <3>3. Unlocks(After(t), x) <=> k = x
      <4>1. Unlocks(<<Drop(j), Unlock(k), Put(k)>>, x) <=> k = x
        BY UnlocksThree
      <4> QED
        BY <3>1, <4>1
    <3> QED
      BY <3>1, <3>2, <3>3, StepsApart
  <2>3. CASE t = <<Drop(j), Unlock(k), Put(k)>>
    <3>1. After(t) = <<Unlock(k), Put(k)>> /\ Head(t) = Drop(j)
      BY <2>3, AfterRelease
    <3>2. Unlocks(t, x) <=> k = x
      BY <2>3, UnlocksThree
    <3>3. Unlocks(After(t), x) <=> k = x
      BY <3>1, UnlocksRest
    <3> QED
      BY <3>1, <3>2, <3>3, StepsApart
  <2>4. CASE t = <<Unlock(k), Put(k)>>
    <3>1. After(t) = <<Put(k)>> /\ Head(t) = Unlock(k)
      BY <2>4, AfterRest
    <3>2. Unlocks(t, x) <=> k = x
      BY <2>4, UnlocksRest
    <3>3. ~Unlocks(After(t), x)
      BY <3>1, UnlocksOne
    <3> QED
      BY <3>1, <3>2, <3>3, StepsApart
  <2> QED
    BY <2>1, <2>2, <2>3, <2>4
<1> QED
  BY <1>1, <1>2, <1>3 DEF AnySteps, AtMostOne, NoSteps

(* A process in call c, with the steps t to do, has the lock of i.         *)
Keeps(c, t, i) ==
  \/ c.at \in {"made", "dec"} /\ c.other = i
  \/ c.at = "child" /\ c.cur = i
  \/ Unlocks(t, i)

LocksKept == \A p \in Procs, i \in Inodes : lock[i] = p <=> Keeps(call[p], todo[p], i)

(* Only the locks of the process that makes the step change.               *)
LEMMA LocksMove ==
  ASSUME LocksKept, NEW p \in Procs,
         \A q \in Procs \ {p} : call'[q] = call[q] /\ todo'[q] = todo[q],
         \A i \in Inodes : lock'[i] = p <=> Keeps(call'[p], todo'[p], i),
         \A i \in Inodes : lock'[i] = lock[i] \/ {lock[i], lock'[i]} \subseteq {p, Nobody}
  PROVE  LocksKept'
<1>1. Nobody \notin Procs
  BY FSAssumption DEF FSAssumption
<1> SUFFICES ASSUME NEW q \in Procs, NEW i \in Inodes
             PROVE  lock'[i] = q <=> Keeps(call'[q], todo'[q], i)
  BY DEF LocksKept
<1>2. CASE q = p
  BY <1>2
<1>3. CASE q # p
  <2>1. lock'[i] = q <=> lock[i] = q
    BY <1>1, <1>3
  <2> QED
    BY <1>3, <2>1 DEF LocksKept
<1> QED
  BY <1>2, <1>3

(* The control of a process that has just gone on.                         *)
LEMMA WentOn ==
  ASSUME CallTypes, NEW p \in Procs, NEW c, NEW s, Goto(p, c, s)
  PROVE  /\ call'[p] = c /\ todo'[p] = s
         /\ \A q \in Procs \ {p} : call'[q] = call[q] /\ todo'[q] = todo[q]
BY DEF Goto, CallTypes

(* It goes on without a lock, as it was before.                            *)
LEMMA LocksLeft ==
  ASSUME CallTypes, LocksKept, NEW p \in Procs, NEW c, NEW s, Goto(p, c, s), lock' = lock,
         todo[p] = NoSteps, call[p].at \notin {"made", "dec", "child"},
         c.at \notin {"made", "dec", "child"}, s \in AtMostOne \cup TwoPuts
  PROVE  LocksKept'
<1>1. /\ call'[p] = c /\ todo'[p] = s
      /\ \A q \in Procs \ {p} : call'[q] = call[q] /\ todo'[q] = todo[q]
  BY WentOn
<1>2. ASSUME NEW i \in Inodes PROVE ~Unlocks(s, i) /\ ~Unlocks(NoSteps, i)
  <2>1. CASE s \in TwoPuts
    <3>1. PICK j \in Inodes, k \in Inodes : s = <<Put(j), Put(k)>> \/ s = <<Drop(j), Put(k)>>
      BY <2>1 DEF TwoPuts
    <3> QED
      BY <3>1, UnlocksTwo, UnlocksOne
  <2>2. CASE s \in AtMostOne
    BY <2>2, UnlocksAtMostOne, UnlocksOne
  <2> QED
    BY <2>1, <2>2
<1>3. ASSUME NEW i \in Inodes
      PROVE  lock[i] # p /\ ~Keeps(call'[p], todo'[p], i)
  BY <1>1, <1>2 DEF LocksKept, Keeps
<1> QED
  BY <1>1, <1>3, LocksMove

KeepsOnly(c, s, j) == \A i \in Inodes : Keeps(c, s, i) <=> i = j

(* It goes on with call c, holding lock j too or letting go of it.         *)
LEMMA LocksTaken ==
  ASSUME CallTypes, LocksKept, RefTypes, NEW p \in Procs, NEW c, NEW s, NEW j \in Inodes,
         Goto(p, c, s), lock' = [lock EXCEPT ![j] = p], lock[j] = Nobody,
         todo[p] = NoSteps, call[p].at \notin {"made", "dec", "child"},
         KeepsOnly(c, s, j)
  PROVE  LocksKept'
<1>1. /\ call'[p] = c /\ todo'[p] = s
      /\ \A q \in Procs \ {p} : call'[q] = call[q] /\ todo'[q] = todo[q]
  BY WentOn
<1>2. ASSUME NEW i \in Inodes PROVE lock[i] # p
  BY UnlocksOne DEF LocksKept, Keeps
<1>3. \A i \in Inodes : lock'[i] = IF i = j THEN p ELSE lock[i]
  BY DEF RefTypes
<1>4. \A i \in Inodes : lock'[i] = p <=> Keeps(call'[p], todo'[p], i)
  BY <1>1, <1>2, <1>3 DEF KeepsOnly
<1>5. \A i \in Inodes : lock'[i] = lock[i] \/ {lock[i], lock'[i]} \subseteq {p, Nobody}
  BY <1>3
<1> QED
  BY <1>1, <1>4, <1>5, LocksMove

LEMMA LocksFreed ==
  ASSUME CallTypes, LocksKept, RefTypes, NEW p \in Procs, NEW c, NEW s, NEW j \in Inodes,
         Goto(p, c, s), lock' = [lock EXCEPT ![j] = Nobody],
         \A i \in Inodes : Keeps(call[p], todo[p], i) <=> i = j,
         \A i \in Inodes : ~Keeps(c, s, i)
  PROVE  LocksKept'
<1>1. /\ call'[p] = c /\ todo'[p] = s
      /\ \A q \in Procs \ {p} : call'[q] = call[q] /\ todo'[q] = todo[q]
  BY WentOn
<1>2. \A i \in Inodes : lock[i] = p <=> i = j
  BY DEF LocksKept
<1>3. \A i \in Inodes : lock'[i] = IF i = j THEN Nobody ELSE lock[i]
  BY DEF RefTypes
<1>4. Nobody # p
  BY FSAssumption DEF FSAssumption
<1>5. \A i \in Inodes : lock'[i] = p <=> Keeps(call'[p], todo'[p], i)
  BY <1>1, <1>2, <1>3, <1>4
<1>6. \A i \in Inodes : lock'[i] = lock[i] \/ {lock[i], lock'[i]} \subseteq {p, Nobody}
  BY <1>2, <1>3
<1> QED
  BY <1>1, <1>5, <1>6, LocksMove

LEMMA LocksSame == ASSUME LocksKept, UNCHANGED <<lock, call, todo>> PROVE LocksKept'
BY DEF LocksKept

(* What a call keeps at its places.                                        *)
LEMMA KeepsAt ==
  ASSUME NEW c, NEW i, NEW s \in AtMostOne
  PROVE  /\ c.at \in {"made", "dec"} => (Keeps(c, s, i) <=> c.other = i)
         /\ c.at = "child" => (Keeps(c, s, i) <=> c.cur = i)
         /\ c.at \notin {"made", "dec", "child"} => ~Keeps(c, s, i)
BY UnlocksAtMostOne DEF Keeps

LEMMA WalkLocks ==
  ASSUME CallInv, LocksKept, NEW p \in Procs, Walk(p)
  PROVE  LocksKept'
<1>0. Idle.at = "idle"
  BY DEF Idle
<1>1. ASSUME NEW i \in Starts(p), Begin(p, i) PROVE LocksKept'
  <2> DEFINE c == [Idle EXCEPT !.at = "walk", !.cur = i]
  <2>1. At(p, "idle") /\ Goto(p, c, NoSteps) /\ lock' = lock
    BY <1>1 DEF Begin, Ready, NoSteps
  <2>2. c.at = "walk" /\ NoSteps \in AtMostOne
    BY DEF Idle, AtMostOne
  <2> HIDE DEF c
  <2> QED
    BY <2>1, <2>2, AtPlace, LocksLeft DEF CallInv
<1>2. ASSUME NEW c, NEW s \in AtMostOne, Goto(p, c, s), lock' = lock, At(p, "walk"),
             c.at \in {"walk", "parent", "undo", "idle"}
      PROVE  LocksKept'
  BY <1>2, AtPlace, LocksLeft DEF CallInv
<1>3. /\ \A i \in Inodes : <<Put(i)>> \in AtMostOne
      /\ NoSteps \in AtMostOne
  BY DEF AtMostOne, OnePut
<1>4. At(p, "walk") => call[p] \in CallRecords /\ call[p].at = "walk" /\ call[p].cur \in Inodes
  BY AtPlace DEF CallInv
<1>5. ASSUME NEW n, WalkOn(p, n) PROVE LocksKept'
  <2> DEFINE c == [call[p] EXCEPT !.cur = entry[call[p].cur][n]]
  <2>1. At(p, "walk") /\ Goto(p, c, <<Put(call[p].cur)>>) /\ lock' = lock
    BY <1>5 DEF WalkOn
  <2>2. c.at = "walk"
    BY <1>4, <2>1 DEF CallRecords
  <2> HIDE DEF c
  <2> QED
    BY <1>2, <1>3, <1>4, <2>1, <2>2
<1>6. ASSUME NEW n, WalkFail(p, n) PROVE LocksKept'
  <2>1. At(p, "walk") /\ Goto(p, Failed(call[p]), <<Put(call[p].cur)>>) /\ lock' = lock
    BY <1>6 DEF WalkFail
  <2>2. Failed(call[p]).at \in {"idle", "undo"}
    BY <1>0 DEF Failed, Idle
  <2> QED
    BY <1>2, <1>3, <1>4, <2>1, <2>2
<1>7. ASSUME WalkStop(p) PROVE LocksKept'
  <2> DEFINE c == [call[p] EXCEPT !.at = "parent"]
  <2>1. At(p, "walk") /\ Goto(p, c, NoSteps) /\ lock' = lock
    BY <1>7 DEF WalkStop, NoSteps
  <2>2. c.at = "parent"
    BY <1>4, <2>1 DEF CallRecords
  <2> HIDE DEF c
  <2> QED
    BY <1>2, <1>3, <2>1, <2>2
<1>8. ASSUME WrongKind(p) PROVE LocksKept'
  <2>1. At(p, "walk") /\ Goto(p, Idle, <<Put(call[p].cur)>>) /\ lock' = lock
    BY <1>8 DEF WrongKind
  <2> QED
    BY <1>0, <1>2, <1>3, <1>4, <2>1
<1> QED
  BY <1>1, <1>5, <1>6, <1>7, <1>8, Zenon DEF Walk

LEMMA OpenedGoes ==
  ASSUME NEW p \in Procs, NEW i \in Inodes, Opened(p, i)
  PROVE  \E s \in AtMostOne : Goto(p, Idle, s)
<1>1. << >> \in AtMostOne /\ <<Put(i)>> \in AtMostOne
  BY DEF AtMostOne, OnePut, NoSteps
<1>2. Goto(p, Idle, << >>) \/ Goto(p, Idle, <<Put(i)>>)
  BY Zenon DEF Opened
<1> QED
  BY <1>1, <1>2

LEMMA ActLocks ==
  ASSUME CallInv, LocksKept, DiskTypes, NEW p \in Procs, Act(p)
  PROVE  LocksKept'
<1>0. Idle.at = "idle"
  BY DEF Idle
<1>1. ASSUME NEW c, NEW s \in AtMostOne \cup TwoPuts, Goto(p, c, s), lock' = lock,
             NEW a \in {"walk", "parent", "old", "undo"}, At(p, a),
             c.at \in {"walk", "old", "idle"}
      PROVE  LocksKept'
  BY <1>1, AtPlace, LocksLeft DEF CallInv
<1>2. /\ \A i \in Inodes : <<Put(i)>> \in AtMostOne
      /\ \A i, j \in Inodes : <<Put(i), Put(j)>> \in TwoPuts
      /\ NoSteps \in AtMostOne
  BY DEF AtMostOne, OnePut, TwoPuts
<1>3. \A a : At(p, a) =>
        /\ call[p] \in CallRecords /\ call[p].at = a /\ todo[p] = NoSteps
        /\ a \in {"walk", "parent", "child"} => call[p].cur \in Inodes
        /\ a \in {"made", "old", "dec", "undo", "child"} => call[p].other \in Inodes
  BY AtPlace DEF CallInv
<1>4. CASE Open(p)
  <2>1. At(p, "walk") /\ lock' = lock /\ Opened(p, call[p].cur)
    BY <1>4 DEF Open
  <2> QED
    BY <1>0, <1>1, <1>3, <2>1, OpenedGoes
<1>5. CASE Chdir(p)
  <2>1. At(p, "walk") /\ lock' = lock /\ Goto(p, Idle, <<Put(cwd[p])>>)
    BY <1>5 DEF Chdir
  <2>2. cwd[p] \in Inodes
    BY <2>1, AtPlace DEF CallInv, RefTypes
  <2> QED
    BY <1>0, <1>1, <1>2, <2>1, <2>2
<1>6. ASSUME NEW i, LinkOld(p, i) PROVE LocksKept'
  <2> DEFINE c == [call[p] EXCEPT !.cur = i, !.other = call[p].cur]
  <2>1. At(p, "walk") /\ lock' = lock /\ Goto(p, c, NoSteps)
    BY <1>6 DEF LinkOld, NoSteps
  <2>2. c.at = "walk"
    BY <1>3, <2>1 DEF CallRecords
  <2> HIDE DEF c
  <2> QED
    BY <1>1, <1>2, <2>1, <2>2
<1>7. ASSUME NEW n, LinkNew(p, n) PROVE LocksKept'
  <2>1. /\ At(p, "parent") /\ lock' = lock /\ call[p].other # 0
        /\ Goto(p, Idle, <<Put(call[p].cur), Put(call[p].other)>>)
    BY <1>7 DEF LinkNew
  <2>2. call[p].cur \in Inodes /\ call[p].other \in Inodes
    BY <1>3, <2>1 DEF CallRecords
  <2> QED
    BY <1>0, <1>1, <1>2, <2>1, <2>2
<1>8. ASSUME NEW n, LinkClash(p, n) PROVE LocksKept'
  <2> DEFINE d == call[p].cur
             j == Lookup(d, n)
             c == Failed(call[p])
             s == <<Put(j), Unlock(d), Put(d)>>
  <2>1. /\ At(p, "parent") /\ lock[d] = Nobody /\ lock' = [lock EXCEPT ![d] = p]
        /\ Goto(p, c, s)
    BY <1>8 DEF LinkClash, Lockable
  <2>2. c.at \notin {"made", "dec", "child"} /\ d \in Inodes
    BY <1>0, <1>3, <2>1 DEF Failed, Idle
  <2> HIDE DEF d, j
  <2>3. \A i \in Inodes : Unlocks(s, i) <=> i = d
    BY UnlocksThree
  <2> HIDE DEF c, s
  <2>4. KeepsOnly(c, s, d)
    BY <2>2, <2>3 DEF Keeps, KeepsOnly
  <2>5. todo[p] = NoSteps /\ call[p].at = "parent"
    BY <1>3, <2>1
  <2> QED
    BY <2>1, <2>2, <2>4, <2>5, LocksTaken DEF CallInv
<1>9. ASSUME NEW n \in Names, UnlinkFind(p, n) PROVE LocksKept'
  <2> DEFINE d == call[p].cur
             c == [call[p] EXCEPT !.at = "child", !.name = n, !.other = entry[d][n]]
  <2>1. /\ At(p, "parent") /\ lock[d] = Nobody /\ lock' = [lock EXCEPT ![d] = p]
        /\ Goto(p, c, NoSteps)
    BY <1>9 DEF UnlinkFind, Lockable, NoSteps
  <2>2. c.at = "child" /\ c.cur = d /\ d \in Inodes
    BY <1>3, <2>1 DEF CallRecords
  <2> HIDE DEF c, d
  <2>3. KeepsOnly(c, NoSteps, d)
    BY <1>2, <2>2, KeepsAt DEF KeepsOnly
  <2>4. todo[p] = NoSteps /\ call[p].at = "parent"
    BY <1>3, <2>1
  <2> QED
    BY <2>1, <2>2, <2>3, <2>4, LocksTaken DEF CallInv
<1>10. ASSUME UnlinkNone(p) PROVE LocksKept'
  <2>1. At(p, "parent") /\ lock' = lock /\ Goto(p, Idle, <<Put(call[p].cur)>>)
    BY <1>10 DEF UnlinkNone
  <2> QED
    BY <1>0, <1>1, <1>2, <1>3, <2>1
<1>11. ASSUME NEW n, CreateOld(p, n) PROVE LocksKept'
  <2> DEFINE c == [Idle EXCEPT !.at = "old", !.other = Lookup(call[p].cur, n)]
  <2>1. At(p, "parent") /\ lock' = lock /\ Goto(p, c, <<Put(call[p].cur)>>)
    BY <1>11 DEF CreateOld
  <2>2. c.at = "old"
    BY DEF Idle
  <2> HIDE DEF c
  <2> QED
    BY <1>1, <1>2, <1>3, <2>1, <2>2
<1>12. ASSUME NEW n, NEW k, CreateNew(p, k, n) PROVE LocksKept'
  <2> DEFINE i == Min(FreeInodes)
             c == [Idle EXCEPT !.at = "made", !.kind = k, !.other = i]
             s == <<Put(call[p].cur)>>
  <2>1. At(p, "parent") /\ lock[i] = Nobody /\ lock' = [lock EXCEPT ![i] = p] /\ Goto(p, c, s)
    BY <1>12 DEF CreateNew
  <2>2. i \in Inodes
    <3>1. FreeInodes \in SUBSET Nat /\ FreeInodes # {}
      BY <1>12 DEF CreateNew, FreeInodes, Inodes
    <3> QED
      BY <3>1, MinIn, SMTT(30) DEF FreeInodes
  <2>3. c.at = "made" /\ c.other = i /\ s \in AtMostOne
    BY <1>2, <1>3, <2>1 DEF Idle
  <2> HIDE DEF c, s, i
  <2>4. KeepsOnly(c, s, i)
    BY <2>3, KeepsAt DEF KeepsOnly
  <2>5. todo[p] = NoSteps /\ call[p].at = "parent"
    BY <1>3, <2>1
  <2> QED
    BY <2>1, <2>2, <2>4, <2>5, LocksTaken DEF CallInv
<1>13. ASSUME NEW i \in Inodes, NEW s \in AtMostOne, Goto(p, Idle, s), lock' = [lock EXCEPT ![i] = Nobody],
              NEW a \in {"made", "dec"}, At(p, a), call[p].other = i
       PROVE  LocksKept'
  <2>1. /\ \A j \in Inodes : Keeps(call[p], todo[p], j) <=> j = i
        /\ \A j \in Inodes : ~Keeps(Idle, s, j)
    BY <1>0, <1>2, <1>3, <1>13, KeepsAt
  <2> QED
    BY <1>13, <2>1, LocksFreed DEF CallInv
<1>14. CASE Created(p)
  <2>1. /\ At(p, "made") /\ lock' = [lock EXCEPT ![call[p].other] = Nobody]
        /\ Opened(p, call[p].other) \/ Goto(p, Idle, <<Put(call[p].other)>>)
    BY <1>14 DEF Created
  <2>2. call[p].other \in Inodes
    BY <1>3, <2>1
  <2>3. \E s \in AtMostOne : Goto(p, Idle, s)
    BY <1>2, <2>1, <2>2, OpenedGoes
  <2> QED
    BY <1>13, <2>1, <2>2, <2>3
<1>15. CASE CreateTake(p)
  <2>1. /\ At(p, "old") /\ lock' = lock
        /\ Opened(p, call[p].other) \/ Goto(p, Idle, <<Put(call[p].other)>>)
    BY <1>15 DEF CreateTake
  <2>2. \E s \in AtMostOne : Goto(p, Idle, s)
    BY <1>2, <1>3, <2>1, OpenedGoes
  <2> QED
    BY <1>0, <1>1, <2>1, <2>2
<1>16. CASE LinkUndo(p)
  <2>1. At(p, "undo") /\ lock' = lock /\ Goto(p, Idle, <<Put(call[p].other)>>)
    BY <1>16 DEF LinkUndo
  <2> QED
    BY <1>0, <1>1, <1>2, <1>3, <2>1
<1>17. CASE UnlinkEntry(p)
  <2> DEFINE d == call[p].cur
             i == call[p].other
             c == [Idle EXCEPT !.at = "dec", !.other = i]
             s == <<Put(d)>>
  <2>1. /\ At(p, "child") /\ lock[i] = Nobody
        /\ lock' = [lock EXCEPT ![d] = Nobody, ![i] = p] /\ Goto(p, c, s)
    BY <1>17 DEF UnlinkEntry, Lockable
  <2>2. d \in Inodes /\ i \in Inodes /\ c.at = "dec" /\ c.other = i /\ s \in AtMostOne
    BY <1>2, <1>3, <2>1 DEF Idle
  <2>3. \A j \in Inodes : lock[j] = p <=> j = d
    BY <1>2, <1>3, <2>1, KeepsAt DEF LocksKept
  <2> HIDE DEF c, s, d, i
  <2>4. \A j \in Inodes : Keeps(c, s, j) <=> j = i
    BY <2>2, KeepsAt
  <2>5. Nobody # p
    BY FSAssumption DEF FSAssumption
  <2>6. /\ call'[p] = c /\ todo'[p] = s
        /\ \A q \in Procs \ {p} : call'[q] = call[q] /\ todo'[q] = todo[q]
    BY <2>1, WentOn DEF CallInv
  <2>7. \A j \in Inodes : lock'[j] = IF j = i THEN p ELSE IF j = d THEN Nobody ELSE lock[j]
    BY <2>1, <2>2 DEF CallInv, RefTypes
  <2>8. \A j \in Inodes : lock'[j] = p <=> Keeps(call'[p], todo'[p], j)
    BY <2>3, <2>4, <2>5, <2>6, <2>7
  <2>9. \A j \in Inodes : lock'[j] = lock[j] \/ {lock[j], lock'[j]} \subseteq {p, Nobody}
    BY <2>1, <2>3, <2>7
  <2> QED
    BY <2>6, <2>8, <2>9, LocksMove
<1>18. CASE UnlinkDec(p)
  <2>1. /\ At(p, "dec") /\ lock' = [lock EXCEPT ![call[p].other] = Nobody]
        /\ Goto(p, Idle, <<Put(call[p].other)>>)
    BY <1>18 DEF UnlinkDec
  <2> QED
    BY <1>2, <1>3, <1>13, <2>1
<1>19. CASE UnlinkBusy(p)
  <2> DEFINE d == call[p].cur
             s == <<Put(call[p].other), Unlock(d), Put(d)>>
  <2>1. At(p, "child") /\ lock' = lock /\ Goto(p, Idle, s)
    BY <1>19 DEF UnlinkBusy
  <2>2. \A j \in Inodes : lock[j] = p <=> j = d
    BY <1>2, <1>3, <2>1, KeepsAt DEF LocksKept
  <2>3. \A j \in Inodes : Unlocks(s, j) <=> j = d
    BY UnlocksThree
  <2> HIDE DEF s, d
  <2>4. \A j \in Inodes : Keeps(Idle, s, j) <=> j = d
    BY <1>0, <2>3 DEF Keeps
  <2>5. /\ call'[p] = Idle /\ todo'[p] = s
        /\ \A q \in Procs \ {p} : call'[q] = call[q] /\ todo'[q] = todo[q]
    BY <2>1, WentOn DEF CallInv
  <2>6. \A j \in Inodes : lock'[j] = p <=> Keeps(call'[p], todo'[p], j)
    BY <2>1, <2>2, <2>4, <2>5
  <2> QED
    BY <2>1, <2>5, <2>6, LocksMove
<1> QED
  BY <1>4, <1>5, <1>6, <1>7, <1>8, <1>9, <1>10, <1>11, <1>12, <1>14, <1>15, <1>16, <1>17, <1>18,
     <1>19, Zenon DEF Act

LEMMA FinishLocks ==
  ASSUME CallInv, LocksKept, NEW p \in Procs, NEW i \in Inodes,
         DoPut(p, i) \/ DoDrop(p, i) \/ DoUnlock(p, i)
  PROVE  LocksKept'
<1>1. PICK s \in {Put(i), Unlock(i), Drop(i)} :
        /\ Does(p, s) /\ call' = call /\ cwd' = cwd
        /\ s = Unlock(i) => lock' = [lock EXCEPT ![i] = Nobody]
        /\ s # Unlock(i) => lock' = lock
  BY StepsApart DEF DoPut, DoDrop, DoUnlock, procvars
<1>2. /\ todo[p] \in AnySteps /\ todo[p] # << >> /\ Head(todo[p]) = s
      /\ todo'[p] = After(todo[p])
      /\ \A q \in Procs \ {p} : todo'[q] = todo[q]
  BY <1>1, StepTaken DEF CallInv
<1>3. CASE s = Unlock(i)
  <2>1. \A j \in Inodes : ~Unlocks(todo'[p], j) /\ (Unlocks(todo[p], j) <=> i = j)
    BY <1>2, <1>3, AfterUnlocks
  <2>2. call[p].at \notin {"made", "dec", "child"}
    <3>1. todo[p] \notin AtMostOne
      BY <2>1, UnlocksAtMostOne
    <3>2. Placed(call[p], todo[p])
      BY DEF CallInv, CallsPlaced
    <3> QED
      BY <1>2, <3>1, <3>2 DEF Placed, AtMostOne, Idle
  <2>3. \A j \in Inodes : lock[j] = p <=> j = i
    BY <2>1, <2>2 DEF LocksKept, Keeps
  <2>4. \A j \in Inodes : lock'[j] = IF j = i THEN Nobody ELSE lock[j]
    BY <1>1, <1>3 DEF CallInv, RefTypes
  <2>5. Nobody # p
    BY FSAssumption DEF FSAssumption
  <2>6. \A j \in Inodes : lock'[j] = p <=> Keeps(call'[p], todo'[p], j)
    BY <1>1, <2>1, <2>2, <2>3, <2>4, <2>5 DEF Keeps
  <2>7. \A j \in Inodes : lock'[j] = lock[j] \/ {lock[j], lock'[j]} \subseteq {p, Nobody}
    BY <2>3, <2>4
  <2> QED
    BY <1>1, <1>2, <2>6, <2>7, LocksMove
<1>4. CASE s # Unlock(i)
  <2>1. \A j \in Inodes : Unlocks(todo'[p], j) <=> Unlocks(todo[p], j)
    BY <1>1, <1>2, <1>4, AfterUnlocks
  <2>2. \A j \in Inodes : lock'[j] = p <=> Keeps(call'[p], todo'[p], j)
    BY <1>1, <1>4, <2>1 DEF LocksKept, Keeps
  <2> QED
    BY <1>1, <1>2, <1>4, <2>2, LocksMove
<1> QED
  BY <1>3, <1>4

LEMMA InitLocks == ASSUME Init PROVE LocksKept
<1>1. /\ lock = [i \in Inodes |-> Nobody] /\ Nobody \notin Procs
      /\ \A p \in Procs : call[p] = Idle /\ todo[p] = NoSteps
  BY FSAssumption DEF Init, FSAssumption, NoSteps
<1>2. \A i : ~Keeps(Idle, NoSteps, i)
  BY UnlocksOne DEF Keeps, Idle
<1> QED
  BY <1>1, <1>2 DEF LocksKept

LEMMA NextLocks ==
  ASSUME CallInv, FileInv, DiskTypes, LocksKept, Next
  PROVE  LocksKept'
<1>1. ASSUME NEW p \in Procs, Walk(p) PROVE LocksKept'
  BY <1>1, WalkLocks
<1>2. ASSUME NEW p \in Procs, Act(p) PROVE LocksKept'
  BY <1>2, ActLocks
<1>3. ASSUME NEW p \in Procs, Finish(p) PROVE LocksKept'
  <2>1. PICK i \in Inodes : DoPut(p, i) \/ DoDrop(p, i) \/ DoUnlock(p, i)
    BY <1>3, Zenon DEF Finish
  <2> QED
    BY <2>1, FinishLocks
<1>4. ASSUME NEW p \in Procs, NEW i \in Inodes, At(p, "idle"), Goto(p, Idle, <<Put(i)>>), lock' = lock
      PROVE  LocksKept'
  <2>1. call[p].at = "idle" /\ todo[p] = NoSteps /\ Idle.at = "idle" /\ <<Put(i)>> \in AtMostOne
    BY <1>4, AtPlace DEF CallInv, Idle, AtMostOne, OnePut
  <2> QED
    BY <1>4, <2>1, LocksLeft DEF CallInv
<1>5. ASSUME NEW p \in Procs, Close(p) PROVE LocksKept'
  <2>1. ofile[p] # 0 /\ At(p, "idle") /\ lock' = lock
    BY <1>5 DEF Close, Ready
  <2>2. \/ UNCHANGED <<call, todo>>
        \/ Goto(p, Idle, <<Put(ftable[ofile[p]].ip)>>)
    BY <1>5 DEF Close
  <2>3. ftable[ofile[p]].ip \in Inodes
    BY <2>1, OpenFile DEF CallInv
  <2> QED
    BY <1>4, <2>1, <2>2, <2>3, LocksSame
<1>6. ASSUME NEW p \in Procs, Exit(p) PROVE LocksKept'
  <2>1. At(p, "idle") /\ lock' = lock /\ cwd[p] # 0 /\ Goto(p, Idle, <<Put(cwd[p])>>)
    BY <1>6 DEF Exit, Ready
  <2>2. cwd[p] \in Inodes
    BY <2>1 DEF CallInv, RefTypes
  <2> QED
    BY <1>4, <2>1, <2>2
<1>7. ASSUME NEW p \in Procs, NEW q \in Procs, Fork(p, q) PROVE LocksKept'
  BY <1>7, LocksSame DEF Fork
<1>8. CASE Crash
  BY <1>8, LocksSame DEF Crash
<1> QED
  BY <1>1, <1>2, <1>3, <1>5, <1>6, <1>7, <1>8, Zenon DEF Next
=============================================================================
