-------------------------- MODULE FileSystemProofs --------------------------
(***************************************************************************)
(* Proofs about FileSystem: the inodes, their links and the tree of names. *)
(*                                                                         *)
(* The inductive invariant FSInv is that of FileCallProofs with DiskInv:   *)
(* the in-core inodes are those on disk, a call can rely on what it found  *)
(* while it still holds the lock or the link, nlink is never less than the *)
(* links, and names lead down.                                             *)
(***************************************************************************)
EXTENDS FileCallProofs

(* What counts as a link, for any values of the variables.                 *)
LinksAt(e, k, c, i) ==
  {x \in Inodes \X Names : e[x[1]][x[2]] = i} \cup
  {<<i, n>> : n \in {m \in Names : e[i][m] # 0 /\ k[e[i][m]].type = "dir"}} \cup
  {<<p, "link", 0>> : p \in {q \in Procs : Relinking(c[q]) /\ c[q].other = i}} \cup
  {<<p, "dec", 0>> : p \in {q \in Procs : c[q].at = "dec" /\ c[q].other = i}} \cup
  (IF i = ROOTINO THEN {<<i, "root", 0>>} ELSE {})

LEMMA LinksNow ==
  /\ \A i : Links(i) = LinksAt(entry, dinode, call, i)
  /\ \A i : Links(i)' = LinksAt(entry', dinode', call', i)
BY DEF Links, LinksAt

(* One kind of link at a time.                                             *)
LEMMA LinkKinds ==
  ASSUME NEW e, NEW k, NEW c, NEW i \in Inodes, NEW x
  PROVE  x \in LinksAt(e, k, c, i) <=>
           \/ \E d \in Inodes, n \in Names : x = <<d, n>> /\ e[d][n] = i
           \/ \E n \in Names : x = <<i, n>> /\ e[i][n] # 0 /\ k[e[i][n]].type = "dir"
           \/ \E p \in Procs : x = <<p, "link", 0>> /\ Relinking(c[p]) /\ c[p].other = i
           \/ \E p \in Procs : x = <<p, "dec", 0>> /\ c[p].at = "dec" /\ c[p].other = i
           \/ i = ROOTINO /\ x = <<i, "root", 0>>
<1>1. x \in {y \in Inodes \X Names : e[y[1]][y[2]] = i} <=>
        \E d \in Inodes, n \in Names : x = <<d, n>> /\ e[d][n] = i
  OBVIOUS
<1>2. x \in {<<i, n>> : n \in {m \in Names : e[i][m] # 0 /\ k[e[i][m]].type = "dir"}} <=>
        \E n \in Names : x = <<i, n>> /\ e[i][n] # 0 /\ k[e[i][n]].type = "dir"
  BY Zenon
<1>3. x \in {<<p, "link", 0>> : p \in {q \in Procs : Relinking(c[q]) /\ c[q].other = i}} <=>
        \E p \in Procs : x = <<p, "link", 0>> /\ Relinking(c[p]) /\ c[p].other = i
  BY Zenon
<1>4. x \in {<<p, "dec", 0>> : p \in {q \in Procs : c[q].at = "dec" /\ c[q].other = i}} <=>
        \E p \in Procs : x = <<p, "dec", 0>> /\ c[p].at = "dec" /\ c[p].other = i
  BY Zenon
<1>5. x \in (IF i = ROOTINO THEN {<<i, "root", 0>>} ELSE {}) <=> i = ROOTINO /\ x = <<i, "root", 0>>
  OBVIOUS
<1> QED
  BY <1>1, <1>2, <1>3, <1>4, <1>5, Zenon DEF LinksAt

LEMMA LinksFinite ==
  ASSUME NEW e, NEW k, NEW c, NEW i \in Inodes
  PROVE  IsFiniteSet(LinksAt(e, k, c, i)) /\ Cardinality(LinksAt(e, k, c, i)) \in Nat
<1> DEFINE f == [p \in Procs |-> <<p, "link", 0>>]
           g == [p \in Procs |-> <<p, "dec", 0>>]
           A == Inodes \X Names
           F == {f[p] : p \in Procs}
           G == {g[p] : p \in Procs}
           R == {<<ROOTINO, "root", 0>>}
<1>1. IsFiniteSet(A) /\ IsFiniteSet(R)
  BY InodesFinite, FS_Product, FS_Singleton
<1>2. IsFiniteSet(F) /\ IsFiniteSet(G)
  BY InodesFinite, ValuesFinite
<1>3. \A p \in Procs : <<p, "link", 0>> \in F /\ <<p, "dec", 0>> \in G
  <2>1. \A p \in Procs : f[p] = <<p, "link", 0>> /\ g[p] = <<p, "dec", 0>>
    OBVIOUS
  <2> HIDE DEF f, g
  <2> QED
    BY <2>1, Zenon
<1>4. \A d \in Inodes, n \in Names : <<d, n>> \in A
  OBVIOUS
<1>5. <<ROOTINO, "root", 0>> \in R
  OBVIOUS
<1> HIDE DEF A, F, G, R, f, g
<1>6. ASSUME NEW x \in LinksAt(e, k, c, i) PROVE x \in A \cup (F \cup (G \cup R))
  <2>1. \/ \E d \in Inodes, n \in Names : x = <<d, n>>
        \/ \E n \in Names : x = <<i, n>>
        \/ \E p \in Procs : x = <<p, "link", 0>> \/ x = <<p, "dec", 0>>
        \/ x = <<ROOTINO, "root", 0>>
    <3>1. \/ \E d \in Inodes, n \in Names : x = <<d, n>> /\ e[d][n] = i
          \/ \E n \in Names : x = <<i, n>> /\ e[i][n] # 0 /\ k[e[i][n]].type = "dir"
          \/ \E p \in Procs : x = <<p, "link", 0>> /\ Relinking(c[p]) /\ c[p].other = i
          \/ \E p \in Procs : x = <<p, "dec", 0>> /\ c[p].at = "dec" /\ c[p].other = i
          \/ i = ROOTINO /\ x = <<i, "root", 0>>
      BY <1>6, LinkKinds
    <3> QED
      BY <3>1
  <2>2. CASE \E d \in Inodes, n \in Names : x = <<d, n>>
    BY <1>4, <2>2
  <2>3. CASE \E n \in Names : x = <<i, n>>
    BY <1>4, <2>3
  <2>4. CASE \E p \in Procs : x = <<p, "link", 0>> \/ x = <<p, "dec", 0>>
    BY <1>3, <2>4
  <2> QED
    BY <1>5, <2>1, <2>2, <2>3, <2>4
<1>7. IsFiniteSet(A \cup (F \cup (G \cup R)))
  BY <1>1, <1>2, FS_Union
<1>8. LinksAt(e, k, c, i) \subseteq A \cup (F \cup (G \cup R))
  BY <1>6
<1> QED
  BY <1>7, <1>8, FS_Subset, FS_CardinalityType

(* The links of an inode after a step: no more, one more, one less, or one *)
(* in the place of another.                                                *)
LEMMA LinksFewer ==
  ASSUME NEW L, NEW M, IsFiniteSet(L), M \subseteq L
  PROVE  Cardinality(M) <= Cardinality(L)
BY FS_Subset, FS_CardinalityType

LEMMA LinkMore ==
  ASSUME NEW L, NEW M, NEW x, IsFiniteSet(L), M \subseteq L \cup {x}
  PROVE  Cardinality(M) <= Cardinality(L) + 1
<1>1. /\ IsFiniteSet(L \cup {x}) /\ Cardinality(L) \in Nat
      /\ Cardinality(L \cup {x}) = IF x \in L THEN Cardinality(L) ELSE Cardinality(L) + 1
  BY FS_AddElement, FS_CardinalityType
<1>2. Cardinality(M) <= Cardinality(L \cup {x}) /\ Cardinality(M) \in Nat
  BY <1>1, FS_Subset, FS_CardinalityType
<1> QED
  BY <1>1, <1>2

LEMMA LinkLess ==
  ASSUME NEW L, NEW M, NEW x \in L, IsFiniteSet(L), M \subseteq L \ {x}
  PROVE  Cardinality(M) <= Cardinality(L) - 1
<1>1. IsFiniteSet(L \ {x}) /\ Cardinality(L \ {x}) = Cardinality(L) - 1
  BY FS_RemoveElement
<1> QED
  BY <1>1, FS_Subset

LEMMA LinkMoved ==
  ASSUME NEW L, NEW M, NEW x \in L, NEW y, IsFiniteSet(L), M \subseteq (L \ {x}) \cup {y}
  PROVE  Cardinality(M) <= Cardinality(L)
<1>1. IsFiniteSet(L \ {x}) /\ Cardinality(L \ {x}) = Cardinality(L) - 1 /\ Cardinality(L) \in Nat
  BY FS_RemoveElement, FS_CardinalityType
<1>2. Cardinality(M) <= Cardinality(L \ {x}) + 1
  BY <1>1, LinkMore
<1>3. Cardinality(M) \in Nat
  <2>1. IsFiniteSet((L \ {x}) \cup {y})
    BY <1>1, FS_AddElement
  <2> QED
    BY <2>1, FS_Subset, FS_CardinalityType
<1> QED
  BY <1>1, <1>2, <1>3
-----------------------------------------------------------------------------
(* The inodes, and what the calls know of them.                            *)

(* The in-core entry of an inode, if valid, is the inode; there is nothing *)
(* in a free one.                                                          *)
NodesSound ==
  \A i \in Inodes :
    /\ inode[i].type # "free"
    /\ inode[i].type # "none" => inode[i] = dinode[i]
    /\ dinode[i].type = "free" => dinode[i].nlink = 0
    /\ dinode[i].type # "dir" => \A n \in Names : entry[i][n] = 0

(* What a call puts with directory j locked: an entry of it, or in link()  *)
(* also what "." or ".." stands for.                                       *)
PutsFrom(e, c, i, j) ==
  \/ \E n \in Names : e[j][n] = i
  \/ c.at = "undo" /\ (i = j \/ i = e[j][".."])

(* A call that has found a directory or an entry can rely on it.           *)
NodesIn(k, e, c, t) ==
  /\ c.at \in {"parent", "child"} => k[c.cur].type = "dir"
  /\ Relinking(c) /\ c.other # 0 => k[c.other].type # "dir"
  /\ c.at = "child" => e[c.cur][c.name] = c.other
  /\ \A i, j \in Inodes : t = <<Put(i), Unlock(j), Put(j)>> =>
       k[j].type = "dir" /\ PutsFrom(e, c, i, j)

NodesOf(c, t) == NodesIn(dinode, entry, c, t)

CallNodes == \A p \in Procs : NodesOf(call[p], todo[p])

(* Names lead down the tree.                                               *)
Acyclic ==
  \A S \in SUBSET Inodes : S # {} => \E i \in S : \A j \in S, n \in Names : entry[i][n] # j

DiskInv == DiskTypes /\ NodesSound /\ CallNodes /\ NamesCounted /\ Acyclic

(* ilock() of i, or iput() that makes entries anew.                        *)
CacheStep ==
  /\ inode' \in [Inodes -> [type : NodeTypes \cup {"none"}, nlink : Int]]
  /\ \A i \in Inodes : inode'[i] \in {inode[i], Invalid} \/
                       (inode'[i] = dinode[i] /\ dinode[i].type # "free")

(* A call c2 after c1 has no link that that did not have.                  *)
NoNewLink(c1, c2) ==
  /\ Relinking(c2) /\ c2.other # 0 => Relinking(c1) /\ c1.other = c2.other
  /\ c2.at = "dec" => c1.at = "dec" /\ c1.other = c2.other

LEMMA LoadedIs ==
  ASSUME DiskTypes, NodesSound, NEW i \in Inodes
  PROVE  /\ Loaded(i) = dinode[i]
         /\ Load(i) = [inode EXCEPT ![i] = dinode[i]]
         /\ Lockable(i) <=> lock[i] = Nobody /\ dinode[i].type # "free"
BY DEF Loaded, Load, Lockable, Valid, NodesSound

LEMMA LoadCaches ==
  ASSUME DiskTypes, NodesSound, NEW i \in Inodes, Lockable(i), inode' = Load(i)
  PROVE  CacheStep
<1>1. inode' = [inode EXCEPT ![i] = dinode[i]] /\ dinode[i].type # "free"
  BY LoadedIs
<1>2. dinode[i] \in [type : NodeTypes \cup {"none"}, nlink : Int]
  BY DEF DiskTypes
<1> QED
  BY <1>1, <1>2 DEF CacheStep, DiskTypes

LEMMA InvalidCaches ==
  ASSUME DiskTypes
  PROVE  /\ inode' = inode => CacheStep
         /\ \A i \in Inodes : inode' = [inode EXCEPT ![i] = Invalid] => CacheStep
         /\ inode' = NoneValid => CacheStep
<1>1. Invalid \in [type : NodeTypes \cup {"none"}, nlink : Int]
  BY DEF Invalid, Node
<1> QED
  BY <1>1 DEF CacheStep, DiskTypes, NoneValid

(* A step that leaves the disk alone.                                      *)
LEMMA QuietKeeps ==
  ASSUME DiskInv, CacheStep, UNCHANGED diskvars,
         \A p \in Procs : NodesOf(call'[p], todo'[p]),
         \A p \in Procs : NoNewLink(call[p], call'[p])
  PROVE  DiskInv'
<1>1. dinode' = dinode /\ entry' = entry
  BY DEF diskvars
<1>2. DiskTypes'
  BY <1>1 DEF DiskInv, DiskTypes, CacheStep
<1>3. NodesSound'
  BY <1>1 DEF DiskInv, NodesSound, CacheStep, Invalid, Node
<1>4. CallNodes'
  BY <1>1 DEF CallNodes, NodesOf, NodesIn
<1>5. ASSUME NEW i \in Inodes
      PROVE  Cardinality(LinksAt(entry', dinode', call', i)) <= dinode'[i].nlink
  <2>1. \A p \in Procs : /\ Relinking(call'[p]) /\ call'[p].other = i => Relinking(call[p]) /\ call[p].other = i
                         /\ call'[p].at = "dec" /\ call'[p].other = i => call[p].at = "dec" /\ call[p].other = i
    BY Numbers DEF NoNewLink
  <2>2. ASSUME NEW x \in LinksAt(entry, dinode, call', i) PROVE x \in LinksAt(entry, dinode, call, i)
    BY <2>1, <2>2, LinkKinds
  <2>3. Cardinality(LinksAt(entry, dinode, call', i)) <= Cardinality(LinksAt(entry, dinode, call, i))
    BY <2>2, LinksFinite, LinksFewer
  <2>4. Cardinality(LinksAt(entry, dinode, call, i)) <= dinode[i].nlink
    BY LinksNow DEF DiskInv, NamesCounted
  <2>5. /\ Cardinality(LinksAt(entry, dinode, call', i)) \in Nat
        /\ Cardinality(LinksAt(entry, dinode, call, i)) \in Nat /\ dinode[i].nlink \in Int
    BY LinksFinite DEF DiskInv, DiskTypes
  <2> QED
    BY <1>1, <2>3, <2>4, <2>5
<1>6. NamesCounted'
  BY <1>5, LinksNow DEF NamesCounted
<1>7. Acyclic'
  BY <1>1 DEF DiskInv, Acyclic
<1> QED
  BY <1>2, <1>3, <1>4, <1>6, <1>7 DEF DiskInv

LEMMA QuietGoto ==
  ASSUME DiskInv, CallTypes, CacheStep, UNCHANGED diskvars,
         NEW p \in Procs, NEW c, NEW s, Goto(p, c, s), NodesOf(c, s), NoNewLink(call[p], c)
  PROVE  DiskInv'
<1>1. /\ call'[p] = c /\ todo'[p] = s
      /\ \A q \in Procs \ {p} : call'[q] = call[q] /\ todo'[q] = todo[q]
  BY WentOn
<1>2. \A q \in Procs : NodesOf(call'[q], todo'[q])
  BY <1>1 DEF DiskInv, CallNodes
<1>3. \A q \in Procs : NoNewLink(call[q], call'[q])
  BY <1>1 DEF NoNewLink
<1> QED
  BY <1>2, <1>3, QuietKeeps

LEMMA NotRelease ==
  ASSUME NEW t, t \in AtMostOne \cup TwoPuts \/ \E k : t[1] = Drop(k) \/ t[1] = Unlock(k)
  PROVE  \A i, j : t # <<Put(i), Unlock(j), Put(j)>>
BY StepsApart, SMTT(30) DEF AtMostOne, OnePut, TwoPuts, NoSteps

(* Nothing is known of the inodes of these calls.                          *)
LEMMA NodesFree ==
  ASSUME NEW c, NEW s, c.at \in {"idle", "made", "old", "dec"}, s \in AtMostOne \cup TwoPuts
  PROVE  NodesOf(c, s) /\ (c.at # "dec" => \A c1 : NoNewLink(c1, c))
BY NotRelease, SMTT(30) DEF NodesOf, NodesIn, NoNewLink, Relinking

LEMMA WalkDisk ==
  ASSUME CallInv, DiskInv, NEW p \in Procs, Walk(p)
  PROVE  DiskInv'
<1> DEFINE d == call[p].cur
<1>1. UNCHANGED diskvars
  BY WalkKeeps
<1>2. At(p, "walk") =>
        /\ call[p] \in CallRecords /\ call[p].at = "walk" /\ todo[p] = NoSteps /\ d \in Inodes
        /\ (call[p].other # 0 => dinode[call[p].other].type # "dir")
  <2>1. NodesOf(call[p], todo[p])
    BY DEF DiskInv, CallNodes
  <2> QED
    BY <2>1, AtPlace DEF CallInv, NodesOf, NodesIn, Relinking
<1>3. ASSUME At(p, "walk"), InDir(p) \/ InFile(p), inode' = Load(d) PROVE CacheStep
  BY <1>2, <1>3, LoadCaches DEF InDir, InFile, DiskInv
<1>4. /\ NoSteps \in AtMostOne \cup TwoPuts
      /\ \A i \in Inodes : <<Put(i)>> \in AtMostOne \cup TwoPuts
  BY DEF AtMostOne, OnePut
<1>5. CallTypes
  BY DEF CallInv
<1>6. ASSUME NEW i \in Starts(p), Begin(p, i) PROVE DiskInv'
  <2> DEFINE c == [Idle EXCEPT !.at = "walk", !.cur = i]
  <2>1. Goto(p, c, NoSteps) /\ inode' = inode
    BY <1>6 DEF Begin, NoSteps
  <2>2. c.at = "walk" /\ c.other = 0
    BY DEF Idle
  <2>3. CacheStep
    BY <2>1, InvalidCaches DEF DiskInv
  <2> HIDE DEF c
  <2>4. NodesOf(c, NoSteps) /\ NoNewLink(call[p], c)
    BY <1>4, <2>2, NotRelease DEF NodesOf, NodesIn, NoNewLink
  <2> QED
    BY <1>1, <1>5, <2>1, <2>3, <2>4, QuietGoto
<1>7. ASSUME NEW n, WalkOn(p, n) PROVE DiskInv'
  <2> DEFINE c == [call[p] EXCEPT !.cur = entry[d][n]]
  <2>1. At(p, "walk") /\ InDir(p) /\ Goto(p, c, <<Put(d)>>) /\ inode' = Load(d)
    BY <1>7 DEF WalkOn
  <2>2. c.at = "walk" /\ c.other = call[p].other
    BY <1>2, <2>1 DEF CallRecords
  <2>3. CacheStep
    BY <1>3, <2>1
  <2> HIDE DEF c
  <2>4. NodesOf(c, <<Put(d)>>) /\ NoNewLink(call[p], c)
    BY <1>2, <1>4, <2>1, <2>2, NotRelease DEF NodesOf, NodesIn, NoNewLink, Relinking
  <2> QED
    BY <1>1, <1>5, <2>1, <2>3, <2>4, QuietGoto
<1>8. ASSUME NEW n, WalkFail(p, n) PROVE DiskInv'
  <2> DEFINE c == Failed(call[p])
  <2>1. At(p, "walk") /\ (InDir(p) \/ InFile(p)) /\ Goto(p, c, <<Put(d)>>) /\ inode' = Load(d)
    BY <1>8 DEF WalkFail
  <2>2. c.at \in {"idle", "undo"} /\ (c.at = "undo" => c.other = call[p].other) /\ (c.at = "idle" => c.other = 0)
    BY DEF Failed, Idle
  <2>3. CacheStep
    BY <1>3, <2>1
  <2> HIDE DEF c
  <2>4. NodesOf(c, <<Put(d)>>) /\ NoNewLink(call[p], c)
    BY <1>2, <1>4, <2>1, <2>2, NotRelease DEF NodesOf, NodesIn, NoNewLink, Relinking
  <2> QED
    BY <1>1, <1>5, <2>1, <2>3, <2>4, QuietGoto
<1>9. ASSUME WalkStop(p) PROVE DiskInv'
  <2> DEFINE c == [call[p] EXCEPT !.at = "parent"]
  <2>1. At(p, "walk") /\ InDir(p) /\ Goto(p, c, NoSteps) /\ inode' = Load(d)
    BY <1>9 DEF WalkStop, NoSteps
  <2>2. c.at = "parent" /\ c.other = call[p].other /\ c.cur = d
    BY <1>2, <2>1 DEF CallRecords
  <2>3. CacheStep
    BY <1>3, <2>1
  <2>4. dinode[d].type = "dir"
    BY <1>2, <2>1, LoadedIs DEF InDir, DiskInv
  <2> HIDE DEF c
  <2>5. NodesOf(c, NoSteps) /\ NoNewLink(call[p], c)
    BY <1>2, <1>4, <2>1, <2>2, <2>4, NotRelease DEF NodesOf, NodesIn, NoNewLink, Relinking
  <2> QED
    BY <1>1, <1>5, <2>1, <2>3, <2>5, QuietGoto
<1>10. ASSUME WrongKind(p) PROVE DiskInv'
  <2>1. At(p, "walk") /\ (InDir(p) \/ InFile(p)) /\ Goto(p, Idle, <<Put(d)>>) /\ inode' = Load(d)
    BY <1>10 DEF WrongKind
  <2>2. Idle.at = "idle"
    BY DEF Idle
  <2>3. CacheStep
    BY <1>3, <2>1
  <2>4. <<Put(d)>> \in AtMostOne \cup TwoPuts
    BY <1>2, <1>4, <2>1
  <2> DEFINE s == <<Put(d)>>
  <2>5. Goto(p, Idle, s) /\ s \in AtMostOne \cup TwoPuts
    BY <2>1, <2>4
  <2> HIDE DEF s, d
  <2>6. NodesOf(Idle, s) /\ NoNewLink(call[p], Idle)
    BY <2>2, <2>5, NodesFree
  <2> QED
    BY <1>1, <1>5, <2>3, <2>5, <2>6, QuietGoto
<1> QED
  BY <1>6, <1>7, <1>8, <1>9, <1>10, Zenon DEF Walk

(* The calls that end, or go on, and leave the disk alone.                 *)
LEMMA QuietDisk ==
  ASSUME CallInv, DiskInv, NEW p \in Procs,
         \/ Open(p) \/ Chdir(p) \/ Created(p) \/ CreateTake(p) \/ UnlinkBusy(p)
         \/ UnlinkNone(p) \/ \E n \in Names : UnlinkFind(p, n)
         \/ \E n \in Names \cup {".", ".."} : LinkClash(p, n)
         \/ \E n : CreateOld(p, n)
  PROVE  DiskInv'
<1> DEFINE d == call[p].cur
<1>1. UNCHANGED diskvars
  BY Zenon DEF Open, Chdir, Created, CreateTake, UnlinkBusy, LinkClash, UnlinkFind, UnlinkNone, CreateOld
<1>2. \A a : At(p, a) =>
        /\ call[p] \in CallRecords /\ call[p].at = a /\ todo[p] = NoSteps
        /\ a \in {"walk", "parent", "child"} => d \in Inodes
        /\ a \in {"made", "old", "dec", "undo", "child"} => call[p].other \in Inodes
        /\ (a = "child" => call[p].name \in Names)
  BY AtPlace DEF CallInv
<1>3. NodesOf(call[p], todo[p])
  BY DEF DiskInv, CallNodes
<1>4. \A i \in Inodes : Lockable(i) /\ inode' = Load(i) => CacheStep
  BY LoadCaches DEF DiskInv
<1>5. /\ NoSteps \in AtMostOne /\ \A i \in Inodes : <<Put(i)>> \in AtMostOne
      /\ Idle.at = "idle" /\ Idle.other = 0 /\ CallTypes
  BY DEF AtMostOne, OnePut, Idle, CallInv
<1>6. ASSUME NEW c, NEW s \in AtMostOne, Goto(p, c, s), c.at \in {"idle", "old"}, CacheStep
      PROVE  DiskInv'
  <2>1. NodesOf(c, s) /\ NoNewLink(call[p], c)
    BY <1>6, NodesFree
  <2> QED
    BY <1>1, <1>5, <1>6, <2>1, QuietGoto
<1>7. CASE Open(p)
  <2>1. At(p, "walk") /\ (InDir(p) \/ InFile(p)) /\ Opened(p, d) /\ inode' = Load(d)
    BY <1>7 DEF Open
  <2>2. d \in Inodes
    BY <1>2, <2>1
  <2>3. CacheStep
    BY <1>4, <2>1, <2>2 DEF InDir, InFile
  <2> QED
    BY <1>5, <1>6, <2>1, <2>2, <2>3, OpenedGoes
<1>8. CASE Chdir(p)
  <2>1. At(p, "walk") /\ InDir(p) /\ Goto(p, Idle, <<Put(cwd[p])>>) /\ inode' = Load(d)
    BY <1>8 DEF Chdir
  <2>2. d \in Inodes /\ cwd[p] \in Inodes
    BY <2>1, AtPlace DEF CallInv, RefTypes
  <2>3. CacheStep
    BY <1>4, <2>1, <2>2 DEF InDir
  <2> QED
    BY <1>5, <1>6, <2>1, <2>2, <2>3
<1>9. CASE Created(p)
  <2>1. /\ At(p, "made") /\ inode' = inode
        /\ Opened(p, call[p].other) \/ Goto(p, Idle, <<Put(call[p].other)>>)
    BY <1>9 DEF Created
  <2>2. CacheStep /\ call[p].other \in Inodes
    BY <1>2, <2>1, InvalidCaches DEF DiskInv
  <2>3. \E s \in AtMostOne : Goto(p, Idle, s)
    BY <1>5, <2>1, <2>2, OpenedGoes
  <2> QED
    BY <1>5, <1>6, <2>2, <2>3
<1>10. CASE CreateTake(p)
  <2>1. /\ At(p, "old") /\ Lockable(call[p].other) /\ inode' = Load(call[p].other)
        /\ Opened(p, call[p].other) \/ Goto(p, Idle, <<Put(call[p].other)>>)
    BY <1>10 DEF CreateTake
  <2>2. call[p].other \in Inodes
    BY <1>2, <2>1
  <2>3. CacheStep
    BY <1>4, <2>1, <2>2
  <2>4. \E s \in AtMostOne : Goto(p, Idle, s)
    BY <1>5, <2>1, <2>2, OpenedGoes
  <2> QED
    BY <1>5, <1>6, <2>3, <2>4
<1>11. CASE UnlinkBusy(p)
  <2> DEFINE i == call[p].other
             s == <<Put(i), Unlock(d), Put(d)>>
  <2>1. At(p, "child") /\ Lockable(i) /\ inode' = Load(i) /\ Goto(p, Idle, s)
    BY <1>11 DEF UnlinkBusy
  <2>2. /\ i \in Inodes /\ d \in Inodes /\ entry[d][call[p].name] = i /\ call[p].name \in Names
        /\ call[p].at = "child" /\ dinode[d].type = "dir"
    BY <1>2, <1>3, <2>1 DEF NodesOf, NodesIn
  <2>3. CacheStep
    BY <1>4, <2>1, <2>2
  <2>4. \A j, k : s = <<Put(j), Unlock(k), Put(k)>> => j = i /\ k = d
    BY StepsApart
  <2> HIDE DEF s, i, d
  <2>5. NodesOf(Idle, s) /\ NoNewLink(call[p], Idle)
    BY <1>5, <2>2, <2>4 DEF NodesOf, NodesIn, PutsFrom, NoNewLink, Relinking
  <2> QED
    BY <1>1, <1>5, <2>1, <2>3, <2>5, QuietGoto
<1>12. ASSUME NEW n \in Names \cup {".", ".."}, LinkClash(p, n) PROVE DiskInv'
  <2> DEFINE j == Lookup(d, n)
             c == Failed(call[p])
             s == <<Put(j), Unlock(d), Put(d)>>
  <2>1. /\ At(p, "parent") /\ Lockable(d) /\ inode' = Load(d) /\ Goto(p, c, s)
        /\ call[p].other # 0
    BY <1>12 DEF LinkClash
  <2>2. d \in Inodes /\ call[p].at = "parent"
    BY <1>2, <2>1
  <2>3. CacheStep
    BY <1>4, <2>1, <2>2
  <2>4. \A i, k : s = <<Put(i), Unlock(k), Put(k)>> => i = j /\ k = d
    BY StepsApart
  <2>5. c.at = "undo" /\ c.other = call[p].other
    BY <2>1 DEF Failed, Idle
  <2>6. dinode[d].type = "dir" /\ (j = d \/ j = entry[d][".."] \/ \E m \in Names : entry[d][m] = j)
    BY <1>3, <2>2 DEF NodesOf, NodesIn, Lookup
  <2> HIDE DEF s, j, d, c
  <2>7. call[p].other # 0 => dinode[call[p].other].type # "dir"
    BY <1>3, <2>2 DEF NodesOf, NodesIn, Relinking
  <2>8. NodesOf(c, s)
    BY <2>4, <2>5, <2>6, <2>7 DEF NodesOf, NodesIn, PutsFrom, Relinking
  <2>9. NodesOf(c, s) /\ NoNewLink(call[p], c)
    BY <2>2, <2>5, <2>8 DEF NoNewLink, Relinking
  <2> QED
    BY <1>1, <1>5, <2>1, <2>3, <2>9, QuietGoto
<1>13. ASSUME NEW n \in Names, UnlinkFind(p, n) PROVE DiskInv'
  <2> DEFINE c == [call[p] EXCEPT !.at = "child", !.name = n, !.other = entry[d][n]]
  <2>1. At(p, "parent") /\ Lockable(d) /\ inode' = Load(d) /\ Goto(p, c, NoSteps)
    BY <1>13 DEF UnlinkFind, NoSteps
  <2>2. /\ d \in Inodes /\ call[p].at = "parent" /\ c.at = "child" /\ c.cur = d /\ c.name = n
        /\ c.other = entry[d][n]
    BY <1>2, <2>1 DEF CallRecords
  <2>3. CacheStep
    BY <1>4, <2>1, <2>2
  <2>4. dinode[d].type = "dir"
    BY <1>3, <2>2 DEF NodesOf, NodesIn
  <2> HIDE DEF c, d
  <2>5. NodesOf(c, NoSteps) /\ NoNewLink(call[p], c)
    BY <1>5, <2>2, <2>4, NotRelease DEF NodesOf, NodesIn, NoNewLink, Relinking
  <2> QED
    BY <1>1, <1>5, <2>1, <2>3, <2>5, QuietGoto, SMTT(30)
<1>14. ASSUME UnlinkNone(p) PROVE DiskInv'
  <2>1. At(p, "parent") /\ Lockable(d) /\ inode' = Load(d) /\ Goto(p, Idle, <<Put(d)>>)
    BY <1>14 DEF UnlinkNone
  <2>2. d \in Inodes
    BY <1>2, <2>1
  <2>3. CacheStep
    BY <1>4, <2>1, <2>2
  <2> QED
    BY <1>5, <1>6, <2>1, <2>2, <2>3
<1>15. ASSUME NEW n, CreateOld(p, n) PROVE DiskInv'
  <2> DEFINE c == [Idle EXCEPT !.at = "old", !.other = Lookup(d, n)]
  <2>1. At(p, "parent") /\ Lockable(d) /\ inode' = Load(d) /\ Goto(p, c, <<Put(d)>>)
    BY <1>15 DEF CreateOld
  <2>2. d \in Inodes /\ c.at = "old"
    BY <1>2, <2>1 DEF Idle
  <2>3. CacheStep
    BY <1>4, <2>1, <2>2
  <2> HIDE DEF c
  <2> QED
    BY <1>5, <1>6, <2>1, <2>2, <2>3
<1> QED
  <2> HIDE DEF d
  <2>1. CASE Open(p) \/ Chdir(p) \/ Created(p) \/ CreateTake(p) \/ UnlinkBusy(p)
    BY <1>7, <1>8, <1>9, <1>10, <1>11, <2>1, Zenon
  <2>2. CASE \/ UnlinkNone(p) \/ \E n \in Names : UnlinkFind(p, n)
             \/ \E n \in Names \cup {".", ".."} : LinkClash(p, n)
             \/ \E n : CreateOld(p, n)
    BY <1>12, <1>13, <1>14, <1>15, <2>2, Zenon
  <2> QED
    BY <2>1, <2>2

(* The steps of iunlockput(), calls without a path, and a restart.         *)
LEMMA AfterNotRelease ==
  ASSUME NEW t \in AnySteps, t # << >>
  PROVE  \A i, j : After(t) # <<Put(i), Unlock(j), Put(j)>>
<1>1. CASE t \in OnePut
  <2>1. PICK j \in Inodes : t = <<Put(j)>> \/ t = <<Drop(j)>>
    BY <1>1 DEF OnePut
  <2>2. After(t) = <<Drop(j)>> \/ After(t) = NoSteps
    BY <2>1, AfterOnePut
  <2> QED
    BY <2>1, <2>2, NotRelease DEF AtMostOne, OnePut
<1>2. CASE t \in TwoPuts
  <2>1. PICK j \in Inodes, k \in Inodes : t = <<Put(j), Put(k)>> \/ t = <<Drop(j), Put(k)>>
    BY <1>2 DEF TwoPuts
  <2>2. After(t) = <<Drop(j), Put(k)>> \/ After(t) = <<Put(k)>>
    BY <2>1, AfterTwoPuts
  <2> QED
    BY <2>1, <2>2, NotRelease DEF AtMostOne, OnePut, TwoPuts
<1>3. CASE t \in Release
  <2>1. PICK j \in Inodes, k \in Inodes :
          \/ t = <<Put(j), Unlock(k), Put(k)>> \/ t = <<Drop(j), Unlock(k), Put(k)>>
          \/ t = <<Unlock(k), Put(k)>>
    BY <1>3 DEF Release
  <2>2. \/ After(t) = <<Drop(j), Unlock(k), Put(k)>> \/ After(t) = <<Unlock(k), Put(k)>>
        \/ After(t) = <<Put(k)>>
    BY <2>1, AfterRelease, AfterRest
  <2>3. After(t)[1] = Drop(j) \/ After(t)[1] = Unlock(k) \/ After(t) \in AtMostOne
    BY <2>2 DEF AtMostOne, OnePut
  <2> QED
    BY <2>3, NotRelease
<1> QED
  BY <1>1, <1>2, <1>3 DEF AnySteps, AtMostOne, NoSteps

LEMMA QuietSteps ==
  ASSUME CallInv, DiskInv, NEW p \in Procs, NEW s, Does(p, s), call' = call, cwd' = cwd,
         UNCHANGED diskvars, CacheStep
  PROVE  DiskInv'
<1>1. /\ todo[p] \in AnySteps /\ todo[p] # << >>
      /\ todo'[p] = After(todo[p])
      /\ \A q \in Procs \ {p} : todo'[q] = todo[q]
  BY StepTaken DEF CallInv
<1>2. \A i, j : todo'[p] # <<Put(i), Unlock(j), Put(j)>>
  BY <1>1, AfterNotRelease
<1>3. \A q \in Procs : NodesOf(call[q], todo[q])
  BY DEF DiskInv, CallNodes
<1>4. \A q \in Procs : NodesOf(call'[q], todo'[q])
  <2>1. NodesOf(call'[p], todo'[p])
    BY <1>2, <1>3 DEF NodesOf, NodesIn
  <2> QED
    BY <1>1, <1>3, <2>1
<1>5. \A q \in Procs : NoNewLink(call[q], call'[q])
  BY DEF NoNewLink
<1> QED
  BY <1>4, <1>5, QuietKeeps

LEMMA QuietOthers ==
  ASSUME CallInv, DiskInv, FileInv,
         \/ \E p \in Procs : Close(p) \/ Exit(p) \/ \E q \in Procs : Fork(p, q)
         \/ Crash
  PROVE  DiskInv'
<1>1. UNCHANGED diskvars /\ inode' \in {inode, NoneValid}
  BY DEF Close, Exit, Fork, Crash
<1>2. CacheStep
  BY <1>1, InvalidCaches DEF DiskInv
<1>3. CASE UNCHANGED <<call, todo>>
  <2>1. \A q \in Procs : NodesOf(call'[q], todo'[q]) /\ NoNewLink(call[q], call'[q])
    BY <1>3 DEF DiskInv, CallNodes, NoNewLink
  <2> QED
    BY <1>1, <1>2, <2>1, QuietKeeps
<1>4. ASSUME NEW p \in Procs, NEW i \in Inodes, Goto(p, Idle, <<Put(i)>>) PROVE DiskInv'
  <2>1. <<Put(i)>> \in AtMostOne /\ Idle.at = "idle" /\ CallTypes
    BY DEF AtMostOne, OnePut, Idle, CallInv
  <2>2. NodesOf(Idle, <<Put(i)>>) /\ NoNewLink(call[p], Idle)
    BY <2>1, NodesFree
  <2> QED
    BY <1>1, <1>2, <1>4, <2>1, <2>2, QuietGoto
<1>5. ASSUME NEW p \in Procs, Close(p) PROVE DiskInv'
  <2>1. /\ ofile[p] # 0
        /\ Goto(p, Idle, <<Put(ftable[ofile[p]].ip)>>) \/ UNCHANGED <<call, todo>>
    BY <1>5 DEF Close
  <2>2. ftable[ofile[p]].ip \in Inodes
    BY <2>1, OpenFile DEF CallInv
  <2> QED
    BY <1>3, <1>4, <2>1, <2>2
<1>6. ASSUME NEW p \in Procs, Exit(p) PROVE DiskInv'
  <2>1. cwd[p] \in Inodes /\ Goto(p, Idle, <<Put(cwd[p])>>)
    BY <1>6 DEF Exit, Ready, CallInv, RefTypes
  <2> QED
    BY <1>4, <2>1
<1> QED
  BY <1>3, <1>5, <1>6, Zenon DEF Fork, Crash
-----------------------------------------------------------------------------
(* The steps that change the disk *)

LinksBefore(i) == LinksAt(entry, dinode, call, i)
LinksAfter(i)  == LinksAt(entry', dinode', call', i)

LEMMA CountFewer ==
  ASSUME DiskInv, NEW i \in Inodes, LinksAfter(i) \subseteq LinksBefore(i),
         dinode'[i].nlink = dinode[i].nlink
  PROVE  Cardinality(LinksAfter(i)) <= dinode'[i].nlink
<1>1. /\ Cardinality(LinksBefore(i)) <= dinode[i].nlink /\ dinode[i].nlink \in Int
      /\ IsFiniteSet(LinksBefore(i)) /\ Cardinality(LinksBefore(i)) \in Nat
      /\ Cardinality(LinksAfter(i)) \in Nat
  BY LinksNow, LinksFinite DEF DiskInv, NamesCounted, DiskTypes, LinksBefore, LinksAfter
<1>2. Cardinality(LinksAfter(i)) <= Cardinality(LinksBefore(i))
  BY <1>1, LinksFewer
<1> QED
  BY <1>1, <1>2

LEMMA CountMore ==
  ASSUME DiskInv, NEW i \in Inodes, NEW x, LinksAfter(i) \subseteq LinksBefore(i) \cup {x},
         dinode'[i].nlink = dinode[i].nlink + 1
  PROVE  Cardinality(LinksAfter(i)) <= dinode'[i].nlink
<1>1. /\ Cardinality(LinksBefore(i)) <= dinode[i].nlink /\ dinode[i].nlink \in Int
      /\ IsFiniteSet(LinksBefore(i)) /\ Cardinality(LinksBefore(i)) \in Nat
      /\ Cardinality(LinksAfter(i)) \in Nat
  BY LinksNow, LinksFinite DEF DiskInv, NamesCounted, DiskTypes, LinksBefore, LinksAfter
<1>2. Cardinality(LinksAfter(i)) <= Cardinality(LinksBefore(i)) + 1
  BY <1>1, LinkMore
<1> QED
  BY <1>1, <1>2

LEMMA CountLess ==
  ASSUME DiskInv, NEW i \in Inodes, NEW x \in LinksBefore(i), LinksAfter(i) \subseteq LinksBefore(i) \ {x},
         dinode'[i].nlink = dinode[i].nlink - 1
  PROVE  Cardinality(LinksAfter(i)) <= dinode'[i].nlink
<1>1. /\ Cardinality(LinksBefore(i)) <= dinode[i].nlink /\ dinode[i].nlink \in Int
      /\ IsFiniteSet(LinksBefore(i)) /\ Cardinality(LinksBefore(i)) \in Nat
      /\ Cardinality(LinksAfter(i)) \in Nat
  BY LinksNow, LinksFinite DEF DiskInv, NamesCounted, DiskTypes, LinksBefore, LinksAfter
<1>2. Cardinality(LinksAfter(i)) <= Cardinality(LinksBefore(i)) - 1
  BY <1>1, LinkLess
<1> QED
  BY <1>1, <1>2

LEMMA CountMoved ==
  ASSUME DiskInv, NEW i \in Inodes, NEW x \in LinksBefore(i), NEW y,
         LinksAfter(i) \subseteq (LinksBefore(i) \ {x}) \cup {y},
         dinode'[i].nlink = dinode[i].nlink
  PROVE  Cardinality(LinksAfter(i)) <= dinode'[i].nlink
<1>1. /\ Cardinality(LinksBefore(i)) <= dinode[i].nlink /\ dinode[i].nlink \in Int
      /\ IsFiniteSet(LinksBefore(i)) /\ Cardinality(LinksBefore(i)) \in Nat
      /\ Cardinality(LinksAfter(i)) \in Nat
  BY LinksNow, LinksFinite DEF DiskInv, NamesCounted, DiskTypes, LinksBefore, LinksAfter
<1>2. Cardinality(LinksAfter(i)) <= Cardinality(LinksBefore(i))
  BY <1>1, LinkMoved
<1> QED
  BY <1>1, <1>2

(* Of an inode with no link nothing is a name, and nobody adds one to it.  *)
LEMMA NoLinks ==
  ASSUME DiskInv, NEW i \in Inodes, dinode[i].nlink = 0
  PROVE  /\ i # ROOTINO
         /\ \A d \in Inodes, n \in Names : entry[d][n] # i
         /\ \A q \in Procs : ~(Relinking(call[q]) /\ call[q].other = i)
         /\ \A q \in Procs : ~(call[q].at = "dec" /\ call[q].other = i)
<1>1. /\ IsFiniteSet(LinksAt(entry, dinode, call, i))
      /\ Cardinality(LinksAt(entry, dinode, call, i)) \in Nat
      /\ Cardinality(LinksAt(entry, dinode, call, i)) <= dinode[i].nlink
  BY LinksNow, LinksFinite DEF DiskInv, NamesCounted
<1>2. LinksAt(entry, dinode, call, i) = {}
  BY <1>1, FS_EmptySet
<1>3. i # ROOTINO
  <2>1. i = ROOTINO => <<i, "root", 0>> \in LinksAt(entry, dinode, call, i)
    BY LinkKinds
  <2> QED
    BY <1>2, <2>1
<1>4. ASSUME NEW d \in Inodes, NEW n \in Names PROVE entry[d][n] # i
  <2>1. entry[d][n] = i => <<d, n>> \in LinksAt(entry, dinode, call, i)
    BY LinkKinds
  <2> QED
    BY <1>2, <2>1
<1>5. ASSUME NEW q \in Procs PROVE ~(Relinking(call[q]) /\ call[q].other = i)
  <2>1. Relinking(call[q]) /\ call[q].other = i => <<q, "link", 0>> \in LinksAt(entry, dinode, call, i)
    BY LinkKinds
  <2> QED
    BY <1>2, <2>1
<1>6. ASSUME NEW q \in Procs PROVE ~(call[q].at = "dec" /\ call[q].other = i)
  <2>1. call[q].at = "dec" /\ call[q].other = i => <<q, "dec", 0>> \in LinksAt(entry, dinode, call, i)
    BY LinkKinds
  <2> QED
    BY <1>2, <2>1
<1> QED
  BY <1>3, <1>4, <1>5, <1>6

(* link() and unlink() count the links of an inode anew.                   *)
LEMMA NlinkKeeps ==
  ASSUME DiskInv, CallTypes, NEW p \in Procs, NEW c, NEW s, Goto(p, c, s), NodesOf(c, s),
         NEW i \in Inodes, NEW m \in Int, dinode[i].type # "free",
         IUpdate([Load(i) EXCEPT ![i].nlink = m], {i}), entry' = entry,
         \A x \in Inodes : Cardinality(LinksAfter(x)) <= dinode'[x].nlink
  PROVE  DiskInv'
<1> DEFINE node == Node(dinode[i].type, m)
<1>1. Load(i) = [inode EXCEPT ![i] = dinode[i]]
  BY LoadedIs DEF DiskInv
<1>2. dinode[i] \in [type : NodeTypes, nlink : Int]
  BY DEF DiskInv, DiskTypes
<1>3. node \in [type : NodeTypes, nlink : Int] /\ node.type = dinode[i].type
  BY <1>2 DEF Node
<1>4. [Load(i) EXCEPT ![i].nlink = m] = [inode EXCEPT ![i] = node]
  <2>1. [dinode[i] EXCEPT !.nlink = m] = node
    BY <1>2 DEF Node
  <2>2. inode = [x \in Inodes |-> inode[x]]
    BY DEF DiskInv, DiskTypes
  <2> DEFINE l == Load(i)
  <2>3. l = [inode EXCEPT ![i] = dinode[i]] /\ DOMAIN l = Inodes /\ l[i] = dinode[i]
    BY <1>1, <2>2
  <2> HIDE DEF l
  <2>4. [l EXCEPT ![i].nlink = m] = [l EXCEPT ![i] = node]
    BY <2>1, <2>3
  <2> HIDE DEF node
  <2>5. [l EXCEPT ![i] = node] = [inode EXCEPT ![i] = node]
    BY <2>2, <2>3
  <2> QED
    BY <2>4, <2>5 DEF l
<1>5. inode' = [inode EXCEPT ![i] = node]
  BY <1>4 DEF IUpdate
<1>6. dinode' = [dinode EXCEPT ![i] = node]
  BY <1>4 DEF IUpdate, DiskInv, DiskTypes
<1> HIDE DEF node
<1>7. DiskTypes'
  BY <1>3, <1>5, <1>6 DEF DiskInv, DiskTypes
<1>8. \A x \in Inodes : /\ inode'[x] = IF x = i THEN node ELSE inode[x]
                        /\ dinode'[x] = IF x = i THEN node ELSE dinode[x]
  BY <1>5, <1>6 DEF DiskInv, DiskTypes
<1>9. NodesSound'
  BY <1>3, <1>8 DEF DiskInv, NodesSound, NodeTypes
<1>10. \A x : dinode'[x].type = dinode[x].type
  BY <1>3, <1>6 DEF DiskInv, DiskTypes
<1>11. CallNodes'
  <2>1. /\ call'[p] = c /\ todo'[p] = s
        /\ \A q \in Procs \ {p} : call'[q] = call[q] /\ todo'[q] = todo[q]
    BY WentOn
  <2>2. \A q \in Procs : NodesOf(call'[q], todo'[q])
    BY <2>1 DEF DiskInv, CallNodes
  <2> QED
    BY <1>10, <2>2 DEF CallNodes, NodesOf, NodesIn
<1>12. NamesCounted'
  BY LinksNow DEF NamesCounted, LinksAfter
<1>13. Acyclic'
  BY DEF DiskInv, Acyclic
<1> QED
  BY <1>7, <1>9, <1>11, <1>12, <1>13 DEF DiskInv
(* The links after a step of p that changes no name and no type.           *)
LEMMA LinksGo ==
  ASSUME DiskInv, CallTypes, NEW p \in Procs, NEW c, NEW s, Goto(p, c, s), entry' = entry,
         \A z \in Inodes : dinode'[z].type = dinode[z].type,
         NEW i \in Inodes, NEW x \in LinksAfter(i)
  PROVE  \/ x \in LinksBefore(i) /\ x # <<p, "link", 0>> /\ x # <<p, "dec", 0>>
         \/ x = <<p, "link", 0>> /\ Relinking(c) /\ c.other = i
         \/ x = <<p, "dec", 0>> /\ c.at = "dec" /\ c.other = i
<1>1. /\ call'[p] = c
      /\ \A q \in Procs \ {p} : call'[q] = call[q]
  BY WentOn
<1>2. CASE \E d \in Inodes, n \in Names : x = <<d, n>> /\ entry'[d][n] = i
  BY <1>2, LinkKinds DEF LinksBefore
<1>3. CASE \E n \in Names : x = <<i, n>> /\ entry'[i][n] # 0 /\ dinode'[entry'[i][n]].type = "dir"
  <2>1. PICK n \in Names : x = <<i, n>> /\ entry[i][n] # 0 /\ dinode'[entry[i][n]].type = "dir"
    BY <1>3
  <2>2. entry[i][n] \in Inodes
    BY <2>1 DEF DiskInv, DiskTypes
  <2> QED
    BY <2>1, <2>2, LinkKinds DEF LinksBefore
<1>4. CASE \E q \in Procs : x = <<q, "link", 0>> /\ Relinking(call'[q]) /\ call'[q].other = i
  <2>1. PICK q \in Procs : x = <<q, "link", 0>> /\ Relinking(call'[q]) /\ call'[q].other = i
    BY <1>4
  <2>2. CASE q = p
    BY <1>1, <2>1, <2>2
  <2>3. CASE q # p
    BY <1>1, <2>1, <2>3, LinkKinds DEF LinksBefore
  <2> QED
    BY <2>2, <2>3
<1>5. CASE \E q \in Procs : x = <<q, "dec", 0>> /\ call'[q].at = "dec" /\ call'[q].other = i
  <2>1. PICK q \in Procs : x = <<q, "dec", 0>> /\ call'[q].at = "dec" /\ call'[q].other = i
    BY <1>5
  <2>2. CASE q = p
    BY <1>1, <2>1, <2>2
  <2>3. CASE q # p
    BY <1>1, <2>1, <2>3, LinkKinds DEF LinksBefore
  <2> QED
    BY <2>2, <2>3
<1>6. CASE i = ROOTINO /\ x = <<i, "root", 0>>
  BY <1>6, LinkKinds DEF LinksBefore
<1> QED
  BY <1>2, <1>3, <1>4, <1>5, <1>6, LinkKinds DEF LinksAfter

(* ... the inodes when the step changes the links of one inode.            *)
LEMMA UpdatedOne ==
  ASSUME DiskInv, NEW i \in Inodes, NEW m \in Int,
         IUpdate([Load(i) EXCEPT ![i].nlink = m], {i})
  PROVE  /\ dinode'[i].type = dinode[i].type /\ dinode'[i].nlink = m
         /\ \A x \in Inodes \ {i} : dinode'[x] = dinode[x]
<1>1. Load(i) = [inode EXCEPT ![i] = dinode[i]]
  BY LoadedIs DEF DiskInv
<1>2. dinode[i] \in [type : NodeTypes, nlink : Int] /\ inode = [x \in Inodes |-> inode[x]]
  BY DEF DiskInv, DiskTypes
<1> DEFINE l == Load(i)
<1>3. DOMAIN l = Inodes /\ l[i] = dinode[i]
  BY <1>1, <1>2
<1> HIDE DEF l
<1>4. dinode' = [x \in Inodes |-> IF x \in {i} THEN [l EXCEPT ![i].nlink = m][x] ELSE dinode[x]]
  BY DEF IUpdate, l
<1> QED
  BY <1>2, <1>3, <1>4

LEMMA LinkedIs ==
  ASSUME DiskInv, NEW i \in Inodes
  PROVE  /\ Linked(i) = [Load(i) EXCEPT ![i].nlink = dinode[i].nlink + 1]
         /\ Unlinked(i) = [Load(i) EXCEPT ![i].nlink = dinode[i].nlink - 1]
<1>1. Load(i) = [inode EXCEPT ![i] = dinode[i]] /\ inode = [x \in Inodes |-> inode[x]]
  BY LoadedIs DEF DiskInv, DiskTypes
<1> DEFINE l == Load(i)
<1>2. DOMAIN l = Inodes /\ l[i] = dinode[i]
  BY <1>1
<1>3. Linked(i) = [l EXCEPT ![i].nlink = @ + 1] /\ Unlinked(i) = [l EXCEPT ![i].nlink = @ - 1]
  BY DEF Linked, Unlinked
<1> HIDE DEF l
<1>4. /\ [l EXCEPT ![i].nlink = @ + 1] = [l EXCEPT ![i].nlink = dinode[i].nlink + 1]
      /\ [l EXCEPT ![i].nlink = @ - 1] = [l EXCEPT ![i].nlink = dinode[i].nlink - 1]
  BY <1>2
<1> QED
  BY <1>3, <1>4 DEF l

LEMMA LinkOldDisk ==
  ASSUME CallInv, DiskInv, NEW p \in Procs, NEW start, LinkOld(p, start)
  PROVE  DiskInv'
<1> DEFINE i == call[p].cur
           c == [call[p] EXCEPT !.cur = start, !.other = i]
           m == dinode[i].nlink + 1
<1>1. /\ At(p, "walk") /\ call[p].other = 0 /\ InFile(p) /\ IUpdate(Linked(i), {i})
      /\ entry' = entry /\ Goto(p, c, NoSteps)
  BY DEF LinkOld, NoSteps
<1>2. call[p] \in CallRecords /\ call[p].at = "walk" /\ i \in Inodes /\ CallTypes
  BY <1>1, AtPlace DEF CallInv
<1>3. c.at = "walk" /\ c.other = i
  BY <1>2 DEF CallRecords
<1>4. dinode[i].type # "free" /\ dinode[i].type # "dir" /\ m \in Int
  <2>1. Lockable(i) /\ Loaded(i).type # "dir"
    BY <1>1 DEF InFile
  <2>2. dinode[i].nlink \in Int
    BY <1>2 DEF DiskInv, DiskTypes
  <2> QED
    BY <1>2, <2>1, <2>2, LoadedIs DEF DiskInv
<1>5. IUpdate([Load(i) EXCEPT ![i].nlink = m], {i})
  BY <1>1, <1>2, LinkedIs
<1> HIDE DEF c, m
<1>6. /\ dinode'[i].type = dinode[i].type /\ dinode'[i].nlink = m
      /\ \A x \in Inodes \ {i} : dinode'[x] = dinode[x]
  BY <1>2, <1>4, <1>5, UpdatedOne
<1> HIDE DEF i
<1>7. NodesOf(c, NoSteps)
  BY <1>3, <1>4, NotRelease DEF NodesOf, NodesIn, AtMostOne
<1>8. ASSUME NEW x \in Inodes PROVE Cardinality(LinksAfter(x)) <= dinode'[x].nlink
  <2>1. \A y \in LinksAfter(x) : y \in LinksBefore(x) \/ (y = <<p, "link", 0>> /\ i = x)
    BY <1>1, <1>2, <1>3, <1>6, LinksGo
  <2>2. CASE x = i
    BY <1>6, <2>1, <2>2, CountMore DEF m
  <2>3. CASE x # i
    BY <1>6, <2>1, <2>3, CountFewer
  <2> QED
    BY <2>2, <2>3
<1> QED
  BY <1>1, <1>2, <1>4, <1>5, <1>7, <1>8, NlinkKeeps

LEMMA LinkUndoDisk ==
  ASSUME CallInv, DiskInv, NEW p \in Procs, LinkUndo(p)
  PROVE  DiskInv'
<1> DEFINE i == call[p].other
           m == dinode[i].nlink - 1
           s == <<Put(i)>>
<1>1. /\ At(p, "undo") /\ Lockable(i) /\ IUpdate(Unlinked(i), {i})
      /\ entry' = entry /\ Goto(p, Idle, s)
  BY DEF LinkUndo
<1>2. call[p].at = "undo" /\ i \in Inodes /\ CallTypes
  BY <1>1, AtPlace DEF CallInv
<1>3. dinode[i].type # "free" /\ m \in Int
  <2>1. dinode[i].nlink \in Int
    BY <1>2 DEF DiskInv, DiskTypes
  <2> QED
    BY <1>1, <1>2, <2>1, LoadedIs DEF DiskInv
<1>4. IUpdate([Load(i) EXCEPT ![i].nlink = m], {i})
  BY <1>1, <1>2, LinkedIs
<1>5. Idle.at = "idle" /\ s \in AtMostOne
  BY <1>2 DEF Idle, AtMostOne, OnePut
<1>6. <<p, "link", 0>> \in LinksBefore(i)
  BY <1>2, LinkKinds DEF LinksBefore, Relinking
<1> HIDE DEF m, s
<1>7. /\ dinode'[i].type = dinode[i].type /\ dinode'[i].nlink = m
      /\ \A x \in Inodes \ {i} : dinode'[x] = dinode[x]
  BY <1>2, <1>3, <1>4, UpdatedOne
<1> HIDE DEF i
<1>8. NodesOf(Idle, s)
  BY <1>5, NodesFree
<1>9. ASSUME NEW x \in Inodes PROVE Cardinality(LinksAfter(x)) <= dinode'[x].nlink
  <2>1. \A y \in LinksAfter(x) : y \in LinksBefore(x) /\ y # <<p, "link", 0>>
    BY <1>1, <1>2, <1>5, <1>7, LinksGo DEF Relinking
  <2>2. CASE x = i
    BY <1>6, <1>7, <2>1, <2>2, CountLess DEF m
  <2>3. CASE x # i
    BY <1>7, <2>1, <2>3, CountFewer
  <2> QED
    BY <2>2, <2>3
<1> QED
  BY <1>1, <1>2, <1>3, <1>4, <1>8, <1>9, NlinkKeeps

LEMMA UnlinkDecDisk ==
  ASSUME CallInv, DiskInv, NEW p \in Procs, UnlinkDec(p)
  PROVE  DiskInv'
<1> DEFINE i == call[p].other
           m == dinode[i].nlink - 1
           s == <<Put(i)>>
<1>1. /\ At(p, "dec") /\ IUpdate(Unlinked(i), {i})
      /\ entry' = entry /\ Goto(p, Idle, s)
  BY DEF UnlinkDec
<1>2. call[p].at = "dec" /\ i \in Inodes /\ CallTypes
  BY <1>1, AtPlace DEF CallInv
<1>3. dinode[i].type # "free" /\ m \in Int
  <2>1. dinode[i].nlink \in Int
    BY <1>2 DEF DiskInv, DiskTypes
  <2>2. dinode[i].nlink # 0
    BY <1>2, NoLinks
  <2> QED
    BY <1>2, <2>1, <2>2 DEF DiskInv, NodesSound
<1>4. IUpdate([Load(i) EXCEPT ![i].nlink = m], {i})
  BY <1>1, <1>2, LinkedIs
<1>5. Idle.at = "idle" /\ s \in AtMostOne
  BY <1>2 DEF Idle, AtMostOne, OnePut
<1>6. <<p, "dec", 0>> \in LinksBefore(i)
  BY <1>2, LinkKinds DEF LinksBefore
<1> HIDE DEF m, s
<1>7. /\ dinode'[i].type = dinode[i].type /\ dinode'[i].nlink = m
      /\ \A x \in Inodes \ {i} : dinode'[x] = dinode[x]
  BY <1>2, <1>3, <1>4, UpdatedOne
<1> HIDE DEF i
<1>8. NodesOf(Idle, s)
  BY <1>5, NodesFree
<1>9. ASSUME NEW x \in Inodes PROVE Cardinality(LinksAfter(x)) <= dinode'[x].nlink
  <2>1. \A y \in LinksAfter(x) : y \in LinksBefore(x) /\ y # <<p, "dec", 0>>
    BY <1>1, <1>2, <1>5, <1>7, LinksGo DEF Relinking
  <2>2. CASE x = i
    BY <1>6, <1>7, <2>1, <2>2, CountLess DEF m
  <2>3. CASE x # i
    BY <1>7, <2>1, <2>3, CountFewer
  <2> QED
    BY <2>2, <2>3
<1> QED
  BY <1>1, <1>2, <1>3, <1>4, <1>8, <1>9, NlinkKeeps
-----------------------------------------------------------------------------
(* Names that come and go *)

LEMMA AcyclicLess ==
  ASSUME Acyclic, \A x \in Inodes, m \in Names : entry'[x][m] \in {entry[x][m], 0}
  PROVE  Acyclic'
<1> SUFFICES ASSUME NEW S \in SUBSET Inodes, S # {}
             PROVE  \E x \in S : \A j \in S, n \in Names : entry'[x][n] # j
  BY DEF Acyclic
<1>1. PICK x \in S : \A j \in S, n \in Names : entry[x][n] # j
  BY DEF Acyclic
<1> QED
  BY <1>1, Numbers

(* A new name of an inode that is no directory or has nothing in it.       *)
LEMMA AcyclicMore ==
  ASSUME Acyclic, NEW i \in Inodes, \A m \in Names : entry'[i][m] = 0,
         \A x \in Inodes, m \in Names : entry'[x][m] \in {entry[x][m], i}
  PROVE  Acyclic'
<1> SUFFICES ASSUME NEW S \in SUBSET Inodes, S # {}
             PROVE  \E x \in S : \A j \in S, n \in Names : entry'[x][n] # j
  BY DEF Acyclic
<1>1. CASE i \in S
  BY <1>1, Numbers
<1>2. CASE i \notin S
  <2>1. PICK x \in S : \A j \in S, n \in Names : entry[x][n] # j
    BY DEF Acyclic
  <2> QED
    BY <1>2, <2>1
<1> QED
  BY <1>1, <1>2

(* What a call knows stays when names are added.                           *)
LEMMA KnownMore ==
  ASSUME CallInv, DiskInv, NEW q \in Procs,
         \A x \in Inodes, m \in Names : entry[x][m] # 0 => entry'[x][m] = entry[x][m],
         \A x \in Inodes : dinode[x].type # "free" =>
           dinode'[x].type = dinode[x].type /\ entry'[x][".."] = entry[x][".."]
  PROVE  NodesIn(dinode', entry', call[q], todo[q])
<1> DEFINE c == call[q]
           t == todo[q]
<1>1. NodesOf(c, t) /\ c \in CallRecords /\ Placed(c, t)
  BY DEF DiskInv, CallNodes, CallInv, CallTypes, CallsPlaced
<1>2. Relinking(c) /\ c.other # 0 => dinode[c.other].type # "free"
  <2>1. ASSUME Relinking(c), c.other # 0 PROVE c.other \in Inodes /\ dinode[c.other].nlink # 0
    <3>1. c.other \in Inodes
      BY <1>1, <2>1 DEF CallRecords
    <3> QED
      BY <2>1, <3>1, NoLinks
  <2> QED
    BY <2>1 DEF DiskInv, NodesSound
<1>3. c.at \in {"parent", "child"} => c.cur \in Inodes
  BY <1>1 DEF Placed, CallRecords, Idle
<1>4. c.at = "child" => c.name \in Names /\ c.other # 0
  BY <1>1 DEF Placed, Idle
<1>5. Relinking(c) /\ c.other # 0 => c.other \in Inodes
  BY <1>1 DEF CallRecords
<1> HIDE DEF c, t
<1>6. ASSUME NEW i \in Inodes, NEW j \in Inodes, t = <<Put(i), Unlock(j), Put(j)>>
      PROVE  dinode'[j].type = "dir" /\ PutsFrom(entry', c, i, j)
  <2>1. dinode[j].type = "dir" /\ PutsFrom(entry, c, i, j)
    BY <1>1, <1>6 DEF NodesOf, NodesIn
  <2> QED
    BY <2>1, Numbers DEF PutsFrom
<1>7. NodesIn(dinode', entry', c, t)
  BY <1>1, <1>2, <1>3, <1>4, <1>5, <1>6 DEF NodesOf, NodesIn
<1> QED
  BY <1>7 DEF c, t

LEMMA CallNodesLater ==
  ASSUME CallTypes, NEW p \in Procs, NEW c, NEW s, Goto(p, c, s),
         NodesIn(dinode', entry', c, s),
         \A q \in Procs \ {p} : NodesIn(dinode', entry', call[q], todo[q])
  PROVE  CallNodes'
<1>1. /\ call'[p] = c /\ todo'[p] = s
      /\ \A q \in Procs \ {p} : call'[q] = call[q] /\ todo'[q] = todo[q]
  BY WentOn
<1>2. \A q \in Procs : NodesIn(dinode', entry', call'[q], todo'[q])
  BY <1>1
<1> QED
  BY <1>2 DEF CallNodes, NodesOf

LEMMA NodesFreeIn ==
  ASSUME NEW k, NEW e, NEW c, NEW s, c.at \in {"idle", "made", "old", "dec"}, s \in AtMostOne \cup TwoPuts
  PROVE  NodesIn(k, e, c, s)
BY NotRelease DEF NodesIn, Relinking

LEMMA LinkNewDisk ==
  ASSUME CallInv, DiskInv, NEW p \in Procs, NEW n \in Names, LinkNew(p, n)
  PROVE  DiskInv'
<1> DEFINE d == call[p].cur
           i == call[p].other
           s == <<Put(d), Put(i)>>
<1>1. /\ At(p, "parent") /\ i # 0 /\ Lockable(d) /\ entry[d][n] = 0
      /\ inode' = Load(d) /\ entry' = [entry EXCEPT ![d][n] = i] /\ dinode' = dinode
      /\ Goto(p, Idle, s)
  BY DEF LinkNew
<1>2. call[p] \in CallRecords /\ call[p].at = "parent" /\ d \in Inodes /\ CallTypes
  BY <1>1, AtPlace DEF CallInv
<1>3. i \in Inodes
  BY <1>1, <1>2 DEF CallRecords
<1>4. dinode[d].type = "dir" /\ dinode[i].type # "dir"
  <2>1. NodesOf(call[p], todo[p])
    BY DEF DiskInv, CallNodes
  <2> QED
    BY <1>1, <1>2, <2>1 DEF NodesOf, NodesIn, Relinking
<1>5. Idle.at = "idle" /\ s \in TwoPuts
  BY <1>2, <1>3 DEF Idle, TwoPuts
<1>6. <<p, "link", 0>> \in LinksBefore(i)
  BY <1>2, <1>3, LinkKinds DEF LinksBefore, Relinking
<1>7. /\ call'[p] = Idle
      /\ \A q \in Procs \ {p} : call'[q] = call[q]
  BY <1>1, <1>2, WentOn
<1> HIDE DEF s, d, i
<1>8. CacheStep
  BY <1>1, <1>2, LoadCaches DEF DiskInv
<1>9. DiskTypes'
  <2>1. entry' \in [Inodes -> [Names \cup {".."} -> Inodes \cup {0}]]
    BY <1>1, <1>3 DEF DiskInv, DiskTypes
  <2> QED
    BY <1>1, <1>8, <2>1 DEF DiskInv, DiskTypes, CacheStep
<1>10. /\ \A x \in Inodes, m \in Names : entry'[x][m] = IF x = d /\ m = n THEN i ELSE entry[x][m]
       /\ \A x \in Inodes : entry'[x][".."] = entry[x][".."]
  BY <1>1, FSAssumption DEF FSAssumption, DiskInv, DiskTypes
<1>11. NodesSound'
  BY <1>1, <1>4, <1>8, <1>10 DEF DiskInv, NodesSound, CacheStep, Invalid, Node
<1>12. CallNodes'
  <2>1. \A q \in Procs : NodesIn(dinode', entry', call[q], todo[q])
    <3>1. \A x \in Inodes, m \in Names : entry[x][m] # 0 => entry'[x][m] = entry[x][m]
      BY <1>1, <1>10
    <3>2. \A x \in Inodes : dinode[x].type # "free" =>
            dinode'[x].type = dinode[x].type /\ entry'[x][".."] = entry[x][".."]
      BY <1>1, <1>10
    <3> QED
      BY <3>1, <3>2, KnownMore
  <2>2. NodesIn(dinode', entry', Idle, s)
    BY <1>5, NodesFreeIn
  <2> QED
    BY <1>1, <1>2, <2>1, <2>2, CallNodesLater
<1>13. Acyclic'
  <2>1. \A m \in Names : entry'[i][m] = 0
    BY <1>3, <1>4, <1>10 DEF DiskInv, NodesSound
  <2>2. \A x \in Inodes, m \in Names : entry'[x][m] \in {entry[x][m], i}
    BY <1>10
  <2> QED
    BY <1>3, <2>1, <2>2, AcyclicMore DEF DiskInv
<1>14. ASSUME NEW x \in Inodes, NEW y \in LinksAfter(x)
       PROVE  \/ y \in LinksBefore(x) /\ y # <<p, "link", 0>>
              \/ y = <<d, n>> /\ x = i
  <2>1. CASE \E e \in Inodes, m \in Names : y = <<e, m>> /\ entry'[e][m] = x
    BY <1>10, <2>1, LinkKinds DEF LinksBefore
  <2>2. CASE \E m \in Names : y = <<x, m>> /\ entry'[x][m] # 0 /\ dinode'[entry'[x][m]].type = "dir"
    <3>1. PICK m \in Names : y = <<x, m>> /\ entry'[x][m] # 0 /\ dinode[entry'[x][m]].type = "dir"
      BY <1>1, <2>2
    <3>2. ~(x = d /\ m = n)
      BY <1>4, <1>10, <3>1
    <3> QED
      BY <1>10, <3>1, <3>2, LinkKinds DEF LinksBefore
  <2>3. CASE \E q \in Procs : y = <<q, "link", 0>> /\ Relinking(call'[q]) /\ call'[q].other = x
    <3>1. PICK q \in Procs : y = <<q, "link", 0>> /\ Relinking(call'[q]) /\ call'[q].other = x
      BY <2>3
    <3>2. q # p
      BY <1>5, <1>7, <3>1 DEF Relinking
    <3> QED
      BY <1>7, <3>1, <3>2, LinkKinds DEF LinksBefore
  <2>4. CASE \E q \in Procs : y = <<q, "dec", 0>> /\ call'[q].at = "dec" /\ call'[q].other = x
    <3>1. PICK q \in Procs : y = <<q, "dec", 0>> /\ call'[q].at = "dec" /\ call'[q].other = x
      BY <2>4
    <3>2. q # p
      BY <1>5, <1>7, <3>1
    <3> QED
      BY <1>7, <3>1, <3>2, LinkKinds DEF LinksBefore
  <2>5. CASE x = ROOTINO /\ y = <<x, "root", 0>>
    BY <2>5, LinkKinds DEF LinksBefore
  <2> QED
    BY <1>14, <2>1, <2>2, <2>3, <2>4, <2>5, LinkKinds DEF LinksAfter
<1>15. ASSUME NEW x \in Inodes PROVE Cardinality(LinksAfter(x)) <= dinode'[x].nlink
  <2>1. CASE x = i
    BY <1>1, <1>6, <1>14, <2>1, CountMoved
  <2>2. CASE x # i
    BY <1>1, <1>14, <2>2, CountFewer
  <2> QED
    BY <2>1, <2>2
<1>16. NamesCounted'
  BY <1>15, LinksNow DEF NamesCounted, LinksAfter
<1> QED
  BY <1>9, <1>11, <1>12, <1>13, <1>16 DEF DiskInv

(* create() makes a node of what was a free inode.                         *)
LEMMA CreateNodes ==
  ASSUME DiskInv, NEW p \in Procs, NEW k \in Kinds, NEW n \in Names, CreateNew(p, k, n),
         call[p].cur \in Inodes, dinode[call[p].cur].type = "dir"
  PROVE  /\ Min(FreeInodes) \in Inodes /\ dinode[Min(FreeInodes)].type = "free"
         /\ dinode'[Min(FreeInodes)] = Node(k, 1) /\ inode'[Min(FreeInodes)] = Node(k, 1)
         /\ inode'[call[p].cur] = dinode'[call[p].cur]
         /\ dinode'[call[p].cur] =
              Node("dir", dinode[call[p].cur].nlink + (IF k = "dir" THEN 1 ELSE 0))
         /\ \A x \in Inodes \ {Min(FreeInodes), call[p].cur} :
              dinode'[x] = dinode[x] /\ inode'[x] = inode[x]
         /\ \A x \in Inodes, m \in Names :
              entry'[x][m] = IF x = call[p].cur /\ m = n THEN Min(FreeInodes) ELSE entry[x][m]
         /\ \A x \in Inodes \ {Min(FreeInodes)} : entry'[x][".."] = entry[x][".."]
         /\ DiskTypes'
<1> DEFINE d == call[p].cur
           i == Min(FreeInodes)
           more == IF k = "dir" THEN 1 ELSE 0
           made == [Load(d) EXCEPT ![i] = Node(IF Valid(i) THEN inode[i].type ELSE k, 1)]
<1>1. i \in Inodes /\ dinode[i].type = "free" /\ i # d
  <2>1. FreeInodes \in SUBSET Nat /\ FreeInodes # {}
    BY DEF CreateNew, FreeInodes, Inodes
  <2>2. i \in FreeInodes
    BY <2>1, MinIn
  <2> QED
    BY <2>2 DEF FreeInodes
<1>2. ~Valid(i)
  BY <1>1 DEF DiskInv, NodesSound, Valid
<1>3. Load(d) = [inode EXCEPT ![d] = dinode[d]]
  BY LoadedIs DEF DiskInv
<1>4. /\ dinode \in [Inodes -> [type : NodeTypes, nlink : Int]]
      /\ inode \in [Inodes -> [type : NodeTypes \cup {"none"}, nlink : Int]]
      /\ entry \in [Inodes -> [Names \cup {".."} -> Inodes \cup {0}]]
  BY DEF DiskInv, DiskTypes
<1>5. dinode[d] = Node("dir", dinode[d].nlink) /\ dinode[d].nlink \in Int
  BY <1>4 DEF Node
<1>6. made = [inode EXCEPT ![d] = dinode[d], ![i] = Node(k, 1)]
  BY <1>2, <1>3
<1> DEFINE nd == Node("dir", dinode[d].nlink + more)
           ni == Node(k, 1)
<1>7. /\ nd \in [type : NodeTypes, nlink : Int] /\ ni \in [type : NodeTypes, nlink : Int]
      /\ (k # "dir" => nd = dinode[d])
      /\ (k = "dir" => nd = [dinode[d] EXCEPT !.nlink = @ + 1])
  <2>1. k \in {"file", "dir", "dev"}
    BY FSAssumption DEF FSAssumption
  <2>2. nd \in [type : NodeTypes, nlink : Int] /\ ni \in [type : NodeTypes, nlink : Int]
    BY <1>5, <2>1 DEF Node, NodeTypes
  <2>3. k # "dir" => nd = dinode[d]
    BY <1>5
  <2>4. k = "dir" => nd = [dinode[d] EXCEPT !.nlink = @ + 1]
    BY <1>5 DEF Node
  <2> QED
    BY <2>2, <2>3, <2>4
<1>8. IF k = "dir"
      THEN /\ IUpdate([made EXCEPT ![d].nlink = @ + 1], {i, d})
           /\ entry' = [entry EXCEPT ![d][n] = i, ![i][".."] = d]
      ELSE /\ IUpdate(made, {i})
           /\ entry' = [entry EXCEPT ![d][n] = i]
  BY Zenon DEF CreateNew
<1> HIDE DEF made, nd, ni, d, i, more
<1>9. /\ made \in [Inodes -> [type : NodeTypes \cup {"none"}, nlink : Int]]
      /\ made[d] = dinode[d] /\ made[i] = ni
      /\ \A x \in Inodes \ {i, d} : made[x] = inode[x]
  <2>1. dinode[d] \in [type : NodeTypes \cup {"none"}, nlink : Int]
    BY <1>4 DEF d
  <2>2. ni \in [type : NodeTypes \cup {"none"}, nlink : Int] /\ d \in Inodes
    BY <1>7 DEF d
  <2>3. made = [inode EXCEPT ![d] = dinode[d], ![i] = ni]
    BY <1>6 DEF ni
  <2> QED
    BY <1>1, <1>4, <2>1, <2>2, <2>3
<1>10. d \in Inodes
  BY DEF d
<1>11. /\ inode' \in [Inodes -> [type : NodeTypes \cup {"none"}, nlink : Int]]
       /\ inode'[i] = ni /\ inode'[d] = nd
       /\ \A x \in Inodes \ {i, d} : inode'[x] = inode[x]
  <2>1. nd \in [type : NodeTypes \cup {"none"}, nlink : Int]
    BY <1>7
  <2>2. CASE k = "dir"
    <3>1. inode' = [made EXCEPT ![d].nlink = @ + 1]
      BY <1>8, <2>2 DEF IUpdate
    <3>2. inode' = [made EXCEPT ![d] = nd]
      BY <1>7, <1>9, <1>10, <2>2, <3>1
    <3> QED
      BY <1>1, <1>9, <1>10, <2>1, <3>2
  <2>3. CASE k # "dir"
    <3>1. inode' = made
      BY <1>8, <2>3 DEF IUpdate
    <3> QED
      BY <1>7, <1>9, <2>3, <3>1
  <2> QED
    BY <2>2, <2>3
<1>12. /\ dinode' \in [Inodes -> [type : NodeTypes, nlink : Int]]
       /\ dinode'[i] = ni /\ dinode'[d] = nd
       /\ \A x \in Inodes \ {i, d} : dinode'[x] = dinode[x]
  <2>1. CASE k = "dir"
    <3>1. dinode' = [x \in Inodes |-> IF x \in {i, d} THEN inode'[x] ELSE dinode[x]]
      BY <1>8, <2>1 DEF IUpdate
    <3> QED
      BY <1>1, <1>4, <1>7, <1>10, <1>11, <3>1
  <2>2. CASE k # "dir"
    <3>1. dinode' = [x \in Inodes |-> IF x \in {i} THEN inode'[x] ELSE dinode[x]]
      BY <1>8, <2>2 DEF IUpdate
    <3> QED
      BY <1>1, <1>4, <1>7, <1>10, <1>11, <2>2, <3>1
  <2> QED
    BY <2>1, <2>2
<1>13. /\ entry' \in [Inodes -> [Names \cup {".."} -> Inodes \cup {0}]]
       /\ \A x \in Inodes, m \in Names : entry'[x][m] = IF x = d /\ m = n THEN i ELSE entry[x][m]
       /\ \A x \in Inodes \ {i} : entry'[x][".."] = entry[x][".."]
  <2>1. ".." \notin Names
    BY FSAssumption DEF FSAssumption
  <2>2. CASE k = "dir"
    <3>1. entry' = [entry EXCEPT ![d][n] = i, ![i][".."] = d]
      BY <1>8, <2>2
    <3>2. /\ entry' \in [Inodes -> [Names \cup {".."} -> Inodes \cup {0}]]
          /\ \A x \in Inodes, m \in Names : entry'[x][m] = IF x = d /\ m = n THEN i ELSE entry[x][m]
      BY <1>1, <1>4, <1>10, <2>1, <3>1
    <3>3. \A x \in Inodes \ {i} : entry'[x][".."] = entry[x][".."]
      BY <1>1, <1>4, <1>10, <2>1, <3>1
    <3> QED
      BY <3>2, <3>3
  <2>3. CASE k # "dir"
    <3>1. entry' = [entry EXCEPT ![d][n] = i]
      BY <1>8, <2>3
    <3> QED
      BY <1>1, <1>4, <1>10, <2>1, <3>1
  <2> QED
    BY <2>2, <2>3
<1>14. DiskTypes'
  BY <1>11, <1>12, <1>13 DEF DiskTypes
<1> QED
  BY <1>1, <1>11, <1>12, <1>13, <1>14 DEF d, i, nd, ni, more

LEMMA CreateNewDisk ==
  ASSUME CallInv, DiskInv, NEW p \in Procs, NEW k \in Kinds, NEW n \in Names, CreateNew(p, k, n)
  PROVE  DiskInv'
<1> DEFINE d == call[p].cur
           i == Min(FreeInodes)
           c == [Idle EXCEPT !.at = "made", !.kind = k, !.other = i]
           s == <<Put(d)>>
           more == IF k = "dir" THEN 1 ELSE 0
<1>1. At(p, "parent") /\ Goto(p, c, s)
  BY DEF CreateNew
<1>2. call[p] \in CallRecords /\ call[p].at = "parent" /\ d \in Inodes /\ CallTypes
  BY <1>1, AtPlace DEF CallInv
<1>3. dinode[d].type = "dir"
  <2>1. NodesOf(call[p], todo[p])
    BY DEF DiskInv, CallNodes
  <2> QED
    BY <1>1, <1>2, <2>1 DEF NodesOf, NodesIn
<1>4. /\ i \in Inodes /\ dinode[i].type = "free"
      /\ dinode'[i] = Node(k, 1) /\ inode'[i] = Node(k, 1)
      /\ inode'[d] = dinode'[d]
      /\ dinode'[d] = Node("dir", dinode[d].nlink + more)
      /\ \A x \in Inodes \ {i, d} : dinode'[x] = dinode[x] /\ inode'[x] = inode[x]
      /\ \A x \in Inodes, m \in Names : entry'[x][m] = IF x = d /\ m = n THEN i ELSE entry[x][m]
      /\ \A x \in Inodes \ {i} : entry'[x][".."] = entry[x][".."]
      /\ DiskTypes'
  BY <1>2, <1>3, CreateNodes
<1>5. c.at = "made" /\ s \in AtMostOne
  BY <1>2 DEF Idle, AtMostOne, OnePut
<1>6. /\ call'[p] = c
      /\ \A q \in Procs \ {p} : call'[q] = call[q]
  BY <1>1, <1>2, WentOn
<1>7. k \in {"file", "dir", "dev"} /\ entry[d][n] = 0 /\ dinode[d].nlink \in Int
  BY <1>2, FSAssumption DEF FSAssumption, CreateNew, DiskInv, DiskTypes
<1> HIDE DEF c, s, d, i
<1>8. dinode[i].nlink = 0 /\ i # d /\ \A m \in Names : entry[i][m] = 0
  BY <1>3, <1>4 DEF DiskInv, NodesSound
<1>9. NodesSound'
  <2> SUFFICES ASSUME NEW x \in Inodes
               PROVE  /\ inode'[x].type # "free"
                      /\ inode'[x].type # "none" => inode'[x] = dinode'[x]
                      /\ dinode'[x].type = "free" => dinode'[x].nlink = 0
                      /\ dinode'[x].type # "dir" => \A m \in Names : entry'[x][m] = 0
    BY DEF NodesSound
  <2>1. CASE x = i
    BY <1>4, <1>7, <1>8, <2>1 DEF Node
  <2>2. CASE x = d
    BY <1>4, <1>7, <2>2 DEF Node
  <2>3. CASE x # i /\ x # d
    BY <1>4, <2>3 DEF DiskInv, NodesSound
  <2> QED
    BY <2>1, <2>2, <2>3
<1>10. CallNodes'
  <2>1. ASSUME NEW q \in Procs PROVE NodesIn(dinode', entry', call[q], todo[q])
    <3>1. \A x \in Inodes, m \in Names : entry[x][m] # 0 => entry'[x][m] = entry[x][m]
      BY <1>4, <1>7
    <3>2. \A x \in Inodes : dinode[x].type # "free" =>
            dinode'[x].type = dinode[x].type /\ entry'[x][".."] = entry[x][".."]
      BY <1>3, <1>4 DEF Node
    <3> QED
      BY <3>1, <3>2, KnownMore
  <2>2. NodesIn(dinode', entry', c, s)
    BY <1>5, NodesFreeIn
  <2> QED
    BY <1>1, <1>2, <2>1, <2>2, CallNodesLater
<1>11. Acyclic'
  <2>1. \A m \in Names : entry'[i][m] = 0
    BY <1>4, <1>8
  <2>2. \A x \in Inodes, m \in Names : entry'[x][m] \in {entry[x][m], i}
    BY <1>4
  <2> QED
    BY <1>4, <2>1, <2>2, AcyclicMore DEF DiskInv
<1>12. ASSUME NEW x \in Inodes, NEW y \in LinksAfter(x)
       PROVE  \/ y \in LinksBefore(x)
              \/ y = <<d, n>> /\ (x = i \/ (x = d /\ k = "dir"))
  <2>1. CASE \E e \in Inodes, m \in Names : y = <<e, m>> /\ entry'[e][m] = x
    BY <1>4, <2>1, LinkKinds DEF LinksBefore
  <2>2. CASE \E m \in Names : y = <<x, m>> /\ entry'[x][m] # 0 /\ dinode'[entry'[x][m]].type = "dir"
    <3>1. PICK m \in Names : y = <<x, m>> /\ entry'[x][m] # 0 /\ dinode'[entry'[x][m]].type = "dir"
      BY <2>2
    <3>2. CASE x = d /\ m = n
      BY <1>4, <3>1, <3>2 DEF Node
    <3>3. CASE ~(x = d /\ m = n)
      <4>1. entry[x][m] # 0 /\ dinode'[entry[x][m]].type = "dir"
        BY <1>4, <3>1, <3>3
      <4>2. entry[x][m] \in Inodes
        BY <4>1 DEF DiskInv, DiskTypes
      <4>3. entry[x][m] # i
        BY <1>4, <1>8, NoLinks
      <4>4. dinode[entry[x][m]].type = "dir"
        BY <1>3, <1>4, <4>1, <4>2, <4>3
      <4> QED
        BY <3>1, <4>1, <4>4, LinkKinds DEF LinksBefore
    <3> QED
      BY <3>2, <3>3
  <2>3. CASE \E q \in Procs : y = <<q, "link", 0>> /\ Relinking(call'[q]) /\ call'[q].other = x
    <3>1. PICK q \in Procs : y = <<q, "link", 0>> /\ Relinking(call'[q]) /\ call'[q].other = x
      BY <2>3
    <3>2. q # p
      BY <1>5, <1>6, <3>1 DEF Relinking
    <3> QED
      BY <1>6, <3>1, <3>2, LinkKinds DEF LinksBefore
  <2>4. CASE \E q \in Procs : y = <<q, "dec", 0>> /\ call'[q].at = "dec" /\ call'[q].other = x
    <3>1. PICK q \in Procs : y = <<q, "dec", 0>> /\ call'[q].at = "dec" /\ call'[q].other = x
      BY <2>4
    <3>2. q # p
      BY <1>5, <1>6, <3>1
    <3> QED
      BY <1>6, <3>1, <3>2, LinkKinds DEF LinksBefore
  <2>5. CASE x = ROOTINO /\ y = <<x, "root", 0>>
    BY <2>5, LinkKinds DEF LinksBefore
  <2> QED
    BY <1>12, <2>1, <2>2, <2>3, <2>4, <2>5, LinkKinds DEF LinksAfter
<1>13. ASSUME NEW x \in Inodes PROVE Cardinality(LinksAfter(x)) <= dinode'[x].nlink
  <2>1. CASE x = i
    <3>1. dinode'[x].nlink = dinode[x].nlink + 1
      BY <1>4, <1>8, <2>1 DEF Node
    <3> QED
      BY <1>12, <3>1, CountMore
  <2>2. CASE x = d /\ k = "dir"
    <3>1. dinode'[x].nlink = dinode[x].nlink + 1
      BY <1>4, <2>2 DEF Node
    <3> QED
      BY <1>12, <3>1, CountMore
  <2>3. CASE x # i /\ ~(x = d /\ k = "dir")
    <3>1. dinode'[x].nlink = dinode[x].nlink
      BY <1>4, <1>7, <2>3 DEF Node
    <3> QED
      BY <1>12, <2>3, <3>1, CountFewer
  <2> QED
    BY <2>1, <2>2, <2>3
<1>14. NamesCounted'
  BY <1>13, LinksNow DEF NamesCounted, LinksAfter
<1> QED
  BY <1>4, <1>9, <1>10, <1>11, <1>14 DEF DiskInv
-----------------------------------------------------------------------------
(* The last reference: nothing else holds the inode.                       *)
LEMMA HolderOf ==
  ASSUME NEW x, NEW q \in Procs
  PROVE  /\ cwd[q] = x => <<q, "cwd", 0>> \in Holders(x)
         /\ call[q].cur = x => <<q, "cur", 0>> \in Holders(x)
         /\ call[q].other = x => <<q, "other", 0>> \in Holders(x)
         /\ \A k \in DOMAIN todo[q] : todo[q][k] \in {Put(x), Drop(x)} => <<q, "todo", k>> \in Holders(x)
         /\ \A f \in Files : ftable[f].ip = x => <<Nobody, "file", f>> \in Holders(x)
<1>1. cwd[q] = x => <<q, "cwd", 0>> \in Holders(x)
  BY Zenon DEF Holders
<1>2. call[q].cur = x => <<q, "cur", 0>> \in Holders(x)
  BY Zenon DEF Holders
<1>3. call[q].other = x => <<q, "other", 0>> \in Holders(x)
  BY Zenon DEF Holders
<1>4. ASSUME NEW k \in DOMAIN todo[q], todo[q][k] \in {Put(x), Drop(x)}
      PROVE  <<q, "todo", k>> \in Holders(x)
  <2> DEFINE S(r) == {<<r, "todo", j>> : j \in {l \in DOMAIN todo[r] : todo[r][l] \in {Put(x), Drop(x)}}}
             T == UNION {S(r) : r \in Procs}
  <2>1. <<q, "todo", k>> \in S(q)
    BY <1>4
  <2> HIDE DEF S
  <2>2. <<q, "todo", k>> \in T
    BY <2>1, Zenon
  <2>3. T \subseteq Holders(x)
    BY DEF S, Holders
  <2> QED
    BY <2>2, <2>3, Zenon
<1>5. \A f \in Files : ftable[f].ip = x => <<Nobody, "file", f>> \in Holders(x)
  BY Zenon DEF Holders
<1> QED
  BY <1>1, <1>2, <1>3, <1>4, <1>5, Zenon

LEMMA OnlyHolder ==
  ASSUME CallInv, NEW p \in Procs, NEW i \in Inodes,
         todo[p] # << >>, Head(todo[p]) \in {Put(i), Drop(i)}, ref[i] = 1
  PROVE  /\ \A q \in Procs : cwd[q] # i /\ call[q].cur # i /\ call[q].other # i
         /\ \A q \in Procs : \A k \in DOMAIN todo[q] : todo[q][k] \in {Put(i), Drop(i)} => q = p /\ k = 1
         /\ \A f \in Files : ftable[f].ip # i
<1>1. Cardinality(Holders(i)) = 1
  BY DEF CallInv, EntryRefs
<1>2. IsFiniteSet(Holders(i))
  <2>1. \A q \in Procs : DOMAIN todo[q] \subseteq {1, 2, 3}
    BY StepsShort DEF CallInv, CallTypes
  <2>2. IsFiniteSet(HoldersAt(cwd, call, todo, ftable, i))
    BY <2>1, HoldersCounted
  <2> QED
    BY <2>2, HoldersNow
<1>3. PICK h : Holders(i) = {h}
  BY <1>1, <1>2, FS_Singleton
<1>4. 1 \in DOMAIN todo[p] /\ todo[p][1] \in {Put(i), Drop(i)}
  <2>1. todo[p] \in AnySteps
    BY DEF CallInv, CallTypes
  <2> DEFINE t == todo[p]
  <2>2. t \in AnySteps /\ t # << >>
    BY <2>1
  <2>3. t \in OnePut \cup TwoPuts \cup Release
    BY <2>2 DEF AnySteps, AtMostOne, NoSteps
  <2> HIDE DEF t
  <2>4. 1 \in DOMAIN t /\ Head(t) = t[1]
    BY <2>3 DEF OnePut, TwoPuts, Release
  <2> QED
    BY <2>4 DEF t
<1>5. h = <<p, "todo", 1>>
  BY <1>3, <1>4, HolderOf, Zenon
<1>6. ASSUME NEW q \in Procs PROVE cwd[q] # i /\ call[q].cur # i /\ call[q].other # i
  <2>1. /\ <<q, "cwd", 0>> # <<p, "todo", 1>> /\ <<q, "cur", 0>> # <<p, "todo", 1>>
        /\ <<q, "other", 0>> # <<p, "todo", 1>>
    OBVIOUS
  <2> QED
    BY <1>3, <1>5, <2>1, HolderOf, Zenon
<1>7. ASSUME NEW q \in Procs, NEW k \in DOMAIN todo[q], todo[q][k] \in {Put(i), Drop(i)}
      PROVE  q = p /\ k = 1
  <2>1. <<q, "todo", k>> = <<p, "todo", 1>>
    BY <1>3, <1>5, <1>7, HolderOf, Zenon
  <2> QED
    BY <2>1
<1>8. ASSUME NEW f \in Files PROVE ftable[f].ip # i
  <2>1. <<Nobody, "file", f>> # <<p, "todo", 1>>
    OBVIOUS
  <2> QED
    BY <1>3, <1>5, <2>1, HolderOf, Zenon
<1> QED
  BY <1>6, <1>7, <1>8

LEMMA UnlocksPuts ==
  ASSUME NEW t \in AnySteps, NEW i, Unlocks(t, i)
  PROVE  \E k \in DOMAIN t : k # 1 /\ t[k] = Put(i)
<1>1. \A j \in Inodes : Unlock(j) = Unlock(i) => j = i
  BY StepsApart
<1>2. t \in Release
  <2>1. t \notin AtMostOne
    BY UnlocksAtMostOne
  <2>2. t \notin TwoPuts
    <3>1. SUFFICES ASSUME NEW j \in Inodes, NEW k \in Inodes, t = <<Put(j), Put(k)>> \/ t = <<Drop(j), Put(k)>>
                   PROVE  FALSE
      BY DEF TwoPuts
    <3> QED
      BY <3>1, UnlocksTwo
  <2> QED
    BY <2>1, <2>2 DEF AnySteps
<1>3. PICK j \in Inodes, k \in Inodes :
        \/ t = <<Put(j), Unlock(k), Put(k)>> \/ t = <<Drop(j), Unlock(k), Put(k)>>
        \/ t = <<Unlock(k), Put(k)>>
  BY <1>2, Numbers DEF Release
<1>4. k = i
  <2>1. /\ Unlocks(<<Put(j), Unlock(k), Put(k)>>, i) => k = i
        /\ Unlocks(<<Drop(j), Unlock(k), Put(k)>>, i) => k = i
    BY UnlocksThree
  <2>2. Unlocks(<<Unlock(k), Put(k)>>, i) => k = i
    BY UnlocksRest
  <2> QED
    BY <1>3, <2>1, <2>2
<1>5. CASE t = <<Put(j), Unlock(k), Put(k)>> \/ t = <<Drop(j), Unlock(k), Put(k)>>
  <2>1. 3 \in DOMAIN t /\ t[3] = Put(i)
    BY <1>4, <1>5
  <2> QED
    BY <2>1
<1>6. CASE t = <<Unlock(k), Put(k)>>
  <2>1. 2 \in DOMAIN t /\ t[2] = Put(i)
    BY <1>4, <1>6
  <2> QED
    BY <2>1
<1> QED
  BY <1>3, <1>5, <1>6

LEMMA OnlyKeeper ==
  ASSUME CallInv, LocksKept, NEW p \in Procs, NEW i \in Inodes,
         todo[p] # << >>, Head(todo[p]) \in {Put(i), Drop(i)}, ref[i] = 1
  PROVE  lock[i] = Nobody
<1> SUFFICES ASSUME NEW q \in Procs, Keeps(call[q], todo[q], i)
             PROVE  FALSE
  BY DEF CallInv, RefTypes, LocksKept
<1>1. /\ call[q].cur # i /\ call[q].other # i
      /\ \A k \in DOMAIN todo[q] : todo[q][k] = Put(i) => k = 1
  BY OnlyHolder
<1>2. Unlocks(todo[q], i)
  BY <1>1 DEF Keeps
<1>3. todo[q] \in AnySteps
  BY DEF CallInv, CallTypes
<1>4. PICK k \in DOMAIN todo[q] : k # 1 /\ todo[q][k] = Put(i)
  BY <1>2, <1>3, UnlocksPuts
<1> QED
  BY <1>1, <1>4
-----------------------------------------------------------------------------
(* A locked inode is valid in core: what ilock() loads stays, as long as   *)
(* somebody refers to it.                                                  *)
LockedValid == \A i \in Inodes : lock[i] # Nobody => inode[i].type # "none"

ValidAfter(nodes, i) ==
  /\ nodes[i].type # "none"
  /\ \A x \in Inodes : inode[x].type # "none" => nodes[x].type # "none"

LEMMA LoadValid ==
  ASSUME DiskInv, NEW i \in Inodes, NEW j \in Inodes, NEW m
  PROVE  ValidAfter(Load(i), i) /\ ValidAfter([Load(i) EXCEPT ![j].nlink = m], i)
<1>1. Load(i) = [inode EXCEPT ![i] = dinode[i]]
  BY LoadedIs DEF DiskInv
<1>2. /\ inode \in [Inodes -> [type : NodeTypes \cup {"none"}, nlink : Int]]
      /\ dinode[i] \in [type : NodeTypes, nlink : Int]
  BY DEF DiskInv, DiskTypes
<1> DEFINE l == Load(i)
           r == [l EXCEPT ![j].nlink = m]
<1>3. dinode[i].type # "none"
  BY <1>2 DEF NodeTypes
<1>4. /\ l \in [Inodes -> [type : NodeTypes \cup {"none"}, nlink : Int]]
      /\ l[i] = dinode[i] /\ \A x \in Inodes \ {i} : l[x] = inode[x]
  BY <1>1, <1>2
<1> HIDE DEF l
<1>5. \A x \in Inodes : r[x].type = l[x].type
  BY <1>4
<1> HIDE DEF r
<1>6. ValidAfter(l, i) /\ ValidAfter(r, i)
  BY <1>3, <1>4, <1>5 DEF ValidAfter
<1> QED
  BY <1>6 DEF l, r

LEMMA LockedStays ==
  ASSUME LockedValid, NEW i \in Inodes, ValidAfter(inode', i),
         \A x \in Inodes : lock'[x] # Nobody => lock[x] # Nobody \/ x = i
  PROVE  LockedValid'
BY DEF LockedValid, ValidAfter

LEMMA WalkValid ==
  ASSUME CallInv, DiskInv, LockedValid, NEW p \in Procs, Walk(p)
  PROVE  LockedValid'
<1>1. ASSUME lock' = lock, At(p, "walk"), inode' = Load(call[p].cur) PROVE LockedValid'
  <2>1. call[p].cur \in Inodes
    BY <1>1, AtPlace DEF CallInv
  <2>2. ValidAfter(inode', call[p].cur)
    BY <1>1, <2>1, LoadValid
  <2> QED
    BY <1>1, <2>1, <2>2, LockedStays
<1>2. ASSUME NEW i \in Starts(p), Begin(p, i) PROVE LockedValid'
  BY <1>2 DEF Begin, LockedValid
<1>3. ASSUME NEW n, WalkOn(p, n) PROVE LockedValid'
  BY <1>1, <1>3 DEF WalkOn
<1>4. ASSUME NEW n, WalkFail(p, n) PROVE LockedValid'
  BY <1>1, <1>4 DEF WalkFail
<1>5. ASSUME WalkStop(p) \/ WrongKind(p) PROVE LockedValid'
  BY <1>1, <1>5 DEF WalkStop, WrongKind
<1> QED
  BY <1>2, <1>3, <1>4, <1>5, Zenon DEF Walk

LEMMA ActValid ==
  ASSUME CallInv, DiskInv, LockedValid, NEW p \in Procs, Act(p)
  PROVE  LockedValid'
<1> DEFINE d == call[p].cur
           i == call[p].other
<1>1. /\ At(p, "walk") \/ At(p, "parent") \/ At(p, "child") => d \in Inodes
      /\ At(p, "made") \/ At(p, "old") \/ At(p, "dec") \/ At(p, "undo") \/ At(p, "child") => i \in Inodes
  BY AtPlace DEF CallInv
<1>2. ASSUME NEW x \in Inodes, inode' = Load(x) \/ inode' = Linked(x) \/ inode' = Unlinked(x),
             \A y \in Inodes : lock'[y] # Nobody => lock[y] # Nobody \/ y = x
      PROVE  LockedValid'
  <2>1. ValidAfter(inode', x)
    BY <1>2, LoadValid, LinkedIs
  <2> QED
    BY <1>2, <2>1, LockedStays
<1>3. lock \in [Inodes -> Procs \cup {Nobody}]
  BY DEF CallInv, RefTypes
<1>4. CASE Open(p) \/ Chdir(p) \/ \E j \in Starts(p) : LinkOld(p, j)
  <2>1. CASE Open(p) \/ Chdir(p)
    BY <1>1, <1>2, <2>1 DEF Open, Chdir
  <2>2. ASSUME NEW j \in Starts(p), LinkOld(p, j) PROVE LockedValid'
    BY <1>1, <1>2, <2>2 DEF LinkOld, IUpdate
  <2> QED
    BY <1>4, <2>1, <2>2
<1>5. ASSUME UnlinkNone(p) \/ \E n : LinkNew(p, n) \/ LinkClash(p, n) \/ UnlinkFind(p, n) \/ CreateOld(p, n)
      PROVE  LockedValid'
  <2>1. /\ At(p, "parent") /\ (lock' = lock \/ lock' = [lock EXCEPT ![d] = p])
        /\ inode' = Load(d)
    BY <1>5 DEF LinkNew, LinkClash, UnlinkFind, UnlinkNone, CreateOld
  <2>2. \A y \in Inodes : lock'[y] # Nobody => lock[y] # Nobody \/ y = d
    BY <1>3, <2>1
  <2> QED
    BY <1>1, <1>2, <2>1, <2>2
<1>6. ASSUME NEW n \in Names, NEW k \in Kinds, CreateNew(p, k, n) PROVE LockedValid'
  <2> DEFINE j == Min(FreeInodes)
  <2>1. At(p, "parent")
    BY <1>6 DEF CreateNew
  <2>2. d \in Inodes /\ dinode[d].type = "dir"
    <3>1. NodesOf(call[p], todo[p])
      BY DEF DiskInv, CallNodes
    <3> QED
      BY <1>1, <2>1, <3>1 DEF NodesOf, NodesIn, At
  <2>3. /\ inode'[j] = Node(k, 1) /\ inode'[d].type = "dir"
        /\ \A x \in Inodes \ {j, d} : inode'[x] = inode[x]
        /\ j \in Inodes
    <3>1. /\ inode'[j] = Node(k, 1) /\ inode'[d] = dinode'[d]
          /\ dinode'[d] = Node("dir", dinode[d].nlink + (IF k = "dir" THEN 1 ELSE 0))
          /\ \A x \in Inodes \ {j, d} : inode'[x] = inode[x]
          /\ j \in Inodes
      BY <1>6, <2>2, CreateNodes
    <3>2. \A m : Node("dir", m).type = "dir"
      BY DEF Node
    <3> QED
      BY <3>1, <3>2
  <2>4. lock' = [lock EXCEPT ![j] = p]
    BY <1>6 DEF CreateNew
  <2>5. k # "none"
    BY FSAssumption DEF FSAssumption
  <2> HIDE DEF j, d
  <2>6. ValidAfter(inode', j)
    BY <2>3, <2>5 DEF ValidAfter, Node
  <2>7. \A y \in Inodes : lock'[y] # Nobody => lock[y] # Nobody \/ y = j
    BY <1>3, <2>4
  <2> QED
    BY <2>3, <2>6, <2>7, LockedStays
<1>7. CASE Created(p)
  <2>1. lock' = [lock EXCEPT ![i] = Nobody] /\ inode' = inode
    BY <1>7 DEF Created
  <2> QED
    BY <1>3, <2>1 DEF LockedValid
<1>8. CASE CreateTake(p) \/ LinkUndo(p) \/ UnlinkBusy(p)
  <2>1. /\ At(p, "old") \/ At(p, "undo") \/ At(p, "child")
        /\ lock' = lock /\ (inode' = Load(i) \/ inode' = Unlinked(i))
    BY <1>8 DEF CreateTake, LinkUndo, UnlinkBusy, IUpdate
  <2> QED
    BY <1>1, <1>2, <2>1
<1>9. CASE UnlinkDec(p)
  <2>1. At(p, "dec") /\ lock' = [lock EXCEPT ![i] = Nobody] /\ inode' = Unlinked(i)
    BY <1>9 DEF UnlinkDec, IUpdate
  <2>2. \A y \in Inodes : lock'[y] # Nobody => lock[y] # Nobody \/ y = i
    BY <1>3, <2>1
  <2> QED
    BY <1>1, <1>2, <2>1, <2>2
<1>10. CASE UnlinkEntry(p)
  <2>1. /\ At(p, "child") /\ lock' = [lock EXCEPT ![d] = Nobody, ![i] = p]
        /\ inode' = Load(i) \/ inode' = [Load(i) EXCEPT ![d].nlink = @ - 1]
    BY <1>10 DEF UnlinkEntry, IUpdate
  <2>2. i \in Inodes /\ d \in Inodes
    BY <1>1, <2>1
  <2> HIDE DEF i, d
  <2>3. \A y \in Inodes : lock'[y] # Nobody => lock[y] # Nobody \/ y = i
    BY <1>3, <2>1
  <2>4. ValidAfter([Load(i) EXCEPT ![d].nlink = @ - 1], i)
    <3> DEFINE m == Load(i)[d].nlink - 1
    <3>1. ValidAfter([Load(i) EXCEPT ![d].nlink = m], i)
      BY <2>2, LoadValid
    <3> QED
      BY <3>1
  <2>5. ValidAfter(inode', i)
    BY <2>1, <2>2, <2>4, LoadValid
  <2> QED
    BY <2>2, <2>3, <2>5, LockedStays
<1> QED
  BY <1>4, <1>5, <1>6, <1>7, <1>8, <1>9, <1>10, Zenon DEF Act

LEMMA NextValid ==
  ASSUME CallInv, DiskInv, LocksKept, LockedValid, Next
  PROVE  LockedValid'
<1>1. /\ lock \in [Inodes -> Procs \cup {Nobody}] /\ ref \in [Inodes -> Int]
      /\ inode \in [Inodes -> [type : NodeTypes \cup {"none"}, nlink : Int]]
  BY DEF CallInv, RefTypes, DiskInv, DiskTypes
<1>2. ASSUME NEW p \in Procs, Walk(p) PROVE LockedValid'
  BY <1>2, WalkValid
<1>3. ASSUME NEW p \in Procs, Act(p) PROVE LockedValid'
  BY <1>3, ActValid
<1>4. ASSUME NEW p \in Procs, NEW i \in Inodes, DoPut(p, i) PROVE LockedValid'
  <2>1. /\ lock' = lock /\ lock[i] = Nobody
        /\ inode' = [inode EXCEPT ![i] = Invalid] \/ inode' = inode
    BY <1>4 DEF DoPut
  <2> QED
    BY <1>1, <2>1 DEF LockedValid
<1>5. ASSUME NEW p \in Procs, NEW i \in Inodes, DoDrop(p, i) PROVE LockedValid'
  <2>1. lock' = lock /\ inode' = IF ref[i] = 1 THEN [inode EXCEPT ![i] = Invalid] ELSE inode
    BY <1>5 DEF DoDrop
  <2>2. todo[p] # << >> /\ Head(todo[p]) = Drop(i)
    BY <1>5 DEF DoDrop, Does
  <2>3. ref[i] = 1 => lock[i] = Nobody
    BY <2>2, OnlyKeeper
  <2> QED
    BY <1>1, <2>1, <2>3 DEF LockedValid
<1>6. ASSUME NEW p \in Procs, NEW i \in Inodes, DoUnlock(p, i) PROVE LockedValid'
  <2>1. lock' = [lock EXCEPT ![i] = Nobody] /\ inode' = inode
    BY <1>6 DEF DoUnlock
  <2> QED
    BY <1>1, <2>1 DEF LockedValid
<1>7. ASSUME NEW p \in Procs, Close(p) \/ Exit(p) \/ \E q \in Procs : Fork(p, q) PROVE LockedValid'
  <2>1. inode' = inode /\ lock' = lock
    BY <1>7 DEF Close, Exit, Fork
  <2> QED
    BY <2>1 DEF LockedValid
<1>8. CASE Crash
  <2>1. ASSUME NEW i \in Inodes PROVE lock[i] = Nobody
    <3>1. \A p \in Procs : call[p].at = "idle" /\ todo[p] = NoSteps
      BY <1>8 DEF Crash, At, NoSteps
    <3>2. \A p \in Procs : ~Keeps(call[p], todo[p], i)
      BY <3>1, UnlocksOne DEF Keeps
    <3> QED
      BY <1>1, <3>2 DEF LocksKept
  <2>2. lock' = lock
    BY <1>8 DEF Crash
  <2> QED
    BY <2>1, <2>2 DEF LockedValid
<1> QED
  BY <1>2, <1>3, <1>4, <1>5, <1>6, <1>7, <1>8, Zenon DEF Next, Finish
-----------------------------------------------------------------------------
(* unlink() takes the name away: the link is counted until it is back with *)
(* the inode.                                                              *)
UnlinkKnows(p) ==
  /\ call[p].at = "child" /\ todo[p] = NoSteps
  /\ call[p].cur \in Inodes /\ call[p].other \in Inodes /\ call[p].name \in Names
  /\ call[p].cur # call[p].other
  /\ dinode[call[p].cur].type = "dir"
  /\ entry[call[p].cur][call[p].name] = call[p].other
  /\ lock[call[p].cur] = p /\ lock[call[p].other] = Nobody
  /\ inode[call[p].cur] = dinode[call[p].cur]
  /\ dinode[call[p].other].type # "free"
  /\ \A m \in Names : entry[call[p].other][m] = 0

LEMMA UnlinkEntryKnows ==
  ASSUME CallInv, DiskInv, LocksKept, LockedValid, NEW p \in Procs, UnlinkEntry(p)
  PROVE  UnlinkKnows(p)
<1> DEFINE d == call[p].cur
           i == call[p].other
           n == call[p].name
<1>1. At(p, "child") /\ Lockable(i) /\ ~Busy(i)
  BY DEF UnlinkEntry
<1>2. /\ call[p].at = "child" /\ todo[p] = NoSteps /\ d \in Inodes /\ i \in Inodes /\ n \in Names
  BY <1>1, AtPlace DEF CallInv
<1>3. dinode[d].type = "dir" /\ entry[d][n] = i
  <2>1. NodesOf(call[p], todo[p])
    BY DEF DiskInv, CallNodes
  <2> QED
    BY <1>2, <2>1 DEF NodesOf, NodesIn
<1>4. lock[i] = Nobody /\ dinode[i].type # "free" /\ Loaded(i) = dinode[i]
  BY <1>1, <1>2, LoadedIs DEF DiskInv
<1>5. lock[d] = p
  BY <1>2 DEF LocksKept, Keeps
<1>6. d # i /\ lock[d] # Nobody
  BY <1>4, <1>5, FSAssumption DEF FSAssumption
<1>7. inode[d] = dinode[d]
  BY <1>2, <1>6 DEF LockedValid, DiskInv, NodesSound
<1>8. \A m \in Names : entry[i][m] = 0
  <2>1. CASE dinode[i].type = "dir"
    BY <1>1, <1>4, <2>1 DEF Busy, IsDirEmpty
  <2>2. CASE dinode[i].type # "dir"
    BY <1>2, <2>2 DEF DiskInv, NodesSound
  <2> QED
    BY <2>1, <2>2
<1> QED
  BY <1>2, <1>3, <1>4, <1>5, <1>6, <1>7, <1>8 DEF UnlinkKnows

LEMMA UnlinkNodes ==
  ASSUME DiskInv, NEW p \in Procs, UnlinkEntry(p), UnlinkKnows(p)
  PROVE  /\ dinode'[call[p].cur] =
              Node("dir", dinode[call[p].cur].nlink - (IF dinode[call[p].other].type = "dir" THEN 1 ELSE 0))
         /\ \A x \in Inodes \ {call[p].cur} : dinode'[x] = dinode[x]
         /\ \A x \in Inodes : \/ x # call[p].cur /\ inode'[x] = inode[x]
                              \/ inode'[x] = dinode'[x] /\ dinode[x].type # "free"
         /\ \A x \in Inodes, m \in Names :
              entry'[x][m] = IF x = call[p].cur /\ m = call[p].name THEN 0 ELSE entry[x][m]
         /\ \A x \in Inodes : entry'[x][".."] = entry[x][".."]
         /\ DiskTypes'
<1> DEFINE d == call[p].cur
           i == call[p].other
           less == IF dinode[i].type = "dir" THEN 1 ELSE 0
           nd == Node("dir", dinode[d].nlink - less)
           l == Load(i)
<1>1. /\ d \in Inodes /\ i \in Inodes /\ d # i /\ call[p].name \in Names
      /\ inode[d] = dinode[d] /\ dinode[d].type = "dir"
  BY DEF UnlinkKnows
<1>2. /\ dinode \in [Inodes -> [type : NodeTypes, nlink : Int]]
      /\ inode \in [Inodes -> [type : NodeTypes \cup {"none"}, nlink : Int]]
      /\ entry \in [Inodes -> [Names \cup {".."} -> Inodes \cup {0}]]
  BY DEF DiskInv, DiskTypes
<1>3. l = [inode EXCEPT ![i] = dinode[i]] /\ Loaded(i) = dinode[i]
  BY <1>1, LoadedIs DEF DiskInv
<1>4. dinode[d] = Node("dir", dinode[d].nlink) /\ dinode[d].nlink \in Int
  BY <1>1, <1>2 DEF Node
<1>5. /\ nd \in [type : NodeTypes, nlink : Int]
      /\ dinode[i].type = "dir" => nd = [dinode[d] EXCEPT !.nlink = @ - 1]
      /\ dinode[i].type # "dir" => nd = dinode[d]
  <2>1. nd \in [type : NodeTypes, nlink : Int]
    BY <1>4 DEF Node, NodeTypes
  <2>2. dinode[i].type = "dir" => nd = [dinode[d] EXCEPT !.nlink = @ - 1]
    BY <1>4 DEF Node
  <2>3. dinode[i].type # "dir" => nd = dinode[d]
    BY <1>4
  <2> QED
    BY <2>1, <2>2, <2>3
<1>6. IF dinode[i].type = "dir"
      THEN IUpdate([l EXCEPT ![d].nlink = @ - 1], {d})
      ELSE inode' = l /\ UNCHANGED dinode
  BY <1>3, Zenon DEF UnlinkEntry
<1>7. entry' = [entry EXCEPT ![d][call[p].name] = 0]
  BY DEF UnlinkEntry
<1> HIDE DEF nd, l, d, i
<1>8. /\ l \in [Inodes -> [type : NodeTypes \cup {"none"}, nlink : Int]]
      /\ l[i] = dinode[i] /\ l[d] = dinode[d] /\ \A x \in Inodes \ {i} : l[x] = inode[x]
  <2>1. dinode[i] \in [type : NodeTypes \cup {"none"}, nlink : Int]
    BY <1>1, <1>2
  <2> QED
    BY <1>1, <1>2, <1>3, <2>1
<1>9. nd \in [type : NodeTypes \cup {"none"}, nlink : Int]
  BY <1>5
<1>10. /\ inode' = [l EXCEPT ![d] = nd]
       /\ dinode' = [dinode EXCEPT ![d] = nd]
  <2>1. CASE dinode[i].type = "dir"
    <3>1. inode' = [l EXCEPT ![d] = nd]
      BY <1>5, <1>6, <1>8, <2>1 DEF IUpdate
    <3>2. dinode' = [x \in Inodes |-> IF x \in {d} THEN inode'[x] ELSE dinode[x]]
      BY <1>6, <2>1 DEF IUpdate
    <3>3. inode'[d] = nd
      BY <1>1, <1>8, <3>1
    <3>4. dinode' = [dinode EXCEPT ![d] = nd]
      BY <1>2, <3>2, <3>3
    <3> QED
      BY <3>1, <3>4
  <2>2. CASE dinode[i].type # "dir"
    <3>1. inode' = l /\ dinode' = dinode
      BY <1>6, <2>2
    <3>2. nd = dinode[d]
      BY <1>5, <2>2
    <3>3. l = [l EXCEPT ![d] = nd] /\ dinode = [dinode EXCEPT ![d] = nd]
      BY <1>1, <1>2, <1>8, <3>2
    <3> QED
      BY <3>1, <3>3
  <2> QED
    BY <2>1, <2>2
<1>11. DiskTypes'
  <2>1. entry' \in [Inodes -> [Names \cup {".."} -> Inodes \cup {0}]]
    BY <1>1, <1>2, <1>7
  <2>2. /\ inode' \in [Inodes -> [type : NodeTypes \cup {"none"}, nlink : Int]]
        /\ dinode' \in [Inodes -> [type : NodeTypes, nlink : Int]]
    BY <1>1, <1>2, <1>5, <1>8, <1>9, <1>10
  <2> QED
    BY <2>1, <2>2 DEF DiskTypes
<1>12. /\ \A x \in Inodes, m \in Names :
            entry'[x][m] = IF x = d /\ m = call[p].name THEN 0 ELSE entry[x][m]
       /\ \A x \in Inodes : entry'[x][".."] = entry[x][".."]
  BY <1>1, <1>2, <1>7, FSAssumption DEF FSAssumption
<1>13. dinode'[d] = nd /\ \A x \in Inodes \ {d} : dinode'[x] = dinode[x]
  BY <1>1, <1>2, <1>10
<1>14. ASSUME NEW x \in Inodes
       PROVE  \/ x # d /\ inode'[x] = inode[x]
              \/ inode'[x] = dinode'[x] /\ dinode[x].type # "free"
  <2>1. dinode[i].type # "free"
    BY DEF UnlinkKnows, i
  <2>2. CASE x = d
    BY <1>1, <1>8, <1>10, <1>13, <2>2
  <2>3. CASE x # d
    BY <1>1, <1>8, <1>10, <1>13, <2>1, <2>3
  <2> QED
    BY <2>2, <2>3
<1> QED
  BY <1>11, <1>12, <1>13, <1>14 DEF nd, d, i, less

LEMMA UnlinkEntryDisk ==
  ASSUME CallInv, DiskInv, LocksKept, LockedValid, NEW p \in Procs, UnlinkEntry(p)
  PROVE  DiskInv'
<1> DEFINE d == call[p].cur
           i == call[p].other
           n == call[p].name
           c == [Idle EXCEPT !.at = "dec", !.other = i]
           s == <<Put(d)>>
           less == IF dinode[i].type = "dir" THEN 1 ELSE 0
<1>1. UnlinkKnows(p) /\ CallTypes
  BY UnlinkEntryKnows DEF CallInv
<1>2. Goto(p, c, s)
  BY DEF UnlinkEntry
<1>3. /\ dinode'[d] = Node("dir", dinode[d].nlink - less)
      /\ \A x \in Inodes \ {d} : dinode'[x] = dinode[x]
      /\ \A x \in Inodes : \/ x # d /\ inode'[x] = inode[x]
                           \/ inode'[x] = dinode'[x] /\ dinode[x].type # "free"
      /\ \A x \in Inodes, m \in Names : entry'[x][m] = IF x = d /\ m = n THEN 0 ELSE entry[x][m]
      /\ \A x \in Inodes : entry'[x][".."] = entry[x][".."]
      /\ DiskTypes'
  BY <1>1, UnlinkNodes
<1>4. /\ d \in Inodes /\ i \in Inodes /\ n \in Names /\ d # i /\ lock[d] = p
      /\ dinode[d].type = "dir" /\ entry[d][n] = i
  BY <1>1 DEF UnlinkKnows
<1>5. c.at = "dec" /\ c.other = i /\ s \in AtMostOne
  BY <1>4 DEF Idle, AtMostOne, OnePut
<1>6. /\ call'[p] = c /\ todo'[p] = s
      /\ \A q \in Procs \ {p} : call'[q] = call[q] /\ todo'[q] = todo[q]
  BY <1>1, <1>2, WentOn
<1>7. /\ <<d, n>> \in LinksBefore(i)
      /\ dinode[i].type = "dir" => <<d, n>> \in LinksBefore(d)
  <2>1. i # 0
    BY <1>4, Numbers
  <2> QED
    BY <1>4, <2>1, LinkKinds DEF LinksBefore
<1> HIDE DEF c, s, d, i, n
<1>8. \A x \in Inodes : dinode'[x].type = dinode[x].type
  BY <1>3, <1>4 DEF Node
<1>9. NodesSound'
  <2> SUFFICES ASSUME NEW x \in Inodes
               PROVE  /\ inode'[x].type # "free"
                      /\ inode'[x].type # "none" => inode'[x] = dinode'[x]
                      /\ dinode'[x].type = "free" => dinode'[x].nlink = 0
                      /\ dinode'[x].type # "dir" => \A m \in Names : entry'[x][m] = 0
    BY DEF NodesSound
  <2>1. CASE x # d /\ inode'[x] = inode[x]
    <3>1. dinode'[x] = dinode[x] /\ \A m \in Names : entry'[x][m] = entry[x][m]
      BY <1>3, <2>1
    <3> QED
      BY <2>1, <3>1 DEF DiskInv, NodesSound
  <2>2. CASE inode'[x] = dinode'[x] /\ dinode[x].type # "free"
    <3>1. dinode'[x].type = dinode[x].type /\ \A m \in Names : entry'[x][m] \in {entry[x][m], 0}
      BY <1>3, <1>8
    <3>2. dinode[x].type # "dir" => \A m \in Names : entry[x][m] = 0
      BY DEF DiskInv, NodesSound
    <3> QED
      BY <2>2, <3>1, <3>2
  <2> QED
    BY <1>3, <2>1, <2>2
<1>10. CallNodes'
  <2>1. ASSUME NEW q \in Procs \ {p} PROVE NodesIn(dinode', entry', call[q], todo[q])
    <3> DEFINE e == call[q]
               t == todo[q]
    <3>1. NodesOf(e, t) /\ e \in CallRecords /\ Placed(e, t)
      BY DEF DiskInv, CallNodes, CallInv, CallTypes, CallsPlaced
    <3>2. \A x \in Inodes : Keeps(e, t, x) => x # d
      BY <1>4 DEF LocksKept
    <3>3. e.at \in {"parent", "child"} => e.cur \in Inodes
      BY <3>1 DEF Placed, CallRecords, Idle
    <3>4. e.at = "child" => e.name \in Names
      BY <3>1 DEF Placed, Idle
    <3>5. Relinking(e) /\ e.other # 0 => e.other \in Inodes
      BY <3>1 DEF CallRecords
    <3> HIDE DEF e, t
    <3>6. e.at = "child" => e.cur # d
      BY <3>2, <3>3 DEF Keeps
    <3>7. ASSUME NEW a \in Inodes, NEW j \in Inodes, t = <<Put(a), Unlock(j), Put(j)>>
          PROVE  dinode'[j].type = "dir" /\ PutsFrom(entry', e, a, j)
      <4>1. dinode[j].type = "dir" /\ PutsFrom(entry, e, a, j)
        BY <3>1, <3>7 DEF NodesOf, NodesIn
      <4>2. Unlocks(t, j)
        BY <3>7, UnlocksThree
      <4>3. j # d
        BY <3>2, <4>2 DEF Keeps
      <4> QED
        BY <1>3, <1>8, <4>1, <4>3 DEF PutsFrom
    <3>8. NodesIn(dinode', entry', e, t)
      BY <1>3, <1>8, <3>1, <3>3, <3>4, <3>5, <3>6, <3>7 DEF NodesOf, NodesIn
    <3> QED
      BY <3>8 DEF e, t
  <2>2. NodesIn(dinode', entry', c, s)
    BY <1>5, NodesFreeIn
  <2> QED
    BY <1>1, <1>2, <2>1, <2>2, CallNodesLater
<1>11. Acyclic'
  <2>1. \A x \in Inodes, m \in Names : entry'[x][m] \in {entry[x][m], 0}
    BY <1>3
  <2> QED
    BY <2>1, AcyclicLess DEF DiskInv
<1>12. ASSUME NEW x \in Inodes, NEW y \in LinksAfter(x)
       PROVE  \/ y \in LinksBefore(x) /\ y # <<d, n>>
              \/ y = <<p, "dec", 0>> /\ x = i
  <2>1. CASE \E e \in Inodes, m \in Names : y = <<e, m>> /\ entry'[e][m] = x
    <3>1. PICK e \in Inodes, m \in Names : y = <<e, m>> /\ entry'[e][m] = x
      BY <2>1
    <3>2. ~(e = d /\ m = n)
      BY <1>3, <3>1, Numbers
    <3> QED
      BY <1>3, <3>1, <3>2, LinkKinds DEF LinksBefore
  <2>2. CASE \E m \in Names : y = <<x, m>> /\ entry'[x][m] # 0 /\ dinode'[entry'[x][m]].type = "dir"
    <3>1. PICK m \in Names : y = <<x, m>> /\ entry'[x][m] # 0 /\ dinode'[entry'[x][m]].type = "dir"
      BY <2>2
    <3>2. ~(x = d /\ m = n) /\ entry'[x][m] = entry[x][m]
      BY <1>3, <3>1
    <3>3. entry[x][m] \in Inodes
      BY <3>1, <3>2 DEF DiskInv, DiskTypes
    <3>4. dinode[entry[x][m]].type = "dir"
      BY <1>8, <3>1, <3>2, <3>3
    <3> QED
      BY <3>1, <3>2, <3>4, LinkKinds DEF LinksBefore
  <2>3. CASE \E q \in Procs : y = <<q, "link", 0>> /\ Relinking(call'[q]) /\ call'[q].other = x
    <3>1. PICK q \in Procs : y = <<q, "link", 0>> /\ Relinking(call'[q]) /\ call'[q].other = x
      BY <2>3
    <3>2. q # p /\ y # <<d, n>>
      BY <1>5, <1>6, <3>1 DEF Relinking
    <3> QED
      BY <1>6, <3>1, <3>2, LinkKinds DEF LinksBefore
  <2>4. CASE \E q \in Procs : y = <<q, "dec", 0>> /\ call'[q].at = "dec" /\ call'[q].other = x
    <3>1. PICK q \in Procs : y = <<q, "dec", 0>> /\ call'[q].at = "dec" /\ call'[q].other = x
      BY <2>4
    <3>2. y # <<d, n>>
      BY <3>1
    <3>3. CASE q = p
      BY <1>5, <1>6, <3>1, <3>3
    <3>4. CASE q # p
      BY <1>6, <3>1, <3>2, <3>4, LinkKinds DEF LinksBefore
    <3> QED
      BY <3>3, <3>4
  <2>5. CASE x = ROOTINO /\ y = <<x, "root", 0>>
    BY <2>5, LinkKinds DEF LinksBefore
  <2> QED
    BY <1>12, <2>1, <2>2, <2>3, <2>4, <2>5, LinkKinds DEF LinksAfter
<1>13. ASSUME NEW x \in Inodes PROVE Cardinality(LinksAfter(x)) <= dinode'[x].nlink
  <2>1. CASE x = i
    <3>1. dinode'[x].nlink = dinode[x].nlink
      BY <1>3, <1>4, <2>1
    <3> QED
      BY <1>7, <1>12, <2>1, <3>1, CountMoved
  <2>2. CASE x = d /\ dinode[i].type = "dir"
    <3>1. dinode'[x].nlink = dinode[x].nlink - 1
      BY <1>3, <2>2 DEF Node
    <3> QED
      BY <1>4, <1>7, <1>12, <2>2, <3>1, CountLess
  <2>3. CASE x # i /\ ~(x = d /\ dinode[i].type = "dir")
    <3>1. dinode'[x].nlink = dinode[x].nlink
      <4>1. dinode[d].nlink \in Int
        BY <1>4 DEF DiskInv, DiskTypes
      <4> QED
        BY <1>3, <2>3, <4>1 DEF Node
    <3> QED
      BY <1>12, <2>3, <3>1, CountFewer
  <2> QED
    BY <2>1, <2>2, <2>3
<1>14. NamesCounted'
  BY <1>13, LinksNow DEF NamesCounted, LinksAfter
<1> QED
  BY <1>3, <1>9, <1>10, <1>11, <1>14 DEF DiskInv
-----------------------------------------------------------------------------
(* iput() frees an inode: nothing knows of it.                             *)
LEMMA LastRefIs ==
  ASSUME CallInv, DiskInv, NEW p \in Procs, NEW i \in Inodes, DoPut(p, i), LastRef(i)
  PROVE  /\ todo[p] # << >> /\ Head(todo[p]) = Put(i) /\ ref[i] = 1
         /\ dinode[i].nlink = 0 /\ dinode[i].type # "free"
<1>1. todo[p] # << >> /\ Head(todo[p]) = Put(i)
  BY DEF DoPut, Does
<1>2. inode[i].type # "none" /\ inode[i].nlink = 0 /\ ref[i] = 1
  BY DEF LastRef, Valid
<1>3. inode[i] = dinode[i] /\ inode[i].type # "free"
  BY <1>2 DEF DiskInv, NodesSound
<1> QED
  BY <1>1, <1>2, <1>3

LEMMA LastRefDisk ==
  ASSUME CallInv, DiskInv, NEW p \in Procs, NEW i \in Inodes, DoPut(p, i), LastRef(i)
  PROVE  DiskInv'
<1>1. /\ inode'  = [inode EXCEPT ![i] = Invalid] /\ dinode' = [dinode EXCEPT ![i] = Free]
      /\ entry'  = [entry EXCEPT ![i] = NoEntries]
      /\ Does(p, Put(i)) /\ call' = call /\ cwd' = cwd
  BY DEF DoPut, procvars
<1>2. /\ todo[p] # << >> /\ Head(todo[p]) = Put(i) /\ ref[i] = 1
      /\ dinode[i].nlink = 0
  BY LastRefIs
<1>3. /\ \A d \in Inodes, n \in Names : entry[d][n] # i
      /\ \A q \in Procs : call[q].cur # i /\ call[q].other # i
      /\ \A q \in Procs : \A k \in DOMAIN todo[q] : todo[q][k] = Put(i) => q = p /\ k = 1
  <2>1. \A d \in Inodes, n \in Names : entry[d][n] # i
    BY <1>2, NoLinks
  <2>2. /\ \A q \in Procs : call[q].cur # i /\ call[q].other # i
        /\ \A q \in Procs : \A k \in DOMAIN todo[q] : todo[q][k] \in {Put(i), Drop(i)} => q = p /\ k = 1
    BY <1>2, OnlyHolder
  <2> QED
    BY <2>1, <2>2
<1>4. /\ Invalid \in [type : NodeTypes \cup {"none"}, nlink : Int] /\ Invalid.type = "none"
      /\ Free \in [type : NodeTypes, nlink : Int] /\ Free.type = "free" /\ Free.nlink = 0
      /\ NoEntries \in [Names \cup {".."} -> Inodes \cup {0}]
      /\ \A m \in Names : NoEntries[m] = 0
  BY DEF Invalid, Free, Node, NodeTypes, NoEntries
<1>5. DiskTypes'
  BY <1>1, <1>4 DEF DiskInv, DiskTypes
<1>6. /\ inode'[i] = Invalid /\ dinode'[i] = Free /\ \A m \in Names : entry'[i][m] = 0
      /\ \A x \in Inodes \ {i} : inode'[x] = inode[x] /\ dinode'[x] = dinode[x] /\ entry'[x] = entry[x]
  BY <1>1, <1>4 DEF DiskInv, DiskTypes
<1>7. NodesSound'
  BY <1>4, <1>6 DEF DiskInv, NodesSound
<1>8. CallNodes'
  <2>1. /\ todo[p] \in AnySteps /\ todo'[p] = After(todo[p])
        /\ \A q \in Procs \ {p} : todo'[q] = todo[q]
    BY <1>1, StepTaken DEF CallInv
  <2>2. \A a, j : todo'[p] # <<Put(a), Unlock(j), Put(j)>>
    BY <1>2, <2>1, AfterNotRelease
  <2>3. ASSUME NEW q \in Procs PROVE NodesIn(dinode', entry', call[q], todo'[q])
    <3> DEFINE e == call[q]
               t == todo'[q]
    <3>1. NodesOf(e, todo[q]) /\ e \in CallRecords /\ Placed(e, todo[q]) /\ e.cur # i /\ e.other # i
      BY <1>3 DEF DiskInv, CallNodes, CallInv, CallTypes, CallsPlaced
    <3>2. e.at \in {"parent", "child"} => e.cur \in Inodes
      BY <3>1 DEF Placed, CallRecords, Idle
    <3>3. Relinking(e) /\ e.other # 0 => e.other \in Inodes
      BY <3>1 DEF CallRecords
    <3>4. ASSUME NEW a \in Inodes, NEW j \in Inodes, t = <<Put(a), Unlock(j), Put(j)>>
          PROVE  dinode'[j].type = "dir" /\ PutsFrom(entry', e, a, j)
      <4>1. q # p /\ todo[q] = t
        BY <2>1, <2>2, <3>4
      <4>2. dinode[j].type = "dir" /\ PutsFrom(entry, e, a, j)
        BY <3>1, <3>4, <4>1 DEF NodesOf, NodesIn
      <4>3. 3 \in DOMAIN todo[q] /\ todo[q][3] = Put(j)
        BY <3>4, <4>1
      <4>4. j # i
        BY <1>3, <4>1, <4>3
      <4> QED
        BY <1>6, <4>2, <4>4 DEF PutsFrom
    <3> HIDE DEF e, t
    <3>5. NodesIn(dinode', entry', e, t)
      BY <1>6, <3>1, <3>2, <3>3, <3>4 DEF NodesOf, NodesIn
    <3> QED
      BY <3>5 DEF e, t
  <2> QED
    BY <1>1, <2>3 DEF CallNodes, NodesOf
<1>9. Acyclic'
  <2>1. \A x \in Inodes, m \in Names : entry'[x][m] \in {entry[x][m], 0}
    BY <1>6
  <2> QED
    BY <2>1, AcyclicLess DEF DiskInv
<1>10. ASSUME NEW x \in Inodes, NEW y \in LinksAfter(x) PROVE y \in LinksBefore(x)
  <2>1. CASE \E e \in Inodes, m \in Names : y = <<e, m>> /\ entry'[e][m] = x
    <3>1. PICK e \in Inodes, m \in Names : y = <<e, m>> /\ entry'[e][m] = x
      BY <2>1
    <3>2. e # i
      BY <1>6, <3>1, Numbers
    <3> QED
      BY <1>6, <3>1, <3>2, LinkKinds DEF LinksBefore
  <2>2. CASE \E m \in Names : y = <<x, m>> /\ entry'[x][m] # 0 /\ dinode'[entry'[x][m]].type = "dir"
    <3>1. PICK m \in Names : y = <<x, m>> /\ entry'[x][m] # 0 /\ dinode'[entry'[x][m]].type = "dir"
      BY <2>2
    <3>2. x # i /\ entry'[x][m] = entry[x][m]
      BY <1>6, <3>1
    <3>3. entry[x][m] \in Inodes
      BY <3>1, <3>2 DEF DiskInv, DiskTypes
    <3>4. dinode[entry[x][m]].type = "dir"
      BY <1>3, <1>6, <3>1, <3>2, <3>3
    <3> QED
      BY <3>1, <3>2, <3>4, LinkKinds DEF LinksBefore
  <2>3. CASE \E q \in Procs : y = <<q, "link", 0>> /\ Relinking(call'[q]) /\ call'[q].other = x
    BY <1>1, <2>3, LinkKinds DEF LinksBefore
  <2>4. CASE \E q \in Procs : y = <<q, "dec", 0>> /\ call'[q].at = "dec" /\ call'[q].other = x
    BY <1>1, <2>4, LinkKinds DEF LinksBefore
  <2>5. CASE x = ROOTINO /\ y = <<x, "root", 0>>
    BY <2>5, LinkKinds DEF LinksBefore
  <2> QED
    BY <1>10, <2>1, <2>2, <2>3, <2>4, <2>5, LinkKinds DEF LinksAfter
<1>11. ASSUME NEW x \in Inodes PROVE Cardinality(LinksAfter(x)) <= dinode'[x].nlink
  <2>1. dinode'[x].nlink = dinode[x].nlink
    BY <1>2, <1>4, <1>6
  <2> QED
    BY <1>10, <2>1, CountFewer
<1>12. NamesCounted'
  BY <1>11, LinksNow DEF NamesCounted, LinksAfter
<1> QED
  BY <1>5, <1>7, <1>8, <1>9, <1>12 DEF DiskInv

(* All steps together.                                                     *)
LEMMA ActDisk ==
  ASSUME CallInv, DiskInv, LocksKept, LockedValid, NEW p \in Procs, Act(p)
  PROVE  DiskInv'
<1>1. CASE \/ Open(p) \/ Chdir(p) \/ Created(p) \/ CreateTake(p) \/ UnlinkBusy(p)
           \/ UnlinkNone(p) \/ \E n \in Names : UnlinkFind(p, n)
           \/ \E n \in Names \cup {".", ".."} : LinkClash(p, n)
           \/ \E n : CreateOld(p, n)
  BY <1>1, QuietDisk
<1>2. ASSUME NEW i \in Starts(p), LinkOld(p, i) PROVE DiskInv'
  BY <1>2, LinkOldDisk
<1>3. ASSUME NEW n \in Names, LinkNew(p, n) PROVE DiskInv'
  BY <1>3, LinkNewDisk
<1>4. ASSUME NEW n \in Names, NEW k \in Kinds, CreateNew(p, k, n) PROVE DiskInv'
  BY <1>4, CreateNewDisk
<1>5. CASE LinkUndo(p)
  BY <1>5, LinkUndoDisk
<1>6. CASE UnlinkEntry(p)
  BY <1>6, UnlinkEntryDisk
<1>7. CASE UnlinkDec(p)
  BY <1>7, UnlinkDecDisk
<1> QED
  BY <1>1, <1>2, <1>3, <1>4, <1>5, <1>6, <1>7, Zenon DEF Act

LEMMA NextDisk ==
  ASSUME CallInv, FileInv, DiskInv, LocksKept, LockedValid, Next
  PROVE  DiskInv'
<1>1. ASSUME NEW p \in Procs, Walk(p) PROVE DiskInv'
  BY <1>1, WalkDisk
<1>2. ASSUME NEW p \in Procs, Act(p) PROVE DiskInv'
  BY <1>2, ActDisk
<1>3. ASSUME NEW p \in Procs, NEW i \in Inodes, DoPut(p, i) PROVE DiskInv'
  <2>1. CASE LastRef(i)
    BY <1>3, <2>1, LastRefDisk
  <2>2. CASE ~LastRef(i)
    <3>1. Does(p, Put(i)) /\ call' = call /\ cwd' = cwd /\ UNCHANGED diskvars /\ inode' = inode
      BY <1>3, <2>2 DEF DoPut, procvars
    <3>2. CacheStep
      BY <3>1, InvalidCaches DEF DiskInv
    <3> QED
      BY <3>1, <3>2, QuietSteps
  <2> QED
    BY <2>1, <2>2
<1>4. ASSUME NEW p \in Procs, NEW i \in Inodes, DoDrop(p, i) PROVE DiskInv'
  <2>1. /\ Does(p, Drop(i)) /\ call' = call /\ cwd' = cwd /\ UNCHANGED diskvars
        /\ inode' = inode \/ inode' = [inode EXCEPT ![i] = Invalid]
    BY <1>4 DEF DoDrop, procvars
  <2>2. CacheStep
    BY <2>1, InvalidCaches DEF DiskInv
  <2> QED
    BY <2>1, <2>2, QuietSteps
<1>5. ASSUME NEW p \in Procs, NEW i \in Inodes, DoUnlock(p, i) PROVE DiskInv'
  <2>1. Does(p, Unlock(i)) /\ call' = call /\ cwd' = cwd /\ UNCHANGED diskvars /\ inode' = inode
    BY <1>5 DEF DoUnlock, procvars
  <2>2. CacheStep
    BY <2>1, InvalidCaches DEF DiskInv
  <2> QED
    BY <2>1, <2>2, QuietSteps
<1>6. CASE \/ \E p \in Procs : Close(p) \/ Exit(p) \/ \E q \in Procs : Fork(p, q)
           \/ Crash
  BY <1>6, QuietOthers
<1> QED
  BY <1>1, <1>2, <1>3, <1>4, <1>5, <1>6, Zenon DEF Next, Finish

LEMMA InitDisk ==
  ASSUME Init
  PROVE  DiskInv /\ LockedValid
<1> DEFINE top == Node("dir", 1)
<1>1. /\ dinode = [i \in Inodes |-> IF i = ROOTINO THEN top ELSE Free]
      /\ entry = [i \in Inodes |-> [NoEntries EXCEPT ![".."] = IF i = ROOTINO THEN i ELSE 0]]
      /\ inode = NoneValid /\ lock = [i \in Inodes |-> Nobody]
      /\ \A p \in Procs : call[p] = Idle /\ todo[p] = NoSteps
  BY DEF Init, NoSteps
<1>2. /\ Invalid \in [type : NodeTypes \cup {"none"}, nlink : Int] /\ Invalid.type = "none"
      /\ Free \in [type : NodeTypes, nlink : Int] /\ Free.type = "free" /\ Free.nlink = 0
      /\ top \in [type : NodeTypes, nlink : Int] /\ top.type = "dir" /\ top.nlink = 1
  BY DEF Invalid, Free, Node, NodeTypes
<1>3. /\ entry \in [Inodes -> [Names \cup {".."} -> Inodes \cup {0}]]
      /\ \A i \in Inodes, n \in Names : entry[i][n] = 0
  <2>1. ".." \notin Names /\ NoEntries \in [Names \cup {".."} -> Inodes \cup {0}]
        /\ \A n \in Names : NoEntries[n] = 0
    BY FSAssumption DEF FSAssumption, NoEntries
  <2> QED
    BY <1>1, <2>1
<1> HIDE DEF top
<1>4. DiskTypes
  BY <1>1, <1>2, <1>3 DEF DiskTypes, NoneValid
<1>5. NodesSound
  BY <1>1, <1>2, <1>3 DEF NodesSound, NoneValid
<1>6. CallNodes
  <2>1. Idle.at = "idle" /\ NoSteps \in AtMostOne
    BY DEF Idle, AtMostOne
  <2>2. NodesOf(Idle, NoSteps)
    BY <2>1, NodesFree
  <2> QED
    BY <1>1, <2>2 DEF CallNodes
<1>7. Acyclic
  BY <1>3, Numbers DEF Acyclic
<1>8. ASSUME NEW i \in Inodes PROVE Cardinality(Links(i)) <= dinode[i].nlink
  <2> DEFINE L == LinksAt(entry, dinode, call, i)
             R == IF i = ROOTINO THEN {<<i, "root", 0>>} ELSE {}
  <2>1. ASSUME NEW x \in L PROVE i = ROOTINO /\ x = <<i, "root", 0>>
    <3>1. \A p \in Procs : ~Relinking(call[p]) /\ call[p].at # "dec"
      BY <1>1 DEF Idle, Relinking
    <3>2. i # 0
      BY Numbers
    <3>3. \/ \E d \in Inodes, n \in Names : x = <<d, n>> /\ entry[d][n] = i
          \/ \E n \in Names : x = <<i, n>> /\ entry[i][n] # 0 /\ dinode[entry[i][n]].type = "dir"
          \/ \E p \in Procs : x = <<p, "link", 0>> /\ Relinking(call[p]) /\ call[p].other = i
          \/ \E p \in Procs : x = <<p, "dec", 0>> /\ call[p].at = "dec" /\ call[p].other = i
          \/ i = ROOTINO /\ x = <<i, "root", 0>>
      BY <2>1, LinkKinds
    <3> QED
      BY <1>3, <3>1, <3>2, <3>3
  <2>2. IsFiniteSet(R) /\ Cardinality(R) = dinode[i].nlink
    BY <1>1, <1>2, FS_Singleton, FS_EmptySet
  <2>3. L \subseteq R
    BY <2>1
  <2> HIDE DEF L, R
  <2>4. Cardinality(L) <= Cardinality(R)
    BY <2>2, <2>3, LinksFewer
  <2> QED
    BY <2>2, <2>4, LinksNow DEF L
<1>9. LockedValid
  BY <1>1 DEF LockedValid
<1> QED
  BY <1>4, <1>5, <1>6, <1>7, <1>8, <1>9 DEF DiskInv, NamesCounted
-----------------------------------------------------------------------------
(* The inductive invariant *)

FSInv == CallInv /\ FileInv /\ LocksKept /\ DiskInv /\ LockedValid

LEMMA InitInv == ASSUME Init PROVE FSInv
BY InitCalls, InitLocks, InitDisk DEF FSInv, CallInv

LEMMA NextInv == ASSUME FSInv, Next PROVE FSInv'
<1>1. CallInv' /\ FileInv'
  BY NextRefs DEF FSInv, DiskInv
<1>2. LocksKept'
  BY NextLocks DEF FSInv, DiskInv
<1>3. DiskInv'
  BY NextDisk DEF FSInv
<1>4. LockedValid'
  BY NextValid DEF FSInv
<1> QED
  BY <1>1, <1>2, <1>3, <1>4 DEF FSInv

LEMMA StutterInv == ASSUME FSInv, UNCHANGED vars PROVE FSInv'
<1>1. /\ dinode' = dinode /\ entry' = entry /\ inode' = inode /\ ref' = ref /\ lock' = lock
      /\ ftable' = ftable /\ cwd' = cwd /\ ofile' = ofile /\ call' = call /\ todo' = todo
  BY DEF vars, diskvars, procvars
<1>2. CallInv'
  <2>1. CallTypes' /\ CallsPlaced' /\ RefTypes'
    BY <1>1 DEF FSInv, CallInv, CallTypes, CallsPlaced, RefTypes
  <2>2. EntryRefs'
    BY <1>1, HoldersNow DEF FSInv, CallInv, EntryRefs
  <2> QED
    BY <2>1, <2>2 DEF CallInv
<1>3. FileInv'
  BY <1>1 DEF FSInv, FileInv, FileRefs, FilesUsed, ExitedClosed
<1>4. LocksKept' /\ LockedValid'
  BY <1>1 DEF FSInv, LocksKept, LockedValid
<1>5. DiskInv'
  <2>1. DiskTypes' /\ NodesSound'
    BY <1>1 DEF FSInv, DiskInv, DiskTypes, NodesSound
  <2>3. CallNodes'
    BY <1>1 DEF FSInv, DiskInv, CallNodes, NodesOf
  <2>4. Acyclic'
    BY <1>1 DEF FSInv, DiskInv, Acyclic
  <2>2. NamesCounted'
    BY <1>1, LinksNow DEF FSInv, DiskInv, NamesCounted
  <2> QED
    BY <2>1, <2>2, <2>3, <2>4 DEF DiskInv
<1> QED
  BY <1>2, <1>3, <1>4, <1>5 DEF FSInv

(* Everything above holds in every state that the calls can reach.         *)
THEOREM FileSystemInvariant == Spec => []FSInv
<1>1. Init => FSInv
  BY InitInv
<1>2. FSInv /\ [Next]_vars => FSInv'
  BY NextInv, StutterInv
<1> QED
  BY <1>1, <1>2, PTL DEF Spec

(* ref of every in-core inode and of every open file is the number of      *)
(* those that refer to it, and nlink is never less than the links: no path *)
(* through create(), link(), unlink(), open(), close(), chdir(), fork() or *)
(* exit(), however many calls run, loses or repeats a reference.           *)
THEOREM CountsAlwaysHold == Spec => []CountsHold
<1>1. FSInv => CountsHold
  BY DEF FSInv, CallInv, FileInv, DiskInv, CountsHold, RefsHeld, EntryRefs, FileRefs
<1> QED
  BY <1>1, FileSystemInvariant, PTL
-----------------------------------------------------------------------------
(* Who waits for whom                                                      *)

LEMMA StepWants ==
  ASSUME NEW t \in AnySteps, t # << >>, Head(t)[1] = "put"
  PROVE  Head(t)[2] \in Inodes
<1>1. PICK i \in Inodes : Head(t) = Put(i) \/ Head(t) = Drop(i) \/ Head(t) = Unlock(i)
  <2>1. CASE t \in OnePut
    BY <2>1 DEF OnePut
  <2>2. CASE t \in TwoPuts
    BY <2>2 DEF TwoPuts
  <2>3. CASE t \in Release
    BY <2>3 DEF Release
  <2> QED
    BY <2>1, <2>2, <2>3 DEF AnySteps, AtMostOne, NoSteps
<1> QED
  BY <1>1, StepsApart

LEMMA WantsInode ==
  ASSUME CallInv, NEW p \in Procs, Wants(p) # 0
  PROVE  Wants(p) \in Inodes
<1>1. todo[p] \in AnySteps /\ call[p] \in CallRecords
  BY DEF CallInv, CallTypes
<1>2. CASE todo[p] # << >>
  BY <1>1, <1>2, StepWants DEF Wants
<1>3. CASE todo[p] = << >>
  <2>1. call[p].cur \in Inodes \cup {0} /\ call[p].other \in Inodes \cup {0}
    BY <1>1 DEF CallRecords
  <2> QED
    BY <1>3, <2>1 DEF Wants
<1> QED
  BY <1>2, <1>3

(* A process that waits with a lock held waits for an inode further down,  *)
(* unless it puts the parent of what it holds, or what it holds itself.    *)
LEMMA WantsBelow ==
  ASSUME FSInv, NEW q \in Procs, NEW t \in Inodes, lock[t] = q, Wants(q) # 0,
         ~PutsParent(q), ~PutsDots(q)
  PROVE  \E n \in Names : entry[t][n] = Wants(q)
<1>1. /\ Keeps(call[q], todo[q], t) /\ NodesOf(call[q], todo[q])
      /\ Placed(call[q], todo[q]) /\ todo[q] \in AnySteps
  BY DEF FSInv, LocksKept, DiskInv, CallNodes, CallInv, CallsPlaced, CallTypes
<1>2. CASE call[q].at \in {"made", "dec"} /\ call[q].other = t
  <2>1. todo[q] = << >>
    BY <1>2 DEF PutsParent
  <2>2. Wants(q) = 0
    BY <1>2, <2>1 DEF Wants
  <2> QED
    BY <2>2
<1>3. CASE call[q].at = "child" /\ call[q].cur = t
  <2>1. todo[q] = << >> /\ call[q].name \in Names
    BY <1>1, <1>3 DEF Placed, NoSteps, Idle
  <2>2. Wants(q) = call[q].other
    BY <1>3, <2>1 DEF Wants
  <2> QED
    BY <1>1, <1>3, <2>1, <2>2 DEF NodesOf, NodesIn
<1>4. CASE Unlocks(todo[q], t)
  <2>1. todo[q] \in Release
    <3>1. todo[q] \notin AtMostOne
      BY <1>4, UnlocksAtMostOne
    <3>2. todo[q] \notin TwoPuts
      <4>1. SUFFICES ASSUME NEW j \in Inodes, NEW k \in Inodes,
                            todo[q] = <<Put(j), Put(k)>> \/ todo[q] = <<Drop(j), Put(k)>>
                     PROVE  FALSE
        BY DEF TwoPuts
      <4>2. ~Unlocks(<<Put(j), Put(k)>>, t) /\ ~Unlocks(<<Drop(j), Put(k)>>, t)
        BY UnlocksTwo
      <4> QED
        BY <1>4, <4>1, <4>2
    <3> QED
      BY <1>1, <3>1, <3>2 DEF AnySteps
  <2>2. PICK j \in Inodes, k \in Inodes :
          \/ todo[q] = <<Put(j), Unlock(k), Put(k)>> \/ todo[q] = <<Drop(j), Unlock(k), Put(k)>>
          \/ todo[q] = <<Unlock(k), Put(k)>>
    BY <2>1, Numbers DEF Release
  <2>3. CASE todo[q] = <<Put(j), Unlock(k), Put(k)>>
    <3>1. k = t
      <4>1. Unlocks(<<Put(j), Unlock(k), Put(k)>>, t) <=> k = t
        BY UnlocksThree
      <4> QED
        BY <1>4, <2>3, <4>1
    <3>2. todo[q] # << >> /\ Head(todo[q]) = Put(j)
      BY <2>3
    <3>3. Wants(q) = j
      BY <3>2, StepsApart DEF Wants
    <3>4. PutsFrom(entry, call[q], j, t)
      BY <1>1, <2>3, <3>1 DEF NodesOf, NodesIn
    <3>5. call[q].at = "undo" => j # t /\ j # entry[t][".."]
      BY <3>2 DEF PutsDots
    <3> QED
      BY <3>3, <3>4, <3>5 DEF PutsFrom
  <2>4. CASE todo[q] = <<Drop(j), Unlock(k), Put(k)>> \/ todo[q] = <<Unlock(k), Put(k)>>
    <3> DEFINE h == Head(todo[q])
    <3>1. todo[q] # << >> /\ (h = Drop(j) \/ h = Unlock(k))
      <4>1. CASE todo[q] = <<Drop(j), Unlock(k), Put(k)>>
        BY <4>1
      <4>2. CASE todo[q] = <<Unlock(k), Put(k)>>
        BY <4>2
      <4> QED
        BY <2>4, <4>1, <4>2
    <3> HIDE DEF h
    <3>2. h[1] # "put"
      BY <3>1, StepsApart
    <3>3. Wants(q) = 0
      BY <3>1, <3>2 DEF Wants, h
    <3> QED
      BY <3>3
  <2> QED
    BY <2>2, <2>3, <2>4
<1> QED
  BY <1>1, <1>2, <1>3, <1>4 DEF Keeps

(* The only deadlocks of the file system's locks: every circle of waiting  *)
(* processes goes through one that puts a directory in create() or         *)
(* unlink() with an inode of it locked, or in link() the "." or ".." of    *)
(* the directory it has locked.                                            *)
THEOREM OnlyUpwardPutsDeadlock == Spec => []CirclesPutUpwards
<1>1. ASSUME FSInv PROVE CirclesPutUpwards
  <2> SUFFICES ASSUME NEW S \in SUBSET Procs, Circular(S), \A p \in S : ~PutsParent(p) /\ ~PutsDots(p)
               PROVE  FALSE
    BY DEF CirclesPutUpwards
  <2> DEFINE T == {Wants(p) : p \in S}
  <2>1. S # {} /\ \A p \in S : Wants(p) # 0 /\ lock[Wants(p)] \in S
    BY DEF Circular
  <2>2. T \in SUBSET Inodes /\ T # {}
    <3>1. \A p \in S : Wants(p) \in Inodes
      BY <1>1, <2>1, WantsInode DEF FSInv
    <3> QED
      BY <2>1, <3>1
  <2> HIDE DEF T
  <2>3. PICK t \in T : \A j \in T, n \in Names : entry[t][n] # j
    BY <1>1, <2>2 DEF FSInv, DiskInv, Acyclic
  <2>4. PICK p \in S : t = Wants(p)
    BY <2>3 DEF T
  <2> DEFINE q == lock[t]
  <2>5. q \in S /\ q \in Procs /\ Wants(q) # 0 /\ ~PutsParent(q) /\ ~PutsDots(q) /\ Wants(q) \in T /\ t \in Inodes
    <3>1. q \in S /\ t \in Inodes
      BY <2>1, <2>2, <2>3, <2>4
    <3> HIDE DEF q
    <3>2. Wants(q) # 0 /\ ~PutsParent(q) /\ ~PutsDots(q) /\ Wants(q) \in T /\ q \in Procs
      BY <2>1, <3>1 DEF T
    <3> QED
      BY <3>1, <3>2
  <2>6. \E n \in Names : entry[t][n] = Wants(q)
    BY <1>1, <2>5, WantsBelow
  <2> QED
    BY <2>3, <2>5, <2>6
<1> QED
  BY <1>1, FileSystemInvariant, PTL
-----------------------------------------------------------------------------
(* The tree of names                                                       *)

(* An inode that a process is in, works on or has open is allocated, as    *)
(* long as no path goes up: ".." of a directory that has been unlinked may *)
(* name an inode that is free.                                             *)
UsedIn(k, w, c, tab) ==
  /\ \A p \in Procs, i \in Inodes :
       w[p] = i \/ c[p].cur = i \/ c[p].other = i => k[i].type # "free"
  /\ \A f \in Files, i \in Inodes : tab[f].ip = i => k[i].type # "free"

UsedAllocated == UsedIn(dinode, cwd, call, ftable)

NoneFreed == \A i \in Inodes : dinode[i].type # "free" => dinode'[i].type # "free"

LEMMA NamedAllocated ==
  ASSUME DiskInv
  PROVE  /\ dinode[ROOTINO].type # "free"
         /\ \A d \in Inodes, n \in Names : \A i \in Inodes : entry[d][n] = i => dinode[i].type # "free"
         /\ \A q \in Procs : \A i \in Inodes :
              Relinking(call[q]) /\ call[q].other = i => dinode[i].type # "free"
<1>1. \A i \in Inodes : dinode[i].type = "free" => dinode[i].nlink = 0
  BY DEF DiskInv, NodesSound
<1>2. dinode[ROOTINO].type # "free"
  BY <1>1, Numbers, NoLinks
<1>3. \A d \in Inodes, n \in Names : \A i \in Inodes : entry[d][n] = i => dinode[i].type # "free"
  BY <1>1, NoLinks
<1>4. \A q \in Procs : \A i \in Inodes :
        Relinking(call[q]) /\ call[q].other = i => dinode[i].type # "free"
  BY <1>1, NoLinks
<1> QED
  BY <1>2, <1>3, <1>4

(* A step that frees no inode, and goes on with allocated ones.            *)
UsedBy(p) ==
  /\ \A i \in Inodes : call'[p].cur = i \/ call'[p].other = i => dinode'[i].type # "free"
  /\ \A q \in Procs \ {p} : call'[q] = call[q]

LEMMA UsedStays ==
  ASSUME UsedAllocated, NoneFreed, NEW p \in Procs, UsedBy(p), UNCHANGED <<cwd, ftable>>
  PROVE  UsedAllocated'
BY DEF UsedAllocated, UsedIn, NoneFreed, UsedBy

LEMMA WentUsed ==
  ASSUME CallTypes, NEW p \in Procs, NEW c, NEW s, Goto(p, c, s),
         \A i \in Inodes : c.cur = i \/ c.other = i => dinode'[i].type # "free"
  PROVE  UsedBy(p)
BY WentOn DEF UsedBy

LEMMA SameFreed == UNCHANGED diskvars => NoneFreed
BY DEF diskvars, NoneFreed

LEMMA WalkUsed ==
  ASSUME CallInv, DiskInv, UsedAllocated, ".." \notin Elements, NEW p \in Procs, Walk(p)
  PROVE  UsedAllocated'
<1>1. UNCHANGED <<cwd, ftable>> /\ dinode' = dinode /\ NoneFreed
  BY WalkKeeps, SameFreed DEF diskvars, procvars
<1>2. /\ \A i \in Inodes : call[p].cur = i \/ call[p].other = i \/ cwd[p] = i => dinode[i].type # "free"
      /\ Idle.cur = 0 /\ Idle.other = 0 /\ 0 \notin Inodes /\ CallTypes
  BY Numbers DEF UsedAllocated, UsedIn, Idle, CallInv
<1>3. ASSUME NEW c, NEW s, Goto(p, c, s),
             \A i \in Inodes : c.cur = i \/ c.other = i => dinode[i].type # "free"
      PROVE  UsedAllocated'
  <2>1. UsedBy(p)
    BY <1>1, <1>2, <1>3, WentUsed
  <2> QED
    BY <1>1, <2>1, UsedStays
<1>4. \A a : At(p, a) /\ a = "walk" => call[p] \in CallRecords /\ call[p].cur \in Inodes
  BY AtPlace DEF CallInv
<1>5. ASSUME NEW j \in Starts(p), Begin(p, j) PROVE UsedAllocated'
  <2> DEFINE c == [Idle EXCEPT !.at = "walk", !.cur = j]
  <2>1. Goto(p, c, << >>)
    BY <1>5 DEF Begin
  <2>2. c.cur = j /\ c.other = 0
    BY DEF Idle
  <2> HIDE DEF c
  <2>3. \A i \in Inodes : c.cur = i \/ c.other = i => dinode[i].type # "free"
    BY <1>2, <2>2, NamedAllocated DEF Starts
  <2> QED
    BY <1>3, <2>1, <2>3
<1>6. ASSUME NEW n \in Elements, WalkOn(p, n) PROVE UsedAllocated'
  <2> DEFINE c == [call[p] EXCEPT !.cur = entry[call[p].cur][n]]
             s == <<Put(call[p].cur)>>
  <2>1. Goto(p, c, s) /\ At(p, "walk")
    BY <1>6 DEF WalkOn
  <2>2. c.cur = entry[call[p].cur][n] /\ c.other = call[p].other
    BY <1>4, <2>1 DEF CallRecords
  <2>3. n \in Names /\ call[p].cur \in Inodes
    BY <1>4, <2>1, FSAssumption DEF FSAssumption
  <2> HIDE DEF c, s
  <2>4. \A i \in Inodes : c.cur = i \/ c.other = i => dinode[i].type # "free"
    BY <1>2, <2>2, <2>3, NamedAllocated
  <2> QED
    BY <1>3, <2>1, <2>4
<1>7. ASSUME NEW n, WalkFail(p, n) PROVE UsedAllocated'
  <2> DEFINE c == Failed(call[p])
             s == <<Put(call[p].cur)>>
  <2>1. Goto(p, c, s)
    BY <1>7 DEF WalkFail
  <2>2. c.cur = 0 /\ c.other \in {0, call[p].other}
    BY DEF Failed, Idle
  <2> HIDE DEF c, s
  <2> QED
    BY <1>2, <1>3, <2>1, <2>2
<1>8. CASE WalkStop(p)
  <2> DEFINE c == [call[p] EXCEPT !.at = "parent"]
  <2>1. Goto(p, c, << >>) /\ At(p, "walk")
    BY <1>8 DEF WalkStop
  <2>2. c.cur = call[p].cur /\ c.other = call[p].other
    BY <1>4, <2>1 DEF CallRecords
  <2> HIDE DEF c
  <2> QED
    BY <1>2, <1>3, <2>1, <2>2
<1>9. CASE WrongKind(p)
  <2>1. Goto(p, Idle, <<Put(call[p].cur)>>)
    BY <1>9 DEF WrongKind
  <2> QED
    BY <1>2, <1>3, <2>1
<1> QED
  BY <1>5, <1>6, <1>7, <1>8, <1>9, Zenon DEF Walk

LEMMA OpenedUsed ==
  ASSUME CallInv, UsedAllocated, dinode' = dinode, NEW p \in Procs, NEW i \in Inodes,
         dinode[i].type # "free", Opened(p, i)
  PROVE  UsedAllocated'
<1>1. cwd' = cwd /\ \A f \in Files : ftable'[f].ip \in {ftable[f].ip, i}
  <2>1. CASE ofile[p] = 0 /\ FreeFiles # {}
    <3>1. cwd' = cwd /\ ftable' = [ftable EXCEPT ![Min(FreeFiles)] = [ref |-> 1, ip |-> i]]
      BY <2>1 DEF Opened
    <3> QED
      BY <3>1 DEF CallInv, RefTypes
  <2>2. CASE ~(ofile[p] = 0 /\ FreeFiles # {})
    BY <2>2 DEF Opened, procvars
  <2> QED
    BY <2>1, <2>2
<1>2. PICK s \in AtMostOne : Goto(p, Idle, s)
  BY OpenedGoes
<1>3. /\ call'[p] = Idle /\ \A q \in Procs \ {p} : call'[q] = call[q]
      /\ \A x \in Inodes : Idle.cur # x /\ Idle.other # x
  BY <1>2, WentOn, Numbers DEF CallInv, Idle
<1> QED
  BY <1>1, <1>3 DEF UsedAllocated, UsedIn

(* link() and unlink() only count.                                         *)
LEMMA TypesStay ==
  ASSUME DiskInv, NEW i \in Inodes, IUpdate(Linked(i), {i}) \/ IUpdate(Unlinked(i), {i})
  PROVE  \A x \in Inodes : dinode'[x].type = dinode[x].type
<1> DEFINE m == dinode[i].nlink + 1
           k == dinode[i].nlink - 1
<1>1. m \in Int /\ k \in Int
  BY DEF DiskInv, DiskTypes
<1>2. IUpdate([Load(i) EXCEPT ![i].nlink = m], {i}) \/ IUpdate([Load(i) EXCEPT ![i].nlink = k], {i})
  BY LinkedIs
<1> HIDE DEF m, k
<1>3. \A x \in Inodes \ {i} : dinode'[x] = dinode[x]
  BY <1>1, <1>2, UpdatedOne
<1>4. dinode'[i].type = dinode[i].type
  BY <1>1, <1>2, UpdatedOne
<1> QED
  BY <1>3, <1>4

LEMMA ActUsed ==
  ASSUME CallInv, DiskInv, LocksKept, LockedValid, UsedAllocated, ".." \notin Elements,
         NEW p \in Procs, Act(p)
  PROVE  UsedAllocated'
<1> DEFINE d == call[p].cur
           o == call[p].other
<1>1. /\ \A i \in Inodes : d = i \/ o = i \/ cwd[p] = i => dinode[i].type # "free"
      /\ \A i \in Inodes : Idle.cur # i /\ Idle.other # i
      /\ 0 \notin Inodes /\ CallTypes
  BY Numbers DEF UsedAllocated, UsedIn, Idle, CallInv
<1>2. /\ At(p, "walk") \/ At(p, "parent") \/ At(p, "child") => d \in Inodes
      /\ At(p, "made") \/ At(p, "old") \/ At(p, "dec") \/ At(p, "undo") \/ At(p, "child") => o \in Inodes
      /\ At(p, "child") => call[p].name \in Names
  BY AtPlace DEF CallInv
<1>3. ASSUME NEW c, NEW s, Goto(p, c, s), NoneFreed, UNCHANGED <<cwd, ftable>>,
             \A i \in Inodes : c.cur = i \/ c.other = i => dinode'[i].type # "free"
      PROVE  UsedAllocated'
  <2>1. UsedBy(p)
    BY <1>1, <1>3, WentUsed
  <2> QED
    BY <1>3, <2>1, UsedStays
<1>4. ASSUME NEW s, Goto(p, Idle, s), NoneFreed, UNCHANGED procvars PROVE UsedAllocated'
  BY <1>1, <1>3, <1>4 DEF procvars
<1>5. dinode' = dinode => NoneFreed
  BY DEF NoneFreed
<1>6. ASSUME NEW i \in Inodes, IUpdate(Linked(i), {i}) \/ IUpdate(Unlinked(i), {i})
      PROVE  NoneFreed
  BY <1>6, TypesStay DEF NoneFreed
<1>7. CASE Open(p)
  <2>1. At(p, "walk") /\ Opened(p, d) /\ dinode' = dinode
    BY <1>7 DEF Open, diskvars
  <2> QED
    BY <1>1, <1>2, <2>1, OpenedUsed
<1>8. CASE Chdir(p)
  <2>1. /\ At(p, "walk") /\ Goto(p, Idle, <<Put(cwd[p])>>) /\ dinode' = dinode
        /\ cwd' = [cwd EXCEPT ![p] = d] /\ ftable' = ftable
    BY <1>8 DEF Chdir, diskvars
  <2>2. /\ call'[p] = Idle /\ \A q \in Procs \ {p} : call'[q] = call[q]
        /\ \A q \in Procs : cwd'[q] = IF q = p THEN d ELSE cwd[q]
    BY <1>1, <2>1, WentOn DEF CallInv, RefTypes
  <2> QED
    BY <1>1, <2>1, <2>2 DEF UsedAllocated, UsedIn
<1>9. ASSUME NEW j \in Starts(p), LinkOld(p, j) PROVE UsedAllocated'
  <2> DEFINE c == [call[p] EXCEPT !.cur = j, !.other = d]
  <2>1. /\ At(p, "walk") /\ InFile(p) /\ IUpdate(Linked(d), {d}) /\ Goto(p, c, << >>)
        /\ UNCHANGED <<cwd, ftable>>
    BY <1>9 DEF LinkOld, procvars
  <2>2. NoneFreed
    BY <1>1, <1>2, <1>6, <2>1
  <2>3. c.cur = j /\ c.other = d
    BY DEF CallInv, CallTypes, CallRecords
  <2> HIDE DEF c, d
  <2>4. \A i \in Inodes : c.cur = i \/ c.other = i => dinode[i].type # "free"
    BY <1>1, <2>3, NamedAllocated DEF Starts
  <2> QED
    BY <1>3, <2>1, <2>2, <2>4 DEF NoneFreed
<1>10. ASSUME UnlinkNone(p) \/ \E n \in Names : LinkNew(p, n) PROVE UsedAllocated'
  <2>1. dinode' = dinode /\ UNCHANGED procvars /\ \E s : Goto(p, Idle, s)
    BY <1>10 DEF LinkNew, UnlinkNone, diskvars
  <2> QED
    BY <1>4, <1>5, <2>1
<1>11. ASSUME NEW n, LinkClash(p, n) PROVE UsedAllocated'
  <2> DEFINE c == Failed(call[p])
             s == <<Put(Lookup(d, n)), Unlock(d), Put(d)>>
  <2>1. dinode' = dinode /\ UNCHANGED <<cwd, ftable>> /\ Goto(p, c, s)
    BY <1>11 DEF LinkClash, diskvars, procvars
  <2>2. c.cur = 0 /\ c.other \in {0, o}
    BY DEF Failed, Idle
  <2> HIDE DEF c, s, d, o
  <2> QED
    BY <1>1, <1>3, <1>5, <2>1, <2>2
<1>12. ASSUME NEW n \in Names, UnlinkFind(p, n) PROVE UsedAllocated'
  <2> DEFINE c == [call[p] EXCEPT !.at = "child", !.name = n, !.other = entry[d][n]]
  <2>1. At(p, "parent") /\ dinode' = dinode /\ UNCHANGED <<cwd, ftable>> /\ Goto(p, c, << >>)
    BY <1>12 DEF UnlinkFind, diskvars, procvars
  <2>2. c.cur = d /\ c.other = entry[d][n] /\ d \in Inodes
    BY <1>2, <2>1 DEF CallInv, CallTypes, CallRecords
  <2> HIDE DEF c, d
  <2>3. \A i \in Inodes : c.cur = i \/ c.other = i => dinode[i].type # "free"
    BY <1>1, <2>2, NamedAllocated
  <2> QED
    BY <1>3, <1>5, <2>1, <2>3
<1>13. ASSUME NEW n \in Names \cup {"."}, CreateOld(p, n) PROVE UsedAllocated'
  <2> DEFINE c == [Idle EXCEPT !.at = "old", !.other = Lookup(d, n)]
             s == <<Put(d)>>
  <2>1. At(p, "parent") /\ dinode' = dinode /\ UNCHANGED <<cwd, ftable>> /\ Goto(p, c, s)
    BY <1>13 DEF CreateOld, diskvars, procvars
  <2>2. c.cur = 0 /\ d \in Inodes /\ (c.other = d \/ \E m \in Names : c.other = entry[d][m])
    BY <1>2, <2>1 DEF Idle, Lookup
  <2> HIDE DEF c, d, s
  <2>3. \A i \in Inodes : c.cur = i \/ c.other = i => dinode[i].type # "free"
    BY <1>1, <2>2, NamedAllocated
  <2> QED
    BY <1>3, <1>5, <2>1, <2>3
<1>14. ASSUME NEW n \in Names, NEW k \in Kinds, CreateNew(p, k, n) PROVE UsedAllocated'
  <2> DEFINE i == Min(FreeInodes)
             c == [Idle EXCEPT !.at = "made", !.kind = k, !.other = i]
             s == <<Put(d)>>
  <2>1. At(p, "parent") /\ UNCHANGED <<cwd, ftable>> /\ Goto(p, c, s)
    BY <1>14 DEF CreateNew, procvars
  <2>2. d \in Inodes /\ dinode[d].type = "dir"
    <3>1. NodesOf(call[p], todo[p])
      BY DEF DiskInv, CallNodes
    <3> QED
      BY <1>2, <2>1, <3>1 DEF NodesOf, NodesIn, At
  <2>3. /\ dinode'[i].type = k /\ dinode'[d].type = "dir"
        /\ \A x \in Inodes \ {i, d} : dinode'[x] = dinode[x]
    <3>1. /\ dinode'[i] = Node(k, 1)
          /\ dinode'[d] = Node("dir", dinode[d].nlink + (IF k = "dir" THEN 1 ELSE 0))
          /\ \A x \in Inodes \ {i, d} : dinode'[x] = dinode[x]
      BY <1>14, <2>2, CreateNodes
    <3>2. \A t, m : Node(t, m).type = t
      BY DEF Node
    <3> QED
      BY <3>1, <3>2
  <2>4. k # "free" /\ c.cur = 0 /\ c.other = i
    BY FSAssumption DEF FSAssumption, Idle
  <2> HIDE DEF c, d, s, i
  <2>5. NoneFreed
    BY <2>3, <2>4 DEF NoneFreed
  <2>6. \A x \in Inodes : c.cur = x \/ c.other = x => dinode'[x].type # "free"
    BY <1>1, <2>3, <2>4
  <2> QED
    BY <1>3, <2>1, <2>5, <2>6
<1>15. CASE Created(p)
  <2>1. /\ At(p, "made") /\ dinode' = dinode
        /\ Opened(p, o) \/ (Goto(p, Idle, <<Put(o)>>) /\ UNCHANGED procvars)
    BY <1>15 DEF Created, diskvars
  <2>2. CASE Opened(p, o)
    BY <1>1, <1>2, <2>1, <2>2, OpenedUsed
  <2>3. CASE Goto(p, Idle, <<Put(o)>>) /\ UNCHANGED procvars
    BY <1>4, <1>5, <2>1, <2>3
  <2> QED
    BY <2>1, <2>2, <2>3
<1>16. CASE CreateTake(p)
  <2>1. /\ At(p, "old") /\ dinode' = dinode
        /\ Opened(p, o) \/ (Goto(p, Idle, <<Put(o)>>) /\ UNCHANGED procvars)
    BY <1>16 DEF CreateTake, diskvars
  <2>2. CASE Opened(p, o)
    BY <1>1, <1>2, <2>1, <2>2, OpenedUsed
  <2>3. CASE Goto(p, Idle, <<Put(o)>>) /\ UNCHANGED procvars
    BY <1>4, <1>5, <2>1, <2>3
  <2> QED
    BY <2>1, <2>2, <2>3
<1>17. CASE LinkUndo(p) \/ UnlinkDec(p)
  <2>1. /\ At(p, "undo") \/ At(p, "dec")
        /\ IUpdate(Unlinked(o), {o}) /\ Goto(p, Idle, <<Put(o)>>) /\ UNCHANGED procvars
    BY <1>17 DEF LinkUndo, UnlinkDec
  <2>2. NoneFreed
    BY <1>1, <1>2, <1>6, <2>1
  <2> QED
    BY <1>4, <2>1, <2>2
<1>18. CASE UnlinkBusy(p)
  <2>1. dinode' = dinode /\ UNCHANGED procvars /\ \E s : Goto(p, Idle, s)
    BY <1>18 DEF UnlinkBusy, diskvars
  <2> QED
    BY <1>4, <1>5, <2>1
<1>19. CASE UnlinkEntry(p)
  <2> DEFINE c == [Idle EXCEPT !.at = "dec", !.other = o]
             s == <<Put(d)>>
  <2>1. UNCHANGED <<cwd, ftable>> /\ Goto(p, c, s)
    BY <1>19 DEF UnlinkEntry, procvars
  <2>2. UnlinkKnows(p)
    BY <1>19, UnlinkEntryKnows
  <2>3. dinode'[d].type = "dir" /\ \A x \in Inodes \ {d} : dinode'[x] = dinode[x]
    <3>1. /\ dinode'[d] = Node("dir", dinode[d].nlink - (IF dinode[o].type = "dir" THEN 1 ELSE 0))
          /\ \A x \in Inodes \ {d} : dinode'[x] = dinode[x]
      BY <1>19, <2>2, UnlinkNodes
    <3>2. \A t, m : Node(t, m).type = t
      BY DEF Node
    <3> QED
      BY <3>1, <3>2
  <2>4. c.cur = 0 /\ c.other = o
    BY DEF Idle
  <2> HIDE DEF c, d, s, o
  <2>5. NoneFreed
    BY <2>3 DEF NoneFreed
  <2>6. \A x \in Inodes : c.cur = x \/ c.other = x => dinode'[x].type # "free"
    BY <1>1, <2>4, <2>5 DEF NoneFreed
  <2> QED
    BY <1>3, <2>1, <2>5, <2>6
<1>20. Names \cup Elements \cup {"."} = Names \cup {"."}
  BY FSAssumption DEF FSAssumption
<1> QED
  BY <1>7, <1>8, <1>9, <1>10, <1>11, <1>12, <1>13, <1>14, <1>15, <1>16, <1>17, <1>18, <1>19, <1>20, Zenon DEF Act

LEMMA NextUsed ==
  ASSUME FSInv, UsedAllocated, ".." \notin Elements, Next
  PROVE  UsedAllocated'
<1>1. CallInv /\ DiskInv /\ LocksKept /\ LockedValid /\ FileInv /\ CallTypes /\ RefTypes
  BY DEF FSInv, CallInv
<1>2. ASSUME dinode' = dinode, call' = call, UNCHANGED procvars PROVE UsedAllocated'
  BY <1>2 DEF UsedAllocated, UsedIn, procvars
<1>3. ASSUME NEW p \in Procs, Walk(p) PROVE UsedAllocated'
  BY <1>1, <1>3, WalkUsed
<1>4. ASSUME NEW p \in Procs, Act(p) PROVE UsedAllocated'
  BY <1>1, <1>4, ActUsed
<1>5. ASSUME NEW p \in Procs, NEW i \in Inodes, DoPut(p, i) PROVE UsedAllocated'
  <2>1. UNCHANGED procvars /\ call' = call
    BY <1>5 DEF DoPut
  <2>2. CASE LastRef(i)
    <3>1. todo[p] # << >> /\ Head(todo[p]) = Put(i) /\ ref[i] = 1
      BY <1>1, <1>5, <2>2, LastRefIs
    <3>2. /\ \A q \in Procs : cwd[q] # i /\ call[q].cur # i /\ call[q].other # i
          /\ \A f \in Files : ftable[f].ip # i
      BY <1>1, <3>1, OnlyHolder
    <3>3. \A x \in Inodes \ {i} : dinode'[x] = dinode[x]
      BY <1>1, <1>5, <2>2 DEF DoPut, DiskInv, DiskTypes
    <3> QED
      BY <2>1, <3>2, <3>3 DEF UsedAllocated, UsedIn, procvars
  <2>3. CASE ~LastRef(i)
    BY <1>2, <1>5, <2>1, <2>3 DEF DoPut, diskvars
  <2> QED
    BY <2>2, <2>3
<1>6. ASSUME NEW p \in Procs, NEW i \in Inodes, DoDrop(p, i) \/ DoUnlock(p, i) PROVE UsedAllocated'
  BY <1>2, <1>6 DEF DoDrop, DoUnlock, diskvars
<1>7. \A x \in Inodes : Idle.cur # x /\ Idle.other # x /\ x # 0
  BY Numbers DEF Idle
<1>8. ASSUME NEW p \in Procs, Close(p) PROVE UsedAllocated'
  <2>1. dinode' = dinode /\ cwd' = cwd
    BY <1>8 DEF Close, diskvars
  <2>2. (\E s : Goto(p, Idle, s)) \/ call' = call
    BY <1>8 DEF Close
  <2>3. \A q \in Procs : call'[q] \in {call[q], Idle}
    BY <1>1, <2>2, WentOn
  <2>4. \A f \in Files : ftable'[f].ip \in {ftable[f].ip, 0}
    BY <1>1, <1>8 DEF Close, RefTypes, NoFile
  <2> QED
    BY <1>7, <2>1, <2>3, <2>4 DEF UsedAllocated, UsedIn
<1>9. ASSUME NEW p \in Procs, Exit(p) PROVE UsedAllocated'
  <2>1. dinode' = dinode /\ ftable' = ftable /\ Goto(p, Idle, <<Put(cwd[p])>>) /\ cwd' = [cwd EXCEPT ![p] = 0]
    BY <1>9 DEF Exit, diskvars
  <2>2. \A q \in Procs : call'[q] \in {call[q], Idle} /\ cwd'[q] \in {cwd[q], 0}
    BY <1>1, <2>1, WentOn DEF RefTypes
  <2> QED
    BY <1>7, <2>1, <2>2 DEF UsedAllocated, UsedIn
<1>10. ASSUME NEW p \in Procs, NEW q \in Procs, Fork(p, q) PROVE UsedAllocated'
  <2>1. dinode' = dinode /\ call' = call /\ cwd' = [cwd EXCEPT ![q] = cwd[p]]
    BY <1>10 DEF Fork, diskvars
  <2>2. \A f \in Files : ftable'[f].ip = ftable[f].ip
    BY <1>1, <1>10 DEF Fork, RefTypes
  <2>3. \A r \in Procs : cwd'[r] \in {cwd[r], cwd[p]}
    BY <1>1, <2>1 DEF RefTypes
  <2> QED
    BY <2>1, <2>2, <2>3 DEF UsedAllocated, UsedIn
<1>11. CASE Crash
  <2>1. dinode' = dinode /\ call' = call /\ cwd' = AtRoot /\ ftable' = NoneOpen
    BY <1>11 DEF Crash, diskvars
  <2>2. dinode[ROOTINO].type # "free"
    BY <1>1, NamedAllocated
  <2>3. \A f \in Files, i \in Inodes : NoneOpen[f].ip # i
    BY <1>7 DEF NoneOpen, NoFile
  <2>4. \A q \in Procs : AtRoot[q] = ROOTINO
    BY DEF AtRoot
  <2> QED
    BY <2>1, <2>2, <2>3, <2>4 DEF UsedAllocated, UsedIn
<1> QED
  BY <1>3, <1>4, <1>5, <1>6, <1>8, <1>9, <1>10, <1>11, Zenon DEF Next, Finish

LEMMA InitUsed ==
  ASSUME Init
  PROVE  UsedAllocated
<1>1. /\ dinode = [i \in Inodes |-> IF i = ROOTINO THEN Node("dir", 1) ELSE Free]
      /\ cwd = AtRoot /\ ftable = NoneOpen /\ call = [p \in Procs |-> Idle]
  BY DEF Init
<1>2. \A x \in Inodes : Idle.cur # x /\ Idle.other # x /\ x # 0
  BY Numbers DEF Idle
<1>3. dinode[ROOTINO].type # "free"
  BY <1>1, Numbers DEF Node
<1>4. \A f \in Files, i \in Inodes : NoneOpen[f].ip # i
  BY <1>2 DEF NoneOpen, NoFile
<1>5. \A q \in Procs : AtRoot[q] = ROOTINO /\ call[q] = Idle
  BY <1>1 DEF AtRoot
<1> QED
  BY <1>1, <1>2, <1>3, <1>4, <1>5 DEF UsedAllocated, UsedIn

(* used of NameSpace, and its names and kinds, for given states.           *)
Using(w, c, tab) ==
  ({w[p] : p \in Procs} \cup {tab[f].ip : f \in Files} \cup
     UNION {{c[p].cur, c[p].other} : p \in Procs}) \ {0}

KindsOf(k) == [i \in Inodes |-> k[i].type]
NamesOf(e) == [i \in Inodes |-> [n \in Names |-> e[i][n]]]

SameTree ==
  \A i \in Inodes : dinode'[i].type = dinode[i].type /\ \A n \in Names : entry'[i][n] = entry[i][n]

LEMMA UsingKnown ==
  ASSUME NEW k, NEW w \in [Procs -> Inodes \cup {0}], NEW c \in [Procs -> CallRecords],
         NEW tab \in [Files -> [ref : Int, ip : Inodes \cup {0}]], UsedIn(k, w, c, tab)
  PROVE  Using(w, c, tab) \subseteq {i \in Inodes : KindsOf(k)[i] # "free"}
<1> SUFFICES ASSUME NEW i \in Using(w, c, tab) PROVE i \in Inodes /\ k[i].type # "free"
  BY DEF KindsOf
<1>1. CASE \E p \in Procs : i = w[p] \/ i = c[p].cur \/ i = c[p].other
  <2>1. PICK p \in Procs : i = w[p] \/ i = c[p].cur \/ i = c[p].other
    BY <1>1
  <2>2. i # 0 /\ c[p].cur \in Inodes \cup {0} /\ c[p].other \in Inodes \cup {0}
    BY DEF Using, CallRecords
  <2> QED
    BY <2>1, <2>2 DEF UsedIn
<1>2. CASE \E f \in Files : i = tab[f].ip
  <2>1. i # 0
    BY DEF Using
  <2> QED
    BY <1>2, <2>1 DEF UsedIn
<1> QED
  BY <1>1, <1>2, Zenon DEF Using

(* The steps of NameSpace, of the inodes and the entries.                  *)
LEMMA TreeSame ==
  ASSUME SameTree
  PROVE  UNCHANGED <<KindsOf(dinode), NamesOf(entry)>>
BY DEF SameTree, KindsOf, NamesOf

LEMMA TreeUnused ==
  ASSUME FSInv, NEW i \in Inodes,
         \A q \in Procs : cwd[q] # i /\ call[q].cur # i /\ call[q].other # i,
         \A f \in Files : ftable[f].ip # i
  PROVE  i \notin Using(cwd, call, ftable)
BY Zenon DEF Using

LEMMA TreeUsed ==
  ASSUME FSInv', UsedAllocated'
  PROVE  Using(cwd', call', ftable') \subseteq {i \in Inodes : KindsOf(dinode')[i] # "free"}
<1>1. UsedIn(dinode', cwd', call', ftable')
  BY DEF UsedAllocated
<1>2. /\ cwd' \in [Procs -> Inodes \cup {0}] /\ call' \in [Procs -> CallRecords]
      /\ ftable' \in [Files -> [ref : Int, ip : Inodes \cup {0}]]
  BY DEF FSInv, CallInv, CallTypes, RefTypes
<1> QED
  BY <1>1, <1>2, UsingKnown

(* NameSpace's next step, with its variables written out.                  *)
LEMMA TreeNext ==
  ASSUME Using(cwd', call', ftable') \subseteq {i \in Inodes : KindsOf(dinode')[i] # "free"},
         \/ UNCHANGED <<KindsOf(dinode), NamesOf(entry)>>
         \/ \E i \in Inodes : Tree!Reclaim(i)
         \/ \E d \in Inodes, n \in Names : Tree!Unlink(d, n)
         \/ \E d \in Inodes, n \in Names, i \in Inodes : Tree!Link(d, n, i)
         \/ \E d \in Inodes, n \in Names, i \in Inodes, k \in {"dir", "file", "dev"} :
              Tree!Create(d, n, i, k)
  PROVE  Tree!NSNext
BY Zenon DEF Using, KindsOf, NamesOf, Tree!NSNext, Tree!Allocated

KindSet(k, l, i, t) ==
  i \in Inodes /\ l[i].type = t /\ \A x \in Inodes \ {i} : l[x].type = k[x].type

NameSet(e, f, d, n, i) ==
  /\ d \in Inodes /\ n \in Names
  /\ \A x \in Inodes, m \in Names : f[x][m] = IF x = d /\ m = n THEN i ELSE e[x][m]

LEMMA KindIsSet ==
  ASSUME NEW k, NEW l, NEW i, NEW t, KindSet(k, l, i, t)
  PROVE  KindsOf(l) = [KindsOf(k) EXCEPT ![i] = t]
BY DEF KindsOf, KindSet

LEMMA NameIsSet ==
  ASSUME NEW e, NEW f, NEW d, NEW n, NEW i, NameSet(e, f, d, n, i)
  PROVE  NamesOf(f) = [NamesOf(e) EXCEPT ![d][n] = i]
<1> DEFINE a == NamesOf(e)
           b == NamesOf(f)
           c == [a[d] EXCEPT ![n] = i]
<1>1. /\ a = [x \in Inodes |-> a[x]] /\ b = [x \in Inodes |-> b[x]]
      /\ \A x \in Inodes : a[x] = [m \in Names |-> e[x][m]]
      /\ \A x \in Inodes : b[x] = [m \in Names |-> f[x][m]]
  BY DEF NamesOf
<1> HIDE DEF a, b
<1>2. ASSUME NEW x \in Inodes \ {d} PROVE b[x] = a[x]
  BY <1>1 DEF NameSet
<1>3. b[d] = c
  <2>1. /\ n \in Names /\ a[d] = [m \in Names |-> e[d][m]] /\ b[d] = [m \in Names |-> f[d][m]]
        /\ \A m \in Names : f[d][m] = IF m = n THEN i ELSE e[d][m]
    BY <1>1 DEF NameSet
  <2>2. [m \in Names |-> f[d][m]] = [[m \in Names |-> e[d][m]] EXCEPT ![n] = i]
    BY <2>1
  <2> QED
    BY <2>1, <2>2
<1> HIDE DEF c
<1>4. b = [a EXCEPT ![d] = c]
  BY <1>1, <1>2, <1>3
<1> QED
  BY <1>4 DEF a, b, c

LEMMA CreateNewTree ==
  ASSUME FSInv, NEW p \in Procs, NEW k \in Kinds, NEW n \in Names, CreateNew(p, k, n)
  PROVE  \E d \in Inodes, i \in Inodes : Tree!Create(d, n, i, k)
<1>1. At(p, "parent") /\ entry[call[p].cur][n] = 0
  BY DEF CreateNew
<1>2. PICK d \in Inodes : d = call[p].cur /\ dinode[d].type = "dir"
  <2>1. call[p].at = "parent" /\ call[p].cur \in Inodes
    BY <1>1, AtPlace DEF FSInv, CallInv
  <2>2. NodesOf(call[p], todo[p])
    BY DEF FSInv, DiskInv, CallNodes
  <2> QED
    BY <2>1, <2>2 DEF NodesOf, NodesIn
<1>3. PICK i \in Inodes :
        /\ dinode[i].type = "free" /\ dinode'[i] = Node(k, 1)
        /\ dinode'[d] = Node("dir", dinode[d].nlink + (IF k = "dir" THEN 1 ELSE 0))
        /\ \A x \in Inodes \ {i, d} : dinode'[x] = dinode[x]
        /\ \A x \in Inodes, m \in Names : entry'[x][m] = IF x = d /\ m = n THEN i ELSE entry[x][m]
  BY <1>2, CreateNodes DEF FSInv
<1>4. KindsOf(dinode') = [KindsOf(dinode) EXCEPT ![i] = k]
  <2>1. \A t, m : Node(t, m).type = t
    BY DEF Node
  <2>2. KindSet(dinode, dinode', i, k)
    BY <1>2, <1>3, <2>1 DEF KindSet
  <2> QED
    BY <2>2, KindIsSet
<1>5. NamesOf(entry') = [NamesOf(entry) EXCEPT ![d][n] = i]
  <2>1. NameSet(entry, entry', d, n, i)
    BY <1>3 DEF NameSet
  <2> QED
    BY <2>1, NameIsSet
<1>6. /\ KindsOf(dinode)[d] = "dir" /\ KindsOf(dinode)[i] = "free"
      /\ NamesOf(entry)[d][n] = 0
  BY <1>1, <1>2, <1>3 DEF KindsOf, NamesOf
<1>7. Tree!Create(d, n, i, k)
  BY <1>4, <1>5, <1>6, Zenon DEF KindsOf, NamesOf, Tree!Create
<1> QED
  BY <1>7

LEMMA LinkNewTree ==
  ASSUME FSInv, NEW p \in Procs, NEW n \in Names, LinkNew(p, n)
  PROVE  \E d \in Inodes, i \in Inodes : Tree!Link(d, n, i)
<1>1. /\ At(p, "parent") /\ call[p].other # 0 /\ entry[call[p].cur][n] = 0
      /\ entry' = [entry EXCEPT ![call[p].cur][n] = call[p].other] /\ dinode' = dinode
  BY DEF LinkNew
<1>2. call[p].at = "parent" /\ call[p].cur \in Inodes /\ call[p].other \in Inodes
  <2>1. call[p] \in CallRecords /\ call[p].at = "parent" /\ call[p].cur \in Inodes
    BY <1>1, AtPlace DEF FSInv, CallInv
  <2> QED
    BY <1>1, <2>1 DEF CallRecords
<1>3. PICK d \in Inodes, i \in Inodes :
        d = call[p].cur /\ i = call[p].other /\ dinode[d].type = "dir" /\ dinode[i].type \notin {"free", "dir"}
  <2>1. NodesOf(call[p], todo[p]) /\ Relinking(call[p])
    BY <1>2 DEF FSInv, DiskInv, CallNodes, Relinking
  <2>2. dinode[call[p].other].type # "free"
    BY <1>2, <2>1, NamedAllocated DEF FSInv
  <2> QED
    BY <1>1, <1>2, <2>1, <2>2 DEF NodesOf, NodesIn
<1>4. NamesOf(entry') = [NamesOf(entry) EXCEPT ![d][n] = i]
  <2>1. NameSet(entry, entry', d, n, i)
    BY <1>1, <1>3 DEF NameSet, FSInv, DiskInv, DiskTypes
  <2> QED
    BY <2>1, NameIsSet
<1>5. /\ KindsOf(dinode') = KindsOf(dinode) /\ KindsOf(dinode)[d] = "dir"
      /\ KindsOf(dinode)[i] \notin {"free", "dir"} /\ NamesOf(entry)[d][n] = 0
  BY <1>1, <1>3 DEF KindsOf, NamesOf
<1>6. Tree!Link(d, n, i)
  BY <1>4, <1>5, Zenon DEF KindsOf, NamesOf, Tree!Link
<1> QED
  BY <1>6

LEMMA UnlinkEntryTree ==
  ASSUME FSInv, NEW p \in Procs, UnlinkEntry(p)
  PROVE  \E d \in Inodes, n \in Names : Tree!Unlink(d, n)
<1>1. UnlinkKnows(p)
  BY UnlinkEntryKnows DEF FSInv
<1>2. PICK d \in Inodes, n \in Names, i \in Inodes :
        /\ d = call[p].cur /\ n = call[p].name /\ i = call[p].other
        /\ dinode[d].type = "dir" /\ entry[d][n] = i /\ \A m \in Names : entry[i][m] = 0
  BY <1>1 DEF UnlinkKnows
<1>3. /\ dinode'[d] = Node("dir", dinode[d].nlink - (IF dinode[i].type = "dir" THEN 1 ELSE 0))
      /\ \A x \in Inodes \ {d} : dinode'[x] = dinode[x]
      /\ \A x \in Inodes, m \in Names : entry'[x][m] = IF x = d /\ m = n THEN 0 ELSE entry[x][m]
  BY <1>1, <1>2, UnlinkNodes DEF FSInv
<1>4. KindsOf(dinode') = KindsOf(dinode)
  <2>1. \A t, m : Node(t, m).type = t
    BY DEF Node
  <2> QED
    BY <1>2, <1>3, <2>1 DEF KindsOf
<1>5. NamesOf(entry') = [NamesOf(entry) EXCEPT ![d][n] = 0]
  <2>1. NameSet(entry, entry', d, n, 0)
    BY <1>3 DEF NameSet
  <2> QED
    BY <2>1, NameIsSet
<1>6. NamesOf(entry)[d][n] = i /\ i # 0 /\ NamesOf(entry)[i] = [m \in Names |-> 0]
  BY <1>2, Numbers DEF NamesOf
<1>7. NamesOf(entry)[d][n] # 0 /\ NamesOf(entry)[NamesOf(entry)[d][n]] = [m \in Names |-> 0]
  BY <1>6
<1>8. Tree!Unlink(d, n)
  BY <1>4, <1>5, <1>7, Zenon DEF KindsOf, NamesOf, Tree!Unlink, Tree!NoNames
<1> QED
  BY <1>8

LEMMA DoPutTree ==
  ASSUME FSInv, NEW p \in Procs, NEW i \in Inodes, DoPut(p, i)
  PROVE  SameTree \/ Tree!Reclaim(i)
<1>1. CASE ~LastRef(i)
  BY <1>1 DEF DoPut, diskvars, SameTree
<1>2. CASE LastRef(i)
  <2>1. /\ dinode' = [dinode EXCEPT ![i] = Free] /\ entry' = [entry EXCEPT ![i] = NoEntries]
    BY <1>2 DEF DoPut
  <2>2. /\ todo[p] # << >> /\ Head(todo[p]) = Put(i) /\ ref[i] = 1
        /\ dinode[i].nlink = 0 /\ dinode[i].type # "free"
    BY <1>2, LastRefIs DEF FSInv
  <2>3. i # ROOTINO /\ \A d \in Inodes, n \in Names : entry[d][n] # i
    BY <2>2, NoLinks DEF FSInv
  <2>4. i \notin Using(cwd, call, ftable)
    <3>1. /\ \A q \in Procs : cwd[q] # i /\ call[q].cur # i /\ call[q].other # i
          /\ \A f \in Files : ftable[f].ip # i
      BY <2>2, OnlyHolder DEF FSInv
    <3> QED
      BY <3>1, TreeUnused
  <2>5. /\ KindsOf(dinode') = [KindsOf(dinode) EXCEPT ![i] = "free"]
        /\ NamesOf(entry') = [NamesOf(entry) EXCEPT ![i] = [m \in Names |-> 0]]
    BY <2>1 DEF KindsOf, NamesOf, Free, Node, NoEntries, FSInv, DiskInv, DiskTypes
  <2>6. /\ KindsOf(dinode)[i] # "free"
        /\ ~\E d \in Inodes, n \in Names : NamesOf(entry)[d][n] = i
    BY <2>2, <2>3 DEF KindsOf, NamesOf
  <2> QED
    BY <2>3, <2>4, <2>5, <2>6
       DEF KindsOf, NamesOf, Using, Tree!Reclaim, Tree!Allocated, Tree!Named, Tree!NoNames
<1> QED
  BY <1>1, <1>2

TreeStep ==
  \/ SameTree
  \/ \E i \in Inodes : Tree!Reclaim(i)
  \/ \E d \in Inodes, n \in Names : Tree!Unlink(d, n)
  \/ \E d \in Inodes, n \in Names, i \in Inodes : Tree!Link(d, n, i)
  \/ \E d \in Inodes, n \in Names, i \in Inodes, k \in {"dir", "file", "dev"} :
       Tree!Create(d, n, i, k)

LEMMA StayedTree ==
  ASSUME UNCHANGED diskvars
  PROVE  TreeStep
BY DEF diskvars, SameTree, TreeStep

LEMMA ActTree ==
  ASSUME FSInv, NEW p \in Procs, Act(p)
  PROVE  TreeStep
<1>1. ASSUME NEW n \in Names, NEW k \in Kinds, CreateNew(p, k, n) PROVE TreeStep
  <2>1. k \in {"dir", "file", "dev"}
    BY FSAssumption DEF FSAssumption
  <2>2. \E d \in Inodes, i \in Inodes : Tree!Create(d, n, i, k)
    BY <1>1, CreateNewTree
  <2> QED
    BY <2>1, <2>2 DEF TreeStep
<1>2. ASSUME NEW n \in Names, LinkNew(p, n) PROVE TreeStep
  BY <1>2, LinkNewTree DEF TreeStep
<1>3. CASE UnlinkEntry(p)
  BY <1>3, UnlinkEntryTree DEF TreeStep
<1>4. ASSUME NEW i \in Inodes, IUpdate(Linked(i), {i}) \/ IUpdate(Unlinked(i), {i}), entry' = entry
      PROVE  TreeStep
  <2>1. \A x \in Inodes : dinode'[x].type = dinode[x].type
    BY <1>4, TypesStay DEF FSInv
  <2> QED
    BY <1>4, <2>1 DEF SameTree, TreeStep
<1>5. /\ At(p, "walk") => call[p].cur \in Inodes
      /\ At(p, "undo") \/ At(p, "dec") => call[p].other \in Inodes
  BY AtPlace DEF FSInv, CallInv
<1>6. ASSUME NEW i, LinkOld(p, i) PROVE TreeStep
  BY <1>4, <1>5, <1>6 DEF LinkOld
<1>7. CASE LinkUndo(p)
  BY <1>4, <1>5, <1>7 DEF LinkUndo
<1>8. CASE UnlinkDec(p)
  BY <1>4, <1>5, <1>8 DEF UnlinkDec
<1>9. CASE Open(p) \/ Chdir(p)
  BY <1>9, StayedTree DEF Open, Chdir
<1>10. CASE Created(p) \/ CreateTake(p)
  BY <1>10, StayedTree DEF Created, CreateTake
<1>11. CASE UnlinkBusy(p)
  BY <1>11, StayedTree DEF UnlinkBusy
<1>12. ASSUME NEW n, LinkClash(p, n) \/ UnlinkFind(p, n) PROVE TreeStep
  BY <1>12, StayedTree DEF LinkClash, UnlinkFind
<1>13. ASSUME UnlinkNone(p) \/ \E n : CreateOld(p, n) PROVE TreeStep
  BY <1>13, StayedTree DEF UnlinkNone, CreateOld
<1> QED
  BY <1>1, <1>2, <1>3, <1>6, <1>7, <1>8, <1>9, <1>10, <1>11, <1>12, <1>13, Zenon DEF Act

LEMMA NextTree ==
  ASSUME FSInv, Next
  PROVE  TreeStep
<1>1. ASSUME NEW p \in Procs, Walk(p) PROVE TreeStep
  BY <1>1, WalkKeeps, StayedTree
<1>2. ASSUME NEW p \in Procs, Act(p) PROVE TreeStep
  BY <1>2, ActTree
<1>3. ASSUME NEW p \in Procs, NEW i \in Inodes, DoPut(p, i) PROVE TreeStep
  BY <1>3, DoPutTree DEF TreeStep
<1>4. ASSUME NEW p, NEW i, DoDrop(p, i) \/ DoUnlock(p, i) PROVE TreeStep
  BY <1>4, StayedTree DEF DoDrop, DoUnlock
<1>5. ASSUME NEW p, Close(p) \/ Exit(p) PROVE TreeStep
  BY <1>5, StayedTree DEF Close, Exit
<1>6. ASSUME NEW p, NEW q, Fork(p, q) PROVE TreeStep
  BY <1>6, StayedTree DEF Fork
<1>7. CASE Crash
  BY <1>7, StayedTree DEF Crash
<1> QED
  BY <1>1, <1>2, <1>3, <1>4, <1>5, <1>6, <1>7, Zenon DEF Next, Finish

(* The calls change names only as NameSpace does, and iput() frees no      *)
(* inode that has a name or that a process has open, is in or works on: if *)
(* no path goes up.  The name and the ".." of a directory that a process   *)
(* has removed under another are the exception that MCFileSystem leaves    *)
(* out as well.                                                            *)
THEOREM TreeKept ==
  ASSUME ".." \notin Elements
  PROVE  Spec => TreeSpec
<1> DEFINE I == FSInv /\ UsedAllocated
<1>1. Init => Tree!NSInit
  <2> SUFFICES ASSUME Init PROVE Tree!NSInit
    OBVIOUS
  <2>1. KindsOf(dinode) = [i \in Inodes |-> IF i = ROOTINO THEN "dir" ELSE "free"]
    BY DEF Init, KindsOf, Free, Node
  <2>2. NamesOf(entry) = [i \in Inodes |-> [n \in Names |-> 0]]
    BY FSAssumption DEF FSAssumption, Init, NamesOf, NoEntries
  <2>3. Using(cwd, call, ftable) = {ROOTINO}
    <3>1. \A q \in Procs : cwd[q] = ROOTINO /\ call[q].cur = 0 /\ call[q].other = 0
      BY DEF Init, AtRoot, Idle
    <3>2. \A f \in Files : ftable[f].ip = 0
      BY DEF Init, NoneOpen, NoFile
    <3>3. ROOTINO # 0
      BY Numbers
    <3>4. \E q \in Procs : cwd[q] = ROOTINO
      BY <3>1, FSAssumption DEF FSAssumption
    <3>5. ROOTINO \in Using(cwd, call, ftable)
      BY <3>3, <3>4, Zenon DEF Using
    <3>6. ASSUME NEW i \in Using(cwd, call, ftable) PROVE i = ROOTINO
      <4>1. /\ i # 0
            /\ \/ \E q \in Procs : i = cwd[q] \/ i = call[q].cur \/ i = call[q].other
               \/ \E f \in Files : i = ftable[f].ip
        BY Zenon DEF Using
      <4> QED
        BY <3>1, <3>2, <4>1
    <3> QED
      BY <3>5, <3>6
  <2> QED
    BY <2>1, <2>2, <2>3, Zenon DEF KindsOf, NamesOf, Using, Tree!NSInit, Tree!NoNames
<1>2. Init => I
  BY InitInv, InitUsed
<1>3. I /\ [Next]_vars => I'
  <2>1. I /\ Next => I'
    BY NextInv, NextUsed
  <2>2. I /\ UNCHANGED vars => I'
    BY StutterInv DEF vars, diskvars, procvars, UsedAllocated, UsedIn
  <2> QED
    BY <2>1, <2>2
<1>4. I /\ I' /\ [Next]_vars => [Tree!NSNext]_(Tree!nsvars)
  <2>1. ASSUME I, I', Next PROVE Tree!NSNext
    <3>1. Using(cwd', call', ftable') \subseteq {i \in Inodes : KindsOf(dinode')[i] # "free"}
      BY <2>1, TreeUsed
    <3>2. TreeStep
      BY <2>1, NextTree
    <3>3. SameTree => UNCHANGED <<KindsOf(dinode), NamesOf(entry)>>
      BY TreeSame
    <3> QED
      BY <3>1, <3>2, <3>3, TreeNext DEF TreeStep
  <2>2. UNCHANGED vars => UNCHANGED Tree!nsvars
    BY DEF vars, diskvars, procvars, Tree!nsvars
  <2> QED
    BY <2>1, <2>2
<1> QED
  BY <1>1, <1>2, <1>3, <1>4, PTL DEF Spec, TreeSpec, Tree!NSSpec
=============================================================================
