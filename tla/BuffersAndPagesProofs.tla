----------------------- MODULE BuffersAndPagesProofs -----------------------
(***************************************************************************)
(* Proofs about BufCache and about Memory, which have no name in common.   *)
(*                                                                         *)
(* The buffer cache keeps its promises for every number of processes,      *)
(* buffers and blocks.  Who has the sleep lock of a buffer, what waits in  *)
(* the queue of the disk, and how the contents of buffers and disk relate  *)
(* hold together only as one invariant.                                    *)
(*                                                                         *)
(* Whatever the number of processes, pages and page tables, a page of      *)
(* memory is free or has one owner, and an address space has the pages     *)
(* that its size says, also where a call has run out of memory half way    *)
(* and while other calls take and give back pages.  What a call has built  *)
(* or taken down so far is told by where it is (Progress).  From this      *)
(* follows that each place a page is written to was empty, and each place  *)
(* given up had one: so no page is lost and none is doubled.               *)
(***************************************************************************)
EXTENDS BufCache, Memory, SequenceTheorems, WellFoundedInduction, FiniteSetTheorems, TLAPS

(***************************************************************************)
(* The buffer cache.                                                       *)
(***************************************************************************)
CacheTypeOK ==
  /\ blockno \in [Bufs -> Blocks \cup {Null}] /\ refcnt \in [Bufs -> Nat]
  /\ valid \in [Bufs -> BOOLEAN] /\ dirty \in [Bufs -> BOOLEAN]
  /\ data \in [Bufs -> Values] /\ disk \in [Blocks -> Values]
  /\ locker \in [Bufs -> Procs \cup {Null}]
  /\ idequeue \in Seq(Bufs)
  /\ pc \in [Procs -> {"idle", "lock", "locksleep", "read", "use", "iosleep", "io", "unref"}]
  /\ asked \in [Procs -> Blocks \cup {Null}] /\ buf \in [Procs -> Bufs \cup {Null}]
  /\ killed \in [Procs -> BOOLEAN]

(* A process that is not idle has a buffer for the block it asked for, and *)
(* an idle one has none.                                                   *)
Asked ==
  \A p \in Procs : IF pc[p] = "idle" THEN buf[p] = Null
                   ELSE buf[p] \in Bufs /\ asked[p] \in Blocks

(* The processes that have buffer x, each with a reference. *)
Users(x) == {p \in Procs : pc[p] # "idle" /\ buf[p] = x}

Counted == \A x \in Bufs : refcnt[x] = Cardinality(Users(x))

(* The lock of a buffer is held by who is between acquiresleep() and       *)
(* releasesleep().                                                         *)
Locked(p, x) == pc[p] \in {"read", "use", "iosleep", "io"} /\ buf[p] = x

Locks ==
  \A x \in Bufs :
    /\ \A p \in Procs : Locked(p, x) => locker[x] = p
    /\ locker[x] # Null => locker[x] \in Procs /\ Locked(locker[x], x)

(* What the flags of a buffer say of its contents. *)
Flags ==
  /\ \A x \in Bufs :
       /\ dirty[x] => valid[x]
       /\ valid[x] => blockno[x] \in Blocks
       /\ valid[x] /\ ~dirty[x] => data[x] = disk[blockno[x]]
  /\ \A p \in Procs : pc[p] = "use" => valid[buf[p]]

Queued(x) == \E i \in DOMAIN idequeue : idequeue[i] = x

(* Somebody waits in iderw() until the drive is done with buffer x. *)
Wanted(x) == ~Done(x) /\ \E p \in Procs : pc[p] \in {"iosleep", "io"} /\ buf[p] = x

(* The queue has the buffers that somebody sleeps for, each once, and the  *)
(* drive works on the first of them.                                       *)
Queue ==
  /\ \A i, j \in DOMAIN idequeue : idequeue[i] = idequeue[j] => i = j
  /\ \A x \in Bufs : Queued(x) <=> Wanted(x)
  /\ \A p \in Procs : pc[p] = "iosleep" => ~Done(buf[p])
  /\ idequeue = << >> => drive = Null
  /\ idequeue # << >> =>
       drive = [buf   |-> Head(idequeue),
                write |-> IF dirty[Head(idequeue)] THEN data[Head(idequeue)] ELSE Null]

(* The buffers that stay dirty though nobody writes them. *)
Unsaved == {x \in Bufs : dirty[x] /\ ~Queued(x)}

Pins == Cardinality(Unsaved) <= MaxPinned

CacheInductive ==
  /\ CacheTypeOK /\ Asked /\ Counted /\ Locks /\ Flags /\ Queue /\ Pins
  /\ BufferKept /\ LockWaitersSeen

-----------------------------------------------------------------------------
(* A buffer without a reference has no users. *)
LEMMA NoUsers ==
  ASSUME Counted, NEW x \in Bufs
  PROVE  /\ IsFiniteSet(Users(x))
         /\ refcnt[x] = 0 <=> \A p \in Procs : pc[p] # "idle" => buf[p] # x
<1>1. IsFiniteSet(Users(x))
  <2>1. Users(x) \subseteq Procs
    BY DEF Users
  <2> QED
    BY <2>1, FS_Subset, BufAssumption
<1>2. refcnt[x] = 0 <=> Users(x) = {}
  BY <1>1, FS_EmptySet DEF Counted
<1>3. Users(x) = {} <=> \A p \in Procs : pc[p] # "idle" => buf[p] # x
  BY DEF Users
<1> QED
  BY <1>1, <1>2, <1>3

(* The buffer at the head of the queue, which the drive works on. *)
LEMMA HeadServed ==
  ASSUME CacheTypeOK, Asked, Queue, BufferKept, drive # Null
  PROVE  LET x == Head(idequeue) IN
         /\ idequeue # << >> /\ x \in Bufs /\ blockno[x] \in Blocks
         /\ Tail(idequeue) \in Seq(Bufs) /\ Queued(x) /\ ~Done(x)
         /\ \E q \in Procs : pc[q] \in {"iosleep", "io"} /\ buf[q] = x
         /\ drive.buf = x /\ drive.write = IF dirty[x] THEN data[x] ELSE Null
         /\ drive.write \in Values \cup {Null}
<1> DEFINE x == Head(idequeue)
<1> USE DEF CacheTypeOK
<1>1. idequeue # << >>
  BY DEF Queue
<1>2. x \in Bufs /\ Tail(idequeue) \in Seq(Bufs) /\ Queued(x)
  <2>1. x \in Bufs /\ Tail(idequeue) \in Seq(Bufs) /\ x = idequeue[1]
    BY <1>1, HeadTailProperties
  <2>2. 1 \in DOMAIN idequeue
    BY <1>1, LenProperties, EmptySeq
  <2> QED
    BY <2>1, <2>2 DEF Queued
<1>3. ~Done(x) /\ \E q \in Procs : pc[q] \in {"iosleep", "io"} /\ buf[q] = x
  BY <1>2 DEF Queue, Wanted
<1>4. blockno[x] \in Blocks
  BY <1>3 DEF BufferKept, Asked
<1>5. drive.buf = x /\ drive.write = IF dirty[x] THEN data[x] ELSE Null
  BY <1>1 DEF Queue
<1>6. drive.write \in Values \cup {Null}
  BY <1>2, <1>5
<1> QED
  BY <1>1, <1>2, <1>3, <1>4, <1>5, <1>6

LEMMA InitCache == Init => CacheInductive
<1> SUFFICES ASSUME Init PROVE CacheInductive
  OBVIOUS
<1> USE BufAssumption DEF Init
<1>1. CacheTypeOK
  <2>1. Stale \in Values
    BY DEF Stale
  <2>2. /\ blockno \in [Bufs -> Blocks \cup {Null}] /\ refcnt \in [Bufs -> Nat]
        /\ valid \in [Bufs -> BOOLEAN] /\ dirty \in [Bufs -> BOOLEAN]
    OBVIOUS
  <2>3. data \in [Bufs -> Values] /\ locker \in [Bufs -> Procs \cup {Null}]
    BY <2>1
  <2>4. /\ pc \in [Procs -> {"idle", "lock", "locksleep", "read", "use", "iosleep", "io", "unref"}]
        /\ asked \in [Procs -> Blocks \cup {Null}] /\ buf \in [Procs -> Bufs \cup {Null}]
        /\ killed \in [Procs -> BOOLEAN]
    OBVIOUS
  <2> QED
    BY <2>2, <2>3, <2>4 DEF CacheTypeOK
<1>2. Counted
  <2> SUFFICES ASSUME NEW x \in Bufs PROVE refcnt[x] = Cardinality(Users(x))
    BY DEF Counted
  <2>1. Users(x) = {}
    BY DEF Users
  <2> QED
    BY <2>1, FS_EmptySet
<1>3. Asked /\ Locks /\ Flags /\ Queue /\ BufferKept /\ LockWaitersSeen
  BY DEF Asked, Locks, Locked, Flags, Queue, Queued, Wanted, BufferKept, LockWaitersSeen
<1>4. Pins
  <2>1. Unsaved = {}
    BY DEF Unsaved
  <2> QED
    BY <2>1, FS_EmptySet DEF Pins
<1> QED
  BY <1>1, <1>2, <1>3, <1>4 DEF CacheInductive

-----------------------------------------------------------------------------
(* Every step keeps buffers, queue and processes well formed. *)
LEMMA TypeStep ==
  ASSUME CacheTypeOK, Asked, Counted, Queue, BufferKept, [Next]_vars
  PROVE  CacheTypeOK' /\ Asked'
<1> USE BufAssumption DEF CacheTypeOK, Asked, bufvars, idevars, procvars
<1>1. ASSUME NEW p \in Procs, NEW b \in Blocks, GetCached(p, b)
      PROVE  CacheTypeOK' /\ Asked'
  BY <1>1 DEF GetCached, Found, Cached
<1>2. ASSUME NEW p \in Procs, NEW b \in Blocks, GetFresh(p, b)
      PROVE  CacheTypeOK' /\ Asked'
  <2>1. Stale \in Values
    BY DEF Stale
  <2> QED
    BY <1>2, <2>1 DEF GetFresh, Recycle, Recyclable, Found
<1>3. ASSUME NEW p \in Procs, Lock(p) \/ LockSleep(p) \/ ReadHit(p) \/ IoReturn(p) \/ IoSleepAgain(p)
      PROVE  CacheTypeOK' /\ Asked'
  <2>1. CASE Lock(p)         BY <2>1 DEF Lock
  <2>2. CASE LockSleep(p)    BY <2>2 DEF LockSleep
  <2>3. CASE ReadHit(p)      BY <2>3 DEF ReadHit
  <2>4. CASE IoReturn(p)     BY <2>4 DEF IoReturn
  <2>5. CASE IoSleepAgain(p) BY <2>5 DEF IoSleepAgain
  <2> QED
    BY <1>3, <2>1, <2>2, <2>3, <2>4, <2>5
<1>4. ASSUME NEW p \in Procs, ReadMiss(p)
      PROVE  CacheTypeOK' /\ Asked'
  <2>1. Append(idequeue, buf[p]) \in Seq(Bufs)
    BY <1>4, AppendProperties DEF ReadMiss
  <2> QED
    BY <1>4, <2>1 DEF ReadMiss, IdeRw
<1>5. ASSUME NEW p \in Procs, NEW v \in Values, Write(p, v)
      PROVE  CacheTypeOK' /\ Asked'
  <2>1. Append(idequeue, buf[p]) \in Seq(Bufs)
    BY <1>5, AppendProperties DEF Write
  <2> QED
    BY <1>5, <2>1 DEF Write, IdeRw
<1>6. ASSUME NEW p \in Procs, NEW v \in Values, Pin(p, v)
      PROVE  CacheTypeOK' /\ Asked'
  BY <1>6 DEF Pin
<1>7. ASSUME NEW p \in Procs, Unlock(p)
      PROVE  CacheTypeOK' /\ Asked'
  BY <1>7 DEF Unlock
<1>8. ASSUME NEW p \in Procs, Unref(p)
      PROVE  CacheTypeOK' /\ Asked'
  <2>1. buf[p] \in Bufs /\ refcnt[buf[p]] # 0
    BY <1>8, NoUsers DEF Unref
  <2>2. refcnt[buf[p]] - 1 \in Nat
    BY <2>1
  <2> QED
    BY <1>8, <2>1, <2>2 DEF Unref
<1>9. ASSUME IdeIntr
      PROVE  CacheTypeOK' /\ Asked'
  <2> DEFINE x == Head(idequeue)
  <2>1. /\ x \in Bufs /\ blockno[x] \in Blocks /\ Tail(idequeue) \in Seq(Bufs)
        /\ drive.buf = x /\ drive.write \in Values \cup {Null}
    BY <1>9, HeadServed DEF IdeIntr, Finish
  <2> HIDE DEF x
  <2>2. disk' \in [Blocks -> Values] /\ data' \in [Bufs -> Values]
    BY <1>9, <2>1 DEF IdeIntr, Finish, x
  <2>3. /\ valid' \in [Bufs -> BOOLEAN] /\ dirty' \in [Bufs -> BOOLEAN]
        /\ idequeue' \in Seq(Bufs) /\ UNCHANGED <<blockno, refcnt, locker, asked, buf, killed>>
    BY <1>9, <2>1 DEF IdeIntr, Finish, x
  <2>4. /\ pc' \in [Procs -> {"idle", "lock", "locksleep", "read", "use", "iosleep", "io", "unref"}]
        /\ \A p \in Procs : pc'[p] = "idle" <=> pc[p] = "idle"
    BY <1>9 DEF IdeIntr, Finish
  <2> QED
    BY <2>2, <2>3, <2>4
<1>10. ASSUME NEW p \in Procs, Kill(p)
       PROVE  CacheTypeOK' /\ Asked'
  BY <1>10 DEF Kill
<1>11. CASE UNCHANGED vars
  BY <1>11 DEF vars
<1> QED
  BY <1>1, <1>2, <1>3, <1>4, <1>5, <1>6, <1>7, <1>8, <1>9, <1>10, <1>11 DEF Next, CallStep

(* A step changes only who uses one buffer, and its reference count. *)
LEMMA CountStep ==
  ASSUME CacheTypeOK, Asked, Counted, CacheTypeOK', [Next]_vars
  PROVE  Counted'
<1> USE DEF CacheTypeOK, Asked
<1> SUFFICES ASSUME NEW x \in Bufs PROVE refcnt'[x] = Cardinality(Users(x)')
  BY DEF Counted
<1>1. /\ IsFiniteSet(Users(x)) /\ refcnt[x] = Cardinality(Users(x))
      /\ refcnt[x] = 0 <=> \A p \in Procs : pc[p] # "idle" => buf[p] # x
  BY NoUsers DEF Counted
<1>2. ASSUME refcnt' = refcnt, buf' = buf, \A q \in Procs : pc'[q] = "idle" <=> pc[q] = "idle"
      PROVE  refcnt'[x] = Cardinality(Users(x)')
  <2>1. Users(x)' = Users(x)
    BY <1>2 DEF Users
  <2> QED
    BY <1>1, <1>2, <2>1
<1>3. ASSUME NEW p \in Procs, NEW b \in Blocks, GetCached(p, b)
      PROVE  refcnt'[x] = Cardinality(Users(x)')
  <2>1. pc[p] = "idle" /\ p \notin Users(x)
    BY <1>3 DEF GetCached, Users
  <2>2. buf' = [buf EXCEPT ![p] = buf'[p]] /\ pc' = [pc EXCEPT ![p] = "lock"]
        /\ refcnt' = [refcnt EXCEPT ![buf'[p]] = @ + 1]
    BY <1>3 DEF GetCached, Found, Cached
  <2>3. CASE buf'[p] = x
    <3>1. Users(x)' = Users(x) \cup {p}
      BY <2>1, <2>2, <2>3 DEF Users
    <3> QED
      <4>1. Cardinality(Users(x) \cup {p}) = Cardinality(Users(x)) + 1
        BY <1>1, <2>1, FS_AddElement, ZenonT(60)
      <4>2. refcnt'[x] = refcnt[x] + 1
        BY <2>2, <2>3
      <4> QED
        BY <1>1, <3>1, <4>1, <4>2
  <2>4. CASE buf'[p] # x
    <3>1. Users(x)' = Users(x)
      BY <2>1, <2>2, <2>4 DEF Users
    <3> QED
      BY <1>1, <2>2, <2>4, <3>1
  <2> QED
    BY <2>3, <2>4
<1>4. ASSUME NEW p \in Procs, NEW b \in Blocks, GetFresh(p, b)
      PROVE  refcnt'[x] = Cardinality(Users(x)')
  <2>1. /\ pc[p] = "idle" /\ buf'[p] \in Bufs /\ refcnt[buf'[p]] = 0
        /\ buf' = [buf EXCEPT ![p] = buf'[p]] /\ pc' = [pc EXCEPT ![p] = "lock"]
        /\ refcnt' = [refcnt EXCEPT ![buf'[p]] = 1]
    BY <1>4 DEF GetFresh, Recycle, Recyclable, Found
  <2>2. CASE buf'[p] = x
    <3>1. Users(x)' = {p}
      BY <1>1, <2>1, <2>2 DEF Users
    <3> QED
      BY <2>1, <2>2, <3>1, FS_Singleton
  <2>3. CASE buf'[p] # x
    <3>1. Users(x)' = Users(x)
      BY <2>1, <2>3 DEF Users
    <3> QED
      BY <1>1, <2>1, <2>3, <3>1
  <2> QED
    BY <2>2, <2>3
<1>5. ASSUME NEW p \in Procs, Unref(p)
      PROVE  refcnt'[x] = Cardinality(Users(x)')
  <2>1. /\ pc[p] = "unref" /\ buf[p] \in Bufs
        /\ buf' = [buf EXCEPT ![p] = Null] /\ pc' = [pc EXCEPT ![p] = "idle"]
        /\ refcnt' = [refcnt EXCEPT ![buf[p]] = @ - 1]
    BY <1>5 DEF Unref
  <2>2. CASE buf[p] = x
    <3>1. p \in Users(x) /\ Users(x)' = Users(x) \ {p}
      BY <2>1, <2>2 DEF Users
    <3> QED
      <4>1. Cardinality(Users(x) \ {p}) = Cardinality(Users(x)) - 1
        BY <1>1, <3>1, FS_RemoveElement, ZenonT(60)
      <4>2. refcnt'[x] = refcnt[x] - 1
        BY <2>1, <2>2
      <4> QED
        BY <1>1, <3>1, <4>1, <4>2
  <2>3. CASE buf[p] # x
    <3>1. Users(x)' = Users(x)
      BY <2>1, <2>3 DEF Users
    <3> QED
      BY <1>1, <2>1, <2>3, <3>1
  <2> QED
    BY <2>2, <2>3
<1>6. ASSUME NEW p \in Procs, \/ Lock(p) \/ LockSleep(p) \/ ReadHit(p) \/ ReadMiss(p)
                              \/ IoReturn(p) \/ IoSleepAgain(p) \/ Unlock(p) \/ Kill(p)
                              \/ \E v \in Values : Write(p, v) \/ Pin(p, v)
      PROVE  refcnt'[x] = Cardinality(Users(x)')
  <2>1. refcnt' = refcnt /\ buf' = buf
    BY <1>6 DEF Lock, LockSleep, ReadHit, ReadMiss, IdeRw, IoReturn, IoSleepAgain, Unlock, Kill,
                Write, Pin, bufvars, procvars
  <2>2. \A q \in Procs : pc'[q] = "idle" <=> pc[q] = "idle"
    BY <1>6 DEF Lock, LockSleep, ReadHit, ReadMiss, IdeRw, IoReturn, IoSleepAgain, Unlock, Kill,
                Write, Pin, procvars
  <2> QED
    BY <1>2, <2>1, <2>2
<1>7. CASE IdeIntr \/ UNCHANGED vars
  <2>1. refcnt' = refcnt /\ buf' = buf
    BY <1>7 DEF IdeIntr, Finish, vars, bufvars, procvars
  <2>2. \A q \in Procs : pc'[q] = "idle" <=> pc[q] = "idle"
    BY <1>7 DEF IdeIntr, Finish, vars, procvars
  <2> QED
    BY <1>2, <2>1, <2>2
<1> QED
  BY <1>3, <1>4, <1>5, <1>6, <1>7 DEF Next, CallStep

(* A block has one buffer, which stays its buffer while somebody uses it. *)
LEMMA KeptStep ==
  ASSUME CacheTypeOK, Asked, Counted, BufferKept, [Next]_vars
  PROVE  BufferKept'
<1> USE BufAssumption DEF CacheTypeOK, Asked
<1>1. ASSUME NEW p \in Procs, NEW b \in Blocks, GetCached(p, b)
      PROVE  BufferKept'
  BY <1>1 DEF GetCached, Found, Cached, BufferKept
<1>2. ASSUME NEW p \in Procs, NEW b \in Blocks, GetFresh(p, b)
      PROVE  BufferKept'
  <2>1. PICK x \in Bufs : /\ refcnt[x] = 0 /\ blockno' = [blockno EXCEPT ![x] = b]
                          /\ Found(p, b, x)
    BY <1>2 DEF GetFresh, Recycle, Recyclable
  <2>2. \A q \in Procs : pc[q] # "idle" => buf[q] # x
    BY <2>1, NoUsers
  <2>3. \A y \in Bufs : blockno[y] # b
    BY <1>2 DEF GetFresh, Cached
  <2>4. \A y, z \in Bufs : blockno'[y] = blockno'[z] /\ blockno'[y] # Null => y = z
    BY <2>1, <2>3 DEF BufferKept
  <2>5. \A q \in Procs : pc'[q] # "idle" => blockno'[buf'[q]] = asked'[q]
    BY <2>1, <2>2 DEF BufferKept, Found
  <2> QED
    BY <2>4, <2>5 DEF BufferKept
<1>3. ASSUME NEW p \in Procs, \/ Lock(p) \/ LockSleep(p) \/ ReadHit(p) \/ ReadMiss(p)
                              \/ IoReturn(p) \/ IoSleepAgain(p) \/ Unlock(p) \/ Kill(p)
                              \/ \E v \in Values : Write(p, v) \/ Pin(p, v)
      PROVE  BufferKept'
  <2>1. blockno' = blockno /\ buf' = buf /\ asked' = asked
    BY <1>3 DEF Lock, LockSleep, ReadHit, ReadMiss, IdeRw, IoReturn, IoSleepAgain, Unlock, Kill,
                Write, Pin, bufvars, procvars
  <2>2. \A q \in Procs : pc'[q] = "idle" <=> pc[q] = "idle"
    BY <1>3 DEF Lock, LockSleep, ReadHit, ReadMiss, IdeRw, IoReturn, IoSleepAgain, Unlock, Kill,
                Write, Pin, procvars
  <2> QED
    BY <2>1, <2>2 DEF BufferKept
<1>4. ASSUME NEW p \in Procs, Unref(p)
      PROVE  BufferKept'
  BY <1>4 DEF Unref, BufferKept
<1>5. CASE IdeIntr \/ UNCHANGED vars
  <2>1. blockno' = blockno /\ buf' = buf /\ asked' = asked
    BY <1>5 DEF IdeIntr, Finish, vars, bufvars, procvars
  <2>2. \A q \in Procs : pc'[q] = "idle" <=> pc[q] = "idle"
    BY <1>5 DEF IdeIntr, Finish, vars, procvars
  <2> QED
    BY <2>1, <2>2 DEF BufferKept
<1> QED
  BY <1>1, <1>2, <1>3, <1>4, <1>5 DEF Next, CallStep

(* Every step leaves the locks of the buffers with who works on them, and  *)
(* no sleeper behind a free lock.                                          *)
LEMMA LockStep ==
  ASSUME CacheTypeOK, Asked, Locks, LockWaitersSeen, [Next]_vars
  PROVE  Locks' /\ LockWaitersSeen'
<1> USE BufAssumption DEF CacheTypeOK, Asked
<1>1. ASSUME locker' = locker,
             \A q \in Procs : /\ \A x \in Bufs : Locked(q, x)' <=> Locked(q, x)
                              /\ pc'[q] = "locksleep" => locker[buf'[q]] # Null
      PROVE  Locks' /\ LockWaitersSeen'
  BY <1>1 DEF Locks, LockWaitersSeen
<1>2. ASSUME NEW p \in Procs, NEW b \in Blocks, GetCached(p, b) \/ GetFresh(p, b)
      PROVE  Locks' /\ LockWaitersSeen'
  <2>1. /\ pc[p] = "idle" /\ pc' = [pc EXCEPT ![p] = "lock"] /\ locker' = locker
        /\ buf' = [buf EXCEPT ![p] = buf'[p]]
    BY <1>2 DEF GetCached, GetFresh, Recycle, Found
  <2> QED
    BY <1>1, <2>1 DEF Locked, LockWaitersSeen
<1>3. ASSUME NEW p \in Procs, Lock(p)
      PROVE  Locks' /\ LockWaitersSeen'
  <2>1. /\ pc[p] = "lock" /\ locker[buf[p]] = Null /\ buf[p] \in Bufs /\ buf' = buf
        /\ locker' = [locker EXCEPT ![buf[p]] = p] /\ pc' = [pc EXCEPT ![p] = "read"]
    BY <1>3 DEF Lock
  <2>2. \A q \in Procs, x \in Bufs :
          Locked(q, x)' <=> Locked(q, x) \/ (q = p /\ x = buf[p])
    BY <2>1 DEF Locked
  <2>3. Locks'
    BY <2>1, <2>2 DEF Locks
  <2>4. LockWaitersSeen'
    BY <2>1 DEF LockWaitersSeen
  <2> QED
    BY <2>3, <2>4
<1>4. ASSUME NEW p \in Procs, \/ LockSleep(p) \/ ReadHit(p) \/ ReadMiss(p)
                              \/ IoReturn(p) \/ IoSleepAgain(p) \/ Kill(p)
                              \/ \E v \in Values : Write(p, v) \/ Pin(p, v)
      PROVE  Locks' /\ LockWaitersSeen'
  <2>1. locker' = locker /\ buf' = buf
    BY <1>4 DEF LockSleep, ReadHit, ReadMiss, IdeRw, IoReturn, IoSleepAgain, Kill, Write, Pin,
                procvars
  <2>2. /\ \A q \in Procs : pc'[q] \in {"read", "use", "iosleep", "io"}
                              <=> pc[q] \in {"read", "use", "iosleep", "io"}
        /\ \A q \in Procs : pc'[q] = "locksleep" => locker[buf[q]] # Null
    BY <1>4 DEF LockSleep, ReadHit, ReadMiss, IdeRw, IoReturn, IoSleepAgain, Kill, Write, Pin,
                procvars, LockWaitersSeen
  <2> QED
    BY <1>1, <2>1, <2>2 DEF Locked
<1>5. ASSUME NEW p \in Procs, Unlock(p)
      PROVE  Locks' /\ LockWaitersSeen'
  <2>1. /\ pc[p] = "use" /\ buf[p] \in Bufs /\ buf' = buf
        /\ locker' = [locker EXCEPT ![buf[p]] = Null]
        /\ pc' = [q \in Procs |->
                    IF q = p THEN "unref"
                    ELSE IF pc[q] = "locksleep" /\ buf[q] = buf[p] THEN "lock" ELSE pc[q]]
    BY <1>5 DEF Unlock
  <2>2. locker[buf[p]] = p
    BY <2>1 DEF Locks, Locked
  <2>3. \A q \in Procs, x \in Bufs : Locked(q, x)' <=> Locked(q, x) /\ q # p
    BY <2>1 DEF Locked
  <2>4. Locks'
    BY <2>1, <2>2, <2>3 DEF Locks, Locked
  <2>5. LockWaitersSeen'
    BY <2>1 DEF LockWaitersSeen
  <2> QED
    BY <2>4, <2>5
<1>6. ASSUME NEW p \in Procs, Unref(p)
      PROVE  Locks' /\ LockWaitersSeen'
  <2>1. /\ pc[p] = "unref" /\ pc' = [pc EXCEPT ![p] = "idle"] /\ locker' = locker
        /\ buf' = [buf EXCEPT ![p] = Null]
    BY <1>6 DEF Unref
  <2> QED
    BY <1>1, <2>1 DEF Locked, LockWaitersSeen
<1>7. CASE IdeIntr \/ UNCHANGED vars
  <2>1. locker' = locker /\ buf' = buf
    BY <1>7 DEF IdeIntr, Finish, vars, procvars
  <2>2. /\ \A q \in Procs : pc'[q] \in {"read", "use", "iosleep", "io"}
                              <=> pc[q] \in {"read", "use", "iosleep", "io"}
        /\ \A q \in Procs : pc'[q] = "locksleep" => locker[buf[q]] # Null
    BY <1>7 DEF IdeIntr, Finish, vars, procvars, LockWaitersSeen
  <2> QED
    BY <1>1, <2>1, <2>2 DEF Locked
<1> QED
  BY <1>2, <1>3, <1>4, <1>5, <1>6, <1>7 DEF Next, CallStep

(* Every step leaves what a valid buffer holds the same as the disk, or    *)
(* the buffer dirty.                                                       *)
LEMMA FlagStep ==
  ASSUME CacheInductive, CacheTypeOK', BufferKept', [Next]_vars
  PROVE  Flags'
<1> USE BufAssumption DEF CacheInductive, CacheTypeOK
<1>1. ASSUME NEW p \in Procs, NEW b \in Blocks, GetCached(p, b)
      PROVE  Flags'
  BY <1>1 DEF GetCached, Found, Flags, Asked, idevars
<1>2. ASSUME NEW p \in Procs, NEW b \in Blocks, GetFresh(p, b)
      PROVE  Flags'
  <2>1. PICK x \in Bufs :
          /\ refcnt[x] = 0 /\ Found(p, b, x) /\ disk' = disk
          /\ blockno' = [blockno EXCEPT ![x] = b] /\ valid' = [valid EXCEPT ![x] = FALSE]
          /\ dirty' = [dirty EXCEPT ![x] = FALSE] /\ data' = [data EXCEPT ![x] = Stale]
    BY <1>2 DEF GetFresh, Recycle, Recyclable, idevars
  <2>2. \A q \in Procs : pc[q] # "idle" => buf[q] # x
    BY <2>1, NoUsers
  <2>3. \A q \in Procs : pc'[q] = "use" => pc[q] = "use" /\ buf'[q] = buf[q] /\ buf[q] # x
    BY <2>1, <2>2 DEF Found
  <2> QED
    BY <2>1, <2>3 DEF Flags, Asked
<1>3. ASSUME NEW p \in Procs, \/ Lock(p) \/ LockSleep(p) \/ ReadHit(p) \/ ReadMiss(p)
                              \/ IoReturn(p) \/ IoSleepAgain(p) \/ Unlock(p) \/ Unref(p) \/ Kill(p)
      PROVE  Flags'
  <2>1. UNCHANGED <<blockno, valid, dirty, data, disk>>
    BY <1>3 DEF Lock, LockSleep, ReadHit, ReadMiss, IdeRw, IoReturn, IoSleepAgain, Unlock, Unref,
                Kill, bufvars, idevars
  <2>2. \A q \in Procs : pc'[q] = "use" => buf'[q] = buf[q] /\ valid[buf[q]]
    BY <1>3 DEF Lock, LockSleep, ReadHit, ReadMiss, IdeRw, IoReturn, IoSleepAgain, Unlock, Unref,
                Kill, Flags, Done
  <2> QED
    BY <2>1, <2>2 DEF Flags
<1>4. ASSUME NEW p \in Procs, NEW v \in Values, Write(p, v) \/ Pin(p, v)
      PROVE  Flags'
  <2>1. /\ pc[p] = "use" /\ UNCHANGED <<blockno, valid, disk, buf>>
        /\ data' = [data EXCEPT ![buf[p]] = v] /\ dirty' = [dirty EXCEPT ![buf[p]] = TRUE]
        /\ \A q \in Procs : pc'[q] = "use" => pc[q] = "use"
    BY <1>4 DEF Write, Pin, IdeRw, idevars, procvars
  <2> QED
    BY <2>1 DEF Flags, Asked
<1>5. CASE IdeIntr
  <2> DEFINE x == Head(idequeue)
  <2>1. /\ x \in Bufs /\ blockno[x] \in Blocks /\ ~Done(x)
        /\ drive.buf = x /\ drive.write = IF dirty[x] THEN data[x] ELSE Null
    BY <1>5, HeadServed DEF IdeIntr, Finish
  <2>2. /\ disk' = IF drive.write = Null THEN disk
                   ELSE [disk EXCEPT ![blockno[drive.buf]] = drive.write]
        /\ data' = IF dirty[x] THEN data ELSE [data EXCEPT ![x] = disk[blockno[drive.buf]]]
        /\ valid' = [valid EXCEPT ![x] = TRUE] /\ dirty' = [dirty EXCEPT ![x] = FALSE]
        /\ blockno' = blockno /\ buf' = buf /\ \A q \in Procs : pc'[q] = "use" => pc[q] = "use"
    BY <1>5 DEF IdeIntr, Finish
  <2> HIDE DEF x
  <2>3. \A y \in Bufs : y # x /\ valid[y] => blockno[y] # blockno[x] /\ data'[y] = data[y]
    BY <2>1, <2>2 DEF BufferKept, Flags
  <2>4. data'[x] = disk'[blockno[x]]
    <3>1. CASE dirty[x]
      <4>1. drive.write = data[x] /\ data[x] # Null
        BY <2>1, <3>1
      <4> QED
        BY <2>1, <2>2, <3>1, <4>1
    <3>2. CASE ~dirty[x]
      BY <2>1, <2>2, <3>2
    <3> QED
      BY <3>1, <3>2
  <2>5. \A y \in Bufs : /\ dirty'[y] => valid'[y]
                        /\ valid'[y] => blockno'[y] \in Blocks
                        /\ valid'[y] /\ ~dirty'[y] => data'[y] = disk'[blockno'[y]]
    <3> TAKE y \in Bufs
    <3>1. CASE y = x
      BY <2>1, <2>2, <2>4, <3>1
    <3>2. CASE y # x
      <4>1. valid'[y] = valid[y] /\ dirty'[y] = dirty[y]
        BY <2>2, <3>2
      <4>2. valid[y] => disk'[blockno[y]] = disk[blockno[y]]
        BY <2>1, <2>2, <2>3, <3>2 DEF Flags
      <4> QED
        BY <2>2, <2>3, <3>2, <4>1, <4>2 DEF Flags
    <3> QED
      BY <3>1, <3>2
  <2>6. \A q \in Procs : pc'[q] = "use" => valid'[buf'[q]]
    BY <2>2 DEF Flags, Asked
  <2> QED
    BY <2>5, <2>6 DEF Flags
<1>6. CASE UNCHANGED vars
  BY <1>6 DEF vars, bufvars, idevars, procvars, Flags
<1> QED
  BY <1>1, <1>2, <1>3, <1>4, <1>5, <1>6 DEF Next, CallStep

-----------------------------------------------------------------------------
(* Sequences that have no element twice. *)
Once(s) == \A i, j \in DOMAIN s : s[i] = s[j] => i = j

In(s, y) == \E i \in DOMAIN s : s[i] = y

LEMMA AppendOnce ==
  ASSUME NEW S, NEW s \in Seq(S), NEW x \in S, Once(s), ~In(s, x)
  PROVE  /\ Once(Append(s, x))
         /\ \A y : In(Append(s, x), y) <=> In(s, y) \/ y = x
         /\ Append(s, x) # << >>
         /\ Head(Append(s, x)) = IF s = << >> THEN x ELSE Head(s)
<1> DEFINE t == Append(s, x)
           n == Len(s)
<1>1. /\ n \in Nat /\ DOMAIN s = 1 .. n
      /\ t \in Seq(S) /\ Len(t) = n + 1 /\ DOMAIN t = 1 .. n + 1
      /\ \A i \in 1 .. n : t[i] = s[i]
      /\ t[n + 1] = x
  BY AppendProperties, LenProperties
<1>2. n + 1 \in DOMAIN t /\ \A i \in DOMAIN t : i \in DOMAIN s \/ i = n + 1
  BY <1>1
<1>3. t # << >> /\ Head(t) = t[1]
  BY <1>1, HeadTailProperties, EmptySeq
<1>4. Head(t) = IF s = << >> THEN x ELSE Head(s)
  <2>1. CASE n = 0
    BY <1>1, <1>3, <2>1, EmptySeq
  <2>2. CASE n # 0
    <3>1. s # << >> /\ Head(s) = s[1] /\ 1 \in 1 .. n
      BY <1>1, <2>2, EmptySeq, HeadTailProperties
    <3> QED
      BY <1>1, <1>3, <3>1
  <2> QED
    BY <2>1, <2>2
<1> HIDE DEF t, n
<1>5. Once(t)
  BY <1>1, <1>2 DEF Once, In
<1>6. \A y : In(t, y) <=> In(s, y) \/ y = x
  BY <1>1, <1>2 DEF In
<1> QED
  BY <1>3, <1>4, <1>5, <1>6 DEF t

LEMMA TailOnce ==
  ASSUME NEW S, NEW s \in Seq(S), s # << >>, Once(s)
  PROVE  /\ Once(Tail(s))
         /\ \A y : In(Tail(s), y) <=> In(s, y) /\ y # Head(s)
<1> DEFINE t == Tail(s)
           n == Len(s)
<1>1. /\ n \in Nat \ {0} /\ DOMAIN s = 1 .. n
      /\ Len(t) = n - 1 /\ DOMAIN t = 1 .. n - 1
      /\ \A i \in 1 .. n - 1 : t[i] = s[i + 1]
      /\ Head(s) = s[1]
  BY HeadTailProperties, LenProperties, EmptySeq
<1> HIDE DEF t, n
<1>2. 1 \in DOMAIN s /\ \A i \in DOMAIN t : i \in Nat /\ i + 1 \in DOMAIN s /\ i + 1 # 1 /\ t[i] = s[i + 1]
  BY <1>1
<1>3. \A i \in DOMAIN s : i # 1 => i - 1 \in DOMAIN t /\ t[i - 1] = s[i]
  <2> SUFFICES ASSUME NEW i \in DOMAIN s, i # 1 PROVE i - 1 \in DOMAIN t /\ t[i - 1] = s[i]
    OBVIOUS
  <2>1. i - 1 \in 1 .. n - 1 /\ (i - 1) + 1 = i
    BY <1>1
  <2> QED
    BY <1>1, <2>1
<1>4. Once(t)
  <2> SUFFICES ASSUME NEW i \in DOMAIN t, NEW j \in DOMAIN t, t[i] = t[j] PROVE i = j
    BY DEF Once
  <2>1. i + 1 = j + 1 /\ i \in Nat /\ j \in Nat
    BY <1>2 DEF Once
  <2> QED
    BY <2>1
<1>5. \A y : In(t, y) <=> In(s, y) /\ y # Head(s)
  <2> SUFFICES ASSUME NEW y PROVE In(t, y) <=> In(s, y) /\ y # Head(s)
    OBVIOUS
  <2>1. ASSUME In(t, y) PROVE In(s, y) /\ y # Head(s)
    BY <1>1, <1>2, <2>1 DEF In, Once
  <2>2. ASSUME In(s, y), y # Head(s) PROVE In(t, y)
    BY <1>1, <1>3, <2>2 DEF In
  <2> QED
    BY <2>1, <2>2
<1> QED
  BY <1>4, <1>5 DEF t

(* A buffer that a process uses, but not for a request, is not in the queue. *)
LEMMA NotQueued ==
  ASSUME CacheTypeOK, Asked, Locks, Queue, NEW p \in Procs, pc[p] \in {"read", "use"}
  PROVE  /\ buf[p] \in Bufs /\ ~In(idequeue, buf[p])
         /\ \A q \in Procs : pc[q] \in {"iosleep", "io"} => buf[q] # buf[p]
<1>1. buf[p] \in Bufs
  BY DEF Asked
<1>2. \A q \in Procs : pc[q] \in {"iosleep", "io"} => buf[q] # buf[p]
  BY <1>1 DEF Locks, Locked
<1>3. ~In(idequeue, buf[p])
  BY <1>1, <1>2 DEF Queue, Queued, Wanted, In
<1> QED
  BY <1>1, <1>2, <1>3

LEMMA QueueStep ==
  ASSUME CacheInductive, CacheTypeOK', [Next]_vars
  PROVE  Queue' /\ Pins'
<1> USE BufAssumption DEF CacheInductive, CacheTypeOK
<1>1. IsFiniteSet(Unsaved) /\ Cardinality(Unsaved) <= MaxPinned /\ \A x \in Bufs : Queued(x) <=> In(idequeue, x)
  <2>1. IsFiniteSet(Unsaved)
    <3>1. Unsaved \subseteq Bufs
      BY DEF Unsaved
    <3> QED
      BY <3>1, FS_Subset
  <2> QED
    BY <2>1 DEF Pins, Queued, In
<1>2. ASSUME Unsaved' \subseteq Unsaved
      PROVE  Pins'
  <2>1. IsFiniteSet(Unsaved') /\ Cardinality(Unsaved') <= Cardinality(Unsaved)
    BY <1>1, <1>2, FS_Subset, ZenonT(60)
  <2>2. Cardinality(Unsaved) \in Nat /\ Cardinality(Unsaved') \in Nat
    BY <1>1, <2>1, FS_CardinalityType
  <2> QED
    BY <1>1, <2>1, <2>2 DEF Pins
<1>3. ASSUME idequeue' = idequeue, dirty' = dirty, data' = data, drive' = drive,
             (\A q \in Procs : pc[q] = "iosleep" => ~Done(buf[q]))',
             \A x \in Bufs : Wanted(x)' <=> Wanted(x)
      PROVE  Queue' /\ Pins'
  <2>1. Unsaved' = Unsaved
    BY <1>3 DEF Unsaved, Queued
  <2>2. Queue'
    BY <1>3 DEF Queue, Queued
  <2> QED
    BY <1>2, <2>1, <2>2
<1>4. ASSUME NEW p \in Procs, NEW b \in Blocks, GetCached(p, b)
      PROVE  Queue' /\ Pins'
  <2>1. /\ UNCHANGED <<idequeue, drive, dirty, data, valid>> /\ pc[p] = "idle"
        /\ pc' = [pc EXCEPT ![p] = "lock"] /\ buf' = [buf EXCEPT ![p] = buf'[p]]
    BY <1>4 DEF GetCached, Found, idevars
  <2>2. (\A q \in Procs : pc[q] = "iosleep" => ~Done(buf[q]))'
    BY <2>1 DEF Queue, Done
  <2>3. \A x \in Bufs : Wanted(x)' <=> Wanted(x)
    BY <2>1, ZenonT(60) DEF Wanted, Done
  <2> QED
    BY <1>3, <2>1, <2>2, <2>3
<1>5. ASSUME NEW p \in Procs, NEW b \in Blocks, GetFresh(p, b)
      PROVE  Queue' /\ Pins'
  <2>1. PICK x \in Bufs :
          /\ refcnt[x] = 0 /\ Found(p, b, x) /\ UNCHANGED <<idequeue, drive>>
          /\ valid' = [valid EXCEPT ![x] = FALSE] /\ dirty' = [dirty EXCEPT ![x] = FALSE]
          /\ data' = [data EXCEPT ![x] = Stale] /\ pc[p] = "idle"
    BY <1>5 DEF GetFresh, Recycle, Recyclable, idevars
  <2>2. \A q \in Procs : pc[q] # "idle" => buf[q] # x
    BY <2>1, NoUsers
  <2>3. \A q \in Procs : pc'[q] \in {"iosleep", "io"} =>
                           pc'[q] = pc[q] /\ buf'[q] = buf[q] /\ buf[q] # x
    BY <2>1, <2>2 DEF Found
  <2>4. \A q \in Procs : pc[q] \in {"iosleep", "io"} => pc'[q] = pc[q] /\ buf'[q] = buf[q]
    BY <2>1 DEF Found
  <2>5. (\A q \in Procs : pc[q] = "iosleep" => ~Done(buf[q]))'
    BY <2>1, <2>3 DEF Queue, Done, Asked
  <2>6. \A y \in Bufs : Wanted(y)' <=> Wanted(y)
    BY <2>1, <2>2, <2>3, <2>4 DEF Wanted, Done
  <2>7. ~In(idequeue, x)
    BY <1>1, <2>2 DEF Queue, Wanted
  <2>8. idequeue # << >> => Head(idequeue) \in Bufs /\ Head(idequeue) # x
    <3>1. idequeue # << >> => Head(idequeue) = idequeue[1] /\ 1 \in DOMAIN idequeue
      BY HeadTailProperties, LenProperties, EmptySeq
    <3> QED
      BY <2>7, <3>1 DEF In
  <2>9. Queue'
    <3>1. idequeue # << >> => /\ dirty'[Head(idequeue)] = dirty[Head(idequeue)]
                              /\ data'[Head(idequeue)] = data[Head(idequeue)]
      BY <2>1, <2>8
    <3> QED
      BY <2>1, <2>5, <2>6, <3>1 DEF Queue, Queued
  <2>10. Unsaved' \subseteq Unsaved
    BY <2>1 DEF Unsaved, Queued
  <2> QED
    BY <1>2, <2>9, <2>10
<1>6. ASSUME NEW p \in Procs, \/ Lock(p) \/ LockSleep(p) \/ ReadHit(p) \/ IoReturn(p)
                              \/ IoSleepAgain(p) \/ Unlock(p) \/ Unref(p) \/ Kill(p)
      PROVE  Queue' /\ Pins'
  <2>1. UNCHANGED <<idequeue, drive, valid, dirty, data>>
    BY <1>6 DEF Lock, LockSleep, ReadHit, IoReturn, IoSleepAgain, Unlock, Unref, Kill,
                bufvars, idevars
  <2>2. \A q \in Procs : pc'[q] = "iosleep" => buf'[q] = buf[q] /\ ~Done(buf[q])
    <3>1. CASE Lock(p) \/ LockSleep(p) \/ ReadHit(p)
      BY <3>1 DEF Lock, LockSleep, ReadHit, Queue
    <3>2. CASE IoReturn(p) \/ IoSleepAgain(p)
      BY <3>2 DEF IoReturn, IoSleepAgain, Queue
    <3>3. CASE Unlock(p)
      BY <3>3 DEF Unlock, Queue
    <3>4. CASE Unref(p)
      BY <3>4 DEF Unref, Queue
    <3>5. CASE Kill(p)
      BY <3>5 DEF Kill, Queue
    <3> QED
      BY <1>6, <3>1, <3>2, <3>3, <3>4, <3>5
  <2>3. \A q \in Procs :
          /\ pc'[q] \in {"iosleep", "io"} => pc[q] \in {"iosleep", "io"} /\ buf'[q] = buf[q]
          /\ pc[q] \in {"iosleep", "io"} =>
               Done(buf[q]) \/ (pc'[q] \in {"iosleep", "io"} /\ buf'[q] = buf[q])
    <3>1. CASE Lock(p) \/ LockSleep(p) \/ ReadHit(p)
      BY <3>1 DEF Lock, LockSleep, ReadHit
    <3>2. CASE IoReturn(p) \/ IoSleepAgain(p)
      BY <3>2 DEF IoReturn, IoSleepAgain
    <3>3. CASE Unlock(p)
      BY <3>3 DEF Unlock
    <3>4. CASE Unref(p)
      BY <3>4 DEF Unref
    <3>5. CASE Kill(p)
      BY <3>5 DEF Kill
    <3> QED
      BY <1>6, <3>1, <3>2, <3>3, <3>4, <3>5
  <2>5. (\A q \in Procs : pc[q] = "iosleep" => ~Done(buf[q]))'
    BY <2>1, <2>2 DEF Done
  <2>6. \A x \in Bufs : Wanted(x)' <=> Wanted(x)
    BY <2>1, <2>3 DEF Wanted, Done
  <2> QED
    BY <1>3, <2>1, <2>5, <2>6
<1>7. ASSUME NEW p \in Procs, NEW v \in Values, Pin(p, v)
      PROVE  Queue' /\ Pins'
  <2>1. /\ UNCHANGED <<idequeue, drive, valid, pc, buf>> /\ pc[p] = "use"
        /\ data' = [data EXCEPT ![buf[p]] = v] /\ dirty' = [dirty EXCEPT ![buf[p]] = TRUE]
        /\ Cardinality(Pinned \cup {buf[p]}) <= MaxPinned
    BY <1>7 DEF Pin, idevars, procvars
  <2>2. /\ buf[p] \in Bufs /\ ~In(idequeue, buf[p])
        /\ \A q \in Procs : pc[q] \in {"iosleep", "io"} => buf[q] # buf[p]
    BY <2>1, NotQueued
  <2>3. (\A q \in Procs : pc[q] = "iosleep" => ~Done(buf[q]))'
    BY <2>1 DEF Queue, Done, Asked
  <2>4. \A x \in Bufs : Wanted(x)' <=> Wanted(x)
    BY <2>1, <2>2 DEF Wanted, Done
  <2>5. idequeue # << >> => Head(idequeue) \in Bufs /\ Head(idequeue) # buf[p]
    <3>1. idequeue # << >> => Head(idequeue) = idequeue[1] /\ 1 \in DOMAIN idequeue
      BY HeadTailProperties, LenProperties, EmptySeq
    <3> QED
      BY <2>2, <3>1 DEF In
  <2>6. Queue'
    <3>1. idequeue # << >> => /\ dirty'[Head(idequeue)] = dirty[Head(idequeue)]
                              /\ data'[Head(idequeue)] = data[Head(idequeue)]
      BY <2>1, <2>5
    <3> QED
      BY <2>1, <2>3, <2>4, <3>1 DEF Queue, Queued
  <2>7. Pins'
    <3>1. Unsaved' \subseteq Pinned \cup {buf[p]}
      BY <2>1 DEF Unsaved, Pinned
    <3>2. IsFiniteSet(Pinned \cup {buf[p]})
      <4>1. Pinned \cup {buf[p]} \subseteq Bufs
        BY <2>2 DEF Pinned
      <4> QED
        BY <4>1, FS_Subset
    <3>3. IsFiniteSet(Unsaved') /\ Cardinality(Unsaved') <= Cardinality(Pinned \cup {buf[p]})
      BY <3>1, <3>2, FS_Subset, ZenonT(60)
    <3>4. Cardinality(Unsaved') \in Nat /\ Cardinality(Pinned \cup {buf[p]}) \in Nat
      BY <3>2, <3>3, FS_CardinalityType
    <3> QED
      BY <2>1, <3>3, <3>4 DEF Pins
  <2> QED
    BY <2>6, <2>7
<1>8. ASSUME NEW p \in Procs, ReadMiss(p) \/ \E v \in Values : Write(p, v)
      PROVE  Queue' /\ Pins'
  <2>1. /\ pc[p] \in {"read", "use"} /\ UNCHANGED <<valid, buf>>
        /\ idequeue' = Append(idequeue, buf[p])
        /\ pc' = [pc EXCEPT ![p] = "iosleep"]
    BY <1>8 DEF ReadMiss, Write, IdeRw
  <2>2. /\ buf[p] \in Bufs /\ ~In(idequeue, buf[p])
        /\ \A q \in Procs : pc[q] \in {"iosleep", "io"} => buf[q] # buf[p]
    BY <2>1, NotQueued
  <2>3. /\ ~(valid'[buf[p]] /\ ~dirty'[buf[p]])
        /\ \A y \in Bufs : y # buf[p] => dirty'[y] = dirty[y] /\ data'[y] = data[y]
        /\ drive' = IF idequeue = << >>
                    THEN [buf |-> buf[p], write |-> IF dirty'[buf[p]] THEN data'[buf[p]] ELSE Null]
                    ELSE drive
    BY <1>8, <2>2 DEF ReadMiss, Write, IdeRw, Started
  <2>4. Once(idequeue)
    BY DEF Once, Queue
  <2>5. /\ Once(idequeue') /\ idequeue' # << >>
        /\ \A y : In(idequeue', y) <=> In(idequeue, y) \/ y = buf[p]
        /\ Head(idequeue') = IF idequeue = << >> THEN buf[p] ELSE Head(idequeue)
    BY <2>1, <2>2, <2>4, AppendOnce
  <2>6. idequeue # << >> => Head(idequeue) \in Bufs /\ Head(idequeue) # buf[p]
    <3>1. idequeue # << >> => Head(idequeue) = idequeue[1] /\ 1 \in DOMAIN idequeue
      BY HeadTailProperties, LenProperties, EmptySeq
    <3> QED
      BY <2>2, <3>1 DEF In
  <2>7. \A y \in Bufs : Wanted(y)' <=> Wanted(y) \/ y = buf[p]
    BY <2>1, <2>2, <2>3 DEF Wanted, Done
  <2>8. \A y \in Bufs : Queued(y)' <=> Wanted(y)'
    <3> SUFFICES ASSUME NEW y \in Bufs PROVE Queued(y)' <=> Wanted(y)'
      OBVIOUS
    <3>1. Queued(y)' <=> In(idequeue', y)
      BY DEF Queued, In
    <3>2. In(idequeue, y) <=> Wanted(y)
      BY <1>1 DEF Queue
    <3> QED
      BY <2>5, <2>7, <3>1, <3>2
  <2>9. (\A q \in Procs : pc[q] = "iosleep" => ~Done(buf[q]))'
    BY <2>1, <2>2, <2>3 DEF Queue, Done, Asked
  <2>10. drive' = [buf   |-> Head(idequeue'),
                   write |-> IF dirty'[Head(idequeue')] THEN data'[Head(idequeue')] ELSE Null]
    BY <2>3, <2>5, <2>6 DEF Queue
  <2>11. Queue'
    BY <2>5, <2>8, <2>9, <2>10 DEF Queue, Once
  <2>12. Unsaved' \subseteq Unsaved
    <3> SUFFICES ASSUME NEW y \in Bufs, dirty'[y], ~Queued(y)' PROVE dirty[y] /\ ~Queued(y)
      BY DEF Unsaved
    <3>1. ~In(idequeue', y)
      BY DEF Queued, In
    <3> QED
      BY <1>1, <2>3, <2>5, <3>1
  <2> QED
    BY <1>2, <2>11, <2>12
<1>9. CASE IdeIntr
  <2> DEFINE x == Head(idequeue)
  <2>1. /\ idequeue # << >> /\ x \in Bufs /\ Tail(idequeue) \in Seq(Bufs)
    BY <1>9, HeadServed DEF IdeIntr, Finish
  <2>2. /\ valid' = [valid EXCEPT ![x] = TRUE] /\ dirty' = [dirty EXCEPT ![x] = FALSE]
        /\ \A y \in Bufs : y # x => data'[y] = data[y]
        /\ idequeue' = Tail(idequeue) /\ buf' = buf
        /\ pc' = [p \in Procs |-> IF pc[p] = "iosleep" /\ buf[p] = x THEN "io" ELSE pc[p]]
        /\ drive' = IF idequeue' = << >> THEN Null
                    ELSE [buf |-> Head(idequeue'),
                          write |-> IF dirty'[Head(idequeue')] THEN data[Head(idequeue')] ELSE Null]
    BY <1>9 DEF IdeIntr, Finish, Started
  <2>3. Once(idequeue)
    BY DEF Once, Queue
  <2>4. /\ Once(idequeue') /\ \A y : In(idequeue', y) <=> In(idequeue, y) /\ y # x
    BY <2>1, <2>2, <2>3, TailOnce
  <2>5. idequeue' # << >> => Head(idequeue') \in Bufs /\ Head(idequeue') # x
    <3>1. idequeue' # << >> => Head(idequeue') = idequeue'[1] /\ 1 \in DOMAIN idequeue'
      BY HeadTailProperties, LenProperties, EmptySeq
    <3>2. idequeue' # << >> => Head(idequeue') \in Bufs
      BY HeadTailProperties
    <3> QED
      BY <2>4, <3>1, <3>2 DEF In
  <2> HIDE DEF x
  <2>6. \A y \in Bufs : Wanted(y)' <=> Wanted(y) /\ y # x
    BY <2>1, <2>2 DEF Wanted, Done
  <2>7. \A y \in Bufs : Queued(y)' <=> Wanted(y)'
    <3> SUFFICES ASSUME NEW y \in Bufs PROVE Queued(y)' <=> Wanted(y)'
      OBVIOUS
    <3>1. Queued(y)' <=> In(idequeue', y)
      BY DEF Queued, In
    <3>2. In(idequeue, y) <=> Wanted(y)
      BY <1>1 DEF Queue
    <3> QED
      BY <2>4, <2>6, <3>1, <3>2
  <2>8. (\A q \in Procs : pc[q] = "iosleep" => ~Done(buf[q]))'
    BY <2>1, <2>2 DEF Queue, Done, Asked
  <2>9. idequeue' # << >> =>
          drive' = [buf   |-> Head(idequeue'),
                    write |-> IF dirty'[Head(idequeue')] THEN data'[Head(idequeue')] ELSE Null]
    BY <2>2, <2>5
  <2>10. Queue'
    <3>1. idequeue' = << >> => drive' = Null
      BY <2>2
    <3> QED
      BY <2>4, <2>7, <2>8, <2>9, <3>1 DEF Queue, Once
  <2>11. Unsaved' \subseteq Unsaved
    <3> SUFFICES ASSUME NEW y \in Bufs, dirty'[y], ~Queued(y)' PROVE dirty[y] /\ ~Queued(y)
      BY DEF Unsaved
    <3>1. ~In(idequeue', y) /\ y # x /\ dirty[y]
      BY <2>1, <2>2 DEF Queued, In
    <3> QED
      BY <1>1, <2>4, <3>1
  <2> QED
    BY <1>2, <2>10, <2>11
<1>10. CASE UNCHANGED vars
  <2>1. UNCHANGED <<idequeue, dirty, data, drive, pc, buf, valid>>
    BY <1>10 DEF vars, bufvars, idevars, procvars
  <2>2. (\A q \in Procs : pc[q] = "iosleep" => ~Done(buf[q]))'
    BY <2>1 DEF Queue, Done
  <2>3. \A x \in Bufs : Wanted(x)' <=> Wanted(x)
    BY <2>1 DEF Wanted, Done
  <2> QED
    BY <1>3, <2>1, <2>2, <2>3
<1> QED
  BY <1>4, <1>5, <1>6, <1>7, <1>8, <1>9, <1>10 DEF Next, CallStep

LEMMA CacheInvariant == Spec => []CacheInductive
<1>1. CacheInductive /\ [Next]_vars => CacheInductive'
  <2> SUFFICES ASSUME CacheInductive, [Next]_vars PROVE CacheInductive'
    OBVIOUS
  <2>1. CacheTypeOK' /\ Asked'
    BY TypeStep DEF CacheInductive
  <2>2. Counted'
    BY <2>1, CountStep DEF CacheInductive
  <2>3. BufferKept'
    BY KeptStep DEF CacheInductive
  <2>4. Locks' /\ LockWaitersSeen'
    BY LockStep DEF CacheInductive
  <2>5. Flags'
    BY <2>1, <2>3, FlagStep
  <2>6. Queue' /\ Pins'
    BY <2>1, QueueStep
  <2> QED
    BY <2>1, <2>2, <2>3, <2>4, <2>5, <2>6 DEF CacheInductive
<1> QED
  BY <1>1, InitCache, PTL DEF Spec

(* No block ever has two buffers, and no buffer goes to another block from *)
(* under a process that asked for it, however bget()s, sleeps and          *)
(* recycling interleave.                                                   *)
THEOREM BuffersKept == Spec => []BufferKept
<1>1. CacheInductive => BufferKept
  BY DEF CacheInductive
<1> QED
  BY <1>1, CacheInvariant, PTL

(* Whoever sleeps in iderw() or acquiresleep() is still to be woken.        *)
THEOREM WakeupsKept == Spec => []NoLostWakeup
<1>1. CacheInductive => IoServed
  <2> SUFFICES ASSUME CacheInductive PROVE IoServed
    OBVIOUS
  <2> USE DEF CacheInductive
  <2>1. ASSUME NEW p \in Procs, pc[p] = "iosleep"
        PROVE  (\E i \in DOMAIN idequeue : idequeue[i] = buf[p]) /\ ~Done(buf[p])
    <3>1. buf[p] \in Bufs /\ ~Done(buf[p])
      BY <2>1 DEF Asked, Queue
    <3>2. Wanted(buf[p])
      BY <2>1, <3>1 DEF Wanted
    <3> QED
      BY <3>1, <3>2 DEF Queue, Queued
  <2>2. idequeue = << >> => drive = Null
    BY DEF Queue
  <2>3. idequeue # << >> => drive # Null /\ drive.buf = Head(idequeue)
    <3> SUFFICES ASSUME idequeue # << >> PROVE drive # Null /\ drive.buf = Head(idequeue)
      OBVIOUS
    <3> DEFINE x == Head(idequeue)
    <3>1. x \in Bufs
      BY HeadTailProperties DEF CacheTypeOK
    <3>2. drive = [buf |-> x, write |-> IF dirty[x] THEN data[x] ELSE Null]
      BY DEF Queue
    <3> HIDE DEF x
    <3>3. drive \in [buf : Bufs, write : Values \cup {Null}]
      BY <3>1, <3>2 DEF CacheTypeOK
    <3> QED
      BY BufAssumption, <3>2, <3>3 DEF x
  <2> QED
    BY <2>1, <2>2, <2>3 DEF IoServed
<1>2. CacheInductive => NoLostWakeup
  BY <1>1 DEF CacheInductive, NoLostWakeup
<1> QED
  BY <1>2, CacheInvariant, PTL

(* The references to a buffer are the processes that have it, however      *)
(* bget() and brelse() interleave: none is kept, and none goes twice.       *)
THEOREM ReferencesReturned == Spec => []BuffersReturned
<1>1. CacheInductive => BuffersReturned
  <2> SUFFICES ASSUME CacheInductive, NEW x \in Bufs
               PROVE  refcnt[x] = Cardinality({p \in Procs : buf[p] = x})
    BY DEF BuffersReturned
  <2>1. \A p \in Procs : buf[p] = x => pc[p] # "idle"
    BY BufAssumption DEF CacheInductive, Asked
  <2>2. Users(x) = {p \in Procs : buf[p] = x}
    BY <2>1 DEF Users
  <2> QED
    BY <2>2 DEF CacheInductive, Counted
<1> QED
  BY <1>1, CacheInvariant, PTL

-----------------------------------------------------------------------------
(* The cache implements the store. *)

(* The one copy of each block, and who has it. *)
Contents == [b \in Blocks |-> IF \E x \in Bufs : Holds(b, x)
                                THEN data[CHOOSE x \in Bufs : Holds(b, x)]
                                ELSE disk[b]]

Holders == [b \in Blocks |-> IF Cached(b) = {} THEN Null
                            ELSE locker[CHOOSE x \in Bufs : blockno[x] = b]]

(* They are found in the buffer of a block if it has one, and on the disk. *)
Buffered ==
  \A b \in Blocks :
    /\ \A x \in Bufs : blockno[x] = b =>
         /\ Contents[b] = IF valid[x] THEN data[x] ELSE disk[b]
         /\ Holders[b] = locker[x]
    /\ (\A x \in Bufs : blockno[x] # b) => Contents[b] = disk[b] /\ Holders[b] = Null

LEMMA BufferedHolds == CacheInductive => Buffered
<1> SUFFICES ASSUME CacheInductive, NEW b \in Blocks
             PROVE  /\ \A x \in Bufs : blockno[x] = b =>
                         /\ Contents[b] = IF valid[x] THEN data[x] ELSE disk[b]
                         /\ Holders[b] = locker[x]
                    /\ (\A x \in Bufs : blockno[x] # b) => Contents[b] = disk[b] /\ Holders[b] = Null
  BY DEF Buffered
<1> USE BufAssumption DEF CacheInductive
<1>1. ASSUME NEW x \in Bufs, blockno[x] = b
      PROVE  /\ Contents[b] = IF valid[x] THEN data[x] ELSE disk[b]
             /\ Holders[b] = locker[x]
  <2>1. \A y \in Bufs : blockno[y] = b <=> y = x
    BY <1>1 DEF BufferKept
  <2>2. (CHOOSE y \in Bufs : blockno[y] = b) = x
    BY <2>1
  <2>3. Cached(b) # {}
    BY <1>1 DEF Cached
  <2>4. Holders[b] = locker[x]
    BY <2>2, <2>3 DEF Holders
  <2>5. \A y \in Bufs : Holds(b, y) <=> y = x /\ valid[x]
    BY <2>1 DEF Holds, Flags
  <2>6. CASE valid[x]
    <3>1. (CHOOSE y \in Bufs : Holds(b, y)) = x
      BY <2>5, <2>6
    <3> QED
      BY <2>4, <2>5, <2>6, <3>1 DEF Contents
  <2>7. CASE ~valid[x]
    BY <2>4, <2>5, <2>7 DEF Contents
  <2> QED
    BY <2>6, <2>7
<1>2. ASSUME \A x \in Bufs : blockno[x] # b
      PROVE  Contents[b] = disk[b] /\ Holders[b] = Null
  BY <1>2 DEF Contents, Holders, Holds, Cached
<1> QED
  BY <1>1, <1>2

LEMMA TakeOrGive ==
  ASSUME NEW p \in Procs, NEW b \in Blocks, Store!Take(p, b) \/ Store!Give(p, b)
  PROVE  Store!StoreNext
  BY DEF Store!StoreNext

LEMMA StoreStep ==
  ASSUME CacheInductive, CacheInductive', [Next]_vars
  PROVE  Store!StoreNext \/ UNCHANGED <<Contents, Holders>>
<1> USE BufAssumption DEF CacheInductive, CacheTypeOK
<1>1. Buffered /\ Buffered'
  <2>1. (CacheInductive => Buffered)'
    BY BufferedHolds, PTL
  <2> QED
    BY <2>1, BufferedHolds
<1>2. /\ Contents = [b \in Blocks |-> Contents[b]] /\ Holders = [b \in Blocks |-> Holders[b]]
      /\ Contents' = [b \in Blocks |-> Contents'[b]] /\ Holders' = [b \in Blocks |-> Holders'[b]]
  BY DEF Contents, Holders
<1>3. ASSUME NEW c \in Blocks, \A y \in Bufs : blockno'[y] = c <=> blockno[y] = c,
             disk'[c] = disk[c],
             \A y \in Bufs : blockno[y] = c => valid'[y] = valid[y] /\ data'[y] = data[y]
      PROVE  Contents'[c] = Contents[c]
  <2>1. ASSUME NEW y \in Bufs, blockno[y] = c
        PROVE  Contents'[c] = Contents[c]
    <3>1. Contents[c] = IF valid[y] THEN data[y] ELSE disk[c]
      BY <1>1, <2>1 DEF Buffered
    <3>2. Contents'[c] = IF valid'[y] THEN data'[y] ELSE disk'[c]
      BY <1>1, <1>3, <2>1 DEF Buffered
    <3> QED
      BY <1>3, <2>1, <3>1, <3>2
  <2>2. CASE \A y \in Bufs : blockno[y] # c
    BY <1>1, <1>3, <2>2 DEF Buffered
  <2> QED
    BY <2>1, <2>2
<1>4. ASSUME NEW c \in Blocks, \A y \in Bufs : blockno'[y] = c <=> blockno[y] = c,
             \A y \in Bufs : blockno[y] = c => locker'[y] = locker[y]
      PROVE  Holders'[c] = Holders[c]
  <2>1. ASSUME NEW y \in Bufs, blockno[y] = c
        PROVE  Holders'[c] = Holders[c]
    <3>1. Holders[c] = locker[y]
      BY <1>1, <2>1 DEF Buffered
    <3>2. Holders'[c] = locker'[y]
      BY <1>1, <1>4, <2>1 DEF Buffered
    <3> QED
      BY <1>4, <2>1, <3>1, <3>2
  <2>2. CASE \A y \in Bufs : blockno[y] # c
    BY <1>1, <1>4, <2>2 DEF Buffered
  <2> QED
    BY <2>1, <2>2
<1>5. /\ UNCHANGED <<blockno, disk, valid, data>> => Contents' = Contents
      /\ UNCHANGED <<blockno, locker>> => Holders' = Holders
  <2>1. ASSUME UNCHANGED <<blockno, disk, valid, data>> PROVE Contents' = Contents
    <3>1. \A c \in Blocks : Contents'[c] = Contents[c]
      BY <1>3, <2>1
    <3> QED
      BY <1>2, <3>1
  <2>2. ASSUME UNCHANGED <<blockno, locker>> PROVE Holders' = Holders
    <3>1. \A c \in Blocks : Holders'[c] = Holders[c]
      BY <1>4, <2>2
    <3> QED
      BY <1>2, <3>1
  <2> QED
    BY <2>1, <2>2
<1>6. ASSUME NEW p \in Procs, \/ LockSleep(p) \/ ReadHit(p) \/ ReadMiss(p) \/ IoReturn(p)
                              \/ IoSleepAgain(p) \/ Unref(p) \/ Kill(p)
                              \/ \E b \in Blocks : GetCached(p, b)
      PROVE  UNCHANGED <<Contents, Holders>>
  <2>1. UNCHANGED <<blockno, disk, valid, data, locker>>
    BY <1>6 DEF LockSleep, ReadHit, ReadMiss, IdeRw, IoReturn, IoSleepAgain, Unref, Kill, GetCached,
                bufvars, idevars
  <2> QED
    BY <1>5, <2>1
<1>7. ASSUME NEW p \in Procs, NEW b \in Blocks, GetFresh(p, b)
      PROVE  UNCHANGED <<Contents, Holders>>
  <2>1. PICK x \in Bufs :
          /\ refcnt[x] = 0 /\ ~dirty[x] /\ UNCHANGED <<disk, locker>>
          /\ blockno' = [blockno EXCEPT ![x] = b] /\ valid' = [valid EXCEPT ![x] = FALSE]
          /\ data' = [data EXCEPT ![x] = Stale]
    BY <1>7 DEF GetFresh, Recycle, Recyclable, idevars
  <2>2. \A y \in Bufs : blockno[y] # b
    BY <1>7 DEF GetFresh, Cached
  <2>3. locker[x] = Null
    <3>1. \A q \in Procs : ~Locked(q, x)
      BY <2>1, NoUsers DEF Locked
    <3> QED
      BY <3>1 DEF Locks
  <2>4. Contents[b] = disk[b] /\ Holders[b] = Null /\ Contents'[b] = disk[b] /\ Holders'[b] = Null
    BY <1>1, <2>1, <2>2, <2>3 DEF Buffered
  <2>5. ASSUME NEW c \in Blocks, c # b
        PROVE  Contents'[c] = Contents[c] /\ Holders'[c] = Holders[c]
    <3>1. CASE blockno[x] = c
      <4>1. \A y \in Bufs : blockno'[y] # c
        BY <2>1, <2>5, <3>1 DEF BufferKept
      <4>2. Contents'[c] = disk[c] /\ Holders'[c] = Null
        BY <1>1, <2>1, <4>1 DEF Buffered
      <4>3. Holders[c] = Null
        BY <1>1, <2>3, <3>1 DEF Buffered
      <4>4. valid[x] => data[x] = disk[c]
        BY <2>1, <3>1 DEF Flags
      <4> QED
        BY <1>1, <3>1, <4>2, <4>3, <4>4 DEF Buffered
    <3>2. CASE blockno[x] # c
      <4>1. \A y \in Bufs : blockno'[y] = c <=> blockno[y] = c
        BY <2>1, <2>5, <3>2
      <4>2. \A y \in Bufs : blockno[y] = c => valid'[y] = valid[y] /\ data'[y] = data[y]
        BY <2>1, <3>2, ZenonT(60)
      <4> QED
        BY <1>3, <1>4, <2>1, <4>1, <4>2
    <3> QED
      BY <3>1, <3>2
  <2>6. Contents' = Contents
    <3>1. \A c \in Blocks : Contents'[c] = Contents[c]
      BY <2>4, <2>5
    <3> QED
      BY <1>2, <3>1
  <2>7. Holders' = Holders
    <3>1. \A c \in Blocks : Holders'[c] = Holders[c]
      BY <2>4, <2>5
    <3> QED
      BY <1>2, <3>1
  <2> QED
    BY <2>6, <2>7
<1>8. ASSUME NEW p \in Procs, pc[p] # "idle"
      PROVE  /\ buf[p] \in Bufs /\ blockno[buf[p]] \in Blocks
             /\ \A y \in Bufs : blockno[y] = blockno[buf[p]] => y = buf[p]
  BY <1>8 DEF Asked, BufferKept
<1>9. ASSUME NEW x \in Bufs, blockno[x] \in Blocks, NEW w,
             locker' = [locker EXCEPT ![x] = w], UNCHANGED blockno
      PROVE  Holders[blockno[x]] = locker[x] /\ Holders' = [Holders EXCEPT ![blockno[x]] = w]
  <2> DEFINE b == blockno[x]
  <2>1. Holders[b] = locker[x] /\ Holders'[b] = w
    BY <1>1, <1>9 DEF Buffered
  <2>2. ASSUME NEW c \in Blocks, c # b
        PROVE  Holders'[c] = Holders[c]
    BY <1>4, <1>9, <2>2
  <2>3. \A c \in Blocks : Holders'[c] = IF c = b THEN w ELSE Holders[c]
    BY <2>1, <2>2
  <2>4. Holders' = [Holders EXCEPT ![b] = w]
    BY <1>2, <2>3
  <2> QED
    BY <2>1, <2>4
<1>10. ASSUME NEW p \in Procs, Lock(p)
       PROVE  Store!StoreNext
  <2>1. /\ pc[p] = "lock" /\ locker[buf[p]] = Null /\ locker' = [locker EXCEPT ![buf[p]] = p]
        /\ UNCHANGED <<blockno, disk, valid, data>>
    BY <1>10 DEF Lock, bufvars, idevars
  <2>2. Contents' = Contents
    BY <1>5, <2>1
  <2>3. PICK b \in Blocks : buf[p] \in Bufs /\ b = blockno[buf[p]]
    BY <1>8, <2>1
  <2>4. Holders[b] = Null /\ Holders' = [Holders EXCEPT ![b] = p]
    BY <1>9, <2>1, <2>3
  <2>5. Store!Take(p, b)
    BY <2>2, <2>4 DEF Store!Take, Contents, Holders
  <2> QED
    BY <2>5, TakeOrGive
<1>11. ASSUME NEW p \in Procs, Unlock(p)
       PROVE  Store!StoreNext
  <2>1. /\ pc[p] = "use" /\ locker' = [locker EXCEPT ![buf[p]] = Null]
        /\ UNCHANGED <<blockno, disk, valid, data>>
    BY <1>11 DEF Unlock, bufvars, idevars
  <2>2. PICK b \in Blocks : buf[p] \in Bufs /\ b = blockno[buf[p]]
    BY <1>8, <2>1
  <2>3. Contents' = Contents
    BY <1>5, <2>1
  <2>4. Holders[b] = p /\ Holders' = [Holders EXCEPT ![b] = Null]
    <3>1. locker[buf[p]] = p
      BY <2>1, <2>2 DEF Locks, Locked
    <3>2. Holders[b] = locker[buf[p]] /\ Holders' = [Holders EXCEPT ![b] = Null]
      BY <1>9, <2>1, <2>2
    <3> QED
      BY <3>1, <3>2
  <2>5. Store!Give(p, b)
    BY <2>3, <2>4 DEF Store!Give, Contents, Holders
  <2> QED
    BY <2>5, TakeOrGive
<1>12. ASSUME NEW p \in Procs, NEW v \in Values, Write(p, v) \/ Pin(p, v)
       PROVE  Store!StoreNext
  <2> DEFINE b == blockno[buf[p]]
  <2>1. /\ pc[p] = "use" /\ data' = [data EXCEPT ![buf[p]] = v]
        /\ UNCHANGED <<blockno, disk, valid, locker>>
    BY <1>12 DEF Write, Pin, IdeRw, idevars
  <2>2. locker[buf[p]] = p /\ valid[buf[p]]
    BY <1>8, <2>1 DEF Locks, Locked, Flags
  <2>3. Holders' = Holders /\ Holders[b] = p
    BY <1>1, <1>5, <1>8, <2>1, <2>2 DEF Buffered
  <2>4. \A c \in Blocks : Contents'[c] = IF c = b THEN v ELSE Contents[c]
    <3> SUFFICES ASSUME NEW c \in Blocks PROVE Contents'[c] = IF c = b THEN v ELSE Contents[c]
      OBVIOUS
    <3>1. CASE c = b
      BY <1>1, <1>8, <2>1, <2>2, <3>1 DEF Buffered
    <3>2. CASE c # b
      <4>1. \A y \in Bufs : blockno[y] = c => data'[y] = data[y]
        BY <2>1, <3>2
      <4> QED
        BY <1>3, <2>1, <3>2, <4>1
    <3> QED
      BY <3>1, <3>2
  <2>5. Contents' = [Contents EXCEPT ![b] = v]
    BY <1>2, <2>4
  <2>6. Store!Put(p, b, v)
    BY <2>3, <2>5 DEF Store!Put, Contents, Holders
  <2> QED
    BY <1>8, <2>1, <2>6 DEF Store!StoreNext
<1>13. CASE IdeIntr
  <2> DEFINE x == Head(idequeue)
  <2>1. /\ x \in Bufs /\ blockno[x] \in Blocks /\ ~Done(x)
        /\ drive.buf = x /\ drive.write = IF dirty[x] THEN data[x] ELSE Null
    BY <1>13, HeadServed DEF IdeIntr, Finish
  <2>2. /\ disk' = IF drive.write = Null THEN disk
                   ELSE [disk EXCEPT ![blockno[drive.buf]] = drive.write]
        /\ data' = IF dirty[x] THEN data ELSE [data EXCEPT ![x] = disk[blockno[drive.buf]]]
        /\ valid' = [valid EXCEPT ![x] = TRUE] /\ UNCHANGED <<blockno, locker>>
    BY <1>13 DEF IdeIntr, Finish
  <2> HIDE DEF x
  <2>3. \A c \in Blocks : c # blockno[x] => disk'[c] = disk[c]
    BY <2>1, <2>2
  <2>4. Contents'[blockno[x]] = Contents[blockno[x]]
    <3>1. Contents'[blockno[x]] = data'[x]
      BY <1>1, <2>1, <2>2 DEF Buffered
    <3>2. CASE dirty[x]
      BY <1>1, <2>1, <2>2, <3>1, <3>2 DEF Buffered, Flags
    <3>3. CASE ~dirty[x]
      BY <1>1, <2>1, <2>2, <3>1, <3>3 DEF Buffered, Done
    <3> QED
      BY <3>2, <3>3
  <2>5. ASSUME NEW c \in Blocks, c # blockno[x]
        PROVE  Contents'[c] = Contents[c]
    <3>1. \A y \in Bufs : blockno[y] = c => valid'[y] = valid[y] /\ data'[y] = data[y]
      BY <2>1, <2>2, <2>5
    <3> QED
      BY <1>3, <2>2, <2>3, <2>5, <3>1
  <2>6. Contents' = Contents
    <3>1. \A c \in Blocks : Contents'[c] = Contents[c]
      BY <2>4, <2>5
    <3> QED
      BY <1>2, <3>1
  <2> QED
    BY <1>5, <2>2, <2>6
<1>14. CASE UNCHANGED vars
  BY <1>5, <1>14 DEF vars, bufvars, idevars
<1> QED
  BY <1>6, <1>7, <1>10, <1>11, <1>12, <1>13, <1>14 DEF Next, CallStep

(* The cache cannot be told from a disk whose blocks are changed in place, *)
(* each by one process at a time.                                          *)
THEOREM CacheIsStore == Spec => OneCopy
<1>1. Init => Store!StoreInit
  <2> SUFFICES ASSUME Init PROVE Store!StoreInit
    OBVIOUS
  <2>1. Contents = disk /\ Holders = [b \in Blocks |-> Null]
    <3>1. \A b \in Blocks, x \in Bufs : blockno[x] # b
      BY BufAssumption DEF Init
    <3> QED
      BY <3>1 DEF Init, Contents, Holders, Holds, Cached
  <2> QED
    BY <2>1 DEF Store!StoreInit, Contents, Holders, Init
<1>2. CacheInductive /\ CacheInductive' /\ [Next]_vars => [Store!StoreNext]_<<Contents, Holders>>
  BY StoreStep
<1>3. [Store!StoreNext]_<<Contents, Holders>> <=> [Store!StoreNext]_Store!storevars
  BY DEF Store!storevars, Contents, Holders
<1>4. Store!StoreInit /\ [][Store!StoreNext]_Store!storevars => OneCopy
  BY DEF OneCopy, Store!StoreSpec
<1> QED
  BY <1>1, <1>2, <1>3, <1>4, CacheInvariant, PTL DEF Spec

(***************************************************************************)
(* Memory.                                                                 *)
(***************************************************************************)
PageOrNone == Pages \cup {0}
Image == [dir : PageOrNone, table : [Tables -> PageOrNone], pte : [UserPages -> PageOrNone]]
Sizes == 0 .. KERNBASE

Work == [call : {"none", "fork", "exec", "stack", "sbrk", "shrink", "wait"},
         do : {"idle", "kstack", "dir", "ktables", "page", "map", "load", "args", "dealloc",
               "freemem", "freevm", "freetables", "freestack"},
         on : Images, a : Nat, from : Sizes, to : Sizes, mem : PageOrNone]

TypeOK ==
  /\ freelist \subseteq Pages
  /\ image \in [Images -> Image]
  /\ kstack \in [PSlots -> PageOrNone] /\ sz \in [PSlots -> Sizes]
  /\ pstate \in [PSlots -> {"unused", "embryo", "live", "zombie"}]
  /\ work \in [PSlots -> Work]

(* The first n pages are there, and no others. *)
Filled(img, n) == \A b \in UserPages : img.pte[b] # 0 <=> b < n
Empty(img)     == \A b \in UserPages : img.pte[b] = 0

(* No page is mapped where there is no page table. *)
Tabled(img) == \A b \in UserPages : img.table[b \div SPAN] = 0 => img.pte[b] = 0

(* What each call does, ... *)
Steps(call) ==
  CASE call = "fork"   -> {"kstack", "dir", "ktables", "page", "map", "freemem",
                           "freevm", "freetables", "freestack"}
    [] call = "exec"   -> {"dir", "ktables", "load", "page", "map", "dealloc", "freemem",
                           "freevm", "freetables"}
    [] call = "stack"  -> {"page", "map", "args", "dealloc", "freemem", "freevm", "freetables"}
    [] call = "sbrk"   -> {"page", "map", "dealloc", "freemem"}
    [] call = "shrink" -> {"dealloc"}
    [] call = "wait"   -> {"freestack", "freevm", "freetables"}
    [] OTHER -> {}

(* ... on which image, whose owner is in which state, ... *)
Subject(p) ==
  LET w == work[p]
      q == w.on[1]
      own == w.on = <<q, "own">>
  IN CASE w.call = "fork" -> own /\ pstate[q] = "embryo" /\ (w.do = "kstack" <=> kstack[q] = 0)
       [] w.call = "wait" -> own /\ pstate[q] = "zombie" /\ (w.do = "freestack" <=> kstack[q] # 0)
       [] w.call \in {"exec", "stack"} -> w.on = <<p, "fresh">>
       [] OTHER -> w.on = <<p, "own">> /\ (w.call = "sbrk" => w.from = sz[p])

(* ... and how far the image has been built, or taken down. *)
Progress(w, img) ==
  CASE w.do \in {"kstack", "dir"} -> img = NoImage /\ w.from = 0
    [] w.do = "ktables" -> Filled(img, 0) /\ w.from = 0
    [] w.do = "page" -> /\ Filled(img, w.a)
                        /\ PageUp(w.from) <= w.a /\ w.a <= PageUp(w.to)
    [] w.do = "map"  -> /\ Filled(img, w.a)
                        /\ PageUp(w.from) <= w.a /\ w.a < PageUp(w.to)
    [] w.do = "load" -> Filled(img, PageUp(w.from))
    [] w.do = "args" -> Filled(img, PageUp(w.to))
    [] w.do = "dealloc" ->
         /\ PageUp(w.from) <= w.a
         /\ \A b \in UserPages : /\ b < PageUp(w.from) => img.pte[b] # 0
                                 /\ PageUp(w.from) <= b /\ b < w.a => img.pte[b] = 0
                                 /\ PageUp(w.to) <= b => img.pte[b] = 0
    [] w.do = "freemem" -> w.call = "sbrk" => Filled(img, PageUp(w.from))
    [] w.do = "freevm" -> w.to = KERNBASE /\ \A b \in UserPages : b < w.a => img.pte[b] = 0
    [] w.do = "freetables" -> Empty(img)
    [] w.do = "freestack" -> w.call = "fork" => img = NoImage

Fits(w, img) ==
  /\ w.do \in Steps(w.call) /\ Progress(w, img)
  /\ w.do \notin {"kstack", "dir", "freestack"} \/ w.call = "wait" => img.dir # 0
  /\ w.do \notin {"map", "freemem", "dealloc"} \/ w.call = "shrink" => w.mem = 0
  /\ w.do \in {"map", "freemem"} => w.mem # 0

Busy(p) == Subject(p) /\ Fits(work[p], image[work[p].on])

(* Processes that are not live do nothing, and there is a second image     *)
(* only during exec().                                                     *)
Works(p) ==
  /\ IF work[p].do = "idle" THEN work[p] = NoWork ELSE pstate[p] = "live" /\ Busy(p)
  /\ work[p].call \notin {"exec", "stack"} => image[<<p, "fresh">>] = NoImage

(* No two calls work on one image. *)
Apart == \A p, q \in PSlots :
  p # q /\ work[p].do # "idle" /\ work[q].do # "idle" => work[p].on # work[q].on

(* What a process has, unless another one is about to give it or take it.  *)
Slot(q) ==
  LET own == image[<<q, "own">>] IN
  /\ pstate[q] = "unused" => kstack[q] = 0 /\ own = NoImage
  /\ pstate[q] = "live" =>
       /\ kstack[q] # 0 /\ own.dir # 0
       /\ work[q].call \in {"sbrk", "shrink"} \/ Filled(own, PageUp(sz[q])) \/ Empty(own)
  /\ pstate[q] = "zombie" =>
       \/ kstack[q] # 0 /\ own.dir # 0
       \/ \E p \in PSlots : work[p].call = "wait" /\ work[p].on = <<q, "own">>

Kept ==
  /\ \A p \in PSlots : Works(p) /\ Slot(p)
  /\ Apart
  /\ \A i \in Images : Tabled(image[i])

(* PagesOwnedOnce without counting: each place has a page of its own.      *)
Owners(at, free) ==
  /\ \A x \in PagePlaces : at[x] # 0 => at[x] \in Pages \ free
  /\ \A x, y \in PagePlaces : at[x] = at[y] /\ at[x] # 0 => x = y
  /\ \A g \in Pages \ free : \E x \in PagePlaces : at[x] = g

At == [x \in PagePlaces |-> PageAt(x)]

Inductive == TypeOK /\ Kept /\ Owners(At, freelist)
-----------------------------------------------------------------------------
(* Sizes and pages. *)

LEMMA Times ==
  ASSUME NEW d \in Nat, NEW m \in Int, NEW n \in Int, m <= n
  PROVE  m * d <= n * d
<1>1. (n - m) * d >= 0
  BY SMT
<1>2. (n - m) * d = n * d - m * d
  BY SMT
<1> QED
  BY <1>1, <1>2

LEMMA PageUpBounds ==
  ASSUME NEW s \in Nat
  PROVE  /\ PageUp(s) \in Nat
         /\ \A n \in Nat : n * PGSIZE < s <=> n < PageUp(s)
<1> DEFINE d == PGSIZE
           q == PageUp(s)
           r == (s + d - 1) % d
<1>1. d \in Nat \ {0}
  BY MemoryAssumption
<1>2. q \in Int /\ r \in 0 .. d - 1 /\ s + d - 1 = q * d + r
  <2> DEFINE t == s + d - 1
  <2>1. t \in Nat
    BY <1>1
  <2> HIDE DEF t
  <2>2. t \div d \in Int /\ t % d \in 0 .. d - 1 /\ t = d * (t \div d) + (t % d)
    BY <1>1, <2>1, SMT
  <2>3. q = t \div d /\ r = t % d
    BY DEF PageUp, t
  <2>4. d * q = q * d
    BY <1>1, <2>2, <2>3
  <2> QED
    BY <2>2, <2>3, <2>4 DEF t
<1> HIDE DEF d, q, r
<1>3. q >= 0
  <2> SUFFICES ASSUME q < 0 PROVE FALSE
    BY <1>2
  <2>1. q * d <= (-1) * d
    BY <1>1, <1>2, Times
  <2> QED
    BY <1>1, <1>2, <2>1
<1>4. ASSUME NEW n \in Nat, n < q PROVE n * d < s
  <2>1. (n + 1) * d <= q * d /\ (n + 1) * d = n * d + d
    BY <1>1, <1>2, <1>4, Times
  <2>2. n * d \in Int /\ q * d \in Int
    BY <1>1, <1>2
  <2> QED
    BY <1>1, <1>2, <2>1, <2>2
<1>5. ASSUME NEW n \in Nat, q <= n PROVE s <= n * d
  <2>1. q * d <= n * d
    BY <1>1, <1>2, <1>5, Times
  <2>2. n * d \in Int /\ q * d \in Int
    BY <1>1, <1>2
  <2> QED
    BY <1>1, <1>2, <2>1, <2>2
<1>6. ASSUME NEW n \in Nat PROVE n * d < s <=> n < q
  <2>1. n * d \in Int
    BY <1>1
  <2> QED
    BY <1>2, <1>4, <1>5, <2>1
<1> QED
  BY <1>2, <1>3, <1>6 DEF d, q

LEMMA WholePages ==
  ASSUME NEW n \in Nat
  PROVE  n * PGSIZE \in Nat /\ PageUp(n * PGSIZE) = n
<1> DEFINE d == PGSIZE
           m == PageUp(n * d)
<1>1. d \in Nat \ {0} /\ n * d \in Nat
  BY MemoryAssumption
<1>2. m \in Nat /\ \A k \in Nat : k * d < n * d <=> k < m
  BY <1>1, PageUpBounds
<1> HIDE DEF d, m
<1>3. ~(n < m)
  BY <1>1, <1>2
<1>4. ~(m < n)
  <2> SUFFICES ASSUME m < n PROVE FALSE
    OBVIOUS
  <2>1. (m + 1) * d <= n * d /\ (m + 1) * d = m * d + d
    BY <1>1, <1>2, Times
  <2>2. m * d < n * d
    BY <1>1, <1>2, <2>1
  <2> QED
    BY <1>2, <2>2
<1> QED
  BY <1>1, <1>2, <1>3, <1>4 DEF d, m

(* All the pages below KERNBASE, and none above. *)
LEMMA SizeBounds ==
  /\ UTABLES * SPAN \in Nat \ {0} /\ KERNBASE \in Nat \ {0} /\ PageUp(KERNBASE) = UTABLES * SPAN
  /\ \A s \in Sizes : PageUp(s) \in 0 .. UTABLES * SPAN
  /\ \A s, t \in Sizes : s <= t => PageUp(s) <= PageUp(t)
  /\ PageUp(0) = 0 /\ \A s \in Sizes : PageUp(s) = 0 => s = 0
<1> DEFINE u == UTABLES * SPAN
<1>1. UTABLES \in Nat \ {0} /\ SPAN \in Nat \ {0} /\ PGSIZE \in Nat \ {0}
  BY MemoryAssumption
<1>2. u \in Nat \ {0}
  BY <1>1, SMT
<1>3. KERNBASE = u * PGSIZE
  BY DEF KERNBASE
<1> HIDE DEF u
<1>4. KERNBASE \in Nat \ {0} /\ PageUp(KERNBASE) = u
  <2>1. KERNBASE # 0
    BY <1>1, <1>2, <1>3, SMT
  <2> QED
    BY <1>2, <1>3, <2>1, WholePages
<1>5. ASSUME NEW s \in Sizes, NEW t \in Sizes, s <= t PROVE PageUp(s) <= PageUp(t)
  <2>1. s \in Nat /\ t \in Nat
    BY <1>4 DEF Sizes
  <2>2. /\ PageUp(s) \in Nat /\ PageUp(t) \in Nat
        /\ \A n \in Nat : n * PGSIZE < s <=> n < PageUp(s)
        /\ \A n \in Nat : n * PGSIZE < t <=> n < PageUp(t)
    BY <2>1, PageUpBounds
  <2> DEFINE m == PageUp(t)
  <2>3. m * PGSIZE \in Nat /\ ~(m < PageUp(t)) /\ m \in Nat
    BY <1>1, <2>2
  <2>4. ~(m * PGSIZE < s)
    BY <1>5, <2>1, <2>2, <2>3
  <2> QED
    BY <2>2, <2>3, <2>4
<1>6. ASSUME NEW s \in Sizes PROVE PageUp(s) \in 0 .. u
  <2>1. s \in Nat /\ KERNBASE \in Sizes /\ s <= KERNBASE
    BY <1>4 DEF Sizes
  <2>2. PageUp(s) \in Nat /\ PageUp(s) <= PageUp(KERNBASE)
    BY <1>5, <2>1, PageUpBounds
  <2> QED
    BY <1>2, <1>4, <2>2
<1>7. PageUp(0) = 0
  BY <1>1, WholePages
<1>8. ASSUME NEW s \in Sizes, PageUp(s) = 0 PROVE s = 0
  <2>1. s \in Nat
    BY <1>4 DEF Sizes
  <2>2. 0 * PGSIZE = 0 /\ (0 * PGSIZE < s <=> 0 < PageUp(s))
    BY <1>1, <2>1, PageUpBounds
  <2> QED
    BY <1>8, <2>1, <2>2
<1> QED
  BY <1>2, <1>4, <1>5, <1>6, <1>7, <1>8 DEF u

LEMMA PageBounds ==
  ASSUME NEW n \in Nat, NEW s \in Sizes
  PROVE  /\ n * PGSIZE < s <=> n < PageUp(s)
         /\ n * PGSIZE >= s <=> n >= PageUp(s)
         /\ n * PGSIZE < s => n \in UserPages
<1>1. s \in Nat
  BY SizeBounds DEF Sizes
<1>2. n * PGSIZE \in Nat /\ PageUp(s) \in 0 .. UTABLES * SPAN /\ UTABLES * SPAN \in Nat
  BY WholePages, SizeBounds
<1>3. n * PGSIZE < s <=> n < PageUp(s)
  BY <1>1, PageUpBounds
<1> QED
  BY <1>1, <1>2, <1>3 DEF UserPages

(* Each page has one page table. *)
LEMMA TableOf ==
  /\ \A n \in UserPages : n \div SPAN \in 0 .. UTABLES - 1 /\ n \div SPAN \in Tables \ KTables
  /\ \A n \in Nat : /\ n \div SPAN \in Nat /\ (n \div SPAN + 1) * SPAN \in Nat
                    /\ n < (n \div SPAN + 1) * SPAN
                    /\ \A b \in Nat : n <= b /\ b < (n \div SPAN + 1) * SPAN =>
                                        b \div SPAN = n \div SPAN
  /\ Tables \subseteq Nat /\ KTables \subseteq Tables /\ UserPages \subseteq Nat
<1>1. UTABLES \in Nat \ {0} /\ SPAN \in Nat \ {0} /\ KTABLES \in Nat \ {0}
  BY MemoryAssumption
<1>2. ASSUME NEW n \in Nat
      PROVE  /\ n \div SPAN \in Nat
             /\ (n \div SPAN) * SPAN <= n /\ n < (n \div SPAN + 1) * SPAN
             /\ (n \div SPAN + 1) * SPAN \in Nat
  <2>1. /\ n \div SPAN \in Int /\ n % SPAN \in 0 .. SPAN - 1
        /\ n = SPAN * (n \div SPAN) + (n % SPAN)
    BY <1>1, SMT
  <2> DEFINE q == n \div SPAN
  <2>2. SPAN * q = q * SPAN /\ (q + 1) * SPAN = q * SPAN + SPAN /\ q * SPAN \in Int
    BY <1>1, <2>1
  <2>3. q >= 0
    <3> HIDE DEF q
    <3> SUFFICES ASSUME q < 0 PROVE FALSE
      BY <2>1 DEF q
    <3>1. q * SPAN <= (-1) * SPAN
      BY <1>1, <2>1, Times DEF q
    <3> QED
      BY <1>1, <2>1, <2>2, <3>1 DEF q
  <2> HIDE DEF q
  <2>4. q \in Nat /\ q * SPAN <= n /\ n < (q + 1) * SPAN /\ (q + 1) * SPAN \in Nat
    BY <1>1, <2>1, <2>2, <2>3 DEF q
  <2> QED
    BY <2>4 DEF q
<1>3. ASSUME NEW n \in Nat, NEW q \in Nat, q * SPAN <= n, n < (q + 1) * SPAN
      PROVE  n \div SPAN = q
  <2> DEFINE m == n \div SPAN
  <2>1. m \in Nat /\ m * SPAN <= n /\ n < (m + 1) * SPAN
    BY <1>2
  <2> HIDE DEF m
  <2>2. ~(m < q)
    <3> SUFFICES ASSUME m < q PROVE FALSE
      OBVIOUS
    <3>1. (m + 1) * SPAN <= q * SPAN
      BY <1>1, <2>1, Times
    <3> QED
      BY <1>1, <1>3, <2>1, <3>1
  <2>3. ~(q < m)
    <3> SUFFICES ASSUME q < m PROVE FALSE
      OBVIOUS
    <3>1. (q + 1) * SPAN <= m * SPAN
      BY <1>1, <2>1, Times
    <3> QED
      BY <1>1, <1>3, <2>1, <3>1
  <2> QED
    BY <2>1, <2>2, <2>3 DEF m
<1>4. ASSUME NEW n \in Nat, NEW b \in Nat, n <= b, b < (n \div SPAN + 1) * SPAN
      PROVE  b \div SPAN = n \div SPAN
  <2> DEFINE q == n \div SPAN
  <2>1. q \in Nat /\ q * SPAN <= n /\ q * SPAN \in Nat
    BY <1>1, <1>2
  <2> HIDE DEF q
  <2>2. q * SPAN <= b /\ b < (q + 1) * SPAN
    BY <1>4, <2>1 DEF q
  <2> QED
    BY <1>3, <2>1, <2>2 DEF q
<1>5. UserPages \subseteq Nat /\ Tables \subseteq Nat /\ KTables \subseteq Tables
  BY <1>1, SizeBounds DEF UserPages, Tables, KTables
<1>6. ASSUME NEW n \in UserPages PROVE n \div SPAN \in 0 .. UTABLES - 1
  <2> DEFINE q == n \div SPAN
  <2>1. n \in Nat /\ n < UTABLES * SPAN /\ q \in Nat /\ q * SPAN <= n /\ UTABLES * SPAN \in Nat
    BY <1>2, <1>5, SizeBounds DEF UserPages
  <2> HIDE DEF q
  <2>2. ~(UTABLES <= q)
    <3> SUFFICES ASSUME UTABLES <= q PROVE FALSE
      OBVIOUS
    <3>1. UTABLES * SPAN <= q * SPAN
      BY <1>1, <2>1, Times
    <3> QED
      BY <1>1, <2>1, <3>1
  <2>3. q \in 0 .. UTABLES - 1
    BY <1>1, <2>1, <2>2
  <2> QED
    BY <2>3 DEF q
<1>7. \A t \in 0 .. UTABLES - 1 : t \in Tables \ KTables
  BY <1>1 DEF Tables, KTables
<1> QED
  BY <1>2, <1>4, <1>5, <1>6, <1>7

LEMMA LeastIn ==
  ASSUME NEW S \in SUBSET Nat, S # {}
  PROVE  Min(S) \in S
<1>1. PICK m \in S : \A k \in S : <<k, m>> \notin OpToRel(<, Nat)
  BY WFMin, NatLessThanWellFounded, Zenon
<1>2. \A k \in S : ~(k < m)
  BY <1>1, Zenon DEF OpToRel
<1>3. \A k \in S : m =< k
  BY <1>2
<1> QED
  BY <1>3 DEF Min
-----------------------------------------------------------------------------
(* Pages that change hands. *)

LEMMA PageNumbers == 0 \notin Pages /\ Pages \subseteq Nat
  BY MemoryAssumption DEF Pages

LEMMA Taken ==
  ASSUME NEW at, DOMAIN at = PagePlaces, NEW free \in SUBSET Pages, Owners(at, free),
         NEW x \in PagePlaces, at[x] = 0, NEW g \in free
  PROVE  Owners([at EXCEPT ![x] = g], free \ {g})
<1> DEFINE new == [at EXCEPT ![x] = g]
<1>1. new[x] = g /\ \A y \in PagePlaces : y # x => new[y] = at[y]
  OBVIOUS
<1>2. \A y \in PagePlaces : at[y] # g
  BY PageNumbers DEF Owners
<1> HIDE DEF new
<1>3. \A y \in PagePlaces : new[y] # 0 => new[y] \in Pages \ (free \ {g})
  BY <1>1 DEF Owners
<1>4. \A y, z \in PagePlaces : new[y] = new[z] /\ new[y] # 0 => y = z
  BY <1>1, <1>2 DEF Owners
<1>5. ASSUME NEW k \in Pages \ (free \ {g}) PROVE \E y \in PagePlaces : new[y] = k
  <2>1. CASE k = g
    BY <1>1, <2>1
  <2>2. CASE k # g
    <3>1. PICK y \in PagePlaces : at[y] = k
      BY <1>5, <2>2 DEF Owners
    <3>2. y # x
      BY <1>5, <3>1, PageNumbers
    <3> QED
      BY <1>1, <3>1, <3>2
  <2> QED
    BY <2>1, <2>2
<1> QED
  BY <1>3, <1>4, <1>5 DEF Owners, new

LEMMA Given ==
  ASSUME NEW at, DOMAIN at = PagePlaces, NEW free \in SUBSET Pages, Owners(at, free),
         NEW x \in PagePlaces, at[x] # 0
  PROVE  Owners([at EXCEPT ![x] = 0], free \cup {at[x]}) /\ at[x] \in Pages
<1> DEFINE new == [at EXCEPT ![x] = 0]
<1>1. new[x] = 0 /\ \A y \in PagePlaces : y # x => new[y] = at[y]
  OBVIOUS
<1> HIDE DEF new
<1>2. \A y \in PagePlaces : new[y] # 0 => new[y] \in Pages \ (free \cup {at[x]})
  BY <1>1 DEF Owners
<1>3. \A y, z \in PagePlaces : new[y] = new[z] /\ new[y] # 0 => y = z
  BY <1>1 DEF Owners
<1>4. \A k \in Pages \ (free \cup {at[x]}) : \E y \in PagePlaces : new[y] = k
  BY <1>1 DEF Owners
<1>5. at[x] \in Pages
  BY DEF Owners
<1> QED
  BY <1>2, <1>3, <1>4, <1>5 DEF Owners, new

LEMMA Moved ==
  ASSUME NEW at, DOMAIN at = PagePlaces, NEW free \in SUBSET Pages, Owners(at, free),
         NEW x \in PagePlaces, NEW y \in PagePlaces, x # y, at[y] = 0
  PROVE  Owners([at EXCEPT ![y] = at[x], ![x] = 0], free)
<1> DEFINE new == [at EXCEPT ![y] = at[x], ![x] = 0]
<1>1. new[y] = at[x] /\ new[x] = 0 /\ \A z \in PagePlaces : z # x /\ z # y => new[z] = at[z]
  OBVIOUS
<1> HIDE DEF new
<1>2. \A z \in PagePlaces : new[z] # 0 => new[z] \in Pages \ free
  BY <1>1 DEF Owners
<1>3. \A z, v \in PagePlaces : new[z] = new[v] /\ new[z] # 0 => z = v
  BY <1>1 DEF Owners
<1>4. ASSUME NEW k \in Pages \ free PROVE \E z \in PagePlaces : new[z] = k
  <2>1. PICK z \in PagePlaces : at[z] = k
    BY <1>4 DEF Owners
  <2>2. z # y
    BY <1>4, <2>1, PageNumbers
  <2> QED
    BY <1>1, <2>1, <2>2
<1> QED
  BY <1>2, <1>3, <1>4 DEF Owners, new

-----------------------------------------------------------------------------
(* The places *)

StackAt(q)    == <<"stack", q, "own", 0>>
SpareAt(p)    == <<"spare", p, "own", 0>>
DirAt(i)      == <<"dir", i[1], i[2], 0>>
TableAt(i, t) == <<"table", i[1], i[2], t>>
PteAt(i, b)   == <<"pte", i[1], i[2], b>>

LEMMA Places ==
  /\ \A p \in PSlots : StackAt(p) \in PagePlaces /\ SpareAt(p) \in PagePlaces
  /\ \A i \in Images : /\ DirAt(i) \in PagePlaces
                       /\ \A t \in Tables : TableAt(i, t) \in PagePlaces
                       /\ \A b \in UserPages : PteAt(i, b) \in PagePlaces
  /\ \A x \in PagePlaces :
       \/ \E p \in PSlots : x = StackAt(p) \/ x = SpareAt(p)
       \/ \E i \in Images : \/ x = DirAt(i) \/ \E t \in Tables : x = TableAt(i, t)
                            \/ \E b \in UserPages : x = PteAt(i, b)
<1>1. \A p \in PSlots : StackAt(p) \in PagePlaces /\ SpareAt(p) \in PagePlaces
  BY DEF StackAt, SpareAt, PagePlaces
<1>2. ASSUME NEW i \in Images
      PROVE  /\ DirAt(i) \in PagePlaces
             /\ \A t \in Tables : TableAt(i, t) \in PagePlaces
             /\ \A b \in UserPages : PteAt(i, b) \in PagePlaces
  BY DEF DirAt, TableAt, PteAt, PagePlaces, Images
<1>3. ASSUME NEW x \in PagePlaces
      PROVE  \/ \E p \in PSlots : x = StackAt(p) \/ x = SpareAt(p)
             \/ \E i \in Images : \/ x = DirAt(i) \/ \E t \in Tables : x = TableAt(i, t)
                                  \/ \E b \in UserPages : x = PteAt(i, b)
  <2>1. CASE x \in {"stack", "spare"} \X PSlots \X {"own"} \X {0}
    <3>1. x[2] \in PSlots /\ (x = StackAt(x[2]) \/ x = SpareAt(x[2]))
      BY <2>1 DEF StackAt, SpareAt
    <3> QED
      BY <3>1
  <2> DEFINE i == <<x[2], x[3]>>
  <2>2. CASE x \in {"dir"} \X PSlots \X {"own", "fresh"} \X {0}
    <3>1. i \in Images /\ x = DirAt(i)
      BY <2>2 DEF DirAt, Images
    <3> QED
      BY <3>1
  <2>3. CASE x \in {"table"} \X PSlots \X {"own", "fresh"} \X Tables
    <3>1. i \in Images /\ x[4] \in Tables /\ x = TableAt(i, x[4])
      BY <2>3 DEF TableAt, Images
    <3> QED
      BY <3>1
  <2>4. CASE x \in {"pte"} \X PSlots \X {"own", "fresh"} \X UserPages
    <3>1. i \in Images /\ x[4] \in UserPages /\ x = PteAt(i, x[4])
      BY <2>4 DEF PteAt, Images
    <3> QED
      BY <3>1
  <2> QED
    BY <2>1, <2>2, <2>3, <2>4 DEF PagePlaces
<1> QED
  BY <1>1, <1>2, <1>3

LEMMA PlacesDiffer ==
  /\ \A p, q : /\ StackAt(p) # SpareAt(q)
               /\ StackAt(p) = StackAt(q) => p = q
               /\ SpareAt(p) = SpareAt(q) => p = q
  /\ \A p : \A i \in Images : /\ StackAt(p) # DirAt(i) /\ SpareAt(p) # DirAt(i)
                              /\ \A t : /\ StackAt(p) # TableAt(i, t) /\ SpareAt(p) # TableAt(i, t)
                                        /\ StackAt(p) # PteAt(i, t) /\ SpareAt(p) # PteAt(i, t)
  /\ \A i, j \in Images : /\ DirAt(i) = DirAt(j) => i = j
                          /\ \A t, b : /\ TableAt(i, t) = TableAt(j, b) => i = j /\ t = b
                                       /\ PteAt(i, t) = PteAt(j, b) => i = j /\ t = b
                                       /\ DirAt(i) # TableAt(j, t) /\ DirAt(i) # PteAt(j, t)
                                       /\ TableAt(i, t) # PteAt(j, b)
<1>1. \A p, q : /\ StackAt(p) # SpareAt(q)
                /\ StackAt(p) = StackAt(q) => p = q
                /\ SpareAt(p) = SpareAt(q) => p = q
  BY DEF StackAt, SpareAt
<1>2. \A p : \A i \in Images : /\ StackAt(p) # DirAt(i) /\ SpareAt(p) # DirAt(i)
                               /\ \A t : /\ StackAt(p) # TableAt(i, t) /\ SpareAt(p) # TableAt(i, t)
                                         /\ StackAt(p) # PteAt(i, t) /\ SpareAt(p) # PteAt(i, t)
  BY DEF StackAt, SpareAt, DirAt, TableAt, PteAt
<1>3. ASSUME NEW i \in Images, NEW j \in Images
      PROVE  /\ DirAt(i) = DirAt(j) => i = j
             /\ \A t, b : /\ TableAt(i, t) = TableAt(j, b) => i = j /\ t = b
                          /\ PteAt(i, t) = PteAt(j, b) => i = j /\ t = b
                          /\ DirAt(i) # TableAt(j, t) /\ DirAt(i) # PteAt(j, t)
                          /\ TableAt(i, t) # PteAt(j, b)
  <2>1. i = <<i[1], i[2]>> /\ j = <<j[1], j[2]>>
    BY DEF Images
  <2> QED
    BY <2>1 DEF DirAt, TableAt, PteAt
<1> QED
  BY <1>1, <1>2, <1>3

Located ==
  /\ DOMAIN At = PagePlaces
  /\ \A p \in PSlots : At[StackAt(p)] = kstack[p] /\ At[SpareAt(p)] = work[p].mem
  /\ \A i \in Images : /\ At[DirAt(i)] = image[i].dir
                       /\ \A t \in Tables : At[TableAt(i, t)] = image[i].table[t]
                       /\ \A b \in UserPages : At[PteAt(i, b)] = image[i].pte[b]

LEMMA PagesAt == Located
<1>1. \A p \in PSlots : At[StackAt(p)] = kstack[p] /\ At[SpareAt(p)] = work[p].mem
  BY Places DEF At, PageAt, StackAt, SpareAt
<1>2. ASSUME NEW i \in Images
      PROVE  /\ At[DirAt(i)] = image[i].dir
             /\ \A t \in Tables : At[TableAt(i, t)] = image[i].table[t]
             /\ \A b \in UserPages : At[PteAt(i, b)] = image[i].pte[b]
  <2>1. i = <<i[1], i[2]>>
    BY DEF Images
  <2>2. At[DirAt(i)] = image[i].dir
    BY <2>1, Places DEF At, PageAt, DirAt
  <2>3. \A t \in Tables : At[TableAt(i, t)] = image[i].table[t]
    BY <2>1, Places DEF At, PageAt, TableAt
  <2>4. \A b \in UserPages : At[PteAt(i, b)] = image[i].pte[b]
    BY <2>1, Places DEF At, PageAt, PteAt
  <2> QED
    BY <2>2, <2>3, <2>4
<1>3. DOMAIN At = PagePlaces
  BY DEF At
<1> QED
  BY <1>1, <1>2, <1>3 DEF Located

LEMMA PagesAtNext == Located'
  BY PagesAt, PTL

(* A step that writes one place. *)
LEMMA OnePlace ==
  ASSUME NEW x \in PagePlaces, NEW g, At'[x] = g,
         \A y \in PagePlaces : y # x => At'[y] = At[y]
  PROVE  At' = [At EXCEPT ![x] = g]
<1>1. At' = [y \in PagePlaces |-> At'[y]]
  BY DEF At
<1>2. [At EXCEPT ![x] = g] = [y \in PagePlaces |-> IF y = x THEN g ELSE At[y]]
  BY PagesAt DEF Located
<1>3. \A y \in PagePlaces : At'[y] = IF y = x THEN g ELSE At[y]
  OBVIOUS
<1> QED
  BY <1>1, <1>2, <1>3

LEMMA SamePlaces ==
  ASSUME kstack' = kstack, image' = image, \A p \in PSlots : work'[p].mem = work[p].mem
  PROVE  At' = At
<1>1. \A x \in PagePlaces : At'[x] = At[x]
  BY Places, PagesAt, PagesAtNext DEF Located
<1>2. At' = [y \in PagePlaces |-> At'[y]] /\ At = [y \in PagePlaces |-> At[y]]
  BY DEF At
<1> QED
  BY <1>1, <1>2

LEMMA StackPlace ==
  ASSUME NEW q \in PSlots, NEW g, kstack'[q] = g, \A r \in PSlots : r # q => kstack'[r] = kstack[r],
         image' = image, \A p \in PSlots : work'[p].mem = work[p].mem
  PROVE  At' = [At EXCEPT ![StackAt(q)] = g]
<1>1. StackAt(q) \in PagePlaces /\ At'[StackAt(q)] = g
  BY Places, PagesAtNext DEF Located
<1>2. ASSUME NEW y \in PagePlaces, y # StackAt(q) PROVE At'[y] = At[y]
  <2>1. CASE \E p \in PSlots : y = StackAt(p) \/ y = SpareAt(p)
    BY <1>2, <2>1, PagesAt, PagesAtNext DEF Located
  <2>2. CASE \E i \in Images : \/ y = DirAt(i) \/ \E t \in Tables : y = TableAt(i, t)
                               \/ \E b \in UserPages : y = PteAt(i, b)
    BY <2>2, PagesAt, PagesAtNext DEF Located
  <2> QED
    BY <2>1, <2>2, Places
<1> QED
  BY <1>1, <1>2, OnePlace

LEMMA SparePlace ==
  ASSUME NEW p \in PSlots, \A r \in PSlots : r # p => work'[r].mem = work[r].mem,
         kstack' = kstack, image' = image
  PROVE  At' = [At EXCEPT ![SpareAt(p)] = work'[p].mem]
<1>1. SpareAt(p) \in PagePlaces /\ At'[SpareAt(p)] = work'[p].mem
  BY Places, PagesAtNext DEF Located
<1>2. ASSUME NEW y \in PagePlaces, y # SpareAt(p) PROVE At'[y] = At[y]
  <2>1. CASE \E r \in PSlots : y = StackAt(r) \/ y = SpareAt(r)
    BY <1>2, <2>1, PagesAt, PagesAtNext DEF Located
  <2>2. CASE \E i \in Images : \/ y = DirAt(i) \/ \E t \in Tables : y = TableAt(i, t)
                               \/ \E b \in UserPages : y = PteAt(i, b)
    BY <2>2, PagesAt, PagesAtNext DEF Located
  <2> QED
    BY <2>1, <2>2, Places
<1> QED
  BY <1>1, <1>2, OnePlace

(* One word of an image. *)
LEMMA ImagePlace ==
  ASSUME NEW i \in Images, NEW x \in PagePlaces, NEW g, kstack' = kstack,
         \A p \in PSlots : work'[p].mem = work[p].mem,
         \A j \in Images : j # i => image'[j] = image[j],
         \/ x = DirAt(i) /\ image'[i].dir = g
         \/ \E t \in Tables : x = TableAt(i, t) /\ image'[i].table[t] = g
         \/ \E b \in UserPages : x = PteAt(i, b) /\ image'[i].pte[b] = g,
         x # DirAt(i) => image'[i].dir = image[i].dir,
         \A t \in Tables : x # TableAt(i, t) => image'[i].table[t] = image[i].table[t],
         \A b \in UserPages : x # PteAt(i, b) => image'[i].pte[b] = image[i].pte[b]
  PROVE  At' = [At EXCEPT ![x] = g]
<1>1. At'[x] = g
  BY PagesAtNext DEF Located
<1>2. ASSUME NEW y \in PagePlaces, y # x PROVE At'[y] = At[y]
  <2>1. CASE \E p \in PSlots : y = StackAt(p) \/ y = SpareAt(p)
    BY <2>1, PagesAt, PagesAtNext DEF Located
  <2>2. CASE \E j \in Images : \/ y = DirAt(j) \/ \E t \in Tables : y = TableAt(j, t)
                               \/ \E b \in UserPages : y = PteAt(j, b)
    <3>1. PICK j \in Images : \/ y = DirAt(j) \/ \E t \in Tables : y = TableAt(j, t)
                              \/ \E b \in UserPages : y = PteAt(j, b)
      BY <2>2
    <3>2. CASE j # i
      BY <3>1, <3>2, PagesAt, PagesAtNext DEF Located
    <3>3. CASE j = i
      BY <1>2, <3>1, <3>3, PagesAt, PagesAtNext DEF Located
    <3> QED
      BY <3>2, <3>3
  <2> QED
    BY <2>1, <2>2, Places
<1> QED
  BY <1>1, <1>2, OnePlace

-----------------------------------------------------------------------------
(* A step inside a call changes its image and what the call does. *)

LEMMA OnImage ==
  ASSUME TypeOK, NEW p \in PSlots, Works(p), work[p].do # "idle"
  PROVE  /\ work[p] \in Work /\ work[p].on \in Images /\ work[p].on[1] \in PSlots
         /\ pstate[p] = "live" /\ Subject(p) /\ Fits(work[p], image[work[p].on])
         /\ work[p].call \in {"fork", "wait", "exec", "stack", "sbrk", "shrink"}
         /\ \/ /\ work[p].call \in {"fork", "wait"}
               /\ work[p].on = <<work[p].on[1], "own">>
               /\ pstate[work[p].on[1]] = IF work[p].call = "fork" THEN "embryo" ELSE "zombie"
            \/ work[p].call \in {"exec", "stack"} /\ work[p].on = <<p, "fresh">>
            \/ work[p].call \in {"sbrk", "shrink"} /\ work[p].on = <<p, "own">>
<1>1. work[p] \in Work /\ work[p].on \in Images /\ work[p].on[1] \in PSlots
  BY DEF TypeOK, Work, Images
<1>2. pstate[p] = "live" /\ Subject(p) /\ Fits(work[p], image[work[p].on])
  BY DEF Works, Busy
<1>3. work[p].call \in {"fork", "wait", "exec", "stack", "sbrk", "shrink"}
  BY <1>1, <1>2 DEF Fits, Steps, Work
<1>4. \/ /\ work[p].call \in {"fork", "wait"}
         /\ work[p].on = <<work[p].on[1], "own">>
         /\ pstate[work[p].on[1]] = IF work[p].call = "fork" THEN "embryo" ELSE "zombie"
      \/ work[p].call \in {"exec", "stack"} /\ work[p].on = <<p, "fresh">>
      \/ work[p].call \in {"sbrk", "shrink"} /\ work[p].on = <<p, "own">>
  BY <1>2, <1>3 DEF Subject
<1> QED
  BY <1>1, <1>2, <1>3, <1>4

(* What another process does is not disturbed. *)
LEMMA Undisturbed ==
  ASSUME NEW r \in PSlots, Works(r), work'[r] = work[r],
         image'[<<r, "fresh">>] = image[<<r, "fresh">>],
         work[r].do # "idle" => /\ pstate'[r] = pstate[r] /\ sz'[r] = sz[r]
                                /\ image'[work[r].on] = image[work[r].on]
                                /\ kstack'[work[r].on[1]] = kstack[work[r].on[1]]
                                /\ pstate'[work[r].on[1]] = pstate[work[r].on[1]]
  PROVE  Works(r)'
<1>1. CASE work[r].do = "idle"
  BY <1>1 DEF Works
<1>2. CASE work[r].do # "idle"
  <2>1. Subject(r)'
    BY <1>2 DEF Works, Busy, Subject
  <2>2. Busy(r)'
    BY <1>2, <2>1 DEF Works, Busy
  <2> QED
    BY <1>2, <2>2 DEF Works
<1> QED
  BY <1>1, <1>2

LEMMA LocalStep ==
  ASSUME TypeOK, Kept, NEW p \in PSlots, work[p].do # "idle",
         UNCHANGED <<kstack, sz, pstate>>,
         NEW w \in Work, work' = [work EXCEPT ![p] = w], w.on = work[p].on, w.do # "idle",
         w.call = work[p].call \/ (work[p].call = "exec" /\ w.call = "stack"),
         w.call = "fork" => (w.do = "kstack" <=> work[p].do = "kstack"),
         w.call = "wait" => (w.do = "freestack" <=> work[p].do = "freestack"),
         w.call = "sbrk" => w.from = work[p].from,
         NEW img \in Image, image' = [image EXCEPT ![work[p].on] = img],
         Fits(w, img), Tabled(img), freelist' \subseteq Pages
  PROVE  TypeOK' /\ Kept'
<1> DEFINE i == work[p].on
<1>1. /\ i \in Images /\ i[1] \in PSlots /\ pstate[p] = "live" /\ Subject(p)
      /\ work[p].call \in {"fork", "wait", "exec", "stack", "sbrk", "shrink"}
      /\ \/ /\ work[p].call \in {"fork", "wait"} /\ i = <<i[1], "own">>
            /\ pstate[i[1]] = IF work[p].call = "fork" THEN "embryo" ELSE "zombie"
         \/ work[p].call \in {"exec", "stack"} /\ i = <<p, "fresh">>
         \/ work[p].call \in {"sbrk", "shrink"} /\ i = <<p, "own">>
  BY OnImage DEF Kept
<1>2. /\ work'[p] = w /\ \A r \in PSlots : r # p => work'[r] = work[r]
      /\ image'[i] = img /\ \A j \in Images : j # i => image'[j] = image[j]
  BY <1>1 DEF TypeOK
<1>3. TypeOK'
  BY <1>1 DEF TypeOK
<1>4. \A q \in PSlots : <<q, "own">> \in Images /\ <<q, "fresh">> \in Images
  BY DEF Images
<1>5. Works(p)'
  <2>1. Subject(p)'
    BY <1>1, <1>2 DEF Subject
  <2>2. Busy(p)'
    BY <1>2, <2>1 DEF Busy
  <2>3. w.call \notin {"exec", "stack"} => image'[<<p, "fresh">>] = NoImage
    BY <1>1, <1>2, <1>4 DEF Kept, Works
  <2> QED
    BY <1>1, <1>2, <2>2, <2>3 DEF Works
<1>6. ASSUME NEW r \in PSlots, r # p PROVE Works(r)'
  <2>1. work[r].do # "idle" => work[r].on \in Images /\ work[r].on # i
    BY <1>6, OnImage DEF Kept, Apart
  <2>2. <<r, "fresh">> # i
    BY <1>1, <1>6
  <2>3. Works(r)
    BY DEF Kept
  <2>4. image'[<<r, "fresh">>] = image[<<r, "fresh">>]
    BY <1>2, <1>4, <2>2
  <2>5. work[r].do # "idle" => image'[work[r].on] = image[work[r].on]
    BY <1>2, <2>1
  <2> HIDE DEF i
  <2> QED
    BY <1>2, <1>6, <2>3, <2>4, <2>5, Undisturbed
<1>7. ASSUME NEW q \in PSlots PROVE Slot(q)'
  <2>1. Slot(q)
    BY DEF Kept
  <2>2. CASE i = <<q, "own">>
    <3>1. q = i[1]
      BY <2>2
    <3>2. CASE work[p].call = "fork"
      BY <1>1, <3>1, <3>2 DEF Slot
    <3>3. CASE work[p].call = "wait"
      <4>1. pstate[q] = "zombie" /\ w.call = "wait" /\ w.on = <<q, "own">>
        BY <1>1, <2>2, <3>1, <3>3
      <4> QED
        BY <1>2, <4>1 DEF Slot
    <3>4. CASE work[p].call \in {"sbrk", "shrink"}
      <4>1. q = p /\ w.call = work[p].call
        BY <1>1, <3>1, <3>4
      <4>2. img.dir # 0
        BY <3>4, <4>1 DEF Fits, Steps
      <4> QED
        BY <1>1, <1>2, <2>1, <2>2, <3>4, <4>1, <4>2 DEF Slot
    <3> QED
      BY <1>1, <2>2, <3>2, <3>3, <3>4
  <2>3. CASE i # <<q, "own">>
    <3>1. image'[<<q, "own">>] = image[<<q, "own">>]
      BY <1>2, <1>4, <2>3
    <3>2. q = p => work[p].call \notin {"sbrk", "shrink"}
      BY <1>1, <2>3
    <3>3. \A r \in PSlots : work[r].call = "wait" /\ work[r].on = <<q, "own">> =>
                              work'[r].call = "wait" /\ work'[r].on = <<q, "own">>
      BY <1>2, <2>3
    <3> QED
      BY <1>2, <2>1, <3>1, <3>2, <3>3 DEF Slot
  <2> QED
    BY <2>2, <2>3
<1>8. Apart'
  BY <1>2 DEF Kept, Apart
<1>9. \A j \in Images : Tabled(image'[j])
  BY <1>2 DEF Kept
<1> QED
  BY <1>3, <1>5, <1>6, <1>7, <1>8, <1>9 DEF Kept

(* Whose image a call works on. *)
LEMMA Target ==
  ASSUME TypeOK, Kept, NEW q \in PSlots, work[q].do # "idle"
  PROVE  /\ pstate[q] = "live" /\ work[q].on = <<work[q].on[1], work[q].on[2]>>
         /\ work[q].on \in Images /\ work[q].on[1] \in PSlots
         /\ \/ /\ work[q].on[2] = "own" /\ pstate[work[q].on[1]] \in {"embryo", "zombie"}
               /\ pstate[work[q].on[1]] = "zombie" => work[q].call = "wait"
            \/ /\ work[q].on[1] = q
               /\ work[q].on[2] = "own" \/ work[q].on[2] = "fresh"
               /\ work[q].on[2] = "fresh" <=> work[q].call \in {"exec", "stack"}
<1>1. Works(q)
  BY DEF Kept
<1>2. /\ pstate[q] = "live" /\ work[q].on \in Images /\ work[q].on[1] \in PSlots
      /\ \/ /\ work[q].on = <<work[q].on[1], "own">>
            /\ work[q].call \in {"fork", "wait"}
            /\ pstate[work[q].on[1]] = IF work[q].call = "fork" THEN "embryo" ELSE "zombie"
         \/ work[q].call \in {"exec", "stack"} /\ work[q].on = <<q, "fresh">>
         \/ work[q].call \in {"sbrk", "shrink"} /\ work[q].on = <<q, "own">>
  BY <1>1, OnImage
<1> QED
  BY <1>2 DEF Images

(* The owners of the images that two calls work on are different, and none *)
(* is at work on another's.                                                *)
LEMMA TargetsDiffer ==
  ASSUME TypeOK, Kept, NEW p \in PSlots, NEW r \in PSlots, p # r, work[p].do # "idle"
  PROVE  /\ work[r].do # "idle" => /\ work[p].on[1] # work[r].on[1]
                                   /\ work[p].on[1] # r
         /\ work[p].on # <<r, "fresh">>
<1>1. ASSUME NEW q \in PSlots, work[q].do # "idle"
      PROVE  /\ pstate[q] = "live" /\ work[q].on = <<work[q].on[1], work[q].on[2]>>
             /\ \/ work[q].on[2] = "own" /\ pstate[work[q].on[1]] # "live"
                \/ work[q].on[1] = q
  BY <1>1, Target
<1>2. ASSUME work[r].do # "idle"
      PROVE  work[p].on[1] # work[r].on[1] /\ work[p].on[1] # r
  <2>1. work[p].on # work[r].on
    BY <1>2 DEF Kept, Apart
  <2>2. pstate[r] = "live" /\ pstate[p] = "live"
    BY <1>1, <1>2
  <2>3. work[p].on[1] # r
    BY <1>1, <2>2
  <2>4. work[r].on[1] # p
    BY <1>1, <1>2, <2>2
  <2> QED
    BY <1>1, <1>2, <2>1, <2>2, <2>3, <2>4
<1>3. work[p].on # <<r, "fresh">>
  BY <1>1
<1> QED
  BY <1>2, <1>3

(* The last step of a call. *)
LEMMA EndStep ==
  ASSUME TypeOK, Kept, TypeOK', NEW p \in PSlots, work[p].do # "idle",
         work' = [work EXCEPT ![p] = NoWork],
         \A j \in Images : j # work[p].on => image'[j] = image[j],
         \A s \in PSlots : s # work[p].on[1] => /\ kstack'[s] = kstack[s]
                                                /\ pstate'[s] = pstate[s] /\ sz'[s] = sz[s],
         work[p].call \in {"exec", "stack"} => image'[work[p].on] = NoImage,
         Tabled(image'[work[p].on]), NEW q \in PSlots, q = work[p].on[1], Slot(q)'
  PROVE  Kept'
<1> DEFINE i == work[p].on
<1>1. /\ i \in Images /\ i[1] \in PSlots /\ pstate[p] = "live"
      /\ work[p].call \in {"fork", "wait", "exec", "stack", "sbrk", "shrink"}
      /\ \/ /\ work[p].call \in {"fork", "wait"} /\ i = <<i[1], "own">>
            /\ pstate[i[1]] # "live"
         \/ work[p].call \in {"exec", "stack"} /\ i = <<p, "fresh">>
         \/ work[p].call \in {"sbrk", "shrink"} /\ i = <<p, "own">>
  BY OnImage DEF Kept
<1>2. work'[p] = NoWork /\ \A r \in PSlots : r # p => work'[r] = work[r]
  BY DEF TypeOK
<1>3. \A s \in PSlots : <<s, "own">> \in Images /\ <<s, "fresh">> \in Images
  BY DEF Images
<1>4. NoWork.do = "idle" /\ NoWork.call = "none"
  BY DEF NoWork
<1>5. Works(p)'
  <2>1. image'[<<p, "fresh">>] = NoImage
    <3>1. CASE work[p].call \in {"exec", "stack"}
      BY <1>1, <3>1
    <3>2. CASE work[p].call \notin {"exec", "stack"}
      <4>1. <<p, "fresh">> # i
        BY <1>1, <3>2
      <4> QED
        BY <1>3, <3>2, <4>1 DEF Kept, Works
    <3> QED
      BY <3>1, <3>2
  <2> QED
    BY <1>2, <1>4, <2>1 DEF Works
<1>6. ASSUME NEW r \in PSlots, r # p PROVE Works(r)'
  <2>1. image'[<<r, "fresh">>] = image[<<r, "fresh">>]
    BY <1>3, <1>6, TargetsDiffer, ZenonT(60)
  <2>2. Works(r)
    BY DEF Kept
  <2>3. ASSUME work[r].do # "idle"
        PROVE  /\ pstate'[r] = pstate[r] /\ sz'[r] = sz[r]
               /\ image'[work[r].on] = image[work[r].on]
               /\ kstack'[work[r].on[1]] = kstack[work[r].on[1]]
               /\ pstate'[work[r].on[1]] = pstate[work[r].on[1]]
    <3>1. work[r].on \in Images /\ work[r].on[1] \in PSlots /\ work[r].on # i
      BY <1>6, <2>2, <2>3, OnImage DEF Kept, Apart
    <3>2. i[1] # work[r].on[1] /\ i[1] # r
      BY <1>6, <2>3, TargetsDiffer
    <3> QED
      BY <3>1, <3>2
  <2> QED
    BY <1>2, <1>6, <2>1, <2>2, <2>3, Undisturbed
<1>7. ASSUME NEW s \in PSlots, s # i[1] PROVE Slot(s)'
  <2>1. image'[<<s, "own">>] = image[<<s, "own">>]
    <3>1. <<s, "own">>[1] = s
      OBVIOUS
    <3> QED
      BY <1>3, <1>7, <3>1
  <2>2. \A r \in PSlots : work[r].call = "wait" /\ work[r].on = <<s, "own">> =>
                            work'[r].call = "wait" /\ work'[r].on = <<s, "own">>
    BY <1>2, <1>7
  <2>3. work[s].call \in {"sbrk", "shrink"} => work'[s].call \in {"sbrk", "shrink"}
    BY <1>1, <1>2, <1>7
  <2>4. Slot(s) /\ kstack'[s] = kstack[s] /\ pstate'[s] = pstate[s] /\ sz'[s] = sz[s]
    BY <1>7 DEF Kept
  <2> HIDE DEF i
  <2> QED
    BY <2>1, <2>2, <2>3, <2>4 DEF Slot
<1>8. Apart'
  BY <1>2, <1>4 DEF Kept, Apart
<1>9. \A j \in Images : Tabled(image'[j])
  BY DEF Kept
<1>10. ASSUME NEW s \in PSlots PROVE Slot(s)'
  <2>1. CASE s = q
    BY <2>1
  <2>2. CASE s # q
    BY <1>7, <2>2
  <2> QED
    BY <2>1, <2>2
<1>11. \A s \in PSlots : Works(s)'
  BY <1>5, <1>6
<1> QED
  BY <1>8, <1>9, <1>10, <1>11 DEF Kept

(* A step that makes or frees the kernel stack and goes on. *)
LEMMA StackStep ==
  ASSUME TypeOK, Kept, TypeOK', NEW p \in PSlots, work[p].do # "idle",
         work[p].call \in {"fork", "wait"},
         NEW w, work' = [work EXCEPT ![p] = w], w.on = work[p].on, w.call = work[p].call,
         w.do # "idle", UNCHANGED <<image, sz, pstate>>,
         \A s \in PSlots : s # work[p].on[1] => kstack'[s] = kstack[s],
         Works(p)'
  PROVE  Kept'
<1> DEFINE i == work[p].on
<1>1. /\ i \in Images /\ i[1] \in PSlots /\ pstate[p] = "live" /\ i = <<i[1], "own">>
      /\ pstate[i[1]] = IF work[p].call = "fork" THEN "embryo" ELSE "zombie"
  BY OnImage DEF Kept
<1>2. work'[p] = w /\ \A r \in PSlots : r # p => work'[r] = work[r]
  BY DEF TypeOK
<1>3. ASSUME NEW r \in PSlots, r # p PROVE Works(r)'
  <2>1. Works(r)
    BY DEF Kept
  <2>2. work[r].do # "idle" => kstack'[work[r].on[1]] = kstack[work[r].on[1]]
    BY <1>3, <2>1, OnImage, TargetsDiffer
  <2> QED
    BY <1>2, <1>3, <2>1, <2>2, Undisturbed
<1>4. ASSUME NEW s \in PSlots PROVE Slot(s)'
  <2>1. \A r \in PSlots : work[r].call = "wait" /\ work[r].on = <<s, "own">> =>
                            work'[r].call = "wait" /\ work'[r].on = <<s, "own">>
    BY <1>2
  <2>2. Slot(s) /\ (work[s].call \in {"sbrk", "shrink"} => work'[s].call \in {"sbrk", "shrink"})
    BY <1>2 DEF Kept
  <2>3. CASE s = i[1]
    <3>1. CASE work[p].call = "fork"
      BY <1>1, <2>3, <3>1 DEF Slot
    <3>2. CASE work[p].call = "wait"
      BY <1>1, <2>1, <2>3, <3>2 DEF Slot
    <3> QED
      BY <3>1, <3>2
  <2>4. CASE s # i[1]
    BY <2>1, <2>2, <2>4 DEF Slot
  <2> QED
    BY <2>3, <2>4
<1>5. Apart'
  BY <1>2 DEF Kept, Apart
<1> QED
  BY <1>3, <1>4, <1>5 DEF Kept

(* The first step of a call; pages do not move. *)
LEMMA StartStep ==
  ASSUME TypeOK, Kept, TypeOK', NEW p \in PSlots, work[p].do = "idle",
         NEW w, work' = [work EXCEPT ![p] = w],
         UNCHANGED <<image, sz, kstack>>, Works(p)',
         \A r \in PSlots : r # p /\ work[r].do # "idle" =>
           /\ work[r].on # w.on \/ w.do = "idle"
           /\ pstate'[r] = pstate[r] /\ pstate'[work[r].on[1]] = pstate[work[r].on[1]],
         \A s \in PSlots : \/ pstate'[s] = pstate[s] /\ (s = p => w.call \in {"sbrk", "shrink"})
                           \/ pstate'[s] = pstate[s] /\ w.call \notin {"sbrk", "shrink"}
                           \/ Slot(s)'
  PROVE  Kept'
<1>1. work'[p] = w /\ \A r \in PSlots : r # p => work'[r] = work[r]
  BY DEF TypeOK
<1>2. ASSUME NEW r \in PSlots, r # p PROVE Works(r)'
  <2>1. Works(r)
    BY DEF Kept
  <2> QED
    BY <1>1, <1>2, <2>1, Undisturbed
<1>3. ASSUME NEW s \in PSlots, pstate'[s] = pstate[s],
             s = p => work'[p].call \in {"sbrk", "shrink"} \/ work[p].call \notin {"sbrk", "shrink"}
      PROVE  Slot(s)'
  <2>1. work[p].call # "wait"
    BY DEF Kept, Works, NoWork
  <2>2. \A r \in PSlots : work[r].call = "wait" /\ work[r].on = <<s, "own">> =>
                            work'[r].call = "wait" /\ work'[r].on = <<s, "own">>
    BY <1>1, <2>1
  <2>3. Slot(s) /\ (work[s].call \in {"sbrk", "shrink"} => work'[s].call \in {"sbrk", "shrink"})
    BY <1>1, <1>3 DEF Kept, Works, NoWork
  <2> QED
    BY <1>3, <2>2, <2>3 DEF Slot
<1>4. \A s \in PSlots : Slot(s)'
  <2>1. work[p].call \notin {"sbrk", "shrink"}
    BY DEF Kept, Works, NoWork
  <2> QED
    BY <1>1, <1>3, <2>1
<1>5. Apart'
  BY <1>1 DEF Kept, Apart
<1> QED
  BY <1>2, <1>4, <1>5 DEF Kept
-----------------------------------------------------------------------------
(* Pages taken and given back. *)

LEMMA Assembled ==
  ASSUME TypeOK', Kept', Owners(At', freelist')
  PROVE  Inductive'
<1>1. Owners(At, freelist)'
  BY DEF Owners
<1> QED
  BY <1>1 DEF Inductive

LEMMA Allocated ==
  ASSUME TypeOK, NEW g, Kalloc(g)
  PROVE  /\ g \in freelist /\ g \in Pages /\ g # 0 /\ g \in PageOrNone
         /\ freelist' = freelist \ {g} /\ freelist' \subseteq Pages
<1>1. freelist \subseteq Nat /\ freelist # {} /\ freelist \subseteq Pages
  BY PageNumbers DEF TypeOK, Kalloc
<1>2. g \in freelist
  BY <1>1, LeastIn DEF Kalloc
<1> QED
  BY <1>1, <1>2, PageNumbers DEF Kalloc, PageOrNone

LEMMA TakeAt ==
  ASSUME Inductive, NEW g, Kalloc(g), NEW x \in PagePlaces, At[x] = 0, At' = [At EXCEPT ![x] = g]
  PROVE  Owners(At', freelist')
<1>1. g \in freelist /\ freelist' = freelist \ {g} /\ freelist \in SUBSET Pages
  BY Allocated DEF Inductive, TypeOK
<1>2. DOMAIN At = PagePlaces /\ Owners(At, freelist)
  BY PagesAt DEF Located, Inductive
<1>3. Owners([At EXCEPT ![x] = g], freelist \ {g})
  BY <1>1, <1>2, Taken
<1> QED
  BY <1>1, <1>3

LEMMA GiveAt ==
  ASSUME Inductive, NEW g, Kfree(g), NEW x \in PagePlaces, At[x] = g, g # 0,
         At' = [At EXCEPT ![x] = 0]
  PROVE  freelist' \subseteq Pages /\ Owners(At', freelist')
<1>1. freelist' = freelist \cup {At[x]} /\ freelist \in SUBSET Pages
  BY DEF Kfree, Inductive, TypeOK
<1>2. DOMAIN At = PagePlaces /\ Owners(At, freelist)
  BY PagesAt DEF Located, Inductive
<1>3. Owners([At EXCEPT ![x] = 0], freelist \cup {At[x]}) /\ At[x] \in Pages
  BY <1>1, <1>2, Given
<1> QED
  BY <1>1, <1>3

(* Mapping a page: at is where pages are when the page table is there.     *)
LEMMA MapPlaces ==
  ASSUME NEW p \in PSlots, NEW i \in Images, NEW b \in UserPages, kstack' = kstack,
         work'[p].mem = 0, \A r \in PSlots : r # p => work'[r].mem = work[r].mem,
         \A j \in Images : j # i => image'[j] = image[j],
         image'[i].dir = image[i].dir, image'[i].pte[b] = work[p].mem,
         \A c \in UserPages : c # b => image'[i].pte[c] = image[i].pte[c],
         NEW at, DOMAIN at = PagePlaces,
         \A r \in PSlots : at[StackAt(r)] = kstack[r] /\ at[SpareAt(r)] = work[r].mem,
         \A j \in Images :
           /\ at[DirAt(j)] = image[j].dir
           /\ \A t \in Tables : at[TableAt(j, t)] = image'[j].table[t]
           /\ \A c \in UserPages : at[PteAt(j, c)] = image[j].pte[c]
  PROVE  At' = [at EXCEPT ![PteAt(i, b)] = at[SpareAt(p)], ![SpareAt(p)] = 0]
<1> DEFINE new == [at EXCEPT ![PteAt(i, b)] = at[SpareAt(p)], ![SpareAt(p)] = 0]
           x == SpareAt(p)
           y == PteAt(i, b)
<1>0. x \in PagePlaces /\ y \in PagePlaces /\ x # y
  BY Places, PlacesDiffer
<1>1. DOMAIN new = PagePlaces /\ new = [z \in PagePlaces |-> new[z]]
  OBVIOUS
<1>2. new[x] = 0 /\ new[y] = work[p].mem /\ \A z \in PagePlaces : z # x /\ z # y => new[z] = at[z]
  BY <1>0
<1>3. At'[x] = 0 /\ At'[y] = work[p].mem
  BY PagesAtNext DEF Located
<1> HIDE DEF new
<1>4. ASSUME NEW z \in PagePlaces, z # x, z # y PROVE At'[z] = at[z]
  <2>1. CASE \E r \in PSlots : z = StackAt(r) \/ z = SpareAt(r)
    <3>1. PICK r \in PSlots : z = StackAt(r) \/ z = SpareAt(r)
      BY <2>1
    <3>2. z = SpareAt(r) => r # p
      BY <1>4
    <3> HIDE DEF x, y
    <3> QED
      BY <3>1, <3>2, PagesAtNext DEF Located
  <2>2. CASE \E j \in Images : \/ z = DirAt(j) \/ \E t \in Tables : z = TableAt(j, t)
                               \/ \E c \in UserPages : z = PteAt(j, c)
    <3>1. PICK j \in Images : \/ z = DirAt(j) \/ \E t \in Tables : z = TableAt(j, t)
                              \/ \E c \in UserPages : z = PteAt(j, c)
      BY <2>2
    <3>2. CASE z = DirAt(j) \/ \E t \in Tables : z = TableAt(j, t)
      <4>1. image'[j].dir = image[j].dir
        OBVIOUS
      <4> QED
        BY <3>2, <4>1, PagesAtNext DEF Located
    <3>3. CASE \E c \in UserPages : z = PteAt(j, c)
      <4>1. PICK c \in UserPages : z = PteAt(j, c)
        BY <3>3
      <4>2. j # i \/ c # b
        BY <1>4, <4>1
      <4>3. image'[j].pte[c] = image[j].pte[c]
        BY <4>2
      <4> QED
        BY <4>1, <4>3, PagesAtNext DEF Located
    <3> QED
      BY <3>1, <3>2, <3>3
  <2> QED
    BY <2>1, <2>2, Places
<1>5. At' = [z \in PagePlaces |-> At'[z]]
  BY DEF At
<1>6. \A z \in PagePlaces : At'[z] = new[z]
  BY <1>2, <1>3, <1>4
<1> QED
  BY <1>1, <1>5, <1>6 DEF new

-----------------------------------------------------------------------------
(* What the code calls next. *)

LEMMA DiscardFits ==
  ASSUME NEW w \in Work, NEW img, w.call \in {"fork", "exec", "stack", "wait"},
         img.dir # 0, w.mem = 0
  PROVE  LET d == Discard(w) IN
         /\ d \in Work /\ d.on = w.on /\ d.call = w.call /\ d.do = "freevm"
         /\ d.mem = 0 /\ d.from = w.from /\ Fits(d, img)
<1> DEFINE d == Discard(w)
<1>1. 0 \in Nat /\ KERNBASE \in Sizes /\ UserPages \subseteq Nat
  BY SizeBounds, TableOf DEF Sizes
<1>2. /\ d \in Work /\ d.on = w.on /\ d.call = w.call /\ d.do = "freevm"
      /\ d.mem = 0 /\ d.from = w.from /\ d.to = KERNBASE /\ d.a = 0
  BY <1>1 DEF Work, Discard
<1> HIDE DEF d
<1>3. "freevm" \in Steps(d.call)
  BY <1>2 DEF Steps
<1>4. Progress(d, img)
  BY <1>1, <1>2 DEF Progress
<1>5. Fits(d, img)
  BY <1>2, <1>3, <1>4 DEF Fits
<1> QED
  BY <1>2, <1>5 DEF d

LEMMA ShrinkFits ==
  ASSUME NEW w \in Work, NEW old \in Sizes, NEW img, NEW n \in Nat,
         w.call \in {"exec", "stack", "sbrk", "shrink"}, w.call = "shrink" => w.mem = 0,
         img.dir # 0, Filled(img, n), PageUp(w.from) <= n, n <= PageUp(old)
  PROVE  LET d == Shrink(w, old, w.from) IN
         /\ d \in Work /\ d.on = w.on /\ d.call = w.call /\ d.do = "dealloc"
         /\ d.mem = w.mem /\ d.from = w.from /\ Fits(d, img)
<1> DEFINE d == Shrink(w, old, w.from)
           f == PageUp(w.from)
           u == PageUp(old)
<1>1. f \in Nat /\ u \in Nat /\ UserPages \subseteq Nat
  BY SizeBounds, TableOf DEF Work
<1>2. /\ d \in Work /\ d.on = w.on /\ d.call = w.call /\ d.do = "dealloc"
      /\ d.mem = w.mem /\ d.from = w.from /\ d.to = old /\ d.a = f
  BY <1>1 DEF Work, Shrink
<1>3. "dealloc" \in Steps(d.call)
  BY <1>2 DEF Steps
<1>4. PageUp(d.from) = f /\ PageUp(d.to) = u
  BY <1>2
<1> HIDE DEF d, f, u
<1>5. \A b \in UserPages : /\ b < f => img.pte[b] # 0
                           /\ f <= b /\ b < f => img.pte[b] = 0
                           /\ u <= b => img.pte[b] = 0
  BY <1>1 DEF Filled, f, u
<1>6. Progress(d, img)
  BY <1>1, <1>2, <1>4, <1>5 DEF Progress
<1>7. Fits(d, img)
  BY <1>2, <1>3, <1>6 DEF Fits
<1> QED
  BY <1>2, <1>7 DEF d

LEMMA GrowFits ==
  ASSUME NEW w \in Work, NEW old \in Sizes, NEW new \in Sizes, NEW img,
         w.call \in {"fork", "exec", "stack", "sbrk"}, w.mem = 0,
         img.dir # 0, Filled(img, PageUp(old)), old <= new
  PROVE  LET d == Grow(w, old, new) IN
         /\ d \in Work /\ d.on = w.on /\ d.call = w.call /\ d.do = "page"
         /\ d.mem = 0 /\ d.from = old /\ Fits(d, img)
<1> DEFINE d == Grow(w, old, new)
<1>1. PageUp(old) \in Nat /\ PageUp(new) \in Nat /\ PageUp(old) <= PageUp(new)
  BY SizeBounds
<1>2. /\ d \in Work /\ d.on = w.on /\ d.call = w.call /\ d.do = "page"
      /\ d.mem = 0 /\ d.from = old /\ d.to = new /\ d.a = PageUp(old)
  BY <1>1 DEF Work, Grow
<1> HIDE DEF d
<1>3. "page" \in Steps(d.call)
  BY <1>2 DEF Steps
<1>4. Progress(d, img)
  BY <1>1, <1>2 DEF Progress
<1>5. Fits(d, img)
  BY <1>2, <1>3, <1>4 DEF Fits
<1> QED
  BY <1>2, <1>5 DEF d

-----------------------------------------------------------------------------
(* The actions *)

(* What is known of a process inside a call. *)
LEMMA Inside ==
  ASSUME Inductive, NEW p \in PSlots, work[p].do # "idle"
  PROVE  LET w == work[p]
             img == image[w.on]
         IN /\ w \in Work /\ w.on \in Images /\ w.on[1] \in PSlots /\ img \in Image
            /\ w.a \in Nat /\ w.from \in Sizes /\ w.to \in Sizes /\ w.mem \in PageOrNone
            /\ PageUp(w.from) \in 0 .. UTABLES * SPAN /\ PageUp(w.to) \in 0 .. UTABLES * SPAN
            /\ pstate[p] = "live" /\ Subject(p) /\ Works(p) /\ Fits(w, img) /\ Tabled(img)
            /\ w.call \in {"fork", "wait", "exec", "stack", "sbrk", "shrink"}
<1>1. TypeOK /\ Kept /\ Works(p)
  BY DEF Inductive, Kept
<1>2. work[p] \in Work /\ work[p].on \in Images /\ work[p].on[1] \in PSlots
  BY <1>1, OnImage
<1>3. image[work[p].on] \in Image
  BY <1>1, <1>2 DEF TypeOK
<1>4. /\ work[p].a \in Nat /\ work[p].from \in Sizes /\ work[p].to \in Sizes
      /\ work[p].mem \in PageOrNone
  BY <1>2 DEF Work
<1>5. PageUp(work[p].from) \in 0 .. UTABLES * SPAN /\ PageUp(work[p].to) \in 0 .. UTABLES * SPAN
  BY <1>4, SizeBounds
<1>6. /\ pstate[p] = "live" /\ Subject(p) /\ Fits(work[p], image[work[p].on])
      /\ work[p].call \in {"fork", "wait", "exec", "stack", "sbrk", "shrink"}
  BY <1>1, OnImage
<1>7. Tabled(image[work[p].on])
  BY <1>1, <1>2 DEF Kept
<1> QED
  BY <1>1, <1>2, <1>3, <1>4, <1>5, <1>6, <1>7

(* A step that moves no page. *)
LEMMA QuietStep ==
  ASSUME Inductive, NEW p \in PSlots, work[p].do # "idle",
         UNCHANGED <<freelist, image, kstack, sz, pstate>>,
         NEW w \in Work, Continue(p, w), w.on = work[p].on, w.do # "idle", w.mem = work[p].mem,
         w.call = work[p].call \/ (work[p].call = "exec" /\ w.call = "stack"),
         w.call = "fork" => (w.do = "kstack" <=> work[p].do = "kstack"),
         w.call = "wait" => (w.do = "freestack" <=> work[p].do = "freestack"),
         w.call = "sbrk" => w.from = work[p].from,
         Fits(w, image[work[p].on])
  PROVE  Inductive'
<1> DEFINE img == image[work[p].on]
<1>1. TypeOK /\ Kept /\ Owners(At, freelist)
  BY DEF Inductive
<1>2. img \in Image /\ Tabled(img) /\ work[p].on \in Images
  BY Inside
<1>3. image' = [image EXCEPT ![work[p].on] = img] /\ freelist' \subseteq Pages
  BY <1>1, <1>2 DEF TypeOK
<1>4. work' = [work EXCEPT ![p] = w]
  BY DEF Continue
<1>5. TypeOK' /\ Kept'
  BY <1>1, <1>2, <1>3, <1>4, LocalStep
<1>6. At' = At
  <2>1. \A r \in PSlots : work'[r].mem = work[r].mem
    BY <1>1, <1>4 DEF TypeOK
  <2> QED
    BY <2>1, SamePlaces
<1> QED
  BY <1>1, <1>5, <1>6, Assembled

(* Steps that move no page. *)
LEMMA NoKTableStep ==
  ASSUME Inductive, NEW p \in PSlots, NoKTable(p)
  PROVE  Inductive'
<1> DEFINE w == work[p]
           d == Discard(w)
<1>1. w.do = "ktables" /\ Continue(p, d) /\ UNCHANGED <<freelist, image, kstack, sz, pstate>>
  BY DEF NoKTable, Doing
<1>2. w \in Work /\ Fits(w, image[w.on])
  BY <1>1, Inside
<1>3. w.call \in {"fork", "exec"} /\ image[w.on].dir # 0 /\ w.mem = 0
  BY <1>1, <1>2 DEF Fits, Steps
<1>4. /\ d \in Work /\ d.on = w.on /\ d.call = w.call /\ d.do = "freevm" /\ d.mem = w.mem
      /\ Fits(d, image[w.on])
  BY <1>2, <1>3, DiscardFits
<1> HIDE DEF d
<1> QED
  BY <1>1, <1>3, <1>4, QuietStep

LEMMA BuiltStep ==
  ASSUME Inductive, NEW p \in PSlots, Built(p)
  PROVE  Inductive'
<1> DEFINE w == work[p]
           img == image[w.on]
<1>1. w.do = "ktables" /\ UNCHANGED <<freelist, image, kstack, sz, pstate>>
  BY DEF Built, Doing
<1>2. w \in Work /\ Fits(w, img)
  BY <1>1, Inside
<1>3. /\ w.call \in {"fork", "exec"} /\ img.dir # 0 /\ w.mem = 0
      /\ Filled(img, 0) /\ w.from = 0 /\ PageUp(0) = 0
  BY <1>1, <1>2, SizeBounds DEF Fits, Steps, Progress
<1>4. CASE w.call = "fork"
  <2> DEFINE d == Grow(w, 0, sz[p])
  <2>1. Continue(p, d)
    BY <1>4 DEF Built
  <2>2. 0 \in Sizes /\ sz[p] \in Sizes /\ 0 <= sz[p]
    BY SizeBounds DEF Inductive, TypeOK, Sizes
  <2>3. /\ d \in Work /\ d.on = w.on /\ d.call = w.call /\ d.do = "page" /\ d.mem = 0
        /\ Fits(d, img)
    BY <1>2, <1>3, <2>2, GrowFits
  <2> HIDE DEF d
  <2> QED
    BY <1>1, <1>3, <1>4, <2>1, <2>3, QuietStep
<1>5. CASE w.call # "fork"
  <2> DEFINE d == [w EXCEPT !.do = "load"]
  <2>1. Continue(p, d) /\ w.call = "exec"
    BY <1>3, <1>5 DEF Built
  <2>2. d \in Work /\ d.on = w.on /\ d.call = "exec" /\ d.do = "load" /\ d.mem = 0 /\ d.from = 0
    BY <1>2, <1>3, <2>1 DEF Work
  <2> HIDE DEF d
  <2>3. Fits(d, img)
    BY <1>3, <2>2 DEF Fits, Steps, Progress
  <2> QED
    BY <1>1, <1>3, <2>1, <2>2, <2>3, QuietStep
<1> QED
  BY <1>4, <1>5

(* allocuvm() and copyuvm() have no page, or no table for it. *)
LEMMA GiveBackFits ==
  ASSUME Inductive, NEW p \in PSlots, work[p].do \in {"page", "map"},
         work[p].call # "fork" \/ work[p].do = "page"
  PROVE  LET w == work[p]
             d == GiveBack(w)
         IN /\ d \in Work /\ d.on = w.on /\ d.call = w.call /\ d.do \in {"freevm", "dealloc"}
            /\ d.mem = w.mem /\ d.from = w.from /\ Fits(d, image[w.on])
            /\ w.call \in {"fork", "exec", "stack", "sbrk"}
<1> DEFINE w == work[p]
           img == image[w.on]
<1>1. /\ w \in Work /\ w.a \in Nat /\ w.to \in Sizes /\ Fits(w, img)
      /\ PageUp(w.from) \in Nat /\ PageUp(w.to) \in Nat
  BY Inside
<1>2. w.call \in {"fork", "exec", "stack", "sbrk"} /\ img.dir # 0
  BY <1>1 DEF Fits, Steps
<1>3. Filled(img, w.a) /\ PageUp(w.from) <= w.a /\ w.a <= PageUp(w.to)
  <2>1. Progress(w, img)
    BY <1>1 DEF Fits
  <2>2. CASE w.do = "page"
    BY <2>1, <2>2 DEF Progress
  <2>3. CASE w.do = "map"
    <3>1. Filled(img, w.a) /\ PageUp(w.from) <= w.a /\ w.a < PageUp(w.to)
      BY <2>1, <2>3 DEF Progress
    <3> HIDE DEF w
    <3> QED
      BY <1>1, <3>1
  <2> QED
    BY <2>2, <2>3
<1>4. CASE w.call = "fork"
  <2>1. w.mem = 0
    BY <1>1, <1>4 DEF Fits
  <2> QED
    BY <1>1, <1>2, <1>4, <2>1, DiscardFits DEF GiveBack
<1>5. CASE w.call # "fork"
  BY <1>1, <1>2, <1>3, <1>5, ShrinkFits DEF GiveBack
<1> QED
  BY <1>2, <1>4, <1>5

LEMMA NoPageStep ==
  ASSUME Inductive, NEW p \in PSlots, NoPage(p)
  PROVE  Inductive'
<1> DEFINE w == work[p]
           d == GiveBack(w)
<1>1. w.do = "page" /\ Continue(p, d) /\ UNCHANGED <<freelist, image, kstack, sz, pstate>>
  BY DEF NoPage, Doing
<1>2. /\ d \in Work /\ d.on = w.on /\ d.call = w.call /\ d.do \in {"freevm", "dealloc"}
      /\ d.mem = w.mem /\ d.from = w.from /\ Fits(d, image[w.on])
      /\ w.call \in {"fork", "exec", "stack", "sbrk"}
  BY <1>1, GiveBackFits
<1> HIDE DEF d
<1> QED
  BY <1>1, <1>2, QuietStep

LEMMA NoTableStep ==
  ASSUME Inductive, NEW p \in PSlots, NoTable(p)
  PROVE  Inductive'
<1> DEFINE w == work[p]
           img == image[w.on]
<1>1. w.do = "map" /\ UNCHANGED <<freelist, image, kstack, sz, pstate>>
  BY DEF NoTable, Doing
<1>2. w \in Work /\ Fits(w, img)
  BY <1>1, Inside
<1>3. CASE w.call = "fork"
  <2> DEFINE d == [w EXCEPT !.do = "freemem"]
  <2>1. Continue(p, d)
    BY <1>3 DEF NoTable
  <2>2. d \in Work /\ d.on = w.on /\ d.call = "fork" /\ d.do = "freemem" /\ d.mem = w.mem
    BY <1>2, <1>3 DEF Work
  <2>3. w.mem # 0 /\ img.dir # 0
    BY <1>1, <1>2, <1>3 DEF Fits
  <2> HIDE DEF d
  <2>4. Fits(d, img)
    BY <2>2, <2>3 DEF Fits, Steps, Progress
  <2> QED
    BY <1>1, <1>3, <2>1, <2>2, <2>4, QuietStep
<1>4. CASE w.call # "fork"
  <2> DEFINE d == GiveBack(w)
  <2>1. Continue(p, d)
    BY <1>4 DEF NoTable
  <2>2. /\ d \in Work /\ d.on = w.on /\ d.call = w.call /\ d.do \in {"freevm", "dealloc"}
        /\ d.mem = w.mem /\ d.from = w.from /\ Fits(d, img)
        /\ w.call \in {"fork", "exec", "stack", "sbrk"}
    BY <1>1, <1>4, GiveBackFits
  <2> HIDE DEF d
  <2> QED
    BY <1>1, <1>4, <2>1, <2>2, QuietStep
<1> QED
  BY <1>3, <1>4

(* exec() goes through the file. *)
LEMMA SegmentStep ==
  ASSUME Inductive, NEW p \in PSlots, NEW new \in Requests, Segment(p, new)
  PROVE  Inductive'
<1> DEFINE w == work[p]
           img == image[w.on]
           d == Grow(w, w.from, new)
<1>1. /\ w.do = "load" /\ new > w.from /\ Continue(p, d)
      /\ UNCHANGED <<freelist, image, kstack, sz, pstate>>
  BY DEF Segment, Doing
<1>2. w \in Work /\ Fits(w, img) /\ w.from \in Sizes
  BY <1>1, Inside
<1>3. w.call = "exec" /\ img.dir # 0 /\ w.mem = 0 /\ Filled(img, PageUp(w.from))
  BY <1>1, <1>2 DEF Fits, Steps, Progress
<1>4. new \in Sizes /\ w.from <= new
  <2>1. Requests \subseteq 0 .. KERNBASE - 1 /\ KERNBASE \in Nat
    BY MemoryAssumption, SizeBounds DEF KERNBASE
  <2> QED
    BY <1>1, <1>2, <2>1 DEF Sizes
<1>5. /\ d \in Work /\ d.on = w.on /\ d.call = w.call /\ d.do = "page" /\ d.mem = w.mem
      /\ Fits(d, img)
  BY <1>2, <1>3, <1>4, GrowFits
<1> HIDE DEF d
<1> QED
  BY <1>1, <1>3, <1>5, QuietStep

LEMMA UserStackStep ==
  ASSUME Inductive, NEW p \in PSlots, UserStack(p)
  PROVE  Inductive'
<1> DEFINE v == work[p]
           img == image[v.on]
           n == PageUp(v.from)
           top == n * PGSIZE
           w == [v EXCEPT !.call = "stack"]
           new == top + 2 * PGSIZE
           d == Grow(w, top, new)
<1>1. /\ v.do = "load" /\ new < KERNBASE /\ Continue(p, d)
      /\ UNCHANGED <<freelist, image, kstack, sz, pstate>>
  BY DEF UserStack, Doing
<1>2. v \in Work /\ Fits(v, img) /\ v.from \in Sizes /\ n \in Nat
  BY <1>1, Inside
<1>3. v.call = "exec" /\ img.dir # 0 /\ v.mem = 0 /\ Filled(img, n)
  BY <1>1, <1>2 DEF Fits, Steps, Progress
<1>4. w \in Work /\ w.call = "stack" /\ w.on = v.on /\ w.mem = 0
  BY <1>2, <1>3 DEF Work
<1> HIDE DEF n
<1>5. top \in Nat /\ PageUp(top) = n
  BY <1>2, WholePages
<1> HIDE DEF top, w
<1>6. top \in Sizes /\ new \in Sizes /\ top <= new
  <2>1. PGSIZE \in Nat /\ KERNBASE \in Nat
    BY MemoryAssumption, SizeBounds
  <2> QED
    BY <1>1, <1>5, <2>1 DEF Sizes
<1> HIDE DEF new
<1>7. /\ d \in Work /\ d.on = w.on /\ d.call = w.call /\ d.do = "page" /\ d.mem = 0
      /\ Fits(d, img)
  BY <1>3, <1>4, <1>5, <1>6, GrowFits
<1> HIDE DEF d
<1> QED
  BY <1>1, <1>3, <1>4, <1>7, QuietStep

LEMMA BadStep ==
  ASSUME Inductive, NEW p \in PSlots, Bad(p)
  PROVE  Inductive'
<1> DEFINE w == work[p]
           d == Discard(w)
<1>1. w.do \in {"load", "args"} /\ Continue(p, d) /\ UNCHANGED <<freelist, image, kstack, sz, pstate>>
  BY DEF Bad, Doing
<1>2. w \in Work /\ Fits(w, image[w.on])
  BY <1>1, Inside
<1>3. w.call \in {"exec", "stack"} /\ image[w.on].dir # 0 /\ w.mem = 0
  BY <1>1, <1>2 DEF Fits, Steps
<1>4. /\ d \in Work /\ d.on = w.on /\ d.call = w.call /\ d.do = "freevm" /\ d.mem = w.mem
      /\ Fits(d, image[w.on])
  BY <1>2, <1>3, DiscardFits
<1> HIDE DEF d
<1> QED
  BY <1>1, <1>3, <1>4, QuietStep

(* The end of a call that leaves the pages where they are. *)
LEMMA NoWorkIsWork ==
  NoWork \in Work /\ NoWork.do = "idle" /\ NoWork.call = "none" /\ NoWork.mem = 0
<1>1. <<1, "own">> \in Images /\ 0 \in Sizes
  BY MemoryAssumption, SizeBounds DEF Images, Sizes
<1> QED
  BY <1>1 DEF NoWork, Work, PageOrNone

LEMMA QuietEnd ==
  ASSUME Inductive, NEW p \in PSlots, work[p].do # "idle", work[p].mem = 0,
         UNCHANGED <<freelist, image, kstack>>, Continue(p, NoWork),
         sz' \in [PSlots -> Sizes], pstate' \in [PSlots -> {"unused", "embryo", "live", "zombie"}],
         NEW q \in PSlots, q = work[p].on[1],
         \A s \in PSlots : s # q => pstate'[s] = pstate[s] /\ sz'[s] = sz[s],
         work[p].call \in {"exec", "stack"} => image[work[p].on] = NoImage,
         Slot(q)'
  PROVE  Inductive'
<1>1. TypeOK /\ Kept /\ Owners(At, freelist)
  BY DEF Inductive
<1>2. work' = [work EXCEPT ![p] = NoWork]
  BY DEF Continue
<1>3. TypeOK'
  BY <1>1, <1>2, NoWorkIsWork DEF TypeOK
<1>4. Tabled(image'[work[p].on])
  BY Inside
<1>5. Kept'
  BY <1>1, <1>2, <1>3, <1>4, EndStep
<1>6. At' = At
  <2>1. \A r \in PSlots : work'[r].mem = work[r].mem
    BY <1>1, <1>2, NoWorkIsWork DEF TypeOK
  <2> QED
    BY <2>1, SamePlaces
<1> QED
  BY <1>1, <1>3, <1>5, <1>6, Assembled

LEMMA NoStackStep ==
  ASSUME Inductive, NEW p \in PSlots, NoStack(p)
  PROVE  Inductive'
<1> DEFINE w == work[p]
           img == image[w.on]
<1>0. PICK q \in PSlots : q = w.on[1]
  <2>1. w.do = "kstack"
    BY DEF NoStack, Doing
  <2> QED
    BY <2>1, Inside
<1>1. /\ w.do = "kstack" /\ Continue(p, NoWork) /\ UNCHANGED <<freelist, image, kstack, sz>>
      /\ pstate' = [pstate EXCEPT ![q] = "unused"]
  BY <1>0 DEF NoStack, Doing
<1>2. Fits(w, img) /\ Subject(p)
  BY <1>1, Inside
<1>3. w.call = "fork" /\ img = NoImage /\ w.mem = 0
  BY <1>1, <1>2 DEF Fits, Steps, Progress
<1>4. w.on = <<q, "own">> /\ kstack[q] = 0
  BY <1>0, <1>1, <1>2, <1>3 DEF Subject
<1>5. sz \in [PSlots -> Sizes] /\ pstate \in [PSlots -> {"unused", "embryo", "live", "zombie"}]
  BY DEF Inductive, TypeOK
<1>6. pstate'[q] = "unused" /\ image'[<<q, "own">>] = NoImage /\ kstack'[q] = 0
  BY <1>1, <1>2, <1>3, <1>4, <1>5
<1>7. Slot(q)'
  BY <1>6 DEF Slot
<1> QED
  BY <1>0, <1>1, <1>2, <1>3, <1>5, <1>7, QuietEnd

LEMMA NoDirStep ==
  ASSUME Inductive, NEW p \in PSlots, NoDir(p)
  PROVE  Inductive'
<1> DEFINE w == work[p]
           img == image[w.on]
<1>1. w.do = "dir" /\ UNCHANGED <<freelist, image, kstack, sz, pstate>>
  BY DEF NoDir, Doing
<1>2. w \in Work /\ Fits(w, img) /\ Subject(p) /\ pstate[p] = "live"
  BY <1>1, Inside
<1>3. w.call \in {"fork", "exec"} /\ img = NoImage /\ w.mem = 0
  BY <1>1, <1>2 DEF Fits, Steps, Progress
<1>4. CASE w.call = "fork"
  <2> DEFINE d == [w EXCEPT !.do = "freestack"]
  <2>1. Continue(p, d)
    BY <1>4 DEF NoDir
  <2>2. d \in Work /\ d.on = w.on /\ d.call = "fork" /\ d.do = "freestack" /\ d.mem = 0
    BY <1>2, <1>3, <1>4 DEF Work
  <2> HIDE DEF d
  <2>3. Fits(d, img)
    BY <1>3, <2>2 DEF Fits, Steps, Progress
  <2> QED
    BY <1>1, <1>3, <1>4, <2>1, <2>2, <2>3, QuietStep
<1>5. CASE w.call = "exec"
  <2>1. Continue(p, NoWork)
    BY <1>5 DEF NoDir
  <2>2. w.on = <<p, "fresh">> /\ p = w.on[1]
    BY <1>2, <1>5 DEF Subject
  <2>3. sz \in [PSlots -> Sizes] /\ pstate \in [PSlots -> {"unused", "embryo", "live", "zombie"}]
    BY DEF Inductive, TypeOK
  <2>4. Slot(p)'
    <3>1. Slot(p)
      BY DEF Inductive, Kept
    <3>2. pstate'[p] = "live" /\ w.call \notin {"sbrk", "shrink"}
      BY <1>1, <1>2, <1>5
    <3> QED
      BY <1>1, <3>1, <3>2 DEF Slot
  <2> QED
    BY <1>1, <1>3, <2>1, <2>2, <2>3, <2>4, QuietEnd
<1> QED
  BY <1>3, <1>4, <1>5

(* All pages are there. *)
LEMMA GrownStep ==
  ASSUME Inductive, NEW p \in PSlots, Grown(p)
  PROVE  Inductive'
<1> DEFINE w == work[p]
           img == image[w.on]
           n == PageUp(w.to)
<1>0. PICK q \in PSlots : q = w.on[1]
  <2>1. w.do = "page"
    BY DEF Grown, Doing
  <2> QED
    BY <2>1, Inside
<1>1. w.do = "page" /\ w.a * PGSIZE >= w.to /\ UNCHANGED <<freelist, image, kstack>>
  BY DEF Grown, Doing
<1>2. /\ w \in Work /\ Fits(w, img) /\ Subject(p) /\ pstate[p] = "live"
      /\ w.a \in Nat /\ w.to \in Sizes /\ n \in Nat
  BY <1>1, Inside
<1>3. w.call \in {"fork", "exec", "stack", "sbrk"} /\ img.dir # 0 /\ w.mem = 0
  BY <1>1, <1>2 DEF Fits, Steps
<1>4. Filled(img, n)
  <2>1. w.a >= n
    BY <1>1, <1>2, PageBounds
  <2>2. Filled(img, w.a) /\ w.a <= n
    BY <1>1, <1>2 DEF Fits, Progress
  <2> HIDE DEF n, w
  <2>3. w.a = n
    BY <1>2, <2>1, <2>2
  <2> QED
    BY <2>2, <2>3
<1>5. CASE w.call = "exec"
  <2> DEFINE d == [w EXCEPT !.do = "load", !.from = w.to]
  <2>1. Continue(p, d) /\ UNCHANGED <<sz, pstate>>
    BY <1>5 DEF Grown
  <2>2. d \in Work /\ d.on = w.on /\ d.call = "exec" /\ d.do = "load" /\ d.mem = 0 /\ d.from = w.to
    BY <1>2, <1>3, <1>5 DEF Work
  <2> HIDE DEF d
  <2>3. Fits(d, img)
    BY <1>3, <1>4, <2>2 DEF Fits, Steps, Progress
  <2> QED
    BY <1>1, <1>3, <1>5, <2>1, <2>2, <2>3, QuietStep
<1>6. CASE w.call = "stack"
  <2> DEFINE d == [w EXCEPT !.do = "args"]
  <2>1. Continue(p, d) /\ UNCHANGED <<sz, pstate>>
    BY <1>6 DEF Grown
  <2>2. d \in Work /\ d.on = w.on /\ d.call = "stack" /\ d.do = "args" /\ d.mem = 0 /\ d.to = w.to
    BY <1>2, <1>3, <1>6 DEF Work
  <2> HIDE DEF d
  <2>3. Fits(d, img)
    BY <1>3, <1>4, <2>2 DEF Fits, Steps, Progress
  <2> QED
    BY <1>1, <1>3, <1>6, <2>1, <2>2, <2>3, QuietStep
<1>7. CASE w.call \in {"fork", "sbrk"}
  <2>1. /\ Continue(p, NoWork)
        /\ sz' = [sz EXCEPT ![q] = w.to] /\ pstate' = [pstate EXCEPT ![q] = "live"]
    BY <1>0, <1>7 DEF Grown
  <2>2. sz \in [PSlots -> Sizes] /\ pstate \in [PSlots -> {"unused", "embryo", "live", "zombie"}]
    BY DEF Inductive, TypeOK
  <2>3. sz' \in [PSlots -> Sizes] /\ pstate' \in [PSlots -> {"unused", "embryo", "live", "zombie"}]
    BY <1>2, <2>1, <2>2
  <2>4. \A s \in PSlots : s # q => pstate'[s] = pstate[s] /\ sz'[s] = sz[s]
    BY <2>1, <2>2
  <2>5. w.on = <<q, "own">> /\ kstack[q] # 0
    <3>1. CASE w.call = "fork"
      BY <1>0, <1>1, <1>2, <3>1 DEF Subject
    <3>2. CASE w.call = "sbrk"
      <4>1. w.on = <<p, "own">> /\ q = p
        BY <1>0, <1>2, <3>2 DEF Subject
      <4>2. Slot(p)
        BY DEF Inductive, Kept
      <4> QED
        BY <1>2, <4>1, <4>2 DEF Slot
    <3> QED
      BY <1>7, <3>1, <3>2
  <2>6. /\ pstate'[q] = "live" /\ sz'[q] = w.to /\ kstack'[q] # 0
        /\ image'[<<q, "own">>].dir # 0 /\ Filled(image'[<<q, "own">>], PageUp(w.to))
    BY <1>1, <1>2, <1>3, <1>4, <2>1, <2>2, <2>5
  <2>7. Slot(q)'
    BY <2>6 DEF Slot
  <2> QED
    BY <1>0, <1>1, <1>2, <1>3, <1>7, <2>1, <2>3, <2>4, <2>7, QuietEnd
<1> QED
  BY <1>3, <1>5, <1>6, <1>7

(* The loop of deallocuvm() has ended. *)
LEMMA UnmappedStep ==
  ASSUME Inductive, NEW p \in PSlots, Unmapped(p)
  PROVE  Inductive'
<1> DEFINE w == work[p]
           img == image[w.on]
           f == PageUp(w.from)
           u == PageUp(w.to)
<1>1. /\ w.do \in {"dealloc", "freevm"} /\ w.a * PGSIZE >= w.to
      /\ UNCHANGED <<freelist, image, kstack, pstate>>
  BY DEF Unmapped, Unmapping, Doing
<1>2. /\ w \in Work /\ Fits(w, img) /\ Subject(p) /\ pstate[p] = "live"
      /\ w.a \in Nat /\ w.to \in Sizes /\ w.from \in Sizes /\ f \in Nat /\ u \in Nat
      /\ UserPages \subseteq Nat
  BY <1>1, Inside, TableOf
<1>3. w.a >= u
  BY <1>1, <1>2, PageBounds
<1>4. img.dir # 0 /\ "dealloc" # "freestack"
  BY <1>1, <1>2 DEF Fits
<1>5. CASE w.do = "freevm"
  <2> DEFINE d == [w EXCEPT !.do = "freetables"]
  <2>1. w.call \in {"fork", "exec", "stack", "wait"} /\ w.mem = 0
    BY <1>2, <1>5 DEF Fits, Steps
  <2>2. Continue(p, d) /\ sz' = sz
    BY <1>5, <2>1 DEF Unmapped, Doing
  <2>3. d \in Work /\ d.on = w.on /\ d.call = w.call /\ d.do = "freetables" /\ d.mem = 0
    BY <1>2, <2>1 DEF Work
  <2>4. Empty(img)
    <3>1. w.to = KERNBASE /\ \A b \in UserPages : b < w.a => img.pte[b] = 0
      BY <1>2, <1>5 DEF Fits, Progress
    <3>2. u = UTABLES * SPAN /\ UTABLES * SPAN \in Nat
      BY <3>1, SizeBounds
    <3> HIDE DEF u, w
    <3>3. \A b \in UserPages : b < w.a
      BY <1>2, <1>3, <3>2 DEF UserPages
    <3> QED
      BY <3>1, <3>3 DEF Empty
  <2> HIDE DEF d
  <2>5. Fits(d, img)
    BY <1>4, <2>1, <2>3, <2>4 DEF Fits, Steps, Progress
  <2> QED
    BY <1>1, <1>5, <2>1, <2>2, <2>3, <2>5, QuietStep
<1>6. CASE w.do = "dealloc"
  <2>1. w.call \in {"exec", "stack", "sbrk", "shrink"} /\ (w.call = "shrink" => w.mem = 0)
    BY <1>2, <1>6 DEF Fits, Steps
  <2>2. Filled(img, f)
    <3>1. \A b \in UserPages : /\ b < f => img.pte[b] # 0
                               /\ f <= b /\ b < w.a => img.pte[b] = 0
                               /\ u <= b => img.pte[b] = 0
      BY <1>2, <1>6 DEF Fits, Progress
    <3> HIDE DEF f, u, w, img
    <3> QED
      BY <1>2, <1>3, <3>1 DEF Filled
  <2>3. CASE w.mem # 0
    <3> DEFINE d == [w EXCEPT !.do = "freemem"]
    <3>0. w.call # "shrink" /\ w.do # "freevm"
      BY <1>6, <2>1, <2>3
    <3>1. Continue(p, d) /\ sz' = sz
      BY <1>6, <2>3, <3>0 DEF Unmapped, Doing
    <3>2. /\ d \in Work /\ d.on = w.on /\ d.call = w.call /\ d.do = "freemem"
          /\ d.mem = w.mem /\ d.from = w.from
      BY <1>2, <2>1 DEF Work
    <3> HIDE DEF d
    <3>3. "freemem" \in Steps(d.call)
      BY <2>1, <2>3, <3>2 DEF Steps
    <3>4. Fits(d, img)
      BY <1>4, <2>1, <2>2, <2>3, <3>2, <3>3 DEF Fits, Progress
    <3> QED
      BY <1>1, <1>6, <2>1, <3>1, <3>2, <3>4, QuietStep
  <2>4. CASE w.mem = 0 /\ w.call \in {"exec", "stack"}
    <3> DEFINE d == Discard(w)
    <3>1. Continue(p, d) /\ sz' = sz
      BY <1>6, <2>4 DEF Unmapped, Doing
    <3>2. /\ d \in Work /\ d.on = w.on /\ d.call = w.call /\ d.do = "freevm" /\ d.mem = 0
          /\ Fits(d, img)
      BY <1>2, <1>4, <2>4, DiscardFits
    <3> HIDE DEF d
    <3> QED
      BY <1>1, <1>6, <2>4, <3>1, <3>2, QuietStep
  <2>5. CASE w.mem = 0 /\ w.call \in {"sbrk", "shrink"}
    <3>1. w.on = <<p, "own">> /\ p = w.on[1] /\ (w.call = "sbrk" => w.from = sz[p])
      BY <1>2, <2>5 DEF Subject
    <3>2. /\ Continue(p, NoWork)
          /\ sz' = IF w.call = "shrink" /\ w.from # 0 THEN [sz EXCEPT ![p] = w.from] ELSE sz
      BY <1>6, <2>5 DEF Unmapped, Doing
    <3>3. sz \in [PSlots -> Sizes] /\ pstate \in [PSlots -> {"unused", "embryo", "live", "zombie"}]
      BY DEF Inductive, TypeOK
    <3>4. sz' \in [PSlots -> Sizes] /\ \A s \in PSlots : s # p => sz'[s] = sz[s]
      BY <1>2, <3>2, <3>3
    <3>5. Filled(img, PageUp(sz'[p])) \/ Empty(img)
      <4>1. CASE w.call = "shrink" /\ w.from = 0
        <5>1. f = 0
          BY <4>1, SizeBounds
        <5> HIDE DEF f, img
        <5> QED
          BY <1>2, <2>2, <5>1 DEF Filled, Empty
      <4>2. CASE ~(w.call = "shrink" /\ w.from = 0)
        <5>1. sz'[p] = w.from
          BY <2>5, <3>1, <3>2, <3>3, <4>2
        <5> QED
          BY <2>2, <5>1
      <4> QED
        BY <4>1, <4>2
    <3>6. Slot(p)'
      <4>1. Slot(p) /\ kstack'[p] = kstack[p] /\ pstate'[p] = "live" /\ pstate[p] = "live"
        BY <1>1, <1>2 DEF Inductive, Kept
      <4>2. image'[<<p, "own">>] = img
        BY <1>1, <3>1
      <4> HIDE DEF img
      <4> QED
        BY <1>4, <3>5, <4>1, <4>2 DEF Slot
    <3> QED
      BY <1>1, <1>6, <2>5, <3>1, <3>2, <3>3, <3>4, <3>6, QuietEnd
  <2> QED
    BY <2>1, <2>3, <2>4, <2>5
<1> QED
  BY <1>1, <1>5, <1>6

(* Steps that take a page for the image that the call works on. *)
LEMMA DirStep ==
  ASSUME Inductive, NEW p \in PSlots, NEW g, Dir(p, g)
  PROVE  Inductive'
<1> DEFINE w == work[p]
           i == w.on
           img == image[i]
           new == [img EXCEPT !.dir = g]
           d == [w EXCEPT !.do = "ktables"]
<1>1. /\ w.do = "dir" /\ Kalloc(g) /\ UNCHANGED <<kstack, sz, pstate>>
      /\ image' = [image EXCEPT ![i] = new] /\ work' = [work EXCEPT ![p] = d]
  BY DEF Dir, Doing, On, SetImage, Continue
<1>2. w \in Work /\ i \in Images /\ img \in Image /\ Fits(w, img) /\ Tabled(img)
  BY <1>1, Inside
<1>3. TypeOK /\ Kept
  BY DEF Inductive
<1>4. g \in PageOrNone /\ g # 0 /\ freelist' \subseteq Pages
  BY <1>1, <1>3, Allocated
<1>5. w.call \in {"fork", "exec"} /\ img = NoImage /\ w.mem = 0 /\ w.from = 0
  BY <1>1, <1>2 DEF Fits, Steps, Progress
<1>6. d \in Work /\ d.on = i /\ d.call = w.call /\ d.do = "ktables" /\ d.mem = 0 /\ d.from = 0
  BY <1>2, <1>5 DEF Work
<1>7. new \in Image /\ new.dir = g /\ new.table = img.table /\ new.pte = img.pte
  BY <1>2, <1>4 DEF Image
<1>8. image'[i] = new /\ \A j \in Images : j # i => image'[j] = image[j]
  BY <1>1, <1>2, <1>3 DEF TypeOK
<1>9. \A r \in PSlots : work'[r].mem = work[r].mem
  BY <1>1, <1>3, <1>5, <1>6 DEF TypeOK
<1> HIDE DEF new, d
<1>10. Fits(d, new)
  <2>1. \A b \in UserPages : img.pte[b] = 0
    BY <1>5 DEF NoImage
  <2>2. Filled(new, 0)
    BY <1>7, <2>1, TableOf DEF Filled
  <2> QED
    BY <1>4, <1>5, <1>6, <1>7, <2>2 DEF Fits, Steps, Progress
<1>11. Tabled(new)
  BY <1>2, <1>7 DEF Tabled
<1>12. TypeOK' /\ Kept'
  BY <1>1, <1>2, <1>3, <1>4, <1>5, <1>6, <1>7, <1>10, <1>11, LocalStep
<1>13. At' = [At EXCEPT ![DirAt(i)] = g] /\ DirAt(i) \in PagePlaces /\ At[DirAt(i)] = 0
  <2>1. DirAt(i) \in PagePlaces /\ At[DirAt(i)] = 0
    BY <1>2, <1>5, Places, PagesAt DEF Located, NoImage
  <2> QED
    BY <1>1, <1>2, <1>7, <1>8, <1>9, <2>1, ImagePlace
<1> QED
  BY <1>1, <1>12, <1>13, TakeAt, Assembled

LEMMA KTableStep ==
  ASSUME Inductive, NEW p \in PSlots, NEW g, KTable(p, g)
  PROVE  Inductive'
<1> DEFINE w == work[p]
           i == w.on
           img == image[i]
           t == Min(Missing(img))
           new == [img EXCEPT !.table[t] = g]
<1>1. /\ w.do = "ktables" /\ Kalloc(g) /\ UNCHANGED <<kstack, sz, pstate, work>>
      /\ Missing(img) # {} /\ image' = [image EXCEPT ![i] = new]
  BY DEF KTable, Doing, On, SetImage
<1>2. w \in Work /\ i \in Images /\ img \in Image /\ Fits(w, img) /\ Tabled(img)
  BY <1>1, Inside
<1>3. TypeOK /\ Kept
  BY DEF Inductive
<1>4. g \in PageOrNone /\ g # 0 /\ freelist' \subseteq Pages
  BY <1>1, <1>3, Allocated
<1>5. w.call \in {"fork", "exec"} /\ w.mem = 0 /\ img.dir # 0 /\ Filled(img, 0) /\ w.from = 0
  BY <1>1, <1>2 DEF Fits, Steps, Progress
<1>6. t \in Tables /\ img.table[t] = 0
  <2>1. Missing(img) \in SUBSET Nat /\ KTables \subseteq Tables
    BY TableOf DEF Missing
  <2>2. t \in Missing(img)
    BY <1>1, <2>1, LeastIn
  <2> QED
    BY <2>1, <2>2 DEF Missing
<1> HIDE DEF t
<1>7. /\ new \in Image /\ new.dir = img.dir /\ new.pte = img.pte /\ new.table[t] = g
      /\ \A k \in Tables : k # t => new.table[k] = img.table[k]
  BY <1>2, <1>4, <1>6 DEF Image
<1>8. image'[i] = new /\ \A j \in Images : j # i => image'[j] = image[j]
  BY <1>1, <1>2, <1>3 DEF TypeOK
<1>9. work' = [work EXCEPT ![p] = w] /\ \A r \in PSlots : work'[r].mem = work[r].mem
  BY <1>1, <1>3 DEF TypeOK
<1> HIDE DEF new
<1>10. Fits(w, new)
  BY <1>1, <1>2, <1>5, <1>7 DEF Fits, Progress, Filled
<1>11. Tabled(new)
  BY <1>2, <1>4, <1>7, TableOf DEF Tabled
<1>12. TypeOK' /\ Kept'
  BY <1>1, <1>2, <1>3, <1>4, <1>5, <1>7, <1>9, <1>10, <1>11, LocalStep
<1> DEFINE x == TableAt(i, t)
<1>13. x \in PagePlaces /\ At[x] = 0
  BY <1>2, <1>6, Places, PagesAt DEF Located
<1>14. /\ x # DirAt(i) /\ \A b \in UserPages : x # PteAt(i, b)
       /\ \A k \in Tables : x # TableAt(i, k) => k # t
  BY <1>2, PlacesDiffer
<1>15. At' = [At EXCEPT ![x] = g]
  <2>1. \E k \in Tables : x = TableAt(i, k) /\ image'[i].table[k] = g
    BY <1>6, <1>7, <1>8
  <2>2. /\ image'[i].dir = image[i].dir
        /\ \A b \in UserPages : image'[i].pte[b] = image[i].pte[b]
        /\ \A k \in Tables : x # TableAt(i, k) => image'[i].table[k] = image[i].table[k]
    BY <1>7, <1>8, <1>14
  <2> HIDE DEF x
  <2> QED
    BY <1>1, <1>2, <1>8, <1>9, <1>13, <2>1, <2>2, ImagePlace
<1> HIDE DEF x
<1> QED
  BY <1>1, <1>12, <1>13, <1>15, TakeAt, Assembled

LEMMA PageStep ==
  ASSUME Inductive, NEW p \in PSlots, NEW g, Page(p, g)
  PROVE  Inductive'
<1> DEFINE w == work[p]
           i == w.on
           img == image[i]
           d == [w EXCEPT !.do = "map", !.mem = g]
<1>1. /\ w.do = "page" /\ Kalloc(g) /\ UNCHANGED <<image, kstack, sz, pstate>>
      /\ w.a * PGSIZE < w.to /\ work' = [work EXCEPT ![p] = d]
  BY DEF Page, Doing, Continue
<1>2. /\ w \in Work /\ i \in Images /\ img \in Image /\ Fits(w, img) /\ Tabled(img)
      /\ w.a \in Nat /\ w.to \in Sizes
  BY <1>1, Inside
<1>3. TypeOK /\ Kept
  BY DEF Inductive
<1>4. g \in PageOrNone /\ g # 0 /\ freelist' \subseteq Pages
  BY <1>1, <1>3, Allocated
<1>5. w.call \in {"fork", "exec", "stack", "sbrk"} /\ w.mem = 0 /\ img.dir # 0
  BY <1>1, <1>2 DEF Fits, Steps
<1>6. /\ d \in Work /\ d.on = i /\ d.call = w.call /\ d.do = "map" /\ d.mem = g
      /\ d.from = w.from /\ d.to = w.to /\ d.a = w.a
  BY <1>2, <1>4 DEF Work
<1>7. /\ work'[p] = d /\ \A r \in PSlots : r # p => work'[r].mem = work[r].mem
      /\ image' = [image EXCEPT ![i] = img]
  BY <1>1, <1>2, <1>3 DEF TypeOK
<1> HIDE DEF d
<1>8. Fits(d, img)
  <2>1. Filled(img, w.a) /\ PageUp(w.from) <= w.a
    BY <1>1, <1>2 DEF Fits, Progress
  <2>2. w.a < PageUp(w.to)
    BY <1>1, <1>2, PageBounds
  <2>3. Progress(d, img)
    BY <1>6, <2>1, <2>2 DEF Progress
  <2>4. "map" \in Steps(d.call)
    BY <1>5, <1>6 DEF Steps
  <2> QED
    BY <1>4, <1>5, <1>6, <2>3, <2>4 DEF Fits
<1>9. TypeOK' /\ Kept'
  BY <1>1, <1>2, <1>3, <1>4, <1>5, <1>6, <1>7, <1>8, LocalStep
<1>10. SpareAt(p) \in PagePlaces /\ At[SpareAt(p)] = 0
  BY <1>5, Places, PagesAt DEF Located
<1>11. At' = [At EXCEPT ![SpareAt(p)] = g]
  BY <1>1, <1>6, <1>7, SparePlace
<1> QED
  BY <1>1, <1>9, <1>10, <1>11, TakeAt, Assembled

(* mappages(): the image img has the page table, and so it gets the page.  *)
LEMMA MappedFits ==
  ASSUME Inductive, NEW p \in PSlots, work[p].do = "map",
         NEW v \in Image, NEW i, i = work[p].on,
         v.dir = image[i].dir, v.pte = image[i].pte, v.table[Table(p)] # 0, Tabled(v),
         UNCHANGED <<kstack, sz, pstate>>, Mapped(p, v), freelist' \subseteq Pages
  PROVE  /\ TypeOK' /\ Kept' /\ image[i].pte[work[p].a] = 0 /\ work[p].a \in UserPages
         /\ Table(p) \in Tables
         /\ work'[p].mem = 0 /\ \A r \in PSlots : r # p => work'[r].mem = work[r].mem
         /\ \A j \in Images : j # i => image'[j] = image[j]
         /\ image'[i].dir = image[i].dir /\ image'[i].table = v.table
         /\ image'[i].pte[work[p].a] = work[p].mem
         /\ \A c \in UserPages : c # work[p].a => image'[i].pte[c] = image[i].pte[c]
<1> DEFINE w == work[p]
           b == w.a
           img == image[i]
           new == [v EXCEPT !.pte[b] = w.mem]
           d == [w EXCEPT !.do = "page", !.a = b + 1, !.mem = 0]
<1>1. image' = [image EXCEPT ![i] = new] /\ work' = [work EXCEPT ![p] = d]
  BY DEF Mapped, SetImage, Continue
<1>2. /\ w \in Work /\ i \in Images /\ img \in Image /\ Fits(w, img)
      /\ b \in Nat /\ w.to \in Sizes /\ w.mem \in PageOrNone
      /\ PageUp(w.from) \in Nat /\ PageUp(w.to) \in 0 .. UTABLES * SPAN /\ UTABLES * SPAN \in Nat
  BY Inside, SizeBounds
<1>3. TypeOK /\ Kept
  BY DEF Inductive
<1>4. /\ w.call \in {"fork", "exec", "stack", "sbrk"} /\ w.mem # 0 /\ img.dir # 0
      /\ Filled(img, b) /\ PageUp(w.from) <= b /\ b < PageUp(w.to)
  BY <1>2 DEF Fits, Steps, Progress
<1>5. b \in UserPages /\ Table(p) \in Tables /\ Table(p) = b \div SPAN
  <2>1. b \in UserPages
    <3> HIDE DEF b
    <3> QED
      BY <1>2, <1>4 DEF UserPages
  <2> QED
    BY <2>1, TableOf DEF Table
<1>6. UserPages \subseteq Nat /\ img.pte[b] = 0
  <2>1. UserPages \subseteq Nat
    BY TableOf
  <2> HIDE DEF b, img
  <2> QED
    BY <1>2, <1>4, <1>5, <2>1 DEF Filled
<1>7. /\ d \in Work /\ d.on = i /\ d.call = w.call /\ d.do = "page" /\ d.mem = 0
      /\ d.from = w.from /\ d.to = w.to /\ d.a = b + 1
  <2>1. b + 1 \in Nat /\ 0 \in PageOrNone
    BY <1>2 DEF PageOrNone
  <2> QED
    BY <1>2, <2>1 DEF Work
<1>8. /\ new \in Image /\ new.dir = img.dir /\ new.table = v.table /\ new.pte[b] = w.mem
      /\ \A c \in UserPages : c # b => new.pte[c] = img.pte[c]
  BY <1>2, <1>5 DEF Image
<1>9. /\ work'[p] = d /\ \A r \in PSlots : r # p => work'[r] = work[r]
      /\ image'[i] = new /\ \A j \in Images : j # i => image'[j] = image[j]
  BY <1>1, <1>2, <1>3 DEF TypeOK
<1> HIDE DEF d, new
<1>10. Tabled(new)
  BY <1>5, <1>8 DEF Tabled
<1>11. Fits(d, new)
  <2>1. Filled(new, b + 1)
    <3> HIDE DEF b, w, img
    <3> QED
      BY <1>2, <1>4, <1>6, <1>8 DEF Filled
  <2>2. PageUp(w.from) <= b + 1 /\ b + 1 <= PageUp(w.to)
    <3> HIDE DEF b, w
    <3> QED
      BY <1>2, <1>4
  <2>3. Progress(d, new)
    BY <1>7, <2>1, <2>2 DEF Progress
  <2>4. "page" \in Steps(d.call)
    BY <1>4, <1>7 DEF Steps
  <2> QED
    BY <1>4, <1>7, <1>8, <2>3, <2>4 DEF Fits
<1>12. TypeOK' /\ Kept'
  BY <1>1, <1>2, <1>3, <1>4, <1>7, <1>8, <1>10, <1>11, LocalStep
<1> QED
  BY <1>5, <1>6, <1>7, <1>8, <1>9, <1>12

LEMMA MapStep ==
  ASSUME Inductive, NEW p \in PSlots, Map(p)
  PROVE  Inductive'
<1>1. work[p].do = "map"
  BY DEF Map, Doing
<1>2. PICK i \in Images : i = work[p].on
  BY <1>1, Inside
<1>3. PICK b : b = work[p].a
  OBVIOUS
<1> DEFINE v == image[i]
<1>4. /\ v.table[Table(p)] # 0 /\ Mapped(p, v) /\ freelist' = freelist
      /\ UNCHANGED <<kstack, sz, pstate>>
  BY <1>2 DEF Map, On, Keep, Mapped
<1>5. v \in Image /\ Tabled(v)
  BY <1>1, <1>2, Inside
<1>6. freelist \in SUBSET Pages /\ Owners(At, freelist) /\ DOMAIN At = PagePlaces
  BY PagesAt DEF Inductive, TypeOK, Located
<1>7. /\ TypeOK' /\ Kept' /\ v.pte[b] = 0 /\ b \in UserPages
      /\ work'[p].mem = 0 /\ \A r \in PSlots : r # p => work'[r].mem = work[r].mem
      /\ \A j \in Images : j # i => image'[j] = image[j]
      /\ image'[i].dir = v.dir /\ image'[i].table = v.table /\ image'[i].pte[b] = work[p].mem
      /\ \A c \in UserPages : c # b => image'[i].pte[c] = v.pte[c]
  BY <1>1, <1>2, <1>3, <1>4, <1>5, <1>6, MappedFits
<1> DEFINE x == SpareAt(p)
           y == PteAt(i, b)
<1>8. At' = [At EXCEPT ![y] = At[x], ![x] = 0]
  <2>1. \A j \in Images : \A t \in Tables : At[TableAt(j, t)] = image'[j].table[t]
    BY <1>7, PagesAt DEF Located
  <2> QED
    BY <1>4, <1>6, <1>7, <2>1, PagesAt, MapPlaces DEF Located
<1>9. x \in PagePlaces /\ y \in PagePlaces /\ x # y /\ At[y] = 0
  BY <1>7, Places, PlacesDiffer, PagesAt DEF Located
<1> HIDE DEF x, y
<1>10. Owners(At', freelist')
  BY <1>4, <1>6, <1>8, <1>9, Moved
<1> QED
  BY <1>7, <1>10, Assembled

LEMMA MapNewTableStep ==
  ASSUME Inductive, NEW p \in PSlots, NEW g, MapNewTable(p, g)
  PROVE  Inductive'
<1>1. work[p].do = "map"
  BY DEF MapNewTable, Doing
<1>2. PICK i \in Images : i = work[p].on
  BY <1>1, Inside
<1>3. PICK b : b = work[p].a
  OBVIOUS
<1>0. PICK t : t = Table(p)
  OBVIOUS
<1> DEFINE img == image[i]
           v == [img EXCEPT !.table[t] = g]
<1>4. img.table[t] = 0 /\ Kalloc(g) /\ Mapped(p, v) /\ UNCHANGED <<kstack, sz, pstate>>
  BY <1>0, <1>2 DEF MapNewTable, On, Mapped
<1>5. img \in Image /\ Tabled(img) /\ Fits(work[p], img) /\ work[p].a \in Nat
      /\ PageUp(work[p].to) \in 0 .. UTABLES * SPAN /\ UTABLES * SPAN \in Nat
  BY <1>1, <1>2, Inside, SizeBounds
<1>6. freelist \in SUBSET Pages /\ Owners(At, freelist) /\ DOMAIN At = PagePlaces /\ TypeOK
  BY PagesAt DEF Inductive, TypeOK, Located
<1>7. /\ g \in PageOrNone /\ g # 0 /\ g \in freelist
      /\ freelist' = freelist \ {g} /\ freelist' \subseteq Pages
  BY <1>4, <1>6, Allocated
<1>8. t \in Tables
  <2>1. b < PageUp(work[p].to)
    BY <1>1, <1>3, <1>5 DEF Fits, Progress
  <2>2. b \in UserPages
    BY <1>3, <1>5, <2>1 DEF UserPages
  <2> QED
    BY <1>0, <1>3, <2>2, TableOf DEF Table
<1>9. /\ v \in Image /\ v.dir = img.dir /\ v.pte = img.pte /\ v.table[t] = g
      /\ \A k \in Tables : k # t => v.table[k] = img.table[k]
  BY <1>5, <1>7, <1>8 DEF Image
<1> HIDE DEF v
<1>10. Tabled(v)
  BY <1>5, <1>7, <1>9, TableOf DEF Tabled
<1>11. /\ TypeOK' /\ Kept' /\ img.pte[b] = 0 /\ b \in UserPages
       /\ work'[p].mem = 0 /\ \A r \in PSlots : r # p => work'[r].mem = work[r].mem
       /\ \A j \in Images : j # i => image'[j] = image[j]
       /\ image'[i].dir = img.dir /\ image'[i].table = v.table /\ image'[i].pte[b] = work[p].mem
       /\ \A c \in UserPages : c # b => image'[i].pte[c] = img.pte[c]
  BY <1>0, <1>1, <1>2, <1>3, <1>4, <1>7, <1>9, <1>10, MappedFits
<1> DEFINE x == SpareAt(p)
           y == PteAt(i, b)
           z == TableAt(i, t)
           at == [At EXCEPT ![z] = g]
<1>12. /\ x \in PagePlaces /\ y \in PagePlaces /\ z \in PagePlaces
       /\ x # y /\ x # z /\ y # z /\ At[y] = 0 /\ At[z] = 0
  BY <1>4, <1>8, <1>11, Places, PlacesDiffer, PagesAt DEF Located
<1>13. DOMAIN at = PagePlaces /\ at[z] = g /\ \A k \in PagePlaces : k # z => at[k] = At[k]
  BY <1>6, <1>12
<1>14. Owners(at, freelist')
  BY <1>6, <1>7, <1>12, Taken
<1> HIDE DEF at
<1>15. At' = [at EXCEPT ![y] = at[x], ![x] = 0]
  <2>1. \A r \in PSlots : at[StackAt(r)] = kstack[r] /\ at[SpareAt(r)] = work[r].mem
    BY <1>13, Places, PlacesDiffer, PagesAt DEF Located
  <2>2. ASSUME NEW j \in Images
        PROVE  /\ at[DirAt(j)] = image[j].dir
               /\ \A k \in Tables : at[TableAt(j, k)] = image'[j].table[k]
               /\ \A c \in UserPages : at[PteAt(j, c)] = image[j].pte[c]
    <3>1. /\ at[DirAt(j)] = image[j].dir
          /\ \A c \in UserPages : at[PteAt(j, c)] = image[j].pte[c]
      BY <1>13, Places, PlacesDiffer, PagesAt DEF Located
    <3>2. ASSUME NEW k \in Tables PROVE at[TableAt(j, k)] = image'[j].table[k]
      <4>1. CASE TableAt(j, k) = z
        <5>1. j = i /\ k = t
          BY <4>1, PlacesDiffer
        <5> QED
          BY <1>9, <1>11, <1>13, <5>1
      <4>2. CASE TableAt(j, k) # z
        <5>1. at[TableAt(j, k)] = image[j].table[k]
          BY <1>13, <4>2, Places, PagesAt DEF Located
        <5>2. CASE j = i
          <6>1. k # t
            BY <4>2, <5>2
          <6> QED
            BY <1>9, <1>11, <5>1, <5>2, <6>1
        <5>3. CASE j # i
          BY <1>11, <5>1, <5>3
        <5> QED
          BY <5>2, <5>3
      <4> QED
        BY <4>1, <4>2
    <3> QED
      BY <3>1, <3>2
  <2> QED
    BY <1>4, <1>11, <1>13, <2>1, <2>2, MapPlaces
<1>16. at[y] = 0
  BY <1>12, <1>13
<1> HIDE DEF x, y, z
<1>17. Owners(At', freelist')
  <2>1. freelist' \in SUBSET Pages
    BY <1>7
  <2> QED
    BY <1>12, <1>13, <1>14, <1>15, <1>16, <2>1, Moved
<1> QED
  BY <1>11, <1>17, Assembled

(* Steps that give a page back. *)
LEMMA FreeMemStep ==
  ASSUME Inductive, NEW p \in PSlots, FreeMem(p)
  PROVE  Inductive'
<1> DEFINE w == work[p]
           i == w.on
           img == image[i]
           v == [w EXCEPT !.mem = 0]
           d == Discard(v)
           g == w.mem
<1>1. w.do = "freemem" /\ Kfree(g) /\ UNCHANGED <<image, kstack, sz, pstate>>
  BY DEF FreeMem, Doing
<1>2. /\ w \in Work /\ i \in Images /\ img \in Image /\ Fits(w, img) /\ Tabled(img)
      /\ Subject(p) /\ pstate[p] = "live"
  BY <1>1, Inside
<1>3. TypeOK /\ Kept
  BY DEF Inductive
<1>4. w.call \in {"fork", "exec", "stack", "sbrk"} /\ g # 0 /\ img.dir # 0
  BY <1>1, <1>2 DEF Fits, Steps
<1>5. Continue(p, IF w.call = "sbrk" THEN NoWork ELSE d)
  BY DEF FreeMem
<1>6. v \in Work /\ v.call = w.call /\ v.on = i /\ v.mem = 0
  BY <1>2 DEF Work, PageOrNone
<1>7. ASSUME work'[p].mem = 0, \A r \in PSlots : r # p => work'[r] = work[r]
      PROVE  freelist' \subseteq Pages /\ Owners(At', freelist')
  <2>1. SpareAt(p) \in PagePlaces /\ At[SpareAt(p)] = g
    BY Places, PagesAt DEF Located
  <2>2. At' = [At EXCEPT ![SpareAt(p)] = 0]
    BY <1>1, <1>7, SparePlace
  <2> HIDE DEF g
  <2> QED
    BY <1>1, <1>4, <2>1, <2>2, GiveAt
<1> HIDE DEF v
<1>8. CASE w.call = "sbrk"
  <2>1. work' = [work EXCEPT ![p] = NoWork]
    BY <1>5, <1>8 DEF Continue
  <2>2. work'[p].mem = 0 /\ \A r \in PSlots : r # p => work'[r] = work[r]
    BY <1>3, <2>1, NoWorkIsWork DEF TypeOK
  <2>3. freelist' \subseteq Pages /\ Owners(At', freelist')
    BY <1>7, <2>2
  <2>4. TypeOK'
    BY <1>1, <1>3, <2>1, <2>3, NoWorkIsWork DEF TypeOK
  <2>5. i = <<p, "own">> /\ p = i[1] /\ w.from = sz[p]
    BY <1>2, <1>8 DEF Subject
  <2>6. Filled(img, PageUp(sz[p]))
    BY <1>1, <1>2, <1>8, <2>5 DEF Fits, Progress
  <2>7. Slot(p)'
    <3>1. kstack'[p] # 0 /\ pstate'[p] = "live"
      BY <1>1, <1>2, <1>3 DEF Kept, Slot
    <3>2. image'[<<p, "own">>] = img /\ sz'[p] = sz[p]
      BY <1>1, <2>5
    <3> HIDE DEF img
    <3> QED
      BY <1>4, <2>6, <3>1, <3>2 DEF Slot
  <2>8. Tabled(image'[i])
    BY <1>1, <1>2
  <2>9. Kept'
    BY <1>1, <1>3, <1>8, <2>1, <2>4, <2>5, <2>7, <2>8, EndStep
  <2> QED
    BY <2>3, <2>4, <2>9, Assembled
<1>9. CASE w.call # "sbrk"
  <2>1. /\ d \in Work /\ d.on = i /\ d.call = w.call /\ d.do = "freevm" /\ d.mem = 0
        /\ Fits(d, img)
    BY <1>4, <1>6, <1>9, DiscardFits
  <2>2. work' = [work EXCEPT ![p] = d]
    BY <1>5, <1>9 DEF Continue
  <2> HIDE DEF d
  <2>3. work'[p].mem = 0 /\ \A r \in PSlots : r # p => work'[r] = work[r]
    BY <1>3, <2>1, <2>2 DEF TypeOK
  <2>4. freelist' \subseteq Pages /\ Owners(At', freelist')
    BY <1>7, <2>3
  <2>5. image' = [image EXCEPT ![i] = img]
    BY <1>1, <1>2, <1>3 DEF TypeOK
  <2>6. TypeOK' /\ Kept'
    BY <1>1, <1>2, <1>3, <1>4, <1>9, <2>1, <2>2, <2>4, <2>5, LocalStep
  <2> QED
    BY <2>4, <2>6, Assembled
<1> QED
  BY <1>8, <1>9

(* A page or a page table of the image goes back. *)
LEMMA FreeTableStep ==
  ASSUME Inductive, NEW p \in PSlots, FreeTable(p)
  PROVE  Inductive'
<1>1. work[p].do = "freetables"
  BY DEF FreeTable, Doing
<1>2. PICK i \in Images : i = work[p].on
  BY <1>1, Inside
<1> DEFINE w == work[p]
           img == image[i]
<1>3. PICK t : t = Min(TablesOf(img))
  OBVIOUS
<1>4. PICK g : g = img.table[t]
  OBVIOUS
<1> DEFINE new == [img EXCEPT !.table[t] = 0]
<1>5. /\ TablesOf(img) # {} /\ Kfree(g) /\ image' = [image EXCEPT ![i] = new]
      /\ UNCHANGED <<kstack, sz, pstate, work>>
  BY <1>2, <1>3, <1>4 DEF FreeTable, On, SetImage
<1>6. TypeOK /\ Kept
  BY DEF Inductive
<1>7. w \in Work /\ img \in Image /\ Fits(w, img)
  BY <1>1, <1>2, Inside
<1>8. t \in Tables /\ g # 0
  <2>1. TablesOf(img) \in SUBSET Nat
    BY TableOf DEF TablesOf
  <2>2. t \in TablesOf(img)
    BY <1>3, <1>5, <2>1, LeastIn
  <2> QED
    BY <1>4, <2>2 DEF TablesOf
<1>9. /\ new \in Image /\ new.dir = img.dir /\ new.pte = img.pte /\ new.table[t] = 0
      /\ \A k \in Tables : k # t => new.table[k] = img.table[k]
  BY <1>7, <1>8 DEF Image, PageOrNone
<1>10. image'[i] = new /\ \A j \in Images : j # i => image'[j] = image[j]
  BY <1>5, <1>6 DEF TypeOK
<1>11. work' = [work EXCEPT ![p] = w] /\ \A r \in PSlots : work'[r].mem = work[r].mem
  BY <1>5, <1>6 DEF TypeOK
<1> HIDE DEF new
<1>12. Empty(img)
  BY <1>1, <1>7 DEF Fits, Progress
<1>13. Fits(w, new)
  BY <1>1, <1>7, <1>9, <1>12 DEF Fits, Progress, Empty
<1>14. Tabled(new)
  BY <1>9, <1>12 DEF Tabled, Empty
<1> DEFINE x == TableAt(i, t)
<1>15. x \in PagePlaces /\ At[x] = g
  BY <1>4, <1>8, Places, PagesAt DEF Located
<1>16. /\ x # DirAt(i) /\ \A b \in UserPages : x # PteAt(i, b)
       /\ \A k \in Tables : x # TableAt(i, k) => k # t
  BY PlacesDiffer
<1>17. At' = [At EXCEPT ![x] = 0]
  <2>1. \E k \in Tables : x = TableAt(i, k) /\ image'[i].table[k] = 0
    BY <1>8, <1>9, <1>10
  <2>2. /\ image'[i].dir = image[i].dir
        /\ \A b \in UserPages : image'[i].pte[b] = image[i].pte[b]
        /\ \A k \in Tables : x # TableAt(i, k) => image'[i].table[k] = image[i].table[k]
    BY <1>9, <1>10, <1>16
  <2> HIDE DEF x
  <2> QED
    BY <1>5, <1>10, <1>11, <1>15, <2>1, <2>2, ImagePlace
<1> HIDE DEF x
<1>18. freelist' \subseteq Pages /\ Owners(At', freelist')
  BY <1>5, <1>8, <1>15, <1>17, GiveAt
<1>19. TypeOK' /\ Kept'
  BY <1>1, <1>2, <1>5, <1>6, <1>7, <1>9, <1>11, <1>13, <1>14, <1>18, LocalStep
<1> QED
  BY <1>18, <1>19, Assembled

LEMMA FreeDirStep ==
  ASSUME Inductive, NEW p \in PSlots, FreeDir(p)
  PROVE  Inductive'
<1>1. work[p].do = "freetables"
  BY DEF FreeDir, Doing
<1>2. PICK i \in Images : i = work[p].on
  BY <1>1, Inside
<1>3. PICK q \in PSlots : q = i[1]
  BY <1>1, <1>2, Inside
<1> DEFINE w == work[p]
           img == image[i]
<1>4. PICK g : g = img.dir
  OBVIOUS
<1>5. /\ TablesOf(img) = {} /\ Kfree(g) /\ image' = [image EXCEPT ![i] = NoImage]
      /\ Continue(p, IF w.call = "fork" THEN [w EXCEPT !.do = "freestack"] ELSE NoWork)
      /\ pstate' = IF w.call = "wait" THEN [pstate EXCEPT ![q] = "unused"] ELSE pstate
      /\ UNCHANGED <<kstack, sz>>
  BY <1>2, <1>3, <1>4 DEF FreeDir, On, SetImage
<1>6. TypeOK /\ Kept
  BY DEF Inductive
<1>7. w \in Work /\ img \in Image /\ Fits(w, img) /\ Subject(p) /\ pstate[p] = "live"
  BY <1>1, <1>2, Inside
<1>8. /\ w.call \in {"fork", "exec", "stack", "wait"} /\ w.mem = 0 /\ g # 0 /\ Empty(img)
      /\ \A t \in Tables : img.table[t] = 0
  BY <1>1, <1>4, <1>5, <1>7 DEF Fits, Steps, Progress, TablesOf
<1>9. /\ NoImage \in Image /\ NoImage.dir = 0 /\ \A t \in Tables : NoImage.table[t] = 0
      /\ \A b \in UserPages : NoImage.pte[b] = 0
  BY DEF NoImage, Image, PageOrNone
<1>10. image'[i] = NoImage /\ \A j \in Images : j # i => image'[j] = image[j]
  BY <1>5, <1>6 DEF TypeOK
<1>11. Tabled(NoImage)
  BY <1>9 DEF Tabled
<1>12. ASSUME \A r \in PSlots : work'[r].mem = work[r].mem
       PROVE  freelist' \subseteq Pages /\ Owners(At', freelist')
  <2>1. DirAt(i) \in PagePlaces /\ At[DirAt(i)] = g
    BY <1>4, Places, PagesAt DEF Located
  <2>2. /\ image'[i].dir = 0 /\ \A t \in Tables : image'[i].table[t] = image[i].table[t]
        /\ \A b \in UserPages : image'[i].pte[b] = image[i].pte[b]
    BY <1>8, <1>9, <1>10 DEF Empty
  <2>3. At' = [At EXCEPT ![DirAt(i)] = 0]
    BY <1>5, <1>10, <1>12, <2>1, <2>2, ImagePlace
  <2> QED
    BY <1>5, <1>8, <2>1, <2>3, GiveAt
<1>13. CASE w.call = "fork"
  <2> DEFINE d == [w EXCEPT !.do = "freestack"]
  <2>1. work' = [work EXCEPT ![p] = d] /\ pstate' = pstate
    BY <1>5, <1>13 DEF Continue
  <2>2. d \in Work /\ d.on = i /\ d.call = "fork" /\ d.do = "freestack" /\ d.mem = 0
    BY <1>2, <1>7, <1>8, <1>13 DEF Work
  <2> HIDE DEF d
  <2>3. \A r \in PSlots : work'[r].mem = work[r].mem
    BY <1>6, <1>8, <2>1, <2>2 DEF TypeOK
  <2>4. freelist' \subseteq Pages /\ Owners(At', freelist')
    BY <1>12, <2>3
  <2>5. Fits(d, NoImage)
    BY <2>2 DEF Fits, Steps, Progress
  <2>6. TypeOK' /\ Kept'
    BY <1>1, <1>2, <1>5, <1>6, <1>9, <1>11, <1>13, <2>1, <2>2, <2>4, <2>5, LocalStep
  <2> QED
    BY <2>4, <2>6, Assembled
<1>14. CASE w.call # "fork"
  <2>1. work' = [work EXCEPT ![p] = NoWork]
    BY <1>5, <1>14 DEF Continue
  <2>2. \A r \in PSlots : work'[r].mem = work[r].mem
    BY <1>6, <1>8, <2>1, NoWorkIsWork DEF TypeOK
  <2>3. freelist' \subseteq Pages /\ Owners(At', freelist')
    BY <1>12, <2>2
  <2>4. /\ sz \in [PSlots -> Sizes]
        /\ pstate \in [PSlots -> {"unused", "embryo", "live", "zombie"}]
        /\ kstack \in [PSlots -> PageOrNone]
    BY <1>6 DEF TypeOK
  <2>5. pstate' \in [PSlots -> {"unused", "embryo", "live", "zombie"}]
    BY <1>5, <2>4
  <2>6. TypeOK'
    BY <1>5, <1>6, <1>9, <2>1, <2>3, <2>5, NoWorkIsWork DEF TypeOK
  <2>7. Slot(q)'
    <3>1. CASE w.call = "wait"
      <4>1. i = <<q, "own">> /\ kstack[q] = 0
        BY <1>1, <1>2, <1>3, <1>7, <3>1 DEF Subject
      <4>2. pstate'[q] = "unused" /\ image'[<<q, "own">>] = NoImage /\ kstack'[q] = 0
        BY <1>5, <1>10, <2>4, <3>1, <4>1
      <4> QED
        BY <4>2 DEF Slot
    <3>2. CASE w.call \in {"exec", "stack"}
      <4>1. i = <<p, "fresh">> /\ q = p
        BY <1>2, <1>3, <1>7, <3>2 DEF Subject
      <4>2. image'[<<p, "own">>] = image[<<p, "own">>]
        BY <1>10, <4>1 DEF Images
      <4>3. pstate'[p] = "live" /\ Slot(p)
        BY <1>5, <1>6, <1>7, <3>2 DEF Kept
      <4> QED
        BY <1>5, <1>7, <3>2, <4>1, <4>2, <4>3 DEF Slot
    <3> QED
      BY <1>8, <1>14, <3>1, <3>2
  <2>8. \A s \in PSlots : s # q => kstack'[s] = kstack[s] /\ pstate'[s] = pstate[s] /\ sz'[s] = sz[s]
    BY <1>5, <2>4
  <2>9. Kept'
    BY <1>1, <1>2, <1>3, <1>6, <1>10, <1>11, <2>1, <2>6, <2>7, <2>8, EndStep
  <2> QED
    BY <2>3, <2>6, <2>9, Assembled
<1> QED
  BY <1>13, <1>14

(* One round of deallocuvm(): pages that have no page table are skipped.   *)
LEMMA UnmapFits ==
  ASSUME NEW w \in Work, NEW img, NEW new, NEW b \in Nat, Fits(w, img),
         w.do \in {"dealloc", "freevm"}, w.a <= b,
         new.dir = img.dir, \A c \in UserPages : c < w.a \/ b <= c => new.pte[c] = img.pte[c],
         \A c \in UserPages : w.a <= c /\ c < b => new.pte[c] = 0
  PROVE  LET d == [w EXCEPT !.a = b] IN
         /\ d \in Work /\ d.on = w.on /\ d.call = w.call /\ d.do = w.do
         /\ d.mem = w.mem /\ d.from = w.from /\ Fits(d, new)
<1> DEFINE d == [w EXCEPT !.a = b]
           f == PageUp(w.from)
           u == PageUp(w.to)
           a == w.a
<1>1. f \in Nat /\ u \in Nat /\ a \in Nat /\ UserPages \subseteq Nat
  BY SizeBounds, TableOf DEF Work
<1>2. /\ d \in Work /\ d.on = w.on /\ d.call = w.call /\ d.do = w.do
      /\ d.mem = w.mem /\ d.from = w.from /\ d.to = w.to /\ d.a = b
  BY DEF Work
<1> HIDE DEF d
<1>5. Progress(d, new) => Fits(d, new)
  <2>1. w.do \in Steps(w.call) /\ img.dir # 0 /\ (w.call = "shrink" => w.mem = 0)
    BY DEF Fits
  <2>2. w.do = "freevm" => w.mem = 0
    BY DEF Fits
  <2>3. d.do \in Steps(d.call) /\ new.dir # 0
    BY <1>2, <2>1
  <2> HIDE DEF f, u, a
  <2>4. d.do \in {"dealloc", "freevm"} /\ (d.call = "shrink" \/ d.do = "freevm" => d.mem = 0)
    BY <1>2, <2>1, <2>2
  <2> QED
    BY <2>3, <2>4 DEF Fits
<1>3. CASE w.do = "dealloc"
  <2>1. /\ f <= a
        /\ \A c \in UserPages : /\ c < f => img.pte[c] # 0
                                /\ f <= c /\ c < a => img.pte[c] = 0
                                /\ u <= c => img.pte[c] = 0
    BY <1>3 DEF Fits, Progress
  <2> HIDE DEF f, u, a
  <2>2. f <= b
    BY <1>1, <2>1 DEF a
  <2>3. ASSUME NEW c \in UserPages
        PROVE  /\ c < f => new.pte[c] # 0
               /\ f <= c /\ c < b => new.pte[c] = 0
               /\ u <= c => new.pte[c] = 0
    <3>1. c < a \/ b <= c \/ (a <= c /\ c < b)
      BY <1>1
    <3>2. (c < a \/ b <= c => new.pte[c] = img.pte[c]) /\ (a <= c /\ c < b => new.pte[c] = 0)
      BY DEF a
    <3>3. c < f => c < a
      BY <1>1, <2>1
    <3>4. c < f => new.pte[c] # 0
      BY <2>1, <3>2, <3>3
    <3>5. f <= c /\ c < b => new.pte[c] = 0
      BY <1>1, <2>1, <3>1, <3>2
    <3> QED
      BY <2>1, <3>1, <3>2, <3>4, <3>5
  <2>4. Progress(d, new)
    BY <1>2, <1>3, <2>2, <2>3 DEF Progress, f, u
  <2> QED
    BY <1>2, <1>5, <2>4 DEF d
<1>4. CASE w.do = "freevm"
  <2>1. w.to = KERNBASE /\ \A c \in UserPages : c < a => img.pte[c] = 0
    BY <1>4 DEF Fits, Progress
  <2>2. ASSUME NEW c \in UserPages, c < b PROVE new.pte[c] = 0
    <3>1. c < a \/ (a <= c /\ c < b)
      BY <1>1, <2>2
    <3> QED
      BY <2>1, <3>1
  <2>3. Progress(d, new)
    BY <1>2, <1>4, <2>1, <2>2 DEF Progress
  <2> QED
    BY <1>2, <1>5, <2>3 DEF d
<1> QED
  BY <1>3, <1>4

LEMMA UnmapStep ==
  ASSUME Inductive, NEW p \in PSlots, Unmap(p)
  PROVE  Inductive'
<1>1. work[p].do \in {"dealloc", "freevm"}
  BY DEF Unmap, Unmapping, Doing
<1>2. PICK i \in Images : i = work[p].on
  BY <1>1, Inside
<1>3. PICK a \in Nat : a = work[p].a
  BY <1>1, Inside
<1>4. PICK t : t = Table(p)
  OBVIOUS
<1> DEFINE w == work[p]
           img == image[i]
<1>5. PICK g : g = img.pte[a]
  OBVIOUS
<1>6. w.a * PGSIZE < w.to /\ UNCHANGED <<kstack, sz, pstate>>
  BY DEF Unmap
<1>7. TypeOK /\ Kept
  BY DEF Inductive
<1>8. w \in Work /\ img \in Image /\ Fits(w, img) /\ Tabled(img) /\ w.to \in Sizes
  BY <1>1, <1>2, Inside
<1>9. a \in UserPages /\ t = a \div SPAN
  BY <1>3, <1>4, <1>6, <1>8, PageBounds DEF Table
<1>10. UserPages \subseteq Nat /\ (w.call # "wait" \/ w.do # "freestack") /\ w.call # "none"
  BY <1>1, <1>8, TableOf DEF Fits, Steps
<1>11. CASE img.table[t] = 0
  <2>1. PICK b : b = (t + 1) * SPAN
    OBVIOUS
  <2> DEFINE d == [w EXCEPT !.a = b]
  <2>2. Continue(p, d) /\ UNCHANGED <<image, freelist>>
    BY <1>2, <1>4, <1>11, <2>1 DEF Unmap, On, Keep
  <2>3. b \in Nat /\ a <= b /\ \A c \in UserPages : a <= c /\ c < b => c \div SPAN = t
    <3>1. b \in Nat /\ a < b /\ \A c \in Nat : a <= c /\ c < b => c \div SPAN = t
      BY <1>9, <2>1, TableOf
    <3> QED
      BY <1>10, <3>1
  <2>4. \A c \in UserPages : a <= c /\ c < b => img.pte[c] = 0
    BY <1>8, <1>11, <2>3 DEF Tabled
  <2>5. /\ d \in Work /\ d.on = w.on /\ d.call = w.call /\ d.do = w.do
        /\ d.mem = w.mem /\ d.from = w.from /\ Fits(d, img)
    BY <1>1, <1>3, <1>8, <2>3, <2>4, UnmapFits
  <2> HIDE DEF d
  <2> QED
    BY <1>1, <1>2, <1>6, <1>10, <2>2, <2>5, QuietStep
<1>12. CASE img.table[t] # 0
  <2> DEFINE d == [w EXCEPT !.a = a + 1]
  <2>1. /\ Continue(p, d)
        /\ IF g = 0 THEN UNCHANGED <<image, freelist>>
           ELSE image' = [image EXCEPT ![i] = [img EXCEPT !.pte[a] = 0]] /\ Kfree(g)
    BY <1>2, <1>3, <1>4, <1>5, <1>12 DEF Unmap, On, Keep, SetImage
  <2>2. a + 1 \in Nat /\ a <= a + 1 /\ \A c \in UserPages : a <= c /\ c < a + 1 => c = a
    BY <1>10
  <2>3. \A c \in UserPages : c < a \/ a + 1 <= c => c # a
    BY <1>10
  <2>4. CASE g = 0
    <3>1. /\ d \in Work /\ d.on = w.on /\ d.call = w.call /\ d.do = w.do
          /\ d.mem = w.mem /\ d.from = w.from /\ Fits(d, img)
      <4>1. w.do \in {"dealloc", "freevm"} /\ w.a <= a + 1
        BY <1>1, <1>3, <2>2
      <4>2. \A c \in UserPages : w.a <= c /\ c < a + 1 => img.pte[c] = 0
        BY <1>3, <1>5, <2>2, <2>4
      <4> HIDE DEF w, img
      <4> QED
        BY <1>8, <2>2, <4>1, <4>2, UnmapFits
    <3> HIDE DEF d
    <3> QED
      BY <1>1, <1>2, <1>6, <1>10, <2>1, <2>4, <3>1, QuietStep
  <2>5. CASE g # 0
    <3> DEFINE new == [img EXCEPT !.pte[a] = 0]
    <3>1. /\ new \in Image /\ new.dir = img.dir /\ new.table = img.table /\ new.pte[a] = 0
          /\ \A c \in UserPages : c # a => new.pte[c] = img.pte[c]
      BY <1>8, <1>9 DEF Image, PageOrNone
    <3>2. image' = [image EXCEPT ![i] = new] /\ Kfree(g) /\ work' = [work EXCEPT ![p] = d]
      BY <2>1, <2>5 DEF Continue
    <3> HIDE DEF new
    <3>3. /\ d \in Work /\ d.on = w.on /\ d.call = w.call /\ d.do = w.do
          /\ d.mem = w.mem /\ d.from = w.from /\ Fits(d, new)
      <4>1. PICK b \in Nat : b = a + 1
        BY <2>2
      <4>2. /\ \A c \in UserPages : c < w.a \/ b <= c => new.pte[c] = img.pte[c]
            /\ \A c \in UserPages : w.a <= c /\ c < b => new.pte[c] = 0
        BY <1>3, <2>2, <2>3, <3>1, <4>1
      <4>3. w.a <= b /\ w.do \in {"dealloc", "freevm"} /\ w \in Work /\ Fits(w, img)
        BY <1>1, <1>3, <1>8, <2>2, <4>1
      <4> DEFINE e == [w EXCEPT !.a = b]
      <4>4. /\ e \in Work /\ e.on = w.on /\ e.call = w.call /\ e.do = w.do
            /\ e.mem = w.mem /\ e.from = w.from /\ Fits(e, new)
        BY <3>1, <4>2, <4>3, UnmapFits
      <4> QED
        BY <4>1, <4>4
    <3> HIDE DEF d
    <3>4. Tabled(new)
      BY <1>8, <3>1 DEF Tabled
    <3>5. image'[i] = new /\ \A j \in Images : j # i => image'[j] = image[j]
      BY <1>7, <3>2 DEF TypeOK
    <3>6. \A r \in PSlots : work'[r].mem = work[r].mem
      BY <1>7, <3>2, <3>3 DEF TypeOK
    <3> DEFINE x == PteAt(i, a)
    <3>7. x \in PagePlaces /\ At[x] = g
      BY <1>5, <1>9, Places, PagesAt DEF Located
    <3>8. /\ x # DirAt(i) /\ \A k \in Tables : x # TableAt(i, k)
          /\ \A c \in UserPages : x # PteAt(i, c) => c # a
      BY PlacesDiffer
    <3>9. At' = [At EXCEPT ![x] = 0]
      <4>1. \E c \in UserPages : x = PteAt(i, c) /\ image'[i].pte[c] = 0
        BY <1>9, <3>1, <3>5
      <4>2. /\ image'[i].dir = image[i].dir
            /\ \A k \in Tables : image'[i].table[k] = image[i].table[k]
            /\ \A c \in UserPages : x # PteAt(i, c) => image'[i].pte[c] = image[i].pte[c]
        BY <3>1, <3>5, <3>8
      <4> HIDE DEF x
      <4> QED
        BY <1>6, <3>5, <3>6, <3>7, <4>1, <4>2, ImagePlace
    <3> HIDE DEF x
    <3>10. freelist' \subseteq Pages /\ Owners(At', freelist')
      BY <2>5, <3>2, <3>7, <3>9, GiveAt
    <3>11. TypeOK' /\ Kept'
      BY <1>1, <1>2, <1>6, <1>7, <1>10, <3>1, <3>2, <3>3, <3>4, <3>10, LocalStep
    <3> QED
      BY <3>10, <3>11, Assembled
  <2> QED
    BY <2>4, <2>5
<1> QED
  BY <1>11, <1>12

(* The kernel stack. *)
LEMMA StackTaken ==
  ASSUME Inductive, NEW p \in PSlots, NEW g, Stack(p, g)
  PROVE  Inductive'
<1>1. work[p].do = "kstack"
  BY DEF Stack, Doing
<1>2. PICK q \in PSlots : q = work[p].on[1]
  BY <1>1, Inside
<1> DEFINE w == work[p]
           img == image[w.on]
           d == [w EXCEPT !.do = "dir"]
<1>3. /\ Kalloc(g) /\ kstack' = [kstack EXCEPT ![q] = g] /\ work' = [work EXCEPT ![p] = d]
      /\ UNCHANGED <<image, sz, pstate>>
  BY <1>2 DEF Stack, Continue
<1>4. TypeOK /\ Kept
  BY DEF Inductive
<1>5. w \in Work /\ Fits(w, img) /\ Subject(p) /\ Works(p) /\ pstate[p] = "live"
  BY <1>1, Inside
<1>6. w.call = "fork" /\ img = NoImage /\ w.mem = 0 /\ w.from = 0
  BY <1>1, <1>5 DEF Fits, Steps, Progress
<1>7. w.on = <<q, "own">> /\ kstack[q] = 0 /\ pstate[q] = "embryo"
  BY <1>1, <1>2, <1>5, <1>6 DEF Subject
<1>8. g \in PageOrNone /\ g # 0 /\ freelist' \subseteq Pages
  BY <1>3, <1>4, Allocated
<1>9. d \in Work /\ d.on = w.on /\ d.call = "fork" /\ d.do = "dir" /\ d.mem = 0 /\ d.from = 0
  BY <1>5, <1>6 DEF Work
<1> HIDE DEF d
<1>10. /\ work'[p] = d /\ \A r \in PSlots : work'[r].mem = work[r].mem
       /\ kstack'[q] = g /\ \A r \in PSlots : r # q => kstack'[r] = kstack[r]
  BY <1>3, <1>4, <1>6, <1>9 DEF TypeOK
<1>11. TypeOK'
  BY <1>3, <1>4, <1>8, <1>9 DEF TypeOK
<1>12. Works(p)'
  <2>1. Fits(d, img)
    BY <1>6, <1>9 DEF Fits, Steps, Progress
  <2>2. /\ work'[p] = d /\ image' = image /\ pstate' = pstate /\ kstack'[q] # 0
        /\ pstate'[p] = "live" /\ image'[<<p, "fresh">>] = NoImage
    BY <1>3, <1>5, <1>6, <1>8, <1>10 DEF Works
  <2>3. Subject(p)'
    BY <1>7, <1>9, <2>2 DEF Subject
  <2>4. Busy(p)'
    BY <1>9, <2>1, <2>2, <2>3 DEF Busy
  <2> QED
    BY <1>9, <2>2, <2>4 DEF Works
<1>13. Kept'
  BY <1>1, <1>2, <1>3, <1>4, <1>6, <1>9, <1>10, <1>11, <1>12, StackStep
<1>14. StackAt(q) \in PagePlaces /\ At[StackAt(q)] = 0
  BY <1>7, Places, PagesAt DEF Located
<1>15. At' = [At EXCEPT ![StackAt(q)] = g]
  BY <1>3, <1>10, StackPlace
<1> QED
  BY <1>3, <1>11, <1>13, <1>14, <1>15, TakeAt, Assembled

LEMMA FreeStackStep ==
  ASSUME Inductive, NEW p \in PSlots, FreeStack(p)
  PROVE  Inductive'
<1>1. work[p].do = "freestack"
  BY DEF FreeStack, Doing
<1>2. PICK q \in PSlots : q = work[p].on[1]
  BY <1>1, Inside
<1>3. PICK g : g = kstack[q]
  OBVIOUS
<1> DEFINE w == work[p]
           img == image[w.on]
           d == Discard(w)
<1>4. /\ Kfree(g) /\ kstack' = [kstack EXCEPT ![q] = 0] /\ UNCHANGED <<image, sz>>
      /\ IF w.call = "fork"
         THEN pstate' = [pstate EXCEPT ![q] = "unused"] /\ Continue(p, NoWork)
         ELSE Continue(p, d) /\ UNCHANGED pstate
  BY <1>2, <1>3 DEF FreeStack
<1>5. TypeOK /\ Kept
  BY DEF Inductive
<1>6. /\ w \in Work /\ w.on \in Images /\ Fits(w, img) /\ Subject(p) /\ Works(p)
      /\ pstate[p] = "live" /\ Tabled(img)
  BY <1>1, Inside
<1>7. w.call \in {"fork", "wait"} /\ w.mem = 0
  BY <1>1, <1>6 DEF Fits, Steps
<1>8. w.on = <<q, "own">> /\ g # 0
  BY <1>1, <1>2, <1>3, <1>6, <1>7 DEF Subject
<1>9. /\ sz \in [PSlots -> Sizes] /\ kstack \in [PSlots -> PageOrNone]
      /\ pstate \in [PSlots -> {"unused", "embryo", "live", "zombie"}]
  BY <1>5 DEF TypeOK
<1>10. /\ kstack'[q] = 0 /\ \A r \in PSlots : r # q => kstack'[r] = kstack[r]
       /\ kstack' \in [PSlots -> PageOrNone]
  BY <1>4, <1>9 DEF PageOrNone
<1>11. ASSUME \A r \in PSlots : work'[r].mem = work[r].mem
       PROVE  freelist' \subseteq Pages /\ Owners(At', freelist')
  <2>1. StackAt(q) \in PagePlaces /\ At[StackAt(q)] = g
    BY <1>3, Places, PagesAt DEF Located
  <2>2. At' = [At EXCEPT ![StackAt(q)] = 0]
    BY <1>4, <1>10, <1>11, StackPlace
  <2> QED
    BY <1>4, <1>8, <2>1, <2>2, GiveAt
<1>12. CASE w.call = "fork"
  <2>1. work' = [work EXCEPT ![p] = NoWork] /\ pstate' = [pstate EXCEPT ![q] = "unused"]
    BY <1>4, <1>12 DEF Continue
  <2>2. \A r \in PSlots : work'[r].mem = work[r].mem
    BY <1>5, <1>7, <2>1, NoWorkIsWork DEF TypeOK
  <2>3. freelist' \subseteq Pages /\ Owners(At', freelist')
    BY <1>11, <2>2
  <2>4. pstate' \in [PSlots -> {"unused", "embryo", "live", "zombie"}] /\ pstate'[q] = "unused"
    BY <1>9, <2>1
  <2>5. TypeOK'
    BY <1>4, <1>5, <1>10, <2>1, <2>3, <2>4, NoWorkIsWork DEF TypeOK
  <2>6. img = NoImage
    BY <1>1, <1>6, <1>12 DEF Fits, Progress
  <2>7. image'[<<q, "own">>] = NoImage
    BY <1>4, <1>8, <2>6
  <2>8. Slot(q)'
    BY <1>10, <2>4, <2>7 DEF Slot
  <2>9. \A s \in PSlots : s # q => kstack'[s] = kstack[s] /\ pstate'[s] = pstate[s] /\ sz'[s] = sz[s]
    BY <1>4, <1>9, <1>10, <2>1
  <2>10. Tabled(image'[w.on]) /\ \A j \in Images : image'[j] = image[j]
    BY <1>4, <1>6
  <2>11. Kept'
    BY <1>1, <1>2, <1>5, <1>12, <2>1, <2>5, <2>8, <2>9, <2>10, EndStep
  <2> QED
    BY <2>3, <2>5, <2>11, Assembled
<1>13. CASE w.call = "wait"
  <2>1. work' = [work EXCEPT ![p] = d] /\ pstate' = pstate
    BY <1>4, <1>13 DEF Continue
  <2>2. img.dir # 0
    BY <1>6, <1>13 DEF Fits
  <2>3. /\ d \in Work /\ d.on = w.on /\ d.call = "wait" /\ d.do = "freevm" /\ d.mem = 0
        /\ Fits(d, img)
    BY <1>6, <1>7, <1>13, <2>2, DiscardFits
  <2> HIDE DEF d
  <2>4. work'[p] = d /\ \A r \in PSlots : work'[r].mem = work[r].mem
    BY <1>5, <1>7, <2>1, <2>3 DEF TypeOK
  <2>5. freelist' \subseteq Pages /\ Owners(At', freelist')
    BY <1>11, <2>4
  <2>6. TypeOK'
    BY <1>4, <1>5, <1>10, <2>1, <2>3, <2>5 DEF TypeOK
  <2>7. pstate[q] = "zombie" /\ image'[<<p, "fresh">>] = NoImage
    BY <1>2, <1>4, <1>6, <1>13 DEF Subject, Works
  <2>8. Works(p)'
    <3>1. Subject(p)'
      BY <1>8, <1>10, <2>1, <2>3, <2>4, <2>7 DEF Subject
    <3>2. Busy(p)'
      BY <1>4, <2>3, <2>4, <3>1 DEF Busy
    <3> QED
      BY <1>6, <2>1, <2>3, <2>4, <2>7, <3>2 DEF Works
  <2>9. Kept'
    BY <1>1, <1>2, <1>4, <1>5, <1>7, <1>10, <1>13, <2>1, <2>3, <2>6, <2>8, StackStep
  <2> QED
    BY <2>5, <2>6, <2>9, Assembled
<1> QED
  BY <1>7, <1>12, <1>13

(* exec() commits: the two images of p change places. *)
Other(p, i) == CASE i = <<p, "own">>   -> <<p, "fresh">>
                 [] i = <<p, "fresh">> -> <<p, "own">>
                 [] OTHER -> i

Swapped(p, x) == LET i == Other(p, <<x[2], x[3]>>) IN
  IF x[1] \in {"stack", "spare"} THEN x ELSE <<x[1], i[1], i[2], x[4]>>

LEMMA SwappedAt ==
  ASSUME NEW p \in PSlots
  PROVE  /\ \A q \in PSlots : Swapped(p, StackAt(q)) = StackAt(q) /\ Swapped(p, SpareAt(q)) = SpareAt(q)
         /\ \A i \in Images :
              /\ Other(p, i) \in Images /\ Other(p, Other(p, i)) = i
              /\ Swapped(p, DirAt(i)) = DirAt(Other(p, i))
              /\ \A t \in Tables : Swapped(p, TableAt(i, t)) = TableAt(Other(p, i), t)
              /\ \A b \in UserPages : Swapped(p, PteAt(i, b)) = PteAt(Other(p, i), b)
<1>1. \A q \in PSlots : Swapped(p, StackAt(q)) = StackAt(q) /\ Swapped(p, SpareAt(q)) = SpareAt(q)
  BY DEF Swapped, StackAt, SpareAt
<1>2. ASSUME NEW i \in Images
      PROVE  /\ Other(p, i) \in Images /\ Other(p, Other(p, i)) = i
             /\ Swapped(p, DirAt(i)) = DirAt(Other(p, i))
             /\ \A t \in Tables : Swapped(p, TableAt(i, t)) = TableAt(Other(p, i), t)
             /\ \A b \in UserPages : Swapped(p, PteAt(i, b)) = PteAt(Other(p, i), b)
  <2>1. i = <<i[1], i[2]>>
    BY DEF Images
  <2>2. Other(p, i) \in Images /\ Other(p, Other(p, i)) = i
    BY DEF Other, Images
  <2>3. PICK j : j = Other(p, i)
    OBVIOUS
  <2>4. Swapped(p, DirAt(i)) = DirAt(j)
    BY <2>1, <2>3 DEF Swapped, DirAt
  <2>5. \A t \in Tables : Swapped(p, TableAt(i, t)) = TableAt(j, t)
    BY <2>1, <2>3 DEF Swapped, TableAt
  <2>6. \A b \in UserPages : Swapped(p, PteAt(i, b)) = PteAt(j, b)
    BY <2>1, <2>3 DEF Swapped, PteAt
  <2> QED
    BY <2>2, <2>3, <2>4, <2>5, <2>6
<1> QED
  BY <1>1, <1>2

LEMMA Exchanged ==
  ASSUME Owners(At, freelist), NEW p \in PSlots, UNCHANGED <<kstack, freelist>>,
         \A r \in PSlots : work'[r].mem = work[r].mem,
         \A i \in Images : image'[i] = image[Other(p, i)]
  PROVE  Owners(At', freelist')
<1>1. ASSUME NEW x \in PagePlaces
      PROVE  /\ Swapped(p, x) \in PagePlaces /\ Swapped(p, Swapped(p, x)) = x
             /\ At'[x] = At[Swapped(p, x)]
  <2>1. CASE \E r \in PSlots : x = StackAt(r) \/ x = SpareAt(r)
    BY <2>1, SwappedAt, PagesAt, PagesAtNext DEF Located
  <2>2. CASE \E i \in Images : \/ x = DirAt(i) \/ \E t \in Tables : x = TableAt(i, t)
                               \/ \E b \in UserPages : x = PteAt(i, b)
    <3>1. PICK i \in Images : \/ x = DirAt(i) \/ \E t \in Tables : x = TableAt(i, t)
                              \/ \E b \in UserPages : x = PteAt(i, b)
      BY <2>2
    <3>2. PICK j \in Images : j = Other(p, i) /\ Other(p, j) = i
      BY SwappedAt
    <3>3. image'[i] = image[j]
      BY <3>2
    <3>4. CASE x = DirAt(i)
      BY <3>2, <3>3, <3>4, Places, SwappedAt, PagesAt, PagesAtNext DEF Located
    <3>5. CASE \E t \in Tables : x = TableAt(i, t)
      BY <3>2, <3>3, <3>5, Places, SwappedAt, PagesAt, PagesAtNext DEF Located
    <3>6. CASE \E b \in UserPages : x = PteAt(i, b)
      BY <3>2, <3>3, <3>6, Places, SwappedAt, PagesAt, PagesAtNext DEF Located
    <3> QED
      BY <3>1, <3>4, <3>5, <3>6
  <2> QED
    BY <2>1, <2>2, Places
<1>2. \A x \in PagePlaces : At'[x] # 0 => At'[x] \in Pages \ freelist'
  BY <1>1 DEF Owners
<1>3. ASSUME NEW x \in PagePlaces, NEW y \in PagePlaces, At'[x] = At'[y], At'[x] # 0
      PROVE  x = y
  <2>1. Swapped(p, x) = Swapped(p, y)
    BY <1>1, <1>3 DEF Owners
  <2> QED
    BY <1>1, <2>1
<1>4. ASSUME NEW g \in Pages \ freelist' PROVE \E x \in PagePlaces : At'[x] = g
  <2>1. PICK y \in PagePlaces : At[y] = g
    BY <1>4 DEF Owners
  <2> QED
    BY <1>1, <2>1
<1> QED
  BY <1>2, <1>3, <1>4 DEF Owners

LEMMA CommitStep ==
  ASSUME Inductive, NEW p \in PSlots, Commit(p)
  PROVE  Inductive'
<1> DEFINE w == work[p]
           own == <<p, "own">>
           fresh == <<p, "fresh">>
           d == Discard(w)
<1>1. /\ w.do = "args" /\ UNCHANGED <<freelist, kstack, pstate>>
      /\ image' = [image EXCEPT ![own] = image[fresh], ![fresh] = image[own]]
      /\ sz' = [sz EXCEPT ![p] = w.to] /\ work' = [work EXCEPT ![p] = d]
  BY DEF Commit, Doing, Continue
<1>2. TypeOK /\ Kept /\ Owners(At, freelist)
  BY DEF Inductive
<1>3. w \in Work /\ w.to \in Sizes /\ Fits(w, image[w.on]) /\ Subject(p) /\ pstate[p] = "live"
  BY <1>1, Inside
<1>4. w.call = "stack" /\ w.mem = 0 /\ image[w.on].dir # 0 /\ Filled(image[w.on], PageUp(w.to))
  BY <1>1, <1>3 DEF Fits, Steps, Progress
<1>5. w.on = fresh
  BY <1>3, <1>4 DEF Subject
<1>6. /\ own \in Images /\ fresh \in Images /\ own # fresh
      /\ image \in [Images -> Image] /\ sz \in [PSlots -> Sizes]
  BY <1>2 DEF Images, TypeOK
<1>7. Slot(p) /\ image[own].dir # 0 /\ kstack[p] # 0
  BY <1>2, <1>3 DEF Kept, Slot
<1>8. /\ d \in Work /\ d.on = fresh /\ d.call = "stack" /\ d.do = "freevm" /\ d.mem = 0
      /\ Fits(d, image[own])
  BY <1>3, <1>4, <1>5, <1>7, DiscardFits
<1> HIDE DEF d
<1>9. /\ image'[own] = image[fresh] /\ image'[fresh] = image[own]
      /\ \A i \in Images : i # own /\ i # fresh => image'[i] = image[i]
      /\ image' \in [Images -> Image]
  BY <1>1, <1>6
<1>10. /\ work'[p] = d /\ \A r \in PSlots : r # p => work'[r] = work[r]
       /\ sz'[p] = w.to /\ \A r \in PSlots : r # p => sz'[r] = sz[r]
       /\ sz' \in [PSlots -> Sizes]
  BY <1>1, <1>2, <1>3, <1>6 DEF TypeOK
<1>11. TypeOK'
  BY <1>1, <1>2, <1>8, <1>9, <1>10 DEF TypeOK
<1>12. \A r \in PSlots : <<r, "own">> \in Images /\ <<r, "fresh">> \in Images
  BY DEF Images
<1>13. Works(p)'
  <2>1. Subject(p)'
    BY <1>8, <1>10 DEF Subject
  <2>2. Busy(p)'
    BY <1>8, <1>9, <1>10, <2>1 DEF Busy
  <2> QED
    BY <1>1, <1>3, <1>8, <1>10, <2>2 DEF Works
<1>14. ASSUME NEW r \in PSlots, r # p PROVE Works(r)'
  <2>1. Works(r) /\ <<r, "fresh">> # own /\ <<r, "fresh">> # fresh
    BY <1>2, <1>14 DEF Kept
  <2>2. ASSUME work[r].do # "idle" PROVE work[r].on \in Images /\ work[r].on[1] # p
    BY <1>1, <1>2, <1>14, <2>2, Target, TargetsDiffer
  <2>3. work[r].do # "idle" => image'[work[r].on] = image[work[r].on]
    <3>1. own[1] = p /\ fresh[1] = p
      OBVIOUS
    <3> QED
      BY <1>9, <2>2, <3>1
  <2>4. image'[<<r, "fresh">>] = image[<<r, "fresh">>]
    BY <1>9, <1>12, <2>1
  <2> HIDE DEF own, fresh
  <2> QED
    BY <1>1, <1>10, <1>14, <2>1, <2>3, <2>4, Undisturbed
<1>15. ASSUME NEW s \in PSlots PROVE Slot(s)'
  <2>1. CASE s = p
    <3>1. /\ pstate'[p] = "live" /\ kstack'[p] # 0 /\ image'[own].dir # 0
          /\ Filled(image'[own], PageUp(sz'[p]))
      BY <1>1, <1>3, <1>4, <1>5, <1>7, <1>9, <1>10
    <3> QED
      BY <2>1, <3>1 DEF Slot
  <2>2. CASE s # p
    <3>1. <<s, "own">> # own /\ <<s, "own">> # fresh /\ Slot(s)
      BY <1>2, <2>2 DEF Kept
    <3>2. image'[<<s, "own">>] = image[<<s, "own">>]
      BY <1>9, <1>12, <3>1
    <3>3. \A r \in PSlots : work[r].call = "wait" /\ work[r].on = <<s, "own">> =>
                              work'[r].call = "wait" /\ work'[r].on = <<s, "own">>
      BY <1>4, <1>10
    <3> HIDE DEF own, fresh
    <3> QED
      BY <1>1, <1>10, <2>2, <3>1, <3>2, <3>3 DEF Slot
  <2> QED
    BY <2>1, <2>2
<1>16. Apart'
  <2>1. \A r \in PSlots : work'[r].on = work[r].on /\ (work'[r].do = "idle" <=> work[r].do = "idle")
    BY <1>1, <1>5, <1>8, <1>10
  <2> QED
    BY <1>2, <2>1 DEF Kept, Apart
<1>17. \A i \in Images : Tabled(image'[i])
  BY <1>2, <1>6, <1>9 DEF Kept
<1>18. Kept'
  BY <1>13, <1>14, <1>15, <1>16, <1>17 DEF Kept
<1>19. Owners(At', freelist')
  <2>1. \A r \in PSlots : work'[r].mem = work[r].mem
    BY <1>4, <1>8, <1>10
  <2>2. \A i \in Images : image'[i] = image[Other(p, i)]
    BY <1>9 DEF Other
  <2> QED
    BY <1>1, <1>2, <2>1, <2>2, Exchanged
<1> QED
  BY <1>11, <1>18, <1>19, Assembled

(* The beginning of a call. *)
LEMMA Resting ==
  ASSUME Inductive, NEW p \in PSlots, pstate[p] = "live", work[p].do = "idle"
  PROVE  LET own == image[<<p, "own">>] IN
         /\ TypeOK /\ Kept /\ work[p] = NoWork /\ work[p].call = "none" /\ work[p].mem = 0
         /\ sz[p] \in Sizes /\ kstack[p] # 0 /\ own.dir # 0
         /\ image[<<p, "fresh">>] = NoImage
         /\ Filled(own, PageUp(sz[p])) \/ Empty(own)
<1>1. TypeOK /\ Kept /\ Works(p) /\ Slot(p)
  BY DEF Inductive, Kept
<1>2. work[p] = NoWork /\ work[p].call = "none" /\ work[p].mem = 0
  BY <1>1, NoWorkIsWork DEF Works
<1>3. sz[p] \in Sizes
  BY <1>1 DEF TypeOK
<1> QED
  BY <1>1, <1>2, <1>3 DEF Works, Slot

LEMMA QuietStart ==
  ASSUME Inductive, NEW p \in PSlots, work[p].do = "idle", pstate[p] = "live",
         UNCHANGED <<freelist, image, kstack, sz>>, NEW w \in Work, Continue(p, w), w.mem = 0,
         pstate' \in [PSlots -> {"unused", "embryo", "live", "zombie"}], Works(p)',
         \A r \in PSlots : r # p /\ work[r].do # "idle" =>
           /\ work[r].on # w.on \/ w.do = "idle"
           /\ pstate'[r] = pstate[r] /\ pstate'[work[r].on[1]] = pstate[work[r].on[1]],
         \A s \in PSlots : pstate'[s] = pstate[s] \/ Slot(s)'
  PROVE  Inductive'
<1>1. TypeOK /\ Kept /\ Owners(At, freelist) /\ work[p].mem = 0
  BY Resting DEF Inductive
<1>2. work' = [work EXCEPT ![p] = w]
  BY DEF Continue
<1>3. TypeOK'
  BY <1>1, <1>2 DEF TypeOK
<1>4. ASSUME NEW s \in PSlots
      PROVE  \/ pstate'[s] = pstate[s] /\ (s = p => w.call \in {"sbrk", "shrink"})
             \/ pstate'[s] = pstate[s] /\ w.call \notin {"sbrk", "shrink"}
             \/ Slot(s)'
  OBVIOUS
<1>5. Kept'
  BY <1>1, <1>2, <1>3, <1>4, StartStep
<1>6. At' = At
  <2>1. \A r \in PSlots : work'[r].mem = work[r].mem
    BY <1>1, <1>2 DEF TypeOK
  <2> QED
    BY <2>1, SamePlaces
<1> QED
  BY <1>1, <1>3, <1>5, <1>6, Assembled

LEMMA ForkStep ==
  ASSUME Inductive, NEW p \in PSlots, NEW q \in PSlots, Fork(p, q)
  PROVE  Inductive'
<1> DEFINE own == <<q, "own">>
           d == [NoWork EXCEPT !.call = "fork", !.do = "kstack", !.on = own]
<1>1. /\ pstate[p] = "live" /\ work[p].do = "idle" /\ pstate[q] = "unused"
      /\ pstate' = [pstate EXCEPT ![q] = "embryo"] /\ Continue(p, d)
      /\ UNCHANGED <<freelist, image, kstack, sz>>
  BY DEF Fork, Runs, Doing
<1>2. TypeOK /\ Kept /\ image[<<p, "fresh">>] = NoImage
  BY <1>1, Resting
<1>3. d \in Work /\ d.call = "fork" /\ d.do = "kstack" /\ d.on = own /\ d.mem = 0 /\ d.from = 0
  <2>1. own \in Images
    BY DEF Images
  <2> QED
    BY <2>1, NoWorkIsWork DEF NoWork, Work
<1> HIDE DEF d
<1>4. kstack[q] = 0 /\ image[own] = NoImage
  BY <1>1, <1>2 DEF Kept, Slot
<1>5. /\ pstate \in [PSlots -> {"unused", "embryo", "live", "zombie"}]
      /\ pstate' \in [PSlots -> {"unused", "embryo", "live", "zombie"}]
      /\ pstate'[q] = "embryo" /\ \A s \in PSlots : s # q => pstate'[s] = pstate[s]
      /\ p # q
  BY <1>1, <1>2 DEF TypeOK
<1>6. work'[p] = d
  BY <1>1, <1>2 DEF TypeOK, Continue
<1>7. Works(p)'
  <2>1. own[1] = q
    OBVIOUS
  <2>2. Fits(d, image[own])
    BY <1>3, <1>4 DEF Fits, Steps, Progress
  <2> HIDE DEF own
  <2>3. Subject(p)'
    BY <1>1, <1>3, <1>4, <1>5, <1>6, <2>1 DEF Subject, own
  <2>4. Busy(p)'
    BY <1>1, <1>3, <1>6, <2>2, <2>3 DEF Busy
  <2> QED
    BY <1>1, <1>2, <1>3, <1>5, <1>6, <2>4 DEF Works
<1>8. ASSUME NEW r \in PSlots, r # p, work[r].do # "idle"
      PROVE  /\ work[r].on # d.on
             /\ pstate'[r] = pstate[r] /\ pstate'[work[r].on[1]] = pstate[work[r].on[1]]
  <2>1. /\ pstate[r] = "live" /\ work[r].on[1] \in PSlots
        /\ pstate[work[r].on[1]] \in {"embryo", "zombie"} \/ work[r].on[1] = r
    BY <1>2, <1>8, Target
  <2>2. r # q /\ work[r].on[1] # q
    BY <1>1, <2>1
  <2> QED
    BY <1>3, <1>5, <2>1, <2>2
<1>9. Slot(q)'
  BY <1>5 DEF Slot
<1> QED
  BY <1>1, <1>3, <1>5, <1>7, <1>8, <1>9, QuietStart

LEMMA ExecStep ==
  ASSUME Inductive, NEW p \in PSlots, Exec(p)
  PROVE  Inductive'
<1> DEFINE fresh == <<p, "fresh">>
           d == [NoWork EXCEPT !.call = "exec", !.do = "dir", !.on = fresh]
<1>1. /\ pstate[p] = "live" /\ work[p].do = "idle" /\ Continue(p, d)
      /\ UNCHANGED <<freelist, image, kstack, sz, pstate>>
  BY DEF Exec, Runs, Doing
<1>2. TypeOK /\ Kept /\ image[fresh] = NoImage
  BY <1>1, Resting
<1>3. d \in Work /\ d.call = "exec" /\ d.do = "dir" /\ d.on = fresh /\ d.mem = 0 /\ d.from = 0
  <2>1. fresh \in Images
    BY DEF Images
  <2> QED
    BY <2>1, NoWorkIsWork DEF NoWork, Work
<1> HIDE DEF d
<1>4. work'[p] = d /\ pstate' \in [PSlots -> {"unused", "embryo", "live", "zombie"}]
  BY <1>1, <1>2 DEF TypeOK, Continue
<1>5. Works(p)'
  <2>1. Fits(d, image[fresh])
    BY <1>2, <1>3 DEF Fits, Steps, Progress
  <2>2. Subject(p)'
    BY <1>3, <1>4 DEF Subject
  <2>3. Busy(p)'
    BY <1>1, <1>3, <1>4, <2>1, <2>2 DEF Busy
  <2> QED
    BY <1>1, <1>3, <1>4, <2>3 DEF Works
<1>6. \A r \in PSlots : r # p /\ work[r].do # "idle" => work[r].on # d.on
  BY <1>2, <1>3, TargetsDiffer
<1> QED
  BY <1>1, <1>3, <1>4, <1>5, <1>6, QuietStart

LEMMA SbrkStep ==
  ASSUME Inductive, NEW p \in PSlots, NEW new \in Requests, Sbrk(p, new)
  PROVE  Inductive'
<1> DEFINE own == <<p, "own">>
           img == image[own]
           v == [NoWork EXCEPT !.on = own]
           grow == [v EXCEPT !.call = "sbrk"]
           shrink == [v EXCEPT !.call = "shrink", !.from = new]
           g == Grow(grow, sz[p], new)
           s == Shrink(shrink, sz[p], new)
<1>1. /\ Runs(p) /\ pstate[p] = "live" /\ work[p].do = "idle" /\ new # sz[p]
      /\ Continue(p, IF new > sz[p] THEN g ELSE s)
      /\ UNCHANGED <<freelist, image, kstack, sz, pstate>>
  BY DEF Sbrk, Runs, Doing
<1>2. /\ TypeOK /\ Kept /\ sz[p] \in Sizes /\ img.dir # 0 /\ image[<<p, "fresh">>] = NoImage
      /\ Filled(img, PageUp(sz[p])) \/ Empty(img)
  BY <1>1, Resting
<1>3. Filled(img, PageUp(sz[p]))
  BY <1>1, <1>2 DEF Runs, Empty
<1>4. new \in Sizes /\ KERNBASE \in Nat
  <2>1. Requests \subseteq 0 .. KERNBASE - 1 /\ KERNBASE \in Nat
    BY MemoryAssumption, SizeBounds DEF KERNBASE
  <2> QED
    BY <2>1 DEF Sizes
<1>5. /\ grow \in Work /\ grow.call = "sbrk" /\ grow.on = own /\ grow.mem = 0
      /\ shrink \in Work /\ shrink.call = "shrink" /\ shrink.on = own /\ shrink.mem = 0
      /\ shrink.from = new
  <2>1. own \in Images
    BY DEF Images
  <2> QED
    BY <1>4, <2>1, NoWorkIsWork DEF NoWork, Work
<1> HIDE DEF grow, shrink
<1>6. PICK d : d = IF new > sz[p] THEN g ELSE s
  OBVIOUS
<1>7. /\ d \in Work /\ d.call \in {"sbrk", "shrink"} /\ d.do # "idle" /\ d.on = own /\ d.mem = 0
      /\ Fits(d, img) /\ (d.call = "sbrk" => d.from = sz[p])
  <2>1. CASE new > sz[p]
    <3>1. sz[p] <= new
      BY <1>2, <1>4, <2>1 DEF Sizes
    <3>2. /\ g \in Work /\ g.on = own /\ g.call = "sbrk" /\ g.do = "page" /\ g.mem = 0
          /\ g.from = sz[p] /\ Fits(g, img)
      BY <1>2, <1>3, <1>4, <1>5, <3>1, GrowFits
    <3> HIDE DEF g
    <3> QED
      BY <1>6, <2>1, <3>2
  <2>2. CASE ~(new > sz[p])
    <3>1. new <= sz[p]
      BY <1>2, <1>4, <2>2 DEF Sizes
    <3>2. PageUp(new) <= PageUp(sz[p]) /\ PageUp(sz[p]) \in Nat
      BY <1>2, <1>4, <3>1, SizeBounds
    <3>3. /\ s \in Work /\ s.on = own /\ s.call = "shrink" /\ s.do = "dealloc" /\ s.mem = 0
          /\ Fits(s, img)
      BY <1>2, <1>3, <1>5, <3>2, ShrinkFits
    <3> HIDE DEF s
    <3> QED
      BY <1>6, <2>2, <3>3
  <2> QED
    BY <2>1, <2>2
<1> HIDE DEF g, s
<1>8. /\ Continue(p, d) /\ work'[p] = d
      /\ pstate' \in [PSlots -> {"unused", "embryo", "live", "zombie"}]
  BY <1>1, <1>2, <1>6 DEF TypeOK, Continue
<1>9. Works(p)'
  <2>1. Subject(p)'
    BY <1>1, <1>7, <1>8 DEF Subject
  <2>2. Busy(p)'
    BY <1>1, <1>7, <1>8, <2>1 DEF Busy
  <2> QED
    BY <1>1, <1>2, <1>7, <1>8, <2>2 DEF Works
<1>10. ASSUME NEW r \in PSlots, r # p, work[r].do # "idle" PROVE work[r].on # d.on
  <2>1. pstate[work[r].on[1]] # "live" \/ work[r].on[1] = r
    BY <1>2, <1>10, Target
  <2>2. own[1] = p
    OBVIOUS
  <2> HIDE DEF own
  <2> QED
    BY <1>1, <1>7, <1>10, <2>1, <2>2
<1> QED
  BY <1>1, <1>7, <1>8, <1>9, <1>10, QuietStart

LEMMA WaitStep ==
  ASSUME Inductive, NEW p \in PSlots, NEW q \in PSlots, Wait(p, q)
  PROVE  Inductive'
<1> DEFINE own == <<q, "own">>
           d == [NoWork EXCEPT !.call = "wait", !.do = "freestack", !.on = own]
<1>1. /\ pstate[p] = "live" /\ work[p].do = "idle" /\ pstate[q] = "zombie" /\ Continue(p, d)
      /\ \A r \in PSlots : work[r].call = "wait" => work[r].on # own
      /\ UNCHANGED <<freelist, image, kstack, sz, pstate>>
  BY DEF Wait, Runs, Doing
<1>2. TypeOK /\ Kept /\ image[<<p, "fresh">>] = NoImage
  BY <1>1, Resting
<1>3. d \in Work /\ d.call = "wait" /\ d.do = "freestack" /\ d.on = own /\ d.mem = 0
  <2>1. own \in Images
    BY DEF Images
  <2> QED
    BY <2>1, NoWorkIsWork DEF NoWork, Work
<1> HIDE DEF d
<1>4. kstack[q] # 0 /\ image[own].dir # 0
  BY <1>1, <1>2 DEF Kept, Slot
<1>5. work'[p] = d /\ pstate' \in [PSlots -> {"unused", "embryo", "live", "zombie"}]
  BY <1>1, <1>2 DEF TypeOK, Continue
<1>6. Works(p)'
  <2>1. own[1] = q
    OBVIOUS
  <2>2. Fits(d, image[own])
    BY <1>3, <1>4 DEF Fits, Steps, Progress
  <2> HIDE DEF own
  <2>3. Subject(p)'
    BY <1>1, <1>3, <1>4, <1>5, <2>1 DEF Subject, own
  <2>4. Busy(p)'
    BY <1>1, <1>3, <1>5, <2>2, <2>3 DEF Busy
  <2> QED
    BY <1>1, <1>2, <1>3, <1>5, <2>4 DEF Works
<1>7. ASSUME NEW r \in PSlots, r # p, work[r].do # "idle" PROVE work[r].on # d.on
  <2>1. CASE work[r].call = "wait"
    BY <1>1, <1>3, <2>1
  <2>2. CASE work[r].call # "wait"
    <3>1. pstate[work[r].on[1]] # "zombie"
      <4>1. pstate[r] = "live" /\ (pstate[work[r].on[1]] = "embryo" \/ work[r].on[1] = r)
        BY <1>2, <1>7, <2>2, Target
      <4> QED
        BY <4>1
    <3> QED
      BY <1>1, <1>3, <3>1
  <2> QED
    BY <2>1, <2>2
<1> QED
  BY <1>1, <1>3, <1>5, <1>6, <1>7, QuietStart

LEMMA MemExitStep ==
  ASSUME Inductive, NEW p \in PSlots, MemExit(p)
  PROVE  Inductive'
<1>1. /\ pstate[p] = "live" /\ work[p].do = "idle" /\ pstate' = [pstate EXCEPT ![p] = "zombie"]
      /\ UNCHANGED <<freelist, image, kstack, sz, work>>
  BY DEF MemExit, Doing
<1>2. /\ TypeOK /\ Kept /\ work[p] = NoWork /\ image[<<p, "fresh">>] = NoImage
      /\ kstack[p] # 0 /\ image[<<p, "own">>].dir # 0
  BY <1>1, Resting
<1>3. /\ pstate' \in [PSlots -> {"unused", "embryo", "live", "zombie"}]
      /\ pstate'[p] = "zombie" /\ \A s \in PSlots : s # p => pstate'[s] = pstate[s]
  BY <1>1, <1>2 DEF TypeOK
<1>4. Continue(p, NoWork)
  BY <1>1, <1>2 DEF TypeOK, Continue
<1>5. Works(p)'
  BY <1>1, <1>2 DEF Works
<1>6. ASSUME NEW r \in PSlots, r # p, work[r].do # "idle"
      PROVE  pstate'[r] = pstate[r] /\ pstate'[work[r].on[1]] = pstate[work[r].on[1]]
  <2>1. /\ work[r].on[1] \in PSlots
        /\ pstate[work[r].on[1]] # "live" \/ work[r].on[1] = r
    BY <1>2, <1>6, Target
  <2>2. work[r].on[1] # p
    BY <1>1, <1>6, <2>1
  <2> QED
    BY <1>3, <1>6, <2>1, <2>2
<1>7. Slot(p)'
  BY <1>1, <1>2, <1>3 DEF Slot
<1> QED
  BY <1>1, <1>3, <1>4, <1>5, <1>6, <1>7, NoWorkIsWork, QuietStart
-----------------------------------------------------------------------------
(* The invariant holds at the start and in every step, ... *)

LEMMA InitInductive == MemInit => Inductive
<1> SUFFICES ASSUME MemInit PROVE Inductive
  OBVIOUS
<1>1. /\ UTABLES \in Nat /\ UTABLES # 0 /\ KTABLES \in Nat /\ KTABLES # 0
      /\ NPAGES \in Nat /\ NPAGES >= KTABLES + 4 /\ 1 \in PSlots /\ PGSIZE \in Nat /\ PGSIZE # 0
  BY MemoryAssumption
<1>2. /\ InitImage.dir = 1
      /\ \A t \in Tables : InitImage.table[t] = IF t = 0 THEN 2 ELSE
                             IF t \in KTables THEN t - UTABLES + 3 ELSE 0
      /\ \A b \in UserPages : InitImage.pte[b] = IF b = 0 THEN KTABLES + 3 ELSE 0
      /\ 0 \in Tables /\ 0 \notin KTables /\ \A t \in KTables : t - UTABLES \in 0 .. KTABLES - 1
  BY <1>1 DEF InitImage, Tables, KTables
<1>3. 0 \in UserPages /\ 0 \div SPAN = 0
  <2>1. UTABLES * SPAN \in Nat \ {0} /\ SPAN \in Nat \ {0}
    BY SizeBounds, MemoryAssumption
  <2>2. 0 \div SPAN = 0
    BY <2>1
  <2>3. PICK u \in Nat \ {0} : u = UTABLES * SPAN
    BY <2>1
  <2>4. 0 \in 0 .. u - 1
    BY <2>3
  <2> QED
    BY <2>2, <2>3, <2>4 DEF UserPages
<1>4. InitImage \in Image /\ NoImage \in Image
  <2>1. InitImage = [dir |-> InitImage.dir, table |-> InitImage.table, pte |-> InitImage.pte]
    BY DEF InitImage
  <2>2. InitImage.table \in [Tables -> PageOrNone]
    <3>1. InitImage.table = [t \in Tables |-> InitImage.table[t]]
      BY DEF InitImage
    <3>2. \A t \in Tables : InitImage.table[t] \in PageOrNone
      BY <1>1, <1>2 DEF PageOrNone, Pages
    <3> QED
      BY <3>1, <3>2
  <2>3. InitImage.pte \in [UserPages -> PageOrNone]
    <3>1. InitImage.pte = [b \in UserPages |-> InitImage.pte[b]]
      BY DEF InitImage
    <3>2. \A b \in UserPages : InitImage.pte[b] \in PageOrNone
      BY <1>1, <1>2 DEF PageOrNone, Pages
    <3> QED
      BY <3>1, <3>2
  <2>4. InitImage.dir \in PageOrNone
    BY <1>1, <1>2 DEF PageOrNone, Pages
  <2> HIDE DEF InitImage
  <2>5. InitImage \in Image
    BY <2>1, <2>2, <2>3, <2>4 DEF Image
  <2> QED
    BY <2>5 DEF NoImage, Image, PageOrNone
<1>5. /\ image \in [Images -> Image] /\ image[<<1, "own">>] = InitImage /\ <<1, "own">> \in Images
      /\ \A i \in Images : i # <<1, "own">> => image[i] = NoImage
  BY <1>1, <1>4 DEF MemInit, Images
<1>6. /\ kstack \in [PSlots -> PageOrNone] /\ kstack[1] = KTABLES + 4
      /\ \A p \in PSlots : p # 1 => kstack[p] = 0
      /\ pstate \in [PSlots -> {"unused", "embryo", "live", "zombie"}] /\ pstate[1] = "live"
      /\ \A p \in PSlots : p # 1 => pstate[p] = "unused"
  BY <1>1 DEF MemInit, PageOrNone, Pages
<1>7. sz \in [PSlots -> Sizes] /\ sz[1] = PGSIZE /\ PageUp(PGSIZE) = 1
  <2>1. PageUp(PGSIZE) = 1
    BY <1>1, WholePages
  <2>2. PGSIZE \in Sizes /\ 0 \in Sizes
    <3>1. 1 \in Nat /\ UTABLES * SPAN \in Nat \ {0} /\ PGSIZE \in Nat
      BY <1>1, SizeBounds
    <3>2. 1 * PGSIZE <= (UTABLES * SPAN) * PGSIZE
      BY <3>1, Times
    <3>3. KERNBASE \in Nat /\ PGSIZE <= KERNBASE
      BY <3>1, <3>2, SizeBounds DEF KERNBASE
    <3> QED
      BY <1>1, <3>3 DEF Sizes
  <2> QED
    BY <1>1, <2>1, <2>2 DEF MemInit
<1>8. work \in [PSlots -> Work] /\ \A p \in PSlots : work[p] = NoWork
  BY NoWorkIsWork DEF MemInit
<1>9. freelist = KTABLES + 5 .. NPAGES /\ freelist \subseteq Pages
  BY <1>1 DEF MemInit, Pages
<1>10. TypeOK
  BY <1>5, <1>6, <1>7, <1>8, <1>9 DEF TypeOK
<1>11. /\ NoImage.dir = 0 /\ \A t \in Tables : NoImage.table[t] = 0
       /\ \A b \in UserPages : NoImage.pte[b] = 0
  BY DEF NoImage
<1>12. Kept
  <2>1. ASSUME NEW p \in PSlots PROVE Works(p)
    <3>1. <<p, "fresh">> \in Images /\ <<p, "fresh">> # <<1, "own">>
      BY DEF Images
    <3> QED
      BY <1>5, <1>8, <3>1, NoWorkIsWork DEF Works
  <2>2. ASSUME NEW p \in PSlots PROVE Slot(p)
    <3>1. CASE p = 1
      <4>1. Filled(InitImage, 1)
        BY <1>2, <1>1, TableOf DEF Filled
      <4> QED
        BY <1>1, <1>2, <1>5, <1>6, <1>7, <3>1, <4>1 DEF Slot
    <3>2. CASE p # 1
      <4>1. <<p, "own">> \in Images /\ <<p, "own">> # <<1, "own">>
        BY <3>2 DEF Images
      <4> QED
        BY <1>5, <1>6, <3>2, <4>1 DEF Slot
    <3> QED
      BY <3>1, <3>2
  <2>3. Apart
    BY <1>8, NoWorkIsWork DEF Apart
  <2>4. \A i \in Images : Tabled(image[i])
    <3>1. Tabled(NoImage)
      BY <1>11 DEF Tabled
    <3>2. Tabled(InitImage)
      BY <1>2, <1>3 DEF Tabled
    <3> QED
      BY <1>5, <3>1, <3>2
  <2> QED
    BY <2>1, <2>2, <2>3, <2>4 DEF Kept
<1>13. Owners(At, freelist)
  <2> DEFINE i == <<1, "own">>
  <2>1. \A x \in PagePlaces : At[x] # 0 =>
          \/ x = StackAt(1) /\ At[x] = KTABLES + 4
          \/ x = DirAt(i) /\ At[x] = 1
          \/ x = PteAt(i, 0) /\ At[x] = KTABLES + 3
          \/ x = TableAt(i, 0) /\ At[x] = 2
          \/ \E t \in KTables : x = TableAt(i, t) /\ At[x] = t - UTABLES + 3
    <3> SUFFICES ASSUME NEW x \in PagePlaces, At[x] # 0
                 PROVE  \/ x = StackAt(1) /\ At[x] = KTABLES + 4
                        \/ x = DirAt(i) /\ At[x] = 1
                        \/ x = PteAt(i, 0) /\ At[x] = KTABLES + 3
                        \/ x = TableAt(i, 0) /\ At[x] = 2
                        \/ \E t \in KTables : x = TableAt(i, t) /\ At[x] = t - UTABLES + 3
      OBVIOUS
    <3>1. CASE \E p \in PSlots : x = StackAt(p) \/ x = SpareAt(p)
      BY <1>6, <1>8, <3>1, NoWorkIsWork, PagesAt DEF Located
    <3>2. CASE \E j \in Images : \/ x = DirAt(j) \/ \E t \in Tables : x = TableAt(j, t)
                                 \/ \E b \in UserPages : x = PteAt(j, b)
      <4>1. PICK j \in Images : \/ x = DirAt(j) \/ \E t \in Tables : x = TableAt(j, t)
                                \/ \E b \in UserPages : x = PteAt(j, b)
        BY <3>2
      <4>2. j = i
        BY <1>5, <1>11, <4>1, PagesAt DEF Located
      <4> QED
        BY <1>2, <1>5, <4>1, <4>2, PagesAt DEF Located
    <3> QED
      BY <3>1, <3>2, Places
  <2>2. /\ StackAt(1) \in PagePlaces /\ At[StackAt(1)] = KTABLES + 4
        /\ DirAt(i) \in PagePlaces /\ At[DirAt(i)] = 1
        /\ PteAt(i, 0) \in PagePlaces /\ At[PteAt(i, 0)] = KTABLES + 3
        /\ TableAt(i, 0) \in PagePlaces /\ At[TableAt(i, 0)] = 2
        /\ \A t \in KTables : TableAt(i, t) \in PagePlaces /\ At[TableAt(i, t)] = t - UTABLES + 3
    <3>1. KTables \subseteq Tables /\ \A t \in KTables : t # 0
      BY <1>2, TableOf
    <3> QED
      BY <1>1, <1>2, <1>3, <1>5, <1>6, <3>1, Places, PagesAt DEF Located
  <2> HIDE DEF i
  <2>3. Pages \ freelist = 1 .. KTABLES + 4
    BY <1>1, <1>9 DEF Pages
  <2>4. \A t \in KTables : t \in Int /\ t - UTABLES + 3 \in 3 .. KTABLES + 2
    BY <1>1 DEF KTables
  <2>5. \A x \in PagePlaces : At[x] # 0 => At[x] \in Pages \ freelist
    BY <1>1, <2>1, <2>3, <2>4
  <2>6. ASSUME NEW x \in PagePlaces, NEW y \in PagePlaces, At[x] = At[y], At[x] # 0 PROVE x = y
    <3>1. CASE \E t \in KTables : x = TableAt(i, t) /\ At[x] = t - UTABLES + 3
      BY <1>1, <2>1, <2>4, <2>6, <3>1
    <3>2. CASE \E t \in KTables : y = TableAt(i, t) /\ At[y] = t - UTABLES + 3
      BY <1>1, <2>1, <2>4, <2>6, <3>2
    <3>3. CASE /\ ~ \E t \in KTables : x = TableAt(i, t) /\ At[x] = t - UTABLES + 3
               /\ ~ \E t \in KTables : y = TableAt(i, t) /\ At[y] = t - UTABLES + 3
      BY <1>1, <2>1, <2>6, <3>3
    <3> QED
      BY <3>1, <3>2, <3>3
  <2>7. ASSUME NEW g \in Pages \ freelist PROVE \E x \in PagePlaces : At[x] = g
    <3>1. g \in Int /\ (g \in {1, 2, KTABLES + 3, KTABLES + 4} \/ (3 <= g /\ g <= KTABLES + 2))
      BY <1>1, <2>3, <2>7
    <3>2. CASE g \in {1, 2, KTABLES + 3, KTABLES + 4}
      BY <2>2, <3>2
    <3>3. CASE 3 <= g /\ g <= KTABLES + 2
      <4>1. PICK t \in Int : t = g + UTABLES - 3
        BY <1>1, <3>1
      <4>2. t \in KTables /\ t - UTABLES + 3 = g
        BY <1>1, <3>1, <3>3, <4>1 DEF KTables
      <4> QED
        BY <2>2, <4>2
    <3> QED
      BY <3>1, <3>2, <3>3
  <2> QED
    BY <2>5, <2>6, <2>7 DEF Owners
<1> QED
  BY <1>10, <1>12, <1>13 DEF Inductive

LEMMA NextInductive == Inductive /\ [MemNext]_memvars => Inductive'
<1> SUFFICES ASSUME Inductive, [MemNext]_memvars PROVE Inductive'
  OBVIOUS
<1>1. CASE UNCHANGED memvars
  <2>1. TypeOK' /\ Kept'
    BY <1>1, ZenonT(60) DEF memvars, Inductive, TypeOK, Kept, Works, Busy, Subject, Apart, Slot
  <2>2. At' = At /\ freelist' = freelist
    BY <1>1, SamePlaces DEF memvars
  <2> QED
    BY <2>1, <2>2, Assembled DEF Inductive
<1>2. ASSUME NEW p \in PSlots, Call(p) PROVE Inductive'
  BY <1>2, ExecStep, MemExitStep, ForkStep, WaitStep, SbrkStep DEF Call
<1>3. ASSUME NEW p \in PSlots, Take(p) PROVE Inductive'
  BY <1>3, StackTaken, DirStep, KTableStep, PageStep, MapNewTableStep, MapStep, BuiltStep,
     GrownStep, UserStackStep, BadStep, CommitStep, SegmentStep DEF Take
<1>4. ASSUME NEW p \in PSlots, RunOut(p) PROVE Inductive'
  BY <1>4, NoStackStep, NoDirStep, NoKTableStep, NoPageStep, NoTableStep DEF RunOut
<1>5. ASSUME NEW p \in PSlots, Give(p) PROVE Inductive'
  BY <1>5, FreeMemStep, UnmapStep, UnmappedStep, FreeTableStep, FreeDirStep, FreeStackStep DEF Give
<1> QED
  BY <1>1, <1>2, <1>3, <1>4, <1>5 DEF MemNext

THEOREM InductiveInvariant == MemSpec => []Inductive
<1> QED
  BY InitInductive, NextInductive, PTL DEF MemSpec

(* ... and what the runs check follows from it. *)
LEMMA OwnedOnce ==
  ASSUME Inductive
  PROVE  PagesOwnedOnce
<1> DEFINE taken == PagesTaken
           used == Pages \ freelist
           f == [x \in taken |-> PageAt(x)]
<1>1. /\ taken \subseteq PagePlaces /\ 0 \notin used
      /\ \A x \in PagePlaces : At[x] = PageAt(x) /\ (x \in taken <=> At[x] # 0)
  BY PageNumbers DEF PagesTaken, At
<1>2. \A x \in taken : f[x] \in used
  BY <1>1 DEF Inductive, Owners
<1>3. \A x, y \in taken : f[x] = f[y] => x = y
  BY <1>1 DEF Inductive, Owners
<1>4. \A g \in used : \E x \in taken : f[x] = g
  BY <1>1 DEF Inductive, Owners
<1>5. {PageAt(x) : x \in taken} = used
  BY <1>2, <1>4
<1>6. f \in Injection(taken, used) /\ f \in Surjection(taken, used)
  <2>1. f \in [taken -> used] /\ DOMAIN f = taken
    BY <1>2
  <2> HIDE DEF f, taken, used
  <2> QED
    BY <1>3, <1>4, <2>1 DEF Injection, Surjection, IsInjective
<1>7. IsFiniteSet(used)
  <2>1. IsFiniteSet(1 .. NPAGES)
    BY FS_Interval, MemoryAssumption
  <2> QED
    BY <2>1, FS_Subset DEF Pages
<1>8. Cardinality(taken) = Cardinality(used)
  <2> HIDE DEF f, taken, used
  <2> QED
    BY <1>6, <1>7, FS_Injection
<1> QED
  BY <1>5, <1>8 DEF PagesOwnedOnce

LEMMA SizesMapped ==
  ASSUME Inductive
  PROVE  SizeMapped
<1> SUFFICES ASSUME NEW p \in PSlots, pstate[p] = "live", work[p].do = "idle"
             PROVE  LET own == image[<<p, "own">>] IN
                    /\ \/ \A a \in UserPages : own.pte[a] # 0 <=> a * PGSIZE < sz[p]
                       \/ \A a \in UserPages : own.pte[a] = 0
                    /\ image[<<p, "fresh">>] = NoImage
  BY DEF SizeMapped
<1> DEFINE own == image[<<p, "own">>]
<1>1. /\ sz[p] \in Sizes /\ image[<<p, "fresh">>] = NoImage
      /\ Filled(own, PageUp(sz[p])) \/ Empty(own)
  BY Resting
<1>2. \A a \in UserPages : a * PGSIZE < sz[p] <=> a < PageUp(sz[p])
  BY <1>1, PageBounds, TableOf
<1> HIDE DEF own
<1>3. Filled(own, PageUp(sz[p])) => \A a \in UserPages : own.pte[a] # 0 <=> a * PGSIZE < sz[p]
  BY <1>2 DEF Filled
<1> QED
  BY <1>1, <1>3 DEF Empty, own

(* A page of memory is free or has one owner, and between calls a process  *)
(* has the pages that its size says: kalloc(), kfree(), allocuvm(),        *)
(* deallocuvm(), copyuvm(), freevm() and exec(), when any number of calls  *)
(* go on at once and memory runs out at any point of them.                 *)
THEOREM MemoryStaysKept == MemSpec => []MemoryKept
<1>1. Inductive => MemoryKept
  BY OwnedOnce, SizesMapped DEF MemoryKept
<1> QED
  BY <1>1, InductiveInvariant, PTL
=============================================================================
