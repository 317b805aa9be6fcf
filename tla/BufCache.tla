------------------------------ MODULE BufCache ------------------------------
(***************************************************************************)
(* The buffer cache (bio.c) with the sleep locks of its buffers            *)
(* (sleeplock.c) and the queue of the disk driver (ide.c): processes that  *)
(* read, change and write blocks, the interrupts of the drive, and kills.  *)
(*                                                                         *)
(* A critical section of bcache.lock, of a sleep lock's spin lock or of    *)
(* idelock is one action; sleep() gives up the spin lock and the CPU at    *)
(* once, as ProcTable shows it does.  A process has one buffer at a time   *)
(* (write_log(), install_trans() and bmap() hold a second one while they   *)
(* copy or look up, which is left out), and the drive does not fail.       *)
(***************************************************************************)
EXTENDS Naturals, Sequences, FiniteSets

CONSTANTS
  Procs, Bufs,
  Blocks,     \* the block numbers in use
  Values,     \* the contents of a block
  Null,       \* no block, no buffer, no process, no request, nothing to write
  MaxPinned   \* bound on the buffers that log_write() has made dirty

ASSUME BufAssumption ==
  /\ Null \notin Procs \cup Bufs \cup Blocks \cup Values
  /\ Null \notin [buf : Bufs, write : Values \cup {Null}]
  /\ Values # {} /\ MaxPinned \in Nat
  /\ IsFiniteSet(Procs) /\ IsFiniteSet(Bufs)

VARIABLES
  blockno, refcnt, valid, dirty, data,  \* struct buf
  lru,       \* the list of all buffers, the most recently used first
  locker,    \* of the sleep lock of each buffer
  idequeue,
  drive,     \* what the drive works on: the buffer, and what it is to write
  disk,
  pc,
  asked,     \* the block each process asked bread() for
  buf,       \* and the buffer bget() gave it
  killed

bufvars  == <<blockno, refcnt, valid, dirty, data>>
idevars  == <<idequeue, drive, disk>>
procvars == <<pc, asked, buf, killed>>
vars     == <<bufvars, lru, locker, idevars, procvars>>

Orders == {s \in [1 .. Cardinality(Bufs) -> Bufs] :
             \A i, j \in DOMAIN s : s[i] = s[j] => i = j}

(* What is in a buffer before its block is read in. *)
Stale == CHOOSE v \in Values : TRUE

Init ==
  /\ disk \in [Blocks -> Values]
  /\ blockno = [x \in Bufs |-> Null] /\ refcnt = [x \in Bufs |-> 0]
  /\ valid = [x \in Bufs |-> FALSE] /\ dirty = [x \in Bufs |-> FALSE]
  /\ data = [x \in Bufs |-> Stale]
  /\ lru \in Orders
  /\ locker = [x \in Bufs |-> Null]
  /\ idequeue = << >> /\ drive = Null
  /\ pc = [p \in Procs |-> "idle"]
  /\ asked = [p \in Procs |-> Null] /\ buf = [p \in Procs |-> Null]
  /\ killed = [p \in Procs |-> FALSE]

Position(x) == CHOOSE i \in DOMAIN lru : lru[i] = x

-----------------------------------------------------------------------------
(* bget() *)

Cached(b) == {x \in Bufs : blockno[x] = b}

(* Mutant: a dirty buffer is recycled as well. *)
RecyclableDirty == {x \in Bufs : refcnt[x] = 0}

Recyclable == {x \in Bufs : refcnt[x] = 0 /\ ~dirty[x]}

(* bget() has found buffer x for block b. *)
Found(p, b, x) ==
  /\ asked' = [asked EXCEPT ![p] = b]
  /\ buf'   = [buf EXCEPT ![p] = x]
  /\ pc'    = [pc EXCEPT ![p] = "lock"]

GetCached(p, b) ==
  /\ pc[p] = "idle"
  /\ \E x \in Cached(b) :
       /\ refcnt' = [refcnt EXCEPT ![x] = @ + 1]
       /\ Found(p, b, x)
  /\ UNCHANGED <<blockno, valid, dirty, data, lru, locker, idevars, killed>>

(* The least recently used buffer that can be recycled takes the block; its *)
(* contents are not looked at until they have been read in.                 *)
Recycle(p, b, n) ==
  /\ pc[p] = "idle"
  /\ \E x \in Recyclable :
       /\ \A y \in Recyclable : Position(y) <= Position(x)
       /\ blockno' = [blockno EXCEPT ![x] = b]
       /\ valid'   = [valid EXCEPT ![x] = FALSE]
       /\ dirty'   = [dirty EXCEPT ![x] = FALSE]
       /\ data'    = [data EXCEPT ![x] = Stale]
       /\ refcnt'  = [refcnt EXCEPT ![x] = n]
       /\ Found(p, b, x)
  /\ UNCHANGED <<lru, locker, idevars, killed>>

(* Mutant: the cache is not looked at. *)
GetFreshUnchecked(p, b) == Recycle(p, b, 1)

GetFresh(p, b) == Cached(b) = {} /\ Recycle(p, b, 1)

-----------------------------------------------------------------------------
(* acquiresleep() *)

Lock(p) ==
  /\ pc[p] = "lock" /\ locker[buf[p]] = Null
  /\ locker' = [locker EXCEPT ![buf[p]] = p]
  /\ pc' = [pc EXCEPT ![p] = "read"]
  /\ UNCHANGED <<bufvars, lru, idevars, asked, buf, killed>>

LockSleep(p) ==
  /\ pc[p] = "lock" /\ locker[buf[p]] # Null
  /\ pc' = [pc EXCEPT ![p] = "locksleep"]
  /\ UNCHANGED <<bufvars, lru, locker, idevars, asked, buf, killed>>

-----------------------------------------------------------------------------
(* bread(), bwrite() and iderw() *)

ReadHit(p) ==
  /\ pc[p] = "read" /\ valid[buf[p]]
  /\ pc' = [pc EXCEPT ![p] = "use"]
  /\ UNCHANGED <<bufvars, lru, locker, idevars, asked, buf, killed>>

(* idestart(): the drive is told what to do, and given what to write. *)
Started(x, v) == [buf |-> x, write |-> IF dirty'[x] THEN v ELSE Null]

(* iderw() up to its first sleep(): v is what the buffer holds. *)
IdeRw(p, v) ==
  /\ idequeue' = Append(idequeue, buf[p])
  /\ drive' = IF idequeue = << >> THEN Started(buf[p], v) ELSE drive
  /\ pc' = [pc EXCEPT ![p] = "iosleep"]
  /\ UNCHANGED <<blockno, refcnt, valid, lru, locker, disk, asked, buf, killed>>

ReadMiss(p) ==
  /\ pc[p] = "read" /\ ~valid[buf[p]]
  /\ UNCHANGED <<dirty, data>>
  /\ IdeRw(p, data[buf[p]])

(* The holder changes the contents and calls bwrite(). *)
Write(p, v) ==
  /\ pc[p] = "use"
  /\ data'  = [data EXCEPT ![buf[p]] = v]
  /\ dirty' = [dirty EXCEPT ![buf[p]] = TRUE]
  /\ IdeRw(p, v)

Done(x) == valid[x] /\ ~dirty[x]

IoReturn(p) ==
  /\ pc[p] = "io" /\ Done(buf[p])
  /\ pc' = [pc EXCEPT ![p] = "use"]
  /\ UNCHANGED <<bufvars, lru, locker, idevars, asked, buf, killed>>

IoSleepAgain(p) ==
  /\ pc[p] = "io" /\ ~Done(buf[p])
  /\ pc' = [pc EXCEPT ![p] = "iosleep"]
  /\ UNCHANGED <<bufvars, lru, locker, idevars, asked, buf, killed>>

(* The holder changes the contents and calls log_write(), which keeps the  *)
(* block in the cache until a commit writes it.                            *)
Pinned == {x \in Bufs : dirty[x]}

Pin(p, v) ==
  /\ pc[p] = "use"
  /\ Cardinality(Pinned \cup {buf[p]}) <= MaxPinned
  /\ data'  = [data EXCEPT ![buf[p]] = v]
  /\ dirty' = [dirty EXCEPT ![buf[p]] = TRUE]
  /\ UNCHANGED <<blockno, refcnt, valid, lru, locker, idevars, procvars>>

-----------------------------------------------------------------------------
(* brelse(): the sleep lock, then the reference *)

Unlock(p) ==
  /\ pc[p] = "use"
  /\ locker' = [locker EXCEPT ![buf[p]] = Null]
  /\ pc' = [q \in Procs |->
              IF q = p THEN "unref"
              ELSE IF pc[q] = "locksleep" /\ buf[q] = buf[p] THEN "lock" ELSE pc[q]]
  /\ UNCHANGED <<bufvars, lru, idevars, asked, buf, killed>>

MoveToFront(x) == <<x>> \o SelectSeq(lru, LAMBDA y : y # x)

(* Mutant: a dirty buffer keeps its reference. *)
UnrefClean(p) ==
  /\ pc[p] = "unref"
  /\ refcnt' = [refcnt EXCEPT ![buf[p]] = IF dirty[buf[p]] THEN @ ELSE @ - 1]
  /\ lru' = IF refcnt'[buf[p]] = 0 THEN MoveToFront(buf[p]) ELSE lru
  /\ asked' = [asked EXCEPT ![p] = Null] /\ buf' = [buf EXCEPT ![p] = Null]
  /\ pc' = [pc EXCEPT ![p] = "idle"]
  /\ UNCHANGED <<blockno, valid, dirty, data, locker, idevars, killed>>

Unref(p) ==
  /\ pc[p] = "unref"
  /\ refcnt' = [refcnt EXCEPT ![buf[p]] = @ - 1]
  /\ lru' = IF refcnt'[buf[p]] = 0 THEN MoveToFront(buf[p]) ELSE lru
  /\ asked' = [asked EXCEPT ![p] = Null] /\ buf' = [buf EXCEPT ![p] = Null]
  /\ pc' = [pc EXCEPT ![p] = "idle"]
  /\ UNCHANGED <<blockno, valid, dirty, data, locker, idevars, killed>>

-----------------------------------------------------------------------------
(* The drive, and ideintr() *)

(* The drive is done with the request at the head of the queue. *)
Finish ==
  LET x == Head(idequeue) IN
  /\ drive # Null
  /\ disk' = IF drive.write = Null THEN disk
             ELSE [disk EXCEPT ![blockno[drive.buf]] = drive.write]
  /\ data' = IF dirty[x] THEN data ELSE [data EXCEPT ![x] = disk[blockno[drive.buf]]]
  /\ valid' = [valid EXCEPT ![x] = TRUE]
  /\ dirty' = [dirty EXCEPT ![x] = FALSE]
  /\ idequeue' = Tail(idequeue)
  /\ pc' = [p \in Procs |->
              IF pc[p] = "iosleep" /\ buf[p] = x THEN "io" ELSE pc[p]]
  /\ UNCHANGED <<blockno, refcnt, lru, locker, asked, buf, killed>>

(* Mutant: the next request is left to whoever comes with another one. *)
IdeIntrNoStart == Finish /\ drive' = Null

IdeIntr ==
  /\ Finish
  /\ drive' = IF idequeue' = << >> THEN Null
              ELSE Started(Head(idequeue'), data[Head(idequeue')])

(* kill() wakes a process, which looks again at what it waits for. *)
Kill(p) ==
  /\ ~killed[p]
  /\ killed' = [killed EXCEPT ![p] = TRUE]
  /\ pc' = [pc EXCEPT ![p] = IF @ = "locksleep" THEN "lock"
                             ELSE IF @ = "iosleep" THEN "io" ELSE @]
  /\ UNCHANGED <<bufvars, lru, locker, idevars, asked, buf>>

-----------------------------------------------------------------------------
CallStep(p) ==
  \/ \E b \in Blocks : GetCached(p, b) \/ GetFresh(p, b)
  \/ Lock(p) \/ LockSleep(p) \/ ReadHit(p) \/ ReadMiss(p)
  \/ IoReturn(p) \/ IoSleepAgain(p) \/ Unlock(p) \/ Unref(p)
  \/ \E v \in Values : Write(p, v) \/ Pin(p, v)

Next == (\E p \in Procs : CallStep(p) \/ Kill(p)) \/ IdeIntr

Spec == Init /\ [][Next]_vars

-----------------------------------------------------------------------------
(* Properties *)

(* bget() gives no block two buffers, though it drops bcache.lock before it *)
(* has the sleep lock, and no buffer that somebody asked for, has or waits  *)
(* for is given to another block (bio.c:66-91).                             *)
BufferKept ==
  /\ \A x, y \in Bufs : blockno[x] = blockno[y] /\ blockno[x] # Null => x = y
  /\ \A p \in Procs : pc[p] # "idle" => blockno[buf[p]] = asked[p]

(* A process that sleeps in iderw() has its buffer in the queue, and the    *)
(* drive works on the head of the queue: no request and no wake up is lost  *)
(* between ideintr() and the while loop of iderw().                         *)
IoServed ==
  /\ \A p \in Procs : pc[p] = "iosleep" =>
       /\ \E i \in DOMAIN idequeue : idequeue[i] = buf[p]
       /\ ~Done(buf[p])
  /\ IF idequeue = << >> THEN drive = Null
     ELSE drive # Null /\ drive.buf = Head(idequeue)

(* A process that waits for a sleep lock is not forgotten: somebody has it, *)
(* and will wake it in releasesleep().                                      *)
LockWaitersSeen ==
  \A p \in Procs : pc[p] = "locksleep" => locker[buf[p]] # Null

(* Nobody sleeps for ever in iderw() or acquiresleep(): what will wake a    *)
(* process that sleeps there is still to come, though wakeup() remembers    *)
(* nothing and a kill may make any of them look again at any time.          *)
NoLostWakeup == IoServed /\ LockWaitersSeen

(* The references to a buffer are the processes that have it, in every     *)
(* interleaving of bget() and brelse(): none is given back twice, and none *)
(* is kept, so that bget() finds no buffer (bio.c:92) only when each one   *)
(* is in somebody's hands or pinned.                                       *)
BuffersReturned == \A x \in Bufs : refcnt[x] = Cardinality({p \in Procs : buf[p] = x})

(* The blocks behave as if there were no cache: whoever has the lock of a   *)
(* block sees and changes its one copy, and recycling, reading in, writing  *)
(* out and pinning change nothing.                                          *)
Holds(b, x) == blockno[x] = b /\ (valid[x] \/ dirty[x])

Store == INSTANCE BlockStore
           WITH Nobody <- Null,
                value  <- [b \in Blocks |-> IF \E x \in Bufs : Holds(b, x)
                                              THEN data[CHOOSE x \in Bufs : Holds(b, x)]
                                              ELSE disk[b]],
                owner  <- [b \in Blocks |-> IF Cached(b) = {} THEN Null
                                            ELSE locker[CHOOSE x \in Bufs : blockno[x] = b]]

OneCopy == Store!StoreSpec
=============================================================================
