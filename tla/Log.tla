-------------------------------- MODULE Log --------------------------------
(***************************************************************************)
(* The write-ahead log (log.c) over the buffer cache and a disk that       *)
(* writes one block at a time: file system calls between begin_op() and    *)
(* end_op(), the commit that the last of them makes, and recovery after a  *)
(* crash, which may come between any two disk writes.                      *)
(*                                                                         *)
(* Each critical section of log.lock is one action.  A call changes one    *)
(* block at a time, under the sleep lock of its buffer.                    *)
(***************************************************************************)
EXTENDS Naturals, Sequences, FiniteSets

CONSTANTS
  Ops,          \* the processes that make file system calls
  Blocks,       \* the blocks outside the log
  Values,       \* the contents of a block
  NoBuf,        \* no buffer holds the block
  MAXOPBLOCKS,  \* a call makes at most so many log_write()s
  LOGSIZE,      \* what begin_op() takes for the capacity of the log
  NLog          \* sb.nlog, the blocks of the log on disk, header included

ASSUME LogAssumption ==
  /\ MAXOPBLOCKS \in Nat \ {0} /\ LOGSIZE \in Nat /\ NLog \in Nat \ {0}
  /\ MAXOPBLOCKS <= LOGSIZE   \* param.h: three times as much
  /\ NoBuf \notin Values \cup Blocks

VARIABLES
  home, logged, header,    \* on disk: the blocks, the log, its header's block numbers
  cache, dirty,            \* buffers: contents or NoBuf, and B_DIRTY
  lh,                      \* the block numbers of log.lh
  outstanding, committing, \* of struct log
  pc,                      \* where each process is in its call
  holds,                   \* the block whose buffer it has locked
  writes,                  \* how many log_write()s it has made
  stage,                   \* what commit() or recovery does next
  tail                     \* its loop variable

disk    == <<home, logged, header>>
logvars == <<lh, outstanding, committing>>
callvars == <<pc, holds, writes>>
allvars    == <<disk, cache, dirty, logvars, callvars, stage, tail>>

LogInit ==
  /\ home \in [Blocks -> Values]
  /\ logged = << >> /\ header = << >>
  /\ cache = [b \in Blocks |-> NoBuf] /\ dirty = [b \in Blocks |-> FALSE]
  /\ lh = << >> /\ outstanding = 0 /\ committing = FALSE
  /\ pc = [o \in Ops |-> "idle"]
  /\ holds = [o \in Ops |-> NoBuf] /\ writes = [o \in Ops |-> 0]
  /\ stage = "read_head" /\ tail = 0

(* initlog() has returned. *)
Running == stage \notin {"read_head", "recover"}

(* bread(): the contents of a block, from its buffer or else from disk. *)
Read(b) == IF cache[b] = NoBuf THEN home[b] ELSE cache[b]

(* wakeup(&log) *)
Awake == [o \in Ops |-> IF pc[o] = "asleep" THEN "begin" ELSE pc[o]]

-----------------------------------------------------------------------------
(* File system calls *)

Start(o) ==
  /\ Running /\ pc[o] = "idle"
  /\ pc' = [pc EXCEPT ![o] = "begin"]
  /\ UNCHANGED <<disk, cache, dirty, logvars, holds, writes, stage, tail>>

(* Mutant: the call that wants to begin is not counted. *)
HasSpaceNotOwn == Len(lh) + outstanding * MAXOPBLOCKS <= LOGSIZE

HasSpace == Len(lh) + (outstanding + 1) * MAXOPBLOCKS <= LOGSIZE

BeginOp(o) ==
  /\ pc[o] = "begin" /\ ~committing /\ HasSpace
  /\ outstanding' = outstanding + 1
  /\ pc' = [pc EXCEPT ![o] = "active"]
  /\ writes' = [writes EXCEPT ![o] = 0]
  /\ UNCHANGED <<disk, cache, dirty, lh, committing, holds, stage, tail>>

BeginSleep(o) ==
  /\ pc[o] = "begin" /\ (committing \/ ~HasSpace)
  /\ pc' = [pc EXCEPT ![o] = "asleep"]
  /\ UNCHANGED <<disk, cache, dirty, logvars, holds, writes, stage, tail>>

(* kill() wakes a sleeping process as well; it looks at the log again. *)
Killed(o) ==
  /\ pc[o] = "asleep"
  /\ pc' = [pc EXCEPT ![o] = "begin"]
  /\ UNCHANGED <<disk, cache, dirty, logvars, holds, writes, stage, tail>>

(* bread() of a block, and a change to its buffer. *)
Modify(o, b, v) ==
  /\ pc[o] = "active" /\ writes[o] < MAXOPBLOCKS
  /\ \A q \in Ops : holds[q] # b
  /\ cache' = [cache EXCEPT ![b] = v]
  /\ holds' = [holds EXCEPT ![o] = b]
  /\ pc' = [pc EXCEPT ![o] = "modified"]
  /\ UNCHANGED <<disk, dirty, logvars, writes, stage, tail>>

(* The two tests with which log_write() panics; the first without the lock. *)
LogFull == Len(lh) >= LOGSIZE \/ Len(lh) >= NLog - 1

(* log_write() and brelse().  A block already in the log is absorbed. *)
LogWrite(o) ==
  /\ pc[o] = "modified" /\ ~LogFull
  /\ lh' = IF \E i \in DOMAIN lh : lh[i] = holds[o] THEN lh ELSE Append(lh, holds[o])
  /\ dirty' = [dirty EXCEPT ![holds[o]] = TRUE]
  /\ holds' = [holds EXCEPT ![o] = NoBuf]
  /\ writes' = [writes EXCEPT ![o] = @ + 1]
  /\ pc' = [pc EXCEPT ![o] = "active"]
  /\ UNCHANGED <<disk, cache, outstanding, committing, stage, tail>>

(* end_op() of a call that others outlive. *)
EndOpOthers(o) ==
  /\ pc[o] = "active" /\ outstanding > 1
  /\ outstanding' = outstanding - 1
  /\ pc' = [Awake EXCEPT ![o] = "idle"]
  /\ UNCHANGED <<disk, cache, dirty, lh, committing, holds, writes, stage, tail>>

(* Mutant: a short log is not committed. *)
EndOpLastSkips(o) ==
  /\ pc[o] = "active" /\ outstanding = 1
  /\ outstanding' = 0 /\ committing' = TRUE
  /\ pc' = [pc EXCEPT ![o] = "commit"]
  /\ stage' = IF Len(lh) <= MAXOPBLOCKS THEN "done" ELSE "write_log"
  /\ tail' = 0
  /\ UNCHANGED <<disk, cache, dirty, lh, holds, writes>>

(* end_op() of the last call, which commits. *)
EndOpLast(o) ==
  /\ pc[o] = "active" /\ outstanding = 1
  /\ outstanding' = 0 /\ committing' = TRUE
  /\ pc' = [pc EXCEPT ![o] = "commit"]
  /\ stage' = IF lh = << >> THEN "done" ELSE "write_log"
  /\ tail' = 0
  /\ UNCHANGED <<disk, cache, dirty, lh, holds, writes>>

(* bget() takes the buffer of a block for another one. *)
Evict(b) ==
  /\ cache[b] # NoBuf /\ ~dirty[b] /\ \A o \in Ops : holds[o] # b
  /\ cache' = [cache EXCEPT ![b] = NoBuf]
  /\ UNCHANGED <<disk, dirty, logvars, callvars, stage, tail>>

-----------------------------------------------------------------------------
(* commit() *)

WriteLog ==
  /\ stage = "write_log" /\ tail < Len(lh)
  /\ logged' = [i \in 1 .. tail + 1 |-> IF i = tail + 1 THEN Read(lh[i]) ELSE logged[i]]
  /\ tail' = tail + 1
  /\ UNCHANGED <<home, header, cache, dirty, logvars, callvars, stage>>

(* The real commit. *)
WriteHead ==
  /\ stage = "write_log" /\ tail = Len(lh)
  /\ header' = lh
  /\ stage' = "install" /\ tail' = 0
  /\ UNCHANGED <<home, logged, cache, dirty, logvars, callvars>>

(* One round of install_trans(): the block is read from the log, written    *)
(* through its buffer, and its buffer is clean.                             *)
InstallOne(b, v) ==
  /\ home'  = [home EXCEPT ![b] = v]
  /\ cache' = [cache EXCEPT ![b] = v]
  /\ dirty' = [dirty EXCEPT ![b] = FALSE]
  /\ tail' = tail + 1

Install ==
  /\ stage = "install" /\ tail < Len(lh)
  /\ InstallOne(lh[tail + 1], logged[tail + 1])
  /\ UNCHANGED <<logged, header, logvars, callvars, stage>>

(* Mutant: the log is cleared before the last block is in its place. *)
EraseEarly ==
  /\ stage = "install" /\ tail + 1 >= Len(lh)
  /\ lh' = << >> /\ header' = << >> /\ logged' = << >>
  /\ stage' = "done"
  /\ UNCHANGED <<home, cache, dirty, outstanding, committing, callvars, tail>>

(* Clears the header on disk.  Blocks of the log that no header counts are *)
(* never read; here they are forgotten.                                    *)
Erase ==
  /\ stage = "install" /\ tail = Len(lh)
  /\ lh' = << >> /\ header' = << >> /\ logged' = << >>
  /\ stage' = "done"
  /\ UNCHANGED <<home, cache, dirty, outstanding, committing, callvars, tail>>

(* Mutant: nobody is told that the commit is over. *)
CommitDoneNoWake(o) ==
  /\ pc[o] = "commit" /\ stage = "done"
  /\ committing' = FALSE
  /\ pc' = [pc EXCEPT ![o] = "idle"]
  /\ stage' = "none" /\ tail' = 0
  /\ UNCHANGED <<disk, cache, dirty, lh, outstanding, holds, writes>>

CommitDone(o) ==
  /\ pc[o] = "commit" /\ stage = "done"
  /\ committing' = FALSE
  /\ pc' = [Awake EXCEPT ![o] = "idle"]
  /\ stage' = "none" /\ tail' = 0
  /\ UNCHANGED <<disk, cache, dirty, lh, outstanding, holds, writes>>

-----------------------------------------------------------------------------
(* A crash, and recover_from_log() *)

LogCrash ==
  /\ cache' = [b \in Blocks |-> NoBuf] /\ dirty' = [b \in Blocks |-> FALSE]
  /\ lh' = << >> /\ outstanding' = 0 /\ committing' = FALSE
  /\ pc' = [o \in Ops |-> "idle"]
  /\ holds' = [o \in Ops |-> NoBuf] /\ writes' = [o \in Ops |-> 0]
  /\ stage' = "read_head" /\ tail' = 0
  /\ UNCHANGED disk

ReadHead ==
  /\ stage = "read_head"
  /\ lh' = header
  /\ stage' = "recover"
  /\ UNCHANGED <<disk, cache, dirty, outstanding, committing, callvars, tail>>

Recover ==
  /\ stage = "recover" /\ tail < Len(lh)
  /\ InstallOne(lh[tail + 1], logged[tail + 1])
  /\ UNCHANGED <<logged, header, logvars, callvars, stage>>

Clear ==
  /\ stage = "recover" /\ tail = Len(lh)
  /\ lh' = << >> /\ header' = << >> /\ logged' = << >>
  /\ stage' = "none" /\ tail' = 0
  /\ UNCHANGED <<home, cache, dirty, outstanding, committing, callvars>>

-----------------------------------------------------------------------------
CallStep(o) ==
  \/ Start(o) \/ BeginOp(o) \/ BeginSleep(o) \/ Killed(o)
  \/ LogWrite(o) \/ EndOpOthers(o) \/ EndOpLast(o)
  \/ \E b \in Blocks, v \in Values : Modify(o, b, v)

CommitStep == WriteLog \/ WriteHead \/ Install \/ Erase \/ \E o \in Ops : CommitDone(o)

RecoverStep == ReadHead \/ Recover \/ Clear

LogNext ==
  \/ \E o \in Ops : CallStep(o)
  \/ \E b \in Blocks : Evict(b)
  \/ CommitStep \/ RecoverStep \/ LogCrash

LogSpec == LogInit /\ [][LogNext]_allvars

-----------------------------------------------------------------------------
(* Properties *)

(* What recovery would make of block b if the machine stopped now, and what *)
(* a call that reads it sees.                                               *)
Durable(b) ==
  IF \E i \in DOMAIN header : header[i] = b
    THEN logged[CHOOSE i \in DOMAIN header : header[i] = b] ELSE home[b]

Current(b) == IF cache[b] = NoBuf THEN Durable(b) ELSE cache[b]

InCall == {o \in Ops : pc[o] \in {"active", "modified"}}

(* Every call is on the disk as a whole or not at all, whenever the machine *)
(* stops and however often recovery is cut short, though a commit takes     *)
(* many disk writes and several calls share it.                             *)
Disk == INSTANCE AtomicDisk
          WITH mem    <- [b \in Blocks |-> Current(b)],
               disk   <- [b \in Blocks |-> Durable(b)],
               active <- InCall

CrashAtomic == Disk!DiskSpec

(* Once no call is in progress and no commit either, all that the calls have *)
(* written would survive a crash: the last end_op() returns after the commit.*)
DurableWhenQuiet ==
  Running /\ outstanding = 0 /\ ~committing =>
    \A b \in Blocks : Durable(b) = Read(b)

(* The log_write()s that calls in progress may still make. *)
Unwritten == {w \in InCall \X (1 .. MAXOPBLOCKS) : writes[w[1]] < w[2]}

(* What begin_op() reserves stays free ("this op might exhaust log space", *)
(* log.c:133): beside the blocks in the log, LOGSIZE leaves room for every *)
(* log_write() that the calls in progress may still make, however they     *)
(* share commits and absorb blocks.  Whether the log on disk has LOGSIZE   *)
(* blocks is LogFits.                                                      *)
SpaceReserved == Running => Len(lh) + Cardinality(Unwritten) <= LOGSIZE

(* log_write() never panics for a call that keeps to MAXOPBLOCKS, in a log *)
(* of LOGSIZE blocks such as mkfs makes: "LOGSIZE (MAXOPBLOCKS*3) // max   *)
(* data blocks in on-disk log" (param.h:11).  Not so: one of its blocks is *)
(* the header, and log_write() lets no more than NLog - 1 be in the log.   *)
LogFits == \A o \in Ops : pc[o] = "modified" => ~LogFull

(* A process sleeps in begin_op() only while a commit is under way, or while *)
(* the log has no room for it and a call is in progress that will make room: *)
(* no wakeup is missed, of the two that end_op() makes and before and after  *)
(* which others may take log.lock.                                           *)
SleepsForCause ==
  \A o \in Ops : pc[o] = "asleep" => committing \/ (outstanding > 0 /\ ~HasSpace)
=============================================================================
