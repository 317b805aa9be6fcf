----------------------------- MODULE AtomicDisk -----------------------------
(***************************************************************************)
(* What the log promises to file system calls: several of them may be in   *)
(* progress and write blocks, and a crash takes the disk back to the       *)
(* contents it had at some moment when none was, so that each call is on   *)
(* the disk entirely or not at all.                                        *)
(***************************************************************************)
CONSTANTS Ops, Blocks, Values

VARIABLES
  mem,      \* the contents of the blocks as the calls see them
  disk,     \* what a crash would leave of them
  active    \* the calls in progress

diskvars == <<mem, disk, active>>

DiskInit ==
  /\ mem \in [Blocks -> Values] /\ disk = mem
  /\ active = {}

Enter(o) == o \notin active /\ active' = active \cup {o} /\ UNCHANGED <<mem, disk>>

Write(o, b, v) ==
  o \in active /\ mem' = [mem EXCEPT ![b] = v] /\ UNCHANGED <<disk, active>>

Leave(o) == o \in active /\ active' = active \ {o} /\ UNCHANGED <<mem, disk>>

Commit == active = {} /\ disk' = mem /\ UNCHANGED <<mem, active>>

Crash == mem' = disk /\ active' = {} /\ UNCHANGED disk

DiskNext ==
  \/ \E o \in Ops : Enter(o) \/ Leave(o) \/ \E b \in Blocks, v \in Values : Write(o, b, v)
  \/ Commit
  \/ Crash

DiskSpec == DiskInit /\ [][DiskNext]_diskvars
=============================================================================
