---------------------------- MODULE MCFileSystem ----------------------------
(***************************************************************************)
(* A file system small enough for TLC: the calls on inodes and names, and  *)
(* the log that makes them atomic.  FileSystem takes from Log only that a  *)
(* crash is one at a moment when no call is active; they share no state,   *)
(* and one of them moves in a behaviour.                                   *)
(***************************************************************************)
EXTENDS FileSystem, Log, TLC

VARIABLE part

partvars == <<part, vars, allvars>>

(* No definition tells one process, one name or one block from another. *)
FSSymmetry == Permutations(Procs) \cup Permutations(Names)

Entries == {<<d, n>> \in Inodes \X Names : entry[d][n] # 0}

(* Bounds on the calls: one of the processes, whichever, is in the root    *)
(* directory; while a file is open there is at most one name, and no       *)
(* process is anywhere else.                                               *)
Small ==
  /\ \E p \in Procs : cwd[p] \in {0, ROOTINO}
  /\ (\E p \in Procs : ofile[p] # 0) =>
       Cardinality(Entries) <= 1 /\ \A p \in Procs : cwd[p] \in {0, ROOTINO}

(* The blocks of a log that does not move do not matter. *)
PartInit ==
  /\ part \in {"calls", "log"}
  /\ Init /\ LogInit
  /\ part = "calls" => home = [b \in Blocks |-> CHOOSE v \in Values : TRUE]

PartNext ==
  /\ UNCHANGED part
  /\ \/ part = "calls" /\ Next /\ Small' /\ UNCHANGED allvars
     \/ part = "log"   /\ LogNext /\ UNCHANGED vars

PartSpec == PartInit /\ [][PartNext]_partvars
=============================================================================
