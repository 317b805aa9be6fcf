---------------------------- MODULE MCStructures ----------------------------
(***************************************************************************)
(* What works on its own, each as large as its algorithm needs: the pages  *)
(* of memory, the heap of a user program, the blocks of files, and the     *)
(* spin locks.  They share no state, and one of them moves in a behaviour. *)
(***************************************************************************)
EXTENDS Memory, Umalloc, FileBlocks, KernelLocks, TLC

VARIABLE part

structvars == <<part, memvars, uvars, fbvars, lockvars>>

StructInit ==
  /\ part \in {"memory", "heap", "files", "locks"}
  /\ MemInit /\ UInit /\ FBInit /\ LockInit

StructNext ==
  /\ UNCHANGED part
  /\ \/ part = "memory" /\ MemNext  /\ UNCHANGED <<uvars, fbvars, lockvars>>
     \/ part = "heap"   /\ UNext    /\ UNCHANGED <<memvars, fbvars, lockvars>>
     \/ part = "files"  /\ FBNext   /\ UNCHANGED <<memvars, uvars, lockvars>>
     \/ part = "locks"  /\ LockNext /\ UNCHANGED <<memvars, uvars, fbvars>>

StructSpec == StructInit /\ [][StructNext]_structvars

(* No definition tells one writer, or one thread, from another. *)
StructSymmetry == Permutations(Writers) \cup Permutations(Threads)
=============================================================================
