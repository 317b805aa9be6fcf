---------------------------- MODULE MCSchedFCFS ----------------------------
(* The FCFS build, small enough for TLC. *)
EXTENDS SchedFCFS, TLC

(* No definition tells one CPU from another. *)
CPUSymmetry == Permutations(CPUs)
=============================================================================
