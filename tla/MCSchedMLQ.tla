----------------------------- MODULE MCSchedMLQ -----------------------------
(* The MLQ and DMLQ builds, small enough for TLC. *)
EXTENDS SchedMLQ, TLC

(* No definition tells one CPU from another. *)
CPUSymmetry == Permutations(CPUs)
=============================================================================
