----------------------------- MODULE MCBufCache -----------------------------
(* A cache small enough for TLC. *)
EXTENDS BufCache, TLC

(* No definition tells one process, buffer or block from another. *)
CacheSymmetry == Permutations(Procs) \cup Permutations(Bufs) \cup Permutations(Blocks)
=============================================================================
