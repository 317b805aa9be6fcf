----------------------------- MODULE BlockStore -----------------------------
(***************************************************************************)
(* What the buffer cache promises: one copy of every block, which a        *)
(* process may have for itself and change, and which nothing else changes. *)
(***************************************************************************)
CONSTANTS Procs, Blocks, Values, Nobody

VARIABLES value, owner   \* of every block

storevars == <<value, owner>>

StoreInit == value \in [Blocks -> Values] /\ owner = [b \in Blocks |-> Nobody]

Take(p, b) ==
  owner[b] = Nobody /\ owner' = [owner EXCEPT ![b] = p] /\ UNCHANGED value

Put(p, b, v) ==
  owner[b] = p /\ value' = [value EXCEPT ![b] = v] /\ UNCHANGED owner

Give(p, b) ==
  owner[b] = p /\ owner' = [owner EXCEPT ![b] = Nobody] /\ UNCHANGED value

StoreNext ==
  \E p \in Procs, b \in Blocks :
    Take(p, b) \/ Give(p, b) \/ \E v \in Values : Put(p, b, v)

StoreSpec == StoreInit /\ [][StoreNext]_storevars
=============================================================================
