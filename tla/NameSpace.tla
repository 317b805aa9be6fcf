------------------------------ MODULE NameSpace ------------------------------
(***************************************************************************)
(* What the file system promises about names, without locks, caches and    *)
(* reference counts: names come and go one at a time, a directory is       *)
(* removed only when it is empty, and an inode is given back only when     *)
(* nothing names it and no process uses it.                                *)
(***************************************************************************)
EXTENDS Naturals

CONSTANTS Inodes, Names, Root

VARIABLES
  kind,   \* of each inode: "free", "dir", ...
  tree,   \* the inode that each name of each directory stands for, or 0
  used    \* the inodes that processes have open, are in, or work on

nsvars == <<kind, tree, used>>

Named(i) == \E d \in Inodes, n \in Names : tree[d][n] = i

NoNames == [n \in Names |-> 0]

Allocated == {i \in Inodes : kind[i] # "free"}

NSInit ==
  /\ kind = [i \in Inodes |-> IF i = Root THEN "dir" ELSE "free"]
  /\ tree = [i \in Inodes |-> NoNames]
  /\ used = {Root}

Create(d, n, i, k) ==
  /\ kind[d] = "dir" /\ tree[d][n] = 0
  /\ kind[i] = "free"
  /\ kind' = [kind EXCEPT ![i] = k]
  /\ tree' = [tree EXCEPT ![d][n] = i]

Link(d, n, i) ==
  /\ kind[d] = "dir" /\ tree[d][n] = 0
  /\ kind[i] \notin {"free", "dir"}
  /\ tree' = [tree EXCEPT ![d][n] = i]
  /\ UNCHANGED kind

Unlink(d, n) ==
  LET i == tree[d][n] IN
  /\ i # 0
  /\ kind[i] = "dir" => tree[i] = NoNames
  /\ tree' = [tree EXCEPT ![d][n] = 0]
  /\ UNCHANGED kind

Reclaim(i) ==
  /\ i \in Allocated \ (used \cup {Root}) /\ ~Named(i)
  /\ kind' = [kind EXCEPT ![i] = "free"]
  /\ tree' = [tree EXCEPT ![i] = NoNames]

NSNext ==
  /\ used' \subseteq Allocated'
  /\ \/ UNCHANGED <<kind, tree>>
     \/ \E i \in Inodes : Reclaim(i)
     \/ \E d \in Inodes, n \in Names :
          \/ Unlink(d, n)
          \/ \E i \in Inodes : Link(d, n, i) \/ \E k \in {"dir", "file", "dev"} : Create(d, n, i, k)

NSSpec == NSInit /\ [][NSNext]_nsvars
=============================================================================
