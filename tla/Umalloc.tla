------------------------------ MODULE Umalloc ------------------------------
(***************************************************************************)
(* malloc() and free() of user programs (umalloc.c): a ring of free blocks *)
(* in the order of their addresses, searched from where the last call left *)
(* off.  One round of a loop is one action.                                *)
(*                                                                         *)
(* Memory is counted in headers.  Address 0 is base, the block of size 0   *)
(* that begins the ring; the heap begins at 1.                             *)
(***************************************************************************)
EXTENDS Naturals, FiniteSets

CONSTANTS
  NALLOC,   \* morecore() asks sbrk() for at least so much (4096)
  MaxUnits, \* bound on what a program asks for, header included
  HEAPMAX   \* what the heap can grow to

ASSUME UmallocAssumption ==
  NALLOC \in Nat \ {0} /\ MaxUnits \in Nat /\ HEAPMAX \in Nat

base == 0
Addresses == base .. HEAPMAX
Null == HEAPMAX + 1

VARIABLES
  header,   \* ptr and size of the header at each address
  freep,    \* where in the ring a search begins, or Null
  top,      \* the end of the heap
  lent,     \* the blocks handed out and not freed
  extra,    \* what the program has got from sbrk() for itself
  uop       \* the call in progress

uvars == <<header, freep, top, lent, extra, uop>>

NoHeader == [ptr |-> Null, size |-> 0]
NoCall   == [do |-> "idle", need |-> 0, prevp |-> Null, bp |-> Null]

UInit ==
  /\ header = [a \in Addresses |-> NoHeader]
  /\ freep = Null /\ top = 1
  /\ lent = {} /\ extra = {} /\ uop = NoCall

-----------------------------------------------------------------------------
(* malloc(): prevp is the block before the one that it looks at.           *)

Malloc(n) ==
  /\ uop.do = "idle"
  /\ header' = IF freep = Null THEN [header EXCEPT ![base] = [ptr |-> base, size |-> 0]]
               ELSE header
  /\ freep' = IF freep = Null THEN base ELSE freep
  /\ uop' = [NoCall EXCEPT !.do = "search", !.need = n, !.prevp = freep']
  /\ UNCHANGED <<top, lent, extra>>

Looked == header[uop.prevp].ptr

Large == header[Looked].size >= uop.need

(* It fits exactly: the block leaves the ring.  Otherwise it gives its end. *)
TakeAll ==
  LET p == Looked IN
  /\ uop.do = "search" /\ header[p].size = uop.need
  /\ header' = [header EXCEPT ![uop.prevp].ptr = header[p].ptr, ![p].ptr = Null]
  /\ lent' = lent \cup {p}
  /\ freep' = uop.prevp
  /\ uop' = NoCall
  /\ UNCHANGED <<top, extra>>

TakeTail ==
  LET p    == Looked
      rest == header[p].size - uop.need IN
  /\ uop.do = "search" /\ header[p].size > uop.need
  /\ header' = [header EXCEPT ![p].size = rest,
                              ![p + rest] = [ptr |-> Null, size |-> uop.need]]
  /\ lent' = lent \cup {p + rest}
  /\ freep' = uop.prevp
  /\ uop' = NoCall
  /\ UNCHANGED <<top, extra>>

NextBlock ==
  /\ uop.do = "search" /\ ~Large /\ Looked # freep
  /\ uop' = [uop EXCEPT !.prevp = Looked]
  /\ UNCHANGED <<header, freep, top, lent, extra>>

(* All the ring is too small: morecore() frees a new block into it.        *)
Ask == IF uop.need < NALLOC THEN NALLOC ELSE uop.need

MoreCore ==
  /\ uop.do = "search" /\ ~Large /\ Looked = freep
  /\ top + Ask <= HEAPMAX
  /\ header' = [header EXCEPT ![top] = [ptr |-> Null, size |-> Ask]]
  /\ top' = top + Ask
  /\ uop' = [uop EXCEPT !.do = "refill", !.bp = top, !.prevp = freep]
  /\ UNCHANGED <<freep, lent, extra>>

NoCore ==
  /\ uop.do = "search" /\ ~Large /\ Looked = freep
  /\ top + Ask > HEAPMAX
  /\ uop' = NoCall
  /\ UNCHANGED <<header, freep, top, lent, extra>>

-----------------------------------------------------------------------------
(* free(): the search for the place of bp, p being prevp here. *)

FreeCall(a) ==
  /\ uop.do = "idle" /\ a \in lent
  /\ lent' = lent \ {a}
  /\ uop' = [NoCall EXCEPT !.do = "free", !.bp = a, !.prevp = freep]
  /\ UNCHANGED <<header, freep, top, extra>>

(* bp comes between p and the next block, or before or after all of them.  *)
Belongs(p, next, bp) ==
  \/ p < bp /\ bp < next
  \/ p >= next /\ (bp > p \/ bp < next)

Seek ==
  /\ uop.do \in {"free", "refill"} /\ ~Belongs(uop.prevp, Looked, uop.bp)
  /\ uop' = [uop EXCEPT !.prevp = Looked]
  /\ UNCHANGED <<header, freep, top, lent, extra>>

(* The two ifs of free(): bp is joined to the block after it, then p to    *)
(* it.  Mutant: only to the block after it.                                *)
JoinNext(h, bp, next) ==
  IF bp + h[bp].size = next
  THEN [h EXCEPT ![bp] = [ptr |-> h[next].ptr, size |-> @.size + h[next].size],
                 ![next] = NoHeader]
  ELSE [h EXCEPT ![bp].ptr = next]

JoinPrevNever(h, p, bp) == [h EXCEPT ![p].ptr = bp]

JoinPrev(h, p, bp) ==
  IF p + h[p].size = bp
  THEN [h EXCEPT ![p] = [ptr |-> h[bp].ptr, size |-> @.size + h[bp].size],
                 ![bp] = NoHeader]
  ELSE [h EXCEPT ![p].ptr = bp]

(* After morecore() malloc() looks at the block after freep.               *)
Insertion ==
  /\ uop.do \in {"free", "refill"} /\ Belongs(uop.prevp, Looked, uop.bp)
  /\ header' = JoinPrev(JoinNext(header, uop.bp, Looked), uop.prevp, uop.bp)
  /\ freep' = uop.prevp
  /\ uop' = IF uop.do = "free" THEN NoCall
            ELSE [uop EXCEPT !.do = "search", !.bp = Null]
  /\ UNCHANGED <<top, lent, extra>>

-----------------------------------------------------------------------------
(* The program calls sbrk() itself; malloc()'s next block leaves a gap.    *)
OwnSbrk ==
  /\ uop.do = "idle" /\ top + 1 <= HEAPMAX
  /\ extra' = extra \cup {top}
  /\ top' = top + 1
  /\ UNCHANGED <<header, freep, lent, uop>>

UNext ==
  \/ \E n \in 1 .. MaxUnits : Malloc(n)
  \/ \E a \in Addresses : FreeCall(a)
  \/ TakeAll \/ TakeTail \/ NextBlock \/ MoreCore \/ NoCore
  \/ Seek \/ Insertion \/ OwnSbrk

USpec == UInit /\ [][UNext]_uvars

-----------------------------------------------------------------------------
(* Properties *)

(* The free blocks, base apart.                                            *)
InRing == {a \in Addresses \ {base} : header[a].ptr # Null}

Extent(a) == a .. a + header[a].size - 1

(* Belongs calls of malloc() and free(): every unit of the heap is in one  *)
(* free block, in one block that is lent, or the program's own; the ring   *)
(* goes through the free blocks in the order of their addresses and comes  *)
(* back to base; and no free block ends where the next begins.             *)
ArenaTiled ==
  uop.do = "idle" /\ freep # Null =>
    /\ freep \in InRing \cup {base}
    /\ \A u \in 1 .. top - 1 :
         Cardinality({a \in InRing \cup lent : u \in Extent(a)}) = IF u \in extra THEN 0 ELSE 1
    /\ \A a \in InRing \cup {base} :
         LET later == {b \in InRing : b > a} IN
         /\ IF later = {} THEN header[a].ptr = base
            ELSE header[a].ptr \in later /\ \A b \in later : header[a].ptr <= b
         /\ a + header[a].size \notin InRing
=============================================================================
