------------------------------- MODULE Memory -------------------------------
(***************************************************************************)
(* Pages of physical memory and who owns them: the page allocator          *)
(* (kalloc.c), the page tables (vm.c), and the calls that build and tear   *)
(* down address spaces, fork(), exec(), sbrk() and wait().                 *)
(*                                                                         *)
(* Every kalloc() and kfree() is an action of its own, so calls compete    *)
(* for the last pages and run out of memory half way.  Which page kalloc() *)
(* hands out is fixed; no property depends on it.                          *)
(***************************************************************************)
EXTENDS Integers, FiniteSetsExt

CONSTANTS
  PSlots,           \* the slots of the process table; 1 is init
  NPAGES,
  PGSIZE,           \* sizes are counted in units of which a page has so many
  SPAN,             \* pages that one page table maps (NPTENTRIES)
  UTABLES, KTABLES, \* page tables of an address space: user part, kernel part
  Requests          \* the sizes that sbrk() and the segments of files ask for

ASSUME MemoryAssumption ==
  /\ PSlots \subseteq Nat /\ 1 \in PSlots
  /\ {NPAGES, PGSIZE, SPAN, UTABLES, KTABLES} \subseteq Nat \ {0}
  /\ NPAGES >= KTABLES + 4 /\ Requests \subseteq 0 .. UTABLES * SPAN * PGSIZE - 1

Pages     == 1 .. NPAGES
Tables    == 0 .. UTABLES + KTABLES - 1
KTables   == UTABLES .. UTABLES + KTABLES - 1
UserPages == 0 .. UTABLES * SPAN - 1
KERNBASE  == UTABLES * SPAN * PGSIZE

(* "fresh" is the image that exec() builds, and after that the one it      *)
(* has replaced.                                                           *)
Images == PSlots \X {"own", "fresh"}

VARIABLES
  freelist,   \* the pages that kalloc() can hand out
  image,      \* page directory, page tables and pages: page numbers, or 0
  kstack, sz, \* of each slot
  pstate,     \* "unused", "embryo", "live" or "zombie"
  work        \* what each process is doing, in which call

memvars == <<freelist, image, kstack, sz, pstate, work>>

NoImage == [dir   |-> 0,
            table |-> [t \in Tables |-> 0],
            pte   |-> [a \in UserPages |-> 0]]

(* on is the image of the call, a the page it has come to, from and to are *)
(* the sizes between which it grows or shrinks, mem a page not mapped yet. *)
NoWork == [call |-> "none", do |-> "idle", on |-> <<1, "own">>,
           a |-> 0, from |-> 0, to |-> 0, mem |-> 0]

(* userinit() has made the first process, with one page.                   *)
InitImage == [dir   |-> 1,
              table |-> [t \in Tables |-> CASE t = 0 -> 2
                                            [] t \in KTables -> t - UTABLES + 3
                                            [] OTHER -> 0],
              pte   |-> [a \in UserPages |-> IF a = 0 THEN KTABLES + 3 ELSE 0]]

MemInit ==
  /\ freelist = KTABLES + 5 .. NPAGES
  /\ image = [i \in Images |-> IF i = <<1, "own">> THEN InitImage ELSE NoImage]
  /\ kstack = [p \in PSlots |-> IF p = 1 THEN KTABLES + 4 ELSE 0]
  /\ sz = [p \in PSlots |-> IF p = 1 THEN PGSIZE ELSE 0]
  /\ pstate = [p \in PSlots |-> IF p = 1 THEN "live" ELSE "unused"]
  /\ work = [p \in PSlots |-> NoWork]

-----------------------------------------------------------------------------
NoMemory == freelist = {}

(* kalloc() returns g.                                                     *)
Kalloc(g) == freelist # {} /\ g = Min(freelist) /\ freelist' = freelist \ {g}

Kfree(g) == freelist' = freelist \cup {g}

Keep == UNCHANGED freelist

(* PGROUNDUP(), in pages.                                                  *)
PageUp(s) == (s + PGSIZE - 1) \div PGSIZE

On(p) == image[work[p].on]

Doing(p, what) == work[p].do = what

Continue(p, w) == work' = [work EXCEPT ![p] = w]

SetImage(p, img) == image' = [image EXCEPT ![work[p].on] = img]

(* The caller starts allocuvm() or the loop of copyuvm(), deallocuvm() of  *)
(* what is between two sizes, and freevm().                                *)
Grow(w, old, new) ==
  [w EXCEPT !.do = "page", !.a = PageUp(old), !.from = old, !.to = new]

Shrink(w, old, new) == [w EXCEPT !.do = "dealloc", !.a = PageUp(new), !.to = old]

Discard(w) == [w EXCEPT !.do = "freevm", !.a = 0, !.to = KERNBASE]

-----------------------------------------------------------------------------
(* The calls.  A process whose pages are all gone cannot make any.         *)

Runs(p) ==
  /\ pstate[p] = "live" /\ Doing(p, "idle")
  /\ \E a \in UserPages : image[<<p, "own">>].pte[a] # 0

Fork(p, q) ==
  /\ Runs(p) /\ pstate[q] = "unused"
  /\ pstate' = [pstate EXCEPT ![q] = "embryo"]
  /\ Continue(p, [NoWork EXCEPT !.call = "fork", !.do = "kstack", !.on = <<q, "own">>])
  /\ UNCHANGED <<freelist, image, kstack, sz>>

Exec(p) ==
  /\ Runs(p)
  /\ Continue(p, [NoWork EXCEPT !.call = "exec", !.do = "dir", !.on = <<p, "fresh">>])
  /\ UNCHANGED <<freelist, image, kstack, sz, pstate>>

(* growproc(): allocuvm() refuses to reach KERNBASE, and deallocuvm() to   *)
(* wrap around below 0.  init does not give away the last of its memory.   *)
Sbrk(p, new) ==
  LET w == [NoWork EXCEPT !.on = <<p, "own">>] IN
  /\ Runs(p) /\ new # sz[p] /\ (new > 0 \/ p # 1)
  /\ Continue(p, IF new > sz[p] THEN Grow([w EXCEPT !.call = "sbrk"], sz[p], new)
                 ELSE Shrink([w EXCEPT !.call = "shrink", !.from = new], sz[p], new))
  /\ UNCHANGED <<freelist, image, kstack, sz, pstate>>

MemExit(p) ==
  /\ pstate[p] = "live" /\ Doing(p, "idle") /\ p # 1
  /\ pstate' = [pstate EXCEPT ![p] = "zombie"]
  /\ UNCHANGED <<freelist, image, kstack, sz, work>>

(* wait() has found a zombie.                                              *)
Wait(p, q) ==
  /\ Runs(p) /\ pstate[q] = "zombie"
  /\ \A r \in PSlots : work[r].call = "wait" => work[r].on # <<q, "own">>
  /\ Continue(p, [NoWork EXCEPT !.call = "wait", !.do = "freestack", !.on = <<q, "own">>])
  /\ UNCHANGED <<freelist, image, kstack, sz, pstate>>

-----------------------------------------------------------------------------
(* allocproc(): the kernel stack. *)

Stack(p, g) ==
  LET q == work[p].on[1] IN
  /\ Doing(p, "kstack")
  /\ Kalloc(g)
  /\ kstack' = [kstack EXCEPT ![q] = g]
  /\ Continue(p, [work[p] EXCEPT !.do = "dir"])
  /\ UNCHANGED <<image, sz, pstate>>

NoStack(p) ==
  /\ Doing(p, "kstack") /\ NoMemory
  /\ pstate' = [pstate EXCEPT ![work[p].on[1]] = "unused"]
  /\ Continue(p, NoWork)
  /\ UNCHANGED <<freelist, image, kstack, sz>>

(* setupkvm(): the page directory, then the page tables of the kernel.     *)
Dir(p, g) ==
  /\ Doing(p, "dir")
  /\ Kalloc(g)
  /\ SetImage(p, [On(p) EXCEPT !.dir = g])
  /\ Continue(p, [work[p] EXCEPT !.do = "ktables"])
  /\ UNCHANGED <<kstack, sz, pstate>>

NoDir(p) ==
  /\ Doing(p, "dir") /\ NoMemory
  /\ Continue(p, IF work[p].call = "fork" THEN [work[p] EXCEPT !.do = "freestack"]
                 ELSE NoWork)
  /\ UNCHANGED <<freelist, image, kstack, sz, pstate>>

Missing(img) == {t \in KTables : img.table[t] = 0}

KTable(p, g) ==
  /\ Doing(p, "ktables") /\ Missing(On(p)) # {}
  /\ Kalloc(g)
  /\ SetImage(p, [On(p) EXCEPT !.table[Min(Missing(On(p)))] = g])
  /\ UNCHANGED <<kstack, sz, pstate, work>>

NoKTable(p) ==
  /\ Doing(p, "ktables") /\ Missing(On(p)) # {} /\ NoMemory
  /\ Continue(p, Discard(work[p]))
  /\ UNCHANGED <<freelist, image, kstack, sz, pstate>>

Built(p) ==
  /\ Doing(p, "ktables") /\ Missing(On(p)) = {}
  /\ Continue(p, IF work[p].call = "fork" THEN Grow(work[p], 0, sz[p])
                 ELSE [work[p] EXCEPT !.do = "load"])
  /\ UNCHANGED <<freelist, image, kstack, sz, pstate>>

-----------------------------------------------------------------------------
(* allocuvm() and the loop of copyuvm(): a page, and then maybe a page     *)
(* table to map it in (mappages(), walkpgdir()).                           *)

Page(p, g) ==
  /\ Doing(p, "page") /\ work[p].a * PGSIZE < work[p].to
  /\ Kalloc(g)
  /\ Continue(p, [work[p] EXCEPT !.do = "map", !.mem = g])
  /\ UNCHANGED <<image, kstack, sz, pstate>>

(* allocuvm() gives back what it has mapped, copyuvm() everything.         *)
(* Mutant: the sizes are swapped, so that nothing is given back.           *)
GiveBackNothing(w) == Shrink(w, w.from, w.to)

GiveBack(w) == IF w.call = "fork" THEN Discard(w) ELSE Shrink(w, w.to, w.from)

NoPage(p) ==
  /\ Doing(p, "page") /\ work[p].a * PGSIZE < work[p].to /\ NoMemory
  /\ Continue(p, GiveBack(work[p]))
  /\ UNCHANGED <<freelist, image, kstack, sz, pstate>>

Table(p) == work[p].a \div SPAN

Mapped(p, img) ==
  /\ SetImage(p, [img EXCEPT !.pte[work[p].a] = work[p].mem])
  /\ Continue(p, [work[p] EXCEPT !.do = "page", !.a = @ + 1, !.mem = 0])
  /\ UNCHANGED <<kstack, sz, pstate>>

Map(p) ==
  /\ Doing(p, "map") /\ On(p).table[Table(p)] # 0
  /\ Mapped(p, On(p)) /\ Keep

MapNewTable(p, g) ==
  /\ Doing(p, "map") /\ On(p).table[Table(p)] = 0
  /\ Kalloc(g)
  /\ Mapped(p, [On(p) EXCEPT !.table[Table(p)] = g])

(* allocuvm() frees the page that it could not map last, copyuvm() first.  *)
NoTable(p) ==
  /\ Doing(p, "map") /\ On(p).table[Table(p)] = 0 /\ NoMemory
  /\ Continue(p, IF work[p].call = "fork" THEN [work[p] EXCEPT !.do = "freemem"]
                 ELSE GiveBack(work[p]))
  /\ UNCHANGED <<freelist, image, kstack, sz, pstate>>

FreeMem(p) ==
  LET w == [work[p] EXCEPT !.mem = 0] IN
  /\ Doing(p, "freemem")
  /\ Kfree(work[p].mem)
  /\ Continue(p, IF w.call = "sbrk" THEN NoWork ELSE Discard(w))
  /\ UNCHANGED <<image, kstack, sz, pstate>>

(* All pages are there: sbrk() and fork() are done, exec() goes on.        *)
Grown(p) ==
  LET w == work[p] IN
  /\ Doing(p, "page") /\ w.a * PGSIZE >= w.to
  /\ CASE w.call = "exec" ->
            /\ Continue(p, [w EXCEPT !.do = "load", !.from = w.to])
            /\ UNCHANGED <<sz, pstate>>
       [] w.call = "stack" ->
            /\ Continue(p, [w EXCEPT !.do = "args"])
            /\ UNCHANGED <<sz, pstate>>
       [] OTHER ->
            /\ sz' = [sz EXCEPT ![w.on[1]] = w.to]
            /\ pstate' = [pstate EXCEPT ![w.on[1]] = "live"]
            /\ Continue(p, NoWork)
  /\ UNCHANGED <<freelist, image, kstack>>

-----------------------------------------------------------------------------
(* exec(): the segments of the file, two pages for the stack, the          *)
(* arguments.  The file may be bad at any point.                           *)

Segment(p, new) ==
  /\ Doing(p, "load") /\ new > work[p].from
  /\ Continue(p, Grow(work[p], work[p].from, new))
  /\ UNCHANGED <<freelist, image, kstack, sz, pstate>>

UserStack(p) ==
  LET top == PageUp(work[p].from) * PGSIZE
      w   == [work[p] EXCEPT !.call = "stack"] IN
  /\ Doing(p, "load") /\ top + 2 * PGSIZE < KERNBASE
  /\ Continue(p, Grow(w, top, top + 2 * PGSIZE))
  /\ UNCHANGED <<freelist, image, kstack, sz, pstate>>

Bad(p) ==
  /\ Doing(p, "load") \/ Doing(p, "args")
  /\ Continue(p, Discard(work[p]))
  /\ UNCHANGED <<freelist, image, kstack, sz, pstate>>

(* The images change places; the old one is freed.                         *)
Commit(p) ==
  /\ Doing(p, "args")
  /\ image' = [image EXCEPT ![<<p, "own">>] = image[<<p, "fresh">>],
                            ![<<p, "fresh">>] = image[<<p, "own">>]]
  /\ sz' = [sz EXCEPT ![p] = work[p].to]
  /\ Continue(p, Discard(work[p]))
  /\ UNCHANGED <<freelist, kstack, pstate>>

-----------------------------------------------------------------------------
(* deallocuvm() and the first part of freevm(): one round of the loop.     *)
(* A missing page table is skipped.                                        *)

Unmapping(p) == Doing(p, "dealloc") \/ Doing(p, "freevm")

Unmap(p) ==
  LET w == work[p]
      g == On(p).pte[w.a] IN
  /\ Unmapping(p) /\ w.a * PGSIZE < w.to
  /\ IF On(p).table[Table(p)] = 0
     THEN Continue(p, [w EXCEPT !.a = (Table(p) + 1) * SPAN]) /\ UNCHANGED image /\ Keep
     ELSE /\ Continue(p, [w EXCEPT !.a = @ + 1])
          /\ IF g = 0 THEN UNCHANGED image /\ Keep
             ELSE SetImage(p, [On(p) EXCEPT !.pte[w.a] = 0]) /\ Kfree(g)
  /\ UNCHANGED <<kstack, sz, pstate>>

(* growproc() that has shrunk to nothing takes the size 0 for an error,    *)
(* and leaves sz as it was.                                                *)
Unmapped(p) ==
  LET w == work[p] IN
  /\ Unmapping(p) /\ w.a * PGSIZE >= w.to
  /\ Continue(p, CASE Doing(p, "freevm") -> [w EXCEPT !.do = "freetables"]
                   [] Doing(p, "dealloc") /\ w.mem # 0 -> [w EXCEPT !.do = "freemem"]
                   [] w.mem = 0 /\ w.call \in {"sbrk", "shrink"} -> NoWork
                   [] OTHER -> Discard(w))
  /\ sz' = IF w.call = "shrink" /\ w.from # 0 THEN [sz EXCEPT ![p] = w.from] ELSE sz
  /\ UNCHANGED <<freelist, image, kstack, pstate>>

(* The rest of freevm(): the tables, those of the kernel part too.         *)
TablesOf(img) == {t \in Tables : img.table[t] # 0}

FreeTable(p) ==
  LET t == Min(TablesOf(On(p))) IN
  /\ Doing(p, "freetables") /\ TablesOf(On(p)) # {}
  /\ Kfree(On(p).table[t])
  /\ SetImage(p, [On(p) EXCEPT !.table[t] = 0])
  /\ UNCHANGED <<kstack, sz, pstate, work>>

FreeDir(p) ==
  LET w == work[p] IN
  /\ Doing(p, "freetables") /\ TablesOf(On(p)) = {}
  /\ Kfree(On(p).dir)
  /\ SetImage(p, NoImage)
  /\ Continue(p, IF w.call = "fork" THEN [w EXCEPT !.do = "freestack"] ELSE NoWork)
  /\ pstate' = IF w.call = "wait" THEN [pstate EXCEPT ![w.on[1]] = "unused"] ELSE pstate
  /\ UNCHANGED <<kstack, sz>>

(* wait() frees the stack first, fork() that fails last.                   *)
FreeStack(p) ==
  LET w == work[p]
      q == w.on[1] IN
  /\ Doing(p, "freestack")
  /\ Kfree(kstack[q])
  /\ kstack' = [kstack EXCEPT ![q] = 0]
  /\ IF w.call = "fork"
     THEN pstate' = [pstate EXCEPT ![q] = "unused"] /\ Continue(p, NoWork)
     ELSE Continue(p, Discard(w)) /\ UNCHANGED pstate
  /\ UNCHANGED <<image, sz>>

-----------------------------------------------------------------------------
Call(p) ==
  \/ Exec(p) \/ MemExit(p)
  \/ \E q \in PSlots : Fork(p, q) \/ Wait(p, q)
  \/ \E s \in Requests : Sbrk(p, s)

Take(p) ==
  \/ \E g \in Pages : Stack(p, g) \/ Dir(p, g) \/ KTable(p, g) \/ Page(p, g) \/ MapNewTable(p, g)
  \/ Map(p) \/ Built(p) \/ Grown(p)
  \/ UserStack(p) \/ Bad(p) \/ Commit(p) \/ \E s \in Requests : Segment(p, s)

RunOut(p) == NoStack(p) \/ NoDir(p) \/ NoKTable(p) \/ NoPage(p) \/ NoTable(p)

Give(p) ==
  \/ FreeMem(p) \/ Unmap(p) \/ Unmapped(p)
  \/ FreeTable(p) \/ FreeDir(p) \/ FreeStack(p)

MemNext == \E p \in PSlots : Call(p) \/ Take(p) \/ RunOut(p) \/ Give(p)

MemSpec == MemInit /\ [][MemNext]_memvars

-----------------------------------------------------------------------------
(* Properties *)

(* The places where a page can be.                                         *)
PagePlaces ==
  ({"stack", "spare"} \X PSlots \X {"own"} \X {0}) \cup
  ({"dir"} \X PSlots \X {"own", "fresh"} \X {0}) \cup
  ({"table"} \X PSlots \X {"own", "fresh"} \X Tables) \cup
  ({"pte"} \X PSlots \X {"own", "fresh"} \X UserPages)

PageAt(x) ==
  LET img == image[<<x[2], x[3]>>] IN
  CASE x[1] = "stack" -> kstack[x[2]]
    [] x[1] = "spare" -> work[x[2]].mem
    [] x[1] = "dir"   -> img.dir
    [] x[1] = "table" -> img.table[x[4]]
    [] x[1] = "pte"   -> img.pte[x[4]]

PagesTaken == {x \in PagePlaces : PageAt(x) # 0}

(* kalloc() and kfree(): a page is free, or one stack's, directory's,      *)
(* table's or image's, never two's and never nobody's, also when a call    *)
(* runs out of memory half way while others take and give back pages.      *)
PagesOwnedOnce ==
  /\ {PageAt(x) : x \in PagesTaken} = Pages \ freelist
  /\ Cardinality(PagesTaken) = Cardinality(Pages \ freelist)

(* allocuvm(), deallocuvm() and copyuvm() map what sz says: between calls  *)
(* a process has the pages below its size and no others (none at all after *)
(* sbrk() has taken everything, proc.c:394), and no half-built image.      *)
SizeMapped ==
  \A p \in PSlots : pstate[p] = "live" /\ work[p].do = "idle" =>
    LET own == image[<<p, "own">>] IN
    /\ \/ \A a \in UserPages : own.pte[a] # 0 <=> a * PGSIZE < sz[p]
       \/ \A a \in UserPages : own.pte[a] = 0
    /\ image[<<p, "fresh">>] = NoImage

(* Pages and page tables agree with what the processes have. *)
MemoryKept == PagesOwnedOnce /\ SizeMapped
=============================================================================
