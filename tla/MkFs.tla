-------------------------------- MODULE MkFs --------------------------------
(***************************************************************************)
(* mkfs.c: the image of a file system with some files.  Sizes are in units *)
(* of a directory entry; an image has its inodes, the contents of the      *)
(* blocks, the indirect blocks, and what is given out of each.             *)
(***************************************************************************)
EXTENDS Integers, SequencesExt

CONSTANTS
  BSIZE,      \* the units of a block
  NDIRECT, NINDIRECT,
  nmeta,      \* the blocks before the first one for data
  FSBLOCKS    \* the blocks that a program may use here

Root  == 1
Empty == << >>                                  \* a unit of zeroes
Entry(name, inum) == <<name, inum>>

NewImage ==
  [din |-> << >>, freeblock |-> nmeta, bitmap |-> {},
   blocks   |-> [b \in 1 .. FSBLOCKS |-> [k \in 0 .. BSIZE - 1 |-> Empty]],
   indirect |-> [b \in 1 .. FSBLOCKS |-> [k \in 0 .. NINDIRECT - 1 |-> 0]]]

Ialloc(img, type) ==
  [img EXCEPT !.din = Append(@, [type |-> type, nlink |-> 1, size |-> 0,
                                 addrs |-> [k \in 0 .. NDIRECT |-> 0]])]

(* Mutant: the indirect block is a new one each time. *)
WithAddressAnew(img, inum, k) ==
  IF k # NDIRECT /\ img.din[inum].addrs[k] # 0 THEN img
  ELSE [img EXCEPT !.din[inum].addrs[k] = img.freeblock, !.freeblock = @ + 1]

(* A block at place k of the inode, unless there is one. *)
WithAddress(img, inum, k) ==
  IF img.din[inum].addrs[k] # 0 THEN img
  ELSE [img EXCEPT !.din[inum].addrs[k] = img.freeblock, !.freeblock = @ + 1]

WithIndirect(img, b, k) ==
  IF img.indirect[b][k] # 0 THEN img
  ELSE [img EXCEPT !.indirect[b][k] = img.freeblock, !.freeblock = @ + 1]

(* Block fbn of the file is there. *)
WithBlock(img, inum, fbn) ==
  IF fbn < NDIRECT THEN WithAddress(img, inum, fbn)
  ELSE LET i == WithAddress(img, inum, NDIRECT) IN
       WithIndirect(i, i.din[inum].addrs[NDIRECT], fbn - NDIRECT)

BlockAt(img, inum, fbn) ==
  LET addrs == img.din[inum].addrs IN
  IF fbn < NDIRECT THEN addrs[fbn]
  ELSE IF addrs[NDIRECT] = 0 THEN 0 ELSE img.indirect[addrs[NDIRECT]][fbn - NDIRECT]

RECURSIVE Iappend(_, _, _)
Iappend(img, inum, xs) ==
  LET off == img.din[inum].size
      fbn == off \div BSIZE
      n1  == IF Len(xs) < (fbn + 1) * BSIZE - off THEN Len(xs) ELSE (fbn + 1) * BSIZE - off
      at  == off - fbn * BSIZE
      i   == WithBlock(img, inum, fbn)
      b   == BlockAt(i, inum, fbn)
      put == [k \in 0 .. BSIZE - 1 |->
                IF at <= k /\ k < at + n1 THEN xs[k - at + 1] ELSE i.blocks[b][k]]
  IN IF xs = << >> THEN img
     ELSE Iappend([i EXCEPT !.blocks[b] = put, !.din[inum].size = off + n1],
                  inum, SubSeq(xs, n1 + 1, Len(xs)))

(* A file is read and appended a block at a time. *)
Chunks(xs) ==
  [k \in 1 .. (Len(xs) + BSIZE - 1) \div BSIZE |->
     SubSeq(xs, (k - 1) * BSIZE + 1, IF k * BSIZE < Len(xs) THEN k * BSIZE ELSE Len(xs))]

AddFile(img, file) ==
  LET made == Ialloc(img, "file")
      inum == Len(made.din)
      named == Iappend(made, Root, <<Entry(file.name, inum)>>)
  IN FoldLeft(LAMBDA i, chunk : Iappend(i, inum, chunk), named, Chunks(file.data))

(* The size of the root becomes the multiple of a block above it. *)
RootRounded(img) == [img EXCEPT !.din[Root].size = (@ \div BSIZE + 1) * BSIZE]

Balloc(img) == [img EXCEPT !.bitmap = 0 .. img.freeblock - 1]

MkFs(fs) ==
  LET root == Iappend(Ialloc(NewImage, "dir"), Root, <<Entry(".", Root)>>)
      dots == Iappend(root, Root, <<Entry("..", Root)>>)
  IN Balloc(RootRounded(FoldLeft(AddFile, dots, fs)))

-----------------------------------------------------------------------------
(* What the kernel finds in the image: the units of a file, and the blocks *)
(* that one uses, data and indirect.                                       *)

UnitAt(img, inum, k) ==
  LET b == BlockAt(img, inum, k \div BSIZE) IN
  IF b = 0 THEN Empty ELSE img.blocks[b][k % BSIZE]

ReadAll(img, inum) == [k \in 1 .. img.din[inum].size |-> UnitAt(img, inum, k - 1)]

(* Every place that names a block: in an inode, or in an indirect block. *)
Uses(img) ==
  {<<inum, k>> \in (DOMAIN img.din) \X (0 .. NDIRECT + NINDIRECT) :
     IF k <= NDIRECT THEN img.din[inum].addrs[k] # 0
     ELSE BlockAt(img, inum, k - 1) # 0}
Named(img, p) ==
  IF p[2] <= NDIRECT THEN img.din[p[1]].addrs[p[2]] ELSE BlockAt(img, p[1], p[2] - 1)

(* The kernel finds each file with its contents under its name, and        *)
(* nothing else; no block is used twice, and the bitmap has those in use.  *)
ImageOf(fs, img) ==
  LET listed == <<Entry(".", Root), Entry("..", Root)>>
                  \o [k \in DOMAIN fs |-> Entry(fs[k].name, k + 1)]
      blocks == {Named(img, p) : p \in Uses(img)}
  IN /\ \A k \in DOMAIN fs : ReadAll(img, k + 1) = fs[k].data
     /\ SelectSeq(ReadAll(img, Root), LAMBDA x : x # Empty) = listed
     /\ Cardinality(blocks) = Cardinality(Uses(img))
     /\ blocks = nmeta .. img.freeblock - 1
     /\ img.bitmap = 0 .. img.freeblock - 1
=============================================================================
