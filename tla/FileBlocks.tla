----------------------------- MODULE FileBlocks -----------------------------
(***************************************************************************)
(* The content of files (fs.c, file.c): the bitmap of disk blocks, the     *)
(* direct and indirect blocks of inodes, and processes that write, read    *)
(* and remove files and compete for blocks.                                *)
(*                                                                         *)
(* A block is a row of words, of data or of block numbers.  One round of a *)
(* loop, and one balloc() or bfree(), is one action.  A word that is       *)
(* written says which file it is of and where in it it belongs, so that a  *)
(* misplaced one can be told.  What is in a free block is forgotten.       *)
(***************************************************************************)
EXTENDS Naturals, FiniteSetsExt

CONSTANTS
  Writers,       \* processes
  Files,         \* inodes, as numbers from 0
  Opens,         \* entries of the file table, which processes share
  NBLOCKS,       \* data blocks
  BPB,           \* blocks that one block of the bitmap tells about
  BSIZE,         \* words in a block, NINDIRECT block numbers among them
  NDIRECT, NINDIRECT,
  MAXOPBLOCKS,   \* blocks that a call may log
  Counts,        \* the counts that write() is called with
  None

ASSUME FileBlocksAssumption ==
  /\ {NBLOCKS, BPB, BSIZE, NDIRECT, NINDIRECT, MAXOPBLOCKS} \subseteq Nat \ {0}
  /\ Files \subseteq Nat /\ Counts \subseteq Nat
  /\ NINDIRECT <= BSIZE
  /\ MAXOPBLOCKS >= 6
  /\ None \notin Files \cup Writers

Blocks == 1 .. NBLOCKS
Words  == 0 .. BSIZE - 1

MAXFILE == NDIRECT + NINDIRECT

VARIABLES
  used,     \* the blocks marked in the bitmap
  word,     \* of each block
  addrs,    \* of each inode, NDIRECT for the indirect block; 0 for none
  size,
  open,     \* inode and offset of each entry of the file table
  holder,   \* who holds the lock of each inode
  op        \* what each process does

fbvars == <<used, word, addrs, size, open, holder, op>>

Blank   == [w \in Words |-> 0]
Old     == [w \in Words |-> NBLOCKS + 1]
NoAddrs == [k \in 0 .. NDIRECT |-> 0]
NotOpen == [ip |-> None, off |-> 0]

(* left is what filewrite() still has to write, at and end are the bounds  *)
(* of the writei() in progress, log the blocks it has logged.              *)
NoOp == [do |-> "idle", f |-> None, left |-> 0, at |-> 0, end |-> 0, log |-> {}]

FBInit ==
  /\ used = {} /\ word = [b \in Blocks |-> Old]
  /\ addrs = [i \in Files |-> NoAddrs]
  /\ size = [i \in Files |-> 0]
  /\ open = [f \in Opens |-> NotOpen]
  /\ holder = [i \in Files |-> None]
  /\ op = [p \in Writers |-> NoOp]

-----------------------------------------------------------------------------
(* What belongs at place k of file i: no block number, not 0, and not Old. *)
Text(i, k) == NBLOCKS + 2 + i * MAXFILE * BSIZE + k

(* bmap() of what is there: the block that holds block n of file i, or 0.  *)
BlockOf(i, n) ==
  IF n < NDIRECT THEN addrs[i][n]
  ELSE IF addrs[i][NDIRECT] = 0 THEN 0
  ELSE word[addrs[i][NDIRECT]][n - NDIRECT]

(* The block of the bitmap for block b, and other blocks in the log.       *)
Data(b)   == <<"data", b>>
Bitmap(b) == <<"bitmap", b \div BPB>>
Inode(i)  == <<"inode", i>>

FreeBlocks == Blocks \ used

(* balloc() returns b, zeroed; it panics when there is none. *)
Balloc(b) ==
  /\ FreeBlocks # {} /\ b = Min(FreeBlocks)
  /\ used' = used \cup {b}
  /\ word' = [word EXCEPT ![b] = Blank]

Idle(p) == op[p].do = "idle"

InodeOf(p) == open[op[p].f].ip

(* The blocks of S are in the log of p's call as well.                     *)
Logs(p, S) == op' = [op EXCEPT ![p].log = @ \cup S]

-----------------------------------------------------------------------------
(* open and close; the last close of a removed file truncates it.          *)

InUse(f) == \E p \in Writers : op[p].f = f

Open(f, i) ==
  /\ open[f] = NotOpen /\ holder[i] = None
  /\ open' = [open EXCEPT ![f].ip = i]
  /\ UNCHANGED <<used, word, addrs, size, holder, op>>

Close(f) ==
  /\ open[f] # NotOpen /\ ~InUse(f)
  /\ open' = [open EXCEPT ![f] = NotOpen]
  /\ UNCHANGED <<used, word, addrs, size, holder, op>>

(* fileread() of n words, or of what there is: only the offset changes.    *)
Read(f, n) ==
  LET i == open[f].ip IN
  /\ i # None /\ holder[i] = None /\ open[f].off < size[i]
  /\ open' = [open EXCEPT ![f].off = Min({@ + n, size[i]})]
  /\ UNCHANGED <<used, word, addrs, size, holder, op>>

-----------------------------------------------------------------------------
(* filewrite() *)

Write(p, f, n) ==
  /\ Idle(p) /\ open[f].ip # None
  /\ op' = [op EXCEPT ![p] = [NoOp EXCEPT !.do = "write", !.f = f, !.left = n]]
  /\ UNCHANGED <<used, word, addrs, size, open, holder>>

(* The most that filewrite() writes in one transaction.  Mutant: without   *)
(* room for the two blocks of slop.                                        *)
MaxChunkNoSlop == ((MAXOPBLOCKS - 1 - 1) \div 2) * BSIZE

MaxChunk == ((MAXOPBLOCKS - 1 - 1 - 2) \div 2) * BSIZE

Chunk(p) == Min({op[p].left, MaxChunk})

(* begin_op(), ilock() and the first lines of writei().                    *)
Begin(p) ==
  LET i   == InodeOf(p)
      off == open[op[p].f].off IN
  /\ op[p].do = "write" /\ op[p].left > 0 /\ holder[i] = None
  /\ off + Chunk(p) <= MAXFILE * BSIZE
  /\ holder' = [holder EXCEPT ![i] = p]
  /\ op' = [op EXCEPT ![p].do = "writei", ![p].at = off, ![p].end = off + Chunk(p), ![p].log = {}]
  /\ UNCHANGED <<used, word, addrs, size, open>>

(* writei() fails when the file would become too large.                    *)
TooLarge(p) ==
  /\ op[p].do = "write" /\ op[p].left > 0 /\ holder[InodeOf(p)] = None
  /\ open[op[p].f].off + Chunk(p) > MAXFILE * BSIZE
  /\ op' = [op EXCEPT ![p] = NoOp]
  /\ UNCHANGED <<used, word, addrs, size, open, holder>>

Writing(p) == op[p].do = "writei" /\ op[p].at < op[p].end

Block(p) == op[p].at \div BSIZE

(* bmap() allocates what is missing.                                       *)
MapDirect(p, b) ==
  LET i == InodeOf(p) IN
  /\ Writing(p) /\ Block(p) < NDIRECT /\ addrs[i][Block(p)] = 0
  /\ Balloc(b)
  /\ addrs' = [addrs EXCEPT ![i][Block(p)] = b]
  /\ Logs(p, {Bitmap(b), Data(b)})
  /\ UNCHANGED <<size, open, holder>>

MapIndirect(p, b) ==
  LET i == InodeOf(p) IN
  /\ Writing(p) /\ Block(p) >= NDIRECT /\ addrs[i][NDIRECT] = 0
  /\ Balloc(b)
  /\ addrs' = [addrs EXCEPT ![i][NDIRECT] = b]
  /\ Logs(p, {Bitmap(b), Data(b)})
  /\ UNCHANGED <<size, open, holder>>

MapEntry(p, b) ==
  LET i == InodeOf(p)
      a == addrs[i][NDIRECT]
      n == Block(p) - NDIRECT IN
  /\ Writing(p) /\ Block(p) >= NDIRECT /\ a # 0 /\ word[a][n] = 0
  /\ FreeBlocks # {} /\ b = Min(FreeBlocks)
  /\ used' = used \cup {b}
  /\ word' = [word EXCEPT ![b] = Blank, ![a][n] = b]
  /\ Logs(p, {Bitmap(b), Data(b), Data(a)})
  /\ UNCHANGED <<addrs, size, open, holder>>

(* A round of the loop of writei().                                        *)
WriteBlock(p) ==
  LET i == InodeOf(p)
      b == BlockOf(i, Block(p))
      m == Min({op[p].end - op[p].at, BSIZE - (op[p].at % BSIZE)})
      k == op[p].at IN
  /\ Writing(p) /\ b # 0
  /\ word' = [word EXCEPT ![b] =
                [w \in Words |-> IF w \in (k % BSIZE) .. (k % BSIZE) + m - 1
                                 THEN Text(i, Block(p) * BSIZE + w) ELSE @[w]]]
  /\ op' = [op EXCEPT ![p].at = @ + m, ![p].log = @ \cup {Data(b)}]
  /\ UNCHANGED <<used, addrs, size, open, holder>>

(* The end of writei(): the inode is logged when it has grown.  Mutant:    *)
(* it grows to the end of a block.                                         *)
SizeAfterRounded(p) == Max({size[InodeOf(p)], (Block(p) + 1) * BSIZE})

SizeAfter(p) == Max({size[InodeOf(p)], op[p].end})

SetSize(p) ==
  LET i == InodeOf(p) IN
  /\ op[p].do = "writei" /\ op[p].at = op[p].end
  /\ size' = [size EXCEPT ![i] = SizeAfter(p)]
  /\ op' = [op EXCEPT ![p].do = "written",
                      ![p].log = IF op[p].end > size[i] THEN @ \cup {Inode(i)} ELSE @]
  /\ UNCHANGED <<used, word, addrs, open, holder>>

EndWrite(p) ==
  LET left == op[p].left - (op[p].end - open[op[p].f].off) IN
  /\ op[p].do = "written"
  /\ open' = [open EXCEPT ![op[p].f].off = op[p].end]
  /\ holder' = [holder EXCEPT ![InodeOf(p)] = None]
  /\ op' = [op EXCEPT ![p] = IF left = 0 THEN NoOp
                             ELSE [NoOp EXCEPT !.do = "write", !.f = op[p].f, !.left = left]]
  /\ UNCHANGED <<used, word, addrs, size>>

-----------------------------------------------------------------------------
(* iput() of a removed file that nobody has open: itrunc() *)

Truncate(p, i) ==
  /\ Idle(p) /\ size[i] > 0 /\ holder[i] = None
  /\ \A f \in Opens : open[f].ip # i
  /\ holder' = [holder EXCEPT ![i] = p]
  /\ op' = [op EXCEPT ![p].do = "itrunc"]
  /\ UNCHANGED <<used, word, addrs, size, open>>

Truncating(p, i) == op[p].do = "itrunc" /\ holder[i] = p

(* bfree() panics when the block is free.                                  *)
Bfree(b) ==
  /\ b \in used
  /\ used' = used \ {b}
  /\ word' = [word EXCEPT ![b] = Old]

Direct(i) == {k \in 0 .. NDIRECT - 1 : addrs[i][k] # 0}

FreeDirect(p, i) ==
  LET k == Min(Direct(i)) IN
  /\ Truncating(p, i) /\ Direct(i) # {}
  /\ Bfree(addrs[i][k])
  /\ addrs' = [addrs EXCEPT ![i][k] = 0]
  /\ UNCHANGED <<size, open, holder, op>>

(* The indirect block keeps its entries; at counts them.                   *)
FreeEntry(p, i) ==
  LET a == addrs[i][NDIRECT] IN
  /\ Truncating(p, i) /\ Direct(i) = {} /\ a # 0 /\ op[p].at < NINDIRECT
  /\ IF word[a][op[p].at] # 0 THEN Bfree(word[a][op[p].at]) ELSE UNCHANGED <<used, word>>
  /\ op' = [op EXCEPT ![p].at = @ + 1]
  /\ UNCHANGED <<addrs, size, open, holder>>

FreeIndirect(p, i) ==
  /\ Truncating(p, i) /\ Direct(i) = {} /\ addrs[i][NDIRECT] # 0 /\ op[p].at = NINDIRECT
  /\ Bfree(addrs[i][NDIRECT])
  /\ addrs' = [addrs EXCEPT ![i][NDIRECT] = 0]
  /\ UNCHANGED <<size, open, holder, op>>

Truncated(p, i) ==
  /\ Truncating(p, i) /\ addrs[i] = NoAddrs
  /\ size' = [size EXCEPT ![i] = 0]
  /\ holder' = [holder EXCEPT ![i] = None]
  /\ op' = [op EXCEPT ![p] = NoOp]
  /\ UNCHANGED <<used, word, addrs, open>>

-----------------------------------------------------------------------------
WriteStep(p) ==
  \/ \E f \in Opens, n \in Counts : Write(p, f, n)
  \/ Begin(p) \/ TooLarge(p) \/ WriteBlock(p) \/ SetSize(p) \/ EndWrite(p)
  \/ \E b \in Blocks : MapDirect(p, b) \/ MapIndirect(p, b) \/ MapEntry(p, b)

TruncStep(p, i) ==
  \/ Truncate(p, i) \/ FreeDirect(p, i) \/ FreeEntry(p, i)
  \/ FreeIndirect(p, i) \/ Truncated(p, i)

FBNext ==
  \/ \E p \in Writers : WriteStep(p) \/ \E i \in Files : TruncStep(p, i)
  \/ \E f \in Opens : Close(f) \/ Read(f, 1) \/ \E i \in Files : Open(f, i)

FBSpec == FBInit /\ [][FBNext]_fbvars

-----------------------------------------------------------------------------
(* Properties *)

(* The places of files that hold a block; itrunc() leaves the numbers of   *)
(* what it has freed in the indirect block.                                *)
BlockPlaces == {x \in Files \X (0 .. MAXFILE) :
  LET i == x[1]
      n == x[2]
  IN IF n <= NDIRECT THEN addrs[i][n] # 0
     ELSE /\ BlockOf(i, n - 1) # 0
          /\ \A p \in Writers : Truncating(p, i) => n - 1 - NDIRECT >= op[p].at}

BlockAt(x) == IF x[2] <= NDIRECT THEN addrs[x[1]][x[2]] ELSE BlockOf(x[1], x[2] - 1)

(* balloc(), bfree(), bmap(), itrunc(): a block that is marked in the      *)
(* bitmap is in one place of one file, and one that is not is in none,     *)
(* while files grow and go at the same time.                               *)
BlocksOwnedOnce ==
  /\ {BlockAt(x) : x \in BlockPlaces} = used
  /\ Cardinality(BlockPlaces) = Cardinality(used)

(* How far file i is written: its size, or the end of what a writei() in   *)
(* progress has come to.                                                   *)
Written(i) ==
  IF \E p \in Writers : op[p].do = "writei" /\ InodeOf(p) = i
  THEN Max({size[i], op[holder[i]].at})
  ELSE size[i]

(* readi() finds at each place of a file what writei() has put there,      *)
(* whichever offsets, chunks and blocks it was written in, and whoever has *)
(* had the blocks before.                                                  *)
ReadsBack ==
  \A i \in Files : (\E p \in Writers : Truncating(p, i)) \/
    \A k \in 0 .. MAXFILE * BSIZE - 1 : k < Written(i) =>
      LET b == BlockOf(i, k \div BSIZE) IN b # 0 /\ word[b][k % BSIZE] = Text(i, k)

(* The bitmap, the addresses and the contents of files agree. *)
BlocksKept == BlocksOwnedOnce /\ ReadsBack

(* filewrite() writes "a few blocks at a time to avoid exceeding the       *)
(* maximum log transaction size" (file.c:127): no writei() logs more       *)
(* blocks than begin_op() has reserved, wherever it starts, and even when  *)
(* every block it allocates is in another block of the bitmap.             *)
WritesFit == \A p \in Writers : Cardinality(op[p].log) <= MAXOPBLOCKS
=============================================================================
