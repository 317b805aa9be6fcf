------------------------------ MODULE SysCalls ------------------------------
(***************************************************************************)
(* The system calls as user programs see them: processes with descriptors, *)
(* memory and a current directory, open files, pipes and a tree of inodes. *)
(* Calls wait here for children and for pipes.  All else is one step:      *)
(* FileSystem, Log, Pipe and ProcTable have what goes on inside, and that  *)
(* open(), mkdir(), mknod(), link() and unlink() may wait for each other's *)
(* inodes for ever is FileSystem's (Contended of Programs is where).       *)
(*                                                                         *)
(* A program is a sequence of instructions: records with the call in op,   *)
(* its arguments, the variable that gets the result, the results it goes   *)
(* on with (want), and, for a loop around a call, its body.  The bytes of  *)
(* a file come in units, the least that a program writes at a time.        *)
(***************************************************************************)
EXTENDS Integers, SequencesExt

CONSTANTS
  Slots,        \* of the process table; init has slot 1
  NOFILE, NFILE, NINODES,
  NPIPES,       \* how many pipes there is memory for
  MAXFILE,      \* the units of the largest file
  MAXCHUNK,     \* the units that filewrite() writes in a transaction
  PIPEUNITS,    \* the units a pipe holds
  MEMORY,       \* what kalloc() has, in units of the smallest process
  ARGROOM,      \* how many arguments have room on the stack page
  Truncated     \* maps a name that is too long to its first DIRSIZ characters

Fds      == 0 .. NOFILE - 1
FileNos  == 1 .. NFILE
Inums    == 1 .. NINODES
ROOTINO  == 1
InitSlot == 1

VARIABLES
  procs,    \* ptable: state, parent, killed, sz, cwd and ofile, and of the program
            \* what is to come of it, its variables, what it has read, has read
            \* in this loop, and has written of the buffer it writes
  files,    \* ftable: ref and off, an inode or a pipe, and the ways it is open
  pipes,    \* what is in each pipe
  inodes,   \* type, nlink, the entries of a directory, the contents of a file
  verdict   \* no program has met a result that it does not expect

sysvars == <<procs, files, pipes, inodes, verdict>>

NoInode == [type |-> "free", nlink |-> 0, names |-> << >>, data |-> << >>]
UnusedFile == [ref |-> 0, kind |-> "none", of |-> 0, off |-> 0,
               readable |-> FALSE, writable |-> FALSE]
NoProc == [state |-> "unused", parent |-> 0, killed |-> FALSE, sz |-> 0, cwd |-> 0,
           ofile |-> [d \in Fds |-> 0], prog |-> << >>, vars |-> << >>,
           buf |-> << >>, seen |-> << >>, done |-> 0]

StdVars == [stdin |-> 0, stdout |-> 1, stderr |-> 2]

Smallest(S) == CHOOSE x \in S : \A y \in S : x <= y
Least(m, n) == IF m < n THEN m ELSE n

-----------------------------------------------------------------------------
(* What a call leaves behind *)

(* f[a] becomes v; and f without a. *)
With(f, a, v) == [x \in DOMAIN f \cup {a} |-> IF x = a THEN v ELSE f[x]]
Without(f, a) == [x \in DOMAIN f \ {a} |-> f[x]]

Running(p) == procs[p].state = "running" /\ ~procs[p].killed /\ procs[p].prog # << >>
Instr(p)   == Head(procs[p].prog)
Calls(p, op) == Running(p) /\ Instr(p).op = op

Wanted(i, ret) == i.want[1] <= ret /\ ret <= i.want[2]

(* The result of the call is in a variable and the program goes on: with   *)
(* the body of the loop, after the call, or, where it tests for an error,  *)
(* with its other instructions.  q is what the call has made of p.         *)
Answer(p, q, ret) ==
  LET i == Instr(p)
      again == i.loop /\ ret > 0
  IN /\ procs' = [procs EXCEPT ![p] =
          [q EXCEPT !.prog = IF ret < 0 /\ i.bail THEN i.other
                             ELSE IF again THEN i.body \o @ ELSE Tail(@),
                    !.vars = IF i.var = "" THEN @ ELSE With(@, i.var, ret),
                    !.seen = IF again THEN @ ELSE << >>,
                    !.done = 0]]
     /\ verdict' = (verdict /\ Wanted(i, ret)
                    /\ (~again /\ i.contents # {} => q.seen \in i.contents))

Returns(p, ret) == Answer(p, procs[p], ret)
Fails(p) == Returns(p, -1) /\ UNCHANGED <<files, pipes, inodes>>

(* fileclose() and filedup() of as many references as change says. *)
Recounted(change) ==
  [f \in FileNos |-> IF files[f].ref + change[f] = 0 THEN UnusedFile
                     ELSE [files[f] EXCEPT !.ref = @ + change[f]]]

Once(g, n)      == [f \in FileNos |-> IF f = g THEN n ELSE 0]
AllOf(q, times) == [f \in FileNos |-> times * Cardinality({d \in Fds : q.ofile[d] = f})]

(* iput(): an inode with neither a name nor a reference is freed. *)
Settled(ns) ==
  [i \in Inums |->
     IF /\ ns[i].nlink = 0
        /\ \A p \in Slots : procs'[p].cwd # i
        /\ \A f \in FileNos : files'[f].kind # "inode" \/ files'[f].of # i
     THEN NoInode ELSE ns[i]]

-----------------------------------------------------------------------------
(* Path names are sequences of names; an absolute one begins with "/". *)

Absolute(path) == path # << >> /\ Head(path) = "/"
Elements(path) == IF Absolute(path) THEN Tail(path) ELSE path
Kept(name)     == IF name \in DOMAIN Truncated THEN Truncated[name] ELSE name

DirLookup(i, name) ==
  IF i # 0 /\ inodes[i].type = "dir" /\ Kept(name) \in DOMAIN inodes[i].names
  THEN inodes[i].names[Kept(name)] ELSE 0

Walk(p, path, names) ==
  FoldLeft(DirLookup, IF Absolute(path) THEN ROOTINO ELSE procs[p].cwd, names)

Namei(p, path) == Walk(p, path, Elements(path))

NameiParent(p, path) ==
  IF Elements(path) = << >> THEN 0
  ELSE LET d == Walk(p, path, Front(Elements(path))) IN
       IF d # 0 /\ inodes[d].type = "dir" THEN d ELSE 0

NameOf(path) == Kept(Last(Elements(path)))

(* The inode of the last name, where nameiparent() finds a directory. *)
Target(p, path) ==
  LET d == NameiParent(p, path) IN IF d = 0 THEN 0 ELSE DirLookup(d, NameOf(path))

-----------------------------------------------------------------------------
(* sysfile.c: names *)

(* create() gives out a file that is there, and makes nothing else twice. *)
Creatable(p, path, type) ==
  /\ NameiParent(p, path) # 0
  /\ Target(p, path) # 0 => type = "file" /\ inodes[Target(p, path)].type = "file"

FreeInode == Smallest({i \in Inums : inodes[i].type = "free"})

AfterCreate(p, path, type) ==
  LET d   == NameiParent(p, path)
      dots == [n \in {".", ".."} |-> IF n = "." THEN FreeInode ELSE d]
      new == [type |-> type, nlink |-> 1, data |-> << >>,
              names |-> IF type = "dir" THEN dots ELSE << >>]
  IN IF Target(p, path) # 0 THEN inodes
     ELSE [inodes EXCEPT ![FreeInode] = new,
                         ![d].names = With(@, NameOf(path), FreeInode),
                         ![d].nlink = @ + IF type = "dir" THEN 1 ELSE 0]

FreeFds(q) == {d \in Fds : q.ofile[d] = 0}
FreeFiles  == {f \in FileNos : files[f].ref = 0}

(* mode is a set of "create" (O_CREATE), "w" (O_WRONLY) and "rw" (O_RDWR). *)
Openable(p, path, mode) ==
  IF "create" \in mode THEN Creatable(p, path, "file")
  ELSE /\ Namei(p, path) # 0
       /\ inodes[Namei(p, path)].type = "dir" => mode = {}

(* create() waits for the directory with the new inode locked              *)
(* (sysfile.c:280, fs.c:334), which is not shown here.                     *)
SysOpen(p) ==
  LET i  == Instr(p)
      creating == "create" \in i.mode
      f  == Smallest(FreeFiles)
      d  == Smallest(FreeFds(procs[p]))
      at == IF ~creating THEN Namei(p, i.path)
            ELSE IF Target(p, i.path) = 0 THEN FreeInode ELSE Target(p, i.path)
  IN /\ Calls(p, "open")
     /\ UNCHANGED pipes
     /\ IF ~Openable(p, i.path, i.mode) THEN Returns(p, -1) /\ UNCHANGED <<files, inodes>>
        ELSE /\ inodes' = IF creating THEN AfterCreate(p, i.path, "file") ELSE inodes
             /\ IF FreeFiles = {} \/ FreeFds(procs[p]) = {}
                THEN Returns(p, -1) /\ UNCHANGED files
                ELSE /\ Answer(p, [procs[p] EXCEPT !.ofile[d] = f], d)
                     /\ files' = [files EXCEPT ![f] =
                          [ref |-> 1, kind |-> "inode", of |-> at, off |-> 0,
                           readable |-> "w" \notin i.mode,
                           writable |-> i.mode \cap {"w", "rw"} # {}]]

(* mkdir() and mknod(), which wait in create() as open() does. *)
SysMake(p) ==
  LET i == Instr(p) IN
  /\ Calls(p, "make")
  /\ IF ~Creatable(p, i.path, i.type) THEN Fails(p)
     ELSE /\ Returns(p, 0)
          /\ inodes' = AfterCreate(p, i.path, i.type)
          /\ UNCHANGED <<files, pipes>>

(* dirlink() waits for an inode it finds with the directory locked         *)
(* (fs.c:560), which is not shown here.                                    *)
SysLink(p) ==
  LET i   == Instr(p)
      old == Namei(p, i.old)
      d   == NameiParent(p, i.path)
  IN /\ Calls(p, "link")
     /\ IF old = 0 \/ d = 0 THEN Fails(p)
        ELSE IF inodes[old].type = "dir" \/ Target(p, i.path) # 0 THEN Fails(p)
        ELSE /\ Returns(p, 0)
             /\ inodes' = [inodes EXCEPT ![old].nlink = @ + 1,
                                         ![d].names = With(@, NameOf(i.path), old)]
             /\ UNCHANGED <<files, pipes>>

IsDirEmpty(i) == DOMAIN inodes[i].names = {".", ".."}

(* Mutant: a directory is unlinked whatever is in it. *)
UnlinkableAny(p, path) ==
  Target(p, path) # 0 /\ NameOf(path) \notin {".", ".."}

Unlinkable(p, path) ==
  /\ Target(p, path) # 0 /\ NameOf(path) \notin {".", ".."}
  /\ inodes[Target(p, path)].type = "dir" => IsDirEmpty(Target(p, path))

(* It waits for the inode with the directory locked (sysfile.c:201-209),   *)
(* which is not shown here.                                                *)
SysUnlink(p) ==
  LET path == Instr(p).path
      d    == NameiParent(p, path)
      i    == Target(p, path)
  IN /\ Calls(p, "unlink")
     /\ IF ~Unlinkable(p, path) THEN Fails(p)
        ELSE /\ Returns(p, 0)
             /\ UNCHANGED <<files, pipes>>
             /\ inodes' = Settled(
                  [inodes EXCEPT ![d].names = Without(@, NameOf(path)),
                                 ![d].nlink = @ - IF inodes[i].type = "dir" THEN 1 ELSE 0,
                                 ![i].nlink = @ - 1])

SysChdir(p) ==
  LET i == Namei(p, Instr(p).path) IN
  /\ Calls(p, "chdir")
  /\ IF i = 0 \/ (i # 0 /\ inodes[i].type # "dir") THEN Fails(p)
     ELSE /\ Answer(p, [procs[p] EXCEPT !.cwd = i], 0)
          /\ UNCHANGED <<files, pipes>>
          /\ inodes' = Settled(inodes)

(* A program that opens the directory it is in and reads its entries, for  *)
(* those among some names.                                                 *)
SysList(p) ==
  /\ Calls(p, "list")
  /\ Answer(p, [procs[p] EXCEPT !.seen = Instr(p).among \cap DOMAIN inodes[procs[p].cwd].names], 0)
  /\ UNCHANGED <<files, pipes, inodes>>

-----------------------------------------------------------------------------
(* sysfile.c and file.c: descriptors *)

(* argfd(): the descriptor in a variable of the program, and its file. *)
FdOf(p) == IF Instr(p).fd \in DOMAIN procs[p].vars THEN procs[p].vars[Instr(p).fd] ELSE -1
FileOf(p) == IF FdOf(p) \in Fds THEN procs[p].ofile[FdOf(p)] ELSE 0

SysDup(p) ==
  LET d == Smallest(FreeFds(procs[p])) IN
  /\ Calls(p, "dup")
  /\ IF FileOf(p) = 0 \/ FreeFds(procs[p]) = {} THEN Fails(p)
     ELSE /\ Answer(p, [procs[p] EXCEPT !.ofile[d] = FileOf(p)], d)
          /\ files' = Recounted(Once(FileOf(p), 1))
          /\ UNCHANGED <<pipes, inodes>>

SysClose(p) ==
  /\ Calls(p, "close")
  /\ IF FileOf(p) = 0 THEN Fails(p)
     ELSE /\ Answer(p, [procs[p] EXCEPT !.ofile[FdOf(p)] = 0], 0)
          /\ files' = Recounted(Once(FileOf(p), -1))
          /\ inodes' = Settled(inodes)
          /\ UNCHANGED pipes

HasEnd(k, reads) ==
  \E f \in FileNos : files[f].kind = "pipe" /\ files[f].of = k /\ files[f].readable = reads

SysPipe(p) ==
  LET free == FreeFds(procs[p])
      r  == Smallest(free)         w  == Smallest(free \ {r})
      rf == Smallest(FreeFiles)    wf == Smallest(FreeFiles \ {rf})
      unused == {x \in 1 .. NPIPES : ~HasEnd(x, TRUE) /\ ~HasEnd(x, FALSE)}
      k  == Smallest(unused)
      end(reads) == [ref |-> 1, kind |-> "pipe", of |-> k, off |-> 0,
                     readable |-> reads, writable |-> ~reads]
  IN /\ Calls(p, "pipe")
     /\ IF Cardinality(free) < 2 \/ Cardinality(FreeFiles) < 2 \/ unused = {} THEN Fails(p)
        ELSE /\ Answer(p, [procs[p] EXCEPT !.ofile[r] = rf, !.ofile[w] = wf,
                             !.vars = With(With(@, "p0", r), "p1", w)], 0)
             /\ files' = [files EXCEPT ![rf] = end(TRUE), ![wf] = end(FALSE)]
             /\ pipes' = [pipes EXCEPT ![k] = << >>]
             /\ UNCHANGED inodes

(* p has read these units. *)
Got(p, units) ==
  Answer(p, [procs[p] EXCEPT !.buf = units, !.seen = @ \o units], Len(units))

(* readi() gives what there is, piperead() waits while there is a writer. *)
SysRead(p) ==
  LET i == Instr(p)
      f == files[FileOf(p)]
      stored == inodes[f.of].data
      taken  == Least(i.n, Len(pipes[f.of]))
  IN /\ Calls(p, "read")
     /\ IF FileOf(p) = 0 THEN Fails(p)
        ELSE IF i.n < 0 \/ ~f.readable THEN Fails(p)
        ELSE IF f.kind = "inode"
        THEN LET units == SubSeq(stored, f.off + 1, Least(f.off + i.n, Len(stored))) IN
             /\ Got(p, units)
             /\ files' = [files EXCEPT ![FileOf(p)].off = @ + Len(units)]
             /\ UNCHANGED <<pipes, inodes>>
        ELSE /\ pipes[f.of] # << >> \/ ~HasEnd(f.of, FALSE)
             /\ Got(p, SubSeq(pipes[f.of], 1, taken))
             /\ pipes' = [pipes EXCEPT ![f.of] = SubSeq(@, taken + 1, Len(@))]
             /\ UNCHANGED <<files, inodes>>

(* data overwritten from offset off on. *)
Overwritten(data, off, units) ==
  [k \in 1 .. Least(off, Len(data)) |-> data[k]] \o units
    \o SubSeq(data, off + Len(units) + 1, Len(data))

(* p has written n more units of its buffer: on to the next ones, or back. *)
Put(p, units, n) ==
  IF procs[p].done + n = Len(units) THEN Returns(p, Len(units))
  ELSE procs' = [procs EXCEPT ![p].done = @ + n] /\ UNCHANGED verdict

(* filewrite() writes a chunk in a transaction; pipewrite() what there is  *)
(* room for, and it waits while there is none but a reader.  A device is   *)
(* the console, which takes everything.                                    *)
SysWrite(p) ==
  LET i == Instr(p)
      f == files[FileOf(p)]
      units == IF i.fromBuf THEN procs[p].buf ELSE i.data
      rest  == SubSeq(units, procs[p].done + 1, Len(units))
      node  == inodes[f.of]
      chunk == SubSeq(rest, 1, Least(Len(rest), MAXCHUNK))
      fits  == SubSeq(rest, 1, Least(Len(rest), PIPEUNITS - Len(pipes[f.of])))
  IN /\ Calls(p, "write")
     /\ IF FileOf(p) = 0 THEN Fails(p)
        ELSE IF ~f.writable THEN Fails(p)
        ELSE IF f.kind = "pipe"
        THEN IF ~HasEnd(f.of, TRUE) /\ fits # rest THEN Fails(p)
             ELSE /\ fits # << >> \/ rest = << >>
                  /\ Put(p, units, Len(fits))
                  /\ pipes' = [pipes EXCEPT ![f.of] = @ \o fits]
                  /\ UNCHANGED <<files, inodes>>
        ELSE IF node.type = "dev"
        THEN /\ Returns(p, Len(units))
             /\ inodes' = [inodes EXCEPT ![f.of].data = @ \o units]
             /\ UNCHANGED <<files, pipes>>
        ELSE IF f.off + Len(chunk) > MAXFILE THEN Fails(p)
        ELSE /\ Put(p, units, Len(chunk))
             /\ inodes' = [inodes EXCEPT ![f.of].data = Overwritten(@, f.off, chunk)]
             /\ files' = [files EXCEPT ![FileOf(p)].off = @ + Len(chunk)]
             /\ UNCHANGED pipes

-----------------------------------------------------------------------------
(* sysproc.c and proc.c: processes *)

Used(p) == procs[p].state # "unused"
FreeMemory == MEMORY - FoldFunction(LAMBDA q, n : q.sz + n, 0, procs)
FreeSlots  == {s \in Slots : ~Used(s)}

SysFork(p) ==
  LET s == Smallest(FreeSlots)
      q == procs[p]
      twin == [q EXCEPT !.parent = p, !.prog = Instr(p).child, !.seen = << >>]
  IN /\ Calls(p, "fork")
     /\ IF FreeSlots = {} \/ FreeMemory < q.sz THEN Fails(p)
        ELSE /\ procs' = [procs EXCEPT ![s] = twin,
                  ![p].prog = Tail(@),
                  ![p].vars = IF Instr(p).var = "" THEN @ ELSE With(@, Instr(p).var, s)]
             /\ verdict' = (verdict /\ Wanted(Instr(p), s))
             /\ files' = Recounted(AllOf(q, 1))
             /\ UNCHANGED <<pipes, inodes>>

(* exit(), also of a process that has been killed, when it is next in the  *)
(* trap handler.  Its children are init's from now on.                     *)
SysExit(p) ==
  /\ procs[p].state = "running"
  /\ procs[p].killed \/ procs[p].prog = << >>
  /\ procs' = [s \in Slots |->
       IF s = p THEN [NoProc EXCEPT !.state = "zombie", !.parent = procs[p].parent,
                                    !.sz = procs[p].sz]
       ELSE IF Used(s) /\ procs[s].parent = p THEN [procs[s] EXCEPT !.parent = InitSlot]
       ELSE procs[s]]
  /\ files' = Recounted(AllOf(procs[p], -1))
  /\ inodes' = Settled(inodes)
  /\ UNCHANGED <<pipes, verdict>>

ChildrenOf(p) == {s \in Slots : Used(s) /\ procs[s].parent = p}
Zombies(p)  == {s \in ChildrenOf(p) : procs[s].state = "zombie"}

(* The first zombie in the table is freed and its pid returned: want may   *)
(* name the variable that holds it.                                        *)
SysWait(p) ==
  LET z == Smallest(Zombies(p))
      i == Instr(p)
      next == IF i.loop THEN (IF z = procs[p].vars[i.child] THEN Tail(procs[p].prog)
                              ELSE procs[p].prog)
              ELSE Tail(procs[p].prog)
  IN /\ Calls(p, "wait")
     /\ UNCHANGED <<files, pipes, inodes>>
     /\ IF ChildrenOf(p) = {} THEN Returns(p, -1)
        ELSE /\ Zombies(p) # {}
             /\ procs' = [procs EXCEPT ![z] = NoProc, ![p].prog = next]
             /\ verdict' = (verdict /\ Wanted(i, z)
                            /\ (i.child # "" /\ ~i.loop => z = procs[p].vars[i.child]))

SysKill(p) ==
  LET v == Instr(p).child
      t == IF v = "parent" THEN procs[p].parent ELSE procs[p].vars[v]
  IN /\ Calls(p, "kill")
     /\ UNCHANGED <<files, pipes, inodes>>
     /\ IF t \notin Slots THEN Returns(p, -1)
        ELSE IF ~Used(t) THEN Returns(p, -1)
        ELSE /\ verdict' = (verdict /\ Wanted(Instr(p), 0))
             /\ procs' = [procs EXCEPT ![p].prog = Tail(@), ![t].killed = TRUE]

(* A process that touches what is not its own is killed by trap(). *)
Fault(p) ==
  /\ Calls(p, "fault")
  /\ procs' = [procs EXCEPT ![p].killed = TRUE]
  /\ UNCHANGED <<files, pipes, inodes, verdict>>

(* growproc() takes all or nothing; the old size is returned. *)
SysSbrk(p) ==
  LET n == Instr(p).n IN
  /\ Calls(p, "sbrk")
  /\ UNCHANGED <<files, pipes, inodes>>
  /\ IF n > FreeMemory THEN Returns(p, -1)
     ELSE Answer(p, [procs[p] EXCEPT !.sz = @ + n], procs[p].sz)

(* exec(): the image in the file replaces the program, and text is what   *)
(* that does.  The descriptors stay, and so does all if exec() fails.      *)
ExecImage(p) ==
  LET i == Namei(p, <<Instr(p).argv[1]>>)
  IN IF i # 0 /\ inodes[i].data # << >> THEN Head(inodes[i].data) ELSE ""

SysExec(p, Images, text) ==
  /\ Calls(p, "exec")
  /\ UNCHANGED <<files, pipes, inodes>>
  /\ IF ExecImage(p) \notin Images \/ Len(Instr(p).argv) > ARGROOM \/ FreeMemory < 1
     THEN Returns(p, -1)
     ELSE /\ procs' = [procs EXCEPT ![p].prog = text, ![p].sz = 1,
                                    ![p].vars = StdVars, ![p].buf = << >>]
          /\ verdict' = (verdict /\ Wanted(Instr(p), 0))

SysStep(p) ==
  \/ SysOpen(p) \/ SysMake(p) \/ SysLink(p) \/ SysUnlink(p) \/ SysChdir(p) \/ SysList(p)
  \/ SysDup(p) \/ SysClose(p) \/ SysPipe(p) \/ SysRead(p) \/ SysWrite(p)
  \/ SysFork(p) \/ SysExit(p) \/ SysWait(p) \/ SysKill(p) \/ SysSbrk(p) \/ Fault(p)
=============================================================================
