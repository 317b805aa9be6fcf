----------------------------- MODULE FileSystem -----------------------------
(***************************************************************************)
(* Inodes, directories and the system calls on them (fs.c, sysfile.c,      *)
(* file.c): processes that walk paths and create, open, link and remove    *)
(* files and directories, at the same time.                                *)
(*                                                                         *)
(* What a process does between ilock() and iunlock() is one action, unless *)
(* it waits for another inode meanwhile; then lock says that it holds the  *)
(* first.  The log makes the disk that of the last moment at which no call *)
(* was active (Log, AtomicDisk), so a crash is one at such a moment.       *)
(***************************************************************************)
EXTENDS Naturals, Sequences, FiniteSetsExt

CONSTANTS
  Procs,
  NINODES,     \* the inodes on the disk; there is an in-core entry for each
  NFILE,       \* entries of the file table
  Names,       \* of directory entries, other than "." and ".."
  Elements,    \* what a path leads through: Names, also ".." or not
  Kinds,       \* what create() makes: of "file", "dir" and "dev"
  MaxLinks,    \* bound on nlink of a file
  Nobody

Inodes == 1 .. NINODES
Files  == 1 .. NFILE
ROOTINO == 1

ASSUME FSAssumption ==
  /\ NINODES \in Nat \ {0} /\ NFILE \in Nat /\ MaxLinks \in Nat
  /\ Procs # {} /\ IsFiniteSet(Procs) /\ IsFiniteSet(Names)
  /\ Nobody \notin Procs
  /\ Kinds \subseteq {"file", "dir", "dev"}
  /\ "." \notin Names /\ ".." \notin Names /\ Elements \subseteq Names \cup {".."}

VARIABLES
  dinode,   \* the inodes on disk: type and nlink
  entry,    \* the content of the directories
  inode,    \* the in-core copies; of type "none" while not valid
  ref,      \* references to the in-core entries
  lock,     \* who holds the sleep lock of each
  ftable,   \* references to, and inode of, each open file
  cwd, ofile,  \* of each process, 0 for none: one file at a time
  call,     \* the call of each process: where it is, and its inodes
  todo      \* what it does before it goes on: steps of iunlockput()

diskvars == <<dinode, entry>>
procvars == <<ftable, cwd, ofile>>
vars     == <<diskvars, inode, ref, lock, procvars, call, todo>>

Node(t, n) == [type |-> t, nlink |-> n]
Free    == Node("free", 0)
Invalid == Node("none", 0)
NoFile  == [ref |-> 0, ip |-> 0]
NoEntries == [n \in Names \cup {".."} |-> 0]

(* dirlookup(): the "." of a directory, which no other entry needs, is not *)
(* kept in entry.                                                          *)
Lookup(d, n) == IF n = "." THEN d ELSE entry[d][n]

(* cur is where namex() is, then its result; other an inode besides it;    *)
(* kind and name are arguments of the call that it still needs.            *)
Idle == [at |-> "idle", cur |-> 0, other |-> 0, kind |-> "none", name |-> ".."]

(* A machine has been started: every process is in the root directory.     *)
NoneValid == [i \in Inodes |-> Invalid]
RootRefs  == [i \in Inodes |-> IF i = ROOTINO THEN Cardinality(Procs) ELSE 0]
AtRoot    == [p \in Procs |-> ROOTINO]
NoneOpen  == [f \in Files |-> NoFile]
Closed    == [p \in Procs |-> 0]

Init ==
  /\ dinode = [i \in Inodes |-> IF i = ROOTINO THEN Node("dir", 1) ELSE Free]
  /\ entry = [i \in Inodes |-> [NoEntries EXCEPT ![".."] = IF i = ROOTINO THEN i ELSE 0]]
  /\ inode = NoneValid /\ ref = RootRefs
  /\ lock = [i \in Inodes |-> Nobody]
  /\ ftable = NoneOpen /\ cwd = AtRoot /\ ofile = Closed
  /\ call = [p \in Procs |-> Idle] /\ todo = [p \in Procs |-> << >>]

-----------------------------------------------------------------------------
(* Inodes *)

Valid(i) == inode[i].type # "none"

(* What the in-core entry of i holds once ilock() has seen to it.          *)
Loaded(i) == IF Valid(i) THEN inode[i] ELSE dinode[i]

Load(i) == [inode EXCEPT ![i] = Loaded(i)]

(* ilock() of i can go on; it panics when the inode has no type.           *)
Lockable(i) == lock[i] = Nobody /\ Loaded(i).type # "free"

(* iget() or idup().                                                       *)
Refer(i) == ref' = [ref EXCEPT ![i] = @ + 1]

(* The in-core entries are nodes then; iupdate() copies those of S to the  *)
(* disk at once.  Mutant: it is forgotten.                                 *)
IUpdateLate(nodes, S) == inode' = nodes /\ UNCHANGED dinode

IUpdate(nodes, S) ==
  /\ inode'  = nodes
  /\ dinode' = [i \in Inodes |-> IF i \in S THEN nodes[i] ELSE dinode[i]]

(* The in-core entries with i loaded and a link to it more, or less.       *)
Linked(i)   == [Load(i) EXCEPT ![i].nlink = @ + 1]
Unlinked(i) == [Load(i) EXCEPT ![i].nlink = @ - 1]

-----------------------------------------------------------------------------
(* The control of a call *)

(* Process p is at a place of its call, with nothing else to do first.     *)
At(p, where) == call[p].at = where /\ todo[p] = << >>

Ready(p) == At(p, "idle") /\ cwd[p] # 0

(* It does the steps s, and goes on with call c.                           *)
Goto(p, c, s) ==
  /\ call' = [call EXCEPT ![p] = c]
  /\ todo' = [todo EXCEPT ![p] = s]

Put(i)    == <<"put", i>>
Unlock(i) == <<"unlock", i>>
Drop(i)   == <<"drop", i>>

(* The next step of p is s; it does it.                                    *)
Does(p, s) ==
  /\ todo[p] # << >> /\ Head(todo[p]) = s
  /\ todo' = [todo EXCEPT ![p] = (IF s[1] = "put" THEN <<Drop(s[2])>> ELSE << >>) \o Tail(@)]

(* iput() of the last reference to an inode without links frees it.        *)
(* Mutant: without a look at the references.                               *)
LastRefUnchecked(i) == Valid(i) /\ inode[i].nlink = 0

LastRef(i) == Valid(i) /\ inode[i].nlink = 0 /\ ref[i] = 1

DoPut(p, i) ==
  /\ Does(p, Put(i)) /\ lock[i] = Nobody
  /\ IF LastRef(i)
     THEN /\ inode'  = [inode EXCEPT ![i] = Invalid]
          /\ dinode' = [dinode EXCEPT ![i] = Free]
          /\ entry'  = [entry EXCEPT ![i] = NoEntries]
     ELSE UNCHANGED <<inode, diskvars>>
  /\ UNCHANGED <<ref, lock, procvars, call>>

(* iput() drops the reference later.  iget() makes an in-core entry that   *)
(* nobody refers to anew: it is as good as not valid from here on.         *)
DoDrop(p, i) ==
  /\ Does(p, Drop(i))
  /\ ref' = [ref EXCEPT ![i] = @ - 1]
  /\ inode' = IF ref[i] = 1 THEN [inode EXCEPT ![i] = Invalid] ELSE inode
  /\ UNCHANGED <<diskvars, lock, procvars, call>>

DoUnlock(p, i) ==
  /\ Does(p, Unlock(i))
  /\ lock' = [lock EXCEPT ![i] = Nobody]
  /\ UNCHANGED <<diskvars, inode, ref, procvars, call>>

-----------------------------------------------------------------------------
(* Paths.  The arguments of a call are chosen when it looks at them: the   *)
(* next element of its path, whether there is one, and what it is to do    *)
(* with the inode the path leads to.                                       *)

(* A call begins: begin_op(), and namex() in the root or current directory. *)
Begin(p, i) ==
  /\ Ready(p)
  /\ Refer(i)
  /\ Goto(p, [Idle EXCEPT !.at = "walk", !.cur = i], << >>)
  /\ UNCHANGED <<diskvars, inode, lock, procvars>>

(* A call locks the inode it is at, which is a directory, or is not.       *)
InDir(p)  == Lockable(call[p].cur) /\ Loaded(call[p].cur).type = "dir"
InFile(p) == Lockable(call[p].cur) /\ Loaded(call[p].cur).type # "dir"

(* A round of namex().                                                     *)
WalkOn(p, n) ==
  LET i == call[p].cur IN
  /\ At(p, "walk") /\ InDir(p) /\ entry[i][n] # 0
  /\ Refer(entry[i][n])
  /\ inode' = Load(i)
  /\ Goto(p, [call[p] EXCEPT !.cur = entry[i][n]], <<Put(i)>>)
  /\ UNCHANGED <<diskvars, lock, procvars>>

(* nameiparent() stops before the last element.                            *)
WalkStop(p) ==
  /\ At(p, "walk") /\ InDir(p)
  /\ inode' = Load(call[p].cur)
  /\ Goto(p, [call[p] EXCEPT !.at = "parent"], << >>)
  /\ UNCHANGED <<diskvars, ref, lock, procvars>>

(* A call cannot go on: it takes back a link it has counted already.       *)
Failed(c) == IF c.other = 0 THEN Idle ELSE [Idle EXCEPT !.at = "undo", !.other = c.other]

(* The path leads through a file, or a name is missing.                    *)
WalkFail(p, n) ==
  LET i == call[p].cur IN
  /\ At(p, "walk")
  /\ InFile(p) \/ (InDir(p) /\ entry[i][n] = 0)
  /\ inode' = Load(i)
  /\ Goto(p, Failed(call[p]), <<Put(i)>>)
  /\ UNCHANGED <<diskvars, ref, lock, procvars>>

(* The path ends at an inode of the wrong kind: link() and open() for      *)
(* writing take no directory, chdir() no file.                             *)
WrongKind(p) ==
  LET i == call[p].cur IN
  /\ At(p, "walk") /\ call[p].other = 0 /\ (InDir(p) \/ InFile(p))
  /\ inode' = Load(i)
  /\ Goto(p, Idle, <<Put(i)>>)
  /\ UNCHANGED <<diskvars, ref, lock, procvars>>

-----------------------------------------------------------------------------
(* open, and the creation of files, directories and devices *)

FreeFiles == {f \in Files : ftable[f].ref = 0}

(* filealloc() and fdalloc(), with i locked: the file takes over the       *)
(* reference; without a file the call puts it.                             *)
Opened(p, i) ==
  IF ofile[p] = 0 /\ FreeFiles # {}
  THEN LET f == Min(FreeFiles) IN
       /\ ftable' = [ftable EXCEPT ![f] = [ref |-> 1, ip |-> i]]
       /\ ofile' = [ofile EXCEPT ![p] = f]
       /\ Goto(p, Idle, << >>)
       /\ UNCHANGED cwd
  ELSE Goto(p, Idle, <<Put(i)>>) /\ UNCHANGED procvars

(* open() of what is there; directories are opened for reading only.       *)
Open(p) ==
  LET i == call[p].cur IN
  /\ At(p, "walk") /\ call[p].other = 0 /\ (InDir(p) \/ InFile(p))
  /\ inode' = Load(i)
  /\ Opened(p, i)
  /\ UNCHANGED <<diskvars, ref, lock>>

FreeInodes == {i \in Inodes : dinode[i].type = "free"}

(* create() finds no such name: ialloc(), which panics when no inode is    *)
(* free, and the entry.  The new inode is still locked when the reference  *)
(* to the directory is put.                                                *)
CreateNew(p, k, n) ==
  LET d == call[p].cur
      i == Min(FreeInodes)
      made == [Load(d) EXCEPT ![i] = Node(IF Valid(i) THEN inode[i].type ELSE k, 1)] IN
  /\ At(p, "parent") /\ call[p].other = 0
  /\ Lockable(d) /\ entry[d][n] = 0
  /\ FreeInodes # {} /\ lock[i] = Nobody
  /\ Refer(i)
  /\ lock' = [lock EXCEPT ![i] = p]
  /\ IF k = "dir"
     THEN /\ IUpdate([made EXCEPT ![d].nlink = @ + 1], {i, d})
          /\ entry' = [entry EXCEPT ![d][n] = i, ![i][".."] = d]
     ELSE /\ IUpdate(made, {i})
          /\ entry' = [entry EXCEPT ![d][n] = i]
  /\ Goto(p, [Idle EXCEPT !.at = "made", !.kind = k, !.other = i], <<Put(d)>>)
  /\ UNCHANGED procvars

(* open() goes on with the new file; mkdir() and mknod() put theirs.       *)
Created(p) ==
  LET i == call[p].other IN
  /\ At(p, "made")
  /\ lock' = [lock EXCEPT ![i] = Nobody]
  /\ IF call[p].kind = "file"
     THEN Opened(p, i)
     ELSE Goto(p, Idle, <<Put(i)>>) /\ UNCHANGED procvars
  /\ UNCHANGED <<diskvars, inode, ref>>

(* It finds the name: it lets go of the directory, then locks the inode,   *)
(* which for "." is the directory.                                         *)
CreateOld(p, n) ==
  LET d == call[p].cur
      i == Lookup(d, n) IN
  /\ At(p, "parent") /\ call[p].other = 0
  /\ Lockable(d) /\ i # 0
  /\ Refer(i)
  /\ inode' = Load(d)
  /\ Goto(p, [Idle EXCEPT !.at = "old", !.other = i], <<Put(d)>>)
  /\ UNCHANGED <<diskvars, lock, procvars>>

(* Only open() takes what is there already, and only a file.               *)
CreateTake(p) ==
  LET i == call[p].other IN
  /\ At(p, "old") /\ Lockable(i)
  /\ inode' = Load(i)
  /\ \/ Loaded(i).type = "file" /\ Opened(p, i)
     \/ Goto(p, Idle, <<Put(i)>>) /\ UNCHANGED procvars
  /\ UNCHANGED <<diskvars, ref, lock>>

-----------------------------------------------------------------------------
(* link *)

(* One link more for the old name, before there is an entry for it; the    *)
(* path of the new name is walked with the inode unlocked.  Mutant: it     *)
(* stays locked.                                                           *)
LinkOldHolding(p, start) ==
  LET i == call[p].cur IN
  /\ At(p, "walk") /\ call[p].other = 0 /\ InFile(p)
  /\ Loaded(i).nlink < MaxLinks
  /\ IUpdate(Linked(i), {i})
  /\ lock' = [lock EXCEPT ![i] = p]
  /\ Refer(start)
  /\ Goto(p, [call[p] EXCEPT !.cur = start, !.other = i], << >>)
  /\ UNCHANGED <<entry, procvars>>

LinkOld(p, start) ==
  LET i == call[p].cur IN
  /\ At(p, "walk") /\ call[p].other = 0 /\ InFile(p)
  /\ Loaded(i).nlink < MaxLinks
  /\ IUpdate(Linked(i), {i})
  /\ Refer(start)
  /\ Goto(p, [call[p] EXCEPT !.cur = start, !.other = i], << >>)
  /\ UNCHANGED <<entry, lock, procvars>>

(* dirlink(): the new name is not there yet.                               *)
LinkNew(p, n) ==
  LET c == call[p] IN
  /\ At(p, "parent") /\ c.other # 0
  /\ Lockable(c.cur) /\ entry[c.cur][n] = 0
  /\ inode' = Load(c.cur)
  /\ entry' = [entry EXCEPT ![c.cur][n] = c.other]
  /\ Goto(p, Idle, <<Put(c.cur), Put(c.other)>>)
  /\ UNCHANGED <<dinode, ref, lock, procvars>>

(* dirlink() finds it, and puts what it finds while it holds the directory: *)
(* for "." the directory itself, for ".." its parent.                       *)
LinkClash(p, n) ==
  LET d == call[p].cur
      j == Lookup(d, n) IN
  /\ At(p, "parent") /\ call[p].other # 0
  /\ Lockable(d) /\ j # 0
  /\ Refer(j)
  /\ inode' = Load(d)
  /\ lock' = [lock EXCEPT ![d] = p]
  /\ Goto(p, Failed(call[p]), <<Put(j), Unlock(d), Put(d)>>)
  /\ UNCHANGED <<diskvars, procvars>>

(* The link is taken back.                                                 *)
LinkUndo(p) ==
  LET i == call[p].other IN
  /\ At(p, "undo") /\ Lockable(i)
  /\ IUpdate(Unlinked(i), {i})
  /\ Goto(p, Idle, <<Put(i)>>)
  /\ UNCHANGED <<entry, ref, lock, procvars>>

-----------------------------------------------------------------------------
(* unlink *)

(* The directory stays locked while the inode is locked too.               *)
UnlinkFind(p, n) ==
  LET d == call[p].cur IN
  /\ At(p, "parent") /\ call[p].other = 0
  /\ Lockable(d) /\ entry[d][n] # 0
  /\ Refer(entry[d][n])
  /\ inode' = Load(d)
  /\ lock' = [lock EXCEPT ![d] = p]
  /\ Goto(p, [call[p] EXCEPT !.at = "child", !.name = n, !.other = entry[d][n]], << >>)
  /\ UNCHANGED <<diskvars, procvars>>

(* A name that is not there, or "." or "..", which are never removed.      *)
UnlinkNone(p) ==
  LET d == call[p].cur IN
  /\ At(p, "parent") /\ call[p].other = 0
  /\ Lockable(d)
  /\ inode' = Load(d)
  /\ Goto(p, Idle, <<Put(d)>>)
  /\ UNCHANGED <<diskvars, ref, lock, procvars>>

IsDirEmpty(d) == \A n \in Names : entry[d][n] = 0

Busy(i) == Loaded(i).type = "dir" /\ ~IsDirEmpty(i)

(* The entry goes.  The inode is still locked when the reference to the    *)
(* directory is put, and loses its link after that.                        *)
UnlinkEntry(p) ==
  LET d == call[p].cur
      i == call[p].other IN
  /\ At(p, "child") /\ Lockable(i) /\ ~Busy(i)
  /\ entry' = [entry EXCEPT ![d][call[p].name] = 0]
  /\ lock' = [lock EXCEPT ![d] = Nobody, ![i] = p]
  /\ IF Loaded(i).type = "dir"
     THEN IUpdate([Load(i) EXCEPT ![d].nlink = @ - 1], {d})
     ELSE inode' = Load(i) /\ UNCHANGED dinode
  /\ Goto(p, [Idle EXCEPT !.at = "dec", !.other = i], <<Put(d)>>)
  /\ UNCHANGED <<ref, procvars>>

UnlinkDec(p) ==
  LET i == call[p].other IN
  /\ At(p, "dec")
  /\ IUpdate(Unlinked(i), {i})
  /\ lock' = [lock EXCEPT ![i] = Nobody]
  /\ Goto(p, Idle, <<Put(i)>>)
  /\ UNCHANGED <<entry, ref, procvars>>

UnlinkBusy(p) ==
  LET d == call[p].cur
      i == call[p].other IN
  /\ At(p, "child") /\ Lockable(i) /\ Busy(i)
  /\ inode' = Load(i)
  /\ Goto(p, Idle, <<Put(i), Unlock(d), Put(d)>>)
  /\ UNCHANGED <<diskvars, ref, lock, procvars>>

-----------------------------------------------------------------------------
(* chdir, close, fork, exit, crash *)

Chdir(p) ==
  LET i == call[p].cur IN
  /\ At(p, "walk") /\ call[p].other = 0 /\ InDir(p)
  /\ inode' = Load(i)
  /\ cwd' = [cwd EXCEPT ![p] = i]
  /\ Goto(p, Idle, <<Put(cwd[p])>>)
  /\ UNCHANGED <<diskvars, ref, lock, ftable, ofile>>

(* fileclose(): the last reference to a file puts its inode.               *)
Close(p) ==
  LET f == ofile[p] IN
  /\ Ready(p) /\ f # 0
  /\ ofile' = [ofile EXCEPT ![p] = 0]
  /\ IF ftable[f].ref = 1
     THEN /\ ftable' = [ftable EXCEPT ![f] = NoFile]
          /\ Goto(p, Idle, <<Put(ftable[f].ip)>>)
     ELSE /\ ftable' = [ftable EXCEPT ![f].ref = @ - 1]
          /\ UNCHANGED <<call, todo>>
  /\ UNCHANGED <<diskvars, inode, ref, lock, cwd>>

(* exit(), after it has closed the files.                                  *)
Exit(p) ==
  /\ Ready(p) /\ ofile[p] = 0
  /\ cwd' = [cwd EXCEPT ![p] = 0]
  /\ Goto(p, Idle, <<Put(cwd[p])>>)
  /\ UNCHANGED <<diskvars, inode, ref, lock, ftable, ofile>>

(* fork(): filedup() and idup().                                           *)
Fork(p, q) ==
  /\ Ready(p) /\ At(q, "idle") /\ cwd[q] = 0
  /\ cwd' = [cwd EXCEPT ![q] = cwd[p]]
  /\ ofile' = [ofile EXCEPT ![q] = ofile[p]]
  /\ ftable' = [f \in Files |-> IF f = ofile[p] THEN [ftable[f] EXCEPT !.ref = @ + 1]
                                ELSE ftable[f]]
  /\ Refer(cwd[p])
  /\ UNCHANGED <<diskvars, inode, lock, call, todo>>

(* No lock is held when no call is active.                                 *)
Crash ==
  /\ \A p \in Procs : At(p, "idle")
  /\ inode' = NoneValid /\ ref' = RootRefs
  /\ ftable' = NoneOpen /\ cwd' = AtRoot /\ ofile' = Closed
  /\ UNCHANGED <<diskvars, lock, call, todo>>

-----------------------------------------------------------------------------
Starts(p) == {ROOTINO, cwd[p]}

Walk(p) ==
  \/ \E i \in Starts(p) : Begin(p, i)
  \/ \E n \in Elements : WalkOn(p, n) \/ WalkFail(p, n)
  \/ WalkStop(p) \/ WrongKind(p)

Act(p) ==
  \/ Open(p) \/ Chdir(p) \/ \E i \in Starts(p) : LinkOld(p, i)
  \/ \E n \in Names : LinkNew(p, n) \/ UnlinkFind(p, n) \/ \E k \in Kinds : CreateNew(p, k, n)
  \/ \E n \in Names \cup {".", ".."} : LinkClash(p, n)
  \/ \E n \in Names \cup Elements \cup {"."} : CreateOld(p, n)
  \/ UnlinkNone(p)
  \/ Created(p) \/ CreateTake(p) \/ LinkUndo(p)
  \/ UnlinkEntry(p) \/ UnlinkDec(p) \/ UnlinkBusy(p)

Finish(p) == \E i \in Inodes : DoPut(p, i) \/ DoDrop(p, i) \/ DoUnlock(p, i)

Next ==
  \/ \E p \in Procs : Walk(p) \/ Act(p) \/ Finish(p) \/ Close(p) \/ Exit(p)
  \/ \E p, q \in Procs : Fork(p, q)
  \/ Crash

Spec == Init /\ [][Next]_vars

-----------------------------------------------------------------------------
(* Properties *)

(* What refers to the in-core entry of an inode: current directories, open *)
(* files, and the calls, as long as they have not dropped their references. *)
Holders(i) ==
  {<<p, "cwd", 0>> : p \in {q \in Procs : cwd[q] = i}} \cup
  {<<p, "cur", 0>> : p \in {q \in Procs : call[q].cur = i}} \cup
  {<<p, "other", 0>> : p \in {q \in Procs : call[q].other = i}} \cup
  (UNION {{<<p, "todo", k>> : k \in {j \in DOMAIN todo[p] : todo[p][j] \in {Put(i), Drop(i)}}} : p \in Procs}) \cup
  {<<Nobody, "file", f>> : f \in {g \in Files : ftable[g].ip = i}}

(* Every path through the calls, those that fail included, gives back each *)
(* reference it takes, once: "ip->ref tracks the number of in-memory       *)
(* pointers to the entry" (fs.c:123).                                      *)
RefsHeld ==
  /\ \A i \in Inodes : ref[i] = Cardinality(Holders(i))
  /\ \A f \in Files : ftable[f].ref = Cardinality({p \in Procs : ofile[p] = f})

Relinking(c) == c.at \in {"walk", "parent", "undo"}

(* What counts as a link to i: its names, the ".." of the directories in   *)
(* it, and what a link() or unlink() in progress has not done yet.         *)
Links(i) ==
  {e \in Inodes \X Names : entry[e[1]][e[2]] = i} \cup
  {<<i, n>> : n \in {m \in Names : entry[i][m] # 0 /\ dinode[entry[i][m]].type = "dir"}} \cup
  {<<p, "link", 0>> : p \in {q \in Procs : Relinking(call[q]) /\ call[q].other = i}} \cup
  {<<p, "dec", 0>> : p \in {q \in Procs : call[q].at = "dec" /\ call[q].other = i}} \cup
  (IF i = ROOTINO THEN {<<i, "root", 0>>} ELSE {})

(* At every moment a link that is counted nowhere would let iput() free a  *)
(* file that has a name, and unlink() panic: nlink is never too small.     *)
NamesCounted == \A i \in Inodes : Cardinality(Links(i)) <= dinode[i].nlink

(* ref and nlink agree with who has the inode and what names it. *)
CountsHold == RefsHeld /\ NamesCounted

(* The inode whose sleep lock a process waits for or takes next, or 0.     *)
Wants(p) ==
  IF todo[p] # << >>
  THEN IF Head(todo[p])[1] = "put" THEN Head(todo[p])[2] ELSE 0
  ELSE CASE call[p].at \in {"walk", "parent"}       -> call[p].cur
         [] call[p].at \in {"old", "child", "undo"} -> call[p].other
         [] OTHER -> 0

Circular(S) == S # {} /\ \A p \in S : Wants(p) # 0 /\ lock[Wants(p)] \in S

(* In iunlockput(dp) of create() and unlink(): an inode of dp is locked.   *)
PutsParent(p) == call[p].at \in {"made", "dec"} /\ todo[p] # << >>

(* Nobody waits for a lock in a circle: "a concurrent link/unlink/create   *)
(* test, to look for deadlocks" (usertests.c:855) is there to see that.    *)
(* The code does: iput() locks the directory again (fs.c:334) while        *)
(* create() and unlink() hold an inode of it.                              *)
NoCircularWait == \A S \in SUBSET Procs : ~Circular(S)

(* In link(), when dirlink() puts the "." or ".." that it has found.       *)
PutsDots(p) ==
  /\ call[p].at = "undo" /\ todo[p] # << >>
  /\ \E d \in Inodes : lock[d] = p /\ Head(todo[p]) \in {Put(d), Put(entry[d][".."])}

(* Those two puts, of a directory that is not below what the process has   *)
(* locked, are what every circle needs: link(f, ".") waits for itself,     *)
(* link(f, "d/..") with d locked for the parent of d (fs.c:560).  All other *)
(* waiting with a lock held is for an inode further down the tree, however *)
(* names change meanwhile, so that it cannot close a circle.               *)
CirclesPutUpwards ==
  \A S \in SUBSET Procs : Circular(S) => \E p \in S : PutsParent(p) \/ PutsDots(p)

(* Names as NameSpace promises them: no step of a call, of several at once *)
(* or of a restart does anything else to them, and iput() frees no inode   *)
(* that has a name or that a process has open, is in or works on.          *)
Tree == INSTANCE NameSpace
          WITH Root <- ROOTINO,
               kind <- [i \in Inodes |-> dinode[i].type],
               tree <- [i \in Inodes |-> [n \in Names |-> entry[i][n]]],
               used <- ({cwd[p] : p \in Procs} \cup {ftable[f].ip : f \in Files} \cup
                       UNION {{call[p].cur, call[p].other} : p \in Procs}) \ {0}

TreeSpec == Tree!NSSpec
=============================================================================
