------------------------------ MODULE Programs ------------------------------
(***************************************************************************)
(* The system at work: init starts the shell, and the shell runs the lines *)
(* typed at the console, commands and user tests, on the files that mkfs   *)
(* has made.                                                               *)
(***************************************************************************)
EXTENDS Shell

CONSTANT Lines   \* what may be typed: sequences of lines

MkfsNames == <<"README", "init", "sh", "echo", "cat", "rm", "mkdir", "ln", "zombie",
               "forktest", "stressfs", "scheduler_user", "MLQ_user_check", "usertests">>
Images == Range(MkfsNames) \ {"README"}

Text(image, argv) ==
  CASE image = "init"  -> InitText
    [] image = "sh"    -> ShText
    [] image = "echo"  -> Echo(argv)
    [] image = "cat"   -> Cat(argv)
    [] image = "rm"    -> Rm(argv)
    [] image = "mkdir" -> MkdirText(argv)
    [] image = "ln"    -> Ln(argv)
    [] image = "zombie" -> Zombie
    [] image = "forktest" -> ForkAll
    [] image = "stressfs" -> StressFs(Len(StressFiles) - 1)
    [] image = "scheduler_user" -> SchedulerUser(argv, 2)
    [] image = "MLQ_user_check" -> MlqUserCheck(argv, 3)
    [] image = "usertests" -> UserTestsText(argv[2])

(* The root directory as mkfs leaves it: every program, and README. *)
MkfsInode(k) ==
  IF k = ROOTINO
  THEN [type |-> "dir", nlink |-> 1, data |-> << >>,
        names |-> [n \in {".", ".."} |-> ROOTINO]
                  @@ [n \in Range(MkfsNames) |->
                        1 + (CHOOSE j \in DOMAIN MkfsNames : MkfsNames[j] = n)]]
  ELSE IF k - 1 \in DOMAIN MkfsNames
  THEN [type |-> "file", nlink |-> 1, names |-> << >>, data |-> <<MkfsNames[k - 1]>>]
  ELSE NoInode

SysInit ==
  /\ procs = [s \in Slots |->
       IF s # InitSlot THEN NoProc
       ELSE [NoProc EXCEPT !.state = "running", !.sz = 1, !.cwd = ROOTINO,
                           !.vars = StdVars, !.prog = InitText]]
  /\ files = [f \in FileNos |-> UnusedFile]
  /\ pipes = [k \in 1 .. NPIPES |-> << >>]
  /\ inodes = [k \in Inums |-> MkfsInode(k)]
  /\ verdict = TRUE
  /\ typed \in Lines /\ taken = 0

ProgStep(p) ==
  \/ GetCmd(p)
  \/ /\ SysStep(p)
        \/ SysExec(p, Images, Text(ExecImage(p), Instr(p).argv))
     /\ UNCHANGED <<typed, taken>>

ProgNext == \E p \in Slots : ProgStep(p)

progvars == <<sysvars, typed, taken>>

(* A process that can run does so in the end (SchedDefault).  More is not  *)
(* needed, as no program here goes round for ever.                         *)
ProgFairness == WF_progvars(ProgNext)

ProgSpec == SysInit /\ [][ProgNext]_progvars /\ ProgFairness

-----------------------------------------------------------------------------
(* Properties *)

AtPrompt(p) == Calls(p, "getcmd")

(* The shell has read all that was typed and has nothing to wait for. *)
Finished ==
  /\ taken = Len(typed)
  /\ \E sh \in Slots : AtPrompt(sh) /\ \A p \in Slots : Used(p) => p \in {InitSlot, sh}

(* Two calls that change names are under way, and one of them is unlink()   *)
(* or link(), which waits for an inode with its directory locked           *)
(* (sysfile.c:209, fs.c:560); create() puts the directory with the new     *)
(* inode locked (sysfile.c:280).  Such calls may wait for each other for   *)
(* ever (CirclesPutUpwards of FileSystem), which the steps of SysCalls do  *)
(* not show.                                                               *)
Renames(p) == Calls(p, "unlink") \/ Calls(p, "link")
Creates(p) == Calls(p, "make") \/ (Calls(p, "open") /\ "create" \in Instr(p).mode)

Contended == \E p, q \in Slots : p # q /\ Renames(p) /\ (Renames(q) \/ Creates(q))

(* Every call gives the programs a result they go on with: each of the     *)
(* user tests passes, whatever the order its processes run in.             *)
AsExpected == verdict

(* The commands whose whole effect is on files and on what is printed. *)
Plain(line) ==
  Range(line) \cap {"&", "cd", "usertests", "mkdir", "rm", "ln", "zombie", "stressfs",
                    "forktest", "scheduler_user", "MLQ_user_check"} = {}

PlainLines == \A k \in DOMAIN typed : Plain(typed[k])

(* The contents of the files in the root directory, by name. *)
FileNames(ns) == {n \in DOMAIN ns[ROOTINO].names : ns[ns[ROOTINO].names[n]].type = "file"}
Contents(ns)  == [n \in FileNames(ns) |-> ns[ns[ROOTINO].names[n]].data]

Meaning ==
  FoldLeft(LineMeans, [files |-> Contents([k \in Inums |-> MkfsInode(k)]),
                       in |-> << >>, out |-> << >>, err |-> << >>], typed)

IsComplaint(word) == word \in {"exec", "open", "syntax", "panic"}
Console == inodes[inodes[ROOTINO].names["console"]].data

(* The shell is back at its prompt only when every process of the command  *)
(* before has ended, unless it is to run in the background.                *)
ForegroundOver ==
  \A sh \in Slots : AtPrompt(sh) => {p \in Slots : Used(p)} = {InitSlot, sh}

(* When the shell is done, the files and the console have what the lines   *)
(* mean: each pipe has carried all that was written into it, no output has *)
(* gone past a redirection, errors have been reported once, and no line    *)
(* began before the one before was over.                                   *)
OutputAsMeant ==
  PlainLines =>
    /\ ForegroundOver
    /\ Finished =>
         /\ Contents(inodes) = Meaning.files
         /\ SelectSeq(Console, LAMBDA w : ~IsComplaint(w)) = Meaning.out
         /\ Len(SelectSeq(Console, IsComplaint)) = Len(Meaning.err)
=============================================================================
