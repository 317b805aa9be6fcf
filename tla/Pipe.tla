-------------------------------- MODULE Pipe --------------------------------
(***************************************************************************)
(* A pipe (pipe.c): processes that read, write and close its two ends, and *)
(* are killed.                                                             *)
(*                                                                         *)
(* A critical section of p->lock is one action, up to the point where the  *)
(* process decides to sleep: sleep() keeps p->lock until it has            *)
(* ptable.lock, and in between kill() can still come.  A cell that has been *)
(* read, and an argument of a call that has returned, is forgotten.        *)
(***************************************************************************)
EXTENDS Integers, Sequences

CONSTANTS
  Readers, Writers,  \* the processes that hold the read end, the write end
  Bytes,
  PIPESIZE,
  UMax,              \* uint counts modulo UMax (2^32)
  MaxCount,          \* bound on the count of a read()
  Writes             \* what a write() is called with

Procs == Readers \cup Writers

ASSUME PipeAssumption ==
  /\ PIPESIZE \in Nat \ {0} /\ UMax \in Nat /\ MaxCount \in Nat
  /\ Bytes # {} /\ Writes \subseteq Seq(Bytes)
  /\ UMax % PIPESIZE = 0 /\ UMax > PIPESIZE
  /\ Readers \cap Writers = {}

VARIABLES
  data, nread, nwrite, readopen, writeopen,  \* struct pipe
  lock,     \* p->lock is held by a process on its way into sleep()
  pc,       \* "idle", "call" (about to take p->lock), "dozing", "asleep", "closed"
  killed,
  todo,     \* the bytes a writer has still to write
  count,    \* the bytes a reader has asked for
  read      \* the bytes the last reader took

pipevars == <<data, nread, nwrite, readopen, writeopen>>
vars     == <<pipevars, lock, pc, killed, todo, count, read>>

(* What is in a cell without a byte to be read. *)
Blank == CHOOSE b \in Bytes : TRUE

Init ==
  /\ data = [i \in 0 .. PIPESIZE - 1 |-> Blank]
  /\ nread = 0 /\ nwrite = 0 /\ readopen = TRUE /\ writeopen = TRUE
  /\ lock = FALSE
  /\ pc = [p \in Procs |-> "idle"] /\ killed = [p \in Procs |-> FALSE]
  /\ todo = [w \in Writers |-> << >>] /\ count = [r \in Readers |-> 0]
  /\ read = << >>

Plus(a, n) == (a + n) % UMax

Empty == nread = nwrite
Full  == nwrite = Plus(nread, PIPESIZE)

(* nwrite - nread in uint arithmetic. *)
Used == (nwrite + UMax - nread) % UMax

(* Mutant: one byte more than there is room for. *)
FreeOneMore == PIPESIZE + 1 - Used

Free == PIPESIZE - Used

(* wakeup() of the processes of S that sleep, once at has changed pc. *)
WakeAfter(S, at) ==
  [p \in Procs |-> IF p \in S /\ at[p] = "asleep" THEN "call" ELSE at[p]]

-----------------------------------------------------------------------------
(* read() and write() are called. *)
CallRead(r, n) ==
  /\ pc[r] = "idle"
  /\ pc' = [pc EXCEPT ![r] = "call"]
  /\ count' = [count EXCEPT ![r] = n]
  /\ UNCHANGED <<pipevars, lock, killed, todo, read>>

CallWrite(w, s) ==
  /\ pc[w] = "idle"
  /\ pc' = [pc EXCEPT ![w] = "call"]
  /\ todo' = [todo EXCEPT ![w] = s]
  /\ UNCHANGED <<pipevars, lock, killed, count, read>>

(* The cells of the n bytes from count a on. *)
Cells(a, n) == {Plus(a, k) % PIPESIZE : k \in 0 .. n - 1}

(* piperead() of a pipe with bytes in it, or that nobody writes any more. *)
Read(r) ==
  LET n == IF count[r] < Used THEN count[r] ELSE Used IN
  /\ pc[r] = "call" /\ ~lock
  /\ ~Empty \/ ~writeopen
  /\ nread' = Plus(nread, n)
  /\ data' = [i \in DOMAIN data |-> IF i \in Cells(nread, n) THEN Blank ELSE data[i]]
  /\ count' = [count EXCEPT ![r] = 0]
  /\ read' = IF n = 0 THEN read
             ELSE [i \in 1 .. n |-> data[Plus(nread, i - 1) % PIPESIZE]]
  /\ pc' = WakeAfter(Writers, [pc EXCEPT ![r] = "idle"])
  /\ UNCHANGED <<nwrite, readopen, writeopen, lock, killed, todo>>

ReadKilled(r) ==
  /\ pc[r] = "call" /\ ~lock
  /\ Empty /\ writeopen /\ killed[r]
  /\ pc' = [pc EXCEPT ![r] = "idle"]
  /\ count' = [count EXCEPT ![r] = 0]
  /\ UNCHANGED <<pipevars, lock, killed, todo, read>>

ReadDoze(r) ==
  /\ pc[r] = "call" /\ ~lock
  /\ Empty /\ writeopen /\ ~killed[r]
  /\ lock' = TRUE
  /\ pc' = [pc EXCEPT ![r] = "dozing"]
  /\ UNCHANGED <<pipevars, killed, todo, count, read>>

(* The bytes that the loop of pipewrite() puts in before it ends or finds  *)
(* the pipe full.                                                          *)
Fits(w) == IF Len(todo[w]) < Free THEN Len(todo[w]) ELSE Free

Fill(w) ==
  LET n == Fits(w)
      byte(i) == CHOOSE k \in 1 .. n : i \in Cells(Plus(nwrite, k - 1), 1) IN
  /\ data' = [i \in DOMAIN data |->
                IF i \in Cells(nwrite, n) THEN todo[w][byte(i)] ELSE data[i]]
  /\ nwrite' = Plus(nwrite, n)

Left(w) == SubSeq(todo[w], Fits(w) + 1, Len(todo[w]))

(* pipewrite() puts in all that is left. *)
Write(w) ==
  /\ pc[w] = "call" /\ ~lock
  /\ Fits(w) = Len(todo[w])
  /\ Fill(w)
  /\ todo' = [todo EXCEPT ![w] = << >>]
  /\ pc' = WakeAfter(Readers, [pc EXCEPT ![w] = "idle"])
  /\ UNCHANGED <<nread, readopen, writeopen, lock, killed, count, read>>

(* It fills the pipe, and nobody reads any more or the process has been    *)
(* killed: it returns without waking the readers.                          *)
WriteFail(w) ==
  /\ pc[w] = "call" /\ ~lock
  /\ Fits(w) < Len(todo[w])
  /\ ~readopen \/ killed[w]
  /\ Fill(w)
  /\ todo' = [todo EXCEPT ![w] = << >>]
  /\ pc' = [pc EXCEPT ![w] = "idle"]
  /\ UNCHANGED <<nread, readopen, writeopen, lock, killed, count, read>>

WriteDoze(w) ==
  /\ pc[w] = "call" /\ ~lock
  /\ Fits(w) < Len(todo[w])
  /\ readopen /\ ~killed[w]
  /\ Fill(w)
  /\ todo' = [todo EXCEPT ![w] = Left(w)]
  /\ pc' = WakeAfter(Readers, [pc EXCEPT ![w] = "dozing"])
  /\ lock' = TRUE
  /\ UNCHANGED <<nread, readopen, writeopen, killed, count, read>>

(* sleep() has ptable.lock: it releases p->lock and sleeps. *)
Sleep(p) ==
  /\ pc[p] = "dozing"
  /\ pc' = [pc EXCEPT ![p] = "asleep"]
  /\ lock' = FALSE
  /\ UNCHANGED <<pipevars, killed, todo, count, read>>

-----------------------------------------------------------------------------
(* kill() wakes a process that sleeps, and only marks one that does not. *)
Kill(p) ==
  /\ pc[p] # "closed" /\ ~killed[p]
  /\ killed' = [killed EXCEPT ![p] = TRUE]
  /\ pc' = WakeAfter({p}, pc)
  /\ UNCHANGED <<pipevars, lock, todo, count, read>>

(* close(), or exit() of a killed process: pipeclose() if nobody else holds *)
(* this end.                                                                *)
Last(p, S) == p \in S /\ \A q \in S \ {p} : pc[q] = "closed"

(* Mutant: the readers are woken, whichever end is closed. *)
CloseWakesReaders(p) ==
  /\ pc[p] = "idle" /\ ~lock
  /\ writeopen' = (writeopen /\ ~Last(p, Writers))
  /\ readopen'  = (readopen /\ ~Last(p, Readers))
  /\ pc' = WakeAfter(IF Last(p, Writers) \/ Last(p, Readers) THEN Readers ELSE {},
                     [pc EXCEPT ![p] = "closed"])
  /\ UNCHANGED <<data, nread, nwrite, lock, killed, todo, count, read>>

Close(p) ==
  /\ pc[p] = "idle" /\ ~lock
  /\ writeopen' = (writeopen /\ ~Last(p, Writers))
  /\ readopen'  = (readopen /\ ~Last(p, Readers))
  /\ pc' = WakeAfter((IF Last(p, Writers) THEN Readers ELSE {}) \cup
                     (IF Last(p, Readers) THEN Writers ELSE {}),
                     [pc EXCEPT ![p] = "closed"])
  /\ UNCHANGED <<data, nread, nwrite, lock, killed, todo, count, read>>

-----------------------------------------------------------------------------
ReadStep(r)  == Read(r) \/ ReadKilled(r) \/ ReadDoze(r)
WriteStep(w) == Write(w) \/ WriteFail(w) \/ WriteDoze(w)

(* A killed process makes no more calls. *)
CallStep ==
  \/ \E r \in Readers : ~killed[r] /\ \E n \in 1 .. MaxCount : CallRead(r, n)
  \/ \E w \in Writers : ~killed[w] /\ \E s \in Writes : CallWrite(w, s)

Next ==
  \/ \E r \in Readers : ReadStep(r)
  \/ \E w \in Writers : WriteStep(w)
  \/ \E p \in Procs : Sleep(p) \/ Close(p) \/ Kill(p)
  \/ CallStep

Spec == Init /\ [][Next]_vars

-----------------------------------------------------------------------------
(* Properties *)

(* piperead() and pipewrite(): the bytes come out in the order in which    *)
(* they went in, each once, and the pipe never takes more than PIPESIZE,   *)
(* with several writers, writes larger than the pipe, and counts that wrap *)
(* around.                                                                 *)
Chan == INSTANCE Channel
          WITH Capacity <- PIPESIZE,
               queue    <- [i \in 1 .. Used |-> data[Plus(nread, i - 1) % PIPESIZE]]

BytesInOrder == Chan!ChannelSpec

(* pipewrite() sleeps only while the pipe is full and somebody may read    *)
(* it; and "pipe-empty" (pipe.c:106) is what piperead() sleeps for: not     *)
(* while the pipe has bytes, nor after the last writer has closed its end.  *)
(* The second is not so once a writer has been killed, which may fill the   *)
(* pipe and wake nobody.                                                    *)
WriterWoken ==
  \A w \in Writers : pc[w] \in {"dozing", "asleep"} => Full /\ readopen

ReaderWoken ==
  (\A w \in Writers : ~killed[w]) =>
    \A r \in Readers : pc[r] \in {"dozing", "asleep"} => Empty /\ writeopen

SleepersWoken == WriterWoken /\ ReaderWoken
=============================================================================
