------------------------------ MODULE Terminal ------------------------------
(***************************************************************************)
(* What the console promises to the processes that read it: characters     *)
(* belong to the line being edited until they are released, all of them at *)
(* once, and a read() takes released characters up to the end of a line.   *)
(***************************************************************************)
EXTENDS Integers, Sequences, FiniteSetsExt

CONSTANTS
  TReaders,
  Chars, Newline, Eof,  \* ordinary characters, '\n' and ^D
  Capacity,             \* of what is typed and not read
  ReadMax               \* bound on the count of a read()

VARIABLES
  line,      \* what can still be edited
  released,  \* what can be read
  phase,     \* of each reader: "idle", "reads" or "waits"
  want,      \* the bytes it has still to get
  got        \* the bytes it has, of this read() or the last

termvars == <<line, released, phase, want, got>>

Ends == {Newline, Eof}

TermInit ==
  /\ line = << >> /\ released = << >>
  /\ phase = [p \in TReaders |-> "idle"]
  /\ want = [p \in TReaders |-> 0] /\ got = [p \in TReaders |-> << >>]

(* A full terminal ignores what is typed; one that becomes full releases   *)
(* the line as it is.                                                      *)
Type(c) ==
  LET typed == Append(line, c)
      ends  == c \in Ends \/ Len(released) + Len(typed) = Capacity
  IN /\ Len(released) + Len(line) < Capacity
     /\ line' = IF ends THEN << >> ELSE typed
     /\ released' = IF ends THEN released \o typed ELSE released
     /\ phase' = IF ends THEN [p \in TReaders |-> IF phase[p] = "waits" THEN "reads"
                                                  ELSE phase[p]]
                 ELSE phase
     /\ UNCHANGED <<want, got>>

Erase(n) ==
  /\ n \in 1 .. Len(line)
  /\ line' = SubSeq(line, 1, Len(line) - n)
  /\ UNCHANGED <<released, phase, want, got>>

StartRead(p, n) ==
  /\ phase[p] = "idle"
  /\ phase' = [phase EXCEPT ![p] = "reads"]
  /\ want' = [want EXCEPT ![p] = n] /\ got' = [got EXCEPT ![p] = << >>]
  /\ UNCHANGED <<line, released>>

(* p takes n characters, and k of them are consumed: all but an end of     *)
(* file that follows other bytes, which is left for the next read().       *)
Takes(p, n, k) ==
  LET chars == SubSeq(released, 1, n)
      bytes == IF n > 0 /\ released[n] = Eof THEN SubSeq(chars, 1, n - 1) ELSE chars
  IN /\ \A i \in 1 .. n - 1 : released[i] \notin Ends
     /\ k = IF bytes # chars /\ got[p] \o bytes # << >> THEN n - 1 ELSE n
     /\ released' = SubSeq(released, k + 1, Len(released))
     /\ got' = [got EXCEPT ![p] = @ \o bytes]
     /\ UNCHANGED line

(* read() returns when it has what it wants, or meets an end. *)
Return(p) ==
  \E n \in 1 .. Min({want[p], Len(released)}) :
    /\ n = want[p] \/ released[n] \in Ends
    /\ \E k \in {n - 1, n} : Takes(p, n, k)
    /\ want' = [want EXCEPT ![p] = 0]
    /\ phase' = [phase EXCEPT ![p] = "idle"]

(* It takes what there is and waits for more, or gives up when killed: the *)
(* bytes it has are lost.                                                  *)
TakeAll(p) ==
  LET n == Len(released) IN
  /\ n < want[p]
  /\ n > 0 => released[n] \notin Ends
  /\ Takes(p, n, n)

Wait(p) ==
  /\ phase[p] = "reads"
  /\ TakeAll(p)
  /\ want' = [want EXCEPT ![p] = @ - Len(released)]
  /\ phase' = [phase EXCEPT ![p] = "waits"]

GiveUp(p) ==
  /\ phase[p] = "reads"
  /\ released' = << >> /\ UNCHANGED line
  /\ want' = [want EXCEPT ![p] = 0] /\ got' = [got EXCEPT ![p] = << >>]
  /\ phase' = [phase EXCEPT ![p] = "idle"]

(* A kill() makes a waiting reader look again. *)
Rouse(p) ==
  /\ phase[p] = "waits"
  /\ phase' = [phase EXCEPT ![p] = "reads"]
  /\ UNCHANGED <<line, released, want, got>>

TermNext ==
  \/ \E c \in Chars \cup Ends : Type(c)
  \/ \E n \in 1 .. Capacity : Erase(n)
  \/ \E p \in TReaders :
       \/ \E n \in 1 .. ReadMax : StartRead(p, n)
       \/ phase[p] = "reads" /\ Return(p)
       \/ Wait(p) \/ GiveUp(p) \/ Rouse(p)

TermSpec == TermInit /\ [][TermNext]_termvars
=============================================================================
