------------------------------ MODULE Console ------------------------------
(***************************************************************************)
(* The console as a source of input (console.c): consoleintr() edits the   *)
(* end of a ring of characters, readers consume its start.                 *)
(*                                                                         *)
(* A critical section of cons.lock is one action, up to the point where a  *)
(* reader decides to sleep, as in Pipe.  consoleintr() handles every       *)
(* character the keyboard has in one section; here each is handled on its  *)
(* own, which only lets more happen in between.  A cell that has been      *)
(* consumed or erased is forgotten.                                        *)
(***************************************************************************)
EXTENDS Integers, Sequences, FiniteSetsExt

CONSTANTS
  TReaders,
  Chars, Newline, Eof,  \* ordinary characters, '\n' and ^D
  Erased,               \* what is in a cell that holds no character
  INPUT_BUF,
  IndexMax,             \* uint indices modulo IndexMax (2^32)
  ReadMax               \* bound on the count of a read()

Ends == {Newline, Eof}

ASSUME ConsoleAssumption ==
  /\ INPUT_BUF \in Nat \ {0} /\ IndexMax \in Nat /\ ReadMax \in Nat
  /\ IndexMax % INPUT_BUF = 0 /\ IndexMax > INPUT_BUF
  /\ Newline \notin Chars /\ Eof \notin Chars \cup {Newline}
  /\ Erased \notin Chars \cup Ends

VARIABLES
  input,     \* buf, and the indices r (read), w (write) and e (edit)
  conslock,  \* cons.lock is held by a reader on its way into sleep()
  rpc,       \* "idle", "call" (about to take cons.lock), "dozing", "asleep"
  rkilled,
  want,      \* n of consoleread(): the bytes a reader has still to get
  got        \* the bytes it has, of this read() or the last

consvars == <<input, conslock, rpc, rkilled, want, got>>

ConsInit ==
  /\ input = [buf |-> [i \in 0 .. INPUT_BUF - 1 |-> Erased], r |-> 0, w |-> 0, e |-> 0]
  /\ conslock = FALSE
  /\ rpc = [p \in TReaders |-> "idle"] /\ rkilled = [p \in TReaders |-> FALSE]
  /\ want = [p \in TReaders |-> 0] /\ got = [p \in TReaders |-> << >>]

(* uint arithmetic *)
Up(a, n)   == (a + n) % IndexMax
Gap(a, b)  == (b + IndexMax - a) % IndexMax
CellAt(a)  == a % INPUT_BUF
CellsFrom(a, n) == {CellAt(Up(a, k)) : k \in 0 .. n - 1}

(* The characters from index a up to index b. *)
Between(a, b) == [k \in 1 .. Gap(a, b) |-> input.buf[CellAt(Up(a, k - 1))]]

Cleared(cells) == [i \in DOMAIN input.buf |-> IF i \in cells THEN Erased ELSE input.buf[i]]

(* wakeup(&input.r) *)
Woken == [p \in TReaders |-> IF rpc[p] = "asleep" THEN "call" ELSE rpc[p]]

-----------------------------------------------------------------------------
(* consoleintr(): an ordinary character or an end of line is put in if     *)
(* there is room, and the line is released if it ends or the ring is full. *)
Completes(c) == c \in Ends \/ Up(input.e, 1) = Up(input.r, INPUT_BUF)

PutChar(c) ==
  /\ ~conslock
  /\ Gap(input.r, input.e) < INPUT_BUF
  /\ input' = [input EXCEPT !.buf[CellAt(input.e)] = c,
                            !.e = Up(@, 1),
                            !.w = IF Completes(c) THEN Up(input.e, 1) ELSE @]
  /\ rpc' = IF Completes(c) THEN Woken ELSE rpc
  /\ UNCHANGED <<conslock, rkilled, want, got>>

Back(n) ==
  /\ ~conslock
  /\ input' = [input EXCEPT !.e = Gap(n, @), !.buf = Cleared(CellsFrom(Gap(n, input.e), n))]
  /\ UNCHANGED <<conslock, rpc, rkilled, want, got>>

(* ^H *)
Backspace == input.e # input.w /\ Back(1)

(* ^U goes back to the start of the line, or to what has been released. *)
KillLine ==
  LET edited == Between(input.w, input.e)
      ends   == {i \in DOMAIN edited : edited[i] = Newline}
      n      == Len(edited) - Max(ends \cup {0})
  IN n > 0 /\ Back(n)

-----------------------------------------------------------------------------
(* consoleread() *)
CallConsole(p, n) ==
  /\ rpc[p] = "idle"
  /\ rpc'  = [rpc EXCEPT ![p] = "call"]
  /\ want' = [want EXCEPT ![p] = n]
  /\ got'  = [got EXCEPT ![p] = << >>]
  /\ UNCHANGED <<input, conslock, rkilled>>

(* What the loop copies before it returns or finds the ring empty: the     *)
(* characters up to an end, and how far input.r goes.                      *)
Ready == Between(input.r, input.w)

Stop(p) ==
  LET ends == {i \in DOMAIN Ready : Ready[i] \in Ends}
  IN  Min(ends \cup {want[p], Len(Ready)})

AtEnd(p) == Stop(p) > 0 /\ (Stop(p) = want[p] \/ Ready[Stop(p)] \in Ends)

Copied(p) ==
  SubSeq(Ready, 1, IF Stop(p) > 0 /\ Ready[Stop(p)] = Eof THEN Stop(p) - 1 ELSE Stop(p))

(* Mutant: the bytes of an earlier turn of the loop are not counted. *)
ConsumedThisTurn(p) == IF Copied(p) # << >> THEN Len(Copied(p)) ELSE Stop(p)

(* A ^D is put back unless it is the first byte of the read(). *)
Consumed(p) ==
  IF got[p] \o Copied(p) # << >> THEN Len(Copied(p)) ELSE Stop(p)

Take(p) ==
  input' = [input EXCEPT !.r = Up(@, Consumed(p)),
                         !.buf = Cleared(CellsFrom(input.r, Consumed(p)))]

ReadReturns(p) ==
  /\ rpc[p] = "call" /\ ~conslock
  /\ AtEnd(p)
  /\ Take(p)
  /\ got'  = [got EXCEPT ![p] = @ \o Copied(p)]
  /\ want' = [want EXCEPT ![p] = 0]
  /\ rpc'  = [rpc EXCEPT ![p] = "idle"]
  /\ UNCHANGED <<conslock, rkilled>>

(* The ring is empty, or gets empty, before the read() is complete. *)
ReadDozes(p) ==
  /\ rpc[p] = "call" /\ ~conslock
  /\ ~AtEnd(p) /\ ~rkilled[p]
  /\ Take(p)
  /\ got'  = [got EXCEPT ![p] = @ \o Copied(p)]
  /\ want' = [want EXCEPT ![p] = @ - Len(Copied(p))]
  /\ rpc'  = [rpc EXCEPT ![p] = "dozing"]
  /\ conslock' = TRUE
  /\ UNCHANGED rkilled

(* A killed reader gets -1, and what it had taken is lost. *)
ReadGivesUp(p) ==
  /\ rpc[p] = "call" /\ ~conslock
  /\ ~AtEnd(p) /\ rkilled[p]
  /\ Take(p)
  /\ got'  = [got EXCEPT ![p] = << >>]
  /\ want' = [want EXCEPT ![p] = 0]
  /\ rpc'  = [rpc EXCEPT ![p] = "idle"]
  /\ UNCHANGED <<conslock, rkilled>>

(* sleep() has ptable.lock: it releases cons.lock and sleeps. *)
ReaderSleeps(p) ==
  /\ rpc[p] = "dozing"
  /\ rpc' = [rpc EXCEPT ![p] = "asleep"]
  /\ conslock' = FALSE
  /\ UNCHANGED <<input, rkilled, want, got>>

(* kill() wakes a reader that sleeps, and only marks one that does not. *)
KillReader(p) ==
  /\ ~rkilled[p]
  /\ rkilled' = [rkilled EXCEPT ![p] = TRUE]
  /\ rpc' = [rpc EXCEPT ![p] = IF @ = "asleep" THEN "call" ELSE @]
  /\ UNCHANGED <<input, conslock, want, got>>

-----------------------------------------------------------------------------
(* A killed process makes no more calls. *)
ConsNext ==
  \/ \E c \in Chars \cup Ends : PutChar(c)
  \/ Backspace \/ KillLine
  \/ \E p \in TReaders :
       \/ ~rkilled[p] /\ \E n \in 1 .. ReadMax : CallConsole(p, n)
       \/ ReadReturns(p) \/ ReadDozes(p) \/ ReadGivesUp(p)
       \/ ReaderSleeps(p) \/ KillReader(p)

ConsSpec == ConsInit /\ [][ConsNext]_consvars

-----------------------------------------------------------------------------
(* consoleintr() and consoleread() make a Terminal of the ring, wherever   *)
(* its indices stand: nothing typed is lost or doubled, only the line      *)
(* being edited is erased, a full ring is released, a reader gets at most  *)
(* one line, an end of file is seen by some read() as 0 bytes, and no      *)
(* reader sleeps once the line it waits for is released.                   *)
ReaderPhase(p) ==
  CASE rpc[p] = "idle" -> "idle" [] rpc[p] = "call" -> "reads" [] OTHER -> "waits"

Term == INSTANCE Terminal
          WITH line     <- Between(input.w, input.e),
               released <- Between(input.r, input.w),
               phase    <- [p \in TReaders |-> ReaderPhase(p)],
               Capacity <- INPUT_BUF

TerminalSpec == Term!TermSpec
=============================================================================
