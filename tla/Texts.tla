------------------------------- MODULE Texts --------------------------------
(***************************************************************************)
(* Algorithms on texts and memory: grep.c and wc.c, on sequences of        *)
(* characters, and the functions of string.c, ulib.c and printf.c and how  *)
(* syscall.c gets the arguments of a call, on a memory of bytes and        *)
(* integers of WORD values.                                                *)
(***************************************************************************)
EXTENDS Integers, SequencesExt

CONSTANTS
  GREPBUF,   \* sizeof(buf) of grep
  WORD       \* how many values an int has: 2^32

NL == "nl"

At(s, k) == IF k \in DOMAIN s THEN s[k] ELSE "nul"
From(s, k) == SubSeq(s, k, Len(s))

-----------------------------------------------------------------------------
(* match(), matchhere() and matchstar() *)

RECURSIVE MatchHere(_, _), MatchStar(_, _, _), MatchAny(_, _)

(* Mutant: a * is one instance or more. *)
MatchStarOnce(c, re, text) ==
  /\ text # << >> /\ (Head(text) = c \/ c = ".")
  /\ MatchHere(re, Tail(text)) \/ MatchStar(c, re, Tail(text))

MatchStar(c, re, text) ==
  \/ MatchHere(re, text)
  \/ text # << >> /\ (Head(text) = c \/ c = ".") /\ MatchStar(c, re, Tail(text))

MatchHere(re, text) ==
  IF re = << >> THEN TRUE
  ELSE IF At(re, 2) = "*" THEN MatchStar(re[1], From(re, 3), text)
  ELSE IF re = <<"$">> THEN text = << >>
  ELSE text # << >> /\ re[1] \in {".", text[1]} /\ MatchHere(Tail(re), Tail(text))

MatchAny(re, text) ==
  MatchHere(re, text) \/ (text # << >> /\ MatchAny(re, Tail(text)))

Match(re, text) ==
  IF At(re, 1) = "^" THEN MatchHere(Tail(re), text) ELSE MatchAny(re, text)

-----------------------------------------------------------------------------
(* grep(): what is printed of a text that read() gives in parts of at most *)
(* n characters.  held is the start of a line from the reads before; a     *)
(* buffer without the end of a line is thrown away.                        *)

RECURSIVE LinesOf(_), GrepLoop(_, _, _, _)

(* The complete lines of a text. *)
LinesOf(text) ==
  IF NL \notin Range(text) THEN << >>
  ELSE LET k == SelectInSeq(text, LAMBDA c : c = NL) IN
       <<SubSeq(text, 1, k - 1)>> \o LinesOf(From(text, k + 1))

AfterLastLine(text) == From(text, SelectLastInSeq(text, LAMBDA c : c = NL) + 1)

Taken(held, text, n) ==
  LET room == GREPBUF - Len(held) - 1
      size == IF n < room THEN n ELSE room
  IN SubSeq(text, 1, IF size < Len(text) THEN size ELSE Len(text))

GrepLoop(re, held, text, n) ==
  LET new  == Taken(held, text, n)
      have == held \o new
  IN IF new = << >> THEN << >>
     ELSE SelectSeq(LinesOf(have), LAMBDA line : Match(re, line))
            \o GrepLoop(re, IF NL \in Range(have) THEN AfterLastLine(have) ELSE << >>,
                        From(text, Len(new) + 1), n)

(* wc(): characters, lines and words, over the reads of n characters. *)
WcStep(counts, c) ==
  [c |-> counts.c + 1,
   l |-> counts.l + IF c = NL THEN 1 ELSE 0,
   w |-> counts.w + IF c \notin {NL, " "} /\ ~counts.inword THEN 1 ELSE 0,
   inword |-> c \notin {NL, " "}]

RECURSIVE WcLoop(_, _, _)
WcLoop(counts, text, n) ==
  IF text = << >> THEN counts
  ELSE WcLoop(FoldLeft(WcStep, counts, SubSeq(text, 1, IF n < Len(text) THEN n ELSE Len(text))),
              From(text, n + 1), n)

Wc(text, n) == WcLoop([c |-> 0, l |-> 0, w |-> 0, inword |-> FALSE], text, n)

-----------------------------------------------------------------------------
(* What they are to find *)

(* A pattern as a sequence of items: a character, or any number of it. *)
RECURSIVE Items(_)
Items(re) ==
  IF re = << >> THEN << >>
  ELSE IF At(re, 2) = "*" THEN <<[char |-> re[1], many |-> TRUE]>> \o Items(From(re, 3))
  ELSE <<[char |-> re[1], many |-> FALSE]>> \o Items(Tail(re))

(* Where a match of the item can end that begins where one in starts does. *)
Ends(text, starts, item) ==
  LET fits(m, n) == \A k \in m .. n - 1 : item.char \in {".", text[k]} IN
  {n \in 1 .. Len(text) + 1 : \E m \in starts :
     m <= n /\ fits(m, n) /\ (item.many \/ n = m + 1)}

Finds(re, text) ==
  LET first  == At(re, 1) = "^"
      items  == Items(IF first THEN Tail(re) ELSE re)
      closed == items # << >> /\ Last(items) = [char |-> "$", many |-> FALSE]
      ends   == FoldLeft(LAMBDA S, item : Ends(text, S, item),
                         IF first THEN {1} ELSE 1 .. Len(text) + 1,
                         IF closed THEN Front(items) ELSE items)
  IN IF closed THEN Len(text) + 1 \in ends ELSE ends # {}

Words(text) ==
  Cardinality({k \in DOMAIN text : /\ text[k] \notin {NL, " "}
                                   /\ k = 1 \/ At(text, k - 1) \in {NL, " "}})

(* Every read ends at least one line. *)
RECURSIVE EndsLines(_, _, _)
EndsLines(held, text, n) ==
  LET new == Taken(held, text, n) IN
  new # << >> => /\ NL \in Range(new)
                 /\ EndsLines(AfterLastLine(held \o new), From(text, Len(new) + 1), n)

Strings(chars, n) == UNION {[1 .. k -> chars] : k \in 0 .. n}

(* A pattern is found where it is, with each * as long or as short as it   *)
(* has to be; grep prints the lines that have it, as long as every read    *)
(* ends a line, and wc counts the same however its input is cut.           *)
GrepRight(re) ==
  /\ \A text \in Strings({"a", "b"}, 4) : Match(re, text) = Finds(re, text)
  /\ \A text \in Strings({"a", NL}, 5), n \in 1 .. 5 :
       EndsLines(<< >>, text, n) =>
         GrepLoop(re, << >>, text, n) = SelectSeq(LinesOf(text), LAMBDA line : Finds(re, line))

WcRight ==
  \A text \in Strings({"a", " ", NL}, 4), n \in 1 .. 4 :
    LET counts == Wc(text, n) IN
    /\ counts.c = Len(text) /\ counts.w = Words(text)
    /\ counts.l = Cardinality({k \in DOMAIN text : text[k] = NL})

-----------------------------------------------------------------------------

NUL == 0

(* A memory is a function from its addresses to bytes. *)
Addresses(mem) == DOMAIN mem

-----------------------------------------------------------------------------
(* string.c *)

(* One byte after the other, from the first up or from the last down. *)
RECURSIVE CopyUp(_, _, _, _), CopyDown(_, _, _, _)
CopyUp(mem, d, s, n) ==
  IF n = 0 THEN mem ELSE CopyUp([mem EXCEPT ![d] = mem[s]], d + 1, s + 1, n - 1)
CopyDown(mem, d, s, n) ==
  IF n = 0 THEN mem ELSE CopyDown([mem EXCEPT ![d + n - 1] = mem[s + n - 1]], d, s, n - 1)

MemMove(mem, d, s, n) ==
  IF s < d /\ s + n > d THEN CopyDown(mem, d, s, n) ELSE CopyUp(mem, d, s, n)

(* memmove() of ulib.c *)
UserMemMove(mem, d, s, n) == CopyUp(mem, d, s, n)

(* The string at an address, without its NUL. *)
RECURSIVE StringAt(_, _)
StringAt(mem, s) ==
  IF s \notin Addresses(mem) \/ mem[s] = NUL THEN << >>
  ELSE <<mem[s]>> \o StringAt(mem, s + 1)

(* strncpy(): up to n bytes with the NUL, and NULs up to n. *)
StrNCpy(mem, d, t, n) ==
  [a \in Addresses(mem) |->
     IF a < d \/ a >= d + n THEN mem[a]
     ELSE IF a - d < Len(t) THEN t[a - d + 1] ELSE NUL]

(* safestrcpy(): up to n - 1 bytes, and a NUL. *)
SafeStrCpy(mem, d, t, n) ==
  LET len == IF n - 1 < Len(t) THEN n - 1 ELSE Len(t) IN
  IF n <= 0 THEN mem
  ELSE [a \in Addresses(mem) |->
          IF a < d \/ a > d + len THEN mem[a]
          ELSE IF a < d + len THEN t[a - d + 1] ELSE NUL]

(* strncmp(): the sign is the order. *)
RECURSIVE StrNCmp(_, _, _)
StrNCmp(p, q, n) ==
  IF n = 0 THEN 0
  ELSE IF p # << >> /\ q # << >> /\ Head(p) = Head(q) THEN StrNCmp(Tail(p), Tail(q), n - 1)
  ELSE (IF p = << >> THEN NUL ELSE Head(p)) - (IF q = << >> THEN NUL ELSE Head(q))

(* strcmp() and strcpy() of ulib.c, that have no bound. *)
StrCmp(p, q) == StrNCmp(p, q, Len(p) + 1)
StrCpy(mem, d, t) == StrNCpy(mem, d, t, Len(t) + 1)

-----------------------------------------------------------------------------
(* printf.c, console.c and ulib.c: numbers *)

Unsigned(x) == x % WORD

(* The digits of an unsigned number, the last one first as they are made. *)
RECURSIVE Digits(_, _)
Digits(x, base) ==
  <<x % base>> \o IF x \div base # 0 THEN Digits(x \div base, base) ELSE << >>

PrintInt(xx, base, sign) ==
  (IF sign /\ xx < 0 THEN <<"-">> ELSE << >>)
    \o Reverse(Digits(Unsigned(IF sign /\ xx < 0 THEN -xx ELSE xx), base))

(* atoi() of the digits at the start. *)
RECURSIVE AToI(_, _)
AToI(s, n) ==
  IF s = << >> \/ Head(s) \notin 0 .. 9 THEN n ELSE AToI(Tail(s), n * 10 + Head(s))

-----------------------------------------------------------------------------
(* syscall.c: addr is what a program passes, size what the call says it    *)
(* needs, sz the size of the process.                                      *)

FetchIntOK(addr, sz) == addr < sz /\ Unsigned(addr + 4) <= sz

ArgPtrOK(addr, size, sz) ==
  size >= 0 /\ addr < sz /\ Unsigned(addr + size) <= sz

(* fetchstr(): the length of the string, or -1. *)
FetchStr(mem, addr, sz) ==
  IF addr >= sz \/ \A a \in addr .. sz - 1 : mem[a] # NUL THEN -1
  ELSE (CHOOSE a \in addr .. sz - 1 : mem[a] = NUL /\ \A b \in addr .. a - 1 : mem[b] # NUL)
         - addr

-----------------------------------------------------------------------------
(* What they promise, on a memory of six bytes. *)

Bytes == [a \in 0 .. 5 |-> a + 1]
Places == {c \in (0 .. 5) \X (0 .. 5) \X (0 .. 6) : c[1] + c[3] <= 6 /\ c[2] + c[3] <= 6}
Texts == UNION {[1 .. k -> 1 .. 2] : k \in 0 .. 3}

(* Copied from src as it was, though the two may overlap; all else stays. *)
Moved(after, d, s, n) ==
  after = [a \in DOMAIN Bytes |-> IF d <= a /\ a < d + n THEN Bytes[a - d + s] ELSE Bytes[a]]

CopiesRight ==
  \A c \in Places :
    /\ Moved(MemMove(Bytes, c[1], c[2], c[3]), c[1], c[2], c[3])
    /\ c[1] <= c[2] => Moved(UserMemMove(Bytes, c[1], c[2], c[3]), c[1], c[2], c[3])

(* A copy of a string keeps within n bytes; safestrcpy() ends it with NUL. *)
StringsRight ==
  \A t \in Texts, d \in 0 .. 2, n \in 0 .. 4 :
    LET cut(u, k) == SubSeq(u, 1, IF k < Len(u) THEN k ELSE Len(u))
        safe == SafeStrCpy(Bytes, d, t, n)
        full == StrNCpy(Bytes, d, t, n)
        kept(mem) == \A a \in DOMAIN mem : a < d \/ a >= d + n => mem[a] = Bytes[a]
    IN /\ kept(safe) /\ (n > 0 => StringAt(safe, d) = cut(t, n - 1))
       /\ kept(full) /\ (n > Len(t) => StringAt(full, d) = t)
       /\ StringAt(StrCpy(Bytes, d, t), d) = t
       /\ \A u \in Texts : /\ StrNCmp(t, u, n) = 0 <=> cut(t, n) = cut(u, n)
                           /\ StrCmp(t, u) = 0 <=> t = u

NumberOf(digits, base) == FoldLeft(LAMBDA v, x : v * base + x, 0, digits)

(* The least integer has no negative of its own, and prints right. *)
NumbersRight ==
  \A x \in -(WORD \div 2) .. WORD \div 2 - 1, base \in {10, 16} :
    LET signed == PrintInt(x, base, TRUE)
        plain  == PrintInt(x, base, FALSE)
    IN /\ x >= 0 => NumberOf(signed, base) = x
       /\ x < 0  => signed[1] = "-" /\ NumberOf(Tail(signed), base) = -x
       /\ NumberOf(plain, base) = Unsigned(x)
       /\ AToI(PrintInt(Unsigned(x), 10, FALSE), 0) = Unsigned(x)

(* What a call may touch lies in its process, as no process reaches the    *)
(* upper half of the addresses and sums do not wrap around.                *)
ArgumentsRight ==
  \A sz \in 0 .. WORD \div 2, addr \in 0 .. WORD - 1 :
    /\ FetchIntOK(addr, sz) => addr + 4 <= sz
    /\ \A size \in 0 .. WORD \div 2 - 1 : ArgPtrOK(addr, size, sz) => addr + size <= sz
    /\ \A z \in SUBSET (0 .. 3) :
         LET mem == [a \in 0 .. 3 |-> IF a \in z THEN NUL ELSE 1]
             len == FetchStr(mem, addr, sz)
         IN sz <= 4 => IF len = -1 THEN \A a \in addr .. sz - 1 : mem[a] # NUL
                       ELSE /\ addr + len < sz /\ mem[addr + len] = NUL
                            /\ \A a \in addr .. addr + len - 1 : mem[a] # NUL

LibraryRight == CopiesRight /\ StringsRight /\ NumbersRight /\ ArgumentsRight
=============================================================================
