------------------------------ MODULE Library ------------------------------
(***************************************************************************)
(* The sequential helpers of kernel and programs: copying and comparing    *)
(* (kernel/string.c, user/lib/ulib.c), printing numbers and formats        *)
(* (user/lib/printf.c, kernel/console.c) and grep with its matcher         *)
(* (user/grep.c).  Characters are their codes, a C string is the sequence  *)
(* of its characters before the NUL, memory is a function from addresses.  *)
(* Loops are recursive operators.                                          *)
(***************************************************************************)
EXTENDS Integers, Sequences, SequencesExt

CONSTANTS
  INT,   \* bits of an int
  LONG,  \* bits of an int64_t
  BUF    \* sizeof(buf) of grep

LOCAL NL == 10
LOCAL DOLLAR == 36
LOCAL PERCENT == 37
LOCAL STAR == 42
LOCAL MINUS == 45
LOCAL DOT == 46
LOCAL CARET == 94
LOCAL C == 99
LOCAL D == 100
LOCAL L == 108
LOCAL P == 112
LOCAL S == 115
LOCAL X == 120

\* The character of t at index i, which is NUL at its end.
Char(t, i) == IF i < Len(t) THEN t[i + 1] ELSE 0
LOCAL From(t, i) == SubSeq(t, i, Len(t))

-----------------------------------------------------------------------------
(* Copying and comparing.                                                  *)

\* Copies n bytes with the addresses going up, and going down.
RECURSIVE CopyUp(_, _, _, _)
CopyUp(mem, d, s, n) == IF n <= 0 THEN mem ELSE CopyUp([mem EXCEPT ![d] = mem[s]], d + 1, s + 1, n - 1)
RECURSIVE CopyDown(_, _, _, _)
CopyDown(mem, d, s, n) ==
  IF n <= 0 THEN mem ELSE CopyDown([mem EXCEPT ![d + n - 1] = mem[s + n - 1]], d, s, n - 1)

\* The kernel's, and the one of user/lib/ulib.c that always goes up.
memmove(mem, d, s, n) == IF s < d /\ s + n > d THEN CopyDown(mem, d, s, n) ELSE CopyUp(mem, d, s, n)
user_memmove(mem, d, s, n) == CopyUp(mem, d, s, n)

\* while (n-- > 0 && (*s++ = *t++) != 0): the buffer, the index and n after it.
RECURSIVE CopyString(_, _, _, _)
CopyString(s, t, i, n) ==
  IF n <= 0 THEN [s |-> s, i |-> i, n |-> n - 1]
  ELSE LET w == [s EXCEPT ![i] = Char(t, i)]
       IN  IF Char(t, i) = 0 THEN [s |-> w, i |-> i + 1, n |-> n - 1] ELSE CopyString(w, t, i + 1, n - 1)

RECURSIVE ZeroFill(_, _, _)
ZeroFill(s, i, n) == IF n <= 0 THEN s ELSE ZeroFill([s EXCEPT ![i] = 0], i + 1, n - 1)

strncpy(s, t, n) == LET c == CopyString(s, t, 0, n) IN ZeroFill(c.s, c.i, c.n)

safestrcpy(s, t, n) ==
  IF n <= 0 THEN s ELSE LET c == CopyString(s, t, 0, n - 1) IN [c.s EXCEPT ![c.i] = 0]

RECURSIVE strncmp(_, _, _)
strncmp(p, q, n) ==
  CASE n = 0 -> 0
    [] Char(p, 0) # 0 /\ Char(p, 0) = Char(q, 0) -> strncmp(Tail(p), Tail(q), n - 1)
    [] OTHER -> Char(p, 0) - Char(q, 0)

RECURSIVE strcmp(_, _)
strcmp(p, q) == IF Char(p, 0) # 0 /\ Char(p, 0) = Char(q, 0) THEN strcmp(Tail(p), Tail(q)) ELSE Char(p, 0) - Char(q, 0)

\* The index of the first c in s, or -1.
RECURSIVE strchr(_, _, _)
strchr(s, c, i) ==
  CASE Char(s, i) = 0 -> -1
    [] Char(s, i) = c -> i
    [] OTHER -> strchr(s, c, i + 1)

-----------------------------------------------------------------------------
(* Printing.                                                               *)

Unsigned(x, w) == x % 2^w
Signed(x, w) == ((x + 2^(w - 1)) % 2^w) - 2^(w - 1)

\* The digits of x, with the letters of a table that is in upper or lower case.
RECURSIVE Digits(_, _, _)
Digits(x, base, ten) ==
  LET d == x % base
      c == IF d < 10 THEN 48 + d ELSE ten + d - 10
  IN  IF x \div base = 0 THEN <<c>> ELSE Append(Digits(x \div base, base, ten), c)

\* xx of width w printed through an unsigned variable of width u.
Number(xx, base, sgn, w, u, ten) ==
  IF sgn /\ xx < 0 THEN <<MINUS>> \o Digits(Unsigned(Signed(-xx, w), u), base, ten)
                   ELSE Digits(Unsigned(xx, u), base, ten)

\* The kernel's, and those of user/lib/printf.c, whose printint64 takes an int.
printint(n, base, sgn) == Number(Signed(n, INT), base, sgn, INT, INT, 97)
printint64(n, base, sgn) == Number(Signed(n, LONG), base, sgn, LONG, LONG, 97)
user_printint(n, base, sgn) == Number(Signed(n, INT), base, sgn, INT, INT, 65)
user_printint64(n, base, sgn) == Number(Signed(n, INT), base, sgn, INT, LONG, 97)

\* n * 10 + *s++ - '0', as long as there are digits.
RECURSIVE atoi_from(_, _)
atoi_from(s, n) == IF Char(s, 0) \in 48 .. 57 THEN atoi_from(Tail(s), Signed(n * 10 + s[1] - 48, INT)) ELSE n
atoi(s) == atoi_from(s, 0)

\* An argument is a number n or a string s; n = 0 is a null pointer.
LOCAL Null == <<40, 110, 117, 108, 108, 41>>
Text(a) == IF a.n = 0 THEN Null ELSE a.s

\* printf from fmt on: perc says that a % was read, l that an l followed it.
RECURSIVE printf(_, _, _, _)
printf(fmt, perc, l, args) ==
  IF fmt = <<>> THEN <<>>
  ELSE LET c == Head(fmt)
           rest == Tail(fmt)
           taken == printf(rest, FALSE, FALSE, Tail(args))
       IN CASE ~perc /\ c = PERCENT -> printf(rest, TRUE, FALSE, args)
            [] ~perc /\ c # PERCENT -> <<c>> \o printf(rest, FALSE, FALSE, args)
            [] perc /\ c = L -> printf(rest, TRUE, TRUE, args)
            [] perc /\ c = D -> (IF l THEN user_printint64(args[1].n, 10, TRUE) ELSE user_printint(args[1].n, 10, TRUE)) \o taken
            [] perc /\ c \in {X, P} -> (IF l THEN user_printint64(args[1].n, 16, FALSE) ELSE user_printint(args[1].n, 16, FALSE)) \o taken
            [] perc /\ c = S -> Text(args[1]) \o taken
            [] perc /\ c = C -> <<args[1].n>> \o taken
            [] perc /\ c = PERCENT -> <<c>> \o printf(rest, FALSE, FALSE, args)
            [] OTHER -> <<PERCENT, c>> \o printf(rest, FALSE, FALSE, args)

\* cprintf likewise; a second l takes the first one back.
RECURSIVE cprintf(_, _, _, _)
cprintf(fmt, perc, l, args) ==
  IF fmt = <<>> THEN <<>>
  ELSE LET c == Head(fmt)
           rest == Tail(fmt)
           taken == cprintf(rest, FALSE, FALSE, Tail(args))
       IN CASE ~perc /\ c = PERCENT -> cprintf(rest, TRUE, FALSE, args)
            [] ~perc /\ c # PERCENT -> <<c>> \o cprintf(rest, FALSE, FALSE, args)
            [] perc /\ c = L -> cprintf(rest, TRUE, ~l, args)
            [] perc /\ c = D -> (IF l THEN printint64(args[1].n, 10, TRUE) ELSE printint(args[1].n, 10, TRUE)) \o taken
            [] perc /\ c = X -> (IF l THEN printint64(args[1].n, 16, FALSE) ELSE printint(args[1].n, 16, FALSE)) \o taken
            [] perc /\ c = P -> printint64(args[1].n, 16, FALSE) \o taken
            [] perc /\ c = S -> Text(args[1]) \o taken
            [] perc /\ c = PERCENT -> <<c>> \o cprintf(rest, FALSE, FALSE, args)
            [] OTHER -> <<PERCENT, c>> \o cprintf(rest, FALSE, FALSE, args)

-----------------------------------------------------------------------------
(* grep.                                                                   *)

\* matchstar that does not look at the rest before the first c.
RECURSIVE matchhere(_, _)
RECURSIVE matchstar(_, _, _)
matchstar_some(c, re, text) ==
  text # <<>> /\ (text[1] = c \/ c = DOT) /\ (matchhere(re, Tail(text)) \/ matchstar(c, re, Tail(text)))
matchstar(c, re, text) ==
  \/ matchhere(re, text)
  \/ text # <<>> /\ (text[1] = c \/ c = DOT) /\ matchstar(c, re, Tail(text))
matchhere(re, text) ==
  CASE re = <<>> -> TRUE
    [] Char(re, 1) = STAR -> matchstar(re[1], From(re, 3), text)
    [] re = <<DOLLAR>> -> text = <<>>
    [] OTHER -> text # <<>> /\ re[1] \in {DOT, text[1]} /\ matchhere(Tail(re), Tail(text))
match(re, text) ==
  IF Char(re, 0) = CARET THEN matchhere(Tail(re), text)
  ELSE \E i \in 1 .. Len(text) + 1 : matchhere(re, From(text, i))

\* The loop over the lines in the buffer from p on: what is left and what is
\* written.
RECURSIVE grep_lines(_, _, _)
grep_lines(re, p, out) ==
  LET q == strchr(p, NL, 0)
  IN  IF q = -1 THEN [rest |-> p, out |-> out]
      ELSE grep_lines(re, From(p, q + 2), IF match(re, SubSeq(p, 1, q)) THEN out \o SubSeq(p, 1, q + 1) ELSE out)

\* The loop over reads, left being the m characters kept of the last one.  A
\* file gives what is asked for, or what it has.  A buffer without a newline
\* is dropped.
RECURSIVE grep_read(_, _, _, _)
Kept(text, rest) == IF rest = text THEN <<>> ELSE rest
grep_read(re, left, file, out) ==
  LET n == Min({BUF - Len(left) - 1, Len(file)})
      text == left \o SubSeq(file, 1, n)
      s == grep_lines(re, text, out)
  IN  IF n <= 0 THEN out ELSE grep_read(re, Kept(text, s.rest), From(file, n + 1), s.out)
grep(re, file) == grep_read(re, <<>>, file, <<>>)

-----------------------------------------------------------------------------
(* What they promise.                                                      *)

\* memmove leaves the old bytes of the source at the destination and changes
\* nothing else, however the two overlap; the user library's does so unless
\* the destination begins inside the source.
MovesRight(mem, d, s, n) ==
  LET moved == [a \in DOMAIN mem |-> IF a \in d .. d + n - 1 THEN mem[s + a - d] ELSE mem[a]]
  IN  /\ memmove(mem, d, s, n) = moved
      /\ ~(s < d /\ d < s + n) => user_memmove(mem, d, s, n) = moved

\* Both copies stay within n bytes of the buffer.  safestrcpy leaves the
\* longest prefix that fits with a NUL after it, strncpy the string with NULs
\* up to n.  strncmp is strcmp on what is left when both are cut at n.
StringsRight(s, t, n) ==
  LET copy == safestrcpy(s, t, n)
      cut == SubSeq(t, 1, Min({n, Len(t)}))
  IN  /\ n > 0 => /\ \A i \in 0 .. Min({n - 1, Len(t)}) : copy[i] = IF i = n - 1 THEN 0 ELSE Char(t, i)
                  /\ \A i \in DOMAIN s : i >= n => copy[i] = s[i]
      /\ strncpy(s, t, n) = [i \in DOMAIN s |-> IF i < n THEN Char(t, i) ELSE s[i]]
      /\ strncmp(t, cut, n) = 0
      /\ (strcmp(t, cut) = 0) <=> (cut = t)
      /\ (strcmp(t, cut) > 0) <=> (strcmp(cut, t) < 0)

\* The number that digits stand for.
LOCAL DigitOf(c) == CASE c \in 48 .. 57 -> c - 48 [] c \in 65 .. 70 -> c - 55 [] OTHER -> c - 87
LOCAL ValueOf(digits, base) == FoldLeft(LAMBDA v, c : v * base + DigitOf(c), 0, digits)
LOCAL Denotes(out, base) == IF out[1] = MINUS THEN -ValueOf(Tail(out), base) ELSE ValueOf(out, base)

\* A number is printed so that it reads back, the least one included, in
\* decimal with its sign and in hexadecimal as the bits it has; atoi reads
\* what %d prints.  user_printint64 is left out: it takes an int, and prints
\* what does not fit in one (and the least int) as another number.
NumbersRead(n) ==
  /\ Denotes(printint64(n, 10, TRUE), 10) = Signed(n, LONG)
  /\ Denotes(printint64(n, 16, FALSE), 16) = Unsigned(n, LONG)
  /\ \A out \in {printint(n, 10, TRUE), user_printint(n, 10, TRUE)} : Denotes(out, 10) = Signed(n, INT)
  /\ \A out \in {printint(n, 16, FALSE), user_printint(n, 16, FALSE)} : Denotes(out, 16) = Unsigned(n, INT)
  /\ Signed(n, INT) >= 0 => atoi(user_printint(n, 10, TRUE)) = Signed(n, INT)

\* The kernel's and the library's printf print the same, up to the case of
\* hexadecimal letters, for the formats that both know and numbers that fit in
\* an int: they differ in %p, in %c and in an l that is repeated.
PrintersAgree(fmt, args) ==
  LET lower == [i \in DOMAIN printf(fmt, FALSE, FALSE, args) |->
                  LET c == printf(fmt, FALSE, FALSE, args)[i] IN IF c \in 65 .. 70 THEN c + 32 ELSE c]
  IN  lower = cprintf(fmt, FALSE, FALSE, args)

\* A pattern as a sequence of characters, each to be matched once or as often
\* as one likes.
RECURSIVE Items(_)
Items(re) ==
  CASE re = <<>> -> <<>>
    [] Char(re, 1) = STAR -> << [c |-> re[1], star |-> TRUE] >> \o Items(From(re, 3))
    [] OTHER -> << [c |-> re[1], star |-> FALSE] >> \o Items(Tail(re))

\* What a pattern means: some part of the text, at its beginning after a ^ and
\* at its end before a final $, is cut into one piece per item.
Matches(re, text) ==
  LET bol == Char(re, 0) = CARET
      all == Items(IF bol THEN Tail(re) ELSE re)
      eol == all # <<>> /\ Last(all) = [c |-> DOLLAR, star |-> FALSE]
      items == IF eol THEN Front(all) ELSE all
      n == Len(items)
  IN  \E cut \in [0 .. n -> 0 .. Len(text)] :
        /\ bol => cut[0] = 0
        /\ eol => cut[n] = Len(text)
        /\ \A k \in 1 .. n :
             /\ cut[k - 1] <= cut[k]
             /\ items[k].star \/ cut[k] = cut[k - 1] + 1
             /\ \A i \in cut[k - 1] + 1 .. cut[k] : items[k].c \in {DOT, text[i]}

\* The matcher finds what the pattern means.
MatcherRight(re, text) == match(re, text) = Matches(re, text)

\* The lines of a file, without what follows the last newline.
LOCAL Ends(file) == {0} \cup {i \in 1 .. Len(file) : file[i] = NL}
LOCAL Lines(file) ==
  LET e == SetToSortSeq(Ends(file), <) IN [k \in 1 .. Len(e) - 1 |-> SubSeq(file, e[k] + 1, e[k + 1])]

\* grep writes the lines that match and no others, in their order, wherever
\* its reads cut the file, if every line fits in the buffer.
GrepSelects(re, file) ==
  (\A i \in 1 .. Len(Lines(file)) : Len(Lines(file)[i]) < BUF) =>
    grep(re, file) = FlattenSeq(SelectSeq(Lines(file), LAMBDA line : Matches(re, Front(line))))
=============================================================================
