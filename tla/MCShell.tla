------------------------------ MODULE MCShell ------------------------------
(* The instance of Shell for TLC: the command e is echo and c is cat.       *)
EXTENDS Shell, TLC

MCFiles == <<"f">> :> <<"1", "2", "3">>

\* Lines a user types, and the trees they stand for.
Ex == execcmd(<< <<"e">>, <<"x">> >>)
Ey == execcmd(<< <<"e">>, <<"y">> >>)
Cat == execcmd(<< <<"c">> >>)
Typed ==
  { << [line |-> <<"e", " ", "x", "y", "z", "|", "c">>,
        tree |-> pipecmd(execcmd(<< <<"e">>, <<"x", "y", "z">> >>), Cat)] >>,
    << [line |-> <<"e", " ", "x", "|", "c", "|", "c">>, tree |-> pipecmd(Ex, pipecmd(Cat, Cat))] >>,
    << [line |-> <<"(", "e", " ", "x", ";", "c", ")", "<", "f", "|", "c">>,
        tree |-> pipecmd(redircmd(listcmd(Ex, Cat), <<"f">>, 0), Cat)] >>,
    << [line |-> <<"c", "<", "f", ";", "e", " ", "x", ";">>,
        tree |-> listcmd(redircmd(Cat, <<"f">>, 0), listcmd(Ex, execcmd(<<>>)))],
       [line |-> <<"e", ">", "f">>, tree |-> redircmd(execcmd(<< <<"e">> >>), <<"f">>, 1)] >>,
    << [line |-> <<"c", " ", "f", " ", "g", "|", "e", " ", "x">>,
        tree |-> pipecmd(execcmd(<< <<"c">>, <<"f">>, <<"g">> >>), Ex)],
       [line |-> <<"(", "e">>, tree |-> PANIC] >>,
    << [line |-> <<"c", " ", "f", "|", "n">>,
        tree |-> pipecmd(execcmd(<< <<"c">>, <<"f">> >>), execcmd(<< <<"n">> >>))],
       [line |-> <<"e", " ", "x", "&", ";", "e", " ", "y">>, tree |-> listcmd(backcmd(Ex), Ey)] >>,
    << [line |-> <<"e", " ", "x", "|", "c", "&">>, tree |-> backcmd(pipecmd(Ex, Cat))],
       [line |-> <<"n">>, tree |-> execcmd(<< <<"n">> >>)] >> }

MCScripts == {[i \in DOMAIN s |-> s[i].tree] : s \in Typed}

\* Trees of the grammar to depth two, with words of one and two letters.
Simple == {execcmd(w) : w \in {<<>>, << <<"e">> >>, << <<"e", "x">>, <<"y">> >>}}
Over(S) == [cmd : S, file : {<<"f">>}, fd : {0, 1}, type : {"REDIR"}]
           \cup [left : S, right : S, type : {"PIPE", "LIST"}] \cup [cmd : S, type : {"BACK"}]
Trees == LET T1 == Simple \cup Over({execcmd(<< <<"e">> >>), execcmd(<<>>)}) IN T1 \cup Over(T1)

\* Formulas without variables: their value is the same at every step, and TLC
\* evaluates them for the first one of one script.
OneScript == script = CHOOSE s \in MCScripts : TRUE
Starting == pid[init] = 0 /\ pid'[init] # 0 /\ OneScript

AllParse ==
  /\ \A t \in Trees : ParsesBack(t)
  /\ \A s \in Typed : \A i \in DOMAIN s : parsecmd(s[i].line) = s[i].tree

\* The parser returns every one of these trees, and those that the scripts
\* run from the first step.
ParserRoundTrip == [][Starting => AllParse]_vars

-----------------------------------------------------------------------------
(* The helpers that the programs use, with ints of 4 bits, and grep with a  *)
(* buffer of 5 bytes.                                                       *)

Lib == INSTANCE Library WITH INT <- 4, LONG <- 6, BUF <- 5
UpTo(S, n) == UNION {[1 .. k -> S] : k \in 0 .. n}

Memory == [a \in 0 .. 4 |-> a + 1]
Patterns == UpTo({36, 42, 46, 94, 97}, 3)    \* of $ * . ^ a
Texts == UpTo({97, 98}, 3)
TextFiles == UpTo({10, 97, 98}, 6)
Formats == {f \in UpTo({37, 100, 108, 115, 120, 122}, 4) :    \* of % d l s x z
              \A i \in 1 .. Len(f) - 1 : ~(f[i] = 108 /\ f[i + 1] = 108)}
Args(n, k) == [i \in 1 .. 3 |-> [n |-> IF i = 1 THEN n ELSE k, s |-> <<98>>]]

AllCompute ==
  /\ \A d, s, n \in 0 .. 5 : d + n <= 5 /\ s + n <= 5 => Lib!MovesRight(Memory, d, s, n)
  /\ \A t \in Texts, n \in 0 .. 5 : Lib!StringsRight(Memory, t, n)
  /\ \A n \in -32 .. 31 : Lib!NumbersRead(n)
  /\ \A f \in Formats, n \in {-7, 0, 7} : Lib!PrintersAgree(f, Args(n, -3))
  /\ \A re \in Patterns, t \in Texts : Lib!MatcherRight(re, t)
  /\ \A re \in {<<>>, <<97>>, <<94, 97, 42, 36>>}, file \in TextFiles : Lib!GrepSelects(re, file)

\* memmove, the string copies, the printers and grep do what they promise on
\* these inputs from the first step.
LibraryCorrect == [][Starting => AllCompute]_vars
=============================================================================
