---------------------------- MODULE ShellParser ----------------------------
(***************************************************************************)
(* The parser of user/sh.c: from a line, a sequence of characters, to the  *)
(* tree that runcmd executes.                                              *)
(*                                                                         *)
(* Positions in the line count from 1 and es is one past the end, where    *)
(* the NUL is.  A word is a pair of positions <<q, eq>> until nulterminate *)
(* has put a NUL at its end; then it is the string that starts at q.  The  *)
(* parser's panic() is a tree of type PANIC: sh's child exits.             *)
(***************************************************************************)
EXTENDS Integers, Sequences

CONSTANT MAXARGS

NUL == "NUL"
whitespace == {" "}
symbols == {"<", "|", ">", "&", ";", "(", ")"}

Char(b, s) == IF s <= Len(b) THEN b[s] ELSE NUL
PANIC == [type |-> "PANIC"]

(* ------------------------------- tokens -------------------------------- *)

RECURSIVE SkipSpace(_, _)
SkipSpace(b, s) == IF Char(b, s) \in whitespace THEN SkipSpace(b, s + 1) ELSE s

RECURSIVE EndOfWord(_, _)
EndOfWord(b, s) ==
  IF Char(b, s) \in whitespace \cup symbols \cup {NUL} THEN s ELSE EndOfWord(b, s + 1)

gettoken(b, ps) ==
  LET s == SkipSpace(b, ps)
      c == Char(b, s)
      tok == CASE c = ">" /\ Char(b, s + 1) = ">" -> "+"
               [] c \in symbols \cup {NUL} /\ ~(c = ">" /\ Char(b, s + 1) = ">") -> c
               [] OTHER -> "a"
      end == CASE tok = NUL -> s
               [] tok = "+" -> s + 2
               [] tok = "a" -> EndOfWord(b, s)
               [] OTHER -> s + 1
  IN  [tok |-> tok, word |-> <<s, end>>, ps |-> SkipSpace(b, end)]

peek(b, ps, toks) == Char(b, SkipSpace(b, ps)) \in toks
After(b, ps) == gettoken(b, ps).ps

(* ---------------------------- constructors ----------------------------- *)

execcmd(argv) == [type |-> "EXEC", argv |-> argv]
redircmd(cmd, file, fd) == [type |-> "REDIR", cmd |-> cmd, file |-> file, fd |-> fd]
pipecmd(left, right) == [type |-> "PIPE", left |-> left, right |-> right]
listcmd(left, right) == [type |-> "LIST", left |-> left, right |-> right]
backcmd(cmd) == [type |-> "BACK", cmd |-> cmd]

(* ------------------------- recursive descent --------------------------- *)

\* What a parsing function leaves: its tree and *ps.
Result(cmd, ps) == [cmd |-> cmd, ps |-> ps]
Failed(x) == x.cmd.type = "PANIC"

\* parseredirs wraps the command it is given; parseexec collects redirections
\* around an EXEC whose argv is still growing, so they are kept in a sequence.
RECURSIVE parseredirs(_, _, _)
parseredirs(b, ps, redirs) ==
  IF ~peek(b, ps, {"<", ">"}) THEN [ok |-> TRUE, redirs |-> redirs, ps |-> SkipSpace(b, ps)]
  ELSE LET t == gettoken(b, ps)
           f == gettoken(b, t.ps)
       IN  IF f.tok # "a" THEN [ok |-> FALSE, redirs |-> redirs, ps |-> f.ps]
           ELSE parseredirs(b, f.ps, Append(redirs, [file |-> f.word, fd |-> IF t.tok = "<" THEN 0 ELSE 1]))

RECURSIVE Wrapped(_, _)
Wrapped(cmd, redirs) ==
  IF redirs = <<>> THEN cmd
  ELSE Wrapped(redircmd(cmd, Head(redirs).file, Head(redirs).fd), Tail(redirs))

\* The loop of parseexec over arguments and redirections.
RECURSIVE Arguments(_, _, _)
Arguments(b, rd, argv) ==
  IF ~rd.ok THEN Result(PANIC, rd.ps)
  ELSE LET t == gettoken(b, rd.ps)
       IN  IF peek(b, rd.ps, {"|", ")", "&", ";"}) \/ t.tok = NUL
           THEN Result(Wrapped(execcmd(argv), rd.redirs), rd.ps)
           ELSE IF t.tok # "a" \/ Len(argv) + 1 >= MAXARGS THEN Result(PANIC, t.ps)
           ELSE Arguments(b, parseredirs(b, t.ps, rd.redirs), Append(argv, t.word))

RECURSIVE parseline(_, _), parsepipe(_, _), parseexec(_, _), parseblock(_, _), Background(_, _)

parseblock(b, ps) ==
  LET x == parseline(b, After(b, ps))
      rd == parseredirs(b, After(b, x.ps), <<>>)
  IN  IF Failed(x) \/ ~peek(b, x.ps, {")"}) \/ ~rd.ok THEN Result(PANIC, x.ps)
      ELSE Result(Wrapped(x.cmd, rd.redirs), rd.ps)

parseexec(b, ps) ==
  IF peek(b, ps, {"("}) THEN parseblock(b, ps) ELSE Arguments(b, parseredirs(b, ps, <<>>), <<>>)

parsepipe(b, ps) ==
  LET x == parseexec(b, ps)
  IN  IF Failed(x) \/ ~peek(b, x.ps, {"|"}) THEN x
      ELSE LET y == parsepipe(b, After(b, x.ps))
           IN  IF Failed(y) THEN y ELSE Result(pipecmd(x.cmd, y.cmd), y.ps)

\* The loop of parseline over "&".
Background(b, x) ==
  IF Failed(x) \/ ~peek(b, x.ps, {"&"}) THEN x ELSE Background(b, Result(backcmd(x.cmd), After(b, x.ps)))

parseline(b, ps) ==
  LET x == Background(b, parsepipe(b, ps))
  IN  IF Failed(x) \/ ~peek(b, x.ps, {";"}) THEN x
      ELSE LET y == parseline(b, After(b, x.ps))
           IN  IF Failed(y) THEN y ELSE Result(listcmd(x.cmd, y.cmd), y.ps)

(* ----------------------------- nulterminate ---------------------------- *)

\* Mutant of Ends: the file of a redirection is not terminated.
RECURSIVE Ends_argv(_)
Ends_argv(cmd) ==
  CASE cmd.type = "EXEC" -> {cmd.argv[i][2] : i \in DOMAIN cmd.argv}
    [] cmd.type \in {"REDIR", "BACK"} -> Ends_argv(cmd.cmd)
    [] cmd.type \in {"PIPE", "LIST"} -> Ends_argv(cmd.left) \cup Ends_argv(cmd.right)

\* Where nulterminate puts a NUL.
RECURSIVE Ends(_)
Ends(cmd) ==
  CASE cmd.type = "EXEC" -> {cmd.argv[i][2] : i \in DOMAIN cmd.argv}
    [] cmd.type = "REDIR" -> Ends(cmd.cmd) \cup {cmd.file[2]}
    [] cmd.type \in {"PIPE", "LIST"} -> Ends(cmd.left) \cup Ends(cmd.right)
    [] cmd.type = "BACK" -> Ends(cmd.cmd)

nulterminate(b, cmd) == [i \in DOMAIN b |-> IF i \in Ends(cmd) THEN NUL ELSE b[i]]

\* The string at a position of the terminated line.
RECURSIVE String(_, _)
String(b, s) == IF Char(b, s) = NUL THEN <<>> ELSE <<Char(b, s)>> \o String(b, s + 1)

RECURSIVE Strings(_, _)
Strings(b, cmd) ==
  CASE cmd.type = "EXEC" -> execcmd([i \in DOMAIN cmd.argv |-> String(b, cmd.argv[i][1])])
    [] cmd.type = "REDIR" -> redircmd(Strings(b, cmd.cmd), String(b, cmd.file[1]), cmd.fd)
    [] cmd.type = "PIPE" -> pipecmd(Strings(b, cmd.left), Strings(b, cmd.right))
    [] cmd.type = "LIST" -> listcmd(Strings(b, cmd.left), Strings(b, cmd.right))
    [] cmd.type = "BACK" -> backcmd(Strings(b, cmd.cmd))

parsecmd(b) ==
  LET x == parseline(b, 1)
  IN  IF Failed(x) \/ SkipSpace(b, x.ps) <= Len(b) THEN PANIC
      ELSE Strings(nulterminate(b, x.cmd), x.cmd)

(* ----------------------------- properties ------------------------------ *)

\* The grammar, from the tree's side: how a tree is written.  A block keeps
\* what it encloses together; a word is written with the separator sp before.
Block(s) == <<"(">> \o s \o <<")">>

RECURSIVE Join(_, _)
Join(words, sp) == IF words = <<>> THEN <<>> ELSE sp \o Head(words) \o Join(Tail(words), <<" ">>)

RECURSIVE Write(_, _)
Write(t, sp) ==
  LET In(u, types) == IF u.type \in types THEN Write(u, sp) ELSE Block(Write(u, sp))
  IN  CASE t.type = "EXEC" -> Join(t.argv, sp)
        [] t.type = "REDIR" -> In(t.cmd, {"EXEC", "REDIR"}) \o sp \o <<IF t.fd = 0 THEN "<" ELSE ">">> \o sp \o t.file
        [] t.type = "PIPE" -> In(t.left, {"EXEC", "REDIR"}) \o sp \o <<"|">> \o In(t.right, {"EXEC", "REDIR", "PIPE"})
        [] t.type = "BACK" -> In(t.cmd, {"EXEC", "REDIR", "PIPE", "BACK"}) \o sp \o <<"&">>
        [] t.type = "LIST" -> In(t.left, {"EXEC", "REDIR", "PIPE", "BACK"}) \o sp \o <<";">> \o Write(t.right, sp)

\* A tree that is written down and parsed is the same tree, with and without
\* spaces: pipes bind tighter than "&", "&" than ";", redirections belong to
\* the command or block before them, and no word keeps a piece of what follows.
ParsesBack(t) == \A sp \in {<<>>, <<" ">>} : parsecmd(Write(t, sp)) = t
=============================================================================
