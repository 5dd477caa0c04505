----------------------------- MODULE LineInput -----------------------------
(***************************************************************************)
(* What the console promises to its readers.  A line is edited until a     *)
(* newline, a ^D or the last free place ends it; from then on it can only  *)
(* be read.  At most Size characters wait.  Each character goes to one     *)
(* reader, in order.  One read goes no further than a newline, and ^D ends *)
(* the read that finds it first, without being read.                       *)
(***************************************************************************)
EXTENDS Integers, Sequences

CONSTANTS Reader, Char, Ends, Size
VARIABLES line,    \* being edited
          ready,   \* ended lines, not yet read
          dst      \* what each reader's call has got so far

vars == <<line, ready, dst>>

Init == line = <<>> /\ ready = <<>> /\ dst = [p \in Reader |-> <<>>]

Type(c) ==
  /\ Len(ready) + Len(line) < Size
  /\ IF c \in Ends \/ Len(ready) + Len(line) + 1 = Size
     THEN ready' = ready \o line \o <<c>> /\ line' = <<>>
     ELSE line' = Append(line, c) /\ UNCHANGED ready
  /\ UNCHANGED dst

Erase == line # <<>> /\ line' = SubSeq(line, 1, Len(line) - 1) /\ UNCHANGED <<ready, dst>>
Kill == line' = <<>> /\ UNCHANGED <<ready, dst>>

Return(p) == dst' = [dst EXCEPT ![p] = <<>>] /\ UNCHANGED <<line, ready>>

\* A reader takes k characters, none of the first k - 1 an end of line.
Take(p) ==
  \E k \in 1 .. Len(ready) :
    /\ \A i \in 1 .. k - 1 : ready[i] \notin Ends
    /\ ready[k] # "^D"
    /\ dst' = [dst EXCEPT ![p] = @ \o SubSeq(ready, 1, k)]
    /\ ready' = SubSeq(ready, k + 1, Len(ready))
    /\ UNCHANGED line

\* A call that got nothing before the ^D takes it: end of file.
EndOfFile(p) ==
  /\ ready # <<>> /\ Head(ready) = "^D"
  /\ dst[p] = <<>>
  /\ ready' = Tail(ready)
  /\ UNCHANGED <<line, dst>>

Next ==
  \/ \E c \in Char : Type(c)
  \/ Erase \/ Kill
  \/ \E p \in Reader : Return(p) \/ Take(p) \/ EndOfFile(p)

Spec == Init /\ [][Next]_vars
=============================================================================
