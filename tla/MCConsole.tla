----------------------------- MODULE MCConsole -----------------------------
(* The instance of Console for TLC: two processes, each with its own file. *)
EXTENDS Console

MCFileOf == [p \in Process |-> IF p = "p1" THEN "f1" ELSE "f2"]
MCWritten == {<<"a", "NL">>}

\* Both shift keys, both control keys, caps lock and a letter.
KeyEvents == {29, 42, 54, 58, 157, 32} \X BOOLEAN

\* A formula without variables, which TLC evaluates once.
AllDecode == \A s \in UNION {[1 .. k -> KeyEvents] : k \in 0 .. 3} : DecodesKeys(s)

\* kbdgetc decodes every sequence of three key events and the key after it, so
\* each step of consoleintr gets the character that was meant.
KeyboardDecodes == [][AllDecode]_vars
=============================================================================
