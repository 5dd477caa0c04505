------------------------------ MODULE Keyboard ------------------------------
(***************************************************************************)
(* kbdgetc of kernel/kbd.c and the tables of inc/kbd.h: from the bytes of  *)
(* the keyboard controller to characters.                                  *)
(*                                                                         *)
(* A control character is written "^D", NO is the character 0; \b is ^H    *)
(* and \t is ^I.                                                           *)
(***************************************************************************)
EXTENDS Integers, Sequences, FiniteSets, TLC

NO == "NO"

\* The flags of the static `shift`.
SHIFT == "SHIFT"
CTL == "CTL"
ALT == "ALT"
CAPSLOCK == "CAPSLOCK"
NUMLOCK == "NUMLOCK"
SCROLLLOCK == "SCROLLLOCK"
E0ESC == "E0ESC"

\* What a table of flags and a table of characters hold for a code.
Flags(t, d) == IF d \in DOMAIN t THEN t[d] ELSE {}
Lookup(t, d) == IF d \in DOMAIN t THEN t[d] ELSE NO

shiftcode == 29 :> {CTL} @@ 42 :> {SHIFT} @@ 54 :> {SHIFT} @@ 56 :> {ALT} @@ 157 :> {CTL} @@ 184 :> {ALT}
togglecode == 58 :> {CAPSLOCK} @@ 69 :> {NUMLOCK} @@ 70 :> {SCROLLLOCK}

\* A row of a table, from a code on.
Row(first, chars) == [k \in first .. first + Len(chars) - 1 |-> chars[k - first + 1]]
C(x) == "^" \o x

lower == << <<"q", "w", "e", "r", "t", "y", "u", "i", "o", "p">>,
            <<"a", "s", "d", "f", "g", "h", "j", "k", "l">>, <<"z", "x", "c", "v", "b", "n", "m">> >>
upper == << <<"Q", "W", "E", "R", "T", "Y", "U", "I", "O", "P">>,
            <<"A", "S", "D", "F", "G", "H", "J", "K", "L">>, <<"Z", "X", "C", "V", "B", "N", "M">> >>

\* The letters in three rows, the keypad and what follows an escape byte.
Letters(rows) == Row(16, rows[1]) @@ Row(30, rows[2]) @@ Row(44, rows[3])
Keypad == Row(71, <<"7", "8", "9", "-", "4", "5", "6", "+", "1", "2", "3", "0", ".">>)
Special(enter, div) ==
  156 :> enter @@ 181 :> div @@ 200 :> "KEY_UP" @@ 208 :> "KEY_DN" @@ 201 :> "KEY_PGUP" @@ 209 :> "KEY_PGDN" @@
  203 :> "KEY_LF" @@ 205 :> "KEY_RT" @@ 151 :> "KEY_HOME" @@ 207 :> "KEY_END" @@ 210 :> "KEY_INS" @@ 211 :> "KEY_DEL"

normalmap ==
  Row(1, <<"ESC", "1", "2", "3", "4", "5", "6", "7", "8", "9", "0", "-", "=", "^H", "^I">>) @@ Letters(lower) @@
  Row(26, <<"[", "]", "NL">>) @@ Row(39, <<";", "'", "BACKQUOTE">>) @@ 43 :> "BACKSLASH" @@ Row(51, <<",", ".", "/">>) @@
  55 :> "*" @@ 57 :> " " @@ Keypad @@ Special("NL", "/")

shiftmap ==
  Row(1, <<"ESC", "!", "@", "#", "$", "%", "^", "&", "*", "(", ")", "_", "+", "^H", "^I">>) @@ Letters(upper) @@
  Row(26, <<"{", "}", "NL">>) @@ Row(39, <<":", "QUOTES", "~">>) @@ 43 :> "|" @@ Row(51, <<"<", ">", "?">>) @@
  55 :> "*" @@ 57 :> " " @@ Keypad @@ Special("NL", "/")

ctlmap ==
  [k \in DOMAIN Letters(upper) |-> C(Letters(upper)[k])] @@
  28 :> "CR" @@ 43 :> C("BACKSLASH") @@ 53 :> C("/") @@ Special("CR", C("/"))

charcode(shift) ==
  CASE CTL \in shift -> ctlmap
    [] CTL \notin shift /\ SHIFT \in shift -> shiftmap
    [] OTHER -> normalmap

\* With caps lock on, what a letter becomes.
SwapCase ==
  LET case(k, c) == IF c = Letters(lower)[k] THEN Letters(upper)[k] ELSE Letters(lower)[k]
      letters == {Letters(rows)[k] : rows \in {lower, upper}, k \in DOMAIN Letters(lower)}
  IN  [c \in letters |-> LET k == CHOOSE k \in DOMAIN Letters(lower) : c \in {Letters(lower)[k], Letters(upper)[k]}
                         IN  case(k, c)]

\* kbdgetc for a byte `data`, with the flags `shift` left by the bytes before.
Escape(shift) == [shift |-> shift \cup {E0ESC}, c |-> NO]

\* Mutant of Released: the code of a key with an escape byte is not told apart.
Released_plain(shift, data) ==
  [shift |-> shift \ (Flags(shiftcode, data) \cup {E0ESC}), c |-> NO]

Released(shift, data) ==
  LET key == IF E0ESC \in shift THEN data ELSE data - 128
  IN  [shift |-> shift \ (Flags(shiftcode, key) \cup {E0ESC}), c |-> NO]

Pressed(shift, data) ==
  LET key == IF E0ESC \in shift THEN data + 128 ELSE data
      held == (shift \ {E0ESC}) \cup Flags(shiftcode, key)
      toggled == Flags(togglecode, key)
      now == (held \ toggled) \cup (toggled \ held)
      c == Lookup(charcode(now), key)
  IN  [shift |-> now,
       c |-> IF CAPSLOCK \in now /\ c \in DOMAIN SwapCase THEN SwapCase[c] ELSE c]

kbdgetc(shift, data) ==
  CASE data = 224 -> Escape(shift)
    [] data >= 128 /\ data # 224 -> Released(shift, data)
    [] data < 128 -> Pressed(shift, data)

\* The flags after a sequence of bytes.
RECURSIVE Consume(_, _)
Consume(shift, bytes) ==
  IF bytes = <<>> THEN shift ELSE Consume(kbdgetc(shift, Head(bytes)).shift, Tail(bytes))

(* ----------------------------- properties ------------------------------ *)

\* The controller (external): a key with a code above 127 sends the escape byte
\* first, and a release sets the high bit.  An event is <<key, press>>.
Bytes(event) ==
  (IF event[1] >= 128 THEN <<224>> ELSE <<>>) \o
    <<IF event[2] THEN event[1] % 128 ELSE 128 + (event[1] % 128)>>

RECURSIVE Wire(_)
Wire(events) == IF events = <<>> THEN <<>> ELSE Bytes(Head(events)) \o Wire(Tail(events))

\* The last event of the keys was a press.
Held(events, keys) ==
  \E i \in DOMAIN events :
    /\ events[i] \in keys \X {TRUE}
    /\ \A j \in DOMAIN events : j > i => events[j][1] \notin keys

Locked(events, k) == Cardinality({i \in DOMAIN events : events[i] = <<k, TRUE>>}) % 2 = 1

\* After any sequence of keys going down, repeating and going up, the next key
\* is decoded by the modifiers whose last event was a press, caps lock inverts
\* the case of letters only, and no escape byte or flag is left over: two keys
\* may share a flag, and the codes of two keys differ in the escape byte only.
DecodesKeys(events) ==
  LET shift == Consume({}, Wire(events))
      capital == Held(events, {42, 54}) # Locked(events, 58)
  IN  /\ shift \cap {SHIFT, CTL, ALT, E0ESC} =
           UNION {f \in {{SHIFT}, {CTL}, {ALT}} : Held(events, {k \in DOMAIN shiftcode : shiftcode[k] = f})}
      /\ \A k \in DOMAIN Letters(lower) :
           kbdgetc(shift, k).c = IF CTL \in shift THEN C(Letters(upper)[k])
                                 ELSE Letters(IF capital THEN upper ELSE lower)[k]
      /\ kbdgetc(shift, 8).c = IF CTL \in shift THEN NO ELSE IF Held(events, {42, 54}) THEN "&" ELSE "7"
      /\ kbdgetc(Consume(shift, <<224>>), 72).c = "KEY_UP"
=============================================================================
