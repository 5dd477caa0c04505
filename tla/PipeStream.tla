---------------------------- MODULE PipeStream ----------------------------
(***************************************************************************)
(* What a pipe promises: a bounded byte stream.  Bytes come out in the     *)
(* order they went in, at most Size of them are in transit, and the bytes  *)
(* of one write are not mixed with those of another.                       *)
(***************************************************************************)
EXTENDS Integers, Sequences

CONSTANTS Writer, NoProc, Size, Byte
VARIABLES sent, received,   \* all bytes ever put into and taken out of it
          turn              \* the writer whose write is going on, or NoProc

vars == <<sent, received, turn>>

Init == sent = <<>> /\ received = <<>> /\ turn = NoProc

Begin(w) == turn = NoProc /\ turn' = w /\ UNCHANGED <<sent, received>>

Put(w) ==
  /\ turn = w
  /\ Len(sent') <= Len(received) + Size
  /\ SubSeq(sent', 1, Len(sent)) = sent
  /\ \A i \in Len(sent) + 1 .. Len(sent') : sent'[i] \in Byte /\ sent'[i].by = w
  /\ UNCHANGED <<received, turn>>

End(w) == turn = w /\ turn' = NoProc /\ UNCHANGED <<sent, received>>

Get ==
  /\ \E k \in 1 .. Len(sent) - Len(received) :
       received' = SubSeq(sent, 1, Len(received) + k)
  /\ UNCHANGED <<sent, turn>>

Next == Get \/ \E w \in Writer : Begin(w) \/ Put(w) \/ End(w)

Spec == Init /\ [][Next]_vars
=============================================================================
