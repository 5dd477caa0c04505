------------------------------- MODULE Mutex -------------------------------
(***************************************************************************)
(* What a sleep lock promises: each lock has at most one holder, only a    *)
(* free lock is taken, and only its holder gives it up.                    *)
(***************************************************************************)
CONSTANTS Proc, Lock, NoProc
VARIABLE holder

Init == holder = [l \in Lock |-> NoProc]

Take(p, l) == holder[l] = NoProc /\ holder' = [holder EXCEPT ![l] = p]
Give(p, l) == holder[l] = p /\ holder' = [holder EXCEPT ![l] = NoProc]

Next == \E p \in Proc, l \in Lock : Take(p, l) \/ Give(p, l)

Spec == Init /\ [][Next]_holder
=============================================================================
