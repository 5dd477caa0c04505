----------------------------- MODULE PrivateMem -----------------------------
(***************************************************************************)
(* What address spaces promise: every process has a memory of its own.     *)
(* fork gives the child a copy of it, a write changes one page of one      *)
(* process, and new pages are zero.                                        *)
(***************************************************************************)
CONSTANTS Proc, Page, Value, Zero, Hole   \* Hole: no page at this address

VARIABLES mem, writable

vars == <<mem, writable>>

Empty == [v \in Page |-> Hole]
Init == mem \in [Proc -> [Page -> {Zero, Hole}]] /\ writable \in [Proc -> SUBSET Page]

Write(p, v, d) ==
  /\ mem[p][v] # Hole /\ v \in writable[p]
  /\ mem' = [mem EXCEPT ![p][v] = d]
  /\ UNCHANGED writable

Fork(p, q) ==
  /\ mem[q] = Empty
  /\ mem' = [mem EXCEPT ![q] = mem[p]]
  /\ writable' = [writable EXCEPT ![q] = writable[p]]

\* What a step of p alone leaves as it is.
OthersKeep(p) ==
  /\ mem' = [mem EXCEPT ![p] = mem'[p]]
  /\ writable' = [writable EXCEPT ![p] = writable'[p]]

\* sbrk or the stack: zero pages, all writable, appear where there were none.
Grow(p) ==
  LET S == {v \in Page : mem'[p][v] # mem[p][v]} IN
  /\ OthersKeep(p)
  /\ \A v \in S : mem[p][v] = Hole /\ mem'[p][v] = Zero
  /\ writable'[p] = writable[p] \cup S

\* exec replaces the memory of a process, wait takes it away.
Exec(p) ==
  /\ OthersKeep(p)
  /\ mem'[p] \in [Page -> {Zero, Hole}]
  /\ writable'[p] \subseteq Page

Next ==
  \E p \in Proc :
    \/ Grow(p)
    \/ \E v \in Page, d \in Value : Write(p, v, d)
    \/ \E q \in Proc : Fork(p, q)
    \/ Exec(p)

Spec == Init /\ [][Next]_vars
=============================================================================
