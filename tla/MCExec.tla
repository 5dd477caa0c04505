------------------------------- MODULE MCExec -------------------------------
(***************************************************************************)
(* A program collects arguments and calls exec with them, as the shell     *)
(* does for a line: UserImage for TLC, with pages of 16 bytes.             *)
(***************************************************************************)
EXTENDS Integers, Sequences

Image == INSTANCE UserImage WITH PGSIZE <- 16, KERNBASE <- 200, StackTop <- 96, PTR <- 2

Program ==
  [magic |-> TRUE, entry |-> 16, file |-> [i \in 1 .. 24 |-> 100 + i],
   phs |-> <<[load |-> TRUE, vaddr |-> 16, filesz |-> 5, memsz |-> 11, off |-> 3, write |-> FALSE]>>]
Strings == {<<1>>, <<2, 3, 4>>, <<5, 6, 7, 8, 9>>}
MaxArgs == 3

VARIABLES argv,    \* the arguments so far
          result   \* what exec came to: "none" before the call

vars == <<argv, result>>

Init == argv = <<>> /\ result = "none"

push(s) ==
  /\ result = "none" /\ Len(argv) < MaxArgs
  /\ argv' = Append(argv, s)
  /\ UNCHANGED result

call_exec ==
  LET x == Image!exec(Program, argv) IN
  /\ result = "none"
  /\ result' = IF Image!Ok(x) THEN "runs" ELSE x.result
  /\ UNCHANGED argv

Next == (\E s \in Strings : push(s)) \/ call_exec

Spec == Init /\ [][Next]_vars

\* exec "does not return on success; returns -1 on error" (lab/lab2.md): with
\* any arguments the new program runs, or exec fails as they do not fit on the
\* page of its stack.  vspacewritetova, which copies them there, always ends.
ExecReturns == result \in {"none", "runs", "-1"}
=============================================================================
