---------------------------- MODULE SleepWakeup ----------------------------
(***************************************************************************)
(* What sleep and wakeup of kernel/proc.c do to the columns `state` and    *)
(* `chan` of the process table.  The table is any function from the        *)
(* processes of the model; the modules of the components that block        *)
(* (process table, sleep locks, files, pipes) share these operators.       *)
(*                                                                         *)
(* xk runs on one CPU (mycpu() is &cpus[0]) and a spinlock keeps           *)
(* interrupts off, so the code between an acquire and the matching         *)
(* release, or the switch away inside sleep, is one step of a model.       *)
(***************************************************************************)

\* wakeup1: every process sleeping on ch becomes runnable, no other changes.
wakeup1(state, chan, ch) ==
  [p \in DOMAIN state |->
     IF state[p] = "SLEEPING" /\ chan[p] = ch THEN "RUNNABLE" ELSE state[p]]

\* The table after p went to sleep: sleep holds ptable.lock from before it
\* gives up the caller's lock until the switch, so both columns change at once.
FallAsleep(state, p) == [state EXCEPT ![p] = "SLEEPING"]
SleepOn(chan, p, ch) == [chan EXCEPT ![p] = ch]
=============================================================================
