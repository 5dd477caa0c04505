----------------------------- MODULE SleepLock -----------------------------
(***************************************************************************)
(* kernel/sleeplock.c: acquiresleep and releasesleep over sleep and        *)
(* wakeup, for the locks of xk (open files, inodes, buffers).  A process   *)
(* may hold several; like the callers in file.c, fs.c and bio.c it takes   *)
(* them in a fixed order, here the order of the numbers in Lock.           *)
(*                                                                         *)
(* The inner spinlock lk->lk keeps interrupts off, so one turn of          *)
(* acquiresleep's loop and the whole of releasesleep are one step each.    *)
(* Between the switch back inside sleep and the next turn of the loop any  *)
(* other process may run, and may have taken the lock.                     *)
(***************************************************************************)
EXTENDS Integers, SleepWakeup

CONSTANTS Proc, Lock, MaxCalls   \* bound: acquiresleep calls per process

ASSUME LockAssumption == Lock \subseteq Nat \ {0}
ASSUME ProcAssumption == Proc \cap Int = {}
ASSUME MaxCallsAssumption == MaxCalls \in Nat

VARIABLES locked, pid,    \* struct sleeplock: held or not, and the holder
          state, chan,    \* of the process table
          want,           \* the lock acquiresleep was called for, 0 if none
          held,           \* the locks a process believes it holds
          calls

vars == <<locked, pid, state, chan, want, held, calls>>

NoProc == 0   \* lk->pid of a free lock
NoLock == 0
NoChan == 0

Init ==
  /\ locked = [l \in Lock |-> FALSE]
  /\ pid = [l \in Lock |-> NoProc]
  /\ state = [p \in Proc |-> "RUNNABLE"]
  /\ chan = [p \in Proc |-> NoChan]
  /\ want = [p \in Proc |-> NoLock]
  /\ held = [p \in Proc |-> {}]
  /\ calls = [p \in Proc |-> 0]

Running(p) == state[p] = "RUNNABLE"

\* p calls acquiresleep on a lock that comes after those it holds.
call_acquiresleep(p, l) ==
  /\ Running(p) /\ want[p] = NoLock
  /\ calls[p] < MaxCalls
  /\ \A h \in held[p] : h < l
  /\ want' = [want EXCEPT ![p] = l]
  /\ calls' = [calls EXCEPT ![p] = @ + 1]
  /\ UNCHANGED <<locked, pid, state, chan, held>>

\* Mutant of acquiresleep_take: a woken process takes the lock without a test.
acquiresleep_barge(p, l) ==
  /\ Running(p) /\ want[p] = l
  /\ ~locked[l] \/ chan[p] = l
  /\ locked' = [locked EXCEPT ![l] = TRUE]
  /\ pid' = [pid EXCEPT ![l] = p]
  /\ held' = [held EXCEPT ![p] = @ \cup {l}]
  /\ want' = [want EXCEPT ![p] = NoLock]
  /\ chan' = [chan EXCEPT ![p] = NoChan]
  /\ UNCHANGED <<state, calls>>

\* The loop finds the lock free and takes it.
acquiresleep_take(p, l) ==
  /\ Running(p) /\ want[p] = l
  /\ ~locked[l]
  /\ locked' = [locked EXCEPT ![l] = TRUE]
  /\ pid' = [pid EXCEPT ![l] = p]
  /\ held' = [held EXCEPT ![p] = @ \cup {l}]
  /\ want' = [want EXCEPT ![p] = NoLock]
  /\ chan' = [chan EXCEPT ![p] = NoChan]
  /\ UNCHANGED <<state, calls>>

\* The loop finds the lock taken and sleeps on it.
acquiresleep_sleep(p, l) ==
  /\ Running(p) /\ want[p] = l
  /\ locked[l]
  /\ state' = FallAsleep(state, p)
  /\ chan' = SleepOn(chan, p, l)
  /\ UNCHANGED <<locked, pid, want, held, calls>>

\* Mutant of releasesleep: no wakeup.
releasesleep_silent(p, l) ==
  /\ Running(p) /\ want[p] = NoLock
  /\ l \in held[p]
  /\ locked' = [locked EXCEPT ![l] = FALSE]
  /\ pid' = [pid EXCEPT ![l] = NoProc]
  /\ held' = [held EXCEPT ![p] = @ \ {l}]
  /\ UNCHANGED <<state, chan, want, calls>>

releasesleep(p, l) ==
  /\ Running(p) /\ want[p] = NoLock
  /\ l \in held[p]
  /\ locked' = [locked EXCEPT ![l] = FALSE]
  /\ pid' = [pid EXCEPT ![l] = NoProc]
  /\ held' = [held EXCEPT ![p] = @ \ {l}]
  /\ state' = wakeup1(state, chan, l)
  /\ UNCHANGED <<chan, want, calls>>

\* kill wakes a sleeper whose lock is still taken.
kill(p) ==
  /\ state[p] = "SLEEPING"
  /\ state' = [state EXCEPT ![p] = "RUNNABLE"]
  /\ UNCHANGED <<locked, pid, chan, want, held, calls>>

Finished ==
  /\ \A p \in Proc : calls[p] = MaxCalls /\ want[p] = NoLock /\ held[p] = {}
  /\ UNCHANGED vars

Kernel(p, l) ==
  \/ call_acquiresleep(p, l) \/ acquiresleep_take(p, l)
  \/ acquiresleep_sleep(p, l) \/ releasesleep(p, l)

Next ==
  \/ \E p \in Proc, l \in Lock : Kernel(p, l)
  \/ \E p \in Proc : kill(p)
  \/ Finished

Spec == Init /\ [][Next]_vars

\* A process in the kernel gets the CPU again (RunnableRuns of Proc), finishes
\* its turn of the loop, and gives back what it holds.
FairSpec ==
  /\ Spec
  /\ \A p \in Proc :
       /\ WF_vars(\E l \in Lock : acquiresleep_take(p, l) \/ acquiresleep_sleep(p, l))
       /\ WF_vars(\E l \in Lock : releasesleep(p, l))

(* ----------------------------- properties ----------------------------- *)

\* The fields of the locks and the states of the processes keep their types.
TypeOK ==
  /\ locked \in [Lock -> BOOLEAN]
  /\ pid \in [Lock -> Proc \cup {NoProc}]
  /\ state \in [Proc -> {"RUNNABLE", "SLEEPING"}]
  /\ chan \in [Proc -> Lock \cup {NoChan}]
  /\ want \in [Proc -> Lock \cup {NoLock}]
  /\ held \in [Proc -> SUBSET Lock]
  /\ calls \in [Proc -> 0 .. MaxCalls]

\* What a process believes it holds is what the lock says: so at most one
\* process holds a lock, and neither panic of releasesleep can happen.
HolderRecorded ==
  \A l \in Lock :
    /\ locked[l] => pid[l] \in Proc /\ l \in held[pid[l]]
    /\ \A p \in Proc : l \in held[p] => locked[l] /\ pid[l] = p

\* No wakeup is lost: a process asleep in acquiresleep waits for a lock that
\* is still taken, whatever kills and late wakeups did, so a release that will
\* wake it is still to come.
SleeperWaitsForHolder ==
  \A p \in Proc :
    state[p] = "SLEEPING" => want[p] \in Lock /\ chan[p] = want[p] /\ locked[want[p]]

\* The sleep lock implements a mutex.
M == INSTANCE Mutex WITH holder <- pid
MutexSpec == M!Spec

\* With finitely many competing calls, every acquiresleep returns.
AcquireReturns == \A p \in Proc : want[p] # NoLock ~> want[p] = NoLock
=============================================================================
