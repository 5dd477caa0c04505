-------------------------- MODULE SleepLockProofs --------------------------
(***************************************************************************)
(* For any processes and locks, SleepLock keeps its invariants and         *)
(* implements Mutex.                                                       *)
(***************************************************************************)
EXTENDS SleepLock, TLAPS

\* A lock that is not taken names no holder: releasesleep clears both fields.
FreeHasNoHolder == \A l \in Lock : ~locked[l] => pid[l] = NoProc

\* The inductive invariant.
IInv == TypeOK /\ HolderRecorded /\ SleeperWaitsForHolder /\ FreeHasNoHolder

\* NoProc, the pid of a free lock, is the pid of no process.
LEMMA NoProcIsNoProcess == NoProc \notin Proc
BY ProcAssumption DEF NoProc

\* initsleeplock leaves every lock free and nobody asleep.
LEMMA InitEstablishes == Init => IInv
<1> SUFFICES ASSUME Init PROVE IInv
  OBVIOUS
<1>1. TypeOK
  BY MaxCallsAssumption DEF Init, TypeOK
<1>2. HolderRecorded /\ SleeperWaitsForHolder /\ FreeHasNoHolder
  BY DEF Init, HolderRecorded, SleeperWaitsForHolder, FreeHasNoHolder
<1> QED
  BY <1>1, <1>2 DEF IInv

\* What releasesleep's wakeup does to the state of each process.
LEMMA WakeupEffect ==
  ASSUME TypeOK, NEW l \in Lock
  PROVE  /\ wakeup1(state, chan, l) \in [Proc -> {"RUNNABLE", "SLEEPING"}]
         /\ \A p \in Proc :
              wakeup1(state, chan, l)[p] = "SLEEPING" => state[p] = "SLEEPING" /\ chan[p] # l
BY DEF TypeOK, wakeup1

\* Every turn of acquiresleep's loop, releasesleep and kill keep the invariant.
LEMMA NextPreserves == IInv /\ [Next]_vars => IInv'
<1> SUFFICES ASSUME IInv, [Next]_vars PROVE IInv'
  OBVIOUS
<1> USE NoProcIsNoProcess DEF NoProc, NoLock, NoChan
<1>1. ASSUME NEW p \in Proc, NEW l \in Lock, call_acquiresleep(p, l) PROVE IInv'
  <2> USE <1>1 DEF IInv, call_acquiresleep
  <2>1. TypeOK'
    BY MaxCallsAssumption DEF TypeOK
  <2>2. HolderRecorded' /\ FreeHasNoHolder'
    BY DEF HolderRecorded, FreeHasNoHolder
  <2>3. SleeperWaitsForHolder'
    BY DEF TypeOK, Running, SleeperWaitsForHolder
  <2> QED
    BY <2>1, <2>2, <2>3
<1>2. ASSUME NEW p \in Proc, NEW l \in Lock, acquiresleep_take(p, l) PROVE IInv'
  <2> USE <1>2 DEF IInv, acquiresleep_take
  <2>1. TypeOK'
    BY DEF TypeOK
  <2>2. HolderRecorded'
    BY DEF TypeOK, HolderRecorded
  <2>3. SleeperWaitsForHolder'
    BY DEF TypeOK, Running, SleeperWaitsForHolder
  <2>4. FreeHasNoHolder'
    BY DEF TypeOK, FreeHasNoHolder
  <2> QED
    BY <2>1, <2>2, <2>3, <2>4
<1>3. ASSUME NEW p \in Proc, NEW l \in Lock, acquiresleep_sleep(p, l) PROVE IInv'
  <2> USE <1>3 DEF IInv, acquiresleep_sleep, FallAsleep, SleepOn
  <2>1. TypeOK'
    BY DEF TypeOK
  <2>2. HolderRecorded' /\ FreeHasNoHolder'
    BY DEF HolderRecorded, FreeHasNoHolder
  <2>3. SleeperWaitsForHolder'
    BY DEF TypeOK, SleeperWaitsForHolder
  <2> QED
    BY <2>1, <2>2, <2>3
<1>4. ASSUME NEW p \in Proc, NEW l \in Lock, releasesleep(p, l) PROVE IInv'
  <2> USE <1>4 DEF IInv, releasesleep
  <2>1. TypeOK'
    BY WakeupEffect DEF TypeOK
  <2>2. HolderRecorded'
    BY DEF TypeOK, HolderRecorded
  <2>3. SleeperWaitsForHolder'
    BY WakeupEffect DEF TypeOK, SleeperWaitsForHolder
  <2>4. FreeHasNoHolder'
    BY DEF TypeOK, FreeHasNoHolder
  <2> QED
    BY <2>1, <2>2, <2>3, <2>4
<1>5. ASSUME NEW p \in Proc, kill(p) PROVE IInv'
  <2> USE <1>5 DEF IInv, kill
  <2>1. TypeOK'
    BY DEF TypeOK
  <2>2. HolderRecorded' /\ FreeHasNoHolder'
    BY DEF HolderRecorded, FreeHasNoHolder
  <2>3. SleeperWaitsForHolder'
    BY DEF TypeOK, SleeperWaitsForHolder
  <2> QED
    BY <2>1, <2>2, <2>3
<1>6. CASE UNCHANGED vars
  BY <1>6 DEF vars, IInv, TypeOK, HolderRecorded, SleeperWaitsForHolder, FreeHasNoHolder
<1> QED
  BY <1>1, <1>2, <1>3, <1>4, <1>5, <1>6 DEF Next, Kernel, Finished

\* The inductive invariant holds throughout.
THEOREM Invariant == Spec => []IInv
BY InitEstablishes, NextPreserves, PTL DEF Spec

\* acquiresleep and releasesleep keep their types.
THEOREM TypeCorrect == Spec => []TypeOK
<1>1. IInv => TypeOK
  BY DEF IInv
<1> QED
  BY <1>1, Invariant, PTL

\* A lock has one holder, the process that believes so: neither panic of
\* releasesleep is reachable, whatever the number of processes and locks.
THEOREM Exclusive == Spec => []HolderRecorded
<1>1. IInv => HolderRecorded
  BY DEF IInv
<1> QED
  BY <1>1, Invariant, PTL

\* No wakeup of a sleep lock is lost: who sleeps waits for a lock still held.
THEOREM NoLostWakeup == Spec => []SleeperWaitsForHolder
<1>1. IInv => SleeperWaitsForHolder
  BY DEF IInv
<1> QED
  BY <1>1, Invariant, PTL

\* The sleep lock implements the abstract mutex, its pid field being the holder.
THEOREM ImplementsMutex == Spec => MutexSpec
<1>1. Init => M!Init
  BY DEF Init, M!Init
<1>2. IInv /\ [Next]_vars => [M!Next]_pid
  <2> SUFFICES ASSUME IInv, [Next]_vars PROVE [M!Next]_pid
    OBVIOUS
  <2>1. ASSUME NEW p \in Proc, NEW l \in Lock, acquiresleep_take(p, l) PROVE M!Next
    BY <2>1 DEF IInv, FreeHasNoHolder, acquiresleep_take, M!Next, M!Take
  <2>2. ASSUME NEW p \in Proc, NEW l \in Lock, releasesleep(p, l) PROVE M!Next
    BY <2>2 DEF IInv, HolderRecorded, releasesleep, M!Next, M!Give
  <2>3. ASSUME NEW p \in Proc, NEW l \in Lock,
               call_acquiresleep(p, l) \/ acquiresleep_sleep(p, l)
        PROVE  UNCHANGED pid
    BY <2>3 DEF call_acquiresleep, acquiresleep_sleep
  <2>4. ASSUME NEW p \in Proc, kill(p) PROVE UNCHANGED pid
    BY <2>4 DEF kill
  <2> QED
    BY <2>1, <2>2, <2>3, <2>4 DEF Next, Kernel, Finished, vars
<1> QED
  BY <1>1, <1>2, Invariant, PTL DEF Spec, MutexSpec, M!Spec
=============================================================================
