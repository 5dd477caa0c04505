----------------------------- MODULE ProcProofs -----------------------------
(***************************************************************************)
(* For a process table of any size and any number of pids, the invariants  *)
(* of Proc hold and only a parent reaps.                                   *)
(***************************************************************************)
EXTENDS Proc, TLAPS

(* ---------------------- the inductive invariant ----------------------- *)

InFork(p) == pc[p] \in {"fork", "forkfds"}

\* The scheduler's scan stands at the process it switched to.
CursorAtProc == proc \in Slot => cursor = proc

\* nextpid was never handed out, and a slot in use has a real pid.
PidsUsed ==
  /\ nextpid > 0
  /\ \A s \in Slot : pid[s] < nextpid /\ (state[s] # "UNUSED" => pid[s] > 0)

\* initproc's slot is never free again: it is nobody's child, so nobody reaps it.
InitKept == Live(initproc) \/ state[initproc] = "ZOMBIE"
InitNoParent == parent[initproc] = 0

\* A slot that is free, being filled or a ZOMBIE is in the middle of nothing.
NotLivePlace == \A s \in Slot : ~Live(s) => pc[s] \in {"user", "exit"}

\* fork's local p is set only inside fork.
ChildOnlyInFork == \A s \in Slot : ~InFork(s) => child[s] = 0

\* Once recorded, the parent of a child being filled is not taken away.
ChildKnowsParent == \A p \in Slot : pc[p] = "forkfds" => parent[child[p]] = pid[p]

\* A slot that is no process yet names no parent, unless fork just set it.
NoStaleParent ==
  \A s \in Slot :
    state[s] \in {"UNUSED", "EMBRYO"} =>
      \/ parent[s] <= 0
      \/ \E p \in Slot : pc[p] = "forkfds" /\ child[p] = s

\* A process asleep in wait sleeps on its own pid.
WaitsOnOwnPid ==
  \A p \in Slot : state[p] = "SLEEPING" /\ pc[p] = "wait" => chan[p] = pid[p]

IInv ==
  /\ TypeOK /\ OneRunning /\ PidNamesOneSlot
  /\ ParentAlive /\ WaiterHasLiveChild /\ ForkOwnsEmbryo
  /\ CursorAtProc /\ PidsUsed /\ InitKept /\ InitNoParent /\ NotLivePlace
  /\ ChildOnlyInFork /\ ChildKnowsParent /\ NoStaleParent /\ WaitsOnOwnPid

\* initproc's slot is one of the table, and no slot is 0, the CPU's "no process".
LEMMA SlotFacts == initproc \in Slot /\ 0 \notin Slot /\ Slot \subseteq Nat
BY NPROCAssumption DEF initproc, Slot

\* userinit leaves one RUNNABLE process and an empty table.
LEMMA InitEstablishes == Init => IInv
<1> SUFFICES ASSUME Init PROVE IInv
  OBVIOUS
<1> USE SlotFacts DEF Init
<1>1. TypeOK
  BY NPROCAssumption DEF TypeOK, ProcState, PC, NoChan, Slot
<1>2. OneRunning /\ CursorAtProc /\ InitKept /\ InitNoParent /\ NotLivePlace
  BY DEF OneRunning, CursorAtProc, InitKept, InitNoParent, NotLivePlace, Live
<1>3. PidNamesOneSlot /\ PidsUsed
  BY DEF PidNamesOneSlot, PidsUsed
<1>4. ParentAlive /\ WaiterHasLiveChild
  BY DEF ParentAlive, WaiterHasLiveChild, Live
<1>5. ForkOwnsEmbryo /\ ChildOnlyInFork /\ ChildKnowsParent /\ NoStaleParent /\ WaitsOnOwnPid
  BY DEF ForkOwnsEmbryo, ChildOnlyInFork, ChildKnowsParent, NoStaleParent, WaitsOnOwnPid, InFork
<1> QED
  BY <1>1, <1>2, <1>3, <1>4, <1>5 DEF IInv

\* scheduler: the process it picks was RUNNABLE, and nobody else was RUNNING.
LEMMA SchedulerKeeps ==
  ASSUME IInv, NEW p \in Slot, scheduler(p)
  PROVE  IInv'
<1> USE SlotFacts DEF IInv, scheduler, NoChan
<1>a. cursor' \in 1 .. NPROC + 1
  BY NPROCAssumption DEF TypeOK, Slot
<1>1. TypeOK'
  BY <1>a DEF TypeOK, ProcState, PC
<1>2. OneRunning' /\ CursorAtProc' /\ InitKept' /\ InitNoParent' /\ NotLivePlace'
  BY DEF TypeOK, OneRunning, CursorAtProc, InitKept, InitNoParent, Live, NotLivePlace
<1>3. PidNamesOneSlot' /\ PidsUsed'
  BY DEF TypeOK, PidNamesOneSlot, PidsUsed
<1>4. ParentAlive'
  BY DEF TypeOK, ParentAlive, Live
<1>5. WaiterHasLiveChild'
  BY DEF TypeOK, WaiterHasLiveChild, Live, ChildrenOf
<1>6. ForkOwnsEmbryo'
  BY DEF TypeOK, ForkOwnsEmbryo
<1>7. ChildOnlyInFork' /\ ChildKnowsParent'
  BY DEF TypeOK, ChildOnlyInFork, InFork, ChildKnowsParent
<1>8. NoStaleParent' /\ WaitsOnOwnPid'
  BY DEF TypeOK, NoStaleParent, WaitsOnOwnPid
<1> QED
  BY <1>1, <1>2, <1>3, <1>4, <1>5, <1>6, <1>7, <1>8

\* A pass of the scheduler ends or begins: only its position changes.
LEMMA PassKeeps ==
  ASSUME IInv, scheduler_end \/ scheduler_begin
  PROVE  IInv'
<1> USE SlotFacts DEF IInv, scheduler_end, scheduler_begin
<1>a. cursor' \in 1 .. NPROC + 1
  BY NPROCAssumption DEF scheduler_end, scheduler_begin
<1>1. TypeOK'
  BY <1>a DEF TypeOK
<1>2. OneRunning' /\ CursorAtProc' /\ InitKept' /\ InitNoParent' /\ NotLivePlace'
  BY DEF TypeOK, OneRunning, CursorAtProc, InitKept, InitNoParent, Live, NotLivePlace
<1>3. PidNamesOneSlot' /\ PidsUsed'
  BY DEF TypeOK, PidNamesOneSlot, PidsUsed
<1>4. ParentAlive'
  BY DEF TypeOK, ParentAlive, Live
<1>5. WaiterHasLiveChild'
  BY DEF TypeOK, WaiterHasLiveChild, Live, ChildrenOf
<1>6. ForkOwnsEmbryo'
  BY DEF TypeOK, ForkOwnsEmbryo
<1>7. ChildOnlyInFork' /\ ChildKnowsParent'
  BY DEF TypeOK, ChildOnlyInFork, InFork, ChildKnowsParent
<1>8. NoStaleParent' /\ WaitsOnOwnPid'
  BY DEF TypeOK, NoStaleParent, WaitsOnOwnPid
<1> QED
  BY <1>1, <1>2, <1>3, <1>4, <1>5, <1>6, <1>7, <1>8

\* yield: the running process is RUNNABLE and still alive.
LEMMA YieldKeeps ==
  ASSUME IInv, NEW p \in Slot, yield(p)
  PROVE  IInv'
<1> USE SlotFacts DEF IInv, yield, At, sched
<1>a. cursor' \in 1 .. NPROC + 1
  BY NPROCAssumption DEF TypeOK, CursorAtProc, OneRunning, Slot
<1>1. TypeOK'
  BY <1>a DEF TypeOK, ProcState, PC
<1>2. OneRunning' /\ CursorAtProc' /\ InitKept' /\ InitNoParent' /\ NotLivePlace'
  BY DEF TypeOK, OneRunning, CursorAtProc, InitKept, InitNoParent, Live, NotLivePlace
<1>3. PidNamesOneSlot' /\ PidsUsed'
  BY DEF TypeOK, PidNamesOneSlot, PidsUsed
<1>4. ParentAlive'
  BY DEF TypeOK, ParentAlive, Live
<1>5. WaiterHasLiveChild'
  BY DEF TypeOK, WaiterHasLiveChild, Live, ChildrenOf
<1>6. ForkOwnsEmbryo'
  BY DEF TypeOK, ForkOwnsEmbryo
<1>7. ChildOnlyInFork' /\ ChildKnowsParent'
  BY DEF TypeOK, ChildOnlyInFork, InFork, ChildKnowsParent
<1>8. NoStaleParent' /\ WaitsOnOwnPid'
  BY DEF TypeOK, NoStaleParent, WaitsOnOwnPid
<1> QED
  BY <1>1, <1>2, <1>3, <1>4, <1>5, <1>6, <1>7, <1>8

\* sleep on a kernel channel.
LEMMA SleepKeeps ==
  ASSUME IInv, NEW p \in Slot, NEW ch \in Chan, sleep(p, ch)
  PROVE  IInv'
<1> USE SlotFacts DEF IInv, sleep, At, InUser, sched, FallAsleep, SleepOn
<1>a. cursor' \in 1 .. NPROC + 1
  BY NPROCAssumption DEF TypeOK, CursorAtProc, OneRunning, Slot
<1>1. TypeOK'
  BY <1>a DEF TypeOK, ProcState, PC
<1>2. OneRunning' /\ CursorAtProc' /\ InitKept' /\ InitNoParent' /\ NotLivePlace'
  BY DEF TypeOK, OneRunning, CursorAtProc, InitKept, InitNoParent, Live, NotLivePlace
<1>3. PidNamesOneSlot' /\ PidsUsed'
  BY DEF TypeOK, PidNamesOneSlot, PidsUsed
<1>4. ParentAlive'
  BY DEF TypeOK, ParentAlive, Live
<1>5. WaiterHasLiveChild'
  BY DEF TypeOK, WaiterHasLiveChild, Live, ChildrenOf
<1>6. ForkOwnsEmbryo'
  BY DEF TypeOK, ForkOwnsEmbryo
<1>7. ChildOnlyInFork' /\ ChildKnowsParent'
  BY DEF TypeOK, ChildOnlyInFork, InFork, ChildKnowsParent
<1>8. NoStaleParent' /\ WaitsOnOwnPid'
  BY DEF TypeOK, NoStaleParent, WaitsOnOwnPid
<1> QED
  BY <1>1, <1>2, <1>3, <1>4, <1>5, <1>6, <1>7, <1>8

\* Waking sleepers and changing nothing else keeps the invariant.
LEMMA WakingKeeps ==
  ASSUME IInv, TypeOK',
         UNCHANGED <<pid, parent, chan, context, pc, child, nextpid, proc, cursor>>,
         \A s \in Slot : \/ state'[s] = state[s]
                         \/ state[s] = "SLEEPING" /\ state'[s] = "RUNNABLE"
  PROVE  IInv'
<1> USE SlotFacts DEF IInv
<1>1. OneRunning' /\ CursorAtProc' /\ InitKept' /\ InitNoParent' /\ NotLivePlace'
  BY DEF TypeOK, OneRunning, CursorAtProc, InitKept, InitNoParent, Live, NotLivePlace
<1>2. PidNamesOneSlot' /\ PidsUsed'
  BY DEF TypeOK, PidNamesOneSlot, PidsUsed
<1>3. ParentAlive'
  BY DEF TypeOK, ParentAlive, Live
<1>4. WaiterHasLiveChild'
  BY DEF TypeOK, WaiterHasLiveChild, Live, ChildrenOf
<1>5. ForkOwnsEmbryo'
  <2> SUFFICES ASSUME NEW p \in Slot, InFork(p), state[p] # "UNUSED"
               PROVE  /\ child[p] \in Slot /\ state'[child[p]] = "EMBRYO"
                      /\ \A q \in Slot : q # p => child[q] # child[p]
    BY DEF ForkOwnsEmbryo, InFork
  <2> QED
    BY DEF ForkOwnsEmbryo, InFork
<1>6. ChildOnlyInFork' /\ ChildKnowsParent'
  BY DEF TypeOK, ChildOnlyInFork, InFork, ChildKnowsParent
<1>7. NoStaleParent' /\ WaitsOnOwnPid'
  BY DEF TypeOK, NoStaleParent, WaitsOnOwnPid
<1> QED
  BY <1>1, <1>2, <1>3, <1>4, <1>5, <1>6, <1>7

\* wakeup, by the running process or an interrupt handler.
LEMMA WakeupKeeps ==
  ASSUME IInv, NEW ch \in Chan, wakeup(ch)
  PROVE  IInv'
<1>1. TypeOK'
  BY DEF IInv, TypeOK, ProcState, wakeup, wakeup1
<1>2. \A s \in Slot : \/ state'[s] = state[s]
                      \/ state[s] = "SLEEPING" /\ state'[s] = "RUNNABLE"
  BY DEF IInv, TypeOK, wakeup, wakeup1
<1> QED
  BY <1>1, <1>2, WakingKeeps DEF wakeup

\* allocproc: the new pid is above every pid in the table.
LEMMA AllocprocKeeps ==
  ASSUME IInv, NEW p \in Slot, allocproc(p)
  PROVE  IInv'
<1> USE SlotFacts DEF IInv, allocproc, At, InUser, Goto
<1>a. \A q \in Slot : InFork(q) => state[q] # "UNUSED" /\ child[q] \in Slot /\ state[child[q]] = "EMBRYO"
  BY DEF TypeOK, NotLivePlace, Live, ForkOwnsEmbryo, InFork
<1>1. TypeOK'
  BY DEF TypeOK, ProcState, PC, Slot, CursorAtProc
<1>2. OneRunning' /\ CursorAtProc' /\ InitKept' /\ InitNoParent' /\ NotLivePlace'
  BY DEF TypeOK, OneRunning, CursorAtProc, InitKept, InitNoParent, Live, NotLivePlace
<1>3. PidNamesOneSlot'
  BY DEF TypeOK, PidNamesOneSlot, PidsUsed
<1>4. ParentAlive'
  BY DEF TypeOK, ParentAlive, Live
<1>5. WaiterHasLiveChild'
  BY DEF TypeOK, WaiterHasLiveChild, Live, ChildrenOf
<1>6. ForkOwnsEmbryo'
  BY <1>a DEF TypeOK, ForkOwnsEmbryo, ChildOnlyInFork, InFork
<1>7. PidsUsed'
  BY DEF TypeOK, PidsUsed
<1>8. ChildOnlyInFork'
  BY DEF TypeOK, ChildOnlyInFork, InFork
<1>9. ChildKnowsParent'
  BY <1>a DEF TypeOK, ChildKnowsParent, InFork
<1>10. NoStaleParent' /\ WaitsOnOwnPid'
  BY DEF TypeOK, NoStaleParent, WaitsOnOwnPid
<1> QED
  BY <1>1, <1>2, <1>3, <1>4, <1>5, <1>6, <1>7, <1>8, <1>9, <1>10

\* the two failures of fork.
LEMMA ForkFailKeeps ==
  ASSUME IInv, NEW p \in Slot, fork_nostack(p) \/ fork_nomem(p)
  PROVE  IInv'
<1> USE SlotFacts DEF IInv, fork_nostack, fork_nomem, At, Goto
<1>a. /\ child[p] \in Slot /\ state[child[p]] = "EMBRYO" /\ child[p] # p
      /\ \A q \in Slot : q # p => child[q] # child[p]
  BY DEF TypeOK, ForkOwnsEmbryo
<1>1. TypeOK'
  BY DEF TypeOK, ProcState, PC, Slot, CursorAtProc
<1>2. OneRunning'
  BY <1>a DEF TypeOK, OneRunning
<1>3. PidNamesOneSlot' /\ PidsUsed'
  BY DEF TypeOK, PidNamesOneSlot, PidsUsed
<1>4. ParentAlive'
  BY <1>a DEF TypeOK, ParentAlive, Live
<1>5. WaiterHasLiveChild'
  BY <1>a DEF TypeOK, WaiterHasLiveChild, Live, ChildrenOf
<1>6. ForkOwnsEmbryo'
  <2>1. CASE fork_nostack(p)
    BY <2>1, <1>a DEF TypeOK, ForkOwnsEmbryo
  <2>2. CASE fork_nomem(p)
    BY <2>2, <1>a DEF TypeOK, ForkOwnsEmbryo
  <2> QED
    BY <2>1, <2>2
<1>7. CursorAtProc'
  BY DEF TypeOK, CursorAtProc
<1>8. InitKept' /\ InitNoParent'
  BY <1>a DEF TypeOK, InitKept, InitNoParent, Live
<1>9. NotLivePlace'
  BY <1>a DEF TypeOK, NotLivePlace, Live
<1>10. ChildOnlyInFork' /\ ChildKnowsParent'
  BY DEF TypeOK, ChildOnlyInFork, InFork, ChildKnowsParent
<1>11. NoStaleParent'
  BY <1>a DEF TypeOK, NoStaleParent
<1>12. WaitsOnOwnPid'
  BY DEF TypeOK, WaitsOnOwnPid
<1> QED
  BY <1>1, <1>2, <1>3, <1>4, <1>5, <1>6, <1>7, <1>8, <1>9, <1>10, <1>11, <1>12

\* fork records the parent in a slot that is nobody's child.
LEMMA ForkCopyKeeps ==
  ASSUME IInv, NEW p \in Slot, fork_copy(p)
  PROVE  IInv'
<1> USE SlotFacts DEF IInv, fork_copy, At, Goto
<1>a. /\ child[p] \in Slot /\ state[child[p]] = "EMBRYO" /\ child[p] # p
      /\ \A q \in Slot : q # p => child[q] # child[p]
  BY DEF TypeOK, ForkOwnsEmbryo
<1>b. \A q \in Slot : q # p /\ state[q] # "UNUSED" => pid[q] # pid[p]
  BY DEF TypeOK, PidNamesOneSlot
<1>1. TypeOK'
  BY DEF TypeOK, ProcState, PC, Slot, CursorAtProc
<1>2. OneRunning' /\ CursorAtProc' /\ InitKept' /\ InitNoParent' /\ NotLivePlace'
  <2>1. OneRunning' /\ CursorAtProc' /\ NotLivePlace'
    BY DEF TypeOK, OneRunning, CursorAtProc, Live, NotLivePlace
  <2>2. InitKept' /\ InitNoParent'
    BY <1>a DEF TypeOK, InitKept, InitNoParent, Live
  <2> QED
    BY <2>1, <2>2
<1>3. PidNamesOneSlot' /\ PidsUsed'
  BY DEF TypeOK, PidNamesOneSlot, PidsUsed
<1>4. ParentAlive'
  BY <1>a DEF TypeOK, ParentAlive, Live
<1>5. WaiterHasLiveChild'
  <2> SUFFICES ASSUME NEW q \in Slot \ {initproc}, state[q] = "SLEEPING", pc'[q] = "wait"
               PROVE  (ChildrenOf(q) # {} /\ \A c \in ChildrenOf(q) : Live(c))'
    BY DEF WaiterHasLiveChild
  <2>1. q # p /\ pc[q] = "wait" /\ pid[q] # pid[p]
    BY <1>b DEF TypeOK
  <2>2. child[p] \notin ChildrenOf(q)
    BY <1>a, <2>1 DEF WaiterHasLiveChild, Live
  <2>3. ChildrenOf(q)' = ChildrenOf(q)
    BY <1>a, <2>1, <2>2 DEF TypeOK, ChildrenOf
  <2> QED
    BY <2>1, <2>3 DEF WaiterHasLiveChild, Live
<1>6. ForkOwnsEmbryo'
  BY DEF TypeOK, ForkOwnsEmbryo
<1>7. ChildOnlyInFork'
  BY DEF TypeOK, ChildOnlyInFork, InFork
<1>8. ChildKnowsParent'
  BY <1>a DEF TypeOK, ChildKnowsParent
<1>9. NoStaleParent' /\ WaitsOnOwnPid'
  BY DEF TypeOK, NoStaleParent, WaitsOnOwnPid
<1> QED
  BY <1>1, <1>2, <1>3, <1>4, <1>5, <1>6, <1>7, <1>8, <1>9

\* the end of fork: the child is alive and its parent is the running process.
LEMMA ForkRunKeeps ==
  ASSUME IInv, NEW p \in Slot, fork_run(p)
  PROVE  IInv'
<1> USE SlotFacts DEF IInv, fork_run, At
<1>a. /\ child[p] \in Slot /\ state[child[p]] = "EMBRYO" /\ child[p] # p
      /\ \A q \in Slot : q # p => child[q] # child[p]
  BY DEF TypeOK, ForkOwnsEmbryo
<1>1. TypeOK'
  BY DEF TypeOK, ProcState, PC, Slot, CursorAtProc
<1>2. OneRunning'
  BY <1>a DEF TypeOK, OneRunning
<1>3. PidNamesOneSlot'
  BY <1>a DEF TypeOK, PidNamesOneSlot
<1>4. ParentAlive'
  BY <1>a DEF TypeOK, ParentAlive, Live, ChildKnowsParent
<1>5. WaiterHasLiveChild'
  BY DEF TypeOK, WaiterHasLiveChild, Live, ChildrenOf
<1>6. ForkOwnsEmbryo'
  BY DEF TypeOK, ForkOwnsEmbryo
<1>7. CursorAtProc' /\ InitKept' /\ InitNoParent' /\ NotLivePlace'
  BY DEF TypeOK, CursorAtProc, InitKept, InitNoParent, Live, NotLivePlace
<1>8. PidsUsed'
  BY <1>a DEF TypeOK, PidsUsed
<1>9. ChildOnlyInFork'
  BY <1>a DEF TypeOK, ChildOnlyInFork, InFork, NotLivePlace, Live
<1>10. ChildKnowsParent'
  BY DEF TypeOK, ChildKnowsParent
<1>11. NoStaleParent'
  BY <1>a DEF TypeOK, NoStaleParent, NotLivePlace, Live
<1>12. WaitsOnOwnPid'
  BY DEF TypeOK, WaitsOnOwnPid
<1> QED
  BY <1>1, <1>2, <1>3, <1>4, <1>5, <1>6, <1>7, <1>8, <1>9, <1>10, <1>11, <1>12

\* exit: the children go to initproc, and a parent asleep in wait is woken.
LEMMA ExitKeeps ==
  ASSUME IInv, NEW p \in Slot, exit(p)
  PROVE  IInv'
<1> USE SlotFacts DEF IInv, exit, At, sched, wakeup1
<1>a. cursor' \in 1 .. NPROC + 1
  BY NPROCAssumption DEF TypeOK, CursorAtProc, OneRunning, Slot
<1>b. \A q \in Slot : q # p /\ state[q] # "UNUSED" => pid[q] # pid[p]
  BY DEF TypeOK, PidNamesOneSlot
<1>c. parent[p] # pid[p]
  <2>1. CASE p = initproc
    BY <2>1 DEF TypeOK, InitNoParent, PidsUsed
  <2>2. CASE p # initproc
    BY <2>2 DEF TypeOK, ParentAlive, PidNamesOneSlot, Live
  <2> QED
    BY <2>1, <2>2
<1>d. \A q \in Slot : pc[q] = "forkfds" =>
        state[q] # "UNUSED" /\ child[q] \in Slot /\ state[child[q]] = "EMBRYO"
  BY DEF TypeOK, NotLivePlace, Live, ForkOwnsEmbryo
<1>e. \A s \in Slot : state'[s] = IF s = p THEN "ZOMBIE"
                                  ELSE IF state[s] = "SLEEPING" /\ chan[s] = parent'[p]
                                       THEN "RUNNABLE" ELSE state[s]
  BY DEF TypeOK
<1>1. TypeOK'
  BY <1>a DEF TypeOK, ProcState, PC
<1>2. OneRunning' /\ CursorAtProc' /\ InitKept' /\ InitNoParent' /\ NotLivePlace'
  <2>1. OneRunning' /\ CursorAtProc' /\ NotLivePlace'
    BY DEF TypeOK, OneRunning, CursorAtProc, Live, NotLivePlace
  <2>2. InitKept' /\ InitNoParent'
    BY <1>e DEF TypeOK, InitKept, InitNoParent, Live, PidsUsed
  <2> QED
    BY <2>1, <2>2
<1>3. PidNamesOneSlot' /\ PidsUsed'
  BY DEF TypeOK, PidNamesOneSlot, PidsUsed
<1>4. ParentAlive'
  <2> SUFFICES ASSUME NEW s \in Slot \ {initproc}, (Live(s) \/ state[s] = "ZOMBIE")'
               PROVE  \E q \in Slot :
                        /\ q # s /\ pid[q] = parent'[s]
                        /\ Live(q)' \/ (q = initproc /\ state'[q] = "ZOMBIE")
    BY DEF ParentAlive, Live
  <2>1. CASE parent[s] = pid[p]
    <3>1. parent'[s] = pid[initproc]
      BY <2>1 DEF TypeOK
    <3>2. Live(initproc)' \/ state'[initproc] = "ZOMBIE"
      BY <1>e DEF InitKept, Live
    <3> QED
      BY <3>1, <3>2
  <2>2. CASE parent[s] # pid[p]
    <3>1. PICK q \in Slot : /\ q # s /\ pid[q] = parent[s]
                            /\ Live(q) \/ (q = initproc /\ state[q] = "ZOMBIE")
      BY <1>e DEF TypeOK, ParentAlive, Live
    <3> QED
      <4>1. q # p /\ parent'[s] = parent[s]
        BY <2>2, <3>1 DEF TypeOK
      <4>2. Live(q)' \/ (q = initproc /\ state'[q] = "ZOMBIE")
        BY <3>1, <4>1, <1>e DEF Live
      <4> QED
        BY <3>1, <4>1, <4>2
  <2> QED
    BY <2>1, <2>2
<1>5. WaiterHasLiveChild'
  <2> SUFFICES ASSUME NEW q \in Slot \ {initproc}, state'[q] = "SLEEPING", pc[q] = "wait"
               PROVE  (ChildrenOf(q) # {} /\ \A c \in ChildrenOf(q) : Live(c))'
    BY DEF WaiterHasLiveChild
  <2>1. q # p /\ state[q] = "SLEEPING" /\ chan[q] # parent'[p]
    BY <1>e DEF TypeOK
  <2>2. pid[q] # pid[p] /\ pid[q] # pid[initproc]
    BY <2>1, <1>b DEF TypeOK, PidNamesOneSlot
  <2>3. parent[p] # pid[q]
    BY <2>1, <1>c DEF TypeOK, WaitsOnOwnPid
  <2>4. ChildrenOf(q)' = ChildrenOf(q)
    BY <2>2 DEF TypeOK, ChildrenOf
  <2>5. ChildrenOf(q) # {} /\ \A c \in ChildrenOf(q) : c \in Slot /\ Live(c) /\ c # p
    BY <2>1, <2>3 DEF WaiterHasLiveChild, ChildrenOf
  <2> QED
    BY <2>4, <2>5, <1>e DEF Live
<1>6. ForkOwnsEmbryo'
  BY DEF TypeOK, ForkOwnsEmbryo
<1>7. ChildOnlyInFork'
  BY DEF TypeOK, ChildOnlyInFork, InFork
<1>8. ChildKnowsParent'
  BY <1>b, <1>d DEF TypeOK, ChildKnowsParent
<1>9. NoStaleParent'
  BY <1>b, <1>d, <1>e DEF TypeOK, NoStaleParent, PidsUsed, ChildKnowsParent
<1>10. WaitsOnOwnPid'
  BY DEF TypeOK, WaitsOnOwnPid
<1> QED
  BY <1>1, <1>2, <1>3, <1>4, <1>5, <1>6, <1>7, <1>8, <1>9, <1>10

\* a system call returns, or exit begins: only pc changes.
LEMMA PlaceKeeps ==
  ASSUME IInv, NEW p \in Slot, syscall_return(p) \/ exit_close(p)
  PROVE  IInv'
<1> USE SlotFacts DEF IInv, syscall_return, exit_close, At, Goto
<1>1. TypeOK'
  BY DEF TypeOK, ProcState, PC, Slot, CursorAtProc
<1>2. OneRunning' /\ CursorAtProc' /\ InitKept' /\ InitNoParent' /\ NotLivePlace'
  BY DEF TypeOK, OneRunning, CursorAtProc, InitKept, InitNoParent, Live, NotLivePlace
<1>3. PidNamesOneSlot' /\ PidsUsed'
  BY DEF TypeOK, PidNamesOneSlot, PidsUsed
<1>4. ParentAlive'
  BY DEF TypeOK, ParentAlive, Live
<1>5. WaiterHasLiveChild'
  BY DEF TypeOK, WaiterHasLiveChild, Live, ChildrenOf
<1>6. ForkOwnsEmbryo'
  BY DEF TypeOK, ForkOwnsEmbryo
<1>7. ChildOnlyInFork' /\ ChildKnowsParent'
  BY DEF TypeOK, ChildOnlyInFork, InFork, ChildKnowsParent
<1>8. NoStaleParent' /\ WaitsOnOwnPid'
  BY DEF TypeOK, NoStaleParent, WaitsOnOwnPid
<1> QED
  BY <1>1, <1>2, <1>3, <1>4, <1>5, <1>6, <1>7, <1>8

\* wait frees a ZOMBIE, which is nobody's parent.
LEMMA WaitReapKeeps ==
  ASSUME IInv, NEW p \in Slot, InUser(p) \/ At(p, {"wait"}), wait_reap(p)
  PROVE  IInv'
<1> USE SlotFacts DEF IInv, wait_reap, InUser, At, Goto, Zombies, ChildrenOf
<1>a. \A q \in Slot : pc[q] = "forkfds" =>
        state[q] # "UNUSED" /\ child[q] \in Slot /\ state[child[q]] = "EMBRYO"
  BY DEF TypeOK, NotLivePlace, Live, ForkOwnsEmbryo
<1>b. \A c \in Zombies(p) : c # initproc
  BY DEF TypeOK, PidsUsed, InitNoParent
<1>1. TypeOK'
  BY DEF TypeOK, ProcState, PC, Slot, CursorAtProc
<1>2. OneRunning' /\ CursorAtProc' /\ InitKept' /\ InitNoParent' /\ NotLivePlace'
  <2>1. OneRunning' /\ CursorAtProc' /\ NotLivePlace'
    BY DEF TypeOK, OneRunning, CursorAtProc, Live, NotLivePlace
  <2>2. InitKept' /\ InitNoParent'
    BY <1>b DEF TypeOK, InitKept, InitNoParent, Live
  <2> QED
    BY <2>1, <2>2
<1>3. PidNamesOneSlot' /\ PidsUsed'
  BY DEF TypeOK, PidNamesOneSlot, PidsUsed
<1>4. ParentAlive'
  BY <1>b DEF TypeOK, ParentAlive, Live
<1>5. WaiterHasLiveChild'
  BY DEF TypeOK, WaiterHasLiveChild, Live, ChildrenOf
<1>6. ForkOwnsEmbryo'
  BY DEF TypeOK, ForkOwnsEmbryo
<1>7. ChildOnlyInFork'
  BY DEF TypeOK, ChildOnlyInFork, InFork
<1>8. ChildKnowsParent'
  BY <1>a DEF TypeOK, ChildKnowsParent
<1>9. NoStaleParent' /\ WaitsOnOwnPid'
  BY DEF TypeOK, NoStaleParent, WaitsOnOwnPid
<1> QED
  BY <1>1, <1>2, <1>3, <1>4, <1>5, <1>6, <1>7, <1>8, <1>9

\* wait without children.
LEMMA WaitNoneKeeps ==
  ASSUME IInv, NEW p \in Slot, InUser(p) \/ At(p, {"wait"}), wait_none(p)
  PROVE  IInv'
<1> USE SlotFacts DEF IInv, wait_none, InUser, At, Goto
<1>1. TypeOK'
  BY DEF TypeOK, ProcState, PC, Slot, CursorAtProc
<1>2. OneRunning' /\ CursorAtProc' /\ InitKept' /\ InitNoParent' /\ NotLivePlace'
  BY DEF TypeOK, OneRunning, CursorAtProc, InitKept, InitNoParent, Live, NotLivePlace
<1>3. PidNamesOneSlot' /\ PidsUsed'
  BY DEF TypeOK, PidNamesOneSlot, PidsUsed
<1>4. ParentAlive'
  BY DEF TypeOK, ParentAlive, Live
<1>5. WaiterHasLiveChild'
  BY DEF TypeOK, WaiterHasLiveChild, Live, ChildrenOf
<1>6. ForkOwnsEmbryo'
  BY DEF TypeOK, ForkOwnsEmbryo
<1>7. ChildOnlyInFork' /\ ChildKnowsParent'
  BY DEF TypeOK, ChildOnlyInFork, InFork, ChildKnowsParent
<1>8. NoStaleParent' /\ WaitsOnOwnPid'
  BY DEF TypeOK, NoStaleParent, WaitsOnOwnPid
<1> QED
  BY <1>1, <1>2, <1>3, <1>4, <1>5, <1>6, <1>7, <1>8

\* wait sleeps: no child is a ZOMBIE, and a slot that names p as its parent is a process.
LEMMA WaitSleepKeeps ==
  ASSUME IInv, NEW p \in Slot, InUser(p) \/ At(p, {"wait"}), wait_sleep(p)
  PROVE  IInv'
<1> USE SlotFacts DEF IInv, wait_sleep, InUser, At, Goto, FallAsleep, SleepOn, sched, Zombies
<1>a. cursor' \in 1 .. NPROC + 1
  BY NPROCAssumption DEF TypeOK, CursorAtProc, OneRunning, Slot
<1>b. \A q \in Slot : pc[q] = "forkfds" =>
        state[q] # "UNUSED" /\ child[q] \in Slot /\ state[child[q]] = "EMBRYO"
  BY DEF TypeOK, NotLivePlace, Live, ForkOwnsEmbryo
<1>1. TypeOK'
  BY <1>a DEF TypeOK, ProcState, PC
<1>2. OneRunning' /\ CursorAtProc' /\ InitKept' /\ InitNoParent' /\ NotLivePlace'
  BY DEF TypeOK, OneRunning, CursorAtProc, InitKept, InitNoParent, Live, NotLivePlace
<1>3. PidNamesOneSlot' /\ PidsUsed'
  BY DEF TypeOK, PidNamesOneSlot, PidsUsed
<1>4. ParentAlive'
  BY DEF TypeOK, ParentAlive, Live
<1>5. WaiterHasLiveChild'
  <2>1. ASSUME NEW c \in Slot, parent[c] = pid[p] PROVE Live(c)
    <3>1. pid[p] > 0 /\ state[c] # "ZOMBIE"
      BY <2>1 DEF TypeOK, PidsUsed, ChildrenOf
    <3>2. ~ \E q \in Slot : pc[q] = "forkfds" /\ child[q] = c
      BY <1>b, <2>1 DEF TypeOK, ChildKnowsParent, PidNamesOneSlot
    <3> QED
      BY <2>1, <3>1, <3>2 DEF TypeOK, ProcState, NoStaleParent, Live
  <2> QED
    BY <2>1 DEF TypeOK, WaiterHasLiveChild, Live, ChildrenOf
<1>6. ForkOwnsEmbryo'
  BY DEF TypeOK, ForkOwnsEmbryo
<1>7. ChildOnlyInFork' /\ ChildKnowsParent'
  BY DEF TypeOK, ChildOnlyInFork, InFork, ChildKnowsParent
<1>8. NoStaleParent' /\ WaitsOnOwnPid'
  BY DEF TypeOK, NoStaleParent, WaitsOnOwnPid
<1> QED
  BY <1>1, <1>2, <1>3, <1>4, <1>5, <1>6, <1>7, <1>8

\* kill marks a slot and wakes it if it sleeps.
LEMMA KillKeeps ==
  ASSUME IInv, NEW p \in Slot, NEW k \in 1 .. MaxPid, kill(p, k)
  PROVE  IInv'
<1>1. TypeOK'
  BY DEF IInv, TypeOK, ProcState, kill
<1>2. \A s \in Slot : \/ state'[s] = state[s]
                      \/ state[s] = "SLEEPING" /\ state'[s] = "RUNNABLE"
  BY DEF IInv, TypeOK, kill
<1> QED
  BY <1>1, <1>2, WakingKeeps DEF kill

\* Every step of the process table keeps the invariant.
LEMMA NextPreserves == IInv /\ [Next]_vars => IInv'
<1> SUFFICES ASSUME IInv, [Next]_vars PROVE IInv'
  OBVIOUS
<1>1. ASSUME NEW p \in Slot, Kernel(p) PROVE IInv'
  <2>1. CASE wait(p)
    BY <2>1, WaitReapKeeps, WaitNoneKeeps, WaitSleepKeeps DEF wait
  <2>2. CASE syscall_return(p) \/ exit_close(p)
    BY <2>2, PlaceKeeps
  <2>3. CASE fork_nostack(p) \/ fork_nomem(p)
    BY <2>3, ForkFailKeeps
  <2> QED
    BY <1>1, <2>1, <2>2, <2>3, YieldKeeps, SleepKeeps, AllocprocKeeps, ForkCopyKeeps,
       ForkRunKeeps, ExitKeeps, KillKeeps DEF Kernel
<1>2. CASE Scheduler
  BY <1>2, SchedulerKeeps, PassKeeps DEF Scheduler
<1>3. CASE UNCHANGED vars
  BY <1>3, WakingKeeps DEF vars, IInv, TypeOK
<1> QED
  BY <1>1, <1>2, <1>3, WakeupKeeps DEF Next

\* The inductive invariant holds in every state.
THEOREM Invariant == Spec => []IInv
<1>1. Init => IInv
  BY InitEstablishes
<1>2. IInv /\ [Next]_vars => IInv'
  BY NextPreserves
<1> QED
  BY <1>1, <1>2, PTL DEF Spec

\* The columns of ptable.proc, nextpid, the CPU's process and the scheduler's
\* position keep their types, for a table of any size.
THEOREM TypeCorrect == Spec => []TypeOK
<1>1. IInv => TypeOK
  BY DEF IInv
<1> QED
  BY <1>1, Invariant, PTL

\* mycpu()->proc and the RUNNING slot agree through every switch of sched.
THEOREM CpuAgrees == Spec => []OneRunning
<1>1. IInv => OneRunning
  BY DEF IInv
<1> QED
  BY <1>1, Invariant, PTL

\* A pid in use names one slot: kill and wait, which search by pid, find the
\* process that was meant.
THEOREM PidsUnique == Spec => []PidNamesOneSlot
<1>1. IInv => PidNamesOneSlot
  BY DEF IInv
<1> QED
  BY <1>1, Invariant, PTL

\* Through any order of forks, exits and kills, initproc's own exit included,
\* every process has a parent that can still wait for it, or is initproc's.
THEOREM NoLostParent == Spec => []ParentAlive
<1>1. IInv => ParentAlive
  BY DEF IInv
<1> QED
  BY <1>1, Invariant, PTL

\* No process but initproc sleeps in wait past the exit of its child.
THEOREM NoMissedExit == Spec => []WaiterHasLiveChild
<1>1. IInv => WaiterHasLiveChild
  BY DEF IInv
<1> QED
  BY <1>1, Invariant, PTL

\* The slot fork fills is its own until fork makes it RUNNABLE.
THEOREM EmbryoOwned == Spec => []ForkOwnsEmbryo
<1>1. IInv => ForkOwnsEmbryo
  BY DEF IInv
<1> QED
  BY <1>1, Invariant, PTL

\* Only wait, called by the parent the slot names, takes a slot out of ZOMBIE.
THEOREM Reaping == Spec => OnlyParentReaps
<1> DEFINE Reap(s) == state[s] = "ZOMBIE" /\ state'[s] # "ZOMBIE" =>
                        /\ state'[s] = "UNUSED"
                        /\ proc \in Slot /\ pid[proc] = parent[s]
<1>1. IInv /\ [Next]_vars => [\A s \in Slot : Reap(s)]_vars
  <2> SUFFICES ASSUME IInv, Next, NEW s \in Slot, state[s] = "ZOMBIE", state'[s] # "ZOMBIE"
               PROVE  state'[s] = "UNUSED" /\ proc \in Slot /\ pid[proc] = parent[s]
    OBVIOUS
  <2>1. ASSUME NEW p \in Slot, wait(p) PROVE state'[s] = "UNUSED" /\ proc \in Slot /\ pid[proc] = parent[s]
    BY <2>1 DEF IInv, TypeOK, wait, wait_reap, wait_none, wait_sleep, Zombies, ChildrenOf,
                InUser, At, FallAsleep
  <2>2. ASSUME NEW p \in Slot, Kernel(p), ~wait(p) PROVE FALSE
    <3>1. CASE fork_nostack(p) \/ fork_run(p)
      BY <3>1 DEF IInv, TypeOK, ForkOwnsEmbryo, fork_nostack, fork_run, At
    <3>2. CASE allocproc(p) \/ exit(p)
      BY <3>2 DEF IInv, TypeOK, allocproc, exit, At, wakeup1
    <3>3. CASE yield(p) \/ \E ch \in Chan : sleep(p, ch)
      BY <3>3 DEF IInv, TypeOK, yield, sleep, At, InUser, FallAsleep
    <3>4. CASE \E k \in 1 .. MaxPid : kill(p, k)
      BY <3>4 DEF IInv, TypeOK, kill
    <3> QED
      BY <2>2, <3>1, <3>2, <3>3, <3>4 DEF Kernel, syscall_return, fork_nomem, fork_copy, exit_close
  <2>3. CASE Scheduler
    BY <2>3 DEF IInv, TypeOK, Scheduler, scheduler, scheduler_end, scheduler_begin
  <2>4. ASSUME NEW ch \in Chan, wakeup(ch) PROVE FALSE
    BY <2>4 DEF IInv, TypeOK, wakeup, wakeup1
  <2> QED
    BY <2>1, <2>2, <2>3, <2>4 DEF Next
<1> QED
  BY <1>1, Invariant, PTL DEF Spec, OnlyParentReaps
=============================================================================
