--------------------------- MODULE InterruptsSteps ---------------------------
(***************************************************************************)
(* The steps of a thread keep the invariant of InterruptsCode: one lemma   *)
(* for each instruction of the kernel's code, for the timer's interrupt    *)
(* and for the system calls.                                               *)
(***************************************************************************)
EXTENDS InterruptsCode

\* The running thread is about to execute instruction i of f, and the CPU is
\* as the annotation of that instruction says.
Executing(t, f, i) ==
  /\ proc = t /\ stack[t] # <<>> /\ stack[t][1].code = f /\ stack[t][1].at = i
  /\ Instruction(t) = Program[f][i] /\ Sound(f, i) /\ Place(f, i)
  /\ ncli = Depth(f, i)
  /\ \A l \in Lock : holder[l] = IF i \in Section(f, l) THEN t ELSE NoThread
  /\ Depth(f, i) > 0 => ~intr
  /\ f \in Handler => ~intr /\ (Depth(f, i) > 0 /\ Op(f, i) # "resume" => ~intena)

\* No thread is the mark of a free lock.
LEMMA NotAThread == NoThread \notin Thread
BY NPROCAssumption DEF Thread, Process, Scheduler, NoThread

\* A thread at an instruction has the CPU, with the locks and the pushcli's of
\* the annotation.
LEMMA Executes ==
  ASSUME IInv, NEW t \in Thread, InKernel(t)
  PROVE  \E f \in Function, i \in Nat : Executing(t, f, i) /\ Top(t) = stack[t][1] /\ stack[t][1] \in Frames
<1> DEFINE f == stack[t][1].code
           i == stack[t][1].at
<1>1. proc = t /\ stack[t] # <<>>
  BY DEF InKernel
<1>2. Shape(t, stack[t])
  BY DEF IInv, Threads
<1>3. /\ stack[t][1] \in Frames /\ Top(t) = stack[t][1] /\ f \in Function /\ i \in Nat
      /\ Sound(f, i) /\ Place(f, i)
  BY <1>1, <1>2, TopFrame DEF Frames
<1>4. Instruction(t) = Program[f][i]
  BY <1>3, Zenon DEF Instruction
<1>5. /\ ncli = Depth(f, i)
      /\ \A l \in Lock : holder[l] = IF i \in Section(f, l) THEN t ELSE NoThread
  BY <1>1 DEF IInv, Locks, DepthOf, Has
<1>6. /\ Depth(f, i) > 0 => ~intr
      /\ f \in Handler => ~intr /\ (Depth(f, i) > 0 /\ Op(f, i) # "resume" => ~intena)
  BY <1>1, Zenon DEF IInv, IntrOff, HandlerOff, DepthOf
<1>7. Executing(t, f, i)
  BY <1>1, <1>3, <1>4, <1>5, <1>6 DEF Executing
<1> QED
  BY <1>3, <1>7

\* An instruction that goes on in the same thread keeps the invariant if it
\* makes of the CPU what the annotation of the next instruction says.
LEMMA Steps ==
  ASSUME IInv, NEW t \in Thread, NEW f \in Function, NEW i \in Nat, stack[t][1] \in Frames, Executing(t, f, i),
         proc' = proc /\ cursor' = cursor /\ panicked' = panicked, WakesOnly,
         stack' = [stack EXCEPT ![t] = After(t)], Op(f, i) \notin Settling,
         ncli' = Depth(f, i + 1), Depth(f, i + 1) > 0 => ~intr',
         \A l \in Lock : holder'[l] = IF i + 1 \in Section(f, l) THEN t ELSE NoThread,
         f \in Handler /\ i # 14 => ~intr' /\ (Depth(f, i + 1) > 0 => ~intena'),
         \A p \in Process \ {t} : saved'[p] = saved[p],
         FlagTypes', holder' \in [Lock -> Thread \cup {NoThread}], StateType'
  PROVE  IInv'
<1>1. proc = t /\ stack[t] # <<>> /\ stack[t][1].code = f /\ stack[t][1].at = i
  BY DEF Executing
<1>2. /\ Threads' /\ StackType' /\ \A q \in Thread \ {t} : stack'[q] = stack[q]
      /\ DepthOf(stack'[t]) = Depth(f, i + 1)
      /\ \A l \in Lock : Has(stack'[t], l) <=> i + 1 \in Section(f, l)
      /\ stack'[t] # <<>> => stack'[t][1] \in Frames /\ GoesOn(stack[t][1], stack'[t][1])
  BY <1>1, Moves, Zenon DEF IInv, TypeOK
<1>3. Locks'
  BY <1>1, <1>2, Zenon DEF Locks
<1>4. IntrOff'
  BY <1>1, <1>2 DEF IntrOff
<1>5. HandlerOff'
  <2> SUFFICES ASSUME stack'[t] # <<>>, stack'[t][1].code \in Handler
               PROVE  ~intr' /\ (DepthOf(stack'[t]) > 0 => ~intena')
    BY <1>1 DEF HandlerOff
  <2>1. f \in Handler /\ i # 14
    BY <1>1, <1>2, NextHandler
  <2> QED
    BY <1>2, <2>1
<1>6. YieldSaved'
  <2>1. stack'[t] # <<>> => ~(stack'[t][1].code = "yield" /\ stack'[t][1].at = 5)
    BY <1>1, <1>2, NextHandler
  <2> QED
    BY <1>2, <2>1 DEF IInv, YieldSaved, Thread
<1> QED
  BY <1>1, <1>2, <1>3, <1>4, <1>5, <1>6 DEF IInv, TypeOK, LockType

\* The same where the process table and saved are left alone.
LEMMA CpuSteps ==
  ASSUME IInv, NEW t \in Thread, NEW f \in Function, NEW i \in Nat, stack[t][1] \in Frames, Executing(t, f, i),
         UNCHANGED <<proc, cursor, saved, state, panicked>>,
         stack' = [stack EXCEPT ![t] = After(t)], Op(f, i) \notin Settling,
         ncli' = Depth(f, i + 1), Depth(f, i + 1) > 0 => ~intr',
         \A l \in Lock : holder'[l] = IF i + 1 \in Section(f, l) THEN t ELSE NoThread,
         f \in Handler /\ i # 14 => ~intr' /\ (Depth(f, i + 1) > 0 => ~intena'),
         intr' \in BOOLEAN, intena' \in BOOLEAN, holder' \in [Lock -> Thread \cup {NoThread}]
  PROVE  IInv'
<1>1. WakesOnly
  BY DEF WakesOnly
<1>2. FlagTypes' /\ StateType'
  BY DEF IInv, TypeOK, FlagTypes, StateType
<1> QED
  BY <1>1, <1>2, Steps, Zenon

\* What an instruction that is neither pushcli nor popcli, acquire nor release
\* does to the annotation: nothing.
LEMMA SoundQuiet ==
  ASSUME NEW f, NEW i, Sound(f, i), Op(f, i) \notin {"pushcli", "popcli", "xchg", "unlock", "resume"}
  PROVE  Depth(f, i + 1) = Depth(f, i) /\ \A l \in Lock : i + 1 \in Section(f, l) <=> i \in Section(f, l)
BY DEF Sound

\* acquire and release change the one lock they name.
LEMMA SoundLock ==
  ASSUME NEW f, NEW i, Sound(f, i), Op(f, i) \in {"xchg", "unlock"}
  PROVE  \E lk \in Lock : /\ lk = Program[f][i][2] /\ Depth(f, i + 1) = Depth(f, i)
                          /\ i \in Section(f, lk) <=> Op(f, i) = "unlock"
                          /\ i + 1 \in Section(f, lk) <=> Op(f, i) = "xchg"
                          /\ \A l \in Lock \ {lk} : i + 1 \in Section(f, l) <=> i \in Section(f, l)
BY DEF Sound

\* The instructions that settle nothing and hold nothing more.
LEMMA Others ==
  ASSUME NEW c \in {"tick", "wakeup1", "exit_if_killed", "yield_if_running", "clearchan", "kill", "ticks0", "while",
                    "sti", "iret", "sysret"}
  PROVE  c \notin Settling /\ c \notin {"pushcli", "popcli", "xchg", "unlock", "resume"}
BY DEF Settling

\* pushcli turns interrupts off, and remembers whether they were on.
LEMMA PushcliKeeps ==
  ASSUME IInv, NEW t \in Thread, pushcli(t)
  PROVE  IInv'
<1>1. PICK f \in Function, i \in Nat : Executing(t, f, i) /\ stack[t][1] \in Frames
  BY Executes, Zenon DEF pushcli, At
<1>2. Op(f, i) = "pushcli"
  BY <1>1, Zenon DEF pushcli, At, Executing, Op
<1>3. /\ Depth(f, i + 1) = ncli + 1 /\ ncli \in Nat
      /\ \A l \in Lock : i + 1 \in Section(f, l) <=> i \in Section(f, l)
  BY <1>1, <1>2 DEF Executing, Sound, Depth
<1>4. /\ intena' = IF ncli = 0 THEN intr ELSE intena
      /\ ~intr' /\ intr' \in BOOLEAN /\ ncli' = ncli + 1 /\ stack' = [stack EXCEPT ![t] = After(t)]
      /\ UNCHANGED <<proc, cursor, saved, state, panicked>> /\ UNCHANGED holder
  BY Zenon DEF pushcli, Advance, table
<1>5. intena' \in BOOLEAN /\ holder' \in [Lock -> Thread \cup {NoThread}]
  BY <1>4, Zenon DEF IInv, TypeOK, FlagTypes, LockType
<1>6. f \in Handler => ~intena'
  BY <1>1, <1>2, <1>3, <1>4 DEF Executing
<1>7. \A l \in Lock : holder'[l] = IF i + 1 \in Section(f, l) THEN t ELSE NoThread
  BY <1>1, <1>3, <1>4 DEF Executing
<1>8. Op(f, i) \notin Settling
  BY <1>2 DEF Settling
<1> QED
  BY <1>1, <1>3, <1>4, <1>5, <1>6, <1>7, <1>8, CpuSteps, Zenon

\* popcli finds interrupts off and a pushcli to undo.
LEMMA PopcliKeeps ==
  ASSUME IInv, NEW t \in Thread, popcli(t)
  PROVE  IInv'
<1>1. PICK f \in Function, i \in Nat : Executing(t, f, i) /\ stack[t][1] \in Frames
  BY Executes, Zenon DEF popcli, At
<1>2. Op(f, i) = "popcli"
  BY <1>1, Zenon DEF popcli, At, Executing, Op
<1>3. /\ Depth(f, i + 1) = ncli - 1 /\ ncli \in Nat \ {0} /\ ~intr
      /\ \A l \in Lock : i + 1 \in Section(f, l) <=> i \in Section(f, l)
  BY <1>1, <1>2 DEF Executing, Sound, Depth
<1>4. /\ intr' = (ncli = 1 /\ intena) /\ ncli' = ncli - 1 /\ stack' = [stack EXCEPT ![t] = After(t)]
      /\ UNCHANGED <<proc, cursor, saved, state, panicked>> /\ UNCHANGED <<holder, intena>>
  BY <1>3 DEF popcli, Advance, table
<1>5. intena' \in BOOLEAN /\ intr' \in BOOLEAN /\ holder' \in [Lock -> Thread \cup {NoThread}]
  BY <1>4, Zenon DEF IInv, TypeOK, FlagTypes, LockType
<1>6. /\ f \in Handler => ~intena' /\ ~intr'
      /\ Depth(f, i + 1) > 0 => ~intr'
  <2>1. f \in Handler => ~intena
    BY <1>1, <1>2, <1>3 DEF Executing
  <2>2. Depth(f, i + 1) > 0 => ncli # 1
    BY <1>3
  <2> QED
    BY <1>4, <2>1, <2>2, Zenon
<1>7. \A l \in Lock : holder'[l] = IF i + 1 \in Section(f, l) THEN t ELSE NoThread
  BY <1>1, <1>3, <1>4 DEF Executing
<1>8. Op(f, i) \notin Settling
  BY <1>2 DEF Settling
<1> QED
  BY <1>1, <1>3, <1>4, <1>5, <1>6, <1>7, <1>8, CpuSteps, Zenon

\* acquire finds the lock free, with interrupts off.
LEMMA XchgKeeps ==
  ASSUME IInv, NEW t \in Thread, xchg(t)
  PROVE  IInv'
<1>1. PICK f \in Function, i \in Nat : Executing(t, f, i) /\ stack[t][1] \in Frames
  BY Executes, Zenon DEF xchg, At
<1>2. Op(f, i) = "xchg" /\ Instruction(t)[2] = Program[f][i][2]
  BY <1>1, Zenon DEF xchg, At, Executing, Op
<1>3. PICK lk \in Lock : /\ lk = Program[f][i][2] /\ i \notin Section(f, lk) /\ i + 1 \in Section(f, lk)
                         /\ \A l \in Lock \ {lk} : i + 1 \in Section(f, l) <=> i \in Section(f, l)
                         /\ Depth(f, i + 1) = ncli
  <2>1. Sound(f, i) /\ ncli = Depth(f, i) /\ Op(f, i) \in {"xchg", "unlock"} /\ "xchg" # "unlock"
    BY <1>1, <1>2, Zenon DEF Executing
  <2> QED
    BY <1>2, <2>1, SoundLock, Zenon
<1>4. /\ holder' = [holder EXCEPT ![lk] = t] /\ stack' = [stack EXCEPT ![t] = After(t)]
      /\ UNCHANGED <<proc, cursor, saved, state, panicked>> /\ UNCHANGED <<intr, ncli, intena>>
  <2>1. holder[lk] = NoThread
    BY <1>1, <1>3 DEF Executing
  <2> QED
    BY <1>2, <1>3, <2>1, Zenon DEF xchg, Advance, table, cpu
<1>5. intena' \in BOOLEAN /\ intr' \in BOOLEAN /\ holder' \in [Lock -> Thread \cup {NoThread}]
  BY <1>4, Zenon DEF IInv, TypeOK, FlagTypes, LockType
<1>6. /\ f \in Handler => ~intr' /\ (Depth(f, i + 1) > 0 => ~intena')
      /\ Depth(f, i + 1) > 0 => ~intr'
  BY <1>1, <1>2, <1>3, <1>4, Zenon DEF Executing
<1>7. \A l \in Lock : holder'[l] = IF i + 1 \in Section(f, l) THEN t ELSE NoThread
  BY <1>1, <1>3, <1>4 DEF Executing, IInv, TypeOK, LockType
<1>8. Op(f, i) \notin Settling
  BY <1>2 DEF Settling
<1> QED
  BY <1>1, <1>3, <1>4, <1>5, <1>6, <1>7, <1>8, CpuSteps, Zenon

\* release finds the lock held.
LEMMA UnlockKeeps ==
  ASSUME IInv, NEW t \in Thread, unlock(t)
  PROVE  IInv'
<1>1. PICK f \in Function, i \in Nat : Executing(t, f, i) /\ stack[t][1] \in Frames
  BY Executes, Zenon DEF unlock, At
<1>2. Op(f, i) = "unlock" /\ Instruction(t)[2] = Program[f][i][2]
  BY <1>1, Zenon DEF unlock, At, Executing, Op
<1>3. PICK lk \in Lock : /\ lk = Program[f][i][2] /\ i \in Section(f, lk) /\ i + 1 \notin Section(f, lk)
                         /\ \A l \in Lock \ {lk} : i + 1 \in Section(f, l) <=> i \in Section(f, l)
                         /\ Depth(f, i + 1) = ncli
  <2>1. Sound(f, i) /\ ncli = Depth(f, i) /\ Op(f, i) \in {"xchg", "unlock"} /\ "xchg" # "unlock"
    BY <1>1, <1>2, Zenon DEF Executing
  <2> QED
    BY <1>2, <2>1, SoundLock, Zenon
<1>4. /\ holder' = [holder EXCEPT ![lk] = NoThread] /\ stack' = [stack EXCEPT ![t] = After(t)]
      /\ UNCHANGED <<proc, cursor, saved, state, panicked>> /\ UNCHANGED <<intr, ncli, intena>>
  <2>1. holder[lk] # NoThread
    BY <1>1, <1>3, NotAThread DEF Executing
  <2> QED
    BY <1>2, <1>3, <2>1, Zenon DEF unlock, Advance, table, cpu
<1>5. intena' \in BOOLEAN /\ intr' \in BOOLEAN /\ holder' \in [Lock -> Thread \cup {NoThread}]
  BY <1>4, Zenon DEF IInv, TypeOK, FlagTypes, LockType
<1>6. /\ f \in Handler => ~intr' /\ (Depth(f, i + 1) > 0 => ~intena')
      /\ Depth(f, i + 1) > 0 => ~intr'
  BY <1>1, <1>2, <1>3, <1>4, Zenon DEF Executing
<1>7. \A l \in Lock : holder'[l] = IF i + 1 \in Section(f, l) THEN t ELSE NoThread
  BY <1>1, <1>3, <1>4 DEF Executing, IInv, TypeOK, LockType
<1>8. Op(f, i) \notin Settling
  BY <1>2 DEF Settling
<1> QED
  BY <1>1, <1>3, <1>4, <1>5, <1>6, <1>7, <1>8, CpuSteps, Zenon

\* Instructions that leave the CPU alone, or turn interrupts on where nothing
\* is held.
LEMMA Neutral ==
  ASSUME IInv, NEW t \in Thread, NEW f \in Function, NEW i \in Nat, stack[t][1] \in Frames, Executing(t, f, i),
         proc' = proc /\ cursor' = cursor /\ panicked' = panicked, WakesOnly, StateType',
         stack' = [stack EXCEPT ![t] = After(t)],
         Op(f, i) \notin Settling, Op(f, i) \notin {"pushcli", "popcli", "xchg", "unlock", "resume"},
         UNCHANGED <<ncli, intena, holder, saved>>,
         intr' = intr \/ (intr' = TRUE /\ Depth(f, i) = 0 /\ (f \in Handler => i = 14))
  PROVE  IInv'
<1>1. /\ Depth(f, i + 1) = Depth(f, i)
      /\ \A l \in Lock : i + 1 \in Section(f, l) <=> i \in Section(f, l)
  <2>1. Sound(f, i)
    BY Zenon DEF Executing
  <2> QED
    BY <2>1, SoundQuiet, Zenon
<1>2. \A l \in Lock : holder'[l] = IF i + 1 \in Section(f, l) THEN t ELSE NoThread
  BY <1>1 DEF Executing
<1>3. ncli' = Depth(f, i + 1)
  BY <1>1, Zenon DEF Executing
<1>4. f \in Handler /\ i # 14 => ~intr' /\ (Depth(f, i + 1) > 0 => ~intena')
  BY <1>1, Zenon DEF Executing
<1>5. Depth(f, i + 1) > 0 => ~intr'
  <2>1. Depth(f, i) > 0 => Depth(f, i) # 0
    BY DEF Depth
  <2> QED
    BY <1>1, <2>1, Zenon DEF Executing
<1>6. FlagTypes' /\ holder' \in [Lock -> Thread \cup {NoThread}]
  BY Zenon DEF IInv, TypeOK, FlagTypes, LockType
<1> QED
  BY <1>2, <1>3, <1>4, <1>5, <1>6, Steps, Zenon

\* The same as Executes, with the instruction named.
LEMMA ExecutesOp ==
  ASSUME IInv, NEW t \in Thread, NEW c, At(t, c)
  PROVE  \E f \in Function, i \in Nat : Executing(t, f, i) /\ stack[t][1] \in Frames /\ Op(f, i) = c
<1>1. PICK f \in Function, i \in Nat : Executing(t, f, i) /\ stack[t][1] \in Frames
  BY Executes, Zenon DEF At
<1>2. Op(f, i) = c
  BY <1>1, Zenon DEF At, Executing, Op
<1> QED
  BY <1>1, <1>2

\* Instructions that leave the CPU and the locks alone.
LEMMA QuietKeeps ==
  ASSUME IInv, NEW t \in Thread,
         NEW c \in {"tick", "wakeup1", "exit_if_killed", "yield_if_running", "clearchan", "kill", "ticks0", "while"},
         At(t, c), stack' = [stack EXCEPT ![t] = After(t)],
         UNCHANGED <<intr, ncli, intena, holder, proc, cursor, saved, panicked>>, WakesOnly, StateType'
  PROVE  IInv'
<1>1. PICK f \in Function, i \in Nat : Executing(t, f, i) /\ stack[t][1] \in Frames /\ Op(f, i) = c
  BY ExecutesOp, Zenon
<1>2. Op(f, i) \notin Settling /\ Op(f, i) \notin {"pushcli", "popcli", "xchg", "unlock", "resume"}
  BY <1>1, Others, Zenon
<1> QED
  BY <1>1, <1>2, Neutral, Zenon

\* Instructions that turn interrupts on: nothing is held there.
LEMMA TurnsOnKeeps ==
  ASSUME IInv, NEW t \in Thread, NEW c \in {"sti", "iret", "sysret"},
         At(t, c), stack' = [stack EXCEPT ![t] = After(t)], intr' = TRUE,
         UNCHANGED <<ncli, intena, holder, proc, cursor, saved, state, panicked>>
  PROVE  IInv'
<1>1. PICK f \in Function, i \in Nat : Executing(t, f, i) /\ stack[t][1] \in Frames /\ Op(f, i) = c
  BY ExecutesOp, Zenon
<1>2. Op(f, i) \notin Settling /\ Op(f, i) \notin {"pushcli", "popcli", "xchg", "unlock", "resume"}
  BY <1>1, Others, Zenon
<1>3. <<f, i>> \in {<<"scheduler", 1>>, <<"forkret", 3>>, <<"timer", 14>>, <<"kill", 6>>, <<"sys_sleep", 7>>}
  BY <1>1 DEF Executing, Place
<1>4. Depth(f, i) = 0 /\ (f \in Handler => i = 14)
  BY <1>3 DEF Depth, Off, OffTwice, Handler
<1>5. WakesOnly /\ StateType'
  BY DEF WakesOnly, IInv, TypeOK, StateType
<1> QED
  BY <1>1, <1>2, <1>4, <1>5, Neutral, Zenon

\* What is held at the first instruction: nothing, or for sleep what sys_sleep
\* holds.
LEMMA Entries ==
  /\ \A c \in {"timer", "yield", "exit", "kill", "sys_sleep"} : Depth(c, 1) = 0 /\ \A l \in Lock : 1 \notin Section(c, l)
  /\ Depth("sleep", 1) = Depth("sys_sleep", 4)
  /\ \A l \in Lock : 1 \in Section("sleep", l) <=> 4 \in Section("sys_sleep", l)
BY SMTT(20) DEF Depth, Off, OffTwice, Section, Lock

\* No function starts with sched.
LEMMA FirstOps ==
  \A c \in {"timer", "yield", "sleep", "exit", "kill", "sys_sleep"} : Op(c, 1) # "sched"
BY Code_timer, Code_yield, Code_sleep, Code_exit, Code_kill, Code_sys_sleep DEF Op

\* A call or an interrupt: code c starts in the running thread with what the
\* code below it holds.
LEMMA EntersKeeps ==
  ASSUME IInv, NEW t \in Thread, proc = t, NEW s, NEW f \in Frames,
         stack' = [stack EXCEPT ![t] = s], Shape(t, s), s # <<>>, s[1] = f, f.at = 1,
         f.code \in {"timer", "yield", "sleep", "exit", "kill", "sys_sleep"},
         Depth(f.code, 1) = DepthOf(stack[t]), \A l \in Lock : 1 \in Section(f.code, l) <=> Has(stack[t], l),
         UNCHANGED <<ncli, intena, holder, proc, cursor, saved, state, panicked>>,
         intr' \in BOOLEAN, intr' => intr, f.code \in Handler => ~intr'
  PROVE  IInv'
<1>1. stack'[t] = s /\ \A q \in Thread \ {t} : stack'[q] = stack[q]
  BY DEF IInv, TypeOK, StackType
<1>2. StackType'
  BY DEF IInv, TypeOK, StackType, Shape
<1>3. WakesOnly /\ FlagTypes' /\ LockType' /\ StateType'
  BY Zenon DEF WakesOnly, IInv, TypeOK, FlagTypes, LockType, StateType
<1>4. Op(f.code, 1) # "sched"
  BY FirstOps, Zenon
<1>5. PointOK(t, stack[t][1])'
  <2>1. (stack[t][1])' = f
    BY <1>1
  <2> QED
    BY <1>4, <2>1 DEF PointOK, Op
<1>6. Shape(t, stack[t])'
  BY <1>1, Zenon DEF Shape, Bottom
<1>7. Threads'
  <2>1. \A p \in Process \ {t} : state[p] = "ZOMBIE" => state'[p] = "ZOMBIE"
    BY Zenon
  <2> QED
    BY <1>1, <1>5, <1>6, <2>1, OneStack, Zenon DEF IInv
<1>8. DepthOf(stack'[t]) = DepthOf(stack[t]) /\ \A l \in Lock : Has(stack'[t], l) <=> Has(stack[t], l)
  BY <1>1 DEF DepthOf, Has
<1>9. Locks'
  BY <1>8, Zenon DEF IInv, Locks
<1>10. IntrOff'
  BY <1>8, Zenon DEF IInv, IntrOff
<1>11. HandlerOff'
  <2>1. f.code \in Handler => Depth(f.code, 1) = 0
    BY Entries, Zenon DEF Handler
  <2> QED
    BY <1>1, <1>8, <2>1 DEF HandlerOff
<1>12. YieldSaved'
  BY <1>1 DEF IInv, YieldSaved, Thread
<1> QED
  BY <1>2, <1>3, <1>7, <1>9, <1>10, <1>11, <1>12, Zenon DEF IInv, TypeOK

\* A lock is held with interrupts off.
LEMMA HeldOff ==
  ASSUME NEW f, NEW i, Sound(f, i), Depth(f, i) = 0
  PROVE  \A l \in Lock : i \notin Section(f, l)
BY DEF Sound

\* With interrupts enabled by the annotation no lock is held.
LEMMA NothingHeld ==
  ASSUME IInv, NEW t \in Thread, DepthOf(stack[t]) = 0
  PROVE  \A l \in Lock : ~Has(stack[t], l)
<1>1. Shape(t, stack[t])
  BY DEF IInv, Threads
<1>2. stack[t] # <<>> => Sound(stack[t][1].code, stack[t][1].at)
  BY <1>1, TopFrame
<1> QED
  BY <1>2, HeldOff, Zenon DEF DepthOf, Has

\* c may be called where the stack of t is s.
Callable(t, c, s) ==
  \/ s = <<>> /\ t # Scheduler /\ c \in {"exit", "kill", "sys_sleep", "timer"}
  \/ s # <<>> /\ c = "timer" /\ DepthOf(s) = 0 /\ s[1].code \notin Handler
  \/ s # <<>> /\ c = "yield" /\ s[1].code = "timer" /\ s[1].at = 13
  \/ s # <<>> /\ c = "sleep" /\ s[1].code = "sys_sleep" /\ s[1].at = 4

\* A call on top of r, which holds what the code before the call held.
LEMMA CallKeeps ==
  ASSUME IInv, NEW t \in Thread, proc = t, NEW u \in BOOLEAN, NEW r, Shape(t, r), 
         NEW c \in {"timer", "yield", "sleep", "exit", "kill", "sys_sleep"}, Callable(t, c, r),
         stack' = [stack EXCEPT ![t] = <<Frame(c, u)>> \o r],
         Depth(c, 1) = DepthOf(stack[t]), \A l \in Lock : 1 \in Section(c, l) <=> Has(stack[t], l),
         UNCHANGED <<ncli, intena, holder, proc, cursor, saved, state, panicked>>,
         intr' \in BOOLEAN, intr' => intr, c \in Handler => ~intr'
  PROVE  IInv'
<1>1. c \in Function
  BY DEF Function
<1>2. PICK f : f = Frame(c, u)
  OBVIOUS
<1>3. f \in Frames /\ f.code = c /\ f.at = 1
  BY <1>1, <1>2, NewFrame, Zenon
<1>4. IF r = <<>> THEN Bottom(t, f) ELSE Fits(f, r[1])
  BY <1>3 DEF Callable, Bottom, Fits, DepthOf
<1>5. PICK s : s = <<f>> \o r
  BY Zenon
<1>6. Shape(t, s) /\ s # <<>> /\ s[1] = f
  BY <1>3, <1>4, <1>5, ShapePush, Zenon
<1>7. stack' = [stack EXCEPT ![t] = s]
  BY <1>2, <1>5, Zenon
<1> QED
  BY <1>3, <1>6, <1>7, EntersKeeps, Zenon

\* An interrupt comes where nothing is held, outside a handler.
LEMMA TimerKeeps ==
  ASSUME IInv, timer
  PROVE  IInv'
<1>1. PICK t : t = proc
  OBVIOUS
<1>2. PICK u : u = InUserMode(t)
  OBVIOUS
<1>3. t \in Thread /\ u \in BOOLEAN
  BY <1>1, <1>2, Zenon DEF InUserMode, IInv, TypeOK, LockType
<1>4. Shape(t, stack[t]) /\ DepthOf(stack[t]) = 0 /\ (stack[t] # <<>> => stack[t][1].code \notin Handler)
  <2>1. Shape(t, stack[t])
    BY <1>3 DEF IInv, Threads
  <2>2. ~(DepthOf(stack[t]) > 0) /\ (stack[t] # <<>> => stack[t][1].code \notin Handler)
    BY <1>1, Zenon DEF IInv, IntrOff, HandlerOff, timer
  <2>3. DepthOf(stack[t]) \in {0, 1, 2}
    BY DEF DepthOf, Depth
  <2> QED
    BY <2>1, <2>2, <2>3
<1>5. Callable(t, "timer", stack[t])
  BY <1>4, Zenon DEF Callable, Shape
<1>6. stack' = [stack EXCEPT ![t] = <<Frame("timer", u)>> \o stack[t]]
  BY <1>1, <1>2, Zenon DEF timer
<1>7. Depth("timer", 1) = DepthOf(stack[t]) /\ \A l \in Lock : 1 \in Section("timer", l) <=> Has(stack[t], l)
  BY <1>3, <1>4, NothingHeld, Entries, Zenon
<1>8. UNCHANGED <<ncli, intena, holder, proc, cursor, saved, state, panicked>> /\ intr' = FALSE
  BY DEF timer, table
<1> QED
  BY <1>1, <1>3, <1>4, <1>5, <1>6, <1>7, <1>8, CallKeeps, Zenon

\* A process is not the scheduler.
LEMMA ProcessThread == ASSUME NEW p \in Process PROVE p \in Thread /\ p # Scheduler
BY NPROCAssumption DEF Process, Scheduler, Thread

\* exit is called where nothing is held.
LEMMA ExitKeeps ==
  ASSUME IInv, NEW t \in Process, proc = t, DepthOf(stack[t]) = 0, Exit(t),
         UNCHANGED <<intr, ncli, intena, holder, proc, cursor, saved, state, panicked>>
  PROVE  IInv'
<1>1. t \in Thread /\ t # Scheduler
  BY ProcessThread
<1>2. Shape(t, <<>>) /\ Callable(t, "exit", <<>>)
  BY <1>1 DEF Shape, Callable
<1>3. PICK f : f = Frame("exit", FALSE)
  BY Zenon
<1>4. <<f>> = <<f>> \o <<>>
  OBVIOUS
<1>5. stack' = [stack EXCEPT ![t] = <<Frame("exit", FALSE)>> \o <<>>]
  BY <1>3, <1>4, Zenon DEF Exit
<1>6. Depth("exit", 1) = DepthOf(stack[t]) /\ \A l \in Lock : 1 \in Section("exit", l) <=> Has(stack[t], l)
  BY <1>1, NothingHeld, Entries, Zenon
<1>7. intr' \in BOOLEAN /\ "exit" \notin Handler
  BY Zenon DEF IInv, TypeOK, FlagTypes, Handler
<1> QED
  BY <1>1, <1>2, <1>5, <1>6, <1>7, CallKeeps, Zenon

\* A system call enters the kernel from user mode, where nothing is held.
LEMMA SyscallKeeps ==
  ASSUME IInv, NEW p \in Process, NEW c \in {"kill", "sys_sleep"}, syscall(p, c)
  PROVE  IInv'
<1>1. /\ proc = p /\ stack[p] = <<>> /\ DepthOf(stack[p]) = 0 /\ p \in Thread /\ p # Scheduler
      /\ UNCHANGED <<intr, ncli, intena, holder, proc, cursor, saved, state, panicked>>
  BY ProcessThread DEF syscall, InUserMode, DepthOf, cpu, table
<1>2. CASE killed[p]
  BY <1>1, <1>2, ExitKeeps, Zenon DEF syscall
<1>3. CASE ~killed[p]
  <2>1. Shape(p, stack[p]) /\ Callable(p, c, stack[p])
    BY <1>1 DEF IInv, Threads, Callable
  <2>2. stack' = [stack EXCEPT ![p] = <<Frame(c, FALSE)>> \o stack[p]]
    BY <1>3, Zenon DEF syscall, Call
  <2>3. Depth(c, 1) = DepthOf(stack[p]) /\ \A l \in Lock : 1 \in Section(c, l) <=> Has(stack[p], l)
    BY <1>1, NothingHeld, Entries, Zenon
  <2>4. intr' \in BOOLEAN /\ c \notin Handler
    BY <1>1, Zenon DEF IInv, TypeOK, FlagTypes, Handler
  <2> QED
    BY <1>1, <2>1, <2>2, <2>3, <2>4, CallKeeps, Zenon
<1> QED
  BY <1>2, <1>3

\* The handler advances the clock and wakes sleepers.
LEMMA TickKeeps ==
  ASSUME IInv, NEW t \in Thread, tick(t)
  PROVE  IInv'
<1>1. WakesOnly /\ StateType'
  <2>1. state' = state
    BY Zenon DEF tick, table
  <2> QED
    BY <2>1, Zenon DEF WakesOnly, IInv, TypeOK, StateType
<1>2. At(t, "tick") /\ stack' = [stack EXCEPT ![t] = After(t)]
      /\ UNCHANGED <<intr, ncli, intena, holder, proc, cursor, saved, panicked>>
  BY DEF tick, Advance, cpu
<1> QED
  BY <1>1, <1>2, QuietKeeps, Zenon

\* wakeup1 makes sleeping processes runnable.
LEMMA WakeupKeeps ==
  ASSUME IInv, NEW t \in Thread, call_wakeup1(t)
  PROVE  IInv'
<1>1. WakesOnly /\ StateType'
  BY DEF call_wakeup1, wakeup1, WakesOnly, IInv, TypeOK, StateType
<1>2. At(t, "wakeup1") /\ stack' = [stack EXCEPT ![t] = After(t)]
      /\ UNCHANGED <<intr, ncli, intena, holder, proc, cursor, saved, panicked>>
  BY DEF call_wakeup1, Advance, cpu
<1> QED
  BY <1>1, <1>2, QuietKeeps, Zenon

\* kill wakes the killed process if it sleeps.
LEMMA KillKeeps ==
  ASSUME IInv, NEW p \in Process, NEW q \in Process, kill(p, q)
  PROVE  IInv'
<1>1. WakesOnly /\ StateType'
  BY DEF kill, WakesOnly, IInv, TypeOK, StateType
<1>2. At(p, "kill") /\ stack' = [stack EXCEPT ![p] = After(p)] /\ p \in Thread
      /\ UNCHANGED <<intr, ncli, intena, holder, proc, cursor, saved, panicked>>
  BY DEF kill, Advance, cpu, Thread
<1> QED
  BY <1>1, <1>2, QuietKeeps, Zenon

\* sys_sleep reads the clock.
LEMMA ReadTicksKeeps ==
  ASSUME IInv, NEW p \in Process, read_ticks(p)
  PROVE  IInv'
<1>1. WakesOnly /\ StateType'
  BY DEF read_ticks, table, WakesOnly, IInv, TypeOK, StateType
<1>2. At(p, "ticks0") /\ stack' = [stack EXCEPT ![p] = After(p)] /\ p \in Thread
      /\ UNCHANGED <<intr, ncli, intena, holder, proc, cursor, saved, panicked>>
  BY DEF read_ticks, Advance, cpu, Thread
<1> QED
  BY <1>1, <1>2, QuietKeeps, Zenon

\* The loop of sys_sleep ends, or it calls sleep with tickslock.
LEMMA SysSleepKeeps ==
  ASSUME IInv, NEW p \in Process, sys_sleep(p)
  PROVE  IInv'
<1>1. WakesOnly /\ StateType'
  BY DEF sys_sleep, table, WakesOnly, IInv, TypeOK, StateType
<1>2. At(p, "while") /\ p \in Thread /\ UNCHANGED <<intr, ncli, intena, holder, proc, cursor, saved, state, panicked>>
  BY DEF sys_sleep, cpu, table, Thread
<1>3. stack' = [stack EXCEPT ![p] = After(p)] \/ stack' = [stack EXCEPT ![p] = <<Frame("sleep", FALSE)>> \o stack[p]]
  <2>1. Advance(p) \/ Call(p, "sleep")
    BY Zenon DEF sys_sleep
  <2> QED
    BY <2>1, Zenon DEF Advance, Call
<1>4. CASE stack' = [stack EXCEPT ![p] = After(p)]
  BY <1>1, <1>2, <1>4, QuietKeeps, Zenon
<1>5. CASE stack' = [stack EXCEPT ![p] = <<Frame("sleep", FALSE)>> \o stack[p]]
  <2>1. PICK g \in Function, i \in Nat : Executing(p, g, i) /\ stack[p][1] \in Frames /\ Op(g, i) = "while"
    BY <1>2, ExecutesOp, Zenon
  <2>2. g = "sys_sleep" /\ i = 4
    BY <2>1, Zenon DEF Executing, Place
  <2>3. proc = p /\ stack[p] # <<>> /\ stack[p][1].code = "sys_sleep" /\ stack[p][1].at = 4
    BY <2>1, <2>2, Zenon DEF Executing
  <2>4. Shape(p, stack[p]) /\ Callable(p, "sleep", stack[p])
    BY <1>2, <2>3, Zenon DEF IInv, Threads, Callable
  <2>5. Depth("sleep", 1) = DepthOf(stack[p]) /\ \A l \in Lock : 1 \in Section("sleep", l) <=> Has(stack[p], l)
    BY <2>3, Entries, Zenon DEF DepthOf, Has
  <2>6. intr' \in BOOLEAN /\ "sleep" \notin Handler
    BY <1>2, Zenon DEF IInv, TypeOK, FlagTypes, Handler
  <2> QED
    BY <1>2, <1>5, <2>3, <2>4, <2>5, <2>6, CallKeeps, Zenon
<1> QED
  BY <1>3, <1>4, <1>5, Zenon

\* The handler lets a killed process exit, or goes on.
LEMMA ExitIfKilledKeeps ==
  ASSUME IInv, NEW t \in Thread, exit_if_killed(t)
  PROVE  IInv'
<1>1. At(t, "exit_if_killed") /\ UNCHANGED <<intr, ncli, intena, holder, proc, cursor, saved, state, panicked>>
  BY DEF exit_if_killed, cpu, table
<1>2. (t \in Process /\ Exit(t)) \/ Advance(t)
  BY Zenon DEF exit_if_killed
<1>3. CASE t \in Process /\ Exit(t)
  <2>1. PICK f \in Function, i \in Nat : Executing(t, f, i) /\ stack[t][1] \in Frames /\ Op(f, i) = "exit_if_killed"
    BY <1>1, ExecutesOp, Zenon
  <2>2. f = "timer" /\ i \in {11, 13}
    BY <2>1, Zenon DEF Executing, Place
  <2>3. Depth(f, i) = 0
    BY <2>2 DEF Depth, Off, OffTwice
  <2>4. proc = t /\ DepthOf(stack[t]) = 0
    BY <2>1, <2>3, Zenon DEF Executing, DepthOf
  <2> QED
    BY <1>1, <1>3, <2>4, ExitKeeps, Zenon
<1>4. CASE Advance(t)
  <2>1. WakesOnly /\ StateType'
    BY <1>1 DEF WakesOnly, IInv, TypeOK, StateType
  <2> QED
    BY <1>1, <1>4, <2>1, QuietKeeps, Zenon DEF Advance
<1> QED
  BY <1>2, <1>3, <1>4

\* The next instruction is one of the same code.
LEMMA NextFrame ==
  ASSUME NEW g \in Frames, g.at < Len(Program[g.code])
  PROVE  LET h == [g EXCEPT !.at = @ + 1] IN h \in Frames /\ h.code = g.code /\ h.at = g.at + 1
<1>1. Len(Program[g.code]) \in Nat
  BY CodeNotEmpty DEF Frames
<1> QED
  BY <1>1 DEF Frames

\* Before its last instruction a call goes on to the next one.
LEMMA AfterNext ==
  ASSUME NEW t \in Thread, Shape(t, stack[t]), stack[t] # <<>>, stack[t][1].at < Len(Program[stack[t][1].code])
  PROVE  /\ After(t) # <<>> /\ After(t)[1].code = stack[t][1].code /\ After(t)[1].at = stack[t][1].at + 1
         /\ \E h \in Frames : After(t) = <<h>> \o Tail(stack[t])
<1>1. stack[t][1] \in Frames /\ Top(t) = stack[t][1]
  BY TopFrame
<1>2. PICK g \in Frames : g = stack[t][1]
  BY <1>1, Zenon
<1>3. PICK h : h = [g EXCEPT !.at = @ + 1]
  BY Zenon
<1>4. h \in Frames /\ h.code = g.code /\ h.at = g.at + 1
  BY <1>2, <1>3, NextFrame, Zenon
<1>5. After(t) = <<h>> \o Tail(stack[t])
  BY <1>1, <1>2, <1>3 DEF After
<1>6. h.code = stack[t][1].code
  BY <1>2, <1>4, Zenon
<1>7. After(t) # <<>> /\ After(t)[1] = h
  BY <1>4, <1>5, <1>6, ShapeMove, ZenonT(30)
<1> QED
  BY <1>2, <1>4, <1>5, <1>7, Zenon

\* The handler yields for a running process, or goes on.
LEMMA YieldIfRunningKeeps ==
  ASSUME IInv, NEW t \in Thread, yield_if_running(t)
  PROVE  IInv'
<1>1. At(t, "yield_if_running") /\ UNCHANGED <<intr, ncli, intena, holder, proc, cursor, saved, state, panicked>>
  BY DEF yield_if_running, cpu, table
<1>2. PICK f \in Function, i \in Nat : Executing(t, f, i) /\ stack[t][1] \in Frames /\ Op(f, i) = "yield_if_running"
  BY <1>1, ExecutesOp, Zenon
<1>3. f = "timer" /\ i = 12
  BY <1>2, Zenon DEF Executing, Place
<1>4. proc = t /\ stack[t] # <<>> /\ stack[t][1].code = "timer" /\ stack[t][1].at = 12 /\ Shape(t, stack[t])
  BY <1>2, <1>3, Zenon DEF Executing, IInv, Threads
<1>5. Shape(t, After(t)) /\ (After(t) # <<>> => GoesOn(stack[t][1], After(t)[1]))
  BY <1>4, AfterShape
<1>6. PICK r : r = After(t)
  BY Zenon
<1>7. \/ stack' = [stack EXCEPT ![t] = <<Frame("yield", FALSE)>> \o r]
      \/ stack' = [stack EXCEPT ![t] = <<>> \o r]
  BY <1>6, Zenon DEF yield_if_running
<1>8. CASE stack' = [stack EXCEPT ![t] = <<Frame("yield", FALSE)>> \o r]
  <2>1. r # <<>> /\ r[1].code = "timer" /\ r[1].at = 13
    <3>1. stack[t][1].at < Len(Program[stack[t][1].code]) /\ 12 + 1 = 13
      BY <1>4, Lengths
    <3> QED
      BY <1>4, <1>6, <3>1, AfterNext, Zenon
  <2>2. Callable(t, "yield", r)
    BY <2>1, Zenon DEF Callable
  <2>3. Depth(f, i) = 0
    BY <1>3 DEF Depth, Off, OffTwice
  <2>4. DepthOf(stack[t]) = 0
    BY <1>2, <2>3, Zenon DEF Executing, DepthOf
  <2>5. Depth("yield", 1) = DepthOf(stack[t]) /\ \A l \in Lock : 1 \in Section("yield", l) <=> Has(stack[t], l)
    BY <2>4, NothingHeld, Entries, Zenon
  <2>6. intr' \in BOOLEAN /\ ~intr'
    BY <1>1, <1>2, <1>3, Zenon DEF IInv, TypeOK, FlagTypes, Executing, Handler
  <2> QED
    BY <1>1, <1>4, <1>5, <1>6, <1>8, <2>2, <2>5, <2>6, CallKeeps, Zenon
<1>9. CASE stack' = [stack EXCEPT ![t] = <<>> \o r]
  <2>1. <<>> \o r = r
    BY <1>5, <1>6 DEF Shape
  <2>2. WakesOnly /\ StateType'
    BY <1>1 DEF WakesOnly, IInv, TypeOK, StateType
  <2> QED
    BY <1>1, <1>6, <1>9, <2>1, <2>2, QuietKeeps, Zenon
<1> QED
  BY <1>7, <1>8, <1>9, Zenon

\* The return of a system call: to user mode, or through exit.
LEMMA SysretKeeps ==
  ASSUME IInv, NEW p \in Process, sysret(p)
  PROVE  IInv'
<1>1. /\ At(p, "sysret") /\ p \in Thread
      /\ UNCHANGED <<ncli, intena, holder, proc, cursor, saved, state, panicked>>
  BY ProcessThread DEF sysret, table
<1>2. (Exit(p) /\ UNCHANGED intr) \/ (Advance(p) /\ intr' = TRUE)
  BY Zenon DEF sysret
<1>3. CASE Exit(p) /\ UNCHANGED intr
  <2>1. PICK f \in Function, i \in Nat : Executing(p, f, i) /\ stack[p][1] \in Frames /\ Op(f, i) = "sysret"
    BY <1>1, ExecutesOp, Zenon
  <2>2. <<f, i>> \in {<<"kill", 6>>, <<"sys_sleep", 7>>}
    BY <2>1, Zenon DEF Executing, Place
  <2>3. Depth(f, i) = 0
    BY <2>2 DEF Depth, Off, OffTwice
  <2>4. proc = p /\ DepthOf(stack[p]) = 0
    BY <2>1, <2>3, Zenon DEF Executing, DepthOf
  <2> QED
    BY <1>1, <1>3, <2>4, ExitKeeps, Zenon
<1>4. CASE Advance(p) /\ intr' = TRUE
  BY <1>1, <1>4, TurnsOnKeeps, Zenon DEF Advance
<1> QED
  BY <1>2, <1>3, <1>4, Zenon

\* iretq and sti.
LEMMA IretKeeps ==
  ASSUME IInv, NEW t \in Thread, iret(t)
  PROVE  IInv'
<1>1. /\ At(t, "iret") /\ stack' = [stack EXCEPT ![t] = After(t)] /\ intr' = TRUE
      /\ UNCHANGED <<ncli, intena, holder, proc, cursor, saved, state, panicked>>
  BY DEF iret, Advance, table
<1> QED
  BY <1>1, TurnsOnKeeps, Zenon

\* sti turns interrupts on in the scheduler, which has nothing.
LEMMA StiKeeps ==
  ASSUME IInv, sti
  PROVE  IInv'
<1>1. /\ At(Scheduler, "sti") /\ stack' = [stack EXCEPT ![Scheduler] = After(Scheduler)] /\ intr' = TRUE
      /\ UNCHANGED <<ncli, intena, holder, proc, cursor, saved, state, panicked>>
  BY DEF sti, Advance, table
<1>2. Scheduler \in Thread
  BY DEF Thread
<1> QED
  BY <1>1, <1>2, TurnsOnKeeps, Zenon

\* The running thread goes on in code with the same annotation.
LEMMA GoesOnKeeps ==
  ASSUME IInv, NEW t \in Thread, NEW s, proc = t, stack[t] # <<>>,
         UNCHANGED <<intr, ncli, intena, holder, proc, saved, panicked>>, StateType',
         \A p \in Process \ {t} : state[p] = "ZOMBIE" => state'[p] = "ZOMBIE",
         stack' = [stack EXCEPT ![t] = s], Shape(t, s), s # <<>>, PointOK(t, s[1])',
         DepthOf(s) = DepthOf(stack[t]), \A l \in Lock : Has(s, l) <=> Has(stack[t], l),
         s[1].code \in Handler => stack[t][1].code \in Handler /\ Op(stack[t][1].code, stack[t][1].at) # "resume",
         s[1].code = "yield" => s[1].at # 5
  PROVE  IInv'
<1>1. stack'[t] = s /\ \A q \in Thread \ {t} : stack'[q] = stack[q]
  BY DEF IInv, TypeOK, StackType
<1>2. StackType'
  BY DEF IInv, TypeOK, StackType, Shape
<1>3. FlagTypes' /\ LockType'
  BY Zenon DEF IInv, TypeOK, FlagTypes, LockType
<1>4. Shape(t, stack[t])' /\ PointOK(t, stack[t][1])'
  BY <1>1, Zenon DEF Shape, Bottom, PointOK, Op
<1>5. Threads'
  BY <1>1, <1>4, OneStack, Zenon DEF IInv
<1>6. DepthOf(stack'[t]) = DepthOf(stack[t]) /\ \A l \in Lock : Has(stack'[t], l) <=> Has(stack[t], l)
  BY <1>1, Zenon
<1>7. Locks'
  BY <1>6, Zenon DEF IInv, Locks
<1>8. IntrOff'
  BY <1>6, Zenon DEF IInv, IntrOff
<1>9. HandlerOff'
  BY <1>1, <1>6, Zenon DEF IInv, HandlerOff
<1>10. YieldSaved'
  BY <1>1, ZenonT(30) DEF IInv, YieldSaved, Thread
<1> QED
  BY <1>2, <1>3, <1>5, <1>7, <1>8, <1>9, <1>10, StateType', Zenon DEF IInv, TypeOK

\* yield, sleep and exit change the state of the process before sched.
LEMMA SetStateKeeps ==
  ASSUME IInv, NEW p \in Process, set_state(p)
  PROVE  IInv'
<1>1. /\ UNCHANGED <<intr, ncli, intena, holder, proc, cursor, saved, panicked>> /\ p \in Thread
      /\ stack' = [stack EXCEPT ![p] = After(p)]
  BY ProcessThread DEF set_state, Advance, cpu
<1>2. CASE At(p, "clearchan") /\ UNCHANGED state
  <2>1. WakesOnly /\ StateType'
    BY <1>2 DEF WakesOnly, IInv, TypeOK, StateType
  <2> QED
    BY <1>1, <1>2, <2>1, QuietKeeps, Zenon
<1>3. ASSUME NEW c, At(p, c), NEW v, state' = [state EXCEPT ![p] = v],
             <<c, v>> \in {<<"runnable", "RUNNABLE">>, <<"sleep", "SLEEPING">>, <<"zombie", "ZOMBIE">>}
      PROVE  IInv'
  <2>1. PICK f \in Function, i \in Nat : Executing(p, f, i) /\ stack[p][1] \in Frames /\ Op(f, i) = c
    BY <1>1, <1>3, ExecutesOp, Zenon
  <2>2. <<f, i, v>> \in {<<"yield", 3, "RUNNABLE">>, <<"sleep", 5, "SLEEPING">>, <<"exit", 3, "ZOMBIE">>}
    BY <1>3, <2>1, Zenon DEF Executing, Place
  <2>3. /\ proc = p /\ stack[p] # <<>> /\ stack[p][1].code = f /\ stack[p][1].at = i /\ Shape(p, stack[p])
    BY <1>1, <2>1, Zenon DEF Executing, IInv, Threads
  <2>4. stack[p][1].at < Len(Program[stack[p][1].code])
    <3>1. PICK m : m = Len(Program[f])
      BY Zenon
    <3>2. (f = "yield" => m = 7) /\ (f = "sleep" => m = 12) /\ (f = "exit" => m = 5)
      BY <3>1, Lengths, Zenon
    <3>3. i < m
      BY <2>2, <3>2
    <3> QED
      BY <2>3, <3>1, <3>3, Zenon
  <2>5. PICK s : s = After(p)
    BY Zenon
  <2>6. s # <<>> /\ s[1].code = f /\ s[1].at = i + 1
    BY <1>1, <2>3, <2>4, <2>5, AfterNext, Zenon
  <2>7. ~(stack[p][1].code = "exit" /\ stack[p][1].at = 5)
    BY <2>2, <2>3
  <2>8. /\ Shape(p, s) /\ DepthOf(s) = Depth(f, i + 1)
        /\ \A l \in Lock : Has(s, l) <=> i + 1 \in Section(f, l)
    BY <1>1, <2>3, <2>5, <2>7, AfterShape, Zenon
  <2>9. Depth(f, i + 1) = Depth(f, i) /\ \A l \in Lock : i + 1 \in Section(f, l) <=> i \in Section(f, l)
    BY <2>2 DEF Depth, Off, OffTwice, Section, Lock
  <2>10. DepthOf(s) = DepthOf(stack[p]) /\ \A l \in Lock : Has(s, l) <=> Has(stack[p], l)
    BY <2>3, <2>8, <2>9, Zenon DEF DepthOf, Has
  <2>11. /\ StateType' /\ state'[p] = v
         /\ \A q \in Process \ {p} : state[q] = "ZOMBIE" => state'[q] = "ZOMBIE"
    BY <1>3 DEF IInv, TypeOK, StateType
  <2>12. s[1].code # "scheduler" /\ (s[1].code = "yield" => s[1].at # 5) /\ (s[1].code = "exit" => s[1].at # 5 /\ v = "ZOMBIE")
         /\ v # "RUNNING"
    BY <2>2, <2>6
  <2>13. PointOK(p, s[1])'
    BY <2>11, <2>12, Zenon DEF PointOK, Op
  <2>14. Op(f, i) # "resume"
    BY <1>3, <2>1
  <2> QED
    BY <1>1, <2>3, <2>5, <2>6, <2>8, <2>10, <2>11, <2>12, <2>13, <2>14, GoesOnKeeps, Zenon
<1> QED
  BY <1>2, <1>3, Zenon DEF set_state, FallAsleep

\* A process comes back from the switch to where it called sched.
LEMMA ResumeKeeps ==
  ASSUME IInv, NEW p \in Process, resume(p)
  PROVE  IInv'
<1>1. /\ At(p, "resume") /\ intena' = saved[p] /\ saved' = [saved EXCEPT ![p] = FALSE] /\ p \in Thread
      /\ stack' = [stack EXCEPT ![p] = After(p)]
      /\ UNCHANGED <<intr, ncli, holder, proc, cursor, state, panicked>>
  BY ProcessThread DEF resume, Advance, table
<1>2. PICK f \in Function, i \in Nat : Executing(p, f, i) /\ stack[p][1] \in Frames /\ Op(f, i) = "resume"
  BY <1>1, ExecutesOp, Zenon
<1>3. <<f, i>> \in {<<"yield", 5>>, <<"sleep", 7>>, <<"exit", 5>>}
  BY <1>2 DEF Executing, Place
<1>4. Depth(f, i + 1) = Depth(f, i) /\ \A l \in Lock : i + 1 \in Section(f, l) <=> i \in Section(f, l)
  BY <1>3 DEF Depth, Off, OffTwice, Section, Lock
<1>5. ncli' = Depth(f, i + 1) /\ \A l \in Lock : holder'[l] = IF i + 1 \in Section(f, l) THEN p ELSE NoThread
  BY <1>1, <1>2, <1>4, Zenon DEF Executing
<1>6. FlagTypes'
  BY <1>1 DEF IInv, TypeOK, FlagTypes
<1>7. WakesOnly /\ StateType' /\ holder' \in [Lock -> Thread \cup {NoThread}]
  BY <1>1, Zenon DEF IInv, TypeOK, WakesOnly, StateType, LockType
<1>8. \A q \in Process \ {p} : saved'[q] = saved[q]
  BY <1>1 DEF IInv, TypeOK, FlagTypes
<1>9. (Depth(f, i + 1) > 0 => ~intr') /\ (f \in Handler => ~intr')
  BY <1>1, <1>2, <1>4, Zenon DEF Executing
<1>10. f \in Handler => ~intena'
  <2>1. f \in Handler => f = "yield" /\ i = 5
    BY <1>3 DEF Handler
  <2> QED
    BY <1>1, <1>2, <2>1, Zenon DEF IInv, YieldSaved, Executing
<1>11. /\ proc' = proc /\ cursor' = cursor /\ panicked' = panicked
       /\ stack' = [stack EXCEPT ![p] = After(p)] /\ p \in Thread
  BY <1>1, Zenon
<1>12. f \in Handler /\ i # 14 => ~intr' /\ (Depth(f, i + 1) > 0 => ~intena')
  BY <1>9, <1>10, Zenon
<1>13. Op(f, i) \notin Settling
  BY <1>2 DEF Settling
<1>14. Executing(p, f, i) /\ stack[p][1] \in Frames
  BY <1>2, Zenon
<1> QED
  BY <1>5, <1>6, <1>7, <1>8, <1>9, <1>11, <1>12, <1>13, <1>14, Steps, Zenon
=============================================================================
