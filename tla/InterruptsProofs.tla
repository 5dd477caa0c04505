-------------------------- MODULE InterruptsProofs --------------------------
(***************************************************************************)
(* The scheduler, the switches and the first state keep the invariant of   *)
(* InterruptsCode.  So for any number of processes none of the panics of  *)
(* Interrupts happens and critical sections are atomic.  With it, what a   *)
(* sleeper has counted of the ticks is invariant, across the wrap of the   *)
(* counter: sleep() returns in time.  The stacks of the kernel are         *)
(* bounded.                                                                *)
(***************************************************************************)
EXTENDS InterruptsSteps

\* The call goes on at another instruction of its code.
LEMMA ShapeJump ==
  ASSUME NEW t, NEW s, Shape(t, s), s # <<>>, NEW f \in Frames, f.code = s[1].code
  PROVE  /\ Shape(t, [s EXCEPT ![1] = f]) /\ [s EXCEPT ![1] = f] # <<>>
         /\ [s EXCEPT ![1] = f][1] = f
<1>1. PICK r : r = [s EXCEPT ![1] = f]
  BY Zenon
<1>2. s \in Seq(Frames) /\ 1 \in 1 .. Len(s)
  BY EmptyStack DEF Shape
<1>3. /\ r \in Seq(Frames) /\ r # <<>> /\ r[1] = f /\ Len(r) = Len(s)
      /\ \A k \in 2 .. Len(s) : r[k] = s[k]
  BY <1>1, <1>2
<1>4. ASSUME NEW k \in 1 .. Len(r)
      PROVE  IF k = Len(r) THEN Bottom(t, r[k]) ELSE Fits(r[k], r[k + 1])
  <2>1. k # Len(r) => r[k + 1] = s[k + 1]
    BY <1>2, <1>3
  <2>2. r[k].code = s[k].code /\ k \in 1 .. Len(s)
    BY <1>2, <1>3
  <2>3. IF k = Len(r) THEN Bottom(t, s[k]) ELSE Fits(s[k], s[k + 1])
    BY <1>3, <2>2 DEF Shape
  <2> QED
    BY <2>1, <2>2, <2>3 DEF Bottom, Fits
<1>5. Shape(t, r)
  BY <1>3, <1>4, Zenon DEF Shape
<1> QED
  BY <1>1, <1>3, <1>5, Zenon

\* A frame at another instruction.
LEMMA FrameAt ==
  ASSUME NEW h \in Frames, NEW a \in Nat, a \in 1 .. Len(Program[h.code]), NEW g, g = [h EXCEPT !.at = a]
  PROVE  g \in Frames /\ g.code = h.code /\ g.at = a
BY DEF Frames

\* The scheduler goes on at instruction a of its loop.
LEMMA SchedulerJumps ==
  ASSUME IInv, NEW c \in {"scan", "swtch"}, At(Scheduler, c), NEW a \in 1 .. 9
  PROVE  \E s : /\ s = [stack[Scheduler] EXCEPT ![1] = [stack[Scheduler][1] EXCEPT !.at = a]]
                /\ Shape(Scheduler, s) /\ s # <<>> /\ s[1].code = "scheduler" /\ s[1].at = a
<1> DEFINE g == [stack[Scheduler][1] EXCEPT !.at = a]
           s == [stack[Scheduler] EXCEPT ![1] = g]
<1> HIDE DEF s, g
<1>1. Scheduler \in Thread
  BY DEF Thread
<1>2. PICK f \in Function, i \in Nat : Executing(Scheduler, f, i) /\ stack[Scheduler][1] \in Frames /\ Op(f, i) = c
  BY <1>1, ExecutesOp, Zenon
<1>3. f = "scheduler"
  BY <1>2, Zenon DEF Executing, Place
<1>4. PICK h \in Frames : h = stack[Scheduler][1] /\ h.code = "scheduler" /\ stack[Scheduler] # <<>>
  BY <1>2, <1>3, Zenon DEF Executing
<1>5. Len(Program["scheduler"]) = 9
  BY Lengths
<1>6. g = [h EXCEPT !.at = a]
  BY <1>4 DEF g
<1>7. g \in Frames /\ g.code = "scheduler" /\ g.at = a
  <2>1. a \in Nat /\ a \in 1 .. Len(Program[h.code])
    BY <1>4, <1>5
  <2> QED
    BY <1>4, <1>6, <2>1, FrameAt
<1>8. Shape(Scheduler, stack[Scheduler])
  BY <1>1, Zenon DEF IInv, Threads
<1>9. g.code = stack[Scheduler][1].code
  BY <1>4, <1>7, Zenon
<1>10. Shape(Scheduler, s) /\ s # <<>> /\ s[1] = g
  BY <1>4, <1>7, <1>8, <1>9, ShapeJump DEF s
<1> QED
  BY <1>7, <1>10, Zenon DEF s, g

\* The scheduler chooses a runnable process, or ends its pass.
LEMMA ScanKeeps ==
  ASSUME IInv, scan
  PROVE  IInv'
<1>1. /\ At(Scheduler, "scan") /\ Scheduler \in Thread
      /\ UNCHANGED <<intr, ncli, intena, holder, proc, saved, state, panicked>>
  BY DEF scan, cpu, table, Thread
<1>2. PICK f \in Function, i \in Nat : Executing(Scheduler, f, i) /\ stack[Scheduler][1] \in Frames /\ Op(f, i) = "scan"
  BY <1>1, ExecutesOp, Zenon
<1>3. f = "scheduler" /\ i = 4
  BY <1>2, Zenon DEF Executing, Place
<1>4. /\ proc = Scheduler /\ stack[Scheduler] # <<>> /\ Shape(Scheduler, stack[Scheduler])
      /\ stack[Scheduler][1].code = "scheduler" /\ stack[Scheduler][1].at = 4
  BY <1>1, <1>2, <1>3, Zenon DEF Executing, IInv, Threads
<1>5. /\ DepthOf(stack[Scheduler]) = 1 
      /\ \A l \in Lock : Has(stack[Scheduler], l) <=> l = "ptable"
  BY <1>4 DEF DepthOf, Has, Depth, Off, OffTwice, Section, Lock
<1>6. ASSUME NEW s, stack' = [stack EXCEPT ![Scheduler] = s], Shape(Scheduler, s), s # <<>>,
             s[1].code = "scheduler", s[1].at \in {5, 8},
             s[1].at = 5 => cursor' \in Process /\ state[cursor'] = "RUNNABLE"
      PROVE  IInv'
  <2>1. DepthOf(s) = 1 /\ \A l \in Lock : Has(s, l) <=> l = "ptable"
    BY <1>6 DEF DepthOf, Has, Depth, Off, OffTwice, Section, Lock
  <2>2. Op("scheduler", 5) # "sched" /\ Op("scheduler", 8) # "sched"
    BY Code_scheduler DEF Op
  <2>3. PointOK(Scheduler, s[1])'
    BY <1>1, <1>6, <2>2 DEF PointOK, Op
  <2>4. StateType' /\ \A p \in Process \ {Scheduler} : state[p] = "ZOMBIE" => state'[p] = "ZOMBIE"
    BY <1>1 DEF IInv, TypeOK, StateType
  <2>5. s[1].code \notin Handler /\ s[1].code # "yield"
    BY <1>6 DEF Handler
  <2>6. DepthOf(s) = DepthOf(stack[Scheduler]) /\ \A l \in Lock : Has(s, l) <=> Has(stack[Scheduler], l)
    BY <1>5, <2>1, Zenon
  <2> QED
    BY <1>1, <1>4, <1>6, <2>3, <2>4, <2>5, <2>6, GoesOnKeeps, Zenon
<1>7. CASE stack' = [stack EXCEPT ![Scheduler] = After(Scheduler)] /\ cursor' \in Process /\ state[cursor'] = "RUNNABLE"
  <2>1. stack[Scheduler][1].at < Len(Program[stack[Scheduler][1].code])
    BY <1>4, Lengths
  <2>2. PICK s : s = After(Scheduler)
    BY Zenon
  <2>3. s # <<>> /\ s[1].code = "scheduler" /\ s[1].at = 4 + 1
    BY <1>1, <1>4, <2>1, <2>2, AfterNext, Zenon
  <2>4. ~(stack[Scheduler][1].code = "exit" /\ stack[Scheduler][1].at = 5) /\ s[1].at \in {5, 8}
    BY <1>4, <2>3
  <2>5. Shape(Scheduler, s)
    BY <1>1, <1>4, <2>2, <2>4, AfterShape, Zenon
  <2> QED
    BY <1>6, <1>7, <2>2, <2>3, <2>4, <2>5, Zenon
<1>8. CASE stack' = [stack EXCEPT ![Scheduler][1].at = @ + 4]
  <2>1. 8 \in 1 .. 9 /\ 8 \in {5, 8} /\ 8 # 5 /\ 4 + 4 = 8
    OBVIOUS
  <2>2. PICK s : /\ s = [stack[Scheduler] EXCEPT ![1] = [stack[Scheduler][1] EXCEPT !.at = 8]]
                 /\ Shape(Scheduler, s) /\ s # <<>> /\ s[1].code = "scheduler" /\ s[1].at = 8
    BY <1>1, <2>1, SchedulerJumps
  <2>3. stack' = [stack EXCEPT ![Scheduler] = s]
    BY <1>4, <1>8, <2>1, <2>2, Zenon
  <2>4. Shape(Scheduler, s) /\ s # <<>> /\ s[1].code = "scheduler" /\ s[1].at \in {5, 8} /\ s[1].at # 5
    BY <2>1, <2>2, Zenon
  <2> QED
    BY <1>6, <2>3, <2>4, Zenon
<1>9. \/ stack' = [stack EXCEPT ![Scheduler] = After(Scheduler)] /\ cursor' \in Process /\ state[cursor'] = "RUNNABLE"
      \/ stack' = [stack EXCEPT ![Scheduler][1].at = @ + 4]
  BY Zenon DEF scan, Advance
<1> QED
  BY <1>7, <1>8, <1>9, Zenon

\* A process that is switched to has ptable.lock, with one pushcli.
LEMMA ParkedPoint ==
  ASSUME NEW f, NEW i, f \in Function, Place(f, i), Op(f, i) = "resume" \/ (f = "forkret" /\ i = 1)
  PROVE  /\ Depth(f, i) = 1 /\ (\A l \in Lock : i \in Section(f, l) <=> l = "ptable")
         /\ f # "scheduler" /\ Op(f, i) # "sched" /\ (f \in Handler => Op(f, i) = "resume")
<1>1. <<f, i>> \in {<<"yield", 5>>, <<"sleep", 7>>, <<"exit", 5>>, <<"forkret", 1>>}
  BY DEF Place
<1>2. Depth(f, i) = 1 /\ (\A l \in Lock : i \in Section(f, l) <=> l = "ptable") /\ f # "scheduler"
  BY <1>1 DEF Depth, Off, OffTwice, Section, Lock
<1>3. Op("forkret", 1) = "unlock"
  BY Code_forkret DEF Op
<1>4. Op(f, i) # "sched" /\ (f \in Handler => Op(f, i) = "resume")
  BY <1>3 DEF Handler
<1> QED
  BY <1>2, <1>4

\* The scheduler switches to the process that it chose, which is parked.
LEMMA SwtchKeeps ==
  ASSUME IInv, swtch
  PROVE  IInv'
<1>1. /\ At(Scheduler, "swtch") /\ Scheduler \in Thread
      /\ proc' = cursor /\ state' = [state EXCEPT ![cursor] = "RUNNING"]
      /\ holder' = [holder EXCEPT !["ptable"] = cursor]
      /\ UNCHANGED <<intr, ncli, intena, saved, panicked>>
  BY DEF swtch, cpu, Thread
<1>2. PICK f \in Function, i \in Nat : Executing(Scheduler, f, i) /\ stack[Scheduler][1] \in Frames /\ Op(f, i) = "swtch"
  BY <1>1, ExecutesOp, Zenon
<1>3. f = "scheduler" /\ i = 7
  BY <1>2, Zenon DEF Executing, Place
<1>4. /\ proc = Scheduler /\ stack[Scheduler] # <<>>
      /\ stack[Scheduler][1].code = "scheduler" /\ stack[Scheduler][1].at = 7
  BY <1>2, <1>3, Zenon DEF Executing
<1>5. PICK q \in Process : q = cursor /\ state[q] = "RUNNABLE" /\ q \in Thread /\ q # Scheduler
  <2>1. 7 \in 5 .. 7
    OBVIOUS
  <2> QED
    BY <1>4, <2>1, ProcessThread, Zenon DEF IInv, Threads, PointOK
<1>6. PICK s : /\ s = [stack[Scheduler] EXCEPT ![1] = [stack[Scheduler][1] EXCEPT !.at = 4]]
               /\ Shape(Scheduler, s) /\ s # <<>> /\ s[1].code = "scheduler" /\ s[1].at = 4
  BY <1>1, SchedulerJumps
<1>7. stack' = [stack EXCEPT ![Scheduler] = s]
  <2>1. 7 - 3 = 4
    OBVIOUS
  <2> QED
    BY <1>4, <1>6, <2>1, Zenon DEF swtch
<1>8. stack'[Scheduler] = s /\ \A p \in Thread \ {Scheduler} : stack'[p] = stack[p]
  BY <1>1, <1>7 DEF IInv, TypeOK, StackType
<1>9. StackType'
  BY <1>6, <1>7, Zenon DEF IInv, TypeOK, StackType, Shape
<1>10. StateType' /\ \A p \in Process \ {q} : state'[p] = state[p]
  BY <1>1, <1>5 DEF IInv, TypeOK, StateType
<1>11. FlagTypes'
  BY <1>1, Zenon DEF IInv, TypeOK, FlagTypes
<1>12. LockType'
  BY <1>1, <1>5, Zenon DEF IInv, TypeOK, LockType
<1>13. \A t \in Thread : Shape(t, stack[t])'
  <2>1. ASSUME NEW t \in Thread \ {Scheduler}
        PROVE  Shape(t, stack[t])'
    BY <1>8, <2>1, Zenon DEF IInv, Threads, Shape, Bottom
  <2>2. Shape(Scheduler, stack[Scheduler])'
    BY <1>6, <1>8, Zenon DEF Shape, Bottom
  <2> QED
    BY <2>1, <2>2, Zenon
<1>14. /\ Parked(q) /\ stack[q][1].code # "exit"
  BY <1>4, <1>5 DEF IInv, Threads, ParkedOK, Parked
<1>15. PICK c, a : /\ c = stack[q][1].code /\ a = stack[q][1].at /\ stack[q] # <<>> /\ c # "exit"
                   /\ c \in Function /\ Place(c, a) /\ (Op(c, a) = "resume" \/ (c = "forkret" /\ a = 1))
  <2>1. Shape(q, stack[q]) /\ stack[q] # <<>>
    BY <1>5, <1>14, Zenon DEF IInv, Threads, Parked
  <2>2. stack[q][1].code \in Function /\ Place(stack[q][1].code, stack[q][1].at)
    BY <1>5, <2>1, TopFrame
  <2> QED
    BY <1>14, <2>1, <2>2, Zenon DEF Parked
<1>16. /\ Depth(c, a) = 1 /\ (\A l \in Lock : a \in Section(c, l) <=> l = "ptable")
       /\ c # "scheduler" /\ Op(c, a) # "sched" /\ (c \in Handler => Op(c, a) = "resume")
  BY <1>15, ParkedPoint, Zenon
<1>17. stack'[q] = stack[q]
  BY <1>5, <1>8, Zenon
<1>18. ParkedOK'
  <2>1. ASSUME NEW p \in Process \ {q}
        PROVE  Parked(p)'
    <3>1. Parked(p) /\ stack'[p] = stack[p] /\ state'[p] = state[p]
      BY <1>4, <1>8, <1>10, ProcessThread, Zenon DEF IInv, Threads, ParkedOK
    <3> QED
      BY <3>1, Zenon DEF Parked, Op
  <2> QED
    BY <1>1, <1>5, <1>6, <1>8, <2>1, Zenon DEF ParkedOK
<1>19. PointOK(proc, stack[proc][1])'
  BY <1>1, <1>5, <1>15, <1>16, <1>17, Zenon DEF PointOK, Op
<1>20. Threads'
  BY <1>13, <1>18, <1>19, Zenon DEF Threads
<1>21. /\ ncli = 1 /\ ~intr /\ holder["tickslock"] = NoThread
  <2>1. Depth("scheduler", 7) = 1 /\ 7 \notin Section("scheduler", "tickslock")
    BY DEF Depth, Off, OffTwice, Section
  <2>2. 1 > 0
    OBVIOUS
  <2> QED
    BY <1>2, <1>3, <2>1, <2>2, Zenon DEF Executing, Lock
<1>22. /\ DepthOf(stack'[q]) = 1 /\ \A l \in Lock : Has(stack'[q], l) <=> l = "ptable"
  BY <1>15, <1>16, <1>17, Zenon DEF DepthOf, Has
<1>23. Locks'
  <2>1. holder'["ptable"] = q /\ holder'["tickslock"] = NoThread
    BY <1>1, <1>5, <1>21 DEF IInv, TypeOK, LockType, Lock
  <2> QED
    BY <1>1, <1>5, <1>21, <1>22, <2>1, Zenon DEF Locks, Lock
<1>24. IntrOff' /\ HandlerOff'
  BY <1>1, <1>5, <1>15, <1>16, <1>17, <1>21, Zenon DEF IntrOff, HandlerOff, Op
<1>25. YieldSaved'
  BY <1>1, <1>8, ProcessThread, Zenon DEF IInv, YieldSaved
<1> QED
  BY <1>1, <1>9, <1>10, <1>11, <1>12, <1>20, <1>23, <1>24, <1>25, Zenon DEF IInv, TypeOK

\* sched finds ptable.lock held, no other pushcli, the process not running and
\* interrupts off, and hands the lock to the scheduler.
LEMMA SchedKeeps ==
  ASSUME IInv, NEW p \in Process, call_sched(p)
  PROVE  IInv'
<1>1. At(p, "sched") /\ p \in Thread /\ p # Scheduler /\ Scheduler \in Thread
  BY ProcessThread DEF call_sched, Thread
<1>2. PICK f \in Function, i \in Nat : Executing(p, f, i) /\ stack[p][1] \in Frames /\ Op(f, i) = "sched"
  BY <1>1, ExecutesOp, Zenon
<1>3. <<f, i>> \in {<<"yield", 4>>, <<"sleep", 6>>, <<"exit", 4>>}
  BY <1>2, Zenon DEF Executing, Place
<1>4. /\ proc = p /\ stack[p] # <<>> /\ stack[p][1].code = f /\ stack[p][1].at = i /\ Shape(p, stack[p])
      /\ PointOK(p, stack[p][1])
  BY <1>1, <1>2, Zenon DEF Executing, IInv, Threads
<1>5. state[p] # "RUNNING" /\ (f = "exit" => state[p] = "ZOMBIE")
  <2>1. f = "exit" => i = 4
    BY <1>3
  <2> QED
    BY <1>2, <1>4, <2>1, Zenon DEF PointOK
<1>6. Depth(f, i) = 1 /\ (\A l \in Lock : i \in Section(f, l) <=> l = "ptable") /\ "ptable" \in Lock /\ 1 > 0
  BY <1>3 DEF Depth, Off, OffTwice, Section, Lock
<1>7. /\ ncli = 1 /\ ~intr /\ holder["ptable"] = p /\ (\A l \in Lock : l # "ptable" => holder[l] = NoThread)
      /\ f = "yield" => ~intena
  <2>1. Op(f, i) # "resume" /\ Depth(f, i) > 0
    BY <1>2, <1>6
  <2> QED
    BY <1>2, <1>6, <2>1, Zenon DEF Executing, Handler
<1>8. /\ saved' = [saved EXCEPT ![p] = intena] /\ proc' = Scheduler
      /\ holder' = [holder EXCEPT !["ptable"] = Scheduler] /\ stack' = [stack EXCEPT ![p] = After(p)]
      /\ UNCHANGED <<intr, ncli, intena, cursor, state, panicked>>
  BY <1>1, <1>5, <1>7, NotAThread DEF call_sched, Advance, cpu, table
<1>9. PICK s : s = After(p)
  BY Zenon
<1>10. s # <<>> /\ s[1].code = f /\ s[1].at = i + 1
  <2>1. PICK m : m = Len(Program[f])
    BY Zenon
  <2>2. (f = "yield" => m = 7) /\ (f = "sleep" => m = 12) /\ (f = "exit" => m = 5)
    BY <2>1, Lengths, Zenon
  <2>3. i < m
    BY <1>3, <2>2
  <2>4. stack[p][1].at < Len(Program[stack[p][1].code])
    BY <1>4, <2>1, <2>3, Zenon
  <2> QED
    BY <1>1, <1>4, <1>9, <2>4, AfterNext, Zenon
<1>11. Shape(p, s)
  <2>1. ~(stack[p][1].code = "exit" /\ stack[p][1].at = 5)
    BY <1>3, <1>4
  <2> QED
    BY <1>1, <1>4, <1>9, <2>1, AfterShape, Zenon
<1>12. stack'[p] = s /\ \A q \in Thread \ {p} : stack'[q] = stack[q]
  BY <1>1, <1>8, <1>9, Zenon DEF IInv, TypeOK, StackType
<1>13. StackType'
  BY <1>8, <1>9, <1>11, Zenon DEF IInv, TypeOK, StackType, Shape
<1>14. FlagTypes' /\ saved'[p] = intena /\ \A q \in Process \ {p} : saved'[q] = saved[q]
  BY <1>8 DEF IInv, TypeOK, FlagTypes
<1>15. LockType' /\ StateType'
  BY <1>1, <1>8, Zenon DEF IInv, TypeOK, LockType, StateType
<1>16. \A t \in Thread : Shape(t, stack[t])'
  <2>1. ASSUME NEW t \in Thread \ {p}
        PROVE  Shape(t, stack[t])'
    BY <1>12, <2>1, Zenon DEF IInv, Threads, Shape, Bottom
  <2>2. Shape(p, stack[p])'
    BY <1>11, <1>12, Zenon DEF Shape, Bottom
  <2> QED
    BY <2>1, <2>2, Zenon
<1>17. Parked(p)'
  <2>1. Op(f, i + 1) = "resume"
    BY <1>3, Code_yield, Code_sleep, Code_exit DEF Op
  <2> QED
    BY <1>5, <1>8, <1>10, <1>12, <2>1, Zenon DEF Parked, Op
<1>18. ParkedOK'
  <2>1. ASSUME NEW q \in Process \ {p}
        PROVE  Parked(q)'
    <3>1. Parked(q) /\ stack'[q] = stack[q] /\ state'[q] = state[q]
      BY <1>4, <1>8, <1>12, ProcessThread, Zenon DEF IInv, Threads, ParkedOK
    <3> QED
      BY <3>1, Zenon DEF Parked, Op
  <2> QED
    BY <1>8, <1>17, <2>1, Zenon DEF ParkedOK
<1>19. PICK r : /\ stack'[Scheduler] = r /\ r # <<>> /\ r[1].code = "scheduler" /\ r[1].at = 4
  BY <1>1, <1>4, <1>12, Zenon DEF IInv, Threads, ParkedOK
<1>20. /\ Op("scheduler", 4) = "scan" /\ Depth("scheduler", 4) = 1 /\ 4 \notin 5 .. 7
       /\ \A l \in Lock : 4 \in Section("scheduler", l) <=> l = "ptable"
  BY Code_scheduler DEF Op, Depth, Off, OffTwice, Section, Lock
<1>21. PointOK(proc, stack[proc][1])'
  BY <1>8, <1>19, <1>20, Zenon DEF PointOK, Op
<1>22. Threads'
  BY <1>16, <1>18, <1>21, Zenon DEF Threads
<1>23. /\ DepthOf(stack'[Scheduler]) = 1 /\ \A l \in Lock : Has(stack'[Scheduler], l) <=> l = "ptable"
  BY <1>19, <1>20, Zenon DEF DepthOf, Has
<1>24. Locks'
  <2>1. holder'["ptable"] = Scheduler /\ \A l \in Lock : l # "ptable" => holder'[l] = NoThread
    BY <1>7, <1>8 DEF IInv, TypeOK, LockType, Lock
  <2> QED
    BY <1>7, <1>8, <1>23, <2>1, Zenon DEF Locks
<1>25. IntrOff' /\ HandlerOff'
  BY <1>7, <1>8, <1>19, Zenon DEF IntrOff, HandlerOff, Handler
<1>26. YieldSaved'
  <2>1. ASSUME NEW q \in Process, stack'[q] # <<>> /\ stack'[q][1].code = "yield" /\ stack'[q][1].at = 5
        PROVE  ~saved'[q]
    <3>1. CASE q = p
      BY <1>7, <1>10, <1>12, <1>14, <2>1, <3>1, Zenon
    <3>2. CASE q # p
      BY <1>12, <1>14, <2>1, <3>2, ProcessThread, Zenon DEF IInv, YieldSaved
    <3> QED
      BY <3>1, <3>2, Zenon
  <2> QED
    BY <2>1, Zenon DEF YieldSaved
<1> QED
  BY <1>8, <1>13, <1>14, <1>15, <1>22, <1>24, <1>25, <1>26, Zenon DEF IInv, TypeOK

\* User code runs.
LEMMA UnchangedKeeps ==
  ASSUME IInv, UNCHANGED <<intr, ncli, intena, holder, proc, cursor, stack, saved, state, panicked>>
  PROVE  IInv'
<1>1. TypeOK'
  BY Zenon DEF IInv, TypeOK, FlagTypes, StackType, LockType, StateType
<1>2. ParkedOK'
  BY Zenon DEF IInv, Threads, ParkedOK, Parked, Op
<1>3. \A t \in Thread : Shape(t, stack[t])'
  BY Zenon DEF IInv, Threads, Shape, Bottom
<1>4. stack'[proc'] # <<>> => PointOK(proc, stack[proc][1])'
  BY Zenon DEF IInv, Threads, PointOK, Op
<1>5. Threads'
  BY <1>2, <1>3, <1>4, Zenon DEF Threads
<1>6. Locks'
  BY Zenon DEF IInv, Locks
<1>7. IntrOff' /\ HandlerOff' /\ YieldSaved'
  BY Zenon DEF IInv, IntrOff, HandlerOff, YieldSaved, Op
<1> QED
  BY <1>1, <1>5, <1>6, <1>7, Zenon DEF IInv

\* A thread with one call.
LEMMA OneFrame ==
  ASSUME NEW f \in Frames
  PROVE  /\ <<f>> # <<>> /\ <<f>>[1] = f /\ <<f>> \in Seq(Frames)
         /\ \A t : Bottom(t, f) => Shape(t, <<f>>)
BY DEF Shape

\* In the first state the scheduler starts, and every process is about to
\* return from its first switch.
LEMMA InitEstablishes ==
  ASSUME Init
  PROVE  IInv
<1>1. Scheduler \in Thread /\ \A p \in Process : p \in Thread /\ p # Scheduler
  BY ProcessThread DEF Thread
<1>2. PICK g : g = Frame("scheduler", FALSE) /\ g \in Frames /\ g.code = "scheduler" /\ g.at = 1
  BY NewFrame, Zenon DEF Function
<1>3. PICK h : h = Frame("forkret", TRUE) /\ h \in Frames /\ h.code = "forkret" /\ h.at = 1
  BY NewFrame, Zenon DEF Function
<1>4. stack = [t \in Thread |-> IF t = Scheduler THEN <<g>> ELSE <<h>>]
  BY <1>2, <1>3, Zenon DEF Init
<1>5. stack[Scheduler] = <<g>> /\ \A p \in Process : stack[p] = <<h>>
  BY <1>1, <1>4
<1>6. Bottom(Scheduler, g) /\ \A p \in Process : Bottom(p, h)
  BY <1>1, <1>2, <1>3, Zenon DEF Bottom
<1>7. /\ <<g>> # <<>> /\ <<h>> # <<>> /\ <<g>>[1] = g /\ <<h>>[1] = h
      /\ <<g>> \in Seq(Frames) /\ <<h>> \in Seq(Frames)
      /\ Shape(Scheduler, <<g>>) /\ \A p \in Process : Shape(p, <<h>>)
  BY <1>2, <1>3, <1>6, OneFrame, Zenon
<1>8. TypeOK
  <2>1. FlagTypes /\ StateType
    BY Zenon DEF Init, FlagTypes, StateType
  <2>2. StackType
    BY <1>4, <1>7 DEF StackType
  <2>3. LockType
    BY <1>1 DEF Init, LockType
  <2> QED
    BY <2>1, <2>2, <2>3 DEF TypeOK
<1>9. /\ Op("scheduler", 1) # "sched" /\ Depth("scheduler", 1) = 0 /\ 1 \notin 5 .. 7 /\ ~(0 > 0)
      /\ \A l \in Lock : 1 \notin Section("scheduler", l)
  BY Code_scheduler DEF Op, Depth, Off, OffTwice, Section, Lock
<1>10. ParkedOK
  BY <1>3, <1>5, <1>7, Zenon DEF Init, ParkedOK, Parked
<1>11. \A t \in Thread : Shape(t, stack[t])
  BY <1>5, <1>7, Zenon DEF Thread
<1>12. Threads
  BY <1>2, <1>5, <1>7, <1>9, <1>10, <1>11, Zenon DEF Init, Threads, PointOK
<1>13. DepthOf(stack[Scheduler]) = 0 /\ \A l \in Lock : ~Has(stack[Scheduler], l)
  BY <1>2, <1>5, <1>7, <1>9, Zenon DEF DepthOf, Has
<1>14. Locks
  BY <1>13 DEF Init, Locks
<1>15. IntrOff /\ HandlerOff /\ YieldSaved
  BY <1>2, <1>3, <1>5, <1>7, Zenon DEF Init, IntrOff, HandlerOff, Handler, YieldSaved
<1> QED
  BY <1>8, <1>12, <1>14, <1>15 DEF IInv, Init

\* Every step keeps the invariant.
LEMMA NextKeeps ==
  ASSUME IInv, [Next]_vars
  PROVE  IInv'
<1>1. CASE timer
  BY <1>1, TimerKeeps
<1>2. CASE sti
  BY <1>2, StiKeeps
<1>3. CASE scan
  BY <1>3, ScanKeeps
<1>4. CASE swtch
  BY <1>4, SwtchKeeps
<1>5. ASSUME NEW t \in Thread, Step(t)
      PROVE  IInv'
  BY <1>5, PushcliKeeps, PopcliKeeps, XchgKeeps, UnlockKeeps, TickKeeps, WakeupKeeps, ExitIfKilledKeeps,
     YieldIfRunningKeeps, IretKeeps, Zenon DEF Step
<1>6. ASSUME NEW p \in Process, ProcStep(p)
      PROVE  IInv'
  BY <1>6, SchedKeeps, ResumeKeeps, SetStateKeeps, KillKeeps, ReadTicksKeeps, SysSleepKeeps, SysretKeeps, Zenon
  DEF ProcStep
<1>7. ASSUME NEW p \in Process, user(p)
      PROVE  IInv'
  BY <1>7, UnchangedKeeps DEF user, cpu, table
<1>8. ASSUME NEW p \in Process, call_sleep(p) \/ call_kill(p)
      PROVE  IInv'
  BY <1>8, SyscallKeeps, Zenon DEF call_sleep, call_kill
<1>9. CASE UNCHANGED vars
  BY <1>9, UnchangedKeeps DEF vars, cpu, table
<1> QED
  BY <1>1, <1>2, <1>3, <1>4, <1>5, <1>6, <1>7, <1>8, <1>9, Zenon DEF Next

\* The CPU always agrees with the annotation of the code, for any number of
\* processes, any width of ticks and any durations of sleep().
THEOREM Invariant == FairSpec => []IInv
BY InitEstablishes, NextKeeps, PTL DEF FairSpec

\* No thread acquires a spin lock it has, releases one it has not, calls popcli
\* without pushcli or with interrupts on, or enters sched with another lock
\* than ptable.lock, with interrupts on or RUNNING: the panics of spinlock.c and
\* proc.c do not happen.
THEOREM NoPanics == FairSpec => []NoPanic
<1>1. IInv => NoPanic
  BY DEF IInv, NoPanic
<1> QED
  BY <1>1, Invariant, PTL

\* Between acquire and release of a spin lock no other thread executes, for all
\* threads and locks: interrupts stay off until the outermost release.
THEOREM CriticalSections == FairSpec => []SectionsAtomic
<1>1. ASSUME IInv
      PROVE  SectionsAtomic
  <2> SUFFICES ASSUME NEW l \in Lock, holder[l] # NoThread
               PROVE  holder[l] = proc /\ ~intr /\ ncli > 0
    BY DEF SectionsAtomic
  <2>1. holder[l] = proc /\ Has(stack[proc], l) /\ proc \in Thread
    BY <1>1, Zenon DEF IInv, Locks, TypeOK, LockType
  <2>2. DepthOf(stack[proc]) # 0
    BY <1>1, <2>1, NothingHeld, Zenon
  <2>3. DepthOf(stack[proc]) \in {0, 1, 2}
    BY DEF DepthOf, Depth
  <2>4. ncli > 0 /\ DepthOf(stack[proc]) > 0
    BY <1>1, <2>2, <2>3 DEF IInv, Locks
  <2> QED
    BY <1>1, <2>1, <2>4, Zenon DEF IInv, IntrOff
<1> QED
  BY <1>1, Invariant, PTL

(* ------------------------------ the clock ------------------------------ *)

\* A stack of a process that has not read ticks in sys_sleep, and one of a
\* process in the loop of sys_sleep.
Fresh(s) ==
  \A k \in 1 .. Len(s) : s[k].code # "exit" /\ (s[k].code = "sys_sleep" => s[k].at <= 3)
InLoop(s) == \E k \in 1 .. Len(s) : s[k].code = "sys_sleep" /\ s[k].at = 4

ClockTypes ==
  /\ ticks \in 0 .. Wrap - 1
  /\ n \in [Process -> 0 .. Wrap - 1] /\ ticks0 \in [Process -> 0 .. Wrap - 1]
  /\ elapsed \in [Process -> 0 .. Wrap - 1]
  /\ result \in [Process -> {"none", "waiting", "0", "-1"}]
  /\ killed \in [Process -> BOOLEAN]

Calls ==
  \A p \in Process : /\ Fresh(stack[p]) => result[p] = "none" /\ elapsed[p] = 0
                     /\ InLoop(stack[p]) => result[p] = "waiting"

\* The history counts what the loop computes, up to its argument.
Counted ==
  \A p \in Process : result[p] = "waiting" =>
    elapsed[p] = n[p] \/ (elapsed[p] < n[p] /\ elapsed[p] = (ticks - ticks0[p]) % Wrap)

ClockInv == ClockTypes /\ Calls /\ Counted /\ SleepsLongEnough

\* s tells no more of sys_sleep than r.
Covers(r, s) == (Fresh(s) => Fresh(r)) /\ (InLoop(s) => InLoop(r))

\* A frame at its first instruction says nothing new about sys_sleep.
LEMMA CoversPush ==
  ASSUME NEW s \in Seq(Frames), NEW f \in Frames, f.at = 1
  PROVE  Covers(s, <<f>> \o s)
<1>1. PICK r : r = <<f>> \o s
  BY Zenon
<1>2. /\ Len(r) = Len(s) + 1 /\ Len(s) \in Nat /\ r[1] = f
      /\ \A k \in 1 .. Len(s) : r[k + 1] = s[k] /\ k + 1 \in 1 .. Len(r)
  BY <1>1, PushFrame
<1>3. Fresh(r) => Fresh(s)
  BY <1>2 DEF Fresh
<1>4. InLoop(r) => InLoop(s)
  <2> SUFFICES ASSUME NEW k \in 1 .. Len(r), r[k].code = "sys_sleep", r[k].at = 4
               PROVE  \E j \in 1 .. Len(s) : s[j].code = "sys_sleep" /\ s[j].at = 4
    BY DEF InLoop
  <2>1. k # 1
    BY <1>2
  <2>2. k - 1 \in 1 .. Len(s) /\ r[k] = s[k - 1]
    BY <1>2, <2>1
  <2> QED
    BY <2>2
<1> QED
  BY <1>1, <1>3, <1>4, Zenon DEF Covers

\* The instructions of sys_sleep that use the clock, and the return.
Clocked == {"ticks0", "while", "sysret"}

\* Where sys_sleep uses the clock and returns.
LEMMA ClockedPlaces ==
  ASSUME NEW c, NEW a, Op(c, a) \notin Clocked
  PROVE  ~(c = "sys_sleep" /\ a \in {3, 4, 7})
<1>1. Op("sys_sleep", 3) = "ticks0" /\ Op("sys_sleep", 4) = "while" /\ Op("sys_sleep", 7) = "sysret"
  BY Code_sys_sleep, SMTT(20) DEF Op
<1> QED
  BY <1>1, Zenon DEF Clocked

\* A process does not execute the scheduler's code.
LEMMA NotScheduler ==
  ASSUME NEW t, NEW s, Shape(t, s), s # <<>>, t # Scheduler
  PROVE  s[1].code # "scheduler"
<1>1. 1 \in 1 .. Len(s)
  BY EmptyStack DEF Shape
<1>2. IF 1 = Len(s) THEN Bottom(t, s[1]) ELSE Fits(s[1], s[1 + 1])
  BY <1>1, Zenon DEF Shape
<1> QED
  BY <1>2, Zenon DEF Bottom, Fits

\* Neither does the next instruction of any code but sys_sleep's reading of ticks.
LEMMA CoversAfter ==
  ASSUME NEW t \in Process, t \in Thread, t # Scheduler, Shape(t, stack[t]), stack[t] # <<>>,
         ~(stack[t][1].code = "exit" /\ stack[t][1].at = 5),
         Op(stack[t][1].code, stack[t][1].at) \notin Clocked
  PROVE  Covers(stack[t], After(t))
<1> DEFINE s == stack[t]
           f == s[1]
           r == After(t)
<1>1. /\ f \in Frames /\ Top(t) = f /\ f.code \in Function /\ f.at \in Nat
      /\ f.at \in 1 .. Len(Program[f.code]) /\ Len(Program[f.code]) \in Nat
  BY TopFrame
<1>2. /\ s \in Seq(Frames) /\ Tail(s) \in Seq(Frames) /\ Len(Tail(s)) = Len(s) - 1 /\ Len(s) \in Nat \ {0}
      /\ \A k \in 1 .. Len(s) - 1 : Tail(s)[k] = s[k + 1]
  <2>1. s \in Seq(Frames)
    BY Zenon DEF Shape
  <2> QED
    BY <2>1, PopFrame, Zenon
<1>3. ~(f.code = "sys_sleep" /\ f.at \in {3, 4, 7})
  BY ClockedPlaces, Zenon
<1> HIDE DEF f
<1>4. CASE f.at < Len(Program[f.code])
  <2> DEFINE g == [f EXCEPT !.at = @ + 1]
  <2>1. r = <<g>> \o Tail(s)
    BY <1>1, <1>4 DEF After
  <2>2. g \in Frames /\ g.code = f.code /\ g.at = f.at + 1
    BY <1>1, <1>4, NextFrame, Zenon
  <2> HIDE DEF g, r, s
  <2>3. /\ Len(r) = Len(s) /\ r[1] = g /\ \A k \in 2 .. Len(s) : r[k] = s[k]
    <3>1. /\ Len(r) = Len(s) /\ r[1] = g /\ \A k \in 1 .. Len(Tail(s)) : r[k + 1] = Tail(s)[k]
      BY <1>2, <2>1, <2>2, PushFrame
    <3>2. ASSUME NEW k \in 2 .. Len(s)
          PROVE  r[k] = s[k]
      <4>1. k - 1 \in 1 .. Len(Tail(s)) /\ k - 1 \in 1 .. Len(s) - 1 /\ k - 1 + 1 = k
        BY <1>2
      <4>2. r[k - 1 + 1] = Tail(s)[k - 1] /\ Tail(s)[k - 1] = s[k - 1 + 1]
        BY <1>2, <3>1, <4>1, Zenon
      <4> QED
        BY <4>1, <4>2
    <3> QED
      BY <3>1, <3>2
  <2>4. Fresh(r) => Fresh(s)
    <3> SUFFICES ASSUME Fresh(r), NEW k \in 1 .. Len(s)
                 PROVE  s[k].code # "exit" /\ (s[k].code = "sys_sleep" => s[k].at <= 3)
      BY DEF Fresh
    <3>1. CASE k = 1
      BY <1>1, <1>2, <2>2, <2>3, <3>1 DEF Fresh, f
    <3>2. CASE k # 1
      BY <1>2, <2>3, <3>2 DEF Fresh
    <3> QED
      BY <3>1, <3>2
  <2>5. InLoop(r) => InLoop(s)
    <3> SUFFICES ASSUME NEW k \in 1 .. Len(r), r[k].code = "sys_sleep", r[k].at = 4
                 PROVE  InLoop(s)
      BY DEF InLoop
    <3>1. k # 1
      BY <1>1, <1>3, <2>2, <2>3
    <3>2. k \in 1 .. Len(s) /\ r[k] = s[k]
      BY <1>2, <2>3, <3>1
    <3> QED
      BY <3>2 DEF InLoop
  <2> QED
    BY <2>4, <2>5, Zenon DEF Covers, r, s
<1>5. CASE f.at = Len(Program[f.code])
  <2>1. f.code # "scheduler"
    BY NotScheduler, Zenon DEF f
  <2>2. r = Tail(s)
    BY <1>1, <1>5, <2>1 DEF After
  <2>3. f.code # "exit" /\ f.code # "sys_sleep"
    BY <1>3, <1>5, Lengths DEF f
  <2> HIDE DEF r, s
  <2>4. Fresh(r) => Fresh(s)
    <3> SUFFICES ASSUME Fresh(r), NEW k \in 1 .. Len(s)
                 PROVE  s[k].code # "exit" /\ (s[k].code = "sys_sleep" => s[k].at <= 3)
      BY DEF Fresh
    <3>1. CASE k = 1
      BY <2>3, <3>1 DEF f
    <3>2. CASE k # 1
      <4>1. k - 1 \in 1 .. Len(s) - 1 /\ k - 1 \in 1 .. Len(r) /\ k - 1 + 1 = k
        BY <1>2, <2>2, <3>2
      <4>2. r[k - 1] = s[k]
        BY <1>2, <2>2, <4>1, Zenon
      <4> QED
        BY <4>1, <4>2, Zenon DEF Fresh
    <3> QED
      BY <3>1, <3>2
  <2>5. InLoop(r) => InLoop(s)
    <3> SUFFICES ASSUME NEW k \in 1 .. Len(r), r[k].code = "sys_sleep", r[k].at = 4
                 PROVE  InLoop(s)
      BY DEF InLoop
    <3>1. k + 1 \in 1 .. Len(s) /\ r[k] = s[k + 1]
      BY <1>2, <2>2
    <3> QED
      BY <3>1, Zenon DEF InLoop
  <2> QED
    BY <2>4, <2>5, Zenon DEF Covers, r, s
<1> QED
  BY <1>1, <1>4, <1>5

\* One more tick: the unsigned difference grows by one, also across the wrap.
LEMMA TickModulo ==
  ASSUME NEW a \in 0 .. Wrap - 1, NEW b \in 0 .. Wrap - 1, NEW k \in 0 .. Wrap - 1, (a - b) % Wrap < k
  PROVE  LET e == (a - b) % Wrap
         IN  e + 1 = k \/ (e + 1 < k /\ e + 1 = (((a + 1) % Wrap) - b) % Wrap)
<1> DEFINE c == (a + 1) % Wrap
           e == (a - b) % Wrap
<1>1. Wrap \in Nat \ {0}
  BY WrapAssumption
<1>2. /\ c \in 0 .. Wrap - 1 /\ (a + 1 < Wrap => c = a + 1) /\ (a + 1 = Wrap => c = 0)
  BY <1>1
<1>3. e \in 0 .. Wrap - 1 /\ (a >= b => e = a - b) /\ (a < b => e = a - b + Wrap)
  BY <1>1
<1> HIDE DEF c
<1>4. (c >= b => (c - b) % Wrap = c - b) /\ (c < b => (c - b) % Wrap = c - b + Wrap)
  BY <1>1, <1>2
<1> HIDE DEF e
<1>5. e + 1 = k \/ (e + 1 < k /\ e + 1 = (c - b) % Wrap)
  <2>1. e < k
    BY DEF e
  <2> QED
    BY <1>1, <1>2, <1>3, <1>4, <2>1
<1> QED
  BY <1>5 DEF c, e

\* Where the clock and the locals of sys_sleep are left alone.
LEMMA ClockFrame ==
  ASSUME ClockInv, UNCHANGED <<ticks, ticks0, n, result, elapsed>>,
         killed' \in [Process -> BOOLEAN], \A p \in Process : killed[p] => killed'[p]
  PROVE  ClockTypes' /\ Counted' /\ SleepsLongEnough'
<1>1. ClockTypes' /\ Counted'
  BY Zenon DEF ClockInv, ClockTypes, Counted
<1>2. SleepsLongEnough'
  BY Zenon DEF ClockInv, SleepsLongEnough
<1> QED
  BY <1>1, <1>2, Zenon

\* A stack that tells no more of sys_sleep.
LEMMA CallsKeep ==
  ASSUME ClockInv, NEW t \in Thread, NEW s, StackType, stack' = [stack EXCEPT ![t] = s],
         t \in Process => Covers(stack[t], s), UNCHANGED <<result, elapsed>>
  PROVE  Calls'
<1>1. ASSUME NEW p \in Process
      PROVE  Covers(stack[p], stack'[p])
  <2>1. stack'[p] = IF p = t THEN s ELSE stack[p]
    BY ProcessThread DEF StackType
  <2> QED
    BY <2>1, Zenon DEF Covers
<1> QED
  BY <1>1, Zenon DEF ClockInv, Calls, Covers

\* The running thread goes on, and does not look at the clock.
LEMMA ClockAdvance ==
  ASSUME IInv, ClockInv, NEW t \in Thread, NEW c, At(t, c), c \notin Clocked,
         stack' = [stack EXCEPT ![t] = After(t)], UNCHANGED <<ticks, ticks0, n, result, elapsed>>,
         killed' \in [Process -> BOOLEAN], \A p \in Process : killed[p] => killed'[p]
  PROVE  ClockInv'
<1>1. PICK f \in Function, i \in Nat : Executing(t, f, i) /\ stack[t][1] \in Frames /\ Op(f, i) = c
  BY ExecutesOp, Zenon
<1>2. t \in Process => Covers(stack[t], After(t))
  <2> SUFFICES ASSUME t \in Process
               PROVE  Covers(stack[t], After(t))
    BY Zenon
  <2>1. Shape(t, stack[t]) /\ stack[t] # <<>> /\ PointOK(t, stack[t][1]) /\ stack[t][1].code = f /\ stack[t][1].at = i
    BY <1>1, Zenon DEF Executing, IInv, Threads
  <2>2. ~(stack[t][1].code = "exit" /\ stack[t][1].at = 5) /\ Op(stack[t][1].code, stack[t][1].at) \notin Clocked
    BY <1>1, <2>1, Zenon DEF PointOK
  <2> QED
    BY <2>1, <2>2, CoversAfter, ProcessThread, Zenon
<1>3. Calls'
  BY <1>2, CallsKeep, Zenon DEF IInv, TypeOK
<1> QED
  BY <1>3, ClockFrame, Zenon DEF ClockInv

\* Exit leaves the locals of the call as they are.
LEMMA ExitStack ==
  ~Fresh(<<Frame("exit", FALSE)>>) /\ ~InLoop(<<Frame("exit", FALSE)>>)
<1>1. PICK s : s = <<Frame("exit", FALSE)>>
  BY Zenon
<1>2. ~Fresh(s) /\ ~InLoop(s)
  BY <1>1 DEF Fresh, InLoop, Frame
<1> QED
  BY <1>1, <1>2, Zenon

\* exit forgets the calls of the process.
LEMMA ClockExit ==
  ASSUME IInv, ClockInv, NEW t \in Thread, Exit(t), UNCHANGED <<ticks, ticks0, n, result, elapsed, killed>>
  PROVE  ClockInv'
<1>1. Calls'
  BY ExitStack, CallsKeep, Zenon DEF IInv, TypeOK, Exit, Covers
<1> QED
  BY <1>1, ClockFrame, Zenon DEF ClockInv, ClockTypes

\* A call or an interrupt puts a frame on the stack.
LEMMA ClockCall ==
  ASSUME IInv, NEW t \in Thread, NEW c \in Function, NEW u \in BOOLEAN
  PROVE  Covers(stack[t], <<Frame(c, u)>> \o stack[t])
<1>1. PICK f : f = Frame(c, u)
  BY Zenon
<1>2. f \in Frames /\ f.at = 1
  BY <1>1, NewFrame, Zenon
<1>3. stack[t] \in Seq(Frames)
  BY DEF IInv, TypeOK, StackType
<1> QED
  BY <1>1, <1>2, <1>3, CoversPush, Zenon

\* What an instruction does that has nothing to do with the clock.
NoClock(t, c) ==
  /\ At(t, c) /\ c \notin Clocked /\ stack' = [stack EXCEPT ![t] = After(t)]
  /\ UNCHANGED <<ticks, ticks0, n, result, elapsed, killed>>

\* The empty stack below another.
LEMMA NoFrame == ASSUME NEW F, NEW r \in Seq(F) PROVE <<>> \o r = r
OBVIOUS

\* Such an instruction keeps what is known of the sleepers.
LEMMA NoClockKeeps ==
  ASSUME IInv, ClockInv, NEW t \in Thread, NEW c, NoClock(t, c)
  PROVE  ClockInv'
<1>1. killed' \in [Process -> BOOLEAN] /\ \A p \in Process : killed[p] => killed'[p]
  BY Zenon DEF NoClock, ClockInv, ClockTypes
<1> QED
  BY <1>1, ClockAdvance, Zenon DEF NoClock

\* All instructions of Step but tick are such.
LEMMA StepClock ==
  ASSUME IInv, ~panicked', ClockInv, NEW t \in Thread, Step(t), ~tick(t)
  PROVE  ClockInv'
<1> USE DEF NoClock, Clocked, Advance, table, clock
<1>1. ASSUME pushcli(t) PROVE NoClock(t, "pushcli")
  BY <1>1 DEF pushcli
<1>2. ASSUME popcli(t) PROVE NoClock(t, "popcli")
  BY <1>2 DEF popcli, panic
<1>3. ASSUME xchg(t) PROVE NoClock(t, "xchg")
  BY <1>3 DEF xchg, panic
<1>4. ASSUME unlock(t) PROVE NoClock(t, "unlock")
  BY <1>4 DEF unlock, panic
<1>5. ASSUME call_wakeup1(t) PROVE NoClock(t, "wakeup1")
  BY <1>5 DEF call_wakeup1
<1>6. ASSUME iret(t) PROVE NoClock(t, "iret")
  BY <1>6 DEF iret
<1>7. CASE exit_if_killed(t)
  <2>1. CASE Exit(t)
    BY <1>7, <2>1, ClockExit DEF exit_if_killed
  <2>2. CASE Advance(t)
    <3>1. NoClock(t, "exit_if_killed")
      BY <1>7, <2>2 DEF exit_if_killed
    <3> QED
      BY <3>1, NoClockKeeps, Zenon
  <2> QED
    BY <1>7, <2>1, <2>2, Zenon DEF exit_if_killed
<1> HIDE DEF NoClock, Clocked, Advance, table, clock
<1>8. CASE yield_if_running(t)
  <2>1. /\ At(t, "yield_if_running") /\ UNCHANGED <<ticks, ticks0, n, result, elapsed, killed>>
    BY <1>8 DEF yield_if_running, table, clock
  <2>2. PICK r : r = After(t)
    BY Zenon
  <2>3. PICK f \in Function, i \in Nat : Executing(t, f, i) /\ stack[t][1] \in Frames /\ Op(f, i) = "yield_if_running"
    BY <2>1, ExecutesOp, Zenon
  <2>4. /\ Shape(t, stack[t]) /\ stack[t] # <<>> /\ stack[t][1].code = f /\ stack[t][1].at = i
        /\ f = "timer" /\ i = 12
    BY <2>3, Zenon DEF Executing, Place, IInv, Threads
  <2>5. ~(stack[t][1].code = "exit" /\ stack[t][1].at = 5) /\ Op(f, i) \notin Clocked
    BY <2>3, <2>4 DEF Clocked
  <2>6. r \in Seq(Frames)
    BY <2>2, <2>4, <2>5, AfterShape, Zenon DEF Shape
  <2>7. t \in Process => Covers(stack[t], r)
    BY <2>2, <2>4, <2>5, CoversAfter, ProcessThread, Zenon
  <2>8. PICK g : g = Frame("yield", FALSE) /\ g \in Frames /\ g.at = 1
    BY NewFrame, Zenon DEF Function
  <2>9. Covers(r, <<g>> \o r) /\ <<>> \o r = r
    BY <2>6, <2>8, CoversPush, NoFrame, Zenon
  <2>10. stack' = [stack EXCEPT ![t] = <<g>> \o r] \/ stack' = [stack EXCEPT ![t] = r]
    BY <1>8, <2>2, <2>8, <2>9, Zenon DEF yield_if_running
  <2>11. t \in Process => Covers(stack[t], <<g>> \o r)
    BY <2>7, <2>9, Zenon DEF Covers
  <2>12. Calls'
    BY <2>1, <2>7, <2>10, <2>11, CallsKeep, Zenon DEF IInv, TypeOK
  <2> QED
    BY <2>1, <2>12, ClockFrame, Zenon DEF ClockInv, ClockTypes
<1> QED
  BY <1>1, <1>2, <1>3, <1>4, <1>5, <1>6, <1>7, <1>8, NoClockKeeps, Zenon DEF Step

\* A tick counts for those who wait.
LEMMA TickClock ==
  ASSUME IInv, ClockInv, NEW t \in Thread, tick(t)
  PROVE  ClockInv'
<1>1. PICK f \in Function, i \in Nat : Executing(t, f, i) /\ stack[t][1] \in Frames /\ Op(f, i) = "tick"
  BY ExecutesOp, Zenon DEF tick
<1>2. t \in Process => Covers(stack[t], After(t))
  <2> SUFFICES ASSUME t \in Process
               PROVE  Covers(stack[t], After(t))
    BY Zenon
  <2>1. /\ Shape(t, stack[t]) /\ stack[t] # <<>> /\ stack[t][1].code = f /\ stack[t][1].at = i
        /\ f = "timer" /\ i = 3
    BY <1>1, Zenon DEF Executing, Place, IInv, Threads
  <2>2. ~(stack[t][1].code = "exit" /\ stack[t][1].at = 5) /\ Op(f, i) \notin Clocked
    BY <1>1, <2>1 DEF Clocked
  <2> QED
    BY <2>1, <2>2, CoversAfter, ProcessThread, Zenon
<1>3. /\ ticks' = (ticks + 1) % Wrap
      /\ elapsed' = [p \in Process |->
           IF result[p] = "waiting" /\ elapsed[p] < n[p] THEN elapsed[p] + 1 ELSE elapsed[p]]
      /\ stack' = [stack EXCEPT ![t] = After(t)] /\ UNCHANGED <<ticks0, n, result, killed>>
  BY DEF tick, Advance, table
<1>4. \A p \in Process : stack'[p] = IF p = t THEN After(t) ELSE stack[p]
  BY <1>3, ProcessThread DEF IInv, TypeOK, StackType
<1>5. \A p \in Process : result[p] # "waiting" => elapsed'[p] = elapsed[p]
  BY <1>3
<1>6. Calls'
  <2>1. ASSUME NEW p \in Process
        PROVE  Covers(stack[p], stack'[p])
    BY <1>2, <1>4, Zenon DEF Covers
  <2>2. ASSUME NEW p \in Process
        PROVE  /\ Fresh(stack'[p]) => result'[p] = "none" /\ elapsed'[p] = 0
               /\ InLoop(stack'[p]) => result'[p] = "waiting"
    <3>1. Fresh(stack'[p]) => result[p] = "none" /\ elapsed[p] = 0
      BY <2>1, Zenon DEF Covers, ClockInv, Calls
    <3>2. InLoop(stack'[p]) => result[p] = "waiting"
      BY <2>1, Zenon DEF Covers, ClockInv, Calls
    <3>3. result'[p] = result[p] /\ "none" # "waiting"
      BY <1>3
    <3> QED
      BY <1>5, <3>1, <3>2, <3>3, Zenon
  <2> QED
    BY <2>2, Zenon DEF Calls
<1>7. ClockTypes'
  <2>1. ticks' \in 0 .. Wrap - 1
    BY <1>3, WrapAssumption DEF ClockInv, ClockTypes
  <2>2. elapsed' \in [Process -> 0 .. Wrap - 1]
    BY <1>3, WrapAssumption DEF ClockInv, ClockTypes
  <2> QED
    BY <1>3, <2>1, <2>2, Zenon DEF ClockInv, ClockTypes
<1>8. Counted'
  <2> SUFFICES ASSUME NEW p \in Process, result[p] = "waiting"
               PROVE  elapsed'[p] = n[p] \/ (elapsed'[p] < n[p] /\ elapsed'[p] = (ticks' - ticks0[p]) % Wrap)
    BY <1>3 DEF Counted
  <2>1. PICK a, b, e, k : a = ticks /\ b = ticks0[p] /\ e = elapsed[p] /\ k = n[p]
    BY Zenon
  <2>2. /\ a \in 0 .. Wrap - 1 /\ b \in 0 .. Wrap - 1 /\ e \in 0 .. Wrap - 1 /\ k \in 0 .. Wrap - 1
        /\ e = k \/ (e < k /\ e = (a - b) % Wrap)
    BY <2>1 DEF ClockInv, ClockTypes, Counted
  <2>3. elapsed'[p] = IF e < k THEN e + 1 ELSE e
    BY <1>3, <2>1
  <2>4. CASE e = k
    BY <2>1, <2>2, <2>3, <2>4
  <2>5. CASE e < k /\ e = (a - b) % Wrap
    <3>1. e + 1 = k \/ (e + 1 < k /\ e + 1 = (((a + 1) % Wrap) - b) % Wrap)
      BY <2>2, <2>5, TickModulo
    <3> QED
      BY <1>3, <2>1, <2>2, <2>3, <2>5, <3>1
  <2> QED
    BY <2>2, <2>4, <2>5
<1>9. SleepsLongEnough'
  <2> SUFFICES ASSUME NEW p \in Process
               PROVE  (result[p] = "0" => elapsed'[p] >= n[p]) /\ (result[p] = "-1" => killed[p])
    BY <1>3, Zenon DEF SleepsLongEnough
  <2>1. "0" # "waiting"
    OBVIOUS
  <2> QED
    BY <1>5, <2>1, Zenon DEF ClockInv, SleepsLongEnough
<1> QED
  BY <1>6, <1>7, <1>8, <1>9, Zenon DEF ClockInv

\* The scheduler has no part in sys_sleep.
LEMMA SchedulerClock ==
  ASSUME IInv, ClockInv, sti \/ scan \/ swtch
  PROVE  ClockInv'
<1>1. UNCHANGED <<ticks, ticks0, n, result, elapsed, killed>>
  BY DEF sti, scan, swtch, table, clock
<1>2. \A p \in Process : stack'[p] = stack[p]
  BY ProcessThread DEF IInv, TypeOK, StackType, sti, scan, swtch, Advance
<1>3. Calls'
  BY <1>1, <1>2, Zenon DEF ClockInv, Calls
<1> QED
  BY <1>1, <1>3, ClockFrame, Zenon DEF ClockInv, ClockTypes

\* The interrupt itself only puts the handler on the stack.
LEMMA TimerClock ==
  ASSUME IInv, ClockInv, timer
  PROVE  ClockInv'
<1>1. PICK t \in Thread : t = proc
  BY Zenon DEF IInv, TypeOK, LockType
<1>2. PICK u \in BOOLEAN : u = InUserMode(t)
  BY Zenon DEF InUserMode
<1>3. PICK s : s = <<Frame("timer", u)>> \o stack[t]
  BY Zenon
<1>4. Covers(stack[t], s)
  BY <1>3, ClockCall, Zenon DEF Function
<1>5. stack' = [stack EXCEPT ![t] = s] /\ UNCHANGED <<ticks, ticks0, n, result, elapsed, killed>>
  BY <1>1, <1>2, <1>3, Zenon DEF timer, table, clock
<1>6. Calls'
  BY <1>4, <1>5, CallsKeep, Zenon DEF IInv, TypeOK
<1> QED
  BY <1>5, <1>6, ClockFrame, Zenon DEF ClockInv, ClockTypes

\* The steps of a process that leave the clock alone.
LEMMA ProcClock ==
  ASSUME IInv, ~panicked', ClockInv, NEW p \in Process, call_sched(p) \/ resume(p) \/ set_state(p)
  PROVE  ClockInv'
<1> USE DEF NoClock, Clocked, Advance, table, clock
<1>1. ASSUME call_sched(p) PROVE NoClock(p, "sched")
  BY <1>1 DEF call_sched, panic
<1>2. ASSUME resume(p) PROVE NoClock(p, "resume")
  BY <1>2 DEF resume
<1>3. ASSUME set_state(p)
      PROVE  \E c : NoClock(p, c)
  <2>1. PICK c \in {"runnable", "sleep", "zombie", "clearchan"} : At(p, c)
    BY <1>3, Zenon DEF set_state
  <2>2. NoClock(p, c)
    BY <1>3, <2>1 DEF set_state
  <2> QED
    BY <2>2
<1> HIDE DEF NoClock, Clocked, Advance, table, clock
<1> QED
  BY <1>1, <1>2, <1>3, NoClockKeeps, ProcessThread, Zenon

\* kill sets a flag that only makes sleep() return earlier.
LEMMA KillClock ==
  ASSUME IInv, ClockInv, NEW p \in Process, NEW q \in Process, kill(p, q)
  PROVE  ClockInv'
<1>1. /\ At(p, "kill") /\ stack' = [stack EXCEPT ![p] = After(p)] /\ UNCHANGED <<ticks, ticks0, n, result, elapsed>>
      /\ "kill" \notin Clocked
  BY DEF kill, Advance, clock, Clocked
<1>2. killed' \in [Process -> BOOLEAN] /\ \A r \in Process : killed[r] => killed'[r]
  BY DEF kill, ClockInv, ClockTypes
<1> QED
  BY <1>1, <1>2, ClockAdvance, ProcessThread, Zenon

\* sys_sleep is at the bottom of the stack, alone when it runs.
LEMMA SysSleepAlone ==
  ASSUME IInv, NEW p \in Process, NEW c \in {"ticks0", "while"}, At(p, c)
  PROVE  /\ Len(stack[p]) = 1 /\ stack[p][1].code = "sys_sleep" /\ stack[p][1].at = IF c = "while" THEN 4 ELSE 3
         /\ stack[p] # <<>> /\ Shape(p, stack[p])
<1>1. PICK f \in Function, i \in Nat : Executing(p, f, i) /\ stack[p][1] \in Frames /\ Op(f, i) = c
  BY ExecutesOp, ProcessThread, Zenon
<1>2. f = "sys_sleep" /\ i = IF c = "while" THEN 4 ELSE 3
  BY <1>1 DEF Executing, Place
<1>3. PICK s : s = stack[p]
  BY Zenon
<1>4. Shape(p, s) /\ s # <<>> /\ s[1].code = "sys_sleep"
  BY <1>1, <1>2, <1>3, ProcessThread, Zenon DEF Executing, IInv, Threads
<1>5. 1 \in 1 .. Len(s)
  BY <1>4, EmptyStack DEF Shape
<1>6. IF 1 = Len(s) THEN Bottom(p, s[1]) ELSE Fits(s[1], s[1 + 1])
  BY <1>4, <1>5, Zenon DEF Shape
<1>7. 1 = Len(s)
  BY <1>4, <1>6, Zenon DEF Fits
<1> QED
  BY <1>1, <1>2, <1>3, <1>4, <1>7, Zenon DEF Executing

\* The stack of a call without callers.
LEMMA AloneNext ==
  ASSUME NEW F, NEW s \in Seq(F), NEW f \in F, Len(s) = 1
  PROVE  Len(<<f>> \o Tail(s)) = 1
OBVIOUS

\* The process goes on in sys_sleep, alone.
LEMMA SysSleepNext ==
  ASSUME IInv, NEW p \in Process, NEW c \in {"ticks0", "while"}, At(p, c)
  PROVE  ~Fresh(After(p)) /\ (c = "while" => ~InLoop(After(p)))
<1>1. /\ Len(stack[p]) = 1 /\ stack[p][1].code = "sys_sleep" /\ stack[p][1].at = IF c = "while" THEN 4 ELSE 3
      /\ stack[p] # <<>> /\ Shape(p, stack[p])
  BY SysSleepAlone
<1>2. PICK s : s = After(p)
  BY Zenon
<1>3. stack[p][1].at < Len(Program[stack[p][1].code])
  BY <1>1, Lengths
<1>4. s # <<>> /\ s[1].code = "sys_sleep" /\ s[1].at = stack[p][1].at + 1
  BY <1>1, <1>2, <1>3, AfterNext, ProcessThread, Zenon
<1>5. PICK g \in Frames : s = <<g>> \o Tail(stack[p])
  BY <1>1, <1>2, <1>3, AfterNext, ProcessThread, Zenon
<1>6. Len(s) = 1
  BY <1>1, <1>5, AloneNext, Zenon DEF Shape
<1>7. s[1].at = IF c = "while" THEN 5 ELSE 4
  BY <1>1, <1>4
<1> QED
  BY <1>2, <1>4, <1>6, <1>7 DEF Fresh, InLoop

\* sys_sleep starts to wait when it reads ticks.
LEMMA ReadTicksClock ==
  ASSUME IInv, ClockInv, NEW p \in Process, read_ticks(p)
  PROVE  ClockInv'
<1>1. /\ At(p, "ticks0") /\ ticks0' = [ticks0 EXCEPT ![p] = ticks] /\ result' = [result EXCEPT ![p] = "waiting"]
      /\ stack' = [stack EXCEPT ![p] = After(p)] /\ UNCHANGED <<ticks, n, elapsed, killed>>
  BY DEF read_ticks, Advance, table
<1>2. ~Fresh(After(p))
  BY <1>1, SysSleepNext
<1>3. elapsed[p] = 0
  <2>1. Len(stack[p]) = 1 /\ stack[p][1].code = "sys_sleep" /\ stack[p][1].at = 3
    BY <1>1, SysSleepAlone
  <2>2. Fresh(stack[p])
    BY <2>1 DEF Fresh
  <2> QED
    BY <2>2, Zenon DEF ClockInv, Calls
<1>4. /\ stack'[p] = After(p) /\ result'[p] = "waiting" /\ ticks0'[p] = ticks
      /\ \A q \in Process \ {p} : stack'[q] = stack[q] /\ result'[q] = result[q] /\ ticks0'[q] = ticks0[q]
  BY <1>1, ProcessThread DEF IInv, TypeOK, StackType, ClockInv, ClockTypes
<1>5. Calls'
  BY <1>1, <1>2, <1>4, ZenonT(30) DEF ClockInv, Calls
<1>6. ClockTypes'
  BY <1>1 DEF ClockInv, ClockTypes
<1>7. Counted'
  <2> SUFFICES ASSUME NEW q \in Process, result'[q] = "waiting"
               PROVE  elapsed[q] = n[q] \/ (elapsed[q] < n[q] /\ elapsed[q] = (ticks - ticks0'[q]) % Wrap)
    BY <1>1, Zenon DEF Counted
  <2>1. CASE q = p
    <3>1. (ticks - ticks) % Wrap = 0 /\ n[p] \in Nat
      BY WrapAssumption DEF ClockInv, ClockTypes
    <3> QED
      BY <1>3, <1>4, <2>1, <3>1
  <2>2. CASE q # p
    BY <1>4, <2>2 DEF ClockInv, Counted
  <2> QED
    BY <2>1, <2>2, Zenon
<1>8. SleepsLongEnough'
  <2>1. "waiting" # "0" /\ "waiting" # "-1"
    BY Zenon
  <2> QED
    BY <1>1, <1>4, <2>1, Zenon DEF ClockInv, SleepsLongEnough
<1> QED
  BY <1>5, <1>6, <1>7, <1>8, Zenon DEF ClockInv

\* The loop ends when n ticks have passed, or for a killed process.
LEMMA SysSleepClock ==
  ASSUME IInv, ClockInv, NEW p \in Process, sys_sleep(p)
  PROVE  ClockInv'
<1>1. At(p, "while") /\ UNCHANGED <<ticks, ticks0, n, elapsed, killed>>
  BY DEF sys_sleep, table
<1>2. result[p] = "waiting"
  <2>1. Len(stack[p]) = 1 /\ stack[p][1].code = "sys_sleep" /\ stack[p][1].at = 4
    BY <1>1, SysSleepAlone
  <2>2. InLoop(stack[p])
    BY <2>1 DEF InLoop
  <2> QED
    BY <2>2, Zenon DEF ClockInv, Calls
<1>3. ~Fresh(After(p)) /\ ~InLoop(After(p))
  BY <1>1, SysSleepNext
<1>4. PICK d : d = (ticks - ticks0[p]) % Wrap
  BY Zenon
<1>5. /\ result' = [result EXCEPT ![p] = IF d >= n[p] THEN "0" ELSE IF killed[p] THEN "-1" ELSE "waiting"]
      /\ IF d >= n[p] \/ killed[p] THEN Advance(p) ELSE Call(p, "sleep")
  BY <1>2, <1>4, Zenon DEF sys_sleep
<1>6. /\ result'[p] = IF d >= n[p] THEN "0" ELSE IF killed[p] THEN "-1" ELSE "waiting"
      /\ \A q \in Process \ {p} : result'[q] = result[q]
      /\ result' \in [Process -> {"none", "waiting", "0", "-1"}]
  BY <1>5 DEF ClockInv, ClockTypes
<1>7. PICK s : /\ stack' = [stack EXCEPT ![p] = s]
               /\ (Fresh(s) => Fresh(stack[p])) /\ (InLoop(s) => result'[p] = "waiting")
  <2>1. CASE d >= n[p] \/ killed[p]
    BY <1>3, <1>5, <2>1, Zenon DEF Advance
  <2>2. CASE ~(d >= n[p] \/ killed[p])
    <3>1. Covers(stack[p], <<Frame("sleep", FALSE)>> \o stack[p])
      BY ClockCall, ProcessThread, Zenon DEF Function
    <3>2. stack' = [stack EXCEPT ![p] = <<Frame("sleep", FALSE)>> \o stack[p]]
      BY <1>5, <2>2, Zenon DEF Call
    <3> QED
      BY <1>6, <2>2, <3>1, <3>2, Zenon DEF Covers
  <2> QED
    BY <2>1, <2>2, Zenon
<1>8. Calls'
  <2>1. stack'[p] = s /\ \A q \in Process \ {p} : stack'[q] = stack[q]
    BY <1>7, ProcessThread DEF IInv, TypeOK, StackType
  <2>2. ~Fresh(s)
    <3>1. "waiting" # "none"
      OBVIOUS
    <3> QED
      BY <1>2, <1>7, <3>1, Zenon DEF ClockInv, Calls
  <2> QED
    BY <1>1, <1>6, <1>7, <2>1, <2>2, ZenonT(30) DEF ClockInv, Calls
<1>9. ClockTypes'
  BY <1>1, <1>6, Zenon DEF ClockInv, ClockTypes
<1>10. Counted'
  BY <1>1, <1>2, <1>6, Zenon DEF ClockInv, Counted
<1>11. SleepsLongEnough'
  <2>1. d >= n[p] => elapsed[p] >= n[p]
    <3>1. elapsed[p] \in Nat /\ n[p] \in Nat
      BY DEF ClockInv, ClockTypes
    <3>2. elapsed[p] = n[p] \/ (elapsed[p] < n[p] /\ elapsed[p] = (ticks - ticks0[p]) % Wrap)
      BY <1>2, Zenon DEF ClockInv, Counted
    <3> QED
      BY <1>4, <3>1, <3>2
  <2>2. (result'[p] = "0" => d >= n[p]) /\ (result'[p] = "-1" => killed[p])
    BY <1>6
  <2> QED
    BY <1>1, <1>6, <2>1, <2>2, Zenon DEF ClockInv, SleepsLongEnough
<1> QED
  BY <1>8, <1>9, <1>10, <1>11, Zenon DEF ClockInv

\* At its return the call is alone on the stack, too.
LEMMA SysretLeaves ==
  ASSUME IInv, NEW p \in Process, At(p, "sysret")
  PROVE  ~InLoop(After(p))
<1>1. PICK f \in Function, i \in Nat : Executing(p, f, i) /\ stack[p][1] \in Frames /\ Op(f, i) = "sysret"
  BY ExecutesOp, ProcessThread, Zenon
<1>2. <<f, i>> \in {<<"kill", 6>>, <<"sys_sleep", 7>>}
  BY <1>1, Zenon DEF Executing, Place
<1>3. PICK s : s = stack[p]
  BY Zenon
<1>4. /\ Shape(p, s) /\ s # <<>> /\ s[1].code = f /\ s[1].at = i /\ Top(p) = s[1]
  BY <1>1, <1>3, ProcessThread, TopFrame, Zenon DEF Executing, IInv, Threads
<1>5. 1 \in 1 .. Len(s)
  BY <1>4, EmptyStack DEF Shape
<1>6. IF 1 = Len(s) THEN Bottom(p, s[1]) ELSE Fits(s[1], s[1 + 1])
  BY <1>4, <1>5, Zenon DEF Shape
<1>7. f # "timer" /\ f # "yield" /\ f # "sleep" /\ f # "scheduler"
  BY <1>2
<1>8. 1 = Len(s)
  BY <1>4, <1>6, <1>7, Zenon DEF Fits
<1>9. PICK m : m = Len(Program[f])
  BY Zenon
<1>10. i = m
  <2>1. (f = "kill" => m = 6) /\ (f = "sys_sleep" => m = 7)
    BY <1>9, Lengths, Zenon
  <2> QED
    BY <1>2, <2>1
<1>11. ~(i < m)
  BY <1>1, <1>10
<1>12. After(p) = Tail(s)
  BY <1>3, <1>4, <1>7, <1>9, <1>11, Zenon DEF After
<1>13. Len(Tail(s)) = 0
  BY <1>4, <1>8, PopFrame DEF Shape
<1> QED
  BY <1>12, <1>13 DEF InLoop

\* The locals of the call are gone.
LEMMA SysretClock ==
  ASSUME IInv, ClockInv, NEW p \in Process, sysret(p)
  PROVE  ClockInv'
<1>1. /\ At(p, "sysret") /\ ticks0' = [ticks0 EXCEPT ![p] = 0] /\ n' = [n EXCEPT ![p] = 0]
      /\ result' = [result EXCEPT ![p] = "none"] /\ elapsed' = [elapsed EXCEPT ![p] = 0]
      /\ UNCHANGED <<ticks, killed>>
  BY DEF sysret, table
<1>2. PICK s : stack' = [stack EXCEPT ![p] = s] /\ ~InLoop(s)
  <2>1. PICK e : e = <<Frame("exit", FALSE)>> /\ ~InLoop(e)
    BY ExitStack, Zenon
  <2>2. ~InLoop(After(p))
    BY <1>1, SysretLeaves
  <2>3. stack' = [stack EXCEPT ![p] = e] \/ stack' = [stack EXCEPT ![p] = After(p)]
    BY <2>1, Zenon DEF sysret, Exit, Advance
  <2> QED
    BY <2>1, <2>2, <2>3, Zenon
<1>3. /\ stack'[p] = s /\ result'[p] = "none" /\ ticks0'[p] = 0 /\ n'[p] = 0 /\ elapsed'[p] = 0
      /\ \A q \in Process \ {p} : /\ stack'[q] = stack[q] /\ result'[q] = result[q] /\ ticks0'[q] = ticks0[q]
                                  /\ n'[q] = n[q] /\ elapsed'[q] = elapsed[q]
  BY <1>1, <1>2, ProcessThread DEF IInv, TypeOK, StackType, ClockInv, ClockTypes
<1>4. ClockTypes'
  BY <1>1, WrapAssumption DEF ClockInv, ClockTypes
<1>5. Calls'
  BY <1>2, <1>3, Zenon DEF ClockInv, Calls
<1>6. "none" # "waiting" /\ "none" # "0" /\ "none" # "-1"
  OBVIOUS
<1>7. Counted'
  BY <1>1, <1>3, <1>6, ZenonT(30) DEF ClockInv, Counted
<1>8. SleepsLongEnough'
  BY <1>1, <1>3, <1>6, Zenon DEF ClockInv, SleepsLongEnough
<1> QED
  BY <1>4, <1>5, <1>7, <1>8, Zenon DEF ClockInv

\* A system call starts with its argument and no ticks counted.
LEMMA SyscallClock ==
  ASSUME IInv, ClockInv, NEW p \in Process, NEW c \in {"kill", "sys_sleep"}, syscall(p, c),
         NEW k \in 0 .. Wrap - 1, n' = [n EXCEPT ![p] = k]
  PROVE  ClockInv'
<1>1. stack[p] = <<>> /\ UNCHANGED <<ticks, ticks0, result, elapsed, killed>>
  BY DEF syscall, InUserMode, table
<1>2. result[p] = "none"
  <2>1. Fresh(stack[p])
    BY <1>1 DEF Fresh
  <2> QED
    BY <2>1, Zenon DEF ClockInv, Calls
<1>3. PICK s : stack' = [stack EXCEPT ![p] = s] /\ Covers(stack[p], s)
  <2>1. PICK e : e = <<Frame("exit", FALSE)>> /\ ~InLoop(e) /\ ~Fresh(e)
    BY ExitStack, Zenon
  <2>2. Covers(stack[p], <<Frame(c, FALSE)>> \o stack[p])
    BY ClockCall, ProcessThread, Zenon DEF Function
  <2>3. stack' = [stack EXCEPT ![p] = e] \/ stack' = [stack EXCEPT ![p] = <<Frame(c, FALSE)>> \o stack[p]]
    BY <2>1, Zenon DEF syscall, Exit, Call
  <2> QED
    BY <2>1, <2>2, <2>3, Zenon DEF Covers
<1>4. Calls'
  BY <1>1, <1>3, CallsKeep, ProcessThread, Zenon DEF IInv, TypeOK
<1>5. \A q \in Process \ {p} : n'[q] = n[q]
  BY DEF ClockInv, ClockTypes
<1>6. n' \in [Process -> 0 .. Wrap - 1]
  BY DEF ClockInv, ClockTypes
<1>7. ClockTypes'
  BY <1>1, <1>6, Zenon DEF ClockInv, ClockTypes
<1>8. "none" # "waiting" /\ "none" # "0" /\ "none" # "-1"
  OBVIOUS
<1>9. Counted'
  BY <1>1, <1>2, <1>5, <1>8, Zenon DEF ClockInv, Counted
<1>10. SleepsLongEnough'
  BY <1>1, <1>2, <1>5, <1>8, Zenon DEF ClockInv, SleepsLongEnough
<1> QED
  BY <1>4, <1>7, <1>9, <1>10, Zenon DEF ClockInv

\* Every step keeps the count.
LEMMA NextClock ==
  ASSUME IInv, IInv', ClockInv, [Next]_vars
  PROVE  ClockInv'
<1>1. ~panicked'
  BY Zenon DEF IInv
<1>2. CASE timer
  BY <1>2, TimerClock
<1>3. CASE sti \/ scan \/ swtch
  BY <1>3, SchedulerClock
<1>4. ASSUME NEW t \in Thread, Step(t)
      PROVE  ClockInv'
  BY <1>1, <1>4, StepClock, TickClock, Zenon
<1>5. ASSUME NEW p \in Process, ProcStep(p)
      PROVE  ClockInv'
  BY <1>1, <1>5, ProcClock, KillClock, ReadTicksClock, SysSleepClock, SysretClock, Zenon DEF ProcStep
<1>6. ASSUME UNCHANGED <<stack, ticks, ticks0, n, result, elapsed, killed>>
      PROVE  ClockInv'
  <2>1. Calls'
    BY <1>6, Zenon DEF ClockInv, Calls
  <2> QED
    BY <1>6, <2>1, ClockFrame, Zenon DEF ClockInv, ClockTypes
<1>7. ASSUME NEW p \in Process, user(p)
      PROVE  ClockInv'
  BY <1>6, <1>7 DEF user, table, clock
<1>8. ASSUME NEW p \in Process, call_sleep(p)
      PROVE  ClockInv'
  <2>1. PICK k \in Duration : n' = [n EXCEPT ![p] = k]
    BY <1>8, Zenon DEF call_sleep
  <2>2. k \in 0 .. Wrap - 1
    BY DurationAssumption
  <2> QED
    BY <1>8, <2>1, <2>2, SyscallClock, Zenon DEF call_sleep
<1>9. ASSUME NEW p \in Process, call_kill(p)
      PROVE  ClockInv'
  <2>1. n[p] \in 0 .. Wrap - 1 /\ n' = [n EXCEPT ![p] = n[p]]
    BY <1>9 DEF call_kill, ClockInv, ClockTypes
  <2> QED
    BY <1>9, <2>1, SyscallClock, Zenon DEF call_kill
<1>10. CASE UNCHANGED vars
  BY <1>6, <1>10 DEF vars, table, clock
<1> QED
  BY <1>2, <1>3, <1>4, <1>5, <1>7, <1>8, <1>9, <1>10, Zenon DEF Next

\* Before the first process runs nobody sleeps.
LEMMA InitClock ==
  ASSUME Init
  PROVE  ClockInv
<1>1. ClockTypes
  BY WrapAssumption DEF Init, ClockTypes
<1>2. \A p \in Process : result[p] = "none" /\ elapsed[p] = 0
  BY DEF Init
<1>3. \A p \in Process : ~InLoop(stack[p])
  BY DEF Init, InLoop, Frame, Thread, Scheduler
<1>4. Calls
  BY <1>2, <1>3, Zenon DEF Calls
<1>5. Counted /\ SleepsLongEnough
  BY <1>2 DEF Counted, SleepsLongEnough
<1> QED
  BY <1>1, <1>4, <1>5, Zenon DEF ClockInv

\* sleep(n) returns 0 only n ticks or more after it read ticks, across the wrap of
\* the counter, and -1 only to a killed process: SleepsLongEnough for any number of
\* processes, any width of ticks and any durations below it.
THEOREM SleepInTime == FairSpec => []SleepsLongEnough
<1>1. Init => ClockInv
  BY InitClock
<1>2. IInv /\ IInv' /\ ClockInv /\ [Next]_vars => ClockInv'
  BY NextClock
<1>3. ClockInv => SleepsLongEnough
  BY Zenon DEF ClockInv
<1> QED
  BY <1>1, <1>2, <1>3, Invariant, PTL DEF FairSpec

\* Interrupts do not nest ...
StackBounded == \A t \in Thread : Len(stack[t]) <= 4

\* No stack of the kernel has more than four calls of the modelled functions: a
\* handler keeps interrupts off until it returns, so interrupts do not nest.
THEOREM StacksBounded == FairSpec => []StackBounded
<1>1. ASSUME NEW t, NEW s, Shape(t, s)
      PROVE  Len(s) <= 4
  <2> SUFFICES ASSUME Len(s) > 4
               PROVE  FALSE
    BY <1>1, EmptyStack DEF Shape
  <2>1. 1 \in 1 .. Len(s) /\ 2 \in 1 .. Len(s) /\ 3 \in 1 .. Len(s) /\ 4 \in 1 .. Len(s) /\ Len(s) \notin {1, 2, 3, 4}
    BY <1>1, EmptyStack DEF Shape
  <2>2. Fits(s[1], s[1 + 1]) /\ Fits(s[2], s[2 + 1]) /\ Fits(s[3], s[3 + 1]) /\ Fits(s[4], s[4 + 1])
    BY <1>1, <2>1, Zenon DEF Shape
  <2> QED
    BY <2>2 DEF Fits, Handler
<1>2. IInv => StackBounded
  BY <1>1, Zenon DEF IInv, Threads, StackBounded
<1> QED
  BY <1>2, Invariant, PTL
=============================================================================
