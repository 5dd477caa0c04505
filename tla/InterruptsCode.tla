--------------------------- MODULE InterruptsCode ---------------------------
(***************************************************************************)
(* The inductive invariant of Interrupts, and the lemmas about code and    *)
(* stacks that its proof rests on. The invariant annotates every           *)
(* instruction of the kernel with the spin locks and the pushcli's that    *)
(* the thread about to execute it has; the CPU agrees with the annotation  *)
(* of the instruction on top of the stack of the thread that runs, and     *)
(* what is below it on a stack was interrupted with no lock.               *)
(***************************************************************************)
EXTENDS Interrupts, TLAPS

(* --------------------- the annotation of the code ---------------------- *)

\* The instructions of f before which f has the spin lock l.  sleep is called
\* with tickslock and returns with it.
Section(f, l) ==
  IF l = "ptable"
  THEN CASE f = "scheduler" -> 4 .. 8
         [] f = "forkret" -> {1}
         [] f = "yield" -> 3 .. 6
         [] f = "sleep" -> 3 .. 9
         [] f = "exit" -> 3 .. 6
         [] f = "kill" -> 3 .. 4
         [] f = "timer" -> 6 .. 7
         [] OTHER -> {}
  ELSE CASE f = "sleep" -> {1, 2, 3, 13}
         [] f = "sys_sleep" -> 3 .. 5
         [] f = "timer" -> 3 .. 9
         [] OTHER -> {}

\* The instructions of f with interrupts off, and with a second pushcli.
Off(f) ==
  CASE f = "scheduler" -> 3 .. 9
    [] f = "forkret" -> 1 .. 2
    [] f = "yield" -> 2 .. 7
    [] f = "sleep" -> (1 .. 10) \cup {12, 13}
    [] f = "exit" -> 2 .. 6
    [] f = "kill" -> 2 .. 5
    [] f = "sys_sleep" -> 2 .. 6
    [] f = "timer" -> 2 .. 10
OffTwice(f) ==
  CASE f = "scheduler" -> {6}
    [] f = "sleep" -> 2 .. 4
    [] f = "timer" -> 5 .. 8
    [] OTHER -> {}

Depth(f, i) == IF i \in OffTwice(f) THEN 2 ELSE IF i \in Off(f) THEN 1 ELSE 0

\* What is held before the first instruction of a stack; nothing in user mode.
DepthOf(s) == IF s = <<>> THEN 0 ELSE Depth(s[1].code, s[1].at)
Has(s, l) == s # <<>> /\ s[1].at \in Section(s[1].code, l)

Op(f, i) == Program[f][i][1]

\* Interrupt code: the handler of the timer and the yield it calls.
Handler == {"timer", "yield"}

(* ---------------------- the inductive invariant ------------------------ *)

Frames == {f \in [code : Function, at : Nat, user : BOOLEAN] : f.at \in 1 .. Len(Program[f.code])}

\* What may be at the bottom of the stack of t.
Bottom(t, f) ==
  f.code \in IF t = Scheduler THEN {"scheduler"} ELSE {"forkret", "exit", "kill", "sys_sleep", "timer"}

\* Frame f may be above frame g: interrupts are taken with no pushcli and not
\* in a handler; the handler calls yield, and the loop of sys_sleep sleep.
Fits(f, g) ==
  \/ f.code = "timer" /\ Depth(g.code, g.at) = 0 /\ g.code \notin Handler
  \/ f.code = "yield" /\ g.code = "timer" /\ g.at = 13
  \/ f.code = "sleep" /\ g.code = "sys_sleep" /\ g.at = 4

Shape(t, s) ==
  /\ s \in Seq(Frames)
  /\ t = Scheduler => s # <<>>
  /\ \A k \in 1 .. Len(s) : IF k = Len(s) THEN Bottom(t, s[k]) ELSE Fits(s[k], s[k + 1])

\* A process that does not run is in sched, or in its first switch; after exit
\* it stays there.
Parked(p) ==
  /\ stack[p] # <<>>
  /\ \/ Op(stack[p][1].code, stack[p][1].at) = "resume"
     \/ stack[p][1].code = "forkret" /\ stack[p][1].at = 1
  /\ stack[p][1].code = "exit" => state[p] = "ZOMBIE"

ParkedOK ==
  /\ \A p \in Process \ {proc} : Parked(p)
  /\ proc # Scheduler => stack[Scheduler] # <<>> /\ stack[Scheduler][1].code = "scheduler" /\ stack[Scheduler][1].at = 4

\* What the code just executed has made of the process table.
PointOK(t, f) ==
  /\ f.code = "exit" => f.at # 5 /\ (f.at = 4 => state[t] = "ZOMBIE")
  /\ Op(f.code, f.at) = "sched" => state[t] # "RUNNING"
  /\ f.code = "scheduler" /\ f.at \in 5 .. 7 => cursor \in Process /\ state[cursor] = "RUNNABLE"

Threads ==
  /\ \A t \in Thread : Shape(t, stack[t])
  /\ ParkedOK
  /\ stack[proc] # <<>> => PointOK(proc, stack[proc][1])

Locks ==
  /\ ncli = DepthOf(stack[proc])
  /\ \A l \in Lock : holder[l] = IF Has(stack[proc], l) THEN proc ELSE NoThread

IntrOff == DepthOf(stack[proc]) > 0 => ~intr

\* Interrupt code keeps interrupts off, also when its locks are released.
HandlerOff ==
  stack[proc] # <<>> /\ stack[proc][1].code \in Handler =>
    /\ ~intr
    /\ DepthOf(stack[proc]) > 0 /\ Op(stack[proc][1].code, stack[proc][1].at) # "resume" => ~intena
YieldSaved ==
  \A p \in Process : stack[p] # <<>> /\ stack[p][1].code = "yield" /\ stack[p][1].at = 5 => ~saved[p]

FlagTypes == intr \in BOOLEAN /\ intena \in BOOLEAN /\ saved \in [Process -> BOOLEAN]
StackType == stack \in [Thread -> Seq(Frames)]
LockType == proc \in Thread /\ holder \in [Lock -> Thread \cup {NoThread}]
StateType == state \in [Process -> {"RUNNABLE", "RUNNING", "SLEEPING", "ZOMBIE"}]

TypeOK == FlagTypes /\ StackType /\ LockType /\ StateType

IInv == TypeOK /\ Threads /\ Locks /\ IntrOff /\ HandlerOff /\ YieldSaved /\ ~panicked

(* ------------------- lemmas about code and stacks ---------------------- *)

\* The instructions of scheduler.
LEMMA Code_scheduler ==
  /\ Len(Program["scheduler"]) = 9
  /\ Program["scheduler"][1] = <<"sti">>
  /\ Program["scheduler"][2] = <<"pushcli">>
  /\ Program["scheduler"][3] = <<"xchg", "ptable">>
  /\ Program["scheduler"][4] = <<"scan">>
  /\ Program["scheduler"][5] = <<"pushcli">>
  /\ Program["scheduler"][6] = <<"popcli">>
  /\ Program["scheduler"][7] = <<"swtch">>
  /\ Program["scheduler"][8] = <<"unlock", "ptable">>
  /\ Program["scheduler"][9] = <<"popcli">>
BY DEF Program, Function, Code, acquire, release, vspaceinstall

\* The instructions of forkret.
LEMMA Code_forkret ==
  /\ Len(Program["forkret"]) = 3
  /\ Program["forkret"][1] = <<"unlock", "ptable">>
  /\ Program["forkret"][2] = <<"popcli">>
  /\ Program["forkret"][3] = <<"iret">>
BY DEF Program, Function, Code, release

\* The instructions of yield.
LEMMA Code_yield ==
  /\ Len(Program["yield"]) = 7
  /\ Program["yield"][1] = <<"pushcli">>
  /\ Program["yield"][2] = <<"xchg", "ptable">>
  /\ Program["yield"][3] = <<"runnable">>
  /\ Program["yield"][4] = <<"sched">>
  /\ Program["yield"][5] = <<"resume">>
  /\ Program["yield"][6] = <<"unlock", "ptable">>
  /\ Program["yield"][7] = <<"popcli">>
BY DEF Program, Function, Code, acquire, release, sched

\* The instructions of sleep.
LEMMA Code_sleep ==
  /\ Len(Program["sleep"]) = 12
  /\ Program["sleep"][1] = <<"pushcli">>
  /\ Program["sleep"][2] = <<"xchg", "ptable">>
  /\ Program["sleep"][3] = <<"unlock", "tickslock">>
  /\ Program["sleep"][4] = <<"popcli">>
  /\ Program["sleep"][5] = <<"sleep">>
  /\ Program["sleep"][6] = <<"sched">>
  /\ Program["sleep"][7] = <<"resume">>
  /\ Program["sleep"][8] = <<"clearchan">>
  /\ Program["sleep"][9] = <<"unlock", "ptable">>
  /\ Program["sleep"][10] = <<"popcli">>
  /\ Program["sleep"][11] = <<"pushcli">>
  /\ Program["sleep"][12] = <<"xchg", "tickslock">>
BY DEF Program, Function, Code, sleep, acquire, release, sched

\* The instructions of the end of exit.
LEMMA Code_exit ==
  /\ Len(Program["exit"]) = 5
  /\ Program["exit"][1] = <<"pushcli">>
  /\ Program["exit"][2] = <<"xchg", "ptable">>
  /\ Program["exit"][3] = <<"zombie">>
  /\ Program["exit"][4] = <<"sched">>
  /\ Program["exit"][5] = <<"resume">>
BY DEF Program, Function, Code, acquire, sched

\* The instructions of kill.
LEMMA Code_kill ==
  /\ Len(Program["kill"]) = 6
  /\ Program["kill"][1] = <<"pushcli">>
  /\ Program["kill"][2] = <<"xchg", "ptable">>
  /\ Program["kill"][3] = <<"kill">>
  /\ Program["kill"][4] = <<"unlock", "ptable">>
  /\ Program["kill"][5] = <<"popcli">>
  /\ Program["kill"][6] = <<"sysret">>
BY DEF Program, Function, Code, acquire, release

\* The instructions of sys_sleep.
LEMMA Code_sys_sleep ==
  /\ Len(Program["sys_sleep"]) = 7
  /\ Program["sys_sleep"][1] = <<"pushcli">>
  /\ Program["sys_sleep"][2] = <<"xchg", "tickslock">>
  /\ Program["sys_sleep"][3] = <<"ticks0">>
  /\ Program["sys_sleep"][4] = <<"while">>
  /\ Program["sys_sleep"][5] = <<"unlock", "tickslock">>
  /\ Program["sys_sleep"][6] = <<"popcli">>
  /\ Program["sys_sleep"][7] = <<"sysret">>
BY DEF Program, Function, Code, acquire, release

\* The instructions of trap for the timer's interrupt.
LEMMA Code_timer ==
  /\ Len(Program["timer"]) = 14
  /\ Program["timer"][1] = <<"pushcli">>
  /\ Program["timer"][2] = <<"xchg", "tickslock">>
  /\ Program["timer"][3] = <<"tick">>
  /\ Program["timer"][4] = <<"pushcli">>
  /\ Program["timer"][5] = <<"xchg", "ptable">>
  /\ Program["timer"][6] = <<"wakeup1">>
  /\ Program["timer"][7] = <<"unlock", "ptable">>
  /\ Program["timer"][8] = <<"popcli">>
  /\ Program["timer"][9] = <<"unlock", "tickslock">>
  /\ Program["timer"][10] = <<"popcli">>
  /\ Program["timer"][11] = <<"exit_if_killed">>
  /\ Program["timer"][12] = <<"yield_if_running">>
  /\ Program["timer"][13] = <<"exit_if_killed">>
  /\ Program["timer"][14] = <<"iret">>
BY DEF Program, Function, Code, acquire, release, wakeup

\* What the annotation says of one instruction: how it changes what is held,
\* and what it needs.
Sound(f, i) ==
  LET c == Op(f, i)
      lk == Program[f][i][2]
  IN  /\ c \notin {"pushcli", "popcli"} => Depth(f, i + 1) = Depth(f, i)
      /\ c = "pushcli" => Depth(f, i + 1) = Depth(f, i) + 1
      /\ c = "popcli" => Depth(f, i) > 0 /\ Depth(f, i + 1) = Depth(f, i) - 1
      /\ \A l \in Lock : ~(c \in {"xchg", "unlock"} /\ lk = l) =>
           (i + 1 \in Section(f, l) <=> i \in Section(f, l))
      /\ c = "xchg" => lk \in Lock /\ i \notin Section(f, lk) /\ i + 1 \in Section(f, lk)
      /\ c = "unlock" => lk \in Lock /\ i \in Section(f, lk) /\ i + 1 \notin Section(f, lk)
      /\ \A l \in Lock : i \in Section(f, l) => Depth(f, i) > 0

\* Every acquire, release, pushcli and popcli of the kernel agrees with the
\* annotation.
LEMMA Annotation == \A f \in Function : \A i \in 1 .. Len(Program[f]) : Sound(f, i)
<1>1. \A i \in 1 .. Len(Program["scheduler"]) : Sound("scheduler", i)
  BY Code_scheduler DEF Sound, Op, Depth, Off, OffTwice, Section, Lock
<1>2. \A i \in 1 .. Len(Program["forkret"]) : Sound("forkret", i)
  BY Code_forkret DEF Sound, Op, Depth, Off, OffTwice, Section, Lock
<1>3. \A i \in 1 .. Len(Program["yield"]) : Sound("yield", i)
  BY Code_yield DEF Sound, Op, Depth, Off, OffTwice, Section, Lock
<1>4. \A i \in 1 .. Len(Program["sleep"]) : Sound("sleep", i)
  BY Code_sleep DEF Sound, Op, Depth, Off, OffTwice, Section, Lock
<1>5. \A i \in 1 .. Len(Program["exit"]) : Sound("exit", i)
  BY Code_exit DEF Sound, Op, Depth, Off, OffTwice, Section, Lock
<1>6. \A i \in 1 .. Len(Program["kill"]) : Sound("kill", i)
  BY Code_kill DEF Sound, Op, Depth, Off, OffTwice, Section, Lock
<1>7. \A i \in 1 .. Len(Program["sys_sleep"]) : Sound("sys_sleep", i)
  BY Code_sys_sleep DEF Sound, Op, Depth, Off, OffTwice, Section, Lock
<1>8. \A i \in 1 .. Len(Program["timer"]) : Sound("timer", i)
  BY Code_timer DEF Sound, Op, Depth, Off, OffTwice, Section, Lock
<1> QED
  BY <1>1, <1>2, <1>3, <1>4, <1>5, <1>6, <1>7, <1>8 DEF Function

\* Where the instructions are that occur once or twice.
Place(f, i) ==
  LET c == Op(f, i)
  IN  /\ c = "sti" => f = "scheduler" /\ i = 1
      /\ c = "scan" => f = "scheduler" /\ i = 4
      /\ c = "swtch" => f = "scheduler" /\ i = 7
      /\ c = "runnable" => f = "yield" /\ i = 3
      /\ c = "sleep" => f = "sleep" /\ i = 5
      /\ c = "clearchan" => f = "sleep" /\ i = 8
      /\ c = "zombie" => f = "exit" /\ i = 3
      /\ c = "sched" => <<f, i>> \in {<<"yield", 4>>, <<"sleep", 6>>, <<"exit", 4>>}
      /\ c = "resume" => <<f, i>> \in {<<"yield", 5>>, <<"sleep", 7>>, <<"exit", 5>>}
      /\ c = "kill" => f = "kill" /\ i = 3
      /\ c = "sysret" => <<f, i>> \in {<<"kill", 6>>, <<"sys_sleep", 7>>}
      /\ c = "ticks0" => f = "sys_sleep" /\ i = 3
      /\ c = "while" => f = "sys_sleep" /\ i = 4
      /\ c = "tick" => f = "timer" /\ i = 3
      /\ c = "exit_if_killed" => f = "timer" /\ i \in {11, 13}
      /\ c = "yield_if_running" => f = "timer" /\ i = 12
      /\ c = "iret" => <<f, i>> \in {<<"forkret", 3>>, <<"timer", 14>>}

\* The other instructions of the kernel are where Place says.
LEMMA Places == \A f \in Function : \A i \in 1 .. Len(Program[f]) : Place(f, i)
<1>1. \A i \in 1 .. Len(Program["scheduler"]) : Place("scheduler", i)
  BY Code_scheduler DEF Place, Op
<1>2. \A i \in 1 .. Len(Program["forkret"]) : Place("forkret", i)
  BY Code_forkret DEF Place, Op
<1>3. \A i \in 1 .. Len(Program["yield"]) : Place("yield", i)
  BY Code_yield DEF Place, Op
<1>4. \A i \in 1 .. Len(Program["sleep"]) : Place("sleep", i)
  BY Code_sleep DEF Place, Op
<1>5. \A i \in 1 .. Len(Program["exit"]) : Place("exit", i)
  BY Code_exit DEF Place, Op
<1>6. \A i \in 1 .. Len(Program["kill"]) : Place("kill", i)
  BY Code_kill DEF Place, Op
<1>7. \A i \in 1 .. Len(Program["sys_sleep"]) : Place("sys_sleep", i)
  BY Code_sys_sleep DEF Place, Op
<1>8. \A i \in 1 .. Len(Program["timer"]) : Place("timer", i)
  BY Code_timer, SMTT(20) DEF Place, Op
<1> QED
  BY <1>1, <1>2, <1>3, <1>4, <1>5, <1>6, <1>7, <1>8 DEF Function

\* The number of instructions of every function.
LEMMA Lengths ==
  /\ Len(Program["scheduler"]) = 9 /\ Len(Program["forkret"]) = 3 /\ Len(Program["yield"]) = 7
  /\ Len(Program["sleep"]) = 12 /\ Len(Program["exit"]) = 5 /\ Len(Program["kill"]) = 6
  /\ Len(Program["sys_sleep"]) = 7 /\ Len(Program["timer"]) = 14
BY Code_scheduler, Code_forkret, Code_yield, Code_sleep, Code_exit, Code_kill, Code_sys_sleep, Code_timer

\* Every function has an instruction.
LEMMA CodeNotEmpty == ASSUME NEW f \in Function PROVE Len(Program[f]) \in Nat /\ Len(Program[f]) > 0
<1> DEFINE m == Len(Program[f])
<1>1. m \in {3, 5, 6, 7, 9, 12, 14}
  BY Lengths, Zenon DEF Function
<1> HIDE DEF m
<1>2. m \in Nat /\ m > 0
  BY <1>1
<1> QED
  BY <1>2 DEF m

\* A call puts a frame on top and moves the others down.
LEMMA PushFrame ==
  ASSUME NEW F, NEW s \in Seq(F), NEW f \in F
  PROVE  /\ <<f>> \o s \in Seq(F) /\ <<f>> \o s # <<>> /\ (<<f>> \o s)[1] = f
         /\ Len(<<f>> \o s) = Len(s) + 1
         /\ \A k \in 1 .. Len(s) : (<<f>> \o s)[k + 1] = s[k]
OBVIOUS

\* Only the empty stack has no frame.
LEMMA EmptyStack ==
  ASSUME NEW F, NEW s \in Seq(F)
  PROVE  /\ s = <<>> <=> Len(s) = 0
         /\ s # <<>> => 1 \in 1 .. Len(s) /\ s[1] \in F /\ Head(s) = s[1]
OBVIOUS

\* A return takes the top frame off and moves the others up.
LEMMA PopFrame ==
  ASSUME NEW F, NEW s \in Seq(F), s # <<>>
  PROVE  /\ Tail(s) \in Seq(F) /\ Len(Tail(s)) = Len(s) - 1 /\ Len(s) \in Nat \ {0}
         /\ \A k \in 1 .. Len(s) - 1 : Tail(s)[k] = s[k + 1]
OBVIOUS

\* A call adds a frame that fits the code it is called from.
LEMMA ShapePush ==
  ASSUME NEW t, NEW s, Shape(t, s), NEW f \in Frames,
         IF s = <<>> THEN Bottom(t, f) ELSE Fits(f, s[1])
  PROVE  Shape(t, <<f>> \o s) /\ <<f>> \o s # <<>> /\ (<<f>> \o s)[1] = f
<1> DEFINE r == <<f>> \o s
<1>1. s \in Seq(Frames) /\ Len(s) \in Nat /\ (s = <<>> <=> Len(s) = 0)
  BY EmptyStack DEF Shape
<1>2. /\ r \in Seq(Frames) /\ r # <<>> /\ r[1] = f /\ Len(r) = Len(s) + 1
      /\ \A k \in 1 .. Len(s) : r[k + 1] = s[k]
  BY <1>1, PushFrame
<1> HIDE DEF r
<1>3. ASSUME NEW k \in 1 .. Len(r)
      PROVE  IF k = Len(r) THEN Bottom(t, r[k]) ELSE Fits(r[k], r[k + 1])
  <2>1. CASE k = 1
    BY <1>1, <1>2, <2>1
  <2>2. CASE k # 1
    <3>1. k - 1 \in 1 .. Len(s) /\ r[k] = s[k - 1] /\ (k = Len(r) <=> k - 1 = Len(s))
      BY <1>1, <1>2, <2>2
    <3>2. k # Len(r) => r[k + 1] = s[k - 1 + 1]
      BY <1>1, <1>2, <2>2
    <3> QED
      BY <3>1, <3>2 DEF Shape
  <2> QED
    BY <2>1, <2>2
<1> QED
  BY <1>2, <1>3 DEF Shape, r

\* The code of the last call goes on.
LEMMA ShapeMove ==
  ASSUME NEW t, NEW s, Shape(t, s), s # <<>>, NEW f \in Frames, f.code = s[1].code
  PROVE  Shape(t, <<f>> \o Tail(s)) /\ <<f>> \o Tail(s) # <<>> /\ (<<f>> \o Tail(s))[1] = f
<1> DEFINE u == Tail(s)
           r == <<f>> \o u
<1>1. /\ u \in Seq(Frames) /\ Len(u) = Len(s) - 1 /\ Len(s) \in Nat \ {0}
      /\ \A k \in 1 .. Len(s) - 1 : u[k] = s[k + 1]
  BY PopFrame DEF Shape
<1> HIDE DEF u
<1>2. /\ r \in Seq(Frames) /\ r # <<>> /\ r[1] = f /\ Len(r) = Len(s)
      /\ \A k \in 1 .. Len(u) : r[k + 1] = u[k]
  BY <1>1, PushFrame
<1> HIDE DEF r
<1>3. \A k \in 2 .. Len(s) : r[k] = s[k]
  <2> TAKE k \in 2 .. Len(s)
  <2>1. k - 1 \in 1 .. Len(u) /\ k - 1 \in 1 .. Len(s) - 1
    BY <1>1
  <2>2. r[k - 1 + 1] = u[k - 1] /\ u[k - 1] = s[k - 1 + 1]
    BY <1>1, <1>2, <2>1
  <2>3. k - 1 + 1 = k
    OBVIOUS
  <2> QED
    BY <2>2, <2>3
<1>4. ASSUME NEW k \in 1 .. Len(r)
      PROVE  IF k = Len(r) THEN Bottom(t, r[k]) ELSE Fits(r[k], r[k + 1])
  <2>1. k # Len(r) => r[k + 1] = s[k + 1]
    BY <1>1, <1>2, <1>3
  <2>2. r[k].code = s[k].code /\ k \in 1 .. Len(s)
    BY <1>1, <1>2, <1>3
  <2>3. IF k = Len(r) THEN Bottom(t, s[k]) ELSE Fits(s[k], s[k + 1])
    BY <1>2, <2>2 DEF Shape
  <2> QED
    BY <2>1, <2>2, <2>3 DEF Bottom, Fits
<1> QED
  BY <1>2, <1>4, Zenon DEF Shape, r, u

\* The last call returns.
LEMMA ShapePop ==
  ASSUME NEW t, NEW s, Shape(t, s), s # <<>>, s[1].code # "scheduler"
  PROVE  /\ Shape(t, Tail(s))
         /\ IF Tail(s) = <<>> THEN t # Scheduler /\ Bottom(t, s[1])
            ELSE Tail(s)[1] \in Frames /\ Fits(s[1], Tail(s)[1])
<1> DEFINE u == Tail(s)
<1>1. /\ u \in Seq(Frames) /\ Len(u) = Len(s) - 1 /\ Len(s) \in Nat \ {0}
      /\ \A k \in 1 .. Len(s) - 1 : u[k] = s[k + 1]
  BY PopFrame DEF Shape
<1> HIDE DEF u
<1>2. u = <<>> <=> Len(s) = 1
  BY <1>1, EmptyStack
<1>3. IF Len(s) = 1 THEN Bottom(t, s[1]) ELSE Fits(s[1], s[2])
  BY <1>1 DEF Shape
<1>4. Len(s) # 1 => u[1] = s[2] /\ u[1] \in Frames
  BY <1>1
<1>5. ASSUME NEW k \in 1 .. Len(u)
      PROVE  IF k = Len(u) THEN Bottom(t, u[k]) ELSE Fits(u[k], u[k + 1])
  <2>1. k + 1 \in 1 .. Len(s) /\ u[k] = s[k + 1] /\ (k = Len(u) <=> k + 1 = Len(s))
    BY <1>1
  <2>2. k # Len(u) => u[k + 1] = s[k + 1 + 1]
    BY <1>1
  <2> QED
    BY <2>1, <2>2 DEF Shape
<1>6. u = <<>> => t # Scheduler
  BY <1>2, <1>3 DEF Bottom
<1> QED
  BY <1>1, <1>2, <1>3, <1>4, <1>5, <1>6, Zenon DEF Shape, u

\* The top of a stack that is not empty is a frame.
LEMMA OneTop ==
  ASSUME NEW t, NEW s, Shape(t, s), s # <<>>
  PROVE  s[1] \in Frames
<1>1. s \in Seq(Frames)
  BY Zenon DEF Shape
<1> QED
  BY <1>1, EmptyStack, Zenon

\* The instruction that f is about to execute is one of its code.
LEMMA TopFrame ==
  ASSUME NEW t \in Thread, Shape(t, stack[t]), stack[t] # <<>>
  PROVE  /\ stack[t][1] \in Frames /\ Top(t) = stack[t][1]
         /\ stack[t][1].code \in Function /\ stack[t][1].at \in 1 .. Len(Program[stack[t][1].code])
         /\ Len(Program[stack[t][1].code]) \in Nat
         /\ Sound(stack[t][1].code, stack[t][1].at) /\ Place(stack[t][1].code, stack[t][1].at)
<1>1. stack[t][1] \in Frames /\ Top(t) = stack[t][1]
  BY EmptyStack DEF Shape, Top
<1>2. stack[t][1].code \in Function /\ stack[t][1].at \in 1 .. Len(Program[stack[t][1].code])
  BY <1>1 DEF Frames
<1> QED
  BY <1>1, <1>2, CodeNotEmpty, Annotation, Places

\* What is held when f returns: sleep returns with tickslock.
LEMMA AtReturn ==
  ASSUME NEW f \in Function \ {"exit"}
  PROVE  /\ Depth(f, Len(Program[f]) + 1) = IF f = "sleep" THEN 1 ELSE 0
         /\ \A l \in Lock : Len(Program[f]) + 1 \in Section(f, l) <=> f = "sleep" /\ l = "tickslock"
<1> DEFINE R(g, m) == /\ Depth(g, m) = IF g = "sleep" THEN 1 ELSE 0
                      /\ \A l \in Lock : m \in Section(g, l) <=> g = "sleep" /\ l = "tickslock"
<1> USE DEF Depth, Off, OffTwice, Section, Lock
<1>1. R("scheduler", Len(Program["scheduler"]) + 1)
  BY Lengths
<1>2. R("forkret", Len(Program["forkret"]) + 1)
  BY Lengths
<1>3. R("yield", Len(Program["yield"]) + 1)
  BY Lengths
<1>4. R("sleep", Len(Program["sleep"]) + 1)
  BY Lengths
<1>5. R("kill", Len(Program["kill"]) + 1)
  BY Lengths
<1>6. R("sys_sleep", Len(Program["sys_sleep"]) + 1)
  BY Lengths
<1>7. R("timer", Len(Program["timer"]) + 1)
  BY Lengths
<1> HIDE DEF R, Depth, Off, OffTwice, Section, Lock
<1>8. R(f, Len(Program[f]) + 1)
  BY <1>1, <1>2, <1>3, <1>4, <1>5, <1>6, <1>7, Zenon DEF Function
<1> QED
  BY <1>8 DEF R

\* A call starts at the first instruction.
LEMMA NewFrame ==
  ASSUME NEW f \in Function, NEW u \in BOOLEAN
  PROVE  Frame(f, u) \in Frames /\ Frame(f, u).code = f /\ Frame(f, u).at = 1
<1> DEFINE g == [code |-> f, at |-> 1, user |-> u]
<1>1. g \in [code : Function, at : Nat, user : BOOLEAN] /\ g.code = f /\ g.at = 1
  OBVIOUS
<1>2. 1 \in 1 .. Len(Program[f])
  BY CodeNotEmpty
<1>3. Frame(f, u) = g
  BY DEF Frame
<1> HIDE DEF g
<1> QED
  BY <1>1, <1>2, <1>3 DEF Frames

\* The frame that is on top after an instruction of f: the same call at its
\* next instruction, or after its last one the code that f returns to.
GoesOn(f, g) ==
  \/ g.code = f.code /\ g.at = f.at + 1
  \/ /\ f.at = Len(Program[f.code])
     /\ g.code \in Handler => f.code = "yield"
     /\ Depth(g.code, g.at) = 0 \/ (g.code = "sys_sleep" /\ g.at = 4)

\* The annotation fits the instruction that is executed after f.at, also where
\* that is in the caller.
LEMMA AfterShape ==
  ASSUME NEW t \in Thread, Shape(t, stack[t]), stack[t] # <<>>,
         ~(stack[t][1].code = "exit" /\ stack[t][1].at = 5)
  PROVE  /\ Shape(t, After(t))
         /\ DepthOf(After(t)) = Depth(stack[t][1].code, stack[t][1].at + 1)
         /\ \A l \in Lock : Has(After(t), l) <=> stack[t][1].at + 1 \in Section(stack[t][1].code, l)
         /\ After(t) # <<>> => GoesOn(stack[t][1], After(t)[1])
<1> DEFINE s == stack[t]
           f == s[1]
           r == After(t)
<1>1. /\ f \in Frames /\ Top(t) = f /\ f.code \in Function
      /\ f.at \in 1 .. Len(Program[f.code]) /\ Len(Program[f.code]) \in Nat
  BY TopFrame
<1> HIDE DEF f
<1>2. CASE f.at < Len(Program[f.code])
  <2> DEFINE g == [f EXCEPT !.at = @ + 1]
  <2>1. r = <<g>> \o Tail(s)
    BY <1>1, <1>2 DEF After
  <2>2. g \in Frames /\ g.code = f.code /\ g.at = f.at + 1
    BY <1>1, <1>2 DEF Frames
  <2> HIDE DEF g, r
  <2>3. Shape(t, r) /\ r # <<>> /\ r[1] = g
    BY <2>1, <2>2, ShapeMove, ZenonT(30) DEF f
  <2> QED
    BY <2>2, <2>3 DEF DepthOf, Has, GoesOn, r, f
<1>3. CASE f.at = Len(Program[f.code]) /\ f.code = "scheduler"
  <2> DEFINE g == Frame("scheduler", FALSE)
  <2>1. r = <<g>>
    <3>1. ~(f.at < Len(Program[f.code]))
      BY <1>1, <1>3
    <3> QED
      BY <1>1, <1>3, <3>1, Zenon DEF After
  <2>2. g \in Frames /\ g.code = "scheduler" /\ g.at = 1
    BY NewFrame, Zenon DEF Function
  <2>3. t = Scheduler
    BY <1>3 DEF f, Shape, Bottom, Fits
  <2> HIDE DEF g, r
  <2>4. Shape(t, r) /\ r # <<>> /\ r[1] = g
    BY <2>1, <2>2, <2>3 DEF Shape, Bottom
  <2>5. Depth("scheduler", 1) = 0 /\ \A l \in Lock : 1 \notin Section("scheduler", l)
    BY DEF Depth, Off, OffTwice, Section, Lock
  <2> QED
    BY <1>1, <1>3, <2>2, <2>4, <2>5, AtReturn DEF DepthOf, Has, GoesOn, Handler, r, f
<1>4. CASE f.at = Len(Program[f.code]) /\ f.code # "scheduler"
  <2>1. r = Tail(s)
    BY <1>1, <1>4 DEF After
  <2> HIDE DEF r
  <2>2. /\ Shape(t, r)
        /\ IF r = <<>> THEN t # Scheduler /\ Bottom(t, f) ELSE r[1] \in Frames /\ Fits(f, r[1])
    BY <1>4, <2>1, ShapePop, Zenon DEF f
  <2>3. f.code # "exit"
    BY <1>4, Lengths DEF f
  <2>4. /\ Depth(f.code, f.at + 1) = IF f.code = "sleep" THEN 1 ELSE 0
        /\ \A l \in Lock : f.at + 1 \in Section(f.code, l) <=> f.code = "sleep" /\ l = "tickslock"
    BY <1>1, <1>4, <2>3, AtReturn
  <2>5. CASE r = <<>>
    BY <2>2, <2>4, <2>5 DEF DepthOf, Has, Bottom, r, f
  <2>6. CASE r # <<>>
    <3> DEFINE g == r[1]
    <3>1. g \in Frames /\ Fits(f, g) /\ DepthOf(r) = Depth(g.code, g.at)
          /\ \A l \in Lock : Has(r, l) <=> g.at \in Section(g.code, l)
      BY <2>2, <2>6 DEF DepthOf, Has
    <3>2. \A l \in Lock : Depth(g.code, g.at) = 0 => g.at \notin Section(g.code, l)
      BY <3>1, Annotation DEF Frames, Sound
    <3>3. /\ Depth("sys_sleep", 4) = 1 /\ Depth("timer", 13) = 0
          /\ \A l \in Lock : 4 \in Section("sys_sleep", l) <=> l = "tickslock"
      BY DEF Depth, Off, OffTwice, Section, Lock
    <3> HIDE DEF g
    <3>4. GoesOn(f, g)
      BY <1>4, <3>1, <3>3 DEF GoesOn, Fits, Handler
    <3>5. /\ Depth(g.code, g.at) = Depth(f.code, f.at + 1)
          /\ \A l \in Lock : g.at \in Section(g.code, l) <=> f.at + 1 \in Section(f.code, l)
      BY <2>4, <3>1, <3>2, <3>3 DEF Fits
    <3> QED
      BY <2>2, <3>1, <3>4, <3>5 DEF r, f, g
  <2> QED
    BY <2>5, <2>6
<1> QED
  BY <1>1, <1>2, <1>3, <1>4

(* ------------------------- the running thread -------------------------- *)

\* Processes wake up, and that is all that happens to the process table.
WakesOnly ==
  \A p \in Process : state'[p] # state[p] => state[p] = "SLEEPING" /\ state'[p] = "RUNNABLE"

\* Only the stack of the running thread changes.
LEMMA OneStack ==
  ASSUME NEW t \in Thread, Threads, proc = t, proc' = t,
         \A p \in Process \ {t} : state[p] = "ZOMBIE" => state'[p] = "ZOMBIE",
         \A q \in Thread \ {t} : stack'[q] = stack[q],
         Shape(t, stack[t])', stack'[t] # <<>> => PointOK(t, stack[t][1])'
  PROVE  Threads'
<1>1. \A q \in Thread : Shape(q, stack[q])'
  <2> SUFFICES ASSUME NEW q \in Thread, q # t
               PROVE  Shape(q, stack[q])'
    BY Zenon
  <2> QED
    BY DEF Threads, Shape, Bottom
<1>2. \A p \in Process \ {t} : Parked(p)'
  <2> SUFFICES ASSUME NEW p \in Process \ {t}
               PROVE  Parked(p)'
    BY Zenon
  <2>1. Parked(p) /\ stack'[p] = stack[p] /\ (state[p] = "ZOMBIE" => state'[p] = "ZOMBIE")
    BY DEF Threads, ParkedOK, Thread
  <2> QED
    BY <2>1 DEF Parked, Op
<1>3. t # Scheduler => stack'[Scheduler] = stack[Scheduler]
  BY DEF Thread
<1>4. ParkedOK'
  BY <1>2, <1>3 DEF Threads, ParkedOK
<1> QED
  BY <1>1, <1>4 DEF Threads

\* The instructions after which the state of the process or the choice of the
\* scheduler is settled.
Settling == {"runnable", "sleep", "zombie", "sched", "scan"}

\* Any other instruction leads to one that asks nothing of the process table,
\* or through the rest of the scheduler's loop.
LEMMA NextPoint ==
  ASSUME NEW t \in Thread, NEW f \in Frames, NEW g \in Frames, GoesOn(f, g), Op(f.code, f.at) \notin Settling
  PROVE  /\ ~(g.code = "exit" /\ g.at \in {4, 5})
         /\ Op(g.code, g.at) # "sched"
         /\ g.code = "scheduler" /\ g.at \in 5 .. 7 => f.code = "scheduler" /\ f.at \in 5 .. 6
<1>1. /\ f.code \in Function /\ g.code \in Function /\ f.at \in Int /\ g.at \in Int
      /\ Place(g.code, g.at)
  BY Places DEF Frames
<1>2. CASE g.code = f.code /\ g.at = f.at + 1
  <2>1. /\ Op("exit", 3) = "zombie" /\ Op("exit", 4) = "sched" /\ Op("yield", 3) = "runnable"
        /\ Op("sleep", 5) = "sleep" /\ Op("scheduler", 4) = "scan"
    BY Code_exit, Code_yield, Code_sleep, Code_scheduler DEF Op
  <2>2. Op(g.code, g.at) = "sched" => <<g.code, g.at>> \in {<<"yield", 4>>, <<"sleep", 6>>, <<"exit", 4>>}
    BY <1>1 DEF Place
  <2> QED
    BY <1>1, <1>2, <2>1, <2>2 DEF Settling
<1>3. CASE Depth(g.code, g.at) = 0 \/ (g.code = "sys_sleep" /\ g.at = 4)
  <2>1. /\ Depth("exit", 4) = 1 /\ Depth("exit", 5) = 1 /\ Depth("yield", 4) = 1 /\ Depth("sleep", 6) = 1
        /\ \A i \in 5 .. 7 : Depth("scheduler", i) > 0
    BY DEF Depth, Off, OffTwice
  <2>2. Op(g.code, g.at) = "sched" => <<g.code, g.at>> \in {<<"yield", 4>>, <<"sleep", 6>>, <<"exit", 4>>}
    BY <1>1 DEF Place
  <2> QED
    BY <1>1, <1>3, <2>1, <2>2
<1> QED
  BY <1>2, <1>3 DEF GoesOn

\* A handler is left only through its iretq, and yield gets to its return from
\* sched only by the switch.
LEMMA NextHandler ==
  ASSUME NEW f \in Frames, NEW g \in Frames, GoesOn(f, g)
  PROVE  /\ g.code \in Handler => f.code \in Handler /\ f.at # 14
         /\ g.code = "yield" /\ g.at = 5 => Op(f.code, f.at) \in Settling
<1>5. Len(Program["timer"]) = 14 /\ Len(Program["yield"]) = 7
  BY Lengths
<1>1. /\ f.at \in Nat /\ g.at \in Nat /\ (g.code = "timer" => g.at <= 14) /\ (g.code = "yield" => g.at <= 7)
  <2> DEFINE m == Len(Program[g.code])
  <2>1. f.at \in Nat /\ g.at \in Nat /\ g.at \in 1 .. m
    BY DEF Frames
  <2>2. (g.code = "timer" => m = 14) /\ (g.code = "yield" => m = 7)
    BY <1>5, Zenon
  <2> HIDE DEF m
  <2> QED
    BY <2>1, <2>2
<1>2. Op("yield", 4) = "sched" /\ Depth("yield", 5) = 1
  BY Code_yield DEF Op, Depth, Off, OffTwice
<1>3. CASE g.code = f.code /\ g.at = f.at + 1
  BY <1>1, <1>2, <1>3 DEF Handler, Settling
<1>4. CASE /\ f.at = Len(Program[f.code]) /\ (g.code \in Handler => f.code = "yield")
           /\ Depth(g.code, g.at) = 0 \/ (g.code = "sys_sleep" /\ g.at = 4)
  <2>1. g.code \in Handler => f.code = "yield" /\ f.at = 7
    BY <1>4, <1>5, Zenon
  <2>2. ~(g.code = "yield" /\ g.at = 5)
    <3>1. Depth(g.code, g.at) = 0 \/ g.code = "sys_sleep"
      BY <1>4
    <3> QED
      BY <1>2, <3>1
  <2> QED
    BY <2>1, <2>2 DEF Handler
<1> QED
  BY <1>3, <1>4 DEF GoesOn

\* Such an instruction keeps what is said of the threads.
LEMMA Moves ==
  ASSUME NEW t \in Thread, Threads, StackType, proc = t, proc' = t, WakesOnly, cursor' = cursor,
         stack[t] # <<>>, stack' = [stack EXCEPT ![t] = After(t)],
         Op(stack[t][1].code, stack[t][1].at) \notin Settling
  PROVE  /\ Threads' /\ StackType'
         /\ \A q \in Thread \ {t} : stack'[q] = stack[q]
         /\ DepthOf(stack'[t]) = Depth(stack[t][1].code, stack[t][1].at + 1)
         /\ \A l \in Lock : Has(stack'[t], l) <=> stack[t][1].at + 1 \in Section(stack[t][1].code, l)
         /\ stack'[t] # <<>> => stack'[t][1] \in Frames /\ GoesOn(stack[t][1], stack'[t][1])
<1> DEFINE f == stack[t][1]
<1>1. /\ f \in Frames /\ Shape(t, stack[t]) /\ PointOK(t, f)
  BY TopFrame DEF Threads
<1>2. ~(f.code = "exit" /\ f.at = 5)
  BY <1>1 DEF PointOK
<1>3. stack'[t] = After(t) /\ \A q \in Thread \ {t} : stack'[q] = stack[q]
  BY DEF StackType
<1>4. /\ Shape(t, After(t)) /\ DepthOf(After(t)) = Depth(f.code, f.at + 1)
      /\ \A l \in Lock : Has(After(t), l) <=> f.at + 1 \in Section(f.code, l)
      /\ After(t) # <<>> => GoesOn(f, After(t)[1])
  BY <1>1, <1>2, AfterShape
<1> HIDE DEF f
<1>5. /\ Shape(t, stack[t])' /\ DepthOf(stack'[t]) = Depth(f.code, f.at + 1)
      /\ \A l \in Lock : Has(stack'[t], l) <=> f.at + 1 \in Section(f.code, l)
      /\ stack'[t] # <<>> => GoesOn(f, stack'[t][1])
  <2>1. Shape(t, stack[t])'
    BY <1>3, <1>4, Zenon DEF Shape, Bottom
  <2>2. DepthOf(stack'[t]) = Depth(f.code, f.at + 1)
    BY <1>3, <1>4, Zenon
  <2>3. \A l \in Lock : Has(stack'[t], l) <=> f.at + 1 \in Section(f.code, l)
    BY <1>3, <1>4, Zenon
  <2> QED
    BY <1>3, <1>4, <2>1, <2>2, <2>3, Zenon
<1>6. stack'[t] # <<>> => stack'[t][1] \in Frames
  BY <1>3, <1>4, OneTop, Zenon
<1>7. stack'[t] # <<>> => PointOK(t, stack[t][1])'
  <2> SUFFICES ASSUME stack'[t] # <<>>
               PROVE  PointOK(t, stack[t][1])'
    OBVIOUS
  <2> DEFINE g == stack'[t][1]
  <2>1. g \in Frames /\ GoesOn(f, g) /\ Op(f.code, f.at) \notin Settling
    BY <1>5, <1>6 DEF f
  <2> HIDE DEF g
  <2>2. /\ ~(g.code = "exit" /\ g.at \in {4, 5}) /\ Op(g.code, g.at) # "sched"
        /\ g.code = "scheduler" /\ g.at \in 5 .. 7 => f.code = "scheduler" /\ f.at \in 5 .. 6
    BY <1>1, <2>1, NextPoint
  <2>3. g.code = "scheduler" /\ g.at \in 5 .. 7 => cursor' \in Process /\ state'[cursor'] = "RUNNABLE"
    BY <1>1, <2>2 DEF PointOK, WakesOnly
  <2> QED
    BY <2>2, <2>3, Zenon DEF PointOK, Op, g
<1>8. StackType'
  <2>1. After(t) \in Seq(Frames)
    BY <1>4, Zenon DEF Shape
  <2> QED
    BY <2>1, Zenon DEF StackType
<1>9. Threads'
  <2>1. \A p \in Process \ {t} : state[p] = "ZOMBIE" => state'[p] = "ZOMBIE"
    BY DEF WakesOnly
  <2> QED
    BY <1>3, <1>5, <1>7, <2>1, OneStack
<1> QED
  BY <1>3, <1>5, <1>6, <1>8, <1>9, Zenon DEF f
=============================================================================
