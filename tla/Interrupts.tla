----------------------------- MODULE Interrupts -----------------------------
(***************************************************************************)
(* Spin locks, the interrupt flag, the switch between kernel threads and   *)
(* the clock: kernel/spinlock.c, the checks of sched, trap() and the timer *)
(* and sys_sleep, instruction by instruction on the one CPU of xk.         *)
(*                                                                         *)
(* The other modules take the code between an acquire and its release as   *)
(* one step; this one shows why they may.  A thread's kernel stack is a    *)
(* sequence of frames, the innermost first; a frame names the code it runs *)
(* and its next instruction.  With an empty stack a process is in user     *)
(* mode.  An interrupt pushes a frame on whatever thread has the CPU.      *)
(***************************************************************************)
EXTENDS Integers, Sequences, SleepWakeup

CONSTANTS NPROC,       \* processes
          Wrap,        \* ticks is a uint: it wraps at Wrap
          FirstTick,   \* the value of ticks in the first state
          Duration     \* the arguments of sleep()

ASSUME NPROCAssumption == NPROC \in Nat \ {0}
ASSUME WrapAssumption == Wrap \in Nat \ {0} /\ FirstTick \in 0 .. Wrap - 1
ASSUME DurationAssumption == Duration \subseteq 0 .. Wrap - 1

VARIABLES
  intr,                  \* FLAGS_IF of the CPU
  ncli, intena,          \* of struct cpu
  holder,                \* the thread that has a spin lock
  proc,                  \* mycpu()->proc, Scheduler for the null pointer
  cursor,                \* the scheduler's p
  stack,                 \* kernel stack of each thread
  saved,                 \* sched's local intena, of each process
  state, chan, killed,   \* of the process table
  ticks, ticks0, n,      \* the clock, and sys_sleep's locals
  result,                \* what sys_sleep is about to return
  panicked,
  ran, elapsed           \* history: see timer and tick

cpu == <<intr, ncli, intena>>
table == <<state, chan, killed>>
clock == <<ticks, ticks0, n, result, elapsed>>
vars == <<cpu, holder, proc, cursor, stack, saved, table, clock, panicked, ran>>

Process == 1 .. NPROC

\* The scheduler's own thread, and no thread.
Scheduler == 0
NoThread == -1
Thread == Process \cup {Scheduler}
Lock == {"ptable", "tickslock"}

(* ------------------------------- the code ------------------------------ *)

\* acquire: pushcli, then the test of holding() and the xchg.
acquire(lk) == << <<"pushcli">>, <<"xchg", lk>> >>

release(lk) == << <<"unlock", lk>>, <<"popcli">> >>

\* vspaceinstall loads the page table between a pushcli and a popcli.
vspaceinstall == << <<"pushcli">>, <<"popcli">> >>

wakeup == acquire("ptable") \o << <<"wakeup1">> >> \o release("ptable")

\* sched: its checks and the switch, and what follows when the thread resumes.
sched == << <<"sched">>, <<"resume">> >>

\* Mutant of sleep: the caller's lock is kept across the switch.
sleep_locked ==
  acquire("ptable") \o << <<"sleep">> >> \o sched \o << <<"clearchan">> >> \o
    release("ptable") \o release("tickslock") \o acquire("tickslock")

\* sleep(&ticks, &tickslock).
sleep ==
  acquire("ptable") \o release("tickslock") \o << <<"sleep">> >> \o sched \o
    << <<"clearchan">> >> \o release("ptable") \o acquire("tickslock")

Code(f) ==
  CASE f = "scheduler" -> << <<"sti">> >> \o acquire("ptable") \o << <<"scan">> >> \o
                          vspaceinstall \o << <<"swtch">> >> \o release("ptable")
    [] f = "forkret" -> release("ptable") \o << <<"iret">> >>
    [] f = "yield" -> acquire("ptable") \o << <<"runnable">> >> \o sched \o release("ptable")
    [] f = "sleep" -> sleep
    [] f = "exit" -> acquire("ptable") \o << <<"zombie">> >> \o sched
    [] f = "kill" -> acquire("ptable") \o << <<"kill">> >> \o release("ptable") \o << <<"sysret">> >>
    [] f = "sys_sleep" -> acquire("tickslock") \o << <<"ticks0">>, <<"while">> >> \o
                          release("tickslock") \o << <<"sysret">> >>
    [] f = "timer" -> acquire("tickslock") \o << <<"tick">> >> \o wakeup \o release("tickslock") \o
                      << <<"exit_if_killed">>, <<"yield_if_running">>,
                         <<"exit_if_killed">>, <<"iret">> >>

Function == {"scheduler", "forkret", "yield", "sleep", "exit", "kill", "sys_sleep", "timer"}
Program == [f \in Function |-> Code(f)]

\* trapno and the interrupted code's privilege are what trap() looks at.
Frame(f, user) == [code |-> f, at |-> 1, user |-> user]
InUserMode(t) == t \in Process /\ stack[t] = <<>>
Top(t) == Head(stack[t])
InKernel(t) == proc = t /\ stack[t] # <<>> /\ ~panicked

\* The next instruction of the thread that has the CPU.
Instruction(t) == Program[Top(t).code][Top(t).at]
At(t, i) == InKernel(t) /\ Instruction(t)[1] = i

\* A call of f returns after its last instruction; the scheduler's loop starts
\* over.
After(t) ==
  LET f == Top(t)
  IN  CASE f.at < Len(Program[f.code]) -> <<[f EXCEPT !.at = @ + 1]>> \o Tail(stack[t])
        [] f.at = Len(Program[f.code]) /\ f.code = "scheduler" -> <<Frame("scheduler", FALSE)>>
        [] OTHER -> Tail(stack[t])

\* Only code outside an interrupt handler counts as progress of the thread.
InHandler(t) == \E k \in 1 .. Len(stack[t]) : stack[t][k].code = "timer"
Ran(t) == ran' = [ran EXCEPT ![t] = @ \/ ~InHandler(t)]

Advance(t) == stack' = [stack EXCEPT ![t] = After(t)] /\ Ran(t)
Call(t, f) == stack' = [stack EXCEPT ![t] = <<Frame(f, FALSE)>> \o @] /\ Ran(t)
panic ==
  /\ panicked' = TRUE
  /\ UNCHANGED <<cpu, holder, proc, cursor, stack, saved, table, clock, ran>>

Init ==
  /\ intr = FALSE /\ ncli = 0 /\ intena = FALSE
  /\ holder = [l \in Lock |-> NoThread]
  /\ proc = Scheduler
  /\ cursor = 1
  /\ stack = [t \in Thread |-> <<Frame(IF t = Scheduler THEN "scheduler" ELSE "forkret", t # Scheduler)>>]
  /\ saved = [p \in Process |-> FALSE]
  /\ state = [p \in Process |-> "RUNNABLE"]
  /\ chan = [p \in Process |-> "none"]
  /\ killed = [p \in Process |-> FALSE]
  /\ ticks = FirstTick
  /\ ticks0 = [p \in Process |-> 0]
  /\ n = [p \in Process |-> 0]
  /\ result = [p \in Process |-> "none"]
  /\ elapsed = [p \in Process |-> 0]
  /\ panicked = FALSE
  /\ ran = [t \in Thread |-> TRUE]

(* ------------------- interrupt flag and spin locks --------------------- *)

pushcli(t) ==
  /\ At(t, "pushcli")
  /\ intena' = IF ncli = 0 THEN intr ELSE intena
  /\ intr' = FALSE
  /\ ncli' = ncli + 1
  /\ Advance(t)
  /\ UNCHANGED <<holder, proc, cursor, saved, table, clock, panicked>>

\* Mutant of popcli: it does not wait for the outermost one.
popcli_any(t) ==
  /\ At(t, "popcli")
  /\ IF intr \/ ncli = 0
     THEN panic
     ELSE /\ ncli' = ncli - 1
          /\ intr' = intena
          /\ Advance(t)
          /\ UNCHANGED <<intena, holder, proc, cursor, saved, table, clock, panicked>>

\* popcli panics with interrupts on or without a pushcli to match.
popcli(t) ==
  /\ At(t, "popcli")
  /\ IF intr \/ ncli = 0
     THEN panic
     ELSE /\ ncli' = ncli - 1
          /\ intr' = (ncli = 1 /\ intena)
          /\ Advance(t)
          /\ UNCHANGED <<intena, holder, proc, cursor, saved, table, clock, panicked>>

\* acquire panics when the CPU has the lock, and on one CPU nobody else can.
xchg(t) ==
  /\ At(t, "xchg")
  /\ LET lk == Instruction(t)[2]
     IN  IF holder[lk] # NoThread
         THEN panic
         ELSE /\ holder' = [holder EXCEPT ![lk] = t]
              /\ Advance(t)
              /\ UNCHANGED <<cpu, proc, cursor, saved, table, clock, panicked>>

unlock(t) ==
  /\ At(t, "unlock")
  /\ LET lk == Instruction(t)[2]
     IN  IF holder[lk] = NoThread
         THEN panic
         ELSE /\ holder' = [holder EXCEPT ![lk] = NoThread]
              /\ Advance(t)
              /\ UNCHANGED <<cpu, proc, cursor, saved, table, clock, panicked>>

(* ---------------------- the scheduler and sched ------------------------ *)

sti ==
  /\ At(Scheduler, "sti")
  /\ intr' = TRUE
  /\ Advance(Scheduler)
  /\ UNCHANGED <<ncli, intena, holder, proc, cursor, saved, table, clock, panicked>>

\* The scheduler's loop finds the next RUNNABLE process, or the pass ends and
\* release(&ptable.lock) is next.
scan ==
  /\ At(Scheduler, "scan")
  /\ \/ \E p \in Process :
          /\ p >= cursor /\ state[p] = "RUNNABLE"
          /\ \A q \in Process : q >= cursor /\ q < p => state[q] # "RUNNABLE"
          /\ cursor' = p
          /\ Advance(Scheduler)
     \/ /\ \A p \in Process : p >= cursor => state[p] # "RUNNABLE"
        /\ cursor' = 1
        /\ stack' = [stack EXCEPT ![Scheduler][1].at = @ + 4]
        /\ Ran(Scheduler)
  /\ UNCHANGED <<cpu, holder, proc, saved, table, clock, panicked>>

\* The switch hands ptable.lock over to the process; the scheduler comes back
\* to its loop.
swtch ==
  /\ At(Scheduler, "swtch")
  /\ proc' = cursor
  /\ state' = [state EXCEPT ![cursor] = "RUNNING"]
  /\ holder' = [holder EXCEPT !["ptable"] = cursor]
  /\ cursor' = cursor + 1
  /\ stack' = [stack EXCEPT ![Scheduler][1].at = @ - 3]
  /\ Ran(Scheduler)
  /\ UNCHANGED <<cpu, saved, chan, killed, clock, panicked>>

\* sched: it panics without ptable.lock, with another lock, when the process
\* still runs and with interrupts on; then it saves intena and switches.
call_sched(p) ==
  /\ At(p, "sched")
  /\ IF holder["ptable"] = NoThread \/ ncli # 1 \/ state[p] = "RUNNING" \/ intr
     THEN panic
     ELSE /\ saved' = [saved EXCEPT ![p] = intena]
          /\ proc' = Scheduler
          /\ holder' = [holder EXCEPT !["ptable"] = Scheduler]
          /\ Advance(p)
          /\ UNCHANGED <<cpu, cursor, table, clock, panicked>>

resume(p) ==
  /\ At(p, "resume")
  /\ intena' = saved[p]
  /\ saved' = [saved EXCEPT ![p] = FALSE]
  /\ Advance(p)
  /\ UNCHANGED <<intr, ncli, holder, proc, cursor, table, clock, panicked>>

\* yield, sleep and exit change the state of the process before sched.
set_state(p) ==
  /\ \/ At(p, "runnable") /\ state' = [state EXCEPT ![p] = "RUNNABLE"] /\ UNCHANGED chan
     \/ At(p, "sleep") /\ state' = FallAsleep(state, p) /\ chan' = SleepOn(chan, p, "ticks")
     \/ At(p, "zombie") /\ state' = [state EXCEPT ![p] = "ZOMBIE"] /\ UNCHANGED chan
     \/ At(p, "clearchan") /\ chan' = [chan EXCEPT ![p] = "none"] /\ UNCHANGED state
  /\ Advance(p)
  /\ UNCHANGED <<cpu, holder, proc, cursor, saved, killed, clock, panicked>>

kill(p, q) ==
  /\ At(p, "kill")
  /\ killed' = [killed EXCEPT ![q] = TRUE]
  /\ state' = [state EXCEPT ![q] = IF @ = "SLEEPING" THEN "RUNNABLE" ELSE @]
  /\ Advance(p)
  /\ UNCHANGED <<cpu, holder, proc, cursor, saved, chan, clock, panicked>>

(* ------------------------- trap and the clock -------------------------- *)

\* An interrupt gate: the flag is saved and cleared.  Between two ticks the
\* interrupted thread gets something done.
timer ==
  /\ intr /\ ran[proc] /\ ~panicked
  /\ stack' = [stack EXCEPT ![proc] = <<Frame("timer", InUserMode(proc))>> \o @]
  /\ intr' = FALSE
  /\ ran' = [ran EXCEPT ![proc] = FALSE]
  /\ UNCHANGED <<ncli, intena, holder, proc, cursor, saved, table, clock, panicked>>

\* elapsed counts the ticks since the call of sys_sleep, up to its argument.
tick(t) ==
  /\ At(t, "tick")
  /\ ticks' = (ticks + 1) % Wrap
  /\ elapsed' = [p \in Process |->
       IF result[p] = "waiting" /\ elapsed[p] < n[p] THEN elapsed[p] + 1 ELSE elapsed[p]]
  /\ Advance(t)
  /\ UNCHANGED <<cpu, holder, proc, cursor, saved, table, ticks0, n, result, panicked>>

\* Mutant of call_wakeup1: it wakes nobody.
call_wakeup1_silent(t) ==
  /\ At(t, "wakeup1")
  /\ Advance(t)
  /\ UNCHANGED <<cpu, holder, proc, cursor, saved, table, clock, panicked>>

call_wakeup1(t) ==
  /\ At(t, "wakeup1")
  /\ state' = wakeup1(state, chan, "ticks")
  /\ Advance(t)
  /\ UNCHANGED <<cpu, holder, proc, cursor, saved, chan, killed, clock, panicked>>

\* exit() does not return: what lies below its frame never runs again.
Exit(t) == stack' = [stack EXCEPT ![t] = <<Frame("exit", FALSE)>>] /\ Ran(t)

\* A killed process exits on its way back to user mode ...
exit_if_killed(t) ==
  /\ At(t, "exit_if_killed")
  /\ IF t \in Process /\ Top(t).user /\ killed[t] THEN Exit(t) ELSE Advance(t)
  /\ UNCHANGED <<cpu, holder, proc, cursor, saved, table, clock, panicked>>

\* ... and the tick takes the CPU from a running one.
yield_if_running(t) ==
  /\ At(t, "yield_if_running")
  /\ stack' = [stack EXCEPT ![t] =
       (IF t \in Process /\ state[t] = "RUNNING" THEN <<Frame("yield", FALSE)>> ELSE <<>>) \o After(t)]
  /\ Ran(t)
  /\ UNCHANGED <<cpu, holder, proc, cursor, saved, table, clock, panicked>>

\* iretq restores the flag of the interrupted code, where it was set.
iret(t) ==
  /\ At(t, "iret")
  /\ intr' = TRUE
  /\ Advance(t)
  /\ UNCHANGED <<ncli, intena, holder, proc, cursor, saved, table, clock, panicked>>

\* The system call gate leaves the flag alone; a killed process exits.
syscall(p, f) ==
  /\ proc = p /\ InUserMode(p) /\ ~panicked
  /\ IF killed[p] THEN Exit(p) ELSE Call(p, f)
  /\ UNCHANGED <<cpu, holder, proc, cursor, saved, table, ticks, ticks0, result, elapsed, panicked>>

call_sleep(p) ==
  /\ syscall(p, "sys_sleep")
  /\ \E k \in Duration : n' = [n EXCEPT ![p] = k]

call_kill(p) == syscall(p, "kill") /\ UNCHANGED n

\* User code runs.
user(p) ==
  /\ proc = p /\ InUserMode(p) /\ ~ran[p] /\ ~panicked
  /\ ran' = [ran EXCEPT ![p] = TRUE]
  /\ UNCHANGED <<cpu, holder, proc, cursor, stack, saved, table, clock, panicked>>

read_ticks(p) ==
  /\ At(p, "ticks0")
  /\ ticks0' = [ticks0 EXCEPT ![p] = ticks]
  /\ result' = [result EXCEPT ![p] = "waiting"]
  /\ Advance(p)
  /\ UNCHANGED <<cpu, holder, proc, cursor, saved, table, ticks, n, elapsed, panicked>>

\* Mutant of sys_sleep: the end is computed first, and it wraps.
sys_sleep_until(p) ==
  /\ At(p, "while")
  /\ LET late == (ticks0[p] + n[p]) % Wrap <= ticks
     IN  /\ result' = [result EXCEPT ![p] = IF late THEN "0" ELSE IF killed[p] THEN "-1" ELSE @]
         /\ IF late \/ killed[p] THEN Advance(p) ELSE Call(p, "sleep")
  /\ UNCHANGED <<cpu, holder, proc, cursor, saved, table, ticks, ticks0, n, elapsed, panicked>>

\* The loop of sys_sleep: ticks - ticks0 is a uint.
sys_sleep(p) ==
  /\ At(p, "while")
  /\ LET late == (ticks - ticks0[p]) % Wrap >= n[p]
     IN  /\ result' = [result EXCEPT ![p] = IF late THEN "0" ELSE IF killed[p] THEN "-1" ELSE @]
         /\ IF late \/ killed[p] THEN Advance(p) ELSE Call(p, "sleep")
  /\ UNCHANGED <<cpu, holder, proc, cursor, saved, table, ticks, ticks0, n, elapsed, panicked>>

\* Back to user mode, with the flag of user mode; a killed process exits.  The
\* locals of the call are gone.
sysret(p) ==
  /\ At(p, "sysret")
  /\ IF killed[p] THEN Exit(p) /\ UNCHANGED intr ELSE Advance(p) /\ intr' = TRUE
  /\ ticks0' = [ticks0 EXCEPT ![p] = 0]
  /\ n' = [n EXCEPT ![p] = 0]
  /\ result' = [result EXCEPT ![p] = "none"]
  /\ elapsed' = [elapsed EXCEPT ![p] = 0]
  /\ UNCHANGED <<ncli, intena, holder, proc, cursor, saved, table, ticks, panicked>>

Step(t) ==
  \/ pushcli(t) \/ popcli(t) \/ xchg(t) \/ unlock(t)
  \/ tick(t) \/ call_wakeup1(t) \/ exit_if_killed(t) \/ yield_if_running(t) \/ iret(t)

ProcStep(p) ==
  \/ call_sched(p) \/ resume(p) \/ set_state(p) \/ (\E q \in Process : kill(p, q))
  \/ read_ticks(p) \/ sys_sleep(p) \/ sysret(p)

Next ==
  \/ timer
  \/ sti \/ scan \/ swtch
  \/ \E t \in Thread : Step(t)
  \/ \E p \in Process : ProcStep(p) \/ user(p) \/ call_sleep(p) \/ call_kill(p)

\* The CPU executes, and a tick that finds interrupts off stays pending in the
\* local APIC until they are on.
FairSpec ==
  /\ Init /\ [][Next]_vars
  /\ WF_vars(sti \/ scan \/ swtch \/ (\E t \in Thread : Step(t)) \/ \E p \in Process : ProcStep(p) \/ user(p))
  /\ SF_vars(timer)

(* ------------------------------ properties ----------------------------- *)

\* None of the panics of acquire, release, popcli and sched happens, whatever
\* instruction the timer interrupts.
NoPanic == ~panicked

\* A critical section is atomic: the thread that has a spin lock has the CPU,
\* and no interrupt can be taken.  Switches hand ptable.lock over.
SectionsAtomic ==
  \A l \in Lock : holder[l] # NoThread => holder[l] = proc /\ ~intr /\ ncli > 0

\* sleep(k) returns 0 when k ticks have passed since the call and not before,
\* also when ticks wraps meanwhile, and -1 only to a killed process.
SleepsLongEnough ==
  \A p \in Process :
    /\ result[p] = "0" => elapsed[p] >= n[p]
    /\ result[p] = "-1" => killed[p]

\* Every sleep ends: the tick wakes the sleeper, which gets the CPU before the
\* counter goes round.
SleepReturns ==
  \A p \in Process : result[p] = "waiting" ~> result[p] # "waiting"
=============================================================================
