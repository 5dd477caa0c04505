------------------------------- MODULE Proc -------------------------------
(***************************************************************************)
(* The process table of kernel/proc.c: allocproc, fork, exit, wait, kill,  *)
(* sleep, wakeup, yield and the scheduler, on the one CPU of xk.           *)
(*                                                                         *)
(* A step is the code between two points where interrupts can be taken:    *)
(* a whole critical section of ptable.lock, up to its release or to the    *)
(* switch in sched.  What processes do outside the table (memory, files,   *)
(* devices) appears as a choice: a call may fail for lack of memory, and a *)
(* system call may sleep on one of the kernel's own channels Chan.         *)
(***************************************************************************)
EXTENDS Integers, SleepWakeup

CONSTANTS NPROC,          \* size of ptable.proc
          Chan,           \* wait channels that are kernel addresses
          MaxPid,         \* bound: pids handed out in the model
          MemoryMayFail   \* whether kalloc may return 0 during a fork

ASSUME NPROCAssumption == NPROC \in Nat \ {0}
ASSUME ChanAssumption == Chan \cap Int = {}
ASSUME MaxPidAssumption == MaxPid \in Nat \ {0}
ASSUME MemoryAssumption == MemoryMayFail \in BOOLEAN

VARIABLES state, pid, parent, chan, killed,   \* columns of ptable.proc
          context,   \* what swtch resumes: "forkret", "sleep" or "yield"
          pc,        \* the kernel code a process is in
          child,     \* fork's local p, 0 outside fork
          nextpid,
          proc,      \* mycpu()->proc, 0 when the scheduler runs
          cursor     \* the scheduler's p; NPROC+1 between two passes

vars == <<state, pid, parent, chan, killed, context, pc, child, nextpid, proc, cursor>>

Slot == 1 .. NPROC
ProcState == {"UNUSED", "EMBRYO", "SLEEPING", "RUNNABLE", "RUNNING", "ZOMBIE"}
PC == {"user", "syscall", "fork", "forkfds", "wait", "exit"}

\* userinit takes the first slot.
initproc == 1

\* No chan: the null pointer.
NoChan == 0

Live(s) == state[s] \in {"SLEEPING", "RUNNABLE", "RUNNING"}
ChildrenOf(p) == {s \in Slot : parent[s] = pid[p]}
\* Mutant of Zombies: the test of the parent is missing.
Zombies_of_anyone(p) == {s \in Slot : state[s] = "ZOMBIE"}

Zombies(p) == {s \in ChildrenOf(p) : state[s] = "ZOMBIE"}

Init ==
  /\ state = [s \in Slot |-> IF s = initproc THEN "RUNNABLE" ELSE "UNUSED"]
  /\ pid = [s \in Slot |-> IF s = initproc THEN 1 ELSE 0]
  /\ parent = [s \in Slot |-> 0]
  /\ chan = [s \in Slot |-> NoChan]
  /\ killed = [s \in Slot |-> FALSE]
  /\ context = [s \in Slot |-> "forkret"]
  /\ pc = [s \in Slot |-> "user"]
  /\ child = [s \in Slot |-> 0]
  /\ nextpid = 2
  /\ proc = 0
  /\ cursor = NPROC + 1

\* p has the CPU and is in one of the places at.
At(p, at) == proc = p /\ state[p] = "RUNNING" /\ pc[p] \in at

\* In user mode: trap() makes a killed process exit before it gets here.
InUser(p) == At(p, {"user"}) /\ ~killed[p]

Goto(p, where) == pc' = [pc EXCEPT ![p] = where]

(* -------------------------- the scheduler ----------------------------- *)

\* Mutant of sched: the scheduler's scan starts over at the first slot.
sched_restart(p, how) ==
  /\ context' = [context EXCEPT ![p] = how]
  /\ proc' = 0
  /\ cursor' = 1

\* sched: back to the scheduler's loop, which goes on with the next slot.
\* swtch saves where p will resume.
sched(p, how) ==
  /\ context' = [context EXCEPT ![p] = how]
  /\ proc' = 0
  /\ cursor' = cursor + 1

\* The scheduler's scan reaches the next RUNNABLE slot and switches to it.
\* A process that was in sleep() clears its channel before anything else.
scheduler(p) ==
  /\ proc = 0
  /\ p >= cursor
  /\ state[p] = "RUNNABLE"
  /\ \A q \in Slot : q >= cursor /\ q < p => state[q] # "RUNNABLE"
  /\ proc' = p
  /\ cursor' = p
  /\ state' = [state EXCEPT ![p] = "RUNNING"]
  /\ chan' = IF context[p] = "sleep" THEN [chan EXCEPT ![p] = NoChan] ELSE chan
  /\ UNCHANGED <<pid, parent, killed, context, pc, child, nextpid>>

\* The pass ends: ptable.lock is released and interrupts are enabled ...
scheduler_end ==
  /\ proc = 0
  /\ cursor <= NPROC
  /\ \A q \in Slot : q >= cursor => state[q] # "RUNNABLE"
  /\ cursor' = NPROC + 1
  /\ UNCHANGED <<state, pid, parent, chan, killed, context, pc, child, nextpid, proc>>

\* ... and the next pass starts at the first slot.
scheduler_begin ==
  /\ proc = 0
  /\ cursor = NPROC + 1
  /\ cursor' = 1
  /\ UNCHANGED <<state, pid, parent, chan, killed, context, pc, child, nextpid, proc>>

\* Interrupts can be taken: not during a pass of the scheduler, and not while
\* wait resumes with ptable.lock still held.
InterruptsOn ==
  \/ proc = 0 /\ cursor = NPROC + 1
  \/ proc \in Slot /\ pc[proc] # "wait"

\* The timer interrupt makes the running process yield.
yield(p) ==
  /\ At(p, PC \ {"wait"})
  /\ state' = [state EXCEPT ![p] = "RUNNABLE"]
  /\ sched(p, "yield")
  /\ UNCHANGED <<pid, parent, chan, killed, pc, child, nextpid>>

(* ------------------------- sleep and wakeup --------------------------- *)

\* A system call (or fork and exit, for the locks of the open files) sleeps
\* on a kernel channel.
sleep(p, ch) ==
  /\ \/ InUser(p)
     \/ At(p, {"syscall", "forkfds", "exit"})
  /\ pc' = IF pc[p] = "user" THEN [pc EXCEPT ![p] = "syscall"] ELSE pc
  /\ state' = FallAsleep(state, p)
  /\ chan' = SleepOn(chan, p, ch)
  /\ sched(p, "sleep")
  /\ UNCHANGED <<pid, parent, killed, child, nextpid>>

\* The system call ends; a killed process then exits.
syscall_return(p) ==
  /\ At(p, {"syscall"})
  /\ Goto(p, "user")
  /\ UNCHANGED <<state, pid, parent, chan, killed, context, child, nextpid, proc, cursor>>

\* An interrupt handler or the running process wakes a channel.
wakeup(ch) ==
  /\ InterruptsOn
  /\ state' = wakeup1(state, chan, ch)
  /\ UNCHANGED <<pid, parent, chan, killed, context, pc, child, nextpid, proc, cursor>>

(* ------------------------------- fork --------------------------------- *)

\* Mutant of allocproc: the pid is used again.
allocproc_same_pid(p) ==
  /\ InUser(p)
  /\ nextpid <= MaxPid
  /\ \E c \in Slot :
       /\ state[c] = "UNUSED"
       /\ \A d \in Slot : d < c => state[d] # "UNUSED"
       /\ state' = [state EXCEPT ![c] = "EMBRYO"]
       /\ pid' = [pid EXCEPT ![c] = nextpid]
       /\ killed' = [killed EXCEPT ![c] = FALSE]
       /\ child' = [child EXCEPT ![p] = c]
  /\ Goto(p, "fork")
  /\ UNCHANGED <<parent, chan, context, nextpid, proc, cursor>>

\* allocproc, its critical section: the first UNUSED slot becomes an EMBRYO
\* with a fresh pid.  (With no such slot fork returns -1 and nothing changes.)
allocproc(p) ==
  /\ InUser(p)
  /\ nextpid <= MaxPid
  /\ \E c \in Slot :
       /\ state[c] = "UNUSED"
       /\ \A d \in Slot : d < c => state[d] # "UNUSED"
       /\ state' = [state EXCEPT ![c] = "EMBRYO"]
       /\ pid' = [pid EXCEPT ![c] = nextpid]
       /\ killed' = [killed EXCEPT ![c] = FALSE]
       /\ child' = [child EXCEPT ![p] = c]
  /\ nextpid' = nextpid + 1
  /\ Goto(p, "fork")
  /\ UNCHANGED <<parent, chan, context, proc, cursor>>

\* No page for the kernel stack: allocproc gives the slot back.
fork_nostack(p) ==
  /\ MemoryMayFail
  /\ At(p, {"fork"})
  /\ state' = [state EXCEPT ![child[p]] = "UNUSED"]
  /\ child' = [child EXCEPT ![p] = 0]
  /\ Goto(p, "user")
  /\ UNCHANGED <<pid, parent, chan, killed, context, nextpid, proc, cursor>>

\* vspaceinit or vspacecowcopy fails: fork returns -1 and the slot stays EMBRYO.
fork_nomem(p) ==
  /\ MemoryMayFail
  /\ At(p, {"fork"})
  /\ child' = [child EXCEPT ![p] = 0]
  /\ context' = [context EXCEPT ![child[p]] = "forkret"]
  /\ Goto(p, "user")
  /\ UNCHANGED <<state, pid, parent, chan, killed, nextpid, proc, cursor>>

\* The address space is copied and the parent recorded; the loop over the
\* open files comes next, which may sleep.
fork_copy(p) ==
  /\ At(p, {"fork"})
  /\ parent' = [parent EXCEPT ![child[p]] = pid[p]]
  /\ context' = [context EXCEPT ![child[p]] = "forkret"]
  /\ Goto(p, "forkfds")
  /\ UNCHANGED <<state, pid, chan, killed, child, nextpid, proc, cursor>>

\* The end of fork, which makes the child RUNNABLE without ptable.lock.
fork_run(p) ==
  /\ At(p, {"forkfds"})
  /\ chan' = [chan EXCEPT ![child[p]] = pid[child[p]]]
  /\ state' = [state EXCEPT ![child[p]] = "RUNNABLE"]
  /\ pc' = [pc EXCEPT ![p] = "user", ![child[p]] = "user"]
  /\ child' = [child EXCEPT ![p] = 0]
  /\ UNCHANGED <<pid, parent, killed, context, nextpid, proc, cursor>>

(* --------------------------- exit and wait ---------------------------- *)

\* exit is called, or forced on a killed process, and closes the files first.
\* initproc may exit like any other: user/init.c does when its fork fails.
exit_close(p) ==
  /\ At(p, {"user"})
  /\ Goto(p, "exit")
  /\ UNCHANGED <<state, pid, parent, chan, killed, context, child, nextpid, proc, cursor>>

\* Mutants of exit: the children keep their parent; the parent is not woken.
exit_keep_children(p) ==
  /\ At(p, {"exit"})
  /\ state' = wakeup1([state EXCEPT ![p] = "ZOMBIE"], chan, parent[p])
  /\ sched(p, "yield")
  /\ UNCHANGED <<pid, parent, chan, killed, pc, child, nextpid>>
exit_no_wakeup(p) ==
  /\ At(p, {"exit"})
  /\ parent' = [s \in Slot |-> IF parent[s] = pid[p] THEN pid[initproc] ELSE parent[s]]
  /\ state' = [state EXCEPT ![p] = "ZOMBIE"]
  /\ sched(p, "yield")
  /\ UNCHANGED <<pid, chan, killed, pc, child, nextpid>>

\* exit, its critical section: the children go to initproc, the process is a
\* ZOMBIE, whoever waits on its parent's pid is woken, and sched never returns.
exit(p) ==
  /\ At(p, {"exit"})
  /\ parent' = [s \in Slot |-> IF parent[s] = pid[p] THEN pid[initproc] ELSE parent[s]]
  /\ state' = wakeup1([state EXCEPT ![p] = "ZOMBIE"], chan, parent'[p])
  /\ sched(p, "yield")
  /\ UNCHANGED <<pid, chan, killed, pc, child, nextpid>>

\* wait finds its first ZOMBIE child, frees it and returns its pid.
wait_reap(p) ==
  /\ \E c \in Zombies(p) :
       /\ \A d \in Zombies(p) : c <= d
       /\ state' = [state EXCEPT ![c] = "UNUSED"]
       /\ parent' = [parent EXCEPT ![c] = -1]
  /\ Goto(p, "user")
  /\ UNCHANGED <<pid, chan, killed, context, child, nextpid, proc, cursor>>

\* wait returns -1: no children.
wait_none(p) ==
  /\ ChildrenOf(p) = {}
  /\ Goto(p, "user")
  /\ UNCHANGED <<state, pid, parent, chan, killed, context, child, nextpid, proc, cursor>>

\* wait has children, none of them a ZOMBIE: sleep on its own pid.
wait_sleep(p) ==
  /\ ChildrenOf(p) # {}
  /\ Zombies(p) = {}
  /\ state' = FallAsleep(state, p)
  /\ chan' = SleepOn(chan, p, pid[p])
  /\ sched(p, "sleep")
  /\ Goto(p, "wait")
  /\ UNCHANGED <<pid, parent, killed, child, nextpid>>

\* One turn of wait's loop: on the call, and again each time it is woken.
wait(p) ==
  /\ InUser(p) \/ At(p, {"wait"})
  /\ wait_reap(p) \/ wait_none(p) \/ wait_sleep(p)

(* ------------------------------- kill --------------------------------- *)

\* p calls kill(k): the first slot with that pid is marked, whatever its
\* state, and woken if it sleeps.
kill(p, k) ==
  /\ InUser(p)
  /\ k < nextpid
  /\ \E s \in Slot :
       /\ pid[s] = k
       /\ \A t \in Slot : t < s => pid[t] # k
       /\ killed' = [killed EXCEPT ![s] = TRUE]
       /\ state' = IF state[s] = "SLEEPING" THEN [state EXCEPT ![s] = "RUNNABLE"] ELSE state
  /\ UNCHANGED <<pid, parent, chan, context, pc, child, nextpid, proc, cursor>>

Kernel(p) ==
  \/ yield(p) \/ syscall_return(p) \/ (\E ch \in Chan : sleep(p, ch))
  \/ allocproc(p) \/ fork_nostack(p) \/ fork_nomem(p) \/ fork_copy(p) \/ fork_run(p)
  \/ exit_close(p) \/ exit(p) \/ wait(p) \/ (\E k \in 1 .. MaxPid : kill(p, k))

Scheduler == (\E p \in Slot : scheduler(p)) \/ scheduler_end \/ scheduler_begin

Next ==
  \/ Scheduler
  \/ \E p \in Slot : Kernel(p)
  \/ \E ch \in Chan : wakeup(ch)

Spec == Init /\ [][Next]_vars

\* Fairness.  The scheduler's loop never stops, the timer interrupt comes
\* again and again, and code that runs with interrupts off gets to its end.
Fairness ==
  /\ WF_vars(Scheduler)
  /\ WF_vars(\E p \in Slot : yield(p))
  /\ WF_vars(\E p \in Slot : At(p, {"wait"}) /\ wait(p))

FairSpec == Spec /\ Fairness

\* user/init.c goes on: initproc finishes each fork and calls wait in a loop,
\* until it is killed and exits at its next trap.
InitGoesOn ==
  \/ fork_copy(initproc) \/ fork_run(initproc) \/ syscall_return(initproc)
  \/ wait(initproc) \/ (killed[initproc] /\ exit_close(initproc))

\* In addition initproc goes on and an exit that began comes to its end: strong
\* fairness, as these steps need the CPU.
InitWaitsSpec ==
  FairSpec /\ SF_vars(InitGoesOn) /\ SF_vars(\E p \in Slot : exit(p))

(* ----------------------------- properties ----------------------------- *)

\* The columns of the table, the scheduler's cursor and nextpid keep their ranges.
TypeOK ==
  /\ state \in [Slot -> ProcState]
  /\ pid \in [Slot -> Nat]
  /\ parent \in [Slot -> Nat \cup {-1}]
  /\ chan \in [Slot -> Nat \cup Chan]
  /\ killed \in [Slot -> BOOLEAN]
  /\ context \in [Slot -> {"forkret", "sleep", "yield"}]
  /\ pc \in [Slot -> PC]
  /\ child \in [Slot -> Slot \cup {0}]
  /\ nextpid \in Nat
  /\ proc \in Slot \cup {0}
  /\ cursor \in 1 .. NPROC + 1

\* The process on the CPU, mycpu()->proc, is the one the table says is
\* RUNNING, through every sched, sleep, exit and wait.
OneRunning == \A s \in Slot : state[s] = "RUNNING" <=> proc = s

\* kill and wait look a process up by its pid, and slots that were reaped keep
\* their old one: the pid of a slot in use names that slot and no other.
PidNamesOneSlot ==
  \A s, t \in Slot : state[s] # "UNUSED" /\ pid[s] = pid[t] => s = t

\* Every process but the first has a parent that can still call wait, or else
\* initproc, which has the orphans even after an exit of its own: through any
\* order of fork, exit, reparenting and reuse of slots no process is the child
\* of a slot that was reaped, given to another process, or is any other ZOMBIE.
ParentAlive ==
  \A s \in Slot \ {initproc} :
    Live(s) \/ state[s] = "ZOMBIE" =>
      \E q \in Slot :
        /\ q # s /\ pid[q] = parent[s]
        /\ Live(q) \/ (q = initproc /\ state[q] = "ZOMBIE")

\* A process asleep in wait has a child that is alive: the exit it waits for
\* is still to come, so it has not missed the wakeup.  (initproc may miss it.)
WaiterHasLiveChild ==
  \A p \in Slot \ {initproc} :
    state[p] = "SLEEPING" /\ pc[p] = "wait" =>
      /\ ChildrenOf(p) # {}
      /\ \A c \in ChildrenOf(p) : Live(c)

\* The slot a fork is filling belongs to that fork alone and is not scheduled,
\* killed into running or reaped before fork marks it RUNNABLE.
ForkOwnsEmbryo ==
  \A p \in Slot :
    pc[p] \in {"fork", "forkfds"} /\ state[p] # "UNUSED" =>
      /\ child[p] \in Slot /\ state[child[p]] = "EMBRYO"
      /\ \A q \in Slot : q # p => child[q] # child[p]

\* A slot leaves ZOMBIE only to be free again, and only when the process it
\* names as its parent is the one running, in wait.
OnlyParentReaps ==
  [][\A s \in Slot :
       state[s] = "ZOMBIE" /\ state'[s] # "ZOMBIE" =>
         /\ state'[s] = "UNUSED"
         /\ proc \in Slot /\ pid[proc] = parent[s]]_vars

\* Round robin: whatever the others do, a RUNNABLE process gets the CPU.
RunnableRuns == \A s \in Slot : state[s] = "RUNNABLE" ~> state[s] = "RUNNING"

\* An exited process whose parent exited without waiting for it is reclaimed
\* by initproc, which calls wait in a loop, unless initproc has exited.
OrphanReclaimed ==
  \A s \in Slot :
    (state[s] = "ZOMBIE" /\ parent[s] = pid[initproc]) ~>
      (state[s] = "UNUSED" \/ state[initproc] = "ZOMBIE")
=============================================================================
