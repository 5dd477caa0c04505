------------------------------- MODULE Pipe -------------------------------
(***************************************************************************)
(* The pipe of kernel/file.c after pipe_open and the forks that shared     *)
(* its ends: pipe_read, pipe_write and pipe_close by several processes.    *)
(*                                                                         *)
(* All readers share one file_info and all writers another; each has a     *)
(* sleep lock.  The ring buffer is protected by the spinlock pipe_lock,    *)
(* which keeps interrupts off: a step runs from taking it to giving it up  *)
(* or to the switch in sleep.  sched panics when a process goes to sleep   *)
(* on a sleep lock with pipe_lock held; then the machine stops.            *)
(***************************************************************************)
EXTENDS Integers, Sequences, FiniteSets, SleepWakeup

CONSTANTS Reader, Writer,
          Size,                  \* total_size, the bytes of the ring
          ReadSize, WriteSize,   \* the values of n in read and write
          MaxWrites,             \* bound: write calls per writer
          Sharing                \* which processes may have the pipe open

ASSUME SizeAssumption == Size \in Nat \ {0}
ASSUME CountAssumption == ReadSize \subseteq Nat /\ WriteSize \subseteq Nat
ASSUME ProcAssumption == Reader \cap Writer = {} /\ IsFiniteSet(Reader \cup Writer)
ASSUME MaxWritesAssumption == MaxWrites \in Nat
ASSUME SharingAssumption ==
  \A P \in Sharing : P \subseteq Reader \cup Writer /\ P \cap Reader # {} /\ P \cap Writer # {}

VARIABLES
  buffer, read_offset, write_offset, available_bytes,   \* struct pipe
  read_open, write_open,
  lock, ref_count,     \* of the two file_infos, indexed by End
  state, chan,         \* of the process table
  pc, n, idx,          \* each process's place in its call, and its locals
  panicked,
  calls, sent, received, eof   \* history: what was written, read and returned

pipe == <<buffer, read_offset, write_offset, available_bytes, read_open, write_open>>
history == <<calls, sent, received, eof>>
vars == <<pipe, lock, ref_count, state, chan, pc, n, idx, panicked, history>>

Process == Reader \cup Writer
End == {"read", "write"}
EndOf(p) == IF p \in Reader THEN "read" ELSE "write"
NoProc == "none"
ASSUME NameAssumption == NoProc \notin Process

\* A byte remembers the write it belongs to and its place in it.
Byte == [by : Writer, call : 1 .. MaxWrites, at : Nat]

\* What a fresh page holds.
NoByte == [by |-> NoProc, call |-> 0, at |-> 0]

\* After the forks that followed pipe_open, the processes of some set in Sharing
\* have their end open.
Init == \E Open \in Sharing :
  /\ buffer = [i \in 0 .. Size - 1 |-> NoByte]
  /\ read_offset = 0 /\ write_offset = 0 /\ available_bytes = 0
  /\ read_open = TRUE /\ write_open = TRUE
  /\ lock = [e \in End |-> NoProc]
  /\ ref_count = [e \in End |-> Cardinality({p \in Open : EndOf(p) = e})]
  /\ state = [p \in Process |-> "RUNNABLE"]
  /\ chan = [p \in Process |-> "none"]
  /\ pc = [p \in Process |-> IF p \in Open THEN "idle" ELSE "closed"]
  /\ n = [p \in Process |-> 0]
  /\ idx = [p \in Process |-> 0]
  /\ panicked = FALSE
  /\ calls = [w \in Writer |-> 0]
  /\ sent = <<>> /\ received = <<>>
  /\ eof = [r \in Reader |-> FALSE]

At(p, where) == ~panicked /\ state[p] = "RUNNABLE" /\ pc[p] = where
Goto(p, where) == pc' = [pc EXCEPT ![p] = where]

(* --------------------- the file_info's sleep lock --------------------- *)

\* acquiresleep(&fi->lock), with no spinlock held: one turn of its loop.
acquiresleep(p, from, to) ==
  /\ At(p, from)
  /\ \/ /\ lock[EndOf(p)] = NoProc
        /\ lock' = [lock EXCEPT ![EndOf(p)] = p]
        /\ Goto(p, to)
        /\ UNCHANGED <<state, chan>>
     \/ /\ lock[EndOf(p)] # NoProc
        /\ state' = FallAsleep(state, p)
        /\ chan' = SleepOn(chan, p, EndOf(p))
        /\ UNCHANGED <<lock, pc>>
  /\ UNCHANGED <<pipe, ref_count, n, idx, panicked, history>>

\* releasesleep(&fi->lock) at the end of a call.
releasesleep(p, from, to) ==
  /\ At(p, from)
  /\ lock' = [lock EXCEPT ![EndOf(p)] = NoProc]
  /\ state' = wakeup1(state, chan, EndOf(p))
  /\ Goto(p, to)
  /\ UNCHANGED <<pipe, ref_count, chan, n, idx, panicked, history>>

(* ----------------------------- pipe_read ------------------------------ *)

Least(a, b) == IF a <= b THEN a ELSE b

\* Mutant of Contents: the bytes are taken from the start of the ring.
Contents_from_start == [i \in 1 .. available_bytes |-> buffer[(i - 1) % Size]]

\* The bytes in the ring, oldest first.
Contents == [i \in 1 .. available_bytes |-> buffer[(read_offset + i - 1) % Size]]

call_read(r) ==
  /\ At(r, "idle")
  /\ ~eof[r]
  /\ \E k \in ReadSize : n' = [n EXCEPT ![r] = k]
  /\ Goto(r, "read_lock")
  /\ UNCHANGED <<pipe, lock, ref_count, state, chan, idx, panicked, history>>

\* Mutant of read_wait: the writers are not woken.
read_wait_silent(r) ==
  /\ available_bytes = 0 /\ write_open
  /\ lock' = [lock EXCEPT !["read"] = NoProc]
  /\ state' = FallAsleep(wakeup1(state, chan, "read"), r)
  /\ chan' = SleepOn(chan, r, "active_readers")
  /\ Goto(r, "read_wait")
  /\ UNCHANGED <<pipe, history>>

\* The loop found an empty pipe with a write end: wake the writers, give up
\* the file_info and sleep.  Its lock is free again for the other readers.
read_wait(r) ==
  /\ available_bytes = 0 /\ write_open
  /\ lock' = [lock EXCEPT !["read"] = NoProc]
  /\ state' = FallAsleep(wakeup1(wakeup1(state, chan, "active_writer"), chan, "read"), r)
  /\ chan' = SleepOn(chan, r, "active_readers")
  /\ Goto(r, "read_wait")
  /\ UNCHANGED <<pipe, history>>

\* End of file: no data and no write end.
read_eof(r) ==
  /\ available_bytes = 0 /\ ~write_open
  /\ lock' = [lock EXCEPT !["read"] = r]
  /\ eof' = [eof EXCEPT ![r] = TRUE]
  /\ Goto(r, "read_unlock")
  /\ UNCHANGED <<pipe, state, chan, calls, sent, received>>

\* Take what there is, up to n bytes.  No writer is woken.
read_bytes(r) ==
  LET k == Least(n[r], available_bytes) IN
  /\ available_bytes > 0
  /\ lock' = [lock EXCEPT !["read"] = r]
  /\ received' = received \o SubSeq(Contents, 1, k)
  /\ read_offset' = (read_offset + k) % Size
  /\ available_bytes' = available_bytes - k
  /\ Goto(r, "read_unlock")
  /\ UNCHANGED <<buffer, write_offset, read_open, write_open, state, chan, calls, sent, eof>>

\* pipe_read with pipe_lock held.  A reader that comes out of sleep() takes
\* its file_info's lock again here, inside pipe_lock.
pipe_read(r) ==
  /\ \/ At(r, "read_pipe")
     \/ At(r, "read_wait") /\ lock["read"] = NoProc
  /\ read_wait(r) \/ read_eof(r) \/ read_bytes(r)
  /\ UNCHANGED <<ref_count, n, idx, panicked>>

\* The same, when another reader holds the file_info: acquiresleep sleeps with
\* pipe_lock held, and sched panics.
pipe_read_panic(r) ==
  /\ At(r, "read_wait") /\ lock["read"] # NoProc
  /\ panicked' = TRUE
  /\ UNCHANGED <<pipe, lock, ref_count, state, chan, pc, n, idx, history>>

(* ----------------------------- pipe_write ----------------------------- *)

call_write(w) ==
  /\ At(w, "idle")
  /\ calls[w] < MaxWrites
  /\ calls' = [calls EXCEPT ![w] = @ + 1]
  /\ \E k \in WriteSize : n' = [n EXCEPT ![w] = k]
  /\ idx' = [idx EXCEPT ![w] = 0]
  /\ Goto(w, "write_lock")
  /\ UNCHANGED <<pipe, lock, ref_count, state, chan, panicked, sent, received, eof>>

\* The inner loop: k bytes from buf[idx] on, into the ring from write_offset on.
Fill(w, k) ==
  LET byte(i) == [by |-> w, call |-> calls[w], at |-> idx[w] + i] IN
  /\ buffer' = [j \in 0 .. Size - 1 |->
                  LET i == (j - write_offset) % Size
                  IN  IF i < k THEN byte(i) ELSE buffer[j]]
  /\ write_offset' = (write_offset + k) % Size
  /\ available_bytes' = available_bytes + k
  /\ idx' = [idx EXCEPT ![w] = @ + k]
  /\ sent' = sent \o [i \in 1 .. k |-> byte(i - 1)]
  /\ UNCHANGED <<read_offset, read_open, write_open>>

\* No read end: -1 if nothing was written yet, else the count so far.
write_broken(w) ==
  /\ idx[w] < n[w] /\ ~read_open
  /\ Goto(w, IF idx[w] = 0 THEN "write_unlock" ELSE "write_wakeup")
  /\ UNCHANGED <<pipe, state, chan, idx, sent>>

\* No bytes left to write.
write_nothing(w) ==
  /\ idx[w] = n[w]
  /\ Goto(w, "write_wakeup")
  /\ UNCHANGED <<pipe, state, chan, idx, sent>>

\* The rest fits into the ring.
write_rest(w) ==
  /\ idx[w] < n[w] /\ read_open
  /\ n[w] - idx[w] <= Size - available_bytes
  /\ Fill(w, n[w] - idx[w])
  /\ Goto(w, "write_wakeup")
  /\ UNCHANGED <<state, chan>>

\* Mutant of write_wait: a write that does not fit ends early.
write_wait_short(w) ==
  /\ idx[w] < n[w] /\ read_open
  /\ n[w] - idx[w] > Size - available_bytes
  /\ Fill(w, Size - available_bytes)
  /\ Goto(w, "write_wakeup")
  /\ UNCHANGED <<state, chan>>

\* It does not: fill the ring, wake the readers and sleep until there is room.
write_wait(w) ==
  /\ idx[w] < n[w] /\ read_open
  /\ n[w] - idx[w] > Size - available_bytes
  /\ Fill(w, Size - available_bytes)
  /\ state' = FallAsleep(wakeup1(state, chan, "active_readers"), w)
  /\ chan' = SleepOn(chan, w, "active_writer")
  /\ Goto(w, "write_pipe")

\* One turn of pipe_write's loop, with pipe_lock held.
pipe_write(w) ==
  /\ At(w, "write_pipe")
  /\ write_broken(w) \/ write_nothing(w) \/ write_rest(w) \/ write_wait(w)
  /\ UNCHANGED <<lock, ref_count, n, panicked, calls, received, eof>>

\* The wakeup after pipe_lock was released.
write_wakeup(w) ==
  /\ At(w, "write_wakeup")
  /\ state' = wakeup1(state, chan, "active_readers")
  /\ Goto(w, "write_unlock")
  /\ UNCHANGED <<pipe, lock, ref_count, chan, n, idx, panicked, history>>

(* ----------------------------- pipe_close ----------------------------- *)

call_close(p) ==
  /\ At(p, "idle")
  /\ Goto(p, "close_lock")
  /\ UNCHANGED <<pipe, lock, ref_count, state, chan, n, idx, panicked, history>>

\* pipe_close with pipe_lock held: the last descriptor of an end marks that
\* end closed and wakes the other side.
pipe_close(p) ==
  LET e == EndOf(p)
      last == ref_count[e] = 1
  IN
  /\ At(p, "close_pipe")
  /\ ref_count' = [ref_count EXCEPT ![e] = @ - 1]
  /\ read_open' = (read_open /\ ~(last /\ e = "read"))
  /\ write_open' = (write_open /\ ~(last /\ e = "write"))
  /\ state' = IF last THEN wakeup1(state, chan, IF e = "read" THEN "active_writer"
                                                              ELSE "active_readers")
                      ELSE state
  /\ Goto(p, "close_unlock")
  /\ UNCHANGED <<buffer, read_offset, write_offset, available_bytes, lock, chan, n, idx,
                 panicked, history>>

\* kill wakes a sleeper; the loops it sleeps in do not look at p->killed.
kill(p) ==
  /\ ~panicked /\ state[p] = "SLEEPING"
  /\ state' = [state EXCEPT ![p] = "RUNNABLE"]
  /\ UNCHANGED <<pipe, lock, ref_count, chan, pc, n, idx, panicked, history>>

\* Nothing more happens: all descriptors are closed, or the kernel panicked.
Stopped ==
  /\ panicked \/ \A p \in Process : pc[p] = "closed"
  /\ UNCHANGED vars

Read(r) ==
  \/ acquiresleep(r, "read_lock", "read_pipe") \/ pipe_read(r) \/ pipe_read_panic(r)
  \/ releasesleep(r, "read_unlock", "idle")

Write(w) ==
  \/ acquiresleep(w, "write_lock", "write_pipe") \/ pipe_write(w) \/ write_wakeup(w)
  \/ releasesleep(w, "write_unlock", "idle")

Close(p) ==
  \/ acquiresleep(p, "close_lock", "close_pipe") \/ pipe_close(p)
  \/ releasesleep(p, "close_unlock", "closed")

\* The kernel's part of a call, as opposed to the decision to make one.
InCall(p) == (p \in Reader /\ Read(p)) \/ (p \in Writer /\ Write(p)) \/ Close(p)

Next ==
  \/ \E r \in Reader : call_read(r)
  \/ \E w \in Writer : call_write(w)
  \/ \E p \in Process : call_close(p) \/ InCall(p) \/ kill(p)
  \/ Stopped

Spec == Init /\ [][Next]_vars

\* A process that can run in the kernel runs (RunnableRuns of Proc).  Readers
\* read until the end of file or close, and writers close in the end, as the
\* commands of a shell's pipeline do.
FairSpec ==
  /\ Spec
  /\ \A p \in Process : WF_vars(InCall(p))
  /\ \A r \in Reader : WF_vars(call_read(r) \/ call_close(r))
  /\ \A w \in Writer : WF_vars(call_close(w))

(* ----------------------------- properties ----------------------------- *)

\* The writer whose write is going on: it has the write end's file_info.
turn == IF lock["write"] \in Writer /\ pc[lock["write"]] \in {"write_pipe", "write_wakeup", "write_unlock"}
        THEN lock["write"] ELSE NoProc

\* The pipe implements a bounded byte stream: first in first out through the
\* wrap-around of the ring, and no write's bytes mixed with another's.
S == INSTANCE PipeStream
StreamSpec == S!Spec

\* What the calls return is true.  write returns fewer bytes than asked for only
\* when no read end is open: partial writes are not allowed.  read says end of
\* file only when every byte ever written has been read, and after it none is
\* written.
ResultsTrue ==
  /\ \A w \in Writer :
       pc[w] \in {"write_wakeup", "write_unlock"} => idx[w] = n[w] \/ ~read_open
  /\ (\E r \in Reader : eof[r]) => ~write_open /\ received = sent

\* Every write returns while readers keep reading, and every read returns,
\* with data or at the end of file (unless sched panics).
ReadsAndWritesReturn ==
  \A p \in Process : pc[p] \in {"read_lock", "write_lock"} ~> pc[p] \in {"idle", "closed"} \/ panicked
=============================================================================
