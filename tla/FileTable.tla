----------------------------- MODULE FileTable -----------------------------
(***************************************************************************)
(* Open files of kernel/file.c: the table global_files shared by all       *)
(* processes, and the descriptors fds of each process.  file_open,         *)
(* file_dup, file_close, file_read, pipe_open, and the parts of fork and   *)
(* exit that copy and close descriptors.                                   *)
(*                                                                         *)
(* Each entry of the table has a sleep lock, used here as the mutex that   *)
(* SleepLock shows it to be.  A short section under that lock is one step, *)
(* possible while the lock is free; file_read keeps the lock across the    *)
(* disk.  Between two sections any other process may run.                  *)
(***************************************************************************)
EXTENDS Integers, FiniteSets

CONSTANTS Proc, FirstProc,    \* processes; FirstProc runs at the start
          NFILE, NOFILE,      \* entries of global_files, descriptors of a process
          Inode, FileSize,    \* files on disk, bytes in each
          Calls,              \* the system calls the processes make
          MemoryMayFail,      \* whether kalloc may return 0
          MaxOpens            \* bound: calls of open and pipe

ASSUME FirstProcAssumption == FirstProc \in Proc
ASSUME NFILEAssumption == NFILE \in Nat \ {0}
ASSUME NOFILEAssumption == NOFILE \in Nat \ {0}
ASSUME InodeAssumption == Inode \subseteq Nat \ {0} /\ FileSize \in Nat
ASSUME CallsAssumption == Calls \subseteq {"open", "dup", "close", "read", "pipe", "fork"}
ASSUME BoundAssumption == MemoryMayFail \in BOOLEAN /\ MaxOpens \in Nat

VARIABLES
  ref_count, in, offset,   \* columns of global_files; in is an inode or what p is
  lock,                    \* holder of an entry's sleep lock
  fds,                     \* p->fds: an entry of global_files or 0
  iref,                    \* references to the inodes
  pc, slot, fd, other, id, \* place in a call, its locals
  stopped,                 \* the call that stopped the machine, if one did
  opens,                   \* history: files opened so far
  file, mine,              \* history: which open file an entry, a descriptor is
  seen,                    \* history: bytes of that open file read so far
  leaked                   \* history: references of an entry that no call can drop

globals == <<ref_count, in, offset, file, seen>>
locals == <<pc, slot, fd, other, id>>
vars == <<globals, lock, fds, iref, locals, stopped, opens, mine, leaked>>

Slot == 1 .. NFILE
Fd == 1 .. NOFILE
NULL == 0
PipeEnd == -1   \* contents of an entry with p # NULL
NoProc == "none"
Unread == [b \in 0 .. FileSize - 1 |-> 0]   \* how often each byte was read

Init ==
  /\ ref_count = [i \in Slot |-> 0]
  /\ in = [i \in Slot |-> NULL]
  /\ offset = [i \in Slot |-> 0]
  /\ file = [i \in Slot |-> 0]
  /\ seen = [i \in Slot |-> Unread]
  /\ lock = [i \in Slot |-> NoProc]
  /\ fds = [p \in Proc |-> [f \in Fd |-> NULL]]
  /\ mine = [p \in Proc |-> [f \in Fd |-> 0]]
  /\ iref = [n \in Inode |-> 0]
  /\ pc = [p \in Proc |-> IF p = FirstProc THEN "user" ELSE "unused"]
  /\ slot = [p \in Proc |-> 0]
  /\ fd = [p \in Proc |-> 0]
  /\ other = [p \in Proc |-> 0]
  /\ id = [p \in Proc |-> 0]
  /\ stopped = "no"
  /\ opens = 0
  /\ leaked = [i \in Slot |-> 0]

At(p, where) == stopped = "no" /\ pc[p] = where
Goto(p, where) == pc' = [pc EXCEPT ![p] = where]
\* The call returns to user mode; its locals are gone.
Return(p) ==
  /\ Goto(p, "user")
  /\ slot' = [slot EXCEPT ![p] = 0]
  /\ fd' = [fd EXCEPT ![p] = 0]
  /\ other' = [other EXCEPT ![p] = 0]
  /\ id' = [id EXCEPT ![p] = 0]

Free(i) == lock[i] = NoProc

FreeFds(p) == {f \in Fd : fds[p][f] = NULL}
Lowest(S) == CHOOSE f \in S : \A g \in S : f <= g

(* ------------------------------ file_open ----------------------------- *)

\* iopen takes a reference to the inode.
open_inode(p) ==
  /\ At(p, "user") /\ "open" \in Calls /\ opens < MaxOpens
  /\ \E n \in Inode :
       /\ iref' = [iref EXCEPT ![n] = @ + 1]
       /\ other' = [other EXCEPT ![p] = n]
  /\ opens' = opens + 1
  /\ id' = [id EXCEPT ![p] = opens + 1]
  /\ slot' = [slot EXCEPT ![p] = 1]
  /\ Goto(p, "open")
  /\ UNCHANGED <<globals, lock, fds, fd, stopped, mine, leaked>>

\* Entry i of the table becomes a new open file with one reference.
Claim(i, content, name) ==
  /\ ref_count' = [ref_count EXCEPT ![i] = 1]
  /\ in' = [in EXCEPT ![i] = content]
  /\ offset' = [offset EXCEPT ![i] = 0]
  /\ file' = [file EXCEPT ![i] = name]
  /\ seen' = [seen EXCEPT ![i] = Unread]

\* One turn of the loop over the table.
open_scan(p) ==
  LET i == slot[p] IN
  /\ At(p, "open")
  /\ i \in Slot /\ Free(i)
  /\ \/ /\ ref_count[i] = 0
        /\ Claim(i, other[p], id[p])
        /\ Goto(p, "open_fd")
        /\ UNCHANGED slot
     \/ /\ ref_count[i] # 0
        /\ slot' = [slot EXCEPT ![p] = i + 1]
        /\ UNCHANGED <<globals, pc>>
  /\ UNCHANGED <<lock, fds, iref, fd, other, id, stopped, opens, mine, leaked>>

irelease(n) == iref' = [iref EXCEPT ![n] = @ - 1]

\* Mutant of open_full: the inode is kept.
open_full_keep(p) ==
  /\ At(p, "open") /\ slot[p] > NFILE
  /\ Return(p)
  /\ UNCHANGED <<globals, lock, fds, iref, stopped, opens, mine, leaked>>

\* The table is full: give the inode back.
open_full(p) ==
  /\ At(p, "open") /\ slot[p] > NFILE
  /\ irelease(other[p])
  /\ Return(p)
  /\ UNCHANGED <<globals, lock, fds, stopped, opens, mine, leaked>>

\* The lowest free descriptor gets the entry.  If there is none the inode is
\* given back, but not the entry: its count stays 1, with no descriptor to close.
open_fd(p) ==
  /\ At(p, "open_fd")
  /\ \/ /\ FreeFds(p) # {}
        /\ fds' = [fds EXCEPT ![p][Lowest(FreeFds(p))] = slot[p]]
        /\ mine' = [mine EXCEPT ![p][Lowest(FreeFds(p))] = id[p]]
        /\ UNCHANGED <<iref, leaked>>
     \/ /\ FreeFds(p) = {}
        /\ irelease(other[p])
        /\ leaked' = [leaked EXCEPT ![slot[p]] = @ + 1]
        /\ UNCHANGED <<fds, mine>>
  /\ Return(p)
  /\ UNCHANGED <<globals, lock, stopped, opens>>

\* The check of a descriptor in every system call that takes one.
argfd(p, f) == fds[p][f] # NULL /\ ref_count[fds[p][f]] # 0

(* ------------------------------ file_dup ------------------------------ *)

\* The new descriptor is set first, the reference is counted afterwards.
dup_fd(p, f) ==
  LET g == Lowest(FreeFds(p)) IN
  /\ At(p, "user") /\ "dup" \in Calls
  /\ argfd(p, f)
  /\ FreeFds(p) # {}
  /\ fds' = [fds EXCEPT ![p][g] = fds[p][f]]
  /\ mine' = [mine EXCEPT ![p][g] = mine[p][f]]
  /\ fd' = [fd EXCEPT ![p] = g]
  /\ Goto(p, "dup")
  /\ UNCHANGED <<globals, lock, iref, slot, other, id, stopped, opens, leaked>>

\* Mutant of dup_ref: the new reference is not counted.
dup_ref_uncounted(p) ==
  /\ At(p, "dup") /\ Free(fds[p][fd[p]])
  /\ Return(p)
  /\ UNCHANGED <<globals, lock, fds, iref, stopped, opens, mine, leaked>>

dup_ref(p) ==
  LET i == fds[p][fd[p]] IN
  /\ At(p, "dup") /\ Free(i)
  /\ ref_count' = [ref_count EXCEPT ![i] = @ + 1]
  /\ Return(p)
  /\ UNCHANGED <<in, offset, file, seen, lock, fds, iref, stopped, opens, mine, leaked>>

\* With every descriptor in use the test fd_index > NOFILE lets fds[NOFILE]
\* through, which is the int `parent`: the kernel faults on that address.
dup_full(p, f) ==
  /\ At(p, "user") /\ "dup" \in Calls
  /\ argfd(p, f)
  /\ FreeFds(p) = {}
  /\ stopped' = "dup"
  /\ UNCHANGED <<globals, lock, fds, iref, locals, opens, mine, leaked>>

(* ------------------------- file_close and exit ------------------------ *)

\* Under the entry's lock, one reference less.  The last one gives the inode
\* back, or lets go of the pipe.
DropReference(p, f, next) ==
  LET i == fds[p][f]
      last == ref_count[i] = 1 IN
  /\ Free(i)
  /\ ref_count' = [ref_count EXCEPT ![i] = @ - 1]
  /\ in' = [in EXCEPT ![i] = IF last THEN NULL ELSE @]
  /\ IF last /\ in[i] \in Inode THEN irelease(in[i]) ELSE UNCHANGED iref
  /\ file' = [file EXCEPT ![i] = IF last THEN 0 ELSE @]
  /\ seen' = [seen EXCEPT ![i] = IF last THEN Unread ELSE @]
  /\ fd' = [fd EXCEPT ![p] = f]
  /\ Goto(p, next)
  /\ UNCHANGED <<offset, lock, fds, slot, other, id, stopped, opens, mine, leaked>>

file_close(p, f) ==
  /\ At(p, "user") /\ "close" \in Calls
  /\ argfd(p, f)
  /\ DropReference(p, f, "close")

\* The descriptor is cleared after the lock is released.
ClearDescriptor(p, from, to) ==
  /\ At(p, from)
  /\ fds' = [fds EXCEPT ![p][fd[p]] = NULL]
  /\ mine' = [mine EXCEPT ![p][fd[p]] = 0]
  /\ Goto(p, to)
  /\ fd' = [fd EXCEPT ![p] = 0]
  /\ UNCHANGED <<globals, lock, iref, slot, other, id, stopped, opens, leaked>>

close_fd(p) == ClearDescriptor(p, "close", "user")

exit(p) ==
  /\ At(p, "user")
  /\ Goto(p, "exit")
  /\ UNCHANGED <<globals, lock, fds, iref, slot, fd, other, id, stopped, opens, mine, leaked>>

\* The loop of exit calls file_close on every descriptor in use, in order.
exit_close(p) ==
  LET used == Fd \ FreeFds(p) IN
  /\ At(p, "exit") /\ used # {}
  /\ DropReference(p, Lowest(used), "exit_close")

exit_fd(p) == ClearDescriptor(p, "exit_close", "exit")

\* Module Proc follows the process to its ZOMBIE state and its parent's wait;
\* then its slot in the process table can be used again, fds as exit left it.
\* The first process has no parent and stays a ZOMBIE.
exit_done(p) ==
  /\ At(p, "exit") /\ FreeFds(p) = Fd
  /\ Goto(p, IF p = FirstProc THEN "zombie" ELSE "unused")
  /\ UNCHANGED <<globals, lock, fds, iref, slot, fd, other, id, stopped, opens, mine, leaked>>

(* -------------------------------- fork -------------------------------- *)

\* other is the child, slot the descriptor the loop has reached.
fork(p) ==
  /\ At(p, "user") /\ "fork" \in Calls
  /\ \E q \in Proc :
       /\ pc[q] = "unused"
       /\ pc' = [pc EXCEPT ![p] = "fork", ![q] = "embryo"]
       /\ other' = [other EXCEPT ![p] = q]
  /\ slot' = [slot EXCEPT ![p] = 1]
  /\ UNCHANGED <<globals, lock, fds, iref, fd, id, stopped, opens, mine, leaked>>

fork_fd(p) ==
  LET f == slot[p]
      q == other[p]
      i == fds[p][f] IN
  /\ At(p, "fork") /\ f \in Fd
  /\ \/ /\ i # NULL /\ Free(i)
        /\ ref_count' = [ref_count EXCEPT ![i] = @ + 1]
        /\ fds' = [fds EXCEPT ![q][f] = i]
        /\ mine' = [mine EXCEPT ![q][f] = mine[p][f]]
     \/ /\ i = NULL
        /\ UNCHANGED <<ref_count, fds, mine>>
  /\ slot' = [slot EXCEPT ![p] = f + 1]
  /\ UNCHANGED <<in, offset, file, seen, lock, iref, pc, fd, other, id, stopped, opens, leaked>>

fork_run(p) ==
  /\ At(p, "fork") /\ slot[p] > NOFILE
  /\ pc' = [pc EXCEPT ![p] = "user", ![other[p]] = "user"]
  /\ other' = [other EXCEPT ![p] = 0]
  /\ slot' = [slot EXCEPT ![p] = 0]
  /\ UNCHANGED <<globals, lock, fds, iref, fd, id, stopped, opens, mine, leaked>>

(* ------------------------------ file_read ----------------------------- *)

\* Mutant of file_read: the entry's lock is not taken.
file_read_unlocked(p, f) ==
  LET i == fds[p][f] IN
  /\ At(p, "user") /\ "read" \in Calls
  /\ argfd(p, f) /\ in[i] \in Inode /\ offset[i] < FileSize
  /\ seen' = [seen EXCEPT ![i][offset[i]] = @ + 1]
  /\ other' = [other EXCEPT ![p] = 1]
  /\ slot' = [slot EXCEPT ![p] = i]
  /\ Goto(p, "read")
  /\ UNCHANGED <<ref_count, in, offset, file, lock, fds, iref, fd, id, stopped, opens, mine, leaked>>

\* readi returns the bytes from the offset on, as many as asked for or left.
\* The entry stays locked while they are copied.
file_read(p, f) ==
  LET i == fds[p][f] IN
  /\ At(p, "user") /\ "read" \in Calls
  /\ argfd(p, f) /\ in[i] \in Inode /\ Free(i)
  /\ lock' = [lock EXCEPT ![i] = p]
  /\ \E n \in 1 .. FileSize :
       LET bytes == IF offset[i] + n > FileSize THEN FileSize - offset[i] ELSE n IN
       /\ seen' = [seen EXCEPT ![i] =
             [b \in DOMAIN @ |-> IF b \in offset[i] .. offset[i] + bytes - 1
                                 THEN @[b] + 1 ELSE @[b]]]
       /\ other' = [other EXCEPT ![p] = bytes]
  /\ slot' = [slot EXCEPT ![p] = i]
  /\ Goto(p, "read")
  /\ UNCHANGED <<ref_count, in, offset, file, fds, iref, fd, id, stopped, opens, mine, leaked>>

read_done(p) ==
  /\ At(p, "read")
  /\ offset' = [offset EXCEPT ![slot[p]] = @ + other[p]]
  /\ lock' = [lock EXCEPT ![slot[p]] = NoProc]
  /\ Return(p)
  /\ UNCHANGED <<ref_count, in, file, seen, fds, iref, stopped, opens, mine, leaked>>

(* ------------------------------ pipe_open ----------------------------- *)

\* slot is the entry the loop has reached, fd is r_idx, other is w_idx.
pipe_open(p) ==
  /\ At(p, "user") /\ "pipe" \in Calls /\ opens < MaxOpens
  /\ Cardinality(FreeFds(p)) >= 2
  /\ opens' = opens + 1
  /\ id' = [id EXCEPT ![p] = opens + 1]
  /\ slot' = [slot EXCEPT ![p] = 1]
  /\ fd' = [fd EXCEPT ![p] = 0]
  /\ other' = [other EXCEPT ![p] = 0]
  /\ Goto(p, "pipe")
  /\ UNCHANGED <<globals, lock, fds, iref, stopped, mine, leaked>>

\* One turn of the loop: the first free entry is the read end's, the second,
\* which ends the loop, the write end's.
pipe_scan(p) ==
  LET i == slot[p] IN
  /\ At(p, "pipe")
  /\ i \in Slot /\ Free(i) /\ other[p] = 0
  /\ \/ /\ ref_count[i] = 0
        /\ Claim(i, NULL, id[p])
        /\ IF fd[p] = 0
           THEN fd' = [fd EXCEPT ![p] = i] /\ UNCHANGED other
           ELSE other' = [other EXCEPT ![p] = i] /\ UNCHANGED fd
     \/ /\ ref_count[i] # 0
        /\ UNCHANGED <<globals, fd, other>>
  /\ slot' = [slot EXCEPT ![p] = i + 1]
  /\ UNCHANGED <<pc, lock, fds, iref, id, stopped, opens, mine, leaked>>

pipe_full(p) ==
  /\ At(p, "pipe") /\ slot[p] > NFILE
  /\ fd[p] = 0
  /\ Return(p)
  /\ UNCHANGED <<globals, lock, fds, iref, stopped, opens, mine, leaked>>

\* One entry only: its count is cleared under its lock, but the lock released
\* is that of global_files[w_idx] with w_idx = -1.  The memory before the table
\* is no sleep lock held by p, so releasesleep panics.
pipe_one(p) ==
  /\ At(p, "pipe") /\ slot[p] > NFILE
  /\ fd[p] # 0 /\ other[p] = 0 /\ Free(fd[p])
  /\ ref_count' = [ref_count EXCEPT ![fd[p]] = 0]
  /\ lock' = [lock EXCEPT ![fd[p]] = p]
  /\ stopped' = "pipe"
  /\ Goto(p, "panic")
  /\ UNCHANGED <<in, offset, file, seen, fds, iref, slot, fd, other, id, opens, mine, leaked>>

\* kalloc has no page for the pipe: both entries are given back, one by one.
pipe_nomem(p) ==
  /\ MemoryMayFail
  /\ At(p, "pipe") /\ other[p] # 0
  /\ Free(fd[p])
  /\ ref_count' = [ref_count EXCEPT ![fd[p]] = 0]
  /\ Goto(p, "pipe_nomem")
  /\ UNCHANGED <<in, offset, file, seen, lock, fds, iref, slot, fd, other, id, stopped, opens, mine, leaked>>

pipe_undo(p) ==
  /\ At(p, "pipe_nomem") /\ Free(other[p])
  /\ ref_count' = [ref_count EXCEPT ![other[p]] = 0]
  /\ Return(p)
  /\ UNCHANGED <<in, offset, file, seen, lock, fds, iref, stopped, opens, mine, leaked>>

\* The entries get the pipe and the two lowest descriptors the entries: the
\* write end the lower one.
pipe_fds(p) ==
  LET w == Lowest(FreeFds(p))
      r == Lowest(FreeFds(p) \ {w}) IN
  /\ At(p, "pipe") /\ other[p] # 0
  /\ Free(fd[p]) /\ Free(other[p])
  /\ in' = [in EXCEPT ![fd[p]] = PipeEnd, ![other[p]] = PipeEnd]
  /\ fds' = [fds EXCEPT ![p][r] = fd[p], ![p][w] = other[p]]
  /\ mine' = [mine EXCEPT ![p][r] = id[p], ![p][w] = id[p]]
  /\ Return(p)
  /\ UNCHANGED <<ref_count, offset, file, seen, lock, iref, stopped, opens, leaked>>

(* ---------------------------- specification --------------------------- *)

Call(p) ==
  \/ open_inode(p) \/ exit(p) \/ fork(p) \/ pipe_open(p)
  \/ \E f \in Fd : dup_fd(p, f) \/ dup_full(p, f) \/ file_close(p, f) \/ file_read(p, f)

Step(p) ==
  \/ open_scan(p) \/ open_full(p) \/ open_fd(p)
  \/ dup_ref(p) \/ close_fd(p) \/ read_done(p)
  \/ exit_close(p) \/ exit_fd(p) \/ exit_done(p)
  \/ fork_fd(p) \/ fork_run(p)
  \/ pipe_scan(p) \/ pipe_full(p) \/ pipe_one(p) \/ pipe_nomem(p) \/ pipe_undo(p) \/ pipe_fds(p)

\* The machine stopped, or every process exited.
Halted ==
  /\ stopped # "no" \/ \A p \in Proc : pc[p] \in {"unused", "zombie"}
  /\ UNCHANGED vars

Next == Halted \/ \E p \in Proc : Call(p) \/ Step(p)

Spec == Init /\ [][Next]_vars

(* ----------------------------- properties ----------------------------- *)

\* Descriptors that point to entry i, and those among them that its count does
\* not include: a file_dup, file_close between its two assignments.
Descriptors(i) == {d \in Proc \X Fd : fds[d[1]][d[2]] = i}
Uncounted(i) ==
  {d \in Descriptors(i) : pc[d[1]] \in {"dup", "close", "exit_close"} /\ fd[d[1]] = d[2]}
Settled(i) == Descriptors(i) \ Uncounted(i)

\* Calls that have taken entry i and have not given it a descriptor yet.
Claims(i) ==
  {p \in Proc : \/ pc[p] = "open_fd" /\ slot[p] = i
                \/ pc[p] = "pipe" /\ i \in {fd[p], other[p]}
                \/ pc[p] = "pipe_nomem" /\ other[p] = i}

\* Whatever other processes do between the steps of a call, the count of an
\* entry is the number of descriptors that point to it, and of calls about to
\* make one: file_open, file_dup, file_close, pipe_open, fork and exit each move
\* both by one, error paths included.  One reference is the exception, and it
\* is never more than one: a file_open that finds no free descriptor leaves the
\* entry it took with a count of 1.  And a descriptor refers until it is closed
\* to the open file it was made for: the entry is never handed to another
\* file_open or pipe_open meanwhile.
RefCountMatches ==
  \A i \in Slot :
    /\ ref_count[i] = Cardinality(Settled(i)) + Cardinality(Claims(i)) + leaked[i]
    /\ leaked[i] > 0 => leaked[i] = 1 /\ Settled(i) = {}
    /\ \A d \in Settled(i) : file[i] = mine[d[1]][d[2]]

\* The references to an inode are those of the open files and of the calls of
\* file_open under way: none is lost and none given back twice, on the error
\* paths of file_open as well.
InodeReferences ==
  \A n \in Inode :
    iref[n] = Cardinality({i \in Slot : in[i] = n /\ Settled(i) # {}})
              + Cardinality({p \in Proc : pc[p] \in {"open", "open_fd"} /\ other[p] = n})

\* Processes that share an open file (dup, fork) share its position: no byte is
\* read twice, and none is skipped.
EachByteOnce ==
  \A i \in Slot : \A b \in DOMAIN seen[i] :
    /\ seen[i][b] <= 1
    /\ ref_count[i] > 0 /\ b < offset[i] => seen[i][b] = 1

=============================================================================
