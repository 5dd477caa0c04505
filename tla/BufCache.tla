------------------------------ MODULE BufCache ------------------------------
(***************************************************************************)
(* kernel/bio.c and kernel/ide.c: the buffer cache over the queue of disk  *)
(* requests.  Processes read a block, may change it and write it back, and *)
(* release it, as the interface at the top of bio.c says.                  *)
(*                                                                         *)
(* A critical section of bcache.lock or idelock is one step.  The sleep    *)
(* lock of a buffer is a mutex (module SleepLock).  iderw sleeps on the    *)
(* buffer, and kill may wake it early.  The disk does one request at a     *)
(* time and raises one interrupt for it; a read may end with an error.     *)
(***************************************************************************)
EXTENDS Integers, Sequences, FiniteSets, SleepWakeup

CONSTANTS Proc, NBUF, Block,
          MaxWrites   \* bound: changes written back

ASSUME ProcAssumption == IsFiniteSet(Proc)
ASSUME NBUFAssumption == NBUF \in Nat \ {0}
ASSUME MaxWritesAssumption == MaxWrites \in Nat
ASSUME NameAssumption == (Proc \cup Block) \cap Int = {}

VARIABLES blockno, valid, dirty, refcnt, data,   \* struct buf
          lock,       \* the holder of a buffer's sleep lock
          list,       \* the buffers from head.next to head.prev
          idequeue, disk,
          pc, b, want,   \* where a process is, its buffer, the block it asked for
          state, chan,
          failed,     \* history: the buffer's read ended with an error
          last,       \* history: what bwrite last wrote to a block
          panicked,   \* bget found no buffer
          writes

vars == <<blockno, valid, dirty, refcnt, data, lock, list, idequeue, disk,
          pc, b, want, state, chan, failed, last, panicked, writes>>
cache == <<blockno, valid, dirty, refcnt, data, list>>

Buf == 1 .. NBUF
NoProc == 0
NoBlock == 0
NoBuf == 0

\* Contents: at first each block has one of its own and the buffers are zero.
Zero == 0
Value == Block \cup Nat

Init ==
  /\ blockno = [x \in Buf |-> NoBlock]
  /\ valid = [x \in Buf |-> FALSE]
  /\ dirty = [x \in Buf |-> FALSE]
  /\ refcnt = [x \in Buf |-> 0]
  /\ disk = [k \in Block |-> k]
  /\ data = [x \in Buf |-> Zero]
  /\ lock = [x \in Buf |-> NoProc]
  /\ list = [i \in Buf |-> NBUF + 1 - i]
  /\ idequeue = <<>>
  /\ pc = [p \in Proc |-> "idle"]
  /\ b = [p \in Proc |-> NoBuf]
  /\ want = [p \in Proc |-> NoBlock]
  /\ state = [p \in Proc |-> "RUNNABLE"]
  /\ chan = [p \in Proc |-> NoBuf]
  /\ failed = [x \in Buf |-> FALSE]
  /\ last = disk
  /\ panicked = FALSE
  /\ writes = 0

At(p, where) == ~panicked /\ state[p] = "RUNNABLE" /\ pc[p] = where
Goto(p, where) == pc' = [pc EXCEPT ![p] = where]

(* ------------------------------- bget --------------------------------- *)

\* Where in the list the buffers are that cache blk, that are unused and clean.
Cached(blk) == {i \in DOMAIN list : blockno[list[i]] = blk}
Recyclable == {i \in DOMAIN list : refcnt[list[i]] = 0 /\ ~dirty[list[i]]}

\* bget takes the first of those from the front, the first of these from the back.
Hit(blk) == {list[i] : i \in {j \in Cached(blk) : \A k \in Cached(blk) : j <= k}}
Oldest == {list[i] : i \in {j \in Recyclable : \A k \in Recyclable : k <= j}}

Get(p, x, blk) ==
  /\ b' = [b EXCEPT ![p] = x]
  /\ want' = [want EXCEPT ![p] = blk]
  /\ Goto(p, "lock")
  /\ UNCHANGED <<data, lock, list, idequeue, disk, state, chan, last, panicked, writes>>

\* Mutant of bget_hit: the user is not counted.
bget_hit_uncounted(p, blk) ==
  /\ At(p, "idle")
  /\ \E x \in Hit(blk) : Get(p, x, blk)
  /\ UNCHANGED <<refcnt, blockno, valid, dirty, failed>>

\* The block is cached: count one more user.
bget_hit(p, blk) ==
  /\ At(p, "idle")
  /\ \E x \in Hit(blk) :
       /\ refcnt' = [refcnt EXCEPT ![x] = @ + 1]
       /\ Get(p, x, blk)
  /\ UNCHANGED <<blockno, valid, dirty, failed>>

\* Mutant of bget_recycle: the flags stay.
bget_recycle_flags(p, blk) ==
  /\ At(p, "idle") /\ Cached(blk) = {}
  /\ \E x \in Oldest :
       /\ blockno' = [blockno EXCEPT ![x] = blk]
       /\ valid' = valid
       /\ dirty' = [dirty EXCEPT ![x] = FALSE]
       /\ refcnt' = [refcnt EXCEPT ![x] = 1]
       /\ failed' = [failed EXCEPT ![x] = FALSE]
       /\ Get(p, x, blk)

\* It is not: the least recently used free buffer is taken for it.
bget_recycle(p, blk) ==
  /\ At(p, "idle") /\ Cached(blk) = {}
  /\ \E x \in Oldest :
       /\ blockno' = [blockno EXCEPT ![x] = blk]
       /\ valid' = [valid EXCEPT ![x] = FALSE]
       /\ dirty' = [dirty EXCEPT ![x] = FALSE]
       /\ refcnt' = [refcnt EXCEPT ![x] = 1]
       /\ failed' = [failed EXCEPT ![x] = FALSE]
       /\ Get(p, x, blk)

\* No buffer is free: the kernel stops.
bget_panic(p, blk) ==
  /\ At(p, "idle") /\ Cached(blk) = {} /\ Recyclable = {}
  /\ panicked' = TRUE
  /\ UNCHANGED <<cache, lock, idequeue, disk, pc, b, want, state, chan, failed, last, writes>>

\* bget ends with the buffer's lock; bread goes to the disk if it must.
bread(p) ==
  /\ At(p, "lock") /\ lock[b[p]] = NoProc
  /\ lock' = [lock EXCEPT ![b[p]] = p]
  /\ Goto(p, IF valid[b[p]] THEN "held" ELSE "iderw")
  /\ UNCHANGED <<cache, idequeue, disk, b, want, state, chan, failed, last, panicked, writes>>

(* ------------------------------ the disk ------------------------------ *)

\* The disk once idestart has handed it the request at the head of queue q:
\* the data of a write goes with the request.
idestart(q) ==
  IF q # <<>> /\ dirty[Head(q)]
  THEN [disk EXCEPT ![blockno[Head(q)]] = data[Head(q)]]
  ELSE disk

\* iderw queues the buffer, starts the disk if it is idle, and sleeps.
iderw(p) ==
  /\ At(p, "iderw")
  /\ idequeue' = Append(idequeue, b[p])
  /\ disk' = IF idequeue = <<>> THEN idestart(<<b[p]>>) ELSE disk
  /\ state' = FallAsleep(state, p)
  /\ chan' = SleepOn(chan, p, b[p])
  /\ Goto(p, "io")
  /\ UNCHANGED <<cache, lock, b, want, failed, last, panicked, writes>>

\* The end of iderw's loop: the request is done.
iderw_done(p) ==
  /\ At(p, "io") /\ valid[b[p]] /\ ~dirty[b[p]]
  /\ Goto(p, "held")
  /\ chan' = [chan EXCEPT ![p] = NoBuf]
  /\ UNCHANGED <<cache, lock, idequeue, disk, b, want, state, failed, last, panicked, writes>>

\* Woken early, iderw sleeps again.
iderw_again(p) ==
  /\ At(p, "io") /\ (~valid[b[p]] \/ dirty[b[p]])
  /\ state' = FallAsleep(state, p)
  /\ chan' = SleepOn(chan, p, b[p])
  /\ UNCHANGED <<cache, lock, idequeue, disk, pc, b, want, failed, last, panicked, writes>>

kill(p) ==
  /\ ~panicked /\ state[p] = "SLEEPING"
  /\ state' = [state EXCEPT ![p] = "RUNNABLE"]
  /\ UNCHANGED <<cache, lock, idequeue, disk, pc, b, want, chan, failed, last, panicked, writes>>

\* The interrupt for the request at the head of the queue.  After an error
\* (ok = FALSE) the data of a read stays as it was; the flags say valid.
ideintr(ok) ==
  /\ ~panicked /\ idequeue # <<>>
  /\ LET x == Head(idequeue) IN
       /\ data' = IF ~dirty[x] /\ ok THEN [data EXCEPT ![x] = disk[blockno[x]]] ELSE data
       /\ failed' = [failed EXCEPT ![x] = ~dirty[x] /\ ~ok]
       /\ valid' = [valid EXCEPT ![x] = TRUE]
       /\ dirty' = [dirty EXCEPT ![x] = FALSE]
       /\ state' = wakeup1(state, chan, x)
  /\ idequeue' = Tail(idequeue)
  /\ disk' = idestart(Tail(idequeue))
  /\ UNCHANGED <<blockno, refcnt, lock, list, pc, b, want, chan, last, panicked, writes>>

(* ------------------------- the callers of bread ------------------------ *)

\* The holder changes the data, to what no block held before ...
change(p) ==
  /\ At(p, "held")
  /\ writes < MaxWrites
  /\ writes' = writes + 1
  /\ data' = [data EXCEPT ![b[p]] = writes + 1]
  /\ Goto(p, "changed")
  /\ UNCHANGED <<blockno, valid, dirty, refcnt, lock, list, idequeue, disk,
                 b, want, state, chan, failed, last, panicked>>

\* ... and writes it to the disk.
bwrite(p) ==
  /\ At(p, "changed")
  /\ dirty' = [dirty EXCEPT ![b[p]] = TRUE]
  /\ last' = [last EXCEPT ![want[p]] = data[b[p]]]
  /\ Goto(p, "iderw")
  /\ UNCHANGED <<blockno, valid, refcnt, data, list, lock, idequeue, disk,
                 b, want, state, chan, failed, panicked, writes>>

\* The list with buffer x moved to head.next.
MovedToFront(x) ==
  LET i == CHOOSE j \in DOMAIN list : list[j] = x
  IN  [j \in 1 .. Len(list) |-> IF j = 1 THEN x ELSE IF j <= i THEN list[j - 1] ELSE list[j]]

\* brelse gives up the lock first ...
brelse(p) ==
  /\ At(p, "held")
  /\ lock' = [lock EXCEPT ![b[p]] = NoProc]
  /\ Goto(p, "brelse")
  /\ UNCHANGED <<cache, idequeue, disk, b, want, state, chan, failed, last, panicked, writes>>

\* ... and then its count; the last user puts the buffer at the front.
brelse_count(p) ==
  /\ At(p, "brelse")
  /\ refcnt' = [refcnt EXCEPT ![b[p]] = @ - 1]
  /\ list' = IF refcnt[b[p]] = 1 THEN MovedToFront(b[p]) ELSE list
  /\ b' = [b EXCEPT ![p] = NoBuf]
  /\ want' = [want EXCEPT ![p] = NoBlock]
  /\ Goto(p, "idle")
  /\ UNCHANGED <<blockno, valid, dirty, data, lock, idequeue, disk, state, chan,
                 failed, last, panicked, writes>>

Step(p) ==
  \/ bread(p) \/ iderw(p) \/ iderw_done(p) \/ iderw_again(p)
  \/ bwrite(p) \/ brelse(p) \/ brelse_count(p)

Stopped == panicked /\ UNCHANGED vars

Next ==
  \/ \E p \in Proc :
       \/ \E blk \in Block : bget_hit(p, blk) \/ bget_recycle(p, blk) \/ bget_panic(p, blk)
       \/ Step(p) \/ change(p) \/ kill(p)
  \/ \E ok \in BOOLEAN : ideintr(ok)
  \/ Stopped

Spec == Init /\ [][Next]_vars

(* ----------------------------- properties ----------------------------- *)

\* From bget to the end of brelse a process is counted in the buffer it was
\* given, and the buffer caches the block it asked for: it is not recycled
\* while somebody waits for its lock, uses it or is about to drop its count.
UsersKeepBuffer ==
  /\ \A p \in Proc : pc[p] # "idle" => blockno[b[p]] = want[p]
  /\ \A x \in Buf : refcnt[x] = Cardinality({p \in Proc : b[p] = x})

\* bread returns the block as bwrite last wrote it, whether it comes from the
\* cache or, after any recycling, from the disk.  (A read that failed returns
\* whatever the buffer held, marked valid.)
LastWriteRead ==
  \A p \in Proc : pc[p] = "held" /\ ~failed[b[p]] => data[b[p]] = last[want[p]]

=============================================================================
