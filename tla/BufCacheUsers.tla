--------------------------- MODULE BufCacheUsers ---------------------------
(***************************************************************************)
(* The inductive invariant of BufCache, and that the steps that change     *)
(* which block a buffer has, or who uses it, keep it: bget and the end of  *)
(* brelse.                                                                 *)
(***************************************************************************)
EXTENDS BufCache, TLAPS

\* The program counters at which a process has its buffer's sleep lock.
Holding == {"iderw", "io", "held", "changed"}

\* The types of the fields of the buffers, of the list, the queue and the
\* disk, and of what belongs to a process.
FlagTypes == valid \in [Buf -> BOOLEAN] /\ dirty \in [Buf -> BOOLEAN] /\ failed \in [Buf -> BOOLEAN]

BufTypes ==
  /\ blockno \in [Buf -> Block \cup {NoBlock}] /\ refcnt \in [Buf -> Nat]
  /\ data \in [Buf -> Value] /\ lock \in [Buf -> Proc \cup {NoProc}]

ListTypes == list \in Seq(Buf) /\ idequeue \in Seq(Buf)

DiskTypes == disk \in [Block -> Value] /\ last \in [Block -> Value]

ProcTypes ==
  /\ pc \in [Proc -> Holding \cup {"idle", "lock", "brelse"}]
  /\ b \in [Proc -> Buf \cup {NoBuf}] /\ want \in [Proc -> Block \cup {NoBlock}]

SleepTypes == state \in [Proc -> {"RUNNABLE", "SLEEPING"}] /\ chan \in [Proc -> Buf \cup {NoBuf}]

TypeOK ==
  /\ FlagTypes /\ BufTypes /\ ListTypes /\ DiskTypes /\ ProcTypes /\ SleepTypes
  /\ panicked \in BOOLEAN /\ writes \in Nat

\* The list that bget searches has every buffer.
ListComplete == \A x \in Buf : \E i \in 1 .. Len(list) : list[i] = x

\* A process has a buffer exactly during a use of it.
BufferInUse ==
  \A p \in Proc : IF pc[p] = "idle" THEN b[p] = NoBuf ELSE b[p] \in Buf /\ want[p] \in Block

\* No block is cached twice.
OneBufferPerBlock ==
  \A x, y \in Buf : blockno[x] = blockno[y] /\ blockno[x] # NoBlock => x = y

\* The lock of a buffer is with the user whose program counter says so.
LockHeld ==
  \A p \in Proc, x \in Buf : lock[x] = p <=> b[p] = x /\ pc[p] \in Holding

\* What the holder of a buffer knows of its flags.
HolderKnows ==
  \A p \in Proc :
    /\ pc[p] \in {"held", "changed"} => valid[b[p]] /\ ~dirty[b[p]]
    /\ pc[p] = "iderw" => ~valid[b[p]] \/ dirty[b[p]]

\* Only a buffer that is locked is dirty.
DirtyHeld == \A x \in Buf : dirty[x] => lock[x] \in Proc

\* The holder of a queued buffer waits in iderw, for something still to do.
QueueHeld ==
  \A i \in 1 .. Len(idequeue) :
    /\ \E p \in Proc : b[p] = idequeue[i] /\ pc[p] = "io"
    /\ ~valid[idequeue[i]] \/ dirty[idequeue[i]]

\* A buffer is queued once.
QueueOnce ==
  \A i, j \in 1 .. Len(idequeue) : idequeue[i] = idequeue[j] => i = j

\* The disk has started on buffer x.
Started(x) == idequeue # <<>> /\ Head(idequeue) = x

\* A buffer that is to be written or may be read has what was last written,
\* but for the one whose holder is changing it.
BufferCurrent ==
  \A x \in Buf :
    /\ blockno[x] # NoBlock
    /\ \/ dirty[x]
       \/ valid[x] /\ ~failed[x] /\ \A p \in Proc : b[p] = x => pc[p] # "changed"
    => data[x] = last[blockno[x]]

\* The disk has what was last written, but for the blocks of dirty buffers on
\* which it has not started.
DiskCurrent ==
  \A k \in Block :
    disk[k] = last[k] \/ \E x \in Buf : blockno[x] = k /\ dirty[x] /\ ~Started(x)

\* The inductive invariant.
IInv ==
  /\ TypeOK /\ ListComplete /\ BufferInUse /\ UsersKeepBuffer /\ OneBufferPerBlock
  /\ LockHeld /\ HolderKnows /\ DirtyHeld /\ QueueHeld /\ QueueOnce
  /\ BufferCurrent /\ DiskCurrent

(* ------------------------ counts, lists, queues ------------------------ *)

\* What bget's two loops find.
LEMMA SearchFinds ==
  ASSUME TypeOK, NEW blk
  PROVE  /\ \A x \in Hit(blk) : x \in Buf /\ blockno[x] = blk
         /\ \A x \in Oldest : x \in Buf /\ refcnt[x] = 0 /\ ~dirty[x]
         /\ Cached(blk) = {} => \A i \in 1 .. Len(list) : blockno[list[i]] # blk
<1>1. DOMAIN list = 1 .. Len(list) /\ \A i \in 1 .. Len(list) : list[i] \in Buf
  BY DEF TypeOK, ListTypes
<1>2. \A x \in Hit(blk) : x \in Buf /\ blockno[x] = blk
  BY <1>1 DEF Cached, Hit
<1>3. \A x \in Oldest : x \in Buf /\ refcnt[x] = 0 /\ ~dirty[x]
  BY <1>1 DEF Recyclable, Oldest
<1> QED
  BY <1>1, <1>2, <1>3 DEF Cached

\* brelse moves a buffer to the front and loses none.
LEMMA MoveLosesNone ==
  ASSUME TypeOK, ListComplete, NEW x \in Buf
  PROVE  /\ MovedToFront(x) \in Seq(Buf)
         /\ \A y \in Buf : \E i \in 1 .. Len(MovedToFront(x)) : MovedToFront(x)[i] = y
<1> DEFINE m == CHOOSE j \in DOMAIN list : list[j] = x
           n == Len(list)
           l == MovedToFront(x)
<1>1. n \in Nat /\ DOMAIN list = 1 .. n /\ \A i \in 1 .. n : list[i] \in Buf
  BY DEF TypeOK, ListTypes
<1>2. m \in 1 .. n /\ list[m] = x
  BY <1>1 DEF ListComplete
<1>3. l = [j \in 1 .. n |-> IF j = 1 THEN x ELSE IF j <= m THEN list[j - 1] ELSE list[j]]
  BY DEF MovedToFront
<1> HIDE DEF m, n, l
<1>4. \A j \in 1 .. n : j # 1 => j - 1 \in 1 .. n
  BY <1>1
<1>5. l \in [1 .. n -> Buf]
  BY <1>1, <1>3, <1>4
<1>6. l \in Seq(Buf) /\ Len(l) = n
  BY <1>1, <1>5
<1>7. ASSUME NEW y \in Buf PROVE \E i \in 1 .. n : l[i] = y
  <2>1. PICK j \in 1 .. n : list[j] = y
    BY DEF ListComplete, n
  <2>2. CASE j < m
    <3>1. j + 1 \in 1 .. n /\ j + 1 # 1 /\ j + 1 <= m /\ (j + 1) - 1 = j
      BY <1>1, <1>2, <2>2
    <3> QED
      BY <1>3, <2>1, <3>1
  <2>3. CASE j = m
    <3>1. 1 \in 1 .. n
      BY <1>1, <1>2
    <3> QED
      BY <1>2, <1>3, <2>1, <2>3, <3>1
  <2>4. CASE j > m
    <3>1. j # 1 /\ ~(j <= m)
      BY <1>1, <1>2, <2>4
    <3> QED
      BY <1>3, <2>1, <3>1
  <2> QED
    BY <1>1, <1>2, <2>2, <2>3, <2>4
<1> QED
  BY <1>6, <1>7 DEF l

\* How sets of processes are counted.  It is assumed by the lemmas that count,
\* and is a lemma itself at the end of the module, where the library's theorems
\* on finite sets come in.
Counting ==
  \A S \in SUBSET Proc :
    /\ Cardinality(S) \in Nat
    /\ Cardinality(S) = 0 <=> S = {}
    /\ \A p \in Proc \ S : Cardinality(S \cup {p}) = Cardinality(S) + 1

\* The processes that f gives buffer x.
Users(f, x) == {q \in Proc : f[q] = x}

\* A process without a buffer is given one.
LEMMA OneMoreUser ==
  ASSUME Counting, NEW f, NEW g, NEW p \in Proc, NEW x \in Buf, NEW y \in Buf,
         f[p] = NoBuf, g[p] = x, \A q \in Proc \ {p} : f[q] = g[q]
  PROVE  Cardinality(Users(g, y)) = IF y = x THEN Cardinality(Users(f, y)) + 1
                                    ELSE Cardinality(Users(f, y))
<1>1. f[p] # y
  BY DEF Buf, NoBuf
<1>2. CASE y = x
  <2>1. Users(g, y) = Users(f, y) \cup {p} /\ p \notin Users(f, y) /\ Users(f, y) \in SUBSET Proc
    BY <1>1, <1>2 DEF Users
  <2> QED
    BY <1>2, <2>1 DEF Counting
<1>3. CASE y # x
  <2>1. Users(g, y) = Users(f, y)
    BY <1>1, <1>3 DEF Users
  <2> QED
    BY <1>3, <2>1
<1> QED
  BY <1>2, <1>3

\* A process gives its buffer up: the same step, seen backwards.
LEMMA OneUserLess ==
  ASSUME Counting, NEW f, NEW g, NEW p \in Proc, NEW x \in Buf, NEW y \in Buf,
         f[p] = x, g[p] = NoBuf, \A q \in Proc \ {p} : f[q] = g[q]
  PROVE  /\ Cardinality(Users(g, y)) \in Nat
         /\ Cardinality(Users(g, y)) = IF y = x THEN Cardinality(Users(f, y)) - 1
                                       ELSE Cardinality(Users(f, y))
<1>1. Cardinality(Users(g, y)) \in Nat
  BY DEF Users, Counting
<1>2. Cardinality(Users(f, y)) = IF y = x THEN Cardinality(Users(g, y)) + 1
                                 ELSE Cardinality(Users(g, y))
  BY OneMoreUser
<1> QED
  BY <1>1, <1>2

\* A buffer without users is nobody's.
LEMMA UnusedBuffer ==
  ASSUME Counting, UsersKeepBuffer, NEW x \in Buf, refcnt[x] = 0, NEW p \in Proc
  PROVE  b[p] # x
<1>1. Cardinality(Users(b, x)) = 0 /\ Users(b, x) \in SUBSET Proc
  BY Zenon DEF UsersKeepBuffer, Users
<1>2. Users(b, x) = {}
  BY <1>1 DEF Counting
<1> QED
  BY <1>2 DEF Users

(* ------------------------- the inductive invariant --------------------- *)

\* binit: the buffers hold no block, and the list has them all.
LEMMA InitEstablishes ==
  ASSUME Counting, Init
  PROVE  IInv
<1>1. TypeOK
  <2>1. list \in Seq(Buf) /\ idequeue \in Seq(Buf)
    BY NBUFAssumption DEF Init, Buf
  <2>2. data \in [Buf -> Value] /\ disk \in [Block -> Value] /\ last \in [Block -> Value]
    BY DEF Init, Value, Zero
  <2> QED
    BY <2>1, <2>2, Zenon DEF Init, TypeOK, FlagTypes, BufTypes, ListTypes, DiskTypes, ProcTypes,
                             SleepTypes
<1>2. ListComplete
  <2>1. Len(list) = NBUF /\ \A x \in Buf : NBUF + 1 - x \in 1 .. NBUF /\ list[NBUF + 1 - x] = x
    BY NBUFAssumption DEF Init, Buf
  <2> QED
    BY <2>1 DEF ListComplete
<1>3. UsersKeepBuffer
  <2>1. \A x \in Buf : {p \in Proc : b[p] = x} = {}
    BY NBUFAssumption DEF Init, Buf, NoBuf
  <2> QED
    BY <2>1 DEF Init, UsersKeepBuffer, Counting
<1>4. BufferInUse /\ OneBufferPerBlock /\ HolderKnows /\ DirtyHeld /\ QueueHeld /\ QueueOnce
  BY DEF Init, BufferInUse, OneBufferPerBlock, HolderKnows, DirtyHeld, QueueHeld, QueueOnce
<1>5. LockHeld
  BY NameAssumption DEF Init, LockHeld, Holding, NoProc
<1>6. BufferCurrent /\ DiskCurrent
  BY DEF Init, BufferCurrent, DiskCurrent
<1> QED
  BY <1>1, <1>2, <1>3, <1>4, <1>5, <1>6 DEF IInv

\* A process on its way with a buffer moves on: it keeps the buffer.
LEMMA UserMoves ==
  ASSUME IInv, NEW p \in Proc, NEW to, to # "idle", pc[p] # "idle",
         pc' = [pc EXCEPT ![p] = to], UNCHANGED <<blockno, refcnt, list>>, UNCHANGED <<b, want>>
  PROVE  /\ pc'[p] = to /\ \A q \in Proc \ {p} : pc'[q] = pc[q]
         /\ b[p] \in Buf /\ want[p] \in Block /\ blockno[b[p]] = want[p]
         /\ ListComplete' /\ BufferInUse' /\ UsersKeepBuffer' /\ OneBufferPerBlock'
<1>1. pc'[p] = to /\ \A q \in Proc \ {p} : pc'[q] = pc[q]
  BY DEF IInv, TypeOK, ProcTypes
<1>2. b[p] \in Buf /\ want[p] \in Block /\ blockno[b[p]] = want[p]
  BY DEF IInv, BufferInUse, UsersKeepBuffer
<1>3. ListComplete' /\ BufferInUse' /\ OneBufferPerBlock'
  BY <1>1 DEF IInv, ListComplete, BufferInUse, OneBufferPerBlock
<1>4. UsersKeepBuffer'
  BY <1>1, Zenon DEF IInv, UsersKeepBuffer
<1> QED
  BY <1>1, <1>2, <1>3, <1>4

\* A step that takes nobody out of iderw and nothing off the queue.
LEMMA QueueKept ==
  ASSUME IInv, UNCHANGED <<idequeue, valid, b>>,
         \A q \in Proc : pc[q] = "io" => pc'[q] = "io",
         \A x \in Buf : dirty[x] => dirty'[x]
  PROVE  QueueHeld' /\ QueueOnce'
<1>1. \A i \in 1 .. Len(idequeue) : idequeue[i] \in Buf
  BY DEF IInv, TypeOK, ListTypes
<1> QED
  BY <1>1 DEF IInv, QueueHeld, QueueOnce

\* A step that changes no contents and no flags, of buffers or of the disk.
LEMMA ContentsKept ==
  ASSUME IInv, UNCHANGED <<blockno, valid, dirty, data, failed>>, UNCHANGED <<disk, last, idequeue>>,
         \A x \in Buf, q \in Proc : b[q] = x /\ pc[q] = "changed" => b'[q] = x /\ pc'[q] = "changed"
  PROVE  BufferCurrent' /\ DiskCurrent'
BY DEF IInv, BufferCurrent, DiskCurrent, Started

\* One more user is counted in the buffer that caches the block.
LEMMA BgetHitPreserves ==
  ASSUME Counting, IInv, NEW p \in Proc, NEW blk \in Block, bget_hit(p, blk)
  PROVE  IInv'
<1>1. PICK x \in Hit(blk) : refcnt' = [refcnt EXCEPT ![x] = @ + 1] /\ Get(p, x, blk)
  BY Zenon DEF bget_hit
<1>2. x \in Buf /\ blockno[x] = blk /\ pc[p] = "idle" /\ b[p] = NoBuf
  BY SearchFinds DEF IInv, BufferInUse, bget_hit, At
<1>3. /\ UNCHANGED <<blockno, valid, dirty, data, failed>> /\ UNCHANGED <<disk, last, idequeue>>
      /\ UNCHANGED <<lock, list>>
  BY <1>1 DEF bget_hit, Get
<1>4. /\ b'[p] = x /\ want'[p] = blk /\ pc'[p] = "lock"
      /\ \A q \in Proc \ {p} : b[q] = b'[q] /\ want'[q] = want[q] /\ pc'[q] = pc[q]
  BY <1>1 DEF IInv, TypeOK, ProcTypes, Get, Goto
<1>5. TypeOK'
  <2>1. ProcTypes'
    BY <1>1, <1>2 DEF IInv, TypeOK, ProcTypes, Get, Goto
  <2>2. BufTypes'
    BY <1>1, <1>2, <1>3 DEF IInv, TypeOK, BufTypes
  <2>3. FlagTypes' /\ ListTypes' /\ DiskTypes'
    BY <1>3, Zenon DEF IInv, TypeOK, FlagTypes, ListTypes, DiskTypes
  <2>4. SleepTypes' /\ panicked' = panicked /\ writes' = writes
    BY <1>1, Zenon DEF IInv, TypeOK, SleepTypes, Get
  <2> QED
    BY <2>1, <2>2, <2>3, <2>4 DEF IInv, TypeOK
<1>6. BufferInUse' /\ LockHeld' /\ HolderKnows' /\ DirtyHeld'
  <2>1. BufferInUse'
    BY <1>2, <1>4 DEF IInv, BufferInUse
  <2>2. LockHeld'
    BY <1>2, <1>3, <1>4 DEF IInv, LockHeld, Holding, Buf, NoBuf
  <2>3. HolderKnows' /\ DirtyHeld'
    BY <1>3, <1>4 DEF IInv, HolderKnows, DirtyHeld
  <2> QED
    BY <2>1, <2>2, <2>3
<1>7. UsersKeepBuffer'
  <2>1. \A q \in Proc : pc'[q] # "idle" => blockno'[b'[q]] = want'[q]
    BY <1>2, <1>3, <1>4 DEF IInv, UsersKeepBuffer
  <2>2. ASSUME NEW y \in Buf PROVE refcnt'[y] = Cardinality(Users(b', y))
    <3>1. refcnt[y] = Cardinality(Users(b, y))
      BY DEF IInv, UsersKeepBuffer, Users
    <3>2. Cardinality(Users(b', y)) = IF y = x THEN Cardinality(Users(b, y)) + 1
                                      ELSE Cardinality(Users(b, y))
      BY <1>2, <1>4, OneMoreUser
    <3>3. refcnt'[y] = IF y = x THEN refcnt[y] + 1 ELSE refcnt[y]
      BY <1>1, <1>2 DEF IInv, TypeOK, BufTypes
    <3> QED
      BY <3>1, <3>2, <3>3
  <2> QED
    BY <2>1, <2>2 DEF UsersKeepBuffer, Users
<1>8. QueueHeld'
  BY <1>2, <1>3, <1>4 DEF IInv, QueueHeld
<1>9. ListComplete' /\ OneBufferPerBlock' /\ QueueOnce'
  BY <1>3 DEF IInv, ListComplete, OneBufferPerBlock, QueueOnce
<1>10. BufferCurrent' /\ DiskCurrent'
  BY <1>2, <1>3, <1>4, ContentsKept
<1> QED
  BY <1>5, <1>6, <1>7, <1>8, <1>9, <1>10 DEF IInv

\* The buffer that is taken has no user, so nobody waits for it or the disk.
LEMMA BgetRecyclePreserves ==
  ASSUME Counting, IInv, NEW p \in Proc, NEW blk \in Block, bget_recycle(p, blk)
  PROVE  IInv'
<1>1. PICK x \in Oldest :
        /\ blockno' = [blockno EXCEPT ![x] = blk] /\ valid' = [valid EXCEPT ![x] = FALSE]
        /\ dirty' = [dirty EXCEPT ![x] = FALSE] /\ refcnt' = [refcnt EXCEPT ![x] = 1]
        /\ failed' = [failed EXCEPT ![x] = FALSE] /\ Get(p, x, blk)
  BY Zenon DEF bget_recycle
<1>2. /\ x \in Buf /\ refcnt[x] = 0 /\ ~dirty[x] /\ \A y \in Buf : blockno[y] # blk
      /\ pc[p] = "idle" /\ b[p] = NoBuf
  <2>1. Cached(blk) = {} /\ pc[p] = "idle"
    BY DEF bget_recycle, At
  <2> QED
    BY <2>1, SearchFinds DEF IInv, ListComplete, BufferInUse
<1>3. \A q \in Proc : b[q] # x
  BY <1>2, UnusedBuffer DEF IInv
<1>4. UNCHANGED <<data, disk, last>> /\ UNCHANGED <<lock, list, idequeue>>
  BY <1>1 DEF Get
<1>5. /\ b'[p] = x /\ want'[p] = blk /\ pc'[p] = "lock"
      /\ \A q \in Proc \ {p} : b[q] = b'[q] /\ want'[q] = want[q] /\ pc'[q] = pc[q]
  BY <1>1 DEF IInv, TypeOK, ProcTypes, Get, Goto
<1>6. /\ ~valid'[x] /\ ~dirty'[x]
      /\ \A y \in Buf \ {x} : valid'[y] = valid[y] /\ dirty'[y] = dirty[y] /\ failed'[y] = failed[y]
  BY <1>1, <1>2 DEF IInv, TypeOK, FlagTypes
<1>7. /\ blockno'[x] = blk /\ refcnt'[x] = 1
      /\ \A y \in Buf \ {x} : blockno'[y] = blockno[y] /\ refcnt'[y] = refcnt[y]
  BY <1>1, <1>2 DEF IInv, TypeOK, BufTypes
<1>8. TypeOK'
  <2>1. ProcTypes'
    BY <1>1, <1>2 DEF IInv, TypeOK, ProcTypes, Get, Goto
  <2>2. BufTypes'
    BY <1>1, <1>2, <1>4 DEF IInv, TypeOK, BufTypes
  <2>3. FlagTypes'
    BY <1>1, <1>2 DEF IInv, TypeOK, FlagTypes
  <2>4. ListTypes' /\ DiskTypes'
    BY <1>4, Zenon DEF IInv, TypeOK, ListTypes, DiskTypes
  <2>5. SleepTypes' /\ panicked' = panicked /\ writes' = writes
    BY <1>1, Zenon DEF IInv, TypeOK, SleepTypes, Get
  <2> QED
    BY <2>1, <2>2, <2>3, <2>4, <2>5 DEF IInv, TypeOK
<1>9. BufferInUse' /\ OneBufferPerBlock' /\ ListComplete'
  <2>1. BufferInUse'
    BY <1>2, <1>5 DEF IInv, BufferInUse
  <2>2. OneBufferPerBlock'
    BY <1>2, <1>7 DEF IInv, OneBufferPerBlock
  <2>3. ListComplete'
    BY <1>4 DEF IInv, ListComplete
  <2> QED
    BY <2>1, <2>2, <2>3
<1>10. UsersKeepBuffer'
  <2>1. \A q \in Proc : pc'[q] # "idle" => blockno'[b'[q]] = want'[q]
    BY <1>3, <1>5, <1>7 DEF IInv, UsersKeepBuffer, BufferInUse
  <2>2. ASSUME NEW y \in Buf PROVE refcnt'[y] = Cardinality(Users(b', y))
    <3>1. refcnt[y] = Cardinality(Users(b, y))
      BY DEF IInv, UsersKeepBuffer, Users
    <3>2. Cardinality(Users(b', y)) = IF y = x THEN Cardinality(Users(b, y)) + 1
                                      ELSE Cardinality(Users(b, y))
      BY <1>2, <1>5, OneMoreUser
    <3> QED
      BY <1>2, <1>7, <3>1, <3>2
  <2> QED
    BY <2>1, <2>2 DEF UsersKeepBuffer, Users
<1>11. LockHeld' /\ DirtyHeld' /\ HolderKnows'
  <2>1. LockHeld'
    BY <1>2, <1>4, <1>5 DEF IInv, LockHeld, Holding, Buf, NoBuf
  <2>2. DirtyHeld'
    BY <1>4, <1>6 DEF IInv, DirtyHeld
  <2>3. HolderKnows'
    BY <1>3, <1>5, <1>6 DEF IInv, HolderKnows, BufferInUse
  <2> QED
    BY <2>1, <2>2, <2>3
<1>12. QueueHeld' /\ QueueOnce'
  <2>1. ASSUME NEW i \in 1 .. Len(idequeue)
        PROVE  /\ \E q \in Proc : b'[q] = idequeue[i] /\ pc'[q] = "io"
               /\ ~valid'[idequeue[i]] \/ dirty'[idequeue[i]]
    <3>1. PICK q \in Proc : b[q] = idequeue[i] /\ pc[q] = "io"
      BY DEF IInv, QueueHeld
    <3>2. idequeue[i] \in Buf
      BY DEF IInv, TypeOK, ListTypes
    <3>3. b'[q] = idequeue[i] /\ pc'[q] = "io" /\ idequeue[i] # x
      BY <1>2, <1>3, <1>5, <3>1
    <3>4. ~valid[idequeue[i]] \/ dirty[idequeue[i]]
      BY DEF IInv, QueueHeld
    <3> QED
      BY <1>6, <3>2, <3>3, <3>4
  <2> QED
    BY <1>4, <2>1 DEF IInv, QueueHeld, QueueOnce
<1>13. BufferCurrent'
  <2>1. ASSUME NEW y \in Buf \ {x}
        PROVE  (\A q \in Proc : b'[q] = y => pc'[q] # "changed")
                 <=> \A q \in Proc : b[q] = y => pc[q] # "changed"
    BY <1>2, <1>5
  <2>2. data' = data /\ last' = last
    BY <1>4
  <2> QED
    BY <1>6, <1>7, <2>1, <2>2 DEF IInv, BufferCurrent
<1>14. DiskCurrent'
  BY <1>2, <1>4, <1>6, <1>7 DEF IInv, DiskCurrent, Started
<1> QED
  BY <1>8, <1>9, <1>10, <1>11, <1>12, <1>13, <1>14 DEF IInv

\* brelse drops one count, its own; the list keeps every buffer.
LEMMA BrelseCountPreserves ==
  ASSUME Counting, IInv, NEW p \in Proc, brelse_count(p)
  PROVE  IInv'
<1> DEFINE x == b[p]
<1>1. /\ UNCHANGED <<blockno, valid, dirty, data, failed>> /\ UNCHANGED <<disk, last, idequeue>>
      /\ UNCHANGED lock /\ pc[p] = "brelse" /\ x \in Buf /\ x # NoBuf
  BY DEF brelse_count, At, IInv, BufferInUse, Buf, NoBuf
<1>2. /\ b'[p] = NoBuf /\ pc'[p] = "idle"
      /\ \A q \in Proc \ {p} : b[q] = b'[q] /\ pc'[q] = pc[q] /\ want'[q] = want[q]
  BY DEF brelse_count, Goto, IInv, TypeOK, ProcTypes
<1>3. list' \in Seq(Buf) /\ ListComplete'
  <2>1. list' = IF refcnt[x] = 1 THEN MovedToFront(x) ELSE list
    BY DEF brelse_count
  <2>2. TypeOK /\ ListComplete /\ list \in Seq(Buf)
    BY DEF IInv, TypeOK, ListTypes
  <2> HIDE DEF x
  <2> QED
    BY <1>1, <2>1, <2>2, MoveLosesNone, Zenon DEF ListComplete
<1>4. \A y \in Buf : refcnt'[y] = Cardinality(Users(b', y)) /\ refcnt'[y] \in Nat
  <2> SUFFICES ASSUME NEW y \in Buf
               PROVE  refcnt'[y] = Cardinality(Users(b', y)) /\ refcnt'[y] \in Nat
    OBVIOUS
  <2>1. refcnt[y] = Cardinality(Users(b, y))
    BY DEF IInv, UsersKeepBuffer, Users
  <2>3. refcnt'[y] = IF y = x THEN refcnt[y] - 1 ELSE refcnt[y]
    BY DEF brelse_count, IInv, TypeOK, BufTypes
  <2> HIDE DEF x
  <2>2. /\ Cardinality(Users(b', y)) \in Nat
        /\ Cardinality(Users(b', y)) = IF y = x THEN Cardinality(Users(b, y)) - 1
                                       ELSE Cardinality(Users(b, y))
    BY <1>1, <1>2, OneUserLess DEF x
  <2> QED
    BY <2>1, <2>2, <2>3
<1>5. TypeOK'
  <2>1. ProcTypes'
    BY DEF brelse_count, Goto, IInv, TypeOK, ProcTypes
  <2>2. refcnt' \in [Buf -> Nat]
    BY <1>4, Zenon DEF brelse_count, IInv, TypeOK, BufTypes
  <2>3. BufTypes' /\ FlagTypes' /\ DiskTypes' /\ ListTypes'
    BY <1>1, <1>3, <2>2, Zenon DEF IInv, TypeOK, BufTypes, FlagTypes, DiskTypes, ListTypes
  <2>4. SleepTypes' /\ panicked' = panicked /\ writes' = writes
    BY Zenon DEF brelse_count, IInv, TypeOK, SleepTypes
  <2> QED
    BY <2>1, <2>3, <2>4 DEF IInv, TypeOK
<1>6. UsersKeepBuffer'
  <2>1. \A q \in Proc : pc'[q] # "idle" => blockno'[b'[q]] = want'[q]
    BY <1>1, <1>2 DEF IInv, UsersKeepBuffer
  <2> QED
    BY <1>4, <2>1 DEF UsersKeepBuffer, Users
<1>7. BufferInUse' /\ LockHeld' /\ HolderKnows' /\ DirtyHeld'
  <2>1. BufferInUse'
    BY <1>2 DEF IInv, BufferInUse
  <2>5. lock' = lock /\ NoBuf \notin Buf /\ pc[p] \notin Holding
    BY <1>1 DEF Holding, Buf, NoBuf
  <2>2. LockHeld'
    <3> HIDE DEF x
    <3> QED
      BY <1>2, <2>5 DEF IInv, LockHeld
  <2>3. HolderKnows'
    BY <1>1, <1>2 DEF IInv, HolderKnows
  <2>4. DirtyHeld'
    BY <1>1, Zenon DEF IInv, DirtyHeld
  <2> QED
    BY <2>1, <2>2, <2>3, <2>4
<1>8. QueueHeld' /\ QueueOnce' /\ OneBufferPerBlock'
  <2>1. QueueHeld'
    BY <1>1, <1>2 DEF IInv, QueueHeld
  <2>2. QueueOnce' /\ OneBufferPerBlock'
    BY <1>1 DEF IInv, QueueOnce, OneBufferPerBlock
  <2> QED
    BY <2>1, <2>2
<1>9. BufferCurrent' /\ DiskCurrent'
  BY <1>1, <1>2, ContentsKept
<1> QED
  BY <1>3, <1>5, <1>6, <1>7, <1>8, <1>9 DEF IInv
=============================================================================
