--------------------------- MODULE BufCacheProofs ---------------------------
(***************************************************************************)
(* The other steps, of the callers and of the disk driver, keep the        *)
(* invariant of BufCacheUsers.  So for any processes, buffers and blocks   *)
(* BufCache keeps UsersKeepBuffer and LastWriteRead: bread returns what    *)
(* bwrite last wrote.                                                      *)
(***************************************************************************)
EXTENDS BufCacheUsers

\* bread gets the free lock of the buffer it is counted in.
LEMMA BreadPreserves ==
  ASSUME IInv, NEW p \in Proc, bread(p)
  PROVE  IInv'
<1> DEFINE to == IF valid[b[p]] THEN "held" ELSE "iderw"
<1>1. /\ pc[p] = "lock" /\ to # "idle" /\ to \in Holding
      /\ UNCHANGED <<blockno, valid, dirty, data, failed>> /\ UNCHANGED <<disk, last, idequeue>>
      /\ UNCHANGED <<blockno, refcnt, list>> /\ UNCHANGED <<b, want>>
  BY DEF bread, cache, At, Holding
<1>2. /\ pc'[p] = to /\ \A q \in Proc \ {p} : pc'[q] = pc[q]
      /\ b[p] \in Buf /\ ListComplete' /\ BufferInUse' /\ UsersKeepBuffer' /\ OneBufferPerBlock'
  <2>1. pc' = [pc EXCEPT ![p] = to]
    BY DEF bread, Goto
  <2> QED
    BY <1>1, <2>1, UserMoves, Zenon
<1>3. /\ lock[b[p]] = NoProc /\ NoProc \notin Proc
      /\ lock'[b[p]] = p /\ \A x \in Buf \ {b[p]} : lock'[x] = lock[x]
  BY <1>2, NameAssumption DEF bread, IInv, TypeOK, BufTypes, NoProc
<1>4. TypeOK'
  <2>1. ProcTypes'
    BY <1>1 DEF bread, Goto, IInv, TypeOK, ProcTypes
  <2>2. BufTypes'
    BY <1>1, <1>2 DEF bread, IInv, TypeOK, BufTypes
  <2>3. FlagTypes' /\ ListTypes' /\ DiskTypes'
    BY <1>1, Zenon DEF IInv, TypeOK, FlagTypes, ListTypes, DiskTypes
  <2>4. SleepTypes' /\ panicked' = panicked /\ writes' = writes
    BY Zenon DEF bread, IInv, TypeOK, SleepTypes
  <2> QED
    BY <2>1, <2>2, <2>3, <2>4 DEF IInv, TypeOK
<1> HIDE DEF to
<1>5. LockHeld'
  BY <1>1, <1>2, <1>3 DEF IInv, LockHeld
<1>7. HolderKnows' /\ DirtyHeld'
  <2>1. ~dirty[b[p]]
    BY <1>2, <1>3 DEF IInv, DirtyHeld
  <2>2. HolderKnows'
    BY <1>1, <1>2, <2>1 DEF IInv, HolderKnows, to
  <2>3. DirtyHeld'
    BY <1>1, <1>3 DEF IInv, DirtyHeld
  <2> QED
    BY <2>2, <2>3
<1>6. QueueHeld' /\ QueueOnce' /\ BufferCurrent' /\ DiskCurrent'
  BY <1>1, <1>2, QueueKept, ContentsKept
<1> QED
  BY <1>2, <1>4, <1>5, <1>6, <1>7 DEF IInv

\* brelse gives up the lock of a buffer that is not dirty.
LEMMA BrelsePreserves ==
  ASSUME IInv, NEW p \in Proc, brelse(p)
  PROVE  IInv'
<1>1. /\ pc[p] = "held"
      /\ UNCHANGED <<blockno, valid, dirty, data, failed>> /\ UNCHANGED <<disk, last, idequeue>>
      /\ UNCHANGED <<blockno, refcnt, list>> /\ UNCHANGED <<b, want>>
  BY Zenon DEF brelse, cache, At
<1>2. /\ pc'[p] = "brelse" /\ \A q \in Proc \ {p} : pc'[q] = pc[q]
      /\ b[p] \in Buf /\ ListComplete' /\ BufferInUse' /\ UsersKeepBuffer' /\ OneBufferPerBlock'
  <2>1. pc' = [pc EXCEPT ![p] = "brelse"]
    BY DEF brelse, Goto
  <2> QED
    BY <1>1, <2>1, UserMoves, Zenon
<1>3. /\ lock'[b[p]] = NoProc /\ NoProc \notin Proc /\ \A x \in Buf \ {b[p]} : lock'[x] = lock[x]
  BY <1>2, NameAssumption DEF brelse, IInv, TypeOK, BufTypes, NoProc
<1>4. TypeOK'
  <2>1. ProcTypes'
    BY <1>1 DEF brelse, Goto, IInv, TypeOK, ProcTypes
  <2>2. BufTypes'
    BY <1>1, <1>2 DEF brelse, IInv, TypeOK, BufTypes
  <2>3. FlagTypes' /\ ListTypes' /\ DiskTypes'
    BY <1>1, Zenon DEF IInv, TypeOK, FlagTypes, ListTypes, DiskTypes
  <2>4. SleepTypes' /\ panicked' = panicked /\ writes' = writes
    BY Zenon DEF brelse, IInv, TypeOK, SleepTypes
  <2> QED
    BY <2>1, <2>2, <2>3, <2>4 DEF IInv, TypeOK
<1>5. LockHeld'
  <2>1. lock[b[p]] = p
    BY <1>1, <1>2 DEF IInv, LockHeld, Holding
  <2> QED
    BY <1>1, <1>2, <1>3, <2>1 DEF IInv, LockHeld, Holding
<1>7. HolderKnows' /\ DirtyHeld'
  <2>1. ~dirty[b[p]]
    BY <1>1 DEF IInv, HolderKnows
  <2>2. HolderKnows'
    BY <1>1, <1>2 DEF IInv, HolderKnows
  <2>3. DirtyHeld'
    BY <1>1, <1>3, <2>1 DEF IInv, DirtyHeld
  <2> QED
    BY <2>2, <2>3
<1>6. QueueHeld' /\ QueueOnce' /\ BufferCurrent' /\ DiskCurrent'
  BY <1>1, <1>2, QueueKept, ContentsKept
<1> QED
  BY <1>2, <1>4, <1>5, <1>6, <1>7 DEF IInv

\* iderw queues a buffer that is not queued yet: its holder did not wait there.
LEMMA IderwPreserves ==
  ASSUME IInv, NEW p \in Proc, iderw(p)
  PROVE  IInv'
<1> DEFINE x == b[p]
           n == Len(idequeue)
<1>1. /\ pc[p] = "iderw"
      /\ UNCHANGED <<blockno, refcnt, list>> /\ UNCHANGED <<b, want>>
      /\ UNCHANGED <<valid, dirty, data, failed, last, lock>>
  BY DEF iderw, At, cache
<1>2. /\ pc'[p] = "io" /\ \A q \in Proc \ {p} : pc'[q] = pc[q]
      /\ x \in Buf /\ blockno[x] \in Block
      /\ ListComplete' /\ BufferInUse' /\ UsersKeepBuffer' /\ OneBufferPerBlock'
  <2>1. pc' = [pc EXCEPT ![p] = "io"]
    BY DEF iderw, Goto
  <2> QED
    BY <1>1, <2>1, UserMoves, Zenon
<1>3. /\ n \in Nat /\ idequeue' \in Seq(Buf) /\ Len(idequeue') = n + 1 /\ idequeue' # <<>>
      /\ idequeue'[n + 1] = x /\ \A i \in 1 .. n : idequeue'[i] = idequeue[i]
      /\ Head(idequeue') = IF idequeue = <<>> THEN x ELSE Head(idequeue)
  <2>1. idequeue \in Seq(Buf) /\ idequeue' = Append(idequeue, x)
    BY DEF IInv, TypeOK, ListTypes, iderw
  <2> QED
    BY <1>2, <2>1
<1>10. \/ idequeue = <<>> /\ dirty[x] /\ disk' = [disk EXCEPT ![blockno[x]] = data[x]]
       \/ ~(idequeue = <<>> /\ dirty[x]) /\ disk' = disk
  BY DEF iderw, idestart
<1>4. TypeOK'
  <2>1. DiskTypes'
    BY <1>1, <1>2, <1>10 DEF IInv, TypeOK, BufTypes, DiskTypes
  <2>2. ProcTypes'
    BY <1>1 DEF iderw, Goto, IInv, TypeOK, ProcTypes, Holding
  <2>3. FlagTypes' /\ BufTypes' /\ ListTypes'
    BY <1>1, <1>3, Zenon DEF IInv, TypeOK, FlagTypes, BufTypes, ListTypes
  <2>4. SleepTypes' /\ panicked' = panicked /\ writes' = writes
    BY <1>2 DEF iderw, FallAsleep, SleepOn, IInv, TypeOK, SleepTypes
  <2> QED
    BY <2>1, <2>2, <2>3, <2>4 DEF IInv, TypeOK
<1> HIDE DEF x, n
<1>5. LockHeld'
  BY <1>1, <1>2 DEF IInv, LockHeld, Holding
<1>11. HolderKnows' /\ DirtyHeld'
  BY <1>1, <1>2 DEF IInv, DirtyHeld, HolderKnows
<1>6. QueueHeld'
  <2>1. b'[p] = x /\ (~valid'[x] \/ dirty'[x])
    BY <1>1 DEF IInv, HolderKnows, x
  <2>2. ASSUME NEW i \in 1 .. n
        PROVE  /\ \E q \in Proc : b'[q] = idequeue[i] /\ pc'[q] = "io"
               /\ ~valid'[idequeue[i]] \/ dirty'[idequeue[i]]
    BY <1>1, <1>2 DEF IInv, QueueHeld, n
  <2> QED
    BY <1>2, <1>3, <2>1, <2>2 DEF QueueHeld
<1>7. QueueOnce'
  <2>1. \A i \in 1 .. n : idequeue[i] # x
    BY <1>1, <1>2 DEF IInv, QueueHeld, LockHeld, Holding, x, n
  <2>2. \A i, j \in 1 .. n : idequeue[i] = idequeue[j] => i = j
    BY DEF IInv, QueueOnce, n
  <2> QED
    BY <1>3, <2>1, <2>2 DEF QueueOnce
<1>8. BufferCurrent'
  BY <1>1, <1>2 DEF IInv, BufferCurrent
<1>9. DiskCurrent'
  <2> SUFFICES ASSUME NEW k \in Block
               PROVE  disk'[k] = last[k] \/ \E y \in Buf : /\ blockno[y] = k /\ dirty[y]
                                                          /\ Head(idequeue') # y
    BY <1>1, Zenon DEF DiskCurrent, Started
  <2>1. CASE idequeue = <<>> /\ dirty[x]
    <3>1. data[x] = last[blockno[x]]
      BY <1>2, <2>1, NameAssumption DEF IInv, BufferCurrent, NoBlock
    <3>2. disk'[k] = IF k = blockno[x] THEN data[x] ELSE disk[k]
      BY <1>2, <1>10, <2>1 DEF IInv, TypeOK, DiskTypes
    <3> QED
      BY <1>3, <2>1, <3>1, <3>2 DEF IInv, DiskCurrent, Started
  <2>2. CASE ~(idequeue = <<>> /\ dirty[x])
    <3>1. disk' = disk
      BY <1>10, <2>2
    <3> QED
      BY <1>3, <2>2, <3>1 DEF IInv, DiskCurrent, Started
  <2> QED
    BY <2>1, <2>2
<1> QED
  BY <1>2, <1>4, <1>5, <1>6, <1>7, <1>8, <1>9, <1>11 DEF IInv

\* iderw returns once the flags say that the request is done, so the buffer is
\* not queued any more.
LEMMA IderwDonePreserves ==
  ASSUME IInv, NEW p \in Proc, iderw_done(p)
  PROVE  IInv'
<1>1. /\ pc[p] = "io" /\ valid[b[p]] /\ ~dirty[b[p]]
      /\ UNCHANGED <<blockno, valid, dirty, data, failed>> /\ UNCHANGED <<disk, last, idequeue>>
      /\ UNCHANGED <<blockno, refcnt, list>> /\ UNCHANGED <<b, want>> /\ UNCHANGED lock
  BY DEF iderw_done, cache, At
<1>2. /\ pc'[p] = "held" /\ \A q \in Proc \ {p} : pc'[q] = pc[q]
      /\ ListComplete' /\ BufferInUse' /\ UsersKeepBuffer' /\ OneBufferPerBlock'
  <2>1. pc' = [pc EXCEPT ![p] = "held"]
    BY DEF iderw_done, Goto
  <2> QED
    BY <1>1, <2>1, UserMoves, Zenon
<1>3. TypeOK'
  <2>1. ProcTypes'
    BY <1>1 DEF iderw_done, Goto, IInv, TypeOK, ProcTypes, Holding
  <2>2. FlagTypes' /\ BufTypes' /\ ListTypes' /\ DiskTypes'
    BY <1>1, Zenon DEF IInv, TypeOK, FlagTypes, BufTypes, ListTypes, DiskTypes
  <2>3. SleepTypes' /\ panicked' = panicked /\ writes' = writes
    BY DEF iderw_done, IInv, TypeOK, SleepTypes
  <2> QED
    BY <2>1, <2>2, <2>3 DEF IInv, TypeOK
<1>4. LockHeld'
  BY <1>1, <1>2 DEF IInv, LockHeld, Holding
<1>7. HolderKnows' /\ DirtyHeld'
  BY <1>1, <1>2 DEF IInv, HolderKnows, DirtyHeld
<1>5. QueueHeld' /\ QueueOnce'
  BY <1>1, <1>2 DEF IInv, QueueHeld, QueueOnce
<1>6. BufferCurrent' /\ DiskCurrent'
  BY <1>1, <1>2, ContentsKept
<1> QED
  BY <1>2, <1>3, <1>4, <1>5, <1>6, <1>7 DEF IInv

\* The holder changes its buffer and nobody else's.
LEMMA ChangePreserves ==
  ASSUME IInv, NEW p \in Proc, change(p)
  PROVE  IInv'
<1>1. /\ pc[p] = "held"
      /\ UNCHANGED <<blockno, refcnt, list>> /\ UNCHANGED <<b, want>>
      /\ UNCHANGED <<idequeue, valid, b>> /\ UNCHANGED <<dirty, failed, disk, last, lock>>
  BY DEF change, At
<1>2. /\ pc'[p] = "changed" /\ \A q \in Proc \ {p} : pc'[q] = pc[q]
      /\ b[p] \in Buf /\ ListComplete' /\ BufferInUse' /\ UsersKeepBuffer' /\ OneBufferPerBlock'
  <2>1. pc' = [pc EXCEPT ![p] = "changed"]
    BY DEF change, Goto
  <2> QED
    BY <1>1, <2>1, UserMoves, Zenon
<1>3. TypeOK'
  <2>1. BufTypes'
    BY <1>1, <1>2 DEF change, IInv, TypeOK, BufTypes, Value
  <2>2. ProcTypes'
    BY <1>1 DEF change, Goto, IInv, TypeOK, ProcTypes, Holding
  <2>3. FlagTypes' /\ ListTypes' /\ DiskTypes'
    BY <1>1, Zenon DEF IInv, TypeOK, FlagTypes, ListTypes, DiskTypes
  <2>4. SleepTypes' /\ panicked' = panicked /\ writes' = writes + 1
    BY Zenon DEF change, IInv, TypeOK, SleepTypes
  <2> QED
    BY <2>1, <2>2, <2>3, <2>4 DEF IInv, TypeOK
<1>4. LockHeld'
  BY <1>1, <1>2 DEF IInv, LockHeld, Holding
<1>7. HolderKnows' /\ DirtyHeld'
  BY <1>1, <1>2 DEF IInv, HolderKnows, DirtyHeld
<1>5. QueueHeld' /\ QueueOnce'
  BY <1>1, <1>2, QueueKept
<1>6. BufferCurrent' /\ DiskCurrent'
  <2>1. \A y \in Buf \ {b[p]} : data'[y] = data[y]
    BY DEF change, IInv, TypeOK, BufTypes
  <2>2. ~dirty[b[p]]
    BY <1>1 DEF IInv, HolderKnows
  <2>3. BufferCurrent'
    BY <1>1, <1>2, <2>1, <2>2 DEF IInv, BufferCurrent
  <2>4. DiskCurrent'
    BY <1>1 DEF IInv, DiskCurrent, Started
  <2> QED
    BY <2>3, <2>4
<1> QED
  BY <1>2, <1>3, <1>4, <1>5, <1>6, <1>7 DEF IInv

\* bwrite marks the buffer dirty: from here on the disk is behind.
LEMMA BwritePreserves ==
  ASSUME IInv, NEW p \in Proc, bwrite(p)
  PROVE  IInv'
<1> DEFINE x == b[p]
<1>1. /\ pc[p] = "changed"
      /\ UNCHANGED <<blockno, refcnt, list>> /\ UNCHANGED <<b, want>>
      /\ UNCHANGED <<idequeue, valid, b>> /\ UNCHANGED <<data, failed, disk, lock>>
  BY DEF bwrite, At
<1>2. /\ pc'[p] = "iderw" /\ \A q \in Proc \ {p} : pc'[q] = pc[q]
      /\ x \in Buf /\ want[p] \in Block /\ blockno[x] = want[p]
      /\ ListComplete' /\ BufferInUse' /\ UsersKeepBuffer' /\ OneBufferPerBlock'
  <2>1. pc' = [pc EXCEPT ![p] = "iderw"]
    BY DEF bwrite, Goto
  <2> QED
    BY <1>1, <2>1, UserMoves, Zenon
<1>3. dirty'[x] /\ \A y \in Buf \ {x} : dirty'[y] = dirty[y]
  BY <1>2, Zenon DEF bwrite, IInv, TypeOK, FlagTypes
<1>11. last'[want[p]] = data[x] /\ \A k \in Block \ {want[p]} : last'[k] = last[k]
  BY <1>2 DEF bwrite, IInv, TypeOK, DiskTypes
<1>4. lock[x] = p /\ \A q \in Proc \ {p} : pc[q] \in Holding => b[q] # x
  BY <1>1, <1>2 DEF IInv, LockHeld, Holding
<1>5. TypeOK'
  <2>1. ProcTypes'
    BY <1>1 DEF bwrite, Goto, IInv, TypeOK, ProcTypes, Holding
  <2>2. FlagTypes'
    BY <1>1, <1>2 DEF bwrite, IInv, TypeOK, FlagTypes
  <2>3. DiskTypes'
    BY <1>1, <1>2 DEF bwrite, IInv, TypeOK, DiskTypes, BufTypes
  <2>4. BufTypes' /\ ListTypes'
    BY <1>1, Zenon DEF IInv, TypeOK, BufTypes, ListTypes
  <2>5. SleepTypes' /\ panicked' = panicked /\ writes' = writes
    BY Zenon DEF bwrite, IInv, TypeOK, SleepTypes
  <2> QED
    BY <2>1, <2>2, <2>3, <2>4, <2>5 DEF IInv, TypeOK
<1> HIDE DEF x
<1>6. LockHeld'
  BY <1>1, <1>2 DEF IInv, LockHeld, Holding
<1>12. DirtyHeld'
  BY <1>1, <1>3, <1>4 DEF IInv, DirtyHeld
<1>7. HolderKnows'
  <2>1. ASSUME NEW q \in Proc \ {p}, pc[q] \in {"held", "changed", "iderw"}
        PROVE  dirty'[b[q]] = dirty[b[q]]
    BY <1>3, <1>4, <2>1 DEF IInv, BufferInUse, Holding
  <2> QED
    BY <1>1, <1>2, <1>3, <2>1 DEF IInv, HolderKnows, x
<1>8. QueueHeld' /\ QueueOnce'
  BY <1>1, <1>2, <1>3, QueueKept
<1>9. BufferCurrent'
  <2>1. ASSUME NEW y \in Buf \ {x}, blockno[y] # NoBlock
        PROVE  last'[blockno[y]] = last[blockno[y]]
    <3>1. blockno[y] \in Block /\ blockno[y] # want[p]
      BY <1>2, <2>1, NameAssumption DEF IInv, TypeOK, BufTypes, OneBufferPerBlock, NoBlock
    <3> QED
      BY <1>11, <3>1
  <2>2. ASSUME NEW y \in Buf \ {x}, \A q \in Proc : b[q] = y => pc'[q] # "changed"
        PROVE  \A q \in Proc : b[q] = y => pc[q] # "changed"
    BY <1>2, <2>2 DEF x
  <2> QED
    BY <1>1, <1>2, <1>3, <1>11, <2>1, <2>2 DEF IInv, BufferCurrent
<1>10. DiskCurrent'
  <2>1. ~Started(x)
    <3>1. idequeue \in Seq(Buf)
      BY DEF IInv, TypeOK, ListTypes
    <3>2. idequeue # <<>> => idequeue[1] # x
      BY <1>1, <1>4, <3>1 DEF IInv, QueueHeld, Holding
    <3> QED
      BY <3>1, <3>2 DEF Started
  <2>2. \A y \in Buf : dirty[y] => dirty'[y]
    BY <1>3
  <2> QED
    BY <1>1, <1>2, <1>3, <1>11, <2>1, <2>2 DEF IInv, DiskCurrent, Started
<1> QED
  BY <1>2, <1>5, <1>6, <1>7, <1>8, <1>9, <1>10, <1>12 DEF IInv

\* The interrupt ends the request at the head of the queue: what was read is
\* what was last written, and the next write, if there is one, goes to the disk.
LEMMA IdeintrPreserves ==
  ASSUME IInv, NEW ok \in BOOLEAN, ideintr(ok)
  PROVE  IInv'
<1> DEFINE x == Head(idequeue)
           q == Tail(idequeue)
           n == Len(idequeue)
<1>1. /\ idequeue # <<>> /\ idequeue' = q
      /\ disk' = IF q # <<>> /\ dirty[Head(q)]
                 THEN [disk EXCEPT ![blockno[Head(q)]] = data[Head(q)]] ELSE disk
      /\ data' = IF ~dirty[x] /\ ok THEN [data EXCEPT ![x] = disk[blockno[x]]] ELSE data
  BY DEF ideintr, idestart
<1>2. /\ failed' = [failed EXCEPT ![x] = ~dirty[x] /\ ~ok]
      /\ valid' = [valid EXCEPT ![x] = TRUE] /\ dirty' = [dirty EXCEPT ![x] = FALSE]
      /\ state' = wakeup1(state, chan, x)
  BY DEF ideintr
<1>3. /\ UNCHANGED <<blockno, last>> /\ UNCHANGED <<refcnt, pc, b, want>> /\ UNCHANGED <<list, lock>>
      /\ UNCHANGED <<chan, panicked, writes>>
  BY DEF ideintr
<1>4. /\ x \in Buf /\ n \in Nat \ {0} /\ x = idequeue[1]
      /\ q \in Seq(Buf) /\ Len(q) = n - 1 /\ \A i \in 1 .. n - 1 : q[i] = idequeue[i + 1]
      /\ q # <<>> => Head(q) = q[1] /\ n > 1
  <2>1. idequeue \in Seq(Buf)
    BY DEF IInv, TypeOK, ListTypes
  <2> QED
    BY <1>1, <2>1
<1>5. \A i \in 1 .. n - 1 : i + 1 \in 1 .. n /\ q[i] = idequeue[i + 1] /\ q[i] # x /\ q[i] \in Buf
  <2>1. \A i \in 1 .. n - 1 : i + 1 \in 1 .. n /\ 1 \in 1 .. n /\ i + 1 # 1
    BY <1>4
  <2>2. \A i \in 1 .. n - 1 : idequeue[i + 1] # idequeue[1]
    BY <2>1 DEF IInv, QueueOnce
  <2>3. \A i \in 1 .. n : idequeue[i] \in Buf
    BY DEF IInv, TypeOK, ListTypes
  <2> QED
    BY <1>4, <2>1, <2>2, <2>3
<1>6. q # <<>> => Head(q) \in Buf /\ Head(q) # x
  <2>1. q # <<>> => 1 \in 1 .. n - 1 /\ Head(q) = q[1]
    BY <1>4
  <2> QED
    BY <1>5, <2>1
<1>7. PICK h \in Proc : b[h] = x /\ pc[h] = "io"
  BY <1>4 DEF IInv, QueueHeld
<1>8. blockno[x] \in Block
  BY <1>7 DEF IInv, BufferInUse, UsersKeepBuffer
<1> HIDE DEF x, q, n
<1>9. /\ valid'[x] /\ ~dirty'[x] /\ failed'[x] = (~dirty[x] /\ ~ok)
      /\ \A y \in Buf \ {x} : dirty'[y] = dirty[y] /\ valid'[y] = valid[y] /\ failed'[y] = failed[y]
  BY <1>2, <1>4, Zenon DEF IInv, TypeOK, FlagTypes
<1>20. /\ data'[x] = IF ~dirty[x] /\ ok THEN disk[blockno[x]] ELSE data[x]
       /\ \A y \in Buf \ {x} : data'[y] = data[y]
  BY <1>1, <1>4 DEF IInv, TypeOK, BufTypes
<1>10. \A y \in Buf : dirty[y] => blockno[y] \in Block /\ data[y] = last[blockno[y]]
  <2> SUFFICES ASSUME NEW y \in Buf, dirty[y]
               PROVE  blockno[y] \in Block /\ data[y] = last[blockno[y]]
    OBVIOUS
  <2>1. lock[y] \in Proc
    BY DEF IInv, DirtyHeld
  <2>2. b[lock[y]] = y /\ pc[lock[y]] # "idle"
    BY <2>1 DEF IInv, LockHeld, Holding
  <2>3. blockno[y] \in Block
    BY <2>1, <2>2 DEF IInv, BufferInUse, UsersKeepBuffer
  <2> QED
    BY <2>3, NameAssumption DEF IInv, BufferCurrent, NoBlock
<1>11. disk[blockno[x]] = last[blockno[x]]
  <2>1. \A y \in Buf : blockno[y] = blockno[x] => y = x
    BY <1>4, <1>8, NameAssumption DEF IInv, OneBufferPerBlock, NoBlock
  <2> QED
    BY <1>1, <1>8, <2>1 DEF IInv, DiskCurrent, Started, x
<1>12. TypeOK'
  <2>1. DiskTypes'
    BY <1>1, <1>3, <1>6, <1>10 DEF IInv, TypeOK, BufTypes, DiskTypes
  <2>2. BufTypes'
    <3>1. disk[blockno[x]] \in Value
      BY <1>8 DEF IInv, TypeOK, DiskTypes
    <3>2. data' \in [Buf -> Value]
      BY <1>1, <1>4, <3>1 DEF IInv, TypeOK, BufTypes
    <3> QED
      BY <1>3, <3>2, Zenon DEF IInv, TypeOK, BufTypes
  <2>3. SleepTypes'
    BY <1>2, <1>3 DEF IInv, TypeOK, SleepTypes, wakeup1
  <2>4. FlagTypes'
    BY <1>2, <1>4 DEF IInv, TypeOK, FlagTypes
  <2>5. ListTypes' /\ ProcTypes' /\ panicked' = panicked /\ writes' = writes
    BY <1>1, <1>3, <1>4, Zenon DEF IInv, TypeOK, ListTypes, ProcTypes
  <2> QED
    BY <2>1, <2>2, <2>3, <2>4, <2>5 DEF IInv, TypeOK
<1>13. ListComplete' /\ OneBufferPerBlock' /\ LockHeld'
  BY <1>3 DEF IInv, ListComplete, OneBufferPerBlock, LockHeld
<1>14. BufferInUse' /\ UsersKeepBuffer'
  BY <1>3, Zenon DEF IInv, BufferInUse, UsersKeepBuffer
<1>15. HolderKnows' /\ DirtyHeld'
  <2>1. \A p \in Proc : pc[p] \in Holding /\ b[p] = x => p = h
    BY <1>4, <1>7 DEF IInv, LockHeld, Holding
  <2>2. HolderKnows'
    <3>1. \A p \in Proc \ {h} : pc[p] \in Holding => b[p] \in Buf \ {x}
      BY <2>1 DEF IInv, BufferInUse, Holding
    <3>2. \A p \in Proc \ {h} : pc[p] \in Holding => valid'[b[p]] = valid[b[p]] /\ dirty'[b[p]] = dirty[b[p]]
      BY <1>9, <3>1
    <3> QED
      BY <1>3, <1>7, <3>2 DEF IInv, HolderKnows, Holding
  <2>3. DirtyHeld'
    BY <1>3, <1>9 DEF IInv, DirtyHeld
  <2> QED
    BY <2>2, <2>3
<1>16. QueueHeld'
  <2>1. ASSUME NEW i \in 1 .. n - 1
        PROVE  /\ \E p \in Proc : b'[p] = q[i] /\ pc'[p] = "io"
               /\ ~valid'[q[i]] \/ dirty'[q[i]]
    <3>1. /\ \E p \in Proc : b[p] = q[i] /\ pc[p] = "io"
          /\ ~valid[q[i]] \/ dirty[q[i]]
      BY <1>5 DEF IInv, QueueHeld, n
    <3> QED
      BY <1>3, <1>5, <1>9, <3>1
  <2> QED
    BY <1>1, <1>4, <2>1 DEF QueueHeld
<1>17. QueueOnce'
  <2>1. \A i, j \in 1 .. n - 1 : q[i] = q[j] => i + 1 = j + 1
    BY <1>5 DEF IInv, QueueOnce, n
  <2> QED
    BY <1>1, <1>4, <2>1 DEF QueueOnce
<1>18. BufferCurrent'
  <2>1. ~dirty'[x] /\ (~failed'[x] => data'[x] = last[blockno[x]])
    BY <1>4, <1>9, <1>10, <1>11, <1>20, Zenon
  <2> QED
    BY <1>3, <1>4, <1>9, <1>20, <2>1 DEF IInv, BufferCurrent
<1>19. DiskCurrent'
  <2> SUFFICES ASSUME NEW k \in Block
               PROVE  disk'[k] = last[k] \/ \E y \in Buf : /\ blockno[y] = k /\ dirty'[y]
                                                          /\ ~(q # <<>> /\ Head(q) = y)
    BY <1>1, <1>3, Zenon DEF DiskCurrent, Started
  <2>1. disk'[k] = IF q # <<>> /\ dirty[Head(q)] /\ blockno[Head(q)] = k THEN data[Head(q)] ELSE disk[k]
    BY <1>1, <1>6, <1>10 DEF IInv, TypeOK, DiskTypes
  <2>2. CASE disk[k] = last[k]
    BY <1>6, <1>10, <2>1, <2>2
  <2>3. CASE disk[k] # last[k]
    <3>1. PICK y \in Buf : blockno[y] = k /\ dirty[y] /\ y # x
      BY <1>1, <2>3 DEF IInv, DiskCurrent, Started, x
    <3> QED
      BY <1>9, <1>10, <2>1, <3>1
  <2> QED
    BY <2>2, <2>3
<1> QED
  BY <1>12, <1>13, <1>14, <1>15, <1>16, <1>17, <1>18, <1>19 DEF IInv

\* A step that touches no buffer and moves no process on keeps the invariant.
LEMMA BuffersUntouched ==
  ASSUME IInv, TypeOK',
         UNCHANGED <<blockno, valid, dirty, data, failed, last, disk>>,
         UNCHANGED <<list, lock, idequeue>>, UNCHANGED <<refcnt, pc, b, want>>
  PROVE  IInv'
<1>1. UsersKeepBuffer'
  BY Zenon DEF IInv, UsersKeepBuffer
<1>2. ListComplete' /\ OneBufferPerBlock' /\ BufferInUse' /\ LockHeld'
  BY DEF IInv, ListComplete, OneBufferPerBlock, BufferInUse, LockHeld
<1>4. HolderKnows' /\ DirtyHeld' /\ QueueHeld' /\ QueueOnce'
  BY DEF IInv, HolderKnows, DirtyHeld, QueueHeld, QueueOnce
<1>3. BufferCurrent' /\ DiskCurrent'
  BY ContentsKept
<1> QED
  BY <1>1, <1>2, <1>3, <1>4 DEF IInv

\* Nothing changes.
LEMMA UnchangedPreserves ==
  ASSUME IInv, UNCHANGED vars
  PROVE  IInv'
<1>1. TypeOK'
  BY Zenon DEF IInv, TypeOK, FlagTypes, BufTypes, ListTypes, DiskTypes, ProcTypes, SleepTypes, vars
<1> QED
  BY <1>1, BuffersUntouched, Zenon DEF vars

\* Going back to sleep, being killed and the panic of bget touch no buffer.
LEMMA SchedulingPreserves ==
  ASSUME IInv, NEW p \in Proc,
         iderw_again(p) \/ kill(p) \/ \E blk \in Block : bget_panic(p, blk)
  PROVE  IInv'
<1>1. /\ UNCHANGED <<blockno, valid, dirty, data, failed, last, disk>>
      /\ UNCHANGED <<list, lock, idequeue>> /\ UNCHANGED <<refcnt, pc, b, want>>
      /\ UNCHANGED writes
  BY DEF iderw_again, kill, bget_panic, cache
<1>2. panicked' \in BOOLEAN /\ state' \in [Proc -> {"RUNNABLE", "SLEEPING"}]
  BY Zenon DEF iderw_again, kill, bget_panic, FallAsleep, IInv, TypeOK, SleepTypes
<1>3. chan' \in [Proc -> Buf \cup {NoBuf}]
  <2>1. CASE iderw_again(p)
    <3>1. b[p] \in Buf /\ chan' = [chan EXCEPT ![p] = b[p]]
      BY <2>1, Zenon DEF iderw_again, At, SleepOn, IInv, BufferInUse
    <3> QED
      BY <3>1 DEF IInv, TypeOK, SleepTypes
  <2>2. CASE ~iderw_again(p)
    BY <2>2 DEF kill, bget_panic, IInv, TypeOK, SleepTypes
  <2> QED
    BY <2>1, <2>2
<1>4. TypeOK'
  <2>1. FlagTypes' /\ BufTypes' /\ ListTypes' /\ DiskTypes' /\ ProcTypes'
    BY <1>1, Zenon DEF IInv, TypeOK, FlagTypes, BufTypes, ListTypes, DiskTypes, ProcTypes
  <2> QED
    BY <1>1, <1>2, <1>3, <2>1, Zenon DEF IInv, TypeOK, SleepTypes
<1> QED
  BY <1>1, <1>4, BuffersUntouched

\* Every step of the kernel and of the disk keeps the invariant.
LEMMA NextPreserves ==
  ASSUME Counting, IInv, [Next]_vars
  PROVE  IInv'
<1>1. ASSUME NEW p \in Proc, NEW blk \in Block,
             bget_hit(p, blk) \/ bget_recycle(p, blk) \/ bget_panic(p, blk)
      PROVE  IInv'
  BY <1>1, BgetHitPreserves, BgetRecyclePreserves, SchedulingPreserves
<1>2. ASSUME NEW p \in Proc, Step(p) PROVE IInv'
  BY <1>2, BreadPreserves, IderwPreserves, IderwDonePreserves, SchedulingPreserves,
     BwritePreserves, BrelsePreserves, BrelseCountPreserves DEF Step
<1>3. ASSUME NEW p \in Proc, change(p) \/ kill(p) PROVE IInv'
  BY <1>3, ChangePreserves, SchedulingPreserves
<1>4. ASSUME NEW ok \in BOOLEAN, ideintr(ok) PROVE IInv'
  BY <1>4, IdeintrPreserves
<1>5. CASE UNCHANGED vars
  BY <1>5, UnchangedPreserves
<1> QED
  BY <1>1, <1>2, <1>3, <1>4, <1>5 DEF Next, Stopped

(* ------------------------------- theorems ------------------------------ *)

FS == INSTANCE FiniteSetTheorems

\* Sets of processes are finite, so they are counted that way.
LEMMA CountingHolds == Counting
<1>1. /\ \A S : FS!Cardinality(S) = Cardinality(S)
      /\ \A S : FS!IsFiniteSet(S) <=> IsFiniteSet(S)
  BY DEF FS!Cardinality, Cardinality, FS!IsFiniteSet, IsFiniteSet
<1> SUFFICES ASSUME NEW S \in SUBSET Proc
             PROVE  /\ Cardinality(S) \in Nat
                    /\ Cardinality(S) = 0 <=> S = {}
                    /\ \A p \in Proc \ S : Cardinality(S \cup {p}) = Cardinality(S) + 1
  BY DEF Counting
<1>2. FS!IsFiniteSet(S)
  BY <1>1, ProcAssumption, FS!FS_Subset
<1>3. Cardinality(S) \in Nat
  BY <1>1, <1>2, FS!FS_CardinalityType
<1>4. Cardinality(S) = 0 <=> S = {}
  BY <1>1, <1>2, FS!FS_EmptySet
<1>5. \A p \in Proc \ S : Cardinality(S \cup {p}) = Cardinality(S) + 1
  BY <1>1, <1>2, FS!FS_AddElement
<1> QED
  BY <1>3, <1>4, <1>5

\* The inductive invariant holds throughout.
THEOREM Invariant == Spec => []IInv
<1>1. Init => IInv
  BY CountingHolds, InitEstablishes
<1>2. IInv /\ [Next]_vars => IInv'
  BY CountingHolds, NextPreserves
<1> QED
  BY <1>1, <1>2, PTL DEF Spec

\* The fields of the buffers, the list and the queue keep their types.
THEOREM TypeCorrect == Spec => []TypeOK
<1>1. IInv => TypeOK
  BY DEF IInv
<1> QED
  BY <1>1, Invariant, PTL

\* bget never gives a buffer away while a process waits for it, uses it or is
\* about to drop its count, and refcnt counts exactly those processes.
THEOREM BuffersKept == Spec => []UsersKeepBuffer
<1>1. IInv => UsersKeepBuffer
  BY DEF IInv
<1> QED
  BY <1>1, Invariant, PTL

\* bget and bread cache no block in two buffers.
THEOREM CachedOnce == Spec => []OneBufferPerBlock
<1>1. IInv => OneBufferPerBlock
  BY DEF IInv
<1> QED
  BY <1>1, Invariant, PTL

\* bread returns what bwrite last wrote to the block, from the cache or from
\* the disk, for any number of processes, buffers and blocks.
THEOREM ReadsLastWrite == Spec => []LastWriteRead
<1>1. IInv => LastWriteRead
  <2> SUFFICES ASSUME IInv, NEW p \in Proc, pc[p] = "held", ~failed[b[p]]
               PROVE  data[b[p]] = last[want[p]]
    BY DEF LastWriteRead
  <2> USE DEF IInv
  <2>1. b[p] \in Buf /\ blockno[b[p]] = want[p] /\ want[p] \in Block /\ valid[b[p]]
    BY DEF BufferInUse, UsersKeepBuffer, HolderKnows
  <2>2. \A q \in Proc : b[q] = b[p] => pc[q] # "changed"
    BY <2>1 DEF LockHeld, Holding
  <2> QED
    BY <2>1, <2>2, NameAssumption DEF BufferCurrent, NoBlock
<1> QED
  BY <1>1, Invariant, PTL
=============================================================================
