---------------------------- MODULE PipeProofs ----------------------------
(***************************************************************************)
(* The pipe of kernel/file.c for every size of the ring and every number   *)
(* of readers and writers: what read and write return is true              *)
(* (ResultsTrue), and pipe_read and pipe_write implement the bounded byte  *)
(* stream of PipeStream.  The heart of the inductive invariant is Stream:  *)
(* the bytes between read_offset and write_offset are those sent and not   *)
(* yet received, in order.                                                 *)
(***************************************************************************)
EXTENDS Pipe, TLAPS

\* The program counters of readers, of writers, and of both at a close.
Closing == {"idle", "close_lock", "close_pipe", "close_unlock", "closed"}
Reading == {"read_lock", "read_pipe", "read_wait", "read_unlock"}
Writing == {"write_lock", "write_pipe", "write_wakeup", "write_unlock"}

\* Where a process has the lock of its file_info.  Not in read_wait: pipe_read
\* gives it up before it sleeps.
Holding == {"read_pipe", "read_unlock", "write_pipe", "write_wakeup", "write_unlock", "close_pipe", "close_unlock"}

RingTypes ==
  /\ buffer \in [0 .. Size - 1 -> Byte \cup {NoByte}]
  /\ read_offset \in 0 .. Size - 1 /\ write_offset \in 0 .. Size - 1 /\ available_bytes \in 0 .. Size

EndTypes ==
  /\ read_open \in BOOLEAN /\ write_open \in BOOLEAN
  /\ lock \in [End -> Process \cup {NoProc}] /\ ref_count \in [End -> Nat]

CallTypes ==
  /\ pc \in [Process -> Closing \cup Reading \cup Writing]
  /\ \A r \in Reader : pc[r] \in Closing \cup Reading
  /\ \A w \in Writer : pc[w] \in Closing \cup Writing
  /\ n \in [Process -> Nat] /\ idx \in [Process -> Nat]

HistoryTypes ==
  /\ calls \in [Writer -> 0 .. MaxWrites] /\ eof \in [Reader -> BOOLEAN]
  /\ sent \in Seq(Byte) /\ received \in Seq(Byte)

TypeOK == RingTypes /\ EndTypes /\ CallTypes /\ HistoryTypes

\* The lock of a file_info is with the process whose program counter says so.
LockHeld == \A p \in Process : pc[p] \in Holding => lock[EndOf(p)] = p

\* A write that goes on has been counted, and has not written too much.
WriteGoesOn ==
  \A w \in Writer : /\ pc[w] \in Writing => calls[w] > 0
                    /\ pc[w] \in Writing => idx[w] <= n[w]

\* What was sent is what was received and, from read_offset on around the ring,
\* what is available.
Stream ==
  /\ Len(sent) = Len(received) + available_bytes
  /\ \A i \in 1 .. Len(received) : received[i] = sent[i]
  /\ \A i \in 1 .. available_bytes : buffer[(read_offset + i - 1) % Size] = sent[Len(received) + i]
  /\ write_offset = (read_offset + available_bytes) % Size

\* The processes that have end e open, up to pipe_close.
Users(e) == {p \in Process : EndOf(p) = e /\ pc[p] \notin {"close_unlock", "closed"}}

\* ref_count counts them, and an end is open while there is one.
EndsCounted ==
  /\ \A e \in End : ref_count[e] = Cardinality(Users(e))
  /\ write_open <=> Users("write") # {}

IInv == TypeOK /\ LockHeld /\ WriteGoesOn /\ Stream /\ EndsCounted /\ ResultsTrue

(* ------------------------------- lemmas -------------------------------- *)

\* The place i of the ring, seen from the end of the a bytes from ro on.
LEMMA FromEnd ==
  ASSUME NEW K \in Nat \ {0}, NEW ro \in 0 .. K - 1, NEW a \in 0 .. K, NEW i \in 1 .. K
  PROVE  /\ (ro + i - 1) % K \in 0 .. K - 1
         /\ (((ro + i - 1) % K) - ((ro + a) % K)) % K = IF i <= a THEN K + i - 1 - a ELSE i - 1 - a
<1>0. PICK wo, j : wo = (ro + a) % K /\ j = (ro + i - 1) % K
  BY Zenon
<1>1. wo \in 0 .. K - 1 /\ (ro + a < K => wo = ro + a) /\ (ro + a >= K => wo = ro + a - K)
  BY <1>0
<1>2. j \in 0 .. K - 1 /\ (ro + i - 1 < K => j = ro + i - 1) /\ (ro + i - 1 >= K => j = ro + i - 1 - K)
  BY <1>0
<1>3. (j >= wo => (j - wo) % K = j - wo) /\ (j < wo => (j - wo) % K = j - wo + K)
  BY <1>1, <1>2
<1>4. (j - wo) % K = IF i <= a THEN K + i - 1 - a ELSE i - 1 - a
  BY <1>1, <1>2, <1>3
<1> QED
  BY <1>0, <1>2, <1>4, Zenon

\* Once around the ring.
LEMMA Around ==
  ASSUME NEW K \in Nat \ {0}, NEW x \in 0 .. K - 1
  PROVE  (x + K) % K = x % K
BY SMTT(20)

\* Facts about the numbers of processes; CountingHolds proves them.
Counting ==
  \A P \in SUBSET Process :
    /\ Cardinality(P) \in Nat
    /\ Cardinality(P) = 0 <=> P = {}
    /\ \A p \in P : Cardinality(P \ {p}) = Cardinality(P) - 1

\* The end of a process.
LEMMA Ends ==
  ASSUME NEW p \in Process
  PROVE  /\ EndOf(p) \in End /\ p # NoProc
         /\ p \in Reader => EndOf(p) = "read" /\ p \notin Writer
         /\ p \in Writer => EndOf(p) = "write" /\ p \notin Reader
BY ProcAssumption, NameAssumption DEF EndOf, End, Process

\* A process goes on to place `to` of its call, where it may take or give up
\* the lock of its file_info.
Takes(p) == lock[EndOf(p)] = NoProc /\ lock' = [lock EXCEPT ![EndOf(p)] = p]
Gives(p) == lock[EndOf(p)] \in {p, NoProc} /\ lock' = [lock EXCEPT ![EndOf(p)] = NoProc]
Moves(p, to) ==
  /\ pc' = [pc EXCEPT ![p] = to]
  /\ to \in Closing \cup (IF p \in Reader THEN Reading ELSE Writing)
  /\ \/ lock' = lock /\ (to \in Holding => lock[EndOf(p)] = p)
     \/ Takes(p)
     \/ Gives(p) /\ to \notin Holding

\* Only the program counter of p changes, and it keeps its type.
LEMMA MovesPc ==
  ASSUME CallTypes, NEW p \in Process, NEW to, Moves(p, to)
  PROVE  /\ pc'[p] = to /\ \A q \in Process \ {p} : pc'[q] = pc[q]
         /\ pc' \in [Process -> Closing \cup Reading \cup Writing]
         /\ \A r \in Reader : pc'[r] \in Closing \cup Reading
         /\ \A w \in Writer : pc'[w] \in Closing \cup Writing
<1>1. /\ pc' = [pc EXCEPT ![p] = to] /\ pc \in [Process -> Closing \cup Reading \cup Writing]
      /\ to \in Closing \cup (IF p \in Reader THEN Reading ELSE Writing)
  BY Zenon DEF Moves, CallTypes
<1>2. pc'[p] = to /\ \A q \in Process \ {p} : pc'[q] = pc[q]
  BY <1>1
<1>3. to \in Closing \cup Reading \cup Writing
  BY <1>1, Zenon
<1>4. pc' \in [Process -> Closing \cup Reading \cup Writing]
  BY <1>1, <1>3
<1>5. \A r \in Reader : pc'[r] \in Closing \cup Reading
  BY <1>1, <1>2 DEF CallTypes, Process
<1>6. \A w \in Writer : pc'[w] \in Closing \cup Writing
  BY <1>1, <1>2, ProcAssumption DEF CallTypes, Process
<1> QED
  BY <1>2, <1>4, <1>5, <1>6

\* The lock of a file_info stays with the process that holds it.
LEMMA MovesLock ==
  ASSUME CallTypes, EndTypes, LockHeld, NEW p \in Process, NEW to, Moves(p, to)
  PROVE  lock' \in [End -> Process \cup {NoProc}] /\ LockHeld'
<1>1. pc'[p] = to /\ \A q \in Process \ {p} : pc'[q] = pc[q]
  BY MovesPc
<1>2. lock \in [End -> Process \cup {NoProc}] /\ EndOf(p) \in End /\ p # NoProc
  BY Ends DEF EndTypes
<1>3. ASSUME NEW v \in {p, NoProc}, lock' = [lock EXCEPT ![EndOf(p)] = v], lock[EndOf(p)] \in {p, NoProc},
             to \in Holding => v = p
      PROVE  lock' \in [End -> Process \cup {NoProc}] /\ LockHeld'
  <2>1. lock' \in [End -> Process \cup {NoProc}]
    BY <1>2, <1>3
  <2>2. lock'[EndOf(p)] = v /\ \A e \in End \ {EndOf(p)} : lock'[e] = lock[e]
    BY <1>2, <1>3
  <2>3. \A q \in Process : EndOf(q) \in End /\ q # NoProc
    BY Ends
  <2>4. LockHeld'
    BY <1>1, <1>2, <1>3, <2>2, <2>3, Zenon DEF LockHeld, EndOf
  <2> QED
    BY <2>1, <2>4
<1>4. CASE lock' = lock /\ (to \in Holding => lock[EndOf(p)] = p)
  BY <1>1, <1>2, <1>4, Zenon DEF LockHeld, EndOf
<1>5. CASE Takes(p)
  BY <1>3, <1>5, Zenon DEF Takes
<1>6. CASE Gives(p) /\ to \notin Holding
  BY <1>3, <1>6, Zenon DEF Gives
<1> QED
  BY <1>4, <1>5, <1>6, Zenon DEF Moves

\* Before and after pipe_close nothing changes in who has an end open.
LEMMA UsersKept ==
  ASSUME CallTypes, EndsCounted, NEW p \in Process, NEW to, Moves(p, to),
         pc[p] \in {"close_unlock", "closed"} <=> to \in {"close_unlock", "closed"},
         ref_count' = ref_count, write_open' = write_open
  PROVE  EndsCounted'
<1>1. pc'[p] = to /\ \A q \in Process \ {p} : pc'[q] = pc[q]
  BY MovesPc
<1>2. \A q \in Process : pc'[q] \in {"close_unlock", "closed"} <=> pc[q] \in {"close_unlock", "closed"}
  BY <1>1
<1>3. \A e \in End : Users(e)' = Users(e)
  BY <1>2 DEF Users, EndOf
<1> QED
  BY <1>3 DEF EndsCounted, End

\* The ring and the history of its bytes are left alone.
RingKept == UNCHANGED <<buffer, read_offset, write_offset, available_bytes, sent, received>>
\* Then the stream is what it was.
LEMMA StreamKept ==
  ASSUME RingTypes, Stream, RingKept
  PROVE  RingTypes' /\ Stream'
BY Zenon DEF RingTypes, Stream, RingKept

\* A step of process p that leaves the bytes and the ends of the pipe alone.
\* What it says of n, idx and calls makes WriteGoesOn and ResultsTrue hold on.
Returning == {"write_wakeup", "write_unlock"}
Quiet(p, to) ==
  /\ Moves(p, to)
  /\ pc[p] \in {"close_unlock", "closed"} <=> to \in {"close_unlock", "closed"}
  /\ RingKept /\ UNCHANGED <<read_open, write_open, ref_count, eof>>
  /\ n' \in [Process -> Nat] /\ idx' \in [Process -> Nat] /\ calls' \in [Writer -> 0 .. MaxWrites]
  /\ \A w \in Writer \ {p} : n'[w] = n[w] /\ idx'[w] = idx[w] /\ calls'[w] = calls[w]
  /\ p \in Writer /\ to \in Writing => calls'[p] > 0 /\ idx'[p] <= n'[p]
  /\ p \in Writer /\ to \in Returning => idx'[p] = n'[p] \/ ~read_open

\* Such a step preserves the invariant.
LEMMA QuietKeeps ==
  ASSUME IInv, NEW p \in Process, NEW to, Quiet(p, to)
  PROVE  IInv'
<1>1. /\ RingTypes /\ EndTypes /\ CallTypes /\ HistoryTypes /\ LockHeld /\ WriteGoesOn
      /\ Stream /\ EndsCounted /\ ResultsTrue
  BY Zenon DEF IInv, TypeOK
<1>2. /\ Moves(p, to) /\ RingKept
      /\ read_open' = read_open /\ write_open' = write_open /\ ref_count' = ref_count /\ eof' = eof
      /\ sent' = sent /\ received' = received
      /\ n' \in [Process -> Nat] /\ idx' \in [Process -> Nat] /\ calls' \in [Writer -> 0 .. MaxWrites]
  BY Zenon DEF Quiet, RingKept
<1>3. /\ pc'[p] = to /\ \A q \in Process \ {p} : pc'[q] = pc[q]
      /\ pc' \in [Process -> Closing \cup Reading \cup Writing]
      /\ \A r \in Reader : pc'[r] \in Closing \cup Reading
      /\ \A w \in Writer : pc'[w] \in Closing \cup Writing
  BY <1>1, <1>2, MovesPc, Zenon
<1>4. lock' \in [End -> Process \cup {NoProc}] /\ LockHeld'
  BY <1>1, <1>2, MovesLock, Zenon
<1>5. RingTypes' /\ Stream'
  BY <1>1, <1>2, StreamKept, Zenon
<1>6. EndTypes'
  BY <1>1, <1>2, <1>4, Zenon DEF EndTypes
<1>7. CallTypes'
  BY <1>2, <1>3, Zenon DEF CallTypes
<1>8. HistoryTypes'
  BY <1>1, <1>2, Zenon DEF HistoryTypes
<1>9. EndsCounted'
  BY <1>1, <1>2, UsersKept, Zenon DEF Quiet
<1>10. \A w \in Writer \ {p} : /\ n'[w] = n[w] /\ idx'[w] = idx[w] /\ calls'[w] = calls[w]
                               /\ pc'[w] = pc[w]
  BY <1>3, Zenon DEF Quiet, Process
<1>11. WriteGoesOn'
  <2> SUFFICES ASSUME NEW w \in Writer, pc'[w] \in Writing
               PROVE  calls'[w] > 0 /\ idx'[w] <= n'[w]
    BY Zenon DEF WriteGoesOn
  <2>1. CASE w = p
    BY <1>3, <2>1, Zenon DEF Quiet
  <2>2. CASE w # p
    <3>1. pc[w] \in Writing => calls[w] > 0 /\ idx[w] <= n[w]
      BY <1>1, Zenon DEF WriteGoesOn
    <3>2. /\ n'[w] = n[w] /\ idx'[w] = idx[w] /\ calls'[w] = calls[w] /\ pc'[w] = pc[w]
      BY <1>10, <2>2, Zenon
    <3> QED
      BY <3>1, <3>2, Zenon
  <2> QED
    BY <2>1, <2>2, Zenon
<1>12. ResultsTrue'
  <2>1. ASSUME NEW w \in Writer, pc'[w] \in Returning
        PROVE  idx'[w] = n'[w] \/ ~read_open'
    <3>0. p \in Writer /\ to \in Returning => idx'[p] = n'[p] \/ ~read_open
      BY Zenon DEF Quiet
    <3>1. CASE w = p
      BY <1>2, <1>3, <2>1, <3>0, <3>1
    <3>2. CASE w # p
      BY <1>1, <1>2, <1>10, <2>1, <3>2, Zenon DEF ResultsTrue, Returning
    <3> QED
      BY <3>1, <3>2, Zenon
  <2> QED
    BY <1>1, <1>2, <2>1, Zenon DEF ResultsTrue, Returning
<1> QED
  BY <1>4, <1>5, <1>6, <1>7, <1>8, <1>9, <1>11, <1>12, Zenon DEF IInv, TypeOK

\* A step that changes none of the invariant's variables.
LEMMA StillKeeps ==
  ASSUME IInv, UNCHANGED <<pipe, lock, ref_count, pc, n, idx, history>>
  PROVE  IInv'
<1>1. /\ UNCHANGED <<buffer, read_offset, write_offset, available_bytes, read_open, write_open>>
      /\ UNCHANGED <<lock, ref_count, pc, n, idx, calls, sent, received, eof>>
  BY Zenon DEF pipe, history
<1>2. RingTypes' /\ EndTypes' /\ CallTypes' /\ HistoryTypes'
  BY <1>1, Zenon DEF IInv, TypeOK, RingTypes, EndTypes, CallTypes, HistoryTypes
<1>3. LockHeld' /\ WriteGoesOn' /\ Stream' /\ ResultsTrue'
  BY <1>1, Zenon DEF IInv, LockHeld, WriteGoesOn, Stream, ResultsTrue
<1>4. EndsCounted'
  BY <1>1, Zenon DEF IInv, EndsCounted, Users
<1> QED
  BY <1>2, <1>3, <1>4, Zenon DEF IInv, TypeOK

\* A step that only goes on in the call, with or without the file_info's lock.
LEMMA MovingKeeps ==
  ASSUME IInv, NEW p \in Process, NEW to, Moves(p, to),
         pc[p] \in {"close_unlock", "closed"} <=> to \in {"close_unlock", "closed"},
         UNCHANGED <<pipe, ref_count, n, idx, history>>,
         p \in Writer /\ to \in Writing => pc[p] \in Writing,
         p \in Writer /\ to \in Returning => idx[p] = n[p] \/ ~read_open
  PROVE  IInv'
<1>1. /\ n' = n /\ idx' = idx /\ calls' = calls /\ RingKept
      /\ UNCHANGED <<read_open, write_open, ref_count, eof>>
  BY Zenon DEF pipe, history, RingKept
<1>2. n \in [Process -> Nat] /\ idx \in [Process -> Nat] /\ calls \in [Writer -> 0 .. MaxWrites]
  BY Zenon DEF IInv, TypeOK, CallTypes, HistoryTypes
<1>3. p \in Writer /\ to \in Writing => calls[p] > 0 /\ idx[p] <= n[p]
  BY Zenon DEF IInv, WriteGoesOn
<1>4. Quiet(p, to)
  BY <1>1, <1>2, <1>3, Zenon DEF Quiet
<1> QED
  BY <1>4, QuietKeeps, Zenon

\* acquiresleep preserves the invariant, whether it takes the lock or sleeps.
LEMMA AcquireKeeps ==
  ASSUME IInv, NEW p \in Process, NEW from, NEW to, acquiresleep(p, from, to),
         \/ p \in Reader /\ from = "read_lock" /\ to = "read_pipe"
         \/ p \in Writer /\ from = "write_lock" /\ to = "write_pipe"
         \/ from = "close_lock" /\ to = "close_pipe"
  PROVE  IInv'
<1>1. pc[p] = from /\ UNCHANGED <<pipe, ref_count, n, idx, history>>
  BY Zenon DEF acquiresleep, At
<1>2. CASE Takes(p) /\ pc' = [pc EXCEPT ![p] = to]
  <2>1. to \in Closing \cup (IF p \in Reader THEN Reading ELSE Writing)
    BY Ends DEF Closing, Reading, Writing
  <2>2. Moves(p, to)
    BY <1>2, <2>1, Zenon DEF Moves
  <2>3. pc[p] \in {"close_unlock", "closed"} <=> to \in {"close_unlock", "closed"}
    BY <1>1
  <2>4. (p \in Writer /\ to \in Writing => pc[p] \in Writing) /\ to \notin Returning
    BY <1>1, Ends DEF Writing, Returning
  <2> QED
    BY <1>1, <2>2, <2>3, <2>4, MovingKeeps, Zenon
<1>3. CASE UNCHANGED <<lock, pc>>
  BY <1>1, <1>3, StillKeeps, Zenon
<1> QED
  BY <1>2, <1>3, Zenon DEF acquiresleep, Takes, Goto

\* releasesleep preserves the invariant: the process that gives up the lock had it.
LEMMA ReleaseKeeps ==
  ASSUME IInv, NEW p \in Process, NEW from, NEW to, releasesleep(p, from, to),
         \/ from \in {"read_unlock", "write_unlock"} /\ to = "idle"
         \/ from = "close_unlock" /\ to = "closed"
  PROVE  IInv'
<1>1. /\ pc[p] = from /\ UNCHANGED <<pipe, ref_count, n, idx, history>>
      /\ lock' = [lock EXCEPT ![EndOf(p)] = NoProc] /\ pc' = [pc EXCEPT ![p] = to]
  BY Zenon DEF releasesleep, At, Goto
<1>2. to \in Closing /\ to \notin Holding /\ to \notin Writing /\ to \notin Returning /\ from \in Holding
  BY DEF Closing, Holding, Writing, Returning
<1>3. lock[EndOf(p)] = p
  BY <1>1, <1>2, Zenon DEF IInv, LockHeld
<1>4. Moves(p, to)
  BY <1>1, <1>2, <1>3, Zenon DEF Moves, Gives
<1>5. pc[p] \in {"close_unlock", "closed"} <=> to \in {"close_unlock", "closed"}
  BY <1>1
<1> QED
  BY <1>1, <1>2, <1>4, <1>5, MovingKeeps, Zenon

\* The beginning of a close preserves the invariant.
LEMMA CallCloseKeeps ==
  ASSUME IInv, NEW p \in Process, call_close(p)
  PROVE  IInv'
<1>1. /\ pc[p] = "idle" /\ UNCHANGED <<pipe, ref_count, n, idx, history>>
      /\ lock' = lock /\ pc' = [pc EXCEPT ![p] = "close_lock"]
  BY Zenon DEF call_close, At, Goto
<1>2. /\ "close_lock" \in Closing /\ "close_lock" \notin Holding
      /\ "close_lock" \notin Writing /\ "close_lock" \notin Returning
  BY DEF Closing, Holding, Writing, Returning
<1>3. Moves(p, "close_lock")
  BY <1>1, <1>2, Zenon DEF Moves
<1>4. pc[p] \in {"close_unlock", "closed"} <=> "close_lock" \in {"close_unlock", "closed"}
  BY <1>1
<1> QED
  BY <1>1, <1>2, <1>3, <1>4, MovingKeeps, Zenon

\* The wakeup of pipe_write preserves the invariant.
LEMMA WriteWakeupKeeps ==
  ASSUME IInv, NEW w \in Writer, write_wakeup(w)
  PROVE  IInv'
<1>0. w \in Process /\ w \notin Reader /\ EndOf(w) = "write"
  BY Ends DEF Process
<1>1. /\ pc[w] = "write_wakeup" /\ UNCHANGED <<pipe, ref_count, n, idx, history>>
      /\ lock' = lock /\ pc' = [pc EXCEPT ![w] = "write_unlock"]
  BY Zenon DEF write_wakeup, At, Goto
<1>2. /\ {"write_wakeup", "write_unlock"} \subseteq Writing
      /\ {"write_wakeup", "write_unlock"} \subseteq Holding
  BY DEF Holding, Writing
<1>3. lock[EndOf(w)] = w
  BY <1>0, <1>1, <1>2 DEF IInv, LockHeld
<1>4. Moves(w, "write_unlock")
  BY <1>0, <1>1, <1>2, <1>3 DEF Moves
<1>5. pc[w] \in {"close_unlock", "closed"} <=> "write_unlock" \in {"close_unlock", "closed"}
  BY <1>1
<1>6. pc[w] \in Writing /\ (idx[w] = n[w] \/ ~read_open)
  BY <1>1, <1>2 DEF IInv, ResultsTrue
<1> QED
  BY <1>0, <1>1, <1>4, <1>5, <1>6, MovingKeeps, Zenon

\* The beginning of a read preserves the invariant.
LEMMA CallReadKeeps ==
  ASSUME IInv, NEW r \in Reader, call_read(r)
  PROVE  IInv'
<1>0. r \in Process /\ r \notin Writer
  BY Ends DEF Process
<1>1. /\ pc[r] = "idle" /\ lock' = lock /\ pc' = [pc EXCEPT ![r] = "read_lock"]
      /\ idx' = idx /\ calls' = calls /\ RingKept
      /\ UNCHANGED <<read_open, write_open, ref_count, eof>>
  BY Zenon DEF call_read, At, Goto, pipe, history, RingKept
<1>2. PICK k \in ReadSize : n' = [n EXCEPT ![r] = k]
  BY Zenon DEF call_read
<1>3. n \in [Process -> Nat] /\ idx \in [Process -> Nat] /\ calls \in [Writer -> 0 .. MaxWrites]
  BY Zenon DEF IInv, TypeOK, CallTypes, HistoryTypes
<1>4. n' \in [Process -> Nat] /\ \A w \in Writer \ {r} : n'[w] = n[w]
  BY <1>0, <1>2, <1>3, CountAssumption DEF Process
<1>5. Moves(r, "read_lock")
  BY <1>1 DEF Moves, Reading, Holding
<1>6. pc[r] \in {"close_unlock", "closed"} <=> "read_lock" \in {"close_unlock", "closed"}
  BY <1>1
<1>7. Quiet(r, "read_lock")
  BY <1>0, <1>1, <1>3, <1>4, <1>5, <1>6, Zenon DEF Quiet
<1> QED
  BY <1>0, <1>7, QuietKeeps, Zenon

\* The beginning of a write, with n bytes to go, preserves the invariant.
LEMMA CallWriteKeeps ==
  ASSUME IInv, NEW w \in Writer, call_write(w)
  PROVE  IInv'
<1>0. w \in Process /\ w \notin Reader
  BY Ends DEF Process
<1>1. /\ pc[w] = "idle" /\ lock' = lock /\ pc' = [pc EXCEPT ![w] = "write_lock"]
      /\ RingKept /\ UNCHANGED <<read_open, write_open, ref_count, eof>>
  BY Zenon DEF call_write, At, Goto, pipe, RingKept
<1>2. PICK k \in WriteSize : n' = [n EXCEPT ![w] = k]
  BY Zenon DEF call_write
<1>3. n \in [Process -> Nat] /\ idx \in [Process -> Nat] /\ calls \in [Writer -> 0 .. MaxWrites]
  BY Zenon DEF IInv, TypeOK, CallTypes, HistoryTypes
<1>4. /\ n' \in [Process -> Nat] /\ n'[w] = k /\ k \in Nat
      /\ \A v \in Writer \ {w} : n'[v] = n[v]
  BY <1>0, <1>2, <1>3, CountAssumption DEF Process
<1>5. /\ idx' \in [Process -> Nat] /\ idx'[w] = 0
      /\ \A v \in Writer \ {w} : idx'[v] = idx[v]
  BY <1>0, <1>3 DEF Process, call_write
<1>6. /\ calls' \in [Writer -> 0 .. MaxWrites] /\ calls'[w] > 0
      /\ \A v \in Writer \ {w} : calls'[v] = calls[v]
  BY <1>0, <1>3, MaxWritesAssumption DEF call_write
<1>7. idx'[w] <= n'[w]
  BY <1>4, <1>5
<1>8. Moves(w, "write_lock")
  BY <1>0, <1>1 DEF Moves, Writing, Holding
<1>9. /\ pc[w] \in {"close_unlock", "closed"} <=> "write_lock" \in {"close_unlock", "closed"}
      /\ "write_lock" \notin Returning
  BY <1>1 DEF Returning
<1>10. Quiet(w, "write_lock")
  BY <1>1, <1>4, <1>5, <1>6, <1>7, <1>8, <1>9, Zenon DEF Quiet
<1> QED
  BY <1>0, <1>10, QuietKeeps, Zenon

(* -------------------------- bytes read ------------------------------- *)

\* Places of the ring after k bytes from ro on have been taken out of a.
LEMMA AfterRead ==
  ASSUME NEW K \in Nat \ {0}, NEW ro \in 0 .. K - 1, NEW a \in 0 .. K, NEW k \in 0 .. a
  PROVE  /\ (ro + k) % K \in 0 .. K - 1
         /\ (((ro + k) % K) + (a - k)) % K = (ro + a) % K
         /\ \A i \in 1 .. a - k : (((ro + k) % K) + i - 1) % K = (ro + (k + i) - 1) % K
<1>0. PICK ro1 : ro1 = (ro + k) % K
  BY Zenon
<1>1. ro1 \in 0 .. K - 1 /\ (ro + k < K => ro1 = ro + k) /\ (ro + k >= K => ro1 = ro + k - K)
  BY <1>0
<1>2. (ro1 + (a - k)) % K = (ro + a) % K
  <2>1. CASE ro + k < K
    <3>1. ro1 + (a - k) = ro + a
      BY <1>1, <2>1
    <3> QED
      BY <3>1, Zenon
  <2>2. CASE ro + k >= K
    <3>1. ro + a = (ro1 + (a - k)) + K /\ ro1 + (a - k) \in 0 .. K - 1
      BY <1>1, <2>2, SMTT(20)
    <3> QED
      BY <3>1, Around, Zenon
  <2> QED
    BY <2>1, <2>2
<1>3. ASSUME NEW i \in 1 .. a - k PROVE (ro1 + i - 1) % K = (ro + (k + i) - 1) % K
  <2>1. CASE ro + k < K
    <3>1. ro1 + i - 1 = ro + (k + i) - 1
      BY <1>1, <2>1
    <3> QED
      BY <3>1, Zenon
  <2>2. CASE ro + k >= K
    <3>1. ro + (k + i) - 1 = (ro1 + i - 1) + K /\ ro1 + i - 1 \in 0 .. K - 1
      BY <1>1, <2>2, SMTT(20)
    <3> QED
      BY <3>1, Around, Zenon
  <2> QED
    BY <2>1, <2>2
<1> QED
  BY <1>0, <1>1, <1>2, <1>3

\* Sequences as functions, and what \o makes of them.
LEMMA FunctionSeq ==
  ASSUME NEW T, NEW a \in Nat, NEW f \in [1 .. a -> T]
  PROVE  f \in Seq(T) /\ Len(f) = a
OBVIOUS

\* s \o t is s, and then t.
LEMMA Appended ==
  ASSUME NEW T, NEW s \in Seq(T), NEW t \in Seq(T)
  PROVE  /\ s \o t \in Seq(T) /\ Len(s \o t) = Len(s) + Len(t)
         /\ \A i \in 1 .. Len(s) : (s \o t)[i] = s[i]
         /\ \A i \in 1 .. Len(t) : (s \o t)[Len(s) + i] = t[i]
OBVIOUS

\* The bytes taken are the next ones of those sent.
LEMMA Delivered ==
  ASSUME RingTypes, Stream, sent \in Seq(Byte), received \in Seq(Byte), NEW k \in 0 .. available_bytes,
         received' = received \o SubSeq(Contents, 1, k)
  PROVE  /\ received' \in Seq(Byte) /\ Len(received') = Len(received) + k
         /\ \A i \in 1 .. Len(received') : received'[i] = sent[i]
<1>0. available_bytes \in Nat /\ Len(sent) \in Nat /\ Len(received) \in Nat
  BY DEF RingTypes
<1>1. \A i \in 1 .. available_bytes : Contents[i] = sent[Len(received) + i] /\ Contents[i] \in Byte
  <2>1. \A i \in 1 .. available_bytes : Contents[i] = sent[Len(received) + i]
    BY DEF Contents, Stream
  <2>2. \A i \in 1 .. available_bytes : Len(received) + i \in 1 .. Len(sent)
    BY <1>0 DEF Stream
  <2> QED
    BY <2>1, <2>2
<1>2. PICK c : c = Contents
  BY Zenon
<1>3. c \in Seq(Byte) /\ Len(c) = available_bytes
  <2>1. c \in [1 .. available_bytes -> Byte]
    BY <1>1, <1>2 DEF Contents
  <2> QED
    BY <1>0, <2>1, FunctionSeq, Zenon
<1>4. PICK d : d = SubSeq(c, 1, k)
  BY Zenon
<1>5. d \in Seq(Byte) /\ Len(d) = k /\ \A i \in 1 .. k : d[i] = c[i]
  BY <1>0, <1>3, <1>4
<1>6. received' = received \o d
  BY <1>2, <1>4
<1>7. received' \in Seq(Byte) /\ Len(received') = Len(received) + k
  BY <1>5, <1>6, Appended, Zenon
<1>8. ASSUME NEW i \in 1 .. Len(received') PROVE received'[i] = sent[i]
  <2>1. CASE i <= Len(received)
    <3>1. received'[i] = received[i]
      BY <1>0, <1>5, <1>6, <1>7, <2>1
    <3> QED
      BY <1>0, <2>1, <3>1 DEF Stream
  <2>2. CASE i > Len(received)
    <3>1. i - Len(received) \in 1 .. k /\ i - Len(received) \in 1 .. available_bytes
      BY <1>0, <1>7, <2>2
    <3>2. received'[i] = d[i - Len(received)]
      BY <1>0, <1>5, <1>6, <1>7, <2>2
    <3>3. d[i - Len(received)] = sent[Len(received) + (i - Len(received))]
      BY <1>1, <1>2, <1>5, <3>1
    <3>4. Len(received) + (i - Len(received)) = i
      BY <1>0
    <3> QED
      BY <3>2, <3>3, <3>4
  <2> QED
    BY <1>0, <2>1, <2>2
<1> QED
  BY <1>7, <1>8

\* Least(n, a) bytes are at most those available.
LEMMA LeastBound ==
  ASSUME NEW a \in Nat, NEW m \in Nat
  PROVE  Least(m, a) \in 0 .. a
BY DEF Least

\* The same sums before and after k of a bytes are taken.
LEMMA Sums ==
  ASSUME NEW a \in Nat, NEW k \in 0 .. a, NEW m \in Nat
  PROVE  m + a = (m + k) + (a - k) /\ \A i \in 1 .. a - k : m + (k + i) = (m + k) + i
OBVIOUS

\* The next k bytes are taken out of the ring.
TakeOut(k) ==
  /\ received' = received \o SubSeq(Contents, 1, k)
  /\ read_offset' = (read_offset + k) % Size
  /\ available_bytes' = available_bytes - k
  /\ UNCHANGED <<buffer, write_offset, sent>>

\* Then the ring holds the rest of what was sent.
LEMMA StreamRead ==
  ASSUME RingTypes, Stream, sent \in Seq(Byte), received \in Seq(Byte), NEW k \in 0 .. available_bytes,
         TakeOut(k)
  PROVE  RingTypes' /\ Stream'
<1>1. /\ read_offset \in 0 .. Size - 1 /\ available_bytes \in 0 .. Size
      /\ buffer \in [0 .. Size - 1 -> Byte \cup {NoByte}] /\ write_offset \in 0 .. Size - 1
  BY Zenon DEF RingTypes
<1>0. available_bytes \in Nat /\ Len(received) \in Nat
  BY <1>1, SizeAssumption
<1>2. /\ read_offset' \in 0 .. Size - 1
      /\ (read_offset' + (available_bytes - k)) % Size = (read_offset + available_bytes) % Size
      /\ \A i \in 1 .. available_bytes - k :
           (read_offset' + i - 1) % Size = (read_offset + (k + i) - 1) % Size
  <2>1. read_offset' = (read_offset + k) % Size
    BY Zenon DEF TakeOut
  <2>2. /\ (read_offset + k) % Size \in 0 .. Size - 1
        /\ (((read_offset + k) % Size) + (available_bytes - k)) % Size = (read_offset + available_bytes) % Size
        /\ \A i \in 1 .. available_bytes - k :
             (((read_offset + k) % Size) + i - 1) % Size = (read_offset + (k + i) - 1) % Size
    BY <1>1, AfterRead, SizeAssumption, ZenonT(30)
  <2> QED
    BY <2>1, <2>2, Zenon
<1>3. /\ Len(received') = Len(received) + k
      /\ \A i \in 1 .. Len(received') : received'[i] = sent[i]
  BY Delivered, Zenon DEF TakeOut
<1>8. /\ Len(received) + available_bytes = Len(received') + (available_bytes - k)
      /\ \A i \in 1 .. available_bytes - k : Len(received) + (k + i) = Len(received') + i
  <2>1. Len(received') = Len(received) + k
    BY <1>3, Zenon
  <2>2. /\ Len(received) + available_bytes = (Len(received) + k) + (available_bytes - k)
        /\ \A i \in 1 .. available_bytes - k : Len(received) + (k + i) = (Len(received) + k) + i
    BY <1>0, Sums, Zenon
  <2> QED
    BY <2>1, <2>2, Zenon
<1>4. RingTypes'
  BY <1>1, <1>2, SizeAssumption DEF RingTypes, TakeOut
<1>5. Len(sent') = Len(received') + available_bytes'
  BY <1>8, Zenon DEF Stream, TakeOut
<1>6. ASSUME NEW i \in 1 .. available_bytes'
      PROVE  buffer'[(read_offset' + i - 1) % Size] = sent'[Len(received') + i]
  <2>1. i \in 1 .. available_bytes - k /\ k + i \in 1 .. available_bytes
    BY <1>1, SizeAssumption DEF TakeOut
  <2>2. (read_offset' + i - 1) % Size = (read_offset + (k + i) - 1) % Size
    BY <1>2, <2>1, Zenon
  <2>3. buffer[(read_offset + (k + i) - 1) % Size] = sent[Len(received) + (k + i)]
    BY <2>1, Zenon DEF Stream
  <2>4. Len(received) + (k + i) = Len(received') + i
    BY <1>8, <2>1, Zenon
  <2> QED
    BY <2>2, <2>3, <2>4, Zenon DEF TakeOut
<1>7. write_offset' = (read_offset' + available_bytes') % Size
  BY <1>2, Zenon DEF Stream, TakeOut
<1> QED
  BY <1>3, <1>4, <1>5, <1>6, <1>7, Zenon DEF Stream, TakeOut

\* In pipe_read a reader has its file_info's lock, or finds it free.
Reads(r) == pc[r] = "read_pipe" \/ (pc[r] = "read_wait" /\ lock["read"] = NoProc)

\* So no other reader has the lock.
LEMMA ReaderHas ==
  ASSUME IInv, NEW r \in Reader, Reads(r)
  PROVE  /\ r \in Process /\ r \notin Writer /\ EndOf(r) = "read"
         /\ lock["read"] \in {r, NoProc} /\ pc[r] \notin {"close_unlock", "closed"}
<1>1. r \in Process /\ r \notin Writer /\ EndOf(r) = "read"
  BY Ends DEF Process
<1>2. pc[r] = "read_pipe" => lock["read"] = r
  BY <1>1 DEF IInv, LockHeld, Holding
<1> QED
  BY <1>1, <1>2 DEF Reads

\* With its data or at the end of file, the reader has the lock again.
LEMMA ReaderMoves ==
  ASSUME IInv, NEW r \in Reader, Reads(r), pc' = [pc EXCEPT ![r] = "read_unlock"],
         lock' = [lock EXCEPT !["read"] = r]
  PROVE  /\ Moves(r, "read_unlock")
         /\ pc[r] \in {"close_unlock", "closed"} <=> "read_unlock" \in {"close_unlock", "closed"}
<1>1. /\ EndOf(r) = "read" /\ lock["read"] \in {r, NoProc} /\ pc[r] \notin {"close_unlock", "closed"}
  BY ReaderHas, Zenon
<1>2. "read_unlock" \in Reading
  BY DEF Reading
<1>3. CASE lock["read"] = r
  <2>1. lock' = lock
    BY <1>3 DEF IInv, TypeOK, EndTypes
  <2> QED
    BY <1>1, <1>2, <1>3, <2>1 DEF Moves
<1>4. CASE lock["read"] = NoProc
  BY <1>1, <1>2, <1>4 DEF Moves, Takes
<1> QED
  BY <1>1, <1>3, <1>4

\* Giving up the lock before the sleep of pipe_read preserves the invariant.
LEMMA ReadWaitKeeps ==
  ASSUME IInv, NEW r \in Reader, Reads(r), read_wait(r), UNCHANGED <<ref_count, n, idx>>
  PROVE  IInv'
<1>1. /\ r \in Process /\ r \notin Writer /\ EndOf(r) = "read"
      /\ lock["read"] \in {r, NoProc} /\ pc[r] \notin {"close_unlock", "closed"}
  BY ReaderHas, Zenon
<1>2. /\ lock' = [lock EXCEPT !["read"] = NoProc] /\ pc' = [pc EXCEPT ![r] = "read_wait"]
      /\ UNCHANGED <<pipe, ref_count, n, idx, history>>
  BY Zenon DEF read_wait, Goto
<1>3. "read_wait" \in Reading /\ "read_wait" \notin Holding
  BY DEF Reading, Holding
<1>4. Moves(r, "read_wait")
  BY <1>1, <1>2, <1>3 DEF Moves, Gives
<1>5. pc[r] \in {"close_unlock", "closed"} <=> "read_wait" \in {"close_unlock", "closed"}
  BY <1>1
<1> QED
  BY <1>1, <1>2, <1>4, <1>5, MovingKeeps, Zenon

\* Nothing is available: all that was sent has been received.
LEMMA AllReceived ==
  ASSUME Stream, sent \in Seq(Byte), received \in Seq(Byte), available_bytes = 0
  PROVE  received = sent
<1>1. Len(sent) = Len(received) /\ \A i \in 1 .. Len(received) : received[i] = sent[i]
  BY DEF Stream
<1> QED
  BY <1>1

\* The end of file preserves the invariant: write_open is FALSE and stays so.
LEMMA ReadEofKeeps ==
  ASSUME IInv, NEW r \in Reader, Reads(r), read_eof(r), UNCHANGED <<ref_count, n, idx>>
  PROVE  IInv'
<1>1. /\ RingTypes /\ EndTypes /\ CallTypes /\ HistoryTypes /\ LockHeld /\ WriteGoesOn
      /\ Stream /\ EndsCounted /\ ResultsTrue
  BY Zenon DEF IInv, TypeOK
<1>2. /\ available_bytes = 0 /\ ~write_open /\ eof' = [eof EXCEPT ![r] = TRUE]
      /\ lock' = [lock EXCEPT !["read"] = r] /\ pc' = [pc EXCEPT ![r] = "read_unlock"]
      /\ RingKept /\ UNCHANGED <<read_open, write_open, ref_count, n, idx, calls, sent, received>>
  BY Zenon DEF read_eof, Goto, pipe, RingKept
<1>3. /\ r \in Process /\ r \notin Writer
  BY ReaderHas, Zenon
<1>4. /\ Moves(r, "read_unlock")
      /\ pc[r] \in {"close_unlock", "closed"} <=> "read_unlock" \in {"close_unlock", "closed"}
  BY <1>2, ReaderMoves, Zenon
<1>5. /\ \A q \in Process \ {r} : pc'[q] = pc[q]
      /\ pc' \in [Process -> Closing \cup Reading \cup Writing]
      /\ \A q \in Reader : pc'[q] \in Closing \cup Reading
      /\ \A w \in Writer : pc'[w] \in Closing \cup Writing
  BY <1>1, <1>3, <1>4, MovesPc, Zenon
<1>6. lock' \in [End -> Process \cup {NoProc}] /\ LockHeld'
  BY <1>1, <1>3, <1>4, MovesLock, Zenon
<1>7. RingTypes' /\ Stream'
  BY <1>1, <1>2, StreamKept, Zenon
<1>8. EndTypes' /\ CallTypes'
  BY <1>1, <1>2, <1>5, <1>6, Zenon DEF EndTypes, CallTypes
<1>9. HistoryTypes'
  BY <1>1, <1>2 DEF HistoryTypes
<1>10. EndsCounted'
  BY <1>1, <1>2, <1>3, <1>4, UsersKept, Zenon
<1>11. \A w \in Writer : pc'[w] = pc[w]
  BY <1>3, <1>5, Zenon DEF Process
<1>12. WriteGoesOn'
  BY <1>1, <1>2, <1>11, Zenon DEF WriteGoesOn
<1>13. received = sent
  BY <1>1, <1>2, AllReceived, Zenon DEF HistoryTypes
<1>14. ResultsTrue'
  BY <1>1, <1>2, <1>11, <1>13, Zenon DEF ResultsTrue
<1> QED
  BY <1>6, <1>7, <1>8, <1>9, <1>10, <1>12, <1>14, Zenon DEF IInv, TypeOK

\* Taking bytes out preserves the invariant.
LEMMA ReadBytesKeeps ==
  ASSUME IInv, NEW r \in Reader, Reads(r), read_bytes(r), UNCHANGED <<ref_count, n, idx>>
  PROVE  IInv'
<1>1. /\ RingTypes /\ EndTypes /\ CallTypes /\ HistoryTypes /\ LockHeld /\ WriteGoesOn
      /\ Stream /\ EndsCounted /\ ResultsTrue
  BY Zenon DEF IInv, TypeOK
<1>2. PICK k : k = Least(n[r], available_bytes)
  BY Zenon
<1>3. /\ available_bytes > 0 /\ TakeOut(k)
      /\ lock' = [lock EXCEPT !["read"] = r] /\ pc' = [pc EXCEPT ![r] = "read_unlock"]
      /\ UNCHANGED <<read_open, write_open, ref_count, n, idx, calls, sent, eof>>
  BY <1>2, Zenon DEF read_bytes, Goto, TakeOut
<1>4. /\ r \in Process /\ r \notin Writer
  BY ReaderHas, Zenon
<1>5. available_bytes \in Nat /\ n[r] \in Nat
  BY <1>1, <1>4, SizeAssumption DEF RingTypes, CallTypes
<1>6. k \in 0 .. available_bytes
  BY <1>2, <1>5, LeastBound, Zenon
<1>7. /\ Moves(r, "read_unlock")
      /\ pc[r] \in {"close_unlock", "closed"} <=> "read_unlock" \in {"close_unlock", "closed"}
  BY <1>3, ReaderMoves, Zenon
<1>8. /\ \A q \in Process \ {r} : pc'[q] = pc[q]
      /\ pc' \in [Process -> Closing \cup Reading \cup Writing]
      /\ \A q \in Reader : pc'[q] \in Closing \cup Reading
      /\ \A w \in Writer : pc'[w] \in Closing \cup Writing
  BY <1>1, <1>4, <1>7, MovesPc, Zenon
<1>9. lock' \in [End -> Process \cup {NoProc}] /\ LockHeld'
  BY <1>1, <1>4, <1>7, MovesLock, Zenon
<1>10. RingTypes' /\ Stream' /\ received' \in Seq(Byte)
  BY <1>1, <1>3, <1>6, StreamRead, Delivered, Zenon DEF HistoryTypes, TakeOut
<1>11. EndTypes' /\ CallTypes' /\ HistoryTypes'
  BY <1>1, <1>3, <1>8, <1>9, <1>10, Zenon DEF EndTypes, CallTypes, HistoryTypes
<1>12. EndsCounted'
  BY <1>1, <1>3, <1>4, <1>7, UsersKept, Zenon
<1>13. \A w \in Writer : pc'[w] = pc[w]
  BY <1>4, <1>8, Zenon DEF Process
<1>14. WriteGoesOn'
  BY <1>1, <1>3, <1>13, Zenon DEF WriteGoesOn
<1>15. received # sent
  <2>1. Len(sent) = Len(received) + available_bytes /\ Len(received) \in Nat
    BY <1>1 DEF Stream, HistoryTypes
  <2> QED
    BY <1>3, <1>5, <2>1
<1>16. ResultsTrue'
  BY <1>1, <1>3, <1>13, <1>15, Zenon DEF ResultsTrue
<1> QED
  BY <1>9, <1>10, <1>11, <1>12, <1>14, <1>16, Zenon DEF IInv, TypeOK

\* pipe_read preserves the invariant.
LEMMA PipeReadKeeps ==
  ASSUME IInv, NEW r \in Reader, pipe_read(r)
  PROVE  IInv'
<1>1. Reads(r) /\ UNCHANGED <<ref_count, n, idx>>
  BY Zenon DEF pipe_read, At, Reads
<1> QED
  BY <1>1, ReadWaitKeeps, ReadEofKeeps, ReadBytesKeeps, Zenon DEF pipe_read

(* -------------------------- bytes written ----------------------------- *)

\* Byte i of those that writer w puts in next.
NextByte(w, i) == [by |-> w, call |-> calls[w], at |-> idx[w] + i]

\* A writer in pipe_write: its end is open, so no reader was told of an end.
LEMMA WriterHas ==
  ASSUME IInv, NEW w \in Writer, pc[w] = "write_pipe"
  PROVE  /\ w \in Process /\ w \notin Reader /\ EndOf(w) = "write" /\ lock["write"] = w
         /\ write_open /\ \A r \in Reader : ~eof[r]
         /\ calls[w] \in 1 .. MaxWrites /\ idx[w] \in Nat /\ n[w] \in Nat /\ idx[w] <= n[w]
<1>1. w \in Process /\ w \notin Reader /\ EndOf(w) = "write"
  BY Ends DEF Process
<1>2. lock["write"] = w
  BY <1>1 DEF IInv, LockHeld, Holding
<1>3. w \in Users("write")
  BY <1>1 DEF Users
<1>4. write_open
  BY <1>3 DEF IInv, EndsCounted
<1>5. \A r \in Reader : ~eof[r]
  BY <1>4, Zenon DEF IInv, ResultsTrue
<1>6. calls[w] > 0 /\ idx[w] <= n[w]
  BY DEF IInv, WriteGoesOn, Writing
<1>7. calls[w] \in 0 .. MaxWrites /\ idx[w] \in Nat /\ n[w] \in Nat
  BY <1>1 DEF IInv, TypeOK, CallTypes, HistoryTypes
<1> QED
  BY <1>1, <1>2, <1>4, <1>5, <1>6, <1>7, MaxWritesAssumption

\* It is a byte of w.
LEMMA NextByteType ==
  ASSUME NEW w \in Writer, calls[w] \in 1 .. MaxWrites, idx[w] \in Nat, NEW i \in Nat
  PROVE  NextByte(w, i) \in Byte /\ NextByte(w, i).by = w
BY DEF NextByte, Byte

\* What the inner loop of pipe_write assigns.
LEMMA FillBuffer ==
  ASSUME NEW w \in Writer, NEW k \in Nat, Fill(w, k)
  PROVE  /\ buffer' = [j \in 0 .. Size - 1 |-> IF (j - write_offset) % Size < k
                         THEN NextByte(w, (j - write_offset) % Size) ELSE buffer[j]]
         /\ write_offset' = (write_offset + k) % Size
         /\ available_bytes' = available_bytes + k
         /\ idx' = [idx EXCEPT ![w] = @ + k]
         /\ sent' = sent \o [i \in 1 .. k |-> NextByte(w, i - 1)]
         /\ UNCHANGED <<read_offset, read_open, write_open>>
BY Zenon DEF Fill, NextByte

\* What is put in is appended to what was sent.
LEMMA Sent ==
  ASSUME sent \in Seq(Byte), NEW w \in Writer, calls[w] \in 1 .. MaxWrites, idx[w] \in Nat,
         NEW k \in Nat, Fill(w, k)
  PROVE  /\ sent' \in Seq(Byte) /\ Len(sent') = Len(sent) + k
         /\ \A i \in 1 .. Len(sent) : sent'[i] = sent[i]
         /\ \A i \in 1 .. k : sent'[Len(sent) + i] = NextByte(w, i - 1)
<1>1. PICK t : t = [i \in 1 .. k |-> NextByte(w, i - 1)]
  BY Zenon
<1>2. \A i \in 1 .. k : i - 1 \in Nat
  OBVIOUS
<1>3. \A i \in 1 .. k : NextByte(w, i - 1) \in Byte
  BY <1>2, NextByteType, Zenon
<1>4. t \in [1 .. k -> Byte] /\ \A i \in 1 .. k : t[i] = NextByte(w, i - 1)
  BY <1>1, <1>3, Zenon
<1>5. t \in Seq(Byte) /\ Len(t) = k
  BY <1>4, FunctionSeq, Zenon
<1>6. sent' = sent \o t
  BY <1>1, FillBuffer, Zenon
<1>7. /\ sent \o t \in Seq(Byte) /\ Len(sent \o t) = Len(sent) + Len(t)
      /\ \A i \in 1 .. Len(sent) : (sent \o t)[i] = sent[i]
      /\ \A i \in 1 .. Len(t) : (sent \o t)[Len(sent) + i] = t[i]
  <2>1. t \in Seq(Byte)
    BY <1>5, Zenon
  <2>2. sent \o t \in Seq(Byte) /\ Len(sent \o t) = Len(sent) + Len(t)
    BY <2>1
  <2>3. \A i \in 1 .. Len(sent) : (sent \o t)[i] = sent[i]
    BY <2>1
  <2>4. \A i \in 1 .. Len(t) : (sent \o t)[Len(sent) + i] = t[i]
    BY <2>1, SMTT(20)
  <2> QED
    BY <2>2, <2>3, <2>4, Zenon
<1> QED
  BY <1>4, <1>5, <1>6, <1>7, Zenon

\* The end of the bytes in the ring moves on by k.
LEMMA EndMoves ==
  ASSUME NEW K \in Nat \ {0}, NEW ro \in 0 .. K - 1, NEW a \in 0 .. K, NEW k \in 0 .. K - a
  PROVE  (((ro + a) % K) + k) % K = (ro + (a + k)) % K /\ (((ro + a) % K) + k) % K \in 0 .. K - 1
<1>1. PICK wo : wo = (ro + a) % K
  BY Zenon
<1>2. wo \in 0 .. K - 1 /\ (ro + a < K => wo = ro + a) /\ (ro + a >= K => wo = ro + a - K)
  BY <1>1
<1>3. (wo + k) % K = (ro + (a + k)) % K
  <2>1. CASE ro + a < K
    <3>1. wo + k = ro + (a + k)
      BY <1>2, <2>1
    <3> QED
      BY <3>1, Zenon
  <2>2. CASE ro + a >= K
    <3>1. ro + (a + k) = (wo + k) + K /\ wo + k \in 0 .. K - 1
      BY <1>2, <2>2
    <3> QED
      BY <3>1, Around, Zenon
  <2> QED
    BY <2>1, <2>2
<1>4. (wo + k) % K \in 0 .. K - 1
  BY <1>2
<1> QED
  BY <1>1, <1>3, <1>4

\* Bytes put in from write_offset on come after those in the ring, and leave them alone.
LEMMA StreamFill ==
  ASSUME RingTypes, Stream, sent \in Seq(Byte), received \in Seq(Byte), NEW w \in Writer,
         calls[w] \in 1 .. MaxWrites, idx[w] \in Nat,
         NEW k \in 0 .. Size - available_bytes, Fill(w, k), received' = received
  PROVE  RingTypes' /\ Stream'
<1>1. /\ read_offset \in 0 .. Size - 1 /\ available_bytes \in 0 .. Size
      /\ buffer \in [0 .. Size - 1 -> Byte \cup {NoByte}] /\ write_offset \in 0 .. Size - 1
      /\ write_offset = (read_offset + available_bytes) % Size
      /\ Len(sent) = Len(received) + available_bytes
  BY Zenon DEF RingTypes, Stream
<1>2. k \in Nat /\ available_bytes + k \in 0 .. Size /\ available_bytes \in Nat
  BY <1>1, SizeAssumption
<1>3. /\ buffer' = [j \in 0 .. Size - 1 |-> IF (j - write_offset) % Size < k
                      THEN NextByte(w, (j - write_offset) % Size) ELSE buffer[j]]
      /\ write_offset' = (write_offset + k) % Size
      /\ available_bytes' = available_bytes + k /\ read_offset' = read_offset
  BY <1>2, FillBuffer, Zenon
<1>4. /\ Len(sent') = Len(sent) + k
      /\ \A i \in 1 .. Len(sent) : sent'[i] = sent[i]
      /\ \A i \in 1 .. k : sent'[Len(sent) + i] = NextByte(w, i - 1)
  BY <1>2, Sent, Zenon
<1>5. /\ write_offset' = (read_offset + (available_bytes + k)) % Size
      /\ write_offset' \in 0 .. Size - 1
  <2>1. /\ (((read_offset + available_bytes) % Size) + k) % Size
             = (read_offset + (available_bytes + k)) % Size
        /\ (((read_offset + available_bytes) % Size) + k) % Size \in 0 .. Size - 1
    BY <1>1, EndMoves, SizeAssumption, ZenonT(30)
  <2> QED
    BY <1>1, <1>3, <2>1, Zenon
<1>6. buffer' \in [0 .. Size - 1 -> Byte \cup {NoByte}]
  <2>1. ASSUME NEW j \in 0 .. Size - 1 PROVE (j - write_offset) % Size \in Nat
    BY <1>1, SizeAssumption
  <2>2. ASSUME NEW j \in 0 .. Size - 1 PROVE NextByte(w, (j - write_offset) % Size) \in Byte
    BY <2>1, NextByteType, Zenon
  <2> QED
    BY <1>1, <1>3, <2>2, Zenon
<1>7. RingTypes'
  BY <1>1, <1>2, <1>3, <1>5, <1>6, Zenon DEF RingTypes
<1>8. Len(sent') = Len(received') + available_bytes'
  <2>1. Len(received) \in Nat
    OBVIOUS
  <2>2. (Len(received) + available_bytes) + k = Len(received) + (available_bytes + k)
    BY <1>2, <2>1
  <2> QED
    BY <1>1, <1>3, <1>4, <2>2, Zenon
<1>9. \A i \in 1 .. Len(received') : received'[i] = sent'[i]
  <2>1. \A i \in 1 .. Len(received) : i \in 1 .. Len(sent)
    BY <1>1, <1>2
  <2> QED
    BY <1>4, <2>1, Zenon DEF Stream
<1>10. ASSUME NEW i \in 1 .. available_bytes + k
       PROVE  buffer'[(read_offset + i - 1) % Size] = sent'[Len(received) + i]
  <2>0. i \in 1 .. Size /\ read_offset \in 0 .. Size - 1 /\ available_bytes \in 0 .. Size
    BY <1>1, <1>2, SizeAssumption
  <2>1. PICK j : j = (read_offset + i - 1) % Size
    BY Zenon
  <2>2. /\ j \in 0 .. Size - 1
        /\ (j - write_offset) % Size = IF i <= available_bytes THEN Size + i - 1 - available_bytes
                                                              ELSE i - 1 - available_bytes
    <3>1. /\ (read_offset + i - 1) % Size \in 0 .. Size - 1
          /\ (((read_offset + i - 1) % Size) - ((read_offset + available_bytes) % Size)) % Size
               = IF i <= available_bytes THEN Size + i - 1 - available_bytes
                                         ELSE i - 1 - available_bytes
      BY <2>0, FromEnd, SizeAssumption, ZenonT(30)
    <3> QED
      BY <1>1, <2>1, <3>1, Zenon
  <2>3. buffer'[j] = IF (j - write_offset) % Size < k
                     THEN NextByte(w, (j - write_offset) % Size) ELSE buffer[j]
    BY <1>3, <2>2, Zenon
  <2>4. CASE i <= available_bytes
    <3>1. ~ ((j - write_offset) % Size < k) /\ i \in 1 .. available_bytes
      BY <1>1, <1>2, <2>2, <2>4, SizeAssumption
    <3>2. Len(received) + i \in 1 .. Len(sent)
      BY <1>1, <1>2, <3>1
    <3>3. buffer[j] = sent[Len(received) + i]
      BY <2>1, <3>1, Zenon DEF Stream
    <3> QED
      BY <1>4, <2>1, <2>3, <3>1, <3>2, <3>3, Zenon
  <2>5. CASE i > available_bytes
    <3>1. /\ (j - write_offset) % Size = i - available_bytes - 1
          /\ (j - write_offset) % Size < k /\ i - available_bytes \in 1 .. k
      BY <1>1, <1>2, <2>2, <2>5, SizeAssumption
    <3>2. Len(sent) + (i - available_bytes) = Len(received) + i
      BY <1>1, <1>2
    <3>3. sent'[Len(sent) + (i - available_bytes)] = NextByte(w, i - available_bytes - 1)
      BY <1>4, <3>1, Zenon
    <3> QED
      BY <2>1, <2>3, <3>1, <3>2, <3>3, Zenon
  <2> QED
    BY <1>2, <2>4, <2>5
<1> QED
  BY <1>3, <1>5, <1>7, <1>8, <1>9, <1>10, Zenon DEF Stream

\* A writer in pipe_write keeps its lock wherever it goes on to.
LEMMA WriterMoves ==
  ASSUME IInv, NEW w \in Writer, pc[w] = "write_pipe", NEW to \in {"write_pipe"} \cup Returning,
         pc' = [pc EXCEPT ![w] = to], lock' = lock
  PROVE  /\ Moves(w, to) /\ to \in Writing
         /\ pc[w] \in {"close_unlock", "closed"} <=> to \in {"close_unlock", "closed"}
<1>1. w \in Process /\ w \notin Reader /\ EndOf(w) = "write" /\ lock["write"] = w
  BY WriterHas, Zenon
<1>2. to \in Writing /\ to \notin {"close_unlock", "closed"}
  BY DEF Writing, Returning
<1>3. Moves(w, to)
  BY <1>1, <1>2, Zenon DEF Moves
<1> QED
  BY <1>2, <1>3

\* The turns of pipe_write that put no byte in preserve the invariant.
LEMMA NoFillKeeps ==
  ASSUME IInv, NEW w \in Writer, pc[w] = "write_pipe", write_broken(w) \/ write_nothing(w),
         UNCHANGED <<lock, ref_count, n, calls, received, eof>>
  PROVE  IInv'
<1>0. w \in Process /\ idx[w] \in Nat /\ n[w] \in Nat /\ "write_pipe" \in Writing
  BY WriterHas DEF Writing
<1>1. PICK to \in Returning : pc' = [pc EXCEPT ![w] = to]
  BY Zenon DEF write_broken, write_nothing, Goto, Returning
<1>2. idx[w] = n[w] \/ ~read_open
  BY Zenon DEF write_broken, write_nothing
<1>3. UNCHANGED <<pipe, ref_count, n, idx, history>>
  BY Zenon DEF write_broken, write_nothing, history
<1>4. /\ Moves(w, to)
      /\ pc[w] \in {"close_unlock", "closed"} <=> to \in {"close_unlock", "closed"}
  BY <1>1, WriterMoves, Zenon
<1> QED
  BY <1>0, <1>1, <1>2, <1>3, <1>4, MovingKeeps, Zenon

\* Those that put k bytes in preserve it.
LEMMA FillKeeps ==
  ASSUME IInv, NEW w \in Writer, pc[w] = "write_pipe", NEW k \in Nat, Fill(w, k),
         k <= Size - available_bytes, k <= n[w] - idx[w],
         NEW to \in {"write_pipe"} \cup Returning, pc' = [pc EXCEPT ![w] = to],
         to \in Returning => k = n[w] - idx[w],
         UNCHANGED <<lock, ref_count, n, calls, received, eof>>
  PROVE  IInv'
<1>1. /\ RingTypes /\ EndTypes /\ CallTypes /\ HistoryTypes /\ LockHeld /\ WriteGoesOn
      /\ Stream /\ EndsCounted /\ ResultsTrue
  BY Zenon DEF IInv, TypeOK
<1>2. /\ w \in Process /\ w \notin Reader /\ EndOf(w) = "write" /\ lock["write"] = w
      /\ write_open /\ \A r \in Reader : ~eof[r]
      /\ calls[w] \in 1 .. MaxWrites /\ idx[w] \in Nat /\ n[w] \in Nat /\ idx[w] <= n[w]
  BY WriterHas, Zenon
<1>3. /\ Moves(w, to) /\ to \in Writing
      /\ pc[w] \in {"close_unlock", "closed"} <=> to \in {"close_unlock", "closed"}
  BY WriterMoves, Zenon
<1>4. k \in 0 .. Size - available_bytes
  BY <1>1, SizeAssumption DEF RingTypes
<1>5. idx' = [idx EXCEPT ![w] = @ + k] /\ UNCHANGED <<read_open, write_open>>
  BY FillBuffer, Zenon
<1>6. /\ idx' \in [Process -> Nat] /\ idx'[w] = idx[w] + k
      /\ \A v \in Writer \ {w} : idx'[v] = idx[v]
  BY <1>1, <1>2, <1>5 DEF CallTypes, Process
<1>7. sent' \in Seq(Byte)
  BY <1>1, <1>2, Sent, Zenon DEF HistoryTypes
<1>8. RingTypes' /\ Stream'
  BY <1>1, <1>2, <1>4, StreamFill, Zenon DEF HistoryTypes
<1>9. /\ pc'[w] = to /\ \A q \in Process \ {w} : pc'[q] = pc[q]
      /\ pc' \in [Process -> Closing \cup Reading \cup Writing]
      /\ \A q \in Reader : pc'[q] \in Closing \cup Reading
      /\ \A v \in Writer : pc'[v] \in Closing \cup Writing
  BY <1>1, <1>2, <1>3, MovesPc, Zenon
<1>10. lock' \in [End -> Process \cup {NoProc}] /\ LockHeld'
  BY <1>1, <1>2, <1>3, MovesLock, Zenon
<1>11. EndTypes' /\ CallTypes' /\ HistoryTypes'
  BY <1>1, <1>5, <1>6, <1>7, <1>9, <1>10, Zenon DEF EndTypes, CallTypes, HistoryTypes
<1>12. EndsCounted'
  BY <1>1, <1>2, <1>3, <1>5, UsersKept, Zenon
<1>13. \A v \in Writer \ {w} : pc'[v] = pc[v]
  BY <1>9, Zenon DEF Process
<1>14. calls[w] > 0 /\ idx'[w] <= n[w] /\ (to \in Returning => idx'[w] = n[w])
  BY <1>2, <1>6
<1>15. WriteGoesOn'
  <2> SUFFICES ASSUME NEW v \in Writer, pc'[v] \in Writing
               PROVE  calls'[v] > 0 /\ idx'[v] <= n'[v]
    BY Zenon DEF WriteGoesOn
  <2>1. CASE v = w
    BY <1>14, <2>1, Zenon
  <2>2. CASE v # w
    BY <1>1, <1>6, <1>13, <2>2, Zenon DEF WriteGoesOn
  <2> QED
    BY <2>1, <2>2, Zenon
<1>16. ResultsTrue'
  <2>1. ASSUME NEW v \in Writer, pc'[v] \in Returning
        PROVE  idx'[v] = n'[v] \/ ~read_open'
    <3>1. CASE v = w
      BY <1>9, <1>14, <2>1, <3>1, Zenon
    <3>2. CASE v # w
      BY <1>1, <1>5, <1>6, <1>13, <2>1, <3>2, Zenon DEF ResultsTrue, Returning
    <3> QED
      BY <3>1, <3>2, Zenon
  <2>2. ~ \E r \in Reader : eof'[r]
    BY <1>2, Zenon
  <2> QED
    BY <2>1, <2>2, Zenon DEF ResultsTrue, Returning
<1> QED
  BY <1>8, <1>10, <1>11, <1>12, <1>15, <1>16, Zenon DEF IInv, TypeOK

\* A turn of the loop that puts bytes in: as many as are left, or as fit.
LEMMA Fills ==
  ASSUME IInv, NEW w \in Writer, pc[w] = "write_pipe", write_rest(w) \/ write_wait(w)
  PROVE  \E k \in Nat : /\ Fill(w, k) /\ k <= Size - available_bytes /\ k <= n[w] - idx[w]
                        /\ \E to \in {"write_pipe"} \cup Returning :
                             /\ pc' = [pc EXCEPT ![w] = to]
                             /\ to \in Returning => k = n[w] - idx[w]
<1>1. idx[w] \in Nat /\ n[w] \in Nat
  BY WriterHas, Zenon
<1>2. available_bytes \in 0 .. Size
  BY Zenon DEF IInv, TypeOK, RingTypes
<1>3. CASE write_rest(w)
  <2>1. /\ n[w] - idx[w] \in Nat /\ n[w] - idx[w] <= Size - available_bytes
        /\ n[w] - idx[w] <= n[w] - idx[w]
    BY <1>1, <1>3 DEF write_rest
  <2>2. Fill(w, n[w] - idx[w]) /\ pc' = [pc EXCEPT ![w] = "write_wakeup"] /\ "write_wakeup" \in Returning
    BY <1>3, Zenon DEF write_rest, Goto, Returning
  <2> QED
    BY <2>1, <2>2, Zenon
<1>4. CASE write_wait(w)
  <2>1. /\ Size - available_bytes \in Nat /\ Size - available_bytes <= n[w] - idx[w]
        /\ Size - available_bytes <= Size - available_bytes
    BY <1>1, <1>2, <1>4, SizeAssumption DEF write_wait
  <2>2. /\ Fill(w, Size - available_bytes) /\ pc' = [pc EXCEPT ![w] = "write_pipe"]
    BY <1>4, Zenon DEF write_wait, Goto
  <2>3. "write_pipe" \notin Returning
    BY DEF Returning
  <2> QED
    BY <2>1, <2>2, <2>3, Zenon
<1> QED
  BY <1>3, <1>4, Zenon

\* pipe_write preserves the invariant.
LEMMA PipeWriteKeeps ==
  ASSUME IInv, NEW w \in Writer, pipe_write(w)
  PROVE  IInv'
<1>1. pc[w] = "write_pipe" /\ UNCHANGED <<lock, ref_count, n, calls, received, eof>>
  BY Zenon DEF pipe_write, At
<1>2. CASE write_broken(w) \/ write_nothing(w)
  BY <1>1, <1>2, NoFillKeeps, Zenon
<1>3. CASE write_rest(w) \/ write_wait(w)
  <2>1. PICK k \in Nat : /\ Fill(w, k) /\ k <= Size - available_bytes /\ k <= n[w] - idx[w]
                         /\ \E to \in {"write_pipe"} \cup Returning :
                              /\ pc' = [pc EXCEPT ![w] = to]
                              /\ to \in Returning => k = n[w] - idx[w]
    BY <1>1, <1>3, Fills, Zenon
  <2> QED
    BY <1>1, <2>1, FillKeeps, Zenon
<1> QED
  BY <1>2, <1>3, Zenon DEF pipe_write

(* ------------------------------ closing ------------------------------- *)

\* One user of an end less.
LEMMA UsersLeft ==
  ASSUME Counting, CallTypes, EndTypes, EndsCounted, NEW p \in Process, pc[p] = "close_pipe",
         pc' = [pc EXCEPT ![p] = "close_unlock"],
         ref_count' = [ref_count EXCEPT ![EndOf(p)] = @ - 1]
  PROVE  /\ p \in Users(EndOf(p)) /\ Users(EndOf(p))' = Users(EndOf(p)) \ {p}
         /\ \A e \in End \ {EndOf(p)} : Users(e)' = Users(e)
         /\ ref_count' \in [End -> Nat] /\ \A e \in End : ref_count'[e] = Cardinality(Users(e)')
         /\ ref_count[EndOf(p)] = 1 <=> Users(EndOf(p))' = {}
<1>1. EndOf(p) \in End
  BY Ends, Zenon
<1>2. pc'[p] = "close_unlock" /\ \A q \in Process \ {p} : pc'[q] = pc[q]
  BY DEF CallTypes
<1>3. p \in Users(EndOf(p)) /\ Users(EndOf(p))' = Users(EndOf(p)) \ {p}
  BY <1>2 DEF Users, EndOf
<1>4. \A e \in End \ {EndOf(p)} : Users(e)' = Users(e)
  BY <1>2 DEF Users, EndOf
<1>5. Users(EndOf(p)) \subseteq Process /\ Users(EndOf(p)) \ {p} \subseteq Process
  BY DEF Users
<1>6. /\ Cardinality(Users(EndOf(p)) \ {p}) = Cardinality(Users(EndOf(p))) - 1
      /\ Cardinality(Users(EndOf(p)) \ {p}) \in Nat /\ Cardinality(Users(EndOf(p))) \in Nat
      /\ Cardinality(Users(EndOf(p)) \ {p}) = 0 <=> Users(EndOf(p)) \ {p} = {}
  BY <1>3, <1>5, Zenon DEF Counting
<1>7. ref_count[EndOf(p)] = Cardinality(Users(EndOf(p))) /\ ref_count \in [End -> Nat]
  BY <1>1 DEF EndsCounted, EndTypes
<1>8. /\ ref_count' \in [End -> Nat] /\ ref_count'[EndOf(p)] = Cardinality(Users(EndOf(p)) \ {p})
      /\ \A e \in End \ {EndOf(p)} : ref_count'[e] = ref_count[e]
  BY <1>1, <1>6, <1>7
<1>9. \A e \in End : ref_count'[e] = Cardinality(Users(e)')
  BY <1>3, <1>4, <1>8, Zenon DEF EndsCounted
<1>10. ref_count[EndOf(p)] = 1 <=> Cardinality(Users(EndOf(p)) \ {p}) = 0
  BY <1>6, <1>7
<1> QED
  BY <1>3, <1>4, <1>6, <1>8, <1>9, <1>10, Zenon

\* pipe_close preserves the invariant.
LEMMA PipeCloseKeeps ==
  ASSUME IInv, Counting, NEW p \in Process, pipe_close(p)
  PROVE  IInv'
<1>1. /\ RingTypes /\ EndTypes /\ CallTypes /\ HistoryTypes /\ LockHeld /\ WriteGoesOn
      /\ Stream /\ EndsCounted /\ ResultsTrue
  BY Zenon DEF IInv, TypeOK
<1>2. /\ pc[p] = "close_pipe" /\ pc' = [pc EXCEPT ![p] = "close_unlock"]
      /\ ref_count' = [ref_count EXCEPT ![EndOf(p)] = @ - 1]
      /\ RingKept /\ UNCHANGED <<lock, n, idx, calls, sent, received, eof>>
  BY Zenon DEF pipe_close, At, Goto, RingKept, history
<1>3. /\ read_open' = (read_open /\ ~(ref_count[EndOf(p)] = 1 /\ EndOf(p) = "read"))
      /\ write_open' = (write_open /\ ~(ref_count[EndOf(p)] = 1 /\ EndOf(p) = "write"))
  BY Zenon DEF pipe_close
<1>4. /\ "close_pipe" \in Holding /\ "close_unlock" \in Closing
      /\ "close_unlock" \notin Writing /\ "close_unlock" \notin Returning
  BY DEF Holding, Closing, Writing, Returning
<1>5. lock[EndOf(p)] = p
  BY <1>1, <1>2, <1>4 DEF LockHeld
<1>6. Moves(p, "close_unlock")
  BY <1>2, <1>4, <1>5, Zenon DEF Moves
<1>7. /\ pc'[p] = "close_unlock" /\ \A q \in Process \ {p} : pc'[q] = pc[q]
      /\ pc' \in [Process -> Closing \cup Reading \cup Writing]
      /\ \A q \in Reader : pc'[q] \in Closing \cup Reading
      /\ \A v \in Writer : pc'[v] \in Closing \cup Writing
  BY <1>1, <1>6, MovesPc, Zenon
<1>8. lock' \in [End -> Process \cup {NoProc}] /\ LockHeld'
  BY <1>1, <1>6, MovesLock, Zenon
<1>9. RingTypes' /\ Stream'
  BY <1>1, <1>2, StreamKept, Zenon
<1>10. /\ p \in Users(EndOf(p))
       /\ \A e \in End \ {EndOf(p)} : Users(e)' = Users(e)
       /\ ref_count' \in [End -> Nat] /\ \A e \in End : ref_count'[e] = Cardinality(Users(e)')
       /\ ref_count[EndOf(p)] = 1 <=> Users(EndOf(p))' = {}
  BY <1>1, <1>2, UsersLeft, Zenon
<1>11. read_open' \in BOOLEAN /\ write_open' \in BOOLEAN
  BY <1>1, <1>3, Zenon DEF EndTypes
<1>12. EndTypes' /\ CallTypes' /\ HistoryTypes'
  BY <1>1, <1>2, <1>7, <1>8, <1>10, <1>11, Zenon DEF EndTypes, CallTypes, HistoryTypes
<1>13. EndsCounted'
  <2>1. CASE EndOf(p) = "write"
    <3>1. write_open
      BY <1>1, <1>10, <2>1, Zenon DEF EndsCounted
    <3> QED
      BY <1>3, <1>10, <2>1, <3>1, Zenon DEF EndsCounted
  <2>2. CASE EndOf(p) # "write"
    <3>1. "write" \in End \ {EndOf(p)}
      BY <2>2 DEF End
    <3>2. Users("write")' = Users("write")
      BY <1>10, <3>1, Zenon
    <3> QED
      BY <1>1, <1>3, <1>10, <2>2, <3>2, Zenon DEF EndsCounted, EndTypes
  <2> QED
    BY <2>1, <2>2, Zenon
<1>14. \A v \in Writer : pc'[v] \in Writing => pc'[v] = pc[v]
  BY <1>4, <1>7, Zenon DEF Process
<1>15. WriteGoesOn'
  BY <1>1, <1>2, <1>14, Zenon DEF WriteGoesOn
<1>16. ResultsTrue'
  <2>1. \A v \in Writer : pc'[v] \in Returning => pc'[v] = pc[v]
    BY <1>4, <1>7, Zenon DEF Process
  <2>2. (read_open' => read_open) /\ (write_open' => write_open)
    BY <1>3, Zenon
  <2> QED
    BY <1>1, <1>2, <2>1, <2>2, Zenon DEF ResultsTrue, Returning
<1> QED
  BY <1>8, <1>9, <1>12, <1>13, <1>15, <1>16, Zenon DEF IInv, TypeOK

(* ----------------------- the bounded byte stream ---------------------- *)

\* The places of a write that goes on.
Turning == {"write_pipe", "write_wakeup", "write_unlock"}

\* turn names the writer whose program counter says that its write goes on.
LEMMA TurnIs ==
  ASSUME IInv
  PROVE  /\ turn \in Writer \cup {NoProc}
         /\ \A w \in Writer : turn = w <=> pc[w] \in Turning
<1>1. \A w \in Writer : w # NoProc /\ (pc[w] \in Turning => lock["write"] = w)
  BY Ends DEF IInv, LockHeld, Holding, Turning, Process
<1> QED
  BY <1>1, Zenon DEF turn, Turning

\* The same in the next state.
LEMMA TurnIsNext ==
  ASSUME IInv'
  PROVE  /\ turn' \in Writer \cup {NoProc}
         /\ \A w \in Writer : turn' = w <=> pc'[w] \in Turning
<1>1. \A w \in Writer : w # NoProc /\ (pc'[w] \in Turning => lock'["write"] = w)
  BY Ends DEF IInv, LockHeld, Holding, Turning, Process, EndOf
<1> QED
  BY <1>1, Zenon DEF turn, Turning

\* turn changes only when a write begins or ends.
LEMMA TurnKept ==
  ASSUME IInv, IInv', \A w \in Writer : pc'[w] \in Turning <=> pc[w] \in Turning
  PROVE  turn' = turn
BY TurnIs, TurnIsNext, Zenon

\* Process p goes on, and no write begins or ends.
LEMMA TurnMoves ==
  ASSUME IInv, IInv', NEW p \in Process, NEW to, pc' = [pc EXCEPT ![p] = to],
         p \in Writer => (pc[p] \in Turning <=> to \in Turning)
  PROVE  turn' = turn
<1>1. pc'[p] = to /\ \A q \in Process \ {p} : pc'[q] = pc[q]
  BY DEF IInv, TypeOK, CallTypes
<1>2. \A w \in Writer : pc'[w] \in Turning <=> pc[w] \in Turning
  BY <1>1, Zenon DEF Process
<1> QED
  BY <1>2, TurnKept, Zenon

\* A step that leaves the bytes alone and begins and ends no write.
LEMMA Stutters ==
  ASSUME IInv, IInv', NEW p \in Process, NEW to, pc' = [pc EXCEPT ![p] = to],
         p \in Writer => (pc[p] \in Turning <=> to \in Turning),
         UNCHANGED <<sent, received>>
  PROVE  UNCHANGED S!vars
<1>1. turn' = turn
  BY TurnMoves, Zenon
<1> QED
  BY <1>1, Zenon DEF S!vars

\* acquiresleep with the lock free: the turn of the writer begins.
LEMMA BeginStep ==
  ASSUME IInv, IInv', NEW w \in Writer, acquiresleep(w, "write_lock", "write_pipe")
  PROVE  S!Begin(w) \/ UNCHANGED S!vars
<1>0. w \in Process /\ EndOf(w) = "write"
  BY Ends DEF Process
<1>1. UNCHANGED <<sent, received>>
  BY Zenon DEF acquiresleep, history
<1>2. CASE lock[EndOf(w)] = NoProc /\ pc' = [pc EXCEPT ![w] = "write_pipe"]
  <2>1. turn = NoProc
    BY <1>0, <1>2, NameAssumption DEF turn, Process
  <2>2. pc'[w] \in Turning
    BY <1>0, <1>2 DEF IInv, TypeOK, CallTypes, Turning
  <2>3. turn' = w
    BY <2>2, TurnIsNext, Zenon
  <2> QED
    BY <1>1, <2>1, <2>3, Zenon DEF S!Begin
<1>3. CASE UNCHANGED <<lock, pc>>
  BY <1>1, <1>3, TurnKept, Zenon DEF S!vars
<1> QED
  BY <1>2, <1>3, Zenon DEF acquiresleep, Goto

\* releasesleep after the write: the turn ends.
LEMMA EndStep ==
  ASSUME IInv, IInv', NEW w \in Writer, releasesleep(w, "write_unlock", "idle")
  PROVE  S!End(w)
<1>0. w \in Process /\ EndOf(w) = "write"
  BY Ends DEF Process
<1>1. UNCHANGED <<sent, received>> /\ pc[w] = "write_unlock" /\ lock' = [lock EXCEPT ![EndOf(w)] = NoProc]
  BY Zenon DEF releasesleep, history, At
<1>2. turn = w
  BY <1>1, TurnIs DEF Turning
<1>3. lock'["write"] = NoProc
  BY <1>0, <1>1 DEF IInv, TypeOK, EndTypes, End
<1>4. turn' = NoProc
  BY <1>3, NameAssumption DEF turn, Process
<1> QED
  BY <1>1, <1>2, <1>4, Zenon DEF S!End

\* A turn of pipe_write's loop that puts bytes in.
LEMMA PutStep ==
  ASSUME IInv, IInv', NEW w \in Writer, pc[w] = "write_pipe", write_rest(w) \/ write_wait(w),
         received' = received
  PROVE  S!Put(w)
<1>0. w \in Process /\ calls[w] \in 1 .. MaxWrites /\ idx[w] \in Nat
  BY WriterHas, Zenon
<1>1. PICK k \in Nat : /\ Fill(w, k)
                       /\ \E to \in {"write_pipe"} \cup Returning : pc' = [pc EXCEPT ![w] = to]
  BY Fills, Zenon
<1>2. PICK to \in {"write_pipe"} \cup Returning : pc' = [pc EXCEPT ![w] = to]
  BY <1>1, Zenon
<1>3. "write_pipe" \in Turning /\ to \in Turning
  BY DEF Turning, Returning
<1>4. turn' = turn
  BY <1>0, <1>2, <1>3, TurnMoves, Zenon
<1>5. turn = w
  BY <1>3, TurnIs, Zenon
<1>6. sent \in Seq(Byte) /\ received \in Seq(Byte)
  BY Zenon DEF IInv, TypeOK, HistoryTypes
<1>7. /\ sent' \in Seq(Byte) /\ Len(sent') = Len(sent) + k
      /\ \A i \in 1 .. Len(sent) : sent'[i] = sent[i]
      /\ \A i \in 1 .. k : sent'[Len(sent) + i] = NextByte(w, i - 1)
  BY <1>0, <1>1, <1>6, Sent, Zenon
<1>8. Len(sent') <= Len(received) + Size
  <2>1. Len(sent') = Len(received) + available_bytes' /\ available_bytes' \in 0 .. Size
    BY Zenon DEF IInv, Stream, TypeOK, RingTypes
  <2>2. Len(received) \in Nat
    BY <1>6
  <2> QED
    BY <2>1, <2>2, SizeAssumption
<1>9. SubSeq(sent', 1, Len(sent)) = sent
  BY <1>6, <1>7
<1>10. ASSUME NEW i \in Len(sent) + 1 .. Len(sent')
       PROVE  sent'[i] \in Byte /\ sent'[i].by = w
  <2>1. i - Len(sent) \in 1 .. k /\ Len(sent) + (i - Len(sent)) = i /\ i - Len(sent) - 1 \in Nat
    BY <1>6, <1>7
  <2>2. sent'[i] = NextByte(w, i - Len(sent) - 1)
    BY <1>7, <2>1, Zenon
  <2> QED
    BY <1>0, <2>1, <2>2, NextByteType, ZenonT(30)
<1> QED
  BY <1>4, <1>5, <1>8, <1>9, <1>10, Zenon DEF S!Put

\* A sequence that agrees with the beginning of another is its SubSeq.
LEMMA Beginning ==
  ASSUME NEW T, NEW s \in Seq(T), NEW t \in Seq(T), NEW m \in 0 .. Len(s), Len(t) = m,
         \A i \in 1 .. Len(t) : t[i] = s[i]
  PROVE  t = SubSeq(s, 1, m)
OBVIOUS

\* A read that takes bytes out.
LEMMA GetStep ==
  ASSUME IInv, IInv', NEW r \in Reader, Reads(r), read_bytes(r)
  PROVE  S!Get \/ UNCHANGED S!vars
<1>0. r \in Process /\ r \notin Writer
  BY ReaderHas, Zenon
<1>1. PICK k : k = Least(n[r], available_bytes)
  BY Zenon
<1>2. received' = received \o SubSeq(Contents, 1, k) /\ sent' = sent /\ pc' = [pc EXCEPT ![r] = "read_unlock"]
  BY <1>1, Zenon DEF read_bytes, Goto
<1>3. turn' = turn
  BY <1>0, <1>2, TurnMoves, Zenon
<1>4. /\ RingTypes /\ Stream /\ sent \in Seq(Byte) /\ received \in Seq(Byte)
      /\ Len(sent) = Len(received) + available_bytes
  BY Zenon DEF IInv, TypeOK, HistoryTypes, Stream
<1>5. available_bytes \in Nat /\ n[r] \in Nat /\ Len(received) \in Nat
  BY <1>0, <1>4, SizeAssumption DEF IInv, TypeOK, RingTypes, CallTypes
<1>6. k \in 0 .. available_bytes
  BY <1>1, <1>5, LeastBound, Zenon
<1>7. /\ received' \in Seq(Byte) /\ Len(received') = Len(received) + k
      /\ \A i \in 1 .. Len(received') : received'[i] = sent[i]
  BY <1>2, <1>4, <1>6, Delivered, Zenon
<1>8. CASE k = 0
  <2>1. /\ Len(received') = Len(received)
        /\ \A i \in 1 .. Len(received) : received'[i] = received[i]
    BY <1>4, <1>5, <1>7, <1>8 DEF Stream
  <2>2. received' = received
    BY <1>4, <1>7, <2>1
  <2> QED
    BY <1>2, <1>3, <2>2, Zenon DEF S!vars
<1>9. CASE k # 0
  <2>1. k \in 1 .. Len(sent) - Len(received) /\ Len(received) + k \in 0 .. Len(sent)
    BY <1>4, <1>5, <1>6, <1>9
  <2>2. received' = SubSeq(sent, 1, Len(received) + k)
    BY <1>4, <1>7, <2>1, Beginning, Zenon
  <2> QED
    BY <1>2, <1>3, <2>1, <2>2, Zenon DEF S!Get
<1> QED
  BY <1>8, <1>9

\* No other step in a call changes the stream.
LEMMA InCallStep ==
  ASSUME IInv, IInv', NEW p \in Process, InCall(p)
  PROVE  S!Next \/ UNCHANGED S!vars
<1>0. /\ {"idle", "close_lock", "close_pipe", "close_unlock", "closed"} \cap Turning = {}
      /\ Returning \cup {"write_pipe"} = Turning
  BY DEF Turning, Returning
<1>1. CASE p \in Reader /\ Read(p)
  <2>0. p \notin Writer
    BY <1>1, Ends, Zenon
  <2>1. CASE acquiresleep(p, "read_lock", "read_pipe")
    <3>1. UNCHANGED <<sent, received>> /\ (pc' = [pc EXCEPT ![p] = "read_pipe"] \/ pc' = pc)
      BY <2>1, Zenon DEF acquiresleep, history, Goto
    <3> QED
      BY <2>0, <3>1, Stutters, TurnKept, Zenon DEF S!vars
  <2>2. CASE pipe_read(p)
    <3>1. Reads(p)
      BY <2>2, Zenon DEF pipe_read, At, Reads
    <3>2. CASE read_wait(p)
      <4>1. UNCHANGED <<sent, received>> /\ pc' = [pc EXCEPT ![p] = "read_wait"]
        BY <3>2, Zenon DEF read_wait, Goto, history
      <4> QED
        BY <2>0, <4>1, Stutters, Zenon
    <3>3. CASE read_eof(p)
      <4>1. UNCHANGED <<sent, received>> /\ pc' = [pc EXCEPT ![p] = "read_unlock"]
        BY <3>3, Zenon DEF read_eof, Goto
      <4> QED
        BY <2>0, <4>1, Stutters, Zenon
    <3>4. CASE read_bytes(p)
      BY <1>1, <3>1, <3>4, GetStep, Zenon DEF S!Next
    <3> QED
      BY <2>2, <3>2, <3>3, <3>4, Zenon DEF pipe_read
  <2>3. CASE pipe_read_panic(p)
    <3>1. UNCHANGED <<sent, received>> /\ pc' = pc
      BY <2>3, Zenon DEF pipe_read_panic, history
    <3> QED
      BY <3>1, TurnKept, Zenon DEF S!vars
  <2>4. CASE releasesleep(p, "read_unlock", "idle")
    <3>1. UNCHANGED <<sent, received>> /\ pc' = [pc EXCEPT ![p] = "idle"]
      BY <2>4, Zenon DEF releasesleep, history, Goto
    <3> QED
      BY <2>0, <3>1, Stutters, Zenon
  <2> QED
    BY <1>1, <2>1, <2>2, <2>3, <2>4, Zenon DEF Read
<1>2. CASE p \in Writer /\ Write(p)
  <2>1. CASE acquiresleep(p, "write_lock", "write_pipe")
    BY <1>2, <2>1, BeginStep, Zenon DEF S!Next
  <2>2. CASE pipe_write(p)
    <3>1. pc[p] = "write_pipe" /\ received' = received
      BY <2>2, Zenon DEF pipe_write, At
    <3>2. CASE write_broken(p) \/ write_nothing(p)
      <4>1. sent' = sent /\ \E to \in Returning : pc' = [pc EXCEPT ![p] = to]
        BY <3>2, Zenon DEF write_broken, write_nothing, Goto, Returning
      <4>2. PICK to \in Returning : pc' = [pc EXCEPT ![p] = to]
        BY <4>1, Zenon
      <4>3. pc[p] \in Turning /\ to \in Turning
        BY <1>0, <3>1, Zenon
      <4> QED
        BY <3>1, <4>1, <4>2, <4>3, Stutters, Zenon
    <3>3. CASE write_rest(p) \/ write_wait(p)
      BY <1>2, <3>1, <3>3, PutStep, Zenon DEF S!Next
    <3> QED
      BY <2>2, <3>2, <3>3, Zenon DEF pipe_write
  <2>3. CASE write_wakeup(p)
    <3>1. /\ UNCHANGED <<sent, received>> /\ pc' = [pc EXCEPT ![p] = "write_unlock"]
          /\ pc[p] = "write_wakeup"
      BY <2>3, Zenon DEF write_wakeup, history, Goto, At
    <3>2. "write_wakeup" \in Turning /\ "write_unlock" \in Turning
      BY DEF Turning
    <3> QED
      BY <3>1, <3>2, Stutters, Zenon
  <2>4. CASE releasesleep(p, "write_unlock", "idle")
    BY <1>2, <2>4, EndStep, Zenon DEF S!Next
  <2> QED
    BY <1>2, <2>1, <2>2, <2>3, <2>4, Zenon DEF Write
<1>3. CASE Close(p)
  <2>0. /\ "close_lock" \notin Turning /\ "close_pipe" \notin Turning
        /\ "close_unlock" \notin Turning /\ "closed" \notin Turning
    BY DEF Turning
  <2>1. CASE acquiresleep(p, "close_lock", "close_pipe")
    <3>1. /\ UNCHANGED <<sent, received>> /\ pc[p] = "close_lock"
          /\ pc' = [pc EXCEPT ![p] = "close_pipe"] \/ pc' = pc
      BY <2>1, Zenon DEF acquiresleep, history, Goto, At
    <3> QED
      BY <2>0, <3>1, Stutters, TurnKept, Zenon DEF S!vars
  <2>2. CASE pipe_close(p)
    <3>1. /\ UNCHANGED <<sent, received>> /\ pc[p] = "close_pipe"
          /\ pc' = [pc EXCEPT ![p] = "close_unlock"]
      BY <2>2, Zenon DEF pipe_close, history, Goto, At
    <3> QED
      BY <2>0, <3>1, Stutters, Zenon
  <2>3. CASE releasesleep(p, "close_unlock", "closed")
    <3>1. /\ UNCHANGED <<sent, received>> /\ pc[p] = "close_unlock"
          /\ pc' = [pc EXCEPT ![p] = "closed"]
      BY <2>3, Zenon DEF releasesleep, history, Goto, At
    <3> QED
      BY <2>0, <3>1, Stutters, Zenon
  <2> QED
    BY <1>3, <2>1, <2>2, <2>3, Zenon DEF Close
<1> QED
  BY <1>1, <1>2, <1>3, Zenon DEF InCall

\* Every step of the pipe is a step of the stream or leaves it alone.
LEMMA NextStep ==
  ASSUME IInv, IInv', [Next]_vars
  PROVE  [S!Next]_(S!vars)
<1>0. /\ "idle" \notin Turning /\ "read_lock" \notin Turning
      /\ "write_lock" \notin Turning /\ "close_lock" \notin Turning
  BY DEF Turning
<1>1. ASSUME NEW r \in Reader, call_read(r) PROVE UNCHANGED S!vars
  <2>1. /\ r \in Process /\ UNCHANGED <<sent, received>> /\ pc[r] = "idle"
        /\ pc' = [pc EXCEPT ![r] = "read_lock"]
    BY <1>1, Zenon DEF call_read, Goto, At, history, Process
  <2> QED
    BY <1>0, <2>1, Stutters, Zenon
<1>2. ASSUME NEW w \in Writer, call_write(w) PROVE UNCHANGED S!vars
  <2>1. /\ w \in Process /\ UNCHANGED <<sent, received>> /\ pc[w] = "idle"
        /\ pc' = [pc EXCEPT ![w] = "write_lock"]
    BY <1>2, Zenon DEF call_write, Goto, At, Process
  <2> QED
    BY <1>0, <2>1, Stutters, Zenon
<1>3. ASSUME NEW p \in Process, call_close(p) PROVE UNCHANGED S!vars
  <2>1. /\ UNCHANGED <<sent, received>> /\ pc[p] = "idle"
        /\ pc' = [pc EXCEPT ![p] = "close_lock"]
    BY <1>3, Zenon DEF call_close, Goto, At, history
  <2> QED
    BY <1>0, <2>1, Stutters, Zenon
<1>4. ASSUME NEW p \in Process, InCall(p) PROVE S!Next \/ UNCHANGED S!vars
  BY <1>4, InCallStep, Zenon
<1>5. ASSUME NEW p \in Process, kill(p) PROVE UNCHANGED S!vars
  <2>1. UNCHANGED <<sent, received>> /\ pc' = pc
    BY <1>5, Zenon DEF kill, history
  <2> QED
    BY <2>1, TurnKept, Zenon DEF S!vars
<1>6. ASSUME UNCHANGED vars PROVE UNCHANGED S!vars
  <2>1. UNCHANGED <<sent, received>> /\ pc' = pc
    BY <1>6, Zenon DEF vars, history
  <2> QED
    BY <2>1, TurnKept, Zenon DEF S!vars
<1> QED
  BY <1>1, <1>2, <1>3, <1>4, <1>5, <1>6, Zenon DEF Next, Stopped

(* ----------------------- the inductive invariant ---------------------- *)

FS == INSTANCE FiniteSetTheorems

\* Sets of processes are finite.
LEMMA CountingHolds == Counting
<1>1. /\ \A P : FS!Cardinality(P) = Cardinality(P)
      /\ \A P : FS!IsFiniteSet(P) <=> IsFiniteSet(P)
  BY DEF FS!Cardinality, Cardinality, FS!IsFiniteSet, IsFiniteSet
<1> SUFFICES ASSUME NEW P \in SUBSET Process
             PROVE  /\ Cardinality(P) \in Nat
                    /\ Cardinality(P) = 0 <=> P = {}
                    /\ \A p \in P : Cardinality(P \ {p}) = Cardinality(P) - 1
  BY Zenon DEF Counting
<1>2. FS!IsFiniteSet(P)
  BY <1>1, ProcAssumption, FS!FS_Subset DEF Process
<1>3. Cardinality(P) \in Nat
  BY <1>1, <1>2, FS!FS_CardinalityType
<1>4. Cardinality(P) = 0 <=> P = {}
  BY <1>1, <1>2, FS!FS_EmptySet
<1>5. \A p \in P : Cardinality(P \ {p}) = Cardinality(P) - 1
  BY <1>1, <1>2, FS!FS_RemoveElement
<1> QED
  BY <1>3, <1>4, <1>5

\* The invariant holds after pipe_open and the forks.
LEMMA InitEstablishes ==
  ASSUME Init
  PROVE  IInv
<1>1. PICK Open \in Sharing :
        /\ buffer = [i \in 0 .. Size - 1 |-> NoByte]
        /\ read_offset = 0 /\ write_offset = 0 /\ available_bytes = 0
        /\ read_open = TRUE /\ write_open = TRUE
        /\ lock = [e \in End |-> NoProc]
        /\ ref_count = [e \in End |-> Cardinality({p \in Open : EndOf(p) = e})]
        /\ pc = [p \in Process |-> IF p \in Open THEN "idle" ELSE "closed"]
        /\ n = [p \in Process |-> 0] /\ idx = [p \in Process |-> 0]
        /\ calls = [w \in Writer |-> 0] /\ sent = <<>> /\ received = <<>>
        /\ eof = [r \in Reader |-> FALSE]
  BY Zenon DEF Init
<1>2. Open \subseteq Process /\ Open \cap Writer # {}
  BY <1>1, SharingAssumption DEF Process
<1>3. RingTypes
  BY <1>1, SizeAssumption DEF RingTypes
<1>4. \A e \in End : Users(e) = {p \in Open : EndOf(p) = e}
  <2> SUFFICES ASSUME NEW e \in End, NEW p \in Process
               PROVE  pc[p] \notin {"close_unlock", "closed"} <=> p \in Open
    BY <1>2 DEF Users
  <2> QED
    BY <1>1
<1>5. \A e \in End : Users(e) \subseteq Process /\ ref_count[e] = Cardinality(Users(e))
  BY <1>1, <1>4, Zenon DEF Users
<1>6. \A w \in Writer : EndOf(w) = "write"
  BY Ends, Zenon DEF Process
<1>7. "write" \in End
  BY DEF End
<1>8. Users("write") # {}
  BY <1>2, <1>4, <1>6, <1>7, SMTT(20)
<1>9. EndsCounted
  BY <1>1, <1>5, <1>8 DEF EndsCounted
<1>10. EndTypes
  <2>1. \A e \in End : Cardinality(Users(e)) \in Nat
    BY <1>5, CountingHolds DEF Counting
  <2>2. ref_count = [e \in End |-> Cardinality(Users(e))]
    BY <1>1, <1>4, Zenon
  <2> QED
    BY <1>1, <2>1, <2>2 DEF EndTypes
<1>11. \A p \in Process : pc[p] \in {"idle", "closed"}
  BY <1>1
<1>12. CallTypes
  BY <1>1 DEF CallTypes, Closing, Process
<1>13. HistoryTypes
  BY <1>1, MaxWritesAssumption DEF HistoryTypes
<1>14. LockHeld
  BY <1>11 DEF LockHeld, Holding
<1>15. WriteGoesOn
  BY <1>11 DEF WriteGoesOn, Writing, Process
<1>16. Stream
  BY <1>1, SizeAssumption DEF Stream
<1>17. ResultsTrue
  BY <1>1, <1>11 DEF ResultsTrue, Process
<1> QED
  BY <1>3, <1>9, <1>10, <1>12, <1>13, <1>14, <1>15, <1>16, <1>17, Zenon DEF IInv, TypeOK

\* The kernel's part of every call preserves the invariant.
LEMMA InCallKeeps ==
  ASSUME IInv, NEW p \in Process, InCall(p)
  PROVE  IInv'
<1>1. CASE p \in Reader /\ Read(p)
  <2>1. CASE acquiresleep(p, "read_lock", "read_pipe")
    BY <1>1, <2>1, AcquireKeeps, Zenon
  <2>2. CASE pipe_read(p)
    BY <1>1, <2>2, PipeReadKeeps, Zenon
  <2>3. CASE pipe_read_panic(p)
    BY <2>3, StillKeeps, Zenon DEF pipe_read_panic
  <2>4. CASE releasesleep(p, "read_unlock", "idle")
    BY <2>4, ReleaseKeeps, Zenon
  <2> QED
    BY <1>1, <2>1, <2>2, <2>3, <2>4, Zenon DEF Read
<1>2. CASE p \in Writer /\ Write(p)
  <2>1. CASE acquiresleep(p, "write_lock", "write_pipe")
    BY <1>2, <2>1, AcquireKeeps, Zenon
  <2>2. CASE pipe_write(p)
    BY <1>2, <2>2, PipeWriteKeeps, Zenon
  <2>3. CASE write_wakeup(p)
    BY <1>2, <2>3, WriteWakeupKeeps, Zenon
  <2>4. CASE releasesleep(p, "write_unlock", "idle")
    BY <2>4, ReleaseKeeps, Zenon
  <2> QED
    BY <1>2, <2>1, <2>2, <2>3, <2>4, Zenon DEF Write
<1>3. CASE Close(p)
  <2>1. CASE acquiresleep(p, "close_lock", "close_pipe")
    BY <2>1, AcquireKeeps, Zenon
  <2>2. CASE pipe_close(p)
    BY <2>2, CountingHolds, PipeCloseKeeps, Zenon
  <2>3. CASE releasesleep(p, "close_unlock", "closed")
    BY <2>3, ReleaseKeeps, Zenon
  <2> QED
    BY <1>3, <2>1, <2>2, <2>3, Zenon DEF Close
<1> QED
  BY <1>1, <1>2, <1>3, Zenon DEF InCall

\* Every step preserves the invariant.
LEMMA NextKeeps ==
  ASSUME IInv, [Next]_vars
  PROVE  IInv'
<1>1. ASSUME NEW r \in Reader, call_read(r) PROVE IInv'
  BY <1>1, CallReadKeeps, Zenon
<1>2. ASSUME NEW w \in Writer, call_write(w) PROVE IInv'
  BY <1>2, CallWriteKeeps, Zenon
<1>3. ASSUME NEW p \in Process, call_close(p) PROVE IInv'
  BY <1>3, CallCloseKeeps, Zenon
<1>4. ASSUME NEW p \in Process, InCall(p) PROVE IInv'
  BY <1>4, InCallKeeps, Zenon
<1>5. ASSUME NEW p \in Process, kill(p) PROVE IInv'
  BY <1>5, StillKeeps, Zenon DEF kill
<1>6. CASE UNCHANGED vars
  BY <1>6, StillKeeps, Zenon DEF vars
<1> QED
  BY <1>1, <1>2, <1>3, <1>4, <1>5, <1>6, Zenon DEF Next, Stopped

\* The inductive invariant holds throughout.
THEOREM Invariant == Spec => []IInv
<1>1. Init => IInv
  BY InitEstablishes
<1>2. IInv /\ [Next]_vars => IInv'
  BY NextKeeps
<1> QED
  BY <1>1, <1>2, PTL DEF Spec

\* Whatever the size of the ring, the numbers of bytes asked for and the number of
\* processes at each end: a write falls short only when no read end is open, and
\* pipe_read says end of file only when every byte written has been read and no
\* write end is open any more.
THEOREM CallsTellTheTruth == Spec => []ResultsTrue
<1>1. IInv => ResultsTrue
  BY DEF IInv
<1> QED
  BY <1>1, Invariant, PTL

\* ref_count of each file_info counts the processes that have that end open, and
\* write_open is true exactly while there is one at the write end: pipe_close
\* closes an end with its last descriptor and never before.
THEOREM EndsClosedLast == Spec => []EndsCounted
<1>1. IInv => EndsCounted
  BY DEF IInv
<1> QED
  BY <1>1, Invariant, PTL

\* pipe_read and pipe_write implement the bounded byte stream: first in first out
\* through any number of wrap-arounds, and no write's bytes mixed with another's.
THEOREM ImplementsStream == Spec => StreamSpec
<1>1. Init => S!Init
  <2> SUFFICES ASSUME Init PROVE S!Init
    OBVIOUS
  <2>1. sent = <<>> /\ received = <<>> /\ lock = [e \in End |-> NoProc]
    BY Zenon DEF Init
  <2>2. turn = NoProc
    BY <2>1, NameAssumption DEF turn, Process, End
  <2> QED
    BY <2>1, <2>2, Zenon DEF S!Init
<1>2. IInv /\ IInv' /\ [Next]_vars => [S!Next]_(S!vars)
  BY NextStep
<1> QED
  BY <1>1, <1>2, Invariant, PTL DEF Spec, StreamSpec, S!Spec
=============================================================================
