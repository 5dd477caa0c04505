------------------------------ MODULE Console ------------------------------
(***************************************************************************)
(* The console of kernel/console.c: consoleintr fed by the keyboard and    *)
(* the serial port, consoleread and consolewrite called through file_read  *)
(* and file_write with the locks of the file and of the inode held, and    *)
(* the cursor of the screen.                                               *)
(*                                                                         *)
(* cons.lock is a spin lock: a step runs from taking it to giving it up or *)
(* to the switch in sleep.  The locks of files and of the inode are sleep  *)
(* locks, taken in one step when free (SleepLock).  An interrupt brings    *)
(* one character; consoleintr's loop over several is several steps.        *)
(***************************************************************************)
EXTENDS Integers, Sequences, Keyboard

CONSTANTS Process,
          File, FileOf,      \* the open files of the console, and whose is whose
          INPUT_BUF, Wrap,   \* the ring; r, w and e are uints that wrap at Wrap
          Typed,             \* characters from the serial port
          Keys,              \* bytes from the keyboard
          ReadSize,          \* the values of n in read
          Written,           \* what write prints
          Columns, Rows,     \* the screen has one row more than Rows
          MaxCalls           \* bound: calls per process

ASSUME WrapAssumption == INPUT_BUF \in Nat \ {0} /\ Wrap % INPUT_BUF = 0 /\ Wrap > INPUT_BUF
ASSUME FileAssumption == FileOf \in [Process -> File]
ASSUME ScreenAssumption == Columns \in Nat \ {0} /\ Rows \in Nat \ {0}

VARIABLES
  buf, r, w, e,            \* input
  pos,                     \* the cursor
  filelock, inodelock,
  pc, n, dst, asleep,      \* each process's call
  killed, panicked,
  calls                    \* history: calls made

input == <<buf, r, w, e>>
locks == <<filelock, inodelock>>
call == <<pc, n, dst, asleep, killed, calls>>
vars == <<input, pos, locks, call, panicked>>

NoProc == "none"
BACKSPACE == "BACKSPACE"

Init ==
  /\ buf = [i \in 0 .. INPUT_BUF - 1 |-> NO]
  /\ r = 0 /\ w = 0 /\ e = 0
  /\ pos \in 0 .. (Rows + 1) * Columns - 1
  /\ filelock = [f \in File |-> NoProc] /\ inodelock = NoProc
  /\ pc = [p \in Process |-> "user"]
  /\ n = [p \in Process |-> 0]
  /\ dst = [p \in Process |-> <<>>]
  /\ asleep = [p \in Process |-> FALSE]
  /\ killed = [p \in Process |-> FALSE]
  /\ panicked = FALSE
  /\ calls = [p \in Process |-> 0]

(* ------------------------------- output -------------------------------- *)

\* Where cgaputc moves the cursor to, ...
Moved(at, c) ==
  CASE c = "NL" -> at + Columns - (at % Columns)
    [] c = BACKSPACE -> IF at > 0 THEN at - 1 ELSE at
    [] OTHER -> at + 1

\* Mutant of cgaputc: the cursor does not follow the scroll.
cgaputc_stay(at, c) == Moved(at, c)

\* ... and where it stands after the scroll.
cgaputc(at, c) == IF Moved(at, c) \div Columns >= Rows THEN Moved(at, c) - Columns ELSE Moved(at, c)

\* consputc for a sequence of characters, up to the panic.
RECURSIVE consputc(_, _)
consputc(at, s) ==
  IF s = <<>> \/ at.panic THEN at
  ELSE consputc([pos |-> cgaputc(at.pos, Head(s)), panic |-> Moved(at.pos, Head(s)) > (Rows + 1) * Columns], Tail(s))

Output(s) ==
  LET out == consputc([pos |-> pos, panic |-> FALSE], s)
  IN  pos' = out.pos /\ panicked' = out.panic

(* -------------------------------- input -------------------------------- *)

\* wakeup(&input.r).
Wake == asleep' = [p \in Process |-> FALSE]

\* Mutant of erase: a line that has ended can be changed.
erase_any(c) ==
  /\ c \in {"^H", "DEL"}
  /\ e # r
  /\ e' = (e - 1) % Wrap
  /\ Output(<<BACKSPACE>>)
  /\ UNCHANGED <<buf, r, w, asleep>>

erase(c) ==
  /\ c \in {"^H", "DEL"}
  /\ e # w
  /\ e' = (e - 1) % Wrap
  /\ Output(<<BACKSPACE>>)
  /\ UNCHANGED <<buf, r, w, asleep>>

\* Back to the start of the line, or to a newline.
RECURSIVE KillTo(_)
KillTo(i) ==
  IF i = w \/ buf[(i - 1) % INPUT_BUF] = "NL" THEN i ELSE KillTo((i - 1) % Wrap)

kill_line(c) ==
  /\ c = "^U"
  /\ e' = KillTo(e)
  /\ Output([i \in 1 .. (e - e') % Wrap |-> BACKSPACE])
  /\ UNCHANGED <<buf, r, w, asleep>>

\* Mutant of insert: a line ended by a full ring wakes nobody.
insert_full_silent(c) ==
  /\ c \notin {NO, "^P", "^U", "^H", "DEL"}
  /\ (e - r) % Wrap < INPUT_BUF
  /\ LET ch == IF c = "CR" THEN "NL" ELSE c
         ended == ch \in {"NL", "^D"} \/ (e + 1) % Wrap = (r + INPUT_BUF) % Wrap
     IN  /\ buf' = [buf EXCEPT ![e % INPUT_BUF] = ch]
         /\ e' = (e + 1) % Wrap
         /\ Output(<<ch>>)
         /\ IF ended THEN w' = e' ELSE UNCHANGED w
         /\ IF ch \in {"NL", "^D"} THEN Wake ELSE UNCHANGED asleep
  /\ UNCHANGED r

\* The default case; a newline, a ^D and the last free place end the line.
insert(c) ==
  /\ c \notin {NO, "^P", "^U", "^H", "DEL"}
  /\ (e - r) % Wrap < INPUT_BUF
  /\ LET ch == IF c = "CR" THEN "NL" ELSE c
         ended == ch \in {"NL", "^D"} \/ (e + 1) % Wrap = (r + INPUT_BUF) % Wrap
     IN  /\ buf' = [buf EXCEPT ![e % INPUT_BUF] = ch]
         /\ e' = (e + 1) % Wrap
         /\ Output(<<ch>>)
         /\ IF ended THEN w' = e' /\ Wake ELSE UNCHANGED <<w, asleep>>
  /\ UNCHANGED r

\* NO, ^P (the process listing) and a character for a full ring.
ignore(c) ==
  /\ \/ c \in {NO, "^P"}
     \/ c \in {"^H", "DEL"} /\ e = w
     \/ c \notin {"^U", "^H", "DEL"} /\ (e - r) % Wrap = INPUT_BUF
  /\ UNCHANGED <<input, pos, panicked, asleep>>

consoleintr(c) ==
  /\ ~panicked
  /\ erase(c) \/ kill_line(c) \/ insert(c) \/ ignore(c)
  /\ UNCHANGED <<locks, pc, n, dst, killed, calls>>

uartintr(c) == consoleintr(c)

\* A byte of the with and without the control key (see Keyboard).
kbdintr(data) == \E shift \in {{}, {CTL}} : consoleintr(kbdgetc(shift, data).c)

(* ---------------------------- system calls ----------------------------- *)

Goto(p, l) == pc' = [pc EXCEPT ![p] = l]
InCall(p, l) == pc[p] = l /\ ~asleep[p] /\ ~panicked

\* read and write, up to acquiresleep of the file's lock.
sys_call(p, l) ==
  /\ InCall(p, "user")
  /\ ~killed[p]
  /\ calls[p] < MaxCalls
  /\ calls' = [calls EXCEPT ![p] = @ + 1]
  /\ Goto(p, l)
  /\ UNCHANGED <<input, pos, locks, dst, asleep, killed, panicked>>

sys_read(p) == sys_call(p, "file_read") /\ \E k \in ReadSize : n' = [n EXCEPT ![p] = k]
sys_write(p) == sys_call(p, "file_write") /\ UNCHANGED n

lock_file(p) ==
  /\ InCall(p, "file_read") \/ InCall(p, "file_write")
  /\ filelock[FileOf[p]] = NoProc
  /\ filelock' = [filelock EXCEPT ![FileOf[p]] = p]
  /\ Goto(p, IF pc[p] = "file_read" THEN "readi" ELSE "writei")
  /\ UNCHANGED <<input, pos, inodelock, n, dst, asleep, killed, calls, panicked>>

\* concurrent_readi and concurrent_writei lock the inode.
lock_inode(p) ==
  /\ InCall(p, "readi") \/ InCall(p, "writei")
  /\ inodelock = NoProc
  /\ inodelock' = p
  /\ Goto(p, IF pc[p] = "readi" THEN "consoleread" ELSE "consolewrite")
  /\ UNCHANGED <<input, pos, filelock, n, dst, asleep, killed, calls, panicked>>

consolewrite(p) ==
  /\ InCall(p, "consolewrite")
  /\ \E s \in Written : Output(s)
  /\ Goto(p, "unlocki")
  /\ UNCHANGED <<input, locks, n, dst, asleep, killed, calls>>

\* The inner loop of consoleread: what it has after the characters that are
\* there.  got is what this call has copied, k what it still wants.
RECURSIVE Drain(_, _, _)
Drain(i, k, got) ==
  IF k = 0 THEN [r |-> i, n |-> 0, dst |-> got, done |-> TRUE]
  ELSE IF i = w THEN [r |-> i, n |-> k, dst |-> got, done |-> FALSE]
  ELSE LET c == buf[i % INPUT_BUF]
       IN  IF c = "^D" THEN [r |-> IF got = <<>> THEN (i + 1) % Wrap ELSE i, n |-> k, dst |-> got, done |-> TRUE]
           ELSE IF c = "NL" THEN [r |-> (i + 1) % Wrap, n |-> k - 1, dst |-> Append(got, c), done |-> TRUE]
           ELSE Drain((i + 1) % Wrap, k - 1, Append(got, c))

\* consoleread until it returns, or until it sleeps on &input.r with the locks
\* of the file and of the inode held.
consoleread(p) ==
  /\ InCall(p, "consoleread")
  /\ LET d == Drain(r, n[p], dst[p])
         out == d.done \/ killed[p]
     IN  /\ r' = d.r
         /\ n' = [n EXCEPT ![p] = d.n]
         /\ dst' = [dst EXCEPT ![p] = d.dst]
         /\ asleep' = [asleep EXCEPT ![p] = ~out]
         /\ Goto(p, IF out THEN "unlocki" ELSE "consoleread")
  /\ UNCHANGED <<buf, w, e, pos, locks, killed, calls, panicked>>

unlocki(p) ==
  /\ InCall(p, "unlocki")
  /\ inodelock' = NoProc
  /\ Goto(p, "releasesleep")
  /\ UNCHANGED <<input, pos, filelock, n, dst, asleep, killed, calls, panicked>>

\* The call returns; trap() makes a killed process exit.
releasesleep(p) ==
  /\ InCall(p, "releasesleep")
  /\ filelock' = [filelock EXCEPT ![FileOf[p]] = NoProc]
  /\ n' = [n EXCEPT ![p] = 0]
  /\ dst' = [dst EXCEPT ![p] = <<>>]
  /\ Goto(p, IF killed[p] THEN "exit" ELSE "user")
  /\ UNCHANGED <<input, pos, inodelock, asleep, killed, calls, panicked>>

\* kill wakes a sleeper.
kill(p) ==
  /\ ~killed[p] /\ ~panicked
  /\ killed' = [killed EXCEPT ![p] = TRUE]
  /\ asleep' = [asleep EXCEPT ![p] = FALSE]
  /\ UNCHANGED <<input, pos, locks, pc, n, dst, calls, panicked>>

Kernel(p) ==
  lock_file(p) \/ lock_inode(p) \/ consoleread(p) \/ consolewrite(p) \/ unlocki(p) \/ releasesleep(p)

Next ==
  \/ \E c \in Typed : uartintr(c)
  \/ \E data \in Keys : kbdintr(data)
  \/ \E p \in Process : sys_read(p) \/ sys_write(p) \/ kill(p) \/ Kernel(p)

Spec == Init /\ [][Next]_vars

\* Processes in the kernel run, and somebody at the terminal ends lines.
FairSpec ==
  /\ Spec
  /\ \A p \in Process : WF_vars(Kernel(p))
  /\ WF_vars(uartintr("NL"))

(* ----------------------------- properties ------------------------------ *)

\* The ring from i to j.
Part(i, j) == [k \in 1 .. (j - i) % Wrap |-> buf[(i + k - 1) % INPUT_BUF]]

\* The ring and its three indices, through their wrap-around, implement the
\* line input of LineInput: what has been ended is neither edited nor lost nor
\* read twice, a full ring ends the line, and a read ends where it should.
L == INSTANCE LineInput WITH
       Reader <- Process, Ends <- {"NL", "^D"}, Size <- INPUT_BUF,
       Char <- {"a", "d", "NL", "^D"},
       ready <- Part(r, w), line <- Part(w, e)
LineSpec == L!Spec

\* The cursor stays on the screen whatever is echoed, erased and written, and
\* wherever the boot loader left it, so that cgaputc never panics.
CursorOnScreen == ~panicked /\ pos \in 0 .. (Rows + 1) * Columns - 1

\* A read waits with the file and the inode locked, so that other reads and
\* writes of the console wait behind it.  Still every call returns while lines
\* are typed: nobody sleeps through the end of a line or a kill.
CallsReturn ==
  \A p \in Process : pc[p] \in {"file_read", "file_write"} ~> pc[p] \in {"user", "exit"} \/ panicked
=============================================================================
