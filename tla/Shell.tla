------------------------------- MODULE Shell -------------------------------
(***************************************************************************)
(* The user level of xk: user/init.c keeps a shell running, user/sh.c      *)
(* reads a line, forks a child that runs the parsed command, and waits;    *)
(* runcmd builds pipelines, redirections, lists and background jobs out of *)
(* fork, wait, pipe, dup, open and close; user/echo.c and user/cat.c are   *)
(* the programs it executes.                                               *)
(*                                                                         *)
(* A step is one system call together with the code after it, up to the    *)
(* next call.  The kernel's side of a call is what the other modules       *)
(* establish: a pipe is a stream with an end, wait returns a child that    *)
(* exited and is woken by the exit of its own child only.  A pid is the    *)
(* number of its slot: a slot is taken again only once it was waited for.  *)
(***************************************************************************)
EXTENDS ShellParser, FiniteSets

CONSTANTS NPROC, NOFILE,
          NFILE,          \* bound: pipes and open files at one time
          PipeSize,       \* bytes a pipe holds
          Files,          \* the files of the disk: name -> content
          Scripts,        \* what a user types before end of file: lines, as parsecmd returns them
          MemoryMayFail   \* whether fork, exec and pipe may fail for lack of memory

VARIABLES state, parent,  \* the process table
          fds,            \* open descriptors of each process
          data,           \* bytes in a pipe, or still to be read of an open file
          pc,             \* the call a process makes next
          cmd,            \* the command a child of the shell runs
          pid, p,         \* locals of sh.c: the child waited for; the pipe's ends
          fd, buf,        \* locals of cat.c and echo.c
          script,         \* lines the user has still to type, as the child parses them
          screen,         \* what was written to the console
          expected        \* ghost: what the lines so far mean

proc_vars == <<state, parent>>
locals == <<pid, p, fd, buf>>
user == <<script, expected>>
vars == <<proc_vars, fds, data, pc, cmd, locals, user, screen>>

Slot == 1 .. NPROC
init == 1
stdin == 0
stdout == 1
Fd == 0 .. NOFILE - 1
Object == 1 .. NFILE

Console == [kind |-> "console", id |-> 0]
None == [kind |-> "none", id |-> 0]
ReadEnd(k) == [kind |-> "read", id |-> k]
WriteEnd(k) == [kind |-> "write", id |-> k]
File(k) == [kind |-> "file", id |-> k]

Least(S) == CHOOSE x \in S : \A y \in S : x <= y
Free(q) == {f \in Fd : fds[q][f] = None}
Held(d) == \E q \in Slot, f \in Fd : fds[q][f] = d
Unused == {k \in Object : ~Held(ReadEnd(k)) /\ ~Held(WriteEnd(k)) /\ ~Held(File(k))}
Null == execcmd(<<>>)

(* ------------------- what the commands of a line mean ------------------ *)

RECURSIVE Flat(_)
Flat(words) == IF words = <<>> THEN <<>> ELSE Head(words) \o Flat(Tail(words))

\* The files cat names, up to the first that does not exist.
RECURSIVE Named(_)
Named(names) ==
  IF names = <<>> \/ Head(names) \notin DOMAIN Files THEN <<>> ELSE Files[Head(names)] \o Named(Tail(names))

RECURSIVE Reads(_)
Reads(t) ==
  CASE t.type = "EXEC" -> t.argv = <<<<"c">>>>
    [] t.type = "REDIR" -> t.fd # stdin /\ Reads(t.cmd)
    [] t.type = "PIPE" -> Reads(t.left)
    [] t.type = "LIST" -> Reads(t.left) \/ Reads(t.right)
    [] OTHER -> FALSE

\* What a command writes to its stdout when its stdin holds in.
RECURSIVE Meaning(_, _)
Meaning(t, in) ==
  CASE t.type = "EXEC" -> IF t.argv = <<>> THEN <<>>
                          ELSE CASE t.argv[1] = <<"e">> -> Flat(Tail(t.argv))
                                 [] t.argv[1] = <<"c">> -> IF Len(t.argv) = 1 THEN in ELSE Named(Tail(t.argv))
                                 [] OTHER -> <<>>
    [] t.type = "REDIR" -> IF t.fd = stdin /\ t.file \in DOMAIN Files THEN Meaning(t.cmd, Files[t.file]) ELSE <<>>
    [] t.type = "PIPE" -> Meaning(t.right, Meaning(t.left, in))
    [] t.type = "LIST" -> Meaning(t.left, in) \o Meaning(t.right, IF Reads(t.left) THEN <<>> ELSE in)
    [] OTHER -> <<>>

RECURSIVE Foreground(_)
Foreground(t) ==
  CASE t.type = "BACK" -> FALSE
    [] t.type \in {"PIPE", "LIST"} -> Foreground(t.left) /\ Foreground(t.right)
    [] t.type = "REDIR" -> Foreground(t.cmd)
    [] OTHER -> TRUE

(* ------------------------------ the calls ------------------------------ *)

Init ==
  /\ state = [q \in Slot |-> IF q = init THEN "RUNNING" ELSE "UNUSED"]
  /\ parent = [q \in Slot |-> 0]
  /\ fds = [q \in Slot |-> [f \in Fd |-> IF q = init /\ f <= 2 THEN Console ELSE None]]
  /\ data = [k \in Object |-> <<>>]
  /\ pc = [q \in Slot |-> IF q = init THEN "init_fork" ELSE "none"]
  /\ cmd = [q \in Slot |-> Null]
  /\ pid = [q \in Slot |-> 0]
  /\ p = [q \in Slot |-> <<0, 0>>]
  /\ fd = [q \in Slot |-> 0]
  /\ buf = [q \in Slot |-> <<>>]
  /\ script \in Scripts
  /\ screen = <<>>
  /\ expected = [output |-> <<>>, exact |-> TRUE]

At(q, where) == state[q] = "RUNNING" /\ pc[q] = where
Goto(q, where) == pc' = [pc EXCEPT ![q] = where]
Runs(q, type) == At(q, "runcmd") /\ cmd[q].type = type

\* assert(a): a failed one prints a line and loops for ever.
assert(q, a, next) == Goto(q, IF a THEN next ELSE "assert")

\* exit: close every descriptor, give the children to init, wake the parent.
exit(q) ==
  /\ fds' = [fds EXCEPT ![q] = [f \in Fd |-> None]]
  /\ parent' = [c \in Slot |-> IF parent[c] = q THEN init ELSE parent[c]]
  /\ state' = [c \in Slot |-> CASE c = q -> "ZOMBIE"
                                [] c = parent[q] /\ state[c] = "SLEEPING" -> "RUNNING"
                                [] OTHER -> state[c]]
  /\ pc' = [pc EXCEPT ![q] = "none"]
  /\ cmd' = [cmd EXCEPT ![q] = Null]
  /\ pid' = [pid EXCEPT ![q] = 0]
  /\ p' = [p EXCEPT ![q] = <<0, 0>>]
  /\ fd' = [fd EXCEPT ![q] = 0]
  /\ buf' = [buf EXCEPT ![q] = <<>>]
  /\ UNCHANGED <<data, screen>>

\* fork: the child goes on at at with its parent's descriptors and locals.
fork(q, at, then, c, command) ==
  /\ state' = [state EXCEPT ![c] = "RUNNING"]
  /\ parent' = [parent EXCEPT ![c] = q]
  /\ fds' = [fds EXCEPT ![c] = fds[q]]
  /\ pc' = [pc EXCEPT ![c] = at, ![q] = then]
  /\ cmd' = [cmd EXCEPT ![c] = command]
  /\ p' = [p EXCEPT ![c] = p[q]]
  /\ pid' = [pid EXCEPT ![q] = c]
  /\ UNCHANGED <<fd, buf, data, screen>>

Children == {c \in Slot : state[c] = "UNUSED"}

\* fork1: a fork that fails ends the process.
fork1(q, at, then, command) ==
  \/ /\ Children # {}
     /\ fork(q, at, then, Least(Children), command)
     /\ UNCHANGED expected
  \/ /\ Children = {} \/ MemoryMayFail
     /\ exit(q)
     /\ expected' = [expected EXCEPT !.exact = FALSE]

\* What wait returns: the first child that exited, -1 without children, and
\* nothing yet while it has to sleep.
Asleep == 0
Waited(q) ==
  LET kids == {c \in Slot : parent[c] = q /\ state[c] # "UNUSED"}
      zombies == {c \in kids : state[c] = "ZOMBIE"}
  IN  IF zombies # {} THEN Least(zombies) ELSE IF kids = {} THEN -1 ELSE Asleep

\* wait, and what the program does then.
wait(q, then) ==
  /\ CASE Waited(q) = Asleep -> state' = [state EXCEPT ![q] = "SLEEPING"] /\ UNCHANGED <<parent, pc, cmd>>
       [] Waited(q) = -1 -> then /\ UNCHANGED proc_vars
       [] OTHER -> /\ state' = [state EXCEPT ![Waited(q)] = "UNUSED"]
                   /\ parent' = [parent EXCEPT ![Waited(q)] = 0]
                   /\ then
  /\ UNCHANGED <<fds, data, screen, locals, user>>

\* close: argfd refuses a descriptor that is not open.
close(q, f, next) ==
  /\ fds' = [fds EXCEPT ![q][f] = None]
  /\ assert(q, fds[q][f] # None, next)
  /\ UNCHANGED <<proc_vars, data, cmd, locals, user, screen>>

\* dup: the lowest descriptor that is free.
dup(q, f, want, next) ==
  /\ fds' = [fds EXCEPT ![q][Least(Free(q))] = fds[q][f]]
  /\ assert(q, fds[q][f] # None /\ Least(Free(q)) = want, next)
  /\ UNCHANGED <<proc_vars, data, cmd, locals, user, screen>>

\* file_open: nothing but the console can be opened for writing.
CanOpen(q, name) == name \in DOMAIN Files /\ Free(q) # {} /\ Unused # {}

file_open(q, name) ==
  LET k == Least(Unused)
  IN  /\ fds' = [fds EXCEPT ![q][Least(Free(q))] = File(k)]
      /\ data' = [data EXCEPT ![k] = Files[name]]

(* ------------------------------- init.c -------------------------------- *)

\* init forks a process for the shell.  When it cannot, it exits.
init_fork == At(init, "init_fork") /\ fork1(init, "exec_sh", "init_wait", Null) /\ UNCHANGED script

\* The child executes the shell: descriptors 0 to 2 are the console already, so
\* the shell opens a fourth and closes it again.  When exec fails, it exits.
exec_sh(q) ==
  /\ At(q, "exec_sh")
  /\ Goto(q, "getcmd") \/ (MemoryMayFail /\ Goto(q, "exec_failed"))
  /\ UNCHANGED <<proc_vars, fds, data, cmd, locals, user, screen>>

exec_failed(q) == At(q, "exec_failed") /\ exit(q) /\ UNCHANGED user

init_wait ==
  /\ At(init, "init_wait")
  /\ wait(init, /\ Goto(init, IF Waited(init) \in {pid[init], -1} THEN "init_fork" ELSE "init_wait")
                /\ UNCHANGED cmd)

(* ------------------------------ sh.c: main ----------------------------- *)

\* getcmd, and the fork for the line it read.
main_fork(q) ==
  /\ At(q, "getcmd")
  /\ script # <<>>
  /\ LET t == Head(script)
     IN  \/ /\ Children # {}
            /\ fork(q, "runcmd", "main_wait", Least(Children), t)
            /\ expected' = IF t.type = "PANIC" THEN expected
                           ELSE [output |-> expected.output \o Meaning(t, <<>>),
                                 exact |-> expected.exact /\ Foreground(t)]
         \/ /\ Children = {} \/ MemoryMayFail
            /\ exit(q)
            /\ UNCHANGED expected
  /\ script' = Tail(script)

main_eof(q) == At(q, "getcmd") /\ script = <<>> /\ exit(q) /\ UNCHANGED user

main_wait(q) ==
  /\ At(q, "main_wait")
  /\ wait(q, assert(q, Waited(q) = pid[q], "getcmd") /\ UNCHANGED cmd)

(* ----------------------------- sh.c: runcmd ---------------------------- *)

\* exec: echo and cat are on the disk, every other program fails.
exec(q) ==
  LET argv == cmd[q].argv
      program == IF argv = <<>> THEN <<>> ELSE argv[1]
  IN  /\ Runs(q, "EXEC")
      /\ \/ /\ program = <<"e">>
            /\ Goto(q, "echo")
            /\ buf' = [buf EXCEPT ![q] = Flat(Tail(argv))]
            /\ UNCHANGED <<proc_vars, fds, cmd, pid, p, fd, expected>>
         \/ /\ program = <<"c">>
            /\ Goto(q, IF Len(argv) = 1 THEN "cat_read" ELSE "cat_open")
            /\ cmd' = [cmd EXCEPT ![q] = execcmd(Tail(argv))]
            /\ UNCHANGED <<proc_vars, fds, locals, expected>>
         \/ program \notin {<<"e">>, <<"c">>} /\ exit(q) /\ UNCHANGED expected
         \/ /\ program \in {<<"e">>, <<"c">>} /\ MemoryMayFail
            /\ exit(q)
            /\ expected' = [expected EXCEPT !.exact = FALSE]
      /\ UNCHANGED <<data, script, screen>>

redir_close(q) == Runs(q, "REDIR") /\ close(q, cmd[q].fd, "redir_open")

redir_open(q) ==
  /\ At(q, "redir_open")
  /\ IF cmd[q].fd = stdin /\ CanOpen(q, cmd[q].file)
     THEN /\ file_open(q, cmd[q].file)
          /\ cmd' = [cmd EXCEPT ![q] = cmd[q].cmd]
          /\ Goto(q, "runcmd")
          /\ UNCHANGED <<proc_vars, locals, screen>>
     ELSE exit(q)
  /\ UNCHANGED user

list_fork(q) == Runs(q, "LIST") /\ fork1(q, "runcmd", "list_wait", cmd[q].left) /\ UNCHANGED script

list_wait(q) ==
  /\ At(q, "list_wait")
  /\ wait(q, assert(q, Waited(q) = pid[q], "runcmd") /\ cmd' = [cmd EXCEPT ![q] = cmd[q].right])

\* pipe: the write end gets the lower of the two lowest free descriptors.
pipe(q) ==
  LET w == Least(Free(q))
      r == Least(Free(q) \ {w})
      k == Least(Unused)
  IN  /\ Runs(q, "PIPE")
      /\ \/ /\ Cardinality(Free(q)) >= 2 /\ Unused # {}
            /\ fds' = [fds EXCEPT ![q][r] = ReadEnd(k), ![q][w] = WriteEnd(k)]
            /\ data' = [data EXCEPT ![k] = <<>>]
            /\ p' = [p EXCEPT ![q] = <<r, w>>]
            /\ Goto(q, "fork_left")
            /\ UNCHANGED <<proc_vars, cmd, pid, fd, buf, expected, screen>>
         \/ /\ Cardinality(Free(q)) < 2 \/ Unused = {} \/ MemoryMayFail
            /\ exit(q)
            /\ expected' = [expected EXCEPT !.exact = FALSE]
      /\ UNCHANGED script

fork_left(q) == At(q, "fork_left") /\ fork1(q, "left_close", "fork_right", cmd[q].left) /\ UNCHANGED script

\* Mutant of left_close: stdout is still open when the pipe's end is duplicated.
left_close_skip(q) ==
  /\ At(q, "left_close")
  /\ Goto(q, "left_dup")
  /\ UNCHANGED <<proc_vars, fds, data, cmd, locals, user, screen>>

left_close(q) == At(q, "left_close") /\ close(q, stdout, "left_dup")
left_dup(q) == At(q, "left_dup") /\ dup(q, p[q][2], stdout, "close_read")

fork_right(q) == At(q, "fork_right") /\ fork1(q, "right_close", "parent_read", cmd[q].right) /\ UNCHANGED script
right_close(q) == At(q, "right_close") /\ close(q, stdin, "right_dup")
right_dup(q) == At(q, "right_dup") /\ dup(q, p[q][1], stdin, "close_read")

\* Both children drop the pipe's own descriptors before they run.
close_read(q) == At(q, "close_read") /\ close(q, p[q][1], "close_write")
close_write(q) == At(q, "close_write") /\ close(q, p[q][2], "runcmd")

parent_read(q) == At(q, "parent_read") /\ close(q, p[q][1], "parent_write")
parent_write(q) == At(q, "parent_write") /\ close(q, p[q][2], "pipe_wait1")

\* Mutant of pipe_wait1: the pipeline's parent waits for one child.
pipe_wait1_only(q) ==
  /\ At(q, "pipe_wait1")
  /\ wait(q, assert(q, Waited(q) > 0, "exit") /\ UNCHANGED cmd)

pipe_wait1(q) ==
  /\ At(q, "pipe_wait1")
  /\ wait(q, assert(q, Waited(q) > 0, "pipe_wait2") /\ UNCHANGED cmd)

pipe_wait2(q) ==
  /\ At(q, "pipe_wait2")
  /\ wait(q, assert(q, Waited(q) > 0, "exit") /\ UNCHANGED cmd)

back_fork(q) == Runs(q, "BACK") /\ fork1(q, "runcmd", "exit", cmd[q].cmd) /\ UNCHANGED script

\* The end of runcmd, and of a child whose line did not parse.
runcmd_exit(q) == (At(q, "exit") \/ Runs(q, "PANIC")) /\ exit(q) /\ UNCHANGED user

(* --------------------------- echo.c and cat.c -------------------------- *)

\* write: one byte of buf to stdout.  A pipe without readers refuses it.
write(q, then, error) ==
  LET d == fds[q][stdout]
      broken == d.kind # "console" /\ ~(d.kind = "write" /\ Held(ReadEnd(d.id)))
  IN  /\ buf[q] # <<>>
      /\ \/ /\ d.kind = "console"
            /\ screen' = Append(screen, Head(buf[q]))
            /\ UNCHANGED data
         \/ /\ d.kind = "write" /\ ~broken
            /\ Len(data[d.id]) < PipeSize
            /\ data' = [data EXCEPT ![d.id] = Append(@, Head(buf[q]))]
            /\ UNCHANGED screen
         \/ broken /\ UNCHANGED <<data, screen>>
      /\ buf' = [buf EXCEPT ![q] = Tail(buf[q])]
      /\ Goto(q, IF broken THEN error ELSE then)
      /\ UNCHANGED <<proc_vars, fds, cmd, pid, p, fd, user>>

echo(q) ==
  \/ At(q, "echo") /\ write(q, "echo", "echo")
  \/ At(q, "echo") /\ buf[q] = <<>> /\ exit(q) /\ UNCHANGED user

cat_open(q) ==
  /\ At(q, "cat_open")
  /\ IF cmd[q].argv # <<>> /\ CanOpen(q, cmd[q].argv[1])
     THEN /\ file_open(q, cmd[q].argv[1])
          /\ fd' = [fd EXCEPT ![q] = Least(Free(q))]
          /\ cmd' = [cmd EXCEPT ![q] = execcmd(Tail(cmd[q].argv))]
          /\ Goto(q, "cat_read")
          /\ UNCHANGED <<proc_vars, pid, p, buf, screen>>
     ELSE exit(q)
  /\ UNCHANGED user

\* Mutant of cat_read: a read of no bytes is tried again.
cat_read_again(q) ==
  LET d == fds[q][fd[q]]
      got == IF d.kind \in {"read", "file"} THEN data[d.id] ELSE <<>>
  IN  /\ At(q, "cat_read")
      /\ \/ /\ got # <<>>
            /\ data' = [data EXCEPT ![d.id] = <<>>]
            /\ buf' = [buf EXCEPT ![q] = got]
            /\ Goto(q, "cat_write")
            /\ UNCHANGED <<proc_vars, fds, cmd, pid, p, fd, screen>>
         \/ got = <<>> /\ UNCHANGED <<proc_vars, fds, data, pc, cmd, locals, screen>>
      /\ UNCHANGED user

\* read: what the pipe or file holds.  Nothing, and no writer left, is the
\* end; on the console the user types ^D.
cat_read(q) ==
  LET d == fds[q][fd[q]]
      got == IF d.kind \in {"read", "file"} THEN data[d.id] ELSE <<>>
      eof == got = <<>> /\ (d.kind = "read" => ~Held(WriteEnd(d.id)))
  IN  /\ At(q, "cat_read")
      /\ \/ /\ got # <<>>
            /\ data' = [data EXCEPT ![d.id] = <<>>]
            /\ buf' = [buf EXCEPT ![q] = got]
            /\ Goto(q, "cat_write")
            /\ UNCHANGED <<proc_vars, fds, cmd, pid, p, fd, screen>>
         \/ /\ eof /\ fd[q] = stdin
            /\ exit(q)
         \/ /\ eof /\ fd[q] # stdin
            /\ fds' = [fds EXCEPT ![q][fd[q]] = None]
            /\ Goto(q, "cat_open")
            /\ UNCHANGED <<proc_vars, data, cmd, locals, screen>>
      /\ UNCHANGED user

cat_write(q) ==
  /\ At(q, "cat_write")
  /\ write(q, IF Len(buf[q]) = 1 THEN "cat_read" ELSE "cat_write", "exit")

(* ----------------------------------------------------------------------- *)

sh(q) ==
  \/ exec_sh(q) \/ exec_failed(q) \/ main_fork(q) \/ main_eof(q) \/ main_wait(q)
  \/ exec(q) \/ redir_close(q) \/ redir_open(q) \/ list_fork(q) \/ list_wait(q)
  \/ pipe(q) \/ fork_left(q) \/ left_close(q) \/ left_dup(q)
  \/ fork_right(q) \/ right_close(q) \/ right_dup(q)
  \/ close_read(q) \/ close_write(q) \/ parent_read(q) \/ parent_write(q)
  \/ pipe_wait1(q) \/ pipe_wait2(q) \/ back_fork(q) \/ runcmd_exit(q)
  \/ echo(q) \/ cat_open(q) \/ cat_read(q) \/ cat_write(q)

\* init exited, and everybody else.
Halted == (\A q \in Slot : state[q] \in {"UNUSED", "ZOMBIE"}) /\ UNCHANGED vars

Next == init_fork \/ init_wait \/ (\E q \in Slot : sh(q)) \/ Halted

Spec == Init /\ [][Next]_vars

\* The scheduler runs every runnable process (RunnableRuns of module Proc).
Fairness == WF_vars(init_fork \/ init_wait) /\ \A q \in Slot : WF_vars(sh(q))
FairSpec == Spec /\ Fairness

(* ----------------------------- properties ------------------------------ *)

\* No assert of sh.c fails: each close finds its descriptor open, each dup
\* lands on the descriptor just closed, and each wait returns the child it
\* is for, whatever the order in which processes exit and fork fails.
AssertsHold == \A q \in Slot : pc[q] # "assert"

\* When the shell prompts again, the console shows what the lines mean: no
\* byte of a pipeline or list is lost, repeated or out of order, and the
\* whole pipeline has ended.
OutputComplete ==
  (expected.exact /\ \E q \in Slot : pc[q] = "getcmd") => screen = expected.output

\* Every line is followed by the next prompt: no process waits for ever on a
\* pipe whose other end some process forgot to close, or for a lost child.  The
\* prompt stays away only if init exited, as its fork failed, or if exec fails
\* for one shell after the other.
PromptReturns ==
  []<>(\/ \E q \in Slot : pc[q] \in {"getcmd", "exec_failed"}
       \/ state[init] = "ZOMBIE")
=============================================================================
