# xk: a verification project in TLA+

xk is a small 64-bit teaching kernel in C for one CPU, with a shell and a few
programs on top. This directory holds TLA+ models of the kernel, of its disk
image builder and of the user level, the TLC configurations that check them on
small instances and TLAPS proofs about the process table, the sleep locks, the
pipes, the buffer cache and the spin locks with their interrupts, for instances of
any size.

## The system and its parts

| Part | Code | Shared state | Operations |
| --- | --- | --- | --- |
| process table | `kernel/proc.c` | `ptable.proc`, `nextpid`, the CPU's `proc` | allocproc, fork, exit, wait, kill, sleep, wakeup, yield, scheduler |
| sleep locks | `kernel/sleeplock.c` | `locked`, `pid` | acquiresleep, releasesleep |
| open files | `kernel/file.c`, `kernel/sysfile.c` | `global_files`, each process's `fds` | open, dup, close, read, write, stat, pipe |
| pipes | `kernel/file.c` | the ring and its two ends | pipe_open, pipe_read, pipe_write, pipe_close |
| memory | `kernel/vspace.c`, `kernel/kalloc.c`, `kernel/x86_64vm.c`, `kernel/trap.c`, `kernel/exec.c` | core map, page descriptors, page tables, the CPU's translation | fork, write fault, stack growth, sbrk, exec, exit, wait |
| spin locks, traps, clock | `kernel/spinlock.c`, `kernel/trap.c`, `kernel/trapasm.S`, `kernel/sysproc.c` | the interrupt flag, `ncli`, `intena`, `ticks` | acquire, release, sched's checks, the timer's trap, sys_sleep |
| buffers and disk | `kernel/bio.c`, `kernel/ide.c` | `bcache`, `idequeue` | bread, bwrite, brelse, iderw, ideintr |
| inodes | `kernel/fs.c` | `icache` | iget, iopen, irelease, locki, readi, namex |
| disk image | `mkfs.c`, `kernel/fs.c` | the sectors of the disk | mkfs, readi, dirlookup, balloc, bfree |
| console | `kernel/console.c`, `kernel/kbd.c`, `inc/kbd.h` | the input ring, the cursor, the keyboard's modifiers | consoleintr, consoleread, consolewrite, kbdgetc |
| shell | `user/init.c`, `user/sh.c`, `user/echo.c`, `user/cat.c` | processes and descriptors, through system calls | pipelines, redirections, lists, background commands |
| user library | `user/lib/*.c`, `kernel/string.c`, `user/grep.c` | the program's heap | malloc, free, printf, atoi, string functions, the matcher |

They meet in a few places. A system call runs with interrupts on, so the timer
can take the CPU away wherever no spin lock is held; a critical section of a
spin lock runs with interrupts off and is one step of a model. Sleep locks are
built on `sleep` and `wakeup` of the process table; open files, pipes, inodes
and buffers are built on sleep locks. The timer and the keyboard interrupt
whoever runs, and their handlers take the same spin locks. `fork` and `exit` walk the open files of
a process, and `fork`, `exec`, `exit` and `wait` its memory.

What is hard to test here: wakeups that come between a test and a sleep, slots
and table entries that are used again, counts that several processes change,
error paths half way through, pipelines
whose ends are closed in the wrong order, and writes through a translation that the CPU
still holds. `PROJECT.json` lists these hazards with the line where each bites.

## Modules

| Module | Models |
| --- | --- |
| `SleepWakeup` | the effect of `sleep` and `wakeup1` on a table of processes; used by the modules below |
| `Interrupts` | spin locks, the interrupt flag, the switch between threads, the timer and sys_sleep, an instruction at a time |
| `Proc` | the process table, the scheduler and its one CPU |
| `Mutex`, `SleepLock` | what a sleep lock promises, and acquiresleep and releasesleep as they are |
| `PipeStream`, `Pipe` | a bounded stream of bytes, and the pipe as it is |
| `FileTable` | the table of open files and the descriptors, through open, dup, close, read, pipe, fork and exit |
| `BufCache` | the buffer cache over the disk's queue of requests |
| `InodeCache` | the inode cache and the walk of a path through it |
| `DiskImage` | what mkfs writes and what the kernel reads back; the block allocator |
| `PrivateMem`, `CowMem` | a memory of its own for each process, and copy-on-write over counted frames as it is |
| `UserImage` | the address space and the stack that exec builds |
| `UserHeap` | malloc and free over sbrk and vregionaddmap |
| `LineInput`, `Console`, `Keyboard` | what a reader of the console is promised, the console as it is, and the decoding of key strokes |
| `ShellParser`, `Shell` | the shell's parser; init, the shell, echo and cat over the system calls |
| `Library` | string functions, printing, atoi and grep's matcher |
| `MC*` | instances for TLC |
| `SleepLockProofs`, `ProcProofs`, `PipeProofs`, `BufCacheUsers` with `BufCacheProofs`, `InterruptsCode` and `InterruptsSteps` with `InterruptsProofs` | theorems |

How they compose: `Interrupts` shows that no interrupt and no switch comes
between an acquire and its release (`SectionsAtomic`), which is why the other
modules take a critical section as one step. `Proc` shows that whoever is
RUNNABLE runs (`RunnableRuns`), which is the fairness that the other modules
assume of each process. `SleepLock` implements `Mutex`, so `FileTable`, `Pipe`
and `Console` take the lock of an open file as a mutex, `BufCache` that of a
buffer and `InodeCache` that of an inode. `BufCache` shows that a read returns
what the disk should hold (`LastWriteRead`), and `DiskImage` that this is what
mkfs put there, so in `InodeCache` reading a dinode or a directory gives what the
image has. The references that `InodeCache` counts are those which `FileTable`
takes and gives back per inode. `Pipe` starts from an open pipe, `FileTable`
treats a pipe end as an entry of the table, and `Shell` takes a pipe as the
stream that `Pipe` implements. `Keyboard` feeds `Console`. `UserImage` is what
a program finds when exec has succeeded, and `UserHeap` what it does from there.

Correspondence with the code:

- `Proc`. A slot's columns are the fields of `struct proc`; `pc` says which
  kernel code a process is in, `cursor` is the scheduler's loop variable. A
  call of `sleep` ends a step, and so does the release of `ptable.lock`.
  `fork` is four steps (allocproc's critical section, its failures, the copy
  with the new parent, the end) as it holds no lock. Whether memory is short
  is a choice. User code may call anything in any order, and the first process
  is no exception: `user/init.c:28-31` exits when fork fails, and kill takes any
  pid. A first process that exited stays a ZOMBIE, which nobody reaps, and still
  gets the children of those who exit after it; `ParentAlive` says exactly that.
- `SleepLock`. `acquiresleep` is one step per turn of its loop; a `kill` may
  wake a sleeper at any time.
- `Pipe`. A step runs from one sleep to the next. The lock of the open file
  (one for all readers, one for all writers) is a variable of its own as it is
  held over the sleep of a writer. `sched` panics when a process goes to sleep
  with the pipe's spin lock held, and the machine stops.
- `FileTable`. A scan of the table is one step per lock it takes, and every
  store outside a lock is a step. `stopped` records that the kernel died in
  dup or pipe. `leaked` is a history: the entries left behind by an open without a
  free descriptor, which keep a count of one. Only the reference that an open takes on an inode is kept of
  the file system, and the position of a read.
- `BufCache`. `list` is the doubly linked list from `head.next` on, `idequeue`
  the requests; the head of it is on the disk. `b` is the buffer a process was
  given and `want` the block it asked for. A write reaches the disk when
  `idestart` hands it over, a read reaches the buffer in `ideintr`; a read may
  fail, which leaves the data and marks it valid all the same. `change` is a
  caller that modifies a block, each time to a value that none held before:
  `kernel/bio.c` offers it (bwrite), though the file system of this tree is
  read-only.
- `InodeCache`. `data` says whose extent an entry has loaded, `ret` where
  `locki` goes back to. A process walks a path for `iopen` or for
  `vspaceloadcode`, keeps an open inode, locks it for a read and gives it back.
  A path is a sequence of names, which is what `skipelem` makes of it. `leaked` is
  a history: the references to the root that relative paths do not give back.
- `CowMem`. A frame has the count and the content of the core map; `vpi` are
  the page descriptors, `pte` the page table, `installed` what the CPU may
  still translate with since the last `vspaceinstall`. Pages are numbered, a
  region's layout is left out; the stack grows by one page per fault. A
  program has one or two pages. exec fails when frames run out, and again, with the
  new page table in place, when the arguments do not fit; the first failure loses
  the frames it took and the second gives them back. `lost` marks nothing in the
  code: it counts the frames that no descriptor, page table or running call knows
  any more. Any process may exit or be killed by a fault, the first included.
- `Interrupts`. Each thread (the scheduler's and one per process) has a stack of
  frames, a frame being a piece of kernel code and the next instruction in it. The
  timer pushes a frame whenever the interrupt flag is set. acquire, release,
  pushcli, popcli, sleep, wakeup, sched and the scheduler's loop are lists of
  such instructions, so that the timer comes between any two of them.
- `Console`. `r`, `w` and `e` are the three positions of the ring, as unsigned
  numbers that wrap. The locks of the file and of the inode are variables, held
  over the sleep of a reader. A character arrives from the serial port, or from
  `kbdgetc` with or without the control key down.
- `Keyboard`. The tables are those of `inc/kbd.h`, key by key.
- `Shell`. `pc` is the next system call of a process, a step is that call and the
  code up to the next one. The tree a child runs is what `ShellParser` makes of
  the line. fork, pipe and exec may fail: init exits when its fork does, and a child
  in which exec of the shell, echo or cat fails reports it and exits.
- `DiskImage`. mkfs and the reading side of the file system are functions on a
  disk of sectors; names, sizes and offsets are computed as in the code. balloc,
  bfree and bmark, which have no caller in this tree, are functions on the bitmap
  as the buffers have it: bmark marks its buffer B_DIRTY (`kernel/fs.c:51`) and
  neither balloc nor bfree calls bwrite, so the change is read back from the cache
  and never reaches the disk.
- `UserImage`. exec (with `MCExec`, the caller that collects its arguments) is a function from an ELF file and arguments to an address
  space with registers, to failure, or to a loop without end.
- `UserHeap`. Addresses count in headers (16 bytes). malloc, free and sbrk are
  actions; the ring of free blocks lies in the same memory as the blocks.
- `Library`. Each function is a recursive operator in the shape of its loop.

## Runs

| Run | Instance | Shows |
| --- | --- | --- |
| `proc_table` | 3 slots, 4 pids, 1 channel, memory may be short | pids that name one slot, live parents, no missed exit in wait, only parents reap, RUNNABLE processes run; the first process may exit |
| `orphan_reclaimed` | 4 slots | violated: a zombie handed to a sleeping initproc stays, though initproc goes on forking and waiting |
| `sleep_lock` | 3 processes, 2 locks | the lock is a mutex and acquiresleep returns |
| `pipe` | 2 readers and a writer, or a reader and 2 writers, a ring of 2 bytes | a byte stream with whole writes and a final end of file; reads and writes return; all up to the panic of sched |
| `files_and_heap` | 2 processes, 2 entries, 2 descriptors; 12 units of heap, 4 to a page | counts, descriptors, inodes and positions agree, error paths included; blocks of the heap keep their content, the free list is sound, the heap is mapped; programs find their sections and arguments |
| `cow_memory` | 3 processes, 3 frames, 3 pages, programs of 1 or 2 pages | private memories and exact counts, forks of forks included |
| `buf_disk` | 3 processes, 2 buffers, 3 blocks, 2 writes | users keep their buffer, reads return the last write |
| `inode_cache` | 2 processes, 2 entries, 3 inodes, 4 paths, 1 relative lookup; disks of 20 and 7 sectors | one entry per inode, exact counts, lookups find what the image has, and return when they are finitely many; every image reads back; the block allocator is exact |
| `interrupts` | 2 processes, a counter of 8 ticks that starts at 6 | no panic of the locks or of sched in the code that the module models, atomic critical sections, sleep(2) lasts two ticks through the wrap and returns |
| `console` | 2 processes, a ring of 2 characters, positions that wrap at 4, a screen of 2 by 2 | the console is a line editor, the cursor stays on the screen, calls return; three key events and the key after them decode |
| `shell` | 7 scripts, 7 processes, 6 descriptors, a pipe of 2 bytes; ints of 4 bits | the assertions of sh.c hold, the output is complete, the prompt returns unless init exited; command trees of depth two parse back; the library's functions compute what they should |
| `exec_arguments` | 3 arguments of up to 5 bytes, a stack page of 16 bytes | violated: exec of arguments that fill the stack's page does not end |

What is said of functions alone (`ImageReadsBack`, `ImageAllocator`,
`KeyboardDecodes`, `ParserRoundTrip`, `LibraryCorrect`, `ProgramImage`) has no
variables in it: it is checked for all the inputs that the MC module lists, and
its value is the same in every state. All but `KeyboardDecodes` are stated for the
first steps of their run, so that TLC does not evaluate them again and again. The
scripts of `shell` are given as the trees that the parser makes of the lines, which
`ParserRoundTrip` checks too. The open files and the heap of `files_and_heap` have no
state in common: a behaviour of that run is one of the first or one of the second,
from its first step on.

`NoPanic` is about the calls that `Interrupts` has in it: spin locks, sleep, wakeup,
yield, kill, exit and sys_sleep. Other code can make sched panic: `pipe_read` does,
when it goes to sleep with the pipe's spin lock held (below, and `Pipe`).

Why the bounds are enough. Three slots are the first number with a parent, a
child that becomes an orphan and an initproc, and slots are used again from the
third fork on (pids up to 4). Two locks and three processes give a sleeper per
lock and a sleeper that is overtaken. A ring of two bytes wraps and fills with
writes of three. A table of two entries is full with one pipe, two descriptors
are full with two opens. Three frames run out in the middle of sbrk, in write
faults and in exec, which then may have taken one of its two pages; three sharers are the first chain in which a frame's count
goes from three to one. Two buffers for three
blocks are recycled, queue up at the disk and run out (bget panics); so do two
entries for three inodes, with a walk that holds a directory and what it found
in it. A counter that starts at 6 of 8 wraps during a sleep. A ring of two
characters is full after two keys and its positions wrap twice as late. The
scripts hold a pipeline of three, a list and redirection inside a pipeline, a
missing file, a missing program, a syntax error, and commands in the background
before others. Sizes of files are zero, one, a block, a block and one, and
several blocks, so that tables and extents end on and next to a boundary. Heap
requests fit exactly, leave a rest and join with one or both neighbours. Ints of
4 bits have a least number and an overflow. Processes that are alike are exchanged by symmetry, in runs without
liveness only.

Fairness. `Proc` assumes that the scheduler's loop goes on, that the timer
comes again and that code with interrupts off ends. The modules above it
assume that each process that can take a step takes it, which is what
`RunnableRuns` gives, and that a lock's holder releases it, which the code
does on every path. No module assumes more of a sleep lock: acquiresleep is a loop
in which the woken process can find the lock taken again, so a process that reads a
file for ever can keep another from its inode for ever. `LookupReturns` is
therefore about behaviours in which new lookups and reads end at some point
(`CallsStop`), as `AcquireReturns` of `SleepLock` is about finitely many calls. In `Pipe` readers go on reading or close: a
read that makes room wakes nobody (`lab/lab2-part2-design.md` line 126 expects
a wakeup), and only a reader that finds the pipe empty wakes the writer.
In `Interrupts` the CPU executes instructions, the timer
comes again and again (strong fairness, as it has to meet the flag set), and
between two ticks the interrupted thread gets at least one instruction done. In
`Console` somebody goes on typing newlines: a read returns only when a line ends.
In `Shell` each process that can take a step takes it.
`orphan_reclaimed` adds strong fairness of the steps by which
initproc goes on (`InitGoesOn`: it ends a fork it began, calls wait in a loop, exits when it
was killed) and of exit, so that what it shows is not a system that stops, and an
initproc that became a ZOMBIE counts as an answer.

## Proofs

`SleepLockProofs` proves, for any processes and locks, the type invariant, that
a lock names its holder, that a sleeper waits for a holder, and that
`SleepLock` implements `Mutex`. The inductive invariant adds that a free lock
names nobody: without it the step that takes a lock could not be mapped to the
mutex's.

`ProcProofs` proves, for a table of any size, any pids and any channels, the type
invariant, that the process on the CPU is the only RUNNING one, that the slot a
fork fills is its own, the three invariants of `proc_table`, and that only
parents reap. They are not inductive one by one. What holds them together:

- pids grow: every pid in the table is below `nextpid` (`PidsUsed`), so a new
  one names one slot even among the stale pids of reaped slots;
- a slot that is not a process yet names no parent unless fork just set it
  (`NoStaleParent`, `ChildKnowsParent`): otherwise wait could count a free slot
  as a child and sleep for nobody;
- a process asleep in wait sleeps on its own pid (`WaitsOnOwnPid`), the channel
  that the exit of its child wakes;
- initproc is live or a ZOMBIE (`InitKept`), as it has no parent that could reap it
  (`InitNoParent`): so the slot that takes children is never another process's.

`PipeProofs` proves, for a ring of any size, any number of readers and writers
and calls of any length, that what read and write return is true (`ResultsTrue`)
and that `Pipe` implements `PipeStream`. The inductive invariant says

- that the ring holds what was sent and not received (`Stream`): the bytes from
  `read_offset` on, around the ring, are those after the last one received,
  and `write_offset` is where they end. The steps that move bytes need a little
  arithmetic on remainders (`FromEnd`, `AfterRead`, `EndMoves`);
- who has the lock of each file_info (`LockHeld`), so that one writer at a time is
  between its first byte and its last: `turn` of the stream is that writer;
- that `ref_count` counts the users of each end (`EndsCounted`). A writer that goes
  on is one of them, so `write_open` is true, so nobody has been told of an end of
  file: this is what keeps the second half of `ResultsTrue`.

`BufCacheUsers` and `BufCacheProofs` prove the two invariants of `buf_disk` for any
processes, buffers and blocks. The first half is about who uses a buffer: `refcnt`
counts the processes between bget's count and brelse's, so a buffer that bget
recycles has no user, and no block is in two buffers. The second half follows the
data: what is in a valid buffer, in the disk's queue or on the disk is the last
write, whichever of them a read will see (`LastWriteRead`).

`InterruptsCode`, `InterruptsSteps` and `InterruptsProofs` are about the kernel's
code an instruction at a time, for any number of processes, with the timer between
any two instructions. The invariant annotates the code: for every function and
every place in it, how many pushclis are open and which spin locks are held
(`Depth`, `Section`). `ncli`, `intena`, the flag and the holders of the locks always
agree with the annotation of the thread on the CPU, and the stack of each thread is
one that the calls can make (`Shape`: a handler only on top of code with interrupts
on, `sched` only under yield, sleep and exit). `InterruptsCode` reads the annotation
off the code, `InterruptsSteps` shows that each kind of instruction keeps it, and
`InterruptsProofs` draws the conclusions: no panic (`NoPanic`), atomic critical
sections (`SectionsAtomic`), at most four frames on a stack, and, with a second
invariant on the clock (`ClockInv`, modulo the width of `ticks`), that sleep(n) lasts
n ticks (`SleepsLongEnough`).

The assumptions are those named in the modules: sizes are positive, sets of
processes are finite, the name for nobody is no process, channels are no integers.
What stays with TLC:

- the liveness properties, as fairness is out of the prover's reach;
- `FileTable`, `CowMem` and `InodeCache`, whose invariants count references held by
  several kinds of steps; they are checked on the instances above only;
- `Console`, `Shell` and `UserHeap`, which are built on recursive operators, and what
  recursive definitions compute (`DiskImage`, `UserImage`, `ShellParser`, `Keyboard`,
  `Library`): both need an induction that the prover cannot do.

## Where code and documents differ

Two such places are runs. `orphan_reclaimed` is about `lab/lab2.md:212-214`.
`exec_arguments` is about `vspacewritetova`, which does not advance from an address
on a page boundary (`kernel/vspace.c:621`): exec of arguments that reach exactly to
the first byte of the stack page goes round for ever, while `lab/lab2.md:458` says
"Does not return on success; returns -1 on error". `ProgramImage` is about the
arguments that leave a byte of the page free, and those that do not fit.

The models contain others, because they follow the code. They are described here,
and no run is about them:

- `pipe_read` calls `acquiresleep` with the pipe's spin lock held
  (`kernel/file.c:394`), while `kernel/sleeplock.c:22` says "no spinlocks should
  be held while calling `acquiresleep`". With two readers of one open file sched
  panics: `pipe_read_panic` in `Pipe`.
- `file_dup` without a free descriptor does not return -1 (`kernel/file.c:111`
  tests `fd_index > NOFILE`), while `lab/lab1.md:301` lists "there is no available
  file descriptor" as an error condition: `dup_full` in `FileTable`.
- `file_open` without a free descriptor gives the inode back and leaves the entry of
  the table with a count of one (`kernel/file.c:85-88`), in use for ever, while
  `inc/file.h:51` describes the count as "how many file descriptors point to this":
  `open_fd` in `FileTable`. `RefCountMatches` counts that reference apart.
- `user/init.c:28-31` exits when fork fails, and nothing keeps a process from killing
  it, while `lab/lab2.md:214` says "the init process (`initproc`) never exits" and
  `user/init.c:6` that it starts the shell "ad infinitum". Its ZOMBIE stays, and so
  do those of the children it is given: `exit` in `Proc`, `init_fork` in `Shell`.
- A lookup of a relative path takes two references to the root and gives back one
  (`kernel/fs.c:472`): `namei_relative` in `InodeCache`. `RefsMatchUsers` counts the
  other one apart.
- An exec that runs out of frames loses those it had taken (`kernel/exec.c:27`), as
  `vspacefree` frees what the page table maps, while `kernel/vspace.c:386` says
  "freeing each page that the vspace is using": `exec_fail` in `CowMem`.
- A read that makes room in a pipe wakes nobody, while
  `lab/lab2-part2-design.md:126` says "once the reader finishes it will send a
  wakeup to the writer". Writers still return, as `ReadsAndWritesReturn` shows,
  when readers go on reading or close.
- The user library's `printint64` takes an int (`user/lib/printf.c:8`), so `%ld`
  prints another number when the argument does not fit one. `LibraryCorrect`
  compares it with the kernel's for numbers that fit.
- grep drops what a read returned when it holds no newline (`user/grep.c:27`), and
  never matches a last line without one. `LibraryCorrect` is about files, whose
  reads fill the buffer, with lines that fit it. A pipe or the console may give less
  than asked for: `grep_read` does not model such reads.

## Not modelled

- Boot, interrupt controllers, the serial port's setup, trap vectors and the
  register moves of `swtch`: run once, or touch no state that processes share.
- The checks of system call arguments against regions (`argptr`, `argstr`,
  `fetchstr`) and the table of system calls: they change no state.
- The levels of the page table and the kernel's own mappings: `CowMem` and
  `UserImage` take a page table as a function from pages.
- `vspaceinitcode` with its copy of the first program: `CowMem` starts from its
  result.
- The memory disk of `memide.c`, the controller's ports, and the crash counter of
  `bwrite`.
- `file_stat`, `procdump`, `panic`, `nameiparent` (no caller), `memset`, `memcmp`,
  `gets`, `stat`, and the programs ls, wc and the lab tests. They read state or
  make sequences of calls that the other modules allow in any order.
