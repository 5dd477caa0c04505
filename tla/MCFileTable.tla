---------------------------- MODULE MCFileTable ----------------------------
(***************************************************************************)
(* What a process has: FileTable for TLC, the heap of a program, and the   *)
(* programs that exec loads.                                               *)
(***************************************************************************)
EXTENDS FileTable, Sequences

-----------------------------------------------------------------------------
(* The heap of one program.  It shares nothing with the open files, so a    *)
(* behaviour is that of the one or of the other, from its first step.       *)

VARIABLES heap, owned
Heap == INSTANCE UserHeap WITH MaxHeap <- 12, PageUnits <- 4, MinUnits <- 4,
                               Request <- {1, 2, 4}, Brk <- {0, 1, 3}

NoHeap == heap.freep = Heap!Nil /\ heap.brk = 0
NoCall == opens = 0 /\ pc[FirstProc] = "user" /\ \A p \in Proc \ {FirstProc} : pc[p] = "unused"

MCInit == Init /\ Heap!Init
MCNext == (NoHeap /\ Next /\ UNCHANGED <<heap, owned>>) \/ (NoCall /\ Heap!Next /\ UNCHANGED vars)
MCSpec == MCInit /\ [][MCNext]_<<vars, heap, owned>>

\* A block keeps its size and what the program wrote in it until it is freed.
BlocksKept == Heap!BlocksKept

\* The free list of malloc and free is in order, joined and disjoint.
FreeListSound == Heap!FreeListSound

\* What lies below the break is mapped, and sbrk adds no page twice.
HeapMapped == Heap!HeapMapped

-----------------------------------------------------------------------------
(* Programs for exec, on pages of 8 bytes, and of 16 for several arguments. *)

Image == INSTANCE UserImage WITH PGSIZE <- 8, KERNBASE <- 200, StackTop <- 80, PTR <- 2
Stack == INSTANCE UserImage WITH PGSIZE <- 16, KERNBASE <- 200, StackTop <- 96, PTR <- 2

ElfBytes == [i \in 1 .. 24 |-> 100 + i]
Section(load, vaddr, filesz, memsz, off, write) ==
  [load |-> load, vaddr |-> vaddr, filesz |-> filesz, memsz |-> memsz, off |-> off, write |-> write]
\* One or two sections, on pages of their own or on the same page, after a
\* header that is not to be loaded; some read past the end of the file.
Elfs ==
  {[magic |-> TRUE, entry |-> 16, file |-> ElfBytes,
    phs |-> <<Section(TRUE, 16, f1, m1, 3, FALSE), Section(FALSE, 0, 0, 0, 0, FALSE),
              Section(l, v, f2, m2, 9, TRUE)>>] :
     l \in BOOLEAN, f1 \in {0, 8, 9}, m1 \in {8, 11}, v \in {24, 29, 32}, f2 \in {0, 7, 16, 17}, m2 \in {0, 8, 17}}
Strings == {<<>>, <<1>>, <<2, 3, 4>>, <<5, 6, 7, 8, 9, 1, 2>>}
ArgLists == UNION {[1 .. k -> Strings] : k \in 0 .. 3}
Program == [magic |-> TRUE, entry |-> 16, file |-> ElfBytes, phs |-> <<Section(TRUE, 16, 5, 11, 3, FALSE)>>]

AllLoad ==
  /\ \A elf \in Elfs : Image!SectionsLoaded(elf, <<>>)
  /\ \A argv \in ArgLists : Stack!ArgumentsDelivered(Program, argv)

\* A formula without variables: its value is the same at every step, and TLC
\* evaluates it for one of the first.
Starting == NoHeap /\ NoCall /\ opens' = 1

\* The programs of Elfs find their sections in memory, and Program gets the
\* lists of ArgLists: what a program has when it takes its first step.
ProgramImage == [][Starting => AllLoad]_vars
=============================================================================
