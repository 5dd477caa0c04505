----------------------------- MODULE UserImage -----------------------------
(***************************************************************************)
(* What exec builds (kernel/exec.c, kernel/vspace.c): the address space of *)
(* a new program from its ELF file, and the arguments on its stack.        *)
(*                                                                         *)
(* An address space is its three regions, each with its page descriptors   *)
(* by index, and the page table that vspaceupdate makes of them.  A byte   *)
(* is any value; a pointer is held in the first of its PTR bytes.  -1, a   *)
(* failed assert and a loop without end are results of their own.  kalloc  *)
(* finds its pages here; CowMem has the runs where it does not.  Sections  *)
(* come in the order of their addresses, as the linker writes them.        *)
(***************************************************************************)
EXTENDS Integers, Sequences, FiniteSets

CONSTANTS PGSIZE, KERNBASE, StackTop, PTR

VR_CODE == 1
VR_HEAP == 2
VR_USTACK == 3
FAIL == [result |-> "-1"]
PANIC == [result |-> "assert"]
LOOP == [result |-> "loop"]
Ok(x) == "result" \notin DOMAIN x

PGROUNDUP(a) == ((a + PGSIZE - 1) \div PGSIZE) * PGSIZE
PGROUNDDOWN(a) == (a \div PGSIZE) * PGSIZE
Lesser(a, b) == IF a < b THEN a ELSE b
ZeroPage == [o \in 0 .. PGSIZE - 1 |-> 0]
NoPages == [i \in {} |-> 0]

Region(up) == [up |-> up, base |-> 0, size |-> 0, pages |-> NoPages]
vspaceinit == [regions |-> <<Region(TRUE), Region(TRUE), Region(FALSE)>>, pgtbl |-> NoPages]

VRTOP(r) == IF r.up THEN r.base + r.size ELSE r.base
VRBOT(r) == IF r.up THEN r.base ELSE r.base - r.size

va2vpi_idx(r, va) == IF r.up THEN (va - r.base) \div PGSIZE ELSE (r.base - 1 - va) \div PGSIZE

Contains(r, va) == va >= VRBOT(r) /\ va < VRTOP(r)
\* The first region that va is in, 0 if none.
va2vregion(vs, va) ==
  LET in == {k \in 1 .. 3 : Contains(vs.regions[k], va)}
  IN  IF in = {} THEN 0 ELSE CHOOSE k \in in : \A j \in in : k <= j

\* Zeroed pages for [from, from + sz) in region k; none of them may be in use.
vregionaddmap(vs, k, from, sz, writable) ==
  LET r == vs.regions[k]
      starts == {a \in PGROUNDUP(from) .. from + sz - 1 : a % PGSIZE = 0}
      new == {va2vpi_idx(r, a) : a \in starts}
  IN  IF from + sz >= KERNBASE THEN FAIL
      ELSE IF new \cap DOMAIN r.pages # {} THEN PANIC
      ELSE [vs EXCEPT !.regions[k].pages = [i \in DOMAIN r.pages \cup new |->
              IF i \in new THEN [data |-> ZeroPage, writable |-> writable] ELSE r.pages[i]]]

\* readi from the file, page by page; a short read fails.
RECURSIVE vrloaddata(_, _, _, _, _, _)
vrloaddata(vs, k, va, file, off, sz) ==
  LET n == Lesser(sz, PGSIZE)
      i == va2vpi_idx(vs.regions[k], va)
      data == [o \in 0 .. PGSIZE - 1 |-> IF o < n THEN file[off + o + 1] ELSE vs.regions[k].pages[i].data[o]]
  IN  IF sz <= 0 THEN vs
      ELSE IF i \notin DOMAIN vs.regions[k].pages THEN PANIC
      ELSE IF off + n > Len(file) THEN FAIL
      ELSE vrloaddata([vs EXCEPT !.regions[k].pages[i].data = data], k, va + PGSIZE, file, off + PGSIZE, sz - PGSIZE)

\* Mutant of LoadSection: the section's pages get the size of its file part.
LoadSection_file(vs, first, ph, file) ==
  LET vs1 == IF first THEN [vs EXCEPT !.regions[VR_CODE].base = PGROUNDDOWN(ph.vaddr)] ELSE vs
      vs2 == vregionaddmap(vs1, VR_CODE, ph.vaddr, ph.filesz, ph.write)
  IN  IF ph.memsz < ph.filesz THEN FAIL
      ELSE IF ~Ok(vs2) THEN vs2
      ELSE IF ph.vaddr % PGSIZE # 0 THEN FAIL
      ELSE vrloaddata(vs2, VR_CODE, ph.vaddr, file, ph.off, ph.filesz)

\* One program header of type LOAD.
LoadSection(vs, first, ph, file) ==
  LET vs1 == IF first THEN [vs EXCEPT !.regions[VR_CODE].base = PGROUNDDOWN(ph.vaddr)] ELSE vs
      vs2 == vregionaddmap(vs1, VR_CODE, ph.vaddr, ph.memsz, ph.write)
  IN  IF ph.memsz < ph.filesz THEN FAIL
      ELSE IF ~Ok(vs2) THEN vs2
      ELSE IF ph.vaddr % PGSIZE # 0 THEN FAIL
      ELSE vrloaddata(vs2, VR_CODE, ph.vaddr, file, ph.off, ph.filesz)

\* The loop over the program headers, and the regions set after it.  The size
\* of the last section is the result, and exec takes 0 for a failure.
RECURSIVE Load(_, _, _, _, _, _)
Load(vs, first, end, sz, phs, file) ==
  IF ~Ok(vs) THEN vs
  ELSE IF phs # <<>>
  THEN LET ph == Head(phs)
       IN  IF ~ph.load THEN Load(vs, first, end, sz, Tail(phs), file)
           ELSE Load(LoadSection(vs, first, ph, file), FALSE, ph.vaddr + ph.memsz, ph.memsz, Tail(phs), file)
  ELSE IF first THEN PANIC
  ELSE IF sz = 0 THEN FAIL
  ELSE [vs EXCEPT !.regions[VR_CODE].size = end - vs.regions[VR_CODE].base,
                  !.regions[VR_HEAP].base = PGROUNDUP(end) + PGSIZE]

vspaceloadcode(vs, elf) == IF ~elf.magic THEN FAIL ELSE Load(vs, TRUE, 0, 0, elf.phs, elf.file)

vspaceinitstack(vs, start) ==
  vregionaddmap([vs EXCEPT !.regions[VR_USTACK].base = start, !.regions[VR_USTACK].size = PGSIZE],
                VR_USTACK, start - PGSIZE, PGSIZE, TRUE)

\* The page table: one entry for every page in use between bottom and top.
vspaceupdate(vs) ==
  LET Pages(r) == {a \in VRBOT(r) .. VRTOP(r) - 1 :
                     (a - VRBOT(r)) % PGSIZE = 0 /\ va2vpi_idx(r, a) \in DOMAIN r.pages}
      mapped == UNION {Pages(vs.regions[k]) : k \in 1 .. 3}
  IN  [vs EXCEPT !.pgtbl = [n \in {a \div PGSIZE : a \in mapped} |->
         LET k == CHOOSE j \in 1 .. 3 : n * PGSIZE \in Pages(vs.regions[j])
         IN  [region |-> k, index |-> va2vpi_idx(vs.regions[k], n * PGSIZE)]]]

\* The loop of vspacewritetova.  At the first byte of a page PGROUNDUP(va) - va
\* is 0: nothing is written and va does not move.
RECURSIVE vspacewritetova(_, _, _)
vspacewritetova(vs, va, data) ==
  LET wsz == Lesser(PGROUNDUP(va) - va, Len(data))
      k == va2vregion(vs, va)
      i == va2vpi_idx(vs.regions[k], va)
      page == [o \in 0 .. PGSIZE - 1 |->
                 IF o \in va % PGSIZE .. (va % PGSIZE) + wsz - 1 THEN data[o - (va % PGSIZE) + 1]
                 ELSE vs.regions[k].pages[i].data[o]]
  IN  IF ~Ok(vs) \/ data = <<>> THEN vs
      ELSE IF k = 0 THEN FAIL
      ELSE IF i \notin DOMAIN vs.regions[k].pages THEN PANIC
      ELSE IF ~vs.regions[k].pages[i].writable THEN FAIL
      ELSE IF wsz = 0 THEN LOOP
      ELSE vspacewritetova([vs EXCEPT !.regions[k].pages[i].data = page], va + wsz, SubSeq(data, wsz + 1, Len(data)))

Pointer(a) == <<a>> \o [i \in 1 .. PTR - 1 |-> 0]

\* The strings of argv, the first one highest.
RECURSIVE PushStrings(_, _, _, _)
PushStrings(vs, sp, argv, addrs) ==
  IF ~Ok(vs) \/ argv = <<>> THEN [vs |-> vs, sp |-> sp, addrs |-> addrs]
  ELSE LET str == Append(Head(argv), 0)
           at == sp - Len(str)
       IN  PushStrings(vspacewritetova(vs, at, str), at, Tail(argv), Append(addrs, at))

\* The pointers to them, upwards from sp, and a NULL.
RECURSIVE PushPointers(_, _, _)
PushPointers(vs, sp, addrs) ==
  IF ~Ok(vs) THEN vs
  ELSE IF addrs = <<>> THEN vspacewritetova(vs, sp, Pointer(0))
  ELSE PushPointers(vspacewritetova(vs, sp, Pointer(Head(addrs))), sp + PTR, Tail(addrs))

\* The new address space and registers of the process, or why there are none.
exec(elf, argv) ==
  LET loaded == vspaceloadcode(vspaceinit, elf)
      stack == vspaceinitstack(loaded, StackTop)
      s == PushStrings(vspaceupdate(stack), StackTop, argv, <<>>)
      sp == (s.sp - (s.sp % PTR)) - PTR * (Len(argv) + 1)
      vs == PushPointers(s.vs, sp, s.addrs)
  IN  IF ~Ok(loaded) THEN loaded ELSE IF ~Ok(stack) THEN stack ELSE IF ~Ok(vs) THEN vs
      ELSE [vs |-> vs, rip |-> elf.entry, rdi |-> Len(argv), rsi |-> sp, rsp |-> sp - PTR]

(* ----------------------------- properties ------------------------------ *)

Mapped(vs, va) == va \div PGSIZE \in DOMAIN vs.pgtbl
PageAt(vs, va) == LET e == vs.pgtbl[va \div PGSIZE] IN vs.regions[e.region].pages[e.index]
Byte(vs, va) == PageAt(vs, va).data[va % PGSIZE]

\* A program finds itself in memory: through the page table, each section has
\* the bytes of the file and zeroes after them, with the section's permission;
\* code, heap and stack are apart, with a page that is not mapped before the
\* heap.
SectionsLoaded(elf, argv) ==
  LET x == exec(elf, argv)
      vs == x.vs
  IN  Ok(x) =>
      /\ \A k \in DOMAIN elf.phs : LET ph == elf.phs[k] IN
           ph.load => \A o \in 0 .. ph.memsz - 1 :
             /\ Mapped(vs, ph.vaddr + o)
             /\ Byte(vs, ph.vaddr + o) = IF o < ph.filesz THEN elf.file[ph.off + o + 1] ELSE 0
             /\ PageAt(vs, ph.vaddr + o).writable = ph.write
      /\ LET heap == vs.regions[VR_HEAP] IN
           /\ heap.base % PGSIZE = 0 /\ heap.size = 0 /\ ~Mapped(vs, heap.base - 1)
           /\ VRTOP(vs.regions[VR_CODE]) < heap.base /\ heap.base < VRBOT(vs.regions[VR_USTACK])

\* The string at an address of the new program.
RECURSIVE StringAt(_, _)
StringAt(vs, va) == IF Byte(vs, va) = 0 THEN <<>> ELSE <<Byte(vs, va)>> \o StringAt(vs, va + 1)

\* Bytes of stack that the arguments take, alignment included.
RECURSIVE StringBytes(_)
StringBytes(argv) == IF argv = <<>> THEN 0 ELSE Len(Head(argv)) + 1 + StringBytes(Tail(argv))
StackBytes(argv) == LET n == StringBytes(argv) IN n + ((PTR - (n % PTR)) % PTR) + PTR * (Len(argv) + 1)

\* The new program gets argc and argv: the pointers lead to the strings, in
\* order and NULL-terminated, none overwritten by another.  exec succeeds
\* whenever they leave a byte of the stack's page free, and never when they do
\* not fit.
ArgumentsDelivered(elf, argv) ==
  LET x == exec(elf, argv)
      vs == x.vs
  IN  Ok(vspaceloadcode(vspaceinit, elf)) =>
      /\ StackBytes(argv) < PGSIZE => Ok(x)
      /\ StackBytes(argv) > PGSIZE => ~Ok(x)
      /\ Ok(x) =>
           /\ x.rdi = Len(argv) /\ x.rsp = x.rsi - PTR
           /\ \A i \in DOMAIN argv : StringAt(vs, Byte(vs, x.rsi + PTR * (i - 1))) = argv[i]
           /\ Byte(vs, x.rsi + PTR * Len(argv)) = 0
=============================================================================
