------------------------------- MODULE CowMem -------------------------------
(***************************************************************************)
(* Memory of the processes: the page frames of kernel/kalloc.c, the page   *)
(* descriptors of each address space (kernel/vspace.c), the page tables    *)
(* the hardware uses, and the calls that change them: fork with            *)
(* copy-on-write, the write fault (cowcopy, kernel/trap.c), sbrk and the   *)
(* growing stack, exec, and the release of a dead process in wait.         *)
(*                                                                         *)
(* Frames are those of user pages; page tables and descriptors have their  *)
(* own.  kalloc and kfree are atomic (kmem.lock); the write fault runs     *)
(* with interrupts off and wait holds ptable.lock, so each is one step.    *)
(* fork, sbrk and exec can be interrupted between two pages.               *)
(***************************************************************************)
EXTENDS Integers, FiniteSets

CONSTANTS Proc, FirstProc,
          NFrame,            \* page frames
          NPage, NImage,     \* pages of an address space, of the largest program
          Value,             \* contents of a page
          DescriptorsMayFail \* whether fork may find no page for its descriptors

ASSUME FirstProcAssumption == FirstProc \in Proc
ASSUME SizeAssumption == NImage \in 1 .. NPage /\ NPage \in Nat /\ NFrame \in Nat /\ NImage <= NFrame
ASSUME ValueAssumption == Value \subseteq Nat /\ 0 \in Value
ASSUME DescriptorsAssumption == DescriptorsMayFail \in BOOLEAN

VARIABLES
  refcount,    \* core_map, with available as refcount = 0
  data,        \* contents of the frames
  vpi,         \* page descriptors of an address space
  pte,         \* its page table
  installed,   \* that table when it was last loaded: what the TLB may still hold
  pc, at, from, upto, child,
  new, old,    \* exec: frames of the new address space, of the one it frees
  lost         \* history: references given up without kfree

frames == <<refcount, data>>
locals == <<pc, at, from, upto, child, new, old>>
vars == <<frames, vpi, pte, installed, locals, lost>>

Frame == 1 .. NFrame
Page == 1 .. NPage
Junk == -1                                  \* kfree fills the page with 2s
NoFrame == 0
NoFrames == [v \in Page |-> NoFrame]
Unused == [ppn |-> NoFrame, writable |-> FALSE, cow |-> FALSE]

\* The first page of a program is its code, which is not writable.
Descriptor(v, f) == [ppn |-> f, writable |-> v # 1, cow |-> FALSE]

\* Page table for the descriptors d, entry by entry.
x86perms(d) == [ppn |-> d.ppn, writable |-> d.writable]
TableOf(d) == [v \in Page |-> x86perms(d[v])]

\* The first process has its code page.
FirstImage == [v \in Page |-> IF v = 1 THEN Descriptor(v, v) ELSE Unused]

Init ==
  /\ refcount = [f \in Frame |-> IF f = 1 THEN 1 ELSE 0]
  /\ data = [f \in Frame |-> IF f = 1 THEN 0 ELSE Junk]
  /\ vpi = [p \in Proc |-> IF p = FirstProc THEN FirstImage ELSE [v \in Page |-> Unused]]
  /\ pte = [p \in Proc |-> TableOf(vpi[p])]
  /\ installed = pte
  /\ pc = [p \in Proc |-> IF p = FirstProc THEN "user" ELSE "unused"]
  /\ at = [p \in Proc |-> 0]
  /\ from = [p \in Proc |-> 0]
  /\ upto = [p \in Proc |-> 0]
  /\ child = [p \in Proc |-> p]
  /\ new = [p \in Proc |-> NoFrames]
  /\ old = [p \in Proc |-> NoFrames]
  /\ lost = [f \in Frame |-> 0]

At(p, where) == pc[p] = where
Goto(p, where) == pc' = [pc EXCEPT ![p] = where]

(* --------------------------- kalloc and kfree -------------------------- *)

Available == {f \in Frame : refcount[f] = 0}

\* kalloc scans core_map from the start.
kalloc == CHOOSE f \in Available : \A g \in Available : f <= g

\* Counts and contents once each frame of S has been freed once.
kfree_count(count, S) == [f \in Frame |-> IF f \in S /\ count[f] > 0 THEN count[f] - 1 ELSE count[f]]
kfree_data(contents, count, S) == [f \in Frame |-> IF f \in S /\ count[f] <= 1 THEN Junk ELSE contents[f]]

kfree(S) ==
  /\ refcount' = kfree_count(refcount, S)
  /\ data' = kfree_data(data, refcount, S)

increment_refcount(f) == refcount' = [refcount EXCEPT ![f] = @ + 1]

FramesOf(table) == {table[v].ppn : v \in Page} \ {NoFrame}

(* ------------------------ writes and write faults ---------------------- *)

\* What the hardware may take for page v of p.
Translations(p, v) == {pte[p][v], installed[p][v]}

write(p, v, d) ==
  /\ At(p, "user")
  /\ \E e \in Translations(p, v) :
       /\ e.writable
       /\ data' = [data EXCEPT ![e.ppn] = d]
  /\ UNCHANGED <<refcount, vpi, pte, installed, locals, lost>>

\* A write to a page that is present and not writable.
WriteFault(p, v) ==
  /\ At(p, "user")
  /\ \E e \in Translations(p, v) : e.ppn # NoFrame /\ ~e.writable

\* vspaceupdate rebuilds the table of p from its descriptors.
vspaceupdate(p) == pte' = [pte EXCEPT ![p] = TableOf(vpi'[p])]

\* vspaceupdate, then vspaceinstall, which empties the TLB.
UpdateAndInstall(p) ==
  /\ vspaceupdate(p)
  /\ installed' = [installed EXCEPT ![p] = TableOf(vpi'[p])]

cowcopy(p, v) ==
  LET was == vpi[p][v].ppn IN
  /\ WriteFault(p, v)
  /\ vpi[p][v].cow /\ Available # {}
  /\ refcount' = kfree_count([refcount EXCEPT ![kalloc] = 1], {was})
  /\ data' = kfree_data([data EXCEPT ![kalloc] = data[was]], refcount, {was})
  /\ vpi' = [vpi EXCEPT ![p][v] = [ppn |-> kalloc, writable |-> TRUE, cow |-> FALSE]]
  /\ UpdateAndInstall(p)
  /\ UNCHANGED <<locals, lost>>

\* cowcopy returned -1: the process is killed, and exits.
fault_kill(p, v) ==
  /\ WriteFault(p, v)
  /\ ~vpi[p][v].cow \/ Available = {}
  /\ Goto(p, "zombie")
  /\ UNCHANGED <<frames, vpi, pte, installed, at, from, upto, child, new, old, lost>>

(* --------------------------------- fork -------------------------------- *)

fork(p) ==
  /\ At(p, "user")
  /\ \E q \in Proc :
       /\ pc[q] = "unused"
       /\ pc' = [pc EXCEPT ![p] = "fork", ![q] = "embryo"]
       /\ child' = [child EXCEPT ![p] = q]
  /\ at' = [at EXCEPT ![p] = 1]
  /\ UNCHANGED <<frames, vpi, pte, installed, from, upto, new, old, lost>>

\* Mutant of SharedDescriptor: a page that is copy-on-write already loses its mark.
SharedDescriptor_once(d) == [d EXCEPT !.writable = FALSE, !.cow = d.writable]

\* shallow_copy_vpi_page, one descriptor: both sides become read-only, marked
\* copy-on-write if the page was writable or so marked already.
SharedDescriptor(d) == [d EXCEPT !.writable = FALSE, !.cow = d.writable \/ d.cow]

\* Mutant of shallow_copy: increment_refcount is not called.
shallow_copy_uncounted(p) ==
  LET v == at[p]
      d == vpi[p][v] IN
  /\ At(p, "fork") /\ v \in Page
  /\ vpi' = IF d.ppn = NoFrame THEN vpi
            ELSE [vpi EXCEPT ![p][v] = SharedDescriptor(d), ![child[p]][v] = SharedDescriptor(d)]
  /\ at' = [at EXCEPT ![p] = v + 1]
  /\ UNCHANGED <<frames, pte, installed, pc, from, upto, child, new, old, lost>>

shallow_copy(p) ==
  LET v == at[p]
      d == vpi[p][v] IN
  /\ At(p, "fork") /\ v \in Page
  /\ \/ /\ d.ppn # NoFrame
        /\ vpi' = [vpi EXCEPT ![p][v] = SharedDescriptor(d), ![child[p]][v] = SharedDescriptor(d)]
        /\ increment_refcount(d.ppn)
     \/ /\ d.ppn = NoFrame
        /\ UNCHANGED <<vpi, refcount>>
  /\ at' = [at EXCEPT ![p] = v + 1]
  /\ UNCHANGED <<data, pte, installed, pc, from, upto, child, new, old, lost>>

\* No page for the descriptors of a region: fork returns -1, and the child
\* stays an EMBRYO with what it has got.
fork_fail(p) ==
  /\ DescriptorsMayFail
  /\ At(p, "fork") /\ at[p] \in Page
  /\ pc' = [pc EXCEPT ![p] = "user"]
  /\ child' = [child EXCEPT ![p] = p]
  /\ at' = [at EXCEPT ![p] = 0]
  /\ UNCHANGED <<frames, vpi, pte, installed, from, upto, new, old, lost>>

\* Both tables are rebuilt and the parent's is installed.
fork_run(p) ==
  LET q == child[p] IN
  /\ At(p, "fork") /\ at[p] > NPage
  /\ pte' = [pte EXCEPT ![p] = TableOf(vpi[p]), ![q] = TableOf(vpi[q])]
  /\ installed' = [installed EXCEPT ![p] = TableOf(vpi[p]), ![q] = TableOf(vpi[q])]
  /\ pc' = [pc EXCEPT ![p] = "user", ![q] = "user"]
  /\ child' = [child EXCEPT ![p] = p]
  /\ at' = [at EXCEPT ![p] = 0]
  /\ UNCHANGED <<frames, vpi, from, upto, new, old, lost>>

(* ----------------------------- exit and wait --------------------------- *)

\* exit, called by the process or by trap after a fault that no page can serve.
exit(p) ==
  /\ At(p, "user")
  /\ Goto(p, "zombie")
  /\ UNCHANGED <<frames, vpi, pte, installed, at, from, upto, child, new, old, lost>>

\* Another process waits for p: vspacefree frees what the page table of p maps.
\* The first process has no parent, and stays a ZOMBIE.
wait(p) ==
  /\ At(p, "zombie") /\ p # FirstProc
  /\ \E q \in Proc : At(q, "user")
  /\ kfree(FramesOf(pte[p]))
  /\ vpi' = [vpi EXCEPT ![p] = [v \in Page |-> Unused]]
  /\ UpdateAndInstall(p)
  /\ Goto(p, "unused")
  /\ UNCHANGED <<at, from, upto, child, new, old, lost>>

(* ----------------------- sbrk and the growing stack -------------------- *)

\* vregionaddmap for the pages at .. upto, none of which is used yet.
sbrk(p) ==
  LET used == {v \in Page : vpi[p][v].ppn # NoFrame} IN
  /\ At(p, "user")
  /\ \E k \in 1 .. NPage - Cardinality(used) :
       upto' = [upto EXCEPT ![p] = Cardinality(used) + k]
  /\ from' = [from EXCEPT ![p] = Cardinality(used) + 1]
  /\ at' = [at EXCEPT ![p] = Cardinality(used) + 1]
  /\ Goto(p, "addmap")
  /\ UNCHANGED <<frames, vpi, pte, installed, child, new, old, lost>>

addmap(p) ==
  /\ At(p, "addmap") /\ at[p] <= upto[p] /\ Available # {}
  /\ refcount' = [refcount EXCEPT ![kalloc] = 1]
  /\ data' = [data EXCEPT ![kalloc] = 0]
  /\ vpi' = [vpi EXCEPT ![p][at[p]] = [ppn |-> kalloc, writable |-> TRUE, cow |-> FALSE]]
  /\ at' = [at EXCEPT ![p] = @ + 1]
  /\ UNCHANGED <<pte, installed, pc, from, upto, child, new, old, lost>>

\* addmap_failure: the pages added so far are given back, the last one first.
addmap_failure(p) ==
  /\ At(p, "addmap") /\ at[p] <= upto[p] /\ Available = {}
  /\ Goto(p, "undo")
  /\ UNCHANGED <<frames, vpi, pte, installed, at, from, upto, child, new, old, lost>>

undo(p) ==
  LET v == at[p] - 1 IN
  /\ At(p, "undo")
  /\ \/ /\ v >= from[p]
        /\ kfree({vpi[p][v].ppn})
        /\ vpi' = [vpi EXCEPT ![p][v] = Unused]
        /\ at' = [at EXCEPT ![p] = v]
        /\ UNCHANGED <<pc, from, upto>>
     \/ /\ v < from[p]
        /\ Goto(p, "user")
        /\ at' = [at EXCEPT ![p] = 0]
        /\ from' = [from EXCEPT ![p] = 0]
        /\ upto' = [upto EXCEPT ![p] = 0]
        /\ UNCHANGED <<frames, vpi>>
  /\ UNCHANGED <<pte, installed, child, new, old, lost>>

\* vspaceupdate, without vspaceinstall.
addmap_done(p) ==
  /\ At(p, "addmap") /\ at[p] > upto[p]
  /\ pte' = [pte EXCEPT ![p] = TableOf(vpi[p])]
  /\ Goto(p, "user")
  /\ at' = [at EXCEPT ![p] = 0]
  /\ from' = [from EXCEPT ![p] = 0]
  /\ upto' = [upto EXCEPT ![p] = 0]
  /\ UNCHANGED <<frames, vpi, installed, child, new, old, lost>>

\* A fault on an absent page below the stack: one page is added in one step, as
\* interrupts are off, and the table is rebuilt, not installed.
growstack(p) ==
  LET v == Cardinality({u \in Page : vpi[p][u].ppn # NoFrame}) + 1 IN
  /\ At(p, "user") /\ v \in Page /\ Available # {}
  /\ refcount' = [refcount EXCEPT ![kalloc] = 1]
  /\ data' = [data EXCEPT ![kalloc] = 0]
  /\ vpi' = [vpi EXCEPT ![p][v] = [ppn |-> kalloc, writable |-> TRUE, cow |-> FALSE]]
  /\ vspaceupdate(p)
  /\ UNCHANGED <<installed, locals, lost>>

(* --------------------------------- exec -------------------------------- *)

\* exec of a program of upto pages.
exec(p) ==
  /\ At(p, "user")
  /\ \E n \in 1 .. NImage : upto' = [upto EXCEPT ![p] = n]
  /\ at' = [at EXCEPT ![p] = 1]
  /\ Goto(p, "exec")
  /\ UNCHANGED <<frames, vpi, pte, installed, from, child, new, old, lost>>

\* vspaceloadcode and vspaceinitstack, one page of the new address space.
exec_page(p) ==
  /\ At(p, "exec") /\ at[p] <= upto[p] /\ Available # {}
  /\ refcount' = [refcount EXCEPT ![kalloc] = 1]
  /\ data' = [data EXCEPT ![kalloc] = 0]
  /\ new' = [new EXCEPT ![p][at[p]] = kalloc]
  /\ at' = [at EXCEPT ![p] = @ + 1]
  /\ UNCHANGED <<vpi, pte, installed, pc, from, upto, child, old, lost>>

\* vspacefree frees what the new page table maps; that is nothing, for
\* vspaceupdate has not run yet.
exec_fail(p) ==
  /\ At(p, "exec") /\ at[p] <= upto[p] /\ Available = {}
  /\ lost' = [f \in Frame |-> lost[f] + Cardinality({v \in Page : new[p][v] = f})]
  /\ new' = [new EXCEPT ![p] = NoFrames]
  /\ at' = [at EXCEPT ![p] = 0]
  /\ upto' = [upto EXCEPT ![p] = 0]
  /\ Goto(p, "user")
  /\ UNCHANGED <<frames, vpi, pte, installed, from, child, old>>

\* The arguments do not fit on the new stack: vspacefree frees what the new page
\* table maps, all of it now.
exec_args(p) ==
  /\ At(p, "exec") /\ at[p] > upto[p]
  /\ old' = [old EXCEPT ![p] = new[p]]
  /\ new' = [new EXCEPT ![p] = NoFrames]
  /\ at' = [at EXCEPT ![p] = 0]
  /\ upto' = [upto EXCEPT ![p] = 0]
  /\ Goto(p, "exec_free")
  /\ UNCHANGED <<frames, vpi, pte, installed, from, child, lost>>

\* The process moves to the new address space.
exec_install(p) ==
  /\ At(p, "exec") /\ at[p] > upto[p]
  /\ vpi' = [vpi EXCEPT ![p] =
                [v \in Page |-> IF v <= upto[p] THEN Descriptor(v, new[p][v]) ELSE Unused]]
  /\ UpdateAndInstall(p)
  /\ old' = [old EXCEPT ![p] = [v \in Page |-> pte[p][v].ppn]]
  /\ new' = [new EXCEPT ![p] = NoFrames]
  /\ at' = [at EXCEPT ![p] = 0]
  /\ upto' = [upto EXCEPT ![p] = 0]
  /\ Goto(p, "exec_free")
  /\ UNCHANGED <<frames, from, child, lost>>

\* vspacefree of the old address space, or of the new one: one page after the
\* other, in the order of the addresses.
exec_free(p) ==
  /\ At(p, "exec_free")
  /\ \/ \E v \in Page :
          /\ old[p][v] # NoFrame /\ \A u \in Page : u < v => old[p][u] = NoFrame
          /\ kfree({old[p][v]})
          /\ old' = [old EXCEPT ![p][v] = NoFrame]
          /\ UNCHANGED pc
     \/ /\ old[p] = NoFrames
        /\ Goto(p, "user")
        /\ UNCHANGED <<frames, old>>
  /\ UNCHANGED <<vpi, pte, installed, at, from, upto, child, new, lost>>

(* ---------------------------- specification ---------------------------- *)

Kernel(p) ==
  \/ shallow_copy(p) \/ fork_fail(p) \/ fork_run(p)
  \/ addmap(p) \/ addmap_failure(p) \/ undo(p) \/ addmap_done(p)
  \/ exec_page(p) \/ exec_fail(p) \/ exec_args(p) \/ exec_install(p) \/ exec_free(p)
  \/ wait(p)

User(p) ==
  \/ fork(p) \/ exit(p) \/ sbrk(p) \/ growstack(p) \/ exec(p)
  \/ \E v \in Page : \/ \E d \in Value : write(p, v, d)
                     \/ cowcopy(p, v)
                     \/ fault_kill(p, v)

\* Every process exited, or is one that fork gave up.
Halted == (\A p \in Proc : pc[p] \in {"unused", "embryo", "zombie"}) /\ UNCHANGED vars

Next == Halted \/ \E p \in Proc : Kernel(p) \/ User(p)

Spec == Init /\ [][Next]_vars

(* ------------------------------ properties ----------------------------- *)

\* The count of a frame is the number of references to it: page descriptors,
\* the address spaces exec is building and tearing down, and what was lost.
\* So kfree frees a frame exactly when the last address space lets go of it.
RefcountExact ==
  \A f \in Frame :
    refcount[f] = Cardinality({x \in Proc \X Page : vpi[x[1]][x[2]].ppn = f})
                  + Cardinality({x \in Proc \X Page : new[x[1]][x[2]] = f})
                  + Cardinality({x \in Proc \X Page : old[x[1]][x[2]] = f})
                  + lost[f]

\* fork, copy-on-write, sbrk and exec together behave as if every process had
\* a memory of its own that fork copies.
Abstract == INSTANCE PrivateMem WITH
  Zero <- 0, Hole <- Junk,
  mem <- [p \in Proc |-> [v \in Page |->
            IF pte[p][v].ppn = NoFrame THEN Junk ELSE data[pte[p][v].ppn]]],
  writable <- [p \in Proc |->
            {v \in Page : pte[p][v].ppn # NoFrame /\ (vpi[p][v].writable \/ vpi[p][v].cow)}]
PrivateMemory == Abstract!Spec

=============================================================================
