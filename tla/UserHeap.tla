------------------------------ MODULE UserHeap ------------------------------
(***************************************************************************)
(* The heap of a user program: malloc and free of user/lib/umalloc.c over  *)
(* the kernel's sbrk (kernel/proc.c) and vregionaddmap (kernel/vspace.c).  *)
(*                                                                         *)
(* Addresses count in units of sizeof(Header) from the allocator's static  *)
(* header base, which lies below the heap.  A unit of memory holds either  *)
(* a header or what the program wrote there, and writing one destroys the  *)
(* other.  Requests are below 2^31 bytes, the int that sbrk takes.         *)
(***************************************************************************)
EXTENDS Integers, FiniteSets

CONSTANTS MaxHeap,     \* bound: units of heap
          PageUnits,   \* units of a page
          MinUnits,    \* what morecore asks for at least (4096)
          Request,     \* payloads that the program asks for, in units
          Brk          \* amounts that the program itself passes to sbrk

VARIABLES heap,    \* the process's memory and the allocator's freep
          owned    \* blocks the program holds: header -> units, header included

vars == <<heap, owned>>

base == 0
Nil == -1
HeapBase == PageUnits * 2
Unit == HeapBase .. HeapBase + MaxHeap - 1
Page == 0 .. (HeapBase + MaxHeap) \div PageUnits
PageOf(a) == a \div PageUnits
Unwritten == 0
Header == -2    \* a unit that holds a header

Init ==
  /\ heap = [ptr |-> [a \in Unit \cup {base} |-> Nil],
             size |-> [a \in Unit \cup {base} |-> 0],
             held |-> [a \in Unit \cup {base} |-> Unwritten],
             freep |-> Nil, brk |-> 0, pages |-> {}, table |-> {}, panicked |-> FALSE]
  /\ owned = [b \in {} |-> 0]

(* ----------------------------- the kernel ------------------------------ *)

\* Mutant of addmap_pages: the last page of the range is left out.
addmap_pages_short(from, n) ==
  {pg \in Page : pg * PageUnits >= from /\ (pg + 1) * PageUnits <= from + n}

\* The pages that vregionaddmap adds for [from, from + n): those that start in
\* the range, for the page that from is in the middle of is there already.
addmap_pages(from, n) == {pg \in Page : pg * PageUnits >= from /\ pg * PageUnits < from + n}

\* vregionaddmap asserts that no page it adds is in use; when kalloc fails it
\* takes back what it added, and nothing has changed.
vregionaddmap(h, from, n) ==
  [h EXCEPT !.pages = @ \cup addmap_pages(from, n),
            !.panicked = @ \/ addmap_pages(from, n) \cap h.pages # {}]

\* sbrk, where memory says whether kalloc finds every page.
CanGrow(h, n, memory) == n <= 0 \/ (h.brk + n <= MaxHeap /\ memory)
sbrk(h, n) ==
  IF n <= 0 THEN h
  ELSE LET g == vregionaddmap(h, HeapBase + h.brk, n) IN [g EXCEPT !.brk = @ + n, !.table = g.pages]

(* ----------------------------- umalloc.c ------------------------------- *)

SetPtr(h, a, p) == [h EXCEPT !.ptr[a] = p, !.held[a] = Header]
SetSize(h, a, n) == [h EXCEPT !.size[a] = n, !.held[a] = Header]

\* The loop of free: the list's node p after which bp belongs.
RECURSIVE Place(_, _, _)
Place(h, bp, p) ==
  LET q == h.ptr[p]
  IN  IF (bp > p /\ bp < q) \/ (p >= q /\ (bp > p \/ bp < q)) THEN p ELSE Place(h, bp, q)

\* Mutant of JoinUpper: a block is never joined with the free block after it.
JoinUpper_never(h, bp, p) == SetPtr(h, bp, h.ptr[p])

\* Join the block with the free block after it.
JoinUpper(h, bp, p) ==
  LET q == h.ptr[p]
  IN  IF bp + h.size[bp] = q THEN SetPtr(SetSize(h, bp, h.size[bp] + h.size[q]), bp, h.ptr[q])
      ELSE SetPtr(h, bp, q)

\* Join the block with the free block before it.
JoinLower(h, bp, p) ==
  IF p + h.size[p] = bp THEN SetPtr(SetSize(h, p, h.size[p] + h.size[bp]), p, h.ptr[bp])
  ELSE SetPtr(h, p, bp)

free(h, bp) ==
  LET p == Place(h, bp, h.freep)
  IN  [JoinLower(JoinUpper(h, bp, p), bp, p) EXCEPT !.freep = p]

Larger(a, b) == IF a > b THEN a ELSE b

morecore(h, nunits) ==
  LET nu == Larger(nunits, MinUnits)
      hp == HeapBase + h.brk
  IN  free(SetSize(sbrk(h, nu), hp, nu), hp)

\* Mutant of Carve: the block overlaps the rest of the free block by one unit.
Carve_overlap(h, p, prevp, nunits) ==
  IF h.size[p] = nunits
  THEN [heap |-> [SetPtr(h, prevp, h.ptr[p]) EXCEPT !.freep = prevp], block |-> p]
  ELSE LET q == p + h.size[p] - nunits
       IN  [heap |-> [SetSize(SetSize(h, p, h.size[p] - nunits + 1), q, nunits) EXCEPT !.freep = prevp],
            block |-> q]

\* Take nunits from the free block p: all of it, or its upper end.
Carve(h, p, prevp, nunits) ==
  IF h.size[p] = nunits
  THEN [heap |-> [SetPtr(h, prevp, h.ptr[p]) EXCEPT !.freep = prevp], block |-> p]
  ELSE LET q == p + h.size[p] - nunits
       IN  [heap |-> [SetSize(SetSize(h, p, h.size[p] - nunits), q, nunits) EXCEPT !.freep = prevp],
            block |-> q]

\* The loop of malloc.
RECURSIVE Fit(_, _, _, _, _)
Fit(h, nunits, prevp, p, memory) ==
  IF h.size[p] >= nunits THEN Carve(h, p, prevp, nunits)
  ELSE IF p # h.freep THEN Fit(h, nunits, p, h.ptr[p], memory)
  ELSE IF ~CanGrow(h, Larger(nunits, MinUnits), memory) THEN [heap |-> h, block |-> Nil]
  ELSE LET g == morecore(h, nunits) IN Fit(g, nunits, g.freep, g.ptr[g.freep], memory)

\* The first call makes base a list of its own.
Started(h) ==
  IF h.freep # Nil THEN h ELSE [SetSize(SetPtr(h, base, base), base, 0) EXCEPT !.freep = base]

malloc(h, n, memory) == LET g == Started(h) IN Fit(g, n + 1, g.freep, g.ptr[g.freep], memory)

(* --------------------------- specification ----------------------------- *)

\* The nodes of the free list, followed from freep for at most n steps.
RECURSIVE Reach(_, _, _)
Reach(h, p, n) == IF n = 0 \/ p = Nil THEN {} ELSE {p} \cup Reach(h, h.ptr[p], n - 1)
FreeNodes(h) == IF h.freep = Nil THEN {} ELSE Reach(h, h.freep, MaxHeap + 1)

\* What is left inside free blocks is nobody's: neither headers nor data.
Forget(h, live) ==
  LET kept == FreeNodes(h) \cup live
  IN  [h EXCEPT !.ptr = [a \in DOMAIN h.ptr |-> IF a \in kept THEN h.ptr[a] ELSE Nil],
                !.size = [a \in DOMAIN h.size |-> IF a \in kept THEN h.size[a] ELSE 0],
                !.held = [a \in DOMAIN h.held |-> IF a \in kept THEN h.held[a] ELSE Unwritten]]

\* What the program writes into a block, over whatever is there.
Payload(b, size) == b + 1 .. b + size - 1
Filled(h, b, size) ==
  [h EXCEPT !.held = [a \in DOMAIN h.held |-> IF a \in Payload(b, size) THEN b ELSE h.held[a]],
            !.ptr = [a \in DOMAIN h.ptr |-> IF a \in Payload(b, size) THEN Nil ELSE h.ptr[a]],
            !.size = [a \in DOMAIN h.size |-> IF a \in Payload(b, size) THEN 0 ELSE h.size[a]]]

\* The program allocates a block and fills it.
user_malloc(n, memory) ==
  LET r == malloc(heap, n, memory)
  IN  IF r.block = Nil THEN heap' = r.heap /\ UNCHANGED owned
      ELSE /\ heap' = Filled(r.heap, r.block, n + 1)
           /\ owned' = [b \in DOMAIN owned \cup {r.block} |-> IF b = r.block THEN n + 1 ELSE owned[b]]

user_free(b) ==
  /\ heap' = Forget(free(heap, b), UNION {{c} \cup Payload(c, owned[c]) : c \in DOMAIN owned \ {b}})
  /\ owned' = [c \in DOMAIN owned \ {b} |-> owned[c]]

\* The program grows the heap itself: malloc's next piece is not adjacent.
user_sbrk(n, memory) ==
  /\ CanGrow(heap, n, memory)
  /\ heap' = sbrk(heap, n)
  /\ UNCHANGED owned

Next ==
  \/ \E n \in Request, memory \in BOOLEAN : user_malloc(n, memory)
  \/ \E b \in DOMAIN owned : user_free(b)
  \/ \E n \in Brk : user_sbrk(n, TRUE)

Spec == Init /\ [][Next]_vars

(* ----------------------------- properties ------------------------------ *)

\* Every block the program holds keeps its size and what the program wrote in
\* it, until the program frees it: no other block, no header of the free list
\* and no piece of new memory overlaps it.
BlocksKept ==
  \A b \in DOMAIN owned :
    /\ heap.size[b] = owned[b]
    /\ \A a \in Payload(b, owned[b]) : heap.held[a] = b

\* The free list is one cycle through base in the order of addresses, its
\* blocks are apart from one another by at least one unit, and they and the
\* blocks in use share no unit and lie in the heap.
FreeListSound ==
  LET nodes == FreeNodes(heap)
      blocks == {[from |-> p, to |-> p + heap.size[p]] : p \in nodes}
                \cup {[from |-> b, to |-> b + owned[b]] : b \in DOMAIN owned}
  IN  /\ heap.freep # Nil => base \in nodes
      /\ \A p \in nodes :
           \/ heap.ptr[p] > p /\ \A q \in nodes : q <= p \/ q >= heap.ptr[p]
           \/ heap.ptr[p] = base /\ \A q \in nodes : q <= p
      /\ \A p, q \in nodes : p # base => p + heap.size[p] # q
      /\ \A x, y \in blocks : x # y => x.to <= y.from \/ y.to <= x.from
      /\ \A x \in blocks : x.from = base \/ x.to <= HeapBase + heap.brk

\* Every unit below the break is on a page that the page table maps, and sbrk
\* never adds a page a second time, whatever sizes the heap has grown by.
HeapMapped ==
  /\ ~heap.panicked
  /\ \A a \in HeapBase .. HeapBase + heap.brk - 1 : PageOf(a) \in heap.table
=============================================================================
