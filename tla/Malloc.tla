-------------------------------- MODULE Malloc --------------------------------
(***************************************************************************)
(* The allocator of user programs (user/umalloc.c).  Addresses count       *)
(* Headers; the static header base lies below the heap, at 0.  A heap h    *)
(* has the two fields of the header at each address (ptr, size), freep     *)
(* (Null before the first malloc) and the program's break.                 *)
(***************************************************************************)
EXTENDS Integers, FiniteSets

CONSTANTS HEAP,      \* the break cannot grow beyond it
          CORE,      \* 4096: the least number of units asked of sbrk
          HEADER,    \* sizeof(Header), in bytes
          Requests,  \* the numbers of bytes asked for
          Gaps       \* bound: how often the program calls sbrk itself

VARIABLES heap,
          live,      \* history: the blocks handed out, [at, bytes]
          gaps,      \* history: the addresses the program took from sbrk itself
          failed     \* history: the bytes of the malloc that has just returned 0, or none

vars == <<heap, live, gaps, failed>>

Null == HEAP
base == 0
Nil == 0             \* "no bytes" of failed
-------------------------------------------------------------------------------
\* The block p after which bp belongs: around it, or p is the last one of the list.
RECURSIVE Place(_, _, _)
Place(h, bp, p) ==
  LET next == h.ptr[p]
  IN  IF \/ bp > p /\ bp < next
         \/ p >= next /\ (bp > p \/ bp < next)
      THEN p ELSE Place(h, bp, next)

\* Insertion after p, joined with the neighbours the two tests find.
free_in(h, bp, joinsUp, joinsDown) ==
  LET p == Place(h, bp, h.freep)
      next == h.ptr[p]
      up == joinsUp /\ bp + h.size[bp] = next
      size == h.size[bp] + (IF up THEN h.size[next] ELSE 0)
      ptr == IF up THEN h.ptr[next] ELSE next
      down == joinsDown /\ p + h.size[p] = bp
  IN  [h EXCEPT !.size = [@ EXCEPT ![bp] = size, ![p] = IF down THEN @ + size ELSE @],
                !.ptr = [@ EXCEPT ![bp] = ptr, ![p] = IF down THEN ptr ELSE bp],
                !.freep = p]
\* Mutant: the block below is not joined.
freeApart(h, bp) == free_in(h, bp, TRUE, FALSE)
free(h, bp) == free_in(h, bp, TRUE, TRUE)

Larger(a, b) == IF a < b THEN b ELSE a
\* sbrk gives the units at the break or fails; the new block is freed.
CanGrow(h, nu) == h.brk + Larger(nu, CORE) <= HEAP
morecore(h, nu) ==
  LET n == Larger(nu, CORE)
  IN  free([h EXCEPT !.size[h.brk] = n, !.brk = @ + n], h.brk)

\* From p: all of it, or its upper end.
take_in(h, prevp, p, nunits, kept) ==
  LET rest == h.size[p] - nunits
      at == p + rest
  IN  [at |-> at,
       heap |-> IF rest = 0 THEN [h EXCEPT !.ptr[prevp] = h.ptr[p], !.freep = prevp]
                ELSE [h EXCEPT !.size = [@ EXCEPT ![p] = kept, ![at] = nunits],
                               !.freep = prevp]]
\* Mutant: what remains keeps the old size.
takeWhole(h, prevp, p, nunits) == take_in(h, prevp, p, nunits, h.size[p])
take(h, prevp, p, nunits) == take_in(h, prevp, p, nunits, h.size[p] - nunits)

\* The loop of malloc; at = Null when it returns 0.
RECURSIVE search(_, _, _, _, _)
search(h, prevp, p, nunits, enough) ==
  LET more == morecore(h, nunits)
  IN  IF h.size[p] >= enough THEN take(h, prevp, p, nunits)
      ELSE IF p # h.freep THEN search(h, p, h.ptr[p], nunits, enough)
      ELSE IF CanGrow(h, nunits)
      THEN search(more, more.freep, more.ptr[more.freep], nunits, enough)
      ELSE [at |-> Null, heap |-> h]

\* Mutant of nunits: no unit for the header.
unitsBare(nbytes) == (nbytes + HEADER - 1) \div HEADER
units(nbytes) == (nbytes + HEADER - 1) \div HEADER + 1

malloc_in(h, nunits, enough) ==
  LET g == IF h.freep = Null
           THEN [h EXCEPT !.ptr[base] = base, !.size[base] = 0, !.freep = base] ELSE h
  IN  search(g, g.freep, g.ptr[g.freep], nunits, enough)
\* Mutant: a block of exactly the size is passed over.
mallocStrict(h, nbytes) == malloc_in(h, units(nbytes), units(nbytes) + 1)
malloc(h, nbytes) == malloc_in(h, units(nbytes), units(nbytes))
-------------------------------------------------------------------------------
Malloc(nbytes) ==
  LET r == malloc(heap, nbytes)
  IN  /\ heap' = r.heap
      /\ live' = IF r.at = Null THEN live ELSE live \cup {[at |-> r.at, bytes |-> nbytes]}
      /\ failed' = IF r.at = Null THEN nbytes ELSE Nil
      /\ UNCHANGED gaps
Free(b) ==
  /\ heap' = free(heap, b.at) /\ live' = live \ {b} /\ failed' = Nil
  /\ UNCHANGED gaps
\* The program moves the break itself: the heap is no longer one piece.
sbrk ==
  /\ Cardinality(gaps) < Gaps /\ heap.brk < HEAP
  /\ gaps' = gaps \cup {heap.brk} /\ heap' = [heap EXCEPT !.brk = @ + 1]
  /\ failed' = Nil /\ UNCHANGED live

Init ==
  /\ heap = [ptr |-> [a \in 0..(HEAP - 1) |-> Null], size |-> [a \in 0..(HEAP - 1) |-> 0],
             freep |-> Null, brk |-> 1]
  /\ live = {} /\ gaps = {} /\ failed = Nil
Next ==
  \/ \E nbytes \in Requests : Malloc(nbytes)
  \/ \E b \in live : Free(b)
  \/ sbrk
Spec == Init /\ [][Next]_vars
-------------------------------------------------------------------------------
\* The free list as the program walks it, from base, and the units of a block.
RECURSIVE From(_)
From(p) == IF heap.ptr[p] = base THEN {p} ELSE {p} \cup From(heap.ptr[p])
FreeList == IF heap.freep = Null THEN {} ELSE From(base) \ {base}
UnitsAt(p) == p..(p + heap.size[p] - 1)
Blocks == FreeList \cup {b.at : b \in live}

\* Every unit obtained from sbrk is in exactly one block, free or handed out: nothing is
\* lost, no two blocks overlap, and no header has been written over (malloc, free).
Accounted ==
  /\ UNION {UnitsAt(p) : p \in Blocks} = (1..(heap.brk - 1)) \ gaps
  /\ \A p, q \in Blocks : p # q => UnitsAt(p) \cap UnitsAt(q) = {}
  /\ Cardinality(Blocks) = Cardinality(FreeList) + Cardinality(live)

\* A block handed out has a header and room for the bytes asked for.
Fits == \A b \in live : (heap.size[b.at] - 1) * HEADER >= b.bytes

\* The list is in order of address, closes at base, holds freep, and no free block
\* touches the next: what the search of free and its two joins rely on and keep up.
Coalesced ==
  heap.freep # Null =>
    /\ heap.freep \in FreeList \cup {base}
    /\ \A p \in FreeList \cup {base} :
         \/ heap.ptr[p] = base
         \/ heap.ptr[p] > p + heap.size[p]

\* malloc returns 0 only when no free run of units is long enough for the request,
\* however often and in whatever order blocks have been freed.
FailsOnlyWhenFull ==
  failed # Nil => \A p \in FreeList : heap.size[p] < units(failed)
===============================================================================
