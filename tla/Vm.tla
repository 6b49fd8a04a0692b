---------------------------------- MODULE Vm ----------------------------------
(***************************************************************************)
(* User memory: the page allocator (kernel/kalloc.c), page tables          *)
(* (kernel/vm.c), and the calls that build, copy, resize, replace and free *)
(* address spaces: fork, sbrk, wait (kernel/proc.c) and exec (exec.c).     *)
(*                                                                         *)
(* A page table belongs to one process; only the free list is shared.  A   *)
(* call is therefore one step, and the interleavings that matter, other    *)
(* users of pages taking the last one at any moment, are the numbers of    *)
(* free pages it may start with (page_in, page_out).                       *)
(*                                                                         *)
(* Physical memory is a value m that the functions of the kernel map to    *)
(* the memory after the call; m.panic says that one of them panicked.      *)
(* Virtual addresses of pages are page numbers (va / PGSIZE).  A page has  *)
(* one value for contents.  Which free page kalloc returns does not matter.*)
(***************************************************************************)
EXTENDS Integers, Sequences, FiniteSets, FiniteSetsExt, SequencesExt, Functions

CONSTANTS Proc, InitProc,
          Page,          \* physical pages kalloc manages
          None,          \* a null pointer
          Trampoline,    \* the page of trampoline code, not one of Page
          PGSIZE,
          LEVELS,        \* levels of a page table (3)
          PTES,          \* entries of a page-table page (512)
          Call,          \* calls of exec: a program (a sequence of segments)
                         \* and an argument vector (a sequence of string lengths,
                         \* -1 for a pointer that is not good)
          Touched,       \* bound: the pages that are written
          Step,          \* bound: the arguments of sbrk
          MAXARG, ALIGN, WORDSZ,  \* MAXARG, 16 and sizeof(uint64)
          MAXU,          \* addresses are computed modulo MAXU
          MaxSz,         \* bound: size of a process
          MaxKernel      \* bound: pages in use for something else (pipes)

MAXVA == PTES ^ LEVELS
TRAMPOLINE == MAXVA - 1
TRAPFRAME == MAXVA - 2
Index == 0..(PTES - 1)
\* Contents of a page: fresh, from a program file, arguments, written by a process.
Image == {"zero", "text", "args"}
Val == Image \cup Proc
Perm == SUBSET {"R", "W", "X", "U"}

ASSUME VmAssumption ==
  /\ InitProc \in Proc /\ Page \subseteq Nat /\ IsFiniteSet(Page)
  /\ None \notin Page /\ Trampoline \notin Page
  /\ PGSIZE \in Nat \ {0} /\ LEVELS \in Nat \ {0} /\ PTES \in Nat \ {0, 1}
  /\ MaxSz <= (MAXVA - 2) * PGSIZE /\ MaxSz < MAXU

VARIABLES mem,        \* physical memory: free, pte, data, panic
          pagetable, sz, trapframe,  \* struct proc
          kernel      \* pages allocated for other things

vars == <<mem, pagetable, sz, trapframe, kernel>>

\* FoldLeft, which TLC evaluates in twice the time.
RECURSIVE Fold(_, _, _)
Fold(f(_, _), b, q) == IF q = <<>> THEN b ELSE Fold(f, f(b, Head(q)), Tail(q))

PGROUNDUP(n) == ((n + PGSIZE - 1) \div PGSIZE) * PGSIZE
NPAGES(n) == PGROUNDUP(n) \div PGSIZE
Panic(m) == [m EXCEPT !.panic = TRUE]
NoPte == [pa |-> None, perm |-> {}]
Range0(a, b) == [k \in 1..(IF b > a THEN b - a ELSE 0) |-> a + k - 1]
-------------------------------------------------------------------------------
(***************************************************************************)
(* kalloc.c                                                                *)
(***************************************************************************)
kalloc(m) ==
  IF m.free = {} THEN [m |-> m, pa |-> None]
  ELSE LET p == Min(m.free)
       IN  [m |-> [m EXCEPT !.free = @ \ {p}], pa |-> p]

kfree(m, p) ==
  [m EXCEPT !.free = @ \cup {p}, !.data[p] = "junk", !.pte[p] = [i \in Index |-> NoPte]]
-------------------------------------------------------------------------------
(***************************************************************************)
(* vm.c                                                                    *)
(***************************************************************************)
PX(level, va) == (va \div PTES ^ level) % PTES

\* The table that holds the last-level entry of va, or None.
walk(m, pt, va, alloc) ==
  LET extend(st, level, k) ==
        IF ~alloc \/ k.pa = None THEN [st EXCEPT !.t = None]
        ELSE [m |-> [k.m EXCEPT !.pte[st.t][PX(level, va)] = [pa |-> k.pa, perm |-> {}]],
              t |-> k.pa]
      follow(st, level, pte) ==
        IF pte # NoPte THEN [st EXCEPT !.t = pte.pa] ELSE extend(st, level, kalloc(st.m))
      down(st, level) ==
        IF st.t = None THEN st ELSE follow(st, level, st.m.pte[st.t][PX(level, va)])
  IN  Fold(down, [m |-> m, t |-> pt], [l \in 1..(LEVELS - 1) |-> LEVELS - l])

\* The last-level entry of va.
pte(m, pt, va) ==
  LET entry(t) == IF t = None THEN NoPte ELSE m.pte[t][PX(0, va)]
  IN  entry(walk(m, pt, va, FALSE).t)

\* The physical page of user address va.
walkaddr(m, pt, va) ==
  LET user(e) == IF va < MAXVA /\ "U" \in e.perm THEN e.pa ELSE None
  IN  user(pte(m, pt, va))

\* One page: all users of page tables map one at a time.
mappages(m, pt, va, pa, perm) ==
  LET enter(w) ==
        CASE w.t = None -> [m |-> w.m, ok |-> FALSE]
          [] w.t # None /\ w.m.pte[w.t][PX(0, va)] # NoPte -> [m |-> Panic(w.m), ok |-> TRUE]
          [] OTHER -> [m |-> [w.m EXCEPT !.pte[w.t][PX(0, va)] = [pa |-> pa, perm |-> perm]],
                       ok |-> TRUE]
  IN  enter(walk(m, pt, va, TRUE))

uvmunmap(m, pt, va, npages, do_free) ==
  LET remove(n, a, t) ==
        LET e == n.pte[t][PX(0, a)]
        IN  IF t = None \/ e.perm = {} THEN Panic(n)
            ELSE [(IF do_free THEN kfree(n, e.pa) ELSE n) EXCEPT !.pte[t][PX(0, a)] = NoPte]
      unmap(n, a) == remove(n, a, walk(n, pt, a, FALSE).t)
  IN  Fold(unmap, m, Range0(va, va + npages))

uvmdealloc(m, pt, oldsz, newsz) ==
  IF newsz >= oldsz THEN [m |-> m, sz |-> oldsz]
  ELSE [m |-> uvmunmap(m, pt, NPAGES(newsz), NPAGES(oldsz) - NPAGES(newsz), TRUE),
        sz |-> newsz]

\* Grow from oldsz to newsz; size 0 says that memory ran out.  The page that could not
\* be mapped is freed if reclaims; fresh is what memset writes.
grow(m, pt, oldsz, newsz, xperm, fresh, reclaims) ==
  LET first == NPAGES(oldsz)
      undo(n, a) == [m |-> uvmdealloc(n, pt, a * PGSIZE, first * PGSIZE).m, ok |-> FALSE]
      fill(mp, a, pa) ==
        IF mp.ok THEN [m |-> [mp.m EXCEPT !.data[pa] = fresh], ok |-> TRUE]
        ELSE undo(IF reclaims THEN kfree(mp.m, pa) ELSE mp.m, a)
      add(k, a) ==
        IF k.pa = None THEN undo(k.m, a)
        ELSE fill(mappages(k.m, pt, a, k.pa, {"R", "U"} \cup xperm), a, k.pa)
      one(st, a) == IF st.ok THEN add(kalloc(st.m), a) ELSE st
      result(st) == [m |-> st.m, sz |-> IF st.ok THEN newsz ELSE 0]
  IN  IF newsz < oldsz THEN [m |-> m, sz |-> oldsz]
      ELSE result(Fold(one, [m |-> m, ok |-> TRUE], Range0(first, NPAGES(newsz))))

\* Mutants of uvmalloc: the page that could not be mapped is not freed; memset is left out.
uvmallocLeak(m, pt, oldsz, newsz, xperm) == grow(m, pt, oldsz, newsz, xperm, "zero", FALSE)
uvmallocJunk(m, pt, oldsz, newsz, xperm) == grow(m, pt, oldsz, newsz, xperm, "junk", TRUE)
uvmalloc(m, pt, oldsz, newsz, xperm) == grow(m, pt, oldsz, newsz, xperm, "zero", TRUE)

\* The page-table pages of pt.
Tables(m, pt) ==
  LET below(T, level) ==
        T \cup {m.pte[t][i].pa : <<t, i>> \in {<<u, j>> \in T \X Index :
                  m.pte[u][j] # NoPte /\ m.pte[u][j].perm = {}}}
  IN  Fold(below, {pt}, [l \in 1..(LEVELS - 1) |-> l])

\* Every mapping must be gone; order does not matter.
freewalk(m, pt) ==
  LET T == Tables(m, pt)
      leaf == \E t \in T, i \in Index : m.pte[t][i].perm # {}
  IN  FoldSet(LAMBDA t, n : kfree(n, t), IF leaf THEN Panic(m) ELSE m, T)

uvmfree(m, pt, size) == freewalk(uvmunmap(m, pt, 0, NPAGES(size), TRUE), pt)

uvmcopy(m, old, new, size) ==
  LET err(n, i) == [m |-> uvmunmap(n, new, 0, i, TRUE), ok |-> FALSE]
      fill(mp, i, pa, from) ==
        IF mp.ok THEN [m |-> [mp.m EXCEPT !.data[pa] = mp.m.data[from]], ok |-> TRUE]
        ELSE err(kfree(mp.m, pa), i)
      add(k, i, e) ==
        IF k.pa = None THEN err(k.m, i)
        ELSE fill(mappages(k.m, new, i, k.pa, e.perm), i, k.pa, e.pa)
      entry(st, i, e) ==
        IF e = NoPte THEN [st EXCEPT !.m = Panic(@)] ELSE add(kalloc(st.m), i, e)
      one(st, i) == IF st.ok THEN entry(st, i, pte(st.m, old, i)) ELSE st
  IN  Fold(one, [m |-> m, ok |-> TRUE], Range0(0, NPAGES(size)))

uvmclear(m, pt, va) ==
  LET t == walk(m, pt, va, FALSE).t
  IN  [m EXCEPT !.pte[t][PX(0, va)].perm = @ \ {"U"}]
-------------------------------------------------------------------------------
(***************************************************************************)
(* proc.c: page tables with the trampoline and the trapframe.              *)
(***************************************************************************)
proc_pagetable(m, tf) ==
  LET fail(n, pt) == [m |-> uvmfree(n, pt, 0), pt |-> None]
      second(b, pt) ==
        IF b.ok THEN [m |-> b.m, pt |-> pt] ELSE fail(uvmunmap(b.m, pt, TRAMPOLINE, 1, FALSE), pt)
      first(a, pt) ==
        IF a.ok THEN second(mappages(a.m, pt, TRAPFRAME, tf, {"R", "W"}), pt) ELSE fail(a.m, pt)
      root(k) ==
        IF k.pa = None THEN [m |-> m, pt |-> None]
        ELSE first(mappages(k.m, k.pa, TRAMPOLINE, Trampoline, {"R", "X"}), k.pa)
  IN  root(kalloc(m))

proc_freepagetable(m, pt, size) ==
  uvmfree(uvmunmap(uvmunmap(m, pt, TRAMPOLINE, 1, FALSE), pt, TRAPFRAME, 1, FALSE), pt, size)

\* A trapframe page and an empty page table, or nothing.
allocproc(m) ==
  LET none(n) == [m |-> n, tf |-> None, pt |-> None]
      with(t, tf) ==
        IF t.pt # None THEN [m |-> t.m, tf |-> tf, pt |-> t.pt] ELSE none(kfree(t.m, tf))
      frame(k) == IF k.pa = None THEN none(m) ELSE with(proc_pagetable(k.m, k.pa), k.pa)
  IN  frame(kalloc(m))

freeproc(m, tf, pt, size) == proc_freepagetable(kfree(m, tf), pt, size)

\* userinit: one process with one page (uvmfirst).
Init ==
  LET m0 == [free |-> Page, panic |-> FALSE, data |-> [p \in Page |-> "junk"],
             pte |-> [p \in Page |-> [i \in Index |-> NoPte]]]
      first(x) == [p \in Proc |-> IF p = InitProc THEN x ELSE None]
  IN
  \E a \in {allocproc(m0)} : \E k \in {kalloc(a.m)} :
    /\ mem = [mappages(k.m, a.pt, 0, k.pa, {"R", "W", "X", "U"}).m EXCEPT !.data[k.pa] = "text"]
    /\ pagetable = first(a.pt)
    /\ trapframe = first(a.tf)
    /\ sz = [p \in Proc |-> IF p = InitProc THEN PGSIZE ELSE 0]
    /\ kernel = {}

\* sbrk(n); new is the size asked for.
resize(p, n, new) ==
  LET g == IF n > 0 THEN uvmalloc(mem, pagetable[p], sz[p], new, {"W"})
           ELSE uvmdealloc(mem, pagetable[p], sz[p], new)
  IN
  /\ pagetable[p] # None /\ sz[p] + n <= MaxSz
  /\ mem' = g.m
  /\ sz' = [sz EXCEPT ![p] = IF n > 0 /\ g.sz = 0 THEN @ ELSE g.sz]
  /\ UNCHANGED <<pagetable, trapframe, kernel>>

\* Mutant of growproc: sizes are signed.
growprocSigned(p, n) == resize(p, n, sz[p] + n)
growproc(p, n) == resize(p, n, (sz[p] + n) % MAXU)

\* np->sz is npsz when uvmcopy fails.
copy(p, q, npsz) ==
  /\ pagetable[p] # None /\ pagetable[q] = None
  /\ UNCHANGED kernel
  /\ \E a \in {allocproc(mem)} :
       IF a.pt = None THEN mem' = a.m /\ UNCHANGED <<pagetable, trapframe, sz>>
       ELSE \E c \in {uvmcopy(a.m, pagetable[p], a.pt, sz[p])} :
              IF c.ok
              THEN /\ mem' = c.m
                   /\ pagetable' = [pagetable EXCEPT ![q] = a.pt]
                   /\ trapframe' = [trapframe EXCEPT ![q] = a.tf]
                   /\ sz' = [sz EXCEPT ![q] = sz[p]]
              ELSE /\ mem' = freeproc(c.m, a.tf, a.pt, npsz)
                   /\ UNCHANGED <<pagetable, trapframe, sz>>

\* Mutant of fork: np->sz is set before uvmcopy.
forkEarly(p, q) == copy(p, q, sz[p])
fork(p, q) == copy(p, q, 0)

\* wait: freeproc of a child that has exited.
reap(p) ==
  /\ p # InitProc /\ pagetable[p] # None
  /\ mem' = freeproc(mem, trapframe[p], pagetable[p], sz[p])
  /\ pagetable' = [pagetable EXCEPT ![p] = None]
  /\ trapframe' = [trapframe EXCEPT ![p] = None]
  /\ sz' = [sz EXCEPT ![p] = 0]
  /\ UNCHANGED kernel
-------------------------------------------------------------------------------
(***************************************************************************)
(* exec.c.  A segment has vaddr, memsz, filesz, perm (flags2perm), and     *)
(* short: the file ends inside it.                                         *)
(***************************************************************************)
\* The pages of the segment are filled from the file; readi may fall short.
loadseg(m, pt, ph) ==
  LET fill(n, i) ==
        LET pa == walkaddr(n, pt, ph.vaddr \div PGSIZE + i)
        IN  IF pa = None THEN Panic(n) ELSE [n EXCEPT !.data[pa] = "text"]
  IN  Fold(fill, m, Range0(0, NPAGES(ph.filesz)))

\* The argument strings, len[k] bytes each, and the array of pointers to them, from
\* the top down.
below(top, len) ==
  LET down(st, n) == Append(st, (st[Len(st)] - n) - ((st[Len(st)] - n) % ALIGN))
  IN  Fold(down, <<top>>, len)

\* Mutant of push: the final zeros are forgotten.
pushNoZero(top, args) == below(top, args \o <<(Len(args) + 1) * WORDSZ>>)
push(top, args) ==
  below(top, [k \in DOMAIN args |-> args[k] + 1] \o <<(Len(args) + 1) * WORDSZ>>)

\* The segments of prog, in the new page table pt.
segments(m, pt, prog) ==
  LET load(st, ph, u) ==
        IF u.sz = 0 THEN [st EXCEPT !.m = u.m, !.ok = FALSE]
        ELSE [m |-> loadseg(u.m, pt, ph), sz |-> u.sz, ok |-> ~ph.short]
      seg(st, ph) ==
        IF \/ ~st.ok \/ ph.memsz < ph.filesz
           \/ (ph.vaddr + ph.memsz) % MAXU < ph.vaddr \/ ph.vaddr % PGSIZE # 0
        THEN [st EXCEPT !.ok = FALSE]
        ELSE load(st, ph, uvmalloc(st.m, pt, st.sz, ph.vaddr + ph.memsz, ph.perm))
  IN  Fold(seg, [m |-> m, sz |-> 0, ok |-> TRUE], prog)

\* goto bad
bad(m, pt, size) == [m |-> proc_freepagetable(m, pt, size), pt |-> None, sz |-> 0]

\* The arguments, on a stack page that ends at size, above the guard page.
arguments(m, pt, size, args) ==
  IF \E k \in DOMAIN push(size, args) : push(size, args)[k] < size - PGSIZE
  THEN bad(m, pt, size)
  ELSE [m |-> [m EXCEPT !.data[walkaddr(m, pt, size \div PGSIZE - 1)] = "args"],
        pt |-> pt, sz |-> size]

\* Two more pages at base, of which the first is the guard: s is what uvmalloc says.
stack(s, pt, base, args) ==
  IF s.sz = 0 THEN bad(s.m, pt, base)
  ELSE arguments(uvmclear(s.m, pt, base \div PGSIZE), pt, s.sz, args)

\* l is what the segments took, t the fresh page table.
loaded(l, pt, args) ==
  IF ~l.ok THEN bad(l.m, pt, l.sz)
  ELSE LET base == PGROUNDUP(l.sz)
       IN  stack(uvmalloc(l.m, pt, base, base + 2 * PGSIZE, {"W"}), pt, base, args)
image(t, prog, args) ==
  IF t.pt = None THEN [m |-> t.m, pt |-> None, sz |-> 0]
  ELSE loaded(segments(t.m, t.pt, prog), t.pt, args)

\* The new page table and size; pt is None when exec fails.
exec(m, tf, prog, args) == image(proc_pagetable(m, tf), prog, args)

\* The kernel's copies of the arguments, a page each; fetchstr fails on some.
fetchargs(m, args) ==
  LET one(st, len) ==
        LET k == kalloc(st.m)
        IN  CASE ~st.ok -> st
              [] st.ok /\ k.pa = None -> [st EXCEPT !.ok = FALSE]
              [] OTHER -> [m |-> k.m, pages |-> st.pages \cup {k.pa}, ok |-> len >= 0]
      st == Fold(one, [m |-> m, pages |-> {}, ok |-> TRUE],
                     SubSeq(args, 1, IF Len(args) < MAXARG THEN Len(args) ELSE MAXARG))
  IN  [st EXCEPT !.ok = @ /\ Len(args) < MAXARG]

sys_exec(p, prog, args) ==
  /\ pagetable[p] # None
  /\ \E f \in {fetchargs(mem, args)} : \E x \in {exec(f.m, trapframe[p], prog, args)} :
       LET old == IF x.pt = None THEN x.m ELSE proc_freepagetable(x.m, pagetable[p], sz[p])
       IN
       /\ mem' = FoldSet(LAMBDA k, n : kfree(n, k), IF f.ok THEN old ELSE f.m, f.pages)
       /\ pagetable' = [pagetable EXCEPT ![p] = IF f.ok /\ x.pt # None THEN x.pt ELSE @]
       /\ sz' = [sz EXCEPT ![p] = IF f.ok /\ x.pt # None THEN x.sz ELSE @]
  /\ UNCHANGED <<trapframe, kernel>>
-------------------------------------------------------------------------------
\* The process, or copyout for it, writes one of its pages.
write(p, i) ==
  /\ pagetable[p] # None /\ i < NPAGES(sz[p]) /\ walkaddr(mem, pagetable[p], i) # None
  /\ mem' = [mem EXCEPT !.data[walkaddr(mem, pagetable[p], i)] = p]
  /\ UNCHANGED <<pagetable, sz, trapframe, kernel>>

\* Other users of pages (pipealloc and pipeclose).
page_in ==
  /\ Cardinality(kernel) < MaxKernel /\ mem.free # {}
  /\ mem' = kalloc(mem).m
  /\ kernel' = kernel \cup {kalloc(mem).pa}
  /\ UNCHANGED <<pagetable, sz, trapframe>>
page_out ==
  /\ kernel # {}
  /\ mem' = kfree(mem, Max(kernel))
  /\ kernel' = kernel \ {Max(kernel)}
  /\ UNCHANGED <<pagetable, sz, trapframe>>

Next ==
  \/ \E p \in Proc, n \in Step : growproc(p, n)
  \/ \E p, q \in Proc : fork(p, q)
  \/ \E p \in Proc : reap(p)
  \/ \E p \in Proc, call \in Call : sys_exec(p, call.prog, call.args)
  \/ \E p \in Proc, i \in Touched : write(p, i)
  \/ page_in
  \/ page_out

Spec == Init /\ [][Next]_vars
-------------------------------------------------------------------------------
(***************************************************************************)
(* Properties                                                              *)
(***************************************************************************)
\* The values the variables take.
TypeOK ==
  /\ mem.free \subseteq Page /\ mem.panic \in BOOLEAN
  /\ mem.data \in [Page -> Val \cup {"junk"}]
  /\ mem.pte \in [Page -> [Index -> [pa : Page \cup {None, Trampoline}, perm : Perm]]]
  /\ {pagetable, trapframe} \subseteq [Proc -> Page \cup {None}]
  /\ sz \in [Proc -> 0..MaxSz] /\ kernel \subseteq Page

\* No call of the memory system panics: nothing is mapped twice, nothing is
\* unmapped that is not mapped, no page table is freed with mappings in it.
NoPanic == ~mem.panic

\* Every physical page is in exactly one place: the free list, one entry of one
\* page table, the root of one, a trapframe (mapped once, by its process), or
\* another use.  Calls that run out of memory half way, and exec that fails at
\* any point, lose no page and free none twice.
PagesConserved ==
  \A g \in Page :
    LET mapped == Cardinality({<<t, i>> \in Page \X Index : mem.pte[t][i].pa = g})
        root == Cardinality({p \in Proc : pagetable[p] = g})
        frame == Cardinality({p \in Proc : trapframe[p] = g})
        other == Cardinality({S \in {kernel, mem.free} : g \in S})
    IN  /\ root + frame + other + (IF frame = 1 THEN 0 ELSE mapped) = 1
        /\ frame = 1 => mapped = 1

\* Every process sees, through its page table, an address space of its own: the
\* kernel's page tables implement AddressSpace, with calls that fail as steps
\* that change nothing.
NoSpace == [sz |-> -1, page |-> <<>>]
space == [p \in Proc |->
            IF pagetable[p] = None THEN NoSpace
            ELSE [sz |-> sz[p],
                  page |-> [i \in 0..(NPAGES(sz[p]) - 1) |->
                              mem.data[pte(mem, pagetable[p], i).pa]]]]
Isolation == INSTANCE AddressSpace WITH Zero <- "zero", Args <- "args"

\* Whatever program the stack is put above, when exec finds that the arguments fit, the
\* strings with their final zeros and the array of pointers are in the stack page, aligned,
\* and do not overlap.
ArgsFit ==
  \A p \in Proc, args \in UNION {[1..n -> 0..PGSIZE] : n \in 0..(MAXARG - 1)} :
    LET top == PGROUNDUP(sz[p]) + 2 * PGSIZE
        at == push(top, args)
        size == [k \in DOMAIN args |-> args[k] + 1] \o <<(Len(args) + 1) * WORDSZ>>
    IN  (\A k \in DOMAIN at : at[k] >= top - PGSIZE) =>
          \A k \in DOMAIN size : at[k + 1] + size[k] <= at[k] /\ at[k + 1] % ALIGN = 0
===============================================================================
