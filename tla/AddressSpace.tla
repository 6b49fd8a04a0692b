----------------------------- MODULE AddressSpace -----------------------------
(***************************************************************************)
(* What a process can rely on about its memory, whatever the kernel does   *)
(* with pages and page tables below: sz bytes of its own, nobody else's.   *)
(***************************************************************************)
EXTENDS Naturals

CONSTANTS Proc, PGSIZE,
          Val,         \* contents of a page
          Image,       \* contents that come from a program's file, its arguments,
          Zero, Args,  \* and fresh memory
          NoSpace,     \* the memory of a process that does not exist
          MaxSz        \* bound on the size of a process

VARIABLE space  \* of each process, its size and the contents of its pages

Pages(sz) == 0..((sz + PGSIZE - 1) \div PGSIZE - 1)
IsSpace(s) == s # NoSpace /\ s.sz \in 0..MaxSz /\ s.page \in [Pages(s.sz) -> Val]

Init == \E p \in Proc : /\ IsSpace(space[p])
                        /\ \A q \in Proc \ {p} : space[q] = NoSpace

\* What may become of the memory s of a process: t.
Write(s, t) ==
  /\ t.sz = s.sz
  /\ \E i \in Pages(s.sz) : t.page = [s.page EXCEPT ![i] = t.page[i]]

\* sbrk: what stays keeps its contents, what is new is zero.
Resize(s, t) ==
  t.page = [i \in Pages(t.sz) |-> IF i \in Pages(s.sz) THEN s.page[i] ELSE Zero]

\* A program and its arguments, and nothing that any process ever wrote.
Exec(t) ==
  /\ t.sz >= 2 * PGSIZE /\ t.page \in [Pages(t.sz) -> Image]
  /\ t.page[t.sz \div PGSIZE - 1] = Args

Next ==
  LET s == space
      t == space'
  IN  \E p \in Proc :
        /\ \A q \in Proc \ {p} : t[q] = s[q]
        /\ IF s[p] = NoSpace
           THEN \E q \in Proc \ {p} : s[q] # NoSpace /\ t[p] = s[q]           \* fork
           ELSE \/ t[p] = NoSpace                                            \* exit
                \/ IsSpace(t[p]) /\ (Write(s[p], t[p]) \/ Resize(s[p], t[p]) \/ Exec(t[p]))

Spec == Init /\ [][Next]_space
===============================================================================
