--------------------------------- MODULE Bytes --------------------------------
(***************************************************************************)
(* Bytes and strings that cross the boundary of the kernel: memmove in its *)
(* two versions (kernel/string.c, user/ulib.c), copyin, copyout and        *)
(* copyinstr over a page table (kernel/vm.c), and the way of a path name   *)
(* from user memory to the entries of a directory: skipelem, namecmp and   *)
(* the strncpy of dirlink (kernel/fs.c).                                   *)
(***************************************************************************)
EXTENDS Integers, Sequences, FiniteSetsExt, SequencesExt

CONSTANTS PGSIZE, DIRSIZ,
          Frames,     \* the number of physical pages
          NoPage,     \* walkaddr returns 0
          PageTables,     \* page tables: va \div PGSIZE -> a frame or NoPage
          Characters, \* those of a name
          Filled      \* bound: the bytes of memory that are set

VARIABLES mem,        \* physical memory, set from address 0 on, NUL behind
          pt          \* the page table of the process
vars == <<mem, pt>>

NUL == "0"
Slash == "/"
Size == Frames * PGSIZE
At(m, a) == IF a < Len(m) THEN m[a + 1] ELSE NUL
Part(m, a, n) == [i \in 1..n |-> At(m, a + i - 1)]
Whole == Part(mem, 0, Size)
-------------------------------------------------------------------------------
\* One byte at a time, in the order of the offsets.
Move(m, d, s, offsets) == FoldLeft(LAMBDA x, i : [x EXCEPT ![d + i + 1] = x[s + i + 1]], m, offsets)
Up(n) == [i \in 1..n |-> i - 1]
Down(n) == Reverse(Up(n))
\* Mutant of memmove: the overlap is not looked at.
memmoveUp(m, d, s, n) == Move(m, d, s, Up(n))
memmove(m, d, s, n) == Move(m, d, s, IF s < d /\ s + n > d THEN Down(n) ELSE Up(n))
ulib_memmove(m, d, s, n) == Move(m, d, s, IF s > d THEN Up(n) ELSE Down(n))
-------------------------------------------------------------------------------
Least(a, b) == IF a < b THEN a ELSE b
walkaddr(va) == IF va \div PGSIZE \in DOMAIN pt THEN pt[va \div PGSIZE] ELSE NoPage
Pa(va) == walkaddr(va) * PGSIZE + (va % PGSIZE)
\* What is copied of the page of va when left bytes are still to come; a mutant does
\* not look at where in the page va is.
InPageLong(va, left) == Least(PGSIZE, left)
InPage(va, left) == Least(PGSIZE - (va % PGSIZE), left)

\* The next page begins at Then(va).
Then(va) == va - (va % PGSIZE) + PGSIZE

RECURSIVE copyin(_, _)
copyin(srcva, len) ==
  LET n == InPage(srcva, len)
      rest == copyin(Then(srcva), len - n)
  IN  IF len = 0 THEN [ok |-> TRUE, dst |-> <<>>]
      ELSE IF walkaddr(srcva) = NoPage THEN [ok |-> FALSE, dst |-> <<>>]
      ELSE [rest EXCEPT !.dst = Part(mem, Pa(srcva), n) \o @]

RECURSIVE copyout(_, _, _)
copyout(m, dstva, src) ==
  LET n == InPage(dstva, Len(src))
      copied == [a \in DOMAIN m |-> IF a - 1 \in Pa(dstva)..(Pa(dstva) + n - 1)
                                    THEN src[a - Pa(dstva)] ELSE m[a]]
  IN  IF src = <<>> THEN [ok |-> TRUE, mem |-> m]
      ELSE IF walkaddr(dstva) = NoPage THEN [ok |-> FALSE, mem |-> m]
      ELSE copyout(copied, Then(dstva), SubSeq(src, n + 1, Len(src)))

\* The string that arrives, in a set; none when it is not mapped or not ended by max.
RECURSIVE copyinstr(_, _, _)
copyinstr(srcva, max, got) ==
  LET n == InPage(srcva, max)
      piece == Part(mem, Pa(srcva), n)
      ends == {i \in 1..n : piece[i] = NUL}
  IN  IF max = 0 \/ walkaddr(srcva) = NoPage THEN {}
      ELSE IF ends # {} THEN {got \o SubSeq(piece, 1, Min(ends) - 1)}
      ELSE copyinstr(Then(srcva), max - n, got \o piece)
-------------------------------------------------------------------------------
\* strings in buffers of DIRSIZ bytes: what follows a NUL is whatever was there.
strncpy(t) == [i \in 1..DIRSIZ |-> IF \E k \in 1..i : At(t, k - 1) = NUL THEN NUL ELSE t[i]]
RECURSIVE strncmp(_, _, _)
strncmp(p, q, i) ==
  \/ i > DIRSIZ
  \/ p[i] = q[i] /\ (p[i] = NUL \/ strncmp(p, q, i + 1))
namecmp(s, t) == strncmp(s, t, 1)

\* The rest of the path and the name, written over the one before; none: {}.
skipelem_in(path, name, ended) ==
  LET First(s, is(_)) == Min({Len(path) + 1} \cup {i \in s..Len(path) : is(path[i])})
      s == First(1, LAMBDA c : c # Slash)
      e == First(s, LAMBDA c : c = Slash)
      len == e - s
      next == First(e, LAMBDA c : c # Slash)
  IN  IF s > Len(path) THEN {}
      ELSE {[path |-> SubSeq(path, next, Len(path)),
             name |-> [i \in 1..DIRSIZ |-> IF i <= len THEN path[s + i - 1]
                                           ELSE IF i = len + 1 /\ ended THEN NUL ELSE name[i]]]}
\* Mutant: a short name is not ended.
skipelemOpen(path, name) == skipelem_in(path, name, FALSE)
skipelem(path, name) == skipelem_in(path, name, TRUE)

\* The names namex looks up, one after another.
RECURSIVE names(_, _)
names(path, name) ==
  IF skipelem(path, name) = {} THEN <<>>
  ELSE LET r == CHOOSE x \in skipelem(path, name) : TRUE
       IN  <<r.name>> \o names(r.path, r.name)
-------------------------------------------------------------------------------
Init == mem = <<>> /\ pt \in PageTables
Next ==
  /\ Len(mem) < Filled /\ UNCHANGED pt
  /\ \E c \in Characters \cup {Slash, NUL} : mem' = Append(mem, c)
Spec == Init /\ [][Next]_vars
-------------------------------------------------------------------------------
Vas == 0..(Size - 1)
\* The bytes from va on that can be read one by one, up to n of them.
Mapped(va, n) == Max({0} \cup {k \in 1..n : \A i \in 0..(k - 1) : walkaddr(va + i) # NoPage})
ByteAt(va) == At(mem, Pa(va))

\* memmove, in the kernel and in the user library, leaves at the destination what was at
\* the source before, however the two overlap, and changes nothing else.
Moved ==
  \A d, s \in Vas : \A n \in 0..(Size - (IF d < s THEN s ELSE d)) :
    LET moved == [a \in 1..Size |-> IF a - 1 \in d..(d + n - 1) THEN Whole[a - d + s] ELSE Whole[a]]
    IN  memmove(Whole, d, s, n) = moved /\ ulib_memmove(Whole, d, s, n) = moved

\* copyin and copyout act on the bytes one by one, on whatever pages they lie, up to the
\* first that is not mapped; they succeed when there is none.
Copied ==
  \A va \in Vas, n \in 0..Size :
    LET k == Mapped(va, n)
        in == copyin(va, n)
        src == [i \in 1..n |-> <<i>>]
        out == copyout(Whole, va, src)
    IN  /\ in = [ok |-> k = n, dst |-> [i \in 1..k |-> ByteAt(va + i - 1)]]
        /\ out.ok = (k = n)
        /\ \A i \in 1..k : out.mem[Pa(va + i - 1) + 1] = src[i]
        /\ \A a \in 1..Size : a - 1 \notin {Pa(va + i - 1) : i \in 1..k} => out.mem[a] = Whole[a]

\* A path that lies at va arrives with exactly its bytes up to the first NUL, if that is
\* mapped and among the first max.
Strings(va, max) ==
  {[i \in 1..k |-> ByteAt(va + i - 1)] : k \in {j \in 0..(max - 1) :
     /\ Mapped(va, j + 1) = j + 1 /\ ByteAt(va + j) = NUL
     /\ \A i \in 0..(j - 1) : ByteAt(va + i) # NUL}}
Fetched == \A va \in Vas, max \in 0..Size : copyinstr(va, max, <<>>) = Strings(va, max)

\* namex looks up the elements of the path in order, and finds by each exactly the
\* entries that were made for an element that agrees with it in the first DIRSIZ bytes,
\* though skipelem leaves behind the end of a name the bytes of the one before.
RECURSIVE Elements(_)
Elements(s) ==
  LET e == Min({Len(s) + 1} \cup {i \in DOMAIN s : s[i] = Slash})
      rest == Elements(SubSeq(s, e + 1, Len(s)))
  IN  IF s = <<>> THEN <<>> ELSE IF e = 1 THEN rest
      ELSE <<SubSeq(s, 1, Least(e - 1, DIRSIZ))>> \o rest
Named ==
  \A path \in Strings(0, Size) :
    LET ns == names(path, [i \in 1..DIRSIZ |-> NUL])
        es == Elements(path)
    IN  /\ Len(ns) = Len(es)
        /\ \A i, j \in DOMAIN es : namecmp(ns[i], strncpy(ns[j])) <=> es[i] = es[j]
===============================================================================
