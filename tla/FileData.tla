------------------------------- MODULE FileData -------------------------------
(***************************************************************************)
(* The contents of files (kernel/fs.c, kernel/file.c): the block bitmap,   *)
(* the block numbers of an inode, reads and writes in chunks, truncation,  *)
(* and the image mkfs makes (mkfs/mkfs.c).                                 *)
(*                                                                         *)
(* A block holds BSIZE cells; a cell is a byte of a file or a block number *)
(* in an indirect block, as the code reads it.  A file is locked (ilock)   *)
(* for a chunk of a write, which goes on block by block while processes    *)
(* that use other files allocate and free blocks.  The log is what         *)
(* AtomicDisk says: chunks that run together reach the disk together.      *)
(***************************************************************************)
EXTENDS Integers, Sequences, FiniteSets, FiniteSetsExt, SequencesExt

CONSTANTS Proc,
          File,       \* inodes; Root is the root directory, which mkfs fills
          Root,
          Handle, of, \* open files and their inodes
          Block,      \* numbers of the data blocks
          BSIZE, NDIRECT, NINDIRECT,
          BPB,        \* blocks per block of the bitmap
          MAXOPBLOCKS,
          Image, Len0,\* files in the image, in order, and how many bytes they have
          Reads, Writes, \* bound: their lengths
          Group,      \* bound: transactions of a commit (begin_op waits for log space)
          ByteOf(_, _), \* what is written to a file at a position
          None

MAXFILE == NDIRECT + NINDIRECT
\* filewrite writes no more than this at a time.
max == ((MAXOPBLOCKS - 1 - 1 - 2) \div 2) * BSIZE

ASSUME FileDataAssumption ==
  /\ Root \in File /\ of \in [Handle -> File \ {Root}]
  /\ Block \subseteq Nat \ {0} /\ IsFiniteSet(Block) /\ NINDIRECT <= BSIZE
  /\ BSIZE > 0 /\ NDIRECT > 0 /\ BPB > 0 /\ max > 0 /\ Image \in Seq(File \ {Root})

VARIABLES fs,     \* the file system as the buffers have it: used blocks, and of each
                  \* file its addrs (NDIRECT is the indirect block) and size; cells
          saved,  \* the same, as the last commit left it
          off,    \* struct file
          lock,   \* struct inode
          ops,    \* transactions begun since the last commit
          at,     \* of each process: the write under way
          panic

vars == <<fs, saved, off, lock, ops, at, panic>>

Zero == [c \in 0..(BSIZE - 1) |-> 0]
Least(a, b) == IF a < b THEN a ELSE b
-------------------------------------------------------------------------------
(***************************************************************************)
(* Blocks.  wrote collects what goes to the log: blocks, blocks of the     *)
(* bitmap, inodes.                                                         *)
(***************************************************************************)
bitmap(b) == <<"bitmap", b \div BPB>>

balloc_in(d, blocks) ==
  LET free == blocks \ d.used
      b == Min(free)
  IN  IF free = {} THEN [d |-> d, addr |-> 0, wrote |-> {}]
      ELSE [d |-> [d EXCEPT !.used = @ \cup {b}, !.cell[b] = Zero],
            addr |-> b, wrote |-> {bitmap(b), <<"block", b>>}]
\* Mutant of balloc: the search goes one block too far.
ballocPast(d) == balloc_in(d, Block \cup {Max(Block) + 1})
balloc(d) == balloc_in(d, Block)

\* The block of index bn of file f, 0 if there is none.
Addr(d, f, bn) ==
  LET ind == d.addrs[f][NDIRECT]
  IN  IF bn < NDIRECT THEN d.addrs[f][bn]
      ELSE IF ind = 0 THEN 0 ELSE d.cell[ind][bn - NDIRECT]

\* The same, allocated if there is none; 0 if the disk is full.
bmap(d, f, bn) ==
  LET first == balloc(d)
      at_addrs(k) == [first EXCEPT !.d.addrs[f][k] = first.addr]
      ind == IF d.addrs[f][NDIRECT] = 0 THEN at_addrs(NDIRECT)
             ELSE [d |-> d, addr |-> d.addrs[f][NDIRECT], wrote |-> {}]
      new == balloc(ind.d)
  IN  IF Addr(d, f, bn) # 0 THEN [d |-> d, addr |-> Addr(d, f, bn), wrote |-> {}]
      ELSE IF bn < NDIRECT THEN at_addrs(bn)
      ELSE IF ind.addr = 0 THEN ind
      ELSE IF new.addr = 0 THEN [new EXCEPT !.wrote = ind.wrote]
      ELSE [d |-> [new.d EXCEPT !.cell[ind.addr][bn - NDIRECT] = new.addr], addr |-> new.addr,
            wrote |-> ind.wrote \cup new.wrote \cup {<<"block", ind.addr>>}]

\* The blocks that the indirect block of f names.
Indirect(d, f) ==
  LET ind == d.addrs[f][NDIRECT]
  IN  {<<"ind", k, d.cell[ind][k]>> : k \in {j \in 0..(NINDIRECT - 1) :
         ind # 0 /\ d.cell[ind][j] # 0}}
\* Every place in f that names a block, with the block.
Places(d, f) ==
  {<<"addrs", k, d.addrs[f][k]>> : k \in {j \in 0..NDIRECT : d.addrs[f][j] # 0}}
    \cup Indirect(d, f)
BlocksOf(d, f) == {i[3] : i \in Places(d, f)}

freed(d, f, B) ==
  [d EXCEPT !.used = @ \ B, !.addrs[f] = [k \in 0..NDIRECT |-> 0], !.size[f] = 0]
\* Mutant of itrunc: what the indirect block names stays allocated.
itruncShallow(d, f) == freed(d, f, {d.addrs[f][k] : k \in 0..NDIRECT})
itrunc(d, f) == freed(d, f, BlocksOf(d, f))
-------------------------------------------------------------------------------
(***************************************************************************)
(* Reading.                                                                *)
(***************************************************************************)
\* The bytes readi copies: at most n, none beyond the size.
readi(d, f, o, n) ==
  LET m == IF o > d.size[f] THEN 0 ELSE Least(n, d.size[f] - o)
      Cell(k) == LET b == Addr(d, f, k \div BSIZE)
                 IN  IF b = 0 THEN 0 ELSE d.cell[b][k % BSIZE]
  IN  [k \in 1..m |-> Cell(o + k - 1)]

\* readi runs outside a transaction: a block that bmap has to allocate goes to
\* log_write, which panics.
readiBad(d, f, o, n) ==
  \E k \in o..(Least(o + n, d.size[f]) - 1) : Addr(d, f, k \div BSIZE) = 0

Holds(d, f) == readi(d, f, 0, d.size[f])

fileread(p, h, n) ==
  /\ at[p] = None /\ lock[of[h]] = None
  /\ off' = [off EXCEPT ![h] = @ + Len(readi(fs, of[h], @, n))]
  /\ panic' = readiBad(fs, of[h], off[h], n)
  /\ UNCHANGED <<fs, saved, lock, ops, at>>

\* A directory is read from its start to its end (dirlookup, ls).
dirread(p) ==
  /\ at[p] = None /\ lock[Root] = None
  /\ panic' = readiBad(fs, Root, 0, fs.size[Root])
  /\ UNCHANGED <<fs, saved, off, lock, ops, at>>
-------------------------------------------------------------------------------
(***************************************************************************)
(* Writing.  at[p] is the write of p: the open file, the bytes it still    *)
(* has to write, and of the chunk under way its length n1, the bytes       *)
(* written (tot), whether the loop of writei has ended, and wrote, the     *)
(* blocks its transaction has written.  Before a chunk n1 is 0.            *)
(***************************************************************************)
Writing(h, n) ==
  [h |-> h, left |-> n, n1 |-> 0, tot |-> 0, ended |-> FALSE, wrote |-> {}, held |-> <<>>]

\* end_op: the last of the transactions under way commits; n have begun.
Commits(d, a, n) ==
  LET last == \A q \in Proc : a[q] = None \/ a[q].n1 = 0
  IN  saved' = (IF last THEN d ELSE saved) /\ ops' = (IF last THEN 0 ELSE n)

filewrite(p, h, n) ==
  /\ at[p] = None
  /\ at' = [at EXCEPT ![p] = Writing(h, n)]
  /\ UNCHANGED <<fs, saved, off, lock, ops, panic>>

\* begin_op, ilock and the tests of writei; held keeps what the file held.
chunk_of(p, most) ==
  LET a == at[p]
      f == of[a.h]
      n1 == Least(a.left, most)
  IN  /\ a # None /\ a.n1 = 0 /\ lock[f] = None /\ ops < Group
      /\ IF off[a.h] > fs.size[f] \/ off[a.h] + n1 > MAXFILE * BSIZE
         THEN at' = [at EXCEPT ![p] = None] /\ UNCHANGED <<lock, ops>>
         ELSE /\ at' = [at EXCEPT ![p].n1 = n1, ![p].held = Holds(fs, f)]
              /\ lock' = [lock EXCEPT ![f] = p] /\ ops' = ops + 1
      /\ UNCHANGED <<fs, saved, off, panic>>
\* Mutant of chunk: without the 2 blocks of slop for non-aligned writes.
chunkLarge(p) == chunk_of(p, ((MAXOPBLOCKS - 1 - 1) \div 2) * BSIZE)
chunk(p) == chunk_of(p, max)

\* Bytes o to o + m - 1 of f, which are in block b, are written.
Put(d, f, b, o, m) ==
  [d EXCEPT !.cell[b] = [c \in 0..(BSIZE - 1) |->
     IF o % BSIZE <= c /\ c < (o % BSIZE) + m THEN ByteOf(f, (o - (o % BSIZE)) + c) ELSE @[c]]]

\* One turn of the loop of writei; either_copyin may fail.
writei(p) ==
  LET a == at[p]
      o == off[a.h] + a.tot
      m == Least(a.n1 - a.tot, BSIZE - (o % BSIZE))
      to == bmap(fs, of[a.h], o \div BSIZE)
      w == a.wrote \cup to.wrote
  IN  /\ a # None /\ a.n1 > 0 /\ ~a.ended
      /\ \/ /\ fs' = to.d
            /\ at' = [at EXCEPT ![p].ended = TRUE, ![p].wrote = w]
         \/ /\ to.addr # 0
            /\ fs' = Put(to.d, of[a.h], to.addr, o, m)
            /\ at' = [at EXCEPT ![p].ended = (a.tot + m = a.n1), ![p].tot = a.tot + m,
                                ![p].wrote = w \cup {<<"block", to.addr>>}]
      /\ UNCHANGED <<saved, off, lock, ops, panic>>

\* The end of writei and of the chunk: the size, iupdate, f->off, iunlock, end_op.
\* A chunk short of n1 ends the write with -1.
finish(p, moves) ==
  LET a == at[p]
      f == of[a.h]
      end == off[a.h] + a.tot
      d == [fs EXCEPT !.size[f] = IF end > @ THEN end ELSE @]
      t == [at EXCEPT ![p] = IF a.tot # a.n1 \/ a.left = a.tot THEN None
                             ELSE Writing(a.h, a.left - a.tot)]
  IN  /\ a # None /\ a.ended
      /\ fs' = d /\ at' = t /\ Commits(d, t, ops)
      /\ off' = [off EXCEPT ![a.h] = @ + moves]
      /\ lock' = [lock EXCEPT ![f] = None]
      /\ UNCHANGED panic
\* Mutant of writei_end: the offset moves by what was asked for.
writei_endAll(p) == finish(p, at[p].n1)
writei_end(p) == finish(p, at[p].tot)
-------------------------------------------------------------------------------
\* open sets the offset to 0, and with O_TRUNC empties the file.
open(p, h, trunc) ==
  LET f == of[h]
      d == itrunc(fs, f)
  IN  /\ at[p] = None /\ lock[f] = None
      /\ off' = [off EXCEPT ![h] = 0]
      /\ IF trunc
         THEN ops < Group /\ fs' = d /\ Commits(d, at, ops + 1) /\ panic' = ~(BlocksOf(fs, f) \subseteq fs.used)
         ELSE UNCHANGED <<fs, saved, ops, panic>>
      /\ UNCHANGED <<lock, at>>

\* Power is lost; recovery brings back what the last commit left.
crash ==
  /\ fs' = saved /\ UNCHANGED saved
  /\ off' = [h \in Handle |-> 0]
  /\ lock' = [f \in File |-> None] /\ at' = [p \in Proc |-> None]
  /\ ops' = 0 /\ panic' = FALSE
-------------------------------------------------------------------------------
(***************************************************************************)
(* mkfs: the root directory gets "." and "..", then an entry for each      *)
(* file, followed by the contents of the file.  Blocks are taken in order, *)
(* at the places where bmap would have them.                               *)
(***************************************************************************)
iappend(d, f) ==
  LET to == bmap(d, f, d.size[f] \div BSIZE)
  IN  [Put(to.d, f, to.addr, d.size[f], 1) EXCEPT !.size[f] = @ + 1]

Appends ==
  LET Of(f) == <<Root>> \o [k \in 1..Len0 |-> f]
  IN  <<Root, Root>> \o FlattenSeq([i \in DOMAIN Image |-> Of(Image[i])])

\* "fix size of root inode dir": to the end of its block
mkfs_in(more) ==
  LET empty == [used |-> {}, addrs |-> [f \in File |-> [k \in 0..NDIRECT |-> 0]],
                size |-> [f \in File |-> 0], cell |-> [b \in Block |-> Zero]]
  IN  [FoldLeft(iappend, empty, Appends) EXCEPT !.size[Root] = ((@ \div BSIZE) + more) * BSIZE]
\* Mutant of mkfs: the size is rounded to one block too many.
mkfsLarge == mkfs_in(2)
mkfs == mkfs_in(1)
-------------------------------------------------------------------------------
Init ==
  /\ fs = mkfs /\ saved = fs
  /\ off = [h \in Handle |-> 0] /\ lock = [f \in File |-> None]
  /\ at = [p \in Proc |-> None] /\ ops = 0 /\ panic = FALSE

Next ==
  /\ ~panic
  /\ \/ \E p \in Proc, h \in Handle, n \in Reads : fileread(p, h, n)
     \/ \E p \in Proc, h \in Handle, n \in Writes : filewrite(p, h, n)
     \/ \E p \in Proc : dirread(p) \/ chunk(p) \/ writei(p) \/ writei_end(p)
     \/ \E p \in Proc, h \in Handle, trunc \in BOOLEAN : open(p, h, trunc)
     \/ crash

Spec == Init /\ [][Next]_vars
-------------------------------------------------------------------------------
Op == Writing(CHOOSE h \in Handle : TRUE, 0)
TypeOK ==
  /\ fs.used \subseteq Block /\ fs.cell \in [Block -> [0..(BSIZE - 1) -> Nat]]
  /\ fs.addrs \in [File -> [0..NDIRECT -> Block \cup {0}]] /\ fs.size \in [File -> Nat]
  /\ off \in [Handle -> Nat] /\ lock \in [File -> Proc \cup {None}]
  /\ \A p \in Proc : at[p] = None \/ DOMAIN at[p] = DOMAIN Op
  /\ ops \in 0..Group /\ panic \in BOOLEAN

\* A block is marked in the bitmap exactly when a file names it, and only one file names
\* it, at one place, whatever writes and truncations run at once and wherever a crash
\* comes between them (balloc, bfree, bmap, itrunc).
BlocksExact ==
  /\ fs.used = UNION {BlocksOf(fs, f) : f \in File}
  /\ \A f, g \in File : f # g => BlocksOf(fs, f) \cap BlocksOf(fs, g) = {}
  /\ \A f \in File : Cardinality(BlocksOf(fs, f)) = Cardinality(Places(fs, f))

\* No read comes upon a block of a file that is not allocated: readi would allocate it
\* outside a transaction and panic in log_write; and bfree frees no free block.
NoPanic == ~panic

\* "avoid exceeding the maximum log transaction size, including i-node, indirect block,
\* allocation blocks, and 2 blocks of slop for non-aligned writes": a chunk of filewrite
\* writes at most MAXOPBLOCKS blocks, even when each block it allocates has its bit in
\* another block of the bitmap.
TransactionFits ==
  \A p \in Proc : at[p] # None /\ at[p].n1 > 0 =>
    Cardinality(at[p].wrote \cup {<<"inode", of[at[p].h]>>}) <= MAXOPBLOCKS

\* What processes see of a file is a sequence of bytes: a write replaces the bytes at the
\* offset of its open file and moves it by what it wrote, in chunks that no process sees
\* half done; what was there before shows only where nothing was written, even in a block
\* that another file gave up; a crash brings back what the files held at a commit.
Seen(f) == IF lock[f] = None THEN Holds(fs, f) ELSE at[lock[f]].held
Bytes == INSTANCE ByteFile WITH
  bytes <- [f \in File \ {Root} |-> Seen(f)],
  stable <- [f \in File \ {Root} |-> Holds(saved, f)],
  ByteOf <- ByteOf, MaxLen <- MAXFILE * BSIZE
ByteFiles == Bytes!Spec
===============================================================================
