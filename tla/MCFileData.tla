------------------------------ MODULE MCFileData ------------------------------
(***************************************************************************)
(* Two processes that share two open files, of one file each, on a disk    *)
(* with fewer blocks than the files may have together.                     *)
(***************************************************************************)
EXTENDS FileData

CONSTANTS p1, p2, h1, h2, Blocks

MCFile == {0, 1, 2}
MCof == [h \in {h1, h2} |-> IF h = h1 THEN 1 ELSE 2]
MCBlock == 1..Blocks
MCImage == <<1>>
MCByteOf(f, k) == 10 * (f + 1) + k

\* balloc clears a block, so what a free one holds is not told apart.
Cleared(d) == [d EXCEPT !.cell = [b \in Block |-> IF b \in d.used THEN @[b] ELSE Zero]]
View == <<Cleared(fs), Cleared(saved), off, lock, ops, at, panic>>
Symmetry == Permutations(Proc)

\* A block is marked in the bitmap when one file names it at one place, whatever writes
\* and truncations run and wherever a crash comes between them (balloc, bfree, itrunc).
Bitmap == TypeOK /\ BlocksExact

\* A chunk of filewrite fits the transaction begin_op reserved for it, nothing is
\* allocated outside a transaction, and bfree frees no free block.
Transactions == TransactionFits /\ NoPanic
===============================================================================
