------------------------------- MODULE BufCache -------------------------------
(***************************************************************************)
(* The buffer cache (kernel/bio.c) with its sleep-locks (sleeplock.c), and *)
(* processes that use it the way log.c does: a block that was changed is   *)
(* pinned (log_write) before it is released, and unpinned only after it    *)
(* was written to its place (install_trans).                               *)
(*                                                                         *)
(* A step is what happens under one holding of bcache.lock or of a         *)
(* sleep-lock's spin-lock, or one disk transfer.                           *)
(***************************************************************************)
EXTENDS Integers, FiniteSets, Sequences

CONSTANTS Proc,      \* each uses one buffer at a time
          NoProc, NBUF, Block, NoBlock, Value,
          MaxPin     \* blocks the log may hold pinned at once

ASSUME BufAssumption ==
  /\ IsFiniteSet(Proc) /\ NBUF \in Nat \ {0} /\ MaxPin \in Nat
  /\ NoProc \notin Proc /\ NoBlock \notin Block

Buf == 1..NBUF

VARIABLES
  blockno, valid, refcnt, locked, data,  \* struct buf
  lru,        \* the list, most recently used first
  disk,
  pinned,     \* blocks the log keeps pinned
  pc, buf,    \* each process: where it is and the buffer it uses
  unlogged,   \* its buffer was changed and not yet given to log_write or bwrite
  panicked

cache == <<blockno, valid, refcnt, data, lru>>
procs == <<pc, buf, unlogged>>
vars == <<cache, locked, disk, pinned, procs, panicked>>

\* binit
Init ==
  /\ blockno = [b \in Buf |-> NoBlock]
  /\ valid = [b \in Buf |-> FALSE]
  /\ refcnt = [b \in Buf |-> 0]
  /\ locked = [b \in Buf |-> NoProc]
  /\ disk \in {[k \in Block |-> v] : v \in Value}
  /\ data \in {[b \in Buf |-> v] : v \in Value}
  /\ lru = [i \in Buf |-> NBUF + 1 - i]
  /\ pinned = {}
  /\ pc = [p \in Proc |-> "idle"]
  /\ buf = [p \in Proc |-> 1]
  /\ unlogged = [p \in Proc |-> FALSE]
  /\ panicked = FALSE
-------------------------------------------------------------------------------
(***************************************************************************)
(* bget, bread                                                             *)
(***************************************************************************)
Cached(k) == \E b \in Buf : blockno[b] = k

bget_hit(p, k, b) ==
  /\ pc[p] = "idle" /\ blockno[b] = k
  /\ refcnt' = [refcnt EXCEPT ![b] = @ + 1]
  /\ buf' = [buf EXCEPT ![p] = b]
  /\ pc' = [pc EXCEPT ![p] = "got"]
  /\ UNCHANGED <<blockno, valid, data, lru, locked, disk, pinned, unlogged, panicked>>

\* The unused buffer nearest to the list's end.
LeastRecent(b) ==
  \E i \in DOMAIN lru : /\ lru[i] = b /\ refcnt[b] = 0
                        /\ \A j \in DOMAIN lru : j > i => refcnt[lru[j]] # 0

\* Mutants of bget_recycle: valid is left alone; the search is not repeated.
bget_recycle_valid(p, k, b) ==
  /\ pc[p] = "idle" /\ ~Cached(k) /\ LeastRecent(b)
  /\ blockno' = [blockno EXCEPT ![b] = k]
  /\ UNCHANGED valid
  /\ refcnt' = [refcnt EXCEPT ![b] = 1]
  /\ buf' = [buf EXCEPT ![p] = b]
  /\ pc' = [pc EXCEPT ![p] = "got"]
  /\ UNCHANGED <<data, lru, locked, disk, pinned, unlogged, panicked>>
bget_recycle_again(p, k, b) ==
  /\ pc[p] = "idle" /\ LeastRecent(b)
  /\ blockno' = [blockno EXCEPT ![b] = k]
  /\ valid' = [valid EXCEPT ![b] = FALSE]
  /\ refcnt' = [refcnt EXCEPT ![b] = 1]
  /\ buf' = [buf EXCEPT ![p] = b]
  /\ pc' = [pc EXCEPT ![p] = "got"]
  /\ UNCHANGED <<data, lru, locked, disk, pinned, unlogged, panicked>>

bget_recycle(p, k, b) ==
  /\ pc[p] = "idle" /\ ~Cached(k) /\ LeastRecent(b)
  /\ blockno' = [blockno EXCEPT ![b] = k]
  /\ valid' = [valid EXCEPT ![b] = FALSE]
  /\ refcnt' = [refcnt EXCEPT ![b] = 1]
  /\ buf' = [buf EXCEPT ![p] = b]
  /\ pc' = [pc EXCEPT ![p] = "got"]
  /\ UNCHANGED <<data, lru, locked, disk, pinned, unlogged, panicked>>

bget_panics(p, k) ==
  /\ pc[p] = "idle" /\ ~Cached(k) /\ \A b \in Buf : refcnt[b] # 0
  /\ panicked' = TRUE
  /\ UNCHANGED <<cache, locked, disk, pinned, procs>>

acquiresleep(p) ==
  /\ pc[p] = "got"
  /\ IF locked[buf[p]] = NoProc
     THEN /\ locked' = [locked EXCEPT ![buf[p]] = p]
          /\ pc' = [pc EXCEPT ![p] = "locked"]
     ELSE /\ pc' = [pc EXCEPT ![p] = "asleep"]
          /\ UNCHANGED locked
  /\ UNCHANGED <<cache, disk, pinned, buf, unlogged, panicked>>

\* kill() wakes a sleeper without reason; the loop of acquiresleep looks again.
kill(p) ==
  /\ pc[p] = "asleep"
  /\ pc' = [pc EXCEPT ![p] = "got"]
  /\ UNCHANGED <<cache, locked, disk, pinned, buf, unlogged, panicked>>

bread(p) ==
  /\ pc[p] = "locked"
  /\ data' = [data EXCEPT ![buf[p]] = IF valid[buf[p]] THEN @ ELSE disk[blockno[buf[p]]]]
  /\ valid' = [valid EXCEPT ![buf[p]] = TRUE]
  /\ pc' = [pc EXCEPT ![p] = "held"]
  /\ UNCHANGED <<blockno, refcnt, lru, locked, disk, pinned, buf, unlogged, panicked>>
-------------------------------------------------------------------------------
(***************************************************************************)
(* What the holder of a locked buffer does with it.                        *)
(***************************************************************************)
modify(p, v) ==
  /\ pc[p] \in {"held", "written"}
  /\ data' = [data EXCEPT ![buf[p]] = v]
  /\ unlogged' = [unlogged EXCEPT ![p] = TRUE]
  /\ pc' = [pc EXCEPT ![p] = "held"]
  /\ UNCHANGED <<blockno, valid, refcnt, lru, locked, disk, pinned, buf, panicked>>

bwrite(p) ==
  /\ pc[p] = "held"
  /\ disk' = [disk EXCEPT ![blockno[buf[p]]] = data[buf[p]]]
  /\ unlogged' = [unlogged EXCEPT ![p] = FALSE]
  /\ pc' = [pc EXCEPT ![p] = "written"]
  /\ UNCHANGED <<cache, locked, pinned, buf, panicked>>

\* log_write: a block that is in the log already has its pin.
bpin(p) ==
  /\ pc[p] = "held" /\ unlogged[p]
  /\ blockno[buf[p]] \in pinned \/ Cardinality(pinned) < MaxPin
  /\ LET b == buf[p] IN
       /\ refcnt' = [refcnt EXCEPT ![b] = IF blockno[b] \in pinned THEN @ ELSE @ + 1]
       /\ pinned' = pinned \cup {blockno[b]}
  /\ unlogged' = [unlogged EXCEPT ![p] = FALSE]
  /\ UNCHANGED <<blockno, valid, data, lru, locked, disk, pc, buf, panicked>>

\* Mutant of bunpin: before the block is written.
bunpin_early(p) ==
  /\ pc[p] = "held" /\ blockno[buf[p]] \in pinned
  /\ refcnt' = [refcnt EXCEPT ![buf[p]] = @ - 1]
  /\ pinned' = pinned \ {blockno[buf[p]]}
  /\ UNCHANGED <<blockno, valid, data, lru, locked, disk, procs, panicked>>

bunpin(p) ==
  /\ pc[p] = "written" /\ blockno[buf[p]] \in pinned
  /\ refcnt' = [refcnt EXCEPT ![buf[p]] = @ - 1]
  /\ pinned' = pinned \ {blockno[buf[p]]}
  /\ UNCHANGED <<blockno, valid, data, lru, locked, disk, procs, panicked>>
-------------------------------------------------------------------------------
(***************************************************************************)
(* brelse: releasesleep, then the reference under bcache.lock.             *)
(***************************************************************************)
\* Mutant of releasesleep: no wakeup.
releasesleep_silent(p) ==
  /\ pc[p] \in {"held", "written"} /\ ~unlogged[p]
  /\ locked' = [locked EXCEPT ![buf[p]] = NoProc]
  /\ pc' = [pc EXCEPT ![p] = "released"]
  /\ UNCHANGED <<cache, disk, pinned, buf, unlogged, panicked>>

releasesleep(p) ==
  /\ pc[p] \in {"held", "written"} /\ ~unlogged[p]
  /\ locked' = [locked EXCEPT ![buf[p]] = NoProc]
  /\ pc' = [q \in Proc |-> IF q = p THEN "released"
                           ELSE IF pc[q] = "asleep" /\ buf[q] = buf[p] THEN "got" ELSE pc[q]]
  /\ UNCHANGED <<cache, disk, pinned, buf, unlogged, panicked>>

\* The list with b taken out and put at its head.
MoveToFront(b) ==
  LET i == CHOOSE i \in Buf : lru[i] = b
  IN  [j \in Buf |-> IF j = 1 THEN b ELSE IF j <= i THEN lru[j - 1] ELSE lru[j]]

\* Mutants of brelse: the reference is kept; the buffer is not taken out of the list.
brelse_keeps(p) ==
  /\ pc[p] = "released"
  /\ refcnt' = refcnt
  /\ lru' = IF refcnt[buf[p]] = 1 THEN MoveToFront(buf[p]) ELSE lru
  /\ pc' = [pc EXCEPT ![p] = "idle"]
  /\ UNCHANGED <<blockno, valid, data, locked, disk, pinned, buf, unlogged, panicked>>
brelse_twice(p) ==
  /\ pc[p] = "released"
  /\ refcnt' = [refcnt EXCEPT ![buf[p]] = @ - 1]
  /\ lru' = IF refcnt[buf[p]] = 1 THEN <<buf[p]>> \o lru ELSE lru
  /\ pc' = [pc EXCEPT ![p] = "idle"]
  /\ UNCHANGED <<blockno, valid, data, locked, disk, pinned, buf, unlogged, panicked>>

brelse(p) ==
  /\ pc[p] = "released"
  /\ refcnt' = [refcnt EXCEPT ![buf[p]] = @ - 1]
  /\ lru' = IF refcnt[buf[p]] = 1 THEN MoveToFront(buf[p]) ELSE lru
  /\ pc' = [pc EXCEPT ![p] = "idle"]
  /\ UNCHANGED <<blockno, valid, data, locked, disk, pinned, buf, unlogged, panicked>>

Use(p) ==
  \/ \E k \in Block : \/ \E b \in Buf : bget_hit(p, k, b) \/ bget_recycle(p, k, b)
                      \/ bget_panics(p, k)
  \/ acquiresleep(p) \/ kill(p) \/ bread(p)
  \/ \E v \in Value : modify(p, v)
  \/ bwrite(p) \/ bpin(p) \/ bunpin(p)
  \/ releasesleep(p) \/ brelse(p)

\* panic() loops for ever.
Next ==
  \/ ~panicked /\ \E p \in Proc : Use(p)
  \/ panicked /\ UNCHANGED vars

Spec == Init /\ [][Next]_vars
-------------------------------------------------------------------------------
(***************************************************************************)
(* Properties.                                                             *)
(***************************************************************************)
Using == {"got", "asleep", "locked", "held", "written", "released"}

\* Every variable has the shape the code gives it; the list holds every buffer.
TypeOK ==
  /\ blockno \in [Buf -> Block \cup {NoBlock}]
  /\ valid \in [Buf -> BOOLEAN]
  /\ refcnt \in [Buf -> Nat]
  /\ locked \in [Buf -> Proc \cup {NoProc}]
  /\ data \in [Buf -> Value] /\ disk \in [Block -> Value]
  /\ lru \in [1..NBUF -> Buf] /\ \A b \in Buf : \E i \in DOMAIN lru : lru[i] = b
  /\ pinned \subseteq Block
  /\ pc \in [Proc -> Using \cup {"idle"}]
  /\ buf \in [Proc -> Buf] /\ unlogged \in [Proc -> BOOLEAN]
  /\ panicked \in BOOLEAN

\* A block has at most one buffer (bget holds bcache.lock from search to claim).
OneBuffer == \A b, c \in Buf : blockno[b] = blockno[c] => b = c \/ blockno[b] = NoBlock

(***************************************************************************)
(* refcnt counts the processes between bget and the end of brelse and the  *)
(* log's pin, no more and no less (bget, brelse, bpin, bunpin).            *)
(***************************************************************************)
Users(b) == {p \in Proc : pc[p] \in Using /\ buf[p] = b}
RefcntExact ==
  \A b \in Buf :
    refcnt[b] = Cardinality(Users(b)) + (IF blockno[b] \in pinned THEN 1 ELSE 0)

(***************************************************************************)
(* A buffer that is not in use may be recycled: unless it is pinned, or    *)
(* its holder has still to log it, a valid buffer has what the disk has.   *)
(***************************************************************************)
CleanUnlessPinned ==
  \A b \in Buf : valid[b] /\ data[b] # disk[blockno[b]] =>
    blockno[b] \in pinned \/ \E p \in Proc : buf[p] = b /\ pc[p] \in Using /\ unlogged[p]

\* The latest contents of a block; the process between bread and brelse.
Mem == [k \in Block |->
  LET B == {b \in Buf : blockno[b] = k /\ valid[b]}
  IN IF B = {} THEN disk[k] ELSE data[CHOOSE b \in B : TRUE]]
Owner == [k \in Block |->
  LET P == {p \in Proc : pc[p] \in {"held", "written"} /\ blockno[buf[p]] = k}
  IN IF P = {} THEN NoProc ELSE CHOOSE p \in P : TRUE]

Abs == INSTANCE BlockStore WITH mem <- Mem, owner <- Owner

(***************************************************************************)
(* The cache implements BlockStore: what bread returns is what the last    *)
(* holder left, through recycling, pinning and write-back, and only the    *)
(* holder changes it.                                                      *)
(***************************************************************************)
Coherent == Abs!Spec

(***************************************************************************)
(* Nobody sleeps on a sleep-lock that is free (acquiresleep, releasesleep),*)
(* and no two processes hold one (holdingsleep).                           *)
(***************************************************************************)
SleepLockSound ==
  \A p \in Proc :
    /\ pc[p] = "asleep" => locked[buf[p]] # NoProc
    /\ pc[p] \in {"locked", "held", "written"} <=> locked[buf[p]] = p

(***************************************************************************)
(* A block has one buffer, which is changed and not pinned only while it   *)
(* is held; its refcnt is the number of its users (bget, brelse, bpin,     *)
(* bunpin); and nobody sleeps on a sleep-lock that is free.                *)
(***************************************************************************)
Buffers == TypeOK /\ OneBuffer /\ RefcntExact /\ CleanUnlessPinned /\ SleepLockSound

\* bget "In either case, return locked buffer": it finds a buffer to recycle.
NoPanic == ~panicked
===============================================================================
