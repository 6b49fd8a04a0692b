--------------------------- MODULE BufCacheProofs -----------------------------
(***************************************************************************)
(* Proofs about BufCache, for any number of buffers, blocks and processes. *)
(***************************************************************************)
EXTENDS BufCache, FiniteSetTheorems, TLAPS

Holding == {"locked", "held", "written"}

\* A sleep-lock is held by a process that uses its buffer.
LockInv ==
  /\ SleepLockSound
  /\ \A b \in Buf : locked[b] # NoProc => buf[locked[b]] = b /\ pc[locked[b]] \in Holding

\* What each process knows of its buffer, and the log of its pins.
UseInv ==
  /\ \A p \in Proc : pc[p] \in Using => blockno[buf[p]] \in Block
  /\ \A p \in Proc : unlogged[p] => pc[p] = "held"
  /\ \A p \in Proc : pc[p] \in {"held", "written"} => valid[buf[p]]
  /\ \A p \in Proc : pc[p] = "written" => data[buf[p]] = disk[blockno[buf[p]]]
  /\ \A k \in pinned : Cached(k)
  /\ \A b \in Buf : valid[b] => blockno[b] \in Block

BufInv ==
  TypeOK /\ OneBuffer /\ RefcntExact /\ CleanUnlessPinned /\ LockInv /\ UseInv

USE DEF cache, procs
-------------------------------------------------------------------------------
\* The buffers are numbered from 1 (struct buf buf[NBUF]).
LEMMA BufFacts == 1 \in Buf /\ Buf \subseteq Nat /\ Buf = 1..NBUF /\ NBUF \in Nat
BY BufAssumption DEF Buf

\* A process that uses a buffer, and a pin, count in its refcnt (bget, bpin).
LEMMA RefPositive ==
  ASSUME TypeOK, RefcntExact, NEW b \in Buf
  PROVE  /\ refcnt[b] \in Nat
         /\ refcnt[b] = 0 => blockno[b] \notin pinned /\ \A p \in Proc : ~(pc[p] \in Using /\ buf[p] = b)
         /\ Users(b) # {} \/ blockno[b] \in pinned => refcnt[b] > 0
<1>1. IsFiniteSet(Users(b))
  BY Zenon, BufAssumption, FS_Subset DEF Users
<1>2. Cardinality(Users(b)) \in Nat /\ (Cardinality(Users(b)) = 0 <=> Users(b) = {})
  BY Zenon, <1>1, FS_CardinalityType, FS_EmptySet
<1>3. refcnt[b] \in Nat
  BY Zenon DEF TypeOK
<1>4. refcnt[b] = 0 => Users(b) = {} /\ blockno[b] \notin pinned
  BY <1>2 DEF RefcntExact
<1>5. QED
  BY <1>2, <1>3, <1>4 DEF RefcntExact, Users

\* The move to the head of the list loses no buffer (brelse).
LEMMA MoveKeepsAll ==
  ASSUME TypeOK, NEW b \in Buf
  PROVE  /\ MoveToFront(b) \in [Buf -> Buf]
         /\ \A c \in Buf : \E i \in Buf : MoveToFront(b)[i] = c
<1> DEFINE i == CHOOSE i \in Buf : lru[i] = b
<1> DEFINE m == [j \in Buf |-> IF j = 1 THEN b ELSE IF j <= i THEN lru[j - 1] ELSE lru[j]]
<1>1. lru \in [Buf -> Buf] /\ \A c \in Buf : \E j \in Buf : lru[j] = c
  BY BufFacts, Zenon DEF TypeOK
<1>2. i \in Buf /\ lru[i] = b
  BY Zenon, <1>1
<1> HIDE DEF i
<1>3. \A j \in Buf : j # 1 /\ j <= i => j - 1 \in Buf
  BY BufFacts
<1>4. m \in [Buf -> Buf]
  BY Zenon, <1>1, <1>3
<1>5. ASSUME NEW c \in Buf PROVE \E j \in Buf : m[j] = c
  <2>1. PICK j \in Buf : lru[j] = c
    BY Zenon, <1>1
  <2>2. CASE j = i
    BY Zenon, <1>2, <2>1, <2>2, BufFacts
  <2>3. CASE j < i
    <3>1. j + 1 \in Buf /\ j + 1 # 1 /\ j + 1 <= i /\ (j + 1) - 1 = j
      BY <1>2, <2>3, BufFacts
    <3>2. QED
      BY Zenon, <2>1, <3>1
  <2>4. CASE j > i
    <3>1. j # 1 /\ ~(j <= i)
      BY <1>2, <2>4, BufFacts
    <3>2. QED
      BY Zenon, <2>1, <3>1
  <2>5. QED
    BY <1>2, <2>2, <2>3, <2>4, BufFacts
<1>6. MoveToFront(b) = m
  BY Zenon DEF MoveToFront, i
<1>7. QED
  BY Zenon, <1>4, <1>5, <1>6

\* Every step keeps the types.
LEMMA TypeStep ==
  ASSUME TypeOK, RefcntExact, UseInv, [Next]_vars
  PROVE  TypeOK'
<1>1. ASSUME NEW p \in Proc, NEW k \in Block, NEW b \in Buf, bget_hit(p, k, b) PROVE TypeOK'
  BY <1>1 DEF TypeOK, Using, bget_hit
<1>2. ASSUME NEW p \in Proc, NEW k \in Block, NEW b \in Buf, bget_recycle(p, k, b) PROVE TypeOK'
  BY Zenon, <1>2 DEF TypeOK, Using, bget_recycle, Cached, LeastRecent
<1>3. ASSUME NEW p \in Proc, NEW k \in Block, bget_panics(p, k) PROVE TypeOK'
  BY Zenon, <1>3 DEF TypeOK, Using, bget_panics
<1>4. ASSUME NEW p \in Proc, acquiresleep(p) PROVE TypeOK'
  BY <1>4, Zenon DEF TypeOK, Using, acquiresleep
<1>5. ASSUME NEW p \in Proc, kill(p) PROVE TypeOK'
  BY Zenon, <1>5 DEF TypeOK, Using, kill
<1>6. ASSUME NEW p \in Proc, bread(p) PROVE TypeOK'
  BY Zenon, <1>6 DEF TypeOK, Using, UseInv, bread
<1>7. ASSUME NEW p \in Proc, NEW v \in Value, modify(p, v) PROVE TypeOK'
  BY Zenon, <1>7 DEF TypeOK, Using, modify
<1>8. ASSUME NEW p \in Proc, bwrite(p) PROVE TypeOK'
  BY Zenon, <1>8 DEF TypeOK, Using, UseInv, bwrite
<1>9. ASSUME NEW p \in Proc, bpin(p) PROVE TypeOK'
  BY <1>9 DEF TypeOK, Using, UseInv, bpin
<1>10. ASSUME NEW p \in Proc, bunpin(p) PROVE TypeOK'
  <2>1. buf[p] \in Buf /\ refcnt[buf[p]] \in Nat /\ refcnt[buf[p]] > 0
    BY Zenon, <1>10, RefPositive DEF TypeOK, bunpin
  <2>2. QED
    BY <1>10, <2>1 DEF TypeOK, bunpin
<1>11. ASSUME NEW p \in Proc, releasesleep(p) PROVE TypeOK'
  BY Zenon, <1>11 DEF TypeOK, Using, releasesleep
<1>12. ASSUME NEW p \in Proc, brelse(p) PROVE TypeOK'
  <2>1. pc[p] = "released" /\ buf[p] \in Buf /\ refcnt[buf[p]] \in Nat /\ refcnt[buf[p]] > 0
    BY Zenon, <1>12, RefPositive DEF TypeOK, brelse, Users, Using
  <2>2. refcnt' \in [Buf -> Nat] /\ pc' \in [Proc -> Using \cup {"idle"}]
    BY <1>12, <2>1 DEF TypeOK, brelse
  <2>3. lru' \in [Buf -> Buf] /\ \A b \in Buf : \E j \in Buf : lru'[j] = b
    <3>1. /\ MoveToFront(buf[p]) \in [Buf -> Buf]
          /\ \A b \in Buf : \E j \in Buf : MoveToFront(buf[p])[j] = b
      BY <2>1, MoveKeepsAll, Zenon
    <3>2. lru \in [Buf -> Buf] /\ \A b \in Buf : \E j \in Buf : lru[j] = b
      BY BufFacts, Zenon DEF TypeOK
    <3>3. lru' = MoveToFront(buf[p]) \/ lru' = lru
      BY Zenon, <1>12 DEF brelse
    <3>4. QED
      BY Zenon, <3>1, <3>2, <3>3
  <2>4. QED
    BY <1>12, <2>2, <2>3, BufFacts, Zenon DEF TypeOK, brelse
<1>13. CASE UNCHANGED vars
  BY Zenon, <1>13 DEF TypeOK, Using, vars
<1>14. QED
  BY Zenon, <1>1, <1>2, <1>3, <1>4, <1>5, <1>6, <1>7, <1>8, <1>9, <1>10, <1>11, <1>12, <1>13
  DEF Next, Use

\* bget gives a block a buffer only when no buffer has it.
LEMMA OneStep ==
  ASSUME TypeOK, OneBuffer, [Next]_vars
  PROVE  OneBuffer'
<1>1. ASSUME NEW p \in Proc, NEW k \in Block, NEW b \in Buf, bget_hit(p, k, b) PROVE OneBuffer'
  BY Zenon, <1>1 DEF TypeOK, OneBuffer, bget_hit
<1>2. ASSUME NEW p \in Proc, NEW k \in Block, NEW b \in Buf, bget_recycle(p, k, b) PROVE OneBuffer'
  BY Zenon, <1>2 DEF TypeOK, OneBuffer, bget_recycle, Cached, LeastRecent
<1>3. ASSUME NEW p \in Proc, NEW k \in Block, bget_panics(p, k) PROVE OneBuffer'
  BY Zenon, <1>3 DEF TypeOK, OneBuffer, bget_panics
<1>4. ASSUME NEW p \in Proc, acquiresleep(p) PROVE OneBuffer'
  BY Zenon, <1>4 DEF TypeOK, OneBuffer, acquiresleep
<1>5. ASSUME NEW p \in Proc, kill(p) PROVE OneBuffer'
  BY Zenon, <1>5 DEF TypeOK, OneBuffer, kill
<1>6. ASSUME NEW p \in Proc, bread(p) PROVE OneBuffer'
  BY Zenon, <1>6 DEF TypeOK, OneBuffer, bread
<1>7. ASSUME NEW p \in Proc, NEW v \in Value, modify(p, v) PROVE OneBuffer'
  BY Zenon, <1>7 DEF TypeOK, OneBuffer, modify
<1>8. ASSUME NEW p \in Proc, bwrite(p) PROVE OneBuffer'
  BY Zenon, <1>8 DEF TypeOK, OneBuffer, bwrite
<1>9. ASSUME NEW p \in Proc, bpin(p) PROVE OneBuffer'
  BY Zenon, <1>9 DEF TypeOK, OneBuffer, TypeOK, bpin
<1>10. ASSUME NEW p \in Proc, bunpin(p) PROVE OneBuffer'
  BY Zenon, <1>10 DEF TypeOK, OneBuffer, bunpin
<1>11. ASSUME NEW p \in Proc, releasesleep(p) PROVE OneBuffer'
  BY Zenon, <1>11 DEF TypeOK, OneBuffer, releasesleep
<1>12. ASSUME NEW p \in Proc, brelse(p) PROVE OneBuffer'
  BY Zenon, <1>12 DEF TypeOK, OneBuffer, brelse
<1>13. CASE UNCHANGED vars
  BY Zenon, <1>13 DEF TypeOK, OneBuffer, vars
<1>14. QED
  BY Zenon, <1>1, <1>2, <1>3, <1>4, <1>5, <1>6, <1>7, <1>8, <1>9, <1>10, <1>11, <1>12, <1>13
  DEF Next, Use

(***************************************************************************)
(* How the processes that use a buffer change, with their number.          *)
(***************************************************************************)
LEMMA UsersFinite ==
  ASSUME NEW b
  PROVE  IsFiniteSet(Users(b)) /\ Cardinality(Users(b)) \in Nat
<1>1. Users(b) \in SUBSET Proc
  BY Zenon DEF Users
<1>2. QED
  BY Zenon, <1>1, BufAssumption, FS_Subset, FS_CardinalityType

\* bget: p is one more user of b.
LEMMA UsersAdd ==
  ASSUME TypeOK, NEW p \in Proc, NEW b \in Buf, pc[p] = "idle",
         pc' = [pc EXCEPT ![p] = "got"], buf' = [buf EXCEPT ![p] = b], NEW c \in Buf
  PROVE  Cardinality(Users(c)') = Cardinality(Users(c)) + (IF c = b THEN 1 ELSE 0)
<1>1. p \notin Users(c)
  BY Zenon DEF Users, Using
<1>2. Users(c)' = IF c = b THEN Users(c) \cup {p} ELSE Users(c)
  BY ZenonT(30) DEF Users, Using, TypeOK
<1>3. IsFiniteSet(Users(c)) /\ Cardinality(Users(c)) \in Nat
  BY Zenon, UsersFinite
<1>4. Cardinality(Users(c) \cup {p}) = Cardinality(Users(c)) + 1
  BY <1>1, <1>3, FS_AddElement, Zenon
<1>5. QED
  BY <1>2, <1>3, <1>4

\* brelse: p no longer uses its buffer.
LEMMA UsersRemove ==
  ASSUME TypeOK, NEW p \in Proc, pc[p] = "released",
         pc' = [pc EXCEPT ![p] = "idle"], UNCHANGED buf, NEW c \in Buf
  PROVE  Cardinality(Users(c)') = Cardinality(Users(c)) - (IF c = buf[p] THEN 1 ELSE 0)
<1>1. p \in Users(c) <=> c = buf[p]
  BY Zenon DEF Users, Using
<1>2. Users(c)' = IF c = buf[p] THEN Users(c) \ {p} ELSE Users(c)
  BY Zenon DEF Users, Using, TypeOK
<1>3. IsFiniteSet(Users(c)) /\ Cardinality(Users(c)) \in Nat
  BY Zenon, UsersFinite
<1>4. c = buf[p] => Cardinality(Users(c) \ {p}) = Cardinality(Users(c)) - 1
  BY <1>1, <1>3, FS_RemoveElement, Zenon
<1>5. QED
  BY <1>2, <1>3, <1>4

\* What users do between bget and brelse does not change their number.
LEMMA RefSame ==
  ASSUME RefcntExact, UNCHANGED <<refcnt, blockno, pinned, buf>>,
         \A q \in Proc : pc'[q] \in Using <=> pc[q] \in Using
  PROVE  RefcntExact'
<1>1. \A b \in Buf : Users(b)' = Users(b)
  BY Zenon DEF Users
<1>2. QED
  BY Zenon, <1>1 DEF RefcntExact

\* bget, brelse, bpin and bunpin keep refcnt the number of users and pins.
LEMMA RefStep ==
  ASSUME TypeOK, OneBuffer, RefcntExact, UseInv, [Next]_vars
  PROVE  RefcntExact'
<1>1. ASSUME NEW p \in Proc, NEW k \in Block, NEW b \in Buf, bget_hit(p, k, b) PROVE RefcntExact'
  <2>1. \A c \in Buf : Cardinality(Users(c)') = Cardinality(Users(c)) + (IF c = b THEN 1 ELSE 0)
    BY <1>1, UsersAdd, Zenon DEF bget_hit
  <2>2. \A c \in Buf : Cardinality(Users(c)) \in Nat
    BY Zenon, UsersFinite
  <2>3. \A c \in Buf : refcnt'[c] = refcnt[c] + (IF c = b THEN 1 ELSE 0)
    BY <1>1 DEF TypeOK, bget_hit
  <2>4. UNCHANGED <<blockno, pinned>>
    BY Zenon, <1>1 DEF bget_hit
  <2>5. QED
    BY <2>1, <2>2, <2>3, <2>4 DEF RefcntExact
<1>2. ASSUME NEW p \in Proc, NEW k \in Block, NEW b \in Buf, bget_recycle(p, k, b) PROVE RefcntExact'
  <2>1. refcnt[b] = 0 /\ ~Cached(k)
    BY Zenon, <1>2 DEF bget_recycle, LeastRecent
  <2>2. blockno[b] \notin pinned /\ Users(b) = {}
    BY <2>1, RefPositive
  <2>3. k \notin pinned
    BY Zenon, <2>1 DEF UseInv
  <2>4. \A c \in Buf : Cardinality(Users(c)') = Cardinality(Users(c)) + (IF c = b THEN 1 ELSE 0)
    BY <1>2, UsersAdd, Zenon DEF bget_recycle
  <2>5. Cardinality(Users(b)') = 1
    BY <2>2, <2>4, FS_EmptySet
  <2>6. \A c \in Buf : c # b => blockno'[c] = blockno[c] /\ refcnt'[c] = refcnt[c]
    BY Zenon, <1>2 DEF TypeOK, bget_recycle
  <2>7. blockno'[b] = k /\ refcnt'[b] = 1 /\ pinned' = pinned
    BY Zenon, <1>2 DEF TypeOK, bget_recycle
  <2>8. \A c \in Buf : Cardinality(Users(c)) \in Nat
    BY Zenon, UsersFinite
  <2>9. QED
    BY <2>3, <2>4, <2>5, <2>6, <2>7, <2>8 DEF RefcntExact
<1>3. ASSUME NEW p \in Proc, NEW k \in Block, bget_panics(p, k) PROVE RefcntExact'
  <2>1. \A q \in Proc : pc'[q] \in Using <=> pc[q] \in Using
    BY Zenon, <1>3 DEF bget_panics, TypeOK, Using
  <2>2. UNCHANGED <<refcnt, blockno, pinned, buf>>
    BY Zenon, <1>3 DEF bget_panics
  <2>3. QED
    BY Zenon, <2>1, <2>2, RefSame
<1>4. ASSUME NEW p \in Proc, acquiresleep(p) PROVE RefcntExact'
  <2>1. \A q \in Proc : pc'[q] \in Using <=> pc[q] \in Using
    BY Zenon, <1>4 DEF acquiresleep, TypeOK, Using
  <2>2. UNCHANGED <<refcnt, blockno, pinned, buf>>
    BY Zenon, <1>4 DEF acquiresleep
  <2>3. QED
    BY Zenon, <2>1, <2>2, RefSame
<1>5. ASSUME NEW p \in Proc, kill(p) PROVE RefcntExact'
  <2>1. \A q \in Proc : pc'[q] \in Using <=> pc[q] \in Using
    BY Zenon, <1>5 DEF kill, TypeOK, Using
  <2>2. UNCHANGED <<refcnt, blockno, pinned, buf>>
    BY Zenon, <1>5 DEF kill
  <2>3. QED
    BY Zenon, <2>1, <2>2, RefSame
<1>6. ASSUME NEW p \in Proc, bread(p) PROVE RefcntExact'
  <2>1. \A q \in Proc : pc'[q] \in Using <=> pc[q] \in Using
    BY Zenon, <1>6 DEF bread, TypeOK, Using
  <2>2. UNCHANGED <<refcnt, blockno, pinned, buf>>
    BY Zenon, <1>6 DEF bread
  <2>3. QED
    BY Zenon, <2>1, <2>2, RefSame
<1>7. ASSUME NEW p \in Proc, NEW v \in Value, modify(p, v) PROVE RefcntExact'
  <2>1. \A q \in Proc : pc'[q] \in Using <=> pc[q] \in Using
    BY Zenon, <1>7 DEF modify, TypeOK, Using
  <2>2. UNCHANGED <<refcnt, blockno, pinned, buf>>
    BY Zenon, <1>7 DEF modify
  <2>3. QED
    BY Zenon, <2>1, <2>2, RefSame
<1>8. ASSUME NEW p \in Proc, bwrite(p) PROVE RefcntExact'
  <2>1. \A q \in Proc : pc'[q] \in Using <=> pc[q] \in Using
    BY Zenon, <1>8 DEF bwrite, TypeOK, Using
  <2>2. UNCHANGED <<refcnt, blockno, pinned, buf>>
    BY Zenon, <1>8 DEF bwrite
  <2>3. QED
    BY Zenon, <2>1, <2>2, RefSame
<1>9. ASSUME NEW p \in Proc, bpin(p) PROVE RefcntExact'
  <2> DEFINE b == buf[p]
  <2>1. b \in Buf /\ blockno[b] \in Block /\ blockno[b] # NoBlock /\ refcnt[b] \in Nat
    BY <1>9, BufAssumption DEF TypeOK, UseInv, Using, bpin
  <2>2. \A c \in Buf : Users(c)' = Users(c)
    BY Zenon, <1>9 DEF bpin, Users
  <2>3. \A c \in Buf : c # b => blockno[c] # blockno[b]
    BY Zenon, <2>1 DEF OneBuffer
  <2>4. \A c \in Buf : c # b => refcnt'[c] = refcnt[c] /\ (blockno'[c] \in pinned' <=> blockno[c] \in pinned)
    BY Zenon, <1>9, <2>1, <2>3 DEF TypeOK, bpin
  <2>5. /\ blockno'[b] \in pinned' <=> TRUE
        /\ refcnt'[b] = IF blockno[b] \in pinned THEN refcnt[b] ELSE refcnt[b] + 1
    BY Zenon, <1>9, <2>1 DEF TypeOK, bpin
  <2>6. SUFFICES ASSUME NEW c \in Buf
                 PROVE  refcnt'[c] = Cardinality(Users(c)) + (IF blockno'[c] \in pinned' THEN 1 ELSE 0)
    BY Zenon, <2>2 DEF RefcntExact
  <2>7. /\ refcnt[c] = Cardinality(Users(c)) + (IF blockno[c] \in pinned THEN 1 ELSE 0)
        /\ Cardinality(Users(c)) \in Nat
    BY Zenon, UsersFinite DEF RefcntExact
  <2>8. CASE c = b
    BY <1>9, <2>1, <2>5, <2>7, <2>8 DEF bpin
  <2>9. CASE c # b
    BY Zenon, <2>4, <2>7, <2>9
  <2>10. QED
    BY Zenon, <2>8, <2>9
<1>10. ASSUME NEW p \in Proc, bunpin(p) PROVE RefcntExact'
  <2> DEFINE b == buf[p]
  <2>1. b \in Buf /\ blockno[b] \in Block /\ blockno[b] # NoBlock /\ refcnt[b] \in Nat
    BY <1>10, BufAssumption DEF TypeOK, UseInv, Using, bunpin
  <2>2. \A c \in Buf : Users(c)' = Users(c)
    BY Zenon, <1>10 DEF bunpin, Users
  <2>3. \A c \in Buf : c # b => blockno[c] # blockno[b]
    BY Zenon, <2>1 DEF OneBuffer
  <2>4. \A c \in Buf : c # b => refcnt'[c] = refcnt[c] /\ (blockno'[c] \in pinned' <=> blockno[c] \in pinned)
    BY Zenon, <1>10, <2>1, <2>3 DEF TypeOK, bunpin
  <2>5. /\ blockno'[b] \in pinned' <=> FALSE
        /\ refcnt'[b] = refcnt[b] - 1
    BY Zenon, <1>10, <2>1 DEF TypeOK, bunpin
  <2>6. SUFFICES ASSUME NEW c \in Buf
                 PROVE  refcnt'[c] = Cardinality(Users(c)) + (IF blockno'[c] \in pinned' THEN 1 ELSE 0)
    BY Zenon, <2>2 DEF RefcntExact
  <2>7. /\ refcnt[c] = Cardinality(Users(c)) + (IF blockno[c] \in pinned THEN 1 ELSE 0)
        /\ Cardinality(Users(c)) \in Nat
    BY Zenon, UsersFinite DEF RefcntExact
  <2>8. CASE c = b
    BY <1>10, <2>1, <2>5, <2>7, <2>8 DEF bunpin
  <2>9. CASE c # b
    BY Zenon, <2>4, <2>7, <2>9
  <2>10. QED
    BY Zenon, <2>8, <2>9
<1>11. ASSUME NEW p \in Proc, releasesleep(p) PROVE RefcntExact'
  <2>1. \A q \in Proc : pc'[q] \in Using <=> pc[q] \in Using
    BY Zenon, <1>11 DEF releasesleep, TypeOK, Using
  <2>2. UNCHANGED <<refcnt, blockno, pinned, buf>>
    BY Zenon, <1>11 DEF releasesleep
  <2>3. QED
    BY Zenon, <2>1, <2>2, RefSame
<1>12. ASSUME NEW p \in Proc, brelse(p) PROVE RefcntExact'
  <2>1. \A c \in Buf : Cardinality(Users(c)') = Cardinality(Users(c)) - (IF c = buf[p] THEN 1 ELSE 0)
    BY <1>12, UsersRemove, Zenon DEF brelse
  <2>2. \A c \in Buf : Cardinality(Users(c)) \in Nat
    BY Zenon, UsersFinite
  <2>3. \A c \in Buf : refcnt'[c] = refcnt[c] - (IF c = buf[p] THEN 1 ELSE 0)
    BY <1>12 DEF TypeOK, brelse
  <2>4. UNCHANGED <<blockno, pinned>>
    BY Zenon, <1>12 DEF brelse
  <2>5. QED
    BY <2>1, <2>2, <2>3, <2>4 DEF RefcntExact
<1>13. CASE UNCHANGED vars
  BY Zenon, <1>13 DEF RefcntExact, Users, vars
<1>14. QED
  BY ZenonT(30), <1>1, <1>2, <1>3, <1>4, <1>5, <1>6, <1>7, <1>8, <1>9, <1>10, <1>11, <1>12, <1>13
  DEF Next, Use

\* A buffer that differs from the disk is pinned, or held by a process that has still to log it.
LEMMA CleanStep ==
  ASSUME TypeOK, OneBuffer, RefcntExact, CleanUnlessPinned, LockInv, UseInv, [Next]_vars
  PROVE  CleanUnlessPinned'
<1>1. ASSUME NEW p \in Proc, NEW k \in Block, NEW b \in Buf, bget_hit(p, k, b) PROVE CleanUnlessPinned'
  BY Zenon, <1>1 DEF TypeOK, CleanUnlessPinned, UseInv, Using, bget_hit
<1>2. ASSUME NEW p \in Proc, NEW k \in Block, NEW b \in Buf, bget_recycle(p, k, b) PROVE CleanUnlessPinned'
  BY RefPositive, <1>2
  DEF TypeOK, CleanUnlessPinned, UseInv, Using, bget_recycle, Cached, LeastRecent
<1>3. ASSUME NEW p \in Proc, NEW k \in Block, bget_panics(p, k) PROVE CleanUnlessPinned'
  BY Zenon, <1>3 DEF TypeOK, CleanUnlessPinned, UseInv, Using, bget_panics
<1>4. ASSUME NEW p \in Proc, acquiresleep(p) PROVE CleanUnlessPinned'
  BY <1>4 DEF TypeOK, CleanUnlessPinned, UseInv, Using, acquiresleep
<1>5. ASSUME NEW p \in Proc, kill(p) PROVE CleanUnlessPinned'
  BY Zenon, <1>5 DEF TypeOK, CleanUnlessPinned, UseInv, Using, kill
<1>6. ASSUME NEW p \in Proc, bread(p) PROVE CleanUnlessPinned'
  BY <1>6 DEF TypeOK, CleanUnlessPinned, UseInv, Using, bread
<1>7. ASSUME NEW p \in Proc, NEW v \in Value, modify(p, v) PROVE CleanUnlessPinned'
  BY <1>7 DEF TypeOK, CleanUnlessPinned, UseInv, Using, modify
<1>8. ASSUME NEW p \in Proc, bwrite(p) PROVE CleanUnlessPinned'
  BY BufAssumption, <1>8 DEF TypeOK, CleanUnlessPinned, UseInv, Using, OneBuffer, bwrite
<1>9. ASSUME NEW p \in Proc, bpin(p) PROVE CleanUnlessPinned'
  BY <1>9 DEF TypeOK, CleanUnlessPinned, UseInv, Using, bpin
<1>10. ASSUME NEW p \in Proc, bunpin(p) PROVE CleanUnlessPinned'
  <2> DEFINE b == buf[p]
  <2>1. b \in Buf /\ blockno[b] \in Block /\ blockno[b] # NoBlock /\ data[b] = disk[blockno[b]]
    BY <1>10, BufAssumption DEF TypeOK, UseInv, Using, bunpin
  <2>2. \A c \in Buf : c # b => blockno[c] # blockno[b]
    BY Zenon, <2>1 DEF OneBuffer
  <2>3. pinned' = pinned \ {blockno[b]} /\ UNCHANGED <<valid, data, disk, blockno, procs>>
    BY Zenon, <1>10 DEF bunpin
  <2> HIDE DEF b
  <2>4. QED
    BY Zenon, <2>1, <2>2, <2>3 DEF CleanUnlessPinned
<1>11. ASSUME NEW p \in Proc, releasesleep(p) PROVE CleanUnlessPinned'
  BY Zenon, <1>11 DEF TypeOK, CleanUnlessPinned, UseInv, Using, releasesleep
<1>12. ASSUME NEW p \in Proc, brelse(p) PROVE CleanUnlessPinned'
  BY Zenon, <1>12 DEF TypeOK, CleanUnlessPinned, UseInv, Using, brelse
<1>13. CASE UNCHANGED vars
  BY Zenon, <1>13 DEF TypeOK, CleanUnlessPinned, UseInv, Using, vars
<1>14. QED
  BY Zenon, <1>1, <1>2, <1>3, <1>4, <1>5, <1>6, <1>7, <1>8, <1>9, <1>10, <1>11, <1>12, <1>13
  DEF Next, Use

\* acquiresleep and releasesleep: one holder, and nobody asleep on a free lock.
LEMMA LockStep ==
  ASSUME TypeOK, LockInv, [Next]_vars
  PROVE  LockInv'
<1>g. ASSUME NEW p \in Proc, NEW b \in Buf, pc[p] = "idle", locked' = locked,
             buf' = [buf EXCEPT ![p] = b], pc' = [pc EXCEPT ![p] = "got"]
      PROVE  LockInv'
  <2>1. /\ pc'[p] = "got" /\ buf'[p] = b
        /\ \A q \in Proc : q # p => pc'[q] = pc[q] /\ buf'[q] = buf[q]
    BY Zenon, <1>g DEF TypeOK
  <2>2. \A d \in Buf : locked[d] # p
    BY Zenon, BufAssumption, <1>g DEF LockInv, Holding
  <2>3. SleepLockSound'
    <3> SUFFICES ASSUME NEW q \in Proc PROVE SleepLockSound!(q)'
      BY Zenon DEF SleepLockSound
    <3>1. CASE q = p
      BY Zenon, <1>g, <2>1, <2>2, <3>1
    <3>2. CASE q # p
      BY Zenon, <1>g, <2>1, <3>2 DEF LockInv, SleepLockSound
    <3>3. QED
      BY Zenon, <3>1, <3>2
  <2>4. \A d \in Buf : locked[d] # NoProc => locked[d] \in Proc
    BY Zenon DEF TypeOK
  <2>5. QED
    BY Zenon, <1>g, <2>1, <2>2, <2>3, <2>4 DEF LockInv
<1>1. ASSUME NEW p \in Proc, NEW k \in Block, NEW b \in Buf, bget_hit(p, k, b) PROVE LockInv'
  BY Zenon, <1>1, <1>g DEF bget_hit
<1>2. ASSUME NEW p \in Proc, NEW k \in Block, NEW b \in Buf, bget_recycle(p, k, b) PROVE LockInv'
  BY Zenon, <1>2, <1>g DEF bget_recycle
<1>3. ASSUME NEW p \in Proc, NEW k \in Block, bget_panics(p, k) PROVE LockInv'
  BY Zenon, BufAssumption, <1>3 DEF TypeOK, LockInv, SleepLockSound, Holding, Using, bget_panics
<1>4. ASSUME NEW p \in Proc, acquiresleep(p) PROVE LockInv'
  <2>1. p # NoProc /\ buf[p] \in Buf /\ pc[p] = "got" /\ buf' = buf
    BY Zenon, BufAssumption, <1>4 DEF TypeOK, acquiresleep
  <2>2. CASE locked[buf[p]] = NoProc
    <3>1. /\ \A c \in Buf : locked'[c] = IF c = buf[p] THEN p ELSE locked[c]
          /\ \A q \in Proc : pc'[q] = IF q = p THEN "locked" ELSE pc[q]
      BY Zenon, <1>4, <2>2 DEF TypeOK, acquiresleep
    <3>2. \A q \in Proc : buf[q] \in Buf /\ q # NoProc
      BY Zenon, BufAssumption DEF TypeOK
    <3>3. \A c \in Buf : locked'[c] # NoProc => buf[locked'[c]] = c /\ pc'[locked'[c]] \in Holding
      <4> SUFFICES ASSUME NEW c \in Buf, locked'[c] # NoProc
                   PROVE  buf[locked'[c]] = c /\ pc'[locked'[c]] \in Holding
        OBVIOUS
      <4>1. CASE c = buf[p]
        BY Zenon, <3>1, <4>1 DEF Holding
      <4>2. CASE c # buf[p]
        <5>1. locked'[c] = locked[c] /\ locked[c] \in Proc
          BY <3>1, <4>2 DEF TypeOK
        <5>2. buf[locked[c]] = c /\ pc[locked[c]] \in Holding
          BY Zenon, <5>1 DEF LockInv
        <5>3. locked[c] # p
          BY Zenon, <2>1, <5>2 DEF Holding
        <5>4. QED
          BY Zenon, <3>1, <5>1, <5>2, <5>3
      <4>3. QED
        BY Zenon, <4>1, <4>2
    <3>4. SleepLockSound'
      <4> SUFFICES ASSUME NEW q \in Proc
                   PROVE  /\ pc'[q] = "asleep" => locked'[buf[q]] # NoProc
                          /\ pc'[q] \in Holding <=> locked'[buf[q]] = q
        BY Zenon, <2>1 DEF SleepLockSound, Holding
      <4>1. CASE q = p
        BY Zenon, <2>1, <3>1, <4>1 DEF Holding
      <4>2. CASE q # p
        BY <2>1, <2>2, <3>1, <3>2, <4>2 DEF LockInv, SleepLockSound, Holding
      <4>3. QED
        BY Zenon, <4>1, <4>2
    <3>5. QED
      BY Zenon, <2>1, <3>3, <3>4 DEF LockInv
  <2>3. CASE locked[buf[p]] # NoProc
    <3>1. locked' = locked /\ \A q \in Proc : pc'[q] = IF q = p THEN "asleep" ELSE pc[q]
      BY Zenon, <1>4, <2>3 DEF TypeOK, acquiresleep
    <3>2. \A c \in Buf : locked[c] # p
      BY Zenon, <2>1 DEF LockInv, Holding
    <3>3. \A c \in Buf : locked[c] \in Proc \cup {NoProc}
      BY Zenon DEF TypeOK
    <3>4. QED
      BY <2>1, <2>3, <3>1, <3>2, <3>3 DEF LockInv, SleepLockSound, Holding
  <2>4. QED
    BY Zenon, <2>2, <2>3
<1>5. ASSUME NEW p \in Proc, kill(p) PROVE LockInv'
  BY BufAssumption, <1>5 DEF TypeOK, LockInv, SleepLockSound, Holding, Using, kill
<1>6. ASSUME NEW p \in Proc, bread(p) PROVE LockInv'
  BY BufAssumption, <1>6 DEF TypeOK, LockInv, SleepLockSound, Holding, Using, bread
<1>7. ASSUME NEW p \in Proc, NEW v \in Value, modify(p, v) PROVE LockInv'
  BY BufAssumption, <1>7 DEF TypeOK, LockInv, SleepLockSound, Holding, Using, modify
<1>8. ASSUME NEW p \in Proc, bwrite(p) PROVE LockInv'
  BY BufAssumption, <1>8 DEF TypeOK, LockInv, SleepLockSound, Holding, Using, bwrite
<1>9. ASSUME NEW p \in Proc, bpin(p) PROVE LockInv'
  BY Zenon, BufAssumption, <1>9 DEF TypeOK, LockInv, SleepLockSound, Holding, Using, bpin
<1>10. ASSUME NEW p \in Proc, bunpin(p) PROVE LockInv'
  BY Zenon, BufAssumption, <1>10 DEF TypeOK, LockInv, SleepLockSound, Holding, Using, bunpin
<1>11. ASSUME NEW p \in Proc, releasesleep(p) PROVE LockInv'
  BY BufAssumption, <1>11 DEF TypeOK, LockInv, SleepLockSound, Holding, Using, releasesleep
<1>12. ASSUME NEW p \in Proc, brelse(p) PROVE LockInv'
  BY BufAssumption, <1>12 DEF TypeOK, LockInv, SleepLockSound, Holding, Using, brelse
<1>13. CASE UNCHANGED vars
  BY Zenon, <1>13 DEF TypeOK, LockInv, SleepLockSound, Holding, Using, vars
<1>14. QED
  BY Zenon, <1>1, <1>2, <1>3, <1>4, <1>5, <1>6, <1>7, <1>8, <1>9, <1>10, <1>11, <1>12, <1>13
  DEF Next, Use

\* What a process knows of its buffer from bget to brelse stays true, whatever others do.
LEMMA UseStep ==
  ASSUME TypeOK, OneBuffer, RefcntExact, CleanUnlessPinned, LockInv, UseInv, [Next]_vars
  PROVE  UseInv'
<1>1. ASSUME NEW p \in Proc, NEW k \in Block, NEW b \in Buf, bget_hit(p, k, b) PROVE UseInv'
  BY <1>1 DEF TypeOK, UseInv, Using, Cached, bget_hit
<1>2. ASSUME NEW p \in Proc, NEW k \in Block, NEW b \in Buf, bget_recycle(p, k, b) PROVE UseInv'
  BY RefPositive, <1>2 DEF TypeOK, UseInv, Using, Cached, bget_recycle, LeastRecent
<1>3. ASSUME NEW p \in Proc, NEW k \in Block, bget_panics(p, k) PROVE UseInv'
  BY Zenon, <1>3 DEF TypeOK, UseInv, Using, Cached, bget_panics
<1>4. ASSUME NEW p \in Proc, acquiresleep(p) PROVE UseInv'
  BY <1>4 DEF TypeOK, UseInv, Using, Cached, acquiresleep
<1>5. ASSUME NEW p \in Proc, kill(p) PROVE UseInv'
  BY ZenonT(30), <1>5 DEF TypeOK, UseInv, Using, Cached, kill
<1>6. ASSUME NEW p \in Proc, bread(p) PROVE UseInv'
  BY <1>6 DEF TypeOK, UseInv, Using, Cached, LockInv, Holding, SleepLockSound, bread
<1>7. ASSUME NEW p \in Proc, NEW v \in Value, modify(p, v) PROVE UseInv'
  BY <1>7 DEF TypeOK, UseInv, Using, Cached, LockInv, Holding, SleepLockSound, modify
<1>8. ASSUME NEW p \in Proc, bwrite(p) PROVE UseInv'
  <2> DEFINE b == buf[p]
  <2>1. b \in Buf /\ blockno[b] \in Block /\ blockno[b] # NoBlock
    BY <1>8, BufAssumption DEF TypeOK, UseInv, Using, bwrite
  <2>2. \A c \in Buf : c # b => blockno[c] # blockno[b]
    BY Zenon, <2>1 DEF OneBuffer
  <2>3. /\ disk'[blockno[b]] = data[b] /\ \A k \in Block : k # blockno[b] => disk'[k] = disk[k]
        /\ pc[p] = "held" /\ \A q \in Proc : pc'[q] = IF q = p THEN "written" ELSE pc[q]
        /\ \A q \in Proc : unlogged'[q] => unlogged[q] /\ q # p
        /\ UNCHANGED <<valid, data, blockno, buf, pinned>>
    BY Zenon, <1>8, <2>1 DEF TypeOK, bwrite
  <2>4. \A q \in Proc : buf[q] \in Buf
    BY Zenon DEF TypeOK
  <2> HIDE DEF b
  <2>5. \A q \in Proc : pc'[q] = "written" => data[buf[q]] = disk'[blockno[buf[q]]]
    <3> SUFFICES ASSUME NEW q \in Proc, pc'[q] = "written"
                 PROVE  data[buf[q]] = disk'[blockno[buf[q]]]
      OBVIOUS
    <3>1. CASE buf[q] = b
      BY Zenon, <2>3, <3>1
    <3>2. CASE buf[q] # b
      <4>1. q # p /\ pc[q] = "written"
        BY Zenon, <2>3, <3>2 DEF b
      <4>2. blockno[buf[q]] \in Block /\ blockno[buf[q]] # blockno[b]
        BY Zenon, <2>2, <2>4, <3>2, <4>1 DEF UseInv, Using
      <4>3. QED
        BY Zenon, <2>3, <4>1, <4>2 DEF UseInv
    <3>3. QED
      BY Zenon, <3>1, <3>2
  <2>6. QED
    BY <2>3, <2>5 DEF UseInv, Using, Cached
<1>9. ASSUME NEW p \in Proc, bpin(p) PROVE UseInv'
  BY Zenon, <1>9 DEF TypeOK, UseInv, Using, Cached, bpin
<1>10. ASSUME NEW p \in Proc, bunpin(p) PROVE UseInv'
  BY Zenon, <1>10 DEF TypeOK, UseInv, Using, Cached, bunpin
<1>11. ASSUME NEW p \in Proc, releasesleep(p) PROVE UseInv'
  BY Zenon, <1>11 DEF TypeOK, UseInv, Using, Cached, releasesleep
<1>12. ASSUME NEW p \in Proc, brelse(p) PROVE UseInv'
  BY <1>12 DEF TypeOK, UseInv, Using, Cached, brelse
<1>13. CASE UNCHANGED vars
  BY Zenon, <1>13 DEF TypeOK, UseInv, Using, Cached, vars
<1>14. QED
  BY Zenon, <1>1, <1>2, <1>3, <1>4, <1>5, <1>6, <1>7, <1>8, <1>9, <1>10, <1>11, <1>12, <1>13
  DEF Next, Use

-------------------------------------------------------------------------------
\* The invariant holds after binit.
LEMMA InitInv == Init => BufInv
<1> SUFFICES ASSUME Init PROVE BufInv
  OBVIOUS
<1>1. TypeOK
  <2>1. /\ valid \in [Buf -> BOOLEAN] /\ unlogged \in [Proc -> BOOLEAN] /\ panicked \in BOOLEAN
        /\ data \in [Buf -> Value] /\ disk \in [Block -> Value]
    BY Zenon DEF Init
  <2>2. lru \in [1..NBUF -> Buf] /\ \A b \in Buf : \E i \in DOMAIN lru : lru[i] = b
    <3>1. \A b \in Buf : NBUF + 1 - b \in Buf /\ NBUF + 1 - (NBUF + 1 - b) = b
      BY BufFacts
    <3>2. QED
      BY Zenon, <3>1, BufFacts DEF Init
  <2>3. QED
    BY Zenon, <2>1, <2>2, BufFacts DEF Init, TypeOK, Using
<1>2. RefcntExact
  <2>1. \A b \in Buf : Users(b) = {}
    BY Zenon DEF Init, Users, Using
  <2>2. QED
    BY <2>1, FS_EmptySet DEF Init, RefcntExact
<1>3. OneBuffer /\ CleanUnlessPinned /\ LockInv /\ UseInv
  BY Zenon, BufAssumption, BufFacts
  DEF Init, OneBuffer, CleanUnlessPinned, LockInv, SleepLockSound, UseInv, Using, Holding
<1>4. QED
  BY Zenon, <1>1, <1>2, <1>3 DEF BufInv

\* Every step of every process keeps it.
LEMMA StepInv == BufInv /\ [Next]_vars => BufInv'
BY Zenon, TypeStep, OneStep, RefStep, CleanStep, LockStep, UseStep DEF BufInv

\* For any number of buffers, blocks and processes the cache satisfies BufInv.
THEOREM Invariance == Spec => []BufInv
BY InitInv, StepInv, PTL DEF Spec

(***************************************************************************)
(* bget, brelse, bpin and bunpin keep one buffer per block, refcnt exact,  *)
(* and no buffer that may be recycled different from the disk; no process  *)
(* sleeps on a free sleep-lock.                                            *)
(***************************************************************************)
THEOREM CacheSound == Spec => []Buffers
<1>1. BufInv => Buffers
  BY Zenon DEF BufInv, Buffers, LockInv
<1>2. QED
  BY <1>1, Invariance, PTL
-------------------------------------------------------------------------------
(***************************************************************************)
(* The refinement.  The contents of a block are in its valid buffer, or    *)
(* else on the disk; its owner is the process that has it between bread    *)
(* and releasesleep.                                                       *)
(***************************************************************************)
Owns(p, k) == pc[p] \in {"held", "written"} /\ blockno[buf[p]] = k

MemFact == OneBuffer =>
  /\ \A b \in Buf : blockno[b] \in Block /\ blockno[b] # NoBlock /\ valid[b] =>
       Mem[blockno[b]] = data[b]
  /\ \A k \in Block : (\A b \in Buf : blockno[b] = k => ~valid[b]) => Mem[k] = disk[k]
  /\ Mem = [k \in Block |-> Mem[k]]

OwnerFact == TypeOK /\ OneBuffer /\ LockInv /\ UseInv =>
  /\ \A p \in Proc, k \in Block : Owns(p, k) => Owner[k] = p
  /\ \A k \in Block : (\A p \in Proc : ~Owns(p, k)) => Owner[k] = NoProc
  /\ Owner = [k \in Block |-> Owner[k]]

\* Mem is what the one valid buffer of a block has, and else what the disk has (bget, bread).
LEMMA MemIs == MemFact
<1> SUFFICES ASSUME OneBuffer
             PROVE  /\ \A b \in Buf : blockno[b] \in Block /\ blockno[b] # NoBlock /\ valid[b] =>
                         Mem[blockno[b]] = data[b]
                    /\ \A k \in Block : (\A b \in Buf : blockno[b] = k => ~valid[b]) => Mem[k] = disk[k]
                    /\ Mem = [k \in Block |-> Mem[k]]
  BY Zenon DEF MemFact
<1> DEFINE B(k) == {b \in Buf : blockno[b] = k /\ valid[b]}
<1>1. Mem = [k \in Block |-> IF B(k) = {} THEN disk[k] ELSE data[CHOOSE b \in B(k) : TRUE]]
  BY Zenon DEF Mem
<1>2. ASSUME NEW b \in Buf, blockno[b] \in Block, blockno[b] # NoBlock, valid[b]
      PROVE  Mem[blockno[b]] = data[b]
  <2>1. B(blockno[b]) = {b}
    BY Zenon, <1>2 DEF OneBuffer
  <2>2. (CHOOSE c \in B(blockno[b]) : TRUE) = b
    BY Zenon, <2>1
  <2>3. QED
    BY Zenon, <1>1, <1>2, <2>1, <2>2
<1>3. ASSUME NEW k \in Block, \A b \in Buf : blockno[b] = k => ~valid[b]
      PROVE  Mem[k] = disk[k]
  <2>1. B(k) = {}
    BY Zenon, <1>3
  <2>2. QED
    BY Zenon, <1>1, <2>1
<1>4. QED
  BY <1>1, <1>2, <1>3

\* The same after a step.
LEMMA MemNext == MemFact'
BY MemIs, PTL

\* Two processes never own a block at once (acquiresleep).
LEMMA OneOwner ==
  ASSUME TypeOK, OneBuffer, LockInv, UseInv, NEW p \in Proc, NEW q \in Proc, NEW k \in Block,
         Owns(p, k), Owns(q, k)
  PROVE  p = q
<1>1. buf[p] \in Buf /\ buf[q] \in Buf /\ k # NoBlock
  BY Zenon, BufAssumption DEF TypeOK
<1>2. buf[p] = buf[q]
  BY Zenon, <1>1 DEF OneBuffer, Owns
<1>3. locked[buf[p]] = p /\ locked[buf[q]] = q
  BY Zenon DEF LockInv, SleepLockSound, Owns
<1>4. QED
  BY Zenon, <1>2, <1>3

\* Owner is the process that holds the block's buffer, if there is one.
LEMMA OwnerIs == OwnerFact
<1> SUFFICES ASSUME TypeOK, OneBuffer, LockInv, UseInv
             PROVE  /\ \A p \in Proc, k \in Block : Owns(p, k) => Owner[k] = p
                    /\ \A k \in Block : (\A p \in Proc : ~Owns(p, k)) => Owner[k] = NoProc
                    /\ Owner = [k \in Block |-> Owner[k]]
  BY Zenon DEF OwnerFact
<1> DEFINE P(k) == {p \in Proc : Owns(p, k)}
<1>1. Owner = [k \in Block |-> IF P(k) = {} THEN NoProc ELSE CHOOSE p \in P(k) : TRUE]
  BY Zenon DEF Owner, Owns
<1>2. ASSUME NEW p \in Proc, NEW k \in Block, Owns(p, k) PROVE Owner[k] = p
  <2>1. P(k) = {p}
    BY Zenon, <1>2, OneOwner
  <2>2. QED
    BY Zenon, <1>1, <2>1
<1>3. QED
  BY Zenon, <1>1, <1>2

\* The same after a step.
LEMMA OwnerNext == OwnerFact'
BY OwnerIs, PTL

\* Owners change only at bread and releasesleep.
LEMMA OwnerSame ==
  ASSUME BufInv, BufInv', \A q \in Proc, k \in Block : Owns(q, k)' <=> Owns(q, k)
  PROVE  Owner' = Owner
<1>1. ASSUME NEW k \in Block PROVE Owner'[k] = Owner[k]
  <2>1. CASE \E q \in Proc : Owns(q, k)
    BY Zenon, <2>1, OwnerIs, OwnerNext DEF BufInv, OwnerFact
  <2>2. CASE \A q \in Proc : ~Owns(q, k)
    BY Zenon, <2>2, OwnerIs, OwnerNext DEF BufInv, OwnerFact
  <2>3. QED
    BY Zenon, <2>1, <2>2
<1>2. QED
  BY Zenon, <1>1, OwnerIs, OwnerNext DEF BufInv, OwnerFact

\* The contents change only at modify.
LEMMA MemSame ==
  ASSUME BufInv, BufInv', \A k \in Block : Mem'[k] = Mem[k]
  PROVE  Mem' = Mem
BY Zenon, MemIs, MemNext DEF BufInv, MemFact

\* Steps that touch neither the contents nor a held buffer.
LEMMA Invisible ==
  ASSUME BufInv, BufInv', UNCHANGED <<blockno, valid, data, disk>>,
         \A q \in Proc : \/ pc'[q] = pc[q] /\ buf'[q] = buf[q]
                         \/ {pc[q], pc'[q]} \cap {"held", "written"} = {}
  PROVE  UNCHANGED <<Mem, Owner>>
<1>1. Mem' = Mem
  BY DEF Mem
<1>2. \A q \in Proc, k \in Block : Owns(q, k)' <=> Owns(q, k)
  BY Zenon DEF Owns
<1>3. QED
  BY Zenon, <1>1, <1>2, OwnerSame

\* Recycling loses nothing: the buffer's old block is on the disk, its new one is read from it.
LEMMA RecycleAbs ==
  ASSUME BufInv, BufInv', NEW p \in Proc, NEW k \in Block, NEW b \in Buf, bget_recycle(p, k, b)
  PROVE  UNCHANGED <<Mem, Owner>>
<1>1. /\ refcnt[b] = 0 /\ ~Cached(k) /\ pc[p] = "idle"
      /\ blockno'[b] = k /\ ~valid'[b]
      /\ \A c \in Buf : c # b => blockno'[c] = blockno[c] /\ valid'[c] = valid[c]
      /\ \A q \in Proc : q # p => pc'[q] = pc[q] /\ buf'[q] = buf[q]
      /\ pc'[p] = "got" /\ UNCHANGED <<data, disk>>
  BY DEF BufInv, TypeOK, bget_recycle, LeastRecent
<1>2. blockno[b] \notin pinned /\ \A q \in Proc : ~(pc[q] \in Using /\ buf[q] = b)
  BY <1>1, RefPositive, Zenon DEF BufInv
<1>3. ASSUME NEW j \in Block PROVE Mem'[j] = Mem[j]
  <2>0. j # NoBlock /\ OneBuffer /\ OneBuffer'
    BY Zenon, BufAssumption DEF BufInv
  <2>1. CASE \E c \in Buf : c # b /\ blockno[c] = j /\ valid[c]
    <3>1. PICK c \in Buf : c # b /\ blockno[c] = j /\ valid[c]
      BY Zenon, <2>1
    <3>2. blockno'[c] = j /\ valid'[c] /\ data'[c] = data[c]
      BY <1>1, <3>1, Zenon
    <3>3. Mem[j] = data[c]
      BY Zenon, <2>0, <3>1, MemIs DEF MemFact
    <3>4. Mem'[j] = data'[c]
      BY Zenon, <2>0, <3>2, MemNext DEF MemFact
    <3>5. QED
      BY Zenon, <3>2, <3>3, <3>4
  <2>2. CASE \A c \in Buf : c # b => ~(blockno[c] = j /\ valid[c])
    <3>1. Mem'[j] = disk'[j]
      BY <1>1, <2>0, <2>2, MemNext DEF MemFact
    <3>2. CASE blockno[b] = j /\ valid[b]
      <4>1. data[b] = disk[j]
        BY Zenon, <1>2, <3>2 DEF BufInv, CleanUnlessPinned
      <4>2. Mem[j] = data[b]
        BY Zenon, <2>0, <3>2, MemIs DEF MemFact
      <4>3. QED
        BY Zenon, <1>1, <3>1, <4>1, <4>2
    <3>3. CASE ~(blockno[b] = j /\ valid[b])
      BY Zenon, <1>1, <2>0, <2>2, <3>1, <3>3, MemIs DEF MemFact
    <3>4. QED
      BY Zenon, <3>2, <3>3
  <2>3. QED
    BY Zenon, <2>1, <2>2
<1>4. \A q \in Proc, j \in Block : Owns(q, j)' <=> Owns(q, j)
  <2> SUFFICES ASSUME NEW q \in Proc, NEW j \in Block PROVE Owns(q, j)' <=> Owns(q, j)
    OBVIOUS
  <2>1. CASE q = p
    BY Zenon, <1>1, <2>1 DEF Owns
  <2>2. CASE q # p
    <3>1. pc'[q] = pc[q] /\ buf'[q] = buf[q] /\ buf[q] \in Buf
      BY Zenon, <1>1, <2>2 DEF BufInv, TypeOK
    <3>2. pc[q] \in {"held", "written"} => buf[q] # b
      BY Zenon, <1>2 DEF Using
    <3>3. QED
      BY Zenon, <1>1, <3>1, <3>2 DEF Owns
  <2>3. QED
    BY Zenon, <2>1, <2>2
<1>5. QED
  BY Zenon, <1>3, <1>4, MemSame, OwnerSame

\* bread hands the block, with the latest contents, to a process that nobody shares it with.
LEMMA BreadAbs ==
  ASSUME BufInv, BufInv', NEW p \in Proc, bread(p)
  PROVE  \E k \in Block : Abs!Lock(p, k)
<1> DEFINE b == buf[p]
           k == blockno[b]
<1>1. b \in Buf /\ k \in Block /\ k # NoBlock /\ pc[p] = "locked" /\ locked[b] = p
  BY BufAssumption DEF BufInv, TypeOK, UseInv, Using, LockInv, SleepLockSound, bread
<1>2. /\ valid'[b] /\ data'[b] = IF valid[b] THEN data[b] ELSE disk[k]
      /\ \A c \in Buf : c # b => valid'[c] = valid[c] /\ data'[c] = data[c]
      /\ pc'[p] = "held" /\ \A q \in Proc : q # p => pc'[q] = pc[q]
      /\ UNCHANGED <<blockno, disk, buf>>
  <2>1. pc \in [Proc -> Using \cup {"idle"}] /\ DOMAIN valid = Buf /\ DOMAIN data = Buf
    BY Zenon DEF BufInv, TypeOK
  <2>2. QED
    BY Zenon, <1>1, <2>1 DEF bread
<1>3. \A c \in Buf : c # b => blockno[c] # k
  BY <1>1, Zenon DEF BufInv, OneBuffer
<1>4. \A q \in Proc : ~Owns(q, k)
  <2> SUFFICES ASSUME NEW q \in Proc, Owns(q, k) PROVE FALSE
    BY Zenon
  <2>1. buf[q] \in Buf
    BY Zenon DEF BufInv, TypeOK
  <2>2. buf[q] = b
    BY Zenon, <1>3, <2>1 DEF Owns
  <2>3. locked[buf[q]] = q
    BY Zenon DEF BufInv, LockInv, SleepLockSound, Owns
  <2>4. QED
    BY <1>1, <2>2, <2>3, Zenon DEF Owns
<1> HIDE DEF b, k
<1>5. Mem' = Mem
  <2>1. ASSUME NEW j \in Block PROVE Mem'[j] = Mem[j]
    <3>0. j # NoBlock /\ OneBuffer /\ OneBuffer'
      BY Zenon, BufAssumption DEF BufInv
    <3>1. CASE j = k
      <4>1. Mem'[j] = data'[b]
        BY Zenon, <1>1, <1>2, <3>0, <3>1, MemNext DEF MemFact, k
      <4>2. CASE valid[b]
        BY Zenon, <1>1, <1>2, <3>0, <3>1, <4>1, <4>2, MemIs DEF MemFact, k
      <4>3. CASE ~valid[b]
        BY Zenon, <1>2, <1>3, <3>0, <3>1, <4>1, <4>3, MemIs DEF MemFact, k
      <4>4. QED
        BY Zenon, <4>2, <4>3
    <3>2. CASE j # k
      <4>1. CASE \E c \in Buf : blockno[c] = j /\ valid[c]
        <5>1. PICK c \in Buf : blockno[c] = j /\ valid[c]
          BY Zenon, <4>1
        <5>2. c # b
          BY Zenon, <3>2, <5>1 DEF k
        <5>3. blockno'[c] = j /\ valid'[c] /\ data'[c] = data[c]
          BY Zenon, <1>2, <5>1, <5>2
        <5>4. Mem[j] = data[c]
          BY Zenon, <3>0, <5>1, MemIs DEF MemFact
        <5>5. Mem'[j] = data'[c]
          BY Zenon, <3>0, <5>3, MemNext DEF MemFact
        <5>6. QED
          BY Zenon, <5>3, <5>4, <5>5
      <4>2. CASE \A c \in Buf : blockno[c] = j => ~valid[c]
        <5>1. \A c \in Buf : blockno'[c] = j => ~valid'[c]
          BY Zenon, <1>2, <3>2, <4>2 DEF k
        <5>2. Mem[j] = disk[j]
          BY Zenon, <3>0, <4>2, MemIs DEF MemFact
        <5>3. Mem'[j] = disk'[j]
          BY Zenon, <3>0, <5>1, MemNext DEF MemFact
        <5>4. QED
          BY Zenon, <1>2, <5>2, <5>3
      <4>3. QED
        BY Zenon, <4>1, <4>2
    <3>3. QED
      BY Zenon, <3>1, <3>2
  <2>2. QED
    BY Zenon, <2>1, MemSame
<1>6. Owner[k] = NoProc
  BY Zenon, <1>1, <1>4, OwnerIs DEF BufInv, OwnerFact
<1>7. Owner' = [Owner EXCEPT ![k] = p]
  <2>1. \A q \in Proc, j \in Block : Owns(q, j)' <=> IF q = p THEN j = k ELSE Owns(q, j)
    BY <1>1, <1>2, Zenon DEF Owns, b, k
  <2>2. Owner'[k] = p
    BY Zenon, <1>1, <2>1, OwnerNext DEF BufInv, OwnerFact
  <2>3. ASSUME NEW j \in Block, j # k PROVE Owner'[j] = Owner[j]
    <3>0. ~Owns(p, j)
      BY Zenon, <1>1 DEF Owns
    <3>1. CASE \E q \in Proc : Owns(q, j)
      BY Zenon, <2>1, <2>3, <3>0, <3>1, OwnerIs, OwnerNext DEF BufInv, OwnerFact
    <3>2. CASE \A q \in Proc : ~Owns(q, j)
      BY Zenon, <2>1, <2>3, <3>2, OwnerIs, OwnerNext DEF BufInv, OwnerFact
    <3>3. QED
      BY Zenon, <3>1, <3>2
  <2>4. QED
    BY Zenon, <2>2, <2>3, OwnerIs, OwnerNext DEF BufInv, OwnerFact
<1>8. QED
  BY <1>1, <1>5, <1>6, <1>7, Zenon DEF Abs!Lock

\* What the process that holds a buffer knows: it is the block's only buffer, and it is valid.
LEMMA HeldFacts ==
  ASSUME BufInv, NEW p \in Proc, pc[p] \in {"held", "written"}
  PROVE  /\ buf[p] \in Buf /\ blockno[buf[p]] \in Block /\ blockno[buf[p]] # NoBlock
         /\ valid[buf[p]]
         /\ \A c \in Buf : c # buf[p] => blockno[c] # blockno[buf[p]]
         /\ Owner[blockno[buf[p]]] = p
         /\ Mem[blockno[buf[p]]] = data[buf[p]]
<1>1. buf[p] \in Buf /\ blockno[buf[p]] \in Block /\ blockno[buf[p]] # NoBlock /\ valid[buf[p]]
  BY BufAssumption DEF BufInv, TypeOK, UseInv, Using
<1>2. \A c \in Buf : c # buf[p] => blockno[c] # blockno[buf[p]]
  BY Zenon, <1>1 DEF BufInv, OneBuffer
<1>3. Owner[blockno[buf[p]]] = p
  BY Zenon, <1>1, OwnerIs DEF BufInv, OwnerFact, Owns
<1>4. Mem[blockno[buf[p]]] = data[buf[p]]
  BY Zenon, <1>1, MemIs DEF BufInv, MemFact
<1>5. QED
  BY Zenon, <1>1, <1>2, <1>3, <1>4

\* A step that changes the data of p's buffer and the disk copy of its block only.
LEMMA OtherBlocks ==
  ASSUME BufInv, BufInv', NEW p \in Proc, pc[p] \in {"held", "written"},
         UNCHANGED <<blockno, valid>>,
         \A c \in Buf : c # buf[p] => data'[c] = data[c],
         \A j \in Block : j # blockno[buf[p]] => disk'[j] = disk[j]
  PROVE  \A j \in Block : j # blockno[buf[p]] => Mem'[j] = Mem[j]
<1> SUFFICES ASSUME NEW j \in Block, j # blockno[buf[p]] PROVE Mem'[j] = Mem[j]
  OBVIOUS
<1>0. j # NoBlock /\ OneBuffer /\ OneBuffer'
  BY Zenon, BufAssumption DEF BufInv
<1>1. CASE \E c \in Buf : blockno[c] = j /\ valid[c]
  <2>1. PICK c \in Buf : blockno[c] = j /\ valid[c]
    BY Zenon, <1>1
  <2>2. c # buf[p] /\ blockno'[c] = j /\ valid'[c] /\ data'[c] = data[c]
    BY Zenon, <2>1
  <2>3. Mem[j] = data[c]
    BY Zenon, <1>0, <2>1, MemIs DEF MemFact
  <2>4. Mem'[j] = data'[c]
    BY Zenon, <1>0, <2>2, MemNext DEF MemFact
  <2>5. QED
    BY Zenon, <2>2, <2>3, <2>4
<1>2. CASE \A c \in Buf : blockno[c] = j => ~valid[c]
  <2>1. Mem[j] = disk[j]
    BY Zenon, <1>0, <1>2, MemIs DEF MemFact
  <2>2. Mem'[j] = disk'[j]
    BY Zenon, <1>0, <1>2, MemNext DEF MemFact
  <2>3. QED
    BY Zenon, <2>1, <2>2
<1>3. QED
  BY Zenon, <1>1, <1>2

\* The holder's change of b->data is the change of the block's contents.
LEMMA ModifyAbs ==
  ASSUME BufInv, BufInv', NEW p \in Proc, NEW v \in Value, modify(p, v)
  PROVE  \E k \in Block : Abs!Modify(p, k, v)
<1> DEFINE k == blockno[buf[p]]
<1>1. /\ pc[p] \in {"held", "written"} /\ pc'[p] = "held"
      /\ \A q \in Proc : q # p => pc'[q] = pc[q]
      /\ UNCHANGED <<blockno, valid, disk, buf>>
      /\ data' = [data EXCEPT ![buf[p]] = v]
  BY DEF BufInv, TypeOK, modify
<1>2. k \in Block /\ buf[p] \in Buf /\ Owner[k] = p
  BY <1>1, HeldFacts, Zenon
<1>3. data'[buf[p]] = v /\ \A c \in Buf : c # buf[p] => data'[c] = data[c]
  BY Zenon, <1>1, <1>2 DEF BufInv, TypeOK
<1>4. Mem'[k] = v
  <2>1. (blockno[buf[p]])' = k /\ buf'[p] = buf[p]
    BY Zenon, <1>1
  <2>2. k # NoBlock /\ valid[buf[p]]
    BY <1>1, HeldFacts, Zenon
  <2>3. QED
    BY ZenonT(30), <1>1, <1>2, <1>3, <2>1, <2>2, MemNext DEF BufInv, MemFact
<1>5. \A j \in Block : j # k => Mem'[j] = Mem[j]
  BY <1>1, <1>3, OtherBlocks, Zenon
<1> HIDE DEF k
<1>6. Mem' = [Mem EXCEPT ![k] = v]
  BY Zenon, <1>2, <1>4, <1>5, MemIs, MemNext DEF BufInv, MemFact
<1>7. Owner' = Owner
  <2>1. \A q \in Proc, j \in Block : Owns(q, j)' <=> Owns(q, j)
    BY Zenon, <1>1 DEF Owns
  <2>2. QED
    BY Zenon, <2>1, OwnerSame
<1>8. QED
  BY <1>2, <1>6, <1>7, Zenon DEF Abs!Modify

\* bwrite makes the disk agree and changes no contents.
LEMMA WriteAbs ==
  ASSUME BufInv, BufInv', NEW p \in Proc, bwrite(p)
  PROVE  UNCHANGED <<Mem, Owner>>
<1> DEFINE k == blockno[buf[p]]
<1>1. /\ pc[p] = "held" /\ pc'[p] = "written"
      /\ \A q \in Proc : q # p => pc'[q] = pc[q]
      /\ UNCHANGED <<blockno, valid, data, buf>>
      /\ disk' = [disk EXCEPT ![k] = data[buf[p]]]
  BY Zenon DEF BufInv, TypeOK, bwrite
<1>2. /\ k \in Block /\ buf[p] \in Buf /\ k # NoBlock /\ valid[buf[p]]
      /\ Mem[k] = data[buf[p]]
  BY <1>1, HeldFacts, Zenon
<1>3. \A j \in Block : j # k => disk'[j] = disk[j]
  BY Zenon, <1>1, <1>2 DEF BufInv, TypeOK
<1>4. Mem'[k] = Mem[k]
  <2>1. blockno'[buf[p]] = k /\ valid'[buf[p]] /\ data'[buf[p]] = data[buf[p]]
    BY Zenon, <1>1, <1>2
  <2>2. QED
    BY Zenon, <1>2, <2>1, MemNext DEF BufInv, MemFact
<1>5. \A j \in Block : j # k => Mem'[j] = Mem[j]
  BY Zenon, <1>1, <1>3, OtherBlocks
<1>6. Mem' = Mem
  BY Zenon, <1>4, <1>5, MemSame
<1>7. \A q \in Proc, j \in Block : Owns(q, j)' <=> Owns(q, j)
  BY Zenon, <1>1 DEF Owns
<1>8. QED
  BY Zenon, <1>6, <1>7, OwnerSame

\* releasesleep gives the block up, whoever it wakes.
LEMMA ReleaseAbs ==
  ASSUME BufInv, BufInv', NEW p \in Proc, releasesleep(p)
  PROVE  \E k \in Block : Abs!Unlock(p, k)
<1> DEFINE k == blockno[buf[p]]
<1>1. /\ pc[p] \in {"held", "written"} /\ pc'[p] = "released"
      /\ \A q \in Proc : q # p => \/ pc'[q] = pc[q]
                                  \/ pc[q] = "asleep" /\ pc'[q] = "got"
      /\ UNCHANGED <<blockno, valid, data, disk, buf>>
  BY Zenon DEF releasesleep
<1>2. k \in Block /\ Owner[k] = p
  BY Zenon, <1>1, HeldFacts
<1>3. Mem' = Mem
  BY <1>1 DEF Mem
<1>4. Owns(p, k)
  BY Zenon, <1>1 DEF Owns
<1>5. \A j \in Block : ~Owns(p, j)' /\ (j # k => ~Owns(p, j))
  BY Zenon, <1>1 DEF Owns
<1>6. \A q \in Proc, j \in Block : q # p => (Owns(q, j)' <=> Owns(q, j))
  BY Zenon, <1>1 DEF Owns
<1>7. \A q \in Proc : q # p => ~Owns(q, k)
  BY Zenon, <1>2, OwnerIs DEF BufInv, OwnerFact
<1> HIDE DEF k
<1>8. Owner'[k] = NoProc
  BY Zenon, <1>2, <1>5, <1>6, <1>7, OwnerNext DEF BufInv, OwnerFact
<1>9. ASSUME NEW j \in Block, j # k PROVE Owner'[j] = Owner[j]
  <2>1. CASE \E q \in Proc : Owns(q, j)
    <3>1. PICK q \in Proc : Owns(q, j)
      BY Zenon, <2>1
    <3>2. q # p
      BY Zenon, <1>5, <1>9, <3>1
    <3>3. Owns(q, j)'
      BY Zenon, <1>6, <3>1, <3>2
    <3>4. QED
      BY Zenon, <3>1, <3>3, OwnerIs, OwnerNext DEF BufInv, OwnerFact
  <2>2. CASE \A q \in Proc : ~Owns(q, j)
    <3>1. \A q \in Proc : ~Owns(q, j)'
      BY Zenon, <1>5, <1>6, <2>2
    <3>2. QED
      BY Zenon, <2>2, <3>1, OwnerIs, OwnerNext DEF BufInv, OwnerFact
  <2>3. QED
    BY Zenon, <2>1, <2>2
<1>10. Owner' = [Owner EXCEPT ![k] = NoProc]
  BY Zenon, <1>2, <1>8, <1>9, OwnerIs, OwnerNext DEF BufInv, OwnerFact
<1>11. QED
  BY <1>2, <1>3, <1>10, Zenon DEF Abs!Unlock

\* Every step of the cache is a step of BlockStore, or changes nothing of it.
LEMMA AbsStep ==
  ASSUME BufInv, BufInv', [Next]_vars
  PROVE  [Abs!Next]_<<Mem, Owner>>
<1>0. /\ pc \in [Proc -> Using \cup {"idle"}] /\ buf \in [Proc -> Buf]
  BY Zenon DEF BufInv, TypeOK
<1>1. ASSUME NEW p \in Proc, Use(p) PROVE [Abs!Next]_<<Mem, Owner>>
  <2>1. CASE \E k \in Block, b \in Buf : bget_hit(p, k, b)
    <3>1. PICK k \in Block, b \in Buf : bget_hit(p, k, b)
      BY Zenon, <2>1
    <3>2. /\ pc[p] = "idle" /\ pc'[p] = "got" /\ UNCHANGED <<blockno, valid, data, disk>>
          /\ \A q \in Proc : q # p => pc'[q] = pc[q] /\ buf'[q] = buf[q]
      BY Zenon, <1>0, <3>1 DEF bget_hit
    <3>3. QED
      BY Zenon, <3>2, Invisible
  <2>2. CASE \E k \in Block, b \in Buf : bget_recycle(p, k, b)
    BY Zenon, <2>2, RecycleAbs
  <2>3. CASE \E k \in Block : bget_panics(p, k)
    BY Zenon, <2>3, Invisible DEF bget_panics, procs
  <2>4. CASE acquiresleep(p)
    <3>1. /\ pc[p] = "got" /\ pc'[p] \in {"locked", "asleep"}
          /\ UNCHANGED <<blockno, valid, data, disk, buf>>
          /\ \A q \in Proc : q # p => pc'[q] = pc[q]
      BY Zenon, <1>0, <2>4 DEF acquiresleep
    <3>2. QED
      BY Zenon, <3>1, Invisible
  <2>5. CASE kill(p)
    <3>1. /\ pc[p] = "asleep" /\ pc'[p] = "got"
          /\ UNCHANGED <<blockno, valid, data, disk, buf>>
          /\ \A q \in Proc : q # p => pc'[q] = pc[q]
      BY Zenon, <1>0, <2>5 DEF kill
    <3>2. QED
      BY Zenon, <3>1, Invisible
  <2>6. CASE bread(p)
    BY Zenon, <2>6, BreadAbs DEF Abs!Next
  <2>7. CASE \E v \in Value : modify(p, v)
    BY Zenon, <2>7, ModifyAbs DEF Abs!Next
  <2>8. CASE bwrite(p)
    BY Zenon, <2>8, WriteAbs
  <2>9. CASE bpin(p)
    BY Zenon, <2>9, Invisible DEF bpin
  <2>10. CASE bunpin(p)
    BY Zenon, <2>10, Invisible DEF bunpin
  <2>11. CASE releasesleep(p)
    BY Zenon, <2>11, ReleaseAbs DEF Abs!Next
  <2>12. CASE brelse(p)
    <3>1. /\ pc[p] = "released" /\ pc'[p] = "idle"
          /\ UNCHANGED <<blockno, valid, data, disk, buf>>
          /\ \A q \in Proc : q # p => pc'[q] = pc[q]
      BY Zenon, <1>0, <2>12 DEF brelse
    <3>2. QED
      BY Zenon, <3>1, Invisible
  <2>13. QED
    BY Zenon, <1>1, <2>1, <2>2, <2>3, <2>4, <2>5, <2>6, <2>7, <2>8, <2>9, <2>10, <2>11, <2>12 DEF Use
<1>2. CASE UNCHANGED vars
  BY <1>2, Invisible, Zenon DEF vars
<1>3. QED
  BY Zenon, <1>1, <1>2 DEF Next

(***************************************************************************)
(* The cache implements BlockStore: bread returns what the last holder of  *)
(* the block left, through recycling, pinning and write-back (bget, bread, *)
(* bwrite, brelse), and one process at a time has a block.                 *)
(***************************************************************************)
THEOREM Coherence == Spec => Coherent
<1>1. Init => Abs!Init
  <2> SUFFICES ASSUME Init PROVE Abs!Init
    OBVIOUS
  <2>1. BufInv
    BY Zenon, InitInv
  <2>2. \A k \in Block : Mem[k] = disk[k]
    BY Zenon, <2>1, MemIs DEF BufInv, MemFact, Init
  <2>3. Mem \in [Block -> Value]
    BY ZenonT(30), <2>1, <2>2, MemIs DEF BufInv, MemFact, Init
  <2>4. \A k \in Block : Owner[k] = NoProc
    BY Zenon, <2>1, OwnerIs DEF BufInv, OwnerFact, Owns, Init
  <2>5. QED
    BY Zenon, <2>1, <2>3, <2>4, OwnerIs DEF BufInv, OwnerFact, Abs!Init
<1>2. BufInv /\ BufInv' /\ [Next]_vars => [Abs!Next]_<<Mem, Owner>>
  BY Zenon, AbsStep
<1>3. QED
  BY <1>1, <1>2, Invariance, PTL DEF Spec, Coherent, Abs!Spec
===============================================================================
