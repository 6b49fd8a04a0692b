----------------------------- MODULE VirtioProofs -----------------------------
(***************************************************************************)
(* Proofs about Virtio, for any number of processes and descriptors and    *)
(* any width of the rings' indices.                                        *)
(***************************************************************************)
EXTENDS Virtio, FiniteSetTheorems, TLAPS

\* The chain of p's call as fill made it, and what the request in its first descriptor says.
D1(p) == desc[idx[p]].next
D2(p) == desc[D1(p)].next
Trio(p) == {idx[p], D1(p), D2(p)}
ChainOK(p) ==
  /\ idx[p] # D1(p) /\ idx[p] # D2(p) /\ D1(p) # D2(p)
  /\ desc[idx[p]].more /\ desc[D1(p)].more
  /\ desc[D1(p)].addr = p /\ desc[D2(p)].addr = idx[p]
  /\ ops[idx[p]].out = write[p] /\ ops[idx[p]].sector = p /\ info[idx[p]].b = p

ChainInv ==
  /\ \A p \in Active : ChainOK(p) /\ Trio(p) \cap free = {}
  /\ \A p, q \in Active : p # q => Trio(p) \cap Trio(q) = {}
CountInv == IsFiniteSet(Active) /\ Cardinality(free) + 3 * Cardinality(Active) = NUM

\* Who has vdisk_lock, who waits for the device, and for what the others sleep.
CallInv ==
  /\ lock \in Proc => pc[lock] \in {"filled", "submitted"}
  /\ \A p \in Proc :
       /\ pc[p] \in {"filled", "submitted"} => lock = p
       /\ disk[p] => p \in Active
       /\ pc[p] \in {"filled", "submitted", "sleep_b"} => disk[p]
       /\ pc[p] = "sleep_free" => Cardinality(free) < 3

\* How many entries there are between two indices of a ring, and that they are different.
Gap(from, to) == (to - from) % WORD
Distinct(ring, from, to) ==
  \A j, k \in 0..(Gap(from, to) - 1) : ring[(from + j) % NUM] = ring[(from + k) % NUM] => j = k
Index == 0..(WORD - 1)

\* The requests that the device has been told of are in one place each, and the one that it
\* is about to be told of is in the ring.
Sent == {p \in Proc : disk[p] /\ pc[p] # "filled"}
Told == Unseen \cup Untaken \cup busy
RingInv ==
  /\ Distinct(used, seen_idx, used_idx) /\ Distinct(avail, taken, avail_idx)
  /\ Unseen \cap Untaken = {} /\ (Unseen \cup Untaken) \cap busy = {}
  /\ \A p \in Sent : idx[p] \in Told
  /\ \A h \in Told : \E p \in Sent : idx[p] = h
  /\ \A p \in Proc : pc[p] = "filled" => avail[avail_idx % NUM] = idx[p]

\* What has been transferred.
Done(p) == pc[p] = "idle" \/ (p \in Active /\ (disk[p] => idx[p] \in Unseen))
DoneInv ==
  /\ \A p \in Active : idx[p] \in Unseen => info[idx[p]].status = 0
  /\ \A p \in Proc : Done(p) => data[p] = media[p]
  /\ InterruptPending

VirtioInv == TypeOK /\ ChainInv /\ CountInv /\ CallInv /\ RingInv /\ DoneInv
-------------------------------------------------------------------------------
(***************************************************************************)
(* The rings.                                                              *)
(***************************************************************************)
\* Division with remainder.
LEMMA DivMod ==
  ASSUME NEW d \in Nat \ {0}, NEW a \in Int
  PROVE  a \div d \in Int /\ a % d \in 0..(d - 1) /\ d * (a \div d) = a - (a % d)
OBVIOUS

\* A multiple of d is zero, or d away from it.
LEMMA Multiples ==
  ASSUME NEW d \in Nat \ {0}, NEW m \in Int
  PROVE  /\ m <= 0 => m * d <= 0
         /\ m >= 1 => m * d >= d
OBVIOUS

\* The remainder is unique.
LEMMA Remainder ==
  ASSUME NEW d \in Nat \ {0}, NEW m \in Int, NEW k \in Int,
         NEW r \in 0..(d - 1), NEW t \in 0..(d - 1), d * m + r = d * k + t
  PROVE  r = t
<1>1. m - k \in Int /\ (m - k) * d = t - r /\ k - m \in Int /\ (k - m) * d = r - t
  OBVIOUS
<1>2. (m - k <= 0 => (m - k) * d <= 0) /\ (m - k >= 1 => (m - k) * d >= d)
  BY Zenon, <1>1, Multiples
<1>3. (k - m <= 0 => (k - m) * d <= 0) /\ (k - m >= 1 => (k - m) * d >= d)
  BY Zenon, <1>1, Multiples
<1>4. QED
  BY <1>1, <1>2, <1>3

\* The constants, as the arithmetic needs them.
LEMMA Sizes ==
  /\ NUM \in Nat \ {0} /\ WORD \in Nat \ {0} /\ NUM >= 3 /\ NUM < WORD /\ WORD % NUM = 0
  /\ Desc = 0..(NUM - 1)
BY VirtioAssumption DEF Desc

\* The part of it that is linear.
LEMMA Ranges ==
  /\ NUM \in Nat \ {0} /\ WORD \in Nat \ {0} /\ NUM >= 3 /\ NUM < WORD
  /\ Desc = 0..(NUM - 1)
BY Zenon, Sizes

\* Less than NUM apart, two entries are in different places of a ring.
LEMMA PlacesDiffer ==
  ASSUME NEW a \in Int, NEW d \in 1..(NUM - 1)
  PROVE  a % NUM # (a + d) % NUM
<1> SUFFICES ASSUME a % NUM = (a + d) % NUM PROVE FALSE
  OBVIOUS
<1> DEFINE m == a \div NUM
           k == (a + d) \div NUM
<1>0. NUM \in Nat \ {0} /\ d \in Int /\ a + d \in Int
  BY Ranges
<1>1. m \in Int /\ NUM * m = a - (a % NUM) /\ a % NUM \in 0..(NUM - 1)
  BY <1>0, DivMod, Zenon
<1>2. k \in Int /\ NUM * k = (a + d) - ((a + d) % NUM)
  BY <1>0, DivMod, Zenon
<1> HIDE DEF m, k
<1>3. k - m \in Int /\ (k - m) * NUM = d
  BY <1>0, <1>1, <1>2
<1>4. QED
  BY <1>0, <1>3, Multiples

\* The indices wrap around at a multiple of NUM: no place is skipped.
LEMMA PlaceWraps ==
  ASSUME NEW a \in Int
  PROVE  (a + WORD) % NUM = a % NUM
<1> DEFINE m == a \div NUM
           r == a % NUM
           k == (a + WORD) \div NUM
           t == (a + WORD) % NUM
           w == WORD \div NUM
<1>0. NUM \in Nat \ {0} /\ WORD \in Int /\ a + WORD \in Int /\ WORD % NUM = 0
  BY Sizes
<1>1. m \in Int /\ NUM * m = a - r /\ r \in 0..(NUM - 1)
  BY <1>0, DivMod, Zenon
<1>2. k \in Int /\ NUM * k = (a + WORD) - t /\ t \in 0..(NUM - 1)
  BY <1>0, DivMod, Zenon
<1>3. w \in Int /\ NUM * w = WORD
  BY <1>0, DivMod
<1> HIDE DEF m, r, k, t, w
<1>4. m + w \in Int /\ NUM * (m + w) = (a + WORD) - r
  BY <1>0, <1>1, <1>3
<1>5. NUM * (m + w) + r = NUM * k + t
  BY <1>0, <1>1, <1>2, <1>4
<1>6. r = t
  BY <1>0, <1>1, <1>2, <1>4, <1>5, Remainder, Zenon
<1>7. QED
  BY Zenon, <1>6 DEF r, t

\* A number less than WORD, or less than WORD below zero, modulo WORD.
LEMMA Wrap ==
  ASSUME NEW a \in Int
  PROVE  /\ 0 <= a /\ a < WORD => a % WORD = a
         /\ 0 - WORD <= a /\ a < 0 => a % WORD = a + WORD
         /\ a = WORD => a % WORD = 0
BY Ranges

\* The number of entries between two indices, and how it changes when one of them moves.
LEMMA GapIs ==
  ASSUME NEW a \in Index, NEW b \in Index
  PROVE  /\ Gap(a, b) = IF b >= a THEN b - a ELSE b - a + WORD
         /\ Gap(a, b) \in Index /\ (Gap(a, b) = 0 <=> a = b)
         /\ (b + 1) % WORD = IF b = WORD - 1 THEN 0 ELSE b + 1
         /\ (b + 1) % WORD \in Index
<1>1. Gap(a, b) = IF b >= a THEN b - a ELSE b - a + WORD
  BY Ranges, Wrap DEF Gap, Index
<1>2. (b + 1) % WORD = IF b = WORD - 1 THEN 0 ELSE b + 1
  BY Ranges, Wrap DEF Index
<1>3. QED
  BY <1>1, <1>2, Ranges DEF Index

\* Gap counts: one more entry when the far index moves on, one less when the near one does.
LEMMA GapMoves ==
  ASSUME NEW a \in Index, NEW b \in Index
  PROVE  /\ Gap(a, b) < WORD - 1 => Gap(a, (b + 1) % WORD) = Gap(a, b) + 1
         /\ a # b => Gap((a + 1) % WORD, b) = Gap(a, b) - 1
<1> DEFINE c == (b + 1) % WORD
           d == (a + 1) % WORD
<1>1. /\ c \in Index /\ c = (IF b = WORD - 1 THEN 0 ELSE b + 1)
      /\ d \in Index /\ d = (IF a = WORD - 1 THEN 0 ELSE a + 1)
  BY Zenon, GapIs
<1> HIDE DEF c, d
<1>2. /\ Gap(a, b) = IF b >= a THEN b - a ELSE b - a + WORD
      /\ Gap(a, c) = IF c >= a THEN c - a ELSE c - a + WORD
      /\ Gap(d, b) = IF b >= d THEN b - d ELSE b - d + WORD
  BY Zenon, <1>1, GapIs
<1>3. (Gap(a, b) < WORD - 1 => Gap(a, c) = Gap(a, b) + 1) /\ (a # b => Gap(d, b) = Gap(a, b) - 1)
  BY <1>1, <1>2, Ranges DEF Index
<1>4. QED
  BY Zenon, <1>3 DEF c, d

\* Where the entries of a ring are: the one after the last is at the far index, and moving
\* the near index on renumbers them.
LEMMA Places ==
  ASSUME NEW a \in Index, NEW b \in Index, NEW k \in Nat
  PROVE  /\ (a + k) % NUM \in Desc /\ a % NUM \in Desc
         /\ (a + Gap(a, b)) % NUM = b % NUM
         /\ (((a + 1) % WORD) + k) % NUM = (a + (k + 1)) % NUM
<1>1. a \in Int /\ b \in Int /\ a + k \in Int /\ NUM \in Nat \ {0} /\ Desc = 0..(NUM - 1)
  BY Ranges DEF Index
<1>2. (a + k) % NUM \in Desc /\ a % NUM \in Desc
  BY Zenon, <1>1, DivMod
<1>3. (a + Gap(a, b)) % NUM = b % NUM
  <2>1. a + Gap(a, b) = b \/ a + Gap(a, b) = b + WORD
    <3>1. Gap(a, b) = IF b >= a THEN b - a ELSE b - a + WORD
      BY Zenon, GapIs
    <3>2. QED
      BY <3>1, <1>1, Ranges
  <2>2. QED
    BY Zenon, <1>1, <2>1, PlaceWraps
<1>4. (((a + 1) % WORD) + k) % NUM = (a + (k + 1)) % NUM
  <2>1. (a + 1) % WORD = IF a = WORD - 1 THEN 0 ELSE a + 1
    BY Zenon, GapIs
  <2>2. CASE a = WORD - 1
    <3>1. ((a + 1) % WORD) + k = k /\ a + (k + 1) = k + WORD /\ k \in Int
      BY <2>1, <2>2, <1>1, Ranges
    <3>2. QED
      BY Zenon, <3>1, PlaceWraps
  <2>3. CASE a # WORD - 1
    <3>1. ((a + 1) % WORD) + k = a + (k + 1)
      BY <2>1, <2>3, <1>1
    <3>2. QED
      BY Zenon, <3>1
  <2>4. QED
    BY Zenon, <2>2, <2>3
<1>5. QED
  BY Zenon, <1>2, <1>3, <1>4

\* Entries that are different are as many as there are places between the indices.
LEMMA EntriesCount ==
  ASSUME NEW ring \in [Desc -> Desc], NEW a \in Index, NEW b \in Index, Distinct(ring, a, b)
  PROVE  /\ Entries(ring, a, b) \subseteq Desc /\ IsFiniteSet(Entries(ring, a, b))
         /\ Cardinality(Entries(ring, a, b)) = Gap(a, b)
<1> DEFINE n == Gap(a, b)
           S == 0..(n - 1)
           T == Entries(ring, a, b)
           f == [k \in S |-> ring[(a + k) % NUM]]
<1>1. n \in Nat
  BY GapIs, Ranges DEF Index
<1>2. \A k \in S : k \in Nat /\ (a + k) % NUM \in Desc
  <2>1. ASSUME NEW k \in S PROVE k \in Nat
    BY <1>1
  <2>2. QED
    BY Zenon, <2>1, Places
<1>3. T = {ring[(a + k) % NUM] : k \in S}
  BY Zenon DEF Entries, Gap
<1>4. T \subseteq Desc
  BY Zenon, <1>2, <1>3
<1>5. f \in [S -> T] /\ \A t \in T : \E k \in S : f[k] = t
  <2> HIDE DEF S
  <2>1. QED
    BY Zenon, <1>3
<1>6. \A j, k \in S : f[j] = f[k] => j = k
  BY Zenon DEF Distinct
<1> HIDE DEF f, T
<1>7. f \in Bijection(S, T)
  BY Zenon, <1>5, <1>6 DEF Bijection, Injection, Surjection, IsInjective
<1>8. ExistsBijection(S, T)
  BY Zenon, <1>7 DEF ExistsBijection
<1>9. IsFiniteSet(S) /\ Cardinality(S) = n
  <2>1. 0 \in Int /\ n - 1 \in Int
    BY <1>1
  <2>2. IsFiniteSet(S) /\ Cardinality(S) = IF 0 > n - 1 THEN 0 ELSE (n - 1) - 0 + 1
    BY Zenon, <2>1, FS_Interval
  <2> HIDE DEF S, n
  <2>3. QED
    BY <1>1, <2>2
<1>10. IsFiniteSet(T) /\ Cardinality(T) = Cardinality(S)
  BY Zenon, <1>8, <1>9, FS_Bijection
<1>11. QED
  BY Zenon, <1>4, <1>9, <1>10 DEF T

\* As long as some descriptor is not in it, a ring has room for one more.
LEMMA RingRoom ==
  ASSUME NEW ring \in [Desc -> Desc], NEW a \in Index, NEW b \in Index, Distinct(ring, a, b),
         NEW h \in Desc, h \notin Entries(ring, a, b)
  PROVE  Gap(a, b) < NUM /\ Gap(a, b) < WORD - 1 /\ Gap(a, b) \in Nat
<1> DEFINE T == Entries(ring, a, b)
<1>1. T \subseteq Desc /\ IsFiniteSet(T) /\ Cardinality(T) = Gap(a, b)
  BY Zenon, EntriesCount
<1>2. IsFiniteSet(Desc) /\ Cardinality(Desc) = NUM
  BY Ranges, FS_Interval
<1>3. Cardinality(T) <= Cardinality(Desc) /\ (Cardinality(Desc) = Cardinality(T) => Desc = T)
  BY Zenon, <1>1, <1>2, FS_Subset
<1>4. Cardinality(T) # Cardinality(Desc)
  BY Zenon, <1>3
<1> HIDE DEF T
<1>5. Gap(a, b) \in Nat
  BY GapIs, Ranges DEF Index
<1>6. Gap(a, b) <= NUM /\ Gap(a, b) # NUM
  BY Zenon, <1>1, <1>2, <1>3, <1>4
<1>7. QED
  BY <1>5, <1>6, Ranges

\* The entries of a ring by their numbers.
LEMMA EntriesAre ==
  ASSUME NEW ring, NEW a, NEW b
  PROVE  Entries(ring, a, b) = {ring[(a + k) % NUM] : k \in 0..(Gap(a, b) - 1)}
BY Zenon DEF Entries, Gap

\* Writing an entry at the far index, before it moves, leaves the others as they are.
LEMMA RingWrite ==
  ASSUME NEW ring \in [Desc -> Desc], NEW a \in Index, NEW b \in Index, Distinct(ring, a, b),
         NEW h \in Desc, h \notin Entries(ring, a, b),
         NEW new \in [Desc -> Desc], \A k \in Desc : k # b % NUM => new[k] = ring[k]
  PROVE  Entries(new, a, b) = Entries(ring, a, b) /\ Distinct(new, a, b)
<1> DEFINE n == Gap(a, b)
<1>1. n \in Nat /\ n < NUM /\ a \in Int /\ b % NUM \in Desc
  <2>1. n \in Nat /\ n < NUM
    BY Zenon, RingRoom
  <2>2. a \in Int
    BY Ranges DEF Index
  <2>3. 0 \in Nat
    OBVIOUS
  <2>4. b % NUM \in Desc
    BY Zenon, <2>3, Places
  <2>5. QED
    BY Zenon, <2>1, <2>2, <2>4
<1>2. ASSUME NEW k \in 0..(n - 1)
      PROVE  (a + k) % NUM # b % NUM /\ (a + k) % NUM \in Desc
  <2>1. k \in Nat /\ n - k \in 1..(NUM - 1) /\ a + k \in Int /\ (a + k) + (n - k) = a + n
    <3>1. n \in Nat /\ n < NUM /\ a \in Int /\ NUM \in Nat
      BY Zenon, <1>1, Sizes
    <3> HIDE DEF n
    <3>2. QED
      BY <3>1
  <2>2. (a + k) % NUM # ((a + k) + (n - k)) % NUM
    BY Zenon, <2>1, PlacesDiffer
  <2>3. (a + n) % NUM = b % NUM /\ (a + k) % NUM \in Desc
    BY Zenon, <2>1, Places
  <2>4. QED
    BY Zenon, <2>1, <2>2, <2>3
<1> HIDE DEF n
<1>3. \A k \in 0..(n - 1) : new[(a + k) % NUM] = ring[(a + k) % NUM]
  BY Zenon, <1>2
<1>4. Entries(new, a, b) = Entries(ring, a, b)
  <2>1. /\ Entries(new, a, b) = {new[(a + k) % NUM] : k \in 0..(n - 1)}
        /\ Entries(ring, a, b) = {ring[(a + k) % NUM] : k \in 0..(n - 1)}
    BY Zenon, EntriesAre DEF n
  <2>2. ASSUME NEW x PROVE x \in Entries(new, a, b) <=> x \in Entries(ring, a, b)
    BY Zenon, <1>3, <2>1
  <2>3. QED
    BY Zenon, <2>2
<1>5. Distinct(new, a, b)
  BY Zenon, <1>3 DEF Distinct, n
<1>6. QED
  BY Zenon, <1>4, <1>5

\* An index has its entry in the ring.
LEMMA IndexPlace ==
  ASSUME NEW b \in Index
  PROVE  b % NUM \in Desc
BY Ranges DEF Index, Desc

\* When the far index moves, what was written there is one more entry.
LEMMA RingAdd ==
  ASSUME NEW ring \in [Desc -> Desc], NEW a \in Index, NEW b \in Index, Distinct(ring, a, b),
         ring[b % NUM] \notin Entries(ring, a, b)
  PROVE  /\ Entries(ring, a, (b + 1) % WORD) = Entries(ring, a, b) \cup {ring[b % NUM]}
         /\ Distinct(ring, a, (b + 1) % WORD)
<1> DEFINE n == Gap(a, b)
           c == (b + 1) % WORD
           E(k) == ring[(a + k) % NUM]
<1>1. b % NUM \in Desc
  <2>1. 0 \in Nat
    OBVIOUS
  <2>2. QED
    BY Zenon, <2>1, Places
<1>2. n \in Nat /\ Gap(a, c) = n + 1
  <2>1. ring[b % NUM] \in Desc
    BY Zenon, <1>1
  <2>2. n < WORD - 1 /\ n \in Nat
    BY Zenon, <2>1, RingRoom
  <2>3. QED
    BY Zenon, <2>2, GapMoves
<1>3. E(n) = ring[b % NUM]
  BY Zenon, <1>2, Places
<1>4. /\ Entries(ring, a, b) = {E(k) : k \in 0..(n - 1)}
      /\ Entries(ring, a, c) = {E(k) : k \in 0..((n + 1) - 1)}
  BY Zenon, <1>2, EntriesAre
<1>5. \A j, k \in 0..(n - 1) : E(j) = E(k) => j = k
  BY Zenon DEF Distinct
<1> HIDE DEF E, n, c
<1>6. \A k \in 0..((n + 1) - 1) : k \in 0..(n - 1) \/ k = n
  BY <1>2
<1>7. 0..(n - 1) \subseteq 0..((n + 1) - 1) /\ n \in 0..((n + 1) - 1)
  BY <1>2
<1>8. Entries(ring, a, c) = Entries(ring, a, b) \cup {ring[b % NUM]}
  BY Zenon, <1>3, <1>4, <1>6, <1>7
<1>9. \A j, k \in 0..((n + 1) - 1) : E(j) = E(k) => j = k
  BY Zenon, <1>3, <1>4, <1>5, <1>6
<1>10. Distinct(ring, a, c)
  BY Zenon, <1>2, <1>9 DEF Distinct, E
<1>11. QED
  BY Zenon, <1>8, <1>10 DEF c

\* When the near index moves, the entry there is the one that leaves.
LEMMA RingTake ==
  ASSUME NEW ring \in [Desc -> Desc], NEW a \in Index, NEW b \in Index, Distinct(ring, a, b),
         a # b
  PROVE  /\ ring[a % NUM] \in Entries(ring, a, b)
         /\ Entries(ring, (a + 1) % WORD, b) = Entries(ring, a, b) \ {ring[a % NUM]}
         /\ Distinct(ring, (a + 1) % WORD, b)
<1> DEFINE n == Gap(a, b)
           c == (a + 1) % WORD
           E(k) == ring[(a + k) % NUM]
<1>1. n \in Nat /\ n > 0 /\ Gap(c, b) = n - 1
  <2>1. n \in Index /\ (n = 0 <=> a = b)
    BY Zenon, GapIs
  <2>2. n # 0
    BY Zenon, <2>1
  <2>3. Gap(c, b) = n - 1
    BY Zenon, GapMoves
  <2> HIDE DEF n, c
  <2>4. n \in Nat /\ n > 0
    BY <2>1, <2>2, Ranges DEF Index
  <2>5. QED
    BY Zenon, <2>3, <2>4
<1>2. E(0) = ring[a % NUM]
  <2>1. a + 0 = a
    BY DEF Index
  <2>2. QED
    BY Zenon, <2>1
<1>3. ASSUME NEW k \in 0..((n - 1) - 1) PROVE ring[(c + k) % NUM] = E(k + 1)
  <2>1. k \in Nat
    BY <1>1
  <2>2. QED
    BY Zenon, <2>1, Places
<1>4. /\ Entries(ring, a, b) = {E(k) : k \in 0..(n - 1)}
      /\ Entries(ring, c, b) = {ring[(c + k) % NUM] : k \in 0..((n - 1) - 1)}
  BY Zenon, <1>1, EntriesAre
<1>5. \A j, k \in 0..(n - 1) : E(j) = E(k) => j = k
  BY Zenon DEF Distinct
<1> HIDE DEF E, n
<1>6. 0 \in 0..(n - 1) /\ \A k \in 0..((n - 1) - 1) : k + 1 \in 0..(n - 1) /\ k + 1 # 0
  BY <1>1
<1>7. \A k \in 0..(n - 1) : k # 0 => k - 1 \in 0..((n - 1) - 1) /\ (k - 1) + 1 = k
  BY <1>1
<1>8. \A j, k \in 0..((n - 1) - 1) : j + 1 = k + 1 => j = k
  BY <1>1
<1>9. Entries(ring, c, b) = Entries(ring, a, b) \ {ring[a % NUM]}
  <2>1. ASSUME NEW h \in Entries(ring, c, b) PROVE h \in Entries(ring, a, b) /\ h # ring[a % NUM]
    BY Zenon, <2>1, <1>2, <1>3, <1>4, <1>5, <1>6
  <2>2. ASSUME NEW h \in Entries(ring, a, b), h # ring[a % NUM] PROVE h \in Entries(ring, c, b)
    <3>1. PICK k \in 0..(n - 1) : h = E(k)
      BY Zenon, <2>2, <1>4
    <3>2. k # 0
      BY Zenon, <2>2, <3>1, <1>2
    <3>3. k - 1 \in 0..((n - 1) - 1) /\ (k - 1) + 1 = k
      BY Zenon, <3>2, <1>7
    <3>4. ring[(c + (k - 1)) % NUM] = E((k - 1) + 1)
      BY Zenon, <3>3, <1>3
    <3>5. ring[(c + (k - 1)) % NUM] = h
      BY Zenon, <3>1, <3>3, <3>4
    <3>6. QED
      BY Zenon, <3>3, <3>5, <1>4
  <2>3. QED
    BY Zenon, <2>1, <2>2
<1>10. Distinct(ring, c, b)
  <2>1. ASSUME NEW j \in 0..((n - 1) - 1), NEW k \in 0..((n - 1) - 1),
               ring[(c + j) % NUM] = ring[(c + k) % NUM]
        PROVE  j = k
    <3>1. E(j + 1) = E(k + 1) /\ j + 1 \in 0..(n - 1) /\ k + 1 \in 0..(n - 1)
      BY Zenon, <2>1, <1>3, <1>6
    <3>2. QED
      BY Zenon, <3>1, <1>5, <1>8
  <2>2. QED
    BY Zenon, <1>1, <2>1 DEF Distinct
<1>11. ring[a % NUM] \in Entries(ring, a, b)
  BY Zenon, <1>2, <1>4, <1>6
<1>12. QED
  BY Zenon, <1>9, <1>10, <1>11
-------------------------------------------------------------------------------
(***************************************************************************)
(* Taking and giving back three descriptors.                               *)
(***************************************************************************)
\* alloc_desc finds a free descriptor if there is one.
LEMMA Least ==
  ASSUME NEW f \in SUBSET Nat, f # {}
  PROVE  alloc_desc(f) \in f
<1> DEFINE R == OpToRel(<, Nat)
<1>1. IsWellFoundedOn(R, Nat)
  BY Zenon, NatLessThanWellFounded
<1>2. \A x, y \in Nat : y < x => <<y, x>> \in R
  BY Zenon DEF OpToRel
<1> HIDE DEF R
<1>3. \E x \in f : \A y \in f : ~(<<y, x>> \in R)
  BY Zenon, <1>1, WFMin
<1>4. \E x \in f : \A y \in f : ~(y < x)
  BY Zenon, <1>2, <1>3
<1>5. \E x \in f : \A y \in f : x <= y
  BY <1>4
<1>6. QED
  BY Zenon, <1>5 DEF alloc_desc

\* There are finitely many descriptors, and none fewer than no.
LEMMA DescFinite ==
  ASSUME NEW f \in SUBSET Desc
  PROVE  IsFiniteSet(f) /\ Cardinality(f) \in Nat
<1>1. NUM \in Nat /\ 0 \in Int /\ NUM - 1 \in Int
  BY Ranges
<1>2. IsFiniteSet(Desc)
  BY Zenon, <1>1, FS_Interval DEF Desc
<1>3. QED
  BY Zenon, <1>2, FS_Subset, FS_CardinalityType

\* What three descriptors taken out of a set leave (alloc3_desc, free_chain).
LEMMA Take3 ==
  ASSUME NEW f \in SUBSET Desc, NEW a \in f, NEW b \in f, NEW c \in f, a # b, a # c, b # c
  PROVE  Cardinality(f \ {a, b, c}) = Cardinality(f) - 3
<1> DEFINE f1 == f \ {a}
           f2 == f1 \ {b}
<1>1. f1 \in SUBSET Desc /\ f2 \in SUBSET Desc /\ f2 \ {c} \in SUBSET Desc
      /\ b \in f1 /\ c \in f2 /\ f2 \ {c} = f \ {a, b, c}
  BY Zenon
<1>2. Cardinality(f1) = Cardinality(f) - 1
  BY Zenon, DescFinite, FS_RemoveElement
<1> HIDE DEF f1
<1>3. Cardinality(f2) = Cardinality(f1) - 1
  BY Zenon, <1>1, DescFinite, FS_RemoveElement
<1> HIDE DEF f2
<1>4. Cardinality(f2 \ {c}) = Cardinality(f2) - 1
  BY Zenon, <1>1, DescFinite, FS_RemoveElement
<1>5. Cardinality(f) \in Nat /\ Cardinality(f1) \in Nat /\ Cardinality(f2) \in Nat
  BY Zenon, <1>1, DescFinite
<1>6. Cardinality(f2 \ {c}) = Cardinality(f) - 3
  BY <1>2, <1>3, <1>4, <1>5
<1>7. QED
  BY Zenon, <1>1, <1>6

\* What three more add to it.
LEMMA Give3 ==
  ASSUME NEW f \in SUBSET Desc, NEW a \in Desc, NEW b \in Desc, NEW c \in Desc,
         a # b, a # c, b # c, {a, b, c} \cap f = {}
  PROVE  Cardinality(f \cup {a, b, c}) = Cardinality(f) + 3
<1> DEFINE g == f \cup {a, b, c}
<1>1. g \in SUBSET Desc /\ a \in g /\ b \in g /\ c \in g
  BY Zenon
<1>2. ASSUME NEW x
      PROVE  x \in g \ {a, b, c} <=> x \in f
  BY Zenon
<1>3. g \ {a, b, c} = f
  BY Zenon, <1>2
<1> HIDE DEF g
<1>4. Cardinality(f) = Cardinality(g) - 3
  BY Zenon, <1>1, <1>3, Take3
<1>5. Cardinality(f) \in Nat /\ Cardinality(g) \in Nat
  BY Zenon, <1>1, DescFinite
<1>6. Cardinality(g) = Cardinality(f) + 3
  BY <1>4, <1>5
<1>7. QED
  BY Zenon, <1>6 DEF g

\* alloc3_desc finds three different free descriptors if there are three.
LEMMA Three ==
  ASSUME NEW f \in SUBSET Desc, Cardinality(f) >= 3,
         NEW a, a = alloc_desc(f), NEW b, b = alloc_desc(f \ {a}),
         NEW c, c = alloc_desc(f \ {a, b})
  PROVE  a \in f /\ b \in f /\ c \in f /\ a # b /\ a # c /\ b # c
<1>1. \A d \in Desc : d \in Nat
  BY Ranges DEF Desc
<1>2. f \in SUBSET Nat /\ f \ {a} \in SUBSET Nat /\ f \ {a, b} \in SUBSET Nat
      /\ f \ {a} \in SUBSET Desc /\ f \ {a, b} \in SUBSET Desc
  BY Zenon, <1>1
<1>3. f # {} /\ a \in f
  <2>1. Cardinality({}) = 0 /\ Cardinality(f) \in Nat
    BY Zenon, FS_EmptySet, DescFinite
  <2>2. Cardinality(f) # 0
    BY <2>1
  <2>3. QED
    BY Zenon, <1>2, <2>1, <2>2, Least
<1>4. Cardinality(f \ {a}) = Cardinality(f) - 1
  BY Zenon, <1>3, DescFinite, FS_RemoveElement
<1>5. f \ {a} # {} /\ b \in f \ {a}
  <2>1. Cardinality({}) = 0 /\ Cardinality(f) \in Nat
    BY Zenon, FS_EmptySet, DescFinite
  <2>2. Cardinality(f \ {a}) # 0
    BY <1>4, <2>1
  <2>3. QED
    BY Zenon, <1>2, <2>1, <2>2, Least
<1>6. Cardinality(f \ {a, b}) = Cardinality(f \ {a}) - 1
  <2>1. (f \ {a}) \ {b} = f \ {a, b}
    BY Zenon
  <2>2. IsFiniteSet(f \ {a}) /\ b \in f \ {a}
    BY Zenon, <1>2, <1>5, DescFinite
  <2>3. Cardinality((f \ {a}) \ {b}) = Cardinality(f \ {a}) - 1
    BY Zenon, <2>2, FS_RemoveElement
  <2>4. QED
    BY Zenon, <2>1, <2>3
<1>7. f \ {a, b} # {} /\ c \in f \ {a, b}
  <2>1. Cardinality({}) = 0 /\ Cardinality(f) \in Nat
    BY Zenon, FS_EmptySet, DescFinite
  <2>2. Cardinality(f \ {a, b}) # 0
    BY <1>4, <1>6, <2>1
  <2>3. QED
    BY Zenon, <1>2, <2>1, <2>2, Least
<1>8. QED
  BY Zenon, <1>3, <1>5, <1>7

\* alloc3_desc fills in three different free descriptors.
LEMMA AllocStep ==
  ASSUME TypeOK, NEW p \in Proc, alloc3_desc(p)
  PROVE  \E d0 \in free, d1 \in free, d2 \in free :
           d0 # d1 /\ d0 # d2 /\ d1 # d2 /\ fill(p, d0, d1, d2)
<1> DEFINE d0 == alloc_desc(free)
           d1 == alloc_desc(free \ {d0})
           d2 == alloc_desc(free \ {d0, d1})
<1>1. free \in SUBSET Desc /\ Cardinality(free) >= 3 /\ fill(p, d0, d1, d2)
  BY Zenon DEF TypeOK, alloc3_desc
<1>2. d0 = alloc_desc(free) /\ d1 = alloc_desc(free \ {d0}) /\ d2 = alloc_desc(free \ {d0, d1})
  OBVIOUS
<1> HIDE DEF d0, d1, d2
<1>3. d0 \in free /\ d1 \in free /\ d2 \in free /\ d0 # d1 /\ d0 # d2 /\ d1 # d2
  BY <1>1, <1>2, Three
<1>4. QED
  BY Zenon, <1>1, <1>3
-------------------------------------------------------------------------------
(***************************************************************************)
(* The shape of the state.                                                 *)
(***************************************************************************)
\* A request that the device has been told of is the one of a call that waits for it: the
\* device and virtio_disk_intr find that call's buffer in it.
LEMMA Owner ==
  ASSUME ChainInv, CallInv, RingInv, NEW h \in Told
  PROVE  \E p \in Proc : p \in Sent /\ p \in Active /\ idx[p] = h /\ ChainOK(p)
<1>1. PICK p \in Sent : idx[p] = h
  BY Zenon DEF RingInv
<1>2. p \in Proc /\ p \in Active
  BY Zenon DEF Sent, CallInv
<1>3. QED
  BY Zenon, <1>1, <1>2 DEF ChainInv

\* info keeps its shape whichever of its fields is set.
LEMMA InfoType ==
  ASSUME NEW f \in [Desc -> [b : Proc \cup {NoProc}, status : {0, 255}]], NEW a
  PROVE  /\ [f EXCEPT ![a].b = NoProc] \in [Desc -> [b : Proc \cup {NoProc}, status : {0, 255}]]
         /\ [f EXCEPT ![a].status = 0] \in [Desc -> [b : Proc \cup {NoProc}, status : {0, 255}]]
<1> DEFINE R == [b : Proc \cup {NoProc}, status : {0, 255}]
<1>1. \A r \in R : [r EXCEPT !.b = NoProc] \in R /\ [r EXCEPT !.status = 0] \in R
  OBVIOUS
<1> HIDE DEF R
<1>2. f \in [Desc -> R]
  BY Zenon DEF R
<1>3. ASSUME NEW v, NEW e \in {[f EXCEPT ![a] = v]}, a \in Desc => v \in R
      PROVE  e \in [Desc -> R]
  BY <1>2, <1>3
<1>4. a \in Desc => [f[a] EXCEPT !.b = NoProc] \in R /\ [f[a] EXCEPT !.status = 0] \in R
  BY Zenon, <1>1, <1>2
<1>5. QED
  BY Zenon, <1>3, <1>4 DEF R

\* Every variable keeps the shape the code gives it.
LEMMA TypeStep ==
  ASSUME TypeOK, ChainInv, CallInv, RingInv, [Next]_vars
  PROVE  TypeOK'
<1>0. 0 \in Desc /\ (\A i \in Index : (i + 1) % WORD \in Index) /\ Index = 0..(WORD - 1)
  BY Ranges DEF Desc, Index
<1>1. ASSUME NEW p \in Proc, alloc3_fails(p)
      PROVE  TypeOK'
  <2>1. desc' \in [Desc -> [addr : Desc \cup Proc, next : Desc, more : BOOLEAN]]
    BY <1>0, <1>1 DEF TypeOK, alloc3_fails, zeroed
  <2>2. pc' \in [Proc -> {"idle", "enter", "filled", "submitted", "sleep_free", "woken_free",
                          "sleep_b", "woken_b"}]
    BY <1>1 DEF TypeOK, alloc3_fails, wakeup_free
  <2>3. UNCHANGED <<free, ops, info, avail, avail_idx, used, used_idx, seen_idx, lock, write, idx,
                    data, disk, media, taken, busy, irq>>
    BY Zenon, <1>1 DEF alloc3_fails, rings, device
  <2>4. QED
    BY Zenon, <2>1, <2>2, <2>3 DEF TypeOK
<1>2. ASSUME NEW p \in Proc, alloc3_desc(p)
      PROVE  TypeOK'
  <2>1. PICK d0 \in Desc, d1 \in Desc, d2 \in Desc : fill(p, d0, d1, d2)
    BY Zenon, <1>2, AllocStep DEF TypeOK
  <2>2. /\ disk' = [disk EXCEPT ![p] = TRUE] /\ lock' = p /\ pc' = [pc EXCEPT ![p] = "filled"]
        /\ UNCHANGED <<avail_idx, used, used_idx, seen_idx, write, data, media, taken, busy, irq>>
    BY Zenon, <1>2 DEF alloc3_desc, device
  <2>3. desc' \in [Desc -> [addr : Desc \cup Proc, next : Desc, more : BOOLEAN]]
    <3> DEFINE R == [addr : Desc \cup Proc, next : Desc, more : BOOLEAN]
    <3>1. /\ [addr |-> d0, next |-> d1, more |-> TRUE] \in R
          /\ [addr |-> p, next |-> d2, more |-> TRUE] \in R
          /\ [addr |-> d0, next |-> 0, more |-> FALSE] \in R
      BY <1>0
    <3>2. desc \in [Desc -> R]
      BY Zenon DEF TypeOK
    <3>3. desc' = [desc EXCEPT ![d0] = [addr |-> d0, next |-> d1, more |-> TRUE],
                               ![d1] = [addr |-> p, next |-> d2, more |-> TRUE],
                               ![d2] = [addr |-> d0, next |-> 0, more |-> FALSE]]
      BY Zenon, <2>1 DEF fill
    <3> HIDE DEF R
    <3>4. desc' \in [Desc -> R]
      BY <3>1, <3>2, <3>3
    <3>5. QED
      BY Zenon, <3>4 DEF R
  <2>4. ops' \in [Desc -> [out : BOOLEAN, sector : Proc \cup {NoProc}]]
    BY <2>1 DEF TypeOK, fill
  <2>5. info' \in [Desc -> [b : Proc \cup {NoProc}, status : {0, 255}]]
    BY <2>1 DEF TypeOK, fill
  <2>6. /\ free' \subseteq Desc /\ avail' \in [Desc -> Desc] /\ idx' \in [Proc -> Desc]
        /\ disk' \in [Proc -> BOOLEAN]
        /\ pc' \in [Proc -> {"idle", "enter", "filled", "submitted", "sleep_free", "woken_free",
                          "sleep_b", "woken_b"}]
    BY Zenon, <2>1, <2>2 DEF TypeOK, fill
  <2>7. QED
    BY Zenon, <2>2, <2>3, <2>4, <2>5, <2>6 DEF TypeOK
<1>3. ASSUME NEW p \in Proc, submit(p)
      PROVE  TypeOK'
  <2>1. avail_idx' \in 0..(WORD - 1)
    BY Zenon, <1>0, <1>3 DEF TypeOK, submit
  <2>2. /\ pc' = [pc EXCEPT ![p] = "submitted"]
        /\ UNCHANGED <<free, desc, ops, info, avail, used, used_idx, seen_idx, lock, write, idx,
                       data, disk, media, taken, busy, irq>>
    BY Zenon, <1>3 DEF submit, driver, device
  <2>3. QED
    BY <2>1, <2>2 DEF TypeOK
<1>4. ASSUME NEW p \in Proc, wait(p)
      PROVE  TypeOK'
  BY Zenon, <1>4 DEF TypeOK, wait, driver, rings, device
<1>5. ASSUME NEW p \in Proc, finish(p)
      PROVE  TypeOK'
  <2>1. Chain(idx[p]) \subseteq Desc
    BY DEF TypeOK, Chain
  <2>2. desc' \in [Desc -> [addr : Desc \cup Proc, next : Desc, more : BOOLEAN]]
    BY <1>0, <1>5 DEF TypeOK, finish, zeroed
  <2>3. info' \in [Desc -> [b : Proc \cup {NoProc}, status : {0, 255}]]
    BY Zenon, <1>5, InfoType DEF TypeOK, finish
  <2>4. /\ free' = free \cup Chain(idx[p])
        /\ pc' = [wakeup_free EXCEPT ![p] = "idle"]
        /\ write' = [write EXCEPT ![p] = FALSE] /\ idx' = [idx EXCEPT ![p] = 0]
        /\ UNCHANGED <<ops, avail, avail_idx, used, used_idx, seen_idx, lock, data, disk, media,
                       taken, busy, irq>>
    BY Zenon, <1>5 DEF finish, rings, device
  <2>5. pc' \in [Proc -> {"idle", "enter", "filled", "submitted", "sleep_free", "woken_free",
                          "sleep_b", "woken_b"}]
    BY <2>4 DEF TypeOK, wakeup_free
  <2>6. /\ free' \subseteq Desc /\ write' \in [Proc -> BOOLEAN] /\ idx' \in [Proc -> Desc]
    BY Zenon, <1>0, <2>1, <2>4 DEF TypeOK
  <2>7. QED
    BY Zenon, <2>2, <2>3, <2>4, <2>5, <2>6 DEF TypeOK
<1>6. ASSUME NEW p \in Proc, kill(p)
      PROVE  TypeOK'
  BY Zenon, <1>6 DEF TypeOK, kill, driver, rings, device
<1>7. ASSUME NEW p \in Proc, NEW w \in BOOLEAN, NEW v \in Value, virtio_disk_rw(p, w, v)
      PROVE  TypeOK'
  BY Zenon, <1>7 DEF TypeOK, virtio_disk_rw, driver, rings, device
<1>8. CASE intr
  BY Zenon, <1>8 DEF TypeOK, intr, driver, rings, procs
<1>9. CASE intr_used
  <2>1. seen_idx' \in 0..(WORD - 1)
    BY Zenon, <1>0, <1>9 DEF TypeOK, intr_used
  <2>2. PICK b :
          /\ disk' = [disk EXCEPT ![b] = FALSE]
          /\ pc' = [pc EXCEPT ![b] = IF @ = "sleep_b" THEN "woken_b" ELSE @]
    BY Zenon, <1>9 DEF intr_used
  <2>3. UNCHANGED <<free, desc, ops, info, avail, avail_idx, used, used_idx, lock, write, idx,
                    data, media, taken, busy, irq>>
    BY Zenon, <1>9 DEF intr_used, driver, device
  <2>4. disk' \in [Proc -> BOOLEAN]
    BY Zenon, <2>2 DEF TypeOK
  <2>5. pc' \in [Proc -> {"idle", "enter", "filled", "submitted", "sleep_free", "woken_free",
                          "sleep_b", "woken_b"}]
    BY Zenon, <2>2 DEF TypeOK
  <2>6. QED
    BY <2>1, <2>3, <2>4, <2>5 DEF TypeOK
<1>10. CASE intr_done
  BY Zenon, <1>10 DEF TypeOK, intr_done, driver, rings, procs, device
<1>11. CASE device_take
  <2>1. taken \in Int /\ NUM \in Nat /\ NUM > 0
    BY Ranges DEF TypeOK
  <2>2. taken % NUM \in Desc
    BY <2>1 DEF Desc
  <2>3. taken' \in 0..(WORD - 1) /\ busy' \subseteq Desc
    <3>1. avail[taken % NUM] \in Desc /\ taken' = (taken + 1) % WORD
          /\ busy' = busy \cup {avail[taken % NUM]} /\ taken \in Index
      BY Zenon, <1>0, <1>11, <2>2 DEF TypeOK, device_take
    <3>2. (taken + 1) % WORD \in 0..(WORD - 1) /\ busy \subseteq Desc
      BY Zenon, <1>0, <3>1 DEF TypeOK
    <3>3. QED
      BY Zenon, <3>1, <3>2
  <2>4. UNCHANGED <<free, desc, ops, info, avail, avail_idx, used, used_idx, seen_idx, lock, pc,
                    write, idx, data, disk, media, irq>>
    BY Zenon, <1>11 DEF device_take, driver, rings, procs
  <2>5. QED
    BY <2>3, <2>4 DEF TypeOK
<1>12. ASSUME NEW h \in Desc, device_complete(h)
       PROVE  TypeOK'
  <2>1. used_idx' \in 0..(WORD - 1) /\ busy' \subseteq Desc /\ used' \in [Desc -> Desc]
    BY Zenon, <1>0, <1>12 DEF TypeOK, device_complete
  <2>2. /\ irq' = TRUE
        /\ UNCHANGED <<free, desc, ops, avail, avail_idx, seen_idx, lock, pc, write, idx, disk,
                       taken>>
    BY Zenon, <1>12 DEF device_complete
  <2>3. info' \in [Desc -> [b : Proc \cup {NoProc}, status : {0, 255}]]
    <3>1. PICK a : info' = [info EXCEPT ![a].status = 0]
      BY Zenon, <1>12 DEF device_complete
    <3>2. QED
      BY Zenon, <3>1, InfoType DEF TypeOK
  <2>4. data' \in [Proc -> Value] /\ media' \in [Proc -> Value]
    <3>1. PICK p \in Proc : idx[p] = h /\ desc[desc[h].next].addr = p /\ ops[h].sector = p
      <4>1. h \in Told
        BY Zenon, <1>12 DEF device_complete, Told
      <4>2. PICK p \in Proc : idx[p] = h /\ ChainOK(p)
        BY Zenon, <4>1, Owner
      <4>3. QED
        BY Zenon, <4>2 DEF ChainOK, D1
    <3>2. \/ media' = [media EXCEPT ![p] = data[p]] /\ data' = data
          \/ data' = [data EXCEPT ![p] = media[p]] /\ media' = media
      BY Zenon, <1>12, <3>1 DEF device_complete
    <3>3. data \in [Proc -> Value] /\ media \in [Proc -> Value]
      BY Zenon DEF TypeOK
    <3>4. QED
      BY Zenon, <3>2, <3>3
  <2>5. QED
    BY <2>1, <2>2, <2>3, <2>4 DEF TypeOK
<1>13. CASE UNCHANGED vars
  BY Zenon, <1>13 DEF TypeOK, vars, driver, rings, procs, device
<1>14. QED
  BY Zenon, <1>1, <1>2, <1>3, <1>4, <1>5, <1>6, <1>7, <1>8, <1>9, <1>10, <1>11, <1>12, <1>13
     DEF Next, Run, Interrupt, Device
-------------------------------------------------------------------------------
(***************************************************************************)
(* The chains.                                                             *)
(***************************************************************************)
\* A chain whose descriptors and request are left alone is what it was.
LEMMA ChainSame ==
  ASSUME TypeOK, NEW q \in Proc, ChainOK(q), idx'[q] = idx[q], write'[q] = write[q],
         \A d \in Trio(q) : desc'[d] = desc[d],
         ops'[idx[q]] = ops[idx[q]], info'[idx[q]].b = info[idx[q]].b
  PROVE  ChainOK(q)' /\ Trio(q)' = Trio(q)
<1>1. desc'[idx[q]] = desc[idx[q]] /\ desc'[D1(q)] = desc[D1(q)] /\ desc'[D2(q)] = desc[D2(q)]
  BY Zenon DEF Trio
<1>2. D1(q)' = D1(q)
  BY Zenon, <1>1 DEF D1
<1>3. D2(q)' = D2(q)
  BY Zenon, <1>1, <1>2 DEF D2
<1>4. QED
  BY Zenon, <1>1, <1>2, <1>3 DEF ChainOK, Trio

\* A chain that is as fill made it is what free_chain visits, and in range.
LEMMA ChainIs ==
  ASSUME TypeOK, NEW q \in Proc, ChainOK(q)
  PROVE  /\ Chain(idx[q]) = Trio(q)
         /\ idx[q] \in Desc /\ D1(q) \in Desc /\ D2(q) \in Desc /\ Trio(q) \subseteq Desc
<1>1. idx[q] \in Desc /\ D1(q) \in Desc /\ D2(q) \in Desc
  BY ZenonT(30) DEF TypeOK, D1, D2
<1>2. Chain(idx[q]) = {idx[q]} \cup {D1(q)} \cup {D2(q)}
  BY Zenon DEF ChainOK, Chain, D1, D2
<1>3. QED
  BY Zenon, <1>1, <1>2 DEF Trio

\* A step that allocates no chain keeps the others apart if it leaves each as it was.
LEMMA ChainKeep ==
  ASSUME ChainInv, Active' \subseteq Active,
         \A q \in Active' : ChainOK(q)' /\ Trio(q)' = Trio(q) /\ Trio(q) \cap free' = {}
  PROVE  ChainInv'
BY Zenon DEF ChainInv

\* So does one that only moves calls along.
LEMMA ChainQuiet ==
  ASSUME TypeOK, ChainInv, Active' \subseteq Active, free' = free, desc' = desc, ops' = ops,
         idx' = idx, \A q \in Active : write'[q] = write[q],
         \A d \in Desc : info'[d].b = info[d].b
  PROVE  ChainInv'
<1>1. ASSUME NEW q \in Active'
      PROVE  ChainOK(q)' /\ Trio(q)' = Trio(q) /\ Trio(q) \cap free' = {}
  <2>1. q \in Active /\ q \in Proc /\ ChainOK(q) /\ Trio(q) \cap free = {}
    BY Zenon DEF Active, ChainInv
  <2>2. idx[q] \in Desc
    BY Zenon, <2>1 DEF TypeOK
  <2>3. ChainOK(q)' /\ Trio(q)' = Trio(q)
    BY Zenon, <2>1, <2>2, ChainSame
  <2>4. QED
    BY Zenon, <2>1, <2>3
<1>2. QED
  BY Zenon, <1>1, ChainKeep

\* What fill writes, and what it leaves alone.
LEMMA FillIs ==
  ASSUME TypeOK, NEW p \in Proc, NEW d0 \in Desc, NEW d1 \in Desc, NEW d2 \in Desc,
         d0 # d1, d0 # d2, d1 # d2, fill(p, d0, d1, d2)
  PROVE  /\ idx'[p] = d0 /\ \A q \in Proc : q # p => idx'[q] = idx[q]
         /\ desc'[d0] = [addr |-> d0, next |-> d1, more |-> TRUE]
         /\ desc'[d1] = [addr |-> p, next |-> d2, more |-> TRUE]
         /\ desc'[d2] = [addr |-> d0, next |-> 0, more |-> FALSE]
         /\ \A d \in Desc : d \notin {d0, d1, d2} => desc'[d] = desc[d]
         /\ ops'[d0] = [out |-> write[p], sector |-> p]
         /\ info'[d0] = [b |-> p, status |-> 255]
         /\ \A d \in Desc : d # d0 => ops'[d] = ops[d] /\ info'[d] = info[d]
<1>1. idx'[p] = d0 /\ \A q \in Proc : q # p => idx'[q] = idx[q]
  BY DEF TypeOK, fill
<1>2. /\ desc'[d0] = [addr |-> d0, next |-> d1, more |-> TRUE]
      /\ desc'[d1] = [addr |-> p, next |-> d2, more |-> TRUE]
      /\ desc'[d2] = [addr |-> d0, next |-> 0, more |-> FALSE]
      /\ \A d \in Desc : d \notin {d0, d1, d2} => desc'[d] = desc[d]
  <2>1. PICK R : desc \in [Desc -> R]
    BY Zenon DEF TypeOK
  <2>2. desc' = [desc EXCEPT ![d0] = [addr |-> d0, next |-> d1, more |-> TRUE],
                             ![d1] = [addr |-> p, next |-> d2, more |-> TRUE],
                             ![d2] = [addr |-> d0, next |-> 0, more |-> FALSE]]
    BY Zenon DEF fill
  <2>3. QED
    BY Zenon, <2>1, <2>2
<1>3. /\ ops'[d0] = [out |-> write[p], sector |-> p]
      /\ info'[d0] = [b |-> p, status |-> 255]
      /\ \A d \in Desc : d # d0 => ops'[d] = ops[d] /\ info'[d] = info[d]
  <2>1. PICK R, S : ops \in [Desc -> R] /\ info \in [Desc -> S]
    BY Zenon DEF TypeOK
  <2>2. /\ ops' = [ops EXCEPT ![d0] = [out |-> write[p], sector |-> p]]
        /\ info' = [info EXCEPT ![d0] = [b |-> p, status |-> 255]]
    BY Zenon DEF fill
  <2>3. QED
    BY Zenon, <2>1, <2>2
<1>4. QED
  BY Zenon, <1>1, <1>2, <1>3

\* Every step keeps the chains of the calls in progress apart from one another and from the
\* free descriptors.
LEMMA ChainStep ==
  ASSUME TypeOK, ChainInv, CallInv, RingInv, [Next]_vars
  PROVE  ChainInv'
<1>1. ASSUME NEW p \in Proc, alloc3_fails(p)
      PROVE  ChainInv'
  <2>1. /\ \A d \in Desc : d \notin free => desc'[d] = desc[d]
        /\ UNCHANGED <<free, ops, info, write, idx>>
    BY Zenon, <1>1 DEF alloc3_fails
  <2>2. \A q \in Proc : q \in Active' => q \in Active
    BY <1>1 DEF alloc3_fails, wakeup_free, TypeOK, Active
  <2>3. ASSUME NEW q \in Active'
        PROVE  ChainOK(q)' /\ Trio(q)' = Trio(q) /\ Trio(q) \cap free' = {}
    <3>1. q \in Proc /\ ChainOK(q) /\ Trio(q) \cap free = {}
      BY Zenon, <2>2 DEF Active, ChainInv
    <3>2. \A d \in Trio(q) : desc'[d] = desc[d]
      BY Zenon, <2>1, <3>1, ChainIs
    <3>3. QED
      BY Zenon, <2>1, <3>1, <3>2, ChainSame
  <2>4. Active' \subseteq Active
    BY Zenon, <2>2 DEF Active
  <2>5. QED
    BY Zenon, <2>3, <2>4, ChainKeep
<1>2. ASSUME NEW p \in Proc, alloc3_desc(p)
      PROVE  ChainInv'
  <2>1. PICK d0 \in free, d1 \in free, d2 \in free :
          d0 # d1 /\ d0 # d2 /\ d1 # d2 /\ fill(p, d0, d1, d2)
    BY Zenon, <1>2, AllocStep
  <2>2. d0 \in Desc /\ d1 \in Desc /\ d2 \in Desc /\ free' = free \ {d0, d1, d2} /\ write' = write
    <3>1. free \subseteq Desc
      BY Zenon DEF TypeOK
    <3>2. free' = free \ {d0, d1, d2}
      BY Zenon, <2>1 DEF fill
    <3>3. write' = write
      BY Zenon, <1>2 DEF alloc3_desc
    <3>4. QED
      BY Zenon, <3>1, <3>2, <3>3
  <2>3. /\ idx'[p] = d0 /\ \A q \in Proc : q # p => idx'[q] = idx[q]
        /\ desc'[d0] = [addr |-> d0, next |-> d1, more |-> TRUE]
        /\ desc'[d1] = [addr |-> p, next |-> d2, more |-> TRUE]
        /\ desc'[d2] = [addr |-> d0, next |-> 0, more |-> FALSE]
        /\ \A d \in Desc : d \notin {d0, d1, d2} => desc'[d] = desc[d]
        /\ ops'[d0] = [out |-> write[p], sector |-> p]
        /\ info'[d0] = [b |-> p, status |-> 255]
        /\ \A d \in Desc : d # d0 => ops'[d] = ops[d] /\ info'[d] = info[d]
    BY <2>1, <2>2, FillIs
  <2>4. ChainOK(p)' /\ Trio(p)' = {d0, d1, d2}
    <3>1. D1(p)' = d1 /\ D2(p)' = d2
      BY <2>3 DEF D1, D2
    <3>2. /\ desc'[d0].more /\ desc'[d1].more /\ desc'[d1].addr = p /\ desc'[d2].addr = d0
          /\ ops'[d0].out = write[p] /\ ops'[d0].sector = p /\ info'[d0].b = p
      BY <2>3
    <3>3. QED
      BY Zenon, <2>1, <2>2, <2>3, <3>1, <3>2 DEF ChainOK, Trio
  <2>5. ASSUME NEW q \in Active', q # p
        PROVE  q \in Active /\ ChainOK(q)' /\ Trio(q)' = Trio(q) /\ Trio(q) \cap free = {}
    <3>1. q \in Proc /\ q \in Active
      BY <1>2, <2>5 DEF alloc3_desc, TypeOK, Active
    <3>2. ChainOK(q) /\ Trio(q) \cap free = {} /\ Trio(q) \subseteq Desc /\ idx[q] \in Trio(q)
      BY Zenon, <3>1, ChainIs DEF ChainInv, Trio
    <3>3. \A d \in Trio(q) : d \in Desc /\ d \notin {d0, d1, d2}
      BY Zenon, <2>1, <3>2
    <3>4. /\ \A d \in Trio(q) : desc'[d] = desc[d]
          /\ ops'[idx[q]] = ops[idx[q]] /\ info'[idx[q]].b = info[idx[q]].b
      BY Zenon, <2>3, <3>2, <3>3
    <3>5. idx'[q] = idx[q] /\ write'[q] = write[q]
      BY Zenon, <2>2, <2>3, <2>5, <3>1
    <3>6. QED
      BY Zenon, <3>1, <3>2, <3>4, <3>5, ChainSame
  <2>6. \A q \in Active' : ChainOK(q)' /\ Trio(q)' \cap free' = {}
    BY Zenon, <2>2, <2>4, <2>5
  <2>7. ASSUME NEW q \in Active', NEW r \in Active', q # r
        PROVE  Trio(q)' \cap Trio(r)' = {}
    <3>1. CASE q = p
      BY Zenon, <2>1, <2>4, <2>5, <2>7, <3>1
    <3>2. CASE r = p
      BY Zenon, <2>1, <2>4, <2>5, <2>7, <3>2
    <3>3. CASE q # p /\ r # p
      BY Zenon, <2>5, <2>7, <3>3 DEF ChainInv
    <3>4. QED
      BY Zenon, <3>1, <3>2, <3>3
  <2>8. QED
    BY Zenon, <2>6, <2>7 DEF ChainInv
<1>3. ASSUME NEW p \in Proc, submit(p)
      PROVE  ChainInv'
  <2>1. UNCHANGED <<free, desc, ops, info, write, idx>>
    BY Zenon, <1>3 DEF submit, driver
  <2>2. Active' \subseteq Active
    BY <1>3 DEF submit, TypeOK, Active
  <2>3. QED
    BY Zenon, <2>1, <2>2, ChainQuiet
<1>4. ASSUME NEW p \in Proc, wait(p)
      PROVE  ChainInv'
  <2>1. UNCHANGED <<free, desc, ops, info, write, idx>>
    BY Zenon, <1>4 DEF wait, driver
  <2>2. Active' \subseteq Active
    BY <1>4 DEF wait, TypeOK, Active
  <2>3. QED
    BY Zenon, <2>1, <2>2, ChainQuiet
<1>5. ASSUME NEW p \in Proc, finish(p)
      PROVE  ChainInv'
  <2>1. p \in Active /\ Active' \subseteq Active /\ p \notin Active'
    BY Zenon, <1>5 DEF finish, wakeup_free, TypeOK, Active
  <2>2. ChainOK(p) /\ Chain(idx[p]) = Trio(p) /\ idx[p] \in Desc /\ idx[p] \in Trio(p)
    BY Zenon, <2>1, ChainIs DEF ChainInv, Trio
  <2>3. /\ free' = free \cup Trio(p)
        /\ \A d \in Desc : d \notin Trio(p) => desc'[d] = desc[d]
        /\ ops' = ops /\ info' = [info EXCEPT ![idx[p]].b = NoProc]
        /\ write' = [write EXCEPT ![p] = FALSE] /\ idx' = [idx EXCEPT ![p] = 0]
    BY Zenon, <1>5, <2>2 DEF finish
  <2>4. ASSUME NEW q \in Active'
        PROVE  ChainOK(q)' /\ Trio(q)' = Trio(q) /\ Trio(q) \cap free' = {}
    <3>1. q \in Proc /\ q \in Active /\ q # p
      BY Zenon, <2>1 DEF Active
    <3>2. /\ ChainOK(q) /\ Trio(q) \cap free = {} /\ Trio(q) \cap Trio(p) = {}
          /\ Trio(q) \subseteq Desc /\ idx[q] \in Trio(q)
      BY Zenon, <2>1, <3>1, ChainIs DEF ChainInv, Trio
    <3>3. /\ \A d \in Trio(q) : desc'[d] = desc[d]
          /\ idx[q] \in Desc /\ idx[q] # idx[p] /\ Trio(q) \cap free' = {}
      BY Zenon, <2>2, <2>3, <3>2
    <3>4. info'[idx[q]] = info[idx[q]] /\ write'[q] = write[q] /\ idx'[q] = idx[q]
      BY Zenon, <2>3, <3>1, <3>3 DEF TypeOK
    <3>5. QED
      BY Zenon, <2>3, <3>1, <3>2, <3>3, <3>4, ChainSame
  <2>5. QED
    BY Zenon, <2>1, <2>4, ChainKeep
<1>6. ASSUME NEW p \in Proc, kill(p)
      PROVE  ChainInv'
  <2>1. UNCHANGED <<free, desc, ops, info, write, idx>>
    BY Zenon, <1>6 DEF kill, driver
  <2>2. Active' \subseteq Active
    BY <1>6 DEF kill, TypeOK, Active
  <2>3. QED
    BY Zenon, <2>1, <2>2, ChainQuiet
<1>7. ASSUME NEW p \in Proc, NEW w \in BOOLEAN, NEW v \in Value, virtio_disk_rw(p, w, v)
      PROVE  ChainInv'
  <2>1. UNCHANGED <<free, desc, ops, info, idx>>
    BY Zenon, <1>7 DEF virtio_disk_rw, driver
  <2>2. Active' \subseteq Active /\ p \notin Active
    BY <1>7 DEF virtio_disk_rw, TypeOK, Active
  <2>3. \A q \in Active : write'[q] = write[q]
    BY Zenon, <1>7, <2>2 DEF virtio_disk_rw, TypeOK, Active
  <2>4. QED
    BY Zenon, <2>1, <2>2, <2>3, ChainQuiet
<1>8. CASE intr
  BY Zenon, <1>8, ChainQuiet DEF intr, driver, procs, Active
<1>9. CASE intr_used
  <2>1. UNCHANGED <<free, desc, ops, info, write, idx>>
    BY Zenon, <1>9 DEF intr_used, driver
  <2>2. Active' \subseteq Active
    <3>1. PICK b : pc' = [pc EXCEPT ![b] = IF @ = "sleep_b" THEN "woken_b" ELSE @]
      BY Zenon, <1>9 DEF intr_used
    <3>2. QED
      BY <3>1 DEF TypeOK, Active
  <2>3. QED
    BY Zenon, <2>1, <2>2, ChainQuiet
<1>10. CASE intr_done
  BY Zenon, <1>10, ChainQuiet DEF intr_done, driver, procs, Active
<1>11. CASE device_take
  BY Zenon, <1>11, ChainQuiet DEF device_take, driver, procs, Active
<1>12. ASSUME NEW h \in Desc, device_complete(h)
       PROVE  ChainInv'
  <2>1. UNCHANGED <<free, desc, ops, write, idx, pc>>
    BY Zenon, <1>12 DEF device_complete
  <2>2. \A d \in Desc : info'[d].b = info[d].b
    <3>1. PICK a : info' = [info EXCEPT ![a].status = 0]
      BY Zenon, <1>12 DEF device_complete
    <3>2. QED
      BY <3>1 DEF TypeOK
  <2>3. QED
    BY Zenon, <2>1, <2>2, ChainQuiet DEF Active
<1>13. CASE UNCHANGED vars
  BY Zenon, <1>13, ChainQuiet DEF vars, driver, procs, Active
<1>14. QED
  BY Zenon, <1>1, <1>2, <1>3, <1>4, <1>5, <1>6, <1>7, <1>8, <1>9, <1>10, <1>11, <1>12, <1>13
     DEF Next, Run, Interrupt, Device
-------------------------------------------------------------------------------
(***************************************************************************)
(* The calls.                                                              *)
(***************************************************************************)
\* The calls in progress change only when one gets its descriptors and when one returns.
LEMMA ActiveStep ==
  ASSUME TypeOK, [Next]_vars
  PROVE  \/ \E p \in Proc : alloc3_desc(p) /\ p \notin Active /\ Active' = Active \cup {p}
         \/ \E p \in Proc : finish(p) /\ p \in Active /\ Active' = Active \ {p}
         \/ free' = free /\ Active' = Active
<1>1. ASSUME NEW p \in Proc, alloc3_fails(p)
      PROVE  free' = free /\ Active' = Active
  BY <1>1 DEF alloc3_fails, wakeup_free, TypeOK, Active
<1>2. ASSUME NEW p \in Proc, alloc3_desc(p)
      PROVE  p \notin Active /\ Active' = Active \cup {p}
  BY <1>2 DEF alloc3_desc, TypeOK, Active
<1>3. ASSUME NEW p \in Proc, submit(p)
      PROVE  free' = free /\ Active' = Active
  BY <1>3 DEF submit, driver, TypeOK, Active
<1>4. ASSUME NEW p \in Proc, wait(p)
      PROVE  free' = free /\ Active' = Active
  BY <1>4 DEF wait, driver, TypeOK, Active
<1>5. ASSUME NEW p \in Proc, finish(p)
      PROVE  p \in Active /\ Active' = Active \ {p}
  BY <1>5 DEF finish, wakeup_free, TypeOK, Active
<1>6. ASSUME NEW p \in Proc, kill(p)
      PROVE  free' = free /\ Active' = Active
  BY <1>6 DEF kill, driver, TypeOK, Active
<1>7. ASSUME NEW p \in Proc, NEW w \in BOOLEAN, NEW v \in Value, virtio_disk_rw(p, w, v)
      PROVE  free' = free /\ Active' = Active
  BY Zenon, <1>7 DEF virtio_disk_rw, driver, TypeOK, Active
<1>8. CASE intr_used
  <2>1. PICK b : pc' = [pc EXCEPT ![b] = IF @ = "sleep_b" THEN "woken_b" ELSE @]
    BY Zenon, <1>8 DEF intr_used
  <2>2. Active' = Active
    BY Zenon, <2>1 DEF TypeOK, Active
  <2>3. QED
    BY Zenon, <1>8, <2>2 DEF intr_used, driver
<1>9. CASE intr \/ intr_done \/ device_take \/ (\E h \in Desc : device_complete(h))
           \/ UNCHANGED vars
  BY Zenon, <1>9 DEF intr, intr_done, device_take, device_complete, vars, driver, procs, Active
<1>10. QED
  BY Zenon, <1>1, <1>2, <1>3, <1>4, <1>5, <1>6, <1>7, <1>8, <1>9
     DEF Next, Run, Interrupt, Device

\* No descriptor is lost and none is made up: a call has three, and the others are free.
LEMMA CountStep ==
  ASSUME TypeOK, ChainInv, CountInv, [Next]_vars
  PROVE  CountInv'
<1>0. Cardinality(free) \in Nat /\ Cardinality(Active) \in Nat /\ NUM \in Nat
  BY Zenon, VirtioAssumption, DescFinite, FS_CardinalityType DEF TypeOK, CountInv
<1>1. ASSUME NEW p \in Proc, alloc3_desc(p), p \notin Active, Active' = Active \cup {p}
      PROVE  CountInv'
  <2>1. PICK d0 \in free, d1 \in free, d2 \in free :
          d0 # d1 /\ d0 # d2 /\ d1 # d2 /\ fill(p, d0, d1, d2)
    BY Zenon, <1>1, AllocStep
  <2>2. Cardinality(free') = Cardinality(free) - 3
    BY Zenon, <2>1, Take3 DEF fill, TypeOK
  <2>3. IsFiniteSet(Active') /\ Cardinality(Active') = Cardinality(Active) + 1
    BY Zenon, <1>1, FS_AddElement DEF CountInv
  <2>4. Cardinality(free) + 3 * Cardinality(Active) = NUM
    BY Zenon DEF CountInv
  <2>5. Cardinality(free') + 3 * Cardinality(Active') = NUM
    BY <1>0, <2>2, <2>3, <2>4
  <2>6. QED
    BY Zenon, <2>3, <2>5 DEF CountInv
<1>2. ASSUME NEW p \in Proc, finish(p), p \in Active, Active' = Active \ {p}
      PROVE  CountInv'
  <2>1. /\ free \in SUBSET Desc /\ free' = free \cup Trio(p) /\ Trio(p) \cap free = {}
        /\ idx[p] \in Desc /\ D1(p) \in Desc /\ D2(p) \in Desc
        /\ idx[p] # D1(p) /\ idx[p] # D2(p) /\ D1(p) # D2(p)
    <3>1. ChainOK(p) /\ Trio(p) \cap free = {} /\ free \in SUBSET Desc
      BY Zenon, <1>2 DEF ChainInv, TypeOK
    <3>2. Chain(idx[p]) = Trio(p) /\ idx[p] \in Desc /\ D1(p) \in Desc /\ D2(p) \in Desc
      BY Zenon, <3>1, ChainIs
    <3>3. free' = free \cup Trio(p)
      BY Zenon, <1>2, <3>2 DEF finish
    <3>4. QED
      BY Zenon, <3>1, <3>2, <3>3 DEF ChainOK
  <2>2. Cardinality(free') = Cardinality(free) + 3
    BY Zenon, <2>1, Give3 DEF Trio
  <2>3. IsFiniteSet(Active') /\ Cardinality(Active') = Cardinality(Active) - 1
    BY Zenon, <1>2, FS_RemoveElement DEF CountInv
  <2>4. Cardinality(free) + 3 * Cardinality(Active) = NUM
    BY Zenon DEF CountInv
  <2>5. Cardinality(free') + 3 * Cardinality(Active') = NUM
    BY <1>0, <2>2, <2>3, <2>4
  <2>6. QED
    BY Zenon, <2>3, <2>5 DEF CountInv
<1>3. CASE free' = free /\ Active' = Active
  BY Zenon, <1>3 DEF CountInv
<1>4. QED
  BY Zenon, <1>1, <1>2, <1>3, ActiveStep

\* virtio_disk_intr finds in the completion it looks at the buffer of the call that made the
\* request, and takes the completion off.
LEMMA UsedStep ==
  ASSUME TypeOK, ChainInv, CallInv, RingInv, intr_used
  PROVE  \E p \in Proc :
           /\ p \in Sent /\ p \in Active /\ pc[p] \notin {"filled", "submitted"}
           /\ idx[p] \in Unseen /\ Unseen' = Unseen \ {idx[p]}
           /\ Distinct(used, seen_idx, used_idx)'
           /\ disk' = [disk EXCEPT ![p] = FALSE]
           /\ pc' = [pc EXCEPT ![p] = IF @ = "sleep_b" THEN "woken_b" ELSE @]
<1> DEFINE h == used[seen_idx % NUM]
<1>1. /\ used \in [Desc -> Desc] /\ seen_idx \in Index /\ used_idx \in Index
      /\ seen_idx # used_idx /\ Distinct(used, seen_idx, used_idx)
      /\ used' = used /\ used_idx' = used_idx /\ seen_idx' = (seen_idx + 1) % WORD
  BY Zenon DEF TypeOK, Index, RingInv, intr_used
<1>2. /\ h \in Entries(used, seen_idx, used_idx)
      /\ Entries(used, (seen_idx + 1) % WORD, used_idx) = Entries(used, seen_idx, used_idx) \ {h}
      /\ Distinct(used, (seen_idx + 1) % WORD, used_idx)
  BY Zenon, <1>1, RingTake
<1>3. h \in Unseen /\ Unseen' = Unseen \ {h} /\ Distinct(used, seen_idx, used_idx)'
  BY Zenon, <1>1, <1>2 DEF Unseen
<1>4. /\ disk' = [disk EXCEPT ![info[h].b] = FALSE]
      /\ pc' = [pc EXCEPT ![info[h].b] = IF @ = "sleep_b" THEN "woken_b" ELSE @]
      /\ lock = Intr
  BY Zenon DEF intr_used
<1> HIDE DEF h
<1>5. PICK p \in Proc : p \in Sent /\ p \in Active /\ idx[p] = h /\ ChainOK(p)
  BY Zenon, <1>3, Owner DEF Told
<1>6. info[h].b = p
  BY Zenon, <1>5 DEF ChainOK
<1>7. pc[p] \notin {"filled", "submitted"}
  BY Zenon, <1>4, VirtioAssumption DEF CallInv
<1>8. QED
  BY Zenon, <1>3, <1>4, <1>5, <1>6, <1>7

\* Every step keeps the discipline of vdisk_lock and of the two sleeps: whoever is between
\* filling and sleeping has the lock, and whoever sleeps has a reason to.
LEMMA CallStep ==
  ASSUME TypeOK, ChainInv, CallInv, RingInv, [Next]_vars
  PROVE  CallInv'
<1>0. NoProc \notin Proc /\ Intr \notin Proc /\ NoProc # Intr
  BY Zenon, VirtioAssumption
<1>1. ASSUME NEW p \in Proc, alloc3_fails(p)
      PROVE  CallInv'
  BY <1>0, <1>1 DEF CallInv, alloc3_fails, wakeup_free, TypeOK, Active
<1>2. ASSUME NEW p \in Proc, alloc3_desc(p)
      PROVE  CallInv'
  <2>1. /\ pc[p] \in {"enter", "woken_free"} /\ lock = NoProc
        /\ disk' = [disk EXCEPT ![p] = TRUE] /\ lock' = p /\ pc' = [pc EXCEPT ![p] = "filled"]
    BY Zenon, <1>2 DEF alloc3_desc
  <2>2. \A q \in Proc : pc[q] # "sleep_free"
    <3>1. Cardinality(free) \in Nat /\ Cardinality(free) >= 3
      BY Zenon, <1>2, DescFinite DEF TypeOK, alloc3_desc
    <3>2. ~(Cardinality(free) < 3)
      BY <3>1
    <3>3. QED
      BY Zenon, <3>2 DEF CallInv
  <2>3. QED
    BY <1>0, <2>1, <2>2 DEF CallInv, TypeOK, Active
<1>3. ASSUME NEW p \in Proc, submit(p)
      PROVE  CallInv'
  BY <1>0, <1>3 DEF CallInv, submit, driver, TypeOK, Active
<1>4. ASSUME NEW p \in Proc, wait(p)
      PROVE  CallInv'
  BY <1>0, <1>4 DEF CallInv, wait, driver, TypeOK, Active
<1>5. ASSUME NEW p \in Proc, finish(p)
      PROVE  CallInv'
  BY <1>0, <1>5 DEF CallInv, finish, wakeup_free, TypeOK, Active
<1>6. ASSUME NEW p \in Proc, kill(p)
      PROVE  CallInv'
  BY <1>0, <1>6 DEF CallInv, kill, driver, TypeOK, Active
<1>7. ASSUME NEW p \in Proc, NEW w \in BOOLEAN, NEW v \in Value, virtio_disk_rw(p, w, v)
      PROVE  CallInv'
  BY <1>0, <1>7 DEF CallInv, virtio_disk_rw, driver, TypeOK, Active
<1>8. CASE intr_used
  <2>1. PICK p \in Proc :
          /\ pc[p] \notin {"filled", "submitted"}
          /\ disk' = [disk EXCEPT ![p] = FALSE]
          /\ pc' = [pc EXCEPT ![p] = IF @ = "sleep_b" THEN "woken_b" ELSE @]
    BY Zenon, <1>8, UsedStep
  <2>2. lock' = lock /\ free' = free
    BY Zenon, <1>8 DEF intr_used, driver
  <2>3. QED
    BY <1>0, <2>1, <2>2 DEF CallInv, TypeOK, Active
<1>9. CASE intr \/ intr_done
  BY Zenon, <1>0, <1>9 DEF CallInv, intr, intr_done, driver, procs, Active
<1>10. CASE device_take \/ (\E h \in Desc : device_complete(h)) \/ UNCHANGED vars
  BY Zenon, <1>10 DEF CallInv, device_take, device_complete, vars, driver, procs, Active
<1>11. QED
  BY Zenon, <1>1, <1>2, <1>3, <1>4, <1>5, <1>6, <1>7, <1>8, <1>9, <1>10
     DEF Next, Run, Interrupt, Device
-------------------------------------------------------------------------------
(***************************************************************************)
(* Where a request is.                                                     *)
(***************************************************************************)
\* Two calls in progress have different requests.
LEMMA HeadsDiffer ==
  ASSUME ChainInv, NEW p \in Active, NEW q \in Active, p # q
  PROVE  idx[p] # idx[q]
<1>1. idx[p] \in Trio(p) /\ idx[q] \in Trio(q) /\ Trio(p) \cap Trio(q) = {}
  BY Zenon DEF ChainInv, Trio
<1>2. QED
  BY Zenon, <1>1

\* A step that leaves the rings and the device alone moves no request.
LEMMA RingQuiet ==
  ASSUME RingInv, UNCHANGED rings, taken' = taken, busy' = busy, Sent' = Sent,
         \A q \in Sent : idx'[q] = idx[q],
         \A q \in Proc : pc'[q] = "filled" => pc[q] = "filled" /\ idx'[q] = idx[q]
  PROVE  RingInv'
<1>1. Unseen' = Unseen /\ Untaken' = Untaken /\ Told' = Told
  BY Zenon DEF rings, Unseen, Untaken, Told
<1>2. Distinct(used, seen_idx, used_idx)' /\ Distinct(avail, taken, avail_idx)'
  BY Zenon DEF rings, RingInv
<1>3. /\ Unseen' \cap Untaken' = {} /\ (Unseen' \cup Untaken') \cap busy' = {}
      /\ \A p \in Sent' : idx'[p] \in Told'
      /\ \A h \in Told' : \E p \in Sent' : idx'[p] = h
  BY Zenon, <1>1 DEF RingInv
<1>4. \A p \in Proc : pc'[p] = "filled" => avail'[avail_idx' % NUM] = idx'[p]
  BY Zenon DEF RingInv, rings
<1>5. QED
  BY Zenon, <1>2, <1>3, <1>4 DEF RingInv

\* Filling in a chain writes to an entry of the ring that holds no request.
LEMMA RingAlloc ==
  ASSUME TypeOK, ChainInv, CallInv, RingInv, NEW p \in Proc, alloc3_desc(p)
  PROVE  RingInv' /\ Unseen' = Unseen /\ idx'[p] \notin Unseen
<1>1. PICK d0 \in free, d1 \in free, d2 \in free :
        d0 # d1 /\ d0 # d2 /\ d1 # d2 /\ fill(p, d0, d1, d2)
  BY Zenon, AllocStep
<1>2. /\ d0 \in Desc /\ idx' = [idx EXCEPT ![p] = d0]
      /\ avail' = [avail EXCEPT ![avail_idx % NUM] = d0] /\ pc' = [pc EXCEPT ![p] = "filled"]
      /\ disk' = [disk EXCEPT ![p] = TRUE] /\ pc[p] # "filled" /\ p \notin Active /\ lock = NoProc
      /\ UNCHANGED <<avail_idx, used, used_idx, seen_idx, taken, busy>>
  BY Zenon, <1>1 DEF TypeOK, fill, alloc3_desc, device, Active
<1>3. d0 \notin Told
  <2>1. ASSUME d0 \in Told
        PROVE  FALSE
    <3>1. PICK q \in Proc : q \in Active /\ idx[q] = d0
      BY Zenon, <2>1, Owner
    <3>2. QED
      BY Zenon, <3>1 DEF ChainInv, Trio
  <2>2. QED
    BY Zenon, <2>1
<1>4. /\ avail' \in [Desc -> Desc] /\ avail'[avail_idx % NUM] = d0
      /\ Entries(avail', taken, avail_idx) = Entries(avail, taken, avail_idx)
      /\ Distinct(avail', taken, avail_idx)
  <2>1. /\ avail \in [Desc -> Desc] /\ taken \in Index /\ avail_idx \in Index
        /\ Distinct(avail, taken, avail_idx) /\ d0 \notin Entries(avail, taken, avail_idx)
    BY Zenon, <1>3 DEF TypeOK, Index, RingInv, Told, Untaken
  <2>2. avail_idx % NUM \in Desc
    BY Zenon, <2>1, IndexPlace
  <2>3. /\ avail' \in [Desc -> Desc] /\ avail'[avail_idx % NUM] = d0
        /\ \A k \in Desc : k # avail_idx % NUM => avail'[k] = avail[k]
    BY Zenon, <1>2, <2>1, <2>2
  <2>4. d0 \in Desc
    BY Zenon, <1>2
  <2>5. QED
    BY <2>1, <2>3, <2>4, RingWrite
<1>5. Unseen' = Unseen /\ Untaken' = Untaken /\ Told' = Told
  BY Zenon, <1>2, <1>4 DEF Unseen, Untaken, Told
<1>6. Distinct(used, seen_idx, used_idx)' /\ Distinct(avail, taken, avail_idx)'
  BY Zenon, <1>2, <1>4 DEF RingInv
<1>7. ~disk[p] /\ p \notin Sent
  BY Zenon, <1>2 DEF CallInv, Sent
<1>8. Sent' = Sent /\ \A q \in Sent : q \in Proc /\ idx'[q] = idx[q]
  <2>1. ASSUME NEW q \in Proc
        PROVE  /\ q \in Sent' <=> q \in Sent
               /\ q # p => idx'[q] = idx[q]
    <3>1. CASE q = p
      BY <1>2, <1>7, <3>1 DEF TypeOK, Sent
    <3>2. CASE q # p
      BY <1>2, <3>2 DEF TypeOK, Sent
    <3>3. QED
      BY Zenon, <3>1, <3>2
  <2>2. QED
    BY Zenon, <1>7, <2>1 DEF Sent
<1>9. /\ Unseen' \cap Untaken' = {} /\ (Unseen' \cup Untaken') \cap busy' = {}
      /\ \A q \in Sent' : idx'[q] \in Told'
      /\ \A h \in Told' : \E q \in Sent' : idx'[q] = h
  <2>1. busy' = busy
    BY Zenon, <1>2
  <2>2. /\ \A q \in Sent : idx[q] \in Told
        /\ \A h \in Told : \E q \in Sent : idx[q] = h
    BY Zenon DEF RingInv
  <2>3. QED
    BY Zenon, <1>5, <1>8, <2>1, <2>2 DEF RingInv
<1>10. idx'[p] = d0
  BY <1>2 DEF TypeOK
<1>11. \A q \in Proc : pc'[q] = "filled" => avail'[avail_idx' % NUM] = idx'[q]
  <2>1. \A q \in Proc : pc'[q] = "filled" => q = p
    <3>1. NoProc \notin Proc
      BY Zenon, VirtioAssumption
    <3>2. QED
      BY <1>2, <3>1 DEF CallInv, TypeOK
  <2>2. QED
    BY Zenon, <1>2, <1>4, <1>10, <2>1
<1>12. QED
  BY Zenon, <1>3, <1>5, <1>6, <1>9, <1>10, <1>11 DEF RingInv, Told

\* Moving avail->idx hands over the request in that entry, and no other.
LEMMA RingSubmit ==
  ASSUME TypeOK, ChainInv, CallInv, RingInv, NEW p \in Proc, submit(p)
  PROVE  RingInv'
<1> DEFINE h == idx[p]
<1>1. /\ pc[p] = "filled" /\ p \in Active /\ disk[p] /\ lock = p /\ avail[avail_idx % NUM] = h
      /\ avail_idx' = (avail_idx + 1) % WORD /\ pc' = [pc EXCEPT ![p] = "submitted"]
      /\ UNCHANGED <<avail, used, used_idx, seen_idx, idx, disk, taken, busy>>
  BY Zenon DEF submit, device, Active, CallInv, RingInv
<1>2. h \notin Told
  <2>1. ASSUME h \in Told
        PROVE  FALSE
    <3>1. PICK q \in Proc : q \in Sent /\ q \in Active /\ idx[q] = h
      BY Zenon, <2>1, Owner
    <3>2. q # p
      BY Zenon, <1>1, <3>1 DEF Sent
    <3>3. QED
      BY Zenon, <1>1, <3>1, <3>2, HeadsDiffer
  <2>2. QED
    BY Zenon, <2>1
<1> HIDE DEF h
<1>3. /\ Entries(avail, taken, (avail_idx + 1) % WORD) = Entries(avail, taken, avail_idx) \cup {h}
      /\ Distinct(avail, taken, (avail_idx + 1) % WORD)
  <2>1. /\ avail \in [Desc -> Desc] /\ taken \in Index /\ avail_idx \in Index
        /\ Distinct(avail, taken, avail_idx) /\ h \notin Entries(avail, taken, avail_idx)
    BY Zenon, <1>2 DEF TypeOK, Index, RingInv, Told, Untaken
  <2>2. avail[avail_idx % NUM] = h
    BY Zenon, <1>1
  <2>3. QED
    BY Zenon, <2>1, <2>2, RingAdd
<1>4. Unseen' = Unseen /\ Untaken' = Untaken \cup {h} /\ busy' = busy /\ idx' = idx
  BY Zenon, <1>1, <1>3 DEF Unseen, Untaken
<1>5. Distinct(used, seen_idx, used_idx)' /\ Distinct(avail, taken, avail_idx)'
  BY Zenon, <1>1, <1>3 DEF RingInv
<1>6. ASSUME NEW q \in Proc
      PROVE  /\ q \in Sent' <=> q \in Sent \/ q = p
             /\ pc'[q] # "filled"
  <2>1. CASE q = p
    BY Zenon, <1>1, <2>1 DEF TypeOK, Sent
  <2>2. CASE q # p
    BY <1>1, <2>2 DEF TypeOK, Sent, CallInv
  <2>3. QED
    BY Zenon, <2>1, <2>2
<1>7. Sent' = Sent \cup {p} /\ idx[p] = h
  BY Zenon, <1>6 DEF Sent, h
<1>8. Unseen' \cap Untaken' = {} /\ (Unseen' \cup Untaken') \cap busy' = {}
  BY Zenon, <1>2, <1>4 DEF RingInv, Told
<1>9. Told' = Told \cup {h}
  BY Zenon, <1>4 DEF Told
<1>10. /\ \A q \in Sent' : idx'[q] \in Told'
       /\ \A g \in Told' : \E q \in Sent' : idx'[q] = g
  BY Zenon, <1>4, <1>7, <1>9 DEF RingInv
<1>11. QED
  BY Zenon, <1>5, <1>6, <1>8, <1>10 DEF RingInv

\* virtio_disk_intr takes one completion off, and the call that it is for stops waiting.
LEMMA RingUsed ==
  ASSUME TypeOK, ChainInv, CallInv, RingInv, intr_used
  PROVE  RingInv'
<1>1. PICK p \in Proc :
        /\ p \in Sent /\ p \in Active /\ pc[p] \notin {"filled", "submitted"}
        /\ idx[p] \in Unseen /\ Unseen' = Unseen \ {idx[p]}
        /\ Distinct(used, seen_idx, used_idx)'
        /\ disk' = [disk EXCEPT ![p] = FALSE]
        /\ pc' = [pc EXCEPT ![p] = IF @ = "sleep_b" THEN "woken_b" ELSE @]
  BY Zenon, UsedStep
<1>2. UNCHANGED <<avail, avail_idx, taken, busy, idx>>
  BY Zenon DEF intr_used, device
<1>3. Untaken' = Untaken /\ Distinct(avail, taken, avail_idx)'
  BY Zenon, <1>2 DEF Untaken, RingInv
<1>4. ASSUME NEW q \in Proc
      PROVE  /\ q \in Sent' <=> q \in Sent /\ q # p
             /\ pc'[q] = "filled" => pc[q] = "filled"
  <2>1. CASE q = p
    BY <1>1, <2>1 DEF TypeOK, Sent
  <2>2. CASE q # p
    BY <1>1, <2>2 DEF TypeOK, Sent
  <2>3. QED
    BY Zenon, <2>1, <2>2
<1>5. Sent' = Sent \ {p}
  BY Zenon, <1>4 DEF Sent
<1>6. Unseen' \cap Untaken' = {} /\ (Unseen' \cup Untaken') \cap busy' = {}
  BY Zenon, <1>1, <1>2, <1>3 DEF RingInv
<1>7. Told' = Told \ {idx[p]}
  <2>1. idx[p] \notin Untaken /\ idx[p] \notin busy
    BY Zenon, <1>1 DEF RingInv
  <2>2. ASSUME NEW x
        PROVE  x \in Told' <=> x \in Told \ {idx[p]}
    BY Zenon, <1>1, <1>2, <1>3, <2>1 DEF Told
  <2>3. QED
    BY Zenon, <2>2
<1>8. \A q \in Sent' : idx'[q] \in Told'
  <2>1. ASSUME NEW q \in Sent'
        PROVE  idx[q] \in Told /\ idx[q] # idx[p]
    <3>1. q \in Sent /\ q # p /\ q \in Active
      BY Zenon, <1>5 DEF Sent, CallInv
    <3>2. QED
      BY Zenon, <1>1, <3>1, HeadsDiffer DEF RingInv
  <2>2. QED
    BY Zenon, <1>2, <1>7, <2>1
<1>9. \A h \in Told' : \E q \in Sent' : idx'[q] = h
  <2>1. ASSUME NEW h \in Told'
        PROVE  \E q \in Sent' : idx[q] = h
    <3>1. PICK q \in Sent : idx[q] = h
      BY Zenon, <1>7 DEF RingInv
    <3>2. QED
      BY Zenon, <1>5, <1>7, <3>1
  <2>2. QED
    BY Zenon, <1>2, <2>1
<1>10. \A q \in Proc : pc'[q] = "filled" => avail'[avail_idx' % NUM] = idx'[q]
  BY Zenon, <1>2, <1>4 DEF RingInv
<1>11. QED
  BY Zenon, <1>1, <1>3, <1>6, <1>8, <1>9, <1>10 DEF RingInv

\* The device takes a request out of the ring.
LEMMA RingTaken ==
  ASSUME TypeOK, RingInv, device_take
  PROVE  RingInv' /\ Unseen' = Unseen
<1> DEFINE h == avail[taken % NUM]
<1>1. /\ taken # avail_idx /\ taken' = (taken + 1) % WORD /\ busy' = busy \cup {h}
      /\ UNCHANGED <<avail, avail_idx, used, used_idx, seen_idx, idx, disk, pc>>
  BY Zenon DEF device_take, rings, procs
<1>2. /\ h \in Entries(avail, taken, avail_idx)
      /\ Entries(avail, (taken + 1) % WORD, avail_idx) = Entries(avail, taken, avail_idx) \ {h}
      /\ Distinct(avail, (taken + 1) % WORD, avail_idx)
  <2>1. /\ avail \in [Desc -> Desc] /\ taken \in Index /\ avail_idx \in Index
        /\ Distinct(avail, taken, avail_idx) /\ taken # avail_idx
    BY Zenon, <1>1 DEF TypeOK, Index, RingInv
  <2>2. QED
    BY Zenon, <2>1, RingTake
<1> HIDE DEF h
<1>3. Unseen' = Unseen /\ Untaken' = Untaken \ {h} /\ h \in Untaken /\ Sent' = Sent
  BY Zenon, <1>1, <1>2 DEF Unseen, Untaken, Sent
<1>4. Distinct(used, seen_idx, used_idx)' /\ Distinct(avail, taken, avail_idx)'
  BY Zenon, <1>1, <1>2 DEF RingInv
<1>5. Unseen' \cap Untaken' = {} /\ (Unseen' \cup Untaken') \cap busy' = {}
  BY Zenon, <1>1, <1>3 DEF RingInv
<1>6. Told' = Told
  <2>1. ASSUME NEW x
        PROVE  x \in Told' <=> x \in Told
    BY Zenon, <1>1, <1>3 DEF Told
  <2>2. QED
    BY Zenon, <2>1
<1>7. /\ \A q \in Sent' : idx'[q] \in Told'
      /\ \A g \in Told' : \E q \in Sent' : idx'[q] = g
  BY Zenon, <1>1, <1>3, <1>6 DEF RingInv
<1>8. \A q \in Proc : pc'[q] = "filled" => avail'[avail_idx' % NUM] = idx'[q]
  BY Zenon, <1>1 DEF RingInv
<1>9. QED
  BY Zenon, <1>3, <1>4, <1>5, <1>7, <1>8 DEF RingInv

\* The device enters a completion in the ring, over none that the driver has not looked at.
LEMMA RingComplete ==
  ASSUME TypeOK, RingInv, NEW h \in Desc, device_complete(h)
  PROVE  RingInv' /\ Unseen' = Unseen \cup {h}
<1>1. /\ h \in busy /\ used' = [used EXCEPT ![used_idx % NUM] = h]
      /\ used_idx' = (used_idx + 1) % WORD /\ busy' = busy \ {h}
      /\ UNCHANGED <<avail, avail_idx, seen_idx, idx, disk, pc, taken>>
  BY Zenon DEF device_complete
<1>2. /\ used \in [Desc -> Desc] /\ seen_idx \in Index /\ used_idx \in Index
      /\ Distinct(used, seen_idx, used_idx) /\ h \notin Entries(used, seen_idx, used_idx)
  BY Zenon, <1>1 DEF TypeOK, Index, RingInv, Unseen
<1>3. used_idx % NUM \in Desc
  BY Zenon, <1>2, IndexPlace
<1>4. /\ used' \in [Desc -> Desc] /\ used'[used_idx % NUM] = h
      /\ \A k \in Desc : k # used_idx % NUM => used'[k] = used[k]
  BY Zenon, <1>1, <1>2, <1>3
<1>5. /\ Entries(used', seen_idx, used_idx) = Entries(used, seen_idx, used_idx)
      /\ Distinct(used', seen_idx, used_idx)
  BY Zenon, <1>2, <1>4, RingWrite
<1>6. /\ Entries(used', seen_idx, (used_idx + 1) % WORD)
           = Entries(used', seen_idx, used_idx) \cup {h}
      /\ Distinct(used', seen_idx, (used_idx + 1) % WORD)
  <2>1. used'[used_idx % NUM] \notin Entries(used', seen_idx, used_idx)
    BY Zenon, <1>2, <1>4, <1>5
  <2>2. QED
    BY <1>2, <1>4, <1>5, <2>1, RingAdd
<1>7. Unseen' = Unseen \cup {h} /\ Untaken' = Untaken /\ Sent' = Sent
  BY Zenon, <1>1, <1>5, <1>6 DEF Unseen, Untaken, Sent
<1>8. Distinct(used, seen_idx, used_idx)' /\ Distinct(avail, taken, avail_idx)'
  BY Zenon, <1>1, <1>6 DEF RingInv
<1>9. Unseen' \cap Untaken' = {} /\ (Unseen' \cup Untaken') \cap busy' = {}
  BY Zenon, <1>1, <1>7 DEF RingInv
<1>10. Told' = Told
  <2>1. ASSUME NEW x
        PROVE  x \in Told' <=> x \in Told
    BY Zenon, <1>1, <1>7 DEF Told
  <2>2. QED
    BY Zenon, <2>1
<1>11. /\ \A q \in Sent' : idx'[q] \in Told'
       /\ \A g \in Told' : \E q \in Sent' : idx'[q] = g
  BY Zenon, <1>1, <1>7, <1>10 DEF RingInv
<1>12. \A q \in Proc : pc'[q] = "filled" => avail'[avail_idx' % NUM] = idx'[q]
  BY Zenon, <1>1 DEF RingInv
<1>13. QED
  BY Zenon, <1>7, <1>8, <1>9, <1>11, <1>12 DEF RingInv

\* Every step leaves each request that the device has been told of in one place.
LEMMA RingStep ==
  ASSUME TypeOK, ChainInv, CallInv, RingInv, [Next]_vars
  PROVE  RingInv'
<1>1. ASSUME NEW p \in Proc, alloc3_fails(p)
      PROVE  RingInv'
  <2>1. UNCHANGED <<rings, taken, busy, idx, disk>>
    BY Zenon, <1>1 DEF alloc3_fails, device
  <2>2. \A q \in Proc : pc'[q] = "filled" <=> pc[q] = "filled"
    BY Zenon, <1>1 DEF alloc3_fails, wakeup_free, TypeOK
  <2>3. Sent' = Sent
    BY Zenon, <2>1, <2>2 DEF Sent
  <2>4. QED
    BY Zenon, <2>1, <2>2, <2>3, RingQuiet
<1>2. ASSUME NEW p \in Proc, wait(p) \/ kill(p)
      PROVE  RingInv'
  <2>1. UNCHANGED <<rings, taken, busy, idx, disk>>
    BY Zenon, <1>2 DEF wait, kill, device
  <2>2. \A q \in Proc : pc'[q] = "filled" <=> pc[q] = "filled"
    BY <1>2 DEF wait, kill, TypeOK
  <2>3. Sent' = Sent
    BY Zenon, <2>1, <2>2 DEF Sent
  <2>4. QED
    BY Zenon, <2>1, <2>2, <2>3, RingQuiet
<1>3. ASSUME NEW p \in Proc, finish(p)
      PROVE  RingInv'
  <2>1. UNCHANGED <<rings, taken, busy, disk>>
    BY Zenon, <1>3 DEF finish, device
  <2>2. \A q \in Proc : (pc'[q] = "filled" <=> pc[q] = "filled") /\ (q # p => idx'[q] = idx[q])
    BY Zenon, <1>3 DEF finish, wakeup_free, TypeOK
  <2>3. Sent' = Sent /\ p \notin Sent /\ pc[p] # "filled"
    BY Zenon, <1>3, <2>1, <2>2 DEF Sent, finish
  <2>4. \A q \in Sent : q \in Proc /\ idx'[q] = idx[q]
    BY Zenon, <2>2, <2>3 DEF Sent
  <2>5. QED
    BY Zenon, <2>1, <2>2, <2>3, <2>4, RingQuiet
<1>4. ASSUME NEW p \in Proc, NEW w \in BOOLEAN, NEW v \in Value, virtio_disk_rw(p, w, v)
      PROVE  RingInv'
  <2>1. UNCHANGED <<rings, taken, busy, idx, disk>>
    BY Zenon, <1>4 DEF virtio_disk_rw, device
  <2>2. \A q \in Proc : pc'[q] = "filled" <=> pc[q] = "filled"
    BY Zenon, <1>4 DEF virtio_disk_rw, TypeOK
  <2>3. Sent' = Sent
    BY Zenon, <2>1, <2>2 DEF Sent
  <2>4. QED
    BY Zenon, <2>1, <2>2, <2>3, RingQuiet
<1>5. CASE intr \/ intr_done \/ UNCHANGED vars
  BY Zenon, <1>5, RingQuiet DEF intr, intr_done, vars, procs, device, Sent
<1>6. QED
  BY Zenon, <1>1, <1>2, <1>3, <1>4, <1>5, RingAlloc, RingSubmit, RingUsed, RingTaken, RingComplete
     DEF Next, Run, Interrupt, Device
-------------------------------------------------------------------------------
(***************************************************************************)
(* What has been transferred.                                              *)
(***************************************************************************)
\* What a call has got stays, if the step completes no request and touches no buffer of a
\* call that is over.
LEMMA DoneKeep ==
  ASSUME DoneInv, InterruptPending',
         \A q \in Active' : idx'[q] \in Unseen' =>
           /\ q \in Active /\ idx'[q] = idx[q] /\ idx[q] \in Unseen
           /\ info'[idx[q]].status = info[idx[q]].status,
         \A q \in Proc : Done(q)' => Done(q) /\ data'[q] = data[q] /\ media'[q] = media[q]
  PROVE  DoneInv'
<1>1. \A q \in Active' : idx'[q] \in Unseen' => info'[idx'[q]].status = 0
  BY Zenon DEF DoneInv
<1>2. \A q \in Proc : Done(q)' => data'[q] = media'[q]
  BY Zenon DEF DoneInv
<1>3. QED
  BY Zenon, <1>1, <1>2 DEF DoneInv

\* So it does when calls only move along.
LEMMA DoneQuiet ==
  ASSUME DoneInv, InterruptPending', UNCHANGED <<rings, info, idx, data, disk, media>>,
         Active' = Active, \A q \in Proc : pc'[q] = "idle" => pc[q] = "idle"
  PROVE  DoneInv'
<1>1. Unseen' = Unseen
  BY Zenon DEF rings, Unseen
<1>2. \A q \in Proc : Done(q)' => Done(q)
  BY Zenon, <1>1 DEF Done
<1>3. QED
  BY Zenon, <1>1, <1>2, DoneKeep

\* A completion has its interrupt raised, or being handled, after every step.
LEMMA PendingStep ==
  ASSUME TypeOK, CallInv, InterruptPending, [Next]_vars
  PROVE  InterruptPending'
<1>1. ASSUME NEW p \in Proc, Run(p) \/ kill(p)
                             \/ \E w \in BOOLEAN, v \in Value : virtio_disk_rw(p, w, v)
      PROVE  InterruptPending'
  <2>1. UNCHANGED <<used_idx, seen_idx, irq>>
    BY Zenon, <1>1 DEF Run, alloc3_fails, alloc3_desc, submit, wait, finish, kill,
         virtio_disk_rw, rings, device
  <2>2. lock' = lock \/ lock # Intr
    BY Zenon, <1>1, VirtioAssumption DEF Run, alloc3_fails, alloc3_desc, submit, wait, finish,
         kill, virtio_disk_rw, CallInv
  <2>3. QED
    BY Zenon, <2>1, <2>2 DEF InterruptPending
<1>2. CASE Interrupt
  BY Zenon, <1>2 DEF InterruptPending, Interrupt, intr, intr_used, intr_done, rings
<1>3. CASE Device
  BY Zenon, <1>3 DEF InterruptPending, Device, device_take, device_complete, rings
<1>4. CASE UNCHANGED vars
  BY Zenon, <1>4 DEF InterruptPending, vars, rings, device
<1>5. QED
  BY Zenon, <1>1, <1>2, <1>3, <1>4 DEF Next

\* A completion transfers the block of the call that made the request, and its alone, and
\* sets that request's status.
LEMMA CompleteStep ==
  ASSUME TypeOK, ChainInv, CallInv, RingInv, DoneInv, NEW h \in Desc, device_complete(h),
         InterruptPending'
  PROVE  DoneInv'
<1>1. h \in Told /\ h \notin Unseen /\ UNCHANGED <<pc, idx, disk>> /\ Active' = Active
  BY Zenon DEF device_complete, Told, RingInv, Active
<1>2. Unseen' = Unseen \cup {h}
  BY Zenon, RingComplete
<1>3. PICK p \in Proc : p \in Active /\ idx[p] = h /\ ChainOK(p)
  BY Zenon, <1>1, Owner
<1>4. /\ desc[desc[h].next].addr = p /\ ops[h].sector = p
      /\ desc[desc[desc[h].next].next].addr = h
  BY Zenon, <1>3 DEF ChainOK, D1, D2
<1>5. /\ info' = [info EXCEPT ![h].status = 0]
      /\ \/ media' = [media EXCEPT ![p] = data[p]] /\ data' = data
         \/ data' = [data EXCEPT ![p] = media[p]] /\ media' = media
  BY Zenon, <1>4 DEF device_complete
<1>6. /\ info'[h].status = 0 /\ \A d \in Desc : d # h => info'[d] = info[d]
  BY <1>5 DEF TypeOK
<1>7. data'[p] = media'[p] /\ \A q \in Proc : q # p => data'[q] = data[q] /\ media'[q] = media[q]
  BY <1>5 DEF TypeOK
<1>8. \A q \in Active : idx[q] \in Desc /\ (q # p => idx[q] # h)
  BY Zenon, <1>3, HeadsDiffer DEF TypeOK, Active
<1>9. \A q \in Active' : idx'[q] \in Unseen' => info'[idx'[q]].status = 0
  <2>1. ASSUME NEW q \in Active, idx[q] \in Unseen \cup {h}
        PROVE  info'[idx[q]].status = 0
    <3>1. CASE idx[q] = h
      BY Zenon, <1>6, <3>1
    <3>2. CASE idx[q] # h
      BY Zenon, <1>6, <1>8, <2>1, <3>2 DEF DoneInv
    <3>3. QED
      BY Zenon, <3>1, <3>2
  <2>2. QED
    BY Zenon, <1>1, <1>2, <2>1
<1>10. ASSUME NEW q \in Proc, Done(q)'
       PROVE  data'[q] = media'[q]
  <2>1. CASE q # p
    <3>1. Done(q)
      BY Zenon, <1>1, <1>2, <1>8, <1>10, <2>1 DEF Done
    <3>2. QED
      BY Zenon, <1>7, <2>1, <3>1 DEF DoneInv
  <2>2. QED
    BY Zenon, <1>7, <2>1
<1>11. QED
  BY Zenon, <1>9, <1>10 DEF DoneInv

\* After every step a completed request has status 0, and the buffer and the block of a call
\* agree once its request is completed.
LEMMA DoneStep ==
  ASSUME TypeOK, ChainInv, CallInv, RingInv, DoneInv, [Next]_vars
  PROVE  DoneInv'
<1>0. InterruptPending'
  BY Zenon, PendingStep DEF DoneInv
<1>1. ASSUME NEW p \in Proc, alloc3_fails(p)
      PROVE  DoneInv'
  <2>1. UNCHANGED <<rings, info, idx, data, disk, media>>
    BY Zenon, <1>1 DEF alloc3_fails, device
  <2>2. Active' = Active /\ \A q \in Proc : pc'[q] = "idle" => pc[q] = "idle"
    BY <1>1 DEF alloc3_fails, wakeup_free, TypeOK, Active
  <2>3. QED
    BY Zenon, <1>0, <2>1, <2>2, DoneQuiet
<1>2. ASSUME NEW p \in Proc, alloc3_desc(p)
      PROVE  DoneInv'
  <2>1. PICK d0 \in free, d1 \in free, d2 \in free :
          d0 # d1 /\ d0 # d2 /\ d1 # d2 /\ fill(p, d0, d1, d2)
    BY Zenon, <1>2, AllocStep
  <2>2. /\ idx'[p] = d0 /\ \A q \in Proc : q # p => idx'[q] = idx[q]
        /\ \A d \in Desc : d # d0 => info'[d] = info[d]
    <3>1. d0 \in Desc /\ d1 \in Desc /\ d2 \in Desc
      BY Zenon, <2>1 DEF TypeOK
    <3>2. QED
      BY <2>1, <3>1 DEF fill, TypeOK
  <2>3. Unseen' = Unseen /\ d0 \notin Unseen
    BY Zenon, <1>2, <2>2, RingAlloc
  <2>4. UNCHANGED <<data, media>> /\ pc'[p] = "filled" /\ disk'[p]
    BY <1>2 DEF alloc3_desc, device, TypeOK
  <2>5. ASSUME NEW q \in Proc, q # p
        PROVE  pc'[q] = pc[q] /\ disk'[q] = disk[q]
    BY Zenon, <1>2, <2>5 DEF alloc3_desc, TypeOK
  <2>6. ASSUME NEW q \in Active', idx'[q] \in Unseen'
        PROVE  /\ q \in Active /\ idx'[q] = idx[q] /\ idx[q] \in Unseen
               /\ info'[idx[q]].status = info[idx[q]].status
    <3>1. q \in Proc /\ q # p
      BY Zenon, <2>2, <2>3, <2>6 DEF Active
    <3>2. q \in Active /\ idx'[q] = idx[q] /\ idx[q] \in Desc
      BY Zenon, <2>2, <2>5, <3>1 DEF Active, TypeOK
    <3>3. idx[q] # d0
      BY Zenon, <2>1, <3>2 DEF ChainInv, Trio
    <3>4. QED
      BY Zenon, <2>2, <2>3, <2>6, <3>2, <3>3
  <2>7. ASSUME NEW q \in Proc, Done(q)'
        PROVE  Done(q)
    <3>1. q # p
      BY Zenon, <2>2, <2>3, <2>4, <2>7 DEF Done
    <3>2. QED
      BY Zenon, <2>2, <2>3, <2>5, <2>7, <3>1 DEF Done, Active
  <2>8. QED
    BY Zenon, <1>0, <2>4, <2>6, <2>7, DoneKeep
<1>3. ASSUME NEW p \in Proc, submit(p)
      PROVE  DoneInv'
  <2>1. UNCHANGED <<used, used_idx, seen_idx, info, idx, data, disk, media>>
    BY Zenon, <1>3 DEF submit, driver, device
  <2>2. Active' = Active /\ \A q \in Proc : pc'[q] = "idle" => pc[q] = "idle"
    BY <1>3 DEF submit, TypeOK, Active
  <2>3. Unseen' = Unseen
    BY Zenon, <2>1 DEF Unseen
  <2>4. \A q \in Proc : Done(q)' => Done(q)
    BY Zenon, <2>1, <2>2, <2>3 DEF Done
  <2>5. QED
    BY Zenon, <1>0, <2>1, <2>2, <2>3, <2>4, DoneKeep
<1>4. ASSUME NEW p \in Proc, wait(p) \/ kill(p)
      PROVE  DoneInv'
  <2>1. UNCHANGED <<rings, info, idx, data, disk, media>>
    BY Zenon, <1>4 DEF wait, kill, driver, device
  <2>2. Active' = Active /\ \A q \in Proc : pc'[q] = "idle" => pc[q] = "idle"
    BY <1>4 DEF wait, kill, TypeOK, Active, CallInv
  <2>3. QED
    BY Zenon, <1>0, <2>1, <2>2, DoneQuiet
<1>5. ASSUME NEW p \in Proc, finish(p)
      PROVE  DoneInv'
  <2>1. /\ UNCHANGED <<rings, data, disk, media>> /\ ~disk[p] /\ idx[p] \in Desc
        /\ info' = [info EXCEPT ![idx[p]].b = NoProc]
    BY Zenon, <1>5 DEF finish, device, TypeOK
  <2>2. Unseen' = Unseen
    BY Zenon, <2>1 DEF rings, Unseen
  <2>3. \A d \in Desc : info'[d].status = info[d].status
    BY <2>1 DEF TypeOK
  <2>4. p \in Active /\ Active' \subseteq Active /\ p \notin Active'
    BY Zenon, <1>5 DEF finish, wakeup_free, TypeOK, Active
  <2>5. \A q \in Proc : q # p => idx'[q] = idx[q] /\ (pc'[q] = "idle" => pc[q] = "idle")
    BY Zenon, <1>5 DEF finish, wakeup_free, TypeOK
  <2>6. ASSUME NEW q \in Active'
        PROVE  /\ q \in Active /\ idx'[q] = idx[q]
               /\ info'[idx[q]].status = info[idx[q]].status
    <3>1. q \in Active /\ q \in Proc /\ q # p
      BY Zenon, <2>4 DEF Active
    <3>2. idx[q] \in Desc
      BY Zenon, <3>1 DEF TypeOK
    <3>3. QED
      BY Zenon, <2>3, <2>5, <3>1, <3>2
  <2>7. ASSUME NEW q \in Proc, Done(q)'
        PROVE  Done(q)
    <3>1. CASE q = p
      BY Zenon, <2>1, <2>4, <3>1 DEF Done
    <3>2. CASE q # p
      BY Zenon, <2>1, <2>2, <2>5, <2>6, <2>7, <3>2 DEF Done
    <3>3. QED
      BY Zenon, <3>1, <3>2
  <2>8. QED
    BY Zenon, <1>0, <2>1, <2>2, <2>6, <2>7, DoneKeep
<1>6. ASSUME NEW p \in Proc, NEW w \in BOOLEAN, NEW v \in Value, virtio_disk_rw(p, w, v)
      PROVE  DoneInv'
  <2>1. UNCHANGED <<rings, info, idx, disk, media>>
    BY Zenon, <1>6 DEF virtio_disk_rw, driver, device
  <2>2. /\ Active' = Active
        /\ \A q \in Proc : (q # p => pc'[q] = pc[q] /\ data'[q] = data[q])
        /\ pc'[p] = "enter" /\ p \notin Active
    BY <1>6 DEF virtio_disk_rw, TypeOK, Active
  <2>3. Unseen' = Unseen
    BY Zenon, <2>1 DEF rings, Unseen
  <2>4. ASSUME NEW q \in Proc, Done(q)'
        PROVE  Done(q) /\ q # p
    <3>1. q # p
      BY Zenon, <2>2, <2>4 DEF Done
    <3>2. QED
      BY Zenon, <2>1, <2>2, <2>3, <2>4, <3>1 DEF Done
  <2>5. QED
    BY Zenon, <1>0, <2>1, <2>2, <2>3, <2>4, DoneKeep
<1>7. CASE intr_used
  <2>1. PICK p \in Proc :
          /\ p \in Active /\ idx[p] \in Unseen /\ Unseen' = Unseen \ {idx[p]}
          /\ disk' = [disk EXCEPT ![p] = FALSE]
          /\ pc' = [pc EXCEPT ![p] = IF @ = "sleep_b" THEN "woken_b" ELSE @]
    BY Zenon, <1>7, UsedStep
  <2>2. UNCHANGED <<info, idx, data, media>>
    BY Zenon, <1>7 DEF intr_used, driver, device
  <2>3. Active' = Active /\ \A q \in Proc : q # p => pc'[q] = pc[q] /\ disk'[q] = disk[q]
    BY <2>1 DEF TypeOK, Active
  <2>4. ASSUME NEW q \in Proc, Done(q)'
        PROVE  Done(q)
    <3>1. CASE q = p
      BY Zenon, <2>1, <3>1 DEF Done
    <3>2. CASE q # p
      BY Zenon, <2>1, <2>2, <2>3, <2>4, <3>2 DEF Done
    <3>3. QED
      BY Zenon, <3>1, <3>2
  <2>5. QED
    BY Zenon, <1>0, <2>1, <2>2, <2>3, <2>4, DoneKeep
<1>8. CASE intr \/ intr_done \/ device_take \/ UNCHANGED vars
  BY Zenon, <1>0, <1>8, DoneQuiet
     DEF intr, intr_done, device_take, vars, driver, rings, procs, device, Active
<1>9. QED
  BY Zenon, <1>0, <1>1, <1>2, <1>3, <1>4, <1>5, <1>6, <1>7, <1>8, CompleteStep
     DEF Next, Run, Interrupt, Device
-------------------------------------------------------------------------------
(***************************************************************************)
(* The theorems.                                                           *)
(***************************************************************************)
\* virtio_disk_init leaves every descriptor free, both rings empty and nobody waiting.
LEMMA InitInv ==
  ASSUME Init
  PROVE  VirtioInv
<1>0. 0 \in Desc /\ 0 \in Index /\ Index = 0..(WORD - 1)
  BY Ranges DEF Desc, Index
<1>1. TypeOK
  <2>1. media \in [Proc -> Value] /\ data \in [Proc -> Value]
    BY Zenon DEF Init
  <2>2. desc \in [Desc -> [addr : Desc \cup Proc, next : Desc, more : BOOLEAN]]
    BY Zenon, <1>0 DEF Init, zeroed
  <2>3. QED
    BY Zenon, <1>0, <2>1, <2>2 DEF Init, TypeOK
<1>2. Active = {} /\ \A p \in Proc : pc[p] = "idle" /\ disk[p] = FALSE
  BY Zenon DEF Init, Active
<1>3. ChainInv
  BY Zenon, <1>2 DEF ChainInv
<1>4. CountInv
  <2>1. IsFiniteSet(Active) /\ Cardinality(Active) = 0
    BY Zenon, <1>2, FS_EmptySet
  <2>2. Cardinality(free) = NUM
    <3>1. 0 \in Int /\ NUM - 1 \in Int /\ NUM \in Nat /\ 0 <= NUM - 1 /\ ((NUM - 1) - 0) + 1 = NUM
      BY Ranges
    <3>2. Cardinality(0..(NUM - 1)) = ((NUM - 1) - 0) + 1
      <4>1. ~(0 > NUM - 1)
        BY <3>1
      <4>2. QED
        BY Zenon, <3>1, <4>1, FS_Interval
    <3>3. QED
      BY Zenon, <3>1, <3>2 DEF Init, Desc
  <2>3. Cardinality(free) + 3 * Cardinality(Active) = NUM
    BY <2>1, <2>2, Ranges
  <2>4. QED
    BY Zenon, <2>1, <2>3 DEF CountInv
<1>5. CallInv
  BY Zenon, <1>2, VirtioAssumption DEF CallInv, Init
<1>6. Unseen = {} /\ Untaken = {} /\ Distinct(used, seen_idx, used_idx)
      /\ Distinct(avail, taken, avail_idx)
  <2>1. seen_idx = 0 /\ used_idx = 0 /\ taken = 0 /\ avail_idx = 0
    BY Zenon DEF Init
  <2>2. (0 - 0) % WORD = 0 /\ 0..(0 - 1) = {}
    BY Ranges
  <2>3. QED
    BY Zenon, <2>1, <2>2 DEF Unseen, Untaken, Entries, Distinct, Gap
<1>7. RingInv
  <2>1. Told = {} /\ Sent = {} /\ busy = {}
    BY Zenon, <1>2, <1>6 DEF Told, Sent, Init
  <2>2. \A p \in Proc : pc[p] # "filled"
    BY Zenon, <1>2
  <2>3. QED
    BY Zenon, <1>6, <2>1, <2>2 DEF RingInv
<1>8. DoneInv
  BY Zenon, <1>2 DEF DoneInv, InterruptPending, Init
<1>9. QED
  BY Zenon, <1>1, <1>3, <1>4, <1>5, <1>7, <1>8 DEF VirtioInv

\* The inductive invariant: the chains are whole and apart, no descriptor is lost, the lock
\* protects the calls between filling and sleeping, each request is in one place, and the
\* buffer of a completed one agrees with the disk.
THEOREM VirtioInvariant == Spec => []VirtioInv
<1>1. Init => VirtioInv
  BY Zenon, InitInv
<1>2. VirtioInv /\ [Next]_vars => VirtioInv'
  BY Zenon, TypeStep, ChainStep, CountStep, CallStep, RingStep, DoneStep DEF VirtioInv
<1>3. QED
  BY <1>1, <1>2, PTL DEF Spec

\* Each descriptor is free or in the chain of exactly one virtio_disk_rw, every chain has
\* three, and nobody sleeps for descriptors while there are enough or on a buffer that
\* virtio_disk_intr is done with: free_desc cannot panic and no wakeup is lost.
THEOREM DescriptorsAreConserved == Spec => []Descriptors
<1>1. VirtioInv => Descriptors
  <2> SUFFICES ASSUME VirtioInv
               PROVE  Descriptors
    OBVIOUS
  <2>1. TypeOK /\ ChainInv /\ CountInv /\ CallInv
    BY Zenon DEF VirtioInv
  <2>2. ASSUME NEW p \in Active
        PROVE  /\ Chain(idx[p]) = Trio(p) /\ Trio(p) \cap free = {}
               /\ Cardinality(Trio(p)) = 3
    <3>1. p \in Proc /\ ChainOK(p) /\ Trio(p) \cap free = {}
      BY Zenon, <2>1 DEF Active, ChainInv
    <3>2. Chain(idx[p]) = Trio(p) /\ idx[p] \in Desc /\ D1(p) \in Desc /\ D2(p) \in Desc
      BY Zenon, <2>1, <3>1, ChainIs
    <3>3. Cardinality({} \cup Trio(p)) = Cardinality({}) + 3
      <4>1. idx[p] # D1(p) /\ idx[p] # D2(p) /\ D1(p) # D2(p)
        BY Zenon, <3>1 DEF ChainOK
      <4>2. {} \in SUBSET Desc /\ {idx[p], D1(p), D2(p)} \cap {} = {}
        OBVIOUS
      <4>3. QED
        BY Zenon, <3>2, <4>1, <4>2, Give3 DEF Trio
    <3>4. {} \cup Trio(p) = Trio(p) /\ Cardinality({}) = 0
      BY Zenon, FS_EmptySet
    <3>5. Cardinality(Trio(p)) = 3
      BY <3>3, <3>4
    <3>6. QED
      BY Zenon, <3>1, <3>2, <3>5
  <2>3. DescConserved
    BY Zenon, <2>1, <2>2 DEF DescConserved, ChainInv, CountInv
  <2>4. NoLostWakeup
    BY Zenon, <2>1 DEF NoLostWakeup, CallInv
  <2>5. QED
    BY Zenon, <2>3, <2>4 DEF Descriptors
<1>2. QED
  BY <1>1, VirtioInvariant, PTL

\* virtio_disk_rw returns when the buffer and the block agree, each request is in exactly one
\* place, virtio_disk_intr finds status 0 and the buffer of the waiting call in a completion,
\* and no completion is without its interrupt.
THEOREM RequestsAreTracked == Spec => []Requests
<1>1. VirtioInv => Requests
  <2> SUFFICES ASSUME VirtioInv
               PROVE  Requests
    OBVIOUS
  <2>1. TypeOK /\ ChainInv /\ CallInv /\ RingInv /\ DoneInv
    BY Zenon DEF VirtioInv
  <2>2. TransferDone
    BY Zenon, <2>1 DEF TransferDone, DoneInv, Done
  <2>3. ASSUME NEW p \in Proc, disk[p], pc[p] # "filled"
        PROVE  /\ idx[p] \in Unseen \cup Untaken \cup busy
               /\ info[idx[p]].b = p
               /\ idx[p] \in Unseen => info[idx[p]].status = 0
    <3>1. p \in Sent /\ p \in Active
      BY Zenon, <2>1, <2>3 DEF Sent, CallInv
    <3>2. QED
      BY Zenon, <2>1, <3>1 DEF RingInv, Told, ChainInv, ChainOK, DoneInv
  <2>4. ASSUME NEW h \in Unseen \cup Untaken \cup busy
        PROVE  \E p \in Active : idx[p] = h /\ disk[p]
    <3>1. PICK p \in Proc : p \in Sent /\ p \in Active /\ idx[p] = h
      BY Zenon, <2>1, Owner DEF Told
    <3>2. QED
      BY Zenon, <3>1 DEF Sent
  <2>5. /\ Cardinality(Unseen) = (used_idx - seen_idx) % WORD
        /\ Cardinality(Untaken) = (avail_idx - taken) % WORD
    <3>1. /\ used \in [Desc -> Desc] /\ seen_idx \in Index /\ used_idx \in Index
          /\ avail \in [Desc -> Desc] /\ taken \in Index /\ avail_idx \in Index
          /\ Distinct(used, seen_idx, used_idx) /\ Distinct(avail, taken, avail_idx)
      BY Zenon, <2>1 DEF TypeOK, Index, RingInv
    <3>2. QED
      BY Zenon, <3>1, EntriesCount DEF Unseen, Untaken, Gap
  <2>6. Unseen \cap Untaken = {} /\ (Unseen \cup Untaken) \cap busy = {}
    BY Zenon, <2>1 DEF RingInv
  <2>7. RequestTracked
    BY Zenon, <2>3, <2>4, <2>5, <2>6 DEF RequestTracked
  <2>8. QED
    BY Zenon, <2>1, <2>2, <2>7 DEF Requests, DoneInv
<1>2. QED
  BY <1>1, VirtioInvariant, PTL
===============================================================================
