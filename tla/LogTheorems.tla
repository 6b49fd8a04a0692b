----------------------------- MODULE LogTheorems ------------------------------
(***************************************************************************)
(* What follows from the invariant of Log: begin_op's admission test keeps *)
(* room in the log, and Log implements AtomicDisk (every step of Log is a  *)
(* step of AtomicDisk or a stutter).                                       *)
(***************************************************************************)
EXTENDS LogProofs

USE LogAssumption DEF Modes, CommitPc, Pcs, Slot

LeftOf(A, w, G) ==
  {t \in Proc \X (1..OPBLOCKS) : t[1] \in A /\ t[2] > Cardinality(w[t[1]] \cap G)}

LEMMA LeftIs == Left = LeftOf(Active, wrote, Logged)
  BY Zenon DEF Left, LeftOf

LEMMA LeftIsNext == Left' = LeftOf(Active', wrote', Logged')
  BY Zenon DEF Left, LeftOf

LEMMA LoggedFinite == lh \in Seq(Block) => IsFiniteSet(Logged)
<1> SUFFICES ASSUME lh \in Seq(Block) PROVE IsFiniteSet(Logged)
  OBVIOUS
<1> DEFINE f == [i \in 1..Len(lh) |-> lh[i]]
<1>1. IsFiniteSet(1..Len(lh))
  BY FS_Interval
<1>2. f \in Surjection(1..Len(lh), Logged)
  BY Zenon DEF Logged, Surjection
<1>3. QED
  BY ZenonT(30), <1>1, <1>2, FS_Surjection

\* A group of calls has at most OPBLOCKS blocks each still to write.
LEMMA LeftBound ==
  ASSUME NEW A \in SUBSET Proc, NEW w, NEW G
  PROVE  /\ IsFiniteSet(LeftOf(A, w, G))
         /\ Cardinality(LeftOf(A, w, G)) \in Nat
         /\ Cardinality(A) \in Nat
         /\ Cardinality(LeftOf(A, w, G)) <= Cardinality(A) * OPBLOCKS
<1>1. IsFiniteSet(A) /\ IsFiniteSet(1..OPBLOCKS) /\ Cardinality(1..OPBLOCKS) = OPBLOCKS
  BY FS_Subset, FS_Interval
<1>2. /\ IsFiniteSet(A \X (1..OPBLOCKS))
      /\ Cardinality(A \X (1..OPBLOCKS)) = Cardinality(A) * OPBLOCKS
  BY Zenon, <1>1, FS_Product
<1>3. LeftOf(A, w, G) \subseteq A \X (1..OPBLOCKS)
  BY Zenon DEF LeftOf
<1>4. /\ IsFiniteSet(LeftOf(A, w, G))
      /\ Cardinality(LeftOf(A, w, G)) <= Cardinality(A \X (1..OPBLOCKS))
  BY Zenon, <1>2, <1>3, FS_Subset
<1>5. QED
  BY Zenon, <1>1, <1>2, <1>4, FS_CardinalityType

\* Ending a call, or writing a block again, frees room and never takes any.
LEMMA LeftShrinks ==
  ASSUME NEW A \in SUBSET Proc, NEW B \in SUBSET A, NEW w, NEW x, NEW G, NEW H,
         IsFiniteSet(H),
         \A p \in B : w[p] \cap G \subseteq x[p] \cap H
  PROVE  /\ LeftOf(B, x, H) \subseteq LeftOf(A, w, G)
         /\ Cardinality(LeftOf(B, x, H)) <= Cardinality(LeftOf(A, w, G))
<1>1. \A p \in B : /\ Cardinality(w[p] \cap G) <= Cardinality(x[p] \cap H)
                   /\ Cardinality(w[p] \cap G) \in Nat
                   /\ Cardinality(x[p] \cap H) \in Nat
  <2> SUFFICES ASSUME NEW p \in B
               PROVE  /\ Cardinality(w[p] \cap G) <= Cardinality(x[p] \cap H)
                      /\ Cardinality(w[p] \cap G) \in Nat
                      /\ Cardinality(x[p] \cap H) \in Nat
    BY Zenon
  <2>1. IsFiniteSet(x[p] \cap H)
    BY Zenon, FS_Subset
  <2>2. /\ IsFiniteSet(w[p] \cap G)
        /\ Cardinality(w[p] \cap G) <= Cardinality(x[p] \cap H)
    BY Zenon, <2>1, FS_Subset
  <2>3. QED
    BY Zenon, <2>1, <2>2, FS_CardinalityType
<1>2. LeftOf(B, x, H) \subseteq LeftOf(A, w, G)
  BY <1>1 DEF LeftOf
<1>3. QED
  BY Zenon, <1>2, LeftBound, FS_Subset

\* A block that enters the log uses up one of its call's.
LEMMA LeftTaken ==
  ASSUME NEW A \in SUBSET Proc, NEW p \in A, NEW w, NEW G, NEW b,
         IsFiniteSet(G), w[p] \ G = {b}, Cardinality(w[p]) <= OPBLOCKS
  PROVE  Cardinality(LeftOf(A, w, G \cup {b})) < Cardinality(LeftOf(A, w, G))
<1> DEFINE n == Cardinality(w[p] \cap G)
           L == LeftOf(A, w, G)
           M == LeftOf(A, w, G \cup {b})
<1>1. IsFiniteSet(w[p] \cap G) /\ n \in Nat
  BY Zenon, FS_Subset, FS_CardinalityType
<1>2. w[p] = (w[p] \cap G) \cup {b} /\ b \notin w[p] \cap G /\ w[p] \cap (G \cup {b}) = w[p]
  OBVIOUS
<1>3. Cardinality(w[p]) = n + 1
  BY ZenonT(30), <1>1, <1>2, FS_AddElement
<1>4. IsFiniteSet(G \cup {b})
  BY Zenon, FS_AddElement
<1>5. M \subseteq L
  BY Zenon, <1>4, LeftShrinks
<1>6. <<p, n + 1>> \in L /\ <<p, n + 1>> \notin M
  BY SMTT(30), <1>1, <1>2, <1>3 DEF LeftOf
<1>7. PICK t : t \in L /\ t \notin M
  BY Zenon, <1>6
<1>8. IsFiniteSet(L) /\ IsFiniteSet(M)
  BY Zenon, LeftBound
<1> HIDE DEF L, M
<1>9. IsFiniteSet(L \ {t}) /\ Cardinality(L \ {t}) = Cardinality(L) - 1
  BY Zenon, <1>7, <1>8, FS_RemoveElement
<1>10. Cardinality(M) <= Cardinality(L \ {t})
  BY Zenon, <1>5, <1>7, <1>9, FS_Subset
<1>11. Cardinality(M) < Cardinality(L)
  BY <1>8, <1>9, <1>10, FS_CardinalityType
<1>12. QED
  BY Zenon, <1>11 DEF L, M

\* Steps that touch neither the log nor a call's writes.
LEMMA SpaceSame ==
  ASSUME LogInv, SpaceInv, UNCHANGED <<lh, wrote, buf>>, mode' = "up" => mode = "up",
         \A p \in Proc : /\ (p \in Active)' <=> p \in Active
                         /\ pc'[p] = "modified" => pc[p] = "modified"
  PROVE  SpaceInv'
<1>1. Active' = Active /\ Logged' = Logged
  BY Zenon DEF Active, Logged
<1>2. Left' = Left
  BY Zenon, <1>1, LeftIs, LeftIsNext
<1>3. \A p \in Proc : pc'[p] \notin {"op", "modified"} => wrote'[p] = {}
  BY Zenon DEF SpaceInv, Active
<1>4. QED
  BY Zenon, <1>1, <1>2, <1>3 DEF SpaceInv

\* No process is in a call: the log is as good as empty.
LEMMA SpaceQuiet ==
  ASSUME LogInv', Active' = {}, \A p \in Proc : wrote'[p] = {},
         mode' = "up" => lh' = <<>>, OPBLOCKS < MAXOPBLOCKS
  PROVE  SpaceInv'
<1>1. Left' = {} /\ Cardinality(Left') = 0
  BY Zenon, LeftIsNext, FS_EmptySet DEF LeftOf
<1>2. \A p \in Proc : Cardinality(wrote'[p]) = 0 /\ pc'[p] # "modified"
  BY Zenon, FS_EmptySet DEF Active
<1>3. mode' = "up" => Len(lh') = 0
  OBVIOUS
<1>4. mode' = "up" => Len(lh') + Cardinality(Left') + 2 <= LOGSIZE
  BY <1>1, <1>3
<1>5. QED
  BY <1>2, <1>4 DEF SpaceInv

LEMMA SpaceBeginOp ==
  ASSUME LogInv, LogInv', SpaceInv, OPBLOCKS < MAXOPBLOCKS, NEW p \in Proc, begin_op(p)
  PROVE  SpaceInv'
<1> USE DEF begin_op
<1>1. pc \in [Proc -> Pcs] /\ outstanding \in Nat /\ Len(lh) \in Nat
  BY DEF LogInv, TypeOK
<1>2. CASE must_wait
  <2>1. pc' = [pc EXCEPT ![p] = "sleep"]
    BY Zenon, <1>2
  <2>2. QED
    BY Zenon, <1>1, <2>1, SpaceSame DEF Active
<1>3. CASE ~must_wait
  <2>1. outstanding' = outstanding + 1 /\ pc' = [pc EXCEPT ![p] = "op"]
    BY Zenon, <1>3
  <2>2. outstanding' = Cardinality(Active') /\ outstanding = Cardinality(Active)
    BY Zenon DEF LogInv, CommitInv
  <2>3. Cardinality(Left') \in Nat /\ Cardinality(Left') <= (outstanding + 1) * OPBLOCKS
    <3>1. Active' \in SUBSET Proc
      BY Zenon DEF Active
    <3>2. QED
      BY Zenon, <2>1, <2>2, <3>1, LeftBound, LeftIsNext
  <2>4. /\ ~committing /\ Len(lh) + (outstanding + 1) * MAXOPBLOCKS <= LOGSIZE
    BY <1>1, <1>3 DEF must_wait
  <2>5. Len(lh) + Cardinality(Left') + 2 <= LOGSIZE
    <3>1. CASE outstanding = 0
      <4>1. Active = {}
        BY Zenon, <2>2, <3>1, ActiveFinite, FS_EmptySet
      <4>2. Len(lh) = 0
        BY <2>4, <4>1 DEF LogInv, CommitInv
      <4>3. Cardinality(Left') <= OPBLOCKS
        BY <2>3, <3>1
      <4>4. QED
        BY <2>3, <4>2, <4>3
    <3>2. CASE outstanding > 0
      <4>1. (outstanding + 1) * OPBLOCKS <= (outstanding + 1) * (MAXOPBLOCKS - 1)
        BY <1>1
      <4>2. (outstanding + 1) * (MAXOPBLOCKS - 1) = (outstanding + 1) * MAXOPBLOCKS - (outstanding + 1)
        BY <1>1
      <4> DEFINE m == (outstanding + 1) * MAXOPBLOCKS
                 k == (outstanding + 1) * OPBLOCKS
                 j == (outstanding + 1) * (MAXOPBLOCKS - 1)
      <4>3. m \in Nat /\ k \in Nat /\ j \in Int
        BY <1>1
      <4> HIDE DEF m, k, j
      <4>4. QED
        BY <1>1, <2>3, <2>4, <3>2, <4>1, <4>2, <4>3 DEF m, k, j
    <3>3. QED
      BY <1>1, <3>1, <3>2
  <2>6. \A q \in Proc : pc'[q] \notin {"op", "modified"} => pc[q] \notin {"op", "modified"}
    BY Zenon, <1>1, <2>1
  <2>7. \A q \in Proc : pc'[q] = "modified" => pc[q] = "modified"
    BY Zenon, <1>1, <2>1
  <2>8. Logged' = Logged
    BY Zenon DEF Logged
  <2>9. QED
    BY Zenon, <2>5, <2>6, <2>7, <2>8 DEF SpaceInv
<1>4. QED
  BY Zenon, <1>2, <1>3

LEMMA SpaceModify ==
  ASSUME LogInv, LogInv', SpaceInv, NEW p \in Proc, NEW b \in Block, NEW v \in Val, modify(p, b, v)
  PROVE  SpaceInv'
<1> USE DEF modify
<1>1. pc \in [Proc -> Pcs] /\ buf \in [Proc -> Block \cup {NoBuf}] /\ wrote \in [Proc -> SUBSET Block]
  BY Zenon DEF LogInv, TypeOK
<1>2. Logged' = Logged /\ Active' = Active
  BY Zenon, <1>1 DEF Logged, Active
<1>3. IsFiniteSet(Logged)
  BY Zenon, LoggedFinite DEF LogInv, TypeOK
<1>4. \A q \in Proc : wrote[q] \subseteq wrote'[q]
  BY Zenon, <1>1
<1>5. Cardinality(Left') <= Cardinality(Left)
  BY Zenon, <1>2, <1>3, <1>4, LeftIs, LeftIsNext, LeftShrinks DEF Active
<1>6. Cardinality(Left') \in Nat /\ Cardinality(Left) \in Nat
  BY Zenon, <1>2, LeftIs, LeftIsNext, LeftBound DEF Active
<1>7. mode' = "up" => Len(lh') + Cardinality(Left') + 2 <= LOGSIZE
  BY <1>5, <1>6 DEF SpaceInv, LogInv, TypeOK
<1>8. wrote[p] \subseteq Logged
  <2>1. buf[p] = NoBuf
    BY Zenon DEF LogInv, BufInv
  <2>2. QED
    BY <1>1, <2>1 DEF SpaceInv
<1>9. \A q \in Proc : wrote'[q] \ Logged' \subseteq {buf'[q]}
  BY ZenonT(30), <1>1, <1>2, <1>8 DEF SpaceInv
<1>10. \A q \in Proc : pc'[q] \notin {"op", "modified"} => wrote'[q] = {}
  BY Zenon, <1>1 DEF SpaceInv
<1>11. \A q \in Proc : pc'[q] = "modified" => buf'[q] \in wrote'[q]
  BY Zenon, <1>1 DEF SpaceInv
<1>12. \A q \in Proc : Cardinality(wrote'[q]) <= OPBLOCKS
  BY Zenon, <1>1 DEF SpaceInv
<1>13. QED
  BY Zenon, <1>7, <1>9, <1>10, <1>11, <1>12 DEF SpaceInv

\* A process in a call finds room in the log, and no commit under way.
LEMMA RoomInCall ==
  ASSUME LogInv, SpaceInv, mode = "up", NEW p \in Proc, pc[p] \in {"op", "modified"}
  PROVE  ~log_write_panics /\ ~committing
<1>1. p \in Active
  BY Zenon DEF Active
<1>2. ~committing
  BY ZenonT(30), <1>1 DEF LogInv, CommitInv
<1>3. outstanding \in Nat /\ outstanding # 0
  BY ZenonT(30), <1>1, ActiveFinite, FS_EmptySet DEF LogInv, CommitInv, TypeOK
<1>4. Cardinality(Left) \in Nat
  BY ZenonT(30), LeftIs, LeftBound DEF Active
<1>5. Len(lh) \in Nat /\ Len(lh) + 2 <= LOGSIZE
  BY <1>4 DEF SpaceInv, LogInv, TypeOK
<1>6. ~(Len(lh) >= LOGSIZE) /\ ~(Len(lh) >= NLOG - 1) /\ ~(outstanding < 1)
  BY <1>3, <1>5
<1>7. QED
  BY Zenon, <1>2, <1>6 DEF log_write_panics

LEMMA SpaceLogWrite ==
  ASSUME LogInv, LogInv', SpaceInv, NEW p \in Proc, log_write(p)
  PROVE  SpaceInv' /\ mode' = "up"
<1> USE DEF log_write
<1>1. pc \in [Proc -> Pcs] /\ buf \in [Proc -> Block \cup {NoBuf}] /\ wrote \in [Proc -> SUBSET Block]
  BY Zenon DEF LogInv, TypeOK
<1>2. ~log_write_panics
  BY Zenon, RoomInCall
<1>3. /\ pc' = [pc EXCEPT ![p] = "op"] /\ buf' = [buf EXCEPT ![p] = NoBuf]
      /\ wrote' = wrote /\ mode' = "up"
      /\ \/ buf[p] \in Logged /\ lh' = lh
         \/ buf[p] \notin Logged /\ lh' = Append(lh, buf[p])
  BY Zenon, <1>2
<1>4. buf[p] \in Block /\ lh \in Seq(Block) /\ lh' \in Seq(Block)
  BY Zenon DEF LogInv, BufInv, TypeOK
<1>5. Logged' = Logged \cup {buf[p]}
  <2>1. CASE lh' = lh
    BY <1>3, <2>1, <1>4 DEF Logged
  <2>2. CASE lh' = Append(lh, buf[p])
    <3>1. Len(lh') = Len(lh) + 1
      BY <2>2, <1>4
    <3>2. \A i \in 1..Len(lh) : lh'[i] = lh[i]
      BY <2>2, <1>4
    <3>3. lh'[Len(lh) + 1] = buf[p]
      BY <2>2, <1>4
    <3>4. \A i \in 1..Len(lh') : i \in 1..Len(lh) \/ i = Len(lh) + 1
      BY <3>1, <1>4
    <3>5. Len(lh) + 1 \in 1..Len(lh') /\ \A i \in 1..Len(lh) : i \in 1..Len(lh')
      BY <3>1, <1>4
    <3>6. QED
      BY <3>2, <3>3, <3>4, <3>5 DEF Logged
  <2>3. QED
    BY Zenon, <1>3, <2>1, <2>2
<1>6. Active' = Active /\ p \in Active
  BY Zenon, <1>1, <1>3 DEF Active
<1>7. IsFiniteSet(Logged) /\ IsFiniteSet(Logged')
  BY Zenon, <1>4, <1>5, LoggedFinite, FS_AddElement
<1>8. Cardinality(Left') \in Nat /\ Cardinality(Left) \in Nat
  BY Zenon, <1>6, LeftIs, LeftIsNext, LeftBound DEF Active
<1>9. Len(lh') + Cardinality(Left') <= Len(lh) + Cardinality(Left)
  <2>1. CASE lh' = lh
    <3>1. Logged' = Logged
      BY Zenon, <2>1 DEF Logged
    <3>2. Left' = Left
      BY Zenon, <1>3, <1>6, <3>1, LeftIs, LeftIsNext
    <3>3. QED
      BY <2>1, <3>2, <1>8, <1>4
  <2>2. CASE buf[p] \notin Logged /\ lh' = Append(lh, buf[p])
    <3>1. wrote[p] \ Logged = {buf[p]} /\ Cardinality(wrote[p]) <= OPBLOCKS
      BY <2>2 DEF SpaceInv
    <3>2. Cardinality(LeftOf(Active, wrote, Logged \cup {buf[p]}))
            < Cardinality(LeftOf(Active, wrote, Logged))
      BY Zenon, <1>6, <1>7, <3>1, LeftTaken DEF Active
    <3>3. Cardinality(Left') < Cardinality(Left)
      BY ZenonT(30), <1>3, <1>5, <1>6, <3>2, LeftIs, LeftIsNext
    <3>4. Len(lh') = Len(lh) + 1
      BY <2>2, <1>4
    <3>5. QED
      BY <1>4, <1>8, <3>3, <3>4
  <2>3. QED
    BY Zenon, <1>3, <2>1, <2>2
<1>10. Len(lh') + Cardinality(Left') + 2 <= LOGSIZE
  BY <1>4, <1>8, <1>9 DEF SpaceInv
<1>11. \A q \in Proc : wrote'[q] \ Logged' \subseteq {buf'[q]}
  BY ZenonT(30), <1>1, <1>3, <1>5 DEF SpaceInv
<1>12. \A q \in Proc : pc'[q] \notin {"op", "modified"} => wrote'[q] = {}
  BY Zenon, <1>1, <1>3 DEF SpaceInv
<1>13. \A q \in Proc : pc'[q] = "modified" => buf'[q] \in wrote'[q]
  BY Zenon, <1>1, <1>3 DEF SpaceInv
<1>14. \A q \in Proc : Cardinality(wrote'[q]) <= OPBLOCKS
  BY Zenon, <1>3 DEF SpaceInv
<1>15. QED
  BY Zenon, <1>3, <1>10, <1>11, <1>12, <1>13, <1>14 DEF SpaceInv

LEMMA SpaceEndOp ==
  ASSUME LogInv, LogInv', SpaceInv, NEW p \in Proc, end_op(p)
  PROVE  SpaceInv' /\ mode' = "up"
<1> USE DEF end_op
<1>1. pc \in [Proc -> Pcs] /\ buf \in [Proc -> Block \cup {NoBuf}] /\ wrote \in [Proc -> SUBSET Block]
  BY Zenon DEF LogInv, TypeOK
<1>2. ~committing
  BY Zenon, RoomInCall
<1>3. /\ wrote' = [wrote EXCEPT ![p] = {}] /\ lh' = lh /\ buf' = buf /\ mode' = "up"
      /\ \/ pc' = [pc EXCEPT ![p] = "commit"]
         \/ pc' = wakeup_log([pc EXCEPT ![p] = "idle"])
  BY Zenon, <1>2
<1>4. \A q \in Proc : /\ pc'[q] = "modified" <=> (q # p /\ pc[q] = "modified")
                      /\ pc'[q] = "op" <=> (q # p /\ pc[q] = "op")
  <2>1. CASE pc' = [pc EXCEPT ![p] = "commit"]
    BY Zenon, <2>1, <1>1
  <2>2. CASE pc' = wakeup_log([pc EXCEPT ![p] = "idle"])
    BY Zenon, <2>2, <1>1 DEF wakeup_log
  <2>3. QED
    BY Zenon, <1>3, <2>1, <2>2
<1>5. Active' \subseteq Active /\ p \notin Active' /\ Logged' = Logged
  BY Zenon, <1>3, <1>4 DEF Active, Logged
<1>6. IsFiniteSet(Logged')
  BY ZenonT(30), <1>5, LoggedFinite DEF LogInv, TypeOK
<1>7. \A q \in Active' : wrote'[q] = wrote[q]
  BY Zenon, <1>1, <1>3, <1>5 DEF Active
<1>8. Cardinality(Left') <= Cardinality(Left)
  BY Zenon, <1>5, <1>6, <1>7, LeftIs, LeftIsNext, LeftShrinks DEF Active
<1>9. Cardinality(Left') \in Nat /\ Cardinality(Left) \in Nat
  BY Zenon, LeftIs, LeftIsNext, LeftBound DEF Active
<1>10. Len(lh') + Cardinality(Left') + 2 <= LOGSIZE
  BY SMTT(30), <1>3, <1>8, <1>9 DEF SpaceInv, LogInv, TypeOK
<1>11. \A q \in Proc : wrote'[q] \ Logged' \subseteq {buf'[q]}
  BY Zenon, <1>1, <1>3, <1>5 DEF SpaceInv
<1>12. \A q \in Proc : pc'[q] \notin {"op", "modified"} => wrote'[q] = {}
  BY Zenon, <1>1, <1>3, <1>4 DEF SpaceInv
<1>13. \A q \in Proc : pc'[q] = "modified" => buf'[q] \in wrote'[q]
  BY Zenon, <1>1, <1>3, <1>4 DEF SpaceInv
<1>14. \A q \in Proc : Cardinality(wrote'[q]) <= OPBLOCKS
  BY <1>1, <1>3, FS_EmptySet DEF SpaceInv
<1>15. QED
  BY ZenonT(30), <1>3, <1>10, <1>11, <1>12, <1>13, <1>14 DEF SpaceInv

LEMMA SpaceCommitter ==
  ASSUME LogInv, LogInv', SpaceInv, OPBLOCKS < MAXOPBLOCKS, NEW p \in Proc, Committer(p)
  PROVE  SpaceInv' /\ mode' = "up"
<1>1. pc \in [Proc -> Pcs]
  BY Zenon DEF LogInv, TypeOK
<1>2. CASE commit(p) \/ write_log(p) \/ write_head(p) \/ install_trans(p) \/ end_commit(p)
  <2>1. /\ UNCHANGED <<lh, wrote, buf, mode>> /\ mode = "up"
        /\ pc[p] \in CommitPc
        /\ \/ \E s \in CommitPc : pc' = [pc EXCEPT ![p] = s]
           \/ pc' = wakeup_log([pc EXCEPT ![p] = "idle"])
    <3>1. CASE commit(p)
      BY Zenon, <3>1 DEF commit, memory
    <3>2. CASE write_log(p)
      BY Zenon, <1>1, <3>2 DEF write_log
    <3>3. CASE write_head(p)
      BY Zenon, <3>3 DEF write_head, memory
    <3>4. CASE install_trans(p)
      BY Zenon, <1>1, <3>4 DEF install_trans, install
    <3>5. CASE end_commit(p)
      BY Zenon, <3>5 DEF end_commit
    <3>6. QED
      BY Zenon, <1>2, <3>1, <3>2, <3>3, <3>4, <3>5
  <2>2. \A q \in Proc : /\ pc'[q] = "modified" <=> pc[q] = "modified"
                        /\ pc'[q] = "op" <=> pc[q] = "op"
    <3>1. CASE \E s \in CommitPc : pc' = [pc EXCEPT ![p] = s]
      BY Zenon, <1>1, <2>1, <3>1
    <3>2. CASE pc' = wakeup_log([pc EXCEPT ![p] = "idle"])
      BY Zenon, <1>1, <2>1, <3>2 DEF wakeup_log
    <3>3. QED
      BY Zenon, <2>1, <3>1, <3>2
  <2>3. \A q \in Proc : (q \in Active)' <=> q \in Active
    BY Zenon, <2>2 DEF Active
  <2>4. SpaceInv'
    BY Zenon, <2>1, <2>2, <2>3, SpaceSame
  <2>5. QED
    BY Zenon, <2>1, <2>4
<1>3. CASE erase(p)
  <2>1. Active = {}
    BY Zenon, <1>3 DEF erase, LogInv, CommitInv
  <2>2. /\ wrote' = wrote /\ lh' = <<>> /\ mode' = "up"
        /\ pc' = [pc EXCEPT ![p] = "committed"]
    BY Zenon, <1>3 DEF erase, clear_log
  <2>3. Active' = {}
    BY Zenon, <1>1, <2>1, <2>2 DEF Active
  <2>4. \A q \in Proc : wrote'[q] = {}
    BY Zenon, <2>1, <2>2 DEF SpaceInv, Active
  <2>5. QED
    BY ZenonT(30), <2>2, <2>3, <2>4, SpaceQuiet
<1>4. QED
  BY Zenon, <1>2, <1>3 DEF Committer

(***************************************************************************)
(* With calls that write fewer blocks than begin_op reserves for them, no  *)
(* interleaving of calls, commits and crashes makes log_write or end_op    *)
(* panic.  (With OPBLOCKS = MAXOPBLOCKS it is false: the log_full run.)    *)
(***************************************************************************)
THEOREM NoPanics == ASSUME OPBLOCKS < MAXOPBLOCKS PROVE Spec => []NoPanic
<1>1. Init => SpaceInv /\ NoPanic
  <2> SUFFICES ASSUME Init PROVE SpaceInv /\ NoPanic
    OBVIOUS
  <2>1. \A p \in Proc : wrote[p] = {} /\ pc[p] = "idle" /\ Cardinality({}) = 0
    BY Zenon, FS_EmptySet DEF Init
  <2>2. \A p \in Proc : Cardinality(wrote[p]) <= OPBLOCKS
    BY <2>1
  <2>3. QED
    BY Zenon, <2>1, <2>2 DEF Init, SpaceInv, NoPanic
<1>2. LogInv /\ LogInv' /\ SpaceInv /\ NoPanic /\ [Next]_vars => SpaceInv' /\ NoPanic'
  <2> SUFFICES ASSUME LogInv, LogInv', SpaceInv, NoPanic, [Next]_vars
               PROVE  SpaceInv' /\ NoPanic'
    OBVIOUS
  <2> USE DEF NoPanic
  <2>1. CASE Boot
    <3>1. pc' = pc /\ wrote' = wrote /\ ~Running
      BY Zenon, <2>1 DEF Boot, read_head, recover_install, recover_clear, install, clear_log, Running
    <3>2. \A p \in Proc : pc[p] = "idle"
      BY Zenon, <3>1 DEF LogInv, CommitInv
    <3>3. Active' = {} /\ \A p \in Proc : wrote'[p] = {}
      BY Zenon, <3>1, <3>2 DEF Active, SpaceInv
    <3>4. mode' # "panic" /\ (mode' = "up" => lh' = <<>>)
      BY Zenon, <2>1 DEF Boot, read_head, recover_install, recover_clear, install, clear_log
    <3>5. QED
      BY Zenon, <3>3, <3>4, SpaceQuiet
  <2>2. ASSUME NEW p \in Proc, Call(p) PROVE SpaceInv' /\ NoPanic'
    <3>1. CASE begin_op(p)
      BY Zenon, <3>1, SpaceBeginOp DEF begin_op
    <3>2. CASE log_write(p)
      BY Zenon, <3>2, SpaceLogWrite
    <3>3. CASE end_op(p)
      BY Zenon, <3>3, SpaceEndOp
    <3>4. ASSUME NEW b \in Block, NEW v \in Val, modify(p, b, v) PROVE SpaceInv' /\ NoPanic'
      BY Zenon, <3>4, SpaceModify DEF modify
    <3>5. QED
      BY Zenon, <2>2, <3>1, <3>2, <3>3, <3>4 DEF Call
  <2>3. ASSUME NEW p \in Proc, Committer(p) PROVE SpaceInv' /\ NoPanic'
    BY Zenon, <2>3, SpaceCommitter
  <2>4. ASSUME NEW b \in Block, evict(b) PROVE SpaceInv' /\ NoPanic'
    BY Zenon, <2>4, SpaceSame DEF evict, Active
  <2>5. CASE Crash
    BY Zenon, <2>5, SpaceQuiet DEF Crash, Active
  <2>6. CASE UNCHANGED vars
    BY Zenon, <2>6, SpaceSame DEF vars, memory, Active
  <2>7. QED
    BY Zenon, <2>1, <2>2, <2>3, <2>4, <2>5, <2>6 DEF Next
<1>3. QED
  BY <1>1, <1>2, Invariance, PTL DEF Spec
-------------------------------------------------------------------------------
\* A log block named by the header is what a reboot brings back.
LEMMA RecoveredValue ==
  ASSUME Injective(head), NEW b \in Block
  PROVE  /\ \A i \in 1..Len(head) : head[i] = b => Recovered[b] = logblk[i]
         /\ (\A i \in 1..Len(head) : head[i] # b) => Recovered[b] = home[b]
<1>1. ASSUME NEW i \in 1..Len(head), head[i] = b
      PROVE  Recovered[b] = logblk[i]
  <2>1. (CHOOSE j \in 1..Len(head) : head[j] = b) = i
    BY Zenon, <1>1 DEF Injective
  <2>2. QED
    BY Zenon, <1>1, <2>1 DEF Recovered
<1>2. QED
  BY Zenon, <1>1 DEF Recovered

\* The same, one step later.
LEMMA RecoveredValueNext ==
  ASSUME Injective(head'), NEW b \in Block
  PROVE  /\ \A i \in 1..Len(head') : head'[i] = b => Recovered'[b] = logblk'[i]
         /\ (\A i \in 1..Len(head') : head'[i] # b) => Recovered'[b] = home'[b]
<1>1. ASSUME NEW i \in 1..Len(head'), head'[i] = b
      PROVE  Recovered'[b] = logblk'[i]
  <2>1. (CHOOSE j \in 1..Len(head') : head'[j] = b) = i
    BY Zenon, <1>1 DEF Injective
  <2>2. QED
    BY Zenon, <1>1, <2>1 DEF Recovered
<1>2. QED
  BY Zenon, <1>1 DEF Recovered

\* Between commits a reboot brings back the home blocks.
LEMMA RecoveredHome ==
  /\ head = <<>> => \A b \in Block : Recovered[b] = home[b]
  /\ head' = <<>> => \A b \in Block : Recovered'[b] = home'[b]
BY DEF Recovered

\* Functions on Block that agree everywhere are equal.
LEMMA SameRecovered ==
  (\A b \in Block : Recovered'[b] = Recovered[b]) => Recovered' = Recovered
BY ZenonT(30) DEF Recovered

LEMMA ViewIs ==
  /\ Running => View = [b \in Block |-> Data(b)]
  /\ ~Running => View = Recovered
  /\ Running' => View' = [b \in Block |-> Data(b)']
  /\ ~Running' => View' = Recovered'
BY Zenon DEF View, Running

\* What the committed log brings back is what the calls see, if it is so block by block.
LEMMA RecoveredView ==
  ASSUME Running, \A b \in Block : Recovered'[b] = Data(b)
  PROVE  Recovered' = View
<1>1. View = [b \in Block |-> Data(b)]
  BY Zenon, ViewIs
<1>2. [b \in Block |-> Recovered'[b]] = Recovered'
  BY Zenon DEF Recovered
<1>3. QED
  BY Zenon, <1>1, <1>2

\* A block that is neither pinned nor locked reads as its home copy.
LEMMA CleanData ==
  ASSUME LogInv, Running, NEW b \in Block, b \notin Pending, \A p \in Proc : buf[p] # b
  PROVE  Data(b) = home[b]
BY Zenon DEF LogInv, CacheInv, Data

\* A running system whose log is quiet sees what a reboot would bring back.
LEMMA QuietView ==
  ASSUME LogInv, Running, Active = {}, Pending = {}, head = <<>>
  PROVE  View = Recovered
<1>1. \A p \in Proc : buf[p] = NoBuf
  BY Zenon DEF LogInv, BufInv, Active, TypeOK
<1>2. \A b \in Block : Data(b) = home[b]
  BY Zenon, <1>1, CleanData
<1>3. QED
  BY <1>2, ViewIs, RecoveredHome DEF Recovered

(***************************************************************************)
(* When no call is in progress and no commit is running, everything        *)
(* written so far is durable and no buffer is pinned.                      *)
(***************************************************************************)
THEOREM QuietDurability == Spec => []QuietIsDurable
<1>1. LogInv => QuietIsDurable
  <2> SUFFICES ASSUME LogInv, mode = "up", outstanding = 0, ~committing
               PROVE  /\ View = Recovered
                      /\ lh = <<>> /\ head = <<>>
                      /\ \A b \in Block : pin[b] = 0
    BY Zenon DEF QuietIsDurable
  <2>1. Active = {} /\ lh = <<>>
    BY Zenon, ActiveFinite DEF LogInv, CommitInv
  <2>2. Running /\ ~Installing /\ \A p \in Proc : pc[p] # "write_log"
    BY Zenon DEF LogInv, CommitInv, Running, Installing
  <2>3. head = <<>>
    BY Zenon, <2>2, QuietHead DEF LogInv
  <2>4. Pending = {}
    BY <2>1 DEF Pending
  <2>5. QED
    BY Zenon, <2>1, <2>2, <2>3, <2>4, QuietView DEF LogInv, CacheInv
<1>2. QED
  BY <1>1, Invariance, PTL

\* Steps that touch neither the disk nor the buffers.
LEMMA SameDisk ==
  ASSUME UNCHANGED <<home, logblk, head, cache>>, Running' = Running
  PROVE  UNCHANGED <<View, Recovered>>
<1>1. Recovered' = Recovered
  BY Zenon DEF Recovered
<1>2. View' = View
  BY Zenon, <1>1, ViewIs DEF Data
<1>3. QED
  BY Zenon, <1>1, <1>2

\* Steps that touch neither the disk, nor the buffers, nor the calls.
LEMMA Stutter ==
  ASSUME UNCHANGED <<home, logblk, head, cache>>, Active' = Active,
         Running' = Running
  PROVE  UNCHANGED <<View, Recovered, Active>>
BY Zenon, SameDisk

LEMMA InitAbs == Init => Abs!Init
<1> SUFFICES ASSUME Init PROVE Abs!Init
  OBVIOUS
<1>1. Recovered = home /\ View = Recovered
  BY ViewIs, RecoveredHome DEF Init, Recovered, Running
<1>2. Active = {}
  BY Zenon DEF Init, Active
<1>3. QED
  BY Zenon, <1>1, <1>2 DEF Init, Abs!Init

\* Recovery is invisible: it can be cut short and repeated.
LEMMA BootAbs == LogInv /\ Boot => UNCHANGED <<View, Recovered, Active>>
<1> SUFFICES ASSUME LogInv, Boot PROVE UNCHANGED <<View, Recovered, Active>>
  OBVIOUS
<1> USE DEF LogInv
<1>1. CASE read_head
  <2>1. Running' = Running
    BY <1>1 DEF read_head, Running
  <2>2. QED
    BY Zenon, <1>1, <2>1, Stutter DEF read_head, disk, Active
<1>2. CASE recover_install
  <2> USE <1>2 DEF recover_install, install
  <2>1. lh = head /\ tail \in 1..Len(head) /\ ~Running /\ ~Running'
    BY DEF HeadInv, TypeOK, Running
  <2>2. \A b \in Block : Recovered'[b] = Recovered[b]
    <3> SUFFICES ASSUME NEW b \in Block PROVE Recovered'[b] = Recovered[b]
      OBVIOUS
    <3>1. CASE \E i \in 1..Len(head) : head[i] = b
      BY SMTT(30), <3>1, RecoveredValue, RecoveredValueNext DEF HeadInv
    <3>2. CASE \A i \in 1..Len(head) : head[i] # b
      BY SMTT(30), <2>1, <3>2, RecoveredValue, RecoveredValueNext DEF HeadInv, TypeOK
    <3>3. QED
      BY Zenon, <3>1, <3>2
  <2>3. QED
    BY ZenonT(30), <2>1, <2>2, SameRecovered, ViewIs DEF Active
<1>3. CASE recover_clear
  <2> USE <1>3 DEF recover_clear, clear_log
  <2>1. lh = head /\ ~Running /\ Running' /\ head' = <<>> /\ Active' = Active /\ Active = {}
    BY Zenon DEF HeadInv, Running, Active, CommitInv
  <2>2. \A b \in Block : Recovered[b] = home[b]
    <3> SUFFICES ASSUME NEW b \in Block PROVE Recovered[b] = home[b]
      OBVIOUS
    <3>1. CASE \E i \in 1..Len(head) : head[i] = b
      BY SMTT(30), <2>1, <3>1, RecoveredValue DEF HeadInv, TypeOK
    <3>2. CASE \A i \in 1..Len(head) : head[i] # b
      BY Zenon, <3>2, RecoveredValue DEF HeadInv
    <3>3. QED
      BY Zenon, <3>1, <3>2
  <2>3. Recovered' = Recovered
    BY Zenon, <2>1, <2>2, RecoveredHome, SameRecovered
  <2>4. \A b \in Block : Data(b)' = Recovered[b]
    BY Zenon, <2>1, <2>2 DEF CacheInv, Data
  <2>5. View' = View
    BY <2>1, <2>4, ViewIs DEF Recovered
  <2>6. QED
    BY Zenon, <2>1, <2>3, <2>5
<1>4. QED
  BY Zenon, <1>1, <1>2, <1>3 DEF Boot

\* begin_op, the writes and end_op are the abstract Begin, Write and End.
LEMMA CallAbs ==
  \A p \in Proc : LogInv /\ Call(p) => Abs!Next \/ UNCHANGED <<View, Recovered, Active>>
<1> SUFFICES ASSUME NEW p \in Proc, LogInv, Call(p)
             PROVE  Abs!Next \/ UNCHANGED <<View, Recovered, Active>>
  OBVIOUS
<1> USE DEF LogInv
<1>1. CASE begin_op(p)
  <2>1. UNCHANGED <<home, logblk, head, cache, mode>>
    BY Zenon, <1>1 DEF begin_op, disk
  <2>2. UNCHANGED <<View, Recovered>>
    BY Zenon, <2>1, SameDisk DEF Running
  <2>3. CASE pc' = [pc EXCEPT ![p] = "sleep"]
    BY Zenon, <1>1, <2>2, <2>3 DEF begin_op, Active, TypeOK
  <2>4. CASE pc' = [pc EXCEPT ![p] = "op"]
    <3>1. p \notin Active /\ Active' = Active \cup {p}
      BY <1>1, <2>4 DEF begin_op, Active, TypeOK
    <3>2. QED
      BY Zenon, <2>2, <3>1 DEF Abs!Next, Abs!Begin
  <2>5. QED
    BY Zenon, <1>1, <2>3, <2>4 DEF begin_op
<1>2. CASE log_write(p)
  <2>1. UNCHANGED <<home, logblk, head, cache>> /\ Running' = Running
    BY <1>2 DEF log_write, panic, disk, memory, Running
  <2>2. Active' = Active
    BY Zenon, <1>2 DEF log_write, panic, Active, TypeOK
  <2>3. QED
    BY Zenon, <2>1, <2>2, Stutter
<1>3. CASE end_op(p)
  <2>1. ~committing /\ p \in Active
    BY Zenon, <1>3 DEF end_op, CommitInv, Active
  <2>2. UNCHANGED <<home, logblk, head, cache, mode>>
    BY Zenon, <1>3, <2>1 DEF end_op, disk
  <2>3. UNCHANGED <<View, Recovered>>
    BY Zenon, <2>2, SameDisk DEF Running
  <2> DEFINE f == [pc EXCEPT ![p] = "idle"]
  <2>4. f \in [Proc -> Pcs]
    BY Zenon DEF TypeOK
  <2>5. pc' = [pc EXCEPT ![p] = "commit"] \/ pc' = wakeup_log(f)
    BY Zenon, <1>3, <2>1 DEF end_op
  <2>6. Active' = Active \ {p}
    <3>1. CASE pc' = [pc EXCEPT ![p] = "commit"]
      BY Zenon, <3>1 DEF Active, TypeOK
    <3>2. CASE pc' = wakeup_log(f)
      BY Zenon, <2>4, <3>2, WakeupLog DEF Active, TypeOK
    <3>3. QED
      BY Zenon, <2>5, <3>1, <3>2
  <2>7. QED
    BY Zenon, <2>1, <2>3, <2>6 DEF Abs!Next, Abs!End
<1>4. ASSUME NEW b \in Block, NEW v \in Val, modify(p, b, v)
      PROVE  Abs!Next
  <2> USE <1>4 DEF modify, disk
  <2>1. p \in Active /\ Active' = Active /\ Running /\ Running'
    BY ZenonT(30) DEF Active, Running, TypeOK
  <2>2. Recovered' = Recovered
    BY Zenon DEF Recovered
  <2>3. View' = [View EXCEPT ![b] = v]
    BY ZenonT(30), <2>1, ViewIs DEF Data, TypeOK
  <2>4. QED
    BY Zenon, <2>1, <2>2, <2>3 DEF Abs!Next, Abs!Write
<1>5. QED
  BY Zenon, <1>1, <1>2, <1>3, <1>4 DEF Call

\* Writing the header is the abstract Sync; the rest of a commit is invisible.
LEMMA CommitterAbs ==
  \A p \in Proc : LogInv /\ Committer(p) => Abs!Next \/ UNCHANGED <<View, Recovered, Active>>
<1> SUFFICES ASSUME NEW p \in Proc, LogInv, Committer(p)
             PROVE  Abs!Next \/ UNCHANGED <<View, Recovered, Active>>
  OBVIOUS
<1> USE DEF LogInv
<1>1. CASE commit(p)
  <2>1. Active' = Active /\ Running' = Running
    BY Zenon, <1>1 DEF commit, Active, Running, TypeOK
  <2>2. QED
    BY Zenon, <1>1, <2>1, Stutter DEF commit, disk, memory
<1>2. CASE write_log(p)
  <2> USE <1>2 DEF write_log
  <2>1. head = <<>> /\ ~Installing /\ Running /\ Running' /\ Active' = Active
    BY Zenon DEF HeadInv, Running, Installing, CommitInv, Active
  <2>2. Recovered' = Recovered
    BY Zenon, <2>1, RecoveredHome, SameRecovered
  <2>3. lh[tail] \in Block /\ lh[tail] \in Pending
    BY SMTT(30), <2>1 DEF Pending, TypeOK
  <2>4. cache' = cache
    BY SMTT(30), <2>1, <2>3 DEF Data, CacheInv, TypeOK
  <2>5. View' = View
    BY <2>1, <2>4, ViewIs DEF Data
  <2>6. QED
    BY ZenonT(30), <2>1, <2>2, <2>5
<1>3. CASE write_head(p)
  <2> USE <1>3 DEF write_head, memory
  <2>1. ~Installing /\ Running /\ Running' /\ Active' = Active /\ Active = {}
    BY Zenon DEF Running, Installing, CommitInv, Active, TypeOK
  <2>2. View' = View
    BY Zenon, <2>1, ViewIs DEF Data
  <2>3. \A b \in Block : Recovered'[b] = Data(b)
    <3> SUFFICES ASSUME NEW b \in Block PROVE Recovered'[b] = Data(b)
      OBVIOUS
    <3>1. CASE \E i \in 1..Len(lh) : lh[i] = b
      <4>1. PICK i \in 1..Len(lh) : lh[i] = b
        BY Zenon, <3>1
      <4>2. Recovered'[b] = logblk[i]
        BY Zenon, <4>1, RecoveredValueNext DEF HeadInv
      <4>3. logblk[i] = cache[b] /\ b \in Pending
        BY SMTT(30), <2>1, <4>1 DEF HeadInv, Pending, TypeOK
      <4>4. QED
        BY Zenon, <2>1, <4>2, <4>3 DEF Data, CacheInv
    <3>2. CASE \A i \in 1..Len(lh) : lh[i] # b
      <4>1. Recovered'[b] = home[b]
        BY Zenon, <3>2, RecoveredValueNext DEF HeadInv
      <4>2. b \notin Pending /\ \A q \in Proc : buf[q] # b
        BY SMTT(30), <2>1, <3>2 DEF Pending, BufInv, Active, TypeOK
      <4>3. QED
        BY Zenon, <2>1, <4>1, <4>2, CleanData
    <3>3. QED
      BY Zenon, <3>1, <3>2
  <2>4. Recovered' = View
    BY Zenon, <2>1, <2>3, RecoveredView
  <2>5. QED
    BY Zenon, <2>1, <2>2, <2>4 DEF Abs!Next, Abs!Sync
<1>4. CASE install_trans(p)
  <2> USE <1>4 DEF install_trans, install
  <2>1. /\ lh = head /\ tail \in 1..Len(head) /\ lh[tail] \in Block
        /\ Installing /\ Running /\ Running' /\ Active' = Active
    BY SMTT(30) DEF HeadInv, TypeOK, Running, Installing, Active
  <2>2. \A b \in Block : Recovered'[b] = Recovered[b]
    <3> SUFFICES ASSUME NEW b \in Block PROVE Recovered'[b] = Recovered[b]
      OBVIOUS
    <3>1. CASE \E i \in 1..Len(head) : head[i] = b
      BY SMTT(30), <3>1, RecoveredValue, RecoveredValueNext DEF HeadInv
    <3>2. CASE \A i \in 1..Len(head) : head[i] # b
      <4>1. home'[b] = home[b]
        BY ZenonT(30), <2>1, <3>2 DEF TypeOK
      <4>2. QED
        BY Zenon, <3>2, <4>1, RecoveredValue, RecoveredValueNext DEF HeadInv
    <3>3. QED
      BY Zenon, <3>1, <3>2
  <2>3. cache' = cache
    BY SMTT(30), <2>1 DEF CacheInv, TypeOK
  <2>4. cache[lh[tail]] # NoBuf
    BY SMTT(30), <2>1 DEF CacheInv, HeadInv
  <2>5. \A b \in Block : Data(b)' = Data(b)
    BY Zenon, <2>1, <2>3, <2>4 DEF Data, TypeOK
  <2>6. View' = View
    BY Zenon, <2>1, <2>5, ViewIs
  <2>7. QED
    BY Zenon, <2>1, <2>2, <2>6, SameRecovered
<1>5. CASE erase(p)
  <2> USE <1>5 DEF erase, clear_log
  <2>1. /\ lh = head /\ head' = <<>> /\ tail > Len(lh)
        /\ Running /\ Running' /\ Active' = Active
    BY ZenonT(30) DEF HeadInv, Running, Active, Installing, TypeOK
  <2>2. \A b \in Block : Recovered[b] = home[b]
    <3> SUFFICES ASSUME NEW b \in Block PROVE Recovered[b] = home[b]
      BY ZenonT(30)
    <3>1. CASE \E i \in 1..Len(head) : head[i] = b
      <4>1. PICK i \in 1..Len(head) : head[i] = b
        BY Zenon, <3>1
      <4>2. i < tail
        BY <2>1 DEF TypeOK
      <4>3. home[b] = logblk[i] /\ Injective(head)
        BY Zenon, <4>1, <4>2 DEF HeadInv, Installing
      <4>4. QED
        BY Zenon, <4>1, <4>3, RecoveredValue
    <3>2. CASE \A i \in 1..Len(head) : head[i] # b
      BY Zenon, <3>2, RecoveredValue DEF HeadInv
    <3>3. QED
      BY Zenon, <3>1, <3>2
  <2>3. Recovered' = Recovered
    BY Zenon, <2>1, <2>2, RecoveredHome, SameRecovered
  <2>4. View' = View
    BY Zenon, <2>1, ViewIs DEF Data
  <2>5. QED
    BY ZenonT(30), <2>1, <2>3, <2>4
<1>6. CASE end_commit(p)
  <2> DEFINE f == [pc EXCEPT ![p] = "idle"]
  <2>1. f \in [Proc -> Pcs]
    BY Zenon DEF TypeOK
  <2>2. Active' = Active
    BY ZenonT(30), <1>6, <2>1, WakeupLog DEF end_commit, Active, TypeOK
  <2>3. QED
    BY Zenon, <1>6, <2>2, Stutter DEF end_commit, disk, Running
<1>7. QED
  BY Zenon, <1>1, <1>2, <1>3, <1>4, <1>5, <1>6 DEF Committer

\* A buffer that may be recycled holds what the disk holds.
LEMMA EvictAbs == \A b \in Block : LogInv /\ evict(b) => UNCHANGED <<View, Recovered, Active>>
<1> SUFFICES ASSUME NEW b \in Block, LogInv, evict(b)
             PROVE  UNCHANGED <<View, Recovered, Active>>
  OBVIOUS
<1> USE DEF LogInv, evict, disk
<1>1. Running /\ Running' /\ Active' = Active
  BY Zenon DEF Running, Active
<1>2. Recovered' = Recovered
  BY Zenon DEF Recovered
<1>3. b \notin Pending
  BY <1>1 DEF CacheInv
<1>4. Data(b) = home[b]
  BY Zenon, <1>1, <1>3, CleanData
<1>5. \A c \in Block : Data(c)' = Data(c)
  BY Zenon, <1>4 DEF Data, TypeOK
<1>6. QED
  BY Zenon, <1>1, <1>2, <1>5, ViewIs

\* A crash, with or without a torn write, is the abstract Crash.
LEMMA CrashAbs == LogInv /\ Crash => Abs!Crash
<1> SUFFICES ASSUME LogInv, Crash PROVE Abs!Crash
  OBVIOUS
<1> USE DEF LogInv, Crash
<1>1. ~Running' /\ Active' = {}
  BY Zenon DEF Running, Active
<1>2. \A b \in Block : Recovered'[b] = Recovered[b]
  <2>1. CASE UNCHANGED <<home, logblk>>
    BY Zenon, <2>1 DEF Recovered
  <2>2. CASE /\ tail <= Len(lh) /\ mode = "up" /\ \E p \in Proc : pc[p] = "write_log"
             /\ logblk' = [logblk EXCEPT ![tail] = Torn] /\ UNCHANGED home
    <3>1. head = <<>>
      BY Zenon, <2>2 DEF HeadInv, Running, Installing, CommitInv
    <3>2. QED
      BY Zenon, <2>2, <3>1, RecoveredHome
  <2>3. CASE /\ tail <= Len(lh)
             /\ mode = "recover" \/ (mode = "up" /\ \E p \in Proc : pc[p] = "install")
             /\ home' = [home EXCEPT ![lh[tail]] = Torn] /\ UNCHANGED logblk
    <3>1. lh = head /\ tail \in 1..Len(head)
      BY SMTT(30), <2>3 DEF HeadInv, Installing, TypeOK
    <3> SUFFICES ASSUME NEW b \in Block PROVE Recovered'[b] = Recovered[b]
      BY Zenon
    <3>2. CASE \E i \in 1..Len(head) : head[i] = b
      BY SMTT(30), <2>3, <3>2, RecoveredValue, RecoveredValueNext DEF HeadInv
    <3>3. CASE \A i \in 1..Len(head) : head[i] # b
      <4>1. home'[b] = home[b]
        BY ZenonT(30), <2>3, <3>1, <3>3 DEF TypeOK
      <4>2. QED
        BY ZenonT(30), <2>3, <3>3, <4>1, RecoveredValue, RecoveredValueNext DEF HeadInv
    <3>4. QED
      BY ZenonT(30), <3>2, <3>3
  <2>4. QED
    BY Zenon, <2>1, <2>2, <2>3 DEF torn_write
<1>3. QED
  BY Zenon, <1>1, <1>2, SameRecovered, ViewIs DEF Abs!Crash

(***************************************************************************)
(* Crash atomicity: the log implements AtomicDisk.  After a crash at any   *)
(* point, and any number of crashes during the recovery, the disk holds    *)
(* all the writes of a call or none of them.                               *)
(***************************************************************************)
THEOREM Atomicity == Spec => CrashAtomic
<1>1. Init => Abs!Init
  BY Zenon, InitAbs
<1>2. LogInv /\ [Next]_vars => [Abs!Next]_(Abs!vars)
  <2> SUFFICES ASSUME LogInv, [Next]_vars
               PROVE  Abs!Next \/ UNCHANGED <<View, Recovered, Active>>
    BY Zenon DEF Abs!vars
  <2>1. CASE Boot
    BY Zenon, <2>1, BootAbs
  <2>2. ASSUME NEW p \in Proc, Call(p) \/ Committer(p)
        PROVE  Abs!Next \/ UNCHANGED <<View, Recovered, Active>>
    BY Zenon, <2>2, CallAbs, CommitterAbs
  <2>3. ASSUME NEW b \in Block, evict(b)
        PROVE  UNCHANGED <<View, Recovered, Active>>
    BY Zenon, <2>3, EvictAbs
  <2>4. CASE Crash
    BY Zenon, <2>4, CrashAbs DEF Abs!Next
  <2>5. CASE UNCHANGED vars
    <3>1. Active' = Active /\ Running' = Running
      BY Zenon, <2>5 DEF vars, Active, Running
    <3>2. QED
      BY Zenon, <2>5, <3>1, Stutter DEF vars, disk, memory
  <2>6. QED
    BY Zenon, <2>1, <2>2, <2>3, <2>4, <2>5 DEF Next
<1>3. QED
  BY <1>1, <1>2, Invariance, PTL DEF Spec, CrashAtomic, Abs!Spec
===============================================================================
