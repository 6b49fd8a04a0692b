------------------------------ MODULE LogProofs -------------------------------
(***************************************************************************)
(* Proofs about Log, for every set of processes, blocks and contents and   *)
(* every size of the log.                                                  *)
(***************************************************************************)
EXTENDS Log, FiniteSetTheorems, TLAPS

USE LogAssumption DEF Modes, CommitPc, Pcs, Slot

\* The calls in progress are finitely many.
LEMMA ActiveFinite ==
  /\ IsFiniteSet(Active)
  /\ Cardinality(Active) \in Nat
  /\ Cardinality(Active) = 0 <=> Active = {}
<1>1. IsFiniteSet(Active)
  BY Zenon, FS_Subset DEF Active
<1>2. QED
  BY Zenon, <1>1, FS_CardinalityType, FS_EmptySet

\* The initial state, a formatted disk, satisfies the invariant.
LEMMA InitInv == Init => LogInv
<1> SUFFICES ASSUME Init PROVE LogInv
  OBVIOUS
<1> USE DEF Init
<1>1. TypeOK
  <2>1. home \in [Block -> Val \cup {Torn}] /\ logblk \in [Slot -> Val \cup {Torn}]
    OBVIOUS
  <2>2. head \in Seq(Block) /\ lh \in Seq(Block)
    OBVIOUS
  <2>3. committing \in BOOLEAN
    BY Zenon
  <2>4. QED
    BY <2>1, <2>2, <2>3 DEF TypeOK
<1>2. Active = {}
  BY Zenon DEF Active
<1>3. CommitInv
  BY Zenon, <1>2, FS_EmptySet DEF CommitInv, Running
<1>4. BufInv
  BY Zenon DEF BufInv
<1>5. HeadInv
  BY DEF HeadInv, Injective, Running, Installing
<1>6. CacheInv
  BY Zenon DEF CacheInv, Running, Installing
<1>7. QED
  BY Zenon, <1>1, <1>3, <1>4, <1>5, <1>6 DEF LogInv

\* Reading the header at boot.
LEMMA ReadHeadInv == LogInv /\ read_head => LogInv'
<1> SUFFICES ASSUME LogInv, read_head PROVE LogInv'
  OBVIOUS
<1> USE DEF LogInv, read_head, disk
<1>1. TypeOK'
  BY Zenon DEF TypeOK
<1>2. CommitInv'
  BY Zenon DEF CommitInv, Running, Active, TypeOK
<1>3. BufInv'
  BY Zenon DEF BufInv
<1>4. HeadInv'
  BY DEF HeadInv, CommitInv, Running, Installing, TypeOK, Injective
<1>5. CacheInv'
  BY Zenon DEF CacheInv, CommitInv, Running, Installing, TypeOK
<1>6. QED
  BY Zenon, <1>1, <1>2, <1>3, <1>4, <1>5

LEMMA RecoverInstallInv == LogInv /\ recover_install => LogInv'
<1> SUFFICES ASSUME LogInv, recover_install PROVE LogInv'
  OBVIOUS
<1> USE DEF LogInv, recover_install, install
<1>1. TypeOK'
  BY DEF TypeOK, HeadInv
<1>2. CommitInv'
  BY Zenon DEF CommitInv, Running, Active, TypeOK
<1>3. BufInv'
  BY Zenon DEF BufInv
<1>a. ~Running /\ ~Running' /\ ~Installing' /\ \A p \in Proc : pc'[p] = "idle"
  BY Zenon DEF CommitInv, Running, Installing
<1>4. HeadInv'
  <2>1. /\ lh = head /\ UNCHANGED <<lh, head, logblk>> /\ tail' = tail + 1 /\ tail \in Nat
        /\ tail \in 1..Len(head) /\ lh[tail] \in Block /\ mode' # "read_head"
    BY DEF HeadInv, TypeOK
  <2>2. Injective(lh') /\ Injective(head') /\ Len(lh') < NLOG /\ Len(head') < NLOG
    BY <2>1 DEF HeadInv, Injective
  <2>3. \A i \in 1..Len(head') : logblk'[i] \in Val
    BY Zenon, <2>1 DEF HeadInv
  <2>4. \A i \in 1..Len(head) : i # tail => head[i] # lh[tail]
    BY ZenonT(30), <2>1 DEF HeadInv, Injective
  <2>5. home'[lh[tail]] = logblk[tail] /\ \A c \in Block : c # lh[tail] => home'[c] = home[c]
    BY Zenon, <2>1 DEF TypeOK
  <2>6. \A i \in 1..Len(head') : i < tail' => home'[head'[i]] = logblk'[i]
    <3> SUFFICES ASSUME NEW i \in 1..Len(head), i < tail + 1
                 PROVE  home'[head[i]] = logblk[i]
      BY Zenon, <2>1
    <3>1. CASE i = tail
      BY Zenon, <2>1, <2>5, <3>1
    <3>2. CASE i # tail
      <4>1. i < tail
        BY <2>1, <3>2
      <4>2. head[i] \in Block
        BY DEF TypeOK
      <4>3. home[head[i]] = logblk[i]
        BY Zenon, <4>1 DEF HeadInv
      <4>4. QED
        BY Zenon, <2>4, <2>5, <3>2, <4>2, <4>3
    <3>3. QED
      BY Zenon, <3>1, <3>2
  <2> HIDE DEF LogInv, recover_install, install
  <2>7. QED
    BY Zenon, <1>a, <2>1, <2>2, <2>3, <2>6 DEF HeadInv
<1>5. CacheInv'
  BY <1>a DEF CacheInv, TypeOK, HeadInv, Injective
<1>6. QED
  BY Zenon, <1>1, <1>2, <1>3, <1>4, <1>5

LEMMA RecoverClearInv == LogInv /\ recover_clear => LogInv'
<1> SUFFICES ASSUME LogInv, recover_clear PROVE LogInv'
  OBVIOUS
<1> USE DEF LogInv, recover_clear, clear_log
<1>1. TypeOK'
  BY DEF TypeOK
<1>2. CommitInv'
  BY Zenon DEF CommitInv, Running, Active, TypeOK
<1>3. BufInv'
  BY Zenon DEF BufInv
<1>4. ~Installing' /\ Pending' = {}
  BY DEF CommitInv, Running, Installing, Pending
<1>5. HeadInv'
  BY <1>4 DEF HeadInv, CommitInv, Running, TypeOK, Injective
<1>6. CacheInv'
  <2>1. ~Running /\ Running' /\ \A p \in Proc : buf[p] = NoBuf
    BY Zenon DEF CommitInv, BufInv, Running
  <2>2. \A b \in Block : home[b] \in Val
    BY SMTT(30) DEF CacheInv, HeadInv, TypeOK
  <2>3. \A b \in Block : pin[b] = 0 /\ cache[b] \in {NoBuf, home[b]}
    BY Zenon, <2>1 DEF CacheInv
  <2>4. QED
    BY <1>4, <2>1, <2>2, <2>3 DEF CacheInv
<1>7. QED
  BY Zenon, <1>1, <1>2, <1>3, <1>5, <1>6

\* wakeup(&log) moves sleepers and no one else.
LEMMA WakeupLog ==
  ASSUME NEW f \in [Proc -> Pcs]
  PROVE  /\ wakeup_log(f) \in [Proc -> Pcs]
         /\ \A p \in Proc : f[p] # "sleep" => wakeup_log(f)[p] = f[p]
         /\ \A p \in Proc : f[p] = "sleep" => wakeup_log(f)[p] = "woken"
BY Zenon DEF wakeup_log

LEMMA BeginOpInv == \A p \in Proc : LogInv /\ begin_op(p) => LogInv'
<1> SUFFICES ASSUME NEW p \in Proc, LogInv, begin_op(p) PROVE LogInv'
  OBVIOUS
<1> USE DEF LogInv, begin_op, disk
<1>1. TypeOK'
  <2>1. CASE must_wait
    BY Zenon, <2>1 DEF TypeOK
  <2>2. CASE ~must_wait
    <3>1. outstanding' \in Nat
      BY <2>2 DEF TypeOK
    <3>2. pc' \in [Proc -> Pcs]
      BY Zenon, <2>2 DEF TypeOK
    <3>3. QED
      BY Zenon, <3>1, <3>2 DEF TypeOK
  <2>3. QED
    BY Zenon, <2>1, <2>2
<1>2. CommitInv'
  <2>1. CASE must_wait
    <3>1. Active' = Active
      BY Zenon, <2>1 DEF Active, TypeOK
    <3>2. \A q \in Proc : /\ pc'[q] \in CommitPc <=> pc[q] \in CommitPc
                          /\ pc'[q] = "committed" <=> pc[q] = "committed"
      BY Zenon, <2>1 DEF TypeOK
    <3>3. UNCHANGED <<outstanding, committing, mode, lh>>
      BY Zenon, <2>1
    <3>4. QED
      BY <3>1, <3>2, <3>3 DEF CommitInv, Running
  <2>2. CASE ~must_wait
    <3>1. Active' = Active \cup {p} /\ p \notin Active
      BY <2>2 DEF Active, TypeOK
    <3>2. Cardinality(Active') = outstanding'
      BY Zenon, <2>2, <3>1, ActiveFinite, FS_AddElement DEF CommitInv
    <3>3. QED
      BY SMTT(30), <2>2, <3>1, <3>2 DEF CommitInv, Running, TypeOK, must_wait
  <2>3. QED
    BY Zenon, <2>1, <2>2
<1>3. BufInv'
  BY Zenon DEF BufInv, TypeOK
<1>4. Installing' = Installing
  BY Zenon DEF Installing, TypeOK
<1>5. HeadInv'
  BY <1>4 DEF HeadInv, Running, TypeOK
<1>6. Pending' = Pending
  BY Zenon, <1>4 DEF Pending
<1>7. CacheInv'
  BY Zenon, <1>4, <1>6 DEF CacheInv, Running, TypeOK
<1>8. QED
  BY Zenon, <1>1, <1>2, <1>3, <1>5, <1>7

LEMMA ModifyInv ==
  \A p \in Proc, b \in Block, v \in Val : LogInv /\ modify(p, b, v) => LogInv'
<1> SUFFICES ASSUME NEW p \in Proc, NEW b \in Block, NEW v \in Val,
                    LogInv, modify(p, b, v)
             PROVE  LogInv'
  OBVIOUS
<1> USE DEF LogInv, modify, disk
<1>1. TypeOK'
  BY Zenon DEF TypeOK
<1>2. Active' = Active /\ p \in Active
  BY Zenon DEF Active, TypeOK
<1>3. CommitInv'
  BY ZenonT(30), <1>2 DEF CommitInv, Running, TypeOK
<1>4. BufInv'
  BY Zenon DEF BufInv, TypeOK
<1>5. ~Installing /\ ~Installing' /\ \A q \in Proc : pc[q] # "write_log"
  BY Zenon, <1>2 DEF CommitInv, Installing, TypeOK
<1>6. HeadInv'
  BY Zenon, <1>5 DEF HeadInv, Running, TypeOK
<1>7. Pending' = Pending
  BY Zenon, <1>5 DEF Pending
<1>8. CacheInv'
  BY <1>5, <1>7 DEF CacheInv, BufInv, Running, TypeOK
<1>9. QED
  BY Zenon, <1>1, <1>3, <1>4, <1>6, <1>8

\* Outside a commit the header is empty and the loop index at its start.
LEMMA QuietHead ==
  ASSUME HeadInv, Running, ~Installing, \A q \in Proc : pc[q] # "write_log"
  PROVE  head = <<>> /\ tail = 1
BY Zenon DEF HeadInv, Installing

LEMMA QuietHeadInv ==
  ASSUME Running', ~Installing', \A q \in Proc : pc'[q] # "write_log",
         Injective(lh'), Len(lh') < NLOG, head' = <<>>, tail' = 1
  PROVE  HeadInv'
BY DEF HeadInv, Injective, Running

LEMMA PanicInv == LogInv /\ mode = "up" /\ panic => LogInv'
<1> SUFFICES ASSUME LogInv, mode = "up", panic PROVE LogInv'
  OBVIOUS
<1> USE DEF LogInv, panic, disk, memory
<1>1. TypeOK'
  BY Zenon DEF TypeOK
<1>2. Active' = Active /\ Pending' = Pending /\ Installing' = Installing
  BY Zenon DEF Active, Pending, Installing
<1>3. CommitInv' /\ BufInv'
  BY Zenon, <1>2 DEF CommitInv, BufInv, Running
<1>4. HeadInv' /\ CacheInv'
  BY <1>2 DEF HeadInv, CacheInv, Running, Injective
<1>5. QED
  BY Zenon, <1>1, <1>3, <1>4

LEMMA LogWriteInv == \A p \in Proc : LogInv /\ log_write(p) => LogInv'
<1> SUFFICES ASSUME NEW p \in Proc, LogInv, log_write(p) PROVE LogInv'
  OBVIOUS
<1> USE DEF LogInv, log_write, disk
<1>1. CASE log_write_panics /\ panic
  BY Zenon, <1>1, PanicInv
<1> DEFINE b == buf[p]
<1>2. b \in Block /\ cache[b] \in Val /\ p \in Active /\ mode = "up"
  BY DEF BufInv, CacheInv, Running, TypeOK, Active
<1>3. ~Installing /\ \A q \in Proc : pc[q] # "write_log"
  BY Zenon, <1>2 DEF CommitInv, Installing
<1>4. Pending = Logged
  BY Zenon, <1>3 DEF Pending, Logged
<1>5. ASSUME pc' = [pc EXCEPT ![p] = "op"], buf' = [buf EXCEPT ![p] = NoBuf],
             UNCHANGED <<home, logblk, head, cache, outstanding, committing, mode, wrote, tail>>,
             lh' \in Seq(Block), Injective(lh'), Len(lh') < NLOG,
             pin' \in [Block -> Nat],
             Logged' = Logged \cup {b},
             pin'[b] = 1, \A c \in Block : c # b => pin'[c] = pin[c]
      PROVE  LogInv'
  <2> HIDE DEF log_write
  <2>1. TypeOK'
    BY Zenon, <1>5 DEF TypeOK
  <2>2. Active' = Active
    BY Zenon, <1>2, <1>5 DEF Active, TypeOK
  <2>3. CommitInv'
    BY ZenonT(30), <1>2, <1>5, <2>2 DEF CommitInv, Running, TypeOK
  <2>4. BufInv'
    BY ZenonT(30), <1>5 DEF BufInv, TypeOK
  <2>5. ~Installing' /\ Pending' = Logged'
    BY SMTT(30), <1>3, <1>5 DEF Installing, Pending, Logged, TypeOK
  <2>6. HeadInv'
    <3>1. Running /\ Running' /\ \A q \in Proc : pc'[q] # "write_log"
      BY Zenon, <1>2, <1>3, <1>5 DEF Running, TypeOK
    <3>2. head' = <<>> /\ tail' = 1
      BY Zenon, <1>3, <1>5, <3>1, QuietHead
    <3>3. QED
      BY Zenon, <1>5, <2>5, <3>1, <3>2, QuietHeadInv
  <2>7. CacheInv'
    <3>1. \A c \in Block : home'[c] \in Val \/ \E i \in 1..Len(head') : head'[i] = c
      BY Zenon, <1>5 DEF CacheInv
    <3>2. Running /\ Running'
      BY Zenon, <1>2, <1>5 DEF Running
    <3>3. ASSUME NEW c \in Block
          PROVE  /\ pin'[c] = IF c \in Pending' THEN 1 ELSE 0
                 /\ c \in Pending' => cache'[c] \in Val
                 /\ c \notin Pending' /\ (\A q \in Proc : buf'[q] # c)
                      => cache'[c] \in {NoBuf, home'[c]}
                 /\ (\E q \in Proc : buf'[q] = c) => cache'[c] \in Val
      <4>1. CASE c = b
        BY Zenon, <1>2, <1>5, <2>5, <4>1
      <4>2. CASE c # b
        BY ZenonT(30), <1>2, <1>4, <1>5, <2>5, <3>2, <4>2 DEF CacheInv, TypeOK
      <4>3. QED
        BY Zenon, <4>1, <4>2
    <3>4. QED
      BY Zenon, <2>5, <3>1, <3>2, <3>3 DEF CacheInv
  <2>8. QED
    BY Zenon, <2>1, <2>3, <2>4, <2>6, <2>7
<1>6. CASE ~log_write_panics /\ b \in Logged
  <2>1. lh' = lh /\ pin' = pin
    BY Zenon, <1>6
  <2>2. Logged' = Logged \cup {b}
    BY Zenon, <1>6, <2>1 DEF Logged
  <2>3. pin[b] = 1
    BY Zenon, <1>2, <1>4, <1>6 DEF CacheInv, Running
  <2>4. QED
    BY SMTT(30), <1>5, <1>6, <2>1, <2>2, <2>3 DEF TypeOK, HeadInv, Injective
<1>7. CASE ~log_write_panics /\ b \notin Logged
  <2>1. lh' = Append(lh, b) /\ pin' = [pin EXCEPT ![b] = pin[b] + 1]
    BY Zenon, <1>7
  <2>2. /\ Len(lh') = Len(lh) + 1 /\ lh'[Len(lh) + 1] = b
        /\ \A i \in 1..Len(lh) : lh'[i] = lh[i]
        /\ Len(lh) \in Nat /\ lh' \in Seq(Block)
    BY <1>2, <2>1 DEF TypeOK
  <2>3. Len(lh') < NLOG
    BY <1>7, <2>2 DEF log_write_panics
  <2>4. Injective(lh')
    BY <1>7, <2>2 DEF HeadInv, Injective, Logged
  <2>5. Logged' = Logged \cup {b}
    BY <2>2 DEF Logged
  <2>6. pin[b] = 0
    BY Zenon, <1>2, <1>4, <1>7 DEF CacheInv, Running
  <2>7. pin' \in [Block -> Nat] /\ pin'[b] = 1 /\ \A c \in Block : c # b => pin'[c] = pin[c]
    BY <1>2, <2>1, <2>6 DEF TypeOK
  <2>8. QED
    BY Zenon, <1>5, <1>7, <2>2, <2>3, <2>4, <2>5, <2>7
<1>8. QED
  BY Zenon, <1>1, <1>6, <1>7

LEMMA EndOpInv == \A p \in Proc : LogInv /\ end_op(p) => LogInv'
<1> SUFFICES ASSUME NEW p \in Proc, LogInv, end_op(p) PROVE LogInv'
  OBVIOUS
<1> USE DEF LogInv, end_op, disk
<1>1. p \in Active /\ ~committing
  BY Zenon DEF Active, CommitInv
<1> DEFINE f == [pc EXCEPT ![p] = "idle"]
<1>a. f \in [Proc -> Pcs]
  BY Zenon DEF TypeOK
<1>b. pc' = IF outstanding' = 0 THEN [pc EXCEPT ![p] = "commit"] ELSE wakeup_log(f)
  BY Zenon, <1>1
<1>2. Active' = Active \ {p} /\ outstanding' = outstanding - 1
  <2>1. CASE outstanding' = 0
    BY Zenon, <1>1, <1>b, <2>1 DEF Active, TypeOK
  <2>2. CASE outstanding' # 0
    BY ZenonT(30), <1>1, <1>a, <1>b, <2>2, WakeupLog DEF Active, TypeOK
  <2>3. QED
    BY Zenon, <2>1, <2>2
<1>3. Cardinality(Active') = outstanding' /\ outstanding' \in Nat
  <2>1. Cardinality(Active \ {p}) = Cardinality(Active) - 1
    BY Zenon, <1>1, ActiveFinite, FS_RemoveElement
  <2>2. Cardinality(Active \ {p}) \in Nat
    BY Zenon, ActiveFinite, FS_RemoveElement, FS_CardinalityType
  <2>3. QED
    BY Zenon, <1>2, <2>1, <2>2 DEF CommitInv
<1>4. outstanding' = 0 <=> Active' = {}
  BY Zenon, <1>2, <1>3, ActiveFinite, FS_Subset, FS_EmptySet
<1>5. /\ pc' \in [Proc -> Pcs]
      /\ \A q \in Proc : q # p =>
           pc'[q] = pc[q] \/ (pc[q] = "sleep" /\ pc'[q] = "woken")
      /\ pc'[p] = IF outstanding' = 0 THEN "commit" ELSE "idle"
  <2>1. CASE outstanding' = 0
    BY Zenon, <1>b, <2>1 DEF TypeOK
  <2>2. CASE outstanding' # 0
    <3>1. pc' = wakeup_log(f)
      BY Zenon, <1>b, <2>2
    <3>2. pc' \in [Proc -> Pcs]
      BY Zenon, <1>a, <3>1, WakeupLog
    <3>3. \A q \in Proc : q # p => pc'[q] = pc[q] \/ (pc[q] = "sleep" /\ pc'[q] = "woken")
      BY ZenonT(30), <1>a, <3>1, WakeupLog DEF TypeOK
    <3>4. f[p] = "idle" /\ pc'[p] = f[p]
      BY ZenonT(30), <1>a, <3>1, WakeupLog DEF TypeOK
    <3>5. QED
      BY Zenon, <2>2, <3>2, <3>3, <3>4
  <2>3. QED
    BY Zenon, <2>1, <2>2
<1>6. TypeOK'
  <2>1. committing' \in BOOLEAN
    BY Zenon, <1>1 DEF TypeOK
  <2>2. QED
    BY Zenon, <1>1, <1>3, <1>5, <2>1 DEF TypeOK
<1>7. CommitInv'
  <2>1. /\ \A q \in Proc : q # p => pc'[q] \notin CommitPc
        /\ pc'[p] \in CommitPc <=> outstanding' = 0
        /\ pc'[p] # "committed"
    BY Zenon, <1>1, <1>5 DEF CommitInv
  <2>2. CASE outstanding' = 0
    <3>1. committing' /\ mode' = "up"
      BY Zenon, <1>1, <2>2
    <3>2. \A q \in Proc : pc'[q] # "committed"
      BY Zenon, <2>1
    <3>3. QED
      BY ZenonT(30), <1>3, <1>4, <2>1, <2>2, <3>1, <3>2 DEF CommitInv, Running
  <2>3. CASE outstanding' # 0
    <3>1. ~committing' /\ mode' = "up"
      BY <1>1, <2>3
    <3>2. QED
      BY ZenonT(30), <1>3, <1>4, <2>1, <2>3, <3>1 DEF CommitInv, Running
  <2>4. QED
    BY Zenon, <2>2, <2>3
<1>8. BufInv'
  BY ZenonT(30), <1>1, <1>5 DEF BufInv, TypeOK
<1>9. ~Installing /\ ~Installing' /\ \A q \in Proc : pc[q] # "write_log"
  BY Zenon, <1>1, <1>5 DEF CommitInv, Installing, TypeOK
<1>10. HeadInv'
  <2>1. Running /\ Running' /\ \A q \in Proc : pc'[q] # "write_log"
    BY ZenonT(30), <1>1, <1>5, <1>9 DEF Running, TypeOK
  <2>2. head' = <<>> /\ tail' = 1 /\ lh' = lh
    BY Zenon, <1>1, <1>9, <2>1, QuietHead
  <2>3. QED
    BY ZenonT(30), <1>9, <2>1, <2>2, QuietHeadInv DEF HeadInv
<1>11. Pending' = Pending
  BY Zenon, <1>1, <1>9 DEF Pending
<1>12. CacheInv'
  BY <1>1, <1>9, <1>11 DEF CacheInv, Running, TypeOK
<1>13. QED
  BY Zenon, <1>6, <1>7, <1>8, <1>10, <1>12

LEMMA CommitStepInv == \A p \in Proc : LogInv /\ commit(p) => LogInv'
<1> SUFFICES ASSUME NEW p \in Proc, LogInv, commit(p) PROVE LogInv'
  OBVIOUS
<1> USE DEF LogInv, commit, disk, memory
<1>1. TypeOK'
  BY Zenon DEF TypeOK
<1>2. Active' = Active
  BY Zenon DEF Active, TypeOK
<1>3. CommitInv'
  BY <1>2 DEF CommitInv, Running, TypeOK
<1>4. BufInv'
  BY Zenon DEF BufInv, TypeOK
<1>5. ~Installing /\ ~Installing' /\ Pending' = Pending
  BY DEF CommitInv, Installing, Pending, TypeOK
<1>6. tail = 1 /\ head = <<>>
  BY Zenon, <1>5, QuietHead DEF CommitInv, Running
<1>7. HeadInv'
  BY SMTT(30), <1>5, <1>6 DEF HeadInv, Running, TypeOK
<1>8. CacheInv'
  BY Zenon, <1>5 DEF CacheInv, Running, TypeOK
<1>9. QED
  BY Zenon, <1>1, <1>3, <1>4, <1>7, <1>8

LEMMA WriteLogInv == \A p \in Proc : LogInv /\ write_log(p) => LogInv'
<1> SUFFICES ASSUME NEW p \in Proc, LogInv, write_log(p) PROVE LogInv'
  OBVIOUS
<1> USE DEF LogInv, write_log
<1> DEFINE b == lh[tail]
<1>1. tail \in 1..Len(lh) /\ tail \in Slot /\ b \in Block
  BY DEF TypeOK, HeadInv
<1>2. ~Installing /\ Running
  BY Zenon DEF CommitInv, Installing, Running
<1>3. b \in Pending /\ cache[b] \in Val
  BY Zenon, <1>1, <1>2 DEF Pending, CacheInv
<1>4. Data(b) = cache[b] /\ cache' = cache
  BY Zenon, <1>1, <1>3 DEF Data, TypeOK
<1>5. TypeOK'
  BY SMTT(30), <1>1, <1>3, <1>4 DEF TypeOK
<1>6. CommitInv' /\ BufInv'
  BY Zenon DEF CommitInv, BufInv, Running, Active
<1>7. Pending' = Pending /\ ~Installing' /\ Running'
  BY Zenon, <1>2 DEF Installing, Pending, Running
<1>8. HeadInv'
  BY SMTT(30), <1>1, <1>2, <1>4, <1>7 DEF HeadInv, Injective, Running, TypeOK
<1>9. CacheInv'
  BY ZenonT(30), <1>2, <1>4, <1>7 DEF CacheInv, HeadInv
<1>10. QED
  BY Zenon, <1>5, <1>6, <1>8, <1>9

LEMMA WriteHeadInv == \A p \in Proc : LogInv /\ write_head(p) => LogInv'
<1> SUFFICES ASSUME NEW p \in Proc, LogInv, write_head(p) PROVE LogInv'
  OBVIOUS
<1> USE DEF LogInv, write_head, memory
<1>1. TypeOK'
  BY DEF TypeOK
<1>2. ~Installing /\ Running
  BY Zenon DEF CommitInv, Installing, Running
<1>3. Active' = Active
  BY Zenon DEF Active, TypeOK
<1>4. CommitInv'
  BY <1>3 DEF CommitInv, Running, TypeOK
<1>5. BufInv'
  BY Zenon DEF BufInv, TypeOK
<1>6. Installing' /\ Running' /\ Pending' = Pending
  BY SMTT(30), <1>2 DEF Installing, Running, Pending, TypeOK
<1>7. \A i \in 1..Len(lh) : logblk[i] = cache[lh[i]] /\ cache[lh[i]] \in Val
  BY SMTT(30), <1>2 DEF HeadInv, CacheInv, Pending, TypeOK
<1>8. HeadInv'
  <2>1. \A q \in Proc : pc'[q] # "write_log"
    BY Zenon DEF CommitInv, TypeOK
  <2>2. /\ head' = lh /\ lh' = lh /\ tail' = 1 /\ logblk' = logblk /\ home' = home
        /\ mode' # "read_head"
    BY Zenon, <1>2 DEF Running
  <2>3. Injective(lh) /\ Len(lh) < NLOG
    BY Zenon DEF HeadInv
  <2>4. Injective(lh') /\ Injective(head')
    BY Zenon, <2>2, <2>3 DEF Injective
  <2>5. \A i \in 1..Len(head') : logblk'[i] \in Val
    BY Zenon, <1>7, <2>2
  <2>6. tail' = 1 /\ \A i \in 1..Len(head') : ~(i < tail')
    BY SMTT(30), <2>2
  <2> HIDE DEF LogInv, write_head
  <2>7. QED
    BY ZenonT(30), <1>6, <2>1, <2>2, <2>3, <2>4, <2>5, <2>6 DEF HeadInv
<1>9. CacheInv'
  <2>1. /\ head' = lh /\ lh' = lh /\ tail' = 1
        /\ UNCHANGED <<logblk, home, cache, pin, buf>>
    BY Zenon
  <2>2. \A b \in Block : home[b] \in Val
    BY <1>2 DEF CacheInv, HeadInv
  <2> HIDE DEF write_head
  <2>3. QED
    BY ZenonT(30), <1>2, <1>6, <1>7, <2>1, <2>2 DEF CacheInv
<1>10. QED
  BY Zenon, <1>1, <1>4, <1>5, <1>8, <1>9

LEMMA InstallTransInv == \A p \in Proc : LogInv /\ install_trans(p) => LogInv'
<1> SUFFICES ASSUME NEW p \in Proc, LogInv, install_trans(p) PROVE LogInv'
  OBVIOUS
<1> USE DEF LogInv, install_trans, install
<1> DEFINE b == lh[tail]
<1>1. tail \in 1..Len(lh) /\ tail \in Slot /\ b \in Block
  BY DEF TypeOK, HeadInv
<1>2. Installing /\ Installing' /\ Running /\ Running'
  BY Zenon DEF CommitInv, Installing, Running
<1>3. /\ b \in Pending /\ pin[b] = 1
      /\ logblk[tail] \in Val /\ cache[b] = logblk[tail] /\ lh = head
  <2>1. b \in Pending
    BY SMTT(30), <1>1, <1>2 DEF Pending
  <2>2. pin[b] = 1
    BY ZenonT(30), <1>1, <1>2, <2>1 DEF CacheInv
  <2>3. lh = head
    BY Zenon, <1>2 DEF HeadInv
  <2>4. logblk[tail] \in Val
    BY ZenonT(30), <1>1, <2>3 DEF HeadInv
  <2>5. cache[b] = logblk[tail]
    BY <1>1, <1>2 DEF CacheInv
  <2>6. QED
    BY Zenon, <2>1, <2>2, <2>3, <2>4, <2>5
<1>a. /\ home' = [home EXCEPT ![b] = logblk[tail]]
      /\ pin' = [pin EXCEPT ![b] = 0]
      /\ tail' = tail + 1
      /\ UNCHANGED <<logblk, head, cache, lh, mode, pc, buf, wrote, outstanding, committing>>
  <2>1. cache' = cache
    BY Zenon, <1>1, <1>3 DEF TypeOK
  <2>2. pin' = [pin EXCEPT ![b] = 0]
    BY SMTT(30), <1>3
  <2>3. QED
    BY ZenonT(30), <2>1, <2>2
<1> HIDE DEF install_trans, install
<1>4. TypeOK'
  <2>1. pin' \in [Block -> Nat]
    BY Zenon, <1>1, <1>a DEF TypeOK
  <2>2. home' \in [Block -> Val \cup {Torn}]
    BY Zenon, <1>1, <1>3, <1>a DEF TypeOK
  <2>3. tail' \in Nat \ {0}
    BY SMTT(30), <1>a DEF TypeOK
  <2>4. QED
    BY Zenon, <1>a, <2>1, <2>2, <2>3 DEF TypeOK
<1>5. CommitInv' /\ BufInv'
  BY Zenon, <1>a DEF CommitInv, BufInv, Running, Active
<1>b. \A i \in 1..Len(lh) : i # tail => lh[i] # b
  BY Zenon, <1>1 DEF HeadInv, Injective
<1>6. Pending' = Pending \ {b}
  <2>1. tail' = tail + 1 /\ lh' = lh /\ tail \in 1..Len(lh) /\ Len(lh) \in Nat
    BY SMTT(30), <1>1, <1>a DEF TypeOK
  <2> HIDE DEF LogInv
  <2>2. QED
    BY SMTT(30), <1>2, <1>b, <2>1 DEF Pending
<1>c. home'[b] = logblk[tail] /\ \A c \in Block : c # b => home'[c] = home[c]
  BY Zenon, <1>1, <1>a DEF TypeOK
<1>7. HeadInv'
  <2>1. Injective(lh') /\ Injective(head') /\ Len(lh') < NLOG /\ Len(head') < NLOG
    BY SMTT(30), <1>a DEF HeadInv, Injective
  <2>2. \A i \in 1..Len(head') : logblk'[i] \in Val
    BY Zenon, <1>a DEF HeadInv
  <2>3. \A i \in 1..Len(head') : i < tail' => home'[head'[i]] = logblk'[i]
    <3> SUFFICES ASSUME NEW i \in 1..Len(head), i < tail + 1 PROVE home'[head[i]] = logblk[i]
      BY Zenon, <1>a
    <3>1. CASE i = tail
      BY Zenon, <1>3, <1>c, <3>1
    <3>2. CASE i # tail
      <4>1. i < tail /\ head[i] # b /\ head[i] \in Block
        BY SMTT(30), <1>1, <1>3, <1>b, <3>2 DEF TypeOK
      <4>2. home[head[i]] = logblk[i]
        BY Zenon, <1>2, <4>1 DEF HeadInv
      <4>3. QED
        BY Zenon, <1>c, <4>1, <4>2
    <3>3. QED
      BY Zenon, <3>1, <3>2
  <2>4. mode' # "read_head" /\ lh' = head'
    BY Zenon, <1>2, <1>3, <1>a DEF Running
  <2>5. \A q \in Proc : pc'[q] # "write_log"
    BY Zenon, <1>2, <1>a DEF CommitInv, Installing
  <2>6. ~(\A q \in Proc : pc'[q] \notin {"write_log", "install"})
    BY Zenon, <1>2, <1>a DEF Installing
  <2> HIDE DEF LogInv
  <2>7. QED
    BY ZenonT(30), <1>2, <2>1, <2>2, <2>3, <2>4, <2>5, <2>6 DEF HeadInv
<1>8. CacheInv'
  <2>1. \A c \in Block : home'[c] \in Val \/ \E i \in 1..Len(head') : head'[i] = c
    BY ZenonT(30), <1>3, <1>a, <1>c DEF CacheInv
  <2>2. pin'[b] = 0 /\ \A c \in Block : c # b => pin'[c] = pin[c]
    BY Zenon, <1>1, <1>a DEF TypeOK
  <2>3. \A q \in Proc : buf'[q] = NoBuf
    <3>1. CommitInv /\ BufInv /\ buf' = buf
      BY Zenon, <1>a
    <3> HIDE DEF LogInv
    <3>2. Active = {}
      BY Zenon, <1>2, <3>1 DEF CommitInv, Installing, CommitPc
    <3>3. \A q \in Proc : pc[q] # "modified"
      BY Zenon, <3>2 DEF Active
    <3>4. \A q \in Proc : buf[q] = NoBuf
      BY Zenon, <3>1, <3>3 DEF BufInv
    <3>5. QED
      BY Zenon, <3>1, <3>4
  <2>4. ASSUME NEW c \in Block
        PROVE  /\ pin'[c] = IF c \in Pending' THEN 1 ELSE 0
               /\ c \in Pending' => cache'[c] \in Val
               /\ c \notin Pending' => cache'[c] \in {NoBuf, home'[c]}
    <3>1. CASE c = b
      BY Zenon, <1>3, <1>6, <1>a, <1>c, <2>2, <3>1
    <3>2. CASE c # b
      <4>1. \A q \in Proc : buf[q] # c
        <5>1. buf' = buf
          BY Zenon, <1>a
        <5>2. c # NoBuf
          BY Zenon, LogAssumption
        <5> HIDE DEF LogInv
        <5>3. QED
          BY Zenon, <2>3, <5>1, <5>2
      <4>2. CacheInv /\ Running /\ cache' = cache
        BY Zenon, <1>2, <1>a
      <4>3. pin'[c] = pin[c] /\ home'[c] = home[c] /\ (c \in Pending' <=> c \in Pending)
        BY Zenon, <1>6, <1>c, <2>2, <3>2
      <4> HIDE DEF LogInv
      <4>4. /\ pin[c] = IF c \in Pending THEN 1 ELSE 0
            /\ c \in Pending => cache[c] \in Val
            /\ c \notin Pending => cache[c] \in {NoBuf, home[c]}
        BY Zenon, <4>1, <4>2 DEF CacheInv
      <4>5. pin'[c] = IF c \in Pending' THEN 1 ELSE 0
        BY Zenon, <4>3, <4>4
      <4>6. QED
        BY Zenon, <4>2, <4>3, <4>4, <4>5
    <3>3. QED
      BY Zenon, <3>1, <3>2
  <2>5. \A i \in 1..Len(lh') : tail' <= i => cache'[lh'[i]] = logblk'[i]
    BY SMTT(30), <1>1, <1>2, <1>a DEF CacheInv
  <2>6. \A c \in Block : ~ \E q \in Proc : buf'[q] = c
    BY Zenon, <2>3, LogAssumption
  <2> HIDE DEF LogInv
  <2>7. QED
    BY ZenonT(30), <1>2, <2>1, <2>4, <2>5, <2>6 DEF CacheInv
<1>9. QED
  BY Zenon, <1>4, <1>5, <1>7, <1>8

LEMMA EraseInv == \A p \in Proc : LogInv /\ erase(p) => LogInv'
<1> SUFFICES ASSUME NEW p \in Proc, LogInv, erase(p) PROVE LogInv'
  OBVIOUS
<1> USE DEF LogInv, erase, clear_log
<1>1. TypeOK'
  BY DEF TypeOK
<1>2. Installing /\ Running /\ Running' /\ tail > Len(lh) /\ lh = head
  BY Zenon DEF Installing, Running, HeadInv
<1>3. ~Installing' /\ \A q \in Proc : pc'[q] # "write_log"
  BY Zenon DEF Installing, CommitInv, TypeOK
<1>4. Active' = Active
  BY Zenon DEF Active, TypeOK
<1>5. CommitInv'
  BY ZenonT(30), <1>4 DEF CommitInv, Running, TypeOK
<1>6. BufInv'
  BY Zenon DEF BufInv, TypeOK
<1>7. HeadInv'
  BY SMTT(30), <1>2, <1>3, QuietHeadInv DEF Injective, HeadInv
<1>8. Pending = {} /\ Pending' = {}
  BY SMTT(30), <1>2 DEF Pending, TypeOK
<1>9. \A b \in Block : home[b] \in Val
  BY SMTT(30), <1>2 DEF CacheInv, HeadInv, TypeOK
<1>10. CacheInv'
  BY Zenon, <1>2, <1>3, <1>8, <1>9 DEF CacheInv
<1>11. QED
  BY Zenon, <1>1, <1>5, <1>6, <1>7, <1>10

LEMMA EndCommitInv == \A p \in Proc : LogInv /\ end_commit(p) => LogInv'
<1> SUFFICES ASSUME NEW p \in Proc, LogInv, end_commit(p) PROVE LogInv'
  OBVIOUS
<1> USE DEF LogInv, end_commit, disk
<1> DEFINE f == [pc EXCEPT ![p] = "idle"]
<1>1. f \in [Proc -> Pcs]
  BY Zenon DEF TypeOK
<1>2. pc' \in [Proc -> Pcs]
  BY Zenon, <1>1, WakeupLog
<1>3. \A q \in Proc : q # p => pc'[q] = pc[q] \/ (pc[q] = "sleep" /\ pc'[q] = "woken")
  BY ZenonT(30), <1>1, WakeupLog DEF TypeOK
<1>4. f[p] = "idle" /\ pc'[p] = f[p]
  BY ZenonT(30), <1>1, WakeupLog DEF TypeOK
<1>5. TypeOK'
  <2>1. committing' \in BOOLEAN
    BY Zenon
  <2>2. QED
    BY Zenon, <1>2, <2>1 DEF TypeOK
<1>6. Active' = Active
  BY Zenon, <1>3, <1>4 DEF Active
<1>7. ~Installing /\ ~Installing' /\ Running /\ Running'
  BY Zenon, <1>3, <1>4 DEF Installing, CommitInv, Running
<1>8. \A q \in Proc : pc[q] # "write_log" /\ pc'[q] # "write_log"
  BY Zenon, <1>3, <1>4 DEF CommitInv
<1>9. CommitInv'
  <2>1. \A q \in Proc : pc'[q] \notin CommitPc
    BY ZenonT(30), <1>3, <1>4 DEF CommitInv
  <2>2. lh = <<>>
    BY Zenon DEF CommitInv
  <2>3. QED
    BY Zenon, <1>6, <1>7, <2>1, <2>2 DEF CommitInv
<1>10. BufInv'
  BY ZenonT(30), <1>3, <1>4 DEF BufInv
<1>11. HeadInv'
  BY ZenonT(30), <1>7, <1>8, QuietHead, QuietHeadInv DEF HeadInv
<1>12. Pending' = Pending
  BY Zenon, <1>7 DEF Pending
<1>13. CacheInv'
  BY ZenonT(30), <1>7, <1>12 DEF CacheInv
<1>14. QED
  BY Zenon, <1>5, <1>9, <1>10, <1>11, <1>13

LEMMA EvictInv == \A b \in Block : LogInv /\ evict(b) => LogInv'
<1> SUFFICES ASSUME NEW b \in Block, LogInv, evict(b) PROVE LogInv'
  BY Zenon
<1> USE DEF LogInv, evict, disk
<1>1. TypeOK'
  BY Zenon DEF TypeOK
<1>2. Running /\ Running' /\ Installing' = Installing /\ Pending' = Pending
  BY Zenon DEF Running, Installing, Pending
<1>3. CommitInv' /\ BufInv'
  BY Zenon DEF CommitInv, BufInv, Running, Active
<1>4. b \notin Pending
  BY SMTT(30), <1>2 DEF CacheInv
<1>5. \A i \in 1..Len(lh) : (Installing => tail <= i) => cache'[lh[i]] = cache[lh[i]]
  BY SMTT(30), <1>4 DEF Pending, TypeOK
<1>6. HeadInv'
  <2>1. \A p \in Proc : pc'[p] = "write_log" =>
          \A i \in 1..Len(lh') : i < tail' => logblk'[i] = cache'[lh'[i]]
    BY SMTT(30), <1>5 DEF HeadInv, CommitInv, Installing
  <2>2. QED
    BY ZenonT(30), <1>2, <2>1 DEF HeadInv, Running
<1>7. CacheInv'
  <2>1. Installing' => \A i \in 1..Len(lh') : tail' <= i => cache'[lh'[i]] = logblk'[i]
    BY SMTT(30), <1>2, <1>5 DEF CacheInv
  <2>2. \A c \in Block : c # b => cache'[c] = cache[c]
    BY Zenon DEF TypeOK
  <2>3. cache'[b] = NoBuf
    BY Zenon DEF TypeOK
  <2>4. QED
    BY SMTT(30), <1>2, <1>4, <2>1, <2>2, <2>3 DEF CacheInv
<1>8. QED
  BY Zenon, <1>1, <1>3, <1>6, <1>7

LEMMA CrashInv == LogInv /\ Crash => LogInv'
<1> SUFFICES ASSUME LogInv, Crash PROVE LogInv'
  OBVIOUS
<1> USE DEF LogInv, Crash
<1>1. home' \in [Block -> Val \cup {Torn}] /\ logblk' \in [Slot -> Val \cup {Torn}]
  BY ZenonT(30) DEF TypeOK, torn_write
<1>2. TypeOK'
  <2>1. committing' \in BOOLEAN
    BY ZenonT(30)
  <2>2. lh' \in Seq(Block)
    OBVIOUS
  <2>3. QED
    BY <1>1, <2>1, <2>2 DEF TypeOK
<1>3. Active' = {}
  BY Zenon DEF Active
<1>4. CommitInv'
  BY Zenon, <1>3, FS_EmptySet DEF CommitInv, Running
<1>5. BufInv'
  BY Zenon DEF BufInv
<1>6. ~Running' /\ ~Installing'
  BY Zenon DEF Running, Installing
<1>7. /\ \A i \in 1..Len(head) : logblk'[i] \in Val
      /\ \A b \in Block : home'[b] \in Val \/ \E i \in 1..Len(head) : head[i] = b
  <2>1. CASE UNCHANGED <<home, logblk>>
    BY ZenonT(30), <2>1 DEF HeadInv, CacheInv
  <2>2. CASE /\ tail <= Len(lh) /\ mode = "up" /\ \E p \in Proc : pc[p] = "write_log"
             /\ logblk' = [logblk EXCEPT ![tail] = Torn] /\ UNCHANGED home
    <3>1. head = <<>>
      BY Zenon, <2>2 DEF HeadInv, Running, Installing, CommitInv
    <3>2. QED
      BY SMTT(30), <2>2, <3>1 DEF CacheInv
  <2>3. CASE /\ tail <= Len(lh)
             /\ mode = "recover" \/ (mode = "up" /\ \E p \in Proc : pc[p] = "install")
             /\ home' = [home EXCEPT ![lh[tail]] = Torn] /\ UNCHANGED logblk
    <3>1. lh = head /\ tail \in 1..Len(head)
      BY SMTT(30), <2>3 DEF HeadInv, Installing, TypeOK
    <3>2. \A i \in 1..Len(head) : logblk'[i] \in Val
      BY Zenon, <2>3 DEF HeadInv
    <3>3. \A b \in Block : b # head[tail] => home'[b] = home[b]
      BY Zenon, <2>3, <3>1 DEF TypeOK
    <3>4. QED
      BY Zenon, <3>1, <3>2, <3>3 DEF CacheInv
  <2>4. QED
    BY Zenon, <2>1, <2>2, <2>3 DEF torn_write
<1>8. HeadInv'
  <2>1. head' = head /\ lh' = <<>> /\ tail' = 1 /\ mode' = "read_head"
        /\ \A p \in Proc : pc'[p] = "idle"
    OBVIOUS
  <2>2. Injective(lh') /\ Len(lh') < NLOG
    BY SMTT(30), <2>1 DEF Injective
  <2>3. Injective(head') /\ Len(head') < NLOG
    BY SMTT(30), <2>1 DEF HeadInv, Injective
  <2> HIDE DEF LogInv, Crash
  <2>4. QED
    BY Zenon, <1>6, <1>7, <2>1, <2>2, <2>3 DEF HeadInv
<1>9. CacheInv'
  BY ZenonT(30), <1>6, <1>7 DEF CacheInv
<1>10. QED
  BY Zenon, <1>2, <1>4, <1>5, <1>8, <1>9

\* Every step keeps the invariant.
LEMMA NextInv == LogInv /\ [Next]_vars => LogInv'
<1> SUFFICES ASSUME LogInv, [Next]_vars PROVE LogInv'
  OBVIOUS
<1>1. CASE Boot
  BY Zenon, <1>1, ReadHeadInv, RecoverInstallInv, RecoverClearInv DEF Boot
<1>2. ASSUME NEW p \in Proc, Call(p) PROVE LogInv'
  BY Zenon, <1>2, BeginOpInv, LogWriteInv, EndOpInv, ModifyInv DEF Call
<1>3. ASSUME NEW p \in Proc, Committer(p) PROVE LogInv'
  BY Zenon, <1>3, CommitStepInv, WriteLogInv, WriteHeadInv, InstallTransInv, EraseInv, EndCommitInv
     DEF Committer
<1>4. CASE Crash
  BY Zenon, <1>4, CrashInv
<1>5. ASSUME NEW b \in Block, evict(b) PROVE LogInv'
  BY Zenon, <1>5, EvictInv
<1>6. CASE UNCHANGED vars
  <2> USE <1>6 DEF vars, disk, memory
  <2>1. /\ Running' = Running /\ Installing' = Installing
        /\ Pending' = Pending /\ Active' = Active
    BY Zenon DEF Running, Installing, Pending, Active
  <2>2. TypeOK'
    BY Zenon DEF LogInv, TypeOK
  <2>3. CommitInv'
    BY Zenon, <2>1 DEF LogInv, CommitInv
  <2>4. BufInv'
    BY ZenonT(30) DEF LogInv, BufInv
  <2>5. HeadInv'
    BY SMTT(30), <2>1 DEF LogInv, HeadInv, Injective
  <2>6. CacheInv'
    BY Zenon, <2>1 DEF LogInv, CacheInv
  <2>7. QED
    BY Zenon, <2>2, <2>3, <2>4, <2>5, <2>6 DEF LogInv
<1>7. QED
  BY Zenon, <1>1, <1>2, <1>3, <1>4, <1>5, <1>6 DEF Next

(***************************************************************************)
(* The invariant holds in every reachable state: the types are right, at   *)
(* most one process commits and only while no call runs, and the cache     *)
(* differs from the disk only where a buffer is pinned or locked.          *)
(***************************************************************************)
THEOREM Invariance == Spec => []LogInv
<1>1. Init => LogInv
  BY Zenon, InitInv
<1>2. LogInv /\ [Next]_vars => LogInv'
  BY Zenon, NextInv
<1>3. QED
  BY <1>1, <1>2, PTL DEF Spec
===============================================================================
