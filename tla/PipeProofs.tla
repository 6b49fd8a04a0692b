----------------------------- MODULE PipeProofs -------------------------------
(***************************************************************************)
(* Proofs about Pipe, for any number of readers and writers, any size of   *)
(* the ring and any width of its counters.                                 *)
(***************************************************************************)
EXTENDS Pipe, SequenceTheorems, TLAPS

\* Where a process holds pi->lock, and where it is inside a call.
Locked == {"locked", "checked", "copy", "copied"}
InCall == Locked \cup {"enter", "sleep_nread", "sleep_nwrite", "woken"}

\* The process that has taken pi->lock is the one that runs under it.
LockInv == \A p \in Proc : pc[p] \in Locked <=> lock = p

\* What a process has found out under pi->lock and acts upon.
CallInv == \A p \in Proc :
  /\ i[p] <= n[p] /\ (pc[p] \in {"user", "pipeclose"} => i[p] = 0)
  /\ pc[p] \in {"copy", "copied", "sleep_nread"} => p \in Reader
  /\ pc[p] = "sleep_nwrite" => p \in Writer
  /\ pc[p] = "checked" /\ p \in Writer => i[p] < n[p] /\ readopen
  /\ pc[p] = "checked" /\ p \in Reader => Empty /\ writeopen

\* An end is open as long as somebody can use it or has still to close it.
EndInv ==
  /\ freed <=> ~(readopen \/ writeopen)
  /\ \A p \in Proc : pc[p] \in InCall => p \in ref
  /\ \A p \in ref : (p \in Reader => readopen) /\ (p \in Writer => writeopen)
  /\ \A p \in Proc : pc[p] = "pipeclose" =>
       /\ p \in Reader => readopen /\ ref \cap Reader = {}
       /\ p \in Writer => writeopen /\ ref \cap Writer = {}
  /\ \A p, q \in Proc : pc[p] = "pipeclose" /\ pc[q] = "pipeclose" =>
       p = q \/ (p \in Reader <=> q \in Writer)

\* The ring is never overfull.
Room == Count <= PIPESIZE

\* Who sleeps has reason to, or the process that ends the reason has the lock and will wake it.
WaitInv == \A p \in Proc :
  /\ pc[p] = "sleep_nwrite" =>
       /\ readopen
       /\ Full \/ \E r \in Reader : lock = r /\ pc[r] \in {"copy", "copied"}
  /\ pc[p] = "sleep_nread" =>
       /\ writeopen
       /\ \/ Empty
          \/ \E w \in Writer : lock = w /\ pc[w] \in {"locked", "checked"}
          \/ \E w \in Writer : killed[w]

PipeInv == TypeOK /\ LockInv /\ CallInv /\ EndInv /\ Room /\ WaitInv

USE DEF ring, ends
-------------------------------------------------------------------------------
\* The readers and the writers are different processes, and none of them is NoProc.
LEMMA ProcFacts ==
  /\ \A p \in Proc : p # NoProc /\ (p \in Reader <=> p \notin Writer)
  /\ Reader \subseteq Proc /\ Writer \subseteq Proc
  /\ WORD \in Nat /\ PIPESIZE \in Nat \ {0} /\ PIPESIZE < WORD /\ MaxN \in Nat \ {0} /\ Byte # {}
BY Zenon, PipeAssumption DEF Proc

\* What % does to the counters, which are uints.
LEMMA Wrap ==
  /\ \A a \in 0..(WORD - 1) : a % WORD = a
  /\ \A a \in WORD..(2 * WORD - 1) : a % WORD = a - WORD
  /\ \A a \in (-WORD)..(-1) : a % WORD = a + WORD
<1>1. WORD \in Nat \ {0}
  BY ProcFacts
<1>2. QED
  BY <1>1

\* Every step keeps the types.
LEMMA TypeStep ==
  ASSUME TypeOK, CallInv, [Next]_vars
  PROVE  TypeOK'
<1>1. ASSUME NEW p \in Proc, acquire(p) PROVE TypeOK'
  BY Zenon, ProcFacts, <1>1 DEF TypeOK, Labels, acquire
<1>2. ASSUME NEW p \in Proc, write_fail(p) PROVE TypeOK'
  BY ProcFacts, <1>2 DEF TypeOK, Labels, write_fail, unlock, wakeup
<1>3. ASSUME NEW p \in Proc, write_check(p) PROVE TypeOK'
  BY Zenon, ProcFacts, <1>3 DEF TypeOK, Labels, write_check, checked
<1>4. ASSUME NEW p \in Proc, write_full(p) PROVE TypeOK'
  BY Zenon, ProcFacts, <1>4 DEF TypeOK, Labels, write_full, unlock, wakeup
<1>5. ASSUME NEW p \in Proc, NEW b \in Byte, write_byte(p, b) PROVE TypeOK'
  <2>1. i[p] \in 0..MaxN /\ n[p] \in 0..MaxN /\ i[p] < n[p]
    BY Zenon, <1>5 DEF TypeOK, CallInv, write_byte
  <2>2. i[p] + 1 \in 0..MaxN
    BY <2>1, ProcFacts
  <2>3. i' \in [Proc -> 0..MaxN] /\ pc' \in [Proc -> Labels]
    BY Zenon, <1>5, <2>2 DEF TypeOK, Labels, write_byte
  <2>4. nwrite' \in 0..(WORD - 1)
    BY <1>5, ProcFacts, Wrap DEF TypeOK, write_byte
  <2>5. data' \in [0..(PIPESIZE - 1) -> Byte]
    BY <1>5, Zenon DEF TypeOK, write_byte
  <2>6. QED
    BY Zenon, <1>5, <2>3, <2>4, <2>5 DEF TypeOK, write_byte
<1>6. ASSUME NEW p \in Proc, write_done(p) PROVE TypeOK'
  BY ProcFacts, <1>6 DEF TypeOK, Labels, write_done, unlock, wakeup
<1>7. ASSUME NEW p \in Proc, read_killed(p) PROVE TypeOK'
  BY ProcFacts, <1>7 DEF TypeOK, Labels, read_killed, unlock, wakeup
<1>8. ASSUME NEW p \in Proc, read_check(p) PROVE TypeOK'
  BY Zenon, ProcFacts, <1>8 DEF TypeOK, Labels, read_check, checked
<1>9. ASSUME NEW p \in Proc, read_sleep(p) PROVE TypeOK'
  BY Zenon, ProcFacts, <1>9 DEF TypeOK, Labels, read_sleep, unlock, wakeup
<1>10. ASSUME NEW p \in Proc, read_start(p) PROVE TypeOK'
  BY Zenon, ProcFacts, <1>10 DEF TypeOK, Labels, read_start
<1>11. ASSUME NEW p \in Proc, NEW c \in BOOLEAN, read_byte(p, c) PROVE TypeOK'
  BY ProcFacts, Wrap, <1>11 DEF TypeOK, Labels, CallInv, read_byte
<1>12. ASSUME NEW p \in Proc, read_done(p) PROVE TypeOK'
  BY ProcFacts, <1>12 DEF TypeOK, Labels, read_done, unlock, wakeup
<1>13. ASSUME NEW p \in Proc, pipeclose(p) PROVE TypeOK'
  BY ProcFacts, <1>13, Zenon DEF TypeOK, Labels, pipeclose, wakeup
<1>14. ASSUME NEW p \in Proc, fileclose(p) PROVE TypeOK'
  BY Zenon, ProcFacts, <1>14 DEF TypeOK, Labels, fileclose
<1>15. ASSUME NEW p \in Proc, kill(p) PROVE TypeOK'
  BY Zenon, ProcFacts, <1>15 DEF TypeOK, Labels, kill
<1>16. ASSUME NEW p \in Proc, NEW k \in 1..MaxN, call(p, k) PROVE TypeOK'
  BY ProcFacts, <1>16 DEF TypeOK, Labels, call
<1>17. CASE UNCHANGED vars
  BY Zenon, <1>17 DEF TypeOK, Labels, vars
<1>18. QED
  BY Zenon, <1>1, <1>2, <1>3, <1>4, <1>5, <1>6, <1>7, <1>8, <1>9, <1>10, <1>11, <1>12, <1>13, <1>14,
     <1>15, <1>16, <1>17, Zenon
  DEF Next, Inside, Finished

\* pi->lock is taken by acquire and given up by release and sleep, by the process that has it.
LEMMA LockStep ==
  ASSUME TypeOK, LockInv, [Next]_vars
  PROVE  LockInv'
<1>1. ASSUME NEW p \in Proc, acquire(p) PROVE LockInv'
  BY Zenon, ProcFacts, <1>1 DEF TypeOK, LockInv, Locked, acquire
<1>2. ASSUME NEW p \in Proc, write_fail(p) PROVE LockInv'
  BY Zenon, ProcFacts, <1>2 DEF TypeOK, LockInv, Locked, write_fail, unlock, wakeup
<1>3. ASSUME NEW p \in Proc, write_check(p) PROVE LockInv'
  BY Zenon, ProcFacts, <1>3 DEF TypeOK, LockInv, Locked, write_check, checked
<1>4. ASSUME NEW p \in Proc, write_full(p) PROVE LockInv'
  BY Zenon, ProcFacts, <1>4 DEF TypeOK, LockInv, Locked, write_full, unlock, wakeup
<1>5. ASSUME NEW p \in Proc, NEW b \in Byte, write_byte(p, b) PROVE LockInv'
  BY Zenon, ProcFacts, <1>5 DEF TypeOK, LockInv, Locked, write_byte
<1>6. ASSUME NEW p \in Proc, write_done(p) PROVE LockInv'
  BY Zenon, ProcFacts, <1>6 DEF TypeOK, LockInv, Locked, write_done, unlock, wakeup
<1>7. ASSUME NEW p \in Proc, read_killed(p) PROVE LockInv'
  BY Zenon, ProcFacts, <1>7 DEF TypeOK, LockInv, Locked, read_killed, unlock, wakeup
<1>8. ASSUME NEW p \in Proc, read_check(p) PROVE LockInv'
  BY Zenon, ProcFacts, <1>8 DEF TypeOK, LockInv, Locked, read_check, checked
<1>9. ASSUME NEW p \in Proc, read_sleep(p) PROVE LockInv'
  BY Zenon, ProcFacts, <1>9 DEF TypeOK, LockInv, Locked, read_sleep, unlock, wakeup
<1>10. ASSUME NEW p \in Proc, read_start(p) PROVE LockInv'
  BY Zenon, ProcFacts, <1>10 DEF TypeOK, LockInv, Locked, read_start
<1>11. ASSUME NEW p \in Proc, NEW c \in BOOLEAN, read_byte(p, c) PROVE LockInv'
  BY Zenon, ProcFacts, <1>11 DEF TypeOK, LockInv, Locked, read_byte
<1>12. ASSUME NEW p \in Proc, read_done(p) PROVE LockInv'
  BY Zenon, ProcFacts, <1>12 DEF TypeOK, LockInv, Locked, read_done, unlock, wakeup
<1>13. ASSUME NEW p \in Proc, pipeclose(p) PROVE LockInv'
  BY Zenon, ProcFacts, <1>13 DEF TypeOK, LockInv, Locked, pipeclose, wakeup
<1>14. ASSUME NEW p \in Proc, fileclose(p) PROVE LockInv'
  BY Zenon, ProcFacts, <1>14 DEF TypeOK, LockInv, Locked, fileclose
<1>15. ASSUME NEW p \in Proc, kill(p) PROVE LockInv'
  BY Zenon, ProcFacts, <1>15 DEF TypeOK, LockInv, Locked, kill
<1>16. ASSUME NEW p \in Proc, NEW k \in 1..MaxN, call(p, k) PROVE LockInv'
  BY Zenon, ProcFacts, <1>16 DEF TypeOK, LockInv, Locked, call
<1>17. CASE UNCHANGED vars
  BY Zenon, <1>17 DEF TypeOK, LockInv, Locked, vars
<1>18. QED
  BY Zenon, <1>1, <1>2, <1>3, <1>4, <1>5, <1>6, <1>7, <1>8, <1>9, <1>10, <1>11, <1>12, <1>13, <1>14,
     <1>15, <1>16, <1>17, Zenon
  DEF Next, Inside, Finished

\* Nobody changes what a process has found out while it has pi->lock.
LEMMA CallStep ==
  ASSUME TypeOK, LockInv, CallInv, [Next]_vars
  PROVE  CallInv'
<1>1. ASSUME NEW p \in Proc, acquire(p) PROVE CallInv'
  BY Zenon, ProcFacts, <1>1 DEF TypeOK, LockInv, Locked, CallInv, Empty, acquire
<1>2. ASSUME NEW p \in Proc, write_fail(p) PROVE CallInv'
  BY ProcFacts, <1>2 DEF TypeOK, LockInv, Locked, CallInv, Empty, write_fail, unlock, wakeup
<1>3. ASSUME NEW p \in Proc, write_check(p) PROVE CallInv'
  BY ZenonT(30), ProcFacts, <1>3 DEF TypeOK, LockInv, Locked, CallInv, Empty, write_check, checked
<1>4. ASSUME NEW p \in Proc, write_full(p) PROVE CallInv'
  BY ZenonT(30), ProcFacts, <1>4 DEF TypeOK, LockInv, Locked, CallInv, Empty, write_full, unlock, wakeup
<1>5. ASSUME NEW p \in Proc, NEW b \in Byte, write_byte(p, b) PROVE CallInv'
  BY ProcFacts, <1>5 DEF TypeOK, LockInv, Locked, CallInv, Empty, write_byte
<1>6. ASSUME NEW p \in Proc, write_done(p) PROVE CallInv'
  BY ProcFacts, <1>6 DEF TypeOK, LockInv, Locked, CallInv, Empty, write_done, unlock, wakeup
<1>7. ASSUME NEW p \in Proc, read_killed(p) PROVE CallInv'
  BY ProcFacts, <1>7 DEF TypeOK, LockInv, Locked, CallInv, Empty, read_killed, unlock, wakeup
<1>8. ASSUME NEW p \in Proc, read_check(p) PROVE CallInv'
  BY Zenon, ProcFacts, <1>8 DEF TypeOK, LockInv, Locked, CallInv, Empty, read_check, checked
<1>9. ASSUME NEW p \in Proc, read_sleep(p) PROVE CallInv'
  BY Zenon, ProcFacts, <1>9 DEF TypeOK, LockInv, Locked, CallInv, Empty, read_sleep, unlock, wakeup
<1>10. ASSUME NEW p \in Proc, read_start(p) PROVE CallInv'
  BY Zenon, ProcFacts, <1>10 DEF TypeOK, LockInv, Locked, CallInv, Empty, read_start
<1>11. ASSUME NEW p \in Proc, NEW c \in BOOLEAN, read_byte(p, c) PROVE CallInv'
  BY ProcFacts, <1>11 DEF TypeOK, LockInv, Locked, CallInv, Empty, read_byte
<1>12. ASSUME NEW p \in Proc, read_done(p) PROVE CallInv'
  BY ProcFacts, <1>12 DEF TypeOK, LockInv, Locked, CallInv, Empty, read_done, unlock, wakeup
<1>13. ASSUME NEW p \in Proc, pipeclose(p) PROVE CallInv'
  BY Zenon, ProcFacts, <1>13 DEF TypeOK, LockInv, Locked, CallInv, Empty, pipeclose, wakeup
<1>14. ASSUME NEW p \in Proc, fileclose(p) PROVE CallInv'
  BY Zenon, ProcFacts, <1>14 DEF TypeOK, LockInv, Locked, CallInv, Empty, fileclose
<1>15. ASSUME NEW p \in Proc, kill(p) PROVE CallInv'
  BY Zenon, ProcFacts, <1>15 DEF TypeOK, LockInv, Locked, CallInv, Empty, kill
<1>16. ASSUME NEW p \in Proc, NEW k \in 1..MaxN, call(p, k) PROVE CallInv'
  BY ProcFacts, <1>16 DEF TypeOK, LockInv, Locked, CallInv, Empty, call
<1>17. CASE UNCHANGED vars
  BY Zenon, <1>17 DEF TypeOK, LockInv, Locked, CallInv, Empty, vars
<1>18. QED
  BY Zenon, <1>1, <1>2, <1>3, <1>4, <1>5, <1>6, <1>7, <1>8, <1>9, <1>10, <1>11, <1>12, <1>13, <1>14,
     <1>15, <1>16, <1>17, Zenon
  DEF Next, Inside, Finished

\* fileclose and pipeclose close an end after its last user.
LEMMA EndStep ==
  ASSUME TypeOK, CallInv, EndInv, [Next]_vars
  PROVE  EndInv'
<1>1. ASSUME NEW p \in Proc, acquire(p) PROVE EndInv'
  BY ProcFacts, <1>1 DEF TypeOK, EndInv, InCall, Locked, acquire
<1>2. ASSUME NEW p \in Proc, write_fail(p) PROVE EndInv'
  BY ZenonT(30), ProcFacts, <1>2 DEF TypeOK, EndInv, InCall, Locked, write_fail, unlock, wakeup
<1>3. ASSUME NEW p \in Proc, write_check(p) PROVE EndInv'
  BY ZenonT(30), ProcFacts, <1>3 DEF TypeOK, EndInv, InCall, Locked, write_check, checked
<1>4. ASSUME NEW p \in Proc, write_full(p) PROVE EndInv'
  BY ProcFacts, <1>4, Zenon DEF TypeOK, EndInv, InCall, Locked, write_full, unlock, wakeup
<1>5. ASSUME NEW p \in Proc, NEW b \in Byte, write_byte(p, b) PROVE EndInv'
  BY ZenonT(30), ProcFacts, <1>5 DEF TypeOK, EndInv, InCall, Locked, write_byte
<1>6. ASSUME NEW p \in Proc, write_done(p) PROVE EndInv'
  BY Zenon, ProcFacts, <1>6 DEF TypeOK, EndInv, InCall, Locked, write_done, unlock, wakeup
<1>7. ASSUME NEW p \in Proc, read_killed(p) PROVE EndInv'
  BY Zenon, ProcFacts, <1>7 DEF TypeOK, EndInv, InCall, Locked, read_killed, unlock, wakeup
<1>8. ASSUME NEW p \in Proc, read_check(p) PROVE EndInv'
  BY Zenon, ProcFacts, <1>8 DEF TypeOK, EndInv, InCall, Locked, read_check, checked
<1>9. ASSUME NEW p \in Proc, read_sleep(p) PROVE EndInv'
  BY Zenon, ProcFacts, <1>9 DEF TypeOK, EndInv, InCall, Locked, read_sleep, unlock, wakeup
<1>10. ASSUME NEW p \in Proc, read_start(p) PROVE EndInv'
  BY ZenonT(30), ProcFacts, <1>10 DEF TypeOK, EndInv, InCall, Locked, read_start
<1>11. ASSUME NEW p \in Proc, NEW c \in BOOLEAN, read_byte(p, c) PROVE EndInv'
  BY ProcFacts, <1>11 DEF TypeOK, EndInv, InCall, Locked, read_byte
<1>12. ASSUME NEW p \in Proc, read_done(p) PROVE EndInv'
  BY Zenon, ProcFacts, <1>12 DEF TypeOK, EndInv, InCall, Locked, read_done, unlock, wakeup
<1>13. ASSUME NEW p \in Proc, pipeclose(p) PROVE EndInv'
  BY Zenon, ProcFacts, <1>13 DEF TypeOK, EndInv, InCall, Locked, pipeclose, wakeup
<1>14. ASSUME NEW p \in Proc, fileclose(p) PROVE EndInv'
  BY ProcFacts, <1>14 DEF TypeOK, EndInv, InCall, Locked, fileclose
<1>15. ASSUME NEW p \in Proc, kill(p) PROVE EndInv'
  BY ProcFacts, <1>15 DEF TypeOK, EndInv, InCall, Locked, kill
<1>16. ASSUME NEW p \in Proc, NEW k \in 1..MaxN, call(p, k) PROVE EndInv'
  BY ZenonT(30), ProcFacts, <1>16 DEF TypeOK, EndInv, InCall, Locked, call
<1>17. CASE UNCHANGED vars
  BY Zenon, <1>17 DEF TypeOK, EndInv, InCall, Locked, vars
<1>18. QED
  BY Zenon, <1>1, <1>2, <1>3, <1>4, <1>5, <1>6, <1>7, <1>8, <1>9, <1>10, <1>11, <1>12, <1>13, <1>14,
     <1>15, <1>16, <1>17, Zenon
  DEF Next, Inside, Finished


\* The ring is full, or empty, when it holds PIPESIZE, or no, bytes.
LEMMA CountIs ==
  ASSUME TypeOK
  PROVE  /\ Count = IF nwrite >= nread THEN nwrite - nread ELSE nwrite - nread + WORD
         /\ Count \in 0..(WORD - 1)
         /\ Full <=> Count = PIPESIZE
         /\ Empty <=> Count = 0
<1>1. nread \in 0..(WORD - 1) /\ nwrite \in 0..(WORD - 1)
  BY Zenon DEF TypeOK
<1>2. Count = IF nwrite >= nread THEN nwrite - nread ELSE nwrite - nread + WORD
  BY <1>1, ProcFacts, Wrap DEF Count
<1>3. (nread + PIPESIZE) % WORD = IF nread + PIPESIZE < WORD THEN nread + PIPESIZE ELSE nread + PIPESIZE - WORD
  BY <1>1, ProcFacts, Wrap
<1>4. QED
  BY <1>1, <1>2, <1>3, ProcFacts DEF Full, Empty

\* Only write_byte and read_byte move the counters, by one byte, also across their wrap-around.
LEMMA CountMoves ==
  ASSUME TypeOK, TypeOK', NEW p \in Proc
  PROVE  /\ UNCHANGED <<nread, nwrite>> => Count' = Count
         /\ \A b \in Byte : write_byte(p, b) /\ Count < WORD - 1 => Count' = Count + 1
         /\ \A c \in BOOLEAN : read_byte(p, c) => Count > 0 /\ Count' = Count - 1
<1> DEFINE C == IF nwrite >= nread THEN nwrite - nread ELSE nwrite - nread + WORD
<1>1. nread \in 0..(WORD - 1) /\ nwrite \in 0..(WORD - 1) /\ Count = C
  BY Zenon, CountIs DEF TypeOK
<1>2. nread' \in 0..(WORD - 1) /\ nwrite' \in 0..(WORD - 1)
  BY Zenon DEF TypeOK
<1>3. Count' = (nwrite' - nread') % WORD
  BY Zenon DEF Count
<1>4. Count' = IF nwrite' >= nread' THEN nwrite' - nread' ELSE nwrite' - nread' + WORD
  BY <1>2, <1>3, ProcFacts, Wrap
<1>5. ASSUME NEW b \in Byte, write_byte(p, b), Count < WORD - 1 PROVE Count' = Count + 1
  <2>1. nread' = nread /\ nwrite' = IF nwrite = WORD - 1 THEN 0 ELSE nwrite + 1
    BY <1>1, <1>5, ProcFacts, Wrap DEF write_byte
  <2>2. QED
    BY <1>1, <1>4, <1>5, <2>1, ProcFacts
<1>6. ASSUME NEW c \in BOOLEAN, read_byte(p, c) PROVE Count > 0 /\ Count' = Count - 1
  <2>1. nwrite' = nwrite /\ nread # nwrite /\ nread' = IF nread = WORD - 1 THEN 0 ELSE nread + 1
    BY <1>1, <1>6, ProcFacts, Wrap DEF read_byte, Empty
  <2>2. QED
    BY <1>1, <1>4, <2>1, ProcFacts
<1>7. QED
  BY Zenon, <1>1, <1>4, <1>5, <1>6

\* A byte is written only where there is room (pipewrite).
LEMMA RoomStep ==
  ASSUME TypeOK, TypeOK', Room, [Next]_vars
  PROVE  Room'
<1>1. ASSUME NEW p \in Proc, acquire(p) PROVE Room'
  BY Zenon, CountMoves, <1>1 DEF Room, acquire
<1>2. ASSUME NEW p \in Proc, write_fail(p) PROVE Room'
  BY Zenon, CountMoves, <1>2 DEF Room, write_fail, unlock, wakeup
<1>3. ASSUME NEW p \in Proc, write_check(p) PROVE Room'
  BY Zenon, CountMoves, <1>3 DEF Room, write_check, checked
<1>4. ASSUME NEW p \in Proc, write_full(p) PROVE Room'
  BY Zenon, CountMoves, <1>4 DEF Room, write_full, unlock, wakeup
<1>5. ASSUME NEW p \in Proc, NEW b \in Byte, write_byte(p, b) PROVE Room'
  <2>1. Count \in 0..(WORD - 1) /\ Count # PIPESIZE /\ Count < PIPESIZE /\ Count < WORD - 1
    BY <1>5, CountIs, ProcFacts DEF write_byte, Room
  <2>2. QED
    BY <1>5, <2>1, CountMoves, ProcFacts DEF Room
<1>6. ASSUME NEW p \in Proc, write_done(p) PROVE Room'
  BY Zenon, CountMoves, <1>6 DEF Room, write_done, unlock, wakeup
<1>7. ASSUME NEW p \in Proc, read_killed(p) PROVE Room'
  BY Zenon, CountMoves, <1>7 DEF Room, read_killed, unlock, wakeup
<1>8. ASSUME NEW p \in Proc, read_check(p) PROVE Room'
  BY Zenon, CountMoves, <1>8 DEF Room, read_check, checked
<1>9. ASSUME NEW p \in Proc, read_sleep(p) PROVE Room'
  BY Zenon, CountMoves, <1>9 DEF Room, read_sleep, unlock, wakeup
<1>10. ASSUME NEW p \in Proc, read_start(p) PROVE Room'
  BY Zenon, CountMoves, <1>10 DEF Room, read_start
<1>11. ASSUME NEW p \in Proc, NEW c \in BOOLEAN, read_byte(p, c) PROVE Room'
  <2>1. Count \in 0..(WORD - 1) /\ Count' = Count - 1
    BY Zenon, <1>11, CountIs, CountMoves
  <2>2. QED
    BY <2>1, ProcFacts DEF Room
<1>12. ASSUME NEW p \in Proc, read_done(p) PROVE Room'
  BY Zenon, CountMoves, <1>12 DEF Room, read_done, unlock, wakeup
<1>13. ASSUME NEW p \in Proc, pipeclose(p) PROVE Room'
  BY Zenon, CountMoves, <1>13 DEF Room, pipeclose, wakeup
<1>14. ASSUME NEW p \in Proc, fileclose(p) PROVE Room'
  BY Zenon, CountMoves, <1>14 DEF Room, fileclose
<1>15. ASSUME NEW p \in Proc, kill(p) PROVE Room'
  BY Zenon, CountMoves, <1>15 DEF Room, kill
<1>16. ASSUME NEW p \in Proc, NEW k \in 1..MaxN, call(p, k) PROVE Room'
  BY Zenon, CountMoves, <1>16 DEF Room, call
<1>17. CASE UNCHANGED vars
  BY Zenon, <1>17 DEF Room, Count, vars
<1>18. QED
  BY Zenon, <1>1, <1>2, <1>3, <1>4, <1>5, <1>6, <1>7, <1>8, <1>9, <1>10, <1>11, <1>12, <1>13, <1>14,
     <1>15, <1>16, <1>17, Zenon
  DEF Next, Inside, Finished

\* Who makes a sleeper's reason go away wakes it before pi->lock is free.
LEMMA WaitStep ==
  ASSUME TypeOK, LockInv, CallInv, EndInv, WaitInv, [Next]_vars
  PROVE  WaitInv'
<1>1. ASSUME NEW p \in Proc, acquire(p) PROVE WaitInv'
  BY Zenon, ProcFacts, <1>1 DEF TypeOK, WaitInv, LockInv, Locked, Empty, Full, acquire
<1>2. ASSUME NEW p \in Proc, write_fail(p) PROVE WaitInv'
  BY ProcFacts, <1>2
  DEF TypeOK, WaitInv, LockInv, Locked, Empty, Full, EndInv, InCall, CallInv, write_fail,
      unlock, wakeup
<1>3. ASSUME NEW p \in Proc, write_check(p) PROVE WaitInv'
  BY Zenon, ProcFacts, <1>3 DEF TypeOK, WaitInv, LockInv, Locked, Empty, Full, write_check, checked
<1>4. ASSUME NEW p \in Proc, write_full(p) PROVE WaitInv'
  BY Zenon, ProcFacts, <1>4
  DEF TypeOK, WaitInv, LockInv, Locked, Empty, Full, CallInv, write_full, unlock, wakeup
<1>5. ASSUME NEW p \in Proc, NEW b \in Byte, write_byte(p, b) PROVE WaitInv'
  BY Zenon, ProcFacts, <1>5 DEF TypeOK, WaitInv, LockInv, Locked, Empty, Full, write_byte
<1>6. ASSUME NEW p \in Proc, write_done(p) PROVE WaitInv'
  BY Zenon, ProcFacts, <1>6
  DEF TypeOK, WaitInv, LockInv, Locked, Empty, Full, write_done, unlock, wakeup
<1>7. ASSUME NEW p \in Proc, read_killed(p) PROVE WaitInv'
  BY Zenon, ProcFacts, <1>7
  DEF TypeOK, WaitInv, LockInv, Locked, Empty, Full, read_killed, unlock, wakeup
<1>8. ASSUME NEW p \in Proc, read_check(p) PROVE WaitInv'
  BY Zenon, ProcFacts, <1>8 DEF TypeOK, WaitInv, LockInv, Locked, Empty, Full, read_check, checked
<1>9. ASSUME NEW p \in Proc, read_sleep(p) PROVE WaitInv'
  BY ProcFacts, <1>9, Zenon
  DEF TypeOK, WaitInv, LockInv, Locked, Empty, Full, CallInv, read_sleep, unlock, wakeup
<1>10. ASSUME NEW p \in Proc, read_start(p) PROVE WaitInv'
  BY ZenonT(30), ProcFacts, <1>10 DEF TypeOK, WaitInv, LockInv, Locked, Empty, Full, read_start
<1>11. ASSUME NEW p \in Proc, NEW c \in BOOLEAN, read_byte(p, c) PROVE WaitInv'
  <2>1. /\ p \in Reader /\ lock = p /\ lock' = p /\ ~Empty
        /\ pc[p] = "copy" /\ pc'[p] \in {"copy", "copied"}
        /\ \A q \in Proc : q # p => pc'[q] = pc[q]
        /\ UNCHANGED <<readopen, writeopen, killed>>
    BY Zenon, <1>11 DEF TypeOK, LockInv, Locked, CallInv, read_byte
  <2> SUFFICES ASSUME NEW q \in Proc, pc'[q] \in {"sleep_nwrite", "sleep_nread"}
               PROVE  /\ pc'[q] = "sleep_nwrite" => readopen
                      /\ pc'[q] = "sleep_nread" => writeopen /\ \E w \in Writer : killed[w]
    BY Zenon, <2>1 DEF WaitInv
  <2>2. q # p /\ pc[q] = pc'[q]
    BY Zenon, <2>1
  <2>3. ~\E w \in Writer : lock = w
    BY Zenon, <2>1, ProcFacts
  <2>4. QED
    BY Zenon, <2>1, <2>2, <2>3 DEF WaitInv
<1>12. ASSUME NEW p \in Proc, read_done(p) PROVE WaitInv'
  BY ProcFacts, <1>12, Zenon
  DEF TypeOK, WaitInv, LockInv, Locked, Empty, Full, read_done, unlock, wakeup
<1>13. ASSUME NEW p \in Proc, pipeclose(p) PROVE WaitInv'
  BY Zenon, ProcFacts, <1>13 DEF TypeOK, WaitInv, LockInv, Locked, Empty, Full, pipeclose, wakeup
<1>14. ASSUME NEW p \in Proc, fileclose(p) PROVE WaitInv'
  BY Zenon, ProcFacts, <1>14 DEF TypeOK, WaitInv, LockInv, Locked, Empty, Full, fileclose
<1>15. ASSUME NEW p \in Proc, kill(p) PROVE WaitInv'
  BY Zenon, ProcFacts, <1>15 DEF TypeOK, WaitInv, LockInv, Locked, Empty, Full, kill
<1>16. ASSUME NEW p \in Proc, NEW k \in 1..MaxN, call(p, k) PROVE WaitInv'
  BY Zenon, ProcFacts, <1>16 DEF TypeOK, WaitInv, LockInv, Locked, Empty, Full, call
<1>17. CASE UNCHANGED vars
  BY Zenon, <1>17 DEF TypeOK, WaitInv, LockInv, Locked, Empty, Full, vars
<1>18. QED
  BY Zenon, <1>1, <1>2, <1>3, <1>4, <1>5, <1>6, <1>7, <1>8, <1>9, <1>10, <1>11, <1>12, <1>13, <1>14,
     <1>15, <1>16, <1>17, Zenon
  DEF Next, Inside, Finished


\* PipeInv holds after pipealloc.
LEMMA InitInv == Init => PipeInv
<1> SUFFICES ASSUME Init PROVE PipeInv
  OBVIOUS
<1>1. TypeOK
  <2>1. (CHOOSE b \in Byte : TRUE) \in Byte
    BY Zenon, ProcFacts
  <2>2. data \in [0..(PIPESIZE - 1) -> Byte]
    BY Zenon, <2>1 DEF Init
  <2>3. 0 \in 0..(WORD - 1) /\ 0 \in 0..MaxN
    BY ProcFacts
  <2>4. QED
    BY <2>2, <2>3, Zenon DEF Init, TypeOK, Labels
<1>2. LockInv /\ CallInv /\ EndInv /\ WaitInv
  BY ProcFacts DEF Init, LockInv, Locked, CallInv, EndInv, InCall, WaitInv
<1>3. Room
  BY <1>1, CountIs, ProcFacts DEF Init, Room
<1>4. QED
  BY Zenon, <1>1, <1>2, <1>3 DEF PipeInv

\* Every step preserves PipeInv.
LEMMA StepInv == PipeInv /\ [Next]_vars => PipeInv'
BY Zenon, TypeStep, LockStep, CallStep, EndStep, RoomStep, WaitStep DEF PipeInv

\* For any number of readers and writers, any ring and any counters, the pipe satisfies PipeInv.
THEOREM Invariance == Spec => []PipeInv
BY InitInv, StepInv, PTL DEF Spec

(***************************************************************************)
(* No writer sleeps on a pipe with room or without a reader, and no reader *)
(* on one with data or without a writer unless a writer was killed; nobody *)
(* uses the page after pipeclose has freed it (pipewrite, piperead,        *)
(* pipeclose).                                                             *)
(***************************************************************************)
THEOREM Waits == Spec => []PipeWaits
<1>1. PipeInv => PipeWaits
  <2> SUFFICES ASSUME PipeInv PROVE PipeWaits
    OBVIOUS
  <2>1. NoUseAfterFree
    <3> SUFFICES ASSUME freed PROVE ref = {} /\ lock = NoProc /\ \A p \in Proc : pc[p] = "user"
      BY Zenon DEF NoUseAfterFree
    <3>1. ~readopen /\ ~writeopen
      BY Zenon DEF PipeInv, EndInv
    <3>2. ref = {}
      BY Zenon, <3>1, ProcFacts DEF PipeInv, TypeOK, EndInv
    <3>3. \A p \in Proc : pc[p] = "user"
      BY Zenon, <3>1, <3>2, ProcFacts DEF PipeInv, TypeOK, Labels, EndInv, InCall, Locked
    <3>4. QED
      BY <3>2, <3>3, Zenon DEF PipeInv, TypeOK, LockInv, Locked
  <2>2. WriterSleepsOnFull
    BY Zenon, ProcFacts DEF PipeInv, WaitInv, WriterSleepsOnFull
  <2>3. ReaderSleepsOnEmpty \/ \E w \in Writer : killed[w]
    BY Zenon, ProcFacts DEF PipeInv, WaitInv, ReaderSleepsOnEmpty
  <2>4. QED
    BY Zenon, <2>1, <2>2, <2>3 DEF PipeInv, PipeWaits
<1>2. QED
  BY <1>1, Invariance, PTL
-------------------------------------------------------------------------------
(***************************************************************************)
(* The refinement.  The queue is read off the ring, from nread on.         *)
(***************************************************************************)
\* Division with remainder.
LEMMA DivMod ==
  ASSUME NEW d \in Nat \ {0}, NEW a \in Int
  PROVE  a \div d \in Int /\ a % d \in 0..(d - 1) /\ d * (a \div d) = a - (a % d)
OBVIOUS

\* A multiple of d is zero, or d away from it.
LEMMA Multiples ==
  ASSUME NEW d \in Nat \ {0}, NEW m \in Int
  PROVE  /\ m <= 0 => m * d <= 0
         /\ m >= 1 => m * d >= d
OBVIOUS

\* The remainder is unique.
LEMMA Remainder ==
  ASSUME NEW d \in Nat \ {0}, NEW m \in Int, NEW k \in Int,
         NEW r \in 0..(d - 1), NEW t \in 0..(d - 1), d * m + r = d * k + t
  PROVE  r = t
<1>1. m - k \in Int /\ (m - k) * d = t - r /\ k - m \in Int /\ (k - m) * d = r - t
  OBVIOUS
<1>2. (m - k <= 0 => (m - k) * d <= 0) /\ (m - k >= 1 => (m - k) * d >= d)
  BY Zenon, <1>1, Multiples
<1>3. (k - m <= 0 => (k - m) * d <= 0) /\ (k - m >= 1 => (k - m) * d >= d)
  BY Zenon, <1>1, Multiples
<1>4. QED
  BY <1>1, <1>2, <1>3

\* Less than PIPESIZE bytes apart, two bytes are in different places of the ring.
LEMMA PlacesDiffer ==
  ASSUME NEW a \in Int, NEW d \in 1..(PIPESIZE - 1)
  PROVE  a % PIPESIZE # (a + d) % PIPESIZE
<1> SUFFICES ASSUME a % PIPESIZE = (a + d) % PIPESIZE PROVE FALSE
  OBVIOUS
<1> DEFINE m == a \div PIPESIZE
           k == (a + d) \div PIPESIZE
<1>0. PIPESIZE \in Nat \ {0} /\ d \in Int /\ a + d \in Int
  BY ProcFacts
<1>1. m \in Int /\ PIPESIZE * m = a - (a % PIPESIZE) /\ a % PIPESIZE \in 0..(PIPESIZE - 1)
  BY <1>0, DivMod, Zenon
<1>2. k \in Int /\ PIPESIZE * k = (a + d) - ((a + d) % PIPESIZE)
  BY <1>0, DivMod, Zenon
<1> HIDE DEF m, k
<1>3. k - m \in Int /\ (k - m) * PIPESIZE = d
  BY <1>0, <1>1, <1>2
<1>4. QED
  BY <1>0, <1>3, Multiples

\* The counters wrap around at a multiple of PIPESIZE: no place is skipped.
LEMMA PlaceWraps ==
  ASSUME NEW a \in Int
  PROVE  (a + WORD) % PIPESIZE = a % PIPESIZE
<1> DEFINE m == a \div PIPESIZE
           r == a % PIPESIZE
           k == (a + WORD) \div PIPESIZE
           t == (a + WORD) % PIPESIZE
           w == WORD \div PIPESIZE
<1>0. PIPESIZE \in Nat \ {0} /\ WORD \in Int /\ a + WORD \in Int /\ WORD % PIPESIZE = 0
  BY PipeAssumption
<1>1. m \in Int /\ PIPESIZE * m = a - r /\ r \in 0..(PIPESIZE - 1)
  BY <1>0, DivMod, Zenon
<1>2. k \in Int /\ PIPESIZE * k = (a + WORD) - t /\ t \in 0..(PIPESIZE - 1)
  BY <1>0, DivMod, Zenon
<1>3. w \in Int /\ PIPESIZE * w = WORD
  BY <1>0, DivMod
<1> HIDE DEF m, r, k, t, w
<1>4. m + w \in Int /\ PIPESIZE * (m + w) = (a + WORD) - r
  BY <1>0, <1>1, <1>3
<1>5. PIPESIZE * (m + w) + r = PIPESIZE * k + t
  BY <1>0, <1>1, <1>2, <1>4
<1>6. r = t
  BY <1>0, <1>1, <1>2, <1>4, <1>5, Remainder, Zenon
<1>7. QED
  BY Zenon, <1>6 DEF r, t

QueueFact == TypeOK =>
  /\ Queue \in Seq(Byte) /\ Len(Queue) = Count
  /\ \A k \in 1..Count : Queue[k] = data[(nread + k - 1) % PIPESIZE]

\* The queue is a sequence of Count bytes (pipewrite, piperead).
LEMMA QueueIs == QueueFact
<1> SUFFICES ASSUME TypeOK
             PROVE  /\ Queue \in Seq(Byte) /\ Len(Queue) = Count
                    /\ \A k \in 1..Count : Queue[k] = data[(nread + k - 1) % PIPESIZE]
  BY Zenon DEF QueueFact
<1>1. Count \in Nat /\ nread \in Int /\ PIPESIZE \in Nat \ {0}
  BY CountIs, ProcFacts DEF TypeOK
<1>2. \A k \in 1..Count : data[(nread + k - 1) % PIPESIZE] \in Byte
  <2> SUFFICES ASSUME NEW k \in 1..Count PROVE data[(nread + k - 1) % PIPESIZE] \in Byte
    OBVIOUS
  <2>1. nread + k - 1 \in Int
    BY <1>1
  <2>2. (nread + k - 1) % PIPESIZE \in 0..(PIPESIZE - 1)
    BY Zenon, <1>1, <2>1, DivMod
  <2>3. QED
    BY Zenon, <2>2 DEF TypeOK
<1>3. QED
  BY <1>1, <1>2 DEF Queue

\* The same after a step.
LEMMA QueueNext == QueueFact'
BY QueueIs, PTL

\* A step that moves neither counter and writes no byte leaves the queue alone.
LEMMA QueueSame ==
  ASSUME UNCHANGED ring
  PROVE  Queue' = Queue
BY Zenon DEF Queue, Count

\* write_byte appends to the queue: the byte's place is free, and the last one.
LEMMA PutsLast ==
  ASSUME PipeInv, PipeInv', NEW p \in Proc, NEW b \in Byte, write_byte(p, b)
  PROVE  Count < PIPESIZE /\ Queue' = Append(Queue, b)
<1>1. /\ nread \in 0..(WORD - 1) /\ nwrite \in 0..(WORD - 1)
      /\ Count \in 0..(WORD - 1) /\ Count < PIPESIZE
      /\ PIPESIZE \in Nat \ {0} /\ WORD \in Nat /\ PIPESIZE < WORD
  <2>1. nread \in 0..(WORD - 1) /\ nwrite \in 0..(WORD - 1)
    BY Zenon DEF PipeInv, TypeOK
  <2>2. Count \in 0..(WORD - 1) /\ Count # PIPESIZE /\ Count <= PIPESIZE
    BY Zenon, CountIs DEF PipeInv, Room, write_byte
  <2>3. QED
    BY <2>1, <2>2, ProcFacts
<1>2. Count' = Count + 1 /\ nread' = nread
  <2>1. Count < WORD - 1 /\ TypeOK /\ TypeOK'
    BY <1>1 DEF PipeInv
  <2>2. QED
    BY <2>1, CountMoves, Zenon DEF write_byte
<1>3. nwrite % PIPESIZE \in 0..(PIPESIZE - 1)
  BY <1>1, DivMod
<1>4. /\ data'[nwrite % PIPESIZE] = b
      /\ \A j \in 0..(PIPESIZE - 1) : j # nwrite % PIPESIZE => data'[j] = data[j]
  BY Zenon, <1>3 DEF PipeInv, TypeOK, write_byte
<1>5. (nread + Count) % PIPESIZE = nwrite % PIPESIZE
  <2>1. CASE nwrite >= nread
    <3>1. nread + Count = nwrite
      BY <1>1, <2>1, CountIs DEF PipeInv
    <3>2. QED
      BY Zenon, <3>1
  <2>2. CASE ~(nwrite >= nread)
    <3>1. nread + Count = nwrite + WORD /\ nwrite \in Int
      BY <1>1, <2>2, CountIs DEF PipeInv
    <3>2. (nwrite + WORD) % PIPESIZE = nwrite % PIPESIZE
      BY <3>1, PlaceWraps, Zenon
    <3>3. QED
      BY Zenon, <3>1, <3>2
  <2>3. QED
    BY Zenon, <2>1, <2>2
<1>6. ASSUME NEW k \in 1..Count PROVE Queue'[k] = Queue[k]
  <2>1. nread + k - 1 \in Int /\ (nread + k - 1) + (Count - k + 1) = nread + Count
    BY <1>1
  <2>3. Count - k + 1 \in 1..(PIPESIZE - 1)
    BY <1>1
  <2>4. (nread + k - 1) % PIPESIZE # (nread + Count) % PIPESIZE
    BY Zenon, <2>1, <2>3, PlacesDiffer
  <2>5. (nread + k - 1) % PIPESIZE \in 0..(PIPESIZE - 1)
    BY Zenon, <1>1, <2>1, DivMod
  <2>6. k \in 1..Count'
    BY <1>1, <1>2
  <2>7. Queue[k] = data[(nread + k - 1) % PIPESIZE]
    BY Zenon, QueueIs DEF PipeInv, QueueFact
  <2>8. Queue'[k] = data'[(nread' + k - 1) % PIPESIZE]
    BY Zenon, <2>6, QueueNext DEF PipeInv, QueueFact
  <2>9. QED
    BY Zenon, <1>2, <1>4, <1>5, <2>4, <2>5, <2>7, <2>8
<1>7. Queue'[Count + 1] = b
  <2>1. Count + 1 \in 1..Count' /\ nread + (Count + 1) - 1 = nread + Count
    BY <1>1, <1>2
  <2>2. Queue'[Count + 1] = data'[(nread' + (Count + 1) - 1) % PIPESIZE]
    BY Zenon, <2>1, QueueNext DEF PipeInv, QueueFact
  <2>3. QED
    BY Zenon, <1>2, <1>4, <1>5, <2>1, <2>2
<1>8. Queue \in Seq(Byte) /\ Len(Queue) = Count /\ Queue' \in Seq(Byte) /\ Len(Queue') = Count + 1
  BY Zenon, <1>2, QueueIs, QueueNext DEF PipeInv, QueueFact
<1> DEFINE A == Append(Queue, b)
<1>9. /\ A \in Seq(Byte) /\ Len(A) = Count + 1
      /\ \A k \in 1..Count : A[k] = Queue[k]
      /\ A[Count + 1] = b
  BY <1>8, AppendProperties
<1>10. \A k \in 1..Len(Queue') : Queue'[k] = A[k]
  BY <1>1, <1>6, <1>7, <1>8, <1>9
<1> HIDE DEF A
<1>11. Queue' = A
  BY Zenon, <1>8, <1>9, <1>10, SeqEqual
<1>12. QED
  BY Zenon, <1>1, <1>11 DEF A

\* read_byte takes the first byte off the queue.
LEMMA GetsFirst ==
  ASSUME PipeInv, PipeInv', NEW p \in Proc, NEW c \in BOOLEAN, read_byte(p, c)
  PROVE  Queue # <<>> /\ Queue' = Tail(Queue)
<1>1. /\ nread \in 0..(WORD - 1) /\ Count \in 0..(WORD - 1)
      /\ PIPESIZE \in Nat \ {0} /\ WORD \in Nat \ {0}
  BY CountIs, ProcFacts DEF PipeInv, TypeOK
<1>2. Count > 0 /\ Count' = Count - 1
  BY Zenon, CountMoves DEF PipeInv
<1>3. data' = data /\ nread' = IF nread = WORD - 1 THEN 0 ELSE nread + 1
  BY <1>1, Wrap DEF read_byte
<1>4. Queue \in Seq(Byte) /\ Len(Queue) = Count /\ Queue' \in Seq(Byte) /\ Len(Queue') = Count - 1
  BY Zenon, <1>2, QueueIs, QueueNext DEF PipeInv, QueueFact
<1>5. ASSUME NEW k \in 1..(Count - 1) PROVE Queue'[k] = Queue[k + 1]
  <2>1. k \in 1..Count' /\ k + 1 \in 1..Count /\ nread + (k + 1) - 1 = nread + k /\ k - 1 \in Int
    BY <1>1, <1>2
  <2>2. Queue[k + 1] = data[(nread + (k + 1) - 1) % PIPESIZE]
    BY Zenon, <2>1, QueueIs DEF PipeInv, QueueFact
  <2>3. Queue'[k] = data'[(nread' + k - 1) % PIPESIZE]
    BY Zenon, <2>1, QueueNext DEF PipeInv, QueueFact
  <2>4. (nread' + k - 1) % PIPESIZE = (nread + k) % PIPESIZE
    <3>1. CASE nread = WORD - 1
      <4>1. nread' + k - 1 = k - 1 /\ nread + k = (k - 1) + WORD
        BY <1>1, <1>3, <3>1
      <4>2. QED
        BY Zenon, <2>1, <4>1, PlaceWraps
    <3>2. CASE nread # WORD - 1
      <4>1. nread' + k - 1 = nread + k
        BY <1>1, <1>3, <3>2
      <4>2. QED
        BY Zenon, <4>1
    <3>3. QED
      BY Zenon, <3>1, <3>2
  <2>5. QED
    BY Zenon, <1>3, <2>1, <2>2, <2>3, <2>4
<1>6. Queue # <<>>
  BY <1>1, <1>2, <1>4, EmptySeq
<1> DEFINE T == Tail(Queue)
<1>7. T \in Seq(Byte) /\ Len(T) = Count - 1 /\ \A k \in 1..(Count - 1) : T[k] = Queue[k + 1]
  BY Zenon, <1>4, <1>6, HeadTailProperties
<1> HIDE DEF T
<1>8. Queue' = T
  BY Zenon, <1>4, <1>5, <1>7, SeqEqual
<1>9. QED
  BY Zenon, <1>6, <1>8 DEF T

\* Every step of the pipe is a step of Fifo, or changes nothing of it.
LEMMA AbsStep ==
  ASSUME PipeInv, PipeInv', [Next]_vars
  PROVE  [Abs!Next]_<<Queue, readopen, writeopen>>
<1>1. ASSUME NEW p \in Proc, NEW b \in Byte, write_byte(p, b) PROVE Abs!Put(b)
  <2>1. readopen /\ writeopen
    BY Zenon, <1>1, ProcFacts DEF PipeInv, CallInv, EndInv, InCall, Locked, write_byte
  <2>2. Len(Queue) < PIPESIZE /\ Queue' = Append(Queue, b)
    BY Zenon, <1>1, PutsLast, QueueIs DEF PipeInv, QueueFact
  <2>3. UNCHANGED <<readopen, writeopen>>
    BY Zenon, <1>1 DEF write_byte
  <2>4. QED
    BY Zenon, <2>1, <2>2, <2>3 DEF Abs!Put
<1>2. ASSUME NEW p \in Proc, NEW c \in BOOLEAN, read_byte(p, c) PROVE Abs!Get
  <2>1. readopen
    BY Zenon, <1>2 DEF PipeInv, CallInv, EndInv, InCall, Locked, read_byte
  <2>2. Queue # <<>> /\ Queue' = Tail(Queue)
    BY Zenon, <1>2, GetsFirst
  <2>3. UNCHANGED <<readopen, writeopen>>
    BY Zenon, <1>2 DEF read_byte
  <2>4. QED
    BY Zenon, <2>1, <2>2, <2>3 DEF Abs!Get
<1>3. ASSUME NEW p \in Proc, pipeclose(p) PROVE Abs!CloseRead \/ Abs!CloseWrite
  <2>1. Queue' = Queue
    BY Zenon, <1>3, QueueSame DEF pipeclose
  <2>2. CASE p \in Writer
    <3>1. writeopen /\ writeopen' = FALSE /\ UNCHANGED readopen
      BY Zenon, <1>3, <2>2 DEF PipeInv, EndInv, pipeclose
    <3>2. QED
      BY Zenon, <2>1, <3>1 DEF Abs!CloseWrite
  <2>3. CASE p \notin Writer
    <3>1. readopen /\ readopen' = FALSE /\ UNCHANGED writeopen
      BY Zenon, <1>3, <2>3, ProcFacts DEF PipeInv, EndInv, pipeclose
    <3>2. QED
      BY Zenon, <2>1, <3>1 DEF Abs!CloseRead
  <2>4. QED
    BY Zenon, <2>2, <2>3
<1>4. ASSUME NEW p \in Proc,
             \/ acquire(p) \/ write_fail(p) \/ write_check(p) \/ write_full(p) \/ write_done(p)
             \/ read_killed(p) \/ read_check(p) \/ read_sleep(p) \/ read_start(p) \/ read_done(p)
             \/ fileclose(p) \/ kill(p) \/ \E k \in 1..MaxN : call(p, k)
      PROVE  UNCHANGED <<ring, ends>>
  BY <1>4, Zenon DEF acquire, write_fail, write_check, write_full, write_done, read_killed, read_check,
     read_sleep, read_start, read_done, fileclose, kill, call, unlock, checked
<1>5. UNCHANGED <<ring, ends>> => UNCHANGED <<Queue, readopen, writeopen>>
  BY Zenon, QueueSame
<1>6. ASSUME NEW p \in Proc, Inside(p) \/ read_byte(p, FALSE) \/ fileclose(p) \/ kill(p)
                              \/ \E k \in 1..MaxN : call(p, k)
      PROVE  [Abs!Next]_<<Queue, readopen, writeopen>>
  BY <1>1, <1>2, <1>3, <1>4, <1>5, <1>6, Zenon DEF Inside, Abs!Next
<1>7. CASE UNCHANGED vars
  BY Zenon, <1>5, <1>7 DEF vars
<1>8. QED
  BY <1>6, <1>7, Zenon DEF Next, Finished

(***************************************************************************)
(* The pipe implements Fifo (pipewrite, piperead, pipeclose): bytes come   *)
(* out once, in order and unchanged, whatever the number of readers and    *)
(* writers, the size of the ring and the width of nread and nwrite.        *)
(***************************************************************************)
THEOREM Refinement == Spec => IsFifo
<1>1. Init => Abs!Init
  <2> SUFFICES ASSUME Init PROVE Abs!Init
    OBVIOUS
  <2>1. PipeInv
    BY Zenon, InitInv
  <2>2. Queue \in Seq(Byte) /\ Len(Queue) = 0
    BY Zenon, <2>1, CountIs, QueueIs DEF PipeInv, QueueFact, Init, Empty
  <2>3. Queue = <<>>
    BY Zenon, <2>2, EmptySeq
  <2>4. QED
    BY Zenon, <2>3 DEF Init, Abs!Init
<1>2. PipeInv /\ PipeInv' /\ [Next]_vars => [Abs!Next]_<<Queue, readopen, writeopen>>
  BY Zenon, AbsStep
<1>3. QED
  BY <1>1, <1>2, Invariance, PTL DEF Spec, IsFifo, Abs!Spec, Abs!vars
===============================================================================
