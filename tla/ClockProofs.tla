---------------------------- MODULE ClockProofs -------------------------------
(***************************************************************************)
(* Proofs about Clock, for any number of processes and any width of ticks. *)
(***************************************************************************)
EXTENDS Clock, TLAPS

\* What a process in sys_sleep knows of the time since its call.
Types ==
  /\ TypeOK
  /\ n \in [Sleeper -> 0..(WORD - 1)] /\ ticks0 \in [Sleeper -> 0..(WORD - 1)]
  /\ passed \in [Sleeper -> 0..(WORD - 1)] /\ since \in [Sleeper -> {0, 1}]

\* tickslock is held from the test of the time to the sleep.
LockInv == \A p \in Sleeper : at[p] \in {"loop", "sleep"} <=> tickslock = p

\* ticks has moved on from ticks0 by passed, with at most one wrap-around.
TimeInv == \A p \in Sleeper : at[p] # "user" =>
  ticks = ticks0[p] + passed[p] \/ ticks = ticks0[p] + passed[p] - WORD

\* A process that is going to sleep is not due, and has slept through no tick since it was killed.
SleepInv == \A p \in Sleeper :
  /\ at[p] \in {"sleep", "SLEEPING"} => passed[p] < n[p] /\ since[p] = 0
  /\ ~killed[p] => since[p] = 0

ClockInv == Types /\ LockInv /\ TimeInv /\ SleepInv

USE DEF Set, Places
-------------------------------------------------------------------------------
\* What % does on the uints of sys_sleep and clockintr.
LEMMA Wrap ==
  ASSUME Uints
  PROVE  /\ \A a \in 0..(WORD - 1) : a % WORD = a
         /\ \A a \in (-WORD)..(-1) : a % WORD = a + WORD
         /\ WORD % WORD = 0
BY DEF Uints

\* ticks - ticks0 < n, in unsigned arithmetic, asks for the ticks that have passed (sys_sleep).
LEMMA DueIs ==
  ASSUME Uints, Types, TimeInv, NEW p \in Sleeper, at[p] # "user"
  PROVE  Due(p) <=> passed[p] >= n[p]
<1>1. /\ WORD \in Nat \ {0} /\ ticks \in 0..(WORD - 1)
      /\ ticks0[p] \in 0..(WORD - 1) /\ passed[p] \in 0..(WORD - 1) /\ n[p] \in 0..(WORD - 1)
  BY Zenon DEF Types, TypeOK, Uints
<1>2. (ticks - ticks0[p]) % WORD = passed[p]
  <2>1. CASE ticks = ticks0[p] + passed[p]
    BY <1>1, <2>1, Wrap
  <2>2. CASE ticks = ticks0[p] + passed[p] - WORD
    BY <1>1, <2>2, Wrap
  <2>3. QED
    BY Zenon, <2>1, <2>2 DEF TimeInv
<1>3. QED
  BY Zenon, <1>2 DEF Due

\* sys_sleep starts with no tick passed.
LEMMA CallStep ==
  ASSUME Uints, ClockInv, NEW p \in Sleeper, sys_sleep(p)
  PROVE  ClockInv'
<1>1. Types'
  BY DEF ClockInv, Types, TypeOK, Uints, sys_sleep
<1>2. LockInv'
  BY Zenon DEF ClockInv, Types, TypeOK, LockInv, Uints, sys_sleep
<1>3. TimeInv'
  BY DEF ClockInv, Types, TypeOK, TimeInv, Uints, sys_sleep
<1>4. SleepInv'
  BY Zenon DEF ClockInv, Types, TypeOK, SleepInv, sys_sleep
<1>5. QED
  BY Zenon, <1>1, <1>2, <1>3, <1>4 DEF ClockInv

\* The loop goes on to sleep only when p is neither due nor killed.
LEMMA LoopStep ==
  ASSUME Uints, ClockInv, NEW p \in Sleeper, loop(p)
  PROVE  ClockInv'
<1>1. CASE Due(p) \/ killed[p]
  <2>1. /\ tickslock = p /\ tickslock' = Nobody /\ at' = Set(at, p, "user")
        /\ n' = Set(n, p, 0) /\ ticks0' = Set(ticks0, p, 0) /\ passed' = Set(passed, p, 0)
        /\ killed' = Set(killed, p, FALSE) /\ since' = Set(since, p, 0) /\ ticks' = ticks
    BY Zenon, <1>1 DEF loop, loop_in
  <2>2. Types'
    BY <2>1 DEF ClockInv, Types, TypeOK, Uints
  <2>3. LockInv'
    BY Zenon, <2>1 DEF ClockInv, Types, TypeOK, LockInv, Uints
  <2>4. TimeInv'
    BY Zenon, <2>1 DEF ClockInv, Types, TypeOK, TimeInv
  <2>5. SleepInv'
    BY Zenon, <2>1 DEF ClockInv, Types, TypeOK, SleepInv
  <2>6. QED
    BY Zenon, <2>2, <2>3, <2>4, <2>5 DEF ClockInv
<1>2. CASE ~(Due(p) \/ killed[p])
  <2>1. /\ at[p] = "loop" /\ at' = Set(at, p, "sleep")
        /\ UNCHANGED <<ticks, tickslock, n, ticks0, passed, killed, since>>
    BY Zenon, <1>2 DEF loop, loop_in
  <2>2. passed[p] < n[p] /\ since[p] = 0
    BY <1>2, <2>1, DueIs DEF ClockInv, Types, SleepInv, Uints
  <2>3. Types' /\ LockInv' /\ TimeInv'
    BY Zenon, <2>1 DEF ClockInv, Types, TypeOK, LockInv, TimeInv
  <2>4. SleepInv'
    BY Zenon, <2>1, <2>2 DEF ClockInv, Types, TypeOK, SleepInv
  <2>5. QED
    BY Zenon, <2>3, <2>4 DEF ClockInv
<1>3. QED
  BY Zenon, <1>1, <1>2

\* sleep releases tickslock and sleeps in one step; waking takes it again; kill takes no lock.
LEMMA WaitStep ==
  ASSUME Uints, ClockInv, NEW p \in Sleeper, sleep(p) \/ wakes(p) \/ kill(p)
  PROVE  ClockInv'
<1>1. CASE sleep(p)
  BY Zenon, <1>1 DEF ClockInv, Types, TypeOK, LockInv, TimeInv, SleepInv, Uints, sleep
<1>2. CASE wakes(p)
  BY Zenon, <1>2 DEF ClockInv, Types, TypeOK, LockInv, TimeInv, SleepInv, Uints, wakes
<1>3. CASE kill(p)
  BY Zenon, <1>3 DEF ClockInv, Types, TypeOK, LockInv, TimeInv, SleepInv, kill
<1>4. QED
  BY Zenon, <1>1, <1>2, <1>3

\* A tick finds no process between its test and its sleep, and wakes the ones asleep.
LEMMA TickStep ==
  ASSUME Uints, ClockInv, clockintr
  PROVE  ClockInv'
<1>1. /\ tickslock = Nobody /\ Scheduled
      /\ ticks' = (ticks + 1) % WORD
      /\ at' = [p \in Sleeper |-> IF at[p] = "SLEEPING" THEN "woken" ELSE at[p]]
      /\ passed' = [p \in Sleeper |-> IF at[p] = "user" THEN 0 ELSE passed[p] + 1]
      /\ since' = [p \in Sleeper |-> IF killed[p] THEN 1 ELSE 0]
      /\ UNCHANGED <<tickslock, n, ticks0, killed>>
  BY Zenon DEF clockintr, clockintr_in
<1>2. WORD \in Nat \ {0} /\ ticks \in 0..(WORD - 1)
  BY Zenon DEF Uints, ClockInv, Types, TypeOK
<1>3. ticks' = IF ticks = WORD - 1 THEN 0 ELSE ticks + 1
  BY <1>1, <1>2, Wrap
<1>4. ASSUME NEW p \in Sleeper
      PROVE  /\ at[p] \notin {"loop", "sleep"} /\ at'[p] \notin {"loop", "sleep", "SLEEPING"}
             /\ at'[p] = "user" <=> at[p] = "user"
             /\ passed'[p] \in 0..(WORD - 1)
             /\ at[p] # "user" => passed'[p] = passed[p] + 1
  BY <1>1, <1>2 DEF ClockInv, Types, TypeOK, LockInv, Uints, Scheduled
<1>5. Types'
  <2>1. passed' \in [Sleeper -> 0..(WORD - 1)] /\ since' \in [Sleeper -> {0, 1}]
    BY Zenon, <1>1, <1>4
  <2>2. ticks' \in 0..(WORD - 1) /\ at' \in [Sleeper -> Places]
    BY <1>1, <1>2, <1>3 DEF ClockInv, Types, TypeOK
  <2>3. QED
    BY Zenon, <1>1, <2>1, <2>2 DEF ClockInv, Types, TypeOK
<1>6. LockInv'
  BY Zenon, <1>1, <1>4 DEF ClockInv, LockInv, Uints
<1>7. TimeInv'
  <2> SUFFICES ASSUME NEW p \in Sleeper, at'[p] # "user"
               PROVE  \/ ticks' = ticks0'[p] + passed'[p]
                      \/ ticks' = ticks0'[p] + passed'[p] - WORD
    BY Zenon DEF TimeInv
  <2>1. /\ ticks0[p] \in 0..(WORD - 1) /\ passed[p] \in 0..(WORD - 1)
        /\ passed'[p] = passed[p] + 1 /\ passed'[p] \in 0..(WORD - 1) /\ ticks0'[p] = ticks0[p]
    BY Zenon, <1>1, <1>4 DEF ClockInv, Types
  <2>2. ticks = ticks0[p] + passed[p] \/ ticks = ticks0[p] + passed[p] - WORD
    BY Zenon, <1>4 DEF ClockInv, TimeInv
  <2>3. QED
    BY <1>2, <1>3, <2>1, <2>2
<1>8. SleepInv'
  BY Zenon, <1>1, <1>4 DEF SleepInv
<1>9. QED
  BY Zenon, <1>5, <1>6, <1>7, <1>8 DEF ClockInv

\* ClockInv holds when ticks is 0 and is preserved.
LEMMA StepInv == ASSUME Uints PROVE ClockInv /\ [Next]_vars => ClockInv'
<1> SUFFICES ASSUME ClockInv, [Next]_vars PROVE ClockInv'
  OBVIOUS
<1>1. CASE UNCHANGED vars
  BY Zenon, <1>1 DEF vars, ClockInv, Types, TypeOK, LockInv, TimeInv, SleepInv
<1>2. QED
  BY Zenon, <1>1, CallStep, LoopStep, WaitStep, TickStep DEF Next

\* For any number of processes and any width of ticks the system satisfies ClockInv.
THEOREM Invariance == ASSUME Uints PROVE Spec => []ClockInv
<1>1. Init => ClockInv
  BY DEF Init, Uints, ClockInv, Types, TypeOK, LockInv, TimeInv, SleepInv
<1>2. QED
  BY <1>1, StepInv, PTL DEF Spec

(***************************************************************************)
(* No process sleeps on in sys_sleep when its time has come, or through a  *)
(* tick after it was killed, wherever ticks wraps around (sys_sleep,       *)
(* clockintr, kill).                                                       *)
(***************************************************************************)
THEOREM NoOversleep == ASSUME Uints PROVE Spec => []Wakeups
<1>1. ClockInv => Wakeups
  BY Zenon DEF ClockInv, Types, SleepInv, Wakeups, NotOverdue, KilledLeaves
<1>2. QED
  BY <1>1, Invariance, PTL

(***************************************************************************)
(* sys_sleep(n) of a process that is not killed returns after n ticks at   *)
(* the earliest, wherever ticks wraps around.                              *)
(***************************************************************************)
THEOREM FullSleep == ASSUME Uints PROVE Spec => SleepsEnough
<1>1. ClockInv /\ [Next]_vars =>
        [\A p \in Sleeper : at[p] = "loop" /\ at'[p] = "user" => killed[p] \/ passed[p] >= n[p]]_vars
  <2> SUFFICES ASSUME ClockInv, [Next]_vars, NEW p \in Sleeper, at[p] = "loop", at'[p] = "user"
               PROVE  killed[p] \/ passed[p] >= n[p]
    OBVIOUS
  <2>0. at \in [Sleeper -> Places]
    BY Zenon DEF ClockInv, Types, TypeOK
  <2>1. CASE UNCHANGED vars
    BY Zenon, <2>1 DEF vars
  <2>2. ASSUME NEW q \in Sleeper, sys_sleep(q) \/ sleep(q) \/ wakes(q) \/ kill(q) PROVE FALSE
    BY Zenon, <2>0, <2>2 DEF sys_sleep, sleep, wakes, kill
  <2>3. CASE clockintr
    BY Zenon, <2>0, <2>3 DEF clockintr, clockintr_in
  <2>4. ASSUME NEW q \in Sleeper, loop(q) PROVE killed[p] \/ passed[p] >= n[p]
    <3>1. q = p
      BY Zenon, <2>0, <2>4 DEF loop, loop_in
    <3>2. Due(p) \/ killed[p]
      BY Zenon, <2>0, <2>4, <3>1 DEF loop, loop_in
    <3>3. QED
      BY Zenon, <3>2, DueIs DEF ClockInv
  <2>5. QED
    BY Zenon, <2>1, <2>2, <2>3, <2>4 DEF Next
<1>2. QED
  BY <1>1, Invariance, PTL DEF Spec, SleepsEnough
===============================================================================
