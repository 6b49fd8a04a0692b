------------------------------ MODULE ProcProofs ------------------------------
(***************************************************************************)
(* Proofs about Proc, for any number of CPUs and any size of the process   *)
(* table.  Its inductive invariant is proved in layers, each of which uses *)
(* the ones before it: first those about threads, stacks and locks, then   *)
(* those about parents, wakeups, pids and kill, then what follows.         *)
(***************************************************************************)
EXTENDS Proc, TLAPS

InWaitLock == {"wakeup_init", "wakeup_parent", "zombie", "wait_scan", "wait_sleep"}
Exiting == {"wakeup_init", "wakeup_parent", "zombie"}
Forking == {"fork_parent", "fork_run"}

\* What the state of a process says about its thread.
ThreadInv ==
  \A p \in Slot :
    /\ ctx[p] = "run" => state[p] = "RUNNING"
    /\ ctx[p] = "exit" => state[p] \in {"ZOMBIE", "UNUSED"}
    /\ ctx[p] \in {"forkret", "yield", "sleep"} => pc[p] \notin InWaitLock
    /\ state[p] \in {"UNUSED", "USED", "ZOMBIE"} => pc[p] \in {"user", "zombie"}
    /\ state[p] = "SLEEPING" => chan[p] = p
    /\ pc[p] \in {"wakeup_init", "wakeup_parent"} => i[p] <= NPROC

\* The slot a fork has allocated is its own until it is runnable.
ForkInv ==
  /\ \A p \in Slot : pc[p] \in Forking => kids[p] \in Slot /\ state[kids[p]] = "USED"
  /\ \A p, q \in Slot :
       pc[p] \in Forking /\ pc[q] \in Forking /\ kids[p] = kids[q] => p = q

\* Which CPU has which process, and which holds its lock.
StackInv ==
  /\ \A c \in CPU : on[c] # 0 => proc[c] = on[c]
  /\ \A c, d \in CPU : proc[c] # 0 /\ proc[c] = proc[d] => c = d
  /\ \A c \in CPU : proc[c] # 0 =>
       \/ lock[proc[c]] = c
       \/ on[c] = proc[c] /\ state[proc[c]] = "RUNNING"
  /\ \A c \in CPU : on[c] # 0 =>
       /\ state[on[c]] \notin {"UNUSED", "USED"}
       /\ ctx[on[c]] # "run" => lock[on[c]] = c
  /\ \A p \in Slot : lock[p] # NoCpu => proc[lock[p]] = p

\* wait_lock is held from exit to the swtch of the zombie, and in wait.
WaitLockInv ==
  /\ wait_lock # NoCpu =>
       /\ on[wait_lock] # 0
       /\ ctx[on[wait_lock]] = "run" /\ pc[on[wait_lock]] \in InWaitLock
  /\ \A p \in Slot : ctx[p] = "run" /\ pc[p] \in InWaitLock =>
       wait_lock # NoCpu /\ on[wait_lock] = p

USE DEF table, thread

\* wakeup makes sleeping processes runnable and touches no other.
Woken == \A q \in Slot :
  \/ state'[q] = state[q]
  \/ state[q] = "SLEEPING" /\ state'[q] = "RUNNABLE"

\* The slots of the process table are 1..NPROC, and init has the first one (userinit).
LEMMA SlotFacts ==
  /\ initproc \in Slot /\ 1 \in Slot /\ 0 \notin Slot /\ Slot \subseteq Nat
  /\ NPROC \in Nat /\ NPROC >= 1 /\ initproc = 1
  /\ \A p \in Slot : 1 <= p /\ p <= NPROC
BY ProcAssumption DEF Slot, initproc

\* A turn of wakeup's loop in exit.
WakesUp(c, p) ==
  /\ on[c] = p /\ ctx[p] = "run" /\ pc[p] \in {"wakeup_init", "wakeup_parent"}
  /\ state' \in [Slot -> States] /\ Woken
  /\ pc' \in [Slot -> Labels] /\ pc'[p] \in Exiting
  /\ \A q \in Slot : q # p => pc'[q] = pc[q] /\ i'[q] = i[q]
  /\ i' \in [Slot -> 1..(NPROC + 1)] /\ i'[p] <= NPROC
  /\ UNCHANGED <<chan, killed, pid, parent, lock, wait_lock, nextpid, proc, on, ctx, kids,
                 panicked>>

\* A turn of exit's wakeup loops wakes sleepers at most and stays in exit (wakeup, exit).
LEMMA WakeupEffect ==
  ASSUME TypeOK, ThreadInv, NEW c \in CPU, NEW p \in Slot, exit_wakeup(c, p)
  PROVE  WakesUp(c, p)
<1> PICK ch, l : /\ wakeup(p, ch, l)
                 /\ on[c] = p /\ ctx[p] = "run"
                 /\ \/ pc[p] = "wakeup_init" /\ l = "wakeup_parent"
                    \/ pc[p] = "wakeup_parent" /\ l = "zombie"
  BY Zenon DEF exit_wakeup, At
<1>1. state' \in [Slot -> States] /\ Woken
  BY Zenon DEF wakeup, TypeOK, Woken, States
<1>2. pc' \in [Slot -> Labels] /\ pc'[p] \in Exiting /\ \A q \in Slot : q # p => pc'[q] = pc[q]
  BY Zenon DEF wakeup, TypeOK, Labels, Exiting
<1>3. /\ i' \in [Slot -> 1..(NPROC + 1)] /\ i'[p] <= NPROC
      /\ \A q \in Slot : q # p => i'[q] = i[q]
  BY SlotFacts DEF wakeup, TypeOK, ThreadInv
<1>4. QED
  BY Zenon, <1>1, <1>2, <1>3 DEF wakeup, WakesUp

\* kill wakes the process it marks.
Kills(c, p) ==
  /\ on[c] = p /\ ctx[p] = "run" /\ pc[p] = "kill"
  /\ state' \in [Slot -> States] /\ Woken
  /\ killed' \in [Slot -> BOOLEAN]
  /\ pc' = [pc EXCEPT ![p] = "ret"]
  /\ UNCHANGED <<chan, pid, parent, lock, wait_lock, nextpid, proc, on, ctx, i, kids, panicked>>

\* kill sets killed and wakes a sleeper at most.
LEMMA KillEffect ==
  ASSUME TypeOK, NEW c \in CPU, NEW p \in Slot, NEW n \in Targets, kill(c, p, n)
  PROVE  Kills(c, p)
<1>1. state' \in [Slot -> States] /\ Woken
  BY ZenonT(30) DEF kill, TypeOK, Woken, States
<1>2. killed' \in [Slot -> BOOLEAN]
  BY Zenon DEF kill, TypeOK
<1>3. QED
  BY Zenon, <1>1, <1>2 DEF kill, At, goto, Kills

\* Every step keeps the types.
LEMMA TypeStep ==
  ASSUME TypeOK, ThreadInv, [Next]_vars
  PROVE  TypeOK'
<1>1. ASSUME NEW c \in CPU, scheduler_release(c) PROVE TypeOK'
  BY Zenon, SlotFacts, <1>1 DEF TypeOK, States, Labels, ThreadInv, scheduler_release
<1>2. ASSUME NEW c \in CPU, NEW p \in Slot, scheduler(c, p) PROVE TypeOK'
  BY Zenon, SlotFacts, <1>2 DEF TypeOK, States, Labels, ThreadInv, scheduler, free
<1>3. ASSUME NEW c \in CPU, NEW p \in Slot, sched(c, p) PROVE TypeOK'
  BY Zenon, SlotFacts, <1>3 DEF TypeOK, States, Labels, ThreadInv, sched
<1>4. ASSUME NEW c \in CPU, NEW p \in Slot, resume(c, p) PROVE TypeOK'
  BY Zenon, SlotFacts, <1>4 DEF TypeOK, States, Labels, ThreadInv, resume
<1>5. ASSUME NEW c \in CPU, NEW p \in Slot, yield(c, p) PROVE TypeOK'
  BY Zenon, SlotFacts, <1>5 DEF TypeOK, States, Labels, ThreadInv, yield, At, free
<1>6. ASSUME NEW c \in CPU, NEW p \in Slot, usertrap(c, p) PROVE TypeOK'
  BY SlotFacts, <1>6 DEF TypeOK, States, Labels, ThreadInv, usertrap, Calls, At, goto
<1>7. ASSUME NEW c \in CPU, NEW p \in Slot, usertrap_ret(c, p) PROVE TypeOK'
  BY Zenon, SlotFacts, <1>7 DEF TypeOK, States, Labels, ThreadInv, usertrap_ret, At, goto
<1>8. ASSUME NEW c \in CPU, NEW p \in Slot, NEW np \in Slot, fork_alloc(c, p, np) PROVE TypeOK'
  BY SlotFacts, <1>8 DEF TypeOK, States, Labels, ThreadInv, fork_alloc, At
<1>9. ASSUME NEW c \in CPU, NEW p \in Slot, NEW np \in Slot, fork_nomem(c, p, np) PROVE TypeOK'
  BY SlotFacts, <1>9 DEF TypeOK, States, Labels, ThreadInv, fork_nomem, freeproc, At, goto
<1>10. ASSUME NEW c \in CPU, NEW p \in Slot, fork_none(c, p) PROVE TypeOK'
  BY Zenon, SlotFacts, <1>10 DEF TypeOK, States, Labels, ThreadInv, fork_none, At, goto
<1>11. ASSUME NEW c \in CPU, NEW p \in Slot, fork_parent(c, p) PROVE TypeOK'
  BY SlotFacts, <1>11, Zenon DEF TypeOK, States, Labels, ThreadInv, fork_parent, At, goto
<1>12. ASSUME NEW c \in CPU, NEW p \in Slot, fork_run(c, p) PROVE TypeOK'
  BY SlotFacts, <1>12, Zenon DEF TypeOK, States, Labels, ThreadInv, fork_run, At, goto
<1>13. ASSUME NEW c \in CPU, NEW p \in Slot, exit(c, p) PROVE TypeOK'
  BY SlotFacts, <1>13 DEF TypeOK, States, Labels, ThreadInv, exit, At, goto
<1>14. ASSUME NEW c \in CPU, NEW p \in Slot, init_exiting(c, p) PROVE TypeOK'
  BY Zenon, SlotFacts, <1>14 DEF TypeOK, States, Labels, ThreadInv, init_exiting, At
<1>15. ASSUME NEW c \in CPU, NEW p \in Slot, exit_wakeup(c, p) PROVE TypeOK'
  <2>1. WakesUp(c, p)
    BY Zenon, <1>15, WakeupEffect
  <2>2. QED
    BY Zenon, SlotFacts, <2>1 DEF TypeOK, Labels, Exiting, WakesUp, Woken
<1>16. ASSUME NEW c \in CPU, NEW p \in Slot, exit_zombie(c, p) PROVE TypeOK'
  BY Zenon, SlotFacts, <1>16 DEF TypeOK, States, Labels, ThreadInv, exit_zombie, At, free
<1>17. ASSUME NEW c \in CPU, NEW p \in Slot, wait(c, p) PROVE TypeOK'
  BY SlotFacts, <1>17 DEF TypeOK, States, Labels, ThreadInv, wait, At, goto
<1>18. ASSUME NEW c \in CPU, NEW p \in Slot, wait_skip(c, p) PROVE TypeOK'
  BY SlotFacts, <1>18 DEF TypeOK, States, Labels, ThreadInv, wait_skip, At, free
<1>19. ASSUME NEW c \in CPU, NEW p \in Slot, wait_found(c, p) PROVE TypeOK'
  <2>1. CASE freeproc(i[p])
    BY SlotFacts, <1>19, <2>1, Zenon
    DEF TypeOK, States, Labels, wait_found, At, free, freeproc, goto
  <2>2. CASE UNCHANGED table
    BY Zenon, SlotFacts, <1>19, <2>2 DEF TypeOK, States, Labels, wait_found, At, goto
  <2>3. QED
    BY Zenon, <1>19, <2>1, <2>2 DEF wait_found
<1>20. ASSUME NEW c \in CPU, NEW p \in Slot, wait_none(c, p) PROVE TypeOK'
  BY SlotFacts, <1>20 DEF TypeOK, States, Labels, ThreadInv, wait_none, At, goto
<1>21. ASSUME NEW c \in CPU, NEW p \in Slot, wait_sleep(c, p) PROVE TypeOK'
  BY Zenon, SlotFacts, <1>21 DEF TypeOK, States, Labels, ThreadInv, wait_sleep, At, free, goto
<1>22. ASSUME NEW c \in CPU, NEW p \in Slot, NEW n \in Targets, kill(c, p, n) PROVE TypeOK'
  <2>1. Kills(c, p)
    BY Zenon, <1>22, KillEffect
  <2>2. QED
    BY Zenon, SlotFacts, <2>1 DEF TypeOK, Labels, Kills, Woken
<1>23. CASE UNCHANGED vars
  BY Zenon, <1>23 DEF TypeOK, States, Labels, ThreadInv, vars
<1>24. QED
  BY ZenonT(30), <1>1, <1>2, <1>3, <1>4, <1>5, <1>6, <1>7, <1>8, <1>9, <1>10, <1>11, <1>12,
     <1>13, <1>14, <1>15, <1>16, <1>17, <1>18, <1>19, <1>20, <1>21, <1>22, <1>23
  DEF Next, Switch, Step

\* scheduler, yield, sleep, exit, fork and freeproc set p->state to what p's thread is doing.
LEMMA ThreadStep ==
  ASSUME TypeOK, ForkInv, StackInv, ThreadInv, [Next]_vars
  PROVE  ThreadInv'
<1>1. ASSUME NEW c \in CPU, scheduler_release(c) PROVE ThreadInv'
  BY Zenon, SlotFacts, <1>1
  DEF TypeOK, ThreadInv, ForkInv, StackInv, InWaitLock, Forking, scheduler_release
<1>2. ASSUME NEW c \in CPU, NEW p \in Slot, scheduler(c, p) PROVE ThreadInv'
  BY SlotFacts, <1>2
  DEF TypeOK, ThreadInv, ForkInv, StackInv, InWaitLock, Forking, scheduler, free
<1>3. ASSUME NEW c \in CPU, NEW p \in Slot, sched(c, p) PROVE ThreadInv'
  BY Zenon, SlotFacts, <1>3 DEF TypeOK, ThreadInv, ForkInv, StackInv, InWaitLock, Forking, sched
<1>4. ASSUME NEW c \in CPU, NEW p \in Slot, resume(c, p) PROVE ThreadInv'
  BY SlotFacts, <1>4 DEF TypeOK, ThreadInv, ForkInv, StackInv, InWaitLock, Forking, resume
<1>5. ASSUME NEW c \in CPU, NEW p \in Slot, yield(c, p) PROVE ThreadInv'
  BY SlotFacts, ProcAssumption, <1>5
  DEF TypeOK, ThreadInv, ForkInv, StackInv, InWaitLock, Forking, yield, At, free
<1>6. ASSUME NEW c \in CPU, NEW p \in Slot, usertrap(c, p) PROVE ThreadInv'
  BY SlotFacts, <1>6
  DEF TypeOK, ThreadInv, ForkInv, StackInv, InWaitLock, Forking, usertrap, Calls, At, goto
<1>7. ASSUME NEW c \in CPU, NEW p \in Slot, usertrap_ret(c, p) PROVE ThreadInv'
  BY SlotFacts, <1>7
  DEF TypeOK, ThreadInv, ForkInv, StackInv, InWaitLock, Forking, usertrap_ret, At, goto
<1>8. ASSUME NEW c \in CPU, NEW p \in Slot, NEW np \in Slot, fork_alloc(c, p, np) PROVE ThreadInv'
  BY SlotFacts, <1>8
  DEF TypeOK, ThreadInv, ForkInv, StackInv, InWaitLock, Forking, fork_alloc, At
<1>9. ASSUME NEW c \in CPU, NEW p \in Slot, NEW np \in Slot, fork_nomem(c, p, np) PROVE ThreadInv'
  BY SlotFacts, <1>9
  DEF TypeOK, ThreadInv, ForkInv, StackInv, InWaitLock, Forking, fork_nomem, freeproc, At, goto
<1>10. ASSUME NEW c \in CPU, NEW p \in Slot, fork_none(c, p) PROVE ThreadInv'
  BY SlotFacts, <1>10
  DEF TypeOK, ThreadInv, ForkInv, StackInv, InWaitLock, Forking, fork_none, At, goto
<1>11. ASSUME NEW c \in CPU, NEW p \in Slot, fork_parent(c, p) PROVE ThreadInv'
  BY SlotFacts, <1>11
  DEF TypeOK, ThreadInv, ForkInv, StackInv, InWaitLock, Forking, fork_parent, At, goto
<1>12. ASSUME NEW c \in CPU, NEW p \in Slot, fork_run(c, p) PROVE ThreadInv'
  BY SlotFacts, <1>12
  DEF TypeOK, ThreadInv, ForkInv, StackInv, InWaitLock, Forking, fork_run, At, goto
<1>13. ASSUME NEW c \in CPU, NEW p \in Slot, exit(c, p) PROVE ThreadInv'
  BY SlotFacts, <1>13
  DEF TypeOK, ThreadInv, ForkInv, StackInv, InWaitLock, Forking, exit, At, goto
<1>14. ASSUME NEW c \in CPU, NEW p \in Slot, init_exiting(c, p) PROVE ThreadInv'
  BY Zenon, SlotFacts, <1>14
  DEF TypeOK, ThreadInv, ForkInv, StackInv, InWaitLock, Forking, init_exiting, At
<1>15. ASSUME NEW c \in CPU, NEW p \in Slot, exit_wakeup(c, p) PROVE ThreadInv'
  <2>1. WakesUp(c, p)
    BY Zenon, <1>15, WakeupEffect
  <2>2. QED
    BY SlotFacts, <2>1 DEF TypeOK, ThreadInv, InWaitLock, Exiting, WakesUp, Woken
<1>16. ASSUME NEW c \in CPU, NEW p \in Slot, exit_zombie(c, p) PROVE ThreadInv'
  BY SlotFacts, <1>16
  DEF TypeOK, ThreadInv, ForkInv, StackInv, InWaitLock, Forking, exit_zombie, At, free
<1>17. ASSUME NEW c \in CPU, NEW p \in Slot, wait(c, p) PROVE ThreadInv'
  BY SlotFacts, <1>17
  DEF TypeOK, ThreadInv, ForkInv, StackInv, InWaitLock, Forking, wait, At, goto
<1>18. ASSUME NEW c \in CPU, NEW p \in Slot, wait_skip(c, p) PROVE ThreadInv'
  BY SlotFacts, <1>18
  DEF TypeOK, ThreadInv, ForkInv, StackInv, InWaitLock, Forking, wait_skip, At, free
<1>19. ASSUME NEW c \in CPU, NEW p \in Slot, wait_found(c, p) PROVE ThreadInv'
  <2>1. CASE freeproc(i[p])
    BY SlotFacts, <1>19, <2>1
    DEF TypeOK, ThreadInv, InWaitLock, wait_found, At, free, freeproc, goto
  <2>2. CASE UNCHANGED table
    BY ZenonT(30), SlotFacts, <1>19, <2>2 DEF TypeOK, ThreadInv, InWaitLock, wait_found, At, goto
  <2>3. QED
    BY Zenon, <1>19, <2>1, <2>2 DEF wait_found
<1>20. ASSUME NEW c \in CPU, NEW p \in Slot, wait_none(c, p) PROVE ThreadInv'
  BY SlotFacts, <1>20
  DEF TypeOK, ThreadInv, ForkInv, StackInv, InWaitLock, Forking, wait_none, At, goto
<1>21. ASSUME NEW c \in CPU, NEW p \in Slot, wait_sleep(c, p) PROVE ThreadInv'
  BY SlotFacts, <1>21
  DEF TypeOK, ThreadInv, ForkInv, StackInv, InWaitLock, Forking, wait_sleep, At, free, goto
<1>22. ASSUME NEW c \in CPU, NEW p \in Slot, NEW n \in Targets, kill(c, p, n) PROVE ThreadInv'
  <2>1. Kills(c, p)
    BY Zenon, <1>22, KillEffect
  <2>2. QED
    BY SlotFacts, <2>1 DEF TypeOK, ThreadInv, InWaitLock, Kills, Woken
<1>23. CASE UNCHANGED vars
  BY Zenon, <1>23 DEF TypeOK, ThreadInv, ForkInv, StackInv, InWaitLock, Forking, vars
<1>24. QED
  BY Zenon, <1>1, <1>2, <1>3, <1>4, <1>5, <1>6, <1>7, <1>8, <1>9, <1>10, <1>11, <1>12,
     <1>13, <1>14, <1>15, <1>16, <1>17, <1>18, <1>19, <1>20, <1>21, <1>22, <1>23
  DEF Next, Switch, Step

\* A slot that fork has got from allocproc stays USED and that fork's own until fork_run.
LEMMA ForkStep ==
  ASSUME TypeOK, ForkInv, StackInv, ThreadInv, [Next]_vars
  PROVE  ForkInv'
<1>1. ASSUME NEW c \in CPU, scheduler_release(c) PROVE ForkInv'
  BY SlotFacts, <1>1 DEF TypeOK, ThreadInv, ForkInv, StackInv, Forking, scheduler_release
<1>2. ASSUME NEW c \in CPU, NEW p \in Slot, scheduler(c, p) PROVE ForkInv'
  BY SlotFacts, <1>2 DEF TypeOK, ThreadInv, ForkInv, StackInv, Forking, scheduler, free
<1>3. ASSUME NEW c \in CPU, NEW p \in Slot, sched(c, p) PROVE ForkInv'
  BY SlotFacts, <1>3 DEF TypeOK, ThreadInv, ForkInv, StackInv, Forking, sched
<1>4. ASSUME NEW c \in CPU, NEW p \in Slot, resume(c, p) PROVE ForkInv'
  BY SlotFacts, <1>4 DEF TypeOK, ThreadInv, ForkInv, StackInv, Forking, resume
<1>5. ASSUME NEW c \in CPU, NEW p \in Slot, yield(c, p) PROVE ForkInv'
  BY SlotFacts, <1>5 DEF TypeOK, ThreadInv, ForkInv, StackInv, Forking, yield, At, free
<1>6. ASSUME NEW c \in CPU, NEW p \in Slot, usertrap(c, p) PROVE ForkInv'
  BY SlotFacts, <1>6
  DEF TypeOK, ThreadInv, ForkInv, StackInv, Forking, usertrap, Calls, At, goto
<1>7. ASSUME NEW c \in CPU, NEW p \in Slot, usertrap_ret(c, p) PROVE ForkInv'
  BY SlotFacts, <1>7 DEF TypeOK, ThreadInv, ForkInv, StackInv, Forking, usertrap_ret, At, goto
<1>8. ASSUME NEW c \in CPU, NEW p \in Slot, NEW np \in Slot, fork_alloc(c, p, np) PROVE ForkInv'
  BY SlotFacts, <1>8 DEF TypeOK, ThreadInv, ForkInv, StackInv, Forking, fork_alloc, At
<1>9. ASSUME NEW c \in CPU, NEW p \in Slot, NEW np \in Slot, fork_nomem(c, p, np) PROVE ForkInv'
  BY SlotFacts, <1>9
  DEF TypeOK, ThreadInv, ForkInv, StackInv, Forking, fork_nomem, freeproc, At, goto
<1>10. ASSUME NEW c \in CPU, NEW p \in Slot, fork_none(c, p) PROVE ForkInv'
  BY SlotFacts, <1>10 DEF TypeOK, ThreadInv, ForkInv, StackInv, Forking, fork_none, At, goto
<1>11. ASSUME NEW c \in CPU, NEW p \in Slot, fork_parent(c, p) PROVE ForkInv'
  BY SlotFacts, <1>11 DEF TypeOK, ThreadInv, ForkInv, StackInv, Forking, fork_parent, At, goto
<1>12. ASSUME NEW c \in CPU, NEW p \in Slot, fork_run(c, p) PROVE ForkInv'
  BY SlotFacts, <1>12 DEF TypeOK, ThreadInv, ForkInv, StackInv, Forking, fork_run, At, goto
<1>13. ASSUME NEW c \in CPU, NEW p \in Slot, exit(c, p) PROVE ForkInv'
  BY SlotFacts, <1>13 DEF TypeOK, ThreadInv, ForkInv, StackInv, Forking, exit, At, goto
<1>14. ASSUME NEW c \in CPU, NEW p \in Slot, init_exiting(c, p) PROVE ForkInv'
  BY SlotFacts, <1>14 DEF TypeOK, ThreadInv, ForkInv, StackInv, Forking, init_exiting, At
<1>15. ASSUME NEW c \in CPU, NEW p \in Slot, exit_wakeup(c, p) PROVE ForkInv'
  <2>1. WakesUp(c, p)
    BY Zenon, <1>15, WakeupEffect
  <2>2. \A q \in Slot : state[q] = "USED" => state'[q] = "USED"
    BY Zenon, <2>1 DEF TypeOK, WakesUp, Woken
  <2>3. \A q \in Slot : kids'[q] = kids[q] /\ (pc'[q] \in Forking => pc[q] \in Forking)
    BY Zenon, <2>1 DEF WakesUp, Forking, Exiting
  <2>4. QED
    BY Zenon, <2>2, <2>3 DEF ForkInv
<1>16. ASSUME NEW c \in CPU, NEW p \in Slot, exit_zombie(c, p) PROVE ForkInv'
  BY SlotFacts, <1>16 DEF TypeOK, ThreadInv, ForkInv, StackInv, Forking, exit_zombie, At, free
<1>17. ASSUME NEW c \in CPU, NEW p \in Slot, wait(c, p) PROVE ForkInv'
  BY SlotFacts, <1>17 DEF TypeOK, ThreadInv, ForkInv, StackInv, Forking, wait, At, goto
<1>18. ASSUME NEW c \in CPU, NEW p \in Slot, wait_skip(c, p) PROVE ForkInv'
  BY SlotFacts, <1>18 DEF TypeOK, ThreadInv, ForkInv, StackInv, Forking, wait_skip, At, free
<1>19. ASSUME NEW c \in CPU, NEW p \in Slot, wait_found(c, p) PROVE ForkInv'
  <2>1. CASE freeproc(i[p])
    BY SlotFacts, <1>19, <2>1
    DEF TypeOK, ThreadInv, ForkInv, Forking, wait_found, At, free, freeproc, goto
  <2>2. CASE UNCHANGED table
    BY SlotFacts, <1>19, <2>2 DEF TypeOK, ThreadInv, ForkInv, Forking, wait_found, At, goto
  <2>3. QED
    BY Zenon, <1>19, <2>1, <2>2 DEF wait_found
<1>20. ASSUME NEW c \in CPU, NEW p \in Slot, wait_none(c, p) PROVE ForkInv'
  BY SlotFacts, <1>20 DEF TypeOK, ThreadInv, ForkInv, StackInv, Forking, wait_none, At, goto
<1>21. ASSUME NEW c \in CPU, NEW p \in Slot, wait_sleep(c, p) PROVE ForkInv'
  BY SlotFacts, <1>21
  DEF TypeOK, ThreadInv, ForkInv, StackInv, Forking, wait_sleep, At, free, goto
<1>22. ASSUME NEW c \in CPU, NEW p \in Slot, NEW n \in Targets, kill(c, p, n) PROVE ForkInv'
  <2>1. Kills(c, p)
    BY Zenon, <1>22, KillEffect
  <2>2. \A q \in Slot : state[q] = "USED" => state'[q] = "USED"
    BY Zenon, <2>1 DEF TypeOK, Kills, Woken
  <2>3. \A q \in Slot : kids'[q] = kids[q] /\ (pc'[q] \in Forking => pc[q] \in Forking)
    BY Zenon, <2>1 DEF TypeOK, Kills, Forking
  <2>4. QED
    BY Zenon, <2>2, <2>3 DEF ForkInv
<1>23. CASE UNCHANGED vars
  BY <1>23 DEF TypeOK, ThreadInv, ForkInv, StackInv, Forking, vars
<1>24. QED
  BY Zenon, <1>1, <1>2, <1>3, <1>4, <1>5, <1>6, <1>7, <1>8, <1>9, <1>10, <1>11, <1>12,
     <1>13, <1>14, <1>15, <1>16, <1>17, <1>18, <1>19, <1>20, <1>21, <1>22, <1>23
  DEF Next, Switch, Step

\* scheduler, swtch, yield, sleep and exit keep each process on one CPU at most, and p->lock
\* with the CPU that is on its way into or out of p's stack.
LEMMA StackStep ==
  ASSUME TypeOK, ForkInv, StackInv, ThreadInv, [Next]_vars
  PROVE  StackInv'
<1>1. ASSUME NEW c \in CPU, scheduler_release(c) PROVE StackInv'
  BY SlotFacts, <1>1 DEF TypeOK, ThreadInv, ForkInv, StackInv, Forking, scheduler_release
<1>2. ASSUME NEW c \in CPU, NEW p \in Slot, scheduler(c, p) PROVE StackInv'
  <2>1. \A d \in CPU : proc[d] # p
    BY <1>2, SlotFacts, ProcAssumption DEF TypeOK, StackInv, scheduler, free
  <2>2. QED
    BY SlotFacts, <1>2, <2>1 DEF TypeOK, ThreadInv, StackInv, scheduler, free
<1>3. ASSUME NEW c \in CPU, NEW p \in Slot, sched(c, p) PROVE StackInv'
  BY SlotFacts, <1>3 DEF TypeOK, ThreadInv, ForkInv, StackInv, Forking, sched
<1>4. ASSUME NEW c \in CPU, NEW p \in Slot, resume(c, p) PROVE StackInv'
  BY SlotFacts, <1>4 DEF TypeOK, ThreadInv, ForkInv, StackInv, Forking, resume
<1>5. ASSUME NEW c \in CPU, NEW p \in Slot, yield(c, p) PROVE StackInv'
  BY SlotFacts, <1>5 DEF TypeOK, ThreadInv, ForkInv, StackInv, Forking, yield, At, free
<1>6. ASSUME NEW c \in CPU, NEW p \in Slot, usertrap(c, p) PROVE StackInv'
  BY SlotFacts, <1>6
  DEF TypeOK, ThreadInv, ForkInv, StackInv, Forking, usertrap, Calls, At, goto
<1>7. ASSUME NEW c \in CPU, NEW p \in Slot, usertrap_ret(c, p) PROVE StackInv'
  BY SlotFacts, <1>7 DEF TypeOK, ThreadInv, ForkInv, StackInv, Forking, usertrap_ret, At, goto
<1>8. ASSUME NEW c \in CPU, NEW p \in Slot, NEW np \in Slot, fork_alloc(c, p, np) PROVE StackInv'
  BY SlotFacts, <1>8 DEF TypeOK, ThreadInv, ForkInv, StackInv, Forking, fork_alloc, At
<1>9. ASSUME NEW c \in CPU, NEW p \in Slot, NEW np \in Slot, fork_nomem(c, p, np) PROVE StackInv'
  BY SlotFacts, <1>9
  DEF TypeOK, ThreadInv, ForkInv, StackInv, Forking, fork_nomem, freeproc, At, goto
<1>10. ASSUME NEW c \in CPU, NEW p \in Slot, fork_none(c, p) PROVE StackInv'
  BY SlotFacts, <1>10 DEF TypeOK, ThreadInv, ForkInv, StackInv, Forking, fork_none, At, goto
<1>11. ASSUME NEW c \in CPU, NEW p \in Slot, fork_parent(c, p) PROVE StackInv'
  BY SlotFacts, <1>11 DEF TypeOK, ThreadInv, ForkInv, StackInv, Forking, fork_parent, At, goto
<1>12. ASSUME NEW c \in CPU, NEW p \in Slot, fork_run(c, p) PROVE StackInv'
  BY SlotFacts, <1>12 DEF TypeOK, ThreadInv, ForkInv, StackInv, Forking, fork_run, At, goto
<1>13. ASSUME NEW c \in CPU, NEW p \in Slot, exit(c, p) PROVE StackInv'
  BY SlotFacts, <1>13 DEF TypeOK, ThreadInv, ForkInv, StackInv, Forking, exit, At, goto
<1>14. ASSUME NEW c \in CPU, NEW p \in Slot, init_exiting(c, p) PROVE StackInv'
  BY SlotFacts, <1>14 DEF TypeOK, ThreadInv, ForkInv, StackInv, Forking, init_exiting, At
<1>15. ASSUME NEW c \in CPU, NEW p \in Slot, exit_wakeup(c, p) PROVE StackInv'
  <2>1. WakesUp(c, p)
    BY Zenon, <1>15, WakeupEffect
  <2>2. \A q \in Slot : /\ state[q] = "RUNNING" => state'[q] = "RUNNING"
                        /\ state[q] \notin {"UNUSED", "USED"} => state'[q] \notin {"UNUSED", "USED"}
    BY Zenon, <2>1 DEF WakesUp, Woken
  <2>3. UNCHANGED <<lock, proc, on, ctx>>
    BY Zenon, <2>1 DEF WakesUp
  <2>4. \A d \in CPU : (proc[d] # 0 => proc[d] \in Slot) /\ (on[d] # 0 => on[d] \in Slot)
    BY Zenon DEF TypeOK
  <2>5. \A d \in CPU : on[d] # 0 => state'[on[d]] \notin {"UNUSED", "USED"}
    BY <2>2, <2>4, Zenon DEF StackInv
  <2>6. \A d \in CPU : proc[d] # 0 /\ state[proc[d]] = "RUNNING" => state'[proc[d]] = "RUNNING"
    BY <2>2, <2>4, Zenon
  <2>7. QED
    BY Zenon, <2>3, <2>5, <2>6 DEF StackInv
<1>16. ASSUME NEW c \in CPU, NEW p \in Slot, exit_zombie(c, p) PROVE StackInv'
  BY SlotFacts, <1>16 DEF TypeOK, ThreadInv, ForkInv, StackInv, Forking, exit_zombie, At, free
<1>17. ASSUME NEW c \in CPU, NEW p \in Slot, wait(c, p) PROVE StackInv'
  BY SlotFacts, <1>17 DEF TypeOK, ThreadInv, ForkInv, StackInv, Forking, wait, At, goto
<1>18. ASSUME NEW c \in CPU, NEW p \in Slot, wait_skip(c, p) PROVE StackInv'
  BY SlotFacts, <1>18 DEF TypeOK, ThreadInv, ForkInv, StackInv, Forking, wait_skip, At, free
<1>19. ASSUME NEW c \in CPU, NEW p \in Slot, wait_found(c, p) PROVE StackInv'
  <2>1. UNCHANGED <<lock, proc, on, ctx>>
    BY Zenon, <1>19 DEF wait_found
  <2>2. \A q \in Slot : state'[q] = state[q] \/ (state[q] = "ZOMBIE" /\ lock[q] = NoCpu)
    BY Zenon, <1>19 DEF TypeOK, wait_found, freeproc, free
  <2>3. \A d \in CPU : on[d] # 0 => on[d] \in Slot /\ state'[on[d]] = state[on[d]]
    BY <2>2, ProcAssumption DEF TypeOK, StackInv
  <2>4. \A d \in CPU : on[d] = proc[d] /\ proc[d] # 0 => state'[proc[d]] = state[proc[d]]
    BY Zenon, <2>3
  <2>5. QED
    BY ZenonT(30), <2>1, <2>3, <2>4 DEF StackInv
<1>20. ASSUME NEW c \in CPU, NEW p \in Slot, wait_none(c, p) PROVE StackInv'
  BY SlotFacts, <1>20 DEF TypeOK, ThreadInv, ForkInv, StackInv, Forking, wait_none, At, goto
<1>21. ASSUME NEW c \in CPU, NEW p \in Slot, wait_sleep(c, p) PROVE StackInv'
  BY SlotFacts, <1>21
  DEF TypeOK, ThreadInv, ForkInv, StackInv, Forking, wait_sleep, At, free, goto
<1>22. ASSUME NEW c \in CPU, NEW p \in Slot, NEW n \in Targets, kill(c, p, n) PROVE StackInv'
  <2>1. Kills(c, p)
    BY Zenon, <1>22, KillEffect
  <2>2. \A q \in Slot : /\ state[q] = "RUNNING" => state'[q] = "RUNNING"
                        /\ state[q] \notin {"UNUSED", "USED"} => state'[q] \notin {"UNUSED", "USED"}
    BY Zenon, <2>1 DEF Kills, Woken
  <2>3. UNCHANGED <<lock, proc, on, ctx>>
    BY Zenon, <2>1 DEF Kills
  <2>4. \A d \in CPU : (proc[d] # 0 => proc[d] \in Slot) /\ (on[d] # 0 => on[d] \in Slot)
    BY Zenon DEF TypeOK
  <2>5. \A d \in CPU : on[d] # 0 => state'[on[d]] \notin {"UNUSED", "USED"}
    BY <2>2, <2>4, Zenon DEF StackInv
  <2>6. \A d \in CPU : proc[d] # 0 /\ state[proc[d]] = "RUNNING" => state'[proc[d]] = "RUNNING"
    BY <2>2, <2>4, Zenon
  <2>7. QED
    BY Zenon, <2>3, <2>5, <2>6 DEF StackInv
<1>23. CASE UNCHANGED vars
  BY <1>23 DEF TypeOK, ThreadInv, ForkInv, StackInv, Forking, vars
<1>24. QED
  BY ZenonT(30), <1>1, <1>2, <1>3, <1>4, <1>5, <1>6, <1>7, <1>8, <1>9, <1>10, <1>11, <1>12,
     <1>13, <1>14, <1>15, <1>16, <1>17, <1>18, <1>19, <1>20, <1>21, <1>22, <1>23
  DEF Next, Switch, Step

\* wait_lock is held by exactly the CPU whose process is between exit's or wait's acquire of
\* it and the release.
LEMMA WaitLockStep ==
  ASSUME TypeOK, ThreadInv, StackInv, WaitLockInv, [Next]_vars
  PROVE  WaitLockInv'
<1>1. ASSUME NEW c \in CPU, scheduler_release(c) PROVE WaitLockInv'
  BY Zenon, SlotFacts, <1>1
  DEF TypeOK, ThreadInv, StackInv, WaitLockInv, InWaitLock, scheduler_release
<1>2. ASSUME NEW c \in CPU, NEW p \in Slot, scheduler(c, p) PROVE WaitLockInv'
  BY SlotFacts, <1>2 DEF TypeOK, ThreadInv, StackInv, WaitLockInv, InWaitLock, scheduler, free
<1>3. ASSUME NEW c \in CPU, NEW p \in Slot, sched(c, p) PROVE WaitLockInv'
  BY SlotFacts, <1>3 DEF TypeOK, ThreadInv, StackInv, WaitLockInv, InWaitLock, sched
<1>4. ASSUME NEW c \in CPU, NEW p \in Slot, resume(c, p) PROVE WaitLockInv'
  BY SlotFacts, <1>4 DEF TypeOK, ThreadInv, StackInv, WaitLockInv, InWaitLock, resume
<1>5. ASSUME NEW c \in CPU, NEW p \in Slot, yield(c, p) PROVE WaitLockInv'
  BY SlotFacts, ProcAssumption, <1>5
  DEF TypeOK, ThreadInv, StackInv, WaitLockInv, InWaitLock, yield, At, free
<1>6. ASSUME NEW c \in CPU, NEW p \in Slot, usertrap(c, p) PROVE WaitLockInv'
  <2>1. /\ on[c] = p /\ ctx[p] = "run" /\ pc[p] = "user"
        /\ pc' \in [Slot -> Labels] /\ pc'[p] \notin InWaitLock
        /\ \A q \in Slot : q # p => pc'[q] = pc[q]
        /\ UNCHANGED <<wait_lock, on, ctx>>
    BY <1>6 DEF TypeOK, Labels, InWaitLock, usertrap, Calls, At, goto
  <2>2. QED
    BY Zenon, <2>1 DEF TypeOK, WaitLockInv, InWaitLock
<1>7. ASSUME NEW c \in CPU, NEW p \in Slot, usertrap_ret(c, p) PROVE WaitLockInv'
  BY SlotFacts, <1>7
  DEF TypeOK, ThreadInv, StackInv, WaitLockInv, InWaitLock, usertrap_ret, At, goto
<1>8. ASSUME NEW c \in CPU, NEW p \in Slot, NEW np \in Slot, fork_alloc(c, p, np) PROVE WaitLockInv'
  <2>1. /\ np # p /\ on[c] = p /\ ctx[p] = "run" /\ pc[p] = "fork" /\ ctx[np] # "run"
        /\ pc'[p] = "fork_parent" /\ ctx'[np] = "forkret" /\ ctx'[p] = "run"
        /\ \A q \in Slot : q # p /\ q # np => pc'[q] = pc[q] /\ ctx'[q] = ctx[q]
        /\ UNCHANGED <<wait_lock, on>>
    BY Zenon, <1>8 DEF TypeOK, ThreadInv, fork_alloc, At
  <2>2. QED
    BY Zenon, <2>1 DEF TypeOK, WaitLockInv, InWaitLock
<1>9. ASSUME NEW c \in CPU, NEW p \in Slot, NEW np \in Slot, fork_nomem(c, p, np) PROVE WaitLockInv'
  BY SlotFacts, <1>9
  DEF TypeOK, ThreadInv, StackInv, WaitLockInv, InWaitLock, fork_nomem, freeproc, At, goto
<1>10. ASSUME NEW c \in CPU, NEW p \in Slot, fork_none(c, p) PROVE WaitLockInv'
  BY SlotFacts, <1>10
  DEF TypeOK, ThreadInv, StackInv, WaitLockInv, InWaitLock, fork_none, At, goto
<1>11. ASSUME NEW c \in CPU, NEW p \in Slot, fork_parent(c, p) PROVE WaitLockInv'
  BY SlotFacts, <1>11
  DEF TypeOK, ThreadInv, StackInv, WaitLockInv, InWaitLock, fork_parent, At, goto
<1>12. ASSUME NEW c \in CPU, NEW p \in Slot, fork_run(c, p) PROVE WaitLockInv'
  BY SlotFacts, <1>12
  DEF TypeOK, ThreadInv, StackInv, WaitLockInv, InWaitLock, fork_run, At, goto
<1>13. ASSUME NEW c \in CPU, NEW p \in Slot, exit(c, p) PROVE WaitLockInv'
  <2>1. /\ on[c] = p /\ ctx[p] = "run" /\ pc[p] = "exit" /\ pc'[p] \in InWaitLock
        /\ \A q \in Slot : q # p => pc'[q] = pc[q]
        /\ wait_lock = NoCpu /\ wait_lock' = c
        /\ UNCHANGED <<on, ctx>>
    BY Zenon, <1>13 DEF TypeOK, InWaitLock, exit, At, goto
  <2>2. QED
    BY Zenon, SlotFacts, ProcAssumption, <2>1 DEF TypeOK, WaitLockInv
<1>14. ASSUME NEW c \in CPU, NEW p \in Slot, init_exiting(c, p) PROVE WaitLockInv'
  BY Zenon, SlotFacts, <1>14
  DEF TypeOK, ThreadInv, StackInv, WaitLockInv, InWaitLock, init_exiting, At
<1>15. ASSUME NEW c \in CPU, NEW p \in Slot, exit_wakeup(c, p) PROVE WaitLockInv'
  <2>1. WakesUp(c, p)
    BY Zenon, <1>15, WakeupEffect
  <2>2. QED
    BY SlotFacts, <2>1 DEF TypeOK, StackInv, WaitLockInv, InWaitLock, Exiting, WakesUp, Woken
<1>16. ASSUME NEW c \in CPU, NEW p \in Slot, exit_zombie(c, p) PROVE WaitLockInv'
  BY SlotFacts, <1>16
  DEF TypeOK, ThreadInv, StackInv, WaitLockInv, InWaitLock, exit_zombie, At, free
<1>17. ASSUME NEW c \in CPU, NEW p \in Slot, wait(c, p) PROVE WaitLockInv'
  <2>1. /\ on[c] = p /\ ctx[p] = "run" /\ pc[p] = "wait" /\ pc'[p] \in InWaitLock
        /\ \A q \in Slot : q # p => pc'[q] = pc[q]
        /\ wait_lock = NoCpu /\ wait_lock' = c
        /\ UNCHANGED <<on, ctx>>
    BY Zenon, <1>17 DEF TypeOK, InWaitLock, wait, At, goto
  <2>2. QED
    BY Zenon, SlotFacts, ProcAssumption, <2>1 DEF TypeOK, WaitLockInv
<1>18. ASSUME NEW c \in CPU, NEW p \in Slot, wait_skip(c, p) PROVE WaitLockInv'
  BY ZenonT(30), SlotFacts, <1>18
  DEF TypeOK, ThreadInv, StackInv, WaitLockInv, InWaitLock, wait_skip, At, free
<1>19. ASSUME NEW c \in CPU, NEW p \in Slot, wait_found(c, p) PROVE WaitLockInv'
  BY SlotFacts, <1>19
  DEF TypeOK, ThreadInv, StackInv, WaitLockInv, InWaitLock, wait_found, At, free, freeproc,
      goto
<1>20. ASSUME NEW c \in CPU, NEW p \in Slot, wait_none(c, p) PROVE WaitLockInv'
  BY SlotFacts, <1>20
  DEF TypeOK, ThreadInv, StackInv, WaitLockInv, InWaitLock, wait_none, At, goto
<1>21. ASSUME NEW c \in CPU, NEW p \in Slot, wait_sleep(c, p) PROVE WaitLockInv'
  BY SlotFacts, <1>21
  DEF TypeOK, ThreadInv, StackInv, WaitLockInv, InWaitLock, wait_sleep, At, free, goto
<1>22. ASSUME NEW c \in CPU, NEW p \in Slot, NEW n \in Targets, kill(c, p, n) PROVE WaitLockInv'
  <2>1. Kills(c, p)
    BY Zenon, <1>22, KillEffect
  <2>2. QED
    BY ZenonT(30), SlotFacts, <2>1 DEF TypeOK, WaitLockInv, InWaitLock, Kills, Woken
<1>23. CASE UNCHANGED vars
  BY Zenon, <1>23 DEF TypeOK, ThreadInv, StackInv, WaitLockInv, InWaitLock, vars
<1>24. QED
  BY Zenon, <1>1, <1>2, <1>3, <1>4, <1>5, <1>6, <1>7, <1>8, <1>9, <1>10, <1>11, <1>12,
     <1>13, <1>14, <1>15, <1>16, <1>17, <1>18, <1>19, <1>20, <1>21, <1>22, <1>23
  DEF Next, Switch, Step
-------------------------------------------------------------------------------
\* Parents and children.
TreeInv ==
  /\ \A p \in Slot : p # initproc /\ state[p] \notin {"UNUSED", "USED"} =>
       /\ parent[p] \in Slot /\ parent[p] # p
       /\ state[parent[p]] \notin {"UNUSED", "USED", "ZOMBIE"}
  /\ state[initproc] \notin {"UNUSED", "USED", "ZOMBIE"}
  /\ \A p \in Slot : pc[p] = "fork_run" => parent[kids[p]] = p
  /\ \A p \in Slot : ctx[p] = "run" /\ pc[p] \in Exiting =>
       p # initproc /\ \A q \in Slot : parent[q] # p

\* How far the holder of wait_lock has come through the table.
ScanInv ==
  \A p \in Slot : ctx[p] = "run" =>
    /\ pc[p] = "wait_scan" =>
         \A q \in Slot : q < i[p] /\ parent[q] = p => state[q] # "ZOMBIE"
    /\ pc[p] = "wait_sleep" =>
         \A q \in Slot : parent[q] = p => state[q] # "ZOMBIE"
    /\ pc[p] = "wakeup_parent" /\ parent[p] < i[p] => state[parent[p]] # "SLEEPING"
    /\ pc[p] = "zombie" => state[parent[p]] # "SLEEPING"

\* Only init may sleep beside a zombie child, and only while exit has still to wake it.
SleepInv ==
  \A p, q \in Slot : state[p] = "SLEEPING" /\ parent[q] = p /\ state[q] = "ZOMBIE" =>
    /\ p = initproc
    /\ wait_lock # NoCpu
    /\ pc[on[wait_lock]] = "wakeup_init" /\ i[on[wait_lock]] <= initproc

WakeInv == ScanInv /\ SleepInv

\* Pids and kill.
PidInv ==
  /\ \A p \in Slot : pid[p] < nextpid
  /\ \A p \in Slot : state[p] = "UNUSED" => pid[p] = 0
  /\ DistinctPids

KillInv ==
  /\ \A p \in Slot : state[p] = "UNUSED" => ~killed[p]
  /\ KillsOnlyTarget

ProcInv == TypeOK /\ ThreadInv /\ ForkInv /\ StackInv /\ WaitLockInv /\ TreeInv /\ WakeInv /\ PidInv

-------------------------------------------------------------------------------
\* fork, reparent in exit and freeproc in wait keep every parent pointer at a live process.
LEMMA TreeStep ==
  ASSUME TypeOK, ThreadInv, ForkInv, TreeInv, [Next]_vars
  PROVE  TreeInv'
<1>1. ASSUME NEW c \in CPU, scheduler_release(c) PROVE TreeInv'
  BY SlotFacts, <1>1
  DEF TypeOK, ThreadInv, ForkInv, TreeInv, InWaitLock, Forking, Exiting, scheduler_release
<1>2. ASSUME NEW c \in CPU, NEW p \in Slot, scheduler(c, p) PROVE TreeInv'
  BY SlotFacts, <1>2
  DEF TypeOK, ThreadInv, ForkInv, TreeInv, InWaitLock, Forking, Exiting, scheduler, free
<1>3. ASSUME NEW c \in CPU, NEW p \in Slot, sched(c, p) PROVE TreeInv'
  BY SlotFacts, <1>3
  DEF TypeOK, ThreadInv, ForkInv, TreeInv, InWaitLock, Forking, Exiting, sched
<1>4. ASSUME NEW c \in CPU, NEW p \in Slot, resume(c, p) PROVE TreeInv'
  BY SlotFacts, <1>4
  DEF TypeOK, ThreadInv, ForkInv, TreeInv, InWaitLock, Forking, Exiting, resume
<1>5. ASSUME NEW c \in CPU, NEW p \in Slot, yield(c, p) PROVE TreeInv'
  BY SlotFacts, <1>5
  DEF TypeOK, ThreadInv, ForkInv, TreeInv, InWaitLock, Forking, Exiting, yield, At, free
<1>6. ASSUME NEW c \in CPU, NEW p \in Slot, usertrap(c, p) PROVE TreeInv'
  BY SlotFacts, <1>6
  DEF TypeOK, ThreadInv, ForkInv, TreeInv, InWaitLock, Forking, Exiting, usertrap, Calls, At,
      goto
<1>7. ASSUME NEW c \in CPU, NEW p \in Slot, usertrap_ret(c, p) PROVE TreeInv'
  BY SlotFacts, <1>7
  DEF TypeOK, ThreadInv, ForkInv, TreeInv, InWaitLock, Forking, Exiting, usertrap_ret, At, goto
<1>8. ASSUME NEW c \in CPU, NEW p \in Slot, NEW np \in Slot, fork_alloc(c, p, np) PROVE TreeInv'
  BY SlotFacts, <1>8
  DEF TypeOK, ThreadInv, ForkInv, TreeInv, InWaitLock, Forking, Exiting, fork_alloc, At
<1>9. ASSUME NEW c \in CPU, NEW p \in Slot, NEW np \in Slot, fork_nomem(c, p, np) PROVE TreeInv'
  BY SlotFacts, <1>9
  DEF TypeOK, ThreadInv, ForkInv, TreeInv, InWaitLock, Forking, Exiting, fork_nomem, freeproc,
      At, goto
<1>10. ASSUME NEW c \in CPU, NEW p \in Slot, fork_none(c, p) PROVE TreeInv'
  BY SlotFacts, <1>10
  DEF TypeOK, ThreadInv, ForkInv, TreeInv, InWaitLock, Forking, Exiting, fork_none, At, goto
<1>11. ASSUME NEW c \in CPU, NEW p \in Slot, fork_parent(c, p) PROVE TreeInv'
  BY SlotFacts, <1>11
  DEF TypeOK, ThreadInv, ForkInv, TreeInv, InWaitLock, Forking, Exiting, fork_parent, At, goto
<1>12. ASSUME NEW c \in CPU, NEW p \in Slot, fork_run(c, p) PROVE TreeInv'
  BY SlotFacts, <1>12
  DEF TypeOK, ThreadInv, ForkInv, TreeInv, InWaitLock, Forking, Exiting, fork_run, At, goto
<1>13. ASSUME NEW c \in CPU, NEW p \in Slot, exit(c, p) PROVE TreeInv'
  BY SlotFacts, <1>13
  DEF TypeOK, ThreadInv, ForkInv, TreeInv, InWaitLock, Forking, Exiting, exit, At, goto
<1>14. ASSUME NEW c \in CPU, NEW p \in Slot, init_exiting(c, p) PROVE TreeInv'
  BY SlotFacts, <1>14
  DEF TypeOK, ThreadInv, ForkInv, TreeInv, InWaitLock, Forking, Exiting, init_exiting, At
<1>15. ASSUME NEW c \in CPU, NEW p \in Slot, exit_wakeup(c, p) PROVE TreeInv'
  <2>1. WakesUp(c, p)
    BY Zenon, <1>15, WakeupEffect
  <2>2. \A q \in Slot :
          /\ state'[q] \in {"UNUSED", "USED"} <=> state[q] \in {"UNUSED", "USED"}
          /\ state'[q] = "ZOMBIE" <=> state[q] = "ZOMBIE"
    BY Zenon, <2>1 DEF WakesUp, Woken
  <2>3. UNCHANGED <<parent, kids, ctx>>
    BY Zenon, <2>1 DEF WakesUp
  <2>4. \A q \in Slot : /\ pc'[q] = "fork_run" => pc[q] = "fork_run"
                        /\ pc'[q] \in Exiting => pc[q] \in Exiting
    BY Zenon, <2>1 DEF WakesUp, Exiting
  <2>5. \A q \in Slot : q # initproc /\ state'[q] \notin {"UNUSED", "USED"} =>
          /\ parent'[q] \in Slot /\ parent'[q] # q
          /\ state'[parent'[q]] \notin {"UNUSED", "USED", "ZOMBIE"}
    <3> SUFFICES ASSUME NEW q \in Slot, q # initproc, state'[q] \notin {"UNUSED", "USED"}
                 PROVE  /\ parent'[q] \in Slot /\ parent'[q] # q
                        /\ state'[parent'[q]] \notin {"UNUSED", "USED", "ZOMBIE"}
      OBVIOUS
    <3>1. parent'[q] = parent[q]
      BY Zenon, <2>3
    <3>2. QED
      BY ZenonT(30), <2>2, <3>1 DEF TreeInv
  <2>6. state'[initproc] \notin {"UNUSED", "USED", "ZOMBIE"}
    BY Zenon, SlotFacts, <2>2 DEF TreeInv
  <2>7. QED
    BY ZenonT(30), <2>3, <2>4, <2>5, <2>6, SlotFacts DEF TreeInv, initproc
<1>16. ASSUME NEW c \in CPU, NEW p \in Slot, exit_zombie(c, p) PROVE TreeInv'
  BY SlotFacts, <1>16
  DEF TypeOK, ThreadInv, ForkInv, TreeInv, InWaitLock, Forking, Exiting, exit_zombie, At, free
<1>17. ASSUME NEW c \in CPU, NEW p \in Slot, wait(c, p) PROVE TreeInv'
  BY SlotFacts, <1>17
  DEF TypeOK, ThreadInv, ForkInv, TreeInv, InWaitLock, Forking, Exiting, wait, At, goto
<1>18. ASSUME NEW c \in CPU, NEW p \in Slot, wait_skip(c, p) PROVE TreeInv'
  BY SlotFacts, <1>18
  DEF TypeOK, ThreadInv, ForkInv, TreeInv, InWaitLock, Forking, Exiting, wait_skip, At, free
<1>19. ASSUME NEW c \in CPU, NEW p \in Slot, wait_found(c, p) PROVE TreeInv'
  <2>1. CASE freeproc(i[p])
    BY SlotFacts, <1>19, <2>1
    DEF TypeOK, ThreadInv, ForkInv, TreeInv, Forking, Exiting, wait_found, At, free, freeproc,
        goto
  <2>2. CASE UNCHANGED table
    BY SlotFacts, <1>19, <2>2 DEF TypeOK, TreeInv, Exiting, wait_found, At, goto
  <2>3. QED
    BY Zenon, <1>19, <2>1, <2>2 DEF wait_found
<1>20. ASSUME NEW c \in CPU, NEW p \in Slot, wait_none(c, p) PROVE TreeInv'
  BY SlotFacts, <1>20
  DEF TypeOK, ThreadInv, ForkInv, TreeInv, InWaitLock, Forking, Exiting, wait_none, At, goto
<1>21. ASSUME NEW c \in CPU, NEW p \in Slot, wait_sleep(c, p) PROVE TreeInv'
  BY SlotFacts, <1>21
  DEF TypeOK, ThreadInv, ForkInv, TreeInv, InWaitLock, Forking, Exiting, wait_sleep, At, free,
      goto
<1>22. ASSUME NEW c \in CPU, NEW p \in Slot, NEW n \in Targets, kill(c, p, n) PROVE TreeInv'
  <2>1. Kills(c, p)
    BY Zenon, <1>22, KillEffect
  <2>2. \A q \in Slot :
          /\ state'[q] \in {"UNUSED", "USED"} <=> state[q] \in {"UNUSED", "USED"}
          /\ state'[q] = "ZOMBIE" <=> state[q] = "ZOMBIE"
    BY Zenon, <2>1 DEF Kills, Woken
  <2>3. UNCHANGED <<parent, kids, ctx>>
    BY Zenon, <2>1 DEF Kills
  <2>4. \A q \in Slot : /\ pc'[q] = "fork_run" => pc[q] = "fork_run"
                        /\ pc'[q] \in Exiting => pc[q] \in Exiting
    BY Zenon, <2>1 DEF TypeOK, Kills, Exiting
  <2>5. \A q \in Slot : q # initproc /\ state'[q] \notin {"UNUSED", "USED"} =>
          /\ parent'[q] \in Slot /\ parent'[q] # q
          /\ state'[parent'[q]] \notin {"UNUSED", "USED", "ZOMBIE"}
    <3> SUFFICES ASSUME NEW q \in Slot, q # initproc, state'[q] \notin {"UNUSED", "USED"}
                 PROVE  /\ parent'[q] \in Slot /\ parent'[q] # q
                        /\ state'[parent'[q]] \notin {"UNUSED", "USED", "ZOMBIE"}
      OBVIOUS
    <3>1. parent'[q] = parent[q]
      BY Zenon, <2>3
    <3>2. QED
      BY ZenonT(30), <2>2, <3>1 DEF TreeInv
  <2>6. state'[initproc] \notin {"UNUSED", "USED", "ZOMBIE"}
    BY Zenon, SlotFacts, <2>2 DEF TreeInv
  <2>7. QED
    BY Zenon, <2>3, <2>4, <2>5, <2>6, SlotFacts DEF TreeInv, initproc
<1>23. CASE UNCHANGED vars
  BY <1>23 DEF TypeOK, ThreadInv, ForkInv, TreeInv, InWaitLock, Forking, Exiting, vars
<1>24. QED
  BY ZenonT(30), <1>1, <1>2, <1>3, <1>4, <1>5, <1>6, <1>7, <1>8, <1>9, <1>10, <1>11, <1>12,
     <1>13, <1>14, <1>15, <1>16, <1>17, <1>18, <1>19, <1>20, <1>21, <1>22, <1>23
  DEF Next, Switch, Step

\* wait's scan and sleep, under wait_lock, and exit's wakeups leave nobody but init asleep
\* beside a zombie child, and init only until exit's wakeup(initproc) reaches it.
LEMMA WakeStep ==
  ASSUME TypeOK, ThreadInv, StackInv, WaitLockInv, TreeInv, WakeInv, [Next]_vars
  PROVE  WakeInv'
<1>1. ASSUME NEW c \in CPU, scheduler_release(c) PROVE WakeInv'
  BY SlotFacts, <1>1
  DEF TypeOK, ThreadInv, StackInv, WaitLockInv, TreeInv, WakeInv, ScanInv, SleepInv,
      InWaitLock, Exiting, scheduler_release
<1>2. ASSUME NEW c \in CPU, NEW p \in Slot, scheduler(c, p) PROVE WakeInv'
  BY SlotFacts, <1>2
  DEF TypeOK, ThreadInv, StackInv, WaitLockInv, TreeInv, WakeInv, ScanInv, SleepInv,
      InWaitLock, Exiting, scheduler, free
<1>3. ASSUME NEW c \in CPU, NEW p \in Slot, sched(c, p) PROVE WakeInv'
  BY SlotFacts, <1>3
  DEF TypeOK, ThreadInv, StackInv, WaitLockInv, TreeInv, WakeInv, ScanInv, SleepInv,
      InWaitLock, Exiting, sched
<1>4. ASSUME NEW c \in CPU, NEW p \in Slot, resume(c, p) PROVE WakeInv'
  BY SlotFacts, <1>4
  DEF TypeOK, ThreadInv, StackInv, WaitLockInv, TreeInv, WakeInv, ScanInv, SleepInv,
      InWaitLock, Exiting, resume
<1>5. ASSUME NEW c \in CPU, NEW p \in Slot, yield(c, p) PROVE WakeInv'
  BY SlotFacts, <1>5
  DEF TypeOK, ThreadInv, StackInv, WaitLockInv, TreeInv, WakeInv, ScanInv, SleepInv,
      InWaitLock, Exiting, yield, At, free
<1>6. ASSUME NEW c \in CPU, NEW p \in Slot, usertrap(c, p) PROVE WakeInv'
  <2>1. /\ on[c] = p /\ pc[p] = "user" /\ pc'[p] \notin InWaitLock
        /\ \A q \in Slot : q # p => pc'[q] = pc[q]
    BY ZenonT(30), <1>6 DEF TypeOK, InWaitLock, usertrap, Calls, At, goto
  <2>2. UNCHANGED <<state, parent, wait_lock, on, ctx, i>>
    BY Zenon, <1>6 DEF usertrap
  <2>3. QED
    BY <2>1, <2>2 DEF TypeOK, WakeInv, ScanInv, SleepInv, WaitLockInv, InWaitLock
<1>7. ASSUME NEW c \in CPU, NEW p \in Slot, usertrap_ret(c, p) PROVE WakeInv'
  BY SlotFacts, <1>7
  DEF TypeOK, ThreadInv, StackInv, WaitLockInv, TreeInv, WakeInv, ScanInv, SleepInv,
      InWaitLock, Exiting, usertrap_ret, At, goto
<1>8. ASSUME NEW c \in CPU, NEW p \in Slot, NEW np \in Slot, fork_alloc(c, p, np) PROVE WakeInv'
  <2>1. /\ np # p /\ pc[p] = "fork" /\ pc'[p] = "fork_parent" /\ ctx'[np] = "forkret"
        /\ state[np] = "UNUSED" /\ state'[np] = "USED" /\ pc[np] # "wakeup_init"
        /\ \A q \in Slot : q # np => ctx'[q] = ctx[q] /\ state'[q] = state[q]
        /\ \A q \in Slot : q # p /\ q # np => pc'[q] = pc[q]
    BY ZenonT(30), <1>8 DEF TypeOK, ThreadInv, fork_alloc, At
  <2>2. UNCHANGED <<parent, wait_lock, on, i>>
    BY Zenon, <1>8 DEF fork_alloc
  <2>3. \A q \in Slot : ctx[q] = "run" /\ pc[q] \in Exiting => parent[q] \in Slot
    BY Zenon DEF TreeInv, ThreadInv
  <2>4. ScanInv'
    <3> SUFFICES ASSUME NEW q \in Slot, ctx'[q] = "run", pc'[q] \in InWaitLock
                 PROVE  ScanInv!(q)'
      BY Zenon DEF ScanInv, InWaitLock
    <3>1. q # np /\ q # p /\ ctx[q] = "run" /\ pc'[q] = pc[q] /\ ScanInv!(q)
      BY Zenon, <2>1 DEF WakeInv, ScanInv, InWaitLock
    <3>2. pc[q] \in Exiting => parent[q] \in Slot
      BY Zenon, <2>3, <3>1
    <3>3. \A r \in Slot : state'[r] \in {"ZOMBIE", "SLEEPING"} => state[r] = state'[r]
      BY Zenon, <2>1
    <3>4. QED
      BY Zenon, <2>2, <3>1, <3>2, <3>3 DEF Exiting
  <2>5. SleepInv'
    <3>1. \A r \in Slot : state'[r] \in {"ZOMBIE", "SLEEPING"} => state[r] = state'[r]
      BY Zenon, <2>1
    <3>2. wait_lock # NoCpu => on[wait_lock] \in Slot
      <4>1. wait_lock \in CPU \cup {NoCpu} /\ on \in [CPU -> Slot \cup {0}]
        BY Zenon DEF TypeOK
      <4>2. QED
        BY Zenon, <4>1 DEF WaitLockInv
    <3>3. \A r \in Slot : pc[r] = "wakeup_init" => pc'[r] = pc[r]
      BY Zenon, <2>1
    <3> SUFFICES ASSUME NEW q \in Slot, NEW r \in Slot,
                        state'[q] = "SLEEPING", parent'[r] = q, state'[r] = "ZOMBIE"
                 PROVE  SleepInv!(q, r)!2'
      BY Zenon DEF SleepInv
    <3>4. state[q] = "SLEEPING" /\ parent[r] = q /\ state[r] = "ZOMBIE"
      BY Zenon, <2>2, <3>1
    <3>5. SleepInv!(q, r)!2
      BY Zenon, <3>4 DEF WakeInv, SleepInv
    <3>6. QED
      BY Zenon, <2>2, <3>2, <3>3, <3>5
  <2>6. QED
    BY Zenon, <2>4, <2>5 DEF WakeInv
<1>9. ASSUME NEW c \in CPU, NEW p \in Slot, NEW np \in Slot, fork_nomem(c, p, np) PROVE WakeInv'
  BY SlotFacts, <1>9
  DEF TypeOK, ThreadInv, StackInv, WaitLockInv, TreeInv, WakeInv, ScanInv, SleepInv,
      InWaitLock, Exiting, fork_nomem, freeproc, At, goto
<1>10. ASSUME NEW c \in CPU, NEW p \in Slot, fork_none(c, p) PROVE WakeInv'
  BY SlotFacts, <1>10
  DEF TypeOK, ThreadInv, StackInv, WaitLockInv, TreeInv, WakeInv, ScanInv, SleepInv,
      InWaitLock, Exiting, fork_none, At, goto
<1>11. ASSUME NEW c \in CPU, NEW p \in Slot, fork_parent(c, p) PROVE WakeInv'
  BY SlotFacts, <1>11
  DEF TypeOK, ThreadInv, StackInv, WaitLockInv, TreeInv, WakeInv, ScanInv, SleepInv,
      InWaitLock, Exiting, fork_parent, At, goto
<1>12. ASSUME NEW c \in CPU, NEW p \in Slot, fork_run(c, p) PROVE WakeInv'
  BY SlotFacts, <1>12
  DEF TypeOK, ThreadInv, StackInv, WaitLockInv, TreeInv, WakeInv, ScanInv, SleepInv,
      InWaitLock, Exiting, fork_run, At, goto
<1>13. ASSUME NEW c \in CPU, NEW p \in Slot, exit(c, p) PROVE WakeInv'
  <2>1. /\ on[c] = p /\ ctx[p] = "run" /\ pc[p] = "exit" /\ p # initproc
        /\ wait_lock = NoCpu /\ wait_lock' = c
        /\ parent' = [q \in Slot |-> IF parent[q] = p THEN initproc ELSE parent[q]]
        /\ i'[p] = 1 /\ \A q \in Slot : q # p => pc'[q] = pc[q] /\ i'[q] = i[q]
        /\ pc'[p] = IF \E q \in Slot : parent[q] = p THEN "wakeup_init" ELSE "wakeup_parent"
        /\ UNCHANGED <<state, on, ctx>>
    BY Zenon, <1>13 DEF TypeOK, exit, At, goto, Children
  <2>2. \A q \in Slot : ~(ctx[q] = "run" /\ pc[q] \in InWaitLock)
    BY Zenon, <2>1 DEF WaitLockInv
  <2>3. \A q \in Slot : ctx'[q] = "run" /\ pc'[q] \in InWaitLock => q = p
    BY Zenon, <2>1, <2>2
  <2>4. parent'[p] \in Nat /\ parent'[p] >= 1
    BY SlotFacts, <2>1, Zenon DEF ThreadInv, TreeInv
  <2>5. ASSUME NEW x \in Slot, NEW q \in Slot,
               state'[x] = "SLEEPING", parent'[q] = x, state'[q] = "ZOMBIE"
        PROVE  x = initproc /\ \E y \in Slot : parent[y] = p
    BY Zenon, <2>1, <2>5 DEF WakeInv, SleepInv
  <2>6. ScanInv'
    <3> SUFFICES ASSUME NEW q \in Slot, ctx'[q] = "run",
                        pc'[q] \in {"wait_scan", "wait_sleep", "wakeup_parent", "zombie"}
                 PROVE  q = p /\ pc'[q] = "wakeup_parent" /\ ~(parent'[q] < i'[q])
      BY Zenon DEF ScanInv
    <3>1. q = p
      BY Zenon, <2>3 DEF InWaitLock
    <3>2. pc'[p] = "wakeup_parent"
      BY Zenon, <3>1, <2>1
    <3>3. QED
      BY <3>1, <3>2, <2>1, <2>4
  <2>7. SleepInv'
    BY ZenonT(30), SlotFacts, ProcAssumption, <2>1, <2>5 DEF SleepInv
  <2>8. QED
    BY Zenon, <2>6, <2>7 DEF WakeInv
<1>14. ASSUME NEW c \in CPU, NEW p \in Slot, init_exiting(c, p) PROVE WakeInv'
  BY SlotFacts, <1>14
  DEF TypeOK, ThreadInv, StackInv, WaitLockInv, TreeInv, WakeInv, ScanInv, SleepInv,
      InWaitLock, Exiting, init_exiting, At
<1>15. ASSUME NEW c \in CPU, NEW p \in Slot, exit_wakeup(c, p) PROVE WakeInv'
  <2>1. WakesUp(c, p)
    BY Zenon, <1>15, WakeupEffect
  <2>2. /\ \A q \in Slot : /\ state'[q] = "ZOMBIE" <=> state[q] = "ZOMBIE"
                           /\ state'[q] = "SLEEPING" => state[q] = "SLEEPING"
        /\ \A q \in Slot : q # p => pc'[q] = pc[q] /\ i'[q] = i[q]
        /\ UNCHANGED <<parent, wait_lock, on, ctx>>
    BY Zenon, <2>1 DEF WakesUp, Woken
  <2>3. /\ wait_lock = c /\ on[c] = p /\ c # NoCpu
        /\ \A q \in Slot : ctx[q] = "run" /\ pc[q] \in InWaitLock => q = p
    BY <2>1, SlotFacts, ProcAssumption DEF TypeOK, WaitLockInv, StackInv, WakesUp, InWaitLock
  <2>4. parent[p] \in Slot /\ parent[p] # p /\ p # initproc
    BY Zenon, <2>1 DEF ThreadInv, TreeInv, WakesUp, Exiting
  <2>5. i[p] \in Slot
    BY <2>1, SlotFacts DEF TypeOK, ThreadInv, WakesUp, Slot
  <2>6. pc'[p] = "zombie" => i[p] = NPROC /\ pc[p] = "wakeup_parent"
    BY Zenon, <1>15 DEF exit_wakeup, At, wakeup, TypeOK
  <2>7. pc'[p] = "wakeup_parent" /\ pc[p] = "wakeup_init" => i'[p] = 1
    BY Zenon, <1>15 DEF exit_wakeup, At, wakeup, TypeOK
  <2>8. pc[p] = "wakeup_parent" /\ pc'[p] = "wakeup_parent" => i'[p] = i[p] + 1
    BY Zenon, <1>15 DEF exit_wakeup, At, wakeup, TypeOK
  <2>9. pc[p] = "wakeup_parent" /\ i[p] = parent[p] => state'[parent[p]] # "SLEEPING"
    BY <1>15, <2>4 DEF exit_wakeup, At, wakeup, TypeOK, ThreadInv
  <2>10. pc[p] = "wakeup_init" /\ i[p] = initproc => state'[initproc] # "SLEEPING"
    BY <1>15, <2>4, SlotFacts DEF exit_wakeup, At, wakeup, TypeOK, ThreadInv
  <2>11. ScanInv'
    <3>1. SUFFICES ASSUME NEW q \in Slot, ctx'[q] = "run",
                          pc'[q] \in {"wait_scan", "wait_sleep", "wakeup_parent", "zombie"}
                   PROVE  /\ q = p
                          /\ \/ pc'[p] = "wakeup_parent" /\
                                (parent[p] < i'[p] => state'[parent[p]] # "SLEEPING")
                             \/ pc'[p] = "zombie" /\ state'[parent[p]] # "SLEEPING"
      BY Zenon, <2>2 DEF ScanInv
    <3>2. q = p /\ pc'[p] \in {"wakeup_parent", "zombie"}
      BY ZenonT(30), <2>1, <2>2, <2>3, <3>1 DEF WakesUp, InWaitLock, Exiting
    <3>3. pc[p] = "wakeup_parent" /\ parent[p] < i[p] => state'[parent[p]] # "SLEEPING"
      BY Zenon, <2>1, <2>2, <2>4 DEF WakesUp, WakeInv, ScanInv
    <3>4. i[p] \in Nat /\ parent[p] \in Nat /\ 1 <= parent[p] /\ parent[p] <= NPROC /\ NPROC \in Nat
      BY <2>4, <2>5, SlotFacts, Zenon
    <3>5. CASE pc'[p] = "zombie"
      BY <3>2, <3>3, <3>4, <3>5, <2>6, <2>9
    <3>6. CASE pc'[p] = "wakeup_parent" /\ pc[p] = "wakeup_init"
      BY <3>2, <3>4, <3>6, <2>7
    <3>7. CASE pc'[p] = "wakeup_parent" /\ pc[p] = "wakeup_parent"
      BY <3>2, <3>3, <3>4, <3>7, <2>8, <2>9
    <3>8. QED
      BY Zenon, <3>2, <3>5, <3>6, <3>7, <2>1 DEF WakesUp
  <2>12. SleepInv'
    <3>1. SUFFICES ASSUME NEW x \in Slot, NEW q \in Slot, state'[x] = "SLEEPING",
                          parent'[q] = x, state'[q] = "ZOMBIE"
                   PROVE  FALSE
      BY Zenon DEF SleepInv
    <3>2. x = initproc /\ pc[p] = "wakeup_init" /\ i[p] <= initproc
      BY Zenon, <2>2, <2>3, <3>1 DEF WakeInv, SleepInv
    <3>3. i[p] \in Nat /\ 1 <= i[p] /\ initproc = 1
      BY <2>5, SlotFacts, Zenon
    <3>4. QED
      BY <3>1, <3>2, <3>3, <2>10
  <2>13. QED
    BY Zenon, <2>11, <2>12 DEF WakeInv
<1>16. ASSUME NEW c \in CPU, NEW p \in Slot, exit_zombie(c, p) PROVE WakeInv'
  BY SlotFacts, <1>16
  DEF TypeOK, ThreadInv, StackInv, WaitLockInv, TreeInv, WakeInv, ScanInv, SleepInv,
      InWaitLock, Exiting, exit_zombie, At, free
<1>17. ASSUME NEW c \in CPU, NEW p \in Slot, wait(c, p) PROVE WakeInv'
  BY SlotFacts, <1>17
  DEF TypeOK, ThreadInv, StackInv, WaitLockInv, TreeInv, WakeInv, ScanInv, SleepInv,
      InWaitLock, Exiting, wait, At, goto
<1>18. ASSUME NEW c \in CPU, NEW p \in Slot, wait_skip(c, p) PROVE WakeInv'
  BY SlotFacts, <1>18
  DEF TypeOK, ThreadInv, StackInv, WaitLockInv, TreeInv, WakeInv, ScanInv, SleepInv,
      InWaitLock, Exiting, wait_skip, At, free
<1>19. ASSUME NEW c \in CPU, NEW p \in Slot, wait_found(c, p) PROVE WakeInv'
  BY SlotFacts, <1>19
  DEF TypeOK, ThreadInv, StackInv, WaitLockInv, TreeInv, WakeInv, ScanInv, SleepInv,
      InWaitLock, Exiting, wait_found, At, free, freeproc, goto
<1>20. ASSUME NEW c \in CPU, NEW p \in Slot, wait_none(c, p) PROVE WakeInv'
  BY SlotFacts, <1>20
  DEF TypeOK, ThreadInv, StackInv, WaitLockInv, TreeInv, WakeInv, ScanInv, SleepInv,
      InWaitLock, Exiting, wait_none, At, goto
<1>21. ASSUME NEW c \in CPU, NEW p \in Slot, wait_sleep(c, p) PROVE WakeInv'
  BY SlotFacts, <1>21
  DEF TypeOK, ThreadInv, StackInv, WaitLockInv, TreeInv, WakeInv, ScanInv, SleepInv,
      InWaitLock, Exiting, wait_sleep, At, free, goto
<1>22. ASSUME NEW c \in CPU, NEW p \in Slot, NEW n \in Targets, kill(c, p, n) PROVE WakeInv'
  <2>1. Kills(c, p)
    BY Zenon, <1>22, KillEffect
  <2>2. \A q \in Slot : /\ state'[q] = "ZOMBIE" <=> state[q] = "ZOMBIE"
                        /\ state'[q] = "SLEEPING" => state[q] = "SLEEPING"
    BY Zenon, <2>1 DEF Kills, Woken
  <2>3. UNCHANGED <<parent, wait_lock, on, ctx, i>>
    BY Zenon, <2>1 DEF Kills
  <2>4. pc[p] = "kill" /\ pc'[p] = "ret" /\ \A q \in Slot : q # p => pc'[q] = pc[q]
    BY Zenon, <2>1 DEF Kills, TypeOK
  <2>5. \A q \in Slot : ctx[q] = "run" /\ pc[q] \in Exiting => parent[q] \in Slot
    BY Zenon DEF TreeInv, ThreadInv
  <2>6. \A q \in Slot : q # p => pc'[q] = pc[q]
    BY Zenon, <2>4
  <2>7. ScanInv'
    BY <2>2, <2>3, <2>4, <2>5, ZenonT(30) DEF WakeInv, ScanInv, Exiting
  <2>8. SleepInv'
    <3>1. \A q \in Slot : ctx[q] = "run" /\ pc[q] \in InWaitLock => q # p
      BY Zenon, <2>4 DEF InWaitLock
    <3>2. wait_lock # NoCpu => on[wait_lock] # p /\ on[wait_lock] \in Slot
      BY Zenon, <2>4 DEF TypeOK, WaitLockInv, InWaitLock
    <3>3. QED
      BY ZenonT(30), <2>2, <2>3, <2>6, <3>2 DEF WakeInv, SleepInv
  <2>9. QED
    BY Zenon, <2>7, <2>8 DEF WakeInv
<1>23. CASE UNCHANGED vars
  BY Zenon, <1>23 DEF WakeInv, ScanInv, SleepInv, vars
<1>24. QED
  BY Zenon, <1>1, <1>2, <1>3, <1>4, <1>5, <1>6, <1>7, <1>8, <1>9, <1>10, <1>11, <1>12,
     <1>13, <1>14, <1>15, <1>16, <1>17, <1>18, <1>19, <1>20, <1>21, <1>22, <1>23
  DEF Next, Switch, Step

\* allocpid hands out pids in order and freeproc clears them, so they are distinct.
LEMMA PidStep ==
  ASSUME TypeOK, ThreadInv, PidInv, [Next]_vars
  PROVE  PidInv'
<1>1. ASSUME NEW c \in CPU, scheduler_release(c) PROVE PidInv'
  BY Zenon, SlotFacts, <1>1 DEF TypeOK, PidInv, DistinctPids, scheduler_release
<1>2. ASSUME NEW c \in CPU, NEW p \in Slot, scheduler(c, p) PROVE PidInv'
  BY Zenon, SlotFacts, <1>2 DEF TypeOK, PidInv, DistinctPids, scheduler, free
<1>3. ASSUME NEW c \in CPU, NEW p \in Slot, sched(c, p) PROVE PidInv'
  BY Zenon, SlotFacts, <1>3 DEF TypeOK, PidInv, DistinctPids, sched
<1>4. ASSUME NEW c \in CPU, NEW p \in Slot, resume(c, p) PROVE PidInv'
  BY Zenon, SlotFacts, <1>4 DEF TypeOK, PidInv, DistinctPids, resume
<1>5. ASSUME NEW c \in CPU, NEW p \in Slot, yield(c, p) PROVE PidInv'
  BY Zenon, SlotFacts, <1>5 DEF TypeOK, PidInv, DistinctPids, yield, At, free
<1>6. ASSUME NEW c \in CPU, NEW p \in Slot, usertrap(c, p) PROVE PidInv'
  BY Zenon, SlotFacts, <1>6 DEF TypeOK, PidInv, DistinctPids, usertrap, Calls, At, goto
<1>7. ASSUME NEW c \in CPU, NEW p \in Slot, usertrap_ret(c, p) PROVE PidInv'
  BY Zenon, SlotFacts, <1>7 DEF TypeOK, PidInv, DistinctPids, usertrap_ret, At, goto
<1>8. ASSUME NEW c \in CPU, NEW p \in Slot, NEW np \in Slot, fork_alloc(c, p, np) PROVE PidInv'
  BY SlotFacts, <1>8 DEF TypeOK, PidInv, DistinctPids, fork_alloc, At
<1>9. ASSUME NEW c \in CPU, NEW p \in Slot, NEW np \in Slot, fork_nomem(c, p, np) PROVE PidInv'
  BY SlotFacts, <1>9 DEF TypeOK, PidInv, DistinctPids, fork_nomem, freeproc, At, goto
<1>10. ASSUME NEW c \in CPU, NEW p \in Slot, fork_none(c, p) PROVE PidInv'
  BY Zenon, SlotFacts, <1>10 DEF TypeOK, PidInv, DistinctPids, fork_none, At, goto
<1>11. ASSUME NEW c \in CPU, NEW p \in Slot, fork_parent(c, p) PROVE PidInv'
  BY Zenon, SlotFacts, <1>11 DEF TypeOK, PidInv, DistinctPids, fork_parent, At, goto
<1>12. ASSUME NEW c \in CPU, NEW p \in Slot, fork_run(c, p) PROVE PidInv'
  BY Zenon, SlotFacts, <1>12 DEF TypeOK, PidInv, DistinctPids, fork_run, At, goto
<1>13. ASSUME NEW c \in CPU, NEW p \in Slot, exit(c, p) PROVE PidInv'
  BY Zenon, SlotFacts, <1>13 DEF TypeOK, PidInv, DistinctPids, exit, At, goto
<1>14. ASSUME NEW c \in CPU, NEW p \in Slot, init_exiting(c, p) PROVE PidInv'
  BY Zenon, SlotFacts, <1>14 DEF TypeOK, PidInv, DistinctPids, init_exiting, At
<1>15. ASSUME NEW c \in CPU, NEW p \in Slot, exit_wakeup(c, p) PROVE PidInv'
  <2>1. WakesUp(c, p)
    BY Zenon, <1>15, WakeupEffect
  <2>2. QED
    BY SlotFacts, <2>1 DEF TypeOK, PidInv, DistinctPids, WakesUp, Woken
<1>16. ASSUME NEW c \in CPU, NEW p \in Slot, exit_zombie(c, p) PROVE PidInv'
  BY Zenon, SlotFacts, <1>16 DEF TypeOK, PidInv, DistinctPids, exit_zombie, At, free
<1>17. ASSUME NEW c \in CPU, NEW p \in Slot, wait(c, p) PROVE PidInv'
  BY Zenon, SlotFacts, <1>17 DEF TypeOK, PidInv, DistinctPids, wait, At, goto
<1>18. ASSUME NEW c \in CPU, NEW p \in Slot, wait_skip(c, p) PROVE PidInv'
  BY SlotFacts, <1>18 DEF TypeOK, PidInv, DistinctPids, wait_skip, At, free
<1>19. ASSUME NEW c \in CPU, NEW p \in Slot, wait_found(c, p) PROVE PidInv'
  <2>1. CASE freeproc(i[p])
    BY SlotFacts, <1>19, <2>1
    DEF TypeOK, PidInv, DistinctPids, wait_found, At, free, freeproc, goto
  <2>2. CASE UNCHANGED table
    BY Zenon, SlotFacts, <1>19, <2>2 DEF TypeOK, PidInv, DistinctPids, wait_found, At, goto
  <2>3. QED
    BY Zenon, <1>19, <2>1, <2>2 DEF wait_found
<1>20. ASSUME NEW c \in CPU, NEW p \in Slot, wait_none(c, p) PROVE PidInv'
  BY SlotFacts, <1>20 DEF TypeOK, PidInv, DistinctPids, wait_none, At, goto
<1>21. ASSUME NEW c \in CPU, NEW p \in Slot, wait_sleep(c, p) PROVE PidInv'
  BY Zenon, SlotFacts, <1>21 DEF TypeOK, PidInv, DistinctPids, wait_sleep, At, free, goto
<1>22. ASSUME NEW c \in CPU, NEW p \in Slot, NEW n \in Targets, kill(c, p, n) PROVE PidInv'
  <2>1. Kills(c, p)
    BY Zenon, <1>22, KillEffect
  <2>2. QED
    BY SlotFacts, <2>1 DEF TypeOK, PidInv, DistinctPids, Kills, Woken
<1>23. CASE UNCHANGED vars
  BY Zenon, <1>23 DEF TypeOK, PidInv, DistinctPids, vars
<1>24. QED
  BY ZenonT(30), <1>1, <1>2, <1>3, <1>4, <1>5, <1>6, <1>7, <1>8, <1>9, <1>10, <1>11, <1>12,
     <1>13, <1>14, <1>15, <1>16, <1>17, <1>18, <1>19, <1>20, <1>21, <1>22, <1>23
  DEF Next, Switch, Step

\* kill marks only the process with the pid it is given, and freeproc clears the mark.
LEMMA KillStep ==
  ASSUME TypeOK, ThreadInv, PidInv, KillInv, 0 \notin Targets, [Next]_vars
  PROVE  KillInv'
<1>1. ASSUME NEW c \in CPU, scheduler_release(c) PROVE KillInv'
  BY Zenon, SlotFacts, <1>1 DEF TypeOK, ThreadInv, PidInv, KillInv, KillsOnlyTarget, scheduler_release
<1>2. ASSUME NEW c \in CPU, NEW p \in Slot, scheduler(c, p) PROVE KillInv'
  BY ZenonT(30), SlotFacts, <1>2 DEF TypeOK, ThreadInv, PidInv, KillInv, KillsOnlyTarget, scheduler, free
<1>3. ASSUME NEW c \in CPU, NEW p \in Slot, sched(c, p) PROVE KillInv'
  BY Zenon, SlotFacts, <1>3 DEF TypeOK, ThreadInv, PidInv, KillInv, KillsOnlyTarget, sched
<1>4. ASSUME NEW c \in CPU, NEW p \in Slot, resume(c, p) PROVE KillInv'
  BY Zenon, SlotFacts, <1>4 DEF TypeOK, ThreadInv, PidInv, KillInv, KillsOnlyTarget, resume
<1>5. ASSUME NEW c \in CPU, NEW p \in Slot, yield(c, p) PROVE KillInv'
  BY ZenonT(30), SlotFacts, <1>5 DEF TypeOK, ThreadInv, PidInv, KillInv, KillsOnlyTarget, yield, At, free
<1>6. ASSUME NEW c \in CPU, NEW p \in Slot, usertrap(c, p) PROVE KillInv'
  BY Zenon, SlotFacts, <1>6
  DEF TypeOK, ThreadInv, PidInv, KillInv, KillsOnlyTarget, usertrap, Calls, At, goto
<1>7. ASSUME NEW c \in CPU, NEW p \in Slot, usertrap_ret(c, p) PROVE KillInv'
  BY Zenon, SlotFacts, <1>7
  DEF TypeOK, ThreadInv, PidInv, KillInv, KillsOnlyTarget, usertrap_ret, At, goto
<1>8. ASSUME NEW c \in CPU, NEW p \in Slot, NEW np \in Slot, fork_alloc(c, p, np) PROVE KillInv'
  BY SlotFacts, <1>8 DEF TypeOK, ThreadInv, PidInv, KillInv, KillsOnlyTarget, fork_alloc, At
<1>9. ASSUME NEW c \in CPU, NEW p \in Slot, NEW np \in Slot, fork_nomem(c, p, np) PROVE KillInv'
  BY SlotFacts, <1>9
  DEF TypeOK, ThreadInv, PidInv, KillInv, KillsOnlyTarget, fork_nomem, freeproc, At, goto
<1>10. ASSUME NEW c \in CPU, NEW p \in Slot, fork_none(c, p) PROVE KillInv'
  BY Zenon, SlotFacts, <1>10
  DEF TypeOK, ThreadInv, PidInv, KillInv, KillsOnlyTarget, fork_none, At, goto
<1>11. ASSUME NEW c \in CPU, NEW p \in Slot, fork_parent(c, p) PROVE KillInv'
  BY Zenon, SlotFacts, <1>11
  DEF TypeOK, ThreadInv, PidInv, KillInv, KillsOnlyTarget, fork_parent, At, goto
<1>12. ASSUME NEW c \in CPU, NEW p \in Slot, fork_run(c, p) PROVE KillInv'
  BY ZenonT(30), SlotFacts, <1>12
  DEF TypeOK, ThreadInv, PidInv, KillInv, KillsOnlyTarget, fork_run, At, goto
<1>13. ASSUME NEW c \in CPU, NEW p \in Slot, exit(c, p) PROVE KillInv'
  BY Zenon, SlotFacts, <1>13 DEF TypeOK, ThreadInv, PidInv, KillInv, KillsOnlyTarget, exit, At, goto
<1>14. ASSUME NEW c \in CPU, NEW p \in Slot, init_exiting(c, p) PROVE KillInv'
  BY Zenon, SlotFacts, <1>14 DEF TypeOK, ThreadInv, PidInv, KillInv, KillsOnlyTarget, init_exiting, At
<1>15. ASSUME NEW c \in CPU, NEW p \in Slot, exit_wakeup(c, p) PROVE KillInv'
  <2>1. WakesUp(c, p)
    BY Zenon, <1>15, WakeupEffect
  <2>2. QED
    BY ZenonT(30), SlotFacts, <2>1 DEF TypeOK, KillInv, KillsOnlyTarget, WakesUp, Woken
<1>16. ASSUME NEW c \in CPU, NEW p \in Slot, exit_zombie(c, p) PROVE KillInv'
  BY ZenonT(30), SlotFacts, <1>16
  DEF TypeOK, ThreadInv, PidInv, KillInv, KillsOnlyTarget, exit_zombie, At, free
<1>17. ASSUME NEW c \in CPU, NEW p \in Slot, wait(c, p) PROVE KillInv'
  BY Zenon, SlotFacts, <1>17 DEF TypeOK, ThreadInv, PidInv, KillInv, KillsOnlyTarget, wait, At, goto
<1>18. ASSUME NEW c \in CPU, NEW p \in Slot, wait_skip(c, p) PROVE KillInv'
  BY Zenon, SlotFacts, <1>18
  DEF TypeOK, ThreadInv, PidInv, KillInv, KillsOnlyTarget, wait_skip, At, free
<1>19. ASSUME NEW c \in CPU, NEW p \in Slot, wait_found(c, p) PROVE KillInv'
  <2>1. CASE freeproc(i[p])
    BY SlotFacts, <1>19, <2>1
    DEF TypeOK, KillInv, KillsOnlyTarget, wait_found, At, free, freeproc, goto
  <2>2. CASE UNCHANGED table
    BY Zenon, SlotFacts, <1>19, <2>2 DEF TypeOK, KillInv, KillsOnlyTarget, wait_found, At, goto
  <2>3. QED
    BY Zenon, <1>19, <2>1, <2>2 DEF wait_found
<1>20. ASSUME NEW c \in CPU, NEW p \in Slot, wait_none(c, p) PROVE KillInv'
  BY Zenon, SlotFacts, <1>20
  DEF TypeOK, ThreadInv, PidInv, KillInv, KillsOnlyTarget, wait_none, At, goto
<1>21. ASSUME NEW c \in CPU, NEW p \in Slot, wait_sleep(c, p) PROVE KillInv'
  BY SlotFacts, <1>21
  DEF TypeOK, ThreadInv, PidInv, KillInv, KillsOnlyTarget, wait_sleep, At, free, goto
<1>22. ASSUME NEW c \in CPU, NEW p \in Slot, NEW n \in Targets, kill(c, p, n) PROVE KillInv'
  BY SlotFacts, <1>22
  DEF TypeOK, ThreadInv, PidInv, KillInv, KillsOnlyTarget, kill, At, free, goto
<1>23. CASE UNCHANGED vars
  BY Zenon, <1>23 DEF TypeOK, ThreadInv, PidInv, KillInv, KillsOnlyTarget, vars
<1>24. QED
  BY ZenonT(30), <1>1, <1>2, <1>3, <1>4, <1>5, <1>6, <1>7, <1>8, <1>9, <1>10, <1>11, <1>12,
     <1>13, <1>14, <1>15, <1>16, <1>17, <1>18, <1>19, <1>20, <1>21, <1>22, <1>23
  DEF Next, Switch, Step

-------------------------------------------------------------------------------
\* The invariant holds when the first CPU enters its scheduler (userinit).
LEMMA InitInv == Init => ProcInv /\ KillInv
<1> SUFFICES ASSUME Init PROVE ProcInv /\ KillInv
  OBVIOUS
<1>1. TypeOK
  <2>1. killed \in [Slot -> BOOLEAN] /\ panicked \in BOOLEAN
    BY Zenon DEF Init
  <2>2. /\ state \in [Slot -> States] /\ pc \in [Slot -> Labels]
        /\ ctx \in [Slot -> {"run", "forkret", "yield", "sleep", "exit"}]
    BY Zenon DEF Init, States, Labels
  <2>3. /\ chan \in [Slot -> Slot \cup {0}] /\ parent \in [Slot -> Slot \cup {0}]
        /\ kids \in [Slot -> Slot \cup {0}]
        /\ proc \in [CPU -> Slot \cup {0}] /\ on \in [CPU -> Slot \cup {0}]
        /\ lock \in [Slot -> CPU \cup {NoCpu}] /\ wait_lock \in CPU \cup {NoCpu}
    BY Zenon DEF Init
  <2>4. pid \in [Slot -> Nat] /\ nextpid \in Nat /\ i \in [Slot -> 1..(NPROC + 1)]
    BY SlotFacts DEF Init
  <2>5. QED
    BY Zenon, <2>1, <2>2, <2>3, <2>4 DEF TypeOK
<1>2. ThreadInv /\ ForkInv
  BY Zenon, SlotFacts DEF Init, ThreadInv, ForkInv, InWaitLock, Forking
<1>3. StackInv /\ WaitLockInv
  BY Zenon, SlotFacts DEF Init, StackInv, WaitLockInv, InWaitLock
<1>4. TreeInv /\ WakeInv
  BY Zenon, SlotFacts DEF Init, TreeInv, WakeInv, ScanInv, SleepInv, Exiting
<1>5. PidInv /\ KillInv
  BY SlotFacts DEF Init, PidInv, KillInv, DistinctPids, KillsOnlyTarget
<1>6. QED
  BY Zenon, <1>1, <1>2, <1>3, <1>4, <1>5 DEF ProcInv

\* Every step of every CPU keeps the invariant.
LEMMA StepInv == ProcInv /\ [Next]_vars => ProcInv'
BY Zenon, TypeStep, ThreadStep, ForkStep, StackStep, WaitLockStep, TreeStep, WakeStep, PidStep
DEF ProcInv

(***************************************************************************)
(* For any number of CPUs and slots the process table, the stacks and the  *)
(* locks satisfy ProcInv.                                                  *)
(***************************************************************************)
THEOREM Invariance == Spec => []ProcInv
BY InitInv, StepInv, PTL DEF Spec

\* ProcInv implies what is promised of stacks and locks (scheduler, sched).
LEMMA InvStacks == ProcInv => StackExclusive
<1> SUFFICES ASSUME ProcInv PROVE StackExclusive
  OBVIOUS
<1>1. \A c \in CPU : on[c] # 0 =>
        /\ \A d \in CPU : on[d] = on[c] => d = c
        /\ proc[c] = on[c]
        /\ state[on[c]] \notin {"UNUSED", "USED"}
        /\ state[on[c]] # "RUNNING" => lock[on[c]] = c
  BY DEF ProcInv, TypeOK, ThreadInv, StackInv
<1>2. SchedLocks
  <2> SUFFICES ASSUME NEW c \in CPU
               PROVE  LET held == {p \in Slot : lock[p] = c} IN
                      /\ proc[c] = 0 => held = {}
                      /\ on[c] = 0 => held \subseteq {proc[c]} /\ wait_lock # c
                      /\ on[c] # 0 => held \subseteq {on[c]}
                      /\ on[c] # 0 /\ ctx[on[c]] # "run" => held = {on[c]} /\ wait_lock # c
    BY Zenon DEF SchedLocks
  <2>1. \A p \in Slot : lock[p] = c => proc[c] = p
    BY ProcAssumption DEF ProcInv, StackInv
  <2>2. proc[c] # 0 => proc[c] \in Slot
    BY Zenon DEF ProcInv, TypeOK
  <2>3. wait_lock = c => on[c] # 0 /\ ctx[on[c]] = "run"
    BY Zenon, ProcAssumption DEF ProcInv, WaitLockInv
  <2>4. on[c] # 0 => proc[c] = on[c] /\ (ctx[on[c]] # "run" => lock[on[c]] = c)
    BY Zenon DEF ProcInv, StackInv
  <2>5. QED
    BY Zenon, <2>1, <2>2, <2>3, <2>4, SlotFacts
<1>3. QED
  BY Zenon, <1>1, <1>2 DEF StackExclusive

(***************************************************************************)
(* scheduler, sched, yield, sleep and exit never let two CPUs on one       *)
(* kernel stack, and never leave a lock behind in a scheduler.             *)
(***************************************************************************)
THEOREM Stacks == Spec => []StackExclusive
BY Invariance, InvStacks, PTL

\* ProcInv, with KillInv, implies what is promised of the table (fork, exit, wait, kill).
LEMMA InvTable ==
  ASSUME ProcInv, 0 \notin Targets => KillInv
  PROVE  Relations
<1>1. NoLostWakeup
  BY Zenon DEF ProcInv, WakeInv, SleepInv, NoLostWakeup
<1>2. ParentLives
  BY Zenon, SlotFacts DEF ProcInv, TreeInv, ParentLives
<1>3. QED
  BY Zenon, <1>1, <1>2 DEF ProcInv, PidInv, KillInv, Relations

(***************************************************************************)
(* fork, exit, wait and kill keep the process table right: wait does not   *)
(* miss a child, parents are alive, pids are distinct and, if nobody calls *)
(* kill(0), only processes that kill was asked to mark are marked.         *)
(***************************************************************************)
THEOREM Table == Spec => []Relations
<1>1. CASE 0 \in Targets
  <2>1. ProcInv => Relations
    BY Zenon, <1>1, InvTable
  <2>2. QED
    BY <2>1, Invariance, PTL
<1>2. CASE 0 \notin Targets
  <2>1. ProcInv /\ KillInv /\ [Next]_vars => ProcInv' /\ KillInv'
    BY Zenon, <1>2, StepInv, KillStep DEF ProcInv
  <2>2. ProcInv /\ KillInv => Relations
    BY Zenon, InvTable
  <2>3. QED
    BY InitInv, <2>1, <2>2, PTL DEF Spec
<1>3. QED
  BY Zenon, <1>1, <1>2
===============================================================================
