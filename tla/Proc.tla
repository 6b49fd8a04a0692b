--------------------------------- MODULE Proc ---------------------------------
(***************************************************************************)
(* Processes and scheduling: kernel/proc.c with the parts of trap.c that   *)
(* call it.  Kernel threads of the processes run on several CPUs; each     *)
(* action is one critical section (or one turn of a loop that takes a lock *)
(* per turn), so everything that other CPUs can do between two of them     *)
(* may happen between two actions.                                         *)
(*                                                                         *)
(* A thread gives up its CPU in two steps, as in the code: it takes its    *)
(* own p->lock and changes p->state, then swtch() leaves its stack; the    *)
(* CPU's scheduler thread releases p->lock afterwards.  The scheduler      *)
(* starts a thread the other way round: it takes p->lock and swtch()es,    *)
(* and the thread itself releases the lock.                                *)
(***************************************************************************)
EXTENDS Naturals, FiniteSets

CONSTANTS CPU,      \* processors
          NoCpu,    \* owner of a free spinlock
          NPROC,    \* size of the process table
          MaxPid,   \* bound: no fork once nextpid is above it
          TimerAt,  \* bound: labels at which timer interrupts are considered
          Targets   \* pids that programs pass to kill()

ASSUME ProcAssumption ==
  /\ NoCpu \notin CPU
  /\ NPROC \in Nat \ {0}
  /\ MaxPid \in Nat \ {0}
  /\ Targets \subseteq Nat
  /\ TimerAt \subseteq {"user", "ret", "fork", "fork_parent", "fork_run", "exit", "wait", "kill"}

Slot == 1..NPROC
initproc == 1

VARIABLES
  state, chan, killed, pid, parent,   \* struct proc; 0 is the null pointer
  lock,       \* p->lock: the CPU that holds it
  wait_lock,  \* the CPU that holds it
  nextpid,
  proc,       \* c->proc
  on,         \* the process whose kernel stack each CPU is on, 0: scheduler's
  ctx,        \* "run", or the call of sched() (or forkret) a thread is in
  pc,         \* what each thread is doing when ctx = "run"
  i,          \* loop index of wait and wakeup
  kids,       \* havekids in wait, np in fork
  panicked

table == <<state, chan, killed, pid, parent>>
thread == <<ctx, pc, i, kids>>
vars == <<table, lock, wait_lock, nextpid, proc, on, thread, panicked>>

Init ==
  /\ state = [p \in Slot |-> IF p = initproc THEN "RUNNABLE" ELSE "UNUSED"]
  /\ chan = [p \in Slot |-> 0]
  /\ killed = [p \in Slot |-> FALSE]
  /\ pid = [p \in Slot |-> IF p = initproc THEN 1 ELSE 0]
  /\ parent = [p \in Slot |-> 0]
  /\ lock = [p \in Slot |-> NoCpu]
  /\ wait_lock = NoCpu
  /\ nextpid = 2
  /\ proc = [c \in CPU |-> 0]
  /\ on = [c \in CPU |-> 0]
  /\ ctx = [p \in Slot |-> "forkret"]
  /\ pc = [p \in Slot |-> "user"]
  /\ i = [p \in Slot |-> 1]
  /\ kids = [p \in Slot |-> 0]
  /\ panicked = FALSE

\* CPU c runs process p, which is at label l and can take locks.
At(c, p, l) == ~panicked /\ on[c] = p /\ ctx[p] = "run" /\ pc[p] = l

goto(p, l) == pc' = [pc EXCEPT ![p] = l]
free(p) == lock[p] = NoCpu

-------------------------------------------------------------------------------
(***************************************************************************)
(* Switching between a process and its CPU's scheduler.                    *)
(***************************************************************************)
scheduler(c, p) ==
  /\ ~panicked /\ on[c] = 0 /\ proc[c] = 0
  /\ free(p) /\ state[p] = "RUNNABLE"
  /\ lock' = [lock EXCEPT ![p] = c]
  /\ state' = [state EXCEPT ![p] = "RUNNING"]
  /\ proc' = [proc EXCEPT ![c] = p]
  /\ on' = [on EXCEPT ![c] = p]
  /\ UNCHANGED <<chan, killed, pid, parent, wait_lock, nextpid, thread, panicked>>

\* swtch() has come back to the scheduler.
scheduler_release(c) ==
  /\ ~panicked /\ on[c] = 0 /\ proc[c] # 0
  /\ lock' = [lock EXCEPT ![proc[c]] = NoCpu]
  /\ proc' = [proc EXCEPT ![c] = 0]
  /\ UNCHANGED <<table, wait_lock, nextpid, on, thread, panicked>>

\* sched(): the thread leaves its stack with p->lock held.
sched(c, p) ==
  /\ ~panicked /\ on[c] = p /\ ctx[p] \in {"yield", "sleep", "exit"} /\ state[p] # "RUNNING"
  /\ on' = [on EXCEPT ![c] = 0]
  /\ UNCHANGED <<table, lock, wait_lock, nextpid, proc, thread, panicked>>

\* Back from sched() in yield or sleep, or first time in forkret.
resume(c, p) ==
  /\ ~panicked /\ on[c] = p /\ ctx[p] # "run" /\ state[p] = "RUNNING"
  /\ chan' = IF ctx[p] = "sleep" THEN [chan EXCEPT ![p] = 0] ELSE chan
  /\ lock' = [lock EXCEPT ![p] = NoCpu]
  /\ ctx' = [ctx EXCEPT ![p] = "run"]
  /\ UNCHANGED <<state, killed, pid, parent, wait_lock, nextpid, proc, on, pc, i, kids, panicked>>

\* A timer interrupt, in user space or in the kernel with no lock held.
yield(c, p) ==
  /\ \E l \in TimerAt : At(c, p, l) /\ (l = "user" => ~killed[p])
  /\ free(p)
  /\ lock' = [lock EXCEPT ![p] = c]
  /\ state' = [state EXCEPT ![p] = "RUNNABLE"]
  /\ ctx' = [ctx EXCEPT ![p] = "yield"]
  /\ UNCHANGED <<chan, killed, pid, parent, wait_lock, nextpid, proc, on, pc, i, kids, panicked>>

-------------------------------------------------------------------------------
(***************************************************************************)
(* usertrap: a system call from user space, and the way back.  Both ends   *)
(* test killed(p), which takes p->lock.                                    *)
(***************************************************************************)
\* What programs ask for; a fault is an "exit".  init only forks and waits.
Calls(p) ==
  {"fork", "wait"} \cup (IF p = initproc THEN {} ELSE {"exit"})
                   \cup (IF p = initproc \/ Targets = {} THEN {} ELSE {"kill"})

usertrap(c, p) ==
  /\ At(c, p, "user") /\ free(p)
  /\ \/ killed[p] /\ goto(p, "exit")
     \/ ~killed[p] /\ \E s \in Calls(p) : goto(p, s)
  /\ UNCHANGED <<table, lock, wait_lock, nextpid, proc, on, ctx, i, kids, panicked>>

usertrap_ret(c, p) ==
  /\ At(c, p, "ret") /\ free(p)
  /\ goto(p, IF killed[p] THEN "exit" ELSE "user")
  /\ UNCHANGED <<table, lock, wait_lock, nextpid, proc, on, ctx, i, kids, panicked>>

-------------------------------------------------------------------------------
(***************************************************************************)
(* fork                                                                    *)
(***************************************************************************)
\* Mutant of freeproc: killed is not reset.
freeproc_keeps_killed(p) ==
  /\ state' = [state EXCEPT ![p] = "UNUSED"]
  /\ pid' = [pid EXCEPT ![p] = 0]
  /\ parent' = [parent EXCEPT ![p] = 0]
  /\ chan' = [chan EXCEPT ![p] = 0]
  /\ UNCHANGED killed
\* Mutant of freeproc: -1 for "no pid".
freeproc_minus1(p) ==
  /\ state' = [state EXCEPT ![p] = "UNUSED"]
  /\ pid' = [pid EXCEPT ![p] = 0 - 1]
  /\ parent' = [parent EXCEPT ![p] = 0]
  /\ chan' = [chan EXCEPT ![p] = 0]
  /\ killed' = [killed EXCEPT ![p] = FALSE]

\* freeproc(p), p->lock held.
freeproc(p) ==
  /\ state' = [state EXCEPT ![p] = "UNUSED"]
  /\ pid' = [pid EXCEPT ![p] = 0]
  /\ parent' = [parent EXCEPT ![p] = 0]
  /\ chan' = [chan EXCEPT ![p] = 0]
  /\ killed' = [killed EXCEPT ![p] = FALSE]

\* Mutant of fork_alloc: allocpid forgets to increment nextpid.
fork_alloc_samepid(c, p, np) ==
  /\ At(c, p, "fork")
  /\ free(np) /\ state[np] = "UNUSED" /\ nextpid <= MaxPid
  /\ pid' = [pid EXCEPT ![np] = nextpid]
  /\ state' = [state EXCEPT ![np] = "USED"]
  /\ ctx' = [ctx EXCEPT ![np] = "forkret"]
  /\ pc' = [pc EXCEPT ![np] = "user", ![p] = "fork_parent"]
  /\ kids' = [kids EXCEPT ![p] = np]
  /\ UNCHANGED <<chan, killed, parent, lock, wait_lock, nextpid, proc, on, i, panicked>>

\* allocproc finds np and the copy succeeds; killed is left as it was.
fork_alloc(c, p, np) ==
  /\ At(c, p, "fork")
  /\ free(np) /\ state[np] = "UNUSED" /\ nextpid <= MaxPid
  /\ pid' = [pid EXCEPT ![np] = nextpid]
  /\ state' = [state EXCEPT ![np] = "USED"]
  /\ nextpid' = nextpid + 1
  /\ ctx' = [ctx EXCEPT ![np] = "forkret"]
  /\ pc' = [pc EXCEPT ![np] = "user", ![p] = "fork_parent"]
  /\ kids' = [kids EXCEPT ![p] = np]
  /\ UNCHANGED <<chan, killed, parent, lock, wait_lock, proc, on, i, panicked>>

\* No memory for the trapframe, the page table or the copy.
fork_nomem(c, p, np) ==
  /\ At(c, p, "fork")
  /\ free(np) /\ state[np] = "UNUSED" /\ nextpid <= MaxPid
  /\ freeproc(np)
  /\ nextpid' = nextpid + 1
  /\ goto(p, "ret")
  /\ UNCHANGED <<lock, wait_lock, proc, on, ctx, i, kids, panicked>>

\* allocproc finds no free slot (or the bound on pids is reached).
fork_none(c, p) ==
  /\ At(c, p, "fork")
  /\ nextpid > MaxPid \/ \A np \in Slot : state[np] # "UNUSED"
  /\ goto(p, "ret")
  /\ UNCHANGED <<table, lock, wait_lock, nextpid, proc, on, ctx, i, kids, panicked>>

fork_parent(c, p) ==
  /\ At(c, p, "fork_parent") /\ wait_lock = NoCpu
  /\ parent' = [parent EXCEPT ![kids[p]] = p]
  /\ goto(p, "fork_run")
  /\ UNCHANGED <<state, chan, killed, pid, lock, wait_lock, nextpid, proc, on, ctx, i, kids, panicked>>

fork_run(c, p) ==
  /\ At(c, p, "fork_run") /\ free(kids[p])
  /\ state' = [state EXCEPT ![kids[p]] = "RUNNABLE"]
  /\ kids' = [kids EXCEPT ![p] = 0]
  /\ goto(p, "ret")
  /\ UNCHANGED <<chan, killed, pid, parent, lock, wait_lock, nextpid, proc, on, ctx, i, panicked>>

-------------------------------------------------------------------------------
(***************************************************************************)
(* exit                                                                    *)
(***************************************************************************)
Children(p) == {q \in Slot : parent[q] = p}

\* Mutant of exit: the children are not handed over.
exit_orphans(c, p) ==
  /\ At(c, p, "exit") /\ p # initproc /\ wait_lock = NoCpu
  /\ wait_lock' = c
  /\ i' = [i EXCEPT ![p] = 1]
  /\ goto(p, "wakeup_parent")
  /\ UNCHANGED <<table, lock, nextpid, proc, on, ctx, kids, panicked>>

\* acquire(&wait_lock) and reparent(); then wakeup(initproc) if it got any.
exit(c, p) ==
  /\ At(c, p, "exit") /\ p # initproc /\ wait_lock = NoCpu
  /\ wait_lock' = c
  /\ parent' = [q \in Slot |-> IF parent[q] = p THEN initproc ELSE parent[q]]
  /\ i' = [i EXCEPT ![p] = 1]
  /\ goto(p, IF Children(p) # {} THEN "wakeup_init" ELSE "wakeup_parent")
  /\ UNCHANGED <<state, chan, killed, pid, lock, nextpid, proc, on, ctx, kids, panicked>>

init_exiting(c, p) ==
  /\ At(c, p, "exit") /\ p = initproc
  /\ panicked' = TRUE
  /\ UNCHANGED <<table, lock, wait_lock, nextpid, proc, on, thread>>

\* One turn of wakeup(ch)'s loop, then label l after the last one.
wakeup(p, ch, l) ==
  /\ i[p] # p => free(i[p])
  /\ state' = IF i[p] # p /\ state[i[p]] = "SLEEPING" /\ chan[i[p]] = ch
              THEN [state EXCEPT ![i[p]] = "RUNNABLE"] ELSE state
  /\ i' = [i EXCEPT ![p] = IF @ = NPROC THEN 1 ELSE @ + 1]
  /\ pc' = IF i[p] = NPROC THEN [pc EXCEPT ![p] = l] ELSE pc
  /\ UNCHANGED <<chan, killed, pid, parent, lock, wait_lock, nextpid, proc, on, ctx, kids, panicked>>

\* Mutant of exit_wakeup: wakeup(p) instead of wakeup(p->parent).
exit_wakeup_self(c, p) ==
  \/ At(c, p, "wakeup_init") /\ wakeup(p, initproc, "wakeup_parent")
  \/ At(c, p, "wakeup_parent") /\ wakeup(p, p, "zombie")

exit_wakeup(c, p) ==
  \/ At(c, p, "wakeup_init") /\ wakeup(p, initproc, "wakeup_parent")
  \/ At(c, p, "wakeup_parent") /\ wakeup(p, parent[p], "zombie")

\* Mutant of exit_zombie: p->lock is not held into swtch().
exit_zombie_unlocked(c, p) ==
  /\ At(c, p, "zombie") /\ free(p)
  /\ state' = [state EXCEPT ![p] = "ZOMBIE"]
  /\ wait_lock' = NoCpu
  /\ ctx' = [ctx EXCEPT ![p] = "exit"]
  /\ UNCHANGED <<chan, killed, pid, parent, lock, nextpid, proc, on, pc, i, kids, panicked>>

exit_zombie(c, p) ==
  /\ At(c, p, "zombie") /\ free(p)
  /\ lock' = [lock EXCEPT ![p] = c]
  /\ state' = [state EXCEPT ![p] = "ZOMBIE"]
  /\ wait_lock' = NoCpu
  /\ ctx' = [ctx EXCEPT ![p] = "exit"]
  /\ UNCHANGED <<chan, killed, pid, parent, nextpid, proc, on, pc, i, kids, panicked>>

-------------------------------------------------------------------------------
(***************************************************************************)
(* wait and kill                                                           *)
(***************************************************************************)
wait(c, p) ==
  /\ At(c, p, "wait") /\ wait_lock = NoCpu
  /\ wait_lock' = c
  /\ i' = [i EXCEPT ![p] = 1]
  /\ kids' = [kids EXCEPT ![p] = 0]
  /\ goto(p, "wait_scan")
  /\ UNCHANGED <<table, lock, nextpid, proc, on, ctx, panicked>>

\* The loop looks at a slot that holds no zombie child.
wait_skip(c, p) ==
  /\ At(c, p, "wait_scan") /\ i[p] <= NPROC
  /\ \/ parent[i[p]] # p /\ UNCHANGED kids
     \/ /\ parent[i[p]] = p /\ free(i[p]) /\ state[i[p]] # "ZOMBIE"
        /\ kids' = [kids EXCEPT ![p] = 1]
  /\ i' = [i EXCEPT ![p] = @ + 1]
  /\ UNCHANGED <<table, lock, wait_lock, nextpid, proc, on, ctx, pc, panicked>>

\* Mutant of wait_found: the zombie is reported and not freed.
wait_found_unfreed(c, p) ==
  /\ At(c, p, "wait_scan") /\ i[p] <= NPROC
  /\ parent[i[p]] = p /\ free(i[p]) /\ state[i[p]] = "ZOMBIE"
  /\ wait_lock' = NoCpu
  /\ kids' = [kids EXCEPT ![p] = 0]
  /\ goto(p, "ret")
  /\ UNCHANGED <<table, lock, nextpid, proc, on, ctx, i, panicked>>

\* It finds one: reap it, unless the status cannot be copied out (init's
\* wait(0) copies nothing).
wait_found(c, p) ==
  /\ At(c, p, "wait_scan") /\ i[p] <= NPROC
  /\ parent[i[p]] = p /\ free(i[p]) /\ state[i[p]] = "ZOMBIE"
  /\ freeproc(i[p]) \/ (p # initproc /\ UNCHANGED table)
  /\ wait_lock' = NoCpu
  /\ kids' = [kids EXCEPT ![p] = 0]
  /\ goto(p, "ret")
  /\ UNCHANGED <<lock, nextpid, proc, on, ctx, i, panicked>>

\* No zombie: give up, or go on to sleep.
wait_none(c, p) ==
  /\ At(c, p, "wait_scan") /\ i[p] > NPROC
  /\ kids[p] = 1 => free(p)
  /\ \/ /\ kids[p] = 0 \/ killed[p]
        /\ wait_lock' = NoCpu
        /\ goto(p, "ret")
     \/ /\ kids[p] = 1 /\ ~killed[p]
        /\ goto(p, "wait_sleep")
        /\ UNCHANGED wait_lock
  /\ kids' = [kids EXCEPT ![p] = 0]
  /\ i' = [i EXCEPT ![p] = 1]
  /\ UNCHANGED <<table, lock, nextpid, proc, on, ctx, panicked>>

\* Mutant of wait_sleep: sleep() does not release wait_lock.
wait_sleep_locked(c, p) ==
  /\ At(c, p, "wait_sleep") /\ free(p)
  /\ lock' = [lock EXCEPT ![p] = c]
  /\ chan' = [chan EXCEPT ![p] = p]
  /\ state' = [state EXCEPT ![p] = "SLEEPING"]
  /\ ctx' = [ctx EXCEPT ![p] = "sleep"]
  /\ goto(p, "wait")
  /\ UNCHANGED <<killed, pid, parent, wait_lock, nextpid, proc, on, i, kids, panicked>>

\* sleep(p, &wait_lock) up to sched(); once resumed it takes wait_lock again.
wait_sleep(c, p) ==
  /\ At(c, p, "wait_sleep") /\ free(p)
  /\ lock' = [lock EXCEPT ![p] = c]
  /\ wait_lock' = NoCpu
  /\ chan' = [chan EXCEPT ![p] = p]
  /\ state' = [state EXCEPT ![p] = "SLEEPING"]
  /\ ctx' = [ctx EXCEPT ![p] = "sleep"]
  /\ goto(p, "wait")
  /\ UNCHANGED <<killed, pid, parent, nextpid, proc, on, i, kids, panicked>>

\* kill(n): the first slot with that pid, whatever its state.
kill(c, p, n) ==
  /\ At(c, p, "kill")
  /\ \/ \E v \in Slot :
          /\ pid[v] = n /\ free(v) /\ \A u \in Slot : u < v => pid[u] # n
          /\ killed' = [killed EXCEPT ![v] = TRUE]
          /\ state' = [state EXCEPT ![v] = IF @ = "SLEEPING" THEN "RUNNABLE" ELSE @]
     \/ /\ \A v \in Slot : pid[v] # n
        /\ UNCHANGED <<killed, state>>
  /\ goto(p, "ret")
  /\ UNCHANGED <<chan, pid, parent, lock, wait_lock, nextpid, proc, on, ctx, i, kids, panicked>>

-------------------------------------------------------------------------------
Switch(c, p) == scheduler(c, p) \/ sched(c, p) \/ resume(c, p)

Step(c, p) ==
  \/ usertrap(c, p) \/ usertrap_ret(c, p)
  \/ \E np \in Slot : fork_alloc(c, p, np) \/ fork_nomem(c, p, np)
  \/ fork_none(c, p) \/ fork_parent(c, p) \/ fork_run(c, p)
  \/ exit(c, p) \/ init_exiting(c, p) \/ exit_wakeup(c, p) \/ exit_zombie(c, p)
  \/ wait(c, p) \/ wait_skip(c, p) \/ wait_found(c, p) \/ wait_none(c, p) \/ wait_sleep(c, p)
  \/ \E n \in Targets : kill(c, p, n)

\* panic() freezes the machine.
Next ==
  \/ \E c \in CPU : \/ scheduler_release(c)
                    \/ \E p \in Slot : Switch(c, p) \/ yield(c, p) \/ Step(c, p)
  \/ panicked /\ UNCHANGED vars

Spec == Init /\ [][Next]_vars

(***************************************************************************)
(* The scheduler's round robin visits every runnable process, the timer    *)
(* interrupts whoever runs on but leaves every thread time to take a step, *)
(* a spinning CPU gets the lock in the end, and init's loop calls wait()   *)
(* again and again.                                                        *)
(***************************************************************************)
Fairness ==
  /\ \A c \in CPU :
       /\ WF_vars(scheduler_release(c))
       /\ WF_vars(\E p \in Slot : sched(c, p) \/ resume(c, p))
       /\ SF_vars(\E p \in Slot : yield(c, p))
  /\ \A p \in Slot :
       /\ SF_vars(\E c \in CPU : scheduler(c, p))
       /\ SF_vars(\E c \in CPU : Step(c, p))
  /\ SF_vars(\E c \in CPU : usertrap(c, initproc) /\ pc'[initproc] = "wait")

FairSpec == Spec /\ Fairness

-------------------------------------------------------------------------------
(***************************************************************************)
(* Properties.                                                             *)
(***************************************************************************)
States == {"UNUSED", "USED", "SLEEPING", "RUNNABLE", "RUNNING", "ZOMBIE"}
Labels == {"user", "ret", "fork", "fork_parent", "fork_run", "exit", "wakeup_init",
           "wakeup_parent", "zombie", "wait", "wait_scan", "wait_sleep", "kill"}

\* Every variable has the shape the code gives it.
TypeOK ==
  /\ state \in [Slot -> States]
  /\ chan \in [Slot -> Slot \cup {0}]
  /\ killed \in [Slot -> BOOLEAN]
  /\ pid \in [Slot -> Nat]
  /\ parent \in [Slot -> Slot \cup {0}]
  /\ lock \in [Slot -> CPU \cup {NoCpu}]
  /\ wait_lock \in CPU \cup {NoCpu}
  /\ nextpid \in Nat
  /\ proc \in [CPU -> Slot \cup {0}]
  /\ on \in [CPU -> Slot \cup {0}]
  /\ ctx \in [Slot -> {"run", "forkret", "yield", "sleep", "exit"}]
  /\ pc \in [Slot -> Labels]
  /\ i \in [Slot -> 1..(NPROC + 1)]
  /\ kids \in [Slot -> Slot \cup {0}]
  /\ panicked \in BOOLEAN

(***************************************************************************)
(* sched() is entered with p->lock held and no other lock, or it panics    *)
(* ("sched locks"): a CPU that goes back to its scheduler keeps no lock    *)
(* that others would spin on for ever.                                     *)
(***************************************************************************)
SchedLocks ==
  \A c \in CPU :
    LET held == {p \in Slot : lock[p] = c} IN
    /\ proc[c] = 0 => held = {}
    /\ on[c] = 0 => held \subseteq {proc[c]} /\ wait_lock # c
    /\ on[c] # 0 => held \subseteq {on[c]}
    /\ on[c] # 0 /\ ctx[on[c]] # "run" => held = {on[c]} /\ wait_lock # c

(***************************************************************************)
(* A kernel stack is never used by two CPUs, and never given away while a  *)
(* CPU is still on it: neither another scheduler's swtch (scheduler,       *)
(* yield, sleep) nor wait()'s freeproc followed by a fork gets at a        *)
(* process before the CPU that ran it is back on its own stack.  And       *)
(* sched() is left with p->lock and no other lock (SchedLocks).            *)
(***************************************************************************)
StackExclusive ==
  /\ \A c \in CPU : on[c] # 0 =>
       /\ \A d \in CPU : on[d] = on[c] => d = c
       /\ proc[c] = on[c]
       /\ state[on[c]] \notin {"UNUSED", "USED"}
       /\ state[on[c]] # "RUNNING" => lock[on[c]] = c
  /\ SchedLocks

(***************************************************************************)
(* wait() never sleeps through a child's exit: whenever wait_lock is free, *)
(* a process asleep in wait() has no zombie child, whether its own or      *)
(* handed to it by reparent().                                             *)
(***************************************************************************)
NoLostWakeup ==
  wait_lock = NoCpu =>
    \A p, q \in Slot : state[p] = "SLEEPING" /\ parent[q] = p => state[q] # "ZOMBIE"

(***************************************************************************)
(* Parent pointers never dangle: whenever wait_lock is free, the parent of *)
(* every process that runs or is a zombie is init or a process that has    *)
(* not exited (fork, reparent, freeproc).  A dangling pointer would make   *)
(* the next user of the slot the parent of strangers.                      *)
(***************************************************************************)
ParentLives ==
  wait_lock = NoCpu =>
    \A p \in Slot : p # initproc /\ state[p] \notin {"UNUSED", "USED"} =>
      /\ parent[p] # 0 /\ parent[p] # p
      /\ state[parent[p]] \notin {"UNUSED", "USED", "ZOMBIE"}

(***************************************************************************)
(* kill() marks the process it is asked to mark and no other: a process    *)
(* is killed only if its pid was passed to kill (kill, freeproc, fork).    *)
(***************************************************************************)
KillsOnlyTarget ==
  \A p \in Slot : killed[p] /\ state[p] # "UNUSED" => pid[p] \in Targets

\* Pids tell processes apart, from allocpid on to freeproc.
DistinctPids ==
  \A p, q \in Slot : pid[p] = pid[q] /\ pid[p] # 0 => p = q

(***************************************************************************)
(* The process table: no process in wait() sleeps through a child's exit,  *)
(* no parent pointer dangles, pids tell processes apart, and kill marks    *)
(* the process it is asked to mark and no other.  The last needs that      *)
(* nobody calls kill(0), which marks an unused slot.                       *)
(***************************************************************************)
Relations ==
  /\ TypeOK /\ NoLostWakeup /\ ParentLives /\ DistinctPids
  /\ 0 \notin Targets => KillsOnlyTarget

(***************************************************************************)
(* An orphan does not stay a zombie: once its parent is init, it is reaped *)
(* (reparent wakes init, and exit wakes the parent it finds).              *)
(***************************************************************************)
OrphansReaped ==
  \A p \in Slot : (state[p] = "ZOMBIE" /\ parent[p] = initproc) ~> state[p] = "UNUSED"
===============================================================================
