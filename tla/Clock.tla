-------------------------------- MODULE Clock ---------------------------------
(***************************************************************************)
(* Ticks: clockintr (kernel/trap.c), sys_sleep and sys_uptime              *)
(* (kernel/sysproc.c), with sleep, wakeup and kill as they act on a        *)
(* process that waits for ticks (kernel/proc.c).                           *)
(***************************************************************************)
EXTENDS Integers

CONSTANTS Sleeper, Nobody,
          WORD,     \* ticks, a uint, counts modulo WORD
          Times     \* arguments of sleep, as sys_sleep converts them to unsigned

\* ticks and n are uints; Nobody is no process.
Uints == WORD \in Nat \ {0} /\ Times \subseteq 0..(WORD - 1) /\ Nobody \notin Sleeper

VARIABLES ticks, tickslock,
          at,       \* of each process: "user", or its place in sys_sleep
          n, ticks0, killed,
          passed,   \* history: ticks since the call
          since     \* history: ticks since it was killed in sys_sleep

vars == <<ticks, tickslock, at, n, ticks0, killed, passed, since>>

Places == {"user", "loop", "sleep", "SLEEPING", "woken"}
Set(f, p, v) == [f EXCEPT ![p] = v]

\* acquire(&tickslock); ticks0 = ticks
sys_sleep(p) ==
  /\ at[p] = "user" /\ tickslock = Nobody
  /\ \E k \in Times : n' = Set(n, p, k)
  /\ ticks0' = Set(ticks0, p, ticks) /\ passed' = Set(passed, p, 0)
  /\ tickslock' = p /\ at' = Set(at, p, "loop")
  /\ UNCHANGED <<ticks, killed, since>>

\* Mutants of Due: the difference is not unsigned; the first tick counts in full.
DueSigned(p) == ticks - ticks0[p] >= n[p]
DueEarly(p) == ((ticks - ticks0[p]) % WORD) + 1 >= n[p]
Due(p) == (ticks - ticks0[p]) % WORD >= n[p]

\* The test of the loop and the one of killed, before sleep.  A process that leaves
\* killed exits; another one takes its place.
loop_in(p, leaves) ==
  /\ at[p] = "loop" /\ tickslock = p
  /\ IF leaves
     THEN /\ tickslock' = Nobody /\ at' = Set(at, p, "user")
          /\ n' = Set(n, p, 0) /\ ticks0' = Set(ticks0, p, 0) /\ passed' = Set(passed, p, 0)
          /\ killed' = Set(killed, p, FALSE) /\ since' = Set(since, p, 0)
     ELSE /\ at' = Set(at, p, "sleep")
          /\ UNCHANGED <<tickslock, n, ticks0, passed, killed, since>>
  /\ UNCHANGED ticks
\* Mutant of loop: killed is not asked for.
loopDeaf(p) == loop_in(p, Due(p))
loop(p) == loop_in(p, Due(p) \/ killed[p])

\* sleep: p is SLEEPING before another process gets tickslock.
sleep(p) ==
  /\ at[p] = "sleep" /\ at' = Set(at, p, "SLEEPING")
  /\ tickslock' = Nobody
  /\ UNCHANGED <<ticks, n, ticks0, killed, passed, since>>

\* Woken, it takes tickslock again.
wakes(p) ==
  /\ at[p] = "woken" /\ tickslock = Nobody
  /\ tickslock' = p /\ at' = Set(at, p, "loop")
  /\ UNCHANGED <<ticks, n, ticks0, killed, passed, since>>

\* kill finds p anywhere, without tickslock; it wakes p only if p is SLEEPING by then.
kill(p) ==
  /\ at[p] # "user" /\ ~killed[p]
  /\ killed' = Set(killed, p, TRUE)
  /\ at' = Set(at, p, IF at[p] = "SLEEPING" THEN "woken" ELSE at[p])
  /\ UNCHANGED <<ticks, tickslock, n, ticks0, passed, since>>

\* A woken process gets tickslock before ticks has gone all the way round since it called.
Scheduled == \A p \in Sleeper : at[p] # "user" => passed[p] < WORD - 1

clockintr_in(t) ==
  /\ tickslock = Nobody /\ Scheduled
  /\ ticks' = t
  /\ at' = [p \in Sleeper |-> IF at[p] = "SLEEPING" THEN "woken" ELSE at[p]]
  /\ passed' = [p \in Sleeper |-> IF at[p] = "user" THEN 0 ELSE passed[p] + 1]
  /\ since' = [p \in Sleeper |-> IF killed[p] THEN 1 ELSE 0]
  /\ UNCHANGED <<tickslock, n, ticks0, killed>>
\* Mutant of clockintr: the counter does not wrap.
clockintrWide == clockintr_in(ticks + 1)
clockintr == clockintr_in((ticks + 1) % WORD)

Init ==
  /\ ticks = 0 /\ tickslock = Nobody /\ at = [p \in Sleeper |-> "user"]
  /\ n = [p \in Sleeper |-> 0] /\ ticks0 = n /\ passed = n /\ since = n
  /\ killed = [p \in Sleeper |-> FALSE]

Next ==
  \/ \E p \in Sleeper : sys_sleep(p) \/ loop(p) \/ sleep(p) \/ wakes(p) \/ kill(p)
  \/ clockintr

Spec == Init /\ [][Next]_vars
-------------------------------------------------------------------------------
TypeOK ==
  /\ ticks \in 0..(WORD - 1) /\ tickslock \in Sleeper \cup {Nobody}
  /\ at \in [Sleeper -> Places] /\ killed \in [Sleeper -> BOOLEAN]

\* No process sleeps on when its time has come: each tick finds every sleeper asleep or
\* on its way to test the time again, also when ticks wraps around.
NotOverdue == \A p \in Sleeper : at[p] = "SLEEPING" => passed[p] < n[p]

\* sleep(n) that is not killed returns after n ticks at the earliest.
SleepsEnough ==
  [][\A p \in Sleeper : at[p] = "loop" /\ at'[p] = "user" => killed[p] \/ passed[p] >= n[p]]_vars

\* kill between the test of killed and sleep is not seen until the next tick, and no
\* longer: a killed process sleeps through no tick.
KilledLeaves == \A p \in Sleeper : at[p] = "SLEEPING" /\ killed[p] => since[p] = 0

\* A process asleep in sys_sleep is not due and does not sleep through a tick after kill.
Wakeups == TypeOK /\ NotOverdue /\ KilledLeaves
===============================================================================
