------------------------------- MODULE Spinlock -------------------------------
(***************************************************************************)
(* Spin-locks and the interrupt enable bit (kernel/spinlock.c), as action  *)
(* fragments for the modules whose processors share locks with interrupt   *)
(* handlers: each operator says what one call does to these variables.     *)
(*                                                                         *)
(* acquire is two steps: push_off, after which the processor spins with    *)
(* interrupts off, and the swap that finds the lock free.                  *)
(***************************************************************************)
EXTENDS Integers, FiniteSets

CONSTANTS CPU, NoCpu, Lock

ASSUME SpinlockAssumption == IsFiniteSet(Lock) /\ NoCpu \notin CPU

VARIABLES locked,  \* lk->locked and lk->cpu: the processor that holds lk
          sie,     \* sstatus.SIE: c takes interrupts
          noff,    \* mycpu()->noff
          intena   \* mycpu()->intena

lockvars == <<locked, sie, noff, intena>>

LockInit ==
  /\ locked = [lk \in Lock |-> NoCpu]
  /\ sie = [c \in CPU |-> TRUE]
  /\ noff = [c \in CPU |-> 0]
  /\ intena = [c \in CPU |-> FALSE]

\* Mutant of push_off: intr_off() is left out.
push_offOn(c) ==
  /\ intena' = [intena EXCEPT ![c] = IF noff[c] = 0 THEN sie[c] ELSE @]
  /\ noff' = [noff EXCEPT ![c] = @ + 1]
  /\ UNCHANGED sie
push_off(c) ==
  /\ sie' = [sie EXCEPT ![c] = FALSE]
  /\ intena' = [intena EXCEPT ![c] = IF noff[c] = 0 THEN sie[c] ELSE @]
  /\ noff' = [noff EXCEPT ![c] = @ + 1]

\* Mutants of pop_off: intena is not looked at; noff is counted down twice.
pop_offOn(c) ==
  /\ noff' = [noff EXCEPT ![c] = @ - 1]
  /\ sie' = [sie EXCEPT ![c] = @ \/ noff[c] = 1]
  /\ UNCHANGED intena
pop_offTwice(c) ==
  /\ noff' = [noff EXCEPT ![c] = @ - (IF intena[c] THEN 1 ELSE 2)]
  /\ sie' = [sie EXCEPT ![c] = @ \/ intena[c]]
  /\ UNCHANGED intena
pop_off(c) ==
  /\ noff' = [noff EXCEPT ![c] = @ - 1]
  /\ sie' = [sie EXCEPT ![c] = @ \/ (noff[c] = 1 /\ intena[c])]
  /\ UNCHANGED intena

\* acquire(lk): the start, and the swap that succeeds.
spin(c) == push_off(c) /\ UNCHANGED locked
swap(c, lk) ==
  /\ locked[lk] = NoCpu
  /\ locked' = [locked EXCEPT ![lk] = c]
  /\ UNCHANGED <<sie, noff, intena>>

holding(c, lk) == locked[lk] = c

release(c, lk) ==
  /\ locked' = [locked EXCEPT ![lk] = NoCpu]
  /\ pop_off(c)

LockTypeOK ==
  /\ locked \in [Lock -> CPU \cup {NoCpu}]
  /\ sie \in [CPU -> BOOLEAN]
  /\ noff \in [CPU -> Nat]
  /\ intena \in [CPU -> BOOLEAN]

HeldBy(c) == {lk \in Lock : holding(c, lk)}
===============================================================================
