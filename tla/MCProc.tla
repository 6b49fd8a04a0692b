-------------------------------- MODULE MCProc --------------------------------
(***************************************************************************)
(* Small instances of Proc, with fairness, and of Clock for TLC.  A        *)
(* behaviour is one of the component named by part; the variables of the   *)
(* other one stay as they are.                                             *)
(***************************************************************************)
EXTENDS Clock
CONSTANTS CPU, NoCpu, NPROC, MaxPid, TimerAt, Targets    \* Proc
VARIABLES part,
          state, chan, marked, pid, parent, lock, wait_lock, nextpid, proc, on, ctx, pc, i, kids,
          panicked

ASSUME UintAssumption == Uints

P == INSTANCE Proc WITH killed <- marked

procVars == <<state, chan, marked, pid, parent, lock, wait_lock, nextpid, proc, on, ctx, pc, i, kids,
              panicked>>

MCInit == part \in {"proc", "clock"} /\ Init /\ P!Init
MCNext ==
  /\ UNCHANGED part
  /\ \/ part = "proc" /\ P!Next /\ UNCHANGED vars
     \/ part = "clock" /\ Next /\ UNCHANGED procVars
\* The fairness is Proc's: of Clock only safety is checked.
MCSpec == MCInit /\ [][MCNext]_<<part, vars, procVars>> /\ P!Fairness
-------------------------------------------------------------------------------
\* Every zombie that belongs to init is reaped (exit, reparent, wait, init's loop).
OrphansReaped == P!OrphansReaped
===============================================================================
