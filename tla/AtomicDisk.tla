------------------------------ MODULE AtomicDisk ------------------------------
(***************************************************************************)
(* What the logging layer of the file system (kernel/log.c) promises to    *)
(* the file-system calls above it.                                         *)
(*                                                                         *)
(* The calls see one array of blocks, mem.  A crash throws mem away and    *)
(* brings back durable, and durable only ever changes by becoming equal to *)
(* mem at a moment when no call is between its begin_op and its end_op: a  *)
(* crash keeps all the writes of a call or none of them.                   *)
(***************************************************************************)
CONSTANTS Proc,   \* processes that make file-system calls
          Block,  \* block numbers
          Val     \* contents of a block

VARIABLES mem,      \* block contents the running system sees
          durable,  \* block contents a reboot would bring back
          active    \* processes inside a file-system call

vars == <<mem, durable, active>>

Init ==
  /\ mem \in [Block -> Val]
  /\ durable = mem
  /\ active = {}

Begin(p) ==
  /\ p \notin active
  /\ active' = active \cup {p}
  /\ UNCHANGED <<mem, durable>>

Write(p, b, v) ==
  /\ p \in active
  /\ mem' = [mem EXCEPT ![b] = v]
  /\ UNCHANGED <<durable, active>>

End(p) ==
  /\ p \in active
  /\ active' = active \ {p}
  /\ UNCHANGED <<mem, durable>>

Sync ==
  /\ active = {}
  /\ durable' = mem
  /\ UNCHANGED <<mem, active>>

Crash ==
  /\ mem' = durable
  /\ active' = {}
  /\ UNCHANGED durable

Next ==
  \/ \E p \in Proc : Begin(p) \/ End(p)
  \/ \E p \in Proc, b \in Block, v \in Val : Write(p, b, v)
  \/ Sync
  \/ Crash

Spec == Init /\ [][Next]_vars
===============================================================================
