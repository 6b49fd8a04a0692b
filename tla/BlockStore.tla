------------------------------ MODULE BlockStore ------------------------------
(***************************************************************************)
(* What the buffer cache promises: the latest contents of every block, to  *)
(* one process at a time.                                                  *)
(***************************************************************************)
CONSTANTS Proc, NoProc, Block, Value

VARIABLES mem,    \* mem[b]: the contents of block b
          owner   \* owner[b]: the process that has b locked

Init ==
  /\ mem \in [Block -> Value]
  /\ owner = [b \in Block |-> NoProc]

Lock(p, b) ==
  /\ owner[b] = NoProc
  /\ owner' = [owner EXCEPT ![b] = p]
  /\ UNCHANGED mem

Modify(p, b, v) ==
  /\ owner[b] = p
  /\ mem' = [mem EXCEPT ![b] = v]
  /\ UNCHANGED owner

Unlock(p, b) ==
  /\ owner[b] = p
  /\ owner' = [owner EXCEPT ![b] = NoProc]
  /\ UNCHANGED mem

Next == \E p \in Proc, b \in Block :
  Lock(p, b) \/ Unlock(p, b) \/ \E v \in Value : Modify(p, b, v)

Spec == Init /\ [][Next]_<<mem, owner>>
===============================================================================
