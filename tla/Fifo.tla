--------------------------------- MODULE Fifo ---------------------------------
(***************************************************************************)
(* What a pipe promises: a bounded queue of bytes with two ends that are   *)
(* closed once.  Bytes come out in the order they went in; nothing goes in *)
(* once the read end is closed, nothing once the write end is closed.      *)
(***************************************************************************)
EXTENDS Naturals, Sequences

CONSTANTS Byte, Capacity

VARIABLES q, ropen, wopen

vars == <<q, ropen, wopen>>

Init == q = <<>> /\ ropen = TRUE /\ wopen = TRUE

Put(b) ==
  /\ ropen /\ wopen /\ Len(q) < Capacity
  /\ q' = Append(q, b)
  /\ UNCHANGED <<ropen, wopen>>

Get ==
  /\ ropen /\ q # <<>>
  /\ q' = Tail(q)
  /\ UNCHANGED <<ropen, wopen>>

CloseRead ==
  /\ ropen /\ ropen' = FALSE
  /\ UNCHANGED <<q, wopen>>

CloseWrite ==
  /\ wopen /\ wopen' = FALSE
  /\ UNCHANGED <<q, ropen>>

Next == Get \/ CloseRead \/ CloseWrite \/ \E b \in Byte : Put(b)

Spec == Init /\ [][Next]_vars
===============================================================================
