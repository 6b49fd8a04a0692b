------------------------------- MODULE MCVirtio -------------------------------
(* Virtio with fairness, and with too few descriptors, for TLC. *)
EXTENDS Virtio
===============================================================================
