------------------------------ MODULE MCKernel --------------------------------
(* A small instance of Proc for TLC. *)
EXTENDS Proc, TLC

\* Slots of the process table are not interchangeable (loops go in table order).
Symmetry == Permutations(CPU)
===============================================================================
