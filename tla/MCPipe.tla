-------------------------------- MODULE MCPipe --------------------------------
(* Small instances of Pipe, with and without fairness, for TLC. *)
EXTENDS Pipe
===============================================================================
