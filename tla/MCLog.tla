-------------------------------- MODULE MCLog ---------------------------------
(* A small instance of Log for TLC. *)
EXTENDS Log
===============================================================================
