------------------------------ MODULE MCRefill ------------------------------
(* The refill, with the values of the cfg files. *)
EXTENDS Refill
=============================================================================
