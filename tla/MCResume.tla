------------------------------ MODULE MCResume ------------------------------
(* The automatic resume, with the values of the cfg files. *)
EXTENDS Resume
=============================================================================
