-------------------------- MODULE MCTaskLifecycle --------------------------
(* One item of the queue, with the values of the cfg files. *)
EXTENDS TaskLifecycle
=============================================================================
