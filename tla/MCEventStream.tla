--------------------------- MODULE MCEventStream ---------------------------
(* The event stream, with the values of the cfg files. *)
EXTENDS EventStream
=============================================================================
