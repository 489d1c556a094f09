---------------------------- MODULE MCAdmission ----------------------------
(* Admission for TLC: the cfg files give the constants small values.       *)
EXTENDS Admission
=============================================================================
