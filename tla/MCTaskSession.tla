---------------------------- MODULE MCTaskSession ----------------------------
(* Instances of TaskSession for TLC. *)
EXTENDS TaskSession

CONSTANTS t1, t2
=============================================================================
