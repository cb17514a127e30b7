----------------------------- MODULE MCStageLock -----------------------------
(* A small instance of StageLock: one daemon and two commands. *)
EXTENDS StageLock

CONSTANTS d1, c1, c2
=============================================================================
