------------------------------- MODULE MCDebugLog -------------------------------
(* A queue of two events and six calls: it overflows, and the clock starts again. *)
EXTENDS DebugLog
================================================================================
