------------------------------ MODULE MCTimers ------------------------------
(* Model-checking instance of Timers. *)
EXTENDS Timers
=============================================================================
