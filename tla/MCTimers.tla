------------------------------ MODULE MCTimers ------------------------------
(* A one-shot timer and a periodic one. *)
EXTENDS Timers

CONSTANTS t1, t2

MCTimers == {t1, t2}
MCPeriodic == {t2}
=============================================================================
