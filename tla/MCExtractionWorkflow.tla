------------------------- MODULE MCExtractionWorkflow -------------------------
(* Small instances of ExtractionWorkflow. A collector waits for the time     *)
(* delay, support is excused from it, a cashier has no access to the door;   *)
(* support may be the second of two keys but not the first.                  *)
EXTENDS ExtractionWorkflow

CONSTANTS collector, support, cashier

MCKeyHolders == {collector, support}
MCCollector == {collector}
MCCollectorAndCashier == {collector, cashier}
MCDual == {<<collector, support>>}
MCOverride == {support}
=============================================================================
