----------------------------- MODULE MCStaticSyncQueue -------------------------
(* Two threads push and two pop. *)
EXTENDS StaticSyncQueue

CONSTANTS p1, p2, c1, c2

MCProducers == {p1, p2}
TwoConsumers == {c1, c2}
=============================================================================
