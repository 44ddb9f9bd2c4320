-------------------------- MODULE MCInnerOuterDoors --------------------------
(* Small instances of InnerOuterDoors: a collector, and support who may be   *)
(* the second key and is excused from the time delay.                        *)
EXTENDS InnerOuterDoors

CONSTANTS collector, support

MCUsers == {collector, support}
MCDual == {<<collector, support>>}
MCOverride == {support}
=============================================================================
