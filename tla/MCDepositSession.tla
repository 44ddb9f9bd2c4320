-------------------------- MODULE MCDepositSession --------------------------
(* A small instance of the session of a drop: the point of sale and another *)
(* operator, which looks at nothing.                                        *)
EXTENDS DepositSession

CONSTANTS pos, screen
PosAndScreen == {pos, screen}
OnlyPos == {pos}
=============================================================================
