-------------------------- MODULE MCDepositRecovery --------------------------
(* Small instances of DepositRecovery: two cashes, notes of 10 and 20. *)
EXTENDS DepositRecovery

CONSTANTS cash1, cash2

MCCashes == {cash1, cash2}
MCOneCash == {cash1}
MCBills == {10, 20}
=============================================================================
