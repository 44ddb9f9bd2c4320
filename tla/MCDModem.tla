------------------------------ MODULE MCDModem ------------------------------
(* A small instance of the modem link: a line that may do anything to an item. *)
EXTENDS DModem

AnyDamage == {"lose", "body", "seqno", "send"}
=============================================================================
