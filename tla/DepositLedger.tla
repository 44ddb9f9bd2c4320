---------------------------- MODULE DepositLedger ----------------------------
(***************************************************************************)
(* What the deposit store promises: the bills of a drop are entered in the *)
(* ledger once, together, and no bill is added to a drop that is already   *)
(* in the ledger. A drop is named by its cash and its opening time.        *)
(***************************************************************************)
EXTENDS Naturals

CONSTANTS Cashes, Times, Bills

VARIABLES
    dropped,    \* bills that went into the safe, by drop
    booked      \* bills entered in the ledger, by drop

NoBills == [b \in Bills |-> 0]
Empty == [c \in Cashes |-> [t \in Times |-> NoBills]]

Init == dropped = Empty /\ booked = Empty

Drop(c, t, b) ==
    /\ booked[c][t] = NoBills
    /\ dropped' = [dropped EXCEPT ![c][t][b] = @ + 1]
    /\ UNCHANGED booked

Book(c, t) ==
    /\ booked[c][t] = NoBills /\ dropped[c][t] # NoBills
    /\ booked' = [booked EXCEPT ![c][t] = dropped[c][t]]
    /\ UNCHANGED dropped

Next == \E c \in Cashes, t \in Times : Book(c, t) \/ \E b \in Bills : Drop(c, t, b)

Spec == Init /\ [][Next]_<<dropped, booked>>
=============================================================================
