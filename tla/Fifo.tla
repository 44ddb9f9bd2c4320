-------------------------------- MODULE Fifo --------------------------------
(***************************************************************************)
(* What the threads that share a StaticSyncQueue rely on: elements come    *)
(* out once each, in the order in which they went in.                      *)
(***************************************************************************)
EXTENDS Sequences

CONSTANT Element

VARIABLES
    contents,   \* the elements in the queue, the oldest first
    out         \* the elements taken, in order

Init == contents = <<>> /\ out = <<>>

Put(e) == contents' = Append(contents, e) /\ UNCHANGED out

Get ==
    /\ contents # <<>>
    /\ out' = Append(out, Head(contents)) /\ contents' = Tail(contents)

Next == Get \/ \E e \in Element : Put(e)

Spec == Init /\ [][Next]_<<contents, out>>
=============================================================================
