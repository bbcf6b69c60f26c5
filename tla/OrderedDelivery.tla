-------------------------- MODULE OrderedDelivery --------------------------
(***************************************************************************)
(* What a reorder buffer promises the TUN device behind it, with nothing   *)
(* said of buffering or time: the sender's numbers come out in order and   *)
(* at most once, and the numbers that never come out are exactly those it  *)
(* reports as skipped.                                                     *)
(***************************************************************************)
EXTENDS Integers, Sequences

CONSTANT Counts      \* the amounts a step may skip or deliver

VARIABLES delivered, skipped

\* The last number of the stream that was delivered or given up
Position == Len(delivered) + skipped

Init == delivered = <<>> /\ skipped = 0

\* Give up the next lost numbers, then deliver the n numbers after them
Deliver(lost, n) ==
    /\ skipped' = skipped + lost
    /\ delivered' = delivered \o [i \in 1 .. n |-> Position + lost + i]

\* The peer starts a new stream at 1
Restart == delivered' = <<>> /\ skipped' = 0

Next == Restart \/ \E lost \in Counts, n \in Counts \ {0} : Deliver(lost, n)

Spec == Init /\ [][Next]_<<delivered, skipped>>

=============================================================================
