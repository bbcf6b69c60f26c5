---------------------------- MODULE MCScheduler ----------------------------
(***************************************************************************)
(* Three uplinks: the one of least weight has none configured, and the     *)
(* round-trip time of the heaviest grows beyond the 500 ms that count.     *)
(***************************************************************************)
EXTENDS Scheduler

CONSTANTS wifi, usb, lte

MCWeight == [p \in Paths |-> CASE p = wifi -> 2 [] p = usb -> 0 [] p = lte -> 5]

MCRTTs == [p \in Paths |-> IF p = lte THEN {0, 2} ELSE {0}]

=============================================================================
