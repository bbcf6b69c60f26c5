----------------------------- MODULE Scheduler -----------------------------
(***************************************************************************)
(* The choice of a path for each packet (scheduler/scheduler.go): smooth   *)
(* weighted round-robin, called by tunLoop of the client and of the relay, *)
(* while the paths' health and round-trip times change at any time.        *)
(*                                                                         *)
(* Path names are distinct in a session (config.go refuses a second one,   *)
(* the relay appends the id).  A name without entry in the map current has *)
(* credit 0.  Weights are counted in units of 1/(5 * RTTLevels), so that   *)
(* the RTT penalty, at most a fifth, is exact; the rounding of float64 is  *)
(* left out.  Of several paths with the highest credit the code takes the  *)
(* first of its slice, whose order is that of a Go map on the relay: any.  *)
(***************************************************************************)
EXTENDS Integers, FiniteSets, Functions

CONSTANTS
    Paths,
    Weight,          \* ConfiguredWeight; 0 stands for the default 1
    RTTLevels,       \* steps into which the first 500 ms of RTT are divided
    RTTs,            \* round-trip times of each path that occur, in those steps
    Window           \* calls for which shares are counted

ASSUME SchedulerAssumption ==
    /\ IsFiniteSet(Paths)
    /\ Weight \in [Paths -> Nat]
    /\ RTTLevels \in Nat \ {0} /\ RTTs \in [Paths -> SUBSET Nat]
    /\ Window \in Nat

VARIABLES
    current,         \* Scheduler.current: the credit of each path
    healthy,         \* paths whose IsHealthy holds
    rtt,             \* RTT of each path
    watched,         \* observer: the path whose service is counted
    waited,          \* observer: calls since it was chosen or became healthy
    calls,           \* observer: calls since health or RTT of any path changed
    served           \* observer: those that chose the watched path

observer == <<watched, waited, calls, served>>
vars == <<current, healthy, rtt, observer>>

Init ==
    /\ current = [p \in Paths |-> 0]
    /\ healthy \in SUBSET Paths
    /\ rtt = [p \in Paths |-> 0]
    /\ watched \in Paths
    /\ waited = 0 /\ calls = 0 /\ served = 0

Configured(p) == IF Weight[p] = 0 THEN 1 ELSE Weight[p]

Penalty(level) == IF level > RTTLevels THEN RTTLevels ELSE level

EffectiveWeight == [p \in Paths |-> Configured(p) * (5 * RTTLevels - Penalty(rtt[p]))]

Total(active) == SumFunctionOnSet(EffectiveWeight, active)

\* Credit after this round's weights; that of other paths is deleted.
Raised == [p \in Paths |-> IF p \in healthy THEN current[p] + EffectiveWeight[p] ELSE 0]

\* (slip) Any healthy path, as a scheduler without credit would.
SelectableAny(p) == p \in healthy

Selectable(p) == p \in healthy /\ \A q \in healthy : Raised[q] <= Raised[p]

\* (slip) The chosen path pays its own weight only.
ChargedOwn(credit, p) == [credit EXCEPT ![p] = @ - EffectiveWeight[p]]

Charged(credit, p) == [credit EXCEPT ![p] = @ - Total(healthy)]

Count(p) ==
    /\ waited' = IF p = watched \/ watched \notin healthy THEN 0 ELSE waited + 1
    /\ calls' = IF calls = Window THEN 1 ELSE calls + 1
    /\ served' = (IF calls = Window THEN 0 ELSE served) + (IF p = watched THEN 1 ELSE 0)
    /\ UNCHANGED watched

Choose(p) ==
    /\ Selectable(p)
    /\ current' = Charged(Raised, p)
    /\ Count(p)
    /\ UNCHANGED <<healthy, rtt>>

\* Nobody is healthy: the packet is dropped, all credit forgotten.
ChooseNone ==
    /\ healthy = {}
    /\ current' = Raised
    /\ UNCHANGED <<healthy, rtt, observer>>

Recount == calls' = 0 /\ served' = 0 /\ UNCHANGED <<current, watched>>

\* A path falls silent or fails to write, or hears a PONG again.
HealthChanges(p) ==
    /\ healthy' = IF p \in healthy THEN healthy \ {p} ELSE healthy \union {p}
    /\ waited' = IF p = watched THEN 0 ELSE waited
    /\ Recount
    /\ UNCHANGED rtt

RTTChanges(p) ==
    /\ \E level \in RTTs[p] \ {rtt[p]} : rtt' = [rtt EXCEPT ![p] = level]
    /\ Recount
    /\ UNCHANGED <<healthy, waited>>

Next ==
    \/ \E p \in Paths : Choose(p) \/ HealthChanges(p) \/ RTTChanges(p)
    \/ ChooseNone

Spec == Init /\ [][Next]_vars

----------------------------------------------------------------------------
(* Properties *)

\* What all paths together gain in one call at most.
FullWeight == [p \in Paths |-> Configured(p) * 5 * RTTLevels]

FullTotal == SumFunctionOnSet(FullWeight, Paths)

\* Links that come and go let one owe almost all that the others can gain:
\* beside two of weight 1, one of weight 7 reaches 14/9 of FullTotal.
MostCredit == FullTotal * (Cardinality(Paths) - 1)

LeastWeight(p) == Configured(p) * 4 * RTTLevels

\* However the other links flap, and although their credit is deleted with
\* them (which makes the rest owe, or own, more than nothing), no credit
\* drifts away, and a link that stays healthy is chosen again within a number
\* of packets that depends on the weights only ("Every healthy link receives
\* traffic", scheduler.go:19).
NobodyStarves ==
    /\ \A p \in Paths : -MostCredit <= current[p] /\ current[p] <= MostCredit
    /\ waited * LeastWeight(watched) <= 2 * MostCredit

\* While nothing changes, a link gets its weight's share of the packets, up to
\* a number of packets that does not grow with the traffic, whatever credit
\* the changes before have left.
SharesFollowWeights ==
    watched \in healthy =>
        LET off == served * Total(healthy) - calls * EffectiveWeight[watched]
        IN  -2 * MostCredit <= off /\ off <= 2 * MostCredit

=============================================================================
