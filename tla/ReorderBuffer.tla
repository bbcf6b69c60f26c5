--------------------------- MODULE ReorderBuffer ---------------------------
(***************************************************************************)
(* reorder.Buffer (internal/reorder/reorder.go) under its two callers: the *)
(* receive loop, which pushes every authenticated DATA packet, and the     *)
(* ticker (reorderLoop of the relay and of the client), which flushes the  *)
(* expired gap.  Both call it and hand the result to the TUN device under  *)
(* one deliverMu, so a call and its delivery are one step.                 *)
(*                                                                         *)
(* Time is counted in ticks.  gapSince is kept as the age of the gap, and  *)
(* Tick is not enabled while a flush is due: the ticker is assumed to run  *)
(* on time, which the deadlines below are relative to.                     *)
(***************************************************************************)
EXTENDS Integers, Sequences, FiniteSets

CONSTANTS
    Numbers,         \* the global sequence numbers that can arrive
    MaxPackets,      \* Buffer.maxPackets (512 by default, at least 16)
    MaxDelay,        \* Buffer.maxDelay, in ticks (80 ms)
    FlushEvery       \* period of the flushing ticker, in ticks (10 ms)

\* ParseData rejects sequence number 0
ASSUME NumbersAssumption == Numbers \subseteq Nat \ {0}
ASSUME LimitsAssumption ==
    MaxPackets \in Nat \ {0} /\ MaxDelay \in Nat \ {0} /\ FlushEvery \in Nat \ {0}

VARIABLES
    expected,        \* Buffer.expected
    pending,         \* the keys of Buffer.pending
    gapAge,          \* now - Buffer.gapSince, or NoGap for the zero time
    sinceFlush,      \* ticks since the ticker last called FlushExpired
    delivered,       \* history: what the TUN device received, in order
    skipped,         \* history: the sum of Result.Skipped (ReorderSkips)
    stalled,         \* history: ticks since packets wait for this expected
    waited,          \* history: ticks a pending number has waited
    joined           \* history: expected when that number was pushed

buffer == <<expected, pending, gapAge>>
history == <<delivered, skipped, stalled, waited, joined>>
vars == <<buffer, sinceFlush, history>>

NoGap == -1

Init ==
    /\ expected = 1
    /\ pending = {}
    /\ gapAge = NoGap
    /\ sinceFlush = 0
    /\ delivered = <<>>
    /\ skipped = 0
    /\ stalled = 0
    /\ waited = [s \in Numbers |-> 0]
    /\ joined = [s \in Numbers |-> 0]

\* The first number from `first' on that is not in the finite set held
EndOfRun(first, held) ==
    CHOOSE n \in first .. first + Cardinality(held) :
        n \notin held /\ \A k \in first .. n - 1 : k \in held

Lowest(held) == CHOOSE m \in held : \A k \in held : m <= k

\* (slip) a drain that always stops the timer
GapAgeStopped(held) == NoGap

\* The tail of drain: the next gap is timed from now
GapAgeAfterDrain(held) == IF held = {} THEN NoGap ELSE 0

\* The observers follow every change of expected and pending
Observe(s) ==
    /\ stalled' = IF expected' # expected \/ pending' = {} \/ pending = {} THEN 0 ELSE stalled
    /\ waited' = [k \in Numbers |-> IF k \in pending' THEN waited[k] ELSE 0]
    /\ joined' = [k \in Numbers |-> IF k \notin pending' THEN 0
                                    ELSE IF k = s THEN expected ELSE joined[k]]

\* drain: deliver the run of numbers that starts at first
Drain(first, held) ==
    LET end == EndOfRun(first, held)
    IN  /\ expected' = end
        /\ pending' = held \ (first .. end - 1)
        /\ gapAge' = GapAgeAfterDrain(pending')
        /\ delivered' = delivered \o [i \in 1 .. end - first |-> first + i - 1]

\* (slip) the skipped numbers are counted one short
ForceDrainUndercounted(held) ==
    /\ Drain(Lowest(held), held)
    /\ skipped' = skipped + Lowest(held) - expected - 1

\* (slip) the whole buffer is released at once, over the gaps inside it
ForceDrainAll(held) ==
    LET last == CHOOSE m \in held : \A k \in held : m >= k
        nth(i) == CHOOSE m \in held : Cardinality({k \in held : k < m}) = i - 1
    IN  /\ expected' = last + 1
        /\ pending' = {}
        /\ gapAge' = NoGap
        /\ delivered' = delivered \o [i \in 1 .. Cardinality(held) |-> nth(i)]
        /\ skipped' = skipped + last + 1 - expected - Cardinality(held)

\* forceDrain: give up everything below the lowest number held
ForceDrain(held) ==
    /\ Drain(Lowest(held), held)
    /\ skipped' = skipped + Lowest(held) - expected

\* Push of a number already passed, or already held: nothing happens
PushDropped(s) ==
    /\ s < expected \/ s \in pending
    /\ UNCHANGED vars

\* Push of the number the buffer waits for
PushExpected(s) ==
    /\ s = expected
    /\ Drain(s, pending \union {s})
    /\ Observe(s)
    /\ UNCHANGED <<sinceFlush, skipped>>

\* (slips) the timer restarts with every early packet; the size test is
\* strict; a number already passed is not dropped
GapAgeRestarted == 0
OverfullLate(held) == Cardinality(held) > MaxPackets
EarlyUnchecked(s) == s # expected /\ s \notin pending

GapAgeOnPush == IF gapAge = NoGap THEN 0 ELSE gapAge

Overfull(held) == Cardinality(held) >= MaxPackets

Early(s) == s > expected /\ s \notin pending

\* Push of a later number that is only stored
PushStored(s) ==
    LET held == pending \union {s}
    IN  /\ Early(s)
        /\ ~Overfull(held)
        /\ GapAgeOnPush < MaxDelay
        /\ pending' = held
        /\ gapAge' = GapAgeOnPush
        /\ UNCHANGED <<expected, sinceFlush, delivered, skipped>>
        /\ Observe(s)

\* Push of a later number that fills the buffer, or finds the gap expired
PushForced(s) ==
    LET held == pending \union {s}
    IN  /\ Early(s)
        /\ Overfull(held) \/ GapAgeOnPush >= MaxDelay
        /\ ForceDrain(held)
        /\ Observe(s)
        /\ UNCHANGED sinceFlush

Push(s) == PushDropped(s) \/ PushExpected(s) \/ PushStored(s) \/ PushForced(s)

\* (slip) the deadline test is strict
ExpiredLate == pending # {} /\ gapAge > MaxDelay

Expired == pending # {} /\ gapAge >= MaxDelay

FlushExpired ==
    /\ sinceFlush' = 0
    /\ \/ Expired /\ ForceDrain(pending) /\ Observe(0)
       \/ ~Expired /\ UNCHANGED <<buffer, history>>

\* The client rejoins: Reset empties the buffer and the peer restarts at 1
Reset ==
    /\ expected' = 1
    /\ pending' = {}
    /\ gapAge' = NoGap
    /\ delivered' = <<>>
    /\ skipped' = 0
    /\ Observe(0)
    /\ UNCHANGED sinceFlush

\* maxDelay and a period of the ticker
Deadline == MaxDelay + FlushEvery - 1

\* The observers of waiting stop once past the bounds stated of them
Longer(wait, limit) == IF wait > limit THEN wait ELSE wait + 1

Tick ==
    /\ sinceFlush < FlushEvery
    /\ sinceFlush' = sinceFlush + 1
    /\ gapAge' = IF gapAge = NoGap THEN NoGap ELSE gapAge + 1
    /\ stalled' = IF pending = {} THEN 0 ELSE Longer(stalled, Deadline)
    /\ waited' = [k \in Numbers |-> IF k \in pending
                                    THEN Longer(waited[k], k * Deadline) ELSE 0]
    /\ UNCHANGED <<expected, pending, delivered, skipped, joined>>

Next == (\E s \in Numbers : Push(s)) \/ FlushExpired \/ Reset \/ Tick

Spec == Init /\ [][Next]_vars

\* Time passes and the ticker fires; nothing is assumed of the network
FairSpec == Spec /\ WF_vars(Tick) /\ WF_vars(FlushExpired)

-----------------------------------------------------------------------------
(* Types of the buffer's fields and of the observers. *)
TypeOK ==
    /\ expected \in Nat \ {0}
    /\ pending \subseteq Numbers
    /\ IsFiniteSet(pending)
    /\ gapAge \in Nat \union {NoGap}
    /\ sinceFlush \in 0 .. FlushEvery
    /\ delivered \in Seq(Nat)
    /\ skipped \in Nat
    /\ stalled \in Nat
    /\ waited \in [Numbers -> Nat]
    /\ joined \in [Numbers -> Nat]

(* Packets reach the TUN device in the order of their numbers, none twice, *)
(* whatever order Push received them in and whichever gaps were skipped.   *)
InOrder ==
    \A i, j \in 1 .. Len(delivered) : i < j => delivered[i] < delivered[j]

(* Every number below expected was either delivered or counted once in     *)
(* Result.Skipped, so ReorderSkips is the exact loss seen by the tunnel.   *)
Accounted == Len(delivered) + skipped = expected - 1

(* Nothing deliverable is held back: every packet still in the map lies    *)
(* beyond the number waited for, also after drain and forceDrain.          *)
HeldBeyondExpected == \A k \in pending : k > expected

(* The map stays below maxPackets between calls (docs/protocol.md:86).     *)
Bounded == Cardinality(pending) < MaxPackets

(* The timer runs exactly while packets are held: a stopped timer with     *)
(* packets in the map would leave FlushExpired blind to them for ever.     *)
TimerRunsIffHolding == pending = {} <=> gapAge = NoGap

(* A number that packets wait for at the head of the buffer is given up    *)
(* within maxDelay plus one ticker period, however many packets keep       *)
(* arriving behind it.                                                     *)
HeadGapBounded == stalled <= Deadline

(* The time a packet is held is bounded by one deadline for each number    *)
(* that could still be missing in front of it when it was pushed.          *)
WaitBoundedPerGap ==
    \A k \in pending : waited[k] <= (k - joined[k]) * Deadline

(* No packet is held for ever: it is delivered once its gaps are given up, *)
(* without any further packet having to arrive.                            *)
HeldEventuallyReleased == \A s \in Numbers : s \in pending ~> s \notin pending

=============================================================================
