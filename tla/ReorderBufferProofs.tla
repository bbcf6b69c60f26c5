------------------------ MODULE ReorderBufferProofs ------------------------
(***************************************************************************)
(* The safety properties of reorder.Buffer for every set of numbers, every *)
(* buffer size and every deadline, and the proof that it implements        *)
(* OrderedDelivery.                                                        *)
(*                                                                         *)
(* What makes the properties inductive: what was delivered lies below      *)
(* expected (DeliveredBelow), and the age of the gap grows only between    *)
(* two flushes (GapTimed), during which the observer stalled agrees with   *)
(* the timer of the code.                                                  *)
(***************************************************************************)
EXTENDS ReorderBuffer, FiniteSetTheorems, WellFoundedInduction, SequenceTheorems, TLAPS

(* A set of naturals that has a member has a least one. *)
LEMMA LeastMember ==
  ASSUME NEW S, S \subseteq Nat, S # {}
  PROVE  \E m \in S : \A k \in S : m <= k
<1> DEFINE R == OpToRel(<, Nat)
<1>1. IsWellFoundedOn(R, Nat)
  BY NatLessThanWellFounded
<1>2. \A x, y \in Nat : <<x, y>> \in R <=> x < y
  BY DEF OpToRel
<1> HIDE DEF R
<1>3. PICK m \in S : \A k \in S : ~ (<<k, m>> \in R)
  BY <1>1, WFMin
<1>4. ASSUME NEW k \in S PROVE m <= k
  <2>1. m \in Nat /\ k \in Nat
    OBVIOUS
  <2>2. ~ (k < m)
    BY <1>2, <1>3, <2>1
  <2> QED BY <2>1, <2>2
<1> QED BY <1>4

(* forceDrain's choice: the lowest held number. *)
LEMMA LowestIsLeast ==
  ASSUME NEW held, held \subseteq Nat, held # {}
  PROVE  Lowest(held) \in held /\ \A k \in held : Lowest(held) <= k
  BY LeastMember DEF Lowest

(* drain's loop ends, and delivers exactly the unbroken run from first. *)
LEMMA EndOfRunIsMissing ==
  ASSUME NEW first \in Nat, NEW held, held \subseteq Nat, IsFiniteSet(held)
  PROVE  LET end == EndOfRun(first, held)
         IN  /\ end \in Nat
             /\ end >= first
             /\ end \notin held
             /\ \A k \in first .. end - 1 : k \in held
<1> DEFINE Span == first .. first + Cardinality(held)
           Gaps == Span \ held
<1>1. Cardinality(held) \in Nat
  BY FS_CardinalityType
<1>2. Cardinality(Span) = Cardinality(held) + 1
  BY <1>1, FS_Interval
<1>3. Gaps # {}
  <2> SUFFICES ASSUME Gaps = {} PROVE FALSE
    OBVIOUS
  <2>1. Span \in SUBSET held
    OBVIOUS
  <2>2. Cardinality(Span) <= Cardinality(held)
    BY <2>1, FS_Subset
  <2> QED BY <1>1, <1>2, <2>2
<1>4. Gaps \subseteq Nat
  BY <1>1
<1>5. PICK n \in Gaps : \A k \in Gaps : n <= k
  BY <1>3, <1>4, LeastMember
<1>6. \A k \in first .. n - 1 : k \in held
  BY <1>1, <1>5
<1>7. \E m \in Span : m \notin held /\ \A k \in first .. m - 1 : k \in held
  BY <1>5, <1>6
<1>8. /\ EndOfRun(first, held) \in Span
      /\ EndOfRun(first, held) \notin held
      /\ \A k \in first .. EndOfRun(first, held) - 1 : k \in held
  BY <1>7 DEF EndOfRun
<1> QED BY <1>1, <1>8

-----------------------------------------------------------------------------
DeliveredBelow == \A i \in 1 .. Len(delivered) : delivered[i] < expected

GapTimed ==
    IF pending = {}
    THEN stalled = 0
    ELSE gapAge = stalled /\ gapAge <= MaxDelay - 1 + sinceFlush

Inv1 ==
    /\ TypeOK
    /\ InOrder
    /\ DeliveredBelow
    /\ Accounted
    /\ HeldBeyondExpected
    /\ Bounded
    /\ TimerRunsIffHolding
    /\ GapTimed

(* What one drain does to the stream, used by every action that delivers:  *)
(* from a run of held numbers that starts at or after expected.            *)
LEMMA DrainStep ==
  ASSUME Inv1, NEW first \in Nat \ {0}, NEW held, held \subseteq Numbers, IsFiniteSet(held),
         first \in held, first >= expected,
         \A k \in held : k >= first,
         Drain(first, held)
  PROVE  LET n == expected' - first
         IN  /\ n \in Nat \ {0}
             /\ expected' \in Nat \ {0}
             /\ expected' > expected
             /\ pending' \subseteq held \ {first}
             /\ \A k \in pending' : k > expected'
             /\ IsFiniteSet(pending')
             /\ gapAge' = IF pending' = {} THEN NoGap ELSE 0
             /\ delivered' = delivered \o [i \in 1 .. n |-> first + i - 1]
             /\ delivered' \in Seq(Nat)
             /\ Len(delivered') = Len(delivered) + n
             /\ InOrder'
             /\ DeliveredBelow'
<1> USE NumbersAssumption
<1> DEFINE end == EndOfRun(first, held)
           n == end - first
           run == [i \in 1 .. n |-> first + i - 1]
<1>1. /\ end \in Nat
      /\ end >= first
      /\ end \notin held
      /\ \A k \in first .. end - 1 : k \in held
  BY EndOfRunIsMissing
<1>2. expected' = end /\ pending' = held \ (first .. end - 1)
      /\ gapAge' = (IF pending' = {} THEN NoGap ELSE 0)
      /\ delivered' = delivered \o run
  BY DEF Drain, GapAgeAfterDrain
<1>3. end > first
  BY <1>1
<1> HIDE DEF end
<1>4. n \in Nat \ {0}
  BY <1>1, <1>3
<1>5. run \in Seq(Nat) /\ Len(run) = n
  <2>1. run \in [1 .. n -> Nat]
    BY <1>1, <1>4
  <2>2. run \in Seq(Nat)
    BY <2>1, <1>4, SeqDef
  <2>3. DOMAIN run = 1 .. Len(run) /\ Len(run) \in Nat
    BY <2>2, LenProperties
  <2> HIDE DEF n
  <2>4. DOMAIN run = 1 .. n
    OBVIOUS
  <2>5. Len(run) = n
    BY <1>4, <2>3, <2>4
  <2> QED BY <2>2, <2>5
<1>6. delivered \in Seq(Nat) /\ expected \in Nat \ {0}
  BY DEF Inv1, TypeOK
<1>7. /\ delivered' \in Seq(Nat)
      /\ Len(delivered') = Len(delivered) + n
      /\ \A i \in 1 .. Len(delivered) + n :
            delivered'[i] = IF i <= Len(delivered) THEN delivered[i] ELSE run[i - Len(delivered)]
  BY <1>2, <1>5, <1>6, ConcatProperties
<1>8. Len(delivered) \in Nat /\ delivered \in [1 .. Len(delivered) -> Nat]
  BY <1>6, LenProperties
<1>9. \A i \in 1 .. Len(delivered) : delivered'[i] = delivered[i] /\ delivered[i] < first
  <2> SUFFICES ASSUME NEW i \in 1 .. Len(delivered)
               PROVE  delivered'[i] = delivered[i] /\ delivered[i] < first
    OBVIOUS
  <2>1. i \in 1 .. Len(delivered) + n /\ i <= Len(delivered)
    BY <1>4, <1>8
  <2>2. delivered'[i] = delivered[i]
    BY <1>7, <2>1
  <2>3. delivered[i] < expected /\ delivered[i] \in Nat
    BY <1>8 DEF Inv1, DeliveredBelow
  <2> QED BY <1>6, <2>2, <2>3
<1>10. \A i \in Len(delivered) + 1 .. Len(delivered) + n :
          delivered'[i] = first + (i - Len(delivered)) - 1
  <2> SUFFICES ASSUME NEW i \in Len(delivered) + 1 .. Len(delivered) + n
               PROVE  delivered'[i] = first + (i - Len(delivered)) - 1
    OBVIOUS
  <2>1. i \in 1 .. Len(delivered) + n /\ ~ (i <= Len(delivered)) /\ i - Len(delivered) \in 1 .. n
    BY <1>4, <1>8
  <2> HIDE DEF n
  <2>2. delivered'[i] = run[i - Len(delivered)]
    BY <1>7, <2>1
  <2> QED BY <2>1, <2>2
<1>11. InOrder'
  <2> SUFFICES ASSUME NEW i \in 1 .. Len(delivered'), NEW j \in 1 .. Len(delivered'), i < j
               PROVE  delivered'[i] < delivered'[j]
    BY DEF InOrder
  <2>0. i \in Nat /\ j \in Nat /\ j <= Len(delivered) + n /\ i >= 1 /\ j >= 1
    BY <1>4, <1>7, <1>8
  <2>1. CASE j <= Len(delivered)
    <3>1. i \in 1 .. Len(delivered) /\ j \in 1 .. Len(delivered)
      BY <1>8, <2>0, <2>1
    <3>2. delivered[i] < delivered[j]
      BY <3>1 DEF Inv1, InOrder
    <3> QED BY <1>9, <3>1, <3>2
  <2>2. CASE i <= Len(delivered) /\ j > Len(delivered)
    <3>1. i \in 1 .. Len(delivered) /\ j \in Len(delivered) + 1 .. Len(delivered) + n
      BY <1>4, <1>8, <2>0, <2>2
    <3>2. delivered'[i] < first /\ delivered'[i] \in Nat
      BY <1>8, <1>9, <3>1
    <3>3. delivered'[j] = first + (j - Len(delivered)) - 1
      BY <1>10, <3>1
    <3> QED BY <1>8, <2>0, <2>2, <3>2, <3>3
  <2>3. CASE i > Len(delivered)
    <3>1. /\ i \in Len(delivered) + 1 .. Len(delivered) + n
          /\ j \in Len(delivered) + 1 .. Len(delivered) + n
      BY <1>4, <1>8, <2>0, <2>3
    <3>2. /\ delivered'[i] = first + (i - Len(delivered)) - 1
          /\ delivered'[j] = first + (j - Len(delivered)) - 1
      BY <1>10, <3>1
    <3> QED BY <1>8, <2>0, <3>2
  <2> QED BY <1>8, <2>0, <2>1, <2>2, <2>3
<1>12. DeliveredBelow'
  <2> SUFFICES ASSUME NEW i \in 1 .. Len(delivered') PROVE delivered'[i] < end
    BY <1>2 DEF DeliveredBelow
  <2>1. CASE i <= Len(delivered)
    <3>1. i \in 1 .. Len(delivered)
      BY <1>8, <2>1
    <3>2. delivered'[i] < first /\ delivered'[i] \in Nat
      BY <1>8, <1>9, <3>1
    <3> QED BY <1>1, <1>3, <3>2
  <2>2. CASE i > Len(delivered)
    <3>1. i \in Len(delivered) + 1 .. Len(delivered) + n
      BY <1>4, <1>7, <1>8, <2>2
    <3>2. delivered'[i] = first + (i - Len(delivered)) - 1
      BY <1>10, <3>1
    <3> QED BY <1>1, <1>4, <1>8, <3>1, <3>2
  <2> QED BY <1>7, <1>8, <2>1, <2>2
<1>13. pending' \subseteq held \ {first} /\ \A k \in pending' : k > end
  BY <1>1, <1>2, <1>3
<1>14. IsFiniteSet(pending')
  BY <1>2, FS_Subset
<1> QED BY <1>1, <1>2, <1>3, <1>4, <1>6, <1>7, <1>11, <1>12, <1>13, <1>14

-----------------------------------------------------------------------------
(* A fresh buffer satisfies the strengthening. *)
LEMMA InitInv1 == Init => Inv1
<1> SUFFICES ASSUME Init PROVE Inv1
  OBVIOUS
<1> USE NumbersAssumption, LimitsAssumption DEF Init
<1>1. delivered \in Seq(Nat) /\ Len(delivered) = 0
  BY EmptySeq
<1>2. IsFiniteSet(pending) /\ Cardinality(pending) = 0
  BY FS_EmptySet
<1>3. TypeOK
  BY <1>1, <1>2 DEF TypeOK, NoGap
<1>4. InOrder /\ DeliveredBelow
  BY <1>1 DEF InOrder, DeliveredBelow
<1>5. Accounted
  BY <1>1 DEF Accounted
<1>6. Bounded
  BY <1>2 DEF Bounded
<1>7. HeldBeyondExpected /\ TimerRunsIffHolding /\ GapTimed
  BY DEF HeldBeyondExpected, TimerRunsIffHolding, GapTimed, NoGap
<1> QED BY <1>3, <1>4, <1>5, <1>6, <1>7 DEF Inv1

(* The observers keep their types, and stalled restarts with the head gap. *)
LEMMA ObserveStep ==
  ASSUME Inv1, NEW s, Observe(s)
  PROVE  /\ stalled' \in Nat
         /\ waited' \in [Numbers -> Nat]
         /\ joined' \in [Numbers -> Nat]
         /\ expected' # expected \/ pending' = {} \/ pending = {} => stalled' = 0
         /\ expected' = expected /\ pending' # {} /\ pending # {} => stalled' = stalled
  BY DEF Observe, Inv1, TypeOK

(* Push of the number waited for. *)
LEMMA PushExpectedStep ==
  ASSUME Inv1, NEW s \in Numbers, PushExpected(s)
  PROVE  Inv1'
<1> USE NumbersAssumption, LimitsAssumption
<1> DEFINE held == pending \union {s}
<1>1. /\ s = expected
      /\ Drain(s, held)
      /\ Observe(s)
      /\ sinceFlush' = sinceFlush
      /\ skipped' = skipped
  BY DEF PushExpected
<1>2. held \subseteq Numbers /\ IsFiniteSet(held) /\ s \in held /\ \A k \in held : k >= s
  BY <1>1, FS_AddElement DEF Inv1, TypeOK, HeldBeyondExpected
<1>3. /\ expected' - s \in Nat \ {0}
      /\ expected' \in Nat \ {0}
      /\ expected' > expected
      /\ pending' \subseteq held \ {s}
      /\ \A k \in pending' : k > expected'
      /\ IsFiniteSet(pending')
      /\ gapAge' = IF pending' = {} THEN NoGap ELSE 0
      /\ delivered' \in Seq(Nat)
      /\ Len(delivered') = Len(delivered) + (expected' - s)
      /\ InOrder'
      /\ DeliveredBelow'
  <2> HIDE DEF held
  <2> QED BY <1>1, <1>2, DrainStep DEF Inv1, TypeOK
<1>4. stalled' = 0 /\ waited' \in [Numbers -> Nat] /\ joined' \in [Numbers -> Nat]
  <2>1. expected \in Nat /\ expected' > expected
    BY <1>3 DEF Inv1, TypeOK
  <2>2. expected' # expected
    BY <1>3, <2>1
  <2> QED BY <1>1, <2>2, ObserveStep
<1>5. TypeOK'
  BY <1>1, <1>2, <1>3, <1>4 DEF TypeOK, Inv1, NoGap
<1>6. Accounted'
  <2>1. Len(delivered) \in Nat
    BY LenProperties DEF Inv1, TypeOK
  <2> QED BY <1>1, <1>3, <2>1 DEF Accounted, Inv1, TypeOK
<1>7. HeldBeyondExpected'
  BY <1>3 DEF HeldBeyondExpected
<1>8. Bounded'
  <2>1. pending' \in SUBSET pending
    BY <1>3
  <2>2. Cardinality(pending') <= Cardinality(pending)
    BY <2>1, FS_Subset DEF Inv1, TypeOK
  <2>3. Cardinality(pending') \in Nat /\ Cardinality(pending) \in Nat
    BY <1>3, FS_CardinalityType DEF Inv1, TypeOK
  <2> QED BY <2>2, <2>3 DEF Bounded, Inv1
<1>9. TimerRunsIffHolding'
  BY <1>3 DEF TimerRunsIffHolding, NoGap
<1>10. GapTimed'
  BY <1>1, <1>3, <1>4 DEF GapTimed, Inv1, TypeOK
<1> QED BY <1>3, <1>5, <1>6, <1>7, <1>8, <1>9, <1>10 DEF Inv1

(* What a forced drain does, whether Push or FlushExpired asks for it. *)
LEMMA ForceDrainStep ==
  ASSUME Inv1, NEW held, held \subseteq Numbers, IsFiniteSet(held), held # {},
         \A k \in held : k > expected,
         Cardinality(held) <= MaxPackets,
         NEW s, ForceDrain(held), Observe(s), sinceFlush' \in 0 .. FlushEvery
  PROVE  Inv1'
<1> USE NumbersAssumption, LimitsAssumption
<1> DEFINE first == Lowest(held)
<1>1. first \in held /\ \A k \in held : first <= k
  BY LowestIsLeast
<1> HIDE DEF first
<1>2. /\ first \in Nat \ {0}
      /\ expected \in Nat \ {0}
      /\ first > expected
      /\ first >= expected
      /\ \A k \in held : k >= first
  <2>1. expected \in Nat \ {0}
    BY DEF Inv1, TypeOK
  <2>2. first \in Nat \ {0} /\ first > expected
    BY <1>1
  <2>3. ASSUME NEW k \in held PROVE k >= first
    <3>1. k \in Nat /\ first <= k
      BY <1>1
    <3> QED BY <2>2, <3>1
  <2> QED BY <2>1, <2>2, <2>3
<1>3. Drain(first, held) /\ skipped' = skipped + first - expected
  BY DEF ForceDrain, first
<1>4. /\ expected' - first \in Nat \ {0}
      /\ expected' \in Nat \ {0}
      /\ expected' > expected
      /\ pending' \subseteq held \ {first}
      /\ \A k \in pending' : k > expected'
      /\ IsFiniteSet(pending')
      /\ gapAge' = IF pending' = {} THEN NoGap ELSE 0
      /\ delivered' \in Seq(Nat)
      /\ Len(delivered') = Len(delivered) + (expected' - first)
      /\ InOrder'
      /\ DeliveredBelow'
  BY <1>1, <1>2, <1>3, DrainStep
<1>5. stalled' = 0 /\ waited' \in [Numbers -> Nat] /\ joined' \in [Numbers -> Nat]
  BY <1>2, <1>4, ObserveStep
<1>6. TypeOK'
  <2>1. expected' \in Nat \ {0} /\ pending' \subseteq Numbers /\ IsFiniteSet(pending')
    BY <1>4
  <2>2. gapAge' \in Nat \union {NoGap}
    BY <1>4
  <2>3. skipped' \in Nat
    <3>1. skipped \in Nat
      BY DEF Inv1, TypeOK
    <3> QED BY ONLY <1>2, <1>3, <3>1
  <2> QED BY <1>4, <1>5, <2>1, <2>2, <2>3 DEF TypeOK
<1>7. Accounted'
  <2> DEFINE len == Len(delivered)
             lenNext == Len(delivered')
  <2>1. len \in Nat /\ skipped \in Nat /\ expected \in Nat /\ first \in Nat
    BY <1>2, LenProperties DEF Inv1, TypeOK
  <2>2. len + skipped = expected - 1
    BY DEF Inv1, Accounted
  <2>3. expected' \in Nat
    BY <1>4
  <2>4. lenNext = len + (expected' - first)
    BY <1>4
  <2>5. skipped' = skipped + first - expected
    BY <1>3
  <2> HIDE DEF len, lenNext
  <2>6. lenNext + skipped' = expected' - 1
    BY ONLY <2>1, <2>2, <2>3, <2>4, <2>5
  <2> USE DEF lenNext
  <2> QED BY ONLY <2>6 DEF Accounted
<1>8. HeldBeyondExpected'
  BY <1>4 DEF HeldBeyondExpected
<1>9. Bounded'
  <2>1. pending' \in SUBSET (held \ {first})
    BY <1>4
  <2>2. IsFiniteSet(held \ {first}) /\ Cardinality(held \ {first}) = Cardinality(held) - 1
    BY <1>1, FS_RemoveElement
  <2>3. Cardinality(pending') <= Cardinality(held \ {first})
    BY <2>1, <2>2, FS_Subset
  <2>4. Cardinality(pending') \in Nat /\ Cardinality(held) \in Nat
    BY <1>4, FS_CardinalityType
  <2> QED BY <2>2, <2>3, <2>4 DEF Bounded
<1>10. TimerRunsIffHolding'
  BY <1>4 DEF TimerRunsIffHolding, NoGap
<1>11. GapTimed'
  <2>1. (pending' = {} \/ gapAge' = 0) /\ stalled' = 0
    BY <1>4, <1>5
  <2>2. 0 <= MaxDelay - 1 + sinceFlush'
    <3>1. MaxDelay - 1 \in Nat /\ sinceFlush' \in Nat
      OBVIOUS
    <3>2. \A a, b \in Nat : 0 <= a + b
      OBVIOUS
    <3> QED BY <3>1, <3>2
  <2> QED BY <2>1, <2>2 DEF GapTimed
<1> QED BY <1>4, <1>6, <1>7, <1>8, <1>9, <1>10, <1>11 DEF Inv1

(* Push of a number that is only stored. *)
LEMMA PushStoredStep ==
  ASSUME Inv1, NEW s \in Numbers, PushStored(s)
  PROVE  Inv1'
<1> USE NumbersAssumption, LimitsAssumption
<1>1. /\ s > expected /\ s \notin pending
      /\ pending' = pending \union {s}
      /\ ~ (Cardinality(pending') >= MaxPackets)
      /\ gapAge' = (IF gapAge = NoGap THEN 0 ELSE gapAge)
      /\ Observe(s)
      /\ UNCHANGED <<expected, sinceFlush, delivered, skipped>>
  BY DEF PushStored, Early, Overfull, GapAgeOnPush
<1>2. IsFiniteSet(pending') /\ Cardinality(pending') \in Nat
  BY <1>1, FS_AddElement, FS_CardinalityType DEF Inv1, TypeOK
<1>3. stalled' \in Nat /\ waited' \in [Numbers -> Nat] /\ joined' \in [Numbers -> Nat]
  BY <1>1, ObserveStep
<1>4. TypeOK'
  BY <1>1, <1>2, <1>3 DEF TypeOK, Inv1, NoGap
<1>5. (InOrder /\ DeliveredBelow /\ Accounted)'
  BY <1>1 DEF Inv1, InOrder, DeliveredBelow, Accounted
<1>6. HeldBeyondExpected'
  BY <1>1 DEF HeldBeyondExpected, Inv1
<1>7. Bounded'
  BY <1>1, <1>2 DEF Bounded
<1>8. TimerRunsIffHolding'
  BY <1>1 DEF TimerRunsIffHolding, Inv1, TypeOK, NoGap
<1>9. GapTimed'
  <2>1. CASE pending = {}
    <3>1. stalled' = 0 /\ gapAge' = 0
      BY <1>1, <2>1, ObserveStep DEF Inv1, TimerRunsIffHolding
    <3> QED BY <1>1, <3>1 DEF GapTimed, Inv1, TypeOK
  <2>2. CASE pending # {}
    <3>1. stalled' = stalled /\ gapAge' = gapAge
      BY <1>1, <2>2, ObserveStep DEF Inv1, TimerRunsIffHolding
    <3> QED BY <1>1, <2>2, <3>1 DEF GapTimed, Inv1
  <2> QED BY <2>1, <2>2
<1> QED BY <1>4, <1>5, <1>6, <1>7, <1>8, <1>9 DEF Inv1

(* Push of a number that overfills the buffer or finds the gap expired. *)
LEMMA PushForcedStep ==
  ASSUME Inv1, NEW s \in Numbers, PushForced(s)
  PROVE  Inv1'
<1> DEFINE held == pending \union {s}
<1>1. /\ s > expected /\ s \notin pending
      /\ ForceDrain(held)
      /\ Observe(s)
      /\ sinceFlush' = sinceFlush
  BY DEF PushForced, Early
<1>2. held \subseteq Numbers /\ held # {} /\ \A k \in held : k > expected
  BY <1>1 DEF Inv1, TypeOK, HeldBeyondExpected
<1>3. IsFiniteSet(held) /\ Cardinality(held) = Cardinality(pending) + 1
  BY <1>1, FS_AddElement DEF Inv1, TypeOK
<1>4. Cardinality(held) <= MaxPackets
  BY <1>3, LimitsAssumption, FS_CardinalityType DEF Inv1, TypeOK, Bounded
<1>5. sinceFlush' \in 0 .. FlushEvery
  BY <1>1 DEF Inv1, TypeOK
<1> HIDE DEF held
<1> QED BY <1>1, <1>2, <1>3, <1>4, <1>5, ForceDrainStep

(* One firing of the ticker. *)
LEMMA FlushExpiredStep ==
  ASSUME Inv1, FlushExpired
  PROVE  Inv1'
<1> USE LimitsAssumption
<1>1. sinceFlush' = 0 /\ 0 \in 0 .. FlushEvery
  BY DEF FlushExpired
<1>2. CASE Expired /\ ForceDrain(pending) /\ Observe(0)
  <2>1. pending # {} /\ pending \subseteq Numbers /\ IsFiniteSet(pending)
        /\ \A k \in pending : k > expected
    BY <1>2 DEF Expired, Inv1, TypeOK, HeldBeyondExpected
  <2>2. Cardinality(pending) <= MaxPackets
    BY <2>1, FS_CardinalityType DEF Inv1, Bounded
  <2> QED BY <1>1, <1>2, <2>1, <2>2, ForceDrainStep
<1>3. CASE ~Expired /\ UNCHANGED <<buffer, history>>
  <2>1. UNCHANGED <<expected, pending, gapAge, delivered, skipped, stalled, waited, joined>>
    BY <1>3 DEF buffer, history
  <2>2. TypeOK'
    BY <1>1, <2>1 DEF Inv1, TypeOK
  <2>3. (InOrder /\ DeliveredBelow /\ Accounted /\ HeldBeyondExpected /\ Bounded
         /\ TimerRunsIffHolding)'
    BY <2>1 DEF Inv1, InOrder, DeliveredBelow, Accounted, HeldBeyondExpected, Bounded,
                TimerRunsIffHolding
  <2>4. GapTimed'
    BY <1>1, <1>3, <2>1 DEF Inv1, TypeOK, GapTimed, Expired, TimerRunsIffHolding, NoGap
  <2> QED BY <2>2, <2>3, <2>4 DEF Inv1
<1> QED BY <1>2, <1>3 DEF FlushExpired

(* Reset, as rejoinAll calls it. *)
LEMMA ResetStep ==
  ASSUME Inv1, Reset
  PROVE  Inv1'
<1> USE NumbersAssumption, LimitsAssumption
<1>1. /\ expected' = 1 /\ pending' = {} /\ gapAge' = NoGap
      /\ delivered' = <<>> /\ skipped' = 0 /\ sinceFlush' = sinceFlush
      /\ Observe(0)
  BY DEF Reset
<1>2. delivered' \in Seq(Nat) /\ Len(delivered') = 0
  BY <1>1, EmptySeq
<1>3. IsFiniteSet(pending') /\ Cardinality(pending') = 0
  BY <1>1, FS_EmptySet
<1>4. stalled' = 0 /\ waited' \in [Numbers -> Nat] /\ joined' \in [Numbers -> Nat]
  BY <1>1, ObserveStep
<1>5. TypeOK'
  BY <1>1, <1>2, <1>3, <1>4 DEF TypeOK, Inv1, NoGap
<1>6. (InOrder /\ DeliveredBelow)'
  BY <1>2 DEF InOrder, DeliveredBelow
<1>7. Accounted'
  BY <1>1, <1>2 DEF Accounted
<1>8. (HeldBeyondExpected /\ TimerRunsIffHolding /\ GapTimed)'
  BY <1>1, <1>4 DEF HeldBeyondExpected, TimerRunsIffHolding, GapTimed
<1>9. Bounded'
  BY <1>3 DEF Bounded
<1> QED BY <1>5, <1>6, <1>7, <1>8, <1>9 DEF Inv1

(* A tick of the clock, enabled while no flush is overdue. *)
LEMMA TickStep ==
  ASSUME Inv1, Tick
  PROVE  Inv1'
<1> USE NumbersAssumption, LimitsAssumption
<1>1. /\ sinceFlush < FlushEvery
      /\ sinceFlush' = sinceFlush + 1
      /\ gapAge' = (IF gapAge = NoGap THEN NoGap ELSE gapAge + 1)
      /\ stalled' = (IF pending = {} THEN 0 ELSE Longer(stalled, Deadline))
      /\ waited' = [k \in Numbers |-> IF k \in pending
                                     THEN Longer(waited[k], k * Deadline) ELSE 0]
      /\ UNCHANGED <<expected, pending, delivered, skipped, joined>>
  BY DEF Tick
<1>2. TypeOK'
  BY <1>1 DEF TypeOK, Inv1, NoGap, Longer
<1>3. (InOrder /\ DeliveredBelow /\ Accounted /\ HeldBeyondExpected /\ Bounded)'
  BY <1>1 DEF Inv1, InOrder, DeliveredBelow, Accounted, HeldBeyondExpected, Bounded
<1>4. TimerRunsIffHolding'
  BY <1>1 DEF Inv1, TypeOK, TimerRunsIffHolding, NoGap
<1>5. GapTimed'
  <2>1. CASE pending = {}
    BY <1>1, <2>1 DEF GapTimed
  <2>2. CASE pending # {}
    <3>1. gapAge # NoGap /\ gapAge = stalled /\ gapAge <= MaxDelay - 1 + sinceFlush
      BY <2>2 DEF Inv1, TimerRunsIffHolding, GapTimed
    <3>2. gapAge \in Nat /\ sinceFlush \in Nat /\ MaxDelay - 1 \in Nat
      BY <3>1 DEF Inv1, TypeOK
    <3>3. gapAge' = gapAge + 1 /\ stalled' = gapAge + 1 /\ pending' # {}
      <4>1. stalled <= Deadline
        BY <1>1, <3>1, <3>2 DEF Inv1, TypeOK, Deadline
      <4> QED BY <1>1, <2>2, <3>1, <3>2, <4>1 DEF Longer, Deadline
    <3>4. gapAge + 1 <= MaxDelay - 1 + (sinceFlush + 1)
      BY <3>1, <3>2
    <3> QED BY <1>1, <3>3, <3>4 DEF GapTimed
  <2> QED BY <2>1, <2>2
<1> QED BY <1>2, <1>3, <1>4, <1>5 DEF Inv1

(* Each call of the buffer, and the passing of time, keeps it. *)
LEMMA StepInv1 == Inv1 /\ [Next]_vars => Inv1'
<1> SUFFICES ASSUME Inv1, [Next]_vars PROVE Inv1'
  OBVIOUS
<1>1. ASSUME UNCHANGED vars PROVE Inv1'
  BY <1>1 DEF vars, buffer, history, Inv1, TypeOK, InOrder, DeliveredBelow, Accounted,
              HeldBeyondExpected, Bounded, TimerRunsIffHolding, GapTimed
<1>2. ASSUME NEW s \in Numbers, Push(s) PROVE Inv1'
  <2>1. CASE PushDropped(s)
    BY <1>1, <2>1 DEF PushDropped
  <2> QED BY <1>2, <2>1, PushExpectedStep, PushStoredStep, PushForcedStep DEF Push
<1> QED BY <1>1, <1>2, FlushExpiredStep, ResetStep, TickStep DEF Next

(* Every reachable buffer satisfies the strengthening. *)
THEOREM Invariance == Spec => []Inv1
  BY InitInv1, StepInv1, PTL DEF Spec

(* Field types hold for every parameter. *)
THEOREM TypeCorrect == Spec => []TypeOK
<1>1. Inv1 => TypeOK
  BY DEF Inv1
<1> QED BY Invariance, <1>1, PTL

(* Packets reach the TUN device in order and at most once. *)
THEOREM DeliveryInOrder == Spec => []InOrder
<1>1. Inv1 => InOrder
  BY DEF Inv1
<1> QED BY Invariance, <1>1, PTL

(* Every number passed was delivered or counted as skipped, exactly once. *)
THEOREM EveryNumberAccounted == Spec => []Accounted
<1>1. Inv1 => Accounted
  BY DEF Inv1
<1> QED BY Invariance, <1>1, PTL

(* Nothing deliverable is ever held back by drain or forceDrain. *)
THEOREM NothingDeliverableHeld == Spec => []HeldBeyondExpected
<1>1. Inv1 => HeldBeyondExpected
  BY DEF Inv1
<1> QED BY Invariance, <1>1, PTL

(* The map stays below maxPackets, for every maxPackets. *)
THEOREM BufferBounded == Spec => []Bounded
<1>1. Inv1 => Bounded
  BY DEF Inv1
<1> QED BY Invariance, <1>1, PTL

(* The timer of the gap runs exactly while packets are held. *)
THEOREM TimerRuns == Spec => []TimerRunsIffHolding
<1>1. Inv1 => TimerRunsIffHolding
  BY DEF Inv1
<1> QED BY Invariance, <1>1, PTL

(* A gap at the head of the buffer is given up within one deadline. *)
THEOREM HeadGapGivenUp == Spec => []HeadGapBounded
<1>1. Inv1 => HeadGapBounded
  <2> SUFFICES ASSUME Inv1 PROVE stalled <= MaxDelay + FlushEvery - 1
    BY DEF HeadGapBounded, Deadline
  <2>0. /\ stalled \in Nat /\ sinceFlush \in Nat /\ sinceFlush <= FlushEvery
        /\ MaxDelay \in Nat /\ FlushEvery \in Nat /\ MaxDelay >= 1 /\ FlushEvery >= 1
    BY LimitsAssumption DEF Inv1, TypeOK
  <2>1. CASE pending = {}
    <3>1. stalled = 0
      BY <2>1 DEF Inv1, GapTimed
    <3> QED BY <2>0, <3>1
  <2>2. CASE pending # {}
    <3>1. stalled <= MaxDelay - 1 + sinceFlush
      BY <2>2 DEF Inv1, GapTimed
    <3> QED BY <2>0, <3>1
  <2> QED BY <2>1, <2>2
<1> QED BY Invariance, <1>1, PTL

-----------------------------------------------------------------------------
(* Each gap in front of a held packet costs it one deadline at most: what  *)
(* it has waited is paid for by the numbers given up since its push, and   *)
(* by the age of the gap at the head.                                      *)
WaitTimed ==
    /\ \A k \in Numbers \ pending : waited[k] = 0
    /\ \A k \in pending : /\ joined[k] <= expected
                          /\ waited[k] <= (expected - joined[k]) * Deadline + stalled

(* The deadline of a gap, as a number. *)
LEMMA DeadlineIsPositive == Deadline \in Nat \ {0}
  BY LimitsAssumption DEF Deadline

(* The head gap has not reached its deadline. *)
LEMMA HeadGapInTime == ASSUME Inv1 PROVE stalled \in Nat /\ stalled <= Deadline
<1>1. /\ stalled \in Nat /\ sinceFlush \in Nat /\ sinceFlush <= FlushEvery
      /\ MaxDelay \in Nat /\ FlushEvery \in Nat /\ MaxDelay >= 1 /\ FlushEvery >= 1
  BY LimitsAssumption DEF Inv1, TypeOK
<1>2. CASE pending = {}
  <2>1. stalled = 0
    BY <1>2 DEF Inv1, GapTimed
  <2> QED BY <1>1, <2>1 DEF Deadline
<1>3. CASE pending # {}
  <2>1. stalled <= MaxDelay - 1 + sinceFlush
    BY <1>3 DEF Inv1, GapTimed
  <2> QED BY <1>1, <2>1 DEF Deadline
<1> QED BY <1>2, <1>3

(* Deadlines add up, and more gaps cost no less time. *)
LEMMA DeadlinesAddUp ==
  ASSUME NEW d \in Nat, NEW n \in Nat, NEW m \in Nat, n < m
  PROVE  n * d \in Nat /\ m * d \in Nat /\ n * d + d <= m * d
<1>1. PICK i \in Nat : m = n + 1 + i
  <2>1. m - n - 1 \in Nat /\ m = n + 1 + (m - n - 1)
    OBVIOUS
  <2> QED BY <2>1
<1>2. m * d = n * d + d + i * d
  BY <1>1
<1>3. n * d \in Nat /\ i * d \in Nat
  BY <1>1
<1> QED BY <1>2, <1>3

(* A call that only adds s and otherwise gives up or delivers numbers from *)
(* the head on: every packet still held has a deadline for what it waited. *)
LEMMA CallKeepsWaits ==
  ASSUME Inv1, WaitTimed, Inv1', NEW s, Observe(s), s \notin pending,
         expected' >= expected, pending' \subseteq pending \union {s}
  PROVE  WaitTimed'
<1>1. /\ expected \in Nat /\ expected' \in Nat /\ stalled' \in Nat
      /\ pending \subseteq Numbers /\ pending' \subseteq Numbers
      /\ waited \in [Numbers -> Nat] /\ joined \in [Numbers -> Nat]
  BY DEF Inv1, TypeOK
<1>2. stalled \in Nat /\ stalled <= Deadline /\ Deadline \in Nat
  BY HeadGapInTime, DeadlineIsPositive
<1>3. \A k \in Numbers \ pending' : waited'[k] = 0
  BY DEF Observe
<1>4. ASSUME NEW k \in pending'
      PROVE  joined'[k] <= expected'
             /\ waited'[k] <= (expected' - joined'[k]) * Deadline + stalled'
  <2>1. k \in Numbers /\ waited'[k] = waited[k]
        /\ joined'[k] = IF k = s THEN expected ELSE joined[k]
    BY <1>1, <1>4 DEF Observe
  <2>2. CASE k = s
    <3>1. joined'[k] = expected /\ waited'[k] = 0
      BY <2>1, <2>2 DEF WaitTimed
    <3>2. expected' - expected \in Nat
      <4>1. \A a, b \in Nat : b >= a => b - a \in Nat
        OBVIOUS
      <4> QED BY <1>1, <4>1
    <3>3. (expected' - expected) * Deadline \in Nat
      BY <1>2, <3>2
    <3>4. 0 <= (expected' - expected) * Deadline + stalled'
      BY <1>1, <3>3
    <3> QED BY <3>1, <3>4
  <2>3. CASE k # s
    <3> DEFINE was == expected - joined[k]
               is == expected' - joined[k]
    <3>1. k \in pending /\ joined'[k] = joined[k]
      BY <1>4, <2>1, <2>3
    <3>2. /\ waited[k] \in Nat /\ joined[k] \in Nat
          /\ joined[k] <= expected /\ waited[k] <= was * Deadline + stalled
      BY <1>1, <2>1, <3>1 DEF WaitTimed
    <3>3. joined'[k] <= expected'
      BY <1>1, <3>1, <3>2
    <3>4. CASE expected' = expected
      <4>1. stalled' = stalled
        BY <1>4, <3>1, <3>4 DEF Observe
      <4> QED BY <2>1, <3>1, <3>2, <3>3, <3>4, <4>1
    <3>5. CASE expected' # expected
      <4>1. was \in Nat /\ is \in Nat /\ was < is
        BY <1>1, <3>2, <3>5
      <4> HIDE DEF was, is
      <4>2. was * Deadline \in Nat /\ is * Deadline \in Nat
            /\ was * Deadline + Deadline <= is * Deadline
        BY <1>2, <4>1, DeadlinesAddUp
      <4>3. waited[k] <= is * Deadline + stalled'
        <5> DEFINE a == was * Deadline
                   b == is * Deadline
        <5>1. a \in Nat /\ b \in Nat /\ a + Deadline <= b /\ waited[k] <= a + stalled
          BY <3>2, <4>2
        <5> HIDE DEF a, b
        <5>2. waited[k] <= b + stalled'
          BY <1>1, <1>2, <3>2, <5>1
        <5> QED BY <5>2 DEF b
      <4> QED BY <2>1, <3>1, <3>3, <4>3 DEF is
    <3> QED BY <3>4, <3>5
  <2> QED BY <2>2, <2>3
<1> QED BY <1>3, <1>4 DEF WaitTimed

(* A drain moves on from its first number, and holds nothing new. *)
LEMMA DrainMovesOn ==
  ASSUME NEW first \in Nat, NEW held, held \subseteq Nat, IsFiniteSet(held),
         Drain(first, held)
  PROVE  expected' \in Nat /\ expected' >= first /\ pending' \subseteq held
<1>1. EndOfRun(first, held) \in Nat /\ EndOfRun(first, held) >= first
  BY EndOfRunIsMissing
<1> QED BY <1>1 DEF Drain

(* forceDrain of numbers beyond the head. *)
LEMMA ForceDrainMovesOn ==
  ASSUME Inv1, NEW held, held \subseteq Numbers, IsFiniteSet(held), held # {},
         \A k \in held : k > expected, ForceDrain(held)
  PROVE  expected' >= expected /\ pending' \subseteq held
<1>1. held \subseteq Nat /\ expected \in Nat
  BY NumbersAssumption DEF Inv1, TypeOK
<1>2. Lowest(held) \in held
  BY <1>1, LowestIsLeast
<1>3. Lowest(held) \in Nat /\ Lowest(held) > expected
  BY <1>1, <1>2
<1>4. Drain(Lowest(held), held)
  BY DEF ForceDrain
<1>5. expected' \in Nat /\ expected' >= Lowest(held) /\ pending' \subseteq held
  BY <1>1, <1>3, <1>4, DrainMovesOn
<1> QED BY <1>1, <1>3, <1>5

(* Push keeps it: dropped, delivered, stored or forced. *)
LEMMA PushKeepsWaits ==
  ASSUME Inv1, WaitTimed, Inv1', NEW s \in Numbers, Push(s)
  PROVE  WaitTimed'
<1> DEFINE held == pending \union {s}
<1>1. held \subseteq Numbers /\ held \subseteq Nat /\ IsFiniteSet(held) /\ held # {}
      /\ expected \in Nat /\ expected' \in Nat /\ s \in Nat
      /\ \A k \in pending : k > expected
  BY NumbersAssumption, FS_AddElement DEF Inv1, TypeOK, HeldBeyondExpected
<1>2. CASE PushDropped(s)
  <2>1. UNCHANGED <<expected, pending, stalled, waited, joined>>
    BY <1>2 DEF PushDropped, vars, buffer, history
  <2> QED BY <2>1 DEF WaitTimed
<1>3. CASE PushExpected(s)
  <2>1. s = expected /\ Drain(s, held) /\ Observe(s)
    BY <1>3 DEF PushExpected
  <2>2. s \notin pending
    BY <1>1, <2>1
  <2>3. expected' >= s /\ pending' \subseteq held
    <3> HIDE DEF held
    <3> QED BY <1>1, <2>1, DrainMovesOn
  <2> QED BY <2>1, <2>2, <2>3, CallKeepsWaits
<1>4. CASE PushStored(s)
  <2>1. s \notin pending /\ Observe(s) /\ pending' = held /\ expected' = expected
    BY <1>4 DEF PushStored, Early
  <2>2. expected' >= expected
    BY <1>1, <2>1
  <2> QED BY <2>1, <2>2, CallKeepsWaits
<1>5. CASE PushForced(s)
  <2>1. s > expected /\ s \notin pending /\ Observe(s) /\ ForceDrain(held)
    BY <1>5 DEF PushForced, Early
  <2>2. \A k \in held : k > expected
    BY <1>1, <2>1
  <2>3. expected' >= expected /\ pending' \subseteq held
    <3> HIDE DEF held
    <3> QED BY <1>1, <2>1, <2>2, ForceDrainMovesOn
  <2> QED BY <2>1, <2>3, CallKeepsWaits
<1> QED BY <1>2, <1>3, <1>4, <1>5 DEF Push

(* So does the ticker. *)
LEMMA FlushKeepsWaits ==
  ASSUME Inv1, WaitTimed, Inv1', FlushExpired
  PROVE  WaitTimed'
<1>1. CASE Expired /\ ForceDrain(pending) /\ Observe(0)
  <2>1. pending \subseteq Numbers /\ IsFiniteSet(pending) /\ pending # {}
        /\ \A k \in pending : k > expected
    BY <1>1 DEF Expired, Inv1, TypeOK, HeldBeyondExpected
  <2>2. expected' >= expected /\ pending' \subseteq pending
    BY <1>1, <2>1, ForceDrainMovesOn
  <2>3. 0 \notin pending
    BY <2>1, NumbersAssumption
  <2> QED BY <1>1, <2>2, <2>3, CallKeepsWaits
<1>2. CASE UNCHANGED <<buffer, history>>
  <2>1. UNCHANGED <<expected, pending, stalled, waited, joined>>
    BY <1>2 DEF buffer, history
  <2> QED BY <2>1 DEF WaitTimed
<1> QED BY <1>1, <1>2 DEF FlushExpired

(* Nothing waits after Reset. *)
LEMMA ResetKeepsWaits ==
  ASSUME Inv1, Reset
  PROVE  WaitTimed'
  BY DEF Reset, Observe, WaitTimed, Inv1, TypeOK

(* A tick is paid for by the age of the head gap. *)
LEMMA TickKeepsWaits ==
  ASSUME Inv1, WaitTimed, Inv1', Tick
  PROVE  WaitTimed'
<1>1. /\ stalled' = (IF pending = {} THEN 0 ELSE Longer(stalled, Deadline))
      /\ waited' = [k \in Numbers |-> IF k \in pending
                                     THEN Longer(waited[k], k * Deadline) ELSE 0]
      /\ UNCHANGED <<expected, pending, joined>>
  BY DEF Tick
<1>2. /\ expected \in Nat /\ pending \subseteq Numbers
      /\ waited \in [Numbers -> Nat] /\ joined \in [Numbers -> Nat]
  BY DEF Inv1, TypeOK
<1>3. \A k \in Numbers \ pending' : waited'[k] = 0
  BY <1>1
<1>4. ASSUME NEW k \in pending'
      PROVE  joined'[k] <= expected'
             /\ waited'[k] <= (expected' - joined'[k]) * Deadline + stalled'
  <2> DEFINE paid == (expected - joined[k]) * Deadline
  <2>1. k \in pending /\ k \in Numbers
    BY <1>1, <1>2, <1>4
  <2>2. joined[k] \in Nat /\ joined[k] <= expected
        /\ waited[k] \in Nat /\ waited[k] <= paid + stalled
    BY <1>2, <2>1 DEF WaitTimed
  <2>3. paid \in Nat
    <3>1. expected - joined[k] \in Nat
      BY <1>2, <2>2
    <3> QED BY <3>1, DeadlineIsPositive
  <2>4. stalled \in Nat /\ stalled' = stalled + 1
    BY <1>1, <2>1, HeadGapInTime, DeadlineIsPositive DEF Longer
  <2>5. waited'[k] = waited[k] \/ waited'[k] = waited[k] + 1
    <3> DEFINE limit == k * Deadline
    <3>1. waited'[k] = Longer(waited[k], limit)
      BY <1>1, <2>1
    <3> HIDE DEF limit
    <3> QED BY <3>1 DEF Longer
  <2>6. (expected' - joined'[k]) * Deadline = paid
    BY <1>1
  <2> HIDE DEF paid
  <2>7. waited'[k] <= paid + stalled'
    BY <2>2, <2>3, <2>4, <2>5
  <2> QED BY <1>1, <2>2, <2>6, <2>7
<1> QED BY <1>3, <1>4 DEF WaitTimed

(* Each step keeps the account of the waits. *)
LEMMA StepKeepsWaits == Inv1 /\ Inv1' /\ WaitTimed /\ [Next]_vars => WaitTimed'
<1> SUFFICES ASSUME Inv1, Inv1', WaitTimed, [Next]_vars PROVE WaitTimed'
  OBVIOUS
<1>1. CASE UNCHANGED vars
  <2>1. UNCHANGED <<expected, pending, stalled, waited, joined>>
    BY <1>1 DEF vars, buffer, history
  <2> QED BY <2>1 DEF WaitTimed
<1> QED BY <1>1, PushKeepsWaits, FlushKeepsWaits, ResetKeepsWaits, TickKeepsWaits DEF Next

(* No packet is held for more than one deadline for each number that could *)
(* still be missing in front of it when Push stored it.                    *)
THEOREM WaitsBounded == Spec => []WaitBoundedPerGap
<1>1. Init => WaitTimed
  BY DEF Init, WaitTimed
<1>2. Spec => []WaitTimed
  BY <1>1, StepKeepsWaits, Invariance, PTL DEF Spec
<1>3. Inv1 /\ WaitTimed => WaitBoundedPerGap
  <2> SUFFICES ASSUME Inv1, WaitTimed, NEW k \in pending
               PROVE  waited[k] <= (k - joined[k]) * Deadline
    BY DEF WaitBoundedPerGap
  <2> DEFINE was == expected - joined[k]
             all == k - joined[k]
  <2>1. k \in Nat /\ k > expected /\ expected \in Nat
        /\ waited[k] \in Nat /\ joined[k] \in Nat
    BY NumbersAssumption DEF Inv1, TypeOK, HeldBeyondExpected
  <2>2. joined[k] <= expected /\ waited[k] <= was * Deadline + stalled
    BY DEF WaitTimed
  <2>3. was \in Nat /\ all \in Nat /\ was < all
    BY <2>1, <2>2
  <2> HIDE DEF was, all
  <2>4. was * Deadline \in Nat /\ all * Deadline \in Nat
        /\ was * Deadline + Deadline <= all * Deadline
    BY <2>3, DeadlineIsPositive, DeadlinesAddUp
  <2>5. waited[k] <= all * Deadline
    <3> DEFINE a == was * Deadline
               b == all * Deadline
    <3>1. a \in Nat /\ b \in Nat /\ a + Deadline <= b /\ waited[k] <= a + stalled
      BY <2>2, <2>4
    <3> HIDE DEF a, b
    <3>2. waited[k] <= b
      BY <2>1, <3>1, HeadGapInTime, DeadlineIsPositive
    <3> QED BY <3>2 DEF b
  <2> QED BY <2>5 DEF all
<1> QED BY <1>2, <1>3, Invariance, PTL

-----------------------------------------------------------------------------
Abstract == INSTANCE OrderedDelivery WITH Counts <- Nat

(* One drain is one step of the abstract stream. *)
LEMMA DrainImplements ==
  ASSUME Inv1, NEW first \in Nat \ {0}, NEW held, held \subseteq Numbers, IsFiniteSet(held),
         first \in held, first >= expected,
         \A k \in held : k >= first,
         Drain(first, held),
         skipped' = skipped + (first - expected)
  PROVE  Abstract!Next
<1> DEFINE lost == first - expected
           n == expected' - first
<1>1. n \in Nat \ {0} /\ delivered' = delivered \o [i \in 1 .. n |-> first + i - 1]
  BY DrainStep
<1>2. expected \in Nat \ {0} /\ Len(delivered) \in Nat /\ skipped \in Nat
  BY LenProperties DEF Inv1, TypeOK
<1>3. lost \in Nat
  BY <1>2
<1>4. Abstract!Position + lost = first - 1
  <2>1. Len(delivered) + skipped = expected - 1
    BY DEF Inv1, Accounted
  <2> QED BY <1>2, <2>1 DEF Abstract!Position
<1>5. \A i \in 1 .. n : first + i - 1 = Abstract!Position + lost + i
  <2> HIDE DEF n, lost
  <2>1. Abstract!Position \in Nat
    BY <1>2 DEF Abstract!Position
  <2> QED BY <1>1, <1>3, <1>4, <2>1
<1>6. [i \in 1 .. n |-> first + i - 1] = [i \in 1 .. n |-> Abstract!Position + lost + i]
  <2> HIDE DEF n, lost
  <2> QED BY <1>5
<1>7. Abstract!Deliver(lost, n)
  BY <1>1, <1>6 DEF Abstract!Deliver
<1> QED BY <1>1, <1>3, <1>7 DEF Abstract!Next

(* Every step of the buffer is a step of the abstract stream, or a stutter. *)
LEMMA StepImplements ==
  Inv1 /\ [Next]_vars => [Abstract!Next]_<<delivered, skipped>>
<1> SUFFICES ASSUME Inv1, [Next]_vars
             PROVE  Abstract!Next \/ UNCHANGED <<delivered, skipped>>
  OBVIOUS
<1> USE NumbersAssumption
<1>1. ASSUME NEW held, held \subseteq Numbers, IsFiniteSet(held), held # {},
             \A k \in held : k > expected, ForceDrain(held)
      PROVE  Abstract!Next
  <2> DEFINE first == Lowest(held)
  <2>1. first \in held /\ \A k \in held : first <= k
    BY <1>1, LowestIsLeast
  <2>2. Drain(first, held) /\ skipped' = skipped + first - expected
    BY <1>1 DEF ForceDrain
  <2>3. expected \in Nat /\ skipped \in Nat
    BY DEF Inv1, TypeOK
  <2> HIDE DEF first
  <2>4. first \in Nat \ {0} /\ first > expected /\ first >= expected
    BY <1>1, <2>1, <2>3
  <2>5. \A k \in held : k >= first
    <3> SUFFICES ASSUME NEW k \in held PROVE k >= first
      OBVIOUS
    <3>1. k \in Nat /\ first <= k
      BY <1>1, <2>1
    <3> QED BY <2>4, <3>1
  <2>6. skipped' = skipped + (first - expected)
    BY <2>2, <2>3, <2>4
  <2> QED BY <1>1, <2>1, <2>2, <2>4, <2>5, <2>6, DrainImplements
<1>2. ASSUME NEW s \in Numbers, PushExpected(s) PROVE Abstract!Next
  <2> DEFINE held == pending \union {s}
  <2>1. s = expected /\ Drain(s, held) /\ skipped' = skipped
    BY <1>2 DEF PushExpected
  <2>2. held \subseteq Numbers /\ IsFiniteSet(held) /\ s \in held
    BY FS_AddElement DEF Inv1, TypeOK
  <2>3. \A k \in held : k >= s
    BY <2>1 DEF Inv1, TypeOK, HeldBeyondExpected
  <2>4. s >= expected /\ skipped' = skipped + (s - expected) /\ s \in Nat \ {0}
    BY <2>1 DEF Inv1, TypeOK
  <2> HIDE DEF held
  <2> QED BY <2>1, <2>2, <2>3, <2>4, DrainImplements
<1>3. ASSUME NEW s \in Numbers, PushForced(s) PROVE Abstract!Next
  <2> DEFINE held == pending \union {s}
  <2>1. s > expected /\ ForceDrain(held)
    BY <1>3 DEF PushForced, Early
  <2>2. held \subseteq Numbers /\ IsFiniteSet(held) /\ held # {}
    BY FS_AddElement DEF Inv1, TypeOK
  <2>3. \A k \in held : k > expected
    BY <2>1 DEF Inv1, HeldBeyondExpected
  <2> HIDE DEF held
  <2> QED BY <1>1, <2>1, <2>2, <2>3
<1>4. CASE FlushExpired
  <2>1. CASE Expired /\ ForceDrain(pending)
    <3>1. pending # {} /\ pending \subseteq Numbers /\ IsFiniteSet(pending)
          /\ \A k \in pending : k > expected
      BY <2>1 DEF Expired, Inv1, TypeOK, HeldBeyondExpected
    <3> QED BY <1>1, <2>1, <3>1
  <2> QED BY <1>4, <2>1 DEF FlushExpired, history
<1>5. CASE Reset
  BY <1>5 DEF Reset, Abstract!Next, Abstract!Restart
<1>6. CASE UNCHANGED <<delivered, skipped>>
  BY <1>6
<1> QED
  BY <1>2, <1>3, <1>4, <1>5, <1>6
     DEF Next, Push, PushDropped, PushStored, Tick, vars, history

(* reorder.Buffer implements the ordered stream with counted gaps, for     *)
(* every set of numbers, buffer size and deadline.                         *)
THEOREM ImplementsOrderedDelivery == Spec => Abstract!Spec
<1>1. Init => Abstract!Init
  BY DEF Init, Abstract!Init
<1> QED BY <1>1, StepImplements, Invariance, PTL DEF Spec, Abstract!Spec

=============================================================================
