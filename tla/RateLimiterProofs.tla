------------------------- MODULE RateLimiterProofs -------------------------
(***************************************************************************)
(* The limiter's table and the rates it lets through, for any number of    *)
(* addresses and handlers, any limits and any waits for the mutex.         *)
(***************************************************************************)
EXTENDS RateLimiter, FiniteSetTheorems, TLAPS

(* The times of one address grow, and none lies in the future. *)
Ordered(times, time) ==
    /\ \A i, j \in 1 .. Len(times) : i <= j => times[i] <= times[j]
    /\ \A i \in 1 .. Len(times) : times[i] <= time

(* What RateBounded says of one address. *)
Bounded(times) ==
    \A i \in 1 .. Len(times) :
        i + 2 * Maximum - 1 <= Len(times) =>
            times[i + 2 * Maximum - 1] - times[i] >= Duration - Lag

(* All but the last Maximum - 1 requests lie a window's length behind.      *)
Rested(times, time) ==
    Len(times) >= Maximum => time - times[Len(times) - Maximum + 1] >= Duration - Lag

(* A window counts the requests let through since it was opened, at most    *)
(* Lag after its start, and all but the last Maximum - 1 requests before    *)
(* that lay a window's length behind then.                                  *)
Opened(window, times) == Len(times) - window.count + 1

Counts(window, times) ==
    LET opened == Opened(window, times)
    IN  /\ window.count <= Len(times)
        /\ window.start <= times[opened] /\ times[opened] <= window.start + Lag
        /\ opened > Maximum => times[opened] - times[opened - Maximum] >= Duration - Lag

Follows(window, times, time) ==
    IF window = None THEN Rested(times, time) ELSE Counts(window, times)

RatesKept ==
    \A k \in Keys : /\ Ordered(admitted[k], clock)
                    /\ Bounded(admitted[k])
                    /\ Follows(windows[k], admitted[k], clock)

(* A handler has not waited longer than it may. *)
CallsFresh ==
    \A t \in Threads : calls[t] # Idle => calls[t].now <= clock /\ clock <= calls[t].now + Lag

IInv ==
    /\ TypeOK
    /\ IsFiniteSet(Held(windows)) /\ TableBounded
    /\ CallsFresh
    /\ RatesKept

-----------------------------------------------------------------------------
(* Requests of one address *)

LEMMA AppendedTimes ==
  ASSUME NEW times \in Seq(Nat), NEW time \in Nat
  PROVE  /\ Len(times) \in Nat /\ \A i \in 1 .. Len(times) : times[i] \in Nat
         /\ Append(times, time) \in Seq(Nat)
         /\ Len(Append(times, time)) = Len(times) + 1
         /\ Append(times, time)[Len(times) + 1] = time
         /\ \A i \in 1 .. Len(times) : Append(times, time)[i] = times[i]
  OBVIOUS

LEMMA OrderedOn ==
  ASSUME NEW times \in Seq(Nat), NEW time \in Nat, Ordered(times, time)
  PROVE  Ordered(Append(times, time), time)
<1> DEFINE longer == Append(times, time)
           n == Len(times)
<1>1. /\ n \in Nat /\ \A i \in 1 .. n : times[i] \in Nat
      /\ Len(longer) = n + 1 /\ longer[n + 1] = time
      /\ \A i \in 1 .. n : longer[i] = times[i]
  BY AppendedTimes
<1>2. /\ \A i, j \in 1 .. n : i <= j => times[i] <= times[j]
      /\ \A i \in 1 .. n : times[i] <= time
  BY DEF Ordered
<1> HIDE DEF longer, n
<1>3. \A i \in 1 .. n + 1 : longer[i] <= time
  BY <1>1, <1>2
<1>4. ASSUME NEW i \in 1 .. n + 1, NEW j \in 1 .. n + 1, i <= j PROVE longer[i] <= longer[j]
  <2>1. CASE j = n + 1
    BY <1>1, <1>3, <2>1
  <2>2. CASE j # n + 1
    <3>1. i \in 1 .. n /\ j \in 1 .. n
      BY <1>1, <1>4, <2>2
    <3> QED BY <1>1, <1>2, <1>4, <3>1
  <2> QED BY <2>1, <2>2
<1>5. \A i \in 1 .. Len(longer) : longer[i] <= time
  BY <1>1, <1>3
<1>6. \A i, j \in 1 .. Len(longer) : i <= j => longer[i] <= longer[j]
  BY <1>1, <1>4
<1> USE DEF longer
<1> QED BY <1>5, <1>6 DEF Ordered

(* The rate stays bounded if the request a window and all its predecessors  *)
(* before the new one is old enough.                                        *)
LEMMA BoundedOn ==
  ASSUME NEW times \in Seq(Nat), NEW time \in Nat, Ordered(times, time), Bounded(times),
         NEW m \in Int, m >= Len(times) + 2 - 2 * Maximum, m <= Len(times),
         m >= 1 => time - times[m] >= Duration - Lag
  PROVE  Bounded(Append(times, time))
<1> DEFINE longer == Append(times, time)
           n == Len(times)
<1>1. /\ n \in Nat /\ \A i \in 1 .. n : times[i] \in Nat
      /\ Len(longer) = n + 1 /\ longer[n + 1] = time
      /\ \A i \in 1 .. n : longer[i] = times[i]
  BY AppendedTimes
<1>2. \A i, j \in 1 .. n : i <= j => times[i] <= times[j]
  BY DEF Ordered
<1>3. /\ m >= n + 2 - 2 * Maximum /\ m <= n
      /\ Maximum \in Nat \ {0} /\ Duration - Lag \in Int
  BY RateAssumption, ClockAssumption
<1>4. \A i \in 1 .. n : i + 2 * Maximum - 1 <= n =>
          times[i + 2 * Maximum - 1] - times[i] >= Duration - Lag
  BY DEF Bounded
<1> HIDE DEF longer, n
<1>5. ASSUME NEW i \in 1 .. n + 1, i + 2 * Maximum - 1 <= n + 1
      PROVE  longer[i + 2 * Maximum - 1] - longer[i] >= Duration - Lag
  <2>1. CASE i + 2 * Maximum - 1 <= n
    <3>1. i \in 1 .. n /\ i + 2 * Maximum - 1 \in 1 .. n
      BY ONLY i \in 1 .. n + 1, <1>1, <1>3, <2>1
    <3>2. longer[i + 2 * Maximum - 1] = times[i + 2 * Maximum - 1] /\ longer[i] = times[i]
      BY <1>1, <3>1
    <3> QED BY <1>4, <2>1, <3>1, <3>2
  <2>2. CASE i + 2 * Maximum - 1 = n + 1
    <3>1. i \in 1 .. n /\ m \in 1 .. n /\ i <= m
      BY ONLY i \in 1 .. n + 1, <1>1, <1>3, <2>2, m \in Int
    <3>2. times[i] <= times[m] /\ times[i] \in Nat /\ times[m] \in Nat
      BY <1>1, <1>2, <3>1
    <3>3. longer[i + 2 * Maximum - 1] = time /\ longer[i] = times[i]
      BY <1>1, <2>2, <3>1
    <3>4. time - times[m] >= Duration - Lag
      BY <3>1
    <3> QED BY ONLY <1>3, <3>2, <3>3, <3>4, time \in Nat
  <2> QED BY ONLY <1>1, <1>3, <1>5, <2>1, <2>2, i \in 1 .. n + 1
<1>6. \A i \in 1 .. Len(longer) : i + 2 * Maximum - 1 <= Len(longer) =>
          longer[i + 2 * Maximum - 1] - longer[i] >= Duration - Lag
  BY <1>1, <1>5
<1> USE DEF longer
<1> QED BY <1>6 DEF Bounded

(* A window that has run out, or is gone, lets the next one open.           *)
LEMMA ExpiredRests ==
  ASSUME NEW times \in Seq(Nat), NEW time \in Nat, NEW window \in Window, NEW now \in Nat,
         Ordered(times, time), Counts(window, times), Expired(window, now), now <= time
  PROVE  Rested(times, time)
<1> DEFINE n == Len(times)
           count == window.count
           start == window.start
           opened == n - count + 1
           m == n - Maximum + 1
<1>1. /\ start \in Nat /\ count \in 1 .. Maximum
      /\ Maximum \in Nat \ {0} /\ Duration \in Nat /\ Lag \in Nat
  BY RateAssumption, ClockAssumption DEF Window
<1>2. n \in Nat /\ \A i \in 1 .. n : times[i] \in Nat
  OBVIOUS
<1>3. /\ count <= n /\ times[opened] <= start + Lag
      /\ now - start >= Duration
      /\ \A i, j \in 1 .. n : i <= j => times[i] <= times[j]
  BY DEF Counts, Opened, Expired, Ordered
<1> HIDE DEF n, count, start
<1>4. ASSUME n >= Maximum PROVE time - times[m] >= Duration - Lag
  <2>1. m \in 1 .. n /\ opened \in 1 .. n /\ m <= opened
    BY ONLY <1>1, <1>2, <1>3, <1>4
  <2> HIDE DEF m, opened
  <2>2. times[m] <= times[opened] /\ times[m] \in Nat /\ times[opened] \in Nat
    BY <1>2, <1>3, <2>1
  <2> QED BY ONLY <1>1, <1>3, <2>2, time \in Nat, now \in Nat, now <= time
<1> USE DEF n
<1> QED BY <1>4 DEF Rested

LEMMA RestedLater ==
  ASSUME NEW times \in Seq(Nat), NEW time \in Nat, NEW later \in Nat, time <= later,
         Rested(times, time)
  PROVE  Rested(times, later)
<1> DEFINE m == Len(times) - Maximum + 1
<1>1. ASSUME Len(times) >= Maximum PROVE later - times[m] >= Duration - Lag
  <2>1. m \in 1 .. Len(times)
    BY <1>1, RateAssumption
  <2>2. times[m] \in Nat
    BY <2>1
  <2>3. time - times[m] >= Duration - Lag
    BY <1>1 DEF Rested
  <2> HIDE DEF m
  <2> QED BY <2>2, <2>3, RateAssumption, ClockAssumption
<1> QED BY <1>1 DEF Rested

(* The first request of a window. *)
LEMMA OpenedFollows ==
  ASSUME NEW times \in Seq(Nat), NEW time \in Nat, NEW now \in Nat,
         Ordered(times, time), Bounded(times), Rested(times, time),
         now <= time, time <= now + Lag
  PROVE  /\ Bounded(Append(times, time))
         /\ Counts([start |-> now, count |-> 1], Append(times, time))
<1> DEFINE longer == Append(times, time)
           n == Len(times)
           m == n - Maximum + 1
           window == [start |-> now, count |-> 1]
<1>1. /\ n \in Nat /\ Len(longer) = n + 1 /\ longer[n + 1] = time
      /\ \A i \in 1 .. n : longer[i] = times[i]
  BY AppendedTimes
<1>2. Maximum \in Nat \ {0}
  BY RateAssumption
<1>3. n >= Maximum => time - times[m] >= Duration - Lag
  BY DEF Rested
<1> HIDE DEF n, longer
<1>4. /\ m \in Int /\ m >= n + 2 - 2 * Maximum /\ m <= n /\ (m >= 1 <=> n >= Maximum)
  BY ONLY <1>1, <1>2
<1>5. Bounded(longer)
  <2>1. m >= 1 => time - times[m] >= Duration - Lag
    BY <1>3, <1>4
  <2> HIDE DEF m
  <2> USE DEF n, longer
  <2> QED BY <1>4, <2>1, BoundedOn
<1> DEFINE first == n + 1
<1>6. Opened(window, longer) = first /\ window.count <= Len(longer) /\ window.start = now
  BY <1>1 DEF Opened
<1>7. first > Maximum => first - Maximum = m /\ m \in 1 .. n
  BY ONLY <1>1, <1>2
<1>8. first > Maximum => longer[first] - longer[first - Maximum] >= Duration - Lag
  BY <1>1, <1>3, <1>4, <1>7
<1>9. now <= longer[first] /\ longer[first] <= now + Lag
  BY <1>1
<1>10. Counts(window, longer)
  <2> HIDE DEF window, first
  <2> QED BY <1>6, <1>8, <1>9 DEF Counts
<1> USE DEF longer
<1> QED BY <1>5, <1>10

(* One more request of a window. *)
LEMMA CountedFollows ==
  ASSUME NEW times \in Seq(Nat), NEW time \in Nat, NEW window \in Window,
         Ordered(times, time), Bounded(times), Counts(window, times), ~Spent(window)
  PROVE  /\ Bounded(Append(times, time))
         /\ \A more \in Window :
                more.start = window.start /\ more.count = window.count + 1
                => Counts(more, Append(times, time))
<1> DEFINE longer == Append(times, time)
           n == Len(times)
           count == window.count
           start == window.start
           opened == n - count + 1
           m == opened - Maximum
<1>1. /\ n \in Nat /\ Len(longer) = n + 1
      /\ \A i \in 1 .. n : times[i] \in Nat /\ longer[i] = times[i]
  BY AppendedTimes
<1>2. /\ start \in Nat /\ count \in 1 .. Maximum /\ count < Maximum
      /\ Maximum \in Nat \ {0} /\ Duration - Lag \in Int
  BY RateAssumption, ClockAssumption DEF Window, Spent
<1>3. /\ count <= n
      /\ start <= times[opened] /\ times[opened] <= start + Lag
      /\ opened > Maximum => times[opened] - times[m] >= Duration - Lag
      /\ \A i \in 1 .. n : times[i] <= time
  BY DEF Counts, Opened, Ordered
<1> HIDE DEF n, longer, count, start
<1>4. /\ opened \in 1 .. n /\ m \in Int /\ m <= n /\ m >= n + 2 - 2 * Maximum
      /\ opened > Maximum <=> m >= 1
  BY ONLY <1>1, <1>2, <1>3
<1>5. m >= 1 => m \in 1 .. n
  BY ONLY <1>1, <1>4
<1>6. m >= 1 => time - times[m] >= Duration - Lag
  <2> HIDE DEF m, opened
  <2>1. times[opened] <= time /\ times[opened] \in Nat
    BY <1>1, <1>3, <1>4
  <2>2. m >= 1 => times[m] \in Nat /\ times[opened] - times[m] >= Duration - Lag
    BY <1>1, <1>3, <1>4, <1>5
  <2> QED BY ONLY <1>2, <2>1, <2>2, time \in Nat
<1>7. Bounded(longer)
  <2> HIDE DEF m
  <2> USE DEF n, longer
  <2> QED BY <1>4, <1>6, BoundedOn
<1>8. ASSUME NEW more \in Window, more.start = window.start, more.count = window.count + 1
      PROVE  Counts(more, longer)
  <2>0. more.start = start /\ more.count = count + 1
    BY <1>8 DEF start, count
  <2>1. Opened(more, longer) = opened
    <3>1. Opened(more, longer) = (n + 1) - (count + 1) + 1
      BY <1>1, <2>0 DEF Opened
    <3> QED BY ONLY <1>1, <1>2, <3>1
  <2>2. more.count <= Len(longer)
    <3>1. count + 1 <= n + 1
      BY ONLY <1>1, <1>2, <1>3
    <3> QED BY <1>1, <2>0, <3>1
  <2>3. longer[opened] = times[opened] /\ (opened > Maximum => longer[m] = times[m])
    BY <1>1, <1>4, <1>5
  <2> HIDE DEF opened
  <2> QED BY <1>3, <2>0, <2>1, <2>2, <2>3 DEF Counts
<1> USE DEF longer
<1> QED BY <1>7, <1>8

-----------------------------------------------------------------------------
(* The table *)

LEMMA WindowFields ==
  ASSUME NEW window \in Window
  PROVE  /\ window # None /\ window.start \in Nat /\ window.count \in 1 .. Maximum
         /\ ~Spent(window) =>
                /\ [window EXCEPT !.count = @ + 1] \in Window
                /\ [window EXCEPT !.count = @ + 1].start = window.start
                /\ [window EXCEPT !.count = @ + 1].count = window.count + 1
<1>1. window # None /\ window.start \in Nat /\ window.count \in 1 .. Maximum
  BY NoWindowAssumption DEF Window
<1>2. ASSUME ~Spent(window) PROVE window.count + 1 \in 1 .. Maximum
  BY <1>1, <1>2, RateAssumption DEF Spent
<1> QED BY <1>1, <1>2 DEF Window

(* What a call finds: the windows left by Swept still tell the truth.       *)
LEMMA CallFinds ==
  ASSUME IInv, NEW t \in Threads, calls[t] # Idle
  PROVE  /\ calls[t].key \in Keys /\ calls[t].now \in Nat
         /\ calls[t].now <= clock /\ clock <= calls[t].now + Lag
         /\ Swept(calls[t].now) \in [Keys -> Window \union {None}]
         /\ IsFiniteSet(Held(Swept(calls[t].now)))
         /\ Cardinality(Held(Swept(calls[t].now))) <= Cap
         /\ \A k \in Keys : Follows(Swept(calls[t].now)[k], admitted[k], clock)
<1> DEFINE now == calls[t].now
<1>1. calls[t].key \in Keys /\ now \in Nat /\ now <= clock /\ clock <= now + Lag
  BY DEF IInv, TypeOK, CallsFresh, Call
<1>2. /\ clock \in Nat /\ windows \in [Keys -> Window \union {None}]
      /\ admitted \in [Keys -> Seq(Nat)]
      /\ IsFiniteSet(Held(windows)) /\ Cardinality(Held(windows)) <= Cap
      /\ RatesKept
  BY DEF IInv, TypeOK, TableBounded
<1> HIDE DEF now
<1>3. Swept(now) \in [Keys -> Window \union {None}]
  BY <1>2 DEF Swept
<1>4. Held(Swept(now)) \subseteq Held(windows)
  BY DEF Held, Swept
<1>5. IsFiniteSet(Held(Swept(now))) /\ Cardinality(Held(Swept(now))) <= Cap
  <2>1. /\ IsFiniteSet(Held(Swept(now)))
        /\ Cardinality(Held(Swept(now))) <= Cardinality(Held(windows))
    BY <1>2, <1>4, FS_Subset
  <2>2. Cardinality(Held(Swept(now))) \in Nat /\ Cardinality(Held(windows)) \in Nat
    BY <1>2, <2>1, FS_CardinalityType
  <2> QED BY <1>2, <2>1, <2>2, RateAssumption
<1>6. ASSUME NEW k \in Keys PROVE Follows(Swept(now)[k], admitted[k], clock)
  <2>1. Follows(windows[k], admitted[k], clock) /\ Ordered(admitted[k], clock)
    BY <1>2 DEF RatesKept
  <2>2. CASE Swept(now)[k] = windows[k]
    BY <2>1, <2>2
  <2>3. CASE Swept(now)[k] # windows[k]
    <3>1. windows[k] # None /\ Expired(windows[k], now) /\ Swept(now)[k] = None
      BY <2>3 DEF Swept
    <3>2. windows[k] \in Window /\ admitted[k] \in Seq(Nat)
      BY <1>2, <3>1
    <3>3. Rested(admitted[k], clock)
      BY <1>1, <1>2, <2>1, <3>1, <3>2, ExpiredRests DEF Follows
    <3> QED BY <3>1, <3>3 DEF Follows
  <2> QED BY <2>2, <2>3
<1> USE DEF now
<1> QED BY <1>1, <1>3, <1>5, <1>6

LEMMA CallEnds ==
  ASSUME IInv, NEW t \in Threads, calls' = [calls EXCEPT ![t] = Idle], clock' = clock
  PROVE  calls' \in [Threads -> Call] /\ CallsFresh'
<1>1. calls \in [Threads -> Call] /\ Idle \in Call
  BY DEF IInv, TypeOK, Call
<1>2. calls' \in [Threads -> Call]
  BY <1>1
<1>3. \A u \in Threads : calls'[u] # Idle => calls'[u] = calls[u]
  BY <1>1
<1>4. CallsFresh'
  BY <1>3 DEF IInv, CallsFresh, Idle
<1> QED BY <1>2, <1>4

(* A refusal leaves only what is left of the table. *)
LEMMA RefusalStep ==
  ASSUME IInv, NEW t \in Threads, calls[t] # Idle,
         windows' = Swept(calls[t].now), Refused(t)
  PROVE  IInv'
<1>1. clock' = clock /\ admitted' = admitted /\ calls' \in [Threads -> Call] /\ CallsFresh'
  BY CallEnds DEF Refused
<1>2. /\ windows' \in [Keys -> Window \union {None}]
      /\ IsFiniteSet(Held(windows')) /\ Cardinality(Held(windows')) <= Cap
      /\ \A k \in Keys : Follows(windows'[k], admitted'[k], clock')
  BY <1>1, CallFinds
<1>3. TypeOK'
  BY <1>1, <1>2 DEF IInv, TypeOK
<1>4. RatesKept'
  <2>1. \A k \in Keys : Ordered(admitted'[k], clock') /\ Bounded(admitted'[k])
    BY <1>1 DEF IInv, RatesKept
  <2> QED BY <1>2, <2>1 DEF RatesKept
<1>5. IsFiniteSet(Held(windows))' /\ TableBounded'
  BY <1>2 DEF TableBounded, Held
<1> QED BY <1>1, <1>3, <1>4, <1>5 DEF IInv

(* An admission is right if the window it leaves is right for its address.  *)
LEMMA AdmissionStep ==
  ASSUME IInv, NEW t \in Threads, calls[t] # Idle,
         NEW window \in Window,
         windows' = [Swept(calls[t].now) EXCEPT ![calls[t].key] = window],
         Admitted(t, calls[t].key),
         \/ Swept(calls[t].now)[calls[t].key] # None
         \/ ~Full(Swept(calls[t].now)),
         Bounded(Append(admitted[calls[t].key], clock)),
         Counts(window, Append(admitted[calls[t].key], clock))
  PROVE  IInv'
<1> DEFINE key == calls[t].key
           table == Swept(calls[t].now)
<1>1. /\ key \in Keys /\ table \in [Keys -> Window \union {None}]
      /\ IsFiniteSet(Held(table)) /\ Cardinality(Held(table)) <= Cap
      /\ \A k \in Keys : Follows(table[k], admitted[k], clock)
  BY CallFinds
<1>2. /\ clock' = clock /\ clock \in Nat
      /\ admitted \in [Keys -> Seq(Nat)]
      /\ admitted' = [admitted EXCEPT ![key] = Append(admitted[key], clock)]
      /\ calls' \in [Threads -> Call] /\ CallsFresh'
  BY CallEnds DEF Admitted, IInv, TypeOK
<1>3. /\ windows' = [table EXCEPT ![key] = window]
      /\ table[key] # None \/ ~Full(table)
  OBVIOUS
<1>4. /\ Bounded(Append(admitted[key], clock)) /\ Counts(window, Append(admitted[key], clock))
      /\ window # None
  BY WindowFields
<1> HIDE DEF key, table
<1>5. admitted'[key] = Append(admitted[key], clock) /\ Append(admitted[key], clock) \in Seq(Nat)
  BY <1>1, <1>2
<1>6. TypeOK'
  <2>1. windows' \in [Keys -> Window \union {None}]
    BY <1>1, <1>3
  <2>2. admitted' \in [Keys -> Seq(Nat)]
    BY <1>2, <1>5
  <2> QED BY <1>2, <2>1, <2>2 DEF TypeOK
<1>7. IsFiniteSet(Held(windows')) /\ Cardinality(Held(windows')) <= Cap
  <2>1. Held(windows') = Held(table) \union {key}
    BY <1>1, <1>3, <1>4 DEF Held
  <2>2. CASE table[key] # None
    <3>1. Held(windows') = Held(table)
      BY <1>1, <2>1, <2>2 DEF Held
    <3> QED BY <1>1, <3>1
  <2>3. CASE table[key] = None
    <3>1. key \notin Held(table) /\ ~Full(table)
      BY <1>3, <2>3 DEF Held
    <3>2. /\ IsFiniteSet(Held(windows'))
          /\ Cardinality(Held(windows')) = Cardinality(Held(table)) + 1
      BY <1>1, <2>1, <3>1, FS_AddElement
    <3>3. Cardinality(Held(table)) \in Nat
      BY <1>1, FS_CardinalityType
    <3> QED BY <3>1, <3>2, <3>3, RateAssumption DEF Full
  <2> QED BY <2>2, <2>3
<1>8. ASSUME NEW k \in Keys
      PROVE  /\ Ordered(admitted'[k], clock) /\ Bounded(admitted'[k])
             /\ Follows(windows'[k], admitted'[k], clock)
  <2>1. Ordered(admitted[k], clock) /\ Bounded(admitted[k]) /\ admitted[k] \in Seq(Nat)
    BY <1>2 DEF IInv, RatesKept
  <2>2. CASE k = key
    <3>1. Ordered(admitted'[k], clock)
      BY <1>2, <1>5, <2>1, <2>2, OrderedOn
    <3>2. windows'[k] = window
      BY <1>1, <1>3, <2>2
    <3> QED BY <1>4, <1>5, <2>2, <3>1, <3>2 DEF Follows
  <2>3. CASE k # key
    <3>1. windows'[k] = table[k] /\ admitted'[k] = admitted[k]
      BY <1>1, <1>2, <1>3, <2>3
    <3> QED BY <1>1, <2>1, <3>1
  <2> QED BY <2>2, <2>3
<1>9. RatesKept'
  BY <1>2, <1>8 DEF RatesKept
<1>10. IsFiniteSet(Held(windows))' /\ TableBounded'
  BY <1>7 DEF TableBounded, Held
<1> QED BY <1>2, <1>6, <1>9, <1>10 DEF IInv

-----------------------------------------------------------------------------
(* The invariant *)

LEMMA InitIInv == Init => IInv
<1> SUFFICES ASSUME Init PROVE IInv
  OBVIOUS
<1> USE RateAssumption, ClockAssumption
<1>1. TypeOK
  BY DEF Init, TypeOK, Call
<1>2. Held(windows) = {}
  BY DEF Init, Held
<1>3. IsFiniteSet(Held(windows)) /\ TableBounded
  BY <1>2, FS_EmptySet DEF TableBounded
<1>4. CallsFresh
  BY DEF Init, CallsFresh
<1>5. RatesKept
  <2>1. \A k \in Keys : admitted[k] = <<>> /\ windows[k] = None /\ Len(<<>>) = 0
    BY DEF Init
  <2>2. Ordered(<<>>, clock) /\ Bounded(<<>>) /\ Rested(<<>>, clock)
    BY DEF Ordered, Bounded, Rested
  <2> QED BY <2>1, <2>2 DEF RatesKept, Follows
<1> QED BY <1>1, <1>3, <1>4, <1>5 DEF IInv

LEMMA OpenStep ==
  ASSUME IInv, NEW t \in Threads, calls[t] # Idle,
         OpenWindow(t, calls[t].key, calls[t].now)
  PROVE  IInv'
<1> DEFINE key == calls[t].key
           now == calls[t].now
           table == Swept(now)
           first == [start |-> now, count |-> 1]
<1>1. /\ key \in Keys /\ now \in Nat /\ now <= clock /\ clock <= now + Lag
      /\ table \in [Keys -> Window \union {None}]
      /\ Follows(table[key], admitted[key], clock)
  BY CallFinds
<1>2. /\ admitted[key] \in Seq(Nat) /\ clock \in Nat
      /\ Ordered(admitted[key], clock) /\ Bounded(admitted[key])
  BY <1>1 DEF IInv, TypeOK, RatesKept
<1>3. /\ \/ table[key] = None /\ ~Full(table)
         \/ table[key] # None /\ Expired(table[key], now)
      /\ windows' = [table EXCEPT ![key] = first]
      /\ Admitted(t, key)
  BY DEF OpenWindow
<1>4. first \in Window
  BY <1>1, RateAssumption DEF Window
<1> HIDE DEF key, now, table
<1>5. Rested(admitted[key], clock)
  <2>1. CASE table[key] = None
    BY <1>1, <2>1 DEF Follows
  <2>2. CASE table[key] # None /\ Expired(table[key], now)
    <3>1. table[key] \in Window /\ Counts(table[key], admitted[key])
      BY <1>1, <2>2 DEF Follows
    <3> QED BY <1>1, <1>2, <2>2, <3>1, ExpiredRests
  <2> QED BY <1>3, <2>1, <2>2
<1>6. Bounded(Append(admitted[key], clock)) /\ Counts(first, Append(admitted[key], clock))
  BY <1>1, <1>2, <1>5, OpenedFollows
<1> HIDE DEF first
<1> USE DEF key, now, table
<1> QED BY <1>3, <1>4, <1>6, AdmissionStep

LEMMA CountStep ==
  ASSUME IInv, NEW t \in Threads, calls[t] # Idle,
         CountRequest(t, calls[t].key, calls[t].now)
  PROVE  IInv'
<1> DEFINE key == calls[t].key
           table == Swept(calls[t].now)
           more == [table[key] EXCEPT !.count = @ + 1]
<1>1. /\ key \in Keys /\ table \in [Keys -> Window \union {None}]
      /\ Follows(table[key], admitted[key], clock)
  BY CallFinds
<1>2. /\ admitted[key] \in Seq(Nat) /\ clock \in Nat
      /\ Ordered(admitted[key], clock) /\ Bounded(admitted[key])
  BY <1>1 DEF IInv, TypeOK, RatesKept
<1>3. /\ table[key] # None /\ ~Spent(table[key])
      /\ windows' = [table EXCEPT ![key].count = @ + 1]
      /\ Admitted(t, key)
  BY DEF CountRequest
<1> HIDE DEF key, table
<1>4. table[key] \in Window /\ Counts(table[key], admitted[key])
  BY <1>1, <1>3 DEF Follows
<1>5. windows' = [table EXCEPT ![key] = more]
  BY <1>1, <1>3
<1>6. more \in Window /\ more.start = table[key].start /\ more.count = table[key].count + 1
  BY <1>3, <1>4, WindowFields
<1> HIDE DEF more
<1>7. Bounded(Append(admitted[key], clock)) /\ Counts(more, Append(admitted[key], clock))
  BY <1>2, <1>3, <1>4, <1>6, CountedFollows
<1> USE DEF key, table
<1> QED BY <1>3, <1>5, <1>6, <1>7, AdmissionStep

LEMMA TickStep == IInv /\ Tick => IInv'
<1> SUFFICES ASSUME IInv, Tick PROVE IInv'
  OBVIOUS
<1>1. /\ clock \in Nat /\ clock' = clock + 1 /\ UNCHANGED <<windows, calls, admitted>>
      /\ admitted \in [Keys -> Seq(Nat)] /\ calls \in [Threads -> Call]
  BY DEF Tick, IInv, TypeOK
<1>2. TypeOK' /\ IsFiniteSet(Held(windows))' /\ TableBounded'
  BY <1>1 DEF IInv, TypeOK, TableBounded, Held
<1>3. CallsFresh'
  <2>1. ASSUME NEW t \in Threads, calls[t] # Idle
        PROVE  calls[t].now <= clock + 1 /\ clock + 1 <= calls[t].now + Lag
    <3>1. calls[t].now \in Nat /\ calls[t].now <= clock /\ clock < calls[t].now + Lag
      BY <1>1, <2>1 DEF IInv, CallsFresh, Tick, Call
    <3> QED BY <1>1, <3>1, ClockAssumption
  <2> QED BY <1>1, <2>1 DEF CallsFresh, Idle
<1>4. ASSUME NEW k \in Keys
      PROVE  /\ Ordered(admitted[k], clock + 1) /\ Bounded(admitted[k])
             /\ Follows(windows[k], admitted[k], clock + 1)
  <2>1. /\ Ordered(admitted[k], clock) /\ Bounded(admitted[k])
        /\ Follows(windows[k], admitted[k], clock) /\ admitted[k] \in Seq(Nat)
    BY <1>1 DEF IInv, RatesKept
  <2>2. Ordered(admitted[k], clock + 1)
    <3>1. \A i \in 1 .. Len(admitted[k]) : admitted[k][i] \in Nat
      BY <2>1
    <3> QED BY <1>1, <2>1, <3>1 DEF Ordered
  <2>3. Follows(windows[k], admitted[k], clock + 1)
    <3>1. clock + 1 \in Nat /\ clock <= clock + 1
      BY <1>1
    <3> QED BY <1>1, <2>1, <3>1, RestedLater DEF Follows
  <2> QED BY <2>1, <2>2, <2>3
<1>5. RatesKept'
  BY <1>1, <1>4 DEF RatesKept
<1> QED BY <1>2, <1>3, <1>5 DEF IInv

LEMMA NextIInv == IInv /\ [Next]_vars => IInv'
<1> SUFFICES ASSUME IInv, [Next]_vars PROVE IInv'
  OBVIOUS
<1>1. ASSUME NEW t \in Threads, NEW key \in Keys, Ask(t, key) PROVE IInv'
  <2>1. /\ UNCHANGED <<clock, windows, admitted>> /\ clock \in Nat
        /\ calls \in [Threads -> Call]
        /\ calls' = [calls EXCEPT ![t] = [at |-> "asking", key |-> key, now |-> clock]]
    BY <1>1 DEF Ask, IInv, TypeOK
  <2>2. [at |-> "asking", key |-> key, now |-> clock] \in Call
    BY <2>1 DEF Call
  <2>3. TypeOK'
    BY <2>1, <2>2 DEF IInv, TypeOK
  <2>4. CallsFresh'
    BY <2>1, ClockAssumption DEF IInv, CallsFresh, Idle
  <2>5. IsFiniteSet(Held(windows))' /\ TableBounded' /\ RatesKept'
    BY <2>1 DEF IInv, TableBounded, Held, RatesKept
  <2> QED BY <2>3, <2>4, <2>5 DEF IInv
<1>2. ASSUME NEW t \in Threads, Allow(t) PROVE IInv'
  <2>1. calls[t] # Idle
    BY <1>2 DEF Allow
  <2>2. CASE RefuseNew(t, calls[t].key, calls[t].now)
    BY <2>1, <2>2, RefusalStep DEF RefuseNew
  <2>3. CASE OpenWindow(t, calls[t].key, calls[t].now)
    BY <2>1, <2>3, OpenStep
  <2>4. CASE RefuseSpent(t, calls[t].key, calls[t].now)
    BY <2>1, <2>4, RefusalStep DEF RefuseSpent
  <2>5. CASE CountRequest(t, calls[t].key, calls[t].now)
    BY <2>1, <2>5, CountStep
  <2> QED BY <1>2, <2>2, <2>3, <2>4, <2>5 DEF Allow
<1>3. CASE Tick
  BY <1>3, TickStep
<1>4. CASE UNCHANGED vars
  BY <1>4 DEF vars, IInv, TypeOK, TableBounded, Held, CallsFresh, RatesKept
<1> QED BY <1>1, <1>2, <1>3, <1>4 DEF Next

THEOREM Invariance == Spec => []IInv
<1>1. Init => IInv
  BY InitIInv
<1>2. IInv /\ [Next]_vars => IInv'
  BY NextIInv
<1> QED BY <1>1, <1>2, PTL DEF Spec

(* The fields, the calls and the history keep their types. *)
THEOREM TypeCorrect == Spec => []TypeOK
<1>1. IInv => TypeOK
  BY DEF IInv
<1> QED BY <1>1, Invariance, PTL

(* The table never grows beyond its capacity, whoever asks. *)
THEOREM TableStaysBounded == Spec => []TableBounded
<1>1. IInv => TableBounded
  BY DEF IInv
<1> QED BY <1>1, Invariance, PTL

(* No address gets more through than two windows' worth, less one, in the    *)
(* length of a window less the longest wait for the mutex.                   *)
THEOREM RateStaysBounded == Spec => []RateBounded
<1>1. IInv => RateBounded
  BY DEF IInv, RatesKept, Bounded, RateBounded
<1> QED BY <1>1, Invariance, PTL

(* A window that has not run out was opened not long ago. *)
LEMMA FreshIsRecent ==
  ASSUME IInv, NEW t \in Threads, calls[t] # Idle, NEW k \in Keys,
         Swept(calls[t].now)[k] # None,
         ~Expired(Swept(calls[t].now)[k], calls[t].now)
  PROVE  /\ Recently(k, 1)
         /\ Spent(Swept(calls[t].now)[k]) => Recently(k, Maximum)
<1> DEFINE now == calls[t].now
           window == Swept(now)[k]
           times == admitted[k]
           n == Len(times)
           count == window.count
           start == window.start
           opened == n - count + 1
<1>1. now \in Nat /\ now <= clock /\ clock <= now + Lag /\ window \in Window
      /\ Counts(window, times)
  BY CallFinds DEF Follows
<1>2. /\ clock \in Nat /\ times \in Seq(Nat) /\ n \in Nat
      /\ \A i \in 1 .. n : times[i] \in Nat
      /\ \A i, j \in 1 .. n : i <= j => times[i] <= times[j]
  BY DEF IInv, TypeOK, RatesKept, Ordered
<1>3. /\ start \in Nat /\ count \in 1 .. Maximum /\ now - start < Duration
      /\ count <= n /\ start <= times[opened]
      /\ Maximum \in Nat \ {0} /\ Duration \in Nat /\ Lag \in Nat
  <2>1. window.start \in Nat /\ window.count \in 1 .. Maximum
    BY <1>1, WindowFields
  <2>2. now - window.start < Duration
    BY <1>1, <2>1, RateAssumption DEF Expired
  <2> QED BY <1>1, <2>1, <2>2, RateAssumption, ClockAssumption DEF Counts, Opened
<1>4. Spent(window) => count = Maximum
  BY <1>3 DEF Spent
<1> HIDE DEF now, window, times, n, count, start
<1>5. opened \in 1 .. n /\ n \in 1 .. n /\ opened <= n /\ 1 <= n /\ n - 1 + 1 = n
  BY ONLY <1>2, <1>3
<1> HIDE DEF opened
<1>6. /\ times[opened] \in Nat /\ times[n] \in Nat
      /\ start <= times[opened] /\ times[opened] <= times[n]
  BY <1>2, <1>3, <1>5
<1>7. clock - times[opened] < Duration + Lag /\ clock - times[n] < Duration + Lag
  BY ONLY <1>1, <1>2, <1>3, <1>6
<1>8. Recently(k, 1)
  BY <1>5, <1>7 DEF Recently, times, n
<1>9. ASSUME Spent(window) PROVE Recently(k, Maximum)
  <2>1. Maximum <= n /\ n - Maximum + 1 = opened
    BY <1>3, <1>4, <1>9 DEF opened
  <2> QED BY <1>7, <2>1 DEF Recently, times, n
<1> USE DEF now, window
<1> QED BY <1>8, <1>9

LEMMA RefusalJustified ==
  ASSUME IInv, [Next]_vars, NEW t \in Threads, NEW k \in Keys,
         calls[t] # Idle, calls[t].key = k, calls'[t] = Idle, admitted' = admitted
  PROVE  Recently(k, Maximum) \/ Crowded(k)
<1> DEFINE now == calls[t].now
           table == Swept(now)
<1>1. calls \in [Threads -> Call] /\ admitted \in [Keys -> Seq(Nat)]
  BY DEF IInv, TypeOK
<1>2. Allow(t)
  <2>1. ASSUME NEW u \in Threads, NEW key \in Keys, Ask(u, key) PROVE FALSE
    BY <1>1, <2>1 DEF Ask
  <2>2. ASSUME NEW u \in Threads, u # t, Allow(u) PROVE FALSE
    <3>1. calls' = [calls EXCEPT ![u] = Idle]
      BY <2>2 DEF Allow, RefuseNew, OpenWindow, RefuseSpent, CountRequest, Admitted, Refused
    <3> QED BY <1>1, <2>2, <3>1
  <2>3. ~Tick /\ ~UNCHANGED vars
    BY DEF Tick, vars
  <2> QED BY <2>1, <2>2, <2>3 DEF Next
<1>3. ~Admitted(t, k)
  <2>1. ASSUME Admitted(t, k) PROVE FALSE
    <3>1. admitted'[k] = Append(admitted[k], clock) /\ admitted[k] \in Seq(Nat) /\ clock \in Nat
      BY <1>1, <2>1 DEF Admitted, IInv, TypeOK
    <3>2. Len(admitted'[k]) = Len(admitted[k]) + 1 /\ Len(admitted[k]) \in Nat
      BY <3>1
    <3> QED BY <3>2
  <2> QED BY <2>1
<1>4. RefuseNew(t, k, now) \/ RefuseSpent(t, k, now)
  BY <1>2, <1>3 DEF Allow, OpenWindow, CountRequest
<1>5. CASE RefuseSpent(t, k, now)
  BY <1>5, FreshIsRecent DEF RefuseSpent
<1>6. CASE RefuseNew(t, k, now)
  <2>1. /\ IsFiniteSet(Held(table)) /\ Held(table) \in SUBSET (Keys \ {k})
        /\ Cardinality(Held(table)) >= Cap
    BY <1>6, CallFinds DEF RefuseNew, Full, Held
  <2>2. Full(windows)
    <3>1. Held(table) \subseteq Held(windows)
      BY DEF Held, Swept
    <3>2. /\ Cardinality(Held(table)) <= Cardinality(Held(windows))
          /\ Cardinality(Held(table)) \in Nat /\ Cardinality(Held(windows)) \in Nat
      BY <2>1, <3>1, FS_Subset, FS_CardinalityType DEF IInv
    <3> QED BY <2>1, <3>2, RateAssumption DEF Full
  <2>3. ASSUME NEW o \in Held(table) PROVE Recently(o, 1)
    <3>1. o \in Keys /\ table[o] # None
      BY DEF Held
    <3>2. ~Expired(table[o], now)
      BY <2>2, <3>1 DEF Swept
    <3> QED BY <3>1, <3>2, FreshIsRecent
  <2> QED BY <2>1, <2>3 DEF Crowded
<1> QED BY <1>4, <1>5, <1>6

(* Who is refused has had a window's worth of requests of late, or a table's *)
(* worth of others have asked.                                               *)
THEOREM RefusalsAreJustified == Spec => RefusalsJustified
<1>1. IInv /\ [Next]_vars =>
          [\A t \in Threads : \A k \in Keys :
               /\ calls[t] # Idle /\ calls[t].key = k
               /\ calls'[t] = Idle /\ admitted' = admitted
               => Recently(k, Maximum) \/ Crowded(k)]_vars
  BY RefusalJustified
<1> QED BY <1>1, Invariance, PTL DEF Spec, RefusalsJustified
=============================================================================
