---------------------------- MODULE RateLimiter ----------------------------
(***************************************************************************)
(* rateLimiter.Allow (internal/controlplane/service.go) under the handlers *)
(* of /v1/enroll, which run concurrently.  A handler reads the clock when  *)
(* it calls Allow, and takes its decision when it has the mutex: others    *)
(* that read the clock later may have decided in between.  A handler is    *)
(* taken to wait at most Lag for the mutex.                                *)
(***************************************************************************)
EXTENDS Integers, Sequences, FiniteSets

CONSTANTS
    Keys,        \* the addresses requests come from
    Threads,     \* requests handled at the same time
    Maximum,     \* requests of one window (20)
    Duration,    \* of a window (a minute)
    Cap,         \* windows kept (4096)
    Lag,         \* longest wait between the clock and the mutex
    MaxTime,     \* bound of the model on the clock
    None         \* no window

Window == [start : Nat, count : 1 .. Maximum]

ASSUME RateAssumption == Maximum \in Nat \ {0} /\ Duration \in Nat \ {0} /\ Cap \in Nat
ASSUME ClockAssumption == Lag \in Nat /\ MaxTime \in Nat
ASSUME NoWindowAssumption == None \notin Window

VARIABLES
    clock,       \* time.Now()
    windows,     \* rateLimiter.windows
    calls,       \* what each handler passes to Allow
    admitted     \* history: when the requests of each address were let through

vars == <<clock, windows, calls, admitted>>

Idle == [at |-> "idle"]
Call == {Idle} \union [at : {"asking"}, key : Keys, now : Nat]

Init ==
    /\ clock = 0
    /\ windows = [k \in Keys |-> None]
    /\ calls = [t \in Threads |-> Idle]
    /\ admitted = [k \in Keys |-> <<>>]

Held(table) == {k \in Keys : table[k] # None}

\* (slip) one window too many
FullLate(table) == Cardinality(Held(table)) > Cap

Full(table) == Cardinality(Held(table)) >= Cap

Expired(window, now) == now - window.start >= Duration

\* (slips) a full table is emptied; it is not cleaned up at all
SweptAll(now) == [k \in Keys |-> IF Full(windows) THEN None ELSE windows[k]]
SweptNever(now) == windows

\* The table a call works with: a full one is first rid of what has expired
Swept(now) ==
    [k \in Keys |-> IF Full(windows) /\ windows[k] # None /\ Expired(windows[k], now)
                    THEN None ELSE windows[k]]

\* (slip) the test comes after the request it should refuse
SpentLate(window) == window.count > Maximum

Spent(window) == window.count >= Maximum

\* The handler of enroll calls Allow with the address and the time
Ask(t, key) ==
    /\ calls[t] = Idle
    /\ calls' = [calls EXCEPT ![t] = [at |-> "asking", key |-> key, now |-> clock]]
    /\ UNCHANGED <<clock, windows, admitted>>

Admitted(t, key) ==
    /\ admitted' = [admitted EXCEPT ![key] = Append(admitted[key], clock)]
    /\ calls' = [calls EXCEPT ![t] = Idle]
    /\ UNCHANGED clock

Refused(t) ==
    /\ calls' = [calls EXCEPT ![t] = Idle]
    /\ UNCHANGED <<clock, admitted>>

\* An address without a window, and no room for one
RefuseNew(t, key, now) ==
    /\ Swept(now)[key] = None
    /\ Full(Swept(now))
    /\ windows' = Swept(now)
    /\ Refused(t)

\* The first request of a window
OpenWindow(t, key, now) ==
    /\ \/ Swept(now)[key] = None /\ ~Full(Swept(now))
       \/ Swept(now)[key] # None /\ Expired(Swept(now)[key], now)
    /\ windows' = [Swept(now) EXCEPT ![key] = [start |-> now, count |-> 1]]
    /\ Admitted(t, key)

RefuseSpent(t, key, now) ==
    /\ Swept(now)[key] # None
    /\ ~Expired(Swept(now)[key], now)
    /\ Spent(Swept(now)[key])
    /\ windows' = Swept(now)
    /\ Refused(t)

CountRequest(t, key, now) ==
    /\ Swept(now)[key] # None
    /\ ~Expired(Swept(now)[key], now)
    /\ ~Spent(Swept(now)[key])
    /\ windows' = [Swept(now) EXCEPT ![key].count = @ + 1]
    /\ Admitted(t, key)

Allow(t) ==
    /\ calls[t] # Idle
    /\ LET key == calls[t].key
           now == calls[t].now
       IN  \/ RefuseNew(t, key, now)
           \/ OpenWindow(t, key, now)
           \/ RefuseSpent(t, key, now)
           \/ CountRequest(t, key, now)

\* Time passes, but nobody waits longer than Lag
Tick ==
    /\ clock < MaxTime
    /\ \A t \in Threads : calls[t] # Idle => clock < calls[t].now + Lag
    /\ clock' = clock + 1
    /\ UNCHANGED <<windows, calls, admitted>>

Next ==
    \/ \E t \in Threads, key \in Keys : Ask(t, key)
    \/ \E t \in Threads : Allow(t)
    \/ Tick

Spec == Init /\ [][Next]_vars

-----------------------------------------------------------------------------
(* Types of the limiter's fields, of the calls and of the history. *)
TypeOK ==
    /\ clock \in Nat
    /\ windows \in [Keys -> Window \union {None}]
    /\ calls \in [Threads -> Call]
    /\ admitted \in [Keys -> Seq(Nat)]

(* However many addresses ask, and in whatever order their calls get the    *)
(* mutex, the table keeps no more windows than it is meant to.              *)
TableBounded == Cardinality(Held(windows)) <= Cap

(* No address gets more than two windows' worth of requests through, less   *)
(* one, in the length of a window (less what a handler may have waited for  *)
(* the mutex): neither by asking around the turn of its window, nor because *)
(* its window was cleared away for others, nor by a call that read the      *)
(* clock long before it decided.                                            *)
RateBounded ==
    \A k \in Keys : \A i \in 1 .. Len(admitted[k]) :
        i + 2 * Maximum - 1 <= Len(admitted[k]) =>
            admitted[k][i + 2 * Maximum - 1] - admitted[k][i] >= Duration - Lag

\* n requests of k were let through not long ago
Recently(k, n) ==
    LET last == Len(admitted[k])
    IN  /\ n <= last
        /\ clock - admitted[k][last - n + 1] < Duration + Lag

Crowded(k) ==
    \E others \in SUBSET (Keys \ {k}) :
        /\ IsFiniteSet(others) /\ Cardinality(others) >= Cap
        /\ \A o \in others : Recently(o, 1)

(* Nobody is turned away without a reason that lies in what was let through *)
(* of late: the address has had its requests, or as many other addresses as *)
(* the table holds have asked.  So neither windows that have run out nor    *)
(* refused requests count against anyone.                                   *)
RefusalsJustified ==
    [][\A t \in Threads : \A k \in Keys :
           /\ calls[t] # Idle /\ calls[t].key = k
           /\ calls'[t] = Idle /\ admitted' = admitted
           => Recently(k, Maximum) \/ Crowded(k)]_vars
=============================================================================
