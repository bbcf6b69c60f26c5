------------------------ MODULE ClientSessionProofs ------------------------
(***************************************************************************)
(* The safety properties of the client's session for every set of uplinks  *)
(* and every bound of ClientSession.                                       *)
(*                                                                         *)
(* What makes them inductive: while rejoinAll is between clearing the list *)
(* and installing the new paths there is no path (RejoinHoldsNoPath), so   *)
(* the session changes only when no path could disagree with it; what a    *)
(* reconnectPath has checked agrees with the session as long as its path   *)
(* is installed (CheckedAgree); and unless a path was replaced after the   *)
(* snapshot of rejoinAll, no socket is open outside the list (OpenIsOwned),*)
(* so that nothing is sent over a session before its numbers start at 1    *)
(* (NewSessionIsUnsent).                                                   *)
(***************************************************************************)
EXTENDS ClientSession, TLAPS

(* The sessions anybody knows of have been created by the relay, by a      *)
(* HELLO of an instance the client has had; a HELLO carries such a one.    *)
SessionsExist ==
    /\ \A o \in Objects : heap[o] # None =>
          /\ heap[o].session \in 1 .. created \union {None}
          /\ heap[o].open => heap[o].session # None
          /\ \/ heap[o].dial = Idle
             \/ heap[o].dial.at = "hello" /\ heap[o].dial.of <= instance
             \/ heap[o].dial.at # "hello" /\ heap[o].dial.of <= created
    /\ \A u \in Uplinks : handshakes[u] \in Sessions => handshakes[u] <= created
    /\ relay # NoSession => relay.session <= created /\ relay.instance <= instance
    /\ \A s \in Sessions : sent[s] # {} => s <= created

(* Between the clearing of the list and the installation of the new paths. *)
RejoinHoldsNoPath == phase \in {"cleared", "connecting", "chosen"} => paths = {}

(* What connect has left of the handshakes once it knows the session.      *)
ChosenIsKept ==
    phase = "chosen" => \A u \in Uplinks : handshakes[u] \in {Failed, sessionID}

(* What reconnectPath compared holds until its path leaves the list.       *)
CheckedAgree ==
    \A o \in paths :
        heap[o].dial # Idle /\ heap[o].dial.at = "checked" => heap[o].dial.of = sessionID

(* The open sockets are those of the list, and none while it is cleared.   *)
OpenIsOwned ==
    ~overtaken =>
        \A o \in Objects : heap[o] # None /\ heap[o].open => o \in paths /\ phase # "closed"

(* The numbers of the current session are those counted.                   *)
NumbersCounted ==
    ~overtaken /\ sessionID \in Sessions => sent[sessionID] \subseteq 1 .. dataSeq

(* The session that connect is about to choose has carried nothing.        *)
NewSessionIsUnsent ==
    ~overtaken /\ phase = "connecting" =>
        /\ \A u \in Uplinks : handshakes[u] \in Sessions => sent[handshakes[u]] = {}
        /\ relay.instance = instance => sent[relay.session] = {}

IInv ==
    /\ TypeOK
    /\ SessionsExist
    /\ RejoinHoldsNoPath
    /\ ChosenIsKept
    /\ CheckedAgree
    /\ PathsShareSession
    /\ OpenIsOwned
    /\ SocketsAreOwned
    /\ NumbersCounted
    /\ NewSessionIsUnsent
    /\ NumbersUsedOnce

-----------------------------------------------------------------------------
(* Records of the heap *)

(* A clientPath and its fields. *)
LEMMA PathFields ==
  ASSUME NEW p \in ClientPath
  PROVE  /\ p # None
         /\ p.session \in Sessions \union {None}
         /\ p.open \in BOOLEAN /\ p.healthy \in BOOLEAN
         /\ p.dial \in Dial \union {Idle}
  BY NothingAssumption DEF ClientPath

(* reconnectPath begins, goes on or ends. *)
LEMMA DialStored ==
  ASSUME NEW p \in ClientPath, NEW d \in Dial \union {Idle}
  PROVE  LET q == [p EXCEPT !.dial = d]
         IN  /\ q \in ClientPath
             /\ q.session = p.session /\ q.open = p.open /\ q.healthy = p.healthy
             /\ q.dial = d
  BY DEF ClientPath

(* A socket is closed. *)
LEMMA CloseStored ==
  ASSUME NEW p \in ClientPath
  PROVE  LET q == [p EXCEPT !.open = FALSE]
         IN  /\ q \in ClientPath
             /\ q.session = p.session /\ q.open = FALSE /\ q.dial = p.dial
  BY DEF ClientPath

(* The health of a path changes. *)
LEMMA HealthStored ==
  ASSUME NEW p \in ClientPath, NEW b \in BOOLEAN
  PROVE  LET q == [p EXCEPT !.healthy = b]
         IN  /\ q \in ClientPath
             /\ q.session = p.session /\ q.open = p.open /\ q.dial = p.dial
  BY DEF ClientPath

(* Of a path that is closed and replaced only its goroutine is left. *)
LEMMA RestStored ==
  ASSUME NEW p \in ClientPath
  PROVE  LET q == [p EXCEPT !.session = None, !.healthy = FALSE]
         IN  /\ q \in ClientPath
             /\ q.session = None /\ q.open = p.open /\ q.dial = p.dial
  BY DEF ClientPath

(* A new path. *)
LEMMA NewStored ==
  ASSUME NEW s \in Sessions
  PROVE  /\ Path(s) \in ClientPath
         /\ Path(s).session = s /\ Path(s).open = TRUE /\ Path(s).dial = Idle
  BY DEF ClientPath, Path

(* The two kinds of handshake. *)
LEMMA DialFields ==
  ASSUME NEW d \in Dial
  PROVE  /\ d # Idle
         /\ d.at \in {"hello", "welcomed", "checked"}
         /\ d.at = "hello" => d.of \in Instances
         /\ d.at # "hello" => d.of \in Sessions
         /\ d = [at |-> d.at, of |-> d.of]
<1>1. d # Idle
  BY NothingAssumption
<1>2. CASE d \in [at : {"hello"}, of : Instances]
  BY <1>1, <1>2
<1>3. CASE d \in [at : {"welcomed", "checked"}, of : Sessions]
  BY <1>1, <1>3
<1> QED BY <1>2, <1>3 DEF Dial

Heaps == [Objects -> ClientPath \union {None}]

(* What Keep makes of the heap it is given. *)
LEMMA KeepStep ==
  ASSUME NEW h \in Heaps, NEW P \in SUBSET Objects, \A o \in P : h[o] # None,
         tunnel' # None => tunnel' \in Objects /\ h[tunnel'] # None,
         Keep(h, P)
  PROVE  /\ paths' = P
         /\ heap' \in Heaps
         /\ \A o \in P : heap'[o] = h[o]
         /\ \A o \in Objects : heap'[o] # None =>
               /\ h[o] # None
               /\ heap'[o].open = h[o].open
               /\ heap'[o].dial = h[o].dial
               /\ \/ heap'[o].session = h[o].session
                  \/ heap'[o].session = None /\ ~h[o].open /\ o \notin P
         /\ tunnel' # None => heap'[tunnel'] # None
         /\ forgotten' => forgotten \/ \E o \in Objects \ P : h[o] # None /\ h[o].open
<1> DEFINE held(o) == h[o] # None /\ (o \in P \/ h[o].dial # Idle \/ tunnel' = o)
           rest(o) == [h[o] EXCEPT !.session = None, !.healthy = FALSE]
           next(o) == IF ~held(o) THEN None
                      ELSE IF o \in P \/ h[o].open THEN h[o] ELSE rest(o)
<1>1. /\ paths' = P
      /\ heap' = [o \in Objects |-> next(o)]
      /\ forgotten' = (forgotten \/ \E o \in Objects \ P : h[o] # None /\ h[o].open)
  BY DEF Keep
<1>2. ASSUME NEW o \in Objects
      PROVE  h[o] # None => h[o] \in ClientPath
  BY DEF Heaps
<1>3. ASSUME NEW o \in Objects, h[o] # None
      PROVE  /\ rest(o) \in ClientPath
             /\ rest(o).session = None /\ rest(o).open = h[o].open /\ rest(o).dial = h[o].dial
  BY <1>2, <1>3, RestStored
<1>4. ASSUME NEW o \in Objects
      PROVE  next(o) \in ClientPath \union {None}
  BY <1>2, <1>3
<1>5. heap' \in Heaps
  <2> HIDE DEF next
  <2> QED BY <1>1, <1>4 DEF Heaps
<1>6. \A o \in Objects : heap'[o] = next(o)
  <2> HIDE DEF next
  <2> QED BY <1>1
<1>7. \A o \in P : heap'[o] = h[o]
  BY <1>6
<1>8. ASSUME NEW o \in Objects, heap'[o] # None
      PROVE  /\ h[o] # None
             /\ heap'[o].open = h[o].open
             /\ heap'[o].dial = h[o].dial
             /\ \/ heap'[o].session = h[o].session
                \/ heap'[o].session = None /\ ~h[o].open /\ o \notin P
  <2>1. held(o) /\ h[o] # None
    BY <1>6, <1>8
  <2> HIDE DEF rest
  <2>2. CASE o \in P \/ h[o].open
    <3>1. heap'[o] = h[o]
      BY <1>6, <2>1, <2>2
    <3> QED BY <2>1, <3>1
  <2>3. CASE ~ (o \in P \/ h[o].open)
    <3>1. heap'[o] = rest(o)
      BY <1>6, <2>1, <2>3
    <3> QED BY <1>3, <2>1, <2>3, <3>1
  <2> QED BY <2>2, <2>3
<1>9. tunnel' # None => heap'[tunnel'] # None
  <2> SUFFICES ASSUME tunnel' # None PROVE heap'[tunnel'] # None
    OBVIOUS
  <2> DEFINE o == tunnel'
  <2>1. o \in Objects /\ h[o] # None /\ held(o)
    OBVIOUS
  <2>2. rest(o) # None
    BY <1>3, <2>1, PathFields
  <2> HIDE DEF rest, o
  <2>3. heap'[o] = h[o] \/ heap'[o] = rest(o)
    BY <1>6, <2>1
  <2>4. heap'[o] # None
    BY <2>1, <2>2, <2>3
  <2> QED BY <2>4 DEF o
<1> HIDE DEF next, held
<1> QED BY <1>1, <1>5, <1>7, <1>8, <1>9

-----------------------------------------------------------------------------
(* What a step does to the clientPaths *)

(* A clientPath stays what it is: its socket is closed at most, its session *)
(* is that of its socket, and reconnectPath goes on with it.               *)
Persists(o) ==
    /\ heap[o] # None
    /\ heap'[o].open => heap[o].open
    /\ \/ heap'[o].session = heap[o].session
       \/ heap'[o].session = None /\ ~heap'[o].open /\ o \notin paths'
    /\ o \in paths' => o \in paths
    /\ heap'[o].open /\ o \in paths => o \in paths' \/ phase = "closed"
    /\ \/ heap'[o].dial \in {heap[o].dial, Idle}
       \/ heap'[o].dial = [at |-> "hello", of |-> instance]
       \/ heap'[o].dial = [at |-> "welcomed", of |-> relay'.session] /\ relay' # NoSession
       \/ /\ heap'[o].dial = [at |-> "checked", of |-> sessionID]
          /\ heap[o].dial = [at |-> "welcomed", of |-> sessionID]
          /\ sessionID' = sessionID

(* A path is installed, over the session the client knows.                 *)
Starts(o) ==
    /\ heap[o] = None /\ o \in paths'
    /\ sessionID \in Sessions /\ sessionID <= created /\ sessionID' = sessionID
    /\ heap'[o] = Path(sessionID)
    /\ overtaken' \/ phase' # "closed"

Evolves ==
    /\ heap' \in Heaps
    /\ paths' \in SUBSET Objects /\ \A o \in paths' : heap'[o] # None
    /\ tunnel' # None => tunnel' \in Objects /\ heap'[tunnel'] # None
    /\ \A o \in Objects : heap'[o] # None => Persists(o) \/ Starts(o)
    /\ phase' = "closed" =>
          phase = "closed" \/ \A o \in paths : heap'[o] # None => ~heap'[o].open
    /\ forgotten' => forgotten \/ overtaken

(* The types of what Keep is given. *)
LEMMA HeapTypes ==
  ASSUME TypeOK
  PROVE  /\ heap \in Heaps
         /\ paths \in SUBSET Objects /\ \A o \in paths : heap[o] # None
         /\ tunnel # None => tunnel \in Objects /\ heap[tunnel] # None
         /\ \A o \in Objects : heap[o] # None => heap[o] \in ClientPath
  BY NothingAssumption DEF TypeOK, Live, Heaps

(* A step that leaves all clientPaths and the list alone. *)
LEMMA SameHeapEvolves ==
  ASSUME TypeOK, heap' = heap, paths' = paths, forgotten' = forgotten,
         phase' = "closed" => phase = "closed",
         tunnel' \in paths \/ tunnel' = tunnel \/ tunnel' = None
  PROVE  Evolves
<1>1. \A o \in Objects : heap'[o] # None => Persists(o)
  BY DEF Persists
<1> QED BY <1>1, HeapTypes DEF Evolves

(* A step that changes one clientPath in place. *)
LEMMA OneChangedEvolves ==
  ASSUME TypeOK, NEW o \in Objects, heap[o] # None,
         NEW q \in ClientPath, heap' = [heap EXCEPT ![o] = q],
         q.open = heap[o].open, q.session = heap[o].session,
         \/ q.dial = heap[o].dial
         \/ q.dial = [at |-> "hello", of |-> instance]
         \/ q.dial = [at |-> "welcomed", of |-> relay'.session] /\ relay' # NoSession,
         UNCHANGED <<paths, phase, tunnel, forgotten>>
  PROVE  Evolves
<1>1. heap' \in Heaps /\ heap'[o] = q /\ \A x \in Objects : x # o => heap'[x] = heap[x]
  BY HeapTypes DEF Heaps
<1>2. q # None
  BY PathFields
<1>3. \A x \in Objects : heap'[x] # None => Persists(x)
  BY <1>1 DEF Persists
<1>4. \A x \in Objects : heap[x] # None => heap'[x] # None
  BY <1>1, <1>2
<1> QED BY <1>1, <1>3, <1>4, HeapTypes DEF Evolves

(* A step that closes the paths of the list. *)
LEMMA ClosingEvolves ==
  ASSUME TypeOK, heap' = ClosedIn(heap, paths), UNCHANGED <<paths, tunnel, forgotten>>
  PROVE  Evolves
<1> DEFINE shut(o) == [heap[o] EXCEPT !.open = FALSE]
<1>1. \A o \in Objects : heap'[o] = IF o \in paths THEN shut(o) ELSE heap[o]
  BY DEF ClosedIn
<1>2. ASSUME NEW o \in Objects, heap[o] # None
      PROVE  /\ shut(o) \in ClientPath /\ shut(o) # None
             /\ shut(o).session = heap[o].session /\ shut(o).open = FALSE
             /\ shut(o).dial = heap[o].dial
  <2>1. heap[o] \in ClientPath
    BY <1>2, HeapTypes
  <2>2. shut(o) \in ClientPath
    BY <2>1, CloseStored
  <2> QED BY <2>1, <2>2, CloseStored, PathFields
<1>3. heap' \in Heaps
  <2>1. ASSUME NEW o \in Objects
        PROVE  (IF o \in paths THEN shut(o) ELSE heap[o]) \in ClientPath \union {None}
    BY <1>2, HeapTypes
  <2>2. heap' = [o \in Objects |-> IF o \in paths THEN shut(o) ELSE heap[o]]
    BY DEF ClosedIn
  <2> HIDE DEF shut
  <2> QED BY <2>1, <2>2 DEF Heaps
<1>4. \A o \in Objects : heap[o] # None =>
          /\ heap'[o] # None
          /\ heap'[o].session = heap[o].session /\ heap'[o].dial = heap[o].dial
          /\ heap'[o].open => heap[o].open /\ o \notin paths
  <2> HIDE DEF shut
  <2> QED BY <1>1, <1>2
<1> HIDE DEF shut
<1>5. \A o \in Objects : heap'[o] # None => heap[o] # None
  BY <1>1, HeapTypes
<1>6. \A o \in Objects : heap'[o] # None => Persists(o)
  BY <1>4, <1>5 DEF Persists
<1> QED BY <1>3, <1>4, <1>6, HeapTypes DEF Evolves

(* A handshake of reconnectPath is stored in its clientPath. *)
LEMMA DialRecorded ==
  ASSUME TypeOK, NEW o \in Objects, heap[o] # None, NEW d
  PROVE  SetDial(o, d) = [heap EXCEPT ![o] = [heap[o] EXCEPT !.dial = d]]
<1>1. heap \in Heaps
  BY HeapTypes
<1> QED BY <1>1 DEF SetDial, Heaps

LEMMA DialSet ==
  ASSUME TypeOK, NEW o \in Objects, heap[o] # None, NEW d \in Dial \union {Idle}
  PROVE  /\ SetDial(o, d) \in Heaps
         /\ SetDial(o, d) = [heap EXCEPT ![o] = [heap[o] EXCEPT !.dial = d]]
         /\ SetDial(o, d)[o] = [heap[o] EXCEPT !.dial = d]
         /\ SetDial(o, d)[o] # None
         /\ \A x \in Objects : SetDial(o, d)[x] # None <=> heap[x] # None
         /\ \A x \in Objects : heap[x] # None =>
               /\ SetDial(o, d)[x].open = heap[x].open
               /\ SetDial(o, d)[x].session = heap[x].session
               /\ SetDial(o, d)[x].dial = IF x = o THEN d ELSE heap[x].dial
<1> DEFINE q == [heap[o] EXCEPT !.dial = d]
<1>1. heap \in Heaps /\ heap[o] \in ClientPath
  BY HeapTypes
<1>2. q \in ClientPath /\ q.session = heap[o].session /\ q.open = heap[o].open /\ q.dial = d
  BY <1>1, DialStored
<1>3. q # None
  BY <1>2, PathFields
<1>4. SetDial(o, d) = [heap EXCEPT ![o] = q]
  BY DialRecorded
<1>5. q = [heap[o] EXCEPT !.dial = d]
  OBVIOUS
<1> HIDE DEF q
<1>6. SetDial(o, d) \in Heaps
  BY <1>1, <1>2, <1>4 DEF Heaps
<1>7. SetDial(o, d)[o] = q /\ \A x \in Objects : x # o => SetDial(o, d)[x] = heap[x]
  BY <1>1, <1>4 DEF Heaps
<1> QED BY <1>2, <1>3, <1>4, <1>5, <1>6, <1>7

(* A HELLO of instance i: the relay's session is one of that instance. *)
LEMMA JoinsStep ==
  ASSUME TypeOK, SessionsExist, NEW i \in Instances, Joins(i)
  PROVE  /\ relay' \in [session : Sessions, instance : Instances]
         /\ relay' # NoSession
         /\ relay'.instance = i
         /\ created' \in 0 .. MaxSessions /\ created <= created' /\ relay'.session <= created'
         /\ \/ relay' = relay /\ created' = created /\ relay # NoSession
            \/ relay'.session = created + 1 /\ created' = created + 1
<1>1. /\ MaxSessions \in Nat /\ created \in 0 .. MaxSessions
      /\ relay \in [session : Sessions, instance : Instances] \union {NoSession}
      /\ relay # NoSession => relay.session <= created
      /\ i # None /\ \A s \in Sessions : s # None
  BY PoolsAssumption, NothingAssumption DEF TypeOK, SessionsExist
<1>2. \A r \in [session : Sessions, instance : Instances] : r # NoSession
  BY <1>1 DEF NoSession
<1>3. CASE relay.instance = i
  <2>1. relay' = relay /\ created' = created
    BY <1>3 DEF Joins
  <2>2. relay # NoSession
    BY <1>1, <1>3 DEF NoSession
  <2> QED BY <1>1, <1>2, <1>3, <2>1, <2>2
<1>4. CASE relay.instance # i
  <2>1. created < MaxSessions /\ created' = created + 1
        /\ relay' = [session |-> created', instance |-> i]
    BY <1>4 DEF Joins
  <2>2. created' \in Sessions
    BY <1>1, <2>1 DEF Sessions
  <2>3. relay' \in [session : Sessions, instance : Instances]
        /\ relay'.session = created' /\ relay'.instance = i
    BY <2>1, <2>2
  <2> QED BY <1>1, <1>2, <2>1, <2>3
<1> QED BY <1>3, <1>4

(* The health loop, a receive loop and reconnectPath's handshake. *)
LEMMA PathFailsEvolves ==
  ASSUME IInv, NEW o \in Objects, PathFails(o) \/ PathHeard(o) \/ HealthReconnects(o)
  PROVE  Evolves
<1>1. TypeOK /\ (o \in paths => heap[o] # None /\ heap[o] \in ClientPath)
  BY HeapTypes DEF IInv
<1>2. o \in paths /\ UNCHANGED <<paths, phase, tunnel, forgotten>>
  BY DEF PathFails, PathHeard, HealthReconnects, goroutines, history
<1>3. ASSUME NEW b \in BOOLEAN, heap' = [heap EXCEPT ![o].healthy = b] PROVE Evolves
  <2> DEFINE q == [heap[o] EXCEPT !.healthy = b]
  <2>1. q \in ClientPath
        /\ q.session = heap[o].session /\ q.open = heap[o].open /\ q.dial = heap[o].dial
    BY <1>1, <1>2, HealthStored
  <2>2. heap' = [heap EXCEPT ![o] = q]
    BY <1>3, HeapTypes, <1>1 DEF Heaps
  <2> HIDE DEF q
  <2> QED BY <1>1, <1>2, <2>1, <2>2, OneChangedEvolves
<1>4. CASE PathFails(o) \/ PathHeard(o)
  BY <1>3, <1>4 DEF PathFails, PathHeard
<1>5. CASE HealthReconnects(o)
  <2> DEFINE d == [at |-> "hello", of |-> instance]
             q == [heap[o] EXCEPT !.dial = d]
  <2>1. d \in Dial \union {Idle}
    BY <1>1 DEF TypeOK, Dial
  <2>2. heap' = SetDial(o, d)
    BY <1>5 DEF HealthReconnects
  <2>3. heap' = [heap EXCEPT ![o] = q]
    BY <1>1, <1>2, <2>2, DialRecorded
  <2>4. q \in ClientPath
        /\ q.session = heap[o].session /\ q.open = heap[o].open /\ q.dial = d
    BY <1>1, <1>2, <2>1, DialStored
  <2>5. q.dial = [at |-> "hello", of |-> instance]
    BY <2>4
  <2> HIDE DEF q, d
  <2> QED BY <1>1, <1>2, <2>3, <2>4, <2>5, OneChangedEvolves
<1> QED BY <1>4, <1>5

(* The WELCOME for a reconnectPath. *)
LEMMA ReconnectAnsweredEvolves ==
  ASSUME IInv, NEW o \in Objects, ReconnectAnswered(o)
  PROVE  Evolves
<1> DEFINE d == [at |-> "welcomed", of |-> relay'.session]
           q == [heap[o] EXCEPT !.dial = d]
<1>1. TypeOK /\ SessionsExist /\ heap[o] # None /\ heap[o] \in ClientPath
  BY HeapTypes DEF IInv, ReconnectAnswered, Live
<1>2. heap[o].dial \in Dial /\ heap[o].dial.at = "hello" /\ Joins(heap[o].dial.of)
  BY <1>1, PathFields DEF ReconnectAnswered
<1>3. heap[o].dial.of \in Instances
  BY <1>2, DialFields
<1>4. relay' # NoSession /\ relay'.session \in Sessions
  BY <1>1, <1>2, <1>3, JoinsStep
<1>5. d \in Dial \union {Idle}
  BY <1>4 DEF Dial
<1>6. heap' = SetDial(o, d) /\ UNCHANGED <<paths, phase, tunnel, forgotten>>
  BY DEF ReconnectAnswered, goroutines, history
<1>7. heap' = [heap EXCEPT ![o] = q]
  BY <1>1, <1>6, DialRecorded
<1>8. q \in ClientPath
      /\ q.session = heap[o].session /\ q.open = heap[o].open /\ q.dial = d
  BY <1>1, <1>5, DialStored
<1>9. q.dial = [at |-> "welcomed", of |-> relay'.session]
  BY <1>8
<1> HIDE DEF q, d
<1> QED BY <1>1, <1>4, <1>6, <1>7, <1>8, <1>9, OneChangedEvolves

(* The open sockets are those of the list. *)
LEMMA OpenOnesListed ==
  ASSUME IInv, ~overtaken, NEW o \in Objects, heap[o] # None, heap[o].open
  PROVE  o \in paths /\ phase # "closed"
  BY DEF IInv, OpenIsOwned

(* reconnectPath ends or has compared the session: Keep with the same list. *)
LEMMA DialKeptEvolves ==
  ASSUME IInv, NEW o \in Objects, heap[o] # None, NEW d \in Dial \union {Idle},
         Keep(SetDial(o, d), paths), UNCHANGED <<phase, sessionID, tunnel>>,
         \/ d = Idle
         \/ /\ d = [at |-> "checked", of |-> sessionID]
            /\ heap[o].dial = [at |-> "welcomed", of |-> sessionID]
  PROVE  Evolves
<1> DEFINE h == SetDial(o, d)
<1>1. TypeOK
  BY DEF IInv
<1>2. /\ h \in Heaps
      /\ \A x \in Objects : h[x] # None <=> heap[x] # None
      /\ \A x \in Objects : heap[x] # None =>
            /\ h[x].open = heap[x].open
            /\ h[x].session = heap[x].session
            /\ h[x].dial = IF x = o THEN d ELSE heap[x].dial
  BY <1>1, DialSet
<1> HIDE DEF h
<1>3. paths \in SUBSET Objects /\ \A x \in paths : h[x] # None
  BY <1>1, <1>2, HeapTypes
<1>4. tunnel' # None => tunnel' \in Objects /\ h[tunnel'] # None
  BY <1>1, <1>2, HeapTypes
<1>5. Keep(h, paths)
  BY DEF h
<1>6. /\ paths' = paths
      /\ heap' \in Heaps
      /\ \A x \in paths : heap'[x] = h[x]
      /\ \A x \in Objects : heap'[x] # None =>
            /\ h[x] # None
            /\ heap'[x].open = h[x].open
            /\ heap'[x].dial = h[x].dial
            /\ \/ heap'[x].session = h[x].session
               \/ heap'[x].session = None /\ ~h[x].open /\ x \notin paths
      /\ tunnel' # None => heap'[tunnel'] # None
      /\ forgotten' => forgotten \/ \E x \in Objects \ paths : h[x] # None /\ h[x].open
  BY <1>2, <1>3, <1>4, <1>5, KeepStep
<1>7. forgotten' => forgotten \/ overtaken
  BY <1>2, <1>6, OpenOnesListed
<1>8. ASSUME NEW x \in Objects, heap'[x] # None PROVE Persists(x)
  <2>1. /\ heap[x] # None
        /\ heap'[x].open = heap[x].open
        /\ heap'[x].dial = IF x = o THEN d ELSE heap[x].dial
        /\ \/ heap'[x].session = heap[x].session
           \/ heap'[x].session = None /\ ~heap'[x].open /\ x \notin paths
    BY <1>2, <1>6, <1>8
  <2>2. CASE x = o
    BY <1>6, <2>1, <2>2 DEF Persists
  <2>3. CASE x # o
    BY <1>6, <2>1, <2>3 DEF Persists
  <2> QED BY <2>2, <2>3
<1> QED BY <1>3, <1>4, <1>6, <1>7, <1>8 DEF Evolves

(* reconnectPath after its handshake. *)
LEMMA ReconnectEndsEvolves ==
  ASSUME IInv, NEW o \in Objects, ReconnectTimesOut(o) \/ CheckReconnect(o)
  PROVE  Evolves
<1>1. /\ heap[o] # None /\ heap[o] \in ClientPath /\ heap[o].dial # Idle
      /\ UNCHANGED <<phase, sessionID, tunnel>>
  BY HeapTypes DEF IInv, ReconnectTimesOut, CheckReconnect, Live
<1>2. CASE ReconnectTimesOut(o)
  <2>1. Keep(SetDial(o, Idle), paths)
    BY <1>2 DEF ReconnectTimesOut
  <2> QED BY <1>1, <2>1, DialKeptEvolves
<1>3. CASE CheckReconnect(o)
  <2> DEFINE d == [heap[o].dial EXCEPT !.at = "checked"]
             usable == ~cancelled /\ SameSession(heap[o].dial.of)
  <2>1. heap[o].dial.at = "welcomed" /\ Keep(SetDial(o, IF usable THEN d ELSE Idle), paths)
    BY <1>3 DEF CheckReconnect
  <2>2. heap[o].dial \in Dial
    BY <1>1, PathFields
  <2>3. heap[o].dial = [at |-> "welcomed", of |-> heap[o].dial.of]
        /\ heap[o].dial.of \in Sessions
    BY <2>1, <2>2, DialFields
  <2>4. d = [at |-> "checked", of |-> heap[o].dial.of]
    BY <2>3
  <2>5. d \in Dial
    BY <2>3, <2>4 DEF Dial
  <2>6. CASE ~usable
    <3>1. Keep(SetDial(o, Idle), paths)
      BY <2>1, <2>6
    <3> QED BY <1>1, <3>1, DialKeptEvolves
  <2>7. CASE usable
    <3>1. heap[o].dial.of = sessionID
      BY <2>7 DEF SameSession
    <3>2. Keep(SetDial(o, d), paths)
      BY <2>1, <2>7
    <3>3. d = [at |-> "checked", of |-> sessionID]
          /\ heap[o].dial = [at |-> "welcomed", of |-> sessionID]
      BY <2>3, <2>4, <3>1
    <3> HIDE DEF d
    <3> QED BY <1>1, <2>5, <3>2, <3>3, DialKeptEvolves
  <2> QED BY <2>6, <2>7
<1> QED BY <1>2, <1>3

(* The slot of a new path. *)
LEMMA NewPathIsFree ==
  ASSUME NEW u \in Uplinks, Free(u) # {}
  PROVE  /\ NewPath(u) \in Objects
         /\ NewPath(u)[1] = u
         /\ heap[NewPath(u)] = None
<1>1. (CHOOSE k \in Free(u) : TRUE) \in Free(u)
  OBVIOUS
<1> QED BY <1>1 DEF NewPath, Free, Objects

(* connect installs the paths of the session it has chosen. *)
LEMMA InstallPathsEvolves ==
  ASSUME IInv, InstallPaths
  PROVE  Evolves
<1> DEFINE U == {u \in Uplinks : handshakes[u] # Failed}
           new == {NewPath(u) : u \in U}
           h == [o \in Objects |-> IF o \in new THEN Path(handshakes[o[1]]) ELSE heap[o]]
<1>1. /\ phase = "chosen" /\ phase' = Idle
      /\ \A u \in U : Free(u) # {}
      /\ UNCHANGED <<tunnel, sessionID>>
      /\ Keep(h, new)
  BY DEF InstallPaths
<1>2. TypeOK /\ paths = {} /\ phase' # "closed"
  BY <1>1, NothingAssumption DEF IInv, RejoinHoldsNoPath
<1>3. ASSUME NEW u \in U
      PROVE  /\ handshakes[u] = sessionID /\ sessionID \in Sessions /\ sessionID <= created
             /\ NewPath(u) \in Objects /\ NewPath(u)[1] = u /\ heap[NewPath(u)] = None
  <2>1. u \in Uplinks /\ handshakes[u] = sessionID
    BY <1>1 DEF IInv, ChosenIsKept
  <2>2. handshakes[u] \in Sessions \union {Hello, Failed}
        /\ sessionID \in Sessions \union {None}
    BY <1>2, <2>1 DEF TypeOK
  <2>3. sessionID \in Sessions
    BY <2>1, <2>2, NothingAssumption
  <2>4. sessionID <= created
    BY <2>1, <2>3 DEF IInv, SessionsExist
  <2> QED BY <1>1, <2>1, <2>3, <2>4, NewPathIsFree
<1> HIDE DEF U
<1>4. ASSUME NEW o \in new
      PROVE  /\ o \in Objects /\ heap[o] = None
             /\ handshakes[o[1]] = sessionID /\ sessionID \in Sessions /\ sessionID <= created
  <2>1. PICK u \in U : o = NewPath(u)
    OBVIOUS
  <2> QED BY <1>3, <2>1
<1> HIDE DEF new
<1>5. \A o \in new : h[o] = Path(sessionID) /\ h[o] \in ClientPath /\ h[o] # None
  BY <1>4, NewStored, PathFields
<1>6. \A o \in Objects : o \notin new => h[o] = heap[o]
  OBVIOUS
<1>7. h \in Heaps
  <2>1. \A o \in Objects : h[o] \in ClientPath \union {None}
    BY <1>2, <1>5, <1>6, HeapTypes
  <2>2. h = [o \in Objects |-> h[o]]
    OBVIOUS
  <2> HIDE DEF h
  <2> QED BY <2>1, <2>2 DEF Heaps
<1> HIDE DEF h
<1>8. tunnel' # None => tunnel' \in Objects /\ h[tunnel'] # None
  BY <1>1, <1>2, <1>5, <1>6, HeapTypes
<1>9. new \in SUBSET Objects
  BY <1>4
<1>10. /\ paths' = new
       /\ heap' \in Heaps
       /\ \A x \in new : heap'[x] = h[x]
       /\ \A x \in Objects : heap'[x] # None =>
             /\ h[x] # None
             /\ heap'[x].open = h[x].open
             /\ heap'[x].dial = h[x].dial
             /\ \/ heap'[x].session = h[x].session
                \/ heap'[x].session = None /\ ~h[x].open /\ x \notin new
       /\ tunnel' # None => heap'[tunnel'] # None
       /\ forgotten' => forgotten \/ \E x \in Objects \ new : h[x] # None /\ h[x].open
  BY <1>1, <1>5, <1>7, <1>8, <1>9, KeepStep
<1>11. forgotten' => forgotten \/ overtaken
  <2> SUFFICES ASSUME ~overtaken, NEW x \in Objects \ new, h[x] # None, h[x].open
               PROVE  FALSE
    BY <1>10
  <2> QED BY <1>2, <1>6, OpenOnesListed
<1>12. ASSUME NEW o \in Objects, heap'[o] # None PROVE Persists(o) \/ Starts(o)
  <2>1. CASE o \in new
    BY <1>1, <1>2, <1>4, <1>5, <1>10, <2>1 DEF Starts
  <2>2. CASE o \notin new
    BY <1>2, <1>6, <1>10, <1>12, <2>2 DEF Persists
  <2> QED BY <2>1, <2>2
<1> QED BY <1>2, <1>5, <1>8, <1>9, <1>10, <1>11, <1>12 DEF Evolves

(* rejoinAll clears the list. *)
LEMMA ClearPathsEvolves ==
  ASSUME IInv, ClearPaths
  PROVE  Evolves
<1>1. phase = "closed" /\ phase' = "cleared" /\ UNCHANGED tunnel /\ Keep(heap, {})
  BY DEF ClearPaths
<1>2. TypeOK
  BY DEF IInv
<1>3. tunnel' # None => tunnel' \in Objects /\ heap[tunnel'] # None
  BY <1>1, <1>2, HeapTypes
<1>4. /\ paths' = {}
      /\ heap' \in Heaps
      /\ \A x \in Objects : heap'[x] # None =>
            /\ heap[x] # None
            /\ heap'[x].open = heap[x].open
            /\ heap'[x].dial = heap[x].dial
            /\ \/ heap'[x].session = heap[x].session
               \/ heap'[x].session = None /\ ~heap[x].open /\ x \notin {}
      /\ tunnel' # None => heap'[tunnel'] # None
      /\ forgotten' => forgotten \/ \E x \in Objects \ {} : heap[x] # None /\ heap[x].open
  <2>1. heap \in Heaps /\ {} \in SUBSET Objects /\ \A x \in {} : heap[x] # None
    BY <1>2, HeapTypes
  <2> QED BY <1>1, <1>3, <2>1, KeepStep
<1>5. forgotten' => forgotten \/ overtaken
  BY <1>1, <1>4, OpenOnesListed
<1>6. \A x \in Objects : heap'[x] # None => Persists(x)
  BY <1>1, <1>4 DEF Persists
<1> QED BY <1>1, <1>3, <1>4, <1>5, <1>6 DEF Evolves

(* tunLoop sends over the path it has chosen. *)
LEMMA SendDataEvolves ==
  ASSUME IInv, SendData
  PROVE  Evolves
<1> DEFINE b == heap[tunnel].healthy /\ heap[tunnel].open
           q == [heap[tunnel] EXCEPT !.healthy = b]
           h == [heap EXCEPT ![tunnel].healthy = @ /\ heap[tunnel].open]
<1>1. tunnel # None /\ tunnel' = None /\ UNCHANGED <<phase, sessionID>> /\ Keep(h, paths)
  BY DEF SendData
<1>2. TypeOK
  BY DEF IInv
<1>3. tunnel \in Objects /\ heap[tunnel] # None /\ heap[tunnel] \in ClientPath /\ heap \in Heaps
  BY <1>1, <1>2, HeapTypes
<1>4. b \in BOOLEAN
  OBVIOUS
<1>5. q \in ClientPath /\ q # None /\ q.session = heap[tunnel].session
      /\ q.open = heap[tunnel].open /\ q.dial = heap[tunnel].dial
  <2> HIDE DEF b
  <2>1. q \in ClientPath /\ q.session = heap[tunnel].session
        /\ q.open = heap[tunnel].open /\ q.dial = heap[tunnel].dial
    BY <1>3, <1>4, HealthStored
  <2>2. q # None
    BY <2>1, PathFields
  <2> QED BY <2>1, <2>2
<1>6. h = [heap EXCEPT ![tunnel] = q]
  BY <1>3 DEF Heaps
<1> HIDE DEF b, q, h
<1>7. /\ h \in Heaps
      /\ \A x \in Objects : h[x] # None <=> heap[x] # None
      /\ \A x \in Objects : heap[x] # None =>
            /\ h[x].open = heap[x].open
            /\ h[x].session = heap[x].session
            /\ h[x].dial = heap[x].dial
  <2>1. h[tunnel] = q /\ \A x \in Objects : x # tunnel => h[x] = heap[x]
    BY <1>3, <1>6 DEF Heaps
  <2>2. h \in Heaps
    BY <1>3, <1>5, <1>6 DEF Heaps
  <2> QED BY <1>3, <1>5, <2>1, <2>2
<1>8. paths \in SUBSET Objects /\ \A x \in paths : h[x] # None
  BY <1>2, <1>7, HeapTypes
<1>9. /\ paths' = paths
      /\ heap' \in Heaps
      /\ \A x \in paths : heap'[x] = h[x]
      /\ \A x \in Objects : heap'[x] # None =>
            /\ h[x] # None
            /\ heap'[x].open = h[x].open
            /\ heap'[x].dial = h[x].dial
            /\ \/ heap'[x].session = h[x].session
               \/ heap'[x].session = None /\ ~h[x].open /\ x \notin paths
      /\ forgotten' => forgotten \/ \E x \in Objects \ paths : h[x] # None /\ h[x].open
  BY <1>1, <1>7, <1>8, KeepStep
<1>10. forgotten' => forgotten \/ overtaken
  BY <1>7, <1>9, OpenOnesListed
<1>11. \A x \in Objects : heap'[x] # None => Persists(x)
  BY <1>7, <1>9 DEF Persists
<1> QED BY <1>1, <1>8, <1>9, <1>10, <1>11 DEF Evolves

(* reconnectPath puts its new path in the place of the old one. *)
LEMMA ReplacePathEvolves ==
  ASSUME IInv, NEW o \in Objects, ReplacePath(o)
  PROVE  Evolves
<1>1. /\ TypeOK /\ heap[o] # None /\ heap[o] \in ClientPath
      /\ heap[o].dial # Idle /\ heap[o].dial.at = "checked"
      /\ UNCHANGED <<phase, sessionID, tunnel>>
  BY HeapTypes DEF IInv, ReplacePath, Live
<1>2. CASE o \notin paths
  <2>1. Keep(SetDial(o, Idle), paths)
    BY <1>2 DEF ReplacePath
  <2> QED BY <1>1, <2>1, DialKeptEvolves
<1>3. CASE o \in paths
  <2> DEFINE new == NewPath(o[1])
             g == SetDial(o, Idle)
             shut == [g[o] EXCEPT !.open = FALSE]
             c == ClosedIn(g, {o})
             h == [c EXCEPT ![new] = Path(heap[o].dial.of)]
             P == (paths \ {o}) \union {new}
  <2>1. Free(o[1]) # {} /\ Keep(h, P) /\ overtaken' = (overtaken \/ phase = "closed")
    BY <1>3 DEF ReplacePath, Replaced
  <2>2. new \in Objects /\ heap[new] = None /\ new # o
    BY <1>1, <2>1, NewPathIsFree DEF Objects
  <2>3. heap[o].dial.of = sessionID /\ sessionID \in Sessions /\ sessionID <= created
    <3>1. heap[o].dial \in Dial
      BY <1>1, PathFields
    <3>2. heap[o].dial.of \in Sessions
      BY <1>1, <3>1, DialFields
    <3>3. heap[o].dial.of <= created
      BY <1>1 DEF IInv, SessionsExist
    <3>4. heap[o].dial.of = sessionID
      BY <1>1, <1>3 DEF IInv, CheckedAgree
    <3> QED BY <3>2, <3>3, <3>4
  <2>4. /\ g \in Heaps /\ g[o] # None
        /\ \A x \in Objects : g[x] # None <=> heap[x] # None
        /\ \A x \in Objects : heap[x] # None =>
              /\ g[x].open = heap[x].open
              /\ g[x].session = heap[x].session
              /\ g[x].dial = IF x = o THEN Idle ELSE heap[x].dial
    <3>1. Idle \in Dial \union {Idle}
      OBVIOUS
    <3>2. TypeOK /\ heap[o] # None
      BY <1>1
    <3> HIDE DEF new, shut, c, h
    <3> QED BY ONLY o \in Objects, <3>1, <3>2, DialSet
  <2> HIDE DEF new, g
  <2>5. g[o] \in ClientPath
    BY <2>4 DEF Heaps
  <2>6. /\ shut \in ClientPath /\ shut # None
        /\ shut.session = g[o].session /\ shut.open = FALSE /\ shut.dial = g[o].dial
    <3>1. shut \in ClientPath
      BY <2>5, CloseStored
    <3> QED BY <2>5, <3>1, CloseStored, PathFields
  <2>7. c[o] = shut /\ \A x \in Objects : x # o => c[x] = g[x]
    BY DEF ClosedIn
  <2>8. c \in Heaps
    <3>1. c = [x \in Objects |-> IF x \in {o} THEN shut ELSE g[x]]
      BY DEF ClosedIn
    <3> HIDE DEF shut, c
    <3> QED BY <2>4, <2>6, <3>1 DEF Heaps
  <2> HIDE DEF shut, c
  <2>9. Path(sessionID) \in ClientPath /\ Path(sessionID) # None
    BY <2>3, NewStored, PathFields
  <2>10. /\ h \in Heaps /\ h[new] = Path(sessionID) /\ h[o] = shut
         /\ \A x \in Objects : x # new /\ x # o => h[x] = g[x]
    BY <2>2, <2>3, <2>7, <2>8, <2>9 DEF Heaps
  <2> HIDE DEF h
  <2>11. /\ \A x \in Objects : x # new => (h[x] # None <=> heap[x] # None)
         /\ \A x \in Objects : x # new /\ heap[x] # None =>
               /\ h[x].open => heap[x].open /\ x # o
               /\ x # o => h[x].open = heap[x].open
               /\ h[x].session = heap[x].session
               /\ h[x].dial \in {Idle, heap[x].dial}
    BY <1>1, <2>4, <2>6, <2>10
  <2>12. P \in SUBSET Objects /\ \A x \in P : h[x] # None
    BY <1>1, <2>2, <2>9, <2>10, <2>11, HeapTypes
  <2>13. tunnel' # None => tunnel' \in Objects /\ h[tunnel'] # None
    BY <1>1, <2>9, <2>10, <2>11, HeapTypes
  <2>14. new \in P /\ o \notin P /\ \A x \in paths : x # o => x \in P
    BY <2>2
  <2>15. \A x \in P : x # new => x \in paths
    OBVIOUS
  <2> HIDE DEF P
  <2>16. /\ paths' = P
         /\ heap' \in Heaps
         /\ \A x \in P : heap'[x] = h[x]
         /\ \A x \in Objects : heap'[x] # None =>
               /\ h[x] # None
               /\ heap'[x].open = h[x].open
               /\ heap'[x].dial = h[x].dial
               /\ \/ heap'[x].session = h[x].session
                  \/ heap'[x].session = None /\ ~h[x].open /\ x \notin P
         /\ tunnel' # None => heap'[tunnel'] # None
         /\ forgotten' => forgotten \/ \E x \in Objects \ P : h[x] # None /\ h[x].open
    BY <2>1, <2>10, <2>12, <2>13, KeepStep
  <2>17. forgotten' => forgotten \/ overtaken
    <3> SUFFICES ASSUME ~overtaken, NEW x \in Objects \ P, h[x] # None, h[x].open
                 PROVE  FALSE
      BY <2>16
    <3>1. x # new /\ heap[x] # None /\ heap[x].open /\ x # o
      BY <2>11, <2>14
    <3>2. x \in paths
      BY <3>1, OpenOnesListed
    <3> QED BY <2>14, <3>1, <3>2
  <2>18. ASSUME NEW x \in Objects, heap'[x] # None PROVE Persists(x) \/ Starts(x)
    <3>1. CASE x = new
      BY <1>1, <2>1, <2>2, <2>3, <2>10, <2>14, <2>16, <3>1 DEF Starts
    <3>2. CASE x # new
      <4>1. heap[x] # None
        BY <2>11, <2>16, <2>18, <3>2
      <4>2. heap'[x].open => heap[x].open /\ x # o
        BY <2>11, <2>16, <2>18, <3>2, <4>1
      <4>3. \/ heap'[x].session = heap[x].session
            \/ heap'[x].session = None /\ ~heap'[x].open /\ x \notin paths'
        BY <2>11, <2>16, <2>18, <3>2, <4>1
      <4>4. heap'[x].dial \in {heap[x].dial, Idle}
        BY <2>11, <2>16, <2>18, <3>2, <4>1
      <4>5. x \in paths' => x \in paths
        BY <2>15, <2>16, <3>2
      <4>6. heap'[x].open /\ x \in paths => x \in paths'
        BY <2>14, <2>16, <4>2
      <4> QED BY <4>1, <4>2, <4>3, <4>4, <4>5, <4>6 DEF Persists
    <3> QED BY <3>1, <3>2
  <2> QED BY <1>1, <2>12, <2>13, <2>16, <2>17, <2>18 DEF Evolves
<1> QED BY <1>2, <1>3

(* Every other step leaves the clientPaths alone, or closes those listed. *)
LEMMA OthersEvolve ==
  ASSUME IInv,
         \/ \E u \in Uplinks : ConnectAnswered(u) \/ ConnectTimesOut(u)
         \/ ChooseSession \/ ConnectFails \/ BeginRejoin \/ NewIdentity \/ NoIdentity
         \/ HealthFindsNoPath \/ HelloUnanswered \/ RelayForgets \/ Cancel \/ Close
         \/ \E o \in Objects : ChoosePath(o)
  PROVE  Evolves
<1>1. TypeOK /\ Idle # "closed"
  BY NothingAssumption DEF IInv
<1>2. CASE \/ \E u \in Uplinks : ConnectAnswered(u) \/ ConnectTimesOut(u)
           \/ HealthFindsNoPath \/ HelloUnanswered \/ RelayForgets \/ Cancel
  <2>1. UNCHANGED <<heap, paths, phase, tunnel, forgotten>>
    BY <1>2 DEF ConnectAnswered, ConnectTimesOut, HealthFindsNoPath, HelloUnanswered,
                RelayForgets, Cancel, shared, goroutines, history
  <2> QED BY <1>1, <2>1, SameHeapEvolves
<1>3. CASE ChooseSession \/ ConnectFails \/ NewIdentity \/ NoIdentity
  <2>1. UNCHANGED <<heap, paths, tunnel, forgotten>> /\ phase' # "closed"
    BY <1>1, <1>3 DEF ChooseSession, ConnectFails, AfterFailure, NewIdentity, NoIdentity,
                      shared, history
  <2> QED BY <1>1, <2>1, SameHeapEvolves
<1>4. CASE \E o \in Objects : ChoosePath(o)
  <2>1. UNCHANGED <<heap, paths, phase, forgotten>> /\ tunnel' \in paths
    BY <1>4 DEF ChoosePath, shared, history
  <2> QED BY <1>1, <2>1, SameHeapEvolves
<1>5. CASE BeginRejoin
  <2>1. UNCHANGED <<paths, tunnel, forgotten>>
    BY <1>5 DEF BeginRejoin, history
  <2>2. UNCHANGED <<heap, phase>> \/ heap' = ClosedIn(heap, paths)
    BY <1>5 DEF BeginRejoin
  <2> QED BY <1>1, <2>1, <2>2, SameHeapEvolves, ClosingEvolves
<1>6. CASE Close
  <2>1. UNCHANGED <<paths, tunnel, forgotten>> /\ heap' = ClosedIn(heap, paths)
    BY <1>6 DEF Close, goroutines, history
  <2> QED BY <1>1, <2>1, ClosingEvolves
<1> QED BY <1>2, <1>3, <1>4, <1>5, <1>6

(* All steps together. *)
LEMMA HeapEvolves ==
  ASSUME IInv, Next
  PROVE  Evolves
<1>1. CASE Connect
  BY <1>1, OthersEvolve, InstallPathsEvolves DEF Connect
<1>2. CASE RejoinAll
  BY <1>2, OthersEvolve, ClearPathsEvolves DEF RejoinAll
<1>3. CASE HealthLoop \/ ReceiveLoop
  BY <1>3, OthersEvolve, PathFailsEvolves DEF HealthLoop, ReceiveLoop
<1>4. CASE ReconnectPath
  BY <1>4, ReconnectAnsweredEvolves, ReconnectEndsEvolves, ReplacePathEvolves
     DEF ReconnectPath
<1>5. CASE TunLoop
  BY <1>5, OthersEvolve, SendDataEvolves DEF TunLoop
<1>6. CASE HelloUnanswered \/ RelayForgets \/ Cancel \/ Close
  BY <1>6, OthersEvolve
<1> QED BY <1>1, <1>2, <1>3, <1>4, <1>5, <1>6 DEF Next

-----------------------------------------------------------------------------
(* Which step changes what *)

(* The steps of connect and rejoinAll. *)
Handshakes == \E u \in Uplinks : ConnectAnswered(u) \/ ConnectTimesOut(u)

Rejoins ==
    \/ ChooseSession \/ ConnectFails \/ InstallPaths
    \/ BeginRejoin \/ ClearPaths \/ NewIdentity \/ NoIdentity

(* The session, the identity and the phase belong to them.                 *)
LEMMA SessionCases ==
  ASSUME Next
  PROVE  /\ UNCHANGED instance \/ NewIdentity
         /\ UNCHANGED sessionID \/ ChooseSession \/ NewIdentity
         /\ UNCHANGED phase \/ Rejoins
         /\ UNCHANGED handshakes \/ Handshakes \/ ChooseSession \/ InstallPaths \/ NewIdentity
<1>1. CASE Connect
  BY <1>1 DEF Connect, ConnectAnswered, ConnectTimesOut, ChooseSession, ConnectFails,
              InstallPaths, Rejoins, Handshakes, shared
<1>2. CASE RejoinAll
  BY <1>2 DEF RejoinAll, BeginRejoin, ClearPaths, NewIdentity, NoIdentity, Rejoins, shared
<1>3. CASE HealthLoop \/ ReceiveLoop \/ TunLoop
  BY <1>3 DEF HealthLoop, HealthFindsNoPath, PathFails, HealthReconnects, ReceiveLoop,
              PathHeard, TunLoop, ChoosePath, SendData, shared, goroutines
<1>4. CASE ReconnectPath
  BY <1>4 DEF ReconnectPath, ReconnectAnswered, ReconnectTimesOut, CheckReconnect,
              ReplacePath, goroutines
<1>5. CASE HelloUnanswered \/ RelayForgets \/ Cancel \/ Close
  BY <1>5 DEF HelloUnanswered, RelayForgets, Cancel, Close, shared, goroutines
<1> QED BY <1>1, <1>2, <1>3, <1>4, <1>5 DEF Next

(* Numbers are given by tunLoop and started again by rejoinAll. *)
LEMMA NumberCases ==
  ASSUME Next
  PROVE  /\ UNCHANGED <<sent, reused>> \/ SendData
         /\ UNCHANGED dataSeq \/ SendData \/ NewIdentity
         /\ UNCHANGED forgets \/ RelayForgets
<1>1. CASE Connect
  BY <1>1 DEF Connect, ConnectAnswered, ConnectTimesOut, ChooseSession, ConnectFails,
              InstallPaths, shared, history, remote
<1>2. CASE RejoinAll
  BY <1>2 DEF RejoinAll, BeginRejoin, ClearPaths, NewIdentity, NoIdentity, shared,
              history, remote
<1>3. CASE HealthLoop \/ ReceiveLoop \/ TunLoop
  BY <1>3 DEF HealthLoop, HealthFindsNoPath, PathFails, HealthReconnects, ReceiveLoop,
              PathHeard, TunLoop, ChoosePath, SendData, shared, history, remote
<1>4. CASE ReconnectPath
  BY <1>4 DEF ReconnectPath, ReconnectAnswered, ReconnectTimesOut, CheckReconnect,
              ReplacePath, history, remote
<1>5. CASE HelloUnanswered \/ RelayForgets \/ Cancel \/ Close
  BY <1>5 DEF HelloUnanswered, RelayForgets, Cancel, Close, shared, history, remote
<1> QED BY <1>1, <1>2, <1>3, <1>4, <1>5 DEF Next

(* The list changes when connect installs, rejoinAll clears, reconnectPath *)
(* replaces.                                                               *)
LEMMA ListCases ==
  ASSUME Next
  PROVE  /\ UNCHANGED paths \/ InstallPaths \/ ClearPaths
            \/ \E o \in Objects : ReplacePath(o)
         /\ UNCHANGED overtaken \/ \E o \in Objects : ReplacePath(o)
         /\ overtaken => overtaken'
<1>1. CASE Connect
  BY <1>1 DEF Connect, ConnectAnswered, ConnectTimesOut, ChooseSession, ConnectFails,
              InstallPaths, shared, history
<1>2. CASE RejoinAll
  BY <1>2 DEF RejoinAll, BeginRejoin, ClearPaths, NewIdentity, NoIdentity, shared, history
<1>3. CASE HealthLoop \/ ReceiveLoop \/ TunLoop
  <2>1. CASE SendData
    BY <2>1 DEF SendData, Keep
  <2>2. CASE HealthLoop \/ ReceiveLoop \/ \E o \in Objects : ChoosePath(o)
    BY <2>2 DEF HealthLoop, HealthFindsNoPath, PathFails, HealthReconnects, ReceiveLoop,
                PathHeard, ChoosePath, shared, history
  <2> QED BY <1>3, <2>1, <2>2 DEF TunLoop
<1>4. CASE ReconnectPath
  BY <1>4 DEF ReconnectPath, ReconnectAnswered, ReconnectTimesOut, CheckReconnect,
              ReplacePath, history, Keep
<1>5. CASE HelloUnanswered \/ RelayForgets \/ Cancel \/ Close
  BY <1>5 DEF HelloUnanswered, RelayForgets, Cancel, Close, shared, history
<1> QED BY <1>1, <1>2, <1>3, <1>4, <1>5 DEF Next

(* A HELLO carries an instance the client has had. *)
LEMMA HelloIsKnown ==
  ASSUME IInv, NEW o \in Objects, heap[o] # None, heap[o].dial # Idle,
         heap[o].dial.at = "hello"
  PROVE  heap[o].dial.of \in Instances /\ heap[o].dial.of <= instance
<1>1. heap[o] \in ClientPath
  BY HeapTypes DEF IInv
<1>2. heap[o].dial \in Dial
  BY <1>1, PathFields
<1>3. heap[o].dial.of \in Instances
  BY <1>2, DialFields
<1> QED BY <1>2, <1>3 DEF IInv, SessionsExist

(* The relay keeps its session, loses it, or makes one for a HELLO. *)
RelayKeeps == relay' = relay /\ created' = created
RelayLoses == relay' = NoSession /\ created' = created
RelayMakes ==
    /\ created' = created + 1 /\ created' \in Sessions
    /\ \E i \in Instances : /\ i <= instance /\ instance' = instance
                            /\ relay' = [session |-> created', instance |-> i]

(* What a HELLO may do. *)
LEMMA JoinsCases ==
  ASSUME IInv, NEW i \in Instances, i <= instance, instance' = instance, Joins(i)
  PROVE  RelayKeeps \/ RelayMakes
<1>1. created \in 0 .. MaxSessions /\ MaxSessions \in Nat
  BY PoolsAssumption DEF IInv, TypeOK
<1>2. CASE relay.instance = i
  BY <1>2 DEF Joins, RelayKeeps
<1>3. CASE relay.instance # i
  <2>1. created < MaxSessions /\ created' = created + 1
        /\ relay' = [session |-> created', instance |-> i]
    BY <1>3 DEF Joins
  <2>2. created' \in Sessions
    BY <1>1, <2>1 DEF Sessions
  <2> QED BY <2>1, <2>2 DEF RelayMakes
<1> QED BY <1>2, <1>3

(* So may every step. *)
LEMMA RelayCases ==
  ASSUME IInv, Next
  PROVE  RelayKeeps \/ RelayLoses \/ RelayMakes
<1>1. TypeOK /\ instance \in Instances /\ instance <= instance
  BY DEF IInv, TypeOK, Instances
<1>2. ASSUME NEW u \in Uplinks, ConnectAnswered(u) PROVE RelayKeeps \/ RelayMakes
  <2>1. Joins(instance) /\ instance' = instance
    BY <1>2 DEF ConnectAnswered, shared
  <2> QED BY <1>1, <2>1, JoinsCases
<1>3. ASSUME NEW o \in Objects, ReconnectAnswered(o) PROVE RelayKeeps \/ RelayMakes
  <2>1. Joins(heap[o].dial.of) /\ instance' = instance
    BY <1>3 DEF ReconnectAnswered
  <2>2. heap[o].dial.of \in Instances /\ heap[o].dial.of <= instance
    BY <1>3, HelloIsKnown DEF ReconnectAnswered, Live
  <2> QED BY <2>1, <2>2, JoinsCases
<1>4. CASE HelloUnanswered
  <2>1. PICK i \in Instances : /\ Dialing(i) # {} \/ i = instance
                               /\ Joins(i)
    BY <1>4 DEF HelloUnanswered
  <2>2. instance' = instance
    BY <1>4 DEF HelloUnanswered, shared
  <2>3. i <= instance
    <3>1. CASE Dialing(i) # {}
      <4>1. PICK o \in Live : heap[o].dial = [at |-> "hello", of |-> i]
        BY <3>1 DEF Dialing
      <4>2. o \in Objects /\ heap[o] # None
        BY DEF Live
      <4>3. heap[o].dial \in Dial
        BY <4>1 DEF Dial
      <4>4. heap[o].dial # Idle /\ heap[o].dial.at = "hello" /\ heap[o].dial.of = i
        BY <4>1, <4>3, DialFields
      <4> QED BY <4>2, <4>4, HelloIsKnown
    <3> QED BY <1>1, <2>1, <3>1
  <2> QED BY <2>1, <2>2, <2>3, JoinsCases
<1>5. CASE RelayForgets
  BY <1>5 DEF RelayForgets, RelayLoses
<1>6. CASE Close
  BY <1>6 DEF Close, RelayKeeps, RelayLoses
<1>7. CASE Connect
  <2>1. ASSUME NEW u \in Uplinks, ConnectTimesOut(u) PROVE RelayKeeps
    BY <2>1 DEF ConnectTimesOut, remote, RelayKeeps
  <2>2. CASE ChooseSession \/ ConnectFails \/ InstallPaths
    BY <2>2 DEF ChooseSession, ConnectFails, InstallPaths, remote, RelayKeeps
  <2> QED BY <1>2, <1>7, <2>1, <2>2 DEF Connect
<1>8. CASE RejoinAll \/ HealthLoop \/ ReceiveLoop \/ TunLoop \/ Cancel
  BY <1>8 DEF RejoinAll, BeginRejoin, ClearPaths, NewIdentity, NoIdentity, HealthLoop,
              HealthFindsNoPath, PathFails, HealthReconnects, ReceiveLoop, PathHeard,
              TunLoop, ChoosePath, SendData, Cancel, remote, RelayKeeps
<1>9. ASSUME NEW o \in Objects, ReconnectTimesOut(o) \/ CheckReconnect(o) \/ ReplacePath(o)
      PROVE  RelayKeeps
  BY <1>9 DEF ReconnectTimesOut, CheckReconnect, ReplacePath, remote, RelayKeeps
<1>10. CASE ReconnectPath
  BY <1>3, <1>9, <1>10 DEF ReconnectPath
<1> QED BY <1>4, <1>5, <1>6, <1>7, <1>8, <1>10 DEF Next

-----------------------------------------------------------------------------
(* Types *)

(* The flags of the client and of the history. *)
LEMMA FlagsTyped ==
  ASSUME IInv, Next
  PROVE  /\ run' \in {"connecting", "running", "stopped"}
         /\ cancelled' \in BOOLEAN /\ rejoins' \in BOOLEAN
         /\ {overtaken', forgotten', reused'} \subseteq BOOLEAN
<1>1. /\ run \in {"connecting", "running", "stopped"}
      /\ cancelled \in BOOLEAN /\ rejoins \in BOOLEAN
      /\ overtaken \in BOOLEAN /\ forgotten \in BOOLEAN /\ reused \in BOOLEAN
  BY DEF IInv, TypeOK
<1>2. CASE Connect
  <2>1. ASSUME NEW u \in Uplinks, ConnectAnswered(u) \/ ConnectTimesOut(u)
        PROVE  UNCHANGED <<run, cancelled, rejoins, overtaken, forgotten, reused>>
    BY <2>1 DEF ConnectAnswered, ConnectTimesOut, history
  <2>2. CASE ChooseSession
    BY <1>1, <2>2 DEF ChooseSession, history
  <2>3. CASE ConnectFails
    BY <1>1, <2>3 DEF ConnectFails, history
  <2>4. CASE InstallPaths
    BY <1>1, <2>4 DEF InstallPaths, Keep
  <2> QED BY <1>1, <1>2, <2>1, <2>2, <2>3, <2>4 DEF Connect
<1>3. CASE RejoinAll
  <2>1. CASE ClearPaths
    BY <1>1, <2>1 DEF ClearPaths, Keep
  <2>2. CASE BeginRejoin \/ NewIdentity \/ NoIdentity
    BY <1>1, <2>2 DEF BeginRejoin, NewIdentity, NoIdentity, history
  <2> QED BY <1>3, <2>1, <2>2 DEF RejoinAll
<1>4. CASE HealthLoop \/ ReceiveLoop
  BY <1>1, <1>4 DEF HealthLoop, HealthFindsNoPath, PathFails, HealthReconnects, ReceiveLoop,
                    PathHeard, goroutines, history
<1>5. CASE ReconnectPath
  <2>1. ASSUME NEW o \in Objects, ReconnectAnswered(o)
        PROVE  UNCHANGED <<run, cancelled, rejoins, overtaken, forgotten, reused>>
    BY <2>1 DEF ReconnectAnswered, goroutines, history
  <2>2. ASSUME NEW o \in Objects, ReconnectTimesOut(o)
        PROVE  UNCHANGED <<run, cancelled, rejoins, overtaken, reused>>
               /\ forgotten' \in BOOLEAN
    BY <1>1, <2>2 DEF ReconnectTimesOut, Keep
  <2>3. ASSUME NEW o \in Objects, CheckReconnect(o)
        PROVE  UNCHANGED <<run, cancelled, overtaken, reused>>
               /\ forgotten' \in BOOLEAN /\ rejoins' \in BOOLEAN
    BY <1>1, <2>3 DEF CheckReconnect, Keep
  <2>4. ASSUME NEW o \in Objects, ReplacePath(o)
        PROVE  UNCHANGED <<run, cancelled, rejoins, reused>>
               /\ forgotten' \in BOOLEAN /\ overtaken' \in BOOLEAN
    BY <1>1, <2>4 DEF ReplacePath, Keep
  <2> QED BY <1>1, <1>5, <2>1, <2>2, <2>3, <2>4 DEF ReconnectPath
<1>6. CASE TunLoop
  <2>1. ASSUME NEW o \in Objects, ChoosePath(o)
        PROVE  UNCHANGED <<run, cancelled, rejoins, overtaken, forgotten, reused>>
    BY <2>1 DEF ChoosePath, history
  <2>2. CASE SendData
    <3>1. UNCHANGED <<run, cancelled, rejoins, overtaken>>
      BY <2>2 DEF SendData
    <3>2. forgotten' \in BOOLEAN
      BY <1>1, <2>2 DEF SendData, Keep
    <3>3. reused' \in BOOLEAN
      BY <1>1, <2>2 DEF SendData
    <3> QED BY <1>1, <3>1, <3>2, <3>3
  <2> QED BY <1>1, <1>6, <2>1, <2>2 DEF TunLoop
<1>7. CASE HelloUnanswered \/ RelayForgets \/ Cancel \/ Close
  BY <1>1, <1>7 DEF HelloUnanswered, RelayForgets, Cancel, Close, goroutines, history
<1> QED BY <1>2, <1>3, <1>4, <1>5, <1>6, <1>7 DEF Next

(* The relay's side, and the identities of the client. *)
LEMMA RelayTyped ==
  ASSUME IInv, Next
  PROVE  /\ instance' \in Instances /\ instance <= instance'
         /\ created' \in 0 .. MaxSessions /\ created <= created'
         /\ relay' \in [session : Sessions, instance : Instances] \union {NoSession}
         /\ relay' # NoSession => relay'.session <= created' /\ relay'.instance <= instance'
         /\ forgets' \in 0 .. MaxForgets
<1>1. /\ instance \in Instances /\ created \in 0 .. MaxSessions /\ forgets \in 0 .. MaxForgets
      /\ MaxSessions \in Nat /\ MaxInstances \in Nat /\ MaxForgets \in Nat
      /\ relay \in [session : Sessions, instance : Instances] \union {NoSession}
      /\ relay # NoSession => relay.session <= created /\ relay.instance <= instance
  BY PoolsAssumption DEF IInv, TypeOK, SessionsExist
<1>2. instance' \in Instances /\ instance <= instance'
  <2>1. CASE UNCHANGED instance
    BY <1>1, <2>1 DEF Instances
  <2>2. CASE NewIdentity
    BY <1>1, <2>2 DEF NewIdentity, NewNonce, Instances
  <2> QED BY <2>1, <2>2, SessionCases
<1>3. forgets' \in 0 .. MaxForgets
  BY <1>1, NumberCases DEF RelayForgets
<1>4. CASE RelayKeeps \/ RelayLoses
  <2>1. relay # NoSession => relay.instance \in Instances
    BY <1>1
  <2> QED BY <1>1, <1>2, <1>3, <1>4, <2>1 DEF RelayKeeps, RelayLoses, Instances
<1>5. CASE RelayMakes
  <2>1. PICK i \in Instances : /\ i <= instance /\ instance' = instance
                               /\ relay' = [session |-> created', instance |-> i]
    BY <1>5 DEF RelayMakes
  <2>2. created' = created + 1 /\ created' \in Sessions
    BY <1>5 DEF RelayMakes
  <2>3. relay' \in [session : Sessions, instance : Instances]
        /\ relay'.session = created' /\ relay'.instance = i
    BY <2>1, <2>2
  <2> QED BY <1>1, <1>2, <1>3, <2>1, <2>2, <2>3 DEF Sessions
<1> QED BY <1>4, <1>5, RelayCases

(* What connect has of its handshakes are sessions, and it chooses one.    *)
LEMMA ChooseSessionStep ==
  ASSUME IInv, ChooseSession
  PROVE  /\ sessionID' \in Sessions
         /\ \E u \in Uplinks : handshakes[u] = sessionID'
         /\ handshakes' = [u \in Uplinks |-> IF handshakes[u] = sessionID'
                                             THEN sessionID' ELSE Failed]
         /\ phase = "connecting" /\ phase' = "chosen"
<1>1. PICK s \in Joined : sessionID' = s /\ handshakes' = Kept(s)
  BY DEF ChooseSession
<1>2. PICK u \in Uplinks : s = handshakes[u] /\ s # Failed
  BY DEF Joined
<1>3. phase = "connecting" /\ phase' = "chosen" /\ Shaking = {}
  BY DEF ChooseSession
<1>4. s # Hello
  BY <1>2, <1>3 DEF Shaking
<1>5. s \in Sessions
  BY <1>2, <1>4 DEF IInv, TypeOK
<1> QED BY <1>1, <1>2, <1>3, <1>5 DEF Kept

(* The handshakes are types of their own. *)
LEMMA HandshakesTyped ==
  ASSUME IInv, Next
  PROVE  handshakes' \in [Uplinks -> Sessions \union {Hello, Failed}]
<1>1. handshakes \in [Uplinks -> Sessions \union {Hello, Failed}] /\ TypeOK /\ SessionsExist
      /\ instance \in Instances
  BY DEF IInv, TypeOK
<1>2. ASSUME NEW u \in Uplinks, ConnectAnswered(u)
      PROVE  handshakes' \in [Uplinks -> Sessions \union {Hello, Failed}]
  <2>1. relay'.session \in Sessions
    BY <1>1, <1>2, JoinsStep DEF ConnectAnswered
  <2> QED BY <1>1, <1>2, <2>1 DEF ConnectAnswered
<1>3. ASSUME NEW u \in Uplinks, ConnectTimesOut(u)
      PROVE  handshakes' \in [Uplinks -> Sessions \union {Hello, Failed}]
  BY <1>1, <1>3 DEF ConnectTimesOut
<1>4. CASE ChooseSession
  BY <1>4, ChooseSessionStep
<1>5. CASE InstallPaths \/ NewIdentity
  BY <1>5 DEF InstallPaths, NewIdentity, NoHandshakes
<1> QED BY <1>1, <1>2, <1>3, <1>4, <1>5, SessionCases DEF Handshakes

(* The numbers. *)
LEMMA NumbersTyped ==
  ASSUME IInv, Next
  PROVE  dataSeq' \in 0 .. MaxData /\ sent' \in [Sessions -> SUBSET (1 .. MaxData)]
<1>1. dataSeq \in 0 .. MaxData /\ sent \in [Sessions -> SUBSET (1 .. MaxData)] /\ MaxData \in Nat
  BY PoolsAssumption DEF IInv, TypeOK
<1>2. CASE SendData
  <2>1. dataSeq' = IF dataSeq < MaxData THEN dataSeq + 1 ELSE dataSeq
    BY <1>2 DEF SendData
  <2>2. CASE heap[tunnel].open /\ dataSeq < MaxData
    <3>1. PICK s : sent' = [sent EXCEPT ![s] = @ \union {dataSeq'}]
      BY <1>2, <2>2 DEF SendData
    <3>2. dataSeq' \in 1 .. MaxData
      BY <1>1, <2>1, <2>2
    <3> DEFINE n == dataSeq'
    <3> HIDE DEF n
    <3>3. sent' = [sent EXCEPT ![s] = sent[s] \union {n}]
      BY <3>1 DEF n
    <3>4. \A t \in Sessions : sent'[t] = IF t = s THEN sent[t] \union {n} ELSE sent[t]
      BY <1>1, <3>3
    <3>5. \A t \in Sessions : sent'[t] \in SUBSET (1 .. MaxData)
      BY <1>1, <3>2, <3>4 DEF n
    <3>6. sent' = [t \in Sessions |-> sent'[t]]
      BY <1>1, <3>3
    <3> QED BY <3>2, <3>5, <3>6 DEF n
  <2>3. CASE ~ (heap[tunnel].open /\ dataSeq < MaxData)
    <3>1. sent' = sent
      BY <1>2, <2>3 DEF SendData
    <3> QED BY <1>1, <2>1, <3>1
  <2> QED BY <2>2, <2>3
<1>3. CASE UNCHANGED <<sent, reused>> /\ (UNCHANGED dataSeq \/ NewIdentity)
  BY <1>1, <1>3 DEF NewIdentity
<1> QED BY <1>2, <1>3, NumberCases

(* The types of the client's and the relay's state. *)
LEMMA TypeStep ==
  ASSUME IInv, Next
  PROVE  TypeOK'
<1>1. heap' \in Heaps /\ paths' \in SUBSET Objects /\ (\A o \in paths' : heap'[o] # None)
      /\ (tunnel' # None => tunnel' \in Objects /\ heap'[tunnel'] # None)
  BY HeapEvolves DEF Evolves
<1>2. heap' \in [Objects -> ClientPath \union {None}] /\ paths' \subseteq Live'
      /\ tunnel' \in Live' \union {None}
  BY <1>1 DEF Heaps, Live
<1>3. sessionID' \in Sessions \union {None}
  <2>1. CASE UNCHANGED sessionID
    BY <2>1 DEF IInv, TypeOK
  <2>2. CASE NewIdentity
    BY <2>2 DEF NewIdentity
  <2> QED BY <2>1, <2>2, ChooseSessionStep, SessionCases
<1>4. phase' \in {Idle, "connecting", "chosen", "closed", "cleared"}
  <2>1. phase \in {Idle, "connecting", "chosen", "closed", "cleared"}
    BY DEF IInv, TypeOK
  <2> QED BY <2>1, SessionCases DEF Rejoins, ChooseSession, ConnectFails, AfterFailure,
             InstallPaths, BeginRejoin, ClearPaths, NewIdentity, NoIdentity
<1> QED BY <1>2, <1>3, <1>4, FlagsTyped, RelayTyped, HandshakesTyped, NumbersTyped DEF TypeOK

-----------------------------------------------------------------------------
(* Sessions, the list and the sockets *)

(* The heap's part of SessionsExist. *)
LEMMA HeapSessionsStep ==
  ASSUME IInv, Next, NEW o \in Objects, heap'[o] # None
  PROVE  /\ heap'[o].session \in 1 .. created' \union {None}
         /\ heap'[o].open => heap'[o].session # None
         /\ \/ heap'[o].dial = Idle
            \/ heap'[o].dial.at = "hello" /\ heap'[o].dial.of <= instance'
            \/ heap'[o].dial.at # "hello" /\ heap'[o].dial.of <= created'
<1>1. /\ instance \in Nat /\ instance' \in Nat /\ instance <= instance'
      /\ created \in Nat /\ created' \in Nat /\ created <= created'
      /\ relay' # NoSession => relay'.session <= created'
  BY RelayTyped, PoolsAssumption DEF IInv, TypeOK, Instances
<1>2. Persists(o) \/ Starts(o)
  BY HeapEvolves DEF Evolves
<1>3. CASE Starts(o)
  <2>1. heap'[o].session = sessionID /\ heap'[o].dial = Idle
        /\ sessionID \in Sessions /\ sessionID <= created
    BY <1>3, NewStored DEF Starts
  <2>2. sessionID # None /\ sessionID \in 1 .. created'
    BY <1>1, <2>1, NothingAssumption DEF Sessions
  <2> QED BY <2>1, <2>2
<1>4. CASE Persists(o)
  <2>1. heap[o] # None /\ heap[o] \in ClientPath
    BY <1>4, HeapTypes DEF Persists, IInv
  <2>2. /\ heap[o].session \in 1 .. created \union {None}
        /\ heap[o].open => heap[o].session # None
        /\ \/ heap[o].dial = Idle
           \/ heap[o].dial.at = "hello" /\ heap[o].dial.of <= instance
           \/ heap[o].dial.at # "hello" /\ heap[o].dial.of <= created
    BY <2>1 DEF IInv, SessionsExist
  <2>3. heap[o].session \in 1 .. created' \union {None}
    BY <1>1, <2>2
  <2>4. heap'[o].session \in 1 .. created' \union {None}
        /\ (heap'[o].open => heap'[o].session # None)
    BY <1>4, <2>2, <2>3 DEF Persists
  <2>5. \/ heap[o].dial = Idle
        \/ heap[o].dial.at = "hello" /\ heap[o].dial.of <= instance'
        \/ heap[o].dial.at # "hello" /\ heap[o].dial.of <= created'
    <3>1. heap[o].dial # Idle => heap[o].dial \in Dial
      BY <2>1, PathFields
    <3>2. heap[o].dial # Idle =>
              /\ heap[o].dial.at = "hello" => heap[o].dial.of \in Nat
              /\ heap[o].dial.at # "hello" => heap[o].dial.of \in Nat
      BY <3>1, DialFields DEF Instances, Sessions
    <3> QED BY <1>1, <2>2, <3>2
  <2>6. CASE heap'[o].dial \in {heap[o].dial, Idle}
    BY <2>4, <2>5, <2>6
  <2>7. CASE heap'[o].dial = [at |-> "hello", of |-> instance]
    BY <1>1, <2>4, <2>7
  <2>8. CASE heap'[o].dial = [at |-> "welcomed", of |-> relay'.session] /\ relay' # NoSession
    BY <1>1, <2>4, <2>8
  <2>9. CASE /\ heap'[o].dial = [at |-> "checked", of |-> sessionID]
             /\ heap[o].dial = [at |-> "welcomed", of |-> sessionID]
    <3>1. heap[o].dial.at = "welcomed" /\ heap[o].dial.of = sessionID
      BY <2>9
    <3>2. heap'[o].dial.at = "checked" /\ heap'[o].dial.of = sessionID
      BY <2>9
    <3>3. heap[o].dial # Idle
      <4>1. heap[o].dial \in Dial \union {Idle}
        BY <2>1, PathFields
      <4>2. CASE sessionID \in Sessions
        <5>1. heap[o].dial \in Dial
          BY <2>9, <4>2 DEF Dial
        <5> QED BY <5>1, DialFields
      <4>3. CASE sessionID \notin Sessions
        <5>1. heap[o].dial \notin Dial
          BY <3>1, <4>3, DialFields
        <5>2. [at |-> "checked", of |-> sessionID] \notin Dial
          BY <4>3 DEF Dial
        <5>3. heap'[o] \in ClientPath
          BY HeapEvolves DEF Evolves, Heaps
        <5>4. heap'[o].dial = Idle
          BY <2>9, <5>2, <5>3, PathFields
        <5> QED BY <3>1, <3>2, <4>1, <5>1, <5>4
      <4> QED BY <4>2, <4>3
    <3> QED BY <2>4, <2>5, <3>1, <3>2, <3>3
  <2> QED BY <1>4, <2>6, <2>7, <2>8, <2>9 DEF Persists
<1> QED BY <1>2, <1>3, <1>4

(* The handshakes' part. *)
LEMMA HandshakeSessionsStep ==
  ASSUME IInv, Next, NEW u \in Uplinks, handshakes'[u] \in Sessions
  PROVE  handshakes'[u] <= created'
<1>1. /\ created \in Nat /\ created' \in Nat /\ created <= created'
      /\ handshakes \in [Uplinks -> Sessions \union {Hello, Failed}]
      /\ \A v \in Uplinks : handshakes[v] \in Sessions => handshakes[v] <= created
  BY RelayTyped, PoolsAssumption DEF IInv, TypeOK, SessionsExist
<1>2. \A v \in Uplinks : handshakes[v] \in Sessions => handshakes[v] <= created'
  BY <1>1 DEF Sessions
<1>3. ASSUME NEW v \in Uplinks, ConnectAnswered(v) PROVE handshakes'[u] <= created'
  <2>1. instance \in Instances /\ TypeOK /\ SessionsExist
    BY DEF IInv, TypeOK
  <2>2. relay'.session <= created'
    BY <1>3, <2>1, JoinsStep DEF ConnectAnswered
  <2>3. handshakes' = [handshakes EXCEPT ![v] = relay'.session]
    BY <1>3 DEF ConnectAnswered
  <2> QED BY <1>1, <1>2, <2>2, <2>3
<1>4. ASSUME NEW v \in Uplinks, ConnectTimesOut(v) PROVE handshakes'[u] <= created'
  <2>1. handshakes' = [handshakes EXCEPT ![v] = Failed]
    BY <1>4 DEF ConnectTimesOut
  <2> QED BY <1>1, <1>2, <2>1, NothingAssumption
<1>5. CASE ChooseSession
  BY <1>2, <1>5, ChooseSessionStep, NothingAssumption
<1>6. CASE InstallPaths \/ NewIdentity
  BY <1>6, NothingAssumption DEF InstallPaths, NewIdentity, NoHandshakes
<1> QED BY <1>2, <1>3, <1>4, <1>5, <1>6, SessionCases DEF Handshakes

(* What tunLoop sends, and over which session. *)
LEMMA SendDataStep ==
  ASSUME IInv, SendData
  PROVE  /\ UNCHANGED <<sessionID, instance, phase, overtaken>>
         /\ dataSeq' \in 0 .. MaxData /\ dataSeq <= dataSeq'
         /\ \/ UNCHANGED <<sent, reused>>
            \/ \E s \in Sessions :
                  /\ s <= created
                  /\ dataSeq' = dataSeq + 1
                  /\ sent' = [sent EXCEPT ![s] = sent[s] \union {dataSeq'}]
                  /\ reused' = (reused \/ dataSeq' \in sent[s])
                  /\ ~overtaken => /\ s = sessionID /\ phase # "closed"
                                   /\ paths # {}
<1>1. /\ dataSeq \in 0 .. MaxData /\ MaxData \in Nat /\ created \in 0 .. MaxSessions
      /\ MaxSessions \in Nat /\ TypeOK
  BY PoolsAssumption DEF IInv, TypeOK
<1>2. /\ tunnel # None /\ dataSeq' = IF dataSeq < MaxData THEN dataSeq + 1 ELSE dataSeq
      /\ UNCHANGED <<sessionID, instance, phase, overtaken>>
  BY DEF SendData
<1>3. CASE ~ (heap[tunnel].open /\ dataSeq < MaxData)
  <2>1. UNCHANGED <<sent, reused>>
    BY <1>3 DEF SendData
  <2> QED BY <1>1, <1>2, <2>1
<1>4. CASE heap[tunnel].open /\ dataSeq < MaxData
  <2> DEFINE s == heap[tunnel].session
  <2>1. tunnel \in Objects /\ heap[tunnel] # None
    BY <1>1, <1>2, HeapTypes
  <2>2. s \in 1 .. created
    BY <1>4, <2>1 DEF IInv, SessionsExist
  <2>3. s \in Sessions /\ s <= created
    BY <1>1, <2>2 DEF Sessions
  <2>4. dataSeq' = dataSeq + 1
    BY <1>2, <1>4
  <2>5. sent' = [sent EXCEPT ![s] = sent[s] \union {dataSeq'}]
        /\ reused' = (reused \/ dataSeq' \in sent[s])
    <3> DEFINE n == dataSeq'
    <3>1. sent' = [sent EXCEPT ![s] = @ \union {n}] /\ reused' = (reused \/ n \in sent[s])
      BY <1>4 DEF SendData
    <3> HIDE DEF s, n
    <3>2. sent' = [sent EXCEPT ![s] = sent[s] \union {n}]
      BY <3>1
    <3> QED BY <3>1, <3>2 DEF n
  <2>6. ~overtaken => tunnel \in paths /\ phase # "closed"
    BY <1>4, <2>1, OpenOnesListed
  <2>7. ~overtaken => s = sessionID /\ phase # "closed" /\ paths # {}
    BY <2>6 DEF IInv, PathsShareSession
  <2>8. dataSeq' \in 0 .. MaxData /\ dataSeq <= dataSeq'
    BY <1>1, <1>4, <2>4
  <2> HIDE DEF s
  <2> QED BY <1>2, <2>3, <2>4, <2>5, <2>7, <2>8
<1> QED BY <1>3, <1>4

(* The sessions anybody knows of exist. *)
LEMMA SessionsExistStep ==
  ASSUME IInv, Next
  PROVE  SessionsExist'
<1>1. /\ created \in Nat /\ created' \in Nat /\ created <= created'
      /\ relay' # NoSession => relay'.session <= created' /\ relay'.instance <= instance'
  BY RelayTyped, PoolsAssumption DEF IInv, TypeOK
<1>2. ASSUME NEW t \in Sessions, sent'[t] # {} PROVE t <= created'
  <2>1. t \in Nat /\ (sent[t] # {} => t <= created)
    BY DEF IInv, SessionsExist, Sessions
  <2>2. CASE UNCHANGED <<sent, reused>>
    BY <1>1, <1>2, <2>1, <2>2
  <2>3. CASE SendData
    <3>1. ASSUME NEW s \in Sessions, s <= created,
                 sent' = [sent EXCEPT ![s] = sent[s] \union {dataSeq'}]
          PROVE  t <= created'
      <4>1. CASE t = s
        BY <1>1, <2>1, <3>1, <4>1
      <4>2. CASE t # s
        <5>1. sent'[t] = sent[t]
          BY <3>1, <4>2 DEF IInv, TypeOK
        <5> QED BY <1>1, <1>2, <2>1, <5>1
      <4> QED BY <4>1, <4>2
    <3> QED BY <2>2, <2>3, <3>1, SendDataStep
  <2> QED BY <2>2, <2>3, NumberCases
<1> QED BY <1>1, <1>2, HeapSessionsStep, HandshakeSessionsStep DEF SessionsExist

(* From clearing to installing the list stays empty. *)
LEMMA RejoinHoldsNoPathStep ==
  ASSUME IInv, Next
  PROVE  RejoinHoldsNoPath'
<1>1. RejoinHoldsNoPath /\ Idle \notin {"cleared", "connecting", "chosen"}
  BY NothingAssumption DEF IInv
<1>2. CASE Rejoins
  <2>1. CASE ClearPaths
    BY <2>1 DEF ClearPaths, Keep, RejoinHoldsNoPath
  <2>2. CASE ChooseSession \/ NewIdentity
    BY <1>1, <2>2 DEF ChooseSession, NewIdentity, RejoinHoldsNoPath
  <2>3. CASE ConnectFails \/ InstallPaths \/ NoIdentity
    BY <1>1, <2>3 DEF ConnectFails, AfterFailure, InstallPaths, NoIdentity, RejoinHoldsNoPath
  <2>4. CASE BeginRejoin
    BY <1>1, <2>4 DEF BeginRejoin, RejoinHoldsNoPath
  <2> QED BY <1>2, <2>1, <2>2, <2>3, <2>4 DEF Rejoins
<1>3. CASE UNCHANGED phase
  <2> SUFFICES ASSUME phase \in {"cleared", "connecting", "chosen"} PROVE paths' = {}
    BY <1>3 DEF RejoinHoldsNoPath
  <2>1. paths = {}
    BY <1>1 DEF RejoinHoldsNoPath
  <2>2. ~InstallPaths /\ ~ClearPaths
    BY <1>1, <1>3 DEF InstallPaths, ClearPaths
  <2>3. ASSUME NEW o \in Objects, ReplacePath(o) PROVE paths' = {}
    BY <2>1, <2>3 DEF ReplacePath, Keep
  <2> QED BY <2>1, <2>2, <2>3, ListCases
<1> QED BY <1>2, <1>3, SessionCases

(* Only the handshakes of the chosen session are left. *)
LEMMA ChosenIsKeptStep ==
  ASSUME IInv, Next
  PROVE  ChosenIsKept'
<1> SUFFICES ASSUME phase' = "chosen", NEW u \in Uplinks
             PROVE  handshakes'[u] \in {Failed, sessionID'}
  BY DEF ChosenIsKept
<1>1. CASE ChooseSession
  BY <1>1, ChooseSessionStep
<1>2. CASE ~ChooseSession
  <2>1. UNCHANGED phase
    BY <1>2, NothingAssumption, SessionCases
       DEF Rejoins, ConnectFails, AfterFailure, InstallPaths, BeginRejoin, ClearPaths,
           NewIdentity, NoIdentity
  <2>2. ~Handshakes /\ ~InstallPaths /\ ~NewIdentity
    BY <2>1, NothingAssumption
       DEF Handshakes, ConnectAnswered, ConnectTimesOut, Shaking, InstallPaths, NewIdentity
  <2>3. UNCHANGED <<handshakes, sessionID>>
    BY <1>2, <2>2, SessionCases
  <2> QED BY <2>1, <2>3 DEF IInv, ChosenIsKept
<1> QED BY <1>1, <1>2

(* As long as there is a path, the session is the same. *)
LEMMA SessionFixed ==
  ASSUME IInv, Next, paths # {}
  PROVE  UNCHANGED sessionID
<1>1. phase \notin {"cleared", "connecting", "chosen"}
  BY DEF IInv, RejoinHoldsNoPath
<1> QED BY <1>1, SessionCases DEF ChooseSession, NewIdentity

(* A checked reconnectPath agrees with the client. *)
LEMMA CheckedAgreeStep ==
  ASSUME IInv, Next
  PROVE  CheckedAgree'
<1> SUFFICES ASSUME NEW o \in paths', heap'[o].dial # Idle, heap'[o].dial.at = "checked"
             PROVE  heap'[o].dial.of = sessionID'
  BY DEF CheckedAgree
<1>1. o \in Objects /\ heap'[o] # None
  BY HeapEvolves DEF Evolves
<1>2. Persists(o) \/ Starts(o)
  BY <1>1, HeapEvolves DEF Evolves
<1>3. ~Starts(o)
  BY NewStored DEF Starts
<1>4. o \in paths /\ Persists(o)
  BY <1>2, <1>3 DEF Persists
<1>5. sessionID' = sessionID
  BY <1>4, SessionFixed
<1>6. CASE heap'[o].dial = heap[o].dial
  BY <1>4, <1>5, <1>6 DEF IInv, CheckedAgree
<1>7. CASE heap'[o].dial = [at |-> "hello", of |-> instance]
  <2>1. heap'[o].dial.at = "hello"
    BY <1>7
  <2> QED BY <2>1
<1>8. CASE heap'[o].dial = [at |-> "welcomed", of |-> relay'.session]
  <2>1. heap'[o].dial.at = "welcomed"
    BY <1>8
  <2> QED BY <2>1
<1>9. CASE heap'[o].dial = [at |-> "checked", of |-> sessionID]
  <2>1. heap'[o].dial.of = sessionID
    BY <1>9
  <2> QED BY <1>5, <2>1
<1> QED BY <1>4, <1>6, <1>7, <1>8, <1>9 DEF Persists

(* The paths share the session. *)
LEMMA PathsShareSessionStep ==
  ASSUME IInv, Next
  PROVE  PathsShareSession'
<1> SUFFICES ASSUME NEW o \in paths' PROVE heap'[o].session = sessionID'
  BY DEF PathsShareSession
<1>1. o \in Objects /\ heap'[o] # None
  BY HeapEvolves DEF Evolves
<1>2. CASE Starts(o)
  BY <1>2, NewStored DEF Starts
<1>3. CASE Persists(o)
  <2>1. o \in paths /\ heap'[o].session = heap[o].session
    BY <1>3 DEF Persists
  <2>2. sessionID' = sessionID
    BY <2>1, SessionFixed
  <2> QED BY <2>1, <2>2 DEF IInv, PathsShareSession
<1> QED BY <1>1, <1>2, <1>3, HeapEvolves DEF Evolves

(* No socket is open outside the list, or while it is being cleared. *)
LEMMA OpenIsOwnedStep ==
  ASSUME IInv, Next
  PROVE  OpenIsOwned' /\ SocketsAreOwned'
<1>1. SocketsAreOwned'
  BY HeapEvolves, ListCases DEF Evolves, IInv, SocketsAreOwned
<1>2. ASSUME ~overtaken', NEW o \in Objects, heap'[o] # None, heap'[o].open
      PROVE  o \in paths' /\ phase' # "closed"
  <2>1. ~overtaken
    BY <1>2, ListCases
  <2>2. CASE Starts(o)
    BY <1>2, <2>2 DEF Starts
  <2>3. CASE Persists(o)
    <3>1. heap[o] # None /\ heap[o].open
      BY <1>2, <2>3 DEF Persists
    <3>2. o \in paths /\ phase # "closed"
      BY <2>1, <3>1, OpenOnesListed
    <3>3. o \in paths'
      BY <1>2, <2>3, <3>2 DEF Persists
    <3>4. phase' # "closed"
      BY <1>2, <3>2, HeapEvolves DEF Evolves
    <3> QED BY <3>3, <3>4
  <2> QED BY <1>2, <2>2, <2>3, HeapEvolves DEF Evolves
<1> QED BY <1>1, <1>2 DEF OpenIsOwned

-----------------------------------------------------------------------------
(* Numbers *)

(* Those of the current session are counted by dataSeq. *)
LEMMA NumbersCountedStep ==
  ASSUME IInv, Next
  PROVE  NumbersCounted'
<1> SUFFICES ASSUME ~overtaken', sessionID' \in Sessions
             PROVE  sent'[sessionID'] \subseteq 1 .. dataSeq'
  BY DEF NumbersCounted
<1>1. ~overtaken
  BY ListCases
<1>2. dataSeq \in Nat /\ TypeOK /\ SessionsExist
  BY DEF IInv, TypeOK
<1>3. CASE ChooseSession
  <2>1. PICK u \in Uplinks : handshakes[u] = sessionID'
    BY <1>3, ChooseSessionStep
  <2>2. sent[sessionID'] = {}
    BY <1>1, <1>3, <2>1, ChooseSessionStep DEF IInv, NewSessionIsUnsent
  <2>3. sent' = sent
    BY <1>3 DEF ChooseSession, history
  <2> QED BY <2>2, <2>3
<1>4. ~NewIdentity
  BY NothingAssumption DEF NewIdentity
<1>5. CASE UNCHANGED sessionID
  <2>1. sent[sessionID] \subseteq 1 .. dataSeq
    BY <1>1, <1>5 DEF IInv, NumbersCounted
  <2>2. CASE SendData
    <3>1. dataSeq' \in Nat /\ dataSeq <= dataSeq'
      BY <2>2, SendDataStep
    <3>2. sent[sessionID] \subseteq 1 .. dataSeq'
      BY <1>2, <2>1, <3>1
    <3>3. CASE UNCHANGED <<sent, reused>>
      BY <1>5, <3>2, <3>3
    <3>4. ASSUME NEW s \in Sessions, s = sessionID, dataSeq' = dataSeq + 1,
                 sent' = [sent EXCEPT ![s] = sent[s] \union {dataSeq'}]
          PROVE  sent'[sessionID'] \subseteq 1 .. dataSeq'
      <4>1. sent'[s] = sent[s] \union {dataSeq'}
        BY <1>2, <3>4 DEF TypeOK
      <4>2. dataSeq' \in 1 .. dataSeq'
        BY <1>2, <3>4
      <4> QED BY <1>5, <3>2, <3>4, <4>1, <4>2
    <3> QED BY <1>1, <2>2, <3>3, <3>4, SendDataStep
  <2>3. CASE UNCHANGED <<sent, reused>> /\ UNCHANGED dataSeq
    BY <1>5, <2>1, <2>3
  <2> QED BY <1>4, <2>2, <2>3, NumberCases
<1> QED BY <1>3, <1>4, <1>5, SessionCases

(* No number is sent twice. *)
LEMMA NumbersUsedOnceStep ==
  ASSUME IInv, Next
  PROVE  NumbersUsedOnce'
<1> SUFFICES ASSUME ~overtaken', reused' PROVE FALSE
  BY DEF NumbersUsedOnce
<1>1. ~overtaken /\ ~reused
  BY ListCases DEF IInv, NumbersUsedOnce
<1>2. dataSeq \in Nat
  BY DEF IInv, TypeOK
<1>3. SendData
  BY <1>1, NumberCases
<1>4. PICK s \in Sessions : s = sessionID /\ dataSeq' = dataSeq + 1 /\ dataSeq' \in sent[s]
  BY <1>1, <1>3, SendDataStep
<1>5. sent[s] \subseteq 1 .. dataSeq
  BY <1>1, <1>4 DEF IInv, NumbersCounted
<1> QED BY <1>2, <1>4, <1>5

(* A new session of the relay has carried nothing. *)
LEMMA MadeIsUnsent ==
  ASSUME IInv, NEW s \in Sessions, s > created
  PROVE  sent[s] = {}
  BY PoolsAssumption DEF IInv, TypeOK, SessionsExist, Sessions

(* The session connect is about to choose has carried nothing. *)
LEMMA NewSessionIsUnsentStep ==
  ASSUME IInv, Next
  PROVE  NewSessionIsUnsent'
<1> SUFFICES ASSUME ~overtaken', phase' = "connecting"
             PROVE  /\ \A u \in Uplinks :
                          handshakes'[u] \in Sessions => sent'[handshakes'[u]] = {}
                    /\ relay'.instance = instance' => sent'[relay'.session] = {}
  BY DEF NewSessionIsUnsent
<1>1. ~overtaken /\ Idle # "connecting"
  BY NothingAssumption, ListCases
<1>2. /\ instance \in Instances /\ created \in Nat /\ TypeOK /\ SessionsExist
      /\ None \notin Instances
      /\ handshakes \in [Uplinks -> Sessions \union {Hello, Failed}]
  BY NothingAssumption DEF IInv, TypeOK
<1>3. CASE NewIdentity
  <2>1. /\ handshakes' = [u \in Uplinks |-> Hello]
        /\ relay' = relay /\ instance' = instance + 1
    BY <1>3 DEF NewIdentity, NewNonce, remote
  <2>2. instance' \in Instances
    BY RelayTyped
  <2>3. relay.instance # instance'
    <3>1. CASE relay = NoSession
      BY <1>2, <2>2, <3>1 DEF NoSession
    <3>2. CASE relay # NoSession
      <4>1. relay.instance \in Instances /\ relay.instance <= instance
        BY <1>2, <3>2 DEF TypeOK, SessionsExist
      <4> QED BY <1>2, <2>1, <4>1 DEF Instances
    <3> QED BY <3>1, <3>2
  <2> QED BY <2>1, <2>3, NothingAssumption
<1>4. CASE ~NewIdentity
  <2>1. UNCHANGED phase
    BY <1>1, <1>4, SessionCases
       DEF Rejoins, ChooseSession, ConnectFails, AfterFailure, InstallPaths, BeginRejoin,
           ClearPaths, NoIdentity
  <2>2. paths = {} /\ phase = "connecting"
    BY <2>1 DEF IInv, RejoinHoldsNoPath
  <2>3. sent' = sent
    BY <1>1, <2>2, NumberCases, SendDataStep
  <2>4. instance' = instance
    BY <1>4, SessionCases
  <2>5. /\ \A u \in Uplinks : handshakes[u] \in Sessions => sent[handshakes[u]] = {}
        /\ relay.instance = instance => sent[relay.session] = {}
    BY <1>1, <2>2 DEF IInv, NewSessionIsUnsent
  <2>6. relay'.instance = instance' => sent[relay'.session] = {}
    <3>1. CASE RelayKeeps
      BY <2>4, <2>5, <3>1 DEF RelayKeeps
    <3>2. CASE RelayLoses
      BY <1>2, <2>4, <3>2 DEF RelayLoses, NoSession
    <3>3. CASE RelayMakes
      <4>1. relay'.session = created' /\ created' = created + 1 /\ created' \in Sessions
        BY <3>3 DEF RelayMakes
      <4>2. sent[created'] = {}
        BY <1>2, <4>1, MadeIsUnsent
      <4> QED BY <4>1, <4>2
    <3> QED BY <3>1, <3>2, <3>3, RelayCases
  <2>7. ASSUME NEW u \in Uplinks, handshakes'[u] \in Sessions
        PROVE  sent[handshakes'[u]] = {}
    <3>1. CASE UNCHANGED handshakes
      BY <2>5, <2>7, <3>1
    <3>2. ASSUME NEW v \in Uplinks, ConnectAnswered(v)
          PROVE  sent[handshakes'[u]] = {}
      <4>1. relay'.instance = instance
        BY <1>2, <3>2, JoinsStep DEF ConnectAnswered
      <4>2. handshakes' = [handshakes EXCEPT ![v] = relay'.session]
        BY <3>2 DEF ConnectAnswered
      <4>3. CASE u = v
        BY <1>2, <2>4, <2>6, <4>1, <4>2, <4>3
      <4>4. CASE u # v
        BY <1>2, <2>5, <2>7, <4>2, <4>4
      <4> QED BY <4>3, <4>4
    <3>3. ASSUME NEW v \in Uplinks, ConnectTimesOut(v)
          PROVE  sent[handshakes'[u]] = {}
      <4>1. handshakes' = [handshakes EXCEPT ![v] = Failed]
        BY <3>3 DEF ConnectTimesOut
      <4> QED BY <1>2, <2>5, <2>7, <4>1, NothingAssumption
    <3>4. ~ChooseSession /\ ~InstallPaths
      BY <2>1, <2>2 DEF ChooseSession, InstallPaths
    <3> QED BY <1>4, <3>1, <3>2, <3>3, <3>4, SessionCases DEF Handshakes
  <2> QED BY <2>3, <2>6, <2>7
<1> QED BY <1>3, <1>4

-----------------------------------------------------------------------------
(* The invariant *)

(* A client that starts. *)
LEMMA InitIInv == Init => IInv
<1> SUFFICES ASSUME Init PROVE IInv
  OBVIOUS
<1> USE DEF Init
<1>1. /\ MaxSessions \in Nat /\ MaxData \in Nat /\ MaxForgets \in Nat
      /\ 1 \in Instances /\ NoSession = relay /\ relay.instance = None
      /\ None \notin Instances /\ Hello \notin Sessions /\ Hello # Failed
      /\ None \notin Sessions
  BY PoolsAssumption, NothingAssumption DEF Instances, NoSession
<1>2. TypeOK
  <2>1. heap \in [Objects -> ClientPath \union {None}] /\ paths \subseteq Live
        /\ tunnel \in Live \union {None} /\ sessionID \in Sessions \union {None}
    OBVIOUS
  <2>2. dataSeq \in 0 .. MaxData /\ created \in 0 .. MaxSessions /\ forgets \in 0 .. MaxForgets
    BY <1>1
  <2>3. sent \in [Sessions -> SUBSET (1 .. MaxData)]
        /\ handshakes \in [Uplinks -> Sessions \union {Hello, Failed}]
    OBVIOUS
  <2>4. {overtaken, forgotten, reused} \subseteq BOOLEAN /\ rejoins \in BOOLEAN
        /\ cancelled \in BOOLEAN /\ run \in {"connecting", "running", "stopped"}
        /\ phase \in {Idle, "connecting", "chosen", "closed", "cleared"}
    OBVIOUS
  <2>5. relay \in [session : Sessions, instance : Instances] \union {NoSession}
        /\ instance \in Instances
    BY <1>1
  <2> QED BY <2>1, <2>2, <2>3, <2>4, <2>5 DEF TypeOK
<1>3. SessionsExist /\ NewSessionIsUnsent
  BY <1>1 DEF SessionsExist, NewSessionIsUnsent
<1>4. RejoinHoldsNoPath /\ ChosenIsKept /\ CheckedAgree /\ PathsShareSession
  BY DEF RejoinHoldsNoPath, ChosenIsKept, CheckedAgree, PathsShareSession
<1>5. OpenIsOwned /\ SocketsAreOwned /\ NumbersCounted /\ NumbersUsedOnce
  BY <1>1 DEF OpenIsOwned, SocketsAreOwned, NumbersCounted, NumbersUsedOnce
<1> QED BY <1>2, <1>3, <1>4, <1>5 DEF IInv

(* A step of which nothing is visible. *)
LEMMA StutterIInv == ASSUME IInv, UNCHANGED vars PROVE IInv'
<1>1. /\ UNCHANGED <<run, cancelled, heap, paths, sessionID, instance, dataSeq>>
      /\ UNCHANGED <<phase, handshakes, rejoins, tunnel, relay, created, forgets>>
      /\ UNCHANGED <<sent, overtaken, forgotten, reused>>
  BY DEF vars, shared, goroutines, remote, history
<1>2. (TypeOK /\ SessionsExist)'
  BY <1>1 DEF IInv, TypeOK, Live, SessionsExist
<1>3. (RejoinHoldsNoPath /\ ChosenIsKept /\ CheckedAgree /\ PathsShareSession)'
  BY <1>1 DEF IInv, RejoinHoldsNoPath, ChosenIsKept, CheckedAgree, PathsShareSession
<1>4. (OpenIsOwned /\ SocketsAreOwned /\ NumbersCounted /\ NewSessionIsUnsent
       /\ NumbersUsedOnce)'
  BY <1>1 DEF IInv, OpenIsOwned, SocketsAreOwned, NumbersCounted, NewSessionIsUnsent,
              NumbersUsedOnce
<1> QED BY <1>2, <1>3, <1>4 DEF IInv

(* Every reachable state satisfies the strengthening. *)
THEOREM Invariance == Spec => []IInv
<1>1. ASSUME IInv, Next PROVE IInv'
  BY <1>1, TypeStep, SessionsExistStep, RejoinHoldsNoPathStep, ChosenIsKeptStep,
     CheckedAgreeStep, PathsShareSessionStep, OpenIsOwnedStep, NumbersCountedStep,
     NewSessionIsUnsentStep, NumbersUsedOnceStep
     DEF IInv
<1>2. IInv /\ [Next]_vars => IInv'
  BY <1>1, StutterIInv
<1> QED BY InitIInv, <1>2, PTL DEF Spec

(* Types hold for every set of uplinks, and a path of the list exists. *)
THEOREM TypeCorrect == Spec => []TypeOK
<1>1. IInv => TypeOK
  BY DEF IInv
<1> QED BY Invariance, <1>1, PTL

(* connect, reconnectPath and rejoinAll never leave a path of one session  *)
(* in a client of another.                                                 *)
THEOREM OneSessionAtATime == Spec => []PathsShareSession
<1>1. IInv => PathsShareSession
  BY DEF IInv
<1> QED BY Invariance, <1>1, PTL

(* No number is sent twice over one relay session, unless a path was       *)
(* replaced after rejoinAll had closed the others.                         *)
THEOREM NumbersOnce == Spec => []NumbersUsedOnce
<1>1. IInv => NumbersUsedOnce
  BY DEF IInv
<1> QED BY Invariance, <1>1, PTL

(* No socket is left open outside the list, with the same exception.       *)
THEOREM NoSocketLost == Spec => []SocketsAreOwned
<1>1. IInv => SocketsAreOwned
  BY DEF IInv
<1> QED BY Invariance, <1>1, PTL

=============================================================================
