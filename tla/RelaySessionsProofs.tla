------------------------ MODULE RelaySessionsProofs ------------------------
(***************************************************************************)
(* The relay's session table, for any number of clients, credentials,      *)
(* HELLOs, addresses, sessions and control plane calls.                    *)
(*                                                                         *)
(* What the properties lack to be inductive: that the sessions which the   *)
(* goroutines hold between two sections are real objects; that a session's *)
(* credential was offered to its client, so that nobody else ever has its  *)
(* address; and that receiveLoop, once it has found a session for a HELLO, *)
(* holds the credential of that session unless it is about to be closed.   *)
(***************************************************************************)
EXTENDS RelaySessions, FiniteSetTheorems, TLAPS

(* What receiveLoop does once it has set the paths of a session unhealthy.  *)
Ahead == IF receiver.at = "quieting" THEN receiver.then ELSE receiver

(* No goroutine holds a nil session across a lock.                          *)
HeldSessionsExist ==
    /\ receiver.at \in {"opened", "removing", "terminating", "quieting"} =>
           object[receiver.session] # None
    /\ Ahead.at = "registering" => object[Ahead.session] # None
    /\ \A t \in Threads : control[t].at = "quieting" => object[control[t].session] # None
    /\ tunnel # None => object[tunnel] # None

Offered(client, credential) ==
    \E o \in Offers : o.client = client /\ CredentialOf(o) = credential

(* A credential, in the map or kept by a session, is one that the control   *)
(* plane authorized for that client.                                        *)
CredentialsOffered ==
    /\ \A c \in Clients : credentials[c] # None => Offered(c, credentials[c])
    /\ \A s \in SessionIds : object[s] # None =>
           Offered(object[s].client, object[s].credential)

(* A HELLO about to be given a path has found a session of its client; if   *)
(* that one is listed, it has the HELLO's credential or is about to leave.  *)
JoinedIsAuthorized ==
    Ahead.at = "registering" =>
        LET s == Ahead.session
        IN  /\ object[s].client = Ahead.hello.client
            /\ s \in sessions =>
                   \/ Terminating(object[s].client)
                   \/ object[s].credential = Ahead.credential

IInv ==
    /\ TypeOK
    /\ HeldSessionsExist
    /\ CredentialsOffered
    /\ IndexesAgree
    /\ IsFiniteSet(sessions)
    /\ GaugeExact
    /\ ClosingIsLeaving
    /\ SessionsAreAuthorized
    /\ JoinedIsAuthorized

-----------------------------------------------------------------------------
(* Sessions and paths that a section leaves behind *)

Paths == UNION {[ids -> Path] : ids \in SUBSET PathIds}

(* Paths that were there before, at the same address under the same key.    *)
SomeOf(new, old) ==
    /\ new \in Paths
    /\ DOMAIN new \subseteq DOMAIN old
    /\ \A p \in DOMAIN new : new[p].key = old[p].key /\ new[p].remote = old[p].remote

(* A session after a section that adds no path and moves none.              *)
Successor(new, old) ==
    /\ new \in Session
    /\ new.client = old.client /\ new.credential = old.credential
    /\ old.closing => new.closing
    /\ old.lastPathId <= new.lastPathId
    /\ SomeOf(new.paths, old.paths)

(* A map of paths by id, for expirePaths, removePath and the loops over it. *)
LEMMA PathsAreFunctions ==
  ASSUME NEW q
  PROVE  q \in Paths <=> /\ q = [p \in DOMAIN q |-> q[p]]
                         /\ DOMAIN q \subseteq PathIds
                         /\ \A p \in DOMAIN q : q[p] \in Path
<1>1. ASSUME q \in Paths
      PROVE  /\ q = [p \in DOMAIN q |-> q[p]]
             /\ DOMAIN q \subseteq PathIds
             /\ \A p \in DOMAIN q : q[p] \in Path
  <2>1. PICK ids \in SUBSET PathIds : q \in [ids -> Path]
    BY <1>1 DEF Paths
  <2> QED BY <2>1
<1>2. ASSUME q = [p \in DOMAIN q |-> q[p]], DOMAIN q \subseteq PathIds,
             \A p \in DOMAIN q : q[p] \in Path
      PROVE  q \in Paths
  <2>1. q \in [DOMAIN q -> Path]
    BY <1>2
  <2> QED BY <1>2, <2>1 DEF Paths
<1> QED BY <1>1, <1>2

(* A path whose health is stored is a path still, where it was.             *)
LEMMA HealthStored ==
  ASSUME NEW x \in Path, NEW b \in BOOLEAN
  PROVE  /\ [x EXCEPT !.healthy = b] \in Path
         /\ [x EXCEPT !.healthy = b].key = x.key
         /\ [x EXCEPT !.healthy = b].remote = x.remote
  BY Zenon DEF Path

(* ... so is one that grows older.                                          *)
LEMMA AgeStored ==
  ASSUME NEW x \in Path
  PROVE  /\ [x EXCEPT !.age = Older(@, PathTimeout)] \in Path
         /\ [x EXCEPT !.age = Older(@, PathTimeout)].key = x.key
         /\ [x EXCEPT !.age = Older(@, PathTimeout)].remote = x.remote
<1>1. x.age \in 0 .. PathTimeout + 1
  BY DEF Path
<1>2. Older(x.age, PathTimeout) \in 0 .. PathTimeout + 1
  BY <1>1, TimeoutAssumption DEF Older
<1> QED BY <1>2, Zenon DEF Path

(* ... and one whose address a packet moves.                                *)
LEMMA RemoteStored ==
  ASSUME NEW x \in Path, NEW from \in Addresses, NEW b \in BOOLEAN
  PROVE  /\ Moved(x, from, b) \in Path
         /\ Moved(x, from, b).key = x.key
         /\ Moved(x, from, b).remote = from
<1>1. 0 \in 0 .. PathTimeout + 1
  BY TimeoutAssumption
<1> QED BY <1>1, Zenon DEF Path, Moved

(* What the fields of a session are, with `Paths' for its map.              *)
LEMMA SessionFields ==
  ASSUME NEW x \in Session
  PROVE  /\ x.client \in Clients /\ x.credential \in Credentials
         /\ x.instance \in {h.instance : h \in Hellos}
         /\ x.closing \in BOOLEAN /\ x.idle \in 0 .. SessionTimeout + 1
         /\ x.lastPathId \in 0 .. MaxPathId
         /\ x.paths \in Paths
  BY DEF Session, Paths

(* Storing fields of a session.                                             *)
LEMMA SessionUpdates ==
  ASSUME NEW x \in Session, NEW q \in Paths, NEW b \in BOOLEAN,
         NEW id \in 0 .. MaxPathId, NEW i \in 0 .. SessionTimeout + 1
  PROVE  /\ [x EXCEPT !.closing = b] \in Session
         /\ [x EXCEPT !.paths = q] \in Session
         /\ [x EXCEPT !.lastPathId = id] \in Session
         /\ [x EXCEPT !.idle = i, !.paths = q] \in Session
         /\ [x EXCEPT !.paths = q, !.closing = b] \in Session
         /\ [x EXCEPT !.lastPathId = id, !.idle = i, !.paths = q] \in Session
<1>1. [x EXCEPT !.closing = b] \in Session
  BY Zenon DEF Session
<1>2. [x EXCEPT !.paths = q] \in Session
  BY Zenon DEF Session, Paths
<1>3. [x EXCEPT !.lastPathId = id] \in Session
  BY Zenon DEF Session
<1>4. [x EXCEPT !.idle = i, !.paths = q] \in Session
  BY Zenon DEF Session, Paths
<1>5. [x EXCEPT !.paths = q, !.closing = b] \in Session
  BY Zenon DEF Session, Paths
<1>6. [x EXCEPT !.lastPathId = id, !.idle = i, !.paths = q] \in Session
  BY Zenon DEF Session, Paths
<1> QED BY <1>1, <1>2, <1>3, <1>4, <1>5, <1>6

(* markClosing, the loops that set paths unhealthy, expirePaths, the clocks *)
(* and a write that fails: whatever they do to the paths and the flags of a *)
(* session, a successor of it is left.                                      *)
LEMMA Successors ==
  ASSUME NEW x \in Session, NEW q, SomeOf(q, x.paths)
  PROVE  /\ Successor(x, x)
         /\ Successor(Closed(x), x)
         /\ Successor([x EXCEPT !.paths = q], x)
         /\ \A i \in 0 .. SessionTimeout + 1 : Successor([x EXCEPT !.idle = i, !.paths = q], x)
         /\ \A b \in BOOLEAN : Successor([x EXCEPT !.paths = q, !.closing = @ \/ b], x)
<1>1. /\ x.lastPathId \in Nat /\ x.closing \in BOOLEAN
      /\ x.paths \in Paths /\ SomeOf(x.paths, x.paths) /\ q \in Paths
  BY SessionFields, PathIdAssumption DEF SomeOf
<1>2. Successor(x, x)
  BY <1>1 DEF Successor
<1>3. Successor(Closed(x), x)
  <2>1. Closed(x) \in Session
    BY <1>1, SessionUpdates, SessionFields DEF Closed
  <2>2. /\ Closed(x).client = x.client /\ Closed(x).credential = x.credential
        /\ Closed(x).closing /\ Closed(x).lastPathId = x.lastPathId
        /\ Closed(x).paths = x.paths
    BY DEF Closed, Session
  <2> QED BY <1>1, <2>1, <2>2 DEF Successor
<1>4. Successor([x EXCEPT !.paths = q], x)
  <2> DEFINE y == [x EXCEPT !.paths = q]
  <2>1. y \in Session
    BY <1>1, SessionUpdates, SessionFields
  <2>2. /\ y.client = x.client /\ y.credential = x.credential /\ y.closing = x.closing
        /\ y.lastPathId = x.lastPathId /\ y.paths = q
    BY DEF Session
  <2> HIDE DEF y
  <2>3. Successor(y, x)
    BY <1>1, <2>1, <2>2 DEF Successor
  <2> QED BY <2>3 DEF y
<1>5. ASSUME NEW i \in 0 .. SessionTimeout + 1
      PROVE  Successor([x EXCEPT !.idle = i, !.paths = q], x)
  <2> DEFINE y == [x EXCEPT !.idle = i, !.paths = q]
  <2>1. y \in Session
    BY <1>1, SessionUpdates, SessionFields
  <2>2. /\ y.client = x.client /\ y.credential = x.credential /\ y.closing = x.closing
        /\ y.lastPathId = x.lastPathId /\ y.paths = q
    BY DEF Session
  <2> HIDE DEF y
  <2>3. Successor(y, x)
    BY <1>1, <2>1, <2>2 DEF Successor
  <2> QED BY <2>3 DEF y
<1>6. ASSUME NEW b \in BOOLEAN
      PROVE  Successor([x EXCEPT !.paths = q, !.closing = @ \/ b], x)
  <2> DEFINE c == x.closing \/ b
             y == [x EXCEPT !.paths = q, !.closing = c]
  <2>1. c \in BOOLEAN /\ (x.closing => c)
    OBVIOUS
  <2> HIDE DEF c
  <2>2. y \in Session
    BY <1>1, <2>1, SessionUpdates, SessionFields
  <2>3. /\ y.client = x.client /\ y.credential = x.credential /\ y.closing = c
        /\ y.lastPathId = x.lastPathId /\ y.paths = q
    BY DEF Session
  <2> HIDE DEF y
  <2>4. Successor(y, x)
    BY <1>1, <2>1, <2>2, <2>3 DEF Successor
  <2> QED BY <2>4 DEF y, c
<1> QED BY <1>2, <1>3, <1>4, <1>5, <1>6

(* serverPath.healthy is the only field that the loops over paths store.    *)
LEMMA UnhealthyPaths ==
  ASSUME NEW q \in Paths, NEW ids PROVE SomeOf(Unhealthy(q, ids), q)
<1>1. /\ DOMAIN q \subseteq PathIds
      /\ \A p \in DOMAIN q : q[p] \in Path
  BY PathsAreFunctions
<1>2. ASSUME NEW p \in DOMAIN q
      PROVE  /\ Unhealthy(q, ids)[p] \in Path
             /\ Unhealthy(q, ids)[p].key = q[p].key
             /\ Unhealthy(q, ids)[p].remote = q[p].remote
  <2> DEFINE b == q[p].healthy /\ p \notin ids
  <2>1. Unhealthy(q, ids)[p] = [q[p] EXCEPT !.healthy = b]
    BY DEF Unhealthy
  <2>2. b \in BOOLEAN
    OBVIOUS
  <2> HIDE DEF b
  <2>3. q[p] \in Path
    BY <1>1
  <2>4. /\ [q[p] EXCEPT !.healthy = b] \in Path
        /\ [q[p] EXCEPT !.healthy = b].key = q[p].key
        /\ [q[p] EXCEPT !.healthy = b].remote = q[p].remote
    BY <2>2, <2>3, HealthStored
  <2> QED BY <2>1, <2>4
<1>3. /\ DOMAIN Unhealthy(q, ids) = DOMAIN q
      /\ Unhealthy(q, ids) = [p \in DOMAIN q |-> Unhealthy(q, ids)[p]]
  BY DEF Unhealthy
<1>4. Unhealthy(q, ids) \in Paths
  <2> DEFINE u == Unhealthy(q, ids)
  <2> HIDE DEF u
  <2>1. u \in [DOMAIN q -> Path]
    BY <1>2, <1>3 DEF u
  <2>2. u \in Paths
    BY <1>1, <2>1 DEF Paths
  <2> QED BY <2>2 DEF u
<1> QED BY <1>2, <1>3, <1>4 DEF SomeOf

(* expirePaths deletes paths and stores their health.                       *)
LEMMA ExpiredPaths ==
  ASSUME NEW q \in Paths PROVE SomeOf(Expire(q), q)
<1> DEFINE kept == {p \in DOMAIN q : q[p].age <= PathTimeout}
           u == Expire(q)
<1>1. /\ DOMAIN q \subseteq PathIds /\ kept \subseteq DOMAIN q
      /\ \A p \in DOMAIN q : q[p] \in Path
  BY PathsAreFunctions
<1>2. /\ DOMAIN u = kept /\ u = [p \in kept |-> u[p]]
      /\ \A p \in kept :
             u[p] = [q[p] EXCEPT !.healthy = @ /\ q[p].age <= HealthTimeout]
  BY DEF Expire
<1> HIDE DEF u, kept
<1>3. ASSUME NEW p \in kept
      PROVE  u[p] \in Path /\ u[p].key = q[p].key /\ u[p].remote = q[p].remote
  <2> DEFINE b == q[p].healthy /\ q[p].age <= HealthTimeout
  <2>1. u[p] = [q[p] EXCEPT !.healthy = b]
    BY <1>2
  <2>2. b \in BOOLEAN
    OBVIOUS
  <2> HIDE DEF b
  <2>3. q[p] \in Path
    BY <1>1
  <2>4. /\ [q[p] EXCEPT !.healthy = b] \in Path
        /\ [q[p] EXCEPT !.healthy = b].key = q[p].key
        /\ [q[p] EXCEPT !.healthy = b].remote = q[p].remote
    BY <2>2, <2>3, HealthStored
  <2> QED BY <2>1, <2>4
<1>4. u \in [kept -> Path]
  BY <1>2, <1>3
<1>5. u \in Paths
  BY <1>1, <1>4 DEF Paths
<1>6. SomeOf(u, q)
  BY <1>1, <1>2, <1>3, <1>5 DEF SomeOf
<1> QED BY <1>6 DEF u

(* Time passes for the paths of a session.                                  *)
LEMMA AgedPaths ==
  ASSUME NEW q \in Paths
  PROVE  SomeOf(Aged(q), q)
<1> DEFINE u == Aged(q)
<1>1. /\ DOMAIN q \subseteq PathIds
      /\ \A p \in DOMAIN q : q[p] \in Path
  BY PathsAreFunctions
<1>2. ASSUME NEW p \in DOMAIN q
      PROVE  u[p] \in Path /\ u[p].key = q[p].key /\ u[p].remote = q[p].remote
  <2>1. u[p] = [q[p] EXCEPT !.age = Older(@, PathTimeout)]
    BY DEF Aged
  <2> HIDE DEF u
  <2>2. q[p] \in Path
    BY <1>1
  <2>3. /\ [q[p] EXCEPT !.age = Older(@, PathTimeout)] \in Path
        /\ [q[p] EXCEPT !.age = Older(@, PathTimeout)].key = q[p].key
        /\ [q[p] EXCEPT !.age = Older(@, PathTimeout)].remote = q[p].remote
    BY <2>2, AgeStored
  <2> QED BY <2>1, <2>3
<1>3. DOMAIN u = DOMAIN q /\ u = [p \in DOMAIN q |-> u[p]]
  BY DEF Aged
<1> HIDE DEF u
<1>4. u \in [DOMAIN q -> Path]
  BY <1>2, <1>3
<1>5. u \in Paths
  BY <1>1, <1>4 DEF Paths
<1>6. SomeOf(u, q)
  BY <1>1, <1>2, <1>3, <1>5 DEF SomeOf
<1> QED BY <1>6 DEF u

(* A write to a path that fails, or succeeds, stores its health.            *)
LEMMA WrittenPath ==
  ASSUME NEW q \in Paths, NEW p \in DOMAIN q, NEW b \in BOOLEAN
  PROVE  SomeOf([q EXCEPT ![p].healthy = b], q)
<1> DEFINE u == [q EXCEPT ![p].healthy = b]
<1>1. /\ DOMAIN q \subseteq PathIds /\ q = [r \in DOMAIN q |-> q[r]]
      /\ \A r \in DOMAIN q : q[r] \in Path
  BY PathsAreFunctions
<1>2. /\ DOMAIN u = DOMAIN q /\ u = [r \in DOMAIN q |-> u[r]]
      /\ u[p] = [q[p] EXCEPT !.healthy = b]
      /\ \A r \in DOMAIN q \ {p} : u[r] = q[r]
  BY <1>1
<1> HIDE DEF u
<1>3. ASSUME NEW r \in DOMAIN q
      PROVE  u[r] \in Path /\ u[r].key = q[r].key /\ u[r].remote = q[r].remote
  <2>1. CASE r = p
    <3>1. q[p] \in Path
      BY <1>1
    <3>2. /\ [q[p] EXCEPT !.healthy = b] \in Path
          /\ [q[p] EXCEPT !.healthy = b].key = q[p].key
          /\ [q[p] EXCEPT !.healthy = b].remote = q[p].remote
      BY <3>1, HealthStored
    <3> QED BY <1>2, <2>1, <3>2
  <2>2. CASE r # p
    BY <1>1, <1>2, <2>2
  <2> QED BY <2>1, <2>2
<1>4. u \in [DOMAIN q -> Path]
  BY <1>2, <1>3
<1>5. u \in Paths
  BY <1>1, <1>4 DEF Paths
<1>6. SomeOf(u, q)
  BY <1>1, <1>2, <1>3, <1>5 DEF SomeOf
<1> QED BY <1>6 DEF u

(* What receiveLoop holds, by the section that it is about to enter.        *)
LEMMA ReceptionFields ==
  ASSUME NEW r \in Reception
  PROVE  /\ r.at = "authenticated" =>
                r.hello \in Hellos /\ r.from \in Addresses /\ r.credential \in Credentials
         /\ r.at = "registering" =>
                /\ r \in Registration
                /\ r.hello \in Hellos /\ r.from \in Addresses /\ r.credential \in Credentials
                /\ r.session \in SessionIds
         /\ r.at = "opened" =>
                /\ r.session \in SessionIds /\ r.path \in PathIds /\ r.from \in Addresses
                /\ r.kind \in {"traffic", "close"}
         /\ r.at = "removing" => r.session \in SessionIds /\ r.path \in PathIds
         /\ r.at = "terminating" => r.session \in SessionIds
         /\ r.at = "quieting" =>
                /\ r.session \in SessionIds /\ r.paths \subseteq PathIds
                /\ r.then \in {Idle} \union Registration
<1>1. CASE r = Idle
  BY <1>1 DEF Idle
<1>2. CASE r \in Registration
  BY <1>2 DEF Registration
<1>3. CASE r \in [at : {"authenticated"}, hello : Hellos, from : Addresses,
                  credential : Credentials]
  BY <1>3
<1>4. CASE r \in [at : {"opened"}, session : SessionIds, path : PathIds, from : Addresses,
                  kind : {"traffic", "close"}]
  BY <1>4
<1>5. CASE r \in [at : {"removing"}, session : SessionIds, path : PathIds]
  BY <1>5
<1>6. CASE r \in [at : {"terminating"}, session : SessionIds]
  BY <1>6
<1>7. CASE r \in [at : {"quieting"}, session : SessionIds, paths : SUBSET PathIds,
                  then : {Idle} \union Registration]
  BY <1>7
<1> QED BY <1>1, <1>2, <1>3, <1>4, <1>5, <1>6, <1>7 DEF Reception

(* What it may hold next.                                                   *)
LEMMA Receptions ==
  ASSUME NEW s \in SessionIds
  PROVE  /\ Idle \in Reception /\ Registration \subseteq Reception
         /\ \A h \in Hellos, from \in Addresses, c \in Credentials :
                /\ [at |-> "authenticated", hello |-> h, from |-> from, credential |-> c]
                       \in Reception
                /\ [at |-> "registering", hello |-> h, from |-> from, credential |-> c,
                    session |-> s] \in Registration
         /\ \A p \in PathIds, from \in Addresses, k \in {"traffic", "close"} :
                [at |-> "opened", session |-> s, path |-> p, from |-> from, kind |-> k]
                    \in Reception
         /\ \A p \in PathIds : [at |-> "removing", session |-> s, path |-> p] \in Reception
         /\ [at |-> "terminating", session |-> s] \in Reception
         /\ \A ids \in SUBSET PathIds, next \in {Idle} \union Registration :
                [at |-> "quieting", session |-> s, paths |-> ids, then |-> next] \in Reception
<1>1. Idle \in Reception /\ Registration \subseteq Reception
  BY DEF Reception
<1>2. ASSUME NEW h \in Hellos, NEW from \in Addresses, NEW c \in Credentials
      PROVE  /\ [at |-> "authenticated", hello |-> h, from |-> from, credential |-> c]
                    \in Reception
             /\ [at |-> "registering", hello |-> h, from |-> from, credential |-> c,
                 session |-> s] \in Registration
  BY DEF Reception, Registration
<1>3. ASSUME NEW p \in PathIds, NEW from \in Addresses, NEW k \in {"traffic", "close"}
      PROVE  [at |-> "opened", session |-> s, path |-> p, from |-> from, kind |-> k]
                 \in Reception
  BY DEF Reception
<1>4. ASSUME NEW p \in PathIds
      PROVE  [at |-> "removing", session |-> s, path |-> p] \in Reception
  BY DEF Reception
<1>5. [at |-> "terminating", session |-> s] \in Reception
  BY DEF Reception
<1>6. ASSUME NEW ids \in SUBSET PathIds, NEW next \in {Idle} \union Registration
      PROVE  [at |-> "quieting", session |-> s, paths |-> ids, then |-> next] \in Reception
  BY DEF Reception
<1> QED BY <1>1, <1>2, <1>3, <1>4, <1>5, <1>6

(* What a control plane call holds.                                         *)
LEMMA CallFields ==
  ASSUME NEW r \in Call
  PROVE  /\ r.at = "idle" => r = Idle
         /\ r.at = "terminating" => r.client \in Clients
         /\ r.at = "quieting" => r.session \in SessionIds /\ r.paths \subseteq PathIds
<1>1. CASE r = Idle
  BY <1>1 DEF Idle
<1>2. CASE r \in [at : {"terminating"}, client : Clients]
  BY <1>2
<1>3. CASE r \in [at : {"quieting"}, session : SessionIds, paths : SUBSET PathIds]
  BY <1>3
<1> QED BY <1>1, <1>2, <1>3 DEF Call

-----------------------------------------------------------------------------
(* How the session objects evolve *)

(* A session keeps its client and credential and stays closed; a path of it *)
(* was there before or is the one receiveLoop registers, and its address    *)
(* moves with the packet that receiveLoop has opened.                       *)
Evolves(s) ==
    /\ object'[s] # None
    /\ object'[s].client = object[s].client
    /\ object'[s].credential = object[s].credential
    /\ object[s].closing => object'[s].closing
    /\ \A p \in DOMAIN object'[s].paths :
           \/ /\ p \in DOMAIN object[s].paths
              /\ object'[s].paths[p].key = object[s].paths[p].key
              /\ \/ object'[s].paths[p].remote = object[s].paths[p].remote
                 \/ /\ receiver.at = "opened"
                    /\ receiver.session = s /\ receiver.path = p
                    /\ object'[s].paths[p].remote = receiver.from
           \/ /\ p \notin DOMAIN object[s].paths
              /\ receiver.at = "registering" /\ receiver.session = s
              /\ ~object[s].closing
              /\ object'[s].paths[p].key = receiver.credential.key

ObjectOK ==
    /\ object \in [SessionIds -> Session \union {None}]
    /\ \A s \in SessionIds : object[s] # None =>
           DOMAIN object[s].paths \subseteq 1 .. object[s].lastPathId

(* Sessions only evolve, and only getOrCreateSession makes one.              *)
Evolution ==
    /\ ObjectOK'
    /\ \A s \in SessionIds : object[s] # None => Evolves(s)
    /\ \A s \in SessionIds : object[s] = None => object'[s] = None \/ CreateSession(s)

(* Successors, for the sections that store one session or the whole table.  *)
LEMMA SuccessorsEvolve ==
  ASSUME TypeOK, object' = [s \in SessionIds |-> object'[s]],
         \A s \in SessionIds :
             IF object[s] = None THEN object'[s] = None ELSE Successor(object'[s], object[s])
  PROVE  Evolution
<1>1. ASSUME NEW s \in SessionIds, object[s] # None
      PROVE  /\ object'[s] \in Session
             /\ DOMAIN object'[s].paths \subseteq 1 .. object'[s].lastPathId
             /\ Evolves(s)
  <2> DEFINE old == object[s]
             new == object'[s]
  <2>1. old \in Session /\ DOMAIN old.paths \subseteq 1 .. old.lastPathId
    BY <1>1 DEF TypeOK
  <2>2. Successor(new, old)
    BY <1>1
  <2>3. new \in Session /\ SomeOf(new.paths, old.paths) /\ old.lastPathId <= new.lastPathId
    BY <2>2 DEF Successor
  <2>4. old.lastPathId \in Int /\ new.lastPathId \in Int
    BY <2>1, <2>3, SessionFields
  <2>5. DOMAIN new.paths \subseteq 1 .. new.lastPathId
    BY <2>1, <2>3, <2>4 DEF SomeOf
  <2>6. Evolves(s)
    BY <2>2, <2>3, NoneAssumption DEF Evolves, Successor, SomeOf
  <2> QED BY <2>3, <2>5, <2>6
<1>2. \A s \in SessionIds : object'[s] \in Session \union {None}
  BY <1>1
<1>3. ObjectOK'
  BY <1>1, <1>2 DEF ObjectOK
<1> QED BY <1>1, <1>3 DEF Evolution

(* ... one session.                                                         *)
LEMMA OneSuccessor ==
  ASSUME TypeOK, NEW s \in SessionIds, object[s] # None, NEW new,
         Successor(new, object[s]), object' = [object EXCEPT ![s] = new]
  PROVE  Evolution
<1>1. object' = [i \in SessionIds |-> object'[i]]
  BY DEF TypeOK
<1>2. ASSUME NEW i \in SessionIds
      PROVE  IF object[i] = None THEN object'[i] = None ELSE Successor(object'[i], object[i])
  <2>1. CASE i = s
    BY <2>1 DEF TypeOK
  <2>2. CASE i # s
    <3>1. object'[i] = object[i]
      BY <2>2 DEF TypeOK
    <3>2. ASSUME object[i] # None PROVE Successor(object[i], object[i])
      <4>1. object[i] \in Session
        BY <3>2 DEF TypeOK
      <4>2. SomeOf(object[i].paths, object[i].paths)
        BY <4>1, SessionFields DEF SomeOf
      <4> QED BY <4>1, <4>2, Successors
    <3> QED BY <3>1, <3>2
  <2> QED BY <2>1, <2>2
<1> QED BY <1>1, <1>2, SuccessorsEvolve

(* ... none.                                                                *)
LEMMA NoSuccessor ==
  ASSUME TypeOK, UNCHANGED object
  PROVE  Evolution
<1>1. object' = [i \in SessionIds |-> object'[i]]
  BY DEF TypeOK
<1>2. ASSUME NEW i \in SessionIds, object[i] # None
      PROVE  Successor(object[i], object[i])
  <2>1. object[i] \in Session
    BY <1>2 DEF TypeOK
  <2>2. SomeOf(object[i].paths, object[i].paths)
    BY <2>1, SessionFields DEF SomeOf
  <2> QED BY <2>1, <2>2, Successors
<1>3. \A i \in SessionIds :
          IF object[i] = None THEN object'[i] = None ELSE Successor(object'[i], object[i])
  BY <1>2
<1> QED BY <1>1, <1>3, SuccessorsEvolve

(* What the goroutines hold are sessions.                                   *)
LEMMA HeldSessions ==
  ASSUME IInv
  PROVE  /\ receiver.at \in {"opened", "removing", "terminating", "quieting", "registering"} =>
                receiver.session \in SessionIds /\ object[receiver.session] \in Session
         /\ \A t \in Threads : control[t].at = "quieting" =>
                control[t].session \in SessionIds /\ object[control[t].session] \in Session
         /\ \A c \in Clients : sessionByClient[c] # None =>
                sessionByClient[c] \in SessionIds /\ object[sessionByClient[c]] \in Session
         /\ \A s \in sessions : s \in SessionIds /\ object[s] \in Session
         /\ tunnel # None => tunnel \in SessionIds /\ object[tunnel] \in Session
<1> USE DEF IInv
<1>1. \A s \in SessionIds : object[s] # None => object[s] \in Session
  BY DEF TypeOK
<1>2. receiver.at = "registering" => Ahead = receiver
  BY DEF Ahead
<1>3. receiver.at \in {"opened", "removing", "terminating", "quieting", "registering"} =>
          receiver.session \in SessionIds /\ object[receiver.session] # None
  BY <1>2, ReceptionFields DEF TypeOK, HeldSessionsExist
<1>4. \A t \in Threads : control[t].at = "quieting" =>
          control[t].session \in SessionIds /\ object[control[t].session] # None
  BY CallFields DEF TypeOK, HeldSessionsExist
<1>5. \A s \in sessions : s \in SessionIds /\ object[s] # None
  BY DEF TypeOK, IndexesAgree
<1>6. \A c \in Clients : sessionByClient[c] # None => sessionByClient[c] \in sessions
  BY DEF IndexesAgree
<1>7. tunnel # None => tunnel \in SessionIds /\ object[tunnel] # None
  BY DEF TypeOK, HeldSessionsExist
<1> QED BY <1>1, <1>3, <1>4, <1>5, <1>6, <1>7

(* QuietReplaced and QuietPaths store the health of the paths.              *)
LEMMA QuietedEvolves ==
  ASSUME TypeOK, NEW s \in SessionIds, object[s] \in Session, NEW ids,
         object' = [object EXCEPT ![s].paths = Unhealthy(@, ids)]
  PROVE  Evolution
<1>1. SomeOf(Unhealthy(object[s].paths, ids), object[s].paths)
  BY SessionFields, UnhealthyPaths
<1>2. Successor([object[s] EXCEPT !.paths = Unhealthy(object[s].paths, ids)], object[s])
  BY <1>1, Successors
<1>3. object' = [object EXCEPT ![s] =
                    [object[s] EXCEPT !.paths = Unhealthy(object[s].paths, ids)]]
  BY DEF TypeOK
<1> QED BY <1>2, <1>3, OneSuccessor, NoneAssumption

(* markClosing under s.mu.                                                  *)
LEMMA ClosedEvolves ==
  ASSUME TypeOK, NEW s \in SessionIds, object[s] \in Session,
         object' = [object EXCEPT ![s] = Closed(@)]
  PROVE  Evolution
<1>1. SomeOf(object[s].paths, object[s].paths)
  BY SessionFields DEF SomeOf
<1>2. Successor(Closed(object[s]), object[s])
  BY <1>1, Successors
<1>3. object' = [object EXCEPT ![s] = Closed(object[s])]
  BY DEF TypeOK
<1> QED BY <1>2, <1>3, OneSuccessor, NoneAssumption

(* A write to a path, of a WELCOME or of a packet from the tunnel.          *)
LEMMA WrittenEvolves ==
  ASSUME TypeOK, NEW s \in SessionIds, object[s] \in Session,
         NEW p \in DOMAIN object[s].paths, NEW b \in BOOLEAN,
         object' = [object EXCEPT ![s].paths[p].healthy = b]
  PROVE  Evolution
<1> DEFINE q == [object[s].paths EXCEPT ![p].healthy = b]
<1>1. SomeOf(q, object[s].paths)
  BY SessionFields, WrittenPath
<1>2. object' = [object EXCEPT ![s] = [object[s] EXCEPT !.paths = q]]
  BY DEF TypeOK
<1> HIDE DEF q
<1>3. Successor([object[s] EXCEPT !.paths = q], object[s])
  BY <1>1, Successors
<1> QED BY <1>2, <1>3, OneSuccessor, NoneAssumption

(* A WELCOME is repeated on a path of the HELLO's nonce.                    *)
LEMMA RepeatWelcomeEvolves ==
  ASSUME IInv, NEW healthy \in BOOLEAN, RepeatWelcome(healthy)
  PROVE  Evolution
<1> DEFINE s == receiver.session
<1>1. TypeOK /\ s \in SessionIds /\ object[s] \in Session
  BY HeldSessions DEF RepeatWelcome, IInv
<1>2. PICK p \in PathsWithNonce(s, receiver.hello.nonce) : Answer(s, p, healthy)
  BY DEF RepeatWelcome
<1>3. p \in DOMAIN object[s].paths
  BY <1>2 DEF PathsWithNonce
<1>4. \/ object' = [object EXCEPT ![s].paths[p].healthy = healthy]
      \/ UNCHANGED object
  BY <1>2 DEF Answer
<1>5. CASE UNCHANGED object
  BY <1>1, <1>5, NoSuccessor
<1>6. CASE object' = [object EXCEPT ![s].paths[p].healthy = healthy]
  BY <1>1, <1>3, <1>6, WrittenEvolves
<1> QED BY <1>4, <1>5, <1>6

(* A packet from the tunnel is written to a healthy path.                   *)
LEMMA TunnelSendEvolves ==
  ASSUME IInv, TunnelSend
  PROVE  Evolution
<1>1. TypeOK /\ tunnel \in SessionIds /\ object[tunnel] \in Session
  BY HeldSessions DEF TunnelSend, IInv
<1>2. \/ UNCHANGED object
      \/ \E p \in Eligible(object[tunnel].paths), written \in BOOLEAN :
             object' = [object EXCEPT ![tunnel].paths[p].healthy = written]
  BY DEF TunnelSend
<1>3. CASE UNCHANGED object
  BY <1>1, <1>3, NoSuccessor
<1>4. ASSUME NEW p \in Eligible(object[tunnel].paths), NEW written \in BOOLEAN,
             object' = [object EXCEPT ![tunnel].paths[p].healthy = written]
      PROVE  Evolution
  <2>1. p \in DOMAIN object[tunnel].paths
    BY DEF Eligible
  <2> QED BY <1>1, <1>4, <2>1, WrittenEvolves
<1> QED BY <1>2, <1>3, <1>4

(* removePath leaves the other paths, and closes a session without any.     *)
LEMMA RemovePathEvolves ==
  ASSUME IInv, RemovePath
  PROVE  Evolution
<1> DEFINE s == receiver.session
           x == object[s]
           q == Restrict(x.paths, DOMAIN x.paths \ {receiver.path})
           b == DOMAIN q = {}
<1>1. TypeOK /\ s \in SessionIds /\ x \in Session
  BY HeldSessions DEF RemovePath, IInv
<1>2. /\ DOMAIN x.paths \subseteq PathIds
      /\ \A p \in DOMAIN x.paths : x.paths[p] \in Path
  BY <1>1, SessionFields, PathsAreFunctions
<1>3. /\ DOMAIN q = DOMAIN x.paths \ {receiver.path} /\ q = [p \in DOMAIN q |-> q[p]]
      /\ \A p \in DOMAIN q : q[p] = x.paths[p]
  BY DEF Restrict
<1>4. object' = [object EXCEPT ![s] = [x EXCEPT !.paths = q, !.closing = @ \/ b]]
  BY <1>1 DEF RemovePath, TypeOK
<1>5. b \in BOOLEAN
  OBVIOUS
<1> HIDE DEF q, b
<1>6. q \in Paths
  BY <1>2, <1>3, PathsAreFunctions
<1>7. SomeOf(q, x.paths)
  BY <1>3, <1>6 DEF SomeOf
<1>8. Successor([x EXCEPT !.paths = q, !.closing = @ \/ b], x)
  BY <1>1, <1>5, <1>7, Successors
<1> QED BY <1>1, <1>4, <1>8, OneSuccessor, NoneAssumption

(* addPath refuses a closing session; the path id is spent.                 *)
LEMMA RefusePathEvolves ==
  ASSUME IInv, RefusePath
  PROVE  Evolution
<1> DEFINE s == receiver.session
           x == object[s]
           id == x.lastPathId + 1
           y == [x EXCEPT !.lastPathId = id]
<1>1. TypeOK /\ s \in SessionIds /\ x \in Session
  BY HeldSessions DEF RefusePath, IInv
<1>2. CASE UNCHANGED object
  BY <1>1, <1>2, NoSuccessor
<1>3. CASE id \in PathIds /\ object' = [object EXCEPT ![s].lastPathId = @ + 1]
  <2>1. /\ x.lastPathId \in 0 .. MaxPathId /\ id \in 0 .. MaxPathId
        /\ x.paths \in Paths
    BY <1>1, <1>3, SessionFields, PathIdAssumption DEF PathIds
  <2>2. y \in Session
    BY <1>1, <2>1, SessionUpdates, SessionFields
  <2>3. /\ y.client = x.client /\ y.credential = x.credential /\ y.closing = x.closing
        /\ y.lastPathId = id /\ y.paths = x.paths
    BY <1>1 DEF Session
  <2>4. object' = [object EXCEPT ![s] = y]
    BY <1>1, <1>3 DEF TypeOK
  <2> HIDE DEF y
  <2>5. Successor(y, x)
    BY <2>1, <2>2, <2>3 DEF Successor, SomeOf
  <2> QED BY <1>1, <2>4, <2>5, OneSuccessor, NoneAssumption
<1> QED BY <1>2, <1>3 DEF RefusePath

(* A round of the janitor expires paths of every listed session.            *)
LEMMA JanitorEvolves ==
  ASSUME IInv, Janitor
  PROVE  Evolution
<1>1. TypeOK /\ \A s \in sessions : s \in SessionIds /\ object[s] \in Session
  BY HeldSessions DEF IInv
<1>2. object' = [s \in SessionIds |->
          IF s \in sessions THEN [object[s] EXCEPT !.paths = Expire(@)] ELSE object[s]]
  BY DEF Janitor
<1>3. object' = [s \in SessionIds |-> object'[s]]
  BY <1>2
<1>4. ASSUME NEW s \in SessionIds
      PROVE  IF object[s] = None THEN object'[s] = None ELSE Successor(object'[s], object[s])
  <2>1. CASE s \in sessions
    <3>1. object'[s] = [object[s] EXCEPT !.paths = Expire(object[s].paths)]
      BY <1>2, <2>1
    <3>2. SomeOf(Expire(object[s].paths), object[s].paths)
      BY <1>1, <2>1, SessionFields, ExpiredPaths
    <3>3. Successor([object[s] EXCEPT !.paths = Expire(object[s].paths)], object[s])
      BY <1>1, <2>1, <3>2, Successors
    <3> QED BY <1>1, <2>1, <3>1, <3>3, NoneAssumption
  <2>2. CASE s \notin sessions
    <3>1. object'[s] = object[s]
      BY <1>2, <2>2
    <3>2. ASSUME object[s] # None PROVE Successor(object[s], object[s])
      <4>1. object[s] \in Session
        BY <1>1, <3>2 DEF TypeOK
      <4>2. SomeOf(object[s].paths, object[s].paths)
        BY <4>1, SessionFields DEF SomeOf
      <4> QED BY <4>1, <4>2, Successors
    <3> QED BY <3>1, <3>2
  <2> QED BY <2>1, <2>2
<1> QED BY <1>1, <1>3, <1>4, SuccessorsEvolve

(* Time passes for every listed session.                                    *)
LEMMA TickEvolves ==
  ASSUME IInv, Tick
  PROVE  Evolution
<1>1. TypeOK /\ \A s \in sessions : s \in SessionIds /\ object[s] \in Session
  BY HeldSessions DEF IInv
<1>2. object' = [s \in SessionIds |->
          IF s \in sessions
          THEN [object[s] EXCEPT !.idle = Older(@, SessionTimeout), !.paths = Aged(@)]
          ELSE object[s]]
  BY DEF Tick
<1>3. object' = [s \in SessionIds |-> object'[s]]
  BY <1>2
<1>4. ASSUME NEW s \in SessionIds
      PROVE  IF object[s] = None THEN object'[s] = None ELSE Successor(object'[s], object[s])
  <2>1. CASE s \in sessions
    <3> DEFINE i == Older(object[s].idle, SessionTimeout)
               q == Aged(object[s].paths)
    <3>1. object[s] \in Session
      BY <1>1, <2>1
    <3>2. object'[s] = [object[s] EXCEPT !.idle = i, !.paths = q]
      <4>1. [object[s] EXCEPT !.idle = i].paths = object[s].paths
        BY <3>1 DEF Session
      <4> QED BY <1>2, <2>1, <4>1
    <3>3. SomeOf(q, object[s].paths)
      BY <3>1, SessionFields, AgedPaths
    <3>4. object[s].idle \in 0 .. SessionTimeout + 1
      BY <3>1, SessionFields
    <3>5. i \in 0 .. SessionTimeout + 1
      BY <3>4, TimeoutAssumption DEF Older
    <3> HIDE DEF i, q
    <3>6. Successor([object[s] EXCEPT !.idle = i, !.paths = q], object[s])
      BY <3>1, <3>3, <3>5, Successors
    <3> QED BY <3>1, <3>2, <3>6, NoneAssumption
  <2>2. CASE s \notin sessions
    <3>1. object'[s] = object[s]
      BY <1>2, <2>2
    <3>2. ASSUME object[s] # None PROVE Successor(object[s], object[s])
      <4>1. object[s] \in Session
        BY <1>1, <3>2 DEF TypeOK
      <4>2. SomeOf(object[s].paths, object[s].paths)
        BY <4>1, SessionFields DEF SomeOf
      <4> QED BY <4>1, <4>2, Successors
    <3> QED BY <3>1, <3>2
  <2> QED BY <2>1, <2>2
<1> QED BY <1>1, <1>3, <1>4, SuccessorsEvolve

(* A fresh session has no path yet.                                         *)
LEMMA FreshSession ==
  ASSUME NEW hello \in Hellos, NEW credential \in Credentials
  PROVE  /\ NewSession(hello, credential) \in Session
         /\ NewSession(hello, credential).client = hello.client
         /\ NewSession(hello, credential).credential = credential
         /\ NewSession(hello, credential).closing = FALSE
         /\ DOMAIN NewSession(hello, credential).paths = {}
<1>1. /\ 0 \in 0 .. SessionTimeout + 1 /\ 0 \in 0 .. MaxPathId
      /\ hello.client \in Clients
      /\ hello.instance \in {h.instance : h \in Hellos}
  BY TimeoutAssumption, PathIdAssumption, NoneAssumption
<1>2. <<>> \in UNION {[ids -> Path] : ids \in SUBSET PathIds} /\ DOMAIN <<>> = {}
  <2>1. DOMAIN <<>> = {} /\ <<>> = [p \in {} |-> <<>>[p]]
    OBVIOUS
  <2>2. <<>> \in [{} -> Path]
    BY <2>1
  <2> QED BY <2>1, <2>2
<1>3. NewSession(hello, credential) \in Session
  BY <1>1, <1>2 DEF NewSession, Session
<1>4. /\ NewSession(hello, credential).client = hello.client
      /\ NewSession(hello, credential).credential = credential
      /\ NewSession(hello, credential).closing = FALSE
      /\ NewSession(hello, credential).paths = <<>>
  BY DEF NewSession
<1> QED BY <1>2, <1>3, <1>4

(* What CreateSession stores: the new session, and the replaced one closed. *)
LEMMA CreateSessionEffect ==
  ASSUME IInv, NEW s \in SessionIds, CreateSession(s)
  PROVE  LET existing == sessionByClient[receiver.hello.client]
         IN  /\ receiver.hello \in Hellos /\ receiver.hello.client \in Clients
             /\ receiver.from \in Addresses /\ receiver.credential \in Credentials
             /\ existing \in SessionIds \union {None} /\ existing # s
             /\ existing # None => existing \in sessions
             /\ s \notin sessions
             /\ object' = [i \in SessionIds |-> object'[i]]
             /\ object'[s] = NewSession(receiver.hello, receiver.credential)
             /\ existing # None => object'[existing] = Closed(object[existing])
             /\ \A i \in SessionIds \ {s, existing} : object'[i] = object[i]
<1>1. TypeOK /\ IndexesAgree
  BY DEF IInv
<1>2. receiver.at = "authenticated" /\ object[s] = None
  BY DEF CreateSession
<1>3. /\ receiver.hello \in Hellos /\ receiver.hello.client \in Clients
      /\ receiver.from \in Addresses /\ receiver.credential \in Credentials
  BY <1>1, <1>2, ReceptionFields, NoneAssumption DEF TypeOK
<1>4. /\ sessionByClient[receiver.hello.client] \in SessionIds \union {None}
      /\ sessionByClient[receiver.hello.client] # None =>
             sessionByClient[receiver.hello.client] \in sessions
  BY <1>1, <1>3 DEF TypeOK, IndexesAgree
<1>5. s \notin sessions /\ sessionByClient[receiver.hello.client] # s
  BY <1>1, <1>2, <1>4, NoneAssumption DEF IndexesAgree
<1> QED BY <1>2, <1>3, <1>4, <1>5 DEF CreateSession

(* The new session and the closed one are sessions; the others stay.        *)
LEMMA CreateSessionEvolves ==
  ASSUME IInv, NEW s \in SessionIds, CreateSession(s)
  PROVE  Evolution
<1> DEFINE existing == sessionByClient[receiver.hello.client]
           fresh == NewSession(receiver.hello, receiver.credential)
<1>1. TypeOK /\ object[s] = None
  BY DEF IInv, CreateSession
<1>2. /\ receiver.hello \in Hellos /\ receiver.credential \in Credentials
      /\ existing \in SessionIds \union {None} /\ existing # s
      /\ existing # None => existing \in sessions
      /\ object' = [i \in SessionIds |-> object'[i]]
      /\ object'[s] = fresh
      /\ existing # None => object'[existing] = Closed(object[existing])
      /\ \A i \in SessionIds \ {s, existing} : object'[i] = object[i]
  BY CreateSessionEffect
<1>3. fresh \in Session /\ DOMAIN fresh.paths \subseteq 1 .. fresh.lastPathId
  BY <1>2, FreshSession
<1> HIDE DEF existing, fresh
<1>4. ASSUME NEW i \in SessionIds, object[i] # None
      PROVE  /\ object'[i] \in Session
             /\ DOMAIN object'[i].paths \subseteq 1 .. object'[i].lastPathId
             /\ Evolves(i)
  <2> DEFINE old == object[i]
             new == object'[i]
  <2>1. old \in Session /\ DOMAIN old.paths \subseteq 1 .. old.lastPathId
    BY <1>1, <1>4 DEF TypeOK
  <2>2. SomeOf(old.paths, old.paths)
    BY <2>1, SessionFields DEF SomeOf
  <2>3. new = old \/ new = Closed(old)
    BY <1>1, <1>2, <1>4, NoneAssumption
  <2>4. Successor(new, old)
    BY <2>1, <2>2, <2>3, Successors
  <2>5. new \in Session /\ SomeOf(new.paths, old.paths) /\ old.lastPathId <= new.lastPathId
    BY <2>4 DEF Successor
  <2>6. old.lastPathId \in Int /\ new.lastPathId \in Int
    BY <2>1, <2>5, SessionFields
  <2>7. DOMAIN new.paths \subseteq 1 .. new.lastPathId
    BY <2>1, <2>5, <2>6 DEF SomeOf
  <2>8. Evolves(i)
    BY <2>4, <2>5, NoneAssumption DEF Evolves, Successor, SomeOf
  <2> QED BY <2>5, <2>7, <2>8
<1>5. ASSUME NEW i \in SessionIds, object[i] = None
      PROVE  IF i = s THEN object'[i] = fresh ELSE object'[i] = None
  <2>1. i \notin sessions /\ i # existing
    BY <1>2, <1>5, HeldSessions, NoneAssumption
  <2> QED BY <1>2, <1>5, <2>1
<1>6. \A i \in SessionIds : object'[i] \in Session \union {None}
  BY <1>3, <1>4, <1>5
<1>7. ObjectOK'
  BY <1>2, <1>3, <1>4, <1>5, <1>6 DEF ObjectOK
<1> QED BY <1>4, <1>5, <1>7 DEF Evolution

(* handleHello's new path has the id after the last, so no path has it.     *)
LEMMA AddPathEvolves ==
  ASSUME IInv, NEW written \in BOOLEAN, AddPath(written)
  PROVE  Evolution
<1> DEFINE s == receiver.session
           x == object[s]
           id == x.lastPathId + 1
           made == [NewPath EXCEPT !.healthy = written]
           q == [p \in DOMAIN x.paths \union {id} |-> IF p = id THEN made ELSE x.paths[p]]
           y == [x EXCEPT !.lastPathId = id, !.idle = 0, !.paths = q]
<1>1. TypeOK /\ s \in SessionIds /\ x \in Session /\ receiver.at = "registering"
  BY HeldSessions DEF AddPath, IInv
<1>2. id \in PathIds /\ ~x.closing
  BY DEF AddPath, Addable
<1>3. /\ x.lastPathId \in 0 .. MaxPathId /\ x.paths \in Paths
      /\ DOMAIN x.paths \subseteq 1 .. x.lastPathId
  BY <1>1, SessionFields, NoneAssumption DEF TypeOK
<1>4. id \in 0 .. MaxPathId /\ id \notin DOMAIN x.paths /\ 0 \in 0 .. SessionTimeout + 1
  BY <1>2, <1>3, TimeoutAssumption, PathIdAssumption DEF PathIds
<1>5. made \in Path /\ made.key = receiver.credential.key
  <2>1. /\ receiver.hello \in Hellos /\ receiver.from \in Addresses
        /\ receiver.credential \in Credentials
    BY <1>1, ReceptionFields DEF TypeOK
  <2>2. /\ receiver.hello.nonce \in {h.nonce : h \in Hellos}
        /\ receiver.credential.key \in {o.key : o \in Offers}
    BY <2>1 DEF Credentials, CredentialOf
  <2>3. 0 \in 0 .. PathTimeout + 1
    BY TimeoutAssumption
  <2>4. made = [nonce |-> receiver.hello.nonce, key |-> receiver.credential.key,
                remote |-> receiver.from, healthy |-> written, age |-> 0]
    BY DEF NewPath
  <2> QED BY <2>1, <2>2, <2>3, <2>4 DEF Path
<1>6. object' = [object EXCEPT ![s] = y]
  <2>1. [[x EXCEPT !.lastPathId = id] EXCEPT !.idle = 0].paths = x.paths
    BY <1>1 DEF Session
  <2> QED BY <1>1, <2>1 DEF AddPath, TypeOK
<1> HIDE DEF made, id
<1>7. /\ \A p \in DOMAIN x.paths : x.paths[p] \in Path
      /\ DOMAIN x.paths \subseteq PathIds
  BY <1>3, PathsAreFunctions
<1>8. q \in Paths
  <2>1. q \in [DOMAIN x.paths \union {id} -> Path]
    BY <1>5, <1>7
  <2>2. DOMAIN x.paths \union {id} \in SUBSET PathIds
    BY <1>2, <1>7
  <2> HIDE DEF q
  <2> QED BY <2>1, <2>2 DEF Paths
<1>9. /\ DOMAIN q = DOMAIN x.paths \union {id} /\ q[id] = made
      /\ \A p \in DOMAIN x.paths : q[p] = x.paths[p]
  BY <1>4
<1> HIDE DEF q
<1>10. y \in Session
  BY <1>1, <1>4, <1>8, SessionUpdates
<1>11. /\ y.client = x.client /\ y.credential = x.credential /\ y.closing = x.closing
       /\ y.lastPathId = id /\ y.paths = q
  BY <1>1 DEF Session
<1>12. DOMAIN q \subseteq 1 .. id
  BY <1>3, <1>9, PathIdAssumption DEF id
<1> HIDE DEF y
<1>13. object' = [i \in SessionIds |-> object'[i]] /\ object'[s] = y
       /\ \A i \in SessionIds \ {s} : object'[i] = object[i]
  BY <1>1, <1>6 DEF TypeOK
<1>14. Evolves(s)
  BY <1>1, <1>2, <1>4, <1>5, <1>9, <1>10, <1>11, <1>13, NoneAssumption DEF Evolves
<1>15. ASSUME NEW i \in SessionIds \ {s}, object[i] # None PROVE Evolves(i)
  BY <1>13, <1>15 DEF Evolves
<1>16. ObjectOK'
  BY <1>1, <1>10, <1>11, <1>12, <1>13 DEF ObjectOK, TypeOK
<1>17. \A i \in SessionIds : object[i] = None => object'[i] = None
  BY <1>1, <1>13, NoneAssumption
<1> QED BY <1>14, <1>15, <1>16, <1>17 DEF Evolution

(* handleEncrypted stores the address that the packet came from.            *)
LEMMA AcceptPacketEvolves ==
  ASSUME IInv, NEW replied \in BOOLEAN, AcceptPacket(replied)
  PROVE  Evolution
<1> DEFINE s == receiver.session
           x == object[s]
           q == [p \in DOMAIN x.paths |->
                    IF p = receiver.path THEN Moved(x.paths[p], receiver.from, replied)
                    ELSE x.paths[p]]
           y == [x EXCEPT !.idle = 0, !.paths = q]
<1>1. TypeOK /\ s \in SessionIds /\ x \in Session /\ receiver.at = "opened"
  BY HeldSessions DEF AcceptPacket, IInv
<1>2. /\ x.lastPathId \in 0 .. MaxPathId /\ x.paths \in Paths
      /\ DOMAIN x.paths \subseteq 1 .. x.lastPathId
      /\ 0 \in 0 .. SessionTimeout + 1
  BY <1>1, SessionFields, NoneAssumption, TimeoutAssumption DEF TypeOK
<1>3. object' = [object EXCEPT ![s] = y]
  <2>1. [x EXCEPT !.idle = 0].paths = x.paths
    BY <1>1 DEF Session
  <2> QED BY <1>1, <2>1 DEF AcceptPacket, TypeOK
<1>4. /\ \A p \in DOMAIN x.paths : x.paths[p] \in Path
      /\ DOMAIN x.paths \subseteq PathIds
  BY <1>2, PathsAreFunctions
<1>5. receiver.from \in Addresses
  BY <1>1, ReceptionFields DEF TypeOK
<1>6. ASSUME NEW p \in DOMAIN x.paths
      PROVE  /\ q[p] \in Path /\ q[p].key = x.paths[p].key
             /\ \/ q[p].remote = x.paths[p].remote
                \/ /\ p = receiver.path
                   /\ q[p].remote = receiver.from
  <2>1. x.paths[p] \in Path
    BY <1>4
  <2>2. CASE p = receiver.path
    <3>1. q[p] = Moved(x.paths[p], receiver.from, replied)
      BY <2>2
    <3> HIDE DEF q
    <3>2. /\ Moved(x.paths[p], receiver.from, replied) \in Path
          /\ Moved(x.paths[p], receiver.from, replied).key = x.paths[p].key
          /\ Moved(x.paths[p], receiver.from, replied).remote = receiver.from
      BY <1>5, <2>1, RemoteStored
    <3> QED BY <2>2, <3>1, <3>2
  <2>3. CASE p # receiver.path
    BY <2>1, <2>3
  <2> QED BY <2>2, <2>3
<1>7. DOMAIN q = DOMAIN x.paths /\ q = [p \in DOMAIN x.paths |-> q[p]]
  OBVIOUS
<1> HIDE DEF q
<1>8. q \in Paths
  <2>1. q \in [DOMAIN x.paths -> Path]
    BY <1>6, <1>7
  <2> QED BY <1>4, <2>1 DEF Paths
<1>9. y \in Session
  BY <1>1, <1>2, <1>8, SessionUpdates
<1>10. /\ y.client = x.client /\ y.credential = x.credential /\ y.closing = x.closing
       /\ y.lastPathId = x.lastPathId /\ y.paths = q
  BY <1>1 DEF Session
<1> HIDE DEF y
<1>11. object' = [i \in SessionIds |-> object'[i]] /\ object'[s] = y
       /\ \A i \in SessionIds \ {s} : object'[i] = object[i]
  BY <1>1, <1>3 DEF TypeOK
<1>12. Evolves(s)
  BY <1>1, <1>6, <1>7, <1>9, <1>10, <1>11, NoneAssumption DEF Evolves
<1>13. ASSUME NEW i \in SessionIds \ {s}, object[i] # None PROVE Evolves(i)
  BY <1>11, <1>13 DEF Evolves
<1>14. ObjectOK'
  BY <1>1, <1>2, <1>7, <1>9, <1>10, <1>11 DEF ObjectOK, TypeOK
<1>15. \A i \in SessionIds : object[i] = None => object'[i] = None
  BY <1>1, <1>11, NoneAssumption
<1> QED BY <1>12, <1>13, <1>14, <1>15 DEF Evolution

(* receiveLoop closes and detaches the session whose last path it removed.  *)
LEMMA TerminateIfCurrentEvolves ==
  ASSUME IInv, TerminateIfCurrent
  PROVE  Evolution
<1>1. /\ TypeOK /\ receiver.session \in SessionIds
      /\ object[receiver.session] \in Session
  BY HeldSessions DEF TerminateIfCurrent, IInv
<1>2. CASE object' = [object EXCEPT ![receiver.session] = Closed(@)]
  BY <1>1, <1>2, ClosedEvolves
<1>3. CASE UNCHANGED object
  BY <1>1, <1>3, NoSuccessor
<1> QED BY <1>2, <1>3 DEF TerminateIfCurrent

(* terminateClientSession closes the session its client has at that moment. *)
LEMMA TerminateClientEvolves ==
  ASSUME IInv, NEW t \in Threads, TerminateClient(t)
  PROVE  Evolution
<1> DEFINE s == sessionByClient[control[t].client]
<1>1. TypeOK /\ control[t].client \in Clients
  BY CallFields DEF TerminateClient, IInv, TypeOK
<1>2. CASE s # None /\ object' = [object EXCEPT ![s] = Closed(@)]
  <2>1. s \in SessionIds /\ object[s] \in Session
    BY <1>1, <1>2, HeldSessions
  <2> QED BY <1>1, <1>2, <2>1, ClosedEvolves
<1>3. CASE UNCHANGED object
  BY <1>1, <1>3, NoSuccessor
<1> QED BY <1>2, <1>3 DEF TerminateClient, index

(* No section of any goroutine reopens a session, gives it another client   *)
(* or credential, or moves one of its paths without a packet.               *)
LEMMA ObjectsEvolve == IInv /\ [Next]_vars => Evolution
<1> SUFFICES ASSUME IInv, [Next]_vars
             PROVE  Evolution
  OBVIOUS
<1>1. TypeOK
  BY DEF IInv
<1>2. CASE UNCHANGED object
  BY <1>1, <1>2, NoSuccessor
<1>3. ASSUME HandleHello PROVE Evolution
  <2>1. ASSUME NEW s \in SessionIds, CreateSession(s) PROVE Evolution
    BY <2>1, CreateSessionEvolves
  <2>2. ASSUME NEW healthy \in BOOLEAN, RepeatWelcome(healthy) PROVE Evolution
    BY <2>2, RepeatWelcomeEvolves
  <2>3. ASSUME NEW written \in BOOLEAN, AddPath(written) PROVE Evolution
    BY <2>3, AddPathEvolves
  <2>4. ASSUME RefusePath PROVE Evolution
    BY <2>4, RefusePathEvolves
  <2>5. ASSUME NEW hello \in Hellos, NEW from \in Addresses, ReceiveHello(hello, from)
        PROVE  UNCHANGED object
    BY <2>5 DEF ReceiveHello
  <2>6. CredentialChanged \/ JoinSession => UNCHANGED object
    BY DEF CredentialChanged, JoinSession
  <2> QED BY <1>2, <1>3, <2>1, <2>2, <2>3, <2>4, <2>5, <2>6 DEF HandleHello
<1>4. ASSUME HandleEncrypted PROVE Evolution
  <2>1. ASSUME NEW s \in SessionIds, NEW p \in PathIds, NEW from \in Addresses,
               NEW kind \in {"traffic", "close"}, ReceivePacket(s, p, from, kind)
        PROVE  UNCHANGED object
    BY <2>1 DEF ReceivePacket
  <2>2. ASSUME NEW replied \in BOOLEAN, AcceptPacket(replied) PROVE Evolution
    BY <2>2, AcceptPacketEvolves
  <2> QED BY <1>2, <1>4, <2>1, <2>2 DEF HandleEncrypted
<1>5. ASSUME Finish PROVE Evolution
  <2>1. ASSUME QuietReplaced PROVE Evolution
    <3>1. receiver.session \in SessionIds /\ object[receiver.session] \in Session
      BY <2>1, HeldSessions DEF QuietReplaced
    <3>2. object' = [object EXCEPT ![receiver.session].paths = Unhealthy(@, receiver.paths)]
      BY <2>1 DEF QuietReplaced
    <3> QED BY <1>1, <3>1, <3>2, QuietedEvolves
  <2> QED BY <1>5, <2>1, RemovePathEvolves, TerminateIfCurrentEvolves DEF Finish
<1>6. ASSUME NEW t \in Threads, Control(t) PROVE Evolution
  <2>1. ASSUME NEW offer \in Offers, AuthorizeClient(t, offer) PROVE UNCHANGED object
    BY <2>1 DEF AuthorizeClient
  <2>2. ASSUME NEW client \in Clients, RevokeClient(t, client) PROVE UNCHANGED object
    BY <2>2 DEF RevokeClient
  <2>3. ASSUME TerminateClient(t) PROVE Evolution
    BY <2>3, TerminateClientEvolves
  <2>4. ASSUME QuietPaths(t) PROVE Evolution
    <3>1. control[t].session \in SessionIds /\ object[control[t].session] \in Session
      BY <2>4, HeldSessions DEF QuietPaths
    <3>2. object' = [object EXCEPT ![control[t].session].paths =
                        Unhealthy(@, control[t].paths)]
      BY <2>4 DEF QuietPaths
    <3> QED BY <1>1, <3>1, <3>2, QuietedEvolves
  <2> QED BY <1>2, <1>6, <2>1, <2>2, <2>3, <2>4 DEF Control
<1>7. ASSUME Janitor PROVE Evolution
  BY <1>7, JanitorEvolves
<1>8. ASSUME NEW ip \in Destinations, TunnelLookup(ip) PROVE UNCHANGED object
  BY <1>8 DEF TunnelLookup
<1>9. ASSUME TunnelSend PROVE Evolution
  BY <1>9, TunnelSendEvolves
<1>10. ASSUME Tick PROVE Evolution
  BY <1>10, TickEvolves
<1>11. UNCHANGED vars => UNCHANGED object
  BY DEF vars
<1> QED BY <1>2, <1>3, <1>4, <1>5, <1>6, <1>7, <1>8, <1>9, <1>10, <1>11 DEF Next

-----------------------------------------------------------------------------
(* Which sections store what *)

(* The three indexes and the gauge, under s.mu.                             *)
LEMMA IndexCases ==
  ASSUME [Next]_vars
  PROVE  \/ UNCHANGED index
         \/ \E s \in SessionIds : CreateSession(s)
         \/ TerminateIfCurrent
         \/ \E t \in Threads : TerminateClient(t)
         \/ Janitor
<1>1. HandleHello => UNCHANGED index \/ \E s \in SessionIds : CreateSession(s)
  BY DEF HandleHello, ReceiveHello, CredentialChanged, JoinSession, RepeatWelcome, AddPath,
         RefusePath
<1>2. HandleEncrypted => UNCHANGED index
  BY DEF HandleEncrypted, ReceivePacket, AcceptPacket
<1>3. Finish => UNCHANGED index \/ TerminateIfCurrent
  BY DEF Finish, RemovePath, QuietReplaced
<1>4. ASSUME NEW t \in Threads, Control(t)
      PROVE  UNCHANGED index \/ TerminateClient(t)
  BY <1>4 DEF Control, AuthorizeClient, RevokeClient, QuietPaths
<1>5. (\E ip \in Destinations : TunnelLookup(ip)) \/ TunnelSend \/ Tick => UNCHANGED index
  BY DEF TunnelLookup, TunnelSend, Tick
<1>6. UNCHANGED vars => UNCHANGED index
  BY DEF vars
<1> QED BY <1>1, <1>2, <1>3, <1>4, <1>5, <1>6 DEF Next

(* The credentials, under credentialMu.                                     *)
LEMMA CredentialCases ==
  ASSUME [Next]_vars
  PROVE  \/ UNCHANGED credentials
         \/ \E t \in Threads, offer \in Offers : AuthorizeClient(t, offer)
         \/ \E t \in Threads, client \in Clients : RevokeClient(t, client)
<1>1. HandleHello => UNCHANGED credentials
  BY DEF HandleHello, ReceiveHello, CredentialChanged, JoinSession, CreateSession,
         RepeatWelcome, AddPath, RefusePath
<1>2. HandleEncrypted => UNCHANGED credentials
  BY DEF HandleEncrypted, ReceivePacket, AcceptPacket
<1>3. Finish => UNCHANGED credentials
  BY DEF Finish, RemovePath, TerminateIfCurrent, QuietReplaced
<1>4. ASSUME NEW t \in Threads, Control(t)
      PROVE  \/ UNCHANGED credentials
             \/ \E offer \in Offers : AuthorizeClient(t, offer)
             \/ \E client \in Clients : RevokeClient(t, client)
  BY <1>4 DEF Control, TerminateClient, QuietPaths
<1>5. Janitor \/ (\E ip \in Destinations : TunnelLookup(ip)) \/ TunnelSend \/ Tick
          => UNCHANGED credentials
  BY DEF Janitor, TunnelLookup, TunnelSend, Tick
<1>6. UNCHANGED vars => UNCHANGED credentials
  BY DEF vars
<1> QED BY <1>1, <1>2, <1>3, <1>4, <1>5, <1>6 DEF Next

(* Where receiveLoop is.                                                    *)
LEMMA ReceiverCases ==
  ASSUME [Next]_vars
  PROVE  \/ UNCHANGED receiver
         \/ HandleHello
         \/ HandleEncrypted
         \/ Finish
<1>1. ASSUME NEW t \in Threads, Control(t)
      PROVE  UNCHANGED receiver
  BY <1>1 DEF Control, AuthorizeClient, RevokeClient, TerminateClient, QuietPaths
<1>2. Janitor \/ (\E ip \in Destinations : TunnelLookup(ip)) \/ TunnelSend \/ Tick
          => UNCHANGED receiver
  BY DEF Janitor, TunnelLookup, TunnelSend, Tick
<1>3. UNCHANGED vars => UNCHANGED receiver
  BY DEF vars
<1> QED BY <1>1, <1>2, <1>3 DEF Next

(* Where the control plane's calls are.                                     *)
LEMMA ControlCases ==
  ASSUME [Next]_vars
  PROVE  \/ UNCHANGED control
         \/ \E t \in Threads : Control(t)
<1>1. HandleHello => UNCHANGED control
  BY DEF HandleHello, ReceiveHello, CredentialChanged, JoinSession, CreateSession,
         RepeatWelcome, AddPath, RefusePath
<1>2. HandleEncrypted => UNCHANGED control
  BY DEF HandleEncrypted, ReceivePacket, AcceptPacket
<1>3. Finish => UNCHANGED control
  BY DEF Finish, RemovePath, TerminateIfCurrent, QuietReplaced
<1>4. Janitor \/ (\E ip \in Destinations : TunnelLookup(ip)) \/ TunnelSend \/ Tick
          => UNCHANGED control
  BY DEF Janitor, TunnelLookup, TunnelSend, Tick
<1>5. UNCHANGED vars => UNCHANGED control
  BY DEF vars
<1> QED BY <1>1, <1>2, <1>3, <1>4, <1>5 DEF Next

(* What tunLoop holds.                                                      *)
LEMMA TunnelCases ==
  ASSUME [Next]_vars
  PROVE  \/ UNCHANGED tunnel
         \/ \E ip \in Destinations : TunnelLookup(ip)
         \/ TunnelSend
<1>1. HandleHello => UNCHANGED tunnel
  BY DEF HandleHello, ReceiveHello, CredentialChanged, JoinSession, CreateSession,
         RepeatWelcome, AddPath, RefusePath
<1>2. HandleEncrypted => UNCHANGED tunnel
  BY DEF HandleEncrypted, ReceivePacket, AcceptPacket
<1>3. Finish => UNCHANGED tunnel
  BY DEF Finish, RemovePath, TerminateIfCurrent, QuietReplaced
<1>4. ASSUME NEW t \in Threads, Control(t)
      PROVE  UNCHANGED tunnel
  BY <1>4 DEF Control, AuthorizeClient, RevokeClient, TerminateClient, QuietPaths
<1>5. Janitor \/ Tick => UNCHANGED tunnel
  BY DEF Janitor, Tick
<1>6. UNCHANGED vars => UNCHANGED tunnel
  BY DEF vars
<1> QED BY <1>1, <1>2, <1>3, <1>4, <1>5, <1>6 DEF Next

-----------------------------------------------------------------------------
(* Types *)

(* A credential comes from an offer to its client.                          *)
LEMMA CredentialsStep ==
  ASSUME IInv, [Next]_vars
  PROVE  /\ (credentials \in [Clients -> Credentials \union {None}])'
         /\ CredentialsOffered'
<1>1. /\ credentials \in [Clients -> Credentials \union {None}]
      /\ CredentialsOffered
  BY DEF IInv, TypeOK
<1>2. \A c \in Clients :
          credentials'[c] # None =>
              credentials'[c] \in Credentials /\ Offered(c, credentials'[c])
  <2>1. CASE UNCHANGED credentials
    BY <1>1, <2>1 DEF CredentialsOffered
  <2>2. ASSUME NEW t \in Threads, NEW offer \in Offers, AuthorizeClient(t, offer)
        PROVE  \A c \in Clients : credentials'[c] # None =>
                   credentials'[c] \in Credentials /\ Offered(c, credentials'[c])
    BY <1>1, <2>2, NoneAssumption DEF CredentialsOffered, AuthorizeClient, Offered, Credentials
  <2>3. ASSUME NEW t \in Threads, NEW client \in Clients, RevokeClient(t, client)
        PROVE  \A c \in Clients : credentials'[c] # None =>
                   credentials'[c] \in Credentials /\ Offered(c, credentials'[c])
    BY <1>1, <2>3 DEF CredentialsOffered, RevokeClient
  <2> QED BY <2>1, <2>2, <2>3, CredentialCases
<1>3. credentials' = [c \in Clients |-> credentials'[c]]
  <2>1. CASE UNCHANGED credentials
    BY <1>1, <2>1
  <2>2. ASSUME NEW t \in Threads, NEW offer \in Offers, AuthorizeClient(t, offer)
        PROVE  credentials' = [c \in Clients |-> credentials'[c]]
    BY <1>1, <2>2 DEF AuthorizeClient
  <2>3. ASSUME NEW t \in Threads, NEW client \in Clients, RevokeClient(t, client)
        PROVE  credentials' = [c \in Clients |-> credentials'[c]]
    BY <1>1, <2>3 DEF RevokeClient
  <2> QED BY <2>1, <2>2, <2>3, CredentialCases
<1>4. (credentials \in [Clients -> Credentials \union {None}])'
  BY <1>2, <1>3
<1>5. ASSUME NEW s \in SessionIds, object'[s] # None
      PROVE  Offered(object'[s].client, object'[s].credential)
  <2>1. CASE object[s] # None
    BY <1>1, <2>1, ObjectsEvolve DEF CredentialsOffered, Evolution, Evolves
  <2>2. CASE CreateSession(s)
    <3>1. /\ receiver.hello \in Hellos /\ receiver.credential \in Credentials
          /\ receiver.hello.client \in Clients
          /\ object'[s] = NewSession(receiver.hello, receiver.credential)
      BY <2>2, CreateSessionEffect
    <3>2. credentials[receiver.hello.client] = receiver.credential
      BY <2>2 DEF CreateSession, StillAuthorized
    <3>3. /\ object'[s].client = receiver.hello.client
          /\ object'[s].credential = receiver.credential
      BY <3>1 DEF NewSession
    <3>4. Offered(receiver.hello.client, credentials[receiver.hello.client])
      BY <1>1, <3>1, <3>2, NoneAssumption DEF CredentialsOffered
    <3> QED BY <3>2, <3>3, <3>4
  <2> QED BY <1>5, <2>1, <2>2, ObjectsEvolve DEF Evolution
<1> QED BY <1>2, <1>4, <1>5 DEF CredentialsOffered

(* receiveLoop goes on with what it holds.                                  *)
LEMMA ReceiverTyped ==
  ASSUME IInv, [Next]_vars
  PROVE  receiver' \in Reception
<1>1. receiver \in Reception /\ TypeOK
  BY DEF IInv, TypeOK
<1>2. ASSUME NEW s \in SessionIds
      PROVE  QuietingThen(s, Idle) \in Reception \/ object[s] \notin Session
  <2>1. ASSUME object[s] \in Session PROVE DOMAIN object[s].paths \in SUBSET PathIds
    BY <2>1, SessionFields, PathsAreFunctions
  <2> QED BY <2>1, Receptions DEF QuietingThen
<1>3. ASSUME HandleHello PROVE receiver' \in Reception
  <2>1. ASSUME NEW hello \in Hellos, NEW from \in Addresses, ReceiveHello(hello, from)
        PROVE  receiver' \in Reception
    <3>1. hello.client \in Clients /\ credentials[hello.client] # None
      BY <2>1, NoneAssumption DEF ReceiveHello
    <3>2. credentials[hello.client] \in Credentials
      BY <1>1, <3>1 DEF TypeOK
    <3> QED BY <2>1, <3>2 DEF ReceiveHello, Reception
  <2>2. ASSUME JoinSession PROVE receiver' \in Reception
    <3> DEFINE s == sessionByClient[receiver.hello.client]
    <3>1. /\ receiver.hello \in Hellos /\ receiver.from \in Addresses
          /\ receiver.credential \in Credentials
      BY <1>1, <2>2, ReceptionFields DEF JoinSession
    <3>2. s \in SessionIds
      BY <1>1, <2>2, <3>1, NoneAssumption DEF JoinSession, TypeOK
    <3> QED BY <2>2, <3>1, <3>2, Receptions DEF JoinSession, Registering
  <2>3. ASSUME NEW s \in SessionIds, CreateSession(s) PROVE receiver' \in Reception
    <3> DEFINE existing == sessionByClient[receiver.hello.client]
    <3>1. /\ receiver.hello \in Hellos /\ receiver.from \in Addresses
          /\ receiver.credential \in Credentials /\ receiver.hello.client \in Clients
          /\ existing \in SessionIds \union {None}
      BY <2>3, CreateSessionEffect
    <3>2. Registering(s) \in Registration
      BY <3>1, Receptions DEF Registering
    <3>3. CASE existing = None
      BY <2>3, <3>2, <3>3, Receptions DEF CreateSession
    <3>4. CASE existing # None
      <4>1. existing \in SessionIds /\ object[existing] \in Session
        BY <3>1, <3>4, HeldSessions
      <4>2. DOMAIN object[existing].paths \in SUBSET PathIds
        BY <4>1, SessionFields, PathsAreFunctions
      <4>3. receiver' = QuietingThen(existing, Registering(s))
        BY <2>3, <3>4 DEF CreateSession
      <4> QED BY <3>2, <4>1, <4>2, <4>3, Receptions DEF QuietingThen
    <3> QED BY <3>3, <3>4
  <2>4. ASSUME NEW written \in BOOLEAN, AddPath(written) PROVE receiver' \in Reception
    <3>1. receiver.session \in SessionIds
      BY <2>4, HeldSessions DEF AddPath
    <3>2. object[receiver.session].lastPathId + 1 \in PathIds
      BY <2>4 DEF AddPath
    <3> QED BY <2>4, <3>1, <3>2 DEF AddPath, Reception
  <2>5. CredentialChanged \/ RefusePath \/ (\E healthy \in BOOLEAN : RepeatWelcome(healthy))
            => receiver' = Idle
    BY DEF CredentialChanged, RefusePath, RepeatWelcome
  <2>6. Idle \in Reception
    BY DEF Reception
  <2> QED BY <1>3, <2>1, <2>2, <2>3, <2>4, <2>5, <2>6 DEF HandleHello
<1>4. ASSUME HandleEncrypted PROVE receiver' \in Reception
  <2>1. ASSUME NEW s \in SessionIds, NEW p \in PathIds, NEW from \in Addresses,
               NEW kind \in {"traffic", "close"}, ReceivePacket(s, p, from, kind)
        PROVE  receiver' \in Reception
    BY <2>1, Receptions DEF ReceivePacket
  <2>2. ASSUME NEW replied \in BOOLEAN, AcceptPacket(replied) PROVE receiver' \in Reception
    <3>1. receiver.session \in SessionIds /\ receiver.path \in PathIds
      BY <1>1, <2>2, ReceptionFields DEF AcceptPacket
    <3> QED BY <2>2, <3>1 DEF AcceptPacket, Reception
  <2> QED BY <1>4, <2>1, <2>2 DEF HandleEncrypted
<1>5. ASSUME Finish PROVE receiver' \in Reception
  <2>1. ASSUME RemovePath PROVE receiver' \in Reception
    <3>1. receiver.session \in SessionIds
      BY <2>1, HeldSessions DEF RemovePath
    <3> QED BY <2>1, <3>1, Receptions DEF RemovePath
  <2>2. ASSUME TerminateIfCurrent PROVE receiver' \in Reception
    <3>1. receiver.session \in SessionIds /\ object[receiver.session] \in Session
      BY <2>2, HeldSessions DEF TerminateIfCurrent
    <3> QED BY <1>2, <2>2, <3>1 DEF TerminateIfCurrent, Reception
  <2>3. ASSUME QuietReplaced PROVE receiver' \in Reception
    BY <1>1, <2>3, ReceptionFields DEF QuietReplaced, Reception
  <2> QED BY <1>5, <2>1, <2>2, <2>3 DEF Finish
<1> QED BY <1>1, <1>3, <1>4, <1>5, ReceiverCases

(* ... the control plane's calls too.                                       *)
LEMMA ControlTyped ==
  ASSUME IInv, [Next]_vars
  PROVE  control' \in [Threads -> Call]
<1>1. control \in [Threads -> Call] /\ TypeOK
  BY DEF IInv, TypeOK
<1>2. ASSUME NEW t \in Threads, Control(t)
      PROVE  \E call \in Call : control' = [control EXCEPT ![t] = call]
  <2>0. Idle \in Call
    BY DEF Call
  <2>1. ASSUME NEW client \in Clients
        PROVE  [at |-> "terminating", client |-> client] \in Call
    BY DEF Call
  <2>2. ASSUME NEW offer \in Offers, AuthorizeClient(t, offer)
        PROVE  \E call \in Call : control' = [control EXCEPT ![t] = call]
    <3>1. offer.client \in Clients
      BY NoneAssumption
    <3>2. \/ control' = [control EXCEPT ![t] = Idle]
          \/ control' = [control EXCEPT ![t] = [at |-> "terminating", client |-> offer.client]]
      BY <2>2 DEF AuthorizeClient
    <3> QED BY <2>0, <2>1, <3>1, <3>2
  <2>3. ASSUME NEW client \in Clients, RevokeClient(t, client)
        PROVE  \E call \in Call : control' = [control EXCEPT ![t] = call]
    BY <2>1, <2>3 DEF RevokeClient
  <2>4. ASSUME TerminateClient(t)
        PROVE  \E call \in Call : control' = [control EXCEPT ![t] = call]
    <3> DEFINE s == sessionByClient[control[t].client]
    <3>1. control[t].client \in Clients
      BY <1>1, <2>4, CallFields DEF TerminateClient
    <3>2. CASE control' = [control EXCEPT ![t] = Idle]
      BY <2>0, <3>2
    <3>3. CASE /\ s # None
               /\ control' = [control EXCEPT ![t] =
                      [at |-> "quieting", session |-> s, paths |-> DOMAIN object[s].paths]]
      <4>1. s \in SessionIds /\ object[s] \in Session
        BY <3>1, <3>3, HeldSessions
      <4>2. DOMAIN object[s].paths \in SUBSET PathIds
        BY <4>1, SessionFields, PathsAreFunctions
      <4>3. [at |-> "quieting", session |-> s, paths |-> DOMAIN object[s].paths] \in Call
        BY <4>1, <4>2 DEF Call
      <4> QED BY <3>3, <4>3
    <3> QED BY <2>4, <3>2, <3>3 DEF TerminateClient
  <2>5. ASSUME QuietPaths(t)
        PROVE  \E call \in Call : control' = [control EXCEPT ![t] = call]
    BY <2>0, <2>5 DEF QuietPaths
  <2> QED BY <1>2, <2>2, <2>3, <2>4, <2>5 DEF Control
<1> QED BY <1>1, <1>2, ControlCases

-----------------------------------------------------------------------------
(* The indexes *)

(* Sessions that leave the table, with every entry that leads to them.      *)
Unlists(gone) ==
    /\ gone \subseteq sessions
    /\ sessions' = sessions \ gone
    /\ sessionByClient' = [c \in Clients |->
           IF \E s \in gone : object[s].client = c THEN None ELSE sessionByClient[c]]
    /\ sessionByIP' = [i \in IPs |->
           IF \E s \in gone : object[s].credential.ip = i THEN None ELSE sessionByIP[i]]
    /\ activeSessions' = activeSessions - Cardinality(gone)

(* detachSessionLocked finds its session in both maps, or it is not listed. *)
LEMMA DetachUnlists ==
  ASSUME IInv, NEW s \in SessionIds, Detach(s)
  PROVE  UNCHANGED index \/ Unlists({s})
<1>1. TypeOK /\ IndexesAgree
  BY DEF IInv
<1>2. CASE s \notin sessions
  BY <1>2 DEF Detach
<1>3. CASE s \in sessions
  <2>1. /\ object[s] \in Session
        /\ sessionByClient[object[s].client] = s
        /\ sessionByIP[object[s].credential.ip] = s
    BY <1>1, <1>3, HeldSessions DEF IndexesAgree
  <2>2. sessionByClient' = [c \in Clients |->
            IF \E x \in {s} : object[x].client = c THEN None ELSE sessionByClient[c]]
    BY <1>1, <1>3, <2>1 DEF Detach, ByClientWithout, TypeOK
  <2>3. sessionByIP' = [i \in IPs |->
            IF \E x \in {s} : object[x].credential.ip = i THEN None ELSE sessionByIP[i]]
    BY <1>1, <1>3, <2>1 DEF Detach, ByIPWithout, TypeOK
  <2>4. Cardinality({s}) = 1
    BY FS_Singleton
  <2> QED BY <1>3, <2>2, <2>3, <2>4 DEF Detach, Unlists
<1> QED BY <1>2, <1>3

(* The table changes by a new session or by sessions that leave.            *)
LEMMA IndexChanges ==
  ASSUME IInv, [Next]_vars
  PROVE  \/ UNCHANGED index
         \/ \E s \in SessionIds : CreateSession(s)
         \/ \E gone \in SUBSET SessionIds : Unlists(gone)
<1>1. sessions \subseteq SessionIds
  BY DEF IInv, TypeOK
<1>2. CASE TerminateIfCurrent
  <2>1. receiver.session \in SessionIds /\ Detach(receiver.session)
    BY <1>2, HeldSessions DEF TerminateIfCurrent
  <2> QED BY <2>1, DetachUnlists
<1>3. ASSUME NEW t \in Threads, TerminateClient(t)
      PROVE  UNCHANGED index \/ \E gone \in SUBSET SessionIds : Unlists(gone)
  <2> DEFINE s == sessionByClient[control[t].client]
  <2>1. control[t].client \in Clients
    BY <1>3, CallFields DEF TerminateClient, IInv, TypeOK
  <2>2. CASE s # None /\ Detach(s)
    <3>1. s \in SessionIds
      BY <2>1, <2>2, HeldSessions
    <3> QED BY <2>2, <3>1, DetachUnlists
  <2> QED BY <1>3, <2>2 DEF TerminateClient
<1>4. CASE Janitor
  <2>1. Overdue \in SUBSET sessions
    BY DEF Overdue
  <2>2. Unlists(Overdue)
    BY <1>4, <2>1 DEF Unlists, Janitor, ByIPAfter
  <2> QED BY <1>1, <2>1, <2>2
<1> QED BY <1>2, <1>3, <1>4, IndexCases

(* Clients, credentials and addresses of what the indexes hold.             *)
LEMMA IndexesTyped ==
  ASSUME IInv, [Next]_vars
  PROVE  /\ sessions' \subseteq SessionIds
         /\ sessionByClient' \in [Clients -> SessionIds \union {None}]
         /\ sessionByIP' \in [IPs -> SessionIds \union {None}]
         /\ activeSessions' \in Int
         /\ IsFiniteSet(sessions)'
<1>1. /\ TypeOK /\ IsFiniteSet(sessions)
  BY DEF IInv
<1>2. CASE UNCHANGED index
  BY <1>1, <1>2 DEF index, TypeOK
<1>3. ASSUME NEW s \in SessionIds, CreateSession(s)
      PROVE  /\ sessions' \subseteq SessionIds
             /\ sessionByClient' \in [Clients -> SessionIds \union {None}]
             /\ sessionByIP' \in [IPs -> SessionIds \union {None}]
             /\ activeSessions' \in Int
             /\ IsFiniteSet(sessions)'
  <2> DEFINE existing == sessionByClient[receiver.hello.client]
             byIP == IF existing \in sessions THEN ByIPWithout(existing) ELSE sessionByIP
  <2>1. /\ sessions' = (sessions \ {existing}) \union {s}
        /\ sessionByClient' = [sessionByClient EXCEPT ![receiver.hello.client] = s]
        /\ sessionByIP' = [byIP EXCEPT ![receiver.credential.ip] = s]
        /\ activeSessions' = activeSessions + (IF existing \in sessions THEN 0 ELSE 1)
    BY <1>3 DEF CreateSession
  <2>2. byIP \in [IPs -> SessionIds \union {None}]
    BY <1>1 DEF TypeOK, ByIPWithout
  <2>3. IsFiniteSet(sessions \ {existing})
    BY <1>1, FS_RemoveElement
  <2>4. IsFiniteSet((sessions \ {existing}) \union {s})
    BY <2>3, FS_AddElement
  <2> HIDE DEF byIP
  <2>5. sessions' \subseteq SessionIds /\ IsFiniteSet(sessions)'
    BY <1>1, <2>1, <2>4 DEF TypeOK
  <2>6. /\ sessionByClient' \in [Clients -> SessionIds \union {None}]
        /\ sessionByIP' \in [IPs -> SessionIds \union {None}]
    BY <1>1, <2>1, <2>2 DEF TypeOK
  <2>7. activeSessions' \in Int
    BY <1>1, <2>1 DEF TypeOK
  <2> QED BY <2>5, <2>6, <2>7
<1>4. ASSUME NEW gone \in SUBSET SessionIds, Unlists(gone)
      PROVE  /\ sessions' \subseteq SessionIds
             /\ sessionByClient' \in [Clients -> SessionIds \union {None}]
             /\ sessionByIP' \in [IPs -> SessionIds \union {None}]
             /\ activeSessions' \in Int
             /\ IsFiniteSet(sessions)'
  <2>1. gone \in SUBSET sessions
    BY <1>4 DEF Unlists
  <2>2. IsFiniteSet(gone) /\ IsFiniteSet(sessions \ gone)
    BY <1>1, <2>1, FS_Subset, FS_Difference
  <2>3. Cardinality(gone) \in Nat
    BY <2>2, FS_CardinalityType
  <2> QED BY <1>1, <1>4, <2>2, <2>3 DEF Unlists, TypeOK
<1> QED BY <1>2, <1>3, <1>4, IndexChanges

(* Every field, index and goroutine keeps its type.                         *)
LEMMA TypeStep == IInv /\ [Next]_vars => TypeOK'
<1> SUFFICES ASSUME IInv, [Next]_vars
             PROVE  TypeOK'
  OBVIOUS
<1>1. tunnel' \in SessionIds \union {None}
  <2>1. ASSUME NEW ip \in Destinations, TunnelLookup(ip)
        PROVE  tunnel' \in SessionIds \union {None}
    BY <2>1 DEF TunnelLookup, IInv, TypeOK, IPs
  <2> QED BY <2>1, TunnelCases DEF TunnelSend, IInv, TypeOK
<1> QED BY <1>1, CredentialsStep, IndexesTyped, ObjectsEvolve, ReceiverTyped, ControlTyped
        DEF TypeOK, Evolution, ObjectOK

(* The gauge moves with the table.                                          *)
LEMMA GaugeStep == IInv /\ [Next]_vars => GaugeExact'
<1> SUFFICES ASSUME IInv, [Next]_vars
             PROVE  GaugeExact'
  OBVIOUS
<1>1. TypeOK /\ GaugeExact /\ IsFiniteSet(sessions)
  BY DEF IInv
<1>2. Cardinality(sessions) \in Nat
  BY <1>1, FS_CardinalityType
<1>3. CASE UNCHANGED index
  BY <1>1, <1>3 DEF index, GaugeExact
<1>4. ASSUME NEW s \in SessionIds, CreateSession(s)
      PROVE  GaugeExact'
  <2> DEFINE existing == sessionByClient[receiver.hello.client]
             others == sessions \ {existing}
  <2>1. s \notin sessions /\ existing # s
    BY <1>4, CreateSessionEffect
  <2>2. /\ sessions' = others \union {s}
        /\ activeSessions' = activeSessions + (IF existing \in sessions THEN 0 ELSE 1)
    BY <1>4 DEF CreateSession
  <2>3. /\ IsFiniteSet(others)
        /\ Cardinality(others) = IF existing \in sessions THEN Cardinality(sessions) - 1
                                 ELSE Cardinality(sessions)
    BY <1>1, FS_RemoveElement
  <2>4. s \notin others
    BY <2>1
  <2> HIDE DEF others, existing
  <2>5. Cardinality(others \union {s}) = Cardinality(others) + 1
    BY <2>3, <2>4, FS_AddElement
  <2> QED BY <1>1, <1>2, <2>2, <2>3, <2>5 DEF GaugeExact
<1>5. ASSUME NEW gone \in SUBSET SessionIds, Unlists(gone)
      PROVE  GaugeExact'
  <2>1. gone \in SUBSET sessions /\ sessions \intersect gone = gone
    BY <1>5 DEF Unlists
  <2>2. IsFiniteSet(gone)
    BY <1>1, <2>1, FS_Subset
  <2>3. Cardinality(gone) \in Nat
    BY <2>2, FS_CardinalityType
  <2>4. Cardinality(sessions \ gone) = Cardinality(sessions) - Cardinality(gone)
    BY <1>1, <2>1, FS_Difference
  <2> QED BY <1>1, <1>2, <1>5, <2>3, <2>4 DEF GaugeExact, Unlists
<1> QED BY <1>3, <1>4, <1>5, IndexChanges

(* An index entry is stored with its session and deleted with it; a new     *)
(* session's address was nobody else's.                                     *)
LEMMA IndexesStep == IInv /\ [Next]_vars => IndexesAgree'
<1> SUFFICES ASSUME IInv, [Next]_vars
             PROVE  IndexesAgree'
  OBVIOUS
<1>1. TypeOK /\ IndexesAgree /\ CredentialsOffered
  BY DEF IInv
<1>2. \A s \in SessionIds : object[s] # None =>
          /\ object'[s] # None
          /\ object'[s].client = object[s].client
          /\ object'[s].credential = object[s].credential
  BY ObjectsEvolve DEF Evolution, Evolves
<1>3. \A s \in sessions : s \in SessionIds /\ object[s] # None
  BY <1>1 DEF TypeOK, IndexesAgree
<1>4. CASE UNCHANGED index
  BY <1>1, <1>2, <1>3, <1>4 DEF index, IndexesAgree
<1>5. ASSUME NEW gone \in SUBSET SessionIds, Unlists(gone)
      PROVE  IndexesAgree'
  <2>1. ASSUME NEW s \in sessions'
        PROVE  /\ object'[s] # None
               /\ sessionByClient'[object'[s].client] = s
               /\ sessionByIP'[object'[s].credential.ip] = s
    <3>1. s \in sessions /\ s \notin gone
      BY <1>5 DEF Unlists
    <3>2. /\ object[s] \in Session
          /\ sessionByClient[object[s].client] = s
          /\ sessionByIP[object[s].credential.ip] = s
      BY <1>1, <3>1, HeldSessions DEF IndexesAgree
    <3>3. object[s].client \in Clients /\ object[s].credential.ip \in IPs
      BY <3>2, SessionFields DEF Credentials, CredentialOf, IPs
    <3>4. \A x \in gone : /\ object[x].client # object[s].client
                          /\ object[x].credential.ip # object[s].credential.ip
      BY <1>1, <1>5, <3>1, <3>2 DEF Unlists, IndexesAgree
    <3> QED BY <1>2, <1>3, <1>5, <3>1, <3>2, <3>3, <3>4 DEF Unlists
  <2>2. ASSUME NEW c \in Clients, sessionByClient'[c] # None
        PROVE  sessionByClient'[c] \in sessions' /\ object'[sessionByClient'[c]].client = c
    <3>1. /\ sessionByClient'[c] = sessionByClient[c]
          /\ ~\E s \in gone : object[s].client = c
      BY <1>5, <2>2 DEF Unlists
    <3>2. sessionByClient[c] \in sessions /\ object[sessionByClient[c]].client = c
      BY <1>1, <2>2, <3>1 DEF IndexesAgree
    <3> QED BY <1>2, <1>3, <1>5, <3>1, <3>2 DEF Unlists
  <2>3. ASSUME NEW i \in IPs, sessionByIP'[i] # None
        PROVE  sessionByIP'[i] \in sessions' /\ object'[sessionByIP'[i]].credential.ip = i
    <3>1. /\ sessionByIP'[i] = sessionByIP[i]
          /\ ~\E s \in gone : object[s].credential.ip = i
      BY <1>5, <2>3 DEF Unlists
    <3>2. sessionByIP[i] \in sessions /\ object[sessionByIP[i]].credential.ip = i
      BY <1>1, <2>3, <3>1 DEF IndexesAgree
    <3> QED BY <1>2, <1>3, <1>5, <3>1, <3>2 DEF Unlists
  <2> QED BY <2>1, <2>2, <2>3 DEF IndexesAgree
<1>6. ASSUME NEW s \in SessionIds, CreateSession(s)
      PROVE  IndexesAgree'
  <2> DEFINE client == receiver.hello.client
             ip == receiver.credential.ip
             existing == sessionByClient[client]
             byIP == IF existing \in sessions THEN ByIPWithout(existing) ELSE sessionByIP
  <2>1. /\ client \in Clients /\ receiver.credential \in Credentials
        /\ s \notin sessions /\ existing # s
        /\ existing # None => existing \in sessions
        /\ object'[s] # None
        /\ object'[s].client = client /\ object'[s].credential = receiver.credential
    <3>1. /\ receiver.hello \in Hellos /\ receiver.credential \in Credentials
          /\ object'[s] = NewSession(receiver.hello, receiver.credential)
      BY <1>6, CreateSessionEffect
    <3>2. object'[s] \in Session
      <4>1. NewSession(receiver.hello, receiver.credential) \in Session
        BY <3>1, FreshSession
      <4> QED BY <3>1, <4>1
    <3>3. object'[s].client = client /\ object'[s].credential = receiver.credential
      BY <3>1 DEF NewSession
    <3> QED BY <1>6, <3>2, <3>3, CreateSessionEffect, NoneAssumption
  <2>2. /\ sessions' = (sessions \ {existing}) \union {s}
        /\ sessionByClient' = [sessionByClient EXCEPT ![client] = s]
        /\ sessionByIP' = [byIP EXCEPT ![ip] = s]
    BY <1>6 DEF CreateSession
  <2>3. ip \in IPs
    BY <2>1 DEF Credentials, CredentialOf, IPs
  <2>4. \A x \in sessions : object[x].client = client <=> x = existing
    BY <1>1, <2>1, NoneAssumption DEF IndexesAgree, TypeOK
  <2>5. \A x \in sessions : object[x].credential.ip = ip => x = existing
    <3>1. Offered(client, receiver.credential)
      BY <1>1, <1>6, <2>1, NoneAssumption
         DEF CreateSession, StillAuthorized, CredentialsOffered
    <3>2. ASSUME NEW x \in sessions, object[x].credential.ip = ip
          PROVE  object[x].client = client
      <4>1. Offered(object[x].client, object[x].credential)
        BY <1>1, <1>3 DEF CredentialsOffered
      <4> QED BY <3>1, <3>2, <4>1, AddressAssumption DEF Offered, CredentialOf
    <3> QED BY <2>4, <3>2
  <2>6. byIP \in [IPs -> SessionIds \union {None}]
    BY <1>1 DEF TypeOK, ByIPWithout
  <2>7. \A i \in IPs :
            /\ byIP[i] # None => byIP[i] = sessionByIP[i] /\ byIP[i] # existing
            /\ sessionByIP[i] # existing => byIP[i] = sessionByIP[i]
    <3>1. CASE existing \in sessions
      <4>1. \A i \in IPs : sessionByIP[i] = existing => i = object[existing].credential.ip
        BY <1>1, <1>3, <3>1, NoneAssumption DEF IndexesAgree, TypeOK
      <4>2. \A i \in IPs : byIP[i] = IF /\ i = object[existing].credential.ip
                                       /\ sessionByIP[i] = existing
                                    THEN None ELSE sessionByIP[i]
        BY <1>1, <3>1 DEF ByIPWithout, TypeOK
      <4> HIDE DEF byIP, existing
      <4> QED BY <4>1, <4>2
    <3>2. CASE existing \notin sessions
      BY <2>1, <3>2
    <3> QED BY <3>1, <3>2
  <2> HIDE DEF byIP, existing, client, ip
  <2>8. ASSUME NEW x \in sessions'
        PROVE  /\ object'[x] # None
               /\ sessionByClient'[object'[x].client] = x
               /\ sessionByIP'[object'[x].credential.ip] = x
    <3>1. CASE x = s
      BY <1>1, <2>1, <2>2, <2>3, <2>6, <3>1 DEF TypeOK, ip
    <3>2. CASE x # s
      <4>1. x \in sessions /\ x # existing /\ object[x] \in Session
        BY <2>2, <3>2, HeldSessions
      <4>2. object[x].client # client /\ object[x].credential.ip # ip
        BY <2>4, <2>5, <4>1
      <4>3. object[x].client \in Clients /\ object[x].credential.ip \in IPs
        BY <4>1, SessionFields DEF Credentials, CredentialOf, IPs
      <4>4. sessionByClient[object[x].client] = x /\ sessionByIP[object[x].credential.ip] = x
        BY <1>1, <4>1 DEF IndexesAgree
      <4>5. byIP[object[x].credential.ip] = x
        BY <2>7, <4>1, <4>3, <4>4
      <4>6. /\ sessionByClient'[object[x].client] = x
            /\ sessionByIP'[object[x].credential.ip] = x
        BY <1>1, <2>2, <2>6, <4>2, <4>3, <4>4, <4>5 DEF TypeOK
      <4> QED BY <1>2, <1>3, <4>1, <4>6
    <3> QED BY <3>1, <3>2
  <2>9. ASSUME NEW c \in Clients, sessionByClient'[c] # None
        PROVE  sessionByClient'[c] \in sessions' /\ object'[sessionByClient'[c]].client = c
    <3>1. CASE c = client
      BY <1>1, <2>1, <2>2, <3>1 DEF TypeOK
    <3>2. CASE c # client
      <4>1. sessionByClient'[c] = sessionByClient[c]
        BY <1>1, <2>1, <2>2, <3>2 DEF TypeOK
      <4>2. sessionByClient[c] \in sessions /\ object[sessionByClient[c]].client = c
        BY <1>1, <2>9, <4>1 DEF IndexesAgree
      <4>3. sessionByClient[c] # existing
        BY <2>4, <3>2, <4>2
      <4> QED BY <1>2, <1>3, <2>2, <4>1, <4>2, <4>3
    <3> QED BY <3>1, <3>2
  <2>10. ASSUME NEW i \in IPs, sessionByIP'[i] # None
         PROVE  sessionByIP'[i] \in sessions' /\ object'[sessionByIP'[i]].credential.ip = i
    <3>1. CASE i = ip
      BY <2>1, <2>2, <2>6, <3>1 DEF ip
    <3>2. CASE i # ip
      <4>1. sessionByIP'[i] = byIP[i]
        BY <2>2, <2>6, <3>2
      <4>2. sessionByIP'[i] = sessionByIP[i] /\ sessionByIP[i] # existing
        BY <2>7, <2>10, <4>1
      <4>3. sessionByIP[i] \in sessions /\ object[sessionByIP[i]].credential.ip = i
        BY <1>1, <2>10, <4>2 DEF IndexesAgree
      <4> QED BY <1>2, <1>3, <2>2, <4>2, <4>3
    <3> QED BY <3>1, <3>2
  <2> QED BY <2>8, <2>9, <2>10 DEF IndexesAgree
<1> QED BY <1>4, <1>5, <1>6, IndexChanges

-----------------------------------------------------------------------------
(* What the goroutines hold *)

(* A session that left the table is not listed again.                       *)
LEMMA UnlistedForGood ==
  ASSUME IInv, [Next]_vars, NEW s \in SessionIds, object[s] # None, s \in sessions'
  PROVE  s \in sessions
<1>1. CASE UNCHANGED index
  BY <1>1 DEF index
<1>2. ASSUME NEW x \in SessionIds, CreateSession(x) PROVE s \in sessions
  BY <1>2 DEF CreateSession
<1>3. ASSUME NEW gone \in SUBSET SessionIds, Unlists(gone) PROVE s \in sessions
  BY <1>3 DEF Unlists
<1> QED BY <1>1, <1>2, <1>3, IndexChanges

(* What receiveLoop holds, or goes on with, changes only in these ways.     *)
LEMMA AheadCases ==
  ASSUME IInv, [Next]_vars
  PROVE  \/ Ahead' = Ahead
         \/ Ahead'.at # "registering"
         \/ /\ JoinSession
            /\ Ahead' = Registering(sessionByClient[receiver.hello.client])
         \/ \E s \in SessionIds : CreateSession(s) /\ Ahead' = Registering(s)
<1>1. receiver \in Reception
  BY DEF IInv, TypeOK
<1>2. CASE UNCHANGED receiver
  BY <1>2 DEF Ahead
<1>3. ASSUME HandleHello
      PROVE  \/ Ahead'.at # "registering"
             \/ /\ JoinSession
                /\ Ahead' = Registering(sessionByClient[receiver.hello.client])
             \/ \E s \in SessionIds : CreateSession(s) /\ Ahead' = Registering(s)
  <2>1. ASSUME NEW s \in SessionIds, CreateSession(s)
        PROVE  Ahead' = Registering(s)
    BY <2>1 DEF CreateSession, Registering, QuietingThen, Ahead
  <2>2. ASSUME JoinSession
        PROVE  Ahead' = Registering(sessionByClient[receiver.hello.client])
    BY <2>2 DEF JoinSession, Registering, Ahead
  <2>3. ASSUME NEW hello \in Hellos, NEW from \in Addresses, ReceiveHello(hello, from)
        PROVE  Ahead'.at # "registering"
    BY <2>3 DEF ReceiveHello, Ahead
  <2>4. CredentialChanged \/ RefusePath \/ (\E healthy \in BOOLEAN : RepeatWelcome(healthy))
            => Ahead'.at # "registering"
    BY DEF CredentialChanged, RefusePath, RepeatWelcome, Idle, Ahead
  <2>5. ASSUME NEW written \in BOOLEAN, AddPath(written)
        PROVE  Ahead'.at # "registering"
    BY <2>5 DEF AddPath, Idle, Ahead
  <2> QED BY <1>3, <2>1, <2>2, <2>3, <2>4, <2>5 DEF HandleHello
<1>4. ASSUME HandleEncrypted PROVE Ahead'.at # "registering"
  <2>1. ASSUME NEW s \in SessionIds, NEW p \in PathIds, NEW from \in Addresses,
               NEW kind \in {"traffic", "close"}, ReceivePacket(s, p, from, kind)
        PROVE  receiver'.at = "opened"
    BY <2>1 DEF ReceivePacket
  <2>2. ASSUME NEW replied \in BOOLEAN, AcceptPacket(replied)
        PROVE  receiver'.at \in {"idle", "removing"}
    BY <2>2 DEF AcceptPacket, Idle
  <2>3. receiver'.at \in {"opened", "idle", "removing"}
    BY <1>4, <2>1, <2>2 DEF HandleEncrypted
  <2> QED BY <2>3 DEF Ahead
<1>5. ASSUME Finish PROVE Ahead' = Ahead \/ Ahead'.at # "registering"
  <2>1. ASSUME RemovePath \/ TerminateIfCurrent PROVE Ahead'.at # "registering"
    BY <2>1 DEF RemovePath, TerminateIfCurrent, QuietingThen, Idle, Ahead
  <2>2. ASSUME QuietReplaced PROVE Ahead' = Ahead
    <3>1. receiver' = receiver.then /\ receiver.then \in {Idle} \union Registration
      BY <1>1, <2>2, ReceptionFields DEF QuietReplaced
    <3>2. receiver'.at # "quieting"
      BY <3>1 DEF Idle, Registration
    <3> QED BY <2>2, <3>1, <3>2 DEF QuietReplaced, Ahead
  <2> QED BY <1>5, <2>1, <2>2 DEF Finish
<1> QED BY <1>2, <1>3, <1>4, <1>5, ReceiverCases

(* Sessions outlive the table, so what a goroutine holds is never nil.      *)
LEMMA HeldStep == IInv /\ [Next]_vars => HeldSessionsExist'
<1> SUFFICES ASSUME IInv, [Next]_vars
             PROVE  HeldSessionsExist'
  OBVIOUS
<1>1. TypeOK /\ HeldSessionsExist /\ IndexesAgree
  BY DEF IInv
<1>2. \A s \in SessionIds : object[s] # None => object'[s] # None
  BY ObjectsEvolve DEF Evolution, Evolves
<1>3. \A s : object[s] \in Session => object[s] # None
  BY NoneAssumption
<1>4. ASSUME Ahead'.at = "registering" PROVE object'[Ahead'.session] # None
  <2>1. CASE Ahead' = Ahead
    <3>1. Ahead \in Registration
      BY <1>1, <1>4, <2>1, ReceptionFields DEF Ahead, TypeOK, Idle
    <3> QED BY <1>1, <1>2, <1>4, <2>1, <3>1 DEF HeldSessionsExist, Registration
  <2>2. CASE JoinSession /\ Ahead' = Registering(sessionByClient[receiver.hello.client])
    <3>1. receiver.hello.client \in Clients
      BY <1>1, <2>2, ReceptionFields, NoneAssumption DEF JoinSession, TypeOK
    <3>2. /\ sessionByClient[receiver.hello.client] \in SessionIds
          /\ object[sessionByClient[receiver.hello.client]] # None
      BY <1>3, <2>2, <3>1, HeldSessions DEF JoinSession
    <3> QED BY <1>2, <2>2, <3>2 DEF Registering
  <2>3. ASSUME NEW s \in SessionIds, CreateSession(s), Ahead' = Registering(s)
        PROVE  object'[Ahead'.session] # None
    <3>1. /\ receiver.hello \in Hellos /\ receiver.credential \in Credentials
          /\ object'[s] = NewSession(receiver.hello, receiver.credential)
      BY <2>3, CreateSessionEffect
    <3>2. NewSession(receiver.hello, receiver.credential) \in Session
      BY <3>1, FreshSession
    <3> QED BY <2>3, <3>1, <3>2, NoneAssumption DEF Registering
  <2> QED BY <1>4, <2>1, <2>2, <2>3, AheadCases
<1>5. ASSUME receiver'.at \in {"opened", "removing", "terminating", "quieting"}
      PROVE  object'[receiver'.session] # None
  <2> DEFINE Held == receiver'.session \in SessionIds /\ object[receiver'.session] # None
  <2>1. CASE UNCHANGED receiver
    <3>1. receiver.session \in SessionIds /\ object[receiver.session] \in Session
      BY <1>5, <2>1, HeldSessions
    <3> QED BY <1>2, <1>3, <2>1, <3>1
  <2>2. ASSUME HandleHello PROVE Held
    <3>1. ASSUME NEW s \in SessionIds, CreateSession(s) PROVE Held
      <4> DEFINE existing == sessionByClient[receiver.hello.client]
      <4>1. existing # None /\ receiver'.session = existing
        BY <1>5, <3>1 DEF CreateSession, Registering, QuietingThen
      <4>2. receiver.hello.client \in Clients
        BY <3>1, CreateSessionEffect
      <4> QED BY <1>3, <4>1, <4>2, HeldSessions
    <3>2. ASSUME NEW written \in BOOLEAN, AddPath(written) PROVE Held
      <4>1. receiver'.session = receiver.session
        BY <1>5, <3>2 DEF AddPath, Idle
      <4>2. receiver.session \in SessionIds /\ object[receiver.session] \in Session
        BY <3>2, HeldSessions DEF AddPath
      <4> QED BY <1>3, <4>1, <4>2
    <3>3. ASSUME NEW hello \in Hellos, NEW from \in Addresses, ReceiveHello(hello, from)
          PROVE  FALSE
      BY <1>5, <3>3 DEF ReceiveHello
    <3>4. ~(CredentialChanged \/ JoinSession \/ RefusePath
                \/ \E healthy \in BOOLEAN : RepeatWelcome(healthy))
      BY <1>5 DEF CredentialChanged, JoinSession, RefusePath, RepeatWelcome, Idle, Registering
    <3> HIDE DEF Held
    <3> QED BY <2>2, <3>1, <3>2, <3>3, <3>4 DEF HandleHello
  <2>3. ASSUME HandleEncrypted PROVE Held
    <3>1. ASSUME NEW s \in SessionIds, NEW p \in PathIds, NEW from \in Addresses,
                 NEW kind \in {"traffic", "close"}, ReceivePacket(s, p, from, kind)
          PROVE  Held
      BY <1>3, <3>1, HeldSessions DEF ReceivePacket
    <3>2. ASSUME NEW replied \in BOOLEAN, AcceptPacket(replied) PROVE Held
      <4>1. receiver'.session = receiver.session
        BY <1>5, <3>2 DEF AcceptPacket, Idle
      <4>2. receiver.session \in SessionIds /\ object[receiver.session] \in Session
        BY <3>2, HeldSessions DEF AcceptPacket
      <4> QED BY <1>3, <4>1, <4>2
    <3> HIDE DEF Held
    <3> QED BY <2>3, <3>1, <3>2 DEF HandleEncrypted
  <2>4. ASSUME Finish PROVE Held
    <3>1. ~QuietReplaced
      <4>1. ASSUME QuietReplaced PROVE receiver' \in {Idle} \union Registration
        BY <1>1, <4>1, ReceptionFields DEF QuietReplaced, TypeOK
      <4> QED BY <1>5, <4>1 DEF Idle, Registration
    <3>2. receiver'.session = receiver.session
      BY <1>5, <2>4, <3>1 DEF Finish, RemovePath, TerminateIfCurrent, QuietingThen, Idle
    <3>3. receiver.session \in SessionIds /\ object[receiver.session] \in Session
      BY <2>4, <3>1, HeldSessions DEF Finish, RemovePath, TerminateIfCurrent
    <3> QED BY <1>3, <3>2, <3>3
  <2> QED BY <1>2, <2>1, <2>2, <2>3, <2>4, ReceiverCases
<1>6. ASSUME NEW t \in Threads, control'[t].at = "quieting"
      PROVE  object'[control'[t].session] # None
  <2>1. CASE control'[t] = control[t]
    <3>1. control[t].session \in SessionIds /\ object[control[t].session] \in Session
      BY <1>6, <2>1, HeldSessions
    <3> QED BY <1>2, <1>3, <2>1, <3>1
  <2>2. CASE Control(t)
    <3> DEFINE s == sessionByClient[control[t].client]
    <3>1. TerminateClient(t) /\ s # None /\ control'[t].session = s
      BY <1>1, <1>6, <2>2 DEF Control, AuthorizeClient, RevokeClient, TerminateClient,
         QuietPaths, TypeOK, Idle
    <3>2. control[t].client \in Clients
      BY <1>1, <3>1, CallFields DEF TerminateClient, TypeOK
    <3> QED BY <1>2, <1>3, <3>1, <3>2, HeldSessions
  <2>3. ASSUME NEW u \in Threads \ {t}, Control(u)
        PROVE  control'[t] = control[t]
    BY <1>1, <2>3 DEF Control, AuthorizeClient, RevokeClient, TerminateClient, QuietPaths,
       TypeOK
  <2> QED BY <2>1, <2>2, <2>3, ControlCases
<1>7. ASSUME tunnel' # None PROVE object'[tunnel'] # None
  <2>1. CASE UNCHANGED tunnel
    BY <1>1, <1>2, <1>7, <2>1 DEF HeldSessionsExist, TypeOK
  <2>2. ASSUME NEW ip \in Destinations, TunnelLookup(ip)
        PROVE  tunnel' \in SessionIds /\ object[tunnel'] # None
    BY <1>1, <2>2 DEF TunnelLookup, IndexesAgree, TypeOK, IPs
  <2>3. ~TunnelSend
    BY <1>7 DEF TunnelSend
  <2> QED BY <1>2, <2>1, <2>2, <2>3, TunnelCases
<1> QED BY <1>4, <1>5, <1>6, <1>7 DEF HeldSessionsExist

-----------------------------------------------------------------------------
(* Closing and revoking *)

(* markClosing and removePath are all that closes a session.                *)
LEMMA ClosingCases ==
  ASSUME IInv, [Next]_vars, NEW s \in SessionIds, object[s] # None
  PROVE  \/ object'[s].closing = object[s].closing
         \/ \E x \in SessionIds : CreateSession(x)
         \/ RemovePath
         \/ TerminateIfCurrent
         \/ \E t \in Threads : TerminateClient(t)
<1> DEFINE Same == object'[s].closing = object[s].closing
<1>1. TypeOK /\ object[s] \in Session
  BY DEF IInv, TypeOK
<1>2. UNCHANGED object => Same
  OBVIOUS
<1>3. ASSUME HandleHello PROVE Same \/ \E x \in SessionIds : CreateSession(x)
  <2>1. ASSUME NEW healthy \in BOOLEAN, RepeatWelcome(healthy) PROVE Same
    <3>1. PICK p \in PathsWithNonce(receiver.session, receiver.hello.nonce) :
              Answer(receiver.session, p, healthy)
      BY <2>1 DEF RepeatWelcome
    <3> QED BY <1>1, <3>1 DEF Answer, TypeOK, Session
  <2>2. ASSUME NEW written \in BOOLEAN, AddPath(written) PROVE Same
    BY <1>1, <2>2 DEF AddPath, TypeOK, Session
  <2>3. ASSUME RefusePath PROVE Same
    BY <1>1, <2>3 DEF RefusePath, TypeOK, Session
  <2>4. ASSUME NEW hello \in Hellos, NEW from \in Addresses, ReceiveHello(hello, from)
        PROVE  Same
    BY <2>4 DEF ReceiveHello
  <2>5. CredentialChanged \/ JoinSession => Same
    BY DEF CredentialChanged, JoinSession
  <2> HIDE DEF Same
  <2> QED BY <1>3, <2>1, <2>2, <2>3, <2>4, <2>5 DEF HandleHello
<1>4. ASSUME HandleEncrypted PROVE Same
  <2>1. ASSUME NEW x \in SessionIds, NEW p \in PathIds, NEW from \in Addresses,
               NEW kind \in {"traffic", "close"}, ReceivePacket(x, p, from, kind)
        PROVE  Same
    BY <2>1 DEF ReceivePacket
  <2>2. ASSUME NEW replied \in BOOLEAN, AcceptPacket(replied) PROVE Same
    BY <1>1, <2>2 DEF AcceptPacket, TypeOK, Session
  <2> HIDE DEF Same
  <2> QED BY <1>4, <2>1, <2>2 DEF HandleEncrypted
<1>5. ASSUME Finish PROVE Same \/ RemovePath \/ TerminateIfCurrent
  BY <1>1, <1>5 DEF Finish, QuietReplaced, TypeOK, Session
<1>6. ASSUME NEW t \in Threads, Control(t) PROVE Same \/ TerminateClient(t)
  <2>1. ASSUME QuietPaths(t) PROVE Same
    BY <1>1, <2>1 DEF QuietPaths, TypeOK, Session
  <2>2. ASSUME NEW offer \in Offers, AuthorizeClient(t, offer) PROVE Same
    BY <2>2 DEF AuthorizeClient
  <2>3. ASSUME NEW client \in Clients, RevokeClient(t, client) PROVE Same
    BY <2>3 DEF RevokeClient
  <2> HIDE DEF Same
  <2> QED BY <1>6, <2>1, <2>2, <2>3 DEF Control
<1>7. ASSUME Janitor PROVE Same
  <2>1. object'[s] = IF s \in sessions THEN [object[s] EXCEPT !.paths = Expire(@)]
                     ELSE object[s]
    BY <1>7 DEF Janitor
  <2> QED BY <1>1, <2>1 DEF Session
<1>8. ASSUME NEW ip \in Destinations, TunnelLookup(ip) PROVE Same
  BY <1>8 DEF TunnelLookup
<1>9. ASSUME TunnelSend PROVE Same
  <2>1. CASE UNCHANGED object
    BY <2>1
  <2>2. ASSUME NEW p \in Eligible(object[tunnel].paths), NEW written \in BOOLEAN,
               object' = [object EXCEPT ![tunnel].paths[p].healthy = written]
        PROVE  Same
    BY <1>1, <2>2 DEF TypeOK, Session
  <2> HIDE DEF Same
  <2> QED BY <1>9, <2>1, <2>2 DEF TunnelSend
<1>10. ASSUME Tick PROVE Same
  <2>1. object'[s] = IF s \in sessions
                     THEN [object[s] EXCEPT !.idle = Older(@, SessionTimeout),
                                            !.paths = Aged(@)]
                     ELSE object[s]
    BY <1>10 DEF Tick
  <2> QED BY <1>1, <2>1 DEF Session
<1>11. UNCHANGED vars => Same
  BY DEF vars
<1> HIDE DEF Same
<1>12. \/ Same
       \/ \E x \in SessionIds : CreateSession(x)
       \/ RemovePath
       \/ TerminateIfCurrent
       \/ \E t \in Threads : TerminateClient(t)
  BY <1>3, <1>4, <1>5, <1>6, <1>7, <1>8, <1>9, <1>10, <1>11 DEF Next
<1> QED BY <1>12 DEF Same

(* terminateClientSession leaves no session of its client listed.           *)
LEMMA TerminationUnlists ==
  ASSUME IInv, NEW t \in Threads, TerminateClient(t), NEW s \in sessions,
         object[s].client = control[t].client \/ object'[s] # object[s]
  PROVE  s \notin sessions'
<1> DEFINE x == sessionByClient[control[t].client]
<1>1. TypeOK /\ IndexesAgree
  BY DEF IInv
<1>2. object[s].client = control[t].client => x = s
  BY <1>1 DEF IndexesAgree
<1>3. object'[s] # object[s] => x # None /\ x = s
  BY <1>1 DEF TerminateClient, TypeOK
<1>4. s # None
  BY <1>1, NoneAssumption DEF TypeOK
<1> QED BY <1>2, <1>3, <1>4 DEF TerminateClient, Detach

(* A session that removePath closed is listed only as long as receiveLoop   *)
(* is about to terminate it.                                                *)
LEMMA ClosingStep == IInv /\ [Next]_vars => ClosingIsLeaving'
<1> SUFFICES ASSUME IInv, [Next]_vars, NEW s \in sessions', object'[s].closing
             PROVE  receiver'.at = "terminating" /\ receiver'.session = s
  BY DEF ClosingIsLeaving
<1>1. TypeOK /\ ClosingIsLeaving /\ IndexesAgree
  BY DEF IInv
<1>2. s \in SessionIds /\ sessions \subseteq SessionIds
  BY <1>1, TypeStep DEF TypeOK
<1>3. CASE object[s] = None
  <2>1. object'[s] # None
    BY IndexesStep DEF IndexesAgree
  <2>2. CreateSession(s)
    BY <1>2, <1>3, <2>1, ObjectsEvolve DEF Evolution
  <2>3. /\ receiver.hello \in Hellos /\ receiver.credential \in Credentials
        /\ object'[s] = NewSession(receiver.hello, receiver.credential)
    BY <1>2, <2>2, CreateSessionEffect
  <2>4. object'[s].closing = FALSE
    BY <2>3 DEF NewSession
  <2> QED BY <2>4
<1>4. CASE object[s] # None /\ object[s].closing
  <2>1. s \in sessions
    BY <1>2, <1>4, UnlistedForGood
  <2>2. receiver.at = "terminating" /\ receiver.session = s
    BY <1>1, <1>4, <2>1 DEF ClosingIsLeaving
  <2>3. ~HandleHello
    BY <2>2 DEF HandleHello, ReceiveHello, CredentialChanged, JoinSession, CreateSession,
       RepeatWelcome, AddPath, RefusePath
  <2>4. ~HandleEncrypted
    BY <2>2 DEF HandleEncrypted, ReceivePacket, AcceptPacket
  <2>5. ~Finish
    <3>1. ~RemovePath /\ ~QuietReplaced
      BY <2>2 DEF RemovePath, QuietReplaced
    <3>2. ~TerminateIfCurrent
      BY <2>1, <2>2 DEF TerminateIfCurrent, Detach
    <3> QED BY <3>1, <3>2 DEF Finish
  <2> QED BY <2>2, <2>3, <2>4, <2>5, ReceiverCases
<1>5. CASE object[s] # None /\ ~object[s].closing
  <2>1. s \in sessions
    BY <1>2, <1>5, UnlistedForGood
  <2>2. ASSUME NEW x \in SessionIds, CreateSession(x) PROVE FALSE
    <3> DEFINE existing == sessionByClient[receiver.hello.client]
    <3>1. x \notin sessions /\ \A i \in SessionIds \ {x, existing} : object'[i] = object[i]
      BY <2>2, CreateSessionEffect
    <3>2. s # x /\ s # existing
      BY <2>1, <2>2, <3>1 DEF CreateSession
    <3> QED BY <1>2, <1>5, <3>1, <3>2
  <2>3. ASSUME RemovePath PROVE receiver'.at = "terminating" /\ receiver'.session = s
    <3> DEFINE x == receiver.session
               q == Restrict(object[x].paths, DOMAIN object[x].paths \ {receiver.path})
    <3>1. x \in SessionIds /\ object[x] \in Session
      BY <2>3, HeldSessions DEF RemovePath
    <3>2. /\ object' = [object EXCEPT ![x].paths = q,
                                      ![x].closing = @ \/ DOMAIN q = {}]
          /\ receiver' = IF WasLast(q) THEN [at |-> "terminating", session |-> x] ELSE Idle
      BY <2>3 DEF RemovePath
    <3> HIDE DEF q
    <3>3. s = x
      BY <1>1, <1>2, <1>5, <3>2 DEF TypeOK
    <3>4. object'[x].closing = (object[x].closing \/ DOMAIN q = {})
      BY <1>1, <3>1, <3>2 DEF TypeOK, Session
    <3>5. DOMAIN q = {}
      BY <1>5, <3>3, <3>4
    <3> QED BY <3>2, <3>3, <3>5 DEF WasLast
  <2>4. ASSUME TerminateIfCurrent PROVE FALSE
    <3>1. s = receiver.session
      BY <1>1, <1>2, <1>5, <2>4 DEF TerminateIfCurrent, TypeOK
    <3> QED BY <2>1, <2>4, <3>1 DEF TerminateIfCurrent, Detach
  <2>5. ASSUME NEW t \in Threads, TerminateClient(t) PROVE FALSE
    BY <1>5, <2>1, <2>5, TerminationUnlists
  <2> QED BY <1>2, <1>5, <2>2, <2>3, <2>4, <2>5, ClosingCases
<1> QED BY <1>3, <1>4, <1>5

(* A client that is being terminated is so until its session has left.      *)
LEMMA TerminatingStays ==
  ASSUME IInv, [Next]_vars, NEW s \in sessions, s \in sessions',
         NEW c, c = object[s].client, Terminating(c)
  PROVE  Terminating(c)'
<1>1. TypeOK
  BY DEF IInv
<1>2. PICK t \in Threads : control[t].at = "terminating" /\ control[t].client = c
  BY DEF Terminating
<1>3. CASE UNCHANGED control
  BY <1>2, <1>3 DEF Terminating
<1>4. ASSUME NEW u \in Threads, Control(u)
      PROVE  Terminating(c)'
  <2>1. CASE u = t
    <3>1. TerminateClient(t)
      BY <1>2, <1>4, <2>1 DEF Control, AuthorizeClient, RevokeClient, QuietPaths
    <3> QED BY <1>2, <3>1, TerminationUnlists
  <2>2. CASE u # t
    <3>1. control'[t] = control[t]
      BY <1>1, <1>4, <2>2 DEF Control, AuthorizeClient, RevokeClient, TerminateClient,
         QuietPaths, TypeOK
    <3> QED BY <1>2, <3>1 DEF Terminating
  <2> QED BY <2>1, <2>2
<1> QED BY <1>3, <1>4, ControlCases

(* A HELLO half-way through handleHello still has its session's credential, *)
(* or the session is about to leave.                                        *)
LEMMA JoinedStep == IInv /\ [Next]_vars => JoinedIsAuthorized'
<1> SUFFICES ASSUME IInv, [Next]_vars, Ahead'.at = "registering"
             PROVE  /\ object'[Ahead'.session].client = Ahead'.hello.client
                    /\ Ahead'.session \in sessions' =>
                           \/ Terminating(object[Ahead.session].client)'
                           \/ object'[Ahead'.session].credential = Ahead'.credential
  BY DEF JoinedIsAuthorized
<1>1. /\ TypeOK /\ IndexesAgree /\ SessionsAreAuthorized /\ JoinedIsAuthorized
      /\ HeldSessionsExist
  BY DEF IInv
<1>2. CASE Ahead' = Ahead
  <2> DEFINE s == Ahead.session
  <2>1. Ahead \in Registration
    BY <1>1, <1>2, ReceptionFields DEF Ahead, TypeOK, Idle
  <2>2. s \in SessionIds /\ object[s] # None
    BY <1>1, <1>2, <2>1 DEF HeldSessionsExist, Registration
  <2>3. object'[s].client = object[s].client /\ object'[s].credential = object[s].credential
    BY <2>2, ObjectsEvolve DEF Evolution, Evolves
  <2>4. s \in sessions' => s \in sessions
    BY <2>2, UnlistedForGood
  <2>5. /\ object[s].client = Ahead.hello.client
        /\ s \in sessions => \/ Terminating(object[s].client)
                             \/ object[s].credential = Ahead.credential
    BY <1>1, <1>2 DEF JoinedIsAuthorized
  <2>6. ASSUME NEW c, c = object[s].client, s \in sessions', Terminating(c)
        PROVE  Terminating(c)'
    BY <2>4, <2>6, TerminatingStays
  <2>7. ASSUME NEW c, c = object'[s].client, Terminating(c)'
        PROVE  Terminating(object[Ahead.session].client)'
    BY <1>2, <2>7
  <2> QED BY <1>2, <2>3, <2>4, <2>5, <2>6, <2>7
<1>3. CASE JoinSession /\ Ahead' = Registering(sessionByClient[receiver.hello.client])
  <2> DEFINE s == sessionByClient[receiver.hello.client]
  <2>1. receiver.hello.client \in Clients
    BY <1>1, <1>3, ReceptionFields, NoneAssumption DEF JoinSession, TypeOK
  <2>2. s \in sessions /\ object[s].client = receiver.hello.client
    BY <1>1, <1>3, <2>1 DEF JoinSession, IndexesAgree
  <2>3. /\ UNCHANGED <<object, control>>
        /\ credentials[receiver.hello.client] = receiver.credential
    BY <1>3 DEF JoinSession, StillAuthorized
  <2>4. Terminating(object[s].client) \/ object[s].credential = receiver.credential
    BY <1>1, <2>2, <2>3 DEF SessionsAreAuthorized
  <2>5. /\ Ahead'.session = s /\ Ahead'.hello = receiver.hello
        /\ Ahead'.credential = receiver.credential
    BY <1>3 DEF Registering
  <2>6. ASSUME Terminating(object[s].client)
        PROVE  Terminating(object[Ahead.session].client)'
    BY <2>3, <2>5, <2>6 DEF Terminating
  <2> QED BY <2>2, <2>3, <2>4, <2>5, <2>6
<1>4. ASSUME NEW s \in SessionIds, CreateSession(s), Ahead' = Registering(s)
      PROVE  /\ object'[Ahead'.session].client = Ahead'.hello.client
             /\ object'[Ahead'.session].credential = Ahead'.credential
  <2>1. object'[s] = NewSession(receiver.hello, receiver.credential)
    BY <1>4, CreateSessionEffect
  <2> QED BY <1>4, <2>1 DEF NewSession, Registering
<1> QED BY <1>2, <1>3, <1>4, AheadCases

(* A path is added under the credential that its session has, unless that   *)
(* session is about to leave; a credential is replaced or revoked only by a *)
(* call that terminates the session.                                        *)
LEMMA AuthorizedStep == IInv /\ [Next]_vars => SessionsAreAuthorized'
<1>1. ASSUME IInv, [Next]_vars, NEW s \in sessions', NEW c, c = object'[s].client
      PROVE  \/ Terminating(c)'
             \/ /\ credentials'[c] = object'[s].credential
                /\ \A p \in DOMAIN object'[s].paths :
                       object'[s].paths[p].key = object'[s].credential.key
  <2>1. TypeOK /\ IndexesAgree /\ SessionsAreAuthorized /\ JoinedIsAuthorized
    BY <1>1 DEF IInv
  <2>2. s \in SessionIds
    BY <1>1, TypeStep DEF TypeOK
  <2>3. CASE object[s] = None
    <3>1. object'[s] # None
      BY <1>1, IndexesStep DEF IndexesAgree
    <3>2. CreateSession(s)
      BY <1>1, <2>2, <2>3, <3>1, ObjectsEvolve DEF Evolution
    <3>3. /\ receiver.hello \in Hellos /\ receiver.credential \in Credentials
          /\ object'[s] = NewSession(receiver.hello, receiver.credential)
      BY <1>1, <2>2, <3>2, CreateSessionEffect
    <3>4. /\ credentials' = credentials
          /\ credentials[receiver.hello.client] = receiver.credential
      BY <3>2 DEF CreateSession, StillAuthorized
    <3>5. /\ object'[s].client = receiver.hello.client
          /\ object'[s].credential = receiver.credential
          /\ object'[s].paths = <<>>
      BY <3>3 DEF NewSession
    <3>6. DOMAIN object'[s].paths = {}
      BY <3>5
    <3> QED BY <1>1, <3>4, <3>5, <3>6
  <2>4. CASE object[s] # None
    <3>1. s \in sessions
      BY <1>1, <2>2, <2>4, UnlistedForGood
    <3>2. /\ c = object[s].client /\ object'[s].credential = object[s].credential
          /\ \A p \in DOMAIN object'[s].paths :
                 \/ /\ p \in DOMAIN object[s].paths
                    /\ object'[s].paths[p].key = object[s].paths[p].key
                 \/ /\ receiver.at = "registering" /\ receiver.session = s
                    /\ object'[s].paths[p].key = receiver.credential.key
      BY <1>1, <2>2, <2>4, ObjectsEvolve DEF Evolution, Evolves
    <3>3. object[s] \in Session /\ c \in Clients
      BY <2>1, <2>2, <2>4, <3>2, SessionFields DEF TypeOK
    <3>4. CASE Terminating(c)
      BY <1>1, <3>1, <3>2, <3>4, TerminatingStays
    <3>5. CASE ~Terminating(c)
      <4>1. /\ credentials[c] = object[s].credential
            /\ \A p \in DOMAIN object[s].paths :
                   object[s].paths[p].key = object[s].credential.key
        BY <2>1, <3>1, <3>2, <3>5 DEF SessionsAreAuthorized
      <4>2. receiver.at = "registering" /\ receiver.session = s =>
                receiver.credential = object[s].credential
        BY <2>1, <3>1, <3>2, <3>5 DEF JoinedIsAuthorized, Ahead
      <4>3. \A p \in DOMAIN object'[s].paths :
                object'[s].paths[p].key = object'[s].credential.key
        BY <3>2, <4>1, <4>2
      <4>4. credentials[c] # None
        BY <3>3, <4>1, SessionFields, NoneAssumption
      <4>5. ASSUME NEW t \in Threads, NEW offer \in Offers, AuthorizeClient(t, offer)
            PROVE  credentials'[c] = credentials[c] \/ Terminating(c)'
        <5>1. CASE offer.client # c
          BY <2>1, <4>5, <5>1 DEF AuthorizeClient, TypeOK
        <5>2. CASE offer.client = c /\ CredentialOf(offer) = credentials[c]
          BY <2>1, <3>3, <4>5, <5>2 DEF AuthorizeClient, TypeOK
        <5>3. CASE offer.client = c /\ CredentialOf(offer) # credentials[c]
          <6>1. Replaces(c, CredentialOf(offer))
            BY <4>4, <5>3 DEF Replaces
          <6>2. control'[t] = [at |-> "terminating", client |-> c]
            BY <2>1, <4>5, <5>3, <6>1 DEF AuthorizeClient, TypeOK
          <6> QED BY <6>2 DEF Terminating
        <5> QED BY <5>1, <5>2, <5>3
      <4>6. ASSUME NEW t \in Threads, NEW client \in Clients, RevokeClient(t, client)
            PROVE  credentials'[c] = credentials[c] \/ Terminating(c)'
        <5>1. CASE client # c
          BY <2>1, <4>6, <5>1 DEF RevokeClient, TypeOK
        <5>2. CASE client = c
          <6>1. control'[t] = [at |-> "terminating", client |-> c]
            BY <2>1, <4>6, <5>2 DEF RevokeClient, TypeOK
          <6> QED BY <6>1 DEF Terminating
        <5> QED BY <5>1, <5>2
      <4>7. credentials'[c] = credentials[c] \/ Terminating(c)'
        BY <1>1, <4>5, <4>6, CredentialCases
      <4> QED BY <3>2, <4>1, <4>3, <4>7
    <3> QED BY <3>4, <3>5
  <2> QED BY <2>3, <2>4
<1>2. ASSUME IInv, [Next]_vars, NEW s \in sessions'
      PROVE  \/ Terminating(object[s].client)'
             \/ /\ credentials'[object'[s].client] = object'[s].credential
                /\ \A p \in DOMAIN object'[s].paths :
                       object'[s].paths[p].key = object'[s].credential.key
  <2>1. ASSUME NEW c, c = object'[s].client, Terminating(c)'
        PROVE  Terminating(object[s].client)'
    BY <2>1
  <2> QED BY <1>1, <1>2, <2>1
<1> QED BY <1>2 DEF SessionsAreAuthorized

-----------------------------------------------------------------------------
(* The invariant *)

(* A relay that has just started has authorized nobody and holds nothing.   *)
LEMMA InitIInv == Init => IInv
<1> SUFFICES ASSUME Init PROVE IInv
  OBVIOUS
<1> USE DEF Init
<1>1. TypeOK
  <2>1. Idle \in Reception /\ Idle \in Call
    BY DEF Reception, Call
  <2> QED BY <2>1 DEF TypeOK
<1>2. HeldSessionsExist /\ JoinedIsAuthorized
  BY DEF HeldSessionsExist, JoinedIsAuthorized, Ahead, Idle
<1>3. CredentialsOffered
  BY DEF CredentialsOffered
<1>4. IndexesAgree
  BY DEF IndexesAgree
<1>5. IsFiniteSet(sessions) /\ GaugeExact
  BY FS_EmptySet DEF GaugeExact
<1>6. ClosingIsLeaving /\ SessionsAreAuthorized
  BY DEF ClosingIsLeaving, SessionsAreAuthorized
<1> QED BY <1>1, <1>2, <1>3, <1>4, <1>5, <1>6 DEF IInv

(* Every section of every goroutine preserves the strengthening.            *)
THEOREM Invariance == Spec => []IInv
<1>1. IInv /\ [Next]_vars => IInv'
  BY TypeStep, HeldStep, CredentialsStep, IndexesStep, IndexesTyped, GaugeStep, ClosingStep,
     AuthorizedStep, JoinedStep DEF IInv
<1> QED BY InitIInv, <1>1, PTL DEF Spec

(* The table and what the goroutines hold between sections keep their types. *)
THEOREM TypeCorrect == Spec => []TypeOK
<1>1. IInv => TypeOK
  BY DEF IInv
<1> QED BY Invariance, <1>1, PTL

(* The maps by id, client and address describe one set of sessions, however *)
(* handshakes, terminations and expiry interleave.                          *)
THEOREM IndexesConsistent == Spec => []IndexesAgree
<1>1. IInv => IndexesAgree
  BY DEF IInv
<1> QED BY Invariance, <1>1, PTL

(* ActiveSessions counts every listed session once.                         *)
THEOREM GaugeCounts == Spec => []GaugeExact
<1>1. IInv => GaugeExact
  BY DEF IInv
<1> QED BY Invariance, <1>1, PTL

(* Rotation and revocation leave nothing of the old credential in the table *)
(* once the call has returned, whatever receiveLoop was in the middle of.   *)
THEOREM OldCredentialsLeave == Spec => []SessionsAreAuthorized
<1>1. IInv => SessionsAreAuthorized
  BY DEF IInv
<1> QED BY Invariance, <1>1, PTL

(* A closing session keeps its client out no longer than receiveLoop needs. *)
THEOREM ClosingSessionsLeave == Spec => []ClosingIsLeaving
<1>1. IInv => ClosingIsLeaving
  BY DEF IInv
<1> QED BY Invariance, <1>1, PTL

(* No stale pointer reopens a session, adds a path to it, or lists it again. *)
THEOREM ClosedSessionsStay == Spec => ClosedForGood
<1> DEFINE A == \A s \in SessionIds : object[s] # None =>
                   /\ object[s].closing =>
                          /\ object'[s].closing
                          /\ DOMAIN object'[s].paths \subseteq DOMAIN object[s].paths
                   /\ s \notin sessions => s \notin sessions'
<1>1. IInv /\ [Next]_vars => A
  <2> SUFFICES ASSUME IInv, [Next]_vars, NEW s \in SessionIds, object[s] # None
               PROVE  /\ object[s].closing =>
                             /\ object'[s].closing
                             /\ DOMAIN object'[s].paths \subseteq DOMAIN object[s].paths
                      /\ s \notin sessions => s \notin sessions'
    OBVIOUS
  <2>1. Evolves(s)
    BY ObjectsEvolve DEF Evolution
  <2> QED BY <2>1, UnlistedForGood DEF Evolves
<1>2. IInv /\ [Next]_vars => [A]_vars
  BY <1>1
<1> HIDE DEF A
<1>3. Spec => [][A]_vars
  BY <1>2, Invariance, PTL DEF Spec
<1> QED BY <1>3 DEF A, ClosedForGood

(* The address a client is sent to moves only with a packet that its key    *)
(* authenticated on that path.                                              *)
THEOREM RoamingIsAuthenticated == Spec => RemoteFollowsAuthenticatedPackets
<1> DEFINE A == \A s \in SessionIds : object[s] # None =>
                   \A p \in DOMAIN object[s].paths \intersect DOMAIN object'[s].paths :
                       object'[s].paths[p].remote # object[s].paths[p].remote =>
                           /\ receiver.at = "opened"
                           /\ receiver.session = s /\ receiver.path = p
                           /\ object'[s].paths[p].remote = receiver.from
<1>1. IInv /\ [Next]_vars => A
  BY ObjectsEvolve DEF Evolution, Evolves
<1>2. IInv /\ [Next]_vars => [A]_vars
  BY <1>1
<1> HIDE DEF A
<1>3. Spec => [][A]_vars
  BY <1>2, Invariance, PTL DEF Spec
<1> QED BY <1>3 DEF A, RemoteFollowsAuthenticatedPackets

=============================================================================
