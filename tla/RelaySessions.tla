--------------------------- MODULE RelaySessions ---------------------------
(***************************************************************************)
(* The relay's session table (internal/engine/server.go): credentials,     *)
(* sessions and their paths, shared by                                     *)
(*   - receiveLoop, the one goroutine that handles every datagram,         *)
(*   - tunLoop, the one goroutine that forwards packets to the clients,    *)
(*   - janitorLoop, the ticker that expires paths and sessions,            *)
(*   - the control plane's HTTP handlers (Threads), which authorize and    *)
(*     revoke clients.                                                     *)
(* A step is a section of code that runs under one lock (credentialMu with *)
(* s.mu inside, or session.mu), so a handler that takes several locks in   *)
(* turn is several steps and `receiver', `tunnel' and `control' hold what  *)
(* it read before.                                                         *)
(*                                                                         *)
(* Session ids stand for the session objects: random 64-bit ids are taken  *)
(* never to repeat.  Handlers that only count or log a refused datagram    *)
(* change nothing here and are left out.  Ages are in janitor intervals.   *)
(***************************************************************************)
EXTENDS Integers, FiniteSets, Functions

CONSTANTS
    None,            \* a nil pointer or a missing map entry
    Clients,         \* client ids
    Offers,          \* credentials the control plane may authorize
    Hellos,          \* authentic HELLO datagrams the network may deliver
    Addresses,       \* UDP source addresses
    SessionIds,      \* bound on the sessions created in a behaviour
    MaxPathId,       \* 2^31 - 1 in the code
    Threads,         \* HTTP handler goroutines of the control plane
    HealthTimeout,   \* serverPath.healthTimeout (10 s)
    PathTimeout,     \* one minute in expirePaths
    SessionTimeout,  \* session_timeout (2 m)
    Destinations     \* tunnel addresses that tunLoop reads packets for

\* An offer is [client, key, ip]; a HELLO is [client, key, instance, nonce],
\* key being the one its HMAC verifies under.  instance numbers the client's
\* processes in the order they started; Legacy is the HELLO without one.
Legacy == 0
CredentialOf(offer) == [key |-> offer.key, ip |-> offer.ip]
Credentials == {CredentialOf(o) : o \in Offers}
IPs == {o.ip : o \in Offers} \union Destinations
PathIds == 1 .. MaxPathId

\* serverPath and serverSession.  A path's key is the one its AEAD derives from
Path ==
    [nonce : {h.nonce : h \in Hellos}, key : {o.key : o \in Offers},
     remote : Addresses, healthy : BOOLEAN, age : 0 .. PathTimeout + 1]
Session ==
    [client : Clients, credential : Credentials, instance : {h.instance : h \in Hellos},
     closing : BOOLEAN, idle : 0 .. SessionTimeout + 1, lastPathId : 0 .. MaxPathId,
     paths : UNION {[ids -> Path] : ids \in SUBSET PathIds}]

ASSUME NoneAssumption ==
    /\ None \notin SessionIds
    /\ None \notin Credentials
    /\ None \notin Session
    /\ \A h \in Hellos : h \in [client : Clients, key : {o.key : o \in Offers},
                                instance : Nat, nonce : {x.nonce : x \in Hellos}]
    /\ \A o \in Offers : o.client \in Clients
ASSUME TimeoutAssumption ==
    /\ HealthTimeout \in Nat /\ PathTimeout \in Nat /\ SessionTimeout \in Nat
    /\ HealthTimeout <= PathTimeout
ASSUME PathIdAssumption == MaxPathId \in Nat

\* The control plane's store gives each device an address for ever, so no
\* address is ever authorized for two clients (Store.allocateAddress)
ASSUME AddressAssumption ==
    \A o, p \in Offers : o.ip = p.ip => o.client = p.client

VARIABLES
    credentials,     \* Server.credentials, by client
    sessions,        \* the ids in Server.sessions
    sessionByClient, \* Server.sessionByClient
    sessionByIP,     \* Server.sessionByIP
    object,          \* the session objects, by id; they outlive the indexes
    activeSessions,  \* metrics.ActiveSessions
    receiver,        \* where receiveLoop is, and what it has read
    control,         \* where each control plane call is
    tunnel           \* the session tunLoop looked up, or None

index == <<sessions, sessionByClient, sessionByIP, activeSessions>>
vars == <<credentials, index, object, receiver, control, tunnel>>

\* An age past the last limit it is compared with need not grow
Older(age, limit) == IF age <= limit THEN age + 1 ELSE age

Idle == [at |-> "idle"]

Init ==
    /\ credentials = [c \in Clients |-> None]
    /\ sessions = {}
    /\ sessionByClient = [c \in Clients |-> None]
    /\ sessionByIP = [i \in IPs |-> None]
    /\ object = [s \in SessionIds |-> None]
    /\ activeSessions = 0
    /\ receiver = Idle
    /\ control = [t \in Threads |-> Idle]
    /\ tunnel = None

-----------------------------------------------------------------------------
(* Sections shared by several handlers *)

\* (slip) the index by address keeps the detached session
ByIPKept(s) == sessionByIP

\* An index entry is deleted only while it still leads to the session
ByIPWithout(s) ==
    [sessionByIP EXCEPT ![object[s].credential.ip] = IF @ = s THEN None ELSE @]

ByClientWithout(s) ==
    [sessionByClient EXCEPT ![object[s].client] = IF @ = s THEN None ELSE @]

\* (slip) the gauge is lowered even for a session already detached
DetachTwice(s) ==
    /\ sessions' = sessions \ {s}
    /\ sessionByClient' = ByClientWithout(s)
    /\ sessionByIP' = ByIPWithout(s)
    /\ activeSessions' = activeSessions - 1

\* detachSessionLocked: out of every routing index it is still found under
Detach(s) ==
    IF s \notin sessions
    THEN UNCHANGED index
    ELSE /\ sessions' = sessions \ {s}
         /\ sessionByClient' = ByClientWithout(s)
         /\ sessionByIP' = ByIPWithout(s)
         /\ activeSessions' = activeSessions - 1

Unhealthy(paths, ids) ==
    [p \in DOMAIN paths |-> [paths[p] EXCEPT !.healthy = @ /\ p \notin ids]]

\* markClosing returns the paths that the caller sets unhealthy once it has
\* released s.mu, before it goes on with what it had to do
Closed(session) == [session EXCEPT !.closing = TRUE]
QuietingThen(s, next) ==
    [at |-> "quieting", session |-> s, paths |-> DOMAIN object[s].paths, then |-> next]

\* serverSession.accepts; a legacy session accepts exactly the legacy HELLOs
Accepts(s, hello) == ~object[s].closing /\ object[s].instance = hello.instance

-----------------------------------------------------------------------------
(* receiveLoop: handleHello *)

\* The credential is copied under credentialMu and the HMAC checked with it
ReceiveHello(hello, from) ==
    /\ receiver.at = "idle"
    /\ credentials[hello.client] # None
    /\ credentials[hello.client].key = hello.key
    /\ receiver' = [at |-> "authenticated", hello |-> hello, from |-> from,
                    credential |-> credentials[hello.client]]
    /\ UNCHANGED <<credentials, index, object, control, tunnel>>

\* (slip) the credential read before is trusted
Unchanged(client) == TRUE

\* getOrCreateSession checks again, now holding credentialMu to the end
StillAuthorized(client) == credentials[client] = receiver.credential

CredentialChanged ==
    /\ receiver.at = "authenticated"
    /\ ~StillAuthorized(receiver.hello.client)
    /\ receiver' = Idle
    /\ UNCHANGED <<credentials, index, object, control, tunnel>>

Registering(s) ==
    [at |-> "registering", hello |-> receiver.hello, from |-> receiver.from,
     credential |-> receiver.credential, session |-> s]

JoinSession ==
    LET existing == sessionByClient[receiver.hello.client]
    IN  /\ receiver.at = "authenticated"
        /\ StillAuthorized(receiver.hello.client)
        /\ existing # None
        /\ Accepts(existing, receiver.hello)
        /\ receiver' = Registering(existing)
        /\ UNCHANGED <<credentials, index, object, control, tunnel>>

NewSession(hello, credential) ==
    [client |-> hello.client, credential |-> credential, instance |-> hello.instance,
     closing |-> FALSE, idle |-> 0, lastPathId |-> 0, paths |-> <<>>]

\* A fresh session; an existing one that does not accept the HELLO is closed
\* and detached in the same section
CreateSession(s) ==
    LET hello    == receiver.hello
        client   == hello.client
        existing == sessionByClient[client]
        replaced == existing \in sessions
        byIP     == IF replaced THEN ByIPWithout(existing) ELSE sessionByIP
    IN  /\ receiver.at = "authenticated"
        /\ StillAuthorized(client)
        /\ existing # None => ~Accepts(existing, hello)
        /\ object[s] = None
        /\ sessions' = (sessions \ {existing}) \union {s}
        /\ sessionByClient' = [sessionByClient EXCEPT ![client] = s]
        /\ sessionByIP' = [byIP EXCEPT ![receiver.credential.ip] = s]
        /\ activeSessions' = activeSessions + (IF replaced THEN 0 ELSE 1)
        /\ object' = [i \in SessionIds |->
               IF i = s THEN NewSession(hello, receiver.credential)
               ELSE IF i = existing THEN Closed(object[i])
               ELSE object[i]]
        /\ receiver' = IF existing = None THEN Registering(s)
                       ELSE QuietingThen(existing, Registering(s))
        /\ UNCHANGED <<credentials, control, tunnel>>

\* receiveLoop sets the paths of the session it closed unhealthy
QuietReplaced ==
    /\ receiver.at = "quieting"
    /\ object' = [object EXCEPT ![receiver.session].paths = Unhealthy(@, receiver.paths)]
    /\ receiver' = receiver.then
    /\ UNCHANGED <<credentials, index, control, tunnel>>

PathsWithNonce(s, nonce) ==
    {p \in DOMAIN object[s].paths : object[s].paths[p].nonce = nonce}

\* (slip) a repeated HELLO is answered wherever it came from, and moves the path
AnswerAnywhere(s, p, healthy) ==
    object' = [object EXCEPT ![s].paths[p].healthy = healthy,
                             ![s].paths[p].remote = receiver.from]

\* A retransmitted HELLO gets the recorded WELCOME again, at its own address
Answer(s, p, healthy) ==
    IF object[s].paths[p].remote = receiver.from
    THEN object' = [object EXCEPT ![s].paths[p].healthy = healthy]
    ELSE UNCHANGED object

\* healthy is FALSE when the write of the WELCOME fails
RepeatWelcome(healthy) ==
    /\ receiver.at = "registering"
    /\ \E p \in PathsWithNonce(receiver.session, receiver.hello.nonce) :
           Answer(receiver.session, p, healthy)
    /\ receiver' = Idle
    /\ UNCHANGED <<credentials, index, control, tunnel>>

\* (slip) addPath does not look at closing
AddableAlways(s) == TRUE

Addable(s) == ~object[s].closing

NewPath ==
    [nonce |-> receiver.hello.nonce, key |-> receiver.credential.key,
     remote |-> receiver.from, healthy |-> TRUE, age |-> 0]

\* A HELLO with a new nonce takes the next path id, and addPath and touch
\* follow; a failed write of the WELCOME takes the path back
AddPath(written) ==
    LET s  == receiver.session
        id == object[s].lastPathId + 1
    IN  /\ receiver.at = "registering"
        /\ PathsWithNonce(s, receiver.hello.nonce) = {}
        /\ id \in PathIds
        /\ Addable(s)
        /\ object' = [object EXCEPT
               ![s].lastPathId = id,
               ![s].idle = 0,
               ![s].paths = [p \in DOMAIN @ \union {id} |->
                   IF p = id THEN [NewPath EXCEPT !.healthy = written] ELSE @[p]]]
        /\ receiver' = IF written THEN Idle
                       ELSE [at |-> "removing", session |-> s, path |-> id]
        /\ UNCHANGED <<credentials, index, control, tunnel>>

\* The session closed meanwhile (the id is spent), or the ids ran out
RefusePath ==
    LET s == receiver.session
    IN  /\ receiver.at = "registering"
        /\ PathsWithNonce(s, receiver.hello.nonce) = {}
        /\ \/ /\ object[s].lastPathId + 1 \in PathIds
              /\ ~Addable(s)
              /\ object' = [object EXCEPT ![s].lastPathId = @ + 1]
           \/ /\ object[s].lastPathId + 1 \notin PathIds
              /\ UNCHANGED object
        /\ receiver' = Idle
        /\ UNCHANGED <<credentials, index, control, tunnel>>

-----------------------------------------------------------------------------
(* receiveLoop: handleEncrypted *)

\* The session and the path are looked up; the AEAD and the replay window
\* then accept a packet that its client sealed for that path
ReceivePacket(s, p, from, kind) ==
    /\ receiver.at = "idle"
    /\ s \in sessions
    /\ p \in DOMAIN object[s].paths
    /\ receiver' = [at |-> "opened", session |-> s, path |-> p, from |-> from, kind |-> kind]
    /\ UNCHANGED <<credentials, index, object, control, tunnel>>

Moved(path, from, replied) ==
    [path EXCEPT !.remote = from, !.age = 0, !.healthy = replied]

\* NAT rebinding, both clocks and the health flag; replied is FALSE when the
\* PONG or PROBE reply cannot be written.  The path object may have left the
\* map meanwhile
AcceptPacket(replied) ==
    LET s == receiver.session
        p == receiver.path
    IN  /\ receiver.at = "opened"
        /\ receiver.kind = "close" => replied
        /\ object' = [object EXCEPT
               ![s].idle = 0,
               ![s].paths = [q \in DOMAIN @ |->
                   IF q = p THEN Moved(@[q], receiver.from, replied) ELSE @[q]]]
        /\ receiver' = IF receiver.kind = "close"
                       THEN [at |-> "removing", session |-> s, path |-> p] ELSE Idle
        /\ UNCHANGED <<credentials, index, control, tunnel>>

\* (slip) the caller of removePath ignores that the session is empty
NeverLast(paths) == FALSE

WasLast(paths) == DOMAIN paths = {}

\* removePath: the last path closes the session under session.mu
RemovePath ==
    LET s == receiver.session
        paths == Restrict(object[s].paths, DOMAIN object[s].paths \ {receiver.path})
    IN  /\ receiver.at = "removing"
        /\ object' = [object EXCEPT ![s].paths = paths,
                                    ![s].closing = @ \/ DOMAIN paths = {}]
        /\ receiver' = IF WasLast(paths) THEN [at |-> "terminating", session |-> s] ELSE Idle
        /\ UNCHANGED <<credentials, index, control, tunnel>>

\* terminateSessionIfCurrent, in a later section under s.mu
TerminateIfCurrent ==
    LET s == receiver.session
    IN  /\ receiver.at = "terminating"
        /\ Detach(s)
        /\ \/ /\ s \in sessions
              /\ object' = [object EXCEPT ![s] = Closed(@)]
              /\ receiver' = QuietingThen(s, Idle)
           \/ /\ s \notin sessions
              /\ receiver' = Idle
              /\ UNCHANGED object
        /\ UNCHANGED <<credentials, control, tunnel>>

-----------------------------------------------------------------------------
(* The control plane's calls *)

\* getOrCreateSession keeps credentialMu read-locked until it returns
HandshakeHoldsCredentials == receiver.at = "quieting" /\ receiver.then # Idle

\* No other client holds the address or the key
Assignable(client, credential) ==
    \A c \in Clients \ {client} : credentials[c] # None =>
        /\ credentials[c].ip # credential.ip
        /\ credentials[c].key # credential.key

\* (slip) a replaced credential leaves the session running
NeverReplaces(client, credential) == FALSE

Replaces(client, credential) ==
    credentials[client] # None /\ credentials[client] # credential

\* AuthorizeClient: the map entry is written under credentialMu; the session
\* of the replaced credential is terminated in a later section
AuthorizeClient(t, offer) ==
    LET client == offer.client
        credential == CredentialOf(offer)
    IN  /\ control[t].at = "idle"
        /\ ~HandshakeHoldsCredentials
        /\ Assignable(client, credential)
        /\ credentials' = [credentials EXCEPT ![client] = credential]
        /\ control' = [control EXCEPT ![t] =
               IF Replaces(client, credential)
               THEN [at |-> "terminating", client |-> client] ELSE Idle]
        /\ UNCHANGED <<index, object, receiver, tunnel>>

RevokeClient(t, client) ==
    /\ control[t].at = "idle"
    /\ ~HandshakeHoldsCredentials
    /\ credentials' = [credentials EXCEPT ![client] = None]
    /\ control' = [control EXCEPT ![t] = [at |-> "terminating", client |-> client]]
    /\ UNCHANGED <<index, object, receiver, tunnel>>

\* terminateClientSession under s.mu: whatever session the client has now
TerminateClient(t) ==
    LET s == sessionByClient[control[t].client]
    IN  /\ control[t].at = "terminating"
        /\ \/ /\ s = None
              /\ control' = [control EXCEPT ![t] = Idle]
              /\ UNCHANGED <<index, object>>
           \/ /\ s # None
              /\ Detach(s)
              /\ object' = [object EXCEPT ![s] = Closed(@)]
              /\ control' = [control EXCEPT ![t] =
                     [at |-> "quieting", session |-> s, paths |-> DOMAIN object[s].paths]]
        /\ UNCHANGED <<credentials, receiver, tunnel>>

\* ... and the paths it had then are set unhealthy without a lock
QuietPaths(t) ==
    /\ control[t].at = "quieting"
    /\ object' = [object EXCEPT ![control[t].session].paths =
                      Unhealthy(@, control[t].paths)]
    /\ control' = [control EXCEPT ![t] = Idle]
    /\ UNCHANGED <<credentials, index, receiver, tunnel>>

-----------------------------------------------------------------------------
(* janitorLoop and tunLoop *)

\* expirePaths
Expire(paths) ==
    [p \in {q \in DOMAIN paths : paths[q].age <= PathTimeout} |->
        [paths[p] EXCEPT !.healthy = @ /\ paths[p].age <= HealthTimeout]]

\* (slip) the expiry test compares for equality
OverdueOnce == {s \in sessions : object[s].idle > SessionTimeout + 1}

Overdue == {s \in sessions : object[s].idle > SessionTimeout}

ByIPAfter(gone) ==
    [i \in IPs |-> IF \E s \in gone : object[s].credential.ip = i
                   THEN None ELSE sessionByIP[i]]

\* One round under s.mu.  An expired session is deleted from the indexes by
\* key, without markClosing
Janitor ==
    /\ object' = [s \in SessionIds |->
           IF s \in sessions THEN [object[s] EXCEPT !.paths = Expire(@)] ELSE object[s]]
    /\ sessions' = sessions \ Overdue
    /\ sessionByClient' = [c \in Clients |->
           IF \E s \in Overdue : object[s].client = c THEN None ELSE sessionByClient[c]]
    /\ sessionByIP' = ByIPAfter(Overdue)
    /\ activeSessions' = activeSessions - Cardinality(Overdue)
    /\ UNCHANGED <<credentials, receiver, control, tunnel>>

\* A packet for a tunnel address: the session is looked up under s.mu ...
TunnelLookup(ip) ==
    /\ tunnel = None
    /\ sessionByIP[ip] # None
    /\ tunnel' = sessionByIP[ip]
    /\ UNCHANGED <<credentials, index, object, receiver, control>>

Eligible(paths) ==
    {p \in DOMAIN paths : paths[p].healthy /\ paths[p].age <= HealthTimeout}

\* ... and one of its healthy paths is chosen and written to later; a failed
\* write sets that path unhealthy
TunnelSend ==
    LET paths == object[tunnel].paths
    IN  /\ tunnel # None
        /\ \/ Eligible(paths) = {} /\ UNCHANGED object
           \/ \E p \in Eligible(paths), written \in BOOLEAN :
                  object' = [object EXCEPT ![tunnel].paths[p].healthy = written]
        /\ tunnel' = None
        /\ UNCHANGED <<credentials, index, receiver, control>>

Aged(paths) == [p \in DOMAIN paths |-> [paths[p] EXCEPT !.age = Older(@, PathTimeout)]]

\* Time passes for the sessions in the table
Tick ==
    /\ object' = [s \in SessionIds |->
           IF s \in sessions
           THEN [object[s] EXCEPT
                    !.idle = Older(@, SessionTimeout),
                    !.paths = Aged(@)]
           ELSE object[s]]
    /\ UNCHANGED <<credentials, index, receiver, control, tunnel>>

HandleHello ==
    \/ \E hello \in Hellos, from \in Addresses : ReceiveHello(hello, from)
    \/ CredentialChanged
    \/ JoinSession
    \/ \E s \in SessionIds : CreateSession(s)
    \/ \E healthy \in BOOLEAN : RepeatWelcome(healthy)
    \/ \E written \in BOOLEAN : AddPath(written)
    \/ RefusePath

HandleEncrypted ==
    \/ \E s \in SessionIds, p \in PathIds, from \in Addresses, kind \in {"traffic", "close"} :
           ReceivePacket(s, p, from, kind)
    \/ \E replied \in BOOLEAN : AcceptPacket(replied)

Finish == RemovePath \/ TerminateIfCurrent \/ QuietReplaced

Control(t) ==
    \/ \E offer \in Offers : AuthorizeClient(t, offer)
    \/ \E client \in Clients : RevokeClient(t, client)
    \/ TerminateClient(t)
    \/ QuietPaths(t)

Next ==
    \/ HandleHello
    \/ HandleEncrypted
    \/ Finish
    \/ \E t \in Threads : Control(t)
    \/ Janitor
    \/ \E ip \in Destinations : TunnelLookup(ip)
    \/ TunnelSend
    \/ Tick

Spec == Init /\ [][Next]_vars

\* The goroutines and the ticker keep running; no datagram is assumed
FairSpec ==
    /\ Spec
    /\ WF_vars(Tick)
    /\ WF_vars(Janitor)
    /\ WF_vars(Finish)
    /\ \A t \in Threads : WF_vars(TerminateClient(t) \/ QuietPaths(t))

-----------------------------------------------------------------------------
(* Properties *)

Registration ==
    [at : {"registering"}, hello : Hellos, from : Addresses, credential : Credentials,
     session : SessionIds]
Reception ==
    {Idle} \union Registration
    \union [at : {"authenticated"}, hello : Hellos, from : Addresses, credential : Credentials]
    \union [at : {"opened"}, session : SessionIds, path : PathIds, from : Addresses,
            kind : {"traffic", "close"}]
    \union [at : {"removing"}, session : SessionIds, path : PathIds]
    \union [at : {"terminating"}, session : SessionIds]
    \union [at : {"quieting"}, session : SessionIds, paths : SUBSET PathIds,
            then : {Idle} \union Registration]
Call ==
    {Idle}
    \union [at : {"terminating"}, client : Clients]
    \union [at : {"quieting"}, session : SessionIds, paths : SUBSET PathIds]

(* Types of the table, and of what the goroutines hold between sections.    *)
(* Path ids are taken in turn, so none in use is above lastPathId.          *)
TypeOK ==
    /\ credentials \in [Clients -> Credentials \union {None}]
    /\ sessions \subseteq SessionIds
    /\ sessionByClient \in [Clients -> SessionIds \union {None}]
    /\ sessionByIP \in [IPs -> SessionIds \union {None}]
    /\ object \in [SessionIds -> Session \union {None}]
    /\ \A s \in SessionIds : object[s] # None =>
           DOMAIN object[s].paths \subseteq 1 .. object[s].lastPathId
    /\ activeSessions \in Int
    /\ receiver \in Reception
    /\ control \in [Threads -> Call]
    /\ tunnel \in SessionIds \union {None}

(* The three indexes describe one set of sessions: each entry leads to a   *)
(* listed session of that client or address, and each listed session is    *)
(* found under both.  So a client never has two sessions, and tunLoop can  *)
(* reach every session that receiveLoop accepts packets for.               *)
IndexesAgree ==
    /\ \A s \in sessions :
           /\ object[s] # None
           /\ sessionByClient[object[s].client] = s
           /\ sessionByIP[object[s].credential.ip] = s
    /\ \A c \in Clients : sessionByClient[c] # None =>
           sessionByClient[c] \in sessions /\ object[sessionByClient[c]].client = c
    /\ \A i \in IPs : sessionByIP[i] # None =>
           sessionByIP[i] \in sessions /\ object[sessionByIP[i]].credential.ip = i

(* The gauge ActiveSessions is moved by five handlers and is still the     *)
(* number of listed sessions: no session is counted out twice.             *)
GaugeExact == activeSessions = Cardinality(sessions)

Terminating(client) ==
    \E t \in Threads : control[t].at = "terminating" /\ control[t].client = client

(* A listed session, and every path of it, belongs to the credential its   *)
(* client has now, except between the two sections of AuthorizeClient and  *)
(* RevokeClient.  Once one of those returns, nothing of an old credential  *)
(* is left, although a HELLO verified with it may be half-way through      *)
(* handleHello.  (Between them a legacy HELLO with the new key may join the *)
(* session of the old one, which the second section then closes.)          *)
SessionsAreAuthorized ==
    \A s \in sessions :
        LET client == object[s].client
            credential == object[s].credential
        IN  \/ Terminating(client)
            \/ /\ credentials[client] = credential
               /\ \A p \in DOMAIN object[s].paths : object[s].paths[p].key = credential.key

(* A closing session is still listed only while receiveLoop is on its way  *)
(* to terminateSessionIfCurrent, so accepts turns HELLOs away for no       *)
(* longer than that.                                                       *)
ClosingIsLeaving ==
    \A s \in sessions : object[s].closing =>
        receiver.at = "terminating" /\ receiver.session = s

(* A session that closed stays closed and gains no path, and one that left *)
(* the table never comes back: pointers kept by the other goroutines       *)
(* cannot revive it.                                                       *)
ClosedForGood ==
    [][\A s \in SessionIds : object[s] # None =>
          /\ object[s].closing =>
                 /\ object'[s].closing
                 /\ DOMAIN object'[s].paths \subseteq DOMAIN object[s].paths
          /\ s \notin sessions => s \notin sessions']_vars

(* The address that tunLoop sends to moves only with a packet that         *)
(* authenticated on that path, never with a HELLO (docs/how-it-works.md:91)*)
RemoteFollowsAuthenticatedPackets ==
    [][\A s \in SessionIds : object[s] # None =>
          \A p \in DOMAIN object[s].paths \intersect DOMAIN object'[s].paths :
              object'[s].paths[p].remote # object[s].paths[p].remote =>
                  /\ receiver.at = "opened"
                  /\ receiver.session = s /\ receiver.path = p
                  /\ object'[s].paths[p].remote = receiver.from]_vars

(* A session that hears nothing for session_timeout leaves the table: each *)
(* session is unlisted, or freshly touched, again and again.               *)
SilentSessionsExpire ==
    \A s \in SessionIds : []<>(s \notin sessions \/ object[s].idle = 0)

(* Revocation reaches the session table: a client without a credential is  *)
(* soon without a session, unless it is authorized again.                  *)
RevokedClientsLeave ==
    \A c \in Clients :
        credentials[c] = None ~> credentials[c] # None \/ sessionByClient[c] = None

=============================================================================
