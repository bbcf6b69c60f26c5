--------------------------- MODULE ClientSession ---------------------------
(***************************************************************************)
(* The session of a client engine (internal/engine/client.go): Run, its    *)
(* connect, the health loop with the goroutines it starts (reconnectPath,  *)
(* rejoinAll), the receive loops, the TUN loop and close.                  *)
(*                                                                         *)
(* A clientPath is a slot <<uplink, k>> of the heap; it stays there as     *)
(* long as it is installed, its socket is open, or a goroutine holds a     *)
(* pointer to it.  The relay is what a HELLO sees of it                    *)
(* (getOrCreateSession): the client's session and its instance nonce.      *)
(* Ids and nonces are random; here they are numbered, and never repeat.    *)
(*                                                                         *)
(* A path is healthy or not; that it has become silent, that a write to it *)
(* failed and that the relay closed it are one thing.  A goroutine begins  *)
(* reconnectPath when the health loop starts it, rejoinAll some time after.*)
(* A new path is installed and its receiver started in one step.           *)
(***************************************************************************)
EXTENDS Integers

CONSTANTS
    None, Hello, Failed, Idle,
    Uplinks,       \* the enabled paths of the configuration
    Slots,         \* bound on the clientPaths of an uplink alive at a time
    MaxSessions,   \* bound on the sessions the relay creates in a behaviour
    MaxInstances,  \* bound on the instance nonces of a behaviour
    MaxData,       \* bound on the numbers given out in a session
    MaxForgets     \* bound on relay restarts and expiries in a behaviour

ASSUME PoolsAssumption ==
    /\ {Slots, MaxSessions, MaxInstances, MaxData, MaxForgets} \subseteq Nat
    /\ MaxInstances > 0

Objects == Uplinks \X (1 .. Slots)
Sessions == 1 .. MaxSessions
Instances == 1 .. MaxInstances

\* A handshake of reconnectPath: its HELLO carries the instance nonce it was
\* started with, its WELCOME names a session
Dial == [at : {"hello"}, of : Instances] \union [at : {"welcomed", "checked"}, of : Sessions]

\* A clientPath; dial is the reconnectPath that is at work on it
ClientPath == [session : Sessions \union {None}, open : BOOLEAN, healthy : BOOLEAN,
               dial : Dial \union {Idle}]

\* The values for "nothing" and for a handshake without WELCOME name nothing
\* else
ASSUME NothingAssumption ==
    /\ None \notin Objects \union Sessions \union Instances \union ClientPath
    /\ Hello # Failed /\ {Hello, Failed} \intersect (Sessions \union {None}) = {}
    /\ Idle \notin Dial \union {"connecting", "chosen", "closed", "cleared"}

VARIABLES
    run,           \* Run: "connecting", "running" or "stopped" (it has returned)
    cancelled,     \* ctx is done
    heap,          \* the clientPaths
    paths,         \* Client.paths
    sessionID,     \* Client.sessionID, None for 0
    instance,      \* Client.instanceNonce
    dataSeq,       \* Client.dataSeq
    phase,         \* how far the one connect or rejoinAll is, Idle if none runs
    handshakes,    \* connect's, by uplink: Hello, Failed, or the session joined
    rejoins,       \* has a goroutine been started for rejoinAll that has not begun?
    tunnel,        \* the path tunLoop has chosen for a packet, or None
    relay,         \* the relay's session of this client and its instance nonce
    created,       \* the number of sessions the relay has created
    forgets,       \* how often the relay has forgotten the session
    sent,          \* history: the numbers sent over each session
    overtaken,     \* history: was a path replaced after rejoinAll's snapshot?
    forgotten,     \* history: was an open socket left without an owner?
    reused         \* history: was a number sent twice over one session?

shared == <<heap, paths, sessionID, instance, dataSeq>>
goroutines == <<phase, handshakes, rejoins, tunnel>>
history == <<sent, overtaken, forgotten, reused>>
remote == <<relay, created, forgets>>
vars == <<run, cancelled, shared, goroutines, remote, history>>

NoSession == [session |-> None, instance |-> None]
NoHandshakes == [u \in Uplinks |-> Failed]
Live == {o \in Objects : heap[o] # None}

Init ==
    /\ run = "connecting"
    /\ cancelled = FALSE
    /\ heap = [o \in Objects |-> None]
    /\ paths = {}
    /\ sessionID = None
    /\ instance = 1
    /\ dataSeq = 0
    /\ phase = "connecting"
    /\ handshakes = [u \in Uplinks |-> Hello]
    /\ rejoins = FALSE
    /\ tunnel = None
    /\ relay = NoSession
    /\ created = 0
    /\ forgets = 0
    /\ sent = [s \in Sessions |-> {}]
    /\ overtaken = FALSE
    /\ forgotten = FALSE
    /\ reused = FALSE

-----------------------------------------------------------------------------
(* Memory *)

Path(session) == [session |-> session, open |-> TRUE, healthy |-> TRUE, dial |-> Idle]

Free(u) == {k \in 1 .. Slots : heap[<<u, k>>] = None}
NewPath(u) == <<u, CHOOSE k \in Free(u) : TRUE>>

\* The client's paths become P and the clientPaths h.  One that nobody refers
\* to is gone; of one that is closed and replaced only its goroutine is left.
Keep(h, P) ==
    LET held(o) == h[o] # None /\ (o \in P \/ h[o].dial # Idle \/ tunnel' = o)
    IN  /\ paths' = P
        /\ heap' = [o \in Objects |->
               IF ~held(o) THEN None
               ELSE IF o \in P \/ h[o].open THEN h[o]
               ELSE [h[o] EXCEPT !.session = None, !.healthy = FALSE]]
        /\ forgotten' = (forgotten \/ \E o \in Objects \ P : h[o] # None /\ h[o].open)

\* The paths of O closed
ClosedIn(h, O) == [o \in Objects |-> IF o \in O THEN [h[o] EXCEPT !.open = FALSE] ELSE h[o]]

-----------------------------------------------------------------------------
(* The relay *)

Dialing(i) == {o \in Live : heap[o].dial = [at |-> "hello", of |-> i]}

\* A HELLO of instance i reaches the relay: it joins the session of i or
\* replaces the client's session
Joins(i) ==
    IF relay.instance = i
    THEN UNCHANGED <<relay, created>>
    ELSE /\ created < MaxSessions
         /\ created' = created + 1
         /\ relay' = [session |-> created', instance |-> i]

\* The relay restarts, expires the session or closes it
RelayForgets ==
    /\ relay # NoSession
    /\ forgets < MaxForgets
    /\ forgets' = forgets + 1
    /\ relay' = NoSession
    /\ UNCHANGED <<run, cancelled, shared, goroutines, created, history>>

-----------------------------------------------------------------------------
(* connect, called by Run and by rejoinAll *)

Shaking == {u \in Uplinks : phase = "connecting" /\ handshakes[u] = Hello}

ConnectAnswered(u) ==
    /\ u \in Shaking
    /\ Joins(instance)
    /\ handshakes' = [handshakes EXCEPT ![u] = relay'.session]
    /\ UNCHANGED <<run, cancelled, shared, phase, rejoins, tunnel, forgets, history>>

\* Its HELLOs or all WELCOMEs are lost, or the uplink is not there
ConnectTimesOut(u) ==
    /\ u \in Shaking
    /\ handshakes' = [handshakes EXCEPT ![u] = Failed]
    /\ UNCHANGED <<run, cancelled, shared, phase, rejoins, tunnel, remote, history>>

\* A HELLO arrives whose WELCOME is lost
HelloUnanswered ==
    /\ \E i \in Instances :
          /\ Dialing(i) # {} \/ (i = instance /\ Shaking # {})
          /\ relay.instance # i
          /\ Joins(i)
    /\ UNCHANGED <<run, cancelled, shared, goroutines, forgets, history>>

Joined == {handshakes[u] : u \in Uplinks} \ {Failed}

\* (slip) paths of another session are kept
KeptAll(s) == handshakes

\* Those that joined the session s; the sockets of the others are closed
Kept(s) == [u \in Uplinks |-> IF handshakes[u] = s THEN s ELSE Failed]

\* Every handshake has ended: the first path decides which session it is
ChooseSession ==
    /\ phase = "connecting" /\ Shaking = {} /\ Joined # {}
    /\ \E s \in Joined :
          /\ sessionID' = s
          /\ handshakes' = Kept(s)
    /\ phase' = "chosen"
    /\ UNCHANGED <<run, cancelled, heap, paths, instance, dataSeq, rejoins,
                   tunnel, remote, history>>

AfterFailure == Idle

\* "all paths failed to authenticate with the relay": Run returns the error,
\* rejoinAll leaves it to the health loop
ConnectFails ==
    /\ phase = "connecting" /\ Shaking = {} /\ Joined = {}
    /\ phase' = AfterFailure
    /\ run' = IF run = "connecting" THEN "stopped" ELSE run
    /\ UNCHANGED <<cancelled, shared, handshakes, rejoins, tunnel, remote, history>>

\* The paths are installed and their receivers started
InstallPaths ==
    /\ phase = "chosen"
    /\ LET U == {u \in Uplinks : handshakes[u] # Failed}
           new == {NewPath(u) : u \in U}
       IN  /\ \A u \in U : Free(u) # {}
           /\ UNCHANGED tunnel
           /\ Keep([o \in Objects |->
                       IF o \in new THEN Path(handshakes[o[1]]) ELSE heap[o]], new)
    /\ phase' = Idle
    /\ handshakes' = NoHandshakes
    /\ run' = IF run = "connecting" THEN "running" ELSE run
    /\ UNCHANGED <<cancelled, sessionID, instance, dataSeq, rejoins, remote, sent, overtaken, reused>>

-----------------------------------------------------------------------------
(* rejoinAll *)

\* Its goroutine begins; it ends at once if another is at work
BeginRejoin ==
    /\ rejoins
    /\ rejoins' = FALSE
    /\ IF phase # Idle \/ cancelled
       THEN UNCHANGED <<heap, phase>>
       ELSE /\ heap' = ClosedIn(heap, paths)
            /\ phase' = "closed"
    /\ UNCHANGED <<run, cancelled, paths, sessionID, instance, dataSeq,
                   handshakes, tunnel, remote, history>>

ClearPaths ==
    /\ phase = "closed"
    /\ phase' = "cleared"
    /\ UNCHANGED tunnel
    /\ Keep(heap, {})
    /\ UNCHANGED <<run, cancelled, sessionID, instance, dataSeq, handshakes,
                   rejoins, remote, sent, overtaken, reused>>

\* (slip) the relay is asked for a session with the same nonce
SameNonce == instance

\* rotateInstanceNonce
NewNonce == instance + 1

\* A new instance nonce, an empty buffer, numbers from 1; then connect
NewIdentity ==
    /\ phase = "cleared"
    /\ instance < MaxInstances
    /\ instance' = NewNonce
    /\ dataSeq' = 0
    /\ sessionID' = None
    /\ phase' = "connecting"
    /\ handshakes' = [u \in Uplinks |-> Hello]
    /\ UNCHANGED <<run, cancelled, heap, paths, rejoins, tunnel, remote, history>>

\* The random generator fails
NoIdentity ==
    /\ phase = "cleared"
    /\ phase' = Idle
    /\ UNCHANGED <<run, cancelled, shared, handshakes, rejoins, tunnel, remote, history>>

-----------------------------------------------------------------------------
(* The health loop and reconnectPath *)

\* (slip) with no path left the health loop has nothing to do
NoPathLeftIgnored == FALSE

\* (slip) the health loop survives the context
NoPathLeftForever == run # "connecting" /\ paths = {}

NoPathLeft == run = "running" /\ ~cancelled /\ paths = {}

HealthFindsNoPath ==
    /\ NoPathLeft
    /\ rejoins' = TRUE
    /\ UNCHANGED <<run, cancelled, shared, phase, handshakes, tunnel, remote, history>>

\* o has been silent for four health intervals, a write to it has failed, or
\* it received CLOSE
PathFails(o) ==
    /\ o \in paths /\ heap[o].healthy
    /\ heap' = [heap EXCEPT ![o].healthy = FALSE]
    /\ UNCHANGED <<run, cancelled, paths, sessionID, instance, dataSeq,
                   goroutines, remote, history>>

SetDial(o, dial) == [heap EXCEPT ![o].dial = dial]

HealthReconnects(o) ==
    /\ run = "running" /\ ~cancelled
    /\ o \in paths /\ ~heap[o].healthy /\ heap[o].dial = Idle
    /\ heap' = SetDial(o, [at |-> "hello", of |-> instance])
    /\ UNCHANGED <<run, cancelled, paths, sessionID, instance, dataSeq,
                   goroutines, remote, history>>

ReconnectAnswered(o) ==
    /\ o \in Live /\ heap[o].dial # Idle /\ heap[o].dial.at = "hello"
    /\ Joins(heap[o].dial.of)
    /\ heap' = SetDial(o, [at |-> "welcomed", of |-> relay'.session])
    /\ UNCHANGED <<run, cancelled, paths, sessionID, instance, dataSeq,
                   goroutines, forgets, history>>

ReconnectTimesOut(o) ==
    /\ o \in Live /\ heap[o].dial # Idle /\ heap[o].dial.at = "hello"
    /\ UNCHANGED tunnel
    /\ Keep(SetDial(o, Idle), paths)
    /\ UNCHANGED <<run, cancelled, sessionID, instance, dataSeq, phase,
                   handshakes, rejoins, remote, sent, overtaken, reused>>

\* (slip) the session of the WELCOME is not compared
AnySessionWillDo(s) == TRUE

SameSession(s) == s = sessionID

\* The client has stopped meanwhile, or the session is another one: the new
\* socket is closed
CheckReconnect(o) ==
    /\ o \in Live /\ heap[o].dial # Idle /\ heap[o].dial.at = "welcomed"
    /\ UNCHANGED tunnel
    /\ LET usable == ~cancelled /\ SameSession(heap[o].dial.of)
       IN  /\ Keep(SetDial(o, IF usable THEN [heap[o].dial EXCEPT !.at = "checked"]
                             ELSE Idle), paths)
           /\ rejoins' = (rejoins \/ (~cancelled /\ ~usable))
    /\ UNCHANGED <<run, cancelled, sessionID, instance, dataSeq, phase,
                   handshakes, remote, sent, overtaken, reused>>

\* (slip) the socket of the old path stays open
Superseded(h, o) == h

Replaced(h, o) == ClosedIn(h, {o})

\* The new path takes the place of o, which is closed; if o is not there any
\* more, the new one is closed
ReplacePath(o) ==
    /\ o \in Live /\ heap[o].dial # Idle /\ heap[o].dial.at = "checked"
    /\ UNCHANGED tunnel
    /\ IF o \in paths
       THEN /\ Free(o[1]) # {}
            /\ LET new == NewPath(o[1])
               IN  Keep([Replaced(SetDial(o, Idle), o) EXCEPT
                            ![new] = Path(heap[o].dial.of)],
                        (paths \ {o}) \union {new})
            /\ overtaken' = (overtaken \/ phase = "closed")
       ELSE /\ Keep(SetDial(o, Idle), paths)
            /\ UNCHANGED overtaken
    /\ UNCHANGED <<run, cancelled, sessionID, instance, dataSeq, phase,
                   handshakes, rejoins, remote, sent, reused>>

-----------------------------------------------------------------------------
(* Receive loops and TUN loop *)

\* A datagram of the relay's is authentic: the path has recovered
PathHeard(o) ==
    /\ o \in paths /\ heap[o].open /\ ~heap[o].healthy
    /\ heap[o].session = relay.session
    /\ heap' = [heap EXCEPT ![o].healthy = TRUE]
    /\ UNCHANGED <<run, cancelled, paths, sessionID, instance, dataSeq,
                   goroutines, remote, history>>

\* nextPath
ChoosePath(o) ==
    /\ run = "running" /\ tunnel = None
    /\ o \in paths /\ heap[o].healthy
    /\ tunnel' = o
    /\ UNCHANGED <<run, cancelled, shared, phase, handshakes, rejoins, remote, history>>

\* The packet gets its number and is sent, if the socket is still open; past
\* the bound on numbers it is dropped
SendData ==
    /\ tunnel # None
    /\ tunnel' = None
    /\ dataSeq' = IF dataSeq < MaxData THEN dataSeq + 1 ELSE dataSeq
    /\ LET s == heap[tunnel].session
       IN  IF heap[tunnel].open /\ dataSeq < MaxData
           THEN /\ reused' = (reused \/ dataSeq' \in sent[s])
                /\ sent' = [sent EXCEPT ![s] = @ \union {dataSeq'}]
           ELSE UNCHANGED <<sent, reused>>
    /\ Keep([heap EXCEPT ![tunnel].healthy = @ /\ heap[tunnel].open], paths)
    /\ UNCHANGED <<run, cancelled, sessionID, instance, phase, handshakes,
                   rejoins, remote, overtaken>>

-----------------------------------------------------------------------------
(* Stopping *)

\* ctx is cancelled, or tunLoop fails and Run cancels runCtx
Cancel ==
    /\ ~cancelled
    /\ cancelled' = TRUE
    /\ UNCHANGED <<run, shared, goroutines, remote, history>>

\* close: CLOSE over every path, sockets closed; the relay drops the session
\* unless the CLOSEs are lost.  Then Run returns.
Close ==
    /\ run = "running" /\ cancelled
    /\ run' = "stopped"
    /\ heap' = ClosedIn(heap, paths)
    /\ relay' \in {relay} \union
           {NoSession : o \in {p \in paths : heap[p].open /\ heap[p].session = relay.session}}
    /\ UNCHANGED <<cancelled, paths, sessionID, instance, dataSeq, goroutines,
                   created, forgets, history>>

-----------------------------------------------------------------------------
Connect ==
    \/ \E u \in Uplinks : ConnectAnswered(u) \/ ConnectTimesOut(u)
    \/ ChooseSession \/ ConnectFails \/ InstallPaths

RejoinAll == BeginRejoin \/ ClearPaths \/ NewIdentity \/ NoIdentity

HealthLoop ==
    HealthFindsNoPath \/ \E o \in Objects : PathFails(o) \/ HealthReconnects(o)

ReconnectPath ==
    \E o \in Objects :
        ReconnectAnswered(o) \/ ReconnectTimesOut(o) \/ CheckReconnect(o) \/ ReplacePath(o)

ReceiveLoop == \E o \in Objects : PathHeard(o)

TunLoop == (\E o \in Objects : ChoosePath(o)) \/ SendData

Next ==
    \/ Connect \/ RejoinAll \/ HealthLoop \/ ReconnectPath \/ ReceiveLoop \/ TunLoop
    \/ HelloUnanswered \/ RelayForgets \/ Cancel \/ Close

Spec == Init /\ [][Next]_vars

\* A path the relay does not serve falls silent; goroutines go on; a handshake
\* ends; and the network does not lose every handshake there ever is.
FairSpec ==
    /\ Spec
    /\ \A o \in Objects :
          /\ WF_vars(PathFails(o) /\ heap[o].session # relay.session)
          /\ WF_vars(HealthReconnects(o))
          /\ WF_vars(ReconnectAnswered(o) \/ ReconnectTimesOut(o))
          /\ WF_vars(CheckReconnect(o))
          /\ WF_vars(ReplacePath(o))
    /\ \A u \in Uplinks : WF_vars(ConnectAnswered(u) \/ ConnectTimesOut(u))
    /\ WF_vars(ChooseSession) /\ WF_vars(ConnectFails) /\ WF_vars(InstallPaths)
    /\ WF_vars(BeginRejoin) /\ WF_vars(ClearPaths) /\ WF_vars(NewIdentity \/ NoIdentity)
    /\ WF_vars(HealthFindsNoPath)
    /\ WF_vars(SendData) /\ WF_vars(Close)
    /\ SF_vars(NewIdentity)
    /\ SF_vars(\E o \in Objects : ReconnectAnswered(o))
    /\ SF_vars(\E u \in Uplinks : ConnectAnswered(u))

-----------------------------------------------------------------------------
(* Properties *)

\* Types; a path that is installed exists (the shape of Client and clientPath).
TypeOK ==
    /\ run \in {"connecting", "running", "stopped"} /\ cancelled \in BOOLEAN
    /\ heap \in [Objects -> ClientPath \union {None}]
    /\ paths \subseteq Live
    /\ sessionID \in Sessions \union {None} /\ instance \in Instances
    /\ dataSeq \in 0 .. MaxData
    /\ phase \in {Idle, "connecting", "chosen", "closed", "cleared"}
    /\ handshakes \in [Uplinks -> Sessions \union {Hello, Failed}]
    /\ rejoins \in BOOLEAN /\ tunnel \in Live \union {None}
    /\ relay \in [session : Sessions, instance : Instances] \union {NoSession}
    /\ created \in 0 .. MaxSessions
    /\ forgets \in 0 .. MaxForgets /\ sent \in [Sessions -> SUBSET (1 .. MaxData)]
    /\ {overtaken, forgotten, reused} \subseteq BOOLEAN

\* Every path the client uses belongs to the one session it knows, whatever a
\* reconnect decided before a rejoin (connect, reconnectPath and rejoinAll
\* write paths and sessionID under different locks).
PathsShareSession == \A o \in paths : heap[o].session = sessionID

\* rejoinAll starts the numbers again from 1: no number is sent twice over one
\* relay session, though tunLoop may have chosen its path before.  The one
\* exception is a path replaced after rejoinAll had closed the others.
NumbersUsedOnce == reused => overtaken

\* Every open socket is in the path list, where close and rejoinAll find it.
\* The one exception is the same.
SocketsAreOwned == forgotten => overtaken

Rejoined ==
    /\ paths # {} /\ relay.session = sessionID
    /\ \A o \in paths : heap[o].session = relay.session

\* The behaviour has used up what the bounds allow
Exhausted == created = MaxSessions \/ instance = MaxInstances

\* A client whose session the relay has lost, or that lost every path, gets a
\* session again, unless it is stopped (docs/how-it-works.md: "If the relay
\* restarted, the client rebuilds the complete session").
RecoversItsSession == run = "running" ~> Rejoined \/ cancelled \/ Exhausted

AllDone ==
    /\ run = "stopped" /\ phase = Idle /\ ~rejoins
    /\ \A o \in Live : heap[o].dial = Idle

\* After a cancellation Run returns and every goroutine that dials ends.
StopsCompletely == cancelled ~> []AllDone

\* When Run has returned the engine is closed: no socket is open any more
\* (docs/managed-service.md: Stop "waits for the engine to close").  It does not
\* hold: a reconnect or a rejoin past its look at the context may come later.
ClosedWhenStopped == run = "stopped" => \A o \in Live : ~heap[o].open
=============================================================================
