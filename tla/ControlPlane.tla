---------------------------- MODULE ControlPlane ----------------------------
(***************************************************************************)
(* Managed enrollment (internal/controlplane/store.go and service.go, wired*)
(* to the relay by cmd/linkforge/main.go).  The store is a bolt database:  *)
(* every change of it is one serialized, durable transaction.  The relay's *)
(* credentials are a second copy of it in memory, which each HTTP handler  *)
(* updates in a later step, through a hook, without a lock over the two.   *)
(*                                                                         *)
(* Codes, client ids and keys are random; they are taken never to repeat.  *)
(* Keys are numbered as they are generated.  A handler reads the clock     *)
(* just before its transaction; here it is read in it.  What RelaySessions *)
(* does with a credential is abstracted to the credential itself.          *)
(***************************************************************************)
EXTENDS Integers, Sequences

CONSTANTS
    None, Pruned,
    Codes,          \* activation codes that may be issued
    Devices,        \* client ids that Enroll may generate
    Statics,        \* clients that a configuration file may have
    StaticAddress,  \* their tunnel addresses
    RelayAddress,   \* the relay's own
    PoolSize,       \* usable host numbers of tunnel_pool: 1 .. PoolSize
    Threads,        \* HTTP handler goroutines
    MaxKeys,        \* bound on the keys generated in a behaviour
    TTL,            \* activation_ttl
    Retention       \* 24 hours in CreateActivation

Pool == 1 .. PoolSize
StaticCredential(c) == [key |-> c, ip |-> StaticAddress[c]]

\* Activation, Device and engine.ClientCredential
Activation ==
    [left : -(Retention + 1) .. TTL, usedBy : Devices \union {None}, sinceUse : 0 .. Retention + 1]
Device == [address : Pool, key : 1 .. MaxKeys, revoked : BOOLEAN, seen : BOOLEAN]
Event == {"activation.created", "device.enrolled", "device.key_rotated", "device.revoked"}
Credential == [key : (1 .. MaxKeys) \union Statics, ip : Pool]

ASSUME NoneAssumption ==
    /\ None \notin Codes /\ None \notin Devices /\ None \notin Statics /\ None \notin Nat
    /\ None \notin Activation /\ None \notin Device /\ None \notin Credential
    /\ Pruned # None /\ Pruned \notin Activation
ASSUME StaticAssumption ==
    /\ Statics \intersect Devices = {} /\ Statics \intersect Nat = {}
    /\ StaticAddress \in [Statics -> Pool \ {RelayAddress}]
    /\ \A c, d \in Statics : StaticAddress[c] = StaticAddress[d] => c = d
ASSUME BoundsAssumption ==
    PoolSize \in Nat /\ MaxKeys \in Nat /\ TTL \in Nat \ {0} /\ Retention \in Nat

VARIABLES
    activations,   \* the bucket "activations"; Pruned once deleted from it
    devices,       \* the bucket "devices"
    audit,         \* the bucket "audit", the event types by subject
    keys,          \* number of device keys generated
    enrolledWith,  \* history: the code each device was enrolled with
    running,       \* the relay process
    configured,    \* clients in its configuration file
    relay,         \* Server.credentials
    calls,         \* where each handler is, and what it has read
    contested      \* history: devices that calls overlapped on since the start

store == <<activations, devices, audit, keys, enrolledWith>>
process == <<running, configured>>
vars == <<store, process, relay, calls, contested>>

Reserved == {RelayAddress} \union {StaticAddress[c] : c \in configured}

Idle == [at |-> "idle"]
Call ==
    {Idle}
    \union [at : {"revoking"}, device : Devices]
    \union [at : {"authorizing"}, device : Devices, enrolling : BOOLEAN, credential : Credential]
Nobody == [c \in Devices \union Statics |-> None]

Enrolled == {d \in Devices : devices[d] # None}
Active == {d \in Enrolled : ~devices[d].revoked}
CredentialFor(d) == [key |-> devices[d].key, ip |-> devices[d].address]

\* (slip) revoked devices are loaded as well
ActiveCredentialsAll ==
    [c \in Devices \union Statics |->
        IF c \in configured THEN StaticCredential(c)
        ELSE IF c \in Enrolled THEN CredentialFor(c) ELSE None]

\* What NewServer and LoadCredentials authorize at start
ActiveCredentials ==
    [c \in Devices \union Statics |->
        IF c \in configured THEN StaticCredential(c)
        ELSE IF c \in Active THEN CredentialFor(c) ELSE None]

Init ==
    /\ activations = [c \in Codes |-> None]
    /\ devices = [d \in Devices |-> None]
    /\ audit = [s \in Devices \union {None} |-> <<>>]
    /\ keys = 0
    /\ enrolledWith = [d \in Devices |-> None]
    /\ running = FALSE
    /\ configured \in SUBSET Statics
    /\ relay = Nobody
    /\ calls = [t \in Threads |-> Idle]
    /\ contested = {}

Quiet(d) ==
    \A t \in Threads : calls[t] # Idle => calls[t].device # d

\* A handler has committed a change of d and goes on to its hook
Committed(t, d, call) ==
    /\ calls' = [calls EXCEPT ![t] = call]
    /\ contested' = IF Quiet(d) THEN contested ELSE contested \union {d}

Audited(subject, event) == audit' = [audit EXCEPT ![subject] = Append(@, event)]

-----------------------------------------------------------------------------
(* Activations *)

Issued == {c \in Codes : activations[c] \notin {None, Pruned}}

\* How long ago it was used, or expired
Finished(a) == IF a.usedBy = None THEN -a.left ELSE a.sinceUse

\* pruneActivations: finished more than Retention ago
PruneActivations ==
    [c \in Codes |->
        IF c \in Issued /\ Finished(activations[c]) > Retention
        THEN Pruned ELSE activations[c]]

CreateActivation(code, ttl) ==
    /\ running
    /\ activations[code] = None
    /\ activations' = [PruneActivations EXCEPT ![code] =
           [left |-> ttl, usedBy |-> None, sinceUse |-> 0]]
    /\ Audited(None, "activation.created")
    /\ UNCHANGED <<devices, keys, enrolledWith, process, relay, calls, contested>>

\* Time, as far as the activations can tell it
Tick ==
    /\ activations' = [c \in Codes |->
           IF c \notin Issued THEN activations[c]
           ELSE [activations[c] EXCEPT
                    !.left = IF @ < -Retention THEN @ ELSE @ - 1,
                    !.sinceUse = IF activations[c].usedBy = None \/ @ > Retention
                                 THEN @ ELSE @ + 1]]
    /\ UNCHANGED <<devices, audit, keys, enrolledWith, process, relay, calls, contested>>

-----------------------------------------------------------------------------
(* Enrollment, rotation, revocation: a transaction, then the relay's hook *)

\* (slip) the code may have been used
ValidWhileFresh(code) == code \in Issued /\ activations[code].left > 0

Valid(code) ==
    code \in Issued /\ activations[code].usedBy = None /\ activations[code].left > 0

\* (slip) the address of a revoked device is given out again
TakenByActive == Reserved \union {devices[d].address : d \in Active}

\* A revoked device keeps its address
Taken == Reserved \union {devices[d].address : d \in Enrolled}

\* allocateAddress: the first one free, or ErrPoolExhausted
FirstFree(a) == a \in Pool \ Taken /\ \A b \in Pool \ Taken : a <= b

Enroll(t, code, d) ==
    /\ running /\ calls[t] = Idle
    /\ Valid(code)
    /\ d \notin Enrolled
    /\ keys < MaxKeys
    /\ \E address \in Pool :
           /\ FirstFree(address)
           /\ devices' = [devices EXCEPT ![d] =
                  [address |-> address, key |-> keys + 1, revoked |-> FALSE, seen |-> FALSE]]
           /\ Committed(t, d,
                  [at |-> "authorizing", device |-> d, enrolling |-> TRUE,
                   credential |-> [key |-> keys + 1, ip |-> address]])
    /\ keys' = keys + 1
    /\ activations' = [activations EXCEPT ![code].usedBy = d, ![code].sinceUse = 0]
    /\ enrolledWith' = [enrolledWith EXCEPT ![d] = code]
    /\ Audited(d, "device.enrolled")
    /\ UNCHANGED <<process, relay>>

\* (slip) a revoked device may rotate its key, too
RotatableEnrolled == Enrolled

Rotatable == Active

\* (slip) the new key is not written to the store
RotateUnstored(t, d) ==
    /\ running /\ calls[t] = Idle
    /\ d \in Rotatable
    /\ keys < MaxKeys
    /\ keys' = keys + 1
    /\ Committed(t, d,
           [at |-> "authorizing", device |-> d, enrolling |-> FALSE,
            credential |-> [key |-> keys + 1, ip |-> devices[d].address]])
    /\ Audited(d, "device.key_rotated")
    /\ UNCHANGED <<activations, devices, enrolledWith, process, relay>>

Rotate(t, d) ==
    /\ running /\ calls[t] = Idle
    /\ d \in Rotatable
    /\ keys < MaxKeys
    /\ devices' = [devices EXCEPT ![d].key = keys + 1]
    /\ keys' = keys + 1
    /\ Committed(t, d,
           [at |-> "authorizing", device |-> d, enrolling |-> FALSE,
            credential |-> [key |-> keys + 1, ip |-> devices[d].address]])
    /\ Audited(d, "device.key_rotated")
    /\ UNCHANGED <<activations, enrolledWith, process, relay>>

\* (slip) a device already revoked is revoked and audited again
RevokeAgain(d) ==
    /\ devices' = [devices EXCEPT ![d].revoked = TRUE]
    /\ Audited(d, "device.revoked")

\* Store.Revoke
RevokeRecord(d) ==
    IF d \in Active
    THEN /\ devices' = [devices EXCEPT ![d].revoked = TRUE]
         /\ Audited(d, "device.revoked")
    ELSE UNCHANGED <<devices, audit>>

Revoke(t, d) ==
    /\ running /\ calls[t] = Idle
    /\ d \in Enrolled
    /\ RevokeRecord(d)
    /\ Committed(t, d, [at |-> "revoking", device |-> d])
    /\ UNCHANGED <<activations, keys, enrolledWith, process, relay>>

\* AuthorizeClient takes an address and a key no other client has
Assignable(c, credential) ==
    \A o \in (Devices \union Statics) \ {c} : relay[o] # None =>
        relay[o].ip # credential.ip /\ relay[o].key # credential.key

\* hooks.Authorize; if it fails, an enrollment is withdrawn from the store
AuthorizeHook(t) ==
    LET call == calls[t]
    IN  /\ call.at = "authorizing"
        /\ IF Assignable(call.device, call.credential)
           THEN /\ relay' = [relay EXCEPT ![call.device] = call.credential]
                /\ UNCHANGED <<devices, audit>>
           ELSE /\ IF call.enrolling THEN RevokeRecord(call.device)
                   ELSE UNCHANGED <<devices, audit>>
                /\ UNCHANGED relay
        /\ calls' = [calls EXCEPT ![t] = Idle]
        /\ UNCHANGED <<activations, keys, enrolledWith, process, contested>>

RevokeHook(t) ==
    /\ calls[t].at = "revoking"
    /\ relay' = [relay EXCEPT ![calls[t].device] = None]
    /\ calls' = [calls EXCEPT ![t] = Idle]
    /\ UNCHANGED <<store, process, contested>>

\* The relay's clientSeen goroutine, however late
Touch(d) ==
    /\ running
    /\ d \in Enrolled
    /\ devices' = [devices EXCEPT ![d].seen = TRUE]
    /\ UNCHANGED <<activations, audit, keys, enrolledWith, process, relay, calls, contested>>

-----------------------------------------------------------------------------
(* The process *)

\* A crash, or a stop that does not wait for the handlers
Crash ==
    /\ running
    /\ running' = FALSE
    /\ relay' = Nobody
    /\ calls' = [t \in Threads |-> Idle]
    /\ contested' = {}
    /\ UNCHANGED <<store, configured>>

\* (slip) a stored credential that is refused is skipped
LoadableAlways == TRUE

\* LoadCredentials fails, and the relay does not start, if two credentials
\* have the same address
Loadable ==
    \A c, d \in configured \union Active :
        c # d => ActiveCredentials[c].ip # ActiveCredentials[d].ip

\* runServer: no handler runs before the stored credentials are loaded
Start ==
    /\ ~running
    /\ Loadable
    /\ running' = TRUE
    /\ relay' = ActiveCredentials
    /\ UNCHANGED <<store, configured, calls, contested>>

\* The configuration file is edited between two runs
Configure ==
    /\ ~running
    /\ configured' \in SUBSET Statics
    /\ UNCHANGED <<store, running, relay, calls, contested>>

Handler(t) ==
    \/ \E code \in Codes, d \in Devices : Enroll(t, code, d)
    \/ \E d \in Devices : Rotate(t, d)
    \/ \E d \in Devices : Revoke(t, d)
    \/ AuthorizeHook(t)
    \/ RevokeHook(t)

Next ==
    \/ \E code \in Codes, ttl \in 1 .. TTL : CreateActivation(code, ttl)
    \/ \E t \in Threads : Handler(t)
    \/ \E d \in Devices : Touch(d)
    \/ Tick
    \/ Crash
    \/ Configure
    \/ Start

Spec == Init /\ [][Next]_vars

-----------------------------------------------------------------------------
(* Properties *)

(* Types of the buckets, of the relay's copy and of the handlers. *)
TypeOK ==
    /\ activations \in [Codes -> Activation \union {None, Pruned}]
    /\ devices \in [Devices -> Device \union {None}]
    /\ \A d \in Enrolled : devices[d].key <= keys
    /\ audit \in [Devices \union {None} -> Seq(Event)]
    /\ keys \in 0 .. MaxKeys
    /\ enrolledWith \in [Devices -> Codes \union {None}]
    /\ running \in BOOLEAN
    /\ configured \subseteq Statics
    /\ relay \in [Devices \union Statics -> Credential \union {None}]
    /\ contested \subseteq Devices
    /\ calls \in [Threads -> Call]

(* docs/enrollment-api.md:13: activation codes work once, whichever         *)
(* enrollments race for them, and after the relay restarts or prunes them.  *)
CodesWorkOnce ==
    \A d, e \in Enrolled : enrolledWith[d] = enrolledWith[e] => d = e

(* No tunnel address is ever given to two devices, not even one that a      *)
(* revoked device had; and while the relay runs, no device that it may       *)
(* accept has the address of the relay or of a configured client, whatever   *)
(* clients were configured when the device was enrolled.                     *)
AddressesUnique ==
    /\ \A d, e \in Enrolled : devices[d].address = devices[e].address => d = e
    /\ running => \A d \in Enrolled :
           d \in Active \/ relay[d] # None => devices[d].address \notin Reserved

(* So a relay that has started never refuses what a handler asks it to      *)
(* authorize, however far its copy is behind the store and whatever clients *)
(* were configured before: no committed enrollment is withdrawn             *)
(* (service.go:191-195) and no rotated key is lost (service.go:261).        *)
NeverRefused ==
    \A t \in Threads : calls[t].at = "authorizing" =>
        Assignable(calls[t].device, calls[t].credential)

(* The relay is never ahead of the store: a key it accepts is the durable   *)
(* one or an earlier one of the same device, at the device's address.       *)
DurableBeforeLive ==
    \A d \in Devices : relay[d] # None =>
        d \in Enrolled /\ relay[d].ip = devices[d].address /\ relay[d].key <= devices[d].key

(* The audit log of each device tells its life: it begins with the          *)
(* enrollment, ends with the revocation if it was revoked, and has each of  *)
(* them once, however many calls asked for it.                              *)
AuditTellsHistory ==
    \A d \in Devices : LET log == audit[d] IN
        /\ d \in Enrolled <=> log # <<>>
        /\ \A i \in 1 .. Len(log) :
               /\ log[i] = "device.enrolled" <=> i = 1
               /\ log[i] = "device.revoked" <=> i = Len(log) /\ d \notin Active

(* Whatever crash falls between a transaction and its hook, the relay        *)
(* accepts exactly what the store holds of a device, unless calls about that *)
(* device overlapped since the relay started.                                *)
RelayMirrorsStore ==
    running => \A d \in Devices \ contested : Quiet(d) =>
        relay[d] = IF d \in Active THEN CredentialFor(d) ELSE None

(* docs/enrollment-api.md:78: "Rotation and revocation take effect in the   *)
(* running relay immediately": once the calls about it are answered, the    *)
(* relay has dropped a revoked device and accepts the last key of an active.*)
ChangesTakeEffect ==
    running => \A d \in Enrolled : Quiet(d) =>
        relay[d] = IF d \in Active THEN CredentialFor(d) ELSE None
-----------------------------------------------------------------------------
(* The devices as the registry sees them *)

Lives ==
    [d \in Devices |-> IF d \notin Enrolled THEN "unknown"
                       ELSE IF d \in Active THEN "member" ELSE "left"]
Addresses == [d \in Devices |-> IF d \in Enrolled THEN devices[d].address ELSE None]
Keys == [d \in Devices |-> IF d \in Enrolled THEN devices[d].key ELSE 0]

Promised ==
    INSTANCE Registry WITH
        life <- Lives, code <- enrolledWith, address <- Addresses, key <- Keys,
        Addresses <- Pool, Keys <- 1 .. MaxKeys

(* The store implements the registry, whatever handlers, crashes, pruning   *)
(* and edits of the configuration come between its transactions: no step    *)
(* brings a revoked device back, moves an address, lowers a key or uses a   *)
(* code for a second device, even when the code is no longer in the store.  *)
ImplementsRegistry == Promised!Spec
=============================================================================
