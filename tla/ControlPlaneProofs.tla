------------------------- MODULE ControlPlaneProofs -------------------------
(***************************************************************************)
(* Managed enrollment, for any number of codes, devices, handlers, crashes *)
(* and changes of the configuration.                                       *)
(*                                                                         *)
(* What the properties lack to be inductive: that the code of an enrolled  *)
(* device is spent for good; that a handler between its transaction and    *)
(* its hook holds what the store has, or had, of that device; that no key  *)
(* is held for two devices; what the relay has of the configured clients;  *)
(* which addresses a running relay may still be asked for; and that the    *)
(* handlers do not outlive the process.                                    *)
(***************************************************************************)
EXTENDS ControlPlane, TLAPS

Authorizing(t) == calls[t].at = "authorizing"
Revoking(t) == calls[t].at = "revoking"

(* The code of an enrolled device is in the store as a used one, or pruned. *)
CodesSpent ==
    \A d \in Enrolled :
        /\ enrolledWith[d] \in Codes
        /\ activations[enrolledWith[d]] # None
        /\ enrolledWith[d] \in Issued => activations[enrolledWith[d]].usedBy # None

(* Allocation avoids the relay's address and every device's, revoked or not. *)
AddressesApart ==
    /\ \A d \in Enrolled : devices[d].address # RelayAddress
    /\ \A d, e \in Enrolled : devices[d].address = devices[e].address => d = e

(* A handler on its way to a hook carries what was committed of its device. *)
CallsDurable ==
    \A t \in Threads : calls[t] # Idle =>
        /\ calls[t].device \in Enrolled
        /\ Revoking(t) => calls[t].device \notin Active
        /\ Authorizing(t) =>
               /\ calls[t].credential.ip = devices[calls[t].device].address
               /\ calls[t].credential.key \in Nat
               /\ calls[t].credential.key <= devices[calls[t].device].key

(* What the relay accepts of a device was generated for it, not configured. *)
KeysGenerated == \A d \in Devices : relay[d] # None => relay[d].key \in 1 .. keys

(* What a device has as its key, in the store, in the relay or on the way.  *)
Holds(d, key) ==
    \/ d \in Enrolled /\ devices[d].key = key
    \/ relay[d] # None /\ relay[d].key = key
    \/ \E t \in Threads : Authorizing(t) /\ calls[t].device = d /\ calls[t].credential.key = key

KeysApart ==
    \A d, e \in Devices : \A key \in 1 .. MaxKeys : Holds(d, key) /\ Holds(e, key) => d = e

(* The configured clients are in the relay as long as it runs, as they are  *)
(* configured, and no other static client is.                               *)
StaticsAsConfigured ==
    \A c \in Statics :
        relay[c] = IF running /\ c \in configured THEN StaticCredential(c) ELSE None

(* A device that the relay accepts, or may be asked to, is at nobody else's *)
(* address.                                                                 *)
MayBeAccepted(d) ==
    d \in Active \/ relay[d] # None \/ \E t \in Threads : Authorizing(t) /\ calls[t].device = d

ReservedAvoided ==
    running => \A d \in Enrolled : MayBeAccepted(d) => devices[d].address \notin Reserved

(* Handlers, credentials and what calls contested end with the process.     *)
NothingSurvives ==
    ~running => relay = Nobody /\ contested = {} /\ \A t \in Threads : calls[t] = Idle

(* A device nobody contested has one call at most, about what the store has *)
(* now.                                                                     *)
Uncontested ==
    \A d \in Devices \ contested :
        /\ \A t, u \in Threads :
               calls[t] # Idle /\ calls[u] # Idle /\ calls[t].device = d /\ calls[u].device = d
               => t = u
        /\ \A t \in Threads : Authorizing(t) /\ calls[t].device = d =>
               d \in Active /\ calls[t].credential = CredentialFor(d)

IInv ==
    /\ TypeOK
    /\ CodesSpent /\ CodesWorkOnce
    /\ AddressesApart
    /\ CallsDurable /\ DurableBeforeLive /\ KeysGenerated /\ KeysApart
    /\ StaticsAsConfigured /\ ReservedAvoided /\ NothingSurvives
    /\ Uncontested /\ RelayMirrorsStore
    /\ AuditTellsHistory

(* Store.Revoke writes the device back with its revocation time. *)
LEMMA RevokedDevice ==
  ASSUME NEW r \in Device PROVE [r EXCEPT !.revoked = TRUE] \in Device
  BY DEF Device

(* Store.Touch writes the device back with the time it was seen. *)
LEMMA SeenDevice ==
  ASSUME NEW r \in Device PROVE [r EXCEPT !.seen = TRUE] \in Device
  BY DEF Device

(* Store.Enroll writes the activation back with the device it enrolled. *)
LEMMA UsedActivation ==
  ASSUME NEW r \in Activation, NEW d \in Devices
  PROVE  /\ [r EXCEPT !.usedBy = d, !.sinceUse = 0] \in Activation
         /\ [r EXCEPT !.usedBy = d, !.sinceUse = 0].usedBy = d
<1>1. 0 \in 0 .. Retention + 1
  BY BoundsAssumption
<1>2. [r EXCEPT !.usedBy = d, !.sinceUse = 0] \in Activation
  BY <1>1, Zenon DEF Activation
<1>3. [r EXCEPT !.usedBy = d, !.sinceUse = 0].usedBy = d
  BY DEF Activation
<1> QED BY <1>2, <1>3

(* An activation stays one as it ages towards expiry and pruning. *)
LEMMA AgedActivation ==
  ASSUME NEW r \in Activation
  PROVE  [r EXCEPT !.left = IF @ < -Retention THEN @ ELSE @ - 1,
                   !.sinceUse = IF r.usedBy = None \/ @ > Retention THEN @ ELSE @ + 1]
         \in Activation
<1>1. Retention \in Nat /\ TTL \in Nat
  BY BoundsAssumption
<1>2. (IF r.left < -Retention THEN r.left ELSE r.left - 1) \in -(Retention + 1) .. TTL
  BY <1>1 DEF Activation
<1>3. (IF r.usedBy = None \/ r.sinceUse > Retention THEN r.sinceUse ELSE r.sinceUse + 1)
          \in 0 .. Retention + 1
  BY <1>1 DEF Activation
<1> QED BY <1>2, <1>3, Zenon DEF Activation

(* Every step keeps the types. *)
LEMMA TypeStep == TypeOK /\ CallsDurable /\ [Next]_vars => TypeOK'
<1> SUFFICES ASSUME TypeOK, CallsDurable, [Next]_vars
             PROVE  TypeOK'
  OBVIOUS
<1> USE NoneAssumption, StaticAssumption, BoundsAssumption DEF TypeOK, Enrolled, store, process
<1>1. ASSUME NEW code \in Codes, NEW ttl \in 1 .. TTL, CreateActivation(code, ttl)
      PROVE  TypeOK'
  <2>1. PruneActivations \in [Codes -> Activation \union {None, Pruned}]
    BY DEF PruneActivations
  <2>2. [left |-> ttl, usedBy |-> None, sinceUse |-> 0] \in Activation
    BY DEF Activation
  <2>3. activations' \in [Codes -> Activation \union {None, Pruned}]
    BY <1>1, <2>1, <2>2 DEF CreateActivation
  <2>4. audit' \in [Devices \union {None} -> Seq(Event)]
    BY <1>1 DEF CreateActivation, Audited, Event
  <2> QED BY <1>1, <2>3, <2>4 DEF CreateActivation
<1>2. ASSUME NEW t \in Threads, NEW code \in Codes, NEW d \in Devices, Enroll(t, code, d)
      PROVE  TypeOK'
  <2>1. activations' \in [Codes -> Activation \union {None, Pruned}]
    <3>1. activations[code] \in Activation
      BY <1>2 DEF Enroll, Valid, Issued
    <3>2. [activations[code] EXCEPT !.usedBy = d, !.sinceUse = 0] \in Activation
      BY <3>1, UsedActivation
    <3>3. activations' = [activations EXCEPT ![code] =
                             [activations[code] EXCEPT !.usedBy = d, !.sinceUse = 0]]
      BY <1>2 DEF Enroll
    <3> QED BY <3>2, <3>3
  <2>2. PICK address \in Pool :
          /\ devices' = [devices EXCEPT ![d] =
                 [address |-> address, key |-> keys + 1, revoked |-> FALSE, seen |-> FALSE]]
          /\ Committed(t, d, [at |-> "authorizing", device |-> d, enrolling |-> TRUE,
                              credential |-> [key |-> keys + 1, ip |-> address]])
    BY <1>2 DEF Enroll
  <2>3. keys + 1 \in 1 .. MaxKeys /\ keys' = keys + 1
    BY <1>2 DEF Enroll
  <2>4. [address |-> address, key |-> keys + 1, revoked |-> FALSE, seen |-> FALSE] \in Device
    BY <2>3 DEF Device
  <2>5. devices' \in [Devices -> Device \union {None}]
    BY <2>2, <2>4
  <2>6. \A e \in Enrolled' : devices'[e].key <= keys'
    BY <2>2, <2>3, <2>4 DEF Device
  <2>7. [key |-> keys + 1, ip |-> address] \in Credential
    BY <2>3 DEF Credential
  <2>8. calls' \in [Threads -> Call] /\ contested' \subseteq Devices
    BY <2>2, <2>7 DEF Committed, Call
  <2>9. audit' \in [Devices \union {None} -> Seq(Event)]
    BY <1>2 DEF Enroll, Audited, Event
  <2>10. /\ enrolledWith' \in [Devices -> Codes \union {None}]
         /\ UNCHANGED <<running, configured, relay>>
    BY <1>2 DEF Enroll
  <2>11. keys' \in 0 .. MaxKeys
    BY <2>3
  <2> QED BY <2>1, <2>5, <2>6, <2>8, <2>9, <2>10, <2>11
<1>3. ASSUME NEW t \in Threads, NEW d \in Devices, Rotate(t, d) PROVE TypeOK'
  <2>1. d \in Enrolled /\ devices[d] \in Device
    BY <1>3 DEF Rotate, Rotatable, Active
  <2>2. keys + 1 \in 1 .. MaxKeys /\ keys' = keys + 1
    BY <1>3 DEF Rotate
  <2>3. [devices[d] EXCEPT !.key = keys + 1] \in Device
    BY <2>1, <2>2 DEF Device
  <2>4. devices' = [devices EXCEPT ![d] = [devices[d] EXCEPT !.key = keys + 1]]
    BY <1>3 DEF Rotate
  <2>5. devices' \in [Devices -> Device \union {None}]
    BY <2>3, <2>4
  <2>6. \A e \in Enrolled' : devices'[e].key <= keys'
    BY <2>1, <2>2, <2>4 DEF Device
  <2>7. [key |-> keys + 1, ip |-> devices[d].address] \in Credential
    BY <2>1, <2>2 DEF Credential, Device
  <2>8. calls' \in [Threads -> Call] /\ contested' \subseteq Devices
    BY <1>3, <2>7 DEF Rotate, Committed, Call
  <2>9. audit' \in [Devices \union {None} -> Seq(Event)]
    BY <1>3 DEF Rotate, Audited, Event
  <2> QED BY <1>3, <2>2, <2>5, <2>6, <2>8, <2>9 DEF Rotate
<1>4. ASSUME NEW d \in Enrolled, RevokeRecord(d)
      PROVE  /\ devices' \in [Devices -> Device \union {None}]
             /\ \A e \in Enrolled' : devices'[e].key <= keys
             /\ audit' \in [Devices \union {None} -> Seq(Event)]
  <2>1. CASE d \in Active
    <3>1. [devices[d] EXCEPT !.revoked = TRUE] \in Device
      BY RevokedDevice
    <3>2. devices' = [devices EXCEPT ![d] = [devices[d] EXCEPT !.revoked = TRUE]]
      BY <1>4, <2>1 DEF RevokeRecord
    <3>3. devices' \in [Devices -> Device \union {None}]
      BY <3>1, <3>2
    <3>4. \A e \in Enrolled' : devices'[e].key <= keys
      BY <3>2 DEF Device
    <3>5. audit' = [audit EXCEPT ![d] = Append(@, "device.revoked")]
      BY <1>4, <2>1 DEF RevokeRecord, Audited
    <3>6. audit' \in [Devices \union {None} -> Seq(Event)]
      BY <3>5 DEF Event
    <3> QED BY <3>3, <3>4, <3>6
  <2>2. CASE d \notin Active
    BY <1>4, <2>2 DEF RevokeRecord
  <2> QED BY <2>1, <2>2
<1>5. ASSUME NEW t \in Threads, NEW d \in Devices, Revoke(t, d) PROVE TypeOK'
  <2>1. calls' \in [Threads -> Call] /\ contested' \subseteq Devices
    BY <1>5 DEF Revoke, Committed, Call
  <2> QED BY <1>4, <1>5, <2>1 DEF Revoke
<1>6. ASSUME NEW t \in Threads, AuthorizeHook(t) PROVE TypeOK'
  <2>1. /\ calls[t].device \in Devices /\ calls[t].credential \in Credential
        /\ calls[t] # Idle
    BY <1>6 DEF AuthorizeHook, Call, Idle
  <2>2. calls' \in [Threads -> Call]
    BY <1>6 DEF AuthorizeHook, Call
  <2>3. CASE Assignable(calls[t].device, calls[t].credential)
    BY <1>6, <2>1, <2>2, <2>3 DEF AuthorizeHook
  <2>4. CASE ~Assignable(calls[t].device, calls[t].credential)
    <3>1. calls[t].device \in Enrolled
      BY <2>1 DEF CallsDurable
    <3> QED BY <1>4, <1>6, <2>2, <2>4, <3>1 DEF AuthorizeHook
  <2> QED BY <2>3, <2>4
<1>7. ASSUME NEW t \in Threads, RevokeHook(t) PROVE TypeOK'
  BY <1>7 DEF RevokeHook, Call
<1>8. ASSUME NEW d \in Devices, Touch(d) PROVE TypeOK'
  <2>1. [devices[d] EXCEPT !.seen = TRUE] \in Device
    BY <1>8, SeenDevice DEF Touch
  <2>2. devices' = [devices EXCEPT ![d] = [devices[d] EXCEPT !.seen = TRUE]]
    BY <1>8 DEF Touch
  <2>3. devices' \in [Devices -> Device \union {None}]
    BY <2>1, <2>2
  <2>4. \A e \in Enrolled' : devices'[e].key <= keys
    BY <1>8, <2>2 DEF Touch, Device
  <2> QED BY <1>8, <2>3, <2>4 DEF Touch
<1>9. CASE Tick
  <2>1. ASSUME NEW c \in Issued
        PROVE  [activations[c] EXCEPT
                    !.left = IF @ < -Retention THEN @ ELSE @ - 1,
                    !.sinceUse = IF activations[c].usedBy = None \/ @ > Retention
                                 THEN @ ELSE @ + 1] \in Activation
    BY AgedActivation DEF Issued
  <2>2. activations' \in [Codes -> Activation \union {None, Pruned}]
    BY <1>9, <2>1 DEF Tick
  <2> QED BY <1>9, <2>2 DEF Tick
<1>10. CASE Crash
  BY <1>10 DEF Crash, Nobody, Call
<1>11. CASE Configure
  BY <1>11 DEF Configure
<1>12. CASE Start
  <2>1. ASSUME NEW c \in configured PROVE StaticCredential(c) \in Credential
    BY DEF StaticCredential, Credential
  <2>2. ASSUME NEW d \in Enrolled PROVE CredentialFor(d) \in Credential
    BY DEF CredentialFor, Credential, Device
  <2>3. ActiveCredentials \in [Devices \union Statics -> Credential \union {None}]
    BY <2>1, <2>2 DEF ActiveCredentials, Active
  <2> QED BY <1>12, <2>3 DEF Start
<1>13. CASE UNCHANGED vars
  BY <1>13 DEF vars
<1> QED BY <1>1, <1>2, <1>3, <1>5, <1>6, <1>7, <1>8, <1>9, <1>10, <1>11, <1>12, <1>13
        DEF Next, Handler

(* A running relay has room for every credential on its way to it.          *)
LEMMA RoomForAll == IInv => NeverRefused
<1> SUFFICES ASSUME IInv, NEW t \in Threads, Authorizing(t),
                    NEW o \in (Devices \union Statics) \ {calls[t].device}, relay[o] # None
             PROVE  /\ relay[o].ip # calls[t].credential.ip
                    /\ relay[o].key # calls[t].credential.key
  BY DEF NeverRefused, Assignable, Authorizing
<1> DEFINE d == calls[t].device
           credential == calls[t].credential
<1>1. /\ calls[t] # Idle /\ d \in Enrolled /\ d \in Devices
      /\ credential.ip = devices[d].address
      /\ credential.key \in Nat /\ credential.key <= devices[d].key
  BY DEF IInv, CallsDurable, Authorizing, Idle, Enrolled
<1>2. running
  BY <1>1 DEF IInv, TypeOK, NothingSurvives
<1>3. CASE o \in Devices
  <2>1. o \in Enrolled /\ relay[o].ip = devices[o].address
    BY <1>3 DEF IInv, DurableBeforeLive
  <2>2. relay[o].ip # credential.ip
    BY <1>1, <2>1 DEF IInv, AddressesApart
  <2>3. relay[o].key # credential.key
    <3>1. credential.key \in 1 .. MaxKeys
      <4>1. credential \in Credential
        BY <1>1 DEF IInv, TypeOK, Call, Authorizing, Idle
      <4> QED BY <1>1, <4>1, StaticAssumption DEF Credential
    <3>2. Holds(d, credential.key)
      BY DEF Holds, Authorizing
    <3> QED BY <1>1, <1>3, <3>1, <3>2 DEF IInv, KeysApart, Holds
  <2> QED BY <2>2, <2>3
<1>4. CASE o \in Statics
  <2>1. o \in configured /\ relay[o] = StaticCredential(o)
    BY <1>2, <1>4 DEF IInv, StaticsAsConfigured
  <2>2. MayBeAccepted(d)
    BY DEF MayBeAccepted, Authorizing
  <2>3. devices[d].address \notin Reserved
    BY <1>1, <1>2, <2>2 DEF IInv, ReservedAvoided
  <2>4. relay[o].ip = StaticAddress[o] /\ relay[o].key = o
    BY <2>1 DEF StaticCredential
  <2>5. StaticAddress[o] \in Reserved
    BY <2>1 DEF Reserved
  <2>6. o \notin Nat
    BY <1>4, StaticAssumption
  <2> QED BY <1>1, <2>3, <2>4, <2>5, <2>6
<1> QED BY <1>3, <1>4

(* So the hook of an enrollment or a rotation always does what it is for.    *)
LEMMA AuthorizeEffect ==
  ASSUME IInv, NEW t \in Threads, AuthorizeHook(t)
  PROVE  /\ Authorizing(t) /\ calls[t] # Idle
         /\ calls[t].device \in Enrolled /\ calls[t].device \in Devices
         /\ calls[t].credential \in Credential
         /\ relay' = [relay EXCEPT ![calls[t].device] = calls[t].credential]
         /\ calls' = [calls EXCEPT ![t] = Idle]
         /\ UNCHANGED <<store, process, contested>>
<1>1. Authorizing(t) /\ calls[t] # Idle
  BY DEF AuthorizeHook, Authorizing, Idle
<1>2. calls[t].device \in Enrolled /\ calls[t].device \in Devices
  BY <1>1 DEF IInv, CallsDurable, Enrolled
<1>3. calls[t].credential \in Credential
  BY <1>1 DEF IInv, TypeOK, Call, Authorizing, Idle
<1>4. Assignable(calls[t].device, calls[t].credential)
  BY <1>1, RoomForAll DEF NeverRefused, Authorizing
<1> QED BY <1>1, <1>2, <1>3, <1>4 DEF AuthorizeHook, store, process

(* An enrollment adds one device, with an address and a key of its own.      *)
LEMMA EnrollEffect ==
  ASSUME IInv, NEW t \in Threads, NEW code \in Codes, NEW d \in Devices, Enroll(t, code, d)
  PROVE  \E address \in Pool \ Taken :
             /\ \A e \in Enrolled : devices'[e] = devices[e]
             /\ devices'[d].address = address /\ devices'[d].key = keys + 1
             /\ CredentialFor(d)' = [key |-> keys + 1, ip |-> address]
             /\ Enrolled' = Enrolled \union {d} /\ Active' = Active \union {d}
             /\ d \notin Enrolled /\ d \notin Active
             /\ Committed(t, d, [at |-> "authorizing", device |-> d, enrolling |-> TRUE,
                                 credential |-> [key |-> keys + 1, ip |-> address]])
<1>1. PICK address \in Pool :
          /\ FirstFree(address)
          /\ devices' = [devices EXCEPT ![d] =
                 [address |-> address, key |-> keys + 1, revoked |-> FALSE, seen |-> FALSE]]
          /\ Committed(t, d, [at |-> "authorizing", device |-> d, enrolling |-> TRUE,
                              credential |-> [key |-> keys + 1, ip |-> address]])
  BY DEF Enroll
<1>2. address \in Pool \ Taken
  BY <1>1 DEF FirstFree
<1>3. devices \in [Devices -> Device \union {None}] /\ None \notin Device
  BY NoneAssumption DEF IInv, TypeOK
<1>4. keys + 1 \in 1 .. MaxKeys
  BY BoundsAssumption DEF Enroll, IInv, TypeOK
<1>5. devices'[d] = [address |-> address, key |-> keys + 1, revoked |-> FALSE, seen |-> FALSE]
  BY <1>1, <1>3
<1>6. devices'[d] \in Device
  BY <1>4, <1>5 DEF Device
<1>7. d \notin Enrolled /\ \A e \in Devices : e # d => devices'[e] = devices[e]
  BY <1>1, <1>3 DEF Enroll
<1>8. Enrolled' = Enrolled \union {d}
  BY <1>3, <1>6, <1>7 DEF Enrolled
<1>9. ~devices'[d].revoked
  BY <1>5
<1>10. Active' = Active \union {d}
  <2>1. Active' = {e \in Enrolled' : ~devices'[e].revoked}
    BY DEF Active
  <2> QED BY <1>7, <1>8, <1>9, <2>1 DEF Active, Enrolled
<1>11. d \notin Active
  BY <1>7 DEF Active
<1>12. CredentialFor(d)' = [key |-> keys + 1, ip |-> address]
  BY <1>5 DEF CredentialFor
<1>13. devices'[d].address = address /\ devices'[d].key = keys + 1
  BY <1>5
<1> QED BY <1>1, <1>2, <1>7, <1>8, <1>10, <1>11, <1>12, <1>13 DEF Enrolled

(* A rotation changes the key of one active device and nothing else of it.   *)
LEMMA RotateEffect ==
  ASSUME IInv, NEW t \in Threads, NEW d \in Devices, Rotate(t, d)
  PROVE  /\ d \in Active /\ d \in Enrolled
         /\ \A e \in Enrolled : devices'[e].address = devices[e].address
         /\ \A e \in Enrolled \ {d} : devices'[e] = devices[e]
         /\ devices'[d].key = keys + 1
         /\ CredentialFor(d)' = [key |-> keys + 1, ip |-> devices[d].address]
         /\ Enrolled' = Enrolled /\ Active' = Active
<1>1. d \in Active /\ d \in Enrolled
  BY DEF Rotate, Rotatable, Active
<1>2. devices \in [Devices -> Device \union {None}] /\ None \notin Device
  BY NoneAssumption DEF IInv, TypeOK
<1>3. devices[d] \in Device
  BY <1>1, <1>2 DEF Enrolled
<1>4. devices' = [devices EXCEPT ![d] = [devices[d] EXCEPT !.key = keys + 1]]
  BY DEF Rotate
<1>5. devices'[d] = [devices[d] EXCEPT !.key = keys + 1]
  BY <1>2, <1>4
<1>6. /\ devices'[d].address = devices[d].address /\ devices'[d].key = keys + 1
      /\ devices'[d].revoked = devices[d].revoked
  BY <1>3, <1>5 DEF Device
<1>7. \A e \in Devices : e # d => devices'[e] = devices[e]
  BY <1>2, <1>4
<1>8. keys + 1 \in 1 .. MaxKeys
  BY BoundsAssumption DEF Rotate, IInv, TypeOK
<1>9. devices'[d] \in Device
  BY <1>3, <1>5, <1>8 DEF Device
<1>10. Enrolled' = Enrolled
  BY <1>1, <1>2, <1>7, <1>9 DEF Enrolled
<1>11. Active' = Active
  <2>1. Active' = {e \in Enrolled' : ~devices'[e].revoked}
    BY DEF Active
  <2>2. \A e \in Enrolled : devices'[e].revoked = devices[e].revoked
    BY <1>6, <1>7 DEF Enrolled
  <2> QED BY <1>10, <2>1, <2>2 DEF Active
<1> QED BY <1>1, <1>6, <1>7, <1>10, <1>11 DEF CredentialFor, Enrolled

(* A revocation, of a device revoked before too, leaves it enrolled, with    *)
(* its address and its key.                                                  *)
LEMMA RevokeEffect ==
  ASSUME IInv, NEW d \in Enrolled, RevokeRecord(d)
  PROVE  /\ Enrolled' = Enrolled /\ Active' = Active \ {d}
         /\ \A e \in Enrolled : /\ devices'[e].address = devices[e].address
                                /\ devices'[e].key = devices[e].key
<1>1. devices \in [Devices -> Device \union {None}] /\ None \notin Device
  BY NoneAssumption DEF IInv, TypeOK
<1>2. CASE d \in Active
  <2>1. devices' = [devices EXCEPT ![d] = [devices[d] EXCEPT !.revoked = TRUE]]
    BY <1>2 DEF RevokeRecord
  <2>2. d \in Devices /\ devices[d] \in Device
    BY <1>1 DEF Enrolled
  <2>3. devices'[d] = [devices[d] EXCEPT !.revoked = TRUE]
    BY <1>1, <2>1, <2>2
  <2>4. /\ devices'[d].address = devices[d].address /\ devices'[d].key = devices[d].key
        /\ devices'[d].revoked
    BY <2>2, <2>3 DEF Device
  <2>5. devices'[d] \in Device
    BY <2>2, <2>3, RevokedDevice
  <2>6. \A e \in Devices : e # d => devices'[e] = devices[e]
    BY <1>1, <2>1
  <2>7. Enrolled' = Enrolled
    BY <1>1, <2>5, <2>6 DEF Enrolled
  <2>8. Active' = Active \ {d}
    <3>1. Active' = {e \in Enrolled' : ~devices'[e].revoked}
      BY DEF Active
    <3> QED BY <2>4, <2>6, <2>7, <3>1 DEF Active, Enrolled
  <2> QED BY <2>4, <2>6, <2>7, <2>8 DEF Enrolled
<1>3. CASE d \notin Active
  BY <1>3 DEF RevokeRecord, Enrolled, Active
<1> QED BY <1>2, <1>3

(* A touched device stays what it is to the relay.                           *)
LEMMA TouchEffect ==
  ASSUME IInv, NEW d \in Devices, Touch(d)
  PROVE  /\ Enrolled' = Enrolled /\ Active' = Active
         /\ \A e \in Enrolled : /\ devices'[e].address = devices[e].address
                                /\ devices'[e].key = devices[e].key
<1>1. devices \in [Devices -> Device \union {None}] /\ None \notin Device
  BY NoneAssumption DEF IInv, TypeOK
<1>2. devices' = [devices EXCEPT ![d] = [devices[d] EXCEPT !.seen = TRUE]]
  BY DEF Touch
<1>3. devices[d] \in Device
  BY <1>1 DEF Touch, Enrolled
<1>4. devices'[d] = [devices[d] EXCEPT !.seen = TRUE]
  BY <1>1, <1>2
<1>5. /\ devices'[d].address = devices[d].address /\ devices'[d].key = devices[d].key
      /\ devices'[d].revoked = devices[d].revoked
  BY <1>3, <1>4 DEF Device
<1>6. devices'[d] \in Device
  BY <1>3, <1>4, SeenDevice
<1>7. \A e \in Devices : e # d => devices'[e] = devices[e]
  BY <1>1, <1>2
<1>8. Enrolled' = Enrolled
  BY <1>1, <1>3, <1>6, <1>7 DEF Enrolled
<1>9. Active' = Active
  <2>1. Active' = {e \in Enrolled' : ~devices'[e].revoked}
    BY DEF Active
  <2>2. \A e \in Enrolled : devices'[e].revoked = devices[e].revoked
    BY <1>5, <1>7 DEF Enrolled
  <2> QED BY <1>8, <2>1, <2>2 DEF Active
<1> QED BY <1>5, <1>7, <1>8, <1>9 DEF Enrolled

(* What the steps that neither enroll nor issue leave as it is: the codes the *)
(* devices used, the addresses they have, and the calls in flight.           *)
LEMMA CodesKept ==
  ASSUME CodesSpent, CodesWorkOnce, Enrolled' = Enrolled, enrolledWith' = enrolledWith,
         \A c \in Codes :
             /\ activations[c] # None => activations'[c] # None
             /\ c \in Issued' => c \in Issued /\ activations'[c].usedBy = activations[c].usedBy
  PROVE  (CodesSpent /\ CodesWorkOnce)'
<1>1. CodesWorkOnce'
  BY DEF CodesWorkOnce
<1>2. CodesSpent'
  BY DEF CodesSpent
<1> QED BY <1>1, <1>2

LEMMA AddressesKept ==
  ASSUME AddressesApart, Enrolled' = Enrolled,
         \A e \in Enrolled : devices'[e].address = devices[e].address
  PROVE  AddressesApart'
<1>1. \A d \in Enrolled' : devices'[d].address # RelayAddress
  BY DEF AddressesApart
<1>2. ASSUME NEW d \in Enrolled', NEW e \in Enrolled', devices'[d].address = devices'[e].address
      PROVE  d = e
  <2>1. d \in Enrolled /\ e \in Enrolled /\ devices[d].address = devices[e].address
    BY <1>2
  <2> QED BY <2>1 DEF AddressesApart
<1> QED BY <1>1, <1>2 DEF AddressesApart

LEMMA CallsKept ==
  ASSUME CallsDurable, calls' = calls, Enrolled' = Enrolled, Active' = Active,
         \A e \in Enrolled : /\ devices'[e].address = devices[e].address
                             /\ devices'[e].key = devices[e].key
  PROVE  CallsDurable'
<1> SUFFICES ASSUME NEW t \in Threads, calls'[t] # Idle
             PROVE  (/\ calls[t].device \in Enrolled
                     /\ Revoking(t) => calls[t].device \notin Active
                     /\ Authorizing(t) =>
                            /\ calls[t].credential.ip = devices[calls[t].device].address
                            /\ calls[t].credential.key \in Nat
                            /\ calls[t].credential.key <= devices[calls[t].device].key)'
  BY DEF CallsDurable, Idle
<1>1. /\ calls[t].device \in Enrolled
      /\ Revoking(t) => calls[t].device \notin Active
      /\ Authorizing(t) =>
             /\ calls[t].credential.ip = devices[calls[t].device].address
             /\ calls[t].credential.key \in Nat
             /\ calls[t].credential.key <= devices[calls[t].device].key
  BY DEF CallsDurable, Idle
<1> QED BY <1>1 DEF Revoking, Authorizing

(* A code is spent with the transaction that enrolls with it, and not given back. *)
LEMMA CodesStep == IInv /\ [Next]_vars => (CodesSpent /\ CodesWorkOnce)'
<1> SUFFICES ASSUME IInv, [Next]_vars
             PROVE  (CodesSpent /\ CodesWorkOnce)'
  OBVIOUS
<1> USE NoneAssumption DEF IInv, CodesSpent, CodesWorkOnce, TypeOK, Issued, store, process
<1>1. ASSUME NEW code \in Codes, NEW ttl \in 1 .. TTL, CreateActivation(code, ttl)
      PROVE  (CodesSpent /\ CodesWorkOnce)'
  BY <1>1 DEF CreateActivation, PruneActivations, Audited, Enrolled, Active
<1>2. ASSUME NEW t \in Threads, NEW code \in Codes, NEW d \in Devices, Enroll(t, code, d)
      PROVE  (CodesSpent /\ CodesWorkOnce)'
  <2>1. /\ d \notin Enrolled /\ Enrolled' = Enrolled \union {d}
    BY <1>2, EnrollEffect
  <2>2. enrolledWith' = [enrolledWith EXCEPT ![d] = code]
    BY <1>2 DEF Enroll
  <2>3. activations[code] \in Activation /\ activations[code].usedBy = None
    BY <1>2 DEF Enroll, Valid
  <2>4. activations' = [activations EXCEPT ![code] =
                           [activations[code] EXCEPT !.usedBy = d, !.sinceUse = 0]]
    BY <1>2 DEF Enroll
  <2>5. activations'[code] \in Activation /\ activations'[code].usedBy = d
    <3>1. activations'[code] = [activations[code] EXCEPT !.usedBy = d, !.sinceUse = 0]
      BY <2>4
    <3>2. [activations[code] EXCEPT !.usedBy = d, !.sinceUse = 0] \in Activation
      BY <2>3, UsedActivation
    <3>3. [activations[code] EXCEPT !.usedBy = d, !.sinceUse = 0].usedBy = d
      BY <2>3, UsedActivation
    <3> QED BY <3>1, <3>2, <3>3
  <2>6. \A e \in Enrolled : enrolledWith[e] # code
    BY <1>2, <2>3 DEF Enroll, Valid
  <2>7. \A e \in Enrolled : enrolledWith'[e] = enrolledWith[e]
    BY <2>1, <2>2
  <2>8. \A c \in Codes \ {code} : activations'[c] = activations[c]
    BY <2>4
  <2>9. d # None /\ enrolledWith'[d] = code
    BY <2>2
  <2>10. activations'[code] # None /\ activations'[code] # Pruned
    BY <2>5
  <2>11. CodesSpent'
    <3>1. ASSUME NEW e \in Enrolled
          PROVE  /\ enrolledWith'[e] \in Codes \ {code}
                 /\ activations'[enrolledWith'[e]] = activations[enrolledWith[e]]
                 /\ enrolledWith'[e] = enrolledWith[e]
      BY <2>6, <2>7, <2>8
    <3>2. ASSUME NEW e \in Enrolled
          PROVE  /\ activations'[enrolledWith'[e]] # None
                 /\ enrolledWith'[e] \in Issued' => activations'[enrolledWith'[e]].usedBy # None
      BY <3>1
    <3> QED BY <2>1, <2>5, <2>9, <2>10, <3>1, <3>2
  <2>12. CodesWorkOnce'
    <3>1. ASSUME NEW e \in Enrolled', NEW x \in Enrolled', enrolledWith'[e] = enrolledWith'[x]
          PROVE  e = x
      <4>1. CASE e = d
        BY <2>1, <2>6, <2>7, <2>9, <3>1, <4>1
      <4>2. CASE x = d
        BY <2>1, <2>6, <2>7, <2>9, <3>1, <4>2
      <4>3. CASE e # d /\ x # d
        <5>1. e \in Enrolled /\ x \in Enrolled /\ enrolledWith[e] = enrolledWith[x]
          BY <2>1, <2>7, <3>1, <4>3
        <5> QED BY <5>1
      <4> QED BY <4>1, <4>2, <4>3
    <3> QED BY <3>1
  <2> QED BY <2>11, <2>12
<1>3. ASSUME NEW t \in Threads, NEW d \in Devices, Rotate(t, d)
      PROVE  (CodesSpent /\ CodesWorkOnce)'
  BY <1>3, RotateEffect DEF Rotate, Committed
<1>4. ASSUME NEW t \in Threads, NEW d \in Devices, Revoke(t, d)
      PROVE  (CodesSpent /\ CodesWorkOnce)'
  BY <1>4, RevokeEffect DEF Revoke, Committed
<1>5. ASSUME NEW t \in Threads, AuthorizeHook(t) PROVE (CodesSpent /\ CodesWorkOnce)'
  BY <1>5, AuthorizeEffect DEF Enrolled, Active
<1>6. ASSUME NEW t \in Threads, RevokeHook(t) PROVE (CodesSpent /\ CodesWorkOnce)'
  BY <1>6 DEF RevokeHook, Enrolled, Active
<1>7. ASSUME NEW d \in Devices, Touch(d) PROVE (CodesSpent /\ CodesWorkOnce)'
  BY <1>7, TouchEffect DEF Touch
<1>8. CASE Tick
  <2>1. ASSUME NEW c \in Codes, c \in Issued
        PROVE  activations'[c] # None /\ activations'[c].usedBy = activations[c].usedBy
    <3> DEFINE r == activations[c]
               aged == [r EXCEPT !.left = IF @ < -Retention THEN @ ELSE @ - 1,
                                 !.sinceUse = IF r.usedBy = None \/ @ > Retention
                                              THEN @ ELSE @ + 1]
    <3>1. r \in Activation
      BY <2>1
    <3>2. activations'[c] = aged
      BY <1>8, <2>1 DEF Tick
    <3>3. aged \in Activation
      BY <3>1, AgedActivation
    <3>4. aged.usedBy = r.usedBy
      BY <3>1 DEF Activation
    <3> QED BY <3>2, <3>3, <3>4
  <2>2. ASSUME NEW c \in Codes, c \notin Issued PROVE activations'[c] = activations[c]
    BY <1>8, <2>2 DEF Tick
  <2>3. \A c \in Codes : /\ activations[c] # None => activations'[c] # None
                         /\ c \in Issued' => c \in Issued
                                /\ activations'[c].usedBy = activations[c].usedBy
    BY <2>1, <2>2
  <2>4. Enrolled' = Enrolled /\ enrolledWith' = enrolledWith
    BY <1>8 DEF Tick, Enrolled
  <2> QED BY ONLY <2>3, <2>4, CodesKept, CodesSpent, CodesWorkOnce
<1>9. CASE Crash
  BY <1>9 DEF Crash, Enrolled, Active
<1>10. CASE Configure
  BY <1>10 DEF Configure, Enrolled, Active
<1>11. CASE Start
  BY <1>11 DEF Start, ActiveCredentials, Loadable, Enrolled, Active
<1>12. CASE UNCHANGED vars
  BY <1>12 DEF vars, Enrolled, Active
<1> QED BY <1>1, <1>2, <1>3, <1>4, <1>5, <1>6, <1>7,
           <1>8, <1>9, <1>10, <1>11, <1>12 DEF Next, Handler

(* An address is given once. *)
LEMMA AddressesStep == IInv /\ [Next]_vars => AddressesApart'
<1> SUFFICES ASSUME IInv, [Next]_vars
             PROVE  AddressesApart'
  OBVIOUS
<1> USE NoneAssumption DEF IInv, AddressesApart, store, process
<1>1. ASSUME NEW code \in Codes, NEW ttl \in 1 .. TTL, CreateActivation(code, ttl)
      PROVE  AddressesApart'
  BY <1>1 DEF CreateActivation, PruneActivations, Audited, Enrolled, Active
<1>2. ASSUME NEW t \in Threads, NEW code \in Codes, NEW d \in Devices, Enroll(t, code, d)
      PROVE  AddressesApart'
  <2>1. PICK address \in Pool \ Taken :
          /\ \A e \in Enrolled : devices'[e] = devices[e]
          /\ devices'[d].address = address /\ Enrolled' = Enrolled \union {d}
    BY <1>2, EnrollEffect
  <2>2. address # RelayAddress /\ \A e \in Enrolled : address # devices[e].address
    BY DEF Taken, Reserved
  <2> QED BY <2>1, <2>2
<1>3. ASSUME NEW t \in Threads, NEW d \in Devices, Rotate(t, d) PROVE AddressesApart'
  <2>1. Enrolled' = Enrolled /\ \A e \in Enrolled : devices'[e].address = devices[e].address
    BY <1>3, RotateEffect
  <2> QED BY <2>1, AddressesKept
<1>4. ASSUME NEW t \in Threads, NEW d \in Devices, Revoke(t, d) PROVE AddressesApart'
  <2>1. d \in Enrolled /\ RevokeRecord(d)
    BY <1>4 DEF Revoke
  <2>2. Enrolled' = Enrolled /\ \A e \in Enrolled : devices'[e].address = devices[e].address
    BY <2>1, RevokeEffect
  <2> QED BY <2>2, AddressesKept
<1>5. ASSUME NEW t \in Threads, AuthorizeHook(t) PROVE AddressesApart'
  BY <1>5, AuthorizeEffect DEF Enrolled, Active
<1>6. ASSUME NEW t \in Threads, RevokeHook(t) PROVE AddressesApart'
  BY <1>6 DEF RevokeHook, Enrolled, Active
<1>7. ASSUME NEW d \in Devices, Touch(d) PROVE AddressesApart'
  <2>1. Enrolled' = Enrolled /\ \A e \in Enrolled : devices'[e].address = devices[e].address
    BY <1>7, TouchEffect
  <2> QED BY <2>1, AddressesKept
<1>8. CASE Tick
  BY <1>8 DEF Tick, Enrolled, Active
<1>9. CASE Crash
  BY <1>9 DEF Crash, Enrolled, Active
<1>10. CASE Configure
  BY <1>10 DEF Configure, Enrolled, Active
<1>11. CASE Start
  BY <1>11 DEF Start, ActiveCredentials, Loadable, Enrolled, Active
<1>12. CASE UNCHANGED vars
  BY <1>12 DEF vars, Enrolled, Active
<1> QED BY <1>1, <1>2, <1>3, <1>4, <1>5, <1>6, <1>7,
           <1>8, <1>9, <1>10, <1>11, <1>12 DEF Next, Handler

(* A handler goes to its hook with what it has committed, and what is committed *)
(* later is newer.                                                              *)
LEMMA CallsStep == IInv /\ [Next]_vars => CallsDurable'
<1> SUFFICES ASSUME IInv, [Next]_vars
             PROVE  CallsDurable'
  OBVIOUS
<1> USE NoneAssumption, BoundsAssumption
    DEF IInv, CallsDurable, Authorizing, Revoking, Idle, store, process
<1>1. ASSUME NEW code \in Codes, NEW ttl \in 1 .. TTL, CreateActivation(code, ttl)
      PROVE  CallsDurable'
  BY <1>1 DEF CreateActivation, PruneActivations, Audited, Enrolled, Active
<1>2. ASSUME NEW t \in Threads, NEW code \in Codes, NEW d \in Devices, Enroll(t, code, d)
      PROVE  CallsDurable'
  <2>1. \A u \in Threads \ {t} : calls'[u] = calls[u]
    BY <1>2, EnrollEffect DEF Committed, TypeOK
  <2>2. /\ calls'[t].at = "authorizing" /\ calls'[t].device = d
        /\ calls'[t].credential.key = devices'[d].key
        /\ calls'[t].credential.ip = devices'[d].address
        /\ devices'[d].key = keys + 1
    BY <1>2, EnrollEffect DEF Committed, TypeOK
  <2>3. /\ d \notin Enrolled /\ Enrolled' = Enrolled \union {d} /\ Active' = Active \union {d}
        /\ \A e \in Enrolled : devices'[e] = devices[e]
    BY <1>2, EnrollEffect
  <2>4. keys + 1 \in Nat /\ keys + 1 <= keys + 1
    BY DEF TypeOK
  <2> QED BY <2>1, <2>2, <2>3, <2>4
<1>3. ASSUME NEW t \in Threads, NEW d \in Devices, Rotate(t, d) PROVE CallsDurable'
  <2>1. \A u \in Threads \ {t} : calls'[u] = calls[u]
    BY <1>3 DEF Rotate, Committed, TypeOK
  <2>2. /\ calls'[t].at = "authorizing" /\ calls'[t].device = d
        /\ calls'[t].credential.key = keys + 1
        /\ calls'[t].credential.ip = devices[d].address
    BY <1>3 DEF Rotate, Committed, TypeOK
  <2>3. /\ d \in Enrolled /\ Enrolled' = Enrolled /\ Active' = Active
        /\ \A e \in Enrolled : devices'[e].address = devices[e].address
        /\ \A e \in Enrolled \ {d} : devices'[e].key = devices[e].key
        /\ devices'[d].key = keys + 1
    BY <1>3, RotateEffect
  <2>4. keys + 1 \in Nat /\ devices[d].key \in Nat /\ devices[d].key <= keys + 1
    BY <2>3 DEF TypeOK, Device, Enrolled
  <2>5. \A k \in Nat : k <= devices[d].key => k <= devices'[d].key
    BY <2>3, <2>4
  <2> QED BY <2>1, <2>2, <2>3, <2>4, <2>5
<1>4. ASSUME NEW t \in Threads, NEW d \in Devices, Revoke(t, d) PROVE CallsDurable'
  <2>1. \A u \in Threads \ {t} : calls'[u] = calls[u]
    BY <1>4 DEF Revoke, Committed, TypeOK
  <2>2. calls'[t] = [at |-> "revoking", device |-> d]
    BY <1>4 DEF Revoke, Committed, TypeOK
  <2>3. /\ d \in Enrolled /\ Enrolled' = Enrolled /\ Active' = Active \ {d}
        /\ \A e \in Enrolled : /\ devices'[e].address = devices[e].address
                               /\ devices'[e].key = devices[e].key
    BY <1>4, RevokeEffect DEF Revoke
  <2> QED BY <2>1, <2>2, <2>3
<1>5. ASSUME NEW t \in Threads, AuthorizeHook(t) PROVE CallsDurable'
  <2>1. \A u \in Threads : calls'[u] # Idle => calls'[u] = calls[u]
    BY <1>5, AuthorizeEffect DEF TypeOK
  <2> QED BY <1>5, <2>1, AuthorizeEffect DEF Enrolled, Active
<1>6. ASSUME NEW t \in Threads, RevokeHook(t) PROVE CallsDurable'
  <2>1. \A u \in Threads : calls'[u] # Idle => calls'[u] = calls[u]
    BY <1>6 DEF RevokeHook, TypeOK
  <2> QED BY <1>6, <2>1 DEF RevokeHook, Enrolled, Active
<1>7. ASSUME NEW d \in Devices, Touch(d) PROVE CallsDurable'
  <2>1. /\ Enrolled' = Enrolled /\ Active' = Active
        /\ \A e \in Enrolled : /\ devices'[e].address = devices[e].address
                               /\ devices'[e].key = devices[e].key
    BY <1>7, TouchEffect
  <2>2. calls' = calls
    BY <1>7 DEF Touch
  <2> QED BY <2>1, <2>2, CallsKept
<1>8. CASE Tick
  BY <1>8 DEF Tick, Enrolled, Active
<1>9. CASE Crash
  BY <1>9 DEF Crash
<1>10. CASE Configure
  BY <1>10 DEF Configure, Enrolled, Active
<1>11. CASE Start
  BY <1>11 DEF Start, ActiveCredentials, Loadable, Enrolled, Active
<1>12. CASE UNCHANGED vars
  BY <1>12 DEF vars, Enrolled, Active
<1> QED BY <1>1, <1>2, <1>3, <1>4, <1>5, <1>6, <1>7,
           <1>8, <1>9, <1>10, <1>11, <1>12 DEF Next, Handler

(* The hook comes after the transaction. *)
LEMMA DurableStep == IInv /\ [Next]_vars => (DurableBeforeLive /\ KeysGenerated)'
<1> SUFFICES ASSUME IInv, [Next]_vars
             PROVE  (DurableBeforeLive /\ KeysGenerated)'
  OBVIOUS
<1> USE NoneAssumption, BoundsAssumption
    DEF IInv, DurableBeforeLive, KeysGenerated, store, process
<1>1. ASSUME NEW code \in Codes, NEW ttl \in 1 .. TTL, CreateActivation(code, ttl)
      PROVE  (DurableBeforeLive /\ KeysGenerated)'
  BY <1>1 DEF CreateActivation, PruneActivations, Audited, Enrolled, Active
<1>2. ASSUME NEW t \in Threads, NEW code \in Codes, NEW d \in Devices, Enroll(t, code, d)
      PROVE  (DurableBeforeLive /\ KeysGenerated)'
  <2>1. /\ Enrolled' = Enrolled \union {d} /\ relay' = relay /\ keys' = keys + 1
        /\ \A e \in Enrolled : devices'[e] = devices[e]
    BY <1>2, EnrollEffect DEF Enroll
  <2>2. \A k \in 1 .. keys : k \in 1 .. keys + 1
    BY DEF TypeOK
  <2> QED BY <2>1, <2>2
<1>3. ASSUME NEW t \in Threads, NEW d \in Devices, Rotate(t, d)
      PROVE  (DurableBeforeLive /\ KeysGenerated)'
  <2>1. /\ d \in Enrolled /\ Enrolled' = Enrolled /\ relay' = relay
        /\ \A e \in Enrolled : devices'[e].address = devices[e].address
        /\ \A e \in Enrolled \ {d} : devices'[e].key = devices[e].key
        /\ devices'[d].key = keys + 1 /\ keys' = keys + 1
    BY <1>3, RotateEffect DEF Rotate
  <2>2. \A k \in 1 .. keys : k \in 1 .. keys + 1 /\ k <= keys + 1
    BY DEF TypeOK
  <2>3. KeysGenerated'
    BY <2>1, <2>2
  <2>4. ASSUME NEW e \in Devices, relay[e] # None
        PROVE  /\ e \in Enrolled /\ relay[e].ip = devices'[e].address
               /\ relay[e].key <= devices'[e].key
    <3>1. e \in Enrolled /\ relay[e].ip = devices[e].address
      BY <2>4
    <3>2. CASE e = d
      BY <2>1, <2>2, <2>4, <3>1, <3>2
    <3>3. CASE e # d
      BY <2>1, <2>4, <3>1, <3>3
    <3> QED BY <3>2, <3>3
  <2> QED BY <2>1, <2>3, <2>4
<1>4. ASSUME NEW t \in Threads, NEW d \in Devices, Revoke(t, d)
      PROVE  (DurableBeforeLive /\ KeysGenerated)'
  BY <1>4, RevokeEffect DEF Revoke, Committed
<1>5. ASSUME NEW t \in Threads, AuthorizeHook(t) PROVE (DurableBeforeLive /\ KeysGenerated)'
  <2>1. /\ calls[t] # Idle /\ Authorizing(t) /\ calls[t].device \in Devices
        /\ \A d \in Devices \ {calls[t].device} : relay'[d] = relay[d]
        /\ relay'[calls[t].device] = calls[t].credential
        /\ devices' = devices
    BY <1>5, AuthorizeEffect DEF TypeOK
  <2>2. /\ calls[t].device \in Enrolled
        /\ calls[t].credential.ip = devices[calls[t].device].address
        /\ calls[t].credential.key <= devices[calls[t].device].key
        /\ calls[t].credential.key \in Nat
    BY <2>1 DEF CallsDurable
  <2>3. /\ devices[calls[t].device].key \in Nat /\ devices[calls[t].device].key <= keys
        /\ keys \in Nat
    BY <2>2 DEF TypeOK, Enrolled, Device
  <2>4. calls[t].credential.key \in 1 .. keys
    <3>1. calls[t].credential \in Credential
      BY <1>5, AuthorizeEffect
    <3> QED BY <2>2, <2>3, <3>1, StaticAssumption DEF Credential
  <2> QED BY <2>1, <2>2, <2>4, AuthorizeEffect, <1>5 DEF Enrolled
<1>6. ASSUME NEW t \in Threads, RevokeHook(t) PROVE (DurableBeforeLive /\ KeysGenerated)'
  <2>1. calls[t].device \in Devices
    BY <1>6 DEF RevokeHook, TypeOK, Call, Idle
  <2> QED BY <1>6, <2>1 DEF RevokeHook, TypeOK, Enrolled
<1>7. ASSUME NEW d \in Devices, Touch(d) PROVE (DurableBeforeLive /\ KeysGenerated)'
  BY <1>7, TouchEffect DEF Touch
<1>8. CASE Tick
  BY <1>8 DEF Tick, Enrolled, Active
<1>9. CASE Crash
  BY <1>9 DEF Crash, Nobody
<1>10. CASE Configure
  BY <1>10 DEF Configure, Enrolled, Active
<1>11. CASE Start
  <2>1. ASSUME NEW d \in Devices
        PROVE  ActiveCredentials[d] = IF d \in Active THEN CredentialFor(d) ELSE None
    <3>1. d \notin configured
      BY StaticAssumption DEF TypeOK
    <3> QED BY <3>1 DEF ActiveCredentials
  <2>2. ASSUME NEW d \in Active
        PROVE  /\ d \in Enrolled /\ CredentialFor(d).ip = devices[d].address
               /\ CredentialFor(d).key <= devices[d].key /\ CredentialFor(d).key \in 1 .. keys
    BY DEF TypeOK, Enrolled, Active, Device, CredentialFor
  <2>3. /\ relay' = ActiveCredentials /\ Enrolled' = Enrolled
        /\ UNCHANGED <<devices, keys>>
    BY <1>11 DEF Start, Enrolled
  <2>4. ASSUME NEW d \in Devices, relay'[d] # None
        PROVE  d \in Active /\ relay'[d] = CredentialFor(d)
    BY <2>1, <2>3, <2>4
  <2> QED BY <2>2, <2>3, <2>4
<1>12. CASE UNCHANGED vars
  BY <1>12 DEF vars, Enrolled, Active
<1> QED BY <1>1, <1>2, <1>3, <1>4, <1>5, <1>6, <1>7,
           <1>8, <1>9, <1>10, <1>11, <1>12 DEF Next, Handler

(* Keys that were generated are below the next one.                          *)
LEMMA HeldKeys ==
  ASSUME IInv, NEW d \in Devices, NEW key \in 1 .. MaxKeys, Holds(d, key)
  PROVE  key <= keys
<1> USE DEF IInv, TypeOK
<1>1. CASE d \in Enrolled /\ devices[d].key = key
  BY <1>1
<1>2. CASE relay[d] # None /\ relay[d].key = key
  BY <1>2 DEF KeysGenerated
<1>3. ASSUME NEW t \in Threads, Authorizing(t), calls[t].device = d,
             calls[t].credential.key = key
      PROVE  key <= keys
  <2>1. d \in Enrolled /\ key <= devices[d].key
    BY <1>3 DEF CallsDurable, Authorizing, Idle
  <2>2. devices[d].key \in Nat /\ devices[d].key <= keys /\ keys \in Nat
    BY <2>1 DEF Enrolled, Device
  <2> QED BY <2>1, <2>2
<1> QED BY <1>1, <1>2, <1>3 DEF Holds

(* A step that gives nobody a key keeps the keys apart, ...                  *)
LEMMA NoNewKey ==
  ASSUME IInv, \A d \in Devices : \A key \in 1 .. MaxKeys : Holds(d, key)' => Holds(d, key)
  PROVE  KeysApart'
  BY DEF IInv, KeysApart

(* ... and so does one that gives a device the next one.                     *)
LEMMA OneNewKey ==
  ASSUME IInv, NEW d \in Devices,
         \A e \in Devices : \A key \in 1 .. MaxKeys :
             Holds(e, key)' => Holds(e, key) \/ (e = d /\ key = keys + 1)
  PROVE  KeysApart'
<1>1. \A e \in Devices : ~Holds(e, keys + 1) \/ keys + 1 \notin 1 .. MaxKeys
  BY HeldKeys DEF IInv, TypeOK
<1> QED BY <1>1 DEF IInv, KeysApart

(* What LoadCredentials gives a device.                                      *)
LEMMA ActiveCredentialsOfDevices ==
  ASSUME IInv, NEW d \in Devices
  PROVE  ActiveCredentials[d] = IF d \in Active THEN CredentialFor(d) ELSE None
<1>1. d \notin configured
  BY StaticAssumption DEF IInv, TypeOK
<1> QED BY <1>1 DEF ActiveCredentials

(* No key is ever held for two devices. *)
LEMMA KeysStep == IInv /\ [Next]_vars => KeysApart'
<1> SUFFICES ASSUME IInv, [Next]_vars
             PROVE  KeysApart'
  OBVIOUS
<1> USE NoneAssumption, NoNewKey DEF store, process
<1>1. ASSUME NEW code \in Codes, NEW ttl \in 1 .. TTL, CreateActivation(code, ttl)
      PROVE  KeysApart'
  BY <1>1 DEF CreateActivation, Holds, Authorizing, Enrolled
<1>2. ASSUME NEW t \in Threads, NEW code \in Codes, NEW d \in Devices, Enroll(t, code, d)
      PROVE  KeysApart'
  <2>1. /\ devices'[d].key = keys + 1 /\ Enrolled' = Enrolled \union {d} /\ relay' = relay
        /\ \A e \in Enrolled : devices'[e] = devices[e]
        /\ \A u \in Threads \ {t} : calls'[u] = calls[u]
        /\ calls'[t].device = d /\ calls'[t].credential.key = keys + 1
    <3>1. PICK address \in Pool \ Taken :
            /\ \A e \in Enrolled : devices'[e] = devices[e]
            /\ devices'[d].key = keys + 1 /\ Enrolled' = Enrolled \union {d}
            /\ Committed(t, d, [at |-> "authorizing", device |-> d, enrolling |-> TRUE,
                                credential |-> [key |-> keys + 1, ip |-> address]])
      BY <1>2, EnrollEffect
    <3>2. calls \in [Threads -> Call]
      BY DEF IInv, TypeOK
    <3> QED BY <1>2, <3>1, <3>2 DEF Enroll, Committed
  <2>2. ASSUME NEW e \in Devices, NEW key \in 1 .. MaxKeys, Holds(e, key)'
        PROVE  Holds(e, key) \/ (e = d /\ key = keys + 1)
    <3>1. CASE e \in Enrolled' /\ devices'[e].key = key
      BY <2>1, <3>1 DEF Holds
    <3>2. CASE relay'[e] # None /\ relay'[e].key = key
      BY <2>1, <3>2 DEF Holds
    <3>3. ASSUME NEW u \in Threads, calls'[u].at = "authorizing", calls'[u].device = e,
                 calls'[u].credential.key = key
          PROVE  Holds(e, key) \/ (e = d /\ key = keys + 1)
      <4>1. CASE u = t
        BY <2>1, <3>3, <4>1
      <4>2. CASE u # t
        BY <2>1, <3>3, <4>2 DEF Holds, Authorizing
      <4> QED BY <4>1, <4>2
    <3> QED BY <2>2, <3>1, <3>2, <3>3 DEF Holds, Authorizing
  <2> QED BY <2>2, OneNewKey
<1>3. ASSUME NEW t \in Threads, NEW d \in Devices, Rotate(t, d) PROVE KeysApart'
  <2>1. /\ d \in Enrolled /\ Enrolled' = Enrolled /\ relay' = relay
        /\ devices'[d].key = keys + 1
        /\ \A e \in Enrolled \ {d} : devices'[e] = devices[e]
        /\ \A u \in Threads \ {t} : calls'[u] = calls[u]
        /\ calls'[t].device = d /\ calls'[t].credential.key = keys + 1
    BY <1>3, RotateEffect DEF Rotate, Committed, IInv, TypeOK
  <2>2. ASSUME NEW e \in Devices, NEW key \in 1 .. MaxKeys, Holds(e, key)'
        PROVE  Holds(e, key) \/ (e = d /\ key = keys + 1)
    <3>1. CASE e \in Enrolled' /\ devices'[e].key = key
      BY <2>1, <3>1 DEF Holds
    <3>2. CASE relay'[e] # None /\ relay'[e].key = key
      BY <2>1, <3>2 DEF Holds
    <3>3. ASSUME NEW u \in Threads, calls'[u].at = "authorizing", calls'[u].device = e,
                 calls'[u].credential.key = key
          PROVE  Holds(e, key) \/ (e = d /\ key = keys + 1)
      <4>1. CASE u = t
        BY <2>1, <3>3, <4>1
      <4>2. CASE u # t
        BY <2>1, <3>3, <4>2 DEF Holds, Authorizing
      <4> QED BY <4>1, <4>2
    <3> QED BY <2>2, <3>1, <3>2, <3>3 DEF Holds, Authorizing
  <2> QED BY <2>2, OneNewKey
<1>4. ASSUME NEW t \in Threads, NEW d \in Devices, Revoke(t, d) PROVE KeysApart'
  <2>1. /\ Enrolled' = Enrolled /\ relay' = relay
        /\ \A e \in Enrolled : devices'[e].key = devices[e].key
        /\ \A u \in Threads \ {t} : calls'[u] = calls[u]
        /\ calls'[t].at = "revoking"
    BY <1>4, RevokeEffect DEF Revoke, Committed, IInv, TypeOK
  <2> QED BY <2>1 DEF Holds, Authorizing
<1>5. ASSUME NEW t \in Threads, AuthorizeHook(t) PROVE KeysApart'
  <2>1. /\ Authorizing(t) /\ devices' = devices
        /\ \A e \in Devices \ {calls[t].device} : relay'[e] = relay[e]
        /\ relay'[calls[t].device] = calls[t].credential
        /\ \A u \in Threads \ {t} : calls'[u] = calls[u]
        /\ calls'[t] = Idle
    BY <1>5, AuthorizeEffect DEF IInv, TypeOK
  <2> QED BY <2>1 DEF Holds, Authorizing, Idle, Enrolled
<1>6. ASSUME NEW t \in Threads, RevokeHook(t) PROVE KeysApart'
  <2>1. /\ devices' = devices
        /\ \A e \in Devices : relay'[e] = relay[e] \/ relay'[e] = None
        /\ \A u \in Threads \ {t} : calls'[u] = calls[u]
        /\ calls'[t] = Idle
    BY <1>6 DEF RevokeHook, IInv, TypeOK
  <2> QED BY <2>1 DEF Holds, Authorizing, Idle, Enrolled
<1>7. ASSUME NEW d \in Devices, Touch(d) PROVE KeysApart'
  BY <1>7, TouchEffect DEF Touch, Holds, Authorizing
<1>8. CASE Tick
  BY <1>8 DEF Tick, Holds, Authorizing, Enrolled
<1>9. CASE Crash
  BY <1>9 DEF Crash, Nobody, Idle, Holds, Authorizing, Enrolled
<1>10. CASE Configure
  BY <1>10 DEF Configure, Holds, Authorizing, Enrolled
<1>11. CASE Start
  <2>1. ASSUME NEW d \in Devices, relay'[d] # None
        PROVE  d \in Enrolled /\ relay'[d].key = devices[d].key
    <3>1. relay'[d] = ActiveCredentials[d]
      BY <1>11 DEF Start
    <3>2. d \in Active /\ relay'[d] = CredentialFor(d)
      BY <2>1, <3>1, ActiveCredentialsOfDevices
    <3> QED BY <3>2 DEF CredentialFor, Active
  <2>2. devices' = devices /\ calls' = calls
    BY <1>11 DEF Start
  <2> QED BY <2>1, <2>2 DEF Holds, Authorizing, Enrolled
<1>12. CASE UNCHANGED vars
  BY <1>12 DEF vars, Holds, Authorizing, Enrolled
<1> QED BY <1>1, <1>2, <1>3, <1>4, <1>5, <1>6, <1>7,
           <1>8, <1>9, <1>10, <1>11, <1>12 DEF Next, Handler

(* Hooks are about enrolled devices only. *)
LEMMA StaticsStep == IInv /\ [Next]_vars => StaticsAsConfigured'
<1> SUFFICES ASSUME IInv, [Next]_vars
             PROVE  StaticsAsConfigured'
  OBVIOUS
<1> USE StaticAssumption DEF IInv, StaticsAsConfigured, process
<1>1. ASSUME NEW code \in Codes, NEW ttl \in 1 .. TTL, CreateActivation(code, ttl)
      PROVE  StaticsAsConfigured'
  BY <1>1 DEF CreateActivation, PruneActivations, Audited, Enrolled, Active
<1>2. ASSUME NEW t \in Threads, NEW code \in Codes, NEW d \in Devices, Enroll(t, code, d)
      PROVE  StaticsAsConfigured'
  BY <1>2 DEF Enroll, Valid, FirstFree, Taken, Committed, Audited, Enrolled, Active
<1>3. ASSUME NEW t \in Threads, NEW d \in Devices, Rotate(t, d) PROVE StaticsAsConfigured'
  BY <1>3 DEF Rotate, Rotatable, Committed, Audited, Enrolled, Active
<1>4. ASSUME NEW t \in Threads, NEW d \in Devices, Revoke(t, d) PROVE StaticsAsConfigured'
  BY <1>4 DEF Revoke, RevokeRecord, Committed, Audited, Enrolled, Active
<1>5. ASSUME NEW t \in Threads, AuthorizeHook(t) PROVE StaticsAsConfigured'
  <2>1. calls[t].device \in Devices
    BY <1>5, AuthorizeEffect
  <2> QED BY <1>5, <2>1, AuthorizeEffect DEF TypeOK
<1>6. ASSUME NEW t \in Threads, RevokeHook(t) PROVE StaticsAsConfigured'
  <2>1. calls[t].device \in Devices
    BY <1>6 DEF RevokeHook, TypeOK, Call, Idle
  <2> QED BY <1>6, <2>1 DEF RevokeHook, TypeOK
<1>7. ASSUME NEW d \in Devices, Touch(d) PROVE StaticsAsConfigured'
  BY <1>7 DEF Touch, Enrolled, Active
<1>8. CASE Tick
  BY <1>8 DEF Tick, Enrolled, Active
<1>9. CASE Crash
  BY <1>9 DEF Crash, Nobody
<1>10. CASE Configure
  <2>1. relay' = relay /\ running' = running /\ ~running
    BY <1>10 DEF Configure
  <2> QED BY <2>1
<1>11. CASE Start
  <2>1. ASSUME NEW c \in Statics
        PROVE  ActiveCredentials[c] = IF c \in configured THEN StaticCredential(c) ELSE None
    <3>1. c \notin Active
      BY DEF Active, Enrolled
    <3> QED BY <3>1 DEF ActiveCredentials
  <2> QED BY <1>11, <2>1 DEF Start
<1>12. CASE UNCHANGED vars
  BY <1>12 DEF vars, Enrolled, Active
<1> QED BY <1>1, <1>2, <1>3, <1>4, <1>5, <1>6, <1>7,
           <1>8, <1>9, <1>10, <1>11, <1>12 DEF Next, Handler

(* Handlers run while the process does. *)
LEMMA SurvivesStep == IInv /\ [Next]_vars => NothingSurvives'
<1> SUFFICES ASSUME IInv, [Next]_vars
             PROVE  NothingSurvives'
  OBVIOUS
<1> USE StaticAssumption DEF IInv, NothingSurvives, process
<1>1. ASSUME NEW code \in Codes, NEW ttl \in 1 .. TTL, CreateActivation(code, ttl)
      PROVE  NothingSurvives'
  BY <1>1 DEF CreateActivation, PruneActivations, Audited, Enrolled, Active
<1>2. ASSUME NEW t \in Threads, NEW code \in Codes, NEW d \in Devices, Enroll(t, code, d)
      PROVE  NothingSurvives'
  BY <1>2 DEF Enroll, Valid, FirstFree, Taken, Committed, Audited, Enrolled, Active
<1>3. ASSUME NEW t \in Threads, NEW d \in Devices, Rotate(t, d) PROVE NothingSurvives'
  BY <1>3 DEF Rotate, Rotatable, Committed, Audited, Enrolled, Active
<1>4. ASSUME NEW t \in Threads, NEW d \in Devices, Revoke(t, d) PROVE NothingSurvives'
  BY <1>4 DEF Revoke, RevokeRecord, Committed, Audited, Enrolled, Active
<1>5. ASSUME NEW t \in Threads, AuthorizeHook(t) PROVE NothingSurvives'
  BY <1>5, AuthorizeEffect
<1>6. ASSUME NEW t \in Threads, RevokeHook(t) PROVE NothingSurvives'
  BY <1>6 DEF RevokeHook, Idle
<1>7. ASSUME NEW d \in Devices, Touch(d) PROVE NothingSurvives'
  BY <1>7 DEF Touch, Enrolled, Active
<1>8. CASE Tick
  BY <1>8 DEF Tick, Enrolled, Active
<1>9. CASE Crash
  BY <1>9 DEF Crash, Enrolled, Active
<1>10. CASE Configure
  BY <1>10 DEF Configure, Enrolled, Active
<1>11. CASE Start
  BY <1>11 DEF Start
<1>12. CASE UNCHANGED vars
  BY <1>12 DEF vars, Enrolled, Active
<1> QED BY <1>1, <1>2, <1>3, <1>4, <1>5, <1>6, <1>7,
           <1>8, <1>9, <1>10, <1>11, <1>12 DEF Next, Handler

(* A step after which the relay may accept no device that it could not before *)
(* keeps them away from the reserved addresses.                               *)
LEMMA NobodyNewAccepted ==
  ASSUME IInv, configured' = configured, running' => running, Enrolled' = Enrolled,
         \A d \in Enrolled : devices'[d].address = devices[d].address,
         \A d \in Enrolled : MayBeAccepted(d)' => MayBeAccepted(d)
  PROVE  ReservedAvoided'
<1>1. Reserved' = Reserved
  BY DEF Reserved
<1> QED BY <1>1 DEF IInv, ReservedAvoided

(* Only a start lets in devices, and it fails if one is at a reserved address. *)
LEMMA ReservedStep == IInv /\ [Next]_vars => ReservedAvoided'
<1> SUFFICES ASSUME IInv, [Next]_vars
             PROVE  ReservedAvoided'
  OBVIOUS
<1> USE NobodyNewAccepted DEF store, process
<1>1. ASSUME NEW code \in Codes, NEW ttl \in 1 .. TTL, CreateActivation(code, ttl)
      PROVE  ReservedAvoided'
  BY <1>1 DEF CreateActivation, MayBeAccepted, Authorizing, Enrolled, Active
<1>2. ASSUME NEW t \in Threads, NEW code \in Codes, NEW d \in Devices, Enroll(t, code, d)
      PROVE  ReservedAvoided'
  <2>1. PICK address \in Pool \ Taken :
          /\ \A e \in Enrolled : devices'[e] = devices[e]
          /\ devices'[d].address = address
          /\ Enrolled' = Enrolled \union {d} /\ Active' = Active \union {d}
          /\ d \notin Enrolled
          /\ Committed(t, d, [at |-> "authorizing", device |-> d, enrolling |-> TRUE,
                              credential |-> [key |-> keys + 1, ip |-> address]])
    BY <1>2, EnrollEffect
  <2>2. Reserved' = Reserved /\ relay' = relay /\ running
    BY <1>2 DEF Enroll, Reserved
  <2>3. \A u \in Threads : calls'[u] = calls[u] \/ calls'[u].device = d
    BY <2>1 DEF Committed, IInv, TypeOK
  <2>4. ASSUME NEW e \in Enrolled, MayBeAccepted(e)'
        PROVE  devices'[e].address \notin Reserved
    <3>1. e # d
      BY <2>1
    <3>2. MayBeAccepted(e)
      BY <2>1, <2>2, <2>3, <2>4, <3>1 DEF MayBeAccepted, Authorizing
    <3> QED BY <2>1, <2>2, <3>2 DEF IInv, ReservedAvoided
  <2>5. devices'[d].address \notin Reserved
    BY <2>1 DEF Taken
  <2> QED BY <2>1, <2>2, <2>4, <2>5 DEF ReservedAvoided
<1>3. ASSUME NEW t \in Threads, NEW d \in Devices, Rotate(t, d) PROVE ReservedAvoided'
  <2>1. /\ d \in Active /\ Enrolled' = Enrolled /\ Active' = Active
        /\ \A e \in Enrolled : devices'[e].address = devices[e].address
    BY <1>3, RotateEffect
  <2>2. \A u \in Threads : calls'[u] = calls[u] \/ calls'[u].device = d
    BY <1>3 DEF Rotate, Committed, IInv, TypeOK
  <2>3. relay' = relay /\ configured' = configured /\ running' = running
    BY <1>3 DEF Rotate
  <2>4. ASSUME NEW e \in Enrolled, MayBeAccepted(e)' PROVE MayBeAccepted(e)
    BY <2>1, <2>2, <2>3, <2>4 DEF MayBeAccepted, Authorizing
  <2> QED BY <2>1, <2>3, <2>4
<1>4. ASSUME NEW t \in Threads, NEW d \in Devices, Revoke(t, d) PROVE ReservedAvoided'
  <2>1. /\ Enrolled' = Enrolled /\ Active' = Active \ {d}
        /\ \A e \in Enrolled : devices'[e].address = devices[e].address
    BY <1>4, RevokeEffect DEF Revoke
  <2>2. \A u \in Threads : calls'[u] = calls[u] \/ calls'[u].at = "revoking"
    BY <1>4 DEF Revoke, Committed, IInv, TypeOK
  <2>3. relay' = relay /\ configured' = configured /\ running' = running
    BY <1>4 DEF Revoke
  <2>4. ASSUME NEW e \in Enrolled, MayBeAccepted(e)' PROVE MayBeAccepted(e)
    BY <2>1, <2>2, <2>3, <2>4 DEF MayBeAccepted, Authorizing
  <2> QED BY <2>1, <2>3, <2>4
<1>5. ASSUME NEW t \in Threads, AuthorizeHook(t) PROVE ReservedAvoided'
  <2>1. /\ Authorizing(t)
        /\ \A e \in Devices : relay'[e] = relay[e] \/ e = calls[t].device
        /\ \A u \in Threads : calls'[u] = calls[u] \/ calls'[u] = Idle
        /\ UNCHANGED <<devices, configured, running>>
    BY <1>5, AuthorizeEffect DEF IInv, TypeOK
  <2>2. Enrolled' = Enrolled /\ Active' = Active
    BY <2>1 DEF Enrolled, Active
  <2>3. ASSUME NEW e \in Enrolled, MayBeAccepted(e)' PROVE MayBeAccepted(e)
    <3>1. e \in Devices
      BY DEF Enrolled
    <3> QED BY <2>1, <2>2, <2>3, <3>1 DEF MayBeAccepted, Authorizing, Idle
  <2> QED BY <2>1, <2>2, <2>3
<1>6. ASSUME NEW t \in Threads, RevokeHook(t) PROVE ReservedAvoided'
  <2>1. /\ \A e \in Devices : relay'[e] = relay[e] \/ relay'[e] = None
        /\ \A u \in Threads : calls'[u] = calls[u] \/ calls'[u] = Idle
        /\ UNCHANGED <<devices, configured, running>>
    BY <1>6 DEF RevokeHook, IInv, TypeOK
  <2>2. Enrolled' = Enrolled /\ Active' = Active
    BY <2>1 DEF Enrolled, Active
  <2>3. ASSUME NEW e \in Enrolled, MayBeAccepted(e)' PROVE MayBeAccepted(e)
    <3>1. e \in Devices
      BY DEF Enrolled
    <3> QED BY <2>1, <2>2, <2>3, <3>1 DEF MayBeAccepted, Authorizing, Idle
  <2> QED BY <2>1, <2>2, <2>3
<1>7. ASSUME NEW d \in Devices, Touch(d) PROVE ReservedAvoided'
  BY <1>7, TouchEffect DEF Touch, MayBeAccepted, Authorizing
<1>8. CASE Tick
  BY <1>8 DEF Tick, MayBeAccepted, Authorizing, Enrolled, Active
<1>9. CASE Crash
  BY <1>9 DEF Crash, ReservedAvoided
<1>10. CASE Configure
  BY <1>10 DEF Configure, ReservedAvoided
<1>11. CASE Start
  <2>1. /\ ~running /\ Loadable /\ relay' = ActiveCredentials
        /\ UNCHANGED <<devices, calls, configured>>
    BY <1>11 DEF Start
  <2>2. Enrolled' = Enrolled /\ Active' = Active /\ Reserved' = Reserved
    BY <2>1 DEF Enrolled, Active, Reserved
  <2>3. \A t \in Threads : calls'[t] = Idle
    BY <2>1 DEF IInv, NothingSurvives
  <2>4. ASSUME NEW d \in Enrolled, MayBeAccepted(d)' PROVE devices'[d].address \notin Reserved
    <3>1. d \in Devices /\ d \in Active
      BY <2>1, <2>2, <2>3, <2>4, ActiveCredentialsOfDevices
         DEF MayBeAccepted, Authorizing, Idle, Enrolled
    <3>2. ActiveCredentials[d].ip = devices[d].address
      <4>1. ActiveCredentials[d] = CredentialFor(d)
        BY <3>1, ActiveCredentialsOfDevices
      <4> QED BY <4>1 DEF CredentialFor
    <3>3. ASSUME NEW c \in configured PROVE StaticAddress[c] # devices[d].address
      <4>1. c \in Statics /\ c # d
        BY <3>1, StaticAssumption DEF IInv, TypeOK
      <4>2. ActiveCredentials[c].ip = StaticAddress[c]
        BY <4>1 DEF ActiveCredentials, StaticCredential
      <4> QED BY <2>1, <3>1, <3>2, <4>1, <4>2 DEF Loadable
    <3>4. devices[d].address # RelayAddress
      BY DEF IInv, AddressesApart
    <3> QED BY <2>1, <3>3, <3>4 DEF Reserved
  <2> QED BY <2>2, <2>4 DEF ReservedAvoided
<1>12. CASE UNCHANGED vars
  BY <1>12 DEF vars, MayBeAccepted, Authorizing, Enrolled, Active
<1> QED BY <1>1, <1>2, <1>3, <1>4, <1>5, <1>6, <1>7,
           <1>8, <1>9, <1>10, <1>11, <1>12 DEF Next, Handler

(* A committed change of d with a call to follow: the other devices' calls are *)
(* left alone, and if others were about d it is contested.                     *)
LEMMA CommittedUncontested ==
  ASSUME IInv, NEW t \in Threads, NEW d \in Devices, NEW call,
         calls[t] = Idle, Committed(t, d, call), call.device = d, call # Idle,
         call.at = "authorizing" => d \in Active' /\ call.credential = CredentialFor(d)',
         Active \ {d} \subseteq Active',
         \A e \in Active \ {d} : CredentialFor(e)' = CredentialFor(e)
  PROVE  Uncontested'
<1>1. /\ \A u \in Threads \ {t} : calls'[u] = calls[u]
      /\ calls'[t] = call
      /\ contested' = IF Quiet(d) THEN contested ELSE contested \union {d}
  BY DEF Committed, IInv, TypeOK
<1>2. ASSUME NEW e \in Devices \ contested', e # d
      PROVE  /\ \A u, v \in Threads :
                    /\ calls'[u] # Idle /\ calls'[v] # Idle
                    /\ calls'[u].device = e /\ calls'[v].device = e
                    => u = v
             /\ \A u \in Threads : calls'[u].at = "authorizing" /\ calls'[u].device = e =>
                    e \in Active' /\ calls'[u].credential = CredentialFor(e)'
  <2>1. e \in Devices \ contested
    BY <1>1, <1>2
  <2>2. \A u \in Threads : calls'[u].device = e => u # t /\ calls'[u] = calls[u]
    BY <1>1, <1>2
  <2> QED BY <1>2, <2>1, <2>2 DEF IInv, Uncontested, Authorizing
<1>3. ASSUME d \notin contested'
      PROVE  /\ \A u \in Threads : calls'[u] # Idle /\ calls'[u].device = d => u = t
             /\ \A u \in Threads : calls'[u].at = "authorizing" /\ calls'[u].device = d =>
                    d \in Active' /\ calls'[u].credential = CredentialFor(d)'
  <2>1. Quiet(d)
    BY <1>1, <1>3
  <2>2. \A u \in Threads \ {t} : calls'[u] # Idle => calls'[u].device # d
    BY <1>1, <2>1 DEF Quiet
  <2> QED BY <1>1, <2>2 DEF Idle
<1> QED BY <1>2, <1>3 DEF Uncontested, Authorizing

(* Calls about one device that overlap are noted. *)
LEMMA UncontestedStep == IInv /\ [Next]_vars => Uncontested'
<1> SUFFICES ASSUME IInv, [Next]_vars
             PROVE  Uncontested'
  OBVIOUS
<1> USE NoneAssumption DEF store, process
<1>1. ASSUME NEW code \in Codes, NEW ttl \in 1 .. TTL, CreateActivation(code, ttl)
      PROVE  Uncontested'
  BY <1>1 DEF IInv, CreateActivation, Uncontested, Authorizing, Enrolled, Active, CredentialFor
<1>2. ASSUME NEW t \in Threads, NEW code \in Codes, NEW d \in Devices, Enroll(t, code, d)
      PROVE  Uncontested'
  <2>1. PICK address \in Pool \ Taken :
          /\ \A e \in Enrolled : devices'[e] = devices[e]
          /\ CredentialFor(d)' = [key |-> keys + 1, ip |-> address]
          /\ Active' = Active \union {d}
          /\ d \notin Enrolled
          /\ Committed(t, d, [at |-> "authorizing", device |-> d, enrolling |-> TRUE,
                              credential |-> [key |-> keys + 1, ip |-> address]])
    BY <1>2, EnrollEffect
  <2>2. /\ d \in Active' /\ Active \subseteq Active'
        /\ \A e \in Active : CredentialFor(e)' = CredentialFor(e)
    BY <2>1 DEF CredentialFor, Active
  <2> DEFINE call == [at |-> "authorizing", device |-> d, enrolling |-> TRUE,
                      credential |-> [key |-> keys + 1, ip |-> address]]
  <2>3. /\ call.device = d /\ call # Idle
        /\ call.credential = CredentialFor(d)'
    BY <2>1 DEF Idle
  <2>4. calls[t] = Idle /\ Committed(t, d, call)
    BY <1>2, <2>1 DEF Enroll
  <2> HIDE DEF call
  <2> QED BY <2>2, <2>3, <2>4, CommittedUncontested
<1>3. ASSUME NEW t \in Threads, NEW d \in Devices, Rotate(t, d) PROVE Uncontested'
  <2>1. /\ d \in Active /\ Active' = Active
        /\ CredentialFor(d)' = [key |-> keys + 1, ip |-> devices[d].address]
        /\ \A e \in Active \ {d} : CredentialFor(e)' = CredentialFor(e)
    BY <1>3, RotateEffect DEF CredentialFor, Active
  <2> DEFINE call == [at |-> "authorizing", device |-> d, enrolling |-> FALSE,
                      credential |-> [key |-> keys + 1, ip |-> devices[d].address]]
  <2>2. /\ call.device = d /\ call # Idle
        /\ call.credential = CredentialFor(d)'
    BY <2>1 DEF Idle
  <2>3. calls[t] = Idle /\ Committed(t, d, call)
    BY <1>3 DEF Rotate
  <2> HIDE DEF call
  <2> QED BY <2>1, <2>2, <2>3, CommittedUncontested
<1>4. ASSUME NEW t \in Threads, NEW d \in Devices, Revoke(t, d) PROVE Uncontested'
  <2>1. /\ Active' = Active \ {d}
        /\ \A e \in Active : CredentialFor(e)' = CredentialFor(e)
    BY <1>4, RevokeEffect DEF Revoke, CredentialFor, Active
  <2> DEFINE call == [at |-> "revoking", device |-> d]
  <2>2. call.device = d /\ call # Idle /\ call.at # "authorizing"
    BY DEF Idle
  <2>3. calls[t] = Idle /\ Committed(t, d, call)
    BY <1>4 DEF Revoke
  <2> HIDE DEF call
  <2> QED BY <2>1, <2>2, <2>3, CommittedUncontested
<1>5. ASSUME NEW t \in Threads, AuthorizeHook(t) PROVE Uncontested'
  <2>1. /\ \A u \in Threads : calls'[u] = calls[u] \/ calls'[u] = Idle
        /\ UNCHANGED <<devices, contested>>
    BY <1>5, AuthorizeEffect DEF IInv, TypeOK
  <2>2. Active' = Active /\ \A d \in Devices : CredentialFor(d)' = CredentialFor(d)
    BY <2>1 DEF Enrolled, Active, CredentialFor
  <2> QED BY <2>1, <2>2 DEF IInv, Uncontested, Authorizing, Idle
<1>6. ASSUME NEW t \in Threads, RevokeHook(t) PROVE Uncontested'
  <2>1. /\ \A u \in Threads : calls'[u] = calls[u] \/ calls'[u] = Idle
        /\ UNCHANGED <<devices, contested>>
    BY <1>6 DEF RevokeHook, IInv, TypeOK
  <2>2. Active' = Active /\ \A d \in Devices : CredentialFor(d)' = CredentialFor(d)
    BY <2>1 DEF Enrolled, Active, CredentialFor
  <2> QED BY <2>1, <2>2 DEF IInv, Uncontested, Authorizing, Idle
<1>7. ASSUME NEW d \in Devices, Touch(d) PROVE Uncontested'
  <2>1. /\ Active' = Active /\ UNCHANGED <<calls, contested>>
        /\ \A e \in Enrolled : CredentialFor(e)' = CredentialFor(e)
    BY <1>7, TouchEffect DEF Touch, CredentialFor
  <2> QED BY <2>1 DEF IInv, Uncontested, Authorizing, Active
<1>8. CASE Tick
  <2>1. UNCHANGED <<devices, calls, contested>>
    BY <1>8 DEF Tick
  <2> QED BY <2>1 DEF IInv, Uncontested, Authorizing, Enrolled, Active, CredentialFor
<1>9. CASE Crash
  BY <1>9 DEF Crash, Uncontested, Authorizing, Idle
<1>10. CASE Configure
  BY <1>10 DEF IInv, Configure, Uncontested, Authorizing, Enrolled, Active, CredentialFor
<1>11. CASE Start
  BY <1>11 DEF IInv, Start, Uncontested, Authorizing, Enrolled, Active, CredentialFor
<1>12. CASE UNCHANGED vars
  BY <1>12 DEF IInv, vars, Uncontested, Authorizing, Enrolled, Active, CredentialFor
<1> QED BY <1>1, <1>2, <1>3, <1>4, <1>5, <1>6, <1>7,
           <1>8, <1>9, <1>10, <1>11, <1>12 DEF Next, Handler

(* A change committed with a call to follow is about a device that is not    *)
(* quiet any more.                                                           *)
LEMMA CommittedMirrors ==
  ASSUME IInv, NEW t \in Threads, NEW d \in Devices, NEW call,
         calls[t] = Idle, Committed(t, d, call), call.device = d, call # Idle,
         running, relay' = relay,
         Active' \ {d} = Active \ {d},
         \A e \in Active \ {d} : CredentialFor(e)' = CredentialFor(e)
  PROVE  RelayMirrorsStore'
<1>1. /\ \A u \in Threads \ {t} : calls'[u] = calls[u]
      /\ calls'[t] = call
      /\ contested \subseteq contested'
  BY DEF Committed, IInv, TypeOK
<1>2. ASSUME NEW e \in Devices \ contested', Quiet(e)'
      PROVE  relay'[e] = IF e \in Active' THEN CredentialFor(e)' ELSE None
  <2>1. e # d
    BY <1>1, <1>2 DEF Quiet, Idle
  <2>2. Quiet(e)
    BY <1>1, <1>2 DEF Quiet, Idle
  <2>3. relay[e] = IF e \in Active THEN CredentialFor(e) ELSE None
    BY <1>1, <2>2 DEF IInv, RelayMirrorsStore
  <2> QED BY <2>1, <2>3
<1> QED BY <1>2 DEF RelayMirrorsStore

(* After a start, and after the hook of a device nobody contested, the copy is exact. *)
LEMMA MirrorStep == IInv /\ [Next]_vars => RelayMirrorsStore'
<1> SUFFICES ASSUME IInv, [Next]_vars
             PROVE  RelayMirrorsStore'
  OBVIOUS
<1> USE NoneAssumption DEF store, process
<1>1. ASSUME NEW code \in Codes, NEW ttl \in 1 .. TTL, CreateActivation(code, ttl)
      PROVE  RelayMirrorsStore'
  <2>1. UNCHANGED <<devices, calls, contested, relay, running>>
    BY <1>1 DEF CreateActivation
  <2> QED BY <2>1 DEF IInv, RelayMirrorsStore, Quiet, Enrolled, Active, CredentialFor
<1>2. ASSUME NEW t \in Threads, NEW code \in Codes, NEW d \in Devices, Enroll(t, code, d)
      PROVE  RelayMirrorsStore'
  <2>1. PICK address \in Pool \ Taken :
          /\ \A e \in Enrolled : devices'[e] = devices[e]
          /\ Active' = Active \union {d}
          /\ Committed(t, d, [at |-> "authorizing", device |-> d, enrolling |-> TRUE,
                              credential |-> [key |-> keys + 1, ip |-> address]])
    BY <1>2, EnrollEffect
  <2>2. /\ Active' \ {d} = Active \ {d}
        /\ \A e \in Active : CredentialFor(e)' = CredentialFor(e)
    BY <2>1 DEF CredentialFor, Active
  <2> DEFINE call == [at |-> "authorizing", device |-> d, enrolling |-> TRUE,
                      credential |-> [key |-> keys + 1, ip |-> address]]
  <2>3. call.device = d /\ call # Idle
    BY DEF Idle
  <2>4. calls[t] = Idle /\ Committed(t, d, call) /\ running /\ relay' = relay
    BY <1>2, <2>1 DEF Enroll
  <2> HIDE DEF call
  <2> QED BY <2>2, <2>3, <2>4, CommittedMirrors
<1>3. ASSUME NEW t \in Threads, NEW d \in Devices, Rotate(t, d) PROVE RelayMirrorsStore'
  <2>1. /\ Active' = Active
        /\ \A e \in Active \ {d} : CredentialFor(e)' = CredentialFor(e)
    BY <1>3, RotateEffect DEF CredentialFor, Active
  <2> DEFINE call == [at |-> "authorizing", device |-> d, enrolling |-> FALSE,
                      credential |-> [key |-> keys + 1, ip |-> devices[d].address]]
  <2>2. call.device = d /\ call # Idle
    BY DEF Idle
  <2>3. calls[t] = Idle /\ Committed(t, d, call) /\ running /\ relay' = relay
    BY <1>3 DEF Rotate
  <2> HIDE DEF call
  <2> QED BY <2>1, <2>2, <2>3, CommittedMirrors
<1>4. ASSUME NEW t \in Threads, NEW d \in Devices, Revoke(t, d) PROVE RelayMirrorsStore'
  <2>1. /\ Active' \ {d} = Active \ {d}
        /\ \A e \in Active : CredentialFor(e)' = CredentialFor(e)
    BY <1>4, RevokeEffect DEF Revoke, CredentialFor, Active
  <2> DEFINE call == [at |-> "revoking", device |-> d]
  <2>2. call.device = d /\ call # Idle
    BY DEF Idle
  <2>3. calls[t] = Idle /\ Committed(t, d, call) /\ running /\ relay' = relay
    BY <1>4 DEF Revoke
  <2> HIDE DEF call
  <2> QED BY <2>1, <2>2, <2>3, CommittedMirrors
<1>5. ASSUME NEW t \in Threads, AuthorizeHook(t) PROVE RelayMirrorsStore'
  <2> DEFINE d == calls[t].device
  <2>1. /\ Authorizing(t) /\ calls[t] # Idle /\ d \in Devices
        /\ \A e \in Devices \ {d} : relay'[e] = relay[e]
        /\ relay'[d] = calls[t].credential
        /\ \A u \in Threads \ {t} : calls'[u] = calls[u]
        /\ UNCHANGED <<devices, contested, running>>
    BY <1>5, AuthorizeEffect DEF IInv, TypeOK
  <2>2. Active' = Active /\ \A e \in Devices : CredentialFor(e)' = CredentialFor(e)
    BY <2>1 DEF Enrolled, Active, CredentialFor
  <2>3. d \notin contested => d \in Active /\ calls[t].credential = CredentialFor(d)
    BY <2>1 DEF IInv, Uncontested
  <2>4. \A e \in Devices \ {d} : Quiet(e)' => Quiet(e)
    BY <2>1 DEF Quiet
  <2> HIDE DEF d
  <2>5. ASSUME running, NEW e \in Devices \ contested, Quiet(e)'
        PROVE  relay'[e] = IF e \in Active THEN CredentialFor(e) ELSE None
    <3>1. CASE e = d
      BY <2>1, <2>3, <2>5, <3>1
    <3>2. CASE e # d
      BY <2>1, <2>4, <2>5, <3>2 DEF IInv, RelayMirrorsStore
    <3> QED BY <3>1, <3>2
  <2> QED BY <2>1, <2>2, <2>5 DEF RelayMirrorsStore
<1>6. ASSUME NEW t \in Threads, RevokeHook(t) PROVE RelayMirrorsStore'
  <2> DEFINE d == calls[t].device
  <2>1. calls[t].at = "revoking" /\ calls[t] # Idle
    BY <1>6 DEF RevokeHook, Idle
  <2>2. d \notin Active /\ d \in Devices
    BY <2>1 DEF IInv, CallsDurable, Revoking, Enrolled
  <2>3. /\ \A e \in Devices \ {d} : relay'[e] = relay[e]
        /\ relay'[d] = None
        /\ \A u \in Threads \ {t} : calls'[u] = calls[u]
        /\ UNCHANGED <<devices, contested, running>>
    BY <1>6, <2>2 DEF RevokeHook, IInv, TypeOK
  <2>4. Active' = Active /\ \A e \in Devices : CredentialFor(e)' = CredentialFor(e)
    BY <2>3 DEF Enrolled, Active, CredentialFor
  <2>5. \A e \in Devices \ {d} : Quiet(e)' => Quiet(e)
    BY <2>1, <2>3 DEF Quiet
  <2> HIDE DEF d
  <2>6. ASSUME running, NEW e \in Devices \ contested, Quiet(e)'
        PROVE  relay'[e] = IF e \in Active THEN CredentialFor(e) ELSE None
    <3>1. CASE e = d
      BY <2>2, <2>3, <3>1
    <3>2. CASE e # d
      BY <2>3, <2>5, <2>6, <3>2 DEF IInv, RelayMirrorsStore
    <3> QED BY <3>1, <3>2
  <2> QED BY <2>3, <2>4, <2>6 DEF RelayMirrorsStore
<1>7. ASSUME NEW d \in Devices, Touch(d) PROVE RelayMirrorsStore'
  <2>1. /\ Active' = Active /\ UNCHANGED <<calls, contested, relay, running>>
        /\ \A e \in Active : CredentialFor(e)' = CredentialFor(e)
    BY <1>7, TouchEffect DEF Touch, CredentialFor, Active
  <2>2. \A e \in Devices : Quiet(e)' = Quiet(e)
    BY <2>1 DEF Quiet
  <2> QED BY <2>1, <2>2 DEF IInv, RelayMirrorsStore
<1>8. CASE Tick
  <2>1. UNCHANGED <<devices, calls, contested, relay, running>>
    BY <1>8 DEF Tick
  <2> QED BY <2>1 DEF IInv, RelayMirrorsStore, Quiet, Enrolled, Active, CredentialFor
<1>9. CASE Crash
  BY <1>9 DEF Crash, RelayMirrorsStore
<1>10. CASE Configure
  BY <1>10 DEF Configure, RelayMirrorsStore
<1>11. CASE Start
  <2>1. relay' = ActiveCredentials /\ devices' = devices
    BY <1>11 DEF Start
  <2>2. Active' = Active /\ \A d \in Devices : CredentialFor(d)' = CredentialFor(d)
    BY <2>1 DEF Enrolled, Active, CredentialFor
  <2> QED BY <2>1, <2>2, ActiveCredentialsOfDevices DEF RelayMirrorsStore
<1>12. CASE UNCHANGED vars
  <2>1. UNCHANGED <<devices, calls, contested, relay, running>>
    BY <1>12 DEF vars
  <2> QED BY <2>1 DEF IInv, RelayMirrorsStore, Quiet, Enrolled, Active, CredentialFor
<1> QED BY <1>1, <1>2, <1>3, <1>4, <1>5, <1>6, <1>7,
           <1>8, <1>9, <1>10, <1>11, <1>12 DEF Next, Handler

(* The audit log of one device tells whether it is enrolled and revoked.     *)
LogTells(log, enrolled, active) ==
    /\ enrolled <=> log # <<>>
    /\ \A i \in 1 .. Len(log) :
           /\ log[i] = "device.enrolled" <=> i = 1
           /\ log[i] = "device.revoked" <=> i = Len(log) /\ ~active

(* The first entry of a log, the entry of a rotation, the last entry.        *)
LEMMA LogGrows ==
  ASSUME NEW log \in Seq(Event)
  PROVE  /\ LogTells(log, FALSE, FALSE)
                => LogTells(Append(log, "device.enrolled"), TRUE, TRUE)
         /\ LogTells(log, TRUE, TRUE)
                => /\ LogTells(Append(log, "device.key_rotated"), TRUE, TRUE)
                   /\ LogTells(Append(log, "device.revoked"), TRUE, FALSE)
<1>1. Len(log) \in Nat
  OBVIOUS
<1>2. ASSUME NEW e \in Event
      PROVE  /\ Append(log, e) # <<>> /\ Len(Append(log, e)) = Len(log) + 1
             /\ \A i \in 1 .. Len(log) : Append(log, e)[i] = log[i]
             /\ Append(log, e)[Len(log) + 1] = e
  OBVIOUS
<1>3. log = <<>> <=> Len(log) = 0
  OBVIOUS
<1>4. \A i \in 1 .. Len(log) + 1 : i \in 1 .. Len(log) \/ i = Len(log) + 1
  BY <1>1
<1>5. ASSUME LogTells(log, FALSE, FALSE)
      PROVE  LogTells(Append(log, "device.enrolled"), TRUE, TRUE)
  <2>1. Len(log) = 0
    BY <1>3, <1>5 DEF LogTells
  <2> QED BY <1>2, <1>4, <2>1 DEF LogTells, Event
<1>6. ASSUME LogTells(log, TRUE, TRUE)
      PROVE  LogTells(Append(log, "device.key_rotated"), TRUE, TRUE)
  <2>1. Len(log) + 1 # 1
    BY <1>1, <1>3, <1>6 DEF LogTells
  <2> QED BY <1>2, <1>4, <1>6, <2>1 DEF LogTells, Event
<1>7. ASSUME LogTells(log, TRUE, TRUE)
      PROVE  LogTells(Append(log, "device.revoked"), TRUE, FALSE)
  <2>1. Len(log) + 1 # 1
    BY <1>1, <1>3, <1>7 DEF LogTells
  <2>2. \A i \in 1 .. Len(log) : i # Len(log) + 1
    BY <1>1
  <2> QED BY <1>1, <1>2, <1>4, <1>7, <2>1, <2>2 DEF LogTells, Event
<1> QED BY <1>5, <1>6, <1>7

(* A device's log gets an entry in the transaction that changes the device. *)
LEMMA AuditStep == IInv /\ [Next]_vars => AuditTellsHistory'
<1> SUFFICES ASSUME IInv, [Next]_vars
             PROVE  AuditTellsHistory'
  OBVIOUS
<1> USE NoneAssumption DEF store, process
<1>1. ASSUME NEW code \in Codes, NEW ttl \in 1 .. TTL, CreateActivation(code, ttl)
      PROVE  AuditTellsHistory'
  <2>1. devices' = devices /\ \A d \in Devices : audit'[d] = audit[d]
    BY <1>1 DEF CreateActivation, Audited, IInv, TypeOK
  <2> QED BY <2>1 DEF IInv, AuditTellsHistory, Enrolled, Active
<1>2. ASSUME NEW t \in Threads, NEW code \in Codes, NEW d \in Devices, Enroll(t, code, d)
      PROVE  AuditTellsHistory'
  <2>0. /\ d \notin Enrolled /\ Enrolled' = Enrolled \union {d}
        /\ d \notin Active /\ Active' = Active \union {d}
    BY <1>2, EnrollEffect
  <2>1. audit[d] \in Seq(Event)
    BY DEF IInv, TypeOK
  <2>2. LogTells(audit[d], FALSE, FALSE)
    BY <2>0 DEF IInv, AuditTellsHistory, LogTells
  <2>3. LogTells(Append(audit[d], "device.enrolled"), TRUE, TRUE)
    BY <2>1, <2>2, LogGrows
  <2>4. /\ audit'[d] = Append(audit[d], "device.enrolled")
        /\ \A e \in Devices \ {d} : audit'[e] = audit[e]
    BY <1>2 DEF Enroll, Audited, IInv, TypeOK
  <2> QED BY <2>0, <2>3, <2>4 DEF IInv, AuditTellsHistory, LogTells
<1>3. ASSUME NEW t \in Threads, NEW d \in Devices, Rotate(t, d) PROVE AuditTellsHistory'
  <2>0. /\ d \in Enrolled /\ Enrolled' = Enrolled
        /\ d \in Active /\ Active' = Active
    BY <1>3, RotateEffect
  <2>1. audit[d] \in Seq(Event)
    BY DEF IInv, TypeOK
  <2>2. LogTells(audit[d], TRUE, TRUE)
    BY <2>0 DEF IInv, AuditTellsHistory, LogTells
  <2>3. LogTells(Append(audit[d], "device.key_rotated"), TRUE, TRUE)
    BY <2>1, <2>2, LogGrows
  <2>4. /\ audit'[d] = Append(audit[d], "device.key_rotated")
        /\ \A e \in Devices \ {d} : audit'[e] = audit[e]
    BY <1>3 DEF Rotate, Audited, IInv, TypeOK
  <2> QED BY <2>0, <2>3, <2>4 DEF IInv, AuditTellsHistory, LogTells
<1>4. ASSUME NEW t \in Threads, NEW d \in Devices, Revoke(t, d) PROVE AuditTellsHistory'
  <2>0. /\ d \in Enrolled /\ RevokeRecord(d)
        /\ Enrolled' = Enrolled /\ Active' = Active \ {d}
    BY <1>4, RevokeEffect DEF Revoke
  <2>1. CASE d \in Active
    <3>1. audit[d] \in Seq(Event)
      BY DEF IInv, TypeOK
    <3>2. LogTells(audit[d], TRUE, TRUE)
      BY <2>0, <2>1 DEF IInv, AuditTellsHistory, LogTells
    <3>3. LogTells(Append(audit[d], "device.revoked"), TRUE, FALSE)
      BY <3>1, <3>2, LogGrows
    <3>4. /\ audit'[d] = Append(audit[d], "device.revoked")
          /\ \A e \in Devices \ {d} : audit'[e] = audit[e]
      BY <2>0, <2>1 DEF RevokeRecord, Audited, IInv, TypeOK
    <3> QED BY <2>0, <3>3, <3>4 DEF IInv, AuditTellsHistory, LogTells
  <2>2. CASE d \notin Active
    <3>1. audit' = audit
      BY <2>0, <2>2 DEF RevokeRecord
    <3> QED BY <2>0, <2>2, <3>1 DEF IInv, AuditTellsHistory
  <2> QED BY <2>1, <2>2
<1>5. ASSUME NEW t \in Threads, AuthorizeHook(t) PROVE AuditTellsHistory'
  <2>1. UNCHANGED <<devices, audit>>
    BY <1>5, AuthorizeEffect
  <2> QED BY <2>1 DEF IInv, AuditTellsHistory, Enrolled, Active
<1>6. ASSUME NEW t \in Threads, RevokeHook(t) PROVE AuditTellsHistory'
  <2>1. UNCHANGED <<devices, audit>>
    BY <1>6 DEF RevokeHook
  <2> QED BY <2>1 DEF IInv, AuditTellsHistory, Enrolled, Active
<1>7. ASSUME NEW d \in Devices, Touch(d) PROVE AuditTellsHistory'
  BY <1>7, TouchEffect DEF Touch, IInv, AuditTellsHistory
<1>8. CASE Tick
  <2>1. UNCHANGED <<devices, audit>>
    BY <1>8 DEF Tick
  <2> QED BY <2>1 DEF IInv, AuditTellsHistory, Enrolled, Active
<1>9. CASE Crash
  <2>1. UNCHANGED <<devices, audit>>
    BY <1>9 DEF Crash
  <2> QED BY <2>1 DEF IInv, AuditTellsHistory, Enrolled, Active
<1>10. CASE Configure
  <2>1. UNCHANGED <<devices, audit>>
    BY <1>10 DEF Configure
  <2> QED BY <2>1 DEF IInv, AuditTellsHistory, Enrolled, Active
<1>11. CASE Start
  <2>1. UNCHANGED <<devices, audit>>
    BY <1>11 DEF Start
  <2> QED BY <2>1 DEF IInv, AuditTellsHistory, Enrolled, Active
<1>12. CASE UNCHANGED vars
  <2>1. UNCHANGED <<devices, audit>>
    BY <1>12 DEF vars
  <2> QED BY <2>1 DEF IInv, AuditTellsHistory, Enrolled, Active
<1> QED BY <1>1, <1>2, <1>3, <1>4, <1>5, <1>6, <1>7,
           <1>8, <1>9, <1>10, <1>11, <1>12 DEF Next, Handler

(* The strengthening holds of an empty store and a relay not yet started.    *)
LEMMA InitIInv == Init => IInv
<1> SUFFICES ASSUME Init PROVE IInv
  OBVIOUS
<1> USE NoneAssumption, BoundsAssumption DEF Init, Enrolled, Active, Nobody, Idle
<1>1. TypeOK
  <2>1. \A d \in Devices : d \notin Enrolled
    OBVIOUS
  <2>2. audit \in [Devices \union {None} -> Seq(Event)]
    OBVIOUS
  <2>3. keys \in 0 .. MaxKeys
    OBVIOUS
  <2>4. /\ activations \in [Codes -> Activation \union {None, Pruned}]
        /\ devices \in [Devices -> Device \union {None}]
        /\ enrolledWith \in [Devices -> Codes \union {None}]
        /\ relay \in [Devices \union Statics -> Credential \union {None}]
    OBVIOUS
  <2>5. calls \in [Threads -> Call] /\ contested \subseteq Devices
    BY DEF Call
  <2> QED BY <2>1, <2>2, <2>3, <2>4, <2>5 DEF TypeOK
<1>2. CodesSpent /\ CodesWorkOnce /\ AddressesApart /\ CallsDurable
  BY DEF CodesSpent, CodesWorkOnce, AddressesApart, CallsDurable
<1>3. DurableBeforeLive /\ KeysGenerated /\ KeysApart
  BY DEF DurableBeforeLive, KeysGenerated, KeysApart, Holds, Authorizing
<1>4. StaticsAsConfigured /\ ReservedAvoided /\ NothingSurvives
  BY DEF StaticsAsConfigured, ReservedAvoided, NothingSurvives
<1>5. Uncontested /\ RelayMirrorsStore /\ AuditTellsHistory
  BY DEF Uncontested, RelayMirrorsStore, AuditTellsHistory, Authorizing
<1> QED BY <1>1, <1>2, <1>3, <1>4, <1>5 DEF IInv

(* Every reachable state of store, handlers and relay satisfies the          *)
(* strengthening.                                                            *)
THEOREM Invariance == Spec => []IInv
<1>1. IInv /\ [Next]_vars => TypeOK'
  BY TypeStep DEF IInv
<1>2. IInv /\ [Next]_vars => IInv'
  BY <1>1, CodesStep, AddressesStep, CallsStep, DurableStep, KeysStep, StaticsStep,
     ReservedStep, SurvivesStep, UncontestedStep, MirrorStep, AuditStep DEF IInv
<1> QED BY InitIInv, <1>2, PTL DEF Spec

(* Buckets, the relay's copy and the handlers keep their types.              *)
THEOREM TypeCorrect == Spec => []TypeOK
<1>1. IInv => TypeOK
  BY DEF IInv
<1> QED BY Invariance, <1>1, PTL

(* However enrollments race, crash and follow pruning, no activation code     *)
(* enrolls two devices.                                                       *)
THEOREM ActivationOnce == Spec => []CodesWorkOnce
<1>1. IInv => CodesWorkOnce
  BY DEF IInv
<1> QED BY Invariance, <1>1, PTL

(* No address is allocated twice, revoked devices' included, and a running    *)
(* relay accepts no device at its own address or a configured client's.       *)
THEOREM AddressOnce == Spec => []AddressesUnique
<1>1. IInv => AddressesUnique
  BY DEF IInv, AddressesApart, ReservedAvoided, MayBeAccepted, AddressesUnique
<1> QED BY Invariance, <1>1, PTL

(* A committed enrollment or rotation always reaches the relay that is up.    *)
THEOREM HookNeverRefused == Spec => []NeverRefused
<1>1. IInv => NeverRefused
  BY RoomForAll
<1> QED BY Invariance, <1>1, PTL

(* The relay accepts no key of a device that was not durable first.           *)
THEOREM StoreBeforeRelay == Spec => []DurableBeforeLive
<1>1. IInv => DurableBeforeLive
  BY DEF IInv
<1> QED BY Invariance, <1>1, PTL

(* Every device's audit log is its life: enrolled first, revoked last, once.  *)
THEOREM AuditComplete == Spec => []AuditTellsHistory
<1>1. IInv => AuditTellsHistory
  BY DEF IInv
<1> QED BY Invariance, <1>1, PTL

(* Without overlapping calls about a device, the relay's copy of it is the    *)
(* store's, wherever a crash fell.                                            *)
THEOREM CopyFollowsStore == Spec => []RelayMirrorsStore
<1>1. IInv => RelayMirrorsStore
  BY DEF IInv
<1> QED BY Invariance, <1>1, PTL
-----------------------------------------------------------------------------
(* The registry *)

(* A device that has not enrolled has used no code. *)
Codeless == \A d \in Devices \ Enrolled : enrolledWith[d] = None

(* What leaves the devices as they are to the registry. *)
LEMMA RegistryKept ==
  ASSUME Enrolled' = Enrolled, Active' = Active, enrolledWith' = enrolledWith,
         \A e \in Enrolled : /\ devices'[e].address = devices[e].address
                             /\ devices'[e].key = devices[e].key
  PROVE  UNCHANGED Promised!registry /\ (Codeless => Codeless')
<1>1. Lives' = Lives
  BY DEF Lives
<1>2. Addresses' = Addresses /\ Keys' = Keys
  BY DEF Addresses, Keys
<1>3. Codeless => Codeless'
  BY DEF Codeless
<1> QED BY <1>1, <1>2, <1>3 DEF Promised!registry

LEMMA DevicesKept ==
  ASSUME UNCHANGED <<devices, enrolledWith>>
  PROVE  UNCHANGED Promised!registry /\ (Codeless => Codeless')
<1>1. Enrolled' = Enrolled /\ Active' = Active
  BY DEF Enrolled, Active
<1> QED BY <1>1, RegistryKept

(* The key of an enrollment or a rotation is above all there are. *)
LEMMA NextKeyUnseen ==
  ASSUME IInv, keys < MaxKeys
  PROVE  keys + 1 \in 1 .. MaxKeys /\ Promised!Unseen(keys + 1)
<1>1. keys \in Nat /\ keys + 1 \in 1 .. MaxKeys
  BY BoundsAssumption DEF IInv, TypeOK
<1>2. ASSUME NEW e \in Devices PROVE Keys[e] < keys + 1
  <2>1. CASE e \in Enrolled
    <3>1. devices[e].key \in Nat /\ devices[e].key <= keys
      BY <2>1 DEF IInv, TypeOK, Device, Enrolled
    <3> QED BY <1>1, <2>1, <3>1 DEF Keys
  <2>2. CASE e \notin Enrolled
    BY <1>1, <2>2 DEF Keys
  <2> QED BY <2>1, <2>2
<1> QED BY <1>1, <1>2 DEF Promised!Unseen

LEMMA EnrollJoins ==
  ASSUME IInv, Codeless,
         NEW t \in Threads, NEW c \in Codes, NEW d \in Devices, Enroll(t, c, d)
  PROVE  Promised!Join(d) /\ Codeless'
<1>1. PICK a \in Pool \ Taken :
          /\ \A e \in Enrolled : devices'[e] = devices[e]
          /\ devices'[d].address = a /\ devices'[d].key = keys + 1
          /\ Enrolled' = Enrolled \union {d} /\ Active' = Active \union {d}
          /\ d \notin Enrolled /\ d \notin Active
  BY EnrollEffect
<1>2. /\ keys < MaxKeys /\ Valid(c)
      /\ enrolledWith' = [enrolledWith EXCEPT ![d] = c]
      /\ enrolledWith \in [Devices -> Codes \union {None}]
  BY DEF Enroll, IInv, TypeOK
<1>3. a \in Pool /\ \A e \in Devices : Addresses[e] # a
  <2>1. a # None
    BY <1>1, NoneAssumption, BoundsAssumption DEF Pool
  <2>2. \A e \in Enrolled : devices[e].address # a
    BY <1>1 DEF Taken
  <2> QED BY <1>1, <2>1, <2>2 DEF Addresses
<1>4. \A e \in Devices : enrolledWith[e] # c
  <2>1. \A e \in Enrolled : enrolledWith[e] # c
    BY <1>2 DEF Valid, IInv, CodesSpent
  <2> QED BY <2>1, NoneAssumption DEF Codeless
<1>5. Lives[d] = "unknown" /\ Lives' = [Lives EXCEPT ![d] = "member"]
  BY <1>1 DEF Lives
<1>6. Addresses' = [Addresses EXCEPT ![d] = a]
  BY <1>1 DEF Addresses
<1>7. Keys' = [Keys EXCEPT ![d] = keys + 1]
  BY <1>1 DEF Keys
<1>8. keys + 1 \in 1 .. MaxKeys /\ Promised!Unseen(keys + 1)
  BY <1>2, NextKeyUnseen
<1>9. Codeless'
  BY <1>1, <1>2 DEF Codeless
<1> QED BY <1>2, <1>3, <1>4, <1>5, <1>6, <1>7, <1>8, <1>9 DEF Promised!Join

LEMMA RotateRenews ==
  ASSUME IInv, Codeless, NEW t \in Threads, NEW d \in Devices, Rotate(t, d)
  PROVE  Promised!Renew(d) /\ Codeless'
<1>1. /\ d \in Active /\ d \in Enrolled
      /\ \A e \in Enrolled : devices'[e].address = devices[e].address
      /\ \A e \in Enrolled \ {d} : devices'[e] = devices[e]
      /\ devices'[d].key = keys + 1
      /\ Enrolled' = Enrolled /\ Active' = Active
  BY RotateEffect
<1>2. keys < MaxKeys /\ enrolledWith' = enrolledWith
  BY DEF Rotate
<1>3. Lives[d] = "member" /\ Lives' = Lives
  BY <1>1 DEF Lives
<1>4. Addresses' = Addresses
  BY <1>1 DEF Addresses
<1>5. Keys' = [Keys EXCEPT ![d] = keys + 1]
  BY <1>1 DEF Keys
<1>6. keys + 1 \in 1 .. MaxKeys /\ Promised!Unseen(keys + 1)
  BY <1>2, NextKeyUnseen
<1>7. Codeless'
  BY <1>1, <1>2 DEF Codeless
<1> QED BY <1>2, <1>3, <1>4, <1>5, <1>6, <1>7 DEF Promised!Renew

LEMMA RevokeLeaves ==
  ASSUME IInv, Codeless, NEW t \in Threads, NEW d \in Devices, Revoke(t, d)
  PROVE  (Promised!Leave(d) \/ UNCHANGED Promised!registry) /\ Codeless'
<1>1. d \in Enrolled /\ RevokeRecord(d) /\ enrolledWith' = enrolledWith
  BY DEF Revoke
<1>2. /\ Enrolled' = Enrolled /\ Active' = Active \ {d}
      /\ \A e \in Enrolled : /\ devices'[e].address = devices[e].address
                             /\ devices'[e].key = devices[e].key
  BY <1>1, RevokeEffect
<1>3. Codeless'
  BY <1>1, <1>2 DEF Codeless
<1>4. CASE d \in Active
  <2>1. Lives[d] = "member" /\ Lives' = [Lives EXCEPT ![d] = "left"]
    BY <1>1, <1>2, <1>4 DEF Lives
  <2>2. Addresses' = Addresses /\ Keys' = Keys
    BY <1>2 DEF Addresses, Keys
  <2> QED BY <1>1, <1>3, <2>1, <2>2 DEF Promised!Leave
<1>5. CASE d \notin Active
  <2>1. Active' = Active
    BY <1>2, <1>5
  <2> QED BY <1>1, <1>2, <1>3, <2>1, RegistryKept
<1> QED BY <1>4, <1>5

(* Every step of the service is a step of the registry, or none of it.       *)
LEMMA StepImplements ==
  IInv /\ Codeless /\ [Next]_vars => [Promised!Next]_(Promised!registry) /\ Codeless'
<1> SUFFICES ASSUME IInv, Codeless, [Next]_vars
             PROVE  (Promised!Next \/ UNCHANGED Promised!registry) /\ Codeless'
  OBVIOUS
<1> DEFINE Goal == (Promised!Next \/ UNCHANGED Promised!registry) /\ Codeless'
<1>1. ASSUME UNCHANGED <<devices, enrolledWith>> PROVE Goal
  BY <1>1, DevicesKept
<1>2. ASSUME NEW t \in Threads, NEW c \in Codes, NEW d \in Devices, Enroll(t, c, d) PROVE Goal
  BY <1>2, EnrollJoins DEF Promised!Next
<1>3. ASSUME NEW t \in Threads, NEW d \in Devices, Rotate(t, d) PROVE Goal
  BY <1>3, RotateRenews DEF Promised!Next
<1>4. ASSUME NEW t \in Threads, NEW d \in Devices, Revoke(t, d) PROVE Goal
  BY <1>4, RevokeLeaves DEF Promised!Next
<1>5. ASSUME NEW t \in Threads, AuthorizeHook(t) PROVE Goal
  BY <1>1, <1>5, AuthorizeEffect DEF store
<1>6. ASSUME NEW d \in Devices, Touch(d) PROVE Goal
  <2>1. enrolledWith' = enrolledWith
    BY <1>6 DEF Touch
  <2> QED BY <1>6, <2>1, TouchEffect, RegistryKept
<1>7. ASSUME NEW c \in Codes, NEW ttl \in 1 .. TTL, CreateActivation(c, ttl) PROVE Goal
  BY <1>1, <1>7 DEF CreateActivation
<1>8. ASSUME NEW t \in Threads, RevokeHook(t) PROVE Goal
  BY <1>1, <1>8 DEF RevokeHook, store
<1>9. CASE Tick \/ Crash \/ Configure \/ Start \/ UNCHANGED vars
  <2>1. UNCHANGED <<devices, enrolledWith>>
    <3>1. ASSUME Tick PROVE UNCHANGED <<devices, enrolledWith>>
      BY <3>1, Zenon DEF Tick
    <3>2. ASSUME Crash PROVE UNCHANGED <<devices, enrolledWith>>
      BY <3>2 DEF Crash, store
    <3>3. ASSUME Configure \/ Start PROVE UNCHANGED <<devices, enrolledWith>>
      BY <3>3 DEF Configure, Start, store
    <3>4. ASSUME UNCHANGED vars PROVE UNCHANGED <<devices, enrolledWith>>
      BY <3>4 DEF vars, store
    <3> QED BY <1>9, <3>1, <3>2, <3>3, <3>4
  <2> QED BY <1>1, <2>1
<1> QED BY <1>2, <1>3, <1>4, <1>5, <1>6, <1>7, <1>8, <1>9 DEF Next, Handler

(* Through any interleaving of handlers, hooks, crashes and pruning the       *)
(* devices live as the registry promises: each joins once, with a code and an *)
(* address of its own, keeps the address, only ever gets newer keys, and does *)
(* not come back.                                                             *)
THEOREM StoreImplementsRegistry == Spec => ImplementsRegistry
<1>1. Init => Promised!Init /\ Codeless
  <2> SUFFICES ASSUME Init PROVE Promised!Init /\ Codeless
    OBVIOUS
  <2>1. Enrolled = {} /\ enrolledWith = [d \in Devices |-> None]
    BY DEF Init, Enrolled
  <2> QED BY <2>1 DEF Promised!Init, Lives, Addresses, Keys, Codeless
<1>2. IInv /\ Codeless /\ [Next]_vars => [Promised!Next]_(Promised!registry) /\ Codeless'
  BY StepImplements
<1>3. Spec => [](IInv /\ Codeless)
  BY <1>1, <1>2, Invariance, PTL DEF Spec
<1> QED BY <1>1, <1>2, <1>3, PTL DEF Spec, ImplementsRegistry, Promised!Spec

=============================================================================
