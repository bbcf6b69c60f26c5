------------------------------ MODULE Registry ------------------------------
(***************************************************************************)
(* What the control plane promises of its devices, with nothing said of    *)
(* handlers, hooks, expiry, pruning or crashes: a device joins once, with  *)
(* a code and an address nobody has had, may renew its key while it is a   *)
(* member, and never comes back once it has left.                          *)
(***************************************************************************)
EXTENDS Integers

CONSTANTS Devices, Codes, Addresses, Keys, None

VARIABLES
    life,        \* "unknown", "member" or "left"
    code,        \* the code each device joined with
    address,
    key          \* the key it has, or had; 0 before it joins

registry == <<life, code, address, key>>

Init ==
    /\ life = [d \in Devices |-> "unknown"]
    /\ code = [d \in Devices |-> None]
    /\ address = [d \in Devices |-> None]
    /\ key = [d \in Devices |-> 0]

\* Keys are as good as numbered: a new one is above all there are
Unseen(k) == \A e \in Devices : key[e] < k

Join(d) ==
    /\ life[d] = "unknown"
    /\ life' = [life EXCEPT ![d] = "member"]
    /\ \E c \in Codes : (\A e \in Devices : code[e] # c) /\ code' = [code EXCEPT ![d] = c]
    /\ \E a \in Addresses :
           (\A e \in Devices : address[e] # a) /\ address' = [address EXCEPT ![d] = a]
    /\ \E k \in Keys : Unseen(k) /\ key' = [key EXCEPT ![d] = k]

Renew(d) ==
    /\ life[d] = "member"
    /\ UNCHANGED <<life, code, address>>
    /\ \E k \in Keys : Unseen(k) /\ key' = [key EXCEPT ![d] = k]

Leave(d) ==
    /\ life[d] = "member"
    /\ life' = [life EXCEPT ![d] = "left"]
    /\ UNCHANGED <<code, address, key>>

Next == \E d \in Devices : Join(d) \/ Renew(d) \/ Leave(d)

Spec == Init /\ [][Next]_registry

=============================================================================
