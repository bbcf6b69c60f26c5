-------------------------- MODULE MCRelaySessions --------------------------
(***************************************************************************)
(* Instances of RelaySessions.  Client a has a first key, a process that   *)
(* opens two paths, a second process with the key it is rotated to, and a  *)
(* HELLO without instance for each key; client b is offered a's first key. *)
(***************************************************************************)
EXTENDS RelaySessions, TLC

CONSTANTS a, b, k1, k2, n1, n2, n3, n4, ipA, ipB, t1, t2

OfferA1 == [client |-> a, key |-> k1, ip |-> ipA]
OfferA2 == [client |-> a, key |-> k2, ip |-> ipA]
OfferB  == [client |-> b, key |-> k1, ip |-> ipB]

HelloA1 == [client |-> a, key |-> k1, instance |-> 1, nonce |-> n1]
PathA1  == [client |-> a, key |-> k1, instance |-> 1, nonce |-> n2]
RotatedA == [client |-> a, key |-> k2, instance |-> 2, nonce |-> n3]
LegacyA == [client |-> a, key |-> k1, instance |-> Legacy, nonce |-> n4]
RotatedLegacyA == [client |-> a, key |-> k2, instance |-> Legacy, nonce |-> n1]
HelloB  == [client |-> b, key |-> k1, instance |-> 1, nonce |-> n4]

RotationOffers == {OfferA1, OfferA2, OfferB}
RotationHellos == {RotatedA, LegacyA, RotatedLegacyA, HelloB}

RoamingOffers == {OfferA1}
RoamingHellos == {HelloA1, PathA1}

Symmetry ==
    Permutations(Threads) \union Permutations(SessionIds) \union Permutations(Addresses)

=============================================================================
