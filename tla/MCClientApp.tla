---------------------------- MODULE MCClientApp ----------------------------
(***************************************************************************)
(* A host with a wired interface of one address and a wireless one that    *)
(* may have two.                                                           *)
(***************************************************************************)
EXTENDS ClientApp

CONSTANTS eth, wifi, eth1, wifi1, wifi2

MCNetworks == {{eth1, wifi1}, {wifi1, wifi2}}

MCInterfaceOf == [p \in Paths |-> IF p = eth1 THEN eth ELSE wifi]

=============================================================================
