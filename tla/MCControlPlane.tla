--------------------------- MODULE MCControlPlane ---------------------------
(***************************************************************************)
(* Instances of ControlPlane: the relay has the first address of the pool  *)
(* and one configured client the third.                                    *)
(***************************************************************************)
EXTENDS ControlPlane, TLC

CONSTANT static

OneStatic == {static}
OneStaticAddress == [c \in OneStatic |-> 3]

Symmetry == Permutations(Codes) \union Permutations(Devices) \union Permutations(Threads)

=============================================================================
