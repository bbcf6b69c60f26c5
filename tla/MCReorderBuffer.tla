-------------------------- MODULE MCReorderBuffer --------------------------
(* Instances of ReorderBuffer and its abstract specification. *)
EXTENDS ReorderBuffer

CONSTANT MaxNumber

MCNumbers == 1 .. MaxNumber

Abstract == INSTANCE OrderedDelivery WITH Counts <- 0 .. MaxNumber

(* The buffer implements OrderedDelivery: each Push and FlushExpired gives *)
(* up one contiguous run of numbers and delivers the run that follows it.  *)
ImplementsOrderedDelivery == Abstract!Spec

=============================================================================
