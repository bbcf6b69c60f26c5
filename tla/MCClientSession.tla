-------------------------- MODULE MCClientSession --------------------------
(***************************************************************************)
(* ClientSession for TLC.                                                  *)
(***************************************************************************)
EXTENDS ClientSession, TLC

AnyUplink == Permutations(Uplinks)
=============================================================================
