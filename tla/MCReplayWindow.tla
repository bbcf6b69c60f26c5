--------------------------- MODULE MCReplayWindow ---------------------------
(* A window of three bits and sequence numbers that reach past it twice. *)
EXTENDS ReplayWindow

MCSequences == 1 .. 8

=============================================================================
