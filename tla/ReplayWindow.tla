---------------------------- MODULE ReplayWindow ----------------------------
(***************************************************************************)
(* protocol.ReplayWindow (internal/protocol/protocol.go): the sliding      *)
(* window that every path keeps per direction, consulted once for each     *)
(* datagram whose AEAD tag verified.  Accept holds the window's mutex for  *)
(* its whole body, so one call is one step.                                *)
(*                                                                         *)
(* The 64-bit bitmap is the set of the offsets (below highest) whose bit   *)
(* is 1, and Window stands for its 64.  The environment presents any       *)
(* member of Sequences at any time and any number of times: UDP reorders   *)
(* and duplicates, and a recorded datagram still authenticates.            *)
(***************************************************************************)
EXTENDS Integers

CONSTANTS
    Window,      \* bits of the bitmap (64 in the code)
    Sequences    \* the path sequence numbers the network can present

ASSUME WindowAssumption == Window \in Nat \ {0}
ASSUME SequencesAssumption == Sequences \subseteq Nat

VARIABLES
    started,     \* ReplayWindow.started
    highest,     \* ReplayWindow.highest
    bitmap,      \* ReplayWindow.bitmap, as the set of its one bits
    taken,       \* history: how often each sequence number was accepted
    refused      \* history: the sequence numbers that were ever refused

vars == <<started, highest, bitmap, taken, refused>>

Offsets == 0 .. Window - 1

Init ==
    /\ started = FALSE
    /\ highest = 0
    /\ bitmap = {}
    /\ taken = [s \in Sequences |-> 0]
    /\ refused = {}

\* (slip) the old bits are not moved
ShiftForgotten(shift) == bitmap

\* bitmap <<= shift: bits moved past the top are lost
Shifted(shift) == {d \in Offsets : d - shift \in bitmap}

Take(s) ==
    /\ taken' = [taken EXCEPT ![s] = @ + 1]
    /\ UNCHANGED refused

\* The window has seen nothing yet
AcceptFirst(s) ==
    /\ ~started
    /\ started' = TRUE
    /\ highest' = s
    /\ bitmap' = {0}
    /\ Take(s)

\* A sequence number above everything accepted so far moves the window
AcceptAhead(s) ==
    /\ started
    /\ s > highest
    /\ highest' = s
    /\ bitmap' = Shifted(s - highest) \union {0}
    /\ Take(s)
    /\ UNCHANGED started

\* (slip) the age test is off by one, on either side
StaleTooLate(s) == highest - s > Window \/ highest - s \in bitmap
StaleTooEarly(s) == highest - s >= Window - 1 \/ highest - s \in bitmap

\* A late sequence number that fell off the window, or whose bit is set
Stale(s) == highest - s >= Window \/ highest - s \in bitmap

\* A late one whose bit is still clear
AcceptLate(s) ==
    /\ started
    /\ s <= highest
    /\ ~Stale(s)
    /\ bitmap' = bitmap \union {highest - s}
    /\ Take(s)
    /\ UNCHANGED <<started, highest>>

Refuse(s) ==
    /\ started
    /\ s <= highest
    /\ Stale(s)
    /\ refused' = refused \union {s}
    /\ UNCHANGED <<started, highest, bitmap, taken>>

Accept(s) == AcceptFirst(s) \/ AcceptAhead(s) \/ AcceptLate(s) \/ Refuse(s)

Next == \E s \in Sequences : Accept(s)

Spec == Init /\ [][Next]_vars

-----------------------------------------------------------------------------
(* Types of the window's fields. *)
TypeOK ==
    /\ started \in BOOLEAN
    /\ highest \in Nat
    /\ bitmap \subseteq Offsets
    /\ taken \in [Sequences -> Nat]
    /\ refused \subseteq Sequences

(* Accept never returns true twice for one sequence number, however far    *)
(* and however often the window has moved in between: the replay guarantee *)
(* of a path.                                                              *)
NoReplay == \A s \in Sequences : taken[s] <= 1

(* Accept returns false for a number it never accepted only when that      *)
(* number is already Window or more behind: ordinary UDP reordering inside *)
(* the window never costs a packet.  Stated over refusals of the past, so  *)
(* it relates each old verdict to the window as it is now.                 *)
ReorderingTolerated ==
    \A s \in refused : taken[s] = 0 => s + Window <= highest

(* The bitmap is exact: bit d is set precisely when highest - d has been   *)
(* accepted; shifting neither loses an accepted number that is still in    *)
(* the window nor marks one that never came.                               *)
WindowExact ==
    bitmap = {d \in Offsets : \E s \in Sequences : s = highest - d /\ taken[s] > 0}

=============================================================================
