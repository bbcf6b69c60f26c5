------------------------- MODULE ReplayWindowProofs -------------------------
(***************************************************************************)
(* The replay guarantee of protocol.ReplayWindow for every window size and *)
(* every set of sequence numbers.                                          *)
(*                                                                         *)
(* NoReplay alone is not inductive: it needs to know what the bitmap says  *)
(* of the past (WindowExact), that nothing above highest was accepted, and *)
(* that an unstarted window has judged nothing.                            *)
(***************************************************************************)
EXTENDS ReplayWindow, TLAPS

NothingAbove == \A s \in Sequences : taken[s] > 0 => started /\ s <= highest

NothingBefore == ~started => refused = {}

IInv ==
    /\ TypeOK
    /\ NoReplay
    /\ ReorderingTolerated
    /\ WindowExact
    /\ NothingAbove
    /\ NothingBefore

(* The strengthening holds of a window that Accept was never called on. *)
LEMMA InitIInv == Init => IInv
<1> SUFFICES ASSUME Init PROVE IInv
  OBVIOUS
<1> USE SequencesAssumption, WindowAssumption
<1>1. TypeOK
  BY DEF Init, TypeOK, Offsets
<1>2. NoReplay /\ NothingAbove
  BY DEF Init, NoReplay, NothingAbove
<1>3. ReorderingTolerated /\ NothingBefore
  BY DEF Init, ReorderingTolerated, NothingBefore
<1>4. WindowExact
  BY DEF Init, WindowExact, Offsets
<1> QED BY <1>1, <1>2, <1>3, <1>4 DEF IInv

(* Every step of Accept keeps the strengthening. *)
LEMMA StepIInv == IInv /\ [Next]_vars => IInv'
<1> SUFFICES ASSUME IInv, [Next]_vars PROVE IInv'
  OBVIOUS
<1> USE SequencesAssumption, WindowAssumption
<1> USE DEF IInv, TypeOK, NoReplay, ReorderingTolerated, WindowExact, NothingAbove, NothingBefore,
             Offsets
<1>1. CASE UNCHANGED vars
  BY <1>1 DEF vars
<1>2. ASSUME NEW s \in Sequences, AcceptFirst(s) PROVE IInv'
  <2>1. \A r \in Sequences : taken[r] = 0
    BY <1>2 DEF AcceptFirst
  <2>2. \A r \in Sequences : taken'[r] = IF r = s THEN 1 ELSE 0
    BY <1>2, <2>1 DEF AcceptFirst, Take
  <2>3. (TypeOK /\ NoReplay /\ NothingAbove /\ NothingBefore)'
    BY <1>2, <2>1, <2>2 DEF AcceptFirst, Take
  <2>4. WindowExact'
    BY <1>2, <2>2 DEF AcceptFirst, Take
  <2>5. ReorderingTolerated'
    BY <1>2, <2>1, <2>2 DEF AcceptFirst, Take
  <2> QED BY <2>3, <2>4, <2>5
<1>3. ASSUME NEW s \in Sequences, AcceptAhead(s) PROVE IInv'
  <2>1. taken[s] = 0
    BY <1>3 DEF AcceptAhead
  <2>2. \A r \in Sequences : taken'[r] = IF r = s THEN 1 ELSE taken[r]
    BY <1>3, <2>1 DEF AcceptAhead, Take
  <2>3. (TypeOK /\ NoReplay /\ NothingAbove /\ NothingBefore)'
    BY <1>3, <2>1, <2>2 DEF AcceptAhead, Take, Shifted
  <2>4. WindowExact'
    <3>1. ASSUME NEW d \in Offsets
          PROVE  d \in bitmap' <=> \E r \in Sequences : r = s - d /\ taken'[r] > 0
      BY <1>3, <2>2 DEF AcceptAhead, Shifted
    <3>2. bitmap' \subseteq Offsets
      BY <2>3
    <3> QED BY <1>3, <3>1, <3>2 DEF AcceptAhead
  <2>5. ReorderingTolerated'
    BY <1>3, <2>2 DEF AcceptAhead, Take
  <2> QED BY <2>3, <2>4, <2>5
<1>4. ASSUME NEW s \in Sequences, AcceptLate(s) PROVE IInv'
  <2>1. highest - s \in Offsets
    BY <1>4 DEF AcceptLate, Stale
  <2>2. taken[s] = 0
    BY <1>4, <2>1 DEF AcceptLate, Stale
  <2>3. \A r \in Sequences : taken'[r] = IF r = s THEN 1 ELSE taken[r]
    BY <1>4, <2>2 DEF AcceptLate, Take
  <2>4. (TypeOK /\ NoReplay /\ NothingAbove /\ NothingBefore)'
    BY <1>4, <2>1, <2>2, <2>3 DEF AcceptLate, Take
  <2>5. WindowExact'
    <3>1. ASSUME NEW d \in Offsets
          PROVE  d \in bitmap' <=> \E r \in Sequences : r = highest - d /\ taken'[r] > 0
      BY <1>4, <2>3 DEF AcceptLate
    <3>2. bitmap' \subseteq Offsets
      BY <2>4
    <3> QED BY <1>4, <3>1, <3>2 DEF AcceptLate
  <2>6. ReorderingTolerated'
    BY <1>4, <2>3 DEF AcceptLate, Take
  <2> QED BY <2>4, <2>5, <2>6
<1>5. ASSUME NEW s \in Sequences, Refuse(s) PROVE IInv'
  <2>1. taken[s] = 0 => highest - s >= Window
    BY <1>5 DEF Refuse, Stale
  <2>2. ReorderingTolerated'
    BY <1>5, <2>1 DEF Refuse
  <2> QED BY <1>5, <2>2 DEF Refuse
<1> QED BY <1>1, <1>2, <1>3, <1>4, <1>5 DEF Next, Accept

(* Every reachable window satisfies the strengthening. *)
THEOREM Invariance == Spec => []IInv
  BY InitIInv, StepIInv, PTL DEF Spec

(* For every window size and every set of sequence numbers Accept keeps    *)
(* its fields within their types.                                          *)
THEOREM TypeCorrect == Spec => []TypeOK
<1>1. IInv => TypeOK
  BY DEF IInv
<1> QED BY Invariance, <1>1, PTL

(* No sequence number is ever accepted twice. *)
THEOREM ReplayNeverAccepted == Spec => []NoReplay
<1>1. IInv => NoReplay
  BY DEF IInv
<1> QED BY Invariance, <1>1, PTL

(* A number Accept refuses without ever having accepted it is at least     *)
(* Window behind.                                                          *)
THEOREM FreshNeverRefused == Spec => []ReorderingTolerated
<1>1. IInv => ReorderingTolerated
  BY DEF IInv
<1> QED BY Invariance, <1>1, PTL

(* The bitmap records exactly what was accepted within the window. *)
THEOREM BitmapExact == Spec => []WindowExact
<1>1. IInv => WindowExact
  BY DEF IInv
<1> QED BY Invariance, <1>1, PTL

=============================================================================
