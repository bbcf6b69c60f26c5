-------------------------- MODULE ClientAppProofs --------------------------
(***************************************************************************)
(* The client manager and the host, for any number of attempts, Stops,     *)
(* uplinks and networks.                                                   *)
(*                                                                         *)
(* What the properties lack to be inductive: how much of its guard an      *)
(* attempt has installed at each stage, that the engine which Stop would   *)
(* cancel was launched, and, as long as no Start was accepted while        *)
(* another was calibrating, that there is one attempt at most, in a stage  *)
(* that the manager's state tells, with its entries in place.              *)
(***************************************************************************)
EXTENDS ClientApp, TLAPS

Unguarded == {"idle", "discovering", "measuring"}
Guarded == {"opened", "configured", "connecting", "running", "ended", "unguarded"}

GuardFollowsStage ==
    \A x \in Attempts :
        /\ stage[x] \in Unguarded => guarded[x] = {}
        /\ stage[x] \in Guarded => guarded[x] = paths[x]

CancelIsLaunched == cancel # None => stage[cancel] \in Launched

Controlled(x) ==
    /\ stage[x] \in {"discovering", "measuring"} => state = "calibrating" /\ cancel = None
    /\ stage[x] \in {"guarding", "opened", "configured"} => state = "starting" /\ cancel = None
    /\ stage[x] \in Launched => state \in {"starting", "stopping"} /\ cancel = x

Protected(x) ==
    stage[x] # "unguarded" =>
        \A p \in guarded[x] : rule[InterfaceOf[p]] \in paths[x] /\ InterfaceOf[p] \in tables

OneAtMost ==
    /\ \A x, y \in InProgress : x = y
    /\ InProgress = {} => state \in {"stopped", "error"} /\ cancel = None
    /\ \A x \in InProgress : Controlled(x) /\ Protected(x)

Alone == ~overlapped => OneAtMost

IInv == TypeOK /\ NothingLeftBehind /\ GuardFollowsStage /\ CancelIsLaunched /\ Alone

(* The strengthening holds of a manager just made on a clean host. *)
LEMMA InitIInv == Init => IInv
<1> SUFFICES ASSUME Init PROVE IInv
  OBVIOUS
<1> USE HostAssumption DEF Init
<1>1. TypeOK
  BY DEF TypeOK, Stages, States
<1>2. NothingLeftBehind /\ GuardFollowsStage
  BY DEF NothingLeftBehind, GuardFollowsStage, Guarded
<1>3. CancelIsLaunched /\ Alone
  BY DEF CancelIsLaunched, Alone, OneAtMost, InProgress
<1> QED BY <1>1, <1>2, <1>3 DEF IInv

(* Every step keeps the types; a profile's paths change only while nothing is guarded. *)
LEMMA TypeStep == TypeOK /\ GuardFollowsStage /\ [Next]_vars => TypeOK'
<1> SUFFICES ASSUME TypeOK, GuardFollowsStage, [Next]_vars
             PROVE  TypeOK'
  OBVIOUS
<1> USE HostAssumption DEF TypeOK, GuardFollowsStage, Unguarded, Guarded, Stages, States,
        manager, attempt, device, policy, history
<1>1. ASSUME NEW x \in Attempts, Start(x) PROVE TypeOK'
  BY <1>1 DEF Start
<1>2. ASSUME NEW x \in Attempts, Discover(x) PROVE TypeOK'
  BY <1>2 DEF Discover, SamePathSet, Starting
<1>3. ASSUME NEW x \in Attempts, Calibrate(x) PROVE TypeOK'
  BY <1>3 DEF Calibrate, Starting
<1>4. ASSUME NEW x \in Attempts, NoUsablePath(x) PROVE TypeOK'
  BY <1>4 DEF NoUsablePath, StartFailed, Over
<1>5. ASSUME NEW x \in Attempts, NEW p \in Paths, ProtectPath(x, p) PROVE TypeOK'
  BY <1>5 DEF ProtectPath
<1>6. ASSUME NEW x \in Attempts, NEW p \in Paths, ProtectFails(x, p) PROVE TypeOK'
  BY <1>6 DEF ProtectFails, Remains, StartFailed, Over, Recorded
<1>7. ASSUME NEW x \in Attempts, OpenTun(x) PROVE TypeOK'
  BY <1>7 DEF OpenTun
<1>8. ASSUME NEW x \in Attempts, OpenFails(x) PROVE TypeOK'
  BY <1>8 DEF OpenFails, CloseGuard, StartFailed, Over, Recorded
<1>9. ASSUME NEW x \in Attempts, Setup(x) PROVE TypeOK'
  BY <1>9 DEF Setup
<1>10. ASSUME NEW x \in Attempts, SetupFails(x) PROVE TypeOK'
  <2>1. StartFailed(x) /\ CloseGuard(x) /\ CloseTun
    BY <1>10 DEF SetupFails
  <2> QED BY <2>1 DEF CloseTun, CloseGuard, StartFailed, Over
<1>11. ASSUME NEW x \in Attempts, Launch(x) PROVE TypeOK'
  BY <1>11 DEF Launch
<1>12. ASSUME NEW x \in Attempts, Connected(x) PROVE TypeOK'
  BY <1>12 DEF Connected
<1>13. ASSUME NEW x \in Attempts, ConnectFails(x) PROVE TypeOK'
  BY <1>13 DEF ConnectFails
<1>14. ASSUME NEW x \in Attempts, RunEnds(x) PROVE TypeOK'
  BY <1>14 DEF RunEnds, CloseTun
<1>15. ASSUME NEW x \in Attempts, Unguard(x) PROVE TypeOK'
  BY <1>15 DEF Unguard, CloseGuard, Recorded
<1>16. ASSUME NEW x \in Attempts, Report(x) PROVE TypeOK'
  BY <1>16 DEF Report, Over
<1>17. ASSUME NEW s \in Stops, Stop(s) PROVE TypeOK'
  BY <1>17 DEF Stop
<1>18. ASSUME NEW s \in Stops, Cancel(s) PROVE TypeOK'
  BY <1>18 DEF Cancel
<1>19. ASSUME NEW s \in Stops, StopReturns(s) PROVE TypeOK'
  BY <1>19 DEF StopReturns, Returning
<1>20. ASSUME NEW s \in Stops, StopTimesOut(s) PROVE TypeOK'
  BY <1>20 DEF StopTimesOut, Returning
<1>21. CASE Exit
  BY <1>21 DEF Exit, CloseTun
<1>22. CASE UNCHANGED vars
  BY <1>22 DEF vars
<1> QED BY <1>1, <1>2, <1>3, <1>4, <1>5, <1>6, <1>7, <1>8, <1>9, <1>10, <1>11, <1>12,
           <1>13, <1>14, <1>15, <1>16, <1>17, <1>18, <1>19, <1>20, <1>21, <1>22
           DEF Next, StartStep, EngineStep, StopStep, Guard, TypeOK

(* No attempt forgets what it has guarded before it has removed it. *)
LEMMA GuardStep == TypeOK /\ GuardFollowsStage /\ [Next]_vars => GuardFollowsStage'
<1> SUFFICES ASSUME TypeOK, GuardFollowsStage, [Next]_vars
             PROVE  GuardFollowsStage'
  OBVIOUS
<1> USE DEF TypeOK, GuardFollowsStage, Unguarded, Guarded, manager, attempt, device,
        policy, history
<1>1. ASSUME NEW x \in Attempts, Start(x) PROVE GuardFollowsStage'
  BY <1>1 DEF Start
<1>2. ASSUME NEW x \in Attempts, Discover(x) PROVE GuardFollowsStage'
  BY <1>2 DEF Discover, SamePathSet, Starting
<1>3. ASSUME NEW x \in Attempts, Calibrate(x) PROVE GuardFollowsStage'
  BY <1>3 DEF Calibrate, Starting
<1>4. ASSUME NEW x \in Attempts, NoUsablePath(x) PROVE GuardFollowsStage'
  BY <1>4 DEF NoUsablePath, StartFailed, Over
<1>5. ASSUME NEW x \in Attempts, NEW p \in Paths, ProtectPath(x, p) PROVE GuardFollowsStage'
  BY <1>5 DEF ProtectPath
<1>6. ASSUME NEW x \in Attempts, NEW p \in Paths, ProtectFails(x, p) PROVE GuardFollowsStage'
  BY <1>6 DEF ProtectFails, Remains, StartFailed, Over, Recorded
<1>7. ASSUME NEW x \in Attempts, OpenTun(x) PROVE GuardFollowsStage'
  BY <1>7 DEF OpenTun
<1>8. ASSUME NEW x \in Attempts, OpenFails(x) PROVE GuardFollowsStage'
  BY <1>8 DEF OpenFails, CloseGuard, StartFailed, Over, Recorded
<1>9. ASSUME NEW x \in Attempts, Setup(x) PROVE GuardFollowsStage'
  BY <1>9 DEF Setup
<1>10. ASSUME NEW x \in Attempts, SetupFails(x) PROVE GuardFollowsStage'
  BY <1>10 DEF SetupFails, CloseTun, CloseGuard, StartFailed, Over, Recorded
<1>11. ASSUME NEW x \in Attempts, Launch(x) PROVE GuardFollowsStage'
  BY <1>11 DEF Launch
<1>12. ASSUME NEW x \in Attempts, Connected(x) PROVE GuardFollowsStage'
  BY <1>12 DEF Connected
<1>13. ASSUME NEW x \in Attempts, ConnectFails(x) PROVE GuardFollowsStage'
  BY <1>13 DEF ConnectFails
<1>14. ASSUME NEW x \in Attempts, RunEnds(x) PROVE GuardFollowsStage'
  BY <1>14 DEF RunEnds, CloseTun
<1>15. ASSUME NEW x \in Attempts, Unguard(x) PROVE GuardFollowsStage'
  BY <1>15 DEF Unguard, CloseGuard, Recorded
<1>16. ASSUME NEW x \in Attempts, Report(x) PROVE GuardFollowsStage'
  BY <1>16 DEF Report, Over
<1>17. ASSUME NEW s \in Stops, Stop(s) PROVE GuardFollowsStage'
  BY <1>17 DEF Stop
<1>18. ASSUME NEW s \in Stops, Cancel(s) PROVE GuardFollowsStage'
  BY <1>18 DEF Cancel
<1>19. ASSUME NEW s \in Stops, StopReturns(s) PROVE GuardFollowsStage'
  BY <1>19 DEF StopReturns, Returning
<1>20. ASSUME NEW s \in Stops, StopTimesOut(s) PROVE GuardFollowsStage'
  BY <1>20 DEF StopTimesOut, Returning
<1>21. CASE Exit
  BY <1>21 DEF Exit, CloseTun
<1>22. CASE UNCHANGED vars
  BY <1>22 DEF vars
<1> QED BY <1>1, <1>2, <1>3, <1>4, <1>5, <1>6, <1>7, <1>8, <1>9, <1>10, <1>11, <1>12,
           <1>13, <1>14, <1>15, <1>16, <1>17, <1>18, <1>19, <1>20, <1>21, <1>22
           DEF Next, StartStep, EngineStep, StopStep, Guard, TypeOK

(* No step leaves a rule or a table without an owner that will remove it. *)
LEMMA OwnerStep ==
    TypeOK /\ GuardFollowsStage /\ NothingLeftBehind /\ [Next]_vars => NothingLeftBehind'
<1> SUFFICES ASSUME TypeOK, GuardFollowsStage, NothingLeftBehind, [Next]_vars
             PROVE  NothingLeftBehind'
  OBVIOUS
<1> USE HostAssumption DEF TypeOK, GuardFollowsStage, Unguarded, NothingLeftBehind,
        Recorded, manager, attempt, device, policy, history
<1>1. ASSUME NEW x \in Attempts, Start(x) PROVE NothingLeftBehind'
  BY <1>1 DEF Start
<1>2. ASSUME NEW x \in Attempts, Discover(x) PROVE NothingLeftBehind'
  BY <1>2 DEF Discover, SamePathSet, Starting
<1>3. ASSUME NEW x \in Attempts, Calibrate(x) PROVE NothingLeftBehind'
  BY <1>3 DEF Calibrate, Starting
<1>4. ASSUME NEW x \in Attempts, NoUsablePath(x) PROVE NothingLeftBehind'
  BY <1>4 DEF NoUsablePath, StartFailed, Over
<1>5. ASSUME NEW x \in Attempts, NEW p \in Paths, ProtectPath(x, p) PROVE NothingLeftBehind'
  BY <1>5 DEF ProtectPath
<1>6. ASSUME NEW x \in Attempts, NEW p \in Paths, ProtectFails(x, p) PROVE NothingLeftBehind'
  BY <1>6 DEF ProtectFails, Remains, StartFailed, Over, Recorded
<1>7. ASSUME NEW x \in Attempts, OpenTun(x) PROVE NothingLeftBehind'
  BY <1>7 DEF OpenTun
<1>8. ASSUME NEW x \in Attempts, OpenFails(x) PROVE NothingLeftBehind'
  BY <1>8 DEF OpenFails, CloseGuard, StartFailed, Over, Recorded
<1>9. ASSUME NEW x \in Attempts, Setup(x) PROVE NothingLeftBehind'
  BY <1>9 DEF Setup
<1>10. ASSUME NEW x \in Attempts, SetupFails(x) PROVE NothingLeftBehind'
  BY <1>10 DEF SetupFails, CloseTun, CloseGuard, StartFailed, Over, Recorded
<1>11. ASSUME NEW x \in Attempts, Launch(x) PROVE NothingLeftBehind'
  BY <1>11 DEF Launch
<1>12. ASSUME NEW x \in Attempts, Connected(x) PROVE NothingLeftBehind'
  BY <1>12 DEF Connected
<1>13. ASSUME NEW x \in Attempts, ConnectFails(x) PROVE NothingLeftBehind'
  BY <1>13 DEF ConnectFails
<1>14. ASSUME NEW x \in Attempts, RunEnds(x) PROVE NothingLeftBehind'
  BY <1>14 DEF RunEnds, CloseTun
<1>15. ASSUME NEW x \in Attempts, Unguard(x) PROVE NothingLeftBehind'
  BY <1>15 DEF Unguard, CloseGuard, Recorded
<1>16. ASSUME NEW x \in Attempts, Report(x) PROVE NothingLeftBehind'
  BY <1>16 DEF Report, Over
<1>17. ASSUME NEW s \in Stops, Stop(s) PROVE NothingLeftBehind'
  BY <1>17 DEF Stop
<1>18. ASSUME NEW s \in Stops, Cancel(s) PROVE NothingLeftBehind'
  BY <1>18 DEF Cancel
<1>19. ASSUME NEW s \in Stops, StopReturns(s) PROVE NothingLeftBehind'
  BY <1>19 DEF StopReturns, Returning
<1>20. ASSUME NEW s \in Stops, StopTimesOut(s) PROVE NothingLeftBehind'
  BY <1>20 DEF StopTimesOut, Returning
<1>21. CASE Exit
  BY <1>21 DEF Exit, CloseTun
<1>22. CASE UNCHANGED vars
  BY <1>22 DEF vars
<1> QED BY <1>1, <1>2, <1>3, <1>4, <1>5, <1>6, <1>7, <1>8, <1>9, <1>10, <1>11, <1>12,
           <1>13, <1>14, <1>15, <1>16, <1>17, <1>18, <1>19, <1>20, <1>21, <1>22
           DEF Next, StartStep, EngineStep, StopStep, Guard, TypeOK

(* The engine Stop would cancel stays a launched one until it reports. *)
LEMMA CancelStep == TypeOK /\ CancelIsLaunched /\ [Next]_vars => CancelIsLaunched'
<1> SUFFICES ASSUME TypeOK, CancelIsLaunched, [Next]_vars
             PROVE  CancelIsLaunched'
  OBVIOUS
<1> USE HostAssumption DEF TypeOK, CancelIsLaunched, Launched, manager, attempt, device,
        policy, history
<1>1. ASSUME NEW x \in Attempts, Start(x) PROVE CancelIsLaunched'
  BY <1>1 DEF Start
<1>2. ASSUME NEW x \in Attempts, Discover(x) PROVE CancelIsLaunched'
  BY <1>2 DEF Discover, SamePathSet, Starting
<1>3. ASSUME NEW x \in Attempts, Calibrate(x) PROVE CancelIsLaunched'
  BY <1>3 DEF Calibrate, Starting
<1>4. ASSUME NEW x \in Attempts, NoUsablePath(x) PROVE CancelIsLaunched'
  BY <1>4 DEF NoUsablePath, StartFailed, Over
<1>5. ASSUME NEW x \in Attempts, NEW p \in Paths, ProtectPath(x, p) PROVE CancelIsLaunched'
  BY <1>5 DEF ProtectPath
<1>6. ASSUME NEW x \in Attempts, NEW p \in Paths, ProtectFails(x, p) PROVE CancelIsLaunched'
  BY <1>6 DEF ProtectFails, Remains, StartFailed, Over, Recorded
<1>7. ASSUME NEW x \in Attempts, OpenTun(x) PROVE CancelIsLaunched'
  BY <1>7 DEF OpenTun
<1>8. ASSUME NEW x \in Attempts, OpenFails(x) PROVE CancelIsLaunched'
  BY <1>8 DEF OpenFails, CloseGuard, StartFailed, Over, Recorded
<1>9. ASSUME NEW x \in Attempts, Setup(x) PROVE CancelIsLaunched'
  BY <1>9 DEF Setup
<1>10. ASSUME NEW x \in Attempts, SetupFails(x) PROVE CancelIsLaunched'
  BY <1>10 DEF SetupFails, CloseTun, CloseGuard, StartFailed, Over, Recorded
<1>11. ASSUME NEW x \in Attempts, Launch(x) PROVE CancelIsLaunched'
  BY <1>11 DEF Launch
<1>12. ASSUME NEW x \in Attempts, Connected(x) PROVE CancelIsLaunched'
  BY <1>12 DEF Connected
<1>13. ASSUME NEW x \in Attempts, ConnectFails(x) PROVE CancelIsLaunched'
  BY <1>13 DEF ConnectFails
<1>14. ASSUME NEW x \in Attempts, RunEnds(x) PROVE CancelIsLaunched'
  BY <1>14 DEF RunEnds, CloseTun
<1>15. ASSUME NEW x \in Attempts, Unguard(x) PROVE CancelIsLaunched'
  BY <1>15 DEF Unguard, CloseGuard, Recorded
<1>16. ASSUME NEW x \in Attempts, Report(x) PROVE CancelIsLaunched'
  BY <1>16 DEF Report, Over
<1>17. ASSUME NEW s \in Stops, Stop(s) PROVE CancelIsLaunched'
  BY <1>17 DEF Stop
<1>18. ASSUME NEW s \in Stops, Cancel(s) PROVE CancelIsLaunched'
  BY <1>18 DEF Cancel
<1>19. ASSUME NEW s \in Stops, StopReturns(s) PROVE CancelIsLaunched'
  BY <1>19 DEF StopReturns, Returning
<1>20. ASSUME NEW s \in Stops, StopTimesOut(s) PROVE CancelIsLaunched'
  BY <1>20 DEF StopTimesOut, Returning
<1>21. CASE Exit
  BY <1>21 DEF Exit, CloseTun
<1>22. CASE UNCHANGED vars
  BY <1>22 DEF vars
<1> QED BY <1>1, <1>2, <1>3, <1>4, <1>5, <1>6, <1>7, <1>8, <1>9, <1>10, <1>11, <1>12,
           <1>13, <1>14, <1>15, <1>16, <1>17, <1>18, <1>19, <1>20, <1>21, <1>22
           DEF Next, StartStep, EngineStep, StopStep, Guard, TypeOK

(* Without overlapping Starts there is one attempt at most, under control and protected. *)
LEMMA AloneStep == IInv /\ [Next]_vars => Alone'
<1> SUFFICES ASSUME IInv, [Next]_vars
             PROVE  Alone'
  OBVIOUS
<1> USE HostAssumption DEF IInv, TypeOK, GuardFollowsStage, Unguarded, Guarded,
        CancelIsLaunched, Alone, OneAtMost, Controlled, Protected, InProgress, Launched,
        Refusing, Stages, manager, attempt, device, policy, history
<1>1. ASSUME NEW x \in Attempts, Start(x) PROVE Alone'
  <2> SUFFICES ASSUME ~overlapped' PROVE OneAtMost'
    BY DEF Alone
  <2>1. ~overlapped /\ state # "calibrating"
    BY <1>1 DEF Start
  <2>2. InProgress = {} /\ cancel = None
    BY <1>1, <2>1 DEF Start
  <2> QED BY <1>1, <2>2 DEF Start
<1>2. ASSUME NEW x \in Attempts, Discover(x) PROVE Alone'
  BY <1>2 DEF Discover, SamePathSet, Starting
<1>3. ASSUME NEW x \in Attempts, Calibrate(x) PROVE Alone'
  BY <1>3 DEF Calibrate, Starting
<1>4. ASSUME NEW x \in Attempts, NoUsablePath(x) PROVE Alone'
  BY <1>4 DEF NoUsablePath, StartFailed, Over
<1>5. ASSUME NEW x \in Attempts, NEW p \in Paths, ProtectPath(x, p) PROVE Alone'
  BY <1>5 DEF ProtectPath
<1>6. ASSUME NEW x \in Attempts, NEW p \in Paths, ProtectFails(x, p) PROVE Alone'
  BY <1>6 DEF ProtectFails, Remains, StartFailed, Over, Recorded
<1>7. ASSUME NEW x \in Attempts, OpenTun(x) PROVE Alone'
  BY <1>7 DEF OpenTun
<1>8. ASSUME NEW x \in Attempts, OpenFails(x) PROVE Alone'
  BY <1>8 DEF OpenFails, CloseGuard, StartFailed, Over, Recorded
<1>9. ASSUME NEW x \in Attempts, Setup(x) PROVE Alone'
  BY <1>9 DEF Setup
<1>10. ASSUME NEW x \in Attempts, SetupFails(x) PROVE Alone'
  BY <1>10 DEF SetupFails, CloseTun, CloseGuard, StartFailed, Over, Recorded
<1>11. ASSUME NEW x \in Attempts, Launch(x) PROVE Alone'
  BY <1>11 DEF Launch
<1>12. ASSUME NEW x \in Attempts, Connected(x) PROVE Alone'
  BY <1>12 DEF Connected
<1>13. ASSUME NEW x \in Attempts, ConnectFails(x) PROVE Alone'
  BY <1>13 DEF ConnectFails
<1>14. ASSUME NEW x \in Attempts, RunEnds(x) PROVE Alone'
  BY <1>14 DEF RunEnds, CloseTun
<1>15. ASSUME NEW x \in Attempts, Unguard(x) PROVE Alone'
  BY <1>15 DEF Unguard, CloseGuard, Recorded
<1>16. ASSUME NEW x \in Attempts, Report(x) PROVE Alone'
  BY <1>16 DEF Report, Over
<1>17. ASSUME NEW s \in Stops, Stop(s) PROVE Alone'
  BY <1>17 DEF Stop
<1>18. ASSUME NEW s \in Stops, Cancel(s) PROVE Alone'
  BY <1>18 DEF Cancel
<1>19. ASSUME NEW s \in Stops, StopReturns(s) PROVE Alone'
  BY <1>19 DEF StopReturns, Returning
<1>20. ASSUME NEW s \in Stops, StopTimesOut(s) PROVE Alone'
  BY <1>20 DEF StopTimesOut, Returning
<1>21. CASE Exit
  BY <1>21 DEF Exit, CloseTun
<1>22. CASE UNCHANGED vars
  BY <1>22 DEF vars
<1> QED BY <1>1, <1>2, <1>3, <1>4, <1>5, <1>6, <1>7, <1>8, <1>9, <1>10, <1>11, <1>12,
           <1>13, <1>14, <1>15, <1>16, <1>17, <1>18, <1>19, <1>20, <1>21, <1>22
           DEF Next, StartStep, EngineStep, StopStep, Guard, TypeOK

(* Every reachable state satisfies the strengthening. *)
THEOREM Invariance == Spec => []IInv
<1>1. IInv /\ [Next]_vars => IInv'
  BY TypeStep, GuardStep, OwnerStep, CancelStep, AloneStep DEF IInv
<1> QED BY InitIInv, <1>1, PTL DEF Spec

(* Fields, stages and entries keep their types, on every host. *)
THEOREM TypeCorrect == Spec => []TypeOK
<1>1. IInv => TypeOK
  BY DEF IInv
<1> QED BY Invariance, <1>1, PTL

(* However many Starts, failures, Stops and exits of the process interleave, *)
(* each rule and table belongs to an attempt that removes it, or was left by *)
(* an exit or a failing "rule add".                                          *)
THEOREM EntriesAreOwned == Spec => []NothingLeftBehind
<1>1. IInv => NothingLeftBehind
  BY DEF IInv
<1> QED BY Invariance, <1>1, PTL

(* While an engine may send, its uplinks are guarded, unless Starts overlapped. *)
THEOREM GuardBeforeTunnel == Spec => []TunnelIsGuarded
<1>1. IInv => TunnelIsGuarded
  <2> SUFFICES ASSUME IInv, ~overlapped, NEW x \in Attempts,
                      stage[x] \in {"configured", "connecting", "running"},
                      NEW p \in paths[x]
               PROVE  rule[InterfaceOf[p]] \in paths[x] /\ InterfaceOf[p] \in tables
    BY DEF TunnelIsGuarded
  <2>1. p \in guarded[x]
    BY DEF IInv, GuardFollowsStage, Guarded
  <2>2. x \in InProgress /\ Protected(x)
    BY DEF IInv, Alone, OneAtMost, InProgress
  <2> QED BY <2>1, <2>2 DEF Protected
<1> QED BY Invariance, <1>1, PTL

(* A running engine is the one Stop would cancel, and with no attempt left   *)
(* the manager accepts a Start, unless Starts overlapped.                    *)
THEOREM EngineInReach == Spec => []EngineUnderControl
<1>1. IInv => EngineUnderControl
  BY DEF IInv, Alone, OneAtMost, Controlled, EngineUnderControl, InProgress, Launched, Refusing
<1> QED BY Invariance, <1>1, PTL

=============================================================================
