----------------------------- MODULE ClientApp -----------------------------
(***************************************************************************)
(* The client manager (clientapp/manager.go) and what it does to the host: *)
(* the TUN device with its full-tunnel routes, and the route guard         *)
(* (netconfig/netconfig.go, Linux), which for each uplink installs a rule  *)
(* "from its address look up table 20000+ifindex" at the priority of the   *)
(* same number, so that the encrypted packets do not enter the tunnel.     *)
(*                                                                         *)
(* An attempt is one accepted Start and the engine goroutine it launches.  *)
(* The handlers of the control panel call Start and Stop at any time; the  *)
(* manager's lock is held for single sections only.  A step is one locked  *)
(* section, one change of the host, or one event of the engine; undoing a  *)
(* failed step and startFailed are part of the step.  The guard's commands *)
(* for one path are one step.                                              *)
(***************************************************************************)
EXTENDS Integers

CONSTANTS
    Attempts,      \* Starts in progress, with the engines they launched
    Stops,         \* Stop calls in progress
    Paths,         \* addresses of the host's uplinks
    Interfaces,    \* the interfaces that own them
    InterfaceOf,
    Networks,      \* the sets of paths that may be discovered
    None

ASSUME HostAssumption ==
    /\ InterfaceOf \in [Paths -> Interfaces]
    /\ Networks \subseteq SUBSET Paths
    /\ None \notin Paths \union Attempts

VARIABLES
    state,         \* Manager.state; "running" is never stored
    cached,        \* Manager.cached
    cancel,        \* the attempt whose engine Manager.cancel and done belong to
    ready,         \* Registry.ready
    stage,         \* how far each attempt is
    paths,         \* the paths of its profile
    guarded,       \* those its guard has recorded for cleanup
    cancelled,     \* attempts whose context is cancelled
    broken,        \* attempts whose Run returned an error
    target,        \* the attempt each Stop waits for
    tun,           \* the attempt that opened the TUN device
    routed,        \* the full-tunnel routes point to the device
    rule,          \* the path whose rule has the priority of an interface
    tables,        \* interfaces whose table holds a route
    overlapped,    \* history: a Start was accepted while another was calibrating
    residue        \* history: interfaces whose entries nobody will remove

manager == <<state, cached, cancel, ready>>
attempt == <<stage, paths, guarded, cancelled, broken>>
device  == <<tun, routed>>
policy  == <<rule, tables>>
history == <<overlapped, residue>>
vars == <<manager, attempt, target, device, policy, history>>

Stages == {"idle", "discovering", "measuring", "guarding", "opened",
           "configured", "connecting", "running", "ended", "unguarded"}
Launched == {"connecting", "running", "ended", "unguarded"}
States == {"stopped", "calibrating", "starting", "stopping", "error"}

TypeOK ==
    /\ state \in States
    /\ cached \subseteq Paths
    /\ cancel \in Attempts \union {None}
    /\ ready \in BOOLEAN
    /\ stage \in [Attempts -> Stages]
    /\ paths \in [Attempts -> SUBSET Paths]
    /\ guarded \in [Attempts -> SUBSET Paths]
    /\ \A x \in Attempts : guarded[x] \subseteq paths[x]
    /\ cancelled \subseteq Attempts
    /\ broken \subseteq Attempts
    /\ target \in [Stops -> Attempts \union {None}]
    /\ tun \in Attempts \union {None}
    /\ routed \in BOOLEAN
    /\ rule \in [Interfaces -> Paths \union {None}]
    /\ \A i \in Interfaces : rule[i] # None => InterfaceOf[rule[i]] = i
    /\ tables \subseteq Interfaces
    /\ overlapped \in BOOLEAN
    /\ residue \subseteq Interfaces

Init ==
    /\ state = "stopped"
    /\ cached = {}
    /\ cancel = None
    /\ ready = FALSE
    /\ stage = [x \in Attempts |-> "idle"]
    /\ paths = [x \in Attempts |-> {}]
    /\ guarded = [x \in Attempts |-> {}]
    /\ cancelled = {}
    /\ broken = {}
    /\ target = [s \in Stops |-> None]
    /\ tun = None
    /\ routed = FALSE
    /\ rule = [i \in Interfaces |-> None]
    /\ tables = {}
    /\ overlapped = FALSE
    /\ residue = {}

----------------------------------------------------------------------------
(* Accepting a Start and finding the paths *)

InProgress == {x \in Attempts : stage[x] # "idle"}

\* (slip) A Start is accepted while the last engine still stops.
RefusingLess == {"starting", "running"}

Refusing == {"starting", "running", "stopping"}

\* The name of an attempt is used again when it is over and no Stop waits for it.
Start(x) ==
    /\ stage[x] = "idle"
    /\ \A s \in Stops : target[s] # x
    /\ state \notin Refusing
    /\ state' = "calibrating"
    /\ stage' = [stage EXCEPT ![x] = "discovering"]
    /\ cancelled' = cancelled \ {x}
    /\ broken' = broken \ {x}
    /\ overlapped' = (overlapped \/ state = "calibrating")
    /\ UNCHANGED <<cached, cancel, ready, paths, guarded, target, device, policy, residue>>

\* The overlap is over when no other attempt is left.
Over(x) ==
    /\ stage' = [stage EXCEPT ![x] = "idle"]
    /\ paths' = [paths EXCEPT ![x] = {}]
    /\ guarded' = [guarded EXCEPT ![x] = {}]
    /\ overlapped' = (overlapped /\ InProgress # {x})

StartFailed(x) ==
    /\ Over(x)
    /\ state' = "error"
    /\ UNCHANGED <<cached, cancel, ready, cancelled, broken, target>>

SamePathSet(a, b) == a # {} /\ a = b

Starting(x, found) ==
    /\ state' = "starting"
    /\ stage' = [stage EXCEPT ![x] = "guarding"]
    /\ paths' = [paths EXCEPT ![x] = found]

Discover(x) ==
    /\ stage[x] = "discovering"
    /\ \E found \in Networks \ {{}} :
        \/ /\ SamePathSet(cached, found)
           /\ Starting(x, found)
        \/ /\ ~SamePathSet(cached, found)
           /\ stage' = [stage EXCEPT ![x] = "measuring"]
           /\ paths' = [paths EXCEPT ![x] = found]
           /\ UNCHANGED state
    /\ UNCHANGED <<cached, cancel, ready, guarded, cancelled, broken, target, device,
                   policy, history>>

\* Diagnose over every path found; those that echo are the calibrated ones.
Calibrate(x) ==
    /\ stage[x] = "measuring"
    /\ \E calibrated \in (SUBSET paths[x]) \ {{}} :
        /\ cached' = calibrated
        /\ Starting(x, calibrated)
    /\ UNCHANGED <<cancel, ready, guarded, cancelled, broken, target, device, policy,
                   history>>

NoUsablePath(x) ==
    /\ stage[x] \in {"discovering", "measuring"}
    /\ StartFailed(x)
    /\ UNCHANGED <<device, policy, residue>>

----------------------------------------------------------------------------
(* The route guard *)

\* A table or rule is named by its interface, whoever installed it.
Recorded(x) == {InterfaceOf[p] : p \in guarded[x]}

CloseGuard(x) ==
    /\ rule' = [i \in Interfaces |-> IF i \in Recorded(x) THEN None ELSE rule[i]]
    /\ tables' = tables \ Recorded(x)
    /\ residue' = residue \ Recorded(x)

ProtectPath(x, p) ==
    /\ stage[x] = "guarding"
    /\ p \in paths[x] \ guarded[x]
    /\ rule' = [rule EXCEPT ![InterfaceOf[p]] = p]
    /\ tables' = tables \union {InterfaceOf[p]}
    /\ guarded' = [guarded EXCEPT ![x] = @ \union {p}]
    /\ residue' = residue \ {InterfaceOf[p]}
    /\ UNCHANGED <<manager, stage, paths, cancelled, broken, target, device, overlapped>>

\* What a path that fails to be protected leaves, beside what was recorded before.
Remains(x, p, left) ==
    LET gone == Recorded(x) \union (IF left = "untouched" THEN {} ELSE {InterfaceOf[p]})
        kept == IF left = "table" THEN {InterfaceOf[p]} \ Recorded(x) ELSE {}
    IN  /\ rule' = [i \in Interfaces |-> IF i \in gone THEN None ELSE rule[i]]
        /\ tables' = (tables \ gone) \union kept
        /\ residue' = (residue \ gone) \union kept

\* Without default route nothing is changed; otherwise the entries of the
\* interface are deleted first, and if only the rule fails the table stays.
ProtectFails(x, p) ==
    /\ stage[x] = "guarding"
    /\ p \in paths[x] \ guarded[x]
    /\ \E left \in {"untouched", "nothing", "table"} : Remains(x, p, left)
    /\ StartFailed(x)
    /\ UNCHANGED device

----------------------------------------------------------------------------
(* The device and the engine *)

\* (slip) The device is opened while the guard is still being installed.
OpenTunEarly(x) ==
    /\ stage[x] = "guarding"
    /\ tun = None
    /\ tun' = x
    /\ stage' = [stage EXCEPT ![x] = "opened"]
    /\ UNCHANGED <<manager, paths, guarded, cancelled, broken, target, routed, policy, history>>

\* The name of a TUN device that is open cannot be opened again.
OpenTun(x) ==
    /\ stage[x] = "guarding"
    /\ guarded[x] = paths[x]
    /\ tun = None
    /\ tun' = x
    /\ stage' = [stage EXCEPT ![x] = "opened"]
    /\ UNCHANGED <<manager, paths, guarded, cancelled, broken, target, routed, policy, history>>

OpenFails(x) ==
    /\ stage[x] = "guarding"
    /\ guarded[x] = paths[x]
    /\ CloseGuard(x)
    /\ StartFailed(x)
    /\ UNCHANGED device

Setup(x) ==
    /\ stage[x] = "opened"
    /\ routed' = TRUE
    /\ stage' = [stage EXCEPT ![x] = "configured"]
    /\ UNCHANGED <<manager, paths, guarded, cancelled, broken, target, tun, policy, history>>

\* The routes through a device go with it.
CloseTun == tun' = None /\ routed' = FALSE

\* (slip) A failing Setup closes the device only.
SetupFailsGuarded(x) ==
    /\ stage[x] \in {"opened", "configured"}
    /\ CloseTun
    /\ StartFailed(x)
    /\ UNCHANGED <<policy, residue>>

\* Setup or NewClient fails.
SetupFails(x) ==
    /\ stage[x] \in {"opened", "configured"}
    /\ CloseTun
    /\ CloseGuard(x)
    /\ StartFailed(x)

Launch(x) ==
    /\ stage[x] = "configured"
    /\ cancel' = x
    /\ stage' = [stage EXCEPT ![x] = "connecting"]
    /\ UNCHANGED <<state, cached, ready, paths, guarded, cancelled, broken, target, device,
                   policy, history>>

Connected(x) ==
    /\ stage[x] = "connecting"
    /\ ready' = TRUE
    /\ stage' = [stage EXCEPT ![x] = "running"]
    /\ UNCHANGED <<state, cached, cancel, paths, guarded, cancelled, broken, target, device,
                   policy, history>>

\* Run returns before it defers close: the device stays open.
ConnectFails(x) ==
    /\ stage[x] = "connecting"
    /\ stage' = [stage EXCEPT ![x] = "ended"]
    /\ broken' = broken \union {x}
    /\ UNCHANGED <<manager, paths, guarded, cancelled, target, device, policy, history>>

\* The context is cancelled, or the device cannot be read (which is no error
\* when it was closed).
RunEnds(x) ==
    /\ stage[x] = "running"
    /\ stage' = [stage EXCEPT ![x] = "ended"]
    /\ \/ UNCHANGED broken
       \/ x \notin cancelled /\ broken' = broken \union {x}
    /\ CloseTun
    /\ ready' = FALSE
    /\ UNCHANGED <<state, cached, cancel, paths, guarded, cancelled, target, policy, history>>

Unguard(x) ==
    /\ stage[x] = "ended"
    /\ CloseGuard(x)
    /\ stage' = [stage EXCEPT ![x] = "unguarded"]
    /\ UNCHANGED <<manager, paths, guarded, cancelled, broken, target, device, overlapped>>

\* (slip) The state is reported after an error only.
ReportErrors(x) ==
    /\ stage[x] = "unguarded"
    /\ Over(x)
    /\ state' = IF x \in broken \ cancelled THEN "error" ELSE state
    /\ cancel' = None
    /\ UNCHANGED <<cached, ready, cancelled, broken, target, device, policy, residue>>

\* The goroutine forgets whatever cancel is current, and closes done.
Report(x) ==
    /\ stage[x] = "unguarded"
    /\ Over(x)
    /\ state' = IF x \in broken \ cancelled THEN "error" ELSE "stopped"
    /\ cancel' = None
    /\ UNCHANGED <<cached, ready, cancelled, broken, target, device, policy, residue>>

----------------------------------------------------------------------------
(* Stop, and the end of the process *)

\* Without cancel function Stop is refused.
Stop(s) ==
    /\ target[s] = None
    /\ cancel # None
    /\ state' = "stopping"
    /\ target' = [target EXCEPT ![s] = cancel]
    /\ UNCHANGED <<cached, cancel, ready, attempt, device, policy, history>>

Cancel(s) ==
    /\ target[s] \in Attempts \ cancelled
    /\ cancelled' = cancelled \union {target[s]}
    /\ UNCHANGED <<manager, stage, paths, guarded, broken, target, device, policy, history>>

Returning(s) ==
    /\ target' = [target EXCEPT ![s] = None]
    /\ UNCHANGED <<manager, attempt, device, policy, history>>

StopReturns(s) == target[s] \in cancelled \ InProgress /\ Returning(s)
StopTimesOut(s) == target[s] \in cancelled \intersect InProgress /\ Returning(s)

\* The process is killed; or runApp returns although attempts are in progress:
\* its Stop is refused before Launch, skipped in the states "calibrating" and
\* "stopping", and gives up after ten seconds.  The kernel closes the device
\* and keeps rules and tables.  The next process begins.
Exit ==
    /\ state' = "stopped" /\ cached' = {} /\ cancel' = None /\ ready' = FALSE
    /\ stage' = [x \in Attempts |-> "idle"]
    /\ paths' = [x \in Attempts |-> {}]
    /\ guarded' = [x \in Attempts |-> {}]
    /\ cancelled' = {} /\ broken' = {}
    /\ target' = [s \in Stops |-> None]
    /\ CloseTun
    /\ residue' = tables \union {i \in Interfaces : rule[i] # None}
    /\ overlapped' = FALSE
    /\ UNCHANGED policy

----------------------------------------------------------------------------

Guard(x) == \E p \in paths[x] : ProtectPath(x, p) \/ ProtectFails(x, p)

StartStep(x) ==
    \/ Discover(x) \/ Calibrate(x) \/ NoUsablePath(x) \/ Guard(x)
    \/ OpenTun(x) \/ OpenFails(x) \/ Setup(x) \/ SetupFails(x) \/ Launch(x)

EngineStep(x) == Connected(x) \/ ConnectFails(x) \/ RunEnds(x) \/ Unguard(x) \/ Report(x)

StopStep(s) == Stop(s) \/ Cancel(s) \/ StopReturns(s) \/ StopTimesOut(s)

Next ==
    \/ \E x \in Attempts : Start(x) \/ StartStep(x) \/ EngineStep(x)
    \/ \E s \in Stops : StopStep(s)
    \/ Exit

Spec == Init /\ [][Next]_vars

\* Handlers and the goroutine go on; an engine need not end while its context lives.
FairSpec ==
    /\ Spec
    /\ \A x \in Attempts :
        /\ WF_vars(StartStep(x))
        /\ WF_vars(Connected(x) \/ ConnectFails(x) \/ Unguard(x) \/ Report(x))
        /\ WF_vars(x \in cancelled /\ RunEnds(x))
    /\ \A s \in Stops : WF_vars(Cancel(s))

----------------------------------------------------------------------------
(* Properties *)

\* While an engine may send, every uplink it uses has its table and a rule
\* there that is one of the engine's own: it is the guard that keeps encrypted
\* packets out of the tunnel (Start's order of guard, routes, close and Close).  Two things are
\* exempt: Starts that overlapped, and all but the last protected of several
\* addresses of one interface, whose rule is gone.  RoutesAreGuarded asks for both.
TunnelIsGuarded ==
    \A x \in Attempts :
        stage[x] \in {"configured", "connecting", "running"} /\ ~overlapped =>
            \A p \in paths[x] : /\ rule[InterfaceOf[p]] \in paths[x]
                                /\ InterfaceOf[p] \in tables

\* Every rule and every table is recorded in the guard of an attempt that has
\* still to end, however attempts overlap; what an exit or a failing "rule
\* add" left behind excepted.
NothingLeftBehind ==
    \A i \in Interfaces :
        rule[i] # None \/ i \in tables =>
            i \in residue \/ \E x \in Attempts : stage[x] # "unguarded" /\ i \in Recorded(x)

\* Unless Starts overlapped (then a second engine may run that no Stop reaches,
\* see the guard of Start): an engine that runs is the one Stop would cancel,
\* and the status does not call it stopped; without engine or Start the manager
\* accepts a Start.
EngineUnderControl ==
    ~overlapped =>
        /\ \A x \in Attempts : stage[x] \in {"connecting", "running"} =>
                                  cancel = x /\ state \in {"starting", "stopping"}
        /\ InProgress = {} => cancel = None /\ state \notin Refusing

\* The manager never stays in "stopping", where it refuses every Start:
\* the engine ends and reports (Stop, Run and the goroutine of Start).
StoppingEnds == state = "stopping" ~> state # "stopping"

\* Does not hold.  "Before the two /1 routes are installed, LinkForge creates a
\* source/interface-specific physical route guard for every discovered path.
\* Stop/shutdown removes both the TUN routes and policy tables"
\* (docs/configuration.md:85-88): while the routes are there, each path of the
\* engine they lead to has its own rule and its table.  ProtectPath of a second
\* address, Unguard after ConnectFails, and OpenFails or SetupFails of another
\* Start each break it.
RoutesAreGuarded ==
    routed => \A p \in paths[tun] : rule[InterfaceOf[p]] = p /\ InterfaceOf[p] \in tables

\* Does not hold either, from ConnectFails: when Stop has returned without
\* error, the device of its engine is closed and the routes are gone (the same sentence).
StopRemovesTunnel ==
    [][\A s \in Stops : StopReturns(s) => tun # target[s] /\ ~routed]_vars

=============================================================================
