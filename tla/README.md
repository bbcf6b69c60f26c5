# A TLA+ verification of LinkForge

LinkForge carries an IPv4 tunnel over several network paths at once. A client
opens one UDP path per uplink, a relay joins the paths of a client into one
session, and both sides number every packet, spread the numbers over the paths
and put them back in order. A control plane on the relay enrolls devices.

This directory holds TLA+ models translated from the Go source, TLC runs that
check them on small instances, and TLAPS proofs of what matters most for every
value of their constants. `PROJECT.json` maps each definition to its source
lines and lists the runs, the slips each property is known to catch, the
hazards and the theorems. Run from here, for instance:

    tlc -workers 2 -config MCRelayRotation.cfg MCRelaySessions
    tlapm ReorderBufferProofs.tla

## The system's parts

| Part | Source | State it keeps | Operations | What makes it correct |
|---|---|---|---|---|
| Wire protocol | `protocol/protocol.go`, `ip.go` | none | HELLO/WELCOME, sealing and opening of datagrams | authentic parsing |
| Replay window | `protocol/protocol.go` 424-458 | highest number, 64-bit bitmap, per path and direction | `Accept` | no replay; reordering inside the window costs nothing |
| Reorder buffer | `reorder/reorder.go` | expected number, packets held, since when there is a gap | `Push`, `FlushExpired`, `Reset` | order, exact loss count, bounded size and delay |
| Scheduler | `scheduler/scheduler.go` | credit by path name | `Next` | healthy paths only, shares by weight |
| Relay engine | `engine/server.go` | credentials, sessions, three indexes, paths | HELLO, encrypted datagrams, TUN packets, janitor, `AuthorizeClient`, `RevokeClient` | indexes agree; sessions belong to current credentials; closed means closed |
| Client engine | `engine/client.go` | paths, session id, instance nonce, `rejoining`, `reconnecting` | `connect`, health loop, `reconnectPath`, `rejoinAll`, `close` | one session at a time; recovery from any loss; no socket left behind |
| Client manager | `clientapp/manager.go` | state, cancel function, calibrated paths | `Start` (calibration, guard, device, engine), `Stop` | one engine at a time, always within reach of `Stop`; no state that refuses every `Start` |
| Network configuration | `netconfig/netconfig.go` | routing tables and rules of the host, those to clean up | `ProtectRelay`, `Close`, `Setup` | in place while an engine sends, gone when it has ended, whatever step fails |
| Store | `controlplane/store.go` | activations, devices, audit log in bolt | create, enroll, rotate, revoke, touch, load | codes work once; addresses unique; the log tells the history |
| Service | `controlplane/service.go` | limiter windows | HTTP handlers, hooks into the relay | the relay follows the store; the limiter's table is bounded, it lets no burst through and refuses nobody without cause |
| Processes | `cmd/linkforge/main.go` | services running | start, stop | orderly start and end |
| TUN device | `tun/device.go` | one device per name | `Open`, `Close`, packets | open exactly while an engine owns it |
| Metrics | `metrics/metrics.go` | counters, ready flag | control handlers, export | |
| Configuration, binding, logging | `config`, `netbind`, `logging` | none | parsing, OS calls | not modelled |

How they interact: the relay's `receiveLoop` (one goroutine) handles all
datagrams, `tunLoop` sends to clients, `janitorLoop` and `reorderLoop` are
tickers, and HTTP handlers call into it through hooks. They share the session
table under `credentialMu`, `s.mu` and each session's `mu`, and keep pointers
after releasing them. The client's receive loops, health loop and the
goroutines it starts share the path list the same way. Between client and
relay there is only UDP: datagrams are lost, repeated and reordered. The
client's control panel calls `Start` and `Stop` of the manager from HTTP
handlers; `Start` changes the host (guard, device, routes) without a lock, and
the goroutine it launches undoes that when the engine ends. Both sides ask one
`Scheduler` per session for the path of each packet, while health and
round-trip times change under it.

The hard behaviours are therefore: handlers that read under one lock and act
under the next; a transaction and its hook; late and repeated HELLOs; expiry
racing with use; gaps that time out one after another; attempts to start that
overlap and undo each other's routes; and everything that has to recover by
itself when one side restarts. `PROJECT.json` lists them under
`hazards`, each at its line.

## Modules

| Module | Models | How |
|---|---|---|
| `ReplayWindow` | `ReplayWindow.Accept` | one step per call; the bitmap is the set of its one bits; history of what was taken and refused |
| `ReplayWindowProofs` | | proofs for every window size |
| `OrderedDelivery` | abstract: the stream a reorder buffer promises | `Deliver(lost, n)`: give up `lost` numbers, hand over the next `n` |
| `ReorderBuffer` | `reorder.Buffer`, its flushing ticker and `Reset` | one action per way out of `Push`; `gapSince` kept as an age; observers for waits |
| `ReorderBufferProofs` | | proofs, and that `ReorderBuffer` implements `OrderedDelivery` |
| `RelaySessions` | the session table of `engine/server.go` | one step per critical section; `receiver`, `control` and `tunnel` hold what a goroutine read before |
| `RelaySessionsProofs` | | proofs for any number of clients, offers, HELLOs, addresses, sessions and calls |
| `ClientSession` | the session of `engine/client.go`: `connect`, `reconnectPath`, `rejoinAll`, the health and TUN loops, `close` | one step per critical section, handshake answer or look at shared state; the relay is the session a HELLO joins or replaces |
| `ClientSessionProofs` | | proofs for any number of uplinks, sessions, identities and losses |
| `Registry` | abstract: what the control plane promises of its devices | `Join`, `Renew`, `Leave` of a device, with its code, address and key |
| `ControlPlane` | store, service handlers and the relay process | one step per transaction and one per hook; `Crash` and `Start` |
| `ControlPlaneProofs` | | proofs for any number of codes, devices, addresses, keys and handlers, and that `ControlPlane` implements `Registry` |
| `RateLimiter` | the limiter in front of `/v1/enroll` | `Ask` reads the clock, `Allow` decides under the mutex, one action per way out of it; history of the requests let through |
| `RateLimiterProofs` | | proofs for any number of addresses and handlers, every maximum, duration and cap |
| `ClientApp` | `clientapp/manager.go` with the Linux part of `netconfig.go`, the device and `runApp` | one step per locked section, per change of the host and per event of the engine; an attempt is an accepted `Start` and its goroutine |
| `ClientAppProofs` | | proofs for every number of attempts, Stops, uplinks and networks |
| `Scheduler` | `scheduler/scheduler.go` | one step per call of `Next`, and per change of a path's health or RTT; observers count the calls |
| `SchedulerProofs` | | sums over finite sets, and proofs for any number of links, any weights and round-trip times |
| `MC*` | instances for TLC | values of the constants, symmetry |

`RelaySessions` takes authorized credentials from `Offers`; its
`AddressAssumption` (an address belongs to one client for ever) is what
`AddressesUnique` of `ControlPlane` establishes for each run of the relay.
`ControlPlane` sees the relay as its table of credentials only, and an
enrollment as one the limiter has let through. `ClientApp`
sees of `ClientSession` that `Run` connects or fails, and ends; `RelaySessions`
and `ClientSession` let any healthy path be chosen, of which `Scheduler` says
how often each is.

Abstractions, by module:

- Random values (session ids, nonces, client ids, codes, keys) never repeat.
- Only authentic datagrams are inputs: a handler that refuses one only counts
  and logs it. `Hellos` are the authentic HELLOs a network may deliver, at any
  time and any number of times.
- Time is counted in ticks and kept as ages, capped just above the largest
  limit they are compared with.
- `ReorderBuffer`: the ticker is on time (`Tick` waits for a flush that is
  due); the delays stated are relative to that. The caller's `now` and
  `drain`'s `time.Now()` are the same instant.
- `RelaySessions`: payloads, counters, the choice of the scheduler among
  eligible paths (any) and the reorder buffer of a session are left out. The
  HELLO without instance nonce is instance 0. `addPath`, `touch` and the write
  of the WELCOME follow each other in one goroutine and are one step; the
  session could be closed between them, with the effect of closing it after.
  The id of a path is bounded by `MaxPathId` and not wrapped.
- `ClientSession`: a path is healthy or not, for whatever reason; a handshake
  is answered or times out, and its HELLO may have reached the relay either
  way. A snapshot and the closing of its sockets are one step, as are the
  installation of a path and the start of its receiver. `reconnectPath` begins
  when the health loop starts it, `rejoinAll` any time later. Received packets
  are left out (their buffer is `ReorderBuffer`), as are discovery (an uplink
  that is gone is a handshake that fails) and what an abandoned socket still
  does. HELLOs that outlive their handshake are in `RelaySessions`. Past
  `MaxData` a packet gets no number.
- `ControlPlane`: encryption, JSON and the HTTP layer are left out, requests
  that fail validation change nothing. Device keys are numbered. The audit log
  is kept by subject. A handler reads the clock just before its transaction.
  Which clients are configured may change whenever the relay is down
  (`Configure`); a relay that refuses to start (`Loadable`) changes nothing. The
  relay's own address is the same after every restart. `Assignable` leaves out that
  `AuthorizeClient` refuses an address outside the relay's subnet or equal to its
  own (server.go:134-136): the pool is that subnet and the allocation skips the
  relay's address, so neither can reach it.
- `RateLimiter`: a handler is taken to wait at most `Lag` for the mutex, which
  is held for one sweep of 4096 entries at the longest; the clock does not run
  backwards (it is monotonic in a Go process). `start.IsZero` and a missing
  window are both `None`. The address is what `clientAddress` returned. A restart
  empties the table and is left out, as is the rest of the request.
- `ClientApp`: full-tunnel mode with `configure_interface`, on Linux; split mode
  has no guard and Windows has commands of its own. The commands that protect
  one path are one step, as is the whole of `RouteGuard.Close`, and undoing a
  failed step is part of that step with `startFailed`. Commands of a cleanup do
  not fail. Any set of `Networks` may be discovered at each start. A TUN name
  is exclusive and the routes through a device vanish with it; a device nobody
  closes stays open as long as the process (the goroutines of the TUN library
  keep it). `Diagnose` uses sockets only, so a calibration is its result. The
  measured weights and `lastErr` are left out.
- `Scheduler`: credit is counted in exact fractions, float64's rounding is left
  out; of paths with equal credit any may be first. A call sees one value of
  each path's health and RTT. That callers drop the packet if the write fails
  makes no difference to the credit.

## Runs

| Run | Question | Bounds and why they are enough |
|---|---|---|
| `replay_window` | no replay, no needless refusal, exact bitmap | window 3, numbers 1-8: shifts shorter than, equal to and beyond the window, twice over |
| `reorder_buffer` | order, loss count, size, delays, refinement, release | 6 numbers, 4 packets, deadline 3 ticks, flush every 2: two gaps in a row, overflow, expiry in `Push` and in the ticker |
| `relay_rotation` | may anything of a replaced or revoked credential survive, and do the indexes and the gauge agree? | 2 clients, one with 2 keys and legacy HELLOs under both, one offer of a key already assigned, 2 concurrent calls, 2 sessions, 2 path ids: 4.3 million states |
| `relay_roaming` | repeated HELLOs, NAT rebinding, expiry and departure | 1 client, 1 session, 2 paths, 2 addresses, ages that separate the three time limits |
| `client_session` | one session at a time; numbers used once; sockets owned | 2 uplinks, 1 loss of the session by the relay, 3 relay sessions, 2 identities: a reconnect of one path against a rejoin begun by the other |
| `client_recovery` | is the session always rebuilt, does a stopped client come to rest? | 1 uplink, 1 loss, 5 relay sessions, 4 identities: three rejoins in a row |
| `control_plane` | codes, addresses, audit, crash recovery, refinement of `Registry` | 2 handlers, 3 codes, 3 devices for 2 free addresses (3 while no client is configured), 3 keys |
| `rate_limiter` | is the table bounded, is the rate, and is every refusal justified? | 3 addresses for 2 windows, 2 handlers, 2 requests per window of 3 ticks, 5 ticks: a full table with live and with expired windows, two windows of one address in a row, and a call one tick late: 3.4 million states |
| `control_overlap` | fails: do changes take effect in the relay? | 2 handlers, 1 device |
| `client_app` | cleanup and end of a stop, also under overlapping `Start`s; guard and control while none overlap | 2 attempts, 1 `Stop`, 2 uplinks of which one may have two addresses |
| `app_routes` | fails: is every discovered path guarded for as long as the full-tunnel routes are there? | as `client_app` |
| `scheduler` | is no link starved, do shares follow the weights? | 3 links of weight 1, 2 and 5, the last with two RTTs; shares over 16 calls, two full cycles of 8 |

Two sessions suffice where one replaces another, also when both belong to one
client of two. In `ClientSession` one loss of the session makes both kinds
of rejoin happen (a changed session, no path left), and late HELLOs of the
client itself cause further ones. Two handlers suffice for every pairwise race.
Two attempts suffice for one that is undone under another; their names are used
again, so any number of starts follow each other. A cap of 2 has room for an
address beside the one that fills the table, and a third finds it full; both bounds
of `RateLimiter` are reached (with `Duration - Lag + 1` `RateBounded` fails).
The credit of `Scheduler` is not bounded by the model: that it is bounded is `NobodyStarves`, and the run
reaches every credit there is. The bounds on session ids, path ids, keys and
the limiter's clock end a behaviour's supply of new ones; all other steps remain possible, so no property
holds because the model stopped.
`RecoversItsSession` says nothing of behaviours that have used up the sessions
or identities of its run (`Exhausted`).

Fairness. `ReorderBuffer!FairSpec` assumes the clock and the ticker goroutine;
no packet has to arrive. `RelaySessions!FairSpec` assumes the clock, the
janitor, and that a goroutine inside a handler goes on: none of these waits
for another party. Nothing is assumed of the network or of the operator.
`ClientSession!FairSpec` assumes that goroutines go on, that a handshake ends
(it has a deadline), that a path the relay does not serve falls silent, that
the random generator does not fail for ever (`rotateInstanceNonce`), and that
the network does not lose every handshake there is: without it no client could
recover.

`ClientApp!FairSpec` assumes that a `Start`, the goroutine of an engine and a
`Stop` that is waiting go on, and that `Run` returns once its context is
cancelled (it selects on it); an engine may run for ever otherwise, and nobody
has to press a button. `Scheduler`, `RateLimiter`, `ControlPlane` and
`ReplayWindow` state safety only; the bounds of `Scheduler` say within how many calls.

Histories mark the only ways a property can fail that the code does not
exclude: `contested` in `ControlPlane` (calls about one device overlapped, see
`control_overlap`) and `overtaken` in `ClientSession` (`reconnectPath` replaced
a path after `rejoinAll` had closed its snapshot and before it cleared the
list: the new socket is dropped open, and a packet that `tunLoop` was sending
over it repeats a number of the old session). `NumbersUsedOnce` and
`SocketsAreOwned` show that nothing else leads there. In `ClientApp`,
`overlapped` says that a `Start` was accepted while another was calibrating:
both go on, the second to open the device fails, and by closing its guard
removes the tables of the first, whose engine goes on without them;
or it calls the state "error" while the first runs (`app_routes`). `TunnelIsGuarded` and
`EngineUnderControl` hold whenever no such attempt is left, and claim nothing before. `residue` names the
interfaces whose entries have no owner any more: a process that ended with
attempts in progress (`runApp` calls `Stop` only in the states "running" and
"starting", and `Stop` is refused before the engine is launched), or a table
whose rule could not be added (`protectLinux` records both only after that).

Some consequences of the code have no run of their own. `drain` restarts the timer for the
next gap, so a packet behind two gaps waits for up to twice `reorder_delay`;
`WaitBoundedPerGap` is the bound that does hold. `getOrCreateSession` cannot
tell an earlier instance nonce from a later one: a HELLO of the previous process
that arrives late closes the current session, which the client has to notice (`RecoversItsSession`).

`reconnectPath` looks at the context before it replaces a path and `rejoinAll`
before it connects, and nothing waits for them: after `close` both may install
sockets that stay open, and a rejoin joins a relay session for a client that has
stopped. So `ClosedWhenStopped` of `ClientSession`, which
docs/managed-service.md:62 suggests ("waits for the engine to close"), does not
hold: TLC refutes it within seconds when it is added to `MCClientSession.cfg`.

What the failing runs show:

- `app_routes`: docs/configuration.md:85-88 promises a "physical route guard for
  every discovered path" before the /1 routes are installed, and that "Stop/shutdown
  removes both the TUN routes and policy tables". `RoutesAreGuarded` states it
  without exemption, and the code breaks it in three ways. TLC prints the
  shortest; each of the others is what it prints, or an instance of it, when the
  constants of `MCClientAppRoutes.cfg` exclude the rest:
  1. Two addresses of one interface (`wifi1`, `wifi2`): table and priority are
     numbered by the interface (netconfig.go:106-113), so protecting the second
     address deletes the rule of the first, whose packets have no policy route of
     their own any more.
     `TunnelIsGuarded` therefore asks for one rule per interface only.
  2. `Run` returns the error of `connect` before it has deferred `close`
     (client.go:126), and nobody else closes the device it was given; the goroutine
     of `Start` closes the guard. Device and /1 routes stay, whether the relay did
     not answer or `Stop` was called, and the next `Start` cannot open the
     name. With `Attempts = {x1}` and `Networks = {{eth1}}` this is the only
     way. That `Stop` itself has returned without error by then is
     `StopRemovesTunnel`, which TLC refutes when it is added as a PROPERTY.
  3. Two `Start`s that calibrate at once (manager.go:52) both go on to protect the
     same interface; the one that fails undoes rule and table under the other,
     whose engine goes on with the /1 routes in place. With `Networks = {{eth1}}`
     and two attempts TLC finds it first when (2) is excluded, that is
     while the attempt that holds the device is configured, connecting or running.

  What is lost is the policy route. The engine's sockets are bound to their
  interface as well (bind_linux.go), which keeps the packets off the /1 routes where
  the process may do so; without the permission `bindToInterface` goes on unbound.
  That second fence is not modelled, and docs/configuration.md promises the first.
- `control_overlap`: the transaction and the hook of a handler are not atomic.
  Two overlapping calls about one device may call their hooks in the opposite
  order: a revoked device stays authorized, or a rotated key is not accepted,
  until the relay restarts. `RelayMirrorsStore` shows that this is the only
  way the two can differ.

## Proofs

`ReplayWindowProofs` proves type correctness and all three properties of the
window for every window size and every set of sequence numbers. The bitmap being exact
(`WindowExact`) is inductive once it is known that nothing above `highest`, and
nothing before the first call, was taken; both other properties follow.

`ReorderBufferProofs` proves type correctness, order, the loss count, the size
bound and the delay of the head gap for every buffer size, deadline and ticker
period, and that the buffer implements `OrderedDelivery`. The invariant `Inv1`
adds to the properties that held numbers lie beyond `expected`
(`HeldBeyondExpected`), that the timer runs exactly while something is held
(`TimerRunsIffHolding`), and how old the timer can be between two flushes
(`GapTimed`), where the observer `stalled` and the timer of the code agree.
`EndOfRunIsMissing` replaces the induction over drain's loop: the least number
not held is at most `Cardinality(held)` away.

`ClientAppProofs` proves the types, `NothingLeftBehind`, `TunnelIsGuarded` and
`EngineUnderControl` for any number of attempts, Stops, uplinks and networks.
`NothingLeftBehind` needs to know at which stages a guard is empty
(`GuardFollowsStage`): an attempt that gives up without closing its guard must
not have one. The other two are about the stretches without overlapping Starts
(`Alone`): then there is one attempt at most, its stage determines the manager's
state (`Controlled`), and what its guard has recorded is in place
(`Protected`). That such a stretch begins clean after an overlap rests on
`CancelIsLaunched`: when the last attempt ends, no cancel function of another
is left.

`RelaySessionsProofs` proves every safety property of the session table. One
lemma, `ObjectsEvolve`, says what a step can do to the session objects (they
keep client and credential, stay closed once closed, gain a path only from
`receiveLoop`, and the address of a path moves only with a packet opened on it);
it gives the two action properties, and each invariant is carried over it. The
invariant says what `receiver`, `control` and `tunnel` still hold from an
earlier section: sessions that exist (`HeldSessionsExist`) and credentials that
were once authorized (`CredentialsOffered`). `SessionsAreAuthorized` needs
`JoinedIsAuthorized`: the session a HELLO has found under the first lock, if it
is still listed, has the credential of the HELLO, or its client is between the
two sections of `AuthorizeClient` or `RevokeClient` and will lose the session.
A stronger form of `SessionsAreAuthorized` is false: between the two sections of
`AuthorizeClient` a legacy HELLO (nonce 0) with the rotated key joins the session
of the old key, which terminating the client then ends. The property says so,
and the run `relay_rotation` contains such HELLOs.

`ControlPlaneProofs` proves every safety property of the control plane, through
any interleaving of handlers, crashes, pruning and changes of the configuration.
`AddressesUnique` and `NeverRefused` rest on three facts: allocation avoids the
relay's address and every device's (`AddressesApart`), no device that the relay
accepts, or may be asked to accept, has an address reserved by the configuration
(`ReservedAvoided`: `Loadable` checks it when the relay starts, allocation while
it runs), and no two devices share a key (`KeysApart`). `CodesWorkOnce`
needs that the code of an enrolled device stays used until it is pruned
(`CodesSpent`), and `DurableBeforeLive` what a handler between transaction and
hook carries (`CallsDurable`). `RelayMirrorsStore` needs that, while nobody
contests a device, its one handler carries what the store has now
(`Uncontested`), and that handlers and credentials end with the process
(`NothingSurvives`).

The same module proves that the control plane implements `Registry`. The
mapping reads a device's life, address and key off the bucket of devices; an
enrollment is `Join`, a rotation `Renew`, a revocation (also the one
that would withdraw a refused enrollment) `Leave`, and all other steps stutter. A
code that has enrolled a device and was then pruned cannot return, since
`CodesSpent` keeps it from being issued again, and `Codeless` says that nobody
else has one: so the promise about codes reaches beyond what the store
remembers.

`RateLimiterProofs` proves all four properties of the limiter. `TableBounded` is
inductive once the new window of a key without one counts against the room that
the sweep left. `RateBounded` is about two windows of one address that follow
each other, of which the first may have been cleared away. A window in the table
counts the last requests of its address's history, the first of them dated at
most `Lag` after the window's start, and all but `Maximum - 1` of the requests
before lie `Duration - Lag` back from there (`Counts`); an address without
a window has had at most `Maximum - 1` requests of late (`Rested`). `Lag` enters because
a request is dated when it is let through, up to `Lag` after the time its window
begins with. `RefusalsJustified` follows from `Counts`: a
window that has not expired was opened less than `Duration + Lag` ago by a request
that was let through.

`ClientSessionProofs` proves every safety property of the client's session.
`PathsShareSession` holds although `paths` and `sessionID` are written under
different locks because the list is empty from the moment `rejoinAll` clears it
until the new paths are installed (`RejoinHoldsNoPath`), so the id changes only
when no path could disagree, and what a `reconnectPath` has compared stays true
as long as its path is listed (`CheckedAgree`). Unless a path was replaced after
the snapshot (`overtaken`), an open socket is in the list (`OpenIsOwned`);
then nothing is sent while a new session is sought, the session that is found has
carried nothing (`NewSessionIsUnsent`, which needs that every session
anybody knows of was made for an identity the client has had: `SessionsExist`),
and `dataSeq` counts what it carries (`NumbersCounted`).

`WaitBoundedPerGap` is proved from an account (`WaitTimed`): what a packet has
waited is paid for with one deadline for each number given up or delivered since
its push, and the age of the head gap.

`SchedulerProofs` proves both bounds of the scheduler. Its first part proves by
induction over the subsets of a finite set (`SubsetInduction`, from the least
number principle) that the recursive definition behind `SumFunctionOnSet` has a
solution and what sums obey: any term first, splitting, adding, ordering. The bound
on one link's credit is not inductive; a bound on every set of k of the n links
is: together they owe or own at most `FullTotal * k * (2n - k - 1) / 2`
(`SubsetsBounded`). A link that is charged had the highest credit, so at least
the average of any healthy links beside it, and the room of a set is concave in
k by just what one call adds (`RoomAbove`, `RoomBelow`). For k = 1 this is
`MostCredit`. The two properties are accounts against credit: the watched link has
gained its weight in each call it waited (`WaitPaid`), and what it was served
beyond its share it owes (`SharesPaid`). The closer bound
`FullTotal * n / 2` holds for the weights of the run and is false in general: of
three links of weights 1, 1 and 7 that come and go, one owes 14/9 of `FullTotal`.

Each inductive invariant, type invariant included, was checked by TLC on the runs'
instances before it was proved. The runs leave type invariants to the
proofs (`TypeCorrect` of each module), except the limiter's, which says that no
window counts beyond its maximum.

The assumptions are those the modules declare: a window of at least one bit,
sequence numbers from 1 (ParseData refuses 0), positive limits, a health timeout
not above the path timeout (`TimeoutAssumption`), an interface for each of a
client's local addresses, one client for each tunnel address
(`AddressAssumption`), configured clients whose addresses differ from each other
and from the relay's, and which no enrolled device is named after
(`StaticAssumption`), path ids are numbers (`PathIdAssumption`), a client
has an identity to start with (`PoolsAssumption`), a window admits at least one
request and lasts at least a tick (`RateAssumption`), time and waits are numbers
(`ClockAssumption`), and the values for "nothing"
(`None`, `Idle`, `Hello`, `Failed`) name nothing else: no record, index or state of the program is
equal to them. The bounds of a model on ids, keys, sessions and identities are
parameters of the theorems too: they hold however large the bounds are.

Only model-checked: liveness (`HeldEventuallyReleased`,
`SilentSessionsExpire`, `RevokedClientsLeave`, `RecoversItsSession`,
`StopsCompletely`, `StoppingEnds`), which the prover cannot state with fairness.
Every safety property of a passing run is proved.

## Plan

`Tunnel` remains: `ClientSession` joined with the reorder buffers of both
sides, to say what a packet of an old session does to the buffer of a new one.

## Not modelled

The wire format and cryptography (pure functions whose
properties are those of HMAC and AES-GCM), configuration parsing (a
file read once), metrics export and the dashboard, the packets of the TUN
device, socket binding and logging (OS calls without state of their own), the
Windows commands of `netconfig.go`, the enrollment client (one request, and a
file put in place by one atomic rename or link).
