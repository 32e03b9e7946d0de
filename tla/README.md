# Ket, in TLA+

Ket is a private-access server (`ket-server`) with agents beside its engines, a
client core used by a desktop and an Android app (`ket-client-core`), a
privileged service that runs full-route tunnels for the desktop app
(`ket-tunnel-service`), and a share that lets nearby devices use the connection
(`ket-share`).  This directory models the parts where several actors share
state, or where two programs must agree on a rule each of them states for
itself.  TLC checks the models on small instances; TLAPS proves the central
properties for every value of the constants.

`PROJECT.json` is the index: the components, the runs, the source lines behind
every definition, the hazards at the line where they bite, the finding and the
theorems.

## The system and its parts

```
 desktop app                                   ket-server
 -----------                                   ----------
 desktop session, commands                     invites, update policy, configuration
   |                                             |
 client state machine --- control API -------> session handlers ---> access service --> state file
   |        \                                    |   ^   ^              ^      ^
   |         sealed control channel --> sealed gateway   |              |      |
   |                                             v       |           reaper  meter
   |                                         data-plane controls: Hysteria, Xray, Shadowsocks,
   |                                                      WireGuard (agent), OpenVPN (agent)
   v
 broker client --- local socket ---> tunnel service: Connect / Stop / Heartbeat, reaper
   |                                    |
   v                                    v
 share for nearby devices            adapters, bridge and supervisor ---> resolver, leak guard, routes
```

| part | source (`src/crates/` unless noted) | modules |
|---|---|---|
| access service, state file, grant administration, allowance | `ket-server/src/service.rs`, `repository.rs`, `grant_admin.rs`, `allowance.rs` | `LeaseTable`, `AccessService`; promise: `LeaseSpec` |
| session handlers, startup reconciliation | `ket-server/src/api/mod.rs`, `main.rs` | `SessionApi` over `DataPlane` |
| data-plane controls, agents, meter | `ket-server/src/data_plane.rs`, `xray.rs`, `shadowsocks.rs`, `wireguard_agent.rs`, `openvpn_agent.rs`, `meter.rs` | `Engines`; promise: `DataPlane` |
| sealed gateway, the app's sealed channel | `ket-server/src/api/sealed.rs`, `ket-client-core/src/sealed_control.rs` | `SealedGateway`, `SealedControl` |
| tunnel service | `ket-tunnel-service/src/lib.rs` | `TunnelBroker` |
| adapters, bridge, supervisor, resolver, leak guard, route keeper | `ket-client-core/src/full_route.rs`, `runtime.rs`, `system_dns/`, `leak_guard/`, `route_keeper/` | `FullRoute` |
| client state machine, broker client, desktop session | `ket-client-core/src/client.rs`, `broker.rs`, `src/apps/ket-desktop/src-tauri/src/lib.rs` | `Client` |
| connection sharing | `ket-share/src/`, `ket-client-core/src/share/`, `ket-share-android/src/` | `ShareRules`, `Sharing` |
| server configuration, manifests, adapters' configurations | `ket-server/src/config.rs`, `ket-client-core/src/validation.rs` and its adapters | `ServerConfig`, `Adapters`, `Transports` |
| session API, update policy, invites | `ket-client-core/src/api.rs`, `ket-update/src/`, `invite-capsule/src/`, `ket-invite/src/` | `Releases`, `Invites`, `ControlApi` |

A module named `MC...` instantiates a specification for TLC; a module named
`...Proofs` holds theorems.  A definition introduced as a *mutation* is a
plausible mistake in the definition it precedes.  No specification uses it; it
shows that the property named with it in `PROJECT.json` notices the mistake.

### LeaseTable, AccessService, LeaseSpec

`LeaseTable` is `PersistedState` and the pure operations on it: a table is a set
of grants and a set of session leases, each lease with its resource slot, and
there is an operator per mutation (`Admit`, `Apply`, `RecordUsage`, ...) and
`Validate`, which the store runs on every table.

`AccessService` is the process around it.  `task[p]` says where handler,
reaper or meter `p` is: *idle*; *queued* for the mutex with what it read before
(the clock, a copy of the grant or of the session); or *storing* the next
table.  `StoreDone` makes the next table the one in memory and on disk,
`StoreFailed` discards it.  A request dropped while it stores frees the mutex
and leaves its write in `orphans`; a write that runs beside one of those shares
its temporary file (`tangled`), and the file may then be `Unreadable`.  `Crash`
and `Restart` keep only the disk.  Identifiers are drawn once, as the random
ones of the code are.

`LeaseSpec` is the promise: one table, one operation at a time.
`ImplementsLeaseSpec` maps its table to the one in memory while the server is
up, and to the one on disk while it is down.

### DataPlane, SessionApi, Engines

`DataPlane` says what each engine holds after a provision, kick or reconcile
call, whole or cut short: Hysteria and OpenVPN ask Ket at sign-in, Xray has a
user per session, Shadowsocks a key per port, and WireGuard a peer per session
whose address moves to the peer that was given it last.

`SessionApi` composes the handlers with the engines in the order
`CompositeControl` uses, one engine call per step; a change in the access
service is one step here (`ImplementsLeaseSpec` is why it may be).  Calls fail,
requests are dropped, the server restarts and reconciles, and a server whose
attempts are used up ends and is started again.  `missed` and
`crossed` are history variables: a kick that failed or was never made, and a
session whose slot an engine touched for the slot's previous owner.  They name
the ways in which the code does not do all it means to, so that the invariants
say exactly what remains true.

`Engines` opens one of those calls up, command by command, for each of the five
engines: two calls interleave, a command fails with or without its effect, a
call is dropped or outlives its caller, agents and server restart, and the meter
reads counters beside them.  `CallsRefineDataPlane` is the link between the two
levels: what a call that ends has left is what `DataPlane` says.

### SealedGateway, SealedControl

A handler opens a request and checks its time (`Open`), then takes the replay
window's lock and either dispatches or refuses (`Dispatch`); any time may pass
between the two.  The network delivers any request that was sent, any number of
times.  `lost` is a history variable: the requests that left the window while
they could still be dispatched, because of a restart, of the capacity, or of
another handler with a later clock.  `SealedControl` adds the app,
whose clock is off by a constant, and its one corrected retry.

### TunnelBroker and FullRoute

In `TunnelBroker`, connections, the reaper and the main task take the operation
mutex (`Lock`) and then do what `handle`, `reap_expired` and `stop_all` do.  A
tunnel's `engine` goes from *starting* to *running*, through *closing* (told to
stop) or *exiting* (a process ended) to *stopped* or *failed*.  `DropCommand` is
`COMMAND_TIMEOUT`: it frees the mutex and drops the handles the command held.
`TakeResolver`, `LetGo` and `Start` write the resolver and its state file;
`Crash` may fall between truncating and writing the file.

`FullRoute` is the inside of such a tunnel: the five adapters start an engine, a
carrier and the bridge, and change the host on the way (configuration files,
resolver, leak guard, routes).  A way of ending is a sequence of releases in the
order the code awaits and drops things, performed one at a time by `WindDown`,
so that a tunnel going down interleaves with its route keeper's timer, a network
that comes or goes, and the tunnel that follows it.  `leaves` names what a
tunnel could not give back: a resolver or a route whose last removal failed, and
routes that a late refresh installed after the keeper had removed its own.
A tunnel begins when the last one has ended: `TunnelBroker` is where a dropped
`Stop` lets the next one begin beside the end of the last.

### Client

`task[p]` is what a command of the user or the maintenance task is doing; `lock`
and `queue` are `KetClient::operation`, `rt` is `RuntimeState`, `phase` the phase
of the snapshot, `desk` the desktop's session around the client, `tun` each
tunnel with its handle and monitor.  A step of an operation reaches from one
answer it waits for to the next, with the mutex held.  Beside it run the
cancellation that `stop_tunnel` and `disconnect` send before they ask for the
mutex, the monitors, the engines, the clock and the control server.  `excused`
are the leases whose fate the client could not know (a lost answer, a crash).

### ShareRules, Sharing

`ShareRules` holds the decisions about one connection as operators: the SOCKS5
and HTTP handshakes, sign-in, the address policy, what a resolver's reply says,
which networks can be shared on.  `Sharing` is the server around them: the
accept loop, one task per connection, the sign-in limiter, lookups and dials
through tunnels that come and go, the network watcher, the desktop's controller
and Android's registry.

### ServerConfig, Adapters, Transports

Two programs that state one contract separately.  `ServerConfig` is what
`config.rs` accepts and offers, `Adapters` is what the client checks and writes
for its local engines, `Transports` is the life of two sessions between them:
enrolment, the manifest and its configurations, statuses, release, and the kicks
that follow it engine by engine, any of which may fail or come after the slot
went to the next session (`missed`, `struck`).  Ends of leases are compared with
the client's own clock.

### Releases, Invites, ControlApi

`Releases` and `Invites` are pure rules.  `ControlApi` puts one app and one node
on top of them while days pass, the operator upgrades, reconfigures and rolls
back the node, and the person restarts or updates the app.  A handler is one
step here; its interleavings are the subject of `SessionApi`.

## What the runs check

| run | question | distinct states |
|---|---|---|
| `access_service` | With two operations in flight, failed stores, crashes and restarts: is every session one its grant entitles to (slots, limits, pauses, protocols, allowances, against stale copies), does the disk agree with the memory, and is the whole the atomic table of `LeaseSpec`? | 2,329,624 |
| `access_dropped` | With a request dropped during its store: does nothing that ended come back in the running server? | 1,221,754 |
| `session_api` | Do engines hold only what a lease, a kick to come or a known miss explains; does a client that has its manifest keep its access; do leftovers go in the end, and does the server become ready? | 204,492 |
| `engines` | Does each control do what `DataPlane` says, command by command; are clients fenced off whenever the host forwards for them; is no byte charged twice; does Xray's user file go? | 1,921,391 |
| `sealed_control` | Is a request dispatched again only after the window lost it, only an answered one refused as a repetition, and the corrected retry in time? | 510,699 |
| `tunnel_broker` | One managed tunnel at a time, lookups inside it, the host's resolver never lost and given back; is every command answered and every orphaned tunnel stopped? | 163,040 |
| `client` | Is what the app shows what it has; does a stopped tunnel stay stopped; does `stop_tunnel` return; do stray engines go and lost tunnels get replaced? | 213,806 |
| `full_route` | On four kinds of host: is a bridge guarded while it runs, a connected tunnel protected, an end published last, and in the end the host's resolver and routing table as they were? | 124,696 |
| `transports` | Does the client accept every offer of a server that started, does a configuration open the server's engine while its session is held and no longer once it was kicked, and are sessions apart? | 348,430 |
| `sharing` | Are the counters true, is at most one share on, is only the public Internet dialled and only through a tunnel, are guesses bounded, and does a stopped share close? | 326,779 |
| `control_api` | Is update advice kept, does the update it asks for end it, does the forecast hold, does only lost access end a session, does an invite lead home, are days counted right? | 139,484 |
| `counted_twice` | A sentence of the documentation, refuted (below). | - |

### Where documentation and code disagree

`counted_twice` ends in a counterexample.  Shadowsocks counts per port and
WireGuard per address, and a reading is matched with the leases of the moment it
is taken (`meter.rs:62`).  A slot that changed hands since the counter began
gives the new session's grant the bytes the last one moved, which were charged
there already.  `meter.rs:10` says "Ket therefore never counts a byte twice",
`docs/FAIRNESS.md:23` "Nothing is ever counted twice".  `CountedOnce`, in the run
`engines`, is what does hold: a session is charged at most what the sessions of
its slot moved together.

Other sentences hold only with the exceptions that the properties name.  These
were met while modelling and have no run of their own:

- `docs/CONTROL_API.md:128`, `max_connections` "limits concurrent sessions":
  `renew_session` authenticates before it takes the mutex (`service.rs:643`).  A
  lease that expires in between, and whose place another device takes, is
  renewed all the same; `LeasesFit` therefore does not bound the leases of a
  grant by its limit.
- `docs/ARCHITECTURE.md:41`, "serialized and persisted before becoming visible":
  the write of a dropped request can reach the file after, or mixed with, that
  of a later mutation (`repository.rs:58`).  `DiskMatchesMemory` and the
  refinement are stated without dropped requests; `EndedStaysEnded` is not.
- `docs/ARCHITECTURE.md:29`, release and revocation "remove or kick the session
  in every configured data plane": a revocation between an enrolment's commit
  and its provisioning kicks first (`api/mod.rs:281`).  `StrayIsAccountedFor`
  counts such a session as *missed*.
- `docs/WIREGUARD_TLS.md:11`, startup "replaces stale kernel peer state": a stale
  peer at an address that is in use again stays (`wireguard_agent.rs:180`),
  without its address.
- `docs/TUNNEL_SERVICE.md:14`, "recover stale state after broker crashes": a
  crash between truncating and writing the resolver file leaves contents that
  the recovery takes for somebody else's (`system_dns/mod.rs:259`).
  `ResolverIsSafe` excepts the torn write.
- `docs/CLIENT_CORE.md:12`, reconnect intent survives until an established route
  is lost: a second `connect` that fails early, while a tunnel runs, clears it
  (`client.rs:271`).  `LostTunnelIsReplaced` speaks of wanted tunnels only.
- `docs/OPENVPN_STUNNEL.md:52` and `:35`, `docs/HYSTERIA2.md:25`: the server starts
  with an OpenVPN name other than its endpoint's, with key material at exactly the
  limit, and with an obfuscation password beyond 4096 characters, which its
  clients refuse.  `OffersAreUsable` names these three as `OddName`,
  `OddMaterial` and `OddPassword`.  It excepts two cases no document speaks of:
  a client whose clock is past the end of the lease (`validation.rs:24`), and a
  machine that reports no memory, which `system.rs:57` passes on and
  `validation.rs:184` refuses.
- `docs/INVITE_CAPSULE.md:159`, the node "answers a request it has already answered
  with `409 request_replayed`": it does while it remembers the request, and its
  memory ends with a restart, at its capacity and after twice the clock skew, when
  a repetition is too old anyhow.  But a handler compares the clock before it locks the
  window (`sealed.rs:61`).  If a second passes in between and another handler
  with the later clock purges the entry, the first one dispatches the request
  again; `AnsweredOnce` allows that, once for each such loss.
- `route_keeper/mod.rs:6`, "removes what it installed when dropped, so every way a
  tunnel ends cleans up": a refresh that was under way at the drop installs its
  routes afterwards (`route_keeper/mod.rs:150`).  `EveryEndCleansUp` excepts an
  end that met one.
- `docs/SHARING.md:26` and `policy.rs:62`, stand-in addresses are reachable "only
  when they come from that resolver": `allowed` sees that a lookup found the
  address, not which tunnel's resolver gave it.  On the desktop a stand-in may be
  found by, or dialled into, OpenVPN's tunnel, which has no stand-ins.
  `OnlyTheInternet` excepts this case; on Android there is none.
- `docs/UPDATES.md:53`, on a `426` "the app ... shows where to get the update": a
  download address that `validate_download_url` accepts may pass 2048 characters
  once it is normalised; the client's `sanitize_update` (`api.rs:525`) then drops
  it, and with it the answer's meaning that an update is required.

### Bounds

Every bound is a named constant.  They are chosen so that the cases the
properties are about occur, which the mutants confirm: each property is violated
on the same instance when the code has a plausible mistake.

- Access service: two session ids and two slots (a lease can be replaced by
  another), one grant, two protocol sets, times 0 to 2 with a lease of 2 and a
  period of 2 (a lease expires, a period turns), two operations in flight (every
  race in the code is between a request with a stale copy and one other).
  `access_dropped` has shorter times and fewer changes in exchange for a dropped
  request.
- Session API: two sessions that take the one slot in turn, two failed calls, one
  cut (a dropped request or a restart), two attempts of the reconciliation (20 in
  the code), so that the server gives up, is started again and succeeds, and two
  installations, so that every way of holding a session occurs: asked at sign-in,
  told of it, given an address.
- Engines: two sessions that share a slot one after the other and a third with
  its own, two calls at once, two faults or restarts, agents that take two peers
  a request.
- Sealed channel: two requests, two handlers, a window of one (so it overflows),
  `Skew = 2` and `Window = 4` as in the code (`2 * Skew`), six seconds (an entry
  ages out), no bound on how long a handler waits, a clock off by -3, 0,
  2 or 3 (in time, in time at the edge, refused until corrected).
- Broker: two tunnels, so that one is asked for while the other ends; a
  connection, the reaper and the main task compete for the mutex; a lease of two
  ticks, one dropped command, one failed restoration, one torn write.
- Client: a command and the maintenance task, a lease and a tunnel that can be
  had again after they are lost, two attempts per connect, one fault.
- Full route: four hosts, all five adapters, two networks (one with a gateway and
  both address families), a bypassed printer that is on-link at home only, one
  change of network, one failing call.
- Transports: an environment with everything enabled, each setting taken through
  its boundary values, those checked together varied together; two sessions, one
  failed kick.  The environment with everything enabled and the ones at the
  capacity also vary the grant's protocols and allowance, the readings of the
  machine and the client's clock; the others take one of each.
- Sharing: five worlds, one per question (what may be asked on either platform,
  guessing, and the lives of shares on either), so that one question's inputs do
  not multiply another's states.  The limits are small and keep their order.
- Control API: four releases with overlapping grace periods around the end of
  February 2100, twelve worlds of node, app and invite, two sessions, one fault.

Symmetry is used in safety runs only.  Deadlock checking is off where the bounded
supply of ids, faults, changes or time lets a system come to rest.

### Fairness

- `SessionApi`: weak fairness of the next engine call of a request that has begun
  (tokio polls it; the clients of the engines have timeouts), of the startup loop,
  of an engine acting on an answer, and of the restart of a server that gave up
  (`restart: unless-stopped`, `compose.yaml:9`).  Requests, failures and other
  restarts are not fair.
- `TunnelBroker`: strong fairness of taking the mutex (tokio's mutex is first
  come, first served), weak fairness of a command that has it, of clean-up (the
  supervisors kill what does not end), of the reaper's interval and of time.  No
  fairness of requests, heartbeats, exits, or of a service that is down.
- `Client`: weak fairness of a task under way (every call has a timeout), of a
  monitor that notices a dead engine and of the service's reaper; strong fairness
  of the maintenance task's tick and shutdown signal and of a monitor's command,
  because tokio's `select!` picks among ready branches at random.
- `FullRoute`: weak fairness of connecting, supervising and winding down, taken
  together (one task), and of a refresh whose keeper is gone (a blocking task that
  has begun finishes).
- `Sharing`: weak fairness of a stopped share's wake-ups and of the ends of its
  tasks.

## What is proved

The theorems hold for all numbers of handlers, grants, sessions, slots, engines,
tunnels, connections, devices and shares, all times, and any number of faults,
under the assumptions named in the modules: the processes are distinct, durations
and capacities are positive, and those mentioned below.  None of the invariants is
inductive alone; what each needs besides is the argument.

**Access service** (`AccessServiceProofs`).  A table that is being stored, or was
left by a dropped request, becomes current later.  `ServiceInv` therefore says of
*every* table there is (in memory, on disk, being stored, orphaned) that it is
`Sound`, and that the tables in memory and on disk pass `Validate`.  The first part
of the module shows what each operation of `LeaseTable` preserves of a table; the
step proof then has one case per action.  From it follow `TypesHold`,
`LeasesAlwaysFit`, `PauseHolds`, `ProtocolsHold`, `AllowanceHolds` and from these
`EntitlementHolds`; `DiskAgrees`; `RejectedIsStale`.  `Refinement` adds `MutexInv`
(at most one process stores, it holds the mutex, and what it stores is an
operation on the current table) and shows `Spec => ImplementsLeaseSpec` when
`MaxCancels = 0`; `EndedIsForGood` holds with dropped requests too.

**Session handlers** (`SessionApiProofs`).  The first part of the module
holds the invariants and what each kind of step does to types, to the sessions
that are known and to an engine (`ProvisionEffect`, `KickEffect`: the whole calls
and the half-done ones).  `AccessInv` says besides `AcceptedKeepsAccess` that an
identifier is given out once and with one slot (`GivenOnce`), that a kick is for
leases that are gone and an enrolment for a client without a manifest
(`TasksApart`), that leases of before a start are among those it reconciles, and
how far an enrolment and a reconciliation have got (`ServedSoFar`): access that is
promised at the end of the engines must already hold at those behind.
`AccessAlwaysServed` follows.  `StraysAlwaysAccountedFor` needs `StrayInv` as well:
leases have their slots to themselves, and what a reconciliation passes over
(everything at Hysteria, a WireGuard peer at an address that is wanted) is
answered for already while it runs (`EscapedIsAnswered`).

**Sealed channel** (`SealedControlProofs`).  `GatewayInv`: an entry that ages out
of the window was entered at most `Skew` seconds before the time inside its
request, and the window is at least `2 * Skew`, so by then the request is too old
for every handler that has yet to compare the clock; one that compared it already
and waits beside the window (`WaitingBeside`) is the case `lost` records.  How long
a handler waits is not bounded.  `DispatchedOnce`, `AppDispatchedOnce` and
`RefusalAlwaysJust` follow.  `RetryPasses` needs
`2 * MaxDelay <= Skew` (15 and 300 seconds in the code) and a drift that is
constant during an exchange.  `AppUsesGateway` shows that the composition refines
the gateway, which carries its theorems over to the app.

**Tunnel service** (`TunnelBrokerProofs`).  The invariant joins who holds the mutex
(`MutexInv`), what each command in progress is about (`JobInv`), that a tunnel that
starts belongs to the `Connect` that awaits it (`StartInv`), what is left when the
service is down (`DownInv`), and how the holders of the resolver, its contents and
the saved copy fit together.  Each has a lemma that an arbitrary step preserves it,
assuming those before it.  From it follow `TunnelAlwaysManaged` and
`ResolverAlwaysSafe`.

**Client** (`ClientProofs`, `ClientStepProofs`).  What is shown and held must be
right when the mutex is *free*, so the invariant `ClientInv` says what its holder
relies on at each point until it lets go: `Fits(task, rt, phase, desk, leases,
excused)`, with the cases in which an operation may still return without showing
anything (`Silent`, `SilentStop`) kept apart, since these must find a phase that
may stand.  To it belong that each waiting task is in the queue once (`QueueInv`),
that a tunnel or an intent implies a session (`RuntimeInv`), that one command at a
time changes the desktop's session and only once the maintenance task is gone
(`DeskInv`), and what a successful stop excludes (`StoppedInv`).  A step of the
holder is a *turn*; `TurnKeeps` says once which parts a turn must leave in order,
and each action is shown to be such a turn.  `ClientProofs` has these shared
facts, the requests, the desktop's steps and what runs beside the operations;
`ClientStepProofs` the turns and the grants of the mutex, and the theorems
`ClientAlwaysConsistent` and `StoppedAlwaysStaysStopped`.

**Sharing** (`SharingProofs`).  `ShareInv` is two invariants that different steps
disturb.  `CountsInv`: every task is at a stage with the fields it has there, and
each share's counters are the sizes of its sets of tasks.  A step changes one task
and at most one share, and lemmas about sets that differ in one element turn that
into a difference of one or none in each counter.  `HeldInv`: on the desktop only
the controller's share is on, and a command that holds the controller's lock has
taken it out first, so that a disconnect under way has stopped what it found.
`SharesAlwaysTrue` follows.

**Update advice, sessions and invites** (`ControlApiProofs`).  For every release
history that `valid_manifest` accepts, every world whose builds are in the history,
and any number of days, sessions and changes.  The first part says what the
operators of `Releases` give: the most urgent rating, the first deadline, and what
`evaluate` makes of them, a release at a time.  `ControlInv` then says that the
builds are released ones, that what was `said` is what `evaluate` gives for the
day it was said and the builds and settings there still are, and that while
the server has the session, an answer about it reads as unknown only where the
node could not open a sealed request.  From it follow
`AdviceAlwaysKept`, `UpdateAlwaysEndsRefusal`, `ForecastAlwaysHolds` and
`OnlyLostAccessAlwaysEnds`.  `SealedInv` says that a profile made by an invite
always leads to an endpoint with a key and required sealing; `InvitedAlwaysStaysSealed`
follows, which is half of `InviteIsKept`.

### What is only model-checked

- Liveness (`StrayGoes`, `BecomesReady`, `BrokerGoesOn`, `StopReturns`,
  `StrayEngineGoes`, `LostTunnelIsReplaced`, `EveryEndCleansUp`,
  `StoppedShareCloses`): it rests on fairness, which the prover does not reason
  about.
- `OnlyTheInternet` and `GuessesAreBounded`: they speak of what `SelectSeq` keeps
  of a list of addresses or tries, which needs induction over the list.
- `FullRoute`: its routes are planned, applied and released by folds over
  sequences.
- `Engines`: a call is a list of commands and what it leaves is what the rest of
  the list does, again an induction over a list; the sums of `CountedOnce` are
  folds over a set.
- `Transports`: decisions over many fields of concrete documents.  What can go
  wrong lies in the values, and the runs take these through their boundaries; a
  proof would restate the checks.
- `DatesAreCounted` and the other half of `InviteIsKept` (an invite leads home):
  the one is an induction over days, the other compares two sides' folds over the
  labels and locators of an address.

## What is left out of the models

- Cryptography, tokens and their checks: a request that authenticates is one that
  names its session or grant, a signature fits its payload or does not.  Admin
  authentication is assumed to succeed.
- Byte counts below the allowance: in `AccessService` a grant's allowance is spent
  or not.  Counted bytes that a crash loses are accepted by the code (`meter.rs`).
- The clock of the server does not go backwards in a run.
- What a call to an engine that timed out does later: in `SessionApi` it ends where
  it failed, in `Engines` the rest of it goes on beside the next calls, and a call
  that overlaps such a rest is compared with what both may leave.
- Writing the resolver file in place: a crash may tear it (`TunnelBroker`); a write
  that fails after it truncated the file, without a crash, is taken to leave it as
  it was.
- `NETWORK_SETTLE_TIME`: `Client!NetworkTick` is the moment after it.  `kill_on_drop`
  ends a process in the step that drops it.  In `Engines` the grants'
  allowances are set before the meter starts, so `counted_since` (`meter.rs:69`)
  decides nothing there.
- Time limits: a dropped request, a dropped command or a timeout may happen at any
  await it bounds, which includes the moments at which the limit really passes.
- Framing, HTTP, JSON, CBOR, Base64, netlink and the engines' own protocols, down
  to the fields and commands the code reads.  Broker authentication, its
  connection limit, Ping and Probe, which do not touch the tunnels.
- The ranking of transports and its memory: `Client` leaves the order of attempts
  open, so what is shown holds for every ranking.
- The Android app apart from its sharing registry, user interfaces, QR codes, the
  activity log, metrics, rate limits, installation and packaging.
