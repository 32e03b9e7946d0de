----------------------------- MODULE FullRoute -----------------------------
(***************************************************************************)
(* One full-route tunnel after another on a desktop, call by call: the     *)
(* transport adapters of ket-client-core (hysteria.rs, xray.rs,            *)
(* shadowsocks.rs, wireguard.rs, openvpn.rs) start an engine, a carrier    *)
(* and the tun2proxy bridge, the supervisor of full_route.rs watches them, *)
(* and on the way the host is changed and given back: private              *)
(* configuration files (runtime.rs), the resolver (system_dns), the leak   *)
(* guard's filters (leak_guard) and the routes that keep the server and    *)
(* the user's bypass list outside the tunnel (route_keeper).               *)
(*                                                                         *)
(* A way of ending is a sequence of releases, in the order the code awaits *)
(* and drops things; WindDown performs them one at a time, so a tunnel     *)
(* that is going down interleaves with its route keeper's timer, with the  *)
(* network and with the tunnel that follows it.                            *)
(***************************************************************************)
EXTENDS Integers, FiniteSets, SequencesExt

CONSTANTS
  Tunnels,      \* bound: how many tunnels are started, one after another
  Hosts,        \* the platforms considered: a subset of Host
  Adapters,     \* the adapters each of the tunnels may be asked for there
  Network,      \* physical networks, each with a default route
  Metric,       \* the metric of each network's default route
  Gateway,      \* the networks whose default route has a gateway
  Carries,      \* the address families each network carries
  FamilyOf,     \* the address family of each destination
  Servers,      \* the server's addresses, as destinations, in order
  Bypass,       \* the user's bypass list, in order
  OnLink,       \* the destinations inside each network's own prefix
  MaxMoves,     \* bound: networks that come or go
  MaxFaults     \* bound: operating-system calls that fail

Adapter == {"hysteria", "xray", "shadowsocks", "wireguard", "openvpn"}

(* What decides where lookups go: /etc/resolv.conf, systemd-resolved that  *)
(* owns that file, resolved beside a plain file, or Windows' filters.      *)
Host == {"file", "owned", "beside", "windows"}

Carried == {"wireguard", "openvpn"}
Bridged == Adapter \ {"openvpn"}
Tunnel == 1..Tunnels

(* destinations: the servers as host routes, then the bypass list, once. *)
Destinations == Servers \o SelectSeq(Bypass, LAMBDA b : ~Contains(Servers, b))
Dest == Range(Destinations)

Tun == "tun"                  \* TUNNEL_INTERFACE
Unreachable == "unreachable"
NoRoute == "none"
Path == Network \cup {Tun, Unreachable}

ASSUME FullRouteAssumption ==
  /\ Tunnels \in Nat \ {0} /\ Hosts \subseteq Host
  /\ Adapters \in [Hosts -> [1..Tunnels -> SUBSET Adapter]]
  /\ Network \cap {Tun, Unreachable, NoRoute} = {}
  /\ Metric \in [Network -> Nat \ {0}] /\ Gateway \subseteq Network
  /\ Carries \in [Network -> SUBSET {4, 6}] /\ FamilyOf \in [Dest -> {4, 6}]
  /\ OnLink \in [Network -> SUBSET Dest]
  /\ MaxMoves \in Nat /\ MaxFaults \in Nat

VARIABLES
  host,     \* the platform
  up,       \* networks that are up
  table,    \* Ket's routes in the system's routing table
  dns,      \* /etc/resolv.conf and the file its original is saved in
  t,        \* the tunnels
  moves, faults

vars == <<host, up, table, dns, t, moves, faults>>

(***************************************************************************)
(* State.  A RouteKeeper's state outlives it while its timer task runs.    *)
(* dialled is the network a carrier's connection was made on; leaves is    *)
(* what a tunnel's releases had to leave on the host: the resolver or a    *)
(* route that could not be given back, or a late refresh's routes.         *)
(***************************************************************************)
NoReport == [generation |-> 0, offline |-> FALSE]
NoPath == [d \in Dest |-> NoRoute]

Fresh ==
  [adapter |-> "none", step |-> 0, todo |-> << >>, status |-> "none",
   files |-> FALSE, engine |-> "none", carrier |-> "none", dialled |-> NoRoute,
   bridge |-> "none", iface |-> FALSE, lease |-> "none", link |-> FALSE,
   unrestored |-> FALSE, leaves |-> {}, guard |-> "none",
   keeper |-> FALSE, applied |-> NoPath, report |-> NoReport, timer |-> "off",
   heard |-> NoReport, seen |-> 0, command |-> FALSE]

Alive(p) == p \in {"starting", "listening", "connected"}
Over == {"refused", "stopped", "failed"}

Init ==
  /\ host \in Hosts
  /\ up = Network
  /\ table = NoPath
  /\ dns = [content |-> "host", saved |-> FALSE]
  /\ t = [i \in Tunnel |-> Fresh]
  /\ moves = 0 /\ faults = 0

Set(i, r) == t' = [t EXCEPT ![i] = r]
Fault == faults < MaxFaults /\ faults' = faults + 1
Fine == UNCHANGED faults

(***************************************************************************)
(* The route keeper.                                                       *)
(***************************************************************************)
(* The system's routing table: each network's default route and its own    *)
(* prefix, the default route of a bridge that is up, and Ket's routes.     *)
KetMetric == 23                                         \* ROUTE_METRIC

Row(family, to, via, hop, reject, metric) ==
  [family |-> family, to |-> to, via |-> via, hop |-> hop, reject |-> reject, metric |-> metric]

KetRow(d) ==
  Row(FamilyOf[d], d, table[d], table[d] \in Gateway, table[d] = Unreachable, KetMetric)

Rows ==
  UNION {{Row(f, "all", n, n \in Gateway, FALSE, Metric[n]) : f \in Carries[n]} : n \in up}
  \cup UNION {{Row(FamilyOf[d], d, n, FALSE, FALSE, Metric[n]) : d \in OnLink[n]} : n \in up}
  \cup {KetRow(d) : d \in {e \in Dest : table[e] # NoRoute}}
  \cup (IF \E i \in Tunnel : t[i].iface THEN {Row(f, "all", Tun, FALSE, FALSE, 0) : f \in {4, 6}}
        ELSE {})

ParseIpv4Routes(rows) == {r \in rows : r.family = 4 /\ r.to = "all" /\ ~r.reject}
ParseIpv6Routes(rows) == {r \in rows : r.family = 6 /\ r.to = "all" /\ ~r.reject}
ParseIpv4OnLink(rows) ==
  {r \in rows : r.family = 4 /\ r.to # "all" /\ ~r.hop /\ ~r.reject /\ r.metric # KetMetric}
ParseIpv6OnLink(rows) ==
  {r \in rows : r.family = 6 /\ r.to # "all" /\ ~r.hop /\ ~r.reject /\ r.metric # KetMetric}
WindowsDefaultRoutes(rows) == {r \in rows : r.to = "all"}
WindowsOnLink(rows) ==
  {r \in rows : r.to # "all" /\ ~r.hop /\ r.metric # KetMetric /\ r.via # Unreachable}

DefaultRoutes ==
  IF host = "windows" THEN WindowsDefaultRoutes(Rows)
  ELSE ParseIpv4Routes(Rows) \cup ParseIpv6Routes(Rows)

OnLinkNetworks ==
  IF host = "windows" THEN WindowsOnLink(Rows)
  ELSE ParseIpv4OnLink(Rows) \cup ParseIpv6OnLink(Rows)

Best(routes) ==
  IF routes = {} THEN Unreachable
  ELSE (CHOOSE r \in routes : \A q \in routes : r.metric <= q.metric).via

BestDefault(routes, family) == Best({r \in routes : r.family = family /\ r.via # Tun})

(* plan: where each destination should go, by the current default route,   *)
(* or left to the attached network that holds it, and so what to change.   *)
Desired ==
  LET routes == DefaultRoutes
      attached == {r.to : r \in {q \in OnLinkNetworks : q.via # Tun}}
  IN  [d \in Dest |-> IF d \in attached THEN NoRoute ELSE BestDefault(routes, FamilyOf[d])]

Plan(want, applied) == SelectSeq(Destinations, LAMBDA d : applied[d] # want[d])

(* RouteSystem::apply.  On Linux a route that is not there cannot be       *)
(* deleted; on Windows a route that is there cannot be created, and a      *)
(* replacement deletes the old one first, and may fail after that.         *)
LinuxApplies(want, applied, tab, d) == want[d] # NoRoute \/ tab[d] # NoRoute
WindowsApplies(want, applied, tab, d) == applied[d] # NoRoute \/ tab[d] # want[d]
Applies(want, applied, tab, d) ==
  IF host = "windows" THEN WindowsApplies(want, applied, tab, d)
  ELSE LinuxApplies(want, applied, tab, d)

LeftBy(want, applied, tab, d) ==
  IF host = "windows" /\ applied[d] # NoRoute /\ want[d] # NoRoute THEN {tab[d], NoRoute}
  ELSE {tab[d]}

Follow(want, f, ds) == [d \in Dest |-> IF d \in ds THEN want[d] ELSE f[d]]
Offline(applied) == {applied[d] : d \in Dest} \ {NoRoute} = {Unreachable}

(* KeeperState::refresh: the whole plan is applied and the report follows, *)
(* or its k-th action fails, the earlier ones stay and nothing is          *)
(* reported.                                                               *)
Refreshed(want, applied, tab, report) ==
  LET all == Range(Plan(want, applied))
      after == Follow(want, applied, all)
      moved == \E d \in all : applied[d] # NoRoute
  IN  [ok |-> TRUE, fault |-> FALSE, applied |-> after, table |-> Follow(want, tab, all),
       report |-> [generation |-> report.generation + (IF moved THEN 1 ELSE 0),
                   offline |-> Offline(after)]]

Stopped(want, applied, tab, report, k) ==
  LET done == Range(SubSeq(Plan(want, applied), 1, k - 1))
      d == Plan(want, applied)[k]
  IN  {[ok |-> FALSE, fault |-> Applies(want, applied, tab, d),
        applied |-> Follow(want, applied, done),
        table |-> [Follow(want, tab, done) EXCEPT ![d] = left], report |-> report] :
         left \in LeftBy(want, applied, tab, d)}

Refresh(applied, tab, report) ==
  LET want == Desired
      plan == Plan(want, applied)
      stuck == {k \in DOMAIN plan : ~Applies(want, applied, tab, plan[k])}
      reach == {k \in DOMAIN plan : \A j \in stuck : k <= j}
  IN  UNION {Stopped(want, applied, tab, report, k) : k \in reach}
      \cup (IF stuck = {} THEN {Refreshed(want, applied, tab, report)} ELSE {})

Charge(fault) == IF fault THEN Fault ELSE Fine

(* Mutation: a route without a gateway is not removed. *)
ReleaseGateways(applied, kept) ==
  [d \in Dest |-> IF applied[d] \in Gateway /\ d \notin kept THEN NoRoute ELSE table[d]]

(* release, when a keeper is dropped or could not be engaged: a route that *)
(* cannot be removed, one of kept, is left behind.                         *)
Release(applied, kept) ==
  [d \in Dest |-> IF applied[d] # NoRoute /\ d \notin kept THEN NoRoute ELSE table[d]]

Leaves(r, what, left) == [r EXCEPT !.leaves = IF left THEN @ \cup {what} ELSE @]

(* The keeper's timer: past the tick, the task takes the lock and          *)
(* refreshes, whether or not the keeper was dropped meanwhile; aborting    *)
(* it only takes effect when it waits for the next tick.                   *)
TimerFires(i) ==
  /\ t[i].timer = "sleep"
  /\ Set(i, [t[i] EXCEPT !.timer = "fired"])
  /\ UNCHANGED <<host, up, table, dns, moves, faults>>

TimerRefreshes(i) ==
  /\ t[i].timer = "fired"
  /\ \E o \in Refresh(t[i].applied, table, t[i].report) :
       /\ Charge(o.fault)
       /\ table' = o.table
       /\ Set(i, IF t[i].keeper
                    THEN [t[i] EXCEPT !.timer = "sleep", !.applied = o.applied, !.report = o.report]
                    ELSE Leaves([t[i] EXCEPT !.timer = "off"], "late", o.applied # NoPath))
  /\ UNCHANGED <<host, up, dns, moves>>

(* A network comes, or goes and takes the routes through it along. *)
NetworkChanges(n) ==
  /\ moves < MaxMoves /\ moves' = moves + 1
  /\ \/ n \notin up /\ up' = up \cup {n} /\ UNCHANGED table
     \/ /\ n \in up /\ up' = up \ {n}
        /\ table' = [d \in Dest |-> IF table[d] = n THEN NoRoute ELSE table[d]]
  /\ UNCHANGED <<host, dns, t, faults>>

(***************************************************************************)
(* The leak guard on Windows: the highest weight that matches decides.     *)
(***************************************************************************)
Flow == [family : {4, 6}, via : {Tun, "loopback", "other"},
         remote : {"server", "link", "bypass", "any"}, lookup : BOOLEAN]

Rule(family, action, condition, weight) ==
  [family |-> family, action |-> action, condition |-> condition, weight |-> weight]

LocalIpv6Weight == 11

BaseRules ==
  UNION {{Rule(f, "permit", "loopback", 14), Rule(f, "block", "lookup", 12),
          Rule(f, "permit", "server", 13)} : f \in {4, 6}}
  \cup {Rule(6, "permit", p, LocalIpv6Weight) : p \in {"link", "bypass"}}
  \cup {Rule(6, "block", "everything", 10)}

TunnelRules == {Rule(f, "permit", Tun, 15) : f \in {4, 6}}

Matches(r, flow) ==
  /\ r.family = flow.family
  /\ \/ r.condition \in {flow.via, flow.remote, "everything"}
     \/ r.condition = "lookup" /\ flow.lookup

Permits(rules, flow) ==
  LET matching == {r \in rules : Matches(r, flow)}
  IN  \A r \in matching : (\A q \in matching : q.weight <= r.weight) => r.action = "permit"

InForce(guard) == IF guard = "admitted" THEN BaseRules \cup TunnelRules ELSE BaseRules

(***************************************************************************)
(* The resolver: acquire, route_tunnel and restore.                        *)
(***************************************************************************)
Config(a) == IF a = "openvpn" THEN "openvpn" ELSE "virtual"
FileHost == host \in {"file", "beside"}
ResolvedHost == host \in {"owned", "beside"}

Recovered == [content |-> IF dns.saved THEN "host" ELSE dns.content, saved |-> FALSE]

AcquireDns(a) ==
  dns' = IF FileHost THEN [content |-> Config(a), saved |-> TRUE] ELSE dns

(* restore reverts the link first; the file may then fail to be written. *)
RestoreDns(i, r) ==
  \/ /\ Fine
     /\ dns' = IF r.lease = "active" THEN Recovered ELSE dns
     /\ Set(i, [r EXCEPT !.link = FALSE, !.lease = "idle"])
  \/ /\ r.lease = "active"
     /\ Fault
     /\ dns' = dns
     /\ Set(i, [r EXCEPT !.link = FALSE, !.unrestored = TRUE])

(***************************************************************************)
(* Connecting: the calls of each adapter's connect, in order.              *)
(***************************************************************************)
StartBridge == <<"dns", "guard", "keeper", "bridge">>

HysteriaConnect == <<"config", "engine", "ready">> \o StartBridge \o <<"settle">>
XrayConnect == <<"config", "check", "engine", "socks", "path">> \o StartBridge \o <<"settle">>
ShadowsocksConnect == <<"config", "engine", "socks", "path">> \o StartBridge \o <<"settle">>
WireguardConnect ==
  <<"config", "check", "carrier", "alive", "engine", "socks", "path">>
  \o StartBridge \o <<"settle">>
OpenvpnConnect ==
  <<"config", "carrier", "listener", "config", "dns", "engine", "state", "link", "settle">>

Script ==
  [hysteria |-> HysteriaConnect, xray |-> XrayConnect, shadowsocks |-> ShadowsocksConnect,
   wireguard |-> WireguardConnect, openvpn |-> OpenvpnConnect]

At(i, s) ==
  /\ t[i].status = "starting" /\ t[i].todo = << >>
  /\ Script[t[i].adapter][t[i].step] = s

Advance(i, r) == Set(i, [r EXCEPT !.step = @ + 1])

(* The releases of a way of ending that have something to release. *)
Holds(r, op) ==
  CASE op \in {"engine", "carrier", "bridge"} -> r[op] # "none"
    [] op \in {"restore", "lease"} -> r.lease # "none"
    [] op = "guard" -> r.guard # "none"
    [] op = "keeper" -> r.keeper
    [] op = "files" -> r.files
    [] OTHER -> TRUE

(* The locals of connect and of the supervisor go with them. *)
Left(r, todo) ==
  [r EXCEPT !.todo = SelectSeq(todo, LAMBDA op : Holds(r, op)), !.step = 0, !.adapter = "none",
            !.dialled = NoRoute, !.heard = NoReport, !.seen = 0, !.command = FALSE]
Leave(i, todo) == Set(i, Left(t[i], todo))

Carrier(a) == IF a \in Carried THEN <<"carrier">> ELSE << >>

(* What an error before the tunnel settles gives back, in order: the       *)
(* bridge's locals are dropped, then the children are stopped or dropped.  *)
Unwind(a) ==
  IF a = "openvpn" THEN <<"engine", "carrier", "lease", "files", "refused">>
  ELSE <<"keeper", "guard", "lease", "engine">> \o Carrier(a) \o <<"files", "refused">>

(* Mutation: the guard is released before the bridge has stopped. *)
StopBridgeUnguarded == <<"guard", "bridge", "keeper", "restore">>

(* stop_bridge: the bridge stops routing before anything else is released. *)
StopBridge == <<"bridge", "guard", "keeper", "restore">>

Unsettle(a) ==
  IF a = "openvpn" THEN Unwind(a)
  ELSE StopBridge \o <<"engine">> \o Carrier(a) \o <<"lease", "files", "refused">>

(* A connect that is dropped where it awaits drops its locals in reverse. *)
Forsake(a) ==
  IF a = "openvpn" THEN <<"engine", "lease", "carrier", "files", "refused">>
  ELSE <<"bridge", "lease", "guard", "keeper", "engine">> \o Carrier(a) \o <<"files", "refused">>

Fails(i) == Leave(i, Unwind(t[i].adapter))

(* The broker has one slot: a tunnel is started once the one before it     *)
(* shows an end, whatever its supervisor still has to drop.                *)
Begin(i, a) ==
  /\ t[i].status = "none"
  /\ i > 1 => t[i - 1].status \in Over
  /\ Set(i, [t[i] EXCEPT !.adapter = a, !.status = "starting", !.step = 1])
  /\ UNCHANGED <<host, up, table, dns, moves, faults>>

(* EphemeralConfig::create. *)
WriteConfig(i) ==
  /\ At(i, "config")
  /\ \/ Fine /\ Advance(i, [t[i] EXCEPT !.files = TRUE])
     \/ Fault /\ Fails(i)
  /\ UNCHANGED <<host, up, table, dns, moves>>

(* xray run -test. *)
CheckConfig(i) ==
  /\ At(i, "check")
  /\ \/ Fine /\ Advance(i, t[i])
     \/ Fault /\ Fails(i)
  /\ UNCHANGED <<host, up, table, dns, moves>>

ServerNetwork == BestDefault(DefaultRoutes, FamilyOf[Servers[1]])

Launched(r) == [r EXCEPT !.carrier = "starting", !.dialled = ServerNetwork]

LaunchCarrier(i) ==
  /\ At(i, "carrier")
  /\ \/ Fine /\ Advance(i, Launched(t[i]))
     \/ Fault /\ Fails(i)
  /\ UNCHANGED <<host, up, table, dns, moves>>

LaunchEngine(i) ==
  /\ At(i, "engine")
  /\ \/ Fine /\ Advance(i, [t[i] EXCEPT !.engine = "starting"])
     \/ Fault /\ Fails(i)
  /\ UNCHANGED <<host, up, table, dns, moves>>

(* What each wait of a connect waits for.  Hysteria says in its log that   *)
(* it reached the server and that its proxy listens; Xray and Shadowsocks  *)
(* are asked for a connection, then for one through the tunnel; stunnel    *)
(* only has to listen and wstunnel to stay alive; OpenVPN's management     *)
(* port tells its state.                                                   *)
HysteriaReady(r) == r.engine = "connected"
XraySocks(r) == r.engine \in {"listening", "connected"}
XrayPath(r) == r.engine = "connected"
ShadowsocksSocks(r) == r.engine \in {"listening", "connected"}
ShadowsocksPath(r) == r.engine = "connected"
WstunnelAlive(r) == Alive(r.carrier)
StunnelListens(r) == r.carrier = "listening"
OpenvpnState(r) == r.engine = "connected"

Awaits == {"ready", "alive", "listener", "socks", "path", "state"}

Ready(r, s) ==
  CASE s = "ready" -> HysteriaReady(r)
    [] s = "alive" -> WstunnelAlive(r)
    [] s = "listener" -> StunnelListens(r)
    [] s = "socks" -> IF r.adapter = "shadowsocks" THEN ShadowsocksSocks(r) ELSE XraySocks(r)
    [] s = "path" -> IF r.adapter = "shadowsocks" THEN ShadowsocksPath(r) ELSE XrayPath(r)
    [] s = "state" -> OpenvpnState(r)

(* A wait ends with what it waits for, or with an exit or its timeout. *)
Wait(i) ==
  /\ \E s \in Awaits :
       /\ At(i, s)
       /\ IF Ready(t[i], s) THEN Advance(i, t[i]) ELSE Fails(i)
  /\ UNCHANGED <<host, up, table, dns, moves, faults>>

TakeResolver(i) ==
  /\ At(i, "dns")
  /\ \/ /\ Fine
        /\ AcquireDns(t[i].adapter)
        /\ Advance(i, [t[i] EXCEPT !.lease = IF FileHost THEN "active" ELSE "idle"])
     \/ FileHost /\ Fault /\ dns' \in {dns, Recovered} /\ Fails(i)
  /\ UNCHANGED <<host, up, table, moves>>

EngageGuard(i) ==
  /\ At(i, "guard")
  /\ \/ Fine /\ Advance(i, [t[i] EXCEPT !.guard = "engaged"])
     \/ host = "windows" /\ Fault /\ Fails(i)
  /\ UNCHANGED <<host, up, table, dns, moves>>

(* RouteKeeper::engage: leftovers are cleared, whoever installed them, and *)
(* a first refresh installs the routes or is undone.                       *)
EngageKeeper(i) ==
  /\ At(i, "keeper")
  /\ \/ Fault /\ Fails(i) /\ UNCHANGED table
     \/ \E o \in Refresh(NoPath, NoPath, NoReport) :
          \/ /\ o.ok /\ Fine /\ table' = o.table
             /\ Advance(i, [t[i] EXCEPT !.keeper = TRUE, !.applied = o.applied, !.report = o.report,
                                        !.timer = IF Dest = {} THEN "off" ELSE "sleep"])
          \/ ~o.ok /\ Fault /\ table' = NoPath /\ Fails(i)
  /\ UNCHANGED <<host, up, dns, moves>>

LaunchBridge(i) ==
  /\ At(i, "bridge")
  /\ \/ Fine /\ Advance(i, [t[i] EXCEPT !.bridge = "starting"])
     \/ Fault /\ Fails(i)
  /\ UNCHANGED <<host, up, table, dns, moves>>

(* admit_tunnel: NotFound until the interface exists, where anything asks  *)
(* for it.                                                                 *)
Found(r) == r.iface \/ host = "file"
Protected(r) == r.guard = "admitted" /\ (ResolvedHost => r.link)

Admit(i) ==
  /\ At(i, "settle") /\ t[i].adapter \in Bridged
  /\ Alive(t[i].bridge) /\ Found(t[i]) /\ ~Protected(t[i])
  /\ Set(i, [t[i] EXCEPT !.guard = "admitted", !.link = ResolvedHost])
  /\ UNCHANGED <<host, up, table, dns, moves, faults>>

LinkOpenvpn(i) ==
  /\ At(i, "link")
  /\ \/ Fine /\ Advance(i, [t[i] EXCEPT !.link = ResolvedHost])
     \/ ResolvedHost /\ Fault /\ Fails(i)
  /\ UNCHANGED <<host, up, table, dns, moves>>

Standing(r) ==
  /\ Alive(r.engine)
  /\ r.adapter \in Carried => Alive(r.carrier)
  /\ r.adapter \in Bridged => Alive(r.bridge)

(* Mutation: the stability window is all that is waited for. *)
SettleAtOnce(i) ==
  /\ At(i, "settle") /\ Standing(t[i])
  /\ Set(i, [t[i] EXCEPT !.status = "connected", !.step = 0, !.files = FALSE,
                         !.heard = t[i].report, !.seen = t[i].report.generation])
  /\ UNCHANGED <<host, up, table, dns, moves, faults>>

(* The tunnel settled and its supervisor takes over; what the keeper       *)
(* reported until now is taken as seen.                                    *)
Settle(i) ==
  /\ At(i, "settle")
  /\ Standing(t[i]) /\ (t[i].adapter \in Bridged => Protected(t[i]))
  /\ Set(i, [t[i] EXCEPT !.status = "connected", !.step = 0, !.files = FALSE,
                         !.heard = t[i].report, !.seen = t[i].report.generation])
  /\ UNCHANGED <<host, up, table, dns, moves, faults>>

(* A process stopped, the interface did not come in time, or it could not  *)
(* be protected.                                                           *)
Settling(i) ==
  /\ At(i, "settle")
  /\ IF Standing(t[i]) /\ (t[i].adapter \in Bridged => Found(t[i])) THEN Fault ELSE Fine
  /\ Leave(i, Unsettle(t[i].adapter))
  /\ UNCHANGED <<host, up, table, dns, moves>>

(* The command's timeout drops the connect. *)
Abandon(i) ==
  /\ \E s \in Awaits \cup {"config", "check", "settle"} : At(i, s)
  /\ Leave(i, Forsake(t[i].adapter))
  /\ UNCHANGED <<host, up, table, dns, moves, faults>>

Connecting(i) ==
  \/ WriteConfig(i) \/ CheckConfig(i) \/ LaunchCarrier(i) \/ LaunchEngine(i) \/ Wait(i)
  \/ TakeResolver(i) \/ EngageGuard(i) \/ EngageKeeper(i) \/ LaunchBridge(i)
  \/ Admit(i) \/ LinkOpenvpn(i) \/ Settle(i) \/ Settling(i)

(***************************************************************************)
(* The processes, as far as their supervisor sees them.                    *)
(***************************************************************************)
CarrierListens(i) ==
  /\ t[i].carrier = "starting"
  /\ Set(i, [t[i] EXCEPT !.carrier = "listening"])
  /\ UNCHANGED <<host, up, table, dns, moves, faults>>

EngineMoves(i) ==
  /\ \/ /\ t[i].engine = "starting"
        /\ Set(i, [t[i] EXCEPT !.engine = "listening"])
     \/ /\ t[i].engine = "listening"
        /\ t[i].adapter \in Carried => t[i].carrier = "listening"
        /\ Set(i, [t[i] EXCEPT !.engine = "connected"])
  /\ UNCHANGED <<host, up, table, dns, moves, faults>>

BridgeSetsUp(i) ==
  /\ t[i].bridge = "starting"
  /\ Set(i, [t[i] EXCEPT !.bridge = "connected", !.iface = TRUE])
  /\ UNCHANGED <<host, up, table, dns, moves, faults>>

Exits(i) ==
  /\ \/ Alive(t[i].engine) /\ Set(i, [t[i] EXCEPT !.engine = "dead"])
     \/ Alive(t[i].carrier) /\ Set(i, [t[i] EXCEPT !.carrier = "dead"])
     \/ Alive(t[i].bridge) /\ Set(i, [t[i] EXCEPT !.bridge = "dead", !.iface = FALSE])
  /\ UNCHANGED <<host, up, table, dns, moves, faults>>

(***************************************************************************)
(* The supervisor: supervise_processes, supervise_three_processes and      *)
(* supervise_two_processes.  Its ends, in the order they release things;   *)
(* after the status is published, what is left is dropped.                 *)
(***************************************************************************)
EngineEnds(a) ==
  IF a = "openvpn" THEN <<"carrier", "restore", "failed", "lease", "engine">>
  ELSE StopBridge \o Carrier(a) \o <<"failed", "lease", "engine">>

(* Mutation: the status is published before the engine is stopped. *)
BridgeEndsEarly(a) ==
  Carrier(a) \o <<"restore", "failed", "engine", "bridge", "lease", "guard", "keeper">>

BridgeEnds(a) ==
  Carrier(a) \o <<"engine", "restore", "failed", "bridge", "lease", "guard", "keeper">>

CarrierEnds(a) ==
  IF a = "openvpn" THEN <<"engine", "restore", "failed", "lease", "carrier">>
  ELSE StopBridge \o <<"engine", "failed", "lease", "carrier">>

CommandEnds(a) ==
  IF a = "openvpn" THEN <<"engine", "carrier", "restore", "stopped", "lease">>
  ELSE StopBridge \o Carrier(a) \o <<"engine", "stopped", "lease">>

Supervised(i) == t[i].status = "connected" /\ t[i].todo = << >>

EngineExited(i) ==
  /\ Supervised(i) /\ t[i].engine = "dead"
  /\ Leave(i, EngineEnds(t[i].adapter))
  /\ UNCHANGED <<host, up, table, dns, moves, faults>>

BridgeExited(i) ==
  /\ Supervised(i) /\ t[i].bridge = "dead"
  /\ Leave(i, BridgeEnds(t[i].adapter))
  /\ UNCHANGED <<host, up, table, dns, moves, faults>>

CarrierExited(i) ==
  /\ Supervised(i) /\ t[i].carrier = "dead"
  /\ Leave(i, CarrierEnds(t[i].adapter))
  /\ UNCHANGED <<host, up, table, dns, moves, faults>>

(* FullRouteTunnel::stop, or the last handle on the tunnel dropped. *)
Stop(i) ==
  /\ t[i].status = "connected" /\ ~t[i].command
  /\ Set(i, [t[i] EXCEPT !.command = TRUE])
  /\ UNCHANGED <<host, up, table, dns, moves, faults>>

StopReceived(i) ==
  /\ Supervised(i) /\ t[i].command
  /\ Leave(i, CommandEnds(t[i].adapter))
  /\ UNCHANGED <<host, up, table, dns, moves, faults>>

(* moved_to_another_network: a report is heard; if it tells of a network   *)
(* the device was not on and is on now, the carrier is started again.      *)
NetworkMoved(i) ==
  LET r == [t[i] EXCEPT !.heard = t[i].report] IN
  /\ Supervised(i) /\ t[i].adapter = "wireguard"
  /\ t[i].heard # t[i].report
  /\ IF r.report.generation > r.seen /\ ~r.report.offline
       THEN \/ Fine /\ Set(i, [Launched(r) EXCEPT !.seen = r.report.generation])
            \/ Fault /\ Set(i, Left([r EXCEPT !.carrier = "none"], CarrierEnds(r.adapter)))
       ELSE Fine /\ Set(i, r)
  /\ UNCHANGED <<host, up, table, dns, moves>>

Supervise(i) ==
  EngineExited(i) \/ BridgeExited(i) \/ CarrierExited(i) \/ StopReceived(i) \/ NetworkMoved(i)

(***************************************************************************)
(* Going down, one release at a time.                                      *)
(***************************************************************************)
(* stop_child, stop_bridge_child and kill_on_drop. *)
Killed(r, op) ==
  CASE op = "bridge" -> [r EXCEPT !.bridge = "none", !.iface = FALSE]
    [] op = "engine" -> [r EXCEPT !.engine = "none"]
    [] op = "carrier" -> [r EXCEPT !.carrier = "none"]
    [] op = "guard" -> [r EXCEPT !.guard = "none"]
    [] op = "files" -> [r EXCEPT !.files = FALSE]
    [] op \in {"refused", "failed"} -> [r EXCEPT !.status = op]
    [] op = "stopped" -> [r EXCEPT !.status = IF r.lease = "active" THEN "failed" ELSE op]

(* Drop for RouteKeeper: the timer is aborted where it waits, and the      *)
(* routes it had installed are removed.                                    *)
DropKeeper(i, r) ==
  \E kept \in SUBSET {d \in Dest : r.applied[d] # NoRoute /\ table[d] # NoRoute} :
    /\ Charge(kept # {})
    /\ table' = Release(r.applied, kept)
    /\ Set(i, Leaves([r EXCEPT !.keeper = FALSE, !.applied = NoPath, !.report = NoReport,
                               !.timer = IF @ = "fired" THEN @ ELSE "off"],
                     "routes", kept # {}))

(* Drop for SystemDnsLease: one more restoration if the file is still      *)
(* Ket's, whose failure is ignored.                                        *)
DropLease(i, r) ==
  LET gone == [r EXCEPT !.lease = "none", !.link = FALSE] IN
  \/ Fine /\ Set(i, gone) /\ dns' = IF r.lease = "active" THEN Recovered ELSE dns
  \/ r.lease = "active" /\ Fault /\ Set(i, Leaves(gone, "resolver", TRUE)) /\ dns' = dns

WindDown(i) ==
  LET op == Head(t[i].todo)
      r == [t[i] EXCEPT !.todo = Tail(@)]
  IN
  /\ t[i].todo # << >>
  /\ CASE op = "keeper" -> DropKeeper(i, r) /\ UNCHANGED dns
       [] op = "restore" -> RestoreDns(i, r) /\ UNCHANGED table
       [] op = "lease" -> DropLease(i, r) /\ UNCHANGED table
       [] OTHER -> Set(i, Killed(r, op)) /\ Fine /\ UNCHANGED <<table, dns>>
  /\ UNCHANGED <<host, up, moves>>

(* Every tunnel had its turn and nothing is left to happen. *)
Done ==
  /\ \A i \in Tunnel : /\ t[i].status \in Over \/ Adapters[host][i] = {}
                       /\ t[i].todo = << >> /\ t[i].timer = "off"
  /\ moves = MaxMoves
  /\ UNCHANGED vars

Next ==
  \/ \E i \in Tunnel :
       \/ \E a \in Adapters[host][i] : Begin(i, a)
       \/ Connecting(i) \/ Abandon(i) \/ Supervise(i) \/ Stop(i) \/ WindDown(i)
       \/ TimerFires(i) \/ TimerRefreshes(i)
       \/ CarrierListens(i) \/ EngineMoves(i) \/ BridgeSetsUp(i) \/ Exits(i)
  \/ \E n \in Network : NetworkChanges(n)
  \/ Done

Spec == Init /\ [][Next]_vars

(* Waits have timeouts; the supervisor's select, the drops and the last    *)
(* refresh of an aborted timer do not wait for anybody.  A tunnel only     *)
(* ever does one of the first three.                                       *)
FairSpec ==
  /\ Spec
  /\ \A i \in Tunnel : /\ WF_vars(Connecting(i) \/ Supervise(i) \/ WindDown(i))
                       /\ WF_vars(~t[i].keeper /\ TimerRefreshes(i))

(***************************************************************************)
(* Properties.                                                             *)
(***************************************************************************)
Process == {"none", "starting", "listening", "connected", "dead"}

(* Every variable has its type. *)
TypeOK ==
  /\ host \in Host /\ up \subseteq Network
  /\ table \in [Dest -> Path \cup {NoRoute}]
  /\ dns \in [content : {"host", "virtual", "openvpn"}, saved : BOOLEAN]
  /\ \A i \in Tunnel :
       /\ t[i].engine \in Process /\ t[i].carrier \in Process /\ t[i].bridge \in Process
       /\ t[i].applied \in [Dest -> Path \cup {NoRoute}]
       /\ t[i].lease \in {"none", "idle", "active"}
       /\ t[i].guard \in {"none", "engaged", "admitted"}
       /\ t[i].timer \in {"off", "sleep", "fired"}
  /\ moves \in 0..MaxMoves /\ faults \in 0..MaxFaults

(* As long as a bridge may route traffic into the tunnel, the leak guard   *)
(* is up, the resolver is taken and the keeper has a route, and none into  *)
(* the tunnel, for every destination that no network has on its own link;  *)
(* on Windows the guard lets the engines reach the server and no lookup,   *)
(* nor IPv6 beyond the link and the bypass list, out of another interface  *)
(* (stop_bridge, base_rules).  The types come with it.                     *)
BridgeIsGuarded ==
  TypeOK /\ \A i \in Tunnel : Alive(t[i].bridge) =>
    /\ t[i].guard # "none" /\ t[i].lease # "none" /\ t[i].keeper
    /\ \A d \in Dest : /\ t[i].applied[d] # Tun
                      /\ t[i].applied[d] = NoRoute => \E n \in Network : d \in OnLink[n]
    /\ host = "windows" => \A f \in Flow : f.via = "other" =>
         /\ f.remote = "server" => Permits(InForce(t[i].guard), f)
         /\ f.remote # "server" /\ (f.lookup \/ (f.family = 6 /\ f.remote = "any"))
              => ~Permits(InForce(t[i].guard), f)

(* A connected tunnel whose processes run has every lookup of the system   *)
(* in the tunnel: its resolver is in /etc/resolv.conf with the original    *)
(* saved, resolved's link is routed, the guard admits the interface.  Only *)
(* the second restoration of a tunnel whose first one failed may take the  *)
(* resolver from its successor (SystemDnsLease::drop).                     *)
ConnectedIsProtected ==
  \A i \in Tunnel : Supervised(i) /\ Standing(t[i]) =>
    /\ FileHost => \/ dns = [content |-> Config(t[i].adapter), saved |-> TRUE]
                   \/ \E j \in Tunnel : j < i /\ t[j].unrestored
    /\ ResolvedHost => t[i].link
    /\ t[i].adapter \in Bridged => t[i].guard = "admitted"

(* An end is published last: a tunnel that shows Stopped or Failed has no  *)
(* process left and has given the resolver back or failed to, and one that *)
(* shows Stopped has released its guard and its routes as well             *)
(* (publish_stopped_or_dns_failure).                                       *)
EndIsPublishedLast ==
  \A i \in Tunnel : t[i].status \in {"failed", "stopped"} =>
    /\ \A p \in {t[i].engine, t[i].carrier, t[i].bridge} : ~Alive(p)
    /\ t[i].lease # "active" \/ t[i].unrestored
    /\ t[i].status = "stopped" => t[i].guard = "none" /\ ~t[i].keeper /\ t[i].lease # "active"

HostRestored ==
  /\ dns = [content |-> "host", saved |-> FALSE] \/ \E i \in Tunnel : "resolver" \in t[i].leaves
  /\ table = NoPath \/ \E i \in Tunnel : t[i].leaves \cap {"routes", "late"} # {}

Resting(i) == t[i].status \in Over \cup {"none"} /\ t[i].todo = << >> /\ t[i].timer = "off"

GivenBack(i) ==
  /\ t[i].status \in Over /\ Resting(i)
  /\ ~t[i].files /\ ~t[i].keeper /\ ~t[i].link
  /\ t[i].guard = "none" /\ t[i].lease = "none"
  /\ {t[i].engine, t[i].carrier, t[i].bridge} = {"none"}
  /\ (\A j \in Tunnel : Resting(j)) => HostRestored

(* Every attempt to connect ends connected or with everything given back,  *)
(* and a connected tunnel that is stopped, or one of whose processes       *)
(* exits, gives everything back: the processes, the private files, the     *)
(* guard, the keeper and its timer, and when no other tunnel is there the  *)
(* host is as it was, /etc/resolv.conf the original and none of Ket's      *)
(* routes in the table (the drops of connect and of the supervisors,       *)
(* RouteKeeper's first).  What stays is a file or a route the last call to *)
(* give it back failed on, and the routes of a refresh whose tick came     *)
(* before its keeper was dropped and whose turn came after; a carrier that *)
(* exited may have been started again.                                     *)
EveryEndCleansUp ==
  \A i \in Tunnel :
    LET stays == Supervised(i) /\ Standing(t[i]) /\ ~t[i].command
    IN  (t[i].status = "starting" \/ (Supervised(i) /\ ~stays)) ~> (stays \/ GivenBack(i))

====
