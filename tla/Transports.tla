----------------------------- MODULE Transports -----------------------------
(***************************************************************************)
(* The contract between a Ket server and its clients: the server reads an  *)
(* environment, configures its engines, and gives each session a manifest; *)
(* the client checks the manifest, and each of its adapters writes the     *)
(* configuration of a local engine, which must meet what the server's      *)
(* engine was told for that session.  The two sides are separate programs  *)
(* and state the rules of the contract separately.                         *)
(***************************************************************************)
EXTENDS Adapters

CONSTANTS
    Environments,   \* the environments the server may be started with
    Sessions,       \* session ids
    EnrolAs(_),     \* the slots, allowed protocols, lives and allowances of
                    \* enrolments in an environment, what the machine reads
                    \* of itself then, and the client's clock
    Addresses,      \* the addresses a client may find for a server's name
    Readings(_),    \* what the node's own load and memory may read there
    Reports(_),     \* what the given engines may answer about a session's traffic
    MaxCount,       \* where a traffic counter saturates
    MaxMissed       \* bound: kicks an engine does not carry out

VARIABLES
    env,        \* the server's environment
    server,     \* "down", "up" or "refused"
    engines,    \* what the engines were started with and hold
    leases,     \* live sessions: their slot, grant and the seconds they have
    kicks,      \* the slot of a session that ended, and who is still to kick it
    missed,     \* sessions and the engines that did not kick them
    struck,     \* live sessions and the engines that kicked them for another
    offers,     \* the manifest each session was given, << >> before
    verdicts,   \* whether the client kept it: "none", "kept" or "refused"
    written,    \* per session, the engine configurations its adapters wrote
    refused,    \* per session, the ids of the transports an adapter refused
    statuses    \* per session, whether the client kept a status, or what the
                \* one it refused says of the node

client == <<verdicts, written, refused, statuses>>
vars == <<env, server, engines, leases, kicks, missed, struck, offers, client>>

-----------------------------------------------------------------------------
(* Credentials, derived from a key of the server and the session's id. *)
DataPlaneToken(s) == Secret(<<"token", s>>, 44, 0)
session_uuid(s) == Secret(<<"uuid", s>>, 36, 0)
session_key(s) == Secret(<<"shadowsocks", s>>, 44, 32)
derive_key(context, s) == Secret(<<context, s>>, 44, 32)
session_email(s) == <<"email", s>>

managed_peer(s, slot) ==
    [private_key |-> derive_key("private", s), preshared_key |-> derive_key("preshared", s),
     address |-> client_address(slot)]

(* Standard Base64 of n bytes. *)
Encoded(is, n) == Secret(is, ((n + 2) \div 3) * 4, n)

HysteriaCredential(c, s) ==
    [auth |-> DataPlaneToken(s),
     secrets |-> IF c.obfs = "none" THEN << >>
                 ELSE [obfs_password |-> [is |-> <<"obfs">>, chars |-> c.password.chars,
                                          bytes |-> 0, clean |-> c.password.clean]]]

ShadowsocksCredential(s) == [auth |-> session_key(s), secrets |-> << >>]

WireGuardCredential(s) ==
    LET peer == managed_peer(s, 0) IN
    [auth |-> peer.private_key,
     secrets |-> [preshared_key |-> peer.preshared_key,
                  server_public_key |-> Secret(<<"server public">>, 44, 32)]]

OpenVpnCredential(c, s) ==
    [auth |-> DataPlaneToken(s),
     secrets |->
        [ca_certificate_pem_b64 |->
            Encoded(<<"ca">>, normalize_openvpn_material(c.ca).bytes),
         stunnel_ca_certificate_pem_b64 |->
            Encoded(<<"stunnel ca">>, normalize_openvpn_material(c.stunnel_ca).bytes),
         tls_crypt_key_b64 |->
            Encoded(<<"tls crypt">>, normalize_openvpn_material(c.tls_crypt).bytes),
         username |-> Secret(<<"id", s>>, 12, 0)]]

XrayCredential(e, id, s) ==
    IF e.reality.on /\ e.reality.id = id
    THEN <<[auth |-> session_uuid(s),
            secrets |-> [reality_password |-> Secret(<<"public">>, e.reality.public_key.chars, 0),
                         reality_short_id |-> Secret(<<"short id">>, e.reality.short_id.chars, 0)]]>>
    ELSE IF e.xhttp.on /\ e.xhttp.id = id
    THEN <<[auth |-> session_uuid(s), secrets |-> << >>]>>
    ELSE << >>

(* The transports of a session's manifest: the allowed ones, each with the *)
(* credential of the engine its id names.                                  *)
SessionTransport(e, p, s, slot) ==
    CASE e.hysteria.on /\ e.hysteria.id = p.id ->
            p @@ [credential |-> <<HysteriaCredential(e.hysteria, s)>>]
      [] e.shadowsocks.on /\ e.shadowsocks.id = p.id ->
            [p EXCEPT !.port = session_port(e.shadowsocks, slot)[1]]
            @@ [credential |-> <<ShadowsocksCredential(s)>>]
      [] e.wireguard.on /\ e.wireguard.id = p.id ->
            [p EXCEPT !.options = @ @@ [client_address |-> client_address(slot)]]
            @@ [credential |-> <<WireGuardCredential(s)>>]
      [] e.openvpn.on /\ e.openvpn.id = p.id ->
            p @@ [credential |-> <<OpenVpnCredential(e.openvpn, s)>>]
      [] OTHER -> p @@ [credential |-> XrayCredential(e, p.id, s)]

session_transports(e, s, slot, grant) ==
    LET allowed == SelectSeq(Advertised(e), LAMBDA p : p.protocol \in grant) IN
    [i \in DOMAIN allowed |-> SessionTransport(e, allowed[i], s, slot)]

-----------------------------------------------------------------------------
(* What the engines are started with. *)
HysteriaRuntime(c) ==
    [obfs |-> IF c.obfs = "none" THEN << >>
              ELSE [type |-> c.obfs, password |-> <<"obfs">>]
                   @@ (IF c.obfs = "gecko" THEN [min |-> 512, max |-> 1200] ELSE << >>)]

reality_inbound(c) ==
    [tag |-> c.tag, listen |-> c.listen, network |-> "raw", security |-> "reality",
     server_names |-> c.server_names, short_ids |-> {<<"short id">>}]

xhttp_inbound(c) ==
    [tag |-> c.tag, listen |-> c.listen, network |-> "xhttp", security |-> "none",
     path |-> c.path, mode |-> "packet-up"]

XrayRuntime(e) ==
    {[tag |-> Text(6), listen |-> e.xray.api]}
    \cup (IF e.reality.on THEN {reality_inbound(e.reality)} ELSE {})
    \cup (IF e.xhttp.on THEN {xhttp_inbound(e.xhttp)} ELSE {})

(* The user of a session on every inbound of the engine. *)
user_document(tag, s, flow) ==
    [tag |-> tag, id |-> session_uuid(s).is, email |-> session_email(s), flow |-> flow]

user_documents(e, s) ==
    (IF e.reality.on THEN {user_document(e.reality.tag, s, "xtls-rprx-vision")} ELSE {})
    \cup (IF e.xhttp.on THEN {user_document(e.xhttp.tag, s, "")} ELSE {})

(* The agent of WireGuard takes a peer with an address of its pool. *)
valid_address(a) == Len(a) = 4 /\ a[1] = 10 /\ a[2] = 66 /\ WireGuardHost(a) \in 2 .. 65534
validate_peer(p) == validate_key(p.private_key) /\ validate_key(p.preshared_key)
                    /\ valid_address(p.address)

-----------------------------------------------------------------------------
(* The status of a node and of a session.  A reading has the load and the  *)
(* memory /proc gives, << >> where it cannot be read.                      *)
Capped(n) == IF n > MaxCount THEN MaxCount ELSE n

parse_cpu_load_percent(r) ==
    IF r.load = << >> \/ r.processors = 0 THEN << >>
    ELSE LET percent == (r.load[1] * 100) \div r.processors
         IN  <<IF percent > 100 THEN 100 ELSE percent>>

(* Used memory is what is not available, never less than none. *)
parse_memory(r) ==
    IF r.memory = << >> THEN << >>
    ELSE LET total == r.memory[1]  available == r.memory[2]
         IN  <<IF available > total THEN 0 ELSE total - available, total>>

snapshot(r) == [cpu |-> parse_cpu_load_percent(r), memory |-> parse_memory(r)]

build_node_status(e, active, r, healthy) ==
    LET percent == (active * 100) \div e.max_sessions
        system == snapshot(r)
        strained == \/ ~healthy
                    \/ percent >= 85
                    \/ system.cpu # << >> /\ system.cpu[1] >= 90
                    \/ /\ system.memory # << >> /\ system.memory[2] > 0
                       /\ system.memory[1] * 100 >= system.memory[2] * 95
    IN  [node_id |-> e.node.node_id, node_name |-> e.node.node_name,
         public_url |-> e.public_url, location |-> e.node.location,
         health |-> IF percent >= 100 THEN "saturated"
                    ELSE IF strained THEN "degraded" ELSE "healthy",
         active_sessions |-> active, session_capacity |-> e.max_sessions,
         capacity_percent |-> percent, cpu |-> system.cpu, memory |-> system.memory]

(* An engine answers with the counts of a session, or with none for it;    *)
(* Shadowsocks counts both directions together, so it reports nothing.     *)
unavailable_traffic == [available |-> FALSE, bytes_sent |-> 0, bytes_received |-> 0,
                        online |-> 0]

EngineTraffic(control, report) ==
    IF control = "shadowsocks" THEN unavailable_traffic
    ELSE [available |-> TRUE, bytes_sent |-> report.sent, bytes_received |-> report.received,
          online |-> report.online]

Controls(e) ==
    {c \in {"hysteria", "openvpn", "shadowsocks", "wireguard"} : e[c].on}
    \cup (IF e.reality.on \/ e.xhttp.on THEN {"xray"} ELSE {})

(* The sum over the engines that answered.  When no engine has counts and  *)
(* one failed, the status carries the unavailable traffic.                 *)
CompositeTraffic(e, reports) ==
    LET read == {c \in Controls(e) : ~reports[c].failed}
        of(c) == EngineTraffic(c, reports[c])
        add(f(_)) == Capped(FoldSet(LAMBDA c, sum : f(c) + sum, 0, read))
    IN  [available |-> \E c \in read : of(c).available,
         bytes_sent |-> add(LAMBDA c : of(c).bytes_sent),
         bytes_received |-> add(LAMBDA c : of(c).bytes_received),
         online |-> add(LAMBDA c : of(c).online)]

-----------------------------------------------------------------------------
(* The engines, as the server leaves them. *)
NoLease == [held |-> FALSE]
NoKicks == [slot |-> -1, by |-> << >>]
Held == {s \in Sessions : leases[s].held}

EnginesOf(e) ==
    [hysteria |-> IF e.hysteria.on THEN <<HysteriaRuntime(e.hysteria)>> ELSE << >>,
     xray |-> IF e.reality.on \/ e.xhttp.on THEN XrayRuntime(e) ELSE {},
     users |-> {}, ports |-> {}, peers |-> {}]

(* What provisioning adds for a session, and what ending it removes: Xray  *)
(* users by their email, Shadowsocks servers and WireGuard peers by the    *)
(* port and the address of the slot.                                       *)
Provisioned(g, e, s, slot) ==
    [g EXCEPT
        !.users = @ \cup user_documents(e, s),
        !.ports = IF e.shadowsocks.on
                  THEN {p \in @ : p.port # session_port(e.shadowsocks, slot)[1]}
                       \cup {[port |-> session_port(e.shadowsocks, slot)[1],
                              password |-> session_key(s).is]}
                  ELSE @,
        !.peers = IF e.wireguard.on /\ validate_peer(managed_peer(s, slot))
                  THEN {p \in @ : p.address # client_address(slot)}
                       \cup {managed_peer(s, slot)}
                  ELSE @]

Kicked(g, s, slot, control) ==
    CASE control = "xray" -> [g EXCEPT !.users = {u \in @ : u.email # session_email(s)}]
      [] control = "shadowsocks" ->
            [g EXCEPT !.ports = {p \in @ : p.port # session_port(env.shadowsocks, slot)[1]}]
      [] control = "wireguard" ->
            [g EXCEPT !.peers = {p \in @ : p.address # client_address(slot)}]

(* A mutation: WireGuard's agent is not among the engines that are asked. *)
KeepersForgetful(e) == SelectSeq(<<"xray", "shadowsocks">>, LAMBDA c : c \in Controls(e))

(* The engines that hold something of a session, in the order they are     *)
(* asked; the other two ask the server whenever a connection is made, and  *)
(* a kick only ends the ones they have.                                    *)
Keepers(e) == SelectSeq(<<"xray", "shadowsocks", "wireguard">>, LAMBDA c : c \in Controls(e))

-----------------------------------------------------------------------------
(* What an engine of the server lets in.  A token is authenticated against *)
(* the live sessions and the protocols their invites allow.                *)
Reads(authority) == authority.host \in Ipv6 => authority.bracketed

authenticate_data_plane(token, protocol) ==
    \E s \in Held : token = DataPlaneToken(s).is /\ protocol \in leases[s].grant

HysteriaAdmits(t, c) ==
    /\ Reads(c.server) /\ c.server.port = env.hysteria.public_port
    /\ engines.hysteria # << >> /\ engines.hysteria[1].obfs = c.obfs
    /\ authenticate_data_plane(c.auth, HysteriaProfile(env.hysteria).protocol)

XrayAdmits(t, c) ==
    \E b \in {b \in engines.xray : "network" \in DOMAIN b} :
        /\ b.network = c.network
        /\ IF t.protocol = "reality"
           THEN c.server_name \in b.server_names /\ c.short_id \in b.short_ids
           ELSE c.path = b.path /\ c.mode = b.mode
        /\ \E u \in engines.users :
            /\ u.tag = b.tag /\ u.id = c.id
            /\ u.flow = IF t.protocol = "reality" THEN c.flow ELSE ""

ShadowsocksAdmits(t, c) == [port |-> c.port, password |-> c.password] \in engines.ports

WireGuardAdmits(t, c) ==
    /\ Reads(c.tunnel.server) /\ c.tunnel.server.port = env.wireguard.public_port
    /\ c.tunnel.prefix = env.wireguard.path_prefix /\ c.tunnel.sni = env.wireguard.sni
    /\ c.peer = <<"server public">>
    /\ \E p \in engines.peers :
        /\ p.address = c.address
        /\ p.private_key.is = c.secret_key /\ p.preshared_key.is = c.preshared

OpenVpnAdmits(t, c) ==
    /\ Reads(c.carrier.connect) /\ c.carrier.connect.port = env.openvpn.public_port
    /\ c.carrier.sni = env.openvpn.sni /\ c.verify_name = env.openvpn.sni
    /\ c.ca = <<"ca">> /\ c.tls_crypt = <<"tls crypt">> /\ c.carrier.ca = <<"stunnel ca">>
    /\ authenticate_data_plane(c.password, "openvpn")
    /\ c.username[2] = c.password[2]

Admits(t, c) ==
    CASE t.protocol \in {"hysteria2", "xor"} -> HysteriaAdmits(t, c)
      [] t.protocol \in {"reality", "stealth"} -> XrayAdmits(t, c)
      [] t.protocol = "shadowsocks" -> ShadowsocksAdmits(t, c)
      [] t.protocol = "wireguard" -> WireGuardAdmits(t, c)
      [] t.protocol = "openvpn" -> OpenVpnAdmits(t, c)

-----------------------------------------------------------------------------
(* The client's adapters: which transports they take, and what they write. *)
Adapts(t) ==
    CASE t.protocol \in {"hysteria2", "xor"} -> HysteriaRenders(t)
      [] t.protocol \in {"reality", "stealth"} -> XrayValidate(t)
      [] t.protocol = "shadowsocks" -> ShadowsocksValidate(t)
      [] t.protocol = "wireguard" -> WireGuardValidate(t)
      [] t.protocol = "openvpn" -> OpenVpnValidate(t)

Writes(t, a) ==
    CASE t.protocol \in {"hysteria2", "xor"} -> HysteriaClient(t, a)
      [] t.protocol \in {"reality", "stealth"} -> XrayClient(t, a)
      [] t.protocol = "shadowsocks" -> ShadowsocksClient(t, a)
      [] t.protocol = "wireguard" ->
            WireGuardClient(t) @@ [tunnel |-> wstunnel_arguments(t, a)]
      [] t.protocol = "openvpn" ->
            render_openvpn_config(t, {a}) @@ [carrier |-> render_stunnel_config(t, a)]

-----------------------------------------------------------------------------
Init ==
    /\ env \in Environments
    /\ server = "down"
    /\ engines = [hysteria |-> << >>, xray |-> {}, users |-> {}, ports |-> {}, peers |-> {}]
    /\ leases = [s \in Sessions |-> NoLease]
    /\ kicks = [s \in Sessions |-> NoKicks] /\ missed = {} /\ struck = {}
    /\ offers = [s \in Sessions |-> << >>]
    /\ verdicts = [s \in Sessions |-> "none"]
    /\ written = [s \in Sessions |-> {}]
    /\ refused = [s \in Sessions |-> {}]
    /\ statuses = [s \in Sessions |-> << >>]

(* main: the configuration is read and the engines' files are written      *)
(* before anything listens; a setting that is refused ends the process.    *)
Boot ==
    /\ server = "down"
    /\ IF FromEnv(env)
       THEN server' = "up" /\ engines' = EnginesOf(env)
       ELSE server' = "refused" /\ UNCHANGED engines
    /\ UNCHANGED <<env, leases, kicks, missed, struck, offers, client>>

(* ProtocolAccess::All *)
Protocols == {"hysteria2", "xor", "openvpn", "reality", "stealth", "shadowsocks", "wireguard"}

validate_allowance(allowance) == \A i \in DOMAIN allowance : DataAllowanceIsValid(allowance[i])

(* create_session: a lease, its engines, its manifest.  A lease ends with  *)
(* its invite when that is sooner than its own time.  An invite allows all *)
(* protocols, whichever come to be, or a few: a session that is left with  *)
(* none of them is refused and ended again.                                *)
Enrol(s) ==
    \E c \in EnrolAs(env) :
        LET left == IF c.life # << >> /\ c.life[1] < env.session_ttl THEN c.life[1]
                    ELSE env.session_ttl
            transports == session_transports(env, s, c.slot, c.grant)
        IN
        /\ server = "up"
        /\ offers[s] = << >> /\ kicks[s] = NoKicks /\ ~leases[s].held
        /\ validate_allowance(c.allowance)
        /\ \A o \in Held : leases[o].slot # c.slot
        /\ engines' = Provisioned(engines, env, s, c.slot)
        /\ IF transports = << >> /\ c.grant # Protocols
           THEN /\ kicks' = [kicks EXCEPT ![s] = [slot |-> c.slot, by |-> Keepers(env)]]
                /\ UNCHANGED <<leases, offers>>
           ELSE /\ leases' = [leases EXCEPT ![s] =
                        [held |-> TRUE, slot |-> c.slot, grant |-> c.grant, left |-> left,
                         life |-> c.life, allowance |-> c.allowance]]
                /\ offers' = [offers EXCEPT ![s] =
                        <<[session_left |-> left, access_left |-> c.life,
                           node |-> build_node_status(env, Cardinality(Held) + 1, c.reading, TRUE),
                           transports |-> transports, now |-> c.clock]>>]
                /\ UNCHANGED kicks
        /\ UNCHANGED <<env, server, missed, struck, client>>

(* The client keeps the manifest or refuses it whole, and each adapter     *)
(* checks its transports and writes a configuration for an address found.  *)
(* It gives the session of a manifest it refused back, which the server    *)
(* sees as a release, or not at all.                                       *)
Receive(s) ==
    /\ offers[s] # << >> /\ verdicts[s] = "none"
    /\ LET m == offers[s][1]
           ts == IF validate_manifest(m, m.now) THEN Range(m.transports) ELSE {}
       IN
       /\ verdicts' = [verdicts EXCEPT ![s] = IF validate_manifest(m, m.now) THEN "kept"
                                              ELSE "refused"]
       /\ refused' = [refused EXCEPT ![s] = {t.id : t \in {t \in ts : ~Adapts(t)}}]
       /\ written' = [written EXCEPT ![s] =
               {[transport |-> t, config |-> Writes(t, a)] :
                    t \in {t \in ts : Adapts(t)}, a \in Addresses}]
    /\ UNCHANGED <<env, server, engines, leases, kicks, missed, struck, offers, statuses>>

(* session_status, and the client's check of it. *)
Status(s) ==
    \E r \in Readings(env), healthy \in BOOLEAN, reports \in Reports(Controls(env)) :
        /\ leases[s].held /\ verdicts[s] = "kept" /\ statuses[s] = << >>
        /\ LET status ==
                [session_id |-> s, client_name |-> "device",
                 session_left |-> leases[s].left, access_left |-> leases[s].life,
                 node |-> build_node_status(env, Cardinality(Held), r, healthy),
                 traffic |-> CompositeTraffic(env, reports), allowance |-> leases[s].allowance]
           IN statuses' = [statuses EXCEPT ![s] =
                IF validate_status(status, s, "device", offers[s][1].now) THEN <<"kept">>
                ELSE <<"refused", status.node>>]
        /\ UNCHANGED <<env, server, engines, leases, kicks, missed, struck, offers, verdicts,
                       written, refused>>

(* release_session: the session ends, and its slot is free, before any     *)
(* engine is asked to kick it; its client still has what its adapters      *)
(* wrote.                                                                  *)
Release(s) ==
    /\ leases[s].held
    /\ leases' = [leases EXCEPT ![s] = NoLease]
    /\ kicks' = [kicks EXCEPT ![s] = [slot |-> leases[s].slot, by |-> Keepers(env)]]
    /\ UNCHANGED <<env, server, engines, missed, struck, offers, client>>

(* kick_sessions: one engine after the other; a failure is logged and the  *)
(* next one is asked.  By then the slot may have gone to another session.  *)
Kick(s) ==
    LET c == Head(kicks[s].by)
        slot == kicks[s].slot
        others == {o \in Held : leases[o].slot = slot /\ c # "xray"}
    IN
    /\ kicks[s].by # << >>
    /\ kicks' = [kicks EXCEPT ![s].by = Tail(@)]
    /\ \/ /\ engines' = Kicked(engines, s, slot, c)
          /\ struck' = struck \cup {<<o, c>> : o \in others}
          /\ UNCHANGED missed
       \/ /\ Cardinality(missed) < MaxMissed
          /\ missed' = missed \cup {<<s, c>>}
          /\ UNCHANGED <<engines, struck>>
    /\ UNCHANGED <<env, server, leases, offers, client>>

Next ==
    Boot \/ \E s \in Sessions : Enrol(s) \/ Receive(s) \/ Status(s) \/ Release(s) \/ Kick(s)

Spec == Init /\ [][Next]_vars

-----------------------------------------------------------------------------
(* Settings the server takes although no client takes what follows from    *)
(* them: an obfuscation password longer than a client keeps or with a      *)
(* control character, an OpenVPN name other than the endpoint's own, and   *)
(* key material that grows past the limit by the newline put after it.     *)
OddPassword(c) ==
    c.on /\ c.obfs # "none" /\ (c.password.chars > MAX_SECRET_CHARS \/ ~c.password.clean)
OddName(c) == c.public_host \in DnsNames /\ c.sni # c.public_host
OddMaterial(c) ==
    \E m \in {c.ca, c.stunnel_ca, c.tls_crypt} : m.envelope = MAX_OPENVPN_MATERIAL_BYTES

Managed(e) ==
    {e[k].id : k \in {k \in {"hysteria", "openvpn", "reality", "xhttp", "shadowsocks",
                             "wireguard"} : e[k].on}}

(* The client's clock has come to the end of the lease. *)
Late(document, now) == document.session_left <= now

(* A machine whose /proc/meminfo has no memory in it. *)
Blank(node) == node.memory # << >> /\ node.memory[2] = 0

(* The client keeps every manifest a server that started gives it, and its *)
(* adapters take every transport the server runs an engine for: whatever   *)
(* config.rs accepts, validation.rs and the five adapters accept too.  The *)
(* exceptions are the settings above, a server that offers nothing, and    *)
(* two cases of validation.rs: a clock so wrong that the lease is over,    *)
(* and a machine that counts no memory.  A status the server builds for a  *)
(* live session is also one its client keeps, but for a machine that       *)
(* counts no memory, whatever the engines answer or fail to answer.        *)
OffersAreUsable ==
    \A s \in Sessions :
        /\ verdicts[s] = "refused" =>
            LET m == offers[s][1] IN
            \/ Advertised(env) = << >> \/ OddPassword(env.hysteria)
            \/ Late(m, m.now) \/ Blank(m.node)
        /\ \A id \in refused[s] \cap Managed(env) :
            id = env.openvpn.id /\ (OddName(env.openvpn) \/ OddMaterial(env.openvpn))
        /\ Len(statuses[s]) = 2 => Blank(statuses[s][2])

KeeperOf(t) ==
    CASE t.protocol \in {"reality", "stealth"} -> "xray"
      [] t.protocol \in {"shadowsocks", "wireguard"} -> t.protocol
      [] OTHER -> "none"

Unkicked(s) == Range(kicks[s].by) \cup {c \in Range(Keepers(env)) : <<s, c>> \in missed}

(* A configuration an adapter wrote for a session opens the server's       *)
(* engine while the session is held: obfuscation, packet sizes, inbounds,  *)
(* users, keys, ports and addresses agree between the two programs.  Once  *)
(* the session has ended, it opens nothing: Hysteria's and OpenVPN's at    *)
(* once, since these engines ask the server; the others' when their engine *)
(* has kicked the session.  A held session's configuration stops opening   *)
(* its engine only by a kick of the session that had its slot before.      *)
ConfigOpensWhileHeld ==
    \A s \in Sessions : \A w \in written[s] :
        LET c == KeeperOf(w.transport)
        IN  IF leases[s].held THEN Admits(w.transport, w.config) \/ <<s, c>> \in struck
            ELSE ~Admits(w.transport, w.config) \/ c \in Unkicked(s)

(* Two live sessions have no port, tunnel address or user in common, and   *)
(* none has the address of the server's own end: slots of the lease table  *)
(* reach the engines without meeting, to the last slot of the capacity.    *)
SessionsAreApart ==
    \A s \in Held :
        /\ env.wireguard.on /\ <<s, "wireguard">> \notin struck =>
            \E p \in engines.peers : p.address = client_address(leases[s].slot)
        /\ env.shadowsocks.on =>
            session_port(env.shadowsocks, leases[s].slot) # NoResource
        /\ \A o \in Held \ {s} :
            LET own(k) == {t \in Range(offers[k][1].transports) : t.credential # << >>}
            IN \A t \in own(s), u \in own(o) :
                /\ t.credential[1].auth.is # u.credential[1].auth.is
                /\ t.protocol = "shadowsocks" /\ u.protocol = "shadowsocks" =>
                    t.port # u.port
                /\ t.protocol = "wireguard" /\ u.protocol = "wireguard" =>
                    t.options.client_address # u.options.client_address
=============================================================================
