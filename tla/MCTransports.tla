---------------------------- MODULE MCTransports ----------------------------
(* Environments around one that enables everything: each setting is taken  *)
(* through its boundary values with the others as they are, and the ones   *)
(* that are checked together are varied together.                          *)
EXTENDS Transports

CONSTANTS s1, s2

Url(scheme, host) == [scheme |-> scheme, host |-> host, extras |-> FALSE, text |-> Text(30)]
Manager == Url("http", "agent")
Material(file, envelope) == [file |-> file, envelope |-> envelope, wellFormed |-> TRUE]
At(host, port) == [host |-> host, port |-> port]

Hysteria ==
    [on |-> TRUE, id |-> "hy2", public_host |-> "vpn", public_port |-> 443, sni |-> "",
     stats_secret |-> Text(32), masquerade |-> "https", obfs |-> "none", password |-> Text(0)]
OpenVpn ==
    [on |-> TRUE, id |-> "ovpn", public_host |-> "vpn", public_port |-> 443, sni |-> "vpn",
     manager_url |-> Manager, manager_token |-> Text(32), auth_token |-> Text(40),
     ca |-> Material(2000, 1990), stunnel_ca |-> Material(2000, 1990),
     tls_crypt |-> Material(700, 636)]
Reality ==
    [on |-> TRUE, id |-> "reality", public_host |-> "vpn", public_port |-> 443,
     sni |-> "cdn", server_names |-> {"cdn", "vpn"}, target |-> At("cdn", 443),
     private_key |-> Text(43) @@ [key |-> 1], public_key |-> Text(43) @@ [key |-> 2],
     short_id |-> Text(16), tag |-> Text(13), listen |-> At("0.0.0.0", 8444),
     fingerprint |-> ""]
Xhttp ==
    [on |-> TRUE, id |-> "stealth", public_host |-> "cdn", public_port |-> 443,
     sni |-> "cdn", path |-> Text(20), tag |-> Text(11), listen |-> At("0.0.0.0", 8445),
     fingerprint |-> "firefox"]
Xray == [api |-> At("0.0.0.0", 10085), api_server |-> At("vpn", 10085),
         credential_key |-> Text(32)]
Shadowsocks ==
    [on |-> TRUE, id |-> "ss", public_host |-> "192.0.2.1", port_start |-> 20000,
     port_end |-> 20999, manager |-> At("vpn", 6100), credential_key |-> Text(32)]
WireGuard ==
    [on |-> TRUE, id |-> "wg", public_host |-> "vpn", public_port |-> 443, sni |-> "vpn",
     manager_url |-> Manager, manager_token |-> Text(32), credential_key |-> Text(32),
     server_public_key |-> Text(44) @@ [bytes |-> 32], path_prefix |-> Text(16)]
Node == [node_id |-> Text(10), node_name |-> Text(8),
         location |-> [country_code |-> Text(2), country_name |-> Text(7),
                       city |-> Text(0), latitude |-> 0, longitude |-> 0]]

Base ==
    [hysteria |-> Hysteria, openvpn |-> OpenVpn, reality |-> Reality, xhttp |-> Xhttp,
     xray |-> Xray, shadowsocks |-> Shadowsocks, wireguard |-> WireGuard, extra |-> << >>,
     node |-> Node, public_url |-> Url("https", "vpn"), admin_token |-> Text(32),
     max_sessions |-> 1000, session_ttl |-> 1800]

(* The values a field is taken through. *)
Hosts == {"", "bad", "vpn", "cdn", "192.0.2.1", "2001:db8::1"}
Ports == {0, 1, 65535, 65536}
Texts(S) == {Text(n) : n \in S} \cup {Unclean(n) : n \in S}
Materials == {Material(0, 0), Material(8192, 8191), Material(8192, 8192), Material(8193, 8000),
              [Material(900, 800) EXCEPT !.wellFormed = FALSE]}

Vary(kind, field, values) == {[Base EXCEPT ![kind][field] = v] : v \in values}
Vary2(kind, f, vs, g, ws) ==
    {[Base EXCEPT ![kind][f] = v, ![kind][g] = w] : v \in vs, w \in ws}

HysteriaEnvs ==
    Vary2("hysteria", "public_host", Hosts, "sni", Hosts)
    \cup Vary("hysteria", "public_port", Ports)
    \cup Vary("hysteria", "stats_secret", Texts({31, 32}))
    \cup Vary("hysteria", "masquerade", {"", "http"})
    \cup Vary2("hysteria", "obfs", {"none", "salamander", "gecko", "other"},
               "password", Texts({0, 31, 32, 4096, 4097}))

OpenVpnEnvs ==
    Vary2("openvpn", "public_host", Hosts, "sni", Hosts)
    \cup Vary("openvpn", "public_port", Ports)
    \cup UNION {Vary("openvpn", f, Materials) : f \in {"ca", "stunnel_ca", "tls_crypt"}}
    \cup Vary2("openvpn", "manager_token", Texts({31, 32}), "auth_token",
               Texts({31, 32, 512, 513}))
    \cup Vary("openvpn", "manager_url", {Url("https", "agent"), Url("http", "")})

XrayEnvs ==
    Vary2("reality", "public_host", Hosts, "sni", Hosts)
    \cup Vary2("xhttp", "public_host", Hosts, "sni", Hosts)
    \cup UNION {Vary(k, "public_port", Ports) \cup Vary(k, "tag", Texts({0, 1, 64, 65, 11, 13}))
                \cup Vary(k, "fingerprint", Fingerprints \cup {"other"}) :
                k \in {"reality", "xhttp"}}
    \cup Vary("reality", "server_names", {{}, {"vpn"}, {"cdn"}, {"cdn", "192.0.2.1"}})
    \cup Vary("reality", "short_id", Texts({15, 16, 17}))
    \cup Vary("reality", "public_key", {Reality.private_key, Text(42), Unclean(43)})
    \cup Vary("reality", "target", {At("bad", 443), At("cdn", 0)})
    \cup Vary("xhttp", "path", Texts({15, 16, 128, 129}))
    \cup Vary("xray", "credential_key", Texts({31, 32}))
    \cup {[Base EXCEPT !.xray.api = a, !.reality.listen = r, !.xhttp.listen = x] :
            a \in {At("0.0.0.0", 8444), At("::", 8444), At("192.0.2.1", 8445)},
            r \in {At("0.0.0.0", 8444), At("192.0.2.1", 8444), At("2001:db8::1", 8444)},
            x \in {At("192.0.2.1", 8444), At("0.0.0.0", 8445), At("vpn", 8445), At("::", 0)}}

ShadowsocksEnvs ==
    Vary("shadowsocks", "public_host", Hosts)
    \cup Vary2("shadowsocks", "port_start", {0, 1, 20001, 64536, 64537, 65536},
               "port_end", {1000, 20999, 65535})
    \cup Vary("shadowsocks", "manager", {At("", 6100), At("vpn", 65536)})

WireGuardEnvs ==
    Vary2("wireguard", "public_host", Hosts, "sni", Hosts)
    \cup Vary("wireguard", "path_prefix", Texts({15, 16, 96, 97}))
    \cup Vary("wireguard", "server_public_key", {Text(44) @@ [bytes |-> 31], Text(0) @@ [bytes |-> 0]})

(* Capacities at the limits of the pools, with and without Shadowsocks. *)
CapacityEnvs ==
    {[Base EXCEPT !.max_sessions = n, !.shadowsocks.on = ss, !.shadowsocks.port_end = 20000 + 1499] :
        n \in {0, 1, 254, 1500, 1501, 65533, 65534}, ss \in BOOLEAN}
    \cup {[Base EXCEPT !.max_sessions = n, !.shadowsocks.on = FALSE, !.openvpn.on = FALSE] :
        n \in {65533, 65534}}

NodeEnvs ==
    {[Base EXCEPT !.extra = <<Profile(id, "wireguard", h, 443, "tcp", 50, "", << >>)>>] :
        id \in {"x", "", "bad id", "wg"}, h \in {"vpn", "bad"}}
    \cup {[Base EXCEPT ![k].id = "hy2"] : k \in {"openvpn", "reality", "wireguard"}}
    \cup {[Base EXCEPT ![k].on = FALSE] : k \in {"hysteria", "openvpn", "reality", "xhttp",
                                                "shadowsocks", "wireguard"}}
    \cup {[Base EXCEPT !.hysteria.on = FALSE, !.openvpn.on = FALSE, !.reality.on = FALSE,
                       !.xhttp.on = FALSE, !.wireguard.on = FALSE, !.shadowsocks.on = ss] :
            ss \in BOOLEAN}
    \cup {[Base EXCEPT !.public_url = u] :
            u \in {Url("http", "localhost"), Url("http", "vpn"), Url("ftp", "vpn"),
                   [Url("https", "vpn") EXCEPT !.extras = TRUE],
                   [Url("https", "vpn") EXCEPT !.text = Text(2048)],
                   [Url("https", "vpn") EXCEPT !.text = Text(2049)]}}
    \cup {[Base EXCEPT !.node[f] = t] : f \in {"node_id", "node_name"},
                                        t \in Texts({0, 1, 128, 129})}
    \cup {[Base EXCEPT !.node.location[f] = t] : f \in {"country_code", "country_name", "city"},
                                                 t \in Texts({0, 2, 128, 129})}
    \cup {[Base EXCEPT !.node.location.latitude = a, !.node.location.longitude = o] :
            a \in {-91, -90, 90}, o \in {-180, 180, 181}}
    \cup {[Base EXCEPT !.admin_token = t] : t \in {Text(31)}}
    \cup {[Base EXCEPT !.session_ttl = n] : n \in {59, 60, 86400, 86401}}

MCEnvironments ==
    {Base} \cup HysteriaEnvs \cup OpenVpnEnvs \cup XrayEnvs \cup ShadowsocksEnvs
    \cup WireGuardEnvs \cup CapacityEnvs \cup NodeEnvs

Idle == [load |-> << >>, processors |-> 0, memory |-> << >>]
Busy == [load |-> <<3>>, processors |-> 2, memory |-> <<100, 101>>]
None == [load |-> <<0>>, processors |-> 1, memory |-> <<0, 0>>]
Choice(slot, grant, life, r, clock, allowance) ==
    [slot |-> slot, grant |-> grant, life |-> life, reading |-> r, clock |-> clock,
     allowance |-> allowance]

(* The last slot in every environment, both ends of the capacity where it  *)
(* varies; in the first environment also a lease that ends with its        *)
(* invite, for clients on time and a second late, and an allowance out of  *)
(* range; and an invite for OpenVPN alone, also where it is not offered.   *)
MCEnrolAs(e) ==
    {Choice(n, Protocols, << >>, Idle, -5, << >>) :
        n \in {0, 254, e.max_sessions - 1} \cap
              (IF e \in CapacityEnvs \cup {Base} THEN 0 .. e.max_sessions - 1
               ELSE {e.max_sessions - 1})}
    \cup {c \in {Choice(0, {"wireguard", "xor"}, <<1>>, Busy, clock, <<MAX_ALLOWANCE>>) :
                    clock \in {0, 1}} : e = Base}
    \cup {c \in {Choice(0, {"openvpn"}, << >>, None, 0, <<b>>) : b \in {0, MIN_ALLOWANCE}} :
            e \in {Base, [Base EXCEPT !.openvpn.on = FALSE]}}

MCAddresses == {"192.0.2.1", "2001:db8::1"}
Symmetry == Permutations({s1, s2})

MCReadings(e) == IF e = Base THEN {Idle, Busy, None} ELSE {Idle}

(* All engines answer, none does, or only one of them. *)
Answer == [failed |-> FALSE, sent |-> 900, received |-> 0, online |-> 1]
Failure == [failed |-> TRUE]
MCReports(controls) ==
    {[c \in controls |-> Answer], [c \in controls |-> Failure]}
    \cup {[c \in controls |-> IF c = d THEN Answer ELSE Failure] : d \in controls}
=============================================================================
