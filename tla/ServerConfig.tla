---------------------------- MODULE ServerConfig ----------------------------
(***************************************************************************)
(* How ket-server turns its environment into the transports it offers.     *)
(* An environment is a record with one record per protocol; a protocol     *)
(* that is not enabled has on = FALSE.  Text is abstracted to what the     *)
(* checks look at: a host is a name of one of the kinds below, any other   *)
(* text is its length and whether every character is one the check allows. *)
(***************************************************************************)
EXTENDS Integers, Sequences, FiniteSets, SequencesExt

(* The bounds of config.rs, under their names there. *)
MAX_NODE_TEXT_CHARS == 128
MAX_PUBLIC_URL_CHARS == 2048
MAX_TRANSPORTS == 32
MAX_SHADOWSOCKS_MANAGER_SERVERS == 1500
MAX_OPENVPN_MATERIAL_BYTES == 8192

Text(n) == [chars |-> n, clean |-> TRUE]
Unclean(n) == [chars |-> n, clean |-> FALSE]

(* Hosts: DNS names, addresses, and a text that is neither.  The empty     *)
(* text is a setting that is not given.                                    *)
DnsNames == {"vpn", "cdn"}
Unspecified == {"0.0.0.0", "::"}
Ipv4 == {"192.0.2.1", "0.0.0.0"}
Ipv6 == {"2001:db8::1", "::"}
IpAddr == Ipv4 \cup Ipv6

required(text) == text.chars > 0
value(given, default) == IF given = "" THEN default ELSE given
parse_value(port) == port \in 0 .. 65535
nonzero_port(port) == parse_value(port) /\ port # 0

validate_hostname(h) == h \in DnsNames \cup IpAddr
validate_dns_name(h) == validate_hostname(h) /\ h \notin IpAddr
validate_listen_host(h) == h \in IpAddr
required_hostname(h) == h # "" /\ validate_hostname(h)
required_dns_name(h) == h # "" /\ validate_dns_name(h)

(* host:port, a record with the two halves. *)
validate_authority(a) == validate_hostname(a.host) /\ a.port \in 1 .. 65535
validate_target(a) == validate_authority(a)

validate_identifier(t, most) == t.chars \in 1 .. most /\ t.clean
validate_text(t, most) == t.chars \in 1 .. most /\ t.clean
bounded_tag(t) == t.chars \in 1 .. 64 /\ t.clean

(* A URL: its scheme, its host, and whether it carries a user, a password, *)
(* a query or a fragment.                                                  *)
Loopback == {"localhost", "127.0.0.1"}
validate_http_manager_url(u) == u.scheme = "http" /\ u.host # "" /\ ~u.extras
is_loopback_url(u) == u.host \in Loopback
normalize_public_url(u) ==
    /\ validate_text(u.text, MAX_PUBLIC_URL_CHARS)
    /\ u.scheme \in {"http", "https"}
    /\ u.host # ""
    /\ ~u.extras
    /\ u.scheme = "http" => is_loopback_url(u)

Fingerprints == {"chrome", "firefox", "safari", "ios", "android", "edge", "random"}
fingerprint(given) == value(given, "chrome") \in Fingerprints
validate_xhttp_path(t) == t.chars \in 16 .. 128 /\ t.clean
validate_wireguard_path_prefix(t) == t.chars \in 16 .. 96 /\ t.clean
required_reality_key(k) == k.chars = 43 /\ k.clean
required_wireguard_key(k) == required(k) /\ k.bytes = 32

listeners_conflict(a, b) ==
    /\ a.port = b.port
    /\ \/ {a.host, b.host} \subseteq Ipv4
       \/ {a.host, b.host} \subseteq Ipv6
    /\ a.host = b.host \/ a.host \in Unspecified \/ b.host \in Unspecified

-----------------------------------------------------------------------------
(* PEM material: the file's size, the size of its envelope once the        *)
(* comments before it and the blanks around it are gone, and whether it    *)
(* has the markers, the preamble and the line lengths that are accepted.   *)

(* The envelope is kept, with one newline after it. *)
normalize_openvpn_material(m) == [bytes |-> m.envelope + 1]

read_openvpn_material(m) ==
    /\ m.file \in 1 .. MAX_OPENVPN_MATERIAL_BYTES
    /\ m.wellFormed

obfuscation_password(p) == p.chars >= 32

-----------------------------------------------------------------------------
(* The settings of each protocol that from_env accepts.                    *)

OpenVpnFromEnv(e, max_sessions) ==
    /\ max_sessions <= 65533
    /\ validate_http_manager_url(e.manager_url)
    /\ e.manager_token.chars >= 32
    /\ e.auth_token.chars \in 32 .. 512 /\ e.auth_token.clean
    /\ e.auth_token # e.manager_token
    /\ \A m \in {e.ca, e.stunnel_ca, e.tls_crypt} : read_openvpn_material(m)
    /\ required_hostname(e.public_host)
    /\ nonzero_port(e.public_port)
    /\ required_dns_name(e.sni)

(* A mutation: the pool is taken to hold as many sessions as it has host numbers. *)
WireGuardFromEnvOverfull(e, max_sessions) ==
    /\ max_sessions <= 65535
    /\ validate_http_manager_url(e.manager_url)
    /\ e.manager_token.chars >= 32
    /\ e.credential_key.chars >= 32
    /\ required_wireguard_key(e.server_public_key)
    /\ validate_wireguard_path_prefix(e.path_prefix)
    /\ required_hostname(e.public_host)
    /\ nonzero_port(e.public_port)
    /\ required_dns_name(e.sni)

WireGuardFromEnv(e, max_sessions) ==
    /\ max_sessions <= 65533
    /\ validate_http_manager_url(e.manager_url)
    /\ e.manager_token.chars >= 32
    /\ e.credential_key.chars >= 32
    /\ required_wireguard_key(e.server_public_key)
    /\ validate_wireguard_path_prefix(e.path_prefix)
    /\ required_hostname(e.public_host)
    /\ nonzero_port(e.public_port)
    /\ required_dns_name(e.sni)

ShadowsocksFromEnv(e, max_sessions) ==
    /\ validate_authority(e.manager)
    /\ required_hostname(e.public_host)
    /\ max_sessions <= MAX_SHADOWSOCKS_MANAGER_SERVERS
    /\ nonzero_port(e.port_start) /\ nonzero_port(e.port_end)
    /\ e.port_end >= e.port_start
    /\ e.port_end - e.port_start + 1 >= max_sessions
    /\ e.credential_key.chars >= 32

HysteriaFromEnv(e) ==
    /\ required_hostname(e.public_host)
    /\ nonzero_port(e.public_port)
    /\ e.stats_secret.chars >= 32
    /\ e.masquerade = "https"
    /\ e.obfs \in {"none", "salamander", "gecko"}
    /\ e.obfs # "none" => obfuscation_password(e.password)

XrayRealityFromEnv(e) ==
    /\ required_hostname(e.public_host)
    /\ required_dns_name(e.sni)
    /\ e.server_names # {} /\ \A n \in e.server_names : validate_dns_name(n)
    /\ e.sni \in e.server_names
    /\ validate_target(e.target)
    /\ required_reality_key(e.private_key) /\ required_reality_key(e.public_key)
    /\ e.private_key # e.public_key
    /\ e.short_id.chars = 16 /\ e.short_id.clean
    /\ validate_listen_host(e.listen.host) /\ nonzero_port(e.listen.port)
    /\ bounded_tag(e.tag)
    /\ nonzero_port(e.public_port)
    /\ fingerprint(e.fingerprint)

XrayXhttpFromEnv(e) ==
    /\ validate_listen_host(e.listen.host) /\ nonzero_port(e.listen.port)
    /\ validate_xhttp_path(e.path)
    /\ bounded_tag(e.tag)
    /\ required_hostname(e.public_host)
    /\ nonzero_port(e.public_port)
    /\ required_dns_name(e.sni)
    /\ fingerprint(e.fingerprint)

(* Both Xray protocols share one engine: its interface, the tags of its    *)
(* inbounds and their listeners must not collide.                          *)
XrayFromEnv(e) ==
    /\ nonzero_port(e.xray.api.port)
    /\ e.xray.credential_key.chars >= 32
    /\ validate_authority(e.xray.api_server)
    /\ validate_listen_host(e.xray.api.host)
    /\ e.reality.on => XrayRealityFromEnv(e.reality)
    /\ e.xhttp.on => XrayXhttpFromEnv(e.xhttp)
    /\ e.reality.on /\ e.xhttp.on => e.reality.tag # e.xhttp.tag
    /\ e.reality.on => ~listeners_conflict(e.xray.api, e.reality.listen)
    /\ e.xhttp.on => ~listeners_conflict(e.xray.api, e.xhttp.listen)
    /\ e.reality.on /\ e.xhttp.on => ~listeners_conflict(e.reality.listen, e.xhttp.listen)

-----------------------------------------------------------------------------
(* The profile of each protocol, as the manifest carries it.  A profile    *)
(* without a TLS server name has the empty one.                            *)

Profile(id, protocol, endpoint, port, network, priority, sni, options) ==
    [id |-> id, protocol |-> protocol, endpoint |-> endpoint, port |-> port,
     network |-> network, priority |-> priority, tls_server_name |-> sni,
     options |-> options]

OpenVpnProfile(c) ==
    Profile(c.id, "openvpn", c.public_host, c.public_port, "tcp", 8, c.sni,
        [auth_mode |-> "session_token", cipher |-> "aes_256_gcm",
         remote_cert_tls |-> "server", tls_crypt |-> "v1", tls_minimum |-> "1.2",
         transport |-> "stunnel_tls"])

WireGuardProfile(c) ==
    Profile(c.id, "wireguard", c.public_host, c.public_port, "tcp", 2, c.sni,
        [address_allocation |-> "lease_slot", allowed_ips |-> "0.0.0.0/0",
         keepalive_seconds |-> "25", mtu |-> "1280", path_prefix |-> c.path_prefix,
         remote_address |-> [host |-> "agent", port |-> 51820],
         transport |-> "websocket_tls"])

ShadowsocksProfile(c) ==
    Profile(c.id, "shadowsocks", c.public_host, c.port_start, "tcp_and_udp", 15, "",
        [method |-> "2022-aes-256", mode |-> "tcp_and_udp",
         port_allocation |-> "lease_slot"])

HysteriaProfile(c) ==
    LET wrapped == [inner_protocol |-> "hysteria2", obfs |-> c.obfs]
        sizes == [gecko_min_packet_size |-> 512, gecko_max_packet_size |-> 1200]
    IN  Profile(c.id, IF c.obfs = "none" THEN "hysteria2" ELSE "xor", c.public_host,
                c.public_port, "udp", 10, value(c.sni, c.public_host),
                CASE c.obfs = "none" -> << >>
                  [] c.obfs = "salamander" -> wrapped
                  [] c.obfs = "gecko" -> wrapped @@ sizes)

XrayRealityProfile(c) ==
    Profile(c.id, "reality", c.public_host, c.public_port, "tcp", 5, c.sni,
        [encryption |-> "none", fingerprint |-> value(c.fingerprint, "chrome"),
         flow |-> "xtls-rprx-vision", transport |-> "raw"])

XrayXhttpProfile(c) ==
    Profile(c.id, "stealth", c.public_host, c.public_port, "tcp", 1, c.sni,
        [encryption |-> "none", fingerprint |-> value(c.fingerprint, "chrome"),
         mode |-> "packet-up", path |-> c.path, security |-> "tls",
         transport |-> "xhttp"])

-----------------------------------------------------------------------------
(* Slots of the lease table become ports and tunnel addresses.  NoResource *)
(* is the None of session_port and client_address.                         *)
NoResource == << >>

session_port(c, slot) ==
    IF c.port_start + slot <= c.port_end THEN <<c.port_start + slot>> ELSE NoResource

client_address(slot) ==
    IF slot + 2 <= 65534 THEN <<10, 66, (slot + 2) \div 256, (slot + 2) % 256>>
    ELSE NoResource

-----------------------------------------------------------------------------
(* The transports of a whole environment, in the order from_env adds them. *)
Advertised(e) ==
    e.extra
    \o (IF e.hysteria.on THEN <<HysteriaProfile(e.hysteria)>> ELSE << >>)
    \o (IF e.openvpn.on THEN <<OpenVpnProfile(e.openvpn)>> ELSE << >>)
    \o (IF e.reality.on THEN <<XrayRealityProfile(e.reality)>> ELSE << >>)
    \o (IF e.xhttp.on THEN <<XrayXhttpProfile(e.xhttp)>> ELSE << >>)
    \o (IF e.shadowsocks.on THEN <<ShadowsocksProfile(e.shadowsocks)>> ELSE << >>)
    \o (IF e.wireguard.on THEN <<WireGuardProfile(e.wireguard)>> ELSE << >>)

(* A mutation: two transports may share an id. *)
validate_transports_loosely(ts) ==
    /\ Len(ts) <= MAX_TRANSPORTS
    /\ \A i \in DOMAIN ts : validate_hostname(ts[i].endpoint) /\ ts[i].port # 0

(* Ids are model strings; the ill-formed one is "bad id".  Display names,   *)
(* option keys and option values of the profiles above are within bounds.  *)
validate_transports(ts) ==
    /\ Len(ts) <= MAX_TRANSPORTS
    /\ \A i \in DOMAIN ts :
        /\ ts[i].id \notin {"", "bad id"}
        /\ validate_hostname(ts[i].endpoint) /\ ts[i].port # 0
        /\ ts[i].tls_server_name # "" => validate_hostname(ts[i].tls_server_name)
    /\ \A i, j \in DOMAIN ts : ts[i].id = ts[j].id => i = j

validate_location(l) ==
    /\ l.country_code.chars = 2 /\ l.country_code.clean
    /\ l.latitude \in -90 .. 90
    /\ l.longitude \in -180 .. 180

validate_node_metadata(n) ==
    /\ validate_identifier(n.node_id, MAX_NODE_TEXT_CHARS)
    /\ validate_text(n.node_name, MAX_NODE_TEXT_CHARS)
    /\ validate_text(n.location.country_name, MAX_NODE_TEXT_CHARS)
    /\ n.location.city.chars > 0 => validate_text(n.location.city, MAX_NODE_TEXT_CHARS)
    /\ validate_location(n.location)

(* ServerConfig::from_env: the settings the server starts with. *)
FromEnv(e) ==
    /\ e.admin_token.chars >= 32
    /\ normalize_public_url(e.public_url)
    /\ e.max_sessions > 0
    /\ e.session_ttl \in 60 .. 86400
    /\ e.hysteria.on => HysteriaFromEnv(e.hysteria)
    /\ e.openvpn.on => OpenVpnFromEnv(e.openvpn, e.max_sessions)
    /\ e.reality.on \/ e.xhttp.on => XrayFromEnv(e)
    /\ e.shadowsocks.on => ShadowsocksFromEnv(e.shadowsocks, e.max_sessions)
    /\ e.wireguard.on => WireGuardFromEnv(e.wireguard, e.max_sessions)
    /\ validate_transports(Advertised(e))
    /\ validate_node_metadata(e.node)
=============================================================================
