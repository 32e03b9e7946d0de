------------------------------ MODULE Adapters ------------------------------
(***************************************************************************)
(* What a Ket client does with the documents a server sends: the checks    *)
(* every manifest and status passes before it is kept, and, per protocol,  *)
(* the checks of the adapter and the engine configuration it writes.       *)
(* A transport is a profile with its credential, << >> when it has none.   *)
(* A secret is what it is, a tuple, with its length, the length it decodes *)
(* to (0 when it is not Base64) and whether its characters are accepted.   *)
(***************************************************************************)
EXTENDS ServerConfig

MAX_SECRET_ENTRIES == 16
MAX_SECRET_CHARS == 4096
MAX_OPTION_ENTRIES == 32
MAX_OPENVPN_ENCODED_MATERIAL_CHARS == 10924

Secret(is, chars, bytes) == [is |-> is, chars |-> chars, bytes |-> bytes, clean |-> TRUE]

OpenVpnMaterials ==
    {"ca_certificate_pem_b64", "stunnel_ca_certificate_pem_b64", "tls_crypt_key_b64"}

validate_endpoint_name(h) == h # ""
validate_endpoint(h) == validate_endpoint_name(h) /\ h # "bad"
validate_public_url(u) ==
    /\ validate_text(u.text, MAX_PUBLIC_URL_CHARS)
    /\ u.scheme \in {"http", "https"} /\ u.host # "" /\ ~u.extras
validate_bounded_secret(s, most) == s.chars \in 1 .. most /\ s.clean

(* An end is in seconds after the server sent it, and now is what the      *)
(* client's clock, which may be wrong, then makes of the time; access is   *)
(* << >> for an invite without an end of its own.                          *)
validate_future_expiry(expires_at, now) == expires_at > now
validate_access_expiry(access, session, now) ==
    \A i \in DOMAIN access :
        validate_future_expiry(access[i], now) /\ session <= access[i]

(* In megabytes: 2^30 of them are the petabyte an allowance may have. *)
MIN_ALLOWANCE == 1
MAX_ALLOWANCE == 1073741824
DataAllowanceIsValid(bytes) == bytes \in MIN_ALLOWANCE .. MAX_ALLOWANCE

(* A node that reports no memory has << >>, else <<used, total>>; its CPU  *)
(* load is << >> or a percentage.                                          *)
validate_node(n) ==
    /\ validate_identifier(n.node_id, MAX_NODE_TEXT_CHARS)
    /\ validate_text(n.node_name, MAX_NODE_TEXT_CHARS)
    /\ validate_public_url(n.public_url)
    /\ n.location.country_code.chars = 2 /\ n.location.country_code.clean
    /\ validate_text(n.location.country_name, MAX_NODE_TEXT_CHARS)
    /\ n.location.city.chars > 0 => validate_text(n.location.city, MAX_NODE_TEXT_CHARS)
    /\ n.location.latitude \in -90 .. 90 /\ n.location.longitude \in -180 .. 180
    /\ n.session_capacity # 0 /\ n.active_sessions <= n.session_capacity
    /\ n.capacity_percent \in 0 .. 100
    /\ \A i \in DOMAIN n.cpu : n.cpu[i] \in 0 .. 100
    /\ n.memory = << >> \/ (n.memory[2] > 0 /\ n.memory[1] <= n.memory[2])

validate_traffic(t) ==
    ~t.available => t.bytes_sent = 0 /\ t.bytes_received = 0 /\ t.online = 0

validate_manifest(m, now) ==
    /\ validate_future_expiry(m.session_left, now)
    /\ validate_access_expiry(m.access_left, m.session_left, now)
    /\ validate_node(m.node)
    /\ Len(m.transports) \in 1 .. MAX_TRANSPORTS
    /\ \A i, j \in DOMAIN m.transports : m.transports[i].id = m.transports[j].id => i = j
    /\ \A i \in DOMAIN m.transports :
        LET t == m.transports[i] IN
        /\ t.id \notin {"", "bad id"}
        /\ validate_endpoint(t.endpoint) /\ t.port # 0
        /\ Cardinality(DOMAIN t.options) <= MAX_OPTION_ENTRIES
        /\ \A c \in DOMAIN t.credential :
            LET secrets == t.credential[c].secrets IN
            /\ validate_bounded_secret(t.credential[c].auth, MAX_SECRET_CHARS)
            /\ Cardinality(DOMAIN secrets) <= MAX_SECRET_ENTRIES
            /\ \A k \in DOMAIN secrets :
                validate_bounded_secret(secrets[k],
                    IF t.protocol = "openvpn" /\ k \in OpenVpnMaterials
                    THEN MAX_OPENVPN_ENCODED_MATERIAL_CHARS ELSE MAX_SECRET_CHARS)

validate_status(s, session, client_name, now) ==
    /\ s.session_id = session
    /\ s.client_name = client_name
    /\ validate_future_expiry(s.session_left, now)
    /\ validate_access_expiry(s.access_left, s.session_left, now)
    /\ validate_node(s.node)
    /\ validate_traffic(s.traffic)
    /\ \A i \in DOMAIN s.allowance : DataAllowanceIsValid(s.allowance[i])

-----------------------------------------------------------------------------
(* What the adapters share.  A hostname of dotted labels: an IPv4 address  *)
(* looks like one, an IPv6 address does not.                               *)
valid_hostname(h) == h \in DnsNames \cup Ipv4 \cup {"agent"}
valid_endpoint(h) == h \in IpAddr \/ valid_hostname(h)
valid_xhttp_path(t) == t.chars \in 16 .. 128 /\ t.clean
valid_uuid(s) == s.chars = 36 /\ s.clean
validate_key(s) == s.bytes = 32

reject_unknown_options(t, known) == DOMAIN t.options \subseteq known
require_options(t, expected) ==
    DOMAIN expected \subseteq DOMAIN t.options
    /\ \A k \in DOMAIN expected : t.options[k] = expected[k]
validate_fingerprint(t) ==
    "fingerprint" \in DOMAIN t.options /\ t.options.fingerprint \in Fingerprints

HasCredential(t) == t.credential # << >>
Secrets(t) == t.credential[1].secrets
required_secret(t, k) == k \in DOMAIN Secrets(t) /\ Secrets(t)[k].chars > 0

(* host:port as text: an IPv6 address is read back only between brackets. *)
Authority(address, port) == [host |-> address, bracketed |-> address \in Ipv6, port |-> port]

-----------------------------------------------------------------------------
(* Hysteria 2, plain and obfuscated. *)
validate_protocol_mode(t) ==
    LET obfs == IF "obfs" \in DOMAIN t.options THEN t.options.obfs ELSE "none" IN
    \/ /\ t.protocol = "xor"
       /\ "inner_protocol" \in DOMAIN t.options /\ t.options.inner_protocol = "hysteria2"
       /\ obfs \in {"salamander", "gecko"}
    \/ t.protocol = "hysteria2" /\ "inner_protocol" \notin DOMAIN t.options

HysteriaValidate(t) ==
    /\ t.protocol \in {"hysteria2", "xor"} /\ t.network = "udp"
    /\ t.endpoint \notin {"", "bad"} /\ t.port # 0
    /\ t.tls_server_name # ""
    /\ HasCredential(t) /\ t.credential[1].auth.chars > 0
    /\ reject_unknown_options(t, {"inner_protocol", "obfs", "gecko_min_packet_size",
                                  "gecko_max_packet_size"})
    /\ DOMAIN Secrets(t) \subseteq {"obfs_password"}
    /\ validate_protocol_mode(t)

obfs_password(t) == required_secret(t, "obfs_password")
packet_size(t, key, default) == IF key \in DOMAIN t.options THEN t.options[key] ELSE default
MinSize(t) == packet_size(t, "gecko_min_packet_size", 512)
MaxSize(t) == packet_size(t, "gecko_max_packet_size", 1200)

HysteriaObfs(t) ==
    IF "obfs" \in DOMAIN t.options /\ t.options.obfs # "none"
    THEN [type |-> t.options.obfs, password |-> Secrets(t).obfs_password.is]
         @@ (IF t.options.obfs = "gecko" THEN [min |-> MinSize(t), max |-> MaxSize(t)]
             ELSE << >>)
    ELSE << >>

HysteriaRenders(t) ==
    /\ HysteriaValidate(t)
    /\ IF "obfs" \notin DOMAIN t.options \/ t.options.obfs = "none"
       THEN "obfs_password" \notin DOMAIN Secrets(t)
       ELSE /\ obfs_password(t)
            /\ t.options.obfs = "gecko" => MinSize(t) <= MaxSize(t) /\ MaxSize(t) <= 2048

HysteriaClient(t, address) ==
    [server |-> Authority(address, t.port), auth |-> t.credential[1].auth.is,
     sni |-> t.tls_server_name, obfs |-> HysteriaObfs(t)]

-----------------------------------------------------------------------------
(* Xray: VLESS with REALITY, and HTTPS Stealth over XHTTP. *)
validate_reality_transport(t) ==
    /\ reject_unknown_options(t, {"encryption", "fingerprint", "flow", "transport"})
    /\ require_options(t, [encryption |-> "none", flow |-> "xtls-rprx-vision",
                           transport |-> "raw"])
    /\ validate_fingerprint(t)
    /\ DOMAIN Secrets(t) \subseteq {"reality_password", "reality_short_id"}
    /\ required_secret(t, "reality_password") /\ required_secret(t, "reality_short_id")
    /\ Secrets(t).reality_password.chars = 43 /\ Secrets(t).reality_password.clean
    /\ Secrets(t).reality_short_id.chars = 16 /\ Secrets(t).reality_short_id.clean

validate_xhttp_transport(t) ==
    /\ reject_unknown_options(t, {"encryption", "fingerprint", "mode", "path", "security",
                                  "transport"})
    /\ require_options(t, [encryption |-> "none", mode |-> "packet-up",
                           security |-> "tls", transport |-> "xhttp"])
    /\ validate_fingerprint(t)
    /\ "path" \in DOMAIN t.options /\ valid_xhttp_path(t.options.path)
    /\ DOMAIN Secrets(t) = {}

XrayValidate(t) ==
    /\ t.network = "tcp" /\ t.protocol \in {"reality", "stealth"}
    /\ t.endpoint \notin {"", "bad"} /\ t.port # 0
    /\ valid_hostname(t.tls_server_name) /\ t.tls_server_name \notin IpAddr
    /\ HasCredential(t) /\ valid_uuid(t.credential[1].auth)
    /\ IF t.protocol = "reality" THEN validate_reality_transport(t)
       ELSE validate_xhttp_transport(t)

(* The address and the port are separate fields of the document. *)
XrayClient(t, address) ==
    [address |-> address, port |-> t.port, id |-> t.credential[1].auth.is,
     server_name |-> t.tls_server_name, network |-> t.options.transport]
    @@ (IF t.protocol = "reality"
        THEN [flow |-> t.options.flow, password |-> Secrets(t).reality_password.is,
              short_id |-> Secrets(t).reality_short_id.is]
        ELSE [host |-> t.tls_server_name, path |-> t.options.path,
              mode |-> t.options.mode])

-----------------------------------------------------------------------------
(* Shadowsocks 2022. *)
ShadowsocksValidate(t) ==
    /\ t.protocol = "shadowsocks" /\ t.network = "tcp_and_udp"
    /\ t.endpoint \notin {"", "bad"} /\ t.port # 0
    /\ t.tls_server_name = ""
    /\ reject_unknown_options(t, {"method", "mode", "port_allocation"})
    /\ require_options(t, [method |-> "2022-aes-256", mode |-> "tcp_and_udp",
                           port_allocation |-> "lease_slot"])
    /\ HasCredential(t) /\ DOMAIN Secrets(t) = {}
    /\ validate_key(t.credential[1].auth)

ShadowsocksClient(t, address) ==
    [address |-> address, port |-> t.port, password |-> t.credential[1].auth.is,
     method |-> "2022-aes-256"]

-----------------------------------------------------------------------------
(* WireGuard inside WebSocket over TLS. *)
validate_remote_address(a) == valid_hostname(a.host) /\ a.port \in 1 .. 65535
WireGuardHost(a) == a[3] * 256 + a[4]

WireGuardValidate(t) ==
    /\ t.protocol = "wireguard" /\ t.network = "tcp" /\ t.port # 0
    /\ valid_endpoint(t.endpoint)
    /\ valid_hostname(t.tls_server_name) /\ t.tls_server_name \notin IpAddr
    /\ reject_unknown_options(t, {"address_allocation", "allowed_ips", "client_address",
            "keepalive_seconds", "mtu", "path_prefix", "remote_address", "transport"})
    /\ require_options(t, [address_allocation |-> "lease_slot",
            allowed_ips |-> "0.0.0.0/0", keepalive_seconds |-> "25", mtu |-> "1280",
            transport |-> "websocket_tls"])
    /\ {"client_address", "path_prefix", "remote_address"} \subseteq DOMAIN t.options
    /\ LET a == t.options.client_address IN
        Len(a) = 4 /\ a[1] = 10 /\ a[2] = 66 /\ WireGuardHost(a) \in 2 .. 65534
    /\ validate_wireguard_path_prefix(t.options.path_prefix)
    /\ validate_remote_address(t.options.remote_address)
    /\ HasCredential(t) /\ DOMAIN Secrets(t) = {"preshared_key", "server_public_key"}
    /\ validate_key(t.credential[1].auth)
    /\ validate_key(Secrets(t).preshared_key) /\ validate_key(Secrets(t).server_public_key)

WireGuardClient(t) ==
    [secret_key |-> t.credential[1].auth.is, address |-> t.options.client_address,
     peer |-> Secrets(t).server_public_key.is, preshared |-> Secrets(t).preshared_key.is]

wstunnel_arguments(t, address) ==
    [server |-> Authority(address, t.port), sni |-> t.tls_server_name,
     header |-> t.tls_server_name, prefix |-> t.options.path_prefix,
     remote |-> t.options.remote_address]

-----------------------------------------------------------------------------
(* OpenVPN inside stunnel. *)
decode_material(t, key) ==
    /\ required_secret(t, key)
    /\ Secrets(t)[key].bytes \in 1 .. MAX_OPENVPN_MATERIAL_BYTES

(* The username is a session id; the password is the session's token for   *)
(* the data plane, whose first twelve characters are that id.              *)
OpenVpnValidate(t) ==
    /\ t.protocol = "openvpn" /\ t.network = "tcp" /\ t.port # 0
    /\ valid_endpoint(t.endpoint)
    /\ valid_hostname(t.tls_server_name) /\ t.tls_server_name \notin IpAddr
    /\ t.tls_server_name = t.endpoint \/ t.endpoint \in IpAddr
    /\ reject_unknown_options(t, {"auth_mode", "cipher", "remote_cert_tls", "tls_crypt",
                                  "tls_minimum", "transport"})
    /\ require_options(t, [auth_mode |-> "session_token", cipher |-> "aes_256_gcm",
            remote_cert_tls |-> "server", tls_crypt |-> "v1", tls_minimum |-> "1.2",
            transport |-> "stunnel_tls"])
    /\ HasCredential(t) /\ DOMAIN Secrets(t) = OpenVpnMaterials \cup {"username"}
    /\ LET password == t.credential[1].auth IN
        /\ Secrets(t).username.chars = 12 /\ Secrets(t).username.clean
        /\ password.chars = 44 /\ password.clean
        /\ password.is[2] = Secrets(t).username.is[2]
    /\ \A k \in OpenVpnMaterials : decode_material(t, k)

render_stunnel_config(t, address) ==
    [connect |-> Authority(address, t.port), check_host |-> t.tls_server_name,
     sni |-> t.tls_server_name, ca |-> Secrets(t).stunnel_ca_certificate_pem_b64.is]

(* The routes keep the server's own addresses outside the tunnel. *)
render_openvpn_config(t, addresses) ==
    [verify_name |-> t.tls_server_name, direct |-> addresses,
     ca |-> Secrets(t).ca_certificate_pem_b64.is,
     tls_crypt |-> Secrets(t).tls_crypt_key_b64.is,
     username |-> Secrets(t).username.is, password |-> t.credential[1].auth.is]
=============================================================================
