----------------------------- MODULE ShareRules -----------------------------
(***************************************************************************)
(* The decisions of the share a nearby device meets: what its handshake    *)
(* asks for (ket-share's socks5.rs, http.rs, target.rs), whether it is     *)
(* signed in (credentials.rs), which addresses it may reach (policy.rs),   *)
(* what a resolver's reply says (dns.rs), which local addresses can be     *)
(* shared on and which tunnel carries the share (share/plan.rs).           *)
(*                                                                         *)
(* An IPv4 address is its four octets; an IPv6 address is its first two    *)
(* segments and the IPv4 address it maps, if any.  A host name is the      *)
(* sequence of its labels in lower case.  A handshake is a record of the   *)
(* facts the code reads from the bytes, in the order it reads them.        *)
(***************************************************************************)
EXTENDS Integers, Sequences

CONSTANTS
    InvalidLabels,      \* labels valid_label turns down
    DigitLabels         \* labels made of digits only

NoPassword == 0
NoPort == -1            \* no port is written
BadPort == -2           \* not a number, or beyond 65535

V4(a, b, c, d) == [v |-> 4, octets |-> <<a, b, c, d>>]
V6(first, second) == [v |-> 6, segments |-> <<first, second>>, mapped |-> <<>>]
Mapped(a, b, c, d) == [v |-> 6, segments |-> <<0, 0>>, mapped |-> <<a, b, c, d>>]

-----------------------------------------------------------------------------
(* policy.rs *)

Ipv4Range(a, b, c, d, length) == [network |-> <<a, b, c, d>>, length |-> length]

\* Ipv4Range::contains: the first `length` bits agree.
contains(range, octets) ==
    \A i \in 1..4 :
        LET bits == range.length - 8 * (i - 1)
            drop == 2 ^ (IF bits >= 8 THEN 0 ELSE IF bits <= 0 THEN 8 ELSE 8 - bits)
        IN  octets[i] \div drop = range.network[i] \div drop

RESERVED_IPV4 ==
    { Ipv4Range(0, 0, 0, 0, 8), Ipv4Range(10, 0, 0, 0, 8), Ipv4Range(100, 64, 0, 0, 10),
      Ipv4Range(127, 0, 0, 0, 8), Ipv4Range(169, 254, 0, 0, 16), Ipv4Range(172, 16, 0, 0, 12),
      Ipv4Range(192, 0, 0, 0, 24), Ipv4Range(192, 0, 2, 0, 24), Ipv4Range(192, 168, 0, 0, 16),
      Ipv4Range(198, 18, 0, 0, 15), Ipv4Range(198, 51, 100, 0, 24),
      Ipv4Range(203, 0, 113, 0, 24), Ipv4Range(224, 0, 0, 0, 4), Ipv4Range(240, 0, 0, 0, 4) }

\* Global unicast, less documentation and 6to4.
public_ipv6(segments) ==
    /\ segments[1] \div 8192 = 1
    /\ ~(segments[1] = 8193 /\ segments[2] = 3512)
    /\ segments[1] # 8194

allowed_ipv4(octets, origin, synthetic) ==
    \/ origin = "resolved" /\ contains(synthetic, octets)
    \/ \A range \in RESERVED_IPV4 : ~contains(range, octets)

\* Mutation: stand-in addresses are reachable however the device names them.
allowed_standin(address, origin, synthetic) ==
    IF address.v = 4 THEN allowed_ipv4(address.octets, "resolved", synthetic)
                     ELSE public_ipv6(address.segments)

allowed(address, origin, synthetic) ==
    IF address.v = 4 THEN allowed_ipv4(address.octets, origin, synthetic)
    ELSE IF address.mapped # <<>> THEN allowed_ipv4(address.mapped, origin, synthetic)
    ELSE public_ipv6(address.segments)

-----------------------------------------------------------------------------
(* target.rs: a host is an address or a name; anything else is an error. *)

LocalSuffixes == {"localhost", "local", "internal", "lan", "home", "arpa"}

Err(why) == [ok |-> FALSE, why |-> why]
Ok(value) == [ok |-> TRUE, value |-> value]

valid_label(label) == label \notin InvalidLabels

\* text is [address |-> a], [labels |-> seq] or, in brackets, [inner |-> as]
\* with the set of the address it reads as, empty when it is none.
parse(text) ==
    IF "inner" \in DOMAIN text
    THEN IF \A a \in text.inner : a.v = 4 THEN Err("Invalid")
         ELSE Ok([address |-> CHOOSE a \in text.inner : TRUE])
    ELSE IF "address" \in DOMAIN text THEN Ok([address |-> text.address])
    ELSE LET labels == text.labels
             last == labels[Len(labels)]
         IN  IF \E i \in DOMAIN labels : ~valid_label(labels[i]) THEN Err("Invalid")
             ELSE IF Len(labels) = 1 \/ last \in LocalSuffixes THEN Err("LocalName")
             ELSE IF last \in DigitLabels THEN Err("Invalid")
             ELSE Ok([name |-> labels])

-----------------------------------------------------------------------------
(* Handshakes.  A request is what the bytes of a device say:               *)
(*   first   "socks", "http" or "other", from the first byte               *)
(*   whole   FALSE when the bytes end, or grow too long, before the end    *)
(*   password  the password given, NoPassword for none                     *)
(*   host, port  where to go; SOCKS names the kind of address apart        *)
(* SOCKS has methods (offers a password), sub (the sign-in can be read),   *)
(* header (version and reserved byte), command and kind; HTTP has line     *)
(* (request line and headers read), basic (the sign-in header decodes),    *)
(* method, scheme and at (a user name in the authority).                   *)

matches(credentials, password) == credentials = password

\* A check of the handshake: its refusal when it fails.
Check(holds, refusal) == [holds |-> holds, refusal |-> refusal]

\* The refusal of the first check that fails, "none" when all hold.
FirstRefusal(checks) ==
    LET failed == {i \in DOMAIN checks : ~checks[i].holds}
    IN  IF failed = {} THEN "none"
        ELSE checks[CHOOSE i \in failed : \A j \in failed : i <= j].refusal

TargetRefusal(host) == IF host.ok THEN "none" ELSE host.why

\* socks5::negotiate; an IPv4 or IPv6 address is taken as it is.
negotiate(request, credentials) ==
    LET host == IF request.kind = "ip" THEN Ok([address |-> request.host.address])
                ELSE parse(request.host)
        refusal == FirstRefusal(<<
            Check(request.methods, "NoCredentials"),
            Check(request.sub, "Malformed"),
            Check(matches(credentials, request.password), "BadCredentials"),
            Check(request.header /\ request.whole, "Malformed"),
            Check(request.command = "connect", "Unsupported"),
            Check(request.kind # "other", "Unsupported"),
            Check(host.ok, TargetRefusal(host)),
            Check(request.port # 0, "Invalid") >>)
    IN  IF refusal # "none" THEN Err(refusal)
        ELSE Ok([host |-> host.value, kind |-> "socks"])

\* http::authority; without a port the default is taken, if there is one.
authority(request, default_port) ==
    LET port == IF request.port = NoPort THEN default_port ELSE request.port
        host == parse(request.host)
        refusal == FirstRefusal(<<
            Check(~request.at, "Malformed"),
            Check(port \notin {NoPort, BadPort}, "Malformed"),
            Check(port # 0, "Invalid"),
            Check("address" \in DOMAIN request.host => request.host.address.v = 4,
                  "Malformed"),
            Check(host.ok, TargetRefusal(host)) >>)
    IN  IF refusal # "none" THEN Err(refusal) ELSE Ok(host.value)

\* http::read_head and parse_request: CONNECT tunnels, http:// is forwarded.
parse_request(request) ==
    LET connect == request.method = "CONNECT"
        target == authority(request, IF connect THEN NoPort ELSE 80)
        refusal == FirstRefusal(<<
            Check(request.whole /\ request.line, "Malformed"),
            Check(request.basic, "Malformed"),
            Check(connect \/ request.scheme = "http", "Unsupported"),
            Check(target.ok, TargetRefusal(target)) >>)
    IN  IF refusal # "none" THEN Err(refusal)
        ELSE Ok([host |-> target.value, kind |-> IF connect THEN "tunnel" ELSE "forward"])

\* Request::authorize
authorize(request, credentials) ==
    IF request.password = NoPassword THEN "NoCredentials"
    ELSE IF matches(credentials, request.password) THEN "none" ELSE "BadCredentials"

\* The answer to a refused handshake, over SOCKS (where the sign-in is only
\* cut short) and over HTTP.
refusal_reply(refusal) ==
    CASE refusal \in {"BadCredentials", "NoCredentials", "Malformed"} -> "none"
      [] refusal = "LocalName" -> "NotAllowed"
      [] refusal = "Unsupported" -> "NotSupported"
      [] refusal = "Invalid" -> "GeneralFailure"

refusal_status(refusal) ==
    CASE refusal \in {"BadCredentials", "NoCredentials"} -> "SignInRequired"
      [] refusal = "LocalName" -> "NotAllowed"
      [] refusal = "Unsupported" -> "NotForwarded"
      [] refusal \in {"Malformed", "Invalid"} -> "BadRequest"

\* The answers to a failed dial, over SOCKS and over HTTP.
socks_reply(failure) ==
    CASE failure = "NotAllowed" -> "NotAllowed"
      [] failure = "NoTunnel" -> "NetworkUnreachable"
      [] failure \in {"Unresolved", "Unreachable"} -> "HostUnreachable"
      [] failure = "TimedOut" -> "TimedOut"
      [] failure = "Refused" -> "ConnectionRefused"

http_status(failure) ==
    CASE failure = "NotAllowed" -> "NotAllowed"
      [] failure = "NoTunnel" -> "NotConnected"
      [] failure = "TimedOut" -> "GatewayTimeout"
      [] failure \in {"Unresolved", "Refused", "Unreachable"} -> "BadGateway"

-----------------------------------------------------------------------------
(* dns.rs: a reply is for this query (id, and the question it repeats) or  *)
(* it is ignored; records other than A records are skipped.                *)

Ignored == [kind |-> "ignored"]
NotFound == [kind |-> "notfound"]

read_answer(reply) ==
    LET records == SelectSeq(reply.records, LAMBDA r : r.type = "A" /\ r.length = 4)
    IN  IF \/ ~reply.id
           \/ ~reply.response
           \/ reply.questions # 1
           \/ ~reply.asked
           \/ reply.rcode \notin {0, 3}
           \/ reply.rcode = 0 /\ reply.cut
        THEN Ignored
        ELSE IF reply.rcode = 3 \/ records = <<>> THEN NotFound
        ELSE [kind |-> "addresses",
              addresses |-> [i \in DOMAIN records |-> records[i].address]]

-----------------------------------------------------------------------------
(* share/plan.rs *)

BRIDGE_STAND_INS == Ipv4Range(198, 18, 0, 0, 15)
ANDROID_STAND_INS == Ipv4Range(240, 0, 0, 0, 4)

is_private(octets) ==
    \/ contains(Ipv4Range(10, 0, 0, 0, 8), octets)
    \/ contains(Ipv4Range(172, 16, 0, 0, 12), octets)
    \/ contains(Ipv4Range(192, 168, 0, 0, 16), octets)

\* The networks to offer (their order is the screen's).
share_networks(locals) ==
    {n \in locals : ~n.tunnel /\ n.kind # "cellular" /\ is_private(n.address)}

\* The bridge's interface when it is up, else OpenVPN's, else none.
linux_tunnel(up) ==
    IF "ket0" \in up THEN "ket0" ELSE IF "ketvpn0" \in up THEN "ketvpn0" ELSE "none"

\* How many resolvers a lookup asks in turn: the bridge's own, or OpenVPN's two.
Resolvers(tunnel) == IF tunnel = "ketvpn0" THEN 2 ELSE 1
=============================================================================
