------------------------------ MODULE Invites -------------------------------
(***************************************************************************)
(* Signed invites: crates/invite-capsule and crates/ket-invite, the server *)
(* side that issues one with a grant, and the client side that turns its   *)
(* text into an endpoint.  A URL is the record of what the code asks of    *)
(* it; an invite text is its payload, field by field in wire order, and    *)
(* the signature over it.  Sizes are counted in bytes where the code       *)
(* bounds them.                                                            *)
(***************************************************************************)
EXTENDS Integers, Sequences, FiniteSets, FiniteSetsExt

-----------------------------------------------------------------------------
(* Hosts and URLs.  A DNS label is its name, its length, and whether it    *)
(* has a hyphen at an edge, only a-z, 0-9 and hyphens, and a letter.       *)

NoPort == -1
DefaultPort(scheme) == IF scheme = "https" THEN 443 ELSE 80
PortOf(u) == IF u.port = NoPort THEN DefaultPort(u.scheme) ELSE u.port

MAX_HOST_BYTES == 253
NON_PUBLIC_SUFFIXES ==
  {<<"local">>, <<"localhost">>, <<"internal">>, <<"onion">>, <<"i2p">>, <<"home", "arpa">>,
   <<"test">>, <<"example">>, <<"invalid">>}

Names(host) == [i \in 1..Len(host.labels) |-> host.labels[i].name]
HostBytes(host) == FoldFunction(LAMBDA l, n : n + l.bytes + 1, -1, host.labels)

valid_public_dns_name(host) ==
  /\ HostBytes(host) \in 1..MAX_HOST_BYTES
  /\ Len(host.labels) >= 2
  /\ \A i \in 1..Len(host.labels) :
       /\ host.labels[i].bytes \in 1..63
       /\ ~host.labels[i].hyphened
       /\ host.labels[i].clean
  /\ host.labels[Len(host.labels)].letters
  /\ \A i \in 1..Len(host.labels) : SubSeq(Names(host), i, Len(host.labels)) \notin NON_PUBLIC_SUFFIXES

(* What counts as this machine, in an invite and in a typed address.       *)
loopback(host) ==
  CASE host.kind = "domain" /\ Names(host) = <<"localhost">> -> "localhost"
    [] host.kind = "ipv4" /\ host.loopback -> "127.0.0.1"
    [] host.kind = "ipv4" /\ host.address = "10.0.2.2" -> "10.0.2.2"
    [] host.kind = "ipv6" /\ host.loopback -> "::1"
    [] OTHER -> "unsafe"

is_loopback_host(host) == IF host.kind = "domain" THEN Names(host) = <<"localhost">> ELSE host.loopback

-----------------------------------------------------------------------------
(* Locators.  Ket's profile takes public HTTPS and development loopback.   *)

NoLocator == [kind |-> "none"]
CLEARNET == {"https", "loopback"}

Locator_validate(l) ==
  l.port \in 1..65535 /\ (l.kind = "https" => valid_public_dns_name(l.host))

Ends(host, name) == host.kind = "domain" /\ host.labels[Len(host.labels)].name = name /\ Len(host.labels) > 1

locator_from_public_url(u) ==
  LET bare == u.plain /\ ~u.creds /\ ~u.query /\ ~u.path
      hidden == Ends(u.host, "onion") \/ Ends(u.host, "i2p")
      l == CASE bare /\ hidden /\ u.scheme = "http" -> [kind |-> "private", port |-> PortOf(u)]
             [] bare /\ ~hidden /\ u.scheme = "https" /\ u.host.kind = "domain" ->
                  [kind |-> "https", host |-> u.host, port |-> PortOf(u)]
             [] bare /\ ~hidden /\ u.scheme = "http" /\ loopback(u.host) # "unsafe" ->
                  [kind |-> "loopback", host |-> loopback(u.host), port |-> PortOf(u)]
             [] OTHER -> NoLocator
  IN IF l # NoLocator /\ Locator_validate(l) THEN l ELSE NoLocator

(* KetInvite::locator_from_public_url                                      *)
ket_locator(u) ==
  IF locator_from_public_url(u).kind \in CLEARNET THEN locator_from_public_url(u) ELSE NoLocator

(* The hosts a loopback locator names, as a URL parser reads them back.    *)
LoopbackHost(name) ==
  CASE name = "localhost" -> [kind |-> "domain", labels |->
         <<[name |-> "localhost", bytes |-> 9, hyphened |-> FALSE, clean |-> TRUE, letters |-> TRUE]>>]
    [] name = "::1" -> [kind |-> "ipv6", address |-> name, loopback |-> TRUE]
    [] OTHER -> [kind |-> "ipv4", address |-> name, loopback |-> name # "10.0.2.2"]

(* The port an authority names: none when it is the scheme's own.          *)
authority(port, default) == IF port = default THEN NoPort ELSE port

base_url(l) ==
  LET scheme == IF l.kind = "https" THEN "https" ELSE "http" IN
  [scheme |-> scheme, host |-> IF l.kind = "https" THEN l.host ELSE LoopbackHost(l.host),
   port |-> authority(l.port, DefaultPort(scheme)),
   plain |-> TRUE, creds |-> FALSE, query |-> FALSE, path |-> FALSE]

validate_locator_set(s) ==
  /\ Len(s) \in 1..4
  /\ \A i \in 1..Len(s) : s[i].kind \in CLEARNET /\ Locator_validate(s[i])
  /\ IsInjective(s)

-----------------------------------------------------------------------------
(* The wire form.  A CBOR head takes 1, 2, 3 or 5 bytes, or 9 from 2^32,   *)
(* which a time in seconds reaches on day 49711.                           *)

encode_head(n) == IF n <= 23 THEN 1 ELSE IF n <= 255 THEN 2 ELSE IF n <= 65535 THEN 3 ELSE 5
encode_bytes(n) == encode_head(n) + n
encode_day(d) == IF d <= 49710 THEN 5 ELSE 9

Locator_bytes(l) ==
  1 + 1 + (IF l.kind = "https" THEN encode_bytes(HostBytes(l.host)) ELSE 1) + encode_head(l.port)

KET_APPLICATION_ID == "org.ket.access"
CONTROL_API_VERSION == 1
SEALED_CONTROL_API_VERSION == 2

(* The ten fields, in the order they are written and read.                 *)
canonical_payload(c) ==
  <<1, KET_APPLICATION_ID, 1, c.key, c.locators, c.code, c.min, c.max, 0, c.expires>>

PayloadBytes(c) ==
  1 + 1 + encode_bytes(14) + 1 + encode_bytes(32)
  + FoldFunction(LAMBDA l, n : n + Locator_bytes(l), encode_head(Len(c.locators)), c.locators)
  + encode_bytes(32) + encode_head(c.min) + encode_head(c.max) + 1
  + encode_day(c.expires)

canonical_binary(c) == 1 + encode_bytes(PayloadBytes(c)) + encode_bytes(64)

Capsule(p) ==
  [key |-> p[4], locators |-> p[5], code |-> p[6], min |-> p[7], max |-> p[8], expires |-> p[10]]

is_expired_at(c, now) == c.expires <= now
capsule_validate(c) == c.min # 0 /\ c.max >= c.min /\ validate_locator_set(c.locators)
supports_protocol(c, v) == v \in c.min..c.max

(* The fields are read in order; which error the first wrong one gives is  *)
(* left out.                                                               *)
decode_payload(p) ==
  /\ Len(p) = 10 /\ p[1] = 1 /\ p[2] = KET_APPLICATION_ID /\ p[3] = 1
  /\ p[4].point
  /\ Len(p[5]) \in 1..4
  /\ \A i \in 1..Len(p[5]) : p[5][i].kind \in CLEARNET /\ Locator_validate(p[5][i])
  /\ p[6].valid /\ p[9] = 0
  /\ capsule_validate(Capsule(p))

MAX_BINARY_INVITE_BYTES == 1024
NoText == [payload |-> <<>>]

(* Signing asks that the capsule name the signer; a signature holds for    *)
(* one key and one payload.                                                *)
sign(c, key) ==
  IF c.key = key /\ canonical_binary(c) <= MAX_BINARY_INVITE_BYTES
  THEN [payload |-> canonical_payload(c), by |-> key, over |-> canonical_payload(c)]
  ELSE NoText

(* Mutation: the signature is not looked at.                               *)
decode_invite_text_unsigned(t, now) ==
  decode_payload(t.payload) /\ ~is_expired_at(Capsule(t.payload), now)

(* Structure, then the signature, then the expiry.                         *)
decode_invite_text(t, now) ==
  /\ decode_payload(t.payload)
  /\ t.by = t.payload[4] /\ t.over = t.payload
  /\ ~is_expired_at(Capsule(t.payload), now)

-----------------------------------------------------------------------------
(* The server: an issuer exists when a signing key is configured and the   *)
(* public URL has a locator, and a grant is answered with its invite.      *)

NoKey == [name |-> "none", point |-> FALSE]
NoIssuer == [key |-> NoKey, locator |-> NoLocator]
(* A configured key without a locator stops the server from starting.      *)
BadIssuer == [key |-> NoKey, locator |-> [kind |-> "refused"]]

InviteIssuer_new(key, url) ==
  IF key = NoKey THEN NoIssuer
  ELSE IF ket_locator(url) = NoLocator THEN BadIssuer
  ELSE [key |-> key, locator |-> ket_locator(url)]

issue(issuer, code, expires) ==
  LET c == [key |-> issuer.key, locators |-> <<issuer.locator>>, code |-> code,
            min |-> CONTROL_API_VERSION, max |-> SEALED_CONTROL_API_VERSION, expires |-> expires]
  IN IF code.valid /\ capsule_validate(c) THEN sign(c, issuer.key) ELSE NoText

attach_invite(issuer, code, expires) ==
  IF issuer = NoIssuer THEN NoText ELSE issue(issuer, code, expires)

-----------------------------------------------------------------------------
(* The client: endpoints and what they seal.                               *)

Off == 0
Preferred == 1
Must == 2
NoEndpoint == [base |-> <<>>]

ControlEndpoint_parse(u) ==
  IF ~u.creds /\ ~u.query /\ (u.scheme = "https" \/ (u.scheme = "http" /\ is_loopback_host(u.host)))
  THEN [base |-> u, key |-> NoKey, sealing |-> Off] ELSE NoEndpoint

with_node_key(e, key) ==
  [e EXCEPT !.key = key, !.sealing = IF e.sealing < Preferred THEN Preferred ELSE e.sealing]
with_required_sealing(e, required) == IF required THEN [e EXCEPT !.sealing = Must] ELSE e

(* A saved profile: the URL and the key it pinned, if any.                 *)
parse_pinned(u, key) ==
  LET e == ControlEndpoint_parse(u) IN
  IF e = NoEndpoint \/ key = NoKey THEN e ELSE with_node_key(e, key)

(* InviteEnrollment::from_text: the first locator the client may use.      *)
from_text(t, now) ==
  IF ~decode_invite_text(t, now) THEN NoEndpoint
  ELSE LET c == Capsule(t.payload)
           usable == {i \in 1..Len(c.locators) : ControlEndpoint_parse(base_url(c.locators[i])) # NoEndpoint}
       IN IF ~supports_protocol(c, CONTROL_API_VERSION) \/ usable = {} THEN NoEndpoint
          ELSE with_required_sealing(
                 with_node_key(ControlEndpoint_parse(base_url(c.locators[Min(usable)])), c.key),
                 supports_protocol(c, SEALED_CONTROL_API_VERSION))

=============================================================================
