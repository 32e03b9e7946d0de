----------------------------- MODULE MCSharing -----------------------------
(* Sharing with small sets of devices, requests, replies and networks. *)
EXTENDS Sharing

MCInvalidLabels == {"", "-a"}
MCDigitLabels == {"3"}

Name(labels) == [labels |-> labels]
Site == V4(93, 184, 216, 34)
Near == V4(192, 168, 1, 9)
BridgeStandIn == V4(198, 19, 0, 7)
AndroidStandIn == V4(240, 0, 0, 7)
Edges == { V4(172, 15, 255, 255), V4(172, 31, 255, 255), V4(172, 32, 0, 0),
           V4(100, 63, 0, 1), V4(100, 127, 0, 1), V4(100, 128, 0, 1),
           V4(198, 17, 0, 1), V4(198, 20, 0, 1), V4(223, 0, 0, 1),
           V4(127, 0, 0, 1), Mapped(127, 0, 0, 1), Mapped(8, 8, 8, 8),
           V6(9734, 18176), V6(8193, 3512), V6(8194, 1), V6(64768, 0) }
MCPublicSites ==
    { Site, V4(172, 15, 255, 255), V4(172, 32, 0, 0), V4(100, 63, 0, 1),
      V4(100, 128, 0, 1), V4(198, 17, 0, 1), V4(198, 20, 0, 1), V4(223, 0, 0, 1),
      Mapped(8, 8, 8, 8), V6(9734, 18176) }

Socks(password, kind, host) ==
    [first |-> "socks", methods |-> TRUE, sub |-> TRUE, password |-> password,
     header |-> TRUE, whole |-> TRUE, command |-> "connect", kind |-> kind,
     host |-> host, port |-> 443]
Http(password, method, host) ==
    [first |-> "http", whole |-> TRUE, line |-> TRUE, basic |-> TRUE,
     password |-> password, method |-> method, scheme |-> "http", at |-> FALSE,
     host |-> host, port |-> 443]

Example == Name(<<"example", "com">>)

\* Whatever the rules tell apart, with the right password.
Asked ==
    { Socks(1, "ip", [address |-> a])
      : a \in {Site, Near, BridgeStandIn, AndroidStandIn} \cup Edges }
    \cup { Http(1, m, [address |-> a]) : m \in {"GET", "CONNECT"},
                                         a \in {Site, Near, V6(9734, 18176)} }
    \cup { Http(1, "CONNECT", [inner |-> {a}]) : a \in {Mapped(127, 0, 0, 1), V6(9734, 18176), Near} }
    \cup { Http(1, "CONNECT", Name(n)) : n \in {<<"router">>, <<"printer", "local">>,
             <<"-a", "local">>, <<"1", "2", "3">>, <<"example", "com">>} }
    \cup { Socks(1, "name", Example), Socks(1, "name", Name(<<"localhost">>)),
           Socks(1, "other", Example), Http(NoPassword, "CONNECT", Example),
           [Socks(1, "name", Example) EXCEPT !.methods = FALSE],
           [Socks(1, "name", Example) EXCEPT !.sub = FALSE],
           [Socks(1, "name", Example) EXCEPT !.command = "bind"],
           [Socks(1, "name", Example) EXCEPT !.whole = FALSE],
           [Socks(1, "name", Example) EXCEPT !.port = 0],
           [Http(1, "CONNECT", Example) EXCEPT !.port = NoPort],
           [Http(1, "GET", Example) EXCEPT !.port = NoPort],
           [Http(1, "GET", Example) EXCEPT !.scheme = "https"],
           [Http(1, "GET", Example) EXCEPT !.port = BadPort],
           [Http(1, "GET", Example) EXCEPT !.at = TRUE],
           [Http(1, "GET", Example) EXCEPT !.line = FALSE],
           [Http(1, "GET", Example) EXCEPT !.basic = FALSE],
           [first |-> "other"] }

Reply(rcode, addresses) ==
    [id |-> TRUE, response |-> TRUE, questions |-> 1, asked |-> TRUE, rcode |-> rcode,
     cut |-> FALSE,
     records |-> [i \in DOMAIN addresses |->
                     [type |-> "A", length |-> 4, address |-> addresses[i]]]]
Answers ==
    { Reply(0, <<Site, V4(172, 32, 0, 0), Site>>), Reply(0, <<Near, Site>>),
      Reply(0, <<Near>>), Reply(0, <<BridgeStandIn>>), Reply(0, <<AndroidStandIn>>),
      Reply(3, <<>>), Reply(0, <<>>), [Reply(0, <<Near>>) EXCEPT !.id = FALSE] }

Wifi == <<192, 168, 1, 5>>
MCLocals ==
    { [interface |-> "wlan0", address |-> Wifi, kind |-> "wifi", tunnel |-> FALSE],
      [interface |-> "rmnet0", address |-> <<10, 0, 0, 2>>, kind |-> "cellular",
       tunnel |-> FALSE] }

AllTunnels == [desktop |-> {"ket0", "ketvpn0"}, android |-> {"vpn"}]

\* One connection that asks for anything, through a tunnel that changes.
Rules(f) ==
    [front |-> f, slots |-> {1}, devices |-> {"d1"}, requests |-> Asked,
     replies |-> Answers, tunnels |-> AllTunnels[f], networks |-> {},
     commands |-> {"stop"}, shares |-> 1, refused |-> 0]

\* Devices that get the password wrong, and right, one share.
Guessing ==
    [front |-> "desktop", slots |-> {1, 2}, devices |-> {"d1", "d2"},
     requests |-> {Socks(p, "ip", [address |-> Near]) : p \in 1..2},
     replies |-> {}, tunnels |-> {}, networks |-> {}, commands |-> {},
     shares |-> 1, refused |-> 5]

\* Shares that start and stop while connections come and go.
Lifecycle(f, tasks) ==
    [front |-> f, slots |-> tasks, devices |-> {"d1"},
     requests |-> {Socks(p, "ip", [address |-> Near]) : p \in 1..2},
     replies |-> {}, tunnels |-> {}, networks |-> {Wifi},
     commands |-> {"stop", "disconnect"}, shares |-> 2, refused |-> 0]

MCWorlds ==
    [desktop |-> Rules("desktop"), android |-> Rules("android"), guessing |-> Guessing,
     computer |-> Lifecycle("desktop", {1}), phone |-> Lifecycle("android", {1, 2})]
=============================================================================
