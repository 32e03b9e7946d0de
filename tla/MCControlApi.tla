---------------------------- MODULE MCControlApi ----------------------------
(***************************************************************************)
(* Instances of ControlApi.  The calendar runs over the end of February    *)
(* 2100, a year that is not a leap year.                                   *)
(***************************************************************************)
EXTENDS ControlApi

MCFirstDate == <<2100, 2, 26>>

NoApps == [p \in {} |-> Unrated]
Release(version, published, client, server, apps) ==
  [version |-> version, published |-> published, client |-> client, server |-> server, apps |-> apps]

(* A legacy app, two security releases whose grace periods overlap, one of *)
(* them for one platform only, and a critical release for Android.         *)
MCHistory ==
  <<Release(<<1, 0, 1>>, <<2100, 1, 1>>, Unrated, Unrated, NoApps),
    Release(<<1, 1, 0>>, <<2100, 2, 25>>, Security, Optional, NoApps),
    Release(<<1, 2, 0>>, <<2100, 2, 27>>, Security, Recommended, [linux |-> Security, android |-> Optional]),
    Release(<<1, 10, 0>>, <<2100, 2, 28>>, Critical, Unrated, [android |-> Critical, windows |-> Recommended])>>

K1 == [name |-> "k1", point |-> TRUE]
K2 == [name |-> "k2", point |-> TRUE]

Page(raw, stored) == [raw |-> raw, stored |-> stored, https |-> TRUE, creds |-> FALSE, fragment |-> FALSE]
Env(key, minimum, enforcement, page) ==
  [key |-> key, minimum |-> minimum, enforcement |-> enforcement, url |-> page]
Plain == Env(K1, <<>>, "", Page(40, 40))

Typed(enforcement, minimum) == Env(NoKey, minimum, enforcement, Page(40, 40))

Label(name, n) == [name |-> name, bytes |-> n, hyphened |-> FALSE, clean |-> TRUE, letters |-> TRUE]
Domain(labels) == [kind |-> "domain", labels |-> labels]
Ipv4(address, own) == [kind |-> "ipv4", address |-> address, loopback |-> own]
Ipv6(address, own) == [kind |-> "ipv6", address |-> address, loopback |-> own]
Url(scheme, host, port) ==
  [scheme |-> scheme, host |-> host, port |-> port, plain |-> TRUE, creds |-> FALSE, query |-> FALSE,
   path |-> FALSE]

Vpn == Domain(<<Label("vpn", 3), Label("ket", 3), Label("org", 3)>>)
Longest == Domain(<<Label("a", 63), Label("b", 63), Label("c", 63), Label("d", 57), Label("org", 3)>>)

(* Another payload, to take single fields from.                            *)
Other == <<2, "another.app", 2, K2, <<[kind |-> "loopback", host |-> "localhost", port |-> 80]>>,
           [name |-> "another", valid |-> TRUE], 2, 1, 1, FirstDay + 30>>
Short == <<0, "", 0, NoKey, <<>>, [name |-> "bad", valid |-> FALSE], 0, 0, 24, FirstDay>>

Start(url, how, env, envs, builds) ==
  [url |-> url, how |-> how, env |-> env, envs |-> envs, build |-> 2, builds |-> builds, app |-> 2,
   platform |-> "linux", edge |-> TRUE, devices |-> 1, ends |-> FirstDay + 2, damage |-> {Other, Short},
   changes |-> IF builds = {} THEN 0 ELSE 2]

Public == Url("https", Vpn, NoPort)

MCWorld ==
  <<Start(Public, "invite", Plain, {Plain, Env(NoKey, <<>>, "", Page(40, 40))}, {2}),
    [Start(Public, "old invite", Plain, {Env(K2, <<>>, "", Page(40, 40)), Env(NoKey, <<>>, "", Page(40, 40))}, {2})
       EXCEPT !.changes = 1],
    [Start(Public, "typed", Typed("", <<>>),
           {Typed("enforce", <<1, 2, 0>>), Typed("", <<1, BadPart, 0>>), Typed("warn", <<>>),
            Typed("strict", <<>>)}, {2, 3})
       EXCEPT !.app = 1, !.edge = FALSE, !.changes = 1],
    [Start(Public, "typed", Typed("", <<>>), {Typed("", <<>>)}, {2, 4}) EXCEPT !.build = 3, !.changes = 1],
    [Start(Url("https", Longest, 65535), "invite", Plain, {Env(K1, <<>>, "", Page(2048, 2100))}, {3, 4})
       EXCEPT !.devices = 2, !.changes = 1],
    Start(Url("https", Vpn, 8443), "invite", Plain, {}, {}),
    Start(Url("http", Domain(<<Label("localhost", 9)>>), 8080), "invite", Plain, {}, {}),
    Start(Url("http", Ipv4("127.0.0.2", TRUE), 80), "invite", Plain, {}, {}),
    Start(Url("http", Ipv4("10.0.2.2", FALSE), 8080), "invite", Plain, {}, {}),
    Start(Url("http", Ipv6("::1", TRUE), NoPort), "invite", Plain, {}, {}),
    Start(Url("https", Domain(<<Label("vpn", 3), Label("local", 5)>>), NoPort), "invite", Plain, {}, {}),
    Start(Url("https", Domain(<<Label("intranet", 8)>>), NoPort), "invite", Plain, {}, {})>>

=============================================================================
