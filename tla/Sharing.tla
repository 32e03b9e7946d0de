------------------------------ MODULE Sharing ------------------------------
(***************************************************************************)
(* Sharing the connection with nearby devices: ket-share's server (one     *)
(* accept loop and one task per connection, which share the counters under *)
(* a mutex), the sign-in limiter, the dial through a tunnel that comes and *)
(* goes, and what starts and stops a share: the desktop's controller with  *)
(* its network watcher, or Android's registry of handles.                  *)
(*                                                                         *)
(* A share is numbered in the order of its start, and the number stands    *)
(* for the password drawn for it.  Time is the age of the wrong tries: a   *)
(* Tick ages them all, and WINDOW ticks make a try old.  Timeouts are      *)
(* steps that may happen while what they bound is still waiting.           *)
(***************************************************************************)
EXTENDS ShareRules, FiniteSets

CONSTANTS
    Devices,            \* nearby devices, by address
    Slots,              \* connection tasks the model follows, numbered
    Worlds,             \* what may happen, see below
    Locals,             \* local addresses: interface, address, kind, tunnel
    PublicSites,        \* the addresses of the public Internet, for reference
    MAX_FAILURES, MAX_TOTAL_FAILURES, MAX_TRACKED, WINDOW, MAX_CONNECTIONS,
    MAX_ADDRESSES_TRIED, TRIES,
    MaxShares           \* bound: shares started in any world

ASSUME LimitsAreOrdered ==
    /\ MAX_CONNECTIONS \in Nat
    /\ 0 < MAX_FAILURES /\ MAX_FAILURES < MAX_TOTAL_FAILURES
    /\ MAX_TOTAL_FAILURES + MAX_CONNECTIONS <= MAX_TRACKED

VARIABLES
    world,      \* the world of this behaviour; it never changes
    shares,     \* the shares started so far, in order
    conns,      \* the connection tasks
    up,         \* the tunnel interfaces (networks) that are up
    here,       \* the local addresses this device has now
    session,    \* the share the controller holds, 0 for none
    op,         \* the command that holds the controller's lock
    quit,       \* the user's disconnect: "no", "asked", "stopping", "done"
    due         \* history: the shares that were on when it was asked

vars == <<world, shares, conns, up, here, session, op, quit, due>>

\* A world is one instance: the app that shares, what the devices may send
\* and the resolvers answer, which tunnels and networks come and go, whether
\* the user stops sharing or disconnects, and the bounds on shares started
\* and on wrong tries per share.
WorldsAreRecords ==
    \A w \in DOMAIN Worlds :
        /\ Worlds[w].front \in {"desktop", "android"}
        /\ Worlds[w].shares \in 1..MaxShares /\ Worlds[w].refused \in Nat
        /\ Worlds[w].slots \subseteq Slots /\ Worlds[w].devices \subseteq Devices

ASSUME WorldAssumption == WorldsAreRecords

The == Worlds[world]
front == The.front
Shares == DOMAIN shares
Tunnels == IF front = "desktop" THEN {"ket0", "ketvpn0"} ELSE {"vpn"}
Idle == [kind |-> "none", share |-> 0, address |-> <<>>]
Free == [stage |-> "free"]

SignedInStages == {"dial", "lookup", "connect", "dialling", "head", "relay"}
Open(s) == {c \in Slots : conns[c].stage # "free" /\ conns[c].share = s}
SignedIn(s, d) ==
    {c \in Open(s) : conns[c].stage \in SignedInStages /\ conns[c].device = d}

-----------------------------------------------------------------------------
(* limiter.rs.  A device's entry is its count and the age of its last try. *)

NoLimiter == [count |-> [d \in Devices |-> 0], last |-> [d \in Devices |-> 0],
              recent |-> <<>>]

Removed(limiter, gone) ==
    [limiter EXCEPT !.count = [d \in Devices |-> IF d \in gone THEN 0 ELSE @[d]],
                    !.last = [d \in Devices |-> IF d \in gone THEN 0 ELSE @[d]]]

forget_before(limiter) ==
    [Removed(limiter, {d \in Devices : limiter.last[d] >= WINDOW})
        EXCEPT !.recent = SelectSeq(@, LAMBDA age : age < WINDOW)]

\* Mutation: only the device's own tries are looked at.
turns_away_device(limiter, device, signed_in) ==
    forget_before(limiter).count[device] >= MAX_FAILURES

turns_away(limiter, device, signed_in) ==
    LET kept == forget_before(limiter)
    IN  \/ kept.count[device] >= MAX_FAILURES
        \/ ~signed_in /\ Len(kept.recent) >= MAX_TOTAL_FAILURES

\* At the cap the oldest try makes room; past MAX_TRACKED devices the one
\* whose last try is oldest is forgotten.
failed(limiter, device) ==
    LET kept == forget_before(limiter)
        recent == IF Len(kept.recent) < MAX_TOTAL_FAILURES
                  THEN Append(kept.recent, 0) ELSE Append(Tail(kept.recent), 0)
        counted == [count |-> [kept.count EXCEPT ![device] = @ + 1],
                    last |-> [kept.last EXCEPT ![device] = 0], recent |-> recent]
        tracked == {d \in Devices : counted.count[d] > 0}
        oldest == CHOOSE d \in tracked :
                      \A e \in tracked : counted.last[e] <= counted.last[d]
    IN  IF Cardinality(tracked) > MAX_TRACKED THEN Removed(counted, {oldest})
                                              ELSE counted

succeeded(limiter, device) == Removed(limiter, {device})

\* The clock: every try grows older, and what is WINDOW old stays so.
Older(age) == IF age < WINDOW THEN age + 1 ELSE age

Aged(limiter) ==
    [count |-> limiter.count,
     last |-> [d \in Devices |->
                  IF limiter.count[d] > 0 THEN Older(limiter.last[d]) ELSE 0],
     recent |-> [i \in DOMAIN limiter.recent |-> Older(limiter.recent[i])]]

\* The wrong tries of the last WINDOW (for the properties), as time goes by
\* and when a device signs in.
InWindow(tries) ==
    SelectSeq([i \in DOMAIN tries |-> [tries[i] EXCEPT !.age = @ + 1]],
              LAMBDA t : t.age < WINDOW)
Others(tries, device) == SelectSeq(tries, LAMBDA t : t.device # device)

Ticked(share) == [share EXCEPT !.limiter = Aged(@), !.tries = InWindow(@)]

Tick ==
    /\ shares' = [s \in Shares |-> Ticked(shares[s])]
    /\ shares' # shares
    /\ UNCHANGED <<world, conns, up, here, session, op, quit, due>>

-----------------------------------------------------------------------------
(* server.rs: the share's counters, and how a connection ends. *)

\* ShareServer::start, once the port is bound.
NewShare(address, port) ==
    [listening |-> TRUE, stopped |-> FALSE, over |-> FALSE, address |-> address,
     port |-> port, connections |-> 0, devices |-> [d \in Devices |-> 0],
     refused |-> 0, limiter |-> NoLimiter, gone |-> FALSE, network |-> "none",
     tries |-> <<>>]

\* Dropping the SignedIn of a connection, where it has one.
Dropped(share, conn) ==
    IF conn.stage \in SignedInStages
    THEN [share EXCEPT !.devices[conn.device] = @ - 1] ELSE share

\* The answer of a refused handshake; SOCKS answers in negotiate.
note_refusal(share, device, refusal, trusted) ==
    IF refusal = "BadCredentials"
    THEN [share EXCEPT !.refused = @ + 1, !.limiter = failed(@, device),
                       !.tries = Append(@, [device |-> device, age |-> 0,
                                            trusted |-> trusted])]
    ELSE share

\* A task whose serve has returned, with the answer the device was given and
\* the addresses it was about.
Ending(conn, told, about) ==
    [stage |-> "ending", share |-> conn.share, told |-> told, about |-> about]

\* serve returns: the guard is dropped, the connection still counted.
Ends(c, told, about) ==
    /\ conns' = [conns EXCEPT ![c] = Ending(@, told, about)]
    /\ shares' = [shares EXCEPT ![conns[c].share] = Dropped(@, conns[c])]

\* A failed dial is answered and the connection ends.
Fails(c, failure, about) ==
    Ends(c, IF conns[c].kind = "socks" THEN socks_reply(failure)
                                       ELSE http_status(failure), about)

\* The task of c goes on as k, and no counter moves.
GoesOn(c, k) == conns' = [conns EXCEPT ![c] = k] /\ UNCHANGED shares

Rest == UNCHANGED <<world, up, here, session, op, quit, due>>

\* turns_away has tidied the limiter, where it was asked.
TurnedAway(share) ==
    [share EXCEPT !.limiter = IF share.connections >= MAX_CONNECTIONS THEN @
                              ELSE forget_before(@)]
Admitted(share) == [share EXCEPT !.connections = @ + 1, !.limiter = forget_before(@)]

\* accept_loop: a connection is turned away or gets a task of its own.
Accept(s, d) ==
    LET share == shares[s]
        signed_in == share.devices[d] > 0
    IN  /\ share.listening
        /\ share.address \in here
        /\ \/ /\ \/ share.connections >= MAX_CONNECTIONS
                 \/ turns_away(share.limiter, d, signed_in)
              /\ shares' = [shares EXCEPT ![s] = TurnedAway(@)]
              /\ UNCHANGED conns
           \/ /\ share.connections < MAX_CONNECTIONS
              /\ ~turns_away(share.limiter, d, signed_in)
              /\ shares' = [shares EXCEPT ![s] = Admitted(@)]
              /\ \E c \in The.slots :
                    /\ conns[c] = Free /\ \A e \in The.slots : conns[e] = Free => c <= e
                    /\ conns' = [conns EXCEPT ![c] =
                          [stage |-> "open", share |-> s, device |-> d,
                           trusted |-> signed_in]]
        /\ Rest

\* accept_loop sees the stop: the port closes.
AcceptStops(s) ==
    /\ shares[s].stopped /\ shares[s].listening
    /\ shares' = [shares EXCEPT ![s].listening = FALSE]
    /\ UNCHANGED conns /\ Rest

\* Mutation: only a relay looks at the stop.
CutRelay(c) ==
    /\ conns[c].stage = "relay"
    /\ shares[conns[c].share].stopped
    /\ Ends(c, "none", <<>>) /\ Rest

\* The task of a connection sees the stop wherever it waits.
Cut(c) ==
    /\ conns[c].stage \notin {"free", "ending"}
    /\ shares[conns[c].share].stopped
    /\ Ends(c, "none", <<>>) /\ Rest

\* Mutation: a connection that was cut is never counted off.
GoneUnlessStopped(c) ==
    /\ conns[c].stage = "ending"
    /\ conns' = [conns EXCEPT ![c] = Free]
    /\ shares' = IF shares[conns[c].share].stopped THEN shares
                 ELSE [shares EXCEPT ![conns[c].share].connections = @ - 1]
    /\ Rest

\* The end of the task counts the connection off.
Gone(c) ==
    /\ conns[c].stage = "ending"
    /\ conns' = [conns EXCEPT ![c] = Free]
    /\ shares' = [shares EXCEPT ![conns[c].share].connections = @ - 1]
    /\ Rest

-----------------------------------------------------------------------------
(* serve: the first byte tells SOCKS from HTTP, then the handshake decides *)
(* within HANDSHAKE_TIMEOUT.  Nothing it reads is shared but the password. *)

\* SignedIn::new
Signed(share, device) ==
    [share EXCEPT !.limiter = succeeded(@, device), !.devices[device] = @ + 1,
                  !.tries = Others(@, device)]

Signs(c, target) ==
    LET conn == conns[c]
    IN  /\ shares' = [shares EXCEPT ![conn.share] = Signed(@, conn.device)]
        /\ conns' = [conns EXCEPT ![c] =
              [stage |-> "dial", share |-> conn.share, device |-> conn.device,
               host |-> target.host, kind |-> target.kind, found |-> <<>>,
               from |-> "none", via |-> "none", left |-> 0]]

Refuses(c, refusal, told) ==
    LET conn == conns[c]
    IN  /\ refusal = "BadCredentials" => shares[conn.share].refused < The.refused
        /\ shares' = [shares EXCEPT ![conn.share] =
              note_refusal(@, conn.device, refusal, conn.trusted)]
        /\ conns' = [conns EXCEPT ![c] = Ending(@, told, <<>>)]

serve_socks(c, request) ==
    LET target == negotiate(request, conns[c].share)
    IN  IF target.ok THEN Signs(c, target.value) 
        ELSE Refuses(c, target.why, refusal_reply(target.why))

serve_http(c, request) ==
    LET target == parse_request(request)
        refusal == authorize(request, conns[c].share)
    IN  IF ~target.ok THEN Refuses(c, target.why, refusal_status(target.why))
        ELSE IF refusal # "none" THEN Refuses(c, refusal, refusal_status(refusal))
        ELSE Signs(c, target.value)

serve(c, request) ==
    /\ conns[c].stage = "open"
    /\ CASE request.first = "socks" -> serve_socks(c, request)
         [] request.first = "http" -> serve_http(c, request)
         [] OTHER -> Ends(c, "none", <<>>)
    /\ Rest

\* The device says nothing more in time, or hangs up.
HandshakeTimesOut(c) ==
    /\ conns[c].stage = "open"
    /\ Ends(c, "none", <<>>) /\ Rest

-----------------------------------------------------------------------------
(* dial: resolve and connect, each tied to the tunnel that is up when it   *)
(* starts; the whole within DIAL_TIMEOUT.                                  *)

current_tunnel(s) ==
    IF front = "desktop" THEN linux_tunnel(up) ELSE shares[s].network

synthetic_range == IF front = "desktop" THEN BRIDGE_STAND_INS ELSE ANDROID_STAND_INS

Allowed(addresses, origin) ==
    SelectSeq(addresses, LAMBDA a : allowed(a, origin, synthetic_range))

\* The addresses worth a try, or the refusal.
Dials(c, addresses, origin, from) ==
    LET good == Allowed(addresses, origin)
    IN  IF good = <<>> THEN Fails(c, "NotAllowed", addresses)
        ELSE GoesOn(c, [conns[c] EXCEPT !.stage = "connect", !.via = "none",
                            !.left = 0, !.from = from,
                            !.found = SubSeq(good, 1,
                                IF Len(good) < MAX_ADDRESSES_TRIED THEN Len(good)
                                ELSE MAX_ADDRESSES_TRIED)])

\* Egress::resolve picks the tunnel; an address needs no lookup.
dial(c) ==
    LET conn == conns[c]
        tunnel == current_tunnel(conn.share)
    IN  /\ conn.stage = "dial"
        /\ IF "address" \in DOMAIN conn.host
           THEN Dials(c, <<conn.host.address>>, "requested", "none")
           ELSE IF tunnel = "none" THEN Fails(c, "NoTunnel", <<>>)
           ELSE GoesOn(c, [conn EXCEPT !.stage = "lookup", !.via = tunnel,
                               !.left = IF front = "desktop"
                                        THEN TRIES * Resolvers(tunnel) ELSE 1])
        /\ Rest

\* dns::lookup reads a reply; one that is not its own is skipped.
LookupReads(c, reply) ==
    LET conn == conns[c]
        answer == read_answer(reply)
    IN  /\ conn.stage = "lookup" /\ conn.via \in up
        /\ answer # Ignored
        /\ IF answer = NotFound THEN Fails(c, "Unresolved", <<>>)
           ELSE Dials(c, answer.addresses, "resolved", conn.via)
        /\ Rest

\* A try without an answer; then the next try, the next resolver, or the end.
LookupTriesAgain(c) ==
    LET conn == conns[c]
    IN  /\ conn.stage = "lookup"
        /\ IF conn.left > 1
           THEN GoesOn(c, [conn EXCEPT !.left = @ - 1])
           ELSE Fails(c, IF front = "desktop" THEN "TimedOut" ELSE "Unresolved", <<>>)
        /\ Rest

\* Sending or receiving fails once the tunnel is gone.
LookupFails(c) ==
    LET conn == conns[c]
    IN  /\ conn.stage = "lookup" /\ conn.via \notin up
        /\ Fails(c, IF front = "desktop" THEN "NoTunnel" ELSE "Unresolved", <<>>)
        /\ Rest

\* Egress::connect ties the socket to the tunnel that is up now.
connect(c) ==
    LET conn == conns[c]
        tunnel == current_tunnel(conn.share)
    IN  /\ conn.stage = "connect"
        /\ IF tunnel \notin up THEN Fails(c, "NoTunnel", <<>>)
           ELSE GoesOn(c, [conn EXCEPT !.stage = "dialling", !.via = tunnel])
        /\ Rest

\* The site answers: a forwarded request still waits for its response head.
ConnectSucceeds(c) ==
    LET conn == conns[c]
    IN  /\ conn.stage = "dialling" /\ conn.via \in up
        /\ GoesOn(c, [conn EXCEPT !.stage =
                        IF conn.kind = "forward" THEN "head" ELSE "relay"])
        /\ Rest

\* The next address is tried; a vanished interface ends it at once.
ConnectFails(c) ==
    LET conn == conns[c]
    IN  /\ conn.stage = "dialling"
        /\ \/ /\ front = "desktop" /\ conn.via \notin up /\ Fails(c, "NoTunnel", <<>>)
           \/ \E failure \in {"Refused", "Unreachable", "TimedOut"} :
                 IF Len(conn.found) > 1
                 THEN GoesOn(c, [conn EXCEPT !.stage = "connect", !.via = "none",
                                             !.found = Tail(@)])
                 ELSE Fails(c, failure, <<>>)
        /\ Rest

DialTimesOut(c) ==
    /\ conns[c].stage \in {"lookup", "connect", "dialling"}
    /\ Fails(c, "TimedOut", <<>>) /\ Rest

\* The head of the site's response, rewritten, or 502.
SiteAnswers(c) ==
    /\ conns[c].stage = "head"
    /\ \/ /\ conns[c].via \in up
          /\ GoesOn(c, [conns[c] EXCEPT !.stage = "relay"])
       \/ Fails(c, "Unreachable", <<>>)
    /\ Rest

\* Either side closes, or the tunnel takes the connection with it.
RelayEnds(c) ==
    /\ conns[c].stage = "relay"
    /\ Ends(c, "none", <<>>) /\ Rest

-----------------------------------------------------------------------------
(* Starting and stopping.  share/mod.rs and the desktop's sharing.rs. *)

\* ShareServer::stop.  A caller then waits in closed, which returns once all
\* is closed or after a second: the caller's next step, at any time.
stop(s) == shares' = [shares EXCEPT ![s].stopped = TRUE]

Taken(address) ==
    \E s \in Shares : /\ shares[s].listening /\ shares[s].port = "preferred"
                      /\ shares[s].address = address

\* The address must be one to share on; the preferred port may be taken, by
\* a share that is still closing or by another program.
Binds(address) ==
    \E port \in IF Taken(address) THEN {"other"} ELSE {"preferred", "other"} :
        shares' = Append(shares, NewShare(address, port))

Networks == {n.address : n \in share_networks({l \in Locals : l.address \in here})}

\* start_sharing takes the lock and stops the previous share.
StartSharing(address) ==
    /\ front = "desktop" /\ op = Idle /\ Len(shares) < The.shares
    /\ op' = [kind |-> "start", share |-> session, address |-> address]
    /\ session' = 0
    /\ IF session = 0 THEN UNCHANGED shares ELSE stop(session)
    /\ UNCHANGED <<world, conns, up, here, quit, due>>

\* start_with: the new share, or none when there is no such network now.
StartWith ==
    /\ op.kind = "start"
    /\ op' = Idle
    /\ \/ /\ op.address \in Networks
          /\ Binds(op.address) /\ session' = Len(shares')
       \/ UNCHANGED <<shares, session>>
    /\ UNCHANGED <<world, conns, up, here, quit, due>>

\* ShareController::stop, for stop_sharing and for a disconnect that waits.
StopSharing(why) ==
    /\ front = "desktop" /\ op = Idle /\ why \in The.commands
    /\ why = "disconnect" => quit = "asked"
    /\ quit' = IF why = "disconnect" THEN "stopping" ELSE quit
    /\ op' = [kind |-> why, share |-> session, address |-> <<>>]
    /\ session' = 0
    /\ IF session = 0 THEN UNCHANGED shares ELSE stop(session)
    /\ UNCHANGED <<world, conns, up, here, due>>

\* share_status takes a share that ended on its own.
ShareStatus ==
    /\ front = "desktop" /\ op = Idle
    /\ session # 0 /\ shares[session].gone
    /\ op' = [kind |-> "status", share |-> session, address |-> <<>>]
    /\ session' = 0 /\ stop(session)
    /\ UNCHANGED <<world, conns, up, here, quit, due>>

\* The stop returns and the lock is free.
StopReturns ==
    /\ op.kind \in {"stop", "disconnect", "status"}
    /\ op' = Idle
    /\ quit' = IF op.kind = "disconnect" THEN "done" ELSE quit
    /\ UNCHANGED <<world, shares, conns, up, here, session, due>>

\* The user disconnects, forgets the server or quits the app: the command
\* stops the share before the tunnel, once the lock is free.
Disconnect ==
    /\ front = "desktop" /\ quit \in {"no", "done"} /\ "disconnect" \in The.commands
    /\ quit' = "asked"
    /\ due' = {s \in Shares : ~shares[s].stopped}
    /\ UNCHANGED <<world, shares, conns, up, here, session, op>>

\* watch_network, every WATCH_INTERVAL
watch_network(s) ==
    /\ front = "desktop" /\ ~shares[s].stopped
    /\ shares[s].address \notin here
    /\ shares' = [shares EXCEPT ![s] = [shares[s] EXCEPT !.gone = TRUE, !.stopped = TRUE]]
    /\ UNCHANGED <<world, conns, up, here, session, op, quit, due>>

-----------------------------------------------------------------------------
(* Android's registry: a share per handle, no lock between them. *)

RegistryStart(address) ==
    /\ front = "android" /\ Len(shares) < The.shares
    /\ is_private(address) /\ address \in here
    /\ Binds(address)
    /\ UNCHANGED <<world, conns, up, here, session, op, quit, due>>

Held(s) == ~shares[s].stopped

set_network(s, network) ==
    /\ front = "android" /\ Held(s) /\ shares[s].network # network
    /\ shares' = [shares EXCEPT ![s].network = network]
    /\ UNCHANGED <<world, conns, up, here, session, op, quit, due>>

RegistryStop(s) ==
    /\ front = "android" /\ Held(s) /\ "stop" \in The.commands
    /\ shares' = [shares EXCEPT ![s] = [shares[s] EXCEPT !.stopped = TRUE, !.network = "none"]]
    /\ UNCHANGED <<world, conns, up, here, session, op, quit, due>>

\* After closed, the runtime goes and every task that is left with it.
RuntimeGoes(s) ==
    /\ front = "android" /\ shares[s].stopped /\ ~shares[s].over
    /\ shares' = [shares EXCEPT ![s] =
          [shares[s] EXCEPT !.over = TRUE, !.listening = FALSE, !.connections = 0,
                            !.devices = [d \in Devices |-> 0]]]
    /\ conns' = [c \in Slots |-> IF c \in Open(s) THEN Free ELSE conns[c]]
    /\ UNCHANGED <<world, up, here, session, op, quit, due>>

-----------------------------------------------------------------------------
(* The machine: tunnels and networks come and go. *)

TunnelMoves ==
    /\ \E t \in The.tunnels : up' = IF t \in up THEN up \ {t} ELSE up \cup {t}
    /\ UNCHANGED <<world, shares, conns, here, session, op, quit, due>>

NetworkMoves ==
    /\ \E a \in The.networks : here' = IF a \in here THEN here \ {a}
                                          ELSE here \cup {a}
    /\ UNCHANGED <<world, shares, conns, up, session, op, quit, due>>

Init ==
    /\ world \in DOMAIN Worlds
    /\ shares = <<>>
    /\ conns = [c \in Slots |-> Free]
    /\ up = Tunnels
    /\ here = {l.address : l \in Locals}
    /\ session = 0 /\ op = Idle /\ quit = "no" /\ due = {}

Serving(c) ==
    \/ \E request \in The.requests : serve(c, request)
    \/ HandshakeTimesOut(c)
    \/ dial(c)
    \/ \E reply \in The.replies : LookupReads(c, reply)
    \/ LookupTriesAgain(c) \/ LookupFails(c)
    \/ connect(c) \/ ConnectSucceeds(c) \/ ConnectFails(c)
    \/ DialTimesOut(c) \/ SiteAnswers(c) \/ RelayEnds(c)
    \/ Cut(c) \/ Gone(c)

Next ==
    \/ \E c \in Slots : Serving(c)
    \/ \E s \in Shares : \/ \E d \in The.devices : Accept(s, d)
                         \/ AcceptStops(s) \/ watch_network(s)
                         \/ RegistryStop(s) \/ RuntimeGoes(s)
                         \/ \E network \in {"none", "vpn"} : set_network(s, network)
    \/ \E l \in Locals : StartSharing(l.address) \/ RegistryStart(l.address)
    \/ StartWith \/ ShareStatus \/ StopReturns \/ Disconnect
    \/ \E why \in {"stop", "disconnect"} : StopSharing(why)
    \/ Tick \/ TunnelMoves \/ NetworkMoves

\* The tasks of the runtime run: the accept loop and the watcher of a share
\* wake, and its connections see the stop and count themselves off.
Wakes(s) == s \in Shares /\ (AcceptStops(s) \/ watch_network(s))
TaskEnds(s) == s \in Shares /\ \E c \in Open(s) : Cut(c) \/ Gone(c)

Spec ==
    /\ Init /\ [][Next]_vars
    /\ \A s \in 1..MaxShares : WF_vars(Wakes(s)) /\ WF_vars(TaskEnds(s))

-----------------------------------------------------------------------------
(* Properties *)

\* The counters a share reports are the truth whenever they are read: its
\* connections are the tasks that have not ended, the devices those with a
\* signed-in connection, and there are never more than MAX_CONNECTIONS
\* (ShareStats, State), whichever tasks are cut short by a stop.
CountsAreTrue ==
    \A s \in Shares :
        /\ shares[s].connections = Cardinality(Open(s))
        /\ shares[s].connections <= MAX_CONNECTIONS
        /\ \A d \in Devices : shares[s].devices[d] = Cardinality(SignedIn(s, d))

\* The tunnels whose own resolver hands out stand-ins, which they map back.
MappingTunnels == {"ket0", "vpn"}

\* The first address to try is a stand-in that a lookup found.  The tunnel
\* that found it carries it, and knows what it stands for; only on the desktop
\* OpenVPN's tunnel, which has no stand-ins, may have found it or may have to
\* carry it.
StandInFound(conn) ==
    /\ conn.found[1].v = 4
    /\ contains(synthetic_range, conn.found[1].octets)
    /\ \/ conn.from = conn.via /\ conn.via \in MappingTunnels
       \/ front = "desktop" /\ conn.from # "none" /\ "ketvpn0" \in {conn.from, conn.via}

\* Every site that is dialled is on the public Internet, or is a stand-in
\* that the lookup of a name found, and it is dialled into a tunnel; and no
\* device is refused a site of the public Internet (policy::allowed after the
\* lookup, Egress::connect).
OnlyTheInternet ==
    \A c \in Slots :
        /\ conns[c].stage \in {"dialling", "head", "relay"} =>
              /\ conns[c].via \in Tunnels
              /\ conns[c].found[1] \in PublicSites \/ StandInFound(conns[c])
        /\ conns[c].stage = "ending" /\ conns[c].told = "NotAllowed" =>
              \A i \in DOMAIN conns[c].about : conns[c].about[i] \notin PublicSites

\* Within a window a device gets at most MAX_FAILURES wrong tries since it
\* last signed in, and all devices that were not signed in get at most
\* MAX_TOTAL_FAILURES, but for the tries of connections that were open
\* already when the limit was reached (SignInLimiter, read when a connection
\* is accepted and written when its handshake ends).
GuessesAreBounded ==
    \A s \in Shares :
        LET tries == shares[s].tries
            by(d) == {i \in DOMAIN tries : tries[i].device = d}
            strangers == {i \in DOMAIN tries : ~tries[i].trusted}
        IN  /\ \A d \in Devices :
                  Cardinality(by(d)) <= MAX_FAILURES + MAX_CONNECTIONS - 1
            /\ Cardinality(strangers) <= MAX_TOTAL_FAILURES + MAX_CONNECTIONS - 1

\* At most one share of the desktop is on, the one the controller holds, and
\* a disconnect that has returned has ended every share that was on when the
\* user asked for it, however its commands and start_sharing interleave.
OneShareIsOn ==
    front = "desktop" =>
        /\ \A s \in Shares : ~shares[s].stopped => s = session
        /\ quit = "done" => \A s \in due : shares[s].stopped

\* What the user is shown of sharing is true: the counters, and which share
\* is on (ShareStats, SharingController).
SharesAreTrue == CountsAreTrue /\ OneShareIsOn

\* A share that is stopped, or whose network goes away for good, closes its
\* port and ends every connection (accept_loop, watch_network, closed).
StoppedShareCloses ==
    \A s \in 1..MaxShares :
        (/\ s \in Shares
         /\ \/ shares[s].stopped
            \/ front = "desktop" /\ shares[s].address \notin here)
        ~> (/\ s \in Shares
            /\ \/ shares[s].address \in here /\ ~shares[s].stopped
               \/ ~shares[s].listening /\ Open(s) = {})
=============================================================================
