------------------------------ MODULE Engines -------------------------------
(***************************************************************************)
(* The controls of ket-server's data plane, command by command: what each  *)
(* of them sends its engine or the agent beside it, what it expects back,  *)
(* and what it undoes.  DataPlane says what a whole call does; here a call *)
(* is a list of commands, two calls interleave, a command may fail with or *)
(* without its effect, and a request may be dropped or outlive its caller. *)
(* The agents' own startup, the restart of the server and the meter that   *)
(* reads the engines' counters run beside the calls.                       *)
(***************************************************************************)
EXTENDS DataPlane, SequencesExt, FiniteSetsExt

CONSTANTS
    Leases,     \* the allocations sessions are given, in the order of their ids
    Starts,     \* where a behaviour begins: leases on disk, sessions the engine holds,
                \* whether the agent is up and whether the server has reconciled
    Ends,       \* the sets of leases that may end together
    Callers,    \* requests in flight at once
    MaxPeers,   \* what an agent takes in one request
    MaxEvents,  \* faults, crashes, restarts and transfers a behaviour may have
    MaxCalls    \* calls and OpenVPN handshakes a behaviour may have

ASSUME EnginesAssumption ==
    /\ Leases \subseteq Allocation /\ Ends \subseteq SUBSET Leases
    /\ Starts \subseteq [leased : SUBSET Leases, held : SUBSET Leases,
                          up : BOOLEAN, ready : BOOLEAN]
    /\ MaxPeers \in Nat /\ MaxEvents \in Nat /\ MaxCalls \in Nat

VARIABLES
    engine,     \* the engine under this control
    store,      \* what the engine holds: [id, slot, tag]
    files,      \* sessions whose Xray user file is on disk
    leased,     \* the live leases
    issued,     \* per session, the start of the server at which it got one, or -1
    ready,      \* the startup reconciliation is over
    calls,      \* per caller, the call it makes
    agent,      \* how many of its startup steps the agent has done
    child,      \* the agent's OpenVPN process runs
    joining,    \* a client's OpenVPN handshake is under way
    rules,      \* the forwarding rules of the agent's host, in order
    clock,      \* how often the server was started
    counters,   \* per session, what the engine counted for its credential
    meter,      \* the readings the meter remembers, and what it charged
    moved,      \* per session, what its credential really moved
    events, started

callVars == <<store, files, calls>>
leaseVars == <<leased, issued, ready>>
agentVars == <<agent, child, joining, rules>>
meterVars == <<clock, counters, meter, moved>>
vars == <<engine, callVars, leaseVars, agentVars, meterVars, events, started>>

Tags == IF engine = "xray" THEN <<"reality", "xhttp">> ELSE <<"-">>
Held == {[id |-> r.id, slot |-> r.slot] : r \in store}
On(tag) == {r.id : r \in {r \in store : r.tag = tag}}
InOrder(A) == SetToSortSeq(A, LAMBDA a, b : a.id < b.id)
Each(A, step(_)) == LET s == InOrder(A) IN [i \in DOMAIN s |-> step(s[i])]
ByAgent == {"wireguard", "openvpn"}

-----------------------------------------------------------------------------
(* The agents.  WireGuard's sets its interface up and then the forwarding  *)
(* rules, OpenVPN's the rules and then its engine; both serve after that.  *)
(* The rules keep clients from private networks and from mail, let the     *)
(* rest out and the answers back, and translate addresses.                 *)
Fences == <<"private", "mail">>
install_firewall == Fences \o <<"out", "back", "nat">>

initialize_interface == <<"link", "key", "address", "up">> \o install_firewall

(* Mutation: the agent serves before the rules are there. *)
WireGuardStartupEarly == <<"link", "key", "address", "up", "bind">> \o install_firewall

WireGuardStartup == initialize_interface \o <<"bind">>

OpenVpnStartup ==
    <<"files">> \o install_firewall \o <<"socket", "config", "launch", "ready", "bind">>

Startup == IF engine = "wireguard" THEN WireGuardStartup ELSE OpenVpnStartup
Bound == \E i \in 1 .. agent : Startup[i] = "bind"
Serving == engine \in ByAgent => Bound /\ (engine = "openvpn" => child)

-----------------------------------------------------------------------------
(* The commands of a call. *)
Step(do, tag, of) == [do |-> do, tag |-> tag, of |-> of]

(* Xray.  Per inbound: write the user's file, add the user, remove the     *)
(* file, and see the user listed.                                          *)
inbound_emails(do, tag, A) == Step(do, tag, A)

add_user(a) ==
    FlattenSeq([i \in DOMAIN Tags |->
        <<Step("write", Tags[i], {a}), Step("adu", Tags[i], {a}),
          Step("unlink", Tags[i], {a}), inbound_emails("listed", Tags[i], {a})>>])

remove_emails_from_tags(tags, A) ==
    IF A = {} THEN << >>
    ELSE FlattenSeq([i \in DOMAIN tags |->
            <<Step("rmu", tags[i], A), inbound_emails("unlisted", tags[i], A)>>])

XrayKick(A) == remove_emails_from_tags(Tags, A)
managed_emails(A) == [i \in DOMAIN Tags |-> inbound_emails("emails", Tags[i], A)]

(* Mutation: users an earlier run left behind stay. *)
XrayReconcileAdding(found, A) == FlattenSeq(Each(A, add_user))

XrayReconcile(found, A) == XrayKick(found) \o FlattenSeq(Each(A, add_user))

(* Shadowsocks. *)
add_server(a) == Step("add", "-", {a})
remove_server(a) == Step("remove", "-", {a})
active_ports(do, A) == Step(do, "-", A)

ShadowsocksProvision(A) ==
    Each(A, remove_server) \o Each(A, add_server) \o <<active_ports("retained", A)>>
ShadowsocksKick(A) == Each(A, remove_server) \o <<active_ports("gone", A)>>
ShadowsocksReconcile(found, A) ==
    Each(found, remove_server) \o Each(A, add_server) \o <<active_ports("exactly", A)>>

(* WireGuard's agent refuses more peers than it was set up for, lists what *)
(* the interface has, and removes by address what it should not have.      *)
install_peer(a) == Step("set", "-", {a})
remove_public_key(b) == Step("unset", "-", {b})
peer_statuses(A) == Step("dump", "-", A)

upsert_peer(A) == Each(A, install_peer)
remove_peers(held, A) ==
    Each({b \in held : \E a \in A : Hits(engine, a, b)}, remove_public_key)
reconcile_peers(held, A) ==
    Each({b \in held : \A a \in A : ~ Hits(engine, a, b)}, remove_public_key)
        \o Each(A, install_peer)

(* OpenVPN's agent does the same with its clients, by name. *)
kill_usernames(A) == Each(A, LAMBDA b : Step("kill", "-", {b}))
session_statuses(A) == Step("status", "-", A)
remove_sessions(held, A) == kill_usernames({b \in held : b.id \in Ids(A)})
reconcile_sessions(held, A) == kill_usernames({b \in held : b.id \notin Ids(A)})

(* Hysteria. *)
HysteriaKick(A) == IF A = {} THEN << >> ELSE <<Step("post", "-", A)>>

validate_usernames(A) == Cardinality(A) <= MaxPeers
Limited(step, A) == IF validate_usernames(A) THEN <<step>> ELSE <<Step("refused", "-", A)>>

Provision(A) ==
    CASE engine = "xray"        -> FlattenSeq(Each(A, add_user))
      [] engine = "shadowsocks" -> ShadowsocksProvision(A)
      [] engine = "wireguard"   -> upsert_peer(A)
      [] engine = "openvpn"     -> <<Step("pid", "-", A)>>
      [] engine = "hysteria"    -> << >>

Kick(A) ==
    CASE engine = "xray"        -> XrayKick(A)
      [] engine = "shadowsocks" -> ShadowsocksKick(A)
      [] engine = "wireguard"   -> Limited(peer_statuses(A), A)
      [] engine = "openvpn"     -> Limited(session_statuses(A), A)
      [] engine = "hysteria"    -> HysteriaKick(A)

Reconcile(A) ==
    CASE engine = "xray"        -> managed_emails(A)
      [] engine = "shadowsocks" -> <<active_ports("ports", A)>>
      [] engine = "wireguard"   -> Limited(peer_statuses(A), A)
      [] engine = "openvpn"     -> Limited(session_statuses(A), A)
      [] engine = "hysteria"    -> << >>

Program(op, A) ==
    CASE op = "provision" -> Provision(A) [] op = "kick" -> Kick(A)
      [] op = "reconcile" -> Reconcile(A)

(* What a listing adds to the call: what it found is removed first. *)
Found(call, h) ==
    CASE h.do = "emails" /\ Len(call.todo) = 1 ->
            XrayReconcile({b \in Leases : b.id \in call.seen \cup On(h.tag)}, call.of)
      [] h.do = "ports" -> ShadowsocksReconcile(Held, call.of)
      [] h.do = "dump" /\ call.op = "kick" -> remove_peers(Held, call.of)
      [] h.do = "dump" /\ call.op = "reconcile" -> reconcile_peers(Held, call.of)
      [] h.do = "status" /\ call.op = "kick" -> remove_sessions(Held, call.of)
      [] h.do = "status" /\ call.op = "reconcile" -> reconcile_sessions(Held, call.of)
      [] OTHER -> << >>

-----------------------------------------------------------------------------
(* What a command does to the engine, and when its answer lets the call go *)
(* on.                                                                     *)
Records(A, tag) == {[id |-> a.id, slot |-> a.slot, tag |-> tag] : a \in A}

Effect(h) ==
    CASE h.do = "adu" -> store \cup Records(h.of, h.tag)
      [] h.do = "rmu" -> {r \in store : ~ (r.tag = h.tag /\ r.id \in Ids(h.of))}
      [] h.do = "remove" -> {r \in store : r.slot \notin Slots(h.of)}
      [] h.do = "add" -> {r \in store : r.slot \notin Slots(h.of)} \cup Records(h.of, "-")
      [] h.do = "set" -> Records(InstallPeers(Held, h.of), "-")
      [] h.do \in {"unset", "kill", "post"} -> {r \in store : r.id \notin Ids(h.of)}
      [] OTHER -> store

FilesAfter(h) ==
    CASE h.do = "write" -> files \cup Ids(h.of)
      [] h.do = "unlink" -> files \ Ids(h.of)
      [] OTHER -> files

(* Xray's commands answer with success for a user that is not there, so    *)
(* the control reads the list again.                                       *)
XrayAccepts(h) ==
    CASE h.do = "write" -> Ids(h.of) \cap files = {}
      [] h.do = "unlink" -> Ids(h.of) \subseteq files
      [] h.do = "listed" -> Ids(h.of) \subseteq On(h.tag)
      [] h.do = "unlisted" -> Ids(h.of) \cap On(h.tag) = {}
      [] OTHER -> TRUE

ShadowsocksAccepts(h) ==
    CASE h.do = "retained" -> Slots(h.of) \subseteq Slots(Held)
      [] h.do = "gone" -> Slots(h.of) \cap Slots(Held) = {}
      [] h.do = "exactly" -> Slots(Held) = Slots(h.of)
      [] OTHER -> TRUE

(* A row without a managed name spoils the whole status. *)
parse_status == ~ joining

management_command(h) ==
    CASE h.do = "status" -> parse_status
      [] h.do = "kill" -> Ids(h.of) \subseteq Ids(Held)
      [] OTHER -> h.do # "refused"

Accepts(h) ==
    CASE engine = "xray" -> XrayAccepts(h)
      [] engine = "shadowsocks" -> ShadowsocksAccepts(h)
      [] engine = "wireguard" ->
            Serving /\ h.do # "refused" /\ (h.do = "dump" => Readable(engine, Held))
      [] engine = "openvpn" -> Serving /\ management_command(h)
      [] OTHER -> TRUE

-----------------------------------------------------------------------------
(* A call: its operation and allocations, the commands left, the inbounds  *)
(* its current user was added to, the users listed so far, and, for the    *)
(* properties, what was held before it, whether any other call or change   *)
(* of the engine met it, and whether one that concerns the same sessions   *)
(* or slots did.                                                           *)
NoCall == [op |-> "none", of |-> {}, todo |-> << >>, added |-> << >>, seen |-> {},
           verdict |-> "none", before |-> {}, kept |-> {}, alone |-> TRUE, clear |-> TRUE,
           spoiled |-> FALSE]

Issued(a) == issued[a.id] >= 0
Active(call) == call.verdict \in {"running", "undoing", "late"}
Underway == {c \in Callers : Active(calls[c])}

Crosses(op, A, call) ==
    \/ "reconcile" \in {op, call.op}
    \/ \E a \in A, b \in call.of : a.id = b.id \/ Hits(engine, a, b)

(* The other calls under way when one starts, or when the engine changes. *)
Met(op, A, c) ==
    [calls EXCEPT ![c] = [NoCall EXCEPT !.op = op, !.of = A, !.todo = Program(op, A),
            !.verdict = IF Program(op, A) = << >> THEN "ok" ELSE "running",
            !.before = Held, !.kept = files, !.alone = Underway = {},
            !.clear = \A d \in Underway : ~ Crosses(op, A, calls[d])]]
MetBy(op, A, c) ==
    [d \in Callers |->
        IF d = c \/ d \notin Underway THEN Met(op, A, c)[d]
        ELSE [calls[d] EXCEPT !.alone = FALSE, !.clear = @ /\ ~ Crosses(op, A, calls[d])]]
Disturbed == [c \in Callers |-> IF Active(calls[c])
                THEN [calls[c] EXCEPT !.alone = FALSE, !.clear = FALSE] ELSE calls[c]]

Start(c, op, A) ==
    /\ started < MaxCalls /\ started' = started + 1
    /\ ~ Active(calls[c])
    /\ calls' = MetBy(op, A, c)
    /\ UNCHANGED <<engine, store, files, agentVars, meterVars, events>>

(* create_session gives a lease and then provisions it. *)
StartProvision(c) ==
    \E a \in Leases :
        /\ ready /\ ~ Issued(a) /\ a.slot \notin Slots(leased)
        /\ \A b \in Leases : b.id < a.id => Issued(b)
        /\ leased' = leased \cup {a} /\ issued' = [issued EXCEPT ![a.id] = clock]
        /\ UNCHANGED ready
        /\ Start(c, "provision", {a})

(* Leases that end are taken out of the table before the engine is told;   *)
(* between the two a slot may be given again.                              *)
StartKick(c) ==
    \E A \in Ends :
        /\ A # {} /\ \A a \in A : Issued(a)
        /\ leased' = leased \ A
        /\ UNCHANGED <<issued, ready>>
        /\ Start(c, "kick", A)

StartReconcile(c) ==
    /\ ~ ready
    /\ \A d \in Underway : calls[d].op # "reconcile" \/ calls[d].verdict = "late"
    /\ Start(c, "reconcile", leased)
    /\ ready' = (calls'[c].verdict = "ok")
    /\ UNCHANGED <<leased, issued>>

-----------------------------------------------------------------------------
(* What follows a command. *)
Over(call, verdict) == [NoCall EXCEPT !.verdict = verdict, !.spoiled = call.spoiled]

Going(call, todo) ==
    IF todo # << >> THEN [call EXCEPT !.todo = todo]
    ELSE Over(call, IF call.verdict = "running" THEN "ok" ELSE "err")

(* Mutation: a failed command does not have the users added before it      *)
(* removed, nor the file.                                                  *)
FailedAtOnce(call, h) == Over(call, "err")

(* A failure ends the call with an error; Xray first removes the user from *)
(* the inbounds it was added to, and the file of the command that failed.  *)
(* A failure of that is let go.                                            *)
Failed(call, h) ==
    LET undo == (IF h.do = "adu" THEN <<Step("unlink", h.tag, h.of)>> ELSE << >>)
                \o remove_emails_from_tags(call.added, h.of)
    IN
    CASE call.verdict = "undoing" /\ h.do = "unlink" -> Going(call, Tail(call.todo))
      [] call.verdict = "running" /\ h.do \in {"write", "adu", "unlink", "listed"}
            /\ undo # << >> ->
            [call EXCEPT !.todo = undo, !.verdict = "undoing"]
      [] OTHER -> Over(call, "err")

(* A counter starts again with the port, the peer or the connection. *)
Reset(new) ==
    [s \in Session |-> IF s \in new /\ engine \in {"shadowsocks", "wireguard", "openvpn"}
                       THEN [bytes |-> 0, since |-> IF engine = "openvpn" THEN clock ELSE 0]
                       ELSE counters[s]]

Applies(h) == /\ store' = Effect(h) /\ files' = FilesAfter(h)
              /\ counters' = Reset((Ids(h.of) \ Ids(Held)) \cup
                                   (IF h.do = "add" THEN Ids(h.of) ELSE {}))
NoEffect == UNCHANGED <<store, files, counters>>
Event == events < MaxEvents /\ events' = events + 1

CommandDone(c) ==
    LET call == calls[c]  h == Head(call.todo) IN
    /\ Active(call) /\ Accepts(h)
    /\ Applies(h)
    /\ calls' = [calls EXCEPT ![c] = Going(
            [call EXCEPT
                !.seen = IF h.do = "emails" THEN @ \cup On(h.tag) ELSE @,
                !.added = IF h.do = "write" /\ h.tag = Tags[1] THEN << >>
                          ELSE IF h.do = "adu" THEN Append(@, h.tag) ELSE @],
            Found(call, h) \o Tail(call.todo))]
    /\ ready' = (ready \/ (call.op = "reconcile" /\ calls'[c].verdict = "ok"))
    /\ UNCHANGED <<engine, leased, issued, agentVars, clock, meter, moved, events, started>>

(* The answer is not what the control expects.  A port in use may be       *)
(* refused.                                                                *)
CommandRefused(c) ==
    LET call == calls[c]  h == Head(call.todo) IN
    /\ Active(call)
    /\ ~ Accepts(h) \/ (h.do = "add" /\ Slots(h.of) \subseteq Slots(Held))
    /\ NoEffect
    /\ calls' = [calls EXCEPT ![c] = Failed(call, h)]
    /\ UNCHANGED <<engine, leaseVars, agentVars, clock, meter, moved, events, started>>

(* A command fails, times out, or its answer is lost: an engine's, or one  *)
(* that an agent runs.                                                     *)
Fails(c) ==
    LET call == calls[c]  h == Head(call.todo) IN
    /\ Active(call) /\ h.do \notin {"write", "unlink"} /\ Event
    /\ (Applies(h) /\ Accepts(h)) \/ NoEffect
    /\ calls' = [calls EXCEPT ![c] = Failed(call, h)]
    /\ UNCHANGED <<engine, leaseVars, agentVars, clock, meter, moved, started>>

XrayRunFails(c) == engine = "xray" /\ Fails(c)
ShadowsocksRequestFails(c) == engine = "shadowsocks" /\ Fails(c)
HysteriaRequestFails(c) == engine = "hysteria" /\ Fails(c)
WireGuardCommandFails(c) == engine = "wireguard" /\ Fails(c)
ManagementFails(c) == engine = "openvpn" /\ Fails(c)

(* A file may have been made before writing it failed. *)
UserFileFails(c) ==
    LET call == calls[c]  h == Head(call.todo) IN
    /\ Active(call) /\ h.do \in {"write", "unlink"} /\ Event
    /\ (Applies(h) /\ Accepts(h)) \/ NoEffect
    /\ calls' = [calls EXCEPT ![c] = [Failed(call, h) EXCEPT !.spoiled = TRUE]]
    /\ UNCHANGED <<engine, leaseVars, agentVars, clock, meter, moved, started>>

(* The control stops waiting for the agent, whose handler may go on. *)
ControlTimesOut(c) ==
    /\ engine \in ByAgent /\ calls[c].verdict = "running" /\ Event
    /\ NoEffect /\ calls' = [calls EXCEPT ![c].verdict = "late"]
    /\ UNCHANGED <<engine, leaseVars, agentVars, clock, meter, moved, started>>

(* The handler of the request is dropped at its time limit. *)
HandlerDropped(c) ==
    LET call == calls[c]  h == Head(call.todo) IN
    /\ engine \notin ByAgent /\ call.op # "reconcile"
    /\ call.verdict \in {"running", "undoing"} /\ Event
    /\ (Applies(h) /\ Accepts(h)) \/ NoEffect
    /\ calls' = [calls EXCEPT ![c] = Over(call, "dropped")]
    /\ UNCHANGED <<engine, leaseVars, agentVars, clock, meter, moved, started>>

(* The agent notices that nobody waits and drops its handler. *)
Vanishes(c) ==
    /\ calls[c].verdict = "late"
    /\ calls' = [calls EXCEPT ![c] = Over(@, "err")]
    /\ UNCHANGED <<engine, store, files, leaseVars, agentVars, meterVars, events, started>>

-----------------------------------------------------------------------------
(* What goes on around the calls. *)
(* Hysteria and OpenVPN ask the server whether a client may sign in; while *)
(* an OpenVPN client shakes hands, the status lists it without a name.     *)
Handshake ==
    /\ engine = "openvpn" /\ Serving /\ ~ joining /\ joining' = TRUE
    /\ started < MaxCalls /\ started' = started + 1
    /\ UNCHANGED <<engine, callVars, leaseVars, agent, child, rules, meterVars, events>>

SignsIn ==
    /\ engine \in SignIn /\ Serving /\ (engine = "openvpn" => joining)
    /\ joining' = FALSE
    /\ \/ /\ \E a \in leased \ Held :
                /\ store' = store \cup Records({a}, "-")
                /\ counters' = Reset({a.id})
          /\ calls' = Disturbed
       \/ engine = "openvpn" /\ UNCHANGED <<store, counters, calls>>
    /\ UNCHANGED <<engine, files, leaseVars, agent, child, rules, clock, meter, moved,
                   events, started>>

Leaves ==
    /\ engine \in SignIn
    /\ \E r \in store : store' = store \ {r}
    /\ calls' = Disturbed
    /\ UNCHANGED <<engine, files, leaseVars, agentVars, meterVars, events, started>>

(* What an engine held goes with it; the kernel keeps the peers. *)
EngineRestarts ==
    /\ Event /\ engine \notin ByAgent
    /\ store' = {} /\ counters' = [s \in Session |-> [bytes |-> 0, since |-> 0]]
    /\ calls' = Disturbed
    /\ UNCHANGED <<engine, files, leaseVars, agentVars, clock, meter, moved, started>>

-----------------------------------------------------------------------------
(* The agents' startup, one command at a time.  A rule is added when the   *)
(* check does not find it; the check itself may fail.                      *)
ensure_iptables(rule, checked) ==
    IF checked /\ rule \in Range(rules) THEN rules ELSE Append(rules, rule)

Does(do) ==
    /\ engine \in ByAgent /\ agent < Len(Startup) /\ Startup[agent + 1] = do
    /\ agent' = agent + 1
    /\ UNCHANGED <<engine, callVars, leaseVars, joining, meterVars, started>>

AddsRule ==
    \E rule \in Range(install_firewall) :
        /\ Does(rule)
        /\ \/ rules' = ensure_iptables(rule, TRUE) /\ UNCHANGED events
           \/ rule \in Range(rules) /\ rules' = ensure_iptables(rule, FALSE) /\ Event
        /\ UNCHANGED child

Prepares ==
    \E do \in {"link", "key", "address", "up", "files", "socket", "config", "bind"} :
        Does(do) /\ UNCHANGED <<child, rules, events>>

launch_openvpn == Does("launch") /\ child' = TRUE /\ UNCHANGED <<rules, events>>

wait_until_ready == Does("ready") /\ child /\ UNCHANGED <<child, rules, events>>

(* The agent ends, and OpenVPN with it: a startup command failed, it was   *)
(* stopped, or it crashed.  Its requests end without an answer.            *)
stop_openvpn ==
    /\ agent' = 0 /\ child' = FALSE /\ joining' = FALSE
    /\ store' = IF engine = "openvpn" THEN {} ELSE store
    /\ calls' = [c \in Callers |->
                    IF Active(calls[c]) THEN Over(calls[c], "cut") ELSE calls[c]]
    /\ UNCHANGED <<engine, files, leaseVars, meterVars, started>>

AgentEnds == engine \in ByAgent /\ agent > 0 /\ Event /\ stop_openvpn /\ UNCHANGED rules

(* OpenVPN exits on its own; the watch of the agent finds out and ends it, *)
(* and so does the wait for readiness.                                     *)
OpenVpnExits ==
    /\ engine = "openvpn" /\ child /\ Event
    /\ child' = FALSE /\ joining' = FALSE /\ store' = {}
    /\ calls' = Disturbed
    /\ UNCHANGED <<engine, files, leaseVars, agent, rules, meterVars, started>>

watch_openvpn ==
    /\ engine = "openvpn" /\ ~ child /\ "launch" \in {Startup[i] : i \in 1 .. agent}
    /\ stop_openvpn /\ UNCHANGED <<rules, events>>

(* The agent's host starts again: no interface, no rules. *)
HostRestarts ==
    /\ engine = "wireguard" /\ agent > 0 /\ Event
    /\ rules' = << >> /\ store' = {} /\ agent' = 0
    /\ calls' = [c \in Callers |->
                    IF Active(calls[c]) THEN Over(calls[c], "cut") ELSE calls[c]]
    /\ UNCHANGED <<engine, files, leaseVars, child, joining, meterVars, started>>

(* The server starts again: its requests are gone, its files in /tmp too,  *)
(* and it reconciles the engines with the leases on disk.                  *)
ServerRestarts ==
    /\ Event /\ clock' = clock + 1
    /\ ready' = FALSE /\ files' = {}
    /\ meter' = [meter EXCEPT !.listed = << >>, !.last = [s \in Session |-> << >>]]
    /\ calls' = [c \in Callers |->
            IF ~ Active(calls[c]) THEN calls[c]
            ELSE IF engine \in ByAgent THEN [calls[c] EXCEPT !.verdict = "late"]
            ELSE Over(calls[c], "cut")]
    /\ UNCHANGED <<engine, store, leased, issued, agentVars, counters, moved, started>>

-----------------------------------------------------------------------------
(* The meter.  A counter is found by the session, or by the slot.          *)
Moves ==
    /\ Event
    /\ \E a \in {a \in Held : a.slot # Unaddressed} :
        /\ counters' = [counters EXCEPT ![a.id].bytes = @ + 1]
        /\ moved' = [moved EXCEPT ![a.id] = @ + 1]
    /\ UNCHANGED <<engine, callVars, leaseVars, agentVars, clock, meter, started>>

ShadowsocksUsage(a) == {counters[b.id] : b \in {b \in Held : b.slot = a.slot}}
WireGuardUsage(a) == {counters[b.id] : b \in {b \in Held : b.slot = a.slot}}
OpenVpnUsage(a) == {counters[b.id] : b \in {b \in Held : b.id = a.id}}
XrayUsage(a) == {counters[a.id]}
HysteriaUsage(a) == {counters[a.id]}

usage(a) ==
    CASE engine = "xray"        -> XrayUsage(a)
      [] engine = "shadowsocks" -> ShadowsocksUsage(a)
      [] engine = "wireguard"   -> WireGuardUsage(a)
      [] engine = "openvpn"     -> OpenVpnUsage(a)
      [] engine = "hysteria"    -> HysteriaUsage(a)

(* Mutation: a counter seen for the first time always counts in full. *)
DeltaInFull(s, r, issuedAt) ==
    IF meter.last[s] = << >> THEN r.bytes
    ELSE LET last == meter.last[s][1] IN
         IF last.since = r.since /\ r.bytes >= last.bytes THEN r.bytes - last.bytes
         ELSE r.bytes

(* A counter that went down or began anew counts in full; one seen for the *)
(* first time does when it began after the meter; the grant's allowance    *)
(* was set before that.                                                    *)
Delta(s, r, issuedAt) ==
    IF meter.last[s] = << >>
    THEN IF issuedAt >= clock \/ r.since >= clock THEN r.bytes ELSE 0
    ELSE LET last == meter.last[s][1] IN
         IF last.since = r.since /\ r.bytes >= last.bytes THEN r.bytes - last.bytes
         ELSE r.bytes

(* The meter lists the sessions and then reads the counters; leases come   *)
(* and go in between.  It starts after the reconciliation.                 *)
MeterLists ==
    /\ ready /\ meter.listed = << >>
    /\ meter' = IF leased = {} THEN [meter EXCEPT !.last = [s \in Session |-> << >>]]
                ELSE [meter EXCEPT !.listed = <<leased>>]
    /\ UNCHANGED <<engine, callVars, leaseVars, agentVars, clock, counters, moved, events,
                   started>>

(* Counters of sessions that are gone are forgotten; those the engine did  *)
(* not report are kept.                                                    *)
MeterTakes ==
    /\ meter.listed # << >>
    /\ Serving /\ Readable(engine, Held) /\ parse_status
    /\ LET of(s) == {a \in meter.listed[1] : a.id = s}
           reading(s) == UNION {usage(a) : a \in of(s)}
       IN meter' = [
            listed |-> << >>,
            last |-> [s \in Session |->
                CASE of(s) = {} -> << >>
                  [] reading(s) # {} -> <<CHOOSE r \in reading(s) : TRUE>>
                  [] OTHER -> meter.last[s]],
            charged |-> [s \in Session |->
                IF reading(s) = {} THEN meter.charged[s]
                ELSE meter.charged[s] + Delta(s, CHOOSE r \in reading(s) : TRUE, issued[s])]]
    /\ UNCHANGED <<engine, callVars, leaseVars, agentVars, clock, counters, moved, events,
                   started>>

(* A reading that fails leaves everything for the next one. *)
MeterFails ==
    /\ meter.listed # << >> /\ meter' = [meter EXCEPT !.listed = << >>]
    /\ UNCHANGED <<engine, callVars, leaseVars, agentVars, clock, counters, moved, events,
                   started>>

-----------------------------------------------------------------------------
(* The server starts, with leases on disk from an earlier run and engines  *)
(* that hold what that run left in them; it had counted all they moved.    *)
Init ==
    /\ engine \in Engines
    /\ \E start \in Starts :
        LET held == IF engine = "openvpn" /\ ~ start.up THEN {} ELSE start.held IN
        /\ store = UNION {Records(held, Tags[i]) : i \in DOMAIN Tags}
        /\ leased = start.leased /\ ready = start.ready
        /\ issued = [s \in Session |-> IF s \in Ids(held \cup leased) THEN 0 ELSE -1]
        /\ agent = IF engine \in ByAgent /\ start.up THEN Len(Startup) ELSE 0
        /\ child = (engine = "openvpn" /\ start.up)
        /\ rules = IF engine \in ByAgent /\ (start.up \/ held # {}) THEN install_firewall
                   ELSE << >>
        /\ moved = [s \in Session |-> IF s \in Ids(held) THEN 1 ELSE 0]
        /\ counters = [s \in Session |-> [bytes |-> moved[s], since |-> 0]]
        /\ meter = [listed |-> << >>, last |-> [s \in Session |-> << >>], charged |-> moved]
    /\ files = {} /\ joining = FALSE
    /\ calls = [c \in Callers |-> NoCall]
    /\ clock = 1 /\ events = 0 /\ started = 0

Next ==
    \/ \E c \in Callers :
        \/ StartProvision(c) \/ StartKick(c) \/ StartReconcile(c)
        \/ CommandDone(c) \/ CommandRefused(c)
        \/ XrayRunFails(c) \/ ShadowsocksRequestFails(c) \/ HysteriaRequestFails(c)
        \/ WireGuardCommandFails(c) \/ ManagementFails(c) \/ UserFileFails(c)
        \/ ControlTimesOut(c) \/ HandlerDropped(c) \/ Vanishes(c)
    \/ Handshake \/ SignsIn \/ Leaves \/ EngineRestarts
    \/ AddsRule \/ Prepares \/ launch_openvpn \/ wait_until_ready
    \/ AgentEnds \/ OpenVpnExits \/ watch_openvpn \/ HostRestarts
    \/ ServerRestarts \/ Moves \/ MeterLists \/ MeterTakes \/ MeterFails

Spec == Init /\ [][Next]_vars

-----------------------------------------------------------------------------
(* What a call owes when it ends. *)
Ended(c) == Active(calls[c]) /\ ~ Active(calls'[c])

Done(call, held) ==
    CASE call.op = "provision" ->
            \E a \in call.of : held = Provisioned(engine, call.before, a)
      [] call.op = "kick"      -> held = Kicked(engine, call.before, call.of)
      [] call.op = "reconcile" -> held = Reconciled(engine, call.before, call.of)

HalfDone(call, held) ==
    CASE call.op = "provision" ->
            \E a \in call.of : held \in HalfProvisioned(engine, call.before, a)
      [] call.op = "kick"      -> held \in HalfKicked(engine, call.before, call.of)
      [] call.op = "reconcile" -> held \in HalfReconciled(engine, call.before, call.of)

(* The controls of data_plane.rs and the handlers of the two agents do what *)
(* the rest of the server counts on: a call that met no other one leaves   *)
(* what DataPlane says when it reports success, and what DataPlane says a  *)
(* failed call may leave when it fails, is dropped or outlives its caller. *)
(* Calls about other sessions and slots may interleave with it as they     *)
(* like: a provisioning that reports success has installed its session, a  *)
(* kick that reports success has left nothing of its sessions.             *)
CallsRefineDataPlane ==
    [][\A c \in Callers :
        LET call    == calls[c]
            verdict == calls'[c].verdict
        IN  Ended(c) =>
              /\ call.alone =>
                   CASE verdict = "ok"  -> Done(call, Held')
                     [] verdict = "cut" -> TRUE
                     [] OTHER           -> HalfDone(call, Held')
              /\ call.clear /\ verdict = "ok" =>
                   CASE call.op = "provision" -> engine \in SignIn \/ call.of \subseteq Held'
                     [] call.op = "kick" ->
                           \A a \in call.of, b \in Held' : ~ Hits(engine, a, b)
                     [] OTHER -> TRUE]_vars

(* XrayControl::add_user takes its user file away again whatever the       *)
(* commands answer, so that the same session can be added again: a file    *)
(* stays only when writing or removing it failed or the call was dropped.  *)
UserFileGoes ==
    [][\A c \in Callers :
        Ended(c) /\ calls[c].clear /\ ~ calls'[c].spoiled
                /\ calls'[c].verdict \notin {"dropped", "cut"} =>
            Ids(calls[c].of) \cap files' \subseteq calls[c].kept]_vars

(* Whenever the host forwards for a client, every rule that fences clients *)
(* off comes before the one that lets them out, in whatever order the      *)
(* agents were stopped, crashed and started again.                         *)
ClientsAreFenced ==
    (engine \in ByAgent /\ store # {}) =>
        \A f \in Range(Fences) : \E i \in DOMAIN rules :
            rules[i] = f /\ \A j \in 1 .. i : rules[j] # "out"

(* The meter charges a session no byte twice: not after the server or the  *)
(* engine started again, a connection was replaced or a reading failed.    *)
(* An engine that counts by slot may charge what the slot's last session   *)
(* moved, see OwnTrafficOnly, and no more than that.                       *)
CountedOnce ==
    \A a \in Leases :
        meter.charged[a.id] <=
            IF engine \notin BySlot THEN moved[a.id]
            ELSE FoldSet(LAMBDA b, sum : sum + moved[b.id], 0,
                         {b \in Leases : b.slot = a.slot})

(* A session is charged what its own credential moved and nothing else     *)
(* (meter.rs: "Ket therefore never counts a byte twice").                  *)
OwnTrafficOnly == \A s \in Session : meter.charged[s] <= moved[s]
=============================================================================
