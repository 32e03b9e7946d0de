----------------------------- MODULE ControlApi -----------------------------
(***************************************************************************)
(* One app and one node over the session API, from the invite to the       *)
(* update that ends an old app's access: the client's calls                *)
(* (ket-client-core/src/api.rs), sealed or in the clear, the answers of    *)
(* the four session routes (ket-server/src/api/mod.rs) with their update   *)
(* advice, the public edge in between, and what the client makes of each.  *)
(* Meanwhile days pass, the operator upgrades, reconfigures and rolls back *)
(* the node, changes the grant, and the person restarts or updates the     *)
(* app.                                                                    *)
(*                                                                         *)
(* A handler is one step here; its interleavings with other handlers are   *)
(* the subject of SessionApi, and the sealed transport's clock and replay  *)
(* rules of SealedControl.                                                 *)
(***************************************************************************)
EXTENDS Releases, Invites

CONSTANTS
  History,      \* every release there will be, oldest first
  Grace,        \* security_grace_days of the manifests
  World,        \* what a run starts from, with the bound on the operator's and the
                \* person's changes: see MCControlApi
  FirstDate, FirstDay, MaxDay,   \* the calendar: where it starts, and its bound
  MaxLease,     \* bound on the sessions ever created
  MaxFaults     \* bound on the faults of the server's own parts

ASSUME ControlApiAssumption ==
  /\ History \in Seq(Entry)
  /\ valid_manifest([grace |-> Grace, releases |-> History])
  /\ FirstDay \in Nat /\ MaxDay \in Nat /\ MaxLease \in Nat /\ MaxFaults \in Nat

(* What is built is released, and an app runs on a platform there is.      *)
ASSUME WorldAssumption ==
  \A i \in DOMAIN World :
    /\ {World[i].build, World[i].app} \cup World[i].builds \subseteq 1..Len(History)
    /\ World[i].platform \in Platform
    /\ World[i].changes \in Nat

VARIABLES
  w,        \* the world, one of DOMAIN World
  day,      \* today
  node,     \* the server process: its build and the environment it started with
  grant,    \* the grant the invite stands for
  leases,   \* the grant's live sessions on the server
  issued,   \* how many sessions were ever created
  app,      \* the installed app: its build and the saved profile
  session,  \* the session the app holds, None when it holds none
  call,     \* the API call in flight
  shown,    \* the update advice in the app's snapshot
  said,     \* the advice last given under the present builds and settings
  left      \* changes and faults still to come: [changes, faults]

vars == <<w, day, node, grant, leases, issued, app, session, call, shown, said, left>>

None == 0
NoAdvice == [status |-> -1]
NoCall == [op |-> "none"]
NoProfile == [url |-> <<>>]

Manifest(build) == [grace |-> Grace, releases |-> SubSeq(History, 1, build)]
VersionOf(build) == History[build].version

-----------------------------------------------------------------------------
(* The node's settings.                                                    *)

MAX_DOWNLOAD_URL_CHARS == 2048

(* A URL is bounded as the operator wrote it and stored as the parser      *)
(* spells it, which may be longer.                                         *)
validate_download_url(u) == u.raw <= MAX_DOWNLOAD_URL_CHARS /\ u.https /\ ~u.creds /\ ~u.fragment

from_env(build, env) ==
  IF \/ env.minimum # <<>> /\ Version_from_str(env.minimum) = NoVersion
     \/ env.enforcement \notin {"", "enforce", "warn"}
     \/ ~validate_download_url(env.url)
  THEN NoPolicy
  ELSE ClientPolicy_new(VersionOf(build), env.minimum,
                        IF env.enforcement = "warn" THEN "warn" ELSE "enforce", env.url)

(* ServerConfig::from_env fails, and the process with it, when either part *)
(* does.                                                                   *)
Node(build, env) ==
  [build |-> build, env |-> env,
   up |-> from_env(build, env) # NoPolicy /\ InviteIssuer_new(env.key, World[w].url) # BadIssuer]

Issuer == InviteIssuer_new(node.env.key, World[w].url)

(* The Ket-Client header: apps up to 1.0.1 send none.                      *)
client_header_value(build) ==
  IF Newer(VersionOf(build), LEGACY_CLIENT_VERSION)
  THEN [platform |-> World[w].platform, version |-> VersionOf(build), fits |-> TRUE]
  ELSE NoHeader

advice(header) ==
  evaluate(from_env(node.build, node.env), Manifest(node.build), from_header(header), day)

is_required(a) == a.status = Required

-----------------------------------------------------------------------------
(* Answers.                                                                *)

(* `inner` is said of an answer that came inside a sealed response.        *)
Answer(status, code) == [status |-> status, code |-> code, advice |-> NoAdvice, lease |-> None,
                         signed |-> NoKey, inner |-> FALSE]
Pending == Answer(0, "")

ErrorCode(error) ==
  CASE error = "InvalidInput" -> <<422, "invalid_request">>
    [] error \in {"Unauthorized", "Forbidden"} -> <<401, "unauthorized">>
    [] error = "GrantExpired" -> <<403, "grant_expired">>
    [] error = "GrantPaused" -> <<423, "grant_paused">>
    [] error = "AllowanceUsed" -> <<423, "grant_allowance_used">>
    [] error = "GrantCapacity" -> <<409, "grant_capacity_reached">>
    [] error = "NodeCapacity" -> <<503, "node_capacity_reached">>
    [] error = "Busy" -> <<429, "server_busy">>
    [] error = "NotFound" -> <<404, "not_found">>
    [] OTHER -> <<500, "internal_error">>

ServiceError(error) == Answer(ErrorCode(error)[1], ErrorCode(error)[2])

client_update_required(a) == [Answer(426, "client_update_required") EXCEPT !.advice = a]
data_plane_unavailable == Answer(503, "data_plane_unavailable")
grant_protocols_unavailable == Answer(409, "grant_protocols_unavailable")

(* Why the access service turns a grant away.                              *)
Turned == [revoked |-> "Unauthorized", expired |-> "GrantExpired", paused |-> "GrantPaused",
           used |-> "AllowanceUsed"]

Admission(fault) ==
  IF fault = "busy" THEN "Busy"
  ELSE IF grant \in DOMAIN Turned THEN Turned[grant]
  ELSE IF Cardinality(leases) >= World[w].devices THEN "GrantCapacity"
  ELSE IF fault = "full" THEN "NodeCapacity"
  ELSE IF fault = "storage" THEN "Storage" ELSE "ok"

(* The manifest, signed when the app sent a nonce and the node has a key.  *)
signed_manifest_response(a, nonce) ==
  [Answer(201, "") EXCEPT !.advice = a, !.lease = issued + 1,
                          !.signed = IF nonce THEN Issuer.key ELSE NoKey]

(* create_session: the version is looked at only once the code was         *)
(* accepted; a session that is refused after that is taken back.           *)
create_session(a, nonce, fault) ==
  IF fault = "not_ready" THEN data_plane_unavailable
  ELSE IF Admission(fault) # "ok" THEN ServiceError(Admission(fault))
  ELSE IF is_required(a) THEN client_update_required(a)
  ELSE IF fault \in {"provision", "rollback"} THEN data_plane_unavailable
  ELSE IF fault = "no_protocol" THEN grant_protocols_unavailable
  ELSE signed_manifest_response(a, nonce)

(* Whether the session survives: refuse_session takes back what must not   *)
(* be used, unless the rollback fails as well.                             *)
Keeps(ans, fault) ==
  ans.status = 201 \/ (fault = "rollback" /\ Admission(fault) = "ok")

session_status(a, l) ==
  IF l \in leases THEN [Answer(200, "") EXCEPT !.advice = a] ELSE ServiceError("Unauthorized")

renew_session(a, l, fault) ==
  IF l \notin leases THEN ServiceError("Unauthorized")
  ELSE IF is_required(a) THEN client_update_required(a)
  ELSE IF fault = "storage" THEN ServiceError("Storage")
  ELSE [Answer(200, "") EXCEPT !.advice = a]

release_session(l, fault) ==
  IF l \notin leases THEN ServiceError("Unauthorized")
  ELSE IF fault = "storage" THEN ServiceError("Storage") ELSE Answer(204, "")

(* The session routes.  Only a request in the clear carries a nonce.       *)
Handled(op, a, nonce, fault) ==
  CASE op = "enroll" -> create_session(a, nonce, fault)
    [] op = "status" -> session_status(a, session)
    [] op = "renew" -> renew_session(a, session, fault)
    [] OTHER -> release_session(session, fault)

(* The public edge (nginx) shows rejected credentials and malformed        *)
(* requests as the page it serves to strangers.                            *)
Masked == {400, 401, 404, 405, 411, 413, 414, 415, 422, 431, 494}
Edge(ans) == IF World[w].edge /\ ans.status \in Masked THEN Answer(404, "") ELSE ans

-----------------------------------------------------------------------------
(* The client's calls.                                                     *)

(* Desktop: what an opened invite leaves in the profile, and the endpoint  *)
(* that `enroll` makes of a profile, new or saved.                         *)
invite_details(t, now) ==
  LET e == from_text(t, now) IN
  IF e = NoEndpoint THEN NoProfile ELSE [url |-> e.base, key |-> e.key, sealed |-> e.sealing = Must]

Endpoint(p) == with_required_sealing(parse_pinned(p.url, p.key), p.sealed)

(* What a call comes to: "ok", or the ClientError it returns.              *)
Failure(kind, ans) == [kind |-> kind, status |-> ans.status, advice |-> ans.advice]

sanitize_update(a) ==
  IF a # NoAdvice /\ a.url.https /\ ~a.url.creds /\ a.url.stored <= MAX_DOWNLOAD_URL_CHARS
  THEN a ELSE NoAdvice

api_error(ans) ==
  IF ans.status = 426 /\ sanitize_update(ans.advice) # NoAdvice
  THEN Failure("UpdateRequired", ans) ELSE Failure("Api", ans)

is_unauthorized(e) == e.kind = "Api" /\ e.status \in {401, 404}

(* Mutation: whatever the server refuses ends the session.                 *)
ends_session_refused(e) == e.kind \in {"Api", "UpdateRequired"}

ends_session(e) == is_unauthorized(e) \/ e.kind = "UpdateRequired"

Expected(op) == CASE op = "enroll" -> 201 [] op = "release" -> 204 [] OTHER -> 200
expect(op, ans) == IF ans.status = Expected(op) THEN Failure("ok", ans) ELSE api_error(ans)

(* In the clear, a session must come with the pinned node's signature.     *)
plain_exchange(e, op, ans) ==
  IF op = "enroll" /\ ans.status = 201 /\ e.key # NoKey /\ ans.signed # e.key
  THEN Failure("NodeIdentityMismatch", ans) ELSE expect(op, ans)

(* "Unsealed" is the one outcome the caller never sees: the call is made   *)
(* again in the clear.                                                     *)
exchange(e, way, op, ans) ==
  IF way = "plain" THEN plain_exchange(e, op, ans)
  ELSE IF ~ans.inner /\ ans.status = 404
       THEN Failure(IF e.sealing = Must THEN "SealedControlUnavailable" ELSE "Unsealed", ans)
  ELSE expect(op, ans)

Way(e) == IF e.key # NoKey /\ e.sealing # Off THEN "sealed" ELSE "plain"

(* apply_advice: no advice, or one with an unusable page, leaves the last. *)
apply_advice(last, a) == IF sanitize_update(a) = NoAdvice THEN last ELSE a

-----------------------------------------------------------------------------
(* Actions.                                                                *)

Changed == left' = [left EXCEPT !.changes = @ - 1] /\ left.changes > 0
Code == [name |-> "code", valid |-> TRUE]

(* The invite the operator sent; one issued before the sealed route        *)
(* existed offers version 1 only.                                          *)
Invite ==
  LET url == World[w].url
      env == World[w].env
  IN IF World[w].how = "old invite"
     THEN sign([key |-> env.key, locators |-> <<ket_locator(url)>>, code |-> Code,
                min |-> CONTROL_API_VERSION, max |-> CONTROL_API_VERSION, expires |-> World[w].ends],
               env.key)
     ELSE attach_invite(InviteIssuer_new(env.key, url), Code, World[w].ends)

Init ==
  /\ w \in DOMAIN World
  /\ day = FirstDay
  /\ node = Node(World[w].build, World[w].env)
  /\ grant = "live" /\ leases = {} /\ issued = 0
  /\ app = [build |-> World[w].app, profile |-> NoProfile]
  /\ session = None /\ call = NoCall /\ shown = NoAdvice /\ said = NoAdvice
  /\ left = [changes |-> World[w].changes, faults |-> MaxFaults]

(* The person opens the invite, or types the address and the code.         *)
AddServer ==
  /\ app.profile = NoProfile
  /\ LET typed == [url |-> World[w].url, key |-> NoKey, sealed |-> FALSE]
         profile == IF World[w].how = "typed" THEN typed ELSE invite_details(Invite, day)
     IN /\ profile # NoProfile
        /\ Endpoint(profile).base # <<>>
        /\ app' = [app EXCEPT !.profile = profile]
  /\ UNCHANGED <<w, day, node, grant, leases, issued, session, call, shown, said, left>>

(* One call at a time (the client's operation lock).  A profile that       *)
(* demands sealing without a key never gets as far as a request.           *)
Ask(op) ==
  /\ call = NoCall /\ app.profile # NoProfile
  /\ IF op = "enroll" THEN session = None /\ issued < MaxLease ELSE session # None
  /\ LET e == Endpoint(app.profile) IN
     /\ ~(e.key = NoKey /\ e.sealing = Must)
     /\ call' = [op |-> op, way |-> Way(e), ans |-> Pending]
  /\ UNCHANGED <<w, day, node, grant, leases, issued, app, session, shown, said, left>>

(* What can fail on the server while it answers.                           *)
Faults(op) ==
  CASE op = "enroll" -> {"not_ready", "busy", "full", "storage", "provision", "rollback", "no_protocol"}
    [] op = "status" -> {}
    [] OTHER -> {"storage"}

(* The server's part of a call.  A sealed request is opened with the       *)
(* node's key, and one sealed to another key, or sent to a node that has   *)
(* none, is answered like any unknown page.                                *)
Unopened ==
  /\ call' = [call EXCEPT !.ans = Edge(Answer(404, ""))]
  /\ UNCHANGED <<leases, issued, said>>

Opened(sealed, handled, fault) ==
  LET created == call.op = "enroll" /\ Keeps(handled, fault) IN
  /\ call' = [call EXCEPT !.ans = IF sealed THEN [handled EXCEPT !.inner = TRUE] ELSE Edge(handled)]
  /\ leases' = IF created THEN leases \cup {issued + 1}
               ELSE IF handled.status = 204 THEN leases \ {session} ELSE leases
  /\ issued' = IF created THEN issued + 1 ELSE issued
  /\ said' = IF handled.advice = NoAdvice THEN said ELSE [given |-> handled.advice, at |-> day]

Serve ==
  /\ call # NoCall /\ call.ans = Pending /\ node.up
  /\ \E fault \in {"none"} \cup (IF left.faults = 0 THEN {} ELSE Faults(call.op)) :
       LET a == advice(client_header_value(app.build))
           e == Endpoint(app.profile)
           sealed == call.way = "sealed"
           opens == sealed => Issuer.key = e.key
       IN /\ opens \/ fault = "none"
          /\ left' = [left EXCEPT !.faults = IF fault = "none" THEN @ ELSE @ - 1]
          /\ IF opens THEN Opened(sealed, Handled(call.op, a, ~sealed /\ e.key # NoKey, fault), fault)
                      ELSE Unopened
  /\ UNCHANGED <<w, day, node, grant, app, session, shown>>

(* What the client makes of the answer.                                    *)
Deliver ==
  /\ call # NoCall /\ call.ans # Pending
  /\ LET result == exchange(Endpoint(app.profile), call.way, call.op, call.ans)
         ok == result.kind = "ok"
         refused == result.kind = "UpdateRequired"
         last == IF call.op = "enroll" THEN NoAdvice ELSE shown
     IN IF result.kind = "Unsealed"
        THEN /\ call' = [call EXCEPT !.way = "plain", !.ans = Pending]
             /\ UNCHANGED <<session, shown>>
        ELSE /\ call' = NoCall
             /\ session' = CASE call.op = "enroll" -> IF ok THEN call.ans.lease ELSE None
                             [] call.op = "release" -> IF ok \/ is_unauthorized(result) THEN None ELSE session
                             [] OTHER -> IF ends_session(result) THEN None ELSE session
             /\ shown' = IF call.op # "release" /\ (ok \/ refused)
                         THEN apply_advice(last, call.ans.advice) ELSE last
  /\ UNCHANGED <<w, day, node, grant, leases, issued, app, said, left>>

(* The request, or the answer, is lost or late, or the edge answers for a  *)
(* node it cannot reach: ClientError::Network, or Api with a 5xx status.   *)
(* Neither ends a session.                                                 *)
Lose ==
  /\ call # NoCall
  /\ call' = NoCall
  /\ shown' = IF call.op = "enroll" THEN NoAdvice ELSE shown
  /\ UNCHANGED <<w, day, node, grant, leases, issued, app, session, said, left>>

(* The operator restarts the node with another build or other settings.    *)
(* Settings it cannot use keep it from starting.                           *)
Restart(build, env) ==
  /\ Changed
  /\ Node(build, env) # node
  /\ node' = Node(build, env)
  /\ said' = NoAdvice
  /\ UNCHANGED <<w, day, grant, leases, issued, app, session, call, shown>>

(* What becomes of the grant.  Its sessions end with it.                   *)
GrantChanges(to) ==
  /\ Changed
  /\ grant # to /\ grant # "revoked"
  /\ grant' = to
  /\ leases' = {}
  /\ UNCHANGED <<w, day, node, issued, app, session, call, shown, said>>

LeaseEnds(l) ==
  /\ Changed
  /\ leases' = leases \ {l}
  /\ UNCHANGED <<w, day, node, grant, issued, app, session, call, shown, said>>

DayPasses ==
  /\ day < MaxDay
  /\ day' = day + 1
  /\ UNCHANGED <<w, node, grant, leases, issued, app, session, call, shown, said, left>>

(* The app is closed and opened again, updated or not.  The profile is     *)
(* saved; the session and the snapshot are not.                            *)
AppRestarts(build) ==
  /\ Changed
  /\ app' = [app EXCEPT !.build = build]
  /\ session' = None /\ call' = NoCall /\ shown' = NoAdvice
  /\ said' = IF build = app.build THEN said ELSE NoAdvice
  /\ UNCHANGED <<w, day, node, grant, leases, issued>>

Next ==
  \/ AddServer
  \/ \E op \in {"enroll", "status", "renew", "release"} : Ask(op)
  \/ Serve
  \/ Deliver
  \/ Lose
  \/ \E build \in World[w].builds, env \in World[w].envs : Restart(build, env)
  \/ \E to \in {"live", "paused", "used", "expired", "revoked"} : GrantChanges(to)
  \/ \E l \in leases : LeaseEnds(l)
  \/ DayPasses
  \/ \E build \in app.build..Len(History) : AppRestarts(build)

Spec == Init /\ [][Next]_vars

-----------------------------------------------------------------------------
(* Properties.                                                             *)

Policy == from_env(node.build, node.env)

(* A server does not take back what it told an app about updating.  As     *)
(* long as neither of them changes, an announced deadline stays where it   *)
(* is until its day comes, and from that day on the update is required (a  *)
(* warning without a date where the operator chose `warn`); everything     *)
(* else that was said is said again.  The advice is worked out anew for    *)
(* every request (updates.rs, advice), from several releases at once.      *)
AdviceIsKept ==
  [][LET was == said.given
         is == said'.given
         overdue == was.after # Never /\ said'.at >= was.after
     IN said # NoAdvice /\ said' # NoAdvice =>
          IF overdue
          THEN is.after = Never /\ is.status = IF Policy.enforcement = "warn" THEN Security ELSE Required
          ELSE is.after = was.after /\ is.status = was.status]_vars

(* The update a server asks for is enough for that server: an app of the   *)
(* version a refusal names is not told to update again, whatever floor     *)
(* the operator set (ClientPolicy::new refuses one above the server) and   *)
(* whatever the release ratings say.                                       *)
UpdateEndsRefusal ==
  said # NoAdvice =>
    evaluate(Policy, Manifest(node.build),
             from_header([platform |-> World[w].platform, version |-> said.given.server, fits |-> TRUE]),
             day).status = Current

(* A security release the app has not got, and whose grace is over.        *)
GraceIsOver(m, old, server, platform, now) ==
  \E r \in After(m, old, server) : client_rating(r, platform) = Security /\ now >= Deadline(m, r)

(* What an operator reads before an upgrade is what happens after it: the  *)
(* category announced for a platform is the status that an app of the      *)
(* version left behind is then given, except that a security release whose *)
(* grace is over has become required, that a floor the operator sets       *)
(* requires the update anyhow, and that `warn` softens a required update;  *)
(* and the urgency announced for the server is never below any platform's. *)
ForecastHolds ==
  [][node'.up /\ node'.build > node.build =>
       \A p \in Platform :
         LET m == Manifest(node'.build)
             old == VersionOf(node.build)
             policy == from_env(node'.build, node'.env)
             forecast == app_update_category(m, old, policy.server, p)
             told == evaluate(policy, m, [platform |-> p, version |-> old], day).status
             most == IF policy.enforcement = "warn" THEN Security ELSE Required
             floored == policy.minimum # NoMinimum /\ Newer(policy.minimum, old)
         IN /\ \/ told = forecast
               \/ /\ told = most
                  /\ \/ forecast = Critical \/ floored
                     \/ forecast = Security /\ GraceIsOver(m, old, policy.server, p, day)
            /\ forecast <= server_update_category(m, old, policy.server)]_vars

(* An answer ends the app's session only when the server no longer has the *)
(* session, or requires a newer app: not a busy or failing server, not a   *)
(* lost answer, not the edge, not a node that lost its key and with it the *)
(* sealed route, whose 404 looks like the edge's 404 for a rejected token. *)
OnlyLostAccessEnds ==
  [][session # None /\ session' = None /\ call # NoCall /\ call.op \in {"status", "renew"} /\ left' = left =>
       session \notin leases \/ call.ans.status = 426]_vars

(* An app that was invited with sealed control never sends a session       *)
(* request in the clear: not when the node's key was removed or replaced,  *)
(* and not after a restart from the saved profile.                         *)
InvitedStaysSealed ==
  World[w].how = "invite" /\ call # NoCall => call.way = "sealed"

(* An invite leads to the node that issued it.  Until its end it opens, to *)
(* the node's own origin, with the node's key pinned and sealing required; *)
(* afterwards, or with any field changed, it does not open at all.  A      *)
(* development node on another 127/8 address is addressed as 127.0.0.1,    *)
(* and the Android emulator's 10.0.2.2 is refused by the desktop app.      *)
SameOrigin(a, b) ==
  /\ a.scheme = b.scheme /\ PortOf(a) = PortOf(b)
  /\ a.host = b.host \/ (a.host.kind = "ipv4" /\ a.host.loopback /\ b.host.kind = "ipv4" /\ b.host.loopback)

InviteLeadsHome ==
  LET url == World[w].url
      t == attach_invite(Issuer, Code, World[w].ends)
      opened == invite_details(t, day)
  IN app.profile = NoProfile /\ node.up /\ Issuer # NoIssuer =>
       /\ t # NoText
       /\ IF day >= World[w].ends \/ (url.host.kind = "ipv4" /\ url.host.address = "10.0.2.2")
          THEN opened = NoProfile
          ELSE /\ opened # NoProfile
               /\ SameOrigin(opened.url, url)
               /\ opened.key = node.env.key /\ opened.sealed
       /\ \A i \in 1..10, other \in World[w].damage :
            other[i] # t.payload[i] =>
              invite_details([t EXCEPT !.payload[i] = other[i]], day) = NoProfile

(* An invite is kept: it leads home, and what it said of sealing holds for *)
(* as long as the app has the profile it made of it.                       *)
InviteIsKept == InviteLeadsHome /\ InvitedStaysSealed

(* Calendar days and day numbers agree: the day after a date is the next   *)
(* number, over the ends of months and 28 February of a century year, so   *)
(* that a grace period of n days ends n calendar days after publication    *)
(* (manifest.rs, parse_date).                                              *)
NextDate(d) ==
  IF d[3] < MonthDays(d[1], d[2]) THEN <<d[1], d[2], d[3] + 1>>
  ELSE IF d[2] < 12 THEN <<d[1], d[2] + 1, 1>> ELSE <<d[1] + 1, 1, 1>>

DateOn[d \in FirstDay..MaxDay] == IF d = FirstDay THEN FirstDate ELSE NextDate(DateOn[d - 1])

DatesAreCounted == parse_date(DateOn[day]) = day

=============================================================================
