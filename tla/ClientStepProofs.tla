-------------------------- MODULE ClientStepProofs --------------------------
(***************************************************************************)
(* The turns of the task that holds the operation mutex keep the invariant *)
(* of the client: connecting, reconnecting, tearing down and releasing,    *)
(* however the answers of the server and of the tunnel interleave; and     *)
(* with ClientProofs so does every step.                                   *)
(***************************************************************************)
EXTENDS ClientProofs

-----------------------------------------------------------------------------
(* The turns of the task that holds the mutex. *)

-----------------------------------------------------------------------------
(* connect_locked and reconnect_locked. *)

(* Where the holder may go next, and what it relies on there. *)
LEMMA AskFits ==
  ASSUME ClientInv, NEW p \in Task, NEW a \in After, NEW b \in BOOLEAN,
         NEW r, NEW ph, r.session # None,
         a # "reconnect" => (desk.configured => Settled(r, ph)),
         a = "connect" => task[p].op = "connect"
  PROVE  /\ Ask(p, a, b) \in TaskState /\ Ask(p, a, b).pc = "calling" /\ Ask(p, a, b).op = task[p].op
         /\ Ask(p, a, b).lease = None /\ Sane(Ask(p, a, b))
         /\ Fits(Ask(p, a, b), r, ph, desk, leases, excused)
  <1>1. PICK k : k = Ask(p, a, b)
    BY Zenon
  <1>2. Plain(k, task[p].op, "calling") /\ k.after = a
    BY <1>1, AskRecord, Zenon DEF ClientInv
  <1>3. Sane(k)
    BY <1>2, Zenon DEF Plain, Sane, InStop
  <1>4. Fits(k, r, ph, desk, leases, excused)
    BY <1>2, Zenon DEF Plain, Fits, InStop, Silent, SilentStop
  <1> QED BY <1>1, <1>2, <1>3, <1>4, Zenon DEF Plain, Inside

\* An attempt to connect fits a runtime that has a session.
LEMMA BeginFits ==
  ASSUME ClientInv, NEW p \in Task, NEW b \in BOOLEAN, NEW r, NEW ph, r.session # None,
         ~b => (desk.configured => Settled(r, ph))
  PROVE  /\ Begin(p, b) \in TaskState /\ Begin(p, b).pc = "begin" /\ Begin(p, b).op = task[p].op
         /\ Begin(p, b).lease = None /\ Sane(Begin(p, b))
         /\ Fits(Begin(p, b), r, ph, desk, leases, excused)
  <1>1. PICK k : k = Begin(p, b)
    BY Zenon
  <1>2. Plain(k, task[p].op, "begin") /\ (k.re <=> b)
    BY <1>1, BeginRecord, Zenon DEF ClientInv
  <1>3. Sane(k)
    BY <1>2, Zenon DEF Plain, Sane, InStop
  <1>4. Fits(k, r, ph, desk, leases, excused)
    BY <1>2, Zenon DEF Plain, Fits, InStop, Silent, SilentStop
  <1> QED BY <1>1, <1>2, <1>3, <1>4, Zenon DEF Plain

\* A stop fits a runtime that has given its tunnel to it.
LEMMA StopFits ==
  ASSUME ClientInv, NEW p \in Task, NEW t \in Tunnel, NEW a \in Stopping, NEW r, NEW ph,
         r.session # None, r.tunnel = None,
         a = "release" => task[p].op \in Lifecycle,
         a = "ended" => r.session \notin leases \ excused,
         a = "stopped" => ~r.requested,
         desk.configured /\ (a \in {"reconnect", "unrequested"} \/ (a = "attempt" /\ ~task[p].re)) =>
           ph \in {"connected", "error"}
  PROVE  LET k == StopOf(p, t, a)
         IN /\ k \in TaskState /\ k.pc = "stopping" /\ k.op = task[p].op /\ k.lease = None
            /\ k.after = a
            /\ Sane(k) /\ Fits(k, r, ph, desk, leases, excused)
  <1>1. PICK k : k = StopOf(p, t, a)
    BY Zenon
  <1>2. Stops(k, task[p].op, "stopping", t, a) /\ k.re = task[p].re
    BY <1>1, StopRecord DEF ClientInv, Stopping, After
  <1>3. t # None
    BY ClientAssumption, Zenon
  <1>4. Sane(k)
    BY <1>2, <1>3, Zenon DEF Stops, Sane, InStop, Lifecycle
  <1>5. Fits(k, r, ph, desk, leases, excused)
    BY <1>2, Zenon DEF Stops, Fits, InStop, Silent, SilentStop
  <1> QED BY <1>1, <1>2, <1>4, <1>5, Zenon DEF Stops

\* An attempt that gives up.
LEMMA GivesUpKeeps ==
  ASSUME ClientInv, NEW p \in Task, task[p].pc \in Inside \ {"undoing"}, ~stopped, rt.session # None,
         Calm, NEW r \in Runtime, NEW ph \in Phase,
         r.session = rt.session, r.requested => rt.requested,
         ~task[p].re /\ desk.configured => Settled(r, ph),
         GivesUp(p, r, ph)
  PROVE  ClientInv'
  <1>1. CASE task[p].re
    <2>1. Goto(p, Ask(p, "reconnect", Due)) /\ rt' = r /\ phase' = ph /\ UNCHANGED lock
      BY <1>1, Zenon DEF GivesUp
    <2>2. Due \in BOOLEAN /\ "reconnect" \in After
      BY Names, Zenon DEF Due
    <2>3. Follows(rt')
      BY <2>1, Zenon DEF Follows
    <2> QED BY <2>1, <2>2, <2>3, AskFits, CalmGo, Zenon DEF Inside
  <1>2. CASE ~task[p].re
    <2>1. Return(p) /\ rt' = [r EXCEPT !.requested = FALSE] /\ phase' = ph
      BY <1>2, Zenon DEF GivesUp
    <2>2. Like(rt', r, r.session, r.tunnel)
      BY <2>1, RuntimeRequests, Zenon
    <2>3. Follows(rt')
      BY <2>2, Zenon DEF Follows, Like
    <2>4. desk.configured => Settled(rt', phase')
      BY <1>2, <2>1, <2>2, Zenon DEF Settled, Like
    <2> QED BY <2>1, <2>3, <2>4, CalmReturn, Zenon
  <1> QED BY <1>1, <1>2, Zenon

\* An attempt that was cancelled.
LEMMA FinishCancelledKeeps ==
  ASSUME ClientInv, NEW p \in Task, task[p].pc \in Inside \ {"undoing"}, rt.session # None, rt.tunnel = None,
         Calm, FinishCancelled(p)
  PROVE  ClientInv'
  <1>1. Return(p) /\ rt' = [rt EXCEPT !.requested = FALSE] /\ phase' = "enrolled"
    BY Zenon DEF FinishCancelled
  <1>2. Like(rt', rt, rt.session, rt.tunnel)
    BY <1>1, RuntimeRequests, SameRuntime, Zenon
  <1>3. Follows(rt') /\ Settled(rt', phase') /\ phase' \in Phase
    BY <1>1, <1>2, Zenon DEF Follows, Like, Settled, Phase
  <1> QED BY <1>1, <1>2, <1>3, CalmReturn, Zenon DEF Like

\* An attempt with its candidates in order.
LEMMA RankedKeeps ==
  ASSUME ClientInv, NEW p \in Task, task[p].pc \in Inside \ {"undoing"}, ~stopped,
         rt.session # None, rt.tunnel = None, Calm, Ranked(p)
  PROVE  ClientInv'
  <1>1. CASE GivesUp(p, rt, "error")
    BY <1>1, SameRuntime, GivesUpKeeps, Zenon DEF Settled, Phase
  <1>2. CASE /\ \E n \in 1..MaxAttempts :
                  Goto(p, [At(p, "probing") EXCEPT !.left = n, !.re = task[p].re, !.cut = task[p].cut])
             /\ phase' = Trying(p)
             /\ UNCHANGED <<lock, rt>>
    <2>1. PICK n \in 1..MaxAttempts :
             Goto(p, [At(p, "probing") EXCEPT !.left = n, !.re = task[p].re, !.cut = task[p].cut])
      BY <1>2, Zenon
    <2>2. PICK k : k = [At(p, "probing") EXCEPT !.left = n, !.re = task[p].re, !.cut = task[p].cut]
      BY Zenon
    <2>3. Plain(k, task[p].op, "probing") /\ k.left # 0
      BY <2>2, ProbeRecord, Zenon DEF ClientInv
    <2>4. Sane(k) /\ Fits(k, rt, phase', desk, leases, excused)
      BY <2>3, Zenon DEF Plain, Sane, Fits, InStop, Silent, SilentStop
    <2>5. phase' \in Phase /\ UNCHANGED <<lock, rt>> /\ Follows(rt')
      BY <1>2, SameRuntime, Zenon DEF Trying, Phase
    <2>6. Goto(p, k)
      BY <2>1, <2>2, Zenon
    <2> QED BY <2>3, <2>4, <2>5, <2>6, CalmGo, Zenon DEF Plain, Inside
  <1> QED BY <1>1, <1>2, Zenon DEF Ranked

\* An attempt that subscribes to cancellation.
LEMMA SubscribeKeeps ==
  ASSUME ClientInv, NEW p \in Task, Subscribe(p)
  PROVE  ClientInv'
  <1>1. task[p].pc = "begin" /\ task[p].pc \in Inside \ {"undoing"}
    BY Zenon DEF Subscribe, Inside
  <1>2. Calm
    BY CalmFacts, Zenon DEF Subscribe, Calm, ClientInv
  <1>3. ~stopped
    BY <1>1, StoppedFacts, Zenon
  <1>4. /\ rt.session # None /\ (~task[p].re /\ desk.configured => Settled(rt, phase))
    BY <1>1, HolderFacts, Zenon DEF Fits, Silent
  <1>5. CASE rt.tunnel = None
    BY <1>1, <1>2, <1>3, <1>4, <1>5, RankedKeeps, Zenon DEF Subscribe
  <1>6. CASE rt.tunnel # None /\ tun[rt.tunnel].view = "connected"
    <2>1. GivesUp(p, rt, phase)
      BY <1>6, Zenon DEF Subscribe
    <2> QED BY <1>1, <1>2, <1>3, <1>4, <2>1, SameRuntime, GivesUpKeeps, Zenon
  <1>7. CASE rt.tunnel # None /\ tun[rt.tunnel].view # "connected"
    <2>1. Goto(p, StopOf(p, rt.tunnel, "attempt")) /\ rt' = [rt EXCEPT !.tunnel = None] /\ UNCHANGED <<lock, phase>>
      BY <1>7, Zenon DEF Subscribe
    <2>2. PICK t \in Tunnel : t = rt.tunnel
      BY <1>7, SameRuntime, Zenon DEF Runtime
    <2>3. Like(rt', rt, rt.session, None)
      BY <2>1, RuntimeTunnel, SameRuntime, Zenon
    <2>4. Follows(rt') /\ rt'.session = rt.session /\ rt'.session # None /\ rt'.tunnel = None /\ phase' \in Phase
      BY <1>4, <2>1, <2>3, SameRuntime, Zenon DEF Like, Follows
    <2>5. desk.configured /\ ~task[p].re => phase' \in {"connected", "error"}
      BY <1>4, <1>7, <2>1, Zenon DEF Settled
    <2>6. PICK k : k = StopOf(p, t, "attempt")
      BY Zenon
    <2>7. /\ k \in TaskState /\ k.pc = "stopping" /\ k.op = task[p].op /\ k.lease = None
          /\ Sane(k) /\ Fits(k, rt', phase', desk, leases, excused)
      BY <2>4, <2>5, <2>6, StopFits DEF Stopping
    <2>8. Goto(p, k)
      BY <2>1, <2>2, <2>6, Zenon
    <2> QED BY <1>1, <1>2, <1>3, <2>1, <2>4, <2>7, <2>8, CalmGo, Zenon DEF Inside
  <1> QED BY <1>5, <1>6, <1>7, Zenon

(* What an attempt under way relies on. *)
LEMMA AttemptFacts ==
  ASSUME ClientInv, NEW p \in Task, task[p].pc \in {"probing", "connecting"}
  PROVE  /\ task[p].pc \in Inside \ {"undoing"} /\ ~stopped
         /\ rt.session # None /\ rt.tunnel = None
         /\ task[p] \in TaskState /\ Sane(task[p])
  BY HolderFacts, StoppedFacts, Zenon DEF Inside, Fits

\* An attempt that goes on to its next candidate, or gives up.
LEMMA NextCandidateKeeps ==
  ASSUME ClientInv, NEW p \in Task, task[p].pc \in {"probing", "connecting"}, Calm, NextCandidate(p)
  PROVE  ClientInv'
  <1>1. CASE task[p].left = 1
    BY <1>1, AttemptFacts, SameRuntime, GivesUpKeeps, Zenon DEF NextCandidate, Settled, Phase
  <1>2. CASE task[p].left # 1
    <2>1. PICK k : k = [task[p] EXCEPT !.pc = "probing", !.left = @ - 1]
      BY Zenon
    <2>2. Goto(p, k) /\ phase' = Trying(p) /\ UNCHANGED <<lock, rt>>
      BY <1>2, <2>1, Zenon DEF NextCandidate
    <2>3. Plain(k, task[p].op, "probing") /\ k.left # 0
      BY <1>2, <2>1, NextRecord, AttemptFacts, Zenon DEF ClientInv
    <2>4. Sane(k) /\ Fits(k, rt, phase', desk, leases, excused)
      BY <2>3, AttemptFacts, Zenon DEF Plain, Sane, Fits, InStop, Silent, SilentStop
    <2>5. phase' \in Phase /\ Follows(rt')
      BY <2>2, SameRuntime, Zenon DEF Trying, Phase
    <2> QED BY <2>2, <2>3, <2>4, <2>5, AttemptFacts, CalmGo, Zenon DEF Plain, Inside
  <1> QED BY <1>1, <1>2, Zenon

\* An attempt whose candidate answered the probe or did not.
LEMMA ProbeKeeps ==
  ASSUME ClientInv, NEW p \in Task, Probe(p)
  PROVE  ClientInv'
  <1>1. task[p].pc \in {"probing", "connecting"}
    BY Zenon DEF Probe
  <1>2. Calm
    BY CalmFacts, Zenon DEF Probe, Sees, Calm, ClientInv
  <1>3. CASE NextCandidate(p)
    BY <1>1, <1>2, <1>3, NextCandidateKeeps, Zenon
  <1>4. CASE FinishCancelled(p)
    BY <1>1, <1>2, <1>4, AttemptFacts, FinishCancelledKeeps, Zenon
  <1>5. CASE /\ Goto(p, [task[p] EXCEPT !.pc = "connecting"])
             /\ phase' = IF task[p].re THEN "reconnecting" ELSE "connecting"
             /\ UNCHANGED <<lock, rt>>
    <2>1. PICK k : k = [task[p] EXCEPT !.pc = "connecting"]
      BY Zenon
    <2>2. Plain(k, task[p].op, "connecting") /\ k.left # 0
      BY <1>1, <2>1, NextRecord, AttemptFacts, Zenon DEF ClientInv
    <2>3. Sane(k) /\ Fits(k, rt, phase', desk, leases, excused)
      BY <1>1, <2>2, AttemptFacts, Zenon DEF Plain, Sane, Fits, InStop, Silent, SilentStop
    <2>4. phase' \in Phase /\ Follows(rt')
      BY <1>5, SameRuntime, Zenon DEF Phase
    <2> QED BY <1>1, <1>2, <1>5, <2>1, <2>2, <2>3, <2>4, AttemptFacts, CalmGo, Zenon DEF Plain, Inside
  <1> QED BY <1>3, <1>4, <1>5, Zenon DEF Probe

\* A candidate that connected.
LEMMA ConnectedKeeps ==
  ASSUME ClientInv, NEW p \in Task, Connected(p)
  PROVE  ClientInv'
  <1>1. task[p].pc \in {"probing", "connecting"} /\ task[p].pc = "connecting"
    BY Zenon DEF Connected
  <1>2. PICK t \in Unused :
          /\ tun' = [tun EXCEPT ![t] = Started]
          /\ IF task[p].cut
               THEN Goto(p, StopOf(p, t, "cancelled")) /\ UNCHANGED <<lock, rt, phase>>
               ELSE /\ Return(p) /\ phase' = "connected"
                    /\ rt' = [rt EXCEPT !.tunnel = t]
    BY Zenon DEF Connected
  <1>3. t \in Tunnel
    BY Zenon DEF Unused
  <1>4. Calm
    BY <1>2, <1>3, CalmFacts, TunnelRecords, Zenon DEF Connected, Sees, Calm, ClientInv
  <1>5. CASE task[p].cut
    <2>1. PICK k : k = StopOf(p, t, "cancelled")
      BY Zenon
    <2>2. Goto(p, k) /\ UNCHANGED <<lock, rt, phase>>
      BY <1>2, <1>5, <2>1, Zenon
    <2>3. /\ k \in TaskState /\ k.pc = "stopping" /\ k.op = task[p].op /\ k.lease = None
          /\ Sane(k) /\ Fits(k, rt, phase, desk, leases, excused)
      BY <1>1, <1>3, <2>1, AttemptFacts, StopFits DEF Stopping
    <2> QED BY <1>1, <1>4, <2>2, <2>3, AttemptFacts, SameRuntime, CalmGo, Zenon DEF Inside
  <1>6. CASE ~task[p].cut
    <2>1. Return(p) /\ phase' = "connected" /\ rt' = [rt EXCEPT !.tunnel = t]
      BY <1>2, <1>6, Zenon
    <2>2. Like(rt', rt, rt.session, t) /\ t # None
      BY <1>3, <2>1, RuntimeTunnel, SameRuntime, ClientAssumption, Zenon
    <2>3. Follows(rt') /\ Settled(rt', phase') /\ phase' \in Phase
      BY <1>1, <2>1, <2>2, AttemptFacts, Zenon DEF Follows, Like, Settled, Phase
    <2> QED BY <1>1, <1>4, <2>1, <2>3, AttemptFacts, CalmReturn, Zenon
  <1> QED BY <1>5, <1>6, Zenon

\* A candidate that failed, or whose answer was lost.
LEMMA ConnectFailsKeeps ==
  ASSUME ClientInv, NEW p \in Task, ConnectFails(p) \/ ConnectDropped(p)
  PROVE  ClientInv'
  <1>1. task[p].pc \in {"probing", "connecting"}
    BY Zenon DEF ConnectFails, ConnectDropped
  <1>2. CASE ConnectFails(p)
    <2>1. Calm
      BY <1>2, CalmFacts, Zenon DEF ConnectFails, Calm, ClientInv
    <2> QED BY <1>1, <1>2, <2>1, NextCandidateKeeps, Zenon DEF ConnectFails
  <1>3. CASE ConnectDropped(p)
    <2>1. Calm
      BY <1>3, CalmFacts, Zenon DEF ConnectDropped, Sees, Calm, ClientInv
    <2> QED BY <1>1, <1>3, <2>1, AttemptFacts, FinishCancelledKeeps, Zenon DEF ConnectDropped
  <1> QED BY <1>2, <1>3, Zenon


-----------------------------------------------------------------------------
(* refresh_locked and maintain_once. *)

\* What the invariant says of a task that asks the control API.
LEMMA CallFacts ==
  ASSUME ClientInv, NEW p \in Task, task[p].pc = "calling"
  PROVE  /\ task[p].pc \in Inside \ {"undoing"} /\ rt.session # None
         /\ task[p].after # "reconnect" /\ desk.configured => Settled(rt, phase)
         /\ task[p].after = "connect" => task[p].op = "connect" /\ ~stopped
         /\ stopped => rt.tunnel = None /\ ~rt.requested
  BY HolderFacts, StoppedFacts, Zenon DEF Inside, Fits, Silent, Sane

(* The call comes back and shows the failed reconnect, or nothing. *)
LEMMA ShownKeeps ==
  ASSUME ClientInv, NEW p \in Task, task[p].pc = "calling", Calm, Return(p),
         Like(rt', rt, rt.session, rt.tunnel), Shown(p)
  PROVE  ClientInv'
  <1>1. phase' \in Phase
    BY SameRuntime, Zenon DEF Shown, Phase
  <1>2. Follows(rt')
    BY SameRuntime, Zenon DEF Follows, Like
  <1>3. desk.configured => Settled(rt', phase')
    BY CallFacts, Zenon DEF Shown, Settled, Like
  <1>4. stopped => rt'.tunnel = None
    BY CallFacts, Zenon DEF Like
  <1> QED BY <1>1, <1>2, <1>3, <1>4, CallFacts, CalmReturn, Zenon

(* The connect goes on to its attempt. *)
LEMMA OnwardKeeps ==
  ASSUME ClientInv, NEW p \in Task, task[p].pc = "calling", task[p].after = "connect", Calm,
         Goto(p, Begin(p, FALSE)), UNCHANGED <<lock, phase>>, Like(rt', rt, rt.session, rt.tunnel)
  PROVE  ClientInv'
  <1>1. phase' \in Phase /\ Follows(rt') /\ rt'.session = rt.session /\ rt'.session # None
    BY SameRuntime, CallFacts, Zenon DEF Follows, Like
  <1>2. desk.configured => Settled(rt', phase')
    BY CallFacts, Zenon DEF Settled, Like
  <1>3. PICK k : k = Begin(p, FALSE)
    BY Zenon
  <1>4. /\ k \in TaskState /\ k.pc = "begin" /\ k.op = task[p].op /\ k.lease = None /\ Sane(k)
        /\ Fits(k, rt', phase', desk, leases, excused)
    BY <1>1, <1>2, <1>3, BeginFits, Zenon
  <1> QED BY <1>1, <1>3, <1>4, CallFacts, CalmGo, Zenon DEF Inside

\* A renewal that the server granted.
LEMMA AnswerOkKeeps ==
  ASSUME ClientInv, NEW p \in Task, AnswerOk(p)
  PROVE  ClientInv'
  <1>1. task[p].pc = "calling" /\ rt' = Applied(task[p].renew)
    BY Zenon DEF AnswerOk
  <1>2. Calm
    BY CalmFacts, Zenon DEF AnswerOk, Sees, Calm, ClientInv
  <1>3. Like(rt', rt, rt.session, rt.tunnel)
    <2>1. PICK a \in {"fresh", "due", "lapsed"} : a = IF task[p].renew THEN "fresh" ELSE rt.age
      BY SameRuntime, Zenon DEF Runtime
    <2>2. rt' = [rt EXCEPT !.failures = 0, !.age = a]
      BY <1>1, <2>1, Zenon DEF Applied
    <2>3. 0 \in 0..2 /\ rt \in Runtime
      BY SameRuntime
    <2> QED BY <2>2, <2>3, RuntimeCounts, Zenon
  <1>4. CASE task[p].after = "connect"
    BY <1>1, <1>2, <1>3, <1>4, OnwardKeeps, Zenon DEF AnswerOk
  <1>5. CASE task[p].after # "connect"
    BY <1>1, <1>2, <1>3, <1>5, ShownKeeps, Zenon DEF AnswerOk
  <1> QED BY <1>4, <1>5, Zenon

\* A renewal that the server refused because the session ended.
LEMMA AnswerBadKeeps ==
  ASSUME ClientInv, NEW p \in Task, AnswerBad(p)
  PROVE  ClientInv'
  <1>1. Calm
    BY CalmFacts, Zenon DEF AnswerBad, Sees, Calm, ClientInv
  <1>2. PICK b \in BOOLEAN : b = (task[p].after # "connect")
    BY Zenon
  <1>3. rt' = [rt EXCEPT !.requested = @ /\ b]
    BY <1>2, Zenon DEF AnswerBad
  <1>4. Like(rt', rt, rt.session, rt.tunnel)
    BY <1>3, RuntimeKeepsIntent, SameRuntime, Zenon
  <1> QED BY <1>1, <1>4, ShownKeeps, Zenon DEF AnswerBad

\* A check of the connection fits a runtime that has a tunnel.
LEMMA CheckFits ==
  ASSUME ClientInv, NEW p \in Task, NEW a \in After, NEW r, NEW ph,
         r.session # None, r.tunnel # None, desk.configured => Settled(r, ph)
  PROVE  LET k == [At(p, "checking") EXCEPT !.after = a]
         IN /\ k \in TaskState /\ k.pc = "checking" /\ k.op = task[p].op /\ k.lease = None
            /\ Sane(k) /\ Fits(k, r, ph, desk, leases, excused)
  <1>1. PICK k : k = [At(p, "checking") EXCEPT !.after = a]
    BY Zenon
  <1>2. Plain(k, task[p].op, "checking")
    BY <1>1, CheckRecord, Zenon DEF ClientInv
  <1>3. Sane(k) /\ Fits(k, r, ph, desk, leases, excused)
    BY <1>2, Zenon DEF Plain, Sane, Fits, InStop, Silent, SilentStop
  <1> QED BY <1>1, <1>2, <1>3, Zenon DEF Plain

\* A renewal that could not reach the server.
LEMMA UnreachableKeeps ==
  ASSUME ClientInv, NEW p \in Task, Unreachable(p)
  PROVE  ClientInv'
  <1>1. task[p].pc = "calling"
    BY Zenon DEF Unreachable
  <1>2. Calm
    BY CalmFacts, Zenon DEF Unreachable, Sees, Calm, ClientInv
  <1>3. Like(rt, rt, rt.session, rt.tunnel)
    BY SameRuntime, Zenon DEF Like
  <1>4. CASE task[p].after = "connect" /\ rt.age # "lapsed"
    <2>1. Goto(p, Begin(p, FALSE)) /\ UNCHANGED <<lock, rt, phase>>
      BY <1>4, Zenon DEF Unreachable
    <2> QED BY <1>1, <1>2, <1>3, <1>4, <2>1, OnwardKeeps, Zenon
  <1>5. CASE task[p].after = "connect" /\ rt.age = "lapsed"
    <2>1. Return(p) /\ rt' = [rt EXCEPT !.requested = FALSE] /\ UNCHANGED phase
      BY <1>5, Zenon DEF Unreachable
    <2>2. Like(rt', rt, rt.session, rt.tunnel)
      BY <2>1, RuntimeRequests, SameRuntime, Zenon
    <2>3. Shown(p)
      BY <1>5, <2>1, Zenon DEF Shown
    <2> QED BY <1>1, <1>2, <2>1, <2>2, <2>3, ShownKeeps, Zenon
  <1>6. CASE task[p].after = "maintain"
    <2>1. PICK n : n = IF rt.failures = 2 THEN 2 ELSE rt.failures + 1
      BY Zenon
    <2>2. /\ rt' = [rt EXCEPT !.failures = n] /\ UNCHANGED phase
          /\ IF Active /\ n = 2 /\ tun[rt.tunnel].net # "offline"
               THEN Goto(p, [At(p, "checking") EXCEPT !.after = "maintain"]) /\ UNCHANGED lock
               ELSE Return(p)
      BY <1>6, <2>1, "maintain" # "connect", Zenon DEF Unreachable
    <2>3. n \in 0..2
      BY <2>1, SameRuntime DEF Runtime
    <2>4. Like(rt', rt, rt.session, rt.tunnel)
      BY <2>2, <2>3, RuntimeCounts, SameRuntime, Zenon
    <2>5. CASE Return(p)
      <3>1. Shown(p)
        BY <1>6, <2>2, Zenon DEF Shown
      <3> QED BY <1>1, <1>2, <2>4, <2>5, <3>1, ShownKeeps, Zenon
    <2>6. CASE Active /\ Goto(p, [At(p, "checking") EXCEPT !.after = "maintain"]) /\ UNCHANGED lock
      <3>1. rt'.session # None /\ rt'.tunnel # None /\ ~stopped /\ phase' \in Phase
            /\ Follows(rt') /\ rt'.session = rt.session
        BY <1>1, <2>2, <2>4, <2>6, CallFacts, SameRuntime, Zenon DEF Active, Like, Follows
      <3>2. desk.configured => Settled(rt', phase')
        BY <1>1, <1>6, <2>2, <2>4, CallFacts, Zenon DEF Settled, Like
      <3>3. PICK k : k = [At(p, "checking") EXCEPT !.after = "maintain"]
        BY Zenon
      <3>4. /\ k \in TaskState /\ k.pc = "checking" /\ k.op = task[p].op /\ k.lease = None
            /\ Sane(k) /\ Fits(k, rt', phase', desk, leases, excused)
        BY <3>1, <3>2, <3>3, CheckFits, Names
      <3> QED BY <1>1, <1>2, <2>6, <3>1, <3>3, <3>4, CallFacts, CalmGo, Zenon DEF Inside
    <2> QED BY <2>2, <2>5, <2>6, Zenon
  <1>7. CASE task[p].after \notin {"connect", "maintain"}
    <2>1. Return(p) /\ Shown(p) /\ UNCHANGED rt
      BY <1>7, Zenon DEF Unreachable
    <2> QED BY <1>1, <1>2, <1>3, <2>1, ShownKeeps, Zenon
  <1> QED BY <1>4, <1>5, <1>6, <1>7, Zenon

\* A connection that was checked, and is kept or given up.
LEMMA CheckedKeeps ==
  ASSUME ClientInv, NEW p \in Task, Checked(p)
  PROVE  ClientInv'
  <1>1. /\ task[p].pc = "checking" /\ task[p].pc \in Inside \ {"undoing"}
        /\ UNCHANGED phase
    BY Zenon DEF Checked, Inside
  <1>2. Calm
    BY CalmFacts, Zenon DEF Checked, Sees, Calm, ClientInv
  <1>3. /\ ~stopped /\ rt.session # None /\ rt.tunnel # None
        /\ desk.configured => Settled(rt, phase)
    BY <1>1, HolderFacts, StoppedFacts, Zenon DEF Fits, Silent
  <1>4. CASE Return(p) /\ UNCHANGED rt
    BY <1>1, <1>2, <1>3, <1>4, SameRuntime, CalmReturn, Zenon
  <1>5. CASE /\ Goto(p, StopOf(p, rt.tunnel, "reconnect"))
             /\ rt' = [rt EXCEPT !.tunnel = None, !.failures = IF task[p].after = "maintain" THEN 0 ELSE @]
             /\ UNCHANGED lock
    <2>1. PICK n : n = IF task[p].after = "maintain" THEN 0 ELSE rt.failures
      BY Zenon
    <2>2. rt \in Runtime /\ n \in 0..2 /\ "fresh" \in {"fresh", "due", "lapsed"}
      BY <2>1, SameRuntime DEF Runtime
    <2>3. rt' = [rt EXCEPT !.tunnel = None, !.failures = n]
      BY <1>5, <2>1, Zenon
    <2>4. Like(rt', rt, rt.session, None)
      BY <2>2, <2>3, RuntimeCounts, Zenon
    <2>5. /\ Follows(rt') /\ rt'.session = rt.session /\ rt'.session # None /\ rt'.tunnel = None
          /\ phase' \in Phase
      BY <1>1, <1>3, <2>4, SameRuntime, Zenon DEF Follows, Like
    <2>6. desk.configured => phase' \in {"connected", "error"}
      BY <1>1, <1>3, Zenon DEF Settled
    <2>7. PICK t \in Tunnel : t = rt.tunnel
      BY <1>3, <2>2, Zenon DEF Runtime
    <2>8. PICK k : k = StopOf(p, t, "reconnect")
      BY Zenon
    <2>9. /\ k \in TaskState /\ k.pc = "stopping" /\ k.op = task[p].op /\ k.lease = None
          /\ Sane(k) /\ Fits(k, rt', phase', desk, leases, excused)
      BY <2>5, <2>6, <2>8, StopFits DEF Stopping
    <2>10. Goto(p, k)
      BY <1>5, <2>7, <2>8, Zenon
    <2> QED BY <1>1, <1>2, <1>3, <1>5, <2>5, <2>9, <2>10, CalmGo, Zenon DEF Inside
  <1> QED BY <1>4, <1>5, Zenon DEF Checked

(* The server's refusal: the lease is the server's affair from here on. *)
LEMMA AnswerEndsKeeps ==
  ASSUME ClientInv, NEW p \in Task, AnswerEnds(p)
  PROVE  ClientInv'
  <1>1. /\ task[p].pc = "calling" /\ task[p].pc \in Inside
        /\ UNCHANGED <<queue, desk, tun, leases, stopped, faults>>
        /\ excused' = excused \cup ({rt.session} \cap leases)
    BY Zenon DEF AnswerEnds, Inside
  <1>2. /\ lock = p /\ lock # None /\ Sane(task[p]) /\ rt \in Runtime /\ phase \in Phase
        /\ \A l \in leases : l = rt.session \/ l \in excused \/ l = task[p].lease
    BY <1>1, HolderFacts, Zenon
  <1>3. \A l \in leases : l \in excused'
    <2>1. \A l \in leases : l # None /\ task[p].lease = None
      BY <1>1, <1>2, ClientAssumption, Zenon DEF Sane, ClientInv, TypeOK
    <2> QED BY <1>1, <1>2, <2>1, Zenon
  <1>4. tun' \in [Tunnel -> TunnelState] /\ faults' \in 0..MaxFaults
    BY <1>1, Zenon DEF ClientInv, TypeOK
  <1>5. leases' \subseteq Lease /\ excused' \subseteq Lease /\ stopped' \in BOOLEAN
    BY <1>1, Zenon DEF ClientInv, TypeOK
  <1>6. CASE rt.tunnel = None
    <2>1. Goto(p, Idle) /\ lock' = None /\ rt' = NewRuntime /\ phase' = "error"
      BY <1>6, Zenon DEF AnswerEnds, EndSession, Return
    <2>2. Turn(p, Idle)
      BY <1>1, <1>2, <1>4, <2>1, IdleFits, Zenon DEF Turn, Goto, Inside
    <2>3. rt' \in Runtime /\ rt'.session = None /\ rt'.tunnel = None /\ ~rt'.requested
      BY <2>1, EmptyRuntime, Zenon
    <2>4. Leaves(p, Idle)
      BY <2>1, <2>3, IdleFits, Zenon DEF Leaves, RuntimeInv, Phase, Settled
    <2>5. LeavesLeases(Idle) /\ LeavesDesk(p, Idle)
      BY <1>1, <1>3, <1>5, Zenon DEF LeavesLeases, LeavesDesk
    <2>6. LeavesStopped(p, Idle)
      BY <1>1, <1>5, <2>3, IdleFits, Zenon DEF LeavesStopped, InStop
    <2> QED BY <2>2, <2>4, <2>5, <2>6, TurnKeeps, Zenon DEF GoodTurn
  <1>7. CASE rt.tunnel # None
    <2>1. PICK t \in Tunnel : t = rt.tunnel
      BY <1>2, <1>7, Zenon DEF Runtime
    <2>2. PICK k : k = StopOf(p, t, "ended")
      BY Zenon
    <2>3. /\ Goto(p, k) /\ rt' = [rt EXCEPT !.requested = FALSE, !.tunnel = None]
          /\ UNCHANGED <<lock, phase>>
      BY <1>7, <2>1, <2>2, Zenon DEF AnswerEnds
    <2>4. Like(rt', rt, rt.session, None)
      BY <1>2, <2>3, RuntimeStops, Zenon
    <2>5. ~stopped /\ rt.session # None
      BY <1>1, <1>7, CallFacts, Zenon
    <2>6. Stops(k, task[p].op, "stopping", t, "ended") /\ t # None
      BY <2>2, StopRecord, Names, ClientAssumption, Zenon DEF ClientInv
    <2>7. Sane(k) /\ Fits(k, rt', phase', desk', leases', excused')
      <3>1. rt'.session \notin leases' \ excused' /\ rt'.session # None /\ rt'.tunnel = None
        BY <1>1, <1>3, <2>4, <2>5, Zenon DEF Like
      <3> QED BY <2>6, <3>1, Zenon DEF Stops, Sane, Fits, InStop, Silent, SilentStop, Stopping
    <2>8. Turn(p, k)
      BY <1>1, <1>2, <1>4, <2>3, <2>6, <2>7, Zenon DEF Turn, Goto, Inside, Stops
    <2>9. Leaves(p, k)
      BY <1>2, <2>3, <2>4, <2>5, <2>6, <2>7, Zenon DEF Leaves, RuntimeInv, Like, Stops, Inside
    <2>10. LeavesLeases(k) /\ LeavesDesk(p, k) /\ LeavesStopped(p, k)
      BY <1>1, <1>3, <1>5, <2>5, Zenon DEF LeavesLeases, LeavesDesk, LeavesStopped
    <2> QED BY <2>8, <2>9, <2>10, TurnKeeps, Zenon DEF GoodTurn
  <1> QED BY <1>6, <1>7, Zenon


-----------------------------------------------------------------------------
(* ActiveTunnel::stop. *)

\* What the invariant says of a task that stops a tunnel.
LEMMA StopFacts ==
  ASSUME ClientInv, NEW p \in Task, task[p].pc \in InStop
  PROVE  /\ task[p].pc \in Inside \ {"undoing"} /\ ~stopped
         /\ rt.session # None /\ rt.tunnel = None /\ task[p].tun \in Tunnel /\ task[p].lease = None
         /\ task[p].after \in Stopping
         /\ task[p].after = "ended" => rt.session \notin leases \ excused
         /\ task[p].after = "stopped" => ~rt.requested
         /\ task[p].after = "release" => task[p].op \in Lifecycle /\ ~desk.configured
         /\ desk.configured /\ SilentStop(task[p]) => phase \in {"connected", "error"}
  <1>1. /\ task[p].pc \in Inside \ {"undoing"}
        /\ task[p] \in TaskState /\ Sane(task[p]) /\ Fits(task[p], rt, phase, desk, leases, excused)
    BY HolderFacts, Zenon DEF InStop, Inside
  <1>2. ~stopped
    BY StoppedFacts, Zenon DEF InStop
  <1>3. task[p].tun \in Tunnel
    BY <1>1, Zenon DEF Sane, TaskState
  <1> QED BY <1>1, <1>2, <1>3, LifecycleFacts, Zenon DEF Sane, Fits, InStop

\* A stop that is ordered, or that finds the tunnel ended.
LEMMA StopOrderedKeeps ==
  ASSUME ClientInv, NEW p \in Task, StopOrdered(p)
  PROVE  ClientInv'
  <1>1. task[p].pc = "stopping" /\ task[p].pc \in InStop
    BY Zenon DEF StopOrdered, InStop
  <1>2. Calm
    <2>1. PICK t \in Tunnel : t = task[p].tun
      BY <1>1, StopFacts, Zenon
    <2>2. tun' = [tun EXCEPT ![t].order = TRUE]
      BY <2>1, Zenon DEF StopOrdered
    <2>3. [tun[t] EXCEPT !.order = TRUE] \in TunnelState
      <3>1. tun[t] \in TunnelState /\ TRUE \in BOOLEAN
        BY Zenon DEF ClientInv, TypeOK
      <3> QED BY <3>1, Zenon DEF TunnelState
    <2>4. tun' \in [Tunnel -> TunnelState]
      BY <2>2, <2>3, CalmFacts, Zenon DEF ClientInv
    <2> QED BY <2>4, CalmFacts, Zenon DEF StopOrdered, StopKeeps, Calm, ClientInv
  <1>3. PICK k : k = [task[p] EXCEPT !.pc = "ordered"]
    BY Zenon
  <1>4. Sane(task[p]) /\ Fits(task[p], rt, phase, desk, leases, excused)
    BY Zenon DEF ClientInv, TasksInv
  <1>5. Stops(k, task[p].op, "ordered", task[p].tun, task[p].after) /\ k.re = task[p].re
    BY <1>1, <1>3, <1>4, OrderedRecord, Zenon DEF ClientInv
  <1>6. Sane(k)
    BY <1>1, <1>4, <1>5, Zenon DEF Stops, Sane, InStop
  <1>7. Fits(k, rt, phase, desk, leases, excused)
    BY <1>1, <1>4, <1>5, Zenon DEF Stops, Fits, InStop, Silent, SilentStop
  <1>8. Goto(p, k) /\ UNCHANGED <<lock, rt, phase>>
    BY <1>3, Zenon DEF StopOrdered
  <1> QED BY <1>1, <1>2, <1>5, <1>6, <1>7, <1>8, StopFacts, SameRuntime, CalmGo, Zenon DEF Stops,
             Inside

(* A stop_tunnel that had a tunnel to stop returns. *)
LEMMA StoppedNowKeeps ==
  ASSUME ClientInv, NEW p \in Task, task[p].pc \in InStop, task[p].after = "stopped",
         Return(p), AtRest, stopped' = Quiet(p), UNCHANGED <<queue, rt, desk, leases, excused>>,
         tun' \in [Tunnel -> TunnelState], faults' \in 0..MaxFaults
  PROVE  ClientInv'
  <1>1. /\ lock = p /\ rt \in Runtime /\ RuntimeInv
        /\ \A l \in leases : l = rt.session \/ l \in excused \/ l = task[p].lease
    BY HolderFacts, StopFacts, Zenon
  <1>2. Turn(p, Idle)
    BY <1>1, StopFacts, IdleFits, Zenon DEF Turn, Return, Goto, Inside, InStop
  <1>3. phase' \in Phase /\ Settled(rt', phase')
    BY StopFacts, Zenon DEF AtRest, Phase, Settled
  <1>4. Leaves(p, Idle)
    BY <1>1, <1>3, IdleFits, Zenon DEF Leaves, RuntimeInv
  <1>5. LeavesLeases(Idle) /\ LeavesDesk(p, Idle)
    <2>1. \A l \in leases : l # None /\ task[p].lease = None
      BY StopFacts, ClientAssumption, Zenon DEF ClientInv, TypeOK
    <2> QED BY <1>1, <2>1, Zenon DEF LeavesLeases, LeavesDesk, ClientInv, TypeOK
  <1>6. LeavesStopped(p, Idle)
    <2>1. Quiet(p) \in BOOLEAN
      BY Zenon DEF Quiet
    <2> QED BY <2>1, StopFacts, IdleFits, Zenon DEF LeavesStopped, InStop
  <1> QED BY <1>2, <1>4, <1>5, <1>6, TurnKeeps, Zenon DEF GoodTurn

(* The stop succeeded. *)
LEMMA AfterStopKeeps ==
  ASSUME ClientInv, NEW p \in Task, task[p].pc \in InStop, StopKeeps, AfterStop(p),
         tun' \in [Tunnel -> TunnelState], faults' \in 0..MaxFaults
  PROVE  ClientInv'
  <1>1. UNCHANGED <<desk, stopped>> => Calm
    BY Zenon DEF StopKeeps, Calm
  <1>2. CASE task[p].after = "attempt"
    <2>1. Ranked(p) /\ UNCHANGED <<desk, stopped>>
      BY <1>2, Zenon DEF AfterStop
    <2> QED BY <1>1, <2>1, StopFacts, RankedKeeps, Zenon
  <1>3. CASE task[p].after = "cancelled"
    <2>1. FinishCancelled(p) /\ UNCHANGED <<desk, stopped>>
      BY <1>3, Zenon DEF AfterStop
    <2> QED BY <1>1, <2>1, StopFacts, FinishCancelledKeeps, Zenon
  <1>4. CASE task[p].after = "ended"
    <2>1. EndSession(p) /\ UNCHANGED <<desk, stopped>>
      BY <1>4, Zenon DEF AfterStop
    <2>2. Follows(rt') /\ Settled(rt', phase') /\ phase' \in Phase
      BY <1>4, <2>1, StopFacts, EmptyRuntime, Zenon DEF EndSession, Follows, Settled, Phase
    <2> QED BY <1>1, <2>1, <2>2, StopFacts, CalmReturn, Zenon DEF EndSession
  <1>5. CASE task[p].after = "reconnect"
    <2>1. Goto(p, Begin(p, TRUE)) /\ UNCHANGED <<lock, rt, phase, desk, stopped>>
      BY <1>5, Zenon DEF AfterStop
    <2>2. PICK k : k = Begin(p, TRUE)
      BY Zenon
    <2>3. /\ k \in TaskState /\ k.pc = "begin" /\ k.op = task[p].op /\ k.lease = None /\ Sane(k)
          /\ Fits(k, rt, phase, desk, leases, excused)
      BY <2>2, StopFacts, BeginFits, Zenon
    <2> QED BY <1>1, <2>1, <2>2, <2>3, StopFacts, SameRuntime, CalmGo, Zenon DEF Inside
  <1>6. CASE task[p].after = "unrequested"
    <2>1. AtRest /\ Goto(p, Ask(p, "maintain", Due)) /\ UNCHANGED <<lock, rt, desk, stopped>>
      <3>1. rt.session # None
        BY StopFacts, Zenon
      <3> QED BY <1>6, <3>1, Zenon DEF AfterStop
    <2>2. PICK k : k = Ask(p, "maintain", Due)
      BY Zenon
    <2>3. phase' \in Phase /\ Settled(rt, phase')
      BY <2>1, StopFacts, Zenon DEF AtRest, Phase, Settled
    <2>4. Due \in BOOLEAN /\ "maintain" \in After /\ "maintain" # "connect"
      BY Names, Zenon DEF Due
    <2>5. PICK due \in BOOLEAN : k = Ask(p, "maintain", due)
      BY <2>2, <2>4, Zenon
    <2>6. /\ k \in TaskState /\ k.pc = "calling" /\ k.op = task[p].op /\ k.lease = None /\ Sane(k)
          /\ Fits(k, rt, phase', desk, leases, excused)
      <3>1. rt.session # None /\ ClientInv
        BY StopFacts, Zenon
      <3>2. desk.configured => Settled(rt, phase')
        BY <2>3, Zenon
      <3>3. /\ Ask(p, "maintain", due) \in TaskState /\ Ask(p, "maintain", due).pc = "calling"
            /\ Ask(p, "maintain", due).op = task[p].op
            /\ Ask(p, "maintain", due).lease = None /\ Sane(Ask(p, "maintain", due))
            /\ Fits(Ask(p, "maintain", due), rt, phase', desk, leases, excused)
        BY <2>4, <3>1, <3>2, AskFits, SMT
      <3> QED BY <2>5, <3>3, Zenon
    <2> QED BY <1>1, <2>1, <2>2, <2>3, <2>6, StopFacts, SameRuntime, CalmGo, Zenon DEF Inside
  <1>7. CASE task[p].after = "release"
    <2>1. Goto(p, At(p, "releasing")) /\ UNCHANGED <<lock, rt, phase, desk, stopped>>
      <3>1. rt.session # None
        BY StopFacts, Zenon
      <3> QED BY <1>7, <3>1, Zenon DEF AfterStop
    <2>2. PICK k : k = At(p, "releasing")
      BY Zenon
    <2>3. Plain(k, task[p].op, "releasing")
      BY <2>2, AtRecord, Names, Zenon DEF ClientInv
    <2>4. Sane(k) /\ Fits(k, rt, phase, desk, leases, excused)
      BY <1>7, <2>3, StopFacts, Zenon DEF Plain, Sane, Fits, InStop, Silent, SilentStop
    <2> QED BY <1>1, <2>1, <2>2, <2>3, <2>4, StopFacts, SameRuntime, CalmGo, Zenon DEF Inside,
               Plain
  <1>8. CASE task[p].after = "stopped"
    <2>1. Return(p) /\ AtRest /\ stopped' = Quiet(p) /\ UNCHANGED <<rt, desk>>
      BY <1>8, Zenon DEF AfterStop
    <2> QED BY <1>8, <2>1, StoppedNowKeeps, Zenon DEF StopKeeps
  <1> QED BY <1>2, <1>3, <1>4, <1>5, <1>6, <1>7, <1>8, StopFacts, Zenon DEF Stopping

(* A command that exits, or is done, and leaves the desktop without a      *)
(* session.                                                                 *)
LEMMA KeptKeeps ==
  ASSUME ClientInv, NEW p \in Task, task[p].pc \in Inside \ {"undoing"}, task[p].op \in Lifecycle, Kept(p),
         UNCHANGED <<queue, excused, stopped>>, tun' \in [Tunnel -> TunnelState], faults' \in 0..MaxFaults,
         Like(rt', rt, rt.session, rt'.tunnel), rt.session # None, phase' = "error",
         leases' \subseteq leases, stopped => rt'.tunnel = None
  PROVE  ClientInv'
  <1>1. /\ lock = p /\ Sane(task[p])
        /\ \A l \in leases : l = rt.session \/ l \in excused \/ l = task[p].lease
    BY HolderFacts, Zenon
  <1>2. ~desk.configured
    BY LifecycleFacts, Zenon
  <1>3. /\ rt' \in Runtime /\ phase' \in Phase /\ RuntimeInv' /\ Settled(rt', phase')
        /\ rt'.session = rt.session
    BY Zenon DEF Like, Phase, RuntimeInv, Settled
  <1>4. leases' \subseteq Lease /\ excused' \subseteq Lease /\ stopped' \in BOOLEAN
    BY Zenon DEF ClientInv, TypeOK
  <1>5. \A l \in leases' : l = rt'.session \/ l \in excused'
    <2>1. \A l \in leases : l # None /\ task[p].lease = None
      BY <1>1, ClientAssumption, Zenon DEF Sane, ClientInv, TypeOK
    <2> QED BY <1>1, <1>3, <2>1, Zenon
  <1>6. stopped => rt'.tunnel = None /\ ~rt'.requested
    BY StoppedFacts, Zenon DEF Like
  <1>7. CASE task[p].op = "exit"
    <2>1. PICK k : k = [Idle EXCEPT !.pc = "exiting"]
      BY Zenon
    <2>2. Goto(p, k) /\ UNCHANGED desk /\ lock' = None
      BY <1>7, <2>1, Zenon DEF Kept
    <2>3. /\ k \in TaskState /\ k.pc = "exiting" /\ k.op = "none" /\ k.lease = None /\ Sane(k)
          /\ \A r, ph, d, ls, ex : Fits(k, r, ph, d, ls, ex)
      BY <2>1, DoneFits, Zenon
    <2>4. Turn(p, k)
      BY <1>1, <2>2, <2>3, Zenon DEF Turn, Goto, Inside
    <2>5. Leaves(p, k)
      BY <1>2, <1>3, <2>2, <2>3, Zenon DEF Leaves
    <2>6. LeavesLeases(k) /\ LeavesDesk(p, k)
      BY <1>4, <1>5, <2>2, Zenon DEF LeavesLeases, LeavesDesk
    <2>7. LeavesStopped(p, k)
      BY <1>4, <1>6, <2>3, Zenon DEF LeavesStopped, InStop
    <2> QED BY <2>4, <2>5, <2>6, <2>7, TurnKeeps, Zenon DEF GoodTurn
  <1>8. CASE task[p].op # "exit"
    <2>1. Configured(p) /\ lock' = None
      BY <1>8, Zenon DEF Kept
    <2> QED BY <1>3, <1>4, <1>5, <1>6, <2>1, ConfiguredKeeps, Zenon
  <1> QED BY <1>7, <1>8, Zenon

(* The stop failed: the tunnel goes back. *)
LEMMA RetainKeeps ==
  ASSUME ClientInv, NEW p \in Task, task[p].pc \in InStop, StopKeeps, Retain(p),
         tun' \in [Tunnel -> TunnelState], faults' \in 0..MaxFaults
  PROVE  ClientInv'
  <1>1. PICK r : r = [rt EXCEPT !.tunnel = IF @ = None THEN task[p].tun ELSE @]
    BY Zenon
  <1>2. PICK t \in Tunnel : t = task[p].tun
    BY StopFacts, Zenon
  <1>3. t # None /\ rt \in Runtime /\ phase \in Phase
    BY ClientAssumption, SameRuntime, Zenon
  <1>4. Like(r, rt, rt.session, t)
    <2>1. r = [rt EXCEPT !.tunnel = t]
      BY <1>1, <1>2, StopFacts, Zenon
    <2> QED BY <1>3, <2>1, RuntimeTunnel, Zenon
  <1>5. r \in Runtime /\ r.session = rt.session /\ r.tunnel # None /\ (r.requested => rt.requested) /\ Follows(r)
    BY <1>3, <1>4, StopFacts, Zenon DEF Like, Follows
  <1>6. UNCHANGED stopped
    BY Zenon DEF Retain
  <1>7. UNCHANGED desk => Calm
    BY <1>6, Zenon DEF StopKeeps, Calm
  <1>8. CASE task[p].after = "attempt"
    <2>1. GivesUp(p, r, phase) /\ UNCHANGED desk
      BY <1>1, <1>8, Zenon DEF Retain
    <2>2. ~task[p].re /\ desk.configured => Settled(r, phase)
      BY <1>5, <1>8, StopFacts, Zenon DEF SilentStop, Settled
    <2> QED BY <1>3, <1>5, <1>7, <2>1, <2>2, StopFacts, GivesUpKeeps, Zenon
  <1>9. CASE task[p].after = "cancelled"
    <2>1. GivesUp(p, r, "error") /\ UNCHANGED desk
      BY <1>1, <1>9, Zenon DEF Retain
    <2>2. Settled(r, "error") /\ "error" \in Phase
      BY Zenon DEF Settled, Phase
    <2> QED BY <1>5, <1>7, <2>1, <2>2, StopFacts, GivesUpKeeps, Zenon
  <1>10. CASE task[p].after = "release"
    <2>1. Kept(p) /\ rt' = r /\ phase' = "error"
      BY <1>1, <1>10, Zenon DEF Retain
    <2>2. Like(rt', rt, rt.session, rt'.tunnel)
      BY <1>4, <2>1, Zenon DEF Like
    <2> QED BY <1>6, <1>10, <2>1, <2>2, StopFacts, KeptKeeps, Zenon DEF StopKeeps
  <1>11. CASE task[p].after \in {"ended", "stopped"}
    <2>1. Return(p) /\ rt' = r /\ phase' = "error" /\ UNCHANGED desk
      BY <1>1, <1>11, Zenon DEF Retain
    <2>2. Settled(rt', phase') /\ phase' \in Phase
      BY <2>1, Zenon DEF Settled, Phase
    <2> QED BY <1>5, <1>7, <2>1, <2>2, StopFacts, CalmReturn, Zenon
  <1>12. CASE task[p].after \in {"reconnect", "unrequested"}
    <2>1. Return(p) /\ rt' = r /\ UNCHANGED <<phase, desk>>
      BY <1>1, <1>12, Zenon DEF Retain
    <2>2. desk.configured => Settled(rt', phase')
      BY <1>5, <1>12, <2>1, StopFacts, Zenon DEF SilentStop, Settled
    <2> QED BY <1>3, <1>5, <1>7, <2>1, <2>2, StopFacts, CalmReturn, Zenon
  <1> QED BY <1>8, <1>9, <1>10, <1>11, <1>12, StopFacts, Zenon DEF Stopping

\* A stop that the broker carries out.
LEMMA StopRemoteKeeps ==
  ASSUME ClientInv, NEW p \in Task, StopRemote(p)
  PROVE  ClientInv'
  <1>1. task[p].pc \in InStop /\ StopKeeps
    BY Zenon DEF StopRemote, InStop
  <1>2. PICK t \in Tunnel : t = task[p].tun
    BY <1>1, StopFacts, Zenon
  <1>3. tun[t] \in TunnelState /\ Let(t) \in TunnelState
    BY TunnelRecords, Zenon DEF ClientInv, TypeOK, Let
  <1>4. \/ RemoteStops(t, Let(t)) /\ AfterStop(p)
        \/ RemoteFails(t, tun[t]) /\ Retain(p)
    BY <1>2, Zenon DEF StopRemote
  <1>5. tun' \in [Tunnel -> TunnelState] /\ faults' \in 0..MaxFaults
    BY <1>3, <1>4, RemoteFacts, Zenon DEF ClientInv
  <1> QED BY <1>1, <1>4, <1>5, AfterStopKeeps, RetainKeeps, Zenon

\* A stop that has its answer, or none in time.
LEMMA StopAnsweredKeeps ==
  ASSUME ClientInv, NEW p \in Task, StopAnswered(p)
  PROVE  ClientInv'
  <1>1. task[p].pc \in InStop /\ StopKeeps /\ UNCHANGED faults
    BY Zenon DEF StopAnswered, InStop
  <1>2. PICK t \in Tunnel : t = task[p].tun
    BY <1>1, StopFacts, Zenon
  <1>3. Let(t) \in TunnelState
    BY TunnelRecords, Zenon DEF ClientInv, TypeOK, Let
  <1>4. \/ AfterStop(p) /\ tun' = [tun EXCEPT ![t] = Let(t)]
        \/ Retain(p) /\ UNCHANGED tun
    BY <1>2, Zenon DEF StopAnswered
  <1>5. tun' \in [Tunnel -> TunnelState] /\ faults' \in 0..MaxFaults
    BY <1>1, <1>3, <1>4, CalmFacts, Zenon DEF ClientInv
  <1> QED BY <1>1, <1>4, <1>5, AfterStopKeeps, RetainKeeps, Zenon

-----------------------------------------------------------------------------
(* The head of the queue gets the mutex. *)

\* What the invariant says of a task that gets the mutex.
LEMMA GrantFacts ==
  ASSUME ClientInv, NEW p \in Task, NEW o, Granted(p, o)
  PROVE  /\ lock = None /\ task[p].pc = "waiting" /\ task[p].op = o /\ task[p].lease = None
         /\ rt \in Runtime /\ phase \in Phase /\ RuntimeInv /\ Follows(rt)
         /\ \A l \in leases : l = rt.session \/ l \in excused
         /\ desk.configured => Settled(rt, phase)
         /\ queue # <<>> /\ Head(queue) = p /\ queue' = Tail(queue)
  <1>1. /\ lock = None /\ task[p].op = o /\ RuntimeInv
        /\ queue # <<>> /\ Head(queue) = p /\ queue' = Tail(queue)
    BY Zenon DEF Granted, ClientInv
  <1>2. task[p].pc = "waiting"
    <2>1. queue \in Seq(Task)
      BY Zenon DEF ClientInv, TypeOK
    <2>2. 1 \in DOMAIN queue /\ queue[1] = p
      BY <1>1, <2>1
    <2> QED BY <2>2, Zenon DEF ClientInv, QueueInv
  <1>3. \A q \in Task : task[q].lease = None
    <2> SUFFICES ASSUME NEW q \in Task, task[q].lease # None PROVE FALSE
      BY Zenon
    <2>1. task[q].pc = "undoing"
      BY Zenon DEF ClientInv, TasksInv, Sane
    <2>2. lock = q
      BY <2>1, Zenon DEF ClientInv, TypeOK
    <2> QED BY <1>1, <2>2, ClientAssumption, Zenon
  <1>4. \A l \in leases : l = rt.session \/ l \in excused
    BY <1>3, ClientAssumption DEF ClientInv, LeaseIsHeld, TypeOK
  <1>5. desk.configured => Settled(rt, phase)
    BY <1>1, Zenon DEF ClientInv, SnapshotIsTrue, Settled
  <1> QED BY <1>1, <1>2, <1>3, <1>4, <1>5, SameRuntime, Zenon

\* A task that gets the mutex and goes on with a state that fits.
LEMMA GrantGo ==
  ASSUME ClientInv, NEW p \in Task, NEW o, Granted(p, o), NEW k \in TaskState, Goto(p, k),
         lock' = IF k.pc \in Inside THEN p ELSE None,
         Sane(k), k.op \in {task[p].op, "none"}, k.pc # "off", k.pc # "waiting", k.lease = None,
         UNCHANGED <<tun, leases, excused, faults>>,
         rt' \in Runtime, rt'.session = rt.session, RuntimeInv', phase' \in Phase,
         Fits(k, rt', phase', desk', leases, excused),
         k.pc \notin Inside /\ desk'.configured => Settled(rt', phase'),
         LeavesDesk(p, k), LeavesStopped(p, k)
  PROVE  ClientInv'
  <1>1. Turn(p, k)
    BY GrantFacts, Zenon DEF Turn, Goto, ClientInv, TypeOK
  <1>2. Leaves(p, k)
    BY Zenon DEF Leaves
  <1>3. LeavesLeases(k)
    BY GrantFacts, Zenon DEF LeavesLeases, ClientInv, TypeOK
  <1> QED BY <1>1, <1>2, <1>3, TurnKeeps, Zenon DEF GoodTurn

(* It finds nothing to do. *)
LEMMA GrantReturn ==
  ASSUME ClientInv, NEW p \in Task, NEW o, Granted(p, o), Goto(p, Idle), lock' = None,
         UNCHANGED <<tun, leases, excused, faults, rt, phase, desk, stopped>>
  PROVE  ClientInv'
  <1>1. LeavesDesk(p, Idle)
    BY Zenon DEF LeavesDesk
  <1>2. LeavesStopped(p, Idle)
    BY StoppedFacts, IdleFits, Zenon DEF LeavesStopped, InStop, ClientInv, TypeOK
  <1>3. RuntimeInv'
    BY GrantFacts, Zenon DEF RuntimeInv
  <1> QED BY <1>1, <1>2, <1>3, GrantFacts, IdleFits, GrantGo, Zenon DEF Inside

(* It goes to work, and shows nothing yet. *)
LEMMA GrantWork ==
  ASSUME ClientInv, NEW p \in Task, NEW o, Granted(p, o), NEW k \in TaskState, Goto(p, k), lock' = p,
         k.pc \in Inside, Sane(k), k.op = task[p].op, k.lease = None,
         UNCHANGED <<tun, leases, excused, faults, phase, desk, stopped>>,
         rt' \in Runtime, rt'.session = rt.session, rt.session # None,
         Fits(k, rt', phase, desk, leases, excused),
         stopped => /\ rt'.tunnel = None /\ ~rt'.requested
                    /\ k.pc \notin {"begin", "probing", "connecting", "checking", "stopping", "ordered"}
  PROVE  ClientInv'
  <1>1. LeavesDesk(p, k)
    BY Zenon DEF LeavesDesk
  <1>2. LeavesStopped(p, k)
    BY StoppedFacts, Zenon DEF LeavesStopped, InStop, ClientInv, TypeOK
  <1>3. RuntimeInv'
    BY Zenon DEF RuntimeInv
  <1>4. k.pc # "off" /\ k.pc # "waiting"
    BY Zenon DEF Inside
  <1> QED BY <1>1, <1>2, <1>3, <1>4, GrantFacts, GrantGo, Zenon

\* connect gets the mutex.
LEMMA StartConnectKeeps ==
  ASSUME ClientInv, NEW p \in Task, StartConnect(p)
  PROVE  ClientInv'
  <1>1. Granted(p, "connect") /\ UNCHANGED <<phase, desk, tun, leases, excused, stopped, faults>>
    BY Zenon DEF StartConnect
  <1>2. CASE rt.session = None
    BY <1>1, <1>2, GrantFacts, GrantReturn, Zenon DEF StartConnect
  <1>3. CASE rt.session # None
    <2>1. lock' = p /\ rt' = [rt EXCEPT !.requested = TRUE] /\ Goto(p, RenewFirst(p))
      BY <1>3, Zenon DEF StartConnect
    <2>2. rt \in Runtime /\ task[p].op = "connect" /\ ~stopped
      BY <1>1, GrantFacts, StoppedFacts, Zenon
    <2>3. rt' \in Runtime /\ rt'.session = rt.session /\ rt'.tunnel = rt.tunnel
      BY <2>1, <2>2, RuntimeRequests, Zenon
    <2>4. desk.configured => Settled(rt', phase)
      BY <1>1, <2>3, GrantFacts, Zenon DEF Settled
    <2>5. CASE Due
      <3>0. PICK b \in BOOLEAN : b = TRUE
        BY Zenon
      <3>1. PICK k : k = Ask(p, "connect", b)
        BY Zenon
      <3>2. /\ k \in TaskState /\ k.pc = "calling" /\ k.op = task[p].op /\ k.lease = None /\ Sane(k)
            /\ Fits(k, rt', phase, desk, leases, excused)
        BY <1>3, <2>2, <2>3, <2>4, <3>1, AskFits, Names
      <3>3. Goto(p, k)
        BY <2>1, <2>5, <3>0, <3>1, Zenon DEF RenewFirst
      <3> QED BY <1>1, <1>3, <2>1, <2>2, <2>3, <3>2, <3>3, GrantWork, ZenonT(30) DEF Inside
    <2>6. CASE ~Due
      <3>1. PICK k : k = Begin(p, FALSE)
        BY Zenon
      <3>2. /\ k \in TaskState /\ k.pc = "begin" /\ k.op = task[p].op /\ k.lease = None /\ Sane(k)
            /\ Fits(k, rt', phase, desk, leases, excused)
        BY <1>3, <2>2, <2>3, <2>4, <3>1, BeginFits, Zenon
      <3>3. Goto(p, k)
        BY <2>1, <2>6, <3>1, Zenon DEF RenewFirst
      <3> QED BY <1>1, <1>3, <2>1, <2>2, <2>3, <3>2, <3>3, GrantWork, Zenon DEF Inside
    <2> QED BY <2>5, <2>6, Zenon
  <1> QED BY <1>2, <1>3, Zenon

(* A refresh, or what maintenance makes of one. *)
LEMMA GrantAsk ==
  ASSUME ClientInv, NEW p \in Task, NEW o, Granted(p, o), NEW a \in {"refresh", "maintain"}, NEW b \in BOOLEAN,
         Goto(p, IF rt.session = None THEN Idle ELSE Ask(p, a, b)),
         lock' = IF rt.session = None THEN None ELSE p,
         UNCHANGED <<rt, phase, desk, tun, leases, excused, stopped, faults>>
  PROVE  ClientInv'
  <1>1. CASE rt.session = None
    BY <1>1, GrantReturn, Zenon
  <1>2. CASE rt.session # None
    <2>1. PICK k : k = Ask(p, a, b)
      BY Zenon
    <2>2. a \in After /\ a # "connect" /\ (desk.configured => Settled(rt, phase))
      BY GrantFacts, Names, Zenon
    <2>3. /\ k \in TaskState /\ k.pc = "calling" /\ k.op = task[p].op /\ k.lease = None /\ Sane(k)
          /\ Fits(k, rt, phase, desk, leases, excused)
      BY <1>2, <2>1, <2>2, AskFits
    <2>4. Goto(p, k) /\ lock' = p
      BY <1>2, <2>1, Zenon
    <2> QED BY <1>2, <2>3, <2>4, GrantFacts, StoppedFacts, GrantWork, Zenon DEF Inside
  <1> QED BY <1>1, <1>2, Zenon

\* A refresh gets the mutex.
LEMMA StartRefreshKeeps ==
  ASSUME ClientInv, NEW p \in Task, StartRefresh(p)
  PROVE  ClientInv'
  <1>1. TRUE \in BOOLEAN /\ FALSE \in BOOLEAN
    BY Zenon
  <1> QED BY <1>1, GrantAsk, Zenon DEF StartRefresh


\* Maintenance gets the mutex.
LEMMA StartMaintainKeeps ==
  ASSUME ClientInv, NEW p \in Task, StartMaintain(p)
  PROVE  ClientInv'
  <1>1. Granted(p, "maintain") /\ UNCHANGED <<phase, desk, tun, leases, excused, stopped, faults>>
    BY Zenon DEF StartMaintain
  <1>2. rt \in Runtime /\ RuntimeInv /\ (desk.configured => Settled(rt, phase))
    BY <1>1, GrantFacts, Zenon
  <1>3. CASE /\ Lost /\ lock' = p
             /\ Goto(p, StopOf(p, rt.tunnel, IF rt.requested THEN "reconnect" ELSE "unrequested"))
             /\ rt' = [rt EXCEPT !.tunnel = None]
    <2>1. PICK a \in {"reconnect", "unrequested"} : a = IF rt.requested THEN "reconnect" ELSE "unrequested"
      BY Zenon
    <2>2. PICK t \in Tunnel : t = rt.tunnel /\ t # None
      BY <1>2, <1>3, Zenon DEF Lost, Runtime
    <2>3. Like(rt', rt, rt.session, None) /\ rt.session # None /\ ~stopped
      BY <1>2, <1>3, <2>2, RuntimeTunnel, StoppedFacts, Zenon DEF RuntimeInv
    <2>4. desk.configured => phase \in {"connected", "error"}
      BY <1>2, <2>2, Zenon DEF Settled
    <2>5. PICK k : k = StopOf(p, t, a)
      BY Zenon
    <2>6. /\ k \in TaskState /\ k.pc = "stopping" /\ k.op = task[p].op /\ k.lease = None
          /\ Sane(k) /\ Fits(k, rt', phase, desk, leases, excused)
      <3>1. a \in Stopping /\ a # "release" /\ a # "ended" /\ a # "stopped"
        BY Zenon DEF Stopping
      <3> QED BY <2>3, <2>4, <2>5, <3>1, StopFits DEF Like
    <2>7. Goto(p, k)
      BY <1>3, <2>1, <2>2, <2>5, Zenon
    <2> QED BY <1>1, <1>3, <2>3, <2>6, <2>7, GrantWork, Zenon DEF Inside, Like
  <1>4. CASE /\ rt.tunnel = None /\ rt.requested
             /\ lock' = p /\ Goto(p, Begin(p, TRUE)) /\ UNCHANGED rt
    <2>1. PICK k : k = Begin(p, TRUE)
      BY Zenon
    <2>2. rt.session # None /\ ~stopped
      BY <1>2, <1>4, StoppedFacts, Zenon DEF RuntimeInv
    <2>3. /\ k \in TaskState /\ k.pc = "begin" /\ k.op = task[p].op /\ k.lease = None /\ Sane(k)
          /\ Fits(k, rt, phase, desk, leases, excused)
      BY <2>1, <2>2, BeginFits, Zenon
    <2> QED BY <1>1, <1>2, <1>4, <2>1, <2>2, <2>3, GrantWork, Zenon DEF Inside
  <1>5. CASE /\ Goto(p, IF rt.session = None THEN Idle ELSE Ask(p, "maintain", Due))
             /\ lock' = IF rt.session = None THEN None ELSE p
             /\ UNCHANGED rt
    <2>1. Due \in BOOLEAN
      BY Zenon DEF Due
    <2> QED BY <1>1, <1>5, <2>1, GrantAsk, Zenon
  <1> QED BY <1>3, <1>4, <1>5, Zenon DEF StartMaintain

\* A check after a network change gets the mutex.
LEMMA StartVerifyKeeps ==
  ASSUME ClientInv, NEW p \in Task, StartVerify(p)
  PROVE  ClientInv'
  <1>1. Granted(p, "verify") /\ UNCHANGED <<rt, phase, desk, tun, leases, excused, stopped, faults>>
    BY Zenon DEF StartVerify
  <1>2. rt \in Runtime /\ RuntimeInv /\ (desk.configured => Settled(rt, phase)) /\ lock = None
    BY <1>1, GrantFacts, Zenon
  <1>3. CASE Goto(p, Idle) /\ UNCHANGED lock
    BY <1>1, <1>2, <1>3, GrantReturn, Zenon
  <1>4. CASE /\ rt.requested /\ rt.tunnel # None
             /\ lock' = p /\ Goto(p, [At(p, "checking") EXCEPT !.after = "verify"])
    <2>1. PICK k : k = [At(p, "checking") EXCEPT !.after = "verify"]
      BY Zenon
    <2>2. rt.session # None /\ ~stopped
      BY <1>2, <1>4, StoppedFacts, Zenon DEF RuntimeInv
    <2>3. /\ k \in TaskState /\ k.pc = "checking" /\ k.op = task[p].op /\ k.lease = None
          /\ Sane(k) /\ Fits(k, rt, phase, desk, leases, excused)
      BY <1>2, <1>4, <2>1, <2>2, CheckFits, Names, ZenonT(30)
    <2> QED BY <1>1, <1>2, <1>4, <2>1, <2>2, <2>3, GrantWork, Zenon DEF Inside
  <1> QED BY <1>3, <1>4, Zenon DEF StartVerify

\* stop gets the mutex.
LEMMA StartStopKeeps ==
  ASSUME ClientInv, NEW p \in Task, StartStop(p)
  PROVE  ClientInv'
  <1>1. /\ Granted(p, "stop") /\ UNCHANGED <<desk, tun, leases, excused, faults>>
        /\ rt' = [rt EXCEPT !.requested = FALSE, !.failures = 0, !.tunnel = None]
    BY Zenon DEF StartStop
  <1>2. rt \in Runtime /\ RuntimeInv /\ lock = None /\ task[p].op = "stop"
    BY <1>1, GrantFacts, Zenon
  <1>3. Like(rt', rt, rt.session, None) /\ ~rt'.requested
    BY <1>1, <1>2, RuntimeStops, Zenon
  <1>4. rt' \in Runtime /\ rt'.session = rt.session /\ rt'.tunnel = None /\ RuntimeInv'
    BY <1>3, Zenon DEF Like, RuntimeInv
  <1>5. CASE rt.tunnel = None
    <2>1. Goto(p, Idle) /\ AtRest /\ stopped' = Quiet(p) /\ UNCHANGED lock
      BY <1>5, Zenon DEF StartStop
    <2>2. phase' \in Phase /\ Settled(rt', phase')
      BY <1>4, <2>1, Zenon DEF AtRest, Phase, Settled
    <2>3. LeavesDesk(p, Idle)
      BY <1>1, Zenon DEF LeavesDesk
    <2>4. LeavesStopped(p, Idle)
      <3>1. Quiet(p) \in BOOLEAN
        BY Zenon DEF Quiet
      <3> QED BY <1>3, <1>4, <2>1, <3>1, IdleFits, Zenon DEF LeavesStopped, InStop
    <2> QED BY <1>1, <1>2, <1>4, <2>1, <2>2, <2>3, <2>4, IdleFits, GrantGo, Zenon DEF Inside
  <1>6. CASE rt.tunnel # None
    <2>1. PICK t \in Tunnel : t = rt.tunnel
      BY <1>2, <1>6, Zenon DEF Runtime
    <2>2. PICK k : k = StopOf(p, t, "stopped")
      BY Zenon
    <2>3. lock' = p /\ Goto(p, k) /\ phase' = "disconnecting" /\ UNCHANGED stopped
      BY <1>6, <2>1, <2>2, Zenon DEF StartStop
    <2>4. rt'.session # None /\ ~stopped /\ stopped' = FALSE
      BY <1>2, <1>4, <1>6, <2>3, StoppedFacts, ZenonT(30) DEF RuntimeInv, ClientInv, TypeOK
    <2>5. /\ k \in TaskState /\ k.pc = "stopping" /\ k.op = task[p].op /\ k.lease = None
          /\ Sane(k) /\ Fits(k, rt', phase', desk, leases, excused)
      BY <1>3, <1>4, <2>2, <2>4, StopFits DEF Stopping
    <2>6. LeavesDesk(p, k) /\ LeavesStopped(p, k)
      BY <1>1, <2>3, <2>4, Zenon DEF LeavesDesk, LeavesStopped
    <2>7. phase' \in Phase
      BY <2>3, Zenon DEF Phase
    <2> QED BY <1>1, <1>4, <2>3, <2>5, <2>6, <2>7, GrantGo, Zenon DEF Inside
  <1> QED BY <1>5, <1>6, Zenon


-----------------------------------------------------------------------------
(* disconnect, and the end of a session. *)

(* retire_current_session once the session is gone. *)
LEMMA DroppedTurn ==
  ASSUME ClientInv, NEW p \in Task, task[p].op \in Lifecycle, lock \in {None, p}, Dropped(p),
         task[p].pc \in Inside \cup {"waiting", "new"},
         \/ queue' = queue /\ task[p].pc # "waiting"
         \/ queue # <<>> /\ Head(queue) = p /\ queue' = Tail(queue),
         tun' \in [Tunnel -> TunnelState], faults' \in 0..MaxFaults,
         rt' \in Runtime, rt'.session = None, rt'.tunnel = None, ~rt'.requested, phase' = "disconnected",
         leases' \subseteq Lease, excused' \subseteq Lease, \A l \in leases' : l \in excused',
         stopped' = Quiet(p)
  PROVE  ClientInv'
  <1>1. ~desk.configured /\ lock' = None
    BY LifecycleFacts, Zenon DEF Dropped
  <1>2. phase' \in Phase /\ RuntimeInv' /\ Settled(rt', phase') /\ Quiet(p) \in BOOLEAN
    BY Zenon DEF Phase, RuntimeInv, Settled, Quiet
  <1>3. ASSUME NEW k \in TaskState, Goto(p, k), k.pc \in {"exiting", "idle", "new"}, k.op \in {task[p].op, "none"},
               k.lease = None, Sane(k), Fits(k, rt', phase', desk', leases', excused'), LeavesDesk(p, k)
        PROVE  ClientInv'
    <2>1. Turn(p, k)
      BY <1>1, <1>3, Zenon DEF Turn, Goto, Inside
    <2>2. Leaves(p, k)
      BY <1>2, <1>3, Zenon DEF Leaves
    <2>3. LeavesLeases(k)
      BY Zenon DEF LeavesLeases
    <2>4. LeavesStopped(p, k)
      BY <1>2, <1>3, "connect" \notin Lifecycle, Zenon DEF LeavesStopped, InStop, Lifecycle
    <2> QED BY <1>3, <2>1, <2>2, <2>3, <2>4, TurnKeeps, Zenon DEF GoodTurn
  <1>4. CASE task[p].op = "enroll"
    <2>1. PICK k : k = [Idle EXCEPT !.op = "enroll", !.pc = "new"]
      BY Zenon
    <2>2. Goto(p, k) /\ UNCHANGED desk
      BY <1>4, <2>1, Zenon DEF Dropped
    <2>3. /\ k \in TaskState /\ k.pc = "new" /\ k.op = "enroll" /\ k.lease = None /\ Sane(k)
          /\ \A r, ph, d, ls, ex : r.session = None => Fits(k, r, ph, d, ls, ex)
      BY <2>1, DoneFits, Zenon
    <2>4. LeavesDesk(p, k)
      BY <2>2, Zenon DEF LeavesDesk
    <2> QED BY <1>3, <1>4, <2>2, <2>3, <2>4, Zenon
  <1>5. CASE task[p].op # "enroll"
    <2>1. PICK c \in {"exiting", "idle"} : c = IF task[p].op = "exit" THEN "exiting" ELSE "idle"
      BY Zenon
    <2>2. PICK k : k = [Idle EXCEPT !.pc = c]
      BY Zenon
    <2>3. Goto(p, k) /\ desk' = NoDesk
      BY <1>5, <2>1, <2>2, Zenon DEF Dropped
    <2>4. /\ k \in TaskState /\ k.pc = c /\ k.op = "none" /\ k.lease = None /\ Sane(k)
          /\ \A r, ph, d, ls, ex : Fits(k, r, ph, d, ls, ex)
      BY <2>2, DoneFits, Zenon
    <2>5. LeavesDesk(p, k)
      BY <2>3, <2>4, Zenon DEF LeavesDesk
    <2> QED BY <1>3, <2>3, <2>4, <2>5, Zenon
  <1> QED BY <1>4, <1>5, Zenon

\* An enrolment, a forgetting or an exit gets the mutex.
LEMMA StartDisconnectKeeps ==
  ASSUME ClientInv, NEW p \in Task, StartDisconnect(p)
  PROVE  ClientInv'
  <1>1. PICK o \in Lifecycle : Granted(p, o)
    BY Zenon DEF StartDisconnect, Lifecycle
  <1>2. /\ rt' = [rt EXCEPT !.requested = FALSE, !.tunnel = None] /\ UNCHANGED <<tun, leases, excused, faults>>
    BY Zenon DEF StartDisconnect
  <1>3. /\ rt \in Runtime /\ RuntimeInv /\ lock = None /\ task[p].op \in Lifecycle /\ task[p].pc = "waiting"
        /\ \A l \in leases : l = rt.session \/ l \in excused
        /\ queue # <<>> /\ Head(queue) = p /\ queue' = Tail(queue)
    BY <1>1, GrantFacts, Zenon
  <1>4. Like(rt', rt, rt.session, None) /\ ~rt'.requested
    BY <1>2, <1>3, RuntimeStops, Zenon
  <1>5. rt' \in Runtime /\ rt'.session = rt.session /\ rt'.tunnel = None /\ RuntimeInv'
        /\ (rt.tunnel # None => rt.session # None) /\ stopped \in BOOLEAN
    BY <1>3, <1>4, Zenon DEF Like, RuntimeInv, ClientInv, TypeOK
  <1>6. ~desk.configured
    BY <1>3, LifecycleFacts, Zenon
  <1>7. CASE rt.tunnel # None
    <2>1. PICK t \in Tunnel : t = rt.tunnel
      BY <1>3, <1>7, Zenon DEF Runtime
    <2>2. PICK k : k = StopOf(p, t, "release")
      BY Zenon
    <2>3. lock' = p /\ Goto(p, StopOf(p, rt.tunnel, "release")) /\ phase' = "disconnecting" /\ UNCHANGED <<desk, stopped>>
      BY <1>7, Zenon DEF StartDisconnect
    <2>4. ~stopped
      BY <1>7, StoppedFacts, Zenon
    <2>5. /\ k \in TaskState /\ k.pc = "stopping" /\ k.op = task[p].op /\ k.lease = None
          /\ Sane(k) /\ Fits(k, rt', phase', desk, leases, excused)
      BY <1>3, <1>5, <1>6, <1>7, <2>2, StopFits DEF Stopping
    <2>6. LeavesDesk(p, k) /\ LeavesStopped(p, k) /\ phase' \in Phase
      BY <1>5, <2>3, <2>4, Zenon DEF LeavesDesk, LeavesStopped, Phase
    <2>7. Goto(p, k)
      BY <2>1, <2>2, <2>3, Zenon
    <2> QED BY <1>1, <1>2, <1>5, <2>3, <2>5, <2>6, <2>7, GrantGo, ZenonT(30) DEF Inside
  <1>8. CASE rt.tunnel = None /\ rt.session # None
    <2>1. PICK k : k = At(p, "releasing")
      BY Zenon
    <2>2. lock' = p /\ Goto(p, k) /\ phase' = "disconnecting" /\ UNCHANGED <<desk, stopped>>
      BY <1>8, <2>1, Zenon DEF StartDisconnect
    <2>3. Plain(k, task[p].op, "releasing")
      BY <2>1, AtRecord, Names, Zenon DEF ClientInv
    <2>4. Sane(k) /\ Fits(k, rt', phase', desk, leases, excused)
      BY <1>3, <1>5, <1>8, <2>3, Zenon DEF Plain, Sane, Fits, InStop, Silent, SilentStop
    <2>5. LeavesDesk(p, k) /\ phase' \in Phase
      BY <2>2, Zenon DEF LeavesDesk, Phase
    <2>6. LeavesStopped(p, k)
      BY <1>3, <1>4, <1>5, <2>2, <2>3, Zenon DEF LeavesStopped, InStop, Plain, Lifecycle
    <2> QED BY <1>1, <1>2, <1>5, <2>2, <2>3, <2>4, <2>5, <2>6, GrantGo, ZenonT(30) DEF Inside, Plain
  <1>9. CASE rt.tunnel = None /\ rt.session = None
    <2>1. Dropped(p) /\ phase' = "disconnected" /\ stopped' = Quiet(p)
      BY <1>9, Zenon DEF StartDisconnect
    <2>2. /\ tun' \in [Tunnel -> TunnelState] /\ faults' \in 0..MaxFaults
          /\ leases' \subseteq Lease /\ excused' \subseteq Lease
      BY <1>2, Zenon DEF ClientInv, TypeOK
    <2>3. \A l \in leases' : l \in excused'
      BY <1>2, <1>3, <1>9, RealLease, Zenon
    <2> QED BY <1>3, <1>4, <1>5, <1>9, <2>1, <2>2, <2>3, DroppedTurn, Zenon
  <1> QED BY <1>7, <1>8, <1>9, Zenon

\* What the invariant says of a task that releases or takes a lease.
LEMMA ReleaseFacts ==
  ASSUME ClientInv, NEW p \in Task, task[p].pc \in {"releasing", "creating", "undoing"}
  PROVE  /\ task[p].pc \in Inside /\ task[p].op \in Lifecycle /\ lock = p /\ task[p].tun = None
         /\ rt \in Runtime /\ phase \in Phase /\ Follows(rt) /\ ~desk.configured
         /\ \A l \in leases : l = rt.session \/ l \in excused \/ l = task[p].lease
         /\ task[p].pc # "undoing" => task[p].lease = None
         /\ task[p].pc = "releasing" <=> rt.session # None
  <1>1. task[p].pc \in Inside
    BY Zenon DEF Inside
  <1>2. task[p].op \in Lifecycle
    BY Zenon DEF ClientInv, TasksInv, Sane
  <1> QED BY <1>1, <1>2, HolderFacts, LifecycleFacts, SameRuntime, Zenon DEF Sane, Fits, InStop

\* A lease that was released.
LEMMA ReleasedKeeps ==
  ASSUME ClientInv, NEW p \in Task, Released(p)
  PROVE  ClientInv'
  <1>1. /\ task[p].pc = "releasing" /\ leases' = leases \ {rt.session} /\ rt' = NewRuntime
        /\ phase' = "disconnected" /\ Dropped(p) /\ stopped' = Quiet(p) /\ UNCHANGED <<queue, tun, excused, faults>>
    BY Zenon DEF Released
  <1>2. /\ tun' \in [Tunnel -> TunnelState] /\ faults' \in 0..MaxFaults
        /\ leases' \subseteq Lease /\ excused' \subseteq Lease
    BY <1>1, Zenon DEF ClientInv, TypeOK
  <1>3. \A l \in leases' : l \in excused'
    BY <1>1, ReleaseFacts, RealLease, Zenon
  <1> QED BY <1>1, <1>2, <1>3, ReleaseFacts, EmptyRuntime, DroppedTurn, Zenon

\* A release that failed, after which the lease is excused or kept.
LEMMA ReleaseFailsKeeps ==
  ASSUME ClientInv, NEW p \in Task, ReleaseFails(p)
  PROVE  ClientInv'
  <1>1. /\ task[p].pc = "releasing" /\ phase' = "error" /\ Kept(p) /\ leases' \subseteq leases
        /\ UNCHANGED <<queue, rt, tun, excused, stopped>>
    BY Zenon DEF ReleaseFails
  <1>2. tun' \in [Tunnel -> TunnelState] /\ faults' \in 0..MaxFaults
    BY <1>1, CalmFacts, Zenon DEF ReleaseFails, ClientInv
  <1>3. Like(rt', rt, rt.session, rt'.tunnel)
    BY <1>1, ReleaseFacts, Zenon DEF Like
  <1>4. task[p].pc \in Inside \ {"undoing"} /\ (stopped => rt'.tunnel = None)
    BY <1>1, StoppedFacts, Zenon DEF Inside
  <1> QED BY <1>1, <1>2, <1>3, <1>4, ReleaseFacts, KeptKeeps, Zenon


-----------------------------------------------------------------------------
(* enroll. *)

\* An enrolment that asks for a lease.
LEMMA EnrollingKeeps ==
  ASSUME ClientInv, NEW p \in Task, Enrolling(p)
  PROVE  ClientInv'
  <1>1. /\ task[p].op = "enroll" /\ task[p].pc = "new" /\ lock = None /\ lock' = p
        /\ rt' = NewRuntime /\ phase' = "enrolling"
        /\ UNCHANGED <<queue, desk, tun, leases, excused, stopped, faults>>
    BY Zenon DEF Enrolling
  <1>2. PICK k : k = At(p, "creating")
    BY Zenon
  <1>3. Goto(p, k) /\ Plain(k, "enroll", "creating")
    BY <1>1, <1>2, AtRecord, Names, Zenon DEF Enrolling, ClientInv
  <1>4. rt' \in Runtime /\ rt'.session = None /\ rt'.tunnel = None /\ ~rt'.requested /\ rt.session = None
    BY <1>1, EmptyRuntime, Zenon DEF ClientInv, TasksInv, Fits
  <1>5. Sane(k) /\ Fits(k, rt', phase', desk', leases', excused')
    BY <1>3, <1>4, Zenon DEF Plain, Sane, Fits, InStop, Silent, SilentStop, Lifecycle
  <1>6. \A q \in Task : task[q].lease = None
    <2> SUFFICES ASSUME NEW q \in Task, task[q].lease # None PROVE FALSE
      BY Zenon
    <2>1. task[q].pc = "undoing"
      BY Zenon DEF ClientInv, TasksInv, Sane
    <2> QED BY <1>1, <2>1, ClientAssumption, ZenonT(30) DEF ClientInv, TypeOK
  <1>7. Turn(p, k)
    BY <1>1, <1>3, <1>5, ZenonT(30) DEF Turn, Goto, Plain, Inside, ClientInv, TypeOK
  <1>8. Leaves(p, k)
    BY <1>1, <1>3, <1>4, <1>5, Zenon DEF Leaves, RuntimeInv, Phase, Plain, Inside
  <1>9. LeavesLeases(k)
    BY <1>1, <1>4, <1>6, RealLease, ZenonT(30) DEF LeavesLeases, ClientInv, LeaseIsHeld, TypeOK
  <1>10. LeavesDesk(p, k) /\ LeavesStopped(p, k)
    BY <1>1, <1>3, <1>4, ZenonT(30) DEF LeavesDesk, LeavesStopped, ClientInv, TypeOK, Plain, InStop
  <1> QED BY <1>7, <1>8, <1>9, <1>10, TurnKeeps, Zenon DEF GoodTurn

\* An enrolment that got its lease.
LEMMA EnrolledKeeps ==
  ASSUME ClientInv, NEW p \in Task, Enrolled(p)
  PROVE  ClientInv'
  <1>1. PICK l \in Unissued : /\ leases' = leases \cup {l} /\ excused' = excused \ {l}
                              /\ rt' = [rt EXCEPT !.session = l]
    BY Zenon DEF Enrolled
  <1>2. /\ task[p].pc = "creating" /\ phase' = "enrolled" /\ Configured(p) /\ lock' = None
        /\ UNCHANGED <<queue, tun, stopped, faults>>
    BY Zenon DEF Enrolled
  <1>3. l \in Lease /\ l # None /\ l \notin leases
    BY ClientAssumption, Zenon DEF Unissued
  <1>4. rt.session = None /\ rt.tunnel = None /\ ~rt.requested /\ rt \in Runtime
    BY <1>2, ReleaseFacts, Zenon DEF ClientInv, RuntimeInv
  <1>5. Like(rt', rt, l, None)
    BY <1>1, <1>3, <1>4, RuntimeSession, Zenon
  <1>6. rt' \in Runtime /\ phase' \in Phase /\ RuntimeInv' /\ Settled(rt', phase')
    BY <1>2, <1>3, <1>4, <1>5, Zenon DEF Like, Phase, RuntimeInv, Settled
  <1>7. leases' \subseteq Lease /\ excused' \subseteq Lease
    BY <1>1, <1>3, Zenon DEF ClientInv, TypeOK
  <1>8. \A m \in leases' : m = rt'.session \/ m \in excused'
    <2>1. \A m \in leases : m \in excused /\ m # l
      BY <1>2, <1>3, <1>4, ReleaseFacts, RealLease, Zenon
    <2> QED BY <1>1, <1>5, <2>1, Zenon DEF Like
  <1>9. tun' \in [Tunnel -> TunnelState] /\ faults' \in 0..MaxFaults
    BY <1>2, Zenon DEF ClientInv, TypeOK
  <1> QED BY <1>2, <1>4, <1>5, <1>6, <1>7, <1>8, <1>9, ReleaseFacts, ConfiguredKeeps, ZenonT(30) DEF
             Like

(* The enrollment ends with an error and no session. *)
LEMMA EnrollEnds ==
  ASSUME ClientInv, NEW p \in Task, task[p].pc \in {"creating", "undoing"},
         phase' = "error", desk' = NoDesk, Return(p), UNCHANGED <<queue, rt, tun, stopped>>,
         faults' \in 0..MaxFaults, leases' \subseteq Lease, excused' \subseteq Lease,
         \A l \in leases' : l \in excused'
  PROVE  ClientInv'
  <1>1. /\ task[p].pc \in Inside /\ task[p].op \in Lifecycle /\ lock = p /\ rt \in Runtime
        /\ rt.session = None /\ Follows(rt)
    BY ReleaseFacts, Zenon
  <1>2. Turn(p, Idle)
    BY <1>1, IdleFits, Zenon DEF Turn, Return, Goto, Inside, ClientInv, TypeOK
  <1>3. Leaves(p, Idle)
    BY <1>1, IdleFits, Zenon DEF Leaves, RuntimeInv, Phase, Settled, ClientInv
  <1>4. LeavesLeases(Idle) /\ LeavesDesk(p, Idle)
    BY <1>1, IdleFits, Zenon DEF LeavesLeases, LeavesDesk
  <1>5. LeavesStopped(p, Idle)
    BY StoppedFacts, IdleFits, Zenon DEF LeavesStopped, InStop, ClientInv, TypeOK
  <1> QED BY <1>2, <1>3, <1>4, <1>5, TurnKeeps, Zenon DEF GoodTurn

\* An enrolment that was refused, or whose answer was lost.
LEMMA EnrollFailsKeeps ==
  ASSUME ClientInv, NEW p \in Task, EnrollFails(p)
  PROVE  ClientInv'
  <1>1. /\ task[p].pc = "creating" /\ phase' = "error" /\ desk' = NoDesk /\ Return(p)
        /\ UNCHANGED <<queue, rt, tun, stopped>>
    BY Zenon DEF EnrollFails
  <1>2. \A l \in leases : l \in excused
    BY <1>1, ReleaseFacts, RealLease, Zenon
  <1>3. leases \subseteq Lease /\ excused \subseteq Lease
    BY Zenon DEF ClientInv, TypeOK
  <1>4. CASE UNCHANGED <<leases, excused, faults>>
    BY <1>1, <1>2, <1>3, <1>4, CalmFacts, EnrollEnds, ZenonT(30) DEF ClientInv
  <1>5. CASE \E l \in Unissued : leases' = leases \cup {l} /\ excused' = excused \cup {l} /\ Fault
    <2>1. faults' \in 0..MaxFaults
      BY <1>5, CalmFacts, Zenon DEF ClientInv
    <2>2. leases' \subseteq Lease /\ excused' \subseteq Lease /\ \A l \in leases' : l \in excused'
      BY <1>2, <1>3, <1>5, Zenon DEF Unissued
    <2> QED BY <1>1, <2>1, <2>2, EnrollEnds, Zenon
  <1> QED BY <1>4, <1>5, Zenon DEF EnrollFails

\* A refused manifest whose lease was given back, or could not be.
LEMMA UndoneKeeps ==
  ASSUME ClientInv, NEW p \in Task, Undone(p)
  PROVE  ClientInv'
  <1>1. /\ task[p].pc = "undoing" /\ phase' = "error" /\ desk' = NoDesk /\ Return(p)
        /\ UNCHANGED <<queue, rt, tun, stopped, faults>>
    BY Zenon DEF Undone
  <1>2. \A l \in leases : l \in excused \/ l = task[p].lease
    BY <1>1, ReleaseFacts, RealLease, Zenon
  <1>3. leases \subseteq Lease /\ excused \subseteq Lease /\ faults' \in 0..MaxFaults
    BY <1>1, Zenon DEF ClientInv, TypeOK
  <1>4. leases' \subseteq Lease /\ excused' \subseteq Lease /\ \A l \in leases' : l \in excused'
    BY <1>2, <1>3, Zenon DEF Undone
  <1> QED BY <1>1, <1>3, <1>4, EnrollEnds, Zenon

\* An enrolment that refuses its manifest.
LEMMA ManifestInvalidKeeps ==
  ASSUME ClientInv, NEW p \in Task, ManifestInvalid(p)
  PROVE  ClientInv'
  <1>1. task[p].pc = "creating" /\ Fault /\ UNCHANGED <<lock, queue, rt, phase, desk, tun, stopped>>
    BY Zenon DEF ManifestInvalid
  <1>2. PICK l \in Unissued : /\ leases' = leases \cup {l} /\ excused' = excused \ {l}
                              /\ Goto(p, [At(p, "undoing") EXCEPT !.lease = l])
    BY Zenon DEF ManifestInvalid
  <1>3. l \in Lease /\ l \notin leases
    BY Zenon DEF Unissued
  <1>4. PICK k : k = [At(p, "undoing") EXCEPT !.lease = l]
    BY Zenon
  <1>5. k \in TaskState /\ k.op = task[p].op /\ k.pc = "undoing" /\ k.tun = None /\ k.lease = l
    BY <1>3, <1>4, UndoRecord, Zenon DEF ClientInv
  <1>6. /\ task[p].pc \in Inside /\ task[p].op \in Lifecycle /\ lock = p /\ ~desk.configured
        /\ rt \in Runtime /\ phase \in Phase /\ rt.session = None
    BY <1>1, ReleaseFacts, Zenon
  <1>7. Sane(k) /\ Fits(k, rt', phase', desk', leases', excused')
    BY <1>1, <1>5, <1>6, Zenon DEF Sane, Fits, InStop, Silent, SilentStop
  <1>8. Turn(p, k)
    BY <1>1, <1>2, <1>4, <1>5, <1>6, <1>7, CalmFacts, ZenonT(30) DEF Turn, Goto, Inside, ClientInv
  <1>9. Leaves(p, k)
    BY <1>1, <1>5, <1>6, <1>7, ZenonT(30) DEF Leaves, RuntimeInv, Inside, ClientInv
  <1>10. LeavesLeases(k)
    <2>1. \A m \in leases : m \in excused /\ m # l
      BY <1>1, <1>3, ReleaseFacts, RealLease, Zenon
    <2> QED BY <1>2, <1>3, <1>5, <2>1, ZenonT(30) DEF LeavesLeases, ClientInv, TypeOK
  <1>11. LeavesDesk(p, k) /\ LeavesStopped(p, k)
    BY <1>1, <1>5, StoppedFacts, ZenonT(30) DEF LeavesDesk, LeavesStopped, InStop, ClientInv, TypeOK
  <1> QED BY <1>8, <1>9, <1>10, <1>11, TurnKeeps, Zenon DEF GoodTurn

-----------------------------------------------------------------------------
(* Every step. *)

\* Every turn of the holder keeps the invariant.
LEMMA ProceedKeeps ==
  ASSUME ClientInv, NEW p \in Task, Proceed(p)
  PROVE  ClientInv'
  BY RetiringKeeps, EnrollingKeeps, EnrolledKeeps, EnrollFailsKeeps, ManifestInvalidKeeps, UndoneKeeps,
     StartConnectKeeps, SubscribeKeeps, ProbeKeeps, ConnectedKeeps, ConnectFailsKeeps,
     StartRefreshKeeps, StartMaintainKeeps, StartVerifyKeeps, AnswerOkKeeps, AnswerBadKeeps,
     UnreachableKeeps, CheckedKeeps, AnswerEndsKeeps, StartStopKeeps, StartDisconnectKeeps,
     ReleasedKeeps, ReleaseFailsKeeps, StopRemoteKeeps, StopOrderedKeeps, StopAnsweredKeeps, Zenon
  DEF Proceed

\* Every step of the client keeps the invariant.
LEMMA StepKeeps == ClientInv /\ [Next]_vars => ClientInv'
  <1> SUFFICES ASSUME ClientInv, [Next]_vars PROVE ClientInv'
    BY Zenon
  <1>1. ASSUME NEW p \in Command, Request(p) PROVE ClientInv'
    BY <1>1, CallsKeep, RetireKeeps, ExitKeeps, Zenon DEF Request
  <1>2. CASE MaintenanceEnds \/ Tick \/ NetworkTick
    BY <1>2, MaintenanceEndsKeeps, TicksKeep, Zenon
  <1>3. ASSUME NEW p \in Task, Proceed(p) PROVE ClientInv'
    BY <1>3, ProceedKeeps, Zenon
  <1>4. ASSUME NEW t \in Tunnel, Monitor(t) \/ EngineFails(t) \/ Reap(t) PROVE ClientInv'
    BY <1>4, TunnelsKeep, Zenon
  <1>5. ASSUME NEW l \in Lease, LeaseEnds(l) PROVE ClientInv'
    BY <1>5, LeaseEndsKeeps, Zenon
  <1>6. CASE TimePasses \/ AppGone
    BY <1>6, TimePassesKeeps, AppGoneKeeps, Zenon
  <1>7. CASE UNCHANGED vars
    BY <1>7, BesideKeeps, Zenon DEF vars, Beside, ClientInv, TypeOK
  <1> QED BY <1>1, <1>2, <1>3, <1>4, <1>5, <1>6, <1>7, ZenonT(30) DEF Next

\* The invariant always holds.
LEMMA InvHolds == Spec => []ClientInv
  BY InitHolds, StepKeeps, PTL DEF Spec

(* The client's account of itself is right in every state: one holder of   *)
(* the operation mutex, a snapshot (publish in client.rs) that shows what  *)
(* the runtime holds whenever no operation runs, a session under every     *)
(* tunnel, also one that is being stopped, and a holder or an excuse for   *)
(* every lease live at the server.                                         *)
THEOREM ClientAlwaysConsistent == Spec => []ClientIsConsistent
  <1>1. ClientInv => ClientIsConsistent
    <2> SUFFICES ASSUME ClientInv PROVE SessionOutlivesTunnel
      BY Zenon DEF ClientIsConsistent, ClientInv
    <2>1. ASSUME NEW p \in Task, task[p].tun # None PROVE rt.session # None
      BY <2>1, ZenonT(30) DEF ClientInv, TasksInv, Sane, Fits
    <2> QED BY <2>1, Zenon DEF SessionOutlivesTunnel, ClientInv, RuntimeInv
  <1> QED BY <1>1, InvHolds, PTL

(* After a stop_tunnel or a forget that succeeded no operation of the      *)
(* client and no maintenance brings a tunnel up, until the user connects:  *)
(* the stop takes the intent (connection_requested) away under the mutex.  *)
THEOREM StoppedAlwaysStaysStopped == Spec => []StoppedStaysStopped
  <1>1. ClientInv => StoppedStaysStopped
    BY Zenon DEF ClientInv, StoppedInv, StoppedStaysStopped
  <1> QED BY <1>1, InvHolds, PTL

=============================================================================
