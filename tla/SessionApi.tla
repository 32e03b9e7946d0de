----------------------------- MODULE SessionApi -----------------------------
(***************************************************************************)
(* The session handlers of the control API composed with the data planes.    *)
(*                                                                         *)
(* A handler first has the access service commit a change (AccessService:    *)
(* one step here), and then calls the engines one after the other, waiting   *)
(* for each answer while other handlers run.  A call may fail; a request may *)
(* be dropped between two calls; the server may restart, after which it      *)
(* serves everything but enrolments while it reconciles the engines with the *)
(* leases it found when it started.  When it has tried that MaxAttempts times *)
(* in vain it ends, and the container's restart policy starts it again.      *)
(***************************************************************************)
EXTENDS DataPlane

CONSTANTS Handler,      \* request handlers that may run at the same time
          Background,   \* the expiry and allowance tasks
          None,         \* no value
          Installations, \* the lists of engines from_config may build
          MaxAttempts,  \* tries of the reconciliation at startup, 20
          MaxFailures,  \* bound: engine calls and stores that fail
          MaxCuts       \* bound: requests dropped, and restarts of a server
                        \* that has not given up

ASSUME SessionApiAssumption ==
    /\ Handler \cap Background = {} /\ None \notin Allocation
    /\ Installations \subseteq Seq(Engines) \ {<<>>}
    /\ MaxAttempts \in Nat \ {0}
    /\ MaxFailures \in Nat /\ MaxCuts \in Nat

VARIABLES live,      \* allocations of the leases in the access service
          held,      \* what each engine holds
          answering, \* sign-ins Ket accepted and the engine has not finished
          task,      \* what each process is doing
          ready,     \* data_plane_ready
          startup,   \* the reconciliation at startup: the engine it is at,
                     \* NoEngine when it was given up, and the attempt
          accepted,  \* sessions whose client got its manifest
          drawn,     \* how many session identifiers were given out
          missed,    \* history: <<engine, session>> with a kick that did not
                     \* happen, or came before what it was to undo
          crossed,   \* history: sessions in a slot that a kick of its
                     \* previous owner hit, or its late provisioning took
          failures, cuts

vars == <<live, held, answering, task, ready, startup, accepted, drawn,
          missed, crossed, failures, cuts>>

Process == Handler \cup Background

Idle == [at |-> "idle"]

Listed(controls) == {controls[i] : i \in DOMAIN controls}

(* The engines that are configured, in the order they are called. *)
from_config(engines) == CHOOSE controls \in Installations : Listed(controls) = engines

Running == from_config(DOMAIN held)

NoEngine == 0

Starting(wanted) == [at |-> 1, attempt |-> 1, wanted |-> wanted, failed |-> FALSE]

GaveUp == startup.at = NoEngine

(* AppState::new.  Where no engine has to be reconciled (Hysteria alone) the *)
(* code is ready at once, and the model after a pass that changes nothing.   *)
Init ==
    /\ live = {}
    /\ \E controls \in Installations : held = [e \in Listed(controls) |-> {}]
    /\ answering = {}
    /\ task = [p \in Process |-> Idle]
    /\ ready = FALSE
    /\ startup = Starting({})
    /\ accepted = {}
    /\ drawn = 0
    /\ missed = {}
    /\ crossed = {}
    /\ failures = 0 /\ cuts = 0

-----------------------------------------------------------------------------
(* The points a handler can be at, and what it has in hand there. *)

(* Kick `gone` from engine i on; then go on with the enrolment of `new`. *)
AtKick(gone, i, new) == [at |-> "kick", gone |-> gone, i |-> i, new |-> new]

(* Provision `new` at engine i. *)
AtProvision(new, i) == [at |-> "provision", new |-> new, i |-> i]

(* Undo at engine i what was provisioned for `new`, then at those before. *)
AtRollback(new, i) == [at |-> "rollback", new |-> new, i |-> i]

AtRefuse(new) == [at |-> "refuse", new |-> new]

Enrolling == {task[p].new : p \in {q \in Process : task[q].at # "idle"}} \ {None}

(* A lease lasts a minute at least, a request 15 seconds at most: the lease *)
(* of an enrolment under way has not expired.                               *)
Expirable == live \ Enrolling

FreeSlots(t) == Slot \ Slots(t)

(* The smallest free slot, if there is one. *)
NextSlot(t) == {n \in FreeSlots(t) : \A m \in FreeSlots(t) : n <= m}

Goto(p, point) == task' = [task EXCEPT ![p] = point]

(* Mutation: only the first engine. *)
AfterKickFirst(gone, i, new) == IF new = None THEN Idle ELSE AtProvision(new, 1)

(* Where a kick of `gone` continues after engine i. *)
AfterKick(gone, i, new) ==
    IF i < Len(Running) THEN AtKick(gone, i + 1, new)
    ELSE IF new = None THEN Idle ELSE AtProvision(new, 1)

-----------------------------------------------------------------------------
(* Calls of the engine e. *)

(* History: what happens to `a` at e can no longer be undone by the kick    *)
(* that goes with the end of a's lease.                                     *)
Late(e, a) == IF a \in live THEN {} ELSE {<<e, a.id>>}

(* History: the sessions whose port or address is touched on behalf of a    *)
(* session that had it before.                                              *)
Touched(e, allocations) ==
    IF e \in BySlot
    THEN {b.id : b \in {c \in live \ allocations : c.slot \in Slots(allocations)}}
    ELSE {}

Fail == failures < MaxFailures /\ failures' = failures + 1

ProvisionCall(e, a, ok) ==
    /\ \/ ok /\ UNCHANGED failures
          /\ held' = [held EXCEPT ![e] = Provisioned(e, @, a)]
       \/ ~ ok /\ Fail
          /\ \E left \in HalfProvisioned(e, held[e], a) : held' = [held EXCEPT ![e] = left]
    /\ missed' = missed \cup (IF e \in SignIn THEN {} ELSE Late(e, a))
    /\ crossed' = crossed \cup Touched(e, {a})

KickCall(e, gone, ok) ==
    /\ \/ ok /\ Readable(e, held[e]) /\ UNCHANGED failures
          /\ held' = [held EXCEPT ![e] = Kicked(e, @, gone)]
       \/ ~ ok /\ ~ Readable(e, held[e]) /\ UNCHANGED <<held, failures>>
       \/ ~ ok /\ Fail
          /\ \E left \in HalfKicked(e, held[e], gone) : held' = [held EXCEPT ![e] = left]
    /\ missed' = missed \cup (IF ok THEN {} ELSE {e} \X Ids(gone))
    /\ crossed' = crossed \cup Touched(e, gone)

-----------------------------------------------------------------------------
(* Enrolment. *)

CreateSession(h) ==
    /\ task[h] = Idle
    /\ ready
    /\ drawn + 1 \in Session
    /\ \E expired \in SUBSET Expirable : \E slot \in NextSlot(live \ expired) :
         LET new == [id |-> drawn + 1, slot |-> slot]
         IN  /\ live' = (live \ expired) \cup {new}
             /\ Goto(h, IF expired = {} THEN AtProvision(new, 1)
                                        ELSE AtKick(expired, 1, new))
    /\ drawn' = drawn + 1
    /\ UNCHANGED <<held, answering, ready, startup, accepted, missed, crossed,
                   failures, cuts>>

(* Composite provision: an engine that fails ends it, and the engines       *)
(* before it are asked to undo.                                             *)
Provision(h) ==
    /\ task[h].at = "provision"
    /\ LET new == task[h].new
           i   == task[h].i
       IN  \/ /\ ProvisionCall(Running[i], new, TRUE)
              /\ i < Len(Running)
              /\ Goto(h, AtProvision(new, i + 1))
              /\ UNCHANGED accepted
           \/ /\ ProvisionCall(Running[i], new, TRUE)
              /\ i = Len(Running)
              /\ Goto(h, Idle)
              /\ accepted' = accepted \cup {new.id}
           \/ /\ ProvisionCall(Running[i], new, FALSE)
              /\ Goto(h, IF i > 1 THEN AtRollback(new, i - 1) ELSE AtRefuse(new))
              /\ UNCHANGED accepted
    /\ UNCHANGED <<live, answering, ready, startup, drawn, cuts>>

(* The client is too old, found before the engines are asked, or none of    *)
(* the protocols its grant allows is on offer, found after.                 *)
TurnAway(h) ==
    /\ task[h].at = "provision"
    /\ task[h].i \in {1, Len(Running)}
    /\ \/ /\ task[h].i = 1
          /\ UNCHANGED <<held, missed, crossed, failures>>
       \/ /\ task[h].i = Len(Running)
          /\ ProvisionCall(Running[task[h].i], task[h].new, TRUE)
    /\ Goto(h, AtRefuse(task[h].new))
    /\ UNCHANGED <<live, answering, ready, startup, accepted, drawn, cuts>>

(* The answer of an engine that is asked to undo is ignored. *)
Rollback(h) ==
    /\ task[h].at = "rollback"
    /\ LET new == task[h].new
           i   == task[h].i
       IN  /\ \E ok \in BOOLEAN : KickCall(Running[i], {new}, ok)
           /\ Goto(h, IF i > 1 THEN AtRollback(new, i - 1) ELSE AtRefuse(new))
    /\ UNCHANGED <<live, answering, ready, startup, accepted, drawn, cuts>>

(* Mutation: the lease is ended and not kicked. *)
RefuseSessionQuietly(h) ==
    /\ task[h].at = "refuse"
    /\ live' = live \ {task[h].new}
    /\ Goto(h, Idle)
    /\ UNCHANGED <<held, answering, ready, startup, accepted, drawn, missed,
                   crossed, failures, cuts>>

(* refuse_session: the lease is ended and then kicked.  If it is gone       *)
(* already, or ending it cannot be stored, nothing is kicked.               *)
RefuseSession(h) ==
    /\ task[h].at = "refuse"
    /\ LET new == task[h].new
       IN  \/ /\ new \in live
              /\ live' = live \ {new}
              /\ Goto(h, AtKick({new}, 1, None))
              /\ UNCHANGED failures
           \/ /\ new \in live => Fail
              /\ new \notin live => UNCHANGED failures
              /\ Goto(h, Idle)
              /\ UNCHANGED live
    /\ UNCHANGED <<held, answering, ready, startup, accepted, drawn, missed,
                   crossed, cuts>>

-----------------------------------------------------------------------------
(* The end of leases. *)

EndSessions(p, gone) ==
    /\ task[p] = Idle
    /\ gone # {}
    /\ live' = live \ gone
    /\ Goto(p, AtKick(gone, 1, None))
    /\ UNCHANGED <<held, answering, ready, startup, accepted, drawn, missed,
                   crossed, failures, cuts>>

(* A grant was revoked, or changed so that it no longer admits some of its  *)
(* sessions.                                                                *)
ChangeGrant(h) == \E gone \in SUBSET live : EndSessions(h, gone)

ReleaseSession(h) ==
    \E a \in live : a.id \in accepted /\ EndSessions(h, {a})

(* The background tasks start when the engines are reconciled. *)
ExpireSessions(p) == ready /\ \E gone \in SUBSET Expirable : EndSessions(p, gone)

MeterAllowances(p) == ready /\ \E gone \in SUBSET live : EndSessions(p, gone)

(* kick_sessions tries every engine; failures are only logged. *)
KickSessions(p) ==
    /\ task[p].at = "kick"
    /\ \E ok \in BOOLEAN : KickCall(Running[task[p].i], task[p].gone, ok)
    /\ Goto(p, AfterKick(task[p].gone, task[p].i, task[p].new))
    /\ UNCHANGED <<live, answering, ready, startup, accepted, drawn, cuts>>

-----------------------------------------------------------------------------
(* Clients that sign in at an engine: Ket answers, the engine acts on it. *)

Authenticate(e) ==
    \E a \in live :
        /\ a.id \in accepted
        /\ answering' = answering \cup {<<e, a>>}
        /\ UNCHANGED <<live, held, task, ready, startup, accepted, drawn, missed,
                       crossed, failures, cuts>>

Connect ==
    \E x \in answering :
        /\ answering' = answering \ {x}
        /\ held' = [held EXCEPT ![x[1]] = @ \cup {x[2]}]
        /\ missed' = missed \cup Late(x[1], x[2])
        /\ UNCHANGED <<live, task, ready, startup, accepted, drawn, crossed,
                       failures, cuts>>

-----------------------------------------------------------------------------
(* Startup, restarts and dropped requests. *)

(* Mutation: a failed attempt counts against all that follow. *)
AdvanceOnce(failed) ==
    IF startup.at < Len(Running)
    THEN /\ startup' = [startup EXCEPT !.at = @ + 1, !.failed = failed]
         /\ UNCHANGED ready
    ELSE /\ startup' = [startup EXCEPT !.at = IF failed /\ startup.attempt = MaxAttempts
                                             THEN NoEngine ELSE 1,
                                      !.attempt = IF @ < MaxAttempts THEN @ + 1 ELSE @,
                                      !.failed = failed]
         /\ ready' = ~ failed

(* On to the next engine, or to the end of an attempt: the engines are      *)
(* ready, or it was the last attempt, or there is another one.              *)
Advance(failed) ==
    IF startup.at < Len(Running)
    THEN /\ startup' = [startup EXCEPT !.at = @ + 1, !.failed = failed]
         /\ UNCHANGED ready
    ELSE \/ /\ ~ failed
            /\ startup' = Starting(startup.wanted)
            /\ ready' = TRUE
         \/ /\ failed /\ startup.attempt = MaxAttempts
            /\ startup' = [startup EXCEPT !.at = NoEngine, !.failed = TRUE]
            /\ UNCHANGED ready
         \/ /\ failed /\ startup.attempt # MaxAttempts
            /\ startup' = [startup EXCEPT !.at = 1, !.attempt = @ + 1, !.failed = FALSE]
            /\ UNCHANGED ready

(* One engine is reconciled with the leases found at startup.  The engines  *)
(* are all tried, and tried again while there are attempts left.            *)
ReconcileDataPlanes ==
    /\ ~ ready /\ ~ GaveUp
    /\ LET e      == Running[startup.at]
           wanted == startup.wanted
           again  == ({e} \ {"hysteria"}) \X Ids(wanted \ live)
       IN  \/ /\ Readable(e, held[e])
              /\ held' = [held EXCEPT ![e] = Reconciled(e, @, wanted)]
              /\ missed' = again \cup
                   (IF e \in {"hysteria", "wireguard"} THEN missed
                    ELSE {x \in missed : x[1] # e})
              /\ Advance(startup.failed)
              /\ UNCHANGED failures
           \/ /\ ~ Readable(e, held[e])
              /\ Advance(TRUE)
              /\ UNCHANGED <<held, missed, failures>>
           \/ /\ Fail
              /\ \E left \in HalfReconciled(e, held[e], wanted) :
                   held' = [held EXCEPT ![e] = left]
              /\ missed' = missed \cup again
              /\ Advance(TRUE)
    /\ UNCHANGED <<live, answering, task, accepted, drawn, crossed, cuts>>

Cut == cuts < MaxCuts /\ cuts' = cuts + 1

(* Kicks that p still had to make. *)
Outstanding(p) ==
    IF task[p].at = "kick"
    THEN {Running[i] : i \in task[p].i .. Len(Running)} \X Ids(task[p].gone)
    ELSE {}

Drop(h) ==
    /\ task[h] # Idle
    /\ Cut
    /\ missed' = missed \cup Outstanding(h)
    /\ Goto(h, Idle)
    /\ UNCHANGED <<live, held, answering, ready, startup, accepted, drawn,
                   crossed, failures>>

(* The server is restarted; one that gave up is, by the restart policy of   *)
(* its container, and until the process has ended its connections go on.    *)
(* The engines keep running, and a sign-in that Ket has answered goes on.   *)
(* Leases that expired meanwhile are dropped from the table; the engines    *)
(* learn of it by the reconciliation, which Hysteria ignores.               *)
Restart ==
    /\ \/ GaveUp /\ UNCHANGED cuts
       \/ ~ GaveUp /\ Cut
    /\ task' = [p \in Process |-> Idle]
    /\ ready' = FALSE
    /\ \E expired \in SUBSET live :
         /\ live' = live \ expired
         /\ missed' = missed \cup (UNION {Outstanding(p) : p \in Process})
                             \cup ({"hysteria"} \cap DOMAIN held) \X Ids(expired)
         /\ startup' = Starting(live')
    /\ UNCHANGED <<held, answering, accepted, drawn, crossed, failures>>

-----------------------------------------------------------------------------
Step(p) == Provision(p) \/ Rollback(p) \/ RefuseSession(p) \/ KickSessions(p)

Next ==
    \/ \E h \in Handler :
         \/ CreateSession(h) \/ TurnAway(h)
         \/ ChangeGrant(h) \/ ReleaseSession(h)
         \/ Drop(h)
    \/ \E p \in Background : ExpireSessions(p) \/ MeterAllowances(p)
    \/ \E p \in Process : Step(p)
    \/ \E e \in DOMAIN held \cap SignIn : Authenticate(e)
    \/ Connect
    \/ ReconcileDataPlanes
    \/ Restart

Spec == Init /\ [][Next]_vars

(* A request that has begun is polled to its end, the startup task goes on, *)
(* an engine acts on the answer it was given, and the container of a server *)
(* that ended is started again.                                             *)
Fairness ==
    /\ \A p \in Process : WF_vars(Step(p))
    /\ WF_vars(ReconcileDataPlanes)
    /\ WF_vars(Connect)
    /\ WF_vars(GaveUp /\ Restart)

FairSpec == Spec /\ Fairness

-----------------------------------------------------------------------------
(* Properties. *)

Point ==
    {Idle}
      \cup [at : {"kick"}, gone : SUBSET Allocation, i : DOMAIN Running,
            new : Allocation \cup {None}]
      \cup [at : {"provision", "rollback"}, new : Allocation, i : DOMAIN Running]
      \cup [at : {"refuse"}, new : Allocation]

(* The states of the reconciliation at startup, by the lists it may have. *)
Startups(lists) ==
    [at : DOMAIN Running \cup {NoEngine}, attempt : 1 .. MaxAttempts,
     wanted : lists, failed : BOOLEAN]

Holding == [id : Session, slot : Slot \cup {Unaddressed}]

(* Every variable has its type. *)
TypeOK ==
    /\ live \subseteq Allocation
    /\ \E controls \in Installations : held \in [Listed(controls) -> SUBSET Holding]
    /\ answering \subseteq (DOMAIN held) \X Allocation
    /\ task \in [Process -> Point]
    /\ ready \in BOOLEAN
    /\ startup \in Startups(SUBSET Allocation)
    /\ accepted \subseteq Session
    /\ drawn \in Nat
    /\ missed \subseteq (DOMAIN held) \X Session
    /\ crossed \subseteq Session

Owed(e, id) ==
    \/ \E p \in Process : <<e, id>> \in Outstanding(p)
    \/ ~ ready /\ (startup.failed \/ \E i \in startup.at .. Len(Running) : Running[i] = e)

(* What an engine holds belongs to a lease, or a kick is on its way, or one *)
(* of the known ways to miss it happened: an engine call failed, a request  *)
(* was dropped or the server restarted before the kick, or the lease ended  *)
(* while its own enrolment or sign-in was still under way.  In particular a *)
(* refused enrolment leaves nothing behind in any engine, including the one *)
(* that failed half way.                                                    *)
StrayIsAccountedFor ==
    \A e \in DOMAIN held : \A b \in held[e] :
        b.id \in Ids(live) \/ <<e, b.id>> \in missed \/ Owed(e, b.id)

(* A client that was given its manifest can use every engine as long as its *)
(* lease lasts: the end of other sessions, failed enrolments and restarts   *)
(* take nothing from it, except that its port or address may be hit on      *)
(* behalf of the session that had the slot before.                          *)
AcceptedKeepsAccess ==
    ready =>
      \A a \in live : a.id \in accepted =>
        \A e \in DOMAIN held \ SignIn :
          a \in held[e] \/ (e \in BySlot /\ a.id \in crossed)

(* While the engines are being reconciled no lease appears, so the list     *)
(* taken at startup covers every lease there is.                            *)
StartupCoversLeases == ~ ready => live \subseteq startup.wanted

(* What the server relies on to serve a session it accepted: the variables  *)
(* keep their types, the startup list covers every lease, and an accepted   *)
(* client can use every engine.                                             *)
AccessIsServed == TypeOK /\ StartupCoversLeases /\ AcceptedKeepsAccess

(* What an engine holds for a session that ended, and no missed kick is    *)
(* about, nor a WireGuard interface whose peers can no longer be listed.    *)
Stray(e, id) ==
    /\ id \in Ids(held[e]) \ Ids(live)
    /\ <<e, id>> \notin missed
    /\ Readable(e, held[e])

(* Whatever the engines hold for a session that ended is removed in the     *)
(* end, at every one of them.                                               *)
StrayGoes ==
    \A id \in Session :
        (\E e \in DOMAIN held : Stray(e, id)) ~> (\A e \in DOMAIN held : ~ Stray(e, id))

Stuck == \E e \in DOMAIN held : ~ Readable(e, held[e])

(* The server becomes ready after every restart, in as many attempts and    *)
(* restarts as it takes, and it takes MaxAttempts failed calls to make it   *)
(* give up: an attempt that failed does not count against the next.  Only a *)
(* WireGuard agent that can no longer list its peers is in the way of this. *)
BecomesReady ==
    /\ ~ ready ~> ready \/ Stuck
    /\ GaveUp ~> failures >= MaxAttempts \/ Stuck

=============================================================================
