------------------------------- MODULE Client -------------------------------
(***************************************************************************)
(* The client controller (ket-client-core, client.rs), the tunnels the     *)
(* privileged service runs for it (broker.rs) and the desktop app's        *)
(* session around it (ket-desktop, lib.rs).                                *)
(*                                                                         *)
(* Commands of the user and the maintenance task take the client's         *)
(* operation mutex in the order they asked for it and keep it across every *)
(* await.  What still runs beside them: the cancellation that stop_tunnel  *)
(* and disconnect send before they ask for the mutex, the monitor of each  *)
(* tunnel, the engines, the control server and the clock.  A step of an    *)
(* operation reaches from one answer it waits for to the next.             *)
(***************************************************************************)
EXTENDS Naturals, Sequences, FiniteSets

CONSTANTS
  Command,      \* the commands the user may have under way
  Maintenance,  \* the maintenance task
  Lease,        \* access leases of the control server
  Tunnel,       \* tunnels of the tunnel service
  None,
  MaxAttempts,  \* SelectionPolicy::max_attempts
  MaxFaults     \* bound: calls that fail or lose their answer, and crashes

Task == Command \cup {Maintenance}

ASSUME ClientAssumption ==
  /\ Maintenance \notin Command
  /\ None \notin Task \cup Lease \cup Tunnel
  /\ MaxAttempts \in Nat \ {0} /\ MaxFaults \in Nat

VARIABLES
  task,       \* what each command and the maintenance task are doing
  lock,       \* holder of KetClient::operation
  queue,      \* who waits for it; tokio's mutex is fair
  rt,         \* RuntimeState
  phase,      \* snapshot.phase
  desk,       \* DesktopController
  tun,        \* each tunnel: engine, handle and monitor
  leases,     \* leases live at the server
  excused,    \* of these, the ones whose fate the client could not know
  stopped,    \* the user's last command stopped the tunnel, and succeeded
  faults

vars == <<task, lock, queue, rt, phase, desk, tun, leases, excused, stopped, faults>>

(***************************************************************************)
(* State.                                                                  *)
(***************************************************************************)

(* Where a task is.  after: what the call or the stop it waits for is part *)
(* of.  re: the attempt is a reconnect.  renew: the call renews.  left:    *)
(* candidates still to try.  cut: the attempt's cancellation receiver has  *)
(* changed.  tun and lease: what it has in hand.                           *)
Idle == [op |-> "none", pc |-> "idle", after |-> "none", re |-> FALSE, renew |-> FALSE,
         left |-> 0, cut |-> FALSE, tun |-> None, lease |-> None]
Off == [Idle EXCEPT !.pc = "off"]
Waiting(o) == [Idle EXCEPT !.op = o, !.pc = "waiting"]
At(p, pc) == [Idle EXCEPT !.op = task[p].op, !.pc = pc]

(* RuntimeState.  age abstracts the clock against renew_at and the lease's *)
(* expiry: fresh, renewal due, lapsed.  failures: control_failures, of     *)
(* which only "two or more" is ever asked.                                 *)
NewRuntime == [session |-> None, age |-> "fresh", failures |-> 0, tunnel |-> None, requested |-> FALSE]

(* A tunnel: engine is the service's side; view is the watched status, mon *)
(* the monitor task; order and answer are the Stop command and its reply;  *)
(* net is what the latest heartbeat reported of the device's network, seen *)
(* from the runtime's network_generation.                                  *)
NoTunnel == [engine |-> "down", view |-> "none", mon |-> "none", order |-> FALSE,
             answer |-> "none", net |-> "same"]
Started == [NoTunnel EXCEPT !.engine = "up", !.view = "connected", !.mon = "watching"]
Unclaimed == [NoTunnel EXCEPT !.engine = "up"]

Held(t) == rt.tunnel = t \/ \E p \in Task : task[p].tun = t
Unused == {t \in Tunnel : tun[t].engine = "down" /\ tun[t].mon \in {"none", "done"} /\ ~Held(t)}
Unissued == Lease \ (leases \cup {rt.session} \cup {task[p].lease : p \in Task})

NoDesk == [configured |-> FALSE, lifecycle |-> None, ending |-> FALSE]

Init ==
  /\ task = [p \in Task |-> IF p = Maintenance THEN Off ELSE Idle]
  /\ lock = None /\ queue = <<>>
  /\ rt = NewRuntime /\ phase = "disconnected"
  /\ desk = NoDesk
  /\ tun = [t \in Tunnel |-> NoTunnel]
  /\ leases = {} /\ excused = {} /\ stopped = FALSE /\ faults = 0

Fault == faults < MaxFaults /\ faults' = faults + 1
Goto(p, r) == task' = [task EXCEPT ![p] = r]

(* The operation returns: the guard goes, the command is answered. *)
Return(p) == Goto(p, Idle) /\ lock' = None

(* The update a step makes of the runtime, when it makes one. *)
Sees == UNCHANGED <<desk, leases, excused, stopped, faults, queue>>
AtRest == phase' = IF rt.session # None THEN "enrolled" ELSE "disconnected"

(* Some engine of the service started with nobody to hear of it. *)
StrayStart == \E t \in Unused : tun' = [tun EXCEPT ![t] = Unclaimed]

(***************************************************************************)
(* Commands ask for the operation mutex.                                   *)
(***************************************************************************)

(* cancel_connection_attempt reaches the attempt that has subscribed, and  *)
(* is lost on one that is about to.                                        *)
Cancel ==
  [p \in Task |-> IF \/ task[p].pc \in {"probing", "connecting"}
                     \/ task[p].pc \in {"stopping", "ordered"} /\ task[p].after = "attempt"
                  THEN [task[p] EXCEPT !.cut = TRUE]
                  ELSE task[p]]

Enqueue(p, o) ==
  /\ Goto(p, Waiting(o))
  /\ queue' = Append(queue, p)

(* connect, refresh and stop_tunnel of the desktop app: they run on the    *)
(* client of the current session and need no lifecycle mutex.              *)
CallConnect(p) ==
  /\ task[p].pc = "idle" /\ desk.configured
  /\ Enqueue(p, "connect")
  /\ stopped' = FALSE
  /\ UNCHANGED <<lock, rt, phase, desk, tun, leases, excused, faults>>

CallRefresh(p) ==
  /\ task[p].pc = "idle" /\ desk.configured
  /\ \E o \in {"refresh", "renew"} : Enqueue(p, o)
  /\ UNCHANGED <<lock, rt, phase, desk, tun, leases, excused, stopped, faults>>

CallStop(p) ==
  /\ task[p].pc = "idle" /\ desk.configured
  /\ task' = [Cancel EXCEPT ![p] = Waiting("stop")]
  /\ queue' = Append(queue, p)
  /\ UNCHANGED <<lock, rt, phase, desk, tun, leases, excused, stopped, faults>>

(* enroll and forget take the session out of the controller and wait for   *)
(* the maintenance task before they disconnect it.                         *)
Retire(p, o) ==
  /\ task[p].pc = "idle" /\ desk.lifecycle = None
  /\ o = "enroll" \/ desk.configured
  /\ desk' = [configured |-> FALSE, lifecycle |-> p, ending |-> desk.configured]
  /\ Goto(p, [Idle EXCEPT !.op = o, !.pc = IF desk.configured THEN "retiring" ELSE "new"])
  /\ UNCHANGED <<lock, queue, rt, phase, tun, leases, excused, stopped, faults>>

(* The queue without one of those that wait, of whom each is in it once. *)
Without(q, p) ==
  IF \A i \in DOMAIN q : q[i] # p THEN q
  ELSE LET at == CHOOSE i \in DOMAIN q : q[i] = p
       IN [i \in 1..Len(q) - 1 |-> IF i < at THEN q[i] ELSE q[i + 1]]

(* A dropped MaintenanceTask is aborted at whatever it awaits: its place   *)
(* in the queue, the mutex, a tunnel it had in hand and a connect it       *)
(* waited for go with it.                                                  *)
Abort ==
  /\ lock' = IF lock = Maintenance THEN None ELSE lock
  /\ queue' = Without(queue, Maintenance)
  /\ UNCHANGED tun \/ (task[Maintenance].pc = "connecting" /\ StrayStart)

(* The exit handler drops the maintenance task, then disconnects. *)
Exit(p) ==
  /\ task[p].pc = "idle" /\ desk.lifecycle = None /\ desk.configured
  /\ desk' = [configured |-> FALSE, lifecycle |-> p, ending |-> FALSE]
  /\ task' = [task EXCEPT ![p] = [Idle EXCEPT !.op = "exit", !.pc = "retiring"], ![Maintenance] = Off]
  /\ Abort
  /\ UNCHANGED <<rt, phase, leases, excused, stopped, faults>>

MaintenanceEnds ==
  /\ task[Maintenance].pc = "idle" /\ desk.ending
  /\ Goto(Maintenance, Off)
  /\ desk' = [desk EXCEPT !.ending = FALSE]
  /\ UNCHANGED <<lock, queue, rt, phase, tun, leases, excused, stopped, faults>>

(* disconnect() is called: it cancels, then asks for the mutex. *)
Retiring(p) ==
  /\ task[p].pc = "retiring" /\ task[Maintenance].pc = "off"
  /\ task' = [Cancel EXCEPT ![p] = Waiting(task[p].op)]
  /\ queue' = Append(queue, p)
  /\ UNCHANGED <<lock, rt, phase, desk, tun, leases, excused, stopped, faults>>

(* The maintenance task's two tickers.  network_moved does not take the    *)
(* operation mutex, and answers yes once per move.                         *)
Tick ==
  /\ task[Maintenance].pc = "idle" /\ rt.session # None
  /\ Enqueue(Maintenance, "maintain")
  /\ UNCHANGED <<lock, rt, phase, desk, tun, leases, excused, stopped, faults>>

NetworkTick ==
  /\ task[Maintenance].pc = "idle" /\ rt.tunnel # None
  /\ tun[rt.tunnel].net = "moved"
  /\ tun' = [tun EXCEPT ![rt.tunnel].net = "same"]
  /\ Enqueue(Maintenance, "verify")
  /\ UNCHANGED <<lock, rt, phase, desk, leases, excused, stopped, faults>>

(* The head of the queue gets the mutex. *)
Granted(p, o) ==
  /\ lock = None /\ queue # <<>> /\ Head(queue) = p /\ task[p].op = o
  /\ queue' = Tail(queue)

Ask(p, after, renew) == [At(p, "calling") EXCEPT !.after = after, !.renew = renew]
Begin(p, re) == [At(p, "begin") EXCEPT !.re = re]
StopOf(p, t, after) == [At(p, "stopping") EXCEPT !.after = after, !.tun = t, !.re = task[p].re]
Due == rt.age # "fresh"

(***************************************************************************)
(* enroll.  The desktop app enrolls a client of its own, whose mutex       *)
(* nobody else holds; commands still queued on the client before it find   *)
(* no session there.                                                       *)
(***************************************************************************)

(* The client becomes the controller's session; its maintenance starts. *)
Configured(p) ==
  /\ desk' = [configured |-> TRUE, lifecycle |-> None, ending |-> FALSE]
  /\ task' = [task EXCEPT ![p] = Idle, ![Maintenance] = Idle]

Enrolling(p) ==
  /\ task[p].op = "enroll" /\ task[p].pc = "new" /\ lock = None /\ queue = <<>>
  /\ lock' = p /\ Goto(p, At(p, "creating"))
  /\ rt' = NewRuntime /\ phase' = "enrolling"
  /\ UNCHANGED <<queue, desk, tun, leases, excused, stopped, faults>>

Enrolled(p) ==
  /\ task[p].pc = "creating"
  /\ \E l \in Unissued :
       /\ leases' = leases \cup {l} /\ excused' = excused \ {l}
       /\ rt' = [rt EXCEPT !.session = l]
  /\ phase' = "enrolled"
  /\ Configured(p) /\ lock' = None
  /\ UNCHANGED <<queue, tun, stopped, faults>>

(* create_session failed; the server may have created the lease. *)
EnrollFails(p) ==
  /\ task[p].pc = "creating"
  /\ \/ UNCHANGED <<leases, excused, faults>>
     \/ \E l \in Unissued : leases' = leases \cup {l} /\ excused' = excused \cup {l} /\ Fault
  /\ phase' = "error" /\ desk' = NoDesk /\ Return(p)
  /\ UNCHANGED <<queue, rt, tun, stopped>>

(* The manifest does not validate: its lease is released, if its token can *)
(* be read at all, whatever comes of that.                                 *)
ManifestInvalid(p) ==
  /\ task[p].pc = "creating" /\ Fault
  /\ \E l \in Unissued :
       /\ leases' = leases \cup {l} /\ excused' = excused \ {l}
       /\ Goto(p, [At(p, "undoing") EXCEPT !.lease = l])
  /\ UNCHANGED <<lock, queue, rt, phase, desk, tun, stopped>>

Undone(p) ==
  /\ task[p].pc = "undoing"
  /\ \/ leases' = leases \ {task[p].lease} /\ UNCHANGED excused
     \/ excused' = excused \cup ({task[p].lease} \cap leases) /\ UNCHANGED leases
  /\ phase' = "error" /\ desk' = NoDesk /\ Return(p)
  /\ UNCHANGED <<queue, rt, tun, stopped, faults>>

(***************************************************************************)
(* connect_with_protocol and connect_locked.                               *)
(***************************************************************************)

(* renew_before_connect_locked: a renewal that is due comes first. *)
RenewFirst(p) == IF Due THEN Ask(p, "connect", TRUE) ELSE Begin(p, FALSE)

StartConnect(p) ==
  /\ Granted(p, "connect")
  /\ IF rt.session = None
       THEN Goto(p, Idle) /\ UNCHANGED <<lock, rt>>
       ELSE /\ lock' = p
            /\ rt' = [rt EXCEPT !.requested = TRUE]
            /\ Goto(p, RenewFirst(p))
  /\ UNCHANGED <<phase, desk, tun, leases, excused, stopped, faults>>

(* connect_locked gives up.  A connect takes the intent back; a reconnect  *)
(* asks the server whether the session still stands.  r is the runtime the *)
(* step leaves, ph the phase.                                              *)
GivesUp(p, r, ph) ==
  IF task[p].re
    THEN /\ Goto(p, Ask(p, "reconnect", Due))
         /\ rt' = r /\ phase' = ph /\ UNCHANGED lock
    ELSE /\ Return(p)
         /\ rt' = [r EXCEPT !.requested = FALSE] /\ phase' = ph

(* finish_cancelled_connection. *)
FinishCancelled(p) ==
  /\ Return(p)
  /\ rt' = [rt EXCEPT !.requested = FALSE]
  /\ phase' = "enrolled"

Trying(p) == IF task[p].re THEN "reconnecting" ELSE "probing"

(* The candidates the selector ranked; none is an error. *)
Ranked(p) ==
  \/ /\ \E n \in 1..MaxAttempts : Goto(p, [At(p, "probing") EXCEPT !.left = n, !.re = task[p].re, !.cut = task[p].cut])
     /\ phase' = Trying(p)
     /\ UNCHANGED <<lock, rt>>
  \/ GivesUp(p, rt, "error")

Subscribe(p) ==
  /\ task[p].pc = "begin"
  /\ IF rt.tunnel = None
       THEN Ranked(p)
       ELSE IF tun[rt.tunnel].view = "connected"
              THEN GivesUp(p, rt, phase)     \* AlreadyConnected
              ELSE /\ Goto(p, StopOf(p, rt.tunnel, "attempt"))
                   /\ rt' = [rt EXCEPT !.tunnel = None]
                   /\ UNCHANGED <<lock, phase>>
  /\ UNCHANGED <<queue, desk, tun, leases, excused, stopped, faults>>

(* A candidate failed: record_failure, then the next one, if any. *)
NextCandidate(p) ==
  IF task[p].left = 1
    THEN GivesUp(p, rt, "error")
    ELSE /\ Goto(p, [task[p] EXCEPT !.pc = "probing", !.left = @ - 1])
         /\ phase' = Trying(p)
         /\ UNCHANGED <<lock, rt>>

(* A probe answers; a failed lookup may be answered from cached_probe.  A  *)
(* cancellation may win over an answer that is ready.                      *)
Probe(p) ==
  /\ task[p].pc = "probing"
  /\ \/ /\ Goto(p, [task[p] EXCEPT !.pc = "connecting"])
        /\ phase' = IF task[p].re THEN "reconnecting" ELSE "connecting"
        /\ UNCHANGED <<lock, rt>>
     \/ NextCandidate(p)
     \/ task[p].cut /\ FinishCancelled(p)
  /\ Sees /\ UNCHANGED tun

(* The service started a tunnel.  One the user gave up on while it started *)
(* is stopped again.                                                       *)
Connected(p) ==
  /\ task[p].pc = "connecting"
  /\ \E t \in Unused :
       /\ tun' = [tun EXCEPT ![t] = Started]
       /\ IF task[p].cut
            THEN Goto(p, StopOf(p, t, "cancelled")) /\ UNCHANGED <<lock, rt, phase>>
            ELSE /\ Return(p) /\ phase' = "connected"
                 /\ rt' = [rt EXCEPT !.tunnel = t]
  /\ Sees

(* It did not, or its answer was lost with the engine running. *)
ConnectFails(p) ==
  /\ task[p].pc = "connecting"
  /\ NextCandidate(p)
  /\ UNCHANGED <<tun, faults>> \/ (StrayStart /\ Fault)
  /\ UNCHANGED <<queue, desk, leases, excused, stopped>>

(* The call is dropped; the service does not hear of it. *)
ConnectDropped(p) ==
  /\ task[p].pc = "connecting" /\ task[p].cut
  /\ FinishCancelled(p)
  /\ UNCHANGED tun \/ StrayStart
  /\ Sees

(***************************************************************************)
(* refresh, renew, maintain_once, verify_after_network_change.             *)
(***************************************************************************)
StartRefresh(p) ==
  /\ \/ Granted(p, "refresh") /\ Goto(p, IF rt.session = None THEN Idle ELSE Ask(p, "refresh", FALSE))
     \/ Granted(p, "renew") /\ Goto(p, IF rt.session = None THEN Idle ELSE Ask(p, "refresh", TRUE))
  /\ lock' = IF rt.session = None THEN None ELSE p
  /\ UNCHANGED <<rt, phase, desk, tun, leases, excused, stopped, faults>>

Lost == rt.tunnel # None /\ tun[rt.tunnel].view # "connected"

StartMaintain(p) ==
  /\ Granted(p, "maintain")
  /\ \/ /\ Lost
        /\ lock' = p
        /\ Goto(p, StopOf(p, rt.tunnel, IF rt.requested THEN "reconnect" ELSE "unrequested"))
        /\ rt' = [rt EXCEPT !.tunnel = None]
     \/ /\ rt.tunnel = None /\ rt.requested
        /\ lock' = p /\ Goto(p, Begin(p, TRUE)) /\ UNCHANGED rt
     \/ /\ ~Lost /\ (rt.tunnel # None \/ ~rt.requested)
        /\ Goto(p, IF rt.session = None THEN Idle ELSE Ask(p, "maintain", Due))
        /\ lock' = IF rt.session = None THEN None ELSE p
        /\ UNCHANGED rt
  /\ UNCHANGED <<phase, desk, tun, leases, excused, stopped, faults>>

StartVerify(p) ==
  /\ Granted(p, "verify")
  /\ IF rt.requested /\ rt.tunnel # None /\ tun[rt.tunnel].net # "offline"
       THEN lock' = p /\ Goto(p, [At(p, "checking") EXCEPT !.after = "verify"])
       ELSE Goto(p, Idle) /\ UNCHANGED lock
  /\ UNCHANGED <<rt, phase, desk, tun, leases, excused, stopped, faults>>

(* apply_status. *)
Applied(renewed) == [rt EXCEPT !.failures = 0, !.age = IF renewed THEN "fresh" ELSE @]

(* What reconnect_locked makes of a refresh that did not end the session:  *)
(* the failed connection is shown (fail); other callers show nothing.      *)
Shown(p) == phase' = IF task[p].after = "reconnect" THEN "error" ELSE phase

(* refresh_locked: the server answers. *)
AnswerOk(p) ==
  /\ task[p].pc = "calling" /\ rt.session \in leases
  /\ rt' = Applied(task[p].renew)
  /\ IF task[p].after = "connect"
       THEN Goto(p, Begin(p, FALSE)) /\ UNCHANGED <<lock, phase>>
       ELSE Return(p) /\ Shown(p)
  /\ Sees /\ UNCHANGED tun

(* A status that does not validate, or an error that ends nothing. *)
AnswerBad(p) ==
  /\ task[p].pc = "calling"
  /\ Return(p)
  /\ rt' = [rt EXCEPT !.requested = @ /\ task[p].after # "connect"]
  /\ Shown(p)
  /\ Sees /\ UNCHANGED tun

Active == rt.requested /\ rt.tunnel # None

(* ClientError::Network.  A connect goes on while the lease has not        *)
(* lapsed; maintenance counts, and from the second failure on checks the   *)
(* route, unless the device is offline.                                    *)
Unreachable(p) ==
  /\ task[p].pc = "calling"
  /\ LET n == IF rt.failures = 2 THEN 2 ELSE rt.failures + 1
     IN CASE task[p].after = "connect" /\ rt.age # "lapsed" ->
               Goto(p, Begin(p, FALSE)) /\ UNCHANGED <<lock, rt, phase>>
          [] task[p].after = "connect" /\ rt.age = "lapsed" ->
               Return(p) /\ rt' = [rt EXCEPT !.requested = FALSE] /\ UNCHANGED phase
          [] task[p].after = "maintain" ->
               /\ rt' = [rt EXCEPT !.failures = n]
               /\ UNCHANGED phase
               /\ IF Active /\ n = 2 /\ tun[rt.tunnel].net # "offline"
                    THEN Goto(p, [At(p, "checking") EXCEPT !.after = "maintain"]) /\ UNCHANGED lock
                    ELSE Return(p)
          [] OTHER -> Return(p) /\ Shown(p) /\ UNCHANGED rt
  /\ Sees /\ UNCHANGED tun

(* The route health probe.  Unhealthy: the tunnel is taken out and stopped.*)
Checked(p) ==
  /\ task[p].pc = "checking"
  /\ \/ Return(p) /\ UNCHANGED rt
     \/ /\ Goto(p, StopOf(p, rt.tunnel, "reconnect"))
        /\ rt' = [rt EXCEPT !.tunnel = None, !.failures = IF task[p].after = "maintain" THEN 0 ELSE @]
        /\ UNCHANGED lock
  /\ Sees /\ UNCHANGED <<phase, tun>>

(* The session is forgotten and the phase shows why. *)
EndSession(p) ==
  /\ Return(p)
  /\ rt' = NewRuntime
  /\ phase' = "error"

(* Mutation: the session is forgotten before the tunnel is stopped. *)
AnswerEndsAtOnce(p) ==
  /\ task[p].pc = "calling"
  /\ excused' = excused \cup ({rt.session} \cap leases)
  /\ IF rt.tunnel = None
       THEN EndSession(p)
       ELSE /\ Goto(p, StopOf(p, rt.tunnel, "ended"))
            /\ rt' = NewRuntime
            /\ UNCHANGED <<lock, phase>>
  /\ UNCHANGED <<queue, desk, tun, leases, stopped, faults>>

(* 401, 404, or this version of the app is refused: the tunnel goes first. *)
AnswerEnds(p) ==
  /\ task[p].pc = "calling"
  /\ excused' = excused \cup ({rt.session} \cap leases)
  /\ IF rt.tunnel = None
       THEN EndSession(p)
       ELSE /\ Goto(p, StopOf(p, rt.tunnel, "ended"))
            /\ rt' = [rt EXCEPT !.requested = FALSE, !.tunnel = None]
            /\ UNCHANGED <<lock, phase>>
  /\ UNCHANGED <<queue, desk, tun, leases, stopped, faults>>

(***************************************************************************)
(* stop_tunnel and disconnect.                                             *)
(***************************************************************************)

(* Nobody asked to connect since. *)
Quiet(p) == \A q \in Task \ {p} : task[q].op # "connect"

(* Mutation: the intent to stay connected outlives the stop. *)
StartStopKeepingIntent(p) ==
  /\ Granted(p, "stop")
  /\ rt' = [rt EXCEPT !.failures = 0, !.tunnel = None]
  /\ IF rt.tunnel = None
       THEN Goto(p, Idle) /\ AtRest /\ stopped' = Quiet(p) /\ UNCHANGED lock
       ELSE /\ lock' = p /\ Goto(p, StopOf(p, rt.tunnel, "stopped"))
            /\ phase' = "disconnecting" /\ UNCHANGED stopped
  /\ UNCHANGED <<desk, tun, leases, excused, faults>>

StartStop(p) ==
  /\ Granted(p, "stop")
  /\ rt' = [rt EXCEPT !.requested = FALSE, !.failures = 0, !.tunnel = None]
  /\ IF rt.tunnel = None
       THEN Goto(p, Idle) /\ AtRest /\ stopped' = Quiet(p) /\ UNCHANGED lock
       ELSE /\ lock' = p /\ Goto(p, StopOf(p, rt.tunnel, "stopped"))
            /\ phase' = "disconnecting" /\ UNCHANGED stopped
  /\ UNCHANGED <<desk, tun, leases, excused, faults>>

(* retire_current_session after disconnect: the client is dropped, and     *)
(* enroll goes on with a new one, or the client is kept and its            *)
(* maintenance starts again.  At the exit the app goes either way.         *)
Dropped(p) ==
  /\ lock' = None
  /\ IF task[p].op = "enroll"
       THEN Goto(p, [Idle EXCEPT !.op = "enroll", !.pc = "new"]) /\ UNCHANGED desk
       ELSE Goto(p, [Idle EXCEPT !.pc = IF task[p].op = "exit" THEN "exiting" ELSE "idle"]) /\ desk' = NoDesk

Kept(p) ==
  /\ lock' = None
  /\ IF task[p].op = "exit"
       THEN Goto(p, [Idle EXCEPT !.pc = "exiting"]) /\ UNCHANGED desk
       ELSE Configured(p)

StartDisconnect(p) ==
  /\ \E o \in {"enroll", "forget", "exit"} : Granted(p, o)
  /\ rt' = [rt EXCEPT !.requested = FALSE, !.tunnel = None]
  /\ CASE rt.tunnel # None ->
            /\ lock' = p /\ Goto(p, StopOf(p, rt.tunnel, "release"))
            /\ phase' = "disconnecting" /\ UNCHANGED <<desk, stopped>>
       [] rt.tunnel = None /\ rt.session # None ->
            /\ lock' = p /\ Goto(p, At(p, "releasing"))
            /\ phase' = "disconnecting" /\ UNCHANGED <<desk, stopped>>
       [] OTHER -> Dropped(p) /\ phase' = "disconnected" /\ stopped' = Quiet(p)
  /\ UNCHANGED <<tun, leases, excused, faults>>

(* release_session: done, or the server no longer knows the session. *)
Released(p) ==
  /\ task[p].pc = "releasing"
  /\ leases' = leases \ {rt.session}
  /\ rt' = NewRuntime /\ phase' = "disconnected"
  /\ Dropped(p) /\ stopped' = Quiet(p)
  /\ UNCHANGED <<queue, tun, excused, faults>>

(* Any other answer keeps the session; the server may have released it. *)
ReleaseFails(p) ==
  /\ task[p].pc = "releasing" /\ Fault
  /\ leases' \in {leases, leases \ {rt.session}}
  /\ phase' = "error" /\ Kept(p)
  /\ UNCHANGED <<queue, rt, tun, excused, stopped>>

(***************************************************************************)
(* ActiveTunnel::stop of a broker tunnel, and stop_and_retain_on_failure.  *)
(***************************************************************************)

(* The stop succeeded: the operation goes on. *)
AfterStop(p) ==
  LET a == task[p].after
  IN CASE a = "attempt" -> Ranked(p) /\ UNCHANGED <<desk, stopped>>
          [] a = "cancelled" -> FinishCancelled(p) /\ UNCHANGED <<desk, stopped>>
          [] a = "ended" -> EndSession(p) /\ UNCHANGED <<desk, stopped>>
          [] a = "reconnect" ->
               Goto(p, Begin(p, TRUE)) /\ UNCHANGED <<lock, rt, phase, desk, stopped>>
          [] a = "stopped" -> Return(p) /\ AtRest /\ stopped' = Quiet(p) /\ UNCHANGED <<rt, desk>>
          [] a = "unrequested" ->
               /\ AtRest
               /\ IF rt.session = None
                    THEN Return(p)
                    ELSE Goto(p, Ask(p, "maintain", Due)) /\ UNCHANGED lock
               /\ UNCHANGED <<rt, desk, stopped>>
          [] a = "release" ->
               IF rt.session = None
                 THEN Dropped(p) /\ phase' = "disconnected" /\ stopped' = Quiet(p) /\ UNCHANGED rt
                 ELSE Goto(p, At(p, "releasing")) /\ UNCHANGED <<lock, rt, phase, desk, stopped>>

(* It failed: the tunnel goes back into the runtime, with its handle. *)
Retain(p) ==
  LET a == task[p].after
      r == [rt EXCEPT !.tunnel = IF @ = None THEN task[p].tun ELSE @]
  IN /\ UNCHANGED stopped
     /\ CASE a = "attempt" -> GivesUp(p, r, phase) /\ UNCHANGED desk
          [] a = "cancelled" -> GivesUp(p, r, "error") /\ UNCHANGED desk
          [] a = "release" -> Kept(p) /\ rt' = r /\ phase' = "error"
          [] a \in {"ended", "stopped"} -> Return(p) /\ rt' = r /\ phase' = "error" /\ UNCHANGED desk
          [] OTHER -> Return(p) /\ rt' = r /\ UNCHANGED <<phase, desk>>

(* stop_remote as seen by the caller: Stopped only when the engine is down *)
(* (or was unknown); otherwise an error that leaves it running or not.  ch *)
(* is what else the step does to the tunnel.                               *)
RemoteStops(t, ch) ==
  tun' = [tun EXCEPT ![t] = [ch EXCEPT !.engine = "down"]] /\ UNCHANGED faults

(* The handle goes after a stop that succeeded; a monitor that still runs  *)
(* finds the channel closed.                                               *)
Let(t) == IF tun[t].mon \in {"watching", "ending"} THEN tun[t] ELSE NoTunnel
RemoteFails(t, ch) ==
  /\ Fault
  /\ \E e \in {tun[t].engine, "down"} : tun' = [tun EXCEPT ![t] = [ch EXCEPT !.engine = e]]

StopKeeps == UNCHANGED <<queue, leases, excused>>

(* Mutation: the wait for the monitor's answer has no time limit. *)
StopRemoteUntimed(p) ==
  LET t == task[p].tun
  IN /\ task[p].pc = "stopping" /\ tun[t].view # "connected"
     /\ \/ RemoteStops(t, Let(t)) /\ AfterStop(p)
        \/ RemoteFails(t, tun[t]) /\ Retain(p)
     /\ StopKeeps

(* A handle whose status is no longer Connected, a monitor that ended      *)
(* without an answer, or one that did not answer in time: the stop goes to *)
(* the service directly.                                                   *)
StopRemote(p) ==
  LET t == task[p].tun
  IN /\ \/ task[p].pc = "stopping" /\ tun[t].view # "connected"
        \/ task[p].pc = "ordered" /\ tun[t].answer = "none"
     /\ \/ RemoteStops(t, Let(t)) /\ AfterStop(p)
        \/ RemoteFails(t, tun[t]) /\ Retain(p)
     /\ StopKeeps

(* The stop is sent to the monitor; the channel holds one command. *)
StopOrdered(p) ==
  LET t == task[p].tun
  IN /\ task[p].pc = "stopping" /\ tun[t].view = "connected" /\ ~tun[t].order
     /\ tun' = [tun EXCEPT ![t].order = TRUE]
     /\ Goto(p, [task[p] EXCEPT !.pc = "ordered"])
     /\ StopKeeps /\ UNCHANGED <<lock, rt, phase, desk, stopped, faults>>

StopAnswered(p) ==
  LET t == task[p].tun
  IN /\ task[p].pc = "ordered"
     /\ \/ tun[t].answer = "ok" /\ AfterStop(p) /\ tun' = [tun EXCEPT ![t] = Let(t)]
        \/ tun[t].answer = "error" /\ Retain(p) /\ UNCHANGED tun
     /\ StopKeeps /\ UNCHANGED faults

(***************************************************************************)
(* monitor_tunnel.                                                         *)
(***************************************************************************)
Beside == UNCHANGED <<task, lock, queue, rt, phase, desk, leases, excused, stopped>>

Heartbeat(t) ==
  /\ tun[t].mon = "watching" /\ tun[t].engine = "up"
  /\ \E n \in {"same", "moved", "offline"} :
       /\ n = "same" => tun[t].net # "moved"
       /\ tun' = [tun EXCEPT ![t].net = n]
  /\ Beside /\ UNCHANGED faults

(* The service shows another status or answers out of turn, or a third     *)
(* call in a row failed (the first two change nothing): the monitor stops  *)
(* what may be left and publishes the end.                                 *)
HeartbeatEnds(t) ==
  /\ tun[t].mon = "watching"
  /\ tun' = [tun EXCEPT ![t].mon = "ending", ![t].net = "same"]
  /\ Beside /\ UNCHANGED faults

(* Mutation: the monitor ends without publishing it. *)
MonitorEndsQuietly(t) ==
  /\ tun[t].mon = "ending"
  /\ LET over == IF Held(t) THEN [tun[t] EXCEPT !.mon = "done"] ELSE NoTunnel
     IN RemoteStops(t, over) \/ RemoteFails(t, over)
  /\ Beside

MonitorEnds(t) ==
  /\ tun[t].mon = "ending"
  /\ LET over == IF Held(t) THEN [tun[t] EXCEPT !.mon = "done", !.view = "failed"] ELSE NoTunnel
     IN RemoteStops(t, over) \/ RemoteFails(t, over)
  /\ Beside

(* Mutation: a closed channel is not a command to stop. *)
MonitorStopsOnCommand(t) ==
  /\ tun[t].mon = "watching" /\ tun[t].order
  /\ LET over(v, a) == IF Held(t) THEN [NoTunnel EXCEPT !.mon = "done", !.view = v, !.answer = a] ELSE NoTunnel
     IN RemoteStops(t, over("stopped", "ok")) \/ RemoteFails(t, over("failed", "error"))
  /\ Beside

(* A Stop command, or the handle is gone. *)
MonitorStops(t) ==
  /\ tun[t].mon = "watching" /\ (tun[t].order \/ ~Held(t))
  /\ LET over(v, a) == IF Held(t) THEN [NoTunnel EXCEPT !.mon = "done", !.view = v, !.answer = a] ELSE NoTunnel
     IN RemoteStops(t, over("stopped", "ok")) \/ RemoteFails(t, over("failed", "error"))
  /\ Beside

(***************************************************************************)
(* The service, the server and the clock.                                  *)
(***************************************************************************)
EngineFails(t) ==
  /\ tun[t].engine = "up"
  /\ tun' = [tun EXCEPT ![t].engine = "down"]
  /\ Beside /\ UNCHANGED faults

(* A tunnel without heartbeats runs out its lease (TunnelBroker). *)
Reap(t) ==
  /\ tun[t].engine = "up" /\ tun[t].mon \in {"none", "done"}
  /\ tun' = [tun EXCEPT ![t].engine = "down"]
  /\ Beside /\ UNCHANGED faults

LeaseEnds(l) ==
  /\ l \in leases
  /\ leases' = leases \ {l} /\ excused' = excused \ {l}
  /\ UNCHANGED <<task, lock, queue, rt, phase, desk, tun, stopped, faults>>

TimePasses ==
  /\ rt.session # None /\ rt.age # "lapsed"
  /\ rt' = [rt EXCEPT !.age = IF @ = "fresh" THEN "due" ELSE "lapsed"]
  /\ UNCHANGED <<task, lock, queue, phase, desk, tun, leases, excused, stopped, faults>>

(* The process is gone, by the end of the exit, its time limit or a crash, *)
(* and starts again knowing nothing.                                       *)
AppGone ==
  /\ \/ \E p \in Command : (task[p].op = "exit" \/ task[p].pc = "exiting") /\ UNCHANGED faults
     \/ Fault
  /\ task' = [p \in Task |-> IF p = Maintenance THEN Off ELSE Idle]
  /\ lock' = None /\ queue' = <<>>
  /\ rt' = NewRuntime /\ phase' = "disconnected"
  /\ desk' = NoDesk
  /\ tun' = [t \in Tunnel |-> IF tun[t].engine = "up" THEN Unclaimed ELSE NoTunnel]
  /\ excused' = leases
  /\ UNCHANGED <<leases, stopped>>

Request(p) ==
  \/ CallConnect(p) \/ CallRefresh(p) \/ CallStop(p)
  \/ \E o \in {"enroll", "forget"} : Retire(p, o)
  \/ Exit(p)

(* What a task does once it is under way. *)
Proceed(p) ==
  \/ Retiring(p) \/ Enrolling(p) \/ Enrolled(p) \/ EnrollFails(p) \/ ManifestInvalid(p) \/ Undone(p)
  \/ StartConnect(p) \/ Subscribe(p) \/ Probe(p) \/ Connected(p) \/ ConnectFails(p) \/ ConnectDropped(p)
  \/ StartRefresh(p) \/ StartMaintain(p) \/ StartVerify(p)
  \/ AnswerOk(p) \/ AnswerBad(p) \/ Unreachable(p) \/ Checked(p) \/ AnswerEnds(p)
  \/ StartStop(p) \/ StartDisconnect(p) \/ Released(p) \/ ReleaseFails(p)
  \/ StopRemote(p) \/ StopOrdered(p) \/ StopAnswered(p)

Monitor(t) == Heartbeat(t) \/ HeartbeatEnds(t) \/ MonitorEnds(t) \/ MonitorStops(t)

Next ==
  \/ \E p \in Command : Request(p)
  \/ MaintenanceEnds \/ Tick \/ NetworkTick
  \/ \E p \in Task : Proceed(p)
  \/ \E t \in Tunnel : Monitor(t) \/ EngineFails(t) \/ Reap(t)
  \/ \E l \in Lease : LeaseEnds(l)
  \/ TimePasses \/ AppGone

Spec == Init /\ [][Next]_vars

(* Every call has a timeout, so a task under way goes on; tokio's select   *)
(* picks among ready branches at random, so neither the shutdown signal of *)
(* the maintenance task nor a monitor's command is passed over forever.    *)
Fairness ==
  /\ \A p \in Task : WF_vars(Proceed(p))
  /\ SF_vars(MaintenanceEnds) /\ SF_vars(Tick)
  /\ \A t \in Tunnel : /\ WF_vars(HeartbeatEnds(t) /\ tun[t].engine = "down")
                        /\ WF_vars(MonitorEnds(t)) /\ SF_vars(MonitorStops(t))
                        /\ WF_vars(Reap(t))

FairSpec == Spec /\ Fairness

(***************************************************************************)
(* Properties.                                                             *)
(***************************************************************************)
Op == {"none", "connect", "refresh", "renew", "stop", "enroll", "forget", "exit", "maintain", "verify"}
Pc == {"idle", "off", "waiting", "retiring", "new", "creating", "undoing", "begin", "probing", "connecting",
       "calling", "checking", "stopping", "ordered", "releasing", "exiting"}
After == {"none", "connect", "refresh", "maintain", "verify", "reconnect", "attempt", "cancelled", "ended",
          "stopped", "unrequested", "release"}
TaskState == [op : Op, pc : Pc, after : After, re : BOOLEAN, renew : BOOLEAN, left : 0..MaxAttempts,
              cut : BOOLEAN, tun : Tunnel \cup {None}, lease : Lease \cup {None}]
TunnelState == [engine : {"up", "down"}, view : {"none", "connected", "stopped", "failed"},
                mon : {"none", "watching", "ending", "done"}, order : BOOLEAN,
                answer : {"none", "ok", "error"}, net : {"same", "moved", "offline"}]

Runtime == [session : Lease \cup {None}, age : {"fresh", "due", "lapsed"}, failures : 0..2,
            tunnel : Tunnel \cup {None}, requested : BOOLEAN]
Phase == {"disconnected", "enrolling", "enrolled", "probing", "connecting", "connected",
          "reconnecting", "disconnecting", "error"}

(* The types of the variables (RuntimeState, ClientPhase, BrokerTunnel),   *)
(* and the mutex: only its holder is past the wait for it.                 *)
TypeOK ==
  /\ task \in [Task -> TaskState]
  /\ lock \in Task \cup {None} /\ queue \in Seq(Task)
  /\ rt \in Runtime /\ phase \in Phase
  /\ stopped \in BOOLEAN /\ faults \in 0..MaxFaults
  /\ desk \in [configured : BOOLEAN, lifecycle : Command \cup {None}, ending : BOOLEAN]
  /\ tun \in [Tunnel -> TunnelState]
  /\ leases \subseteq Lease /\ excused \subseteq Lease
  /\ \A p \in Task :
       task[p].pc \notin {"idle", "off", "waiting", "retiring", "new", "exiting"} => lock = p

(* What the app shows when no operation runs is what the client has: no    *)
(* passing phase is left behind by a failure or a cancellation, a tunnel   *)
(* still in the runtime (one that could not be stopped included) is never  *)
(* shown as Enrolled or Disconnected, and Connected means there is one.    *)
SnapshotIsTrue ==
  lock = None /\ desk.configured =>
    /\ phase \in {"disconnected", "enrolled", "connected", "error"}
    /\ phase = "connected" => rt.tunnel # None
    /\ phase = "enrolled" => rt.session # None /\ rt.tunnel = None
    /\ phase = "disconnected" => rt.session = None /\ rt.tunnel = None

(* The session outlives every tunnel: neither disconnect nor the server's  *)
(* refusal clears it while a tunnel is still to be stopped.                *)
SessionOutlivesTunnel ==
  rt.tunnel # None \/ (\E p \in Task : task[p].tun # None) => rt.session # None

(* A lease live at the server is the client's session, is in the hands of  *)
(* the enrollment that undoes it, or was lost by an answer that never came.*)
LeaseIsHeld ==
  \A l \in leases : l = rt.session \/ l \in excused \/ \E p \in Task : task[p].lease = l

(* The client's account of itself is consistent: types and mutex, what is  *)
(* shown, the session under the tunnel and the lease behind the session.   *)
ClientIsConsistent ==
  TypeOK /\ SnapshotIsTrue /\ SessionOutlivesTunnel /\ LeaseIsHeld

(* After a stop_tunnel or a forget that succeeded the client has no tunnel *)
(* and brings none up, whatever maintenance was doing meanwhile, until the *)
(* user asks to connect.                                                   *)
StoppedStaysStopped ==
  stopped => /\ rt.tunnel = None /\ ~rt.requested
             /\ \A p \in Task : task[p].pc \notin {"begin", "probing", "connecting"}

(* stop_tunnel and forget come back, past any attempt under way, any       *)
(* monitor that does not answer and the maintenance task forget waits for. *)
StopReturns ==
  \A p \in Command : task[p].op \in {"stop", "forget"} ~> task[p].op \notin {"stop", "forget"}

(* An engine whose handle is gone (a dropped maintenance task, a cancelled *)
(* connect, a crash) does not run on.                                      *)
StrayEngineGoes ==
  \A t \in Tunnel : tun[t].engine = "up" /\ ~Held(t) ~> tun[t].engine = "down" \/ Held(t)

(* A wanted tunnel whose engine is gone does not stay the client's tunnel. *)
LostTunnelIsReplaced ==
  \A t \in Tunnel :
    rt.requested /\ rt.tunnel = t /\ tun[t].engine = "down" ~> rt.tunnel # t \/ ~rt.requested
=============================================================================
