---------------------------- MODULE ClientProofs ----------------------------
(***************************************************************************)
(* The invariant of the client, and that it is kept by the requests, by    *)
(* the desktop that takes its session away, and by what runs beside the    *)
(* operations: the tunnel, the leases at the server and the clock.         *)
(***************************************************************************)
EXTENDS Client, TLAPS

-----------------------------------------------------------------------------
(* The inductive invariant. *)

(* Past the wait for the operation mutex. *)
Inside == {"creating", "undoing", "begin", "probing", "connecting", "calling", "checking",
           "stopping", "ordered", "releasing"}
InStop == {"stopping", "ordered"}

(* What a stop may be part of. *)
Stopping == {"attempt", "cancelled", "ended", "reconnect", "stopped", "unrequested", "release"}

(* The commands that end the session or start one. *)
Lifecycle == {"enroll", "forget", "exit"}

(* What a task's record says by itself. *)
Sane(k) ==
  /\ k.tun # None <=> k.pc \in InStop
  /\ k.lease # None => k.pc = "undoing"
  /\ k.pc \in {"idle", "off", "exiting"} => k.op = "none"
  /\ k.pc \in {"retiring", "new", "creating", "undoing", "releasing"} => k.op \in Lifecycle
  /\ k.pc \in InStop => k.after \in Stopping
  /\ k.pc \in InStop /\ k.after = "release" => k.op \in Lifecycle
  /\ k.pc = "calling" /\ k.after = "connect" => k.op = "connect"
  /\ k.pc \in {"probing", "connecting"} => k.left # 0

(* A phase that may stand when no operation runs. *)
Settled(r, ph) ==
  /\ ph \in {"disconnected", "enrolled", "connected", "error"}
  /\ ph = "connected" => r.tunnel # None
  /\ ph = "enrolled" => r.session # None /\ r.tunnel = None
  /\ ph = "disconnected" => r.session = None /\ r.tunnel = None

(* The places where an operation may still return without a word: it has   *)
(* shown nothing yet.                                                      *)
Silent(k) ==
  \/ k.pc = "checking"
  \/ k.pc = "calling" /\ k.after # "reconnect"
  \/ k.pc = "begin" /\ ~k.re

(* A stop that may fail without a word, and puts the tunnel back. *)
SilentStop(k) ==
  k.pc \in InStop /\ (k.after \in {"reconnect", "unrequested"} \/ (k.after = "attempt" /\ ~k.re))

(* What a task relies on while it holds the mutex. *)
Fits(k, r, ph, d, ls, ex) ==
  /\ k.pc \in {"begin", "probing", "connecting", "calling", "checking", "releasing"} \cup InStop =>
       r.session # None
  /\ k.pc \in {"probing", "connecting"} \cup InStop => r.tunnel = None
  /\ k.pc = "checking" => r.tunnel # None
  /\ k.pc \in {"new", "creating", "undoing"} => r.session = None
  /\ k.pc \in InStop /\ k.after = "ended" => r.session \notin ls \ ex
  /\ k.pc \in InStop /\ k.after = "stopped" => ~r.requested
  /\ d.configured /\ Silent(k) => Settled(r, ph)
  /\ d.configured /\ SilentStop(k) => ph \in {"connected", "error"}

QueueInv ==
  /\ \A i \in DOMAIN queue : task[queue[i]].pc = "waiting"
  /\ \A i, j \in DOMAIN queue : queue[i] = queue[j] => i = j

TasksInv ==
  \A p \in Task : Sane(task[p]) /\ Fits(task[p], rt, phase, desk, leases, excused)

RuntimeInv == rt.tunnel # None \/ rt.requested => rt.session # None

(* One command at a time changes the desktop's session, and only once the  *)
(* maintenance task is gone; without a session there is no lease.          *)
DeskInv ==
  /\ \A p \in Task : task[p].op \in Lifecycle =>
       /\ desk.lifecycle = p /\ ~desk.configured
       /\ task[p].pc # "retiring" => ~desk.ending
  /\ desk.lifecycle = None => ~desk.ending
  /\ desk.configured => desk.lifecycle = None
  /\ task[Maintenance].pc = "off" <=> (~desk.configured /\ ~desk.ending)
  /\ ~desk.configured /\ desk.lifecycle = None => rt.session = None

(* After a stop nothing is under way that would bring a tunnel up or has   *)
(* one in hand, and no connect was asked for.                              *)
StoppedInv ==
  stopped =>
    /\ rt.tunnel = None /\ ~rt.requested
    /\ \A p \in Task : /\ task[p].op # "connect"
                       /\ task[p].pc \notin {"begin", "probing", "connecting", "checking"} \cup InStop

ClientInv ==
  /\ TypeOK
  /\ QueueInv
  /\ TasksInv
  /\ RuntimeInv
  /\ DeskInv
  /\ StoppedInv
  /\ SnapshotIsTrue
  /\ LeaseIsHeld

-----------------------------------------------------------------------------
(* Records.  What the steps put in a task's place, and what they leave in   *)
(* the runtime.                                                             *)

(* The record k, of an operation o at pc, has nothing in hand. *)
Plain(k, o, pc) ==
  k \in TaskState /\ k.op = o /\ k.pc = pc /\ k.tun = None /\ k.lease = None

\* No candidate left is a number of candidates.
LEMMA NothingLeft == 0 \in 0..MaxAttempts
  BY ClientAssumption

(* The names of the operations and the places they pass. *)
LEMMA Names ==
  /\ "none" \in Op /\ "connect" \in Op /\ "refresh" \in Op /\ "renew" \in Op /\ "stop" \in Op
  /\ "enroll" \in Op /\ "forget" \in Op /\ "exit" \in Op /\ "maintain" \in Op /\ "verify" \in Op
  /\ "idle" \in Pc /\ "off" \in Pc /\ "waiting" \in Pc /\ "retiring" \in Pc /\ "new" \in Pc
  /\ "creating" \in Pc /\ "undoing" \in Pc /\ "begin" \in Pc /\ "probing" \in Pc /\ "connecting" \in Pc
  /\ "calling" \in Pc /\ "checking" \in Pc /\ "stopping" \in Pc /\ "ordered" \in Pc
  /\ "releasing" \in Pc /\ "exiting" \in Pc
  /\ "none" \in After /\ "connect" \in After /\ "refresh" \in After /\ "maintain" \in After
  /\ "verify" \in After /\ "reconnect" \in After /\ "attempt" \in After /\ "cancelled" \in After
  /\ "ended" \in After /\ "stopped" \in After /\ "unrequested" \in After /\ "release" \in After
  BY Zenon DEF Op, Pc, After

\* A task that is idle, off or waiting holds no tunnel and no lease.
LEMMA IdleRecords ==
  /\ Plain(Idle, "none", "idle") /\ Plain(Off, "none", "off")
  /\ \A c \in Pc : Plain([Idle EXCEPT !.pc = c], "none", c)
  /\ \A o \in Op : Plain(Waiting(o), o, "waiting")
  /\ \A o \in Op, c \in Pc : Plain([Idle EXCEPT !.op = o, !.pc = c], o, c)
  <1>2. Idle \in TaskState
    BY Names, NothingLeft, Zenon DEF Idle, TaskState
  <1>3. Idle.op = "none" /\ Idle.pc = "idle" /\ Idle.tun = None /\ Idle.lease = None
    BY Zenon DEF Idle
  <1>4. \A c \in Pc : Plain([Idle EXCEPT !.pc = c], "none", c)
    BY <1>2, <1>3, Zenon DEF Plain, TaskState
  <1>5. ASSUME NEW o \in Op, NEW c \in Pc
        PROVE  Plain([Idle EXCEPT !.op = o, !.pc = c], o, c)
    <2>1. PICK k \in TaskState : k = Idle
      BY <1>2, Zenon
    <2>2. [k EXCEPT !.op = o, !.pc = c] \in TaskState
      BY Zenon DEF TaskState
    <2> QED BY <1>3, <2>1, <2>2, Zenon DEF Plain, TaskState
  <1>6. \A o \in Op : Plain(Waiting(o), o, "waiting")
    BY <1>5, Names, Zenon DEF Waiting
  <1>7. Plain(Idle, "none", "idle")
    BY <1>2, <1>3, Zenon DEF Plain
  <1>8. Plain(Off, "none", "off")
    BY <1>4, Names, Zenon DEF Off
  <1> QED BY <1>4, <1>5, <1>6, <1>7, <1>8, Names, Zenon

\* A task that moves to another point of its operation.
LEMMA AtRecord ==
  ASSUME TypeOK, NEW p \in Task, NEW pc \in Pc
  PROVE  Plain(At(p, pc), task[p].op, pc)
  <1>1. task[p].op \in Op
    BY Zenon DEF TypeOK, TaskState
  <1> QED BY <1>1, IdleRecords, Zenon DEF At

\* A task that checks its connection before it goes on.
LEMMA CheckRecord ==
  ASSUME TypeOK, NEW p \in Task, NEW a \in After
  PROVE  Plain([At(p, "checking") EXCEPT !.after = a], task[p].op, "checking")
  BY AtRecord, Names DEF Plain, TaskState

\* A task that gives back the lease whose manifest it refused.
LEMMA UndoRecord ==
  ASSUME TypeOK, NEW p \in Task, NEW l \in Lease
  PROVE  LET k == [At(p, "undoing") EXCEPT !.lease = l]
         IN k \in TaskState /\ k.op = task[p].op /\ k.pc = "undoing" /\ k.tun = None /\ k.lease = l
  BY AtRecord, Names DEF Plain, TaskState

\* A task that asks the control API.
LEMMA AskRecord ==
  ASSUME TypeOK, NEW p \in Task, NEW a \in After, NEW b \in BOOLEAN
  PROVE  Plain(Ask(p, a, b), task[p].op, "calling") /\ Ask(p, a, b).after = a
  <1>1. Plain(At(p, "calling"), task[p].op, "calling")
    BY AtRecord, Names, Zenon
  <1>2. Ask(p, a, b) \in TaskState
    BY <1>1, Zenon DEF Ask, Plain, TaskState
  <1> QED BY <1>1, <1>2, Zenon DEF Ask, Plain, TaskState

\* A task that begins an attempt to connect.
LEMMA BeginRecord ==
  ASSUME TypeOK, NEW p \in Task, NEW b \in BOOLEAN
  PROVE  Plain(Begin(p, b), task[p].op, "begin") /\ (Begin(p, b).re <=> b)
  <1>1. Plain(At(p, "begin"), task[p].op, "begin")
    BY AtRecord, Names, Zenon
  <1>2. Begin(p, b) \in TaskState
    BY <1>1, Zenon DEF Begin, Plain, TaskState
  <1> QED BY <1>1, <1>2, Zenon DEF Begin, Plain, TaskState

\* A task that probes its candidates.
LEMMA ProbeRecord ==
  ASSUME TypeOK, NEW p \in Task, NEW n \in 1..MaxAttempts
  PROVE  LET k == [At(p, "probing") EXCEPT !.left = n, !.re = task[p].re, !.cut = task[p].cut]
         IN Plain(k, task[p].op, "probing") /\ k.left # 0
  <1>1. Plain(At(p, "probing"), task[p].op, "probing") /\ n \in 0..MaxAttempts
    BY AtRecord, Names, ClientAssumption
  <1>2. task[p] \in TaskState
    BY Zenon DEF TypeOK
  <1>3. [At(p, "probing") EXCEPT !.left = n, !.re = task[p].re, !.cut = task[p].cut] \in TaskState
    BY <1>1, <1>2, Zenon DEF Plain, TaskState
  <1> QED BY <1>1, <1>3 DEF Plain, TaskState

\* A task that dials a candidate, and one that goes on to the next.
LEMMA NextRecord ==
  ASSUME TypeOK, NEW p \in Task, task[p].pc \in {"probing", "connecting"}, Sane(task[p])
  PROVE  /\ Plain([task[p] EXCEPT !.pc = "connecting"], task[p].op, "connecting")
         /\ [task[p] EXCEPT !.pc = "connecting"].left # 0
         /\ task[p].left # 1 =>
              /\ Plain([task[p] EXCEPT !.pc = "probing", !.left = @ - 1], task[p].op, "probing")
              /\ [task[p] EXCEPT !.pc = "probing", !.left = @ - 1].left # 0
  <1>1. task[p] \in TaskState /\ task[p].tun = None /\ task[p].lease = None /\ task[p].left # 0
    BY Zenon DEF TypeOK, Sane, InStop
  <1>2. task[p].left # 1 => task[p].left - 1 \in 0..MaxAttempts /\ task[p].left - 1 # 0
    BY <1>1, ClientAssumption DEF TaskState
  <1>3. /\ Plain([task[p] EXCEPT !.pc = "connecting"], task[p].op, "connecting")
        /\ [task[p] EXCEPT !.pc = "connecting"].left # 0
    BY <1>1, Names, Zenon DEF Plain, TaskState
  <1>4. ASSUME task[p].left # 1
        PROVE  /\ Plain([task[p] EXCEPT !.pc = "probing", !.left = @ - 1], task[p].op, "probing")
               /\ [task[p] EXCEPT !.pc = "probing", !.left = @ - 1].left # 0
    BY <1>1, <1>2, <1>4, Names, Zenon DEF Plain, TaskState
  <1> QED BY <1>3, <1>4, Zenon

(* A stop of t that is part of a. *)
Stops(k, o, pc, t, a) ==
  k \in TaskState /\ k.op = o /\ k.pc = pc /\ k.tun = t /\ k.lease = None /\ k.after = a

\* A task that stops a tunnel keeps that tunnel and what follows.
LEMMA StopRecord ==
  ASSUME TypeOK, NEW p \in Task, NEW t \in Tunnel, NEW a \in After
  PROVE  /\ Stops(StopOf(p, t, a), task[p].op, "stopping", t, a)
         /\ StopOf(p, t, a).re = task[p].re
  <1>1. Plain(At(p, "stopping"), task[p].op, "stopping")
    BY AtRecord, Names, Zenon
  <1>2. task[p] \in TaskState
    BY Zenon DEF TypeOK
  <1>3. StopOf(p, t, a) \in TaskState
    BY <1>1, <1>2, Zenon DEF Plain, StopOf, TaskState
  <1> QED BY <1>1, <1>3, Zenon DEF Plain, Stops, StopOf, TaskState

\* A stop that was ordered is still the stop of the same tunnel.
LEMMA OrderedRecord ==
  ASSUME TypeOK, NEW p \in Task, Sane(task[p]), task[p].pc = "stopping"
  PROVE  /\ Stops([task[p] EXCEPT !.pc = "ordered"], task[p].op, "ordered", task[p].tun, task[p].after)
         /\ [task[p] EXCEPT !.pc = "ordered"].re = task[p].re
  <1>1. task[p] \in TaskState /\ task[p].lease = None
    BY Zenon DEF TypeOK, Sane
  <1> QED BY <1>1, Names, Zenon DEF Stops, TaskState

\* A cancelled connect is the same task in everything else.
LEMMA CutRecord ==
  ASSUME NEW k \in TaskState
  PROVE  /\ [k EXCEPT !.cut = TRUE] \in TaskState
         /\ \A c : c = [k EXCEPT !.cut = TRUE] =>
              /\ c.op = k.op /\ c.pc = k.pc /\ c.after = k.after /\ c.re = k.re
              /\ c.tun = k.tun /\ c.lease = k.lease /\ c.left = k.left
  <1>1. [k EXCEPT !.cut = TRUE] \in TaskState
    BY Zenon DEF TaskState
  <1> QED BY <1>1, Zenon DEF TaskState

(* The runtime n is r with this session and this tunnel, and no connect    *)
(* asked for that was not before.                                          *)
Like(n, r, s, t) ==
  n \in Runtime /\ n.session = s /\ n.tunnel = t /\ (n.requested => r.requested)

\* A new runtime has no session and no tunnel, and nobody asked for one.
LEMMA EmptyRuntime ==
  /\ NewRuntime \in Runtime
  /\ NewRuntime.session = None /\ NewRuntime.tunnel = None /\ ~NewRuntime.requested
  <1>1. 0 \in 0..2 /\ FALSE \in BOOLEAN /\ "fresh" \in {"fresh", "due", "lapsed"}
    OBVIOUS
  <1>2. NewRuntime \in Runtime
    BY <1>1, Zenon DEF NewRuntime, Runtime
  <1>3. NewRuntime.session = None /\ NewRuntime.tunnel = None
    BY Zenon DEF NewRuntime
  <1>4. ~NewRuntime.requested
    BY Zenon DEF NewRuntime
  <1> QED BY <1>2, <1>3, <1>4, Zenon

\* Asking for a connection, or no longer, changes neither session nor tunnel.
LEMMA RuntimeRequests ==
  ASSUME NEW r \in Runtime
  PROVE  /\ Like([r EXCEPT !.requested = FALSE], r, r.session, r.tunnel)
         /\ ~ [r EXCEPT !.requested = FALSE].requested
         /\ [r EXCEPT !.requested = TRUE] \in Runtime
         /\ [r EXCEPT !.requested = TRUE].session = r.session
         /\ [r EXCEPT !.requested = TRUE].tunnel = r.tunnel
  <1>1. ASSUME NEW b \in BOOLEAN, NEW n, n = [r EXCEPT !.requested = b]
        PROVE  n \in Runtime /\ n.session = r.session /\ n.tunnel = r.tunnel
    <2>1. n \in Runtime
      BY <1>1, Zenon DEF Runtime
    <2> QED BY <1>1, <2>1, Zenon DEF Runtime
  <1>2. ~ [r EXCEPT !.requested = FALSE].requested
    BY Zenon DEF Runtime
  <1>3. TRUE \in BOOLEAN /\ FALSE \in BOOLEAN
    BY Zenon
  <1>4. Like([r EXCEPT !.requested = FALSE], r, r.session, r.tunnel)
    BY <1>1, <1>2, <1>3, Zenon DEF Like
  <1> QED BY <1>1, <1>2, <1>3, <1>4, Zenon

\* Setting the tunnel changes neither the session nor the intent.
LEMMA RuntimeTunnel ==
  ASSUME NEW r \in Runtime, NEW t \in Tunnel \cup {None}
  PROVE  Like([r EXCEPT !.tunnel = t], r, r.session, t)
  BY Zenon DEF Like, Runtime

\* The counters of failures and age change neither session nor intent.
LEMMA RuntimeCounts ==
  ASSUME NEW r \in Runtime, NEW n \in 0..2, NEW a \in {"fresh", "due", "lapsed"}
  PROVE  /\ Like([r EXCEPT !.failures = n], r, r.session, r.tunnel)
         /\ Like([r EXCEPT !.age = a], r, r.session, r.tunnel)
         /\ Like([r EXCEPT !.failures = n, !.age = a], r, r.session, r.tunnel)
         /\ Like([r EXCEPT !.tunnel = None, !.failures = n], r, r.session, None)
  BY Zenon DEF Like, Runtime

\* A runtime that stops has neither tunnel nor intent, and keeps its session.
LEMMA RuntimeStops ==
  ASSUME NEW r \in Runtime
  PROVE  /\ Like([r EXCEPT !.requested = FALSE, !.tunnel = None], r, r.session, None)
         /\ ~ [r EXCEPT !.requested = FALSE, !.tunnel = None].requested
         /\ Like([r EXCEPT !.requested = FALSE, !.failures = 0, !.tunnel = None], r, r.session, None)
         /\ ~ [r EXCEPT !.requested = FALSE, !.failures = 0, !.tunnel = None].requested
  <1>1. ASSUME NEW n, n = [r EXCEPT !.requested = FALSE, !.tunnel = None]
        PROVE  Like(n, r, r.session, None) /\ ~n.requested
    <2>1. n \in Runtime /\ ~n.requested
      BY <1>1, Zenon DEF Runtime
    <2> QED BY <1>1, <2>1, Zenon DEF Runtime, Like
  <1>2. ASSUME NEW n, n = [r EXCEPT !.requested = FALSE, !.failures = 0, !.tunnel = None]
        PROVE  Like(n, r, r.session, None) /\ ~n.requested
    <2>1. 0 \in 0..2
      OBVIOUS
    <2>2. n \in Runtime /\ ~n.requested
      BY <1>2, <2>1, Zenon DEF Runtime
    <2> QED BY <1>2, <2>2, Zenon DEF Runtime, Like
  <1> QED BY <1>1, <1>2, Zenon

\* An intent that may only be lost changes nothing else.
LEMMA RuntimeKeepsIntent ==
  ASSUME NEW r \in Runtime, NEW b \in BOOLEAN
  PROVE  Like([r EXCEPT !.requested = @ /\ b], r, r.session, r.tunnel)
  <1>1. r.requested \in BOOLEAN
    BY Zenon DEF Runtime
  <1>2. (r.requested /\ b) \in BOOLEAN
    BY <1>1, Zenon
  <1>3. PICK n : n = [r EXCEPT !.requested = @ /\ b]
    BY Zenon
  <1>4. n \in Runtime /\ (n.requested => r.requested)
    BY <1>2, <1>3, Zenon DEF Runtime
  <1>5. n.session = r.session /\ n.tunnel = r.tunnel
    BY <1>3, <1>4, Zenon DEF Runtime
  <1> QED BY <1>3, <1>4, <1>5, Zenon DEF Like

\* A renewed session leaves tunnel and intent alone.
LEMMA RuntimeSession ==
  ASSUME NEW r \in Runtime, NEW l \in Lease
  PROVE  Like([r EXCEPT !.session = l], r, l, r.tunnel)
  BY Zenon DEF Like, Runtime


-----------------------------------------------------------------------------
(* A turn: the holder of the mutex, or the one that gets it now, takes the *)
(* step to the record k.                                                    *)
Turn(p, k) ==
  /\ k \in TaskState /\ Sane(k) /\ k.op \in {task[p].op, "none"}
  /\ k.pc # "off" /\ k.pc # "waiting"
  /\ task' = [task EXCEPT ![p] = k]
  /\ task[p].pc \in Inside \cup {"waiting", "new"} /\ lock \in {None, p}
  /\ lock' = IF k.pc \in Inside THEN p ELSE None
  /\ \/ queue' = queue /\ task[p].pc # "waiting"
     \/ queue # <<>> /\ Head(queue) = p /\ queue' = Tail(queue)
  /\ tun' \in [Tunnel -> TunnelState] /\ faults' \in 0..MaxFaults

(* What the turn leaves is what k and everybody after it rely on. *)
Leaves(p, k) ==
  /\ rt' \in Runtime /\ phase' \in Phase
  /\ RuntimeInv' /\ rt'.session \in {rt.session, None}
  /\ Fits(k, rt', phase', desk', leases', excused')
  /\ k.pc \notin Inside /\ desk'.configured => Settled(rt', phase')

LeavesLeases(k) ==
  /\ leases' \subseteq Lease /\ excused' \subseteq Lease
  /\ \A l \in leases' : l = rt'.session \/ l \in excused' \/ l = k.lease

LeavesDesk(p, k) ==
  \/ desk' = desk
  \/ task[p].op \in Lifecycle /\ desk' = NoDesk /\ k.op = "none" /\ rt'.session = None

LeavesStopped(p, k) ==
  /\ stopped' \in BOOLEAN
  /\ stopped' => /\ stopped \/ Quiet(p)
                 /\ rt'.tunnel = None /\ ~rt'.requested
                 /\ k.op # "connect"
                 /\ k.pc \notin {"begin", "probing", "connecting", "checking"} \cup InStop

GoodTurn(p, k) ==
  Turn(p, k) /\ Leaves(p, k) /\ LeavesLeases(k) /\ LeavesDesk(p, k) /\ LeavesStopped(p, k)

(* A lease at the server is one. *)
LEMMA RealLease ==
  ASSUME ClientInv
  PROVE  \A l \in leases : l \in Lease /\ l # None
  BY ClientAssumption, Zenon DEF ClientInv, TypeOK

(* Nobody else is past the wait for the mutex. *)
LEMMA Alone ==
  ASSUME TypeOK, NEW p \in Task, lock \in {None, p}
  PROVE  \A q \in Task \ {p} : task[q].pc \notin Inside
  BY ClientAssumption, Zenon DEF TypeOK, Inside

\* A turn of the holder keeps the types and leaves the other tasks alone.
LEMMA TurnKeepsTypes ==
  ASSUME TypeOK, NEW p \in Task, NEW k, Turn(p, k), Leaves(p, k), LeavesLeases(k), LeavesDesk(p, k),
         LeavesStopped(p, k)
  PROVE  /\ TypeOK'
         /\ task'[p] = k /\ \A q \in Task \ {p} : task'[q] = task[q] /\ task[q].pc \notin Inside
  <1>1. task'[p] = k /\ \A q \in Task \ {p} : task'[q] = task[q]
    BY Zenon DEF Turn, TypeOK
  <1>2. \A q \in Task \ {p} : task[q].pc \notin Inside
    BY Alone, Zenon DEF Turn
  <1>3. task' \in [Task -> TaskState]
    BY Zenon DEF Turn, TypeOK
  <1>4. lock' \in Task \cup {None} /\ queue' \in Seq(Task)
    <2>1. lock' \in Task \cup {None}
      BY Zenon DEF Turn
    <2>2. queue \in Seq(Task)
      BY Zenon DEF TypeOK
    <2>3. queue # <<>> => Tail(queue) \in Seq(Task)
      BY <2>2
    <2>4. queue' \in Seq(Task)
      BY <2>2, <2>3, Zenon DEF Turn
    <2> QED BY <2>1, <2>4, Zenon
  <1>5. rt' \in Runtime /\ phase' \in Phase /\ stopped' \in BOOLEAN /\ faults' \in 0..MaxFaults
    BY Zenon DEF Leaves, LeavesStopped, Turn
  <1>6. desk' \in [configured : BOOLEAN, lifecycle : Command \cup {None}, ending : BOOLEAN]
    <2>1. NoDesk \in [configured : BOOLEAN, lifecycle : Command \cup {None}, ending : BOOLEAN]
      BY Zenon DEF NoDesk
    <2> QED BY <2>1, Zenon DEF LeavesDesk, TypeOK
  <1>7. tun' \in [Tunnel -> TunnelState] /\ leases' \subseteq Lease /\ excused' \subseteq Lease
    BY Zenon DEF Turn, LeavesLeases
  <1>8. ASSUME NEW q \in Task,
               task'[q].pc \notin {"idle", "off", "waiting", "retiring", "new", "exiting"}
        PROVE  lock' = q
    <2>1. task'[q].pc \in Inside
      BY <1>3, <1>8, Zenon DEF TaskState, Pc, Inside
    <2>2. q = p
      BY <1>1, <1>2, <2>1, Zenon
    <2> QED BY <1>1, <2>1, <2>2, Zenon DEF Turn
  <1>9. TypeOK'
    BY <1>3, <1>4, <1>5, <1>6, <1>7, <1>8, Zenon DEF TypeOK
  <1> QED BY <1>1, <1>2, <1>9, Zenon

\* A turn of the holder leaves who waits for the mutex alone.
LEMMA TurnKeepsQueue ==
  ASSUME TypeOK, QueueInv, NEW p \in Task, NEW k, Turn(p, k),
         task'[p] = k /\ \A q \in Task \ {p} : task'[q] = task[q]
  PROVE  QueueInv'
  <1>1. queue \in Seq(Task)
    BY Zenon DEF TypeOK
  <1>2. CASE queue' = queue /\ task[p].pc # "waiting"
    <2>1. \A i \in DOMAIN queue : queue[i] \in Task /\ queue[i] # p
      BY <1>1, <1>2 DEF QueueInv
    <2> QED BY <1>2, <2>1, Zenon DEF QueueInv
  <1>3. CASE queue # <<>> /\ Head(queue) = p /\ queue' = Tail(queue)
    <2>1. \A i \in DOMAIN queue' : /\ i + 1 \in DOMAIN queue /\ queue'[i] = queue[i + 1]
                                   /\ i + 1 # 1 /\ i \in Nat
      BY <1>1, <1>3
    <2>2. 1 \in DOMAIN queue /\ queue[1] = p
      BY <1>1, <1>3
    <2>3. \A i \in DOMAIN queue' : queue'[i] \in Task /\ queue'[i] # p
      <3> SUFFICES ASSUME NEW i \in DOMAIN queue' PROVE queue'[i] \in Task /\ queue'[i] # p
        BY Zenon
      <3>1. i + 1 \in DOMAIN queue /\ queue'[i] = queue[i + 1] /\ i + 1 # 1
        BY <2>1, Zenon
      <3>2. queue[i + 1] \in Task
        BY <1>1, <3>1
      <3>3. queue[i + 1] # queue[1]
        BY <2>2, <3>1, Zenon DEF QueueInv
      <3> QED BY <2>2, <3>1, <3>2, <3>3, Zenon
    <2>4. \A i \in DOMAIN queue' : task'[queue'[i]].pc = "waiting"
      BY <2>1, <2>3 DEF QueueInv
    <2>5. ASSUME NEW i \in DOMAIN queue', NEW j \in DOMAIN queue', queue'[i] = queue'[j]
          PROVE  i = j
      <3>1. i + 1 = j + 1
        BY <2>1, <2>5 DEF QueueInv
      <3> QED BY <2>1, <3>1
    <2> QED BY <2>4, <2>5, Zenon DEF QueueInv
  <1> QED BY <1>2, <1>3, Zenon DEF Turn


\* After a turn of the holder, its state fits the runtime again.
LEMMA TurnKeepsTasks ==
  ASSUME TasksInv, DeskInv, NEW p \in Task, NEW k, Turn(p, k), Leaves(p, k),
         task'[p] = k, \A q \in Task \ {p} : task'[q] = task[q] /\ task[q].pc \notin Inside
  PROVE  TasksInv'
  <1>1. Sane(task'[p]) /\ Fits(task'[p], rt', phase', desk', leases', excused')
    BY Zenon DEF Turn, Leaves
  <1>2. ASSUME NEW q \in Task \ {p}
        PROVE  Sane(task'[q]) /\ Fits(task'[q], rt', phase', desk', leases', excused')
    <2>1. Sane(task[q]) /\ Fits(task[q], rt, phase, desk, leases, excused) /\ task[q].pc \notin Inside
      BY Zenon DEF TasksInv
    <2>2. PICK j : j = task[q]
      BY Zenon
    <2>3. j.pc = "new" => rt'.session = None
      BY <2>1, <2>2, Zenon DEF Fits, Leaves
    <2>4. Fits(j, rt', phase', desk', leases', excused')
      BY <2>1, <2>2, <2>3, Zenon DEF Fits, Inside, InStop, Silent, SilentStop
    <2> QED BY <2>1, <2>2, <2>4, Zenon
  <1> QED BY <1>1, <1>2, Zenon DEF TasksInv

\* A turn of the holder keeps what the desktop has configured.
LEMMA TurnKeepsDesk ==
  ASSUME TypeOK, TasksInv, DeskInv, NEW p \in Task, NEW k, Turn(p, k), Leaves(p, k), LeavesDesk(p, k),
         task'[p] = k, \A q \in Task \ {p} : task'[q] = task[q]
  PROVE  DeskInv'
  <1>1. CASE desk' = desk
    <2>1. ASSUME NEW q \in Task, task'[q].op \in Lifecycle
          PROVE  desk.lifecycle = q /\ ~desk.configured /\ (task'[q].pc # "retiring" => ~desk.ending)
      <3>1. CASE q = p
        BY <2>1, <3>1, Zenon DEF DeskInv, Turn, Inside, Lifecycle
      <3>2. CASE q # p
        BY <2>1, <3>2, Zenon DEF DeskInv
      <3> QED BY <3>1, <3>2, Zenon
    <2>2. task'[Maintenance].pc = "off" <=> task[Maintenance].pc = "off"
      BY Zenon DEF Turn, Inside, Task
    <2>3. ~desk.configured /\ desk.lifecycle = None => rt'.session = None
      BY Zenon DEF DeskInv, Leaves
    <2> QED BY <1>1, <2>1, <2>2, <2>3, Zenon DEF DeskInv
  <1>2. CASE task[p].op \in Lifecycle /\ desk' = NoDesk /\ k.op = "none" /\ rt'.session = None
    <2>1. desk.lifecycle = p /\ ~desk.configured /\ ~desk.ending /\ p \in Command
      BY <1>2, ClientAssumption, Zenon DEF DeskInv, Turn, Inside, TypeOK, Task
    <2>2. task'[Maintenance].pc = "off"
      BY <2>1, ClientAssumption, Zenon DEF DeskInv, Task
    <2>3. \A q \in Task : task'[q].op \notin Lifecycle
      <3> SUFFICES ASSUME NEW q \in Task, task'[q].op \in Lifecycle PROVE FALSE
        BY Zenon
      <3>1. q # p
        BY <1>2, Zenon DEF Lifecycle
      <3> QED BY <2>1, <3>1, Zenon DEF DeskInv
    <2>4. ~NoDesk.configured /\ ~NoDesk.ending /\ NoDesk.lifecycle = None
      BY Zenon DEF NoDesk
    <2> QED BY <1>2, <2>2, <2>3, <2>4, Zenon DEF DeskInv
  <1> QED BY <1>1, <1>2, Zenon DEF LeavesDesk

\* A turn of the holder brings back no tunnel that was stopped.
LEMMA TurnKeepsStopped ==
  ASSUME StoppedInv, NEW p \in Task, NEW k, LeavesStopped(p, k),
         task'[p] = k, \A q \in Task \ {p} : task'[q] = task[q] /\ task[q].pc \notin Inside
  PROVE  StoppedInv'
  <1> SUFFICES ASSUME stopped'
               PROVE  /\ rt'.tunnel = None /\ ~rt'.requested
                      /\ \A q \in Task : /\ task'[q].op # "connect"
                                         /\ task'[q].pc \notin {"begin", "probing", "connecting", "checking"} \cup InStop
    BY Zenon DEF StoppedInv
  <1>1. rt'.tunnel = None /\ ~rt'.requested
    BY Zenon DEF LeavesStopped
  <1>2. ASSUME NEW q \in Task
        PROVE  /\ task'[q].op # "connect"
               /\ task'[q].pc \notin {"begin", "probing", "connecting", "checking"} \cup InStop
    <2>1. CASE q = p
      BY <2>1, Zenon DEF LeavesStopped
    <2>2. CASE q # p
      BY <2>2, Zenon DEF LeavesStopped, StoppedInv, Quiet, Inside, InStop
    <2> QED BY <2>1, <2>2, Zenon
  <1> QED BY <1>1, <1>2, Zenon

\* A turn of the holder that leaves each part in order keeps the invariant.
LEMMA TurnKeeps ==
  ASSUME ClientInv, NEW p \in Task, NEW k, GoodTurn(p, k)
  PROVE  ClientInv'
  <1> USE DEF ClientInv, GoodTurn
  <1>1. TypeOK' /\ task'[p] = k /\ \A q \in Task \ {p} : task'[q] = task[q] /\ task[q].pc \notin Inside
    BY TurnKeepsTypes, Zenon
  <1>2. QueueInv'
    BY <1>1, TurnKeepsQueue, Zenon
  <1>3. TasksInv'
    BY <1>1, TurnKeepsTasks, Zenon
  <1>4. RuntimeInv'
    BY Zenon DEF Leaves
  <1>5. DeskInv'
    BY <1>1, TurnKeepsDesk, Zenon
  <1>6. StoppedInv'
    BY <1>1, TurnKeepsStopped, Zenon
  <1>7. SnapshotIsTrue'
    <2>1. k.pc \in Inside => lock' # None
      BY ClientAssumption, Zenon DEF Turn
    <2>2. lock' = None /\ desk'.configured => Settled(rt', phase')
      BY <2>1, Zenon DEF Leaves
    <2> QED BY <2>2, Zenon DEF SnapshotIsTrue, Settled
  <1>8. LeaseIsHeld'
    BY <1>1, Zenon DEF LeaseIsHeld, LeavesLeases
  <1> QED BY <1>1, <1>2, <1>3, <1>4, <1>5, <1>6, <1>7, <1>8, Zenon


-----------------------------------------------------------------------------
(* The holder's turns that leave the desktop, the leases and the stop flag  *)
(* alone: it goes on, or it returns.                                        *)
Calm ==
  /\ UNCHANGED <<queue, desk, leases, excused, stopped>>
  /\ tun' \in [Tunnel -> TunnelState] /\ faults' \in 0..MaxFaults

(* The runtime keeps its session, or loses one that holds no lease. *)
Follows(r) ==
  /\ r \in Runtime /\ (r.requested => rt.requested)
  /\ r.session = rt.session \/ (r.session = None /\ r.tunnel = None /\ ~r.requested /\ rt.session \notin leases \ excused)
  /\ r.tunnel # None => r.session # None

\* What the invariant says of the task that holds the mutex.
LEMMA HolderFacts ==
  ASSUME ClientInv, NEW p \in Task, task[p].pc \in Inside
  PROVE  /\ lock = p /\ lock # None /\ task[p] \in TaskState
         /\ Sane(task[p]) /\ Fits(task[p], rt, phase, desk, leases, excused)
         /\ rt \in Runtime /\ phase \in Phase /\ RuntimeInv
         /\ \A l \in leases : l = rt.session \/ l \in excused \/ l = task[p].lease
  <1>1. lock = p /\ lock # None /\ task[p] \in TaskState /\ rt \in Runtime /\ phase \in Phase
    BY ClientAssumption, Zenon DEF ClientInv, TypeOK, Inside
  <1>2. Sane(task[p]) /\ Fits(task[p], rt, phase, desk, leases, excused) /\ RuntimeInv
    BY Zenon DEF ClientInv, TasksInv
  <1>3. ASSUME NEW l \in leases, NEW q \in Task, task[q].lease = l
        PROVE  q = p
    <2>1. Sane(task[q]) /\ l # None
      BY ClientAssumption, Zenon DEF ClientInv, TasksInv, TypeOK
    <2>2. task[q].pc \in Inside
      BY <1>3, <2>1, Zenon DEF Sane, Inside
    <2> QED BY <1>1, <2>2, Alone, Zenon DEF ClientInv
  <1>4. \A l \in leases : l = rt.session \/ l \in excused \/ l = task[p].lease
    BY <1>3, Zenon DEF ClientInv, LeaseIsHeld
  <1> QED BY <1>1, <1>2, <1>4, Zenon

(* A task that shows "stopped" is not at work on a tunnel. *)
LEMMA StoppedFacts ==
  ASSUME ClientInv, NEW p \in Task, stopped
  PROVE  /\ rt.tunnel = None /\ ~rt.requested /\ task[p].op # "connect"
         /\ task[p].pc \notin {"begin", "probing", "connecting", "checking", "stopping", "ordered"}
  BY Zenon DEF ClientInv, StoppedInv, InStop

\* An idle task fits every runtime.
LEMMA IdleFits ==
  /\ Sane(Idle) /\ Idle \in TaskState /\ Idle.op = "none" /\ Idle.pc = "idle" /\ Idle.lease = None
  /\ \A r, ph, d, ls, ex : Fits(Idle, r, ph, d, ls, ex)
  <1>1. Plain(Idle, "none", "idle")
    BY IdleRecords, Zenon
  <1> QED BY <1>1, Zenon DEF Plain, Sane, InStop, Fits, Silent, SilentStop

\* An operation that returns, with leases, desktop and tunnels as they were.
LEMMA CalmReturn ==
  ASSUME ClientInv, NEW p \in Task, task[p].pc \in Inside \ {"undoing"},
         Calm, Return(p), Follows(rt'), phase' \in Phase,
         desk.configured => Settled(rt', phase'),
         stopped => rt'.tunnel = None
  PROVE  ClientInv'
  <1>1. /\ lock = p /\ Sane(task[p]) /\ Fits(task[p], rt, phase, desk, leases, excused)
        /\ RuntimeInv
        /\ \A l \in leases : l = rt.session \/ l \in excused \/ l = task[p].lease
    BY HolderFacts, Zenon
  <1>2. Turn(p, Idle)
    BY <1>1, IdleFits, Zenon DEF Turn, Return, Goto, Calm, Inside
  <1>3. RuntimeInv'
    BY <1>1, Zenon DEF RuntimeInv, Follows
  <1>4. Leaves(p, Idle)
    BY <1>3, IdleFits, Zenon DEF Leaves, Follows, Calm
  <1>5. LeavesLeases(Idle)
    <2>1. \A l \in leases : l # None /\ task[p].lease = None
      BY <1>1, ClientAssumption, Zenon DEF Sane, ClientInv, TypeOK
    <2>2. \A l \in leases : l = rt'.session \/ l \in excused
      BY <1>1, <2>1, Zenon DEF Follows
    <2> QED BY <2>2, Zenon DEF LeavesLeases, Calm, ClientInv, TypeOK
  <1>6. LeavesDesk(p, Idle)
    BY Zenon DEF LeavesDesk, Calm
  <1>7. LeavesStopped(p, Idle)
    <2>1. stopped' = stopped /\ stopped' \in BOOLEAN
      BY Zenon DEF Calm, ClientInv, TypeOK
    <2>2. stopped => ~rt'.requested
      BY StoppedFacts, Zenon DEF Follows
    <2> QED BY <2>1, <2>2, IdleFits, Zenon DEF LeavesStopped, InStop
  <1> QED BY <1>2, <1>4, <1>5, <1>6, <1>7, TurnKeeps, Zenon DEF GoodTurn

\* An operation that goes on, with leases, desktop and session as they were.
LEMMA CalmGo ==
  ASSUME ClientInv, NEW p \in Task, task[p].pc \in Inside \ {"undoing"}, NEW k \in TaskState,
         Calm, Goto(p, k), UNCHANGED lock, Follows(rt'), rt'.session = rt.session, phase' \in Phase,
         k.pc \in Inside, k.op = task[p].op, k.lease = None, Sane(k),
         Fits(k, rt', phase', desk, leases, excused),
         stopped => /\ rt'.tunnel = None
                    /\ k.pc \notin {"begin", "probing", "connecting", "checking", "stopping", "ordered"}
  PROVE  ClientInv'
  <1>1. /\ lock = p /\ Sane(task[p]) /\ RuntimeInv
        /\ \A l \in leases : l = rt.session \/ l \in excused \/ l = task[p].lease
    BY HolderFacts, Zenon
  <1>2. Turn(p, k)
    BY <1>1, Zenon DEF Turn, Goto, Calm, Inside
  <1>3. RuntimeInv'
    BY <1>1, Zenon DEF RuntimeInv, Follows
  <1>4. Leaves(p, k)
    BY <1>3, Zenon DEF Leaves, Follows, Calm
  <1>5. LeavesLeases(k)
    <2>1. \A l \in leases : l # None /\ task[p].lease = None
      BY <1>1, ClientAssumption, Zenon DEF Sane, ClientInv, TypeOK
    <2>2. \A l \in leases : l = rt'.session \/ l \in excused
      BY <1>1, <2>1, Zenon
    <2> QED BY <2>2, Zenon DEF LeavesLeases, Calm, ClientInv, TypeOK
  <1>6. LeavesDesk(p, k)
    BY Zenon DEF LeavesDesk, Calm
  <1>7. LeavesStopped(p, k)
    <2>1. stopped' = stopped /\ stopped' \in BOOLEAN
      BY Zenon DEF Calm, ClientInv, TypeOK
    <2>2. stopped => ~rt'.requested /\ task[p].op # "connect"
      BY StoppedFacts, Zenon DEF Follows
    <2> QED BY <2>1, <2>2, Zenon DEF LeavesStopped, InStop
  <1> QED BY <1>2, <1>4, <1>5, <1>6, <1>7, TurnKeeps, Zenon DEF GoodTurn


-----------------------------------------------------------------------------
(* The desktop gets a session back. *)

\* Enrolling, forgetting and exiting have the desktop to themselves.
LEMMA LifecycleFacts ==
  ASSUME ClientInv, NEW p \in Task, task[p].op \in Lifecycle
  PROVE  /\ desk.lifecycle = p /\ ~desk.configured /\ p \in Command /\ p # Maintenance
         /\ task[p].pc # "retiring" => ~desk.ending /\ task[Maintenance].pc = "off"
         /\ \A q \in Task \ {p} : task[q].op \notin Lifecycle
  BY ClientAssumption, Zenon DEF ClientInv, DeskInv, TypeOK, Task

\* An enrolment or a failed retirement that gives the desktop its session.
LEMMA ConfiguredKeeps ==
  ASSUME ClientInv, NEW p \in Task, task[p].pc \in Inside, task[p].op \in Lifecycle,
         Configured(p), lock' = None, UNCHANGED <<queue, stopped>>,
         tun' \in [Tunnel -> TunnelState], faults' \in 0..MaxFaults,
         rt' \in Runtime, phase' \in Phase, RuntimeInv', Settled(rt', phase'),
         leases' \subseteq Lease, excused' \subseteq Lease,
         \A l \in leases' : l = rt'.session \/ l \in excused',
         stopped => rt'.tunnel = None /\ ~rt'.requested
  PROVE  ClientInv'
  <1>1. /\ p \in Command /\ p # Maintenance /\ task[Maintenance].pc = "off"
        /\ \A q \in Task \ {p} : task[q].op \notin Lifecycle
    BY LifecycleFacts, Zenon DEF Inside
  <1>2. lock = p /\ \A q \in Task \ {p} : task[q].pc \notin Inside
    BY HolderFacts, Alone, Zenon DEF ClientInv
  <1>3. /\ task'[p] = Idle /\ task'[Maintenance] = Idle
        /\ \A q \in Task \ {p, Maintenance} : task'[q] = task[q]
        /\ task' \in [Task -> TaskState]
    BY <1>1, IdleFits, Zenon DEF Configured, ClientInv, TypeOK, Task
  <1>4. /\ desk'.configured /\ desk'.lifecycle = None /\ ~desk'.ending
        /\ desk' \in [configured : BOOLEAN, lifecycle : Command \cup {None}, ending : BOOLEAN]
    BY Zenon DEF Configured
  <1>5. \A q \in Task : task'[q] = Idle \/ (task'[q] = task[q] /\ task[q].pc \notin Inside /\ task[q].op \notin Lifecycle)
    BY <1>1, <1>2, <1>3, Zenon
  <1>6. \A q \in Task : task'[q].pc \notin Inside /\ task'[q].op \notin Lifecycle
    BY <1>5, IdleFits, Zenon DEF Inside, Lifecycle
  <1>7. TypeOK'
    <2>1. \A q \in Task : task'[q].pc \in {"idle", "off", "waiting", "retiring", "new", "exiting"}
      BY <1>3, <1>6, Zenon DEF TaskState, Pc, Inside
    <2>2. lock' \in Task \cup {None} /\ queue' \in Seq(Task) /\ stopped' \in BOOLEAN
      BY Zenon DEF ClientInv, TypeOK
    <2> QED BY <1>3, <1>4, <2>1, <2>2, Zenon DEF TypeOK
  <1>8. QueueInv'
    <2>1. \A i \in DOMAIN queue : queue[i] \in Task /\ queue[i] # p /\ queue[i] # Maintenance
      BY <1>1 DEF ClientInv, QueueInv, TypeOK, Inside
    <2> QED BY <1>3, <2>1, Zenon DEF ClientInv, QueueInv
  <1>9. TasksInv'
    <2> SUFFICES ASSUME NEW q \in Task
                 PROVE  Sane(task'[q]) /\ Fits(task'[q], rt', phase', desk', leases', excused')
      BY Zenon DEF TasksInv
    <2>1. CASE task'[q] = Idle
      BY <2>1, IdleFits, Zenon
    <2>2. CASE task'[q] = task[q] /\ task[q].pc \notin Inside /\ task[q].op \notin Lifecycle
      <3>1. PICK j : j = task[q]
        BY Zenon
      <3>2. Sane(j)
        BY <3>1, Zenon DEF ClientInv, TasksInv
      <3>3. Fits(j, rt', phase', desk', leases', excused')
        BY <2>2, <3>1, <3>2, Zenon DEF Sane, Fits, Inside, InStop, Silent, SilentStop
      <3> QED BY <2>2, <3>1, <3>2, <3>3, Zenon
    <2> QED BY <1>5, <2>1, <2>2, Zenon
  <1>10. DeskInv'
    BY <1>3, <1>4, <1>6, IdleFits, Zenon DEF DeskInv
  <1>11. StoppedInv'
    <2>1. \A q \in Task : stopped => task[q].op # "connect"
      BY Zenon DEF ClientInv, StoppedInv
    <2>2. \A q \in Task : stopped => task'[q].op # "connect"
      BY <1>5, <2>1, IdleFits, Zenon
    <2> QED BY <1>6, <2>2, Zenon DEF StoppedInv, Inside, InStop
  <1>12. SnapshotIsTrue' /\ LeaseIsHeld'
    BY Zenon DEF SnapshotIsTrue, LeaseIsHeld, Settled
  <1> QED BY <1>7, <1>8, <1>9, <1>10, <1>11, <1>12, Zenon DEF ClientInv

(* The record of a command that is done with its session. *)
LEMMA DoneFits ==
  /\ \A c \in {"exiting", "idle"} :
       LET k == [Idle EXCEPT !.pc = c]
       IN /\ k \in TaskState /\ k.pc = c /\ k.op = "none" /\ k.lease = None /\ Sane(k)
          /\ \A r, ph, d, ls, ex : Fits(k, r, ph, d, ls, ex)
  /\ LET k == [Idle EXCEPT !.op = "enroll", !.pc = "new"]
     IN /\ k \in TaskState /\ k.pc = "new" /\ k.op = "enroll" /\ k.lease = None /\ Sane(k)
        /\ \A r, ph, d, ls, ex : r.session = None => Fits(k, r, ph, d, ls, ex)
  <1>1. ASSUME NEW c \in {"exiting", "idle"}, NEW k, k = [Idle EXCEPT !.pc = c]
        PROVE  /\ k \in TaskState /\ k.pc = c /\ k.op = "none" /\ k.lease = None /\ Sane(k)
               /\ \A r, ph, d, ls, ex : Fits(k, r, ph, d, ls, ex)
    <2>1. Plain(k, "none", c)
      BY <1>1, IdleRecords, Names, Zenon
    <2> QED BY <1>1, <2>1, Zenon DEF Plain, Sane, InStop, Fits, Silent, SilentStop
  <1>2. ASSUME NEW k, k = [Idle EXCEPT !.op = "enroll", !.pc = "new"]
        PROVE  /\ k \in TaskState /\ k.pc = "new" /\ k.op = "enroll" /\ k.lease = None /\ Sane(k)
               /\ \A r, ph, d, ls, ex : r.session = None => Fits(k, r, ph, d, ls, ex)
    <2>1. Plain(k, "enroll", "new")
      BY <1>2, IdleRecords, Names, Zenon
    <2> QED BY <2>1, Zenon DEF Plain, Sane, InStop, Fits, Silent, SilentStop, Lifecycle
  <1> QED BY <1>1, <1>2, Zenon

-----------------------------------------------------------------------------
(* What several of the steps rely on. *)

(* A step that shows nothing and changes nothing in the runtime. *)
LEMMA SameRuntime ==
  ASSUME ClientInv
  PROVE  Follows(rt) /\ phase \in Phase /\ rt \in Runtime
  BY Zenon DEF Follows, ClientInv, TypeOK, RuntimeInv

\* What the operations make of a tunnel is a tunnel.
LEMMA TunnelRecords ==
  /\ NoTunnel \in TunnelState /\ Started \in TunnelState /\ Unclaimed \in TunnelState
  /\ \A c \in TunnelState, e \in {"up", "down"} : [c EXCEPT !.engine = e] \in TunnelState
  /\ \A c \in TunnelState : [c EXCEPT !.mon = "done", !.view = "failed"] \in TunnelState
  /\ \A c \in TunnelState, v \in {"stopped", "failed"}, a \in {"ok", "error"} :
       [c EXCEPT !.mon = "done", !.view = v, !.answer = a] \in TunnelState
  <1>1. NoTunnel \in TunnelState
    <2>1. "down" \in {"up", "down"} /\ "none" \in {"none", "connected", "stopped", "failed"}
          /\ "none" \in {"none", "watching", "ending", "done"} /\ FALSE \in BOOLEAN
          /\ "none" \in {"none", "ok", "error"} /\ "same" \in {"same", "moved", "offline"}
      BY Zenon
    <2> QED BY <2>1, Zenon DEF NoTunnel, TunnelState
  <1>2. Started \in TunnelState /\ Unclaimed \in TunnelState
    BY <1>1, Zenon DEF Started, Unclaimed, TunnelState
  <1>3. \A c \in TunnelState, e \in {"up", "down"} : [c EXCEPT !.engine = e] \in TunnelState
    BY Zenon DEF TunnelState
  <1>4. \A c \in TunnelState : [c EXCEPT !.mon = "done", !.view = "failed"] \in TunnelState
    BY Zenon DEF TunnelState
  <1>5. \A c \in TunnelState, v \in {"stopped", "failed"}, a \in {"ok", "error"} :
          [c EXCEPT !.mon = "done", !.view = v, !.answer = a] \in TunnelState
    BY Zenon DEF TunnelState
  <1> QED BY <1>1, <1>2, <1>3, <1>4, <1>5, Zenon

(* A fault, or none, and a tunnel's new state, or none. *)
LEMMA CalmFacts ==
  ASSUME TypeOK
  PROVE  /\ Fault => faults' \in 0..MaxFaults
         /\ UNCHANGED faults => faults' \in 0..MaxFaults
         /\ UNCHANGED tun => tun' \in [Tunnel -> TunnelState]
         /\ \A t \in Tunnel, s \in TunnelState : tun' = [tun EXCEPT ![t] = s] => tun' \in [Tunnel -> TunnelState]
         /\ StrayStart => tun' \in [Tunnel -> TunnelState]
  <1>1. ASSUME NEW t \in Tunnel, NEW s \in TunnelState, tun' = [tun EXCEPT ![t] = s]
        PROVE  tun' \in [Tunnel -> TunnelState]
    BY <1>1, Zenon DEF TypeOK
  <1>2. StrayStart => tun' \in [Tunnel -> TunnelState]
    BY <1>1, TunnelRecords, Zenon DEF StrayStart, Unused
  <1>3. (Fault => faults' \in 0..MaxFaults) /\ (UNCHANGED faults => faults' \in 0..MaxFaults)
    BY ClientAssumption DEF Fault, TypeOK
  <1> QED BY <1>1, <1>2, <1>3, Zenon DEF TypeOK

\* The broker's answer to a stop leaves tunnels of their type.
LEMMA RemoteFacts ==
  ASSUME TypeOK, NEW t \in Tunnel, NEW ch \in TunnelState, RemoteStops(t, ch) \/ RemoteFails(t, ch)
  PROVE  tun' \in [Tunnel -> TunnelState] /\ faults' \in 0..MaxFaults
  <1>1. tun[t].engine \in {"up", "down"}
    BY Zenon DEF TypeOK, TunnelState
  <1>2. PICK e \in {"up", "down"} : tun' = [tun EXCEPT ![t] = [ch EXCEPT !.engine = e]]
    BY <1>1, Zenon DEF RemoteStops, RemoteFails
  <1>3. [ch EXCEPT !.engine = e] \in TunnelState
    BY TunnelRecords, Zenon
  <1> QED BY <1>2, <1>3, CalmFacts, Zenon DEF RemoteStops, RemoteFails

-----------------------------------------------------------------------------
(* Requests: a task joins the queue, the others go on as they were, with   *)
(* an attempt told to stop or not.                                          *)

(* The record j is k, but for the cancellation it has seen. *)
SameTask(j, k) ==
  /\ j \in TaskState
  /\ j.op = k.op /\ j.pc = k.pc /\ j.after = k.after /\ j.re = k.re
  /\ j.tun = k.tun /\ j.lease = k.lease /\ j.left = k.left

\* A task that differs only in being cancelled fits the same runtimes.
LEMMA SameTaskFits ==
  ASSUME NEW j, NEW k, SameTask(j, k), Sane(k), NEW r, NEW ph, NEW d, NEW ls, NEW ex, Fits(k, r, ph, d, ls, ex)
  PROVE  Sane(j) /\ Fits(j, r, ph, d, ls, ex)
  BY DEF SameTask, Sane, Fits, Silent, SilentStop

\* Cancelling leaves every task the same but for being cancelled.
LEMMA CancelSame ==
  ASSUME TypeOK
  PROVE  \A q \in Task : SameTask(Cancel[q], task[q]) /\ SameTask(task[q], task[q])
  <1> SUFFICES ASSUME NEW q \in Task PROVE SameTask(Cancel[q], task[q]) /\ SameTask(task[q], task[q])
    BY Zenon
  <1>1. task[q] \in TaskState
    BY Zenon DEF TypeOK
  <1>2. Cancel[q] = task[q] \/ Cancel[q] = [task[q] EXCEPT !.cut = TRUE]
    BY Zenon DEF Cancel
  <1> QED BY <1>1, <1>2, CutRecord, Zenon DEF SameTask

\* What is in a queue after one more joined it.
LEMMA Appended ==
  ASSUME NEW q \in Seq(Task), NEW p \in Task
  PROVE  /\ Append(q, p) \in Seq(Task)
         /\ \A i \in DOMAIN Append(q, p) : (i \in DOMAIN q /\ Append(q, p)[i] = q[i]) \/ (i = Len(q) + 1 /\ Append(q, p)[i] = p)
  OBVIOUS

\* A task that joins the queue for the mutex keeps the invariant.
LEMMA RequestKeeps ==
  ASSUME ClientInv, NEW p \in Task, NEW o \in Op, task[p].pc \in {"idle", "retiring"},
         task' \in [Task -> TaskState], Plain(task'[p], o, "waiting"),
         \A q \in Task \ {p} : SameTask(task'[q], task[q]),
         queue' = Append(queue, p), UNCHANGED <<lock, rt, phase, desk, leases, excused>>,
         tun' \in [Tunnel -> TunnelState], faults' \in 0..MaxFaults,
         o \in Lifecycle => task[p].op \in Lifecycle /\ ~desk.ending,
         stopped' \in BOOLEAN, stopped' => stopped /\ o # "connect"
  PROVE  ClientInv'
  <1>1. task'[p].op = o /\ task'[p].pc = "waiting" /\ task'[p].tun = None /\ task'[p].lease = None
    BY Zenon DEF Plain
  <1>2. queue \in Seq(Task) /\ queue' \in Seq(Task)
    BY Appended, Zenon DEF ClientInv, TypeOK
  <1>3. \A q \in Task \ {p} : task'[q].pc = task[q].pc /\ task'[q].op = task[q].op /\ task'[q].lease = task[q].lease
    BY Zenon DEF SameTask
  <1>4. TypeOK'
    <2>1. \A q \in Task : task'[q].pc \notin {"idle", "off", "waiting", "retiring", "new", "exiting"} => lock' = q
      BY <1>1, <1>3, Zenon DEF ClientInv, TypeOK
    <2> QED BY <1>2, <2>1, Zenon DEF ClientInv, TypeOK
  <1>5. QueueInv'
    <2>1. \A i \in DOMAIN queue : queue[i] \in Task /\ queue[i] # p
      BY <1>2 DEF ClientInv, QueueInv
    <2>2. \A i \in DOMAIN queue' : (i \in DOMAIN queue /\ queue'[i] = queue[i]) \/ (i = Len(queue) + 1 /\ queue'[i] = p)
      BY <1>2, Appended, Zenon
    <2>3. \A i \in DOMAIN queue' : task'[queue'[i]].pc = "waiting"
      BY <1>1, <1>3, <2>1, <2>2 DEF ClientInv, QueueInv
    <2>4. \A i, j \in DOMAIN queue' : queue'[i] = queue'[j] => i = j
      <3> SUFFICES ASSUME NEW i \in DOMAIN queue', NEW j \in DOMAIN queue', queue'[i] = queue'[j] PROVE i = j
        BY Zenon
      <3>1. CASE i \in DOMAIN queue /\ queue'[i] = queue[i]
        BY <2>1, <2>2, <3>1, Zenon DEF ClientInv, QueueInv
      <3>2. CASE i = Len(queue) + 1 /\ queue'[i] = p
        BY <2>1, <2>2, <3>2, Zenon
      <3> QED BY <2>2, <3>1, <3>2, Zenon
    <2> QED BY <2>3, <2>4, Zenon DEF QueueInv
  <1>6. TasksInv'
    <2> SUFFICES ASSUME NEW q \in Task PROVE Sane(task'[q]) /\ Fits(task'[q], rt, phase, desk, leases, excused)
      BY Zenon DEF TasksInv
    <2>1. CASE q = p
      <3>1. PICK k : k = task'[p]
        BY Zenon
      <3> QED BY <1>1, <2>1, <3>1, Zenon DEF Sane, Fits, InStop, Silent, SilentStop
    <2>2. CASE q # p
      <3>1. Sane(task[q]) /\ Fits(task[q], rt, phase, desk, leases, excused) /\ SameTask(task'[q], task[q])
        BY <2>2, Zenon DEF ClientInv, TasksInv
      <3> QED BY <3>1, SameTaskFits, Zenon
    <2> QED BY <2>1, <2>2, Zenon
  <1>7. DeskInv'
    <2>1. ASSUME NEW q \in Task, task'[q].op \in Lifecycle
          PROVE  desk.lifecycle = q /\ ~desk.configured /\ (task'[q].pc # "retiring" => ~desk.ending)
      <3>1. CASE q = p
        BY <1>1, <2>1, <3>1, Zenon DEF ClientInv, DeskInv
      <3>2. CASE q # p
        BY <1>3, <2>1, <3>2, Zenon DEF ClientInv, DeskInv
      <3> QED BY <3>1, <3>2, Zenon
    <2>2. task'[Maintenance].pc = "off" <=> task[Maintenance].pc = "off"
      BY <1>1, <1>3, Zenon DEF Task
    <2> QED BY <2>1, <2>2, Zenon DEF ClientInv, DeskInv
  <1>8. StoppedInv'
    <2> SUFFICES ASSUME stopped'
                 PROVE  /\ rt.tunnel = None /\ ~rt.requested
                        /\ \A q \in Task : /\ task'[q].op # "connect"
                                           /\ task'[q].pc \notin {"begin", "probing", "connecting", "checking"} \cup InStop
      BY Zenon DEF StoppedInv
    <2>1. \A q \in Task \ {p} : /\ task'[q].op # "connect"
                                /\ task'[q].pc \notin {"begin", "probing", "connecting", "checking"} \cup InStop
      BY <1>3, Zenon DEF ClientInv, StoppedInv
    <2>2. task'[p].op # "connect" /\ task'[p].pc \notin {"begin", "probing", "connecting", "checking"} \cup InStop
      BY <1>1, Zenon DEF InStop
    <2> QED BY <2>1, <2>2, Zenon DEF ClientInv, StoppedInv
  <1>9. SnapshotIsTrue' /\ RuntimeInv'
    BY Zenon DEF ClientInv, SnapshotIsTrue, RuntimeInv
  <1>10. LeaseIsHeld'
    <2>1. \A l \in leases : l # task[p].lease
      <3>1. task[p].lease = None /\ leases \subseteq Lease
        BY Zenon DEF ClientInv, TypeOK, TasksInv, Sane
      <3> QED BY <3>1, ClientAssumption, Zenon
    <2> QED BY <1>3, <2>1 DEF ClientInv, LeaseIsHeld
  <1> QED BY <1>4, <1>5, <1>6, <1>7, <1>8, <1>9, <1>10, Zenon DEF ClientInv


(* enqueued as it is, or after a cancellation sent to the others. *)
LEMMA EnqueueKeeps ==
  ASSUME ClientInv, NEW p \in Task, NEW o \in Op, task[p].pc \in {"idle", "retiring"},
         task' = [task EXCEPT ![p] = Waiting(o)] \/ task' = [Cancel EXCEPT ![p] = Waiting(o)],
         queue' = Append(queue, p), UNCHANGED <<lock, rt, phase, desk, leases, excused, faults>>,
         tun' \in [Tunnel -> TunnelState],
         o \in Lifecycle => task[p].op \in Lifecycle /\ ~desk.ending,
         stopped' \in BOOLEAN, stopped' => stopped /\ o # "connect"
  PROVE  ClientInv'
  <1>1. Plain(Waiting(o), o, "waiting")
    BY IdleRecords, Zenon
  <1>2. \A q \in Task : SameTask(Cancel[q], task[q]) /\ SameTask(task[q], task[q])
    BY CancelSame, Zenon DEF ClientInv
  <1>3. task \in [Task -> TaskState] /\ Cancel \in [Task -> TaskState]
    <2>1. Cancel = [q \in Task |-> Cancel[q]]
      BY Zenon DEF Cancel
    <2> QED BY <1>2, <2>1, Zenon DEF SameTask, ClientInv, TypeOK
  <1>4. PICK f \in [Task -> TaskState] : /\ task' = [f EXCEPT ![p] = Waiting(o)]
                                         /\ \A q \in Task : SameTask(f[q], task[q])
    BY <1>2, <1>3, Zenon
  <1>5. task' \in [Task -> TaskState] /\ task'[p] = Waiting(o) /\ \A q \in Task \ {p} : SameTask(task'[q], task[q])
    BY <1>1, <1>4, Zenon DEF Plain
  <1>6. faults' \in 0..MaxFaults
    BY CalmFacts, Zenon DEF ClientInv
  <1>7. Plain(task'[p], o, "waiting")
    BY <1>1, <1>5, Zenon
  <1> QED BY <1>5, <1>6, <1>7, RequestKeeps, Zenon

\* So do the calls of connect, refresh and stop.
LEMMA CallsKeep ==
  ASSUME ClientInv, NEW p \in Command, CallConnect(p) \/ CallRefresh(p) \/ CallStop(p)
  PROVE  ClientInv'
  <1>1. p \in Task /\ tun \in [Tunnel -> TunnelState] /\ stopped \in BOOLEAN
    BY Zenon DEF Task, ClientInv, TypeOK
  <1>2. \A o \in {"connect", "refresh", "renew", "stop"} : o \in Op /\ o \notin Lifecycle
    BY Zenon DEF Op, Lifecycle
  <1>3. CASE CallConnect(p)
    BY <1>1, <1>2, <1>3, EnqueueKeeps, Zenon DEF CallConnect, Enqueue, Goto
  <1>4. CASE CallRefresh(p)
    <2>1. PICK o \in {"refresh", "renew"} : Enqueue(p, o)
      BY <1>4, Zenon DEF CallRefresh
    <2> QED BY <1>1, <1>2, <1>4, <2>1, EnqueueKeeps, Zenon DEF CallRefresh, Enqueue, Goto
  <1>5. CASE CallStop(p)
    BY <1>1, <1>2, <1>5, EnqueueKeeps, Zenon DEF CallStop
  <1> QED BY <1>3, <1>4, <1>5, Zenon

\* So does an enrolment or forgetting whose maintenance task has ended.
LEMMA RetiringKeeps ==
  ASSUME ClientInv, NEW p \in Task, Retiring(p)
  PROVE  ClientInv'
  <1>1. /\ task[p].pc = "retiring" /\ task[Maintenance].pc = "off"
        /\ task' = [Cancel EXCEPT ![p] = Waiting(task[p].op)] /\ queue' = Append(queue, p)
        /\ UNCHANGED <<lock, rt, phase, desk, tun, leases, excused, stopped, faults>>
    BY Zenon DEF Retiring
  <1>2. PICK o \in Op : o = task[p].op
    BY Zenon DEF ClientInv, TypeOK, TaskState
  <1>3. o \in Lifecycle
    BY <1>1, <1>2, Zenon DEF ClientInv, TasksInv, Sane
  <1>4. ~desk.ending /\ o # "connect"
    BY <1>1, <1>3, Zenon DEF ClientInv, DeskInv, Lifecycle
  <1>5. tun' \in [Tunnel -> TunnelState] /\ stopped' \in BOOLEAN
    BY <1>1, Zenon DEF ClientInv, TypeOK
  <1> QED BY <1>1, <1>2, <1>3, <1>4, <1>5, EnqueueKeeps, Zenon

\* So do the ticks of the maintenance task.
LEMMA TicksKeep ==
  ASSUME ClientInv, Tick \/ NetworkTick
  PROVE  ClientInv'
  <1>1. Maintenance \in Task /\ tun \in [Tunnel -> TunnelState] /\ stopped \in BOOLEAN
    BY Zenon DEF Task, ClientInv, TypeOK
  <1>2. \A o \in {"maintain", "verify"} : o \in Op /\ o \notin Lifecycle /\ o # "connect"
    BY Zenon DEF Op, Lifecycle
  <1>3. CASE Tick
    BY <1>1, <1>2, <1>3, EnqueueKeeps, Zenon DEF Tick, Enqueue, Goto
  <1>4. CASE NetworkTick
    <2>1. PICK t \in Tunnel : t = rt.tunnel
      BY <1>4, SameRuntime, Zenon DEF NetworkTick, Runtime
    <2>2. [tun[t] EXCEPT !.net = "same"] \in TunnelState
      BY <1>1 DEF TunnelState
    <2>3. tun' \in [Tunnel -> TunnelState]
      BY <1>1, <1>4, <2>1, <2>2, Zenon DEF NetworkTick
    <2> QED BY <1>1, <1>2, <1>4, <2>3, EnqueueKeeps, Zenon DEF NetworkTick, Enqueue, Goto
  <1> QED BY <1>3, <1>4, Zenon

-----------------------------------------------------------------------------
(* The desktop takes its session away. *)

(* Nobody has a lease in hand while nobody changes the session. *)
LEMMA NobodyUndoes ==
  ASSUME ClientInv, desk.lifecycle = None
  PROVE  \A q \in Task : task[q].op \notin Lifecycle /\ task[q].lease = None /\ q # None
  <1>1. \A q \in Task : q # None /\ task[q].op \notin Lifecycle
    BY ClientAssumption, Zenon DEF ClientInv, DeskInv
  <1>2. \A q \in Task : task[q].lease = None
    BY <1>1, Zenon DEF ClientInv, TasksInv, Sane
  <1> QED BY <1>1, <1>2, Zenon

(* Without a configured session the phase is nobody's concern. *)
LEMMA UnconfiguredFits ==
  ASSUME NEW k, NEW r, NEW ph, NEW d, NEW ls, NEW ex, Fits(k, r, ph, d, ls, ex), NEW e, ~e.configured
  PROVE  Fits(k, r, ph, e, ls, ex)
  BY Zenon DEF Fits

\* An enrolment or forgetting that takes the session from the desktop.
LEMMA RetireKeeps ==
  ASSUME ClientInv, NEW p \in Command, NEW o \in {"enroll", "forget"}, Retire(p, o)
  PROVE  ClientInv'
  <1>1. /\ task[p].pc = "idle" /\ desk.lifecycle = None /\ p \in Task /\ p # Maintenance /\ p # None
        /\ UNCHANGED <<lock, queue, rt, phase, tun, leases, excused, stopped, faults>>
    BY ClientAssumption, Zenon DEF Retire, Task
  <1>2. desk \in [configured : BOOLEAN, lifecycle : Command \cup {None}, ending : BOOLEAN]
    BY Zenon DEF ClientInv, TypeOK
  <1>3. /\ desk' \in [configured : BOOLEAN, lifecycle : Command \cup {None}, ending : BOOLEAN]
        /\ ~desk'.configured
    BY <1>2, Zenon DEF Retire
  <1>4. desk'.lifecycle = p /\ (desk'.ending <=> desk.configured)
    BY <1>2, Zenon DEF Retire
  <1>5. PICK c \in {"retiring", "new"} : c = IF desk.configured THEN "retiring" ELSE "new"
    BY Zenon
  <1>6. PICK k : k = [Idle EXCEPT !.op = o, !.pc = c]
    BY Zenon
  <1>7. Goto(p, k)
    BY <1>5, <1>6, Zenon DEF Retire
  <1>8. Plain(k, o, c)
    BY <1>6, IdleRecords, Names, Zenon
  <1>9. /\ task' \in [Task -> TaskState] /\ task'[p] = k
        /\ \A q \in Task \ {p} : task'[q] = task[q]
    BY <1>1, <1>7, <1>8, Zenon DEF Goto, Plain, ClientInv, TypeOK
  <1>10. \A q \in Task : task[q].op \notin Lifecycle /\ task[q].lease = None
    BY <1>1, NobodyUndoes, Zenon
  <1>11. TypeOK'
    <2>1. \A q \in Task : task'[q].pc \notin {"idle", "off", "waiting", "retiring", "new", "exiting"} => lock' = q
      BY <1>1, <1>8, <1>9, Zenon DEF Plain, ClientInv, TypeOK
    <2> QED BY <1>1, <1>3, <1>9, <2>1, Zenon DEF ClientInv, TypeOK
  <1>12. QueueInv'
    <2>1. \A i \in DOMAIN queue : queue[i] \in Task /\ queue[i] # p
      BY <1>1 DEF ClientInv, QueueInv, TypeOK
    <2> QED BY <1>1, <1>9, <2>1, Zenon DEF ClientInv, QueueInv
  <1>13. TasksInv'
    <2>1. c = "new" => rt.session = None
      BY <1>1, <1>5, Zenon DEF ClientInv, DeskInv
    <2>2. Sane(k) /\ Fits(k, rt, phase, desk', leases, excused)
      BY <1>3, <1>8, <2>1, Zenon DEF Plain, Sane, Fits, InStop, Silent, SilentStop, Lifecycle
    <2>3. \A q \in Task \ {p} : Sane(task[q]) /\ Fits(task[q], rt, phase, desk', leases, excused)
      BY <1>3, UnconfiguredFits, Zenon DEF ClientInv, TasksInv
    <2> QED BY <1>1, <1>9, <2>2, <2>3, Zenon DEF TasksInv
  <1>14. DeskInv'
    <2>1. ~desk.ending /\ (task[Maintenance].pc = "off" <=> ~desk.configured)
      BY <1>1, Zenon DEF ClientInv, DeskInv
    <2>2. task'[Maintenance] = task[Maintenance]
      BY <1>1, <1>9, Zenon DEF Task
    <2>3. \A q \in Task : task'[q].op \in Lifecycle => q = p
      BY <1>9, <1>10, Zenon
    <2>4. k.pc # "retiring" => ~desk'.ending
      BY <1>4, <1>5, <1>8, Zenon DEF Plain
    <2> QED BY <1>1, <1>3, <1>4, <1>9, <2>1, <2>2, <2>3, <2>4, Zenon DEF DeskInv
  <1>15. StoppedInv'
    BY <1>1, <1>8, <1>9, Zenon DEF ClientInv, StoppedInv, Plain, InStop
  <1>16. SnapshotIsTrue' /\ RuntimeInv' /\ LeaseIsHeld'
    <2>1. \A l \in leases : l = rt.session \/ l \in excused
      BY <1>10, ClientAssumption DEF ClientInv, LeaseIsHeld, TypeOK
    <2> QED BY <1>1, <1>3, <2>1, Zenon DEF ClientInv, SnapshotIsTrue, RuntimeInv, LeaseIsHeld
  <1> QED BY <1>11, <1>12, <1>13, <1>14, <1>15, <1>16, Zenon DEF ClientInv


(* The queue without p: each of the others, once. *)
LEMMA WithoutQueue ==
  ASSUME NEW q \in Seq(Task), NEW p \in Task, \A i, j \in DOMAIN q : q[i] = q[j] => i = j
  PROVE  /\ Without(q, p) \in Seq(Task)
         /\ \A i \in DOMAIN Without(q, p) : \E j \in DOMAIN q : Without(q, p)[i] = q[j] /\ q[j] # p
         /\ \A i, j \in DOMAIN Without(q, p) : Without(q, p)[i] = Without(q, p)[j] => i = j
  <1>1. CASE \A i \in DOMAIN q : q[i] # p
    <2>1. Without(q, p) = q
      BY <1>1, Zenon DEF Without
    <2> QED BY <1>1, <2>1, Zenon
  <1>2. CASE \E i \in DOMAIN q : q[i] = p
    <2>1. PICK at : at = CHOOSE i \in DOMAIN q : q[i] = p
      BY Zenon
    <2>2. at \in DOMAIN q /\ q[at] = p
      BY <1>2, <2>1, Zenon
    <2>3. PICK w : w = [i \in 1..Len(q) - 1 |-> IF i < at THEN q[i] ELSE q[i + 1]]
      BY Zenon
    <2>4. Without(q, p) = w
      BY <1>2, <2>1, <2>3, Zenon DEF Without
    <2>5. DOMAIN q = 1..Len(q) /\ Len(q) \in Nat /\ at \in 1..Len(q) /\ Len(q) - 1 \in Nat
      BY <2>2
    <2>6. DOMAIN w = 1..Len(q) - 1 /\ \A i \in 1..Len(q) - 1 : w[i] = IF i < at THEN q[i] ELSE q[i + 1]
      BY <2>3, Zenon
    <2>7. PICK f : f = [i \in 1..Len(q) - 1 |-> IF i < at THEN i ELSE i + 1]
      BY Zenon
    <2>8. \A i \in 1..Len(q) - 1 : f[i] \in 1..Len(q) /\ f[i] # at /\ w[i] = q[f[i]]
      BY <2>5, <2>6, <2>7
    <2>9. \A i, j \in 1..Len(q) - 1 : f[i] = f[j] => i = j
      BY <2>5, <2>7
    <2>10. \A i \in 1..Len(q) - 1 : w[i] \in Task
      BY <2>5, <2>8
    <2>11. w \in Seq(Task)
      BY <2>3, <2>5, <2>6, <2>10
    <2>12. \A i \in DOMAIN w : \E j \in DOMAIN q : w[i] = q[j] /\ q[j] # p
      <3> SUFFICES ASSUME NEW i \in DOMAIN w PROVE \E j \in DOMAIN q : w[i] = q[j] /\ q[j] # p
        BY Zenon
      <3>1. f[i] \in DOMAIN q /\ f[i] # at /\ w[i] = q[f[i]]
        BY <2>5, <2>6, <2>8, Zenon
      <3>2. q[f[i]] # p
        BY <2>2, <3>1, Zenon
      <3> QED BY <3>1, <3>2, Zenon
    <2>13. \A i, j \in DOMAIN w : w[i] = w[j] => i = j
      <3> SUFFICES ASSUME NEW i \in DOMAIN w, NEW j \in DOMAIN w, w[i] = w[j] PROVE i = j
        BY Zenon
      <3>1. f[i] = f[j]
        BY <2>5, <2>6, <2>8
      <3> QED BY <2>6, <2>9, <3>1, Zenon
    <2> QED BY <2>4, <2>11, <2>12, <2>13, Zenon
  <1> QED BY <1>1, <1>2, Zenon

\* The exit of the app, which takes the session from the desktop.
LEMMA ExitKeeps ==
  ASSUME ClientInv, NEW p \in Command, Exit(p)
  PROVE  ClientInv'
  <1>1. /\ task[p].pc = "idle" /\ desk.lifecycle = None /\ p \in Task /\ p # Maintenance /\ p # None
        /\ Maintenance \in Task /\ UNCHANGED <<rt, phase, leases, excused, stopped, faults>>
    BY ClientAssumption, Zenon DEF Exit, Task
  <1>2. /\ desk' \in [configured : BOOLEAN, lifecycle : Command \cup {None}, ending : BOOLEAN]
        /\ ~desk'.configured /\ ~desk'.ending
    BY Zenon DEF Exit
  <1>3. desk'.lifecycle = p
    BY Zenon DEF Exit
  <1>4. PICK k : k = [Idle EXCEPT !.op = "exit", !.pc = "retiring"]
    BY Zenon
  <1>5. Plain(k, "exit", "retiring") /\ Plain(Off, "none", "off")
    BY <1>4, IdleRecords, Names, Zenon
  <1>6. /\ task' \in [Task -> TaskState] /\ task'[p] = k /\ task'[Maintenance] = Off
        /\ \A q \in Task \ {p, Maintenance} : task'[q] = task[q]
    <2>1. task' = [task EXCEPT ![p] = k, ![Maintenance] = Off]
      BY <1>4, Zenon DEF Exit
    <2> QED BY <1>1, <1>5, <2>1, Zenon DEF Plain, ClientInv, TypeOK
  <1>7. \A q \in Task : task[q].op \notin Lifecycle /\ task[q].lease = None
    BY <1>1, NobodyUndoes, Zenon
  <1>8. lock' = (IF lock = Maintenance THEN None ELSE lock) /\ queue' = Without(queue, Maintenance)
    BY Zenon DEF Exit, Abort
  <1>9. tun' \in [Tunnel -> TunnelState]
    BY CalmFacts, Zenon DEF Exit, Abort, ClientInv
  <1>10. /\ queue \in Seq(Task) /\ queue' \in Seq(Task)
         /\ \A i \in DOMAIN queue' : \E j \in DOMAIN queue : queue'[i] = queue[j] /\ queue[j] # Maintenance
         /\ \A i, j \in DOMAIN queue' : queue'[i] = queue'[j] => i = j
    BY <1>1, <1>8, WithoutQueue DEF ClientInv, TypeOK, QueueInv
  <1>11. TypeOK'
    <2>1. \A q \in Task : task'[q].pc \notin {"idle", "off", "waiting", "retiring", "new", "exiting"} => lock' = q
      BY <1>5, <1>6, <1>8, Zenon DEF Plain, ClientInv, TypeOK
    <2>2. lock' \in Task \cup {None}
      BY <1>8, Zenon DEF ClientInv, TypeOK
    <2> QED BY <1>1, <1>2, <1>6, <1>9, <1>10, <2>1, <2>2, Zenon DEF ClientInv, TypeOK
  <1>12. QueueInv'
    <2>1. \A j \in DOMAIN queue : queue[j] \in Task /\ queue[j] # p /\ task[queue[j]].pc = "waiting"
      BY <1>1, <1>10 DEF ClientInv, QueueInv
    <2> QED BY <1>6, <1>10, <2>1 DEF QueueInv
  <1>13. TasksInv'
    <2>1. Sane(k) /\ Fits(k, rt, phase, desk', leases, excused)
      BY <1>5, Zenon DEF Plain, Sane, Fits, InStop, Silent, SilentStop, Lifecycle
    <2>2. Sane(Off) /\ Fits(Off, rt, phase, desk', leases, excused)
      <3>1. PICK j : j = Off
        BY Zenon
      <3> QED BY <1>5, <3>1, Zenon DEF Plain, Sane, Fits, InStop, Silent, SilentStop
    <2>3. \A q \in Task : Sane(task[q]) /\ Fits(task[q], rt, phase, desk', leases, excused)
      BY <1>2, UnconfiguredFits, Zenon DEF ClientInv, TasksInv
    <2> QED BY <1>1, <1>6, <2>1, <2>2, <2>3, Zenon DEF TasksInv
  <1>14. DeskInv'
    <2>1. \A q \in Task : task'[q].op \in Lifecycle => q = p
      BY <1>5, <1>6, <1>7, Zenon DEF Plain, Lifecycle
    <2>2. task'[Maintenance].pc = "off"
      BY <1>5, <1>6, Zenon DEF Plain
    <2> QED BY <1>1, <1>2, <1>3, <2>1, <2>2, Zenon DEF DeskInv
  <1>15. StoppedInv'
    BY <1>1, <1>5, <1>6, Zenon DEF ClientInv, StoppedInv, Plain, InStop
  <1>16. SnapshotIsTrue' /\ RuntimeInv' /\ LeaseIsHeld'
    <2>1. \A l \in leases : l = rt.session \/ l \in excused
      BY <1>7, ClientAssumption, ZenonT(30) DEF ClientInv, LeaseIsHeld, TypeOK
    <2> QED BY <1>1, <1>2, <2>1, Zenon DEF ClientInv, SnapshotIsTrue, RuntimeInv, LeaseIsHeld
  <1> QED BY <1>11, <1>12, <1>13, <1>14, <1>15, <1>16, Zenon DEF ClientInv

\* The end of the maintenance task that was told to end.
LEMMA MaintenanceEndsKeeps ==
  ASSUME ClientInv, MaintenanceEnds
  PROVE  ClientInv'
  <1>1. /\ task[Maintenance].pc = "idle" /\ desk.ending /\ Goto(Maintenance, Off) /\ Maintenance \in Task
        /\ desk' = [desk EXCEPT !.ending = FALSE]
        /\ UNCHANGED <<lock, queue, rt, phase, tun, leases, excused, stopped, faults>>
    BY Zenon DEF MaintenanceEnds, Task
  <1>2. desk \in [configured : BOOLEAN, lifecycle : Command \cup {None}, ending : BOOLEAN]
    BY Zenon DEF ClientInv, TypeOK
  <1>3. /\ desk' \in [configured : BOOLEAN, lifecycle : Command \cup {None}, ending : BOOLEAN]
        /\ ~desk'.ending
    BY <1>1, <1>2, Zenon
  <1>4. desk'.lifecycle = desk.lifecycle /\ (desk'.configured <=> desk.configured)
    BY <1>1, <1>2, Zenon
  <1>5. ~desk.configured /\ desk.lifecycle # None
    BY <1>1, Zenon DEF ClientInv, DeskInv
  <1>6. Plain(Off, "none", "off")
    BY IdleRecords, Zenon
  <1>7. /\ task' \in [Task -> TaskState] /\ task'[Maintenance] = Off
        /\ \A q \in Task \ {Maintenance} : task'[q] = task[q]
    BY <1>1, <1>6, Zenon DEF Goto, Plain, ClientInv, TypeOK
  <1>8. TypeOK'
    <2>1. \A q \in Task : task'[q].pc \notin {"idle", "off", "waiting", "retiring", "new", "exiting"} => lock' = q
      BY <1>1, <1>6, <1>7, Zenon DEF Plain, ClientInv, TypeOK
    <2> QED BY <1>1, <1>3, <1>7, <2>1, Zenon DEF ClientInv, TypeOK
  <1>9. QueueInv'
    <2>1. \A i \in DOMAIN queue : queue[i] \in Task /\ queue[i] # Maintenance
      BY <1>1 DEF ClientInv, QueueInv, TypeOK
    <2> QED BY <1>1, <1>7, <2>1, Zenon DEF ClientInv, QueueInv
  <1>10. TasksInv'
    <2>1. Sane(Off) /\ Fits(Off, rt, phase, desk', leases, excused)
      <3>1. PICK j : j = Off
        BY Zenon
      <3> QED BY <1>6, <3>1, Zenon DEF Plain, Sane, Fits, InStop, Silent, SilentStop
    <2>2. \A q \in Task : Sane(task[q]) /\ Fits(task[q], rt, phase, desk', leases, excused)
      BY <1>4, <1>5, UnconfiguredFits, Zenon DEF ClientInv, TasksInv
    <2> QED BY <1>1, <1>7, <2>1, <2>2, Zenon DEF TasksInv
  <1>11. DeskInv'
    <2>1. \A q \in Task : task'[q].op \in Lifecycle => task[q].op \in Lifecycle
      BY <1>6, <1>7, Zenon DEF Plain, Lifecycle
    <2>2. task'[Maintenance].pc = "off"
      BY <1>6, <1>7, Zenon DEF Plain
    <2> QED BY <1>1, <1>3, <1>4, <1>5, <2>1, <2>2, Zenon DEF ClientInv, DeskInv
  <1>12. StoppedInv'
    BY <1>1, <1>6, <1>7, Zenon DEF ClientInv, StoppedInv, Plain, InStop
  <1>13. SnapshotIsTrue' /\ RuntimeInv'
    BY <1>1, <1>4, <1>5, Zenon DEF ClientInv, SnapshotIsTrue, RuntimeInv
  <1>14. LeaseIsHeld'
    <2>1. \A l \in leases : l # task[Maintenance].lease
      BY <1>1, ClientAssumption DEF ClientInv, TypeOK, TasksInv, Sane
    <2> QED BY <1>1, <1>7, <2>1, Zenon DEF ClientInv, LeaseIsHeld
  <1> QED BY <1>8, <1>9, <1>10, <1>11, <1>12, <1>13, <1>14, Zenon DEF ClientInv


-----------------------------------------------------------------------------
(* What runs beside the operations. *)

\* A step that changes tunnels and faults alone.
LEMMA BesideKeeps ==
  ASSUME ClientInv, Beside, tun' \in [Tunnel -> TunnelState], faults' \in 0..MaxFaults
  PROVE  ClientInv'
  <1>1. UNCHANGED <<task, lock, queue, rt, phase, desk, leases, excused, stopped>>
    BY Zenon DEF Beside
  <1>2. TypeOK'
    BY <1>1, Zenon DEF ClientInv, TypeOK
  <1>3. QueueInv' /\ TasksInv' /\ RuntimeInv' /\ DeskInv'
    BY <1>1, Zenon DEF ClientInv, QueueInv, TasksInv, RuntimeInv, DeskInv
  <1>4. StoppedInv' /\ SnapshotIsTrue' /\ LeaseIsHeld'
    BY <1>1, Zenon DEF ClientInv, StoppedInv, SnapshotIsTrue, LeaseIsHeld
  <1> QED BY <1>2, <1>3, <1>4, Zenon DEF ClientInv

\* The monitor, a failing engine and the reaper change tunnels alone.
LEMMA TunnelsKeep ==
  ASSUME ClientInv, NEW t \in Tunnel, Monitor(t) \/ EngineFails(t) \/ Reap(t)
  PROVE  ClientInv'
  <1>1. tun[t] \in TunnelState /\ tun \in [Tunnel -> TunnelState] /\ TypeOK
    BY Zenon DEF ClientInv, TypeOK
  <1>2. CASE Heartbeat(t)
    <2>1. PICK n \in {"same", "moved", "offline"} : tun' = [tun EXCEPT ![t].net = n]
      BY <1>2, Zenon DEF Heartbeat
    <2>2. [tun[t] EXCEPT !.net = n] \in TunnelState
      BY <1>1, Zenon DEF TunnelState
    <2> QED BY <1>1, <1>2, <2>1, <2>2, CalmFacts, BesideKeeps, Zenon DEF Heartbeat
  <1>3. CASE HeartbeatEnds(t)
    <2>1. [[tun[t] EXCEPT !.mon = "ending"] EXCEPT !.net = "same"] \in TunnelState
      BY <1>1, Zenon DEF TunnelState
    <2>2. tun' \in [Tunnel -> TunnelState]
      BY <1>1, <1>3, <2>1, Zenon DEF HeartbeatEnds, TunnelState
    <2> QED BY <1>1, <1>3, <2>2, CalmFacts, BesideKeeps, Zenon DEF HeartbeatEnds
  <1>4. CASE MonitorEnds(t)
    <2>1. PICK over : over = IF Held(t) THEN [tun[t] EXCEPT !.mon = "done", !.view = "failed"] ELSE NoTunnel
      BY Zenon
    <2>2. over \in TunnelState
      BY <1>1, <2>1, TunnelRecords, Zenon
    <2>3. (RemoteStops(t, over) \/ RemoteFails(t, over)) /\ Beside
      BY <1>4, <2>1, Zenon DEF MonitorEnds
    <2> QED BY <1>1, <2>2, <2>3, RemoteFacts, BesideKeeps, Zenon
  <1>5. CASE MonitorStops(t)
    <2>1. PICK stop : stop = IF Held(t) THEN [NoTunnel EXCEPT !.mon = "done", !.view = "stopped", !.answer = "ok"]
                             ELSE NoTunnel
      BY Zenon
    <2>2. PICK fail : fail = IF Held(t) THEN [NoTunnel EXCEPT !.mon = "done", !.view = "failed", !.answer = "error"]
                             ELSE NoTunnel
      BY Zenon
    <2>3. stop \in TunnelState /\ fail \in TunnelState
      BY <2>1, <2>2, TunnelRecords, Zenon
    <2>4. (RemoteStops(t, stop) \/ RemoteFails(t, fail)) /\ Beside
      BY <1>5, <2>1, <2>2, Zenon DEF MonitorStops
    <2> QED BY <1>1, <2>3, <2>4, RemoteFacts, BesideKeeps, Zenon
  <1>6. CASE EngineFails(t) \/ Reap(t)
    <2>1. [tun[t] EXCEPT !.engine = "down"] \in TunnelState
      BY <1>1, TunnelRecords, Zenon
    <2>2. tun' = [tun EXCEPT ![t].engine = "down"] /\ Beside /\ UNCHANGED faults
      BY <1>6, Zenon DEF EngineFails, Reap
    <2> QED BY <1>1, <2>1, <2>2, CalmFacts, BesideKeeps, Zenon
  <1> QED BY <1>2, <1>3, <1>4, <1>5, <1>6, Zenon DEF Monitor

\* A lease that ends at the server.
LEMMA LeaseEndsKeeps ==
  ASSUME ClientInv, NEW l \in Lease, LeaseEnds(l)
  PROVE  ClientInv'
  <1>1. /\ leases' = leases \ {l} /\ excused' = excused \ {l}
        /\ UNCHANGED <<task, lock, queue, rt, phase, desk, tun, stopped, faults>>
    BY Zenon DEF LeaseEnds
  <1>2. TypeOK'
    BY <1>1, Zenon DEF ClientInv, TypeOK
  <1>3. TasksInv'
    <2>1. ASSUME NEW k, Fits(k, rt, phase, desk, leases, excused)
          PROVE  Fits(k, rt, phase, desk, leases', excused')
      BY <1>1, <2>1, Zenon DEF Fits
    <2> QED BY <1>1, <2>1, Zenon DEF ClientInv, TasksInv
  <1>4. QueueInv' /\ RuntimeInv' /\ DeskInv' /\ StoppedInv' /\ SnapshotIsTrue'
    BY <1>1, Zenon DEF ClientInv, QueueInv, RuntimeInv, DeskInv, StoppedInv, SnapshotIsTrue
  <1>5. LeaseIsHeld'
    BY <1>1, Zenon DEF ClientInv, LeaseIsHeld
  <1> QED BY <1>2, <1>3, <1>4, <1>5, Zenon DEF ClientInv

\* A session that falls due or lapses.
LEMMA TimePassesKeeps ==
  ASSUME ClientInv, TimePasses
  PROVE  ClientInv'
  <1>1. UNCHANGED <<task, lock, queue, phase, desk, tun, leases, excused, stopped, faults>>
    BY Zenon DEF TimePasses
  <1>2. rt' \in Runtime /\ rt'.session = rt.session /\ rt'.tunnel = rt.tunnel /\ rt'.requested = rt.requested
    <2>1. rt \in Runtime
      BY Zenon DEF ClientInv, TypeOK
    <2> QED BY <2>1, Zenon DEF TimePasses, Runtime
  <1>3. TypeOK'
    BY <1>1, <1>2, Zenon DEF ClientInv, TypeOK
  <1>4. TasksInv'
    <2>1. ASSUME NEW k, Fits(k, rt, phase, desk, leases, excused)
          PROVE  Fits(k, rt', phase, desk, leases, excused)
      BY <1>2, <2>1, Zenon DEF Fits, Settled
    <2> QED BY <1>1, <2>1, Zenon DEF ClientInv, TasksInv
  <1>5. QueueInv' /\ RuntimeInv' /\ DeskInv' /\ StoppedInv' /\ SnapshotIsTrue' /\ LeaseIsHeld'
    BY <1>1, <1>2, Zenon DEF ClientInv, QueueInv, RuntimeInv, DeskInv, StoppedInv, SnapshotIsTrue,
          LeaseIsHeld
  <1> QED BY <1>3, <1>4, <1>5, Zenon DEF ClientInv

(* The app at its start, whatever is left of it at the server. *)
LEMMA FreshStart ==
  ASSUME NEW tk, tk = [p \in Task |-> IF p = Maintenance THEN Off ELSE Idle]
  PROVE  /\ tk \in [Task -> TaskState]
         /\ \A q \in Task : /\ tk[q].pc \in {"idle", "off"} /\ tk[q].op = "none"
                            /\ Sane(tk[q]) /\ \A r, ph, d, ls, ex : Fits(tk[q], r, ph, d, ls, ex)
         /\ tk[Maintenance].pc = "off"
  <1>1. Plain(Off, "none", "off") /\ Plain(Idle, "none", "idle")
    BY IdleRecords, Zenon
  <1>2. Sane(Off) /\ \A r, ph, d, ls, ex : Fits(Off, r, ph, d, ls, ex)
    <2>1. PICK j : j = Off
      BY Zenon
    <2> QED BY <1>1, <2>1, Zenon DEF Plain, Sane, Fits, InStop, Silent, SilentStop
  <1>3. \A q \in Task : tk[q] = Off \/ tk[q] = Idle
    BY Zenon
  <1>4. Off \in TaskState /\ Idle \in TaskState /\ Off.pc = "off" /\ Off.op = "none" /\ Idle.pc = "idle" /\ Idle.op = "none"
    BY <1>1, Zenon DEF Plain
  <1>5. tk \in [Task -> TaskState]
    BY <1>4, Zenon
  <1>6. tk[Maintenance] = Off
    BY Zenon DEF Task
  <1> QED BY <1>2, <1>3, <1>4, <1>5, <1>6, IdleFits, Zenon

\* A desktop that starts has no session.
LEMMA FreshDesk ==
  /\ NoDesk \in [configured : BOOLEAN, lifecycle : Command \cup {None}, ending : BOOLEAN]
  /\ ~NoDesk.configured /\ ~NoDesk.ending /\ NoDesk.lifecycle = None
  BY Zenon DEF NoDesk

\* An app that is gone and starts again.
LEMMA AppGoneKeeps ==
  ASSUME ClientInv, AppGone
  PROVE  ClientInv'
  <1>1. /\ task' = [p \in Task |-> IF p = Maintenance THEN Off ELSE Idle]
        /\ lock' = None /\ queue' = <<>> /\ rt' = NewRuntime /\ phase' = "disconnected" /\ desk' = NoDesk
        /\ tun' = [t \in Tunnel |-> IF tun[t].engine = "up" THEN Unclaimed ELSE NoTunnel]
        /\ excused' = leases /\ UNCHANGED <<leases, stopped>>
    BY Zenon DEF AppGone
  <1>2. faults' \in 0..MaxFaults
    BY CalmFacts, Zenon DEF AppGone, ClientInv
  <1>3. tun' \in [Tunnel -> TunnelState]
    BY <1>1, TunnelRecords, Zenon
  <1>4. PICK tk : tk = task'
    BY Zenon
  <1>5. /\ tk \in [Task -> TaskState]
        /\ \A q \in Task : /\ tk[q].pc \in {"idle", "off"} /\ tk[q].op = "none"
                           /\ Sane(tk[q]) /\ \A r, ph, d, ls, ex : Fits(tk[q], r, ph, d, ls, ex)
        /\ tk[Maintenance].pc = "off"
    BY <1>1, <1>4, FreshStart, Zenon
  <1>6. queue' \in Seq(Task) /\ DOMAIN queue' = {}
    BY <1>1
  <1>7. TypeOK'
    BY <1>1, <1>2, <1>3, <1>4, <1>5, <1>6, EmptyRuntime, FreshDesk, Zenon DEF ClientInv, TypeOK, Phase
  <1>8. QueueInv' /\ TasksInv'
    BY <1>4, <1>5, <1>6, Zenon DEF QueueInv, TasksInv
  <1>9. RuntimeInv'
    BY <1>1, EmptyRuntime, Zenon DEF RuntimeInv
  <1>10. DeskInv'
    BY <1>1, <1>4, <1>5, EmptyRuntime, FreshDesk, Zenon DEF DeskInv, Lifecycle
  <1>11. StoppedInv'
    BY <1>1, <1>4, <1>5, EmptyRuntime, Zenon DEF StoppedInv, InStop
  <1>12. SnapshotIsTrue' /\ LeaseIsHeld'
    BY <1>1, FreshDesk, Zenon DEF SnapshotIsTrue, LeaseIsHeld
  <1> QED BY <1>7, <1>8, <1>9, <1>10, <1>11, <1>12, Zenon DEF ClientInv

\* The invariant holds when the app starts.
LEMMA InitHolds == Init => ClientInv
  <1> SUFFICES ASSUME Init PROVE ClientInv
    BY Zenon
  <1>1. /\ task = [p \in Task |-> IF p = Maintenance THEN Off ELSE Idle]
        /\ lock = None /\ queue = <<>> /\ rt = NewRuntime /\ phase = "disconnected" /\ desk = NoDesk
        /\ tun = [t \in Tunnel |-> NoTunnel] /\ leases = {} /\ excused = {} /\ stopped = FALSE /\ faults = 0
    BY Zenon DEF Init
  <1>2. faults \in 0..MaxFaults /\ stopped \in BOOLEAN /\ ~stopped
    <2>1. faults \in 0..MaxFaults
      BY <1>1, ClientAssumption
    <2>2. stopped \in BOOLEAN /\ ~stopped
      BY <1>1, Zenon
    <2> QED BY <2>1, <2>2, Zenon
  <1>3. tun \in [Tunnel -> TunnelState]
    BY <1>1, TunnelRecords, Zenon
  <1>4. /\ task \in [Task -> TaskState]
        /\ \A q \in Task : /\ task[q].pc \in {"idle", "off"} /\ task[q].op = "none"
                           /\ Sane(task[q]) /\ \A r, ph, d, ls, ex : Fits(task[q], r, ph, d, ls, ex)
        /\ task[Maintenance].pc = "off"
    BY <1>1, FreshStart, Zenon
  <1>5. queue \in Seq(Task) /\ DOMAIN queue = {}
    BY <1>1
  <1>6. TypeOK
    BY <1>1, <1>2, <1>3, <1>4, <1>5, EmptyRuntime, FreshDesk, Zenon DEF TypeOK, Phase
  <1>7. QueueInv /\ TasksInv
    BY <1>4, <1>5, Zenon DEF QueueInv, TasksInv
  <1>8. RuntimeInv /\ DeskInv
    BY <1>1, <1>4, EmptyRuntime, FreshDesk, Zenon DEF RuntimeInv, DeskInv, Lifecycle
  <1>9. StoppedInv /\ SnapshotIsTrue /\ LeaseIsHeld
    BY <1>1, <1>2, FreshDesk, Zenon DEF StoppedInv, SnapshotIsTrue, LeaseIsHeld
  <1> QED BY <1>6, <1>7, <1>8, <1>9, Zenon DEF ClientInv

=============================================================================
