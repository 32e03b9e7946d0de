---------------------------- MODULE SealedGateway ---------------------------
(***************************************************************************)
(* The gateway behind POST /v1/sealed: it opens a request, compares the time *)
(* inside with its clock, and dispatches it unless its replay window has     *)
(* seen it.  Every sealed request has its own identity (the HPKE             *)
(* encapsulation), so a request is a value of Request, and the network may   *)
(* deliver it late and any number of times.                                  *)
(*                                                                         *)
(* A handler reads the clock once, before it takes the mutex on the window,  *)
(* and any time may pass in between.                                         *)
(***************************************************************************)
EXTENDS Integers, FiniteSets, Sequences

CONSTANTS Request,   \* sealed requests
          Handler,   \* requests being handled at the same time
          MaxTime,   \* bound: the last second of a run
          Skew,      \* SEALED_MAX_CLOCK_SKEW_SECONDS
          Window,    \* window_seconds
          Capacity   \* REPLAY_CAPACITY

ASSUME GatewayAssumption ==
    /\ MaxTime \in Nat
    /\ Skew \in Nat
    /\ Window \in Nat
    /\ Capacity \in Nat \ {0}
    /\ Window >= 2 * Skew

VARIABLES clock,     \* unix_time()
          stamp,     \* sent_at_epoch_seconds of each request, Unsent before
          task,      \* per handler: the request and the time it works with
          order,     \* ReplayWindow::order
          seen,      \* ReplayWindow::seen
          reply,     \* the last answer given
          answered,  \* history: requests that were dispatched
          lost       \* history: requests the window lost, until they are
                     \* entered again: evicted from a full window, forgotten
                     \* by a restart, or aged out while a handler that had
                     \* let them in waited for the mutex

gatewayVars == <<clock, stamp, task, order, seen, reply, answered, lost>>

Unsent == -1

Entry == [id : Request, time : Nat]

Idle == [id |-> Unsent, time |-> Unsent]

NoReply == [id |-> Unsent, kind |-> "none", time |-> Unsent]

GatewayInit ==
    /\ clock = 0
    /\ stamp = [r \in Request |-> Unsent]
    /\ task = [h \in Handler |-> Idle]
    /\ order = << >>
    /\ seen = {}
    /\ reply = NoReply
    /\ answered = {}
    /\ lost = {}

Busy(h) == task[h] # Idle

Reply(id, kind, now) == reply' = [id |-> id, kind |-> kind, time |-> now]

-----------------------------------------------------------------------------
(* A request is opened and its time compared with the clock. *)
Skewed(sent, now) == sent - now > Skew \/ now - sent > Skew

Open(h) ==
    /\ ~ Busy(h)
    /\ \E id \in Request :
         /\ stamp[id] # Unsent
         /\ \/ /\ Skewed(stamp[id], clock)
               /\ Reply(id, "skew", clock)
               /\ UNCHANGED task
            \/ /\ ~ Skewed(stamp[id], clock)
               /\ task' = [task EXCEPT ![h] = [id |-> id, time |-> clock]]
               /\ UNCHANGED reply
    /\ UNCHANGED <<clock, stamp, order, seen, answered, lost>>

(* Mutation: an entry goes a second too early. *)
AgedOutEarly(n, now) ==
    /\ \A i \in 1 .. n : now - order[i].time >= Window
    /\ n < Len(order) => now - order[n + 1].time < Window

(* The first n entries are those that purging at `now` removes. *)
AgedOut(n, now) ==
    /\ \A i \in 1 .. n : now - order[i].time > Window
    /\ n < Len(order) => now - order[n + 1].time <= Window

Entries(s) == {s[i].id : i \in DOMAIN s}

(* Mutation: an evicted request stays in the set. *)
InsertLeaking(id, now, kept, left, late) ==
    /\ id \notin left
    /\ order' = Append(IF Len(kept) >= Capacity THEN Tail(kept) ELSE kept,
                       [id |-> id, time |-> now])
    /\ seen' = left \cup {id}
    /\ answered' = answered \cup {id}
    /\ Reply(id, "answered", now)
    /\ lost' = (lost \cup late) \ {id}

(* insert, on a window that purging left as `kept` and `left`; history:     *)
(* `late` are requests that it purged and another handler still waits with. *)
Insert(id, now, kept, left, late) ==
    \/ /\ id \in left
       /\ order' = kept
       /\ seen' = left
       /\ Reply(id, "replay", now)
       /\ lost' = lost \cup late
       /\ UNCHANGED answered
    \/ /\ id \notin left
       /\ \/ /\ Len(kept) >= Capacity
             /\ order' = Append(Tail(kept), [id |-> id, time |-> now])
             /\ seen' = (left \ {Head(kept).id}) \cup {id}
             /\ lost' = (lost \cup late \cup {Head(kept).id}) \ {id}
          \/ /\ Len(kept) < Capacity
             /\ order' = Append(kept, [id |-> id, time |-> now])
             /\ seen' = left \cup {id}
             /\ lost' = (lost \cup late) \ {id}
       /\ answered' = answered \cup {id}
       /\ Reply(id, "answered", now)

(* What the other handlers are about to bring to the window. *)
WaitingBeside(h) == {task[k].id : k \in {j \in Handler : j # h /\ Busy(j)}}

(* The request meets the window, and is dispatched if the window is fresh. *)
Dispatch(h) ==
    /\ Busy(h)
    /\ \E n \in 0 .. Len(order) :
         /\ AgedOut(n, task[h].time)
         /\ LET aged == {order[i].id : i \in 1 .. n}
            IN  Insert(task[h].id, task[h].time, SubSeq(order, n + 1, Len(order)),
                       seen \ aged, aged \cap WaitingBeside(h))
    /\ task' = [task EXCEPT ![h] = Idle]
    /\ UNCHANGED <<clock, stamp>>

(* The window lives in memory only. *)
Restart ==
    /\ task' = [h \in Handler |-> Idle]
    /\ order' = << >>
    /\ seen' = {}
    /\ lost' = lost \cup seen
    /\ UNCHANGED <<clock, stamp, reply, answered>>

Tick ==
    /\ clock < MaxTime
    /\ clock' = clock + 1
    /\ UNCHANGED <<stamp, task, order, seen, reply, answered, lost>>

(* Somebody seals a request, with any time in it. *)
Seal ==
    /\ \E id \in Request, sent \in Nat :
         /\ stamp[id] = Unsent
         /\ stamp' = [stamp EXCEPT ![id] = sent]
    /\ UNCHANGED <<clock, task, order, seen, reply, answered, lost>>

GatewayStep == (\E h \in Handler : Open(h) \/ Dispatch(h)) \/ Restart

GatewayNext == GatewayStep \/ Seal \/ Tick

GatewaySpec == GatewayInit /\ [][GatewayNext]_gatewayVars

-----------------------------------------------------------------------------
(* Properties. *)

Kinds == {"skew", "replay", "answered"}

(* Every variable has its type. *)
GatewayTypeOK ==
    /\ clock \in Nat
    /\ stamp \in [Request -> Nat \cup {Unsent}]
    /\ task \in [Handler -> Entry \cup {Idle}]
    /\ order \in Seq(Entry)
    /\ seen \subseteq Request
    /\ reply \in [id : Request, kind : Kinds, time : Nat] \cup {NoReply}
    /\ answered \subseteq Request
    /\ lost \subseteq Request

(* A request is dispatched once, however often and however late it is       *)
(* delivered and however long handlers wait for the window: what was        *)
(* dispatched is refused as a repetition, since by the time it ages out of  *)
(* the window its own time is too far from the clock.  The window may lose  *)
(* it, when full or by a restart; and while a handler that compared the     *)
(* clock in time waits for the mutex, another one with a later clock may    *)
(* let the same request age out.  Each such loss allows one dispatch more,  *)
(* and there is no other way to dispatch again.                             *)
AnsweredOnce ==
    [][\A h \in Handler :
         Dispatch(h) /\ task[h].id \in answered \ lost => reply'.kind = "replay"]_gatewayVars

(* The set and the queue of a replay window hold the same requests, none    *)
(* twice and never more than the capacity, so that removing an old entry    *)
(* forgets that request and no other.                                       *)
WindowIsConsistent ==
    /\ seen = Entries(order)
    /\ \A i, j \in DOMAIN order : order[i].id = order[j].id => i = j
    /\ Len(order) <= Capacity

(* Only a request that was dispatched before is refused as a replay. *)
OnlyAnsweredIsRefused ==
    reply.kind = "replay" => reply.id \in answered

(* The window refuses what it has seen and nothing else, for as long as it  *)
(* can remember: its two halves agree, within the capacity.                 *)
RefusalIsJust == WindowIsConsistent /\ OnlyAnsweredIsRefused

=============================================================================
