---------------------------- MODULE TunnelBroker ----------------------------
(***************************************************************************)
(* The privileged tunnel service (ket-tunnel-service): the broker that     *)
(* starts and stops full-route tunnels for the desktop app, the supervisor *)
(* task each tunnel runs under (ket-client-core, full_route.rs), and the   *)
(* host's resolver that a tunnel takes over and gives back                 *)
(* (system_dns/mod.rs).                                                    *)
(*                                                                         *)
(* Commands arrive on connections.  Connect, Stop, the reaper and the      *)
(* shutdown each hold the operation mutex while they await an engine;      *)
(* heartbeats do not.  A connection's command is dropped after             *)
(* COMMAND_TIMEOUT wherever it is: the mutex guard goes, and so does the   *)
(* only handle on a tunnel the command had taken out of the map, at which  *)
(* the tunnel's supervisor shuts it down.                                  *)
(*                                                                         *)
(* A lease is the number of seconds it has left, so that no clock has to   *)
(* be bounded.                                                             *)
(***************************************************************************)
EXTENDS Integers, FiniteSets

CONSTANTS
  Tunnel,         \* tunnel ids, each used for one tunnel
  Connection,     \* connections of the desktop app
  Reaper, Main,   \* the reaper task and the task that serves and shuts down
  None,           \* no holder of the operation mutex; no tunnel
  LeaseTtl,       \* lease_ttl
  RetryDelay,     \* the lease of a tunnel the reaper could not stop
  MaxDropped,     \* bound: commands dropped at COMMAND_TIMEOUT
  MaxUnrestored,  \* bound: resolver restorations that fail
  MaxTorn         \* bound: crashes in the middle of a write to the resolver

Worker == Connection \cup {Reaper, Main}

ASSUME BrokerAssumption ==
  /\ Reaper \notin Connection /\ Main \notin Connection /\ Reaper # Main
  /\ None \notin Worker \cup Tunnel
  /\ LeaseTtl \in Nat \ {0} /\ RetryDelay \in 1..LeaseTtl
  /\ MaxDropped \in Nat /\ MaxUnrestored \in Nat /\ MaxTorn \in Nat

VARIABLES
  up,        \* the service is running
  op,        \* holder of the operation mutex
  job,       \* what each connection, the reaper and the main task are doing
  lease,     \* the tunnels map: seconds left, or NoLease
  engine,    \* each tunnel's processes and the status its supervisor shows
  attended,  \* tunnels whose app still sends heartbeats
  told,      \* tunnels whose Stop was answered Stopped
  holding,   \* tunnels whose SystemDnsLease is active
  resolver,  \* what /etc/resolv.conf holds
  saved,     \* what the resolver state file holds
  faults     \* how many of each bounded fault happened

vars == <<up, op, job, lease, engine, attended, told, holding, resolver, saved, faults>>
dns == <<holding, resolver, saved>>

NoLease == -1
Leased == {t \in Tunnel : lease[t] # NoLease}
Expired == {t \in Tunnel : lease[t] = 0}

(* A supervisor shows Connected while its processes run and while it is    *)
(* cleaning up after a Stop (closing) or after an exit (exiting).          *)
Connected == {"running", "closing", "exiting"}
Alive == Connected \cup {"starting"}
Ended == {"stopped", "failed"}

Content == {"host", "tunnel", "torn"}

Idle == [pc |-> "idle", req |-> "none", id |-> None, left |-> {}]
Asked(req, id) == [pc |-> "waiting", req |-> req, id |-> id, left |-> {}]

(* What a command that is dropped leaves behind: the tunnels it had taken  *)
(* out of the map lose their last handle.  One that was starting is killed.*)
Abandoned(p) == job[p].left \cup (IF job[p].pc = "stopping" THEN {job[p].id} ELSE {})

(***************************************************************************)
(* The host's resolver: recover_at, acquire_at and restore.                *)
(***************************************************************************)
Recovered == IF saved # "none" /\ resolver = "tunnel" THEN saved ELSE resolver

(* Mutation: acquire_at does not recover first. *)
AcquireOver(t) ==
  /\ holding' = holding \cup {t}
  /\ saved' = resolver
  /\ resolver' = "tunnel"

Acquire(t) ==
  /\ holding' = holding \cup {t}
  /\ saved' = Recovered
  /\ resolver' = "tunnel"

Restore(t) ==
  /\ holding' = holding \ {t}
  /\ IF t \in holding
       THEN resolver' = Recovered /\ saved' = "none"
       ELSE UNCHANGED <<resolver, saved>>

(* A SystemDnsLease is restored.  The restoration may fail before it wrote *)
(* the resolver or before it removed the state file, the one in the        *)
(* lease's drop after it: f is what the step otherwise makes of faults.    *)
GiveBack(t, f) ==
  \/ /\ Restore(t)
     /\ faults' = f
  \/ /\ t \in holding
     /\ f.unrestored < MaxUnrestored
     /\ faults' = [f EXCEPT !.unrestored = @ + 1]
     /\ holding' = holding \ {t}
     /\ resolver' \in {resolver, Recovered}
     /\ saved' = saved

Init ==
  /\ up = TRUE /\ op = None
  /\ job = [p \in Worker |-> Idle]
  /\ lease = [t \in Tunnel |-> NoLease]
  /\ engine = [t \in Tunnel |-> "none"]
  /\ attended = {} /\ told = {}
  /\ holding = {} /\ resolver = "host" /\ saved = "none"
  /\ faults = [dropped |-> 0, unrestored |-> 0, torn |-> 0]

(***************************************************************************)
(* Commands.  The listener stops at the shutdown, the commands it accepted *)
(* run on.                                                                 *)
(***************************************************************************)
Serving == up /\ job[Main].pc = "idle"

Request(c) ==
  /\ Serving /\ job[c].pc = "idle"
  /\ \/ job' = [job EXCEPT ![c] = Asked("connect", None)]
     \/ \E t \in {u \in Tunnel : engine[u] \in Connected \cup Ended} :
          job' = [job EXCEPT ![c] = Asked("stop", t)]
  /\ UNCHANGED <<up, op, lease, engine, attended, told, dns, faults>>

ReapTick ==
  /\ Serving /\ job[Reaper].pc = "idle"
  /\ job' = [job EXCEPT ![Reaper] = Asked("reap", None)]
  /\ UNCHANGED <<up, op, lease, engine, attended, told, dns, faults>>

(* Mutation: only Connect removes what ran out. *)
TakenOutByConnect(j) ==
  CASE j.req = "connect" -> Expired
    [] j.req = "reap" -> {}
    [] j.req = "stop" -> {j.id} \cap Leased
    [] j.req = "exit" -> Leased

(* The operation mutex is taken and leases leave the map: those that ran   *)
(* out (reap_expired_locked, also the start of Connect), the one a Stop    *)
(* names, or all of them (stop_all).                                       *)
TakenOut(j) ==
  CASE j.req \in {"connect", "reap"} -> Expired
    [] j.req = "stop" -> {j.id} \cap Leased
    [] j.req = "exit" -> Leased

Lock(p) ==
  LET out == TakenOut(job[p]) IN
  /\ job[p].pc = "waiting" /\ op = None
  /\ op' = p
  /\ lease' = [t \in Tunnel |-> IF t \in out THEN NoLease ELSE lease[t]]
  /\ job' = [job EXCEPT ![p].pc = "removed", ![p].left = out]
  /\ UNCHANGED <<up, engine, attended, told, dns, faults>>

(* FullRouteTunnel::stop: nothing to do for a tunnel that has ended;       *)
(* otherwise the supervisor is told, which shuts a running tunnel down.    *)
Shut(e) == IF e = "running" THEN "closing" ELSE e

LetGo(S) == [t \in Tunnel |-> IF t \in S THEN Shut(engine[t]) ELSE engine[t]]

StopNext(p) ==
  /\ job[p].pc = "removed"
  /\ \E t \in job[p].left :
       IF engine[t] \in Ended
         THEN /\ job' = [job EXCEPT ![p].left = @ \ {t}]
              /\ engine' = engine
         ELSE /\ job' = [job EXCEPT ![p].left = @ \ {t}, ![p].id = t, ![p].pc = "stopping"]
              /\ engine' = [engine EXCEPT ![t] = Shut(@)]
  /\ UNCHANGED <<up, op, lease, attended, told, dns, faults>>

StopOk(p) ==
  /\ job[p].pc = "stopping" /\ engine[job[p].id] = "stopped"
  /\ job' = [job EXCEPT ![p].pc = "removed"]
  /\ UNCHANGED <<up, op, lease, engine, attended, told, dns, faults>>

(* Mutation: the lease of a tunnel that did not stop is forgotten. *)
StopErrForgets(p) ==
  LET j == job[p] IN
  /\ j.pc = "stopping"
  /\ job' = [job EXCEPT ![p] = IF j.req = "stop" THEN Idle ELSE [j EXCEPT !.pc = "removed"]]
  /\ op' = IF j.req = "stop" THEN None ELSE op
  /\ UNCHANGED <<up, lease, engine, attended, told, dns, faults>>

(* stop() gave up waiting, the tunnel failed, or the supervisor was gone   *)
(* when the command was sent.  The lease goes back into the map; a Stop    *)
(* answers the fault, a reap goes on.                                      *)
Retried(req) == IF req = "stop" THEN LeaseTtl ELSE RetryDelay

StopErr(p) ==
  LET j == job[p] IN
  /\ j.pc = "stopping"
  /\ lease' = IF j.req = "exit" THEN lease ELSE [lease EXCEPT ![j.id] = Retried(j.req)]
  /\ job' = [job EXCEPT ![p] = IF j.req = "stop" THEN Idle ELSE [j EXCEPT !.pc = "removed"]]
  /\ op' = IF j.req = "stop" THEN None ELSE op
  /\ UNCHANGED <<up, engine, attended, told, dns, faults>>

AllStopped(p) == job[p].pc = "removed" /\ job[p].left = {}

(* The reaper's round is over; a Stop answers Stopped; a Connect is        *)
(* refused, as busy or because its engine did not start.                   *)
Answer(p) ==
  /\ AllStopped(p) /\ job[p].req # "exit"
  /\ told' = IF job[p].req = "stop" THEN told \cup {job[p].id} ELSE told
  /\ op' = None
  /\ job' = [job EXCEPT ![p] = Idle]
  /\ UNCHANGED <<up, lease, engine, attended, dns, faults>>

(* adapter.connect, awaited with the mutex held: the engine starts, the    *)
(* bridge takes the resolver, and both settle or fail.                     *)
Launch(c) ==
  /\ AllStopped(c) /\ job[c].req = "connect" /\ Leased = {}
  /\ \E t \in Tunnel :
       /\ engine[t] = "none"
       /\ engine' = [engine EXCEPT ![t] = "starting"]
       /\ job' = [job EXCEPT ![c].pc = "starting", ![c].id = t]
  /\ UNCHANGED <<up, op, lease, attended, told, dns, faults>>

TakeResolver(c) ==
  /\ job[c].pc = "starting" /\ job[c].id \notin holding
  /\ Acquire(job[c].id)
  /\ UNCHANGED <<up, op, job, lease, engine, attended, told, faults>>

Started(c) ==
  LET t == job[c].id IN
  /\ job[c].pc = "starting" /\ t \in holding
  /\ engine' = [engine EXCEPT ![t] = "running"]
  /\ lease' = [lease EXCEPT ![t] = LeaseTtl]
  /\ attended' = attended \cup {t}
  /\ op' = None
  /\ job' = [job EXCEPT ![c] = Idle]
  /\ UNCHANGED <<up, told, dns, faults>>

StartFails(c) ==
  LET t == job[c].id IN
  /\ job[c].pc = "starting"
  /\ engine' = [engine EXCEPT ![t] = "failed"]
  /\ op' = None
  /\ job' = [job EXCEPT ![c] = Idle]
  /\ GiveBack(t, faults)
  /\ UNCHANGED <<up, lease, attended, told>>

(* COMMAND_TIMEOUT: the command's future is dropped where it stands.       *)
DropCommand(c) ==
  /\ job[c].pc # "idle"
  /\ faults.dropped < MaxDropped
  /\ op' = IF op = c THEN None ELSE op
  /\ job' = [job EXCEPT ![c] = Idle]
  /\ LET dropped == [faults EXCEPT !.dropped = @ + 1] IN
     IF job[c].pc = "starting"
       THEN /\ engine' = [engine EXCEPT ![job[c].id] = "failed"]
            /\ GiveBack(job[c].id, dropped)
       ELSE /\ engine' = LetGo(Abandoned(c))
            /\ faults' = dropped
            /\ UNCHANGED dns
  /\ UNCHANGED <<up, lease, attended, told>>

(* tunnel_status with heartbeat: the map's mutex only.                     *)
Heartbeat(t) ==
  /\ up /\ t \in attended \cap Leased
  /\ lease' = IF engine[t] \in Connected THEN [lease EXCEPT ![t] = LeaseTtl] ELSE lease
  /\ UNCHANGED <<up, op, job, engine, attended, told, dns, faults>>

(* The app crashed or gave the tunnel up: no more heartbeats.              *)
Abandon(t) ==
  /\ t \in attended
  /\ attended' = attended \ {t}
  /\ UNCHANGED <<up, op, job, lease, engine, told, dns, faults>>

(***************************************************************************)
(* The supervisor of a tunnel (supervise_processes and its variants).      *)
(***************************************************************************)
EngineExits(t) ==
  /\ engine[t] = "running"
  /\ engine' = [engine EXCEPT ![t] = "exiting"]
  /\ UNCHANGED <<up, op, job, lease, attended, told, dns, faults>>

(* Bridge and engine are gone, then the resolver is restored, then the     *)
(* terminal status is shown.                                               *)
CleanUp(t) ==
  /\ engine[t] \in {"closing", "exiting"}
  /\ GiveBack(t, faults)
  /\ engine' = [engine EXCEPT ![t] =
       IF @ = "closing" /\ faults' = faults THEN "stopped" ELSE "failed"]
  /\ UNCHANGED <<up, op, job, lease, attended, told>>

(***************************************************************************)
(* Shutdown, crash and start.  With the service every engine goes: they    *)
(* are killed when their handles drop, or with the service's control group.*)
(***************************************************************************)
Shutdown ==
  /\ Serving
  /\ job' = [job EXCEPT ![Main] = Asked("exit", None), ![Reaper] = Idle]
  /\ engine' = LetGo(Abandoned(Reaper))
  /\ op' = IF op = Reaper THEN None ELSE op
  /\ UNCHANGED <<up, lease, attended, told, dns, faults>>

Gone ==
  /\ up' = FALSE /\ op' = None
  /\ job' = [p \in Worker |-> Idle]
  /\ lease' = [t \in Tunnel |-> NoLease]
  /\ engine' = [t \in Tunnel |-> IF engine[t] \in Alive THEN "failed" ELSE engine[t]]
  /\ attended' = {}
  /\ holding' = {}
  /\ UNCHANGED told

Exit ==
  /\ AllStopped(Main)
  /\ Gone
  /\ IF holding # {}
       THEN resolver' = Recovered /\ saved' = "none"
       ELSE UNCHANGED <<resolver, saved>>
  /\ UNCHANGED faults

(* write_in_place truncates the resolver before it writes it, so a crash   *)
(* inside an acquisition or a restoration can leave it cut short.  The     *)
(* state file is there at that moment in both cases.                       *)
Writing ==
  \/ \E t \in Tunnel : engine[t] = "starting" /\ t \notin holding
  \/ \E t \in holding : engine[t] \in {"closing", "exiting", "starting"}

Crash ==
  /\ up
  /\ Gone
  /\ \/ UNCHANGED <<resolver, saved, faults>>
     \/ /\ Writing /\ faults.torn < MaxTorn
        /\ faults' = [faults EXCEPT !.torn = @ + 1]
        /\ resolver' = "torn"
        /\ saved' = IF saved = "none" THEN resolver ELSE saved

(* serve_until begins with restore_system_dns and stops there if it fails. *)
Start ==
  /\ ~up
  /\ up' = TRUE
  /\ resolver' = Recovered /\ saved' = "none"
  /\ UNCHANGED <<op, job, lease, engine, attended, told, holding, faults>>

Tick ==
  /\ \E t \in Tunnel : lease[t] > 0
  /\ lease' = [t \in Tunnel |-> IF lease[t] > 0 THEN lease[t] - 1 ELSE lease[t]]
  /\ UNCHANGED <<up, op, job, engine, attended, told, dns, faults>>

Work(p) == Lock(p) \/ StopNext(p) \/ StopOk(p) \/ StopErr(p) \/ Answer(p)

Connects(c) == Launch(c) \/ TakeResolver(c) \/ Started(c) \/ StartFails(c)

Next ==
  \/ \E c \in Connection : Request(c) \/ Connects(c) \/ DropCommand(c)
  \/ \E p \in Worker : Work(p)
  \/ \E t \in Tunnel : Heartbeat(t) \/ Abandon(t) \/ EngineExits(t) \/ CleanUp(t)
  \/ ReapTick \/ Shutdown \/ Exit \/ Crash \/ Start \/ Tick

Spec == Init /\ [][Next]_vars

(* tokio's mutex is handed out in the order it was asked for; the engines, *)
(* the reaper's interval and the supervisors are driven by the runtime,    *)
(* and a supervisor kills what does not end on its own.                    *)
Fairness ==
  /\ \A p \in Worker : SF_vars(Lock(p)) /\ WF_vars(Work(p))
  /\ \A c \in Connection : WF_vars(Connects(c))
  /\ \A t \in Tunnel : WF_vars(CleanUp(t))
  /\ WF_vars(ReapTick) /\ WF_vars(Exit) /\ WF_vars(Tick)

FairSpec == Spec /\ Fairness

-----------------------------------------------------------------------------
Job ==
  [pc : {"idle", "waiting", "removed", "stopping", "starting"},
   req : {"none", "connect", "stop", "reap", "exit"},
   id : Tunnel \cup {None}, left : SUBSET Tunnel]

(* The values the broker's, the supervisors' and the resolver's state      *)
(* takes: the fields of BrokerService, TunnelStatus, SystemDnsLease.       *)
TypeOK ==
  /\ up \in BOOLEAN /\ op \in Worker \cup {None}
  /\ job \in [Worker -> Job]
  /\ lease \in [Tunnel -> {NoLease} \cup 0..LeaseTtl]
  /\ engine \in [Tunnel -> Alive \cup Ended \cup {"none"}]
  /\ attended \subseteq Tunnel /\ told \subseteq Tunnel /\ holding \subseteq Tunnel
  /\ resolver \in Content /\ saved \in Content \cup {"none"}
  /\ faults \in [dropped : 0..MaxDropped, unrestored : 0..MaxUnrestored, torn : 0..MaxTorn]

(* Nothing was cut off in the middle: no command dropped at its timeout,   *)
(* no reaper aborted by a shutdown.                                        *)
Undisturbed == faults.dropped = 0 /\ job[Main].pc = "idle"

(* handle/Connect lets one full-route tunnel exist at a time: not even a   *)
(* tunnel that is still cleaning up overlaps the start of another, and     *)
(* whatever is dropped, never do two of them run or start.                 *)
OneTunnel ==
  \A t, u \in Tunnel :
    t # u /\ engine[t] \in {"starting", "running"} =>
      engine[u] \notin (IF Undisturbed THEN Alive ELSE {"starting", "running"})

(* A running tunnel is in the map, where the reaper finds it, or in the    *)
(* hands of the one command that is stopping it: no timeout, failed stop,  *)
(* late heartbeat or shutdown leaves an engine nobody will stop.           *)
RunningIsManaged ==
  \A t \in Tunnel : engine[t] = "running" =>
    t \in Leased \/ \E p \in Worker : t \in job[p].left

(* While a tunnel runs, lookups go into it (FullRouteBridge::start takes   *)
(* the resolver before the bridge routes): the clean-up of an earlier      *)
(* tunnel never gives the resolver back under a later one.                 *)
RunningUsesTunnelDns ==
  Undisturbed => \A t \in Tunnel : engine[t] = "running" => resolver = "tunnel"

(* Stop is answered Stopped only once the processes are gone.              *)
StoppedIsDown ==
  Undisturbed => \A t \in told : engine[t] \in Ended

(* The broker knows its tunnels: one at a time, none running that nobody   *)
(* will stop, none reported stopped that is not.                           *)
TunnelIsManaged == OneTunnel /\ RunningIsManaged /\ StoppedIsDown

(* The host's own resolver configuration is in place or in the state file  *)
(* at all times, across failed restorations, overlaps and crashes between  *)
(* two writes (acquire_at, restore, recover_at).                           *)
HostResolverIsKept ==
  faults.torn = 0 => resolver = "host" \/ saved = "host"

(* Once no tunnel is left the host's resolver is back, unless a            *)
(* restoration failed: also after a crash, when the service has started    *)
(* again, so that the next tunnel cannot inherit a stopped one's resolver. *)
ResolverGivenBack ==
  /\ up /\ faults.torn = 0 /\ faults.unrestored = 0
  /\ \A t \in Tunnel : engine[t] \notin Alive
  => resolver = "host"

(* The resolver is the running tunnel's, the host's is never lost, and it  *)
(* comes back with the end of the last tunnel.                             *)
ResolverIsSafe == RunningUsesTunnelDns /\ HostResolverIsKept /\ ResolverGivenBack

(* A tunnel whose app stopped sending heartbeats is shut down, whatever    *)
(* else the broker is asked meanwhile (spawn_reaper, reap_expired_locked). *)
OrphanIsStopped ==
  \A t \in Tunnel :
    (engine[t] = "running" /\ t \notin attended) ~> (engine[t] \in Ended)

(* Every command is answered or dropped: the operation mutex is never held *)
(* for good.                                                               *)
CommandsAreAnswered ==
  \A c \in Connection : (job[c].pc # "idle") ~> (job[c].pc = "idle")

(* Nobody waits for good: neither a command nor a tunnel left behind. *)
BrokerGoesOn == OrphanIsStopped /\ CommandsAreAnswered

=============================================================================
