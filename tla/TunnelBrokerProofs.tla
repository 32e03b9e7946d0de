------------------------- MODULE TunnelBrokerProofs -------------------------
(***************************************************************************)
(* The broker keeps its promises for every number of tunnels and           *)
(* connections, every lease, and every number of faults.                   *)
(***************************************************************************)
EXTENDS TunnelBroker, TLAPS

(* The operation mutex is held by whoever is past Lock, and only its       *)
(* holder has tunnels in hand.                                             *)
MutexInv ==
  /\ \A p \in Worker : (op = p) <=> (job[p].pc \in {"removed", "stopping", "starting"})
  /\ \A p \in Worker : job[p].left # {} => job[p].pc \in {"removed", "stopping"}

(* What each command in progress is about. *)
JobInv ==
  \A p \in Worker :
    /\ job[p].pc # "idle" => job[p].req # "none" /\ (job[p].req = "exit" <=> p = Main)
    /\ job[p].pc = "stopping" => job[p].id \in Tunnel
    /\ job[p].pc # "idle" /\ job[p].req = "stop" =>
         /\ job[p].id \in Tunnel
         /\ engine[job[p].id] \in Connected \cup Ended
         /\ job[p].left \subseteq (IF job[p].pc = "stopping" THEN {} ELSE {job[p].id})

(* A tunnel that starts belongs to the Connect that awaits it, which found *)
(* the map empty.                                                          *)
StartInv ==
  /\ \A p \in Worker : job[p].pc = "starting" =>
       p \in Connection /\ job[p].id \in Tunnel /\ engine[job[p].id] = "starting" /\ Leased = {}
  /\ \A t \in Tunnel : engine[t] = "starting" =>
       \E p \in Worker : job[p].pc = "starting" /\ job[p].id = t

(* With the service everything it ran is gone. *)
DownInv ==
  ~ up =>
    /\ \A p \in Worker : job[p] = Idle
    /\ \A t \in Tunnel : engine[t] \notin Alive
    /\ holding = {}

(* A connection that asks for something had nothing to do before. *)
LEMMA RequestCases ==
  ASSUME NEW c \in Connection, Request(c)
  PROVE  /\ Serving /\ job[c].pc = "idle"
         /\ \E j \in Job :
              /\ job' = [job EXCEPT ![c] = j]
              /\ j.pc = "waiting" /\ j.left = {}
              /\ \/ j.req = "connect"
                 \/ j.req = "stop" /\ j.id \in Tunnel /\ engine[j.id] \in Connected \cup Ended
         /\ UNCHANGED <<up, op, lease, engine, attended, told, dns, faults>>
  <1>1. CASE job' = [job EXCEPT ![c] = Asked("connect", None)]
    <2> DEFINE j == [pc |-> "waiting", req |-> "connect", id |-> None, left |-> {}]
    <2>1. j \in Job /\ j.pc = "waiting" /\ j.left = {} /\ j.req = "connect"
      BY Zenon DEF Job
    <2>2. Asked("connect", None) = j
      BY Zenon DEF Asked, Idle
    <2>3. job' = [job EXCEPT ![c] = j]
      BY <1>1, <2>2, Zenon
    <2> HIDE DEF j
    <2> QED BY Zenon, <2>1, <2>3 DEF Request
  <1>2. ASSUME NEW t \in Tunnel, engine[t] \in Connected \cup Ended,
               job' = [job EXCEPT ![c] = Asked("stop", t)]
        PROVE  \E j \in Job :
                 /\ job' = [job EXCEPT ![c] = j]
                 /\ j.pc = "waiting" /\ j.left = {}
                 /\ j.req = "stop" /\ j.id \in Tunnel /\ engine[j.id] \in Connected \cup Ended
    <2> DEFINE j == [pc |-> "waiting", req |-> "stop", id |-> t, left |-> {}]
    <2>1. j \in Job /\ j.pc = "waiting" /\ j.left = {} /\ j.req = "stop" /\ j.id = t
      BY Zenon DEF Job
    <2>2. Asked("stop", t) = j
      BY Zenon DEF Asked, Idle
    <2>3. job' = [job EXCEPT ![c] = j]
      BY <1>2, <2>2, Zenon
    <2> HIDE DEF j
    <2> QED BY <1>2, <2>1, <2>3, Zenon
  <1> QED BY Zenon, <1>1, <1>2 DEF Request

(* What leaves the map when the mutex is taken was in it. *)
LEMMA TakenOutLeased ==
  ASSUME TypeOK, JobInv, NEW p \in Worker, job[p].pc = "waiting"
  PROVE  TakenOut(job[p]) \subseteq Leased
  <1>1. job[p].req \in {"connect", "reap", "stop", "exit"}
    BY Zenon DEF TypeOK, JobInv, Job
  <1>2. Expired \subseteq Leased
    BY DEF Expired, Leased, NoLease
  <1> QED BY <1>1, <1>2, Zenon DEF TakenOut

FaultCount == [dropped : 0..MaxDropped, unrestored : 0..MaxUnrestored, torn : 0..MaxTorn]

(* What giving t's resolver back does, whether the restoration succeeds or  *)
(* fails, in a step that leaves the count of dropped commands at d.         *)
Returned(t, d) ==
  /\ faults' \in FaultCount /\ faults'.dropped = d /\ faults'.torn = faults.torn
  /\ holding' = holding \ {t}
  /\ \/ resolver' \in {resolver, Recovered} /\ saved' = saved
     \/ resolver' = Recovered /\ saved' = "none"
  /\ faults'.unrestored = 0 =>
       /\ faults.unrestored = 0
       /\ IF t \in holding
            THEN resolver' = Recovered /\ saved' = "none"
            ELSE UNCHANGED <<resolver, saved>>

(* GiveBack, in the two ways it can go. *)
LEMMA GivenBack ==
  ASSUME NEW t \in Tunnel, NEW f \in FaultCount,
         f.torn = faults.torn, f.unrestored = faults.unrestored, GiveBack(t, f)
  PROVE  Returned(t, f.dropped)
  <1>1. CASE Restore(t) /\ faults' = f
    BY <1>1, Zenon DEF Restore, Returned
  <1>2. CASE /\ t \in holding
             /\ f.unrestored < MaxUnrestored
             /\ faults' = [f EXCEPT !.unrestored = @ + 1]
             /\ holding' = holding \ {t}
             /\ resolver' \in {resolver, Recovered}
             /\ saved' = saved
    <2>1. faults' = [dropped |-> f.dropped, unrestored |-> f.unrestored + 1, torn |-> f.torn]
      BY <1>2, Zenon DEF FaultCount
    <2>2. f.unrestored + 1 \in 0..MaxUnrestored /\ f.unrestored + 1 # 0
      BY <1>2, BrokerAssumption DEF FaultCount
    <2> QED BY <1>2, <2>1, <2>2, Zenon DEF FaultCount, Returned
  <1> QED BY <1>1, <1>2, Zenon DEF GiveBack

(* A Connect that is dropped while its engine starts. *)
LEMMA DroppedStart ==
  ASSUME TypeOK, StartInv, NEW c \in Connection, DropCommand(c), job[c].pc = "starting"
  PROVE  /\ job[c].id \in Tunnel /\ engine[job[c].id] = "starting"
         /\ faults.dropped \in Nat
         /\ Returned(job[c].id, faults.dropped + 1)
         /\ op' = IF op = c THEN None ELSE op
         /\ job' = [job EXCEPT ![c] = Idle]
         /\ engine' = [engine EXCEPT ![job[c].id] = "failed"]
         /\ UNCHANGED <<up, lease, attended, told>>
  <1> DEFINE f == [faults EXCEPT !.dropped = @ + 1]
  <1>1. f = [dropped |-> faults.dropped + 1, unrestored |-> faults.unrestored, torn |-> faults.torn]
    BY DEF TypeOK
  <1>2. f \in FaultCount /\ faults.dropped \in Nat
    BY <1>1, BrokerAssumption DEF TypeOK, DropCommand, FaultCount
  <1>3. job[c].id \in Tunnel /\ engine[job[c].id] = "starting"
    BY Zenon DEF StartInv, Worker
  <1>4. GiveBack(job[c].id, f)
    BY Zenon DEF DropCommand
  <1>5. f.dropped = faults.dropped + 1 /\ f.torn = faults.torn /\ f.unrestored = faults.unrestored
    BY <1>1, Zenon
  <1> HIDE DEF f
  <1>6. Returned(job[c].id, f.dropped)
    BY <1>2, <1>3, <1>4, <1>5, GivenBack, Zenon
  <1> QED BY <1>2, <1>3, <1>5, <1>6, Zenon DEF DropCommand

(* A Connect whose engine or bridge does not start. *)
LEMMA FailedStart ==
  ASSUME TypeOK, StartInv, NEW c \in Connection, StartFails(c)
  PROVE  /\ job[c].pc = "starting"
         /\ job[c].id \in Tunnel /\ engine[job[c].id] = "starting"
         /\ Returned(job[c].id, faults.dropped)
         /\ op' = None
         /\ job' = [job EXCEPT ![c] = Idle]
         /\ engine' = [engine EXCEPT ![job[c].id] = "failed"]
         /\ UNCHANGED <<up, lease, attended, told>>
  <1>1. job[c].id \in Tunnel /\ engine[job[c].id] = "starting"
    BY Zenon DEF StartInv, Worker, StartFails
  <1>2. faults \in FaultCount /\ GiveBack(job[c].id, faults)
    BY Zenon DEF TypeOK, FaultCount, StartFails
  <1>3. Returned(job[c].id, faults.dropped)
    BY <1>1, <1>2, GivenBack, Zenon
  <1> QED BY <1>1, <1>3, Zenon DEF StartFails

(* A supervisor that cleans up after its tunnel. *)
LEMMA CleanedUp ==
  ASSUME TypeOK, NEW t \in Tunnel, CleanUp(t)
  PROVE  /\ engine[t] \in {"closing", "exiting"}
         /\ Returned(t, faults.dropped)
         /\ \E e \in Ended : engine' = [engine EXCEPT ![t] = e]
         /\ UNCHANGED <<up, op, job, lease, attended, told>>
  <1>1. faults \in FaultCount /\ GiveBack(t, faults)
    BY Zenon DEF TypeOK, FaultCount, CleanUp
  <1>2. Returned(t, faults.dropped)
    BY <1>1, GivenBack, Zenon
  <1>3. \E e \in Ended : engine' = [engine EXCEPT ![t] = e]
    BY Zenon DEF CleanUp, Ended, TypeOK
  <1> QED BY <1>2, <1>3, Zenon DEF CleanUp

(* Every step keeps the types. *)
LEMMA TypeNext ==
  ASSUME TypeOK, MutexInv, JobInv, StartInv
  PROVE  [Next]_vars => TypeOK'
  <1> USE BrokerAssumption DEF TypeOK
  <1>1. ASSUME NEW c \in Connection, Request(c) PROVE TypeOK'
    BY <1>1, RequestCases DEF Serving, dns, Worker
  <1>2. ASSUME NEW c \in Connection, Launch(c) PROVE TypeOK'
    <2>1. PICK t \in Tunnel : job' = [job EXCEPT ![c].pc = "starting", ![c].id = t]
      BY <1>2, Zenon DEF Launch
    <2> DEFINE j == [job[c] EXCEPT !.pc = "starting"]
    <2>2. [j EXCEPT !.id = t] \in Job
      <3>1. job[c] \in Job
        BY Zenon DEF Worker
      <3>2. j \in Job
        BY <3>1, Zenon DEF Job
      <3> HIDE DEF j
      <3> QED BY <3>2, Zenon DEF Job
    <2>3. job' \in [Worker -> Job]
      BY <2>1, <2>2, Zenon DEF Worker
    <2> QED BY <1>2, <2>3, Zenon DEF Launch, dns, Alive
  <1>3. ASSUME NEW c \in Connection, TakeResolver(c) PROVE TypeOK'
    BY <1>3 DEF TakeResolver, Acquire, Recovered, Worker, Content, StartInv
  <1>4. ASSUME NEW c \in Connection, Started(c) PROVE TypeOK'
    BY <1>4 DEF Started, Idle, dns, Job, Worker, Alive, Connected
  <1>5. ASSUME NEW c \in Connection, StartFails(c) PROVE TypeOK'
    BY <1>5, FailedStart DEF Returned, Recovered, FaultCount, Idle, Job, Worker, Ended
  <1>6. ASSUME NEW c \in Connection, DropCommand(c) PROVE TypeOK'
    <2>1. CASE job[c].pc = "starting"
      BY <1>6, <2>1, DroppedStart
         DEF Returned, Recovered, FaultCount, Idle, Job, Worker, Ended
    <2>2. CASE job[c].pc # "starting"
      BY <1>6, <2>2
         DEF DropCommand, LetGo, Abandoned, Shut, Idle, dns, Job, Worker, Alive, Connected
    <2> QED BY <2>1, <2>2, Zenon
  <1>7. ASSUME NEW p \in Worker, Lock(p) PROVE TypeOK'
    BY <1>7, TakenOutLeased, SMTT(30) DEF Lock, dns, Job, Worker
  <1>8. ASSUME NEW p \in Worker, StopNext(p) PROVE TypeOK'
    BY <1>8 DEF StopNext, Shut, dns, Job
  <1>9. ASSUME NEW p \in Worker, StopOk(p) PROVE TypeOK'
    BY <1>9, SMTT(30) DEF StopOk, dns, Job
  <1>10. ASSUME NEW p \in Worker, StopErr(p) PROVE TypeOK'
    BY <1>10 DEF StopErr, Retried, Idle, dns, Job, JobInv
  <1>11. ASSUME NEW p \in Worker, Answer(p) PROVE TypeOK'
    BY <1>11, Zenon DEF Answer, AllStopped, Idle, dns, Job, JobInv
  <1>12. ASSUME NEW t \in Tunnel, Heartbeat(t) PROVE TypeOK'
    BY <1>12 DEF Heartbeat, dns
  <1>13. ASSUME NEW t \in Tunnel, Abandon(t) PROVE TypeOK'
    BY <1>13, Zenon DEF Abandon, dns
  <1>14. ASSUME NEW t \in Tunnel, EngineExits(t) PROVE TypeOK'
    BY <1>14, Zenon DEF EngineExits, dns, Alive, Connected
  <1>15. ASSUME NEW t \in Tunnel, CleanUp(t) PROVE TypeOK'
    BY <1>15, CleanedUp DEF Returned, Recovered, FaultCount
  <1>16. ASSUME ReapTick PROVE TypeOK'
    BY <1>16, Zenon DEF ReapTick, Asked, Idle, Serving, dns, Job, Worker
  <1>17. ASSUME Shutdown PROVE TypeOK'
    BY <1>17, Zenon DEF Shutdown, Serving, Asked, Idle, LetGo, Abandoned, Shut, dns, Job, Worker,
       Alive, Connected
  <1>18. ASSUME Exit PROVE TypeOK'
    <2>1. Gone /\ resolver' \in Content /\ saved' \in Content \cup {"none"} /\ UNCHANGED faults
      BY <1>18, Zenon DEF Exit, Recovered
    <2>2. job' \in [Worker -> Job] /\ op' \in Worker \cup {None}
      BY <2>1, Zenon DEF Gone, Idle, Job
    <2>3. lease' \in [Tunnel -> {NoLease} \cup 0..LeaseTtl]
      BY <2>1, Zenon DEF Gone
    <2>4. engine' \in [Tunnel -> Alive \cup Ended \cup {"none"}]
      BY <2>1, Zenon DEF Gone, Ended
    <2> QED BY <2>1, <2>2, <2>3, <2>4, Zenon DEF Gone
  <1>19. ASSUME Crash PROVE TypeOK'
    <2>1. CASE UNCHANGED <<resolver, saved, faults>>
      BY <1>19, <2>1, Zenon DEF Crash, Gone, Idle, Job, Ended, NoLease
    <2>2. CASE /\ faults.torn < MaxTorn
               /\ faults' = [faults EXCEPT !.torn = @ + 1]
               /\ resolver' = "torn"
               /\ saved' = IF saved = "none" THEN resolver ELSE saved
      <3>1. faults' \in [dropped : 0..MaxDropped, unrestored : 0..MaxUnrestored, torn : 0..MaxTorn]
        BY <2>2
      <3> QED BY <1>19, <2>2, <3>1, Zenon
                 DEF Crash, Gone, Idle, Job, Ended, NoLease, Content
    <2> QED BY <1>19, <2>1, <2>2, Zenon DEF Crash
  <1>20. ASSUME Start PROVE TypeOK'
    BY <1>20, Zenon DEF Start, Recovered
  <1>21. ASSUME Tick PROVE TypeOK'
    BY <1>21 DEF Tick, dns, NoLease
  <1>22. CASE UNCHANGED vars
    BY <1>22, Zenon DEF vars
  <1> QED BY Zenon, <1>1, <1>2, <1>3, <1>4, <1>5, <1>6, <1>7, <1>8, <1>9, <1>10, <1>11,
         <1>12, <1>13, <1>14, <1>15, <1>16, <1>17, <1>18, <1>19, <1>20, <1>21, <1>22 DEF Next, Work, Connects

(* Every step keeps the operation mutex exclusive. *)
LEMMA MutexNext ==
  ASSUME TypeOK, MutexInv, JobInv, StartInv
  PROVE  [Next]_vars => MutexInv'
  <1> USE BrokerAssumption DEF MutexInv, TypeOK
  <1>1. ASSUME NEW c \in Connection, Request(c) PROVE MutexInv'
    BY <1>1, RequestCases DEF Serving, Worker
  <1>2. ASSUME NEW c \in Connection, Launch(c) PROVE MutexInv'
    BY <1>2 DEF Launch, AllStopped, Leased, Job, Worker
  <1>3. ASSUME NEW c \in Connection, TakeResolver(c) PROVE MutexInv'
    BY <1>3, Zenon DEF TakeResolver, Acquire, Recovered, Worker
  <1>4. ASSUME NEW c \in Connection, Started(c) PROVE MutexInv'
    BY <1>4 DEF Started, Idle, Worker
  <1>5. ASSUME NEW c \in Connection, StartFails(c) PROVE MutexInv'
    BY <1>5, FailedStart DEF Returned, Recovered, FaultCount, Idle, Worker
  <1>6. ASSUME NEW c \in Connection, DropCommand(c) PROVE MutexInv'
    <2>1. CASE job[c].pc = "starting"
      BY <1>6, <2>1, DroppedStart DEF Returned, Recovered, FaultCount, Idle, Worker
    <2>2. CASE job[c].pc # "starting"
      BY <1>6, <2>2, Zenon DEF DropCommand, LetGo, Abandoned, Shut, Idle, Worker
    <2> QED BY <2>1, <2>2, Zenon
  <1>7. ASSUME NEW p \in Worker, Lock(p) PROVE MutexInv'
    BY <1>7 DEF Lock, Job
  <1>8. ASSUME NEW p \in Worker, StopNext(p) PROVE MutexInv'
    BY <1>8 DEF StopNext, Shut, Job
  <1>9. ASSUME NEW p \in Worker, StopOk(p) PROVE MutexInv'
    BY <1>9 DEF StopOk, Job
  <1>10. ASSUME NEW p \in Worker, StopErr(p) PROVE MutexInv'
    BY <1>10 DEF StopErr, Retried, Idle, Job
  <1>11. ASSUME NEW p \in Worker, Answer(p) PROVE MutexInv'
    BY <1>11, Zenon DEF Answer, AllStopped, Idle
  <1>12. ASSUME NEW t \in Tunnel, Heartbeat(t) PROVE MutexInv'
    BY <1>12, Zenon DEF Heartbeat
  <1>13. ASSUME NEW t \in Tunnel, Abandon(t) PROVE MutexInv'
    BY <1>13, Zenon DEF Abandon
  <1>14. ASSUME NEW t \in Tunnel, EngineExits(t) PROVE MutexInv'
    BY <1>14, Zenon DEF EngineExits
  <1>15. ASSUME NEW t \in Tunnel, CleanUp(t) PROVE MutexInv'
    BY <1>15, CleanedUp, Zenon DEF Returned, Recovered, FaultCount
  <1>16. ASSUME ReapTick PROVE MutexInv'
    BY <1>16, Zenon DEF ReapTick, Asked, Idle, Serving, Worker
  <1>17. ASSUME Shutdown PROVE MutexInv'
    BY <1>17, Zenon DEF Shutdown, Serving, Asked, Idle, LetGo, Abandoned, Shut, Worker
  <1>18. ASSUME Exit PROVE MutexInv'
    BY <1>18, Zenon DEF Exit, AllStopped, Gone, Idle, Recovered, Worker
  <1>19. ASSUME Crash PROVE MutexInv'
    BY <1>19, Zenon DEF Crash, Gone, Idle, Writing
  <1>20. ASSUME Start PROVE MutexInv'
    BY <1>20, Zenon DEF Start, Recovered
  <1>21. ASSUME Tick PROVE MutexInv'
    BY <1>21, Zenon DEF Tick
  <1>22. CASE UNCHANGED vars
    BY <1>22, Zenon DEF vars
  <1> QED BY Zenon, <1>1, <1>2, <1>3, <1>4, <1>5, <1>6, <1>7, <1>8, <1>9, <1>10, <1>11,
         <1>12, <1>13, <1>14, <1>15, <1>16, <1>17, <1>18, <1>19, <1>20, <1>21, <1>22 DEF Next, Work, Connects

(* Every step keeps each command about what it was asked for. *)
LEMMA JobNext ==
  ASSUME TypeOK, MutexInv, JobInv, StartInv
  PROVE  [Next]_vars => JobInv'
  <1> USE BrokerAssumption DEF JobInv, TypeOK
  <1>1. ASSUME NEW c \in Connection, Request(c) PROVE JobInv'
    BY <1>1, RequestCases DEF Serving, Worker
  <1>2. ASSUME NEW c \in Connection, Launch(c) PROVE JobInv'
    BY <1>2 DEF Launch, AllStopped, Leased, Job, Worker, Connected, Ended
  <1>3. ASSUME NEW c \in Connection, TakeResolver(c) PROVE JobInv'
    BY <1>3, Zenon DEF TakeResolver, Acquire, Recovered, Worker
  <1>4. ASSUME NEW c \in Connection, Started(c) PROVE JobInv'
    BY <1>4, Zenon DEF Started, Idle, Worker, Connected
  <1>5. ASSUME NEW c \in Connection, StartFails(c) PROVE JobInv'
    BY <1>5, FailedStart DEF Returned, Recovered, FaultCount, Idle, Worker, Ended
  <1>6. ASSUME NEW c \in Connection, DropCommand(c) PROVE JobInv'
    <2>1. CASE job[c].pc = "starting"
      BY <1>6, <2>1, DroppedStart DEF Returned, Recovered, FaultCount, Idle, Worker, Ended
    <2>2. CASE job[c].pc # "starting"
      BY <1>6, <2>2 DEF DropCommand, LetGo, Abandoned, Shut, Idle, Worker, Connected
    <2> QED BY <2>1, <2>2, Zenon
  <1>7. ASSUME NEW p \in Worker, Lock(p) PROVE JobInv'
    BY <1>7 DEF Lock, Job
  <1>8. ASSUME NEW p \in Worker, StopNext(p) PROVE JobInv'
    BY <1>8 DEF StopNext, Shut, Job
  <1>9. ASSUME NEW p \in Worker, StopOk(p) PROVE JobInv'
    BY <1>9 DEF StopOk, Job
  <1>10. ASSUME NEW p \in Worker, StopErr(p) PROVE JobInv'
    BY <1>10 DEF StopErr, Retried, Idle, Job
  <1>11. ASSUME NEW p \in Worker, Answer(p) PROVE JobInv'
    BY <1>11, Zenon DEF Answer, AllStopped, Idle
  <1>12. ASSUME NEW t \in Tunnel, Heartbeat(t) PROVE JobInv'
    BY <1>12, Zenon DEF Heartbeat
  <1>13. ASSUME NEW t \in Tunnel, Abandon(t) PROVE JobInv'
    BY <1>13, Zenon DEF Abandon
  <1>14. ASSUME NEW t \in Tunnel, EngineExits(t) PROVE JobInv'
    BY <1>14, Zenon DEF EngineExits, Connected
  <1>15. ASSUME NEW t \in Tunnel, CleanUp(t) PROVE JobInv'
    BY <1>15, CleanedUp DEF Returned, Recovered, FaultCount
  <1>16. ASSUME ReapTick PROVE JobInv'
    BY <1>16, Zenon DEF ReapTick, Asked, Idle, Serving, Worker
  <1>17. ASSUME Shutdown PROVE JobInv'
    BY <1>17, Zenon DEF Shutdown, Serving, Asked, Idle, LetGo, Abandoned, Shut, Worker, Connected
  <1>18. ASSUME Exit PROVE JobInv'
    BY <1>18, Zenon DEF Exit, AllStopped, Gone, Idle, Recovered, Worker
  <1>19. ASSUME Crash PROVE JobInv'
    BY <1>19, Zenon DEF Crash, Gone, Idle, Writing
  <1>20. ASSUME Start PROVE JobInv'
    BY <1>20, Zenon DEF Start, Recovered
  <1>21. ASSUME Tick PROVE JobInv'
    BY <1>21, Zenon DEF Tick
  <1>22. CASE UNCHANGED vars
    BY <1>22, Zenon DEF vars
  <1> QED BY Zenon, <1>1, <1>2, <1>3, <1>4, <1>5, <1>6, <1>7, <1>8, <1>9, <1>10, <1>11,
         <1>12, <1>13, <1>14, <1>15, <1>16, <1>17, <1>18, <1>19, <1>20, <1>21, <1>22 DEF Next, Work, Connects

(* Every step leaves a starting tunnel with its Connect. *)
LEMMA StartNext ==
  ASSUME TypeOK, MutexInv, JobInv, StartInv, DownInv
  PROVE  [Next]_vars => StartInv'
  <1> USE BrokerAssumption DEF StartInv, TypeOK
  <1>1. ASSUME NEW c \in Connection, Request(c) PROVE StartInv'
    BY <1>1, RequestCases DEF Serving, Worker, Leased
  <1>2. ASSUME NEW c \in Connection, Launch(c) PROVE StartInv'
    BY <1>2 DEF Launch, AllStopped, Leased, Job, Worker
  <1>3. ASSUME NEW c \in Connection, TakeResolver(c) PROVE StartInv'
    BY <1>3 DEF TakeResolver, Acquire, Recovered, Worker, Leased
  <1>4. ASSUME NEW c \in Connection, Started(c) PROVE StartInv'
    BY <1>4 DEF Started, Idle, Worker, MutexInv
  <1>5. ASSUME NEW c \in Connection, StartFails(c) PROVE StartInv'
    BY <1>5, FailedStart DEF Returned, Recovered, FaultCount, Idle, Worker, MutexInv
  <1>6. ASSUME NEW c \in Connection, DropCommand(c) PROVE StartInv'
    <2>1. CASE job[c].pc = "starting"
      BY <1>6, <2>1, DroppedStart DEF Returned, Recovered, FaultCount, Idle, Worker, MutexInv
    <2>2. CASE job[c].pc # "starting"
      BY <1>6, <2>2 DEF DropCommand, LetGo, Abandoned, Shut, Idle, Worker, Leased
    <2> QED BY <2>1, <2>2, Zenon
  <1>7. ASSUME NEW p \in Worker, Lock(p) PROVE StartInv'
    BY <1>7 DEF Lock, Job, MutexInv
  <1>8. ASSUME NEW p \in Worker, StopNext(p) PROVE StartInv'
    BY <1>8 DEF StopNext, Shut, Job, MutexInv
  <1>9. ASSUME NEW p \in Worker, StopOk(p) PROVE StartInv'
    BY <1>9 DEF StopOk, Job, MutexInv
  <1>10. ASSUME NEW p \in Worker, StopErr(p) PROVE StartInv'
    BY <1>10 DEF StopErr, Retried, Idle, Job, MutexInv
  <1>11. ASSUME NEW p \in Worker, Answer(p) PROVE StartInv'
    BY <1>11 DEF Answer, AllStopped, Idle, MutexInv
  <1>12. ASSUME NEW t \in Tunnel, Heartbeat(t) PROVE StartInv'
    BY <1>12, Zenon DEF Heartbeat
  <1>13. ASSUME NEW t \in Tunnel, Abandon(t) PROVE StartInv'
    BY <1>13 DEF Abandon, Leased
  <1>14. ASSUME NEW t \in Tunnel, EngineExits(t) PROVE StartInv'
    BY <1>14 DEF EngineExits, Leased
  <1>15. ASSUME NEW t \in Tunnel, CleanUp(t) PROVE StartInv'
    BY <1>15, CleanedUp DEF Returned, Recovered, FaultCount, Ended, Leased
  <1>16. ASSUME ReapTick PROVE StartInv'
    BY <1>16 DEF ReapTick, Asked, Idle, Serving, Worker, Leased
  <1>17. ASSUME Shutdown PROVE StartInv'
    BY <1>17 DEF Shutdown, Serving, Asked, Idle, LetGo, Abandoned, Shut, Worker, Leased
  <1>18. ASSUME Exit PROVE StartInv'
    BY <1>18 DEF Exit, AllStopped, Gone, Idle, Recovered, Worker, MutexInv
  <1>19. ASSUME Crash PROVE StartInv'
    BY <1>19, Zenon DEF Crash, Gone, Idle, Writing, Alive
  <1>20. ASSUME Start PROVE StartInv'
    BY <1>20 DEF Start, Recovered, Worker, DownInv
  <1>21. ASSUME Tick PROVE StartInv'
    BY <1>21 DEF Tick, Leased, NoLease
  <1>22. CASE UNCHANGED vars
    BY <1>22 DEF vars, Leased
  <1> QED BY Zenon, <1>1, <1>2, <1>3, <1>4, <1>5, <1>6, <1>7, <1>8, <1>9, <1>10, <1>11,
         <1>12, <1>13, <1>14, <1>15, <1>16, <1>17, <1>18, <1>19, <1>20, <1>21, <1>22 DEF Next, Work, Connects

(* Nothing runs while the service is down. *)
LEMMA DownNext ==
  ASSUME TypeOK, MutexInv, StartInv, DownInv
  PROVE  [Next]_vars => DownInv'
  <1> USE BrokerAssumption DEF DownInv, TypeOK
  <1>1. ASSUME NEW c \in Connection, Request(c) PROVE DownInv'
    BY <1>1, RequestCases, Zenon DEF Serving, Worker
  <1>2. ASSUME NEW c \in Connection, Launch(c) PROVE DownInv'
    BY <1>2 DEF Launch, AllStopped, Leased, Job, Worker, MutexInv
  <1>3. ASSUME NEW c \in Connection, TakeResolver(c) PROVE DownInv'
    BY <1>3, Zenon DEF TakeResolver, Acquire, Recovered, Worker, MutexInv
  <1>4. ASSUME NEW c \in Connection, Started(c) PROVE DownInv'
    BY <1>4, Zenon DEF Started, Idle, Worker
  <1>5. ASSUME NEW c \in Connection, StartFails(c) PROVE DownInv'
    BY <1>5, FailedStart DEF Returned, Recovered, FaultCount, Idle, Worker
  <1>6. ASSUME NEW c \in Connection, DropCommand(c) PROVE DownInv'
    <2>1. CASE job[c].pc = "starting"
      BY <1>6, <2>1, DroppedStart DEF Returned, Recovered, FaultCount, Idle, Worker
    <2>2. CASE job[c].pc # "starting"
      BY <1>6, <2>2 DEF DropCommand, LetGo, Abandoned, Shut, Idle, Worker
    <2> QED BY <2>1, <2>2, Zenon
  <1>7. ASSUME NEW p \in Worker, Lock(p) PROVE DownInv'
    BY <1>7 DEF Lock, Job, Idle
  <1>8. ASSUME NEW p \in Worker, StopNext(p) PROVE DownInv'
    BY <1>8 DEF StopNext, Shut, Job, Worker, MutexInv
  <1>9. ASSUME NEW p \in Worker, StopOk(p) PROVE DownInv'
    BY <1>9 DEF StopOk, Job, Worker, MutexInv
  <1>10. ASSUME NEW p \in Worker, StopErr(p) PROVE DownInv'
    BY <1>10 DEF StopErr, Retried, Idle, Job
  <1>11. ASSUME NEW p \in Worker, Answer(p) PROVE DownInv'
    BY <1>11 DEF Answer, AllStopped, Idle
  <1>12. ASSUME NEW t \in Tunnel, Heartbeat(t) PROVE DownInv'
    BY <1>12, Zenon DEF Heartbeat
  <1>13. ASSUME NEW t \in Tunnel, Abandon(t) PROVE DownInv'
    BY <1>13, Zenon DEF Abandon, dns
  <1>14. ASSUME NEW t \in Tunnel, EngineExits(t) PROVE DownInv'
    BY <1>14, Zenon DEF EngineExits, Connected, Alive
  <1>15. ASSUME NEW t \in Tunnel, CleanUp(t) PROVE DownInv'
    BY <1>15, CleanedUp, Zenon DEF Returned, Recovered, FaultCount, Connected, Alive
  <1>16. ASSUME ReapTick PROVE DownInv'
    BY <1>16, Zenon DEF ReapTick, Asked, Idle, Serving, Worker
  <1>17. ASSUME Shutdown PROVE DownInv'
    BY <1>17, Zenon DEF Shutdown, Serving, Asked, Idle, LetGo, Abandoned, Shut, Worker
  <1>18. ASSUME Exit PROVE DownInv'
    BY <1>18, Zenon DEF Exit, AllStopped, Gone, Idle, Recovered, Worker, Connected, Alive
  <1>19. ASSUME Crash PROVE DownInv'
    BY <1>19, Zenon DEF Crash, Gone, Idle, Writing, Connected, Alive
  <1>20. ASSUME Start PROVE DownInv'
    BY <1>20, Zenon DEF Start, Recovered
  <1>21. ASSUME Tick PROVE DownInv'
    BY <1>21, Zenon DEF Tick, dns
  <1>22. CASE UNCHANGED vars
    BY <1>22, Zenon DEF vars
  <1> QED BY Zenon, <1>1, <1>2, <1>3, <1>4, <1>5, <1>6, <1>7, <1>8, <1>9, <1>10, <1>11,
         <1>12, <1>13, <1>14, <1>15, <1>16, <1>17, <1>18, <1>19, <1>20, <1>21, <1>22 DEF Next, Work, Connects

-----------------------------------------------------------------------------

(* Somebody answers for every tunnel that has not ended: the map, or the   *)
(* command that took it out.                                               *)
AnsweredFor(t) ==
  t \in Leased \/ \E p \in Worker : t \in job[p].left \/ (job[p].pc = "stopping" /\ job[p].id = t)

ManagedInv ==
  /\ RunningIsManaged
  /\ Undisturbed => \A t \in Tunnel : engine[t] \in Connected => AnsweredFor(t)

StoppedInv ==
  /\ \A t \in told : engine[t] \in Connected \cup Ended
  /\ StoppedIsDown
  /\ Undisturbed => \A p \in Worker :
       job[p].pc = "removed" /\ job[p].req = "stop" /\ job[p].left = {}
         => engine[job[p].id] \in Ended

(* The resolver and its state file agree on where the host's own           *)
(* configuration is.                                                       *)
DnsInv ==
  /\ \A t \in holding : engine[t] \in Alive
  /\ faults.torn = 0 => resolver \in {"host", "tunnel"}
  /\ HostResolverIsKept
  /\ up /\ faults.torn = 0 /\ faults.unrestored = 0 =>
       \/ resolver = "tunnel" /\ saved = "host" /\ holding # {}
       \/ resolver = "host" /\ saved = "none"

(* A tunnel that runs, or has taken the resolver to run, still has it. *)
UsesInv ==
  Undisturbed => \A t \in Tunnel :
    engine[t] = "running" \/ (engine[t] = "starting" /\ t \in holding) => resolver = "tunnel"

BrokerInv ==
  /\ TypeOK /\ MutexInv /\ JobInv /\ StartInv /\ DownInv
  /\ ManagedInv /\ StoppedInv /\ OneTunnel /\ DnsInv /\ UsesInv

(* No step leaves a tunnel that nobody answers for. *)
LEMMA ManagedNext ==
  ASSUME TypeOK, MutexInv, JobInv, StartInv, DownInv, ManagedInv
  PROVE  [Next]_vars => ManagedInv'
  <1> USE BrokerAssumption DEF ManagedInv, RunningIsManaged, Undisturbed, TypeOK
  <1>1. ASSUME NEW c \in Connection, Request(c) PROVE ManagedInv'
    BY <1>1, RequestCases, SMTT(30) DEF Serving, AnsweredFor, Job, Worker, MutexInv, Leased
  <1>2. ASSUME NEW c \in Connection, Launch(c) PROVE ManagedInv'
    BY <1>2, SMTT(30)
       DEF Launch, AllStopped, Leased, dns, AnsweredFor, Job, Worker, DownInv, Connected,
           Alive
  <1>3. ASSUME NEW c \in Connection, TakeResolver(c) PROVE ManagedInv'
    BY <1>3, ZenonT(30) DEF TakeResolver, Acquire, Recovered, AnsweredFor, Worker, StartInv
  <1>4. ASSUME NEW c \in Connection, Started(c) PROVE ManagedInv'
    BY <1>4 DEF Started, Idle, AnsweredFor, Worker, MutexInv, Leased, NoLease
  <1>5. ASSUME NEW c \in Connection, StartFails(c) PROVE ManagedInv'
    BY <1>5, FailedStart, SMTT(30)
       DEF Returned, Recovered, FaultCount, Idle, AnsweredFor, Worker, MutexInv,
           Connected, Leased
  <1>6. ASSUME NEW c \in Connection, DropCommand(c) PROVE ManagedInv'
    <2>1. CASE job[c].pc = "starting"
      BY <1>6, <2>1, DroppedStart
         DEF Returned, Recovered, FaultCount, Idle, Worker, MutexInv, Leased, NoLease
    <2>2. CASE job[c].pc # "starting"
      BY <1>6, <2>2 DEF DropCommand, LetGo, Abandoned, Shut, Idle, Worker, Leased
    <2> QED BY <2>1, <2>2, Zenon
  <1>7. ASSUME NEW p \in Worker, Lock(p) PROVE ManagedInv'
    BY <1>7, SMTT(30) DEF Lock, AnsweredFor, Job, Worker, Leased
  <1>8. ASSUME NEW p \in Worker, StopNext(p) PROVE ManagedInv'
    BY <1>8
       DEF StopNext, Shut, AnsweredFor, Job, Worker, MutexInv, Connected, Ended, Leased,
           NoLease
  <1>9. ASSUME NEW p \in Worker, StopOk(p) PROVE ManagedInv'
    BY <1>9 DEF StopOk, AnsweredFor, Job, Connected, Leased
  <1>10. ASSUME NEW p \in Worker, StopErr(p) PROVE ManagedInv'
    BY <1>10 DEF StopErr, Retried, Idle, AnsweredFor, Job, JobInv, Leased, NoLease
  <1>11. ASSUME NEW p \in Worker, Answer(p) PROVE ManagedInv'
    BY <1>11 DEF Answer, AllStopped, Idle, AnsweredFor, JobInv, Leased
  <1>12. ASSUME NEW t \in Tunnel, Heartbeat(t) PROVE ManagedInv'
    BY <1>12 DEF Heartbeat, AnsweredFor, Leased, NoLease
  <1>13. ASSUME NEW t \in Tunnel, Abandon(t) PROVE ManagedInv'
    BY <1>13, Zenon DEF Abandon, AnsweredFor, Leased
  <1>14. ASSUME NEW t \in Tunnel, EngineExits(t) PROVE ManagedInv'
    BY <1>14 DEF EngineExits, AnsweredFor, Leased
  <1>15. ASSUME NEW t \in Tunnel, CleanUp(t) PROVE ManagedInv'
    BY <1>15, CleanedUp
       DEF Returned, Recovered, FaultCount, AnsweredFor, StartInv, Connected, Ended,
           Leased
  <1>16. ASSUME ReapTick PROVE ManagedInv'
    BY <1>16, Zenon DEF ReapTick, Asked, Idle, Serving, AnsweredFor, Worker, MutexInv, Leased
  <1>17. ASSUME Shutdown PROVE ManagedInv'
    BY <1>17, Zenon DEF Shutdown, Serving, Asked, Idle, LetGo, Abandoned, Shut, Worker, MutexInv,
       Leased
  <1>18. ASSUME Exit PROVE ManagedInv'
    BY <1>18, Zenon DEF Exit, AllStopped, Gone, Idle, Recovered, Worker, Connected, Alive
  <1>19. ASSUME Crash PROVE ManagedInv'
    BY <1>19, Zenon DEF Crash, Gone, Idle, Writing, Connected, Alive
  <1>20. ASSUME Start PROVE ManagedInv'
    BY <1>20, Zenon DEF Start, Recovered, DownInv, Connected, Alive
  <1>21. ASSUME Tick PROVE ManagedInv'
    BY <1>21 DEF Tick, AnsweredFor, Leased, NoLease
  <1>22. CASE UNCHANGED vars
    BY <1>22, Zenon DEF vars, AnsweredFor, Leased
  <1> QED BY Zenon, <1>1, <1>2, <1>3, <1>4, <1>5, <1>6, <1>7, <1>8, <1>9, <1>10, <1>11,
         <1>12, <1>13, <1>14, <1>15, <1>16, <1>17, <1>18, <1>19, <1>20, <1>21, <1>22 DEF Next, Work, Connects

(* A Stop is answered when its tunnel has ended. *)
LEMMA StoppedNext ==
  ASSUME TypeOK, MutexInv, JobInv, StartInv, DownInv, ManagedInv, StoppedInv
  PROVE  [Next]_vars => StoppedInv'
  <1> USE BrokerAssumption DEF StoppedInv, StoppedIsDown, Undisturbed, TypeOK
  <1>1. ASSUME NEW c \in Connection, Request(c) PROVE StoppedInv'
    BY <1>1, RequestCases, Zenon DEF Serving, Worker
  <1>2. ASSUME NEW c \in Connection, Launch(c) PROVE StoppedInv'
    BY <1>2, SMTT(30) DEF Launch, AllStopped, Leased, Job, Worker, Connected, Ended
  <1>3. ASSUME NEW c \in Connection, TakeResolver(c) PROVE StoppedInv'
    BY <1>3, Zenon DEF TakeResolver, Acquire, Recovered, Worker
  <1>4. ASSUME NEW c \in Connection, Started(c) PROVE StoppedInv'
    BY <1>4 DEF Started, Idle, Worker, StartInv, Connected, Ended
  <1>5. ASSUME NEW c \in Connection, StartFails(c) PROVE StoppedInv'
    BY <1>5, FailedStart
       DEF Returned, Recovered, FaultCount, Idle, Worker, MutexInv, Ended
  <1>6. ASSUME NEW c \in Connection, DropCommand(c) PROVE StoppedInv'
    <2>1. CASE job[c].pc = "starting"
      BY <1>6, <2>1, DroppedStart DEF Returned, Recovered, FaultCount, Idle, Worker, Ended
    <2>2. CASE job[c].pc # "starting"
      BY <1>6, <2>2 DEF DropCommand, LetGo, Abandoned, Shut, Idle, Worker, Connected
    <2> QED BY <2>1, <2>2, Zenon
  <1>7. ASSUME NEW p \in Worker, Lock(p) PROVE StoppedInv'
    BY <1>7, SMTT(30)
       DEF Lock, TakenOut, Leased, Expired, Job, MutexInv, JobInv, ManagedInv,
           AnsweredFor, Connected, Ended, Worker
  <1>8. ASSUME NEW p \in Worker, StopNext(p) PROVE StoppedInv'
    BY <1>8 DEF StopNext, Shut, Job, Worker, JobInv
  <1>9. ASSUME NEW p \in Worker, StopOk(p) PROVE StoppedInv'
    BY <1>9 DEF StopOk, Job, JobInv, Connected
  <1>10. ASSUME NEW p \in Worker, StopErr(p) PROVE StoppedInv'
    BY <1>10 DEF StopErr, Retried, Idle, Job, JobInv
  <1>11. ASSUME NEW p \in Worker, Answer(p) PROVE StoppedInv'
    BY <1>11 DEF Answer, AllStopped, Idle, JobInv
  <1>12. ASSUME NEW t \in Tunnel, Heartbeat(t) PROVE StoppedInv'
    BY <1>12, Zenon DEF Heartbeat
  <1>13. ASSUME NEW t \in Tunnel, Abandon(t) PROVE StoppedInv'
    BY <1>13, Zenon DEF Abandon
  <1>14. ASSUME NEW t \in Tunnel, EngineExits(t) PROVE StoppedInv'
    BY <1>14 DEF EngineExits, Connected, Ended
  <1>15. ASSUME NEW t \in Tunnel, CleanUp(t) PROVE StoppedInv'
    BY <1>15, CleanedUp DEF Returned, Recovered, FaultCount, JobInv
  <1>16. ASSUME ReapTick PROVE StoppedInv'
    BY <1>16, Zenon DEF ReapTick, Asked, Idle, Serving, Worker
  <1>17. ASSUME Shutdown PROVE StoppedInv'
    BY <1>17, Zenon DEF Shutdown, Serving, Asked, Idle, LetGo, Abandoned, Shut, Worker, Connected
  <1>18. ASSUME Exit PROVE StoppedInv'
    BY <1>18, Zenon DEF Exit, AllStopped, Gone, Idle, Recovered, Worker, Connected, Ended
  <1>19. ASSUME Crash PROVE StoppedInv'
    BY <1>19, Zenon DEF Crash, Gone, Idle, Writing, Connected, Ended
  <1>20. ASSUME Start PROVE StoppedInv'
    BY <1>20, Zenon DEF Start, Recovered
  <1>21. ASSUME Tick PROVE StoppedInv'
    BY <1>21, Zenon DEF Tick
  <1>22. CASE UNCHANGED vars
    BY <1>22, Zenon DEF vars
  <1> QED BY Zenon, <1>1, <1>2, <1>3, <1>4, <1>5, <1>6, <1>7, <1>8, <1>9, <1>10, <1>11,
         <1>12, <1>13, <1>14, <1>15, <1>16, <1>17, <1>18, <1>19, <1>20, <1>21, <1>22 DEF Next, Work, Connects

(* No step makes a second tunnel. *)
LEMMA OneNext ==
  ASSUME TypeOK, MutexInv, JobInv, StartInv, DownInv, ManagedInv, OneTunnel
  PROVE  [Next]_vars => OneTunnel'
  <1> USE BrokerAssumption DEF OneTunnel, Undisturbed, TypeOK
  <1>1. ASSUME NEW c \in Connection, Request(c) PROVE OneTunnel'
    BY <1>1, RequestCases, Zenon DEF Serving, Worker
  <1>2. ASSUME NEW c \in Connection, Launch(c) PROVE OneTunnel'
    BY <1>2, SMTT(30)
       DEF Launch, AllStopped, Leased, Job, Worker, MutexInv, JobInv, StartInv,
           ManagedInv, RunningIsManaged, AnsweredFor, Alive
  <1>3. ASSUME NEW c \in Connection, TakeResolver(c) PROVE OneTunnel'
    BY <1>3, Zenon DEF TakeResolver, Acquire, Recovered, Worker
  <1>4. ASSUME NEW c \in Connection, Started(c) PROVE OneTunnel'
    BY <1>4 DEF Started, Idle, Worker, MutexInv, StartInv
  <1>5. ASSUME NEW c \in Connection, StartFails(c) PROVE OneTunnel'
    BY <1>5, FailedStart, SMTT(30)
       DEF Returned, Recovered, FaultCount, Idle, Worker, MutexInv, StartInv, ManagedInv,
           RunningIsManaged
  <1>6. ASSUME NEW c \in Connection, DropCommand(c) PROVE OneTunnel'
    <2>1. CASE job[c].pc = "starting"
      BY <1>6, <2>1, DroppedStart DEF Returned, Recovered, FaultCount, Idle, Worker, MutexInv,
         StartInv, ManagedInv, RunningIsManaged
    <2>2. CASE job[c].pc # "starting"
      BY <1>6, <2>2
         DEF DropCommand, LetGo, Abandoned, Shut, Idle, Worker, Connected, Alive
    <2> QED BY <2>1, <2>2, Zenon
  <1>7. ASSUME NEW p \in Worker, Lock(p) PROVE OneTunnel'
    BY <1>7 DEF Lock, Job, Worker
  <1>8. ASSUME NEW p \in Worker, StopNext(p) PROVE OneTunnel'
    BY <1>8 DEF StopNext, Shut, Job, Worker
  <1>9. ASSUME NEW p \in Worker, StopOk(p) PROVE OneTunnel'
    BY <1>9 DEF StopOk, Job
  <1>10. ASSUME NEW p \in Worker, StopErr(p) PROVE OneTunnel'
    BY <1>10 DEF StopErr, Retried, Idle, Job, JobInv
  <1>11. ASSUME NEW p \in Worker, Answer(p) PROVE OneTunnel'
    BY <1>11 DEF Answer, AllStopped, Idle, JobInv
  <1>12. ASSUME NEW t \in Tunnel, Heartbeat(t) PROVE OneTunnel'
    BY <1>12, Zenon DEF Heartbeat
  <1>13. ASSUME NEW t \in Tunnel, Abandon(t) PROVE OneTunnel'
    BY <1>13, Zenon DEF Abandon
  <1>14. ASSUME NEW t \in Tunnel, EngineExits(t) PROVE OneTunnel'
    BY <1>14 DEF EngineExits, Connected, Alive
  <1>15. ASSUME NEW t \in Tunnel, CleanUp(t) PROVE OneTunnel'
    BY <1>15, CleanedUp DEF Returned, Recovered, FaultCount, Ended
  <1>16. ASSUME ReapTick PROVE OneTunnel'
    BY <1>16, Zenon DEF ReapTick, Asked, Idle, Serving, Worker
  <1>17. ASSUME Shutdown PROVE OneTunnel'
    BY <1>17, Zenon DEF Shutdown, Serving, Asked, Idle, LetGo, Abandoned, Shut, Worker, Connected, Alive
  <1>18. ASSUME Exit PROVE OneTunnel'
    BY <1>18, Zenon DEF Exit, AllStopped, Gone, Idle, Recovered, Worker, Connected, Alive
  <1>19. ASSUME Crash PROVE OneTunnel'
    BY <1>19, Zenon DEF Crash, Gone, Idle, Writing, Connected, Alive
  <1>20. ASSUME Start PROVE OneTunnel'
    BY <1>20, Zenon DEF Start, Recovered
  <1>21. ASSUME Tick PROVE OneTunnel'
    BY <1>21, Zenon DEF Tick
  <1>22. CASE UNCHANGED vars
    BY <1>22, Zenon DEF vars
  <1> QED BY Zenon, <1>1, <1>2, <1>3, <1>4, <1>5, <1>6, <1>7, <1>8, <1>9, <1>10, <1>11,
         <1>12, <1>13, <1>14, <1>15, <1>16, <1>17, <1>18, <1>19, <1>20, <1>21, <1>22 DEF Next, Work, Connects

(* No step loses the host's resolver configuration. *)
LEMMA DnsNext ==
  ASSUME TypeOK, MutexInv, StartInv, DownInv, DnsInv
  PROVE  [Next]_vars => DnsInv'
  <1> USE BrokerAssumption DEF DnsInv, HostResolverIsKept, TypeOK
  <1>1. ASSUME NEW c \in Connection, Request(c) PROVE DnsInv'
    BY <1>1, RequestCases, Zenon DEF Serving, dns, Worker
  <1>2. ASSUME NEW c \in Connection, Launch(c) PROVE DnsInv'
    BY <1>2, Zenon DEF Launch, AllStopped, Leased, dns, Job, Worker, Alive
  <1>3. ASSUME NEW c \in Connection, TakeResolver(c) PROVE DnsInv'
    BY <1>3 DEF TakeResolver, Acquire, Recovered, Worker, StartInv, Alive
  <1>4. ASSUME NEW c \in Connection, Started(c) PROVE DnsInv'
    BY <1>4, Zenon DEF Started, Idle, dns, Worker, Connected, Alive
  <1>5. ASSUME NEW c \in Connection, StartFails(c) PROVE DnsInv'
    BY <1>5, FailedStart DEF Returned, Recovered, FaultCount, Idle, Worker
  <1>6. ASSUME NEW c \in Connection, DropCommand(c) PROVE DnsInv'
    <2>1. CASE job[c].pc = "starting"
      BY <1>6, <2>1, DroppedStart DEF Returned, Recovered, FaultCount, Idle, Worker
    <2>2. CASE job[c].pc # "starting"
      BY <1>6, <2>2
         DEF DropCommand, LetGo, Abandoned, Shut, Idle, dns, Worker, Connected, Alive
    <2> QED BY <2>1, <2>2, Zenon
  <1>7. ASSUME NEW p \in Worker, Lock(p) PROVE DnsInv'
    BY <1>7, Zenon DEF Lock, dns, Job
  <1>8. ASSUME NEW p \in Worker, StopNext(p) PROVE DnsInv'
    BY <1>8 DEF StopNext, Shut, dns, Job
  <1>9. ASSUME NEW p \in Worker, StopOk(p) PROVE DnsInv'
    BY <1>9, Zenon DEF StopOk, dns, Job
  <1>10. ASSUME NEW p \in Worker, StopErr(p) PROVE DnsInv'
    BY <1>10, Zenon DEF StopErr, Retried, Idle, dns, Job
  <1>11. ASSUME NEW p \in Worker, Answer(p) PROVE DnsInv'
    BY <1>11, Zenon DEF Answer, AllStopped, Idle, dns
  <1>12. ASSUME NEW t \in Tunnel, Heartbeat(t) PROVE DnsInv'
    BY <1>12, Zenon DEF Heartbeat, dns
  <1>13. ASSUME NEW t \in Tunnel, Abandon(t) PROVE DnsInv'
    BY <1>13, Zenon DEF Abandon, dns
  <1>14. ASSUME NEW t \in Tunnel, EngineExits(t) PROVE DnsInv'
    BY <1>14, Zenon DEF EngineExits, dns, Connected, Alive
  <1>15. ASSUME NEW t \in Tunnel, CleanUp(t) PROVE DnsInv'
    BY <1>15, CleanedUp DEF Returned, Recovered, FaultCount
  <1>16. ASSUME ReapTick PROVE DnsInv'
    BY <1>16, Zenon DEF ReapTick, Asked, Idle, Serving, dns, Worker
  <1>17. ASSUME Shutdown PROVE DnsInv'
    BY <1>17, Zenon DEF Shutdown, Serving, Asked, Idle, LetGo, Abandoned, Shut, dns, Worker,
       Connected, Alive
  <1>18. ASSUME Exit PROVE DnsInv'
    BY <1>18, Zenon DEF Exit, AllStopped, Gone, Idle, Recovered, Worker
  <1>19. ASSUME Crash PROVE DnsInv'
    BY <1>19 DEF Crash, Gone, Idle, Writing
  <1>20. ASSUME Start PROVE DnsInv'
    BY <1>20, Zenon DEF Start, Recovered
  <1>21. ASSUME Tick PROVE DnsInv'
    BY <1>21, Zenon DEF Tick, dns
  <1>22. CASE UNCHANGED vars
    BY <1>22, Zenon DEF vars
  <1> QED BY Zenon, <1>1, <1>2, <1>3, <1>4, <1>5, <1>6, <1>7, <1>8, <1>9, <1>10, <1>11,
         <1>12, <1>13, <1>14, <1>15, <1>16, <1>17, <1>18, <1>19, <1>20, <1>21, <1>22 DEF Next, Work, Connects

(* No step takes the resolver from a running tunnel. *)
LEMMA UsesNext ==
  ASSUME TypeOK, MutexInv, JobInv, StartInv, DownInv, OneTunnel, DnsInv, UsesInv
  PROVE  [Next]_vars => UsesInv'
  <1> USE BrokerAssumption DEF UsesInv, Undisturbed, TypeOK
  <1>1. ASSUME NEW c \in Connection, Request(c) PROVE UsesInv'
    BY <1>1, RequestCases, Zenon DEF Serving, dns, Worker
  <1>2. ASSUME NEW c \in Connection, Launch(c) PROVE UsesInv'
    BY <1>2 DEF Launch, AllStopped, Leased, dns, Job, Worker, DnsInv, Connected, Alive
  <1>3. ASSUME NEW c \in Connection, TakeResolver(c) PROVE UsesInv'
    BY <1>3, Zenon DEF TakeResolver, Acquire, Recovered, Worker
  <1>4. ASSUME NEW c \in Connection, Started(c) PROVE UsesInv'
    BY <1>4 DEF Started, Idle, dns, Worker, StartInv
  <1>5. ASSUME NEW c \in Connection, StartFails(c) PROVE UsesInv'
    BY <1>5, FailedStart DEF Returned, Recovered, FaultCount, Idle, Worker, OneTunnel, Alive
  <1>6. ASSUME NEW c \in Connection, DropCommand(c) PROVE UsesInv'
    <2>1. CASE job[c].pc = "starting"
      BY <1>6, <2>1, DroppedStart DEF Returned, Recovered, FaultCount, Idle, Worker
    <2>2. CASE job[c].pc # "starting"
      BY <1>6, <2>2 DEF DropCommand, LetGo, Abandoned, Shut, Idle, Worker
    <2> QED BY <2>1, <2>2, Zenon
  <1>7. ASSUME NEW p \in Worker, Lock(p) PROVE UsesInv'
    BY <1>7 DEF Lock, dns, Job, Worker
  <1>8. ASSUME NEW p \in Worker, StopNext(p) PROVE UsesInv'
    BY <1>8 DEF StopNext, Shut, dns, Job, Worker
  <1>9. ASSUME NEW p \in Worker, StopOk(p) PROVE UsesInv'
    BY <1>9 DEF StopOk, dns, Job
  <1>10. ASSUME NEW p \in Worker, StopErr(p) PROVE UsesInv'
    BY <1>10 DEF StopErr, Retried, Idle, dns, Job, JobInv
  <1>11. ASSUME NEW p \in Worker, Answer(p) PROVE UsesInv'
    BY <1>11 DEF Answer, AllStopped, Idle, dns, JobInv
  <1>12. ASSUME NEW t \in Tunnel, Heartbeat(t) PROVE UsesInv'
    BY <1>12, Zenon DEF Heartbeat, dns
  <1>13. ASSUME NEW t \in Tunnel, Abandon(t) PROVE UsesInv'
    BY <1>13, Zenon DEF Abandon, dns
  <1>14. ASSUME NEW t \in Tunnel, EngineExits(t) PROVE UsesInv'
    BY <1>14, Zenon DEF EngineExits, dns
  <1>15. ASSUME NEW t \in Tunnel, CleanUp(t) PROVE UsesInv'
    BY <1>15, CleanedUp DEF Returned, Recovered, FaultCount, OneTunnel, Ended
  <1>16. ASSUME ReapTick PROVE UsesInv'
    BY <1>16, Zenon DEF ReapTick, Asked, Idle, Serving, dns, Worker
  <1>17. ASSUME Shutdown PROVE UsesInv'
    BY <1>17, Zenon DEF Shutdown, Serving, Asked, Idle, LetGo, Abandoned, Shut, Worker
  <1>18. ASSUME Exit PROVE UsesInv'
    BY <1>18, Zenon DEF Exit, AllStopped, Gone, Idle, Recovered, Worker, Connected, Alive
  <1>19. ASSUME Crash PROVE UsesInv'
    BY <1>19, Zenon DEF Crash, Gone, Idle, Writing, Connected, Alive
  <1>20. ASSUME Start PROVE UsesInv'
    BY <1>20, Zenon DEF Start, Recovered, DownInv, Connected, Alive
  <1>21. ASSUME Tick PROVE UsesInv'
    BY <1>21, Zenon DEF Tick, dns
  <1>22. CASE UNCHANGED vars
    BY <1>22, Zenon DEF vars
  <1> QED BY Zenon, <1>1, <1>2, <1>3, <1>4, <1>5, <1>6, <1>7, <1>8, <1>9, <1>10, <1>11,
         <1>12, <1>13, <1>14, <1>15, <1>16, <1>17, <1>18, <1>19, <1>20, <1>21, <1>22 DEF Next, Work, Connects

(* The broker begins with nothing running and the host's resolver in place. *)
LEMMA BrokerInit == Init => BrokerInv
  <1> SUFFICES ASSUME Init PROVE BrokerInv
    BY Zenon
  <1>1. TypeOK
    <2>1. job \in [Worker -> Job]
      BY Zenon DEF Init, Idle, Job
    <2>2. faults \in [dropped : 0..MaxDropped, unrestored : 0..MaxUnrestored, torn : 0..MaxTorn]
      BY BrokerAssumption DEF Init
    <2> QED BY <2>1, <2>2, Zenon DEF Init, TypeOK, Content
  <1>2. \A p \in Worker : job[p].pc = "idle" /\ job[p].left = {}
    BY Zenon DEF Init, Idle
  <1>3. \A t \in Tunnel : engine[t] = "none"
    BY Zenon DEF Init
  <1>4. MutexInv
    BY <1>2, BrokerAssumption, Zenon DEF Init, MutexInv
  <1>5. JobInv /\ StartInv /\ DownInv
    BY <1>2, <1>3, Zenon DEF Init, JobInv, StartInv, DownInv
  <1>6. ManagedInv /\ OneTunnel /\ UsesInv
    BY <1>3, Zenon DEF ManagedInv, RunningIsManaged, OneTunnel, UsesInv, Connected
  <1>7. StoppedInv
    BY <1>2, Zenon DEF Init, StoppedInv, StoppedIsDown
  <1>8. DnsInv
    BY Zenon DEF Init, DnsInv, HostResolverIsKept
  <1> QED BY <1>1, <1>4, <1>5, <1>6, <1>7, <1>8, Zenon DEF BrokerInv

(* The inductive invariant holds of every behaviour of the broker. *)
THEOREM BrokerInvariant == Spec => []BrokerInv
  <1>1. BrokerInv /\ [Next]_vars => BrokerInv'
    BY TypeNext, MutexNext, JobNext, StartNext, DownNext, ManagedNext, StoppedNext, OneNext,
       DnsNext, UsesNext, Zenon DEF BrokerInv
  <1> QED BY BrokerInit, <1>1, PTL DEF Spec

(* handle/Connect never lets two full-route tunnels start or run at once,  *)
(* and without dropped commands not even overlap a tunnel that is ending.  *)
THEOREM OneTunnelAlways == Spec => []OneTunnel
  <1>1. BrokerInv => OneTunnel
    BY Zenon DEF BrokerInv
  <1> QED BY BrokerInvariant, <1>1, PTL

(* No timeout, failed stop or shutdown leaves a running engine that is     *)
(* neither in the map nor in the hands of the command that stops it.       *)
THEOREM RunningAlwaysManaged == Spec => []RunningIsManaged
  <1>1. BrokerInv => RunningIsManaged
    BY Zenon DEF BrokerInv, ManagedInv
  <1> QED BY BrokerInvariant, <1>1, PTL

(* A running tunnel has the resolver: no other tunnel's clean-up restores  *)
(* it underneath.                                                          *)
THEOREM TunnelDnsInUse == Spec => []RunningUsesTunnelDns
  <1>1. BrokerInv => RunningUsesTunnelDns
    BY Zenon DEF BrokerInv, UsesInv, RunningUsesTunnelDns
  <1> QED BY BrokerInvariant, <1>1, PTL

(* Stop is answered Stopped only once the tunnel has ended. *)
THEOREM StoppedMeansDown == Spec => []StoppedIsDown
  <1>1. BrokerInv => StoppedIsDown
    BY Zenon DEF BrokerInv, StoppedInv
  <1> QED BY BrokerInvariant, <1>1, PTL

(* acquire_at, restore and recover_at never lose the host's resolver       *)
(* configuration, unless a crash cuts a write short.                       *)
THEOREM HostResolverKept == Spec => []HostResolverIsKept
  <1>1. BrokerInv => HostResolverIsKept
    BY Zenon DEF BrokerInv, DnsInv
  <1> QED BY BrokerInvariant, <1>1, PTL

(* With no tunnel left, the host's resolver is back in place. *)
THEOREM ResolverComesBack == Spec => []ResolverGivenBack
  <1>1. BrokerInv => ResolverGivenBack
    BY Zenon DEF BrokerInv, TypeOK, DnsInv, ResolverGivenBack
  <1> QED BY BrokerInvariant, <1>1, PTL

(* Whatever is dropped, fails or crashes, the broker knows its tunnels     *)
(* (handle, reap_expired_locked, shutdown).                                *)
THEOREM TunnelAlwaysManaged == Spec => []TunnelIsManaged
  BY OneTunnelAlways, RunningAlwaysManaged, StoppedMeansDown, PTL DEF TunnelIsManaged

(* The resolver goes into the tunnel and comes back (SystemDnsLease).      *)
THEOREM ResolverAlwaysSafe == Spec => []ResolverIsSafe
  BY TunnelDnsInUse, HostResolverKept, ResolverComesBack, PTL DEF ResolverIsSafe

=============================================================================
