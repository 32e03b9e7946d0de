---------------------------- MODULE AccessService ---------------------------
(***************************************************************************)
(* The access service of ket-server: request handlers, the expiry reaper    *)
(* and the allowance meter, all working on one table behind an async mutex  *)
(* and one state file.                                                      *)
(*                                                                         *)
(* An operation reads the clock, and for a session token also a copy of the *)
(* session and its grant, before it queues for the mutex.  With the mutex   *)
(* held it works out the next table from the current one and stores it;     *)
(* only a successful store makes it the current one.  A request that is     *)
(* dropped while its store runs (its client went away, or the 15 second     *)
(* limit passed) releases the mutex at once, but the write goes on in a     *)
(* worker thread.  Every write uses the same temporary file, so a store that *)
(* begins before such a write has ended may get entangled with it.           *)
(***************************************************************************)
EXTENDS LeaseTable

CONSTANTS Handler,     \* request handlers that may run at the same time
          Reaper,      \* the expiry task
          Meter,       \* the allowance task
          None,        \* no process, no value
          Unreadable,  \* a state file that does not decode
          Changes,     \* the changes an admin asks for
          MaxInFlight, \* bound: operations and abandoned writes at one time
          MaxCancels   \* bound: requests dropped while their store runs

(* A change names the fields it sets; a field it leaves out keeps whatever *)
(* value the grant has when the change is applied.                         *)
Change ==
    [max : (1 .. MaxSessions) \cup {None}, paused : BOOLEAN \cup {None},
     protocols : Protocols \cup {None}, lifetime : Validity \cup {None},
     allowance : {"keep", "reset", "spent"}]

ASSUME ProcessesAssumption ==
    /\ Reaper \notin Handler
    /\ Meter \notin Handler
    /\ Reaper # Meter
    /\ None \notin Handler \cup {Reaper, Meter}
    /\ MaxInFlight \in Nat
    /\ MaxCancels \in Nat
    /\ Changes \subseteq Change
    /\ Unreadable \notin Table

VARIABLES clock,    \* unix_time()
          up,       \* the process runs
          memory,   \* AccessService::state, the current table
          disk,     \* the table in the state file
          lock,     \* who holds the mutex on `memory`
          task,     \* what each process is doing
          orphans,  \* writes whose request is gone
          tangled,  \* two writes have used the temporary file at once
          cancels,  \* how many requests were dropped during a store
          drawn     \* identifiers given out so far; they are random in the code

vars == <<clock, up, memory, disk, lock, task, orphans, tangled, cancels, drawn>>

Process == Handler \cup {Reaper, Meter}

Idle == [pc |-> "idle"]

Init ==
    /\ clock \in Time
    /\ up = TRUE
    /\ memory = EmptyTable
    /\ disk = EmptyTable
    /\ lock = None
    /\ task = [p \in Process |-> Idle]
    /\ orphans = {}
    /\ tangled = FALSE
    /\ cancels = 0
    /\ drawn = {}

-----------------------------------------------------------------------------
(* Steps every operation has in common. *)

(* An operation begins: it remembers its input and the clock. *)
Start(p, input) ==
    /\ up
    /\ task[p].pc = "idle"
    /\ Cardinality({q \in Process : task[q].pc # "idle"}) + Cardinality(orphans)
         < MaxInFlight
    /\ task' = [task EXCEPT ![p] = input]
    /\ UNCHANGED tangled

(* Mutation: the mutex is released before the store. *)
StoreUnlocked(p, next) ==
    /\ task' = [task EXCEPT ![p] = [pc |-> "store", op |-> task[p].op,
                                    next |-> next]]
    /\ tangled' = (tangled \/ orphans # {})
    /\ UNCHANGED lock

(* The mutex is granted to p and the table `next` is handed to the store. *)
Store(p, next) ==
    /\ lock' = p
    /\ task' = [task EXCEPT ![p] = [pc |-> "store", op |-> task[p].op,
                                    next |-> next]]
    /\ tangled' = (tangled \/ orphans # {})

(* The operation ends without a change. *)
Refuse(p) ==
    /\ task' = [task EXCEPT ![p] = Idle]
    /\ UNCHANGED <<lock, tangled>>

Queued(p, op) ==
    /\ task[p].pc = "queued"
    /\ task[p].op = op
    /\ lock = None

(* The clock of an operation that reads it some time after it began. *)
Since(begun) == {now \in Time : begun <= now /\ now <= clock}

(* The tables and the clock are left alone. *)
OnlyTasks == UNCHANGED <<clock, up, memory, disk, orphans, cancels>>

-----------------------------------------------------------------------------
(* The operations: what each reads first, and the table it asks to store. *)

CreateGrantStart(h) ==
    \E v \in Validity, max \in 1 .. MaxSessions, protocols \in Protocols,
       id \in Grant \ drawn :
        /\ Start(h, [pc |-> "queued", op |-> "create_grant",
                     grant |-> NewGrant(id, max, clock + v, protocols)])
        /\ drawn' = drawn \cup {id}
        /\ OnlyTasks /\ UNCHANGED lock

CreateGrant(h) ==
    /\ Queued(h, "create_grant")
    /\ LET g == task[h].grant
       IN  IF \E x \in memory.grants : x.id = g.id
           THEN Refuse(h)
           ELSE Store(h, AddGrant(memory, g))
    /\ OnlyTasks /\ UNCHANGED drawn

Or(value, default) == IF value = None THEN default ELSE value

Changed(g, change, now) ==
    [id        |-> g.id,
     max       |-> Or(change.max, g.max),
     paused    |-> Or(change.paused, g.paused),
     protocols |-> Or(change.protocols, g.protocols),
     expires   |-> IF change.lifetime = None THEN g.expires
                   ELSE now + change.lifetime,
     spent     |-> CASE change.allowance = "keep"  -> g.spent
                     [] change.allowance = "reset" -> -1
                     [] change.allowance = "spent" -> Period(now)]

UpdateGrantStart(h) ==
    \E id \in Grant, change \in Changes :
        /\ Start(h, [pc |-> "queued", op |-> "update_grant", grant |-> id,
                     change |-> change, now |-> clock])
        /\ OnlyTasks /\ UNCHANGED <<lock, drawn>>

UpdateGrant(h) ==
    /\ Queued(h, "update_grant")
    /\ \/ /\ \A g \in memory.grants : g.id # task[h].grant
          /\ Refuse(h)
       \/ \E g \in memory.grants :
            /\ g.id = task[h].grant
            /\ Store(h, Apply(memory, g, Changed(g, task[h].change, task[h].now),
                              task[h].now))
    /\ OnlyTasks /\ UNCHANGED drawn

RevokeGrantStart(h) ==
    \E id \in Grant :
        /\ Start(h, [pc |-> "queued", op |-> "revoke_grant", grant |-> id])
        /\ OnlyTasks /\ UNCHANGED <<lock, drawn>>

RevokeGrant(h) ==
    /\ Queued(h, "revoke_grant")
    /\ IF \E g \in memory.grants : g.id = task[h].grant
       THEN Store(h, Revoke(memory, task[h].grant))
       ELSE Refuse(h)
    /\ OnlyTasks /\ UNCHANGED drawn

(* create_session copies the grant and checks the access code in a worker  *)
(* thread; admit_session then reads the clock, turns the caller away if    *)
(* that copy is paused or used up, and queues for the mutex.  Of a copy a  *)
(* task keeps the fields that are read later.                              *)
CreateSessionStart(h) ==
    \E g \in memory.grants :
        /\ lock = None
        /\ ~ g.paused
        /\ Start(h, [pc |-> "queued", op |-> "create_session", grant |-> g.id,
                     spent |-> g.spent, now |-> clock])
        /\ OnlyTasks /\ UNCHANGED <<lock, drawn>>

CreateSession(h) ==
    /\ Queued(h, "create_session")
    /\ \E now \in Since(task[h].now) :
         LET live == TakeExpired(memory, now)
         IN  \/ /\ \/ UsedUp(task[h], now)
                   \/ \A g \in live.grants :
                        g.id = task[h].grant => ~ CanAdmit(live, g, now)
                /\ Refuse(h)
                /\ UNCHANGED drawn
             \/ \E g \in live.grants, id \in Session \ drawn :
                  /\ ~ UsedUp(task[h], now)
                  /\ g.id = task[h].grant
                  /\ CanAdmit(live, g, now)
                  /\ Store(h, Admit(live, id, g, now))
                  /\ drawn' = drawn \cup {id}
    /\ OnlyTasks

(* authenticate: the session and its grant are copied under the mutex and  *)
(* the token is checked against the copies.                                *)
Authenticates(s, g) ==
    /\ lock = None
    /\ g.id = s.grant
    /\ Admits(s, g, clock)

RenewSessionStart(h) ==
    \E s \in memory.sessions, g \in memory.grants :
        /\ Authenticates(s, g)
        /\ Start(h, [pc |-> "queued", op |-> "renew_session", session |-> s.id,
                     expires |-> g.expires, now |-> clock])
        /\ OnlyTasks /\ UNCHANGED <<lock, drawn>>

(* The new end comes from the copy of the grant, the lease from the table. *)
RenewSession(h) ==
    /\ Queued(h, "renew_session")
    /\ \E now \in Since(task[h].now) :
         IF \E s \in memory.sessions : s.id = task[h].session
         THEN Store(h, Renew(memory, task[h].session, LeaseEnd(task[h], now)))
         ELSE Refuse(h)
    /\ OnlyTasks /\ UNCHANGED drawn

EndSessionStart(h) ==
    \E s \in memory.sessions, g \in memory.grants :
        /\ Authenticates(s, g)
        /\ Start(h, [pc |-> "queued", op |-> "end_session", session |-> s.id])
        /\ OnlyTasks /\ UNCHANGED <<lock, drawn>>

EndSession(h) ==
    /\ Queued(h, "end_session")
    /\ Store(h, End(memory, task[h].session))
    /\ OnlyTasks /\ UNCHANGED drawn

ExpireSessionsStart ==
    /\ Start(Reaper, [pc |-> "queued", op |-> "expire_sessions", now |-> clock])
    /\ OnlyTasks /\ UNCHANGED <<lock, drawn>>

ExpireSessions ==
    /\ Queued(Reaper, "expire_sessions")
    /\ LET next == Expire(memory, task[Reaper].now)
       IN  IF next = memory THEN Refuse(Reaper) ELSE Store(Reaper, next)
    /\ OnlyTasks /\ UNCHANGED drawn

(* The meter lists the sessions and reads the engines: what some of them    *)
(* moved uses up the allowance of their grants.  Counts below the allowance *)
(* change nothing here, so a reading that ends no session changes nothing.  *)
RecordUsageStart ==
    \E moved \in SUBSET {s.id : s \in memory.sessions} :
        /\ lock = None
        /\ Start(Meter, [pc |-> "queued", op |-> "record_usage",
                         moved |-> moved, now |-> clock])
        /\ OnlyTasks /\ UNCHANGED <<lock, drawn>>

RecordUsageStep ==
    /\ Queued(Meter, "record_usage")
    /\ \E now \in Since(task[Meter].now) :
         LET present == {s \in memory.sessions : s.id \in task[Meter].moved}
             next    == RecordUsage(memory, {s.grant : s \in present}, now)
         IN  IF next.sessions = memory.sessions
             THEN Refuse(Meter)
             ELSE Store(Meter, next)
    /\ OnlyTasks /\ UNCHANGED drawn

-----------------------------------------------------------------------------
(* The store, dropped requests, and restarts. *)

(* store_file validates, writes the temporary file and renames it.  Two     *)
(* writes that share the temporary file may rename one another's contents,  *)
(* whole or not, or find it gone: then the state file holds one of the      *)
(* tables being written, what it held, or something unreadable.             *)
Writes == orphans \cup {task[p].next : p \in {q \in Process : task[q].pc = "store"}}

InFile(t) ==
    IF tangled THEN {u \in Writes : Validate(u)} \cup {disk, Unreadable} ELSE {t}

(* Mutation: the table is only kept in memory. *)
StoreDoneInMemory(p) ==
    /\ task[p].pc = "store"
    /\ Validate(task[p].next)
    /\ memory' = task[p].next
    /\ lock' = None
    /\ task' = [task EXCEPT ![p] = Idle]
    /\ UNCHANGED <<clock, up, disk, orphans, tangled, cancels, drawn>>

(* The state becomes visible when the store returns; nobody can look in     *)
(* between.                                                                 *)
StoreDone(p) ==
    /\ task[p].pc = "store"
    /\ Validate(task[p].next)
    /\ disk' \in InFile(task[p].next)
    /\ memory' = task[p].next
    /\ lock' = None
    /\ task' = [task EXCEPT ![p] = Idle]
    /\ tangled' = (tangled /\ orphans # {})
    /\ UNCHANGED <<clock, up, orphans, cancels, drawn>>

(* Mutation: the table changes although the store failed. *)
StoreFailedVisible(p) ==
    /\ task[p].pc = "store"
    /\ disk' \in InFile(disk)
    /\ memory' = task[p].next
    /\ lock' = None
    /\ task' = [task EXCEPT ![p] = Idle]
    /\ tangled' = (tangled /\ orphans # {})
    /\ UNCHANGED <<clock, up, orphans, cancels, drawn>>

(* The table was not valid, or the file could not be written. *)
StoreFailed(p) ==
    /\ task[p].pc = "store"
    /\ disk' \in InFile(disk)
    /\ lock' = None
    /\ task' = [task EXCEPT ![p] = Idle]
    /\ tangled' = (tangled /\ orphans # {})
    /\ UNCHANGED <<clock, up, memory, orphans, cancels, drawn>>

(* A request is dropped: before it has the mutex nothing remains of it,    *)
(* during its store the write stays behind.                                *)
Cancel(h) ==
    \/ /\ task[h].pc = "queued"
       /\ task' = [task EXCEPT ![h] = Idle]
       /\ UNCHANGED <<clock, up, memory, disk, lock, orphans, tangled, cancels, drawn>>
    \/ /\ task[h].pc = "store"
       /\ cancels < MaxCancels
       /\ cancels' = cancels + 1
       /\ orphans' = orphans \cup {task[h].next}
       /\ lock' = None
       /\ task' = [task EXCEPT ![h] = Idle]
       /\ UNCHANGED <<clock, up, memory, disk, tangled, drawn>>

OrphanDone ==
    \E t \in orphans :
        /\ \/ Validate(t) /\ disk' \in InFile(t)
           \/ disk' \in InFile(disk)
        /\ orphans' = orphans \ {t}
        /\ tangled' = (tangled /\ (lock # None \/ orphans # {t}))
        /\ UNCHANGED <<clock, up, memory, lock, task, cancels, drawn>>

Tick ==
    /\ clock + 1 \in Time
    /\ clock' = clock + 1
    /\ UNCHANGED <<up, memory, disk, lock, task, orphans, tangled, cancels, drawn>>

Crash ==
    /\ up
    /\ up' = FALSE
    /\ memory' = EmptyTable
    /\ lock' = None
    /\ task' = [p \in Process |-> Idle]
    /\ orphans' = {}
    /\ tangled' = FALSE
    /\ UNCHANGED <<clock, disk, cancels, drawn>>

(* load: the file is read and validated, expired leases are dropped and the *)
(* slots checked, and the result is written back if that changed anything.  *)
Restart ==
    /\ ~ up
    /\ disk # Unreadable
    /\ Validate(disk)
    /\ LET loaded == TakeExpired(disk, clock)
       IN  /\ \A s \in loaded.sessions : s.slot < MaxSessions
           /\ memory' = loaded
           /\ disk' = loaded
    /\ up' = TRUE
    /\ UNCHANGED <<clock, lock, task, orphans, tangled, cancels, drawn>>

-----------------------------------------------------------------------------
HandlerStep(h) ==
    \/ CreateGrantStart(h)   \/ CreateGrant(h)
    \/ UpdateGrantStart(h)   \/ UpdateGrant(h)
    \/ RevokeGrantStart(h)   \/ RevokeGrant(h)
    \/ CreateSessionStart(h) \/ CreateSession(h)
    \/ RenewSessionStart(h)  \/ RenewSession(h)
    \/ EndSessionStart(h)    \/ EndSession(h)
    \/ Cancel(h)

Next ==
    \/ \E h \in Handler : HandlerStep(h)
    \/ ExpireSessionsStart \/ ExpireSessions
    \/ RecordUsageStart \/ RecordUsageStep
    \/ \E p \in Process : StoreDone(p) \/ StoreFailed(p)
    \/ OrphanDone
    \/ Tick \/ Crash \/ Restart

Spec == Init /\ [][Next]_vars

-----------------------------------------------------------------------------
(* Properties. *)

Input ==
    [pc : {"queued"}, op : {"create_grant"}, grant : FreshGrant]
      \cup [pc : {"queued"}, op : {"update_grant"}, grant : Grant,
            change : Change, now : Time]
      \cup [pc : {"queued"}, op : {"revoke_grant"}, grant : Grant]
      \cup [pc : {"queued"}, op : {"create_session"}, grant : Grant,
            spent : Int, now : Time]
      \cup [pc : {"queued"}, op : {"renew_session"}, session : Session,
            expires : Nat, now : Time]
      \cup [pc : {"queued"}, op : {"end_session"}, session : Session]
      \cup [pc : {"queued"}, op : {"expire_sessions"}, now : Time]
      \cup [pc : {"queued"}, op : {"record_usage"}, moved : SUBSET Session,
            now : Time]

Operation ==
    {"create_grant", "update_grant", "revoke_grant", "create_session",
     "renew_session", "end_session", "expire_sessions", "record_usage"}

Storing == [pc : {"store"}, op : Operation, next : Table]

(* Every variable has its type. *)
TypeOK ==
    /\ clock \in Time
    /\ up \in BOOLEAN
    /\ memory \in Table
    /\ disk \in Table \cup {Unreadable}
    /\ lock \in Process \cup {None}
    /\ task \in [Process -> {Idle} \cup Input \cup Storing]
    /\ orphans \subseteq Table
    /\ tangled \in BOOLEAN
    /\ cancels \in Nat
    /\ drawn \subseteq Grant \cup Session

(* The tables the server works from, has on disk, or left to be written. *)
Tables == ({memory, disk} \cup orphans) \ {Unreadable}

(* No two leases share a resource slot (a Shadowsocks port, a WireGuard     *)
(* address), every slot is below the node's capacity, and every lease is    *)
(* that of a grant that exists and ends no later than its grant, in memory  *)
(* and on disk, whatever writes dropped requests left behind.               *)
LeasesFit ==
    \A t \in {memory, disk} \ {Unreadable} :
        /\ Validate(t)
        /\ \A s \in t.sessions : s.slot < MaxSessions

(* Pausing a grant ends its sessions and nothing brings one back while it   *)
(* is paused: not an enrolment or a renewal that was checked before the     *)
(* pause and served after it (admit_session and renew_session look again    *)
(* with the mutex held), and not a restart.                                 *)
PausedHasNoSession ==
    \A t \in Tables : \A g \in t.grants :
        g.paused => \A s \in t.sessions : s.grant # g.id

(* A session's credentials were issued for the protocols its grant allows   *)
(* now: a change of protocols ends the sessions issued for the old set,     *)
(* whatever enrolments were under way.                                      *)
IssuedForCurrentProtocols ==
    \A t \in Tables : \A g \in t.grants, s \in t.sessions :
        s.grant = g.id => s.protocols = g.protocols

(* A grant that has used up this period's allowance has no session issued   *)
(* in this period: one that an enrolment, let in by a copy of the grant with *)
(* an allowance left, would add is refused with the mutex held, and a cut    *)
(* of the allowance ends those it finds.                                     *)
UsedUpHasNoSession ==
    \A t \in Tables : \A g \in t.grants, s \in t.sessions :
        s.grant = g.id /\ UsedUp(g, clock) => Period(s.issued) # Period(clock)

(* No lease outlives what entitles it to its place: in the tables the       *)
(* server has or can load again it has a slot of its own and a grant that   *)
(* ends no earlier, is not paused, allows exactly the protocols the lease   *)
(* was issued for and has data left in the period it was issued in.         *)
SessionsAreEntitled ==
    /\ LeasesFit
    /\ PausedHasNoSession
    /\ IssuedForCurrentProtocols
    /\ UsedUpHasNoSession

(* As long as no request was dropped during its store, the state file holds *)
(* exactly the table in memory whenever the mutex is free: what was         *)
(* acknowledged survives a crash, what failed left no trace.                *)
DiskMatchesMemory ==
    up /\ lock = None /\ cancels = 0 => disk = memory

(* Only a request that works from a stale copy can hand the store a table   *)
(* that it rejects: a renewal whose grant was cut short meanwhile, or a     *)
(* change that read the clock before a session was issued.                  *)
OnlyStaleIsRejected ==
    \A p \in Process :
        task[p].pc = "store" /\ ~ Validate(task[p].next)
          => task[p].op \in {"renew_session", "update_grant"}

(* While the server runs, a lease enters the table only when the store of   *)
(* an enrolment returns and a grant only when that of its creation does: a  *)
(* session that ended, or a grant that was revoked or forgotten, never      *)
(* comes back, whatever copies other requests still hold.                   *)
Returns(op) ==
    \E p \in Process : /\ task[p].pc = "store" /\ task[p].op = op
                       /\ task'[p].pc = "idle"

EndedStaysEnded ==
    [][up /\ up' =>
         /\ \/ {s.id : s \in memory'.sessions} \subseteq {s.id : s \in memory.sessions}
            \/ Returns("create_session")
         /\ \/ {g.id : g \in memory'.grants} \subseteq {g.id : g \in memory.grants}
            \/ Returns("create_grant")]_vars

(* The table that survives: what the server works from, or what it will    *)
(* find when it starts again.                                              *)
Surviving == IF up THEN memory ELSE disk

Atomic == INSTANCE LeaseSpec
            WITH table <- Surviving, Empty <- EmptyTable, Operates <- Operates

(* With no request dropped during its store, the server is the atomic table *)
(* of LeaseSpec: every change is one operation applied to the table the     *)
(* last one left, and a crash loses or repeats none.                        *)
ImplementsLeaseSpec == Atomic!AtomicSpec

=============================================================================
