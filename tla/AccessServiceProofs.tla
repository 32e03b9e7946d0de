------------------------ MODULE AccessServiceProofs ------------------------
(***************************************************************************)
(* The safety of the access service for every number of handlers, grants,  *)
(* sessions and slots, with requests dropped at any point and restarts;    *)
(* and its refinement of the atomic table of LeaseSpec, as long as no      *)
(* request is dropped while its store runs.                                *)
(*                                                                         *)
(* The argument for the refinement is the mutex: a table on its way to the *)
(* store is one operation away from the table in memory, which nobody else *)
(* can change.                                                             *)
(***************************************************************************)
EXTENDS AccessService, WellFoundedInduction, TLAPS

-----------------------------------------------------------------------------
(* What the operations of the access service preserve of a table. *)

(* What is true of every table, stored or not: no two grants have the same  *)
(* identifier, every lease has a slot of the node, no paused grant has a    *)
(* lease, a lease was issued for the protocols its grant allows, and not in *)
(* the period whose allowance is used up.                                   *)
Sound(t) ==
    /\ t \in Table
    /\ \A g, h \in t.grants : g.id = h.id => g = h
    /\ \A s \in t.sessions : s.slot < MaxSessions
    /\ \A g \in t.grants, s \in t.sessions :
         s.grant = g.id => /\ ~ g.paused /\ s.protocols = g.protocols
                           /\ Period(s.issued) # g.spent

(* The period of an allowance is a number. *)
LEMMA PeriodType == \A now \in Nat : Period(now) \in Nat
  BY ConstantsAssumption DEF Period

(* The table of a first start. *)
LEMMA EmptyIsSound == Sound(EmptyTable) /\ Validate(EmptyTable)
  BY Zenon DEF Sound, EmptyTable, Table, Validate

(* Removing grants and leases keeps a table sound, and valid if the grants  *)
(* of the leases that stay do.                                              *)
LEMMA Shrinking ==
  ASSUME NEW t, Sound(t), NEW G \in SUBSET t.grants, NEW S \in SUBSET t.sessions
  PROVE  /\ Sound([grants |-> G, sessions |-> S])
         /\ (Validate(t) /\ \A s \in S, g \in t.grants : g.id = s.grant => g \in G)
              => Validate([grants |-> G, sessions |-> S])
  BY Zenon DEF Sound, Table, Validate

(* Replacing one half of a table leaves the other. *)
LEMMA TableShape ==
  ASSUME NEW t \in Table, NEW S
  PROVE  /\ [t EXCEPT !.sessions = S] = [grants |-> t.grants, sessions |-> S]
         /\ [t EXCEPT !.grants = S] = [grants |-> S, sessions |-> t.sessions]
  BY DEF Table

(* What WithoutSessions makes of a table. *)
LEMMA WithoutShape ==
  ASSUME NEW G, NEW S, NEW gone
  PROVE  WithoutSessions([grants |-> G, sessions |-> S], gone)
           = [grants |-> G, sessions |-> S \ gone]
  BY DEF WithoutSessions

(* Dropping leases keeps a table sound and valid. *)
LEMMA FewerSessions ==
  ASSUME NEW t, Sound(t), NEW S \in SUBSET t.sessions
  PROVE  /\ Sound([t EXCEPT !.sessions = S])
         /\ Validate(t) => Validate([t EXCEPT !.sessions = S])
  <1>1. [t EXCEPT !.sessions = S] = [grants |-> t.grants, sessions |-> S]
    BY TableShape, Zenon DEF Sound
  <1>2. t.grants \in SUBSET t.grants
    BY Zenon
  <1>3. Sound([grants |-> t.grants, sessions |-> S])
    BY <1>2, Shrinking, Zenon
  <1>4. ASSUME Validate(t) PROVE Validate([grants |-> t.grants, sessions |-> S])
    <2>1. \A s \in S, g \in t.grants : g.id = s.grant => g \in t.grants
      BY Zenon
    <2> QED BY <1>2, <1>4, <2>1, Shrinking, Zenon
  <1> QED BY <1>1, <1>3, <1>4, Zenon

(* So does take_expired. *)
LEMMA TakeExpiredSound ==
  ASSUME NEW t, Sound(t), NEW now
  PROVE  /\ Sound(TakeExpired(t, now))
         /\ Validate(t) => Validate(TakeExpired(t, now))
         /\ TakeExpired(t, now).grants = t.grants
         /\ TakeExpired(t, now).sessions \subseteq t.sessions
  <1>1. {s \in t.sessions : s.expires > now} \in SUBSET t.sessions
    BY Zenon
  <1> QED BY <1>1, FewerSessions, TableShape DEF TakeExpired, Sound

(* So does forgetting the grants that ran out long ago. *)
LEMMA ForgetStaleSound ==
  ASSUME NEW t, Sound(t), NEW now
  PROVE  /\ Sound(ForgetStale(t, now))
         /\ Validate(t) => Validate(ForgetStale(t, now))
         /\ ForgetStale(t, now).sessions \subseteq t.sessions
  <1> DEFINE forgotten == {g.id : g \in {h \in t.grants : Stale(h, now)}}
             G == {g \in t.grants : ~ Stale(g, now)}
             S == {s \in t.sessions : s.grant \notin forgotten}
  <1>1. G \in SUBSET t.grants /\ S \in SUBSET t.sessions
    BY Zenon
  <1>2. \A s \in S, g \in t.grants : g.id = s.grant => g \in G
    BY Zenon
  <1>3. ForgetStale(t, now) = [grants |-> G, sessions |-> S]
    BY Zenon DEF ForgetStale
  <1> HIDE DEF G, S
  <1> QED BY <1>1, <1>2, <1>3, Shrinking

(* So does a round of the reaper. *)
LEMMA ExpireSound ==
  ASSUME NEW t, Sound(t), NEW now
  PROVE  /\ Sound(Expire(t, now))
         /\ Validate(t) => Validate(Expire(t, now))
         /\ Expire(t, now).sessions \subseteq t.sessions
  BY TakeExpiredSound, ForgetStaleSound, Zenon DEF Expire

(* So does revoking a grant. *)
LEMMA RevokeSound ==
  ASSUME NEW t, Sound(t), NEW id
  PROVE  /\ Sound(Revoke(t, id))
         /\ Validate(t) => Validate(Revoke(t, id))
         /\ Revoke(t, id).sessions \subseteq t.sessions
  <1> DEFINE G == {g \in t.grants : g.id # id}
             S == {s \in t.sessions : s.grant # id}
  <1>1. /\ G \in SUBSET t.grants /\ S \in SUBSET t.sessions
        /\ \A s \in S, g \in t.grants : g.id = s.grant => g \in G
        /\ Revoke(t, id) = [grants |-> G, sessions |-> S]
    BY Zenon DEF Revoke
  <1> HIDE DEF G, S
  <1> QED BY <1>1, Shrinking

(* So does ending a session. *)
LEMMA EndSound ==
  ASSUME NEW t, Sound(t), NEW id
  PROVE  /\ Sound(End(t, id))
         /\ Validate(t) => Validate(End(t, id))
         /\ End(t, id).sessions \subseteq t.sessions
  <1>1. {s \in t.sessions : s.id # id} \in SUBSET t.sessions
    BY Zenon
  <1> QED BY <1>1, FewerSessions, TableShape DEF End, Sound

(* A grant with a new identifier has no lease: every lease of a valid table *)
(* has its grant in the table.                                              *)
LEMMA AddGrantSound ==
  ASSUME NEW t, Sound(t), Validate(t), NEW g \in GrantRecord,
         \A h \in t.grants : h.id # g.id
  PROVE  /\ Sound(AddGrant(t, g)) /\ Validate(AddGrant(t, g))
         /\ AddGrant(t, g).sessions = t.sessions
  <1>1. AddGrant(t, g) = [grants |-> t.grants \cup {g}, sessions |-> t.sessions]
    BY TableShape, Zenon DEF AddGrant, Sound
  <1>2. \A s \in t.sessions : s.grant # g.id
    BY Zenon DEF Validate
  <1>3. g.max > 0
    BY ConstantsAssumption DEF GrantRecord
  <1> QED BY <1>1, <1>2, <1>3 DEF Sound, Table, Validate

(* A non-empty set of naturals has a smallest element. *)
LEMMA Smallest ==
  ASSUME NEW S \in SUBSET Nat, S # {}
  PROVE  \E n \in S : \A m \in S : n <= m
  <1>1. PICK n \in S : \A m \in S : ~ (<<m, n>> \in OpToRel(<, Nat))
    BY WFMin, NatLessThanWellFounded, Zenon
  <1>2. \A m \in S : m < n => <<m, n>> \in OpToRel(<, Nat)
    BY Zenon DEF OpToRel
  <1>3. \A m \in S : ~ (m < n)
    BY <1>1, <1>2, Zenon
  <1> QED BY <1>3

(* next_resource_slot finds a slot that is within the capacity and free. *)
LEMMA NextSlotIsFree ==
  ASSUME NEW t, FreeSlots(t) # {}
  PROVE  /\ NextSlot(t) \in Nat /\ NextSlot(t) < MaxSessions
         /\ \A s \in t.sessions : s.slot # NextSlot(t)
  <1>1. FreeSlots(t) \in SUBSET Nat
    BY ConstantsAssumption DEF FreeSlots, Slot
  <1>2. \E n \in FreeSlots(t) : \A m \in FreeSlots(t) : n <= m
    BY <1>1, Smallest, Zenon
  <1>3. NextSlot(t) \in FreeSlots(t)
    BY <1>2, Zenon DEF NextSlot
  <1> QED BY <1>3, ConstantsAssumption DEF FreeSlots, Slot

(* A lease ends after it begins and no later than its grant. *)
LEMMA LeaseEndBounds ==
  ASSUME NEW g \in GrantRecord, NEW now \in Nat
  PROVE  /\ LeaseEnd(g, now) \in Nat
         /\ LeaseEnd(g, now) <= g.expires
         /\ g.expires > now => LeaseEnd(g, now) > now
  BY ConstantsAssumption DEF LeaseEnd, Earlier, GrantRecord

(* Admitting a session that CanAdmit lets in keeps a table sound and valid. *)
LEMMA AdmitSound ==
  ASSUME NEW t, Sound(t), Validate(t), NEW g \in t.grants, NEW id \in Session,
         NEW now \in Nat, CanAdmit(t, g, now), \A s \in t.sessions : s.id # id
  PROVE  /\ Sound(Admit(t, id, g, now)) /\ Validate(Admit(t, id, g, now))
         /\ \A s \in Admit(t, id, g, now).sessions : s \in t.sessions \/ s.id = id
  <1> DEFINE new == NewLease(t, id, g, now)
  <1>1. /\ g \in GrantRecord /\ ~ g.paused /\ g.expires > now /\ g.expires \in Nat
        /\ Period(now) # g.spent
    BY Zenon DEF Sound, Table, CanAdmit, GrantRecord, UsedUp
  <1>2. /\ NextSlot(t) \in Nat /\ NextSlot(t) < MaxSessions
        /\ \A s \in t.sessions : s.slot # NextSlot(t)
    BY NextSlotIsFree, Zenon DEF CanAdmit
  <1>3. /\ LeaseEnd(g, now) \in Nat /\ LeaseEnd(g, now) <= g.expires
        /\ LeaseEnd(g, now) > now
    BY <1>1, LeaseEndBounds, Zenon
  <1>4. /\ new \in SessionRecord
        /\ new.id = id /\ new.grant = g.id /\ new.slot = NextSlot(t)
        /\ new.issued = now /\ new.expires = LeaseEnd(g, now)
        /\ new.protocols = g.protocols
    BY <1>1, <1>2, <1>3, Zenon DEF NewLease, SessionRecord, GrantRecord
  <1> HIDE DEF new
  <1>5. Admit(t, id, g, now) = [grants |-> t.grants, sessions |-> t.sessions \cup {new}]
    BY TableShape, Zenon DEF Admit, Sound, new
  <1>6. Sound([grants |-> t.grants, sessions |-> t.sessions \cup {new}])
    BY <1>1, <1>2, <1>4 DEF Sound, Table
  <1>7. Validate([grants |-> t.grants, sessions |-> t.sessions \cup {new}])
    BY <1>2, <1>3, <1>4, Zenon DEF Validate
  <1> QED BY <1>4, <1>5, <1>6, <1>7

(* A renewal may break the order of the two ends (the grant was cut short   *)
(* meanwhile), and the store rejects it; nothing else changes.              *)
LEMMA RenewSound ==
  ASSUME NEW t, Sound(t), NEW id, NEW expires \in Nat
  PROVE  /\ Sound(Renew(t, id, expires))
         /\ \A s \in Renew(t, id, expires).sessions : \E r \in t.sessions : r.id = s.id
  <1> DEFINE new(s) == IF s.id = id THEN [s EXCEPT !.expires = expires] ELSE s
             S == {new(s) : s \in t.sessions}
  <1>1. Renew(t, id, expires) = [grants |-> t.grants, sessions |-> S]
    BY TableShape, Zenon DEF Renew, Sound
  <1>2. \A s \in SessionRecord :
          /\ new(s) \in SessionRecord
          /\ new(s).id = s.id /\ new(s).slot = s.slot /\ new(s).grant = s.grant
          /\ new(s).protocols = s.protocols /\ new(s).issued = s.issued
    BY Zenon DEF SessionRecord
  <1>3. \A s \in S : \E r \in t.sessions :
          /\ s \in SessionRecord
          /\ s.id = r.id /\ s.slot = r.slot /\ s.grant = r.grant
          /\ s.protocols = r.protocols /\ s.issued = r.issued
    BY <1>2, ZenonT(60) DEF Sound, Table
  <1> HIDE DEF S
  <1>4. Sound([grants |-> t.grants, sessions |-> S])
    <2>1. S \in SUBSET SessionRecord
      BY <1>3, Zenon
    <2>2. \A s \in S : s.slot < MaxSessions
      BY <1>3, Zenon DEF Sound
    <2>3. \A g \in t.grants, s \in S :
            s.grant = g.id => /\ ~ g.paused /\ s.protocols = g.protocols
                              /\ Period(s.issued) # g.spent
      BY <1>3 DEF Sound
    <2> QED BY <2>1, <2>2, <2>3, Zenon DEF Sound, Table
  <1> QED BY <1>1, <1>3, <1>4

(* A change of a grant leaves no lease that the changed grant would not     *)
(* have let in: it pauses or changes protocols only by ending every lease.  *)
LEMMA ApplySound ==
  ASSUME NEW t, Sound(t), NEW old \in t.grants, NEW new \in GrantRecord,
         new.id = old.id, NEW now, new.spent \in {old.spent, -1, Period(now)}
  PROVE  /\ Sound(Apply(t, old, new, now))
         /\ \A s \in Apply(t, old, new, now).sessions : \E r \in t.sessions : r.id = s.id
  <1> DEFINE cutOne(s) == IF s.grant = new.id THEN Cut(s, new) ELSE s
             G == (t.grants \ {old}) \cup {new}
             C == {cutOne(s) : s \in t.sessions}
             cut == CutBack(t, old, new)
             ending == Ending(cut, old, new, now)
  <1>1. Apply(t, old, new, now) = [grants |-> G, sessions |-> C \ ending]
    <2>1. cut = [grants |-> G, sessions |-> C]
      BY Zenon DEF CutBack
    <2> QED BY <2>1, WithoutShape, Zenon DEF Apply
  <1>2. \A s \in SessionRecord :
          /\ cutOne(s) \in SessionRecord
          /\ cutOne(s).id = s.id /\ cutOne(s).slot = s.slot /\ cutOne(s).grant = s.grant
          /\ cutOne(s).protocols = s.protocols /\ cutOne(s).issued = s.issued
    BY Zenon DEF SessionRecord, Cut, Earlier, GrantRecord
  <1>3. \A s \in C : \E r \in t.sessions :
          /\ s \in SessionRecord
          /\ s.id = r.id /\ s.slot = r.slot /\ s.grant = r.grant
          /\ s.protocols = r.protocols /\ s.issued = r.issued
    BY <1>2 DEF Sound, Table
  <1>4. \A s \in C : s.grant = new.id /\ EndsAll(old, new, now) => s \in ending
    BY Zenon DEF Ending, CutBack
  <1> HIDE DEF C, ending
  <1>5. [grants |-> G, sessions |-> C \ ending] \in Table
    BY <1>3, Zenon DEF Sound, Table
  <1>6. \A g, h \in G : g.id = h.id => g = h
    BY Zenon DEF Sound
  <1>7. \A s \in C \ ending : s.slot < MaxSessions
    BY <1>3, Zenon DEF Sound
  <1>8. ASSUME NEW g \in G, NEW s \in C \ ending, s.grant = g.id
        PROVE  /\ ~ g.paused /\ s.protocols = g.protocols
               /\ Period(s.issued) # g.spent
    <2>1. PICK r \in t.sessions :
            /\ s.grant = r.grant /\ s.protocols = r.protocols /\ s.issued = r.issued
            /\ r \in SessionRecord
      BY <1>3 DEF Sound, Table
    <2>2. CASE g # new
      BY <1>8, <2>1, <2>2, Zenon DEF Sound
    <2>3. CASE g = new
      <3>1. /\ ~ old.paused /\ r.protocols = old.protocols
            /\ Period(r.issued) # old.spent
        BY <1>8, <2>1, <2>3, Zenon DEF Sound
      <3>2. ~ EndsAll(old, new, now)
        BY <1>4, <1>8, <2>3, Zenon
      <3>3. Period(r.issued) # -1
        BY <2>1, PeriodType DEF SessionRecord
      <3> QED BY <2>1, <2>3, <3>1, <3>2, <3>3, Zenon DEF EndsAll, UsedUp
    <2> QED BY <2>2, <2>3, Zenon
  <1>9. Sound([grants |-> G, sessions |-> C \ ending])
    BY <1>5, <1>6, <1>7, <1>8, Zenon DEF Sound
  <1> QED BY <1>1, <1>3, <1>9

(* So does recording usage. *)
LEMMA RecordUsageSound ==
  ASSUME NEW t, Sound(t), NEW grants, NEW now \in Nat
  PROVE  /\ Sound(RecordUsage(t, grants, now))
         /\ Validate(t) => Validate(RecordUsage(t, grants, now))
         /\ RecordUsage(t, grants, now).sessions \subseteq t.sessions
  <1> DEFINE new(g) == IF g.id \in grants THEN [g EXCEPT !.spent = Period(now)] ELSE g
             G == {new(g) : g \in t.grants}
             usedUp == {g.id : g \in {h \in G : UsedUp(h, now)}}
             S == {s \in t.sessions : s.grant \notin usedUp}
  <1>1. RecordUsage(t, grants, now) = [grants |-> G, sessions |-> S]
    BY Zenon DEF RecordUsage
  <1>2. Period(now) \in Int
    BY ConstantsAssumption DEF Period
  <1>3. \A g \in GrantRecord :
          /\ new(g) \in GrantRecord
          /\ new(g).id = g.id /\ new(g).max = g.max /\ new(g).expires = g.expires
          /\ new(g).paused = g.paused /\ new(g).protocols = g.protocols
          /\ new(g).spent = g.spent \/ new(g).spent = Period(now)
    BY <1>2, Zenon DEF GrantRecord
  <1>4. t.grants \subseteq GrantRecord
    BY Zenon DEF Sound, Table
  <1>5. \A g \in G : \E h \in t.grants :
          /\ g = new(h) /\ g \in GrantRecord
          /\ g.id = h.id /\ g.max = h.max /\ g.expires = h.expires
          /\ g.paused = h.paused /\ g.protocols = h.protocols
          /\ g.spent = h.spent \/ g.spent = Period(now)
    <2> TAKE g \in G
    <2>1. PICK h \in t.grants : g = new(h)
      BY Zenon
    <2> HIDE DEF new, G
    <2> QED BY <1>3, <1>4, <2>1, Zenon
  <1>6. \A h \in t.grants : new(h) \in G /\ new(h).id = h.id /\ new(h).expires = h.expires
    BY <1>3, <1>4, Zenon
  <1> HIDE DEF new, G
  <1>7. /\ S \subseteq t.sessions
        /\ \A s \in S, g \in G : s.grant = g.id => g.spent # Period(now)
    BY Zenon DEF UsedUp
  <1> HIDE DEF S
  <1>8. \A g, h \in G : g.id = h.id => g = h
    BY <1>5 DEF Sound
  <1>9. Sound([grants |-> G, sessions |-> S])
    <2>1. [grants |-> G, sessions |-> S] \in Table
      BY <1>5, <1>7, Zenon DEF Sound, Table
    <2>2. \A g \in G, s \in S :
            s.grant = g.id => /\ ~ g.paused /\ s.protocols = g.protocols
                              /\ Period(s.issued) # g.spent
      BY <1>5, <1>7 DEF Sound
    <2> QED BY <1>7, <1>8, <2>1, <2>2, Zenon DEF Sound
  <1>10. ASSUME Validate(t) PROVE Validate([grants |-> G, sessions |-> S])
    <2>1. \A g \in G : g.max > 0
      BY <1>5, <1>10, Zenon DEF Validate
    <2>2. \A s \in S : \E g \in G : g.id = s.grant /\ s.expires <= g.expires
      BY <1>6, <1>7, <1>10 DEF Validate
    <2> QED BY <1>7, <1>8, <1>10, <2>1, <2>2, Zenon DEF Validate
  <1> QED BY <1>1, <1>7, <1>9, <1>10

-----------------------------------------------------------------------------
(* The safety of the service. *)

(* A table of the server: sound, and its leases have identifiers that were  *)
(* drawn, so that a new one differs from all of them.                       *)
GoodTable(t) == Sound(t) /\ \A s \in t.sessions : s.id \in drawn

(* A table on its way to the store is as good, and valid unless it was made *)
(* from a copy that may be stale.                                           *)
GoodTask(p) ==
    task[p].pc = "store" =>
        /\ GoodTable(task[p].next)
        /\ Validate(task[p].next) \/ task[p].op \in {"renew_session", "update_grant"}

ServiceInv ==
    /\ TypeOK
    /\ \A t \in Tables : GoodTable(t)
    /\ \A p \in Process : GoodTask(p)
    /\ Validate(memory) /\ (disk # Unreadable => Validate(disk))
    /\ cancels = 0 => orphans = {} /\ ~ tangled
    /\ up /\ cancels = 0 => disk = memory

Task == {Idle} \cup Input \cup Storing

(* What a process remembers at each point. *)
LEMMA Fields ==
  ASSUME NEW x \in Task
  PROVE  /\ x.pc = "store" => x \in Storing /\ x.next \in Table /\ x.op \in Operation
         /\ x.pc = "queued" => x.op \in Operation
         /\ x.pc = "queued" /\ x.op = "create_grant" => x.grant \in FreshGrant
         /\ x.pc = "queued" /\ x.op = "update_grant" =>
              x.grant \in Grant /\ x.change \in Change /\ x.now \in Time \cap Nat
         /\ x.pc = "queued" /\ x.op = "create_session" => x.grant \in Grant /\ x.now \in Time \cap Nat
         /\ x.pc = "queued" /\ x.op = "renew_session" =>
              x.session \in Session /\ x.expires \in Nat /\ x.now \in Time \cap Nat
         /\ x.pc = "queued" /\ x.op = "expire_sessions" => x.now \in Time \cap Nat
         /\ x.pc = "queued" /\ x.op = "record_usage" => x.now \in Time \cap Nat
  <1>1. Time = Time \cap Nat
    BY ConstantsAssumption, Zenon
  <1> QED BY <1>1 DEF Task, Idle, Input, Storing, Operation

(* The table in memory is one of Tables. *)
LEMMA MemoryIsGood == ServiceInv => memory \in Tables /\ memory \in Table
  BY ProcessesAssumption, Zenon DEF ServiceInv, TypeOK, Tables

(* The first start, with an empty state file. *)
LEMMA InitInv == Init => ServiceInv
  <1> SUFFICES ASSUME Init PROVE ServiceInv
    BY Zenon
  <1>1. Sound(EmptyTable) /\ Validate(EmptyTable) /\ EmptyTable.sessions = {}
    BY EmptyIsSound, Zenon DEF EmptyTable
  <1>2. TypeOK
    BY <1>1, Zenon DEF Init, TypeOK, Sound
  <1>3. \A t \in Tables : GoodTable(t)
    BY <1>1, Zenon DEF Init, Tables, GoodTable
  <1>4. \A p \in Process : GoodTask(p)
    BY Zenon DEF Init, GoodTask, Idle
  <1> QED BY <1>1, <1>2, <1>3, <1>4, Zenon DEF Init, ServiceInv

(* An operation that begins, or ends without a store, changes no table. *)
LEMMA NoStoreInv ==
  ASSUME ServiceInv, NEW p \in Process, NEW x \in {Idle} \cup Input,
         task' = [task EXCEPT ![p] = x], OnlyTasks,
         lock' \in Process \cup {None}, UNCHANGED tangled,
         drawn \subseteq drawn', drawn' \subseteq Grant \cup Session
  PROVE  ServiceInv'
  <1>1. x.pc # "store"
    BY DEF Idle, Input
  <1>2. TypeOK'
    BY Zenon DEF ServiceInv, TypeOK, OnlyTasks
  <1>3. \A t : GoodTable(t) => GoodTable(t)'
    BY Zenon DEF GoodTable
  <1>4. \A q \in Process : GoodTask(q)'
    <2> TAKE q \in Process
    <2>1. CASE q = p
      BY <1>1, <2>1, Zenon DEF ServiceInv, TypeOK, GoodTask
    <2>2. CASE q # p
      BY <1>3, <2>2, Zenon DEF ServiceInv, TypeOK, GoodTask
    <2> QED BY <2>1, <2>2, Zenon
  <1> QED BY <1>2, <1>3, <1>4, Zenon DEF ServiceInv, Tables, OnlyTasks

(* An operation hands a good table to the store. *)
LEMMA StoreInv ==
  ASSUME ServiceInv, NEW p \in Process, NEW next, Store(p, next), OnlyTasks,
         task[p].pc = "queued",
         drawn \subseteq drawn', drawn' \subseteq Grant \cup Session,
         Sound(next), \A s \in next.sessions : s.id \in drawn',
         Validate(next) \/ task[p].op \in {"renew_session", "update_grant"}
  PROVE  ServiceInv'
  <1> DEFINE x == [pc |-> "store", op |-> task[p].op, next |-> next]
  <1>1. task' = [task EXCEPT ![p] = x] /\ lock' = p /\ tangled' = (tangled \/ orphans # {})
    BY Zenon DEF Store
  <1>2. task[p].op \in Operation
    BY Fields, Zenon DEF ServiceInv, TypeOK, Task
  <1>3. x \in Storing /\ x.pc = "store" /\ x.op = task[p].op /\ x.next = next
    BY <1>2, Zenon DEF Storing, Sound
  <1> HIDE DEF x
  <1>4. TypeOK' /\ (cancels' = 0 => ~ tangled')
    BY <1>1, <1>3, Zenon DEF ServiceInv, TypeOK, OnlyTasks
  <1>5. \A t : GoodTable(t) => GoodTable(t)'
    BY Zenon DEF GoodTable
  <1>6. \A q \in Process : GoodTask(q)'
    <2> TAKE q \in Process
    <2>1. CASE q = p
      BY <1>1, <1>3, <2>1, Zenon DEF ServiceInv, TypeOK, GoodTask, GoodTable
    <2>2. CASE q # p
      BY <1>1, <1>5, <2>2, Zenon DEF ServiceInv, TypeOK, GoodTask
    <2> QED BY <2>1, <2>2, Zenon
  <1> QED BY <1>4, <1>5, <1>6, Zenon DEF ServiceInv, Tables, OnlyTasks

(* A request has come in and waits for the mutex. *)
LEMMA StartInv ==
  ASSUME ServiceInv, NEW p \in Process, NEW x \in Input, Start(p, x), OnlyTasks,
         UNCHANGED lock, drawn \subseteq drawn', drawn' \subseteq Grant \cup Session
  PROVE  ServiceInv'
  <1>1. task' = [task EXCEPT ![p] = x] /\ lock' \in Process \cup {None} /\ UNCHANGED tangled
    BY Zenon DEF Start, ServiceInv, TypeOK
  <1> QED BY <1>1, NoStoreInv, Zenon

(* An operation gives up the mutex without a store. *)
LEMMA RefuseInv ==
  ASSUME ServiceInv, NEW p \in Process, Refuse(p), OnlyTasks, UNCHANGED drawn
  PROVE  ServiceInv'
  <1>1. /\ task' = [task EXCEPT ![p] = Idle] /\ lock' \in Process \cup {None}
        /\ UNCHANGED tangled
        /\ drawn \subseteq drawn' /\ drawn' \subseteq Grant \cup Session
    BY Zenon DEF Refuse, ServiceInv, TypeOK
  <1> QED BY <1>1, NoStoreInv, Zenon

(* The requests that begin, one by one. *)
LEMMA HandlerStarts ==
  ASSUME ServiceInv, NEW h \in Handler,
         \/ CreateGrantStart(h) \/ UpdateGrantStart(h) \/ RevokeGrantStart(h)
         \/ CreateSessionStart(h) \/ RenewSessionStart(h) \/ EndSessionStart(h)
  PROVE  ServiceInv'
  <1> USE ConstantsAssumption, ProcessesAssumption
  <1>0. /\ h \in Process /\ clock \in Time \cap Nat
        /\ drawn \subseteq Grant \cup Session /\ Sound(memory)
    BY MemoryIsGood, Zenon DEF Process, ServiceInv, TypeOK, GoodTable
  <1>1. CASE CreateGrantStart(h)
    <2>1. PICK v \in Validity, max \in 1 .. MaxSessions, protocols \in Protocols,
               id \in Grant \ drawn :
            /\ Start(h, [pc |-> "queued", op |-> "create_grant",
                          grant |-> NewGrant(id, max, clock + v, protocols)])
            /\ drawn' = drawn \cup {id}
            /\ OnlyTasks /\ UNCHANGED lock
      BY <1>1, Zenon DEF CreateGrantStart
    <2>2. NewGrant(id, max, clock + v, protocols) \in FreshGrant
      BY <1>0 DEF NewGrant, FreshGrant, GrantRecord
    <2>3. [pc |-> "queued", op |-> "create_grant",
           grant |-> NewGrant(id, max, clock + v, protocols)] \in Input
      BY <2>2, Zenon DEF Input
    <2> QED BY <1>0, <2>1, <2>3, StartInv, Zenon
  <1>2. CASE UpdateGrantStart(h)
    <2>1. PICK id \in Grant, change \in Changes :
            /\ Start(h, [pc |-> "queued", op |-> "update_grant", grant |-> id,
                          change |-> change, now |-> clock])
            /\ OnlyTasks /\ UNCHANGED <<lock, drawn>>
      BY <1>2, Zenon DEF UpdateGrantStart
    <2>2. [pc |-> "queued", op |-> "update_grant", grant |-> id,
           change |-> change, now |-> clock] \in Input
      BY <1>0, Zenon DEF Input
    <2> QED BY <1>0, <2>1, <2>2, StartInv, Zenon
  <1>3. CASE RevokeGrantStart(h)
    <2>1. PICK id \in Grant :
            /\ Start(h, [pc |-> "queued", op |-> "revoke_grant", grant |-> id])
            /\ OnlyTasks /\ UNCHANGED <<lock, drawn>>
      BY <1>3, Zenon DEF RevokeGrantStart
    <2>2. [pc |-> "queued", op |-> "revoke_grant", grant |-> id] \in Input
      BY Zenon DEF Input
    <2> QED BY <1>0, <2>1, <2>2, StartInv, Zenon
  <1>4. CASE CreateSessionStart(h)
    <2>1. PICK g \in memory.grants :
            /\ Start(h, [pc |-> "queued", op |-> "create_session", grant |-> g.id,
                          spent |-> g.spent, now |-> clock])
            /\ OnlyTasks /\ UNCHANGED <<lock, drawn>>
      BY <1>4, Zenon DEF CreateSessionStart
    <2>2. g.id \in Grant /\ g.spent \in Int
      BY <1>0, Zenon DEF Sound, Table, GrantRecord
    <2>3. [pc |-> "queued", op |-> "create_session", grant |-> g.id,
           spent |-> g.spent, now |-> clock] \in Input
      BY <1>0, <2>2, Zenon DEF Input
    <2> QED BY <1>0, <2>1, <2>3, StartInv, Zenon
  <1>5. CASE RenewSessionStart(h)
    <2>1. PICK s \in memory.sessions, g \in memory.grants :
            /\ Start(h, [pc |-> "queued", op |-> "renew_session", session |-> s.id,
                          expires |-> g.expires, now |-> clock])
            /\ OnlyTasks /\ UNCHANGED <<lock, drawn>>
      BY <1>5, Zenon DEF RenewSessionStart
    <2>2. s.id \in Session /\ g.expires \in Nat
      BY <1>0, Zenon DEF Sound, Table, SessionRecord, GrantRecord
    <2>3. [pc |-> "queued", op |-> "renew_session", session |-> s.id,
           expires |-> g.expires, now |-> clock] \in Input
      BY <1>0, <2>2, Zenon DEF Input
    <2> QED BY <1>0, <2>1, <2>3, StartInv, Zenon
  <1>6. CASE EndSessionStart(h)
    <2>1. PICK s \in memory.sessions, g \in memory.grants :
            /\ Start(h, [pc |-> "queued", op |-> "end_session", session |-> s.id])
            /\ OnlyTasks /\ UNCHANGED <<lock, drawn>>
      BY <1>6, Zenon DEF EndSessionStart
    <2>2. s.id \in Session
      BY <1>0, Zenon DEF Sound, Table, SessionRecord
    <2>3. [pc |-> "queued", op |-> "end_session", session |-> s.id] \in Input
      BY <2>2, Zenon DEF Input
    <2> QED BY <1>0, <2>1, <2>3, StartInv, Zenon
  <1> QED BY <1>1, <1>2, <1>3, <1>4, <1>5, <1>6, Zenon

(* The reaper and the usage meter wait for the mutex. *)
LEMMA TaskStarts ==
  ASSUME ServiceInv, ExpireSessionsStart \/ RecordUsageStart
  PROVE  ServiceInv'
  <1>0. /\ Reaper \in Process /\ Meter \in Process /\ clock \in Time \cap Nat
        /\ drawn \subseteq Grant \cup Session /\ Sound(memory)
    BY MemoryIsGood, ConstantsAssumption, Zenon DEF Process, ServiceInv, TypeOK, GoodTable
  <1>1. CASE ExpireSessionsStart
    <2>1. [pc |-> "queued", op |-> "expire_sessions", now |-> clock] \in Input
      BY <1>0, Zenon DEF Input
    <2> QED BY <1>0, <1>1, <2>1, StartInv, Zenon DEF ExpireSessionsStart
  <1>2. CASE RecordUsageStart
    <2>1. PICK moved \in SUBSET {s.id : s \in memory.sessions} :
            /\ Start(Meter, [pc |-> "queued", op |-> "record_usage",
                              moved |-> moved, now |-> clock])
            /\ OnlyTasks /\ UNCHANGED <<lock, drawn>>
      BY <1>2, Zenon DEF RecordUsageStart
    <2>2. moved \in SUBSET Session
      BY <1>0 DEF Sound, Table, SessionRecord
    <2>3. [pc |-> "queued", op |-> "record_usage", moved |-> moved,
           now |-> clock] \in Input
      BY <1>0, <2>2, Zenon DEF Input
    <2> QED BY <1>0, <2>1, <2>3, StartInv, Zenon
  <1> QED BY <1>1, <1>2, Zenon

(* What a process that has queued finds when it gets the mutex. *)
LEMMA AtTheMutex ==
  ASSUME ServiceInv, NEW p \in Process, NEW op, Queued(p, op)
  PROVE  /\ task[p] \in Task /\ task[p].pc = "queued" /\ task[p].op = op
         /\ Sound(memory) /\ Validate(memory)
         /\ \A s \in memory.sessions : s.id \in drawn
         /\ drawn \subseteq Grant \cup Session
  BY MemoryIsGood, Zenon DEF ServiceInv, TypeOK, Task, Queued, GoodTable

(* create_grant under the mutex, up to its store. *)
LEMMA CreateGrantInv ==
  ASSUME ServiceInv, NEW h \in Process, CreateGrant(h)
  PROVE  ServiceInv'
  <1>1. /\ task[h].pc = "queued" /\ task[h].grant \in GrantRecord
        /\ Sound(memory) /\ Validate(memory)
        /\ \A s \in memory.sessions : s.id \in drawn
        /\ drawn' = drawn /\ drawn \subseteq Grant \cup Session /\ OnlyTasks
    BY AtTheMutex, Fields, Zenon DEF CreateGrant, FreshGrant
  <1>2. CASE Refuse(h)
    BY <1>1, <1>2, RefuseInv, Zenon
  <1>3. CASE /\ \A x \in memory.grants : x.id # task[h].grant.id
             /\ Store(h, AddGrant(memory, task[h].grant))
    <2>1. /\ Sound(AddGrant(memory, task[h].grant))
          /\ Validate(AddGrant(memory, task[h].grant))
          /\ AddGrant(memory, task[h].grant).sessions = memory.sessions
      BY <1>1, <1>3, AddGrantSound, Zenon
    <2> QED BY <1>1, <1>3, <2>1, StoreInv, Zenon
  <1> QED BY <1>2, <1>3, Zenon DEF CreateGrant

(* What update_grant may make of a grant. *)
LEMMA ChangedGrant ==
  ASSUME NEW g \in GrantRecord, NEW change \in Change, NEW now \in Nat
  PROVE  /\ Changed(g, change, now) \in GrantRecord
         /\ Changed(g, change, now).id = g.id
         /\ Changed(g, change, now).spent \in {g.spent, -1, Period(now)}
         /\ \/ Changed(g, change, now).expires = g.expires
            \/ Changed(g, change, now).expires > now
  <1> DEFINE max == Or(change.max, g.max)
             paused == Or(change.paused, g.paused)
             protocols == Or(change.protocols, g.protocols)
             expires == IF change.lifetime = None THEN g.expires ELSE now + change.lifetime
             spent == CASE change.allowance = "keep"  -> g.spent
                        [] change.allowance = "reset" -> -1
                        [] change.allowance = "spent" -> Period(now)
  <1>1. Changed(g, change, now) =
          [id |-> g.id, max |-> max, paused |-> paused, protocols |-> protocols,
           expires |-> expires, spent |-> spent]
    BY Zenon DEF Changed
  <1>2. max \in 1 .. MaxSessions /\ paused \in BOOLEAN /\ protocols \in Protocols
    BY Zenon DEF Or, Change, GrantRecord
  <1>3. expires \in Nat /\ (expires = g.expires \/ expires > now)
    <2>1. g.expires \in Nat /\ (change.lifetime = None \/ change.lifetime \in Nat \ {0})
      BY ConstantsAssumption, Zenon DEF Change, GrantRecord
    <2> QED BY <2>1
  <1>4. spent \in {g.spent, -1, Period(now)}
    BY Zenon DEF Change
  <1>5. g.id \in Grant /\ spent \in Int
    <2>1. Period(now) \in Int /\ g.spent \in Int /\ g.id \in Grant
      BY PeriodType DEF GrantRecord
    <2> HIDE DEF spent
    <2> QED BY <1>4, <2>1
  <1> HIDE DEF max, paused, protocols, expires, spent
  <1> QED BY <1>1, <1>2, <1>3, <1>4, <1>5 DEF GrantRecord

(* update_grant under the mutex, up to its store. *)
LEMMA UpdateGrantInv ==
  ASSUME ServiceInv, NEW h \in Process, UpdateGrant(h)
  PROVE  ServiceInv'
  <1>1. /\ task[h].pc = "queued" /\ task[h].op = "update_grant"
        /\ task[h].change \in Change /\ task[h].now \in Time \cap Nat
        /\ Sound(memory) /\ \A s \in memory.sessions : s.id \in drawn
        /\ drawn' = drawn /\ drawn \subseteq Grant \cup Session /\ OnlyTasks
    BY AtTheMutex, Fields, Zenon DEF UpdateGrant
  <1>2. CASE Refuse(h)
    BY <1>1, <1>2, RefuseInv, Zenon
  <1>3. ASSUME NEW g \in memory.grants,
               Store(h, Apply(memory, g, Changed(g, task[h].change, task[h].now),
                              task[h].now))
        PROVE  ServiceInv'
    <2> DEFINE new == Changed(g, task[h].change, task[h].now)
    <2>1. g \in GrantRecord
      BY <1>1, Zenon DEF Sound, Table
    <2>2. /\ new \in GrantRecord /\ new.id = g.id
          /\ new.spent \in {g.spent, -1, Period(task[h].now)}
      BY <1>1, <2>1, ChangedGrant, Zenon
    <2> HIDE DEF new
    <2>3. /\ Sound(Apply(memory, g, new, task[h].now))
          /\ \A s \in Apply(memory, g, new, task[h].now).sessions :
               \E r \in memory.sessions : r.id = s.id
      BY <1>1, <2>2, ApplySound
    <2>4. Store(h, Apply(memory, g, new, task[h].now))
      BY <1>3, Zenon DEF new
    <2>5. \A s \in Apply(memory, g, new, task[h].now).sessions : s.id \in drawn'
      BY <1>1, <2>3, Zenon
    <2> QED BY <1>1, <2>3, <2>4, <2>5, StoreInv, Zenon
  <1> QED BY <1>2, <1>3, Zenon DEF UpdateGrant

(* revoke_grant under the mutex, up to its store. *)
LEMMA RevokeGrantInv ==
  ASSUME ServiceInv, NEW h \in Process, RevokeGrant(h)
  PROVE  ServiceInv'
  <1>1. /\ task[h].pc = "queued" /\ Sound(memory) /\ Validate(memory)
        /\ \A s \in memory.sessions : s.id \in drawn
        /\ drawn' = drawn /\ drawn \subseteq Grant \cup Session /\ OnlyTasks
    BY AtTheMutex, Zenon DEF RevokeGrant
  <1>2. /\ Sound(Revoke(memory, task[h].grant)) /\ Validate(Revoke(memory, task[h].grant))
        /\ Revoke(memory, task[h].grant).sessions \subseteq memory.sessions
    BY <1>1, RevokeSound, Zenon
  <1>3. CASE Refuse(h)
    BY <1>1, <1>3, RefuseInv, Zenon
  <1>4. CASE Store(h, Revoke(memory, task[h].grant))
    <2>1. \A s \in Revoke(memory, task[h].grant).sessions : s.id \in drawn'
      BY <1>1, <1>2, Zenon
    <2> QED BY <1>1, <1>2, <1>4, <2>1, StoreInv, Zenon
  <1> QED BY <1>3, <1>4, Zenon DEF RevokeGrant

(* create_session under the mutex, up to its store. *)
LEMMA CreateSessionInv ==
  ASSUME ServiceInv, NEW h \in Process, CreateSession(h)
  PROVE  ServiceInv'
  <1>0. PICK now \in Since(task[h].now) :
          \/ Refuse(h) /\ UNCHANGED drawn
          \/ \E g \in TakeExpired(memory, now).grants, id \in Session \ drawn :
               /\ CanAdmit(TakeExpired(memory, now), g, now)
               /\ Store(h, Admit(TakeExpired(memory, now), id, g, now))
               /\ drawn' = drawn \cup {id}
    BY Zenon DEF CreateSession
  <1> DEFINE live == TakeExpired(memory, now)
  <1>1. /\ task[h].pc = "queued" /\ now \in Time \cap Nat
        /\ Sound(memory) /\ Validate(memory)
        /\ \A s \in memory.sessions : s.id \in drawn
        /\ drawn \subseteq Grant \cup Session /\ OnlyTasks
    BY AtTheMutex, ConstantsAssumption, Zenon DEF CreateSession, Since
  <1>2. /\ Sound(live) /\ Validate(live) /\ live.sessions \subseteq memory.sessions
    BY <1>1, TakeExpiredSound, Zenon
  <1>3. CASE Refuse(h) /\ UNCHANGED drawn
    BY <1>1, <1>3, RefuseInv, Zenon
  <1>4. ASSUME NEW g \in live.grants, NEW id \in Session \ drawn,
               CanAdmit(live, g, now), Store(h, Admit(live, id, g, now)),
               drawn' = drawn \cup {id}
        PROVE  ServiceInv'
    <2> HIDE DEF live
    <2>1. \A s \in live.sessions : s.id # id
      BY <1>1, <1>2, <1>4, Zenon
    <2>2. /\ Sound(Admit(live, id, g, now)) /\ Validate(Admit(live, id, g, now))
          /\ \A s \in Admit(live, id, g, now).sessions : s \in live.sessions \/ s.id = id
      BY <1>1, <1>2, <1>4, <2>1, AdmitSound
    <2>3. /\ \A s \in Admit(live, id, g, now).sessions : s.id \in drawn'
          /\ drawn \subseteq drawn' /\ drawn' \subseteq Grant \cup Session
      BY <1>1, <1>2, <1>4, <2>2, Zenon
    <2> QED BY <1>1, <1>4, <2>2, <2>3, StoreInv, Zenon
  <1> QED BY <1>0, <1>3, <1>4, Zenon

(* The end a renewal works out from the copy it has of its grant. *)
LEMMA RenewedEnd ==
  ASSUME NEW x, x.expires \in Nat, NEW now \in Nat
  PROVE  LeaseEnd(x, now) \in Nat
  BY ConstantsAssumption DEF LeaseEnd, Earlier

(* renew_session under the mutex, up to its store. *)
LEMMA RenewSessionInv ==
  ASSUME ServiceInv, NEW h \in Process, RenewSession(h)
  PROVE  ServiceInv'
  <1>0. PICK now \in Since(task[h].now) :
          Refuse(h) \/ Store(h, Renew(memory, task[h].session, LeaseEnd(task[h], now)))
    BY Zenon DEF RenewSession
  <1> DEFINE next == Renew(memory, task[h].session, LeaseEnd(task[h], now))
  <1>1. /\ task[h].pc = "queued" /\ task[h].op = "renew_session"
        /\ task[h].expires \in Nat /\ now \in Nat
        /\ Sound(memory) /\ \A s \in memory.sessions : s.id \in drawn
        /\ drawn' = drawn /\ drawn \subseteq Grant \cup Session /\ OnlyTasks
    BY AtTheMutex, Fields, ConstantsAssumption, Zenon DEF RenewSession, Since
  <1>2. /\ Sound(next)
        /\ \A s \in next.sessions : \E r \in memory.sessions : r.id = s.id
    BY <1>1, RenewedEnd, RenewSound
  <1>3. Refuse(h) \/ Store(h, next)
    BY <1>0, Zenon
  <1> HIDE DEF next
  <1>4. \A s \in next.sessions : s.id \in drawn'
    BY <1>1, <1>2, Zenon
  <1> QED BY <1>1, <1>2, <1>3, <1>4, RefuseInv, StoreInv, Zenon

(* An operation that only removes leases, from a table it has just read. *)
LEMMA RemovalInv ==
  ASSUME ServiceInv, NEW p \in Process, NEW op, Queued(p, op), NEW next,
         Refuse(p) \/ Store(p, next), OnlyTasks, UNCHANGED drawn,
         Sound(next), Validate(next), next.sessions \subseteq memory.sessions
  PROVE  ServiceInv'
  <1>1. /\ task[p].pc = "queued" /\ drawn \subseteq Grant \cup Session
        /\ \A s \in memory.sessions : s.id \in drawn
    BY AtTheMutex, Zenon
  <1> QED BY <1>1, RefuseInv, StoreInv, Zenon

(* end_session under the mutex, up to its store. *)
LEMMA EndSessionInv ==
  ASSUME ServiceInv, NEW h \in Process, EndSession(h)
  PROVE  ServiceInv'
  <1>1. Queued(h, "end_session") /\ Sound(memory) /\ Validate(memory)
    BY AtTheMutex, Zenon DEF EndSession
  <1>2. /\ Store(h, End(memory, task[h].session)) /\ OnlyTasks /\ UNCHANGED drawn
        /\ Sound(End(memory, task[h].session)) /\ Validate(End(memory, task[h].session))
        /\ End(memory, task[h].session).sessions \subseteq memory.sessions
    BY <1>1, EndSound, Zenon DEF EndSession
  <1> QED BY <1>1, <1>2, RemovalInv, Zenon

(* The reaper under the mutex, up to its store. *)
LEMMA ExpireSessionsInv ==
  ASSUME ServiceInv, ExpireSessions
  PROVE  ServiceInv'
  <1> DEFINE next == Expire(memory, task[Reaper].now)
  <1>1. Reaper \in Process
    BY Zenon DEF Process
  <1>2. Queued(Reaper, "expire_sessions") /\ Sound(memory) /\ Validate(memory)
    BY <1>1, AtTheMutex, Zenon DEF ExpireSessions
  <1>3. /\ Refuse(Reaper) \/ Store(Reaper, next)
        /\ OnlyTasks /\ UNCHANGED drawn
    BY Zenon DEF ExpireSessions
  <1>4. /\ Sound(next) /\ Validate(next) /\ next.sessions \subseteq memory.sessions
    BY <1>2, ExpireSound, Zenon
  <1> HIDE DEF next
  <1> QED BY <1>1, <1>2, <1>3, <1>4, RemovalInv, Zenon

(* The usage meter under the mutex, up to its store. *)
LEMMA RecordUsageInv ==
  ASSUME ServiceInv, RecordUsageStep
  PROVE  ServiceInv'
  <1> DEFINE moved == {s.grant : s \in {r \in memory.sessions : r.id \in task[Meter].moved}}
  <1>0. PICK now \in Since(task[Meter].now) :
          Refuse(Meter) \/ Store(Meter, RecordUsage(memory, moved, now))
    BY Zenon DEF RecordUsageStep
  <1> DEFINE next == RecordUsage(memory, moved, now)
  <1>1. Meter \in Process
    BY Zenon DEF Process
  <1>2. /\ Queued(Meter, "record_usage") /\ Sound(memory) /\ Validate(memory)
        /\ now \in Time \cap Nat
    BY <1>1, AtTheMutex, ConstantsAssumption, Zenon DEF RecordUsageStep, Since
  <1>3. /\ Refuse(Meter) \/ Store(Meter, next)
        /\ OnlyTasks /\ UNCHANGED drawn
    BY <1>0, Zenon DEF RecordUsageStep
  <1> HIDE DEF moved
  <1>4. /\ Sound(next) /\ Validate(next) /\ next.sessions \subseteq memory.sessions
    BY <1>2, RecordUsageSound, Zenon
  <1> HIDE DEF next
  <1> QED BY <1>1, <1>2, <1>3, <1>4, RemovalInv, Zenon

(* A process that was storing is idle again, the others are as they were. *)
LEMMA TaskDone ==
  ASSUME ServiceInv, NEW p \in Process, task' = [task EXCEPT ![p] = Idle],
         UNCHANGED drawn
  PROVE  \A q \in Process : GoodTask(q)'
  <1> TAKE q \in Process
  <1>1. \A t : GoodTable(t) => GoodTable(t)'
    BY Zenon DEF GoodTable
  <1>2. CASE q = p
    BY <1>2, Zenon DEF ServiceInv, TypeOK, GoodTask, Idle
  <1>3. CASE q # p
    BY <1>1, <1>3, Zenon DEF ServiceInv, TypeOK, GoodTask
  <1> QED BY <1>2, <1>3, Zenon

(* Whatever a write leaves in the file is unreadable, or good and valid. *)
Filed(d) == d = Unreadable \/ (GoodTable(d) /\ d \in Table /\ Validate(d))

(* Whatever the state file may hold after a write is a good table, or unreadable. *)
LEMMA FileIsGood ==
  ASSUME ServiceInv
  PROVE  /\ Filed(disk)
         /\ \A t : GoodTable(t) /\ Validate(t) => \A d \in InFile(t) : Filed(d)
         /\ \A d \in InFile(disk) : Filed(d)
  <1>1. Filed(disk)
    BY Zenon DEF ServiceInv, Tables, GoodTable, Sound, Filed
  <1>2. \A u \in Writes : Validate(u) => Filed(u)
    <2>1. \A u \in orphans : Validate(u) => Filed(u)
      BY Zenon DEF ServiceInv, Tables, GoodTable, Sound, Filed
    <2>2. \A p \in Process : task[p].pc = "store" /\ Validate(task[p].next)
                               => Filed(task[p].next)
      BY Zenon DEF ServiceInv, GoodTask, GoodTable, Sound, Filed
    <2> QED BY <2>1, <2>2, Zenon DEF Writes
  <1>3. \A t : GoodTable(t) /\ Validate(t) => Filed(t)
    BY Zenon DEF Filed, GoodTable, Sound
  <1>4. Filed(Unreadable)
    BY Zenon DEF Filed
  <1>5. \A t, d : d \in InFile(t) =>
          d = t \/ d = disk \/ d = Unreadable \/ (d \in Writes /\ Validate(d))
    BY Zenon DEF InFile
  <1> QED BY <1>1, <1>2, <1>3, <1>4, <1>5, Zenon

(* A store ends, and its table takes effect. *)
LEMMA StoreDoneInv ==
  ASSUME ServiceInv, NEW p \in Process, StoreDone(p)
  PROVE  ServiceInv'
  <1>1. /\ task[p].pc = "store" /\ Validate(task[p].next)
        /\ disk' \in InFile(task[p].next) /\ memory' = task[p].next /\ lock' = None
        /\ task' = [task EXCEPT ![p] = Idle]
        /\ tangled' = (tangled /\ orphans # {})
        /\ UNCHANGED <<clock, up, orphans, cancels, drawn>>
    BY Zenon DEF StoreDone
  <1>2. GoodTable(task[p].next) /\ task[p].next \in Table
    BY <1>1, Zenon DEF ServiceInv, GoodTask, GoodTable, Sound
  <1>3. Filed(disk')
    BY <1>1, <1>2, FileIsGood, Zenon
  <1>4. TypeOK'
    BY <1>1, <1>2, <1>3, Zenon DEF ServiceInv, TypeOK, Filed
  <1>5. \A t \in Tables' : GoodTable(t)'
    <2>1. \A t : GoodTable(t) => GoodTable(t)'
      BY <1>1, Zenon DEF GoodTable
    <2> QED BY <1>1, <1>2, <1>3, <2>1, Zenon DEF ServiceInv, Tables, Filed
  <1>6. cancels = 0 => disk' = memory' /\ ~ tangled'
    BY <1>1, Zenon DEF ServiceInv, InFile
  <1>7. disk' # Unreadable => Validate(disk')
    BY <1>3, Zenon DEF Filed
  <1> QED BY <1>1, <1>4, <1>5, <1>6, <1>7, TaskDone, Zenon DEF ServiceInv

(* A store fails, and the table in memory stays. *)
LEMMA StoreFailedInv ==
  ASSUME ServiceInv, NEW p \in Process, StoreFailed(p)
  PROVE  ServiceInv'
  <1>1. /\ disk' \in InFile(disk) /\ lock' = None
        /\ task' = [task EXCEPT ![p] = Idle]
        /\ tangled' = (tangled /\ orphans # {})
        /\ UNCHANGED <<clock, up, memory, orphans, cancels, drawn>>
    BY Zenon DEF StoreFailed
  <1>2. Filed(disk')
    BY <1>1, FileIsGood, Zenon
  <1>3. TypeOK'
    BY <1>1, <1>2, Zenon DEF ServiceInv, TypeOK, Filed
  <1>4. \A t \in Tables' : GoodTable(t)'
    <2>1. \A t : GoodTable(t) => GoodTable(t)'
      BY <1>1, Zenon DEF GoodTable
    <2> QED BY <1>1, <1>2, <2>1, Zenon DEF ServiceInv, Tables, Filed
  <1>5. cancels = 0 => disk' = disk /\ ~ tangled'
    BY <1>1, Zenon DEF ServiceInv, InFile
  <1>6. disk' # Unreadable => Validate(disk')
    BY <1>2, Zenon DEF Filed
  <1> QED BY <1>1, <1>3, <1>4, <1>5, <1>6, TaskDone, Zenon DEF ServiceInv

(* A dropped request leaves at most a good table to be written. *)
LEMMA CancelInv ==
  ASSUME ServiceInv, NEW h \in Process, Cancel(h)
  PROVE  ServiceInv'
  <1>1. CASE /\ task[h].pc = "queued" /\ task' = [task EXCEPT ![h] = Idle]
             /\ UNCHANGED <<clock, up, memory, disk, lock, orphans, tangled, cancels, drawn>>
    <2>1. TypeOK'
      BY <1>1, Zenon DEF ServiceInv, TypeOK
    <2>2. \A t \in Tables' : GoodTable(t)'
      BY <1>1, Zenon DEF ServiceInv, Tables, GoodTable
    <2> QED BY <1>1, <2>1, <2>2, TaskDone, Zenon DEF ServiceInv
  <1>2. CASE /\ task[h].pc = "store" /\ cancels' = cancels + 1
             /\ orphans' = orphans \cup {task[h].next} /\ lock' = None
             /\ task' = [task EXCEPT ![h] = Idle]
             /\ UNCHANGED <<clock, up, memory, disk, tangled, drawn>>
    <2>1. GoodTable(task[h].next) /\ task[h].next \in Table
      BY <1>2, Zenon DEF ServiceInv, GoodTask, GoodTable, Sound
    <2>2. TypeOK'
      BY <1>2, <2>1 DEF ServiceInv, TypeOK
    <2>3. \A t \in Tables' : GoodTable(t)'
      BY <1>2, <2>1, Zenon DEF ServiceInv, Tables, GoodTable
    <2>4. cancels' # 0
      BY <1>2 DEF ServiceInv, TypeOK
    <2> QED BY <1>2, <2>2, <2>3, <2>4, TaskDone, Zenon DEF ServiceInv
  <1> QED BY <1>1, <1>2, Zenon DEF Cancel

(* A write whose request was dropped ends after all. *)
LEMMA OrphanDoneInv ==
  ASSUME ServiceInv, OrphanDone
  PROVE  ServiceInv'
  <1>1. PICK t \in orphans :
          /\ (Validate(t) /\ disk' \in InFile(t)) \/ disk' \in InFile(disk)
          /\ orphans' = orphans \ {t}
          /\ tangled' = (tangled /\ (lock # None \/ orphans # {t}))
          /\ UNCHANGED <<clock, up, memory, lock, task, cancels, drawn>>
    BY Zenon DEF OrphanDone
  <1>2. cancels # 0 /\ GoodTable(t)
    BY ProcessesAssumption, Zenon DEF ServiceInv, TypeOK, Tables
  <1>3. Filed(disk')
    BY <1>1, <1>2, FileIsGood, Zenon
  <1>4. TypeOK'
    BY <1>1, <1>3, Zenon DEF ServiceInv, TypeOK, Filed
  <1>5. \A u \in Tables' : GoodTable(u)'
    <2>1. \A u : GoodTable(u) => GoodTable(u)'
      BY <1>1, Zenon DEF GoodTable
    <2> QED BY <1>1, <1>3, <2>1, Zenon DEF ServiceInv, Tables, Filed
  <1>6. \A p \in Process : GoodTask(p)'
    BY <1>1, Zenon DEF ServiceInv, GoodTask, GoodTable
  <1>7. disk' # Unreadable => Validate(disk')
    BY <1>3, Zenon DEF Filed
  <1> QED BY <1>1, <1>2, <1>4, <1>5, <1>6, <1>7, Zenon DEF ServiceInv

(* Time passes. *)
LEMMA TickInv ==
  ASSUME ServiceInv, Tick
  PROVE  ServiceInv'
  <1>1. TypeOK'
    BY Zenon DEF Tick, ServiceInv, TypeOK
  <1> QED BY <1>1, Zenon DEF Tick, ServiceInv, Tables, GoodTable, GoodTask

(* The server stops; what was in memory is lost. *)
LEMMA CrashInv ==
  ASSUME ServiceInv, Crash
  PROVE  ServiceInv'
  <1>1. TypeOK'
    BY EmptyIsSound, Zenon DEF Crash, ServiceInv, TypeOK, Sound
  <1>2. \A t \in Tables' : GoodTable(t)'
    BY EmptyIsSound, SMTT(30) DEF Crash, ServiceInv, Tables, GoodTable, EmptyTable
  <1>3. \A p \in Process : GoodTask(p)'
    BY Zenon DEF Crash, GoodTask, Idle
  <1> QED BY <1>1, <1>2, <1>3, EmptyIsSound, Zenon DEF Crash, ServiceInv

(* The server loads the state file, without the run-out leases. *)
LEMMA RestartInv ==
  ASSUME ServiceInv, Restart
  PROVE  ServiceInv'
  <1> DEFINE loaded == TakeExpired(disk, clock)
  <1>1. /\ memory' = loaded /\ disk' = loaded /\ up' = TRUE /\ disk # Unreadable
        /\ UNCHANGED <<clock, lock, task, orphans, tangled, cancels, drawn>>
    BY Zenon DEF Restart
  <1>2. /\ Sound(loaded) /\ Validate(loaded) /\ loaded.sessions \subseteq disk.sessions
    BY <1>1, TakeExpiredSound, Zenon DEF ServiceInv, Tables, GoodTable
  <1> HIDE DEF loaded
  <1>3. GoodTable(loaded) /\ loaded \in Table
    BY <1>1, <1>2, Zenon DEF ServiceInv, Tables, GoodTable, Sound
  <1>4. TypeOK'
    BY <1>1, <1>3, Zenon DEF ServiceInv, TypeOK
  <1>5. \A t \in Tables' : GoodTable(t)'
    BY <1>1, <1>3, Zenon DEF ServiceInv, Tables, GoodTable
  <1>6. \A p \in Process : GoodTask(p)'
    BY <1>1, Zenon DEF ServiceInv, GoodTask, GoodTable
  <1> QED BY <1>1, <1>2, <1>4, <1>5, <1>6, Zenon DEF ServiceInv

(* Every step of the service keeps the inductive invariant. *)
LEMMA NextInv == ServiceInv /\ [Next]_vars => ServiceInv'
  <1> SUFFICES ASSUME ServiceInv, [Next]_vars PROVE ServiceInv'
    BY Zenon
  <1>1. ASSUME NEW h \in Handler, HandlerStep(h)
        PROVE  ServiceInv'
    <2>1. h \in Process
      BY Zenon DEF Process
    <2> QED
      BY <1>1, <2>1, HandlerStarts, CreateGrantInv, UpdateGrantInv, RevokeGrantInv,
         CreateSessionInv, RenewSessionInv, EndSessionInv, CancelInv, Zenon DEF HandlerStep
  <1>2. CASE ExpireSessionsStart \/ RecordUsageStart
    BY <1>2, TaskStarts, Zenon
  <1>3. CASE ExpireSessions \/ RecordUsageStep
    BY <1>3, ExpireSessionsInv, RecordUsageInv, Zenon
  <1>4. ASSUME NEW p \in Process, StoreDone(p) \/ StoreFailed(p)
        PROVE  ServiceInv'
    BY <1>4, StoreDoneInv, StoreFailedInv, Zenon
  <1>5. CASE OrphanDone \/ Tick \/ Crash \/ Restart
    BY <1>5, OrphanDoneInv, TickInv, CrashInv, RestartInv, Zenon
  <1>6. CASE UNCHANGED vars
    <2>1. TypeOK'
      BY <1>6, Zenon DEF vars, ServiceInv, TypeOK
    <2> QED BY <1>6, <2>1, Zenon DEF vars, ServiceInv, Tables, GoodTable, GoodTask
  <1> QED BY <1>1, <1>2, <1>3, <1>4, <1>5, <1>6, Zenon DEF Next

(* The inductive invariant: every table in memory, on disk, being stored or  *)
(* left behind is sound, and those in memory and on disk are valid.          *)
THEOREM ServiceInvariant == Spec => []ServiceInv
  BY InitInv, NextInv, PTL DEF Spec

(* Every variable has its type, the tables on their way to the store and    *)
(* those left behind included (AccessService, PersistedState).              *)
THEOREM TypesHold == Spec => []TypeOK
  <1>1. ServiceInv => TypeOK
    BY Zenon DEF ServiceInv
  <1> QED BY <1>1, ServiceInvariant, PTL

(* No two leases share a slot, every slot is within the capacity and every   *)
(* lease ends with its grant, in memory and on disk (store_file, load_file,  *)
(* next_resource_slot).                                                      *)
THEOREM LeasesAlwaysFit == Spec => []LeasesFit
  <1>1. ServiceInv => LeasesFit
    BY Zenon DEF ServiceInv, LeasesFit, Tables, GoodTable, Sound
  <1> QED BY <1>1, ServiceInvariant, PTL

(* No interleaving of requests, drops and restarts leaves a session to a     *)
(* paused grant (apply, admit_session, renew_session).                       *)
THEOREM PauseHolds == Spec => []PausedHasNoSession
  <1>1. ServiceInv => PausedHasNoSession
    BY Zenon DEF ServiceInv, PausedHasNoSession, GoodTable, Sound
  <1> QED BY <1>1, ServiceInvariant, PTL

(* No session outlives a change of its grant's protocols (apply).            *)
THEOREM ProtocolsHold == Spec => []IssuedForCurrentProtocols
  <1>1. ServiceInv => IssuedForCurrentProtocols
    BY Zenon DEF ServiceInv, IssuedForCurrentProtocols, GoodTable, Sound
  <1> QED BY <1>1, ServiceInvariant, PTL

(* A grant whose allowance is used up has no session of this period          *)
(* (record_usage, admit_session, apply).                                     *)
THEOREM AllowanceHolds == Spec => []UsedUpHasNoSession
  <1>1. ServiceInv => UsedUpHasNoSession
    BY Zenon DEF ServiceInv, UsedUpHasNoSession, GoodTable, Sound, UsedUp
  <1> QED BY <1>1, ServiceInvariant, PTL

(* Whatever requests are under way, fail, are dropped or crash with the      *)
(* server, no lease outlives what entitles it (admit_session, renew_session, *)
(* apply, record_usage, store_file).                                         *)
THEOREM EntitlementHolds == Spec => []SessionsAreEntitled
  BY LeasesAlwaysFit, PauseHolds, ProtocolsHold, AllowanceHolds, PTL DEF SessionsAreEntitled

(* With no request dropped during its store, disk and memory agree (store). *)
THEOREM DiskAgrees == Spec => []DiskMatchesMemory
  <1>1. ServiceInv => DiskMatchesMemory
    BY Zenon DEF ServiceInv, DiskMatchesMemory
  <1> QED BY <1>1, ServiceInvariant, PTL

(* Only a renewal or a change of a grant can be rejected by the store's      *)
(* validation; every other operation hands it a valid table.                 *)
THEOREM RejectedIsStale == Spec => []OnlyStaleIsRejected
  <1>1. ServiceInv => OnlyStaleIsRejected
    BY Zenon DEF ServiceInv, OnlyStaleIsRejected, GoodTask
  <1> QED BY <1>1, ServiceInvariant, PTL

-----------------------------------------------------------------------------
(* The refinement of LeaseSpec, and that nothing that ended comes back. *)

(* Only an enrolment adds a lease and only a creation adds a grant. *)
NothingNew(t, u, op) ==
    /\ op # "create_session" => \A s \in u.sessions : \E r \in t.sessions : r.id = s.id
    /\ op # "create_grant" => \A g \in u.grants : \E h \in t.grants : h.id = g.id

(* A table on its way to the store, and the mutex. *)
Derived(t, u, op) ==
    /\ Validate(u) => Operates(t, u) \/ u = t
    /\ NothingNew(t, u, op)

Locked(p) ==
    task[p].pc = "store" => lock = p /\ Derived(memory, task[p].next, task[p].op)

MutexInv ==
    /\ \A p \in Process : Locked(p)
    /\ ~ up => \A p \in Process : task[p].pc = "idle"
    /\ cancels <= MaxCancels

(* A table is its grants and its leases. *)
LEMMA WholeTable ==
  ASSUME NEW t \in Table
  PROVE  [grants |-> t.grants, sessions |-> t.sessions] = t
  BY Zenon DEF Table

(* create_grant writes the table with one fresh grant more. *)
LEMMA AddGrantDerived ==
  ASSUME NEW t \in Table, NEW g \in FreshGrant, \A h \in t.grants : h.id # g.id
  PROVE  Derived(t, AddGrant(t, g), "create_grant")
  <1>1. AddGrant(t, g) = [grants |-> t.grants \cup {g}, sessions |-> t.sessions]
    BY TableShape, Zenon DEF AddGrant
  <1>2. OpensGrant(t, AddGrant(t, g))
    BY <1>1 DEF OpensGrant
  <1> QED BY <1>1, <1>2 DEF Derived, Operates, NothingNew

(* update_grant writes a table that changes one grant. *)
LEMMA ApplyDerived ==
  ASSUME NEW t, Sound(t), NEW old \in t.grants, NEW new \in GrantRecord,
         new.id = old.id, NEW now \in Time, new.spent \in {old.spent, -1, Period(now)},
         new.expires = old.expires \/ new.expires > now
  PROVE  Derived(t, Apply(t, old, new, now), "update_grant")
  <1> DEFINE u == Apply(t, old, new, now)
  <1>1. u.grants = (t.grants \ {old}) \cup {new}
    <2> DEFINE G == (t.grants \ {old}) \cup {new}
               gone == Ending(CutBack(t, old, new), old, new, now)
    <2>1. PICK C : CutBack(t, old, new) = [grants |-> G, sessions |-> C]
      BY Zenon DEF CutBack
    <2>2. u = WithoutSessions(CutBack(t, old, new), gone)
      BY Zenon DEF Apply
    <2> HIDE DEF u, gone, G
    <2>3. u = [grants |-> G, sessions |-> C \ gone]
      BY <2>1, <2>2, WithoutShape, Zenon
    <2>4. u.grants = G
      BY <2>3, Zenon
    <2> QED BY <2>4, Zenon DEF G
  <1>2. \A s \in u.sessions : \E r \in t.sessions : r.id = s.id
    BY ApplySound
  <1>3. ChangesGrant(t, u)
    BY <1>1, Zenon DEF ChangesGrant
  <1> HIDE DEF u
  <1>4. \A g \in u.grants : \E h \in t.grants : h.id = g.id
    BY <1>1, Zenon
  <1>5. Operates(t, u)
    BY <1>3, Zenon DEF Operates
  <1> QED BY <1>2, <1>4, <1>5, Zenon DEF Derived, NothingNew, u

(* revoke_grant writes a table that drops one grant and its leases. *)
LEMMA RevokeDerived ==
  ASSUME NEW t, Sound(t), NEW g \in t.grants
  PROVE  Derived(t, Revoke(t, g.id), "revoke_grant")
  <1>1. RevokesGrant(t, Revoke(t, g.id))
    BY Zenon DEF RevokesGrant
  <1> QED BY <1>1, Zenon DEF Derived, Operates, NothingNew, Revoke

(* create_session writes a table with one lease more, less the run-out ones. *)
LEMMA AdmitDerived ==
  ASSUME NEW t, Sound(t), NEW now \in Time, NEW id \in Session,
         NEW g \in TakeExpired(t, now).grants,
         CanAdmit(TakeExpired(t, now), g, now),
         \A s \in TakeExpired(t, now).sessions : s.id # id
  PROVE  Derived(t, Admit(TakeExpired(t, now), id, g, now), "create_session")
  <1> DEFINE live == TakeExpired(t, now)
  <1>1. AdmitsSession(t, Admit(live, id, g, now))
    BY Zenon DEF AdmitsSession
  <1>2. live \in Table /\ live.grants = t.grants
    BY TakeExpiredSound, Zenon DEF Sound
  <1> HIDE DEF live
  <1>3. Admit(live, id, g, now).grants = t.grants
    BY <1>2, TableShape, Zenon DEF Admit
  <1>4. Operates(t, Admit(live, id, g, now))
    BY <1>1, Zenon DEF Operates
  <1> QED BY <1>3, <1>4, Zenon DEF Derived, NothingNew, live

(* A renewal that the store accepts gives the lease an end after its issue  *)
(* and no later than its grant's.                                           *)
LEMMA RenewDerived ==
  ASSUME NEW t, Sound(t), NEW r \in t.sessions, NEW expires \in Nat
  PROVE  Derived(t, Renew(t, r.id, expires), "renew_session")
  <1> DEFINE u == Renew(t, r.id, expires)
             S == {IF s.id = r.id THEN [s EXCEPT !.expires = expires] ELSE s :
                     s \in t.sessions}
             new == [r EXCEPT !.expires = expires]
  <1>1. u = [grants |-> t.grants, sessions |-> S]
    BY TableShape, Zenon DEF Renew, Sound
  <1>2. new \in S /\ r \in SessionRecord
    BY Zenon DEF Sound, Table
  <1>3. /\ new.expires = expires /\ new.issued = r.issued /\ new.grant = r.grant
        /\ r.issued \in Nat
    BY <1>2, Zenon DEF SessionRecord
  <1> HIDE DEF S, new
  <1>4. ASSUME Validate(u) PROVE Operates(t, u)
    <2>1. expires > r.issued
      BY <1>1, <1>2, <1>3, <1>4 DEF Validate
    <2>2. PICK g \in t.grants : g.id = r.grant /\ expires <= g.expires
      BY <1>1, <1>2, <1>3, <1>4 DEF Validate
    <2>3. g.expires \in Nat
      BY Zenon DEF Sound, Table, GrantRecord
    <2>4. expires \in r.issued + 1 .. g.expires
      BY <1>3, <2>1, <2>2, <2>3
    <2>5. RenewsSession(t, u)
      BY <2>2, <2>4, Zenon DEF RenewsSession
    <2> QED BY <2>5, Zenon DEF Operates
  <1>5. \A s \in u.sessions : \E q \in t.sessions : q.id = s.id
    BY RenewSound, Zenon
  <1>6. u.grants = t.grants
    BY <1>1
  <1> HIDE DEF u
  <1> QED BY <1>4, <1>5, <1>6, Zenon DEF Derived, NothingNew, u

(* end_session writes a table with at most that lease gone. *)
LEMMA EndDerived ==
  ASSUME NEW t \in Table, NEW id
  PROVE  Derived(t, End(t, id), "end_session")
  <1>1. End(t, id) = [grants |-> t.grants, sessions |-> {s \in t.sessions : s.id # id}]
    BY TableShape, Zenon DEF End
  <1>2. NothingNew(t, End(t, id), "end_session")
    BY <1>1 DEF NothingNew
  <1>3. CASE \E s \in t.sessions : s.id = id
    <2>1. EndsSession(t, End(t, id))
      BY <1>3, Zenon DEF EndsSession
    <2> QED BY <1>2, <2>1, Zenon DEF Derived, Operates
  <1>4. CASE \A s \in t.sessions : s.id # id
    <2>1. {s \in t.sessions : s.id # id} = t.sessions
      BY <1>4, Zenon
    <2>2. End(t, id) = t
      BY <1>1, <2>1, WholeTable, Zenon
    <2> QED BY <1>2, <2>2, Zenon DEF Derived
  <1> QED BY <1>3, <1>4, Zenon

(* expire_sessions writes a table without the run-out leases. *)
LEMMA ExpireDerived ==
  ASSUME NEW t, Sound(t), NEW now \in Time
  PROVE  Derived(t, Expire(t, now), "expire_sessions")
  <1>1. ExpiresLeases(t, Expire(t, now))
    BY Zenon DEF ExpiresLeases
  <1>2. Operates(t, Expire(t, now))
    BY <1>1, Zenon DEF Operates
  <1>3. Expire(t, now).sessions \subseteq t.sessions
    BY ExpireSound, Zenon
  <1>4. Expire(t, now).grants \subseteq t.grants
    <2>1. TakeExpired(t, now).grants = t.grants
      BY TakeExpiredSound, Zenon
    <2> QED BY <2>1, Zenon DEF Expire, ForgetStale
  <1> QED BY <1>2, <1>3, <1>4, Zenon DEF Derived, NothingNew

(* record_usage writes a table with allowances used up, and no new lease. *)
LEMMA RecordUsageDerived ==
  ASSUME NEW t, Sound(t), NEW now \in Time, now \in Nat,
         NEW grants \in SUBSET {s.grant : s \in t.sessions}
  PROVE  Derived(t, RecordUsage(t, grants, now), "record_usage")
  <1> DEFINE u == RecordUsage(t, grants, now)
  <1>1. UsesUpAllowances(t, u)
    BY Zenon DEF UsesUpAllowances
  <1>2. u.sessions \subseteq t.sessions
    BY RecordUsageSound, Zenon
  <1>3. \A g \in u.grants : \E h \in t.grants : h.id = g.id
    <2>1. \A h \in GrantRecord : [h EXCEPT !.spent = Period(now)].id = h.id
      BY Zenon DEF GrantRecord
    <2>2. t.grants \subseteq GrantRecord
      BY Zenon DEF Sound, Table
    <2> QED BY <2>1, <2>2, ZenonT(60) DEF RecordUsage
  <1> HIDE DEF u
  <1>4. Operates(t, u)
    BY <1>1, Zenon DEF Operates
  <1> QED BY <1>2, <1>3, <1>4, Zenon DEF Derived, NothingNew, u

-----------------------------------------------------------------------------
(* The mutex: at most one process stores, and its table stays current. *)

(* Nobody holds the mutex when the server starts. *)
LEMMA MutexInit == Init => MutexInv
  BY ProcessesAssumption DEF Init, MutexInv, Locked, Idle

(* An operation begins, or ends without a store. *)
LEMMA MutexNoStore ==
  ASSUME TypeOK, MutexInv, NEW p \in Process, NEW x, x.pc # "store",
         up \/ x.pc = "idle",
         task' = [task EXCEPT ![p] = x], OnlyTasks, UNCHANGED lock
  PROVE  MutexInv'
  BY Zenon DEF TypeOK, MutexInv, Locked, OnlyTasks

(* An operation computes its table and goes on to store it. *)
LEMMA MutexStore ==
  ASSUME TypeOK, MutexInv, NEW p \in Process, NEW op, Queued(p, op), NEW next,
         Store(p, next), OnlyTasks, Derived(memory, next, op)
  PROVE  MutexInv'
  <1>1. /\ lock = None /\ lock' = p /\ up /\ task[p].op = op
        /\ task' = [task EXCEPT ![p] = [pc |-> "store", op |-> task[p].op,
                                         next |-> next]]
        /\ UNCHANGED <<up, memory, cancels>>
    BY Zenon DEF Queued, Store, OnlyTasks, MutexInv
  <1>2. None \notin Process
    BY ProcessesAssumption, Zenon DEF Process
  <1>3. \A q \in Process : Locked(q)'
    <2> TAKE q \in Process
    <2>1. CASE q = p
      BY <1>1, <2>1, Zenon DEF TypeOK, Locked
    <2>2. CASE q # p
      BY <1>1, <1>2, <2>2, Zenon DEF TypeOK, MutexInv, Locked
    <2> QED BY <2>1, <2>2, Zenon
  <1> QED BY <1>1, <1>3, Zenon DEF MutexInv

(* The process that holds the mutex lets go of it. *)
LEMMA MutexRelease ==
  ASSUME TypeOK, MutexInv, NEW p \in Process, task[p].pc = "store",
         task' = [task EXCEPT ![p] = Idle], UNCHANGED up, cancels' <= MaxCancels
  PROVE  MutexInv'
  <1>1. \A q \in Process : q # p => task[q].pc # "store"
    BY Zenon DEF MutexInv, Locked
  <1>2. \A q \in Process : task'[q] = IF q = p THEN Idle ELSE task[q]
    BY Zenon DEF TypeOK
  <1>3. up
    BY Zenon DEF MutexInv
  <1> QED BY <1>1, <1>2, <1>3 DEF MutexInv, Locked, Idle

(* No step of a request handler disturbs the mutex. *)
LEMMA HandlerMutex ==
  ASSUME ServiceInv, MutexInv, NEW h \in Handler, HandlerStep(h)
  PROVE  MutexInv'
  <1>0. h \in Process /\ TypeOK /\ Sound(memory) /\ memory \in Table
    BY MemoryIsGood, Zenon DEF Process, ServiceInv, GoodTable
  <1>1. ASSUME NEW x, x.pc = "queued", Start(h, x), OnlyTasks, UNCHANGED lock
        PROVE  MutexInv'
    BY <1>0, <1>1, MutexNoStore, Zenon DEF Start
  <1>2. CASE CreateGrantStart(h) \/ UpdateGrantStart(h) \/ RevokeGrantStart(h)
    BY <1>1, <1>2, Zenon DEF CreateGrantStart, UpdateGrantStart, RevokeGrantStart
  <1>3. CASE CreateSessionStart(h) \/ RenewSessionStart(h) \/ EndSessionStart(h)
    BY <1>1, <1>3, Zenon DEF CreateSessionStart, RenewSessionStart, EndSessionStart
  <1>4. ASSUME Refuse(h), OnlyTasks PROVE MutexInv'
    BY <1>0, <1>4, MutexNoStore, Zenon DEF Refuse, Idle
  <1>5. CASE CreateGrant(h)
    <2>1. Queued(h, "create_grant") /\ OnlyTasks
      BY <1>5, Zenon DEF CreateGrant
    <2>2. task[h].grant \in FreshGrant
      BY <1>0, <2>1, AtTheMutex, Fields, Zenon
    <2> QED BY <1>0, <1>4, <1>5, <2>1, <2>2, AddGrantDerived, MutexStore, Zenon DEF CreateGrant
  <1>6. CASE UpdateGrant(h)
    <2>1. Queued(h, "update_grant") /\ OnlyTasks
      BY <1>6, Zenon DEF UpdateGrant
    <2>2. task[h].change \in Change /\ task[h].now \in Time \cap Nat
      BY <1>0, <2>1, AtTheMutex, Fields, Zenon
    <2>3. ASSUME NEW g \in memory.grants,
                 Store(h, Apply(memory, g, Changed(g, task[h].change, task[h].now),
                                task[h].now))
          PROVE  MutexInv'
      <3> DEFINE new == Changed(g, task[h].change, task[h].now)
      <3>1. g \in GrantRecord
        BY <1>0, Zenon DEF Table
      <3>2. /\ new \in GrantRecord /\ new.id = g.id
            /\ new.spent \in {g.spent, -1, Period(task[h].now)}
            /\ new.expires = g.expires \/ new.expires > task[h].now
        BY <2>2, <3>1, ChangedGrant, Zenon
      <3> HIDE DEF new
      <3>3. Derived(memory, Apply(memory, g, new, task[h].now), "update_grant")
        BY <1>0, <2>2, <3>2, ApplyDerived, Zenon
      <3>4. Store(h, Apply(memory, g, new, task[h].now))
        BY <2>3, Zenon DEF new
      <3> QED BY <1>0, <2>1, <3>3, <3>4, MutexStore, Zenon
    <2> QED BY <1>4, <1>6, <2>1, <2>3, Zenon DEF UpdateGrant
  <1>7. CASE RevokeGrant(h)
    <2>1. Queued(h, "revoke_grant") /\ OnlyTasks
      BY <1>7, Zenon DEF RevokeGrant
    <2>2. ASSUME NEW g \in memory.grants, g.id = task[h].grant,
                 Store(h, Revoke(memory, task[h].grant))
          PROVE  MutexInv'
      BY <1>0, <2>1, <2>2, RevokeDerived, MutexStore, Zenon
    <2> QED BY <1>4, <1>7, <2>1, <2>2, Zenon DEF RevokeGrant
  <1>8. CASE CreateSession(h)
    <2>0. PICK now \in Since(task[h].now) :
            \/ Refuse(h)
            \/ \E g \in TakeExpired(memory, now).grants, id \in Session \ drawn :
                 /\ CanAdmit(TakeExpired(memory, now), g, now)
                 /\ Store(h, Admit(TakeExpired(memory, now), id, g, now))
      BY <1>8, Zenon DEF CreateSession
    <2> DEFINE live == TakeExpired(memory, now)
    <2>1. Queued(h, "create_session") /\ OnlyTasks
      BY <1>8, Zenon DEF CreateSession
    <2>2. /\ now \in Time
          /\ \A s \in memory.sessions : s.id \in drawn
          /\ live.sessions \subseteq memory.sessions
      BY <1>0, <2>1, AtTheMutex, TakeExpiredSound, ConstantsAssumption, Zenon DEF Since
    <2>3. ASSUME NEW g \in live.grants, NEW id \in Session \ drawn,
                 CanAdmit(live, g, now), Store(h, Admit(live, id, g, now))
          PROVE  MutexInv'
      <3>1. \A s \in live.sessions : s.id # id
        BY <2>2, Zenon
      <3>2. Derived(memory, Admit(live, id, g, now), "create_session")
        BY <1>0, <2>2, <2>3, <3>1, AdmitDerived, Zenon
      <3> HIDE DEF live
      <3> QED BY <1>0, <2>1, <2>3, <3>2, MutexStore, Zenon
    <2> QED BY <1>4, <2>0, <2>1, <2>3, Zenon
  <1>9. CASE RenewSession(h)
    <2>1. Queued(h, "renew_session") /\ OnlyTasks
      BY <1>9, Zenon DEF RenewSession
    <2>2. task[h].expires \in Nat /\ Time \subseteq Nat
      BY <1>0, <2>1, AtTheMutex, Fields, ConstantsAssumption, Zenon
    <2>3. ASSUME NEW s \in memory.sessions, s.id = task[h].session,
                 NEW now \in Since(task[h].now),
                 Store(h, Renew(memory, task[h].session, LeaseEnd(task[h], now)))
          PROVE  MutexInv'
      <3>1. LeaseEnd(task[h], now) \in Nat
        BY <2>2, RenewedEnd, Zenon DEF Since
      <3> QED BY <1>0, <2>1, <2>3, <3>1, RenewDerived, MutexStore, Zenon
    <2> QED BY <1>4, <1>9, <2>1, <2>3, Zenon DEF RenewSession
  <1>10. CASE EndSession(h)
    BY <1>0, <1>10, EndDerived, MutexStore, Zenon DEF EndSession
  <1>11. CASE Cancel(h)
    <2>1. CASE /\ task[h].pc = "queued" /\ task' = [task EXCEPT ![h] = Idle]
               /\ UNCHANGED <<clock, up, memory, disk, lock, orphans, tangled, cancels, drawn>>
      BY <1>0, <2>1, MutexNoStore, Zenon DEF OnlyTasks, Idle
    <2>2. CASE /\ task[h].pc = "store" /\ cancels < MaxCancels /\ cancels' = cancels + 1
               /\ task' = [task EXCEPT ![h] = Idle] /\ UNCHANGED up
      <3>1. cancels' <= MaxCancels
        BY <1>0, <2>2, ProcessesAssumption DEF TypeOK
      <3> QED BY <1>0, <2>2, <3>1, MutexRelease, Zenon
    <2> QED BY <1>11, <2>1, <2>2, Zenon DEF Cancel
  <1> QED
    BY <1>2, <1>3, <1>5, <1>6, <1>7, <1>8, <1>9, <1>10, <1>11, Zenon DEF HandlerStep

(* No step of the service disturbs the mutex. *)
LEMMA MutexNext == ServiceInv /\ MutexInv /\ [Next]_vars => MutexInv'
  <1> SUFFICES ASSUME ServiceInv, MutexInv, [Next]_vars PROVE MutexInv'
    BY Zenon
  <1>0. /\ TypeOK /\ Sound(memory) /\ Reaper \in Process /\ Meter \in Process
    BY MemoryIsGood, Zenon DEF Process, ServiceInv, GoodTable
  <1>1. ASSUME NEW h \in Handler, HandlerStep(h) PROVE MutexInv'
    BY <1>1, HandlerMutex, Zenon
  <1>2. ASSUME NEW p \in Process, NEW x, x.pc = "queued", Start(p, x), OnlyTasks,
               UNCHANGED lock
        PROVE  MutexInv'
    BY <1>0, <1>2, MutexNoStore, Zenon DEF Start
  <1>3. CASE ExpireSessionsStart \/ RecordUsageStart
    BY <1>0, <1>2, <1>3, Zenon DEF ExpireSessionsStart, RecordUsageStart
  <1>4. ASSUME NEW p \in Process, Refuse(p), OnlyTasks PROVE MutexInv'
    BY <1>0, <1>4, MutexNoStore, Zenon DEF Refuse, Idle
  <1>5. CASE ExpireSessions
    <2>1. Queued(Reaper, "expire_sessions") /\ OnlyTasks
      BY <1>5, Zenon DEF ExpireSessions
    <2>2. task[Reaper].now \in Time
      BY <1>0, <2>1, AtTheMutex, Fields, Zenon
    <2>3. Derived(memory, Expire(memory, task[Reaper].now), "expire_sessions")
      BY <1>0, <2>2, ExpireDerived, Zenon
    <2>4. Refuse(Reaper) \/ Store(Reaper, Expire(memory, task[Reaper].now))
      BY <1>5, Zenon DEF ExpireSessions
    <2> QED BY <1>0, <1>4, <2>1, <2>3, <2>4, MutexStore, Zenon
  <1>6. CASE RecordUsageStep
    <2> DEFINE moved == {s.grant : s \in {r \in memory.sessions : r.id \in task[Meter].moved}}
    <2>1. Queued(Meter, "record_usage") /\ OnlyTasks
      BY <1>6, Zenon DEF RecordUsageStep
    <2>2. PICK now \in Since(task[Meter].now) :
            Refuse(Meter) \/ Store(Meter, RecordUsage(memory, moved, now))
      BY <1>6, Zenon DEF RecordUsageStep
    <2> DEFINE next == RecordUsage(memory, moved, now)
    <2>3. now \in Time /\ now \in Nat
      BY ConstantsAssumption, Zenon DEF Since
    <2>4. moved \in SUBSET {s.grant : s \in memory.sessions}
      BY Zenon
    <2> HIDE DEF moved
    <2>5. Derived(memory, next, "record_usage")
      BY <1>0, <2>3, <2>4, RecordUsageDerived, Zenon
    <2>6. Refuse(Meter) \/ Store(Meter, next)
      BY <2>2, Zenon
    <2> HIDE DEF next
    <2> QED BY <1>0, <1>4, <2>1, <2>5, <2>6, MutexStore, Zenon
  <1>7. ASSUME NEW p \in Process, StoreDone(p) \/ StoreFailed(p) PROVE MutexInv'
    <2>1. /\ task[p].pc = "store" /\ task' = [task EXCEPT ![p] = Idle]
          /\ UNCHANGED up /\ cancels' <= MaxCancels
      BY <1>7, Zenon DEF StoreDone, StoreFailed, MutexInv
    <2> QED BY <1>0, <2>1, MutexRelease, Zenon
  <1>8. CASE OrphanDone \/ Tick
    BY <1>8, Zenon DEF OrphanDone, Tick, MutexInv, Locked
  <1>9. CASE Crash
    BY <1>9, Zenon DEF Crash, MutexInv, Locked, Idle
  <1>10. CASE Restart
    BY <1>10, Zenon DEF Restart, MutexInv, Locked
  <1>11. CASE UNCHANGED vars
    BY <1>11, Zenon DEF vars, MutexInv, Locked
  <1> QED
    BY <1>1, <1>3, <1>5, <1>6, <1>7, <1>8, <1>9, <1>10, <1>11, Zenon DEF Next

(* The mutex invariant of the access service. *)
THEOREM MutexInvariant == Spec => []MutexInv
  BY MutexInit, MutexNext, ServiceInvariant, PTL DEF Spec

(* Steps that change no table. *)
LEMMA OnlyStoresChange ==
  ASSUME [Next]_vars
  PROVE  \/ UNCHANGED <<up, memory, disk>>
         \/ \E p \in Process : StoreDone(p) \/ StoreFailed(p)
         \/ OrphanDone \/ Crash \/ Restart
  <1>1. ASSUME NEW h \in Handler, HandlerStep(h) PROVE UNCHANGED <<up, memory, disk>>
    BY <1>1, Zenon
       DEF HandlerStep, CreateGrantStart, CreateGrant, UpdateGrantStart, UpdateGrant,
                RevokeGrantStart, RevokeGrant, CreateSessionStart, CreateSession,
                RenewSessionStart, RenewSession, EndSessionStart, EndSession,
                Cancel, OnlyTasks
  <1>2. ASSUME ExpireSessionsStart \/ ExpireSessions \/ RecordUsageStart \/ RecordUsageStep
        PROVE  UNCHANGED <<up, memory, disk>>
    BY <1>2, Zenon
       DEF ExpireSessionsStart, ExpireSessions, RecordUsageStart, RecordUsageStep,
                OnlyTasks
  <1>3. ASSUME Tick \/ UNCHANGED vars PROVE UNCHANGED <<up, memory, disk>>
    BY <1>3, Zenon DEF Tick, vars
  <1> QED BY <1>1, <1>2, <1>3, Zenon DEF Next

(* One step of the server is at most one operation on the surviving table. *)
LEMMA RefinementStep ==
  ASSUME MaxCancels = 0, ServiceInv, MutexInv, [Next]_vars
  PROVE  Operates(Surviving, Surviving') \/ UNCHANGED Surviving
  <1>0. cancels = 0 /\ orphans = {} /\ ~ tangled /\ (up => disk = memory)
    BY DEF ServiceInv, TypeOK, MutexInv
  <1>1. CASE UNCHANGED <<up, memory, disk>>
    BY <1>1, Zenon DEF Surviving
  <1>2. ASSUME NEW p \in Process, StoreDone(p)
        PROVE  Operates(Surviving, Surviving') \/ UNCHANGED Surviving
    <2>1. /\ task[p].pc = "store" /\ Validate(task[p].next)
          /\ memory' = task[p].next /\ UNCHANGED up
      BY <1>2, Zenon DEF StoreDone
    <2>2. up /\ (Operates(memory, memory') \/ memory' = memory)
      BY <2>1, Zenon DEF MutexInv, Locked, Derived
    <2> QED BY <2>1, <2>2, Zenon DEF Surviving
  <1>3. CASE OrphanDone \/ \E p \in Process : StoreFailed(p)
    BY <1>0, <1>3 DEF OrphanDone, StoreFailed, InFile, Surviving
  <1>4. CASE Crash
    BY <1>0, <1>4, Zenon DEF Crash, Surviving
  <1>5. CASE Restart
    <2>1. /\ ~ up /\ up' /\ clock \in Time
          /\ memory' = TakeExpired(disk, clock)
      BY <1>5, Zenon DEF Restart, ServiceInv, TypeOK
    <2>2. ExpiresLeases(disk, memory')
      BY <2>1, Zenon DEF ExpiresLeases
    <2> QED BY <2>1, <2>2, Zenon DEF Surviving, Operates
  <1> QED BY <1>1, <1>2, <1>3, <1>4, <1>5, OnlyStoresChange, Zenon

(* The server implements the atomic table of LeaseSpec when no request is    *)
(* dropped while its store runs: every change is one operation on the table  *)
(* the last one left, and a crash loses or repeats none.                     *)
THEOREM Refinement ==
  ASSUME MaxCancels = 0
  PROVE  Spec => ImplementsLeaseSpec
  <1>1. Init => Atomic!SpecInit
    BY Zenon DEF Init, Atomic!SpecInit, Surviving
  <1>2. ServiceInv /\ MutexInv /\ [Next]_vars => [Atomic!SpecNext]_Surviving
    BY RefinementStep, Zenon DEF Atomic!SpecNext
  <1> QED
    BY <1>1, <1>2, ServiceInvariant, MutexInvariant, PTL
       DEF Spec, Atomic!AtomicSpec, ImplementsLeaseSpec

(* While the server runs a session that ended and a grant that was revoked   *)
(* or forgotten stay so, dropped requests included (renew_session,           *)
(* end_session, update_grant and the mutex).                                 *)
THEOREM EndedIsForGood == Spec => EndedStaysEnded
  <1> DEFINE Kept == up /\ up' =>
               /\ \/ {s.id : s \in memory'.sessions} \subseteq {s.id : s \in memory.sessions}
                  \/ Returns("create_session")
               /\ \/ {g.id : g \in memory'.grants} \subseteq {g.id : g \in memory.grants}
                  \/ Returns("create_grant")
  <1>1. ASSUME ServiceInv, MutexInv, [Next]_vars PROVE Kept
    <2>1. CASE UNCHANGED memory
      BY <2>1, Zenon
    <2>2. ASSUME NEW p \in Process, StoreDone(p) PROVE Kept
      <3> HIDE DEF Kept
      <3>1. /\ task[p].pc = "store" /\ memory' = task[p].next /\ task'[p].pc = "idle"
        BY <1>1, <2>2, Zenon DEF StoreDone, ServiceInv, TypeOK, Idle
      <3>2. NothingNew(memory, memory', task[p].op)
        BY <1>1, <3>1, Zenon DEF MutexInv, Locked, Derived
      <3> QED BY <3>1, <3>2 DEF NothingNew, Returns, Kept
    <2>3. CASE OrphanDone \/ \E p \in Process : StoreFailed(p)
      BY <2>3, Zenon DEF OrphanDone, StoreFailed
    <2>4. CASE Crash \/ Restart
      BY <2>4, Zenon DEF Crash, Restart
    <2> QED BY <1>1, <2>1, <2>2, <2>3, <2>4, OnlyStoresChange, Zenon
  <1>2. ServiceInv /\ MutexInv /\ [Next]_vars => [Kept]_vars
    BY <1>1, Zenon
  <1> QED BY <1>2, ServiceInvariant, MutexInvariant, PTL DEF Spec, EndedStaysEnded

=============================================================================
