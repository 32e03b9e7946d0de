----------------------------- MODULE LeaseTable -----------------------------
(***************************************************************************)
(* The persisted state of ket-server and the pure functions on it: access   *)
(* grants (invites), session leases, and what each operation of the access  *)
(* service makes of a table.  Nothing here has variables; LeaseSpec applies *)
(* these functions atomically, AccessService the way the server does.       *)
(*                                                                         *)
(* A table is a record of two sets of records.  What the functions do not   *)
(* tell apart is left out: secrets and their hashes (ket-core compares      *)
(* them), labels and client names, the time a grant was created, and the    *)
(* byte counts behind an allowance: a grant records the allowance period in *)
(* which its devices used it up, or -1.  A session also carries the         *)
(* protocol set its credentials were issued for, which the server puts in   *)
(* the manifest it answers with and not in the record.                      *)
(***************************************************************************)
EXTENDS Integers, FiniteSets

CONSTANTS Grant,        \* access grant identifiers
          Session,      \* session identifiers, ordered as the strings are
          Protocols,    \* the protocol sets a grant may allow
          Time,         \* the seconds a run lasts
          Validity,     \* lifetimes a grant may be given
          MaxSessions,  \* node capacity: the number of resource slots
          SessionTtl,   \* seconds a lease lasts
          Retention,    \* seconds an expired grant stays listed
          PeriodLength  \* seconds of an allowance period

ASSUME ConstantsAssumption ==
    /\ Session \subseteq Nat
    /\ Time \subseteq Nat
    /\ Validity \subseteq Nat \ {0}
    /\ MaxSessions \in Nat \ {0}
    /\ SessionTtl \in Nat \ {0}
    /\ Retention \in Nat \ {0}
    /\ PeriodLength \in Nat \ {0}

Slot == 0 .. MaxSessions - 1

GrantRecord ==
    [id : Grant, max : 1 .. MaxSessions, expires : Nat, paused : BOOLEAN,
     protocols : Protocols, spent : Int]

(* A grant begins without a pause and with its whole allowance. *)
FreshGrant == {g \in GrantRecord : ~ g.paused /\ g.spent = -1}

SessionRecord ==
    [id : Session, grant : Grant, slot : Nat, issued : Nat, expires : Nat,
     protocols : Protocols]

Table == [grants : SUBSET GrantRecord, sessions : SUBSET SessionRecord]

EmptyTable == [grants |-> {}, sessions |-> {}]

Earlier(a, b) == IF a <= b THEN a ELSE b

-----------------------------------------------------------------------------
(* What every stored and every loaded table satisfies. *)

Validate(t) ==
    /\ \A g, h \in t.grants : g.id = h.id => g = h
    /\ \A g \in t.grants : g.max > 0
    /\ \A r, s \in t.sessions : r.id = s.id \/ r.slot = s.slot => r = s
    /\ \A s \in t.sessions :
         /\ \E g \in t.grants : g.id = s.grant /\ s.expires <= g.expires
         /\ s.expires > s.issued

-----------------------------------------------------------------------------
(* Reading a table. *)

Period(now) == now \div PeriodLength

UsedUp(g, now) == g.spent = Period(now)

Admits(s, g, now) ==
    /\ s.expires > now
    /\ ~ g.paused
    /\ g.expires > now
    /\ ~ UsedUp(g, now)

Active(t, now) == {s \in t.sessions : s.expires > now}

ActiveFor(t, id, now) == {s \in Active(t, now) : s.grant = id}

FreeSlots(t) == Slot \ {s.slot : s \in t.sessions}

NextSlot(t) == CHOOSE n \in FreeSlots(t) : \A m \in FreeSlots(t) : n <= m

LeaseEnd(g, now) == Earlier(now + SessionTtl, g.expires)

-----------------------------------------------------------------------------
(* Changing a table. *)

WithoutSessions(t, gone) == [t EXCEPT !.sessions = @ \ gone]

TakeExpired(t, now) == [t EXCEPT !.sessions = {s \in @ : s.expires > now}]

Stale(g, now) == now - g.expires >= Retention

ForgetStale(t, now) ==
    LET forgotten == {g.id : g \in {h \in t.grants : Stale(h, now)}}
    IN  [grants   |-> {g \in t.grants : ~ Stale(g, now)},
         sessions |-> {s \in t.sessions : s.grant \notin forgotten}]

Expire(t, now) == ForgetStale(TakeExpired(t, now), now)

NewGrant(id, max, expires, protocols) ==
    [id |-> id, max |-> max, expires |-> expires, paused |-> FALSE,
     protocols |-> protocols, spent |-> -1]

AddGrant(t, g) == [t EXCEPT !.grants = @ \cup {g}]

Revoke(t, id) ==
    [grants   |-> {g \in t.grants : g.id # id},
     sessions |-> {s \in t.sessions : s.grant # id}]

(* The lease an admission at `now` adds to t, whose expired leases are gone. *)
NewLease(t, id, g, now) ==
    [id |-> id, grant |-> g.id, slot |-> NextSlot(t), issued |-> now,
     expires |-> LeaseEnd(g, now), protocols |-> g.protocols]

(* Mutation: the pause is not looked at again. *)
CanAdmitPaused(t, g, now) ==
    /\ g.expires > now
    /\ ~ UsedUp(g, now)
    /\ Cardinality(ActiveFor(t, g.id, now)) < g.max
    /\ Cardinality(Active(t, now)) < MaxSessions
    /\ FreeSlots(t) # {}

(* Why admit_session refuses, checked with the lock held. *)
CanAdmit(t, g, now) ==
    /\ g.expires > now
    /\ ~ g.paused
    /\ ~ UsedUp(g, now)
    /\ Cardinality(ActiveFor(t, g.id, now)) < g.max
    /\ Cardinality(Active(t, now)) < MaxSessions
    /\ FreeSlots(t) # {}

Admit(t, id, g, now) ==
    [t EXCEPT !.sessions = @ \cup {NewLease(t, id, g, now)}]

Renew(t, id, expires) ==
    [t EXCEPT !.sessions =
        {IF s.id = id THEN [s EXCEPT !.expires = expires] ELSE s : s \in @}]

End(t, id) == [t EXCEPT !.sessions = {s \in @ : s.id # id}]

(* An admin's change of the grant `old` to `new`. *)
EndsAll(old, new, now) ==
    \/ new.paused /\ ~ old.paused
    \/ new.protocols # old.protocols
    \/ UsedUp(new, now)

Cut(s, new) == [s EXCEPT !.expires = Earlier(@, new.expires)]

Older(r, s) == r.issued < s.issued \/ (r.issued = s.issued /\ r.id < s.id)

OverLimit(t, new, s, now) ==
    /\ s.expires > now
    /\ Cardinality({r \in ActiveFor(t, new.id, now) : Older(r, s)}) >= new.max

(* First the leases of the grant are cut to its new end, then some end. *)
CutBack(t, old, new) ==
    [grants   |-> (t.grants \ {old}) \cup {new},
     sessions |-> {IF s.grant = new.id THEN Cut(s, new) ELSE s : s \in t.sessions}]

Ending(cut, old, new, now) ==
    {s \in cut.sessions :
        /\ s.grant = new.id
        /\ EndsAll(old, new, now) \/ OverLimit(cut, new, s, now)}

Apply(t, old, new, now) ==
    LET cut == CutBack(t, old, new)
    IN  WithoutSessions(cut, Ending(cut, old, new, now))

(* The meter found that the devices of `grants` used up their allowance.    *)
(* Every session of a grant that is used up ends, counted just now or not.  *)
RecordUsage(t, grants, now) ==
    LET counted == {IF g.id \in grants THEN [g EXCEPT !.spent = Period(now)]
                                       ELSE g : g \in t.grants}
        usedUp  == {g.id : g \in {h \in counted : UsedUp(h, now)}}
    IN  [grants   |-> counted,
         sessions |-> {s \in t.sessions : s.grant \notin usedUp}]

-----------------------------------------------------------------------------
(* What one operation may make of t.  `now` is any second: a request may     *)
(* have read the clock long before it is served.                             *)

OpensGrant(t, u) ==
    \E g \in u.grants \cap FreshGrant :
        /\ \A h \in t.grants : h.id # g.id
        /\ u = AddGrant(t, g)

(* A change may set every field but the identifier, and ends the sessions   *)
(* that the changed grant would not have let in.                            *)
ChangesGrant(t, u) ==
    \E old \in t.grants, new \in u.grants, now \in Time :
        /\ new.id = old.id
        /\ new.expires = old.expires \/ new.expires > now
        /\ new.spent \in {old.spent, -1, Period(now)}
        /\ u = Apply(t, old, new, now)

RevokesGrant(t, u) == \E g \in t.grants : u = Revoke(t, g.id)

(* A lease is added only if the table, rid of expired leases, has room. *)
AdmitsSession(t, u) ==
    \E now \in Time, id \in Session :
        LET live == TakeExpired(t, now)
        IN  \E g \in live.grants :
                /\ CanAdmit(live, g, now)
                /\ \A s \in live.sessions : s.id # id
                /\ u = Admit(live, id, g, now)

(* A lease gets a new end, no later than its grant's. *)
RenewsSession(t, u) ==
    \E s \in t.sessions, g \in t.grants :
        /\ g.id = s.grant
        /\ \E expires \in s.issued + 1 .. g.expires : u = Renew(t, s.id, expires)

EndsSession(t, u) == \E s \in t.sessions : u = End(t, s.id)

ExpiresLeases(t, u) ==
    \E now \in Time : u \in {Expire(t, now), TakeExpired(t, now)}

UsesUpAllowances(t, u) ==
    \E now \in Time, grants \in SUBSET {s.grant : s \in t.sessions} :
        u = RecordUsage(t, grants, now)

Operates(t, u) ==
    \/ OpensGrant(t, u) \/ ChangesGrant(t, u) \/ RevokesGrant(t, u)
    \/ AdmitsSession(t, u) \/ RenewsSession(t, u) \/ EndsSession(t, u)
    \/ ExpiresLeases(t, u) \/ UsesUpAllowances(t, u)

=============================================================================
