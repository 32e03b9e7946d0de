-------------------------- MODULE SessionApiProofs --------------------------
(***************************************************************************)
(* The session handlers and the engines: the invariant that every step     *)
(* keeps, that a client that has its manifest keeps its access, and that   *)
(* what an engine holds for an ended session is accounted for.  For every  *)
(* list of engines, every number of slots, sessions, handlers, background  *)
(* tasks, and any number of failed calls, dropped requests and restarts.   *)
(***************************************************************************)
EXTENDS SessionApi, TLAPS

-----------------------------------------------------------------------------
(* The inductive invariant. *)

(* What a process still has to kick, and the enrolment it goes on with. *)
Gone(p) == IF task[p].at = "kick" THEN task[p].gone ELSE {}

NewOf(p) == IF task[p].at = "idle" THEN None ELSE task[p].new

(* Every allocation the server may still act on. *)
Known ==
    {a \in Allocation :
        \/ a \in live \/ a \in startup.wanted
        \/ \E p \in Process : a \in Gone(p) \/ a = NewOf(p)
        \/ \E x \in answering : a = x[2]}

(* An identifier is given out once, with one slot.  An engine that holds it *)
(* holds it with that slot, except for a WireGuard peer that has lost its   *)
(* address.                                                                 *)
GivenOnce ==
    /\ \A a \in Known : a.id <= drawn
    /\ \A id \in accepted : id <= drawn
    /\ \A e \in DOMAIN held : \A b \in held[e] : b.id <= drawn
    /\ \A a, b \in Known : a.id = b.id => a = b
    /\ \A e \in DOMAIN held : \A b \in held[e] : \A a \in Known :
         a.id = b.id => b = a \/ (e = "wireguard" /\ b.slot = Unaddressed)

SlotsApart == \A a, b \in live : a.slot = b.slot => a = b

(* A kick is for leases that are gone, an enrolment under way is of a client *)
(* that has no manifest yet, and no two are of the same lease.              *)
TasksApart ==
    /\ \A p \in Process : Gone(p) \cap live = {}
    /\ \A p \in Process : NewOf(p) # None =>
         /\ ready
         /\ NewOf(p).id \notin accepted
         /\ \A q \in Process : q # p /\ NewOf(q) # None => NewOf(q) # NewOf(p)
    /\ \A x \in answering : x[1] \in SignIn

(* The lease a can be used at e, or its slot was touched. *)
Served(e, a) == e \in SignIn \/ a \in held[e] \/ (e \in BySlot /\ a.id \in crossed)

(* How far an enrolment, and how far the reconciliation at startup, has got. *)
ServedSoFar ==
    /\ \A p \in Process : task[p].at = "provision" /\ task[p].new \in live =>
         \A j \in 1 .. task[p].i - 1 : Served(Running[j], task[p].new)
    /\ ~ ready /\ ~ startup.failed =>
         \A a \in live : a.id \in accepted =>
           \A j \in 1 .. startup.at - 1 : Served(Running[j], a)

(* What is held at e under this id has a lease, a missed kick or one to come. *)
Answered(e, id) ==
    \/ id \in Ids(live)
    \/ <<e, id>> \in missed
    \/ \E p \in Process : <<e, id>> \in Outstanding(p)

(* What the reconciliation does not remove: anything at Hysteria, and a     *)
(* WireGuard peer at an address that is wanted.                             *)
Escapes(e, b) ==
    e = "hysteria" \/ (e = "wireguard" /\ b.slot \in Slots(startup.wanted))

EscapedIsAnswered ==
    ~ ready => \A e \in DOMAIN held : \A b \in held[e] :
                 Escapes(e, b) => Answered(e, b.id)

AccessInv ==
    /\ TypeOK
    /\ StartupCoversLeases
    /\ GivenOnce
    /\ TasksApart
    /\ AcceptedKeepsAccess
    /\ ServedSoFar

StrayInv ==
    /\ SlotsApart
    /\ StrayIsAccountedFor
    /\ EscapedIsAnswered

-----------------------------------------------------------------------------
(* What the calls leave in an engine. *)

(* Installing peers keeps the keys of the others, some without an address. *)
LEMMA InstallLeaves ==
  ASSUME NEW h \in SUBSET Holding, NEW new \in SUBSET Allocation
  PROVE  /\ InstallPeers(h, new) \subseteq Holding
         /\ new \subseteq InstallPeers(h, new)
         /\ \A b \in InstallPeers(h, new) :
              \/ b \in h
              \/ b \in new
              \/ b.slot = Unaddressed /\ \E c \in h : c.id = b.id /\ c.slot \in Slots(new)
         /\ \A c \in h : c \in InstallPeers(h, new) \/ c.slot \in Slots(new)
  BY Zenon DEF InstallPeers, Holding, Allocation

(* Nothing new but the session, nothing lost but what had its slot. *)
OnlySession(left, e, h, a) ==
    /\ left \subseteq Holding
    /\ \A b \in left :
         \/ b \in h
         \/ b = a /\ e \notin SignIn
         \/ e = "wireguard" /\ b.slot = Unaddressed /\ \E c \in h : c.id = b.id
    /\ \A c \in h : c \in left \/ (e \in BySlot /\ c.slot = a.slot)

(* A provisioning, whole or half done, concerns nothing but its session. *)
LEMMA ProvisionLeaves ==
  ASSUME NEW e \in Engines, NEW h \in SUBSET Holding, NEW a \in Allocation,
         NEW left \in HalfProvisioned(e, h, a)
  PROVE  OnlySession(left, e, h, a)
  BY DEF HalfProvisioned, Provisioned, Kicked, Hits, InstallPeers, Slots, SignIn, BySlot,
         Engines, Holding, Allocation, OnlySession

(* A provisioning that succeeds leaves its session at every engine that is  *)
(* told of sessions.                                                        *)
LEMMA ProvisionInstalls ==
  ASSUME NEW e \in Engines, NEW h \in SUBSET Holding, NEW a \in Allocation
  PROVE  /\ Provisioned(e, h, a) \in HalfProvisioned(e, h, a)
         /\ e \in SignIn \/ a \in Provisioned(e, h, a)
  BY Zenon DEF HalfProvisioned, Provisioned, InstallPeers, SignIn, Engines

(* Nothing new, and nothing lost but what the kick hits. *)
OnlyHit(left, e, h, gone) ==
    left \subseteq h /\ \A c \in h : c \in left \/ \E a \in gone : Hits(e, a, c)

Cleared(left, e, gone) == \A b \in left, a \in gone : ~ Hits(e, a, b)

(* A kick, whole or half done, only removes, and only what it hits. *)
LEMMA KickLeaves ==
  ASSUME NEW e \in Engines, NEW h \in SUBSET Holding, NEW gone \in SUBSET Allocation,
         NEW left \in HalfKicked(e, h, gone)
  PROVE  OnlyHit(left, e, h, gone)
  BY Zenon DEF HalfKicked, Kicked, OnlyHit

(* A kick that succeeds leaves nothing it hits. *)
LEMMA KickRemoves ==
  ASSUME NEW e, NEW h, NEW gone, Readable(e, h)
  PROVE  /\ Kicked(e, h, gone) \in HalfKicked(e, h, gone)
         /\ Cleared(Kicked(e, h, gone), e, gone)
  BY Zenon DEF HalfKicked, Kicked, Cleared

(* Nothing new but what is wanted. *)
OnlyWanted(left, e, h, wanted) ==
    /\ left \subseteq Holding
    /\ \A b \in left :
         \/ b \in h
         \/ b \in wanted /\ e \notin SignIn
         \/ /\ e = "wireguard" /\ b.slot = Unaddressed
            /\ \E c \in h : c.id = b.id /\ c.slot \in Slots(wanted)

(* A reconciliation, whole or half done, brings nothing but what is wanted. *)
LEMMA ReconcileLeaves ==
  ASSUME NEW e \in Engines, NEW h \in SUBSET Holding, NEW wanted \in SUBSET Allocation,
         NEW left \in {Reconciled(e, h, wanted)} \cup HalfReconciled(e, h, wanted)
  PROVE  OnlyWanted(left, e, h, wanted)
  <1>1. CASE e \in SignIn
    <2>1. Reconciled(e, h, wanted) \subseteq h
      <3>1. /\ Reconciled("hysteria", h, wanted) \subseteq h
            /\ Reconciled("openvpn", h, wanted) \subseteq h
        BY Zenon DEF Reconciled
      <3>2. e = "hysteria" \/ e = "openvpn"
        BY <1>1, Zenon DEF SignIn
      <3> QED BY <3>1, <3>2, Zenon
    <2>2. \A part \in HalfReconciled(e, h, wanted) : part \subseteq h
      BY <1>1, Zenon DEF HalfReconciled, SignIn
    <2> QED BY <2>1, <2>2, Zenon DEF OnlyWanted
  <1>2. CASE e \in {"xray", "shadowsocks"}
    <2>1. Reconciled(e, h, wanted) = wanted
      BY <1>2, Zenon DEF Reconciled
    <2>2. \A part \in HalfReconciled(e, h, wanted) : part \subseteq h \/ part \subseteq wanted
      BY <1>2, Zenon DEF HalfReconciled
    <2>3. wanted \subseteq Holding /\ e \notin SignIn
      BY <1>2, Zenon DEF Holding, Allocation, SignIn
    <2> QED BY <2>1, <2>2, <2>3, Zenon DEF OnlyWanted
  <1>3. CASE e = "wireguard"
    <2>1. ASSUME NEW g \in SUBSET h, NEW part \in SUBSET wanted, left = InstallPeers(g, part)
          PROVE  /\ left \subseteq Holding
                 /\ \A b \in left :
                      \/ b \in h
                      \/ b \in wanted
                      \/ /\ b.slot = Unaddressed
                         /\ \E c \in h : c.id = b.id /\ c.slot \in Slots(wanted)
      <3>1. Slots(part) \subseteq Slots(wanted)
        BY Zenon DEF Slots
      <3> QED BY <2>1, <3>1, InstallLeaves
    <2>2. \E g \in SUBSET h : Reconciled(e, h, wanted) = InstallPeers(g, wanted)
      <3> DEFINE g == {b \in h : b.slot \in Slots(wanted)}
      <3>1. Reconciled("wireguard", h, wanted) = InstallPeers(g, wanted)
        BY Zenon DEF Reconciled
      <3>2. g \in SUBSET h
        BY Zenon
      <3> HIDE DEF g
      <3> QED BY <1>3, <3>1, <3>2, Zenon
    <2>3. \A half \in HalfReconciled(e, h, wanted) :
            \/ half \subseteq h
            \/ \E g \in SUBSET h, part \in SUBSET wanted : half = InstallPeers(g, part)
      BY <1>3, Zenon DEF HalfReconciled
    <2>4. e \notin SignIn
      BY <1>3, Zenon DEF SignIn
    <2> QED BY <1>3, <2>1, <2>2, <2>3, <2>4 DEF OnlyWanted
  <1> QED BY <1>1, <1>2, <1>3, Zenon DEF Engines, SignIn

(* One that succeeds leaves all that is wanted at every engine that is told *)
(* of sessions, and nothing else but what escapes it.                       *)
LEMMA ReconcileInstalls ==
  ASSUME NEW e \in Engines, NEW h \in SUBSET Holding, NEW wanted \in SUBSET Allocation
  PROVE  /\ e \in SignIn \/ wanted \subseteq Reconciled(e, h, wanted)
         /\ \A b \in Reconciled(e, h, wanted) :
              \/ e = "hysteria" /\ b \in h
              \/ e # "hysteria" /\ b.id \in Ids(wanted)
              \/ e = "wireguard" /\ \E c \in h : c.id = b.id /\ c.slot \in Slots(wanted)
  <1>1. CASE e = "hysteria"
    <2>1. Reconciled(e, h, wanted) = h
      BY <1>1, Zenon DEF Reconciled
    <2> QED BY <1>1, <2>1, Zenon DEF SignIn
  <1>2. CASE e = "openvpn"
    <2>1. Reconciled(e, h, wanted) = {b \in h : b.id \in Ids(wanted)}
      <3>1. Reconciled("openvpn", h, wanted) = {b \in h : b.id \in Ids(wanted)}
        BY Zenon DEF Reconciled
      <3> QED BY <1>2, <3>1, Zenon
    <2> QED BY <1>2, <2>1, Zenon DEF SignIn
  <1>3. CASE e \in {"xray", "shadowsocks"}
    <2>1. Reconciled(e, h, wanted) = wanted
      BY <1>3, Zenon DEF Reconciled
    <2> QED BY <1>3, <2>1, Zenon DEF Ids
  <1>4. CASE e = "wireguard"
    <2> DEFINE g == {b \in h : b.slot \in Slots(wanted)}
    <2>1. Reconciled(e, h, wanted) = InstallPeers(g, wanted)
      BY <1>4, Zenon DEF Reconciled
    <2>2. g \in SUBSET Holding
      BY Zenon
    <2>3. \A b \in g : b \in h /\ b.slot \in Slots(wanted)
      BY Zenon
    <2> HIDE DEF g
    <2>4. /\ wanted \subseteq InstallPeers(g, wanted)
          /\ \A b \in InstallPeers(g, wanted) :
               b \in wanted \/ \E c \in g : c.id = b.id
      BY <2>2, InstallLeaves
    <2> QED BY <1>4, <2>1, <2>3, <2>4, Zenon DEF Ids
  <1> QED BY <1>1, <1>2, <1>3, <1>4, Zenon DEF Engines

-----------------------------------------------------------------------------
(* Engines, slots and the points a process can be at. *)

\* The engines of an installation determine a configuration of them.
LEMMA Configured ==
  ASSUME NEW engines, \E controls \in Installations : Listed(controls) = engines
  PROVE  from_config(engines) \in Installations /\ Listed(from_config(engines)) = engines
  BY Zenon DEF from_config

(* The engines are called in the order of a list that names each of them. *)
LEMMA EnginesListed ==
  ASSUME TypeOK
  PROVE  /\ Len(Running) \in Nat /\ Len(Running) >= 1
         /\ DOMAIN Running = 1 .. Len(Running)
         /\ \A i \in 1 .. Len(Running) : Running[i] \in DOMAIN held
         /\ \A e \in DOMAIN held : \E i \in 1 .. Len(Running) : Running[i] = e
         /\ DOMAIN held \subseteq Engines
         /\ held \in [DOMAIN held -> SUBSET Holding]
  <1>1. PICK controls \in Installations : held \in [Listed(controls) -> SUBSET Holding]
    BY Zenon DEF TypeOK
  <1>2. Listed(controls) = DOMAIN held
    BY <1>1, Zenon
  <1>3. Running \in Installations /\ Listed(Running) = DOMAIN held
    BY <1>2, Configured, Zenon DEF Running
  <1>4. Running \in Seq(Engines) /\ Running # <<>>
    BY <1>3, SessionApiAssumption, Zenon
  <1>5. Len(Running) \in Nat /\ Len(Running) >= 1 /\ DOMAIN Running = 1 .. Len(Running)
    BY <1>4
  <1>6. \A i \in 1 .. Len(Running) : Running[i] \in Engines
    BY <1>4, <1>5
  <1>7. DOMAIN held = {Running[i] : i \in 1 .. Len(Running)}
    BY <1>3, <1>5, Zenon DEF Listed
  <1> QED BY <1>1, <1>2, <1>5, <1>6, <1>7, Zenon

(* An enrolment gets a slot that no live lease has. *)
LEMMA NextSlotIsFree ==
  ASSUME NEW t, NEW n \in NextSlot(t)
  PROVE  n \in Slot \ Slots(t)
  BY Zenon DEF NextSlot, FreeSlots

(* What a process has in hand at each point. *)
LEMMA PointCases ==
  ASSUME NEW t \in Point
  PROVE  \/ t.at = "idle"
         \/ /\ t.at = "kick" /\ t.gone \in SUBSET Allocation
            /\ t.i \in DOMAIN Running /\ t.new \in Allocation \cup {None}
         \/ t.at \in {"provision", "rollback"} /\ t.new \in Allocation /\ t.i \in DOMAIN Running
         \/ t.at = "refuse" /\ t.new \in Allocation
  BY DEF Point, Idle

\* The points a handler can be at are of their type.
LEMMA PointBuilt ==
  ASSUME NEW i \in DOMAIN Running, NEW new \in Allocation, NEW gone \in SUBSET Allocation
  PROVE  /\ Idle \in Point
         /\ AtKick(gone, i, new) \in Point /\ AtKick(gone, i, None) \in Point
         /\ AtProvision(new, i) \in Point /\ AtRollback(new, i) \in Point
         /\ AtRefuse(new) \in Point
  BY Zenon DEF Point, AtKick, AtProvision, AtRollback, AtRefuse

(* The types are kept, and so is the list of engines. *)
TypesKept == TypeOK' /\ DOMAIN held' = DOMAIN held /\ Running' = Running

\* The type invariant after a step, from its parts.
LEMMA TypeStep ==
  ASSUME TypeOK,
         live' \subseteq Allocation,
         held' \in [DOMAIN held -> SUBSET Holding],
         answering' \subseteq (DOMAIN held) \X Allocation,
         task' \in [Process -> Point],
         ready' \in BOOLEAN,
         startup' \in Startups(SUBSET Allocation),
         accepted' \subseteq Session,
         drawn' \in Nat,
         missed' \subseteq (DOMAIN held) \X Session,
         crossed' \subseteq Session
  PROVE  TypesKept
  <1>1. DOMAIN held' = DOMAIN held
    BY Zenon
  <1>2. Running' = Running
    BY <1>1, Zenon DEF Running
  <1>3. Point' = Point
    BY <1>2, Zenon DEF Point
  <1>4. \E controls \in Installations : DOMAIN held = Listed(controls)
    BY Zenon DEF TypeOK
  <1> QED BY <1>1, <1>2, <1>3, <1>4, Zenon DEF TypeOK, TypesKept, Startups

-----------------------------------------------------------------------------
(* What a call does to the state. *)

\* What a provisioning call leaves in an engine, whole or half done.
LEMMA ProvisionEffect ==
  ASSUME TypeOK, NEW e \in DOMAIN held, NEW a \in Allocation, NEW ok \in BOOLEAN,
         ProvisionCall(e, a, ok)
  PROVE  /\ held' \in [DOMAIN held -> SUBSET Holding]
         /\ missed' \subseteq (DOMAIN held) \X Session
         /\ crossed' \subseteq Session
         /\ missed \subseteq missed' /\ crossed \subseteq crossed'
         /\ \A f \in DOMAIN held : f # e => held'[f] = held[f]
         /\ OnlySession(held'[e], e, held[e], a)
         /\ e \notin SignIn /\ a \notin live => <<e, a.id>> \in missed'
         /\ Touched(e, {a}) \subseteq crossed'
         /\ ok /\ e \notin SignIn => a \in held'[e]
  <1>1. e \in Engines /\ held[e] \in SUBSET Holding /\ held \in [DOMAIN held -> SUBSET Holding]
    BY EnginesListed, Zenon
  <1>2. PICK left \in HalfProvisioned(e, held[e], a) :
          /\ held' = [held EXCEPT ![e] = left]
          /\ ok /\ e \notin SignIn => a \in left
    <2>1. CASE ok
      BY <2>1, <1>1, ProvisionInstalls, Zenon DEF ProvisionCall
    <2>2. CASE ~ ok
      BY <2>2, Zenon DEF ProvisionCall
    <2> QED BY <2>1, <2>2, Zenon
  <1>3. OnlySession(left, e, held[e], a) /\ left \subseteq Holding
    BY <1>1, <1>2, ProvisionLeaves DEF OnlySession
  <1>4. held'[e] = left /\ \A f \in DOMAIN held : f # e => held'[f] = held[f]
    BY <1>1, <1>2, Zenon
  <1>5. held' \in [DOMAIN held -> SUBSET Holding]
    BY <1>1, <1>2, <1>3, Zenon
  <1>6. /\ missed' \subseteq (DOMAIN held) \X Session /\ missed \subseteq missed'
        /\ e \notin SignIn /\ a \notin live => <<e, a.id>> \in missed'
    BY DEF ProvisionCall, Late, TypeOK, Allocation
  <1>7. /\ crossed' \subseteq Session /\ crossed \subseteq crossed'
        /\ Touched(e, {a}) \subseteq crossed'
    <2>1. Touched(e, {a}) \subseteq Session
      BY ZenonT(30) DEF Touched, TypeOK, Allocation
    <2> QED BY <2>1, Zenon DEF ProvisionCall, TypeOK
  <1> QED BY <1>2, <1>3, <1>4, <1>5, <1>6, <1>7, Zenon

\* What a kick leaves in an engine, whole or half done.
LEMMA KickEffect ==
  ASSUME TypeOK, NEW e \in DOMAIN held, NEW gone \in SUBSET Allocation, NEW ok \in BOOLEAN,
         KickCall(e, gone, ok)
  PROVE  /\ held' \in [DOMAIN held -> SUBSET Holding]
         /\ missed' \subseteq (DOMAIN held) \X Session
         /\ crossed' \subseteq Session
         /\ missed \subseteq missed' /\ crossed \subseteq crossed'
         /\ \A f \in DOMAIN held : f # e => held'[f] = held[f]
         /\ OnlyHit(held'[e], e, held[e], gone)
         /\ ~ ok => \A a \in gone : <<e, a.id>> \in missed'
         /\ Touched(e, gone) \subseteq crossed'
         /\ ok => Readable(e, held[e]) /\ Cleared(held'[e], e, gone)
  <1>1. e \in Engines /\ held[e] \in SUBSET Holding /\ held \in [DOMAIN held -> SUBSET Holding]
    BY EnginesListed, Zenon
  <1>2. PICK left \in HalfKicked(e, held[e], gone) :
          /\ held' = [held EXCEPT ![e] = left]
          /\ ok => Readable(e, held[e]) /\ Cleared(left, e, gone)
    <2>1. CASE ok
      BY <2>1, KickRemoves, Zenon DEF KickCall
    <2>2. CASE ~ ok /\ UNCHANGED <<held, failures>> /\ ~ Readable(e, held[e])
      BY <2>2, <1>1, Zenon DEF HalfKicked
    <2>3. CASE /\ ~ ok /\ Fail
               /\ \E left \in HalfKicked(e, held[e], gone) : held' = [held EXCEPT ![e] = left]
      BY <2>3, Zenon
    <2> QED BY <2>1, <2>2, <2>3, Zenon DEF KickCall
  <1>3. OnlyHit(left, e, held[e], gone) /\ left \subseteq held[e]
    BY <1>1, <1>2, KickLeaves DEF OnlyHit
  <1>4. held'[e] = left /\ \A f \in DOMAIN held : f # e => held'[f] = held[f]
    BY <1>1, <1>2, Zenon
  <1>5. held' \in [DOMAIN held -> SUBSET Holding]
    BY <1>1, <1>2, <1>3, Zenon
  <1>6. /\ missed' \subseteq (DOMAIN held) \X Session /\ missed \subseteq missed'
        /\ ~ ok => \A a \in gone : <<e, a.id>> \in missed'
    BY DEF KickCall, Ids, TypeOK, Allocation
  <1>7. /\ crossed' \subseteq Session /\ crossed \subseteq crossed'
        /\ Touched(e, gone) \subseteq crossed'
    BY Zenon DEF KickCall, Touched, TypeOK, Allocation
  <1> QED BY <1>2, <1>3, <1>4, <1>5, <1>6, <1>7, Zenon

(* On to the next engine, or to the end of the attempt. *)
LEMMA AdvanceEffect ==
  ASSUME TypeOK, ~ ready, ~ GaveUp, NEW failed \in BOOLEAN, Advance(failed)
  PROVE  /\ startup' \in Startups({startup.wanted})
         /\ ready' \in BOOLEAN
         /\ \/ /\ startup.at < Len(Running) /\ startup'.at = startup.at + 1
               /\ startup'.failed = failed /\ ready' = ready
            \/ /\ startup.at = Len(Running)
               /\ startup'.failed = TRUE \/ startup'.at = 1
               /\ ready' = ~ failed
  <1>1. startup \in Startups(SUBSET Allocation) /\ ready = FALSE
    BY Zenon DEF TypeOK, Startups
  <1>2. PICK at \in DOMAIN Running, attempt \in 1 .. MaxAttempts,
             wanted \in SUBSET Allocation, was \in BOOLEAN :
          startup = [at |-> at, attempt |-> attempt, wanted |-> wanted, failed |-> was]
    BY <1>1, Zenon DEF Startups, GaveUp
  <1>3. DOMAIN Running = 1 .. Len(Running) /\ Len(Running) \in Nat /\ Len(Running) >= 1
    BY EnginesListed, Zenon
  <1>4. CASE at < Len(Running)
    <2>1. /\ startup' = [at |-> at + 1, attempt |-> attempt, wanted |-> wanted, failed |-> failed]
          /\ ready' = ready
      BY <1>2, <1>4, Zenon DEF Advance
    <2>2. at + 1 \in DOMAIN Running
      BY <1>3, <1>4
    <2> QED BY <1>1, <1>2, <1>4, <2>1, <2>2, Zenon DEF Startups
  <1>5. CASE ~ (at < Len(Running))
    <2>1. 1 \in DOMAIN Running /\ at = Len(Running)
      BY <1>3, <1>5
    <2>2. 1 \in 1 .. MaxAttempts /\ (attempt # MaxAttempts => attempt + 1 \in 1 .. MaxAttempts)
      BY SessionApiAssumption
    <2>3. CASE /\ ~ failed /\ ready' = TRUE
               /\ startup' = [at |-> 1, attempt |-> 1, wanted |-> wanted, failed |-> FALSE]
      BY <1>2, <2>1, <2>2, <2>3, Zenon DEF Startups
    <2>4. CASE /\ failed /\ ready' = ready
               /\ startup' = [at |-> NoEngine, attempt |-> attempt, wanted |-> wanted, failed |-> TRUE]
      BY <1>1, <1>2, <2>1, <2>4, Zenon DEF Startups
    <2>5. CASE /\ failed /\ ready' = ready /\ attempt # MaxAttempts
               /\ startup' = [at |-> 1, attempt |-> attempt + 1, wanted |-> wanted, failed |-> FALSE]
      BY <1>1, <1>2, <2>1, <2>2, <2>5, Zenon DEF Startups
    <2> QED BY <1>2, <1>5, <2>3, <2>4, <2>5, Zenon DEF Advance, Starting
  <1> QED BY <1>4, <1>5, Zenon

(* The reconciliation of one engine at startup, and what it goes on with. *)
LEMMA ReconcileEffect ==
  ASSUME TypeOK, ReconcileDataPlanes, NEW e, e = Running[startup.at]
  PROVE  /\ e \in DOMAIN held /\ ~ ready /\ ~ GaveUp
         /\ startup.at \in 1 .. Len(Running)
         /\ held' \in [DOMAIN held -> SUBSET Holding]
         /\ missed' \subseteq (DOMAIN held) \X Session
         /\ \A f \in DOMAIN held : f # e => held'[f] = held[f]
         /\ OnlyWanted(held'[e], e, held[e], startup.wanted)
         /\ \/ Advance(TRUE)
            \/ /\ Advance(startup.failed)
               /\ held'[e] = Reconciled(e, held[e], startup.wanted)
         /\ startup' \in Startups({startup.wanted}) /\ startup'.wanted = startup.wanted
         /\ ready' \in BOOLEAN
  <1>1. /\ startup \in Startups(SUBSET Allocation)
        /\ missed \subseteq (DOMAIN held) \X Session /\ ready \in BOOLEAN
    BY Zenon DEF TypeOK, Startups
  <1>9. ~ ready /\ ~ GaveUp
    BY Zenon DEF ReconcileDataPlanes
  <1>10. startup.at \in 1 .. Len(Running) /\ startup.wanted \in SUBSET Allocation /\ startup.failed \in BOOLEAN
    BY <1>1, <1>9, EnginesListed, Zenon DEF Startups, GaveUp
  <1>2. e \in DOMAIN held /\ e \in Engines /\ held[e] \in SUBSET Holding
    BY <1>10, EnginesListed, Zenon
  <1>3. /\ held \in [DOMAIN held -> SUBSET Holding]
        /\ DOMAIN Running = 1 .. Len(Running) /\ Len(Running) \in Nat /\ Len(Running) >= 1
    BY EnginesListed, Zenon
  <1>4. PICK left :
          /\ held' = [held EXCEPT ![e] = left]
          /\ \/ left = held[e] /\ Advance(TRUE)
             \/ left \in HalfReconciled(e, held[e], startup.wanted) /\ Advance(TRUE)
             \/ left = Reconciled(e, held[e], startup.wanted) /\ Advance(startup.failed)
    <2>1. CASE /\ held' = [held EXCEPT ![e] = Reconciled(e, @, startup.wanted)]
               /\ Advance(startup.failed)
      BY <2>1, Zenon
    <2>2. CASE UNCHANGED held /\ Advance(TRUE)
      <3>1. held' = [held EXCEPT ![e] = held[e]]
        BY <2>2, <1>2, <1>3, Zenon
      <3> QED BY <2>2, <3>1, Zenon
    <2>3. CASE /\ Advance(TRUE)
               /\ \E left \in HalfReconciled(e, held[e], startup.wanted) :
                    held' = [held EXCEPT ![e] = left]
      BY <2>3, Zenon
    <2> QED BY <2>1, <2>2, <2>3, Zenon DEF ReconcileDataPlanes
  <1>5. OnlyWanted(left, e, held[e], startup.wanted)
    <2>1. startup.wanted \in SUBSET Allocation
      BY <1>10, Zenon
    <2>2. CASE left = held[e]
      BY <2>2, <1>2, Zenon DEF OnlyWanted
    <2>3. CASE left \in {Reconciled(e, held[e], startup.wanted)}
                         \cup HalfReconciled(e, held[e], startup.wanted)
      BY <2>1, <2>3, <1>2, ReconcileLeaves, Zenon
    <2> QED BY <1>4, <2>2, <2>3, Zenon
  <1>6. /\ held'[e] = left /\ \A f \in DOMAIN held : f # e => held'[f] = held[f]
        /\ held' \in [DOMAIN held -> SUBSET Holding]
    <2>1. left \subseteq Holding
      BY <1>5, Zenon DEF OnlyWanted
    <2> QED BY <1>2, <1>3, <1>4, <2>1, Zenon
  <1>7. missed' \subseteq (DOMAIN held) \X Session
    <2>1. ({e} \ {"hysteria"}) \X Ids(startup.wanted \ live) \subseteq (DOMAIN held) \X Session
      BY <1>2, <1>10, Zenon DEF Ids, Allocation
    <2>2. \/ missed' = missed
          \/ missed' \subseteq missed \cup (({e} \ {"hysteria"}) \X Ids(startup.wanted \ live))
      BY Zenon DEF ReconcileDataPlanes
    <2> QED BY <1>1, <2>1, <2>2, Zenon
  <1>8. /\ startup' \in Startups({startup.wanted})
        /\ ready' \in BOOLEAN
    BY <1>4, <1>9, <1>10, AdvanceEffect, Zenon
  <1>11. startup'.wanted = startup.wanted
    BY <1>8, Zenon DEF Startups
  <1> QED BY <1>2, <1>4, <1>5, <1>6, <1>7, <1>8, <1>9, <1>10, <1>11, Zenon

-----------------------------------------------------------------------------
(* Every step keeps the types. *)

\* Ending sessions keeps the types.
LEMMA EndSessionsTypes ==
  ASSUME TypeOK, NEW p \in Process, NEW gone \in SUBSET live, EndSessions(p, gone)
  PROVE  TypesKept
  <1>1. gone \subseteq Allocation /\ 1 \in DOMAIN Running
    BY EnginesListed DEF TypeOK
  <1>2. AtKick(gone, 1, None) \in Point
    BY <1>1, Zenon DEF Point, AtKick
  <1>3. live' \subseteq Allocation /\ task' \in [Process -> Point]
    BY <1>2, Zenon DEF EndSessions, Goto, TypeOK
  <1> QED BY <1>3, TypeStep, EnginesListed, Zenon DEF EndSessions, TypeOK

\* Creating a session keeps the types.
LEMMA CreateTypes ==
  ASSUME TypeOK, NEW h \in Process, CreateSession(h)
  PROVE  TypesKept
  <1>0. PICK expired \in SUBSET Expirable : \E slot \in NextSlot(live \ expired) :
          LET new == [id |-> drawn + 1, slot |-> slot]
          IN  /\ live' = (live \ expired) \cup {new}
              /\ Goto(h, IF expired = {} THEN AtProvision(new, 1)
                                         ELSE AtKick(expired, 1, new))
    BY Zenon DEF CreateSession
  <1>1. PICK slot \in NextSlot(live \ expired) :
          LET new == [id |-> drawn + 1, slot |-> slot]
          IN  /\ live' = (live \ expired) \cup {new}
              /\ Goto(h, IF expired = {} THEN AtProvision(new, 1)
                                         ELSE AtKick(expired, 1, new))
    BY <1>0, Zenon
  <1> DEFINE new == [id |-> drawn + 1, slot |-> slot]
  <1>2. new \in Allocation
    BY <1>1, NextSlotIsFree, Zenon DEF CreateSession, Allocation
  <1>3. expired \subseteq Allocation /\ 1 \in DOMAIN Running
    BY EnginesListed DEF TypeOK, Expirable
  <1>4. live' = (live \ expired) \cup {new}
    BY <1>1, Zenon
  <1>5. Goto(h, IF expired = {} THEN AtProvision(new, 1) ELSE AtKick(expired, 1, new))
    BY <1>1, Zenon
  <1> HIDE DEF new
  <1>6. AtProvision(new, 1) \in Point /\ AtKick(expired, 1, new) \in Point
    BY <1>2, <1>3, PointBuilt, Zenon
  <1>7. live' \subseteq Allocation /\ task' \in [Process -> Point]
    BY <1>2, <1>4, <1>5, <1>6, Zenon DEF Goto, TypeOK
  <1>8. drawn' \in Nat
    BY DEF CreateSession, TypeOK
  <1> QED BY <1>7, <1>8, TypeStep, EnginesListed, Zenon DEF CreateSession, TypeOK

(* What a process has in hand when it calls an engine. *)
LEMMA InHand ==
  ASSUME TypeOK, NEW p \in Process
  PROVE  /\ task[p] \in Point
         /\ task[p].at \in {"provision", "rollback"} =>
              /\ task[p].new \in Allocation /\ task[p].i \in 1 .. Len(Running)
              /\ Running[task[p].i] \in DOMAIN held
         /\ task[p].at = "kick" =>
              /\ task[p].gone \in SUBSET Allocation /\ task[p].new \in Allocation \cup {None}
              /\ task[p].i \in 1 .. Len(Running) /\ Running[task[p].i] \in DOMAIN held
         /\ task[p].at = "refuse" => task[p].new \in Allocation
  <1>1. task[p] \in Point
    BY Zenon DEF TypeOK
  <1> QED BY <1>1, PointCases, EnginesListed, Zenon

(* Where the handlers go from one engine to the next. *)
LEMMA NextPoint ==
  ASSUME TypeOK, NEW i \in 1 .. Len(Running), NEW a \in Allocation
  PROVE  /\ i < Len(Running) => AtProvision(a, i + 1) \in Point
         /\ (IF i > 1 THEN AtRollback(a, i - 1) ELSE AtRefuse(a)) \in Point
         /\ Idle \in Point
  <1>1. Len(Running) \in Nat /\ DOMAIN Running = 1 .. Len(Running)
    BY EnginesListed, Zenon
  <1>2. /\ i < Len(Running) => i + 1 \in DOMAIN Running
        /\ i > 1 => i - 1 \in DOMAIN Running
        /\ 1 \in DOMAIN Running
    BY <1>1
  <1> QED BY <1>2, PointBuilt, Zenon

\* Where a kick goes on is a point of a handler.
LEMMA NextKick ==
  ASSUME TypeOK, NEW i \in 1 .. Len(Running),
         NEW gone \in SUBSET Allocation, NEW new \in Allocation \cup {None}
  PROVE  AfterKick(gone, i, new) \in Point
  <1>1. Len(Running) \in Nat /\ DOMAIN Running = 1 .. Len(Running)
    BY EnginesListed, Zenon
  <1>2. (i < Len(Running) => i + 1 \in DOMAIN Running) /\ 1 \in DOMAIN Running
    BY <1>1
  <1>3. i < Len(Running) => AtKick(gone, i + 1, new) \in Point
    BY <1>2, Zenon DEF Point, AtKick
  <1>4. Idle \in Point /\ (new # None => AtProvision(new, 1) \in Point)
    BY <1>2, Zenon DEF Point, AtProvision
  <1> QED BY <1>3, <1>4, Zenon DEF AfterKick

\* Provisioning, and turning away, keep the types.
LEMMA ProvisionTypes ==
  ASSUME TypeOK, NEW h \in Process, Provision(h) \/ TurnAway(h)
  PROVE  TypesKept
  <1> DEFINE a == task[h].new  i == task[h].i  e == Running[task[h].i]
  <1>1. /\ a \in Allocation /\ i \in 1 .. Len(Running) /\ e \in DOMAIN held
        /\ task \in [Process -> Point]
    BY InHand, Zenon DEF Provision, TurnAway, TypeOK
  <1>2. /\ held' \in [DOMAIN held -> SUBSET Holding]
        /\ missed' \subseteq (DOMAIN held) \X Session
        /\ crossed' \subseteq Session
    <2>1. ASSUME NEW ok \in BOOLEAN, ProvisionCall(e, a, ok)
          PROVE  /\ held' \in [DOMAIN held -> SUBSET Holding]
                 /\ missed' \subseteq (DOMAIN held) \X Session
                 /\ crossed' \subseteq Session
      BY <2>1, <1>1, ProvisionEffect, Zenon
    <2>2. \/ ProvisionCall(e, a, TRUE) \/ ProvisionCall(e, a, FALSE)
          \/ UNCHANGED <<held, missed, crossed>>
      BY Zenon DEF Provision, TurnAway
    <2> QED BY <2>1, <2>2, EnginesListed, Zenon DEF TypeOK
  <1>3. accepted' \subseteq Session
    BY <1>1, Zenon DEF Provision, TurnAway, TypeOK, Allocation
  <1>4. task' \in [Process -> Point]
    <2>1. PICK point \in Point : Goto(h, point)
      <3>1. /\ i < Len(Running) => AtProvision(a, i + 1) \in Point
            /\ (IF i > 1 THEN AtRollback(a, i - 1) ELSE AtRefuse(a)) \in Point
            /\ AtRefuse(a) \in Point /\ Idle \in Point
        BY <1>1, NextPoint, PointBuilt, EnginesListed, Zenon
      <3>2. \/ i < Len(Running) /\ Goto(h, AtProvision(a, i + 1))
            \/ Goto(h, Idle)
            \/ Goto(h, IF i > 1 THEN AtRollback(a, i - 1) ELSE AtRefuse(a))
            \/ Goto(h, AtRefuse(a))
        BY Zenon DEF Provision, TurnAway
      <3> QED BY <3>1, <3>2, Zenon
    <2> QED BY <1>1, <2>1, Zenon DEF Goto
  <1> QED BY <1>2, <1>3, <1>4, TypeStep, Zenon DEF Provision, TurnAway, TypeOK

\* Kicks and rollbacks keep the types.
LEMMA KickTypes ==
  ASSUME TypeOK, NEW p \in Process, Rollback(p) \/ KickSessions(p)
  PROVE  TypesKept
  <1> DEFINE e == Running[task[p].i]
  <1>1. task \in [Process -> Point]
    BY Zenon DEF TypeOK
  <1>2. PICK gone \in SUBSET Allocation, point \in Point :
          (\E ok \in BOOLEAN : KickCall(e, gone, ok)) /\ Goto(p, point) /\ e \in DOMAIN held
    <2>1. CASE Rollback(p)
      BY <2>1, InHand, NextPoint, Zenon DEF Rollback
    <2>2. CASE KickSessions(p)
      BY <2>2, InHand, NextKick, Zenon DEF KickSessions
    <2> QED BY <2>1, <2>2, Zenon
  <1>3. /\ held' \in [DOMAIN held -> SUBSET Holding]
        /\ missed' \subseteq (DOMAIN held) \X Session
        /\ crossed' \subseteq Session
    BY <1>2, KickEffect, Zenon
  <1>4. task' \in [Process -> Point]
    BY <1>1, <1>2, Zenon DEF Goto
  <1> QED BY <1>3, <1>4, TypeStep, Zenon DEF Rollback, KickSessions, TypeOK

\* Refusing a session keeps the types.
LEMMA RefuseTypes ==
  ASSUME TypeOK, NEW h \in Process, RefuseSession(h)
  PROVE  TypesKept
  <1>1. task[h].new \in Allocation
    BY InHand, Zenon DEF RefuseSession
  <1>2. Idle \in Point /\ AtKick({task[h].new}, 1, None) \in Point
    BY <1>1, EnginesListed DEF Point, AtKick
  <1>3. live' \subseteq Allocation /\ task' \in [Process -> Point]
    BY <1>2, Zenon DEF RefuseSession, Goto, TypeOK
  <1> QED BY <1>3, TypeStep, EnginesListed, Zenon DEF RefuseSession, TypeOK

\* Sign-ins keep the types.
LEMMA SignInTypes ==
  ASSUME TypeOK, Connect \/ \E e \in DOMAIN held \cap SignIn : Authenticate(e)
  PROVE  TypesKept
  <1>1. CASE Connect
    <2>1. PICK x \in answering :
            /\ answering' = answering \ {x}
            /\ held' = [held EXCEPT ![x[1]] = @ \cup {x[2]}]
            /\ missed' = missed \cup Late(x[1], x[2])
            /\ UNCHANGED <<live, task, ready, startup, accepted, drawn, crossed,
                           failures, cuts>>
      BY <1>1, Zenon DEF Connect
    <2>2. x[1] \in DOMAIN held /\ x[2] \in Allocation
      BY Zenon DEF TypeOK
    <2>3. x[2] \in Holding /\ x[2].id \in Session
      BY <2>2, Zenon DEF Holding, Allocation
    <2>4. held' \in [DOMAIN held -> SUBSET Holding]
      BY <2>1, <2>2, <2>3, EnginesListed, Zenon
    <2>5. missed' \subseteq (DOMAIN held) \X Session
      BY <2>1, <2>2, <2>3 DEF Late, TypeOK
    <2> QED BY <2>1, <2>4, <2>5, TypeStep, Zenon DEF TypeOK
  <1>2. CASE \E e \in DOMAIN held \cap SignIn : Authenticate(e)
    <2>1. answering' \subseteq (DOMAIN held) \X Allocation
      BY <1>2 DEF Authenticate, TypeOK
    <2> QED BY <1>2, <2>1, TypeStep, EnginesListed, Zenon DEF Authenticate, TypeOK
  <1> QED BY <1>1, <1>2, Zenon

\* The calls a kick has still to make are of engines and sessions.
LEMMA OutstandingType ==
  ASSUME TypeOK, NEW p \in Process
  PROVE  Outstanding(p) \subseteq (DOMAIN held) \X Session
  <1>1. CASE task[p].at = "kick"
    <2>1. task[p].gone \subseteq Allocation /\ task[p].i \in 1 .. Len(Running)
      BY <1>1, InHand, Zenon
    <2>2. Ids(task[p].gone) \subseteq Session
      BY <2>1, Zenon DEF Ids, Allocation
    <2>3. {Running[i] : i \in task[p].i .. Len(Running)} \subseteq DOMAIN held
      BY <2>1, EnginesListed
    <2> QED BY <1>1, <2>2, <2>3, Zenon DEF Outstanding
  <1>2. CASE task[p].at # "kick"
    BY <1>2, Zenon DEF Outstanding
  <1> QED BY <1>1, <1>2, Zenon

\* Reconciliations, restarts and dropped requests keep the types.
LEMMA StartTypes ==
  ASSUME TypeOK, ReconcileDataPlanes \/ Restart \/ \E h \in Handler : Drop(h)
  PROVE  TypesKept
  <1>1. CASE ReconcileDataPlanes
    <2>1. /\ held' \in [DOMAIN held -> SUBSET Holding]
          /\ missed' \subseteq (DOMAIN held) \X Session
          /\ startup' \in Startups({startup.wanted})
          /\ ready' \in BOOLEAN
      BY <1>1, ReconcileEffect, Zenon
    <2>2. startup' \in Startups(SUBSET Allocation)
      BY <2>1, Zenon DEF TypeOK, Startups
    <2> QED BY <1>1, <2>1, <2>2, TypeStep, Zenon DEF ReconcileDataPlanes, TypeOK
  <1>2. CASE Restart
    <2>1. PICK expired \in SUBSET live :
            /\ live' = live \ expired
            /\ missed' = missed \cup (UNION {Outstanding(p) : p \in Process})
                                \cup ({"hysteria"} \cap DOMAIN held) \X Ids(expired)
            /\ startup' = Starting(live')
      BY <1>2, Zenon DEF Restart
    <2>2. live' \subseteq Allocation /\ Ids(expired) \subseteq Session
      BY <2>1 DEF TypeOK, Ids, Allocation
    <2>3. missed' \subseteq (DOMAIN held) \X Session
      <3> DEFINE kicks   == UNION {Outstanding(p) : p \in Process}
                 signedIn == ({"hysteria"} \cap DOMAIN held) \X Ids(expired)
                 all     == (DOMAIN held) \X Session
      <3>1. kicks \subseteq all
        BY OutstandingType, Zenon
      <3>2. signedIn \subseteq all
        BY <2>2, Zenon
      <3>3. missed \subseteq all
        BY Zenon DEF TypeOK
      <3>4. missed' = missed \cup kicks \cup signedIn
        BY <2>1, Zenon
      <3> HIDE DEF kicks, signedIn, all
      <3>5. missed' \subseteq all
        BY <3>1, <3>2, <3>3, <3>4, Zenon
      <3> QED BY <3>5, Zenon DEF all
    <2>4. startup' \in Startups(SUBSET Allocation)
      <3>1. 1 \in DOMAIN Running /\ 1 \in 1 .. MaxAttempts
        BY EnginesListed, SessionApiAssumption
      <3> QED BY <2>1, <2>2, <3>1, Zenon DEF Startups, Starting
    <2>5. task' \in [Process -> Point] /\ ready' \in BOOLEAN
      BY <1>2, Zenon DEF Restart, Point
    <2> QED BY <1>2, <2>2, <2>3, <2>4, <2>5, TypeStep, EnginesListed, Zenon DEF Restart, TypeOK
  <1>3. CASE \E h \in Handler : Drop(h)
    <2>1. PICK h \in Process : Drop(h)
      BY <1>3, Zenon DEF Process
    <2>2. missed' \subseteq (DOMAIN held) \X Session
      BY <2>1, OutstandingType, Zenon DEF Drop, TypeOK
    <2>3. task' \in [Process -> Point]
      BY <2>1, Zenon DEF Drop, Goto, TypeOK, Point
    <2> QED BY <2>1, <2>2, <2>3, TypeStep, EnginesListed, Zenon DEF Drop, TypeOK
  <1> QED BY <1>1, <1>2, <1>3, Zenon

(* The steps, those that work alike together. *)
LEMMA StepCases ==
  ASSUME [Next]_vars
  PROVE  \/ \E p \in Process : CreateSession(p)
         \/ \E p \in Process : Provision(p) \/ TurnAway(p)
         \/ \E p \in Process : Rollback(p) \/ KickSessions(p)
         \/ \E p \in Process : RefuseSession(p)
         \/ \E p \in Process : \E gone \in SUBSET live : EndSessions(p, gone)
         \/ Connect \/ \E e \in DOMAIN held \cap SignIn : Authenticate(e)
         \/ ReconcileDataPlanes \/ Restart \/ \E h \in Handler : Drop(h)
         \/ UNCHANGED vars
  <1>1. \A gone \in SUBSET Expirable : gone \in SUBSET live
    BY Zenon DEF Expirable
  <1>2. \A a \in live : {a} \in SUBSET live
    BY Zenon
  <1> QED BY <1>1, <1>2, Zenon
          DEF Next, Step, Process, ChangeGrant, ReleaseSession, ExpireSessions, MeterAllowances

\* Every step keeps the types.
LEMMA TypeNext ==
  ASSUME TypeOK, [Next]_vars
  PROVE  TypesKept
  <1>1. CASE UNCHANGED vars
    BY <1>1, TypeStep, EnginesListed, Zenon DEF vars, TypeOK
  <1> QED BY <1>1, StepCases, CreateTypes, ProvisionTypes, KickTypes, RefuseTypes,
             EndSessionsTypes, SignInTypes, StartTypes, Zenon

\* The types hold when the server starts.
LEMMA TypeInit ==
  ASSUME Init
  PROVE  TypeOK
  <1>1. PICK controls \in Installations : held = [e \in Listed(controls) |-> {}]
    BY Zenon DEF Init
  <1>2. held \in [Listed(controls) -> SUBSET Holding] /\ DOMAIN held = Listed(controls)
    BY <1>1, Zenon
  <1>3. Running \in Installations
    BY <1>2, Configured, Zenon DEF Running
  <1>4. Running \in Seq(Engines) /\ Running # <<>>
    BY <1>3, SessionApiAssumption, Zenon
  <1>5. 1 \in DOMAIN Running /\ 1 \in 1 .. MaxAttempts
    BY <1>4, SessionApiAssumption
  <1> QED BY <1>2, <1>5, Zenon DEF Init, TypeOK, Point, Starting, Startups

-----------------------------------------------------------------------------
-----------------------------------------------------------------------------
(* Every allocation the server may still act on. *)

\* The sessions that some part of the state knows of.
LEMMA KnownParts ==
  ASSUME TypeOK
  PROVE  /\ Known \subseteq Allocation
         /\ live \subseteq Known /\ startup.wanted \subseteq Known
         /\ \A p \in Process : Gone(p) \subseteq Known
         /\ \A p \in Process : NewOf(p) # None => NewOf(p) \in Known
         /\ \A x \in answering : x[2] \in Known
  <1>1. \A p \in Process : Gone(p) \subseteq Allocation /\ NewOf(p) \in Allocation \cup {None}
    BY InHand, PointCases, Zenon DEF Gone, NewOf
  <1>2. live \subseteq Allocation /\ startup.wanted \subseteq Allocation
    BY Zenon DEF TypeOK, Startups
  <1>3. \A x \in answering : x[2] \in Allocation
    BY Zenon DEF TypeOK
  <1> QED BY <1>1, <1>2, <1>3, Zenon DEF Known

\* They are within a set that each of those parts is within.
LEMMA KnownFrom ==
  ASSUME NEW S, live' \subseteq S, startup'.wanted \subseteq S,
         \A p \in Process : Gone(p)' \subseteq S,
         \A p \in Process : NewOf(p)' # None => NewOf(p)' \in S,
         \A x \in answering' : x[2] \in S
  PROVE  Known' \subseteq S
  BY SessionApiAssumption, Zenon DEF Known

(* What a process has in hand after it moved. *)
LEMMA Moved ==
  ASSUME TypeOK, NEW p \in Process, NEW point, Goto(p, point)
  PROVE  /\ \A q \in Process : q # p =>
              task'[q] = task[q] /\ Gone(q)' = Gone(q) /\ NewOf(q)' = NewOf(q)
         /\ task'[p] = point
         /\ Gone(p)' = IF point.at = "kick" THEN point.gone ELSE {}
         /\ NewOf(p)' = IF point.at = "idle" THEN None ELSE point.new
  <1>1. task'[p] = point /\ \A q \in Process : q # p => task'[q] = task[q]
    BY Zenon DEF Goto, TypeOK
  <1> QED BY <1>1, Zenon DEF Gone, NewOf

(* Identifiers stay unique if nothing new appears. *)
LEMMA GivenOnceStep ==
  ASSUME TypeOK, GivenOnce, DOMAIN held' = DOMAIN held, Known' \subseteq Known, drawn' = drawn,
         accepted' \subseteq accepted \cup Ids(Known),
         \A e \in DOMAIN held : \A b \in held'[e] :
           \/ b \in held[e]
           \/ b \in Known
           \/ e = "wireguard" /\ b.slot = Unaddressed /\ \E c \in held[e] : c.id = b.id
  PROVE  GivenOnce'
  <1>1. \A a \in Known' : a.id <= drawn'
    BY Zenon DEF GivenOnce
  <1>2. \A id \in accepted' : id <= drawn'
    BY DEF GivenOnce, Ids
  <1>3. \A e \in DOMAIN held' : \A b \in held'[e] : b.id <= drawn'
    BY Zenon DEF GivenOnce
  <1>4. \A a, b \in Known' : a.id = b.id => a = b
    BY Zenon DEF GivenOnce
  <1>5. \A e \in DOMAIN held' : \A b \in held'[e] : \A a \in Known' :
          a.id = b.id => b = a \/ (e = "wireguard" /\ b.slot = Unaddressed)
    BY Zenon DEF GivenOnce
  <1> QED BY <1>1, <1>2, <1>3, <1>4, <1>5, Zenon DEF GivenOnce

(* Every step but an enrolment acts on what the server knows already. *)
Shrinks ==
    /\ live' \subseteq live /\ drawn' = drawn
    /\ startup'.wanted \subseteq startup.wanted \cup live
    /\ \A p \in Process : Gone(p)' \subseteq Gone(p) \cup (live \ live')
    /\ \A p \in Process : NewOf(p)' \in {None, NewOf(p)}
    /\ \A x \in answering' : x \in answering \/ (x[1] \in SignIn /\ x[2] \in live)

\* A step that makes no session known knows of no more than before.
LEMMA ShrinkKnown ==
  ASSUME TypeOK, Shrinks
  PROVE  Known' \subseteq Known
  <1>1. /\ live \subseteq Known /\ startup.wanted \subseteq Known
        /\ \A p \in Process : Gone(p) \subseteq Known
        /\ \A p \in Process : NewOf(p) # None => NewOf(p) \in Known
        /\ \A x \in answering : x[2] \in Known
    BY KnownParts, Zenon
  <1> QED BY <1>1, KnownFrom, ZenonT(30) DEF Shrinks

(* A process that goes on with less. *)
LEMMA MovedOn ==
  ASSUME TypeOK, NEW p \in Process, NEW point, Goto(p, point),
         \/ point = Idle
         \/ \E i : point = AtProvision(task[p].new, i) /\ task[p].at # "idle"
         \/ \E i : point = AtRollback(task[p].new, i) /\ task[p].at # "idle"
         \/ point = AtRefuse(task[p].new) /\ task[p].at # "idle"
         \/ \E i : point = AtKick(task[p].gone, i, task[p].new) /\ task[p].at = "kick"
  PROVE  /\ \A q \in Process : Gone(q)' \subseteq Gone(q)
         /\ \A q \in Process : NewOf(q)' \in {None, NewOf(q)}
  <1>1. /\ \A q \in Process : q # p => Gone(q)' = Gone(q) /\ NewOf(q)' = NewOf(q)
        /\ Gone(p)' = IF point.at = "kick" THEN point.gone ELSE {}
        /\ NewOf(p)' = IF point.at = "idle" THEN None ELSE point.new
    BY Moved, Zenon
  <1>2. CASE point = Idle
    BY <1>1, <1>2, Zenon DEF Idle
  <1>3. CASE \E i : point = AtProvision(task[p].new, i) /\ task[p].at # "idle"
    BY <1>1, <1>3 DEF AtProvision, NewOf
  <1>4. CASE \E i : point = AtRollback(task[p].new, i) /\ task[p].at # "idle"
    BY <1>1, <1>4 DEF AtRollback, NewOf
  <1>5. CASE point = AtRefuse(task[p].new) /\ task[p].at # "idle"
    BY <1>1, <1>5, Zenon DEF AtRefuse, NewOf
  <1>6. CASE \E i : point = AtKick(task[p].gone, i, task[p].new) /\ task[p].at = "kick"
    BY <1>1, <1>6 DEF AtKick, NewOf, Gone
  <1> QED BY <1>2, <1>3, <1>4, <1>5, <1>6, Zenon

\* Only the creation of a session makes one known.
LEMMA ShrinkNext ==
  ASSUME TypeOK, [Next]_vars, \A p \in Process : ~ CreateSession(p)
  PROVE  Shrinks
  <1>1. ASSUME NEW p \in Process, Provision(p) \/ TurnAway(p) PROVE Shrinks
    <2>1. /\ \A q \in Process : Gone(q)' \subseteq Gone(q)
          /\ \A q \in Process : NewOf(q)' \in {None, NewOf(q)}
      BY <1>1, MovedOn, Zenon DEF Provision, TurnAway
    <2> QED BY <1>1, <2>1, Zenon DEF Shrinks, Provision, TurnAway
  <1>2. ASSUME NEW p \in Process, Rollback(p) \/ KickSessions(p) PROVE Shrinks
    <2>1. /\ \A q \in Process : Gone(q)' \subseteq Gone(q)
          /\ \A q \in Process : NewOf(q)' \in {None, NewOf(q)}
      BY <1>2, MovedOn, Zenon DEF Rollback, KickSessions, AfterKick
    <2> QED BY <1>2, <2>1, Zenon DEF Shrinks, Rollback, KickSessions
  <1>3. ASSUME NEW p \in Process, RefuseSession(p) PROVE Shrinks
    <2>1. CASE Goto(p, Idle) /\ UNCHANGED live
      BY <1>3, <2>1, MovedOn, Zenon DEF Shrinks, RefuseSession
    <2>2. CASE /\ task[p].new \in live /\ live' = live \ {task[p].new}
               /\ Goto(p, AtKick({task[p].new}, 1, None))
      BY <1>3, <2>2, Moved DEF Shrinks, RefuseSession, AtKick
    <2> QED BY <1>3, <2>1, <2>2, Zenon DEF RefuseSession
  <1>4. ASSUME NEW p \in Process, NEW gone \in SUBSET live, EndSessions(p, gone) PROVE Shrinks
    <2>1. /\ live' = live \ gone /\ Goto(p, AtKick(gone, 1, None))
          /\ drawn' = drawn /\ startup' = startup /\ answering' = answering
      BY <1>4, Zenon DEF EndSessions
    <2> DEFINE point == AtKick(gone, 1, None)
    <2>2. point.at = "kick" /\ point.gone = gone /\ point.new = None
      BY Zenon DEF AtKick
    <2> HIDE DEF point
    <2>3. /\ \A q \in Process : q # p => Gone(q)' = Gone(q) /\ NewOf(q)' = NewOf(q)
          /\ Gone(p)' = IF point.at = "kick" THEN point.gone ELSE {}
          /\ NewOf(p)' = IF point.at = "idle" THEN None ELSE point.new
      BY <2>1, Moved, Zenon DEF point
    <2>4. Gone(p)' = gone /\ NewOf(p)' = None
      BY <2>2, <2>3, Zenon
    <2>5. gone \subseteq live \ live'
      BY <2>1, Zenon
    <2>6. \A q \in Process : /\ Gone(q)' \subseteq Gone(q) \cup (live \ live')
                             /\ NewOf(q)' \in {None, NewOf(q)}
      BY <2>3, <2>4, <2>5, Zenon
    <2> QED BY <2>1, <2>6, Zenon DEF Shrinks
  <1>5. CASE Connect
    BY <1>5, Zenon DEF Connect, Shrinks, Gone, NewOf
  <1>6. CASE \E e \in DOMAIN held \cap SignIn : Authenticate(e)
    BY <1>6 DEF Authenticate, Shrinks, Gone, NewOf
  <1>7. CASE ReconcileDataPlanes
    <2>1. startup'.wanted = startup.wanted
      BY <1>7, ReconcileEffect, Zenon
    <2> QED BY <1>7, <2>1, Zenon DEF ReconcileDataPlanes, Shrinks, Gone, NewOf
  <1>8. CASE Restart
    BY <1>8 DEF Restart, Starting, Shrinks, Gone, NewOf, Idle
  <1>9. CASE \E h \in Handler : Drop(h)
    BY <1>9, MovedOn, Zenon DEF Drop, Shrinks, Process
  <1>10. CASE UNCHANGED vars
    BY <1>10, Zenon DEF vars, Shrinks, Gone, NewOf
  <1> QED BY <1>1, <1>2, <1>3, <1>4, <1>5, <1>6, <1>7, <1>8, <1>9, <1>10, StepCases, Zenon

(* What the engines hold after a step was held before or is known. *)
LEMMA HeldNext ==
  ASSUME TypeOK, [Next]_vars, NEW e \in DOMAIN held, NEW b \in held'[e]
  PROVE  \/ b \in held[e]
         \/ b \in Known
         \/ e = "wireguard" /\ b.slot = Unaddressed /\ \E c \in held[e] : c.id = b.id
  <1> DEFINE Goal == \/ b \in held[e]
                     \/ b \in Known
                     \/ e = "wireguard" /\ b.slot = Unaddressed /\ \E c \in held[e] : c.id = b.id
  <1>1. ASSUME NEW p \in Process, Provision(p) \/ TurnAway(p) PROVE Goal
    <2> DEFINE a == task[p].new  f == Running[task[p].i]
    <2>1. a \in Allocation /\ f \in DOMAIN held
      BY <1>1, InHand, Zenon DEF Provision, TurnAway
    <2>2. a \in Known
      BY <1>1, <2>1, Zenon DEF Known, NewOf, Provision, TurnAway
    <2>3. CASE UNCHANGED held
      BY <2>3, Zenon
    <2>4. ASSUME NEW ok \in BOOLEAN, ProvisionCall(f, a, ok) PROVE Goal
      <3>1. /\ \A g \in DOMAIN held : g # f => held'[g] = held[g]
            /\ OnlySession(held'[f], f, held[f], a)
        BY <2>1, <2>4, ProvisionEffect, ZenonT(30)
      <3> HIDE DEF a, f
      <3>2. CASE e = f
        <4>1. OnlySession(held'[e], e, held[e], a)
          BY <3>1, <3>2, Zenon
        <4> QED BY <2>2, <4>1, Zenon DEF OnlySession
      <3>3. CASE e # f
        BY <3>1, <3>3, Zenon
      <3> QED BY <3>2, <3>3, Zenon
    <2> QED BY <1>1, <2>3, <2>4, Zenon DEF Provision, TurnAway
  <1>2. ASSUME NEW p \in Process, Rollback(p) \/ KickSessions(p) PROVE Goal
    <2> DEFINE f == Running[task[p].i]
    <2>1. PICK gone \in SUBSET Allocation, ok \in BOOLEAN :
            KickCall(f, gone, ok) /\ f \in DOMAIN held
      BY <1>2, InHand, Zenon DEF Rollback, KickSessions
    <2> QED BY <2>1, KickEffect, Zenon DEF OnlyHit
  <1>3. CASE Connect
    <2>1. PICK x \in answering : held' = [held EXCEPT ![x[1]] = @ \cup {x[2]}]
      BY <1>3, Zenon DEF Connect
    <2>2. x[2] \in Known
      BY KnownParts, Zenon
    <2> QED BY <2>1, <2>2, EnginesListed, Zenon
  <1>4. CASE ReconcileDataPlanes
    <2> DEFINE f == Running[startup.at]
    <2>1. /\ \A g \in DOMAIN held : g # f => held'[g] = held[g]
          /\ OnlyWanted(held'[f], f, held[f], startup.wanted)
      BY <1>4, ReconcileEffect, Zenon
    <2>2. startup.wanted \subseteq Known
      BY KnownParts, Zenon
    <2>3. CASE e # f
      BY <2>1, <2>3, Zenon
    <2>4. CASE e = f
      <3>1. OnlyWanted(held'[e], e, held[e], startup.wanted)
        BY <2>1, <2>4, Zenon
      <3> QED BY <2>2, <3>1, Zenon DEF OnlyWanted
    <2> QED BY <2>3, <2>4, Zenon
  <1>5. CASE UNCHANGED held
    BY <1>5, Zenon
  <1>6. \/ \E p \in Process : Provision(p) \/ TurnAway(p) \/ Rollback(p) \/ KickSessions(p)
        \/ Connect \/ ReconcileDataPlanes \/ UNCHANGED held
    BY StepCases, Zenon DEF CreateSession, RefuseSession, EndSessions, Authenticate, Restart, Drop, vars
  <1> QED BY <1>1, <1>2, <1>3, <1>4, <1>5, <1>6, Zenon

(* What an enrolment adds. *)
LEMMA Enrolled ==
  ASSUME TypeOK, NEW h \in Process, CreateSession(h)
  PROVE  \E new \in Allocation, expired \in SUBSET live :
           /\ new.id = drawn + 1 /\ drawn' = drawn + 1
           /\ new.slot \notin Slots(live \ expired)
           /\ live' = (live \ expired) \cup {new}
           /\ \/ expired = {} /\ Goto(h, AtProvision(new, 1))
              \/ Goto(h, AtKick(expired, 1, new))
           /\ expired \cap Enrolling = {}
           /\ ready /\ task[h] = Idle
           /\ UNCHANGED <<held, answering, ready, startup, accepted, missed, crossed>>
  <1>0. PICK expired \in SUBSET Expirable : \E slot \in NextSlot(live \ expired) :
          LET new == [id |-> drawn + 1, slot |-> slot]
          IN  /\ live' = (live \ expired) \cup {new}
              /\ Goto(h, IF expired = {} THEN AtProvision(new, 1)
                                         ELSE AtKick(expired, 1, new))
    BY Zenon DEF CreateSession
  <1>1. PICK slot \in NextSlot(live \ expired) :
          LET new == [id |-> drawn + 1, slot |-> slot]
          IN  /\ live' = (live \ expired) \cup {new}
              /\ Goto(h, IF expired = {} THEN AtProvision(new, 1)
                                         ELSE AtKick(expired, 1, new))
    BY <1>0, Zenon
  <1> DEFINE new == [id |-> drawn + 1, slot |-> slot]
  <1>2. new \in Allocation /\ new.id = drawn + 1 /\ new.slot \notin Slots(live \ expired)
    BY <1>1, NextSlotIsFree, Zenon DEF CreateSession, Allocation
  <1>3. /\ live' = (live \ expired) \cup {new}
        /\ Goto(h, IF expired = {} THEN AtProvision(new, 1) ELSE AtKick(expired, 1, new))
    BY <1>1, Zenon
  <1>4. expired \in SUBSET live /\ expired \cap Enrolling = {}
    BY Zenon DEF Expirable
  <1> HIDE DEF new
  <1>5. (expired = {} /\ Goto(h, AtProvision(new, 1))) \/ Goto(h, AtKick(expired, 1, new))
    BY <1>3, Zenon
  <1>6. /\ drawn' = drawn + 1 /\ ready /\ task[h] = Idle
        /\ UNCHANGED <<held, answering, ready, startup, accepted, missed, crossed>>
    BY Zenon DEF CreateSession
  <1> QED BY <1>2, <1>3, <1>4, <1>5, <1>6, Zenon

\* What the handler of a creation, and no other, knows of afterwards.
LEMMA EnrolledHas ==
  ASSUME TypeOK, NEW h \in Process, NEW new \in Allocation, NEW expired \in SUBSET live,
         (expired = {} /\ Goto(h, AtProvision(new, 1))) \/ Goto(h, AtKick(expired, 1, new))
  PROVE  /\ \A q \in Process : q # h =>
              task'[q] = task[q] /\ Gone(q)' = Gone(q) /\ NewOf(q)' = NewOf(q)
         /\ Gone(h)' = expired /\ NewOf(h)' = new
         /\ task'[h].at = "provision" => task'[h].i = 1
         /\ task'[h] \in {AtProvision(new, 1), AtKick(expired, 1, new)}
  <1>1. CASE expired = {} /\ Goto(h, AtProvision(new, 1))
    BY <1>1, Moved DEF AtProvision
  <1>2. CASE Goto(h, AtKick(expired, 1, new))
    BY <1>2, Moved DEF AtKick
  <1> QED BY <1>1, <1>2, Zenon

-----------------------------------------------------------------------------
(* Identifiers, the startup list, and tasks. *)

\* No two sessions ever get the same number.
LEMMA GivenOnceNext ==
  ASSUME TypeOK, GivenOnce, [Next]_vars, TypesKept
  PROVE  GivenOnce'
  <1>1. CASE \A p \in Process : ~ CreateSession(p)
    <2>1. Shrinks
      BY <1>1, ShrinkNext, Zenon
    <2>2. Known' \subseteq Known /\ drawn' = drawn
      BY <2>1, ShrinkKnown, Zenon DEF Shrinks
    <2>3. accepted' \subseteq accepted \cup Ids(Known)
      <3>1. ASSUME NEW p \in Process, Provision(p) PROVE accepted' \subseteq accepted \cup Ids(Known)
        <4>1. task[p].new \in Allocation
          BY <3>1, InHand, Zenon DEF Provision
        <4>2. task[p].new \in Known
          BY <3>1, <4>1, Zenon DEF Known, NewOf, Provision
        <4> QED BY <3>1, <4>2, Zenon DEF Provision, Ids
      <3>2. (\E p \in Process : Provision(p)) \/ accepted' = accepted
        BY <1>1, StepCases, Zenon DEF TurnAway, Rollback, KickSessions, RefuseSession, EndSessions,
                               Connect, Authenticate, ReconcileDataPlanes, Restart, Drop, vars
      <3> QED BY <3>1, <3>2, Zenon
    <2>4. \A e \in DOMAIN held : \A b \in held'[e] :
            \/ b \in held[e]
            \/ b \in Known
            \/ e = "wireguard" /\ b.slot = Unaddressed /\ \E c \in held[e] : c.id = b.id
      BY HeldNext, Zenon
    <2> QED BY <2>2, <2>3, <2>4, GivenOnceStep, Zenon DEF TypesKept
  <1>2. ASSUME NEW h \in Process, CreateSession(h) PROVE GivenOnce'
    <2>1. PICK new \in Allocation, expired \in SUBSET live :
            /\ new.id = drawn + 1 /\ drawn' = drawn + 1
            /\ live' = (live \ expired) \cup {new}
            /\ (expired = {} /\ Goto(h, AtProvision(new, 1))) \/ Goto(h, AtKick(expired, 1, new))
            /\ UNCHANGED <<held, answering, ready, startup, accepted, missed, crossed>>
      BY <1>2, Enrolled, Zenon
    <2>2. /\ live \subseteq Known /\ startup.wanted \subseteq Known /\ Known \subseteq Allocation
          /\ \A p \in Process : Gone(p) \subseteq Known
          /\ \A p \in Process : NewOf(p) # None => NewOf(p) \in Known
          /\ \A x \in answering : x[2] \in Known
      BY KnownParts, Zenon
    <2>3. /\ \A q \in Process : q # h => Gone(q)' = Gone(q) /\ NewOf(q)' = NewOf(q)
          /\ Gone(h)' = expired /\ NewOf(h)' = new
      BY <2>1, EnrolledHas, Zenon
    <2>4. Known' \subseteq Known \cup {new}
      <3> DEFINE S == Known \cup {new}
      <3>1. /\ live' \subseteq S /\ startup'.wanted \subseteq S
            /\ \A x \in answering' : x[2] \in S
        BY <2>1, <2>2, Zenon
      <3>2. /\ \A p \in Process : Gone(p)' \subseteq S
            /\ \A p \in Process : NewOf(p)' # None => NewOf(p)' \in S
        BY <2>2, <2>3, Zenon
      <3> HIDE DEF S
      <3>3. Known' \subseteq S
        BY <3>1, <3>2, KnownFrom, Zenon
      <3> QED BY <3>3, Zenon DEF S
    <2>5. drawn \in Nat /\ (\A a \in Known : a.id \in Nat) /\ accepted \subseteq Nat
      BY <2>2, DataPlaneAssumption, Zenon DEF TypeOK, Allocation
    <2>6. \A e \in DOMAIN held : \A b \in held[e] : b.id \in Nat
      BY EnginesListed, DataPlaneAssumption DEF Holding
    <2>7. /\ \A a \in Known' : a.id <= drawn'
          /\ \A a, b \in Known' : a.id = b.id => a = b
      BY <2>1, <2>4, <2>5 DEF GivenOnce
    <2>8. /\ \A id \in accepted' : id <= drawn'
          /\ \A e \in DOMAIN held' : \A b \in held'[e] : b.id <= drawn'
      BY <2>1, <2>5, <2>6 DEF GivenOnce
    <2>9. \A e \in DOMAIN held' : \A b \in held'[e] : \A a \in Known' :
            a.id = b.id => b = a \/ (e = "wireguard" /\ b.slot = Unaddressed)
      BY <2>1, <2>4, <2>5, <2>6 DEF GivenOnce
    <2> QED BY <2>7, <2>8, <2>9, Zenon DEF GivenOnce
  <1> QED BY <1>1, <1>2, Zenon

\* A lease of before the start is among those being reconciled.
LEMMA StartupNext ==
  ASSUME TypeOK, StartupCoversLeases, [Next]_vars
  PROVE  StartupCoversLeases'
  <1>1. CASE \E p \in Process : CreateSession(p)
    BY <1>1 DEF CreateSession, StartupCoversLeases
  <1>2. CASE Restart
    BY <1>2 DEF Restart, Starting, StartupCoversLeases
  <1>3. CASE ReconcileDataPlanes
    <2>1. startup'.wanted = startup.wanted /\ ~ ready
      BY <1>3, ReconcileEffect, Zenon
    <2> QED BY <1>3, <2>1, Zenon DEF ReconcileDataPlanes, StartupCoversLeases
  <1>4. CASE live' \subseteq live /\ UNCHANGED <<ready, startup>>
    BY <1>4, Zenon DEF StartupCoversLeases
  <1> QED BY <1>1, <1>2, <1>3, <1>4, StepCases, Zenon
          DEF Provision, TurnAway, Rollback, KickSessions, RefuseSession, EndSessions,
              Connect, Authenticate, Drop, vars

(* Tasks stay apart if nothing new appears and nothing is accepted. *)
LEMMA TasksApartStep ==
  ASSUME TasksApart, Shrinks, ready' = ready, accepted' = accepted
  PROVE  TasksApart'
  <1>1. \A p \in Process : Gone(p)' \cap live' = {}
    BY Zenon DEF TasksApart, Shrinks
  <1>2. \A p \in Process : NewOf(p)' # None =>
          /\ ready'
          /\ NewOf(p)'.id \notin accepted'
          /\ \A q \in Process : q # p /\ NewOf(q)' # None => NewOf(q)' # NewOf(p)'
    BY Zenon DEF TasksApart, Shrinks
  <1>3. \A x \in answering' : x[1] \in SignIn
    BY Zenon DEF TasksApart, Shrinks
  <1> QED BY <1>1, <1>2, <1>3, Zenon DEF TasksApart

\* No two handlers ever work for the same new session.
LEMMA TasksApartNext ==
  ASSUME TypeOK, GivenOnce, TasksApart, [Next]_vars
  PROVE  TasksApart'
  <1>1. ASSUME NEW h \in Process, CreateSession(h) PROVE TasksApart'
    <2>1. PICK new \in Allocation, expired \in SUBSET live :
            /\ new.id = drawn + 1
            /\ live' = (live \ expired) \cup {new}
            /\ (expired = {} /\ Goto(h, AtProvision(new, 1))) \/ Goto(h, AtKick(expired, 1, new))
            /\ ready
            /\ UNCHANGED <<held, answering, ready, startup, accepted, missed, crossed>>
      BY <1>1, Enrolled, Zenon
    <2>2. /\ \A q \in Process : q # h => Gone(q)' = Gone(q) /\ NewOf(q)' = NewOf(q)
          /\ Gone(h)' = expired /\ NewOf(h)' = new
      BY <2>1, EnrolledHas, Zenon
    <2>3. drawn \in Nat /\ new \notin Known /\ new.id \notin accepted
      <3>1. drawn \in Nat
        BY Zenon DEF TypeOK
      <3> QED BY <2>1, <3>1 DEF GivenOnce
    <2>4. \A p \in Process : Gone(p)' \cap live' = {}
      BY <2>1, <2>2, <2>3, KnownParts DEF TasksApart
    <2>5. \A p \in Process : NewOf(p)' # None =>
            /\ ready'
            /\ NewOf(p)'.id \notin accepted'
            /\ \A q \in Process : q # p /\ NewOf(q)' # None => NewOf(q)' # NewOf(p)'
      BY <2>1, <2>2, <2>3, KnownParts, Zenon DEF TasksApart
    <2>6. \A x \in answering' : x[1] \in SignIn
      BY <2>1, Zenon DEF TasksApart
    <2> QED BY <2>4, <2>5, <2>6, Zenon DEF TasksApart
  <1>2. ASSUME NEW h \in Process, Provision(h), Goto(h, Idle),
               accepted' = accepted \cup {task[h].new.id}
        PROVE  TasksApart'
    <2>1. /\ \A q \in Process : q # h => Gone(q)' = Gone(q) /\ NewOf(q)' = NewOf(q)
          /\ Gone(h)' = {} /\ NewOf(h)' = None
      BY <1>2, Moved DEF Idle
    <2>2. NewOf(h) = task[h].new /\ NewOf(h) # None
      BY <1>2, InHand, SessionApiAssumption, Zenon DEF Provision, NewOf
    <2>3. \A q \in Process : q # h /\ NewOf(q) # None => NewOf(q).id # NewOf(h).id
      BY <2>2, KnownParts, Zenon DEF TasksApart, GivenOnce
    <2>4. live' = live /\ ready' = ready /\ answering' = answering
      BY <1>2, Zenon DEF Provision
    <2>5. \A p \in Process : Gone(p)' \cap live' = {}
      BY <2>1, <2>4, Zenon DEF TasksApart
    <2>6. \A p \in Process : NewOf(p)' # None =>
            /\ ready'
            /\ NewOf(p)'.id \notin accepted'
            /\ \A q \in Process : q # p /\ NewOf(q)' # None => NewOf(q)' # NewOf(p)'
      BY <1>2, <2>1, <2>2, <2>3, <2>4, Zenon DEF TasksApart
    <2> QED BY <2>4, <2>5, <2>6, Zenon DEF TasksApart
  <1>3. CASE ReconcileDataPlanes
    BY <1>3, Zenon DEF ReconcileDataPlanes, TasksApart, Gone, NewOf
  <1>4. CASE Restart
    BY <1>4, Zenon DEF Restart, TasksApart, Gone, NewOf, Idle
  <1>5. CASE Shrinks /\ UNCHANGED <<ready, accepted>>
    BY <1>5, TasksApartStep, Zenon
  <1>6. CASE \A p \in Process : ~ CreateSession(p)
    <2>1. Shrinks
      BY <1>6, ShrinkNext, Zenon
    <2>2. \/ \E h \in Process : /\ Provision(h) /\ Goto(h, Idle)
                                /\ accepted' = accepted \cup {task[h].new.id}
          \/ ReconcileDataPlanes \/ Restart \/ UNCHANGED <<ready, accepted>>
      BY <1>6, StepCases, Zenon
         DEF Provision, TurnAway, Rollback, KickSessions, RefuseSession, EndSessions,
             Connect, Authenticate, Drop, vars
    <2> QED BY <1>2, <1>3, <1>4, <1>5, <2>1, <2>2, Zenon
  <1> QED BY <1>1, <1>6, Zenon

-----------------------------------------------------------------------------
(* Access. *)

StillServed(e, a) ==
    e \in SignIn \/ a \in held'[e] \/ (e \in BySlot /\ a.id \in crossed')

(* The client of a has its manifest, or the engines are about to get a. *)
Counts(a) ==
    a.id \in accepted \/ \E q \in Process : task'[q].at = "provision" /\ task'[q].new = a

(* Nobody loses access if no lease that counts loses an engine. *)
LEMMA ServedStep ==
  ASSUME TypeOK, TypesKept, AcceptedKeepsAccess, ServedSoFar, UNCHANGED <<ready, startup>>,
         \A a \in live' : a.id \in accepted' => a \in live /\ a.id \in accepted,
         \A q \in Process : task'[q].at = "provision" =>
           \/ task'[q].i = 1
           \/ task'[q] = task[q] /\ (task[q].new \in live' => task[q].new \in live),
         \A a \in live' \cap live : \A e \in DOMAIN held :
           Served(e, a) /\ Counts(a) => StillServed(e, a)
  PROVE  AcceptedKeepsAccess' /\ ServedSoFar'
  <1>1. DOMAIN held' = DOMAIN held /\ Running' = Running
    BY Zenon DEF TypesKept
  <1>2. AcceptedKeepsAccess'
    BY <1>1, Zenon DEF AcceptedKeepsAccess, Served, StillServed, Counts
  <1>3. ASSUME NEW q \in Process, task'[q].at = "provision", task'[q].new \in live',
               NEW j \in 1 .. task'[q].i - 1
        PROVE  StillServed(Running[j], task'[q].new)
    <2>1. CASE task'[q].i = 1
      BY <1>3, <2>1
    <2>2. CASE task'[q] = task[q] /\ (task[q].new \in live' => task[q].new \in live)
      <3>1. Served(Running[j], task[q].new)
        BY <1>3, <2>2, Zenon DEF ServedSoFar
      <3>2. Running[j] \in DOMAIN held
        BY <1>3, <2>2, InHand, EnginesListed
      <3> QED BY <1>1, <1>3, <2>2, <3>1, <3>2, Zenon DEF Counts
    <2> QED BY <1>3, <2>1, <2>2, Zenon
  <1>4. ASSUME ~ ready, ~ startup.failed, NEW a \in live', a.id \in accepted',
               NEW j \in 1 .. startup.at - 1
        PROVE  StillServed(Running[j], a)
    <2>1. Served(Running[j], a)
      BY <1>4, Zenon DEF ServedSoFar, Served, StillServed
    <2>2. Running[j] \in DOMAIN held
      BY <1>4, EnginesListed DEF TypeOK, Startups, NoEngine
    <2> QED BY <1>1, <1>4, <2>1, <2>2, Zenon DEF Counts
  <1> QED BY <1>1, <1>2, <1>3, <1>4, Zenon DEF ServedSoFar, Served, StillServed

(* A kick takes nothing from a lease it is not for, unless by its slot. *)
LEMMA KickServes ==
  ASSUME TypeOK, GivenOnce, NEW f \in DOMAIN held, NEW gone \in SUBSET Known,
         NEW ok \in BOOLEAN, KickCall(f, gone, ok),
         NEW a \in live \ gone, NEW e \in DOMAIN held, Served(e, a)
  PROVE  StillServed(e, a)
  <1>0. a \in Known
    BY KnownParts, Zenon
  <1>1. gone \in SUBSET Allocation
    BY KnownParts, Zenon
  <1>2. /\ crossed \subseteq crossed'
        /\ \A g \in DOMAIN held : g # f => held'[g] = held[g]
        /\ OnlyHit(held'[f], f, held[f], gone)
        /\ Touched(f, gone) \subseteq crossed'
    BY <1>1, KickEffect, Zenon
  <1>3. CASE e \in SignIn \/ (e \in BySlot /\ a.id \in crossed)
    BY <1>2, <1>3, Zenon DEF StillServed
  <1>4. CASE a \in held[e] /\ e # f
    BY <1>2, <1>4, Zenon DEF StillServed
  <1>5. CASE a \in held[e] /\ e = f
    <2>1. CASE a \in held'[e]
      BY <2>1, Zenon DEF StillServed
    <2>2. ASSUME NEW g \in gone, Hits(f, g, a) PROVE StillServed(e, a)
      <3>1. CASE f \in BySlot
        BY <1>2, <1>5, <2>2, <3>1, Zenon DEF Hits, StillServed, Touched, Slots
      <3>2. CASE f \notin BySlot
        <4>1. g.id = a.id
          BY <2>2, <3>2, Zenon DEF Hits
        <4>2. g = a
          BY <1>0, <4>1, Zenon DEF GivenOnce
        <4> QED BY <4>2, Zenon
      <3> QED BY <3>1, <3>2, Zenon
    <2> QED BY <1>2, <1>5, <2>1, <2>2, Zenon DEF OnlyHit
  <1> QED BY <1>3, <1>4, <1>5, Zenon DEF Served

(* Nor does a provisioning, and a successful one gives access to its own. *)
LEMMA ProvisionServes ==
  ASSUME TypeOK, NEW f \in DOMAIN held, NEW new \in Allocation,
         NEW ok \in BOOLEAN, ProvisionCall(f, new, ok),
         NEW a \in live, a # new \/ ok, NEW e \in DOMAIN held,
         Served(e, a) \/ (a = new /\ e = f)
  PROVE  StillServed(e, a)
  <1>1. /\ crossed \subseteq crossed'
        /\ \A g \in DOMAIN held : g # f => held'[g] = held[g]
        /\ OnlySession(held'[f], f, held[f], new)
        /\ Touched(f, {new}) \subseteq crossed'
        /\ ok /\ f \notin SignIn => new \in held'[f]
    BY ProvisionEffect, Zenon
  <1>2. CASE e \in SignIn \/ (e \in BySlot /\ a.id \in crossed)
    BY <1>1, <1>2, Zenon DEF StillServed
  <1>3. CASE a \in held[e] /\ e # f
    BY <1>1, <1>3, Zenon DEF StillServed
  <1>4. CASE e = f /\ a = new
    BY <1>1, <1>4, Zenon DEF StillServed
  <1>5. CASE a \in held[e] /\ e = f /\ a # new
    <2>1. a \in held'[f] \/ (f \in BySlot /\ a.slot = new.slot)
      BY <1>1, <1>5, Zenon DEF OnlySession
    <2> QED BY <1>1, <1>5, <2>1, Zenon DEF StillServed, Touched, Slots
  <1> QED BY <1>2, <1>3, <1>4, <1>5, Zenon DEF Served

(* An enrolment that has failed no longer counts. *)
LEMMA NotCounted ==
  ASSUME TypeOK, TasksApart, NEW p \in Process, NewOf(p) # None,
         task'[p].at # "provision", \A q \in Process : q # p => task'[q] = task[q]
  PROVE  ~ Counts(NewOf(p))
  <1>1. ASSUME NEW q \in Process, task'[q].at = "provision"
        PROVE  task'[q].new # NewOf(p)
    <2>1. q # p /\ task[q].at = "provision" /\ task'[q] = task[q]
      BY <1>1, Zenon
    <2>2. NewOf(q) = task[q].new /\ NewOf(q) # None
      BY <2>1, InHand, SessionApiAssumption, Zenon DEF NewOf
    <2> QED BY <2>1, <2>2, Zenon DEF TasksApart
  <1> QED BY <1>1, Zenon DEF Counts, TasksApart

\* A kick or a rollback takes nothing from a session that is served.
LEMMA KickAccess ==
  ASSUME AccessInv, TypesKept, NEW p \in Process, Rollback(p) \/ KickSessions(p)
  PROVE  AcceptedKeepsAccess' /\ ServedSoFar'
  <1>1. TypeOK /\ GivenOnce /\ TasksApart /\ AcceptedKeepsAccess /\ ServedSoFar
    BY Zenon DEF AccessInv
  <1> DEFINE f == Running[task[p].i]
  <1>2. UNCHANGED <<live, ready, startup, accepted>>
    BY Zenon DEF Rollback, KickSessions
  <1>3. PICK gone \in SUBSET Known :
          /\ \E ok \in BOOLEAN : KickCall(f, gone, ok)
          /\ f \in DOMAIN held
          /\ \A a \in gone \cap live : ~ Counts(a)
          /\ task'[p].at = "provision" => task'[p].i = 1
    <2>1. CASE Rollback(p)
      <3>1. task[p].new \in Allocation /\ f \in DOMAIN held
        BY <1>1, <2>1, InHand, Zenon DEF Rollback
      <3>2. NewOf(p) = task[p].new /\ NewOf(p) # None /\ {task[p].new} \subseteq Known
        BY <2>1, <3>1, SessionApiAssumption, Zenon DEF Rollback, NewOf, Known
      <3>3. task'[p].at \in {"rollback", "refuse"} /\ \A q \in Process : q # p => task'[q] = task[q]
        BY <1>1, <2>1, Moved DEF Rollback, AtRollback, AtRefuse
      <3>4. ~ Counts(task[p].new)
        BY <1>1, <3>2, <3>3, NotCounted, Zenon
      <3> QED BY <2>1, <3>1, <3>2, <3>3, <3>4 DEF Rollback
    <2>2. CASE KickSessions(p)
      <3>1. task[p].gone = Gone(p) /\ f \in DOMAIN held
        BY <1>1, <2>2, InHand, Zenon DEF KickSessions, Gone
      <3>2. Gone(p) \subseteq Known /\ Gone(p) \cap live = {}
        BY <1>1, KnownParts, Zenon DEF TasksApart
      <3>3. task'[p] = AfterKick(task[p].gone, task[p].i, task[p].new)
        BY <1>1, <2>2, Moved, Zenon DEF KickSessions
      <3>4. task'[p].at = "provision" => task'[p].i = 1
        BY <3>3 DEF AfterKick, AtKick, AtProvision, Idle
      <3> QED BY <2>2, <3>1, <3>2, <3>4, Zenon DEF KickSessions
    <2> QED BY <2>1, <2>2, Zenon
  <1>4. \A q \in Process : task'[q].at = "provision" => task'[q].i = 1 \/ task'[q] = task[q]
    <2>1. \A q \in Process : q # p => task'[q] = task[q]
      BY <1>1, Moved, Zenon DEF Rollback, KickSessions
    <2> QED BY <1>3, <2>1, Zenon
  <1>5. \A a \in live : \A e \in DOMAIN held : Served(e, a) /\ Counts(a) => StillServed(e, a)
    BY <1>1, <1>3, KickServes, Zenon
  <1> QED BY <1>1, <1>2, <1>4, <1>5, ServedStep, Zenon

\* Provisioning serves its session and takes nothing from another.
LEMMA ProvisionAccess ==
  ASSUME AccessInv, TypesKept, NEW h \in Process, Provision(h) \/ TurnAway(h)
  PROVE  AcceptedKeepsAccess' /\ ServedSoFar'
  <1>1. TypeOK /\ GivenOnce /\ TasksApart /\ AcceptedKeepsAccess /\ ServedSoFar
    BY Zenon DEF AccessInv
  <1> DEFINE a == task[h].new  i == task[h].i  f == Running[task[h].i]
  <1>2. a \in Allocation /\ i \in 1 .. Len(Running) /\ f \in DOMAIN held
    BY <1>1, InHand, Zenon DEF Provision, TurnAway
  <1>3. task[h].at = "provision" /\ UNCHANGED <<live, ready, startup>>
    BY Zenon DEF Provision, TurnAway
  <1>4. a = NewOf(h) /\ a # None /\ a \in Known
    BY <1>2, <1>3, SessionApiAssumption, Zenon DEF NewOf, Known
  <1>5. ready /\ a.id \notin accepted
    BY <1>1, <1>4, Zenon DEF TasksApart
  <1>6. \A q \in Process : q # h => task'[q] = task[q]
    BY <1>1, Moved, Zenon DEF Provision, TurnAway
  <1>7. CASE accepted' = accepted /\ task'[h].at # "provision"
    <2>1. ~ Counts(a)
      BY <1>1, <1>4, <1>6, <1>7, NotCounted, Zenon
    <2>2. ASSUME NEW c \in live, NEW e \in DOMAIN held, Served(e, c), Counts(c)
          PROVE  StillServed(e, c)
      <3>1. c # a
        BY <2>1, <2>2, Zenon
      <3>2. CASE UNCHANGED <<held, crossed>>
        BY <2>2, <3>2, Zenon DEF Served, StillServed
      <3>3. ASSUME NEW ok \in BOOLEAN, ProvisionCall(f, a, ok) PROVE StillServed(e, c)
        BY <1>1, <1>2, <2>2, <3>1, <3>3, ProvisionServes, Zenon
      <3> QED BY <3>2, <3>3, Zenon DEF Provision, TurnAway
    <2> QED BY <1>1, <1>3, <1>6, <1>7, <2>2, ServedStep, Zenon
  <1>8. CASE Provision(h) /\ ProvisionCall(f, a, TRUE)
    <2>1. \A c \in live, e \in DOMAIN held :
            Served(e, c) \/ (c = a /\ e = f) => StillServed(e, c)
      BY <1>1, <1>2, <1>8, ProvisionServes, Zenon
    <2>2. a \in live => \A j \in 1 .. i : StillServed(Running[j], a)
      <3>1. a \in live => \A j \in 1 .. i - 1 : Served(Running[j], a)
        BY <1>1, <1>3, Zenon DEF ServedSoFar
      <3>2. \A j \in 1 .. i : Running[j] \in DOMAIN held /\ (j = i \/ j \in 1 .. i - 1)
        BY <1>1, <1>2, EnginesListed
      <3> QED BY <2>1, <3>1, <3>2, Zenon
    <2>3. DOMAIN held' = DOMAIN held /\ Running' = Running
      BY Zenon DEF TypesKept
    <2>4. CASE i < Len(Running) /\ Goto(h, AtProvision(a, i + 1)) /\ UNCHANGED accepted
      <3>1. AcceptedKeepsAccess'
        BY <1>1, <1>3, <2>1, <2>3, <2>4, Zenon DEF AcceptedKeepsAccess, Served, StillServed
      <3>2. task'[h].at = "provision" /\ task'[h].new = a /\ task'[h].i = i + 1
        BY <1>1, <2>4, Moved DEF AtProvision
      <3>3. ASSUME NEW q \in Process, task'[q].at = "provision", task'[q].new \in live',
                   NEW j \in 1 .. task'[q].i - 1
            PROVE  StillServed(Running[j], task'[q].new)
        <4>1. CASE q = h
          BY <1>2, <1>3, <2>2, <3>2, <3>3, <4>1
        <4>2. CASE q # h
          <5>1. task'[q] = task[q] /\ task[q].i \in 1 .. Len(Running)
            BY <1>1, <1>6, <3>3, <4>2, InHand, Zenon
          <5>2. Served(Running[j], task[q].new) /\ Running[j] \in DOMAIN held
            BY <1>1, <1>3, <3>3, <5>1, EnginesListed, SMTT(30) DEF ServedSoFar
          <5> QED BY <1>3, <2>1, <3>3, <5>1, <5>2, Zenon
        <4> QED BY <4>1, <4>2, Zenon
      <3> QED BY <1>3, <1>5, <2>3, <3>1, <3>3, Zenon DEF ServedSoFar, Served, StillServed
    <2>5. CASE i = Len(Running) /\ Goto(h, Idle) /\ accepted' = accepted \cup {a.id}
      <3>1. \A c \in live : c.id = a.id => c = a
        BY <1>1, <1>4, KnownParts, Zenon DEF GivenOnce
      <3>2. a \in live => \A e \in DOMAIN held : StillServed(e, a)
        BY <1>1, <2>2, <2>5, EnginesListed, Zenon
      <3>3. AcceptedKeepsAccess'
        <4>1. \A c \in live : c.id \in accepted' =>
                \A e \in DOMAIN held : StillServed(e, c)
          BY <1>1, <1>5, <2>1, <2>5, <3>1, <3>2, Zenon DEF AcceptedKeepsAccess, Served
        <4> QED BY <1>3, <2>3, <4>1, Zenon DEF AcceptedKeepsAccess, StillServed
      <3>4. task'[h].at = "idle"
        BY <1>1, <2>5, Moved DEF Idle
      <3>5. ASSUME NEW q \in Process, task'[q].at = "provision", task'[q].new \in live',
                   NEW j \in 1 .. task'[q].i - 1
            PROVE  StillServed(Running[j], task'[q].new)
        <4>1. q # h
          BY <3>4, <3>5, Zenon
        <4>2. task'[q] = task[q] /\ task[q].i \in 1 .. Len(Running)
          BY <1>1, <1>6, <3>5, <4>1, InHand, Zenon
        <4>3. Served(Running[j], task[q].new)
          BY <1>1, <1>3, <3>5, <4>2, Zenon DEF ServedSoFar
        <4>4. Len(Running) \in Nat /\ \A k \in 1 .. Len(Running) : Running[k] \in DOMAIN held
          BY <1>1, EnginesListed, Zenon
        <4>5. j \in 1 .. Len(Running)
          BY <3>5, <4>2, <4>4
        <4> QED BY <1>3, <2>1, <3>5, <4>2, <4>3, <4>4, <4>5, Zenon
      <3> QED BY <1>3, <1>5, <2>3, <3>3, <3>5, Zenon DEF ServedSoFar, Served, StillServed
    <2>6. CASE accepted' = accepted /\ task'[h].at # "provision"
      BY <1>7, <2>6, Zenon
    <2>7. \/ i < Len(Running) /\ Goto(h, AtProvision(a, i + 1)) /\ UNCHANGED accepted
          \/ i = Len(Running) /\ Goto(h, Idle) /\ accepted' = accepted \cup {a.id}
          \/ UNCHANGED accepted /\ Goto(h, IF i > 1 THEN AtRollback(a, i - 1) ELSE AtRefuse(a))
      BY <1>8, Zenon DEF Provision
    <2>8. Goto(h, IF i > 1 THEN AtRollback(a, i - 1) ELSE AtRefuse(a)) => task'[h].at # "provision"
      BY <1>1, Moved DEF AtRollback, AtRefuse
    <2> QED BY <2>4, <2>5, <2>6, <2>7, <2>8, Zenon
  <1>9. \/ Provision(h) /\ ProvisionCall(f, a, TRUE)
        \/ accepted' = accepted /\ task'[h].at # "provision"
    <2>1. \/ Provision(h) /\ ProvisionCall(f, a, TRUE)
          \/ UNCHANGED accepted /\ Goto(h, IF i > 1 THEN AtRollback(a, i - 1) ELSE AtRefuse(a))
          \/ UNCHANGED accepted /\ Goto(h, AtRefuse(a))
      BY Zenon DEF Provision, TurnAway
    <2>2. Goto(h, IF i > 1 THEN AtRollback(a, i - 1) ELSE AtRefuse(a)) => task'[h].at # "provision"
      BY <1>1, Moved DEF AtRollback, AtRefuse
    <2>3. Goto(h, AtRefuse(a)) => task'[h].at # "provision"
      BY <1>1, Moved DEF AtRefuse
    <2> QED BY <2>1, <2>2, <2>3, Zenon
  <1> QED BY <1>7, <1>8, <1>9, Zenon

(* The steps that call no engine on behalf of a session, and sign-ins. *)
LEMMA QuietAccess ==
  ASSUME AccessInv, TypesKept, UNCHANGED <<ready, startup, accepted, crossed>>,
         live' \subseteq live, \A e \in DOMAIN held : held[e] \subseteq held'[e],
         \A q \in Process : task'[q].at = "provision" => task'[q] = task[q]
  PROVE  AcceptedKeepsAccess' /\ ServedSoFar'
  <1>1. TypeOK /\ AcceptedKeepsAccess /\ ServedSoFar
    BY Zenon DEF AccessInv
  <1>2. \A a \in live' \cap live : \A e \in DOMAIN held :
          Served(e, a) /\ Counts(a) => StillServed(e, a)
    BY Zenon DEF Served, StillServed
  <1> QED BY <1>1, <1>2, ServedStep, Zenon

\* Creating a session takes nothing from the others.
LEMMA CreateAccess ==
  ASSUME AccessInv, TypesKept, NEW h \in Process, CreateSession(h)
  PROVE  AcceptedKeepsAccess' /\ ServedSoFar'
  <1>1. TypeOK /\ GivenOnce /\ AcceptedKeepsAccess /\ ServedSoFar
    BY Zenon DEF AccessInv
  <1>2. PICK new \in Allocation, expired \in SUBSET live :
          /\ new.id = drawn + 1
          /\ live' = (live \ expired) \cup {new}
          /\ (expired = {} /\ Goto(h, AtProvision(new, 1))) \/ Goto(h, AtKick(expired, 1, new))
          /\ UNCHANGED <<held, answering, ready, startup, accepted, missed, crossed>>
    BY <1>1, Enrolled, Zenon
  <1>3. /\ \A q \in Process : q # h => task'[q] = task[q]
        /\ task'[h].at = "provision" => task'[h].i = 1
    BY <1>1, <1>2, EnrolledHas, Zenon
  <1>4. drawn \in Nat /\ new \notin Known /\ new.id \notin accepted
    <2>1. drawn \in Nat
      BY <1>1, Zenon DEF TypeOK
    <2> QED BY <1>1, <1>2, <2>1 DEF GivenOnce
  <1>5. \A q \in Process : task'[q].at = "provision" =>
          \/ task'[q].i = 1
          \/ task'[q] = task[q] /\ (task[q].new \in live' => task[q].new \in live)
    <2>1. ASSUME NEW q \in Process, task[q].at = "provision" PROVE task[q].new \in Known
      <3>1. task[q].new \in Allocation
        BY <1>1, <2>1, InHand, Zenon
      <3> QED BY <2>1, <3>1, Zenon DEF Known, NewOf
    <2> QED BY <1>2, <1>3, <1>4, <2>1, Zenon
  <1>6. \A a \in live' \cap live : \A e \in DOMAIN held :
          Served(e, a) /\ Counts(a) => StillServed(e, a)
    BY <1>2, Zenon DEF Served, StillServed
  <1>7. \A a \in live' : a.id \in accepted' => a \in live /\ a.id \in accepted
    BY <1>2, <1>4, Zenon
  <1> QED BY <1>1, <1>2, <1>5, <1>6, <1>7, ServedStep, Zenon

\* Reconciling an engine leaves it serving every lease.
LEMMA ReconcileAccess ==
  ASSUME AccessInv, TypesKept, ReconcileDataPlanes
  PROVE  AcceptedKeepsAccess' /\ ServedSoFar'
  <1>1. TypeOK /\ StartupCoversLeases /\ TasksApart /\ ServedSoFar
    BY Zenon DEF AccessInv
  <1> DEFINE f == Running[startup.at]
  <1>2. /\ f \in DOMAIN held /\ ~ ready /\ ~ GaveUp /\ startup.at \in 1 .. Len(Running)
        /\ \A g \in DOMAIN held : g # f => held'[g] = held[g]
        /\ \/ Advance(TRUE)
           \/ /\ Advance(startup.failed)
              /\ held'[f] = Reconciled(f, held[f], startup.wanted)
    BY <1>1, ReconcileEffect, ZenonT(30)
  <1>3. /\ UNCHANGED <<live, task, accepted, crossed>>
        /\ DOMAIN held' = DOMAIN held /\ Running' = Running
    BY Zenon DEF ReconcileDataPlanes, TypesKept
  <1>4. \A q \in Process : task[q].at # "provision"
    <2>1. \A q \in Process : task[q].at = "provision" => NewOf(q) # None
      BY <1>1, InHand, SessionApiAssumption, Zenon DEF NewOf
    <2> QED BY <1>1, <1>2, <2>1, Zenon DEF TasksApart
  <1>5. startup.failed \in BOOLEAN /\ startup.at \in 1 .. Len(Running) /\ Len(Running) \in Nat
    BY <1>1, <1>2, EnginesListed, Zenon DEF TypeOK, Startups
  <1>6. CASE Advance(TRUE)
    <2>1. ready' = FALSE /\ (startup'.failed = TRUE \/ startup'.at = 1)
      BY <1>1, <1>2, <1>6, AdvanceEffect, Zenon
    <2>2. AcceptedKeepsAccess'
      BY <2>1, Zenon DEF AcceptedKeepsAccess
    <2> QED BY <1>3, <1>4, <2>1, <2>2 DEF ServedSoFar
  <1>7. CASE Advance(startup.failed) /\ held'[f] = Reconciled(f, held[f], startup.wanted)
    <2>1. f \in SignIn \/ live \subseteq held'[f]
      <3>1. f \in Engines /\ held[f] \in SUBSET Holding /\ startup.wanted \in SUBSET Allocation
        BY <1>1, <1>2, EnginesListed, Zenon DEF TypeOK, Startups
      <3>2. f \in SignIn \/ startup.wanted \subseteq held'[f]
        BY <1>7, <3>1, ReconcileInstalls
      <3> QED BY <1>1, <1>2, <3>2, Zenon DEF StartupCoversLeases
    <2>2. ~ startup.failed => \A a \in live : a.id \in accepted =>
            \A j \in 1 .. startup.at : StillServed(Running[j], a)
      <3>1. ASSUME ~ startup.failed, NEW a \in live, a.id \in accepted, NEW j \in 1 .. startup.at
            PROVE  StillServed(Running[j], a)
        <4>1. CASE Running[j] = f
          BY <2>1, <4>1, Zenon DEF StillServed
        <4>2. CASE Running[j] # f
          <5>1. j \in 1 .. startup.at - 1 /\ Running[j] \in DOMAIN held
            BY <1>1, <1>5, <3>1, <4>2, EnginesListed
          <5>2. Served(Running[j], a)
            BY <1>1, <1>2, <3>1, <5>1, Zenon DEF ServedSoFar
          <5> QED BY <1>2, <1>3, <4>2, <5>1, <5>2, Zenon DEF Served, StillServed
        <4> QED BY <4>1, <4>2, Zenon
      <3> QED BY <3>1, Zenon
    <2>3. \/ /\ startup.at < Len(Running) /\ startup'.at = startup.at + 1
             /\ startup'.failed = startup.failed /\ ready' = ready
          \/ /\ startup.at = Len(Running) /\ (startup'.failed = TRUE \/ startup'.at = 1)
             /\ ready' = ~ startup.failed
      BY <1>1, <1>2, <1>5, <1>7, AdvanceEffect, Zenon
    <2>4. CASE /\ startup.at < Len(Running) /\ startup'.at = startup.at + 1
               /\ startup'.failed = startup.failed /\ ready' = ready
      <3>1. AcceptedKeepsAccess'
        BY <1>2, <2>4, Zenon DEF AcceptedKeepsAccess
      <3> QED BY <1>3, <1>4, <1>5, <2>2, <2>4, <3>1 DEF ServedSoFar, Served, StillServed
    <2>5. CASE /\ startup.at = Len(Running) /\ (startup'.failed = TRUE \/ startup'.at = 1)
               /\ ready' = ~ startup.failed
      <3>1. AcceptedKeepsAccess'
        <4>1. ready' => ~ startup.failed
          BY <2>5, Zenon
        <4>2. ready' => \A a \in live : a.id \in accepted =>
                \A e \in DOMAIN held : StillServed(e, a)
          BY <1>1, <2>2, <2>5, <4>1, EnginesListed, Zenon
        <4> QED BY <1>3, <4>2, Zenon DEF AcceptedKeepsAccess, StillServed
      <3> QED BY <1>3, <1>4, <2>5, <3>1 DEF ServedSoFar
    <2> QED BY <2>3, <2>4, <2>5, Zenon
  <1> QED BY <1>2, <1>6, <1>7, Zenon

\* Every step keeps the access invariant.
LEMMA AccessNext ==
  ASSUME AccessInv, [Next]_vars
  PROVE  AccessInv'
  <1>1. TypeOK /\ StartupCoversLeases /\ GivenOnce /\ TasksApart
    BY Zenon DEF AccessInv
  <1>2. TypesKept
    BY <1>1, TypeNext, Zenon
  <1>3. StartupCoversLeases' /\ GivenOnce' /\ TasksApart' /\ TypeOK'
    BY <1>1, <1>2, StartupNext, GivenOnceNext, TasksApartNext, Zenon DEF TypesKept
  <1>4. AcceptedKeepsAccess' /\ ServedSoFar'
    <2> DEFINE Goal == AcceptedKeepsAccess' /\ ServedSoFar'
               Quiet == /\ UNCHANGED <<ready, startup, accepted, crossed>>
                        /\ live' \subseteq live
                        /\ \A e \in DOMAIN held : held[e] \subseteq held'[e]
                        /\ \A q \in Process : task'[q].at = "provision" => task'[q] = task[q]
    <2>1. Quiet => Goal
      BY <1>2, QuietAccess, Zenon
    <2>2. ASSUME NEW p \in Process, RefuseSession(p) PROVE Quiet
      BY <1>1, <2>2, Moved DEF RefuseSession, AtKick, Idle
    <2>3. ASSUME NEW p \in Process, NEW gone \in SUBSET live, EndSessions(p, gone) PROVE Quiet
      BY <1>1, <2>3, Moved, Zenon DEF EndSessions, AtKick
    <2>4. ASSUME Connect PROVE Quiet
      BY <1>1, <2>4, EnginesListed DEF Connect
    <2>5. ASSUME NEW e \in DOMAIN held, Authenticate(e) PROVE Quiet
      BY <2>5, Zenon DEF Authenticate
    <2>6. ASSUME NEW h \in Process, Drop(h) PROVE Quiet
      BY <1>1, <2>6, Moved DEF Drop, Idle
    <2>7. CASE Restart
      BY <2>7 DEF Restart, Starting, AcceptedKeepsAccess, ServedSoFar, Idle
    <2>8. ASSUME UNCHANGED vars PROVE Quiet
      BY <2>8, Zenon DEF vars
    <2> HIDE DEF Quiet, Goal
    <2>9. Goal
      BY <1>2, <2>1, <2>2, <2>3, <2>4, <2>5, <2>6, <2>7, <2>8, StepCases, CreateAccess,
         ProvisionAccess, KickAccess, ReconcileAccess, Zenon DEF Goal, Process
    <2> QED BY <2>9, Zenon DEF Goal
  <1> QED BY <1>3, <1>4, Zenon DEF AccessInv

\* The access invariant holds when the server starts.
LEMMA AccessInit ==
  ASSUME Init
  PROVE  AccessInv
  <1>1. TypeOK
    BY TypeInit, Zenon
  <1>2. Known = {} /\ \A p \in Process : Gone(p) = {} /\ NewOf(p) = None
    BY SessionApiAssumption, Zenon DEF Init, Starting, Known, Gone, NewOf, Idle
  <1>3. \A e \in DOMAIN held : held[e] = {}
    BY Zenon DEF Init
  <1>4. GivenOnce /\ TasksApart
    BY <1>2, <1>3, Zenon DEF Init, GivenOnce, TasksApart
  <1>5. StartupCoversLeases /\ AcceptedKeepsAccess /\ ServedSoFar
    BY Zenon DEF Init, StartupCoversLeases, AcceptedKeepsAccess, ServedSoFar, Idle
  <1> QED BY <1>1, <1>4, <1>5, Zenon DEF AccessInv

(* A client that has its manifest can use every engine for as long as its   *)
(* lease lasts, whatever other handlers, failures, dropped requests and      *)
(* restarts do, unless its slot was touched on behalf of the session that   *)
(* had it before; and the list taken at startup covers every lease.         *)
THEOREM AccessAlwaysServed == Spec => []AccessIsServed
  <1>1. Init => AccessInv
    BY AccessInit, Zenon
  <1>2. AccessInv /\ [Next]_vars => AccessInv'
    BY AccessNext, Zenon
  <1>3. AccessInv => AccessIsServed
    BY Zenon DEF AccessInv, AccessIsServed
  <1> QED BY <1>1, <1>2, <1>3, PTL DEF Spec

-----------------------------------------------------------------------------
(* Strays: slots, and the kicks that are still to come. *)

\* No two leases ever share a slot.
LEMMA SlotsApartNext ==
  ASSUME TypeOK, SlotsApart, [Next]_vars
  PROVE  SlotsApart'
  <1>1. ASSUME NEW h \in Process, CreateSession(h) PROVE SlotsApart'
    <2>1. PICK new \in Allocation, expired \in SUBSET live :
            /\ new.slot \notin Slots(live \ expired)
            /\ live' = (live \ expired) \cup {new}
      BY <1>1, Enrolled, Zenon
    <2> QED BY <2>1, Zenon DEF SlotsApart, Slots
  <1>2. CASE \A p \in Process : ~ CreateSession(p)
    BY <1>2, ShrinkNext, Zenon DEF Shrinks, SlotsApart
  <1> QED BY <1>1, <1>2, Zenon

\* Which calls a kick has still to make.
LEMMA IsOutstanding ==
  ASSUME NEW p, NEW e, NEW id
  PROVE  <<e, id>> \in Outstanding(p) <=>
           /\ task[p].at = "kick"
           /\ \E i \in task[p].i .. Len(Running) : Running[i] = e
           /\ \E a \in task[p].gone : a.id = id
  BY Zenon DEF Outstanding, Ids

\* Which calls it has still to make after a step.
LEMMA IsOutstandingNext ==
  ASSUME NEW p, NEW e, NEW id, Running' = Running
  PROVE  <<e, id>> \in Outstanding(p)' <=>
           /\ task'[p].at = "kick"
           /\ \E i \in task'[p].i .. Len(Running) : Running[i] = e
           /\ \E a \in task'[p].gone : a.id = id
  BY Zenon DEF Outstanding, Ids

(* The end of a lease is followed by a kick of every engine. *)
LEMMA KickedEverywhere ==
  ASSUME TypeOK, TypesKept, NEW p \in Process, NEW gone, NEW new, Goto(p, AtKick(gone, 1, new)),
         NEW a \in gone, NEW e \in DOMAIN held
  PROVE  <<e, a.id>> \in Outstanding(p)'
  <1>1. task'[p].at = "kick" /\ task'[p].i = 1 /\ task'[p].gone = gone
    BY Moved DEF AtKick
  <1>2. \E i \in 1 .. Len(Running) : Running[i] = e
    BY EnginesListed, Zenon
  <1> QED BY <1>1, <1>2, IsOutstandingNext DEF TypesKept

(* A step that moves p and ends the leases `gone` keeps what is answered,   *)
(* if p had no kicks left to make or they are counted as missed.            *)
LEMMA AnsweredStep ==
  ASSUME TypeOK, TypesKept, NEW p \in Process, NEW point, Goto(p, point),
         NEW gone, NEW new,
         \/ live \subseteq live'
         \/ live \ gone \subseteq live' /\ point = AtKick(gone, 1, new),
         missed \subseteq missed',
         task[p].at # "kick" \/ Outstanding(p) \subseteq missed',
         NEW e \in DOMAIN held, NEW id, Answered(e, id)
  PROVE  Answered(e, id)'
  <1>1. CASE <<e, id>> \in missed
    BY <1>1, Zenon DEF Answered
  <1>2. ASSUME NEW q \in Process, <<e, id>> \in Outstanding(q) PROVE Answered(e, id)'
    <2>1. CASE q = p
      BY <1>2, <2>1, IsOutstanding, Zenon DEF Answered
    <2>2. CASE q # p
      <3>1. task'[q] = task[q]
        BY <2>2, Moved, Zenon
      <3>2. <<e, id>> \in Outstanding(q)'
        BY <1>2, <3>1, IsOutstanding, IsOutstandingNext DEF TypesKept
      <3> QED BY <3>2, Zenon DEF Answered
    <2> QED BY <2>1, <2>2, Zenon
  <1>3. ASSUME NEW a \in live, a.id = id PROVE Answered(e, id)'
    <2>1. CASE a \in live'
      BY <1>3, <2>1, Zenon DEF Answered, Ids
    <2>2. CASE a \notin live'
      <3>1. a \in gone /\ Goto(p, AtKick(gone, 1, new))
        BY <2>2, Zenon
      <3>2. <<e, id>> \in Outstanding(p)'
        BY <1>3, <3>1, KickedEverywhere, Zenon
      <3> QED BY <3>2, Zenon DEF Answered
    <2> QED BY <2>1, <2>2, Zenon
  <1> QED BY <1>1, <1>2, <1>3, Zenon DEF Answered, Ids

(* A kick removes what it is for, or is counted as missed. *)
LEMMA KickAnswers ==
  ASSUME TypeOK, GivenOnce, TypesKept,
         NEW p \in Process, KickSessions(p),
         NEW e \in DOMAIN held, NEW b \in held'[e], Answered(e, b.id)
  PROVE  Answered(e, b.id)'
  <1> DEFINE f == Running[task[p].i]  gone == task[p].gone
  <1>1. PICK ok \in BOOLEAN : KickCall(f, gone, ok)
    BY Zenon DEF KickSessions
  <1>2. /\ task[p].at = "kick" /\ gone \in SUBSET Allocation /\ f \in DOMAIN held
        /\ task[p].i \in 1 .. Len(Running)
    BY InHand, Zenon DEF KickSessions
  <1>3. gone \subseteq Known
    BY <1>2, KnownParts, Zenon DEF Gone
  <1>4. /\ missed \subseteq missed'
        /\ OnlyHit(held'[f], f, held[f], gone)
        /\ ~ ok => \A a \in gone : <<f, a.id>> \in missed'
        /\ ok => Readable(f, held[f]) /\ Cleared(held'[f], f, gone)
    BY <1>1, <1>2, KickEffect, ZenonT(30)
  <1>5. live' = live /\ Goto(p, AfterKick(gone, task[p].i, task[p].new))
    BY Zenon DEF KickSessions
  <1>6. CASE b.id \in Ids(live) \/ <<e, b.id>> \in missed
    BY <1>4, <1>5, <1>6, Zenon DEF Answered
  <1>7. ASSUME NEW q \in Process, q # p, <<e, b.id>> \in Outstanding(q)
        PROVE  Answered(e, b.id)'
    <2>1. task'[q] = task[q]
      BY <1>5, <1>7, Moved, Zenon
    <2>2. <<e, b.id>> \in Outstanding(q)'
      BY <1>7, <2>1, IsOutstanding, IsOutstandingNext DEF TypesKept
    <2> QED BY <2>2, Zenon DEF Answered
  <1>8. CASE <<e, b.id>> \in Outstanding(p)
    <2>1. PICK i \in task[p].i .. Len(Running), a \in gone : Running[i] = e /\ a.id = b.id
      BY <1>8, IsOutstanding
    <2>2. CASE e = f /\ ~ ok
      BY <1>4, <2>1, <2>2, Zenon DEF Answered
    <2>3. CASE e = f /\ ok
      <3>1. b \in held[f] /\ b \in held'[f]
        BY <1>4, <2>3, Zenon DEF OnlyHit
      <3>2. b = a
        <4>1. b = a \/ (f = "wireguard" /\ b.slot = Unaddressed)
          BY <1>2, <1>3, <2>1, <3>1, Zenon DEF GivenOnce
        <4>2. Readable(f, held[f])
          BY <1>4, <2>3, Zenon
        <4> QED BY <3>1, <4>1, <4>2, Zenon DEF Readable
      <3>3. Hits(f, a, b)
        BY <3>2, Zenon DEF Hits
      <3> QED BY <1>4, <2>1, <2>3, <3>1, <3>3, Zenon DEF Cleared
    <2>4. CASE e # f
      <3>1. i \in task[p].i + 1 .. Len(Running) /\ task[p].i < Len(Running)
        BY <1>2, <2>1, <2>4, EnginesListed
      <3>2. task'[p] = AtKick(gone, task[p].i + 1, task[p].new)
        BY <1>5, <3>1, Moved, Zenon DEF AfterKick
      <3>3. task'[p].at = "kick" /\ task'[p].i = task[p].i + 1 /\ task'[p].gone = gone
        BY <3>2 DEF AtKick
      <3>4. <<e, b.id>> \in Outstanding(p)'
        BY <2>1, <3>1, <3>3, IsOutstandingNext DEF TypesKept
      <3> QED BY <3>4, Zenon DEF Answered
    <2> QED BY <2>2, <2>3, <2>4, Zenon
  <1> QED BY <1>6, <1>7, <1>8, Zenon DEF Answered

(* What is answered stays so, outside the server's start. *)
LEMMA AnsweredNext ==
  ASSUME TypeOK, GivenOnce, [Next]_vars, TypesKept, ~ ReconcileDataPlanes, ~ Restart,
         NEW e \in DOMAIN held, NEW b \in held'[e], Answered(e, b.id)
  PROVE  Answered(e, b.id)'
  <1>1. ASSUME NEW p \in Process, CreateSession(p) PROVE Answered(e, b.id)'
    <2>1. PICK new \in Allocation, expired \in SUBSET live :
            /\ live' = (live \ expired) \cup {new}
            /\ (expired = {} /\ Goto(p, AtProvision(new, 1))) \/ Goto(p, AtKick(expired, 1, new))
            /\ task[p] = Idle
            /\ UNCHANGED <<held, answering, ready, startup, accepted, missed, crossed>>
      BY <1>1, Enrolled, Zenon
    <2>2. task[p].at # "kick" /\ live \ expired \subseteq live' /\ missed \subseteq missed'
      BY <2>1 DEF Idle
    <2>3. CASE expired = {} /\ Goto(p, AtProvision(new, 1))
      BY <2>1, <2>2, <2>3, AnsweredStep, Zenon
    <2>4. CASE Goto(p, AtKick(expired, 1, new))
      BY <2>2, <2>4, AnsweredStep, Zenon
    <2> QED BY <2>1, <2>3, <2>4, Zenon
  <1>2. ASSUME NEW p \in Process, Provision(p) \/ TurnAway(p) PROVE Answered(e, b.id)'
    <2>1. PICK point : Goto(p, point)
      BY <1>2, Zenon DEF Provision, TurnAway
    <2>2. task[p].at # "kick" /\ live \subseteq live' /\ missed \subseteq missed'
      BY <1>2, Zenon DEF Provision, TurnAway, ProvisionCall
    <2> QED BY <2>1, <2>2, AnsweredStep, Zenon
  <1>3. ASSUME NEW p \in Process, Rollback(p) PROVE Answered(e, b.id)'
    <2>1. PICK point : Goto(p, point)
      BY <1>3, Zenon DEF Rollback
    <2>2. task[p].at # "kick" /\ live \subseteq live' /\ missed \subseteq missed'
      BY <1>3, Zenon DEF Rollback, KickCall
    <2> QED BY <2>1, <2>2, AnsweredStep, Zenon
  <1>4. ASSUME NEW p \in Process, KickSessions(p) PROVE Answered(e, b.id)'
    BY <1>4, KickAnswers, Zenon
  <1>5. ASSUME NEW p \in Process, RefuseSession(p) PROVE Answered(e, b.id)'
    <2>1. task[p].at # "kick" /\ missed \subseteq missed'
      BY <1>5, Zenon DEF RefuseSession
    <2>2. CASE live' = live \ {task[p].new} /\ Goto(p, AtKick({task[p].new}, 1, None))
      BY <2>1, <2>2, AnsweredStep, Zenon
    <2>3. CASE UNCHANGED live /\ Goto(p, Idle)
      BY <2>1, <2>3, AnsweredStep, Zenon
    <2> QED BY <1>5, <2>2, <2>3, Zenon DEF RefuseSession
  <1>6. ASSUME NEW p \in Process, NEW gone \in SUBSET live, EndSessions(p, gone)
        PROVE  Answered(e, b.id)'
    <2>1. /\ task[p].at # "kick" /\ missed \subseteq missed' /\ live' = live \ gone
          /\ Goto(p, AtKick(gone, 1, None))
      BY <1>6 DEF EndSessions, Idle
    <2> QED BY <2>1, AnsweredStep, Zenon
  <1>7. ASSUME NEW p \in Process, Drop(p) PROVE Answered(e, b.id)'
    <2>1. /\ missed \subseteq missed' /\ Outstanding(p) \subseteq missed'
          /\ live' = live /\ Goto(p, Idle)
      BY <1>7, Zenon DEF Drop
    <2> QED BY <2>1, AnsweredStep, Zenon
  <1>8. CASE live' = live /\ task' = task /\ missed \subseteq missed'
    <2>1. \A q \in Process : <<e, b.id>> \in Outstanding(q) => <<e, b.id>> \in Outstanding(q)'
      BY <1>8, IsOutstanding, IsOutstandingNext DEF TypesKept
    <2> QED BY <1>8, <2>1, Zenon DEF Answered
  <1>9. CASE Connect \/ (\E g \in DOMAIN held \cap SignIn : Authenticate(g)) \/ UNCHANGED vars
    BY <1>8, <1>9, Zenon DEF Connect, Authenticate, vars
  <1> QED BY <1>1, <1>2, <1>3, <1>4, <1>5, <1>6, <1>7, <1>9, StepCases, Zenon DEF Process

(* What a step brings to an engine is answered. *)
LEMMA NewIsAnswered ==
  ASSUME TypeOK, [Next]_vars, TypesKept, ~ ReconcileDataPlanes,
         NEW e \in DOMAIN held, NEW b \in held'[e]
  PROVE  \/ b \in held[e]
         \/ e = "wireguard" /\ b.slot = Unaddressed /\ \E c \in held[e] : c.id = b.id
         \/ Answered(e, b.id)'
  <1> DEFINE Goal == \/ b \in held[e]
                     \/ /\ e = "wireguard" /\ b.slot = Unaddressed
                        /\ \E c \in held[e] : c.id = b.id
                     \/ Answered(e, b.id)'
  <1>1. ASSUME NEW p \in Process, Provision(p) \/ TurnAway(p) PROVE Goal
    <2> DEFINE a == task[p].new  f == Running[task[p].i]
    <2>1. a \in Allocation /\ f \in DOMAIN held /\ live' = live
      BY <1>1, InHand, Zenon DEF Provision, TurnAway
    <2>2. CASE UNCHANGED held
      BY <2>2, Zenon
    <2>3. ASSUME NEW ok \in BOOLEAN, ProvisionCall(f, a, ok) PROVE Goal
      <3>1. /\ \A g \in DOMAIN held : g # f => held'[g] = held[g]
            /\ OnlySession(held'[f], f, held[f], a)
            /\ f \notin SignIn /\ a \notin live => <<f, a.id>> \in missed'
        BY <2>1, <2>3, ProvisionEffect, ZenonT(30)
      <3> HIDE DEF a, f
      <3>2. CASE e # f
        BY <3>1, <3>2, Zenon
      <3>3. CASE e = f /\ b = a /\ f \notin SignIn
        <4>1. a \in live' \/ <<e, a.id>> \in missed'
          BY <2>1, <3>1, <3>3, Zenon
        <4> QED BY <3>3, <4>1, Zenon DEF Answered, Ids
      <3>4. CASE e = f /\ ~ (b = a /\ f \notin SignIn)
        <4>1. OnlySession(held'[e], e, held[e], a)
          BY <3>1, <3>4, Zenon
        <4> QED BY <3>4, <4>1, Zenon DEF OnlySession
      <3> QED BY <3>2, <3>3, <3>4, Zenon
    <2> QED BY <1>1, <2>2, <2>3, Zenon DEF Provision, TurnAway
  <1>2. ASSUME NEW p \in Process, Rollback(p) \/ KickSessions(p) PROVE Goal
    <2> DEFINE f == Running[task[p].i]
    <2>1. PICK gone \in SUBSET Allocation, ok \in BOOLEAN :
            KickCall(f, gone, ok) /\ f \in DOMAIN held
      BY <1>2, InHand, Zenon DEF Rollback, KickSessions
    <2> QED BY <2>1, KickEffect, Zenon DEF OnlyHit
  <1>3. CASE Connect
    <2>1. PICK x \in answering : /\ held' = [held EXCEPT ![x[1]] = @ \cup {x[2]}]
                                 /\ missed' = missed \cup Late(x[1], x[2])
                                 /\ live' = live
      BY <1>3, Zenon DEF Connect
    <2>2. b \in held[e] \/ (e = x[1] /\ b = x[2])
      BY <2>1, EnginesListed, Zenon
    <2>3. x[2] \in live' \/ <<x[1], x[2].id>> \in missed'
      BY <2>1, Zenon DEF Late
    <2> QED BY <2>2, <2>3, Zenon DEF Answered, Ids
  <1>4. CASE UNCHANGED held
    BY <1>4, Zenon
  <1>5. \/ \E p \in Process : Provision(p) \/ TurnAway(p) \/ Rollback(p) \/ KickSessions(p)
        \/ Connect \/ UNCHANGED held
    BY StepCases, Zenon DEF CreateSession, RefuseSession, EndSessions, Authenticate, Restart, Drop, vars
  <1> QED BY <1>1, <1>2, <1>3, <1>4, <1>5, Zenon

(* The reconciliation at startup is still to reach e. *)
Pending(e) ==
    ~ ready /\ (startup.failed \/ \E i \in startup.at .. Len(Running) : Running[i] = e)

\* What an engine holds is answered for, or a reconciliation is to come.
LEMMA StrayMeans ==
  ASSUME StrayIsAccountedFor, NEW e \in DOMAIN held, NEW b \in held[e]
  PROVE  Answered(e, b.id) \/ Pending(e)
  BY Zenon DEF StrayIsAccountedFor, Owed, Answered, Pending

\* The property after a step, from the same two cases.
LEMMA StrayFrom ==
  ASSUME TypesKept, \A e \in DOMAIN held : \A b \in held'[e] : Answered(e, b.id)' \/ Pending(e)'
  PROVE  StrayIsAccountedFor'
  BY Zenon DEF StrayIsAccountedFor, Owed, Answered, Pending, TypesKept

\* What the reconciliation of an engine passes over is answered for.
LEMMA EscapedFrom ==
  ASSUME TypesKept,
         ~ ready' => \A e \in DOMAIN held : \A b \in held'[e] :
                       /\ e = "hysteria" => Answered(e, b.id)'
                       /\ e = "wireguard" /\ b.slot \in Slots(startup'.wanted)
                            => Answered(e, b.id)'
  PROVE  EscapedIsAnswered'
  BY Zenon DEF EscapedIsAnswered, Escapes, TypesKept

\* Every step but a restart and a reconciliation accounts for strays.
LEMMA RunningStray ==
  ASSUME AccessInv, StrayInv, [Next]_vars, TypesKept, ~ ReconcileDataPlanes, ~ Restart
  PROVE  StrayIsAccountedFor' /\ EscapedIsAnswered'
  <1>1. TypeOK /\ GivenOnce /\ StrayIsAccountedFor /\ EscapedIsAnswered
    BY Zenon DEF AccessInv, StrayInv
  <1>2. UNCHANGED <<ready, startup>>
    BY StepCases, Zenon DEF CreateSession, Provision, TurnAway, Rollback, KickSessions, RefuseSession,
                     EndSessions, Connect, Authenticate, Drop, vars
  <1>3. \A e \in DOMAIN held : Pending(e)' = Pending(e)
    BY <1>2, Zenon DEF Pending, TypesKept
  <1>4. ASSUME NEW e \in DOMAIN held, NEW b \in held'[e] PROVE Answered(e, b.id)' \/ Pending(e)'
    <2>1. CASE Answered(e, b.id)'
      BY <2>1, Zenon
    <2>2. CASE \E c \in held[e] : c.id = b.id
      <3>1. Answered(e, b.id) \/ Pending(e)
        BY <1>1, <2>2, StrayMeans, Zenon
      <3> QED BY <1>1, <1>3, <3>1, AnsweredNext, Zenon
    <2> QED BY <1>1, <1>4, <2>1, <2>2, NewIsAnswered, Zenon
  <1>5. ASSUME ~ ready', NEW e \in DOMAIN held, NEW b \in held'[e],
               e = "hysteria" \/ (e = "wireguard" /\ b.slot \in Slots(startup'.wanted))
        PROVE  Answered(e, b.id)'
    <2>1. CASE b \in held[e]
      <3>1. Escapes(e, b)
        BY <1>2, <1>5, Zenon DEF Escapes
      <3>2. Answered(e, b.id)
        BY <1>1, <1>2, <1>5, <2>1, <3>1, Zenon DEF EscapedIsAnswered
      <3> QED BY <1>1, <3>2, AnsweredNext, Zenon
    <2>2. CASE e = "wireguard" /\ b.slot = Unaddressed
      <3>1. startup.wanted \subseteq Allocation
        BY <1>1, Zenon DEF TypeOK, Startups
      <3>2. Unaddressed \notin Slots(startup.wanted)
        BY <3>1, DataPlaneAssumption DEF Slots, Allocation, Slot, Unaddressed
      <3>3. startup'.wanted = startup.wanted
        BY <1>2, Zenon
      <3> QED BY <1>5, <2>2, <3>2, <3>3, Zenon
    <2> QED BY <1>1, <2>1, <2>2, NewIsAnswered, Zenon
  <1> QED BY <1>4, <1>5, StrayFrom, EscapedFrom, Zenon

\* A restart accounts for strays: its reconciliations are to come.
LEMMA RestartStray ==
  ASSUME AccessInv, StrayInv, TypesKept, Restart
  PROVE  StrayIsAccountedFor' /\ EscapedIsAnswered'
  <1>1. /\ TypeOK /\ GivenOnce /\ StartupCoversLeases /\ SlotsApart
        /\ StrayIsAccountedFor /\ EscapedIsAnswered
    BY Zenon DEF AccessInv, StrayInv
  <1>2. PICK expired \in SUBSET live :
          /\ live' = live \ expired
          /\ missed' = missed \cup (UNION {Outstanding(p) : p \in Process})
                              \cup ({"hysteria"} \cap DOMAIN held) \X Ids(expired)
          /\ startup' = Starting(live')
    BY Zenon DEF Restart
  <1>3. ready' = FALSE /\ held' = held
    BY Zenon DEF Restart
  <1>4. /\ missed \subseteq missed'
        /\ \A p \in Process : Outstanding(p) \subseteq missed'
        /\ "hysteria" \in DOMAIN held => \A a \in expired : <<"hysteria", a.id>> \in missed'
    BY <1>2, Zenon DEF Ids
  <1>5. startup'.at = 1 /\ startup'.wanted = live'
    BY <1>2, Zenon DEF Starting
  <1>6. \A e \in DOMAIN held : Pending(e)'
    BY <1>1, <1>3, <1>5, EnginesListed, Zenon DEF Pending, TypesKept
  <1>7. ASSUME NEW e \in DOMAIN held, NEW b \in held[e],
               e = "hysteria" \/ (e = "wireguard" /\ b.slot \in Slots(live'))
        PROVE  Answered(e, b.id)'
    <2>1. Answered(e, b.id)
      <3>1. CASE ready
        BY <1>1, <3>1, StrayMeans, Zenon DEF Pending
      <3>2. CASE ~ ready
        <4>1. Slots(live') \subseteq Slots(startup.wanted)
          BY <1>1, <1>2, <3>2, Zenon DEF StartupCoversLeases, Slots
        <4>2. Escapes(e, b)
          BY <1>7, <4>1, Zenon DEF Escapes
        <4> QED BY <1>1, <3>2, <4>2, Zenon DEF EscapedIsAnswered
      <3> QED BY <3>1, <3>2, Zenon
    <2>2. CASE <<e, b.id>> \in missed \/ \E p \in Process : <<e, b.id>> \in Outstanding(p)
      BY <1>4, <2>2, Zenon DEF Answered
    <2>3. ASSUME NEW a \in live, a.id = b.id PROVE Answered(e, b.id)'
      <3>1. CASE a \in live'
        BY <2>3, <3>1, Zenon DEF Answered, Ids
      <3>2. CASE a \in expired /\ e = "hysteria"
        BY <1>4, <2>3, <3>2, Zenon DEF Answered
      <3>3. CASE e = "wireguard" /\ b.slot \in Slots(live')
        <4>1. PICK c \in live' : c.slot = b.slot
          BY <3>3, Zenon DEF Slots
        <4>2. c \in live /\ c.slot # Unaddressed
          BY <1>1, <1>2, <4>1, DataPlaneAssumption DEF TypeOK, Allocation, Slot, Unaddressed
        <4>3. b = a
          BY <1>1, <2>3, <4>1, <4>2, KnownParts, Zenon DEF GivenOnce
        <4>4. c = a
          BY <1>1, <4>1, <4>2, <4>3, Zenon DEF SlotsApart
        <4> QED BY <2>3, <4>1, <4>4, Zenon DEF Answered, Ids
      <3> QED BY <1>2, <1>7, <3>1, <3>2, <3>3, Zenon
    <2> QED BY <2>1, <2>2, <2>3, Zenon DEF Answered, Ids
  <1> QED BY <1>3, <1>5, <1>6, <1>7, StrayFrom, EscapedFrom, Zenon

(* After a failed attempt at one engine, every engine is still to come. *)
LEMMA AllPending ==
  ASSUME TypeOK, TypesKept, ~ ready, ~ GaveUp, NEW e \in DOMAIN held,
         Advance(TRUE) \/ (Advance(startup.failed) /\ startup.failed)
  PROVE  Pending(e)'
  <1>1. startup.failed \in BOOLEAN
    BY Zenon DEF TypeOK, Startups
  <1>2. PICK failed \in BOOLEAN : Advance(failed) /\ failed
    BY <1>1, Zenon
  <1>3. ready' = FALSE /\ (startup'.failed = TRUE \/ startup'.at = 1)
    BY <1>2, AdvanceEffect, Zenon
  <1>4. \E i \in 1 .. Len(Running) : Running[i] = e
    BY EnginesListed, Zenon
  <1> QED BY <1>3, <1>4, Zenon DEF Pending, TypesKept

\* A reconciliation accounts for strays: it removes them or passes over those
\* that are answered for.
LEMMA ReconcileStray ==
  ASSUME AccessInv, StrayInv, TypesKept, ReconcileDataPlanes
  PROVE  StrayIsAccountedFor' /\ EscapedIsAnswered'
  <1>1. TypeOK /\ StrayIsAccountedFor /\ EscapedIsAnswered /\ Running' = Running
    BY Zenon DEF AccessInv, StrayInv, TypesKept
  <1>0. PICK f : f = Running[startup.at]
    BY Zenon
  <1> DEFINE again == ({f} \ {"hysteria"}) \X Ids(startup.wanted \ live)
  <1>2. /\ f \in DOMAIN held /\ ~ ready /\ ~ GaveUp /\ startup.at \in 1 .. Len(Running)
        /\ \A g \in DOMAIN held : g # f => held'[g] = held[g]
        /\ OnlyWanted(held'[f], f, held[f], startup.wanted)
        /\ startup'.wanted = startup.wanted
    <2> DEFINE g == Running[startup.at]
    <2>1. /\ g \in DOMAIN held /\ ~ ready /\ ~ GaveUp /\ startup.at \in 1 .. Len(Running)
          /\ \A e \in DOMAIN held : e # g => held'[e] = held[e]
          /\ OnlyWanted(held'[g], g, held[g], startup.wanted)
          /\ startup'.wanted = startup.wanted
      BY <1>1, ReconcileEffect, ZenonT(30)
    <2> QED BY <1>0, <2>1, Zenon
  <1>3. live' = live /\ \A q \in Process : Outstanding(q)' = Outstanding(q)
    BY <1>1 DEF ReconcileDataPlanes, Outstanding
  <1>4. ASSUME NEW e, NEW id, Answered(e, id), <<e, id>> \in missed => <<e, id>> \in missed'
        PROVE  Answered(e, id)'
    BY <1>3, <1>4, Zenon DEF Answered
  <1>5. ASSUME NEW a \in startup.wanted, again \subseteq missed', f # "hysteria"
        PROVE  Answered(f, a.id)'
    <2>1. a \in live' \/ <<f, a.id>> \in again
      BY <1>3, <1>5, Zenon DEF Ids
    <2> HIDE DEF again
    <2> QED BY <1>5, <2>1, Zenon DEF Answered, Ids
  <1>6. CASE Advance(TRUE) /\ missed \subseteq missed' /\ (UNCHANGED held \/ again \subseteq missed')
    <2>1. StrayIsAccountedFor'
      BY <1>1, <1>2, <1>6, AllPending, StrayFrom, Zenon
    <2>2. ASSUME NEW e \in DOMAIN held, NEW b \in held'[e],
                 e = "hysteria" \/ (e = "wireguard" /\ b.slot \in Slots(startup.wanted))
          PROVE  Answered(e, b.id)'
      <3>1. CASE b \in held[e]
        <4>1. Answered(e, b.id)
          BY <1>1, <1>2, <2>2, <3>1, Zenon DEF EscapedIsAnswered, Escapes
        <4> QED BY <1>4, <1>6, <4>1, Zenon
      <3>2. CASE b \notin held[e]
        <4>1. e = f /\ again \subseteq missed'
          BY <1>2, <1>6, <2>2, <3>2, Zenon
        <4>2. OnlyWanted(held'[e], e, held[e], startup.wanted)
          BY <1>2, <4>1, Zenon
        <4>3. Unaddressed \notin Slots(startup.wanted)
          BY <1>1, DataPlaneAssumption DEF TypeOK, Startups, Slots, Allocation, Slot, Unaddressed
        <4>4. b \in startup.wanted /\ e \notin SignIn
          BY <2>2, <3>2, <4>2, <4>3, Zenon DEF OnlyWanted
        <4>5. f # "hysteria"
          BY <4>1, <4>4, Zenon DEF SignIn
        <4> QED BY <1>5, <4>1, <4>4, <4>5, Zenon
      <3> QED BY <3>1, <3>2, Zenon
    <2> QED BY <1>2, <2>1, <2>2, EscapedFrom, Zenon
  <1>7. CASE /\ Advance(startup.failed)
             /\ held'[f] = Reconciled(f, held[f], startup.wanted)
             /\ again \subseteq missed'
             /\ \A x \in missed : x \in missed' \/ (x[1] = f /\ f \notin {"hysteria", "wireguard"})
    <2>1. ASSUME NEW b \in held'[f] PROVE Answered(f, b.id)'
      <3>1. f \in Engines /\ held[f] \in SUBSET Holding /\ startup.wanted \in SUBSET Allocation
        BY <1>1, <1>2, EnginesListed, Zenon DEF TypeOK, Startups
      <3>2. \/ f = "hysteria" /\ b \in held[f]
            \/ f # "hysteria" /\ b.id \in Ids(startup.wanted)
            \/ f = "wireguard" /\ \E c \in held[f] : c.id = b.id /\ c.slot \in Slots(startup.wanted)
        BY <1>7, <2>1, <3>1, ReconcileInstalls
      <3>3. CASE f # "hysteria" /\ b.id \in Ids(startup.wanted)
        BY <1>5, <1>7, <3>3, Zenon DEF Ids
      <3>4. ASSUME NEW c \in held[f], c.id = b.id, Escapes(f, c)
            PROVE  Answered(f, b.id)'
        <4>1. Answered(f, b.id)
          BY <1>1, <1>2, <3>4, Zenon DEF EscapedIsAnswered
        <4>2. f \in {"hysteria", "wireguard"}
          BY <3>4, Zenon DEF Escapes
        <4> QED BY <1>4, <1>7, <4>1, <4>2, Zenon
      <3> QED BY <3>2, <3>3, <3>4, Zenon DEF Escapes
    <2>2. ASSUME NEW e \in DOMAIN held, e # f, NEW b \in held'[e]
          PROVE  b \in held[e] /\ (Answered(e, b.id) => Answered(e, b.id)')
      BY <1>2, <1>4, <1>7, <2>2, Zenon
    <2>3. ASSUME NEW e \in DOMAIN held, e # f, Pending(e) PROVE Pending(e)'
      <3>1. startup.failed \in BOOLEAN /\ startup.at \in 1 .. Len(Running) /\ Len(Running) \in Nat
        BY <1>1, <1>2, EnginesListed, Zenon DEF TypeOK, Startups
      <3>2. CASE startup.failed
        BY <1>1, <1>2, <1>7, <3>2, AllPending, Zenon
      <3>3. CASE ~ startup.failed
        <4>1. PICK i \in startup.at .. Len(Running) : Running[i] = e
          BY <2>3, <3>3, Zenon DEF Pending
        <4>2. i \in startup.at + 1 .. Len(Running) /\ startup.at < Len(Running)
          BY <1>0, <2>3, <3>1, <4>1
        <4>3. startup'.at = startup.at + 1 /\ ready' = ready
          <5>1. \/ /\ startup.at < Len(Running) /\ startup'.at = startup.at + 1
                   /\ ready' = ready
                \/ startup.at = Len(Running)
            BY <1>1, <1>2, <1>7, <3>1, AdvanceEffect, Zenon
          <5> QED BY <3>1, <4>2, <5>1
        <4> QED BY <1>1, <1>2, <4>1, <4>2, <4>3, Zenon DEF Pending
      <3> QED BY <3>2, <3>3, Zenon
    <2>4. StrayIsAccountedFor'
      <3>1. ASSUME NEW e \in DOMAIN held, NEW b \in held'[e] PROVE Answered(e, b.id)' \/ Pending(e)'
        <4>1. CASE e = f
          BY <2>1, <4>1, Zenon
        <4>2. CASE e # f
          <5>1. Answered(e, b.id) \/ Pending(e)
            BY <1>1, <2>2, <4>2, StrayMeans, Zenon
          <5> QED BY <2>2, <2>3, <4>2, <5>1, Zenon
        <4> QED BY <4>1, <4>2, Zenon
      <3> QED BY <3>1, StrayFrom, Zenon
    <2>5. ASSUME NEW e \in DOMAIN held, NEW b \in held'[e],
                 e = "hysteria" \/ (e = "wireguard" /\ b.slot \in Slots(startup.wanted))
          PROVE  Answered(e, b.id)'
      <3>1. CASE e = f
        BY <2>1, <3>1, Zenon
      <3>2. CASE e # f
        <4>1. Answered(e, b.id)
          BY <1>1, <1>2, <2>2, <2>5, <3>2, Zenon DEF EscapedIsAnswered, Escapes
        <4> QED BY <2>2, <3>2, <4>1, Zenon
      <3> QED BY <3>1, <3>2, Zenon
    <2> QED BY <1>2, <2>4, <2>5, EscapedFrom, Zenon
  <1>8. \/ /\ Advance(TRUE) /\ missed \subseteq missed'
           /\ UNCHANGED held \/ again \subseteq missed'
        \/ /\ Advance(startup.failed)
           /\ held'[f] = Reconciled(f, held[f], startup.wanted)
           /\ again \subseteq missed'
           /\ \A x \in missed : x \in missed' \/ (x[1] = f /\ f \notin {"hysteria", "wireguard"})
    BY <1>0, <1>1, <1>2, EnginesListed, Zenon DEF ReconcileDataPlanes
  <1> QED BY <1>6, <1>7, <1>8, Zenon

\* Every step keeps the stray invariant.
LEMMA StrayNext ==
  ASSUME AccessInv, StrayInv, [Next]_vars
  PROVE  StrayInv'
  <1>1. TypesKept
    BY TypeNext, Zenon DEF AccessInv
  <1>2. SlotsApart'
    BY SlotsApartNext, Zenon DEF AccessInv, StrayInv
  <1>3. StrayIsAccountedFor' /\ EscapedIsAnswered'
    BY <1>1, RunningStray, RestartStray, ReconcileStray, Zenon
  <1> QED BY <1>2, <1>3, Zenon DEF StrayInv

(* Whatever an engine holds belongs to a lease, or a kick or a              *)
(* reconciliation that removes it is still to come, or one of the known     *)
(* ways to miss it happened; a refused enrolment leaves nothing behind.     *)
THEOREM StraysAlwaysAccountedFor == Spec => []StrayIsAccountedFor
  <1>1. Init => AccessInv /\ StrayInv
    <2>1. Init => AccessInv
      BY AccessInit, Zenon
    <2>2. Init => StrayInv
      BY Zenon DEF Init, StrayInv, SlotsApart, StrayIsAccountedFor, EscapedIsAnswered
    <2> QED BY <2>1, <2>2, Zenon
  <1>2. AccessInv /\ StrayInv /\ [Next]_vars => AccessInv' /\ StrayInv'
    BY AccessNext, StrayNext, Zenon
  <1>3. StrayInv => StrayIsAccountedFor
    BY Zenon DEF StrayInv
  <1> QED BY <1>1, <1>2, <1>3, PTL DEF Spec

=============================================================================
