--------------------------- MODULE SharingProofs ---------------------------
(***************************************************************************)
(* What the user is shown of sharing is true, for every number of devices, *)
(* connections and shares: the counters of a share are the connections it  *)
(* has, and on the desktop only the share the controller holds is on.      *)
(***************************************************************************)
EXTENDS Sharing, FiniteSetTheorems, TLAPS

ShareFields ==
    {"listening", "stopped", "over", "address", "port", "connections", "devices",
     "refused", "limiter", "gone", "network", "tries"}

OpenFields == {"stage", "share", "device", "trusted"}
DialFields == {"stage", "share", "device", "host", "kind", "found", "from", "via", "left"}

\* What a connection's task holds at each stage.
Placed(k) ==
    \/ k = Free
    \/ k.stage = "ending" /\ k.share \in Shares
    \/ /\ k.stage = "open" /\ DOMAIN k = OpenFields
       /\ k.share \in Shares /\ k.device \in Devices
    \/ /\ k.stage \in SignedInStages /\ DOMAIN k = DialFields
       /\ k.share \in Shares /\ k.device \in Devices

\* A connection that share s counts, and one it counts for device d.
In(k, s) == k.stage # "free" /\ k.share = s
On(k, s, d) == In(k, s) /\ k.stage \in SignedInStages /\ k.device = d

Num(b) == IF b THEN 1 ELSE 0

\* The counters of a share are those of its connections.
Counted(s) ==
    /\ DOMAIN shares[s] = ShareFields
    /\ DOMAIN shares[s].devices = Devices
    /\ IsFiniteSet(Open(s))
    /\ shares[s].connections = Cardinality(Open(s))
    /\ shares[s].connections <= MAX_CONNECTIONS
    /\ \A d \in Devices : shares[s].devices[d] = Cardinality(SignedIn(s, d))

\* On the desktop the share that is on is the controller's.  A command holds
\* the lock only once it has taken the share out of the controller, and the
\* disconnect that holds it has stopped all it has to.
OnlyHeldIsOn ==
    front = "desktop" =>
        /\ \A s \in Shares : ~shares[s].stopped => s = session
        /\ op.kind # "none" => session = 0
        /\ op.kind = "disconnect" => quit = "stopping"
        /\ op.kind = "disconnect" \/ quit = "done" => \A s \in due : shares[s].stopped

\* The part of the invariant that connections disturb.
CountsInv ==
    /\ \E T : shares \in Seq(T)
    /\ DOMAIN conns = Slots
    /\ \A c \in Slots : Placed(conns[c])
    /\ \A s \in Shares : Counted(s)

\* The part that commands disturb.
HeldInv == world \in DOMAIN Worlds /\ due \subseteq Shares /\ OnlyHeldIsOn

ShareInv == CountsInv /\ HeldInv

-----------------------------------------------------------------------------
(* What a change of one connection does to the sets that are counted. *)

\* Two sets that differ at most in one element.
SameBut(S, T, x) == \A y : y # x => (y \in T <=> y \in S)

\* Their sizes then differ by that element.
LEMMA OneMore ==
    ASSUME NEW S, IsFiniteSet(S), NEW T, NEW x, SameBut(S, T, x)
    PROVE  /\ IsFiniteSet(T)
           /\ Cardinality(S) \in Nat /\ Cardinality(T) \in Nat
           /\ Cardinality(T) = Cardinality(S) + Num(x \in T) - Num(x \in S)
<1>1. CASE x \in T
  <2>1. T = S \cup {x}
    BY <1>1, Zenon DEF SameBut
  <2>2. /\ IsFiniteSet(T)
        /\ Cardinality(T) = IF x \in S THEN Cardinality(S) ELSE Cardinality(S) + 1
    BY <2>1, FS_AddElement, Zenon
  <2>3. Cardinality(S) \in Nat /\ Cardinality(T) \in Nat
    BY <2>2, FS_CardinalityType, Zenon
  <2> QED BY <1>1, <2>2, <2>3, SMT DEF Num
<1>2. CASE x \notin T
  <2>1. T = S \ {x}
    BY <1>2, Zenon DEF SameBut
  <2>2. /\ IsFiniteSet(T)
        /\ Cardinality(T) = IF x \in S THEN Cardinality(S) - 1 ELSE Cardinality(S)
    BY <2>1, FS_RemoveElement, Zenon
  <2>3. Cardinality(S) \in Nat /\ Cardinality(T) \in Nat
    BY <2>2, FS_CardinalityType, Zenon
  <2> QED BY <1>2, <2>2, <2>3, SMT DEF Num
<1> QED BY <1>1, <1>2, Zenon

\* The connections share s counts, of the tasks f, for all devices and for one.
OpenOf(f, s) == {c \in Slots : In(f[c], s)}
SignedInOf(f, s, d) == {c \in Slots : On(f[c], s, d)}

\* The sets of the model are these, of the tasks before and after a step.
LEMMA OpenAre ==
    ASSUME NEW s, NEW d
    PROVE  /\ Open(s) = OpenOf(conns, s) /\ Open(s)' = OpenOf(conns', s)
           /\ SignedIn(s, d) = SignedInOf(conns, s, d)
           /\ SignedIn(s, d)' = SignedInOf(conns', s, d)
  BY Zenon DEF Open, SignedIn, In, On, OpenOf, SignedInOf

\* The tasks g are f, but for c, which is at k.
Becomes(f, g, c, k) == DOMAIN f = Slots /\ c \in Slots /\ g = [f EXCEPT ![c] = k]

\* One connection becomes k: the counts of a share move by what k adds and
\* what the connection was.
LEMMA OneConnection ==
    ASSUME NEW f, NEW g, NEW c, NEW k, Becomes(f, g, c, k),
           NEW s, IsFiniteSet(OpenOf(f, s)), NEW d
    PROVE  /\ IsFiniteSet(OpenOf(g, s))
           /\ Cardinality(OpenOf(g, s)) =
                 Cardinality(OpenOf(f, s)) + Num(In(k, s)) - Num(In(f[c], s))
           /\ Cardinality(SignedInOf(g, s, d)) =
                 Cardinality(SignedInOf(f, s, d)) + Num(On(k, s, d)) - Num(On(f[c], s, d))
<1>1. c \in Slots /\ \A e \in Slots : g[e] = IF e = c THEN k ELSE f[e]
  BY Zenon DEF Becomes
<1>2. /\ SameBut(OpenOf(f, s), OpenOf(g, s), c)
      /\ c \in OpenOf(f, s) <=> In(f[c], s)
      /\ c \in OpenOf(g, s) <=> In(k, s)
  BY <1>1, SMT DEF SameBut, OpenOf
<1>3. /\ SameBut(SignedInOf(f, s, d), SignedInOf(g, s, d), c)
      /\ c \in SignedInOf(f, s, d) <=> On(f[c], s, d)
      /\ c \in SignedInOf(g, s, d) <=> On(k, s, d)
  BY <1>1, SMT DEF SameBut, SignedInOf
<1>4. SignedInOf(f, s, d) \subseteq OpenOf(f, s)
  BY Zenon DEF SignedInOf, OpenOf, On
<1>5. IsFiniteSet(SignedInOf(f, s, d))
  BY <1>4, FS_Subset, Zenon
<1>6. /\ IsFiniteSet(OpenOf(g, s))
      /\ Cardinality(OpenOf(g, s)) =
            Cardinality(OpenOf(f, s)) + Num(c \in OpenOf(g, s)) - Num(c \in OpenOf(f, s))
  BY <1>2, OneMore, SMT
<1>7. Cardinality(SignedInOf(g, s, d)) = Cardinality(SignedInOf(f, s, d))
         + Num(c \in SignedInOf(g, s, d)) - Num(c \in SignedInOf(f, s, d))
  BY <1>3, <1>5, OneMore, SMT
<1>8. Num(c \in OpenOf(g, s)) = Num(In(k, s)) /\ Num(c \in OpenOf(f, s)) = Num(In(f[c], s))
  BY <1>2, Zenon DEF Num
<1>9. /\ Num(c \in SignedInOf(g, s, d)) = Num(On(k, s, d))
      /\ Num(c \in SignedInOf(f, s, d)) = Num(On(f[c], s, d))
  BY <1>3, Zenon DEF Num
<1> QED BY <1>6, <1>7, <1>8, <1>9, Zenon

-----------------------------------------------------------------------------
(* The two kinds of steps. *)

\* The shares stay the same but for what they hold.
Rewritten == shares' = [s \in Shares |-> shares'[s]]

\* A connection becomes k and its share counts that.
Moves(c, k) ==
    /\ conns' = [conns EXCEPT ![c] = k]
    /\ Placed(k)
    /\ Rewritten
    /\ \A s \in Shares :
          /\ DOMAIN shares'[s] = ShareFields
          /\ DOMAIN shares'[s].devices = Devices
          /\ shares'[s].stopped = shares[s].stopped
          /\ shares'[s].connections =
                shares[s].connections + Num(In(k, s)) - Num(In(conns[c], s))
          /\ shares'[s].connections <= MAX_CONNECTIONS
          /\ \A d \in Devices :
                shares'[s].devices[d] =
                   shares[s].devices[d] + Num(On(k, s, d)) - Num(On(conns[c], s, d))

\* No connection changes, and no count.
Stays ==
    /\ conns' = conns
    /\ Rewritten
    /\ \A s \in Shares :
          /\ DOMAIN shares'[s] = ShareFields
          /\ shares'[s].connections = shares[s].connections
          /\ shares'[s].devices = shares[s].devices

\* Rewriting shares leaves their numbers as they are.
LEMMA StillShares ==
    ASSUME \E T : shares \in Seq(T), Rewritten
    PROVE  (\E T : shares \in Seq(T))' /\ Shares' = Shares
<1>1. PICK T : shares \in Seq(T)
  BY Zenon
<1>2. Len(shares) \in Nat /\ Shares = 1..Len(shares)
  BY <1>1, SMT DEF Shares
<1> DEFINE U == {shares'[s] : s \in Shares}
<1>3. shares' \in [1..Len(shares) -> U]
  BY <1>2, SMT DEF Rewritten
<1> HIDE DEF U
<1>4. shares' \in Seq(U)
  BY <1>2, <1>3, SMT
<1>5. Shares' = Shares
  BY Zenon DEF Rewritten, Shares
<1> QED BY <1>4, <1>5, Zenon

\* A move keeps the counts true.
LEMMA MovesCount ==
    ASSUME CountsInv, NEW c \in Slots, NEW k, Moves(c, k)
    PROVE  CountsInv'
<1>1. (\E T : shares \in Seq(T))' /\ Shares' = Shares
  BY StillShares, Zenon DEF CountsInv, Moves
<1>2. (DOMAIN conns = Slots)' /\ \A e \in Slots : conns'[e] = IF e = c THEN k ELSE conns[e]
  BY Zenon DEF CountsInv, Moves
<1>3. (\A e \in Slots : Placed(conns[e]))'
  BY <1>1, <1>2, Zenon DEF CountsInv, Moves, Placed
<1>4. ASSUME NEW s \in Shares PROVE Counted(s)'
  <2>1. /\ IsFiniteSet(OpenOf(conns, s))
        /\ shares[s].connections = Cardinality(OpenOf(conns, s))
        /\ \A d \in Devices : shares[s].devices[d] = Cardinality(SignedInOf(conns, s, d))
    BY OpenAre, Zenon DEF CountsInv, Counted
  <2>2. Becomes(conns, conns', c, k)
    BY Zenon DEF CountsInv, Moves, Becomes
  <2>3. ASSUME NEW d
        PROVE  /\ IsFiniteSet(OpenOf(conns', s))
               /\ Cardinality(OpenOf(conns', s)) = Cardinality(OpenOf(conns, s))
                     + Num(In(k, s)) - Num(In(conns[c], s))
               /\ Cardinality(SignedInOf(conns', s, d)) = Cardinality(SignedInOf(conns, s, d))
                     + Num(On(k, s, d)) - Num(On(conns[c], s, d))
    BY <2>1, <2>2, OneConnection, SMT
  <2>4. shares'[s].connections = Cardinality(OpenOf(conns', s))
    BY <2>1, <2>3, Zenon DEF Moves
  <2>5. \A d \in Devices : shares'[s].devices[d] = Cardinality(SignedInOf(conns', s, d))
    BY <2>1, <2>3, Zenon DEF Moves
  <2> QED BY <2>3, <2>4, <2>5, OpenAre, Zenon DEF Counted, Moves
<1> QED BY <1>1, <1>2, <1>3, <1>4, Zenon DEF CountsInv

\* A step that leaves connections and counts alone keeps them true.
LEMMA StaysCount ==
    ASSUME CountsInv, Stays
    PROVE  CountsInv'
<1>1. (\E T : shares \in Seq(T))' /\ Shares' = Shares
  BY StillShares, Zenon DEF CountsInv, Stays
<1>2. (DOMAIN conns = Slots)' /\ (\A e \in Slots : Placed(conns[e]))'
  BY <1>1, Zenon DEF CountsInv, Stays, Placed
<1>3. ASSUME NEW s \in Shares PROVE Counted(s)'
  <2>1. Open(s)' = Open(s) /\ \A d \in Devices : SignedIn(s, d)' = SignedIn(s, d)
    BY Zenon DEF Stays, Open, SignedIn
  <2> QED BY <2>1, Zenon DEF CountsInv, Counted, Stays
<1> QED BY <1>1, <1>2, <1>3, Zenon DEF CountsInv

\* What the controller holds is as it was while shares only stop.
LEMMA StillHeld ==
    ASSUME HeldInv, UNCHANGED <<world, session, op, quit, due>>, Shares' = Shares,
           \A s \in Shares : shares[s].stopped => shares'[s].stopped
    PROVE  HeldInv'
  BY Zenon DEF HeldInv, OnlyHeldIsOn, front, The

-----------------------------------------------------------------------------
(* The steps of a connection. *)

\* The shape and the bounds of the counters of a share.
LEMMA CountTypes ==
    ASSUME CountsInv, NEW s \in Shares
    PROVE  /\ DOMAIN shares[s] = ShareFields /\ DOMAIN shares[s].devices = Devices
           /\ shares[s].connections \in Nat /\ shares[s].connections <= MAX_CONNECTIONS
           /\ \A d \in Devices : shares[s].devices[d] \in Nat
<1>1. Counted(s)
  BY Zenon DEF CountsInv
<1>2. \A d \in Devices : SignedIn(s, d) \subseteq Open(s)
  BY Zenon DEF SignedIn
<1>3. /\ Cardinality(Open(s)) \in Nat
      /\ \A d \in Devices : Cardinality(SignedIn(s, d)) \in Nat
  BY <1>1, <1>2, FS_Subset, FS_CardinalityType, Zenon DEF Counted
<1> QED BY <1>1, <1>3, Zenon DEF Counted

\* The shares stay a function of their numbers when one of them is written.
Wrote(s, r) == shares' = [shares EXCEPT ![s] = r]

\* What Wrote says of each share.
LEMMA OneShare ==
    ASSUME NEW s, NEW r, Wrote(s, r)
    PROVE  /\ Rewritten
           /\ \A e \in Shares : shares'[e] = IF e = s THEN r ELSE shares[e]
  BY Zenon DEF Wrote, Rewritten, Shares

\* The end of serve: the device is counted off, the connection not yet.
LEMMA EndsMoves ==
    ASSUME CountsInv, NEW c \in Slots, conns[c].stage \notin {"free", "ending"},
           NEW told, NEW about, Ends(c, told, about)
    PROVE  Moves(c, Ending(conns[c], told, about))
<1> DEFINE k == Ending(conns[c], told, about)
           o == conns[c]
<1>1. Placed(o)
  BY Zenon DEF CountsInv
<1>2. o.stage \in SignedInStages => o.device \in Devices
  BY <1>1, SMT DEF Placed, SignedInStages, Free
<1>3. o.share \in Shares
  BY <1>1, SMT DEF Placed, Free
<1>4. k.stage = "ending" /\ k.share = o.share
  BY Zenon DEF Ending
<1>5. Placed(k) /\ conns' = [conns EXCEPT ![c] = k]
  BY <1>3, <1>4, Zenon DEF Placed, Ends
<1>6. \A s : Num(In(k, s)) = Num(In(o, s)) /\ \A d : Num(On(k, s, d)) = 0
  BY <1>4, SMT DEF In, On, Num, SignedInStages
<1>7. /\ Rewritten
      /\ \A s \in Shares :
            shares'[s] = IF s = o.share THEN Dropped(shares[s], o) ELSE shares[s]
  <2>1. Wrote(o.share, Dropped(shares[o.share], o))
    BY Zenon DEF Ends, Wrote
  <2>2. \A s \in Shares : shares'[s] =
           IF s = o.share THEN Dropped(shares[o.share], o) ELSE shares[s]
    BY <2>1, OneShare, Zenon
  <2> QED BY <2>1, <2>2, OneShare, Zenon
<1>8. ASSUME NEW s \in Shares
      PROVE  /\ DOMAIN shares'[s] = ShareFields /\ DOMAIN shares'[s].devices = Devices
             /\ shares'[s].stopped = shares[s].stopped
             /\ shares'[s].connections = shares[s].connections
             /\ \A d \in Devices :
                   shares'[s].devices[d] = shares[s].devices[d] - Num(On(o, s, d))
  <2>1. /\ DOMAIN shares[s] = ShareFields /\ DOMAIN shares[s].devices = Devices
        /\ \A d \in Devices : shares[s].devices[d] \in Nat
    BY CountTypes, Zenon
  <2>2. CASE s = o.share /\ o.stage \in SignedInStages
    <3>1. shares'[s] = [shares[s] EXCEPT !.devices[o.device] = @ - 1]
      BY <1>7, <2>2, Zenon DEF Dropped
    <3>2. \A d : Num(On(o, s, d)) = IF d = o.device THEN 1 ELSE 0
      BY <2>2, SMT DEF On, In, Num, SignedInStages
    <3> HIDE DEF o
    <3> QED BY <1>2, <2>1, <2>2, <3>1, <3>2, SMT DEF ShareFields
  <2>3. CASE ~(s = o.share /\ o.stage \in SignedInStages)
    <3>1. shares'[s] = shares[s]
      BY <1>7, <2>3, Zenon DEF Dropped
    <3>2. \A d : Num(On(o, s, d)) = 0
      BY <2>3, Zenon DEF On, In, Num
    <3> QED BY <2>1, <3>1, <3>2, SMT
  <2> QED BY <2>2, <2>3, Zenon
<1>9. ASSUME NEW s \in Shares
       PROVE  /\ shares'[s].connections =
                    shares[s].connections + Num(In(k, s)) - Num(In(o, s))
              /\ shares'[s].connections <= MAX_CONNECTIONS
              /\ \A d \in Devices : shares'[s].devices[d] =
                    shares[s].devices[d] + Num(On(k, s, d)) - Num(On(o, s, d))
  <2>1. /\ shares[s].connections \in Nat /\ shares[s].connections <= MAX_CONNECTIONS
        /\ \A d \in Devices : shares[s].devices[d] \in Nat
    BY CountTypes, Zenon
  <2>2. Num(In(o, s)) \in Nat /\ \A d : Num(On(o, s, d)) \in Nat
    BY SMT DEF Num
  <2> HIDE DEF k, o
  <2> QED BY <1>6, <1>8, <2>1, <2>2, SMT
<1> QED BY <1>5, <1>7, <1>8, <1>9, Zenon DEF Moves

\* From one stage of a signed-in connection to another.
Restages(c, k) ==
    /\ GoesOn(c, k)
    /\ k.stage \in SignedInStages /\ DOMAIN k = DOMAIN conns[c]
    /\ k.share = conns[c].share /\ k.device = conns[c].device

\* Such a step changes no counter, so the counts stay those of the tasks.
LEMMA StageMoves ==
    ASSUME CountsInv, NEW c \in Slots, conns[c].stage \in SignedInStages,
           NEW k, Restages(c, k)
    PROVE  Moves(c, k)
<1>1. Placed(conns[c])
  BY Zenon DEF CountsInv
<1>2. Placed(k)
  BY <1>1, SMT DEF Placed, SignedInStages, Free, Restages
<1>3. \A s : In(k, s) <=> In(conns[c], s)
  BY SMT DEF In, SignedInStages, Restages
<1>4. \A s, d : On(k, s, d) <=> On(conns[c], s, d)
  BY <1>3, Zenon DEF On, Restages
<1>5. \A s : /\ Num(In(k, s)) \in Nat /\ Num(In(k, s)) = Num(In(conns[c], s))
             /\ \A d : /\ Num(On(k, s, d)) \in Nat
                       /\ Num(On(k, s, d)) = Num(On(conns[c], s, d))
  BY <1>3, <1>4, SMT DEF Num
<1>6. ASSUME NEW s \in Shares
      PROVE  /\ shares[s].connections =
                   shares[s].connections + Num(In(k, s)) - Num(In(conns[c], s))
             /\ \A d \in Devices : shares[s].devices[d] =
                   shares[s].devices[d] + Num(On(k, s, d)) - Num(On(conns[c], s, d))
  <2>1. shares[s].connections \in Nat /\ \A d \in Devices : shares[s].devices[d] \in Nat
    BY CountTypes, Zenon
  <2> QED BY <1>5, <2>1, SMT
<1>7. PICK T : shares \in Seq(T)
  BY Zenon DEF CountsInv
<1>8. Rewritten
  BY <1>7, SMT DEF Rewritten, Shares, Restages, GoesOn
<1> QED BY <1>2, <1>6, <1>8, CountTypes, Zenon DEF Moves, Restages, GoesOn

\* A handshake that signs in counts its device.
LEMMA SignsMoves ==
    ASSUME CountsInv, NEW c \in Slots, conns[c].stage = "open",
           NEW target, Signs(c, target)
    PROVE  \E k : Moves(c, k)
<1> DEFINE o == conns[c]
           k == [stage |-> "dial", share |-> o.share, device |-> o.device,
                 host |-> target.host, kind |-> target.kind, found |-> <<>>,
                 from |-> "none", via |-> "none", left |-> 0]
<1>1. o.share \in Shares /\ o.device \in Devices
  BY SMT DEF CountsInv, Placed, Free, SignedInStages
<1>2. DOMAIN k = DialFields
  BY SMT DEF DialFields
<1>3. k.stage = "dial" /\ k.share = o.share /\ k.device = o.device
  BY Zenon
<1>4. conns' = [conns EXCEPT ![c] = k]
  BY Zenon DEF Signs
<1> HIDE DEF k
<1>5. Placed(k)
  BY <1>1, <1>2, <1>3, SMT DEF Placed, SignedInStages
<1>6. \A s, d : /\ Num(In(k, s)) \in Nat /\ Num(In(o, s)) = Num(In(k, s))
                /\ Num(On(o, s, d)) = 0
                /\ Num(On(k, s, d)) = IF s = o.share /\ d = o.device THEN 1 ELSE 0
  BY <1>3, SMT DEF In, On, Num, SignedInStages
<1>7. /\ Rewritten
      /\ \A s \in Shares :
            shares'[s] = IF s = o.share THEN Signed(shares[s], o.device) ELSE shares[s]
  <2>1. Wrote(o.share, Signed(shares[o.share], o.device))
    BY Zenon DEF Signs, Wrote
  <2>2. \A s \in Shares : shares'[s] =
           IF s = o.share THEN Signed(shares[o.share], o.device) ELSE shares[s]
    BY <2>1, OneShare, Zenon
  <2> QED BY <2>1, <2>2, OneShare, Zenon
<1>8. ASSUME NEW s \in Shares
      PROVE  /\ DOMAIN shares'[s] = ShareFields /\ DOMAIN shares'[s].devices = Devices
             /\ shares'[s].stopped = shares[s].stopped
             /\ shares'[s].connections = shares[s].connections
             /\ \A d \in Devices : shares'[s].devices[d] =
                   shares[s].devices[d] + Num(On(k, s, d))
  <2>1. /\ DOMAIN shares[s] = ShareFields /\ DOMAIN shares[s].devices = Devices
        /\ \A d \in Devices : shares[s].devices[d] \in Nat
    BY CountTypes, Zenon
  <2>2. CASE s # o.share
    <3>1. shares'[s] = shares[s] /\ \A d : Num(On(k, s, d)) = 0
      BY <1>6, <1>7, <2>2, Zenon
    <3> QED BY <2>1, <3>1, SMT
  <2>3. CASE s = o.share
    <3>1. shares'[s] = Signed(shares[s], o.device)
      BY <1>7, <2>3, Zenon
    <3>2. \A d : Num(On(k, s, d)) = IF d = o.device THEN 1 ELSE 0
      BY <1>6, <2>3, Zenon
    <3> HIDE DEF o
    <3> QED BY <1>1, <2>1, <3>1, <3>2, SMT DEF ShareFields, Signed
  <2> QED BY <2>2, <2>3, Zenon
<1>9. ASSUME NEW s \in Shares
      PROVE  /\ shares'[s].connections =
                   shares[s].connections + Num(In(k, s)) - Num(In(o, s))
             /\ shares'[s].connections <= MAX_CONNECTIONS
             /\ \A d \in Devices : shares'[s].devices[d] =
                   shares[s].devices[d] + Num(On(k, s, d)) - Num(On(o, s, d))
  <2>1. /\ shares[s].connections \in Nat /\ shares[s].connections <= MAX_CONNECTIONS
        /\ \A d \in Devices : shares[s].devices[d] \in Nat
    BY CountTypes, Zenon
  <2> HIDE DEF o
  <2> QED BY <1>6, <1>8, <2>1, SMT
<1>10. Moves(c, k)
  BY <1>4, <1>5, <1>7, <1>8, <1>9, Zenon DEF Moves
<1> QED BY <1>10, Zenon

\* A refused handshake changes no count.
LEMMA RefusesMoves ==
    ASSUME CountsInv, NEW c \in Slots, conns[c].stage = "open",
           NEW refusal, NEW told, Refuses(c, refusal, told)
    PROVE  \E k : Moves(c, k)
<1> DEFINE o == conns[c]
           k == Ending(o, told, <<>>)
<1>1. o.share \in Shares
  BY SMT DEF CountsInv, Placed, Free, SignedInStages
<1>2. k.stage = "ending" /\ k.share = o.share
  BY Zenon DEF Ending
<1>3. Placed(k) /\ conns' = [conns EXCEPT ![c] = k]
  BY <1>1, <1>2, Zenon DEF Placed, Refuses
<1>4. \A s, d : /\ Num(In(k, s)) \in Nat /\ Num(In(o, s)) = Num(In(k, s))
                /\ Num(On(o, s, d)) = 0 /\ Num(On(k, s, d)) = 0
  BY <1>2, SMT DEF In, On, Num, SignedInStages
<1>5. /\ Rewritten
      /\ \A s \in Shares : shares'[s] = IF s = o.share
            THEN note_refusal(shares[s], o.device, refusal, o.trusted) ELSE shares[s]
  <2>1. Wrote(o.share, note_refusal(shares[o.share], o.device, refusal, o.trusted))
    BY Zenon DEF Refuses, Wrote
  <2>2. \A s \in Shares : shares'[s] = IF s = o.share
           THEN note_refusal(shares[o.share], o.device, refusal, o.trusted) ELSE shares[s]
    BY <2>1, OneShare, Zenon
  <2> QED BY <2>1, <2>2, OneShare, Zenon
<1>6. ASSUME NEW s \in Shares
      PROVE  /\ DOMAIN shares'[s] = ShareFields
             /\ shares'[s].devices = shares[s].devices
             /\ shares'[s].stopped = shares[s].stopped
             /\ shares'[s].connections = shares[s].connections
  <2>1. DOMAIN shares[s] = ShareFields
    BY CountTypes, Zenon
  <2>2. shares'[s] = IF s = o.share
          THEN note_refusal(shares[s], o.device, refusal, o.trusted) ELSE shares[s]
    BY <1>5, Zenon
  <2> QED BY <2>1, <2>2, SMT DEF note_refusal, ShareFields
<1>7. ASSUME NEW s \in Shares
      PROVE  /\ shares'[s].connections =
                   shares[s].connections + Num(In(k, s)) - Num(In(o, s))
             /\ shares'[s].connections <= MAX_CONNECTIONS
             /\ \A d \in Devices : shares'[s].devices[d] =
                   shares[s].devices[d] + Num(On(k, s, d)) - Num(On(o, s, d))
             /\ DOMAIN shares'[s].devices = Devices
  <2>1. /\ shares[s].connections \in Nat /\ shares[s].connections <= MAX_CONNECTIONS
        /\ \A d \in Devices : shares[s].devices[d] \in Nat
        /\ DOMAIN shares[s].devices = Devices
    BY CountTypes, Zenon
  <2> HIDE DEF o, k
  <2> QED BY <1>4, <1>6, <2>1, SMT
<1>8. Moves(c, k)
  BY <1>3, <1>5, <1>6, <1>7, Zenon DEF Moves
<1> QED BY <1>8, Zenon

\* The end of a task counts the connection off.
LEMMA GoneMoves ==
    ASSUME CountsInv, NEW c \in Slots, Gone(c)
    PROVE  Moves(c, Free)
<1> DEFINE o == conns[c]
<1>1. o.stage = "ending" /\ o.share \in Shares
  BY SMT DEF CountsInv, Placed, Free, SignedInStages, Gone
<1>2. Placed(Free) /\ conns' = [conns EXCEPT ![c] = Free]
  BY Zenon DEF Placed, Gone
<1>3. \A s, d : /\ Num(In(Free, s)) = 0 /\ Num(In(o, s)) = IF s = o.share THEN 1 ELSE 0
                /\ Num(On(o, s, d)) = 0 /\ Num(On(Free, s, d)) = 0
  BY <1>1, SMT DEF In, On, Num, SignedInStages, Free
<1>4. Wrote(o.share, [shares[o.share] EXCEPT !.connections = @ - 1])
  BY Zenon DEF Gone, Wrote
<1>5. /\ Rewritten
      /\ \A s \in Shares : shares'[s] = IF s = o.share
            THEN [shares[o.share] EXCEPT !.connections = @ - 1] ELSE shares[s]
  BY <1>4, OneShare, Zenon
<1>6. ASSUME NEW s \in Shares
      PROVE  /\ DOMAIN shares'[s] = ShareFields
             /\ shares'[s].devices = shares[s].devices
             /\ shares'[s].stopped = shares[s].stopped
             /\ shares'[s].connections =
                   IF s = o.share THEN shares[s].connections - 1 ELSE shares[s].connections
  <2>1. DOMAIN shares[s] = ShareFields
    BY CountTypes, Zenon
  <2> QED BY <1>5, <2>1, SMT DEF ShareFields
<1>7. ASSUME NEW s \in Shares
      PROVE  /\ shares'[s].connections =
                   shares[s].connections + Num(In(Free, s)) - Num(In(o, s))
             /\ shares'[s].connections <= MAX_CONNECTIONS
             /\ \A d \in Devices : shares'[s].devices[d] =
                   shares[s].devices[d] + Num(On(Free, s, d)) - Num(On(o, s, d))
             /\ DOMAIN shares'[s].devices = Devices
  <2>1. /\ shares[s].connections \in Nat /\ shares[s].connections <= MAX_CONNECTIONS
        /\ \A d \in Devices : shares[s].devices[d] \in Nat
        /\ DOMAIN shares[s].devices = Devices
    BY CountTypes, Zenon
  <2> HIDE DEF o
  <2> QED BY <1>3, <1>6, <2>1, LimitsAreOrdered, SMT
<1> QED BY <1>2, <1>5, <1>6, <1>7, Zenon DEF Moves

\* A connection that gets a task is counted.
LEMMA AcceptMoves ==
    ASSUME CountsInv, NEW c \in Slots, NEW s \in Shares, NEW d \in Devices, NEW b,
           conns[c] = Free, shares[s].connections < MAX_CONNECTIONS,
           Wrote(s, Admitted(shares[s])),
           conns' = [conns EXCEPT ![c] =
              [stage |-> "open", share |-> s, device |-> d, trusted |-> b]]
    PROVE  \E k : Moves(c, k)
<1> DEFINE k == [stage |-> "open", share |-> s, device |-> d, trusted |-> b]
<1>1. k.stage = "open" /\ k.share = s /\ k.device = d /\ DOMAIN k = OpenFields
  BY SMT DEF OpenFields
<1>2. conns' = [conns EXCEPT ![c] = k]
  BY Zenon
<1> HIDE DEF k
<1>3. Placed(k)
  BY <1>1, Zenon DEF Placed
<1>4. \A t, e : /\ Num(In(conns[c], t)) = 0 /\ Num(On(conns[c], t, e)) = 0
                /\ Num(In(k, t)) = IF t = s THEN 1 ELSE 0
                /\ Num(On(k, t, e)) = 0
  BY <1>1, SMT DEF In, On, Num, SignedInStages, Free
<1>5. /\ Rewritten
      /\ \A t \in Shares : shares'[t] = IF t = s THEN Admitted(shares[s]) ELSE shares[t]
  BY OneShare, Zenon
<1>6. ASSUME NEW t \in Shares
      PROVE  /\ DOMAIN shares'[t] = ShareFields
             /\ shares'[t].devices = shares[t].devices
             /\ shares'[t].stopped = shares[t].stopped
             /\ shares'[t].connections =
                   IF t = s THEN shares[t].connections + 1 ELSE shares[t].connections
  <2>1. DOMAIN shares[t] = ShareFields
    BY CountTypes, Zenon
  <2>2. CASE t = s
    <3>1. shares'[t] = Admitted(shares[t])
      BY <1>5, <2>2, Zenon
    <3> QED BY <2>1, <2>2, <3>1, SMT DEF ShareFields, Admitted
  <2>3. CASE t # s
    BY <1>5, <2>1, <2>3, SMT
  <2> QED BY <2>2, <2>3, Zenon
<1>7. ASSUME NEW t \in Shares
      PROVE  /\ shares'[t].connections =
                   shares[t].connections + Num(In(k, t)) - Num(In(conns[c], t))
             /\ shares'[t].connections <= MAX_CONNECTIONS
             /\ \A e \in Devices : shares'[t].devices[e] =
                   shares[t].devices[e] + Num(On(k, t, e)) - Num(On(conns[c], t, e))
             /\ DOMAIN shares'[t].devices = Devices
  <2>1. /\ shares[t].connections \in Nat /\ shares[t].connections <= MAX_CONNECTIONS
        /\ \A e \in Devices : shares[t].devices[e] \in Nat
        /\ DOMAIN shares[t].devices = Devices
    BY CountTypes, Zenon
  <2> QED BY <1>4, <1>6, <2>1, LimitsAreOrdered, SMT
<1>8. Moves(c, k)
  BY <1>2, <1>3, <1>5, <1>6, <1>7, Zenon DEF Moves
<1> QED BY <1>8, Zenon

\* The fields of a connection that has signed in, which is still served.
LEMMA InDial ==
    ASSUME CountsInv, NEW c \in Slots, conns[c].stage \in SignedInStages
    PROVE  DOMAIN conns[c] = DialFields /\ conns[c].stage \notin {"free", "ending"}
  BY SMT DEF CountsInv, Placed, SignedInStages, Free

\* A signed-in connection that is answered with an error ends.
LEMMA FailsMoves ==
    ASSUME CountsInv, NEW c \in Slots, conns[c].stage \in SignedInStages,
           NEW failure, NEW about, Fails(c, failure, about)
    PROVE  \E k : Moves(c, k)
  BY InDial, EndsMoves, Zenon DEF Fails

\* Addresses the share may reach: on to the connect, or an error (Dials).
LEMMA DialsMoves ==
    ASSUME CountsInv, NEW c \in Slots, conns[c].stage \in SignedInStages,
           NEW addresses, NEW origin, NEW from, Dials(c, addresses, origin, from)
    PROVE  \E k : Moves(c, k)
<1> DEFINE good == Allowed(addresses, origin)
           found == SubSeq(good, 1, IF Len(good) < MAX_ADDRESSES_TRIED THEN Len(good)
                                    ELSE MAX_ADDRESSES_TRIED)
           k == [conns[c] EXCEPT !.stage = "connect", !.via = "none", !.left = 0,
                                 !.from = from, !.found = found]
<1>1. CASE good = <<>>
  BY <1>1, FailsMoves, Zenon DEF Dials
<1>2. CASE good # <<>>
  <2>1. GoesOn(c, k)
    BY <1>2, Zenon DEF Dials
  <2> HIDE DEF found
  <2>2. /\ k.stage = "connect" /\ DOMAIN k = DOMAIN conns[c]
        /\ k.share = conns[c].share /\ k.device = conns[c].device
    BY InDial, SMT DEF DialFields
  <2> HIDE DEF k
  <2>3. Restages(c, k)
    BY <2>1, <2>2, Zenon DEF Restages, SignedInStages
  <2> QED BY <2>3, StageMoves, Zenon
<1> QED BY <1>1, <1>2, Zenon

\* dial: the target is an address, a name to look up, or refused.
LEMMA DialMoves ==
    ASSUME CountsInv, NEW c \in Slots, dial(c)
    PROVE  \E k : Moves(c, k)
<1>1. conns[c].stage \in SignedInStages
  BY Zenon DEF dial, SignedInStages
<1> DEFINE tunnel == current_tunnel(conns[c].share)
           left == IF front = "desktop" THEN TRIES * Resolvers(tunnel) ELSE 1
           k == [conns[c] EXCEPT !.stage = "lookup", !.via = tunnel, !.left = left]
<1>2. \/ \E failure, about : Fails(c, failure, about)
      \/ \E addresses, origin, from : Dials(c, addresses, origin, from)
      \/ GoesOn(c, k)
  BY Zenon DEF dial
<1>3. CASE GoesOn(c, k)
  <2> HIDE DEF tunnel, left
  <2>1. /\ k.stage = "lookup" /\ DOMAIN k = DOMAIN conns[c]
        /\ k.share = conns[c].share /\ k.device = conns[c].device
    BY <1>1, InDial, SMT DEF DialFields
  <2> HIDE DEF k
  <2>2. Restages(c, k)
    BY <1>3, <2>1, Zenon DEF Restages, SignedInStages
  <2> QED BY <1>1, <2>2, StageMoves, Zenon
<1> HIDE DEF k
<1> QED BY <1>1, <1>2, <1>3, FailsMoves, DialsMoves, Zenon

\* resolve: an answer, one more try, or no try left.
LEMMA LookupMoves ==
    ASSUME CountsInv, NEW c \in Slots, NEW reply,
           LookupReads(c, reply) \/ LookupTriesAgain(c) \/ LookupFails(c)
    PROVE  \E k : Moves(c, k)
<1>1. conns[c].stage \in SignedInStages
  BY Zenon DEF LookupReads, LookupTriesAgain, LookupFails, SignedInStages
<1> DEFINE k == [conns[c] EXCEPT !.left = @ - 1]
<1>2. \/ \E failure, about : Fails(c, failure, about)
      \/ \E addresses, origin, from : Dials(c, addresses, origin, from)
      \/ GoesOn(c, k)
  BY Zenon DEF LookupReads, LookupTriesAgain, LookupFails
<1>3. CASE GoesOn(c, k)
  <2>1. /\ k.stage = conns[c].stage /\ DOMAIN k = DOMAIN conns[c]
        /\ k.share = conns[c].share /\ k.device = conns[c].device
    BY <1>1, InDial, SMT DEF DialFields
  <2> HIDE DEF k
  <2>2. Restages(c, k)
    BY <1>1, <1>3, <2>1, Zenon DEF Restages
  <2> QED BY <1>1, <2>2, StageMoves, Zenon
<1> HIDE DEF k
<1> QED BY <1>1, <1>2, <1>3, FailsMoves, DialsMoves, Zenon

\* The connects of a dial, one address after the other.
LEMMA ConnectMoves ==
    ASSUME CountsInv, NEW c \in Slots,
           connect(c) \/ ConnectSucceeds(c) \/ ConnectFails(c)
    PROVE  \E k : Moves(c, k)
<1>1. conns[c].stage \in SignedInStages
  BY Zenon DEF connect, ConnectSucceeds, ConnectFails, SignedInStages
<1> DEFINE a == [conns[c] EXCEPT !.stage = "dialling",
                                 !.via = current_tunnel(conns[c].share)]
           b == [conns[c] EXCEPT !.stage =
                    IF conns[c].kind = "forward" THEN "head" ELSE "relay"]
           t == [conns[c] EXCEPT !.stage = "connect", !.via = "none", !.found = Tail(@)]
<1>2. \/ \E failure, about : Fails(c, failure, about)
      \/ GoesOn(c, a) \/ GoesOn(c, b) \/ GoesOn(c, t)
  BY Zenon DEF connect, ConnectSucceeds, ConnectFails
<1>3. /\ DOMAIN a = DOMAIN conns[c] /\ a.stage = "dialling"
      /\ a.share = conns[c].share /\ a.device = conns[c].device
  BY <1>1, InDial, SMT DEF DialFields
<1>4. /\ DOMAIN b = DOMAIN conns[c] /\ b.stage \in {"head", "relay"}
      /\ b.share = conns[c].share /\ b.device = conns[c].device
  BY <1>1, InDial, SMT DEF DialFields
<1>5. /\ DOMAIN t = DOMAIN conns[c] /\ t.stage = "connect"
      /\ t.share = conns[c].share /\ t.device = conns[c].device
  BY <1>1, InDial, SMT DEF DialFields
<1> HIDE DEF a, b, t
<1>6. ASSUME GoesOn(c, a) PROVE Restages(c, a)
  BY <1>3, <1>6, Zenon DEF Restages, SignedInStages
<1>7. ASSUME GoesOn(c, b) PROVE Restages(c, b)
  BY <1>4, <1>7, Zenon DEF Restages, SignedInStages
<1>8. ASSUME GoesOn(c, t) PROVE Restages(c, t)
  BY <1>5, <1>8, Zenon DEF Restages, SignedInStages
<1> QED BY <1>1, <1>2, <1>6, <1>7, <1>8, FailsMoves, StageMoves, Zenon

\* The site answers, or the time for the dial is over.
LEMMA SiteMoves ==
    ASSUME CountsInv, NEW c \in Slots, DialTimesOut(c) \/ SiteAnswers(c)
    PROVE  \E k : Moves(c, k)
<1>1. conns[c].stage \in SignedInStages
  BY Zenon DEF DialTimesOut, SiteAnswers, SignedInStages
<1> DEFINE k == [conns[c] EXCEPT !.stage = "relay"]
<1>2. (\E failure, about : Fails(c, failure, about)) \/ GoesOn(c, k)
  BY Zenon DEF DialTimesOut, SiteAnswers
<1>3. /\ DOMAIN k = DOMAIN conns[c] /\ k.stage = "relay"
      /\ k.share = conns[c].share /\ k.device = conns[c].device
  BY <1>1, InDial, SMT DEF DialFields
<1> HIDE DEF k
<1>4. ASSUME GoesOn(c, k) PROVE Restages(c, k)
  BY <1>3, <1>4, Zenon DEF Restages, SignedInStages
<1> QED BY <1>1, <1>2, <1>4, FailsMoves, StageMoves, Zenon

\* serve: the handshake signs in, is refused, or ends unanswered.
LEMMA HandshakeMoves ==
    ASSUME CountsInv, NEW c \in Slots, NEW request, serve(c, request)
    PROVE  \E k : Moves(c, k)
<1>1. conns[c].stage = "open"
  BY Zenon DEF serve
<1>2. conns[c].stage \notin {"free", "ending"}
  BY <1>1, SMT
<1>3. \/ serve_socks(c, request) \/ serve_http(c, request) \/ Ends(c, "none", <<>>)
  BY Zenon DEF serve
<1>4. \/ \E target : Signs(c, target)
      \/ \E refusal, told : Refuses(c, refusal, told)
      \/ Ends(c, "none", <<>>)
  BY <1>3, Zenon DEF serve_socks, serve_http
<1> QED BY <1>1, <1>2, <1>4, SignsMoves, RefusesMoves, EndsMoves, Zenon

\* Whatever a task does is a move of its connection.
LEMMA ServingMoves ==
    ASSUME CountsInv, NEW c \in Slots, Serving(c)
    PROVE  Rest /\ \E k : Moves(c, k)
<1>1. Rest
  BY Zenon DEF Serving, serve, HandshakeTimesOut, dial, LookupReads, LookupTriesAgain,
        LookupFails, connect, ConnectSucceeds, ConnectFails, DialTimesOut, SiteAnswers,
        RelayEnds, Cut, Gone
<1>2. ASSUME HandshakeTimesOut(c) \/ RelayEnds(c) \/ Cut(c)
      PROVE  \E k : Moves(c, k)
  <2>1. conns[c].stage \notin {"free", "ending"} /\ Ends(c, "none", <<>>)
    BY <1>2, SMT DEF HandshakeTimesOut, RelayEnds, Cut
  <2> QED BY <2>1, EndsMoves, Zenon
<1>3. ASSUME Gone(c) PROVE \E k : Moves(c, k)
  BY <1>3, GoneMoves, Zenon
<1> QED BY <1>1, <1>2, <1>3, HandshakeMoves, DialMoves, LookupMoves, ConnectMoves,
           SiteMoves, Zenon DEF Serving

\* The steps of tasks keep the invariant.
LEMMA ServingKeeps ==
    ASSUME ShareInv, NEW c \in Slots, Serving(c)
    PROVE  ShareInv'
<1>1. Rest /\ \E k : Moves(c, k)
  BY ServingMoves, Zenon DEF ShareInv
<1>2. CountsInv'
  BY <1>1, MovesCount, Zenon DEF ShareInv
<1>3. Shares' = Shares /\ \A s \in Shares : shares[s].stopped => shares'[s].stopped
  BY <1>1, StillShares, Zenon DEF ShareInv, CountsInv, Moves
<1>4. HeldInv'
  BY <1>1, <1>3, StillHeld, Zenon DEF ShareInv, Rest
<1> QED BY <1>2, <1>4, Zenon DEF ShareInv

-----------------------------------------------------------------------------
(* The steps of a share, of the controller and of the registry. *)

\* One share is written, but none of its counters.
LEMMA WriteStays ==
    ASSUME CountsInv, conns' = conns, NEW s \in Shares, NEW r, Wrote(s, r),
           DOMAIN r = ShareFields, r.connections = shares[s].connections,
           r.devices = shares[s].devices
    PROVE  /\ CountsInv' /\ Shares' = Shares
           /\ \A t \in Shares : shares'[t] = IF t = s THEN r ELSE shares[t]
<1>1. Rewritten /\ \A t \in Shares : shares'[t] = IF t = s THEN r ELSE shares[t]
  BY OneShare, Zenon
<1>2. Stays
  BY <1>1, CountTypes, Zenon DEF Stays
<1> QED BY <1>1, <1>2, StaysCount, StillShares, Zenon DEF CountsInv

\* Stopping a share.
LEMMA StopStays ==
    ASSUME CountsInv, conns' = conns, NEW s \in Shares, stop(s)
    PROVE  /\ CountsInv' /\ Shares' = Shares /\ shares'[s].stopped
           /\ \A t \in Shares : t # s => shares'[t] = shares[t]
<1> DEFINE r == [shares[s] EXCEPT !.stopped = TRUE]
<1>1. /\ DOMAIN r = ShareFields /\ r.connections = shares[s].connections
      /\ r.devices = shares[s].devices /\ r.stopped
  BY CountTypes, SMT DEF ShareFields
<1>2. Wrote(s, r)
  BY Zenon DEF stop, Wrote
<1> HIDE DEF r
<1> QED BY <1>1, <1>2, WriteStays, Zenon

\* A new share has no connection yet.
LEMMA BindsCount ==
    ASSUME CountsInv, conns' = conns, NEW address, Binds(address)
    PROVE  /\ CountsInv' /\ Len(shares) \in Nat /\ Shares = 1..Len(shares)
           /\ Len(shares') = Len(shares) + 1 /\ Shares' = 1..(Len(shares) + 1)
           /\ \A s \in Shares : shares'[s] = shares[s]
<1>1. PICK port : shares' = Append(shares, NewShare(address, port))
  BY Zenon DEF Binds
<1>0. PICK n : n = Len(shares) + 1
  BY Zenon
<1> DEFINE new == NewShare(address, port)
<1>2. PICK T : shares \in Seq(T)
  BY Zenon DEF CountsInv
<1>3. new.connections = 0 /\ new.devices = [d \in Devices |-> 0] /\ DOMAIN new = ShareFields
  BY SMT DEF NewShare, ShareFields
<1> HIDE DEF new
<1>4. shares' \in Seq(T \cup {new})
  BY <1>1, <1>2, SMT DEF new
<1>5. /\ Len(shares) \in Nat /\ Shares = 1..Len(shares)
      /\ Len(shares') = n /\ Shares' = 1..n
      /\ \A s \in Shares : shares'[s] = shares[s]
      /\ shares'[n] = new
  BY <1>0, <1>1, <1>2, SMT DEF Shares, new
<1>6. n \notin Shares /\ Shares' = Shares \cup {n}
  BY <1>0, <1>5, SMT
<1>7. (DOMAIN conns = Slots)' /\ (\A c \in Slots : Placed(conns[c]))'
  BY <1>6, Zenon DEF CountsInv, Placed
<1>8. ASSUME NEW s \in Shares PROVE Counted(s)'
  <2>1. Open(s)' = Open(s) /\ \A d \in Devices : SignedIn(s, d)' = SignedIn(s, d)
    BY Zenon DEF Open, SignedIn
  <2> QED BY <1>5, <2>1, Zenon DEF CountsInv, Counted
<1>9. Counted(n)'
  <2>1. \A c \in Slots : conns[c].stage # "free" => conns[c].share \in Shares
    BY SMT DEF CountsInv, Placed, Free
  <2>2. Open(n)' = {} /\ \A d \in Devices : SignedIn(n, d)' = {}
    BY <1>6, <2>1, Zenon DEF Open, SignedIn
  <2>3. IsFiniteSet({}) /\ Cardinality({}) = 0
    BY FS_EmptySet, Zenon
  <2>4. 0 <= MAX_CONNECTIONS
    BY LimitsAreOrdered, SMT
  <2>5. new.connections = 0 /\ DOMAIN new.devices = Devices /\ \A d \in Devices : new.devices[d] = 0
    BY <1>3, Zenon
  <2>6. /\ IsFiniteSet(Open(n)') /\ shares'[n].connections = Cardinality(Open(n)')
        /\ \A d \in Devices : shares'[n].devices[d] = Cardinality(SignedIn(n, d)')
    BY <1>5, <2>2, <2>3, <2>5, Zenon
  <2>7. /\ DOMAIN shares'[n] = ShareFields /\ DOMAIN shares'[n].devices = Devices
        /\ shares'[n].connections <= MAX_CONNECTIONS
    BY <1>3, <1>5, <2>4, <2>5, Zenon
  <2> QED BY <2>6, <2>7, Zenon DEF Counted
<1>10. CountsInv'
  <2>1. ASSUME NEW s \in Shares' PROVE Counted(s)'
    BY <1>6, <1>8, <1>9, Zenon
  <2> QED BY <1>4, <1>7, <2>1, Zenon DEF CountsInv
<1> QED BY <1>0, <1>5, <1>10, Zenon

\* A connection is turned away, or it is counted and gets a task.
LEMMA AcceptKeeps ==
    ASSUME ShareInv, NEW s \in Shares, NEW d \in The.devices, Accept(s, d)
    PROVE  ShareInv'
<1>1. CountsInv /\ HeldInv /\ Rest
  BY Zenon DEF ShareInv, Accept
<1>2. d \in Devices /\ The.slots \subseteq Slots
  BY <1>1, WorldAssumption, Zenon DEF HeldInv, WorldsAreRecords, The
<1>3. \/ UNCHANGED conns /\ Wrote(s, TurnedAway(shares[s]))
      \/ \E c \in The.slots :
            /\ conns[c] = Free /\ shares[s].connections < MAX_CONNECTIONS
            /\ Wrote(s, Admitted(shares[s]))
            /\ conns' = [conns EXCEPT ![c] = [stage |-> "open", share |-> s,
                            device |-> d, trusted |-> shares[s].devices[d] > 0]]
  BY Zenon DEF Accept, Wrote
<1>4. CASE UNCHANGED conns /\ Wrote(s, TurnedAway(shares[s]))
  <2> DEFINE r == TurnedAway(shares[s])
  <2>1. /\ DOMAIN r = ShareFields /\ r.connections = shares[s].connections
        /\ r.devices = shares[s].devices /\ r.stopped = shares[s].stopped
    BY <1>1, CountTypes, SMT DEF ShareFields, TurnedAway
  <2>2. /\ CountsInv' /\ Shares' = Shares
        /\ \A t \in Shares : shares'[t] = IF t = s THEN r ELSE shares[t]
    BY <1>1, <1>4, <2>1, WriteStays, Zenon
  <2>3. \A t \in Shares : shares[t].stopped => shares'[t].stopped
    BY <2>1, <2>2, Zenon
  <2> QED BY <1>1, <2>2, <2>3, StillHeld, Zenon DEF ShareInv, Rest
<1>5. CASE \E c \in The.slots :
            /\ conns[c] = Free /\ shares[s].connections < MAX_CONNECTIONS
            /\ Wrote(s, Admitted(shares[s]))
            /\ conns' = [conns EXCEPT ![c] = [stage |-> "open", share |-> s,
                            device |-> d, trusted |-> shares[s].devices[d] > 0]]
  <2>1. PICK c \in Slots : \E k : Moves(c, k)
    BY <1>1, <1>2, <1>5, AcceptMoves, Zenon
  <2>2. CountsInv'
    BY <1>1, <2>1, MovesCount, Zenon
  <2>3. Shares' = Shares /\ \A t \in Shares : shares[t].stopped => shares'[t].stopped
    BY <1>1, <2>1, StillShares, Zenon DEF CountsInv, Moves
  <2> QED BY <1>1, <2>2, <2>3, StillHeld, Zenon DEF ShareInv, Rest
<1> QED BY <1>3, <1>4, <1>5, Zenon

\* Shares that close, stop on their own or change their network.
LEMMA ShareKeeps ==
    ASSUME ShareInv, NEW s \in Shares, NEW network,
           \/ AcceptStops(s) \/ watch_network(s) \/ RegistryStop(s)
           \/ set_network(s, network)
    PROVE  ShareInv'
<1> DEFINE f == [shares[s] EXCEPT !.listening = FALSE]
           g == [shares[s] EXCEPT !.gone = TRUE, !.stopped = TRUE]
           h == [shares[s] EXCEPT !.stopped = TRUE, !.network = "none"]
           i == [shares[s] EXCEPT !.network = network]
           Fits(r) == /\ DOMAIN r = ShareFields /\ r.connections = shares[s].connections
                      /\ r.devices = shares[s].devices
                      /\ shares[s].stopped => r.stopped
<1>1. CountsInv /\ HeldInv
  BY Zenon DEF ShareInv
<1>2. UNCHANGED <<world, session, op, quit, due>> /\ conns' = conns
  BY Zenon DEF AcceptStops, watch_network, RegistryStop, set_network, Rest
<1>3. Wrote(s, f) \/ Wrote(s, g) \/ Wrote(s, h) \/ Wrote(s, i)
  <2>1. ASSUME watch_network(s) PROVE Wrote(s, g)
    BY <2>1, Zenon DEF watch_network, Wrote
  <2>2. ASSUME RegistryStop(s) PROVE Wrote(s, h)
    BY <2>2, Zenon DEF RegistryStop, Wrote
  <2>3. ASSUME AcceptStops(s) PROVE Wrote(s, f)
    BY <2>3, Zenon DEF AcceptStops, Wrote
  <2>4. ASSUME set_network(s, network) PROVE Wrote(s, i)
    BY <2>4, Zenon DEF set_network, Wrote
  <2> QED BY <2>1, <2>2, <2>3, <2>4, Zenon
<1>4. Fits(f) /\ Fits(g) /\ Fits(h) /\ Fits(i)
  BY <1>1, CountTypes, SMT DEF ShareFields
<1> HIDE DEF f, g, h, i
<1>5. PICK r : Wrote(s, r) /\ Fits(r)
  BY <1>3, <1>4, Zenon
<1>6. /\ CountsInv' /\ Shares' = Shares
      /\ \A t \in Shares : shares'[t] = IF t = s THEN r ELSE shares[t]
  BY <1>1, <1>2, <1>5, WriteStays, Zenon
<1>7. \A t \in Shares : shares[t].stopped => shares'[t].stopped
  BY <1>5, <1>6, Zenon
<1> QED BY <1>1, <1>2, <1>6, <1>7, StillHeld, Zenon DEF ShareInv

\* The runtime of a share takes all its tasks, and only those, with it.
LEMMA RuntimeKeeps ==
    ASSUME ShareInv, NEW s \in Shares, RuntimeGoes(s)
    PROVE  ShareInv'
<1> DEFINE r == [shares[s] EXCEPT !.over = TRUE, !.listening = FALSE, !.connections = 0,
                                  !.devices = [d \in Devices |-> 0]]
<1>1. CountsInv /\ HeldInv
  BY Zenon DEF ShareInv
<1>2. Wrote(s, r)
  BY Zenon DEF RuntimeGoes, Wrote
<1>3. /\ DOMAIN r = ShareFields /\ r.connections = 0 /\ DOMAIN r.devices = Devices
      /\ \A d \in Devices : r.devices[d] = 0
      /\ r.stopped = shares[s].stopped
  BY <1>1, CountTypes, SMT DEF ShareFields
<1> HIDE DEF r
<1>4. Rewritten /\ \A t \in Shares : shares'[t] = IF t = s THEN r ELSE shares[t]
  BY <1>2, OneShare, Zenon
<1>5. (\E T : shares \in Seq(T))' /\ Shares' = Shares
  BY <1>1, <1>4, StillShares, Zenon DEF CountsInv
<1>6. /\ DOMAIN conns' = Slots
      /\ \A c \in Slots : conns'[c] = IF c \in Open(s) THEN Free ELSE conns[c]
  BY Zenon DEF RuntimeGoes
<1>7. (\A c \in Slots : Placed(conns[c]))'
  BY <1>1, <1>5, <1>6, Zenon DEF CountsInv, Placed
<1>8. Counted(s)'
  <2>1. Open(s)' = {} /\ \A d \in Devices : SignedIn(s, d)' = {}
    BY <1>6, SMT DEF Open, SignedIn, Free
  <2>2. IsFiniteSet({}) /\ Cardinality({}) = 0
    BY FS_EmptySet, Zenon
  <2>3. 0 <= MAX_CONNECTIONS
    BY LimitsAreOrdered, SMT
  <2>4. shares'[s] = r
    BY <1>4, Zenon
  <2> QED BY <1>3, <2>1, <2>2, <2>3, <2>4, Zenon DEF Counted
<1>9. ASSUME NEW t \in Shares, t # s PROVE Counted(t)'
  <2>1. Open(t)' = Open(t)
    BY <1>6, <1>9, SMT DEF Open, Free
  <2>2. \A d \in Devices : SignedIn(t, d)' = SignedIn(t, d)
    BY <1>6, <1>9, <2>1, SMT DEF SignedIn, Open, Free
  <2>3. shares'[t] = shares[t] /\ Counted(t)
    BY <1>1, <1>4, <1>9, Zenon DEF CountsInv
  <2> QED BY <2>1, <2>2, <2>3, Zenon DEF Counted
<1>10. CountsInv'
  BY <1>5, <1>6, <1>7, <1>8, <1>9, Zenon DEF CountsInv
<1>11. \A t \in Shares : shares[t].stopped => shares'[t].stopped
  BY <1>3, <1>4, Zenon
<1> QED BY <1>1, <1>5, <1>10, <1>11, StillHeld, Zenon DEF ShareInv, RuntimeGoes

\* The clock ages tries and touches no counter.
LEMMA TickKeeps ==
    ASSUME ShareInv, Tick
    PROVE  ShareInv'
<1>1. CountsInv /\ HeldInv
  BY Zenon DEF ShareInv
<1>2. \A s \in Shares : shares'[s] = Ticked(shares[s])
  BY Zenon DEF Tick
<1>3. ASSUME NEW s \in Shares
      PROVE  /\ DOMAIN shares'[s] = ShareFields
             /\ shares'[s].connections = shares[s].connections
             /\ shares'[s].devices = shares[s].devices
             /\ shares'[s].stopped = shares[s].stopped
  <2>1. shares'[s] = Ticked(shares[s]) /\ DOMAIN shares[s] = ShareFields
    BY <1>1, <1>2, CountTypes, Zenon
  <2> QED BY <2>1, SMT DEF ShareFields, Ticked
<1>4. Rewritten
  BY Zenon DEF Tick, Rewritten
<1>5. CountsInv'
  BY <1>1, <1>3, <1>4, StaysCount, Zenon DEF Stays, Tick
<1>6. Shares' = Shares
  BY <1>1, <1>4, StillShares, Zenon DEF CountsInv
<1> QED BY <1>1, <1>3, <1>5, <1>6, StillHeld, Zenon DEF ShareInv, Tick

\* A step that leaves shares and connections alone.
LEMMA SameCount ==
    ASSUME CountsInv, shares' = shares, conns' = conns
    PROVE  CountsInv' /\ Shares' = Shares
<1>1. PICK T : shares \in Seq(T)
  BY Zenon DEF CountsInv
<1>2. Rewritten
  BY <1>1, SMT DEF Rewritten, Shares
<1>3. Stays
  BY <1>2, CountTypes, Zenon DEF Stays
<1> QED BY <1>3, StaysCount, Zenon DEF Shares

\* A command that takes the lock takes the share out of the controller and
\* stops it: then no share is on.
LEMMA TakesShare ==
    ASSUME ShareInv, front = "desktop", conns' = conns,
           IF session = 0 THEN UNCHANGED shares ELSE stop(session)
    PROVE  /\ CountsInv' /\ Shares' = Shares
           /\ \A s \in Shares : shares'[s].stopped
<1>1. CountsInv /\ HeldInv
  BY Zenon DEF ShareInv
<1>2. PICK T : shares \in Seq(T)
  BY <1>1, Zenon DEF CountsInv
<1>3. 0 \notin Shares
  BY <1>2, SMT DEF Shares
<1>4. \A s \in Shares : ~shares[s].stopped => s = session
  BY <1>1, Zenon DEF HeldInv, OnlyHeldIsOn
<1>5. ASSUME UNCHANGED shares, \A s \in Shares : shares[s].stopped
      PROVE  CountsInv' /\ Shares' = Shares /\ \A s \in Shares : shares'[s].stopped
  BY <1>1, <1>5, SameCount, Zenon
<1>6. CASE session = 0
  BY <1>3, <1>4, <1>5, <1>6, Zenon
<1>7. CASE session # 0 /\ session \in Shares
  BY <1>1, <1>4, <1>7, StopStays, Zenon
<1>8. CASE session # 0 /\ session \notin Shares
  <2>1. stop(session)
    BY <1>8, Zenon
  <2>2. UNCHANGED shares
    BY <1>2, <1>8, <2>1, SMT DEF stop, Shares
  <2> QED BY <1>4, <1>5, <1>8, <2>2, Zenon
<1> QED BY <1>6, <1>7, <1>8, Zenon

\* start_sharing, stop_sharing, a disconnect and share_status take the share.
LEMMA TakeKeeps ==
    ASSUME ShareInv, NEW address, NEW why \in {"stop", "disconnect"},
           StartSharing(address) \/ StopSharing(why) \/ ShareStatus
    PROVE  ShareInv'
<1>1. /\ front = "desktop" /\ conns' = conns /\ session' = 0
      /\ IF session = 0 THEN UNCHANGED shares ELSE stop(session)
      /\ UNCHANGED <<world, due>>
  BY Zenon DEF StartSharing, StopSharing, ShareStatus
<1>2. /\ CountsInv' /\ Shares' = Shares
      /\ \A s \in Shares : shares'[s].stopped
  BY <1>1, TakesShare, Zenon
<1>3. op'.kind = "disconnect" => quit' = "stopping"
  BY SMT DEF StartSharing, StopSharing, ShareStatus
<1>4. HeldInv'
  BY <1>1, <1>2, <1>3, Zenon DEF ShareInv, HeldInv, OnlyHeldIsOn
<1> QED BY <1>2, <1>4, Zenon DEF ShareInv

\* A new share is the controller's; the registry has no controller.
LEMMA StartKeeps ==
    ASSUME ShareInv, NEW address, StartWith \/ RegistryStart(address)
    PROVE  ShareInv'
<1>1. CountsInv /\ HeldInv /\ UNCHANGED <<world, conns, quit, due>>
  BY Zenon DEF ShareInv, StartWith, RegistryStart
<1>2. CASE RegistryStart(address)
  <2>1. CountsInv' /\ Shares \subseteq Shares'
    BY <1>1, <1>2, BindsCount, SMT DEF RegistryStart
  <2>2. HeldInv'
    BY <1>1, <1>2, <2>1, SMT DEF HeldInv, OnlyHeldIsOn, RegistryStart, front, The
  <2> QED BY <2>1, <2>2, Zenon DEF ShareInv
<1>3. CASE StartWith /\ UNCHANGED <<shares, session>>
  <2>1. op.kind = "start" /\ op' = Idle
    BY <1>3, Zenon DEF StartWith
  <2>2. op'.kind = "none"
    BY <2>1, Zenon DEF Idle
  <2>3. HeldInv'
    BY <1>1, <1>3, <2>2, SMT DEF HeldInv, OnlyHeldIsOn, front, The, Shares
  <2>4. CountsInv'
    BY <1>1, <1>3, SameCount, Zenon
  <2> QED BY <2>3, <2>4, Zenon DEF ShareInv
<1>4. CASE StartWith /\ Binds(op.address) /\ session' = Len(shares')
  <2>1. /\ CountsInv' /\ Len(shares) \in Nat /\ Shares = 1..Len(shares)
        /\ Len(shares') = Len(shares) + 1 /\ Shares' = 1..(Len(shares) + 1)
        /\ \A s \in Shares : shares'[s] = shares[s]
    BY <1>1, <1>4, BindsCount, Zenon
  <2>2. op.kind = "start" /\ op'.kind = "none"
    BY <1>4, Zenon DEF StartWith, Idle
  <2>3. Shares' = Shares \cup {session'} /\ session' \notin Shares /\ 0 \notin Shares
    BY <1>4, <2>1, SMT
  <2>4. front = "desktop" => \A s \in Shares : shares[s].stopped
    BY <1>1, <2>2, <2>3, SMT DEF HeldInv, OnlyHeldIsOn
  <2>5. HeldInv'
    BY <1>1, <2>1, <2>2, <2>3, <2>4, SMT DEF HeldInv, OnlyHeldIsOn, front, The
  <2> QED BY <2>1, <2>5, Zenon DEF ShareInv
<1> QED BY <1>2, <1>3, <1>4, Zenon DEF StartWith

\* Steps that touch neither shares nor connections.
LEMMA OtherKeeps ==
    ASSUME ShareInv,
           \/ StopReturns \/ Disconnect \/ TunnelMoves \/ NetworkMoves
           \/ UNCHANGED vars
    PROVE  ShareInv'
<1>1. CountsInv /\ HeldInv /\ UNCHANGED <<world, shares, conns, session>>
  BY Zenon DEF ShareInv, StopReturns, Disconnect, TunnelMoves, NetworkMoves, vars
<1>2. CountsInv'
  BY <1>1, SameCount, Zenon
<1>3. CASE StopReturns
  <2>1. op'.kind = "none" /\ due' = due
    BY <1>3, Zenon DEF StopReturns, Idle
  <2> QED BY <1>1, <1>2, <1>3, <2>1, SMT DEF ShareInv, HeldInv, OnlyHeldIsOn, StopReturns,
             front, The, Shares
<1>4. CASE Disconnect
  BY <1>1, <1>2, <1>4, SMT DEF ShareInv, HeldInv, OnlyHeldIsOn, Disconnect, front, The, Shares
<1>5. CASE TunnelMoves \/ NetworkMoves \/ UNCHANGED vars
  <2>1. UNCHANGED <<op, quit, due>>
    BY <1>5, Zenon DEF TunnelMoves, NetworkMoves, vars
  <2> QED BY <1>1, <1>2, <2>1, Zenon DEF ShareInv, HeldInv, OnlyHeldIsOn, front, The, Shares
<1> QED BY <1>3, <1>4, <1>5, Zenon

-----------------------------------------------------------------------------

\* Initially there is no share and every task is free.
LEMMA ShareInvInit == Init => ShareInv
<1> SUFFICES ASSUME Init PROVE ShareInv
  BY Zenon
<1>1. Shares = {} /\ shares \in Seq({})
  BY SMT DEF Init, Shares
<1>2. CountsInv
  BY <1>1, Zenon DEF Init, CountsInv, Placed
<1>3. HeldInv
  BY <1>1, SMT DEF Init, HeldInv, OnlyHeldIsOn, Idle
<1> QED BY <1>2, <1>3, Zenon DEF ShareInv

\* Every step keeps the invariant.
LEMMA ShareInvNext == ShareInv /\ [Next]_vars => ShareInv'
<1> SUFFICES ASSUME ShareInv, [Next]_vars PROVE ShareInv'
  BY Zenon
<1> QED BY ServingKeeps, AcceptKeeps, ShareKeeps, RuntimeKeeps, TickKeeps, TakeKeeps,
           StartKeeps, OtherKeeps, Zenon DEF Next

\* What the user is shown of sharing is true in every behaviour: the counters
\* of every share are its connections and never above the limit, whichever
\* tasks a stop cuts short, and on the desktop at most the share the
\* controller holds is on (ShareStats, ShareController).
THEOREM SharesAlwaysTrue == Spec => []SharesAreTrue
<1>1. ShareInv => SharesAreTrue
  BY Zenon DEF ShareInv, CountsInv, HeldInv, OnlyHeldIsOn, Counted, SharesAreTrue,
        CountsAreTrue, OneShareIsOn
<1> QED BY <1>1, ShareInvInit, ShareInvNext, PTL DEF Spec

=============================================================================
