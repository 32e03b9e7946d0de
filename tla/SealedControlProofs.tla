------------------------- MODULE SealedControlProofs ------------------------
(***************************************************************************)
(* The app uses the gateway as SealedGateway describes it, so what is proved *)
(* there holds of the composition, and its corrected retry is never refused  *)
(* for the clock.                                                            *)
(***************************************************************************)
EXTENDS SealedControl, TLAPS

(* A request in the window, or being handled, was sent at most Skew seconds *)
(* after the time it is entered with.                                       *)
SentBy(e) == stamp[e.id] # Unsent /\ stamp[e.id] <= e.time + Skew

(* A dispatched request that the window no longer holds is too old for any  *)
(* handler that reads the clock from now on...                              *)
TooOld(r) == stamp[r] # Unsent /\ clock > stamp[r] + Skew

(* ...and no handler that read it earlier has it in hand.                   *)
Forgotten(r) == TooOld(r) /\ \A h \in Handler : Busy(h) => task[h].id # r

GatewayInv ==
    /\ GatewayTypeOK
    /\ WindowIsConsistent
    /\ \A i \in DOMAIN order : SentBy(order[i]) /\ order[i].id \in answered
    /\ \A h \in Handler : Busy(h) =>
         /\ SentBy(task[h])
         /\ task[h].time <= stamp[task[h].id] + Skew
         /\ task[h].time <= clock
    /\ \A r \in answered \ lost : r \in seen \/ Forgotten(r)

(* The gateway has seen nothing yet. *)
LEMMA GatewayInitInv == GatewayInit => GatewayInv
  BY GatewayAssumption
     DEF GatewayInit, GatewayInv, GatewayTypeOK, WindowIsConsistent, Entries,
         Busy, Idle, NoReply, Unsent, Entry, Kinds

(* A request is opened: skewed ones are refused, others wait for the window. *)
LEMMA OpenInv ==
  ASSUME GatewayInv, NEW h \in Handler, Open(h)
  PROVE  GatewayInv'
  <1> USE GatewayAssumption
  <1>1. PICK id \in Request :
          /\ stamp[id] # Unsent
          /\ \/ /\ Skewed(stamp[id], clock)
                /\ Reply(id, "skew", clock)
                /\ UNCHANGED task
             \/ /\ ~ Skewed(stamp[id], clock)
                /\ task' = [task EXCEPT ![h] = [id |-> id, time |-> clock]]
                /\ UNCHANGED reply
    BY Zenon DEF Open
  <1>2. UNCHANGED <<clock, stamp, order, seen, answered, lost>>
    BY Zenon DEF Open
  <1>3. CASE UNCHANGED task /\ Reply(id, "skew", clock)
    BY <1>2, <1>3
       DEF GatewayInv, GatewayTypeOK, WindowIsConsistent, Entries,
           Busy, SentBy, TooOld, Forgotten, Reply, Kinds
  <1>4. CASE /\ ~ Skewed(stamp[id], clock)
             /\ task' = [task EXCEPT ![h] = [id |-> id, time |-> clock]]
             /\ UNCHANGED reply
    <2>1. GatewayTypeOK'
      BY <1>2, <1>4, Zenon DEF GatewayInv, GatewayTypeOK, Entry
    <2>2. \A k \in Handler : Busy(k)' =>
            /\ SentBy(task[k])'
            /\ task'[k].time <= stamp'[task'[k].id] + Skew
            /\ task'[k].time <= clock'
      <3> TAKE k \in Handler
      <3> HAVE Busy(k)'
      <3>1. CASE k = h
        BY <1>1, <1>2, <1>4, <3>1, SMTT(30)
           DEF GatewayInv, GatewayTypeOK, SentBy, Skewed, Unsent
      <3>2. CASE k # h
        BY <1>2, <1>4, <3>2, Zenon DEF GatewayInv, GatewayTypeOK, SentBy, Busy
      <3> QED BY <3>1, <3>2, Zenon
    <2>3. ~ TooOld(id)
      BY <1>4, SMTT(30) DEF TooOld, Skewed, GatewayInv, GatewayTypeOK, Unsent
    <2>4. ASSUME NEW r, Forgotten(r) PROVE Forgotten(r)'
      <3>1. r # id
        BY <2>3, <2>4, Zenon DEF Forgotten
      <3>2. \A k \in Handler : task'[k] = task[k] \/ task'[k].id = id
        BY <1>4, Zenon DEF GatewayInv, GatewayTypeOK
      <3> QED BY <1>2, <2>4, <3>1, <3>2, Zenon DEF Forgotten, TooOld, Busy
    <2> QED
      BY <1>2, <2>1, <2>2, <2>4, Zenon DEF GatewayInv, WindowIsConsistent, Entries, SentBy
  <1> QED BY <1>1, <1>3, <1>4, Zenon

(* The suffix that is left of a sequence whose first n elements go. *)
LEMMA Suffix ==
  ASSUME NEW s \in Seq(Entry), NEW n \in 0 .. Len(s)
  PROVE  /\ SubSeq(s, n + 1, Len(s)) \in Seq(Entry)
         /\ Len(SubSeq(s, n + 1, Len(s))) = Len(s) - n
         /\ \A i \in 1 .. Len(s) - n : SubSeq(s, n + 1, Len(s))[i] = s[i + n]
  OBVIOUS

(* Purging: the entries that stay are those after the first n, and the set  *)
(* loses exactly the requests of the entries that go.                       *)
LEMMA Purging ==
  ASSUME GatewayTypeOK, WindowIsConsistent, NEW n \in 0 .. Len(order),
         NEW kept \in Seq(Entry), Len(kept) = Len(order) - n,
         \A i \in 1 .. Len(order) - n : kept[i] = order[i + n]
  PROVE  /\ Entries(kept) = seen \ {order[i].id : i \in 1 .. n}
         /\ \A i, j \in DOMAIN kept : kept[i].id = kept[j].id => i = j
  <1>1. /\ Len(order) \in Nat /\ n \in Nat /\ n <= Len(order)
        /\ DOMAIN order = 1 .. Len(order)
    BY DEF GatewayTypeOK
  <1>2. DOMAIN kept = 1 .. Len(order) - n
    OBVIOUS
  <1>3. \A i \in DOMAIN kept :
          i \in Nat /\ i > 0 /\ i + n \in DOMAIN order /\ kept[i] = order[i + n]
    BY <1>1, <1>2
  <1>4. ASSUME NEW i \in DOMAIN kept, NEW j \in DOMAIN kept, kept[i].id = kept[j].id
        PROVE  i = j
    <2>1. i + n \in DOMAIN order /\ j + n \in DOMAIN order
      BY <1>3, Zenon
    <2>2. order[i + n].id = order[j + n].id
      BY <1>3, <1>4, Zenon
    <2>3. i + n = j + n
      BY <2>1, <2>2, Zenon DEF WindowIsConsistent
    <2> QED BY <1>1, <1>3, <2>3, SMTT(30)
  <1>5. ASSUME NEW i \in DOMAIN kept
        PROVE  kept[i].id \in seen \ {order[k].id : k \in 1 .. n}
    <2>1. i + n \in DOMAIN order /\ kept[i] = order[i + n] /\ i + n > n
      BY <1>1, <1>3
    <2>2. kept[i].id \in seen
      BY <2>1, Zenon DEF WindowIsConsistent, Entries
    <2>3. ASSUME NEW k \in 1 .. n PROVE order[k].id # order[i + n].id
      <3>1. k \in DOMAIN order /\ k # i + n
        BY <1>1, <2>1
      <3> QED BY <2>1, <3>1, Zenon DEF WindowIsConsistent
    <2> QED BY <2>1, <2>2, <2>3, Zenon
  <1>6. ASSUME NEW r \in seen \ {order[i].id : i \in 1 .. n}
        PROVE  r \in Entries(kept)
    <2>1. PICK j \in 1 .. Len(order) : order[j].id = r
      BY <1>1, Zenon DEF WindowIsConsistent, Entries
    <2>2. j > n
      BY <1>1, <2>1
    <2>3. j - n \in DOMAIN kept /\ kept[j - n] = order[(j - n) + n] /\ (j - n) + n = j
      BY <1>1, <1>2, <1>3, <2>2
    <2> QED BY <2>1, <2>3, Zenon DEF Entries
  <1>7. Entries(kept) = seen \ {order[i].id : i \in 1 .. n}
    BY <1>5, <1>6, Zenon DEF Entries
  <1> QED BY <1>4, <1>7, Zenon

(* Appending a request that is not there keeps a window consistent. *)
LEMMA Appending ==
  ASSUME NEW s \in Seq(Entry), NEW e \in Entry, e.id \notin Entries(s),
         \A i, j \in DOMAIN s : s[i].id = s[j].id => i = j
  PROVE  /\ Append(s, e) \in Seq(Entry)
         /\ Len(Append(s, e)) = Len(s) + 1
         /\ \A i \in DOMAIN Append(s, e) :
              Append(s, e)[i] = e \/ (i \in DOMAIN s /\ Append(s, e)[i] = s[i])
         /\ Entries(Append(s, e)) = Entries(s) \cup {e.id}
         /\ \A i, j \in DOMAIN Append(s, e) :
              Append(s, e)[i].id = Append(s, e)[j].id => i = j
  <1> DEFINE t == Append(s, e)
  <1>1. /\ t \in Seq(Entry) /\ Len(t) = Len(s) + 1
        /\ DOMAIN t = 1 .. Len(s) + 1 /\ DOMAIN s = 1 .. Len(s)
        /\ t[Len(s) + 1] = e
        /\ \A i \in 1 .. Len(s) : t[i] = s[i]
    OBVIOUS
  <1> HIDE DEF t
  <1>2. Entries(t) = Entries(s) \cup {e.id}
    BY <1>1 DEF Entries
  <1>3. \A i, j \in DOMAIN t : t[i].id = t[j].id => i = j
    BY <1>1 DEF Entries
  <1>4. \A i \in DOMAIN t : t[i] = e \/ (i \in DOMAIN s /\ t[i] = s[i])
    BY <1>1
  <1> QED BY <1>1, <1>2, <1>3, <1>4, Zenon DEF t

(* Evicting the oldest entry removes its request and no other. *)
LEMMA Evicting ==
  ASSUME NEW s \in Seq(Entry), Len(s) > 0,
         \A i, j \in DOMAIN s : s[i].id = s[j].id => i = j
  PROVE  /\ Tail(s) \in Seq(Entry)
         /\ Len(Tail(s)) = Len(s) - 1
         /\ \A i \in DOMAIN Tail(s) : i + 1 \in DOMAIN s /\ Tail(s)[i] = s[i + 1]
         /\ Head(s).id \in Entries(s)
         /\ Entries(Tail(s)) = Entries(s) \ {Head(s).id}
         /\ \A i, j \in DOMAIN Tail(s) : Tail(s)[i].id = Tail(s)[j].id => i = j
  <1> DEFINE t == Tail(s)
  <1>1. /\ t \in Seq(Entry) /\ Len(t) = Len(s) - 1
        /\ DOMAIN t = 1 .. Len(s) - 1 /\ DOMAIN s = 1 .. Len(s)
        /\ \A i \in 1 .. Len(s) - 1 : t[i] = s[i + 1]
        /\ Head(s) = s[1] /\ Len(s) \in Nat
    OBVIOUS
  <1> HIDE DEF t
  <1>2. ASSUME NEW i \in DOMAIN t, NEW j \in DOMAIN t, t[i].id = t[j].id
        PROVE  i = j
    <2>1. i + 1 \in DOMAIN s /\ j + 1 \in DOMAIN s
      BY <1>1
    <2>2. i + 1 = j + 1
      BY <1>1, <1>2, <2>1, SMTT(30)
    <2> QED BY <1>1, <2>2
  <1>3. Entries(t) \subseteq Entries(s) \ {Head(s).id}
    BY <1>1, SMTT(30) DEF Entries
  <1>4. ASSUME NEW r \in Entries(s) \ {Head(s).id}
        PROVE  r \in Entries(t)
    <2>1. PICK j \in 1 .. Len(s) : s[j].id = r
      BY <1>1, Zenon DEF Entries
    <2>2. j - 1 \in DOMAIN t /\ t[j - 1] = s[j]
      BY <1>1, <2>1
    <2> QED BY <2>1, <2>2, Zenon DEF Entries
  <1>5. Head(s).id \in Entries(s)
    BY <1>1 DEF Entries
  <1>6. \A i \in DOMAIN t : i + 1 \in DOMAIN s /\ t[i] = s[i + 1]
    BY <1>1
  <1> QED BY <1>1, <1>2, <1>3, <1>4, <1>5, <1>6, Zenon DEF t

(* An entry purged from the window belongs to a request that is too old by   *)
(* the time it is purged at.                                                 *)
LEMMA PurgedIsLate ==
  ASSUME NEW entered \in Nat, NEW sent \in Nat, NEW now \in Nat, NEW later \in Nat,
         sent <= entered + Skew, now - entered > Window, now <= later
  PROVE  later > sent + Skew
  BY GatewayAssumption

(* What purging at `now` removes was sent long before. *)
LEMMA AgedIsLate ==
  ASSUME GatewayInv, NEW now \in Nat, NEW n \in 0 .. Len(order), AgedOut(n, now),
         NEW i \in 1 .. n, NEW later \in Nat, now <= later
  PROVE  LET r == order[i].id IN r \in Request /\ stamp[r] \in Nat /\ later > stamp[r] + Skew
  <1>1. i \in DOMAIN order /\ order[i] \in Entry
    BY DEF GatewayInv, GatewayTypeOK
  <1>2. order[i].time \in Nat /\ order[i].id \in Request
    BY <1>1, Zenon DEF Entry
  <1>3. stamp[order[i].id] \in Nat /\ stamp[order[i].id] <= order[i].time + Skew
    BY <1>1, <1>2, Zenon DEF GatewayInv, GatewayTypeOK, SentBy
  <1>4. now - order[i].time > Window
    BY Zenon DEF AgedOut
  <1> QED BY <1>2, <1>3, <1>4, PurgedIsLate, Zenon

(* A handler that has a dispatched request in hand finds it in the window,   *)
(* unless the window lost it: its own clock does not purge it.               *)
LEMMA KnownIsFound ==
  ASSUME GatewayInv, NEW h \in Handler, Busy(h), task[h].id \in answered \ lost,
         NEW n \in 0 .. Len(order), AgedOut(n, task[h].time)
  PROVE  task[h].id \in seen \ {order[i].id : i \in 1 .. n}
  <1>1. /\ task[h].time \in Nat /\ stamp[task[h].id] \in Nat
        /\ task[h].time <= stamp[task[h].id] + Skew
    BY Zenon DEF GatewayInv, GatewayTypeOK, Busy, Entry, SentBy
  <1>2. task[h].id \in seen
    BY Zenon DEF GatewayInv, Forgotten
  <1>3. ASSUME NEW i \in 1 .. n, order[i].id = task[h].id PROVE FALSE
    <2>1. task[h].time <= task[h].time
      BY <1>1
    <2>2. task[h].time > stamp[task[h].id] + Skew
      BY <1>1, <1>3, <2>1, AgedIsLate, Zenon
    <2> QED BY <1>1, <2>2, GatewayAssumption
  <1> QED BY <1>2, <1>3, Zenon

(* The replay window is purged, checked and extended under its lock. *)
LEMMA DispatchInv ==
  ASSUME GatewayInv, NEW h \in Handler, Dispatch(h)
  PROVE  GatewayInv'
  <1> USE GatewayAssumption
  <1> DEFINE id == task[h].id
             now == task[h].time
  <1>1. PICK n \in 0 .. Len(order) :
          /\ AgedOut(n, now)
          /\ Insert(id, now, SubSeq(order, n + 1, Len(order)),
                    seen \ {order[i].id : i \in 1 .. n},
                    {order[i].id : i \in 1 .. n} \cap WaitingBeside(h))
    BY Zenon DEF Dispatch
  <1>2. /\ Busy(h)
        /\ task' = [task EXCEPT ![h] = Idle]
        /\ UNCHANGED <<clock, stamp>>
    BY Zenon DEF Dispatch
  <1>3. /\ id \in Request /\ now \in Nat /\ stamp[id] \in Nat
        /\ stamp[id] <= now + Skew /\ now <= stamp[id] + Skew
        /\ now <= clock
    BY <1>2, Zenon DEF GatewayInv, GatewayTypeOK, Busy, Idle, Entry, SentBy, Unsent
  <1> HIDE DEF id, now
  <1>4. PICK kept : kept = SubSeq(order, n + 1, Len(order))
    BY Zenon
  <1>5. PICK left : left = seen \ {order[i].id : i \in 1 .. n}
    BY Zenon
  <1>6. PICK late : /\ late = {order[i].id : i \in 1 .. n} \cap WaitingBeside(h)
                     /\ Insert(id, now, kept, left, late)
    BY <1>1, <1>4, <1>5, Zenon
  <1>7. /\ kept \in Seq(Entry) /\ Len(kept) = Len(order) - n
        /\ \A i \in 1 .. Len(order) - n : kept[i] = order[i + n]
    BY <1>4, Suffix, Zenon DEF GatewayInv, GatewayTypeOK
  <1>8. /\ Entries(kept) = left
        /\ \A i, j \in DOMAIN kept : kept[i].id = kept[j].id => i = j
    BY <1>5, <1>7, Purging, Zenon DEF GatewayInv
  <1>9. Len(kept) <= Capacity /\ Len(kept) \in Nat
    BY <1>7 DEF GatewayInv, GatewayTypeOK, WindowIsConsistent
  <1>10. \A i \in DOMAIN kept : SentBy(kept[i]) /\ kept[i].id \in answered
    <2> TAKE i \in DOMAIN kept
    <2>1. i + n \in DOMAIN order /\ kept[i] = order[i + n]
      BY <1>7, SMTT(30) DEF GatewayInv, GatewayTypeOK
    <2> QED BY <2>1, Zenon DEF GatewayInv
  <1>11. \A r \in answered \ (lost \cup late) : r \in left \/ Forgotten(r)'
    <2> SUFFICES ASSUME NEW r \in answered \ (lost \cup late), r \notin left
                 PROVE  Forgotten(r)'
      BY Zenon
    <2>1. \A k \in Handler : Busy(k)' => k # h /\ task'[k] = task[k] /\ Busy(k)
      BY <1>2, Zenon DEF GatewayInv, GatewayTypeOK, Busy
    <2>2. CASE r \in seen
      <3>1. PICK i \in 1 .. n : order[i].id = r
        BY <1>5, <2>2, Zenon
      <3>2. clock \in Nat
        BY Zenon DEF GatewayInv, GatewayTypeOK
      <3>3. stamp[r] \in Nat /\ clock > stamp[r] + Skew
        BY <1>1, <1>3, <3>1, <3>2, AgedIsLate, Zenon
      <3>4. stamp[r] # Unsent
        BY <3>3 DEF Unsent
      <3>5. r \notin WaitingBeside(h)
        BY <1>6, <3>1, Zenon
      <3>6. \A k \in Handler : k # h /\ Busy(k) => task[k].id # r
        BY <3>5, Zenon DEF WaitingBeside
      <3> QED BY <1>2, <2>1, <3>3, <3>4, <3>6, Zenon DEF Forgotten, TooOld
    <2>3. CASE r \notin seen
      <3>1. Forgotten(r)
        BY <2>3, Zenon DEF GatewayInv
      <3> QED BY <1>2, <2>1, <3>1, Zenon DEF Forgotten, TooOld
    <2> QED BY <2>2, <2>3
  <1>13. /\ clock \in Nat /\ stamp \in [Request -> Nat \cup {Unsent}]
         /\ task \in [Handler -> Entry \cup {Idle}]
         /\ left \subseteq Request /\ answered \subseteq Request
         /\ lost \subseteq Request /\ late \subseteq Request
    <2>1. late \subseteq answered
      <3>1. \A i \in 1 .. n : i \in DOMAIN order
        BY DEF GatewayInv, GatewayTypeOK
      <3> QED BY <1>6, <3>1, Zenon DEF GatewayInv
    <2> QED BY <1>5, <2>1, Zenon DEF GatewayInv, GatewayTypeOK
  <1>14. \A k \in Handler : Busy(k)' =>
            /\ SentBy(task[k])'
            /\ task'[k].time <= stamp'[task'[k].id] + Skew
            /\ task'[k].time <= clock'
    BY <1>2, Zenon DEF GatewayInv, GatewayTypeOK, SentBy, Busy
  <1> DEFINE e == [id |-> id, time |-> now]
  <1>15. e \in Entry /\ SentBy(e) /\ e.id = id
    BY <1>3 DEF Entry, SentBy, Unsent
  <1>16. CASE /\ id \in left /\ order' = kept /\ seen' = left
              /\ Reply(id, "replay", now)
              /\ lost' = lost \cup late /\ UNCHANGED answered
    <2>1. GatewayTypeOK'
      BY <1>2, <1>3, <1>7, <1>13, <1>16, Zenon DEF GatewayTypeOK, Reply, Kinds
    <2>2. WindowIsConsistent'
      BY <1>8, <1>9, <1>16, Zenon DEF WindowIsConsistent
    <2> QED
      BY <1>2, <1>10, <1>11, <1>13, <1>14, <1>16, <2>1, <2>2, Zenon DEF GatewayInv, SentBy
  <1>17. ASSUME NEW s \in Seq(Entry), NEW gone \in SUBSET Request,
                Entries(s) = left \ gone, Len(s) < Capacity,
                \A i, j \in DOMAIN s : s[i].id = s[j].id => i = j,
                \A i \in DOMAIN s : SentBy(s[i]) /\ s[i].id \in answered,
                id \notin left,
                order' = Append(s, e), seen' = (left \ gone) \cup {id},
                lost' = (lost \cup late \cup gone) \ {id},
                answered' = answered \cup {id},
                Reply(id, "answered", now)
         PROVE  GatewayInv'
    <2>1. /\ order' \in Seq(Entry) /\ Len(order') = Len(s) + 1
          /\ \A i \in DOMAIN order' : order'[i] = e \/ (i \in DOMAIN s /\ order'[i] = s[i])
          /\ Entries(order') = Entries(s) \cup {id}
          /\ \A i, j \in DOMAIN order' : order'[i].id = order'[j].id => i = j
      BY <1>15, <1>17, Appending, SMTT(30)
    <2>2. GatewayTypeOK'
      BY <1>2, <1>3, <1>13, <1>17, <2>1, Zenon DEF GatewayTypeOK, Reply, Kinds
    <2>3. WindowIsConsistent'
      <3>1. Len(order') <= Capacity
        BY <1>17, <2>1
      <3>2. seen' = Entries(order')
        BY <1>17, <2>1, Zenon
      <3> QED BY <2>1, <3>1, <3>2, Zenon DEF WindowIsConsistent
    <2>4. \A i \in DOMAIN order' : SentBy(order[i])' /\ order'[i].id \in answered'
      <3> HIDE DEF e
      <3>1. \A i \in DOMAIN s : SentBy(s[i]) /\ s[i].id \in answered'
        BY <1>17, Zenon
      <3>2. ASSUME NEW i \in DOMAIN order'
            PROVE  SentBy(order'[i]) /\ order'[i].id \in answered'
        <4>1. CASE order'[i] = e
          BY <1>15, <1>17, <4>1, Zenon
        <4>2. CASE i \in DOMAIN s /\ order'[i] = s[i]
          BY <3>1, <4>2, Zenon
        <4> QED BY <2>1, <4>1, <4>2, Zenon
      <3> QED BY <1>2, <3>2, Zenon DEF SentBy
    <2>5. \A r \in answered' \ lost' : r \in seen' \/ Forgotten(r)'
      BY <1>11, <1>17, Zenon
    <2> QED BY <1>14, <2>2, <2>3, <2>4, <2>5, Zenon DEF GatewayInv
  <1>18. CASE /\ id \notin left /\ Len(kept) >= Capacity
              /\ order' = Append(Tail(kept), e)
              /\ seen' = (left \ {Head(kept).id}) \cup {id}
              /\ lost' = (lost \cup late \cup {Head(kept).id}) \ {id}
              /\ answered' = answered \cup {id}
              /\ Reply(id, "answered", now)
    <2>1. Len(kept) > 0
      BY <1>9, <1>18
    <2>2. /\ Tail(kept) \in Seq(Entry) /\ Len(Tail(kept)) = Len(kept) - 1
          /\ \A i \in DOMAIN Tail(kept) :
               i + 1 \in DOMAIN kept /\ Tail(kept)[i] = kept[i + 1]
          /\ Head(kept).id \in Entries(kept)
          /\ Entries(Tail(kept)) = Entries(kept) \ {Head(kept).id}
          /\ \A i, j \in DOMAIN Tail(kept) :
               Tail(kept)[i].id = Tail(kept)[j].id => i = j
      BY <1>7, <1>8, <2>1, Evicting, Zenon
    <2>3. \A i \in DOMAIN Tail(kept) :
            SentBy(Tail(kept)[i]) /\ Tail(kept)[i].id \in answered
      BY <1>10, <2>2, Zenon
    <2>4. Len(Tail(kept)) < Capacity
      BY <1>9, <2>2
    <2>5. {Head(kept).id} \in SUBSET Request
      BY <1>8, <1>13, <2>2, Zenon
    <2> QED BY <1>8, <1>17, <1>18, <2>2, <2>3, <2>4, <2>5, Zenon
  <1>19. CASE /\ id \notin left /\ Len(kept) < Capacity
              /\ order' = Append(kept, e)
              /\ seen' = left \cup {id} /\ lost' = (lost \cup late) \ {id}
              /\ answered' = answered \cup {id}
              /\ Reply(id, "answered", now)
    <2>1. /\ Entries(kept) = left \ {} /\ seen' = (left \ {}) \cup {id}
          /\ lost' = (lost \cup late \cup {}) \ {id} /\ {} \in SUBSET Request
      BY <1>8, <1>19, Zenon
    <2> QED BY <1>7, <1>8, <1>10, <1>17, <1>19, <2>1, Zenon
  <1> QED BY <1>6, <1>16, <1>18, <1>19, Zenon DEF Insert

(* A restart empties the window. *)
LEMMA RestartInv ==
  ASSUME GatewayInv, Restart
  PROVE  GatewayInv'
  <1>1. \A r \in answered \ lost' : Forgotten(r)'
    BY Zenon DEF GatewayInv, Restart, Forgotten, TooOld, Busy
  <1> QED
    BY <1>1, GatewayAssumption DEF GatewayInv, GatewayTypeOK, WindowIsConsistent, Entries,
       Restart, Busy, Idle, SentBy

(* The app seals a request. *)
LEMMA SealInv ==
  ASSUME GatewayInv, Seal
  PROVE  GatewayInv'
  <1> USE GatewayAssumption
  <1>1. PICK id \in Request, sent \in Nat :
          stamp[id] = Unsent /\ stamp' = [stamp EXCEPT ![id] = sent]
    BY Zenon DEF Seal
  <1>2. UNCHANGED <<clock, task, order, seen, reply, answered, lost>>
    BY Zenon DEF Seal
  <1>3. \A r \in Request : stamp[r] # Unsent => stamp'[r] = stamp[r]
    BY <1>1, Zenon DEF GatewayInv, GatewayTypeOK
  <1>4. GatewayTypeOK'
    BY <1>1, <1>2, Zenon DEF GatewayInv, GatewayTypeOK
  <1>5. \A i \in DOMAIN order : order[i] \in Entry
    BY DEF GatewayInv, GatewayTypeOK
  <1>6. \A e \in Entry : SentBy(e) => SentBy(e)' /\ stamp'[e.id] = stamp[e.id]
    BY <1>3, Zenon DEF SentBy, Entry
  <1>7. \A h \in Handler : Busy(h) => task[h] \in Entry
    BY Zenon DEF GatewayInv, GatewayTypeOK, Busy
  <1>8. \A r \in Request : Forgotten(r) => Forgotten(r)'
    BY <1>2, <1>3, Zenon DEF Forgotten, TooOld, Busy
  <1> QED
    BY <1>2, <1>4, <1>5, <1>6, <1>7, <1>8 DEF GatewayInv, GatewayTypeOK, WindowIsConsistent,
       Entries, SentBy, Busy

(* Time passes. *)
LEMMA TickInv ==
  ASSUME GatewayInv, Tick
  PROVE  GatewayInv'
  <1> USE GatewayAssumption
  <1>1. /\ clock \in Nat /\ clock' = clock + 1
        /\ UNCHANGED <<stamp, task, order, seen, reply, answered, lost>>
    BY Zenon DEF Tick, GatewayInv, GatewayTypeOK
  <1>2. \A h \in Handler : Busy(h)' =>
          /\ SentBy(task[h])'
          /\ task'[h].time <= stamp'[task'[h].id] + Skew
          /\ task'[h].time <= clock'
    BY <1>1, SMTT(30) DEF Tick, GatewayInv, GatewayTypeOK, Busy, SentBy, Entry
  <1>3. \A r \in answered \ lost : Forgotten(r) => Forgotten(r)'
    <2>1. \A r \in answered \ lost : TooOld(r) => TooOld(r)'
      BY <1>1, SMTT(30) DEF TooOld, GatewayInv, GatewayTypeOK, Unsent
    <2> QED BY <1>1, <2>1, Zenon DEF Forgotten, Busy
  <1> QED
    BY <1>1, <1>2, <1>3 DEF GatewayInv, GatewayTypeOK, WindowIsConsistent, Entries,
       SentBy

(* Every step of the gateway keeps the inductive invariant. *)
LEMMA GatewayNextInv == GatewayInv /\ [GatewayNext]_gatewayVars => GatewayInv'
  <1> SUFFICES ASSUME GatewayInv, [GatewayNext]_gatewayVars PROVE GatewayInv'
    BY Zenon
  <1>1. CASE UNCHANGED gatewayVars
    BY <1>1 DEF gatewayVars, GatewayInv, GatewayTypeOK, WindowIsConsistent, Entries,
       SentBy, TooOld, Forgotten, Busy
  <1>2. CASE GatewayNext
    BY <1>2, OpenInv, DispatchInv, RestartInv, SealInv, TickInv, Zenon DEF GatewayNext,
       GatewayStep
  <1> QED BY <1>1, <1>2, Zenon

(* The inductive invariant of the gateway: whatever is entered in the window *)
(* was sent at most Skew seconds after its entry, and what the window has    *)
(* purged is too old to be opened and in no handler's hand.                  *)
THEOREM GatewayInvariant == GatewaySpec => []GatewayInv
  BY GatewayInitInv, GatewayNextInv, PTL DEF GatewaySpec

(* A request delivered late or many times is dispatched once (handle and     *)
(* ReplayWindow::insert), however long handlers wait between their clock and *)
(* the mutex, unless the window was full, was lost in a restart, or let the  *)
(* request age out while a handler that had let it in was waiting.           *)
THEOREM DispatchedOnce == GatewaySpec => AnsweredOnce
  <1> DEFINE Refused == \A h \in Handler :
               Dispatch(h) /\ task[h].id \in answered \ lost => reply'.kind = "replay"
  <1>1. GatewayInv => Refused
    <2> SUFFICES ASSUME GatewayInv, NEW h \in Handler, Dispatch(h), task[h].id \in answered \ lost
                 PROVE  reply'.kind = "replay"
      BY Zenon
    <2>1. PICK n \in 0 .. Len(order) :
            /\ AgedOut(n, task[h].time)
            /\ Insert(task[h].id, task[h].time, SubSeq(order, n + 1, Len(order)),
                      seen \ {order[i].id : i \in 1 .. n},
                      {order[i].id : i \in 1 .. n} \cap WaitingBeside(h))
      BY Zenon DEF Dispatch
    <2>2. Busy(h)
      BY Zenon DEF Dispatch
    <2>3. task[h].id \in seen \ {order[i].id : i \in 1 .. n}
      BY <2>1, <2>2, KnownIsFound, Zenon
    <2>4. Reply(task[h].id, "replay", task[h].time)
      BY <2>1, <2>3, Zenon DEF Insert
    <2> QED BY <2>4 DEF Reply
  <1> QED BY <1>1, GatewayInvariant, PTL DEF AnsweredOnce

(* The window's set and queue agree and stay within the capacity. *)
THEOREM WindowConsistent == GatewaySpec => []WindowIsConsistent
  <1>1. GatewayInv => WindowIsConsistent
    BY Zenon DEF GatewayInv
  <1> QED BY <1>1, GatewayInvariant, PTL

(* A handler refuses as a replay only what it finds in the window, and the  *)
(* window holds dispatched requests only.                                   *)
LEMMA RefusedNext ==
  ASSUME GatewayInv, OnlyAnsweredIsRefused, [GatewayNext]_gatewayVars
  PROVE  OnlyAnsweredIsRefused'
  <1>1. CASE UNCHANGED gatewayVars \/ Restart \/ Seal \/ Tick
    BY <1>1 DEF gatewayVars, OnlyAnsweredIsRefused, Restart, Seal, Tick
  <1>2. ASSUME NEW h \in Handler, Open(h) PROVE OnlyAnsweredIsRefused'
    BY <1>2 DEF Open, Reply, OnlyAnsweredIsRefused
  <1>3. ASSUME NEW h \in Handler, Dispatch(h) PROVE OnlyAnsweredIsRefused'
    <2>1. PICK n \in 0 .. Len(order) :
            Insert(task[h].id, task[h].time, SubSeq(order, n + 1, Len(order)),
                   seen \ {order[i].id : i \in 1 .. n},
                   {order[i].id : i \in 1 .. n} \cap WaitingBeside(h))
      BY <1>3, Zenon DEF Dispatch
    <2>2. seen \subseteq answered
      BY Zenon DEF GatewayInv, WindowIsConsistent, Entries
    <2>3. CASE task[h].id \in seen /\ UNCHANGED answered /\ Reply(task[h].id, "replay", task[h].time)
      BY <2>2, <2>3, Zenon DEF Reply, OnlyAnsweredIsRefused
    <2>4. CASE Reply(task[h].id, "answered", task[h].time)
      BY <2>4, Zenon DEF Reply, OnlyAnsweredIsRefused
    <2> QED BY <2>1, <2>3, <2>4, Zenon DEF Insert
  <1> QED BY <1>1, <1>2, <1>3, Zenon DEF GatewayNext, GatewayStep

(* ReplayWindow::insert refuses a request only when it was dispatched       *)
(* before, from a window whose set and queue agree.                         *)
THEOREM RefusalAlwaysJust == GatewaySpec => []RefusalIsJust
  <1>1. GatewayInit => OnlyAnsweredIsRefused
    BY DEF GatewayInit, OnlyAnsweredIsRefused, NoReply
  <1> QED BY <1>1, RefusedNext, GatewayInvariant, WindowConsistent, PTL DEF GatewaySpec, RefusalIsJust

-----------------------------------------------------------------------------

(* While the app waits its request is out and the timeout has not passed;   *)
(* an answer about the clock was given after the request was sent; and the  *)
(* second attempt carries the gateway's time of at most a round trip ago.   *)
AppInv ==
    /\ TypeOK
    /\ GatewayInv
    /\ reply # NoReply => stamp[reply.id] # Unsent
    /\ app.at = "waiting" =>
         /\ stamp[app.id] # Unsent
         /\ app.since <= clock /\ clock <= app.since + MaxDelay
         /\ reply.id = app.id /\ reply.kind = "skew" =>
              app.since <= reply.time /\ reply.time <= clock
         /\ app.attempt = 2 =>
              /\ app.since <= stamp[app.id] + MaxDelay
              /\ stamp[app.id] <= app.since
    /\ RetryIsInTime

(* The app has sent nothing yet. *)
LEMMA AppInitInv == Init => AppInv
  BY GatewayInitInv, GatewayAssumption, AppAssumption
     DEF Init, GatewayInit, AppInv, TypeOK, GatewayTypeOK, RetryIsInTime, NoExchange,
         NoReply, Busy, Idle, Unsent, Entry, Kinds

(* The clock of the app never shows a time below zero. *)
LEMMA LocalTimeType == TypeOK => LocalTime \in Nat
  BY AppAssumption DEF TypeOK, GatewayTypeOK, LocalTime, NotBelowZero

(* An attempt puts a time in a request that was not sent before. *)
LEMMA AttemptSeals ==
  ASSUME TypeOK, NEW n, offset' \in Int, Attempt(n)
  PROVE  \E id \in Request, sent \in Nat :
           /\ stamp[id] = Unsent
           /\ sent = NotBelowZero(LocalTime + offset')
           /\ stamp' = [stamp EXCEPT ![id] = sent]
           /\ app' = [at |-> "waiting", id |-> id, attempt |-> n, since |-> clock]
  <1>1. NotBelowZero(LocalTime + offset') \in Nat
    BY LocalTimeType DEF NotBelowZero
  <1> QED BY <1>1, Zenon DEF Attempt, Unused

(* To the gateway, what the app does is to seal a request, or nothing. *)
LEMMA AppSealsStep ==
  ASSUME TypeOK, Send \/ Receive
  PROVE  Seal \/ UNCHANGED gatewayVars
  <1>1. CASE Send
    <2>1. offset' \in Int /\ Attempt(1) /\ UnchangedGateway
      BY <1>1, Zenon DEF Send, TypeOK
    <2> QED BY <2>1, AttemptSeals, Zenon DEF Seal, UnchangedGateway
  <1>2. CASE Receive
    <2>1. CASE offset' = reply.time - LocalTime /\ Attempt(2)
      <3>1. offset' \in Int
        BY <2>1, AppAssumption
           DEF TypeOK, GatewayTypeOK, LocalTime, NoReply, Unsent
      <3> QED BY <1>2, <2>1, <3>1, AttemptSeals, Zenon DEF Receive, Seal, UnchangedGateway
    <2>2. CASE UNCHANGED stamp
      BY <1>2, <2>2, Zenon DEF Receive, UnchangedGateway, gatewayVars
    <2> QED BY <1>2, <2>1, <2>2, Zenon DEF Receive
  <1> QED BY <1>1, <1>2, Zenon

(* Every step of the composition is a step of the gateway, or leaves it be. *)
LEMMA AppStep ==
  ASSUME TypeOK, [Next]_vars
  PROVE  [GatewayNext]_gatewayVars
  <1>1. CASE Send \/ Receive
    BY <1>1, AppSealsStep, Zenon DEF GatewayNext
  <1>2. CASE GiveUp
    BY <1>2, Zenon DEF GiveUp, UnchangedGateway, gatewayVars
  <1>3. CASE Gateway \/ Time
    BY <1>3, Zenon DEF Gateway, Time, GatewayNext
  <1>4. CASE UNCHANGED vars
    BY <1>4, Zenon DEF vars
  <1> QED BY <1>1, <1>2, <1>3, <1>4, Zenon DEF Next

(* A new request has no answer yet. *)
LEMMA AttemptInv ==
  ASSUME AppInv, GatewayInv', NEW n \in {1, 2}, offset' \in Int, Attempt(n),
         UnchangedGateway, UNCHANGED drift,
         n = 2 => \E t \in Nat : /\ NotBelowZero(LocalTime + offset') = t
                                  /\ t <= clock /\ clock <= t + MaxDelay
  PROVE  AppInv'
  <1> USE GatewayAssumption, AppAssumption
  <1>1. PICK id \in Request, sent \in Nat :
           /\ stamp[id] = Unsent
           /\ sent = NotBelowZero(LocalTime + offset')
           /\ stamp' = [stamp EXCEPT ![id] = sent]
           /\ app' = [at |-> "waiting", id |-> id, attempt |-> n, since |-> clock]
    BY AttemptSeals, Zenon DEF AppInv
  <1>2. /\ clock \in Nat /\ stamp \in [Request -> Nat \cup {Unsent}]
        /\ reply \in [id : Request, kind : Kinds, time : Nat] \cup {NoReply}
        /\ UNCHANGED <<clock, reply, drift>>
    BY Zenon DEF AppInv, TypeOK, GatewayTypeOK, UnchangedGateway
  <1>3. reply.id # id
    BY <1>1, <1>2 DEF AppInv, NoReply, Unsent
  <1>4. TypeOK'
    BY <1>1, <1>2, Zenon DEF AppInv, TypeOK, GatewayInv
  <1>5. stamp'[id] = sent /\ sent # Unsent
    BY <1>1, <1>2 DEF Unsent
  <1>6. reply' # NoReply => stamp'[reply'.id] # Unsent
    BY <1>1, <1>2, <1>3, Zenon DEF AppInv
  <1>7. n = 2 => sent <= clock /\ clock <= sent + MaxDelay
    BY <1>1, Zenon
  <1>8. RetryIsInTime'
    BY <1>1, <1>2, <1>3, Zenon DEF RetryIsInTime
  <1> QED BY <1>1, <1>2, <1>3, <1>4, <1>5, <1>6, <1>7, <1>8 DEF AppInv

(* The app takes a reply: it tries again with the gateway's time, or is done. *)
LEMMA ReceiveInv ==
  ASSUME AppInv, GatewayInv', Receive
  PROVE  AppInv'
  <1> USE GatewayAssumption, AppAssumption
  <1>1. CASE /\ reply.kind = "skew" /\ app.attempt = 1
             /\ offset' = reply.time - LocalTime
             /\ Attempt(2)
    <2>1. /\ app.at = "waiting" /\ reply.id = app.id /\ UnchangedGateway
          /\ UNCHANGED drift
      BY Zenon DEF Receive
    <2>2. /\ reply.time \in Int /\ clock \in Nat /\ app.since \in Nat
          /\ app.since <= reply.time /\ reply.time <= clock
          /\ clock <= app.since + MaxDelay
      BY <1>1, <2>1 DEF AppInv, TypeOK, GatewayTypeOK, NoReply, Unsent, NoExchange
    <2>3. LocalTime \in Nat
      BY LocalTimeType, Zenon DEF AppInv
    <2>4. offset' \in Int /\ LocalTime + offset' = reply.time
      BY <1>1, <2>2, <2>3
    <2>5. /\ NotBelowZero(LocalTime + offset') = reply.time /\ reply.time \in Nat
          /\ reply.time <= clock /\ clock <= reply.time + MaxDelay
      BY <2>2, <2>4 DEF NotBelowZero
    <2> QED BY <1>1, <2>1, <2>4, <2>5, AttemptInv, Zenon
  <1>2. CASE app' = NoExchange /\ UNCHANGED <<offset, stamp>>
    BY <1>2, Zenon DEF Receive, UnchangedGateway, AppInv, TypeOK, GatewayInv, RetryIsInTime,
       NoExchange
  <1> QED BY <1>1, <1>2, Zenon DEF Receive

(* The gateway's own steps: it refuses for the clock only what is off by    *)
(* more than Skew, and a second attempt is off by at most two round trips.  *)
LEMMA GatewayStepInv ==
  ASSUME AppInv, GatewayInv', Gateway
  PROVE  AppInv'
  <1> USE GatewayAssumption, AppAssumption
  <1>1. /\ GatewayStep
        /\ UNCHANGED <<drift, offset, app, clock, stamp>>
    BY Zenon DEF Gateway, GatewayStep, Open, Dispatch, Restart
  <1>2. /\ clock \in Nat /\ stamp \in [Request -> Nat \cup {Unsent}]
        /\ app.at = "waiting" => app.id \in Request /\ app.since \in Nat
        /\ TypeOK'
    BY <1>1, SMTT(30) DEF AppInv, TypeOK, GatewayInv, GatewayTypeOK, NoExchange
  <1>3. ASSUME NEW id \in Request, stamp[id] # Unsent, NEW kind \in {"replay", "answered"},
               NEW now, Reply(id, kind, now)
        PROVE  AppInv'
    BY <1>1, <1>2, <1>3, Zenon DEF AppInv, Reply, RetryIsInTime, NoReply
  <1>4. ASSUME NEW id \in Request, stamp[id] # Unsent, Skewed(stamp[id], clock),
               Reply(id, "skew", clock)
        PROVE  AppInv'
    <2>1. ASSUME app.at = "waiting", app.attempt = 2, app.id = id
          PROVE  FALSE
      <3>1. /\ app.since \in Nat /\ stamp[id] \in Nat
            /\ app.since <= clock /\ clock <= app.since + MaxDelay
            /\ app.since <= stamp[id] + MaxDelay /\ stamp[id] <= app.since
        BY <1>2, <1>4, <2>1, Zenon DEF AppInv
      <3> QED BY <1>2, <1>4, <3>1 DEF Skewed
    <2> QED BY <1>1, <1>2, <1>4, <2>1 DEF AppInv, Reply, RetryIsInTime
  <1>5. CASE UNCHANGED reply
    BY <1>1, <1>2, <1>5, Zenon DEF AppInv, RetryIsInTime
  <1>6. ASSUME NEW h \in Handler, Open(h)
        PROVE  AppInv'
    BY <1>4, <1>5, <1>6, Zenon DEF Open
  <1>7. ASSUME NEW h \in Handler, Dispatch(h)
        PROVE  AppInv'
    <2>1. task[h].id \in Request /\ stamp[task[h].id] # Unsent
      BY <1>7, Zenon DEF Dispatch, AppInv, GatewayInv, GatewayTypeOK, Busy, Idle, Entry, SentBy
    <2>2. \E kind \in {"replay", "answered"} : Reply(task[h].id, kind, task[h].time)
      BY <1>7, Zenon DEF Dispatch, Insert
    <2> QED BY <1>3, <2>1, <2>2, Zenon
  <1> QED BY <1>1, <1>5, <1>6, <1>7, Zenon DEF GatewayStep, Restart

(* Every step of the app and the gateway keeps the inductive invariant. *)
LEMMA AppNextInv == AppInv /\ [Next]_vars => AppInv'
  <1> SUFFICES ASSUME AppInv, [Next]_vars PROVE AppInv'
    BY Zenon
  <1> USE GatewayAssumption, AppAssumption
  <1>1. GatewayInv'
    BY AppStep, GatewayNextInv, Zenon DEF AppInv
  <1>2. CASE Send
    <2>1. offset' \in Int /\ Attempt(1) /\ UnchangedGateway /\ UNCHANGED drift
      BY <1>2, Zenon DEF Send, AppInv, TypeOK
    <2> QED BY <1>1, <2>1, AttemptInv
  <1>3. CASE Receive
    BY <1>1, <1>3, ReceiveInv, Zenon
  <1>4. CASE GiveUp
    BY <1>1, <1>4, Zenon DEF GiveUp, UnchangedGateway, AppInv, TypeOK, GatewayInv, RetryIsInTime,
       NoExchange
  <1>5. CASE Gateway
    BY <1>1, <1>5, GatewayStepInv, Zenon
  <1>6. CASE Time
    <2>1. /\ clock \in Nat /\ clock' = clock + 1
          /\ UNCHANGED <<stamp, reply, drift, offset, app>>
          /\ app.at = "waiting" => app.since \in Nat /\ clock - app.since < MaxDelay
      BY <1>6 DEF Time, Tick, AppInv, TypeOK, GatewayTypeOK, NoExchange
    <2>2. TypeOK'
      BY <1>1, <2>1, Zenon DEF AppInv, TypeOK, GatewayInv
    <2>3. reply.id = app.id /\ reply.kind = "skew" => reply.time \in Nat
      BY DEF AppInv, TypeOK, GatewayTypeOK, NoReply
    <2>4. app.at = "waiting" =>
            /\ app.since <= clock
            /\ reply.id = app.id /\ reply.kind = "skew" => reply.time <= clock
      BY Zenon DEF AppInv
    <2>5. app.at = "waiting" =>
            /\ app.since <= clock' /\ clock' <= app.since + MaxDelay
            /\ reply.id = app.id /\ reply.kind = "skew" => reply.time <= clock'
      BY <2>1, <2>3, <2>4, SMT
    <2> QED BY <1>1, <2>1, <2>2, <2>5, Zenon DEF AppInv, RetryIsInTime
  <1>7. CASE UNCHANGED vars
    BY <1>1, <1>7, Zenon DEF vars, gatewayVars, AppInv, TypeOK, GatewayInv, RetryIsInTime
  <1> QED BY <1>2, <1>3, <1>4, <1>5, <1>6, <1>7, Zenon DEF Next

(* The inductive invariant of the app and the gateway together. *)
THEOREM AppInvariant == Spec => []AppInv
  BY AppInitInv, AppNextInv, PTL DEF Spec

(* The app's second attempt, after correcting its clock, is never refused    *)
(* for the clock (exchange, attempt and the gateway's handle).               *)
THEOREM RetryPasses == Spec => []RetryIsInTime
  <1>1. AppInv => RetryIsInTime
    BY Zenon DEF AppInv
  <1> QED BY <1>1, AppInvariant, PTL

(* The composition uses the gateway as its specification says. *)
THEOREM AppUsesGateway == Spec => GatewaySpec
  <1>1. Init => GatewayInit
    BY Zenon DEF Init
  <1>2. AppInv /\ [Next]_vars => [GatewayNext]_gatewayVars
    BY AppStep, Zenon DEF AppInv
  <1> QED BY <1>1, <1>2, AppInvariant, PTL DEF Spec, GatewaySpec

(* No exchange of the app is dispatched twice (handle, ReplayWindow::insert). *)
THEOREM AppDispatchedOnce == Spec => AnsweredOnce
  BY AppUsesGateway, DispatchedOnce, PTL

=============================================================================
