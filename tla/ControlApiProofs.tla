-------------------------- MODULE ControlApiProofs --------------------------
(***************************************************************************)
(* What a server says to an app about updating, and what ends the app's    *)
(* session, for every release history, every setting and any number of     *)
(* days, sessions and changes.                                             *)
(***************************************************************************)
EXTENDS ControlApi, WellFoundedInduction, TLAPS

-----------------------------------------------------------------------------
(* Releases: ratings, deadlines and the most urgent of them. *)

\* A non-empty set of ratings has a most urgent one.
LEMMA MostUrgent ==
    ASSUME NEW S \in SUBSET Rating, S # {}
    PROVE  Max(S) \in S /\ \A y \in S : y <= Max(S)
<1>1. \E x \in S : \A y \in S : x >= y
  <2>1. CASE 4 \in S
    BY <2>1 DEF Rating, Unrated, Critical
  <2>2. CASE 4 \notin S /\ 3 \in S
    BY <2>2 DEF Rating, Unrated, Critical
  <2>3. CASE 4 \notin S /\ 3 \notin S /\ 2 \in S
    BY <2>3 DEF Rating, Unrated, Critical
  <2>4. CASE 4 \notin S /\ 3 \notin S /\ 2 \notin S /\ 1 \in S
    BY <2>4 DEF Rating, Unrated, Critical
  <2>5. CASE 4 \notin S /\ 3 \notin S /\ 2 \notin S /\ 1 \notin S
    <3>1. \A y \in S : y = 0
      BY <2>5 DEF Rating, Unrated, Critical
    <3> QED BY <3>1
  <2> QED BY <2>1, <2>2, <2>3, <2>4, <2>5, Zenon
<1>2. Max(S) \in S /\ \A y \in S : Max(S) >= y
  BY <1>1, Zenon DEF Max
<1> QED BY <1>2 DEF Rating, Unrated, Critical

\* A non-empty set of days has a first one.
LEMMA FirstOf ==
    ASSUME NEW S \in SUBSET Nat, S # {}
    PROVE  Min(S) \in S /\ \A y \in S : Min(S) <= y
<1>1. PICK n \in S : \A m \in S : ~ (<<m, n>> \in OpToRel(<, Nat))
  BY WFMin, NatLessThanWellFounded, Zenon
<1>2. \A m \in S : m < n => <<m, n>> \in OpToRel(<, Nat)
  BY Zenon DEF OpToRel
<1>3. \A m \in S : ~ (m < n)
  BY <1>1, <1>2, Zenon
<1>4. \A m \in S : n =< m
  BY <1>3
<1> QED BY <1>4, Zenon DEF Min

\* A date that is accepted is not before the first of January 1970.
LEMMA DateIsCounted ==
    ASSUME NEW d \in [1..3 -> Nat], parse_date(d) # NoDay
    PROVE  parse_date(d) \in Nat
<1> DEFINE y == d[1]
           m == d[2]
           t == d[3]
<1>1. y \in Nat /\ m \in Nat /\ t \in Nat
  OBVIOUS
<1>2. y >= 1970 /\ t # 0 /\ t <= MonthDays(y, m) /\ parse_date(d) = EraDay(y, m, t, 1)
  BY <1>1 DEF parse_date, NoDay, MonthDays
<1>3. m \in 1..12
  BY <1>1, <1>2 DEF MonthDays
<1> HIDE DEF y, m, t
<1>4. EraDay(y, m, t, 1) \in Nat
  BY <1>1, <1>2, <1>3 DEF EraDay
<1> QED BY <1>2, <1>4

\* What is known of an entry of the history.
Sound(r) ==
    /\ r \in Entry
    /\ parse_date(r.published) # NoDay
    /\ DOMAIN r.apps # {} => r.client = Max({r.apps[p] : p \in DOMAIN r.apps})

\* The manifest of a build holds entries of the history.
LEMMA ManifestIsSound ==
    ASSUME NEW b \in 1..Len(History), NEW v, NEW t, NEW r \in After(Manifest(b), v, t)
    PROVE  Sound(r)
<1>1. PICK i \in 1..Len(SubSeq(History, 1, b)) : r = SubSeq(History, 1, b)[i]
  BY Zenon DEF After, Manifest
<1>2. \A k \in 1..Len(History) : History[k] \in Entry
  BY ControlApiAssumption
<1>3. Len(History) \in Nat
  BY ControlApiAssumption
<1>4. \A k \in 1..b : History[k] \in Entry
  BY <1>2, <1>3
<1>5. 1 \in Int /\ b \in Int /\ 1 <= b
  BY <1>3
<1>6. /\ Len(SubSeq(History, 1, b)) = IF 1 <= b THEN b - 1 + 1 ELSE 0
      /\ \A k \in 1..(b - 1 + 1) : SubSeq(History, 1, b)[k] = History[1 + k - 1]
  BY <1>4, <1>5
<1>7. i \in 1..Len(History) /\ r = History[i]
  <2>1. Len(SubSeq(History, 1, b)) = b
    BY <1>5, <1>6
  <2>2. i \in 1..(b - 1 + 1) /\ 1 + i - 1 = i /\ i \in 1..Len(History)
    BY <1>1, <1>3, <2>1
  <2> QED BY <1>1, <1>6, <2>2, Zenon
<1>8. \A k \in 1..Len(History) :
         /\ parse_date(History[k].published) # NoDay
         /\ DOMAIN History[k].apps # {} =>
              History[k].client = Max({History[k].apps[p] : p \in DOMAIN History[k].apps})
  <2> DEFINE whole == [grace |-> Grace, releases |-> History]
  <2>1. valid_manifest(whole) /\ whole.releases = History
    BY ControlApiAssumption, Zenon
  <2> HIDE DEF whole
  <2>2. \A k \in 1..Len(whole.releases) :
          LET r0 == whole.releases[k] IN
          /\ parse_date(r0.published) # NoDay
          /\ DOMAIN r0.apps # {} => r0.client = Max({r0.apps[p] : p \in DOMAIN r0.apps})
    BY <2>1, Zenon DEF valid_manifest
  <2> QED BY <2>1, <2>2, Zenon
<1> QED BY <1>2, <1>7, <1>8, Zenon DEF Sound

\* A platform's rating is at most the one given to servers and unnamed apps.
LEMMA RatingsAreBounded ==
    ASSUME NEW r, Sound(r), NEW p
    PROVE  /\ r.server \in Rating /\ r.client \in Rating
           /\ client_rating(r, p) \in Rating /\ client_rating(r, p) <= r.client
<1>1. r.server \in Rating /\ r.client \in Rating
  BY Zenon DEF Sound, Entry
<1>2. PICK T \in SUBSET Platform : r.apps \in [T -> Rating]
  BY Zenon DEF Sound, Entry
<1>3. CASE p = NoPlatform \/ DOMAIN r.apps = {}
  <2>1. p \notin DOMAIN r.apps
    BY <1>2, <1>3 DEF NoPlatform, Platform
  <2>2. client_rating(r, p) = r.client
    BY <1>3, <2>1, Zenon DEF client_rating
  <2> QED BY <1>1, <2>2 DEF Rating, Unrated, Critical
<1>4. CASE ~(p = NoPlatform \/ DOMAIN r.apps = {}) /\ p \in DOMAIN r.apps
  <2> DEFINE S == {r.apps[q] : q \in DOMAIN r.apps}
  <2>1. client_rating(r, p) = r.apps[p] /\ r.apps[p] \in S
    BY <1>4, Zenon DEF client_rating
  <2>2. S \in SUBSET Rating /\ S # {}
    BY <1>2, <2>1, Zenon
  <2>3. r.client = Max(S)
    BY <1>4, Zenon DEF Sound
  <2>4. r.apps[p] <= Max(S)
    BY <2>1, <2>2, MostUrgent, Zenon
  <2>5. r.apps[p] \in Rating
    BY <2>1, <2>2, Zenon
  <2> QED BY <1>1, <2>1, <2>3, <2>4, <2>5, Zenon
<1>5. CASE ~(p = NoPlatform \/ DOMAIN r.apps = {}) /\ p \notin DOMAIN r.apps
  <2>1. client_rating(r, p) = Unrated
    BY <1>5, Zenon DEF client_rating
  <2> QED BY <1>1, <2>1 DEF Rating, Unrated, Critical
<1> QED BY <1>3, <1>4, <1>5, Zenon

\* A security release becomes required on a day of the calendar.
LEMMA DeadlineIsDay ==
    ASSUME NEW b, NEW r, Sound(r)
    PROVE  Deadline(Manifest(b), r) \in Nat
<1>1. r.published \in [1..3 -> Nat]
  BY Zenon DEF Sound, Entry
<1>2. parse_date(r.published) \in Nat
  BY <1>1, DateIsCounted, Zenon DEF Sound
<1>3. Grace \in Nat
  <2>1. Grace \in 1..365
    BY ControlApiAssumption, Zenon DEF valid_manifest
  <2> QED BY <2>1
<1>4. Deadline(Manifest(b), r) = parse_date(r.published) + Grace
  BY Zenon DEF Deadline, Manifest
<1> QED BY <1>2, <1>3, <1>4

\* What is said of one release: the rating, or that the update is required.
RatedAs(m, r, p, now) ==
    /\ Rated(m, r, p, now) \in Rating
    /\ client_rating(r, p) \in Rating
    /\ Deadline(m, r) \in Nat
    /\ Rated(m, r, p, now) =
         IF client_rating(r, p) = 3 /\ now >= Deadline(m, r) THEN 4 ELSE client_rating(r, p)

\* It is said of every release an app lacks.
LEMMA RatedIs ==
    ASSUME NEW b \in 1..Len(History), NEW v, NEW t, NEW p, NEW now,
           NEW r \in After(Manifest(b), v, t)
    PROVE  RatedAs(Manifest(b), r, p, now)
<1>1. Sound(r)
  BY ManifestIsSound, Zenon
<1>2. client_rating(r, p) \in Rating /\ Deadline(Manifest(b), r) \in Nat
  BY <1>1, RatingsAreBounded, DeadlineIsDay, Zenon
<1>3. Rated(Manifest(b), r, p, now) =
        IF client_rating(r, p) = 3 /\ now >= Deadline(Manifest(b), r) THEN 4
        ELSE client_rating(r, p)
  BY Zenon DEF Rated, Security, Required
<1>4. 4 \in Rating
  BY DEF Rating, Unrated, Critical
<1> QED BY <1>2, <1>3, <1>4, Zenon DEF RatedAs

-----------------------------------------------------------------------------
(* The advice. *)

\* The most urgent of what is said of the releases an app lacks.
Most(policy, m, client, now) ==
    Max({Current} \cup {Rated(m, r, client.platform, now) : r \in After(m, client.version, policy.server)})

\* It is what is said of one of them, and nothing said is more urgent.
LEMMA MostIs ==
    ASSUME NEW b \in 1..Len(History), NEW policy, NEW client, NEW now
    PROVE  LET m == Manifest(b)
               most == Most(policy, m, client, now)
               newer == After(m, client.version, policy.server)
           IN /\ most \in Rating
              /\ most # 0 => \E r \in newer : Rated(m, r, client.platform, now) = most
              /\ \A r \in newer : Rated(m, r, client.platform, now) <= most
<1> DEFINE m == Manifest(b)
           newer == After(m, client.version, policy.server)
           S == {Current} \cup {Rated(m, r, client.platform, now) : r \in newer}
<1>1. \A r \in newer : Rated(m, r, client.platform, now) \in Rating
  BY RatedIs, Zenon DEF RatedAs
<1>2. Current \in Rating
  BY DEF Rating, Unrated, Critical, Current
<1>3. S \in SUBSET Rating /\ S # {}
  BY <1>1, <1>2, Zenon
<1>4. Max(S) \in S /\ \A y \in S : y <= Max(S)
  BY <1>3, MostUrgent, Zenon
<1>5. Most(policy, m, client, now) = Max(S)
  BY Zenon DEF Most
<1> QED BY <1>3, <1>4, <1>5, Zenon DEF Current

\* The deadlines ahead are days to come, those of security releases, and the
\* first of them is one of them.
LEMMA AheadIs ==
    ASSUME NEW b \in 1..Len(History), NEW policy, NEW client, NEW now \in Nat
    PROVE  LET m == Manifest(b)
               ahead == Ahead(policy, m, client, now)
               newer == After(m, client.version, policy.server)
           IN /\ \A r \in newer : Rated(m, r, client.platform, now) = 3 => Deadline(m, r) \in ahead
              /\ \A d \in ahead : /\ d \in Nat
                                 /\ \E r \in newer : /\ d = Deadline(m, r)
                                                     /\ client_rating(r, client.platform) = 3
              /\ ahead # {} => Min(ahead) \in ahead /\ \A d \in ahead : Min(ahead) <= d
<1> DEFINE m == Manifest(b)
           ahead == Ahead(policy, m, client, now)
           newer == After(m, client.version, policy.server)
<1>1. \A r \in newer : Rated(m, r, client.platform, now) = 3 => Deadline(m, r) \in ahead
  BY Zenon DEF Ahead, Security
<1>2. ASSUME NEW d \in ahead
      PROVE  d \in Nat /\ \E r \in newer : d = Deadline(m, r) /\ client_rating(r, client.platform) = 3
  <2>1. PICK r \in newer : d = Deadline(m, r) /\ Rated(m, r, client.platform, now) = 3
    BY Zenon DEF Ahead, Security
  <2>2. RatedAs(m, r, client.platform, now)
    BY RatedIs, Zenon
  <2>3. Deadline(m, r) \in Nat /\ client_rating(r, client.platform) = 3
    BY <2>1, <2>2 DEF RatedAs
  <2> QED BY <2>1, <2>3, Zenon
<1>3. ahead # {} => Min(ahead) \in ahead /\ \A d \in ahead : Min(ahead) <= d
  <2>1. ahead \in SUBSET Nat
    BY <1>2, Zenon
  <2> QED BY <2>1, FirstOf, Zenon
<1> QED BY <1>1, <1>2, <1>3, Zenon

\* What is said is the most urgent of it all, softened where the operator warns.
Below(policy, client) == policy.minimum # NoMinimum /\ Newer(policy.minimum, client.version)
Status(policy, m, client, now) == IF Below(policy, client) THEN 4 ELSE Most(policy, m, client, now)

Says(policy, m, client, now) ==
    LET status == Status(policy, m, client, now)
        a == evaluate(policy, m, client, now)
    IN /\ a.server = policy.server
       /\ a.status = IF status = 4 /\ policy.enforcement = "warn" THEN 3 ELSE status
       /\ a.after = IF status = 3 THEN Min(Ahead(policy, m, client, now)) ELSE Never

\* That is what the server's rules come to.
LEMMA EvaluateIs ==
    ASSUME NEW policy, NEW m, NEW client, NEW now
    PROVE  Says(policy, m, client, now)
<1> DEFINE status == Status(policy, m, client, now)
           due == Min(Ahead(policy, m, client, now))
           said0 == evaluate(policy, m, client, now)
<1>1. said0 = CASE status = Required /\ policy.enforcement = "warn" -> Advice(policy, Security, Never)
                [] status = Security -> Advice(policy, status, due)
                [] OTHER -> Advice(policy, status, Never)
  BY Zenon DEF evaluate, Verdict, Status, Below, Most, Required
<1> HIDE DEF status, due, said0
<1>2. Required = 4 /\ Security = 3 /\ 3 # 4
  BY DEF Required, Security
<1>3. said0 = IF status = 4 /\ policy.enforcement = "warn" THEN Advice(policy, 3, Never)
              ELSE IF status = 3 THEN Advice(policy, status, due) ELSE Advice(policy, status, Never)
  BY <1>1, <1>2, Zenon
<1>4. \A x, y : LET a == Advice(policy, x, y) IN a.server = policy.server /\ a.status = x /\ a.after = y
  BY Zenon DEF Advice
<1>5. /\ said0.server = policy.server
      /\ said0.status = IF status = 4 /\ policy.enforcement = "warn" THEN 3 ELSE status
      /\ said0.after = IF status = 3 THEN due ELSE Never
  <2>1. CASE status = 4 /\ policy.enforcement = "warn"
    <3>1. said0 = Advice(policy, 3, Never) /\ status # 3
      BY <1>2, <1>3, <2>1, Zenon
    <3> QED BY <1>4, <2>1, <3>1, Zenon
  <2>2. CASE status = 3
    <3>1. said0 = Advice(policy, status, due) /\ status # 4
      BY <1>2, <1>3, <2>2, Zenon
    <3> QED BY <1>4, <2>2, <3>1, Zenon
  <2>3. CASE ~(status = 4 /\ policy.enforcement = "warn") /\ status # 3
    <3>1. said0 = Advice(policy, status, Never)
      BY <1>3, <2>3, Zenon
    <3> QED BY <1>4, <2>3, <3>1, Zenon
  <2> QED BY <2>1, <2>2, <2>3, Zenon
<1> QED BY <1>5, Zenon DEF Says, status, due, said0

\* What is said of the releases decides the rest.
LEMMA SameRated ==
    ASSUME NEW policy, NEW m, NEW client, NEW s, NEW t,
           \A r \in After(m, client.version, policy.server) :
             Rated(m, r, client.platform, s) = Rated(m, r, client.platform, t)
    PROVE  /\ Most(policy, m, client, s) = Most(policy, m, client, t)
           /\ Ahead(policy, m, client, s) = Ahead(policy, m, client, t)
<1> DEFINE newer == After(m, client.version, policy.server)
<1>1. {Rated(m, r, client.platform, s) : r \in newer} = {Rated(m, r, client.platform, t) : r \in newer}
  BY Zenon
<1>2. {r \in newer : Rated(m, r, client.platform, s) = Security}
        = {r \in newer : Rated(m, r, client.platform, t) = Security}
  BY Zenon
<1> QED BY <1>1, <1>2, Zenon DEF Most, Ahead

\* As days pass, what is said of a release can only become that its update is
\* required, and it does on the deadline of a security release.
Moves(m, r, p, s, t) ==
    /\ Rated(m, r, p, s) # 3 => Rated(m, r, p, t) = Rated(m, r, p, s)
    /\ Rated(m, r, p, s) = 3 /\ t < Deadline(m, r) => Rated(m, r, p, t) = 3
    /\ client_rating(r, p) = 3 /\ t >= Deadline(m, r) => Rated(m, r, p, t) = 4

\* So it is with every release an app lacks.
LEMMA RatedMoves ==
    ASSUME NEW b \in 1..Len(History), NEW v, NEW w0, NEW p, NEW s \in Nat, NEW t \in Nat, s <= t,
           NEW r \in After(Manifest(b), v, w0)
    PROVE  Moves(Manifest(b), r, p, s, t)
<1> DEFINE m == Manifest(b)
           k == client_rating(r, p)
           d == Deadline(m, r)
           a == Rated(m, r, p, s)
           c == Rated(m, r, p, t)
<1>0. RatedAs(m, r, p, s) /\ RatedAs(m, r, p, t)
  BY RatedIs, Zenon
<1>1. a = IF k = 3 /\ s >= d THEN 4 ELSE k
  BY <1>0, Zenon DEF RatedAs
<1>2. (c = IF k = 3 /\ t >= d THEN 4 ELSE k) /\ d \in Nat /\ k \in Rating
  BY <1>0, Zenon DEF RatedAs
<1> HIDE DEF m, k, d, a, c
<1>3. /\ a # 3 => c = a
      /\ a = 3 /\ t < d => c = 3
      /\ k = 3 /\ t >= d => c = 4
  BY <1>1, <1>2
<1> QED BY <1>3, Zenon DEF Moves, m, k, d, a, c

\* A server does not take back what it said: it says the same on a later day,
\* or that the update is required from the day it announced.
StaysSaid(policy, m, client, s, t) ==
    LET was == evaluate(policy, m, client, s)
        is == evaluate(policy, m, client, t)
    IN IF was.after # Never /\ t >= was.after
       THEN /\ is.after = Never
            /\ is.status = IF policy.enforcement = "warn" THEN Security ELSE Required
       ELSE is.after = was.after /\ is.status = was.status

\* That is so for every manifest the node may have.
LEMMA EvaluateKeeps ==
    ASSUME NEW b \in 1..Len(History), NEW policy, NEW client, NEW s \in Nat, NEW t \in Nat, s <= t
    PROVE  StaysSaid(policy, Manifest(b), client, s, t)
<1> DEFINE m == Manifest(b)
           p == client.platform
           newer == After(m, client.version, policy.server)
           was == evaluate(policy, m, client, s)
           is == evaluate(policy, m, client, t)
           M == Most(policy, m, client, s)
           N == Most(policy, m, client, t)
           A == Ahead(policy, m, client, s)
           B == Ahead(policy, m, client, t)
           first == Status(policy, m, client, s)
           then == Status(policy, m, client, t)
           Same == is.after = was.after /\ is.status = was.status
           Overdue == was.after # Never /\ t >= was.after
<1>0. SUFFICES IF Overdue
               THEN /\ is.after = Never
                    /\ is.status = IF policy.enforcement = "warn" THEN Security ELSE Required
               ELSE Same
  BY Zenon DEF StaysSaid
<1>a. Says(policy, m, client, s) /\ Says(policy, m, client, t)
  BY EvaluateIs, Zenon
<1>1. /\ was.status = IF first = 4 /\ policy.enforcement = "warn" THEN 3 ELSE first
      /\ was.after = IF first = 3 THEN Min(A) ELSE Never
  BY <1>a, Zenon DEF Says
<1>2. /\ is.status = IF then = 4 /\ policy.enforcement = "warn" THEN 3 ELSE then
      /\ is.after = IF then = 3 THEN Min(B) ELSE Never
  BY <1>a, Zenon DEF Says
<1>3. ASSUME NEW r \in newer
      PROVE  /\ Rated(m, r, p, s) # 3 => Rated(m, r, p, t) = Rated(m, r, p, s)
             /\ Rated(m, r, p, s) = 3 /\ t < Deadline(m, r) => Rated(m, r, p, t) = 3
             /\ client_rating(r, p) = 3 /\ t >= Deadline(m, r) => Rated(m, r, p, t) = 4
  <2>1. Moves(m, r, p, s, t)
    BY RatedMoves, Zenon
  <2> QED BY <2>1, Zenon DEF Moves
<1>4. /\ M \in Rating
      /\ M # 0 => \E r \in newer : Rated(m, r, p, s) = M
      /\ \A r \in newer : Rated(m, r, p, s) <= M
  BY MostIs, Zenon
<1>5. /\ N \in Rating
      /\ \A r \in newer : Rated(m, r, p, t) <= N
  BY MostIs, Zenon
<1>6. /\ \A r \in newer : Rated(m, r, p, s) = 3 => Deadline(m, r) \in A
      /\ \A d \in A : d \in Nat /\ \E r \in newer : d = Deadline(m, r) /\ client_rating(r, p) = 3
      /\ A # {} => Min(A) \in A /\ \A d \in A : Min(A) <= d
  BY AheadIs, Zenon
<1>7. (\A r \in newer : Rated(m, r, p, s) = Rated(m, r, p, t)) => M = N /\ A = B
  BY SameRated, Zenon
<1>8. first = (IF Below(policy, client) THEN 4 ELSE M) /\ then = (IF Below(policy, client) THEN 4 ELSE N)
  BY Zenon DEF Status
<1>9. (\E r \in newer : Rated(m, r, p, t) = 4) => N = 4
  BY <1>5 DEF Rating, Unrated, Critical
<1>10. Never = -1
  BY DEF Never
<1> HIDE DEF m, p, newer, was, is, M, N, A, B, first, then
<1>11. CASE first = 4 /\ then = 4
  BY <1>1, <1>2, <1>11
<1>12. CASE ~Below(policy, client) /\ M = 4
  <2>1. \E r \in newer : Rated(m, r, p, t) = 4
    BY <1>3, <1>4, <1>12
  <2> QED BY <1>8, <1>9, <1>11, <1>12, <2>1, Zenon
<1>13. CASE ~Below(policy, client) /\ M # 4 /\ M # 3
  <2>1. \A r \in newer : Rated(m, r, p, s) # 3
    BY <1>4, <1>13 DEF Rating, Unrated, Critical
  <2>2. M = N
    BY <1>3, <1>7, <2>1, Zenon
  <2> QED BY <1>1, <1>2, <1>8, <1>13, <2>2
<1>14. CASE ~Below(policy, client) /\ M = 3
  <2>1. PICK r \in newer : Rated(m, r, p, s) = 3
    BY <1>4, <1>14
  <2>2. Min(A) \in A /\ (\A d \in A : Min(A) <= d) /\ Min(A) \in Nat
    BY <1>6, <2>1, Zenon
  <2>3. was.after = Min(A) /\ was.status = 3
    BY <1>1, <1>8, <1>14
  <2>4. CASE t >= Min(A)
    <3>1. \E q \in newer : Rated(m, q, p, t) = 4
      BY <1>3, <1>6, <2>2, <2>4, Zenon
    <3>2. then = 4
      BY <1>8, <1>9, <1>14, <3>1, Zenon
    <3>3. was.after # Never
      BY <1>10, <2>2, <2>3
    <3> QED BY <1>2, <2>3, <2>4, <3>2, <3>3 DEF Security, Required
  <2>5. CASE ~(t >= Min(A))
    <3>1. ASSUME NEW q \in newer, Rated(m, q, p, s) = 3
          PROVE  Rated(m, q, p, t) = 3
      <4>1. Deadline(m, q) \in A /\ Min(A) <= Deadline(m, q) /\ Deadline(m, q) \in Nat
        BY <1>6, <2>2, <3>1, Zenon
      <4>2. t < Deadline(m, q)
        BY <2>2, <2>5, <4>1
      <4> QED BY <1>3, <3>1, <4>2, Zenon
    <3>2. \A q \in newer : Rated(m, q, p, s) = Rated(m, q, p, t)
      BY <1>3, <3>1, Zenon
    <3>3. M = N /\ A = B
      BY <1>7, <3>2, Zenon
    <3> QED BY <1>1, <1>2, <1>8, <2>3, <2>5, <3>3, Zenon
  <2> QED BY <2>4, <2>5, Zenon
<1>15. CASE Below(policy, client)
  BY <1>8, <1>11, <1>15, Zenon
<1> QED BY <1>12, <1>13, <1>14, <1>15, Zenon

\* The category an operator reads is one of the ratings ahead, none of them is
\* more urgent, and the server's own urgency is never below it.
Forecasts(m, v, t, p) ==
    LET f == app_update_category(m, v, t, p) IN
    /\ f \in Rating
    /\ f # 0 => \E r \in After(m, v, t) : client_rating(r, p) = f
    /\ \A r \in After(m, v, t) : client_rating(r, p) <= f
    /\ f <= server_update_category(m, v, t)

\* That is what the two categories come to.
LEMMA ForecastIs ==
    ASSUME NEW b \in 1..Len(History), NEW v, NEW t, NEW p
    PROVE  Forecasts(Manifest(b), v, t, p)
<1> DEFINE m == Manifest(b)
           newer == After(m, v, t)
           S == {Unrated} \cup {client_rating(r, p) : r \in newer}
           T == {Unrated} \cup UNION {{r.server, r.client} : r \in newer}
           f == app_update_category(m, v, t, p)
           g == server_update_category(m, v, t)
<1>1. \A r \in newer : /\ r.server \in Rating /\ r.client \in Rating
                       /\ client_rating(r, p) \in Rating /\ client_rating(r, p) <= r.client
  <2> TAKE r \in newer
  <2>1. Sound(r)
    BY ManifestIsSound, Zenon
  <2> QED BY <2>1, RatingsAreBounded, Zenon
<1>2. Unrated \in Rating /\ Unrated = 0
  BY DEF Rating, Unrated, Critical
<1>3. S \in SUBSET Rating /\ S # {} /\ T \in SUBSET Rating /\ T # {}
  BY <1>1, <1>2, Zenon
<1>4. /\ Max(S) \in S /\ \A y \in S : y <= Max(S)
      /\ Max(T) \in T /\ \A y \in T : y <= Max(T)
  BY <1>3, MostUrgent, Zenon
<1>5. f = Max(S) /\ g = Max(T)
  BY Zenon DEF app_update_category, server_update_category
<1>6. f \in Rating /\ g \in Rating
  BY <1>3, <1>4, <1>5, Zenon
<1>7. f # 0 => \E r \in newer : client_rating(r, p) = f
  BY <1>2, <1>4, <1>5, Zenon
<1>8. \A r \in newer : client_rating(r, p) <= f
  BY <1>4, <1>5, Zenon
<1>9. \A r \in newer : r.client <= g
  <2>1. ASSUME NEW r \in newer
        PROVE  r.client \in T
    <3>1. {r.server, r.client} \in {{q.server, q.client} : q \in newer}
      BY Zenon
    <3>2. r.client \in {r.server, r.client}
      BY Zenon
    <3> QED BY <3>1, <3>2, Zenon
  <2> QED BY <1>4, <1>5, <2>1, Zenon
<1> HIDE DEF m, newer, S, T, f, g
<1>10. f <= g
  <2>1. CASE f = 0
    BY <1>6, <2>1 DEF Rating, Unrated, Critical
  <2>2. CASE f # 0
    <3>1. PICK r \in newer : client_rating(r, p) = f
      BY <1>7, <2>2, Zenon
    <3> QED BY <1>1, <1>6, <1>9, <3>1 DEF Rating, Unrated, Critical
  <2> QED BY <2>1, <2>2, Zenon
<1> QED BY <1>6, <1>7, <1>8, <1>10, Zenon DEF Forecasts, m, newer, f, g

\* What an app of the version left behind is told is what was announced, or
\* that the update is required where an overdue security fix or a floor makes
\* it so.
LEMMA ForecastComesTrue ==
    ASSUME NEW b \in 1..Len(History), NEW policy, NEW client, NEW now
    PROVE  LET f == app_update_category(Manifest(b), client.version, policy.server, client.platform)
               told == evaluate(policy, Manifest(b), client, now).status
           IN \/ told = f
              \/ /\ told = IF policy.enforcement = "warn" THEN Security ELSE Required
                 /\ \/ f = Critical \/ Below(policy, client)
                    \/ f = Security /\ GraceIsOver(Manifest(b), client.version, policy.server, client.platform, now)
<1> DEFINE m == Manifest(b)
           p == client.platform
           newer == After(m, client.version, policy.server)
           f == app_update_category(m, client.version, policy.server, p)
           told == evaluate(policy, m, client, now).status
           N == Most(policy, m, client, now)
           status == Status(policy, m, client, now)
           R(r) == Rated(m, r, p, now)
           k(r) == client_rating(r, p)
           top == IF policy.enforcement = "warn" THEN 3 ELSE 4
           late == GraceIsOver(m, client.version, policy.server, p, now)
<1>0. SUFFICES told = f \/ (told = top /\ (f = 4 \/ Below(policy, client) \/ (f = 3 /\ late)))
  BY Zenon DEF Security, Required, Critical
<1>1. told = IF status = 4 /\ policy.enforcement = "warn" THEN 3 ELSE status
  <2>1. Says(policy, m, client, now)
    BY EvaluateIs, Zenon
  <2> QED BY <2>1, Zenon DEF Says
<1>2. status = IF Below(policy, client) THEN 4 ELSE N
  BY Zenon DEF Status
<1>3. /\ N \in Rating
      /\ N # 0 => \E r \in newer : R(r) = N
      /\ \A r \in newer : R(r) <= N
  BY MostIs, Zenon
<1>4. /\ f \in Rating
      /\ f # 0 => \E r \in newer : k(r) = f
      /\ \A r \in newer : k(r) <= f
  <2>1. Forecasts(m, client.version, policy.server, p)
    BY ForecastIs, Zenon
  <2> QED BY <2>1, Zenon DEF Forecasts
<1>5. \A r \in newer : k(r) \in Rating /\ (R(r) = k(r) \/ (k(r) = 3 /\ R(r) = 4))
  <2> TAKE r \in newer
  <2>1. RatedAs(m, r, p, now)
    BY RatedIs, Zenon
  <2> QED BY <2>1, Zenon DEF RatedAs
<1>8. \A r \in newer : k(r) = 3 /\ R(r) = 4 => late
  <2> SUFFICES ASSUME NEW r \in newer, k(r) = 3, R(r) = 4 PROVE late
    BY Zenon
  <2>1. now >= Deadline(m, r)
    <3>1. 3 # 4
      BY SMT
    <3> QED BY <3>1, Zenon DEF Rated
  <2> QED BY <2>1, Zenon DEF GraceIsOver, Security
<1> HIDE DEF m, p, newer, f, told, N, status, R, k, late
<1>6. CASE status = 4
  <2>1. told = top
    BY <1>1, <1>6, Zenon
  <2>2. f = 4 \/ Below(policy, client) \/ (f = 3 /\ late)
    <3>1. SUFFICES ASSUME ~Below(policy, client) PROVE f = 4 \/ (f = 3 /\ late)
      BY Zenon
    <3>2. PICK r \in newer : R(r) = 4
      BY <1>2, <1>3, <1>6, <3>1
    <3>3. k(r) = 4 \/ k(r) = 3
      BY <1>5, <3>2, Zenon
    <3>4. f >= 3 /\ f \in 0..4 /\ (k(r) = 4 => f = 4)
      BY <1>4, <3>3 DEF Rating, Unrated, Critical
    <3>5. k(r) = 3 => late
      BY <1>8, <3>2, Zenon
    <3> QED BY <3>3, <3>4, <3>5
  <2> QED BY <2>1, <2>2, Zenon
<1>7. CASE status # 4
  <2>1. told = N /\ N # 4
    BY <1>1, <1>2, <1>7, Zenon
  <2>2. \A r \in newer : R(r) = k(r)
    BY <1>3, <1>5, <2>1 DEF Rating, Unrated, Critical
  <2>3. N <= f
    BY <1>3, <1>4, <2>2 DEF Rating, Unrated, Critical
  <2>4. f <= N
    BY <1>3, <1>4, <2>2 DEF Rating, Unrated, Critical
  <2> QED BY <1>3, <1>4, <2>1, <2>3, <2>4 DEF Rating, Unrated, Critical
<1> QED BY <1>6, <1>7, Zenon

-----------------------------------------------------------------------------
(* The answers of the session routes. *)

\* An answer that says the session is known, one that says it is not, and the
\* one of a node that cannot open a request.
Known(ans) == ans.status \in {200, 426, 500}
Rejects(ans) == ans.status \in {401, 404}
Unopenable(ans) == ans.status = 404 /\ ~ans.inner

\* A known session is not rejected, and the edge masks no such answer.
LEMMA KnownIs ==
    ASSUME NEW ans, Known(ans)
    PROVE  ~Rejects(ans) /\ Edge(ans) = ans
<1>1. ~Rejects(ans) /\ ans.status \notin Masked
  BY DEF Known, Rejects, Masked
<1> QED BY <1>1, Zenon DEF Edge

\* The advice that is given is the one worked out for the request, and a
\* session the server has is not refused as unknown.
HandledAs(handled, op, a) ==
    /\ handled.advice = a \/ handled.advice = NoAdvice
    /\ "status" \in DOMAIN handled /\ "inner" \in DOMAIN handled
    /\ op \in {"status", "renew"} /\ session \in leases => Known(handled)

\* The fields of an answer, with and without advice.
LEMMA AnswerIs ==
    ASSUME NEW a
    PROVE  /\ \A status, code : Answer(status, code).status = status /\ ~Answer(status, code).inner
           /\ \A status, code : [Answer(status, code) EXCEPT !.advice = a].status = status
  BY Zenon DEF Answer

\* An answer of a session route, whatever it says of the session.
Speaks(ans, a) ==
    /\ ans.advice = a \/ ans.advice = NoAdvice
    /\ "status" \in DOMAIN ans /\ "inner" \in DOMAIN ans

\* The answers there are.
LEMMA AllSpeak ==
    ASSUME NEW a, NEW nonce
    PROVE  /\ \A error : Speaks(ServiceError(error), a)
           /\ Speaks(client_update_required(a), a)
           /\ Speaks(data_plane_unavailable, a) /\ Speaks(grant_protocols_unavailable, a)
           /\ Speaks(signed_manifest_response(a, nonce), a)
           /\ Speaks([Answer(200, "") EXCEPT !.advice = a], a)
           /\ Speaks(Answer(204, ""), a)
<1>1. \A status, code : /\ Speaks(Answer(status, code), a)
                        /\ Speaks([Answer(status, code) EXCEPT !.advice = a], a)
  BY Zenon DEF Speaks, Answer
<1>2. Speaks(signed_manifest_response(a, nonce), a)
  BY Zenon DEF Speaks, signed_manifest_response, Answer
<1>3. \A error : Speaks(ServiceError(error), a)
  BY <1>1, Zenon DEF ServiceError
<1>4. Speaks(client_update_required(a), a)
  BY <1>1, SMT DEF client_update_required
<1>5. Speaks(data_plane_unavailable, a)
  <2>1. \E status, code : data_plane_unavailable = Answer(status, code)
    BY Zenon DEF data_plane_unavailable
  <2> QED BY <1>1, <2>1, Zenon
<1>6. Speaks(grant_protocols_unavailable, a)
  <2>1. \E status, code : grant_protocols_unavailable = Answer(status, code)
    BY Zenon DEF grant_protocols_unavailable
  <2> QED BY <1>1, <2>1, Zenon
<1> QED BY <1>1, <1>2, <1>3, <1>4, <1>5, <1>6, Zenon

\* A session that is known gets one of three answers.
LEMMA KnownAnswers ==
    ASSUME NEW a
    PROVE  /\ Known([Answer(200, "") EXCEPT !.advice = a])
           /\ Known(client_update_required(a))
           /\ Known(ServiceError("Storage"))
<1>0. [Answer(200, "") EXCEPT !.advice = a].status = 200
  <2> DEFINE ok == 200
  <2> HIDE DEF ok
  <2>1. [Answer(ok, "") EXCEPT !.advice = a].status = ok
    BY Zenon DEF Answer
  <2> QED BY <2>1, Zenon DEF ok
<1>1. client_update_required(a).status = 426
  BY AnswerIs, SMT DEF client_update_required
<1>2. ServiceError("Storage").status = 500
  <2>1. ErrorCode("Storage") = <<500, "internal_error">>
    BY SMT DEF ErrorCode
  <2>2. ErrorCode("Storage")[1] = 500
    BY <2>1
  <2>3. ServiceError("Storage").status = ErrorCode("Storage")[1]
    BY AnswerIs, Zenon DEF ServiceError
  <2> QED BY <2>2, <2>3
<1>3. \A x : x.status = 200 \/ x.status = 426 \/ x.status = 500 => Known(x)
  BY DEF Known
<1> QED BY <1>0, <1>1, <1>2, <1>3, Zenon

\* That is what the session routes answer.
LEMMA HandledIs ==
    ASSUME NEW op, NEW a, NEW nonce, NEW fault
    PROVE  HandledAs(Handled(op, a, nonce, fault), op, a)
<1> DEFINE h == Handled(op, a, nonce, fault)
<1>1. Speaks(h, a)
  <2>1. Speaks(create_session(a, nonce, fault), a)
    BY AllSpeak, Zenon DEF create_session
  <2>2. /\ Speaks(session_status(a, session), a) /\ Speaks(renew_session(a, session, fault), a)
        /\ Speaks(release_session(session, fault), a)
    BY AllSpeak, Zenon DEF session_status, renew_session, release_session
  <2> QED BY <2>1, <2>2, Zenon DEF Handled
<1>2. ASSUME op \in {"status", "renew"}, session \in leases
      PROVE  Known(h)
  <2>1. Known(session_status(a, session)) /\ Known(renew_session(a, session, fault))
    BY <1>2, KnownAnswers, Zenon DEF session_status, renew_session
  <2>2. h = session_status(a, session) \/ h = renew_session(a, session, fault)
    BY <1>2, Zenon DEF Handled
  <2> QED BY <2>1, <2>2, Zenon
<1> QED BY <1>1, <1>2, Zenon DEF HandledAs, Speaks

-----------------------------------------------------------------------------
(* The inductive invariant. *)

\* The shapes of the state, and a node that runs with settings it accepted.
Held ==
    /\ w \in DOMAIN World /\ day \in Nat
    /\ node.build \in 1..Len(History) /\ node = Node(node.build, node.env)
    /\ DOMAIN app = {"build", "profile"}
    /\ DOMAIN left = {"changes", "faults"} /\ left.changes \in Nat
    /\ call = NoCall \/ DOMAIN call = {"op", "way", "ans"}

\* What the node says on day t to an app such as this one.
Told(t) == evaluate(Policy, Manifest(node.build), from_header(client_header_value(app.build)), t)

\* The advice last given is the one of its day, under the present builds and
\* settings.
SaidInv ==
    said # NoAdvice =>
        node.up /\ said.at \in Nat /\ said.at <= day /\ said.given = Told(said.at)

\* While the server has the session, an answer about it that reads as unknown
\* came from a node that could not open the request.
AnswerInv ==
    call # NoCall /\ call.ans # Pending /\ call.op \in {"status", "renew"} /\ session \in leases =>
        ~Rejects(call.ans) \/ (Unopenable(call.ans) /\ call.way = "sealed")

ControlInv == Held /\ SaidInv /\ AnswerInv

\* A running node has a policy, and the policy is that of its build.
LEMMA PolicyIs ==
    ASSUME Held, node.up
    PROVE  /\ Policy # NoPolicy
           /\ Policy.server = VersionOf(node.build)
           /\ ~(Policy.minimum # NoMinimum /\ Newer(Policy.minimum, VersionOf(node.build)))
<1>1. Policy # NoPolicy
  <2>1. node.up = Node(node.build, node.env).up
    BY Zenon DEF Held
  <2>2. Node(node.build, node.env).up => from_env(node.build, node.env) # NoPolicy
    BY Zenon DEF Node
  <2> QED BY <2>1, <2>2, Zenon DEF Policy
<1> DEFINE v == VersionOf(node.build)
           e == IF node.env.enforcement = "warn" THEN "warn" ELSE "enforce"
<1>2. Policy = ClientPolicy_new(v, node.env.minimum, e, node.env.url)
  BY <1>1, Zenon DEF Policy, from_env
<1> HIDE DEF v, e
<1>3. /\ Policy = [server |-> v, minimum |-> node.env.minimum, enforcement |-> e, url |-> node.env.url]
      /\ ~(node.env.minimum # NoMinimum /\ Newer(node.env.minimum, v))
  BY <1>1, <1>2, Zenon DEF ClientPolicy_new
<1>4. Policy.server = v /\ Policy.minimum = node.env.minimum
  BY <1>3, Zenon
<1> QED BY <1>1, <1>3, <1>4, Zenon DEF v

\* It holds at the start.
LEMMA ControlInvInit == Init => ControlInv
<1> SUFFICES ASSUME Init PROVE ControlInv
  OBVIOUS
<1>1. w \in DOMAIN World /\ World[w].build \in 1..Len(History) /\ World[w].changes \in Nat
  BY WorldAssumption, Zenon DEF Init
<1>2. day \in Nat
  BY ControlApiAssumption, Zenon DEF Init
<1>3. node.build = World[w].build /\ node = Node(node.build, node.env)
  BY Zenon DEF Init, Node
<1>4. /\ DOMAIN app = {"build", "profile"}
      /\ DOMAIN left = {"changes", "faults"} /\ left.changes = World[w].changes
  BY Zenon DEF Init
<1>5. call = NoCall /\ said = NoAdvice
  BY Zenon DEF Init
<1> QED BY <1>1, <1>2, <1>3, <1>4, <1>5, Zenon DEF ControlInv, Held, SaidInv, AnswerInv

\* A step that leaves the world, the calendar, the node and what is left keeps
\* what they hold.
LEMMA SameWorld ==
    ASSUME Held, UNCHANGED <<w, node>>, day' \in Nat,
           DOMAIN app' = {"build", "profile"},
           DOMAIN left' = {"changes", "faults"}, left'.changes \in Nat,
           call' = NoCall \/ DOMAIN call' = {"op", "way", "ans"}
    PROVE  Held'
<1>1. Node(node.build, node.env)' = Node(node.build, node.env)
  BY Zenon DEF Node
<1> QED BY <1>1, Zenon DEF Held

\* What was said stays true while neither the node nor the app changes.
LEMMA SameSaid ==
    ASSUME SaidInv, Held, UNCHANGED <<w, node, said>>, app'.build = app.build,
           day' \in Nat, day <= day'
    PROVE  SaidInv'
<1>1. \A t : Told(t)' = Told(t)
  BY Zenon DEF Told, Policy, client_header_value
<1>2. said # NoAdvice => said.at \in Nat /\ said.at <= day'
  BY SMT DEF SaidInv, Held
<1> QED BY <1>1, <1>2, Zenon DEF SaidInv

-----------------------------------------------------------------------------
(* Every step preserves it. *)

\* The person adds the server.
LEMMA AddServerKeeps == ControlInv /\ AddServer => ControlInv'
<1> SUFFICES ASSUME ControlInv, AddServer PROVE ControlInv'
  OBVIOUS
<1> USE DEF ControlInv
<1>1. UNCHANGED <<w, day, node, grant, leases, issued, session, call, shown, said, left>>
  BY Zenon DEF AddServer
<1>2. PICK profile : app' = [app EXCEPT !.profile = profile]
  BY Zenon DEF AddServer
<1>3. DOMAIN app' = {"build", "profile"} /\ app'.build = app.build
  BY <1>2, Zenon DEF Held
<1>4. day' \in Nat /\ day <= day'
  BY <1>1, SMT DEF Held
<1>5. Held'
  BY <1>1, <1>3, <1>4, SameWorld, Zenon DEF Held
<1>6. SaidInv'
  BY <1>1, <1>3, <1>4, SameSaid, Zenon
<1>7. AnswerInv'
  BY <1>1, Zenon DEF AnswerInv, Pending, Answer
<1> QED BY <1>5, <1>6, <1>7, Zenon

\* A step that leaves the world, the app and the advice, and that leaves no
\* answer to be read, or one there was already, about fewer sessions.
LEMMA QuietKeeps ==
    ASSUME ControlInv, UNCHANGED <<w, day, node, app, said>>,
           DOMAIN left' = {"changes", "faults"}, left'.changes \in Nat,
           \/ call' = NoCall
           \/ DOMAIN call' = {"op", "way", "ans"} /\ call'.ans = Pending
           \/ call' = call /\ session' = session /\ leases' \subseteq leases
    PROVE  ControlInv'
<1> USE DEF ControlInv
<1>1. day' \in Nat /\ day <= day' /\ app'.build = app.build
  BY SMT DEF Held
<1>2. Held'
  BY <1>1, SameWorld, Zenon DEF Held
<1>3. SaidInv'
  BY <1>1, SameSaid, Zenon
<1>4. Pending' = Pending
  BY Zenon DEF Pending, Answer
<1>5. AnswerInv'
  <2>1. CASE call' = NoCall
    BY <2>1, Zenon DEF AnswerInv
  <2>2. CASE call'.ans = Pending
    BY <1>4, <2>2, Zenon DEF AnswerInv
  <2>3. CASE call' = call /\ session' = session /\ leases' \subseteq leases
    BY <1>4, <2>3, Zenon DEF AnswerInv
  <2> QED BY <2>1, <2>2, <2>3, Zenon
<1> QED BY <1>2, <1>3, <1>5, Zenon

\* The client asks.
LEMMA AskKeeps == ASSUME NEW op, ControlInv, Ask(op) PROVE ControlInv'
<1>1. UNCHANGED <<w, day, node, app, said, left>>
  BY Zenon DEF Ask
<1>2. PICK way : call' = [op |-> op, way |-> way, ans |-> Pending]
  BY Zenon DEF Ask
<1>3. DOMAIN call' = {"op", "way", "ans"} /\ call'.ans = Pending
  BY <1>2, Zenon
<1> QED BY <1>1, <1>3, QuietKeeps, Zenon DEF ControlInv, Held

\* The client reads the answer.
LEMMA DeliverKeeps == ControlInv /\ Deliver => ControlInv'
<1> SUFFICES ASSUME ControlInv, Deliver PROVE ControlInv'
  OBVIOUS
<1>1. UNCHANGED <<w, day, node, app, said, left>> /\ call # NoCall
  BY Zenon DEF Deliver
<1>2. call' = NoCall \/ call' = [call EXCEPT !.way = "plain", !.ans = Pending]
  BY Zenon DEF Deliver
<1>3. call' = NoCall \/ (DOMAIN call' = {"op", "way", "ans"} /\ call'.ans = Pending)
  BY <1>1, <1>2, Zenon DEF ControlInv, Held
<1> QED BY <1>1, <1>3, QuietKeeps, Zenon DEF ControlInv, Held

\* The answer is lost.
LEMMA LoseKeeps == ControlInv /\ Lose => ControlInv'
<1> SUFFICES ASSUME ControlInv, Lose PROVE ControlInv'
  OBVIOUS
<1>1. UNCHANGED <<w, day, node, app, said, left>> /\ call' = NoCall
  BY Zenon DEF Lose
<1> QED BY <1>1, QuietKeeps, Zenon DEF ControlInv, Held

\* A change leaves one change less.
LEMMA ChangedIs ==
    ASSUME Held, Changed
    PROVE  DOMAIN left' = {"changes", "faults"} /\ left'.changes \in Nat /\ left'.changes # left.changes
<1>1. /\ DOMAIN left' = {"changes", "faults"} /\ left'.changes = left.changes - 1
      /\ left.changes > 0 /\ left.changes \in Nat
  BY Zenon DEF Held, Changed
<1> QED BY <1>1

\* The grant changes, or one of its sessions ends.
LEMMA GrantKeeps ==
    ASSUME ControlInv, (\E to : GrantChanges(to)) \/ (\E l : LeaseEnds(l))
    PROVE  ControlInv'
<1>1. /\ UNCHANGED <<w, day, node, app, said, session, call>> /\ Changed
      /\ leases' \subseteq leases
  BY Zenon DEF GrantChanges, LeaseEnds
<1>2. DOMAIN left' = {"changes", "faults"} /\ left'.changes \in Nat
  BY <1>1, ChangedIs, Zenon DEF ControlInv
<1> QED BY <1>1, <1>2, QuietKeeps, Zenon

\* The node is restarted: what was said is forgotten.
LEMMA RestartKeeps ==
    ASSUME ControlInv, NEW build \in World[w].builds, NEW env, Restart(build, env)
    PROVE  ControlInv'
<1> USE DEF ControlInv
<1>1. UNCHANGED <<w, day, app, leases, session, call>> /\ Changed /\ said' = NoAdvice
  BY Zenon DEF Restart
<1>2. DOMAIN left' = {"changes", "faults"} /\ left'.changes \in Nat
  BY <1>1, ChangedIs, Zenon
<1>3. node' = Node(build, env)
  BY Zenon DEF Restart
<1>4. node'.build = build /\ node'.env = env
  BY <1>3, Zenon DEF Node
<1>5. node' = Node(node.build, node.env)'
  <2>1. Node(node.build, node.env)' = Node(node'.build, node'.env)
    BY <1>1, Zenon DEF Node
  <2> QED BY <1>3, <1>4, <2>1, Zenon
<1>6. build \in 1..Len(History)
  BY WorldAssumption, Zenon DEF Held
<1>7. Held'
  BY <1>1, <1>2, <1>4, <1>5, <1>6, Zenon DEF Held
<1>8. SaidInv'
  BY <1>1, Zenon DEF SaidInv, NoAdvice
<1>9. AnswerInv'
  BY <1>1, Zenon DEF AnswerInv, Pending, Answer
<1> QED BY <1>7, <1>8, <1>9, Zenon

\* A day passes.
LEMMA DayKeeps == ControlInv /\ DayPasses => ControlInv'
<1> SUFFICES ASSUME ControlInv, DayPasses PROVE ControlInv'
  OBVIOUS
<1> USE DEF ControlInv
<1>1. UNCHANGED <<w, node, app, leases, session, call, said, left>> /\ day' = day + 1
  BY Zenon DEF DayPasses
<1>2. day' \in Nat /\ day <= day' /\ app'.build = app.build
  BY <1>1, SMT DEF Held
<1>3. Held'
  BY <1>1, <1>2, SameWorld, Zenon DEF Held
<1>4. SaidInv'
  BY <1>1, <1>2, SameSaid, Zenon
<1>5. AnswerInv'
  BY <1>1, Zenon DEF AnswerInv, Pending, Answer
<1> QED BY <1>3, <1>4, <1>5, Zenon

\* The app is restarted: an updated app was told nothing yet.
LEMMA AppKeeps ==
    ASSUME ControlInv, NEW build, AppRestarts(build)
    PROVE  ControlInv'
<1> USE DEF ControlInv
<1>1. /\ UNCHANGED <<w, day, node>> /\ Changed /\ call' = NoCall
      /\ app' = [app EXCEPT !.build = build]
      /\ said' = IF build = app.build THEN said ELSE NoAdvice
  BY Zenon DEF AppRestarts
<1>2. DOMAIN left' = {"changes", "faults"} /\ left'.changes \in Nat
  BY <1>1, ChangedIs, Zenon
<1>3. DOMAIN app' = {"build", "profile"} /\ app'.build = build
  BY <1>1, Zenon DEF Held
<1>4. day' \in Nat /\ day <= day'
  BY <1>1, SMT DEF Held
<1>5. Held'
  BY <1>1, <1>2, <1>3, <1>4, SameWorld, Zenon DEF Held
<1>6. SaidInv'
  <2>1. CASE build = app.build
    BY <1>1, <1>3, <1>4, <2>1, SameSaid, Zenon
  <2>2. CASE build # app.build
    BY <1>1, <2>2, Zenon DEF SaidInv, NoAdvice
  <2> QED BY <2>1, <2>2, Zenon
<1>7. AnswerInv'
  BY <1>1, Zenon DEF AnswerInv
<1> QED BY <1>5, <1>6, <1>7, Zenon

\* The server answers.
LEMMA ServeKeeps == ControlInv /\ Serve => ControlInv'
<1> SUFFICES ASSUME ControlInv, Serve PROVE ControlInv'
  OBVIOUS
<1> USE DEF ControlInv
<1> DEFINE a == advice(client_header_value(app.build))
           e == Endpoint(app.profile)
           sealed == call.way = "sealed"
           opens == sealed => Issuer.key = e.key
           H(fault) == Handled(call.op, a, ~sealed /\ e.key # NoKey, fault)
<1>1. UNCHANGED <<w, day, node, grant, app, session, shown>> /\ call # NoCall /\ node.up
  BY Zenon DEF Serve
<1>2. PICK fault : /\ left' = [left EXCEPT !.faults = IF fault = "none" THEN @ ELSE @ - 1]
                   /\ IF opens THEN Opened(sealed, H(fault), fault) ELSE Unopened
  BY Zenon DEF Serve
<1>3. DOMAIN left' = {"changes", "faults"} /\ left'.changes \in Nat
  BY <1>2, Zenon DEF Held
<1>4. DOMAIN call = {"op", "way", "ans"}
  BY <1>1, Zenon DEF Held
<1> DEFINE h == H(fault)
<1>5. HandledAs(h, call.op, a)
  BY HandledIs, Zenon
<1>6. a = Told(day)
  BY Zenon DEF advice, Told, Policy
<1> HIDE DEF a, e, sealed, opens, H, h
<1>7. PICK ans : call' = [call EXCEPT !.ans = ans]
  BY <1>2, Zenon DEF Opened, Unopened
<1>8. /\ DOMAIN call' = {"op", "way", "ans"}
      /\ call'.ans = ans /\ call'.op = call.op /\ call'.way = call.way
  BY <1>4, <1>7, Zenon
<1>9. day' \in Nat /\ day <= day' /\ day \in Nat /\ day <= day
  BY <1>1, SMT DEF Held
<1>10. Held'
  <2>1. DOMAIN app' = {"build", "profile"}
    BY <1>1, Zenon DEF Held
  <2> QED BY <1>1, <1>3, <1>8, <1>9, <2>1, SameWorld, Zenon
<1>11. SaidInv'
  <2>1. CASE said' = said
    BY <1>1, <1>9, <2>1, SameSaid, Zenon
  <2>2. CASE said' # said
    <3>1. opens /\ Opened(sealed, h, fault)
      BY <1>2, <2>2, Zenon DEF Unopened, h
    <3>2. said' = [given |-> h.advice, at |-> day] /\ h.advice # NoAdvice
      BY <2>2, <3>1, Zenon DEF Opened
    <3>3. said'.given = Told(day) /\ said'.at = day
      BY <1>5, <1>6, <3>2, Zenon DEF HandledAs
    <3>4. Told(said.at)' = Told(day)
      <4>1. Policy' = Policy /\ client_header_value(app.build)' = client_header_value(app.build)
        BY <1>1, Zenon DEF Policy, client_header_value
      <4> QED BY <1>1, <3>3, <4>1, Zenon DEF Told
    <3> QED BY <1>1, <1>9, <3>3, <3>4, Zenon DEF SaidInv
  <2> QED BY <2>1, <2>2, Zenon
<1>12. AnswerInv'
  <2>1. Pending' = Pending
    BY Zenon DEF Pending, Answer
  <2>2. SUFFICES ASSUME call.op \in {"status", "renew"}, session \in leases'
                 PROVE  ~Rejects(ans) \/ (Unopenable(ans) /\ call.way = "sealed")
    BY <1>1, <1>8, <2>1, Zenon DEF AnswerInv
  <2>3. CASE opens
    <3>1. Opened(sealed, h, fault)
      BY <1>2, <2>3, Zenon DEF h
    <3>2. call.op # "enroll"
      BY <2>2
    <3>3. session \in leases
      BY <2>2, <3>1, <3>2, Zenon DEF Opened
    <3>4. Known(h)
      BY <1>5, <2>2, <3>3, Zenon DEF HandledAs
    <3>5. ans = IF sealed THEN [h EXCEPT !.inner = TRUE] ELSE Edge(h)
      <4>1. call' = [call EXCEPT !.ans = IF sealed THEN [h EXCEPT !.inner = TRUE] ELSE Edge(h)]
        BY <3>1, Zenon DEF Opened
      <4> QED BY <1>4, <1>8, <4>1, Zenon
    <3>6. ~Rejects(ans)
      <4>1. CASE sealed
        <5>1. [h EXCEPT !.inner = TRUE].status = h.status
          BY <1>5, Zenon DEF HandledAs
        <5>2. Known(ans)
          BY <3>4, <3>5, <4>1, <5>1, Zenon DEF Known
        <5> QED BY <5>2, KnownIs, Zenon
      <4>2. CASE ~sealed
        BY <3>4, <3>5, <4>2, KnownIs, Zenon
      <4> QED BY <4>1, <4>2, Zenon
    <3> QED BY <3>6, Zenon
  <2>4. CASE ~opens
    <3>1. sealed /\ Unopened
      BY <1>2, <2>4, Zenon DEF opens
    <3>2. ans = Edge(Answer(404, ""))
      <4>1. call' = [call EXCEPT !.ans = Edge(Answer(404, ""))]
        BY <3>1, Zenon DEF Unopened
      <4> QED BY <1>4, <1>8, <4>1, Zenon
    <3>3. ans = Answer(404, "")
      BY <3>2, Zenon DEF Edge
    <3>4. Unopenable(ans)
      <4> DEFINE unknown == 404
      <4>0. ans = Answer(unknown, "")
        BY <3>3, Zenon
      <4> HIDE DEF unknown
      <4>1. ans.status = unknown /\ ~ans.inner
        BY <4>0, AnswerIs, Zenon
      <4> QED BY <4>1, Zenon DEF Unopenable, unknown
    <3> QED BY <3>1, <3>4, Zenon DEF sealed
  <2> QED BY <2>3, <2>4, Zenon
<1> QED BY <1>10, <1>11, <1>12, Zenon

\* So every step does.
LEMMA ControlInvNext == ControlInv /\ [Next]_vars => ControlInv'
<1> SUFFICES ASSUME ControlInv, [Next]_vars PROVE ControlInv'
  OBVIOUS
<1>1. CASE UNCHANGED vars
  BY <1>1, QuietKeeps, Zenon DEF vars, ControlInv, Held
<1>2. CASE Next
  <2>1. ASSUME NEW op, Ask(op) PROVE ControlInv'
    BY <2>1, AskKeeps, Zenon
  <2>2. ASSUME NEW build \in World[w].builds, NEW env, Restart(build, env) PROVE ControlInv'
    BY <2>2, RestartKeeps, Zenon
  <2>3. ASSUME NEW build, AppRestarts(build) PROVE ControlInv'
    BY <2>3, AppKeeps, Zenon
  <2> QED BY <1>2, <2>1, <2>2, <2>3, AddServerKeeps, ServeKeeps, DeliverKeeps, LoseKeeps,
             GrantKeeps, DayKeeps, Zenon DEF Next
<1> QED BY <1>1, <1>2, Zenon

\* It always holds.
LEMMA ControlAlways == Spec => []ControlInv
<1>1. Init => ControlInv
  BY ControlInvInit
<1>2. ControlInv /\ [Next]_vars => ControlInv'
  BY ControlInvNext
<1> QED BY <1>1, <1>2, PTL DEF Spec

-----------------------------------------------------------------------------
(* The theorems. *)

\* The answers about a session that end it.
Ending(way, ans) ==
    ans.status = 426 \/ (Rejects(ans) /\ ~(Unopenable(ans) /\ way = "sealed"))

\* What the client makes of an answer about its session: it ends the session
\* only when the answer rejects it, in the clear or from inside a sealed
\* response, or requires an update.
LEMMA EndsWhen ==
    ASSUME NEW e, NEW way, NEW op, op \in {"status", "renew"}, NEW ans,
           ends_session(exchange(e, way, op, ans))
    PROVE  Ending(way, ans)
<1> DEFINE result == exchange(e, way, op, ans)
<1>1. \A kind : Failure(kind, ans).kind = kind /\ Failure(kind, ans).status = ans.status
  BY Zenon DEF Failure
<1>2. /\ expect(op, ans) = Failure("ok", ans) \/ expect(op, ans) = api_error(ans)
      /\ api_error(ans) = Failure("Api", ans)
         \/ (api_error(ans) = Failure("UpdateRequired", ans) /\ ans.status = 426)
  BY Zenon DEF expect, api_error
<1>3. result.kind = "UpdateRequired" \/ (result.kind = "Api" /\ result.status \in {401, 404})
  BY Zenon DEF ends_session, is_unauthorized
<1>4. plain_exchange(e, op, ans) = expect(op, ans)
  BY Zenon DEF plain_exchange
<1>5. \/ result = expect(op, ans) /\ (way = "plain" \/ ~Unopenable(ans))
      \/ result = Failure("SealedControlUnavailable", ans)
      \/ result = Failure("Unsealed", ans)
  BY <1>4, Zenon DEF exchange, Unopenable
<1>6. result = expect(op, ans) /\ (way = "plain" \/ ~Unopenable(ans))
  <2>1. result.kind # "SealedControlUnavailable" /\ result.kind # "Unsealed"
    BY <1>3, Zenon
  <2> QED BY <1>1, <1>5, <2>1, Zenon
<1>7. ans.status = 426 \/ result = Failure("Api", ans)
  <2>1. result.kind # "ok"
    BY <1>3, Zenon
  <2>2. result # Failure("ok", ans)
    BY <1>1, <2>1, Zenon
  <2> HIDE DEF result
  <2> QED BY <1>2, <1>6, <2>2, Zenon
<1>8. ans.status = 426 \/ Rejects(ans)
  <2>1. CASE result = Failure("Api", ans)
    <3>1. result.kind = "Api" /\ result.status = ans.status
      BY <1>1, <2>1, Zenon
    <3>2. ans.status \in {401, 404}
      BY <1>3, <3>1, Zenon
    <3> QED BY <3>2, Zenon DEF Rejects
  <2> QED BY <1>7, <2>1, Zenon
<1> QED BY <1>6, <1>8, Zenon DEF Ending

(* An answer ends the app's session only when the server no longer has the *)
(* session, or requires a newer app (api.rs exchange, error.rs             *)
(* ends_session): OnlyLostAccessEnds, for every history and setting.       *)
THEOREM OnlyLostAccessAlwaysEnds == Spec => OnlyLostAccessEnds
<1> DEFINE Loses ==
      session # None /\ session' = None /\ call # NoCall /\ call.op \in {"status", "renew"} /\ left' = left =>
        session \notin leases \/ call.ans.status = 426
<1>1. ControlInv /\ [Next]_vars => [Loses]_vars
  <2> SUFFICES ASSUME ControlInv, Next,
                      session # None, session' = None, call # NoCall,
                      call.op \in {"status", "renew"}, left' = left, session \in leases
               PROVE  call.ans.status = 426
    BY Zenon
  <2>1. CASE Deliver
    <3>1. call.ans # Pending
      BY <2>1, Zenon DEF Deliver
    <3>2. ends_session(exchange(Endpoint(app.profile), call.way, call.op, call.ans))
      <4>1. call.op # "enroll" /\ call.op # "release"
        OBVIOUS
      <4>2. session' = session
              \/ session' = IF ends_session(exchange(Endpoint(app.profile), call.way, call.op, call.ans))
                            THEN None ELSE session
        BY <2>1, <4>1, Zenon DEF Deliver
      <4> QED BY <4>2, Zenon
    <3>3. Ending(call.way, call.ans)
      BY <3>2, EndsWhen, Zenon
    <3>4. ~Rejects(call.ans) \/ (Unopenable(call.ans) /\ call.way = "sealed")
      BY <3>1, Zenon DEF ControlInv, AnswerInv
    <3> QED BY <3>3, <3>4, Zenon DEF Ending
  <2>2. ASSUME NEW build, AppRestarts(build) PROVE FALSE
    <3>1. left'.changes # left.changes
      BY <2>2, ChangedIs, Zenon DEF AppRestarts, ControlInv
    <3> QED BY <3>1, Zenon
  <2>3. CASE session' = session
    BY <2>3, Zenon
  <2>4. Deliver \/ session' = session \/ \E build : AppRestarts(build)
    BY Zenon DEF Next, AddServer, Ask, Serve, Lose, Restart, GrantChanges, LeaseEnds, DayPasses
  <2> QED BY <2>1, <2>2, <2>3, <2>4, Zenon
<1> QED BY <1>1, ControlAlways, PTL DEF Spec, OnlyLostAccessEnds

\* An app of the server's own version is told nothing.
LEMMA OwnVersionIsCurrent ==
    ASSUME NEW policy, NEW m, NEW client, NEW now,
           client.version = policy.server, ~Below(policy, client)
    PROVE  evaluate(policy, m, client, now).status = 0
<1>1. After(m, client.version, policy.server) = {}
  BY Zenon DEF After
<1>2. Most(policy, m, client, now) = Max({Current})
  <2>1. {Current} \cup {Rated(m, r, client.platform, now) : r \in After(m, client.version, policy.server)}
          = {Current}
    BY <1>1, Zenon
  <2> QED BY <2>1, Zenon DEF Most
<1>3. Max({Current}) = 0
  <2>1. Current \in Rating /\ Current = 0
    BY DEF Rating, Unrated, Critical, Current
  <2>2. Max({Current}) \in {Current}
    BY <2>1, MostUrgent, Zenon
  <2> QED BY <2>1, <2>2, Zenon
<1>4. Status(policy, m, client, now) = 0
  BY <1>2, <1>3, Zenon DEF Status
<1>5. Says(policy, m, client, now)
  BY EvaluateIs, Zenon
<1> DEFINE status == Status(policy, m, client, now)
           a == evaluate(policy, m, client, now)
<1>6. a.status = IF status = 4 /\ policy.enforcement = "warn" THEN 3 ELSE status
  BY <1>5, Zenon DEF Says
<1> HIDE DEF a, status
<1>7. status = 0
  BY <1>4, Zenon DEF status
<1>8. a.status = 0
  BY <1>6, <1>7
<1> QED BY <1>8, Zenon DEF a

\* The version of a build reads back from a header as it was written.
LEMMA VersionIsRead ==
    ASSUME NEW b \in 1..Len(History), NEW p \in Platform
    PROVE  from_header([platform |-> p, version |-> VersionOf(b), fits |-> TRUE])
             = [platform |-> p, version |-> VersionOf(b)]
<1>1. VersionOf(b) \in [1..3 -> 0..LargestPart]
  <2>1. History[b] \in Entry
    BY ControlApiAssumption
  <2> QED BY <2>1, Zenon DEF Entry, VersionOf
<1> DEFINE v == VersionOf(b)
<1>2. Len(v) = 3 /\ \A i \in 1..3 : v[i] \in 0..LargestPart
  BY <1>1
<1>3. v # NoVersion
  <2>1. Len(NoVersion) = 0
    BY DEF NoVersion
  <2>2. Len(v) # Len(NoVersion)
    BY <1>2, <2>1
  <2> QED BY <2>2, Zenon
<1> HIDE DEF v
<1>4. Version_from_str(v) # NoVersion
  BY <1>2, <1>3, Zenon DEF Version_from_str
<1>5. from_header([platform |-> p, version |-> v, fits |-> TRUE]) = [platform |-> p, version |-> v]
  BY <1>4, Zenon DEF from_header
<1> QED BY <1>5, Zenon DEF v

(* The update a server asks for is enough for that server: an app of the   *)
(* version a refusal names is not told to update again (policy.rs,         *)
(* ClientPolicy::new and evaluate): UpdateEndsRefusal.                     *)
THEOREM UpdateAlwaysEndsRefusal == Spec => []UpdateEndsRefusal
<1>1. ControlInv => UpdateEndsRefusal
  <2> SUFFICES ASSUME ControlInv, said # NoAdvice
               PROVE  evaluate(Policy, Manifest(node.build),
                               from_header([platform |-> World[w].platform, version |-> said.given.server,
                                            fits |-> TRUE]),
                               day).status = Current
    BY Zenon DEF UpdateEndsRefusal
  <2>1. node.up /\ said.given = Told(said.at) /\ Held
    BY Zenon DEF ControlInv, SaidInv
  <2>2. Policy.server = VersionOf(node.build) /\ ~(Policy.minimum # NoMinimum /\ Newer(Policy.minimum, VersionOf(node.build)))
    BY <2>1, PolicyIs, Zenon
  <2> DEFINE client == from_header(client_header_value(app.build))
  <2>3. Says(Policy, Manifest(node.build), client, said.at)
    BY EvaluateIs, Zenon
  <2>4. said.given.server = VersionOf(node.build)
    <3>1. evaluate(Policy, Manifest(node.build), client, said.at).server = Policy.server
      BY <2>3, Zenon DEF Says
    <3> QED BY <2>1, <2>2, <3>1, Zenon DEF Told
  <2>5. World[w].platform \in Platform /\ node.build \in 1..Len(History)
    BY <2>1, WorldAssumption, Zenon DEF Held
  <2> DEFINE own == [platform |-> World[w].platform, version |-> VersionOf(node.build)]
  <2>6. from_header([platform |-> World[w].platform, version |-> said.given.server, fits |-> TRUE]) = own
    BY <2>4, <2>5, VersionIsRead, Zenon
  <2>7. own.version = Policy.server /\ ~Below(Policy, own)
    BY <2>2, Zenon DEF Below
  <2>8. evaluate(Policy, Manifest(node.build), own, day).status = 0
    BY <2>7, OwnVersionIsCurrent, Zenon
  <2> QED BY <2>6, <2>8, Zenon DEF Current
<1> QED BY <1>1, ControlAlways, PTL

(* A server does not take back what it told an app about updating          *)
(* (updates.rs advice, policy.rs evaluate): AdviceIsKept.  The invariant   *)
(* says which day's evaluation the last advice was; EvaluateKeeps compares *)
(* it with today's.                                                        *)
THEOREM AdviceAlwaysKept == Spec => AdviceIsKept
<1> DEFINE Kept ==
      LET was == said.given
          is == said'.given
          overdue == was.after # Never /\ said'.at >= was.after
      IN said # NoAdvice /\ said' # NoAdvice =>
           IF overdue
           THEN is.after = Never /\ is.status = IF Policy.enforcement = "warn" THEN Security ELSE Required
           ELSE is.after = was.after /\ is.status = was.status
<1>1. ControlInv /\ [Next]_vars => [Kept]_vars
  <2> SUFFICES ASSUME ControlInv, Next, said # NoAdvice, said' # NoAdvice
               PROVE  Kept
    BY Zenon
  <2>1. ControlInv'
    BY ControlInvNext, Zenon
  <2>2. /\ said.at \in Nat /\ said.given = Told(said.at) /\ said.at <= day
        /\ node.build \in 1..Len(History) /\ day \in Nat
    BY Zenon DEF ControlInv, SaidInv, Held
  <2>3. ASSUME NEW t \in Nat, said.at <= t, said'.at = t, said'.given = Told(t)
        PROVE  Kept
    <3> DEFINE client == from_header(client_header_value(app.build))
               was == evaluate(Policy, Manifest(node.build), client, said.at)
               is == evaluate(Policy, Manifest(node.build), client, t)
    <3>1. IF was.after # Never /\ t >= was.after
          THEN is.after = Never /\ is.status = IF Policy.enforcement = "warn" THEN Security ELSE Required
          ELSE is.after = was.after /\ is.status = was.status
      <4>1. StaysSaid(Policy, Manifest(node.build), client, said.at, t)
        BY <2>2, <2>3, EvaluateKeeps, Zenon
      <4> QED BY <4>1, Zenon DEF StaysSaid
    <3>2. said.given = was /\ said'.given = is
      BY <2>2, <2>3, Zenon DEF Told
    <3> HIDE DEF was, is, client
    <3> QED BY <2>3, <3>1, <3>2, Zenon
  <2>4. CASE said' = said
    <3>1. said.at <= said.at
      BY <2>2
    <3> QED BY <2>2, <2>3, <2>4, <3>1, Zenon
  <2>5. CASE Serve /\ said' # said
    <3>1. UNCHANGED <<w, day, node, app>>
      BY <2>5, Zenon DEF Serve
    <3>2. said'.at = day
      <4>1. Unopened \/ \E sealed, handled, fault : Opened(sealed, handled, fault)
        BY <2>5, Zenon DEF Serve
      <4>2. PICK given : said' = [given |-> given, at |-> day]
        BY <2>5, <4>1, Zenon DEF Opened, Unopened
      <4> QED BY <4>2, Zenon
    <3>3. said'.given = Told(said.at)'
      BY <2>1, Zenon DEF ControlInv, SaidInv
    <3>4. Policy' = Policy /\ client_header_value(app.build)' = client_header_value(app.build)
      BY <3>1, Zenon DEF Policy, client_header_value
    <3>5. said'.given = Told(day)
      BY <3>1, <3>2, <3>3, <3>4, Zenon DEF Told
    <3> QED BY <2>2, <2>3, <3>2, <3>5, Zenon
  <2>6. Serve \/ said' = said \/ said' = NoAdvice
    BY Zenon DEF Next, AddServer, Ask, Deliver, Lose, Restart, GrantChanges, LeaseEnds, DayPasses, AppRestarts
  <2> QED BY <2>4, <2>5, <2>6, Zenon
<1> QED BY <1>1, ControlAlways, PTL DEF Spec, AdviceIsKept

(* What an operator reads before an upgrade is what happens after it       *)
(* (manifest.rs app_update_category and server_update_category, policy.rs  *)
(* evaluate): ForecastHolds.                                               *)
THEOREM ForecastAlwaysHolds == Spec => ForecastHolds
<1> DEFINE Holds ==
      node'.up /\ node'.build > node.build =>
       \A p \in Platform :
         LET m == Manifest(node'.build)
             old == VersionOf(node.build)
             policy == from_env(node'.build, node'.env)
             forecast == app_update_category(m, old, policy.server, p)
             told == evaluate(policy, m, [platform |-> p, version |-> old], day).status
             most == IF policy.enforcement = "warn" THEN Security ELSE Required
             floored == policy.minimum # NoMinimum /\ Newer(policy.minimum, old)
         IN /\ \/ told = forecast
               \/ /\ told = most
                  /\ \/ forecast = Critical \/ floored
                     \/ forecast = Security /\ GraceIsOver(m, old, policy.server, p, day)
            /\ forecast <= server_update_category(m, old, policy.server)
<1>1. ControlInv' => [Holds]_vars
  <2> SUFFICES ASSUME ControlInv' PROVE Holds
    BY Zenon
  <2>1. node'.build \in 1..Len(History)
    BY Zenon DEF ControlInv, Held
  <2> SUFFICES ASSUME NEW p \in Platform
               PROVE  LET m == Manifest(node'.build)
                          old == VersionOf(node.build)
                          policy == from_env(node'.build, node'.env)
                          forecast == app_update_category(m, old, policy.server, p)
                          told == evaluate(policy, m, [platform |-> p, version |-> old], day).status
                          most == IF policy.enforcement = "warn" THEN Security ELSE Required
                          floored == policy.minimum # NoMinimum /\ Newer(policy.minimum, old)
                      IN /\ \/ told = forecast
                            \/ /\ told = most
                               /\ \/ forecast = Critical \/ floored
                                  \/ forecast = Security /\ GraceIsOver(m, old, policy.server, p, day)
                         /\ forecast <= server_update_category(m, old, policy.server)
    BY Zenon
  <2> DEFINE b == node'.build
             policy == from_env(node'.build, node'.env)
             client == [platform |-> p, version |-> VersionOf(node.build)]
  <2>2. client.platform = p /\ client.version = VersionOf(node.build)
    BY Zenon
  <2>3. LET f == app_update_category(Manifest(b), client.version, policy.server, client.platform)
            told == evaluate(policy, Manifest(b), client, day).status
        IN \/ told = f
           \/ /\ told = IF policy.enforcement = "warn" THEN Security ELSE Required
              /\ \/ f = Critical \/ Below(policy, client)
                 \/ f = Security /\ GraceIsOver(Manifest(b), client.version, policy.server, client.platform, day)
    BY <2>1, ForecastComesTrue, Zenon
  <2>4. Forecasts(Manifest(b), VersionOf(node.build), policy.server, p)
    BY <2>1, ForecastIs, Zenon
  <2>5. app_update_category(Manifest(b), VersionOf(node.build), policy.server, p)
          <= server_update_category(Manifest(b), VersionOf(node.build), policy.server)
    BY <2>4, Zenon DEF Forecasts
  <2> QED BY <2>2, <2>3, <2>5, Zenon DEF Below
<1> QED BY <1>1, ControlAlways, PTL DEF Spec, ForecastHolds

-----------------------------------------------------------------------------
(* Sealed control. *)

\* The endpoint of an address that is accepted.
LEMMA EndpointIs ==
    ASSUME NEW u, NEW key, ControlEndpoint_parse(u) # NoEndpoint
    PROVE  with_required_sealing(with_node_key(ControlEndpoint_parse(u), key), TRUE)
             = [base |-> u, key |-> key, sealing |-> Must]
<1>1. ControlEndpoint_parse(u) = [base |-> u, key |-> NoKey, sealing |-> Off]
  BY Zenon DEF ControlEndpoint_parse
<1> DEFINE e == [base |-> u, key |-> NoKey, sealing |-> Off]
           d == with_node_key(e, key)
<1>2. d = [base |-> u, key |-> key, sealing |-> Preferred]
  <2>1. Off < Preferred
    BY DEF Off, Preferred
  <2>2. e.sealing = Off
    BY Zenon
  <2>3. d = [e EXCEPT !.key = key, !.sealing = Preferred]
    BY <2>1, <2>2, Zenon DEF with_node_key
  <2>4. [[e EXCEPT !.key = key] EXCEPT !.sealing = Preferred] = [base |-> u, key |-> key, sealing |-> Preferred]
    <3>1. [e EXCEPT !.key = key] = [base |-> u, key |-> key, sealing |-> Off]
      BY SMT
    <3>2. [[base |-> u, key |-> key, sealing |-> Off] EXCEPT !.sealing = Preferred]
            = [base |-> u, key |-> key, sealing |-> Preferred]
      BY SMT
    <3> QED BY <3>1, <3>2, Zenon
  <2>5. [e EXCEPT !.key = key, !.sealing = Preferred] = [[e EXCEPT !.key = key] EXCEPT !.sealing = Preferred]
    OBVIOUS
  <2> QED BY <2>3, <2>4, <2>5, Zenon
<1> HIDE DEF d
<1>3. [d EXCEPT !.sealing = Must] = [base |-> u, key |-> key, sealing |-> Must]
  BY <1>2, SMT
<1>4. with_required_sealing(d, TRUE) = [d EXCEPT !.sealing = Must]
  BY Zenon DEF with_required_sealing
<1> QED BY <1>1, <1>3, <1>4, Zenon DEF d

\* The payload of an invite that a node issues.
Payload(p) == Len(p) = 10 /\ p[7] = 1 /\ p[8] = 2

\* What such an invite opens to: a pinned key and required sealing.
LEMMA OpenedInvite ==
    ASSUME NEW t, NEW now, Payload(t.payload), from_text(t, now) # NoEndpoint
    PROVE  \E u, key : /\ key # NoKey /\ ControlEndpoint_parse(u) # NoEndpoint
                       /\ from_text(t, now) = [base |-> u, key |-> key, sealing |-> Must]
<1> DEFINE c == Capsule(t.payload)
           usable == {i \in 1..Len(c.locators) : ControlEndpoint_parse(base_url(c.locators[i])) # NoEndpoint}
           u == base_url(c.locators[Min(usable)])
<1>1. decode_invite_text(t, now)
  BY Zenon DEF from_text
<1>2. c.key = t.payload[4] /\ c.min = t.payload[7] /\ c.max = t.payload[8]
  BY Zenon DEF Capsule
<1>3. c.key # NoKey
  <2>1. t.payload[4].point
    BY <1>1, Zenon DEF decode_invite_text, decode_payload
  <2>2. ~NoKey.point
    BY Zenon DEF NoKey
  <2> QED BY <1>2, <2>1, <2>2, Zenon
<1>4. supports_protocol(c, SEALED_CONTROL_API_VERSION)
  <2>1. c.min = 1 /\ c.max = 2
    BY <1>2, Zenon DEF Payload
  <2>2. 2 \in 1..2
    OBVIOUS
  <2> QED BY <2>1, <2>2, Zenon DEF supports_protocol, SEALED_CONTROL_API_VERSION
<1>5. /\ usable # {}
      /\ from_text(t, now) = with_required_sealing(
                                with_node_key(ControlEndpoint_parse(u), c.key),
                                supports_protocol(c, SEALED_CONTROL_API_VERSION))
  BY <1>1, Zenon DEF from_text
<1>6. ControlEndpoint_parse(u) # NoEndpoint
  <2>1. usable \in SUBSET Nat
    OBVIOUS
  <2>2. Min(usable) \in usable
    BY <1>5, <2>1, FirstOf, Zenon
  <2> QED BY <2>2, Zenon
<1> HIDE DEF c, usable, u
<1>7. from_text(t, now) = with_required_sealing(with_node_key(ControlEndpoint_parse(u), c.key), TRUE)
  BY <1>4, <1>5, Zenon DEF with_required_sealing
<1>8. from_text(t, now) = [base |-> u, key |-> c.key, sealing |-> Must]
  BY <1>6, <1>7, EndpointIs, Zenon
<1> QED BY <1>3, <1>6, <1>8, Zenon

\* The endpoint of a profile that an invite made, when it seals.
Seals(e) == e.key # NoKey /\ e.sealing = Must

\* A node's invite makes a profile whose endpoint seals.
LEMMA InviteSeals ==
    ASSUME NEW issuer, NEW ends, NEW now,
           invite_details(attach_invite(issuer, Code, ends), now) # NoProfile
    PROVE  Seals(Endpoint(invite_details(attach_invite(issuer, Code, ends), now)))
<1> DEFINE t == attach_invite(issuer, Code, ends)
           e == from_text(t, now)
           profile == invite_details(t, now)
<1>1. e # NoEndpoint
  BY Zenon DEF invite_details
<1>2. Payload(t.payload)
  <2> DEFINE c == [key |-> issuer.key, locators |-> <<issuer.locator>>, code |-> Code,
                   min |-> CONTROL_API_VERSION, max |-> SEALED_CONTROL_API_VERSION, expires |-> ends]
  <2>1. t = NoText \/ t.payload = canonical_payload(c)
    BY Zenon DEF attach_invite, issue, sign
  <2>2. t # NoText
    <3>1. Len(NoText.payload) # 10
      <4>1. NoText.payload = << >>
        BY Zenon DEF NoText
      <4>2. Len(<< >>) # 10
        OBVIOUS
      <4> QED BY <4>1, <4>2, Zenon
    <3>2. Len(t.payload) = 10
      BY <1>1, Zenon DEF from_text, decode_invite_text, decode_payload
    <3> QED BY <3>1, <3>2, Zenon
  <2>3. c.min = 1 /\ c.max = 2
    BY Zenon DEF CONTROL_API_VERSION, SEALED_CONTROL_API_VERSION
  <2> HIDE DEF c
  <2>4. /\ Len(canonical_payload(c)) = 10
        /\ canonical_payload(c)[7] = c.min /\ canonical_payload(c)[8] = c.max
    BY DEF canonical_payload
  <2> QED BY <2>1, <2>2, <2>3, <2>4, Zenon DEF Payload
<1> HIDE DEF t
<1>3. PICK u : \E key : /\ key # NoKey /\ ControlEndpoint_parse(u) # NoEndpoint
                        /\ e = [base |-> u, key |-> key, sealing |-> Must]
  BY <1>1, <1>2, OpenedInvite, Zenon
<1>4. PICK key : /\ key # NoKey /\ ControlEndpoint_parse(u) # NoEndpoint
                 /\ e = [base |-> u, key |-> key, sealing |-> Must]
  BY <1>3, Zenon
<1> HIDE DEF e
<1>5. profile = [url |-> e.base, key |-> e.key, sealed |-> e.sealing = Must]
  BY <1>1, Zenon DEF invite_details, e
<1>6. profile.url = u /\ profile.key = key /\ profile.sealed = TRUE
  <2>1. e.base = u /\ e.key = key /\ (e.sealing = Must) = TRUE
    BY <1>4, Zenon
  <2>2. profile = [url |-> u, key |-> key, sealed |-> TRUE]
    BY <1>5, <2>1, Zenon
  <2> HIDE DEF profile
  <2> QED BY <2>2, Zenon
<1> HIDE DEF profile
<1>7. parse_pinned(u, key) = with_node_key(ControlEndpoint_parse(u), key)
  BY <1>4, Zenon DEF parse_pinned
<1>8. Endpoint(profile) = [base |-> u, key |-> key, sealing |-> Must]
  BY <1>4, <1>6, <1>7, EndpointIs, Zenon DEF Endpoint
<1>9. Seals(Endpoint(profile))
  <2> DEFINE f == Endpoint(profile)
  <2>1. f = [base |-> u, key |-> key, sealing |-> Must]
    BY <1>8
  <2> HIDE DEF f
  <2>2. f.key = key /\ f.sealing = Must
    BY <2>1, SMT
  <2> QED BY <1>4, <2>2, Zenon DEF Seals, f
<1> QED BY <1>9, Zenon DEF profile, t

\* What keeps an invited app sealed: the endpoint of its saved profile has a
\* key and demands sealing, and a call was made from such a profile.
SealedInv ==
    World[w].how = "invite" =>
        /\ app.profile # NoProfile => Seals(Endpoint(app.profile))
        /\ call # NoCall => app.profile # NoProfile /\ call.way = "sealed"

\* Nothing but the call changes, which is over or stays on its way.
LEMMA SealedStays ==
    ASSUME SealedInv, w' = w, app'.profile = app.profile,
           call' = NoCall \/ (call # NoCall /\ call'.way = call.way)
    PROVE  SealedInv'
<1>1. Endpoint(app.profile)' = Endpoint(app.profile)
  BY Zenon DEF Endpoint, parse_pinned
<1>2. World[w]' = World[w]
  OBVIOUS
<1>3. NoCall' = NoCall /\ NoProfile' = NoProfile
  BY Zenon DEF NoCall, NoProfile
<1>4. SealedInv' <=> (World[w].how = "invite" =>
        /\ app'.profile # NoProfile => Seals(Endpoint(app.profile)')
        /\ call' # NoCall => app'.profile # NoProfile /\ call'.way = "sealed")
  BY Zenon DEF SealedInv, Seals
<1> QED BY <1>1, <1>4, Zenon DEF SealedInv

\* The server is added from the invite.
LEMMA AddServerSeals == SealedInv /\ Held /\ AddServer => SealedInv'
<1> SUFFICES ASSUME SealedInv, Held, AddServer, World[w].how = "invite" PROVE SealedInv'
  BY Zenon DEF SealedInv, AddServer
<1> DEFINE profile == invite_details(Invite, day)
<1>1. World[w].how # "typed" /\ World[w].how # "old invite"
  OBVIOUS
<1>2. /\ app.profile = NoProfile /\ profile # NoProfile
      /\ app' = [app EXCEPT !.profile = profile]
      /\ w' = w /\ call' = call
  BY <1>1, Zenon DEF AddServer
<1>3. \E issuer, ends : Invite = attach_invite(issuer, Code, ends)
  BY <1>1, Zenon DEF Invite
<1>4. Seals(Endpoint(profile))
  BY <1>2, <1>3, InviteSeals, Zenon
<1> HIDE DEF profile
<1>5. app'.profile = profile
  BY <1>2, Zenon DEF Held
<1>6. call' = NoCall
  BY <1>2, Zenon DEF SealedInv
<1>7. Endpoint(app.profile)' = Endpoint(profile)
  BY <1>5, Zenon DEF Endpoint, parse_pinned
<1> QED BY <1>4, <1>6, <1>7, Zenon DEF SealedInv, Seals

\* A call is sealed when the profile's endpoint is.
LEMMA AskSeals == ASSUME NEW op, SealedInv, Ask(op) PROVE SealedInv'
<1> DEFINE e == Endpoint(app.profile)
<1>1. /\ app' = app /\ w' = w /\ app.profile # NoProfile
      /\ call' = [op |-> op, way |-> Way(e), ans |-> Pending]
  BY Zenon DEF Ask
<1>2. Endpoint(app.profile)' = e
  BY <1>1, Zenon DEF Endpoint, parse_pinned
<1>3. call'.way = Way(e)
  BY <1>1, Zenon
<1>4. Must # Off
  BY DEF Must, Off
<1>5. Seals(e) => Way(e) = "sealed"
  BY <1>4, Zenon DEF Seals, Way
<1> HIDE DEF e
<1>6. World[w].how = "invite" => Seals(e)
  BY <1>1, Zenon DEF SealedInv, e
<1> QED BY <1>1, <1>2, <1>3, <1>5, <1>6, Zenon DEF SealedInv, Seals

\* An endpoint that demands sealing is never retried in the clear.
LEMMA SealedIsFinal ==
    ASSUME NEW e, NEW op, NEW ans, e.sealing = Must
    PROVE  exchange(e, "sealed", op, ans).kind # "Unsealed"
<1>1. \A kind : Failure(kind, ans).kind = kind
  BY Zenon DEF Failure
<1>2. expect(op, ans).kind \in {"ok", "UpdateRequired", "Api"}
  <2>1. api_error(ans) = Failure("UpdateRequired", ans) \/ api_error(ans) = Failure("Api", ans)
    BY Zenon DEF api_error
  <2>2. expect(op, ans) = Failure("ok", ans) \/ expect(op, ans) = api_error(ans)
    BY Zenon DEF expect
  <2>3. \E kind \in {"ok", "UpdateRequired", "Api"} : expect(op, ans) = Failure(kind, ans)
    BY <2>1, <2>2, Zenon
  <2> QED BY <1>1, <2>3, Zenon
<1>3. \/ exchange(e, "sealed", op, ans) = Failure("SealedControlUnavailable", ans)
      \/ exchange(e, "sealed", op, ans) = expect(op, ans)
  BY Zenon DEF exchange
<1>4. exchange(e, "sealed", op, ans).kind \in {"SealedControlUnavailable", "ok", "UpdateRequired", "Api"}
  BY <1>1, <1>2, <1>3, Zenon
<1> QED BY <1>4, Zenon

\* The answer is taken, and the call is over.
LEMMA DeliverSeals == SealedInv /\ Held /\ Deliver => SealedInv'
<1> SUFFICES ASSUME SealedInv, Held, Deliver, World[w].how = "invite" PROVE SealedInv'
  BY Zenon DEF SealedInv, Deliver
<1>1. app' = app /\ w' = w /\ call # NoCall
  BY Zenon DEF Deliver
<1>2. Seals(Endpoint(app.profile)) /\ call.way = "sealed"
  BY <1>1, Zenon DEF SealedInv
<1>3. exchange(Endpoint(app.profile), call.way, call.op, call.ans).kind # "Unsealed"
  BY <1>2, SealedIsFinal, Zenon DEF Seals
<1>4. call' = NoCall
  BY <1>3, Zenon DEF Deliver
<1> QED BY <1>1, <1>4, SealedStays, Zenon

\* No step takes an invited app off the sealed way.
LEMMA SealedInvNext == SealedInv /\ Held /\ [Next]_vars => SealedInv'
<1> SUFFICES ASSUME SealedInv, Held, [Next]_vars PROVE SealedInv'
  OBVIOUS
<1>1. CASE AddServer
  BY <1>1, AddServerSeals, Zenon
<1>2. CASE \E op \in {"enroll", "status", "renew", "release"} : Ask(op)
  BY <1>2, AskSeals, Zenon
<1>3. CASE Serve
  <2>1. w' = w /\ app' = app /\ call # NoCall
    BY <1>3, Zenon DEF Serve
  <2>2. PICK ans : call' = [call EXCEPT !.ans = ans]
    BY <1>3, Zenon DEF Serve, Opened, Unopened
  <2>3. DOMAIN call = {"op", "way", "ans"}
    BY <2>1, Zenon DEF Held
  <2>4. call'.way = call.way
    BY <2>2, <2>3, Zenon
  <2> QED BY <2>1, <2>4, SealedStays, Zenon
<1>4. CASE Deliver
  BY <1>4, DeliverSeals, Zenon
<1>5. CASE Lose
  <2>1. w' = w /\ app' = app /\ call' = NoCall
    BY <1>5, Zenon DEF Lose
  <2> QED BY <2>1, SealedStays, Zenon
<1>6. CASE \/ \E build, env : Restart(build, env)
           \/ \E to : GrantChanges(to)
           \/ \E l : LeaseEnds(l)
           \/ DayPasses
           \/ UNCHANGED vars
  <2>1. w' = w /\ app' = app /\ call' = call
    BY <1>6, Zenon DEF Restart, GrantChanges, LeaseEnds, DayPasses, vars
  <2> QED BY <2>1, SealedStays, Zenon
<1>7. CASE \E build : AppRestarts(build)
  <2>1. PICK build : AppRestarts(build)
    BY <1>7
  <2>2. w' = w /\ app' = [app EXCEPT !.build = build] /\ call' = NoCall
    BY <2>1, Zenon DEF AppRestarts
  <2>3. app'.profile = app.profile
    BY <2>2, Zenon DEF Held
  <2> QED BY <2>2, <2>3, SealedStays, Zenon
<1> QED BY <1>1, <1>2, <1>3, <1>4, <1>5, <1>6, <1>7, Zenon DEF Next

\* An app that was invited with sealed control never sends a session request
\* in the clear (half of InviteIsKept): the profile it saved demands sealing
\* under a pinned key (InviteEnrollment::from_text, invite_details), and a
\* client that must seal has no way back to the clear (exchange), whatever
\* becomes of the node's key and however often either is restarted.
THEOREM InvitedAlwaysStaysSealed == Spec => []InvitedStaysSealed
<1>1. Init => SealedInv
  <2> SUFFICES ASSUME Init PROVE SealedInv
    OBVIOUS
  <2>1. app.profile = NoProfile /\ call = NoCall
    BY Zenon DEF Init
  <2> QED BY <2>1, Zenon DEF SealedInv
<1>2. ControlInv => Held
  BY Zenon DEF ControlInv
<1>3. SealedInv /\ Held /\ [Next]_vars => SealedInv'
  BY SealedInvNext
<1>4. SealedInv => InvitedStaysSealed
  BY Zenon DEF SealedInv, InvitedStaysSealed
<1> QED BY <1>1, <1>2, <1>3, <1>4, ControlAlways, PTL DEF Spec
=============================================================================
