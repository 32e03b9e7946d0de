------------------------------ MODULE Releases ------------------------------
(***************************************************************************)
(* The rules of crates/ket-update: how a release is rated for apps and for *)
(* servers, and what a server's policy says to an app of some version.     *)
(* Everything here is a pure function of the release manifest.             *)
(*                                                                         *)
(* Time is counted in whole days.  That loses nothing: a release is        *)
(* published at the start of a day, the grace period is a number of days,  *)
(* and so every deadline falls on the start of a day.                      *)
(***************************************************************************)
EXTENDS Integers, Sequences, FiniteSets, FiniteSetsExt

-----------------------------------------------------------------------------
(* Versions and the Ket-Client header.                                     *)

Platform == {"android", "linux", "macos", "windows"}
NoPlatform == "unnamed"

(* A spelled version is the sequence of its dot-separated parts.  A part   *)
(* is its number, or BadPart when it is empty, signed, zero-led, not a     *)
(* number or longer than nine digits.                                      *)
BadPart == -1
LargestPart == 999999999
NoVersion == <<>>

Version_from_str(parts) ==
  IF Len(parts) = 3 /\ \A i \in 1..3 : parts[i] \in 0..LargestPart THEN parts ELSE NoVersion

(* The derived Ord compares major, minor and patch in that order.          *)
Newer(a, b) == \E i \in 1..3 : a[i] > b[i] /\ \A j \in 1..(i - 1) : a[j] = b[j]

LEGACY_CLIENT_VERSION == <<1, 0, 1>>
legacy == [platform |-> NoPlatform, version |-> LEGACY_CLIENT_VERSION]

(* A header is its platform, its version as spelled and whether it fits in *)
(* 64 bytes; NoHeader when the app sent none.                              *)
NoHeader == [platform |-> "", version |-> <<>>, fits |-> TRUE]

from_header(h) ==
  IF h.fits /\ h.platform \in Platform /\ Version_from_str(h.version) # NoVersion
  THEN [platform |-> h.platform, version |-> h.version]
  ELSE legacy

-----------------------------------------------------------------------------
(* Dates.                                                                  *)

NoDay == -1

(* Days since 1970-01-01 of a date <<year, month, day>>, by the count of   *)
(* days in a 400-year era that starts in March.                            *)
IsLeap(year) == year % 4 = 0 /\ (year % 100 # 0 \/ year % 400 = 0)

MonthDays(year, month) ==
  CASE month \in {1, 3, 5, 7, 8, 10, 12} -> 31
    [] month \in {4, 6, 9, 11} -> 30
    [] month = 2 -> IF IsLeap(year) THEN 29 ELSE 28
    [] OTHER -> 0

EraDay(year, month, day, centuries) ==
  LET y == IF month <= 2 THEN year - 1 ELSE year
      era == y \div 400
      of_era == y - era * 400
      of_year == (153 * (IF month > 2 THEN month - 3 ELSE month + 9) + 2) \div 5 + day - 1
  IN era * 146097 + of_era * 365 + of_era \div 4 - centuries * (of_era \div 100) + of_year - 719468

(* Mutation: the century years without a 29 February are counted as leap.  *)
parse_date_julian(date) ==
  IF date[1] < 1970 \/ date[3] = 0 \/ date[3] > MonthDays(date[1], date[2]) THEN NoDay
  ELSE EraDay(date[1], date[2], date[3], 0)

parse_date(date) ==
  IF date[1] < 1970 \/ date[3] = 0 \/ date[3] > MonthDays(date[1], date[2]) THEN NoDay
  ELSE EraDay(date[1], date[2], date[3], 1)

-----------------------------------------------------------------------------
(* Ratings.  A category and the status it gives an app have the same rank: *)
(* a critical release makes the update required.                           *)

Unrated == 0
Optional == 1
Recommended == 2
Security == 3
Critical == 4
Current == 0
Required == 4

Rating == Unrated..Critical

(* An entry of the manifest: its fields as they are read.                  *)
Entry ==
  [version : [1..3 -> 0..LargestPart], published : [1..3 -> Nat], client : Rating, server : Rating,
   apps : UNION {[S -> Rating] : S \in SUBSET Platform}]

(* An app that names its platform gets its own rating when the apps are    *)
(* rated apart, and none when it is not listed.                            *)
client_rating(r, platform) ==
  IF platform = NoPlatform \/ DOMAIN r.apps = {} THEN r.client
  ELSE IF platform \in DOMAIN r.apps THEN r.apps[platform] ELSE Unrated

(* A manifest as ReleaseManifest::validate accepts it.                     *)
valid_manifest(m) ==
  /\ m.grace \in 1..365
  /\ m.releases # <<>>
  /\ \A i \in 2..Len(m.releases) : Newer(m.releases[i].version, m.releases[i - 1].version)
  /\ \A i \in 1..Len(m.releases) :
       LET r == m.releases[i] IN
       /\ parse_date(r.published) # NoDay
       /\ DOMAIN r.apps # {} => r.client = Max({r.apps[p] : p \in DOMAIN r.apps})

After(m, installed, target) ==
  {r \in {m.releases[i] : i \in 1..Len(m.releases)} :
     Newer(r.version, installed) /\ ~Newer(r.version, target)}

server_update_category(m, installed, target) ==
  Max({Unrated} \cup UNION {{r.server, r.client} : r \in After(m, installed, target)})

(* Mutation: every platform is given the most urgent app rating.           *)
app_update_category_any(m, installed, target, platform) ==
  Max({Unrated} \cup {r.client : r \in After(m, installed, target)})

app_update_category(m, installed, target, platform) ==
  Max({Unrated} \cup {client_rating(r, platform) : r \in After(m, installed, target)})

-----------------------------------------------------------------------------
(* A server's policy for the apps that connect to it.                      *)

NoMinimum == <<>>
NoPolicy == [server |-> <<>>]

(* Mutation: the operator's floor is not compared with the server.         *)
ClientPolicy_new_any(server, minimum, enforcement, url) ==
  [server |-> server, minimum |-> minimum, enforcement |-> enforcement, url |-> url]

ClientPolicy_new(server, minimum, enforcement, url) ==
  IF minimum # NoMinimum /\ Newer(minimum, server) THEN NoPolicy
  ELSE [server |-> server, minimum |-> minimum, enforcement |-> enforcement, url |-> url]

Never == -1
Deadline(m, r) == parse_date(r.published) + m.grace

(* What is said of one release: an overdue security fix is required.       *)
Rated(m, r, platform, now) ==
  IF client_rating(r, platform) = Security /\ now >= Deadline(m, r) THEN Required
  ELSE client_rating(r, platform)

Advice(policy, status, after) ==
  [server |-> policy.server, status |-> status, after |-> after, url |-> policy.url]

(* The deadlines of those security releases that are not due yet.          *)
Ahead(policy, m, client, now) ==
  {Deadline(m, r) : r \in {r \in After(m, client.version, policy.server) :
                              Rated(m, r, client.platform, now) = Security}}

(* The most urgent of the statuses, with the day it becomes required, as   *)
(* the operator's enforcement leaves it.                                   *)
Verdict(policy, m, client, now, due) ==
  LET newer == After(m, client.version, policy.server)
      below == policy.minimum # NoMinimum /\ Newer(policy.minimum, client.version)
      most == Max({Current} \cup {Rated(m, r, client.platform, now) : r \in newer})
      status == IF below THEN Required ELSE most
  IN CASE status = Required /\ policy.enforcement = "warn" -> Advice(policy, Security, Never)
       [] status = Security -> Advice(policy, status, due)
       [] OTHER -> Advice(policy, status, Never)

(* Mutation: of several security releases the last deadline is named.      *)
evaluate_latest(policy, m, client, now) ==
  Verdict(policy, m, client, now, Max(Ahead(policy, m, client, now)))

evaluate(policy, m, client, now) ==
  Verdict(policy, m, client, now, Min(Ahead(policy, m, client, now)))

=============================================================================
