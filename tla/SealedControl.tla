---------------------------- MODULE SealedControl ---------------------------
(***************************************************************************)
(* An app that seals its requests, composed with the gateway.  The app's     *)
(* clock is off by a constant; when the gateway answers that it is too far   *)
(* off, the app takes the gateway's time from the answer, corrects its clock *)
(* and tries once more.  The app gives up on a round trip after MaxDelay     *)
(* seconds; copies of a request may be delivered at any later time.          *)
(***************************************************************************)
EXTENDS SealedGateway

CONSTANTS Drifts,    \* how far the app's clock may be off
          MaxDelay   \* the timeout of a round trip, 15 seconds

ASSUME AppAssumption ==
    /\ Request \subseteq Nat
    /\ Drifts \subseteq Int
    /\ MaxDelay \in Nat
    /\ 2 * MaxDelay <= Skew

VARIABLES drift,   \* the app's clock minus the gateway's
          offset,  \* clock_offset_seconds
          app      \* the exchange under way: the request, the attempt, its start

vars == <<gatewayVars, drift, offset, app>>

NoExchange == [at |-> "idle"]

Init ==
    /\ GatewayInit
    /\ drift \in Drifts
    /\ offset = 0
    /\ app = NoExchange

NotBelowZero(t) == IF t < 0 THEN 0 ELSE t

(* The app's unix_time(). *)
LocalTime == NotBelowZero(clock + drift)

Unused == {r \in Request : stamp[r] = Unsent}

Attempt(n) ==
    \E id \in Unused :
        /\ \A r \in Unused : id <= r
        /\ stamp' = [stamp EXCEPT ![id] = NotBelowZero(LocalTime + offset')]
        /\ app' = [at |-> "waiting", id |-> id, attempt |-> n, since |-> clock]

UnchangedGateway == UNCHANGED <<clock, task, order, seen, reply, answered, lost>>

(* exchange *)
Send ==
    /\ app = NoExchange
    /\ UNCHANGED offset
    /\ Attempt(1)
    /\ UnchangedGateway /\ UNCHANGED drift

(* Mutation: the correction has the wrong sign. *)
ReceiveReversed ==
    /\ app.at = "waiting"
    /\ reply.id = app.id
    /\ \/ /\ reply.kind = "skew" /\ app.attempt = 1
          /\ offset' = LocalTime - reply.time
          /\ Attempt(2)
       \/ /\ ~ (reply.kind = "skew" /\ app.attempt = 1)
          /\ app' = NoExchange
          /\ UNCHANGED <<offset, stamp>>
    /\ UnchangedGateway /\ UNCHANGED drift

(* The answer arrives; the first refusal for the clock is tried again. *)
Receive ==
    /\ app.at = "waiting"
    /\ reply.id = app.id
    /\ \/ /\ reply.kind = "skew" /\ app.attempt = 1
          /\ offset' = reply.time - LocalTime
          /\ Attempt(2)
       \/ /\ ~ (reply.kind = "skew" /\ app.attempt = 1)
          /\ app' = NoExchange
          /\ UNCHANGED <<offset, stamp>>
    /\ UnchangedGateway /\ UNCHANGED drift

(* The request or its answer got lost, or the timeout passed. *)
GiveUp ==
    /\ app.at = "waiting"
    /\ app' = NoExchange
    /\ UnchangedGateway /\ UNCHANGED <<stamp, drift, offset>>

Gateway == GatewayStep /\ UNCHANGED <<drift, offset, app>>

Time ==
    /\ app.at = "waiting" => clock - app.since < MaxDelay
    /\ Tick
    /\ UNCHANGED <<drift, offset, app>>

Next == Send \/ Receive \/ GiveUp \/ Gateway \/ Time

Spec == Init /\ [][Next]_vars

-----------------------------------------------------------------------------
(* Properties. *)

(* Every variable has its type. *)
TypeOK ==
    /\ GatewayTypeOK
    /\ drift \in Drifts
    /\ offset \in Int
    /\ app \in {NoExchange} \cup
               [at : {"waiting"}, id : Request, attempt : {1, 2}, since : Nat]

(* The second attempt is never refused for the clock: the correction is off *)
(* by at most a round trip, and two round trips fit in the allowed skew.    *)
RetryIsInTime ==
    app.at = "waiting" /\ app.attempt = 2
      => ~ (reply.id = app.id /\ reply.kind = "skew")

=============================================================================
