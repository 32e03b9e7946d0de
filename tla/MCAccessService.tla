-------------------------- MODULE MCAccessService ---------------------------
(* Small instances of AccessService for TLC. *)
EXTENDS AccessService, TLC

CONSTANTS MaxTime

MCTime == 0 .. MaxTime

NoChange == [max |-> None, paused |-> None, protocols |-> None,
             lifetime |-> None, allowance |-> "keep"]

(* One field at a time, and the empty change (a new label). *)
MCChanges ==
    {NoChange}
      \cup {[NoChange EXCEPT !.max = 1]}
      \cup {[NoChange EXCEPT !.paused = b] : b \in BOOLEAN}
      \cup {[NoChange EXCEPT !.protocols = q] : q \in Protocols}
      \cup {[NoChange EXCEPT !.lifetime = v] : v \in Validity}
      \cup {[NoChange EXCEPT !.allowance = a] : a \in {"reset", "spent"}}

(* Pausing, resuming and a lower device limit. *)
MCFewChanges ==
    {[NoChange EXCEPT !.max = 1]} \cup {[NoChange EXCEPT !.paused = b] : b \in BOOLEAN}

HandlerSymmetry == Permutations(Handler)

=============================================================================
