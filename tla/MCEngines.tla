----------------------------- MODULE MCEngines ------------------------------
(* Engines with two sessions that share a slot, one after the other, and a *)
(* third with a slot of its own.                                           *)
EXTENDS Engines, TLC

MCLeases == {[id |-> 1, slot |-> 0], [id |-> 2, slot |-> 1], [id |-> 3, slot |-> 0]}
A(ids) == {a \in MCLeases : a.id \in ids}
MCStarts == {[leased |-> {}, held |-> {}, up |-> FALSE, ready |-> FALSE],
             [leased |-> A({1, 2}), held |-> A({1, 2}), up |-> TRUE, ready |-> TRUE],
             [leased |-> A({2, 3}), held |-> A({1}), up |-> TRUE, ready |-> FALSE]}
MCEnds == {A({1}), A({1, 2})}
Symmetry == Permutations(Callers)
=============================================================================
