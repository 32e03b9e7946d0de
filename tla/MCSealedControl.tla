--------------------------- MODULE MCSealedControl --------------------------
(* A small instance of SealedControl for TLC. *)
EXTENDS SealedControl, TLC

MCDrifts == {-3, 0, 2, 3}

HandlerSymmetry == Permutations(Handler)

=============================================================================
