--------------------------- MODULE MCTunnelBroker ---------------------------
(* TunnelBroker for TLC. *)
EXTENDS TunnelBroker
=============================================================================
