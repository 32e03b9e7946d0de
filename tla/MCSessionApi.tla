---------------------------- MODULE MCSessionApi ----------------------------
(* Small instances of SessionApi for TLC. *)
EXTENDS SessionApi

(* An engine that asks the server about every sign-in with one that is told *)
(* of every session, and an engine that gives it the address of its slot.   *)
MCInstallations == {<<"hysteria", "xray">>, <<"wireguard">>}

=============================================================================
