---------------------------- MODULE MCFullRoute ----------------------------
(* Two networks: at home, where the bypassed IPv6 network is attached, and *)
(* away, an IPv4 modem without a gateway.                                  *)
EXTENDS FullRoute, TLC

(* Any transport once on every platform; beside resolved one tunnel after  *)
(* another, so that what the first leaves behind meets the second.         *)
MCAdapters ==
  [h \in {"file", "owned", "beside", "windows"} |->
     IF h = "beside" THEN <<{"openvpn"}, {"hysteria"}>> ELSE <<Adapter, {}>>]
MCMetric == [n \in Network |-> IF n = "home" THEN 2 ELSE 1]
MCServers == <<"server">>
MCBypass == <<"printer">>
MCOnLink == [n \in Network |-> IF n = "home" THEN {"printer"} ELSE {}]
MCCarries == [n \in Network |-> IF n = "home" THEN {4, 6} ELSE {4}]
MCFamilyOf == [d \in {"server", "printer"} |-> IF d = "server" THEN 4 ELSE 6]
====
