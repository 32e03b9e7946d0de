----------------------------- MODULE DataPlane ------------------------------
(***************************************************************************)
(* The engines that carry a session's traffic, as ket-server sees them: what *)
(* each of them holds, and what provision, kick and reconcile make of it.    *)
(*                                                                         *)
(* An allocation names a session and its resource slot.  Hysteria and        *)
(* OpenVPN hold the sessions that signed in and are told of no others; Xray  *)
(* holds a user per session; the Shadowsocks manager holds one key per port, *)
(* and the port is the slot; the WireGuard kernel interface holds one peer   *)
(* per key, and an address, which is the slot, belongs to the peer that was  *)
(* given it last.                                                            *)
(***************************************************************************)
EXTENDS Integers, FiniteSets, Sequences

CONSTANTS Session,      \* session identifiers
          MaxSessions   \* the number of resource slots

Engines == {"hysteria", "xray", "shadowsocks", "wireguard", "openvpn"}

ASSUME DataPlaneAssumption ==
    /\ Session \subseteq Nat
    /\ MaxSessions \in Nat \ {0}

Slot == 0 .. MaxSessions - 1

(* A WireGuard peer whose address was given to another one. *)
Unaddressed == -1

Allocation == [id : Session, slot : Slot]

(* Engines that ask Ket whether a client may sign in. *)
SignIn == {"hysteria", "openvpn"}

BySlot == {"shadowsocks", "wireguard"}

Slots(allocations) == {a.slot : a \in allocations}

Ids(allocations) == {a.id : a \in allocations}

-----------------------------------------------------------------------------
(* The engine e holds `held` and is asked to... *)

InstallPeers(held, new) ==
    new \cup {IF b.slot \in Slots(new) THEN [b EXCEPT !.slot = Unaddressed] ELSE b :
                 b \in held \ new}

Provisioned(e, held, a) ==
    CASE e \in SignIn        -> held
      [] e = "xray"          -> held \cup {a}
      [] e = "shadowsocks"   -> {b \in held : b.slot # a.slot} \cup {a}
      [] e = "wireguard"     -> InstallPeers(held, {a})

(* Mutation: every engine removes by slot. *)
HitsSlot(e, a, b) == a.slot = b.slot

(* Xray, Hysteria and OpenVPN remove by session, the others by slot. *)
Hits(e, a, b) == IF e \in BySlot THEN a.slot = b.slot ELSE a.id = b.id

Kicked(e, held, gone) == {b \in held : \A a \in gone : ~ Hits(e, a, b)}

(* Hysteria keeps its connections, OpenVPN drops those it should not have,  *)
(* Xray and Shadowsocks start from nothing, and the WireGuard agent removes *)
(* the peers whose address no session has and installs the others.          *)
Reconciled(e, held, wanted) ==
    CASE e = "hysteria"                -> held
      [] e = "openvpn"                 -> {b \in held : b.id \in Ids(wanted)}
      [] e \in {"xray", "shadowsocks"} -> wanted
      [] e = "wireguard" ->
           InstallPeers({b \in held : b.slot \in Slots(wanted)}, wanted)

(* The agent lists its peers before it removes any, and gives up at one     *)
(* without an address.                                                      *)
Readable(e, held) == e = "wireguard" => \A b \in held : b.slot # Unaddressed

(* What a call that reports failure may leave: nothing done, part of it, or *)
(* all of it with the answer lost.                                          *)
HalfProvisioned(e, held, a) ==
    {held, Provisioned(e, held, a)}
      \cup (IF e = "shadowsocks" THEN {Kicked(e, held, {a})} ELSE {})

HalfKicked(e, held, gone) ==
    IF Readable(e, held) THEN {Kicked(e, held, part) : part \in SUBSET gone}
                         ELSE {held}

(* What a reconciliation removes first of all. *)
Unwanted(e, held, wanted) ==
    CASE e = "hysteria"                -> {}
      [] e = "openvpn"                 -> {b \in held : b.id \notin Ids(wanted)}
      [] e \in {"xray", "shadowsocks"} -> held
      [] e = "wireguard"               -> {b \in held : b.slot \notin Slots(wanted)}

(* A reconciliation removes before it adds, so it may also stop with some   *)
(* of what it found removed and nothing added.                              *)
HalfReconciled(e, held, wanted) ==
    LET unwanted == Unwanted(e, held, wanted)
    IN  IF ~ Readable(e, held) THEN {held}
        ELSE {held \ part : part \in SUBSET unwanted}
             \cup (IF e = "wireguard"
                   THEN {InstallPeers(held \ unwanted, part) : part \in SUBSET wanted}
                   ELSE IF e \in {"xray", "shadowsocks"} THEN SUBSET wanted ELSE {})

=============================================================================
