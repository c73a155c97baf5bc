------------------------------- MODULE Overlay -------------------------------
(***************************************************************************)
(* What the overlay's two sides and the control server share                *)
(* (overlay/overlay.go): sessions, messages, and the peer updates the        *)
(* control server receives.  A session's node is abstracted to its presence: *)
(* "nil" stands for a nil Node, which removes the peer.                        *)
(***************************************************************************)
EXTENDS Naturals, Sequences, FiniteSets

CONSTANTS
    Sessions,      \* session ids, one per client process
    Keys           \* DERP public keys packets come from

MsgTypes == {"Hello", "NodeUpdate", "Ping", "Pong", "OpenUDP", "Goodbye"}

Packets == [typ : MsgTypes, id : Sessions, key : Keys]
GoneMessages == [typ : {"PeerGone"}, key : Keys]
NoMsg == [typ |-> "none"]

PeerUpdates == [id : Sessions, node : {"node", "nil"}]
=============================================================================
