--------------------------- MODULE ReceiveOverlay ---------------------------
(***************************************************************************)
(* The host side of the encrypted DERP control overlay (overlay/receive.go) *)
(*                                                                         *)
(* Receive keeps the registry of active sessions in peers, guarded by       *)
(* peerMu, and two bounded Go channels: in (peer updates for the control    *)
(* loop) and out (our own node, fanned out to every session).  Three        *)
(* goroutines run over it:                                                 *)
(*   R  the receive loop of ListenOverlayDERP and the handlers it calls,    *)
(*   E  the reaper of startPeerReaper / expirePeers,                        *)
(*   O  the fan-out goroutine of ListenOverlayDERP.                         *)
(* The channels' other ends belong to the control loop (ControlLoop), and   *)
(* the two callbacks openUDPHandler and sessionClosedHandler to UDPLease;   *)
(* module Host composes the three.                                          *)
(*                                                                         *)
(* Both in and out are FIFO, and goroutines blocked in a send are served in *)
(* the order they arrived (the Go runtime's sudog queue).  A session's node *)
(* is abstracted to "present" in an update, our own node to a version.      *)
(***************************************************************************)
EXTENDS Overlay

CONSTANTS
    Absent,        \* not a key: the session is not in peers
    InCap,         \* capacity of in  (8 in the code)
    OutCap,        \* capacity of out (8 in the code)
    PeerTimeout    \* peerInactiveTimeout, in reaper ticks (4 in the code)

ASSUME OverlayAssumption ==
    /\ Absent \notin Keys
    /\ InCap \in Nat \ {0}
    /\ OutCap \in Nat \ {0}
    /\ PeerTimeout \in Nat \ {0}

VARIABLES
    peers,     \* [Sessions -> Keys \cup {Absent}]: the registry
    age,       \* ticks since the session's lastSeen
    lastNode,  \* version of our node last stored by O, 0 = none yet
    in,        \* channel to the control loop: sequence of PeerUpdates
    out,       \* channel from the control loop: sequence of node versions
    peerMu,    \* who holds peerMu across a blocking step: "free", "R" or "E"
    rpc,       \* where R is
    rmsg,      \* the message R handles
    rAge,      \* ticks since R captured time.Now() for that message
    rLeft,     \* sessions R has still to remove under peerMu
    rGone,     \* sessions R has removed and must still notify
    rNode,     \* node version R put in the reply
    epc, eLeft, eGone,   \* the same for the reaper
    opc, oNode, oTo,     \* O: its place, the version in hand, who is left to send to
    offered,   \* history: newest node version handed to DERP for each session
    helloed    \* sessions whose client has sent its one hello

vars == << peers, age, lastNode, in, out, peerMu, rpc, rmsg, rAge, rLeft, rGone,
           rNode, epc, eLeft, eGone, opc, oNode, oTo, offered, helloed >>

registryVars == <<peers, age, peerMu>>
rVars == <<rpc, rmsg, rAge, rLeft, rGone, rNode>>
eVars == <<epc, eLeft, eGone>>
oVars == <<opc, oNode, oTo, lastNode>>

-----------------------------------------------------------------------------
Tracked == {s \in Sessions : peers[s] # Absent}

Newer(a, b) == IF a > b THEN a ELSE b

Init ==
    /\ peers = [s \in Sessions |-> Absent]
    /\ age = [s \in Sessions |-> 0]
    /\ lastNode = 0
    /\ in = << >>
    /\ out = << >>
    /\ peerMu = "free"
    /\ rpc = "recv" /\ rmsg = NoMsg /\ rAge = 0 /\ rNode = 0
    /\ rLeft = {} /\ rGone = {}
    /\ epc = "idle" /\ eLeft = {} /\ eGone = {}
    /\ opc = "idle" /\ oNode = 0 /\ oTo = {}
    /\ offered = [s \in Sessions |-> 0]
    /\ helloed = {}

-----------------------------------------------------------------------------
(* Sending on in. *)

SendInUnbounded(update) == in' = Append(in, update)   \* mutant: no capacity

SendIn(update) ==
    /\ Len(in) < InCap
    /\ in' = Append(in, update)

RemoveSilently(s) ==    \* mutant: the control loop is not told
    /\ peers' = [peers EXCEPT ![s] = Absent]
    /\ age' = [age EXCEPT ![s] = 0]
    /\ UNCHANGED in

(* delete(r.peers, s); r.in <- PeerUpdate{ID: s}, under peerMu.  Nobody     *)
(* reads peers without peerMu, so the deletion is merged with the send that *)
(* follows it.                                                              *)
Remove(s) ==
    /\ SendIn([id |-> s, node |-> "nil"])
    /\ peers' = [peers EXCEPT ![s] = Absent]
    /\ age' = [age EXCEPT ![s] = 0]

-----------------------------------------------------------------------------
(* R: the receive loop. *)

Done == /\ rpc' = "recv" /\ rmsg' = NoMsg /\ rAge' = 0 /\ rNode' = 0

(* A client sends its hello once, before anything else (overlay/send.go);   *)
(* DERP may lose a packet, which for any but the hello is no step at all.   *)
LoseHello(s) ==
    /\ s \notin helloed
    /\ helloed' = helloed \cup {s}
    /\ UNCHANGED <<peers, age, lastNode, in, out, peerMu, rVars, eVars,
                   opc, oNode, oTo, offered>>

RReceive(s, k, typ) ==
    /\ rpc = "recv"
    /\ (typ = "Hello") <=> (s \notin helloed)
    /\ rpc' = "lock"
    /\ rmsg' = [typ |-> typ, id |-> s, key |-> k]
    /\ helloed' = helloed \cup {s}
    /\ UNCHANGED <<registryVars, oVars, eVars, in, out, rAge, rLeft, rGone,
                   rNode, offered>>

RRecvFails ==
    /\ rpc = "recv"
    /\ rpc' = "stopped"
    /\ UNCHANGED <<registryVars, oVars, eVars, in, out, rmsg, rAge, rLeft, rGone,
                   rNode, offered, helloed>>

(* trackPeer on a goodbye: remove the session if it is known, and report it *)
(* removed either way.                                                      *)
RTrackGoodbye ==
    /\ rpc = "lock" /\ peerMu = "free"
    /\ rmsg.typ = "Goodbye"
    /\ rLeft' = {rmsg.id} \cap Tracked
    /\ rGone' = {rmsg.id} \ Tracked
    /\ IF rmsg.id \in Tracked THEN rpc' = "drop" /\ peerMu' = "R"
                              ELSE rpc' = "notify" /\ UNCHANGED peerMu
    /\ rAge' = 0
    /\ UNCHANGED <<peers, age, oVars, eVars, in, out, rmsg, rNode, offered, helloed>>

HandlerOfHelloBare(typ) ==    \* mutant: the hello response carries no node
    CASE typ \in {"Hello", "Ping"} -> "reply"
      [] typ = "NodeUpdate"         -> "sendIn"
      [] typ = "OpenUDP"            -> "open"

(* What handleNextMessage does after trackPeer, by message type. *)
HandlerOf(typ) ==
    CASE typ = "Hello"      -> "load"
      [] typ = "NodeUpdate" -> "sendIn"
      [] typ = "Ping"       -> "reply"
      [] typ = "OpenUDP"    -> "open"

RTrackRefuseNobody ==    \* mutant: an unknown session is served unregistered
    /\ rpc = "lock" /\ peerMu = "free"
    /\ rmsg.typ \in {"NodeUpdate", "Ping", "OpenUDP"}
    /\ rmsg.id \notin Tracked
    /\ rpc' = HandlerOf(rmsg.typ) /\ rAge' = 0
    /\ UNCHANGED <<registryVars, oVars, eVars, in, out, rmsg, rLeft, rGone, rNode,
                   offered, helloed>>

(* trackPeer's error: the first message of a session must be a hello. *)
RTrackRefuse ==
    /\ rpc = "lock" /\ peerMu = "free"
    /\ rmsg.typ \notin {"Goodbye", "Hello"}
    /\ rmsg.id \notin Tracked
    /\ Done
    /\ UNCHANGED <<registryVars, oVars, eVars, in, out, rLeft, rGone, offered,
                   helloed>>

(* trackPeer records the session, under the key the message came from and   *)
(* with the time captured before the lock was taken; handleNextMessage then *)
(* goes on by type.                                                         *)
RTrack ==
    /\ rpc = "lock" /\ peerMu = "free"
    /\ rmsg.typ # "Goodbye"
    /\ rmsg.id \in Tracked \/ rmsg.typ = "Hello"
    /\ peers' = [peers EXCEPT ![rmsg.id] = rmsg.key]
    /\ age' = [age EXCEPT ![rmsg.id] = rAge]
    /\ IF rmsg.typ = "Pong" THEN Done
       ELSE /\ rpc' = HandlerOf(rmsg.typ)
            /\ rAge' = 0
            /\ UNCHANGED <<rmsg, rNode>>
    /\ UNCHANGED <<peerMu, oVars, eVars, in, out, rLeft, rGone, offered, helloed>>

(* messageTypeNodeUpdate: r.in <- PeerUpdate{...}, without peerMu. *)
RSendIn ==
    /\ rpc = "sendIn"
    /\ SendIn([id |-> rmsg.id, node |-> "node"])
    /\ rpc' = "load"
    /\ UNCHANGED <<registryVars, oVars, eVars, out, rmsg, rAge, rLeft, rGone,
                   rNode, offered, helloed>>

(* The reply to a hello and to a node update carries r.lastNode.Load(). *)
RLoad ==
    /\ rpc = "load"
    /\ rNode' = lastNode
    /\ rpc' = "reply"
    /\ UNCHANGED <<registryVars, oVars, eVars, in, out, rmsg, rAge, rLeft, rGone,
                   offered, helloed>>

(* messageTypeOpenUDP after the handler (UDPLease) has answered. *)
ROpened ==
    /\ rpc = "open"
    /\ rpc' = "reply"
    /\ UNCHANGED <<registryVars, oVars, eVars, in, out, rmsg, rAge, rLeft, rGone,
                   rNode, offered, helloed>>

Offer(s, v) == offered' = [offered EXCEPT ![s] = Newer(@, v)]

(* c.Send(msg.Source, res): an error ends ListenOverlayDERP. *)
RReply ==
    /\ rpc = "reply"
    /\ Offer(rmsg.id, rNode)
    /\ Done
    /\ UNCHANGED <<registryVars, oVars, eVars, in, out, rLeft, rGone, helloed>>

RReplyFails ==
    /\ rpc = "reply"
    /\ Offer(rmsg.id, rNode)
    /\ rpc' = "stopped" /\ rmsg' = NoMsg /\ rAge' = 0 /\ rNode' = 0
    /\ UNCHANGED <<registryVars, oVars, eVars, in, out, rLeft, rGone, helloed>>

(* derp.PeerGoneMessage: removeDERPPeers takes peerMu and removes every     *)
(* session last heard from under that key.                                  *)
RPeerGone(k) ==
    /\ rpc = "recv" /\ peerMu = "free"
    /\ rmsg' = [typ |-> "PeerGone", key |-> k]
    /\ rLeft' = {s \in Tracked : peers[s] = k}
    /\ rpc' = "drop" /\ peerMu' = "R"
    /\ UNCHANGED <<peers, age, oVars, eVars, in, out, rAge, rGone, rNode, offered,
                   helloed>>

RDrop(s) ==
    /\ rpc = "drop" /\ s \in rLeft
    /\ Remove(s)
    /\ rLeft' = rLeft \ {s}
    /\ rGone' = rGone \cup {s}
    /\ UNCHANGED <<peerMu, oVars, eVars, out, rpc, rmsg, rAge, rNode, offered,
                   helloed>>

RUnlock ==
    /\ rpc = "drop" /\ rLeft = {}
    /\ peerMu' = "free"
    /\ rpc' = "notify"
    /\ UNCHANGED <<peers, age, oVars, eVars, in, out, rmsg, rAge, rLeft, rGone,
                   rNode, offered, helloed>>

(* notifySessionClosed(s); the handler's part is UDPLease's CloseUDPSession. *)
RNotify(s) ==
    /\ rpc = "notify" /\ s \in rGone
    /\ rGone' = rGone \ {s}
    /\ UNCHANGED <<registryVars, oVars, eVars, in, out, rpc, rmsg, rAge, rLeft,
                   rNode, offered, helloed>>

RNotified ==
    /\ rpc = "notify" /\ rGone = {}
    /\ Done
    /\ UNCHANGED <<registryVars, oVars, eVars, in, out, rLeft, rGone, offered,
                   helloed>>

-----------------------------------------------------------------------------
(* E: the reaper. *)

(* An assumption about timing: from the time.Now() of a message to the end of *)
(* its OpenUDP callback R does not stall for the whole inactivity timeout.    *)
(* Prompt(d) says d ticks fit there without reaching it.                     *)
Prompt(d) ==
    /\ rpc = "lock" => rAge + d < PeerTimeout
    /\ rpc = "open" => age[rmsg.id] + d < PeerTimeout

Aged(n, d) == IF n + d > PeerTimeout THEN PeerTimeout ELSE n + d

(* The ticker fires, d ticks after the last one the reaper took (the ticker *)
(* drops the ticks it cannot deliver).  Ages matter only to the reaper and  *)
(* are capped at the timeout.                                               *)
Tick(d) ==
    /\ epc = "idle"
    /\ Prompt(d)
    /\ age' = [s \in Sessions |-> IF s \in Tracked THEN Aged(age[s], d) ELSE 0]
    /\ rAge' = IF rpc = "lock" THEN Aged(rAge, d) ELSE 0
    /\ epc' = "lock"
    /\ UNCHANGED <<peers, peerMu, oVars, in, out, rpc, rmsg, rLeft, rGone, rNode,
                   eLeft, eGone, offered, helloed>>

ExpiredEarly == {s \in Tracked : age[s] + 1 >= PeerTimeout}   \* mutant

Expired == {s \in Tracked : age[s] >= PeerTimeout}

ELock ==
    /\ epc = "lock" /\ peerMu = "free"
    /\ eLeft' = Expired
    /\ epc' = "drop" /\ peerMu' = "E"
    /\ UNCHANGED <<peers, age, oVars, rVars, in, out, eGone, offered, helloed>>

EDropUnnoticed(s) ==    \* mutant: the session is not in removed
    /\ epc = "drop" /\ s \in eLeft
    /\ ~(rpc = "sendIn" /\ rmsg.id = s)
    /\ Remove(s)
    /\ eLeft' = eLeft \ {s}
    /\ UNCHANGED <<peerMu, oVars, rVars, out, epc, eGone, offered, helloed>>

(* The removal of a session waits behind an update of it.  R passed trackPeer  *)
(* with that a whole timeout ago, so it waits at the channel by now (as in    *)
(* Prompt, it does not stall that long before it), where senders are served   *)
(* first come, first served.                                                 *)
EDrop(s) ==
    /\ epc = "drop" /\ s \in eLeft
    /\ ~(rpc = "sendIn" /\ rmsg.id = s)
    /\ Remove(s)
    /\ eLeft' = eLeft \ {s}
    /\ eGone' = eGone \cup {s}
    /\ UNCHANGED <<peerMu, oVars, rVars, out, epc, offered, helloed>>

EUnlockIfRemoved ==    \* mutant: returns with peerMu held when nothing expired
    /\ epc = "drop" /\ eLeft = {}
    /\ peerMu' = IF eGone = {} THEN peerMu ELSE "free"
    /\ epc' = "notify"
    /\ UNCHANGED <<peers, age, oVars, rVars, in, out, eLeft, eGone, offered, helloed>>

EUnlock ==
    /\ epc = "drop" /\ eLeft = {}
    /\ peerMu' = "free"
    /\ epc' = "notify"
    /\ UNCHANGED <<peers, age, oVars, rVars, in, out, eLeft, eGone, offered, helloed>>

ENotify(s) ==
    /\ epc = "notify" /\ s \in eGone
    /\ eGone' = eGone \ {s}
    /\ UNCHANGED <<registryVars, oVars, rVars, in, out, epc, eLeft, offered, helloed>>

ENotified ==
    /\ epc = "notify" /\ eGone = {}
    /\ epc' = "idle"
    /\ UNCHANGED <<registryVars, oVars, rVars, in, out, eLeft, eGone, offered, helloed>>

-----------------------------------------------------------------------------
(* O: the fan-out goroutine. *)

(* msg := <-r.out; r.lastNode.Store(&msg.Node) *)
OTake ==
    /\ opc = "idle" /\ out # << >>
    /\ oNode' = Head(out)
    /\ out' = Tail(out)
    /\ lastNode' = oNode'
    /\ opc' = "snap"
    /\ UNCHANGED <<registryVars, rVars, eVars, in, oTo, offered, helloed>>

OSnapUnlocked ==    \* mutant: reads the registry without peerMu
    /\ opc = "snap"
    /\ oTo' = Tracked
    /\ opc' = "send"
    /\ UNCHANGED <<registryVars, rVars, eVars, in, out, oNode, lastNode, offered,
                   helloed>>

(* derpPeers() *)
OSnap ==
    /\ opc = "snap" /\ peerMu = "free"
    /\ oTo' = Tracked
    /\ opc' = "send"
    /\ UNCHANGED <<registryVars, rVars, eVars, in, out, oNode, lastNode, offered,
                   helloed>>

OSendOrReturn(s) ==    \* mutant: a send error may end the goroutine
    /\ opc = "send" /\ s \in oTo
    /\ Offer(s, oNode)
    /\ oTo' = oTo \ {s}
    /\ opc' \in {"send", "stopped"}
    /\ UNCHANGED <<registryVars, rVars, eVars, in, out, oNode, lastNode, helloed>>

(* c.Send to one session; an error is only reported. *)
OSend(s) ==
    /\ opc = "send" /\ s \in oTo
    /\ Offer(s, oNode)
    /\ oTo' = oTo \ {s}
    /\ UNCHANGED <<registryVars, rVars, eVars, in, out, opc, oNode, lastNode, helloed>>

OSent ==
    /\ opc = "send" /\ oTo = {}
    /\ opc' = "idle" /\ oNode' = 0
    /\ UNCHANGED <<registryVars, rVars, eVars, in, out, oTo, lastNode, offered,
                   helloed>>

-----------------------------------------------------------------------------
(* The ends of the channels the control loop holds. *)

(* update := <-r.Recv() *)
TakeIn ==
    /\ in # << >>
    /\ in' = Tail(in)
    /\ UNCHANGED <<registryVars, rVars, eVars, oVars, out, offered, helloed>>

(* SendTailscaleNodeUpdate: r.out <- node, blocking while out is full. *)
SendTailscaleNodeUpdate(v) ==
    /\ Len(out) < OutCap
    /\ out' = Append(out, v)
    /\ UNCHANGED <<registryVars, rVars, eVars, oVars, in, offered, helloed>>

-----------------------------------------------------------------------------
(* The steps of each goroutine that call back nobody. *)

RStep ==
    \/ \E s \in Sessions, k \in Keys, typ \in MsgTypes : RReceive(s, k, typ)
    \/ RRecvFails
    \/ RTrackGoodbye
    \/ RTrackRefuse
    \/ RTrack
    \/ RSendIn
    \/ RLoad
    \/ RReply
    \/ RReplyFails
    \/ \E k \in Keys : RPeerGone(k)
    \/ \E s \in Sessions : RDrop(s)
    \/ RUnlock
    \/ RNotified

EStep ==
    \/ ELock
    \/ \E s \in Sessions : EDrop(s)
    \/ EUnlock
    \/ ENotified

OStep ==
    \/ OTake
    \/ OSnap
    \/ \E s \in Sessions : OSend(s)
    \/ OSent
=============================================================================
