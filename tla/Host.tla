-------------------------------- MODULE Host --------------------------------
(***************************************************************************)
(* The tsok host: the receive overlay, the control loop at the other end of *)
(* its channels and the UDP leases behind its callbacks, as StartHost       *)
(* (internal/transport/host.go) wires them.  An action of one component is  *)
(* joined with the action of the other where the code makes a call or a     *)
(* channel operation, and leaves the rest alone.                            *)
(***************************************************************************)
EXTENDS ReceiveOverlay, UDPLease, ControlLoop

hostVars == <<vars, leaseVars, controlVars>>

HostInit == Init /\ LeaseInit /\ ControlInit

-----------------------------------------------------------------------------
(* Calls between the components. *)

OpenUDP ==
    /\ ROpened
    /\ \/ \E p \in Ports : JoinUDP(rmsg.id, p) \/ ListenUDP(rmsg.id, p)
       \/ RefuseUDP
    /\ UNCHANGED controlVars

RClosed(s) == RNotify(s) /\ CloseUDPSession(s) /\ UNCHANGED controlVars
EClosed(s) == ENotify(s) /\ CloseUDPSession(s) /\ UNCHANGED controlVars

TRecv == TakeIn /\ TApply(Head(in)) /\ UNCHANGED leaseVars
TSend == SendTailscaleNodeUpdate(tNode) /\ TSent /\ UNCHANGED leaseVars

-----------------------------------------------------------------------------
(* One goroutine each. *)

OverlayOnly == UNCHANGED <<leaseVars, controlVars>>
ControlOnly == UNCHANGED <<vars, leaseVars>>

R == (RStep /\ OverlayOnly) \/ OpenUDP \/ \E s \in Sessions : RClosed(s)

E == (EStep /\ OverlayOnly) \/ \E s \in Sessions : EClosed(s)

O == OStep /\ OverlayOnly

Ticks == (\E d \in 1..PeerTimeout : Tick(d)) /\ OverlayOnly

T == TRecv \/ TSend \/ ((TTakeToken \/ TLoad) /\ ControlOnly)

Handlers == (StoreNode \/ RegisterExpired \/ NotifyUpdate) /\ ControlOnly

Network == (\E s \in Sessions : LoseHello(s)) /\ OverlayOnly

HostNext == R \/ E \/ Ticks \/ O \/ T \/ Handlers \/ Network

HostSpec == HostInit /\ [][HostNext]_hostVars

(* A goroutine that can run does.  A goroutine waiting for peerMu gets it     *)
(* if it is released again and again (sync.Mutex hands over to a starved     *)
(* waiter), and T's select does not ignore a ready case for ever (Go picks   *)
(* at random).  Nothing is assumed of clients, DERP or node changes.         *)
RLock == (RTrackGoodbye \/ RTrackRefuse \/ RTrack) /\ OverlayOnly

RServe ==
    \/ /\ \/ RSendIn \/ RLoad \/ RReply \/ RReplyFails \/ RUnlock \/ RNotified
          \/ \E s \in Sessions : RDrop(s)
       /\ OverlayOnly
    \/ OpenUDP
    \/ \E s \in Sessions : RClosed(s)

HostFairness ==
    /\ WF_hostVars(RServe) /\ SF_hostVars(RLock)
    /\ WF_hostVars(E) /\ SF_hostVars(ELock /\ OverlayOnly) /\ WF_hostVars(Ticks)
    /\ WF_hostVars(O) /\ SF_hostVars(OSnap /\ OverlayOnly)
    /\ WF_hostVars(T) /\ SF_hostVars(TRecv)
    /\ SF_hostVars(TTakeToken /\ ControlOnly)
    /\ WF_hostVars(NotifyUpdate /\ ControlOnly)

HostFairSpec == HostSpec /\ HostFairness

-----------------------------------------------------------------------------
HostTypeOK ==
    /\ peers \in [Sessions -> Keys \cup {Absent}]
    /\ age \in [Sessions -> 0..PeerTimeout]
    /\ lastNode \in 0..MaxNode
    /\ in \in Seq(PeerUpdates) /\ Len(in) <= InCap
    /\ out \in Seq(0..MaxNode) /\ Len(out) <= OutCap
    /\ peerMu \in {"free", "R", "E"}
    /\ rpc \in {"recv", "lock", "sendIn", "load", "open", "reply", "drop", "notify",
                "stopped"}
    /\ rmsg \in Packets \cup GoneMessages \cup {NoMsg}
    /\ rAge \in 0..PeerTimeout
    /\ rLeft \subseteq Sessions /\ rGone \subseteq Sessions
    /\ rNode \in 0..MaxNode
    /\ epc \in {"idle", "lock", "drop", "notify"}
    /\ eLeft \subseteq Sessions /\ eGone \subseteq Sessions
    /\ opc \in {"idle", "snap", "send"}
    /\ oNode \in 0..MaxNode
    /\ oTo \subseteq Sessions
    /\ offered \in [Sessions -> 0..MaxNode]
    /\ helloed \subseteq Sessions
    /\ LeaseTypeOK
    /\ ControlTypeOK

(* What the control store will hold for s once every update already queued  *)
(* for it is applied.                                                       *)
WillHold(s) ==
    IF \E i \in 1..Len(in) : in[i].id = s
    THEN \E i \in 1..Len(in) :
            /\ in[i].id = s /\ in[i].node # "nil"
            /\ \A j \in (i+1)..Len(in) : in[j].id # s
    ELSE s \in nodes

(* No ghost peer: once the updates already queued are applied, the control  *)
(* store holds no session the registry has let go.  In trackPeer,           *)
(* removeDERPPeers, expirePeers and the node update of handleNextMessage the *)
(* registry and the channel are written by two goroutines, partly under     *)
(* peerMu and partly not.                                                   *)
NoGhostPeer == \A s \in Sessions : WillHold(s) => s \in Tracked

(* UDP leases are session-scoped: whoever holds one is in the registry, or  *)
(* its removal is still to be notified (openUDP, closeUDPSession, and the    *)
(* notifications of R and E, all outside peerMu).                           *)
LeaseScoped ==
    \A p \in Ports : udpPorts[p] \subseteq Tracked \cup rGone \cup eGone

(* Every session in the registry gets our newest node: the fan-out offers   *)
(* it, or the reply to the session's hello will carry it.  O stores lastNode *)
(* and then reads the registry; R writes the registry and then reads         *)
(* lastNode.                                                                *)
NodeFanout ==
    \A s \in Tracked :
        \/ offered[s] = lastNode
        \/ opc = "snap"
        \/ opc = "send" /\ s \in oTo
        \/ rpc = "load" /\ rmsg.id = s
        \/ rpc = "reply" /\ rmsg.id = s /\ rNode = lastNode

(* Our newest node is never lost on the way to the overlay: it is already   *)
(* lastNode, or queued, or T is about to load or send it, or a token or a    *)
(* handler about to leave one will make T load it.                          *)
LastPushed ==
    IF tpc = "send"      THEN tNode
    ELSE IF out # << >>  THEN out[Len(out)]
    ELSE lastNode

NodeNeverLost == LastPushed = node \/ nodeUpdate = 1 \/ notifying > 0 \/ tpc = "load"

(* A session leaves the registry only for a goodbye of its own, because     *)
(* DERP lost the very key it was last heard from, or because it was silent   *)
(* for the whole timeout.                                                   *)
RemovalJustified ==
    [][\A s \in Sessions : s \in Tracked /\ peers'[s] = Absent =>
          \/ rmsg \in Packets /\ rmsg.typ = "Goodbye" /\ rmsg.id = s
          \/ rmsg \in GoneMessages /\ rmsg.key = peers[s]
          \/ epc = "drop" /\ age[s] = PeerTimeout]_hostVars

(* The circular wait: T is blocked on a full out, which O does not drain    *)
(* while it waits for peerMu, whose holder is blocked on a full in, which   *)
(* only T drains.                                                           *)
CircularWait ==
    /\ tpc = "send" /\ Len(out) = OutCap
    /\ opc = "snap"
    /\ \/ peerMu = "R" /\ rLeft # {} /\ Len(in) = InCap
       \/ peerMu = "E" /\ eLeft # {} /\ Len(in) = InCap

(* Sessions come and go independently, so no session's removal may leave    *)
(* T, O and the holder of peerMu waiting for one another for ever.          *)
NoCircularWait == ~CircularWait

(* Once entered, the circular wait is never left, whatever clients, DERP and  *)
(* tailscaled do: no session is served or cleaned up again.                  *)
CircularWaitIsForever == [][CircularWait => CircularWait']_hostVars

(* A session the registry let go leaves no trace: its node goes from the     *)
(* control store and it holds no UDP lease, however it was removed.          *)
GoneLeavesNoTrace ==
    \A s \in Sessions :
        s \in helloed /\ s \notin Tracked ~> s \notin nodes /\ Leased(s) = {}

(* When the receive loop has died (ListenOverlayDERP returned an error) the  *)
(* reaper still clears the registry, the store and the leases.              *)
ReaperOutlivesReceive ==
    rpc = "stopped" ~> Tracked = {} /\ nodes = {} /\ listeners = {}

(* Our newest node is offered to every session in the registry again and     *)
(* again: registration, T, O and the replies never leave one behind for good. *)
NodeReachesEverySession == []<>(\A s \in Tracked : offered[s] = node)

-----------------------------------------------------------------------------
(* The inductive invariant behind the safety properties. *)

(* R handles a packet outside its idle, removing and notifying places. *)
HandlesPacket ==
    /\ rpc \in {"lock", "sendIn", "load", "open", "reply"} => rmsg \in Packets
    /\ rpc = "recv" => rAge = 0 /\ rNode = 0

(* peerMu is held across steps exactly by who is removing sessions. *)
MutexInv ==
    /\ peerMu = "R" <=> rpc = "drop"
    /\ peerMu = "E" <=> epc = "drop"

(* What R and E have left to remove is in the registry, for a reason. *)
RemovalInv ==
    /\ epc # "drop" => eLeft = {}
    /\ rpc # "drop" => rLeft = {}
    /\ rpc \notin {"drop", "notify"} => rGone = {}
    /\ \A s \in eLeft : s \in Tracked /\ age[s] = PeerTimeout
    /\ \A s \in rLeft :
          /\ s \in Tracked
          /\ \/ rmsg \in Packets /\ rmsg.typ = "Goodbye" /\ rmsg.id = s
             \/ rmsg \in GoneMessages /\ rmsg.key = peers[s]

(* A session stays registered while R does for it what must not outlive it. *)
ServedInv ==
    /\ rpc = "lock" => rAge < PeerTimeout
    /\ rpc = "open" => rmsg.id \in Tracked /\ age[rmsg.id] < PeerTimeout
    /\ rpc = "sendIn" => rmsg.id \in Tracked

(* Versions of our node travel in order: node, tNode, out, lastNode, and     *)
(* what was offered.                                                        *)
VersionInv ==
    /\ notifying <= node + MaxExpired
    /\ lastNode <= node
    /\ tpc = "send" => tNode <= node /\ lastNode <= tNode
    /\ \A i \in 1..Len(out) :
          /\ lastNode <= out[i] /\ out[i] <= node
          /\ tpc = "send" => out[i] <= tNode
          /\ \A j \in 1..Len(out) : i <= j => out[i] <= out[j]
    /\ opc # "idle" => oNode = lastNode
    /\ rNode <= lastNode
    /\ \A s \in Sessions : offered[s] <= lastNode

HostInv ==
    /\ HostTypeOK
    /\ HandlesPacket
    /\ MutexInv
    /\ RemovalInv
    /\ ServedInv
    /\ VersionInv
    /\ LeaseScoped
    /\ ListenerIffLeased
    /\ NodeFanout
    /\ NodeNeverLost
    /\ NoGhostPeer
=============================================================================
