----------------------------- MODULE HostProofs -----------------------------
(* Theorems about Host, for every value of its constants. *)
EXTENDS Host, SequenceTheorems, TLAPS

USE OverlayAssumption, ControlAssumption
    DEF OverlayAssumption, ControlAssumption

(* What R holds while it handles a packet. *)
LEMMA Handled ==
  ASSUME HandlesPacket,
         rpc \in {"lock", "sendIn", "load", "open", "reply"}
  PROVE  /\ rmsg \in Packets
         /\ rmsg.id \in Sessions /\ rmsg.key \in Keys /\ rmsg.typ \in MsgTypes
  BY DEF HandlesPacket, Packets

LEMMA OneOrMore == \A n \in Nat : n > 0 => n = 1 \/ n > 1
  OBVIOUS

LEMMA NonEmpty ==
  ASSUME NEW S, NEW q \in Seq(S) PROVE Len(q) \in Nat /\ (q # << >> <=> Len(q) > 0)
  BY EmptySeq, LenProperties

LEMMA InitInv == HostInit => HostInv
<1> SUFFICES ASSUME HostInit PROVE HostInv
  OBVIOUS
<1> USE DEF HostInit, Init, LeaseInit, ControlInit
<1>1. HostTypeOK
  <2>1. in \in Seq(PeerUpdates) /\ Len(in) <= InCap
    OBVIOUS
  <2>2. out \in Seq(0..MaxNode) /\ Len(out) <= OutCap
    OBVIOUS
  <2>3. LeaseTypeOK /\ ControlTypeOK
    BY DEF LeaseTypeOK, ControlTypeOK
  <2> QED
    BY <2>1, <2>2, <2>3 DEF HostTypeOK
<1>2. Tracked = {}
  BY DEF Tracked
<1>3. HandlesPacket /\ MutexInv /\ RemovalInv /\ ServedInv /\ VersionInv
  BY DEF HandlesPacket, MutexInv, RemovalInv, ServedInv, VersionInv
<1>4. LeaseScoped /\ ListenerIffLeased /\ NodeFanout /\ NodeNeverLost
  BY <1>2 DEF LeaseScoped, ListenerIffLeased, NodeFanout, NodeNeverLost, LastPushed
<1>5. NoGhostPeer
  BY <1>2 DEF NoGhostPeer, WillHold
<1> QED
  BY <1>1, <1>3, <1>4, <1>5 DEF HostInv

-----------------------------------------------------------------------------
(* Types. *)

(* R's own steps keep every variable in its type. *)
LEMMA TypeStepR ==
  ASSUME HostTypeOK, HandlesPacket, RStep, OverlayOnly
  PROVE  HostTypeOK'
<1> USE DEF HostTypeOK, LeaseTypeOK, ControlTypeOK, OverlayOnly, leaseVars,
        controlVars, registryVars, oVars, eVars, rVars
<1>1. ASSUME NEW s \in Sessions, NEW k \in Keys, NEW typ \in MsgTypes,
             RReceive(s, k, typ)
      PROVE  HostTypeOK'
  BY <1>1 DEF RReceive, Packets
<1>2. CASE RRecvFails
  BY <1>2 DEF RRecvFails
<1>3. CASE RTrackGoodbye
  BY <1>3, Handled DEF RTrackGoodbye, Tracked
<1>4. CASE RTrackRefuse
  BY <1>4 DEF RTrackRefuse, Done
<1>5. CASE RTrack
  <2>1. rpc' \in {"recv", "sendIn", "load", "open", "reply"}
    BY <1>5, Handled DEF RTrack, Done, MsgTypes, HandlerOf
  <2>2. /\ rmsg' \in {rmsg, NoMsg} /\ rNode' \in {rNode, 0} /\ rAge' = 0
    BY <1>5 DEF RTrack, Done
  <2>3. peers' \in [Sessions -> Keys \cup {Absent}] /\ age' \in [Sessions -> 0..PeerTimeout]
    BY <1>5, Handled DEF RTrack
  <2> QED
    BY <1>5, <2>1, <2>2, <2>3 DEF RTrack
<1>6. CASE RSendIn
  BY <1>6, Handled DEF RSendIn, SendIn, PeerUpdates
<1>7. CASE RLoad
  BY <1>7 DEF RLoad
<1>8. CASE RReply
  BY <1>8, Handled DEF RReply, Offer, Newer, Done
<1>9. CASE RReplyFails
  BY <1>9, Handled DEF RReplyFails, Offer, Newer
<1>10. ASSUME NEW k \in Keys, RPeerGone(k) PROVE HostTypeOK'
  BY <1>10 DEF RPeerGone, Tracked, GoneMessages
<1>11. ASSUME NEW s \in Sessions, RDrop(s) PROVE HostTypeOK'
  BY <1>11 DEF RDrop, Remove, SendIn, PeerUpdates
<1>12. CASE RUnlock
  BY <1>12 DEF RUnlock
<1>13. CASE RNotified
  BY <1>13 DEF RNotified, Done
<1> QED
  BY <1>1, <1>2, <1>3, <1>4, <1>5, <1>6, <1>7, <1>8, <1>9, <1>10, <1>11, <1>12,
     <1>13 DEF RStep

(* So do the reaper's, the fan-out's and the clock's. *)
LEMMA TypeStepEO ==
  ASSUME HostTypeOK, EStep \/ OStep \/ \E d \in 1..PeerTimeout : Tick(d), OverlayOnly
  PROVE  HostTypeOK'
<1> USE DEF HostTypeOK, LeaseTypeOK, ControlTypeOK, OverlayOnly, leaseVars,
        controlVars, registryVars, oVars, eVars, rVars
<1>1. CASE ELock
  BY <1>1 DEF ELock, Expired, Tracked
<1>2. ASSUME NEW s \in Sessions, EDrop(s) PROVE HostTypeOK'
  BY <1>2 DEF EDrop, Remove, SendIn, PeerUpdates
<1>3. CASE EUnlock
  BY <1>3 DEF EUnlock
<1>4. CASE ENotified
  BY <1>4 DEF ENotified
<1>5. CASE OTake
  <2>1. out # << >> /\ out' = Tail(out) /\ oNode' = Head(out) /\ lastNode' = Head(out)
        /\ opc' = "snap"
    BY <1>5 DEF OTake
  <2>2. Head(out) \in 0..MaxNode /\ Tail(out) \in Seq(0..MaxNode) /\ Len(Tail(out)) <= OutCap
    BY <2>1
  <2> QED
    BY <1>5, <2>1, <2>2 DEF OTake
<1>6. CASE OSnap
  BY <1>6 DEF OSnap, Tracked
<1>7. ASSUME NEW s \in Sessions, OSend(s) PROVE HostTypeOK'
  BY <1>7 DEF OSend, Offer, Newer
<1>8. CASE OSent
  BY <1>8 DEF OSent
<1>9. ASSUME NEW d \in 1..PeerTimeout, Tick(d) PROVE HostTypeOK'
  <2>1. age' \in [Sessions -> 0..PeerTimeout]
    BY <1>9 DEF Tick, Aged
  <2>2. rAge' \in 0..PeerTimeout
    BY <1>9 DEF Tick, Aged
  <2> QED
    BY <1>9, <2>1, <2>2 DEF Tick
<1> QED
  BY <1>1, <1>2, <1>3, <1>4, <1>5, <1>6, <1>7, <1>8, <1>9 DEF EStep, OStep

(* The calls between the components, the control loop and the network. *)
LEMMA TypeStepCalls ==
  ASSUME HostTypeOK, HandlesPacket, notifying <= node + MaxExpired,
         \/ OpenUDP
         \/ \E s \in Sessions : RClosed(s) \/ EClosed(s)
         \/ T \/ Handlers \/ Network
  PROVE  HostTypeOK'
<1> USE DEF HostTypeOK, LeaseTypeOK, ControlTypeOK, vars, leaseVars, controlVars,
        registryVars, oVars, eVars, rVars
<1>1. CASE OpenUDP
  <2>1. rmsg.id \in Sessions
    BY <1>1, Handled DEF OpenUDP, ROpened
  <2>2. ASSUME NEW p \in Ports, JoinUDP(rmsg.id, p) PROVE LeaseTypeOK'
    <3>1. udpPorts[p] \cup {rmsg.id} \in SUBSET Sessions
      BY <2>1
    <3> QED
      BY <2>2, <3>1 DEF JoinUDP
  <2>3. ASSUME NEW p \in Ports, ListenUDP(rmsg.id, p) PROVE LeaseTypeOK'
    BY <2>1, <2>3 DEF ListenUDP
  <2>4. LeaseTypeOK'
    BY <1>1, <2>2, <2>3 DEF OpenUDP, RefuseUDP
  <2>5. rpc' \in {"recv", "reply"} /\ UNCHANGED controlVars
    BY <1>1 DEF OpenUDP, ROpened
  <2> HIDE DEF LeaseTypeOK
  <2> QED
    BY <1>1, <2>4, <2>5 DEF OpenUDP, ROpened
<1>2. ASSUME NEW s \in Sessions, RClosed(s) PROVE HostTypeOK'
  BY <1>2 DEF RClosed, RNotify, CloseUDPSession
<1>3. ASSUME NEW s \in Sessions, EClosed(s) PROVE HostTypeOK'
  BY <1>3 DEF EClosed, ENotify, CloseUDPSession
<1>4. CASE TRecv
  <2>1. in # << >> /\ in \in Seq(PeerUpdates)
    BY <1>4 DEF TRecv, TakeIn
  <2>2. Head(in) \in PeerUpdates /\ Tail(in) \in Seq(PeerUpdates) /\ Len(Tail(in)) <= InCap
    BY <2>1
  <2>3. nodes' \subseteq Sessions
    BY <1>4, <2>2 DEF TRecv, TApply, PeerUpdates
  <2>4. /\ in' = Tail(in) /\ tpc' = "select"
        /\ nodeUpdate' \in {1, nodeUpdate}
        /\ UNCHANGED <<peers, age, peerMu, oVars, eVars, rVars, out, offered, helloed>>
        /\ UNCHANGED <<leaseVars, node, notifying, tNode>>
    BY <1>4 DEF TRecv, TakeIn, TApply
  <2> QED
    BY <2>2, <2>3, <2>4
<1>5. CASE TSend
  <2>1. out' = Append(out, tNode) /\ tpc' = "select"
        /\ Len(out) < OutCap
    BY <1>5 DEF TSend, SendTailscaleNodeUpdate, TSent
  <2>2. out' \in Seq(0..MaxNode) /\ Len(out') <= OutCap
    BY <2>1
  <2> QED
    BY <1>5, <2>1, <2>2 DEF TSend, SendTailscaleNodeUpdate, TSent
<1>6. CASE (TTakeToken \/ TLoad) /\ ControlOnly
  <2>1. UNCHANGED <<vars, leaseVars, node, notifying, nodes>>
    BY <1>6 DEF TTakeToken, TLoad, ControlOnly
  <2>2. nodeUpdate' \in 0..1 /\ tpc' \in {"select", "load", "send"} /\ tNode' \in 0..MaxNode
    BY <1>6 DEF TTakeToken, TLoad
  <2> QED
    BY <2>1, <2>2
<1>7. CASE Handlers
  <2>1. /\ notifying \in Nat /\ node \in Nat /\ MaxNode \in Nat /\ MaxExpired \in Nat
        /\ node <= MaxNode
    BY ControlAssumption
  <2>2. /\ node' \in 0..MaxNode /\ notifying' \in 0..(MaxNode + MaxExpired)
        /\ nodeUpdate' \in 0..1
    BY <1>7, <2>1 DEF Handlers, StoreNode, RegisterExpired, NotifyUpdate
  <2>3. UNCHANGED <<vars, leaseVars, tpc, tNode, nodes>>
    BY <1>7 DEF Handlers, StoreNode, RegisterExpired, NotifyUpdate, ControlOnly
  <2> QED
    BY <2>2, <2>3
<1>8. CASE Network
  BY <1>8 DEF Network, LoseHello, OverlayOnly
<1> QED
  BY <1>1, <1>2, <1>3, <1>4, <1>5, <1>6, <1>7, <1>8 DEF T

LEMMA TypeStep == HostInv /\ [HostNext]_hostVars => HostTypeOK'
<1> SUFFICES ASSUME HostInv, [HostNext]_hostVars PROVE HostTypeOK'
  OBVIOUS
<1>1. HostTypeOK /\ HandlesPacket /\ notifying <= node + MaxExpired
  BY DEF HostInv, VersionInv
<1>2. CASE HostNext
  BY <1>1, <1>2, TypeStepR, TypeStepEO, TypeStepCalls DEF HostNext, R, E, O, Ticks
<1>3. CASE UNCHANGED hostVars
  BY <1>1, <1>3 DEF HostTypeOK, LeaseTypeOK, ControlTypeOK, hostVars, vars, leaseVars,
     controlVars
<1> QED
  BY <1>2, <1>3

-----------------------------------------------------------------------------
(* The registry, its lock and the goroutines that change it. *)

(* The registry invariants hold of any state with the same overlay. *)
RegistryInv == HandlesPacket /\ MutexInv /\ RemovalInv /\ ServedInv

LEMMA RegistryStutter ==
  ASSUME RegistryInv, UNCHANGED vars PROVE RegistryInv'
  BY DEF RegistryInv, HandlesPacket, MutexInv, RemovalInv, ServedInv, Tracked, vars

LEMMA RegistryStepR ==
  ASSUME HostTypeOK, RegistryInv, RStep PROVE RegistryInv'
<1> USE DEF RegistryInv, HandlesPacket, MutexInv, RemovalInv, ServedInv, Tracked,
        registryVars, oVars, eVars, rVars
<1>0. rAge \in 0..PeerTimeout /\ peers \in [Sessions -> Keys \cup {Absent}]
      /\ age \in [Sessions -> 0..PeerTimeout]
  BY DEF HostTypeOK
<1>1. ASSUME NEW s \in Sessions, NEW k \in Keys, NEW typ \in MsgTypes,
             RReceive(s, k, typ)
      PROVE  RegistryInv'
  BY <1>0, <1>1 DEF RReceive, Packets
<1>2. CASE RRecvFails
  BY <1>2 DEF RRecvFails
<1>3. CASE RTrackGoodbye
  BY <1>3 DEF RTrackGoodbye
<1>4. CASE RTrackRefuse
  BY <1>4 DEF RTrackRefuse, Done
<1>5. CASE RTrack
  BY <1>0, <1>5, Handled DEF RTrack, Done, MsgTypes, HandlerOf
<1>6. CASE RSendIn
  BY <1>6 DEF RSendIn
<1>7. CASE RLoad
  BY <1>7 DEF RLoad
<1>8. CASE RReply
  BY <1>8 DEF RReply, Done
<1>9. CASE RReplyFails
  BY <1>9 DEF RReplyFails
<1>10. ASSUME NEW k \in Keys, RPeerGone(k) PROVE RegistryInv'
  BY <1>10 DEF RPeerGone, GoneMessages
<1>11. ASSUME NEW s \in Sessions, RDrop(s) PROVE RegistryInv'
  BY <1>0, <1>11 DEF RDrop, Remove
<1>12. CASE RUnlock
  BY <1>12 DEF RUnlock
<1>13. CASE RNotified
  BY <1>13 DEF RNotified, Done
<1> QED
  BY <1>1, <1>2, <1>3, <1>4, <1>5, <1>6, <1>7, <1>8, <1>9, <1>10, <1>11, <1>12,
     <1>13 DEF RStep

LEMMA RegistryStepE ==
  ASSUME HostTypeOK, RegistryInv, EStep \/ \E d \in 1..PeerTimeout : Tick(d)
  PROVE  RegistryInv'
<1> USE DEF RegistryInv, HandlesPacket, MutexInv, RemovalInv, ServedInv, Tracked,
        registryVars, oVars, eVars, rVars
<1>0. rAge \in 0..PeerTimeout /\ peers \in [Sessions -> Keys \cup {Absent}]
      /\ age \in [Sessions -> 0..PeerTimeout]
  BY DEF HostTypeOK
<1>1. CASE ELock
  BY <1>0, <1>1 DEF ELock, Expired
<1>2. ASSUME NEW s \in Sessions, EDrop(s) PROVE RegistryInv'
  BY <1>0, <1>2, Handled DEF EDrop, Remove
<1>3. CASE EUnlock
  BY <1>3 DEF EUnlock
<1>4. CASE ENotified
  BY <1>4 DEF ENotified
<1>5. ASSUME NEW d \in 1..PeerTimeout, Tick(d) PROVE RegistryInv'
  BY <1>0, <1>5, Handled DEF Tick, Aged, Prompt
<1> QED
  BY <1>1, <1>2, <1>3, <1>4, <1>5 DEF EStep

LEMMA RegistryStepOthers ==
  ASSUME HostTypeOK, RegistryInv,
         \/ OStep \/ OpenUDP \/ T \/ Handlers \/ Network
         \/ \E s \in Sessions : RClosed(s) \/ EClosed(s)
  PROVE  RegistryInv'
<1> USE DEF RegistryInv, HandlesPacket, MutexInv, RemovalInv, ServedInv, Tracked,
        registryVars, oVars, eVars, rVars
<1>1. CASE OStep
  BY <1>1 DEF OStep, OTake, OSnap, OSend, OSent
<1>2. CASE OpenUDP
  BY <1>2 DEF OpenUDP, ROpened
<1>3. CASE T
  BY <1>3 DEF T, TRecv, TakeIn, TSend, SendTailscaleNodeUpdate, ControlOnly, vars
<1>4. CASE Handlers
  BY <1>4 DEF Handlers, ControlOnly, vars
<1>5. CASE Network
  BY <1>5 DEF Network, LoseHello
<1>6. ASSUME NEW s \in Sessions, RClosed(s) \/ EClosed(s) PROVE RegistryInv'
  BY <1>6 DEF RClosed, RNotify, EClosed, ENotify
<1> QED
  BY <1>1, <1>2, <1>3, <1>4, <1>5, <1>6

LEMMA RegistryStep == HostInv /\ [HostNext]_hostVars => RegistryInv'
<1> SUFFICES ASSUME HostInv, [HostNext]_hostVars PROVE RegistryInv'
  OBVIOUS
<1>1. HostTypeOK /\ RegistryInv
  BY DEF HostInv, RegistryInv
<1>2. CASE HostNext
  BY <1>1, <1>2, RegistryStepR, RegistryStepE, RegistryStepOthers
     DEF HostNext, R, E, O, Ticks
<1>3. CASE UNCHANGED hostVars
  BY <1>1, <1>3, RegistryStutter DEF hostVars
<1> QED
  BY <1>2, <1>3

-----------------------------------------------------------------------------
(* UDP leases. *)

LeaseInv == LeaseScoped /\ ListenerIffLeased

(* Nothing but the UDP handlers touches a lease, and a session leaves the    *)
(* registry into rGone or eGone.                                            *)
LEMMA LeaseStepOverlay ==
  ASSUME HostTypeOK, RegistryInv, LeaseInv, UNCHANGED leaseVars,
         \/ RStep \/ EStep \/ OStep \/ \E d \in 1..PeerTimeout : Tick(d)
         \/ \E s \in Sessions : LoseHello(s)
         \/ UNCHANGED vars
         \/ TRecv \/ TSend
  PROVE  LeaseInv'
<1> SUFFICES Tracked \cup rGone \cup eGone \subseteq (Tracked \cup rGone \cup eGone)'
  BY DEF LeaseInv, LeaseScoped, ListenerIffLeased, leaseVars
<1> USE DEF Tracked, registryVars, oVars, eVars, rVars
<1>0. peers \in [Sessions -> Keys \cup {Absent}]
  BY DEF HostTypeOK
<1>1. CASE RTrack
  BY <1>0, <1>1, Handled DEF RTrack, RegistryInv
<1>2. ASSUME NEW s \in Sessions, RDrop(s) \/ EDrop(s)
      PROVE  Tracked \cup rGone \cup eGone \subseteq (Tracked \cup rGone \cup eGone)'
  BY <1>0, <1>2 DEF RDrop, EDrop, Remove
<1>3. CASE RTrackGoodbye
  BY <1>3 DEF RTrackGoodbye, RegistryInv, RemovalInv
<1>4. CASE RNotified \/ ENotified
  BY <1>4 DEF RNotified, ENotified, Done
<1>5. ASSUME NEW s \in Sessions, NEW k \in Keys, NEW typ \in MsgTypes,
             RReceive(s, k, typ)
      PROVE  UNCHANGED <<peers, rGone, eGone>>
  BY <1>5 DEF RReceive
<1>8. ASSUME NEW s \in Sessions, LoseHello(s) PROVE UNCHANGED <<peers, rGone, eGone>>
  BY <1>8 DEF LoseHello
<1>9. ASSUME NEW k \in Keys, RPeerGone(k) PROVE UNCHANGED <<peers, rGone, eGone>>
  BY <1>9 DEF RPeerGone
<1>6. CASE \/ RRecvFails \/ RTrackRefuse \/ RSendIn \/ RLoad \/ RReply \/ RReplyFails
           \/ RUnlock \/ ELock \/ EUnlock \/ OStep
  BY <1>6 DEF RRecvFails, RTrackRefuse, RSendIn, RLoad, RReply, RReplyFails, RUnlock,
     Done, ELock, EUnlock, OStep, OTake, OSnap, OSend, OSent
<1>7. ASSUME NEW d \in 1..PeerTimeout, Tick(d) PROVE UNCHANGED <<peers, rGone, eGone>>
  BY <1>7 DEF Tick
<1>10. CASE UNCHANGED vars \/ TRecv \/ TSend
  BY <1>10 DEF vars, TRecv, TakeIn, TSend, SendTailscaleNodeUpdate
<1> QED
  BY <1>1, <1>2, <1>3, <1>4, <1>5, <1>6, <1>7, <1>8, <1>9, <1>10
     DEF RStep, EStep

LEMMA LeaseStepHandlers ==
  ASSUME HostTypeOK, RegistryInv, LeaseInv,
         OpenUDP \/ \E s \in Sessions : RClosed(s) \/ EClosed(s)
  PROVE  LeaseInv'
<1> USE DEF LeaseInv, LeaseScoped, ListenerIffLeased, Tracked, registryVars, oVars,
        eVars, rVars
<1>0. udpPorts \in [Ports -> SUBSET Sessions] /\ listeners \subseteq Ports
  BY DEF HostTypeOK, LeaseTypeOK
<1>1. CASE OpenUDP
  <2>1. UNCHANGED <<peers, rGone, eGone>> /\ rmsg.id \in Tracked
    BY <1>1 DEF OpenUDP, ROpened, RegistryInv, ServedInv
  <2>2. ASSUME NEW p \in Ports, JoinUDP(rmsg.id, p) PROVE LeaseInv'
    BY <1>0, <2>1, <2>2 DEF JoinUDP
  <2>3. ASSUME NEW p \in Ports, ListenUDP(rmsg.id, p) PROVE LeaseInv'
    BY <1>0, <2>1, <2>3 DEF ListenUDP
  <2>4. CASE RefuseUDP
    BY <2>1, <2>4 DEF RefuseUDP, leaseVars
  <2> QED
    BY <1>1, <2>2, <2>3, <2>4 DEF OpenUDP
<1>2. ASSUME NEW s \in Sessions, CloseUDPSession(s) PROVE ListenerIffLeased'
  BY <1>0, <1>2 DEF CloseUDPSession
<1>3. ASSUME NEW s \in Sessions, CloseUDPSession(s), peers' = peers,
             (rGone \cup eGone) \ {s} \subseteq (rGone \cup eGone)'
      PROVE  LeaseScoped'
  BY <1>0, <1>3 DEF CloseUDPSession
<1>4. ASSUME NEW s \in Sessions, RClosed(s) \/ EClosed(s) PROVE LeaseInv'
  BY <1>2, <1>3, <1>4 DEF RClosed, RNotify, EClosed, ENotify
<1> QED
  BY <1>1, <1>4

LEMMA LeaseStep == HostInv /\ [HostNext]_hostVars => LeaseInv'
<1> SUFFICES ASSUME HostInv, [HostNext]_hostVars PROVE LeaseInv'
  OBVIOUS
<1>1. HostTypeOK /\ RegistryInv /\ LeaseInv
  BY DEF HostInv, RegistryInv, LeaseInv
<1>2. CASE OpenUDP \/ \E s \in Sessions : RClosed(s) \/ EClosed(s)
  BY <1>1, <1>2, LeaseStepHandlers
<1>3. CASE ~(OpenUDP \/ \E s \in Sessions : RClosed(s) \/ EClosed(s))
  BY <1>1, <1>3, LeaseStepOverlay
     DEF HostNext, R, E, O, Ticks, T, TRecv, TSend, Handlers, Network, OverlayOnly,
         ControlOnly, hostVars
<1> QED
  BY <1>2, <1>3

-----------------------------------------------------------------------------
(* Versions of our node. *)

LEMMA VersionStepOverlay ==
  ASSUME HostTypeOK, RegistryInv, VersionInv, OverlayOnly,
         \/ RStep \/ EStep \/ OStep \/ \E d \in 1..PeerTimeout : Tick(d) \/ Network
  PROVE  VersionInv'
<1> USE DEF VersionInv, OverlayOnly, controlVars, leaseVars, registryVars, rVars, eVars,
        oVars
<1>0. /\ rNode \in Nat /\ lastNode \in Nat /\ node \in Nat /\ tNode \in Nat
      /\ offered \in [Sessions -> Nat]
      /\ out \in Seq(Nat)
  BY DEF HostTypeOK, ControlTypeOK
<1>1. ASSUME UNCHANGED <<lastNode, out, opc, oNode>>, rNode' \in {rNode, 0},
             offered' = offered
      PROVE  VersionInv'
  BY <1>0, <1>1
<1>2. CASE RLoad
  BY <1>0, <1>2 DEF RLoad
<1>3. CASE RReply \/ RReplyFails
  <2>1. UNCHANGED <<lastNode, out, opc, oNode, node, notifying, tpc, tNode>> /\ rNode' = 0
    BY <1>3 DEF RReply, RReplyFails, Done
  <2>2. \A s \in Sessions : offered'[s] <= lastNode
    BY <1>0, <1>3, Handled DEF RReply, RReplyFails, Offer, Newer
  <2> QED
    BY <1>0, <2>1, <2>2
<1>4. CASE OTake
  <2>1. /\ lastNode' = Head(out) /\ oNode' = Head(out) /\ out' = Tail(out)
        /\ out # << >> /\ opc' = "snap"
    BY <1>4 DEF OTake
  <2>2. Head(out) = out[1] /\ 1 \in 1..Len(out) /\ Len(Tail(out)) = Len(out) - 1
        /\ Len(out) \in Nat
    BY <1>0, <2>1
  <2>3. \A i \in 1..Len(out') : out'[i] = out[i + 1] /\ i + 1 \in 1..Len(out)
    BY <1>0, <2>1, <2>2
  <2>4. lastNode <= lastNode' /\ lastNode' <= node
    BY <2>1, <2>2
  <2>5. \A i \in 1..Len(out') : lastNode' <= out'[i] /\ out'[i] <= node
    BY <2>1, <2>2, <2>3
  <2>6. UNCHANGED <<node, notifying, tpc, tNode, rNode, offered>> /\ lastNode' \in Nat
    BY <1>0, <1>4, <2>1, <2>2 DEF OTake
  <2>7. \A i, j \in 1..Len(out') : i <= j => out'[i] <= out'[j]
    BY <2>2, <2>3
  <2>8. tpc = "send" => \A i \in 1..Len(out') : out'[i] <= tNode
    BY <2>3
  <2>9. tpc = "send" => lastNode' <= tNode
    BY <2>1, <2>2
  <2>10. rNode <= lastNode' /\ \A s \in Sessions : offered[s] <= lastNode'
    BY <1>0, <2>4, <2>6
  <2> QED
    BY <2>1, <2>4, <2>5, <2>6, <2>7, <2>8, <2>9, <2>10
<1>5. CASE OSnap \/ OSent
  BY <1>0, <1>5 DEF OSnap, OSent
<1>6. ASSUME NEW s \in Sessions, OSend(s) PROVE VersionInv'
  BY <1>0, <1>6 DEF OSend, Offer, Newer
<1>7. ASSUME NEW s \in Sessions, NEW k \in Keys, NEW typ \in MsgTypes,
             RReceive(s, k, typ)
      PROVE  VersionInv'
  BY <1>1, <1>7 DEF RReceive
<1>8. ASSUME NEW k \in Keys, RPeerGone(k) PROVE VersionInv'
  BY <1>1, <1>8 DEF RPeerGone
<1>9. ASSUME NEW s \in Sessions, RDrop(s) \/ EDrop(s) \/ LoseHello(s) PROVE VersionInv'
  BY <1>1, <1>9 DEF RDrop, EDrop, LoseHello
<1>10. CASE \/ RRecvFails \/ RTrackGoodbye \/ RTrackRefuse \/ RTrack \/ RSendIn
            \/ RUnlock \/ RNotified \/ ELock \/ EUnlock \/ ENotified
  BY <1>1, <1>10 DEF RRecvFails, RTrackGoodbye, RTrackRefuse, RTrack, RSendIn, RUnlock,
     RNotified, Done, ELock, EUnlock, ENotified
<1>11. ASSUME NEW d \in 1..PeerTimeout, Tick(d) PROVE VersionInv'
  BY <1>1, <1>11 DEF Tick
<1> QED
  BY <1>2, <1>3, <1>4, <1>5, <1>6, <1>7, <1>8, <1>9, <1>10, <1>11
     DEF RStep, EStep, OStep, Network

LEMMA VersionStepOthers ==
  ASSUME HostTypeOK, VersionInv,
         \/ OpenUDP \/ T \/ Handlers \/ UNCHANGED hostVars
         \/ \E s \in Sessions : RClosed(s) \/ EClosed(s)
  PROVE  VersionInv'
<1> USE DEF VersionInv
<1>0. /\ rNode \in Nat /\ lastNode \in Nat /\ node \in Nat /\ tNode \in Nat
      /\ notifying \in Nat
      /\ offered \in [Sessions -> Nat]
      /\ out \in Seq(Nat)
  BY DEF HostTypeOK, ControlTypeOK
<1>1. CASE OpenUDP
  BY <1>1 DEF OpenUDP, ROpened, registryVars, oVars, eVars, controlVars
<1>2. ASSUME NEW s \in Sessions, RClosed(s) \/ EClosed(s) PROVE VersionInv'
  BY <1>2 DEF RClosed, RNotify, EClosed, ENotify, registryVars, oVars, eVars, rVars,
     controlVars
<1>3. CASE TRecv
  BY <1>3 DEF TRecv, TakeIn, TApply, registryVars, oVars, eVars, rVars
<1>4. CASE TSend
  <2>1. /\ tpc = "send" /\ tpc' = "select" /\ out' = Append(out, tNode)
        /\ UNCHANGED <<node, notifying, lastNode, oNode, opc, rNode, offered>>
    BY <1>4 DEF TSend, SendTailscaleNodeUpdate, TSent, oVars, rVars
  <2>2. Len(out') = Len(out) + 1 /\ Len(out) \in Nat
    BY <1>0, <2>1
  <2>3. \A i \in 1..Len(out') : IF i = Len(out) + 1 THEN out'[i] = tNode
                                ELSE out'[i] = out[i] /\ i \in 1..Len(out)
    BY <1>0, <2>1, <2>2
  <2>4. \A i \in 1..Len(out') : lastNode <= out'[i] /\ out'[i] <= node
    BY <2>1, <2>3
  <2>5. \A i, j \in 1..Len(out') : i <= j => out'[i] <= out'[j]
    BY <1>0, <2>1, <2>2, <2>3
  <2> QED
    BY <2>1, <2>4, <2>5
<1>5. CASE (TTakeToken \/ TLoad) /\ ControlOnly
  BY <1>0, <1>5 DEF TTakeToken, TLoad, ControlOnly, vars
<1>6. CASE Handlers
  BY <1>0, <1>6 DEF Handlers, StoreNode, RegisterExpired, NotifyUpdate, ControlOnly, vars
<1>7. CASE UNCHANGED hostVars
  BY <1>7 DEF hostVars, vars, controlVars
<1> QED
  BY <1>1, <1>2, <1>3, <1>4, <1>5, <1>6, <1>7 DEF T

LEMMA VersionStep == HostInv /\ [HostNext]_hostVars => VersionInv'
<1> SUFFICES ASSUME HostInv, [HostNext]_hostVars PROVE VersionInv'
  OBVIOUS
<1>1. HostTypeOK /\ RegistryInv /\ VersionInv
  BY DEF HostInv, RegistryInv
<1>2. CASE \/ OpenUDP \/ T \/ Handlers \/ UNCHANGED hostVars
           \/ \E s \in Sessions : RClosed(s) \/ EClosed(s)
  BY <1>1, <1>2, VersionStepOthers
<1>3. CASE /\ OverlayOnly
           /\ \/ RStep \/ EStep \/ OStep \/ (\E d \in 1..PeerTimeout : Tick(d)) \/ Network
  BY <1>1, <1>3, VersionStepOverlay
<1> QED
  BY <1>2, <1>3 DEF HostNext, R, E, O, Ticks, Network

-----------------------------------------------------------------------------
(* The fan-out. *)

(* R's steps: registering comes before loading lastNode for the reply.       *)
LEMMA FanoutStepR ==
  ASSUME HostTypeOK, RegistryInv, VersionInv, NodeFanout, RStep PROVE NodeFanout'
<1> USE DEF NodeFanout, Tracked, registryVars, oVars, eVars
<1>0. /\ rNode \in Nat /\ lastNode \in Nat /\ rNode <= lastNode
      /\ offered \in [Sessions -> Nat] /\ \A s \in Sessions : offered[s] <= lastNode
      /\ peers \in [Sessions -> Keys \cup {Absent}]
      /\ HandlesPacket
  BY DEF HostTypeOK, VersionInv, RegistryInv
<1>1. ASSUME UNCHANGED <<lastNode, opc, oTo, offered>>,
             \A s \in Sessions : peers'[s] # Absent => peers[s] # Absent,
             rpc \notin {"load", "reply"}
      PROVE  NodeFanout'
  BY <1>1
<1>2. CASE RTrack
  <2>1. ASSUME NEW s \in Tracked', s \notin Tracked
        PROVE  rpc' = "load" /\ rmsg'.id = s
    BY <1>0, <1>2, <2>1, Handled DEF RTrack, HandlerOf
  <2>2. UNCHANGED <<lastNode, opc, oTo, offered>> /\ rpc = "lock"
    BY <1>2 DEF RTrack
  <2> QED
    BY <2>1, <2>2
<1>3. CASE RLoad
  BY <1>3 DEF RLoad
<1>4. CASE RReply \/ RReplyFails
  BY <1>0, <1>4, Handled DEF RReply, RReplyFails, Offer, Newer, Done
<1>5. ASSUME NEW s \in Sessions, NEW k \in Keys, NEW typ \in MsgTypes,
             RReceive(s, k, typ)
      PROVE  NodeFanout'
  BY <1>1, <1>5 DEF RReceive
<1>6. ASSUME NEW k \in Keys, RPeerGone(k) PROVE NodeFanout'
  BY <1>1, <1>6 DEF RPeerGone
<1>7. ASSUME NEW s \in Sessions, RDrop(s) PROVE NodeFanout'
  BY <1>0, <1>1, <1>7 DEF RDrop, Remove
<1>8. CASE \/ RRecvFails \/ RTrackGoodbye \/ RTrackRefuse \/ RSendIn
           \/ RUnlock \/ RNotified
  BY <1>1, <1>8 DEF RRecvFails, RTrackGoodbye, RTrackRefuse, RSendIn, RUnlock, RNotified
<1> QED
  BY <1>2, <1>3, <1>4, <1>5, <1>6, <1>7, <1>8 DEF RStep

(* O's steps: storing lastNode comes before reading the registry.            *)
LEMMA FanoutStepO ==
  ASSUME HostTypeOK, VersionInv, NodeFanout, OStep PROVE NodeFanout'
<1> USE DEF NodeFanout, Tracked, registryVars, rVars, eVars
<1>0. /\ offered \in [Sessions -> Nat] /\ lastNode \in Nat
      /\ \A s \in Sessions : offered[s] <= lastNode
      /\ opc # "idle" => oNode = lastNode
  BY DEF HostTypeOK, VersionInv
<1>1. CASE OTake
  BY <1>1 DEF OTake
<1>2. CASE OSnap
  BY <1>2 DEF OSnap
<1>3. ASSUME NEW s \in Sessions, OSend(s) PROVE NodeFanout'
  BY <1>0, <1>3 DEF OSend, Offer, Newer
<1>4. CASE OSent
  BY <1>4 DEF OSent
<1> QED
  BY <1>1, <1>2, <1>3, <1>4 DEF OStep

LEMMA FanoutStepOthers ==
  ASSUME HostTypeOK, RegistryInv, NodeFanout,
         \/ EStep \/ (\E d \in 1..PeerTimeout : Tick(d)) \/ Network
         \/ OpenUDP \/ T \/ Handlers \/ UNCHANGED hostVars
         \/ \E s \in Sessions : RClosed(s) \/ EClosed(s)
  PROVE  NodeFanout'
<1> USE DEF NodeFanout, Tracked, registryVars, oVars, eVars, rVars
<1>0. peers \in [Sessions -> Keys \cup {Absent}]
  BY DEF HostTypeOK
<1>1. ASSUME UNCHANGED <<lastNode, opc, oTo, offered, rmsg, rNode>>,
             \A s \in Sessions : peers'[s] # Absent => peers[s] # Absent,
             rpc' = rpc \/ rpc \notin {"load", "reply"}
      PROVE  NodeFanout'
  BY <1>1
<1>2. ASSUME NEW s \in Sessions, EDrop(s) PROVE NodeFanout'
  BY <1>0, <1>1, <1>2 DEF EDrop, Remove
<1>3. CASE ELock \/ EUnlock \/ ENotified
  BY <1>1, <1>3 DEF ELock, EUnlock, ENotified
<1>4. ASSUME NEW d \in 1..PeerTimeout, Tick(d) PROVE NodeFanout'
  BY <1>1, <1>4 DEF Tick
<1>5. CASE Network
  BY <1>1, <1>5 DEF Network, LoseHello
<1>6. CASE OpenUDP
  BY <1>1, <1>6 DEF OpenUDP, ROpened
<1>7. CASE T
  BY <1>1, <1>7 DEF T, TRecv, TakeIn, TSend, SendTailscaleNodeUpdate, ControlOnly, vars
<1>8. CASE Handlers \/ UNCHANGED hostVars
  BY <1>1, <1>8 DEF Handlers, ControlOnly, hostVars, vars
<1>9. ASSUME NEW s \in Sessions, RClosed(s) \/ EClosed(s) PROVE NodeFanout'
  BY <1>1, <1>9 DEF RClosed, RNotify, EClosed, ENotify
<1> QED
  BY <1>2, <1>3, <1>4, <1>5, <1>6, <1>7, <1>8, <1>9 DEF EStep

LEMMA FanoutStep == HostInv /\ [HostNext]_hostVars => NodeFanout'
<1> SUFFICES ASSUME HostInv, [HostNext]_hostVars PROVE NodeFanout'
  OBVIOUS
<1>1. HostTypeOK /\ RegistryInv /\ VersionInv /\ NodeFanout
  BY DEF HostInv, RegistryInv
<1> QED
  BY <1>1, FanoutStepR, FanoutStepO, FanoutStepOthers DEF HostNext, R, E, O, Ticks

-----------------------------------------------------------------------------
(* The newest node is on its way. *)

LEMMA NeverLostStep == HostInv /\ [HostNext]_hostVars => NodeNeverLost'
<1> SUFFICES ASSUME HostInv, [HostNext]_hostVars PROVE NodeNeverLost'
  OBVIOUS
<1> USE DEF NodeNeverLost, LastPushed
<1>a. HostTypeOK /\ NodeNeverLost /\ VersionInv
  BY ONLY HostInv DEF HostInv
<1>0. /\ node \in Nat /\ lastNode \in Nat /\ notifying \in Nat
      /\ out \in Seq(Nat)
      /\ tpc \in {"select", "load", "send"}
  BY <1>a DEF HostTypeOK, ControlTypeOK
<1>1. ASSUME UNCHANGED <<node, notifying, nodeUpdate, tpc, tNode, out, lastNode>>
      PROVE  NodeNeverLost'
  BY <1>a, <1>0, <1>1
<1>2. CASE TSend
  <2>1. /\ out' = Append(out, tNode) /\ tpc = "send" /\ tpc' = "select"
        /\ UNCHANGED <<node, notifying, nodeUpdate>>
    BY <1>2 DEF TSend, SendTailscaleNodeUpdate, TSent
  <2>2. out' # << >> /\ out'[Len(out')] = tNode
    <3>1. tNode \in Nat
      BY <1>a DEF HostTypeOK, ControlTypeOK
    <3>2. out' \in Seq(Nat) /\ Len(out') = Len(out) + 1 /\ out'[Len(out) + 1] = tNode
      BY <1>0, <2>1, <3>1, AppendProperties
    <3> QED
      BY <1>0, <3>2, NonEmpty
  <2> QED
    BY <1>a, <1>0, <2>1, <2>2
<1>3. CASE TTakeToken /\ ControlOnly
  BY <1>3 DEF TTakeToken
<1>4. CASE TLoad /\ ControlOnly
  <2>1. CASE node = 0
    <3>1. lastNode = 0 /\ \A i \in 1..Len(out) : out[i] = 0
      BY <1>a, <1>0, <2>1 DEF VersionInv
    <3>2. tpc' = "select" /\ UNCHANGED <<node, out, lastNode>>
      BY <1>4, <2>1 DEF TLoad, ControlOnly, vars
    <3>3. out # << >> => Len(out) \in 1..Len(out)
      BY <1>0
    <3> QED
      BY <2>1, <3>1, <3>2, <3>3
  <2>2. CASE node # 0
    BY <1>4, <2>2 DEF TLoad
  <2> QED
    BY <2>1, <2>2
<1>5. CASE OTake /\ OverlayOnly
  <2>1. /\ out # << >> /\ out' = Tail(out) /\ lastNode' = Head(out)
        /\ UNCHANGED <<node, notifying, nodeUpdate, tpc, tNode>>
    BY <1>5 DEF OTake, OverlayOnly, controlVars
  <2>2. CASE Len(out) = 1
    <3>1. out' = << >> /\ lastNode' = out[Len(out)]
      BY <1>a, <1>0, <2>1, <2>2
    <3> QED
      BY <1>a, <1>0, <2>1, <2>2, <3>1
  <2>3. CASE Len(out) > 1
    <3>1. Len(out) \in Nat
      BY <1>0, NonEmpty
    <3>2. out' # << >> /\ out'[Len(out')] = out[Len(out)]
      <4>1. /\ out' \in Seq(Nat) /\ Len(out') = Len(out) - 1
            /\ \A i \in 1..Len(out') : out'[i] = out[i + 1]
        BY <1>0, <2>1, HeadTailProperties
      <4> QED
        BY <2>3, <3>1, <4>1, NonEmpty
    <3> QED
      BY <1>a, <1>0, <2>1, <3>1, <3>2
  <2>4. Len(out) = 1 \/ Len(out) > 1
    <3>1. Len(out) \in Nat /\ Len(out) > 0
      BY <1>0, <2>1, NonEmpty
    <3> QED
      BY <3>1, OneOrMore
  <2> QED
    BY <2>2, <2>3, <2>4
<1>6. CASE Handlers
  BY <1>a, <1>0, <1>6 DEF Handlers, StoreNode, RegisterExpired, NotifyUpdate
<1>7. CASE TRecv
  BY <1>1, <1>7 DEF TRecv, TakeIn, TApply, oVars
<1>8. CASE OpenUDP
  BY <1>1, <1>8 DEF OpenUDP, ROpened, oVars, controlVars
<1>9. ASSUME NEW s \in Sessions, RClosed(s) \/ EClosed(s) PROVE NodeNeverLost'
  BY <1>1, <1>9 DEF RClosed, RNotify, EClosed, ENotify, oVars, controlVars
<1>10. CASE UNCHANGED hostVars
  BY <1>1, <1>10 DEF hostVars, vars, controlVars
<1>11. CASE (EStep \/ Network) /\ OverlayOnly
  BY <1>1, <1>11 DEF EStep, ELock, EDrop, EUnlock, ENotified, Network, LoseHello, oVars,
     OverlayOnly, controlVars
<1>12. CASE Ticks
  BY <1>1, <1>12 DEF Ticks, Tick, oVars, OverlayOnly, controlVars
<1>13. CASE (OSnap \/ (\E s \in Sessions : OSend(s)) \/ OSent) /\ OverlayOnly
  BY <1>1, <1>13 DEF OSnap, OSend, OSent, OverlayOnly, controlVars
<1>14. CASE RStep /\ OverlayOnly
  BY <1>1, <1>14 DEF RStep, RReceive, RRecvFails, RTrackGoodbye, RTrackRefuse, RTrack,
     RSendIn, RLoad, RReply, RReplyFails, RPeerGone, RDrop, RUnlock, RNotified, oVars,
     OverlayOnly, controlVars
<1> QED
  BY <1>2, <1>3, <1>4, <1>5, <1>6, <1>7, <1>8, <1>9, <1>10, <1>11, <1>12, <1>13, <1>14
     DEF HostNext, R, E, O, OStep, T, Network, Ticks

-----------------------------------------------------------------------------
(* Ghost peers. *)

(* Appending an update for s settles what the store will hold for s and       *)
(* leaves the other sessions alone.                                         *)
LEMMA WillHoldAppend ==
  ASSUME in \in Seq(PeerUpdates), NEW s \in Sessions, NEW v \in {"node", "nil"},
         in' = Append(in, [id |-> s, node |-> v]), nodes' = nodes,
         NEW q \in Sessions
  PROVE  WillHold(q)' <=> IF q = s THEN v = "node" ELSE WillHold(q)
<1> DEFINE n == Len(in)
<1>1. n \in Nat /\ Len(in') = n + 1
  BY DEF PeerUpdates
<1>2. in'[n + 1] = [id |-> s, node |-> v] /\ \A i \in 1..n : in'[i] = in[i]
  BY DEF PeerUpdates
<1> HIDE DEF n
<1>3. CASE q = s
  <2>1. n + 1 \in 1..Len(in') /\ in'[n + 1].id = q /\ in'[n + 1].node = v
    BY <1>1, <1>2, <1>3
  <2>2. ASSUME NEW i \in 1..Len(in'), in'[i].id = q,
               \A j \in (i + 1)..Len(in') : in'[j].id # q
        PROVE  i = n + 1
    BY <1>1, <2>1, <2>2
  <2>3. \A j \in (n + 2)..Len(in') : in'[j].id # q
    BY <1>1
  <2> QED
    BY <1>1, <1>3, <2>1, <2>2, <2>3 DEF WillHold
<1>4. CASE q # s
  <2>1. \A i \in 1..Len(in') : in'[i].id = q => i \in 1..n /\ in[i] = in'[i]
    BY <1>1, <1>2, <1>4
  <2>2. \A i \in 1..n : i \in 1..Len(in') /\ in[i] = in'[i]
    BY <1>1, <1>2
  <2> QED
    BY <1>1, <1>4, <2>1, <2>2 DEF WillHold, n
<1> QED
  BY <1>3, <1>4

(* Taking the oldest update and applying it changes nothing in the end.       *)
LEMMA WillHoldTake ==
  ASSUME in \in Seq(PeerUpdates), in # << >>, in' = Tail(in),
         nodes' = IF Head(in).node = "nil" THEN nodes \ {Head(in).id}
                                           ELSE nodes \cup {Head(in).id},
         NEW q \in Sessions
  PROVE  WillHold(q)' <=> WillHold(q)
<1>1. /\ Len(in) \in Nat /\ Len(in) > 0 /\ Len(in') = Len(in) - 1
      /\ \A i \in 1..Len(in') : in'[i] = in[i + 1]
      /\ Head(in) = in[1]
  BY HeadTailProperties, NonEmpty
<1>2. \A i \in 1..Len(in) : i = 1 \/ (i - 1 \in 1..Len(in') /\ in[i] = in'[i - 1])
  BY <1>1
<1>3. \A i \in 1..Len(in') : i + 1 \in 1..Len(in) /\ in'[i] = in[i + 1]
  BY <1>1
<1>4. CASE \E i \in 1..Len(in') : in'[i].id = q
  <2>1. \E i \in 1..Len(in) : in[i].id = q
    BY <1>3, <1>4
  <2>2. ASSUME NEW i \in 1..Len(in'), in'[i].id = q, in'[i].node # "nil",
               \A j \in (i + 1)..Len(in') : in'[j].id # q
        PROVE  WillHold(q)
    <3>1. i + 1 \in 1..Len(in) /\ in[i + 1].id = q /\ in[i + 1].node # "nil"
      BY <1>3, <2>2
    <3>2. ASSUME NEW j \in (i + 2)..Len(in) PROVE in[j].id # q
      <4>1. j - 1 \in (i + 1)..Len(in') /\ in[j] = in'[j - 1]
        BY <1>1, <1>2
      <4> QED
        BY <2>2, <4>1
    <3> QED
      BY <2>1, <3>1, <3>2 DEF WillHold
  <2>3. ASSUME NEW i \in 1..Len(in), in[i].id = q, in[i].node # "nil",
               \A j \in (i + 1)..Len(in) : in[j].id # q
        PROVE  WillHold(q)'
    <3>1. PICK k \in 1..Len(in') : in'[k].id = q
      BY <1>4
    <3>2. i # 1
      BY <1>1, <1>3, <2>3, <3>1
    <3>3. i - 1 \in 1..Len(in') /\ in'[i - 1] = in[i]
      BY <1>2, <3>2
    <3>4. ASSUME NEW j \in ((i - 1) + 1)..Len(in') PROVE in'[j].id # q
      <4>1. j + 1 \in (i + 1)..Len(in) /\ in'[j] = in[j + 1]
        BY <1>1, <1>3
      <4> QED
        BY <2>3, <4>1
    <3> QED
      BY <1>4, <2>3, <3>3, <3>4 DEF WillHold
  <2> QED
    BY <1>4, <2>1, <2>2, <2>3 DEF WillHold
<1>5. CASE ~\E i \in 1..Len(in') : in'[i].id = q
  <2>1. WillHold(q)' <=> q \in nodes'
    BY <1>5 DEF WillHold
  <2>2. \A i \in 1..Len(in) : in[i].id = q => i = 1
    BY <1>2, <1>5
  <2>3. CASE Head(in).id = q
    <3>1. 1 \in 1..Len(in) /\ in[1].id = q
      BY <1>1, <2>3
    <3>2. WillHold(q) <=> Head(in).node # "nil"
      BY <1>1, <2>2, <3>1 DEF WillHold
    <3> QED
      BY <2>1, <2>3, <3>2
  <2>4. CASE Head(in).id # q
    <3>1. WillHold(q) <=> q \in nodes
      BY <1>1, <2>2, <2>4 DEF WillHold
    <3> QED
      BY <2>1, <2>4, <3>1
  <2> QED
    BY <2>3, <2>4
<1> QED
  BY <1>4, <1>5

LEMMA GhostStep == HostInv /\ [HostNext]_hostVars => NoGhostPeer'
<1> SUFFICES ASSUME HostInv, [HostNext]_hostVars PROVE NoGhostPeer'
  OBVIOUS
<1>0. /\ HostTypeOK /\ RegistryInv /\ NoGhostPeer
      /\ in \in Seq(PeerUpdates)
      /\ peers \in [Sessions -> Keys \cup {Absent}]
  BY DEF HostInv, RegistryInv, HostTypeOK
<1> USE DEF registryVars, oVars, eVars, rVars
<1>1. ASSUME UNCHANGED <<in, nodes>>, Tracked \subseteq Tracked' PROVE NoGhostPeer'
  BY <1>0, <1>1 DEF NoGhostPeer, WillHold, Tracked
<1>2. ASSUME UNCHANGED <<in, nodes, peers>> PROVE NoGhostPeer'
  BY <1>1, <1>2 DEF Tracked
<1>3. CASE RSendIn /\ OverlayOnly
  <2>1. /\ in' = Append(in, [id |-> rmsg.id, node |-> "node"]) /\ nodes' = nodes
        /\ peers' = peers
    BY <1>3 DEF RSendIn, SendIn, OverlayOnly, controlVars
  <2>2. rmsg.id \in Tracked /\ rmsg.id \in Sessions
    BY <1>0, <1>3, Handled DEF RSendIn, RegistryInv, ServedInv
  <2>3. \A q \in Sessions : WillHold(q)' => q = rmsg.id \/ WillHold(q)
    BY <1>0, <2>1, <2>2, WillHoldAppend
  <2> QED
    BY <1>0, <2>1, <2>2, <2>3 DEF NoGhostPeer, Tracked
<1>4. ASSUME NEW s \in Sessions, Remove(s), nodes' = nodes PROVE NoGhostPeer'
  <2>1. /\ in' = Append(in, [id |-> s, node |-> "nil"])
        /\ peers' = [peers EXCEPT ![s] = Absent]
    BY <1>4 DEF Remove, SendIn
  <2>2. \A q \in Sessions : WillHold(q)' => q # s /\ WillHold(q)
    BY <1>0, <1>4, <2>1, WillHoldAppend
  <2> QED
    BY <1>0, <2>1, <2>2 DEF NoGhostPeer, Tracked
<1>5. CASE TRecv
  <2>1. /\ in # << >> /\ in' = Tail(in) /\ peers' = peers
        /\ nodes' = IF Head(in).node = "nil" THEN nodes \ {Head(in).id}
                                             ELSE nodes \cup {Head(in).id}
    BY <1>5 DEF TRecv, TakeIn, TApply
  <2>2. \A q \in Sessions : WillHold(q)' <=> WillHold(q)
    BY <1>0, <2>1, WillHoldTake
  <2> QED
    BY <1>0, <2>1, <2>2 DEF NoGhostPeer, Tracked
<1>6. CASE RTrack /\ OverlayOnly
  <2>1. UNCHANGED <<in, nodes>> /\ peers' = [peers EXCEPT ![rmsg.id] = rmsg.key]
    BY <1>6 DEF RTrack, OverlayOnly, controlVars
  <2>2. rmsg.key # Absent
    BY <1>0, <1>6, Handled DEF RTrack, RegistryInv
  <2> QED
    BY <1>0, <1>1, <2>1, <2>2 DEF Tracked
<1>7. ASSUME NEW s \in Sessions, (RDrop(s) \/ EDrop(s)) /\ OverlayOnly PROVE NoGhostPeer'
  BY <1>4, <1>7 DEF RDrop, EDrop, OverlayOnly, controlVars
<1>8. CASE /\ OverlayOnly
           /\ \/ RRecvFails \/ RTrackGoodbye \/ RTrackRefuse \/ RLoad \/ RReply
              \/ RReplyFails \/ RUnlock \/ RNotified \/ ELock \/ EUnlock \/ ENotified
  BY <1>2, <1>8 DEF RRecvFails, RTrackGoodbye, RTrackRefuse, RLoad, RReply, RReplyFails,
     RUnlock, RNotified, ELock, EUnlock, ENotified, OverlayOnly, controlVars
<1>9. ASSUME OverlayOnly, NEW s \in Sessions, NEW k \in Keys, NEW typ \in MsgTypes,
             RReceive(s, k, typ)
      PROVE  NoGhostPeer'
  BY <1>2, <1>9 DEF RReceive, OverlayOnly, controlVars
<1>10. ASSUME OverlayOnly, NEW k \in Keys, RPeerGone(k) PROVE NoGhostPeer'
  BY <1>2, <1>10 DEF RPeerGone, OverlayOnly, controlVars
<1>11. CASE (OStep \/ Network) /\ OverlayOnly
  BY <1>2, <1>11 DEF OStep, OTake, OSnap, OSend, OSent, Network, LoseHello, OverlayOnly,
     controlVars
<1>12. CASE Ticks
  BY <1>2, <1>12 DEF Ticks, Tick, OverlayOnly, controlVars
<1>13. CASE OpenUDP
  BY <1>2, <1>13 DEF OpenUDP, ROpened, controlVars
<1>14. ASSUME NEW s \in Sessions, RClosed(s) \/ EClosed(s) PROVE NoGhostPeer'
  BY <1>2, <1>14 DEF RClosed, RNotify, EClosed, ENotify, controlVars
<1>15. CASE TSend \/ ((TTakeToken \/ TLoad) /\ ControlOnly)
  BY <1>2, <1>15 DEF TSend, SendTailscaleNodeUpdate, TSent, TTakeToken, TLoad,
     ControlOnly, vars
<1>16. CASE Handlers \/ UNCHANGED hostVars
  BY <1>2, <1>16 DEF Handlers, StoreNode, RegisterExpired, NotifyUpdate, ControlOnly, hostVars, vars,
     controlVars
<1> QED
  BY <1>3, <1>5, <1>6, <1>7, <1>8, <1>9, <1>10, <1>11, <1>12, <1>13, <1>14, <1>15, <1>16
     DEF HostNext, R, E, O, T, RStep, EStep, Network

-----------------------------------------------------------------------------
(* HostInv is inductive. *)
THEOREM HostInvariant == HostSpec => []HostInv
<1>1. HostInv /\ [HostNext]_hostVars => HostInv'
  BY TypeStep, RegistryStep, LeaseStep, VersionStep, FanoutStep, NeverLostStep, GhostStep
     DEF HostInv, RegistryInv, LeaseInv
<1> QED
  BY InitInv, <1>1, PTL DEF HostSpec

(* Every variable of the host keeps its type; channels stay within capacity.  *)
THEOREM TypeCorrect == HostSpec => []HostTypeOK
<1>1. HostInv => HostTypeOK
  BY DEF HostInv
<1> QED
  BY <1>1, HostInvariant, PTL

(* The control store never ends up holding a session the registry let go.     *)
THEOREM NoGhosts == HostSpec => []NoGhostPeer
<1>1. HostInv => NoGhostPeer
  BY DEF HostInv
<1> QED
  BY <1>1, HostInvariant, PTL

(* Only registered sessions, or ones whose removal is being notified, hold    *)
(* UDP leases (closeUDPSession runs for every session that leaves).           *)
THEOREM Leases == HostSpec => []LeaseScoped
<1>1. HostInv => LeaseScoped
  BY DEF HostInv
<1> QED
  BY <1>1, HostInvariant, PTL

(* Listeners are open exactly for the leased ports, however many sessions     *)
(* join and leave one (openUDP, closeUDPSession).                           *)
THEOREM Listeners == HostSpec => []ListenerIffLeased
<1>1. HostInv => ListenerIffLeased
  BY DEF HostInv
<1> QED
  BY <1>1, HostInvariant, PTL

(* No registered session misses our newest node, whichever of the fan-out and *)
(* the hello's reply comes first.                                            *)
THEOREM Fanout == HostSpec => []NodeFanout
<1>1. HostInv => NodeFanout
  BY DEF HostInv
<1> QED
  BY <1>1, HostInvariant, PTL

(* The newest node is never lost between the handlers and the overlay.        *)
THEOREM NeverLost == HostSpec => []NodeNeverLost
<1>1. HostInv => NodeNeverLost
  BY DEF HostInv
<1> QED
  BY <1>1, HostInvariant, PTL

-----------------------------------------------------------------------------
(* Action properties. *)

Justified(s) ==
    \/ rmsg \in Packets /\ rmsg.typ = "Goodbye" /\ rmsg.id = s
    \/ rmsg \in GoneMessages /\ rmsg.key = peers[s]
    \/ epc = "drop" /\ age[s] = PeerTimeout

LEMMA RemovalStep ==
  ASSUME HostInv, HostNext, NEW s \in Sessions, s \in Tracked, peers'[s] = Absent
  PROVE  Justified(s)
<1>0. /\ HostTypeOK /\ RegistryInv /\ peers \in [Sessions -> Keys \cup {Absent}]
      /\ peers[s] # Absent
  BY DEF HostInv, RegistryInv, HostTypeOK, Tracked
<1> USE DEF registryVars, oVars, eVars, rVars
<1>1. peers' # peers
  BY <1>0
<1>2. ASSUME NEW q \in Sessions, RDrop(q) PROVE Justified(s)
  <2>1. s = q /\ q \in rLeft
    BY <1>0, <1>2 DEF RDrop, Remove
  <2> QED
    BY <1>0, <2>1 DEF RegistryInv, RemovalInv, Justified
<1>3. ASSUME NEW q \in Sessions, EDrop(q) PROVE Justified(s)
  <2>1. s = q /\ q \in eLeft /\ epc = "drop"
    BY <1>0, <1>3 DEF EDrop, Remove
  <2> QED
    BY <1>0, <2>1 DEF RegistryInv, RemovalInv, Justified
<1>4. CASE RTrack
  BY <1>0, <1>4, Handled DEF RTrack, RegistryInv
<1>5. CASE \/ RRecvFails \/ RTrackGoodbye \/ RTrackRefuse \/ RSendIn \/ RLoad \/ RReply
           \/ RReplyFails \/ RUnlock \/ RNotified \/ ELock \/ EUnlock \/ ENotified
  BY <1>1, <1>5 DEF RRecvFails, RTrackGoodbye, RTrackRefuse, RSendIn, RLoad, RReply,
     RReplyFails, RUnlock, RNotified, ELock, EUnlock, ENotified
<1>6. ASSUME NEW q \in Sessions, NEW k \in Keys, NEW typ \in MsgTypes,
             RReceive(q, k, typ)
      PROVE  FALSE
  BY <1>1, <1>6 DEF RReceive
<1>7. ASSUME NEW k \in Keys, RPeerGone(k) PROVE FALSE
  BY <1>1, <1>7 DEF RPeerGone
<1>8. CASE OStep \/ Network
  BY <1>1, <1>8 DEF OStep, OTake, OSnap, OSend, OSent, Network, LoseHello
<1>9. CASE Ticks \/ OpenUDP
  BY <1>1, <1>9 DEF Ticks, Tick, OpenUDP, ROpened
<1>10. ASSUME NEW q \in Sessions, RClosed(q) \/ EClosed(q) PROVE FALSE
  BY <1>1, <1>10 DEF RClosed, RNotify, EClosed, ENotify
<1>11. CASE T \/ Handlers
  BY <1>1, <1>11 DEF T, TRecv, TakeIn, TSend, SendTailscaleNodeUpdate, Handlers,
     ControlOnly, vars
<1> QED
  BY <1>2, <1>3, <1>4, <1>5, <1>6, <1>7, <1>8, <1>9, <1>10, <1>11
     DEF HostNext, R, E, O, RStep, EStep

(* A session leaves the registry only for a goodbye of its own, because DERP   *)
(* lost the key it was last heard from, or after the whole silence.           *)
THEOREM Removals == HostSpec => RemovalJustified
<1>1. HostInv /\ [HostNext]_hostVars =>
        [\A s \in Sessions : s \in Tracked /\ peers'[s] = Absent =>
            \/ rmsg \in Packets /\ rmsg.typ = "Goodbye" /\ rmsg.id = s
            \/ rmsg \in GoneMessages /\ rmsg.key = peers[s]
            \/ epc = "drop" /\ age[s] = PeerTimeout]_hostVars
  BY RemovalStep DEF Justified
<1> QED
  BY <1>1, HostInvariant, PTL DEF HostSpec, RemovalJustified

LEMMA CircularStep ==
  ASSUME HostInv, HostNext, CircularWait PROVE CircularWait'
<1>0. HostTypeOK /\ RegistryInv
  BY DEF HostInv, RegistryInv
<1> USE DEF CircularWait, registryVars, oVars, eVars, rVars
<1>1. /\ Len(in) = InCap /\ Len(out) = OutCap /\ tpc = "send" /\ opc = "snap"
      /\ ~(Len(in) < InCap) /\ ~(Len(out) < OutCap)
      /\ \/ rpc = "drop" /\ rLeft # {} /\ peerMu = "R" /\ epc # "drop"
         \/ epc = "drop" /\ eLeft # {} /\ peerMu = "E" /\ rpc # "drop"
  BY <1>0 DEF HostTypeOK, RegistryInv, MutexInv
<1>2. ASSUME UNCHANGED <<in, out, tpc, opc, peerMu, rLeft, eLeft>> PROVE CircularWait'
  BY <1>2
<1>3. ~TRecv /\ ~TSend /\ ~TTakeToken /\ ~TLoad
  BY <1>1 DEF TRecv, TApply, TSend, SendTailscaleNodeUpdate, TTakeToken, TLoad
<1>4. ~OStep
  BY <1>1 DEF OStep, OTake, OSnap, OSend, OSent
<1>5. \A s \in Sessions : ~RDrop(s) /\ ~EDrop(s)
  BY <1>1 DEF RDrop, EDrop, Remove, SendIn
<1>6. /\ ~RTrackGoodbye /\ ~RTrackRefuse /\ ~RTrack /\ ~RSendIn /\ ~RUnlock
      /\ ~ELock /\ ~EUnlock /\ \A k \in Keys : ~RPeerGone(k)
  BY <1>1 DEF RTrackGoodbye, RTrackRefuse, RTrack, RSendIn, SendIn, RUnlock, ELock,
     EUnlock, RPeerGone
<1>7. ASSUME OverlayOnly, NEW s \in Sessions, NEW k \in Keys, NEW typ \in MsgTypes,
             RReceive(s, k, typ)
      PROVE  CircularWait'
  BY <1>2, <1>7 DEF RReceive, OverlayOnly, controlVars
<1>8. CASE (RRecvFails \/ RLoad \/ RReply \/ RReplyFails \/ RNotified \/ ENotified) /\ OverlayOnly
  BY <1>2, <1>8 DEF RRecvFails, RLoad, RReply, RReplyFails, RNotified, ENotified,
     OverlayOnly, controlVars
<1>9. CASE Ticks \/ Network
  BY <1>2, <1>9 DEF Ticks, Tick, Network, LoseHello, OverlayOnly, controlVars
<1>10. CASE OpenUDP
  BY <1>2, <1>10 DEF OpenUDP, ROpened, controlVars
<1>11. ASSUME NEW s \in Sessions, RClosed(s) \/ EClosed(s) PROVE CircularWait'
  BY <1>2, <1>11 DEF RClosed, RNotify, EClosed, ENotify, controlVars
<1>12. CASE Handlers
  BY <1>2, <1>12 DEF Handlers, StoreNode, RegisterExpired, NotifyUpdate, ControlOnly, vars
<1> QED
  BY <1>3, <1>4, <1>5, <1>6, <1>7, <1>8, <1>9, <1>10, <1>11, <1>12
     DEF HostNext, R, E, O, T, RStep, EStep

(* The circular wait has no way out.                                          *)
THEOREM CircularWaitStays == HostSpec => CircularWaitIsForever
<1>1. HostInv /\ [HostNext]_hostVars => [CircularWait => CircularWait']_hostVars
  BY CircularStep
<1> QED
  BY <1>1, HostInvariant, PTL DEF HostSpec, CircularWaitIsForever
=============================================================================
