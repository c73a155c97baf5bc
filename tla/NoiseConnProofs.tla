--------------------------- MODULE NoiseConnProofs ---------------------------
(***************************************************************************)
(* Proofs about the control connection of NoiseConn, for every number of    *)
(* upgrade requests and of callers of Close.                                *)
(***************************************************************************)
EXTENDS NoiseConn, TLAPS

LEMMA NoiseInitial == NoiseInit => NoiseInv
  BY NoiseAssumption
     DEF NoiseInit, NoiseInv, NoiseTypeOK, Admitted, InBody, Serving, CloseReachesConnection

(* The handlers of the upgrade requests, and tailscaled. *)
LEMMA UpgradeStep ==
  ASSUME NoiseInv, NEW u \in Upgrades,
         Refuse(u) \/ Admit(u) \/ Upgrade(u) \/ TimedOut(u) \/ PeerCloses(u)
  PROVE  NoiseInv'
<1> USE NoiseAssumption
    DEF NoiseInv, NoiseTypeOK, Admitted, InBody, Serving, CloseReachesConnection, To
<1>1. CASE Refuse(u)
  BY <1>1 DEF Refuse
<1>2. CASE Admit(u)
  BY <1>2 DEF Admit
<1>3. CASE Accept(u)
  BY <1>3 DEF Accept
<1>4. CASE AcceptFails(u)
  BY <1>4 DEF AcceptFails
<1>5. CASE Record(u)
  BY <1>5 DEF Record
<1>6. CASE Check(u)
  BY <1>6 DEF Check
<1>7. CASE Served(u)
  BY <1>7 DEF Served
<1>8. CASE Forget(u)
  BY <1>8 DEF Forget
<1>9. CASE Hangup(u)
  BY <1>9 DEF Hangup
<1>10. CASE Release(u)
  <2>1. \A v \in Upgrades : v # u => ~Admitted(v)
    BY <1>10 DEF Release
  <2>2. \A v \in Upgrades : ~Admitted(v)' /\ (Serving(v) => v # u)
    BY <1>10, <2>1 DEF Release
  <2>3. \A v \in Upgrades : Serving(v) => Serving(v)'
    BY <1>10 DEF Release
  <2> QED
    BY <1>10, <2>1, <2>2, <2>3 DEF Release
<1>11. CASE PeerCloses(u)
  BY <1>11 DEF PeerCloses
<1>12. CASE TimedOut(u)
  BY <1>12 DEF TimedOut
<1> QED
  BY <1>1, <1>2, <1>3, <1>4, <1>5, <1>6, <1>7, <1>8, <1>9, <1>10, <1>11, <1>12 DEF Upgrade

(* Close and its callers. *)
LEMMA CloseStep ==
  ASSUME NoiseInv, NEW c \in Closers,
         CallClose(c) \/ Close(c) \/ CloseHTTP(c) \/ CloseListener(c)
  PROVE  NoiseInv'
<1> USE NoiseAssumption
    DEF NoiseInv, NoiseTypeOK, Admitted, InBody, Serving, CloseReachesConnection, Closing
<1>1. CASE CallClose(c)
  BY <1>1 DEF CallClose
<1>2. CASE Enter(c)
  BY <1>2 DEF Enter
<1>3. CASE Join(c)
  BY <1>3 DEF Join
<1>4. CASE CloseHTTP(c) \/ CloseListener(c)
  <2>1. PICK left \in SUBSET (Upgrades \ hijacked) : StopListening(c, left)
    BY <1>4 DEF CloseHTTP, CloseListener
  <2> QED
    BY <2>1 DEF StopListening
<1>5. CASE TakeConn(c)
  BY <1>5 DEF TakeConn
<1>6. CASE CloseConn(c)
  BY <1>6 DEF CloseConn
<1> QED
  BY <1>1, <1>2, <1>3, <1>4, <1>5, <1>6 DEF Close

LEMMA NoiseStep == NoiseInv /\ [NoiseNext]_noiseVars => NoiseInv'
<1> SUFFICES ASSUME NoiseInv, [NoiseNext]_noiseVars PROVE NoiseInv'
  OBVIOUS
<1>1. CASE ContextEnds
  BY <1>1 DEF ContextEnds, NoiseInv, NoiseTypeOK, Admitted, InBody, Serving,
     CloseReachesConnection
<1>2. CASE UNCHANGED noiseVars
  BY <1>2 DEF noiseVars, NoiseInv, NoiseTypeOK, Admitted, InBody, Serving,
     CloseReachesConnection
<1> QED
  BY <1>1, <1>2, UpgradeStep, CloseStep DEF NoiseNext

LEMMA NoiseInvariant == NoiseSpec => []NoiseInv
  BY NoiseInitial, NoiseStep, PTL DEF NoiseSpec

(* Two accepted control connections are never open at the same time.         *)
THEOREM OneConnection == NoiseSpec => []OneControlConnection
<1>1. NoiseInv => OneControlConnection
  BY DEF NoiseInv, OneControlConnection, NoiseTypeOK, Serving, Admitted
<1> QED
  BY <1>1, NoiseInvariant, PTL

(* Close reaches every connection that is being served, whenever it runs.    *)
THEOREM CloseReaches == NoiseSpec => []CloseReachesConnection
<1>1. NoiseInv => CloseReachesConnection
  BY DEF NoiseInv
<1> QED
  BY <1>1, NoiseInvariant, PTL
=============================================================================
