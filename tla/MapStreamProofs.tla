--------------------------- MODULE MapStreamProofs ---------------------------
(***************************************************************************)
(* Proofs about the map streams of MapStream, for every set of sessions,    *)
(* node ids, contents and handlers.                                         *)
(***************************************************************************)
EXTENDS MapStream, TLAPS

(* Only the store decides the snapshot. *)
LEMMA SnapshotType == ASSUME StreamTypeOK PROVE Snapshot \subseteq Nodes
  BY DEF StreamTypeOK, Snapshot

LEMMA IdsType == ASSUME NEW peers \in SUBSET Nodes PROVE Ids(peers) \subseteq NodeIds
  BY DEF Ids, Nodes

LEMMA SnapshotSame == ASSUME nodes' = nodes PROVE Snapshot' = Snapshot
  BY DEF Snapshot

(* What a response delivers is a set of nodes, among the old ones and its    *)
(* own.                                                                     *)
LEMMA DeliveredType ==
  ASSUME view \subseteq Nodes, NEW r \in Responses
  PROVE  Delivered(r) \subseteq Nodes
  BY DEF Delivered, Responses

LEMMA StreamInitial == StreamInit => StreamInv
<1> SUFFICES ASSUME StreamInit PROVE StreamInv
  OBVIOUS
<1>1. KeepAliveResponse \in Responses
  BY DEF KeepAliveResponse, Responses
<1>2. StreamTypeOK
  <2>1. /\ nodes \in [Sessions -> SUBSET Nodes]
        /\ known \in [Streams -> SUBSET NodeIds]
        /\ res \in [Streams -> Responses]
    BY <1>1 DEF StreamInit
  <2>2. stolen \in BOOLEAN
    BY DEF StreamInit
  <2> QED
    BY <2>1, <2>2 DEF StreamInit, StreamTypeOK
<1> QED
  BY <1>2 DEF StreamInit, StreamInv, Settled

(* A step that leaves alone what the promise depends on keeps the promise.   *)
LEMMA PromiseSame ==
  ASSUME UNCHANGED <<view, current>>,
         current # None => handler'[current] = handler[current] /\ res'[current] = res[current]
  PROVE  Promised' = Promised
  BY DEF Promised, Delivered

LEMMA TypeStep ==
  ASSUME StreamInv, [StreamNext]_streamVars
  PROVE  StreamTypeOK'
<1> USE DEF StreamInv, StreamTypeOK, streamVars
<1>1. KeepAliveResponse \in Responses
  BY DEF KeepAliveResponse, Responses
<1>2. Snapshot \subseteq Nodes /\ Ids(Snapshot) \subseteq NodeIds
  BY SnapshotType, IdsType
<1>3. ASSUME NEW s \in Sessions, NEW update \in Updates(s), Apply(s, update)
      PROVE  StreamTypeOK'
  <2>1. update \subseteq Nodes
    BY DEF Updates
  <2> QED
    BY <1>3, <2>1 DEF Apply
<1>4. CASE LeaveToken
  BY <1>4 DEF LeaveToken
<1>5. ASSUME NEW i \in Streams, Poll(i) PROVE StreamTypeOK'
  BY <1>5 DEF Poll
<1>6. ASSUME NEW i \in Streams, Start(i) PROVE StreamTypeOK'
  <2>1. [kind |-> "initial", peers |-> Snapshot, removed |-> {}] \in Responses
    BY <1>2 DEF Responses
  <2> QED
    BY <1>2, <1>6, <2>1 DEF Start
<1>7. ASSUME NEW i \in Streams, Write(i) PROVE StreamTypeOK'
  BY <1>1, <1>7, DeliveredType DEF Write
<1>8. ASSUME NEW i \in Streams, WriteFails(i) \/ Cancelled(i) PROVE StreamTypeOK'
  BY <1>1, <1>8 DEF WriteFails, Cancelled, Ends
<1>9. ASSUME NEW i \in Streams, TakeToken(i) PROVE StreamTypeOK'
  BY <1>9 DEF TakeToken
<1>10. ASSUME NEW i \in Streams, ReadStore(i) PROVE StreamTypeOK'
  <2> DEFINE r == [kind |-> "peers", peers |-> Snapshot,
                   removed |-> IF Snapshot = {} THEN known[i] ELSE {}]
  <2>1. r \in Responses
    BY <1>2 DEF Responses
  <2> QED
    BY <1>2, <1>10, <2>1 DEF ReadStore
<1>11. ASSUME NEW i \in Streams, KeepAlive(i) PROVE StreamTypeOK'
  BY <1>11 DEF KeepAlive
<1>12. CASE Hangup
  BY <1>12 DEF Hangup
<1>13. CASE UNCHANGED streamVars
  BY <1>13
<1> QED
  BY <1>3, <1>4, <1>5, <1>6, <1>7, <1>8, <1>9, <1>10, <1>11, <1>12, <1>13
     DEF StreamNext, Stream

(* T's steps and tailscaled's. *)
LEMMA OutsideStep ==
  ASSUME StreamInv, StreamTypeOK',
         \/ \E s \in Sessions : \E update \in Updates(s) : Apply(s, update)
         \/ LeaveToken
         \/ \E i \in Streams : Poll(i)
         \/ Hangup
  PROVE  StreamInv'
<1> USE StreamAssumption DEF StreamInv, StreamTypeOK
<1>1. ASSUME NEW s \in Sessions, NEW update \in Updates(s), Apply(s, update)
      PROVE  StreamInv'
  BY <1>1, PromiseSame DEF Apply, Settled
<1>2. CASE LeaveToken
  BY <1>2, PromiseSame DEF LeaveToken, Settled
<1>3. ASSUME NEW i \in Streams, Poll(i) PROVE StreamInv'
  BY <1>3 DEF Poll, Settled
<1>4. CASE Hangup
  BY <1>4 DEF Hangup, Settled
<1> QED
  BY <1>1, <1>2, <1>3, <1>4

(* The steps of the handlers, by whether tailscaled follows the stream.      *)
LEMMA OtherHandlerStep ==
  ASSUME StreamInv, StreamTypeOK', NEW i \in Streams, Stream(i), i # current
  PROVE  StreamInv'
<1> USE StreamAssumption DEF StreamInv, StreamTypeOK
<1>1. /\ UNCHANGED <<nodes, tpc, view, current>> /\ peerUpdate' \in {0, peerUpdate}
      /\ \A j \in Streams \ {i} : handler'[j] = handler[j] /\ res'[j] = res[j]
                                    /\ known'[j] = known[j]
      /\ handler'[i] # "write" => res'[i] = KeepAliveResponse
      /\ cancelled' \subseteq cancelled \cup {i}
      /\ peerUpdate' # peerUpdate => stolen'
      /\ stolen => stolen'
  BY DEF Stream, Start, Write, WriteFails, Cancelled, Ends, TakeToken, ReadStore, KeepAlive
<1>2. Promised' = Promised /\ Snapshot' = Snapshot
  BY <1>1, PromiseSame, SnapshotSame
<1>3. Settled' => Settled
  BY <1>1 DEF Settled
<1> QED
  BY <1>1, <1>2, <1>3

LEMMA CurrentHandlerStep ==
  ASSUME StreamInv, StreamTypeOK', NEW i \in Streams, Stream(i), i = current
  PROVE  StreamInv'
<1> USE StreamAssumption DEF StreamInv, StreamTypeOK
<1>0. \A j \in Streams : handler'[j] # "write" => res'[j] = KeepAliveResponse
  <2>1. CASE Start(i) \/ ReadStore(i) \/ KeepAlive(i)
    <3>1. handler'[i] = "write"
      BY <2>1 DEF Start, ReadStore, KeepAlive
    <3>2. \A j \in Streams \ {i} : handler'[j] = handler[j] /\ res'[j] = res[j]
      BY <2>1 DEF Start, ReadStore, KeepAlive
    <3> QED
      BY <3>1, <3>2
  <2>2. CASE Write(i) \/ WriteFails(i) \/ Cancelled(i) \/ TakeToken(i)
    BY <2>2 DEF Write, WriteFails, Cancelled, Ends, TakeToken
  <2> QED
    BY <2>1, <2>2 DEF Stream
<1>1. CASE Start(i)
  <2>1. /\ handler'[i] = "write" /\ current' = i /\ cancelled' = cancelled
        /\ known'[i] = Ids(Snapshot) /\ res'[i].kind = "initial" /\ res'[i].peers = Snapshot
        /\ nodes' = nodes
    BY <1>1 DEF Start
  <2>2. Promised' = Snapshot /\ Snapshot' = Snapshot
    BY <2>1, SnapshotSame DEF Promised, Delivered
  <2> QED
    BY <1>0, <2>1, <2>2
<1>2. CASE Write(i)
  <2>1. /\ handler'[i] = "select" /\ view' = Delivered(res[i]) /\ handler[i] = "write"
        /\ UNCHANGED <<nodes, tpc, peerUpdate, stolen, current, cancelled, known>>
    BY <1>2 DEF Write
  <2>2. Promised' = Promised /\ Snapshot' = Snapshot
    BY <2>1, SnapshotSame DEF Promised
  <2>3. Settled' => Settled
    BY <2>1 DEF Settled
  <2> QED
    BY <1>0, <2>1, <2>2, <2>3
<1>3. CASE WriteFails(i)
  BY <1>0, <1>3 DEF WriteFails, Settled
<1>4. CASE Cancelled(i)
  BY <1>4 DEF Cancelled
<1>5. CASE TakeToken(i)
  <2>1. /\ handler'[i] = "took" /\ handler[i] = "select"
        /\ UNCHANGED <<view, current, cancelled, known>>
    BY <1>5 DEF TakeToken
  <2>2. Promised' = Promised
    BY <2>1 DEF Promised
  <2> QED
    BY <1>0, <2>1, <2>2 DEF Settled
<1>6. CASE ReadStore(i)
  <2>1. /\ handler[i] = "took" /\ handler'[i] = "write"
        /\ res'[i] = [kind |-> "peers", peers |-> Snapshot,
                      removed |-> IF Snapshot = {} THEN known[i] ELSE {}]
        /\ known'[i] = Ids(Snapshot)
        /\ UNCHANGED <<view, current, cancelled, nodes>>
    BY <1>6 DEF ReadStore
  <2>2. Ids(view) \subseteq known[i]
    BY <2>1 DEF Promised
  <2>4. CASE Snapshot # {}
    <3>1. Promised' = Snapshot
      BY <2>1, <2>4 DEF Promised, Delivered
    <3> QED
      BY <1>0, <2>1, <3>1, SnapshotSame
  <2>5. CASE Snapshot = {}
    <3>1. Promised' = {n \in view : n.id \notin known[i]}
      BY <2>1, <2>5 DEF Promised, Delivered
    <3>2. Promised' = {}
      BY <2>2, <3>1 DEF Ids
    <3> QED
      BY <1>0, <2>1, <2>5, <3>2, SnapshotSame DEF Ids
  <2> QED
    BY <2>4, <2>5
<1>7. CASE KeepAlive(i)
  <2>1. /\ handler[i] = "select" /\ handler'[i] = "write" /\ res'[i] = KeepAliveResponse
        /\ UNCHANGED <<nodes, tpc, peerUpdate, stolen, current, cancelled, known, view>>
    BY <1>7 DEF KeepAlive
  <2>2. Promised' = view /\ Promised = view
    BY <2>1 DEF Promised, Delivered, KeepAliveResponse
  <2> QED
    BY <1>0, <2>1, <2>2, SnapshotSame DEF Settled
<1> QED
  BY <1>1, <1>2, <1>3, <1>4, <1>5, <1>6, <1>7 DEF Stream

LEMMA StreamStep == StreamInv /\ [StreamNext]_streamVars => StreamInv'
<1> SUFFICES ASSUME StreamInv, [StreamNext]_streamVars PROVE StreamInv'
  OBVIOUS
<1>1. StreamTypeOK'
  BY TypeStep
<1>2. CASE UNCHANGED streamVars
  <2>1. Promised' = Promised /\ Snapshot' = Snapshot
    BY <1>2, PromiseSame, SnapshotSame DEF streamVars
  <2> QED
    BY <1>1, <1>2, <2>1 DEF StreamInv, streamVars, Settled
<1> QED
  BY <1>1, <1>2, OutsideStep, OtherHandlerStep, CurrentHandlerStep DEF StreamNext

LEMMA StreamInvariant == StreamSpec => []StreamInv
  BY StreamInitial, StreamStep, PTL DEF StreamSpec

(* The store, the handlers and tailscaled's map keep their types.             *)
THEOREM StreamTypes == StreamSpec => []StreamTypeOK
<1>1. StreamInv => StreamTypeOK
  BY DEF StreamInv
<1> QED
  BY <1>1, StreamInvariant, PTL

(* When nothing is under way and no token was stolen, tailscaled's map is    *)
(* the peer store.                                                          *)
THEOREM QuietMap == StreamSpec => []QuietMapIsTheStore
<1>1. StreamInv => QuietMapIsTheStore
  BY DEF StreamInv, QuietMapIsTheStore, Quiet, Settled, Promised
<1> QED
  BY <1>1, StreamInvariant, PTL
=============================================================================
