---------------------------- MODULE ControlLoop ----------------------------
(***************************************************************************)
(* The control loop T of the local control server (tsserver/server.go,      *)
(* ListenAndServe) between the overlay's two channels, and the handlers that *)
(* store our node for it.  nodeUpdate is a one-slot channel carrying a       *)
(* "something changed" token, dropped when one is already there.  The token  *)
(* T leaves for the map stream after each peer update belongs to MapStream.  *)
(***************************************************************************)
EXTENDS Overlay

CONSTANTS
    MaxNode,       \* bound on the versions of our node
    MaxExpired     \* bound on expired registrations at a time

ASSUME ControlAssumption == MaxNode \in Nat /\ MaxExpired \in Nat

VARIABLES
    node,        \* version of our node last stored by a handler, 0 = nil
    notifying,   \* handlers that have stored it and not yet notified
    nodeUpdate,  \* tokens in the channel
    tpc,         \* T: "select", "load" or "send"
    tNode,       \* version T is sending
    nodes        \* peerStore.nodes: the sessions it holds a node for

controlVars == <<node, notifying, nodeUpdate, tpc, tNode, nodes>>

ControlTypeOK ==
    /\ node \in 0..MaxNode
    /\ notifying \in 0..(MaxNode + MaxExpired)
    /\ nodeUpdate \in 0..1
    /\ tpc \in {"select", "load", "send"}
    /\ tNode \in 0..MaxNode
    /\ nodes \subseteq Sessions

ControlInit ==
    /\ node = 0 /\ notifying = 0 /\ nodeUpdate = 0
    /\ tpc = "select" /\ tNode = 0
    /\ nodes = {}

(* NoiseRegistrationHandler and handleEndpointUpdate: storeNode, then       *)
(* notifyUpdate as a step of its own.                                       *)
StoreNode ==
    /\ node < MaxNode
    /\ node' = node + 1
    /\ notifying' = notifying + 1
    /\ UNCHANGED <<nodeUpdate, tpc, tNode, nodes>>

(* A registration that has expired before any node was stored notifies all   *)
(* the same.                                                                *)
RegisterExpired ==
    /\ node = 0 /\ notifying < MaxExpired
    /\ notifying' = notifying + 1
    /\ UNCHANGED <<node, nodeUpdate, tpc, tNode, nodes>>

NotifyUpdateUnbuffered ==    \* mutant: the token is dropped while T is busy
    /\ notifying > 0
    /\ notifying' = notifying - 1
    /\ nodeUpdate' = IF tpc = "select" THEN 1 ELSE nodeUpdate
    /\ UNCHANGED <<node, tpc, tNode, nodes>>

NotifyUpdate ==
    /\ notifying > 0
    /\ notifying' = notifying - 1
    /\ nodeUpdate' = 1
    /\ UNCHANGED <<node, tpc, tNode, nodes>>

(* T: case update := <-recv, applied to the peer store.                     *)
TApply(update) ==
    /\ tpc = "select"
    /\ nodes' = IF update.node = "nil" THEN nodes \ {update.id}
                                     ELSE nodes \cup {update.id}
    /\ UNCHANGED <<node, notifying, nodeUpdate, tpc, tNode>>

(* T: case <-s.nodeUpdate *)
TTakeToken ==
    /\ tpc = "select" /\ nodeUpdate = 1
    /\ nodeUpdate' = 0
    /\ tpc' = "load"
    /\ UNCHANGED <<node, notifying, tNode, nodes>>

(* s.node.Load(), nothing to send while it is nil. *)
TLoad ==
    /\ tpc = "load"
    /\ tNode' = node
    /\ tpc' = IF node = 0 THEN "select" ELSE "send"
    /\ UNCHANGED <<node, notifying, nodeUpdate, nodes>>

(* T's side of SendTailscaleNodeUpdate, once out has room. *)
TSent ==
    /\ tpc = "send"
    /\ tpc' = "select" /\ tNode' = 0
    /\ UNCHANGED <<node, notifying, nodeUpdate, nodes>>
=============================================================================
