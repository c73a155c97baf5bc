----------------------------- MODULE MapStream -----------------------------
(***************************************************************************)
(* The network map streams of the local control server (tsserver/server.go) *)
(*                                                                         *)
(* The control loop T applies each peer update to the peer store and leaves *)
(* a token in peerUpdate, a one-slot channel that every streaming handler   *)
(* of the server reads.  A handler (handleStreaming) sends the whole store   *)
(* when it starts and again for every token it takes.  tailscaled (external) *)
(* follows one stream at a time; a handler it has left, because it polled    *)
(* again or the connection broke, has its context cancelled and ends when    *)
(* it notices, by a failing write or by its select choosing ctx.Done over    *)
(* another case that is ready too.                                          *)
(*                                                                         *)
(* A peer's node is an id and a content.  Ids are random in the code and     *)
(* distinct here.                                                           *)
(***************************************************************************)
EXTENDS Naturals, FiniteSets

CONSTANTS
    Sessions,   \* overlay sessions, the keys of the peer store
    NodeIds,    \* tailcfg.NodeID
    Contents,   \* the rest of a node
    Streams,    \* handlers of streaming requests
    None        \* no node, no stream

ASSUME StreamAssumption == None \notin Streams

Nodes == [id : NodeIds, content : Contents]

Ids(peers) == {n.id : n \in peers}

(* A map response: the whole map, a list of peers that replaces the one      *)
(* before unless it is empty (an empty list is not on the wire), or nothing. *)
Responses ==
    [kind : {"initial", "peers", "keepAlive"}, peers : SUBSET Nodes,
     removed : SUBSET NodeIds]

KeepAliveResponse == [kind |-> "keepAlive", peers |-> {}, removed |-> {}]

VARIABLES
    nodes,       \* peerStore.nodes: [Sessions -> a set of at most one node]
    peerUpdate,  \* tokens in the channel
    tpc,         \* T: "select", or "token" between apply and the token
    handler,     \* [Streams -> place of the handler], "none" when it is not running
    cancelled,   \* streams whose context is done
    known,       \* [Streams -> SUBSET NodeIds]: knownPeerIDs
    res,         \* [Streams -> response being written]
    current,     \* tailscaled: the stream it follows, or None
    view,        \* tailscaled: the peers of its network map
    stolen       \* history: another handler took a token since current last
                 \* read the store

streamVars == <<nodes, peerUpdate, tpc, handler, cancelled, known, res, current,
                view, stolen>>

StreamTypeOK ==
    /\ nodes \in [Sessions -> SUBSET Nodes]
    /\ peerUpdate \in 0..1
    /\ tpc \in {"select", "token"}
    /\ handler \in [Streams -> {"none", "start", "write", "select", "took"}]
    /\ cancelled \subseteq Streams
    /\ known \in [Streams -> SUBSET NodeIds]
    /\ res \in [Streams -> Responses]
    /\ current \in Streams \cup {None}
    /\ view \subseteq Nodes
    /\ stolen \in BOOLEAN

(* peerStore.snapshot *)
Snapshot == UNION {nodes[s] : s \in Sessions}

StreamInit ==
    /\ nodes = [s \in Sessions |-> {}]
    /\ peerUpdate = 0
    /\ tpc = "select"
    /\ handler = [i \in Streams |-> "none"]
    /\ cancelled = {}
    /\ known = [i \in Streams |-> {}]
    /\ res = [i \in Streams |-> KeepAliveResponse]
    /\ current = None
    /\ view = {}
    /\ stolen = FALSE

-----------------------------------------------------------------------------
(* T *)

(* peerStore.apply(update); a nil node deletes. *)
Apply(s, update) ==
    /\ tpc = "select"
    /\ nodes' = [nodes EXCEPT ![s] = update]
    /\ tpc' = "token"
    /\ UNCHANGED <<peerUpdate, handler, cancelled, known, res, current, view, stolen>>

LeaveTokenIfWaiting ==    \* mutant: an unbuffered channel drops the token
    /\ tpc = "token"
    /\ peerUpdate' = IF \E i \in Streams : handler[i] = "select" THEN 1 ELSE peerUpdate
    /\ tpc' = "select"
    /\ UNCHANGED <<nodes, handler, cancelled, known, res, current, view, stolen>>

LeaveTokenCounting ==    \* mutant: tokens add up
    /\ tpc = "token"
    /\ peerUpdate' = peerUpdate + 1
    /\ tpc' = "select"
    /\ UNCHANGED <<nodes, handler, cancelled, known, res, current, view, stolen>>

(* The token is dropped when one is there already. *)
LeaveToken ==
    /\ tpc = "token"
    /\ peerUpdate' = 1
    /\ tpc' = "select"
    /\ UNCHANGED <<nodes, handler, cancelled, known, res, current, view, stolen>>

-----------------------------------------------------------------------------
(* tailscaled *)

(* A streaming map request: tailscaled leaves the stream it followed.  A     *)
(* request before registration is refused and starts no handler.            *)
Poll(i) ==
    /\ handler[i] = "none"
    /\ handler' = [handler EXCEPT ![i] = "start"]
    /\ cancelled' = (cancelled \ {i}) \cup ({current} \ {None})
    /\ current' = i
    /\ UNCHANGED <<nodes, peerUpdate, tpc, known, res, view, stolen>>

(* tailscaled gives up its stream, or the connection breaks. *)
Hangup ==
    /\ current # None
    /\ cancelled' = cancelled \cup {current}
    /\ current' = None
    /\ UNCHANGED <<nodes, peerUpdate, tpc, handler, known, res, view, stolen>>

(* How a response changes the network map of tailscaled. *)
Delivered(r) ==
    IF r.kind = "keepAlive" THEN view
    ELSE IF r.kind = "peers" /\ r.peers = {} THEN {n \in view : n.id \notin r.removed}
    ELSE r.peers

-----------------------------------------------------------------------------
(* handleStreaming *)

(* The initial response carries the store as it is now. *)
Start(i) ==
    /\ handler[i] = "start"
    /\ res' = [res EXCEPT ![i] = [kind |-> "initial", peers |-> Snapshot, removed |-> {}]]
    /\ known' = [known EXCEPT ![i] = Ids(Snapshot)]
    /\ handler' = [handler EXCEPT ![i] = "write"]
    /\ stolen' = IF i = current THEN FALSE ELSE stolen
    /\ UNCHANGED <<nodes, peerUpdate, tpc, cancelled, current, view>>

(* writeMapResponse and Flush: what is written on a stream that tailscaled   *)
(* has left goes nowhere.                                                   *)
Write(i) ==
    /\ handler[i] = "write"
    /\ view' = IF i = current THEN Delivered(res[i]) ELSE view
    /\ handler' = [handler EXCEPT ![i] = "select"]
    /\ res' = [res EXCEPT ![i] = KeepAliveResponse]
    /\ UNCHANGED <<nodes, peerUpdate, tpc, cancelled, known, current, stolen>>

Ends(i) ==
    /\ handler' = [handler EXCEPT ![i] = "none"]
    /\ known' = [known EXCEPT ![i] = {}]
    /\ res' = [res EXCEPT ![i] = KeepAliveResponse]
    /\ UNCHANGED <<nodes, peerUpdate, tpc, view, stolen>>

(* A write error ends the handler, and with it the stream. *)
WriteFails(i) ==
    /\ handler[i] = "write"
    /\ Ends(i)
    /\ cancelled' = cancelled \cup {i}
    /\ current' = IF current = i THEN None ELSE current

(* case <-ctx.Done() *)
Cancelled(i) ==
    /\ handler[i] = "select" /\ i \in cancelled
    /\ Ends(i)
    /\ UNCHANGED <<cancelled, current>>

(* case <-ns.peerUpdate *)
TakeToken(i) ==
    /\ handler[i] = "select" /\ peerUpdate = 1
    /\ peerUpdate' = 0
    /\ handler' = [handler EXCEPT ![i] = "took"]
    /\ stolen' = (stolen \/ i # current)
    /\ UNCHANGED <<nodes, tpc, cancelled, known, res, current, view>>

ReadStoreKeepKnown(i) ==    \* mutant: knownPeerIDs stays that of the first response
    LET peers == Snapshot
    IN  /\ handler[i] = "took"
        /\ res' = [res EXCEPT ![i] =
              [kind |-> "peers", peers |-> peers,
               removed |-> IF peers = {} THEN known[i] ELSE {}]]
        /\ handler' = [handler EXCEPT ![i] = "write"]
        /\ stolen' = IF i = current THEN FALSE ELSE stolen
        /\ UNCHANGED <<nodes, peerUpdate, tpc, cancelled, known, current, view>>

(* The store again; when it is empty, the ids sent last are removed. *)
ReadStore(i) ==
    LET peers == Snapshot
    IN  /\ handler[i] = "took"
        /\ res' = [res EXCEPT ![i] =
              [kind |-> "peers", peers |-> peers,
               removed |-> IF peers = {} THEN known[i] ELSE {}]]
        /\ known' = [known EXCEPT ![i] = Ids(peers)]
        /\ handler' = [handler EXCEPT ![i] = "write"]
        /\ stolen' = IF i = current THEN FALSE ELSE stolen
        /\ UNCHANGED <<nodes, peerUpdate, tpc, cancelled, current, view>>

(* case <-keepAlive.C *)
KeepAlive(i) ==
    /\ handler[i] = "select"
    /\ handler' = [handler EXCEPT ![i] = "write"]
    /\ UNCHANGED <<nodes, peerUpdate, tpc, cancelled, known, res, current, view, stolen>>

-----------------------------------------------------------------------------
Stream(i) ==
    Start(i) \/ Write(i) \/ WriteFails(i) \/ Cancelled(i) \/ TakeToken(i)
       \/ ReadStore(i) \/ KeepAlive(i)

(* No other session's node has the id. *)
Updates(s) ==
    {{}} \cup {{n} : n \in {m \in Nodes : \A r \in Sessions \ {s} :
                                              m.id \notin Ids(nodes[r])}}

StreamNext ==
    \/ \E s \in Sessions : \E update \in Updates(s) : Apply(s, update)
    \/ LeaveToken
    \/ \E i \in Streams : Poll(i) \/ Stream(i)
    \/ Hangup

StreamSpec == StreamInit /\ [][StreamNext]_streamVars

(* T and the handlers run on, and a handler's select does not pass over a    *)
(* ready case for ever.  Nothing is assumed of tailscaled or of sessions.    *)
StreamFairness ==
    /\ WF_streamVars(LeaveToken)
    /\ \A i \in Streams :
          /\ WF_streamVars(Stream(i))
          /\ SF_streamVars(TakeToken(i))
          /\ SF_streamVars(Cancelled(i))

StreamFairSpec == StreamSpec /\ StreamFairness

-----------------------------------------------------------------------------
(* Nothing is under way: T, the token and the handler tailscaled follows.    *)
Quiet ==
    /\ current # None
    /\ handler[current] = "select"
    /\ tpc = "select" /\ peerUpdate = 0

(* When nothing is under way tailscaled's map is the peer store, the last    *)
(* peer's removal included, unless a handler tailscaled has left took the    *)
(* token of the last change: tokens are dropped, responses replaced, and an  *)
(* empty list means no change (ListenAndServe, handleStreaming).             *)
QuietMapIsTheStore == Quiet /\ ~stolen => view = Snapshot

(* The same without the exception: a tailscaled that reconnects has only the *)
(* active peers in its map once things are quiet.                           *)
ReconnectedMapIsTheStore == Quiet => view = Snapshot

(* The inductive invariant behind it: the map tailscaled will have once the  *)
(* current handler has written what it holds is the store when nothing else  *)
(* is under way, and has only ids the handler knows of.                     *)
Promised ==
    IF current # None /\ handler[current] = "write" THEN Delivered(res[current]) ELSE view

Settled ==
    /\ current # None /\ handler[current] \in {"select", "write"}
    /\ tpc = "select" /\ peerUpdate = 0
    /\ ~stolen

StreamInv ==
    /\ StreamTypeOK
    /\ current # None => handler[current] # "none" /\ current \notin cancelled
    /\ \A i \in Streams : handler[i] # "write" => res[i] = KeepAliveResponse
    /\ current # None /\ handler[current] # "start" => Ids(Promised) \subseteq known[current]
    /\ Settled => Promised = Snapshot

(* Every change of the store is followed by a fresh map or by the end of the *)
(* stream: the current stream cannot stay stale while its handler is the     *)
(* only one running, unless a handler that tailscaled had left took the token *)
(* before it ended (stolen: what ReconnectedMapIsTheStore is about).         *)
Alone == \A i \in Streams \ {current} : handler[i] = "none"

SoleStreamCatchesUp ==
    []<>(current = None \/ view = Snapshot \/ ~Alone \/ tpc = "token" \/ stolen)
=============================================================================
