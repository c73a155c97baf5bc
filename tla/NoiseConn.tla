----------------------------- MODULE NoiseConn -----------------------------
(***************************************************************************)
(* The lifecycle of the control server's one Noise connection               *)
(* (tsserver/server.go): NoiseUpgradeHandler admits one request at a time    *)
(* with a compare-and-swap, records the hijacked connection under noiseMu    *)
(* and serves it until it closes; Close cancels the context, closes the HTTP *)
(* server and then the recorded connection, from any goroutine and at any    *)
(* moment of an upgrade.  Closing the HTTP server reaches the connections    *)
(* that are not hijacked yet, never one that is.                            *)
(***************************************************************************)
EXTENDS Naturals, FiniteSets

CONSTANTS
    Upgrades,   \* upgrade requests, each on a connection of its own
    Closers,    \* callers of Close: the owner and the context watcher
    None        \* no connection

ASSUME NoiseAssumption == None \notin Upgrades

VARIABLES
    upc,          \* [Upgrades -> place of the handler]
    conn,         \* [Upgrades -> "open" or "closed"]: its connection
    hijacked,     \* upgrades whose connection the HTTP server let go of
    noiseActive,  \* the compare-and-swap flag
    noiseConn,    \* the recorded connection, by its upgrade
    done,         \* the server's context is cancelled
    cpc,          \* [Closers -> place in Close]
    once,         \* closeOnce: "free", "busy" or "done"
    taken         \* the connection Close took from noiseConn

noiseVars == <<upc, conn, hijacked, noiseActive, noiseConn, done, cpc, once,
               taken>>

NoiseTypeOK ==
    /\ upc \in [Upgrades -> {"new", "accept", "record", "check", "serve", "forget",
                             "hangup", "release", "end"}]
    /\ conn \in [Upgrades -> {"open", "closed"}]
    /\ hijacked \subseteq Upgrades
    /\ noiseActive \in BOOLEAN
    /\ noiseConn \in Upgrades \cup {None}
    /\ done \in BOOLEAN
    /\ cpc \in [Closers -> {"idle", "once", "http", "take", "conn", "end"}]
    /\ once \in {"free", "busy", "done"}
    /\ taken \in Upgrades \cup {None}

NoiseInit ==
    /\ upc = [u \in Upgrades |-> "new"]
    /\ conn = [u \in Upgrades |-> "open"]
    /\ hijacked = {}
    /\ noiseActive = FALSE
    /\ noiseConn = None
    /\ done = FALSE
    /\ cpc = [c \in Closers |-> "idle"]
    /\ once = "free"
    /\ taken = None

To(u, place) == upc' = [upc EXCEPT ![u] = place]
Closing(c, place) == cpc' = [cpc EXCEPT ![c] = place]

-----------------------------------------------------------------------------
(* NoiseUpgradeHandler *)

(* if !CompareAndSwap(false, true): refuse the request *)
Refuse(u) ==
    /\ upc[u] = "new" /\ noiseActive
    /\ To(u, "end")
    /\ conn' = [conn EXCEPT ![u] = "closed"]
    /\ UNCHANGED <<hijacked, noiseActive, noiseConn, done, cpc, once, taken>>

(* A request read before the HTTP server closed may still reach its handler. *)
Admit(u) ==
    /\ upc[u] = "new" /\ ~noiseActive
    /\ To(u, "accept")
    /\ noiseActive' = TRUE
    /\ UNCHANGED <<conn, hijacked, noiseConn, done, cpc, once, taken>>

(* controlhttpserver.AcceptHTTP hijacks the connection ... *)
Accept(u) ==
    /\ upc[u] = "accept" /\ conn[u] = "open"
    /\ hijacked' = hijacked \cup {u}
    /\ To(u, "record")
    /\ UNCHANGED <<conn, noiseActive, noiseConn, done, cpc, once, taken>>

(* ... or fails, before or after, and closes it. *)
AcceptFails(u) ==
    /\ upc[u] = "accept"
    /\ conn' = [conn EXCEPT ![u] = "closed"]
    /\ To(u, "release")
    /\ UNCHANGED <<hijacked, noiseActive, noiseConn, done, cpc, once, taken>>

Record(u) ==
    /\ upc[u] = "record"
    /\ noiseConn' = u
    /\ To(u, "check")
    /\ UNCHANGED <<conn, hijacked, noiseActive, done, cpc, once, taken>>

CheckNothing(u) ==    \* mutant: no look at the context after recording
    /\ upc[u] = "check"
    /\ To(u, "serve")
    /\ UNCHANGED <<conn, hijacked, noiseActive, noiseConn, done, cpc, once,
                   taken>>

(* if s.ctx.Err() != nil: return; SetDeadline fails on a closed connection. *)
Check(u) ==
    /\ upc[u] = "check"
    /\ To(u, IF done \/ conn[u] = "closed" THEN "forget" ELSE "serve")
    /\ UNCHANGED <<conn, hijacked, noiseActive, noiseConn, done, cpc, once,
                   taken>>

(* ServeConn returns when the connection is closed. *)
Served(u) ==
    /\ upc[u] = "serve" /\ conn[u] = "closed"
    /\ To(u, "forget")
    /\ UNCHANGED <<conn, hijacked, noiseActive, noiseConn, done, cpc, once,
                   taken>>

(* The deferred functions, last in first out. *)
Forget(u) ==
    /\ upc[u] = "forget"
    /\ noiseConn' = IF noiseConn = u THEN None ELSE noiseConn
    /\ To(u, "hangup")
    /\ UNCHANGED <<conn, hijacked, noiseActive, done, cpc, once, taken>>

HangupReleasing(u) ==    \* mutant: the flag is cleared before the connection closes
    /\ upc[u] = "hangup"
    /\ noiseActive' = FALSE
    /\ To(u, "release")
    /\ UNCHANGED <<conn, hijacked, noiseConn, done, cpc, once, taken>>

Hangup(u) ==
    /\ upc[u] = "hangup"
    /\ conn' = [conn EXCEPT ![u] = "closed"]
    /\ To(u, "release")
    /\ UNCHANGED <<hijacked, noiseActive, noiseConn, done, cpc, once, taken>>

Release(u) ==
    /\ upc[u] = "release"
    /\ noiseActive' = FALSE
    /\ To(u, "end")
    /\ UNCHANGED <<conn, hijacked, noiseConn, done, cpc, once, taken>>

(* The HTTP server gives up a connection whose request does not come. *)
TimedOut(u) ==
    /\ upc[u] = "new" /\ conn[u] = "open"
    /\ To(u, "end")
    /\ conn' = [conn EXCEPT ![u] = "closed"]
    /\ UNCHANGED <<hijacked, noiseActive, noiseConn, done, cpc, once, taken>>

(* tailscaled closes its end. *)
PeerCloses(u) ==
    /\ upc[u] \notin {"new", "end"} /\ conn[u] = "open"
    /\ conn' = [conn EXCEPT ![u] = "closed"]
    /\ UNCHANGED <<upc, hijacked, noiseActive, noiseConn, done, cpc, once, taken>>

-----------------------------------------------------------------------------
(* Close *)

(* The context of the caller of NewServer ends: the watcher will call Close. *)
ContextEnds ==
    /\ ~done
    /\ done' = TRUE
    /\ UNCHANGED <<upc, conn, hijacked, noiseActive, noiseConn, cpc, once, taken>>

CallClose(c) ==
    /\ cpc[c] = "idle"
    /\ Closing(c, "once")
    /\ UNCHANGED <<upc, conn, hijacked, noiseActive, noiseConn, done, once, taken>>

(* closeOnce: the first caller runs the body, the others wait for it. *)
Enter(c) ==
    /\ cpc[c] = "once" /\ once = "free"
    /\ once' = "busy"
    /\ done' = TRUE
    /\ Closing(c, "http")
    /\ UNCHANGED <<upc, conn, hijacked, noiseActive, noiseConn, taken>>

Join(c) ==
    /\ cpc[c] = "once" /\ once = "done"
    /\ Closing(c, "end")
    /\ UNCHANGED <<upc, conn, hijacked, noiseActive, noiseConn, done, once, taken>>

StopListening(c, left) ==
    /\ cpc[c] = "http"
    /\ conn' = [u \in Upgrades |-> IF u \in hijacked \cup left THEN conn[u] ELSE "closed"]
    /\ Closing(c, "take")
    /\ UNCHANGED <<upc, hijacked, noiseActive, noiseConn, done, once, taken>>

(* httpServer.Close closes the listener and every connection it still tracks. *)
CloseHTTP(c) == StopListening(c, {})

(* Close looked before ListenAndServe had stored its httpServer: only the     *)
(* listener closes, and connections that were accepted meanwhile stay open.  *)
CloseListener(c) == \E left \in SUBSET (Upgrades \ hijacked) : StopListening(c, left)

TakeConnLate(c) ==    \* mutant: the record is cleared before it is read
    /\ cpc[c] = "take"
    /\ noiseConn' = None /\ taken' = noiseConn'
    /\ Closing(c, "conn")
    /\ UNCHANGED <<upc, conn, hijacked, noiseActive, done, once>>

TakeConn(c) ==
    /\ cpc[c] = "take"
    /\ taken' = noiseConn
    /\ noiseConn' = None
    /\ Closing(c, "conn")
    /\ UNCHANGED <<upc, conn, hijacked, noiseActive, done, once>>

CloseConn(c) ==
    /\ cpc[c] = "conn"
    /\ conn' = IF taken = None THEN conn ELSE [conn EXCEPT ![taken] = "closed"]
    /\ taken' = None
    /\ once' = "done"
    /\ Closing(c, "end")
    /\ UNCHANGED <<upc, hijacked, noiseActive, noiseConn, done>>

-----------------------------------------------------------------------------
Upgrade(u) ==
    \/ Accept(u) \/ AcceptFails(u) \/ Record(u) \/ Check(u) \/ Served(u) \/ Forget(u)
    \/ Hangup(u) \/ Release(u)

Close(c) == Enter(c) \/ Join(c) \/ TakeConn(c) \/ CloseConn(c)

NoiseNext ==
    \/ \E u \in Upgrades : Refuse(u) \/ Admit(u) \/ Upgrade(u) \/ TimedOut(u) \/ PeerCloses(u)
    \/ \E c \in Closers : CallClose(c) \/ Close(c) \/ CloseHTTP(c) \/ CloseListener(c)
    \/ ContextEnds

(* The server on its own, in any surroundings.  Forward runs it in a process. *)
NoiseSpec == NoiseInit /\ [][NoiseNext]_noiseVars

-----------------------------------------------------------------------------
Serving(u) == upc[u] \in {"record", "check", "serve", "forget", "hangup"}

(* Two accepted connections are never open at the same time: the flag is     *)
(* held from before the hijack until after the connection is closed.        *)
OneControlConnection ==
    \A u, v \in hijacked : conn[u] = "open" /\ conn[v] = "open" => u = v

(* A connection that is being served is within the reach of Close: recorded  *)
(* for a Close that has still to look, or in the hand of one that has        *)
(* (NoiseUpgradeHandler records and then checks the context; Close cancels   *)
(* the context and then takes what is recorded).                            *)
CloseReachesConnection ==
    \A u \in Upgrades : upc[u] = "serve" /\ conn[u] = "open" =>
        \/ taken = u
        \/ noiseConn = u /\ once # "done" /\ \A c \in Closers : cpc[c] # "conn"

(* The inductive invariant behind the two.  A handler past the flag is alone *)
(* and holds it; only such a handler has an open hijacked connection; one    *)
(* closer at a time is in the body of closeOnce, after cancelling the        *)
(* context; until then the connection is recorded.                          *)
Admitted(u) == upc[u] \notin {"new", "end"}
InBody(c) == cpc[c] \in {"http", "take", "conn"}

NoiseInv ==
    /\ NoiseTypeOK
    /\ \A u \in Upgrades : Admitted(u) => noiseActive
    /\ \A u, v \in Upgrades : Admitted(u) /\ Admitted(v) => u = v
    /\ \A u \in hijacked : conn[u] = "open" => Serving(u)
    /\ \A c \in Closers : InBody(c) => once = "busy"
    /\ \A c, d \in Closers : InBody(c) /\ InBody(d) => c = d
    /\ taken # None => \E c \in Closers : cpc[c] = "conn"
    /\ once # "free" => done
    /\ \A u \in Upgrades : upc[u] \in {"check", "serve"} /\ ~done => noiseConn = u
    /\ CloseReachesConnection

(* Once Close has returned no control connection stays open, and no upgrade  *)
(* handler stays behind, wherever Close found it: accepting, serving, or     *)
(* about to give the flag back.                                             *)
ClosedServerLetsGo ==
    once = "done" ~> \A u \in Upgrades : ~Admitted(u) /\ conn[u] = "closed"
=============================================================================
