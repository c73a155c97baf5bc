------------------------------ MODULE UDPLease ------------------------------
(***************************************************************************)
(* Session-scoped UDP listeners (internal/transport/host.go).  One tsnet    *)
(* listener per requested port is shared by every session that asked for    *)
(* the port and closed when the last of them is gone.  Each operation runs  *)
(* under udpMu, so each is one step.  acceptUDP changes no shared state and  *)
(* is left out.                                                             *)
(***************************************************************************)
EXTENDS Overlay

CONSTANT Ports   \* UDP ports clients ask for

VARIABLES
    udpPorts,   \* [Ports -> SUBSET Sessions]: sessions of the port's entry,
                \* {} when the map has no entry for the port
    listeners   \* ports with an open tsnet listener

leaseVars == <<udpPorts, listeners>>

LeaseTypeOK ==
    /\ udpPorts \in [Ports -> SUBSET Sessions]
    /\ listeners \subseteq Ports

LeaseInit ==
    /\ udpPorts = [p \in Ports |-> {}]
    /\ listeners = {}

Leased(s) == {p \in Ports : s \in udpPorts[p]}

(* The port has an entry: the session joins it. *)
JoinUDP(s, p) ==
    /\ udpPorts[p] # {}
    /\ udpPorts' = [udpPorts EXCEPT ![p] = @ \cup {s}]
    /\ UNCHANGED listeners

(* No entry: listen and record the first session.  tsnet refuses a port     *)
(* that still has a listener.                                               *)
ListenUDP(s, p) ==
    /\ udpPorts[p] = {}
    /\ p \notin listeners
    /\ udpPorts' = [udpPorts EXCEPT ![p] = {s}]
    /\ listeners' = listeners \cup {p}

(* The request is refused before or by listenUDP (no request id, port 0,    *)
(* no handler, listen error): only the reply says so.                       *)
RefuseUDP == UNCHANGED leaseVars

CloseUDPSessionAlone(s) ==    \* mutant: closes listeners others still share
    /\ udpPorts' = [p \in Ports |-> udpPorts[p] \ {s}]
    /\ listeners' = listeners \ Leased(s)

(* closeUDPSession: leave every port, close the listeners nobody shares.    *)
CloseUDPSession(s) ==
    LET left == [p \in Ports |-> udpPorts[p] \ {s}]
    IN  /\ udpPorts' = left
        /\ listeners' = listeners \ {p \in Ports : udpPorts[p] # {} /\ left[p] = {}}

-----------------------------------------------------------------------------
(* A listener is open for exactly the ports some session holds: none leaks  *)
(* after the last session left, none is closed under a session still using  *)
(* it (openUDP, closeUDPSession).                                           *)
ListenerIffLeased == \A p \in Ports : p \in listeners <=> udpPorts[p] # {}
=============================================================================
