------------------------------- MODULE Forward -------------------------------
(***************************************************************************)
(* tsok forward from its arguments to its exit: parsing the forwards         *)
(* (parsePortForwards), bringing the transport up (Connect in                *)
(* internal/transport/client.go), listening (listenAndForward), waiting for a *)
(* signal, and closing everything, with the control server of NoiseConn in    *)
(* the process.  What happens to a connection of a listener is in Relay.      *)
(***************************************************************************)
EXTENDS NoiseConn, Integers, SequencesExt

CONSTANTS
    MaxPort,       \* 65535 in the code
    MaxForwards,   \* a command with more forwards is not followed past parsing
    Owner, Watcher \* the callers of the control server's Close

ASSUME ForwardAssumption ==
    /\ MaxPort \in Nat \ {0} /\ MaxForwards \in Nat
    /\ Owner # Watcher /\ Closers = {Owner, Watcher}

(* A part of an argument is a port or a range; what is not a port is 0 or      *)
(* MaxPort + 1.  An argument without a remote part repeats its local one.     *)
Texts == 0..MaxPort + 1
Parts == {<<a>> : a \in Texts} \cup (Texts \X Texts)
Arguments == [net : {"tcp", "udp"}, ip : {"localhost", "other"}, local : Parts, remote : Parts]
Plain == {a \in Arguments : a.local \in {<<1>>, <<1, 2>>} /\ a.remote = a.local}

(* What the handler is given: the values of --tcp, then those of --udp; none  *)
(* with --tcp-stdio.                                                        *)
CommandLines ==
    {<<>>} \cup {<<a>> : a \in Arguments}
           \cup {ab \in Plain \X Plain : ab[1].net = "udp" => ab[2].net = "udp"}

-----------------------------------------------------------------------------
(* parsePortForwards: the forwards, or none when an argument is in error.     *)

IsPort(text) == text \in 1..MaxPort

PortRangeOpen(start, end) ==    \* mutant: the last port is left out
    [i \in 1..(end - start) |-> start + i - 1]

(* for i := uint32(start); i <= uint32(end); i++ *)
PortRange(start, end) ==
    [i \in 1..(IF end < start THEN 0 ELSE end - start + 1) |-> start + i - 1]

ParsePorts(part, ranges) ==
    IF \E i \in DOMAIN part : ~IsPort(part[i]) THEN <<>>
    ELSE CASE ranges /\ Len(part) = 2 -> PortRange(part[1], part[2])
           [] ~ranges /\ Len(part) = 1 -> part
           [] OTHER -> <<>>

(* The local part decides whether both are ranges. *)
ParseSrcDestPorts(a) ==
    LET local == ParsePorts(a.local, Len(a.local) = 2)
        remote == ParsePorts(a.remote, Len(a.local) = 2)
    IN  IF Len(local) # Len(remote) THEN <<>>
        ELSE [i \in DOMAIN local |->
                [net |-> a.net, ip |-> a.ip, local |-> local[i], remote |-> remote[i]]]

Endpoint(spec) == <<spec.net, spec.ip, spec.local>>

(* One error, or one local address twice, fails them all. *)
ParsePortForwards(asked) ==
    LET parsed == [i \in DOMAIN asked |-> ParseSrcDestPorts(asked[i])]
        specs == FlattenSeq(parsed)
    IN  IF \/ \E i \in DOMAIN parsed : parsed[i] = <<>>
           \/ \E i, j \in DOMAIN specs : i < j /\ Endpoint(specs[i]) = Endpoint(specs[j])
        THEN <<>> ELSE specs

-----------------------------------------------------------------------------
VARIABLES
    fpc,        \* place of the command's handler
    args,       \* the --tcp and --udp arguments, until they are parsed
    forwards,   \* how many forwards there are; 0 for --tcp-stdio
    listening,  \* the forwards whose listener is open
    looping,    \* the forwards whose accept loop runs
    sig,        \* the signal goroutine: "none", "wait", "close" or "ended"
    cancelled,  \* the client's context has ended
    tsnet,      \* "none", "open" or "closed"
    lpc,        \* ListenAndServe of the control server: "none", "new" or "serving"
    missed,     \* Close found no HTTP server yet
    goodbye     \* Send.Close was called

commandVars == <<fpc, args, forwards, listening, looping, sig, cancelled, tsnet, lpc,
                 missed, goodbye>>
forwardVars == <<noiseVars, commandVars>>

ForwardTypeOK ==
    /\ NoiseTypeOK
    /\ fpc \in {"parse", "control", "ts", "up", "peer", "open", "wait", "stdio", "listeners",
                "cancel", "goodbye", "tsnet", "server", "join", "exit"}
    /\ args \in Seq(Arguments)
    /\ forwards \in 0..MaxForwards
    /\ listening \subseteq 1..forwards /\ looping \subseteq 1..forwards
    /\ sig \in {"none", "wait", "close", "ended"}
    /\ cancelled \in BOOLEAN /\ missed \in BOOLEAN /\ goodbye \in BOOLEAN
    /\ tsnet \in {"none", "open", "closed"} /\ lpc \in {"none", "new", "serving"}

ForwardInit ==
    /\ NoiseInit
    /\ fpc = "parse"
    /\ args \in CommandLines
    /\ forwards = 0 /\ listening = {} /\ looping = {} /\ sig = "none"
    /\ cancelled = FALSE /\ tsnet = "none" /\ lpc = "none" /\ missed = FALSE /\ goodbye = FALSE

Goes(from, to) == fpc = from /\ fpc' = to

(* cancel(), or the end of the invocation's context: the control server has a *)
(* context made from the client's.                                          *)
EndContext ==
    /\ cancelled' = TRUE
    /\ done' = (done \/ lpc # "none")
    /\ UNCHANGED <<upc, conn, hijacked, noiseActive, noiseConn, cpc, once, taken>>

InvocationEnds ==
    /\ ~cancelled /\ EndContext
    /\ UNCHANGED <<fpc, args, forwards, listening, looping, sig, tsnet, lpc, missed, goodbye>>

(* Without arguments: --tcp-stdio, whose port may be in error. *)
Parse ==
    LET specs == ParsePortForwards(args)
        followed == Len(specs) \in (IF args = <<>> THEN 0 ELSE 1)..MaxForwards
    IN  /\ fpc = "parse"
        /\ fpc' \in (IF followed THEN {"control", "exit"} ELSE {"exit"})
        /\ forwards' = IF fpc' = "control" THEN Len(specs) ELSE 0
        /\ args' = <<>>
        /\ UNCHANGED <<noiseVars, listening, looping, sig, cancelled, tsnet, lpc, missed, goodbye>>

-----------------------------------------------------------------------------
(* Connect *)

(* tsserver.NewServer, and the goroutines of the control server and overlay.  *)
NewServer ==
    /\ Goes("control", "ts") /\ lpc' = "new"
    /\ done' = (done \/ cancelled)
    /\ UNCHANGED <<upc, conn, hijacked, noiseActive, noiseConn, cpc, once, taken>>
    /\ UNCHANGED <<args, forwards, listening, looping, sig, cancelled, tsnet, missed, goodbye>>

NewTSNet ==
    /\ Goes("ts", "up") /\ tsnet' = "open"
    /\ UNCHANGED <<noiseVars, args, forwards, listening, looping, sig, cancelled, lpc, missed,
                   goodbye>>

(* tailscaled is up once it has its first map from the control server. *)
Up ==
    /\ Goes("up", "peer") /\ ~cancelled
    /\ \E u \in Upgrades : upc[u] = "serve" /\ conn[u] = "open"
    /\ UNCHANGED <<noiseVars, args, forwards, listening, looping, sig, cancelled, tsnet, lpc,
                   missed, goodbye>>

(* waitForPeer and WaitDirect poll until there is a route to the host. *)
FindPeer ==
    /\ Goes("peer", IF forwards = 0 THEN "stdio" ELSE "open") /\ ~cancelled
    /\ UNCHANGED <<noiseVars, args, forwards, listening, looping, sig, cancelled, tsnet, lpc,
                   missed, goodbye>>

ConnectFailsAlone ==    \* mutant: the parts made so far are left behind
    /\ fpc \in {"control", "ts", "up", "peer"} /\ fpc' = "exit"
    /\ UNCHANGED <<noiseVars, args, forwards, listening, looping, sig, cancelled, tsnet, lpc,
                   missed, goodbye>>

(* A step fails, or the context ends: Connect closes the client. *)
ConnectFails ==
    /\ fpc \in {"control", "ts", "up", "peer"} /\ fpc' = "cancel"
    /\ UNCHANGED <<noiseVars, args, forwards, listening, looping, sig, cancelled, tsnet, lpc,
                   missed, goodbye>>

-----------------------------------------------------------------------------
(* The handler, listenAndForward and the signal goroutine                     *)

ListenPast ==    \* mutant: one step past the last forward
    /\ fpc = "open" /\ Cardinality(listening) <= forwards
    /\ listening' = listening \cup {Cardinality(listening) + 1}
    /\ looping' = looping \cup {Cardinality(listening) + 1}
    /\ UNCHANGED <<noiseVars, fpc, args, forwards, sig, cancelled, tsnet, lpc, missed, goodbye>>

(* For udp the host opens the port first.  Then the listener and its loop.    *)
Listen ==
    /\ fpc = "open" /\ Cardinality(listening) < forwards
    /\ listening' = listening \cup {Cardinality(listening) + 1}
    /\ looping' = looping \cup {Cardinality(listening) + 1}
    /\ UNCHANGED <<noiseVars, fpc, args, forwards, sig, cancelled, tsnet, lpc, missed, goodbye>>

ListenFails ==
    /\ Goes("open", "listeners") /\ Cardinality(listening) < forwards
    /\ UNCHANGED <<noiseVars, args, forwards, listening, looping, sig, cancelled, tsnet, lpc,
                   missed, goodbye>>

(* The signal goroutine starts and is waited for like the loops. *)
AwaitSignal ==
    /\ Goes("open", "wait") /\ Cardinality(listening) = forwards
    /\ sig' = "wait"
    /\ UNCHANGED <<noiseVars, args, forwards, listening, looping, cancelled, tsnet, lpc, missed,
                   goodbye>>

(* Accept fails on an open listener: its loop ends, the listener stays open.  *)
KillListener(i) ==
    /\ i \in looping \cap listening
    /\ looping' = looping \ {i}
    /\ UNCHANGED <<noiseVars, fpc, args, forwards, listening, sig, cancelled, tsnet, lpc, missed,
                   goodbye>>

ListenerClosed(i) ==
    /\ i \in looping \ listening
    /\ looping' = looping \ {i}
    /\ UNCHANGED <<noiseVars, fpc, args, forwards, listening, sig, cancelled, tsnet, lpc, missed,
                   goodbye>>

(* The user interrupts the command, or the context has ended; then cancel().  *)
Woken ==
    /\ sig = "wait" /\ sig' = "close"
    /\ EndContext
    /\ UNCHANGED <<fpc, args, forwards, listening, looping, tsnet, lpc, missed, goodbye>>

CloseNoListener ==    \* mutant: the goroutine only cancels
    /\ sig = "close" /\ sig' = "ended"
    /\ UNCHANGED <<noiseVars, fpc, args, forwards, listening, looping, cancelled, tsnet, lpc,
                   missed, goodbye>>

(* closeAllListeners: in the order of the forwards. *)
FirstClosed == listening' = {i \in listening : \E j \in listening : j < i}

CloseAllListeners ==
    /\ sig = "close"
    /\ IF listening = {} THEN sig' = "ended" /\ UNCHANGED listening
       ELSE FirstClosed /\ UNCHANGED sig
    /\ UNCHANGED <<noiseVars, fpc, args, forwards, looping, cancelled, tsnet, lpc, missed, goodbye>>

(* wg.Wait *)
AllEnded ==
    /\ Goes("wait", "listeners") /\ looping = {} /\ sig = "ended"
    /\ UNCHANGED <<noiseVars, args, forwards, listening, looping, sig, cancelled, tsnet, lpc,
                   missed, goodbye>>

(* The port cannot be dialed, or bridgeStdio returns (see Relay). *)
StdioEnds ==
    /\ Goes("stdio", "cancel")
    /\ UNCHANGED <<noiseVars, args, forwards, listening, looping, sig, cancelled, tsnet, lpc,
                   missed, goodbye>>

-----------------------------------------------------------------------------
(* The deferred functions: closeAllListeners, then the client's Close         *)

DeferredListeners ==
    /\ fpc = "listeners"
    /\ IF listening = {} THEN fpc' = "cancel" /\ UNCHANGED listening
       ELSE FirstClosed /\ UNCHANGED fpc
    /\ UNCHANGED <<noiseVars, args, forwards, looping, sig, cancelled, tsnet, lpc, missed, goodbye>>

Cancel ==
    /\ Goes("cancel", "goodbye") /\ EndContext
    /\ UNCHANGED <<args, forwards, listening, looping, sig, tsnet, lpc, missed, goodbye>>

SendClose ==
    /\ Goes("goodbye", "tsnet") /\ goodbye' = TRUE
    /\ UNCHANGED <<noiseVars, args, forwards, listening, looping, sig, cancelled, tsnet, lpc, missed>>

CloseTSNet ==
    /\ Goes("tsnet", "server")
    /\ tsnet' = IF tsnet = "open" THEN "closed" ELSE tsnet
    /\ UNCHANGED <<noiseVars, args, forwards, listening, looping, sig, cancelled, lpc, missed, goodbye>>

CloseControl ==
    /\ Goes("server", IF lpc = "none" THEN "exit" ELSE "join")
    /\ IF lpc = "none" THEN UNCHANGED noiseVars ELSE CallClose(Owner)
    /\ UNCHANGED <<args, forwards, listening, looping, sig, cancelled, tsnet, lpc, missed, goodbye>>

ControlClosed ==
    /\ Goes("join", "exit") /\ cpc[Owner] = "end"
    /\ UNCHANGED <<noiseVars, args, forwards, listening, looping, sig, cancelled, tsnet, lpc,
                   missed, goodbye>>

-----------------------------------------------------------------------------
(* The control server in the process.  It lives on after the handler returns. *)

Serve ==
    /\ lpc = "new" /\ lpc' = "serving"
    /\ UNCHANGED <<noiseVars, fpc, args, forwards, listening, looping, sig, cancelled, tsnet,
                   missed, goodbye>>

(* Close loads httpServer. *)
FindNoServer(c) ==
    /\ cpc[c] = "http" /\ lpc = "new" /\ ~missed
    /\ missed' = TRUE
    /\ UNCHANGED <<noiseVars, fpc, args, forwards, listening, looping, sig, cancelled, tsnet, lpc,
                   goodbye>>

(* Whom it has accepted depends on what Close found. *)
CloseServer(c) ==
    \/ lpc = "serving" /\ ~missed /\ CloseHTTP(c)
    \/ lpc = "serving" /\ missed /\ CloseListener(c)
    \/ lpc = "new" /\ missed /\ CloseHTTP(c)

(* The server's watcher of its context. *)
WatcherCloses == lpc = "serving" /\ done /\ CallClose(Watcher)

Handles(u) == Upgrade(u) \/ (lpc = "serving" /\ TimedOut(u))

(* tailscaled, while tsnet has it, and what it has sent. *)
Requests(u) == lpc = "serving" /\ tsnet # "none" /\ (Admit(u) \/ Refuse(u))

ControlServer ==
    /\ \/ \E u \in Upgrades : Handles(u) \/ Requests(u) \/ PeerCloses(u)
       \/ \E c \in Closers : Close(c) \/ CloseServer(c)
       \/ WatcherCloses
    /\ UNCHANGED commandVars

-----------------------------------------------------------------------------
Handler ==
    \/ Parse \/ NewServer \/ NewTSNet \/ Up \/ FindPeer \/ ConnectFails
    \/ Listen \/ ListenFails \/ AwaitSignal \/ AllEnded \/ StdioEnds
    \/ DeferredListeners \/ Cancel \/ SendClose \/ CloseTSNet \/ CloseControl \/ ControlClosed

Signals == Woken \/ CloseAllListeners

Returned == fpc = "exit" /\ UNCHANGED forwardVars

ForwardNext ==
    \/ Handler \/ Signals \/ InvocationEnds \/ Serve \/ ControlServer \/ Returned
    \/ \E i \in 1..MaxForwards : KillListener(i) \/ ListenerClosed(i)
    \/ \E c \in Closers : FindNoServer(c)

ForwardSpec == ForwardInit /\ [][ForwardNext]_forwardVars

(* Goroutines run on, a cancelled call returns and timeouts run out; nothing   *)
(* else has to happen: no peer, no signal, no error.                        *)
Blocking == fpc \in {"up", "peer", "open", "stdio"}

ForwardFairness ==
    /\ WF_forwardVars(Handler /\ (Blocking => cancelled))
    /\ WF_forwardVars(Signals /\ (sig = "wait" => cancelled))
    /\ WF_forwardVars(Serve)
    /\ \A i \in 1..MaxForwards : WF_forwardVars(ListenerClosed(i))
    /\ \A u \in Upgrades : WF_forwardVars(Handles(u) /\ UNCHANGED commandVars)
    /\ \A c \in Closers :
         WF_forwardVars(FindNoServer(c) \/ ((Close(c) \/ CloseServer(c)) /\ UNCHANGED commandVars))

ForwardFairSpec == ForwardSpec /\ ForwardFairness

-----------------------------------------------------------------------------
(* What an argument asks for: each local port of an interval in the peer,     *)
(* at the same distance from the start of the remote one.                   *)
Asks(a) ==
    LET Span(part) == part[1]..part[Len(part)]
    IN  {s \in [net : {a.net}, ip : {a.ip}, local : Span(a.local), remote : Span(a.remote)] :
            s.local - a.local[1] = s.remote - a.remote[1]}

WellFormed(a) ==
    LET Ports(part) == {part[i] : i \in DOMAIN part}
        Width(part) == part[Len(part)] - part[1]
    IN  /\ Ports(a.local) \cup Ports(a.remote) \subseteq 1..MaxPort
        /\ Len(a.local) = Len(a.remote) /\ Width(a.local) = Width(a.remote) /\ Width(a.local) >= 0

Clash(a, b) == \E s \in Asks(a), t \in Asks(b) : Endpoint(s) = Endpoint(t)

(* A command whose arguments are all in order and ask for no local address   *)
(* twice forwards exactly what they ask for, each port once; any other       *)
(* command forwards nothing (parsePortForwards).                            *)
ForwardsAsAsked ==
    fpc = "parse" =>
        LET specs == ParsePortForwards(args)
            inOrder == /\ \A i \in DOMAIN args : WellFormed(args[i])
                       /\ \A i, j \in DOMAIN args : i < j => ~Clash(args[i], args[j])
            wanted == UNION {Asks(args[i]) : i \in DOMAIN args}
        IN  /\ {specs[i] : i \in DOMAIN specs} = IF inOrder THEN wanted ELSE {}
            /\ inOrder => Len(specs) = Cardinality(wanted)

(* A listener never outlives the transport its connections would use, and a   *)
(* handler that returns, in whichever step it failed, has closed every        *)
(* listener, called the overlay's Close (whose goodbye is SendOverlay's), and  *)
(* closed tsnet and the control server.                                       *)
OrderlyEnd ==
    /\ listening # {} => tsnet = "open"
    /\ fpc = "exit" => /\ listening = {} /\ tsnet # "open"
                       /\ lpc # "none" => goodbye /\ once = "done"

(* After a signal, or the end of the context at any moment, the handler       *)
(* returns: no accept loop, poll or Close keeps it.                         *)
SignalEnds == cancelled ~> fpc = "exit"
=============================================================================
