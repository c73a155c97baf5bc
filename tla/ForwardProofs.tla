---------------------------- MODULE ForwardProofs ----------------------------
(***************************************************************************)
(* Proofs about the process of Forward: the control server in it behaves as    *)
(* NoiseConn says of one in any surroundings, and the process ends in order,  *)
(* for every number of requests, ports and forwards.                         *)
(***************************************************************************)
EXTENDS Forward, NoiseConnProofs, FiniteSetTheorems, SequenceTheorems

LEMMA Callers == Owner \in Closers /\ Watcher \in Closers
  BY ForwardAssumption

(* The handler, the signal goroutine and the loops touch the server only by    *)
(* ending its context and calling its Close.                                *)
LEMMA HandlerStep ==
  ASSUME NoiseTypeOK, Handler
  PROVE  [ContextEnds \/ CallClose(Owner)]_noiseVars
<1>1. CASE NewServer
  BY <1>1 DEF NewServer, ContextEnds, noiseVars, NoiseTypeOK
<1>2. CASE Cancel
  BY <1>2 DEF Cancel, EndContext, ContextEnds, noiseVars, NoiseTypeOK
<1>3. CASE CloseControl
  BY <1>3 DEF CloseControl, noiseVars
<1>4. CASE Parse \/ NewTSNet \/ Up \/ FindPeer \/ ConnectFails
  BY <1>4 DEF Parse, NewTSNet, Up, FindPeer, ConnectFails
<1>5. CASE Listen \/ ListenFails \/ AwaitSignal \/ AllEnded \/ StdioEnds
  BY <1>5 DEF Listen, ListenFails, AwaitSignal, AllEnded, StdioEnds
<1>6. CASE DeferredListeners \/ SendClose \/ CloseTSNet \/ ControlClosed
  BY <1>6 DEF DeferredListeners, SendClose, CloseTSNet, ControlClosed
<1> QED
  BY <1>1, <1>2, <1>3, <1>4, <1>5, <1>6 DEF Handler

LEMMA SignalStep ==
  ASSUME NoiseTypeOK, Signals \/ InvocationEnds
  PROVE  [ContextEnds]_noiseVars
<1>1. CASE Woken \/ InvocationEnds
  BY <1>1 DEF Woken, InvocationEnds, EndContext, ContextEnds, noiseVars, NoiseTypeOK
<1>2. CASE CloseAllListeners
  BY <1>2 DEF CloseAllListeners
<1> QED
  BY <1>1, <1>2 DEF Signals

LEMMA ServerStep ==
  ASSUME ControlServer
  PROVE  NoiseNext
<1>1. CASE \E u \in Upgrades : Handles(u) \/ Requests(u) \/ PeerCloses(u)
  BY <1>1 DEF Handles, Requests, NoiseNext
<1>2. CASE \E c \in Closers : Close(c) \/ CloseServer(c)
  BY <1>2 DEF CloseServer, NoiseNext
<1>3. CASE WatcherCloses
  BY <1>3, Callers DEF WatcherCloses, NoiseNext
<1> QED
  BY <1>1, <1>2, <1>3 DEF ControlServer

LEMMA ProcessStep ==
  ASSUME NoiseTypeOK, [ForwardNext]_forwardVars
  PROVE  [NoiseNext]_noiseVars
<1>1. CASE Handler
  BY <1>1, HandlerStep, Callers DEF NoiseNext
<1>2. CASE Signals \/ InvocationEnds
  BY <1>2, SignalStep DEF NoiseNext
<1>3. CASE ControlServer
  BY <1>3, ServerStep
<1>4. CASE Serve \/ \E c \in Closers : FindNoServer(c)
  BY <1>4 DEF Serve, FindNoServer
<1>5. CASE \E i \in 1..MaxForwards : KillListener(i) \/ ListenerClosed(i)
  BY <1>5 DEF KillListener, ListenerClosed
<1>6. CASE Returned \/ UNCHANGED forwardVars
  BY <1>6 DEF Returned, forwardVars
<1> QED
  BY <1>1, <1>2, <1>3, <1>4, <1>5, <1>6 DEF ForwardNext

LEMMA ServerInvariant == ForwardSpec => []NoiseInv
<1>1. ForwardInit => NoiseInv
  BY NoiseInitial DEF ForwardInit
<1>2. NoiseInv /\ [ForwardNext]_forwardVars => NoiseInv'
  BY ProcessStep, NoiseStep DEF NoiseInv
<1> QED
  BY <1>1, <1>2, PTL DEF ForwardSpec

(* The control server in a tsok process, which closes it in its own time and   *)
(* from its own goroutines, is a control server of NoiseConn.                *)
THEOREM RunsControlServer == ForwardSpec => NoiseSpec
<1>1. ForwardInit => NoiseInit
  BY DEF ForwardInit
<1>2. NoiseInv /\ [ForwardNext]_forwardVars => [NoiseNext]_noiseVars
  BY ProcessStep DEF NoiseInv
<1> QED
  BY <1>1, <1>2, ServerInvariant, PTL DEF ForwardSpec, NoiseSpec

(* Hence the process has one accepted control connection at a time ...       *)
THEOREM OneConnectionHere == ForwardSpec => []OneControlConnection
  BY RunsControlServer, OneConnection, PTL

(* ... and none that its Close does not reach.                               *)
THEOREM CloseReachesHere == ForwardSpec => []CloseReachesConnection
  BY RunsControlServer, CloseReaches, PTL

-----------------------------------------------------------------------------
(* What the handler has made and not yet undone at each of its places.        *)

CommandInv ==
    /\ fpc \in {"parse", "control"} => lpc = "none"
    /\ fpc \in {"parse", "control", "ts"} => tsnet = "none"
    /\ fpc \in {"up", "peer", "open", "wait", "stdio", "listeners"} => tsnet = "open"
    /\ listening # {} => fpc \in {"open", "wait", "listeners"}
    /\ fpc \in {"tsnet", "server", "join"} => goodbye
    /\ fpc \in {"server", "join", "exit"} => tsnet # "open"
    /\ fpc = "exit" /\ lpc # "none" => goodbye /\ once = "done"
    /\ \A c \in Closers : cpc[c] = "end" => once = "done"

LEMMA CommandInitial == ForwardInit => CommandInv
  BY DEF ForwardInit, NoiseInit, CommandInv

(* A server step: closeOnce stays done, and a caller leaves Close after that.  *)
LEMMA OnceStays ==
  ASSUME NoiseTypeOK, [NoiseNext]_noiseVars,
         \A c \in Closers : cpc[c] = "end" => once = "done"
  PROVE  /\ once = "done" => once' = "done"
         /\ \A c \in Closers : cpc'[c] = "end" => once' = "done"
<1>1. ASSUME NEW u \in Upgrades, Refuse(u) \/ Admit(u) \/ Upgrade(u) \/ TimedOut(u) \/ PeerCloses(u)
      PROVE  UNCHANGED <<cpc, once>>
  BY <1>1 DEF Refuse, Admit, Upgrade, TimedOut, PeerCloses, Accept, AcceptFails, Record, Check,
     Served, Forget, Hangup, Release
<1>2. ASSUME NEW c \in Closers, CallClose(c) \/ Enter(c) \/ CloseHTTP(c) \/ CloseListener(c) \/ TakeConn(c)
      PROVE  /\ once = "done" => once' = "done"
             /\ \A d \in Closers : cpc'[d] = "end" => cpc[d] = "end"
  BY <1>2 DEF CallClose, Enter, CloseHTTP, CloseListener, StopListening, TakeConn, Closing, NoiseTypeOK
<1>3. ASSUME NEW c \in Closers, Join(c) \/ CloseConn(c)
      PROVE  once' = "done"
  BY <1>3 DEF Join, CloseConn
<1>4. CASE ContextEnds \/ UNCHANGED noiseVars
  BY <1>4 DEF ContextEnds, noiseVars
<1> QED
  BY <1>1, <1>2, <1>3, <1>4 DEF NoiseNext, Close

LEMMA CommandStep ==
  ASSUME NoiseTypeOK, CommandInv, [ForwardNext]_forwardVars
  PROVE  CommandInv'
<1>0. /\ once = "done" => once' = "done"
      /\ \A c \in Closers : cpc'[c] = "end" => once' = "done"
  BY ProcessStep, OnceStays DEF CommandInv
<1> USE <1>0 DEF CommandInv
<1>1. CASE Parse
  BY <1>1 DEF Parse
<1>2. CASE NewServer \/ NewTSNet \/ Up \/ FindPeer
  BY <1>2 DEF NewServer, NewTSNet, Up, FindPeer, Goes
<1>3. CASE ConnectFails \/ StdioEnds
  BY <1>3 DEF ConnectFails, StdioEnds, Goes
<1>4. CASE Listen \/ ListenFails \/ AwaitSignal \/ AllEnded
  BY <1>4 DEF Listen, ListenFails, AwaitSignal, AllEnded, Goes
<1>5. CASE DeferredListeners
  BY <1>5 DEF DeferredListeners, FirstClosed
<1>6. CASE Cancel \/ SendClose \/ CloseTSNet
  BY <1>6 DEF Cancel, SendClose, CloseTSNet, EndContext, Goes
<1>7. CASE CloseControl
  BY <1>7 DEF CloseControl, Goes
<1>8. CASE ControlClosed
  BY <1>8, Callers DEF ControlClosed, Goes
<1>9. CASE Signals \/ InvocationEnds
  BY <1>9 DEF Signals, Woken, CloseAllListeners, FirstClosed, InvocationEnds
<1>10. CASE Serve
  <2>1. fpc \notin {"parse", "control"}
    BY <1>10 DEF Serve
  <2> QED
    BY <1>10, <2>1 DEF Serve
<1>11. CASE ControlServer
  BY <1>11 DEF ControlServer, commandVars
<1>12. CASE \E i \in 1..MaxForwards : KillListener(i) \/ ListenerClosed(i)
  BY <1>12 DEF KillListener, ListenerClosed
<1>13. CASE \E c \in Closers : FindNoServer(c)
  BY <1>13 DEF FindNoServer
<1>14. CASE Returned \/ UNCHANGED forwardVars
  BY <1>14 DEF Returned, forwardVars, commandVars
<1> QED
  BY <1>1, <1>2, <1>3, <1>4, <1>5, <1>6, <1>7, <1>8, <1>9, <1>10, <1>11, <1>12, <1>13, <1>14
     DEF ForwardNext, Handler

(* However the command ends, it has closed what it opened: no listener         *)
(* outlives tsnet, and a handler that returns has closed its listeners, the    *)
(* overlay, tsnet and the control server.                                     *)
THEOREM EndsInOrder == ForwardSpec => []OrderlyEnd
<1>1. CommandInv => OrderlyEnd
  BY DEF CommandInv, OrderlyEnd
<1>2. NoiseInv /\ CommandInv /\ [ForwardNext]_forwardVars => CommandInv'
  BY CommandStep DEF NoiseInv
<1> QED
  BY <1>1, <1>2, CommandInitial, ServerInvariant, PTL DEF ForwardSpec

-----------------------------------------------------------------------------
(* The listeners that are open while the handler opens them are the first     *)
(* ones; before that there is nothing to forward, and no signal goroutine.   *)
Opened ==
    /\ fpc \in {"parse", "control", "ts", "up", "peer", "stdio"} =>
         listening = {} /\ looping = {} /\ sig = "none"
    /\ fpc = "open" => sig = "none" /\ \E k \in 0..forwards : listening = 1..k

ForwardInv == ForwardTypeOK /\ CommandInv /\ Opened

LEMMA ForwardInitial == ForwardInit => ForwardInv
<1> SUFFICES ASSUME ForwardInit PROVE ForwardTypeOK /\ Opened
  BY CommandInitial DEF ForwardInv
<1>1. args \in Seq(Arguments)
  <2>1. CASE args = <<>>
    BY <2>1
  <2>2. CASE \E a \in Arguments : args = <<a>>
    BY <2>2
  <2>3. CASE \E a, b \in Plain : args = <<a, b>>
    <3>1. PICK a \in Arguments, b \in Arguments : args = <<a, b>>
      BY <2>3 DEF Plain
    <3> QED
      BY <3>1
  <2> QED
    BY <2>1, <2>2, <2>3 DEF ForwardInit, CommandLines
<1>2. NoiseTypeOK
  BY NoiseInitial DEF ForwardInit, NoiseInv
<1>3. /\ fpc = "parse" /\ forwards = 0 /\ listening = {} /\ looping = {} /\ sig = "none"
      /\ cancelled = FALSE /\ tsnet = "none" /\ lpc = "none" /\ missed = FALSE /\ goodbye = FALSE
  BY DEF ForwardInit
<1>4. forwards \in 0..MaxForwards
  BY <1>3, ForwardAssumption
<1>5. Opened
  BY <1>3 DEF Opened
<1> QED
  BY <1>1, <1>2, <1>3, <1>4, <1>5 DEF ForwardTypeOK

LEMMA ListenStep ==
  ASSUME ForwardInv, Listen
  PROVE  /\ listening' \subseteq 1..forwards /\ looping' \subseteq 1..forwards
         /\ \E k \in 0..forwards : listening' = 1..k
<1>1. PICK k \in 0..forwards : listening = 1..k
  BY DEF ForwardInv, Opened, Listen
<1>2. forwards \in Nat /\ looping \subseteq 1..forwards
  BY ForwardAssumption DEF ForwardInv, ForwardTypeOK
<1>3. Cardinality(listening) = k
  BY <1>1, <1>2, FS_Interval
<1>4. k + 1 \in 0..forwards
  BY <1>2, <1>3 DEF Listen
<1>5. listening' = 1..(k + 1) /\ looping' = looping \cup {k + 1}
  BY <1>1, <1>3, <1>4 DEF Listen
<1> QED
  BY <1>2, <1>4, <1>5

LEMMA ForwardStep ==
  ASSUME ForwardInv, [ForwardNext]_forwardVars, NoiseTypeOK'
  PROVE  ForwardTypeOK' /\ Opened'
<1> USE ForwardAssumption DEF ForwardInv, ForwardTypeOK
<1>0. ASSUME UNCHANGED <<fpc, forwards, listening, looping, sig>>
      PROVE  Opened'
  BY <1>0 DEF Opened
<1>1. CASE Parse
  BY <1>1 DEF Parse, Opened
<1>2. CASE NewServer \/ NewTSNet \/ Up \/ ConnectFails
  <2>1. CASE NewServer \/ NewTSNet
    BY <2>1 DEF NewServer, NewTSNet, Goes, Opened
  <2>2. CASE Up \/ ConnectFails
    BY <2>2 DEF Up, ConnectFails, Goes, Opened
  <2> QED
    BY <1>2, <2>1, <2>2
<1>3. CASE FindPeer
  <2>1. listening' = 1..0 /\ 0 \in 0..forwards
    BY <1>3 DEF FindPeer, Goes, Opened
  <2>2. Opened'
    BY <1>3, <2>1 DEF FindPeer, Goes, Opened
  <2> QED
    BY <1>3, <2>2 DEF FindPeer, Goes
<1>4. CASE Listen
  <2>1. fpc = "open" /\ UNCHANGED <<fpc, args, forwards, sig, cancelled, tsnet, lpc, missed, goodbye>>
    BY <1>4 DEF Listen
  <2>2. Opened'
    BY <1>4, <2>1, ListenStep DEF Opened
  <2>3. listening' \subseteq 1..forwards /\ looping' \subseteq 1..forwards
    BY <1>4, ListenStep
  <2> QED
    BY <2>1, <2>2, <2>3
<1>5. CASE ListenFails \/ AwaitSignal \/ AllEnded \/ StdioEnds
  <2>1. Opened'
    BY <1>5 DEF ListenFails, AwaitSignal, AllEnded, StdioEnds, Goes, Opened
  <2>2. CASE ListenFails \/ AwaitSignal
    BY <2>1, <2>2 DEF ListenFails, AwaitSignal, Goes
  <2>3. CASE AllEnded \/ StdioEnds
    BY <2>1, <2>3 DEF AllEnded, StdioEnds, Goes
  <2> QED
    BY <1>5, <2>2, <2>3
<1>6. CASE DeferredListeners
  <2>1. fpc' \in {"listeners", "cancel"} /\ listening' \subseteq listening
    BY <1>6 DEF DeferredListeners, FirstClosed
  <2>2. Opened'
    BY <2>1 DEF Opened
  <2> QED
    BY <1>6, <2>1, <2>2 DEF DeferredListeners, FirstClosed
<1>7. CASE Cancel \/ SendClose \/ CloseTSNet \/ CloseControl \/ ControlClosed
  <2>1. Opened'
    <3>1. fpc' \notin {"parse", "control", "ts", "up", "peer", "stdio", "open"}
      BY <1>7 DEF Cancel, SendClose, CloseTSNet, CloseControl, ControlClosed, Goes
    <3> QED
      BY <3>1 DEF Opened
  <2>2. CASE Cancel
    BY <2>1, <2>2 DEF Cancel, EndContext, Goes
  <2>3. CASE SendClose \/ CloseTSNet
    BY <2>1, <2>3 DEF SendClose, CloseTSNet, Goes
  <2>4. CASE CloseControl
    BY <2>1, <2>4 DEF CloseControl, Goes
  <2>5. CASE ControlClosed
    BY <2>1, <2>5 DEF ControlClosed, Goes
  <2> QED
    BY <1>7, <2>2, <2>3, <2>4, <2>5
<1>8. CASE Signals
  <2>1. Opened'
    BY <1>8 DEF Signals, Woken, CloseAllListeners, Opened
  <2>2. CASE Woken
    BY <2>1, <2>2 DEF Woken, EndContext
  <2>3. CASE CloseAllListeners
    BY <2>1, <2>3 DEF CloseAllListeners, FirstClosed
  <2> QED
    BY <1>8, <2>2, <2>3 DEF Signals
<1>9. CASE InvocationEnds
  BY <1>0, <1>9 DEF InvocationEnds, EndContext
<1>10. CASE Serve
  BY <1>0, <1>10 DEF Serve
<1>11. ASSUME NEW c \in Closers, FindNoServer(c) PROVE ForwardTypeOK' /\ Opened'
  BY <1>0, <1>11 DEF FindNoServer
<1>12. ASSUME NEW i \in 1..MaxForwards, KillListener(i) \/ ListenerClosed(i)
       PROVE  ForwardTypeOK' /\ Opened'
  <2>1. /\ looping' \subseteq looping
        /\ UNCHANGED <<fpc, args, forwards, listening, sig, cancelled, tsnet, lpc, missed, goodbye>>
    BY <1>12 DEF KillListener, ListenerClosed
  <2>2. Opened'
    BY <2>1 DEF Opened
  <2> QED
    BY <2>1, <2>2
<1>13. CASE UNCHANGED commandVars
  BY <1>0, <1>13 DEF commandVars
<1>14. CASE ControlServer \/ Returned \/ UNCHANGED forwardVars
  BY <1>13, <1>14 DEF ControlServer, Returned, forwardVars
<1> QED
  BY <1>1, <1>2, <1>3, <1>4, <1>5, <1>6, <1>7, <1>8, <1>9, <1>10, <1>11, <1>12, <1>14
     DEF ForwardNext, Handler

(* The forwards being listened to are always among those asked for.           *)
THEOREM ForwardTypes == ForwardSpec => []ForwardTypeOK
<1>1. ForwardInv => ForwardTypeOK
  BY DEF ForwardInv
<1>2. NoiseInv /\ NoiseInv' /\ ForwardInv /\ [ForwardNext]_forwardVars => ForwardInv'
  BY ForwardStep, CommandStep DEF NoiseInv, ForwardInv
<1> QED
  BY <1>1, <1>2, ForwardInitial, ServerInvariant, PTL DEF ForwardSpec
-----------------------------------------------------------------------------
(* Parsing: what parsePortForwards makes of the arguments.  Nothing of it      *)
(* depends on how many ports there are.                                     *)

(* A part's ports, in their order.                                            *)
LEMMA PortRangeIs ==
  ASSUME NEW start \in Nat, NEW end \in Nat
  PROVE  LET r == PortRange(start, end)
         IN  /\ r \in Seq(Nat)
             /\ Len(r) = IF end < start THEN 0 ELSE end - start + 1
             /\ \A i \in 1..Len(r) : r[i] = start + i - 1
<1> DEFINE n == IF end < start THEN 0 ELSE end - start + 1
<1>1. n \in Nat
  OBVIOUS
<1>2. \A i \in 1..n : start + i - 1 \in Nat
  OBVIOUS
<1>3. PortRange(start, end) = [i \in 1..n |-> start + i - 1]
  BY DEF PortRange
<1> HIDE DEF n
<1>4. /\ PortRange(start, end) \in Seq(Nat) /\ Len(PortRange(start, end)) = n
      /\ \A i \in 1..n : PortRange(start, end)[i] = start + i - 1
  BY <1>1, <1>2, <1>3
<1> QED
  BY <1>4 DEF n

(* A part that is a port, or a range, of ports.                               *)
Single(part) == Len(part) = 1 /\ part[1] \in 1..MaxPort
Interval(part) == Len(part) = 2 /\ part[1] \in 1..MaxPort /\ part[2] \in 1..MaxPort

(* A part is one text or two.                                                *)
LEMMA PartIs ==
  ASSUME NEW part \in Parts
  PROVE  \/ Len(part) = 1 /\ DOMAIN part = {1} /\ part[1] \in Nat /\ part = <<part[1]>>
         \/ Len(part) = 2 /\ DOMAIN part = {1, 2} /\ part[1] \in Nat /\ part[2] \in Nat
<1>1. CASE \E a \in Texts : part = <<a>>
  <2>1. PICK a \in Texts : part = <<a>>
    BY <1>1
  <2>2. a \in Nat
    BY ForwardAssumption DEF Texts
  <2> QED
    BY <2>1, <2>2
<1>2. CASE \E a, b \in Texts : part = <<a, b>>
  <2>1. PICK a \in Texts, b \in Texts : part = <<a, b>>
    BY <1>2
  <2>2. a \in Nat /\ b \in Nat
    BY ForwardAssumption DEF Texts
  <2> QED
    BY <2>1, <2>2
<1> QED
  BY <1>1, <1>2 DEF Parts

(* A part of the kind asked for gives its ports in order, any other none.     *)
LEMMA PortsParsed ==
  ASSUME NEW part \in Parts, NEW ranges \in BOOLEAN
  PROVE  LET r == ParsePorts(part, ranges)
             good == IF ranges THEN Interval(part) ELSE Single(part)
             width == part[Len(part)] - part[1]
         IN  /\ r \in Seq(Nat)
             /\ Len(r) = IF good /\ width >= 0 THEN width + 1 ELSE 0
             /\ \A i \in 1..Len(r) : r[i] = part[1] + i - 1
<1>1. CASE Len(part) = 1 /\ DOMAIN part = {1} /\ part[1] \in Nat /\ part = <<part[1]>>
  <2>1. (\E i \in DOMAIN part : ~IsPort(part[i])) <=> ~Single(part)
    BY <1>1 DEF IsPort, Single
  <2>2. ~Interval(part)
    BY <1>1 DEF Interval
  <2>3. CASE Single(part) /\ ~ranges
    <3>1. ParsePorts(part, ranges) = part
      BY <1>1, <2>1, <2>3 DEF ParsePorts
    <3>2. PICK n \in Nat : part = <<n>>
      BY <1>1
    <3>3. part \in Seq(Nat) /\ Len(part) = 1 /\ part[1] = n
      BY <3>2
    <3>4. \A i \in 1..1 : part[i] = part[1] + i - 1
      BY <3>3
    <3>5. part[Len(part)] - part[1] = 0
      BY <3>3
    <3> QED
      BY <2>3, <3>1, <3>3, <3>4, <3>5
  <2>4. CASE ~(Single(part) /\ ~ranges)
    <3>1. ParsePorts(part, ranges) = <<>>
      BY <1>1, <2>1, <2>4 DEF ParsePorts
    <3> QED
      BY <2>2, <2>4, <3>1
  <2> QED
    BY <2>3, <2>4
<1>2. CASE Len(part) = 2 /\ DOMAIN part = {1, 2} /\ part[1] \in Nat /\ part[2] \in Nat
  <2>1. (\E i \in DOMAIN part : ~IsPort(part[i])) <=> ~Interval(part)
    BY <1>2 DEF IsPort, Interval
  <2>2. ~Single(part)
    BY <1>2 DEF Single
  <2>3. CASE Interval(part) /\ ranges
    <3>1. ParsePorts(part, ranges) = PortRange(part[1], part[2])
      BY <1>2, <2>1, <2>3 DEF ParsePorts
    <3>2. /\ PortRange(part[1], part[2]) \in Seq(Nat)
          /\ Len(PortRange(part[1], part[2]))
               = IF part[2] < part[1] THEN 0 ELSE part[2] - part[1] + 1
          /\ \A i \in 1..Len(PortRange(part[1], part[2])) :
               PortRange(part[1], part[2])[i] = part[1] + i - 1
      BY <1>2, PortRangeIs
    <3>3. part[2] < part[1] <=> ~(part[Len(part)] - part[1] >= 0)
      BY <1>2
    <3>4. part[Len(part)] = part[2]
      BY <1>2
    <3> QED
      BY <2>3, <3>1, <3>2, <3>3, <3>4
  <2>4. CASE ~(Interval(part) /\ ranges)
    <3>1. ParsePorts(part, ranges) = <<>>
      BY <1>2, <2>1, <2>4 DEF ParsePorts
    <3> QED
      BY <2>2, <2>4, <3>1
  <2> QED
    BY <2>3, <2>4
<1> QED
  BY <1>1, <1>2, PartIs

Specs == [net : {"tcp", "udp"}, ip : {"localhost", "other"}, local : Nat, remote : Nat]

Width(part) == part[Len(part)] - part[1]

Kind(part, ranges) == IF ranges THEN Interval(part) ELSE Single(part)

LEMMA WellFormedIs ==
  ASSUME NEW a \in Arguments
  PROVE  WellFormed(a) <=> /\ Kind(a.local, Len(a.local) = 2) /\ Kind(a.remote, Len(a.local) = 2)
                           /\ Width(a.local) = Width(a.remote) /\ Width(a.local) >= 0
<1>1. a.local \in Parts /\ a.remote \in Parts
  BY DEF Arguments
<1> DEFINE l == a.local
           r == a.remote
           Ports(part) == {part[i] : i \in DOMAIN part}
<1>2. WellFormed(a) <=> /\ Ports(l) \cup Ports(r) \subseteq 1..MaxPort
                        /\ Len(l) = Len(r) /\ Width(l) = Width(r) /\ Width(l) >= 0
  BY DEF WellFormed, Width
<1>3. ASSUME NEW part \in Parts, NEW ranges \in BOOLEAN
      PROVE  Kind(part, ranges) <=> /\ Ports(part) \subseteq 1..MaxPort
                                    /\ Len(part) = IF ranges THEN 2 ELSE 1
  <2>1. CASE Len(part) = 1 /\ DOMAIN part = {1}
    BY <2>1 DEF Kind, Interval, Single
  <2>2. CASE Len(part) = 2 /\ DOMAIN part = {1, 2}
    BY <2>2 DEF Kind, Interval, Single
  <2> QED
    BY <2>1, <2>2, PartIs
<1>4. Len(l) = IF Len(l) = 2 THEN 2 ELSE 1
  BY <1>1, PartIs
<1> HIDE DEF l, r, Ports
<1>5. /\ Kind(l, Len(l) = 2) <=> Ports(l) \subseteq 1..MaxPort
      /\ Kind(r, Len(l) = 2) <=> Ports(r) \subseteq 1..MaxPort /\ Len(l) = Len(r)
  BY <1>1, <1>3, <1>4 DEF l, r
<1> QED
  BY <1>2, <1>5 DEF l, r

(* The ports of a well-formed argument, paired in order.                      *)
LEMMA ArgumentParsed ==
  ASSUME NEW a \in Arguments
  PROVE  LET s == ParseSrcDestPorts(a)
         IN  /\ s \in Seq(Specs)
             /\ Len(s) = IF WellFormed(a) THEN Width(a.local) + 1 ELSE 0
             /\ \A i \in 1..Len(s) :
                  s[i] = [net |-> a.net, ip |-> a.ip,
                          local |-> a.local[1] + i - 1, remote |-> a.remote[1] + i - 1]
<1>1. /\ a.local \in Parts /\ a.remote \in Parts
      /\ a.net \in {"tcp", "udp"} /\ a.ip \in {"localhost", "other"}
  BY DEF Arguments
<1> DEFINE ranges == Len(a.local) = 2
           l == ParsePorts(a.local, ranges)
           r == ParsePorts(a.remote, ranges)
           spec(i) == [net |-> a.net, ip |-> a.ip, local |-> l[i], remote |-> r[i]]
           s == ParseSrcDestPorts(a)
<1>2. /\ l \in Seq(Nat)
      /\ Len(l) = IF Kind(a.local, ranges) /\ Width(a.local) >= 0 THEN Width(a.local) + 1 ELSE 0
      /\ \A i \in 1..Len(l) : l[i] = a.local[1] + i - 1
  BY <1>1, PortsParsed DEF Kind, Width
<1>3. /\ r \in Seq(Nat)
      /\ Len(r) = IF Kind(a.remote, ranges) /\ Width(a.remote) >= 0 THEN Width(a.remote) + 1 ELSE 0
      /\ \A i \in 1..Len(r) : r[i] = a.remote[1] + i - 1
  BY <1>1, PortsParsed DEF Kind, Width
<1>4. s = IF Len(l) # Len(r) THEN <<>> ELSE [i \in DOMAIN l |-> spec(i)]
  BY DEF ParseSrcDestPorts
<1>5. WellFormed(a) <=> /\ Kind(a.local, ranges) /\ Kind(a.remote, ranges)
                        /\ Width(a.local) = Width(a.remote) /\ Width(a.local) >= 0
  BY WellFormedIs
<1>6. Width(a.local) \in Int /\ Width(a.remote) \in Int
  BY <1>1, PartIs DEF Width
<1> HIDE DEF l, r, s, ranges
<1>7. CASE Len(l) # Len(r)
  <2>1. ~WellFormed(a) /\ s = <<>>
    BY <1>2, <1>3, <1>4, <1>5, <1>7
  <2> QED
    BY <2>1 DEF s
<1>8. CASE Len(l) = Len(r)
  <2>1. DOMAIN l = 1..Len(l) /\ Len(l) \in Nat
    BY <1>2
  <2>2. s = [i \in 1..Len(l) |-> spec(i)]
    BY <1>4, <1>8, <2>1
  <2>3. \A i \in 1..Len(l) :
           /\ spec(i) = [net |-> a.net, ip |-> a.ip,
                         local |-> a.local[1] + i - 1, remote |-> a.remote[1] + i - 1]
           /\ l[i] \in Nat /\ r[i] \in Nat
    BY <1>2, <1>3, <1>8
  <2>4. \A i \in 1..Len(l) : spec(i) \in Specs
    BY <1>1, <2>3 DEF Specs
  <2>5. Len(l) = IF WellFormed(a) THEN Width(a.local) + 1 ELSE 0
    BY <1>2, <1>3, <1>5, <1>6, <1>8
  <2> HIDE DEF spec
  <2>6. s \in Seq(Specs) /\ Len(s) = Len(l) /\ \A i \in 1..Len(l) : s[i] = spec(i)
    BY <2>1, <2>2, <2>4
  <2> QED
    BY <2>3, <2>5, <2>6 DEF s
<1> QED
  BY <1>7, <1>8

(* A well-formed argument is parsed to what it asks for, each local port once;  *)
(* any other to nothing.                                                    *)
LEMMA ArgumentAsAsked ==
  ASSUME NEW a \in Arguments
  PROVE  LET s == ParseSrcDestPorts(a)
         IN  /\ s = <<>> <=> ~WellFormed(a)
             /\ WellFormed(a) => {s[i] : i \in 1..Len(s)} = Asks(a)
             /\ \A i, j \in 1..Len(s) : i # j => Endpoint(s[i]) # Endpoint(s[j])
<1> DEFINE s == ParseSrcDestPorts(a)
           w == Width(a.local)
           spec(i) == [net |-> a.net, ip |-> a.ip,
                       local |-> a.local[1] + i - 1, remote |-> a.remote[1] + i - 1]
<1>1. /\ s \in Seq(Specs)
      /\ Len(s) = IF WellFormed(a) THEN w + 1 ELSE 0
      /\ \A i \in 1..Len(s) : s[i] = spec(i)
  BY ArgumentParsed
<1>2. a.local \in Parts /\ a.remote \in Parts
  BY DEF Arguments
<1>3. /\ a.local[1] \in Nat /\ a.remote[1] \in Nat
      /\ a.local[Len(a.local)] \in Nat /\ a.remote[Len(a.remote)] \in Nat
  BY <1>2, PartIs
<1>4. WellFormed(a) => w \in Nat /\ Width(a.remote) = w
  BY <1>3, WellFormedIs DEF Width
<1> HIDE DEF s, w
<1>5. s = <<>> <=> ~WellFormed(a)
  BY <1>1, <1>4
<1>6. ASSUME WellFormed(a)
      PROVE  {s[i] : i \in 1..Len(s)} = Asks(a)
  <2>1. /\ w \in Nat /\ Len(s) = w + 1
        /\ a.local[Len(a.local)] = a.local[1] + w /\ a.remote[Len(a.remote)] = a.remote[1] + w
    <3>1. w \in Nat /\ Len(s) = w + 1 /\ Width(a.remote) = w
      BY <1>1, <1>4, <1>6
    <3>2. /\ w = a.local[Len(a.local)] - a.local[1]
          /\ Width(a.remote) = a.remote[Len(a.remote)] - a.remote[1]
      BY DEF w, Width
    <3>3. \A x, y \in Nat : y - x = w => y = x + w
      BY <3>1
    <3> QED
      BY <1>3, <3>1, <3>2, <3>3
  <2>2. ASSUME NEW i \in 1..Len(s)
        PROVE  s[i] \in Asks(a)
    <3>1. /\ a.local[1] + i - 1 \in a.local[1]..a.local[Len(a.local)]
          /\ a.remote[1] + i - 1 \in a.remote[1]..a.remote[Len(a.remote)]
          /\ (a.local[1] + i - 1) - a.local[1] = (a.remote[1] + i - 1) - a.remote[1]
      <4>1. i \in 1..w + 1
        BY <2>1
      <4>2. ASSUME NEW p \in Nat
            PROVE  p + i - 1 \in p..p + w /\ (p + i - 1) - p = i - 1
        BY <2>1, <4>1
      <4> QED
        BY <1>3, <2>1, <4>2
    <3>2. s[i] = spec(i)
      BY <1>1
    <3> QED
      BY <3>1, <3>2 DEF Asks
  <2>3. ASSUME NEW t \in Asks(a)
        PROVE  t \in {s[i] : i \in 1..Len(s)}
    <3>1. /\ t \in [net : {a.net}, ip : {a.ip}, local : a.local[1]..a.local[Len(a.local)],
                    remote : a.remote[1]..a.remote[Len(a.remote)]]
          /\ t.local - a.local[1] = t.remote - a.remote[1]
      BY <2>3 DEF Asks
    <3>2. PICK i \in 1..Len(s) : t.local = a.local[1] + i - 1
      <4>1. t.local \in a.local[1]..a.local[1] + w
        BY <2>1, <3>1
      <4>2. ASSUME NEW p \in Nat, NEW x \in p..p + w
            PROVE  x - p + 1 \in 1..w + 1 /\ x = p + (x - p + 1) - 1
        BY <2>1
      <4> QED
        BY <1>3, <2>1, <4>1, <4>2
    <3>3. t.remote = a.remote[1] + i - 1
      <4>1. t.remote \in Int
        BY <1>3, <3>1
      <4>2. i \in Int
        BY <2>1
      <4>3. ASSUME NEW p \in Int, NEW q \in Int, NEW y \in Int, (p + i - 1) - p = y - q
            PROVE  y = q + i - 1
        BY <4>2, <4>3
      <4>4. (a.local[1] + i - 1) - a.local[1] = t.remote - a.remote[1]
        BY <3>1, <3>2
      <4> QED
        BY <1>3, <4>1, <4>3, <4>4
    <3>4. t = spec(i)
      BY <3>1, <3>2, <3>3
    <3> QED
      BY <1>1, <3>4
  <2> QED
    BY <2>2, <2>3
<1>7. ASSUME NEW i \in 1..Len(s), NEW j \in 1..Len(s), i # j
      PROVE  Endpoint(s[i]) # Endpoint(s[j])
  <2>0. s[i] = spec(i) /\ s[j] = spec(j)
    BY <1>1
  <2>1. s[i].local = a.local[1] + i - 1 /\ s[j].local = a.local[1] + j - 1
    BY <2>0
  <2>2. s[i].local # s[j].local
    BY <1>1, <1>3, <1>7, <2>1
  <2> QED
    BY <2>2 DEF Endpoint
<1> QED
  BY <1>5, <1>6, <1>7 DEF s

(* A sequence without repetition has as many elements as places.              *)
LEMMA CountOnce ==
  ASSUME NEW S, NEW s \in Seq(S),
         \A i, j \in 1..Len(s) : i # j => s[i] # s[j]
  PROVE  Cardinality({s[i] : i \in 1..Len(s)}) = Len(s)
<1> DEFINE T == {s[i] : i \in 1..Len(s)}
<1>1. Len(s) \in Nat /\ s \in [1..Len(s) -> T]
  OBVIOUS
<1>2. s \in Bijection(1..Len(s), T)
  BY <1>1 DEF Bijection, Injection, Surjection, IsInjective
<1>3. ExistsBijection(1..Len(s), T)
  BY <1>2 DEF ExistsBijection
<1> QED
  BY <1>1, <1>3, FS_CountingElements

(* FlattenSeq is defined by recursion; of the lengths that occur it is known   *)
(* by naming the function it recurs to.                                      *)
LEMMA FlattenOne ==
  ASSUME NEW s
  PROVE  FlattenSeq(<<s>>) = s
<1> DEFINE q == <<s>>
           Rule(f) == [i \in 1..1 |-> IF i = 1 THEN q[i] ELSE f[i - 1] \o q[i]]
           flat == CHOOSE f : f = Rule(f)
<1>1. [i \in 1..1 |-> s] = Rule([i \in 1..1 |-> s])
  OBVIOUS
<1>2. flat = Rule(flat)
  <2> HIDE DEF q, Rule
  <2> QED
    BY <1>1
<1>3. flat[1] = s
  <2> HIDE DEF flat
  <2> QED
    BY <1>2
<1>4. FlattenSeq(q) = flat[1]
  BY DEF FlattenSeq
<1> QED
  BY <1>3, <1>4

LEMMA FlattenTwo ==
  ASSUME NEW s, NEW t
  PROVE  FlattenSeq(<<s, t>>) = s \o t
<1> DEFINE q == <<s, t>>
           next(f, i) == IF i = 1 THEN q[i] ELSE f[i - 1] \o q[i]
           Rule(f) == [i \in 1..2 |-> next(f, i)]
           flat == CHOOSE f : f = Rule(f)
           both == [i \in 1..2 |-> IF i = 1 THEN s ELSE s \o t]
<1>1. both = Rule(both)
  OBVIOUS
<1>2. flat = Rule(flat)
  <2> HIDE DEF q, Rule, both
  <2> QED
    BY <1>1
<1>3. flat[1] = next(flat, 1) /\ flat[2] = next(flat, 2)
  <2> HIDE DEF flat, next
  <2> QED
    BY <1>2
<1>4. flat[1] = s
  BY <1>3
<1>5. next(flat, 2) = flat[1] \o t
  <2> HIDE DEF flat
  <2> QED
    OBVIOUS
<1>6. FlattenSeq(q) = flat[2]
  BY DEF FlattenSeq
<1> QED
  BY <1>3, <1>4, <1>5, <1>6

(* What ForwardsAsAsked says of a list of arguments.                          *)
InOrder(asked) ==
    /\ \A i \in DOMAIN asked : WellFormed(asked[i])
    /\ \A i, j \in DOMAIN asked : i < j => ~Clash(asked[i], asked[j])

Wanted(asked) == UNION {Asks(asked[i]) : i \in DOMAIN asked}

AsAsked(asked) ==
    LET specs == ParsePortForwards(asked)
    IN  /\ {specs[i] : i \in DOMAIN specs} = IF InOrder(asked) THEN Wanted(asked) ELSE {}
        /\ InOrder(asked) => Len(specs) = Cardinality(Wanted(asked))

(* The command lines: no argument, one, or two, whatever they are.            *)
LEMMA NothingAsked == AsAsked(<<>>)
<1>1. ParsePortForwards(<<>>) = <<>>
  <2>1. FlattenSeq(<<>>) = <<>>
    BY DEF FlattenSeq
  <2>2. [i \in DOMAIN <<>> |-> ParseSrcDestPorts(<<>>[i])] = <<>>
    OBVIOUS
  <2> QED
    BY <2>1, <2>2 DEF ParsePortForwards
<1>2. Wanted(<<>>) = {}
  BY DEF Wanted
<1>3. Cardinality({}) = 0 /\ Len(<<>>) = 0
  BY FS_EmptySet
<1>4. {<<>>[i] : i \in DOMAIN <<>>} = {}
  OBVIOUS
<1> QED
  BY <1>1, <1>2, <1>3, <1>4 DEF AsAsked

LEMMA OneAsked ==
  ASSUME NEW a \in Arguments
  PROVE  AsAsked(<<a>>)
<1> DEFINE s == ParseSrcDestPorts(a)
           specs == ParsePortForwards(<<a>>)
<1>1. /\ s \in Seq(Specs)
      /\ s = <<>> <=> ~WellFormed(a)
      /\ WellFormed(a) => {s[i] : i \in 1..Len(s)} = Asks(a)
      /\ \A i, j \in 1..Len(s) : i # j => Endpoint(s[i]) # Endpoint(s[j])
  BY ArgumentParsed, ArgumentAsAsked
<1>2. specs = s
  <2>1. [i \in DOMAIN <<a>> |-> ParseSrcDestPorts(<<a>>[i])] = <<s>>
    OBVIOUS
  <2>2. FlattenSeq(<<s>>) = s
    BY FlattenOne
  <2>3. (\E i \in DOMAIN <<s>> : <<s>>[i] = <<>>) <=> s = <<>>
    OBVIOUS
  <2> HIDE DEF s
  <2>4. ~ \E i, j \in DOMAIN s : i < j /\ Endpoint(s[i]) = Endpoint(s[j])
    BY <1>1
  <2> QED
    BY <2>1, <2>2, <2>3, <2>4 DEF ParsePortForwards
<1>3. InOrder(<<a>>) <=> WellFormed(a)
  BY DEF InOrder
<1>4. Wanted(<<a>>) = Asks(a)
  <2>1. {Asks(<<a>>[i]) : i \in DOMAIN <<a>>} = {Asks(a)}
    OBVIOUS
  <2> QED
    BY <2>1 DEF Wanted
<1> HIDE DEF s, specs
<1>5. DOMAIN s = 1..Len(s)
  BY <1>1
<1>6. {s[i] : i \in DOMAIN s} = IF WellFormed(a) THEN Asks(a) ELSE {}
  BY <1>1, <1>5
<1>7. Cardinality({s[i] : i \in 1..Len(s)}) = Len(s)
  BY <1>1, CountOnce
<1>8. AsAsked(<<a>>)
        <=> /\ {specs[i] : i \in DOMAIN specs} = IF InOrder(<<a>>) THEN Wanted(<<a>>) ELSE {}
            /\ InOrder(<<a>>) => Len(specs) = Cardinality(Wanted(<<a>>))
  BY DEF AsAsked, specs
<1> QED
  BY <1>1, <1>2, <1>3, <1>4, <1>6, <1>7, <1>8

LEMMA TwoAsked ==
  ASSUME NEW a \in Arguments, NEW b \in Arguments
  PROVE  AsAsked(<<a, b>>)
<1> DEFINE s == ParseSrcDestPorts(a)
           t == ParseSrcDestPorts(b)
           st == s \o t
           twice == \E i, j \in DOMAIN st : i < j /\ Endpoint(st[i]) = Endpoint(st[j])
           specs == ParsePortForwards(<<a, b>>)
<1>1. /\ s \in Seq(Specs)
      /\ s = <<>> <=> ~WellFormed(a)
      /\ WellFormed(a) => {s[i] : i \in 1..Len(s)} = Asks(a)
      /\ \A i, j \in 1..Len(s) : i # j => Endpoint(s[i]) # Endpoint(s[j])
  BY ArgumentParsed, ArgumentAsAsked
<1>2. /\ t \in Seq(Specs)
      /\ t = <<>> <=> ~WellFormed(b)
      /\ WellFormed(b) => {t[i] : i \in 1..Len(t)} = Asks(b)
      /\ \A i, j \in 1..Len(t) : i # j => Endpoint(t[i]) # Endpoint(t[j])
  BY ArgumentParsed, ArgumentAsAsked
<1>3. specs = IF ~WellFormed(a) \/ ~WellFormed(b) \/ twice THEN <<>> ELSE st
  <2>1. [i \in DOMAIN <<a, b>> |-> ParseSrcDestPorts(<<a, b>>[i])] = <<s, t>>
    OBVIOUS
  <2>2. FlattenSeq(<<s, t>>) = st
    BY FlattenTwo
  <2>3. (\E i \in DOMAIN <<s, t>> : <<s, t>>[i] = <<>>) <=> s = <<>> \/ t = <<>>
    OBVIOUS
  <2> HIDE DEF s, t, st
  <2>4. specs = IF (\E i \in DOMAIN <<s, t>> : <<s, t>>[i] = <<>>) \/ twice THEN <<>> ELSE st
    BY <2>1, <2>2 DEF ParsePortForwards
  <2> HIDE DEF specs, twice
  <2> QED
    BY <1>1, <1>2, <2>3, <2>4
<1>4. InOrder(<<a, b>>) <=> WellFormed(a) /\ WellFormed(b) /\ ~Clash(a, b)
  BY DEF InOrder
<1>5. Wanted(<<a, b>>) = Asks(a) \cup Asks(b)
  <2>1. {Asks(<<a, b>>[i]) : i \in DOMAIN <<a, b>>} = {Asks(a), Asks(b)}
    OBVIOUS
  <2> QED
    BY <2>1 DEF Wanted
<1> HIDE DEF s, t
<1>6. /\ st \in Seq(Specs) /\ Len(st) = Len(s) + Len(t) /\ DOMAIN st = 1..Len(st)
      /\ \A i \in 1..Len(s) + Len(t) : st[i] = IF i <= Len(s) THEN s[i] ELSE t[i - Len(s)]
      /\ Len(s) \in Nat /\ Len(t) \in Nat
  BY <1>1, <1>2, ConcatProperties
<1> HIDE DEF st
<1>7. /\ \A i \in 1..Len(s) : i \in 1..Len(st) /\ st[i] = s[i]
      /\ \A i \in 1..Len(t) : Len(s) + i \in 1..Len(st) /\ st[Len(s) + i] = t[i]
  <2>1. ASSUME NEW i \in 1..Len(t)
        PROVE  Len(s) + i \in 1..Len(s) + Len(t) /\ ~(Len(s) + i <= Len(s)) /\ Len(s) + i - Len(s) = i
    BY <1>6
  <2> QED
    BY <1>6, <2>1
<1>8. ASSUME WellFormed(a), WellFormed(b)
      PROVE  /\ twice <=> Clash(a, b)
             /\ {st[i] : i \in DOMAIN st} = Asks(a) \cup Asks(b)
  <2>1. \A i \in 1..Len(st) : \/ i \in 1..Len(s)
                              \/ \E k \in 1..Len(t) : i = Len(s) + k
    <3>1. ASSUME NEW i \in 1..Len(s) + Len(t), i \notin 1..Len(s)
          PROVE  i - Len(s) \in 1..Len(t) /\ i = Len(s) + (i - Len(s))
      BY <1>6, <3>1
    <3> QED
      BY <1>6, <3>1
  <2>2. ASSUME NEW i \in DOMAIN st, NEW j \in DOMAIN st, i < j,
               Endpoint(st[i]) = Endpoint(st[j])
        PROVE  Clash(a, b)
    <3>1. CASE j \in 1..Len(s)
      <4>1. i \in 1..Len(s) /\ i # j
        BY <1>6, <2>2, <3>1
      <4> QED
        BY <1>1, <1>7, <2>2, <3>1, <4>1
    <3>2. CASE \E k \in 1..Len(t) : i = Len(s) + k
      <4>1. PICK k \in 1..Len(t) : i = Len(s) + k
        BY <3>2
      <4>2. j \notin 1..Len(s)
        BY <1>6, <2>2, <4>1
      <4>3. PICK l \in 1..Len(t) : j = Len(s) + l
        BY <1>6, <2>1, <4>2
      <4>4. k # l
        BY <1>6, <2>2, <4>1, <4>3
      <4> QED
        BY <1>2, <1>7, <2>2, <4>1, <4>3, <4>4
    <3>3. CASE i \in 1..Len(s) /\ \E k \in 1..Len(t) : j = Len(s) + k
      <4>1. PICK k \in 1..Len(t) : j = Len(s) + k
        BY <3>3
      <4>2. s[i] \in Asks(a) /\ t[k] \in Asks(b)
        BY <1>1, <1>2, <1>8, <3>3
      <4>3. Endpoint(s[i]) = Endpoint(t[k])
        BY <1>7, <2>2, <3>3, <4>1
      <4> QED
        BY <4>2, <4>3 DEF Clash
    <3> QED
      BY <1>6, <2>1, <3>1, <3>2, <3>3
  <2>3. ASSUME Clash(a, b)
        PROVE  twice
    <3>1. PICK x \in Asks(a), y \in Asks(b) : Endpoint(x) = Endpoint(y)
      BY <2>3 DEF Clash
    <3>2. PICK i \in 1..Len(s), k \in 1..Len(t) : x = s[i] /\ y = t[k]
      BY <1>1, <1>2, <1>8, <3>1
    <3>3. i < Len(s) + k
      BY <1>6
    <3> QED
      BY <1>6, <1>7, <3>1, <3>2, <3>3
  <2>4. {st[i] : i \in DOMAIN st} = {s[i] : i \in 1..Len(s)} \cup {t[i] : i \in 1..Len(t)}
    BY <1>6, <1>7, <2>1
  <2> QED
    BY <1>1, <1>2, <1>8, <2>2, <2>3, <2>4
<1>9. CASE InOrder(<<a, b>>)
  <2>1. specs = st /\ ~twice /\ {st[i] : i \in DOMAIN st} = Wanted(<<a, b>>)
    BY <1>3, <1>4, <1>5, <1>8, <1>9
  <2>2. \A i, j \in 1..Len(st) : i # j => st[i] # st[j]
    <3>1. \A i, j \in 1..Len(st) : i < j => st[i] # st[j]
      BY <1>6, <2>1
    <3>2. \A i, j \in 1..Len(st) : i # j => i < j \/ j < i
      BY <1>6
    <3> QED
      BY <3>1, <3>2
  <2>3. Cardinality({st[i] : i \in 1..Len(st)}) = Len(st)
    BY <1>6, <2>2, CountOnce
  <2> QED
    BY <1>6, <1>9, <2>1, <2>3 DEF AsAsked
<1>10. CASE ~InOrder(<<a, b>>)
  <2>1. specs = <<>>
    BY <1>3, <1>4, <1>8, <1>10
  <2>2. {<<>>[i] : i \in DOMAIN <<>>} = {}
    OBVIOUS
  <2> QED
    BY <1>10, <2>1, <2>2 DEF AsAsked
<1> QED
  BY <1>9, <1>10

(* Every command line.                                                        *)
LEMMA LineAsAsked ==
  ASSUME NEW asked \in CommandLines
  PROVE  AsAsked(asked)
<1>1. CASE \E a \in Arguments : asked = <<a>>
  BY <1>1, OneAsked
<1>2. CASE \E a, b \in Plain : asked = <<a, b>>
  <2>1. \E a, b \in Arguments : asked = <<a, b>>
    BY <1>2 DEF Plain
  <2> QED
    BY <2>1, TwoAsked
<1> QED
  BY <1>1, <1>2, NothingAsked DEF CommandLines

(* Until they are parsed the arguments are those of the command line.          *)
Unparsed == fpc = "parse" => args \in CommandLines

LEMMA UnparsedStays ==
  ASSUME Unparsed, [ForwardNext]_forwardVars
  PROVE  Unparsed'
<1> SUFFICES ASSUME fpc' = "parse" PROVE fpc = "parse" /\ args' = args
  BY DEF Unparsed
<1>1. CASE Handler
  <2>1. fpc' # "parse"
    <3>1. CASE Parse
      BY <3>1 DEF Parse
    <3>2. CASE NewServer \/ NewTSNet \/ Up \/ FindPeer \/ ConnectFails
      BY <3>2 DEF NewServer, NewTSNet, Up, FindPeer, ConnectFails, Goes
    <3>3. CASE Listen \/ ListenFails \/ AwaitSignal \/ AllEnded \/ StdioEnds
      BY <3>3 DEF Listen, ListenFails, AwaitSignal, AllEnded, StdioEnds, Goes
    <3>4. CASE DeferredListeners \/ Cancel \/ SendClose
      BY <3>4 DEF DeferredListeners, Cancel, SendClose, Goes
    <3>5. CASE CloseTSNet \/ CloseControl \/ ControlClosed
      BY <3>5 DEF CloseTSNet, CloseControl, ControlClosed, Goes
    <3> QED
      BY <1>1, <3>1, <3>2, <3>3, <3>4, <3>5 DEF Handler
  <2> QED
    BY <2>1
<1>2. CASE Signals \/ InvocationEnds \/ Serve
  BY <1>2 DEF Signals, Woken, CloseAllListeners, InvocationEnds, Serve
<1>3. CASE ControlServer \/ Returned \/ UNCHANGED forwardVars
  BY <1>3 DEF ControlServer, Returned, forwardVars, commandVars
<1>4. CASE \E i \in 1..MaxForwards : KillListener(i) \/ ListenerClosed(i)
  BY <1>4 DEF KillListener, ListenerClosed
<1>5. CASE \E c \in Closers : FindNoServer(c)
  BY <1>5 DEF FindNoServer
<1> QED
  BY <1>1, <1>2, <1>3, <1>4, <1>5 DEF ForwardNext

(* A command whose arguments are in order forwards exactly what they ask for,   *)
(* each port once, and any other forwards nothing, whatever the highest port. *)
THEOREM AsksAreForwarded == ForwardSpec => []ForwardsAsAsked
<1>1. ForwardInit => Unparsed
  BY DEF ForwardInit, Unparsed
<1>2. Unparsed /\ [ForwardNext]_forwardVars => Unparsed'
  BY UnparsedStays
<1>3. Unparsed => ForwardsAsAsked
  <2> SUFFICES ASSUME fpc = "parse", AsAsked(args) PROVE ForwardsAsAsked
    BY LineAsAsked DEF Unparsed, ForwardsAsAsked
  <2> QED
    BY DEF ForwardsAsAsked, AsAsked, InOrder, Wanted
<1> QED
  BY <1>1, <1>2, <1>3, PTL DEF ForwardSpec
=============================================================================
