----------------------------- MODULE SendOverlay -----------------------------
(***************************************************************************)
(* The client side of the control overlay (overlay/send.go)                 *)
(*                                                                         *)
(*   L  ListenOverlayDERP: connects, says hello, installs the close         *)
(*      function, starts W and O and receives,                              *)
(*   W  the context watcher, which calls Close,                             *)
(*   O  the goroutine that sends what is in out, and the keep-alives,       *)
(*   T  the client's control loop at the other ends of in and out,          *)
(*   callers of OpenUDP, and the owner, who calls Close.                    *)
(*                                                                         *)
(* DERP and the host are external.  A packet may be lost, late or doubled;  *)
(* the host answers an OpenUDP request with its request id, which names the *)
(* call here (ids are unique).  A connection may break at any time: a Recv  *)
(* waiting on it fails, and the next Send or Recv either fails or           *)
(* reconnects, as derphttp does.                                            *)
(***************************************************************************)
EXTENDS Naturals, Sequences

CONSTANTS
    Calls,      \* calls of OpenUDP, each with its request id
    InCap,      \* capacity of in  (8 in the code)
    OutCap,     \* capacity of out (8 in the code)
    NoCall      \* not a call

ASSUME SendAssumption ==
    /\ NoCall \notin Calls /\ "node" \notin Calls
    /\ InCap \in Nat \ {0} /\ OutCap \in Nat \ {0}

Closers == {"L", "W", "owner"}

VARIABLES
    lpc,        \* where L is; "failed": returned before it deferred Close
    lCall,      \* the call whose answer L delivers
    cpc,        \* [Closers -> place in Close]; W also waits
    closed,     \* closed, and done with it: both change under closeMu
    closeFunc,  \* the close function is installed
    goodbyes,   \* runs of the close function, which sends the goodbye
    ctxDone,    \* the context given to ListenOverlayDERP
    conn,       \* the DERP client: "none", "open", "lost" or "closed"
    opc, oMsg,  \* O: its place and the message in hand
    out,        \* channel: "node" or the call of an OpenUDP request
    in,         \* number of updates in the channel to T
    tpc,        \* T: "select", "send" or "ended"
    requests,   \* calls in the requests map
    result,     \* [Calls -> the call's one-slot channel, "none" when empty]
    upc,        \* [Calls -> place in OpenUDP]
    ret,        \* [Calls -> what OpenUDP returns]
    host        \* external: [Calls -> what the host did about the request]

lVars == <<lpc, lCall>>
closeVars == <<cpc, closed, closeFunc, goodbyes>>
derpVars == <<ctxDone, conn>>
oVars == <<opc, oMsg>>
tVars == <<in, tpc>>
callVars == <<requests, upc, ret>>
sendVars == <<lVars, closeVars, derpVars, oVars, out, tVars, callVars, result, host>>

SendTypeOK ==
    /\ lpc \in {"start", "install", "hangup", "serve", "loop", "recv", "in",
                "reply", "deliver", "return", "ended", "failed"}
    /\ lCall \in Calls \cup {NoCall}
    /\ cpc \in [Closers -> {"idle", "wait", "lock", "hangup", "done"}]
    /\ closed \in BOOLEAN /\ closeFunc \in BOOLEAN /\ goodbyes \in 0..1
    /\ ctxDone \in BOOLEAN /\ conn \in {"none", "open", "lost", "closed"}
    /\ opc \in {"none", "select", "send", "ended"}
    /\ oMsg \in Calls \cup {"node", NoCall}
    /\ out \in Seq(Calls \cup {"node"}) /\ Len(out) <= OutCap
    /\ in \in 0..InCap /\ tpc \in {"select", "send", "ended"}
    /\ requests \subseteq Calls
    /\ result \in [Calls -> {"none", "ok", "refused"}]
    /\ upc \in [Calls -> {"idle", "enqueue", "await", "leave", "done"}]
    /\ ret \in [Calls -> {"none", "ok", "refused", "ctx", "closed"}]
    /\ host \in [Calls -> {"none", "asked", "ok", "refused"}]

SendInit ==
    /\ lpc = "start" /\ lCall = NoCall
    /\ cpc = [c \in Closers |-> "idle"]
    /\ closed = FALSE /\ closeFunc = FALSE /\ goodbyes = 0
    /\ ctxDone = FALSE /\ conn = "none"
    /\ opc = "none" /\ oMsg = NoCall
    /\ out = << >> /\ in = 0 /\ tpc = "select"
    /\ requests = {} /\ result = [u \in Calls |-> "none"]
    /\ upc = [u \in Calls |-> "idle"] /\ ret = [u \in Calls |-> "none"]
    /\ host = [u \in Calls |-> "none"]

-----------------------------------------------------------------------------
(* L *)

LGoes(place) == lpc' = place /\ UNCHANGED lCall

(* Connect and say hello; an error in either returns without Close. *)
LConnect ==
    /\ lpc = "start"
    /\ \/ LGoes("install") /\ conn' = "open"
       \/ LGoes("failed") /\ UNCHANGED conn
    /\ UNCHANGED <<closeVars, ctxDone, oVars, out, tVars, callVars, result, host>>

LInstallUnchecked ==    \* mutant: a Close that came first is not made up for
    /\ lpc = "install"
    /\ closeFunc' = TRUE /\ LGoes("serve")
    /\ UNCHANGED <<cpc, closed, goodbyes, derpVars, oVars, out, tVars, callVars, result, host>>

(* setCloseFunc: when Close came first, L runs the function itself. *)
LInstall ==
    /\ lpc = "install"
    /\ IF closed THEN LGoes("hangup") /\ UNCHANGED closeFunc
                 ELSE LGoes("serve") /\ closeFunc' = TRUE
    /\ UNCHANGED <<cpc, closed, goodbyes, derpVars, oVars, out, tVars, callVars, result, host>>

LHangup ==
    /\ lpc = "hangup"
    /\ goodbyes' = goodbyes + 1 /\ conn' = "closed"
    /\ LGoes("serve")
    /\ UNCHANGED <<cpc, closed, closeFunc, ctxDone, oVars, out, tVars, callVars, result, host>>

(* defer Close, start W and O. *)
LServe ==
    /\ lpc = "serve"
    /\ LGoes("loop")
    /\ cpc' = [cpc EXCEPT !["W"] = "wait"]
    /\ opc' = "select"
    /\ UNCHANGED <<closed, closeFunc, goodbyes, derpVars, oMsg, out, tVars, callVars, result,
                   host>>

(* Recv is called: on a lost connection it reconnects or fails. *)
LRecv ==
    /\ lpc = "loop"
    /\ \/ conn # "closed" /\ conn' = "open" /\ LGoes("recv")
       \/ conn # "open" /\ UNCHANGED conn /\ LGoes("return")
    /\ UNCHANGED <<closeVars, ctxDone, oVars, out, tVars, callVars, result, host>>

(* Recv returns: a node of the host for T, a ping to answer, or nothing of   *)
(* interest (a pong, an unreadable packet, an unknown request id).          *)
LReceive ==
    /\ lpc = "recv" /\ conn = "open"
    /\ \E place \in {"in", "reply", "loop"} : LGoes(place)
    /\ UNCHANGED <<closeVars, derpVars, oVars, out, tVars, callVars, result, host>>

(* Recv returns the answer to a request that is still in the map. *)
LReceiveAnswer(u) ==
    /\ lpc = "recv" /\ conn = "open"
    /\ host[u] \in {"ok", "refused"} /\ u \in requests
    /\ lpc' = "deliver" /\ lCall' = u
    /\ UNCHANGED <<closeVars, derpVars, oVars, out, tVars, callVars, result, host>>

LDeliverToAnyone ==    \* mutant: the answer goes to any call that waits
    /\ lpc = "deliver"
    /\ \E u \in requests :
          result' = [result EXCEPT ![u] = IF @ = "none" THEN host[lCall] ELSE @]
    /\ lpc' = "loop" /\ lCall' = NoCall
    /\ UNCHANGED <<closeVars, derpVars, oVars, out, tVars, callVars, host>>

(* A non-blocking send on the call's channel, after requestMu was released. *)
LDeliver ==
    /\ lpc = "deliver"
    /\ result' = [result EXCEPT ![lCall] = IF @ = "none" THEN host[lCall] ELSE @]
    /\ lpc' = "loop" /\ lCall' = NoCall
    /\ UNCHANGED <<closeVars, derpVars, oVars, out, tVars, callVars, host>>

LIn ==
    /\ lpc = "in" /\ in < InCap
    /\ in' = in + 1 /\ LGoes("loop")
    /\ UNCHANGED <<closeVars, derpVars, oVars, out, tpc, callVars, result, host>>

LReply ==
    /\ lpc = "reply"
    /\ \/ conn # "closed" /\ conn' = "open" /\ LGoes("loop")
       \/ conn # "open" /\ UNCHANGED conn /\ LGoes("return")
    /\ UNCHANGED <<closeVars, ctxDone, oVars, out, tVars, callVars, result, host>>

LReceiveFails ==
    /\ lpc = "recv" /\ conn = "closed"
    /\ LGoes("return")
    /\ UNCHANGED <<closeVars, derpVars, oVars, out, tVars, callVars, result, host>>

(* The deferred Close, and the return after it. *)
LReturn ==
    /\ lpc = "return"
    /\ \/ cpc["L"] = "idle" /\ cpc' = [cpc EXCEPT !["L"] = "lock"] /\ UNCHANGED lpc
       \/ cpc["L"] = "done" /\ lpc' = "ended" /\ UNCHANGED cpc
    /\ UNCHANGED <<lCall, closed, closeFunc, goodbyes, derpVars, oVars, out, tVars, callVars,
                   result, host>>

(* All but the arrival of a packet. *)
LRuns == \/ LConnect \/ LInstall \/ LHangup \/ LServe \/ LRecv
         \/ LDeliver \/ LIn \/ LReply \/ LReceiveFails \/ LReturn

L == LRuns \/ LReceive \/ \E u \in Calls : LReceiveAnswer(u)

-----------------------------------------------------------------------------
(* Close *)

CloseAgain(c) ==    \* mutant: every caller runs the close function
    /\ cpc[c] = "lock"
    /\ closed' = TRUE
    /\ cpc' = [cpc EXCEPT ![c] = IF closeFunc THEN "hangup" ELSE "done"]
    /\ UNCHANGED <<lVars, closeFunc, goodbyes, derpVars, oVars, out, tVars, callVars, result,
                   host>>

(* Under closeMu: nothing to do when closed, else mark it, close done and    *)
(* take the close function.                                                 *)
CloseEnter(c) ==
    /\ cpc[c] = "lock"
    /\ closed' = TRUE
    /\ cpc' = [cpc EXCEPT ![c] = IF ~closed /\ closeFunc THEN "hangup" ELSE "done"]
    /\ UNCHANGED <<lVars, closeFunc, goodbyes, derpVars, oVars, out, tVars, callVars, result,
                   host>>

CloseWithoutHangup(c) ==    \* mutant: the DERP client is left open
    /\ cpc[c] = "hangup"
    /\ goodbyes' = goodbyes + 1
    /\ cpc' = [cpc EXCEPT ![c] = "done"]
    /\ UNCHANGED <<lVars, closed, closeFunc, derpVars, oVars, out, tVars, callVars, result,
                   host>>

(* The close function: goodbye, whether or not it can be sent, and hang up. *)
CloseHangup(c) ==
    /\ cpc[c] = "hangup"
    /\ goodbyes' = goodbyes + 1 /\ conn' = "closed"
    /\ cpc' = [cpc EXCEPT ![c] = "done"]
    /\ UNCHANGED <<lVars, closed, closeFunc, ctxDone, oVars, out, tVars, callVars,
                   result, host>>

Close(c) == CloseEnter(c) \/ CloseHangup(c)

(* W *)
Watch ==
    /\ cpc["W"] = "wait"
    /\ \/ ctxDone /\ cpc' = [cpc EXCEPT !["W"] = "lock"]
       \/ closed /\ cpc' = [cpc EXCEPT !["W"] = "done"]
    /\ UNCHANGED <<lVars, closed, closeFunc, goodbyes, derpVars, oVars, out, tVars, callVars,
                   result, host>>

(* Client.Close, having cancelled the context. *)
OwnerCloses ==
    /\ ctxDone /\ cpc["owner"] = "idle"
    /\ cpc' = [cpc EXCEPT !["owner"] = "lock"]
    /\ UNCHANGED <<lVars, closed, closeFunc, goodbyes, derpVars, oVars, out, tVars, callVars,
                   result, host>>

-----------------------------------------------------------------------------
(* O *)

OTake ==
    /\ opc = "select" /\ out # << >>
    /\ oMsg' = Head(out) /\ out' = Tail(out) /\ opc' = "send"
    /\ UNCHANGED <<lVars, closeVars, derpVars, tVars, callVars, result, host>>

OKeepAlive ==
    /\ opc = "select"
    /\ \/ conn # "closed" /\ conn' = "open" /\ UNCHANGED opc
       \/ conn # "open" /\ opc' = "ended" /\ UNCHANGED conn
    /\ UNCHANGED <<lVars, closeVars, ctxDone, oMsg, out, tVars, callVars, result, host>>

(* The packet is handed to DERP: the host gets the request, or it is lost. *)
OSend ==
    /\ opc = "send" /\ conn # "closed"
    /\ conn' = "open"
    /\ \/ oMsg \in Calls /\ host' = [host EXCEPT ![oMsg] = "asked"]
       \/ UNCHANGED host
    /\ opc' = "select" /\ oMsg' = NoCall
    /\ UNCHANGED <<lVars, closeVars, ctxDone, out, tVars, callVars, result>>

(* The goroutine ends on an error of its send, or when it sees done or the   *)
(* context.                                                                 *)
OEnds ==
    /\ \/ opc = "send" /\ conn # "open"
       \/ opc = "select" /\ (closed \/ ctxDone)
    /\ opc' = "ended" /\ oMsg' = NoCall
    /\ UNCHANGED <<lVars, closeVars, derpVars, out, tVars, callVars, result, host>>

O == OTake \/ OKeepAlive \/ OSend \/ OEnds

-----------------------------------------------------------------------------
(* T *)

TTake ==
    /\ tpc = "select" /\ in > 0
    /\ in' = in - 1
    /\ UNCHANGED <<lVars, closeVars, derpVars, oVars, out, tpc, callVars, result, host>>

(* Our node changed: T enters SendTailscaleNodeUpdate. *)
TSends ==
    /\ tpc = "select"
    /\ tpc' = "send"
    /\ UNCHANGED <<lVars, closeVars, derpVars, oVars, out, in, callVars, result, host>>

(* T sees the context of the client's control server, which is L's too. *)
TEnds ==
    /\ tpc = "select" /\ ctxDone
    /\ tpc' = "ended"
    /\ UNCHANGED <<lVars, closeVars, derpVars, oVars, out, in, callVars, result, host>>

SendTailscaleNodeUpdate ==
    /\ tpc = "send" /\ Len(out) < OutCap
    /\ out' = Append(out, "node") /\ tpc' = "select"
    /\ UNCHANGED <<lVars, closeVars, derpVars, oVars, in, callVars, result, host>>

-----------------------------------------------------------------------------
(* OpenUDP *)

At(u, place) == upc' = [upc EXCEPT ![u] = place]

OpenUDP(u) ==
    /\ upc[u] = "idle"
    /\ requests' = requests \cup {u} /\ At(u, "enqueue")
    /\ UNCHANGED <<lVars, closeVars, derpVars, oVars, out, tVars, ret, result, host>>

Enqueue(u) ==
    /\ upc[u] = "enqueue" /\ Len(out) < OutCap
    /\ out' = Append(out, u) /\ At(u, "await")
    /\ UNCHANGED <<lVars, closeVars, derpVars, oVars, tVars, requests, ret, result, host>>

GiveUpAwaiting(u) ==    \* mutant: the first select does not look at done
    /\ upc[u] = "await" /\ closed
    /\ ret' = [ret EXCEPT ![u] = "closed"] /\ At(u, "leave")
    /\ UNCHANGED <<lVars, closeVars, derpVars, oVars, out, tVars, requests, result, host>>

(* Both selects end on done, *)
GiveUp(u) ==
    /\ upc[u] \in {"enqueue", "await"} /\ closed
    /\ ret' = [ret EXCEPT ![u] = "closed"] /\ At(u, "leave")
    /\ UNCHANGED <<lVars, closeVars, derpVars, oVars, out, tVars, requests, result, host>>

(* and on the call's context, which may be done at any time. *)
Expire(u) ==
    /\ upc[u] \in {"enqueue", "await"}
    /\ ret' = [ret EXCEPT ![u] = "ctx"] /\ At(u, "leave")
    /\ UNCHANGED <<lVars, closeVars, derpVars, oVars, out, tVars, requests, result, host>>

Answered(u) ==
    /\ upc[u] = "await" /\ result[u] # "none"
    /\ ret' = [ret EXCEPT ![u] = result[u]]
    /\ result' = [result EXCEPT ![u] = "none"]
    /\ At(u, "leave")
    /\ UNCHANGED <<lVars, closeVars, derpVars, oVars, out, tVars, requests, host>>

(* The deferred delete. *)
Leave(u) ==
    /\ upc[u] = "leave"
    /\ requests' = requests \ {u} /\ At(u, "done")
    /\ UNCHANGED <<lVars, closeVars, derpVars, oVars, out, tVars, ret, result, host>>

Call(u) == Enqueue(u) \/ GiveUp(u) \/ Answered(u) \/ Leave(u)

-----------------------------------------------------------------------------
(* External: the context, DERP and the host. *)

ContextEnds ==
    /\ ~ctxDone
    /\ ctxDone' = TRUE
    /\ UNCHANGED <<lVars, closeVars, conn, oVars, out, tVars, callVars, result, host>>

(* A Recv that waits on the connection fails with it. *)
ConnectionLost ==
    /\ conn = "open"
    /\ conn' = "lost"
    /\ lpc' = IF lpc = "recv" THEN "return" ELSE lpc
    /\ UNCHANGED <<lCall, closeVars, ctxDone, oVars, out, tVars, callVars, result, host>>

HostAnswers(u) ==
    /\ host[u] = "asked"
    /\ \E answer \in {"ok", "refused"} : host' = [host EXCEPT ![u] = answer]
    /\ UNCHANGED <<lVars, closeVars, derpVars, oVars, out, tVars, callVars, result>>

-----------------------------------------------------------------------------
SendNext ==
    \/ L \/ Watch \/ OwnerCloses \/ O
    \/ \E c \in Closers : Close(c)
    \/ TTake \/ TSends \/ TEnds \/ SendTailscaleNodeUpdate
    \/ \E u \in Calls : OpenUDP(u) \/ Call(u) \/ Expire(u) \/ HostAnswers(u)
    \/ ContextEnds \/ ConnectionLost

SendSpec == SendInit /\ [][SendNext]_sendVars

(* Goroutines run on, connecting ends one way or the other, and a channel    *)
(* operation that stays possible happens.  Nothing is assumed of packets,    *)
(* the host, contexts, callers or the keep-alive timer.                      *)
SendFairness ==
    /\ WF_sendVars(LRuns)
    /\ \A c \in Closers : WF_sendVars(Close(c))
    /\ WF_sendVars(OTake \/ OSend \/ OEnds)
    /\ WF_sendVars(TTake \/ TEnds) /\ WF_sendVars(SendTailscaleNodeUpdate)
    /\ \A u \in Calls : WF_sendVars(Call(u))

SendFairSpec == SendSpec /\ SendFairness

-----------------------------------------------------------------------------
(* The session says goodbye at most once and only to close, however the      *)
(* owner's Close, the watcher's, the deferred one and setCloseFunc meet; and *)
(* once ListenOverlayDERP has returned from serving, the goodbye was sent or *)
(* a Close is about to send it (Close, setCloseFunc).                        *)
GoodbyeOnce ==
    /\ goodbyes <= 1
    /\ goodbyes = 1 => closed
    /\ lpc = "ended" => goodbyes = 1 \/ \E c \in Closers : cpc[c] = "hangup"

(* OpenUDP returns the host's answer to this very request: success only when *)
(* the host opened the port for it, although calls expire, answers come late *)
(* and several calls wait at once (OpenUDP, handleNextMessage).              *)
AnswerIsOwn == \A u \in Calls : ret[u] \in {"ok", "refused"} => ret[u] = host[u]

(* A call that waits when the overlay is closed returns, even if nobody      *)
(* drains out any more and no answer can come (OpenUDP's selects).           *)
CallsReturn ==
    \A u \in Calls : upc[u] \in {"enqueue", "await"} /\ closed ~> upc[u] = "done"

(* L is blocked for ever: on a full in, for a T that has ended, or that is   *)
(* blocked on a full out, which O will never drain again.                   *)
Abandoned ==
    /\ lpc = "in" /\ in = InCap
    /\ \/ tpc = "ended"
       \/ tpc = "send" /\ Len(out) = OutCap /\ opc = "ended"

(* Close, before the connection is up as well as while serving, ends         *)
(* ListenOverlayDERP; the one exception is Abandoned (Close, setCloseFunc,   *)
(* ListenOverlayDERP).                                                      *)
CloseEndsListener == closed ~> lpc \in {"ended", "failed"} \/ Abandoned
=============================================================================
