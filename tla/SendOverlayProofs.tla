-------------------------- MODULE SendOverlayProofs --------------------------
(* Type correctness, GoodbyeOnce and AnswerIsOwn for every set of calls and *)
(* every capacity of the channels.                                          *)
EXTENDS SendOverlay, TLAPS

(* Nobody closes before closed is set, and the close function is nobody's    *)
(* before L installs it.                                                    *)
Closing ==
    /\ ~closed => goodbyes = 0 /\ lpc # "hangup" /\ \A c \in Closers : cpc[c] # "hangup"
    /\ lpc \in {"start", "install", "hangup"} =>
          /\ goodbyes = 0 /\ ~closeFunc
          /\ \A c \in Closers : cpc[c] # "hangup"
    /\ lpc \in {"start", "install", "hangup", "serve", "failed"} =>
          cpc["W"] = "idle" /\ cpc["L"] = "idle"
    /\ closeFunc => lpc \notin {"start", "install", "hangup"}

(* At most one of them runs the close function, and nobody after it was run. *)
OneRun ==
    /\ \A c, d \in Closers : cpc[c] = "hangup" /\ cpc[d] = "hangup" => c = d
    /\ goodbyes = 1 => lpc # "hangup" /\ \A c \in Closers : cpc[c] # "hangup"

(* Once L is past setCloseFunc, whoever closes runs it; *)
NobodyForgets ==
    lpc \notin {"start", "install", "failed"} =>
        /\ closeFunc \/ closed
        /\ closed => \/ goodbyes = 1 \/ lpc = "hangup"
                     \/ \E c \in Closers : cpc[c] = "hangup"

(* and L has closed, or found it closed, when it returns. *)
ClosedAtReturn ==
    /\ \A c \in Closers : cpc[c] \in {"hangup", "done"} => closed
    /\ lpc = "ended" => cpc["L"] = "done"

CloseInv == Closing /\ OneRun /\ NobodyForgets /\ ClosedAtReturn

(* A request is in one place at a time, and undecided until it was sent. *)
InOut(u) == \E i \in 1..Len(out) : out[i] = u

OneRequest ==
    \A u \in Calls :
        /\ upc[u] \in {"idle", "enqueue"} => ~InOut(u) /\ oMsg # u /\ host[u] = "none"
        /\ InOut(u) => oMsg # u /\ host[u] = "none"
        /\ oMsg = u => host[u] = "none"
        /\ \A i, j \in 1..Len(out) : out[i] = u /\ out[j] = u => i = j

OwnAnswers ==
    /\ \A u \in Calls : /\ result[u] # "none" => result[u] = host[u]
                        /\ ret[u] \in {"ok", "refused"} => ret[u] = host[u]
    /\ lpc = "deliver" => lCall \in Calls /\ host[lCall] \in {"ok", "refused"}

CallInv == SendTypeOK /\ OneRequest /\ OwnAnswers

SendInv == CloseInv /\ CallInv
-----------------------------------------------------------------------------
(* Closing *)

LEMMA ClosingInitial == SendInit => CloseInv
  BY DEF SendInit, CloseInv, Closing, OneRun, NobodyForgets, ClosedAtReturn, Closers

LEMMA ClosingL ==
  ASSUME SendInv, L
  PROVE  CloseInv'
<1> USE SendAssumption
    DEF SendInv, CloseInv, CallInv, SendTypeOK, Closing, OneRun, NobodyForgets,
        ClosedAtReturn, lVars, closeVars, derpVars, oVars, tVars, callVars, LGoes, At, Closers
<1>1. CASE LConnect
  BY <1>1 DEF LConnect
<1>2. CASE LInstall
  <2>1. CASE closed
    BY <1>2, <2>1 DEF LInstall
  <2>2. CASE ~closed
    BY <1>2, <2>2 DEF LInstall
  <2> QED
    BY <2>1, <2>2
<1>3. CASE LHangup
  BY <1>3 DEF LHangup
<1>4. CASE LServe
  BY <1>4 DEF LServe
<1>5. CASE LRecv
  BY <1>5 DEF LRecv
<1>6. CASE LReceive
  BY <1>6 DEF LReceive
<1>7. CASE LDeliver
  BY <1>7 DEF LDeliver
<1>8. CASE LIn
  BY <1>8 DEF LIn
<1>9. CASE LReply
  BY <1>9 DEF LReply
<1>10. CASE LReceiveFails
  BY <1>10 DEF LReceiveFails
<1>11. CASE LReturn
  BY <1>11 DEF LReturn
<1>12. CASE \E u \in Calls : LReceiveAnswer(u)
  BY <1>12 DEF LReceiveAnswer
<1> QED
  BY <1>1, <1>2, <1>3, <1>4, <1>5, <1>6, <1>7, <1>8, <1>9, <1>10, <1>11, <1>12 DEF L, LRuns

LEMMA ClosingClose ==
  ASSUME SendInv, NEW c \in Closers, Close(c)
  PROVE  CloseInv'
<1> USE SendAssumption
    DEF SendInv, CloseInv, CallInv, SendTypeOK, Closing, OneRun, NobodyForgets,
        ClosedAtReturn, lVars, closeVars, derpVars, oVars, tVars, callVars, LGoes, At, Closers
<1>1. CASE CloseEnter(c)
  BY <1>1 DEF CloseEnter
<1>2. CASE CloseHangup(c)
  BY <1>2 DEF CloseHangup
<1> QED
  BY <1>1, <1>2 DEF Close

LEMMA ClosingOthers ==
  ASSUME SendInv, Watch \/ OwnerCloses \/ O \/ TTake \/ TSends \/ TEnds
         \/ SendTailscaleNodeUpdate \/ ContextEnds \/ ConnectionLost
  PROVE  CloseInv'
<1> USE SendAssumption
    DEF SendInv, CloseInv, CallInv, SendTypeOK, Closing, OneRun, NobodyForgets,
        ClosedAtReturn, lVars, closeVars, derpVars, oVars, tVars, callVars, LGoes, At, Closers
<1>1. CASE Watch
  BY <1>1 DEF Watch
<1>2. CASE OwnerCloses
  BY <1>2 DEF OwnerCloses
<1>3. CASE OTake
  BY <1>3 DEF OTake
<1>4. CASE OKeepAlive
  BY <1>4 DEF OKeepAlive
<1>5. CASE OSend
  BY <1>5 DEF OSend
<1>6. CASE OEnds
  BY <1>6 DEF OEnds
<1>7. CASE TTake
  BY <1>7 DEF TTake
<1>8. CASE TSends
  BY <1>8 DEF TSends
<1>9. CASE TEnds
  BY <1>9 DEF TEnds
<1>10. CASE SendTailscaleNodeUpdate
  BY <1>10 DEF SendTailscaleNodeUpdate
<1>11. CASE ContextEnds
  BY <1>11 DEF ContextEnds
<1>12. CASE ConnectionLost
  BY <1>12 DEF ConnectionLost
<1> QED
  BY <1>1, <1>2, <1>3, <1>4, <1>5, <1>6, <1>7, <1>8, <1>9, <1>10, <1>11, <1>12 DEF O

LEMMA ClosingCalls ==
  ASSUME SendInv, NEW u \in Calls,
         OpenUDP(u) \/ Call(u) \/ Expire(u) \/ HostAnswers(u)
  PROVE  CloseInv'
<1> USE SendAssumption
    DEF SendInv, CloseInv, CallInv, SendTypeOK, Closing, OneRun, NobodyForgets,
        ClosedAtReturn, lVars, closeVars, derpVars, oVars, tVars, callVars, LGoes, At, Closers
<1>1. CASE OpenUDP(u)
  BY <1>1 DEF OpenUDP
<1>2. CASE Enqueue(u)
  BY <1>2 DEF Enqueue
<1>3. CASE GiveUp(u)
  BY <1>3 DEF GiveUp
<1>4. CASE Answered(u)
  BY <1>4 DEF Answered
<1>5. CASE Leave(u)
  BY <1>5 DEF Leave
<1>6. CASE Expire(u)
  BY <1>6 DEF Expire
<1>7. CASE HostAnswers(u)
  BY <1>7 DEF HostAnswers
<1> QED
  BY <1>1, <1>2, <1>3, <1>4, <1>5, <1>6, <1>7 DEF Call

-----------------------------------------------------------------------------
(* Answers *)

LEMMA AnswersInitial == SendInit => CallInv
<1> SUFFICES ASSUME SendInit PROVE CallInv
  OBVIOUS
<1>1. SendTypeOK
  <2>1. out \in Seq(Calls \cup {"node"}) /\ Len(out) <= OutCap
    BY SendAssumption DEF SendInit
  <2>2. oMsg = NoCall /\ lCall = NoCall
    BY DEF SendInit
  <2>3. in \in 0..InCap
    BY SendAssumption DEF SendInit
  <2>4. cpc \in [Closers -> {"idle", "wait", "lock", "hangup", "done"}]
    BY DEF SendInit
  <2>5. /\ result \in [Calls -> {"none", "ok", "refused"}]
        /\ upc \in [Calls -> {"idle", "enqueue", "await", "leave", "done"}]
        /\ ret \in [Calls -> {"none", "ok", "refused", "ctx", "closed"}]
        /\ host \in [Calls -> {"none", "asked", "ok", "refused"}]
    BY DEF SendInit
  <2>6. /\ lpc = "start" /\ closed = FALSE /\ closeFunc = FALSE /\ goodbyes = 0
        /\ ctxDone = FALSE /\ conn = "none" /\ opc = "none" /\ tpc = "select"
        /\ requests = {}
    BY DEF SendInit
  <2>7. closed \in BOOLEAN /\ closeFunc \in BOOLEAN /\ ctxDone \in BOOLEAN
    BY <2>6
  <2>8. /\ lCall \in Calls \cup {NoCall} /\ oMsg \in Calls \cup {"node", NoCall}
        /\ goodbyes \in 0..1 /\ requests \subseteq Calls
    BY <2>2, <2>6
  <2> QED
    BY <2>1, <2>3, <2>4, <2>5, <2>6, <2>7, <2>8 DEF SendTypeOK
<1>2. \A u \in Calls : oMsg # u
  <2>1. oMsg = NoCall
    BY DEF SendInit
  <2> QED
    BY <2>1, SendAssumption
<1>3. OneRequest
  <2>1. 1..Len(out) = {}
    BY DEF SendInit
  <2>2. \A u \in Calls : host[u] = "none"
    BY DEF SendInit
  <2> QED
    BY <1>2, <2>1, <2>2 DEF OneRequest, InOut
<1>4. OwnAnswers
  BY DEF SendInit, OwnAnswers
<1> QED
  BY <1>1, <1>3, <1>4 DEF CallInv

LEMMA AnswersL ==
  ASSUME SendInv, L
  PROVE  CallInv'
<1> USE SendAssumption
    DEF SendInv, SendTypeOK, CallInv, CloseInv, Closing, OneRun, OneRequest, OwnAnswers,
        InOut, lVars, closeVars, derpVars, oVars, tVars, callVars, LGoes, At, Closers
<1>1. CASE LConnect
  BY <1>1 DEF LConnect
<1>2. CASE LInstall
  <2>1. CASE closed
    BY <1>2, <2>1 DEF LInstall
  <2>2. CASE ~closed
    BY <1>2, <2>2 DEF LInstall
  <2> QED
    BY <2>1, <2>2
<1>3. CASE LHangup
  BY <1>3 DEF LHangup
<1>4. CASE LServe
  BY <1>4 DEF LServe
<1>5. CASE LRecv
  BY <1>5 DEF LRecv
<1>6. CASE LReceive
  BY <1>6 DEF LReceive
<1>7. CASE LDeliver
  BY <1>7 DEF LDeliver
<1>8. CASE LIn
  BY <1>8 DEF LIn
<1>9. CASE LReply
  BY <1>9 DEF LReply
<1>10. CASE LReceiveFails
  BY <1>10 DEF LReceiveFails
<1>11. CASE LReturn
  BY <1>11 DEF LReturn
<1>12. CASE \E u \in Calls : LReceiveAnswer(u)
  BY <1>12 DEF LReceiveAnswer
<1> QED
  BY <1>1, <1>2, <1>3, <1>4, <1>5, <1>6, <1>7, <1>8, <1>9, <1>10, <1>11, <1>12 DEF L, LRuns

LEMMA AnswersClose ==
  ASSUME SendInv, NEW c \in Closers, Close(c)
  PROVE  CallInv'
<1> USE SendAssumption
    DEF SendInv, SendTypeOK, CallInv, CloseInv, Closing, OneRun, OneRequest, OwnAnswers,
        InOut, lVars, closeVars, derpVars, oVars, tVars, callVars, LGoes, At, Closers
<1>1. CASE CloseEnter(c)
  BY <1>1 DEF CloseEnter
<1>2. CASE CloseHangup(c)
  BY <1>2 DEF CloseHangup
<1> QED
  BY <1>1, <1>2 DEF Close

LEMMA AnswersOthers ==
  ASSUME SendInv, Watch \/ OwnerCloses \/ O \/ TTake \/ TSends \/ TEnds
         \/ SendTailscaleNodeUpdate \/ ContextEnds \/ ConnectionLost
  PROVE  CallInv'
<1> USE SendAssumption
    DEF SendInv, SendTypeOK, CallInv, CloseInv, Closing, OneRun, OneRequest, OwnAnswers,
        InOut, lVars, closeVars, derpVars, oVars, tVars, callVars, LGoes, At, Closers
<1>1. CASE Watch
  BY <1>1 DEF Watch
<1>2. CASE OwnerCloses
  BY <1>2 DEF OwnerCloses
<1>3. CASE OTake
  BY <1>3 DEF OTake
<1>4. CASE OKeepAlive
  BY <1>4 DEF OKeepAlive
<1>5. CASE OSend
  BY <1>5 DEF OSend
<1>6. CASE OEnds
  BY <1>6 DEF OEnds
<1>7. CASE TTake
  BY <1>7 DEF TTake
<1>8. CASE TSends
  BY <1>8 DEF TSends
<1>9. CASE TEnds
  BY <1>9 DEF TEnds
<1>10. CASE SendTailscaleNodeUpdate
  BY <1>10 DEF SendTailscaleNodeUpdate
<1>11. CASE ContextEnds
  BY <1>11 DEF ContextEnds
<1>12. CASE ConnectionLost
  BY <1>12 DEF ConnectionLost
<1> QED
  BY <1>1, <1>2, <1>3, <1>4, <1>5, <1>6, <1>7, <1>8, <1>9, <1>10, <1>11, <1>12 DEF O

LEMMA AnswersCalls ==
  ASSUME SendInv, NEW u \in Calls,
         OpenUDP(u) \/ Call(u) \/ Expire(u) \/ HostAnswers(u)
  PROVE  CallInv'
<1> USE SendAssumption
    DEF SendInv, SendTypeOK, CallInv, CloseInv, Closing, OneRun, OneRequest, OwnAnswers,
        InOut, lVars, closeVars, derpVars, oVars, tVars, callVars, LGoes, At, Closers
<1>1. CASE OpenUDP(u)
  BY <1>1 DEF OpenUDP
<1>2. CASE Enqueue(u)
  BY <1>2 DEF Enqueue
<1>3. CASE GiveUp(u)
  BY <1>3 DEF GiveUp
<1>4. CASE Answered(u)
  BY <1>4 DEF Answered
<1>5. CASE Leave(u)
  BY <1>5 DEF Leave
<1>6. CASE Expire(u)
  BY <1>6 DEF Expire
<1>7. CASE HostAnswers(u)
  BY <1>7 DEF HostAnswers
<1> QED
  BY <1>1, <1>2, <1>3, <1>4, <1>5, <1>6, <1>7 DEF Call

-----------------------------------------------------------------------------
LEMMA SendInvStep == SendInv /\ [SendNext]_sendVars => SendInv'
<1> SUFFICES ASSUME SendInv, [SendNext]_sendVars PROVE SendInv'
  OBVIOUS
<1>1. CASE UNCHANGED sendVars
  BY <1>1 DEF sendVars, SendInv, CloseInv, CallInv, SendTypeOK, Closing, OneRun, NobodyForgets,
        ClosedAtReturn, lVars, closeVars, derpVars, oVars, tVars, callVars, LGoes, At, Closers,
        OneRequest, OwnAnswers, InOut
<1>2. CASE SendNext
  <2>1. CloseInv'
    BY <1>2, ClosingL, ClosingClose, ClosingOthers, ClosingCalls DEF SendNext
  <2>2. CallInv'
    BY <1>2, AnswersL, AnswersClose, AnswersOthers, AnswersCalls DEF SendNext
  <2> QED
    BY <2>1, <2>2 DEF SendInv
<1> QED
  BY <1>1, <1>2

LEMMA SendInvariant == SendSpec => []SendInv
<1>1. SendInit => SendInv
  BY ClosingInitial, AnswersInitial DEF SendInv
<1> QED
  BY <1>1, SendInvStep, PTL DEF SendSpec

(* All of the module's variables keep their types, whatever the number of    *)
(* calls and the capacities of the channels.                                *)
THEOREM SendTypes == SendSpec => []SendTypeOK
<1>1. SendInv => SendTypeOK
  BY DEF SendInv, CallInv
<1> QED
  BY <1>1, SendInvariant, PTL

(* Close, the deferred Close, the watcher and setCloseFunc send one goodbye   *)
(* between them (overlay/send.go, Close and setCloseFunc).                   *)
THEOREM OneGoodbye == SendSpec => []GoodbyeOnce
<1>1. SendInv => GoodbyeOnce
  BY DEF SendInv, CloseInv, CallInv, SendTypeOK, Closing, NobodyForgets, ClosedAtReturn,
     GoodbyeOnce, Closers
<1> QED
  BY <1>1, SendInvariant, PTL

(* Every OpenUDP call that returns an answer returns the host's answer to    *)
(* its own request (overlay/send.go, OpenUDP and handleNextMessage).         *)
THEOREM OwnAnswer == SendSpec => []AnswerIsOwn
<1>1. SendInv => AnswerIsOwn
  BY DEF SendInv, CallInv, OwnAnswers, AnswerIsOwn
<1> QED
  BY <1>1, SendInvariant, PTL
=============================================================================
