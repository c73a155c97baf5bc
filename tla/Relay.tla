-------------------------------- MODULE Relay --------------------------------
(***************************************************************************)
(* A forwarded TCP connection: connections in a row, from an application to  *)
(* tsok forward, from there to tsok serve, and on to a service, joined by    *)
(* relays (listenAndForward in cmd/tsok/forward.go, the fallback handler and *)
(* bicopy in cmd/tsok/serve.go).  With --tcp-stdio the first connection is a *)
(* pair of pipes and its relay is bridgeStdio.                              *)
(*                                                                         *)
(* TCP is external: a direction holds bytes in order and its writer may end  *)
(* it; closing one side with bytes unread, or writing to it after that,      *)
(* resets both directions (of a pipe, that one).                            *)
(***************************************************************************)
EXTENDS Naturals, Sequences

CONSTANTS
    N,             \* relays: 1 is tsok forward, 2 tsok serve
    MaxBytes,      \* bytes that the application, and the service, send at most
    BufferSize,    \* bytes a direction of a connection holds
    MaxFaults      \* failures and early closes at most

ASSUME RelayAssumption ==
    N \in Nat \ {0} /\ MaxBytes \in Nat /\ BufferSize \in Nat \ {0} /\ MaxFaults \in Nat

Relays == 1..N
Directions == {"up", "down"}                       \* up is towards the service
Channels == (1..N + 1) \X Directions               \* relay k joins hops k and k + 1
Ends == (1..N + 1) \X {"left", "right"}
Copiers == Relays \X Directions
None == 0                                          \* not a byte

Writer(ch) == <<ch[1], IF ch[2] = "up" THEN "left" ELSE "right">>
Reader(ch) == <<ch[1], IF ch[2] = "up" THEN "right" ELSE "left">>
Src(c) == <<IF c[2] = "up" THEN c[1] ELSE c[1] + 1, c[2]>>
Dst(c) == <<IF c[2] = "up" THEN c[1] + 1 ELSE c[1], c[2]>>
Held(k) == {<<k, "right">>, <<k + 1, "left">>}     \* the ends relay k holds
First(d) == <<IF d = "up" THEN 1 ELSE N + 1, d>>   \* where a direction starts,
Last(d) == <<IF d = "up" THEN N + 1 ELSE 1, d>>    \* and ends

VARIABLES
    stdio,         \* is this tsok forward --tcp-stdio?
    bytes,         \* [Channels -> bytes under way]
    fin,           \* channels ended by their writer
    open,          \* ends that are open
    reset,         \* channels that were reset
    place,         \* [Relays -> "off", "dial", "copy", "done" or "refused"]
    copier,        \* [Copiers -> place in its loop]
    held,          \* [Copiers -> byte between read and write]
    cancelled,     \* relays whose context has ended
    errs,          \* the copies of bridgeStdio that are known to have failed
    result,        \* what bridgeStdio returned: "none", "nil", "ctx", "stdin" or "stdout"
    sent, got, eof,  \* history: bytes sent, received, and ends of streams seen
    faults         \* history: failures and early closes so far

net == <<bytes, fin, open, reset>>
history == <<sent, got, eof, faults>>
relayVars == <<stdio, net, place, copier, held, cancelled, errs, result, history>>

RelayTypeOK ==
    /\ stdio \in BOOLEAN
    /\ bytes \in [Channels -> Seq(1..MaxBytes)]
    /\ \A ch \in Channels : Len(bytes[ch]) <= BufferSize
    /\ fin \subseteq Channels /\ open \subseteq Ends /\ reset \subseteq Channels
    /\ place \in [Relays -> {"off", "dial", "copy", "done", "refused"}]
    /\ copier \in [Copiers -> {"off", "read", "write", "shut", "report", "hangup", "ended"}]
    /\ held \in [Copiers -> 0..MaxBytes]
    /\ \A c \in Copiers : held[c] # None <=> copier[c] = "write"
    /\ cancelled \subseteq Relays /\ errs \subseteq {"stdin", "stdout"}
    /\ result \in {"none", "nil", "ctx", "stdin", "stdout"}
    /\ sent \in [Directions -> 0..MaxBytes]
    /\ got \in [Directions -> Seq(1..MaxBytes)]
    /\ eof \subseteq Directions /\ faults \in 0..MaxFaults

(* The application has connected, or the command has started. *)
RelayInit ==
    /\ stdio \in BOOLEAN
    /\ bytes = [ch \in Channels |-> <<>>] /\ fin = {} /\ reset = {}
    /\ open = {<<1, "left">>, <<1, "right">>}
    /\ place = [k \in Relays |-> IF k = 1 THEN "dial" ELSE "off"]
    /\ copier = [c \in Copiers |-> "off"] /\ held = [c \in Copiers |-> None]
    /\ cancelled = {} /\ errs = {} /\ result = "none"
    /\ sent = [d \in Directions |-> 0] /\ got = [d \in Directions |-> <<>>]
    /\ eof = {} /\ faults = 0

Bridge(k) == stdio /\ k = 1
Fault == faults < MaxFaults /\ faults' = faults + 1

-----------------------------------------------------------------------------
(* External: TCP, and the pipes of a command. *)

Cut(ch) == ch \in reset \/ Reader(ch) \notin open      \* reading fails
AtEnd(ch) == ~Cut(ch) /\ bytes[ch] = <<>> /\ ch \in fin
CanWrite(ch) == ch \notin reset \cup fin

Resets(chs) ==
    LET all == UNION {IF Bridge(ch[1]) THEN {ch} ELSE {ch[1]} \X Directions : ch \in chs}
    IN  /\ reset' = reset \cup all
        /\ bytes' = [ch \in Channels |-> IF ch \in all THEN <<>> ELSE bytes[ch]]

CloseEnds(closing) ==
    /\ open' = open \ closing
    /\ fin' = fin \cup {ch \in Channels : Writer(ch) \in open \cap closing}
    /\ Resets({ch \in Channels : Reader(ch) \in open \cap closing /\ bytes[ch] # <<>>})

TakeByte(ch) ==
    /\ ~Cut(ch) /\ bytes[ch] # <<>>
    /\ bytes' = [bytes EXCEPT ![ch] = Tail(@)]
    /\ UNCHANGED <<fin, open, reset>>

PutByte(ch, b) ==
    /\ CanWrite(ch)
    /\ \/ /\ Reader(ch) \in open /\ Len(bytes[ch]) < BufferSize
          /\ bytes' = [bytes EXCEPT ![ch] = Append(@, b)]
          /\ UNCHANGED reset
       \/ Reader(ch) \notin open /\ Resets({ch})
    /\ UNCHANGED <<fin, open>>

(* The connection between the peers is lost. *)
ConnectionReset ==
    /\ place[1] = "copy" /\ <<2, "up">> \notin reset
    /\ Resets({<<2, "up">>}) /\ Fault
    /\ UNCHANGED <<stdio, fin, open, place, copier, held, cancelled, errs, result, sent, got, eof>>

(* A signal, or the context of tsok serve. *)
Cancel(k) ==
    /\ place[k] \in {"dial", "copy"} /\ k \notin cancelled
    /\ cancelled' = cancelled \cup {k} /\ Fault
    /\ UNCHANGED <<stdio, net, place, copier, held, errs, result, sent, got, eof>>

-----------------------------------------------------------------------------
(* listenAndForward, the fallback handler of tsok serve, forward --tcp-stdio  *)

(* The next connection is there, and the relay at its other end begins.  Only *)
(* tsok forward dials under its context.                                    *)
Dial(k) ==
    /\ place[k] = "dial" /\ (k = 1 => k \notin cancelled)
    /\ open' = open \cup {<<k + 1, "left">>, <<k + 1, "right">>}
    /\ place' = [j \in Relays |-> CASE j = k -> "copy"
                                    [] j = k + 1 -> "dial"
                                    [] OTHER -> place[j]]
    /\ copier' = [c \in Copiers |-> IF c[1] = k THEN "read" ELSE copier[c]]
    /\ UNCHANGED <<stdio, bytes, fin, reset, held, cancelled, errs, result, history>>

DialFails(k) ==
    /\ place[k] = "dial"
    /\ CloseEnds({<<k, "right">>})
    /\ place' = [place EXCEPT ![k] = "refused"]
    /\ IF k \in cancelled THEN UNCHANGED faults ELSE Fault
    /\ UNCHANGED <<stdio, copier, held, cancelled, errs, result, sent, got, eof>>

-----------------------------------------------------------------------------
(* copyFunc of bicopy, and the two copies of bridgeStdio: io.Copy *)

Read(c) ==
    /\ copier[c] = "read" /\ TakeByte(Src(c))
    /\ copier' = [copier EXCEPT ![c] = "write"]
    /\ held' = [held EXCEPT ![c] = Head(bytes[Src(c)])]
    /\ UNCHANGED <<stdio, place, cancelled, errs, result, history>>

WriteKeeping(c) ==     \* mutant: the buffer still counts as full
    /\ copier[c] = "write" /\ PutByte(Dst(c), held[c])
    /\ copier' = [copier EXCEPT ![c] = "read"]
    /\ UNCHANGED <<stdio, place, held, cancelled, errs, result, history>>

Write(c) ==
    /\ copier[c] = "write" /\ PutByte(Dst(c), held[c])
    /\ copier' = [copier EXCEPT ![c] = "read"]
    /\ held' = [held EXCEPT ![c] = None]
    /\ UNCHANGED <<stdio, place, cancelled, errs, result, history>>

CopyEnds(c) ==
    /\ copier[c] = "read" /\ AtEnd(Src(c))
    /\ copier' = [copier EXCEPT ![c] = "shut"]
    /\ UNCHANGED <<stdio, net, place, held, cancelled, errs, result, history>>

(* Reading or writing fails; reading standard input may do so on its own. *)
CopyFails(c) ==
    /\ \/ copier[c] = "read" /\ (Cut(Src(c)) \/ (Bridge(c[1]) /\ c[2] = "up"))
       \/ copier[c] = "write" /\ ~CanWrite(Dst(c))
    /\ copier' = [copier EXCEPT ![c] =
                     IF ~Bridge(c[1]) THEN "shut" ELSE IF c[2] = "up" THEN "report" ELSE "ended"]
    /\ held' = [held EXCEPT ![c] = None]
    /\ errs' = IF Bridge(c[1]) /\ c[2] = "down" THEN errs \cup {"stdout"} ELSE errs
    /\ IF copier[c] = "read" /\ ~Cut(Src(c)) THEN Fault ELSE UNCHANGED faults
    /\ UNCHANGED <<stdio, net, place, cancelled, result, sent, got, eof>>

ShutNothing(c) ==      \* mutant: the end of the stream is not passed on
    /\ copier[c] = "shut"
    /\ copier' = [copier EXCEPT ![c] = "ended"]
    /\ UNCHANGED <<stdio, net, place, held, cancelled, errs, result, history>>

(* CloseWrite.  bridgeStdio leaves standard output as it is. *)
Shut(c) ==
    /\ copier[c] = "shut"
    /\ fin' = IF Bridge(c[1]) /\ c[2] = "down" THEN fin ELSE fin \cup {Dst(c)}
    /\ copier' = [copier EXCEPT ![c] =
                     IF Bridge(c[1]) /\ c[2] = "up" /\ ~CanWrite(Dst(c)) THEN "report" ELSE "ended"]
    /\ UNCHANGED <<stdio, bytes, open, reset, place, held, cancelled, errs, result, history>>

-----------------------------------------------------------------------------
(* bicopy: when both copies have ended, or the context has, both connections  *)
(* are closed; a copy still running fails then.                             *)

OverAtFirst(k) == \E d \in Directions : copier[<<k, d>>] = "ended"   \* mutant: one copy is enough

Over(k) == k \in cancelled \/ \A d \in Directions : copier[<<k, d>>] = "ended"

FinishFirst(k) ==      \* mutant: only the accepted connection is closed
    /\ ~Bridge(k) /\ place[k] = "copy" /\ Over(k)
    /\ CloseEnds({<<k, "right">>})
    /\ place' = [place EXCEPT ![k] = "done"]
    /\ UNCHANGED <<stdio, copier, held, cancelled, errs, result, history>>

Finish(k) ==
    /\ ~Bridge(k) /\ place[k] = "copy" /\ Over(k)
    /\ CloseEnds(Held(k))
    /\ place' = [place EXCEPT ![k] = "done"]
    /\ UNCHANGED <<stdio, copier, held, cancelled, errs, result, history>>

-----------------------------------------------------------------------------
(* bridgeStdio: its standard input copy reports an error, then hangs up;     *)
(* the context's watcher hangs up; the function returns when its standard    *)
(* output copy has ended, and the command with it.                          *)

Report ==
    /\ copier[<<1, "up">>] = "report"
    /\ copier' = [copier EXCEPT ![<<1, "up">>] = "hangup"]
    /\ errs' = errs \cup {"stdin"}
    /\ UNCHANGED <<stdio, net, place, held, cancelled, result, history>>

Hangup ==
    /\ copier[<<1, "up">>] = "hangup"
    /\ copier' = [copier EXCEPT ![<<1, "up">>] = "ended"]
    /\ CloseEnds({<<2, "left">>})
    /\ UNCHANGED <<stdio, place, held, cancelled, errs, result, history>>

Watch ==
    /\ Bridge(1) /\ place[1] = "copy" /\ 1 \in cancelled /\ <<2, "left">> \in open
    /\ CloseEnds({<<2, "left">>})
    /\ UNCHANGED <<stdio, place, copier, held, cancelled, errs, result, history>>

VerdictOutFirst ==     \* mutant: the error of the copy to standard output comes first
    IF "stdout" \in errs THEN "stdout"
    ELSE IF 1 \in cancelled THEN "ctx"
    ELSE IF "stdin" \in errs THEN "stdin" ELSE "nil"

Verdict ==
    IF 1 \in cancelled THEN "ctx"
    ELSE IF "stdin" \in errs THEN "stdin"
    ELSE IF "stdout" \in errs THEN "stdout" ELSE "nil"

Return ==
    /\ Bridge(1) /\ place[1] = "copy" /\ copier[<<1, "down">>] = "ended"
    /\ result' = Verdict
    /\ CloseEnds(Held(1))
    /\ place' = [place EXCEPT ![1] = "done"]
    /\ copier' = [copier EXCEPT ![<<1, "up">>] = "ended"]
    /\ held' = [held EXCEPT ![<<1, "up">>] = None]
    /\ UNCHANGED <<stdio, cancelled, errs, history>>

-----------------------------------------------------------------------------
(* External: the application (the sender of "up") and the service. *)

CanStart(d) == d = "up" \/ place[N] \in {"copy", "done"}     \* the service: when it is called

Send(d) ==
    /\ CanStart(d) /\ sent[d] < MaxBytes /\ PutByte(First(d), sent[d] + 1)
    /\ sent' = [sent EXCEPT ![d] = @ + 1]
    /\ UNCHANGED <<stdio, place, copier, held, cancelled, errs, result, got, eof, faults>>

EndStream(d) ==
    /\ CanStart(d) /\ CanWrite(First(d))
    /\ fin' = fin \cup {First(d)}
    /\ UNCHANGED <<stdio, bytes, open, reset, place, copier, held, cancelled, errs, result, history>>

Receive(d) ==
    /\ TakeByte(Last(d))
    /\ got' = [got EXCEPT ![d] = Append(@, Head(bytes[Last(d)]))]
    /\ UNCHANGED <<stdio, place, copier, held, cancelled, errs, result, sent, eof, faults>>

SeeEnd(d) ==
    /\ d \notin eof /\ Reader(Last(d)) \in open /\ (AtEnd(Last(d)) \/ Last(d) \in reset)
    /\ eof' = eof \cup {d}
    /\ UNCHANGED <<stdio, net, place, copier, held, cancelled, errs, result, sent, got, faults>>

(* The receiver of d closes its connection: early, or having seen the end. *)
CloseEarly(d) ==
    /\ d \notin eof /\ Reader(Last(d)) \in open
    /\ CloseEnds({Reader(Last(d))}) /\ Fault
    /\ UNCHANGED <<stdio, place, copier, held, cancelled, errs, result, sent, got, eof>>

Settle(d) ==
    /\ d \in eof /\ Reader(Last(d)) \in open
    /\ CloseEnds({Reader(Last(d))})
    /\ UNCHANGED <<stdio, place, copier, held, cancelled, errs, result, history>>

-----------------------------------------------------------------------------
(* The goroutines, and ends that read on and close when they saw the end.     *)
Copy(c) == Read(c) \/ Write(c) \/ CopyEnds(c) \/ CopyFails(c) \/ Shut(c)
Progress(k) == Dial(k) \/ DialFails(k) \/ Finish(k)
Bridging == Report \/ Hangup \/ Watch \/ Return
Settling(d) == Receive(d) \/ SeeEnd(d) \/ Settle(d)
Running ==
    \/ \E c \in Copiers : Copy(c)
    \/ \E k \in Relays : Progress(k)
    \/ Bridging
    \/ \E d \in Directions : Settling(d)

RelayNext ==
    \/ Running \/ ConnectionReset
    \/ \E k \in Relays : Cancel(k)
    \/ \E d \in Directions : Send(d) \/ EndStream(d) \/ CloseEarly(d)

(* While a goroutine or an end can take a step, one does: less than the Go     *)
(* scheduler promises.  A failure that may happen is a fault, not progress.  *)
RelayFairness == WF_relayVars(Running /\ UNCHANGED faults)

RelaySpec == RelayInit /\ [][RelayNext]_relayVars /\ RelayFairness

-----------------------------------------------------------------------------
(* Two relays in a row promise what one connection does: bytes arrive in      *)
(* order and an end of a stream only after them, whichever end half-closes    *)
(* first, unless something failed.  When bridgeStdio returns, what is sent to *)
(* the service may be cut short, never what it answered.                     *)
Ended == {d \in Directions : First(d) \in fin}
Broken == IF faults > 0 THEN Directions ELSE IF result # "none" THEN {"up"} ELSE {}

Connection == INSTANCE Pipe WITH ended <- Ended, broken <- Broken
PipePromise == Connection!PipeSpec

(* bridgeStdio names the cause: when it returns that writing the answer out   *)
(* failed, it had not hung up itself (because standard input failed or the    *)
(* context ended), and the answer's connection or standard output was reset.  *)
BlamesCause ==
    [][result # "stdout" /\ result' = "stdout" =>
         /\ <<2, "left">> \in open
         /\ reset \cap {<<1, "down">>, <<2, "down">>} # {}]_relayVars

(* The end of a stream is passed on through every relay. *)
HalfClosePassed == \A d \in Directions : (d \in Ended) ~> (d \in eof \cup Broken)

(* Whatever failed, and whichever end left, every connection is closed and    *)
(* every goroutine ends.                                                    *)
Gone == open = {} /\ \A c \in Copiers : copier[c] \in {"off", "ended"}
LetsGo == (faults > 0 \/ <<1, "left">> \notin open) ~> Gone
=============================================================================
