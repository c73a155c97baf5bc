-------------------------------- MODULE Pipe --------------------------------
(***************************************************************************)
(* What a forwarded connection promises its two ends: in each direction the  *)
(* bytes sent, in order, and then the end of the stream, as if there were    *)
(* one connection.  Only after a break may a direction end early.            *)
(***************************************************************************)
EXTENDS Naturals, Sequences

CONSTANT MaxBytes     \* bytes an end sends at most

Directions == {"up", "down"}

VARIABLES
    sent,          \* [Directions -> bytes sent so far; the i-th byte is i]
    ended,         \* directions whose sender has ended its stream
    got,           \* [Directions -> the sequence of bytes received]
    eof,           \* directions whose receiver has seen the end of the stream
    broken         \* directions that a failure has cut

pipeVars == <<sent, ended, got, eof, broken>>

PipeInit ==
    /\ sent = [d \in Directions |-> 0]
    /\ ended = {} /\ eof = {} /\ broken = {}
    /\ got = [d \in Directions |-> <<>>]

SendByte(d) ==
    /\ sent[d] < MaxBytes /\ d \notin ended
    /\ sent' = [sent EXCEPT ![d] = @ + 1]
    /\ UNCHANGED <<ended, got, eof, broken>>

(* An end may close both of its directions at once, and a failure may cut    *)
(* what it cuts at the same time.                                           *)
EndOrBreak ==
    /\ ended \subseteq ended' /\ broken \subseteq broken'
    /\ ended' \cup broken' \subseteq Directions
    /\ UNCHANGED <<sent, got, eof>>

Deliver(d) ==
    /\ Len(got[d]) < sent[d] /\ d \notin eof
    /\ got' = [got EXCEPT ![d] = Append(@, Len(@) + 1)]
    /\ UNCHANGED <<sent, ended, eof, broken>>

DeliverEnd(d) ==
    /\ d \in broken \/ (d \in ended /\ Len(got[d]) = sent[d])
    /\ eof' = eof \cup {d}
    /\ UNCHANGED <<sent, ended, got, broken>>

PipeNext ==
    \/ \E d \in Directions : SendByte(d) \/ Deliver(d) \/ DeliverEnd(d)
    \/ EndOrBreak

PipeSpec == PipeInit /\ [][PipeNext]_pipeVars
=============================================================================
