---------------------------- MODULE RelayProofs ----------------------------
(***************************************************************************)
(* Proofs about Relay, for any number of relays in a row, of bytes and of     *)
(* faults: the state is typed, bridgeStdio names the cause, and the row of    *)
(* relays keeps the promise of one connection (Pipe).                        *)
(***************************************************************************)
EXTENDS Relay, Functions, SequenceTheorems, TLAPS

(* Where channels, copiers and ends are.                                     *)
LEMMA Places ==
    /\ \A c \in Copiers : Src(c) \in Channels /\ Dst(c) \in Channels
    /\ \A ch \in Channels : Writer(ch) \in Ends /\ Reader(ch) \in Ends
    /\ \A d \in Directions : First(d) \in Channels /\ Last(d) \in Channels
    /\ \A k \in Relays : Held(k) \subseteq Ends
    /\ \A k \in Relays, d \in Directions : <<k, d>> \in Copiers
    /\ \A h \in 1..N + 1, d \in Directions : <<h, d>> \in Channels
    /\ 1 \in Relays /\ N \in Relays
<1> USE RelayAssumption DEF RelayAssumption, Relays, Directions, Channels, Copiers, Ends
<1>1. \A c \in Copiers : Src(c) \in Channels /\ Dst(c) \in Channels
  BY DEF Src, Dst
<1>2. \A ch \in Channels : Writer(ch) \in Ends /\ Reader(ch) \in Ends
  BY DEF Writer, Reader
<1>3. \A d \in Directions : First(d) \in Channels /\ Last(d) \in Channels
  BY DEF First, Last
<1>4. \A k \in Relays : Held(k) \subseteq Ends
  BY DEF Held
<1> QED
  BY <1>1, <1>2, <1>3, <1>4

(* What a step may lose: the bytes under way on the channels it resets.      *)
Loses ==
    \E all \in SUBSET Channels :
      /\ reset' = reset \cup all
      /\ bytes' = [ch \in Channels |-> IF ch \in all THEN <<>> ELSE bytes[ch]]

LEMMA ResetsLose ==
  ASSUME NEW chs \in SUBSET Channels, Resets(chs)
  PROVE  Loses
<1> DEFINE all == UNION {IF Bridge(ch[1]) THEN {ch} ELSE {ch[1]} \X Directions : ch \in chs}
<1>1. all \subseteq Channels
  BY DEF Channels
<1>2. /\ reset' = reset \cup all
      /\ bytes' = [ch \in Channels |-> IF ch \in all THEN <<>> ELSE bytes[ch]]
  BY DEF Resets
<1> HIDE DEF all
<1> QED
  BY <1>1, <1>2 DEF Loses

LEMMA KeepsLose ==
  ASSUME RelayTypeOK, UNCHANGED <<bytes, reset>>
  PROVE  Loses
<1>1. bytes' = [ch \in Channels |-> IF ch \in {} THEN <<>> ELSE bytes[ch]]
  BY DEF RelayTypeOK
<1> QED
  BY <1>1 DEF Loses

LEMMA ClosesLose ==
  ASSUME NEW closing, CloseEnds(closing), fin \subseteq Channels
  PROVE  Loses /\ fin \subseteq fin' /\ fin' \subseteq Channels /\ open' = open \ closing
  BY ResetsLose DEF CloseEnds

LEMMA LosesTyped ==
  ASSUME RelayTypeOK, Loses
  PROVE  /\ bytes' \in [Channels -> Seq(1..MaxBytes)]
         /\ \A ch \in Channels : Len(bytes'[ch]) <= BufferSize
         /\ reset' \subseteq Channels /\ reset \subseteq reset'
<1>1. PICK all \in SUBSET Channels :
        /\ reset' = reset \cup all
        /\ bytes' = [ch \in Channels |-> IF ch \in all THEN <<>> ELSE bytes[ch]]
  BY DEF Loses
<1>2. \A ch \in Channels : bytes'[ch] = <<>> \/ bytes'[ch] = bytes[ch]
  BY <1>1
<1>3. <<>> \in Seq(1..MaxBytes) /\ Len(<<>>) <= BufferSize
  BY RelayAssumption DEF RelayAssumption
<1> QED
  BY <1>1, <1>2, <1>3 DEF RelayTypeOK

-----------------------------------------------------------------------------
(* Types, and the order in which the relays begin: a relay that has not       *)
(* dialed copies nothing, and no relay behind it has begun.                  *)
PlaceInv ==
    /\ \A k \in Relays : place[k] \in {"off", "dial", "refused"} =>
         /\ \A d \in Directions : copier[<<k, d>>] = "off"
         /\ \A j \in Relays : j > k => place[j] = "off"
    /\ place[1] # "off"

TypeInv == RelayTypeOK /\ PlaceInv

NetTyped ==
    /\ bytes \in [Channels -> Seq(1..MaxBytes)]
    /\ \A ch \in Channels : Len(bytes[ch]) <= BufferSize
    /\ fin \subseteq Channels /\ open \subseteq Ends /\ reset \subseteq Channels

CopierStates == {"off", "read", "write", "shut", "report", "hangup", "ended"}

LEMMA TakeTyped ==
  ASSUME RelayTypeOK, NEW ch \in Channels, TakeByte(ch)
  PROVE  /\ NetTyped' /\ Head(bytes[ch]) \in 1..MaxBytes
         /\ bytes'[ch] = Tail(bytes[ch]) /\ \A o \in Channels \ {ch} : bytes'[o] = bytes[o]
<1>1. bytes[ch] \in Seq(1..MaxBytes) /\ bytes[ch] # <<>> /\ Len(bytes[ch]) <= BufferSize
  BY DEF RelayTypeOK, TakeByte
<1>2. /\ Head(bytes[ch]) \in 1..MaxBytes
      /\ Tail(bytes[ch]) \in Seq(1..MaxBytes) /\ Len(Tail(bytes[ch])) <= BufferSize
  <2>1. /\ Head(bytes[ch]) \in 1..MaxBytes
        /\ Tail(bytes[ch]) \in Seq(1..MaxBytes) /\ Len(Tail(bytes[ch])) = Len(bytes[ch]) - 1
    BY <1>1, HeadTailProperties
  <2>2. Len(bytes[ch]) \in Nat /\ BufferSize \in Nat
    BY <1>1, RelayAssumption DEF RelayAssumption
  <2> QED
    BY <1>1, <2>1, <2>2
<1>3. bytes'[ch] = Tail(bytes[ch]) /\ \A o \in Channels \ {ch} : bytes'[o] = bytes[o]
  BY DEF RelayTypeOK, TakeByte
<1>4. bytes' \in [Channels -> Seq(1..MaxBytes)]
  BY <1>2 DEF RelayTypeOK, TakeByte
<1> QED
  BY <1>2, <1>3, <1>4 DEF RelayTypeOK, TakeByte, NetTyped

(* A byte is put on a channel, or the channel is reset and it is lost.       *)
PutWell(ch, b) ==
    /\ ch \notin reset \cup fin /\ Reader(ch) \in open
    /\ bytes'[ch] = Append(bytes[ch], b) /\ \A o \in Channels \ {ch} : bytes'[o] = bytes[o]
    /\ UNCHANGED <<fin, open, reset>>

PutIll(ch) ==
    /\ ch \notin reset \cup fin /\ Reader(ch) \notin open
    /\ Resets({ch}) /\ Loses /\ ch \in reset'
    /\ UNCHANGED <<fin, open>>

LEMMA PutTyped ==
  ASSUME RelayTypeOK, NEW ch \in Channels, NEW b \in 1..MaxBytes, PutByte(ch, b)
  PROVE  NetTyped' /\ (PutWell(ch, b) \/ PutIll(ch))
<1>1. CASE /\ Reader(ch) \in open /\ Len(bytes[ch]) < BufferSize
           /\ bytes' = [bytes EXCEPT ![ch] = Append(@, b)]
           /\ UNCHANGED reset
  <2>1. bytes[ch] \in Seq(1..MaxBytes) /\ Len(bytes[ch]) < BufferSize
    BY <1>1 DEF RelayTypeOK
  <2>2. /\ Append(bytes[ch], b) \in Seq(1..MaxBytes)
        /\ Len(Append(bytes[ch], b)) <= BufferSize
    BY <2>1, RelayAssumption DEF RelayAssumption
  <2>3. bytes'[ch] = Append(bytes[ch], b) /\ \A o \in Channels \ {ch} : bytes'[o] = bytes[o]
    BY <1>1 DEF RelayTypeOK
  <2>4. bytes' \in [Channels -> Seq(1..MaxBytes)]
    BY <1>1, <2>2 DEF RelayTypeOK
  <2>5. NetTyped'
    BY <1>1, <2>2, <2>3, <2>4 DEF RelayTypeOK, PutByte, NetTyped
  <2> QED
    BY <1>1, <2>3, <2>5 DEF PutByte, CanWrite, PutWell
<1>2. CASE Reader(ch) \notin open /\ Resets({ch})
  <2>1. Loses
    BY <1>2, ResetsLose
  <2>2. ch \in reset'
    BY <1>2 DEF Resets, Channels
  <2>3. NetTyped'
    BY <2>1, LosesTyped DEF NetTyped, RelayTypeOK, PutByte
  <2> QED
    BY <1>2, <2>1, <2>2, <2>3 DEF PutByte, CanWrite, PutIll
<1> QED
  BY <1>1, <1>2 DEF PutByte

LEMMA TypeInitial == RelayInit => TypeInv
<1> SUFFICES ASSUME RelayInit PROVE TypeInv
  OBVIOUS
<1> USE RelayAssumption DEF RelayAssumption, RelayInit
<1>1. RelayTypeOK
  <2>1. \A c \in Copiers : held[c] = None /\ copier[c] = "off"
    OBVIOUS
  <2>2. <<>> \in Seq(1..MaxBytes) /\ Len(<<>>) = 0
    OBVIOUS
  <2>3. /\ bytes \in [Channels -> Seq(1..MaxBytes)]
        /\ \A ch \in Channels : Len(bytes[ch]) <= BufferSize
    BY <2>2
  <2>4. open \subseteq Ends
    BY DEF Ends
  <2> QED
    BY <2>1, <2>2, <2>3, <2>4 DEF RelayTypeOK, None
<1>2. PlaceInv
  BY DEF PlaceInv, Relays, Copiers
<1> QED
  BY <1>1, <1>2 DEF TypeInv

LEMMA ClosesTyped ==
  ASSUME RelayTypeOK, NEW closing, CloseEnds(closing)
  PROVE  NetTyped'
  BY ClosesLose, LosesTyped DEF NetTyped, RelayTypeOK

(* Copier c goes to place s, holding h.                                      *)
Moves(c, s, h) ==
    /\ copier' = [copier EXCEPT ![c] = s] /\ s \in CopierStates \ {"off"}
    /\ held'[c] = h /\ \A o \in Copiers \ {c} : held'[o] = held[o]
    /\ held' \in [Copiers -> 0..MaxBytes] /\ (h # None <=> s = "write")

(* A step of a copier of a relay that copies, or has copied.                 *)
LEMMA HandTyped ==
  ASSUME TypeInv, NetTyped', NEW c \in Copiers, copier[c] # "off",
         NEW s, NEW h, Moves(c, s, h),
         errs' \in SUBSET {"stdin", "stdout"}, faults' \in 0..MaxFaults,
         UNCHANGED <<stdio, place, cancelled, result, sent, got, eof>>
  PROVE  TypeInv'
<1> USE DEF TypeInv, CopierStates, Moves
<1>1. /\ copier'[c] = s /\ held'[c] = h
      /\ \A o \in Copiers \ {c} : copier'[o] = copier[o] /\ held'[o] = held[o]
  BY DEF RelayTypeOK
<1>2. copier' \in [Copiers -> CopierStates] /\ held' \in [Copiers -> 0..MaxBytes]
  BY DEF RelayTypeOK
<1>3. RelayTypeOK'
  BY <1>1, <1>2 DEF RelayTypeOK, NetTyped
<1>4. \A k \in Relays, d \in Directions :
        <<k, d>> \in Copiers /\ (copier[<<k, d>>] = "off" => copier'[<<k, d>>] = "off")
  BY <1>1, Places
<1> QED
  BY <1>3, <1>4 DEF PlaceInv

(* A step that no copier takes, and that no relay begins or ends with.       *)
LEMMA OutsideTyped ==
  ASSUME TypeInv, NetTyped', UNCHANGED <<stdio, place, copier, held, result>>,
         cancelled' \subseteq Relays, errs' \subseteq {"stdin", "stdout"},
         sent' \in [Directions -> 0..MaxBytes], got' \in [Directions -> Seq(1..MaxBytes)],
         eof' \subseteq Directions, faults' \in 0..MaxFaults
  PROVE  TypeInv'
  BY DEF TypeInv, RelayTypeOK, NetTyped, PlaceInv

LEMMA FaultTyped ==
  ASSUME RelayTypeOK, Fault \/ UNCHANGED faults
  PROVE  faults' \in 0..MaxFaults
  BY RelayAssumption DEF RelayAssumption, RelayTypeOK, Fault

LEMMA NetKept ==
  ASSUME RelayTypeOK, UNCHANGED <<bytes, open, reset>>, fin' \subseteq Channels
  PROVE  NetTyped'
  BY DEF RelayTypeOK, NetTyped

LEMMA DialTyped ==
  ASSUME TypeInv, NEW k \in Relays, Dial(k)
  PROVE  TypeInv'
<1> USE DEF TypeInv
<1>1. /\ place'[k] = "copy"
      /\ \A j \in Relays \ {k} :
           IF j = k + 1 THEN place'[j] = "dial" /\ place[j] = "off" ELSE place'[j] = place[j]
  BY DEF Dial, PlaceInv, Relays
<1>2. \A c \in Copiers : /\ c[1] = k => copier[c] = "off" /\ copier'[c] = "read"
                         /\ c[1] # k => copier'[c] = copier[c]
  BY DEF Dial, PlaceInv, Copiers
<1>3. RelayTypeOK'
  <2>1. place' \in [Relays -> {"off", "dial", "copy", "done", "refused"}]
    BY DEF Dial, RelayTypeOK
  <2>2. copier' \in [Copiers -> CopierStates]
    BY DEF Dial, RelayTypeOK, CopierStates
  <2>3. open' \subseteq Ends
    <3>1. {<<k + 1, "left">>, <<k + 1, "right">>} \subseteq Ends
      BY RelayAssumption DEF RelayAssumption, Ends, Relays
    <3> QED
      BY <3>1 DEF Dial, RelayTypeOK
  <2> QED
    BY <1>2, <2>1, <2>2, <2>3 DEF Dial, RelayTypeOK, history, CopierStates
<1>4. PlaceInv'
  <2>1. ASSUME NEW j \in Relays, place'[j] \in {"off", "dial", "refused"}
        PROVE  /\ \A d \in Directions : copier'[<<j, d>>] = "off"
               /\ \A i \in Relays : i > j => place'[i] = "off"
    <3>1. j # k /\ place[j] \in {"off", "dial", "refused"}
      BY <1>1, <2>1
    <3>2. \A d \in Directions : copier'[<<j, d>>] = "off"
      BY <1>2, <3>1, Places DEF PlaceInv
    <3>3. k < j
      BY <3>1 DEF PlaceInv, Dial, Relays
    <3> QED
      BY <1>1, <3>1, <3>2, <3>3 DEF PlaceInv, Relays
  <2> QED
    BY <1>1, <2>1, Places DEF PlaceInv
<1> QED
  BY <1>3, <1>4

(* A relay that is dialing or copying ends.                                  *)
LEMMA OverTyped ==
  ASSUME TypeInv, NetTyped', NEW k \in Relays,
         \/ place[k] = "copy" /\ place' = [place EXCEPT ![k] = "done"]
         \/ place[k] = "dial" /\ place' = [place EXCEPT ![k] = "refused"],
         faults' \in 0..MaxFaults,
         UNCHANGED <<stdio, copier, held, cancelled, errs, result, sent, got, eof>>
  PROVE  TypeInv'
<1> USE DEF TypeInv
<1>0. PICK p \in {"done", "refused"} :
        /\ place' = [place EXCEPT ![k] = p] /\ place[k] # "off"
        /\ p = "refused" => place[k] = "dial"
  OBVIOUS
<1>1. RelayTypeOK'
  <2>1. place' \in [Relays -> {"off", "dial", "copy", "done", "refused"}]
    BY <1>0 DEF RelayTypeOK
  <2> QED
    BY <2>1 DEF RelayTypeOK, NetTyped
<1>2. place'[k] = p /\ \A j \in Relays \ {k} : place'[j] = place[j]
  <2>1. place \in [Relays -> {"off", "dial", "copy", "done", "refused"}]
    BY DEF RelayTypeOK
  <2> QED
    BY <1>0, <2>1
<1>3. PlaceInv'
  BY <1>0, <1>2 DEF PlaceInv, Relays
<1> QED
  BY <1>1, <1>3

LEMMA ReturnTyped ==
  ASSUME TypeInv, Return
  PROVE  TypeInv'
<1> USE DEF TypeInv
<1>1. NetTyped'
  BY ClosesTyped DEF Return
<1>2. /\ copier'[<<1, "up">>] = "ended" /\ held'[<<1, "up">>] = None
      /\ \A o \in Copiers \ {<<1, "up">>} : copier'[o] = copier[o] /\ held'[o] = held[o]
  BY Places DEF RelayTypeOK, Return, Directions
<1>3. copier' \in [Copiers -> CopierStates] /\ held' \in [Copiers -> 0..MaxBytes]
  <2>1. None \in 0..MaxBytes
    BY RelayAssumption DEF RelayAssumption, None
  <2>2. copier' \in [Copiers -> CopierStates]
    BY DEF RelayTypeOK, Return, CopierStates
  <2>3. held' \in [Copiers -> 0..MaxBytes]
    BY <2>1 DEF RelayTypeOK, Return
  <2> QED
    BY <2>2, <2>3
<1>4. place' \in [Relays -> {"off", "dial", "copy", "done", "refused"}]
      /\ place'[1] = "done" /\ \A j \in Relays \ {1} : place'[j] = place[j]
  BY Places DEF RelayTypeOK, Return
<1>5. result' \in {"none", "nil", "ctx", "stdin", "stdout"}
  BY DEF Return, Verdict
<1>6. RelayTypeOK'
  BY <1>1, <1>2, <1>3, <1>4, <1>5 DEF RelayTypeOK, NetTyped, Return, history, CopierStates
<1>7. \A k \in Relays \ {1}, d \in Directions : copier'[<<k, d>>] = copier[<<k, d>>]
  BY <1>2, Places
<1>8. PlaceInv'
  BY <1>4, <1>7 DEF PlaceInv, Relays
<1> QED
  BY <1>6, <1>8

LEMMA CopyTyped ==
  ASSUME TypeInv, NEW c \in Copiers, Copy(c)
  PROVE  TypeInv'
<1> USE DEF TypeInv
<1>1. /\ Src(c) \in Channels /\ Dst(c) \in Channels /\ held[c] \in 0..MaxBytes
      /\ held \in [Copiers -> 0..MaxBytes] /\ (held[c] # None <=> copier[c] = "write")
      /\ None \in 0..MaxBytes /\ 1..MaxBytes \subseteq 0..MaxBytes
      /\ \A b \in 1..MaxBytes : b # None
      /\ \A b \in 0..MaxBytes : b # None => b \in 1..MaxBytes
      /\ errs \in SUBSET {"stdin", "stdout"} /\ faults \in 0..MaxFaults
  BY Places, RelayAssumption DEF RelayAssumption, RelayTypeOK, None
<1>2. CASE Read(c)
  <2>1. NetTyped' /\ Head(bytes[Src(c)]) \in 1..MaxBytes
    BY <1>1, <1>2, TakeTyped DEF Read
  <2>2. Moves(c, "write", Head(bytes[Src(c)]))
    BY <1>1, <1>2, <2>1 DEF Read, Moves, CopierStates
  <2> QED
    BY <1>1, <1>2, <2>1, <2>2, HandTyped DEF Read, history
<1>3. CASE Write(c)
  <2>1. NetTyped'
    BY <1>1, <1>3, PutTyped DEF Write
  <2>2. Moves(c, "read", None)
    BY <1>1, <1>3 DEF Write, Moves, CopierStates
  <2> QED
    BY <1>1, <1>3, <2>1, <2>2, HandTyped DEF Write, history
<1>4. CASE CopyEnds(c)
  <2>1. NetTyped'
    BY <1>4, NetKept DEF CopyEnds, net, RelayTypeOK
  <2>2. Moves(c, "shut", held[c])
    BY <1>1, <1>4 DEF CopyEnds, Moves, CopierStates
  <2> QED
    BY <1>1, <1>4, <2>1, <2>2, HandTyped DEF CopyEnds, net, history
<1>5. CASE CopyFails(c)
  <2>1. NetTyped'
    BY <1>5, NetKept DEF CopyFails, net, RelayTypeOK
  <2>2. \E s \in {"shut", "report", "ended"} : Moves(c, s, None)
    <3> DEFINE s == IF ~Bridge(c[1]) THEN "shut" ELSE IF c[2] = "up" THEN "report" ELSE "ended"
    <3>1. s \in {"shut", "report", "ended"}
      OBVIOUS
    <3>2. copier' = [copier EXCEPT ![c] = s] /\ held' = [held EXCEPT ![c] = None]
      BY <1>5 DEF CopyFails
    <3> HIDE DEF s
    <3> QED
      BY <1>1, <3>1, <3>2 DEF Moves, CopierStates
  <2>3. errs' \in SUBSET {"stdin", "stdout"} /\ faults' \in 0..MaxFaults /\ copier[c] # "off"
    BY <1>1, <1>5, FaultTyped DEF CopyFails
  <2> QED
    BY <1>1, <1>5, <2>1, <2>2, <2>3, HandTyped DEF CopyFails
<1>6. CASE Shut(c)
  <2>1. NetTyped'
    BY <1>1, <1>6, NetKept DEF Shut, RelayTypeOK
  <2>2. \E s \in {"report", "ended"} : Moves(c, s, held[c])
    BY <1>1, <1>6 DEF Shut, Moves, CopierStates
  <2>3. copier[c] # "off"
    BY <1>6 DEF Shut
  <2> QED
    BY <1>1, <1>6, <2>1, <2>2, <2>3, HandTyped DEF Shut, history
<1> QED
  BY <1>2, <1>3, <1>4, <1>5, <1>6 DEF Copy

LEMMA BridgingTyped ==
  ASSUME TypeInv, Report \/ Hangup \/ Watch
  PROVE  TypeInv'
<1> USE DEF TypeInv
<1>1. <<1, "up">> \in Copiers
  BY Places DEF Directions
<1>2. /\ held[<<1, "up">>] \in 0..MaxBytes
      /\ held \in [Copiers -> 0..MaxBytes]
      /\ held[<<1, "up">>] # None <=> copier[<<1, "up">>] = "write"
      /\ errs \in SUBSET {"stdin", "stdout"} /\ faults \in 0..MaxFaults
  BY <1>1 DEF RelayTypeOK
<1>3. CASE Report
  <2>1. NetTyped'
    BY <1>3, NetKept DEF Report, net, RelayTypeOK
  <2>2. errs' \in SUBSET {"stdin", "stdout"}
    BY <1>2, <1>3 DEF Report
  <2>3. Moves(<<1, "up">>, "hangup", held[<<1, "up">>])
    BY <1>2, <1>3 DEF Report, Moves, CopierStates
  <2> QED
    BY <1>1, <1>2, <1>3, <2>1, <2>2, <2>3, HandTyped DEF Report, history
<1>4. CASE Hangup
  <2>1. NetTyped'
    BY <1>4, ClosesTyped DEF Hangup
  <2>2. Moves(<<1, "up">>, "ended", held[<<1, "up">>])
    BY <1>2, <1>4 DEF Hangup, Moves, CopierStates
  <2> QED
    BY <1>1, <1>2, <1>4, <2>1, <2>2, HandTyped DEF Hangup, history
<1>5. CASE Watch
  <2>1. NetTyped'
    BY <1>5, ClosesTyped DEF Watch
  <2> QED
    BY <1>5, <2>1, OutsideTyped DEF Watch, history, RelayTypeOK
<1> QED
  BY <1>3, <1>4, <1>5

LEMMA ProgressTyped ==
  ASSUME TypeInv, NEW k \in Relays, Progress(k)
  PROVE  TypeInv'
<1> USE DEF TypeInv
<1>1. CASE DialFails(k)
  <2>1. NetTyped' /\ faults' \in 0..MaxFaults
    BY <1>1, ClosesTyped, FaultTyped DEF DialFails
  <2> QED
    BY <1>1, <2>1, OverTyped DEF DialFails
<1>2. CASE Finish(k)
  <2>1. NetTyped' /\ faults' \in 0..MaxFaults
    BY <1>2, ClosesTyped, FaultTyped DEF Finish, history
  <2> QED
    BY <1>2, <2>1, OverTyped DEF Finish, history
<1> QED
  BY <1>1, <1>2, DialTyped DEF Progress

LEMMA EndsTyped ==
  ASSUME TypeInv, NEW d \in Directions,
         Settling(d) \/ Send(d) \/ EndStream(d) \/ CloseEarly(d)
  PROVE  TypeInv'
<1> USE DEF TypeInv
<1>1. First(d) \in Channels /\ Last(d) \in Channels
  BY Places
<1>2. CASE Receive(d)
  <2>1. NetTyped' /\ Head(bytes[Last(d)]) \in 1..MaxBytes
    BY <1>1, <1>2, TakeTyped DEF Receive
  <2>2. Append(got[d], Head(bytes[Last(d)])) \in Seq(1..MaxBytes)
    BY <2>1 DEF RelayTypeOK
  <2>3. got' \in [Directions -> Seq(1..MaxBytes)]
    BY <1>2, <2>2 DEF Receive, RelayTypeOK
  <2> QED
    BY <1>2, <2>1, <2>3, OutsideTyped DEF Receive, RelayTypeOK
<1>3. CASE SeeEnd(d)
  <2>1. NetTyped'
    BY <1>3, NetKept DEF SeeEnd, net, RelayTypeOK
  <2> QED
    BY <1>3, <2>1, OutsideTyped DEF SeeEnd, RelayTypeOK
<1>4. CASE Settle(d)
  <2>1. NetTyped'
    BY <1>4, ClosesTyped DEF Settle
  <2> QED
    BY <1>4, <2>1, OutsideTyped DEF Settle, RelayTypeOK, history
<1>5. CASE Send(d)
  <2>1. sent[d] + 1 \in 1..MaxBytes
    BY <1>5, RelayAssumption DEF Send, RelayTypeOK, RelayAssumption
  <2>2. NetTyped'
    BY <1>1, <1>5, <2>1, PutTyped DEF Send
  <2>3. sent' \in [Directions -> 0..MaxBytes]
    BY <1>5, <2>1 DEF Send, RelayTypeOK
  <2> QED
    BY <1>5, <2>2, <2>3, OutsideTyped DEF Send, RelayTypeOK
<1>6. CASE EndStream(d)
  <2>1. NetTyped'
    BY <1>1, <1>6, NetKept DEF EndStream, RelayTypeOK
  <2> QED
    BY <1>6, <2>1, OutsideTyped DEF EndStream, RelayTypeOK, history
<1>7. CASE CloseEarly(d)
  <2>1. NetTyped' /\ faults' \in 0..MaxFaults
    BY <1>7, ClosesTyped, FaultTyped DEF CloseEarly
  <2> QED
    BY <1>7, <2>1, OutsideTyped DEF CloseEarly, RelayTypeOK
<1> QED
  BY <1>2, <1>3, <1>4, <1>5, <1>6, <1>7 DEF Settling

LEMMA TypeStep == TypeInv /\ [RelayNext]_relayVars => TypeInv'
<1> SUFFICES ASSUME TypeInv, [RelayNext]_relayVars PROVE TypeInv'
  OBVIOUS
<1> USE DEF TypeInv
<1>1. CASE Running
  BY <1>1, CopyTyped, ProgressTyped, BridgingTyped, ReturnTyped, EndsTyped DEF Running, Bridging
<1>2. CASE ConnectionReset
  <2>1. <<2, "up">> \in Channels
    BY RelayAssumption DEF RelayAssumption, Channels, Directions
  <2>2. Loses
    BY <1>2, <2>1, ResetsLose DEF ConnectionReset
  <2>3. NetTyped' /\ faults' \in 0..MaxFaults
    BY <1>2, <2>2, LosesTyped, FaultTyped DEF ConnectionReset, NetTyped, RelayTypeOK
  <2> QED
    BY <1>2, <2>3, OutsideTyped DEF ConnectionReset, RelayTypeOK
<1>3. ASSUME NEW k \in Relays, Cancel(k) PROVE TypeInv'
  <2>1. NetTyped' /\ faults' \in 0..MaxFaults
    BY <1>3, NetKept, FaultTyped DEF Cancel, net, RelayTypeOK
  <2> QED
    BY <1>3, <2>1, OutsideTyped DEF Cancel, RelayTypeOK
<1>4. CASE UNCHANGED relayVars
  BY <1>4 DEF relayVars, net, history, RelayTypeOK, PlaceInv
<1> QED
  BY <1>1, <1>2, <1>3, <1>4, EndsTyped DEF RelayNext

(* Types hold in every run.                                                  *)
THEOREM RelayTypes == RelaySpec => []RelayTypeOK
<1>1. RelaySpec => []TypeInv
  BY TypeInitial, TypeStep, PTL DEF RelaySpec
<1>2. TypeInv => RelayTypeOK
  BY DEF TypeInv
<1> QED
  BY <1>1, <1>2, PTL

-----------------------------------------------------------------------------
(* What only grows.                                                          *)
LEMMA PutGrows ==
  ASSUME TypeInv, NEW ch \in Channels, NEW b \in 1..MaxBytes, PutByte(ch, b)
  PROVE  fin' = fin /\ reset \subseteq reset' /\ open' = open
<1>1. PutWell(ch, b) \/ PutIll(ch)
  BY PutTyped DEF TypeInv
<1> QED
  BY <1>1, LosesTyped DEF PutWell, PutIll, TypeInv

LEMMA ClosesGrow ==
  ASSUME TypeInv, NEW closing, CloseEnds(closing)
  PROVE  fin \subseteq fin' /\ reset \subseteq reset' /\ open' = open \ closing
  BY ClosesLose, LosesTyped DEF TypeInv, RelayTypeOK

LEMMA ConnectionResetGrows ==
  ASSUME TypeInv, ConnectionReset
  PROVE  Loses /\ reset \subseteq reset'
<1>1. <<2, "up">> \in Channels
  BY RelayAssumption DEF RelayAssumption, Channels, Directions
<1> QED
  BY <1>1, ResetsLose, LosesTyped DEF ConnectionReset, TypeInv

LEMMA WritingByte ==
  ASSUME TypeInv
  PROVE  /\ \A c \in Copiers : copier[c] = "write" => held[c] \in 1..MaxBytes
         /\ \A d \in Directions : sent[d] < MaxBytes => sent[d] + 1 \in 1..MaxBytes
  BY RelayAssumption DEF RelayAssumption, TypeInv, RelayTypeOK, None

Growth ==
    /\ fin \subseteq fin' /\ reset \subseteq reset' /\ cancelled \subseteq cancelled'
    /\ errs \subseteq errs' /\ faults <= faults' /\ stdio' = stdio

LEMMA Growing == TypeInv /\ [RelayNext]_relayVars => Growth
<1> SUFFICES ASSUME TypeInv, [RelayNext]_relayVars PROVE Growth
  OBVIOUS
<1>1. /\ faults \in Nat
      /\ UNCHANGED faults \/ Fault => faults <= faults'
  BY RelayAssumption DEF RelayAssumption, TypeInv, RelayTypeOK, Fault
<1>2. ASSUME NEW c \in Copiers, Copy(c) PROVE Growth
  <2>1. CASE Read(c)
    BY <1>1, <2>1 DEF Read, TakeByte, history, Growth
  <2>2. CASE Write(c)
    BY <1>1, <2>2, PutGrows, WritingByte, Places DEF Write, history, Growth
  <2>3. CASE CopyEnds(c)
    BY <1>1, <2>3 DEF CopyEnds, net, history, Growth
  <2>4. CASE CopyFails(c)
    BY <1>1, <2>4 DEF CopyFails, net, Growth
  <2>5. CASE Shut(c)
    BY <1>1, <2>5 DEF Shut, history, Growth
  <2> QED
    BY <1>2, <2>1, <2>2, <2>3, <2>4, <2>5 DEF Copy
<1>3. ASSUME NEW k \in Relays, Progress(k) PROVE Growth
  <2>1. CASE Dial(k)
    BY <1>1, <2>1 DEF Dial, history, Growth
  <2>2. CASE DialFails(k)
    BY <1>1, <2>2, ClosesGrow DEF DialFails, Growth
  <2>3. CASE Finish(k)
    BY <1>1, <2>3, ClosesGrow DEF Finish, history, Growth
  <2> QED
    BY <1>3, <2>1, <2>2, <2>3 DEF Progress
<1>4. CASE Bridging
  <2>1. CASE Report
    BY <1>1, <2>1 DEF Report, net, history, Growth
  <2>2. CASE Hangup
    BY <1>1, <2>2, ClosesGrow DEF Hangup, history, Growth
  <2>3. CASE Watch
    BY <1>1, <2>3, ClosesGrow DEF Watch, history, Growth
  <2>4. CASE Return
    BY <1>1, <2>4, ClosesGrow DEF Return, history, Growth
  <2> QED
    BY <1>4, <2>1, <2>2, <2>3, <2>4 DEF Bridging
<1>5. ASSUME NEW d \in Directions, Settling(d) \/ Send(d) \/ EndStream(d) \/ CloseEarly(d)
      PROVE  Growth
  <2>1. CASE Receive(d)
    BY <1>1, <2>1 DEF Receive, TakeByte, Growth
  <2>2. CASE SeeEnd(d)
    BY <1>1, <2>2 DEF SeeEnd, net, Growth
  <2>3. CASE Settle(d)
    BY <1>1, <2>3, ClosesGrow DEF Settle, history, Growth
  <2>4. CASE Send(d)
    BY <1>1, <2>4, PutGrows, WritingByte, Places DEF Send, Growth
  <2>5. CASE EndStream(d)
    BY <1>1, <2>5 DEF EndStream, history, Growth
  <2>6. CASE CloseEarly(d)
    BY <1>1, <2>6, ClosesGrow DEF CloseEarly, Growth
  <2> QED
    BY <1>5, <2>1, <2>2, <2>3, <2>4, <2>5, <2>6 DEF Settling
<1>6. CASE ConnectionReset
  BY <1>1, <1>6, ConnectionResetGrows DEF ConnectionReset, Growth
<1>7. ASSUME NEW k \in Relays, Cancel(k) PROVE Growth
  BY <1>1, <1>7 DEF Cancel, net, Growth
<1>8. CASE UNCHANGED relayVars
  BY <1>1, <1>8 DEF relayVars, net, history, Growth
<1> QED
  BY <1>2, <1>3, <1>4, <1>5, <1>6, <1>7, <1>8 DEF RelayNext, Running

-----------------------------------------------------------------------------
(* What bridgeStdio knows of its causes: it hangs up only when the context    *)
(* has ended or the copy of standard input has failed, and closes standard    *)
(* output only when it returns; so its copy to standard output fails for one  *)
(* of these, or because the answer's way was reset.                          *)
AnswerCut == reset \cap {<<1, "down">>, <<2, "down">>} # {}

BridgeInv ==
    /\ stdio /\ place[1] \in {"dial", "copy"} => <<1, "down">> \notin fin
    /\ stdio /\ place[1] = "copy" /\ <<2, "left">> \notin open =>
         1 \in cancelled \/ "stdin" \in errs
    /\ copier[<<1, "up">>] = "hangup" => "stdin" \in errs
    /\ stdio /\ place[1] \in {"dial", "copy"} /\ "stdout" \in errs =>
         AnswerCut \/ 1 \in cancelled \/ "stdin" \in errs

LEMMA BridgeInitial == RelayInit => BridgeInv
<1> SUFFICES ASSUME RelayInit PROVE BridgeInv
  OBVIOUS
<1>1. copier[<<1, "up">>] = "off" /\ place[1] = "dial"
  BY Places DEF RelayInit, Directions
<1> QED
  BY <1>1 DEF RelayInit, BridgeInv

LEMMA BridgeKept ==
  ASSUME BridgeInv, Growth, UNCHANGED result,
         stdio /\ place'[1] \in {"dial", "copy"} =>
           /\ place[1] = place'[1]
           /\ <<1, "down">> \in fin' => <<1, "down">> \in fin
           /\ place[1] = "copy" /\ <<2, "left">> \in open => <<2, "left">> \in open',
         copier'[<<1, "up">>] = "hangup" => copier[<<1, "up">>] = "hangup",
         "stdout" \in errs' => "stdout" \in errs
  PROVE  BridgeInv'
  BY DEF BridgeInv, Growth, AnswerCut

(* The ends that a step closes, if these are not the bridge's.               *)
LEMMA BridgeCloses ==
  ASSUME TypeInv, NEW closing, CloseEnds(closing), <<1, "right">> \notin closing
  PROVE  <<1, "down">> \in fin' => <<1, "down">> \in fin
  BY DEF CloseEnds, Writer

LEMMA CopyBridges ==
  ASSUME TypeInv, BridgeInv, Growth, NEW c \in Copiers, Copy(c)
  PROVE  BridgeInv'
<1>1. /\ c \in (1..N) \X {"up", "down"} /\ c = <<c[1], c[2]>>
      /\ \A s : copier' = [copier EXCEPT ![c] = s] =>
           copier'[<<1, "up">>] \in {s, copier[<<1, "up">>]}
  <2>1. c \in (1..N) \X {"up", "down"} /\ c = <<c[1], c[2]>>
    BY DEF Copiers, Relays, Directions
  <2>2. <<1, "up">> \in Copiers /\ copier \in [Copiers -> CopierStates]
    BY Places DEF Directions, TypeInv, RelayTypeOK, CopierStates
  <2> QED
    BY <2>1, <2>2
<1>2. CASE Read(c)
  BY <1>1, <1>2, BridgeKept DEF Read, TakeByte, history
<1>3. CASE Write(c)
  <2>1. fin' = fin /\ open' = open
    BY <1>3, PutGrows, WritingByte, Places DEF Write
  <2> QED
    BY <1>1, <1>3, <2>1, BridgeKept DEF Write, history
<1>4. CASE CopyEnds(c)
  BY <1>1, <1>4, BridgeKept DEF CopyEnds, net, history
<1>5. CASE CopyFails(c)
  <2>1. copier'[<<1, "up">>] # "hangup" \/ copier[<<1, "up">>] = "hangup"
    <3> DEFINE s == IF ~Bridge(c[1]) THEN "shut" ELSE IF c[2] = "up" THEN "report" ELSE "ended"
    <3>1. s # "hangup"
      OBVIOUS
    <3>2. copier' = [copier EXCEPT ![c] = s]
      BY <1>5 DEF CopyFails
    <3> HIDE DEF s
    <3> QED
      BY <1>1, <3>1, <3>2
  <2>2. CASE ~(Bridge(c[1]) /\ c[2] = "down")
    BY <1>5, <2>1, <2>2, BridgeKept DEF CopyFails, net
  <2>3. CASE Bridge(c[1]) /\ c[2] = "down"
    <3>1. c = <<1, "down">> /\ stdio
      BY <1>1, <2>3 DEF Bridge
    <3>2. Src(c) = <<2, "down">> /\ Dst(c) = <<1, "down">> /\ Reader(Src(c)) = <<2, "left">>
      BY <3>1 DEF Src, Dst, Reader
    <3>3. place[1] \in {"copy", "done"}
      BY <1>1, <1>5, <3>1, Places DEF CopyFails, TypeInv, PlaceInv, RelayTypeOK, Directions
    <3>4. CASE place[1] = "copy"
      <4>1. AnswerCut \/ 1 \in cancelled \/ "stdin" \in errs
        BY <1>5, <3>1, <3>2, <3>4 DEF CopyFails, Cut, CanWrite, BridgeInv, AnswerCut
      <4> QED
        BY <1>5, <2>1, <3>4, <4>1 DEF CopyFails, net, BridgeInv, Growth, AnswerCut
    <3>5. CASE place[1] = "done"
      BY <1>5, <2>1, <3>5 DEF CopyFails, net, BridgeInv, Growth, AnswerCut
    <3> QED
      BY <3>3, <3>4, <3>5
  <2> QED
    BY <2>2, <2>3
<1>6. CASE Shut(c)
  <2>1. copier'[<<1, "up">>] # "hangup" \/ copier[<<1, "up">>] = "hangup"
    BY <1>1, <1>6 DEF Shut
  <2>2. stdio /\ <<1, "down">> \in fin' => <<1, "down">> \in fin
    BY <1>1, <1>6 DEF Shut, Bridge, Dst
  <2> QED
    BY <1>6, <2>1, <2>2, BridgeKept DEF Shut, history
<1> QED
  BY <1>2, <1>3, <1>4, <1>5, <1>6 DEF Copy

LEMMA BridgeStep == TypeInv /\ TypeInv' /\ BridgeInv /\ [RelayNext]_relayVars => BridgeInv'
<1> SUFFICES ASSUME TypeInv, TypeInv', BridgeInv, [RelayNext]_relayVars PROVE BridgeInv'
  OBVIOUS
<1>0. Growth
  BY Growing
<1>1. /\ <<1, "up">> \in Copiers /\ N \in Nat \ {0}
      /\ place \in [Relays -> {"off", "dial", "copy", "done", "refused"}]
      /\ copier \in [Copiers -> CopierStates] /\ 1 \in Relays
  BY Places, RelayAssumption DEF RelayAssumption, Directions, TypeInv, RelayTypeOK, CopierStates
<1>2. ASSUME NEW c \in Copiers, Copy(c) PROVE BridgeInv'
  BY <1>0, <1>2, CopyBridges
<1>3. ASSUME NEW k \in Relays, Progress(k) PROVE BridgeInv'
  <2>1. CASE Dial(k)
    <3>1. copier'[<<1, "up">>] # "hangup" \/ copier[<<1, "up">>] = "hangup"
      BY <1>1, <2>1 DEF Dial
    <3>2. CASE k = 1
      BY <1>0, <2>1, <3>1, <3>2 DEF Dial, BridgeInv, Growth, AnswerCut
    <3>3. CASE k # 1
      <4>1. place'[1] = place[1]
        BY <1>1, <2>1, <3>3 DEF Dial, Relays
      <4> QED
        BY <1>0, <2>1, <3>1, <4>1, BridgeKept DEF Dial
    <3> QED
      BY <3>2, <3>3
  <2>2. CASE DialFails(k)
    <3>1. open' = open \ {<<k, "right">>}
      BY <2>2, ClosesGrow DEF DialFails
    <3>2. CASE k = 1
      <4>1. place'[1] = "refused"
        BY <1>1, <2>2, <3>2 DEF DialFails
      <4> QED
        BY <1>0, <2>2, <4>1, BridgeKept DEF DialFails
    <3>3. CASE k # 1
      <4>1. place'[1] = place[1]
        BY <1>1, <2>2, <3>3 DEF DialFails
      <4>2. <<1, "down">> \in fin' => <<1, "down">> \in fin
        BY <2>2, <3>3, BridgeCloses DEF DialFails
      <4> QED
        BY <1>0, <2>2, <3>1, <4>1, <4>2, BridgeKept DEF DialFails
    <3> QED
      BY <3>2, <3>3
  <2>3. CASE Finish(k)
    <3>1. open' = open \ Held(k)
      BY <2>3, ClosesGrow DEF Finish
    <3>2. CASE k = 1
      BY <1>0, <2>3, <3>2, BridgeKept DEF Finish, Bridge, Growth
    <3>3. CASE k # 1
      <4>1. place'[1] = place[1]
        BY <1>1, <2>3, <3>3 DEF Finish
      <4>2. <<1, "right">> \notin Held(k) /\ <<2, "left">> \notin Held(k)
        BY <1>1, <3>3 DEF Held, Relays
      <4>3. <<1, "down">> \in fin' => <<1, "down">> \in fin
        BY <2>3, <4>2, BridgeCloses DEF Finish
      <4> QED
        BY <1>0, <2>3, <3>1, <4>1, <4>2, <4>3, BridgeKept DEF Finish
    <3> QED
      BY <3>2, <3>3
  <2> QED
    BY <1>3, <2>1, <2>2, <2>3 DEF Progress
<1>4. CASE Bridging
  <2>1. CASE Report
    BY <1>0, <2>1 DEF Report, net, BridgeInv, Growth, AnswerCut
  <2>2. CASE Hangup
    <3>1. <<1, "down">> \in fin' => <<1, "down">> \in fin
      BY <2>2, BridgeCloses DEF Hangup
    <3>2. copier'[<<1, "up">>] = "ended" /\ "stdin" \in errs
      BY <1>1, <2>2 DEF Hangup, BridgeInv
    <3> QED
      BY <1>0, <2>2, <3>1, <3>2 DEF Hangup, BridgeInv, Growth, AnswerCut
  <2>3. CASE Watch
    <3>1. <<1, "down">> \in fin' => <<1, "down">> \in fin
      BY <2>3, BridgeCloses DEF Watch
    <3> QED
      BY <1>0, <2>3, <3>1 DEF Watch, BridgeInv, Growth, AnswerCut
  <2>4. CASE Return
    <3>1. place'[1] = "done" /\ copier'[<<1, "up">>] = "ended"
      BY <1>1, <2>4 DEF Return
    <3> QED
      BY <3>1 DEF BridgeInv
  <2> QED
    BY <1>4, <2>1, <2>2, <2>3, <2>4 DEF Bridging
<1>5. ASSUME NEW d \in Directions, Settling(d) \/ Send(d) \/ EndStream(d) \/ CloseEarly(d)
      PROVE  BridgeInv'
  <2>0. /\ First(d) # <<1, "down">> /\ First(d) \in Channels
        /\ Reader(Last(d)) \in {<<1, "left">>, <<N + 1, "right">>}
        /\ N + 1 # 1
    BY <1>1, Places DEF First, Last, Reader, Directions
  <2>1. CASE Receive(d)
    BY <1>0, <2>1, BridgeKept DEF Receive, TakeByte
  <2>2. CASE SeeEnd(d)
    BY <1>0, <2>2, BridgeKept DEF SeeEnd, net
  <2>3. ASSUME CloseEnds({Reader(Last(d))}), Settle(d) \/ CloseEarly(d) PROVE BridgeInv'
    <3>1. open' = open \ {Reader(Last(d))}
      BY <2>3, ClosesGrow
    <3>2. Reader(Last(d)) # <<1, "right">> /\ Reader(Last(d)) # <<2, "left">>
      BY <2>0
    <3>3. <<1, "down">> \in fin' => <<1, "down">> \in fin
      BY <2>3, <3>2, BridgeCloses
    <3> QED
      BY <1>0, <2>3, <3>1, <3>2, <3>3, BridgeKept DEF Settle, CloseEarly
  <2>4. CASE Send(d)
    <3>1. fin' = fin /\ open' = open
      BY <2>0, <2>4, PutGrows, WritingByte DEF Send
    <3> QED
      BY <1>0, <2>4, <3>1, BridgeKept DEF Send
  <2>5. CASE EndStream(d)
    BY <1>0, <2>0, <2>5, BridgeKept DEF EndStream
  <2> QED
    BY <1>5, <2>1, <2>2, <2>3, <2>4, <2>5 DEF Settling, Settle, CloseEarly
<1>6. CASE ConnectionReset
  BY <1>0, <1>6, BridgeKept DEF ConnectionReset
<1>7. ASSUME NEW k \in Relays, Cancel(k) PROVE BridgeInv'
  BY <1>0, <1>7, BridgeKept DEF Cancel, net
<1>8. CASE UNCHANGED relayVars
  BY <1>0, <1>8, BridgeKept DEF relayVars, net
<1> QED
  BY <1>2, <1>3, <1>4, <1>5, <1>6, <1>7, <1>8 DEF RelayNext, Running

(* Only the return of bridgeStdio sets its result.                           *)
LEMMA OnlyReturnReports ==
  ASSUME [RelayNext]_relayVars, result' # result PROVE Return
<1>1. \A c \in Copiers : ~Copy(c)
  BY DEF Copy, Read, Write, CopyEnds, CopyFails, Shut
<1>2. \A k \in Relays : ~Progress(k) /\ ~Cancel(k)
  BY DEF Progress, Dial, DialFails, Finish, Cancel
<1>3. \A d \in Directions : ~Settling(d) /\ ~Send(d) /\ ~EndStream(d) /\ ~CloseEarly(d)
  BY DEF Settling, Receive, SeeEnd, Settle, Send, EndStream, CloseEarly
<1>4. ~Report /\ ~Hangup /\ ~Watch /\ ~ConnectionReset
  BY DEF Report, Hangup, Watch, ConnectionReset
<1> QED
  BY <1>1, <1>2, <1>3, <1>4 DEF RelayNext, Running, Bridging, relayVars

(* bridgeStdio reports that the answer was not written out only when it had   *)
(* not hung up and the answer's way had been reset.                          *)
THEOREM NamesTheCause == RelaySpec => BlamesCause
<1> DEFINE Blames ==
      result # "stdout" /\ result' = "stdout" => <<2, "left">> \in open /\ AnswerCut
<1>1. RelayInit => TypeInv /\ BridgeInv
  BY TypeInitial, BridgeInitial
<1>2. TypeInv /\ BridgeInv /\ [RelayNext]_relayVars => (TypeInv /\ BridgeInv)'
  BY TypeStep, BridgeStep
<1>3. BridgeInv /\ [RelayNext]_relayVars => Blames
  <2> SUFFICES ASSUME BridgeInv, [RelayNext]_relayVars, result # "stdout", result' = "stdout"
               PROVE  <<2, "left">> \in open /\ AnswerCut
    OBVIOUS
  <2>1. stdio /\ place[1] = "copy" /\ Verdict = "stdout"
    BY OnlyReturnReports DEF Return, Bridge
  <2>2. 1 \notin cancelled /\ "stdin" \notin errs /\ "stdout" \in errs
    BY <2>1 DEF Verdict
  <2> QED
    BY <2>1, <2>2 DEF BridgeInv
<1>4. BridgeInv /\ [RelayNext]_relayVars => [Blames]_relayVars
  BY <1>3
<1>5. BlamesCause <=> [][Blames]_relayVars
  BY PTL DEF BlamesCause, AnswerCut
<1> QED
  BY <1>1, <1>2, <1>4, <1>5, PTL DEF RelaySpec

-----------------------------------------------------------------------------
(* Where the bytes of a direction are: at the sender, on a channel, in the     *)
(* hands of a copier or at the receiver, which are the stages of their way.   *)
Stage(ch) == IF ch[2] = "up" THEN 2 * ch[1] - 1 ELSE 2 * (N + 1 - ch[1]) + 1
Hand(c) == IF c[2] = "up" THEN 2 * c[1] ELSE 2 * (N + 1 - c[1])
Target == 2 * N + 2

LEMMA Stages ==
    /\ Target \in Nat /\ Target > 3
    /\ \A ch \in Channels : Stage(ch) \in 1..Target - 1
    /\ \A c \in Copiers : /\ Hand(c) \in 2..Target - 2
                          /\ Stage(Src(c)) = Hand(c) - 1 /\ Stage(Dst(c)) = Hand(c) + 1
                          /\ Src(c)[2] = c[2] /\ Dst(c)[2] = c[2] /\ c[2] \in Directions
    /\ \A d \in Directions : /\ Stage(First(d)) = 1 /\ Stage(Last(d)) = Target - 1
                             /\ First(d)[2] = d /\ Last(d)[2] = d
    /\ \A ch, o \in Channels : ch[2] = o[2] /\ Stage(ch) = Stage(o) => ch = o
    /\ \A c, e \in Copiers : c[2] = e[2] /\ Hand(c) = Hand(e) => c = e
    /\ \A ch \in Channels, c \in Copiers : Stage(ch) # Hand(c)
<1> USE RelayAssumption DEF RelayAssumption, Stage, Hand, Target, Relays, Directions
<1>0. /\ \A ch \in Channels : /\ ch = <<ch[1], ch[2]>> /\ ch[1] \in 1..N + 1
                              /\ ch[2] \in {"up", "down"}
      /\ \A c \in Copiers : /\ c = <<c[1], c[2]>> /\ c[1] \in 1..N
                            /\ c[2] \in {"up", "down"}
  BY DEF Channels, Copiers
<1>1. Target \in Nat /\ Target > 3
  OBVIOUS
<1>2. \A ch \in Channels : Stage(ch) \in 1..Target - 1
  BY <1>0
<1>3. \A c \in Copiers : /\ Hand(c) \in 2..Target - 2
                         /\ Stage(Src(c)) = Hand(c) - 1 /\ Stage(Dst(c)) = Hand(c) + 1
                         /\ Src(c)[2] = c[2] /\ Dst(c)[2] = c[2] /\ c[2] \in Directions
  BY <1>0 DEF Src, Dst
<1>4. \A d \in Directions : /\ Stage(First(d)) = 1 /\ Stage(Last(d)) = Target - 1
                            /\ First(d)[2] = d /\ Last(d)[2] = d
  BY DEF First, Last
<1>5. \A ch, o \in Channels : ch[2] = o[2] /\ Stage(ch) = Stage(o) => ch = o
  BY <1>0
<1>6. \A c, e \in Copiers : c[2] = e[2] /\ Hand(c) = Hand(e) => c = e
  BY <1>0
<1>7. \A ch \in Channels, c \in Copiers : Stage(ch) # Hand(c)
  <2> SUFFICES ASSUME NEW ch \in Channels, NEW c \in Copiers, Stage(ch) = Hand(c) PROVE FALSE
    OBVIOUS
  <2>1. ch[1] \in Int /\ c[1] \in Int
    BY <1>0
  <2> QED
    BY <1>0, <2>1
<1> QED
  BY <1>1, <1>2, <1>3, <1>4, <1>5, <1>6, <1>7

(* The bytes at each stage of direction d, when n bytes have been sent, bts    *)
(* are on the channels, hld in hands, and m have been received.              *)
Bytes == 1..MaxBytes + 1

ItemsOf(d, n, bts, hld, m) == [s \in 0..Target |-> {b \in Bytes :
    \/ s = 0 /\ b > n
    \/ \E ch \in Channels : ch[2] = d /\ s = Stage(ch) /\ b \in Range(bts[ch])
    \/ \E c \in Copiers : c[2] = d /\ s = Hand(c) /\ b = hld[c]
    \/ s = Target /\ b <= m}]

(* Where bytes go no further.                                                *)
Stopped == {"shut", "report", "hangup", "ended"}

StopsOf(d, cut, cop) ==
    {Stage(ch) : ch \in {r \in cut : r[2] = d}}
      \cup {Hand(c) : c \in {q \in Copiers : q[2] = d /\ cop[q] \in Stopped}}

Items(d) == ItemsOf(d, sent[d], bytes, held, Len(got[d]))
Stops(d) == StopsOf(d, reset, copier)

(* Stages are of four kinds.                                                 *)
Outer(s) == s = 0 \/ s = Target
OnChannel(d, s) == \E ch \in Channels : ch[2] = d /\ s = Stage(ch)
InHand(d, s) == \E c \in Copiers : c[2] = d /\ s = Hand(c)
IsStage(d, s) == Outer(s) \/ OnChannel(d, s) \/ InHand(d, s)
Staged(d, items) ==
    /\ items \in [0..Target -> SUBSET Bytes]
    /\ \A s \in 0..Target : IsStage(d, s) \/ items[s] = {}

LEMMA ItemsAt ==
  ASSUME NEW d, NEW n, NEW bts, NEW hld, NEW m
  PROVE  /\ Staged(d, ItemsOf(d, n, bts, hld, m))
         /\ ItemsOf(d, n, bts, hld, m)[0] = {b \in Bytes : b > n}
         /\ ItemsOf(d, n, bts, hld, m)[Target] = {b \in Bytes : b <= m}
         /\ \A ch \in Channels : ch[2] = d =>
              ItemsOf(d, n, bts, hld, m)[Stage(ch)] = Bytes \cap Range(bts[ch])
         /\ \A c \in Copiers : c[2] = d =>
              ItemsOf(d, n, bts, hld, m)[Hand(c)] = Bytes \cap {hld[c]}
<1> DEFINE I == ItemsOf(d, n, bts, hld, m)
<1>1. I[0] = {b \in Bytes : b > n}
  BY Stages DEF ItemsOf
<1>2. I[Target] = {b \in Bytes : b <= m}
  BY Stages DEF ItemsOf
<1>3. \A ch \in Channels : ch[2] = d => I[Stage(ch)] = Bytes \cap Range(bts[ch])
  BY Stages DEF ItemsOf
<1>4. \A c \in Copiers : c[2] = d => I[Hand(c)] = Bytes \cap {hld[c]}
  BY Stages DEF ItemsOf
<1>5. \A s \in 0..Target : Outer(s) \/ OnChannel(d, s) \/ InHand(d, s) \/ I[s] = {}
  BY DEF ItemsOf, Outer, OnChannel, InHand
<1>6. I \in [0..Target -> SUBSET Bytes]
  BY DEF ItemsOf
<1> QED
  BY <1>1, <1>2, <1>3, <1>4, <1>5, <1>6 DEF Staged, IsStage

-----------------------------------------------------------------------------
(* The order of a direction: the nearer to the receiver, the earlier a byte    *)
(* was sent, and a byte is ahead of all that were sent after it, unless bytes *)
(* can no longer come from where it is missing.                              *)
Ordered(items, stops) ==
    /\ \A s, t \in 0..Target : s < t => \A a \in items[s], b \in items[t] : a > b
    /\ \A s \in 0..Target : \A a \in items[s] : \A b \in 1..a - 1 :
         \/ \E t \in s..Target : b \in items[t]
         \/ \E t \in stops : t > s

(* A byte moves on to a stage where nothing stops it.                        *)
Moved(items, s, b) == [t \in 0..Target |->
    IF t = s THEN items[t] \ {b} ELSE IF t = s + 1 THEN items[t] \cup {b} ELSE items[t]]

LEMMA Advance ==
  ASSUME NEW items \in [0..Target -> SUBSET Bytes], NEW stops \in SUBSET Nat,
         Ordered(items, stops), NEW s \in 0..Target - 1, NEW b \in items[s], s + 1 \notin stops,
         \A a \in items[s] : a >= b
  PROVE  Ordered(Moved(items, s, b), stops)
<1> DEFINE next == Moved(items, s, b)
<1>0. Target \in Nat /\ s + 1 \in 0..Target /\ s \in 0..Target /\ b \in Int
      /\ \A t \in 0..Target : \A a \in items[t] : a \in Int
  BY Stages, RelayAssumption DEF Bytes, RelayAssumption
<1>1. /\ next[s] = items[s] \ {b} /\ next[s + 1] = items[s + 1] \cup {b}
      /\ \A t \in 0..Target : t # s /\ t # s + 1 => next[t] = items[t]
  BY <1>0 DEF Moved
<1>2. ASSUME NEW t \in 0..Target, NEW a \in next[t]
      PROVE  (a \in items[t] /\ (t = s => a > b)) \/ (t = s + 1 /\ a = b)
  <2>1. CASE t = s
    <3>1. a \in items[s] /\ a # b
      BY <1>1, <1>2, <2>1
    <3>2. a \in Int /\ a >= b
      BY <1>0, <3>1
    <3> QED
      BY <1>0, <2>1, <3>1, <3>2
  <2>2. CASE t = s + 1
    BY <1>0, <1>1, <1>2, <2>2
  <2>3. CASE t # s /\ t # s + 1
    BY <1>1, <1>2, <2>3
  <2> QED
    BY <2>1, <2>2, <2>3
<1>3. \A t \in 0..Target : \A a \in items[t] :
        a \in next[t] \/ (t = s /\ a = b /\ a \in next[s + 1])
  BY <1>0, <1>1
<1> HIDE DEF next
<1>4. ASSUME NEW q \in 0..Target, NEW t \in 0..Target, q < t, NEW a \in next[q], NEW c \in next[t]
      PROVE  a > c
  <2>1. \A p \in items[q], r \in items[t] : p > r
    BY <1>4 DEF Ordered
  <2>2. \A p \in items[s], r \in items[t] : s < t => p > r
    BY <1>0 DEF Ordered
  <2>3. \A p \in items[q], r \in items[s] : q < s => p > r
    BY <1>0 DEF Ordered
  <2>4. (a \in items[q] /\ (q = s => a > b)) \/ (q = s + 1 /\ a = b)
    BY <1>2
  <2>5. (c \in items[t] /\ (t = s => c > b)) \/ (t = s + 1 /\ c = b)
    BY <1>2
  <2>6. q \in Int /\ t \in Int /\ s \in Int /\ q < t
    BY <1>0, <1>4
  <2>7. CASE a \in items[q] /\ (q = s => a > b)
    <3>1. CASE c \in items[t]
      BY <2>1, <2>7, <3>1
    <3>2. CASE t = s + 1 /\ c = b
      <4>1. q = s \/ q < s
        BY <2>6, <3>2
      <4> QED
        BY <2>3, <2>7, <3>2, <4>1
    <3> QED
      BY <2>5, <3>1, <3>2
  <2>8. CASE q = s + 1 /\ a = b
    BY <2>2, <2>5, <2>6, <2>8
  <2> QED
    BY <2>4, <2>7, <2>8
<1>5. ASSUME NEW q \in 0..Target, NEW a \in next[q], NEW c \in 1..a - 1
      PROVE  (\E t \in q..Target : c \in next[t]) \/ \E t \in stops : t > q
  <2>1. CASE q = s + 1 /\ a = b
    <3>1. (\E t \in s..Target : c \in items[t]) \/ \E t \in stops : t > s
      BY <1>0, <1>5, <2>1 DEF Ordered
    <3>2. \A t \in s..Target : c \in items[t] => t # s /\ c \in next[t]
      BY <1>0, <1>3, <1>5, <2>1
    <3> QED
      BY <1>0, <2>1, <3>1, <3>2
  <2>2. CASE a \in items[q]
    <3>1. (\E t \in q..Target : c \in items[t]) \/ \E t \in stops : t > q
      BY <1>5, <2>2 DEF Ordered
    <3>2. ASSUME NEW t \in q..Target, c \in items[t] PROVE \E u \in q..Target : c \in next[u]
      BY <1>0, <1>3, <3>2
    <3> QED
      BY <3>1, <3>2
  <2> QED
    BY <1>2, <2>1, <2>2
<1>6. Ordered(next, stops)
  BY <1>4, <1>5 DEF Ordered
<1> QED
  BY <1>6 DEF next

(* Bytes are lost, where no more will come through.                          *)
Lost(items, stops, next, more) ==
    /\ items \in [0..Target -> SUBSET Bytes] /\ next \in [0..Target -> SUBSET Bytes]
    /\ more \in SUBSET Nat /\ stops \subseteq more
    /\ \A s \in 0..Target : next[s] \subseteq items[s]
    /\ \A s \in 0..Target : \A b \in items[s] \ next[s] :
         \/ \E t \in more : t > s
         \/ s \in more /\ next[s] = {}

LEMMA Lose ==
  ASSUME NEW items, NEW stops, NEW next, NEW more,
         Ordered(items, stops), Lost(items, stops, next, more)
  PROVE  Ordered(next, more)
<1>1. ASSUME NEW s \in 0..Target, NEW a \in next[s], NEW b \in 1..a - 1
      PROVE  (\E t \in s..Target : b \in next[t]) \/ \E t \in more : t > s
  <2>1. (\E t \in s..Target : b \in items[t]) \/ \E t \in stops : t > s
    <3>1. a \in items[s]
      BY <1>1 DEF Lost
    <3> QED
      BY <3>1 DEF Ordered, Lost
  <2>2. ASSUME NEW t \in s..Target, b \in items[t], b \notin next[t]
        PROVE  \E u \in more : u > s
    <3>1. t \in 0..Target /\ s \in Nat /\ t \in Nat /\ t >= s
      BY Stages
    <3>2. (\E u \in more : u > t) \/ (t \in more /\ next[t] = {})
      <4>1. b \in items[t] \ next[t]
        BY <2>2
      <4>2. \A p \in items[t] \ next[t] : (\E u \in more : u > t) \/ (t \in more /\ next[t] = {})
        BY <3>1 DEF Lost
      <4> QED
        BY <4>1, <4>2
    <3>3. CASE \E u \in more : u > t
      BY <3>1, <3>3 DEF Lost
    <3>4. CASE t \in more /\ next[t] = {}
      BY <3>1, <3>4
    <3> QED
      BY <3>2, <3>3, <3>4
  <2> QED
    BY <2>1, <2>2 DEF Lost
<1>2. \A s, t \in 0..Target : s < t => \A a \in next[s], b \in next[t] : a > b
  BY DEF Ordered, Lost
<1> QED
  BY <1>1, <1>2 DEF Ordered

-----------------------------------------------------------------------------
(* Channels hold bytes in the order in which they were sent.                 *)
Increasing(s) == \A i, j \in 1..Len(s) : i < j => s[i] < s[j]

LEMMA IncreasingTail ==
  ASSUME NEW s \in Seq(1..MaxBytes), s # <<>>, Increasing(s)
  PROVE  /\ Increasing(Tail(s)) /\ Head(s) \in Range(s)
         /\ Range(Tail(s)) = Range(s) \ {Head(s)}
         /\ \A b \in Range(s) : b >= Head(s)
<1>1. /\ Tail(s) \in Seq(1..MaxBytes) /\ Len(Tail(s)) = Len(s) - 1
      /\ \A i \in 1..Len(Tail(s)) : Tail(s)[i] = s[i + 1]
  BY HeadTailProperties
<1>2. /\ Len(s) \in Nat /\ Len(s) > 0 /\ Head(s) = s[1]
      /\ \A i \in 1..Len(s) : s[i] \in 1..MaxBytes
  <2>1. Len(s) \in Nat /\ Len(s) > 0
    BY EmptySeq
  <2>2. \A i \in 1..Len(s) : s[i] \in 1..MaxBytes
    BY ElementOfSeq
  <2> QED
    BY <2>1, <2>2
<1>3. /\ Range(s) = {s[i] : i \in 1..Len(s)}
      /\ Range(Tail(s)) = {Tail(s)[i] : i \in 1..Len(Tail(s))}
  BY <1>1, RangeEquality
<1>4. Increasing(Tail(s))
  BY <1>1, <1>2 DEF Increasing
<1>5. \A i \in 1..Len(s) : i # 1 => s[i] > Head(s)
  BY <1>2, RelayAssumption DEF Increasing, RelayAssumption
<1>6. \A x : x \in Range(Tail(s)) <=> \E i \in 2..Len(s) : x = s[i]
  <2>1. \A i \in 2..Len(s) : i - 1 \in 1..Len(Tail(s)) /\ Tail(s)[i - 1] = s[i]
    BY <1>1, <1>2
  <2>2. \A i \in 1..Len(Tail(s)) : i + 1 \in 2..Len(s) /\ Tail(s)[i] = s[i + 1]
    BY <1>1, <1>2
  <2>3. ASSUME NEW x \in Range(Tail(s)) PROVE \E i \in 2..Len(s) : x = s[i]
    <3>1. PICK i \in 1..Len(Tail(s)) : x = Tail(s)[i]
      BY <1>3
    <3> QED
      BY <2>2, <3>1
  <2>4. ASSUME NEW i \in 2..Len(s) PROVE s[i] \in Range(Tail(s))
    <3>1. Tail(s)[i - 1] \in Range(Tail(s))
      BY <1>3, <2>1
    <3> QED
      BY <2>1, <3>1
  <2> QED
    BY <2>3, <2>4
<1>7. \A i \in 1..Len(s) : i = 1 \/ i \in 2..Len(s)
  BY <1>2
<1>8. 1 \in 1..Len(s) /\ 2..Len(s) \subseteq 1..Len(s)
  BY <1>2
<1>9. Range(Tail(s)) = Range(s) \ {Head(s)}
  BY <1>2, <1>3, <1>5, <1>6, <1>7, <1>8, RelayAssumption DEF RelayAssumption
<1>10. \A b \in Range(s) : b >= Head(s)
  BY <1>2, <1>3, <1>5, <1>8, RelayAssumption DEF RelayAssumption
<1> QED
  BY <1>2, <1>3, <1>4, <1>8, <1>9, <1>10

LEMMA IncreasingAppend ==
  ASSUME NEW s \in Seq(1..MaxBytes), Increasing(s), NEW b \in 1..MaxBytes,
         \A x \in Range(s) : x < b
  PROVE  Increasing(Append(s, b)) /\ Range(Append(s, b)) = Range(s) \cup {b}
<1>1. /\ Append(s, b) \in Seq(1..MaxBytes) /\ Len(Append(s, b)) = Len(s) + 1
      /\ \A i \in 1..Len(s) : Append(s, b)[i] = s[i]
      /\ Append(s, b)[Len(s) + 1] = b
  BY AppendProperties
<1>2. Len(s) \in Nat
  OBVIOUS
<1>3. /\ Range(s) = {s[i] : i \in 1..Len(s)}
      /\ Range(Append(s, b)) = {Append(s, b)[i] : i \in 1..Len(s) + 1}
  BY <1>1, RangeEquality
<1>4. \A i \in 1..Len(s) + 1 : i \in 1..Len(s) \/ i = Len(s) + 1
  BY <1>2
<1>5. \A i \in 1..Len(s) : s[i] < b
  BY <1>3
<1>6. Increasing(Append(s, b))
  BY <1>1, <1>2, <1>4, <1>5 DEF Increasing
<1>7. Len(s) + 1 \in 1..Len(s) + 1 /\ 1..Len(s) \subseteq 1..Len(s) + 1
  BY <1>2
<1> QED
  BY <1>1, <1>3, <1>4, <1>6, <1>7

LEMMA IncreasingEmpty == Increasing(<<>>) /\ Range(<<>>) = {}
<1>1. Len(<<>>) = 0 /\ <<>> \in Seq(Nat)
  OBVIOUS
<1>2. Range(<<>>) = {<<>>[i] : i \in 1..Len(<<>>)}
  BY <1>1, RangeEquality
<1> QED
  BY <1>1, <1>2 DEF Increasing

(* The steps that move a byte: from a channel to a hand, from a hand to a      *)
(* channel, from the sender to the first channel, and from the last one.      *)
LEMMA ItemsMove ==
  ASSUME NEW d, NEW items, NEW next, Staged(d, items), Staged(d, next),
         NEW s \in 0..Target - 1, NEW b, IsStage(d, s), IsStage(d, s + 1),
         \A t \in 0..Target : IsStage(d, t) => next[t] = Moved(items, s, b)[t]
  PROVE  next = Moved(items, s, b)
<1>1. \A t \in 0..Target : t # s /\ t # s + 1 => Moved(items, s, b)[t] = items[t]
  BY DEF Moved
<1>2. \A t \in 0..Target : next[t] = Moved(items, s, b)[t]
  BY <1>1 DEF Staged
<1>3. Moved(items, s, b) = [t \in 0..Target |-> Moved(items, s, b)[t]]
  BY DEF Moved
<1> QED
  BY <1>2, <1>3 DEF Staged

TakesUp(c, b, bts, hld, bts2, hld2) ==
    /\ Range(bts2[Src(c)]) = Range(bts[Src(c)]) \ {b}
    /\ \A ch \in Channels \ {Src(c)} : bts2[ch] = bts[ch]
    /\ hld[c] = None /\ hld2[c] = b /\ \A e \in Copiers \ {c} : hld2[e] = hld[e]

PutsDown(c, b, bts, hld, bts2, hld2) ==
    /\ Range(bts2[Dst(c)]) = Range(bts[Dst(c)]) \cup {b}
    /\ \A ch \in Channels \ {Dst(c)} : bts2[ch] = bts[ch]
    /\ hld[c] = b /\ hld2[c] = None /\ \A e \in Copiers \ {c} : hld2[e] = hld[e]

Follows(d, s, b, bts, hld, bts2, hld2) ==
    \A n, m : ItemsOf(d, n, bts2, hld2, m) = Moved(ItemsOf(d, n, bts, hld, m), s, b)

LEMMA ReadMoves ==
  ASSUME NEW c \in Copiers, NEW d \in Directions, c[2] = d, NEW b \in Bytes,
         NEW bts, NEW hld, NEW bts2, NEW hld2,
         TakesUp(c, b, bts, hld, bts2, hld2)
  PROVE  Follows(d, Hand(c) - 1, b, bts, hld, bts2, hld2)
<1> SUFFICES ASSUME NEW n, NEW m
    PROVE ItemsOf(d, n, bts2, hld2, m) = Moved(ItemsOf(d, n, bts, hld, m), Hand(c) - 1, b)
  BY DEF Follows
<1> DEFINE s == Hand(c) - 1
           I == ItemsOf(d, n, bts, hld, m)
           J == ItemsOf(d, n, bts2, hld2, m)
           M == Moved(I, s, b)
<1> USE DEF TakesUp
<1>1. /\ Src(c) \in Channels /\ Stage(Src(c)) = s /\ Src(c)[2] = d
      /\ Hand(c) = s + 1 /\ s \in 1..Target - 3 /\ Target \in Nat /\ Target > 3
      /\ s \in 0..Target - 1 /\ s \in 0..Target /\ s + 1 \in 0..Target
  <2>1. Hand(c) \in 2..Target - 2 /\ Target \in Nat /\ Target > 3 /\ Stage(Src(c)) = Hand(c) - 1
    BY Stages
  <2> QED
    BY <2>1, Places, Stages
<1>2. /\ M[s] = I[s] \ {b} /\ M[s + 1] = I[s + 1] \cup {b}
      /\ \A t \in 0..Target : t # s /\ t # s + 1 => M[t] = I[t]
  BY <1>1 DEF Moved
<1>3. J[0] = M[0] /\ J[Target] = M[Target]
  <2>1. I[0] = {a \in Bytes : a > n} /\ I[Target] = {a \in Bytes : a <= m}
    BY ItemsAt
  <2>2. J[0] = {a \in Bytes : a > n} /\ J[Target] = {a \in Bytes : a <= m}
    BY ItemsAt
  <2>3. 0 \in 0..Target /\ Target \in 0..Target /\ 0 # s /\ 0 # s + 1 /\ Target # s /\ Target # s + 1
    BY <1>1
  <2> QED
    BY <1>2, <2>1, <2>2, <2>3
<1>4. ASSUME NEW ch \in Channels, ch[2] = d PROVE J[Stage(ch)] = M[Stage(ch)]
  <2>1. I[Stage(ch)] = Bytes \cap Range(bts[ch]) /\ J[Stage(ch)] = Bytes \cap Range(bts2[ch])
    BY <1>4, ItemsAt
  <2>2. Stage(ch) # s + 1 /\ Stage(ch) \in 0..Target /\ (Stage(ch) = s => ch = Src(c))
    BY <1>1, <1>4, Stages
  <2>3. CASE ch = Src(c)
    BY <1>1, <1>2, <2>1, <2>3
  <2>4. CASE ch # Src(c)
    BY <1>2, <2>1, <2>2, <2>4
  <2> QED
    BY <2>3, <2>4
<1>5. ASSUME NEW e \in Copiers, e[2] = d PROVE J[Hand(e)] = M[Hand(e)]
  <2>1. I[Hand(e)] = Bytes \cap {hld[e]} /\ J[Hand(e)] = Bytes \cap {hld2[e]}
    BY <1>5, ItemsAt
  <2>2. Hand(e) # s /\ Hand(e) \in 0..Target /\ (Hand(e) = s + 1 => e = c)
    BY <1>1, <1>5, Stages
  <2>3. CASE e = c
    <3>1. None \notin Bytes
      BY DEF Bytes, None
    <3> QED
      BY <1>1, <1>2, <2>1, <2>3, <3>1
  <2>4. CASE e # c
    BY <1>2, <2>1, <2>2, <2>4
  <2> QED
    BY <2>3, <2>4
<1>6. IsStage(d, s) /\ IsStage(d, s + 1)
  BY <1>1 DEF IsStage, Outer, OnChannel, InHand
<1>8. Staged(d, I) /\ Staged(d, J)
  BY ItemsAt
<1>9. M = Moved(I, s, b)
  OBVIOUS
<1> HIDE DEF I, J, M, s
<1>7. \A t \in 0..Target : IsStage(d, t) => J[t] = M[t]
  BY <1>3, <1>4, <1>5 DEF IsStage, Outer, OnChannel, InHand
<1>10. s \in 0..Target - 1
  BY <1>1
<1>11. J = Moved(I, s, b)
  BY <1>10, <1>6, <1>7, <1>8, <1>9, ItemsMove
<1> QED
  BY <1>11 DEF I, J, s

LEMMA WriteMoves ==
  ASSUME NEW c \in Copiers, NEW d \in Directions, c[2] = d, NEW b \in Bytes,
         NEW bts, NEW hld, NEW bts2, NEW hld2,
         PutsDown(c, b, bts, hld, bts2, hld2)
  PROVE  Follows(d, Hand(c), b, bts, hld, bts2, hld2)
<1> SUFFICES ASSUME NEW n, NEW m
    PROVE ItemsOf(d, n, bts2, hld2, m) = Moved(ItemsOf(d, n, bts, hld, m), Hand(c), b)
  BY DEF Follows
<1> DEFINE s == Hand(c)
           I == ItemsOf(d, n, bts, hld, m)
           J == ItemsOf(d, n, bts2, hld2, m)
           M == Moved(I, s, b)
<1> USE DEF PutsDown
<1>1. /\ Dst(c) \in Channels /\ Stage(Dst(c)) = s + 1 /\ Dst(c)[2] = d
      /\ Hand(c) = s /\ s \in 2..Target - 2 /\ Target \in Nat /\ Target > 3
      /\ s \in 0..Target - 1 /\ s \in 0..Target /\ s + 1 \in 0..Target
  <2>1. Hand(c) \in 2..Target - 2 /\ Target \in Nat /\ Target > 3 /\ Stage(Dst(c)) = Hand(c) + 1
    BY Stages
  <2> QED
    BY <2>1, Places, Stages
<1>2. /\ M[s] = I[s] \ {b} /\ M[s + 1] = I[s + 1] \cup {b}
      /\ \A t \in 0..Target : t # s /\ t # s + 1 => M[t] = I[t]
  BY <1>1 DEF Moved
<1>3. J[0] = M[0] /\ J[Target] = M[Target]
  <2>1. I[0] = {a \in Bytes : a > n} /\ I[Target] = {a \in Bytes : a <= m}
    BY ItemsAt
  <2>2. J[0] = {a \in Bytes : a > n} /\ J[Target] = {a \in Bytes : a <= m}
    BY ItemsAt
  <2>3. 0 \in 0..Target /\ Target \in 0..Target /\ 0 # s /\ 0 # s + 1 /\ Target # s /\ Target # s + 1
    BY <1>1
  <2> QED
    BY <1>2, <2>1, <2>2, <2>3
<1>4. ASSUME NEW ch \in Channels, ch[2] = d PROVE J[Stage(ch)] = M[Stage(ch)]
  <2>1. I[Stage(ch)] = Bytes \cap Range(bts[ch]) /\ J[Stage(ch)] = Bytes \cap Range(bts2[ch])
    BY <1>4, ItemsAt
  <2>2. Stage(ch) # s /\ Stage(ch) \in 0..Target /\ (Stage(ch) = s + 1 => ch = Dst(c))
    BY <1>1, <1>4, Stages
  <2>3. CASE ch = Dst(c)
    BY <1>1, <1>2, <2>1, <2>3
  <2>4. CASE ch # Dst(c)
    BY <1>2, <2>1, <2>2, <2>4
  <2> QED
    BY <2>3, <2>4
<1>5. ASSUME NEW e \in Copiers, e[2] = d PROVE J[Hand(e)] = M[Hand(e)]
  <2>1. I[Hand(e)] = Bytes \cap {hld[e]} /\ J[Hand(e)] = Bytes \cap {hld2[e]}
    BY <1>5, ItemsAt
  <2>2. Hand(e) # s + 1 /\ Hand(e) \in 0..Target /\ (Hand(e) = s => e = c)
    BY <1>1, <1>5, Stages
  <2>3. CASE e = c
    <3>1. None \notin Bytes
      BY DEF Bytes, None
    <3> QED
      BY <1>1, <1>2, <2>1, <2>3, <3>1
  <2>4. CASE e # c
    BY <1>2, <2>1, <2>2, <2>4
  <2> QED
    BY <2>3, <2>4
<1>6. IsStage(d, s) /\ IsStage(d, s + 1)
  BY <1>1 DEF IsStage, Outer, OnChannel, InHand
<1>8. Staged(d, I) /\ Staged(d, J)
  BY ItemsAt
<1>9. M = Moved(I, s, b)
  OBVIOUS
<1> HIDE DEF I, J, M, s
<1>7. \A t \in 0..Target : IsStage(d, t) => J[t] = M[t]
  BY <1>3, <1>4, <1>5 DEF IsStage, Outer, OnChannel, InHand
<1>10. s \in 0..Target - 1
  BY <1>1
<1>11. J = Moved(I, s, b)
  BY <1>10, <1>6, <1>7, <1>8, <1>9, ItemsMove
<1> QED
  BY <1>11 DEF I, J, s

LEMMA SendMoves ==
  ASSUME NEW d \in Directions, sent[d] \in Nat, NEW b \in Bytes, b = sent[d] + 1, sent'[d] = b,
         Range(bytes'[First(d)]) = Range(bytes[First(d)]) \cup {b},
         \A ch \in Channels \ {First(d)} : bytes'[ch] = bytes[ch],
         UNCHANGED <<held, got>>
  PROVE  Items(d)' = Moved(Items(d), 0, b)
<1> DEFINE n == sent[d]
           m == Len(got[d])
           I == ItemsOf(d, n, bytes, held, m)
           J == ItemsOf(d, b, bytes', held, m)
           M == Moved(I, 0, b)
<1>1. /\ First(d) \in Channels /\ Stage(First(d)) = 1 /\ First(d)[2] = d
      /\ Target \in Nat /\ Target > 3 /\ 0 + 1 = 1
      /\ 0 \in 0..Target - 1 /\ 0 \in 0..Target /\ 1 \in 0..Target /\ Target \in 0..Target
  BY Places, Stages
<1>2. /\ M[0] = I[0] \ {b} /\ M[1] = I[1] \cup {b}
      /\ \A t \in 0..Target : t # 0 /\ t # 1 => M[t] = I[t]
  BY <1>1 DEF Moved
<1>3. J[0] = M[0] /\ J[Target] = M[Target]
  <2>1. I[0] = {a \in Bytes : a > n} /\ I[Target] = {a \in Bytes : a <= m}
    BY ItemsAt
  <2>2. J[0] = {a \in Bytes : a > b} /\ J[Target] = {a \in Bytes : a <= m}
    BY ItemsAt
  <2>3. \A a \in Bytes : a > b <=> a > n /\ a # b
    BY RelayAssumption DEF RelayAssumption, Bytes
  <2>4. J[0] = I[0] \ {b}
    BY <2>1, <2>2, <2>3
  <2>5. Target # 0 /\ Target # 1
    BY <1>1
  <2> QED
    BY <1>1, <1>2, <2>1, <2>2, <2>4, <2>5
<1>4. ASSUME NEW ch \in Channels, ch[2] = d PROVE J[Stage(ch)] = M[Stage(ch)]
  <2>1. I[Stage(ch)] = Bytes \cap Range(bytes[ch]) /\ J[Stage(ch)] = Bytes \cap Range(bytes'[ch])
    BY <1>4, ItemsAt
  <2>2. Stage(ch) # 0 /\ Stage(ch) \in 0..Target /\ (Stage(ch) = 1 => ch = First(d))
    BY <1>1, <1>4, Stages
  <2>3. CASE ch = First(d)
    <3>1. Range(bytes'[ch]) = Range(bytes[ch]) \cup {b} /\ Stage(ch) = 1
      BY <1>1, <2>3
    <3>2. J[1] = I[1] \cup {b}
      BY <2>1, <3>1
    <3> QED
      BY <1>2, <3>1, <3>2
  <2>4. CASE ch # First(d)
    BY <1>2, <2>1, <2>2, <2>4
  <2> QED
    BY <2>3, <2>4
<1>5. ASSUME NEW e \in Copiers, e[2] = d PROVE J[Hand(e)] = M[Hand(e)]
  <2>1. I[Hand(e)] = Bytes \cap {held[e]} /\ J[Hand(e)] = Bytes \cap {held[e]}
    BY <1>5, ItemsAt
  <2>2. Hand(e) # 0 /\ Hand(e) # 1 /\ Hand(e) \in 0..Target
    BY <1>1, <1>5, Stages
  <2> QED
    BY <1>2, <2>1, <2>2
<1>6. IsStage(d, 0) /\ IsStage(d, 0 + 1)
  BY <1>1 DEF IsStage, Outer, OnChannel, InHand
<1>8. Staged(d, I) /\ Staged(d, J)
  BY ItemsAt
<1>9. M = Moved(I, 0, b)
  OBVIOUS
<1> HIDE DEF I, J, M
<1>7. \A t \in 0..Target : IsStage(d, t) => J[t] = M[t]
  BY <1>3, <1>4, <1>5 DEF IsStage, Outer, OnChannel, InHand
<1>10. 0 \in 0..Target - 1
  BY <1>1
<1>11. J = Moved(I, 0, b)
  BY <1>10, <1>6, <1>7, <1>8, <1>9, ItemsMove
<1> QED
  BY <1>11 DEF I, J, Items

LEMMA ReceiveMoves ==
  ASSUME NEW d \in Directions, Len(got[d]) \in Nat, NEW b \in Bytes, b = Len(got[d]) + 1,
         Len(got'[d]) = b,
         Range(bytes'[Last(d)]) = Range(bytes[Last(d)]) \ {b},
         \A ch \in Channels \ {Last(d)} : bytes'[ch] = bytes[ch],
         UNCHANGED <<held, sent>>
  PROVE  Items(d)' = Moved(Items(d), Target - 1, b)
<1> DEFINE n == sent[d]
           m == Len(got[d])
           s == Target - 1
           I == ItemsOf(d, n, bytes, held, m)
           J == ItemsOf(d, n, bytes', held, b)
           M == Moved(I, s, b)
<1>1. /\ Last(d) \in Channels /\ Stage(Last(d)) = s /\ Last(d)[2] = d
      /\ Target \in Nat /\ Target > 3 /\ s + 1 = Target /\ s # 0 /\ Target # 0 /\ s # Target
      /\ s \in 0..Target - 1 /\ 0 \in 0..Target /\ s \in 0..Target /\ Target \in 0..Target
  BY Places, Stages
<1>2. /\ M[s] = I[s] \ {b} /\ M[Target] = I[Target] \cup {b}
      /\ \A t \in 0..Target : t # s /\ t # Target => M[t] = I[t]
  BY <1>1 DEF Moved
<1>3. J[0] = M[0] /\ J[Target] = M[Target]
  <2>1. I[0] = {a \in Bytes : a > n} /\ I[Target] = {a \in Bytes : a <= m}
    BY ItemsAt
  <2>2. J[0] = {a \in Bytes : a > n} /\ J[Target] = {a \in Bytes : a <= b}
    BY ItemsAt
  <2>3. b \in Bytes /\ \A a \in Bytes : a <= b <=> a <= m \/ a = b
    BY RelayAssumption DEF RelayAssumption, Bytes
  <2>4. J[Target] = I[Target] \cup {b}
    BY <2>1, <2>2, <2>3
  <2>5. M[0] = I[0] /\ M[Target] = I[Target] \cup {b}
    BY <1>1, <1>2
  <2> QED
    BY <2>1, <2>2, <2>4, <2>5
<1>4. ASSUME NEW ch \in Channels, ch[2] = d PROVE J[Stage(ch)] = M[Stage(ch)]
  <2>1. I[Stage(ch)] = Bytes \cap Range(bytes[ch]) /\ J[Stage(ch)] = Bytes \cap Range(bytes'[ch])
    BY <1>4, ItemsAt
  <2>2. Stage(ch) # Target /\ Stage(ch) \in 0..Target /\ (Stage(ch) = s => ch = Last(d))
    BY <1>1, <1>4, Stages
  <2>3. CASE ch = Last(d)
    BY <1>1, <1>2, <2>1, <2>3
  <2>4. CASE ch # Last(d)
    BY <1>2, <2>1, <2>2, <2>4
  <2> QED
    BY <2>3, <2>4
<1>5. ASSUME NEW e \in Copiers, e[2] = d PROVE J[Hand(e)] = M[Hand(e)]
  <2>1. I[Hand(e)] = Bytes \cap {held[e]} /\ J[Hand(e)] = Bytes \cap {held[e]}
    BY <1>5, ItemsAt
  <2>2. Hand(e) # s /\ Hand(e) # Target /\ Hand(e) \in 0..Target
    BY <1>1, <1>5, Stages
  <2> QED
    BY <1>2, <2>1, <2>2
<1>6. IsStage(d, s) /\ IsStage(d, s + 1)
  BY <1>1 DEF IsStage, Outer, OnChannel, InHand
<1>8. Staged(d, I) /\ Staged(d, J)
  BY ItemsAt
<1>9. M = Moved(I, s, b)
  OBVIOUS
<1> HIDE DEF I, J, M, s
<1>7. \A t \in 0..Target : IsStage(d, t) => J[t] = M[t]
  BY <1>3, <1>4, <1>5 DEF IsStage, Outer, OnChannel, InHand
<1>10. s \in 0..Target - 1
  BY <1>1
<1>11. J = Moved(I, s, b)
  BY <1>10, <1>6, <1>7, <1>8, <1>9, ItemsMove
<1> QED
  BY <1>11 DEF I, J, s, Items

LEMMA ItemsSame ==
  ASSUME NEW d, NEW n, NEW bts, NEW hld, NEW m, NEW bts2, NEW hld2,
         \A ch \in Channels : ch[2] = d => bts2[ch] = bts[ch],
         \A c \in Copiers : c[2] = d => hld2[c] = hld[c]
  PROVE  ItemsOf(d, n, bts2, hld2, m) = ItemsOf(d, n, bts, hld, m)
  BY DEF ItemsOf

LEMMA StopsAt ==
  ASSUME NEW cut \in SUBSET Channels, NEW cop
  PROVE  /\ \A ch \in Channels : Stage(ch) \in StopsOf(ch[2], cut, cop) <=> ch \in cut
         /\ \A c \in Copiers : Hand(c) \in StopsOf(c[2], cut, cop) <=> cop[c] \in Stopped
         /\ \A d \in Directions : \A s \in StopsOf(d, cut, cop) : s \in Nat /\ s < Target
<1>1. \A ch \in Channels : Stage(ch) \in StopsOf(ch[2], cut, cop) <=> ch \in cut
  BY Stages DEF StopsOf
<1>2. \A c \in Copiers : Hand(c) \in StopsOf(c[2], cut, cop) <=> cop[c] \in Stopped
  BY Stages DEF StopsOf
<1>3. ASSUME NEW d \in Directions, NEW s \in StopsOf(d, cut, cop) PROVE s \in Nat /\ s < Target
  <2>1. CASE s \in {Stage(ch) : ch \in {r \in cut : r[2] = d}}
    BY <2>1, Stages
  <2>2. CASE s \in {Hand(c) : c \in {q \in Copiers : q[2] = d /\ cop[q] \in Stopped}}
    BY <2>2, Stages
  <2> QED
    BY <1>3, <2>1, <2>2 DEF StopsOf
<1> QED
  BY <1>1, <1>2, <1>3

(* The bytes of each direction come in the order they were sent, whatever      *)
(* fails, and the end of a stream is seen only when nothing is left.         *)
OrderInv ==
    /\ \A ch \in Channels : Increasing(bytes[ch]) /\ (ch \in reset => bytes[ch] = <<>>)
    /\ \A d \in Directions : Ordered(Items(d), Stops(d))
    /\ \A d \in Directions : \A i \in 1..Len(got[d]) : got[d][i] = i
    /\ \A d \in eof : bytes[Last(d)] = <<>> /\ Last(d) \in fin \cup reset

LEMMA OrderInitial == RelayInit => OrderInv
<1> SUFFICES ASSUME RelayInit PROVE OrderInv
  OBVIOUS
<1>1. /\ \A ch \in Channels : bytes[ch] = <<>>
      /\ \A c \in Copiers : held[c] = 0
      /\ \A d \in Directions : sent[d] = 0 /\ got[d] = <<>>
      /\ reset = {} /\ eof = {} /\ Len(<<>>) = 0
  BY DEF RelayInit, None
<1>2. ASSUME NEW d \in Directions PROVE Ordered(Items(d), Stops(d))
  <2>1. /\ \A a \in Bytes : a \in Int /\ a > 0
        /\ \A a \in Bytes : \A b \in 1..a - 1 : b \in Bytes
    BY RelayAssumption DEF RelayAssumption, Bytes
  <2>2. \A s \in 0..Target : s # 0 => Items(d)[s] = {}
    BY <1>1, <2>1, IncreasingEmpty, Stages DEF Items, ItemsOf
  <2>3. Items(d)[0] = Bytes
    <3>1. Items(d)[0] = {b \in Bytes : b > sent[d]}
      BY ItemsAt DEF Items
    <3> QED
      BY <1>1, <2>1, <3>1
  <2>4. Target \in Nat /\ 0 \in 0..Target
    BY Stages
  <2> QED
    BY <2>1, <2>2, <2>3, <2>4 DEF Ordered
<1> QED
  BY <1>1, <1>2, IncreasingEmpty DEF OrderInv

(* Bytes are lost where a channel was reset, in the hands of a copier that     *)
(* stops, and by a sender or a copier that writes to a channel as it resets.   *)
HandsLose ==
    \A c \in Copiers : \/ held'[c] = held[c]
                       \/ held'[c] = None /\ (copier'[c] \in Stopped \/ Dst(c) \in reset')

LEMMA ItemsLost ==
  ASSUME TypeInv, Loses, HandsLose, NEW d \in Directions,
         sent'[d] = sent[d] \/ (sent'[d] = sent[d] + 1 /\ First(d) \in reset'),
         Len(got'[d]) = Len(got[d]), NEW s \in 0..Target,
         NEW b \in Items(d)[s], b \notin Items(d)'[s]
  PROVE  (\E t \in Stops(d)' : t > s) \/ (s \in Stops(d)' /\ Items(d)'[s] = {})
<1>1. PICK all \in SUBSET Channels :
        /\ reset' = reset \cup all
        /\ bytes' = [ch \in Channels |-> IF ch \in all THEN <<>> ELSE bytes[ch]]
  BY DEF Loses
<1>2. reset' \in SUBSET Channels
  BY LosesTyped DEF TypeInv
<1>3. /\ b \in Bytes
      /\ \/ s = 0 /\ b > sent[d] /\ ~(b > sent'[d])
         \/ \E ch \in Channels : ch[2] = d /\ s = Stage(ch) /\ b \in Range(bytes[ch])
                                   /\ b \notin Range(bytes'[ch])
         \/ \E c \in Copiers : c[2] = d /\ s = Hand(c) /\ b = held[c] /\ b # held'[c]
  BY DEF Items, ItemsOf
<1>4. CASE s = 0 /\ b > sent[d] /\ ~(b > sent'[d])
  <2>1. First(d) \in reset' /\ Stage(First(d)) = 1 /\ First(d)[2] = d /\ First(d) \in Channels
    BY <1>4, Stages, Places
  <2>2. Stage(First(d)) \in StopsOf(First(d)[2], reset', copier')
    BY <1>2, <2>1, StopsAt
  <2>3. 1 \in Stops(d)'
    BY <2>1, <2>2 DEF Stops
  <2> QED
    BY <1>4, <2>3
<1>5. ASSUME NEW ch \in Channels, ch[2] = d, s = Stage(ch), b \in Range(bytes[ch]),
             b \notin Range(bytes'[ch])
      PROVE  s \in Stops(d)' /\ Items(d)'[s] = {}
  <2>1. ch \in reset' /\ bytes'[ch] = <<>>
    BY <1>1, <1>5
  <2>2. s \in Stops(d)'
    BY <1>2, <1>5, <2>1, StopsAt DEF Stops
  <2>3. Items(d)'[s] = Bytes \cap Range(bytes'[ch])
    BY <1>5, ItemsAt DEF Items
  <2> QED
    BY <2>1, <2>2, <2>3, IncreasingEmpty
<1>6. ASSUME NEW c \in Copiers, c[2] = d, s = Hand(c), b = held[c], b # held'[c]
      PROVE  (\E t \in Stops(d)' : t > s) \/ (s \in Stops(d)' /\ Items(d)'[s] = {})
  <2>1. held'[c] = None /\ (copier'[c] \in Stopped \/ Dst(c) \in reset')
    BY <1>6 DEF HandsLose
  <2>2. CASE copier'[c] \in Stopped
    <3>1. s \in Stops(d)'
      BY <1>2, <1>6, <2>2, StopsAt DEF Stops
    <3>2. Items(d)'[s] = Bytes \cap {held'[c]}
      BY <1>6, ItemsAt DEF Items
    <3>3. None \notin Bytes
      BY DEF None, Bytes
    <3> QED
      BY <2>1, <3>1, <3>2, <3>3
  <2>3. CASE Dst(c) \in reset'
    <3>1. Dst(c) \in Channels /\ Dst(c)[2] = d /\ Stage(Dst(c)) = s + 1 /\ s \in Int
      BY <1>6, Places, Stages
    <3>2. Stage(Dst(c)) \in StopsOf(Dst(c)[2], reset', copier')
      BY <1>2, <2>3, <3>1, StopsAt
    <3>3. s + 1 \in Stops(d)'
      BY <3>1, <3>2 DEF Stops
    <3> QED
      BY <3>1, <3>3
  <2> QED
    BY <2>1, <2>2, <2>3
<1> QED
  BY <1>3, <1>4, <1>5, <1>6

LEMMA LossyStep ==
  ASSUME TypeInv, TypeInv', OrderInv, Growth, Loses, HandsLose,
         \A c \in Copiers : copier[c] \in Stopped => copier'[c] \in Stopped,
         \A d \in Directions : sent'[d] = sent[d] \/ (sent'[d] = sent[d] + 1 /\ First(d) \in reset'),
         got' = got,
         \A d \in eof' \ eof : bytes'[Last(d)] = <<>> /\ Last(d) \in fin' \cup reset'
  PROVE  OrderInv'
<1>1. PICK all \in SUBSET Channels :
        /\ reset' = reset \cup all
        /\ bytes' = [ch \in Channels |-> IF ch \in all THEN <<>> ELSE bytes[ch]]
  BY DEF Loses
<1>2. \A ch \in Channels : bytes'[ch] = <<>> \/ (bytes'[ch] = bytes[ch] /\ ch \notin all)
  BY <1>1
<1>3. \A ch \in Channels : Increasing(bytes'[ch]) /\ (ch \in reset' => bytes'[ch] = <<>>)
  BY <1>1, <1>2, IncreasingEmpty DEF OrderInv
<1>4. ASSUME NEW d \in Directions PROVE Ordered(Items(d)', Stops(d)')
  <2>0. /\ sent[d] \in Int /\ sent'[d] \in Int /\ Len(got'[d]) = Len(got[d])
        /\ reset \in SUBSET Channels /\ reset' \in SUBSET Channels
        /\ \A b \in Bytes : b \in Int /\ b # None
    BY RelayAssumption DEF RelayAssumption, TypeInv, RelayTypeOK, Bytes, None
  <2>1. /\ Items(d) \in [0..Target -> SUBSET Bytes]
        /\ Items(d)' \in [0..Target -> SUBSET Bytes]
    BY ItemsAt DEF Items, Staged
  <2>2. ASSUME NEW s \in 0..Target PROVE Items(d)'[s] \subseteq Items(d)[s]
    <3>1. \A ch \in Channels : Range(bytes'[ch]) \subseteq Range(bytes[ch])
      BY <1>2, IncreasingEmpty
    <3>2. \A c \in Copiers : \A b \in Bytes : b = held'[c] => b = held[c]
      BY <2>0 DEF HandsLose
    <3>3. \A b \in Bytes : b > sent'[d] => b > sent[d]
      BY <2>0
    <3> QED
      BY <2>0, <3>1, <3>2, <3>3 DEF Items, ItemsOf
  <2>3. ASSUME NEW s \in 0..Target, NEW b \in Items(d)[s] \ Items(d)'[s]
        PROVE  (\E t \in Stops(d)' : t > s) \/ (s \in Stops(d)' /\ Items(d)'[s] = {})
    BY <2>0, ItemsLost
  <2>4. Stops(d)' \in SUBSET Nat
    BY <2>0, StopsAt DEF Stops
  <2>5. Stops(d) \subseteq Stops(d)'
    <3>1. reset \subseteq reset' /\ \A c \in Copiers : copier[c] \in Stopped => copier'[c] \in Stopped
      BY DEF Growth
    <3> QED
      BY <3>1 DEF Stops, StopsOf
  <2>6. Ordered(Items(d), Stops(d))
    BY DEF OrderInv
  <2>7. Lost(Items(d), Stops(d), Items(d)', Stops(d)')
    BY <2>1, <2>2, <2>3, <2>4, <2>5 DEF Lost
  <2> QED
    BY <2>6, <2>7, Lose
<1>5. \A d \in Directions : \A i \in 1..Len(got'[d]) : got'[d][i] = i
  BY DEF OrderInv
<1>6. ASSUME NEW d \in eof' PROVE bytes'[Last(d)] = <<>> /\ Last(d) \in fin' \cup reset'
  <2>1. CASE d \in eof
    <3>1. bytes[Last(d)] = <<>> /\ Last(d) \in fin \cup reset
      BY <2>1 DEF OrderInv
    <3>2. Last(d) \in Channels
      BY <2>1, Places DEF TypeInv, RelayTypeOK
    <3> QED
      BY <1>2, <3>1, <3>2 DEF Growth
  <2> QED
    BY <2>1
<1> QED
  BY <1>3, <1>4, <1>5, <1>6 DEF OrderInv

(* Steps that move no byte on.                                               *)
LEMMA QuietStep ==
  ASSUME TypeInv, TypeInv', OrderInv, Growth, Loses, UNCHANGED <<held, copier, sent, got, eof>>
  PROVE  OrderInv'
  BY LossyStep DEF HandsLose

LEMMA HandStep ==
  ASSUME TypeInv, TypeInv', OrderInv, Growth, Loses, NEW c \in Copiers, NEW s,
         copier' = [copier EXCEPT ![c] = s], s \in Stopped, UNCHANGED <<held, sent, got, eof>>
  PROVE  OrderInv'
<1>1. \A e \in Copiers : copier'[e] = copier[e] \/ copier'[e] = s
  BY DEF TypeInv, RelayTypeOK
<1> QED
  BY <1>1, LossyStep DEF HandsLose

LEMMA StopsKept ==
  ASSUME reset' = reset, \A c \in Copiers : copier'[c] \in Stopped <=> copier[c] \in Stopped,
         NEW d \in Directions
  PROVE  Stops(d)' = Stops(d)
<1>1. {q \in Copiers : q[2] = d /\ copier'[q] \in Stopped}
        = {q \in Copiers : q[2] = d /\ copier[q] \in Stopped}
  OBVIOUS
<1> QED
  BY <1>1 DEF Stops, StopsOf

(* No byte of direction d has been lost.                                     *)
Whole(d) == \A b \in Bytes : \E s \in 0..Target : b \in Items(d)[s]

(* A byte of direction d moves on from stage s.                              *)
LEMMA AdvanceStep ==
  ASSUME TypeInv, OrderInv, NEW d \in Directions, NEW s \in 0..Target - 1, NEW b \in Items(d)[s],
         Items(d)' = Moved(Items(d), s, b), \A a \in Items(d)[s] : a >= b, s + 1 \notin Stops(d),
         \A o \in Directions \ {d} : Items(o)' = Items(o),
         \A o \in Directions : Stops(o)' = Stops(o)
  PROVE  \A o \in Directions : Ordered(Items(o)', Stops(o)') /\ (Whole(o) => Whole(o)')
<1>1. \A o \in Directions : Ordered(Items(o), Stops(o))
  BY DEF OrderInv
<1>2. Ordered(Items(d)', Stops(d)')
  <2>1. Items(d) \in [0..Target -> SUBSET Bytes]
    BY ItemsAt DEF Items, Staged
  <2>2. reset \in SUBSET Channels
    BY DEF TypeInv, RelayTypeOK
  <2>3. Stops(d) \in SUBSET Nat
    BY <2>2, StopsAt DEF Stops
  <2>4. Ordered(Moved(Items(d), s, b), Stops(d))
    BY <1>1, <2>1, <2>3, Advance
  <2> QED
    BY <2>4
<1>3. ASSUME Whole(d), NEW x \in Bytes PROVE \E t \in 0..Target : x \in Items(d)'[t]
  <2>0. Target \in Nat /\ s \in 0..Target /\ s + 1 \in 0..Target
    BY Stages
  <2>1. PICK t \in 0..Target : x \in Items(d)[t]
    BY <1>3 DEF Whole
  <2>2. CASE t = s /\ x = b
    <3>1. b \in Items(d)'[s + 1]
      BY <2>0 DEF Moved
    <3> QED
      BY <2>0, <2>2, <3>1
  <2>3. CASE ~(t = s /\ x = b)
    BY <2>1, <2>3 DEF Moved
  <2> QED
    BY <2>2, <2>3
<1>4. Whole(d) => Whole(d)'
  BY <1>3 DEF Whole
<1>5. \A o \in Directions \ {d} : Whole(o) => Whole(o)'
  BY DEF Whole
<1> QED
  BY <1>1, <1>2, <1>4, <1>5

LEMMA ReadOrders ==
  ASSUME TypeInv, TypeInv', OrderInv, NEW c \in Copiers, Read(c)
  PROVE  OrderInv' /\ \A o \in Directions : Whole(o) => Whole(o)'
<1> DEFINE ch == Src(c)   h == Head(bytes[ch])   d == c[2]
<1>0. ch \in Channels /\ d \in Directions /\ c[2] = d /\ ch[2] = d /\ Stage(ch) = Hand(c) - 1
      /\ Hand(c) \in 2..Target - 2 /\ Target \in Nat
  BY Places, Stages
<1>1. /\ bytes[ch] \in Seq(1..MaxBytes) /\ bytes[ch] # <<>> /\ Increasing(bytes[ch])
      /\ reset \in SUBSET Channels /\ 1..MaxBytes \subseteq Bytes
  <2>1. bytes[ch] \in Seq(1..MaxBytes) /\ Increasing(bytes[ch]) /\ reset \in SUBSET Channels
    BY <1>0 DEF TypeInv, RelayTypeOK, OrderInv
  <2>2. 1..MaxBytes \subseteq Bytes
    BY RelayAssumption DEF RelayAssumption, Bytes
  <2>3. bytes[ch] # <<>>
    BY DEF Read, TakeByte
  <2> QED
    BY <2>1, <2>2, <2>3
<1>2. /\ h \in 1..MaxBytes /\ bytes'[ch] = Tail(bytes[ch])
      /\ \A o \in Channels \ {ch} : bytes'[o] = bytes[o]
  BY <1>0, TakeTyped DEF Read, TypeInv
<1>3. /\ Increasing(bytes'[ch]) /\ h \in Range(bytes[ch])
      /\ Range(bytes'[ch]) = Range(bytes[ch]) \ {h}
      /\ \A b \in Range(bytes[ch]) : b >= h
  BY <1>1, <1>2, IncreasingTail
<1>4. /\ held[c] = None /\ held'[c] = h /\ \A e \in Copiers \ {c} : held'[e] = held[e]
      /\ copier[c] = "read" /\ copier'[c] = "write"
      /\ \A e \in Copiers \ {c} : copier'[e] = copier[e]
      /\ UNCHANGED <<fin, reset, sent, got, eof>>
  <2>1. held[c] = None
    BY DEF Read, TypeInv, RelayTypeOK
  <2> QED
    BY <2>1 DEF Read, TakeByte, history, TypeInv, RelayTypeOK
<1> HIDE DEF h, d
<1>5. Items(d)' = Moved(Items(d), Hand(c) - 1, h)
  <2>1. Items(d)' = ItemsOf(d, sent[d], bytes', held', Len(got[d]))
    BY <1>4 DEF Items
  <2>2. h \in Bytes
    BY <1>1, <1>2
  <2>3. ItemsOf(d, sent[d], bytes', held', Len(got[d]))
          = Moved(ItemsOf(d, sent[d], bytes, held, Len(got[d])), Hand(c) - 1, h)
    <3>1. TakesUp(c, h, bytes, held, bytes', held')
      BY <1>2, <1>3, <1>4 DEF TakesUp
    <3>2. Follows(d, Hand(c) - 1, h, bytes, held, bytes', held')
      BY <1>0, <2>2, <3>1, ReadMoves
    <3> QED
      BY <3>2 DEF Follows
  <2> QED
    BY <2>1, <2>3 DEF Items
<1>6. \A o \in Directions \ {d} : Items(o)' = Items(o)
  BY <1>0, <1>2, <1>4, ItemsSame DEF Items
<1>7. \A o \in Directions : Stops(o)' = Stops(o)
  BY <1>4, StopsKept DEF Stopped
<1>8. Hand(c) \notin Stops(d)
  <2>1. Hand(c) \in StopsOf(c[2], reset, copier) <=> copier[c] \in Stopped
    BY <1>1, StopsAt
  <2>2. copier[c] \notin Stopped
    BY <1>4 DEF Stopped
  <2> QED
    BY <1>0, <2>1, <2>2 DEF Stops
<1>9. Items(d)[Hand(c) - 1] = Bytes \cap Range(bytes[ch])
  BY <1>0, ItemsAt DEF Items
<1>10. \A o \in Directions : Ordered(Items(o)', Stops(o)') /\ (Whole(o) => Whole(o)')
  <2>1. /\ Hand(c) - 1 \in 0..Target - 1 /\ (Hand(c) - 1) + 1 = Hand(c)
    BY <1>0
  <2>2. h \in Items(d)[Hand(c) - 1] /\ \A a \in Items(d)[Hand(c) - 1] : a >= h
    BY <1>1, <1>2, <1>3, <1>9
  <2> QED
    BY <1>0, <1>5, <1>6, <1>7, <1>8, <2>1, <2>2, AdvanceStep
<1>11. \A o \in Channels : Increasing(bytes'[o]) /\ (o \in reset' => bytes'[o] = <<>>)
  BY <1>1, <1>2, <1>3, <1>4 DEF OrderInv
<1>12. \A o \in eof' : bytes'[Last(o)] = <<>> /\ Last(o) \in fin' \cup reset'
  <2> SUFFICES ASSUME NEW o \in eof
               PROVE  bytes'[Last(o)] = <<>> /\ Last(o) \in fin \cup reset
    BY <1>4
  <2>1. bytes[Last(o)] = <<>> /\ Last(o) \in fin \cup reset
    BY DEF OrderInv
  <2>2. o \in Directions
    BY DEF TypeInv, RelayTypeOK
  <2>3. Last(o) \in Channels /\ Last(o) # ch
    BY <1>1, <2>1, <2>2, Places
  <2> QED
    BY <1>2, <2>1, <2>3
<1> QED
  BY <1>4, <1>10, <1>11, <1>12 DEF OrderInv

LEMMA WriteOrders ==
  ASSUME TypeInv, TypeInv', OrderInv, NEW c \in Copiers, Write(c), PutWell(Dst(c), held[c])
  PROVE  OrderInv' /\ \A o \in Directions : Whole(o) => Whole(o)'
<1> DEFINE ch == Dst(c)   h == held[c]   d == c[2]
<1>0. ch \in Channels /\ d \in Directions /\ c[2] = d /\ ch[2] = d /\ Stage(ch) = Hand(c) + 1
      /\ Hand(c) \in 2..Target - 2 /\ Target \in Nat
  BY Places, Stages
<1>1. /\ bytes[ch] \in Seq(1..MaxBytes) /\ Increasing(bytes[ch])
      /\ reset \in SUBSET Channels /\ 1..MaxBytes \subseteq Bytes /\ h \in 1..MaxBytes
  <2>1. bytes[ch] \in Seq(1..MaxBytes) /\ Increasing(bytes[ch]) /\ reset \in SUBSET Channels
    BY <1>0 DEF TypeInv, RelayTypeOK, OrderInv
  <2>2. 1..MaxBytes \subseteq Bytes
    BY RelayAssumption DEF RelayAssumption, Bytes
  <2>3. h \in 1..MaxBytes
    BY WritingByte DEF Write
  <2> QED
    BY <2>1, <2>2, <2>3
<1>2. /\ ch \notin reset \cup fin /\ bytes'[ch] = Append(bytes[ch], h)
      /\ \A o \in Channels \ {ch} : bytes'[o] = bytes[o]
      /\ UNCHANGED <<fin, reset, sent, got, eof>>
  BY DEF Write, PutWell, history
<1>3. /\ held'[c] = None /\ \A e \in Copiers \ {c} : held'[e] = held[e]
      /\ copier[c] = "write" /\ copier'[c] = "read"
      /\ \A e \in Copiers \ {c} : copier'[e] = copier[e]
  BY DEF Write, TypeInv, RelayTypeOK
<1>4. /\ Items(d)[Hand(c)] = Bytes \cap {h}
      /\ Items(d)[Hand(c) + 1] = Bytes \cap Range(bytes[ch])
  BY <1>0, ItemsAt DEF Items
<1>5. \A x \in Range(bytes[ch]) : x < h
  <2>1. \A x \in Range(bytes[ch]) : x \in 1..MaxBytes
    BY <1>1, RangeOfSeq
  <2>2. Ordered(Items(d), Stops(d))
    BY <1>0 DEF OrderInv
  <2>3. Hand(c) \in 0..Target /\ Hand(c) + 1 \in 0..Target /\ Hand(c) < Hand(c) + 1
    BY <1>0
  <2>4. \A a \in Items(d)[Hand(c)], b \in Items(d)[Hand(c) + 1] : a > b
    BY <2>2, <2>3 DEF Ordered
  <2> QED
    BY <1>1, <1>4, <2>1, <2>4, RelayAssumption DEF RelayAssumption
<1> HIDE DEF h, d
<1>6. Increasing(bytes'[ch]) /\ Range(bytes'[ch]) = Range(bytes[ch]) \cup {h}
  BY <1>1, <1>2, <1>5, IncreasingAppend
<1>7. Items(d)' = Moved(Items(d), Hand(c), h)
  <2>1. Items(d)' = ItemsOf(d, sent[d], bytes', held', Len(got[d]))
    BY <1>2 DEF Items
  <2>2. h \in Bytes /\ held[c] = h
    BY <1>1 DEF h
  <2>3. ItemsOf(d, sent[d], bytes', held', Len(got[d]))
          = Moved(ItemsOf(d, sent[d], bytes, held, Len(got[d])), Hand(c), h)
    <3>1. PutsDown(c, h, bytes, held, bytes', held')
      BY <1>2, <1>3, <1>6, <2>2 DEF PutsDown
    <3>2. Follows(d, Hand(c), h, bytes, held, bytes', held')
      BY <1>0, <2>2, <3>1, WriteMoves
    <3> QED
      BY <3>2 DEF Follows
  <2> QED
    BY <2>1, <2>3 DEF Items
<1>8. \A o \in Directions \ {d} : Items(o)' = Items(o)
  BY <1>0, <1>2, <1>3, ItemsSame DEF Items
<1>9. \A o \in Directions : Stops(o)' = Stops(o)
  BY <1>2, <1>3, StopsKept DEF Stopped
<1>10. Hand(c) + 1 \notin Stops(d)
  <2>1. Stage(ch) \notin StopsOf(ch[2], reset, copier)
    BY <1>0, <1>1, <1>2, StopsAt
  <2> QED
    BY <1>0, <2>1 DEF Stops
<1>11. \A o \in Directions : Ordered(Items(o)', Stops(o)') /\ (Whole(o) => Whole(o)')
  <2>1. /\ Hand(c) \in 0..Target - 1
        /\ h \in Items(d)[Hand(c)] /\ \A a \in Items(d)[Hand(c)] : a >= h
    BY <1>0, <1>1, <1>4
  <2> QED
    BY <1>0, <1>7, <1>8, <1>9, <1>10, <2>1, AdvanceStep
<1>12. \A o \in Channels : Increasing(bytes'[o]) /\ (o \in reset' => bytes'[o] = <<>>)
  BY <1>2, <1>6 DEF OrderInv
<1>13. \A o \in eof' : bytes'[Last(o)] = <<>> /\ Last(o) \in fin' \cup reset'
  <2> SUFFICES ASSUME NEW o \in eof
               PROVE  bytes'[Last(o)] = <<>> /\ Last(o) \in fin \cup reset
    BY <1>2
  <2>1. bytes[Last(o)] = <<>> /\ Last(o) \in fin \cup reset
    BY DEF OrderInv
  <2>2. o \in Directions
    BY DEF TypeInv, RelayTypeOK
  <2>3. Last(o) \in Channels /\ Last(o) # ch
    BY <1>2, <2>1, <2>2, Places
  <2> QED
    BY <1>2, <2>1, <2>3
<1> QED
  BY <1>2, <1>11, <1>12, <1>13 DEF OrderInv

LEMMA SendOrders ==
  ASSUME TypeInv, TypeInv', OrderInv, NEW d \in Directions, Send(d), PutWell(First(d), sent[d] + 1)
  PROVE  OrderInv' /\ \A o \in Directions : Whole(o) => Whole(o)'
<1> DEFINE ch == First(d)   b == sent[d] + 1
<1>0. /\ ch \in Channels /\ ch[2] = d /\ Stage(ch) = 1 /\ Target \in Nat /\ Target > 3
      /\ \A o \in Directions \ {d} : \A e \in Channels : e[2] = o => e # ch
  BY Places, Stages
<1>1. /\ bytes[ch] \in Seq(1..MaxBytes) /\ Increasing(bytes[ch]) /\ reset \in SUBSET Channels
      /\ sent[d] \in Nat /\ b \in 1..MaxBytes /\ b \in Bytes /\ 1..MaxBytes \subseteq Bytes
  <2>1. bytes[ch] \in Seq(1..MaxBytes) /\ Increasing(bytes[ch]) /\ reset \in SUBSET Channels
    BY <1>0 DEF TypeInv, RelayTypeOK, OrderInv
  <2>2. sent[d] \in Nat /\ b \in 1..MaxBytes
    BY WritingByte, RelayAssumption DEF Send, TypeInv, RelayTypeOK, RelayAssumption
  <2>3. 1..MaxBytes \subseteq Bytes
    BY RelayAssumption DEF RelayAssumption, Bytes
  <2> QED
    BY <2>1, <2>2, <2>3
<1>2. /\ ch \notin reset \cup fin /\ bytes'[ch] = Append(bytes[ch], b)
      /\ \A o \in Channels \ {ch} : bytes'[o] = bytes[o]
      /\ UNCHANGED <<fin, reset, copier, held, got, eof>>
      /\ sent'[d] = b /\ \A o \in Directions \ {d} : sent'[o] = sent[o]
  BY DEF Send, PutWell, TypeInv, RelayTypeOK
<1>3. /\ Items(d)[0] = {a \in Bytes : a > sent[d]}
      /\ Items(d)[1] = Bytes \cap Range(bytes[ch])
  <2>1. Items(d)[0] = {a \in Bytes : a > sent[d]}
    BY ItemsAt DEF Items
  <2>2. Items(d)[Stage(ch)] = Bytes \cap Range(bytes[ch])
    BY <1>0, ItemsAt DEF Items
  <2> QED
    BY <1>0, <2>1, <2>2
<1>4. b \in Items(d)[0] /\ \A a \in Items(d)[0] : a >= b
  BY <1>1, <1>3, RelayAssumption DEF RelayAssumption, Bytes
<1>5. \A x \in Range(bytes[ch]) : x < b
  <2>1. \A x \in Range(bytes[ch]) : x \in 1..MaxBytes
    BY <1>1, RangeOfSeq
  <2>2. Ordered(Items(d), Stops(d))
    BY DEF OrderInv
  <2>3. 0 \in 0..Target /\ 1 \in 0..Target /\ 0 < 1
    BY <1>0
  <2>4. \A p \in Items(d)[0], q \in Items(d)[1] : p > q
    BY <2>2, <2>3 DEF Ordered
  <2> QED
    BY <1>1, <1>3, <1>4, <2>1, <2>4, RelayAssumption DEF RelayAssumption
<1>6. Increasing(bytes'[ch]) /\ Range(bytes'[ch]) = Range(bytes[ch]) \cup {b}
  BY <1>1, <1>2, <1>5, IncreasingAppend
<1>7. Items(d)' = Moved(Items(d), 0, b)
  BY <1>1, <1>2, <1>6, SendMoves
<1>8. \A o \in Directions \ {d} : Items(o)' = Items(o)
  BY <1>0, <1>2, ItemsSame DEF Items
<1>9. \A o \in Directions : Stops(o)' = Stops(o)
  BY <1>2 DEF Stops
<1>10. 0 + 1 \notin Stops(d)
  <2>1. Stage(ch) \notin StopsOf(ch[2], reset, copier)
    BY <1>0, <1>1, <1>2, StopsAt
  <2> QED
    BY <1>0, <2>1 DEF Stops
<1>11. \A o \in Directions : Ordered(Items(o)', Stops(o)') /\ (Whole(o) => Whole(o)')
  <2>1. 0 \in 0..Target - 1
    BY <1>0
  <2> QED
    BY <1>4, <1>7, <1>8, <1>9, <1>10, <2>1, AdvanceStep
<1>12. \A o \in Channels : Increasing(bytes'[o]) /\ (o \in reset' => bytes'[o] = <<>>)
  BY <1>2, <1>6 DEF OrderInv
<1>13. \A o \in eof' : bytes'[Last(o)] = <<>> /\ Last(o) \in fin' \cup reset'
  <2> SUFFICES ASSUME NEW o \in eof
               PROVE  bytes'[Last(o)] = <<>> /\ Last(o) \in fin \cup reset
    BY <1>2
  <2>1. bytes[Last(o)] = <<>> /\ Last(o) \in fin \cup reset
    BY DEF OrderInv
  <2>2. o \in Directions
    BY DEF TypeInv, RelayTypeOK
  <2>3. Last(o) \in Channels /\ Last(o) # ch
    BY <1>2, <2>1, <2>2, Places
  <2> QED
    BY <1>2, <2>1, <2>3
<1> QED
  BY <1>2, <1>11, <1>12, <1>13 DEF OrderInv

(* The byte at the head of the last channel is the next to be received.      *)
LEMMA NextIn ==
  ASSUME TypeInv, OrderInv, NEW d \in Directions, bytes[Last(d)] # <<>>
  PROVE  Head(bytes[Last(d)]) = Len(got[d]) + 1
<1> DEFINE ch == Last(d)   h == Head(bytes[ch])   m == Len(got[d])
<1>0. /\ ch \in Channels /\ ch[2] = d /\ Stage(ch) = Target - 1
      /\ Target \in Nat /\ Target > 3
  BY Places, Stages
<1>1. /\ bytes[ch] \in Seq(1..MaxBytes) /\ Increasing(bytes[ch]) /\ m \in Nat
      /\ reset \in SUBSET Channels /\ ch \notin reset
  BY <1>0 DEF TypeInv, RelayTypeOK, OrderInv
<1>2. /\ h \in Range(bytes[ch]) /\ h \in 1..MaxBytes /\ h \in Bytes
      /\ \A b \in Range(bytes[ch]) : b >= h
  <2>1. h \in Range(bytes[ch]) /\ \A b \in Range(bytes[ch]) : b >= h
    BY <1>1, IncreasingTail
  <2>2. h \in 1..MaxBytes
    BY <1>1, <2>1, RangeOfSeq
  <2> QED
    BY <2>1, <2>2, RelayAssumption DEF RelayAssumption, Bytes
<1>3. Ordered(Items(d), Stops(d))
  BY DEF OrderInv
<1>4. /\ Items(d)[Target - 1] = Bytes \cap Range(bytes[ch])
      /\ Items(d)[Target] = {b \in Bytes : b <= m}
  <2>1. Items(d)[Stage(ch)] = Bytes \cap Range(bytes[ch])
    BY <1>0, ItemsAt DEF Items
  <2>2. Items(d)[Target] = {b \in Bytes : b <= m}
    BY ItemsAt DEF Items
  <2> QED
    BY <1>0, <2>1, <2>2
<1>5. /\ Target - 1 \in 0..Target /\ Target \in 0..Target /\ Target - 1 < Target
      /\ (Target - 1)..Target = {Target - 1, Target} /\ h \in Items(d)[Target - 1]
  BY <1>0, <1>2, <1>4
<1>6. \A t \in Stops(d) : ~(t > Target - 1)
  <2>1. \A t \in Stops(d) : t \in Nat /\ t < Target
    BY <1>1, StopsAt DEF Stops
  <2> QED
    BY <1>0, <2>1
<1>7. h > m
  <2>1. \A b \in Items(d)[Target] : h > b
    BY <1>3, <1>5 DEF Ordered
  <2>2. CASE m = 0
    BY <1>2, <2>2
  <2>3. CASE m # 0 /\ m \in Bytes
    BY <1>1, <1>4, <2>1, <2>3
  <2>4. CASE m # 0 /\ m \notin Bytes
    BY <1>1, <1>2, <1>4, <2>1, <2>4, RelayAssumption DEF RelayAssumption, Bytes
  <2> QED
    BY <2>2, <2>3, <2>4
<1>8. ASSUME h > m + 1 PROVE FALSE
  <2>1. m + 1 \in 1..h - 1 /\ m + 1 \in Bytes
    <3>1. h \in Nat /\ h <= MaxBytes /\ MaxBytes \in Nat
      BY <1>2, RelayAssumption DEF RelayAssumption
    <3> HIDE DEF h, m
    <3>2. m + 1 \in Nat /\ m + 1 >= 1 /\ m + 1 < h /\ m + 1 <= MaxBytes
      BY <1>1, <1>8, <3>1
    <3> QED
      BY <3>1, <3>2 DEF Bytes
  <2>2. \E t \in (Target - 1)..Target : m + 1 \in Items(d)[t]
    BY <1>3, <1>5, <1>6, <2>1 DEF Ordered
  <2>3. m + 1 \notin Items(d)[Target]
    BY <1>1, <1>4
  <2>4. m + 1 \notin Items(d)[Target - 1]
    BY <1>1, <1>2, <1>4, <1>8
  <2> QED
    BY <1>5, <2>2, <2>3, <2>4
<1> QED
  BY <1>1, <1>2, <1>7, <1>8

LEMMA ReceiveOrders ==
  ASSUME TypeInv, TypeInv', OrderInv, NEW d \in Directions, Receive(d)
  PROVE  /\ OrderInv' /\ \A o \in Directions : Whole(o) => Whole(o)'
         /\ d \notin eof /\ got'[d] = Append(got[d], Len(got[d]) + 1)
<1> DEFINE ch == Last(d)   b == Head(bytes[ch])   m == Len(got[d])
<1>0. /\ ch \in Channels /\ ch[2] = d /\ Stage(ch) = Target - 1 /\ Target \in Nat /\ Target > 3
      /\ \A o \in Directions \ {d} : \A e \in Channels : e[2] = o => e # ch
      /\ \A o \in Directions : Last(o) \in Channels /\ (Last(o) = ch => o = d)
  BY Places, Stages
<1>1. /\ bytes[ch] \in Seq(1..MaxBytes) /\ bytes[ch] # <<>> /\ Increasing(bytes[ch])
      /\ reset \in SUBSET Channels /\ m \in Nat /\ got[d] \in Seq(1..MaxBytes)
  <2>1. /\ bytes[ch] \in Seq(1..MaxBytes) /\ Increasing(bytes[ch]) /\ reset \in SUBSET Channels
        /\ got[d] \in Seq(1..MaxBytes)
    BY <1>0 DEF TypeInv, RelayTypeOK, OrderInv
  <2>2. bytes[ch] # <<>>
    BY DEF Receive, TakeByte
  <2> QED
    BY <2>1, <2>2
<1>2. /\ b \in 1..MaxBytes /\ bytes'[ch] = Tail(bytes[ch])
      /\ \A o \in Channels \ {ch} : bytes'[o] = bytes[o]
  BY <1>0, TakeTyped DEF Receive, TypeInv
<1>3. /\ Increasing(bytes'[ch]) /\ b \in Range(bytes[ch])
      /\ Range(bytes'[ch]) = Range(bytes[ch]) \ {b}
      /\ \A a \in Range(bytes[ch]) : a >= b
  BY <1>1, <1>2, IncreasingTail
<1>4. b = m + 1
  BY <1>1, NextIn
<1>5. /\ UNCHANGED <<fin, reset, copier, held, sent, eof>>
      /\ got'[d] = Append(got[d], b) /\ \A o \in Directions \ {d} : got'[o] = got[o]
  BY DEF Receive, TakeByte, TypeInv, RelayTypeOK
<1>6. /\ Len(got'[d]) = b /\ \A i \in 1..m : got'[d][i] = got[d][i]
      /\ got'[d][b] = b /\ \A i \in 1..b : i \in 1..m \/ i = b
  BY <1>1, <1>2, <1>4, <1>5, AppendProperties
<1>7. b \in Bytes
  BY <1>2, RelayAssumption DEF RelayAssumption, Bytes
<1> HIDE DEF b
<1>8. Items(d)' = Moved(Items(d), Target - 1, b)
  BY <1>1, <1>2, <1>3, <1>4, <1>5, <1>6, <1>7, ReceiveMoves
<1>9. \A o \in Directions \ {d} : Items(o)' = Items(o)
  BY <1>0, <1>2, <1>5, ItemsSame DEF Items
<1>10. \A o \in Directions : Stops(o)' = Stops(o)
  BY <1>5 DEF Stops
<1>11. \A o \in Directions : Ordered(Items(o)', Stops(o)') /\ (Whole(o) => Whole(o)')
  <2>1. Items(d)[Target - 1] = Bytes \cap Range(bytes[ch])
    <3>1. Items(d)[Stage(ch)] = Bytes \cap Range(bytes[ch])
      BY <1>0, ItemsAt DEF Items
    <3> QED
      BY <1>0, <3>1
  <2>2. b \in Items(d)[Target - 1] /\ \A a \in Items(d)[Target - 1] : a >= b
    BY <1>3, <1>7, <2>1
  <2>3. Target - 1 \in 0..Target - 1 /\ (Target - 1) + 1 = Target
    BY <1>0
  <2>4. Target \notin Stops(d)
    <3>1. \A t \in Stops(d) : t \in Nat /\ t < Target
      BY <1>1, StopsAt DEF Stops
    <3> QED
      BY <1>0, <3>1
  <2> QED
    BY <1>8, <1>9, <1>10, <2>2, <2>3, <2>4, AdvanceStep
<1>12. \A o \in Channels : Increasing(bytes'[o]) /\ (o \in reset' => bytes'[o] = <<>>)
  <2>1. ch \notin reset
    BY <1>1, <1>0 DEF OrderInv
  <2> QED
    BY <1>2, <1>3, <1>5, <2>1 DEF OrderInv
<1>13. d \notin eof
  BY <1>1 DEF OrderInv
<1>14. \A o \in eof' : bytes'[Last(o)] = <<>> /\ Last(o) \in fin' \cup reset'
  <2> SUFFICES ASSUME NEW o \in eof
               PROVE  bytes'[Last(o)] = <<>> /\ Last(o) \in fin \cup reset
    BY <1>5
  <2>1. o \in Directions /\ o # d
    BY <1>13 DEF TypeInv, RelayTypeOK
  <2>2. Last(o) \in Channels /\ Last(o) # ch
    BY <1>0, <2>1
  <2>3. bytes'[Last(o)] = bytes[Last(o)]
    BY <1>2, <2>2
  <2> QED
    BY <2>3 DEF OrderInv
<1>15. \A o \in Directions : \A i \in 1..Len(got'[o]) : got'[o][i] = i
  BY <1>5, <1>6 DEF OrderInv
<1> QED
  BY <1>4, <1>5, <1>11, <1>12, <1>13, <1>14, <1>15 DEF OrderInv

(* The bytes of each direction stay in order.                                *)
LEMMA CopyOrders ==
  ASSUME TypeInv, TypeInv', OrderInv, Growth, NEW c \in Copiers, Copy(c)
  PROVE  OrderInv'
<1>1. CASE Read(c)
  BY <1>1, ReadOrders
<1>2. CASE Write(c)
  <2>1. PutWell(Dst(c), held[c]) \/ PutIll(Dst(c))
    BY <1>2, WritingByte, Places, PutTyped DEF Write, TypeInv
  <2>2. CASE PutIll(Dst(c))
    <3>1. Loses /\ Dst(c) \in reset'
      BY <2>2 DEF PutIll
    <3>2. /\ held'[c] = None /\ \A e \in Copiers \ {c} : held'[e] = held[e]
          /\ copier[c] = "write" /\ \A e \in Copiers \ {c} : copier'[e] = copier[e]
          /\ UNCHANGED <<sent, got, eof>>
      BY <1>2 DEF Write, TypeInv, RelayTypeOK, history
    <3>3. HandsLose
      BY <3>1, <3>2 DEF HandsLose
    <3>4. \A e \in Copiers : copier[e] \in Stopped => copier'[e] \in Stopped
      BY <3>2 DEF Stopped
    <3> QED
      BY <3>1, <3>2, <3>3, <3>4, LossyStep
  <2> QED
    BY <1>2, <2>1, <2>2, WriteOrders
<1>3. CASE CopyEnds(c)
  BY <1>3, KeepsLose, HandStep DEF CopyEnds, net, history, Stopped, TypeInv
<1>4. CASE CopyFails(c)
  <2>1. Loses /\ UNCHANGED <<sent, got, eof>>
    BY <1>4, KeepsLose DEF CopyFails, net, TypeInv
  <2>2. /\ held'[c] = None /\ \A e \in Copiers \ {c} : held'[e] = held[e]
        /\ \A e \in Copiers \ {c} : copier'[e] = copier[e]
    BY <1>4 DEF CopyFails, TypeInv, RelayTypeOK
  <2>3. copier'[c] \in Stopped
    BY <1>4 DEF CopyFails, TypeInv, RelayTypeOK, Stopped
  <2>4. HandsLose
    BY <2>2, <2>3 DEF HandsLose
  <2> QED
    BY <2>1, <2>2, <2>3, <2>4, LossyStep
<1>5. CASE Shut(c)
  <2>1. Loses /\ UNCHANGED <<held, sent, got, eof>>
    BY <1>5, KeepsLose DEF Shut, TypeInv, history
  <2>2. \E s \in {"report", "ended"} : copier' = [copier EXCEPT ![c] = s]
    BY <1>5 DEF Shut
  <2> QED
    BY <2>1, <2>2, HandStep DEF Stopped
<1> QED
  BY <1>1, <1>2, <1>3, <1>4, <1>5 DEF Copy

LEMMA RelayOrders ==
  ASSUME TypeInv, TypeInv', OrderInv, Growth, (\E k \in Relays : Progress(k)) \/ Bridging
  PROVE  OrderInv'
<1>0. <<1, "up">> \in Copiers /\ fin \subseteq Channels
  BY Places DEF Directions, TypeInv, RelayTypeOK
<1>1. ASSUME NEW k \in Relays, Dial(k) PROVE OrderInv'
  <2>1. Loses /\ UNCHANGED <<held, sent, got, eof>>
    BY <1>1, KeepsLose DEF Dial, TypeInv, history
  <2>2. \A d \in Directions : copier[<<k, d>>] = "off"
    BY <1>1 DEF Dial, TypeInv, PlaceInv
  <2>3. \A c \in Copiers : c[1] = k => copier[c] = "off"
    BY <2>2 DEF Copiers
  <2>4. \A c \in Copiers : copier[c] \in Stopped => copier'[c] \in Stopped
    BY <1>1, <2>3 DEF Dial, Stopped
  <2> QED
    BY <2>1, <2>4, LossyStep DEF HandsLose
<1>2. ASSUME NEW k \in Relays, DialFails(k) PROVE OrderInv'
  BY <1>0, <1>2, ClosesLose, QuietStep DEF DialFails
<1>3. ASSUME NEW k \in Relays, Finish(k) PROVE OrderInv'
  BY <1>0, <1>3, ClosesLose, QuietStep DEF Finish, history
<1>4. CASE Report
  BY <1>0, <1>4, KeepsLose, HandStep DEF Report, net, history, Stopped, TypeInv
<1>5. CASE Hangup
  BY <1>0, <1>5, ClosesLose, HandStep DEF Hangup, history, Stopped
<1>6. CASE Watch
  BY <1>0, <1>6, ClosesLose, QuietStep DEF Watch, history
<1>7. CASE Return
  <2>1. Loses /\ UNCHANGED <<sent, got, eof>>
    BY <1>0, <1>7, ClosesLose DEF Return, history
  <2>2. /\ held'[<<1, "up">>] = None /\ \A e \in Copiers \ {<<1, "up">>} : held'[e] = held[e]
        /\ copier'[<<1, "up">>] = "ended"
        /\ \A e \in Copiers \ {<<1, "up">>} : copier'[e] = copier[e]
    BY <1>0, <1>7 DEF Return, TypeInv, RelayTypeOK
  <2>3. HandsLose /\ \A c \in Copiers : copier[c] \in Stopped => copier'[c] \in Stopped
    BY <2>2 DEF HandsLose, Stopped
  <2> QED
    BY <2>1, <2>3, LossyStep
<1> QED
  BY <1>1, <1>2, <1>3, <1>4, <1>5, <1>6, <1>7 DEF Progress, Bridging

LEMMA EndsOrder ==
  ASSUME TypeInv, TypeInv', OrderInv, Growth, NEW d \in Directions,
         Settling(d) \/ Send(d) \/ EndStream(d) \/ CloseEarly(d)
  PROVE  OrderInv'
<1>0. fin \subseteq Channels
  BY DEF TypeInv, RelayTypeOK
<1>1. CASE Receive(d)
  BY <1>1, ReceiveOrders
<1>2. CASE SeeEnd(d)
  <2>1. Loses /\ HandsLose /\ UNCHANGED <<copier, held, sent, got, fin, reset, bytes>>
    BY <1>2, KeepsLose DEF SeeEnd, net, HandsLose, TypeInv
  <2>2. Last(d) \in Channels /\ eof' \ eof \subseteq {d}
    BY <1>2, Places DEF SeeEnd
  <2>3. bytes'[Last(d)] = <<>> /\ Last(d) \in fin' \cup reset'
    BY <1>2, <2>1, <2>2 DEF SeeEnd, AtEnd, OrderInv
  <2> QED
    BY <2>1, <2>2, <2>3, LossyStep
<1>3. CASE Settle(d)
  BY <1>0, <1>3, ClosesLose, QuietStep DEF Settle, history
<1>4. CASE Send(d)
  <2>1. PutWell(First(d), sent[d] + 1) \/ PutIll(First(d))
    BY <1>4, WritingByte, Places, PutTyped DEF Send, TypeInv
  <2>2. CASE PutIll(First(d))
    <3>1. Loses /\ First(d) \in reset'
      BY <2>2 DEF PutIll
    <3>2. /\ UNCHANGED <<copier, held, got, eof>>
          /\ sent'[d] = sent[d] + 1 /\ \A o \in Directions \ {d} : sent'[o] = sent[o]
      BY <1>4 DEF Send, TypeInv, RelayTypeOK
    <3> QED
      BY <3>1, <3>2, LossyStep DEF HandsLose
  <2> QED
    BY <1>4, <2>1, <2>2, SendOrders
<1>5. CASE EndStream(d)
  BY <1>5, KeepsLose, QuietStep DEF EndStream, history, TypeInv
<1>6. CASE CloseEarly(d)
  BY <1>0, <1>6, ClosesLose, QuietStep DEF CloseEarly
<1> QED
  BY <1>1, <1>2, <1>3, <1>4, <1>5, <1>6 DEF Settling

LEMMA OrderStep == TypeInv /\ TypeInv' /\ OrderInv /\ [RelayNext]_relayVars => OrderInv'
<1> SUFFICES ASSUME TypeInv, TypeInv', OrderInv, [RelayNext]_relayVars PROVE OrderInv'
  OBVIOUS
<1>0. Growth
  BY Growing
<1>1. CASE Running
  BY <1>0, <1>1, CopyOrders, RelayOrders, EndsOrder DEF Running
<1>2. CASE ConnectionReset
  BY <1>0, <1>2, ConnectionResetGrows, QuietStep DEF ConnectionReset
<1>3. ASSUME NEW k \in Relays, Cancel(k) PROVE OrderInv'
  BY <1>0, <1>3, KeepsLose, QuietStep DEF Cancel, net, TypeInv
<1>4. CASE UNCHANGED relayVars
  BY <1>0, <1>4, KeepsLose, QuietStep DEF relayVars, net, history, TypeInv
<1> QED
  BY <1>0, <1>1, <1>2, <1>3, <1>4, EndsOrder DEF RelayNext

-----------------------------------------------------------------------------
(* A row of relays in good health: nothing has failed, and bridgeStdio may     *)
(* have returned.                                                            *)
Made(h) == h = 1 \/ place[h - 1] \in {"copy", "done"}
Spared(ch) == ch = <<1, "up">> /\ result # "none"
Drained(ch) == (ch \in fin /\ bytes[ch] = <<>>) \/ Spared(ch)

(* Nobody gives up; bridgeStdio, when it returns, may reset standard input.  *)
Calm ==
    /\ cancelled = {}
    /\ reset # {} => result # "none" /\ reset = {<<1, "up">>}
    /\ result # "none" => stdio /\ copier[<<1, "up">>] = "ended"
    /\ \A c \in Copiers : copier[c] \notin {"report", "hangup"}

(* A relay holds on to its connections until both of its copies have ended.  *)
Standing ==
    \A k \in Relays :
      /\ place[k] # "refused"
      /\ place[k] = "done" => \A d \in Directions : copier[<<k, d>>] = "ended"
      /\ place[k] \in {"dial", "copy"} => <<k, "right">> \in open
      /\ place[k] = "copy" => <<k + 1, "left">> \in open

(* A copy ends only when everything before it has come to its end.           *)
Drains ==
    \A c \in Copiers : copier[c] \in {"shut", "ended"} =>
      /\ \A ch \in Channels : ch[2] = c[2] /\ Stage(ch) < Hand(c) => Drained(ch)
      /\ \A e \in Copiers : e[2] = c[2] /\ Hand(e) < Hand(c) => copier[e] = "ended"

(* What a copy writes to is ended only by that copy.                         *)
EndsPassed == \A c \in Copiers : Dst(c) \in fin => copier[c] = "ended"

(* Nobody stops reading before the end.                                      *)
ReadOut == \A ch \in Channels : Made(ch[1]) /\ Reader(ch) \notin open => Drained(ch)

HealthInv ==
    /\ Calm /\ Standing /\ Drains /\ EndsPassed /\ ReadOut
    /\ \A d \in Directions \ Broken : Whole(d)

Health == faults = 0 => HealthInv

(* Who writes and reads which channel.                                       *)
LEMMA Geometry ==
    /\ \A c \in Copiers : Writer(Dst(c)) \in Held(c[1]) /\ Reader(Src(c)) \in Held(c[1])
    /\ \A j, k \in Relays : j # k => Held(j) \cap Held(k) = {}
    /\ \A d \in Directions, k \in Relays : Writer(First(d)) \notin Held(k) /\ Reader(Last(d)) \notin Held(k)
    /\ \A ch, o \in Channels : (Writer(ch) = Writer(o) \/ Reader(ch) = Reader(o)) => ch = o
    /\ \A d \in Directions, ch \in Channels :
         Writer(ch) = Reader(Last(d)) => \E o \in Directions : ch = First(o)
    /\ \A ch \in Channels : ch = First(ch[2]) \/ \E c \in Copiers : Dst(c) = ch
    /\ \A ch \in Channels, k \in Relays : Writer(ch) \in Held(k) => \E d \in Directions : ch = Dst(<<k, d>>)
    /\ \A ch \in Channels, k \in Relays : Reader(ch) \in Held(k) => \E d \in Directions : ch = Src(<<k, d>>)
    /\ \A c \in Copiers, d \in Directions : Dst(c) # First(d) /\ Src(c) # Last(d)
    /\ \A c \in Copiers : Dst(c) # <<1, "up">> /\ (Src(c) = <<1, "up">> => c = <<1, "up">>)
    /\ \A d \in Directions : Last(d) # <<1, "up">>
    /\ \A d \in Directions : \E c \in Copiers : Dst(c) = Last(d) /\ c[2] = d
    /\ First("up") = <<1, "up">> /\ First("down") # <<1, "up">>
<1> USE RelayAssumption DEF RelayAssumption, Relays, Directions
<1>0. /\ \A ch \in Channels : /\ ch = <<ch[1], ch[2]>> /\ ch[1] \in 1..N + 1
                              /\ ch[2] \in {"up", "down"}
      /\ \A c \in Copiers : /\ c = <<c[1], c[2]>> /\ c[1] \in 1..N
                            /\ c[2] \in {"up", "down"}
  BY DEF Channels, Copiers
<1>1. \A c \in Copiers : Writer(Dst(c)) \in Held(c[1]) /\ Reader(Src(c)) \in Held(c[1])
  BY <1>0 DEF Dst, Src, Writer, Reader, Held
<1>2. \A j, k \in Relays : j # k => Held(j) \cap Held(k) = {}
  BY DEF Held
<1>3. \A d \in Directions, k \in Relays : Writer(First(d)) \notin Held(k) /\ Reader(Last(d)) \notin Held(k)
  BY DEF First, Last, Writer, Reader, Held
<1>4. \A ch, o \in Channels : (Writer(ch) = Writer(o) \/ Reader(ch) = Reader(o)) => ch = o
  BY <1>0 DEF Writer, Reader
<1>5. \A d \in Directions, ch \in Channels :
         Writer(ch) = Reader(Last(d)) => \E o \in Directions : ch = First(o)
  BY <1>0 DEF Writer, Reader, First, Last
<1>6. ASSUME NEW ch \in Channels PROVE ch = First(ch[2]) \/ \E c \in Copiers : Dst(c) = ch
  <2>1. CASE ch[2] = "up" /\ ch[1] # 1
    <3>1. <<ch[1] - 1, "up">> \in Copiers /\ Dst(<<ch[1] - 1, "up">>) = ch
      BY <1>0, <2>1 DEF Copiers, Dst
    <3> QED
      BY <3>1
  <2>2. CASE ch[2] = "down" /\ ch[1] # N + 1
    <3>1. <<ch[1], "down">> \in Copiers /\ Dst(<<ch[1], "down">>) = ch
      BY <1>0, <2>2 DEF Copiers, Dst
    <3> QED
      BY <3>1
  <2> QED
    BY <1>0, <2>1, <2>2 DEF First
<1>7. \A ch \in Channels, k \in Relays : Writer(ch) \in Held(k) => \E d \in Directions : ch = Dst(<<k, d>>)
  BY <1>0 DEF Writer, Held, Dst
<1>8. \A ch \in Channels, k \in Relays : Reader(ch) \in Held(k) => \E d \in Directions : ch = Src(<<k, d>>)
  BY <1>0 DEF Reader, Held, Src
<1>9. \A c \in Copiers, d \in Directions : Dst(c) # First(d) /\ Src(c) # Last(d)
  BY <1>0 DEF Dst, Src, First, Last
<1>10. \A c \in Copiers : Dst(c) # <<1, "up">> /\ (Src(c) = <<1, "up">> => c = <<1, "up">>)
  BY <1>0 DEF Dst, Src
<1>11. \A d \in Directions : Last(d) # <<1, "up">>
  BY DEF Last
<1>12. \A d \in Directions : \E c \in Copiers : Dst(c) = Last(d) /\ c[2] = d
  <2>1. <<N, "up">> \in Copiers /\ Dst(<<N, "up">>) = Last("up")
    BY DEF Copiers, Dst, Last
  <2>2. <<1, "down">> \in Copiers /\ Dst(<<1, "down">>) = Last("down")
    BY DEF Copiers, Dst, Last
  <2> QED
    BY <2>1, <2>2
<1>13. First("up") = <<1, "up">> /\ First("down") # <<1, "up">>
  BY DEF First
<1> QED
  BY <1>1, <1>2, <1>3, <1>4, <1>5, <1>6, <1>7, <1>8, <1>9, <1>10, <1>11, <1>12, <1>13

LEMMA HealthInitial == RelayInit => Health
<1> SUFFICES ASSUME RelayInit PROVE HealthInv
  BY DEF Health
<1>1. /\ \A c \in Copiers : copier[c] = "off" /\ \A d \in Directions : <<1, d>> \in Copiers
      /\ \A k \in Relays : place[k] = IF k = 1 THEN "dial" ELSE "off"
      /\ Relays = 1..N /\ 1 \in Relays /\ N \in Nat
  BY Places, RelayAssumption DEF RelayInit, RelayAssumption, Relays
<1>2. Calm /\ Standing /\ Drains /\ EndsPassed
  BY <1>1 DEF RelayInit, Calm, Standing, Drains, EndsPassed
<1>3. ReadOut
  <2> SUFFICES ASSUME NEW ch \in Channels, Made(ch[1]) PROVE Reader(ch) \in open
    BY DEF ReadOut
  <2>1. ch[1] \in 1..N + 1 /\ ch[2] \in {"up", "down"}
    BY DEF Channels, Directions
  <2>2. ch[1] = 1
    <3>1. CASE ch[1] # 1
      <4>1. ch[1] - 1 \in Relays
        BY <1>1, <2>1, <3>1
      <4> QED
        BY <1>1, <3>1, <4>1 DEF Made
    <3> QED
      BY <3>1
  <2> QED
    BY <2>1, <2>2 DEF Reader, RelayInit
<1>4. ASSUME NEW d \in Directions PROVE Whole(d)
  <2>1. Items(d)[0] = {b \in Bytes : b > sent[d]}
    BY ItemsAt DEF Items
  <2>2. sent[d] = 0 /\ \A b \in Bytes : b > 0
    BY RelayAssumption DEF RelayInit, RelayAssumption, Bytes
  <2>3. 0 \in 0..Target
    BY Stages
  <2> QED
    BY <2>1, <2>2, <2>3 DEF Whole
<1> QED
  BY <1>2, <1>3, <1>4 DEF HealthInv

(* A copy at work reads from, and writes to, connections that are whole.     *)
LEMMA Working ==
  ASSUME TypeInv, HealthInv, NEW c \in Copiers, copier[c] \in {"read", "write", "shut"}
  PROVE  ~Cut(Src(c)) /\ CanWrite(Dst(c)) /\ Reader(Dst(c)) \in open
<1> USE DEF HealthInv
<1>0. /\ c[1] \in Relays /\ c[2] \in Directions /\ copier[<<c[1], c[2]>>] = copier[c]
      /\ Relays = 1..N /\ N \in Nat
  BY RelayAssumption DEF Copiers, Relays, RelayAssumption
<1>1. place[c[1]] = "copy"
  <2>1. place[c[1]] \in {"off", "dial", "copy", "done", "refused"}
    BY <1>0 DEF TypeInv, RelayTypeOK
  <2>2. place[c[1]] \notin {"off", "dial", "refused"}
    BY <1>0 DEF TypeInv, PlaceInv
  <2>3. place[c[1]] # "done"
    BY <1>0 DEF Standing
  <2> QED
    BY <2>1, <2>2, <2>3
<1>2. Src(c) \notin reset
  BY Geometry DEF Calm
<1>3. Reader(Src(c)) \in open
  <2>1. Held(c[1]) \subseteq open
    BY <1>0, <1>1 DEF Standing, Held
  <2> QED
    BY <2>1, Geometry
<1>4. CanWrite(Dst(c))
  BY Geometry DEF Calm, EndsPassed, CanWrite
<1>5. Made(Dst(c)[1])
  <2>1. CASE c[2] = "up"
    BY <1>0, <1>1, <2>1 DEF Dst, Made
  <2>2. CASE c[2] # "up" /\ c[1] # 1
    <3>1. c[1] - 1 \in Relays /\ c[1] > c[1] - 1
      BY <1>0, <2>2
    <3>2. place[c[1] - 1] \in {"off", "dial", "copy", "done", "refused"}
      BY <3>1 DEF TypeInv, RelayTypeOK
    <3>3. place[c[1] - 1] \notin {"off", "dial", "refused"}
      BY <1>0, <1>1, <3>1 DEF TypeInv, PlaceInv
    <3> QED
      BY <2>2, <3>2, <3>3 DEF Dst, Made
  <2>3. CASE c[2] # "up" /\ c[1] = 1
    BY <2>3 DEF Dst, Made
  <2> QED
    BY <2>1, <2>2, <2>3
<1>6. Reader(Dst(c)) \in open
  BY <1>4, <1>5, Geometry, Places DEF ReadOut, Drained, Spared, CanWrite
<1> QED
  BY <1>2, <1>3, <1>4, <1>6 DEF Cut

LEMMA NoFault ==
  ASSUME TypeInv, faults' = 0, Growth
  PROVE  ~Fault /\ faults = 0
  BY RelayAssumption DEF RelayAssumption, Fault, Growth, TypeInv, RelayTypeOK

(* What a failure needs does not come about.                                 *)
LEMMA NoFailure ==
  ASSUME TypeInv, HealthInv, Growth, faults' = 0
  PROVE  /\ \A c \in Copiers : ~CopyFails(c)
         /\ \A k \in Relays : ~DialFails(k) /\ ~Cancel(k)
         /\ ~Report /\ ~Hangup /\ ~Watch /\ ~ConnectionReset
         /\ \A d \in Directions : ~CloseEarly(d)
<1>0. ~Fault
  BY NoFault
<1>1. \A c \in Copiers : ~CopyFails(c)
  <2> SUFFICES ASSUME NEW c \in Copiers, CopyFails(c) PROVE FALSE
    OBVIOUS
  <2>1. copier[c] \in {"read", "write"}
    BY DEF CopyFails
  <2>2. ~Cut(Src(c)) /\ CanWrite(Dst(c))
    BY <2>1, Working
  <2> QED
    BY <1>0, <2>2 DEF CopyFails
<1>2. \A k \in Relays : ~DialFails(k) /\ ~Cancel(k)
  BY <1>0 DEF HealthInv, Calm, DialFails, Cancel
<1>3. ~Report /\ ~Hangup
  <2>1. <<1, "up">> \in Copiers
    BY Places DEF Directions
  <2> QED
    BY <2>1 DEF HealthInv, Calm, Report, Hangup
<1>4. ~Watch /\ ~ConnectionReset /\ \A d \in Directions : ~CloseEarly(d)
  BY <1>0 DEF HealthInv, Calm, Watch, ConnectionReset, CloseEarly
<1> QED
  BY <1>1, <1>2, <1>3, <1>4

-----------------------------------------------------------------------------
(* What stays drained, and ended.                                            *)
Keeps ==
    /\ fin \subseteq fin' /\ (result # "none" => result' # "none")
    /\ \A ch \in Channels : ch \in fin /\ bytes[ch] = <<>> => bytes'[ch] = <<>>
    /\ \A c \in Copiers : copier[c] = "ended" => copier'[c] = "ended"

LEMMA DrainedKept ==
  ASSUME Keeps, NEW ch \in Channels, Drained(ch)
  PROVE  Drained(ch)'
  BY DEF Keeps, Drained, Spared

LEMMA DrainsKept ==
  ASSUME Keeps, Drains, \A c \in Copiers : copier'[c] \in {"shut", "ended"} => copier[c] \in {"shut", "ended"}
  PROVE  Drains'
<1> SUFFICES ASSUME NEW c \in Copiers, copier'[c] \in {"shut", "ended"}
             PROVE  /\ \A ch \in Channels : ch[2] = c[2] /\ Stage(ch) < Hand(c) => Drained(ch)'
                    /\ \A e \in Copiers : e[2] = c[2] /\ Hand(e) < Hand(c) => copier'[e] = "ended"
  BY DEF Drains, Stage, Hand
<1>1. /\ \A ch \in Channels : ch[2] = c[2] /\ Stage(ch) < Hand(c) => Drained(ch)
      /\ \A e \in Copiers : e[2] = c[2] /\ Hand(e) < Hand(c) => copier[e] = "ended"
  BY DEF Drains
<1>2. \A ch \in Channels : Drained(ch) => Drained(ch)'
  BY DrainedKept
<1> QED
  BY <1>1, <1>2 DEF Keeps

LEMMA ReadOutKept ==
  ASSUME Keeps, ReadOut,
         \A ch \in Channels : Made(ch[1])' /\ Reader(ch) \notin open' =>
           (Made(ch[1]) /\ Reader(ch) \notin open) \/ Drained(ch)'
  PROVE  ReadOut'
<1>1. \A ch \in Channels : Drained(ch) => Drained(ch)'
  BY DrainedKept
<1> QED
  BY <1>1 DEF ReadOut, Reader

LEMMA WholeKept ==
  ASSUME UNCHANGED <<bytes, held, sent, got>>, NEW d, Whole(d)
  PROVE  Whole(d)'
  BY DEF Whole, Items

(* A step of a copier or of an end: nothing is closed, no relay begins or ends. *)
LEMMA FlowHealthy ==
  ASSUME TypeInv, HealthInv, Growth, faults' = 0, Keeps,
         UNCHANGED <<stdio, open, reset, place, cancelled, result>>,
         \A c \in Copiers : copier'[c] \notin {"report", "hangup"},
         Drains', EndsPassed', \A d \in Directions : Whole(d) => Whole(d)'
  PROVE  HealthInv'
<1>0. <<1, "up">> \in Copiers /\ faults = 0
  BY Places, NoFault DEF Directions
<1>1. Calm'
  BY <1>0 DEF HealthInv, Calm, Keeps
<1>2. Standing'
  BY Places DEF HealthInv, Standing, Keeps
<1>3. ReadOut'
  BY ReadOutKept DEF HealthInv, Made
<1>4. Broken' = Broken
  BY <1>0 DEF Broken
<1>5. \A d \in (Directions \ Broken)' : Whole(d)'
  BY <1>4 DEF HealthInv, Broken
<1> QED
  BY <1>1, <1>2, <1>3, <1>5 DEF HealthInv

LEMMA CopyHealthy ==
  ASSUME TypeInv, TypeInv', OrderInv, HealthInv, Growth, faults' = 0, NEW c \in Copiers, Copy(c)
  PROVE  HealthInv'
<1> USE DEF HealthInv
<1>0. /\ Src(c) \in Channels /\ Dst(c) \in Channels /\ c[2] \in Directions
      /\ \A e \in Copiers : copier[e] \notin {"report", "hangup"}
  BY Places, Stages DEF Calm
<1>1. CASE Read(c)
  <2>1. /\ UNCHANGED <<stdio, fin, open, reset, place, cancelled, result>>
        /\ copier[c] = "read" /\ copier'[c] = "write" /\ \A e \in Copiers \ {c} : copier'[e] = copier[e]
        /\ bytes[Src(c)] # <<>> /\ \A o \in Channels \ {Src(c)} : bytes'[o] = bytes[o]
    BY <1>1 DEF Read, TakeByte, TypeInv, RelayTypeOK
  <2>2. Keeps
    BY <2>1 DEF Keeps
  <2>3. Drains'
    BY <2>1, <2>2, DrainsKept
  <2>4. EndsPassed'
    BY <2>1 DEF EndsPassed, Dst
  <2>5. \A d \in Directions : Whole(d) => Whole(d)'
    BY <1>1, ReadOrders
  <2> QED
    BY <1>0, <2>1, <2>2, <2>3, <2>4, <2>5, FlowHealthy
<1>2. CASE Write(c)
  <2>0. PutWell(Dst(c), held[c])
    <3>1. PutWell(Dst(c), held[c]) \/ PutIll(Dst(c))
      BY <1>0, <1>2, WritingByte, PutTyped DEF Write, TypeInv
    <3>2. Reader(Dst(c)) \in open
      BY <1>2, Working DEF Write
    <3> QED
      BY <3>1, <3>2 DEF PutIll
  <2>1. /\ UNCHANGED <<stdio, fin, open, reset, place, cancelled, result>>
        /\ copier[c] = "write" /\ copier'[c] = "read" /\ \A e \in Copiers \ {c} : copier'[e] = copier[e]
        /\ Dst(c) \notin fin /\ \A o \in Channels \ {Dst(c)} : bytes'[o] = bytes[o]
    BY <1>2, <2>0 DEF Write, PutWell, TypeInv, RelayTypeOK
  <2>2. Keeps
    BY <2>1 DEF Keeps
  <2>3. Drains'
    BY <2>1, <2>2, DrainsKept
  <2>4. EndsPassed'
    BY <2>1 DEF EndsPassed, Dst
  <2>5. \A d \in Directions : Whole(d) => Whole(d)'
    BY <1>2, <2>0, WriteOrders
  <2> QED
    BY <1>0, <2>1, <2>2, <2>3, <2>4, <2>5, FlowHealthy
<1>3. CASE CopyEnds(c)
  <2>1. /\ UNCHANGED <<stdio, bytes, fin, open, reset, place, cancelled, result, held, sent, got>>
        /\ copier[c] = "read" /\ copier'[c] = "shut" /\ \A e \in Copiers \ {c} : copier'[e] = copier[e]
        /\ Src(c) \in fin /\ bytes[Src(c)] = <<>>
    BY <1>3 DEF CopyEnds, AtEnd, net, history, TypeInv, RelayTypeOK
  <2>2. Keeps
    BY <2>1 DEF Keeps
  <2>3. /\ \A ch \in Channels : ch[2] = c[2] /\ Stage(ch) < Hand(c) => Drained(ch)
        /\ \A e \in Copiers : e[2] = c[2] /\ Hand(e) < Hand(c) => copier[e] = "ended"
    <3>0. /\ Src(c)[2] = c[2] /\ Stage(Src(c)) = Hand(c) - 1 /\ Hand(c) \in Int
          /\ \A ch \in Channels : Stage(ch) \in Int /\ Stage(ch) >= 1
          /\ \A e \in Copiers : Hand(e) \in Int /\ Hand(e) >= 2
      <4>1. \A ch \in Channels : Stage(ch) \in 1..Target - 1
        BY Stages
      <4>2. \A e \in Copiers : Hand(e) \in 2..Target - 2
        BY Stages
      <4>3. Src(c)[2] = c[2] /\ Stage(Src(c)) = Hand(c) - 1
        BY Stages
      <4> QED
        BY <4>1, <4>2, <4>3
    <3>1. CASE Src(c) = First(c[2])
      <4>1. Hand(c) = 2
        BY <1>0, <3>0, <3>1, Stages
      <4>2. \A ch \in Channels : ch[2] = c[2] /\ Stage(ch) < Hand(c) => ch = Src(c)
        BY <1>0, <3>0, <4>1, Stages
      <4> QED
        BY <2>1, <3>0, <4>1, <4>2 DEF Drained
    <3>2. CASE Src(c) # First(c[2])
      <4>1. PICK e \in Copiers : Dst(e) = Src(c)
        BY <1>0, <3>0, <3>2, Geometry
      <4>2. copier[e] = "ended" /\ e[2] = c[2] /\ Hand(e) = Hand(c) - 2
        BY <2>1, <3>0, <4>1, Stages DEF EndsPassed
      <4>3. /\ \A ch \in Channels : ch[2] = c[2] /\ Stage(ch) < Hand(e) => Drained(ch)
            /\ \A f \in Copiers : f[2] = c[2] /\ Hand(f) < Hand(e) => copier[f] = "ended"
        BY <4>2 DEF Drains
      <4>4. ASSUME NEW ch \in Channels, ch[2] = c[2], Stage(ch) < Hand(c) PROVE Drained(ch)
        <5>1. Stage(ch) # Hand(e)
          BY Stages
        <5>2. CASE Stage(ch) < Hand(e)
          BY <4>3, <4>4, <5>2
        <5>3. CASE Stage(ch) = Hand(c) - 1
          <6>1. ch = Src(c)
            BY <1>0, <3>0, <4>4, <5>3, Stages
          <6> QED
            BY <2>1, <6>1 DEF Drained
        <5> QED
          BY <3>0, <4>2, <4>4, <5>1, <5>2, <5>3
      <4>5. ASSUME NEW f \in Copiers, f[2] = c[2], Hand(f) < Hand(c) PROVE copier[f] = "ended"
        <5>1. Hand(f) # Stage(Src(c))
          BY <1>0, Stages
        <5>2. CASE Hand(f) < Hand(e)
          BY <4>3, <4>5, <5>2
        <5>3. CASE Hand(f) = Hand(e)
          BY <4>2, <4>5, <5>3, Stages
        <5> QED
          BY <3>0, <4>2, <4>5, <5>1, <5>2, <5>3
      <4> QED
        BY <4>4, <4>5
    <3> QED
      BY <3>1, <3>2
  <2>4. Drains'
    <3> SUFFICES ASSUME NEW q \in Copiers, copier'[q] \in {"shut", "ended"}
                 PROVE  /\ \A ch \in Channels : ch[2] = q[2] /\ Stage(ch) < Hand(q) => Drained(ch)'
                        /\ \A e \in Copiers : e[2] = q[2] /\ Hand(e) < Hand(q) => copier'[e] = "ended"
      BY DEF Drains, Stage, Hand
    <3>1. /\ \A ch \in Channels : ch[2] = q[2] /\ Stage(ch) < Hand(q) => Drained(ch)
          /\ \A e \in Copiers : e[2] = q[2] /\ Hand(e) < Hand(q) => copier[e] = "ended"
      BY <2>1, <2>3 DEF Drains
    <3>2. \A ch \in Channels : Drained(ch) => Drained(ch)'
      BY <2>2, DrainedKept
    <3> QED
      BY <2>2, <3>1, <3>2 DEF Keeps
  <2>5. EndsPassed'
    BY <2>1 DEF EndsPassed, Dst
  <2>6. \A d \in Directions : Whole(d) => Whole(d)'
    BY <2>1, WholeKept
  <2> QED
    BY <1>0, <2>1, <2>2, <2>4, <2>5, <2>6, FlowHealthy
<1>4. CASE Shut(c)
  <2>0. CanWrite(Dst(c)) /\ copier[c] = "shut"
    BY <1>4, Working DEF Shut
  <2>1. /\ UNCHANGED <<stdio, bytes, open, reset, place, cancelled, result, held, sent, got>>
        /\ copier'[c] = "ended" /\ \A e \in Copiers \ {c} : copier'[e] = copier[e]
        /\ fin \subseteq fin' /\ fin' \subseteq fin \cup {Dst(c)}
    <3>1. copier' = [copier EXCEPT ![c] = "ended"]
      BY <1>4, <2>0 DEF Shut
    <3> QED
      BY <1>4, <3>1 DEF Shut, history, TypeInv, RelayTypeOK
  <2>2. Keeps
    BY <2>1 DEF Keeps
  <2>3. Drains'
    BY <2>0, <2>1, <2>2, DrainsKept
  <2>4. EndsPassed'
    <3>1. \A e \in Copiers : Dst(e) = Dst(c) => e = c
      BY Stages
    <3> QED
      BY <2>1, <3>1 DEF EndsPassed, Dst
  <2>5. \A d \in Directions : Whole(d) => Whole(d)'
    BY <2>1, WholeKept
  <2> QED
    BY <1>0, <2>1, <2>2, <2>3, <2>4, <2>5, FlowHealthy
<1> QED
  BY <1>1, <1>2, <1>3, <1>4, NoFailure DEF Copy

LEMMA DialHealthy ==
  ASSUME TypeInv, TypeInv', HealthInv, Growth, faults' = 0, NEW k \in Relays, Dial(k)
  PROVE  HealthInv'
<1> USE DEF HealthInv
<1>0. /\ UNCHANGED <<stdio, bytes, fin, reset, held, cancelled, result, sent, got>> /\ faults = 0
      /\ open' = open \cup {<<k + 1, "left">>, <<k + 1, "right">>}
      /\ place[k] = "dial" /\ k \in Int
  BY NoFault DEF Dial, history, Relays
<1>1. \A c \in Copiers : IF c[1] = k THEN copier[c] = "off" /\ copier'[c] = "read"
                                     ELSE copier'[c] = copier[c]
  BY <1>0 DEF Dial, TypeInv, PlaceInv, Copiers
<1>2. \A j \in Relays : place'[j] = IF j = k THEN "copy" ELSE IF j = k + 1 THEN "dial" ELSE place[j]
  BY <1>0 DEF Dial, Relays
<1>3. Keeps
  BY <1>0, <1>1 DEF Keeps
<1>4. Calm'
  <2>1. <<1, "up">> \in Copiers
    BY Places DEF Directions
  <2> QED
    BY <1>0, <1>1, <1>3, <2>1 DEF Calm, Keeps
<1>5. Standing'
  <2> SUFFICES ASSUME NEW j \in Relays
               PROVE  /\ place'[j] # "refused"
                      /\ place'[j] = "done" => \A d \in Directions : copier'[<<j, d>>] = "ended"
                      /\ place'[j] \in {"dial", "copy"} => <<j, "right">> \in open'
                      /\ place'[j] = "copy" => <<j + 1, "left">> \in open'
    BY DEF Standing
  <2>1. CASE j = k
    BY <1>0, <1>2, <2>1 DEF Standing
  <2>2. CASE j = k + 1
    BY <1>0, <1>2, <2>2
  <2>3. CASE j # k /\ j # k + 1
    BY <1>0, <1>2, <1>3, <2>3, Places DEF Standing, Keeps
  <2> QED
    BY <2>1, <2>2, <2>3
<1>6. Drains'
  BY <1>1, <1>3, DrainsKept
<1>7. EndsPassed'
  BY <1>0, <1>3 DEF EndsPassed, Keeps, Dst
<1>8. ReadOut'
  <2> SUFFICES ASSUME NEW ch \in Channels, Made(ch[1])', Reader(ch) \notin open'
               PROVE  Made(ch[1]) /\ Reader(ch) \notin open
    BY <1>3, ReadOutKept
  <2>1. ch[1] \in 1..N + 1 /\ N \in Nat /\ ch[2] \in {"up", "down"}
    BY RelayAssumption DEF Channels, RelayAssumption, Directions
  <2>2. ch[1] # k + 1
    BY <1>0, <2>1 DEF Reader
  <2>3. Made(ch[1])
    <3>1. CASE ch[1] = 1
      BY <3>1 DEF Made
    <3>2. CASE ch[1] # 1
      <4>1. ch[1] - 1 \in Relays /\ ch[1] - 1 # k
        BY <1>0, <2>1, <2>2, <3>2 DEF Relays
      <4>2. place'[ch[1] - 1] \in {"copy", "done"}
        BY <3>2 DEF Made
      <4> QED
        BY <1>2, <4>1, <4>2 DEF Made
    <3> QED
      BY <3>1, <3>2
  <2> QED
    BY <1>0, <2>3
<1>9. \A d \in (Directions \ Broken)' : Whole(d)'
  BY <1>0, WholeKept DEF Broken
<1> QED
  BY <1>4, <1>5, <1>6, <1>7, <1>8, <1>9

(* Closing drained connections resets nothing.                               *)
LEMMA CloseQuietly ==
  ASSUME TypeInv, NEW closing, CloseEnds(closing),
         \A ch \in Channels : Reader(ch) \in open \cap closing => bytes[ch] = <<>>
  PROVE  UNCHANGED <<bytes, reset>>
<1>1. {ch \in Channels : Reader(ch) \in open \cap closing /\ bytes[ch] # <<>>} = {}
  OBVIOUS
<1>2. Resets({})
  BY <1>1 DEF CloseEnds
<1>3. reset' = reset /\ bytes' = [ch \in Channels |-> bytes[ch]]
  BY <1>2 DEF Resets
<1> QED
  BY <1>3 DEF TypeInv, RelayTypeOK

LEMMA HeldDrained ==
  ASSUME Drains, NEW k \in Relays, NEW d \in Directions, copier[<<k, d>>] = "ended"
  PROVE  Drained(Src(<<k, d>>))
<1> DEFINE c == <<k, d>>
<1>1. c \in Copiers /\ Src(c) \in Channels
  BY Places
<1>2. Src(c)[2] = c[2] /\ Stage(Src(c)) = Hand(c) - 1 /\ Hand(c) \in Int
  <2>1. Hand(c) \in 2..Target - 2
    BY <1>1, Stages
  <2> QED
    BY <1>1, <2>1, Stages
<1> HIDE DEF c
<1>3. copier[c] \in {"shut", "ended"}
  BY DEF c
<1>4. Drained(Src(c))
  BY <1>1, <1>2, <1>3 DEF Drains
<1> QED
  BY <1>4 DEF c

LEMMA FinishHealthy ==
  ASSUME TypeInv, TypeInv', HealthInv, Growth, faults' = 0, NEW k \in Relays, Finish(k)
  PROVE  HealthInv'
<1> USE DEF HealthInv
<1>0. /\ UNCHANGED <<stdio, copier, held, cancelled, result, sent, got>> /\ faults = 0
      /\ place[k] = "copy" /\ place'[k] = "done" /\ \A j \in Relays \ {k} : place'[j] = place[j]
      /\ CloseEnds(Held(k)) /\ ~Bridge(k)
  BY NoFault DEF Finish, history, TypeInv, RelayTypeOK
<1>1. \A d \in Directions : copier[<<k, d>>] = "ended"
  BY DEF Finish, Over, Calm
<1>2. \A ch \in Channels : Reader(ch) \in Held(k) => Drained(ch) /\ bytes[ch] = <<>> /\ ch \in fin
  <2> SUFFICES ASSUME NEW ch \in Channels, Reader(ch) \in Held(k)
               PROVE  Drained(ch) /\ bytes[ch] = <<>> /\ ch \in fin
    OBVIOUS
  <2>1. PICK d \in Directions : ch = Src(<<k, d>>)
    BY Geometry
  <2>2. Drained(ch)
    BY <1>1, <2>1, HeldDrained
  <2>3. <<k, d>> \in Copiers
    BY Places
  <2>4. ~Spared(ch)
    <3>1. ch = <<1, "up">> => k = 1
      BY <2>1, <2>3, Geometry
    <3> QED
      BY <1>0, <3>1 DEF Spared, Calm, Bridge
  <2> QED
    BY <2>2, <2>4 DEF Drained
<1>3. UNCHANGED <<bytes, reset>>
  BY <1>0, <1>2, CloseQuietly
<1>4. /\ open' = open \ Held(k) /\ fin \subseteq fin'
      /\ \A ch \in Channels : ch \in fin' => ch \in fin \/ Writer(ch) \in Held(k)
  BY <1>0 DEF CloseEnds
<1>5. Keeps
  BY <1>0, <1>3, <1>4 DEF Keeps
<1>6. Calm'
  BY <1>0, <1>3 DEF Calm
<1>7. Standing'
  <2> SUFFICES ASSUME NEW j \in Relays
               PROVE  /\ place'[j] # "refused"
                      /\ place'[j] = "done" => \A d \in Directions : copier'[<<j, d>>] = "ended"
                      /\ place'[j] \in {"dial", "copy"} => <<j, "right">> \in open'
                      /\ place'[j] = "copy" => <<j + 1, "left">> \in open'
    BY DEF Standing
  <2>1. CASE j = k
    BY <1>0, <1>1, <2>1
  <2>2. CASE j # k
    <3>1. <<j, "right">> \notin Held(k) /\ <<j + 1, "left">> \notin Held(k)
      BY <2>2 DEF Held, Relays
    <3> QED
      BY <1>0, <1>4, <2>2, <3>1 DEF Standing
  <2> QED
    BY <2>1, <2>2
<1>8. Drains'
  BY <1>0, <1>5, DrainsKept
<1>9. EndsPassed'
  <2> SUFFICES ASSUME NEW c \in Copiers, Dst(c) \in fin' PROVE copier[c] = "ended"
    BY <1>0 DEF EndsPassed, Dst
  <2>1. CASE Dst(c) \in fin
    BY <2>1 DEF EndsPassed
  <2>2. CASE Writer(Dst(c)) \in Held(k)
    <3>1. PICK d \in Directions : Dst(c) = Dst(<<k, d>>)
      BY <2>2, Geometry, Places
    <3>2. c = <<k, d>>
      BY <3>1, Places, Stages
    <3> QED
      BY <1>1, <3>2
  <2> QED
    BY <1>4, <2>1, <2>2, Places
<1>10. ReadOut'
  <2>1. \A h \in 1..N + 1 : Made(h)' => Made(h)
    BY <1>0, RelayAssumption DEF Made, Relays, RelayAssumption
  <2>2. \A ch \in Channels : Drained(ch) => Drained(ch)'
    BY <1>5, DrainedKept
  <2>3. \A ch \in Channels : ch[1] \in 1..N + 1
    BY DEF Channels
  <2> QED
    BY <1>2, <1>4, <1>5, <2>1, <2>2, <2>3, ReadOutKept
<1>11. \A d \in (Directions \ Broken)' : Whole(d)'
  BY <1>0, <1>3, WholeKept DEF Broken
<1> QED
  BY <1>6, <1>7, <1>8, <1>9, <1>10, <1>11

(* A reset of standard input reaches nothing else.                           *)
LEMMA SparedReset ==
  ASSUME TypeInv, stdio, NEW chs \in SUBSET {<<1, "up">>}, Resets(chs)
  PROVE  /\ reset' = reset \cup chs /\ \A ch \in Channels \ {<<1, "up">>} : bytes'[ch] = bytes[ch]
         /\ \A ch \in Channels : bytes[ch] = <<>> => bytes'[ch] = <<>>
<1>1. chs = {} \/ chs = {<<1, "up">>}
  OBVIOUS
<1>2. UNION {IF Bridge(ch[1]) THEN {ch} ELSE {ch[1]} \X Directions : ch \in chs} = chs
  BY <1>1 DEF Bridge
<1>3. reset' = reset \cup chs /\ bytes' = [ch \in Channels |-> IF ch \in chs THEN <<>> ELSE bytes[ch]]
  BY <1>2 DEF Resets
<1> QED
  BY <1>3

LEMMA DownWhole ==
  ASSUME \A ch \in Channels \ {<<1, "up">>} : bytes'[ch] = bytes[ch],
         \A c \in Copiers \ {<<1, "up">>} : held'[c] = held[c],
         sent'["down"] = sent["down"], got' = got, Whole("down")
  PROVE  Whole("down")'
<1>1. Items("down")' = Items("down")
  <2>1. \A ch \in Channels : ch[2] = "down" => bytes'[ch] = bytes[ch]
    OBVIOUS
  <2>2. \A c \in Copiers : c[2] = "down" => held'[c] = held[c]
    OBVIOUS
  <2> QED
    BY <2>1, <2>2, ItemsSame DEF Items
<1> QED
  BY <1>1 DEF Whole

LEMMA ReturnHealthy ==
  ASSUME TypeInv, TypeInv', HealthInv, Growth, faults' = 0, Return
  PROVE  HealthInv'
<1> USE DEF HealthInv
<1> DEFINE first == <<1, "up">>
<1>0. /\ UNCHANGED <<cancelled, sent, got>> /\ faults = 0 /\ stdio /\ stdio'
      /\ place[1] = "copy" /\ place'[1] = "done" /\ \A j \in Relays \ {1} : place'[j] = place[j]
      /\ CloseEnds(Held(1)) /\ copier[<<1, "down">>] = "ended" /\ result' # "none"
      /\ 1 \in Relays /\ first \in Copiers /\ <<1, "down">> \in Copiers /\ first \in Channels
  <2>1. 1 \in Relays /\ first \in Copiers /\ <<1, "down">> \in Copiers /\ first \in Channels
    BY Places, RelayAssumption DEF Directions, Channels, RelayAssumption
  <2>2. result' # "none"
    BY DEF Return, Verdict
  <2>3. place'[1] = "done" /\ \A j \in Relays \ {1} : place'[j] = place[j]
    BY <2>1 DEF Return, TypeInv, RelayTypeOK
  <2> QED
    BY <2>1, <2>2, <2>3, NoFault DEF Return, Bridge, history, Growth
<1>1. /\ copier'[first] = "ended" /\ \A c \in Copiers \ {first} : copier'[c] = copier[c]
      /\ \A c \in Copiers \ {first} : held'[c] = held[c]
  BY <1>0 DEF Return, TypeInv, RelayTypeOK
<1>2. \A d \in Directions : copier'[<<1, d>>] = "ended"
  <2>1. <<1, "down">> # first
    OBVIOUS
  <2> QED
    BY <1>0, <1>1, <2>1 DEF Directions
<1>3. Src(<<1, "down">>) # first /\ Drained(Src(<<1, "down">>))
  <2>1. "down" \in Directions
    BY DEF Directions
  <2> QED
    BY <1>0, <2>1, HeldDrained DEF Src
<1>4. \A ch \in Channels : Reader(ch) \in Held(1) => ch = first \/ (ch \in fin /\ bytes[ch] = <<>>)
  <2> SUFFICES ASSUME NEW ch \in Channels, Reader(ch) \in Held(1), ch # first
               PROVE  ch \in fin /\ bytes[ch] = <<>>
    OBVIOUS
  <2>1. PICK d \in Directions : ch = Src(<<1, d>>)
    BY <1>0, Geometry
  <2>2. d = "down"
    BY <2>1 DEF Src, Directions
  <2> QED
    BY <1>3, <2>1, <2>2 DEF Drained, Spared
<1> DEFINE chs == {ch \in Channels : Reader(ch) \in open \cap Held(1) /\ bytes[ch] # <<>>}
<1>5. chs \in SUBSET {first} /\ Resets(chs)
  BY <1>0, <1>4 DEF CloseEnds
<1>6. /\ reset' = reset \cup chs /\ \A ch \in Channels \ {first} : bytes'[ch] = bytes[ch]
      /\ \A ch \in Channels : bytes[ch] = <<>> => bytes'[ch] = <<>>
  <2> HIDE DEF chs
  <2> QED
    BY <1>0, <1>5, SparedReset
<1>7. /\ open' = open \ Held(1) /\ fin \subseteq fin'
      /\ \A ch \in Channels : ch \in fin' => ch \in fin \/ Writer(ch) \in Held(1)
  BY <1>0 DEF CloseEnds
<1> HIDE DEF chs
<1>8. Keeps
  BY <1>0, <1>1, <1>6, <1>7 DEF Keeps
<1>9. Calm'
  <2>1. reset' # {} => reset' = {first}
    BY <1>5, <1>6 DEF Calm
  <2>2. \A c \in Copiers : copier'[c] \notin {"report", "hangup"}
    BY <1>1 DEF Calm
  <2> QED
    BY <1>0, <1>1, <2>1, <2>2 DEF Calm
<1>10. Standing'
  <2> SUFFICES ASSUME NEW j \in Relays
               PROVE  /\ place'[j] # "refused"
                      /\ place'[j] = "done" => \A d \in Directions : copier'[<<j, d>>] = "ended"
                      /\ place'[j] \in {"dial", "copy"} => <<j, "right">> \in open'
                      /\ place'[j] = "copy" => <<j + 1, "left">> \in open'
    BY DEF Standing
  <2>1. CASE j = 1
    BY <1>0, <1>2, <2>1
  <2>2. CASE j # 1
    <3>1. <<j, "right">> \notin Held(1) /\ <<j + 1, "left">> \notin Held(1)
      BY <2>2 DEF Held, Relays
    <3>2. \A d \in Directions : copier[<<j, d>>] = "ended" => copier'[<<j, d>>] = "ended"
      BY <1>8, Places DEF Keeps
    <3> QED
      BY <1>0, <1>7, <2>2, <3>1, <3>2 DEF Standing
  <2> QED
    BY <2>1, <2>2
<1>11. \A ch \in Channels : Drained(ch) => Drained(ch)'
  BY <1>8, DrainedKept
<1>12. Drained(first)'
  BY <1>0 DEF Drained, Spared
<1>13. Drains'
  <2> SUFFICES ASSUME NEW q \in Copiers, copier'[q] \in {"shut", "ended"}
               PROVE  /\ \A ch \in Channels : ch[2] = q[2] /\ Stage(ch) < Hand(q) => Drained(ch)'
                      /\ \A e \in Copiers : e[2] = q[2] /\ Hand(e) < Hand(q) => copier'[e] = "ended"
    BY DEF Drains, Stage, Hand
  <2>1. CASE q = first
    <3>0. Hand(q) = 2 /\ q[2] = "up" /\ Stage(first) = 1 /\ first[2] = "up"
      BY <2>1 DEF Hand, Stage
    <3>1. ASSUME NEW ch \in Channels, ch[2] = q[2], Stage(ch) < Hand(q) PROVE ch = first
      <4>1. Stage(ch) \in 1..Target - 1 /\ Target \in Nat
        BY Stages
      <4>2. Stage(ch) = Stage(first)
        BY <3>0, <3>1, <4>1
      <4> QED
        BY <1>0, <3>0, <3>1, <4>2, Stages
    <3>2. ASSUME NEW e \in Copiers, Hand(e) < Hand(q) PROVE FALSE
      <4>1. Hand(e) \in 2..Target - 2 /\ Target \in Nat
        BY Stages
      <4> QED
        BY <3>0, <3>2, <4>1
    <3> QED
      BY <1>12, <3>1, <3>2
  <2>2. CASE q # first
    <3>1. /\ \A ch \in Channels : ch[2] = q[2] /\ Stage(ch) < Hand(q) => Drained(ch)
          /\ \A e \in Copiers : e[2] = q[2] /\ Hand(e) < Hand(q) => copier[e] = "ended"
      BY <1>1, <2>2 DEF Drains
    <3> QED
      BY <1>8, <1>11, <3>1 DEF Keeps
  <2> QED
    BY <2>1, <2>2
<1>14. EndsPassed'
  <2> SUFFICES ASSUME NEW c \in Copiers, Dst(c) \in fin' PROVE copier'[c] = "ended"
    BY DEF EndsPassed, Dst
  <2>1. CASE Dst(c) \in fin
    BY <1>8, <2>1 DEF EndsPassed, Keeps
  <2>2. CASE Writer(Dst(c)) \in Held(1)
    <3>1. PICK d \in Directions : Dst(c) = Dst(<<1, d>>)
      BY <1>0, <2>2, Geometry, Places
    <3>2. c = <<1, d>>
      BY <1>0, <3>1, Places, Stages
    <3> QED
      BY <1>2, <3>2
  <2> QED
    BY <1>7, <2>1, <2>2, Places
<1>15. ReadOut'
  <2>1. \A h \in 1..N + 1 : Made(h)' => Made(h)
    BY <1>0, RelayAssumption DEF Made, Relays, RelayAssumption
  <2>2. \A ch \in Channels : ch[1] \in 1..N + 1
    BY DEF Channels
  <2>3. \A ch \in Channels : Reader(ch) \in Held(1) => Drained(ch)'
    BY <1>4, <1>11, <1>12 DEF Drained
  <2> QED
    BY <1>7, <1>8, <2>1, <2>2, <2>3, ReadOutKept
<1>16. \A d \in (Directions \ Broken)' : Whole(d)'
  <2> SUFFICES ASSUME NEW d \in Directions, d \notin Broken' PROVE Whole(d)'
    OBVIOUS
  <2>1. d = "down" /\ d \notin Broken
    BY <1>0 DEF Broken, Directions
  <2> QED
    BY <1>0, <1>1, <1>6, <2>1, DownWhole
<1> QED
  BY <1>9, <1>10, <1>13, <1>14, <1>15, <1>16

(* The end of a stream is seen only when it is there.                        *)
LEMMA EndSeen ==
  ASSUME TypeInv, OrderInv, HealthInv, NEW d \in Directions, d \in eof
  PROVE  Last(d) \in fin /\ bytes[Last(d)] = <<>>
  BY Geometry DEF OrderInv, HealthInv, Calm

LEMMA EndsHealthy ==
  ASSUME TypeInv, TypeInv', OrderInv, HealthInv, Growth, faults' = 0, NEW d \in Directions,
         Settling(d) \/ Send(d) \/ EndStream(d)
  PROVE  HealthInv'
<1> USE DEF HealthInv
<1>0. /\ First(d) \in Channels /\ Last(d) \in Channels /\ faults = 0
      /\ \A c \in Copiers : copier[c] \notin {"report", "hangup"}
  BY Places, NoFault DEF Calm
<1>1. CASE Receive(d)
  <2>1. /\ UNCHANGED <<stdio, fin, open, reset, place, copier, cancelled, result>>
        /\ bytes[Last(d)] # <<>> /\ \A o \in Channels \ {Last(d)} : bytes'[o] = bytes[o]
    BY <1>1 DEF Receive, TakeByte, TypeInv, RelayTypeOK
  <2>2. Keeps
    BY <2>1 DEF Keeps
  <2>3. Drains' /\ EndsPassed'
    BY <2>1, <2>2, DrainsKept DEF EndsPassed, Dst
  <2>4. \A o \in Directions : Whole(o) => Whole(o)'
    BY <1>1, ReceiveOrders
  <2> QED
    BY <1>0, <2>1, <2>2, <2>3, <2>4, FlowHealthy
<1>2. CASE SeeEnd(d)
  <2>1. UNCHANGED <<stdio, bytes, fin, open, reset, place, copier, cancelled, result, held, sent, got>>
    BY <1>2 DEF SeeEnd, net
  <2>2. Keeps
    BY <2>1 DEF Keeps
  <2>3. Drains' /\ EndsPassed'
    BY <2>1, <2>2, DrainsKept DEF EndsPassed, Dst
  <2>4. \A o \in Directions : Whole(o) => Whole(o)'
    BY <2>1, WholeKept
  <2> QED
    BY <1>0, <2>1, <2>2, <2>3, <2>4, FlowHealthy
<1>3. CASE EndStream(d)
  <2>1. /\ UNCHANGED <<stdio, bytes, open, reset, place, copier, cancelled, result, held, sent, got>>
        /\ fin' = fin \cup {First(d)}
    BY <1>3 DEF EndStream, history
  <2>2. Keeps
    BY <2>1 DEF Keeps
  <2>3. Drains'
    BY <2>1, <2>2, DrainsKept
  <2>4. EndsPassed'
    BY <2>1, Geometry DEF EndsPassed, Dst
  <2>5. \A o \in Directions : Whole(o) => Whole(o)'
    BY <2>1, WholeKept
  <2> QED
    BY <1>0, <2>1, <2>2, <2>3, <2>4, <2>5, FlowHealthy
<1>4. CASE Settle(d)
  <2> DEFINE end == Reader(Last(d))
  <2>1. /\ UNCHANGED <<stdio, place, copier, cancelled, result, held, sent, got>>
        /\ CloseEnds({end}) /\ d \in eof
    BY <1>4 DEF Settle, history
  <2>2. Last(d) \in fin /\ bytes[Last(d)] = <<>>
    BY <2>1, EndSeen
  <2>3. \A ch \in Channels : Reader(ch) = end => ch = Last(d)
    BY <1>0, Geometry
  <2>4. UNCHANGED <<bytes, reset>>
    BY <2>1, <2>2, <2>3, CloseQuietly
  <2>5. /\ open' = open \ {end} /\ fin \subseteq fin'
        /\ \A ch \in Channels : ch \in fin' => ch \in fin \/ Writer(ch) = end
    BY <2>1 DEF CloseEnds
  <2>6. Keeps
    BY <2>1, <2>4, <2>5 DEF Keeps
  <2>7. Calm'
    BY <2>1, <2>4 DEF Calm
  <2>8. Standing'
    <3>1. \A j \in Relays : <<j, "right">> # end /\ <<j + 1, "left">> # end
      BY Geometry DEF Held
    <3> QED
      BY <2>1, <2>5, <3>1 DEF Standing
  <2>9. Drains'
    BY <2>1, <2>6, DrainsKept
  <2>10. EndsPassed'
    <3>1. \A c \in Copiers : Dst(c) \in Channels /\ Writer(Dst(c)) # end
      BY Geometry, Places
    <3> QED
      BY <2>1, <2>5, <3>1 DEF EndsPassed, Dst
  <2>11. ReadOut'
    <3>1. \A ch \in Channels : Reader(ch) = end => Drained(ch)'
      BY <2>2, <2>3, <2>6, DrainedKept DEF Drained
    <3> QED
      BY <2>1, <2>5, <2>6, <3>1, ReadOutKept DEF Made
  <2>12. \A o \in (Directions \ Broken)' : Whole(o)'
    BY <1>0, <2>1, <2>4, WholeKept DEF Broken, Settle, history
  <2> QED
    BY <2>7, <2>8, <2>9, <2>10, <2>11, <2>12
<1>5. CASE Send(d)
  <2>0. PutWell(First(d), sent[d] + 1) \/ PutIll(First(d))
    BY <1>0, <1>5, WritingByte, PutTyped DEF Send, TypeInv
  <2>1. /\ UNCHANGED <<stdio, fin, open, place, copier, cancelled, result, held, got, eof, faults>>
        /\ First(d) \notin fin
    BY <1>5, <2>0 DEF Send, PutWell, PutIll
  <2>2. CASE PutWell(First(d), sent[d] + 1)
    <3>1. reset' = reset /\ \A o \in Channels \ {First(d)} : bytes'[o] = bytes[o]
      BY <2>2 DEF PutWell
    <3>2. Keeps
      BY <2>1, <3>1 DEF Keeps
    <3>3. Drains' /\ EndsPassed'
      BY <2>1, <3>2, DrainsKept DEF EndsPassed, Dst
    <3>4. \A o \in Directions : Whole(o) => Whole(o)'
      BY <1>5, <2>2, SendOrders
    <3> QED
      BY <1>0, <2>1, <3>1, <3>2, <3>3, <3>4, FlowHealthy
  <2>3. CASE PutIll(First(d))
    <3>1. Made(First(d)[1])
      <4>1. CASE d = "up"
        BY <4>1 DEF First, Made
      <4>2. CASE d # "up"
        BY <1>5, <4>2, RelayAssumption DEF Send, CanStart, First, Made, RelayAssumption
      <4> QED
        BY <4>1, <4>2
    <3>2. Spared(First(d))
      BY <1>0, <2>1, <2>3, <3>1 DEF PutIll, ReadOut, Drained
    <3>3. d = "up" /\ First(d) = <<1, "up">> /\ result # "none" /\ stdio
      BY <3>2, Geometry DEF Spared, Calm, Directions
    <3>4. /\ reset' = reset \cup {<<1, "up">>} /\ \A ch \in Channels \ {<<1, "up">>} : bytes'[ch] = bytes[ch]
          /\ \A ch \in Channels : bytes[ch] = <<>> => bytes'[ch] = <<>>
      BY <2>3, <3>3, SparedReset DEF PutIll
    <3>5. Keeps
      BY <2>1, <3>4 DEF Keeps
    <3>6. Calm'
      BY <2>1, <3>3, <3>4 DEF Calm
    <3>7. Standing'
      BY <2>1 DEF Standing
    <3>8. Drains' /\ EndsPassed'
      BY <2>1, <3>5, DrainsKept DEF EndsPassed, Dst
    <3>9. ReadOut'
      BY <2>1, <3>5, ReadOutKept DEF Made
    <3>10. sent'["down"] = sent["down"]
      BY <1>5, <3>3 DEF Send, TypeInv, RelayTypeOK, Directions
    <3>11. \A o \in (Directions \ Broken)' : Whole(o)'
      <4> SUFFICES ASSUME NEW o \in Directions, o \notin Broken' PROVE Whole(o)'
        OBVIOUS
      <4>1. o = "down" /\ o \notin Broken
        BY <1>0, <2>1, <3>3 DEF Broken, Directions
      <4> QED
        BY <2>1, <3>4, <3>10, <4>1, DownWhole
    <3> QED
      BY <3>6, <3>7, <3>8, <3>9, <3>11
  <2> QED
    BY <2>0, <2>2, <2>3
<1> QED
  BY <1>1, <1>2, <1>3, <1>4, <1>5 DEF Settling

LEMMA HealthStep ==
  TypeInv /\ TypeInv' /\ OrderInv /\ Health /\ [RelayNext]_relayVars => Health'
<1> SUFFICES ASSUME TypeInv, TypeInv', OrderInv, Health, [RelayNext]_relayVars, faults' = 0
             PROVE  HealthInv'
  BY DEF Health
<1>0. Growth
  BY Growing
<1>1. HealthInv
  BY <1>0, NoFault DEF Health
<1>2. ASSUME NEW c \in Copiers, Copy(c) PROVE HealthInv'
  BY <1>0, <1>1, <1>2, CopyHealthy
<1>3. ASSUME NEW k \in Relays, Progress(k) PROVE HealthInv'
  BY <1>0, <1>1, <1>3, NoFailure, DialHealthy, FinishHealthy DEF Progress
<1>4. CASE Bridging
  BY <1>0, <1>1, <1>4, NoFailure, ReturnHealthy DEF Bridging
<1>5. ASSUME NEW d \in Directions, Settling(d) \/ Send(d) \/ EndStream(d) PROVE HealthInv'
  BY <1>0, <1>1, <1>5, EndsHealthy
<1>6. CASE UNCHANGED relayVars
  BY <1>1, <1>6 DEF relayVars, net, history, HealthInv, Calm, Standing, Drains, EndsPassed, ReadOut,
     Drained, Spared, Made, Dst, Reader, Stage, Hand, Broken, Whole, Items
<1> QED
  BY <1>0, <1>1, <1>2, <1>3, <1>4, <1>5, <1>6, NoFailure DEF RelayNext, Running

-----------------------------------------------------------------------------
(* The row of relays implements one connection.                              *)
RelayInv == TypeInv /\ OrderInv /\ Health

(* Bytes are received only after they were sent.                             *)
LEMMA Behind ==
  ASSUME TypeInv, OrderInv, NEW d \in Directions
  PROVE  /\ Len(got[d]) <= sent[d]
         /\ bytes[Last(d)] # <<>> => Len(got[d]) < sent[d]
<1>1. /\ sent[d] \in 0..MaxBytes /\ sent[d] + 1 \in Bytes /\ Len(got[d]) \in Nat
      /\ MaxBytes \in Nat /\ bytes[Last(d)] \in Seq(1..MaxBytes) /\ Last(d) \in Channels
      /\ Target \in Nat /\ Target > 3
  BY Places, Stages, RelayAssumption DEF RelayAssumption, Bytes, TypeInv, RelayTypeOK
<1>2. /\ Ordered(Items(d), Stops(d)) /\ Increasing(bytes[Last(d)])
  BY <1>1 DEF OrderInv
<1>3. /\ sent[d] + 1 \in Items(d)[0]
      /\ Items(d)[Target] = {b \in Bytes : b <= Len(got[d])}
      /\ Items(d)[Target - 1] = Bytes \cap Range(bytes[Last(d)])
  <2>1. Items(d)[0] = {b \in Bytes : b > sent[d]}
    BY ItemsAt DEF Items
  <2>2. Items(d)[Target] = {b \in Bytes : b <= Len(got[d])}
    BY ItemsAt DEF Items
  <2>3. Items(d)[Stage(Last(d))] = Bytes \cap Range(bytes[Last(d)])
    BY <1>1, ItemsAt, Stages DEF Items
  <2>4. Stage(Last(d)) = Target - 1
    BY Stages
  <2> QED
    BY <1>1, <2>1, <2>2, <2>3, <2>4
<1>4. \A t \in 1..Target : \A b \in Items(d)[t] : sent[d] + 1 > b
  BY <1>1, <1>2, <1>3 DEF Ordered
<1>5. Len(got[d]) <= sent[d]
  <2> SUFFICES ASSUME Len(got[d]) > sent[d] PROVE FALSE
    BY <1>1
  <2>1. sent[d] + 1 \in Items(d)[Target]
    BY <1>1, <1>3
  <2> QED
    BY <1>1, <1>4, <2>1
<1>6. ASSUME bytes[Last(d)] # <<>> PROVE Len(got[d]) < sent[d]
  <2>1. Head(bytes[Last(d)]) = Len(got[d]) + 1
    BY <1>6, NextIn
  <2>2. Len(got[d]) + 1 \in Range(bytes[Last(d)])
    BY <1>1, <1>2, <1>6, <2>1, IncreasingTail
  <2>3. Len(got[d]) + 1 \in Items(d)[Target - 1]
    BY <1>1, <1>3, <1>5, <2>2 DEF Bytes
  <2> QED
    BY <1>1, <1>4, <2>3
<1> QED
  BY <1>5, <1>6

(* At the end of the stream everything that was sent has been received.      *)
LEMMA AllReceived ==
  ASSUME TypeInv, OrderInv, HealthInv, NEW d \in Directions, d \notin Broken,
         Last(d) \in fin, bytes[Last(d)] = <<>>
  PROVE  d \in Ended /\ Len(got[d]) = sent[d]
<1>1. PICK c \in Copiers : Dst(c) = Last(d) /\ c[2] = d
  BY Geometry
<1>2. /\ copier[c] = "ended" /\ Hand(c) = Target - 2 /\ Target \in Nat /\ Target > 3
      /\ \A ch \in Channels : ch[2] = d /\ Stage(ch) < Hand(c) => Drained(ch)
      /\ \A e \in Copiers : e[2] = d /\ Hand(e) < Hand(c) => copier[e] = "ended"
  <2>1. copier[c] = "ended"
    BY <1>1 DEF HealthInv, EndsPassed
  <2>2. Hand(c) + 1 = Target - 1 /\ Hand(c) \in 2..Target - 2 /\ Target \in Nat /\ Target > 3
    BY <1>1, Stages
  <2>3. /\ \A ch \in Channels : ch[2] = d /\ Stage(ch) < Hand(c) => Drained(ch)
        /\ \A e \in Copiers : e[2] = d /\ Hand(e) < Hand(c) => copier[e] = "ended"
    BY <1>1, <2>1 DEF HealthInv, Drains
  <2> QED
    BY <2>1, <2>2, <2>3
<1>3. \A ch \in Channels : ch[2] = d => ~Spared(ch)
  BY DEF Spared, Broken
<1>4. ASSUME NEW ch \in Channels, ch[2] = d PROVE ch \in fin /\ bytes[ch] = <<>>
  <2>1. Stage(ch) \in 1..Target - 1 /\ Stage(ch) # Hand(c)
    BY Stages
  <2>2. CASE Stage(ch) < Hand(c)
    BY <1>2, <1>3, <1>4, <2>2 DEF Drained
  <2>3. CASE Stage(ch) = Target - 1
    <3>1. ch = Last(d)
      BY <1>4, <2>3, Places, Stages
    <3> QED
      BY <3>1
  <2> QED
    BY <1>2, <2>1, <2>2, <2>3
<1>5. ASSUME NEW e \in Copiers, e[2] = d PROVE held[e] = None
  <2>1. Hand(e) \in 2..Target - 2
    BY Stages
  <2>2. CASE Hand(e) = Hand(c)
    BY <1>1, <1>2, <1>5, <2>2, Stages DEF TypeInv, RelayTypeOK
  <2>3. CASE Hand(e) < Hand(c)
    BY <1>2, <1>5, <2>3 DEF TypeInv, RelayTypeOK
  <2> QED
    BY <1>2, <2>1, <2>2, <2>3
<1>6. \A b \in Bytes : b > sent[d] \/ b <= Len(got[d])
  <2> SUFFICES ASSUME NEW b \in Bytes PROVE b > sent[d] \/ b <= Len(got[d])
    OBVIOUS
  <2>1. PICK s \in 0..Target : b \in Items(d)[s]
    BY DEF HealthInv, Whole
  <2>2. b # None
    BY DEF Bytes, None
  <2>3. Range(<<>>) = {}
    BY IncreasingEmpty
  <2> QED
    BY <1>4, <1>5, <2>1, <2>2, <2>3 DEF Items, ItemsOf
<1>7. Len(got[d]) <= sent[d]
  BY Behind
<1>8. sent[d] <= Len(got[d])
  <2>1. sent[d] \in 0..MaxBytes /\ Len(got[d]) \in Nat /\ MaxBytes \in Nat
    BY RelayAssumption DEF RelayAssumption, TypeInv, RelayTypeOK
  <2>2. CASE sent[d] = 0
    BY <2>1, <2>2
  <2>3. CASE sent[d] # 0
    <3>1. sent[d] \in Bytes
      BY <2>1, <2>3 DEF Bytes
    <3> QED
      BY <1>6, <2>1, <3>1
  <2> QED
    BY <2>2, <2>3
<1>9. d \in Ended
  BY <1>4, Places, Stages DEF Ended
<1>10. sent[d] \in Int /\ Len(got[d]) \in Int
  BY DEF TypeInv, RelayTypeOK
<1> QED
  BY <1>7, <1>8, <1>9, <1>10

LEMMA PipeInitial == RelayInit => Connection!PipeInit
<1> SUFFICES ASSUME RelayInit PROVE Connection!PipeInit
  OBVIOUS
<1>1. Ended = {} /\ Broken = {}
  BY DEF RelayInit, Ended, Broken
<1> QED
  BY <1>1 DEF RelayInit, Connection!PipeInit, Connection!Directions, Directions

(* Ends of streams and failures are the only other things that an end notices. *)
LEMMA EndsOrBreaks ==
  ASSUME TypeInv, TypeInv', Growth, UNCHANGED <<sent, got, eof>>, result # "none" => result' # "none"
  PROVE  Connection!PipeNext
<1>1. Ended \subseteq Ended' /\ Ended' \subseteq Directions
  BY DEF Growth, Ended
<1>2. faults > 0 => faults' > 0
  BY RelayAssumption DEF RelayAssumption, Growth, TypeInv, RelayTypeOK
<1>3. Broken \subseteq Broken' /\ Broken' \subseteq Directions
  BY <1>2 DEF Broken, Directions
<1>4. Connection!EndOrBreak
  BY <1>1, <1>3 DEF Connection!EndOrBreak, Connection!Directions, Directions
<1> QED
  BY <1>4 DEF Connection!PipeNext

LEMMA SendsByte ==
  ASSUME TypeInv, NEW d \in Directions, Send(d)
  PROVE  Connection!PipeNext
<1>1. fin' = fin
  <2>1. First(d) \in Channels /\ sent[d] + 1 \in 1..MaxBytes
    BY Places, WritingByte DEF Send
  <2> QED
    BY <2>1, PutGrows DEF Send
<1>2. Ended' = Ended /\ Broken' = Broken /\ d \notin Ended
  BY <1>1 DEF Send, PutByte, CanWrite, Ended, Broken, First
<1>3. Connection!SendByte(d)
  BY <1>2 DEF Send, Connection!SendByte
<1> QED
  BY <1>3 DEF Connection!PipeNext, Connection!Directions, Directions

LEMMA ReceivesByte ==
  ASSUME TypeInv, TypeInv', OrderInv, NEW d \in Directions, Receive(d)
  PROVE  Connection!PipeNext
<1>1. d \notin eof /\ Len(got[d]) < sent[d]
  BY ReceiveOrders, Behind DEF Receive, TakeByte
<1>2. Head(bytes[Last(d)]) = Len(got[d]) + 1
  BY NextIn DEF Receive, TakeByte
<1>3. Ended' = Ended /\ Broken' = Broken
  BY DEF Receive, TakeByte, Ended, Broken, First
<1>4. Connection!Deliver(d)
  BY <1>1, <1>2, <1>3 DEF Receive, Connection!Deliver
<1> QED
  BY <1>4 DEF Connection!PipeNext, Connection!Directions, Directions

LEMMA SeesEnd ==
  ASSUME TypeInv, OrderInv, Health, NEW d \in Directions, SeeEnd(d)
  PROVE  Connection!PipeNext
<1>1. d \in Broken \/ (d \in Ended /\ Len(got[d]) = sent[d])
  <2>1. CASE faults > 0
    BY <2>1 DEF Broken
  <2>2. CASE ~(faults > 0)
    <3>1. HealthInv
      BY <2>2, RelayAssumption DEF RelayAssumption, Health, TypeInv, RelayTypeOK
    <3>2. Last(d) \notin reset
      BY <3>1, Geometry DEF HealthInv, Calm
    <3>3. Last(d) \in fin /\ bytes[Last(d)] = <<>>
      BY <3>2 DEF SeeEnd, AtEnd
    <3> QED
      BY <3>1, <3>3, AllReceived
  <2> QED
    BY <2>1, <2>2
<1>2. Ended' = Ended /\ Broken' = Broken
  BY DEF SeeEnd, net, Ended, Broken, First
<1>3. Connection!DeliverEnd(d)
  BY <1>1, <1>2 DEF SeeEnd, Connection!DeliverEnd
<1> QED
  BY <1>3 DEF Connection!PipeNext, Connection!Directions, Directions

LEMMA PipeStep ==
  RelayInv /\ RelayInv' /\ [RelayNext]_relayVars => [Connection!PipeNext]_Connection!pipeVars
<1> SUFFICES ASSUME RelayInv, RelayInv', [RelayNext]_relayVars
             PROVE  Connection!PipeNext
  OBVIOUS
<1>0. Growth /\ TypeInv /\ TypeInv' /\ OrderInv /\ Health
  BY Growing DEF RelayInv
<1>1. ASSUME NEW c \in Copiers, Copy(c) PROVE Connection!PipeNext
  <2>1. UNCHANGED <<sent, got, eof, result>>
    BY <1>1 DEF Copy, Read, Write, CopyEnds, CopyFails, Shut, history
  <2> QED
    BY <1>0, <2>1, EndsOrBreaks
<1>2. ASSUME NEW k \in Relays, Progress(k) \/ Cancel(k) PROVE Connection!PipeNext
  <2>1. UNCHANGED <<sent, got, eof, result>>
    BY <1>2 DEF Progress, Dial, DialFails, Finish, Cancel, history
  <2> QED
    BY <1>0, <2>1, EndsOrBreaks
<1>3. CASE Bridging
  <2>1. UNCHANGED <<sent, got, eof>> /\ (result' = result \/ result' = Verdict)
    BY <1>3 DEF Bridging, Report, Hangup, Watch, Return, history
  <2>2. Verdict # "none"
    BY DEF Verdict
  <2> QED
    BY <1>0, <2>1, <2>2, EndsOrBreaks
<1>4. ASSUME NEW d \in Directions, EndStream(d) \/ CloseEarly(d) \/ Settle(d) PROVE Connection!PipeNext
  <2>1. UNCHANGED <<sent, got, eof, result>>
    BY <1>4 DEF EndStream, CloseEarly, Settle, history
  <2> QED
    BY <1>0, <2>1, EndsOrBreaks
<1>5. ASSUME NEW d \in Directions, Send(d) \/ Receive(d) \/ SeeEnd(d) PROVE Connection!PipeNext
  BY <1>0, <1>5, SendsByte, ReceivesByte, SeesEnd
<1>6. CASE ConnectionReset \/ UNCHANGED relayVars
  <2>1. UNCHANGED <<sent, got, eof, result>>
    BY <1>6 DEF ConnectionReset, relayVars, history
  <2> QED
    BY <1>0, <2>1, EndsOrBreaks
<1> QED
  BY <1>1, <1>2, <1>3, <1>4, <1>5, <1>6 DEF RelayNext, Running, Settling

LEMMA RelayInvariant == RelaySpec => []RelayInv
<1>1. RelayInit => RelayInv
  BY TypeInitial, OrderInitial, HealthInitial DEF RelayInv
<1>2. RelayInv /\ [RelayNext]_relayVars => RelayInv'
  BY TypeStep, OrderStep, HealthStep DEF RelayInv
<1> QED
  BY <1>1, <1>2, PTL DEF RelaySpec

(* However many relays are in a row, and whichever end closes or half-closes   *)
(* first, the two ends see one connection: bytes in order, and the end of a     *)
(* stream after the last of them, unless something failed (bicopy, copyFunc,   *)
(* listenAndForward, bridgeStdio).                                           *)
THEOREM KeepsPromise == RelaySpec => PipePromise
<1>1. RelaySpec => Connection!PipeInit
  BY PipeInitial, PTL DEF RelaySpec
<1> QED
  BY <1>1, RelayInvariant, PipeStep, PTL DEF RelaySpec, PipePromise, Connection!PipeSpec
=============================================================================
