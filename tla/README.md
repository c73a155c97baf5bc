# TLA+ models of tsok

tsok gives temporary shell, copy and port access to a machine without an
account or an open port: `tsok serve` starts a host, prints an auth key, and
any number of clients holding that key reach it over WireGuard, set up through
a control overlay of encrypted packets relayed by DERP. This directory models
the parts of tsok whose correctness depends on interleaving, failure and
ordering, checks them with TLC on small instances, and proves the core safety
properties with TLAPS for every instance.

## Inventory

| Component | Source | State it keeps | Operations | Hard behaviour |
|---|---|---|---|---|
| Receive overlay (host) | `overlay/receive.go` | `peers` under `peerMu`, `lastNode`, channels `in`, `out` | receive loop, `trackPeer`, `removeDERPPeers`, reaper `expirePeers`, fan-out | three goroutines, sends under a lock, bounded channels |
| Send overlay (client) | `overlay/send.go` | `requests`, `closed`, `done`, `closeFunc`, channels `in`, `out` | `ListenOverlayDERP`, `OpenUDP`, `Close`, keep-alive | one hello only, late answers, close at any time |
| Host transport | `internal/transport/host.go` | `udpPorts` under `udpMu`, listeners | `openUDP`, `closeUDPSession`, `acceptUDP`, `Close` | shared listeners, sweeps against late opens |
| Client transport | `internal/transport/client.go` | overlay, control server, tsnet | `Connect`, `DialUDP`, `WaitDirect`, `Close` | start-up failing half-way, cancellation at any moment |
| Forward command | `cmd/tsok/forward.go` | listeners, wait group, signal goroutine | parse, listen, accept, interrupt, deferred closes | waiting for loops that only closed listeners end; port ranges |
| Control server: control loop | `tsserver/server.go` | `node`, `peers`, one-slot channels | loop of `ListenAndServe`, registration, endpoint update | dropped tokens, blocking sends |
| Control server: map stream | `tsserver/server.go` | per-stream `knownPeerIDs`, shared `peerUpdate` | `handleStreaming`, Noise upgrade, `Close` | streams sharing one token, last-peer removal |
| Persistent identity | `cmd/tsok/persist.go` | identity file | load, save | concurrent starters, crashes |
| Self update | `cmd/tsok/update.go` | check stamp, executable | check, download, verify, replace, restart | failing or crashing half-way, restart loops, two updaters |
| Relays | `cmd/tsok/serve.go`, `forward.go` | two copy directions | `bicopy`, `bridgeStdio`, `copyDatagrams` | half-close, one side failing |
| Peer path tracker | `cmd/tsok/serve.go` | last reported path per peer | `update`, `monitor` | flapping paths |
| Single SSH session | `xssh/server.go` | session slot, process | `handleSession`, `runSession` | second session, process outliving its session |
| Port ranges, auth key | `forward.go`, `overlay/auth.go` | none | parsing | 16-bit boundaries |

How they interact on the host: DERP packets reach R, the receive loop, which
keeps the registry of sessions and answers; R and the reaper E send peer
updates on `in` to T, the control loop, which keeps the peer store that
tailscaled reads through map streams; T sends our own node on `out` to O, which
fans it out to every registered session; R and E call back into the transport
to open UDP ports and to close the leases of sessions that are gone. On the
client the same control loop T stands at the other ends of `in` and `out` of
the send overlay, whose L receives and whose O sends. Around them stand the
commands: every command first passes the update middleware, which may replace
the executable and start over; `tsok serve` then loads or makes its identity
and starts the host; `tsok forward` brings up a client transport, with a
control server in its own process, and relays what its listeners accept to the
host, where another relay dials the service.

What makes each part correct:

- *Receive overlay*: a session enters the registry only with its hello and
  leaves it only for its goodbye, the loss of its key or its silence; whatever
  order R, E and T run in, a session that has left keeps no node in the peer
  store and no UDP lease; our newest node reaches every session; nobody waits
  for ever.
- *Host transport*: a listener is open exactly while some session leases it.
- *Control loop*: dropping tokens loses no version of our node.
- *Map stream*: what tailscaled holds once things are quiet is the peer store.
- *Control connection*: one at a time, and `Close` leaves none open.
- *Persistent identity*: one identity however many runs start at once, and no
  printed key lost to a crash.
- *Self update*: the executable's name stands for a whole release at every
  moment, and an update never restarts in a loop.
- *Forward command and client transport*: the forwards are those asked for;
  whatever fails, and whenever the user interrupts, everything that was made is
  closed, in order, and the command ends.
- *Relays*: two in a row behave as one connection.
- *Send overlay*: one goodbye, the right answer to every `OpenUDP`, and an end
  to everything after `Close`.

## Modules

| Module | Models | State | Actions |
|---|---|---|---|
| `Overlay` | `overlay/overlay.go` | none | message and update types |
| `ReceiveOverlay` | `overlay/receive.go` | `peers`, `age` (of `lastSeen`), `lastNode`, `in`, `out`, `peerMu`, the places of R, E, O | `R…` per step of the receive loop and `handleNextMessage`/`trackPeer`/`removeDERPPeers`, `E…` for `expirePeers`, `O…` for the fan-out, `Tick` |
| `UDPLease` | `internal/transport/host.go` | `udpPorts`, `listeners` | `JoinUDP`, `ListenUDP`, `RefuseUDP` (`openUDP`), `CloseUDPSession` |
| `ControlLoop` | `tsserver/server.go` 190-224, 400-500, 690-707 | `node`, `nodes`, `nodeUpdate`, T's place | `TApply`, `TTakeToken`, `TLoad`, `TSent`, `StoreNode`, `RegisterExpired`, `NotifyUpdate` |
| `Host` | `StartHost`: the three above wired together | theirs | one disjunct per goroutine: `R E O T Ticks Handlers Network` |
| `MapStream` | `tsserver/server.go` `peerStore`, `handleStreaming` | the store, `peerUpdate`, each handler's place and known ids, tailscaled's map | `Apply`, `LeaveToken`, `Poll`, `Stream(i)`, `Hangup` |
| `NoiseConn` | `tsserver/server.go` `NoiseUpgradeHandler`, `Close` | `noiseActive`, `noiseConn`, each request's and each closer's place | `Upgrade(u)`, `Close(c)`, `CloseHTTP`, `CloseListener`, `TimedOut`, `PeerCloses`, `ContextEnds` |
| `Forward` | `cmd/tsok/forward.go`, `Connect` and `Close` of `internal/transport/client.go`, start and end of the control server; extends `NoiseConn` | the handler's place, arguments, listeners and accept loops, signal goroutine, tsnet, the server's start | `Handler` (`Parse`, `Connect`'s steps, `Listen`, `AwaitSignal`, `AllEnded`, the deferred functions), `Signals`, `KillListener`, `Serve`, `ControlServer` |
| `Relay` | `bicopy` and the fallback handler of `serve.go`, `listenAndForward` and `bridgeStdio` of `forward.go` | connections in a row (bytes, ends, resets), each relay's and each copy's place, the result | `Dial`, `Copy(c)` (read, write, end, half-close), `Finish`, `Bridging` (`Report`, `Hangup`, `Watch`, `Return`), `Cancel` |
| `Pipe` | what one connection promises | bytes delivered, ends seen | send, deliver, end: one step each |
| `SendOverlay` | `overlay/send.go` | `closed`/`done`, `closeFunc`, `requests`, `in`, `out`, the places of L, W, O, T, the callers and the closers | `L…`, `Close(c)`, `Watch`, `O…`, `T…`, `OpenUDP(u)`, `Call(u)` |
| `Persist` | `cmd/tsok/persist.go`, its use in `serve.go` | each run's place and identity, the state file's name and contents in memory and on disk | `Run(p)`: `Start`, the steps of load (`Lstat`, `Open`, `Read`) and save (`CreateTemp`, `Write`, `Sync`, `Rename` or `Link`, `RemoveTemp`, `SyncDir`), `End`; `WriteBack`, `PowerFails` |
| `Update` | `cmd/tsok/update.go` | each run's place and job, the executable in memory and on disk, the stamp, the clock, the releases | `Invocation(r)`: `Begin`, `CheckDue`, `Truncate`, `Record`, `Fetch`, `Verify`, `Extract`, `SyncReplacement`, `Replace`, `UpdateFails`, `Killed`; `UpdatePowerFails` |
| `Startup` | `withAutoUpdate` before the handler of `tsok serve`: extends `Persist` and `Update` | theirs | `Middleware(r)`, `Handler(r)`, one power loss for both |
| `IdentityStore` | what `README.md` ("Persistent auth keys") promises | the stored identity, who goes by which | create, adopt, rotate, print, drop, power loss: one step each |

The `MC…` modules give these modules' constants small sets; the `…Proofs`
modules hold the theorems. An action is one step between two points where
another goroutine can interfere: what happens under one mutex without a channel
operation is one step, and a channel operation under a mutex (`expirePeers`,
`trackPeer`, `removeDERPPeers`, which send on `in` while they hold `peerMu`) is
a step of its own that keeps the mutex. `PROJECT.json` gives the lines behind
every definition. Operators marked `mutant` are deliberate mistakes; each
property is shown to fail when the definition they belong to is replaced by one.

### Abstractions

- A session's node is "there or not" in `Host` (a nil node removes it) and one
  of a few contents in `MapStream`; our own node is a version number that
  `StoreNode` raises. Packets carry their type, session and key; packets that
  fail to decrypt or parse change no state and are left out.
- `lastSeen` is an age in reaper ticks, capped at `PeerTimeout` (four ticks in
  the code: 2 min at 30 s). `Tick(d)` lets several ticks' worth of time pass at
  once, since a ticker drops ticks. An age counts from the clock reading that
  the code stores, before it takes the lock, and `RemovalJustified` measures
  silence by it: a session may expire sooner after its packet was *handled*.
- Two assumptions about timing. `Prompt`: R does not take a whole
  `PeerTimeout` from reading the clock to storing it, nor to the end of the
  `OpenUDP` callback. The guard of `EDrop`: when the reaper removes a session
  whose update R still has to send, that update waits at the channel already
  (R got there within a `PeerTimeout`) and, served in order of arrival, goes
  first; R's updates of other sessions may come before or after. Without the
  second the update could bring a removed session's node back, without the
  first a session could be removed and notified while its port is being
  opened. `NoGhostPeer`, `LeaseScoped` and `GoneLeavesNoTrace`, and what is
  proved of the first two, hold under these assumptions; the stalls they
  exclude last two minutes.
- In `expirePeers` and `removeDERPPeers` the deletion of a session and the
  send of its nil update are one step: both happen under `peerMu`, and only T,
  who takes no lock, could see the difference.
- A client sends one hello, before anything else (`ListenOverlayDERP`); it may
  be lost. Any other packet may come from any key at any time, DERP may report
  any key gone at any time, and every packet may be lost. `offered` records
  that a node was handed to DERP for a session, not that it arrived.
- Cancellation of the host's context and `Host.Close` are not in `Host`;
  `acceptUDP`, which copies datagrams from a listener, is left out.
- `MapStream`: tailscaled (external) keeps what its current stream delivers.
  Sessions have different node ids. `stolen` remembers that a handler
  tailscaled had left took a token: `QuietMapIsTheStore` and
  `SoleStreamCatchesUp` except it, and `map_reconnect` shows what comes of it.
- `NoiseConn`: `http.Server.Close` reaches connections that are not hijacked;
  what it does to one that is being upgraded is that its accept fails. A
  request that has been read may still reach its handler. A connection that
  `Close` missed, because `ListenAndServe` had not stored its server yet, is
  given up by the server's timeouts (`TimedOut`).
- `Forward`: an argument is its network, its address (one of two) and two parts
  of one or two texts, a text being a number where 0 and `MaxPort + 1` stand for
  everything that `parsePort` refuses. The flag package gives the handler the
  `--tcp` values and the `--udp` values apart, so the arguments come in that
  order. Ports are natural numbers: the loop over a range counts in 32 bits, so
  there is no wrap at 65535 to see. `OrderlyEnd` says that the overlay's `Close`
  was called; what that sends is `SendOverlay`'s. Splitting at commas and colons
  is left out. `exit` is the return of the handler: the process may live on, as
  it does in the tests, and so do its goroutines. Before the signal goroutine
  runs, an interrupt kills the process, which then holds nothing; that is not a
  step. The server's own accept loop does not fail. `waitForPeer`, `WaitDirect`,
  `Up` and `OpenUDP` either succeed, fail, or take for ever, and return once the
  context has ended.
- `Relay`: TCP is external. Bytes are numbered in the order they are sent, a
  direction holds `BufferSize` of them, and `io.Copy` moves one at a time.
  Applications and services half-close in any order, and read on until they see
  the end; leaving early, a lost connection, a refused dial, a cancelled
  context and a failing standard input are faults. Streams without half-close,
  which the code treats apart, do not occur: all are TCP or, in `bridgeStdio`,
  pipes.
- `Update`: an executable's data is being written, written, on disk, or not
  what was released; an archive is or is not what was released. A release may
  report another version than its tag (`mislabelled`). Writing the stamp is
  two steps, truncating and writing, because other runs read it in between.
- `SendOverlay`: derphttp (external) may lose its connection at any time; the
  `Recv` that waits on it fails and the next `Send` or `Recv` fails or
  reconnects. Packets may be lost, late or doubled. Ping, pong and unreadable
  packets differ only in whether L answers.
- `Persist`: an identity is the name of the run that generated it; a file is
  empty, whole, or "bad", which stands for everything that load refuses (type,
  permissions, size, encoding). The file system (external) keeps what was
  synced, may keep the rest, and makes a link or a rename one step. A run that
  finds no file starts its host and saves; what else the host does is `Host`.
  A power loss in `Startup` hits the executable, the stamp and the state file
  at once.

## Runs

| Run | Instance | What it shows |
|---|---|---|
| `host_removal` | 2 sessions, 2 keys, 1 port, capacities 1, timeout 2, 1 version | types; `NoGhostPeer`, `LeaseScoped`, `ListenerIffLeased`, `NodeFanout`, and the action property `RemovalJustified` (under the timing assumptions above) |
| `host_versions` | 1 session, capacities 1, timeout 1, 3 versions, 1 expired registration | `NodeNeverLost`, and the action property `CircularWaitIsForever` |
| `host_fanout` | 1 session, `out` of 2, 2 versions, fairness | `NodeReachesEverySession` |
| `host_cleanup` | 2 sessions, 1 key, 1 port, no version change, fairness | `GoneLeavesNoTrace`, `ReaperOutlivesReceive` |
| `host_circular` | 2 sessions, capacities 1, 3 versions | violation: `NoCircularWait` |
| `map_store` | 2 sessions, 2 node ids, 2 handlers, fairness | types; `QuietMapIsTheStore`, `SoleStreamCatchesUp` |
| `map_reconnect` | 2 sessions, 3 node ids, 2 handlers | violation: `ReconnectedMapIsTheStore` |
| `forward_life` | every single argument over 3 ports and pairs of plain ones, in order, 2 forwards, 3 requests, 2 closers, fairness | types; `ForwardsAsAsked`, `OrderlyEnd`, `SignalEnds`; `OneControlConnection`, `CloseReachesConnection`, `ClosedServerLetsGo` of the server in the process |
| `send_safety` | 2 calls, capacities 1 | types; `GoodbyeOnce`, `AnswerIsOwn` |
| `send_ends` | 1 call, capacities 1, fairness | `CallsReturn`, `CloseEndsListener` |
| `persist` | 2 runs, symmetric, 2 releases, a clock of 2 ticks, period 1 | types; `OneIdentity`, `KeySurvives`, `NeverHalf`, and `StoreAtomically`: `Persist` implements `IdentityStore`; `ExecutableWhole`, `NoRestartLoop` |
| `tunnel` | 2 relays, with and without `--tcp-stdio`, a byte each way, buffers of 1, 1 fault, fairness | types; `PipePromise`: the relays implement `Pipe`; the action property `BlamesCause`; `HalfClosePassed`, `LetsGo` |

Why these bounds are enough to be interesting. Two sessions let one be removed
while the other is served, shares its listener, or stands between it and the
reaper; two keys let a session move from one to the other. A channel of
capacity 1 is the smallest that can be full, and every blocking send of the
code is reached with it; the code's 8 only needs more steps to fill. Two
versions of our node are what it takes for a newer one to overtake an older.
A timeout of 2 ticks separates "heard from in this period" from "silent for the
whole of it". Three upgrade requests let one be served, one be refused and one
follow. Two calls of `OpenUDP` are what it takes to mix up answers. Two runs
of `tsok serve` let one create the identity or update the executable and the
other lose the race, rotate, load or overwrite the stamp at every step of it; that
a third run changes nothing for the identity is what `PersistProofs` shows.
Three ports are what it takes for a range to have a first, an inner and a last
port and to end at the highest one; two forwards let the second fail while the
loop of the first runs. One byte each way tells a whole stream from a cut one
and an answer from none, a buffer of one is full with it, and one fault is each
kind of failure at each moment; two faults were checked on one relay (`N = 1`).
Deadlock is
not checked where the system may really stop: everything is closed, or the
versions and hellos that the bounds allow are used up. In `forward_life` it is.

Bounds in guards: `MaxBytes` and `MaxFaults` in `Relay`, `MaxRelease` and
`MaxTime` in `Update`, `MaxForwards` in `Forward` (a command with more is not
followed past parsing), `MaxNode` versions of our node, `MaxExpired` registrations
with an expired node key under way, one hello and one Noise request per model
value. `send_safety` does not look beyond a state in which an update is queued
behind a control loop that is sending (`MCQuietT`); `send_ends`, which has
one call, does.

### Fairness

Liveness is claimed under `HostFairSpec`, `StreamFairSpec`, `ForwardFairSpec`,
`SendFairSpec` and `RelaySpec`. A goroutine that can run does (weak fairness per
goroutine). Strong fairness is used where the Go runtime gives it: a goroutine
waiting for `peerMu` gets it although others take it in between (`sync.Mutex`
hands over to a waiter that starves), and a `select` that finds a case ready
again and again takes it at some point (the runtime chooses at random). The
reaper's ticker ticks on. Nothing is assumed of clients, DERP, tailscaled,
contexts or changes of our node. In `Forward` a step that may block (coming up,
finding the peer, opening a port, relaying standard input) is only taken for
granted once the context has ended, as the code's `select`s make it, and nobody
has to interrupt. `RelaySpec` needs just one weak condition, that while some
goroutine or end can run one of them does, which is less than a scheduler gives;
ends of connections read on and close when they have seen the end. In
`host_fanout` and `host_cleanup` the instance keeps the circular wait of
`host_circular` out: `out` has room for every version, or there is none; with it
neither property holds.

### Findings

- `host_circular`: `expirePeers`, `trackPeer` and `removeDERPPeers` send on the
  bounded `in` under `peerMu`; T, its only reader, can be blocked on a full
  `out`, whose only reader O waits for `peerMu`. `README.md:144-146` promises
  independent sessions without a connection limit; the run reaches the wait,
  and `host_versions` (and the theorem `CircularWaitStays`) show that nothing ever
  leaves it.
- `map_reconnect`: all handlers share the one-slot `peerUpdate`, and a handler
  that tailscaled has left may take the token of a change that the new handler
  has not seen. `upstream_integration_test.go:141` expects a reconnected client
  to have only the active peers.

Also visible in the models, without a document that says otherwise: a client
whose sender goroutine has ended on an error can go on receiving over a new
connection and is then expired by the host; a run of `tsok serve` that loads an
identity just linked by another, which has not yet synced the directory, prints
a key that a power loss can take back; after `Close` the client's receive
loop can stay blocked on `in` for ever (`Abandoned`, the exception in
`CloseEndsListener`); two commands started at once may both find the update
check due, and the one that fetched the older release may replace the executable
last; a listener of `tsok forward` whose accept loop has died stays open until
the interrupt, although the command prints `Killing listener`
(`KillListener`); a stream that a relay's failed copy cut short ends in order
on the next hop (`Copy`), so an application cannot tell it from a whole one; a
control connection that `Close` missed, because `ListenAndServe` had not stored
its server yet, lives until the server's timeouts (`TimedOut`).

## Proofs

Each theorem holds for every value of the constants that the named `ASSUME`s
allow: capacities and timeout positive (`OverlayAssumption`,
`SendAssumption`), model values that stand for "none" outside the sets they
complete, bounds natural numbers (`ControlAssumption`, `ForwardAssumption`,
`RelayAssumption`, `UpdateAssumption`, `StartupAssumption`).
Nothing else is assumed; sets of sessions, calls, requests or runs need not be
finite.

- **`HostProofs`**: `HostInvariant` proves `HostInv` inductive. `NoGhostPeer`,
  `LeaseScoped` and `NodeFanout` are not inductive alone: a removal's
  justification must survive until the step that uses it (`RemovalInv`), who
  holds `peerMu` must be known from the goroutines' places (`MutexInv`), a
  session must stay registered while R does for it what must not outlive it
  (`ServedInv`, which is where `Prompt` and the guard of `EDrop` are needed),
  and versions must travel in order through T, `out`, O and `lastNode`
  (`VersionInv`). From it follow `TypeCorrect`, `NoGhosts`, `Leases`,
  `Listeners`, `Fanout`, `NeverLost`, and the action properties `Removals` and
  `CircularWaitStays`.
- **`MapStreamProofs`**: `StreamTypes` and `QuietMap`. The invariant `StreamInv`
  speaks of the map tailscaled *will* have once the current handler has written
  what it holds (`Promised`), and says that its ids are among those the handler
  knows: that is what makes `PeersRemoved` complete.
- **`NoiseConnProofs`**: `OneConnection` and `CloseReaches` from `NoiseInv`,
  which ties `noiseActive` to the one request past the compare-and-swap.
- **`ForwardProofs`**: `RunsControlServer`: the server that `tsok forward`
  starts in its own process behaves as `NoiseConn` says, so `OneConnectionHere`
  and `CloseReachesHere` carry over (`ProcessStep`: each step of the command is
  a step of the server or leaves it alone; `ServerInvariant`). `EndsInOrder`
  proves `OrderlyEnd`, whichever step fails and whenever the interrupt comes. It
  needs what the handler has made, and undone, at each of its places
  (`CommandInv`). `ForwardTypes`, the type invariant, says that only forwards
  asked for are listened to; it needs that those open so far are the first ones
  (`Opened`), since `Listen` takes the number after theirs. `AsksAreForwarded`
  proves `ForwardsAsAsked` for every highest port: the ports of a part are an
  interval in their order (`PortsParsed`), a well-formed argument gives exactly
  the pairs it asks for and no local port twice, any other none
  (`ArgumentAsAsked`), and over two arguments a local port comes twice just when
  they ask for the same one (`TwoAsked`). The recursion of `FlattenSeq` is
  unfolded for the command lines there are, of up to two arguments.
- **`RelayProofs`**: for any number of relays, bytes, buffer sizes and faults.
  `RelayTypes` needs to know what a copy holds at each of its places
  (`PlaceInv`). `NamesTheCause` proves `BlamesCause`, about the step that
  reports: `bridgeStdio` hangs up only once its context has ended or standard
  input has failed, and closes standard output only when it returns, so until
  then its other copy fails for one of these, which it names, or because the
  answer's connection or standard output was reset (`BridgeInv`). `KeepsPromise`
  is the refinement of `Pipe`. Its invariant `RelayInv` sees a direction as a
  row of stages (sender, channel, a copy's hand, channel, ..., receiver) on
  which bytes are placed: nearer the receiver is sent earlier, and a byte is
  ahead of all that were sent after it, unless bytes can no longer come from
  where it is missing (`OrderInv`). `Health` says why, as long as nothing
  failed, no copy stops before its source has ended and been read out: relays
  stay up until both of their copies are done, and an end is passed on only
  behind the last byte (`Standing`, `Drains`, `EndsPassed`, `ReadOut`, `Whole`).
  A step then is one of `Pipe`'s: the far end's read delivers the next byte or
  sees the end, a fault breaks directions, and the relays' own steps stutter.
- **`StartupProofs`**: `HandlersPersist` and `MiddlewareUpdates` prove that the
  composition behaves as `Persist` and as `Update` say, so what is proved of each
  holds in it (`IdentityAfterUpdate`). `UpdateTypes` and `ExecutableStaysWhole`:
  what is about to be renamed over the executable was verified, extracted and
  synced, at each place of each run, and a released tag stays released
  (`UpdateInv`). `NoLoop` is an action property: a run that starts over carries the
  time it recorded, and only other runs can have overwritten the stamp since.
- **`SendOverlayProofs`**: `SendTypes`, `OneGoodbye` and `OwnAnswer`. For the
  first, at most one of L and the closers is about to run the close function,
  and once L is past `setCloseFunc` whoever sets `closed` runs it
  (`OneRun`, `NobodyForgets`). For the second, a request is in one place at a
  time and undecided until it was sent (`OneRequest`).
- **`PersistProofs`**: `PersistTypes`, `SameIdentity`, `PrintedKeySurvives`,
  `StoredWhole` and `OneStepStore`, the refinement of `IdentityStore`.
  `PersistInv` adds that a run's own file has no name before it is whole and
  synced, and that a printed identity is the named one both in memory and on
  disk; `HoldsStored`, that until a rotation every identity in use is the stored
  one. Under the refinement `Open` adopts, `Link` creates, `Rename` replaces,
  `SyncDir` prints, and a run that ends or finds a bad file drops; all else
  stutters. `IdentityStore`'s `PowerLoss` keeps printed identities, so the
  refinement carries durability too. It holds for any set of runs, where TLC has
  two.

Each inductive invariant was checked by TLC on small instances as well
(`RelayInv` also with two bytes and buffers of two). Only model-checked:

- everything under fairness, since leads-to from weak and strong fairness needs
  `ENABLED`, which the prover does not handle:
  `NodeReachesEverySession`, `GoneLeavesNoTrace`, `ReaperOutlivesReceive`,
  `SoleStreamCatchesUp`, `ClosedServerLetsGo`, `SignalEnds`, `CallsReturn`,
  `CloseEndsListener`, `HalfClosePassed`, `LetsGo`;
- the two counterexamples.

Every invariant, action property and refinement without fairness that a run
checks is proved.

## Not modelled

- Host transport: `Host.Close` and the accept loop of a leased listener, so
  neither an `Accept` that fails and leaves its entry in `udpPorts`, nor an open
  that comes after the sweep of `Close`; the copying of datagrams
  (`copyDatagrams`) and of accepted connections behind a UDP listener.
- Control server: registration and key handling beyond what changes `node`; the
  contents of a map response other than peers.
- Serve command: the UDP handler, the upload handler, the configuration output.
- Peer path tracker: it only reports, and one goroutine owns its state.
- Single SSH session: its slot is one flag set under a lock; what is hard about it,
  a process that outlives its session, is decided by `os/exec` and the SSH
  library, and a model of it would be a model of them.
- The auth key's format, encryption, JSON, the DERP netcheck: formatting and
  libraries.
- The SSH client, `shell`, `cp`, terminals, output, the command line beyond the
  arguments of `tsok forward`, release scripts: straight-line use of libraries, or
  wording.

## Plan

In order of what matters most to a user of tsok:

1. *(done)* `Host` and its components, `MapStream`, `NoiseConn`, `SendOverlay`,
   `Persist` with its refinement of `IdentityStore`, and their proofs.
2. *(done)* `Update`, composed with `Persist` in `Startup`; `Relay` with its
   refinement of `Pipe`; `Forward`, the command around a `NoiseConn`, with
   `ForwardProofs`.
3. *(done)* Theorems about everything a run checks without fairness:
   `StartupProofs`, `RelayProofs`, and the parsing of `Forward`.
4. `UDPLease` completed with the accept loop and `Host.Close`.
5. `Session`: one `SendOverlay` client and the host's registry over a lossy,
   reordering DERP, against an abstract `Rendezvous` (a session is joined or not;
   each side holds some version of the other's node). It is where the last node a
   client holds can be older than the newest offered.
