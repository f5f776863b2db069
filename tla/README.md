# nl-punch: TLA+ models, model checking and proofs

nl-punch joins two machines behind NAT. A peer, `cmd/nl-punch`, meets the other
one through a small HTTP signaling server, punches a UDP path with ICE, runs
QUIC over it and forwards named TCP ports through QUIC streams. This directory
holds TLA+ models of its core, the TLC runs that check them on small instances
and TLAPS proofs of the most important safety properties. Everything is
translated from the Go source; the line numbers are in `PROJECT.json` ("map").

## 1. Inventory

| Part | State | Operations | Interacts with |
|---|---|---|---|
| Signaling server (`internal/signaling/server.go`) | `offers` by session and role, `answers` by session, under one mutex, in memory | POST and GET of `/offer` and `/answer`; a POST of an offer deletes the session's answer; `Clear`, which nothing calls | HTTP requests of both peers |
| Signaling client (`client.go`) | none (10 s per request) | `PostOffer`, `PostAnswer`, `AwaitOffer`, `AwaitAnswerMatching` | called by `Connect` |
| ICE agent (`internal/ice/ice.go`) | one pion agent per attempt, its credentials and nonce | `Connect`: gather, exchange, install, check | client, pion |
| Reconnect loop (`cmd/nl-punch/main.go`) | backoff | `runReconnectLoop`, `runOnce` (120 s for ICE; deferred closes) | everything below |
| Transport session (`internal/transport/transport.go`) | four QUIC connections, `acceptCh`, `closed` | `Serve`, `Dial`, `acceptLoop`, `OpenStream`, `AcceptStream`, `Wait`, `Close` | forwarder; quic-go |
| Packet buffer (`transport.go`) | a queue of 4096 datagrams | `drain`, `ReadFrom` | quic-go, ICE |
| TCP listener (`internal/forward/forward.go`) | listeners, one goroutine per client | `Start`, `acceptLoop`, `handle`, `Close` | session, pump |
| Accept router (`forward.go`) | `groups` of stripes by session id, one goroutine per stream | `Run`, `handle`, `Close` | session, local services, pump |
| Striped pump (`forward.go`) | per end: dispatcher, N writers, N readers, channel `in`, reorder buffer | `writeStripes`, `readStripesToTCP`, `closeAll` | TCP connection and N streams |
| Header codec (`forward.go`) | none | encode and decode | listener and router |
| Configuration (`internal/config`) | the file, the dial map `runOnce` makes of it | load, default, validate | `main`, listener, router |
| Benchmark (`cmd/nl-punch-bench`) | per test: pings, samples, errors; per connection: a server goroutine | five tests, four server modes, `stats` | a forwarded connection |
| Signaling command (`cmd/nl-punch-signaling`) | none | starts the server | |

What is hard here, and hardly reached by a test: stale offers and answers left
on a server nobody clears, POSTs that arrive after their client gave up, two
reconnect loops out of step, restarts of any of the three processes, chunks of
one TCP connection racing over several streams, end-of-file markers racing data,
flow control and a bounded channel filling up while somebody closes, goroutines
that wait for a goroutine that has returned, and a session that dies between any
two steps. `PROJECT.json` lists these as "hazards", each at its line, with the
property that would catch it.

What makes each part correct:

* the rendezvous never pairs mismatched attempts, never mixes sessions and
  converges;
* `Serve` and `Dial` get a session at both ends or at neither, through losses and
  full queues, and leave no reader behind;
* a session's goroutines never send on the closed channel; a turn of `runOnce`
  ends when one of its connections dies, releases everything and leaves no
  goroutine, whichever stage failed;
* the router dials once per connection, with all its stripes and to the port the
  configuration says, and every client is connected to a service or disconnected;
* the pump delivers a prefix in order, its markers mean that everything was
  delivered, a close or a dead session reaches both applications and nothing else
  closes a connection;
* the benchmark's records say what was measured.

## 2. Modules

| Module | What it is |
|---|---|
| `SignalingServer` | the server's two maps and its handlers; each handler is atomic because of the mutex |
| `Rendezvous` | EXTENDS `SignalingServer`: two peers per session running the reconnect loop around `Connect`, over a network that delays, reorders and loses POSTs and replies |
| `RendezvousLive` | EXTENDS `Rendezvous`: the timers of the two reconnect loops, disturbances that stop, and the jitter, for convergence |
| `PacketBuffer` | `bufferedPacketConn` at both ends of the ICE path |
| `TransportSetup` | EXTENDS `PacketBuffer`: `Serve` and `Dial` against each other, from the found path to the end of the session |
| `TransportSession` | one peer's turn of `runOnce` with the goroutines of `transport.Session` |
| `Config` | `validate` and the dial map, as operators |
| `StreamRouter` | EXTENDS `Config`: `TCPListener.handle` and `AcceptRouter` for several connections over one session |
| `ForwardedConnection` | abstract: what forwarding promises to two applications |
| `StripedPump` | both ends of one forwarded TCP connection; implements `ForwardedConnection` |
| `Bench` | `nl-punch-bench`, client and server, over what `ForwardedConnection` promises |
| `RendezvousProofs`, `TransportSetupProofs`, `TransportSessionProofs`, `StreamRouterProofs`, `BenchProofs` | the theorems about the module each is named after |
| `StripedPumpProofs`, `StripedPumpRefinement`, `StripedPumpMarkers` | the theorems about the pump, each module extending the one before: delivery in order, the refinement of `ForwardedConnection`, what the markers mean |
| `MC*` | instances for TLC |

Operators whose comment begins with "Mutant:" are deliberately wrong variants of
the definition that follows them. Putting one in place of the right one makes
the property `PROJECT.json` names fail; nothing in a specification uses them.

### SignalingServer and Rendezvous

An attempt is one pion agent. Its number stands for everything fresh about it:
ufrag, password, candidates and, on peer-a, the nonce `Gen`. An offer is the
pair `[cred, gen]`; `NoOffer` is a missing map entry and the 404 reply.

`pc` follows `Connect`: `gathering` (NewAgent to the end of gathering),
`posting` (PostOffer, or PostAnswer on peer-b), `polling` (AwaitAnswerMatching,
or AwaitOffer), `checking` (Dial or Accept), then `connected` (the rest of
runOnce) and `backoff`. `remote[a]` is the attempt whose credentials agent `a`
was given. `open` holds the agents nobody has closed. `net` holds the POSTs
under way, and keeps them when their client gives up; `acks` holds the replies.
A GET is one step: it changes nothing on the server, and what was read shows
only in the peer's next POST, which may be delayed for as long as one likes.

Connectivity checks are pion's. They are modelled by what their authentication
guarantees: a pair is selected only between two open agents that were given each
other's credentials (`Mutual`, `CanPair`).

Failures are actions: a lost POST, any of the error paths of `Connect`
(`FailExchange` closes the agent; `FailChecks`, as in the code, does not), the
end of a session, the death of a peer's process, a restart of the server.

### RendezvousLive

Whether the two loops find each other again is a question of time: peer-b that
starts while peer-a waits reads the offer of an attempt that is over and sits out
its own 120 s on it; peer-b that starts late in peer-a's attempt answers an offer
about to be abandoned. So `RendezvousLive` has a clock. Until `Settle` anything may
happen, in any order and at any moment. From then on attempts and waits end by
their timers (`Expire`), and `Tick` lets a unit of 24 s pass: an attempt has 5
units (120 s), a wait at the cap 2 or 3 (48 s to 72 s), `Serve` 3 (60 s), and a
handshake nobody answers, which quic-go gives up within 10 s, at most 1. What an
attempt does by itself (10 s for gathering and for each request, 2 s between two
polls) may take up to one unit in all, at any of its steps (`slow`). Two loops
that just miss each other, an agent left open by `FailChecks` that still pairs
with peer-b, and sessions with one end are all there.

`Settle` comes at a moment when peer-a waits for its next attempt, nothing is on
its way and peer-b holds no dead session, with any part of both timers left. Every
run comes to such a moment after the last disturbance: attempts end after 120 s, a
dead session after at most 5 minutes, POSTs are seconds on their way, and if peer-a
never waits again its session lasts. The attempts until then, those with a backoff
below its cap too, are made before `Settle`. After it attempts are not bounded:
numbers to which nothing refers are used again (`Restart`, `Reuse`).

### TransportSetup and PacketBuffer

`stage` of an end is `setup` (in `Serve` or `Dial`), `up` (the session is with
`runOnce`) or `over`. `conn` holds the state of each QUIC connection at each end;
`backlog` is the listener's queue. quic-go is external: a handshake of three
flights, after the second of which the client has the connection and after the
third the server. `sent` is the set of datagrams ever sent, and any of them may
arrive at any time, again, or never; one that finds the queue full is dropped.
Flights are retransmitted until they have been acted upon, a CONNECTION_CLOSE is
sent once. `Accept` may return a connection that has been lost meanwhile, as in
the code. Either end may time out at any moment, get a signal or crash.

### TransportSession

`phase` follows `runOnce`: `ice`, `transport`, `listen`, `serve`, and then the
deferred closes in their order, `closeRouter`, `closeListeners`, `closeSession`,
`awaitLoops` (inside `Session.Close`), `closeIce`. Each stage may fail and goes
to the close that is deferred by then. The processes are `runOnce`, one
`acceptLoop` per connection, `AcceptRouter.Run`, Close's draining goroutine and,
per call of `Wait`, one goroutine per connection and one that waits for the first
of them. `LoopFails` reads `closed` and `LoopReports` sends, in two steps, as in
the code: `Close` may come in between.

### StripedPump and ForwardedConnection

A chunk is one `Read` of the TCP connection and its payload is that Read's
number. Every goroutine is a process: the dispatcher (`disp`), N writers (`wr`),
N readers (`rdr`), the collecting loop (`col`), at both ends. The streams are
bounded queues (`Window` stands for QUIC flow control) whose sending direction
can be closed, as quic-go's `Stream.Close` does: it does not stop the receiving
direction, and a write under way when the stream is closed still goes out.
`in` has the code's bounded capacity. Sequence numbers are taken modulo
`SeqMod`, 2^32 in the code. `app` is what the application has closed, `rst` that
its closed connection was written to, `tcpClosed` that closeAll closed it.

The collecting loop puts the awaited chunk into the reorder buffer and takes it
out again at once; the code writes it directly. The two cannot be told apart: the
loop drains the buffer before it takes another chunk.

A behaviour follows one of the instance's `Plans`, chosen at the start: how many
chunks each application has to send and whether the session may die. The plan
only bounds the behaviour.

`ForwardedConnection` is a pipe in each direction without stripes, sequence
numbers or goroutines. The refinement mapping (`Abs` in `StripedPump`): a chunk
counts as sent when the dispatcher has read it, as delivered when it has been
written to the TCP connection, a side as closed when `closeAll` has closed its
connection, and there is a reason to hang up (`Over`) once an application has
ended its sending or closed, or an end's session is dead. The abstract
specification has no fairness: what must happen is said of the pump itself, in
`HangUpReachesBothEnds`.

### StreamRouter and Config

A connection stands for its random session id. `lh` follows
`TCPListener.handle`, `rh` `AcceptRouter.handle` of each stream, `group` and
`ready` the stripe group, `from` the listen entry by which a client came and
`port` what was dialed for it. A behaviour has a `setup`: the number of stripes
of the build, the clients, and the two peers' files, which need not be equal. A
file that `Valid` refuses gives no behaviour, as `main` exits. `dials` is the
map `runOnce` makes of the accepting peer's file.

The pumps are reduced to when they close their connection and streams, which is
what `HangUpReachesBothEnds` says of `StripedPump`. They are not said to return:
they need not (see `PumpReturns` below).

### Bench

The client's five tests share their steps: `dial`, `mode`, then `beat` and
`await` (a ping and its reply, in latency and idle), `bulk` (throughput), `await`
(fresh-stream), `tick` (idle), `emit`. `srv` is the server's goroutine of each
connection. A sample records which ping was waited for and which one the reply
answers; the code does not look at the bytes. Measured times are chosen freely
from a small set. `over` says that the tunnel is closing a connection: then every
operation on it may fail and in the end does.

## 3. Runs

| Run | Bounds | Checks |
|---|---|---|
| `rendezvous` | 2 sessions, 4 attempts in all, symmetric in the sessions | `TypeOK`, `PairingSafe`, `SessionIsolation` |
| `rendezvous_convergence` | 1 session, 3 attempts before `Settle` and any number after it, 2 POSTs at a time | `Convergence` |
| `transport_setup` | 2 connections, a queue of 1 | `TypeOK`, `ServedWasDialed`, `SetupResolves`, `NoHalfSession`, `ReadersEnd` |
| `session` | 2 connections, `acceptCh` of 1, 2 ports, 2 streams, 1 tick | `TypeOK`, `NoSendOnClosedChannel`, `NothingHeldInBackoff`, `TurnEnds`, `NoGoroutineLeft` |
| `router` | 3 stripes with 2 clients; 1 stripe with up to 2 clients and equal, differing, refused and over-long configurations | `TypeOK`, `OneCompleteDial`, `ConfiguredService`, `DeathCutsAll`, `ClientsResolved` |
| `pump` | 2 stripes, 3 chunks one way, window 1, `in` of 2 | `TypeOK`, `InOrder`, `MarkersMeanAll`, `Promise` |
| `pump_live` | 1 stripe, 2 sequence numbers, window 1, `in` of 1; 5 chunks, or 2 with a session that may die | `InOrder`, `MarkersMeanAll`, `HangUpReachesBothEnds` |
| `bench` | 3 pings, 3 opens, 4 beats, a tunnel of 1 message, 2 times | `TypeOK`, `OwnEcho`, `HonestRecord`, `QuantilesOrdered`, `BenchEnds` |
| `rendezvous_stale` | 1 session, 4 attempts | `OnlyFreshAnswers` is violated |
| `rendezvous_leak` | 1 session, 4 attempts | `OneAgentPerPeer` is violated |
| `pump_returns` | 1 stripe, 5 chunks, window 1, `in` of 1 | `PumpReturns` is violated |
| `pump_half_close` | 1 stripe, 2 chunks | `HalfCloseKeepsReply` is violated |

Why the bounds are enough to be interesting.

* Rendezvous: four attempts let a session have two attempts of each peer, or
  three of one, so a stale offer and a stale answer can coexist with a fresh one.
  For `Convergence`, three attempts with any disturbances leave every kind of
  stale offer, answer and agent behind, for every value of the timers; a run with
  four was made once and passes too. After `Settle` seven numbers are enough: if one
  were ever missing, `Restart` would be stuck and `Convergence` violated.
* Setup and session: with two connections, one can be lost while the other is
  still being made, or be the one that reports while the other blocks. With an
  `acceptCh` of one and two streams, a loop blocks, and an error is dropped.
  A queue of one drops a datagram whenever two are under way. One tick is two
  calls of `Wait`, and every further one starts the same goroutines again.
* Router: three stripes let two siblings wait for a third. Two clients have
  groups at the same time.
* Pump: two stripes with three chunks reorder in every way the dispatcher allows.
  With five chunks, a window of one and `in` of one, every buffer between the two
  applications is full while the last chunk is still with the dispatcher, and with
  two sequence numbers they wrap around twice on the way.
* Bench: three samples from two times give every order; four beats are enough
  for a late echo to meet the next beat.

The behaviours end where the bounds are used up or all has been closed, so
deadlock is checked only where a peer can always crash and restart
(`rendezvous`); the liveness properties say which ends are the wrong ones.

### Disagreements with the documentation

* `rendezvous_stale`. `types.go` says the nonce keeps a stale answer of a
  previous attempt from being consumed. It binds the answer to peer-a's attempt
  only. peer-b's PostAnswer may time out and still reach the server; peer-a then
  takes the answer of an agent that is already closed and runs its checks until
  its 120 s are over.
* `rendezvous_leak`. `Connect` closes its agent on every error path but the last:
  when `Dial` or `Accept` fails, the agent stays open and nothing refers to it.
* `pump_returns`. Writers return at their first failed write, but the dispatcher
  goes on sending on the unbuffered channel. If it has read another chunk, it
  waits for ever and `pumpStriped` never returns.
* `pump_half_close`. The sink mode of nl-punch-bench half-closes and waits for a
  byte count, says its header comment. Through the tunnel a half-close closes both
  directions. (The client of that file closes without reading the count and so
  does not notice.)

More of them without a run of their own:

* `Clear` is documented as "Called by the active peer after a successful ICE
  handshake", and is never called.
* With more than one stripe `ClientsResolved` does not hold: if the header of one
  stripe does not come within 15 s, that stream is dropped, its siblings wait on
  `g.ready` without a timeout, and the client hangs until the session ends. The
  build has `numStripes = 1`, for which the property is checked.
* The comment on `Dial` and one in `Serve` say that the connections are dialed
  concurrently; they are dialed one after the other, as a comment further down
  explains.
* The package comment of `forward.go` says that with `numStripes=1` a stream
  carries raw bytes; the pump frames chunks for any number of stripes.
* The README allows each peer a file with its own half only; `validate` asks for
  both `peer-a` and `peer-b`.
* A name of more than 255 bytes passes `validate` and makes every client of its
  listener fail.
* The backoff's jitter is added after the cap, so a wait may be 72 s, not 60 s,
  and the backoff is never reset after a long session.
* throughput-down reports a transfer that was cut off and ended in EOF as a result.

## 4. Fairness

* `RendezvousLive`: weak fairness of each peer's steps, of its timers, of the
  server and of time. `Convergence` speaks of runs in which the disturbances stop;
  nobody converges while being disturbed. No order between the timeouts of the two
  peers is assumed, and none holds: without jitter the loops can miss each other
  for ever, which is what the mutant of `Convergence` shows. What breaks the chase
  is random, and TLA+ has no probabilities. So `Wait` fixes the draws after
  `Settle` to ones that help: peer-a draws short waits, and peer-b long ones unless
  another one makes it start two units after peer-a. Everything else may go
  as badly as it can. Under these draws the peers always meet, and as the graph of states is
  finite they do so within a bounded number of draws. Each draw is one that
  `rand.Float64` makes with a positive probability, whatever went before, so that
  many in a row come sooner or later with probability 1, and the draws before them
  belong to the time before `Settle`. That last step is an argument about the code,
  not a result of the run. The run also needs that a QUIC handshake without an
  answer fails within a unit: if peer-b's one-ended sessions could last any time up
  to `Dial`'s own 120 s, their ends could undo every draw.
* `TransportSetup`: weak fairness per goroutine. Flights that are retransmitted
  arrive in the end and do not find the queue full every time (strong fairness
  per connection, since arriving is possible only now and then). The deadline of
  an end that is left alone passes, and so does the idle timeout of a connection
  whose other end is gone. Deadlines are not assumed to pass otherwise.
* `TransportSession`: weak fairness per goroutine. The stages of `runOnce` have
  timeouts, so each ends, well or badly. Ticks, signals, streams and the death of
  a connection need not come.
* `StripedPump`: weak fairness per goroutine, and an end whose peer's session is
  gone notices (CONNECTION_CLOSE or the idle timeout). The applications need not
  close or send, but what the pump writes they read, or else they close: `dst.Write`
  (forward.go:626) has no deadline, and an application that does neither keeps
  the pump.
* `StreamRouter`: weak fairness per goroutine. The 15 s header deadline and the
  5 s dial timeout make their steps certain to end. Clients and services need not
  close and the session need not die, but as in `StripedPump` clients and services
  read or close. A stream can always be opened while the session is up:
  that `OpenStreamSync` waits, without a timeout, while 1024 streams
  (`MaxIncomingStreams`) are open is outside the model, and `ClientsResolved` says
  nothing of it.
* `Bench`: weak fairness per goroutine; the time of a flood and the deadlines of
  throughput tests come to an end. The tunnel need not fail.

## 5. Proofs

All leaves are checked by TLAPS (SMT, Zenon and LS4); no assumption is made
beyond those on the constants.

* `RendezvousProofs`, from `MaxAttempts \in Nat`, for any set of sessions:
  `TypeCorrect`, `PairingIsSafe`, `SessionsAreIsolated`. `PairingSafe` relates
  two agents and is not inductive, because the answer that connects them passes
  through peer-b's memory, the network and the server. The invariant `IInv`
  follows it: attempt numbers are used once and belong to one peer
  (`AttemptInv`); an agent has no remote credentials before its checks
  (`FreshInv`); every offer, stored, in flight or being answered, is one that
  peer-a made and its nonce is its agent's (`OfferInv`); every answer, stored, in
  flight or consumed (`Claimed`), is by an agent that was given that offer's
  credentials or will be if it is given any (`AnswerInv`); and peer-b is only
  given credentials of peer-a's attempts (`AnsweredInv`).
* `TransportSessionProofs`, from `SessionAssumption`, for any number of
  connections, ports, streams and ticks and any capacity: `SessionTypeCorrect`,
  `ChannelClosedLast`, `TurnReleasesAll`. The invariant `SessionInv` adds that a
  closed `acceptCh` means that the turn is in its last phases and every loop is
  done (`ChannelInv`; a loop that is done never starts again), and what `runOnce`
  holds in each phase (`HeldInv`), since a property of the last phase says nothing
  of the ones before it.
* `TransportSetupProofs`, from `SetupAssumption` and `BufferAssumption`, any number
  of connections and queues of any capacity: `SetupTypeCorrect`, `ServedIsDialed`. `Serve` sees
  only its own end, so `SetupInv` follows the flights that tell it of the other:
  the last flight of a connection is sent by a `Dial` that has it (`FlightsInv`),
  a queue holds only what was sent to its end (`QueueInv`), so what is in the
  backlog or accepted is a connection `Dial` has, and `Serve` returns with all of
  them (`ListenerInv`).
* `StreamRouterProofs`, for any setups, so any number of stripes and connections
  and any files: `DialsOnce`, `RouterTypeCorrect`, `ReachesConfigured`. The
  invariant `GroupInv` says of each connection either that its group is gathering
  (no owner, members wait, dropped streams are no members) or that it is complete
  (nobody is still to come, one owner at most, its streams open). `Complete` then
  makes the step from one to the other: if all stripes are members, none was
  dropped. For the port, `ServiceInv` adds that the dial map is that of a valid
  file (`SetupInv`) and that a connection keeps the listener it came in by and is
  dialed for by that listener's tag (`ListenInv`). `OneEntry` says why `validate`
  is needed: names that occur once make the overwriting of map entries harmless.
* `BenchProofs`, from `BenchAssumption`, for any number of pings, opens and beats
  and any tunnel: `BenchTypeCorrect`, `EchoesAreOwn`, `RecordsAreHonest`,
  `RecordsAreOrdered`. `BenchInv` says where each ping and open is: an open is
  under way, a sample or an error (`OpensInv`), every beat before the one under
  way is a sample (`BeatsInv`), the first message of a connection is its mode
  (`ModeInv`), and between two beats the tunnel holds no ping, during one just
  that ping or its echo (`FlowInv`), which is why the client need not compare.
  `RecordsAreOrdered` needs that every list can be sorted. That is proved without
  induction over lists: of all permutations take one with the fewest inversions;
  if it had any, two neighbours would be inverted, and swapping them would leave
  one fewer.
* `StripedPumpProofs`, `StripedPumpRefinement`, `StripedPumpMarkers`, from
  `PumpAssumption`, for any buffer sizes: `PumpTypeCorrect` and, under each of two
  hypotheses, `InOrder`, `Promise` and `MarkersMeanAll`.

  | | any number of stripes, fewer chunks than sequence numbers (`FewChunks`: 2^32 chunks, up to 256 TiB) | one stripe, as in the build, any number of chunks |
  |---|---|---|
  | `InOrder` | `DeliveryInOrder` | `OneStripeInOrder` |
  | `Promise` | `PumpImplements` | `OneStripeImplements` |
  | `MarkersMeanAll` | `MarkersComplete` | `OneStripeComplete` |

  Under `FewChunks` a number names its chunk: `PumpInv` says that every chunk on
  its way carries the number of its payload (`SendInv`, `CarryInv`) and that the
  awaited number is the count of the payloads written (`WrittenInv`). With one
  stripe numbers repeat after a wrap-around, and what matters is that dispatcher,
  writer, stream, reader and `in` form one queue: `FifoInv` says that what is in
  it are the payloads after those written, one after the other.

  For the refinement, `BoundInv` says that nothing is under way that was not read,
  and `QuietInv` that as long as no application has ended or closed and no session
  died, no goroutine is on its way to `closeAll`: no error, no marker, no end
  counted. So every close of the pump is one `ForwardedConnection` allows, and
  every write is of the next chunk (`Due`).

  For the markers, `EndInv` follows three things. A marker is sent when all
  writers are done and none has failed, and is the last of its stripe
  (`WriterInv`, `MarkInv`). A chunk that was read is in one of the places a chunk
  can be, a writer, a stream, a reader, `in` or the reorder buffer, or is written,
  unless a writer failed (`PlacedInv`). The ends counted and those still in `in`
  are as many as readers have returned (`CountInv`). When every stripe was ended
  by a marker, the first empties writers and streams, the last empties readers and
  `in`, and a chunk left in the reorder buffer would have had its turn (`LoopInv`):
  all is written.

Only model-checked: liveness (`Convergence`, `SetupResolves`, `NoHalfSession`,
`ReadersEnd`, `TurnEnds`, `NoGoroutineLeft`, `DeathCutsAll`, `ClientsResolved`,
`HangUpReachesBothEnds`, `BenchEnds`), which is beyond the prover. Every invariant
the runs check and the refinement are proved. Not covered by a proof or a run is
a connection of several stripes and more chunks than there are sequence numbers.

## 6. Not modelled, and the plan

Not modelled: the contents of candidates, JSON, the shared secret and TLS; the
byte layout of headers and chunks; pion and quic-go beyond what is said above;
parsing of files, flags and environment; the growth of the backoff to its cap; byte counters,
rates and logging; `Clear`, which nothing calls; the signaling command, which only
starts the server.

Left of the plan is one proof: delivery in order across the wrap-around for
several stripes. It needs a bound on the chunks in flight, which the reorder
buffer does not have: one stripe may be held up while the others go on.

## 7. Running

    tlc -workers 2 -config MCRendezvous.cfg MCRendezvous
    tlapm RendezvousProofs.tla

and likewise for the other configurations and the other modules of proofs.
`PROJECT.json` says which configuration belongs to which module.
