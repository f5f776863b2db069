-------------------------- MODULE TransportSession --------------------------
(***************************************************************************)
(* One turn of a peer's reconnect loop: runOnce brings up the ICE          *)
(* connection, the transport session, the TCP listeners and the router,    *)
(* waits for the end and closes it all in reverse order (its defers).  In  *)
(* between run the goroutines of transport.Session: one acceptLoop per     *)
(* QUIC connection, which feed the bounded channel acceptCh;               *)
(* AcceptRouter.Run, which takes from it; those every call of Wait starts; *)
(* and the one with which Close drains acceptCh.                           *)
(*                                                                         *)
(* A QUIC connection (external) is up until either side closes it or it    *)
(* times out; its AcceptStream then fails and its context is done.         *)
(* Whether Serve and Dial agree is TransportSetup's business, and what     *)
(* becomes of an accepted stream StreamRouter's.                           *)
(***************************************************************************)
EXTENDS Naturals, Sequences

CONSTANTS
    NumSubconns,   \* numSubconns
    AcceptCap,     \* capacity of acceptCh, 64 in the code
    NumPorts,      \* the peer's listen entries
    MaxStreams,    \* bound: streams the other peer opens
    MaxTicks       \* bound: ticks of the 30 s statistics ticker

Subconns == 0..(NumSubconns - 1)
Turns == 0..MaxTicks

ASSUME SessionAssumption ==
    /\ NumSubconns \in Nat \ {0} /\ AcceptCap \in Nat \ {0}
    /\ NumPorts \in Nat /\ MaxStreams \in Nat /\ MaxTicks \in Nat

VARIABLES
    phase,     \* where runOnce is
    signal,    \* its context is cancelled
    ice,       \* the ICE connection
    bound,     \* how many of the listen entries have a TCP listener
    conn,      \* the QUIC connections
    inbound,   \* streams opened by the other peer, not yet accepted
    opened,    \* how many it has opened
    next,      \* Session.next, modulo the number of connections
    closed,    \* Session.closed
    loop,      \* the acceptLoops
    acceptCh, chClosed,
    drainer,   \* Close's goroutine ranges over acceptCh
    run,       \* AcceptRouter.Run
    turn,      \* turns of runOnce's last loop
    waiter,    \* of each call of Wait: the goroutine that closes its channel
    watch      \* and one goroutine per connection

mainVars == <<phase, signal, ice, bound, turn>>
quicVars == <<conn, inbound, opened, next>>
acceptVars == <<closed, loop, acceptCh, chClosed, drainer, run>>
waitVars == <<waiter, watch>>
vars == <<mainVars, quicVars, acceptVars, waitVars>>

Init ==
    /\ phase = "ice" /\ signal = FALSE /\ ice = "none" /\ bound = 0 /\ turn = 0
    /\ conn = [i \in Subconns |-> "none"]
    /\ inbound = [i \in Subconns |-> 0]
    /\ opened = 0 /\ next = 0
    /\ closed = FALSE /\ chClosed = FALSE /\ drainer = FALSE
    /\ loop = [i \in Subconns |-> "none"]
    /\ acceptCh = <<>>
    /\ run = "none"
    /\ waiter = [w \in Turns |-> "none"]
    /\ watch = [w \in Turns |-> [i \in Subconns |-> "none"]]

-----------------------------------------------------------------------------
(* The other peer, the network and the operating system (external) *)

PeerOpensStream(i) ==
    /\ conn[i] = "up" /\ opened < MaxStreams
    /\ opened' = opened + 1
    /\ inbound' = [inbound EXCEPT ![i] = @ + 1]
    /\ UNCHANGED <<mainVars, conn, next, acceptVars, waitVars>>

SubconnDies(i) ==
    /\ conn[i] = "up"
    /\ conn' = [conn EXCEPT ![i] = "dead"]
    /\ UNCHANGED <<mainVars, inbound, opened, next, acceptVars, waitVars>>

\* waitSignal cancels the context.
Signal ==
    /\ ~signal
    /\ signal' = TRUE
    /\ UNCHANGED <<phase, ice, bound, turn, quicVars, acceptVars, waitVars>>

-----------------------------------------------------------------------------
(* acceptLoop *)

\* AcceptStream returns a stream.
LoopAccepts(i) ==
    /\ loop[i] = "accept" /\ conn[i] = "up" /\ inbound[i] > 0
    /\ inbound' = [inbound EXCEPT ![i] = @ - 1]
    /\ loop' = [loop EXCEPT ![i] = "send"]
    /\ UNCHANGED <<mainVars, conn, opened, next,
                   closed, acceptCh, chClosed, drainer, run, waitVars>>

\* AcceptStream fails; Session.closed is read.
LoopFails(i) ==
    /\ loop[i] = "accept" /\ conn[i] = "dead"
    /\ loop' = [loop EXCEPT ![i] = IF closed THEN "done" ELSE "report"]
    /\ UNCHANGED <<mainVars, quicVars, closed, acceptCh, chClosed, drainer, run, waitVars>>

\* The stream is sent, which waits for room in acceptCh...
LoopSends(i) ==
    /\ loop[i] = "send" /\ Len(acceptCh) < AcceptCap
    /\ acceptCh' = Append(acceptCh, "stream")
    /\ loop' = [loop EXCEPT ![i] = "accept"]
    /\ UNCHANGED <<mainVars, quicVars, closed, chClosed, drainer, run, waitVars>>

\* ... or for the end of the connection.
LoopCancelled(i) ==
    /\ loop[i] = "send" /\ conn[i] = "dead"
    /\ loop' = [loop EXCEPT ![i] = "done"]
    /\ UNCHANGED <<mainVars, quicVars, closed, acceptCh, chClosed, drainer, run, waitVars>>

\* Mutant: the send is not guarded by the capacity.
LoopReportsAlways(i) ==
    /\ loop[i] = "report"
    /\ acceptCh' = Append(acceptCh, "error")
    /\ loop' = [loop EXCEPT ![i] = "done"]
    /\ UNCHANGED <<mainVars, quicVars, closed, chClosed, drainer, run, waitVars>>

\* The error is sent if there is room for it and dropped if not.
LoopReports(i) ==
    /\ loop[i] = "report"
    /\ acceptCh' = IF Len(acceptCh) < AcceptCap THEN Append(acceptCh, "error")
                   ELSE acceptCh
    /\ loop' = [loop EXCEPT ![i] = "done"]
    /\ UNCHANGED <<mainVars, quicVars, closed, chClosed, drainer, run, waitVars>>

AcceptLoop(i) ==
    \/ LoopAccepts(i) \/ LoopFails(i) \/ LoopSends(i) \/ LoopCancelled(i)
    \/ LoopReports(i)

-----------------------------------------------------------------------------
(* The session's users *)

\* Run calls AcceptStream and starts a handler for the stream it gets.
RunAccepts ==
    /\ run = "accepting" /\ acceptCh # <<>> /\ Head(acceptCh) = "stream"
    /\ acceptCh' = Tail(acceptCh)
    /\ UNCHANGED <<mainVars, quicVars, closed, loop, chClosed, drainer, run, waitVars>>

\* AcceptStream returns a connection's error, or ErrClosed, and Run returns.
RunReturns ==
    /\ run = "accepting"
    /\ \/ acceptCh # <<>> /\ Head(acceptCh) = "error" /\ acceptCh' = Tail(acceptCh)
       \/ acceptCh = <<>> /\ chClosed /\ UNCHANGED acceptCh
    /\ run' = "returned"
    /\ UNCHANGED <<mainVars, quicVars, closed, loop, chClosed, drainer, waitVars>>

\* OpenStream for a client of a listener, on the next connection in turn.  It
\* fails if that one is dead, others up or not.
OpenStream ==
    /\ bound > 0
    /\ next' = (next + 1) % NumSubconns
    /\ UNCHANGED <<mainVars, conn, inbound, opened, acceptVars, waitVars>>

-----------------------------------------------------------------------------
(* Wait *)

\* The goroutines that Wait starts in turn w.
StartWait(w) ==
    /\ waiter' = [waiter EXCEPT ![w] = "waiting"]
    /\ watch' = [watch EXCEPT ![w] = [i \in Subconns |-> "waiting"]]

\* Mutant: the channel `done` is unbuffered.
WatchHandsOver(w, i) ==
    /\ watch[w][i] = "waiting" /\ conn[i] = "dead" /\ waiter[w] = "waiting"
    /\ watch' = [watch EXCEPT ![w][i] = "ended"]
    /\ waiter' = [waiter EXCEPT ![w] = "ended"]
    /\ UNCHANGED <<mainVars, quicVars, acceptVars>>

\* A connection's context is done; `done` has room for one report of each.
WatchFires(w, i) ==
    /\ watch[w][i] = "waiting" /\ conn[i] = "dead"
    /\ watch' = [watch EXCEPT ![w][i] = "ended"]
    /\ UNCHANGED <<mainVars, quicVars, acceptVars, waiter>>

\* Mutant: the first connection's report is awaited.
WaitForFirst(w) ==
    /\ waiter[w] = "waiting" /\ watch[w][0] = "ended"
    /\ waiter' = [waiter EXCEPT ![w] = "ended"]
    /\ UNCHANGED <<mainVars, quicVars, acceptVars, watch>>

\* The first report closes the channel that Wait returned.
WaitEnds(w) ==
    /\ waiter[w] = "waiting" /\ \E i \in Subconns : watch[w][i] = "ended"
    /\ waiter' = [waiter EXCEPT ![w] = "ended"]
    /\ UNCHANGED <<mainVars, quicVars, acceptVars, watch>>

-----------------------------------------------------------------------------
(* runOnce *)

IceConnects ==
    /\ phase = "ice"
    /\ phase' = "transport" /\ ice' = "open"
    /\ UNCHANGED <<signal, bound, turn, quicVars, acceptVars, waitVars>>

IceFails ==
    /\ phase = "ice"
    /\ phase' = "ended"
    /\ UNCHANGED <<signal, ice, bound, turn, quicVars, acceptVars, waitVars>>

\* Serve or Dial has all connections: newSession.
TransportUp ==
    /\ phase = "transport"
    /\ phase' = "listen"
    /\ conn' = [i \in Subconns |-> "up"]
    /\ loop' = [i \in Subconns |-> "accept"]
    /\ UNCHANGED <<signal, ice, bound, turn, inbound, opened, next,
                   closed, acceptCh, chClosed, drainer, run, waitVars>>

\* Serve or Dial fails and has aborted the connections it had.
TransportFails ==
    /\ phase = "transport"
    /\ phase' = "closeIce"
    /\ UNCHANGED <<signal, ice, bound, turn, quicVars, acceptVars, waitVars>>

\* TCPListener.Start binds the next port.
BindPort ==
    /\ phase = "listen" /\ bound < NumPorts
    /\ bound' = bound + 1
    /\ UNCHANGED <<phase, signal, ice, turn, quicVars, acceptVars, waitVars>>

\* Mutant: Close is not deferred before the listeners are started.
BindFailsUnclosed ==
    /\ phase = "listen" /\ bound < NumPorts
    /\ bound' = 0
    /\ phase' = "closeIce"
    /\ UNCHANGED <<signal, ice, turn, quicVars, acceptVars, waitVars>>

\* A port is taken: Start closes the listeners it has, runOnce returns.
BindFails ==
    /\ phase = "listen" /\ bound < NumPorts
    /\ bound' = 0
    /\ phase' = "closeSession"
    /\ UNCHANGED <<signal, ice, turn, quicVars, acceptVars, waitVars>>

\* All is bound: Run is started and the loop of runOnce entered.
StartServing ==
    /\ phase = "listen" /\ bound = NumPorts
    /\ phase' = "serve"
    /\ run' = "accepting"
    /\ StartWait(0)
    /\ UNCHANGED <<signal, ice, bound, turn, quicVars,
                   closed, loop, acceptCh, chClosed, drainer>>

\* The ticker fires and the loop calls Wait again.
Tick ==
    /\ phase = "serve" /\ turn < MaxTicks
    /\ turn' = turn + 1
    /\ StartWait(turn + 1)
    /\ UNCHANGED <<phase, signal, ice, bound, quicVars, acceptVars>>

\* The context is cancelled or this turn's Wait is over.
StopServing ==
    /\ phase = "serve"
    /\ signal \/ waiter[turn] = "ended"
    /\ phase' = "closeRouter"
    /\ UNCHANGED <<signal, ice, bound, turn, quicVars, acceptVars, waitVars>>

\* AcceptRouter.Close waits for the handlers, for 2 s at most.
CloseRouter ==
    /\ phase = "closeRouter"
    /\ phase' = "closeListeners"
    /\ UNCHANGED <<signal, ice, bound, turn, quicVars, acceptVars, waitVars>>

\* TCPListener.Close, likewise after closing the listeners.
CloseListeners ==
    /\ phase = "closeListeners"
    /\ bound' = 0
    /\ phase' = "closeSession"
    /\ UNCHANGED <<signal, ice, turn, quicVars, acceptVars, waitVars>>

\* Session.Close sets closed...
CloseStarts ==
    /\ phase = "closeSession" /\ ~closed
    /\ closed' = TRUE
    /\ UNCHANGED <<mainVars, quicVars, loop, acceptCh, chClosed, drainer, run, waitVars>>

\* ... closes the connections one by one...
CloseSubconn(i) ==
    /\ phase = "closeSession" /\ closed /\ conn[i] = "up"
    /\ conn' = [conn EXCEPT ![i] = "dead"]
    /\ UNCHANGED <<mainVars, inbound, opened, next, acceptVars, waitVars>>

\* ... starts the drainer...
StartDrain ==
    /\ phase = "closeSession" /\ closed
    /\ \A i \in Subconns : conn[i] = "dead"
    /\ drainer' = TRUE
    /\ phase' = "awaitLoops"
    /\ UNCHANGED <<signal, ice, bound, turn, quicVars,
                   closed, loop, acceptCh, chClosed, run, waitVars>>

\* Mutant: without acceptWG.Wait.
CloseChannelEarly ==
    /\ phase = "awaitLoops"
    /\ chClosed' = TRUE
    /\ phase' = "closeIce"
    /\ UNCHANGED <<signal, ice, bound, turn, quicVars,
                   closed, loop, acceptCh, drainer, run, waitVars>>

\* ... and, when acceptWG.Wait returns, closes acceptCh.
CloseChannel ==
    /\ phase = "awaitLoops"
    /\ \A i \in Subconns : loop[i] = "done"
    /\ chClosed' = TRUE
    /\ phase' = "closeIce"
    /\ UNCHANGED <<signal, ice, bound, turn, quicVars,
                   closed, loop, acceptCh, drainer, run, waitVars>>

\* The goroutine that drains acceptCh, until it is closed and empty.
Drain ==
    /\ drainer
    /\ \/ acceptCh # <<>> /\ acceptCh' = Tail(acceptCh) /\ UNCHANGED drainer
       \/ acceptCh = <<>> /\ chClosed /\ drainer' = FALSE /\ UNCHANGED acceptCh
    /\ UNCHANGED <<mainVars, quicVars, closed, loop, chClosed, run, waitVars>>

CloseIce ==
    /\ phase = "closeIce"
    /\ ice' = "closed"
    /\ phase' = "ended"
    /\ UNCHANGED <<signal, bound, turn, quicVars, acceptVars, waitVars>>

-----------------------------------------------------------------------------

\* What runOnce does by itself; its stages have timeouts.
Proceed ==
    \/ IceConnects \/ IceFails \/ TransportUp \/ TransportFails
    \/ BindPort \/ BindFails \/ StartServing \/ StopServing
    \/ CloseRouter \/ CloseListeners \/ CloseStarts
    \/ (\E i \in Subconns : CloseSubconn(i)) \/ StartDrain \/ CloseChannel \/ CloseIce

Run == RunAccepts \/ RunReturns

Next ==
    \/ Proceed \/ Tick \/ Run \/ Drain \/ OpenStream \/ Signal
    \/ \E i \in Subconns : AcceptLoop(i) \/ PeerOpensStream(i) \/ SubconnDies(i)
    \/ \E w \in Turns : WaitEnds(w) \/ \E i \in Subconns : WatchFires(w, i)

Spec == Init /\ [][Next]_vars

\* Every goroutine is scheduled again and again.  Nothing outside need happen.
Fairness ==
    /\ WF_vars(Proceed) /\ WF_vars(Run) /\ WF_vars(Drain)
    /\ \A i \in Subconns : WF_vars(AcceptLoop(i))
    /\ \A w \in Turns : WF_vars(WaitEnds(w)) /\ \A i \in Subconns : WF_vars(WatchFires(w, i))

FairSpec == Spec /\ Fairness

-----------------------------------------------------------------------------
(* Properties *)

\* The channel never holds more than it can and the counters keep their range.
TypeOK ==
    /\ phase \in {"ice", "transport", "listen", "serve", "closeRouter",
                  "closeListeners", "closeSession", "awaitLoops", "closeIce", "ended"}
    /\ signal \in BOOLEAN /\ ice \in {"none", "open", "closed"}
    /\ bound \in 0..NumPorts /\ turn \in Turns
    /\ conn \in [Subconns -> {"none", "up", "dead"}]
    /\ inbound \in [Subconns -> 0..MaxStreams] /\ opened \in 0..MaxStreams
    /\ next \in Subconns
    /\ closed \in BOOLEAN /\ chClosed \in BOOLEAN /\ drainer \in BOOLEAN
    /\ loop \in [Subconns -> {"none", "accept", "send", "report", "done"}]
    /\ acceptCh \in Seq({"stream", "error"}) /\ Len(acceptCh) <= AcceptCap
    /\ run \in {"none", "accepting", "returned"}
    /\ waiter \in [Turns -> {"none", "waiting", "ended"}]
    /\ watch \in [Turns -> [Subconns -> {"none", "waiting", "ended"}]]

\* Close never closes acceptCh under an acceptLoop that is about to send on it,
\* which would panic: not one that took a stream, nor one that read closed while
\* it was still false and is about to report an error.
NoSendOnClosedChannel ==
    chClosed => \A i \in Subconns : loop[i] \notin {"accept", "send", "report"}

\* Whatever stage failed, in the backoff nothing of the turn is held that would
\* make the next one fail or reach the other peer: no port is bound, no QUIC
\* connection is up and the ICE connection, which carries their closing, is the
\* last to go.
NothingHeldInBackoff ==
    /\ ice = "closed" => bound = 0 /\ \A i \in Subconns : conn[i] # "up"
    /\ phase = "ended" => ice # "open" /\ bound = 0

Ended == phase = "ended" /\ run # "accepting"

\* A dead connection ends the turn, and so does a signal: Run returns and
\* runOnce gets to its last defer, even if acceptCh was full, the error was dropped
\* and nobody took from acceptCh any more.
TurnEnds == (signal \/ \E i \in Subconns : conn[i] = "dead") ~> Ended

\* The goroutines of a turn end with it: the acceptLoops, the drainer and those
\* of all the calls of Wait, of which every tick makes another.
NoGoroutineLeft ==
    phase = "ended" ~>
        /\ \A i \in Subconns : loop[i] \in {"none", "done"}
        /\ ~drainer
        /\ \A w \in Turns : /\ waiter[w] # "waiting"
                            /\ \A i \in Subconns : watch[w][i] # "waiting"

=============================================================================
