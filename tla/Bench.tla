-------------------------------- MODULE Bench --------------------------------
(***************************************************************************)
(* nl-punch-bench: a client that runs one of its five tests through the    *)
(* tunnel, and the server's goroutine (serve) for each connection it makes.*)
(*                                                                         *)
(* The tunnel (external) is what ForwardedConnection promises: messages    *)
(* arrive in order, and when one end has closed or the session was lost    *)
(* both connections get closed, with or without what was under way.  A     *)
(* message is one Write.  Durations of the tests are "for some time", and  *)
(* the round-trip times are chosen from Times.                             *)
(***************************************************************************)
EXTENDS Naturals, Sequences, SequencesExt

CONSTANTS
    PingN,      \* --ping-n
    FreshN,     \* --fresh-n
    MaxBeats,   \* bound: beats of an idle test, writes of a throughput test
    Window,     \* bound: messages the tunnel takes before Write blocks
    Times       \* bound: round-trip times

ASSUME BenchAssumption ==
    /\ PingN \in Nat \ {0} /\ FreshN \in Nat \ {0}
    /\ MaxBeats \in Nat \ {0} /\ Window \in Nat \ {0} /\ Times \subseteq Nat

Tests == {"latency", "fresh-stream", "throughput-up", "throughput-down", "idle"}

\* Connections the client makes: one, or one per sample of fresh-stream.
ConnIds == 1..FreshN

VARIABLES
    test,       \* --test
    pc,         \* where the client is
    conn,       \* the connection it has made last
    seq,        \* the beat it is at, data written, or opens tried
    idle,       \* the idle test is before its burst
    samples,    \* what it has measured
    errs,       \* failed opens of fresh-stream
    event,      \* the last record it emits
    srv,        \* serve of each connection
    up, down,   \* the tunnel, client to server and back
    over        \* the connection is being closed

clientVars == <<test, pc, conn, seq, idle, samples, errs, event>>
vars == <<clientVars, srv, up, down, over>>

\* One message: the mode byte, a ping with its number, or other data.
Msg(kind, k) == [kind |-> kind, k |-> k]
ModeOf(t) == CASE t \in {"latency", "idle"} -> "P" [] t = "fresh-stream" -> "H"
               [] t = "throughput-up" -> "S" [] t = "throughput-down" -> "U"

Init ==
    /\ test \in Tests
    /\ pc = "dial" /\ conn = 0 /\ seq = 0 /\ idle = TRUE
    /\ samples = <<>> /\ errs = 0 /\ event = "none"
    /\ srv = [c \in ConnIds |-> "none"]
    /\ up = [c \in ConnIds |-> <<>>] /\ down = [c \in ConnIds |-> <<>>]
    /\ over = [c \in ConnIds |-> FALSE]

-----------------------------------------------------------------------------
(* The tunnel (external) *)

\* The session is lost under a connection.
TunnelFails(c) ==
    /\ srv[c] # "none" /\ ~over[c]
    /\ over' = [over EXCEPT ![c] = TRUE]
    /\ UNCHANGED <<clientVars, srv, up, down>>

-----------------------------------------------------------------------------
(* The client *)

\* The test is over: the record is emitted, and the connection closed by the
\* deferred Close or by os.Exit.
Finish(kind) ==
    /\ pc' = "done"
    /\ event' = kind
    /\ over' = [c \in ConnIds |-> over[c] \/ c = conn]
    /\ UNCHANGED <<test, conn, seq, idle, samples, errs, srv, up, down>>

\* Mutant: the failed open is reported and not counted.
FreshErrorUncounted ==
    /\ seq' = seq + 1
    /\ pc' = "dial"
    /\ over' = [c \in ConnIds |-> over[c] \/ c = conn]
    /\ UNCHANGED <<test, conn, idle, samples, errs, event, srv, up, down>>

\* Mutant: counted where it happens and again where it is reported.
FreshErrorTwice ==
    /\ errs' = errs + 2 /\ seq' = seq + 1
    /\ pc' = "dial"
    /\ over' = [c \in ConnIds |-> over[c] \/ c = conn]
    /\ UNCHANGED <<test, conn, idle, samples, event, srv, up, down>>

\* One open of fresh-stream failed; the loop continues.
FreshError ==
    /\ errs' = errs + 1 /\ seq' = seq + 1
    /\ pc' = "dial"
    /\ over' = [c \in ConnIds |-> over[c] \/ c = conn]
    /\ UNCHANGED <<test, conn, idle, samples, event, srv, up, down>>

\* Mutant: the idle test goes on after a beat that failed.
HeartbeatSkipped ==
    /\ pc' = "tick"
    /\ UNCHANGED <<test, conn, seq, idle, samples, errs, event, srv, up, down, over>>

\* A beat of the idle test failed: the test ends with a broken summary.
HeartbeatFails == Finish("broken")

\* An operation on the connection failed, in each of the tests.
Fails ==
    CASE test = "fresh-stream" -> FreshError
      [] test = "idle" /\ pc \in {"beat", "await"} -> HeartbeatFails
      [] test \in {"throughput-up", "throughput-down"} /\ pc = "bulk" -> Finish("partial")
      [] OTHER -> Finish("fatal")

\* The loop of fresh-stream has run its course.
Tried == test = "fresh-stream" /\ seq = FreshN

Dial ==
    /\ pc = "dial" /\ ~Tried
    /\ \/ /\ conn' = conn + 1
          /\ srv' = [srv EXCEPT ![conn + 1] = "header"]
          /\ pc' = "mode"
          /\ UNCHANGED <<test, seq, idle, samples, errs, event, up, down, over>>
       \/ Fails

EmitFresh == pc = "dial" /\ Tried /\ Finish("result")

\* A Write goes into the tunnel, where it may be lost, and the client is at next.
Send(msg, next) ==
    /\ Len(up[conn]) < Window
    /\ up' = [up EXCEPT ![conn] = Append(@, msg)]
    /\ pc' = next
    /\ UNCHANGED <<test, conn, idle, samples, errs, event, srv, down, over>>

WriteMode ==
    /\ pc = "mode"
    /\ Send(Msg(ModeOf(test), 0),
            CASE test \in {"latency", "idle"} -> "beat" [] test = "fresh-stream" -> "await"
              [] test = "throughput-up" -> "bulk" [] test = "throughput-down" -> "duration")
    /\ seq' = IF test \in {"latency", "idle"} THEN 1 ELSE seq

WriteDuration ==
    /\ pc = "duration"
    /\ Send(Msg("data", 0), "bulk")
    /\ UNCHANGED seq

\* A ping of latency or a beat of idle.
WritePing ==
    /\ pc = "beat"
    /\ Send(Msg("data", seq), "await")
    /\ UNCHANGED seq

\* ReadFull returns: the time since t0 is a sample.  The bytes read are not
\* looked at; the model keeps which ping they answer.
ReadReply ==
    /\ pc = "await" /\ down[conn] # <<>>
    /\ \E t \in Times :
        samples' = Append(samples, [ping |-> seq, echo |-> Head(down[conn]).k, ms |-> t])
    /\ down' = [down EXCEPT ![conn] = Tail(@)]
    /\ seq' = IF test = "idle" \/ (test = "latency" /\ seq = PingN) THEN seq ELSE seq + 1
    /\ pc' = CASE test = "latency" -> IF seq < PingN THEN "beat" ELSE "emit"
               [] test = "fresh-stream" -> "dial"
               [] test = "idle" -> "tick"
    /\ over' = [over EXCEPT ![conn] = @ \/ test = "fresh-stream"]
    /\ UNCHANGED <<test, conn, idle, errs, event, srv, up>>

EmitLatency == pc = "emit" /\ Finish("result")

\* The idle test's ticker and clock: the next beat, the burst, or the end.
Tick ==
    /\ pc = "tick"
    /\ \/ /\ seq < MaxBeats
          /\ pc' = "beat" /\ seq' = seq + 1
          /\ UNCHANGED <<test, conn, idle, samples, errs, event, srv, up, down, over>>
       \/ /\ idle /\ idle' = FALSE
          /\ UNCHANGED <<test, pc, conn, seq, samples, errs, event, srv, up, down, over>>
       \/ ~idle /\ Finish("summary")

\* throughput-up writes; its write deadline ends it with a result.
BulkWrite ==
    /\ test = "throughput-up" /\ pc = "bulk" /\ seq < MaxBeats
    /\ Send(Msg("data", seq + 1), "bulk")
    /\ seq' = seq + 1

BulkDeadline == test = "throughput-up" /\ pc = "bulk" /\ Finish("result")

\* throughput-down reads until EOF, an error or its read deadline.
BulkRead ==
    /\ test = "throughput-down" /\ pc = "bulk" /\ down[conn] # <<>>
    /\ down' = [down EXCEPT ![conn] = Tail(@)]
    /\ UNCHANGED <<clientVars, srv, up, over>>

BulkEof == test = "throughput-down" /\ pc = "bulk" /\ over[conn] /\ Finish("result")

\* A Read or Write fails: the connection was closed under it, or the deadline of
\* an idle beat or of a throughput-down passed.
OpFails ==
    /\ pc \in {"mode", "duration", "beat", "await", "bulk"}
    /\ \/ over[conn]
       \/ test = "idle" /\ pc \in {"beat", "await"}
       \/ test = "throughput-down" /\ pc = "bulk"
    /\ Fails

-----------------------------------------------------------------------------
(* serve *)

\* serve returns and its deferred Close runs.
Return(c) ==
    /\ srv' = [srv EXCEPT ![c] = "done"]
    /\ over' = [over EXCEPT ![c] = TRUE]
    /\ UNCHANGED <<clientVars, up, down>>

\* The mode byte, and in upload mode the duration, are read.
ReadMode(c) ==
    /\ srv[c] \in {"header", "duration"} /\ up[c] # <<>>
    /\ up' = [up EXCEPT ![c] = Tail(@)]
    /\ srv' = [srv EXCEPT ![c] =
                IF @ = "duration" THEN "flood"
                ELSE CASE Head(up[c]).kind = "P" -> "echo" [] Head(up[c]).kind = "S" -> "sink"
                       [] Head(up[c]).kind = "U" -> "duration" [] Head(up[c]).kind = "H" -> "hello"]
    /\ UNCHANGED <<clientVars, down, over>>

\* Ping mode mirrors what it reads.
Echo(c) ==
    /\ srv[c] = "echo" /\ up[c] # <<>> /\ Len(down[c]) < Window
    /\ up' = [up EXCEPT ![c] = Tail(@)]
    /\ down' = [down EXCEPT ![c] = Append(@, Head(up[c]))]
    /\ UNCHANGED <<clientVars, srv, over>>

SinkRead(c) ==
    /\ srv[c] = "sink" /\ up[c] # <<>>
    /\ up' = [up EXCEPT ![c] = Tail(@)]
    /\ UNCHANGED <<clientVars, srv, down, over>>

\* Hello and flood write; flood for some time, hello once.
ServeWrite(c) ==
    /\ srv[c] \in {"hello", "flood"} /\ Len(down[c]) < Window
    /\ down' = [down EXCEPT ![c] = Append(@, Msg("data", 0))]
    /\ srv' = [srv EXCEPT ![c] = IF @ = "hello" THEN "close" ELSE @]
    /\ UNCHANGED <<clientVars, up, over>>

\* The flood's time is up, or the hello byte is written.
ServeDone(c) == srv[c] \in {"flood", "close"} /\ Return(c)

\* Mutant: the sink loop goes on after a Read that failed.
ServeFailsExceptSink(c) ==
    /\ srv[c] \in {"header", "duration", "echo", "hello", "flood"} /\ over[c]
    /\ Return(c)

\* A Read or Write fails and serve returns; sink mode first writes its count,
\* into a connection that is closed.
ServeFails(c) ==
    /\ srv[c] \in {"header", "duration", "echo", "sink", "hello", "flood"} /\ over[c]
    /\ Return(c)

-----------------------------------------------------------------------------

ClientStep ==
    \/ Dial \/ EmitFresh \/ WriteMode \/ WriteDuration \/ WritePing \/ ReadReply
    \/ EmitLatency \/ Tick \/ BulkWrite \/ BulkDeadline \/ BulkRead \/ BulkEof \/ OpFails

ServerStep(c) ==
    \/ ReadMode(c) \/ Echo(c) \/ SinkRead(c) \/ ServeWrite(c) \/ ServeDone(c)
    \/ ServeFails(c)

Next == ClientStep \/ \E c \in ConnIds : ServerStep(c) \/ TunnelFails(c)

Spec == Init /\ [][Next]_vars

\* The goroutines run, and the time of a flood and of a throughput-down comes to
\* its end.
Fairness ==
    /\ WF_vars(ClientStep) /\ WF_vars(pc = "bulk" /\ OpFails)
    /\ \A c \in ConnIds :
        /\ WF_vars(ServerStep(c))
        /\ WF_vars(ServeDone(c)) /\ WF_vars(ServeFails(c))

FairSpec == Spec /\ Fairness

-----------------------------------------------------------------------------
(* stats *)

\* The samples as sort.Slice leaves them.
Sorted(s) ==
    LET n == Len(s)
        order == CHOOSE p \in Bijection(1..n, 1..n) :
                    \A i, j \in 1..n : i < j => s[p[i]] <= s[p[j]]
    IN  [i \in 1..n |-> s[order[i]]]

\* Mutant: the samples are not sorted.
QuantileUnsorted(s, pct) == s[((Len(s) - 1) * pct) \div 100 + 1]

\* q: the sample at int(float64(len - 1) * p).
Quantile(s, pct) == Sorted(s)[((Len(s) - 1) * pct) \div 100 + 1]

\* What a record says of its samples.
Stats(s) == <<Sorted(s)[1], Quantile(s, 50), Quantile(s, 90), Quantile(s, 95),
              Quantile(s, 99), Sorted(s)[Len(s)]>>

-----------------------------------------------------------------------------
(* Properties *)

\* Every variable has its type; no more opens are counted than were made.
TypeOK ==
    /\ test \in Tests /\ conn \in 0..FreshN /\ seq \in Nat /\ idle \in BOOLEAN
    /\ pc \in {"dial", "mode", "duration", "beat", "await", "tick", "emit", "bulk", "done"}
    /\ event \in {"none", "result", "partial", "summary", "broken", "fatal"}
    /\ errs \in 0..FreshN /\ over \in [ConnIds -> BOOLEAN]
    /\ srv \in [ConnIds -> {"none", "header", "echo", "sink", "duration", "flood",
                            "hello", "close", "done"}]
    /\ \A c \in ConnIds : Len(up[c]) <= Window /\ Len(down[c]) <= Window

\* A round-trip time is that of the ping it is recorded for.  The client compares
\* nothing: it relies on one ping being under way at a time and on stopping when
\* a beat has timed out, whose echo may still come (doIdle, doLatency).
OwnEcho ==
    test \in {"latency", "idle"} =>
        \A i \in DOMAIN samples : samples[i].echo = samples[i].ping

\* The last record accounts for everything that was tried: a latency result has
\* all its pings, the opens of fresh-stream are samples or errors, and a summary
\* of idle lacks the echo of one beat if it says broken and of none otherwise.
HonestRecord ==
    pc = "done" =>
        /\ test = "latency" /\ event = "result" => Len(samples) = PingN
        /\ test = "fresh-stream" => Len(samples) + errs = FreshN
        /\ test = "idle" /\ event = "summary" => Len(samples) = seq
        /\ test = "idle" /\ event = "broken" => Len(samples) = seq - 1

\* The statistics of a record are samples in ascending order, whatever order they
\* were measured in and however few there are.
QuantilesOrdered ==
    pc = "done" /\ samples # <<>> =>
        LET ms == [i \in DOMAIN samples |-> samples[i].ms]
            st == Stats(ms)
        IN  /\ \A i \in DOMAIN st : \E j \in DOMAIN ms : st[i] = ms[j]
            /\ \A i \in 1..(Len(st) - 1) : st[i] <= st[i + 1]
            /\ \A j \in DOMAIN ms : st[1] <= ms[j] /\ ms[j] <= st[Len(st)]

\* Every test ends, and with it every serve the server has started for it, though
\* neither latency nor fresh-stream has a deadline and Writes block on a full
\* tunnel.
BenchEnds ==
    <>[](pc = "done" /\ \A c \in ConnIds : srv[c] \in {"none", "done"})

=============================================================================
