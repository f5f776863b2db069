----------------------------- MODULE BenchProofs -----------------------------
(***************************************************************************)
(* TLAPS proofs about nl-punch-bench: round-trip times belong to their     *)
(* pings, the last record accounts for everything that was tried, and its  *)
(* quantiles are in order, for any number of pings, opens and beats and    *)
(* any tunnel.                                                             *)
(***************************************************************************)
EXTENDS Bench, SequenceTheorems, FiniteSetTheorems, TLAPS

Modes == {"P", "H", "S", "U"}
Message == [kind : Modes \cup {"data"}, k : Nat]
Sample == [ping : Nat, echo : Nat, ms : Nat]

\* The client is past its dial and before its record.
Working == {"mode", "duration", "beat", "await", "tick", "emit", "bulk"}

Pinging == test \in {"latency", "idle"}

\* The types, with the counters unbounded.
Types ==
    /\ test \in Tests /\ conn \in Nat /\ seq \in Nat /\ idle \in BOOLEAN /\ errs \in Nat
    /\ pc \in Working \cup {"dial", "done"}
    /\ event \in {"none", "result", "partial", "summary", "broken", "fatal"}
    /\ samples \in Seq(Sample)
    /\ over \in [ConnIds -> BOOLEAN]
    /\ srv \in [ConnIds -> {"none", "header", "echo", "sink", "duration", "flood",
                            "hello", "close", "done"}]
    /\ up \in [ConnIds -> Seq(Message)] /\ down \in [ConnIds -> Seq(Message)]
    /\ \A c \in ConnIds : Len(up[c]) <= Window /\ Len(down[c]) <= Window

\* Every open of fresh-stream is under way, a sample or an error; the other tests
\* open one connection, and a throughput test awaits no reply.
OpensInv ==
    /\ pc \in Working => conn >= 1
    /\ test = "fresh-stream" =>
        /\ Len(samples) + errs = seq /\ seq <= FreshN
        /\ pc \in {"dial", "mode", "await", "done"}
        /\ pc = "dial" => conn <= seq
        /\ pc \in {"mode", "await"} => seq < FreshN /\ conn <= seq + 1
        /\ pc = "done" => seq = FreshN /\ conn <= FreshN
    /\ test # "fresh-stream" => errs = 0 /\ conn <= 1 /\ (pc = "dial" => conn = 0)
    /\ test \in {"throughput-up", "throughput-down"} =>
        pc \in {"dial", "mode", "duration", "bulk", "done"}

\* Every beat before the one under way is a sample, with its own echo.
BeatsInv ==
    Pinging =>
        /\ pc \in {"dial", "mode", "beat", "await", "tick", "emit", "done"}
        /\ pc \in {"dial", "mode"} => seq = 0 /\ Len(samples) = 0
        /\ pc \in {"beat", "await"} => Len(samples) + 1 = seq
        /\ pc = "tick" => test = "idle" /\ Len(samples) = seq
        /\ pc = "emit" => test = "latency" /\ Len(samples) = PingN
        /\ test = "latency" /\ pc \in {"beat", "await"} => seq <= PingN
        /\ test = "latency" /\ pc = "done" /\ event = "result" => Len(samples) = PingN
        /\ test = "idle" /\ pc = "done" /\ event = "summary" => Len(samples) = seq
        /\ test = "idle" /\ pc = "done" /\ event = "broken" => Len(samples) = seq - 1
        /\ \A i \in DOMAIN samples : samples[i].echo = samples[i].ping

\* The first message of a connection is its mode.
ModeInv ==
    /\ \A c \in ConnIds : c > conn => srv[c] = "none" /\ up[c] = <<>> /\ down[c] = <<>>
    /\ \A c \in ConnIds : srv[c] = "header" /\ up[c] # <<>> => Head(up[c]).kind \in Modes
    /\ pc \in Working \ {"mode"} /\ srv[conn] = "header" => up[conn] # <<>>

PingMode == Msg("P", 0)
Ping == Msg("data", seq)

\* No ping is under way, but perhaps the mode.
NoPing ==
    /\ down[1] = <<>>
    /\ \/ srv[1] = "header" /\ up[1] = <<PingMode>>
       \/ srv[1] = "echo" /\ up[1] = <<>>
       \/ srv[1] = "done"

\* The ping is on its way, or its echo, or the server is gone.
OnePing ==
    \/ /\ down[1] = <<>>
       /\ \/ srv[1] = "header" /\ up[1] = <<PingMode, Ping>>
          \/ srv[1] = "echo" /\ up[1] = <<Ping>>
          \/ srv[1] = "done"
    \/ down[1] = <<Ping>> /\ up[1] = <<>> /\ srv[1] \in {"echo", "done"}

\* One ping at a time: that is why nobody has to look at the bytes.
FlowInv ==
    Pinging =>
        /\ pc = "mode" => srv[1] \in {"header", "done"} /\ up[1] = <<>> /\ down[1] = <<>>
        /\ pc \in {"beat", "tick", "emit"} => NoPing
        /\ pc = "await" => OnePing

BenchInv == Types /\ OpensInv /\ BeatsInv /\ ModeInv /\ FlowInv

-----------------------------------------------------------------------------

\* The first connection is one.
LEMMA FirstConn == 1 \in ConnIds /\ \A c \in ConnIds : c \in Nat /\ c >= 1
  BY BenchAssumption DEF ConnIds

\* The connection the client works on is one of those it may make.
LEMMA ConnInRange == BenchInv /\ pc \in Working => conn \in ConnIds
<1> SUFFICES ASSUME BenchInv, pc \in Working PROVE conn \in ConnIds
    OBVIOUS
<1> USE BenchAssumption DEF BenchInv, Types, Working
<1>1. conn \in Nat /\ conn >= 1
    BY DEF OpensInv
<1>2. CASE test = "fresh-stream"
  <2>1. conn <= seq + 1 /\ seq < FreshN
    BY <1>2 DEF OpensInv
  <2> QED
    BY <1>1, <2>1 DEF ConnIds
<1>3. CASE test # "fresh-stream"
    BY <1>1, <1>3 DEF OpensInv, ConnIds
<1> QED
    BY <1>2, <1>3

\* Messages are what the client and the server write.
LEMMA MsgType ==
    ASSUME NEW kind \in Modes \cup {"data"}, NEW k \in Nat
    PROVE  Msg(kind, k) \in Message /\ Msg(kind, k).kind = kind /\ Msg(kind, k).k = k
  BY DEF Msg, Message

\* What a second message does to a queue.
LEMMA AppendOne ==
    ASSUME NEW S, NEW a \in S, NEW b \in S PROVE Append(<<a>>, b) = <<a, b>>
<1> DEFINE s == Append(<<a>>, b)
<1>1. s \in Seq(S) /\ Len(s) = 2 /\ s[1] = a /\ s[2] = b
    OBVIOUS
<1>2. <<a, b>> \in Seq(S) /\ Len(<<a, b>>) = 2
    OBVIOUS
<1> HIDE DEF s
<1>3. \A i \in 1..2 : s[i] = <<a, b>>[i]
    BY <1>1
<1> QED
    BY <1>1, <1>2, <1>3, SeqEqual DEF s

\* What an echo does to the queues.
LEMMA EchoOne ==
    ASSUME NEW a
    PROVE  Tail(<<a>>) = <<>> /\ Head(<<a>>) = a /\ Append(<<>>, a) = <<a>>
  OBVIOUS

\* A client that has not dialed satisfies the invariant.
LEMMA InitBenchInv == Init => BenchInv
<1> SUFFICES ASSUME Init PROVE BenchInv
    OBVIOUS
<1> USE BenchAssumption DEF Init
<1>1. Types
    BY DEF Types
<1>2. OpensInv /\ BeatsInv
    BY DEF OpensInv, BeatsInv, Working
<1>3. ModeInv /\ FlowInv
    BY DEF ModeInv, FlowInv, Working
<1> QED
    BY <1>1, <1>2, <1>3 DEF BenchInv

\* The tunnel may cut a connection.
LEMMA TunnelKeeps == ASSUME BenchInv, NEW c \in ConnIds, TunnelFails(c) PROVE BenchInv'
<1>1. /\ over' = [over EXCEPT ![c] = TRUE]
      /\ UNCHANGED <<test, pc, conn, seq, idle, samples, errs, event, srv, up, down>>
    BY DEF TunnelFails, clientVars
<1> QED
    BY <1>1, SMTT(30) DEF BenchInv, Types, OpensInv, BeatsInv, ModeInv, FlowInv, NoPing, OnePing,
                Ping, Pinging

\* A record ends the test.
LEMMA FinishKeeps ==
    ASSUME BenchInv,
           NEW kind \in {"result", "partial", "summary", "broken", "fatal"}, Finish(kind),
           test = "fresh-stream" => seq = FreshN /\ conn <= FreshN,
           test = "latency" /\ kind = "result" => Len(samples) = PingN,
           test = "idle" /\ kind = "summary" => Len(samples) = seq,
           test = "idle" /\ kind = "broken" => Len(samples) = seq - 1
    PROVE  BenchInv'
<1> USE DEF BenchInv
<1>1. /\ pc' = "done" /\ event' = kind
      /\ over' = [c \in ConnIds |-> over[c] \/ c = conn]
      /\ UNCHANGED <<test, conn, seq, idle, samples, errs, srv, up, down>>
    BY DEF Finish
<1>2. over' \in [ConnIds -> BOOLEAN]
    BY <1>1 DEF Types
<1>3. Types'
    BY <1>1, <1>2 DEF Types
<1>4. OpensInv' /\ BeatsInv'
    BY <1>1 DEF OpensInv, BeatsInv, Pinging, Working
<1>5. ModeInv' /\ FlowInv'
    BY <1>1 DEF ModeInv, FlowInv, Pinging, Working
<1> QED
    BY <1>3, <1>4, <1>5

\* An operation of the client failed.
LEMMA FailsKeeps ==
    ASSUME BenchInv, Fails, pc \in Working \cup {"dial"}, ~Tried,
           pc \in {"mode", "duration", "beat", "await", "bulk", "dial"}
    PROVE  BenchInv'
<1> USE DEF BenchInv
<1>1. CASE test = "fresh-stream"
  <2>1. /\ errs' = errs + 1 /\ seq' = seq + 1 /\ pc' = "dial"
        /\ over' = [c \in ConnIds |-> over[c] \/ c = conn]
        /\ UNCHANGED <<test, conn, idle, samples, event, srv, up, down>>
    BY <1>1 DEF Fails, FreshError
  <2>2. over' \in [ConnIds -> BOOLEAN]
    BY <2>1 DEF Types
  <2>3. Types'
    BY <2>1, <2>2 DEF Types
  <2>4. seq < FreshN /\ conn <= seq + 1
    BY <1>1, BenchAssumption DEF OpensInv, Types, Tried
  <2>5. OpensInv'
    BY <1>1, <2>1, <2>4, BenchAssumption DEF OpensInv, Types, Working
  <2>6. BeatsInv' /\ ModeInv' /\ FlowInv'
    BY <1>1, <2>1 DEF BeatsInv, ModeInv, FlowInv, Pinging, Working
  <2> QED
    BY <2>3, <2>5, <2>6
<1>2. CASE test = "idle" /\ pc \in {"beat", "await"}
  <2>1. Finish("broken")
    BY <1>2 DEF Fails, HeartbeatFails
  <2>2. Len(samples) = seq - 1
    BY <1>2 DEF BeatsInv, Pinging, Types
  <2> QED
    BY <1>2, <2>1, <2>2, FinishKeeps
<1>3. CASE test \in {"throughput-up", "throughput-down"}
  <2>1. Finish("partial") \/ Finish("fatal")
    BY <1>3 DEF Fails
  <2> QED
    BY <1>3, <2>1, FinishKeeps
<1>4. CASE test = "latency" \/ (test = "idle" /\ pc \notin {"beat", "await"})
  <2>1. Finish("fatal")
    BY <1>4 DEF Fails
  <2> QED
    BY <1>4, <2>1, FinishKeeps
<1> QED
    BY <1>1, <1>2, <1>3, <1>4 DEF Types, Tests

\* The client connects.
LEMMA DialKeeps == ASSUME BenchInv, Dial PROVE BenchInv'
<1> USE BenchAssumption, FirstConn DEF BenchInv
<1>1. CASE Fails
    BY <1>1, FailsKeeps DEF Dial
<1>2. CASE /\ conn' = conn + 1
           /\ srv' = [srv EXCEPT ![conn + 1] = "header"]
           /\ pc' = "mode"
           /\ UNCHANGED <<test, seq, idle, samples, errs, event, up, down, over>>
  <2>1. pc = "dial" /\ ~Tried
    BY DEF Dial
  <2>2. conn + 1 \in ConnIds
    BY <2>1 DEF OpensInv, Types, Tried, ConnIds
  <2>3. Types'
    BY <1>2, <2>2 DEF Types, Working
  <2>4. OpensInv' /\ BeatsInv'
    BY <1>2, <2>1 DEF OpensInv, BeatsInv, Types, Tried, Working, Pinging
  <2>5. up[conn + 1] = <<>> /\ down[conn + 1] = <<>>
    BY <2>2 DEF ModeInv, Types
  <2>6. ModeInv'
    <3>1. srv'[conn + 1] = "header" /\ \A c \in ConnIds \ {conn + 1} : srv'[c] = srv[c]
      BY <1>2, <2>2 DEF Types
    <3>2. ASSUME NEW c \in ConnIds, c > conn + 1
          PROVE  srv'[c] = "none" /\ up[c] = <<>> /\ down[c] = <<>>
      BY <3>1, <3>2 DEF ModeInv, Types
    <3>3. ASSUME NEW c \in ConnIds, srv'[c] = "header", up[c] # <<>>
          PROVE  Head(up[c]).kind \in Modes
      BY <2>5, <3>1, <3>3 DEF ModeInv
    <3> QED
      BY <1>2, <3>2, <3>3 DEF ModeInv
  <2>7. Pinging => conn = 0
    BY <2>1 DEF Pinging, OpensInv
  <2>8. FlowInv'
    BY <1>2, <2>2, <2>5, <2>7 DEF FlowInv, Pinging, Types
  <2> QED
    BY <2>3, <2>4, <2>6, <2>8
<1> QED
    BY <1>1, <1>2 DEF Dial

\* What a Write changes, and the mode stays first.
LEMMA SendKeeps ==
    ASSUME BenchInv, NEW msg \in Message, NEW to \in Working \ {"mode"}, Send(msg, to),
           pc \in Working, seq' \in Nat, pc = "mode" => msg.kind \in Modes
    PROVE  /\ Types' /\ ModeInv'
           /\ pc' = to /\ up' = [up EXCEPT ![conn] = Append(@, msg)]
           /\ UNCHANGED <<test, conn, idle, samples, errs, event, srv, down, over>>
<1> USE BenchAssumption DEF BenchInv
<1>1. conn \in ConnIds
    BY ConnInRange
<1>2. /\ Len(up[conn]) < Window /\ pc' = to
      /\ up' = [up EXCEPT ![conn] = Append(@, msg)]
      /\ UNCHANGED <<test, conn, idle, samples, errs, event, srv, down, over>>
    BY DEF Send
<1>3. /\ up[conn] \in Seq(Message) /\ Append(up[conn], msg) \in Seq(Message)
      /\ Len(Append(up[conn], msg)) <= Window /\ Append(up[conn], msg) # <<>>
      /\ Head(Append(up[conn], msg)) = IF up[conn] = <<>> THEN msg ELSE Head(up[conn])
    BY <1>1, <1>2 DEF Types
<1>4. Types'
    BY <1>1, <1>2, <1>3 DEF Types
<1>5. ModeInv'
  <2>1. ASSUME NEW c \in ConnIds, c > conn
        PROVE  srv'[c] = "none" /\ up'[c] = <<>> /\ down'[c] = <<>>
    BY <1>1, <1>2, <2>1 DEF ModeInv, Types
  <2>2. ASSUME NEW c \in ConnIds, srv[c] = "header", up'[c] # <<>>
        PROVE  Head(up'[c]).kind \in Modes
    <3>1. CASE c = conn
      BY <1>1, <1>2, <1>3, <2>2, <3>1 DEF ModeInv, Types
    <3>2. CASE c # conn
      BY <1>1, <1>2, <2>2, <3>2 DEF ModeInv, Types
    <3> QED
      BY <3>1, <3>2
  <2>3. up'[conn] # <<>>
    BY <1>1, <1>2, <1>3 DEF Types
  <2> QED
    BY <1>2, <2>1, <2>2, <2>3 DEF ModeInv
<1> QED
    BY <1>2, <1>4, <1>5

\* The mode is written.
LEMMA WriteModeKeeps == ASSUME BenchInv, WriteMode PROVE BenchInv'
<1> USE BenchAssumption, FirstConn DEF BenchInv
<1> DEFINE msg == Msg(ModeOf(test), 0)
           to == CASE test \in {"latency", "idle"} -> "beat" [] test = "fresh-stream" -> "await"
                   [] test = "throughput-up" -> "bulk" [] test = "throughput-down" -> "duration"
<1>1. pc = "mode" /\ Send(msg, to) /\ seq' = IF Pinging THEN 1 ELSE seq
    BY DEF WriteMode, Pinging
<1>2. /\ test \in Tests /\ seq' \in Nat
      /\ to \in {"beat", "await", "bulk", "duration"}
      /\ Pinging => to = "beat"
      /\ test = "fresh-stream" => to = "await"
      /\ test \in {"throughput-up", "throughput-down"} => to \in {"bulk", "duration"}
    BY <1>1 DEF Types, Tests, Pinging
<1>3. ModeOf(test) \in Modes /\ (Pinging => ModeOf(test) = "P")
    BY <1>2 DEF Tests, ModeOf, Modes, Pinging
<1>4. msg \in Message /\ msg.kind \in Modes /\ (Pinging => msg = PingMode)
    BY <1>3, MsgType DEF PingMode
<1> HIDE DEF msg, to
<1>5. /\ Types' /\ ModeInv' /\ pc' = to /\ up' = [up EXCEPT ![conn] = Append(@, msg)]
      /\ UNCHANGED <<test, conn, idle, samples, errs, event, srv, down, over>>
    BY <1>1, <1>2, <1>4, SendKeeps DEF Working
<1>6. OpensInv'
    BY <1>1, <1>2, <1>5 DEF OpensInv, Pinging, Working, Types
<1>7. BeatsInv'
    BY <1>1, <1>2, <1>5 DEF BeatsInv, Pinging, Types
<1>8. FlowInv'
  <2> SUFFICES ASSUME Pinging PROVE NoPing'
    BY <1>2, <1>5 DEF FlowInv, Pinging
  <2>1. conn = 1 /\ up[1] = <<>> /\ down[1] = <<>> /\ srv[1] \in {"header", "done"}
    BY <1>1 DEF OpensInv, FlowInv, Pinging, Types, Working
  <2>2. up'[1] = <<msg>> /\ msg = PingMode
    BY <1>4, <1>5, <2>1 DEF Types
  <2> QED
    BY <1>5, <2>1, <2>2 DEF NoPing, PingMode
<1> QED
    BY <1>5, <1>6, <1>7, <1>8

\* A ping is written, when no other is under way.
LEMMA WritePingKeeps == ASSUME BenchInv, WritePing PROVE BenchInv'
<1> USE BenchAssumption, FirstConn DEF BenchInv
<1>1. pc = "beat" /\ Send(Ping, "await") /\ seq' = seq
    BY DEF WritePing, Ping
<1>2. Ping \in Message
    BY MsgType DEF Ping, Types
<1>3. /\ Types' /\ ModeInv' /\ pc' = "await" /\ up' = [up EXCEPT ![conn] = Append(@, Ping)]
      /\ UNCHANGED <<test, conn, idle, samples, errs, event, srv, down, over>>
    BY <1>1, <1>2, SendKeeps DEF Working, Types
<1>4. OpensInv'
    BY <1>1, <1>3 DEF OpensInv, Working, Types
<1>5. BeatsInv'
    BY <1>1, <1>3 DEF BeatsInv, Pinging, Types
<1>6. FlowInv'
  <2> SUFFICES ASSUME Pinging PROVE OnePing'
    BY <1>3 DEF FlowInv, Pinging
  <2>1. conn = 1 /\ NoPing
    BY <1>1 DEF OpensInv, FlowInv, Pinging, Types, Working
  <2>2. up'[1] = Append(up[1], Ping) /\ Ping' = Ping
    BY <1>1, <1>3, <2>1 DEF Types, Ping
  <2>3. up[1] = <<PingMode>> => up'[1] = <<PingMode, Ping>>
    BY <1>2, <2>2, MsgType, AppendOne DEF PingMode, Modes
  <2>4. up[1] = <<>> => up'[1] = <<Ping>>
    BY <2>2
  <2> QED
    BY <1>3, <2>1, <2>2, <2>3, <2>4 DEF NoPing, OnePing, PingMode
<1> QED
    BY <1>3, <1>4, <1>5, <1>6

\* Data of the throughput tests is written.
LEMMA BulkKeeps ==
    ASSUME BenchInv, WriteDuration \/ BulkWrite \/ BulkRead
    PROVE  BenchInv'
<1> USE BenchAssumption, FirstConn DEF BenchInv
<1>1. ASSUME NEW msg \in Message, Send(msg, "bulk"), pc \in {"duration", "bulk"},
             seq' \in Nat
      PROVE  BenchInv'
  <2>1. /\ Types' /\ ModeInv' /\ pc' = "bulk"
        /\ UNCHANGED <<test, conn, idle, samples, errs, event, srv, down, over>>
    BY <1>1, SendKeeps DEF Working
  <2>2. test # "fresh-stream" /\ ~Pinging
    BY <1>1 DEF OpensInv, BeatsInv
  <2> QED
    BY <1>1, <2>1, <2>2 DEF OpensInv, BeatsInv, FlowInv, Pinging, Working, Types
<1>2. CASE WriteDuration
  <2>1. Msg("data", 0) \in Message /\ seq' \in Nat
    BY <1>2, MsgType DEF WriteDuration, Types
  <2> QED
    BY <1>1, <1>2, <2>1 DEF WriteDuration
<1>3. CASE BulkWrite
  <2>1. Msg("data", seq + 1) \in Message /\ seq' \in Nat
    <3>1. seq + 1 \in Nat /\ seq' = seq + 1
      BY <1>3 DEF BulkWrite, Types
    <3> QED
      BY <3>1, MsgType
  <2> QED
    BY <1>1, <1>3, <2>1 DEF BulkWrite
<1>4. CASE BulkRead
  <2>1. conn \in ConnIds
    BY <1>4, ConnInRange DEF BulkRead, Working
  <2>2. /\ test = "throughput-down" /\ down[conn] # <<>>
        /\ down' = [down EXCEPT ![conn] = Tail(@)]
        /\ UNCHANGED <<test, pc, conn, seq, idle, samples, errs, event, srv, up, over>>
    BY <1>4 DEF BulkRead, clientVars
  <2>3. Tail(down[conn]) \in Seq(Message) /\ Len(Tail(down[conn])) <= Window
    BY <2>1, <2>2 DEF Types
  <2>4. Types'
    BY <2>1, <2>2, <2>3 DEF Types
  <2>5. ModeInv'
    BY <2>1, <2>2 DEF ModeInv, Types
  <2> QED
    BY <2>2, <2>4, <2>5 DEF OpensInv, BeatsInv, FlowInv, Pinging
<1> QED
    BY <1>2, <1>3, <1>4

\* A reply is read: in the ping tests it is the echo of the ping under way.
LEMMA ReadReplyKeeps == ASSUME BenchInv, ReadReply PROVE BenchInv'
<1> USE BenchAssumption, FirstConn DEF BenchInv
<1>1. pc = "await" /\ down[conn] # <<>> /\ conn \in ConnIds
    BY ConnInRange DEF ReadReply, Working
<1>2. PICK t \in Times :
        samples' = Append(samples, [ping |-> seq, echo |-> Head(down[conn]).k, ms |-> t])
    BY DEF ReadReply
<1> DEFINE new == [ping |-> seq, echo |-> Head(down[conn]).k, ms |-> t]
<1>3. /\ down' = [down EXCEPT ![conn] = Tail(@)]
      /\ seq' = IF test = "idle" \/ (test = "latency" /\ seq = PingN) THEN seq ELSE seq + 1
      /\ pc' = CASE test = "latency" -> IF seq < PingN THEN "beat" ELSE "emit"
                 [] test = "fresh-stream" -> "dial"
                 [] test = "idle" -> "tick"
      /\ over' = [over EXCEPT ![conn] = @ \/ test = "fresh-stream"]
      /\ UNCHANGED <<test, conn, idle, errs, event, srv, up>>
    BY DEF ReadReply
<1>4. test \in {"latency", "fresh-stream", "idle"}
    BY <1>1, <1>2 DEF Types, Tests, OpensInv, BeatsInv, Pinging
<1>5. /\ Head(down[conn]) \in Message /\ Tail(down[conn]) \in Seq(Message)
      /\ Len(Tail(down[conn])) <= Window
    BY <1>1 DEF Types
<1>6. new \in Sample
    BY <1>5 DEF Types, Sample, Message
<1>7. samples' = Append(samples, new)
    BY <1>2
<1> HIDE DEF new
<1>8. /\ samples' \in Seq(Sample) /\ Len(samples') = Len(samples) + 1 /\ Len(samples) \in Nat
      /\ \A i \in DOMAIN samples' : samples'[i] = new \/ (i \in DOMAIN samples /\ samples'[i] = samples[i])
    BY <1>6, <1>7 DEF Types
<1>9. Types'
  <2>1. over' \in [ConnIds -> BOOLEAN]
    BY <1>1, <1>3 DEF Types
  <2>2. /\ down' \in [ConnIds -> Seq(Message)]
        /\ \A c \in ConnIds : Len(down'[c]) <= Window
    BY <1>1, <1>3, <1>5 DEF Types
  <2>3. seq' \in Nat /\ pc' \in Working \cup {"dial", "done"}
    BY <1>3, <1>4 DEF Types, Working
  <2> QED
    BY <1>3, <1>8, <2>1, <2>2, <2>3 DEF Types
<1>10. OpensInv'
  <2>1. CASE test = "fresh-stream"
    <3>1. seq' = seq + 1 /\ pc' = "dial" /\ Len(samples') + errs = seq + 1
      BY <1>3, <1>8, <2>1, SMTT(30) DEF OpensInv, Types
    <3>2. seq < FreshN /\ conn <= seq + 1
      BY <1>1, <2>1 DEF OpensInv
    <3> QED
      BY <1>3, <2>1, <3>1, <3>2, SMTT(30) DEF OpensInv, Types, Working
  <2>2. CASE test # "fresh-stream"
    BY <1>1, <1>3, <1>4, <2>2 DEF OpensInv, Types, Working
  <2> QED
    BY <2>1, <2>2
<1>11. ModeInv'
    BY <1>1, <1>3, <1>4 DEF ModeInv, Types, Working
<1>12. Pinging => /\ conn = 1 /\ down[1] = <<Ping>> /\ up[1] = <<>>
                  /\ srv[1] \in {"echo", "done"}
    BY <1>1 DEF OpensInv, FlowInv, OnePing, Pinging, Types, Working
<1>13. Pinging => new.echo = new.ping
  <2> SUFFICES ASSUME Pinging PROVE new.echo = new.ping
    OBVIOUS
  <2>1. Head(down[conn]) = Ping
    BY <1>12
  <2>2. Ping.k = seq
    BY MsgType DEF Ping, Types
  <2> QED
    BY <2>1, <2>2 DEF new
<1>14. BeatsInv'
  <2> SUFFICES ASSUME Pinging PROVE BeatsInv'
    BY <1>3 DEF BeatsInv, Pinging
  <2>1. \A i \in DOMAIN samples' : samples'[i].echo = samples'[i].ping
    BY <1>8, <1>13 DEF BeatsInv
  <2> HIDE FirstConn
  <2> QED
    BY <1>1, <1>3, <1>8, <2>1, SMTT(30) DEF BeatsInv, Pinging, Types
<1>15. FlowInv'
  <2> SUFFICES ASSUME Pinging PROVE NoPing'
    BY <1>3, <1>4 DEF FlowInv, Pinging
  <2>1. down'[1] = <<>>
    <3>1. down \in [ConnIds -> Seq(Message)]
      BY DEF Types
    <3>2. down'[1] = Tail(down[1])
      BY <1>1, <1>3, <1>12, <3>1
    <3>3. Tail(<<Ping>>) = <<>>
      OBVIOUS
    <3> QED
      BY <1>12, <3>2, <3>3
  <2> QED
    BY <1>3, <1>12, <2>1 DEF NoPing
<1> QED
    BY <1>9, <1>10, <1>11, <1>14, <1>15

\* The client's records and its clock.
LEMMA RecordKeeps ==
    ASSUME BenchInv, EmitFresh \/ EmitLatency \/ BulkDeadline \/ BulkEof \/ Tick
    PROVE  BenchInv'
<1> USE BenchAssumption DEF BenchInv
<1>1. CASE EmitFresh
    BY <1>1, FinishKeeps DEF EmitFresh, Tried, OpensInv
<1>2. CASE EmitLatency
    BY <1>2, FinishKeeps DEF EmitLatency, OpensInv, BeatsInv, Pinging
<1>3. CASE BulkDeadline \/ BulkEof
    BY <1>3, FinishKeeps DEF BulkDeadline, BulkEof
<1>4. CASE Tick
  <2>1. pc = "tick" /\ test = "idle" /\ Len(samples) = seq
    BY <1>4 DEF Tick, OpensInv, BeatsInv, Pinging, Types, Tests
  <2>2. CASE Finish("summary")
    BY <2>1, <2>2, FinishKeeps
  <2>3. CASE /\ pc' = "beat" /\ seq' = seq + 1
             /\ UNCHANGED <<test, conn, idle, samples, errs, event, srv, up, down, over>>
    <3>1. Types' /\ OpensInv' /\ BeatsInv'
      BY <2>1, <2>3 DEF Types, OpensInv, BeatsInv, Pinging, Working
    <3>2. ModeInv' /\ FlowInv'
      BY <2>1, <2>3 DEF ModeInv, FlowInv, NoPing, Pinging, Working
    <3> QED
      BY <3>1, <3>2
  <2>4. CASE /\ idle' = FALSE
             /\ UNCHANGED <<test, pc, conn, seq, samples, errs, event, srv, up, down, over>>
    BY <2>1, <2>4 DEF Types, OpensInv, BeatsInv, ModeInv, FlowInv, NoPing, Pinging
  <2> QED
    BY <1>4, <2>2, <2>3, <2>4 DEF Tick
<1> QED
    BY <1>1, <1>2, <1>3, <1>4

\* A ping test has one connection.
LEMMA PingConn ==
    ASSUME BenchInv, Pinging, NEW c \in ConnIds, srv[c] # "none"
    PROVE  c = 1 /\ conn = 1 /\ pc # "dial"
<1>1. conn <= 1 /\ conn \in Nat /\ c \in Nat /\ c >= 1 /\ (pc = "dial" => conn = 0)
    BY FirstConn DEF BenchInv, OpensInv, Pinging, Types
<1>2. ~(c > conn)
    BY DEF BenchInv, ModeInv
<1> QED
    BY <1>1, <1>2

\* A step of serve leaves the client alone, and the header behind it.
LEMMA ServeKeeps ==
    ASSUME BenchInv, NEW c \in ConnIds, srv[c] # "none", UNCHANGED clientVars,
           NEW s \in {"echo", "sink", "duration", "flood", "hello", "close", "done"},
           NEW u \in Seq(Message), NEW d \in Seq(Message), NEW o \in BOOLEAN,
           Len(u) <= Window, Len(d) <= Window,
           srv' = [srv EXCEPT ![c] = s], up' = [up EXCEPT ![c] = u],
           down' = [down EXCEPT ![c] = d], over' = [over EXCEPT ![c] = o],
           Pinging /\ c = 1 /\ conn = 1 /\ pc # "dial" => FlowInv'
    PROVE  BenchInv'
<1> USE DEF BenchInv
<1>1. UNCHANGED <<test, pc, conn, seq, idle, samples, errs, event>>
    BY DEF clientVars
<1>2. Types'
    BY <1>1 DEF Types
<1>3. OpensInv' /\ BeatsInv'
    BY <1>1 DEF OpensInv, BeatsInv, Pinging
<1>4. ModeInv'
  <2>1. srv'[c] = s /\ \A b \in ConnIds \ {c} : /\ srv'[b] = srv[b] /\ up'[b] = up[b]
                                                /\ down'[b] = down[b]
    BY DEF Types
  <2>2. ASSUME NEW b \in ConnIds, b > conn
        PROVE  srv'[b] = "none" /\ up'[b] = <<>> /\ down'[b] = <<>>
    BY <2>1, <2>2 DEF ModeInv
  <2>3. ASSUME NEW b \in ConnIds, srv'[b] = "header", up'[b] # <<>>
        PROVE  Head(up'[b]).kind \in Modes
    BY <2>1, <2>3 DEF ModeInv
  <2>4. pc \in Working \ {"mode"} /\ srv'[conn] = "header" => up'[conn] # <<>>
    BY <2>1, ConnInRange DEF ModeInv
  <2> QED
    BY <1>1, <2>2, <2>3, <2>4 DEF ModeInv
<1>5. FlowInv'
  <2>1. CASE Pinging
    BY <2>1, PingConn
  <2>2. CASE ~Pinging
    BY <1>1, <2>2 DEF FlowInv, Pinging
  <2> QED
    BY <2>1, <2>2
<1> QED
    BY <1>2, <1>3, <1>4, <1>5

\* serve returns.
LEMMA ReturnKeeps ==
    ASSUME BenchInv, NEW c \in ConnIds, srv[c] # "none", Return(c)
    PROVE  BenchInv'
<1>1. /\ srv' = [srv EXCEPT ![c] = "done"] /\ over' = [over EXCEPT ![c] = TRUE]
      /\ UNCHANGED clientVars /\ up' = up /\ down' = down
    BY DEF Return
<1>2. /\ up[c] \in Seq(Message) /\ down[c] \in Seq(Message)
      /\ Len(up[c]) <= Window /\ Len(down[c]) <= Window
      /\ up' = [up EXCEPT ![c] = up[c]] /\ down' = [down EXCEPT ![c] = down[c]]
    BY <1>1 DEF BenchInv, Types
<1>3. Pinging /\ c = 1 /\ conn = 1 /\ pc # "dial" => FlowInv'
  <2> SUFFICES ASSUME Pinging, c = 1 PROVE FlowInv'
    OBVIOUS
  <2>1. srv'[1] = "done"
    BY <1>1 DEF BenchInv, Types
  <2> QED
    BY <1>1, <2>1 DEF BenchInv, FlowInv, NoPing, OnePing, Ping, Pinging, clientVars
<1> QED
    BY <1>1, <1>2, <1>3, ServeKeeps

\* The mode or the duration is read.
LEMMA ReadModeKeeps == ASSUME BenchInv, NEW c \in ConnIds, ReadMode(c) PROVE BenchInv'
<1> DEFINE s == IF srv[c] = "duration" THEN "flood"
                ELSE CASE Head(up[c]).kind = "P" -> "echo" [] Head(up[c]).kind = "S" -> "sink"
                       [] Head(up[c]).kind = "U" -> "duration" [] Head(up[c]).kind = "H" -> "hello"
<1>1. /\ srv[c] \in {"header", "duration"} /\ up[c] # <<>>
      /\ up' = [up EXCEPT ![c] = Tail(up[c])] /\ srv' = [srv EXCEPT ![c] = s]
      /\ UNCHANGED clientVars /\ down' = down /\ over' = over
    BY DEF ReadMode
<1>2. /\ Tail(up[c]) \in Seq(Message) /\ Len(Tail(up[c])) <= Window
      /\ down[c] \in Seq(Message) /\ Len(down[c]) <= Window /\ over[c] \in BOOLEAN
      /\ down' = [down EXCEPT ![c] = down[c]] /\ over' = [over EXCEPT ![c] = over[c]]
    BY <1>1, BenchAssumption DEF BenchInv, Types
<1>3. srv[c] = "header" => Head(up[c]).kind \in Modes
    BY <1>1 DEF BenchInv, ModeInv
<1>4. s \in {"echo", "sink", "duration", "flood", "hello", "close", "done"}
    BY <1>1, <1>3 DEF Modes
<1>5. srv[c] = "header" /\ Head(up[c]).kind = "P" => s = "echo"
    OBVIOUS
<1> HIDE DEF s
<1>6. Pinging /\ c = 1 /\ conn = 1 /\ pc # "dial" => FlowInv'
  <2> SUFFICES ASSUME Pinging, c = 1 PROVE FlowInv'
    OBVIOUS
  <2>1. srv'[1] = s /\ up'[1] = Tail(up[1]) /\ down'[1] = down[1] /\ Ping' = Ping
    BY <1>1 DEF BenchInv, Types, Ping, clientVars
  <2>2. /\ PingMode \in Message /\ PingMode.kind = "P"
        /\ Head(<<PingMode>>) = PingMode /\ Tail(<<PingMode>>) = <<>>
        /\ Head(<<PingMode, Ping>>) = PingMode /\ Tail(<<PingMode, Ping>>) = <<Ping>>
    BY MsgType DEF PingMode, Modes
  <2>3. pc # "mode"
    BY <1>1 DEF BenchInv, FlowInv
  <2>4. ASSUME NoPing PROVE NoPing'
    BY <1>1, <1>5, <2>1, <2>2, <2>4 DEF NoPing
  <2>5. ASSUME OnePing PROVE OnePing'
    BY <1>1, <1>5, <2>1, <2>2, <2>5 DEF OnePing
  <2> QED
    BY <1>1, <2>3, <2>4, <2>5 DEF BenchInv, FlowInv, Pinging, clientVars
<1> QED
    BY <1>1, <1>2, <1>4, <1>6, ServeKeeps

\* A ping is mirrored: it is the one under way.
LEMMA EchoKeeps == ASSUME BenchInv, NEW c \in ConnIds, Echo(c) PROVE BenchInv'
<1> DEFINE d == Append(down[c], Head(up[c]))
<1>1. /\ srv[c] = "echo" /\ up[c] # <<>> /\ Len(down[c]) < Window
      /\ up' = [up EXCEPT ![c] = Tail(up[c])] /\ down' = [down EXCEPT ![c] = d]
      /\ UNCHANGED clientVars /\ srv' = srv /\ over' = over
    BY DEF Echo
<1>2. /\ Tail(up[c]) \in Seq(Message) /\ Len(Tail(up[c])) <= Window
      /\ d \in Seq(Message) /\ Len(d) <= Window
    BY <1>1, BenchAssumption DEF BenchInv, Types
<1>3. /\ over[c] \in BOOLEAN /\ srv' = [srv EXCEPT ![c] = "echo"]
      /\ over' = [over EXCEPT ![c] = over[c]]
    BY <1>1 DEF BenchInv, Types
<1>4. Pinging /\ c = 1 /\ conn = 1 /\ pc # "dial" => FlowInv'
  <2> SUFFICES ASSUME Pinging, c = 1 PROVE FlowInv'
    OBVIOUS
  <2>1. pc \notin {"mode", "beat", "tick", "emit"}
    BY <1>1 DEF BenchInv, FlowInv, NoPing
  <2>2. pc = "await" => down[1] = <<>> /\ up[1] = <<Ping>>
    BY <1>1, <2>1 DEF BenchInv, FlowInv, OnePing
  <2>3. up'[1] = Tail(up[1]) /\ down'[1] = Append(down[1], Head(up[1])) /\ Ping' = Ping
    BY <1>1 DEF BenchInv, Types, Ping, clientVars
  <2>4. pc = "await" => up'[1] = <<>> /\ down'[1] = <<Ping>>
    BY <2>2, <2>3, EchoOne
  <2> QED
    BY <1>1, <2>1, <2>3, <2>4 DEF FlowInv, OnePing, Pinging, clientVars
<1> HIDE DEF d
<1> QED
    BY <1>1, <1>2, <1>3, <1>4, ServeKeeps

\* What serve does in its other modes.
LEMMA OtherModesKeep ==
    ASSUME BenchInv, NEW c \in ConnIds, SinkRead(c) \/ ServeWrite(c)
    PROVE  BenchInv'
<1>1. srv[c] \in {"sink", "hello", "flood"} /\ UNCHANGED clientVars /\ over' = over
    BY DEF SinkRead, ServeWrite
<1>2. over[c] \in BOOLEAN /\ over' = [over EXCEPT ![c] = over[c]]
    BY <1>1 DEF BenchInv, Types
<1>3. Pinging /\ c = 1 /\ conn = 1 /\ pc # "dial" => FlowInv'
    BY <1>1 DEF BenchInv, FlowInv, NoPing, OnePing, Pinging, clientVars
<1>4. CASE SinkRead(c)
  <2>1. up[c] # <<>> /\ srv[c] = "sink" /\ up' = [up EXCEPT ![c] = Tail(up[c])]
    BY <1>4 DEF SinkRead
  <2>2. /\ Tail(up[c]) \in Seq(Message) /\ Len(Tail(up[c])) <= Window
        /\ down[c] \in Seq(Message) /\ Len(down[c]) <= Window
        /\ down' = [down EXCEPT ![c] = down[c]] /\ srv' = [srv EXCEPT ![c] = "sink"]
    BY <1>4, <2>1, BenchAssumption DEF BenchInv, Types, SinkRead
  <2> QED
    BY <1>1, <1>2, <1>3, <2>1, <2>2, ServeKeeps
<1>5. CASE ServeWrite(c)
  <2> DEFINE d == Append(down[c], Msg("data", 0))
             s == IF srv[c] = "hello" THEN "close" ELSE srv[c]
  <2>1. Len(down[c]) < Window /\ down' = [down EXCEPT ![c] = d] /\ up' = up
        /\ srv' = [srv EXCEPT ![c] = s]
    BY <1>5 DEF ServeWrite
  <2>2. Msg("data", 0) \in Message
    BY MsgType
  <2>3. d \in Seq(Message) /\ Len(d) <= Window
    BY <2>1, <2>2, BenchAssumption DEF BenchInv, Types
  <2>4. /\ up[c] \in Seq(Message) /\ Len(up[c]) <= Window
        /\ up' = [up EXCEPT ![c] = up[c]] /\ s \in {"close", "flood"}
    BY <1>1, <1>5, <2>1 DEF BenchInv, Types, ServeWrite
  <2> HIDE DEF d, s
  <2> QED
    BY <1>1, <1>2, <1>3, <2>1, <2>3, <2>4, ServeKeeps
<1> QED
    BY <1>4, <1>5

\* Every step of the benchmark keeps the invariant.
LEMMA NextBenchInv == BenchInv /\ [Next]_vars => BenchInv'
<1> SUFFICES ASSUME BenchInv, [Next]_vars PROVE BenchInv'
    OBVIOUS
<1>1. CASE ClientStep
  <2>1. CASE OpFails
    <3>1. ~Tried
      BY <2>1, BenchAssumption DEF OpFails, Tried, BenchInv, OpensInv, Types
    <3> QED
      BY <2>1, <3>1, FailsKeeps DEF OpFails, Working
  <2>2. CASE ReadReply \/ WriteMode \/ WritePing \/ Dial
    BY <2>2, ReadReplyKeeps, WriteModeKeeps, WritePingKeeps, DialKeeps
  <2>3. CASE WriteDuration \/ BulkWrite \/ BulkRead
    BY <2>3, BulkKeeps
  <2>4. CASE EmitFresh \/ EmitLatency \/ BulkDeadline \/ BulkEof \/ Tick
    BY <2>4, RecordKeeps
  <2> QED
    BY <1>1, <2>1, <2>2, <2>3, <2>4 DEF ClientStep
<1>2. ASSUME NEW c \in ConnIds, ServerStep(c) PROVE BenchInv'
  <2>1. CASE ServeDone(c) \/ ServeFails(c)
    BY <2>1, ReturnKeeps DEF ServeDone, ServeFails
  <2>2. CASE ReadMode(c) \/ Echo(c) \/ SinkRead(c) \/ ServeWrite(c)
    BY <2>2, ReadModeKeeps, EchoKeeps, OtherModesKeep
  <2> QED
    BY <1>2, <2>1, <2>2 DEF ServerStep
<1>3. ASSUME NEW c \in ConnIds, TunnelFails(c) PROVE BenchInv'
    BY <1>3, TunnelKeeps
<1>4. CASE UNCHANGED vars
    BY <1>4 DEF vars, clientVars, BenchInv, Types, OpensInv, BeatsInv, ModeInv, FlowInv,
                NoPing, OnePing, Ping, Pinging
<1> QED
    BY <1>1, <1>2, <1>3, <1>4 DEF Next

\* The invariant holds throughout every run of the benchmark.
LEMMA BenchAlways == Spec => []BenchInv
<1> QED
    BY InitBenchInv, NextBenchInv, PTL DEF Spec

-----------------------------------------------------------------------------
(* Samples can be sorted: the arrangement with the fewest pairs out of order has   *)
(* none, or else its closest pair out of order are neighbours, and swapping those  *)
(* leaves one pair fewer.                                                          *)

\* Where each of n samples goes, and the pairs of samples that s puts out of order.
Placing(n) == Bijection(1..n, 1..n)
Inversions(s, n, q) ==
    {x \in (1..n) \X (1..n) : q[x[1]] < q[x[2]] /\ s[x[1]] > s[x[2]]}

\* What a placing is.
LEMMA PlacingIs ==
    ASSUME NEW n \in Nat, NEW q
    PROVE  q \in Placing(n) <=> /\ q \in [1..n -> 1..n]
                                /\ \A a, b \in 1..n : q[a] = q[b] => a = b
                                /\ \A i \in 1..n : \E a \in 1..n : q[a] = i
  BY DEF Placing, Bijection, Injection, Surjection, IsInjective

\* A nonempty set of natural numbers has a least one.
LEMMA LeastNat ==
    ASSUME NEW T \in SUBSET Nat, T # {}
    PROVE  \E x \in T : \A y \in T : x <= y
<1>1. PICK x \in T : \A y \in T : ~(<<y, x>> \in OpToRel(<, Nat))
    BY NatLessThanWellFounded, WFMin
<1>2. \A y \in T : ~(y < x)
    BY <1>1 DEF OpToRel
<1> QED
    BY <1>2

\* Pairs can be counted.
LEMMA InversionsFinite ==
    ASSUME NEW n \in Nat, NEW s, NEW q
    PROVE  /\ IsFiniteSet(Inversions(s, n, q)) /\ Cardinality(Inversions(s, n, q)) \in Nat
<1>1. IsFiniteSet((1..n) \X (1..n))
  <2>1. IsFiniteSet(1..n)
    BY FS_Interval
  <2> QED
    BY <2>1, FS_Product
<1>2. Inversions(s, n, q) \in SUBSET ((1..n) \X (1..n))
    BY DEF Inversions
<1>3. IsFiniteSet(Inversions(s, n, q))
    BY <1>1, <1>2, FS_Subset
<1> QED
    BY <1>3, FS_CardinalityType

\* Places and samples are numbers.
LEMMA PlaceNat ==
    ASSUME NEW n \in Nat, NEW q \in [1..n -> 1..n], NEW c \in 1..n
    PROVE  q[c] \in 1..n /\ q[c] \in Nat
<1>1. q[c] \in 1..n
    OBVIOUS
<1> QED
    BY <1>1

\* Nothing lies between neighbours.
LEMMA NothingBetween ==
    ASSUME NEW x \in Nat, NEW y \in Nat, NEW z \in Nat, y = x + 1, z # x, z # y
    PROVE  (z < x <=> z < y) /\ (x < z <=> y < z)
  OBVIOUS

\* Two places that are no neighbours have one between them, closer to each.
LEMMA PlaceBetween ==
    ASSUME NEW n \in Nat, NEW x \in 1..n, NEW y \in 1..n, x < y, y # x + 1
    PROVE  /\ x + 1 \in 1..n /\ x + 1 < y
           /\ ~(y - x <= (x + 1) - x) /\ ~(y - x <= y - (x + 1))
  OBVIOUS

\* If any two samples are out of order, two neighbours are.
LEMMA CloseInversion ==
    ASSUME NEW n \in Nat, NEW s \in [1..n -> Nat], NEW q \in Placing(n),
           Inversions(s, n, q) # {}
    PROVE  \E a, b \in 1..n : q[b] = q[a] + 1 /\ s[a] > s[b]
<1> DEFINE I == Inversions(s, n, q)
           W == {q[x[2]] - q[x[1]] : x \in I}
<1>1. /\ q \in [1..n -> 1..n]
      /\ \A i \in 1..n : \E a \in 1..n : q[a] = i
    BY PlacingIs
<1>2. \A x \in I : /\ x[1] \in 1..n /\ x[2] \in 1..n /\ q[x[1]] < q[x[2]] /\ s[x[1]] > s[x[2]]
                   /\ q[x[1]] \in Nat /\ q[x[2]] \in Nat
  <2> SUFFICES ASSUME NEW x \in I
               PROVE  /\ x[1] \in 1..n /\ x[2] \in 1..n /\ q[x[1]] < q[x[2]] /\ s[x[1]] > s[x[2]]
                      /\ q[x[1]] \in Nat /\ q[x[2]] \in Nat
    OBVIOUS
  <2>1. x[1] \in 1..n /\ x[2] \in 1..n /\ q[x[1]] < q[x[2]] /\ s[x[1]] > s[x[2]]
    BY DEF Inversions
  <2> QED
    BY <1>1, <2>1, PlaceNat
<1>3. \A a, b \in 1..n : q[a] < q[b] /\ s[a] > s[b] => <<a, b>> \in I
    BY DEF Inversions
<1> HIDE DEF I
<1>4. W \in SUBSET Nat /\ W # {}
    BY <1>2 DEF I
<1>5. PICK w \in W : \A y \in W : w <= y
    BY <1>4, LeastNat
<1>6. PICK x \in I : w = q[x[2]] - q[x[1]]
    BY <1>5
<1>7. \A y \in I : q[x[2]] - q[x[1]] <= q[y[2]] - q[y[1]]
    BY <1>5, <1>6
<1> DEFINE a == x[1]
           b == x[2]
<1>8. /\ a \in 1..n /\ b \in 1..n /\ q[a] < q[b] /\ s[a] > s[b]
      /\ q[a] \in 1..n /\ q[b] \in 1..n
    BY <1>1, <1>2
<1>9. \A c, d \in 1..n : q[c] < q[d] /\ s[c] > s[d] => q[b] - q[a] <= q[d] - q[c]
  <2> SUFFICES ASSUME NEW c \in 1..n, NEW d \in 1..n, q[c] < q[d], s[c] > s[d]
               PROVE  q[b] - q[a] <= q[d] - q[c]
    OBVIOUS
  <2>1. <<c, d>> \in I
    BY <1>3
  <2>2. q[x[2]] - q[x[1]] <= q[<<c, d>>[2]] - q[<<c, d>>[1]]
    BY <1>7, <2>1
  <2> QED
    BY <2>2
<1> HIDE DEF a, b
<1>10. q[b] = q[a] + 1
  <2> SUFFICES ASSUME q[b] # q[a] + 1 PROVE FALSE
    OBVIOUS
  <2>1. /\ q[a] + 1 \in 1..n /\ q[a] + 1 < q[b]
        /\ ~(q[b] - q[a] <= (q[a] + 1) - q[a]) /\ ~(q[b] - q[a] <= q[b] - (q[a] + 1))
    BY <1>8, PlaceBetween
  <2>2. PICK c \in 1..n : q[c] = q[a] + 1
    BY <1>1, <2>1
  <2>3. s[a] \in Nat /\ s[b] \in Nat /\ s[c] \in Nat
    BY <1>8
  <2>4. CASE s[a] > s[c]
    <3>1. q[a] < q[c]
      BY <1>8, <2>2
    <3>2. q[b] - q[a] <= q[c] - q[a]
      BY <1>8, <1>9, <2>4, <3>1
    <3> QED
      BY <2>1, <2>2, <3>2
  <2>5. CASE ~(s[a] > s[c])
    <3>1. s[c] > s[b]
      BY <1>8, <2>3, <2>5
    <3>2. q[c] < q[b]
      BY <2>1, <2>2
    <3>3. q[b] - q[a] <= q[b] - q[c]
      BY <1>8, <1>9, <3>1, <3>2
    <3> QED
      BY <2>1, <2>2, <3>3
  <2> QED
    BY <2>4, <2>5
<1> QED
    BY <1>8, <1>10

\* Swapping two neighbours that are out of order leaves one pair fewer.
LEMMA SwapNeighbours ==
    ASSUME NEW n \in Nat, NEW s \in [1..n -> Nat], NEW q \in Placing(n),
           NEW a \in 1..n, NEW b \in 1..n, q[b] = q[a] + 1, s[a] > s[b]
    PROVE  \E r \in Placing(n) :
                Cardinality(Inversions(s, n, r)) < Cardinality(Inversions(s, n, q))
<1> DEFINE r == [c \in 1..n |-> IF c = a THEN q[b] ELSE IF c = b THEN q[a] ELSE q[c]]
<1>1. /\ q \in [1..n -> 1..n]
      /\ \A c, d \in 1..n : q[c] = q[d] => c = d
      /\ \A i \in 1..n : \E c \in 1..n : q[c] = i
    BY PlacingIs
<1>2. \A c \in 1..n : q[c] \in Nat /\ s[c] \in Nat
    BY <1>1, PlaceNat
<1>3. a # b /\ q[a] \in Nat /\ q[b] \in Nat /\ q[a] \in 1..n /\ q[b] \in 1..n
  <2>1. q[a] \in Nat /\ q[b] \in Nat /\ q[a] \in 1..n /\ q[b] \in 1..n
    BY <1>1, PlaceNat
  <2> QED
    BY <2>1
<1>4. /\ r \in [1..n -> 1..n] /\ r[a] = q[b] /\ r[b] = q[a]
      /\ \A c \in 1..n : c # a /\ c # b => r[c] = q[c]
    BY <1>1, <1>3
<1> HIDE DEF r
<1>5. r \in Placing(n)
  <2>1. ASSUME NEW c \in 1..n, NEW d \in 1..n, r[c] = r[d] PROVE c = d
    <3>1. \A e \in 1..n : e # a /\ e # b => q[e] # q[a] /\ q[e] # q[b]
      BY <1>1, Zenon
    <3>2. q[a] # q[b]
      BY <1>1, <1>3, Zenon
    <3>3. CASE c \notin {a, b} /\ d \notin {a, b}
      BY <1>1, <1>4, <2>1, <3>3
    <3>4. CASE c = a \/ c = b
      <4>1. r[d] = q[a] => d = b
        BY <1>4, <3>1, <3>2
      <4>2. r[d] = q[b] => d = a
        BY <1>4, <3>1, <3>2
      <4>3. r[a] = q[b] /\ r[b] = q[a]
        BY <1>4
      <4> QED
        BY <2>1, <3>4, <4>1, <4>2, <4>3
    <3>5. CASE d = a \/ d = b
      <4>1. r[c] = q[a] => c = b
        BY <1>4, <3>1, <3>2
      <4>2. r[c] = q[b] => c = a
        BY <1>4, <3>1, <3>2
      <4>3. r[a] = q[b] /\ r[b] = q[a]
        BY <1>4
      <4> QED
        BY <2>1, <3>5, <4>1, <4>2, <4>3
    <3> QED
      BY <3>3, <3>4, <3>5
  <2>2. ASSUME NEW i \in 1..n PROVE \E c \in 1..n : r[c] = i
    <3>1. PICK c \in 1..n : q[c] = i
      BY <1>1
    <3>2. CASE c = a
      BY <1>4, <3>1, <3>2
    <3>3. CASE c = b
      BY <1>4, <3>1, <3>3
    <3> QED
      BY <1>4, <3>1, <3>2, <3>3
  <2> QED
    BY <1>4, <2>1, <2>2, PlacingIs
<1>6. ASSUME NEW c \in 1..n, NEW d \in 1..n
      PROVE  r[c] < r[d] /\ s[c] > s[d]
                <=> (q[c] < q[d] /\ s[c] > s[d]) /\ ~(c = a /\ d = b)
  <2>1. q[c] \in Nat /\ q[d] \in Nat /\ s[c] \in Nat /\ s[d] \in Nat
        /\ s[a] \in Nat /\ s[b] \in Nat
    BY <1>2
  <2>2. \A e \in 1..n : e # a /\ e # b => q[e] # q[a] /\ q[e] # q[b]
    BY <1>1, Zenon
  <2>3. CASE c \in {a, b} /\ d \in {a, b}
    <3>1. ~(s[a] > s[a]) /\ ~(s[b] > s[b]) /\ ~(s[b] > s[a])
      BY <2>1
    <3>2. ~(q[b] < q[a])
      BY <1>3
    <3>3. CASE c = a /\ d = b
      BY <1>4, <3>2, <3>3
    <3>4. CASE ~(c = a /\ d = b)
      <4>1. ~(s[c] > s[d])
        BY <2>3, <3>1, <3>4
      <4> QED
        BY <4>1
    <3> QED
      BY <3>3, <3>4
  <2>4. CASE c \in {a, b} /\ d \notin {a, b}
    <3>1. r[d] = q[d] /\ q[d] # q[a] /\ q[d] # q[b]
      BY <1>4, <2>2, <2>4
    <3>2. q[a] < q[d] <=> q[b] < q[d]
      BY <1>3, <2>1, <3>1, NothingBetween, ZenonT(30)
    <3>3. r[c] < r[d] <=> q[c] < q[d]
      BY <1>4, <2>4, <3>1, <3>2
    <3> QED
      BY <2>4, <3>3
  <2>5. CASE c \notin {a, b} /\ d \in {a, b}
    <3>1. r[c] = q[c] /\ q[c] # q[a] /\ q[c] # q[b]
      BY <1>4, <2>2, <2>5
    <3>2. q[c] < q[a] <=> q[c] < q[b]
      BY <1>3, <2>1, <3>1, NothingBetween
    <3>3. r[c] < r[d] <=> q[c] < q[d]
      BY <1>4, <2>5, <3>1, <3>2
    <3> QED
      BY <2>5, <3>3
  <2>6. CASE c \notin {a, b} /\ d \notin {a, b}
    <3>1. r[c] = q[c] /\ r[d] = q[d]
      BY <1>4, <2>6
    <3> QED
      BY <2>6, <3>1
  <2> QED
    BY <2>3, <2>4, <2>5, <2>6
<1>7. Inversions(s, n, r) = Inversions(s, n, q) \ {<<a, b>>}
  <2>1. ASSUME NEW x \in (1..n) \X (1..n)
        PROVE  x \in Inversions(s, n, r) <=> x \in Inversions(s, n, q) /\ x # <<a, b>>
    <3>1. x[1] \in 1..n /\ x[2] \in 1..n /\ x = <<x[1], x[2]>>
      OBVIOUS
    <3>2. x = <<a, b>> <=> x[1] = a /\ x[2] = b
      BY <3>1
    <3> QED
      BY <1>6, <3>1, <3>2 DEF Inversions
  <2>2. /\ Inversions(s, n, r) \subseteq (1..n) \X (1..n)
        /\ Inversions(s, n, q) \subseteq (1..n) \X (1..n)
    BY DEF Inversions
  <2> QED
    BY <2>1, <2>2
<1>8. <<a, b>> \in Inversions(s, n, q)
  <2>1. q[a] < q[b]
    BY <1>3
  <2> QED
    BY <2>1 DEF Inversions
<1>9. Cardinality(Inversions(s, n, r)) = Cardinality(Inversions(s, n, q)) - 1
    BY <1>7, <1>8, InversionsFinite, FS_RemoveElement
<1> QED
    BY <1>5, <1>9, InversionsFinite

\* Any samples can be sorted.
LEMMA CanBeSorted ==
    ASSUME NEW n \in Nat, NEW s \in [1..n -> Nat]
    PROVE  \E p \in Placing(n) : \A i, j \in 1..n : i < j => s[p[i]] <= s[p[j]]
<1> DEFINE T == {Cardinality(Inversions(s, n, q)) : q \in Placing(n)}
           id == [c \in 1..n |-> c]
<1>1. T \in SUBSET Nat
    BY InversionsFinite
<1>2. id \in Placing(n)
    BY PlacingIs
<1>3. T # {}
    BY <1>2
<1>4. PICK m \in T : \A y \in T : m <= y
    BY <1>1, <1>3, LeastNat
<1>5. PICK q \in Placing(n) : m = Cardinality(Inversions(s, n, q))
    BY <1>4
<1>6. ASSUME NEW r \in Placing(n)
      PROVE  ~(Cardinality(Inversions(s, n, r)) < Cardinality(Inversions(s, n, q)))
  <2>1. Cardinality(Inversions(s, n, r)) \in T
    OBVIOUS
  <2>2. Cardinality(Inversions(s, n, q)) <= Cardinality(Inversions(s, n, r))
    BY <1>4, <1>5, <2>1
  <2> QED
    BY <2>2, InversionsFinite
<1>7. Inversions(s, n, q) = {}
    BY <1>6, CloseInversion, SwapNeighbours
<1>8. /\ q \in [1..n -> 1..n]
      /\ \A a, b \in 1..n : q[a] = q[b] => a = b
      /\ \A i \in 1..n : \E a \in 1..n : q[a] = i
    BY PlacingIs
<1> DEFINE p == [i \in 1..n |-> CHOOSE a \in 1..n : q[a] = i]
<1>9. p \in [1..n -> 1..n] /\ \A i \in 1..n : q[p[i]] = i
    BY <1>8
<1> HIDE DEF p
<1>10. ASSUME NEW a \in 1..n PROVE q[a] \in 1..n /\ p[q[a]] = a
  <2>1. q[a] \in 1..n
    BY <1>8
  <2>2. p[q[a]] \in 1..n /\ q[p[q[a]]] = q[a]
    BY <1>9, <2>1
  <2> QED
    BY <1>8, <2>1, <2>2
<1>11. p \in Placing(n)
  <2>1. \A i, j \in 1..n : p[i] = p[j] => i = j
    BY <1>9
  <2> QED
    BY <1>9, <1>10, <2>1, PlacingIs
<1>12. ASSUME NEW i \in 1..n, NEW j \in 1..n, i < j PROVE s[p[i]] <= s[p[j]]
  <2>1. <<p[i], p[j]>> \notin Inversions(s, n, q) /\ p[i] \in 1..n /\ p[j] \in 1..n
    BY <1>7, <1>9
  <2>2. ~(s[p[i]] > s[p[j]])
    BY <1>9, <1>12, <2>1 DEF Inversions
  <2> QED
    BY <2>1, <2>2, SMTT(30)
<1> QED
    BY <1>11, <1>12

\* What stats gets from sort.Slice: the samples in ascending order.
LEMMA SortedIs ==
    ASSUME NEW s \in Seq(Nat)
    PROVE  /\ \A i \in 1..Len(s) : \E j \in 1..Len(s) : Sorted(s)[i] = s[j]
           /\ \A j \in 1..Len(s) : \E i \in 1..Len(s) : Sorted(s)[i] = s[j]
           /\ \A i, j \in 1..Len(s) : i <= j => Sorted(s)[i] <= Sorted(s)[j]
<1> DEFINE n == Len(s)
           Ascending(p) == \A i, j \in 1..n : i < j => s[p[i]] <= s[p[j]]
           order == CHOOSE p \in Placing(n) : Ascending(p)
<1>1. n \in Nat /\ s \in [1..n -> Nat]
    OBVIOUS
<1>2. order \in Placing(n) /\ Ascending(order)
  <2>1. \E p \in Placing(n) : Ascending(p)
    BY <1>1, CanBeSorted
  <2> QED
    BY <2>1
<1>3. Sorted(s) = [i \in 1..n |-> s[order[i]]]
    BY DEF Sorted, Placing
<1> HIDE DEF n, order
<1>4. /\ order \in [1..n -> 1..n]
      /\ \A a \in 1..n : \E i \in 1..n : order[i] = a
    BY <1>1, <1>2, PlacingIs
<1>5. \A i \in 1..n : Sorted(s)[i] = s[order[i]] /\ Sorted(s)[i] \in Nat
    BY <1>1, <1>3, <1>4
<1>6. \A i, j \in 1..n : i < j => Sorted(s)[i] <= Sorted(s)[j]
    BY <1>2, <1>5
<1>7. \A i, j \in 1..n : i <= j => Sorted(s)[i] <= Sorted(s)[j]
    BY <1>1, <1>5, <1>6
<1>8. \A i \in 1..n : \E j \in 1..n : Sorted(s)[i] = s[j]
    BY <1>4, <1>5
<1>9. \A j \in 1..n : \E i \in 1..n : Sorted(s)[i] = s[j]
    BY <1>4, <1>5
<1> QED
    BY <1>7, <1>8, <1>9 DEF n

-----------------------------------------------------------------------------
(* The record's statistics *)

\* Each quantile is at a sample, and a higher one is not before a lower one.
LEMMA QuantilesAt ==
    ASSUME NEW n \in Nat \ {0}
    PROVE  /\ ((n - 1) * 50) \div 100 + 1 \in 1..n
           /\ ((n - 1) * 90) \div 100 + 1 \in 1..n
           /\ ((n - 1) * 95) \div 100 + 1 \in 1..n
           /\ ((n - 1) * 99) \div 100 + 1 \in 1..n
           /\ ((n - 1) * 50) \div 100 + 1 <= ((n - 1) * 90) \div 100 + 1
           /\ ((n - 1) * 90) \div 100 + 1 <= ((n - 1) * 95) \div 100 + 1
           /\ ((n - 1) * 95) \div 100 + 1 <= ((n - 1) * 99) \div 100 + 1
  OBVIOUS

\* What stats makes of any samples.
LEMMA StatsOrdered ==
    ASSUME NEW s \in Seq(Nat), s # <<>>
    PROVE  /\ \A i \in DOMAIN Stats(s) : \E j \in DOMAIN s : Stats(s)[i] = s[j]
           /\ \A i \in 1..(Len(Stats(s)) - 1) : Stats(s)[i] <= Stats(s)[i + 1]
           /\ \A j \in DOMAIN s : Stats(s)[1] <= s[j] /\ s[j] <= Stats(s)[Len(Stats(s))]
<1> DEFINE n == Len(s)
           t == Sorted(s)
           st == Stats(s)
           p50 == ((n - 1) * 50) \div 100 + 1
           p90 == ((n - 1) * 90) \div 100 + 1
           p95 == ((n - 1) * 95) \div 100 + 1
           p99 == ((n - 1) * 99) \div 100 + 1
<1>1. n \in Nat \ {0} /\ DOMAIN s = 1..n /\ 1 \in 1..n /\ n \in 1..n
    OBVIOUS
<1>2. /\ \A i \in 1..n : \E j \in 1..n : t[i] = s[j]
      /\ \A j \in 1..n : \E i \in 1..n : t[i] = s[j]
      /\ \A i, j \in 1..n : i <= j => t[i] <= t[j]
    BY SortedIs
<1>3. st = <<t[1], t[p50], t[p90], t[p95], t[p99], t[n]>>
    BY DEF Stats, Quantile
<1> HIDE DEF t, st, n
<1>4. /\ p50 \in 1..n /\ p90 \in 1..n /\ p95 \in 1..n /\ p99 \in 1..n
      /\ p50 <= p90 /\ p90 <= p95 /\ p95 <= p99
    BY <1>1, QuantilesAt
<1> HIDE DEF p50, p90, p95, p99
<1>5. 1 <= p50 /\ p99 <= n
    BY <1>1, <1>4
<1>6. t[1] <= t[p50] /\ t[p50] <= t[p90] /\ t[p90] <= t[p95] /\ t[p95] <= t[p99] /\ t[p99] <= t[n]
    BY <1>1, <1>2, <1>4, <1>5
<1>7. /\ Len(st) = 6 /\ DOMAIN st = 1..6
      /\ st[1] = t[1] /\ st[2] = t[p50] /\ st[3] = t[p90]
      /\ st[4] = t[p95] /\ st[5] = t[p99] /\ st[6] = t[n]
    BY <1>3
<1>8. ASSUME NEW i \in DOMAIN st PROVE \E j \in DOMAIN s : st[i] = s[j]
  <2>1. i \in {1, 2, 3, 4, 5, 6}
    BY <1>7
  <2>2. \E k \in 1..n : st[i] = t[k]
    BY <1>1, <1>4, <1>7, <2>1
  <2> QED
    BY <1>1, <1>2, <2>2
<1>9. ASSUME NEW i \in 1..(Len(st) - 1) PROVE st[i] <= st[i + 1]
  <2>1. i \in {1, 2, 3, 4, 5}
    BY <1>7
  <2>2. st[1] <= st[2] /\ st[2] <= st[3] /\ st[3] <= st[4] /\ st[4] <= st[5] /\ st[5] <= st[6]
    BY <1>6, <1>7
  <2> QED
    BY <2>1, <2>2, SMTT(30)
<1>10. ASSUME NEW j \in DOMAIN s PROVE st[1] <= s[j] /\ s[j] <= st[Len(st)]
  <2>1. PICK i \in 1..n : t[i] = s[j]
    BY <1>1, <1>2
  <2>2. 1 <= i /\ i <= n
    BY <1>1
  <2>3. t[1] <= t[i] /\ t[i] <= t[n]
    BY <1>1, <1>2, <2>2
  <2> QED
    BY <1>7, <2>1, <2>3
<1> QED
    BY <1>8, <1>9, <1>10 DEF st

-----------------------------------------------------------------------------
(* Theorems *)

\* The benchmark's variables have their types: in particular doFreshStream never
\* counts more errors than it made opens, and no Write goes into a full tunnel.
THEOREM BenchTypeCorrect == Spec => []TypeOK
<1>1. BenchInv => TypeOK
  <2> SUFFICES ASSUME BenchInv PROVE TypeOK
    OBVIOUS
  <2>1. conn \in 0..FreshN /\ errs \in 0..FreshN
    BY BenchAssumption DEF BenchInv, Types, OpensInv, Working
  <2> QED
    BY <2>1 DEF BenchInv, Types, TypeOK, Working
<1> QED
    BY <1>1, BenchAlways, PTL

\* doLatency and doIdle never take the echo of one ping for that of another, though
\* they compare nothing.
THEOREM EchoesAreOwn == Spec => []OwnEcho
<1>1. BenchInv => OwnEcho
    BY DEF BenchInv, BeatsInv, Pinging, OwnEcho
<1> QED
    BY <1>1, BenchAlways, PTL

\* The last record of doLatency, doFreshStream and doIdle accounts for every ping,
\* open and beat that was tried.
THEOREM RecordsAreHonest == Spec => []HonestRecord
<1>1. BenchInv => HonestRecord
    BY DEF BenchInv, OpensInv, BeatsInv, Pinging, HonestRecord
<1> QED
    BY <1>1, BenchAlways, PTL

\* The min, quantiles and max of every record are samples in ascending order and
\* bound them all (stats), for any number of samples and any times.
THEOREM RecordsAreOrdered == Spec => []QuantilesOrdered
<1>1. BenchInv => QuantilesOrdered
  <2> DEFINE ms == [i \in DOMAIN samples |-> samples[i].ms]
  <2> SUFFICES ASSUME BenchInv, samples # <<>>
               PROVE  /\ \A i \in DOMAIN Stats(ms) : \E j \in DOMAIN ms : Stats(ms)[i] = ms[j]
                      /\ \A i \in 1..(Len(Stats(ms)) - 1) : Stats(ms)[i] <= Stats(ms)[i + 1]
                      /\ \A j \in DOMAIN ms :
                            Stats(ms)[1] <= ms[j] /\ ms[j] <= Stats(ms)[Len(Stats(ms))]
    BY DEF QuantilesOrdered
  <2>1. samples \in Seq(Sample)
    BY DEF BenchInv, Types
  <2>2. ms \in Seq(Nat) /\ ms # <<>>
    <3>1. Len(samples) \in Nat \ {0} /\ DOMAIN samples = 1..Len(samples)
      BY <2>1
    <3>2. \A i \in 1..Len(samples) : samples[i] \in Sample
      BY <2>1
    <3>3. \A i \in 1..Len(samples) : samples[i].ms \in Nat
      BY <3>2 DEF Sample
    <3>4. ms \in [1..Len(samples) -> Nat]
      BY <3>1, <3>3
    <3>5. ms \in Seq(Nat) /\ Len(ms) = Len(samples)
      BY <3>1, <3>4, SeqDef
    <3> QED
      BY <3>1, <3>5
  <2> HIDE DEF ms
  <2> QED
    BY <2>2, StatsOrdered
<1> QED
    BY <1>1, BenchAlways, PTL

==============================================================================
