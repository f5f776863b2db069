--------------------------- MODULE TransportSetup ---------------------------
(***************************************************************************)
(* How the two peers get a session over the ICE path they have found:      *)
(* Dial makes NumSubconns QUIC connections one after the other, for 120 s  *)
(* at most, and Serve accepts as many, for 60 s at most.  A peer that      *)
(* fails, and one whose session has lost a connection, closes its          *)
(* connections and its end of the ICE path (runOnce).                      *)
(*                                                                         *)
(* The QUIC handshake (external) is three flights: after the second the    *)
(* client has the connection, after the third the server, whose listener   *)
(* then has it for Accept.  What was sent once may arrive at any time,     *)
(* often or never, and is dropped where PacketBuffer is full; flights are  *)
(* sent again until they have been acted upon, a CONNECTION_CLOSE is not.  *)
(***************************************************************************)
EXTENDS PacketBuffer, FiniteSets

CONSTANTS
    NumSubconns   \* numSubconns

Subconns == 1..NumSubconns

ASSUME SetupAssumption == NumSubconns \in Nat \ {0}

VARIABLES
    stage,      \* of each end: in Serve or Dial, session up, or over
    conn,       \* of each end: the QUIC connections
    backlog,    \* connections in the listener's queue
    accepted,   \* those Serve has accepted
    sent        \* datagrams sent so far

setupVars == <<stage, conn, backlog, accepted, sent>>
vars == <<bufferVars, setupVars>>

Peer(e) == IF e = "serve" THEN "dial" ELSE "serve"

Datagram == [to : Ends, kind : {"initial", "reply", "finish", "close"}, id : Subconns]

Packet(e, k, i) == [to |-> e, kind |-> k, id |-> i]

Init ==
    /\ BufferInit
    /\ stage = [e \in Ends |-> "setup"]
    /\ conn = [e \in Ends |-> [i \in Subconns |-> "none"]]
    /\ backlog = {} /\ accepted = {}
    /\ sent = {}

-----------------------------------------------------------------------------
(* Dial and Serve *)

Alive(e, i) == conn[e][i] \in {"half", "up"}

\* Dial calls tr.Dial when it has all connections before.
DialNext(i) ==
    /\ stage["dial"] = "setup" /\ conn["dial"][i] = "none"
    /\ \A j \in 1..(i - 1) : conn["dial"][j] \in {"up", "dead"}
    /\ conn' = [conn EXCEPT !["dial"][i] = "half"]
    /\ sent' = sent \cup {Packet("serve", "initial", i)}
    /\ UNCHANGED <<bufferVars, stage, backlog, accepted>>

\* Dial has all its connections, one or the other already lost again.
DialDone ==
    /\ stage["dial"] = "setup"
    /\ \A i \in Subconns : conn["dial"][i] \in {"up", "dead"}
    /\ stage' = [stage EXCEPT !["dial"] = "up"]
    /\ UNCHANGED <<bufferVars, conn, backlog, accepted, sent>>

\* lst.Accept returns a connection, already lost again or not.
Accept(i) ==
    /\ stage["serve"] = "setup" /\ i \in backlog
    /\ Cardinality(accepted) < NumSubconns
    /\ backlog' = backlog \ {i}
    /\ accepted' = accepted \cup {i}
    /\ UNCHANGED <<bufferVars, stage, conn, sent>>

\* Mutant: one connection short.
ServeDoneEarly ==
    /\ stage["serve"] = "setup" /\ Cardinality(accepted) = NumSubconns - 1
    /\ stage' = [stage EXCEPT !["serve"] = "up"]
    /\ UNCHANGED <<bufferVars, conn, backlog, accepted, sent>>

\* Serve has accepted all and closes the listener.
ServeDone ==
    /\ stage["serve"] = "setup" /\ Cardinality(accepted) = NumSubconns
    /\ stage' = [stage EXCEPT !["serve"] = "up"]
    /\ UNCHANGED <<bufferVars, conn, backlog, accepted, sent>>

\* A connection that is lost was there, or failed in its handshake.
Lost(c) == IF c = "half" THEN "failed" ELSE IF c = "up" THEN "dead" ELSE c

\* Nothing is left of the end: no connection and no ICE connection.
Vanish(e) ==
    /\ stage' = [stage EXCEPT ![e] = "over"]
    /\ conn' = [conn EXCEPT ![e] = [i \in Subconns |-> Lost(@[i])]]
    /\ iceOpen' = [iceOpen EXCEPT ![e] = FALSE]
    /\ UNCHANGED <<queue, done, reading, backlog, accepted>>

\* The end closes its connections, then its ICE connection.
CloseEnd(e) ==
    /\ Vanish(e)
    /\ sent' = sent \cup {Packet(Peer(e), "close", i) : i \in {j \in Subconns : Alive(e, j)}}

\* The deadline passes: 60 s for Serve, 120 s for Dial, each from its own start.
TimesOut(e) ==
    /\ stage[e] = "setup"
    /\ CloseEnd(e)

\* tr.Dial fails: the other end has closed the connection in its handshake.
DialFails ==
    /\ stage["dial"] = "setup" /\ \E i \in Subconns : conn["dial"][i] = "failed"
    /\ CloseEnd("dial")

\* Mutant: nobody calls Wait.
EndSessionNever(e) ==
    /\ stage[e] = "up" /\ (\A i \in Subconns : conn[e][i] = "none")
    /\ CloseEnd(e)

\* A connection of the session is lost and runOnce closes the rest.
EndSession(e) ==
    /\ stage[e] = "up" /\ (\E i \in Subconns : conn[e][i] = "dead")
    /\ CloseEnd(e)

\* The process is told to stop, which Serve and Dial do not notice.
Signal(e) ==
    /\ stage[e] = "up"
    /\ CloseEnd(e)

\* The process dies (external).
Crash(e) ==
    /\ stage[e] # "over"
    /\ Vanish(e)
    /\ UNCHANGED sent

-----------------------------------------------------------------------------
(* QUIC (external) *)

Arrives(m) ==
    /\ DrainQueues(m.to, m)
    /\ UNCHANGED setupVars

\* What the handshake of m's connection comes to when m is read.
Handshake(m) ==
    LET e == m.to  c == conn[e][m.id] IN
    CASE m.kind = "initial" /\ c = "none" /\ stage[e] = "setup" ->
            /\ conn' = [conn EXCEPT ![e][m.id] = "half"]
            /\ sent' = sent \cup {Packet(Peer(e), "reply", m.id)}
            /\ UNCHANGED backlog
      [] m.kind = "reply" /\ c = "half" ->
            /\ conn' = [conn EXCEPT ![e][m.id] = "up"]
            /\ sent' = sent \cup {Packet(Peer(e), "finish", m.id)}
            /\ UNCHANGED backlog
      [] m.kind = "finish" /\ c = "half" ->
            /\ conn' = [conn EXCEPT ![e][m.id] = "up"]
            /\ backlog' = backlog \cup {m.id}
            /\ UNCHANGED sent
      [] m.kind = "close" /\ c \in {"half", "up"} ->
            /\ conn' = [conn EXCEPT ![e][m.id] = Lost(@)]
            /\ UNCHANGED <<sent, backlog>>
      [] OTHER -> UNCHANGED <<conn, sent, backlog>>

Receives(e) ==
    /\ ReadFrom(e)
    /\ Handshake(Head(queue[e]))
    /\ UNCHANGED <<stage, accepted>>

\* A connection nobody is left to answer for times out.
IdleTimeout(e, i) ==
    /\ conn[e][i] = "up" /\ conn[Peer(e)][i] \in {"dead", "failed"}
    /\ conn' = [conn EXCEPT ![e][i] = "dead"]
    /\ UNCHANGED <<bufferVars, stage, backlog, accepted, sent>>

-----------------------------------------------------------------------------

Buffer(e) == (DrainEnds(e) \/ ReadFromFails(e)) /\ UNCHANGED setupVars

DialStep == DialDone \/ DialFails \/ \E i \in Subconns : DialNext(i)

ServeStep == ServeDone \/ \E i \in Subconns : Accept(i)

Next ==
    \/ DialStep \/ ServeStep
    \/ \E e \in Ends : TimesOut(e) \/ EndSession(e) \/ Signal(e) \/ Crash(e) \/ Receives(e) \/ Buffer(e)
    \/ \E e \in Ends, i \in Subconns : IdleTimeout(e, i)
    \/ \E m \in sent : Arrives(m)

Spec == Init /\ [][Next]_vars

\* m is still sent again: its sender has the connection and has not seen it
\* acted upon.
Unanswered(m) ==
    LET there == conn[m.to][m.id] IN
    /\ conn[Peer(m.to)][m.id] \in {"half", "up"}
    /\ \/ m.kind = "initial" /\ there = "none"
       \/ m.kind \in {"reply", "finish"} /\ there = "half"

\* The goroutines run; what is sent again and again arrives and is not always
\* dropped; the deadline of an end that is left alone passes.
Fairness ==
    /\ WF_vars(DialStep) /\ WF_vars(ServeStep)
    /\ \A e \in Ends :
        /\ WF_vars(Receives(e)) /\ WF_vars(Buffer(e)) /\ WF_vars(EndSession(e))
        /\ WF_vars(stage[Peer(e)] = "over" /\ TimesOut(e))
        /\ \A i \in Subconns : WF_vars(IdleTimeout(e, i))
    /\ \A i \in Subconns : SF_vars(\E m \in sent : m.id = i /\ Unanswered(m) /\ Arrives(m))

FairSpec == Spec /\ Fairness

-----------------------------------------------------------------------------
(* Properties *)

\* The queues stay within their capacity.
TypeOK ==
    /\ iceOpen \in [Ends -> BOOLEAN] /\ done \in [Ends -> BOOLEAN]
    /\ reading \in [Ends -> BOOLEAN]
    /\ queue \in [Ends -> Seq(Datagram)] /\ \A e \in Ends : Len(queue[e]) <= QueueCap
    /\ stage \in [Ends -> {"setup", "up", "over"}]
    /\ conn \in [Ends -> [Subconns -> {"none", "half", "up", "dead", "failed"}]]
    /\ backlog \subseteq Subconns /\ accepted \subseteq Subconns
    /\ sent \subseteq Datagram

\* A session that Serve returns has all its connections at the other end too:
\* Dial got every one of them, even if it has given some up since.
ServedWasDialed ==
    stage["serve"] = "up" => \A i \in Subconns : conn["dial"][i] \in {"up", "dead"}

\* If nobody gives up, both peers get their session: datagrams lost, delayed,
\* doubled, or dropped by a full queue hold it up and do not stop it.
SetupResolves ==
    <>((\E e \in Ends : stage[e] = "over") \/ (\A e \in Ends : stage[e] = "up"))

\* No session is left with one end.  If one peer gives up, even when the other
\* has all its connections already (Serve waits 60 s, Dial 120 s), the other
\* one's turn ends as well.
NoHalfSession == (\E e \in Ends : stage[e] = "over") ~> (\A e \in Ends : stage[e] = "over")

\* The goroutines under a session end with the ICE connection, though nobody
\* closes the Transport: drain, and the read loop of quic-go.
ReadersEnd == \A e \in Ends : stage[e] = "over" ~> done[e] /\ ~reading[e]

=============================================================================
