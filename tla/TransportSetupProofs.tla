------------------------ MODULE TransportSetupProofs ------------------------
(***************************************************************************)
(* TLAPS proof that a session Serve returns has been dialed completely,    *)
(* for any number of connections and any capacity of the packet buffers,   *)
(* whatever the path loses, doubles or reorders.                           *)
(***************************************************************************)
EXTENDS TransportSetup, FiniteSetTheorems, TLAPS

Had == {"up", "dead"}

\* Flights go one way, and the last one is sent by a Dial that has the
\* connection.
FlightsInv ==
    \A m \in sent : /\ m.kind \in {"initial", "finish"} => m.to = "serve"
                    /\ m.kind = "reply" => m.to = "dial"
                    /\ m.kind = "finish" => conn["dial"][m.id] \in Had

\* Only what was sent to an end gets into its queue.
QueueInv == \A e \in Ends : queue[e] \in Seq({m \in sent : m.to = e})

\* The listener has a connection only after Dial has it, and Serve returns only
\* with all of them.
ListenerInv ==
    /\ \A i \in Subconns : conn["serve"][i] \in Had => conn["dial"][i] \in Had
    /\ \A i \in backlog \cup accepted : conn["serve"][i] \in Had
    /\ stage["serve"] = "up" => accepted = Subconns

SetupInv == TypeOK /\ FlightsInv /\ QueueInv /\ ListenerInv

-----------------------------------------------------------------------------

\* The two ends are each other's peer.
LEMMA PeerEnd == \A e \in Ends : Peer(e) \in Ends /\ Peer(Peer(e)) = e /\ Peer(e) # e
  BY DEF Ends, Peer

\* The packets of the two ends are datagrams.
LEMMA PacketType ==
    ASSUME NEW e \in Ends, NEW i \in Subconns,
           NEW k \in {"initial", "reply", "finish", "close"}
    PROVE  /\ Packet(e, k, i) \in Datagram
           /\ Packet(e, k, i).to = e /\ Packet(e, k, i).kind = k /\ Packet(e, k, i).id = i
  BY DEF Packet, Datagram

\* Serve has as many connections as there are only if it has all of them.
LEMMA AllAccepted ==
    ASSUME accepted \subseteq Subconns, Cardinality(accepted) = NumSubconns
    PROVE  accepted = Subconns
<1>1. IsFiniteSet(Subconns) /\ Cardinality(Subconns) = NumSubconns
  <2>1. 1 \in Int /\ NumSubconns \in Int /\ 1 <= NumSubconns
    BY SetupAssumption
  <2> QED
    BY <2>1, FS_Interval DEF Subconns
<1> QED
    BY <1>1, FS_Subset

\* When the two ends start, nothing has been sent.
LEMMA InitSetupInv == Init => SetupInv
<1> SUFFICES ASSUME Init PROVE SetupInv
    OBVIOUS
<1> USE DEF Init, BufferInit
<1>1. TypeOK
    BY BufferAssumption DEF TypeOK
<1>2. FlightsInv /\ QueueInv
    BY DEF FlightsInv, QueueInv
<1>3. ListenerInv
    BY DEF ListenerInv, Had, Ends
<1> QED
    BY <1>1, <1>2, <1>3 DEF SetupInv

\* A queue of what was sent keeps being one when more is sent.
LEMMA MoreSent ==
    ASSUME \A e \in Ends : queue'[e] \in Seq({m \in sent : m.to = e}), sent \subseteq sent'
    PROVE  QueueInv'
<1>1. ASSUME NEW e \in Ends PROVE queue'[e] \in Seq({m \in sent' : m.to = e})
  <2>1. queue'[e] \in Seq({m \in sent : m.to = e})
    OBVIOUS
  <2>2. {m \in sent : m.to = e} \subseteq {m \in sent' : m.to = e}
    OBVIOUS
  <2> QED
    BY <2>1, <2>2
<1> QED
    BY <1>1 DEF QueueInv

\* Dial and Serve keep the invariant.
LEMMA CallsKeep == ASSUME SetupInv, DialStep \/ ServeStep, ~DialFails PROVE SetupInv'
<1> USE DEF SetupInv, bufferVars
<1>e. "dial" \in Ends /\ "serve" \in Ends
    BY DEF Ends
<1>1. ASSUME NEW i \in Subconns, DialNext(i) PROVE SetupInv'
  <2> DEFINE p == Packet("serve", "initial", i)
  <2>1. p \in Datagram /\ p.to = "serve" /\ p.kind = "initial" /\ p.id = i
    BY <1>e, PacketType
  <2>2. /\ conn["dial"][i] = "none" /\ conn' = [conn EXCEPT !["dial"][i] = "half"]
        /\ sent' = sent \cup {p}
        /\ UNCHANGED <<iceOpen, queue, done, reading, stage, backlog, accepted>>
    BY <1>1 DEF DialNext
  <2> HIDE DEF p
  <2>3. TypeOK'
    BY <2>1, <2>2 DEF TypeOK
  <2>4. conn \in [Ends -> [Subconns -> {"none", "half", "up", "dead", "failed"}]]
    BY DEF TypeOK
  <2>5. \A j \in Subconns : /\ conn["dial"][j] \in Had => conn'["dial"][j] \in Had
                            /\ conn'["serve"][j] = conn["serve"][j]
    BY <1>e, <2>2, <2>4 DEF Had
  <2>6. FlightsInv'
    BY <2>1, <2>2, <2>5 DEF FlightsInv, TypeOK, Datagram
  <2>7. ListenerInv'
    BY <2>2, <2>5 DEF ListenerInv, TypeOK
  <2> QED
    BY <2>2, <2>3, <2>6, <2>7, MoreSent DEF QueueInv
<1>2. CASE DialDone
  <2>1. /\ stage' = [stage EXCEPT !["dial"] = "up"]
        /\ UNCHANGED <<iceOpen, queue, done, reading, conn, backlog, accepted, sent>>
    BY <1>2 DEF DialDone
  <2> QED
    BY <2>1, <1>e DEF TypeOK, FlightsInv, QueueInv, ListenerInv
<1>3. CASE ServeDone
  <2>1. /\ stage' = [stage EXCEPT !["serve"] = "up"]
        /\ UNCHANGED <<iceOpen, queue, done, reading, conn, backlog, accepted, sent>>
    BY <1>3 DEF ServeDone
  <2>2. accepted = Subconns
    BY <1>3, AllAccepted DEF ServeDone, TypeOK
  <2> QED
    BY <2>1, <2>2, <1>e DEF TypeOK, FlightsInv, QueueInv, ListenerInv
<1>4. ASSUME NEW i \in Subconns, Accept(i) PROVE SetupInv'
  <2>1. /\ i \in backlog /\ stage["serve"] = "setup"
        /\ backlog' = backlog \ {i} /\ accepted' = accepted \cup {i}
        /\ UNCHANGED <<iceOpen, queue, done, reading, conn, stage, sent>>
    BY <1>4 DEF Accept
  <2> QED
    BY <2>1 DEF TypeOK, FlightsInv, QueueInv, ListenerInv
<1> QED
    BY <1>1, <1>2, <1>3, <1>4 DEF DialStep, ServeStep

\* Closing or losing an end keeps the invariant: connections that were there stay
\* connections that were there.
LEMMA VanishKeeps ==
    ASSUME SetupInv, NEW e \in Ends, Vanish(e),
           \/ sent' = sent
           \/ sent' = sent \cup {Packet(Peer(e), "close", i) : i \in {j \in Subconns : Alive(e, j)}}
    PROVE  SetupInv'
<1> USE DEF SetupInv
<1>1. /\ stage' = [stage EXCEPT ![e] = "over"]
      /\ conn' = [conn EXCEPT ![e] = [i \in Subconns |-> Lost(conn[e][i])]]
      /\ iceOpen' = [iceOpen EXCEPT ![e] = FALSE]
      /\ UNCHANGED <<queue, done, reading, backlog, accepted>>
    BY DEF Vanish
<1>2. \A f \in Ends, j \in Subconns :
        /\ conn'[f][j] \in {"none", "half", "up", "dead", "failed"}
        /\ conn'[f][j] \in Had <=> conn[f][j] \in Had
    BY <1>1 DEF TypeOK, Lost, Had
<1>3. sent \subseteq sent'
    OBVIOUS
<1>4. \A m \in sent' : m \in sent \/ (m \in Datagram /\ m.kind = "close")
  <2>1. \A i \in Subconns : Packet(Peer(e), "close", i) \in Datagram
                            /\ Packet(Peer(e), "close", i).kind = "close"
    BY PeerEnd, PacketType
  <2> QED
    BY <2>1
<1>5. TypeOK'
  <2>1. conn' \in [Ends -> [Subconns -> {"none", "half", "up", "dead", "failed"}]]
    BY <1>1, <1>2 DEF TypeOK
  <2>2. sent' \subseteq Datagram
    BY <1>4 DEF TypeOK
  <2> QED
    BY <1>1, <2>1, <2>2 DEF TypeOK
<1>6. FlightsInv'
  <2>1. ASSUME NEW m \in sent' PROVE m \in sent => m.id \in Subconns
    BY DEF TypeOK, Datagram
  <2> QED
    BY <1>2, <1>4, <2>1 DEF FlightsInv, Ends
<1>7. QueueInv'
    BY <1>1, <1>3, MoreSent DEF QueueInv
<1>8. ListenerInv'
    BY <1>1, <1>2 DEF ListenerInv, TypeOK, Ends
<1> QED
    BY <1>5, <1>6, <1>7, <1>8

\* A datagram that arrives, and the packet buffers.
LEMMA BufferKeeps ==
    ASSUME SetupInv, (\E m \in sent : Arrives(m)) \/ (\E e \in Ends : Buffer(e))
    PROVE  SetupInv'
<1> USE BufferAssumption
<1> USE DEF SetupInv, setupVars
<1>1. ASSUME NEW m \in sent, Arrives(m) PROVE SetupInv'
  <2>1. m.to \in Ends /\ m \in Datagram
    BY DEF TypeOK, Datagram
  <2>2. /\ Len(queue[m.to]) < QueueCap
        /\ queue' = [queue EXCEPT ![m.to] = Append(@, m)]
        /\ UNCHANGED <<iceOpen, done, reading, stage, conn, backlog, accepted, sent>>
    BY <1>1 DEF Arrives, DrainQueues, HasRoom
  <2>3. TypeOK'
    BY <2>1, <2>2 DEF TypeOK
  <2>4. QueueInv'
    BY <2>1, <2>2 DEF QueueInv, TypeOK
  <2> QED
    BY <2>2, <2>3, <2>4 DEF FlightsInv, ListenerInv
<1>2. ASSUME NEW e \in Ends, Buffer(e) PROVE SetupInv'
  <2>1. /\ UNCHANGED <<iceOpen, queue, stage, conn, backlog, accepted, sent>>
        /\ done' \in [Ends -> BOOLEAN] /\ reading' \in [Ends -> BOOLEAN]
    BY <1>2 DEF Buffer, DrainEnds, ReadFromFails, TypeOK
  <2> QED
    BY <2>1 DEF TypeOK, FlightsInv, QueueInv, ListenerInv
<1> QED
    BY <1>1, <1>2

\* A packet that is read.  Only a finish, sent by a Dial that has the connection,
\* gets it into the listener's queue.
LEMMA ReceiveKeeps == ASSUME SetupInv, NEW e \in Ends, Receives(e) PROVE SetupInv'
<1> USE DEF SetupInv
<1> DEFINE m == Head(queue[e])  i == m.id
           States == {"none", "half", "up", "dead", "failed"}
<1>1. queue[e] # <<>> /\ queue[e] \in Seq({p \in sent : p.to = e})
    BY DEF Receives, ReadFrom, QueueInv
<1>2. m \in sent /\ m.to = e /\ Tail(queue[e]) \in Seq({p \in sent : p.to = e})
    BY <1>1
<1>3. m \in Datagram /\ i \in Subconns
    BY <1>2 DEF TypeOK, Datagram
<1>4. /\ queue' = [queue EXCEPT ![e] = Tail(@)]
      /\ UNCHANGED <<iceOpen, done, reading, stage, accepted>>
    BY DEF Receives, ReadFrom
<1>5. Handshake(m)
    BY DEF Receives
<1> HIDE DEF m
<1>6. queue' \in [Ends -> Seq(Datagram)] /\ \A f \in Ends : Len(queue'[f]) <= QueueCap
    BY <1>1, <1>4, BufferAssumption DEF TypeOK
<1>7. \A f \in Ends : queue'[f] \in Seq({p \in sent : p.to = f})
    BY <1>2, <1>4 DEF QueueInv, TypeOK
<1>8. conn \in [Ends -> [Subconns -> States]]
    BY DEF TypeOK
<1>9. "dial" \in Ends /\ "serve" \in Ends
    BY DEF Ends
<1>10. CASE m.kind = "initial" /\ conn[e][i] = "none" /\ stage[e] = "setup"
  <2> DEFINE p == Packet("dial", "reply", i)
  <2>1. e = "serve" /\ Peer(e) = "dial"
    BY <1>2, <1>10 DEF FlightsInv, Peer
  <2>2. p \in Datagram /\ p.to = "dial" /\ p.kind = "reply" /\ p.id = i
    BY <1>3, <1>9, PacketType
  <2>3. /\ conn' = [conn EXCEPT !["serve"][i] = "half"]
        /\ sent' = sent \cup {p} /\ backlog' = backlog
    BY <1>2, <1>5, <1>10, <2>1 DEF Handshake
  <2> HIDE DEF p
  <2>4. \A j \in Subconns : /\ conn'["dial"][j] = conn["dial"][j]
                            /\ conn'["serve"][j] \in Had => conn["serve"][j] \in Had
                            /\ conn["serve"][j] \in Had => conn'["serve"][j] \in Had
    BY <1>3, <1>8, <1>9, <1>10, <2>1, <2>3 DEF Had
  <2>5. TypeOK'
    BY <1>4, <1>6, <2>2, <2>3 DEF TypeOK
  <2>6. FlightsInv'
    BY <2>2, <2>3, <2>4 DEF FlightsInv, TypeOK, Datagram
  <2>7. ListenerInv'
    BY <1>4, <2>3, <2>4 DEF ListenerInv, TypeOK
  <2>8. QueueInv'
    BY <1>7, <2>3, MoreSent
  <2> QED
    BY <2>5, <2>6, <2>7, <2>8
<1>11. CASE m.kind = "reply" /\ conn[e][i] = "half"
  <2> DEFINE p == Packet("serve", "finish", i)
  <2>1. e = "dial" /\ Peer(e) = "serve"
    BY <1>2, <1>11 DEF FlightsInv, Peer
  <2>2. p \in Datagram /\ p.to = "serve" /\ p.kind = "finish" /\ p.id = i
    BY <1>3, <1>9, PacketType
  <2>3. /\ conn' = [conn EXCEPT !["dial"][i] = "up"]
        /\ sent' = sent \cup {p} /\ backlog' = backlog
    BY <1>2, <1>5, <1>11, <2>1 DEF Handshake
  <2> HIDE DEF p
  <2>4. /\ \A j \in Subconns : /\ conn'["serve"][j] = conn["serve"][j]
                               /\ conn["dial"][j] \in Had => conn'["dial"][j] \in Had
        /\ conn'["dial"][i] \in Had
    BY <1>3, <1>8, <1>9, <2>3 DEF Had
  <2>5. TypeOK'
    BY <1>4, <1>6, <2>2, <2>3 DEF TypeOK
  <2>6. FlightsInv'
    BY <2>2, <2>3, <2>4 DEF FlightsInv, TypeOK, Datagram
  <2>7. ListenerInv'
    BY <1>4, <2>3, <2>4 DEF ListenerInv, TypeOK
  <2>8. QueueInv'
    BY <1>7, <2>3, MoreSent
  <2> QED
    BY <2>5, <2>6, <2>7, <2>8
<1>12. CASE m.kind = "finish" /\ conn[e][i] = "half"
  <2>1. e = "serve" /\ conn["dial"][i] \in Had
    BY <1>2, <1>12 DEF FlightsInv
  <2>2. /\ conn' = [conn EXCEPT !["serve"][i] = "up"]
        /\ sent' = sent /\ backlog' = backlog \cup {i}
    BY <1>2, <1>5, <1>12, <2>1 DEF Handshake
  <2>3. /\ \A j \in Subconns : /\ conn'["dial"][j] = conn["dial"][j]
                               /\ j # i => conn'["serve"][j] = conn["serve"][j]
        /\ conn'["serve"][i] \in Had
    BY <1>3, <1>8, <1>9, <2>2 DEF Had
  <2>4. TypeOK'
    BY <1>3, <1>4, <1>6, <2>2 DEF TypeOK
  <2>5. FlightsInv'
    BY <2>2, <2>3 DEF FlightsInv, TypeOK, Datagram
  <2>6. ListenerInv'
    BY <1>3, <1>4, <2>1, <2>2, <2>3 DEF ListenerInv, TypeOK
  <2>7. QueueInv'
    BY <1>7, <2>2 DEF QueueInv
  <2> QED
    BY <2>4, <2>5, <2>6, <2>7
<1>13. CASE m.kind = "close" /\ conn[e][i] \in {"half", "up"}
  <2>1. /\ conn' = [conn EXCEPT ![e][i] = Lost(conn[e][i])]
        /\ sent' = sent /\ backlog' = backlog
    BY <1>2, <1>5, <1>8, <1>13 DEF Handshake
  <2>2. \A f \in Ends, j \in Subconns :
            /\ conn'[f][j] \in States
            /\ conn'[f][j] \in Had <=> conn[f][j] \in Had
    BY <1>3, <1>8, <1>13, <2>1 DEF Had, Lost
  <2>3. TypeOK'
    BY <1>4, <1>6, <2>1, <2>2 DEF TypeOK
  <2>4. FlightsInv'
    BY <1>9, <2>1, <2>2 DEF FlightsInv, TypeOK, Datagram
  <2>5. ListenerInv'
    BY <1>4, <1>9, <2>1, <2>2 DEF ListenerInv, TypeOK
  <2>6. QueueInv'
    BY <1>7, <2>1 DEF QueueInv
  <2> QED
    BY <2>3, <2>4, <2>5, <2>6
<1>14. CASE UNCHANGED <<conn, sent, backlog>>
    BY <1>4, <1>6, <1>7, <1>14 DEF TypeOK, FlightsInv, QueueInv, ListenerInv
<1> QED
  <2>1. \/ m.kind = "initial" /\ conn[e][i] = "none" /\ stage[e] = "setup"
        \/ m.kind = "reply" /\ conn[e][i] = "half"
        \/ m.kind = "finish" /\ conn[e][i] = "half"
        \/ m.kind = "close" /\ conn[e][i] \in {"half", "up"}
        \/ UNCHANGED <<conn, sent, backlog>>
    BY <1>2, <1>5 DEF Handshake
  <2> QED
    BY <1>10, <1>11, <1>12, <1>13, <1>14, <2>1

\* Every step of either end and of the path keeps the invariant.
LEMMA NextSetupInv == SetupInv /\ [Next]_vars => SetupInv'
<1> SUFFICES ASSUME SetupInv, [Next]_vars PROVE SetupInv'
    OBVIOUS
<1>1. ASSUME NEW e \in Ends,
             TimesOut(e) \/ EndSession(e) \/ Signal(e) \/ Crash(e) \/ (e = "dial" /\ DialFails)
      PROVE  SetupInv'
    BY <1>1, VanishKeeps DEF TimesOut, EndSession, Signal, Crash, DialFails, CloseEnd
<1>2. CASE DialStep \/ ServeStep
    BY <1>1, <1>2, CallsKeep DEF Ends
<1>3. ASSUME NEW e \in Ends, NEW i \in Subconns, IdleTimeout(e, i) PROVE SetupInv'
  <2>1. /\ conn[e][i] = "up" /\ conn' = [conn EXCEPT ![e][i] = "dead"]
        /\ UNCHANGED <<iceOpen, queue, done, reading, stage, backlog, accepted, sent>>
    BY <1>3 DEF IdleTimeout, bufferVars
  <2>2. conn \in [Ends -> [Subconns -> {"none", "half", "up", "dead", "failed"}]]
    BY DEF SetupInv, TypeOK
  <2>3. \A f \in Ends, j \in Subconns :
            /\ conn'[f][j] \in {"none", "half", "up", "dead", "failed"}
            /\ conn'[f][j] \in Had <=> conn[f][j] \in Had
    BY <2>1, <2>2 DEF Had
  <2>4. TypeOK'
    BY <2>1, <2>2 DEF SetupInv, TypeOK
  <2>5. FlightsInv' /\ ListenerInv' /\ QueueInv'
    BY <2>1, <2>3 DEF SetupInv, FlightsInv, ListenerInv, QueueInv, TypeOK, Datagram, Ends
  <2> QED
    BY <2>4, <2>5 DEF SetupInv
<1>4. CASE UNCHANGED vars
    BY <1>4 DEF vars, bufferVars, setupVars, SetupInv, TypeOK, FlightsInv, QueueInv, ListenerInv
<1> QED
    BY <1>1, <1>2, <1>3, <1>4, BufferKeeps, ReceiveKeeps DEF Next

\* SetupInv holds throughout.
LEMMA SetupInvariant == Spec => []SetupInv
<1> QED
    BY InitSetupInv, NextSetupInv, PTL DEF Spec

-----------------------------------------------------------------------------
(* Theorems *)

\* Every reachable state of the setup is well typed, and no packet buffer over its
\* capacity (bufferedPacketConn.drain).
THEOREM SetupTypeCorrect == Spec => []TypeOK
<1>1. SetupInv => TypeOK
    BY DEF SetupInv
<1> QED
    BY <1>1, SetupInvariant, PTL

\* Whatever the path does and whoever gives up when, a session that Serve returns
\* has been dialed completely: Dial got every one of its connections (Serve, Dial).
THEOREM ServedIsDialed == Spec => []ServedWasDialed
<1>1. SetupInv => ServedWasDialed
    BY DEF SetupInv, ListenerInv, ServedWasDialed, Had
<1> QED
    BY <1>1, SetupInvariant, PTL

=============================================================================
