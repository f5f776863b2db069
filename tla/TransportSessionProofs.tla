----------------------- MODULE TransportSessionProofs -----------------------
(***************************************************************************)
(* TLAPS proofs about a turn of runOnce, for any number of connections,    *)
(* ports, streams and ticks and any capacity of acceptCh: acceptCh is not  *)
(* closed under a sending acceptLoop, and nothing is held when the turn is *)
(* over.                                                                   *)
(***************************************************************************)
EXTENDS TransportSession, TLAPS

\* No connection has more streams waiting than were opened.
StreamsInv == \A i \in Subconns : inbound[i] <= opened

\* acceptCh is closed late in the turn and after the last acceptLoop.
ChannelInv ==
    chClosed => /\ phase \in {"closeIce", "ended"}
                /\ \A i \in Subconns : loop[i] = "done"

Before == {"ice", "transport"}
Closing == {"awaitLoops", "closeIce", "ended"}

\* What runOnce holds in each of its phases.
HeldInv ==
    /\ phase \in Before \cup Closing => \A i \in Subconns : conn[i] # "up"
    /\ phase \in Before \cup Closing \cup {"closeSession"} => bound = 0
    /\ phase = "ice" => ice = "none"
    /\ ice = "closed" => phase = "ended"
    /\ phase = "ended" => ice # "open"

SessionInv == TypeOK /\ StreamsInv /\ ChannelInv /\ HeldInv

-----------------------------------------------------------------------------

\* A turn begins with nothing held.
LEMMA InitSessionInv == Init => SessionInv
<1> SUFFICES ASSUME Init PROVE SessionInv
    OBVIOUS
<1> USE SessionAssumption DEF Init
<1>1. TypeOK
  <2>1. 0 \in Subconns /\ 0 \in Turns
    BY DEF Subconns, Turns
  <2>2. acceptCh \in Seq({"stream", "error"}) /\ Len(acceptCh) <= AcceptCap
    OBVIOUS
  <2> QED
    BY <2>1, <2>2 DEF TypeOK
<1>2. StreamsInv
    BY DEF StreamsInv
<1>3. ChannelInv /\ HeldInv
    BY DEF ChannelInv, HeldInv
<1> QED
    BY <1>1, <1>2, <1>3 DEF SessionInv

\* What is appended to acceptCh where there is room stays within its capacity.
LEMMA AppendFits ==
    ASSUME NEW s \in Seq({"stream", "error"}), NEW x \in {"stream", "error"},
           Len(s) < AcceptCap
    PROVE  Append(s, x) \in Seq({"stream", "error"}) /\ Len(Append(s, x)) <= AcceptCap
  BY SessionAssumption

\* What is left of acceptCh fits as well.
LEMMA TailFits ==
    ASSUME NEW s \in Seq({"stream", "error"}), s # <<>>, Len(s) <= AcceptCap
    PROVE  Tail(s) \in Seq({"stream", "error"}) /\ Len(Tail(s)) <= AcceptCap
  BY SessionAssumption

\* The peer, the network, the signal and OpenStream keep the invariant.
LEMMA OutsideKeeps ==
    ASSUME SessionInv, NEW i \in Subconns,
           PeerOpensStream(i) \/ SubconnDies(i) \/ Signal \/ OpenStream
    PROVE  SessionInv'
<1> USE SessionAssumption
<1> USE DEF SessionInv, TypeOK, mainVars, acceptVars, waitVars
<1>1. CASE PeerOpensStream(i)
  <2>1. StreamsInv' /\ TypeOK'
    BY <1>1 DEF PeerOpensStream, StreamsInv
  <2>2. ChannelInv' /\ HeldInv'
    BY <1>1 DEF PeerOpensStream, ChannelInv, HeldInv
  <2> QED
    BY <2>1, <2>2
<1>2. CASE SubconnDies(i)
  <2>1. StreamsInv' /\ TypeOK'
    BY <1>2 DEF SubconnDies, StreamsInv
  <2>2. ChannelInv' /\ HeldInv'
    BY <1>2 DEF SubconnDies, ChannelInv, HeldInv
  <2> QED
    BY <2>1, <2>2
<1>3. CASE Signal
    BY <1>3 DEF Signal, quicVars, StreamsInv, ChannelInv, HeldInv
<1>4. CASE OpenStream
  <2>1. next' \in Subconns
    BY <1>4 DEF OpenStream, Subconns
  <2> QED
    BY <1>4, <2>1 DEF OpenStream, StreamsInv, ChannelInv, HeldInv
<1> QED
    BY <1>1, <1>2, <1>3, <1>4

\* An acceptLoop keeps the invariant; one that is done does nothing.
LEMMA LoopKeeps ==
    ASSUME SessionInv, NEW i \in Subconns, AcceptLoop(i)
    PROVE  SessionInv'
<1> USE SessionAssumption
<1> USE DEF SessionInv, TypeOK, mainVars, quicVars, waitVars
<1>1. CASE LoopAccepts(i)
  <2>1. TypeOK' /\ StreamsInv'
    BY <1>1 DEF LoopAccepts, StreamsInv
  <2>2. ChannelInv' /\ HeldInv'
    BY <1>1 DEF LoopAccepts, ChannelInv, HeldInv
  <2> QED
    BY <2>1, <2>2
<1>2. CASE LoopFails(i)
    BY <1>2 DEF LoopFails, StreamsInv, ChannelInv, HeldInv
<1>3. CASE LoopSends(i)
  <2>1. acceptCh' \in Seq({"stream", "error"}) /\ Len(acceptCh') <= AcceptCap
    BY <1>3, AppendFits DEF LoopSends
  <2> QED
    BY <1>3, <2>1 DEF LoopSends, StreamsInv, ChannelInv, HeldInv
<1>4. CASE LoopCancelled(i)
    BY <1>4 DEF LoopCancelled, StreamsInv, ChannelInv, HeldInv
<1>5. CASE LoopReports(i)
  <2>1. acceptCh' \in Seq({"stream", "error"}) /\ Len(acceptCh') <= AcceptCap
    BY <1>5, AppendFits DEF LoopReports
  <2> QED
    BY <1>5, <2>1 DEF LoopReports, StreamsInv, ChannelInv, HeldInv
<1> QED
    BY <1>1, <1>2, <1>3, <1>4, <1>5 DEF AcceptLoop

\* Run, the drainer and the goroutines of Wait keep the invariant.
LEMMA HelpersKeep ==
    ASSUME SessionInv,
           \/ Run \/ Drain
           \/ \E w \in Turns : WaitEnds(w) \/ \E i \in Subconns : WatchFires(w, i)
    PROVE  SessionInv'
<1> USE SessionAssumption
<1> USE DEF SessionInv, TypeOK, mainVars, quicVars, acceptVars, waitVars
<1>1. CASE Run
  <2>1. acceptCh' \in Seq({"stream", "error"}) /\ Len(acceptCh') <= AcceptCap
    BY <1>1, TailFits DEF Run, RunAccepts, RunReturns
  <2>2. run' \in {"none", "accepting", "returned"}
    BY <1>1 DEF Run, RunAccepts, RunReturns
  <2>3. UNCHANGED <<mainVars, quicVars, closed, loop, chClosed, drainer, waitVars>>
    BY <1>1 DEF Run, RunAccepts, RunReturns
  <2> QED
    BY <2>1, <2>2, <2>3 DEF StreamsInv, ChannelInv, HeldInv
<1>2. CASE Drain
  <2>1. acceptCh' \in Seq({"stream", "error"}) /\ Len(acceptCh') <= AcceptCap
    BY <1>2, TailFits DEF Drain
  <2>2. drainer' \in BOOLEAN
    BY <1>2 DEF Drain
  <2>3. UNCHANGED <<mainVars, quicVars, closed, loop, chClosed, run, waitVars>>
    BY <1>2 DEF Drain
  <2> QED
    BY <2>1, <2>2, <2>3 DEF StreamsInv, ChannelInv, HeldInv
<1>3. ASSUME NEW w \in Turns, WaitEnds(w) PROVE SessionInv'
    BY <1>3 DEF WaitEnds, StreamsInv, ChannelInv, HeldInv
<1>4. ASSUME NEW w \in Turns, NEW i \in Subconns, WatchFires(w, i) PROVE SessionInv'
    BY <1>4 DEF WatchFires, StreamsInv, ChannelInv, HeldInv
<1> QED
    BY <1>1, <1>2, <1>3, <1>4

\* The stages of runOnce up to its loop keep the invariant.
LEMMA StartKeeps ==
    ASSUME SessionInv,
           \/ IceConnects \/ IceFails \/ TransportUp \/ TransportFails
           \/ BindPort \/ BindFails \/ StartServing \/ Tick
    PROVE  SessionInv'
<1> USE SessionAssumption
<1> USE DEF SessionInv, TypeOK, StreamsInv, ChannelInv, HeldInv, Before, Closing
<1>1. CASE IceConnects
    BY <1>1 DEF IceConnects, quicVars, acceptVars, waitVars
<1>2. CASE IceFails
    BY <1>2 DEF IceFails, quicVars, acceptVars, waitVars
<1>3. CASE TransportUp
    BY <1>3 DEF TransportUp, waitVars
<1>4. CASE TransportFails
    BY <1>4 DEF TransportFails, quicVars, acceptVars, waitVars
<1>5. CASE BindPort
    BY <1>5 DEF BindPort, quicVars, acceptVars, waitVars
<1>6. CASE BindFails
    BY <1>6 DEF BindFails, quicVars, acceptVars, waitVars
<1>7. CASE StartServing
    BY <1>7 DEF StartServing, StartWait, Turns, quicVars
<1>8. CASE Tick
  <2>1. turn' \in Turns
    BY <1>8 DEF Tick, Turns
  <2>2. /\ waiter' \in [Turns -> {"none", "waiting", "ended"}]
        /\ watch' \in [Turns -> [Subconns -> {"none", "waiting", "ended"}]]
    BY <1>8 DEF Tick, StartWait
  <2> QED
    BY <1>8, <2>1, <2>2 DEF Tick, quicVars, acceptVars
<1> QED
    BY <1>1, <1>2, <1>3, <1>4, <1>5, <1>6, <1>7, <1>8

\* The closes that runOnce has deferred keep the invariant.
LEMMA CloseKeeps ==
    ASSUME SessionInv,
           \/ StopServing \/ CloseRouter \/ CloseListeners \/ CloseStarts
           \/ (\E i \in Subconns : CloseSubconn(i)) \/ StartDrain \/ CloseChannel \/ CloseIce
    PROVE  SessionInv'
<1> USE SessionAssumption
<1> USE DEF SessionInv, TypeOK, StreamsInv, ChannelInv, HeldInv, Before, Closing
<1>1. CASE StopServing
    BY <1>1 DEF StopServing, quicVars, acceptVars, waitVars
<1>2. CASE CloseRouter
    BY <1>2 DEF CloseRouter, quicVars, acceptVars, waitVars
<1>3. CASE CloseListeners
    BY <1>3 DEF CloseListeners, quicVars, acceptVars, waitVars
<1>4. CASE CloseStarts
    BY <1>4 DEF CloseStarts, mainVars, quicVars, waitVars
<1>5. ASSUME NEW i \in Subconns, CloseSubconn(i) PROVE SessionInv'
    BY <1>5 DEF CloseSubconn, mainVars, acceptVars, waitVars
<1>6. CASE StartDrain
    BY <1>6 DEF StartDrain, quicVars, waitVars
<1>7. CASE CloseChannel
    BY <1>7 DEF CloseChannel, quicVars, waitVars
<1>8. CASE CloseIce
    BY <1>8 DEF CloseIce, quicVars, acceptVars, waitVars
<1> QED
    BY <1>1, <1>2, <1>3, <1>4, <1>5, <1>6, <1>7, <1>8

\* Every step of a turn keeps the invariant.
LEMMA NextSessionInv == SessionInv /\ [Next]_vars => SessionInv'
<1> SUFFICES ASSUME SessionInv, [Next]_vars PROVE SessionInv'
    OBVIOUS
<1>1. CASE Proceed \/ Tick
    BY <1>1, StartKeeps, CloseKeeps DEF Proceed
<1>2. CASE Signal \/ OpenStream
  <2>1. 0 \in Subconns
    BY SessionAssumption DEF Subconns
  <2> QED
    BY <1>2, <2>1, OutsideKeeps
<1>3. ASSUME NEW i \in Subconns, AcceptLoop(i) \/ PeerOpensStream(i) \/ SubconnDies(i)
      PROVE  SessionInv'
    BY <1>3, LoopKeeps, OutsideKeeps
<1>4. CASE UNCHANGED vars
    BY <1>4 DEF vars, mainVars, quicVars, acceptVars, waitVars,
                SessionInv, TypeOK, StreamsInv, ChannelInv, HeldInv
<1> QED
    BY <1>1, <1>2, <1>3, <1>4, HelpersKeep DEF Next

\* SessionInv holds in every turn.
LEMMA SessionInvariant == Spec => []SessionInv
<1> QED
    BY InitSessionInv, NextSessionInv, PTL DEF Spec

-----------------------------------------------------------------------------
(* Theorems *)

\* Every reachable state of a turn is well typed, and acceptCh never over its
\* capacity (acceptLoop, Session.Close).
THEOREM SessionTypeCorrect == Spec => []TypeOK
<1>1. SessionInv => TypeOK
    BY DEF SessionInv
<1> QED
    BY <1>1, SessionInvariant, PTL

\* However many connections there are and whatever the capacity, Close closes
\* acceptCh only after every acceptLoop's last send (Session.Close, acceptLoop).
THEOREM ChannelClosedLast == Spec => []NoSendOnClosedChannel
<1>1. SessionInv => NoSendOnClosedChannel
    BY DEF SessionInv, ChannelInv, NoSendOnClosedChannel
<1> QED
    BY <1>1, SessionInvariant, PTL

\* Whichever stage of runOnce fails, the turn ends with no port bound and no
\* connection up, and the ICE connection goes last (runOnce's defers).
THEOREM TurnReleasesAll == Spec => []NothingHeldInBackoff
<1>1. SessionInv => NothingHeldInBackoff
    BY DEF SessionInv, HeldInv, Before, Closing, NothingHeldInBackoff
<1> QED
    BY <1>1, SessionInvariant, PTL

=============================================================================
