------------------------ MODULE StripedPumpRefinement ------------------------
(***************************************************************************)
(* TLAPS proof that the pump implements ForwardedConnection: a connection  *)
(* that delivers the next chunk sent or nothing, and that is closed at     *)
(* neither end before an application has ended its sending or the session  *)
(* was lost.                                                               *)
(***************************************************************************)
EXTENDS StripedPumpProofs, SequenceTheorems

\* Chunks with a payload no later than the n-th, and chunks that are no end.
Within(n) == {c \in Chunk : c.pay <= n}
Data == {c \in Chunk : c.pay # 0}

\* Nothing is under way that was not read from the application.
BoundInv ==
    \A e \in Ends :
        /\ \A i \in Stripes : wr[e][i].pay <= got[e] /\ str[e][i] \in Seq(Within(got[e]))
        /\ \A i \in Stripes : rdr[Peer(e)][i].pay <= got[e]
        /\ in[Peer(e)] \in Seq(Within(got[e]))
        /\ \A d \in pending[Peer(e)] : d.pay <= got[e]

\* An end that nothing has happened to: writeStripes reads, no stream has ended and
\* none is taken for ended, so that nobody calls closeAll.
Quiet(e) ==
    /\ ~tcpClosed[e] /\ ~fin[e]
    /\ disp[e] \in {"read", "dispatch"} /\ col[e] \in {"range", "drain"} /\ eofs[e] = 0
    /\ \A i \in Stripes :
        /\ wr[e][i].at = "holding" => wr[e][i].pay # 0
        /\ rdr[e][i].at \in {"idle", "holding"}
        /\ rdr[e][i].at = "holding" => rdr[e][i].pay # 0
        /\ str[e][i] \in Seq(Data)
    /\ in[e] \in Seq(Data)

QuietInv == ~Over => \A e \in Ends : Quiet(e)

-----------------------------------------------------------------------------
(* Nothing is closed for no reason *)

\* What has happened stays so.
LEMMA OverStays == ASSUME TypeOK, Over, [Next]_vars PROVE Over'
<1>1. PICK e \in Ends : app[e] # "open" \/ dead[e]
    BY DEF Over
<1>2. app'[e] # "open" \/ dead'[e]
  <2>1. CASE UNCHANGED <<app, dead>>
    BY <1>1, <2>1
  <2>2. ASSUME NEW f \in Ends, Environment(f) PROVE app'[e] # "open" \/ dead'[e]
    BY <1>1, <2>2, SMTT(30) DEF TypeOK, Environment, AppHalfClose, AppClose, SessionDies, appVars
  <2>3. ASSUME NEW f \in Ends, PumpStep(f) PROVE UNCHANGED <<app, dead>>
    BY <2>3 DEF PumpStep, SendStep, WriterStep, ReaderStep, CollectStep, ReadTCP, ReadTCPFails,
           Dispatch, WritersDone, WriteMarker, SendingDone, WriteChunk, WriteChunkFails,
           ReadChunk, ReadChunkFails, Push, Collect, CollectEof, WriteTCP, WriteTCPFails,
           ReceivingDone, appVars
  <2> QED
    BY <2>1, <2>2, <2>3 DEF Next, vars
<1> QED
    BY <1>2 DEF Over

\* What the surroundings do is a reason.
LEMMA EnvironmentEnds == ASSUME TypeOK, NEW e \in Ends, Environment(e) PROVE Over'
<1>1. app'[e] # "open" \/ dead'[e]
    BY DEF TypeOK, Environment, AppHalfClose, AppClose, SessionDies
<1> QED
    BY <1>1 DEF Over

\* A pump that has just started is quiet.
LEMMA InitQuiet == Init => QuietInv
<1> SUFFICES ASSUME Init PROVE QuietInv
    OBVIOUS
<1> QED
    BY DEF Init, QuietInv, Quiet, Idle

\* writeStripes of a quiet pump reads and hands over data.
LEMMA SendQuiet ==
    ASSUME TypeOK, ~Over, \A e \in Ends : Quiet(e), NEW e \in Ends, SendStep(e)
    PROVE  \A f \in Ends : Quiet(f)'
<1> USE DEF TypeOK
<1>1. Quiet(e) /\ app[e] = "open" /\ ~dead[e]
    BY DEF Over
<1>2. CASE ReadTCP(e)
    BY <1>2 DEF ReadTCP, Quiet, recvVars
<1>3. ASSUME NEW i \in Stripes, Dispatch(e, i) PROVE \A f \in Ends : Quiet(f)'
  <2> DEFINE h == Holding([seq |-> SeqOf(got[e] + 1), pay |-> got[e] + 1])
  <2>1. /\ disp' = [disp EXCEPT ![e] = "read"] /\ wr' = [wr EXCEPT ![e][i] = h]
        /\ UNCHANGED <<tcpClosed, str, fin, rdr, in, eofs, col>>
    BY <1>1, <1>3 DEF Dispatch, Quiet, recvVars
  <2>2. h.pay # 0
    BY DEF Holding
  <2> HIDE DEF h
  <2> QED
    BY <2>1, <2>2 DEF Quiet
<1> QED
    BY <1>1, <1>2, <1>3 DEF SendStep, ReadTCPFails, WritersDone, WriteMarker, SendingDone, Quiet

\* Its writers and readers pass data on.
LEMMA StripeQuiet ==
    ASSUME TypeOK, ~Over, \A e \in Ends : Quiet(e), NEW e \in Ends, NEW i \in Stripes,
           WriterStep(e, i) \/ ReaderStep(e, i)
    PROVE  \A f \in Ends : Quiet(f)'
<1> USE PeerEnd
<1>t. /\ got \in [Ends -> Nat] /\ mark \in [Ends -> 1..(N + 1)]
      /\ wr \in [Ends -> [Stripes -> Held]] /\ rdr \in [Ends -> [Stripes -> Held]]
      /\ str \in [Ends -> [Stripes -> Seq(Chunk)]] /\ in \in [Ends -> Seq(Chunk)]
      /\ pending \in [Ends -> SUBSET Chunk]
    BY DEF TypeOK
<1> USE <1>t
<1>1. ~dead[e] /\ Quiet(e) /\ Quiet(Peer(e))
    BY DEF Over
<1>2. CASE WriteChunk(e, i)
  <2> DEFINE c == [seq |-> wr[e][i].seq, pay |-> wr[e][i].pay]
  <2>1. c \in Data
    BY <1>1, <1>2, SMTT(30) DEF WriteChunk, Quiet, Data, Chunk, Held
  <2>2. /\ str' = [str EXCEPT ![e][i] = Append(@, c)] /\ wr' = [wr EXCEPT ![e][i] = Idle]
        /\ UNCHANGED <<tcpClosed, disp, fin, rdr, in, eofs, col>>
    BY <1>2 DEF WriteChunk, recvVars
  <2> HIDE DEF c
  <2>3. \A f \in Ends : \A j \in Stripes : str'[f][j] \in Seq(Data)
    BY <2>1, <2>2 DEF Quiet
  <2>4. \A f \in Ends : \A j \in Stripes : wr'[f][j].at = "holding" => wr'[f][j].pay # 0
    BY <2>2 DEF Quiet, Idle
  <2> QED
    BY <2>2, <2>3, <2>4 DEF Quiet
<1>3. CASE WriteChunkFails(e, i) \/ ReadChunkFails(e, i)
    BY <1>1, <1>3 DEF WriteChunkFails, ReadChunkFails, Quiet
<1>4. CASE ReadChunk(e, i)
  <2> DEFINE s == str[Peer(e)][i]
  <2>1. s \in Seq(Data) /\ s # <<>>
    BY <1>1, <1>4 DEF ReadChunk, Quiet
  <2>2. Head(s) \in Data /\ Tail(s) \in Seq(Data)
    BY <2>1
  <2>3. Holding(Head(s)).pay # 0 /\ Holding(Head(s)).at = "holding"
    BY <2>2 DEF Holding, Data
  <2>4. /\ rdr' = [rdr EXCEPT ![e][i] = Holding(Head(s))]
        /\ str' = [str EXCEPT ![Peer(e)][i] = Tail(s)]
        /\ UNCHANGED <<tcpClosed, disp, wr, fin, in, eofs, col>>
    BY <1>4 DEF ReadChunk, sendVars
  <2> HIDE DEF s
  <2>5. \A f \in Ends : \A j \in Stripes : str'[f][j] \in Seq(Data)
    BY <2>2, <2>4 DEF Quiet
  <2>6. \A f \in Ends : \A j \in Stripes :
            /\ rdr'[f][j].at \in {"idle", "holding"}
            /\ rdr'[f][j].at = "holding" => rdr'[f][j].pay # 0
    BY <2>3, <2>4 DEF Quiet
  <2> QED
    BY <2>4, <2>5, <2>6, SMTT(30) DEF Quiet
<1>5. CASE Push(e, i)
  <2> DEFINE c == [seq |-> rdr[e][i].seq, pay |-> rdr[e][i].pay]
  <2>1. rdr[e][i].at = "holding" /\ rdr[e][i].pay # 0
    BY <1>1, <1>5 DEF Push, Quiet
  <2>2. c \in Data
    BY <2>1 DEF Data, Chunk, Held
  <2>3. /\ in' = [in EXCEPT ![e] = Append(@, c)] /\ rdr' = [rdr EXCEPT ![e][i] = Idle]
        /\ UNCHANGED <<tcpClosed, disp, wr, str, fin, eofs, col>>
    BY <1>5, <2>1 DEF Push, Eof, sendVars
  <2>4. Idle.at = "idle"
    BY DEF Idle
  <2> HIDE DEF c
  <2> QED
    BY <2>2, <2>3, <2>4 DEF Quiet
<1> QED
    BY <1>2, <1>3, <1>4, <1>5 DEF WriterStep, ReaderStep

\* Its reorder loop sees no end of a stream and its Writes succeed.
LEMMA CollectQuiet ==
    ASSUME TypeOK, ~Over, \A e \in Ends : Quiet(e), NEW e \in Ends, CollectStep(e)
    PROVE  \A f \in Ends : Quiet(f)'
<1> USE PumpAssumption DEF TypeOK
<1>1. Quiet(e) /\ app[e] = "open"
    BY DEF Over
<1>2. CASE Collect(e)
  <2>1. Tail(in[e]) \in Seq(Data)
    BY <1>1, <1>2 DEF Collect, Quiet
  <2>2. /\ in' = [in EXCEPT ![e] = Tail(@)] /\ col'[e] \in {"range", "drain"}
        /\ \A f \in Ends : f # e => col'[f] = col[f]
        /\ UNCHANGED <<tcpClosed, disp, wr, str, fin, rdr, eofs>>
    BY <1>2 DEF Collect, sendVars
  <2> QED
    BY <2>1, <2>2 DEF Quiet
<1>3. CASE CollectEof(e)
  <2>1. Head(in[e]) \in Data
    BY <1>1, <1>3 DEF CollectEof, Quiet
  <2> QED
    BY <1>3, <2>1 DEF CollectEof, Eof, Data
<1>4. CASE WriteTCP(e)
  <2>1. /\ col'[e] \in {"range", "drain"}
        /\ \A f \in Ends : f # e => col'[f] = col[f]
    BY <1>1, <1>4 DEF WriteTCP, Continue, Quiet
  <2>2. UNCHANGED <<tcpClosed, disp, wr, str, fin, rdr, in, eofs>>
    BY <1>4 DEF WriteTCP, sendVars
  <2>3. \A f \in Ends : col'[f] \in {"range", "drain"}
    BY <2>1 DEF Quiet
  <2> QED
    BY <2>2, <2>3 DEF Quiet
<1> QED
    BY <1>1, <1>2, <1>3, <1>4 DEF CollectStep, WriteTCPFails, ReceivingDone, Quiet

\* A pump to which nothing happens stays quiet.
LEMMA NextQuiet == ASSUME TypeOK, QuietInv, [Next]_vars PROVE QuietInv'
<1> SUFFICES ASSUME ~Over' PROVE \A f \in Ends : Quiet(f)'
    BY DEF QuietInv
<1>1. ~Over /\ \A e \in Ends : Quiet(e)
    BY OverStays DEF QuietInv
<1>2. ASSUME NEW e \in Ends, PumpStep(e) PROVE \A f \in Ends : Quiet(f)'
    BY <1>1, <1>2, SendQuiet, StripeQuiet, CollectQuiet DEF PumpStep
<1>3. CASE UNCHANGED vars
    BY <1>1, <1>3 DEF vars, Quiet
<1> QED
    BY <1>2, <1>3, EnvironmentEnds DEF Next

-----------------------------------------------------------------------------
(* Nothing is under way that was not sent *)

\* A pump that has just started carries nothing.
LEMMA InitBound == Init => BoundInv
  BY PeerEnd DEF Init, BoundInv, Idle

\* What a queue holds, its head and its tail hold.
LEMMA HeadTailIn ==
    ASSUME NEW S, NEW s \in Seq(S), s # <<>>
    PROVE  Head(s) \in S /\ Tail(s) \in Seq(S)
  OBVIOUS

\* What is held has numbers.
LEMMA HeldNumbers ==
    ASSUME NEW h \in Held, NEW n \in Nat, h.pay <= n
    PROVE  h.seq \in Nat /\ h.pay \in Nat /\ [seq |-> h.seq, pay |-> h.pay] \in Within(n)
  BY DEF Held, Within, Chunk

\* The payloads of chunks and of what is held are numbers.
LEMMA PumpNumbers == /\ \A h \in Held : h.pay \in Nat
                     /\ \A c \in Chunk : c.pay \in Nat
  BY DEF Held, Chunk

\* Reading more leaves what is under way in bounds.
LEMMA WithinGrows == ASSUME NEW n \in Nat PROVE Seq(Within(n)) \subseteq Seq(Within(n + 1))
<1>1. Within(n) \subseteq Within(n + 1)
    BY DEF Within, Chunk
<1> QED
    BY <1>1, SeqMonotonic

\* writeStripes and its writers add nothing but what was read.
LEMMA SendBound ==
    ASSUME TypeOK, BoundInv, NEW e \in Ends,
           SendStep(e) \/ \E i \in Stripes : WriterStep(e, i)
    PROVE  BoundInv'
<1> USE PumpAssumption, PeerEnd
<1>t. /\ got \in [Ends -> Nat] /\ mark \in [Ends -> 1..(N + 1)]
      /\ wr \in [Ends -> [Stripes -> Held]] /\ rdr \in [Ends -> [Stripes -> Held]]
      /\ str \in [Ends -> [Stripes -> Seq(Chunk)]] /\ in \in [Ends -> Seq(Chunk)]
      /\ pending \in [Ends -> SUBSET Chunk]
    BY DEF TypeOK
<1> USE <1>t
<1>1. CASE ReadTCP(e) \/ ReadTCPFails(e) \/ WritersDone(e) \/ SendingDone(e)
  <2>1. UNCHANGED <<got, wr, str, rdr, in, pending>>
    BY <1>1 DEF ReadTCP, ReadTCPFails, WritersDone, SendingDone, recvVars
  <2> QED
    BY <2>1 DEF BoundInv
<1>2. ASSUME NEW i \in Stripes, Dispatch(e, i) PROVE BoundInv'
  <2> DEFINE h == IF fin[e] THEN Failed
                  ELSE Holding([seq |-> SeqOf(got[e] + 1), pay |-> got[e] + 1])
  <2>1. /\ wr' = [wr EXCEPT ![e][i] = h] /\ got' = [got EXCEPT ![e] = @ + 1]
        /\ UNCHANGED <<str, rdr, in, pending>>
    BY <1>2 DEF Dispatch, recvVars
  <2>5. h.pay <= got[e] + 1
    BY DEF Failed, Holding
  <2> HIDE DEF h
  <2>2. SUFFICES ASSUME NEW f \in Ends
        PROVE  /\ \A j \in Stripes : wr'[f][j].pay <= got'[f] /\ str'[f][j] \in Seq(Within(got'[f]))
               /\ \A j \in Stripes : rdr'[Peer(f)][j].pay <= got'[f]
               /\ in'[Peer(f)] \in Seq(Within(got'[f]))
               /\ \A d \in pending'[Peer(f)] : d.pay <= got'[f]
    BY DEF BoundInv
  <2>3. CASE f # e
    BY <2>1, <2>3 DEF BoundInv
  <2>4. CASE f = e
    <3>1. got'[e] = got[e] + 1 /\ Seq(Within(got[e])) \subseteq Seq(Within(got[e] + 1))
      BY <2>1, WithinGrows
    <3>2. \A j \in Stripes : wr'[e][j].pay <= got'[e] /\ str'[e][j] \in Seq(Within(got'[e]))
      <4>1. \A j \in Stripes : str'[e][j] \in Seq(Within(got'[e]))
        BY <2>1, <3>1 DEF BoundInv
      <4>2. \A j \in Stripes : wr[e][j].pay \in Nat /\ wr[e][j].pay <= got[e]
        BY DEF BoundInv, Held
      <4>3. \A j \in Stripes : wr'[e][j].pay <= got'[e]
        BY <2>1, <2>5, <3>1, <4>2
      <4> QED
        BY <4>1, <4>3
    <3>3. /\ \A j \in Stripes : rdr'[Peer(e)][j].pay <= got'[e]
          /\ in'[Peer(e)] \in Seq(Within(got'[e]))
          /\ \A d \in pending'[Peer(e)] : d.pay <= got'[e]
      <4>1. /\ \A j \in Stripes : rdr[Peer(e)][j] \in Held /\ rdr[Peer(e)][j].pay <= got[e]
            /\ \A d \in pending[Peer(e)] : d \in Chunk /\ d.pay <= got[e]
        BY DEF BoundInv
      <4>3. /\ \A j \in Stripes : rdr[Peer(e)][j].pay <= got[e] + 1
            /\ \A d \in pending[Peer(e)] : d.pay <= got[e] + 1
        <5>1. got[e] \in Nat /\ \A m \in Nat : m <= got[e] => m <= got[e] + 1
          OBVIOUS
        <5>2. /\ \A j \in Stripes : rdr[Peer(e)][j].pay \in Nat
              /\ \A d \in pending[Peer(e)] : d.pay \in Nat
          BY <4>1, PumpNumbers
        <5> QED
          BY <4>1, <5>1, <5>2, Zenon
      <4>2. in'[Peer(e)] \in Seq(Within(got'[e]))
        BY <2>1, <3>1 DEF BoundInv
      <4> QED
        BY <2>1, <3>1, <4>2, <4>3
    <3> QED
      BY <2>4, <3>2, <3>3
  <2> QED
    BY <2>3, <2>4
<1>3. CASE WriteMarker(e)
  <2> DEFINE c == [seq |-> SeqOf(got[e] + 1), pay |-> 0]
  <2>1. c \in Within(got[e])
    BY DEF Within, Chunk, SeqOf
  <2>2. mark[e] \in Stripes
    BY <1>3 DEF WriteMarker, Stripes
  <2>3. UNCHANGED <<got, wr, rdr, in, pending>>
    BY <1>3 DEF WriteMarker, recvVars
  <2>4. str' = str \/ str' = [str EXCEPT ![e][mark[e]] = Append(@, c)]
    BY <1>3 DEF WriteMarker
  <2> HIDE DEF c
  <2>5. \A f \in Ends : \A j \in Stripes : str'[f][j] \in Seq(Within(got[f]))
    <3>1. CASE str' = str
      BY <3>1 DEF BoundInv
    <3>2. CASE str' = [str EXCEPT ![e][mark[e]] = Append(@, c)]
      <4>1. Append(str[e][mark[e]], c) \in Seq(Within(got[e]))
        BY <2>1, <2>2 DEF BoundInv
      <4> QED
        BY <2>2, <3>2, <4>1 DEF BoundInv
    <3> QED
      BY <2>4, <3>1, <3>2
  <2> QED
    BY <2>3, <2>5 DEF BoundInv
<1>4. ASSUME NEW i \in Stripes, WriteChunk(e, i) PROVE BoundInv'
  <2> DEFINE c == [seq |-> wr[e][i].seq, pay |-> wr[e][i].pay]
  <2>1. c \in Within(got[e])
    <3>1. wr[e][i] \in Held /\ got[e] \in Nat /\ wr[e][i].pay <= got[e]
      BY DEF BoundInv
    <3> QED
      BY <3>1, HeldNumbers
  <2>2. /\ str' = [str EXCEPT ![e][i] = Append(@, c)] /\ wr' = [wr EXCEPT ![e][i] = Idle]
        /\ UNCHANGED <<got, rdr, in, pending>>
    BY <1>4 DEF WriteChunk, recvVars
  <2> HIDE DEF c
  <2>3. \A f \in Ends : \A j \in Stripes : str'[f][j] \in Seq(Within(got[f]))
    BY <2>1, <2>2 DEF BoundInv
  <2>4. \A f \in Ends : \A j \in Stripes : wr'[f][j].pay <= got[f]
    BY <2>2 DEF BoundInv, Idle
  <2> QED
    BY <2>2, <2>3, <2>4 DEF BoundInv
<1>5. ASSUME NEW i \in Stripes, WriteChunkFails(e, i) PROVE BoundInv'
    BY <1>5, SMTT(30) DEF WriteChunkFails, BoundInv, Failed, recvVars
<1> QED
    BY <1>1, <1>2, <1>3, <1>4, <1>5 DEF SendStep, WriterStep

\* Nor do readers and the reorder loop.
LEMMA ReceiveBound ==
    ASSUME TypeOK, BoundInv, NEW e \in Ends,
           CollectStep(e) \/ \E i \in Stripes : ReaderStep(e, i)
    PROVE  BoundInv'
<1> USE PumpAssumption, PeerEnd
<1>t. /\ got \in [Ends -> Nat] /\ mark \in [Ends -> 1..(N + 1)]
      /\ wr \in [Ends -> [Stripes -> Held]] /\ rdr \in [Ends -> [Stripes -> Held]]
      /\ str \in [Ends -> [Stripes -> Seq(Chunk)]] /\ in \in [Ends -> Seq(Chunk)]
      /\ pending \in [Ends -> SUBSET Chunk]
    BY DEF TypeOK
<1> USE <1>t
<1>1. ASSUME NEW i \in Stripes, ReadChunk(e, i) PROVE BoundInv'
  <2> DEFINE s == str[Peer(e)][i]
  <2>1. s \in Seq(Within(got[Peer(e)])) /\ s # <<>>
    BY <1>1 DEF ReadChunk, BoundInv
  <2>2. Head(s) \in Within(got[Peer(e)]) /\ Tail(s) \in Seq(Within(got[Peer(e)]))
    BY <2>1, HeadTailIn
  <2>3. Holding(Head(s)).pay <= got[Peer(e)]
    BY <2>2 DEF Holding, Within
  <2>4. /\ rdr' = [rdr EXCEPT ![e][i] = Holding(Head(s))]
        /\ str' = [str EXCEPT ![Peer(e)][i] = Tail(s)]
        /\ UNCHANGED <<got, wr, in, pending>>
    BY <1>1 DEF ReadChunk, sendVars
  <2> HIDE DEF s
  <2>5. \A f \in Ends : \A j \in Stripes : str'[f][j] \in Seq(Within(got[f]))
    BY <2>2, <2>4 DEF BoundInv
  <2>6. \A f \in Ends : \A j \in Stripes : rdr'[Peer(f)][j].pay <= got[f]
    BY <2>3, <2>4 DEF BoundInv
  <2> QED
    BY <2>4, <2>5, <2>6 DEF BoundInv
<1>2. ASSUME NEW i \in Stripes, ReadChunkFails(e, i) PROVE BoundInv'
    BY <1>2, SMTT(30) DEF ReadChunkFails, BoundInv, Failing, sendVars
<1>3. ASSUME NEW i \in Stripes, Push(e, i) PROVE BoundInv'
  <2> DEFINE c == [seq |-> rdr[e][i].seq, pay |-> rdr[e][i].pay]
  <2>1. c \in Within(got[Peer(e)])
    <3>1. rdr[e][i] \in Held /\ got[Peer(e)] \in Nat /\ rdr[e][i].pay <= got[Peer(e)]
      BY DEF BoundInv
    <3> QED
      BY <3>1, HeldNumbers
  <2>2. PICK h \in {Idle, Failed, Ended} : rdr' = [rdr EXCEPT ![e][i] = h]
    BY <1>3 DEF Push
  <2>3. in' = [in EXCEPT ![e] = Append(@, c)] /\ UNCHANGED <<got, wr, str, pending>>
    BY <1>3 DEF Push, sendVars
  <2> HIDE DEF c
  <2>4. \A f \in Ends : \A j \in Stripes : rdr'[Peer(f)][j].pay <= got[f]
    BY <2>2 DEF BoundInv, Idle, Failed, Ended
  <2>5. \A f \in Ends : in'[Peer(f)] \in Seq(Within(got[f]))
    BY <2>1, <2>3 DEF BoundInv
  <2> QED
    BY <2>3, <2>4, <2>5 DEF BoundInv
<1>4. CASE Collect(e)
  <2> DEFINE c == Head(in[e])
  <2>1. in[e] \in Seq(Within(got[Peer(e)])) /\ in[e] # <<>>
    BY <1>4 DEF Collect, BoundInv
  <2>2. c.pay <= got[Peer(e)] /\ Tail(in[e]) \in Seq(Within(got[Peer(e)]))
    BY <2>1 DEF Within
  <2>3. /\ in' = [in EXCEPT ![e] = Tail(@)]
        /\ pending' = [pending EXCEPT ![e] = {d \in @ : d.seq # c.seq} \cup {c}]
        /\ UNCHANGED <<got, wr, str, rdr>>
    BY <1>4 DEF Collect, sendVars
  <2> HIDE DEF c
  <2> QED
    BY <2>2, <2>3 DEF BoundInv
<1>5. CASE CollectEof(e)
  <2>1. Tail(in[e]) \in Seq(Within(got[Peer(e)]))
    BY <1>5 DEF CollectEof, BoundInv
  <2>2. in' = [in EXCEPT ![e] = Tail(@)] /\ UNCHANGED <<got, wr, str, rdr, pending>>
    BY <1>5 DEF CollectEof, sendVars
  <2> QED
    BY <2>1, <2>2 DEF BoundInv
<1>6. CASE WriteTCP(e) \/ WriteTCPFails(e) \/ ReceivingDone(e)
  <2>1. /\ \A f \in Ends : pending'[f] \subseteq pending[f]
        /\ UNCHANGED <<got, wr, str, rdr, in>>
    BY <1>6 DEF WriteTCP, WriteTCPFails, ReceivingDone, sendVars
  <2> QED
    BY <2>1 DEF BoundInv
<1> QED
    BY <1>1, <1>2, <1>3, <1>4, <1>5, <1>6 DEF ReaderStep, CollectStep

\* No step brings in what was not read.
LEMMA NextBound == ASSUME TypeOK, BoundInv, [Next]_vars PROVE BoundInv'
<1>1. ASSUME NEW e \in Ends, PumpStep(e) PROVE BoundInv'
    BY <1>1, SendBound, ReceiveBound DEF PumpStep
<1>2. CASE UNCHANGED vars \/ \E e \in Ends : Environment(e)
  <2>1. UNCHANGED <<got, wr, str, rdr, in, pending>>
    BY <1>2 DEF vars, Environment, AppHalfClose, AppClose, SessionDies, sendVars, recvVars
  <2> QED
    BY <2>1 DEF BoundInv
<1> QED
    BY <1>1, <1>2 DEF Next

-----------------------------------------------------------------------------
(* The steps of the pump as steps of a connection *)

\* The chunk that readStripesToTCP writes next is the next one sent.
Due == \A e \in Ends : \A d \in pending[e] : d.seq = nextSeq[e] => d.pay = Len(out[e]) + 1

\* A pump that has just started is a connection that has.
LEMMA InitRefines == Init => Abs!Init
  BY DEF Init, Abs!Init, Taken, Over

\* A step that no application can see.
LEMMA Unseen ==
    ASSUME UNCHANGED <<Taken, out, tcpClosed, Over>>
    PROVE  [Abs!Next]_(Abs!absVars)
  BY DEF Abs!absVars

\* The surroundings give a reason to close, or another one.
LEMMA EnvironmentRefines ==
    ASSUME TypeOK, NEW e \in Ends, Environment(e)
    PROVE  [Abs!Next]_(Abs!absVars)
<1>1. UNCHANGED <<disp, got, out, tcpClosed>>
    BY DEF Environment, AppHalfClose, AppClose, SessionDies, sendVars, recvVars
<1>2. Taken' = Taken /\ Over'
    BY <1>1, EnvironmentEnds DEF Taken
<1>3. CASE Over
    BY <1>1, <1>2, <1>3, Unseen
<1>4. CASE ~Over
  <2>1. Abs!HangUp
    BY <1>1, <1>2, <1>4 DEF Abs!HangUp
  <2> QED
    BY <2>1 DEF Abs!Next
<1> QED
    BY <1>3, <1>4

\* closeAll closes the connection, for a reason, or did so before.
LEMMA CloseRefines ==
    ASSUME TypeOK, QuietInv, NEW e \in Ends, SendingDone(e) \/ ReceivingDone(e)
    PROVE  [Abs!Next]_(Abs!absVars)
<1>1. /\ tcpClosed' = [tcpClosed EXCEPT ![e] = TRUE] /\ UNCHANGED <<got, out, app, dead>>
      /\ \A f \in Ends : disp'[f] = "dispatch" <=> disp[f] = "dispatch"
    BY DEF TypeOK, SendingDone, ReceivingDone, CloseAll, sendVars, recvVars, appVars
<1>2. Taken' = Taken /\ Over' = Over
    BY <1>1 DEF Taken, Over
<1>3. Over
    BY DEF QuietInv, Quiet, SendingDone, ReceivingDone
<1>4. CASE tcpClosed[e]
  <2>1. tcpClosed' = tcpClosed
    BY <1>1, <1>4 DEF TypeOK
  <2> QED
    BY <1>1, <1>2, <2>1, Unseen
<1>5. CASE ~tcpClosed[e]
  <2>1. Abs!Close(e)
    BY <1>1, <1>2, <1>3, <1>5 DEF Abs!Close
  <2> QED
    BY <2>1 DEF Abs!Next
<1> QED
    BY <1>4, <1>5

\* A Read takes a chunk from the application.
LEMMA TakeRefines ==
    ASSUME TypeOK, NEW e \in Ends, ReadTCP(e)
    PROVE  [Abs!Next]_(Abs!absVars)
<1>1. /\ disp[e] = "read" /\ disp' = [disp EXCEPT ![e] = "dispatch"] /\ ~tcpClosed[e]
      /\ UNCHANGED <<got, out, tcpClosed, app, dead>>
    BY DEF ReadTCP, appVars, recvVars
<1>2. Over' = Over
    BY <1>1 DEF Over
<1>3. Taken' = [Taken EXCEPT ![e] = @ + 1]
  <2>1. \A f \in Ends : f # e => disp'[f] = disp[f]
    BY <1>1 DEF TypeOK
  <2>2. disp'[e] = "dispatch" /\ disp[e] # "dispatch" /\ got[e] \in Nat
    BY <1>1 DEF TypeOK
  <2>3. \A f \in Ends : Taken'[f] = IF f = e THEN Taken[e] + 1 ELSE Taken[f]
    BY <1>1, <2>1, <2>2 DEF Taken
  <2>4. Taken \in [Ends -> Nat] /\ Taken' \in [Ends -> Nat]
    BY <1>1, SMTT(30) DEF Taken, TypeOK
  <2> QED
    BY <2>3, <2>4
<1>4. Abs!Take(e)
    BY <1>1, <1>2, <1>3 DEF Abs!Take
<1> QED
    BY <1>4 DEF Abs!Next

\* A Write delivers the next chunk, which was taken.
LEMMA DeliverRefines ==
    ASSUME TypeOK, BoundInv, Due, NEW e \in Ends, WriteTCP(e)
    PROVE  [Abs!Next]_(Abs!absVars)
<1> USE PeerEnd
<1>1. PICK d \in pending[e] : d.seq = nextSeq[e] /\ out' = [out EXCEPT ![e] = Append(@, d.pay)]
    BY DEF WriteTCP
<1>2. ~tcpClosed[e] /\ UNCHANGED <<disp, got, tcpClosed, app, dead>>
    BY DEF WriteTCP, sendVars
<1>3. Taken' = Taken /\ Over' = Over
    BY <1>2 DEF Taken, Over
<1>4. d.pay = Len(out[e]) + 1 /\ d.pay <= got[Peer(e)]
    BY <1>1 DEF Due, BoundInv
<1>5. Len(out[e]) < Taken[Peer(e)]
    BY <1>4, SMTT(30) DEF Taken, TypeOK
<1>6. Abs!Deliver(Peer(e), e)
    BY <1>1, <1>2, <1>3, <1>4, <1>5 DEF Abs!Deliver, TypeOK
<1> QED
    BY <1>6 DEF Abs!Next

\* Everything else is the pump's own business.
LEMMA InnerRefines ==
    ASSUME TypeOK, NEW e \in Ends,
           \/ ReadTCPFails(e) \/ WritersDone(e) \/ WriteMarker(e)
           \/ Collect(e) \/ CollectEof(e) \/ WriteTCPFails(e)
           \/ \E i \in Stripes : Dispatch(e, i) \/ WriterStep(e, i) \/ ReaderStep(e, i)
    PROVE  [Abs!Next]_(Abs!absVars)
<1>1. UNCHANGED <<out, tcpClosed, app, dead>>
    BY DEF ReadTCPFails, WritersDone, WriteMarker, Collect, CollectEof, WriteTCPFails, Dispatch,
           WriterStep, WriteChunk, WriteChunkFails, ReaderStep, ReadChunk, ReadChunkFails, Push,
           appVars, recvVars
<1>2. Taken' = Taken
  <2>1. ASSUME NEW i \in Stripes, Dispatch(e, i) PROVE Taken' = Taken
    BY <2>1, SMTT(30) DEF Dispatch, Taken, TypeOK
  <2>2. CASE UNCHANGED <<disp, got>>
    BY <2>2 DEF Taken
  <2>3. CASE ReadTCPFails(e) \/ WritersDone(e)
    BY <2>3 DEF ReadTCPFails, WritersDone, Taken, TypeOK
  <2> QED
    BY <2>1, <2>2, <2>3 DEF WriteMarker, Collect, CollectEof, WriteTCPFails, WriterStep,
       WriteChunk, WriteChunkFails, ReaderStep, ReadChunk, ReadChunkFails, Push, sendVars
<1> QED
    BY <1>1, <1>2, Unseen DEF Over

\* Every step of the pump is one of a connection or changes nothing visible.
LEMMA NextRefines ==
    ASSUME TypeOK, BoundInv, QuietInv, Due, [Next]_vars
    PROVE  [Abs!Next]_(Abs!absVars)
<1>1. ASSUME NEW e \in Ends, PumpStep(e) PROVE [Abs!Next]_(Abs!absVars)
    BY <1>1, CloseRefines, TakeRefines, DeliverRefines, InnerRefines
       DEF PumpStep, SendStep, CollectStep
<1>2. CASE UNCHANGED vars
    BY <1>2, Unseen DEF vars, Taken, Over
<1> QED
    BY <1>1, <1>2, EnvironmentRefines DEF Next

\* As long as the numbers do not run out, what is awaited is due.
LEMMA NumbersDue == PumpInv => Due
<1> SUFFICES ASSUME PumpInv, NEW e \in Ends, NEW d \in pending[e], d.seq = nextSeq[e]
             PROVE  d.pay = Len(out[e]) + 1
    BY DEF Due
<1> QED
    BY DEF PumpInv, CarryInv, WrittenInv, Sound

-----------------------------------------------------------------------------
(* The one stripe of the build needs no numbers *)

\* Whether a chunk with a payload is held, and whether a chunk with one is the k-th.
HeldData(h) == IF h.at = "holding" /\ h.pay # 0 THEN 1 ELSE 0
Fits(c, k) == c.pay # 0 => c.pay = k /\ c.seq = SeqOf(k)

\* The reader of end e will read on.
Reading(e) == rdr[e][1].at = "idle" \/ HeldData(rdr[e][1]) = 1

\* How many chunks the loop of end e has taken, its channel and its reader.
Waiting(e) == IF pending[e] = {} THEN 0 ELSE 1
AtLoop(e) == Len(out[e]) + Waiting(e)
AtReader(e) == AtLoop(e) + Len(in[e])
AtStream(e) == AtReader(e) + HeldData(rdr[e][1])

\* What comes out of the loop of end e: no chunk is kept waiting.
FifoOut(e) ==
    /\ nextSeq[e] = Len(out[e]) % SeqMod
    /\ \A k \in 1..Len(out[e]) : out[e][k] = k
    /\ \A d \in pending[e] : d.pay = Len(out[e]) + 1 /\ d.seq = SeqOf(d.pay)
    /\ col[e] = "range" => pending[e] = {}

\* What is between the stream and the loop: the next chunks, and an end of stream
\* after all of them.
FifoIn(e) ==
    /\ \A j \in 1..Len(in[e]) :
        /\ Fits(in[e][j], AtLoop(e) + j)
        /\ in[e][j].pay = 0 => j = Len(in[e]) /\ rdr[e][1].at \in {"failed", "ended"}
    /\ Fits(rdr[e][1], AtReader(e) + 1)
    /\ rdr[e][1].at # "holding" => rdr[e][1].pay = 0

\* What end e has sent: the marker comes last, and for a reader that reads on there
\* are the next chunks.
FifoMarker(e) ==
    /\ \A j \in 1..Len(str[e][1]) : str[e][1][j].pay = 0 =>
        j = Len(str[e][1]) /\ disp[e] \in {"mark", "done"} /\ mark[e] = 2
    /\ disp[e] \in {"mark", "done"} => wr[e][1].at # "holding"
    /\ wr[e][1].at = "holding" =>
        wr[e][1].pay = got[e] /\ wr[e][1].pay # 0 /\ wr[e][1].seq = SeqOf(wr[e][1].pay)
FifoStream(e) ==
    LET at == AtStream(Peer(e)) IN
    Reading(Peer(e)) =>
        /\ \A j \in 1..Len(str[e][1]) : Fits(str[e][1][j], at + j)
        /\ wr[e][1].at = "holding" => wr[e][1].pay = at + Len(str[e][1]) + 1
        /\ wr[e][1].at = "idle" /\ disp[e] \in {"read", "dispatch"} =>
            got[e] = at + Len(str[e][1])

Fifo(e) == FifoOut(e) /\ FifoIn(e) /\ FifoMarker(e) /\ FifoStream(e)
FifoInv == \A e \in Ends : Fifo(e)

\* Division leaves the remainder.
LEMMA Remainder ==
    ASSUME NEW m \in Nat \ {0}, NEW q \in Nat, NEW r \in Nat, r < m
    PROVE  (m * q + r) % m = r
  OBVIOUS

\* The awaited number, a uint32, goes on with the count of the chunks.
LEMMA NextNumber ==
    ASSUME NEW m \in Nat \ {0}, NEW x \in Nat
    PROVE  ((x % m) + 1) % m = (x + 1) % m
<1> DEFINE q == x \div m
           r == x % m
<1>1. x = m * q + r /\ r \in 0..(m - 1) /\ q \in Nat
    OBVIOUS
<1> HIDE DEF q, r
<1>2. CASE r + 1 < m
  <2>1. x + 1 = m * q + (r + 1)
    BY <1>1
  <2>2. (m * q + (r + 1)) % m = r + 1
    BY <1>1, <1>2, Remainder
  <2>3. (m * 0 + (r + 1)) % m = r + 1
    BY <1>1, <1>2, Remainder
  <2> QED
    BY <1>1, <2>1, <2>2, <2>3 DEF r
<1>3. CASE r + 1 = m
  <2>1. x + 1 = m * (q + 1) + 0
    BY <1>1, <1>3
  <2>2. (m * (q + 1) + 0) % m = 0
    BY <1>1, Remainder
  <2>3. (m * 1 + 0) % m = 0
    BY Remainder
  <2>4. m * 1 + 0 = m
    OBVIOUS
  <2> QED
    BY <1>3, <2>1, <2>2, <2>3, <2>4 DEF r
<1> QED
    BY <1>1, <1>2, <1>3

\* The next chunk at the end of a queue.
LEMMA AppendFits ==
    ASSUME NEW s \in Seq(Chunk), NEW c \in Chunk, NEW at \in Nat,
           \A j \in 1..Len(s) : Fits(s[j], at + j), Fits(c, at + Len(s) + 1)
    PROVE  \A j \in 1..Len(Append(s, c)) : Fits(Append(s, c)[j], at + j)
<1> SUFFICES ASSUME NEW j \in 1..Len(Append(s, c)) PROVE Fits(Append(s, c)[j], at + j)
    OBVIOUS
<1>1. CASE j \in 1..Len(s)
    BY <1>1
<1>2. CASE j = Len(s) + 1
  <2>1. Append(s, c)[j] = c /\ at + j = at + Len(s) + 1
    BY <1>2
  <2> QED
    BY <2>1
<1> QED
    BY <1>1, <1>2

\* A queue without its first chunk.
LEMMA TailFits ==
    ASSUME NEW s \in Seq(Chunk), s # <<>>, NEW at \in Nat,
           \A j \in 1..Len(s) : Fits(s[j], at + j)
    PROVE  /\ Fits(Head(s), at + 1) /\ Head(s) \in Chunk
           /\ Tail(s) \in Seq(Chunk) /\ Len(Tail(s)) + 1 = Len(s)
           /\ \A j \in 1..Len(Tail(s)) : Fits(Tail(s)[j], (at + 1) + j)
<1>1. Head(s) = s[1] /\ 1 \in 1..Len(s)
    OBVIOUS
<1>2. Tail(s) \in Seq(Chunk) /\ Len(Tail(s)) + 1 = Len(s)
    OBVIOUS
<1>3. ASSUME NEW j \in 1..Len(Tail(s)) PROVE Fits(Tail(s)[j], (at + 1) + j)
  <2>1. Tail(s)[j] = s[j + 1] /\ j + 1 \in 1..Len(s) /\ (at + 1) + j = at + (j + 1)
    BY <1>2
  <2> QED
    BY <2>1
<1> QED
    BY <1>1, <1>2, <1>3

\* What the one stripe holds has its type.
LEMMA StripeTypes ==
    ASSUME TypeOK, N = 1, NEW e \in Ends
    PROVE  /\ Stripes = {1} /\ got[e] \in Nat /\ mark[e] \in {1, 2}
           /\ wr[e][1] \in Held /\ rdr[e][1] \in Held
           /\ str[e][1] \in Seq(Chunk) /\ in[e] \in Seq(Chunk) /\ out[e] \in Seq(Nat)
           /\ pending[e] \subseteq Chunk
           /\ AtLoop(e) \in Nat /\ AtReader(e) \in Nat /\ AtStream(e) \in Nat
<1>1. Stripes = {1}
    BY DEF Stripes
<1>2. /\ got[e] \in Nat /\ mark[e] \in {1, 2}
      /\ wr[e][1] \in Held /\ rdr[e][1] \in Held
      /\ str[e][1] \in Seq(Chunk) /\ in[e] \in Seq(Chunk) /\ out[e] \in Seq(Nat)
      /\ pending[e] \subseteq Chunk
    BY <1>1 DEF TypeOK
<1>3. AtLoop(e) \in Nat
  <2>1. Waiting(e) \in Nat /\ Len(out[e]) \in Nat
    BY <1>2 DEF Waiting
  <2> QED
    BY <2>1 DEF AtLoop
<1>4. AtReader(e) \in Nat
    BY <1>2, <1>3 DEF AtReader
<1>5. AtStream(e) \in Nat
  <2>1. HeldData(rdr[e][1]) \in Nat
    BY DEF HeldData
  <2> QED
    BY <1>4, <2>1 DEF AtStream
<1> QED
    BY <1>1, <1>2, <1>3, <1>4, <1>5

\* A pump that has just started carries nothing.
LEMMA InitFifo == ASSUME N = 1, Init PROVE FifoInv
<1> USE PumpAssumption, PeerEnd
<1>1. Stripes = {1} /\ 0 % SeqMod = 0
    BY SmallMod DEF Stripes
<1>2. \A e \in Ends : /\ out[e] = <<>> /\ in[e] = <<>> /\ pending[e] = {} /\ nextSeq[e] = 0
                       /\ rdr[e][1] = Idle /\ wr[e][1] = Idle /\ str[e][1] = <<>>
                       /\ got[e] = 0 /\ disp[e] = "read"
    BY <1>1 DEF Init
<1>3. Idle.at = "idle" /\ Idle.pay = 0
    BY DEF Idle
<1>4. ASSUME NEW e \in Ends PROVE AtStream(e) = 0
  <2>1. Waiting(e) = 0 /\ HeldData(rdr[e][1]) = 0 /\ Len(out[e]) = 0 /\ Len(in[e]) = 0
    BY <1>2, <1>3 DEF Waiting, HeldData
  <2> QED
    BY <2>1 DEF AtStream, AtReader, AtLoop
<1>5. ASSUME NEW e \in Ends PROVE FifoOut(e) /\ FifoIn(e)
  <2>4. Len(out[e]) = 0
    BY <1>2
  <2>1. FifoOut(e)
    BY <1>1, <1>2, <2>4 DEF FifoOut
  <2>2. Len(in[e]) = 0 /\ rdr[e][1].pay = 0
    BY <1>2, <1>3
  <2>3. FifoIn(e)
    BY <2>2 DEF FifoIn, Fits
  <2> QED
    BY <2>1, <2>3
<1>6. ASSUME NEW e \in Ends PROVE FifoMarker(e) /\ FifoStream(e)
    BY <1>2, <1>3, <1>4 DEF FifoMarker, FifoStream
<1> QED
    BY <1>5, <1>6 DEF FifoInv, Fifo

\* What an end receives is none of the other's business ...
LEMMA ReceiveFrame ==
    ASSUME NEW e \in Ends, FifoOut(e), FifoIn(e),
           out'[e] = out[e], in'[e] = in[e], pending'[e] = pending[e], rdr'[e] = rdr[e],
           nextSeq'[e] = nextSeq[e], col'[e] = "range" => col[e] = "range"
    PROVE  /\ FifoOut(e)' /\ FifoIn(e)'
           /\ AtStream(e)' = AtStream(e) /\ Reading(e)' = Reading(e)
  BY DEF FifoOut, FifoIn, AtStream, AtReader, AtLoop, Waiting, Reading

\* ... and what it sends depends on where the other one's reader is.
LEMMA SendFrame ==
    ASSUME NEW e \in Ends, FifoMarker(e), FifoStream(e),
           str'[e] = str[e], wr'[e] = wr[e], got'[e] = got[e], disp'[e] = disp[e],
           mark'[e] = mark[e],
           Reading(Peer(e))' => Reading(Peer(e)) /\ AtStream(Peer(e))' = AtStream(Peer(e))
    PROVE  FifoMarker(e)' /\ FifoStream(e)'
  BY DEF FifoMarker, FifoStream

\* writeStripes and its writer put the next chunk at the end of the stream.
LEMMA SendFifo ==
    ASSUME TypeOK, N = 1, FifoInv, NEW e \in Ends,
           SendStep(e) \/ \E i \in Stripes : WriterStep(e, i)
    PROVE  FifoInv'
<1> DEFINE at == AtStream(Peer(e))
           s == str[e][1]
           w == wr[e][1]
<1>1. /\ Peer(e) \in Ends /\ Peer(Peer(e)) = e /\ Peer(e) # e
      /\ \A f \in Ends : f = e \/ f = Peer(e)
    BY PeerEnd DEF Ends, Peer
<1>2. /\ s \in Seq(Chunk) /\ w \in Held /\ got[e] \in Nat /\ mark[e] \in {1, 2}
      /\ at \in Nat /\ Stripes = {1}
    BY <1>1, StripeTypes
<1>3. /\ UNCHANGED <<rdr, in, pending, nextSeq, col, out>>
      /\ str'[Peer(e)] = str[Peer(e)] /\ wr'[Peer(e)] = wr[Peer(e)] /\ got'[Peer(e)] = got[Peer(e)]
      /\ disp'[Peer(e)] = disp[Peer(e)] /\ mark'[Peer(e)] = mark[Peer(e)]
  <2>1. CASE ReadTCP(e) \/ ReadTCPFails(e) \/ WritersDone(e)
    BY <1>1, <2>1 DEF TypeOK, ReadTCP, ReadTCPFails, WritersDone, recvVars
  <2>2. CASE WriteMarker(e) \/ SendingDone(e)
    BY <1>1, <2>2 DEF TypeOK, WriteMarker, SendingDone, recvVars
  <2>3. ASSUME NEW i \in Stripes, Dispatch(e, i) \/ WriteChunk(e, i) \/ WriteChunkFails(e, i)
        PROVE  /\ UNCHANGED <<rdr, in, pending, nextSeq, col, out>>
               /\ str'[Peer(e)] = str[Peer(e)] /\ wr'[Peer(e)] = wr[Peer(e)]
               /\ got'[Peer(e)] = got[Peer(e)] /\ disp'[Peer(e)] = disp[Peer(e)]
               /\ mark'[Peer(e)] = mark[Peer(e)]
    BY <1>1, <2>3 DEF TypeOK, Dispatch, WriteChunk, WriteChunkFails, recvVars
  <2> QED
    BY <2>1, <2>2, <2>3 DEF SendStep, WriterStep
<1>4. \A f \in Ends : /\ FifoOut(f)' /\ FifoIn(f)'
                       /\ AtStream(f)' = AtStream(f) /\ Reading(f)' = Reading(f)
    BY <1>3, ReceiveFrame DEF FifoInv, Fifo
<1>5. FifoMarker(Peer(e))' /\ FifoStream(Peer(e))'
    BY <1>1, <1>3, <1>4, SendFrame DEF FifoInv, Fifo
<1>6. FifoMarker(e) /\ FifoStream(e)
    BY DEF FifoInv, Fifo
<1> SUFFICES FifoMarker(e)' /\ FifoStream(e)'
    BY <1>1, <1>4, <1>5 DEF FifoInv, Fifo
<1>7. Reading(Peer(e))' = Reading(Peer(e)) /\ AtStream(Peer(e))' = at
    BY <1>1, <1>4
<1> HIDE DEF at
<1>8. CASE ReadTCP(e) \/ ReadTCPFails(e) \/ WritersDone(e) \/ SendingDone(e)
  <2>1. str' = str /\ wr' = wr /\ got' = got /\ mark' = mark
    BY <1>8 DEF ReadTCP, ReadTCPFails, WritersDone, SendingDone
  <2>2. \/ disp[e] = "read" /\ disp'[e] \in {"dispatch", "wait"}
        \/ disp[e] = "wait" /\ w.at # "holding" /\ disp'[e] = "mark"
        \/ disp[e] = "mark" /\ disp'[e] = "done"
    BY <1>2, <1>8 DEF TypeOK, ReadTCP, ReadTCPFails, WritersDone, SendingDone
  <2>3. FifoMarker(e)'
    BY <1>6, <2>1, <2>2 DEF FifoMarker
  <2>4. FifoStream(e)'
    BY <1>6, <1>7, <2>1, <2>2 DEF FifoStream, at
  <2> QED
    BY <2>3, <2>4
<1>9. CASE Dispatch(e, 1)
  <2> DEFINE h == Holding([seq |-> SeqOf(got[e] + 1), pay |-> got[e] + 1])
  <2>1. /\ disp[e] = "dispatch" /\ disp'[e] = "read" /\ w = Idle
        /\ got'[e] = got[e] + 1 /\ str' = str /\ mark' = mark
        /\ wr'[e][1] = Failed \/ wr'[e][1] = h
    BY <1>2, <1>9 DEF TypeOK, Dispatch
  <2>2. /\ Failed.at = "failed" /\ Idle.at = "idle"
        /\ h.at = "holding" /\ h.pay = got[e] + 1 /\ h.pay # 0 /\ h.seq = SeqOf(h.pay)
    BY <1>2 DEF Failed, Idle, Holding
  <2> HIDE DEF h
  <2>3. Reading(Peer(e)) => got[e] = at + Len(s)
    BY <1>6, <2>1, <2>2 DEF FifoStream, at
  <2>4. FifoMarker(e)'
    BY <1>6, <2>1, <2>2 DEF FifoMarker
  <2>5. FifoStream(e)'
    BY <1>6, <1>7, <2>1, <2>2, <2>3 DEF FifoStream, at
  <2> QED
    BY <2>4, <2>5
<1>10. CASE WriteMarker(e)
  <2> DEFINE c == [seq |-> SeqOf(got[e] + 1), pay |-> 0]
  <2>1. /\ disp[e] = "mark" /\ mark[e] = 1 /\ mark'[e] = 2 /\ disp' = disp
        /\ wr' = wr /\ got' = got
        /\ str'[e][1] = s \/ str'[e][1] = Append(s, c)
    BY <1>2, <1>10 DEF TypeOK, WriteMarker
  <2>2. c \in Chunk /\ c.pay = 0
    BY <1>2, PumpAssumption DEF Chunk, SeqOf
  <2> HIDE DEF c
  <2>3. \A j \in 1..Len(s) : s[j].pay # 0
    BY <1>6, <2>1 DEF FifoMarker
  <2>4. Len(s) \in Nat /\ Len(Append(s, c)) = Len(s) + 1 /\ Append(s, c)[Len(s) + 1] = c
        /\ \A j \in 1..Len(s) : Append(s, c)[j] = s[j]
    BY <1>2, <2>2
  <2>5. FifoMarker(e)'
    BY <1>6, <2>1, <2>2, <2>3, <2>4, SMTT(30) DEF FifoMarker
  <2>6. FifoStream(e)'
    <3>1. wr[e][1].at # "holding"
      BY <1>6, <2>1 DEF FifoMarker
    <3>2. Reading(Peer(e)) => \A j \in 1..Len(s) : Fits(s[j], at + j)
      BY <1>6 DEF FifoStream, at
    <3>3. Reading(Peer(e)) => \A j \in 1..Len(str'[e][1]) : Fits(str'[e][1][j], at + j)
      <4>1. Fits(c, at + Len(s) + 1)
        BY <2>2 DEF Fits
      <4> QED
        BY <1>2, <2>1, <2>2, <3>2, <4>1, AppendFits
    <3> QED
      BY <1>7, <2>1, <3>1, <3>3 DEF FifoStream
  <2> QED
    BY <2>5, <2>6
<1>11. CASE WriteChunk(e, 1)
  <2> DEFINE c == [seq |-> w.seq, pay |-> w.pay]
  <2>1. /\ w.at = "holding" /\ str'[e][1] = Append(s, c) /\ wr'[e][1] = Idle
        /\ disp' = disp /\ got' = got /\ mark' = mark
    BY <1>2, <1>11 DEF TypeOK, WriteChunk
  <2>2. /\ disp[e] \notin {"mark", "done"} /\ w.pay = got[e] /\ w.pay # 0
        /\ w.seq = SeqOf(w.pay) /\ \A j \in 1..Len(s) : s[j].pay # 0
    BY <1>6, <2>1 DEF FifoMarker
  <2>3. c \in Chunk /\ c.pay = w.pay /\ c.seq = w.seq /\ Idle.at = "idle"
    BY <1>2 DEF Chunk, Held, Idle
  <2> HIDE DEF c
  <2>4. Len(s) \in Nat /\ Len(Append(s, c)) = Len(s) + 1 /\ Append(s, c)[Len(s) + 1] = c
        /\ \A j \in 1..Len(s) : Append(s, c)[j] = s[j]
    BY <1>2, <2>3
  <2>5. FifoMarker(e)'
    BY <2>1, <2>2, <2>3, <2>4 DEF FifoMarker
  <2>6. Reading(Peer(e)) => /\ w.pay = at + Len(s) + 1
                            /\ \A j \in 1..Len(s) : Fits(s[j], at + j)
    BY <1>6, <2>1 DEF FifoStream, at
  <2>7. Reading(Peer(e)) => \A j \in 1..Len(str'[e][1]) : Fits(str'[e][1][j], at + j)
    <3>1. Reading(Peer(e)) => Fits(c, at + Len(s) + 1)
      BY <2>2, <2>3, <2>6 DEF Fits
    <3> QED
      BY <1>2, <2>1, <2>3, <2>6, <3>1, AppendFits
  <2>8. Reading(Peer(e)) => got[e] = at + Len(str'[e][1])
    BY <1>2, <2>1, <2>2, <2>4, <2>6
  <2>9. FifoStream(e)'
    BY <1>7, <2>1, <2>3, <2>7, <2>8 DEF FifoStream
  <2> QED
    BY <2>5, <2>9
<1>12. CASE WriteChunkFails(e, 1)
  <2>1. /\ wr'[e][1] = Failed /\ UNCHANGED <<disp, got, mark, str>>
    BY <1>2, <1>12 DEF TypeOK, WriteChunkFails
  <2>2. Failed.at = "failed"
    BY DEF Failed
  <2>3. FifoMarker(e)'
    BY <1>6, <2>1, <2>2 DEF FifoMarker
  <2>4. FifoStream(e)'
    BY <1>6, <1>7, <2>1, <2>2 DEF FifoStream, at
  <2> QED
    BY <2>3, <2>4
<1> QED
    BY <1>2, <1>8, <1>9, <1>10, <1>11, <1>12 DEF SendStep, WriterStep

\* A sequence that loses its first element to what precedes it ends where it did.
LEMMA OneMore ==
    ASSUME NEW a \in Nat, NEW n \in Nat, NEW t \in Nat, t + 1 = n
    PROVE  a + n = (a + 1) + t
    OBVIOUS

\* The reader takes the next chunk of the stream, and passes it on.
LEMMA ReaderFifo ==
    ASSUME TypeOK, N = 1, FifoInv, NEW e \in Ends, ReaderStep(e, 1)
    PROVE  FifoInv'
<1> DEFINE p == Peer(e)
           s == str[p][1]
           r == rdr[e][1]
<1>1. p \in Ends /\ Peer(p) = e /\ p # e /\ \A f \in Ends : f = e \/ f = p
    BY PeerEnd DEF Ends, Peer
<1>2. /\ s \in Seq(Chunk) /\ r \in Held /\ in[e] \in Seq(Chunk)
      /\ AtLoop(e) \in Nat /\ AtReader(e) \in Nat /\ AtStream(e) \in Nat
      /\ Stripes = {1} /\ Len(s) \in Nat /\ Len(in[e]) \in Nat
    BY <1>1, StripeTypes
<1>3. /\ UNCHANGED <<pending, nextSeq, col, out, wr, got, disp, mark>>
      /\ rdr'[p] = rdr[p] /\ in'[p] = in[p] /\ str'[e] = str[e]
    BY <1>1 DEF TypeOK, ReaderStep, ReadChunk, ReadChunkFails, Push, sendVars
<1>4. /\ FifoOut(e) /\ FifoIn(e) /\ FifoMarker(e) /\ FifoStream(e)
      /\ FifoOut(p) /\ FifoIn(p) /\ FifoMarker(p) /\ FifoStream(p)
    BY <1>1 DEF FifoInv, Fifo
<1>5. FifoOut(p)' /\ FifoIn(p)' /\ AtStream(p)' = AtStream(p) /\ Reading(p)' = Reading(p)
    BY <1>1, <1>3, <1>4, ReceiveFrame
<1>6. FifoMarker(e)' /\ FifoStream(e)'
    BY <1>3, <1>4, <1>5, SendFrame
<1>7. FifoOut(e)' /\ AtLoop(e)' = AtLoop(e)
    BY <1>3, <1>4 DEF FifoOut, AtLoop, Waiting
<1> SUFFICES FifoIn(e)' /\ FifoMarker(p)' /\ FifoStream(p)'
    BY <1>1, <1>4, <1>5, <1>6, <1>7 DEF FifoInv, Fifo
<1>8. Reading(e) => \A j \in 1..Len(s) : Fits(s[j], AtStream(e) + j)
    BY <1>1, <1>4 DEF FifoStream
<1> HIDE DEF p
<1>9. CASE ReadChunk(e, 1)
  <2>1. /\ r = Idle /\ s # <<>> /\ rdr'[e][1] = Holding(Head(s)) /\ str'[p][1] = Tail(s)
        /\ in' = in
    BY <1>1, <1>2, <1>9 DEF TypeOK, ReadChunk, p
  <2>2. /\ r.at = "idle" /\ Reading(e) /\ AtStream(e) = AtReader(e)
    <3>1. r.at = "idle" /\ HeldData(r) = 0
      BY <2>1 DEF Idle, HeldData
    <3> QED
      BY <1>2, <3>1 DEF Reading, AtStream
  <2>3. /\ Fits(Head(s), AtReader(e) + 1) /\ Head(s) \in Chunk
        /\ Tail(s) \in Seq(Chunk) /\ Len(Tail(s)) + 1 = Len(s)
        /\ \A j \in 1..Len(Tail(s)) : Fits(Tail(s)[j], (AtReader(e) + 1) + j)
    BY <1>2, <1>8, <2>1, <2>2, TailFits
  <2>4. /\ Holding(Head(s)).pay = Head(s).pay /\ Holding(Head(s)).seq = Head(s).seq
        /\ Holding(Head(s)).at = "holding"
    BY DEF Holding
  <2>5. AtReader(e)' = AtReader(e)
    BY <1>7, <2>1 DEF AtReader
  <2>6. FifoIn(e)'
    <3>1. \A j \in 1..Len(in[e]) : Fits(in[e][j], AtLoop(e) + j) /\ in[e][j].pay # 0
      BY <1>4, <2>2 DEF FifoIn
    <3>2. Fits(rdr'[e][1], AtReader(e) + 1)
      BY <2>1, <2>3, <2>4 DEF Fits
    <3> QED
      BY <1>7, <2>1, <2>4, <2>5, <3>1, <3>2 DEF FifoIn
  <2>7. FifoMarker(p)'
    <3>1. ASSUME NEW j \in 1..Len(Tail(s)), Tail(s)[j].pay = 0
          PROVE  j = Len(Tail(s)) /\ disp[p] \in {"mark", "done"} /\ mark[p] = 2
      <4>1. Tail(s)[j] = s[j + 1] /\ j + 1 \in 1..Len(s)
        BY <1>2, <2>1, <2>3, SMTT(30)
      <4> QED
        BY <1>4, <2>3, <3>1, <4>1 DEF FifoMarker
    <3> QED
      BY <1>3, <1>4, <2>1, <3>1 DEF FifoMarker
  <2>8. FifoStream(p)'
    <3> SUFFICES ASSUME Reading(e)' PROVE FifoStream(p)'
      BY <1>1 DEF FifoStream
    <3>1. HeldData(rdr'[e][1]) = 1
      BY <2>1, <2>4 DEF Reading
    <3>2. AtStream(e)' = AtReader(e) + 1
      BY <2>5, <3>1 DEF AtStream
    <3>3. wr[p][1].at = "holding" => wr[p][1].pay = (AtReader(e) + 1) + Len(Tail(s)) + 1
      BY <1>1, <1>2, <1>4, <2>2, <2>3 DEF FifoStream
    <3>4. wr[p][1].at = "idle" /\ disp[p] \in {"read", "dispatch"} =>
            got[p] = (AtReader(e) + 1) + Len(Tail(s))
      <4>1. wr[p][1].at = "idle" /\ disp[p] \in {"read", "dispatch"} =>
              got[p] = AtReader(e) + Len(s)
        BY <1>1, <1>4, <2>2 DEF FifoStream
      <4>2. AtReader(e) + Len(s) = (AtReader(e) + 1) + Len(Tail(s))
        <5>1. AtReader(e) \in Nat /\ Len(s) \in Nat /\ Len(Tail(s)) \in Nat
          BY <1>2, <2>3, LenProperties
        <5>2. Len(Tail(s)) + 1 = Len(s)
          BY <2>3, <5>1
        <5> HIDE DEF s
        <5> QED
          BY <5>1, <5>2, OneMore, SMTT(30)
      <4> QED
        BY <4>1, <4>2
    <3> QED
      BY <1>1, <1>3, <2>1, <2>3, <3>2, <3>3, <3>4 DEF FifoStream
  <2> QED
    BY <2>6, <2>7, <2>8
<1>10. CASE ReadChunkFails(e, 1)
  <2>1. r = Idle /\ rdr'[e][1] = Failing /\ in' = in /\ str' = str
    BY <1>2, <1>10 DEF TypeOK, ReadChunkFails
  <2>2. r.at = "idle" /\ Failing.at = "failing" /\ Failing.pay = 0
    BY <2>1 DEF Idle, Failing
  <2>3. ~Reading(e)'
    BY <2>1, <2>2 DEF Reading, HeldData
  <2>4. FifoIn(e)'
    <3>1. \A j \in 1..Len(in[e]) : Fits(in[e][j], AtLoop(e) + j) /\ in[e][j].pay # 0
      BY <1>4, <2>2 DEF FifoIn
    <3> QED
      BY <1>7, <2>1, <2>2, <3>1 DEF FifoIn, Fits
  <2>5. FifoMarker(p)' /\ FifoStream(p)'
    BY <1>1, <1>3, <1>4, <2>1, <2>3, SendFrame
  <2> QED
    BY <2>4, <2>5
<1>11. CASE Push(e, 1)
  <2> DEFINE c == [seq |-> r.seq, pay |-> r.pay]
  <2>1. /\ r.at \in {"holding", "failing"} /\ in'[e] = Append(in[e], c) /\ str' = str
        /\ rdr'[e][1] = IF r.at = "failing" THEN Failed ELSE IF r.pay = 0 THEN Ended ELSE Idle
    BY <1>2, <1>11 DEF TypeOK, Push, Eof
  <2>2. c \in Chunk /\ c.pay = r.pay /\ c.seq = r.seq
    BY <1>2 DEF Chunk, Held
  <2>3. /\ Failed.at = "failed" /\ Ended.at = "ended" /\ Idle.at = "idle"
        /\ Failed.pay = 0 /\ Ended.pay = 0 /\ Idle.pay = 0
    BY DEF Failed, Ended, Idle
  <2> HIDE DEF c
  <2>4. Len(Append(in[e], c)) = Len(in[e]) + 1 /\ Append(in[e], c)[Len(in[e]) + 1] = c
        /\ \A j \in 1..Len(in[e]) : Append(in[e], c)[j] = in[e][j]
    BY <1>2, <2>2
  <2>5. Fits(c, AtLoop(e) + Len(in[e]) + 1) /\ (r.at # "holding" => r.pay = 0)
    BY <1>4, <2>2 DEF FifoIn, Fits, AtReader
  <2>6. \A j \in 1..Len(in[e]) : Fits(in[e][j], AtLoop(e) + j) /\ in[e][j].pay # 0
    BY <1>4, <2>1 DEF FifoIn
  <2>7. FifoIn(e)'
    <3>1. \A j \in 1..Len(in'[e]) : Fits(in'[e][j], AtLoop(e) + j)
      BY <1>2, <2>1, <2>2, <2>5, <2>6, AppendFits
    <3>2. rdr'[e][1].pay = 0 /\ (c.pay = 0 => rdr'[e][1].at \in {"failed", "ended"})
      BY <2>1, <2>2, <2>3
    <3>3. \A j \in 1..Len(in'[e]) : in'[e][j].pay = 0 =>
            j = Len(in'[e]) /\ rdr'[e][1].at \in {"failed", "ended"}
      BY <1>2, <2>1, <2>4, <2>6, <3>2
    <3> QED
      BY <1>7, <3>1, <3>2, <3>3 DEF FifoIn, Fits
  <2>8. Reading(e)' => Reading(e) /\ AtStream(e)' = AtStream(e)
    <3> SUFFICES ASSUME Reading(e)' PROVE Reading(e) /\ AtStream(e)' = AtStream(e)
      OBVIOUS
    <3>1. rdr'[e][1].pay = 0
      BY <2>1, <2>3
    <3>2. rdr'[e][1].at = "idle" /\ HeldData(rdr'[e][1]) = 0
      BY <3>1 DEF Reading, HeldData
    <3>3. r.at = "holding" /\ r.pay # 0
      BY <2>1, <2>3, <3>2
    <3>4. HeldData(r) = 1 /\ Reading(e)
      BY <3>3 DEF HeldData, Reading
    <3>5. AtReader(e)' = AtReader(e) + 1
      BY <1>2, <1>7, <2>1, <2>4 DEF AtReader
    <3> QED
      BY <1>2, <3>2, <3>4, <3>5 DEF AtStream
  <2>9. FifoMarker(p)' /\ FifoStream(p)'
    BY <1>1, <1>3, <1>4, <2>1, <2>8, SendFrame
  <2> QED
    BY <2>7, <2>9
<1> QED
    BY <1>9, <1>10, <1>11 DEF ReaderStep

\* The loop writes each chunk as it comes.
LEMMA CollectFifo ==
    ASSUME TypeOK, N = 1, FifoInv, NEW e \in Ends, CollectStep(e)
    PROVE  FifoInv'
<1> DEFINE p == Peer(e)
<1> USE PumpAssumption
<1>1. p \in Ends /\ Peer(p) = e /\ p # e /\ \A f \in Ends : f = e \/ f = p
    BY PeerEnd DEF Ends, Peer
<1>2. /\ in[e] \in Seq(Chunk) /\ out[e] \in Seq(Nat) /\ pending[e] \subseteq Chunk
      /\ AtLoop(e) \in Nat /\ AtReader(e) \in Nat /\ AtStream(e) \in Nat
      /\ Len(in[e]) \in Nat /\ Len(out[e]) \in Nat
    BY <1>1, StripeTypes
<1>3. /\ UNCHANGED <<rdr, str, wr, got, disp, mark>>
      /\ in'[p] = in[p] /\ out'[p] = out[p] /\ pending'[p] = pending[p]
      /\ nextSeq'[p] = nextSeq[p] /\ col'[p] = col[p]
    BY <1>1 DEF TypeOK, CollectStep, Collect, CollectEof, WriteTCP, WriteTCPFails, ReceivingDone,
                sendVars
<1>4. /\ FifoOut(e) /\ FifoIn(e) /\ FifoMarker(e) /\ FifoStream(e)
      /\ FifoOut(p) /\ FifoIn(p) /\ FifoMarker(p) /\ FifoStream(p)
    BY <1>1 DEF FifoInv, Fifo
<1>5. FifoOut(p)' /\ FifoIn(p)' /\ AtStream(p)' = AtStream(p) /\ Reading(p)' = Reading(p)
    BY <1>1, <1>3, <1>4, ReceiveFrame
<1>6. FifoMarker(e)' /\ FifoStream(e)'
    BY <1>3, <1>4, <1>5, SendFrame
<1>7. Reading(e)' = Reading(e)
    BY <1>3 DEF Reading
<1> SUFFICES /\ FifoOut(e)' /\ FifoIn(e)'
             /\ Reading(e) => AtStream(e)' = AtStream(e)
  <2>1. FifoMarker(p)' /\ FifoStream(p)'
    BY <1>1, <1>3, <1>4, <1>7, SendFrame
  <2> QED
    BY <1>1, <1>5, <1>6, <2>1 DEF FifoInv, Fifo
<1> HIDE DEF p
<1>8. CASE Collect(e)
  <2> DEFINE c == Head(in[e])
  <2>1. /\ col[e] = "range" /\ in[e] # <<>> /\ c.pay # 0 /\ in'[e] = Tail(in[e])
        /\ pending'[e] = {d \in pending[e] : d.seq # c.seq} \cup {c}
        /\ col'[e] = (IF c.seq = nextSeq[e] THEN "drain" ELSE "range")
        /\ out' = out /\ nextSeq' = nextSeq
    BY <1>8 DEF TypeOK, Collect, Eof
  <2>2. pending[e] = {} /\ pending'[e] = {c}
    BY <1>4, <2>1 DEF FifoOut
  <2>3. Waiting(e) = 0 /\ Waiting(e)' = 1
    BY <2>2 DEF Waiting
  <2>4. AtLoop(e) = Len(out[e]) /\ AtLoop(e)' = AtLoop(e) + 1
    BY <1>2, <2>1, <2>3 DEF AtLoop
  <2>5. /\ Fits(c, AtLoop(e) + 1) /\ c \in Chunk
        /\ Tail(in[e]) \in Seq(Chunk) /\ Len(Tail(in[e])) + 1 = Len(in[e])
        /\ \A j \in 1..Len(Tail(in[e])) : Fits(Tail(in[e])[j], (AtLoop(e) + 1) + j)
    <3>1. \A j \in 1..Len(in[e]) : Fits(in[e][j], AtLoop(e) + j)
      BY <1>4 DEF FifoIn
    <3> QED
      BY <1>2, <2>1, <3>1, TailFits
  <2> HIDE DEF c
  <2>6. c.pay = Len(out[e]) + 1 /\ c.seq = SeqOf(c.pay)
    BY <2>1, <2>4, <2>5 DEF Fits
  <2>7. c.seq = nextSeq[e]
    <3>1. (Len(out[e]) + 1) - 1 = Len(out[e])
      BY <1>2
    <3> QED
      BY <1>4, <2>6, <3>1 DEF FifoOut, SeqOf
  <2>8. FifoOut(e)'
    BY <1>4, <2>1, <2>2, <2>6, <2>7 DEF FifoOut
  <2>9. AtReader(e)' = AtReader(e)
    <3>1. AtLoop(e) + Len(in[e]) = (AtLoop(e) + 1) + Len(Tail(in[e]))
      BY <1>2, <2>5, OneMore, LenProperties
    <3> QED
      BY <2>1, <2>4, <3>1 DEF AtReader
  <2>10. FifoIn(e)'
    <3>1. ASSUME NEW j \in 1..Len(Tail(in[e])), Tail(in[e])[j].pay = 0
          PROVE  j = Len(Tail(in[e])) /\ rdr[e][1].at \in {"failed", "ended"}
      <4>1. Tail(in[e])[j] = in[e][j + 1] /\ j + 1 \in 1..Len(in[e])
        BY <1>2, <2>1, <2>5
      <4> QED
        BY <1>4, <2>5, <3>1, <4>1 DEF FifoIn
    <3> QED
      BY <1>3, <1>4, <2>1, <2>4, <2>5, <2>9, <3>1 DEF FifoIn
  <2> QED
    BY <1>3, <2>8, <2>9, <2>10 DEF AtStream
<1>9. CASE CollectEof(e)
  <2>1. /\ col[e] = "range" /\ in[e] # <<>> /\ Head(in[e]).pay = 0 /\ in'[e] = Tail(in[e])
        /\ out' = out /\ nextSeq' = nextSeq /\ pending' = pending
    BY <1>9 DEF TypeOK, CollectEof, Eof
  <2>2. Head(in[e]) = in[e][1] /\ 1 \in 1..Len(in[e])
    BY <1>2, <2>1
  <2>3. Len(in[e]) = 1 /\ rdr[e][1].at \in {"failed", "ended"} /\ rdr[e][1].pay = 0
    BY <1>4, <2>1, <2>2 DEF FifoIn
  <2>4. Len(in'[e]) = 0
    BY <1>2, <2>1, <2>3
  <2>5. FifoOut(e)'
    BY <1>4, <2>1 DEF FifoOut
  <2>6. FifoIn(e)'
    BY <1>3, <2>3, <2>4 DEF FifoIn, Fits
  <2>7. ~Reading(e)
    BY <2>3 DEF Reading, HeldData
  <2> QED
    BY <2>5, <2>6, <2>7
<1>10. CASE WriteTCP(e)
  <2>1. PICK d \in pending[e] : /\ d.seq = nextSeq[e] /\ pending'[e] = pending[e] \ {d}
                                /\ out'[e] = Append(out[e], d.pay)
    BY <1>10 DEF TypeOK, WriteTCP
  <2>2. nextSeq'[e] = (nextSeq[e] + 1) % SeqMod /\ in' = in
    BY <1>10 DEF TypeOK, WriteTCP
  <2>3. d.pay = Len(out[e]) + 1 /\ pending'[e] = {}
    <3>1. \A b \in pending[e] : b \in Chunk /\ b.pay = d.pay /\ b.seq = d.seq
      BY <1>2, <1>4 DEF FifoOut
    <3>2. \A b \in pending[e] : b = d
      BY <3>1 DEF Chunk
    <3> QED
      BY <1>4, <2>1, <3>2 DEF FifoOut
  <2>4. /\ Len(out'[e]) = Len(out[e]) + 1 /\ out'[e][Len(out[e]) + 1] = Len(out[e]) + 1
        /\ \A k \in 1..Len(out[e]) : out'[e][k] = out[e][k]
    BY <1>2, <2>1, <2>3
  <2>5. nextSeq'[e] = Len(out'[e]) % SeqMod
    <3>1. nextSeq[e] = Len(out[e]) % SeqMod /\ Len(out[e]) \in Nat /\ SeqMod \in Nat \ {0}
      BY <1>2, <1>4, PumpAssumption, LenProperties DEF FifoOut
    <3>2. ((Len(out[e]) % SeqMod) + 1) % SeqMod = (Len(out[e]) + 1) % SeqMod
      BY <3>1, NextNumber
    <3> QED
      BY <2>2, <2>4, <3>1, <3>2
  <2>6. FifoOut(e)'
    <3>1. ASSUME NEW k \in 1..Len(out'[e]) PROVE out'[e][k] = k
      <4>1. k \in 1..Len(out[e]) \/ k = Len(out[e]) + 1
        BY <1>2, <2>4
      <4>2. \A j \in 1..Len(out[e]) : out[e][j] = j
        BY <1>4 DEF FifoOut
      <4> QED
        BY <2>4, <4>1, <4>2
    <3> QED
      BY <2>3, <2>5, <3>1 DEF FifoOut
  <2>7. Waiting(e) = 1 /\ Waiting(e)' = 0
    BY <2>1, <2>3 DEF Waiting
  <2>8. AtLoop(e)' = AtLoop(e)
    BY <1>2, <2>4, <2>7 DEF AtLoop
  <2>9. AtReader(e)' = AtReader(e)
    BY <2>2, <2>8 DEF AtReader
  <2>10. FifoIn(e)'
    BY <1>3, <1>4, <2>2, <2>8, <2>9 DEF FifoIn
  <2> QED
    BY <1>3, <2>6, <2>9, <2>10 DEF AtStream
<1>11. CASE WriteTCPFails(e) \/ ReceivingDone(e)
  <2>1. UNCHANGED <<in, pending, nextSeq, out>> /\ col'[e] \in {"return", "done"}
    BY <1>11 DEF TypeOK, WriteTCPFails, ReceivingDone
  <2> QED
    BY <1>3, <1>4, <2>1, ReceiveFrame
<1> QED
    BY <1>8, <1>9, <1>10, <1>11 DEF CollectStep

\* Every step of a pump with one stripe keeps its chunks in line.
LEMMA NextFifo == ASSUME TypeOK, N = 1, FifoInv, [Next]_vars PROVE FifoInv'
<1>1. Stripes = {1}
    BY DEF Stripes
<1>2. ASSUME NEW e \in Ends, PumpStep(e) PROVE FifoInv'
    BY <1>1, <1>2, SendFifo, ReaderFifo, CollectFifo DEF PumpStep
<1>3. CASE UNCHANGED vars \/ \E e \in Ends : Environment(e)
  <2>1. UNCHANGED <<disp, got, mark, wr, str, rdr, in, pending, nextSeq, col, out>>
    BY <1>3 DEF vars, Environment, AppHalfClose, AppClose, SessionDies, sendVars, recvVars
  <2> QED
    BY <2>1, PeerEnd, ReceiveFrame, SendFrame DEF FifoInv, Fifo
<1> QED
    BY <1>2, <1>3 DEF Next

-----------------------------------------------------------------------------
(* Theorems *)

\* On a connection of fewer than 2^32 chunks pumpStriped and pumpStripedReceiver
\* implement ForwardedConnection: for any number of stripes and sizes of buffers,
\* each step delivers the next chunk, closes for a reason or is not seen.
THEOREM PumpImplements == ASSUME FewChunks PROVE Spec => Promise
<1> DEFINE Inv == PumpInv /\ BoundInv /\ QuietInv
<1>1. Init => Inv /\ Abs!Init
    BY InitPumpInv, InitBound, InitQuiet, InitRefines
<1>2. Inv /\ [Next]_vars => Inv'
    BY NextPumpInv, NextBound, NextQuiet DEF PumpInv
<1>3. Inv /\ [Next]_vars => [Abs!Next]_(Abs!absVars)
    BY NumbersDue, NextRefines DEF PumpInv
<1> QED
    BY <1>1, <1>2, <1>3, PTL DEF Spec, Promise, Abs!Spec

\* With the build's one stripe the pump delivers in order however many chunks a
\* connection carries: the numbers may wrap around.
THEOREM OneStripeInOrder == ASSUME N = 1 PROVE Spec => []InOrder
<1> DEFINE Inv == TypeOK /\ FifoInv
<1>1. Init => Inv
    BY InitTypeOK, InitFifo
<1>2. Inv /\ [Next]_vars => Inv'
    BY NextTypeOK, NextFifo
<1>3. Inv => InOrder
    BY DEF FifoInv, Fifo, FifoOut, InOrder
<1> QED
    BY <1>1, <1>2, <1>3, PTL DEF Spec

\* And it implements ForwardedConnection, without a bound on the connection.
THEOREM OneStripeImplements == ASSUME N = 1 PROVE Spec => Promise
<1> DEFINE Inv == TypeOK /\ FifoInv /\ BoundInv /\ QuietInv
<1>1. Init => Inv /\ Abs!Init
    BY InitTypeOK, InitFifo, InitBound, InitQuiet, InitRefines
<1>2. Inv /\ [Next]_vars => Inv'
    BY NextTypeOK, NextFifo, NextBound, NextQuiet
<1>3. Inv => Due
    BY DEF FifoInv, Fifo, FifoOut, Due
<1>4. Inv /\ [Next]_vars => [Abs!Next]_(Abs!absVars)
    BY <1>3, NextRefines
<1> QED
    BY <1>1, <1>2, <1>4, PTL DEF Spec, Promise, Abs!Spec

=============================================================================
