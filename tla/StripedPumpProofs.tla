-------------------------- MODULE StripedPumpProofs --------------------------
(***************************************************************************)
(* TLAPS proof that the pump delivers a prefix of what was sent, for any   *)
(* number of stripes, any channel capacity and any flow-control window, as *)
(* long as a connection carries fewer chunks than there are sequence       *)
(* numbers.                                                                *)
(***************************************************************************)
EXTENDS StripedPump, TLAPS

\* A chunk of end e as writeStripes makes it: an end of stream, or the number
\* and the payload of the same Read.
Sound(e) ==
    {c \in Chunk : c.pay # 0 => c.pay = c.seq + 1 /\ c.pay < SeqMod}

\* What a writer of end e, or a reader of e's peer, may hold.
CarriesSound(e, h) ==
    /\ h.at = "holding" /\ h.pay # 0 => h.pay = h.seq + 1 /\ h.pay < SeqMod
    /\ h.at # "holding" => h.pay = 0

\* Every chunk on its way carries the number of its payload ...
SendInv ==
    \A e \in Ends :
        /\ disp[e] = "dispatch" => got[e] + 1 < SeqMod
        /\ \A i \in Stripes : CarriesSound(e, wr[e][i])
        /\ \A i \in Stripes : str[e][i] \in Seq(Sound(e))

CarryInv ==
    \A e \in Ends :
        /\ \A i \in Stripes : CarriesSound(Peer(e), rdr[e][i])
        /\ in[e] \in Seq(Sound(Peer(e)))
        /\ \A d \in pending[e] : d \in Sound(Peer(e)) /\ d.pay # 0

\* ... and the number readStripesToTCP waits for is that of the next payload to
\* write.
WrittenInv ==
    \A e \in Ends :
        /\ Len(out[e]) < SeqMod
        /\ nextSeq[e] = Len(out[e])
        /\ \A k \in 1..Len(out[e]) : out[e][k] = k

PumpInv == TypeOK /\ SendInv /\ CarryInv /\ WrittenInv

-----------------------------------------------------------------------------

\* The two ends are each other's peer.
LEMMA PeerEnd == \A e \in Ends : Peer(e) \in Ends /\ Peer(Peer(e)) = e /\ Peer(e) # e
  BY DEF Ends, Peer

\* A pump that has just started is well typed.
LEMMA InitTypeOK == Init => TypeOK
  BY PumpAssumption DEF Init, TypeOK, Held, Idle, Chunk, SeqNums

\* Every step of the pump and of its environment keeps the types.
LEMMA NextTypeOK == TypeOK /\ [Next]_vars => TypeOK'
<1> SUFFICES ASSUME TypeOK, [Next]_vars PROVE TypeOK'
    OBVIOUS
<1> USE PumpAssumption, PeerEnd
<1> USE DEF TypeOK, appVars, sendVars, recvVars
<1>1. ASSUME NEW e \in Ends, Environment(e) PROVE TypeOK'
  <2>1. CASE AppHalfClose(e)
    BY <2>1 DEF AppHalfClose
  <2>2. CASE AppClose(e)
    BY <2>2 DEF AppClose
  <2>3. CASE SessionDies(e)
    BY <2>3 DEF SessionDies
  <2> QED
    BY <1>1, <2>1, <2>2, <2>3 DEF Environment
<1>2. ASSUME NEW e \in Ends, ReadTCP(e) \/ ReadTCPFails(e) \/ WritersDone(e)
      PROVE  TypeOK'
  <2>1. CASE ReadTCP(e)
    BY <2>1 DEF ReadTCP
  <2>2. CASE ReadTCPFails(e)
    BY <2>2 DEF ReadTCPFails
  <2>3. CASE WritersDone(e)
    BY <2>3 DEF WritersDone
  <2> QED
    BY <1>2, <2>1, <2>2, <2>3
<1>3. ASSUME NEW e \in Ends, NEW i \in Stripes, Dispatch(e, i) PROVE TypeOK'
  <2>1. SeqOf(got[e] + 1) \in Nat
    BY DEF SeqOf
  <2>2. Holding([seq |-> SeqOf(got[e] + 1), pay |-> got[e] + 1]) \in Held
    BY <2>1 DEF Holding, Held
  <2>3. Failed \in Held
    BY DEF Failed, Held
  <2>4. PICK h \in Held : wr' = [wr EXCEPT ![e][i] = h]
    BY <1>3, <2>2, <2>3 DEF Dispatch
  <2>5. wr' \in [Ends -> [Stripes -> Held]]
    BY <2>4
  <2>6. /\ disp' \in [Ends -> {"read", "dispatch", "wait", "mark", "done"}]
        /\ got' \in [Ends -> Nat]
    BY <1>3 DEF Dispatch
  <2>7. UNCHANGED <<plan, app, rst, tcpClosed, mark, str, fin, rdr, in, pending, nextSeq,
                    eofs, col, out, dead>>
    BY <1>3 DEF Dispatch
  <2> QED
    BY <2>5, <2>6, <2>7
<1>4. ASSUME NEW e \in Ends, WriteMarker(e) PROVE TypeOK'
  <2>1. [seq |-> SeqOf(got[e] + 1), pay |-> 0] \in Chunk
    BY DEF SeqOf, Chunk
  <2>2. mark[e] \in Stripes /\ mark[e] + 1 \in 1..(N + 1)
    BY <1>4 DEF WriteMarker, Stripes
  <2>3. str' \in [Ends -> [Stripes -> Seq(Chunk)]]
    <3>1. CASE str' = str
      BY <3>1
    <3>2. CASE str' = [str EXCEPT ![e][mark[e]] =
                        Append(@, [seq |-> SeqOf(got[e] + 1), pay |-> 0])]
      BY <2>1, <2>2, <3>2
    <3> QED
      BY <1>4, <3>1, <3>2 DEF WriteMarker
  <2>4. mark' \in [Ends -> 1..(N + 1)]
    BY <1>4, <2>2 DEF WriteMarker
  <2> QED
    BY <1>4, <2>3, <2>4 DEF WriteMarker
<1>5. ASSUME NEW e \in Ends, SendingDone(e) PROVE TypeOK'
  <2>1. tcpClosed' \in [Ends -> BOOLEAN] /\ fin' \in [Ends -> BOOLEAN]
    BY <1>5 DEF SendingDone, CloseAll
  <2> QED
    BY <1>5, <2>1 DEF SendingDone
<1>16. ASSUME NEW e \in Ends, ReceivingDone(e) PROVE TypeOK'
  <2>1. tcpClosed' \in [Ends -> BOOLEAN] /\ fin' \in [Ends -> BOOLEAN]
    BY <1>16 DEF ReceivingDone, CloseAll
  <2> QED
    BY <1>16, <2>1 DEF ReceivingDone
<1>6. ASSUME NEW e \in Ends, NEW i \in Stripes, WriteChunk(e, i) PROVE TypeOK'
  <2>1. /\ [seq |-> wr[e][i].seq, pay |-> wr[e][i].pay] \in Chunk
        /\ Idle \in Held
    BY DEF Held, Chunk, Idle
  <2> QED
    BY <1>6, <2>1, SMTT(30) DEF WriteChunk
<1>7. ASSUME NEW e \in Ends, NEW i \in Stripes, WriteChunkFails(e, i) PROVE TypeOK'
    BY <1>7 DEF WriteChunkFails, Failed, Held
<1>8. ASSUME NEW e \in Ends, NEW i \in Stripes, ReadChunk(e, i) PROVE TypeOK'
  <2>1. str[Peer(e)][i] \in Seq(Chunk) /\ str[Peer(e)][i] # <<>>
    BY <1>8 DEF ReadChunk
  <2>2. Head(str[Peer(e)][i]) \in Chunk /\ Tail(str[Peer(e)][i]) \in Seq(Chunk)
    BY <2>1
  <2>3. Holding(Head(str[Peer(e)][i])) \in Held
    BY <2>2 DEF Holding, Held, Chunk
  <2> QED
    BY <1>8, <2>2, <2>3 DEF ReadChunk
<1>9. ASSUME NEW e \in Ends, NEW i \in Stripes, ReadChunkFails(e, i) PROVE TypeOK'
    BY <1>9 DEF ReadChunkFails, Failing, Held
<1>10. ASSUME NEW e \in Ends, NEW i \in Stripes, Push(e, i) PROVE TypeOK'
  <2>1. /\ [seq |-> rdr[e][i].seq, pay |-> rdr[e][i].pay] \in Chunk
        /\ Idle \in Held /\ Failed \in Held /\ Ended \in Held
    BY DEF Held, Chunk, Idle, Failed, Ended
  <2> QED
    BY <1>10, <2>1, SMTT(30) DEF Push
<1>11. ASSUME NEW e \in Ends, Collect(e) PROVE TypeOK'
  <2>1. Head(in[e]) \in Chunk /\ Tail(in[e]) \in Seq(Chunk)
    BY <1>11 DEF Collect
  <2> QED
    BY <1>11, <2>1 DEF Collect
<1>12. ASSUME NEW e \in Ends, CollectEof(e) PROVE TypeOK'
  <2>1. Tail(in[e]) \in Seq(Chunk)
    BY <1>12 DEF CollectEof
  <2> QED
    BY <1>12, <2>1, SMTT(30) DEF CollectEof, Continue
<1>13. ASSUME NEW e \in Ends, WriteTCP(e) PROVE TypeOK'
  <2>1. PICK d \in pending[e] : /\ pending' = [pending EXCEPT ![e] = @ \ {d}]
                                /\ out' = [out EXCEPT ![e] = Append(@, d.pay)]
    BY <1>13 DEF WriteTCP
  <2>2. Append(out[e], d.pay) \in Seq(Nat)
    BY DEF Chunk
  <2>3. (nextSeq[e] + 1) % SeqMod \in SeqNums
    BY DEF SeqNums
  <2> QED
    BY <1>13, <2>1, <2>2, <2>3 DEF WriteTCP, Continue
<1>14. ASSUME NEW e \in Ends, WriteTCPFails(e) PROVE TypeOK'
    BY <1>14 DEF WriteTCPFails
<1>15. CASE UNCHANGED vars
    BY <1>15 DEF vars
<1> QED
    BY <1>1, <1>2, <1>3, <1>4, <1>5, <1>6, <1>7, <1>8, <1>9, <1>10, <1>11, <1>12,
       <1>13, <1>14, <1>15, <1>16
    DEF Next, PumpStep, SendStep, WriterStep, ReaderStep, CollectStep

-----------------------------------------------------------------------------
(* Numbers identify chunks as long as they do not run out *)

FewChunks == \A p \in Plans : \A e \in Ends : p.quota[e] < SeqMod

\* A number below the modulus is its own remainder.
LEMMA SmallMod == ASSUME NEW k \in Nat, k < SeqMod PROVE k % SeqMod = k
  BY PumpAssumption

\* Until the numbers wrap around, a chunk's number is the count of those before it.
LEMMA SeqOfSmall == ASSUME NEW k \in Nat, k < SeqMod PROVE SeqOf(k + 1) = k
<1>1. (k + 1) - 1 = k
    OBVIOUS
<1> QED
    BY <1>1, SmallMod DEF SeqOf

\* A pump that has just started carries nothing.
LEMMA InitPumpInv == Init => PumpInv
<1> SUFFICES ASSUME Init PROVE PumpInv
    OBVIOUS
<1>1. TypeOK
    BY InitTypeOK
<1>2. SendInv
    BY DEF Init, SendInv, CarriesSound, Idle
<1>3. CarryInv
    BY DEF Init, CarryInv, CarriesSound, Idle
<1>4. WrittenInv
    BY PumpAssumption, PeerEnd DEF Init, WrittenInv
<1> QED
    BY <1>1, <1>2, <1>3, <1>4 DEF PumpInv

\* writeStripes numbers its chunks by their order.
LEMMA SendKeeps ==
    ASSUME FewChunks, PumpInv, TypeOK', NEW e \in Ends,
           SendStep(e) \/ \E i \in Stripes : WriterStep(e, i)
    PROVE  SendInv'
<1> USE PumpAssumption DEF PumpInv
<1>1. /\ disp \in [Ends -> {"read", "dispatch", "wait", "mark", "done"}]
      /\ got \in [Ends -> Nat] /\ mark \in [Ends -> 1..(N + 1)]
      /\ wr \in [Ends -> [Stripes -> Held]]
      /\ str \in [Ends -> [Stripes -> Seq(Chunk)]]
    BY DEF TypeOK
<1>2. CASE ReadTCP(e)
  <2>1. plan \in Plan /\ plan.quota[e] \in Nat /\ plan.quota[e] < SeqMod
    BY DEF TypeOK, Plan, FewChunks
  <2>2. got[e] + 1 < SeqMod
    BY <1>1, <1>2, <2>1 DEF ReadTCP
  <2> QED
    BY <1>1, <1>2, <2>2 DEF ReadTCP, SendInv
<1>3. CASE ReadTCPFails(e) \/ WritersDone(e)
  <2>1. PICK st \in {"wait", "mark"} : disp' = [disp EXCEPT ![e] = st]
    BY <1>3 DEF ReadTCPFails, WritersDone
  <2>2. UNCHANGED <<got, wr, str>>
    BY <1>3 DEF ReadTCPFails, WritersDone
  <2> QED
    BY <1>1, <2>1, <2>2 DEF SendInv
<1>4. CASE SendingDone(e)
    BY <1>1, <1>4 DEF SendingDone, SendInv
<1>5. ASSUME NEW i \in Stripes, Dispatch(e, i) PROVE SendInv'
  <2> DEFINE taken == Holding([seq |-> SeqOf(got[e] + 1), pay |-> got[e] + 1])
             h == IF fin[e] THEN Failed ELSE taken
  <2>1. got[e] + 1 < SeqMod /\ got[e] < SeqMod /\ got[e] \in Nat
    BY <1>1, <1>5 DEF Dispatch, SendInv
  <2>2. SeqOf(got[e] + 1) = got[e]
    BY <2>1, SeqOfSmall
  <2>3. CarriesSound(e, h)
    <3>1. CarriesSound(e, taken)
      BY <2>1, <2>2 DEF CarriesSound, Holding
    <3>2. CarriesSound(e, Failed)
      BY DEF CarriesSound, Failed
    <3> QED
      BY <3>1, <3>2
  <2>4. /\ disp' = [disp EXCEPT ![e] = "read"]
        /\ got' = [got EXCEPT ![e] = @ + 1]
        /\ wr' = [wr EXCEPT ![e][i] = h]
        /\ str' = str
    BY <1>5 DEF Dispatch
  <2> HIDE DEF h
  <2> QED
    BY <1>1, <2>3, <2>4 DEF SendInv
<1>6. CASE WriteMarker(e)
  <2> DEFINE c == [seq |-> SeqOf(got[e] + 1), pay |-> 0]
  <2>1. c \in Sound(e)
    BY <1>1 DEF Sound, Chunk, SeqOf
  <2>2. UNCHANGED <<disp, got, wr>>
    BY <1>6 DEF WriteMarker
  <2>3. str' = str \/ str' = [str EXCEPT ![e][mark[e]] = Append(@, c)]
    BY <1>6 DEF WriteMarker
  <2>4. mark[e] \in Stripes
    BY <1>1, <1>6 DEF WriteMarker, Stripes
  <2> HIDE DEF c
  <2>5. CASE str' = str
    BY <2>2, <2>5 DEF SendInv
  <2>6. CASE str' = [str EXCEPT ![e][mark[e]] = Append(@, c)]
    BY <1>1, <2>1, <2>2, <2>4, <2>6 DEF SendInv
  <2> QED
    BY <2>3, <2>5, <2>6
<1>7. ASSUME NEW i \in Stripes, WriteChunk(e, i) PROVE SendInv'
  <2> DEFINE c == [seq |-> wr[e][i].seq, pay |-> wr[e][i].pay]
  <2>1. c \in Sound(e)
    BY <1>1, <1>7 DEF WriteChunk, SendInv, CarriesSound, Sound, Chunk, Held
  <2>2. /\ str' = [str EXCEPT ![e][i] = Append(@, c)]
        /\ wr' = [wr EXCEPT ![e][i] = Idle]
        /\ UNCHANGED <<disp, got>>
    BY <1>7 DEF WriteChunk
  <2>3. CarriesSound(e, Idle)
    BY DEF CarriesSound, Idle
  <2> HIDE DEF c
  <2> QED
    BY <1>1, <2>1, <2>2, <2>3 DEF SendInv
<1>8. ASSUME NEW i \in Stripes, WriteChunkFails(e, i) PROVE SendInv'
  <2>1. CarriesSound(e, Failed)
    BY DEF CarriesSound, Failed
  <2> QED
    BY <1>1, <1>8, <2>1 DEF WriteChunkFails, SendInv
<1> QED
    BY <1>2, <1>3, <1>4, <1>5, <1>6, <1>7, <1>8 DEF SendStep, WriterStep

\* A reader passes on what the writer of the other end wrote.
LEMMA ReaderKeeps ==
    ASSUME PumpInv, NEW e \in Ends, NEW i \in Stripes, ReaderStep(e, i)
    PROVE  SendInv' /\ CarryInv'
<1> USE PeerEnd DEF PumpInv
<1>1. /\ str \in [Ends -> [Stripes -> Seq(Chunk)]]
      /\ rdr \in [Ends -> [Stripes -> Held]]
      /\ in \in [Ends -> Seq(Chunk)]
    BY DEF TypeOK
<1>2. CASE ReadChunk(e, i)
  <2> DEFINE s == str[Peer(e)][i]
  <2>1. s \in Seq(Sound(Peer(e))) /\ s # <<>>
    BY <1>2 DEF ReadChunk, SendInv
  <2>2. Head(s) \in Sound(Peer(e)) /\ Tail(s) \in Seq(Sound(Peer(e)))
    BY <2>1
  <2>3. CarriesSound(Peer(e), Holding(Head(s)))
    BY <2>2 DEF CarriesSound, Holding, Sound
  <2>4. /\ rdr' = [rdr EXCEPT ![e][i] = Holding(Head(s))]
        /\ str' = [str EXCEPT ![Peer(e)][i] = Tail(s)]
        /\ UNCHANGED <<disp, got, wr, in, pending>>
    BY <1>1, <1>2 DEF ReadChunk, sendVars
  <2> HIDE DEF s
  <2>5. SendInv'
    BY <1>1, <2>2, <2>4 DEF SendInv
  <2>6. CarryInv'
    BY <1>1, <2>3, <2>4 DEF CarryInv
  <2> QED
    BY <2>5, <2>6
<1>3. CASE ReadChunkFails(e, i)
  <2>1. CarriesSound(Peer(e), Failing)
    BY DEF CarriesSound, Failing
  <2>2. SendInv'
    BY <1>3 DEF ReadChunkFails, sendVars, SendInv
  <2>3. CarryInv'
    BY <1>1, <1>3, <2>1 DEF ReadChunkFails, CarryInv
  <2> QED
    BY <2>2, <2>3
<1>4. CASE Push(e, i)
  <2> DEFINE c == [seq |-> rdr[e][i].seq, pay |-> rdr[e][i].pay]
  <2>1. c \in Sound(Peer(e))
    <3>1. rdr[e][i].seq \in Nat /\ rdr[e][i].pay \in Nat
      BY <1>1 DEF Held
    <3>2. CarriesSound(Peer(e), rdr[e][i])
      BY DEF CarryInv
    <3> QED
      BY <3>1, <3>2 DEF CarriesSound, Sound, Chunk
  <2>2. /\ CarriesSound(Peer(e), Idle)
        /\ CarriesSound(Peer(e), Failed)
        /\ CarriesSound(Peer(e), Ended)
    BY DEF CarriesSound, Idle, Failed, Ended
  <2>3. PICK h \in {Idle, Failed, Ended} : rdr' = [rdr EXCEPT ![e][i] = h]
    BY <1>4 DEF Push
  <2>4. in' = [in EXCEPT ![e] = Append(@, c)] /\ pending' = pending
    BY <1>4 DEF Push
  <2> HIDE DEF c
  <2>5. SendInv'
    BY <1>4 DEF Push, sendVars, SendInv
  <2>6. CarryInv'
    BY <1>1, <2>1, <2>2, <2>3, <2>4 DEF CarryInv
  <2> QED
    BY <2>5, <2>6
<1> QED
    BY <1>2, <1>3, <1>4 DEF ReaderStep

\* The reorder buffer holds sound chunks, and the one written next is the one
\* whose number is the count of those written.
LEMMA CollectKeeps ==
    ASSUME FewChunks, PumpInv, NEW e \in Ends, CollectStep(e)
    PROVE  SendInv' /\ CarryInv' /\ WrittenInv'
<1> USE PumpAssumption, PeerEnd DEF PumpInv
<1>1. /\ in \in [Ends -> Seq(Chunk)] /\ pending \in [Ends -> SUBSET Chunk]
      /\ nextSeq \in [Ends -> SeqNums] /\ out \in [Ends -> Seq(Nat)]
    BY DEF TypeOK
<1>2. SendInv'
  <2>1. UNCHANGED <<disp, got, wr, str>>
    BY DEF CollectStep, Collect, CollectEof, WriteTCP, WriteTCPFails, ReceivingDone,
           sendVars
  <2> QED
    BY <2>1 DEF SendInv
<1>3. rdr' = rdr
    BY DEF CollectStep, Collect, CollectEof, WriteTCP, WriteTCPFails, ReceivingDone
<1>4. CASE Collect(e)
  <2> DEFINE c == Head(in[e])
  <2>1. c \in Sound(Peer(e)) /\ c.pay # 0 /\ Tail(in[e]) \in Seq(Sound(Peer(e)))
    BY <1>4 DEF Collect, CarryInv, Eof
  <2>2. /\ in' = [in EXCEPT ![e] = Tail(@)]
        /\ pending' = [pending EXCEPT ![e] = {d \in @ : d.seq # c.seq} \cup {c}]
        /\ UNCHANGED <<nextSeq, out>>
    BY <1>4 DEF Collect
  <2> HIDE DEF c
  <2>3. CarryInv'
    BY <1>1, <1>3, <2>1, <2>2 DEF CarryInv
  <2> QED
    BY <1>2, <2>2, <2>3 DEF WrittenInv
<1>5. CASE CollectEof(e)
  <2>1. Tail(in[e]) \in Seq(Sound(Peer(e)))
    BY <1>5 DEF CollectEof, CarryInv
  <2>2. in' = [in EXCEPT ![e] = Tail(@)] /\ UNCHANGED <<pending, nextSeq, out>>
    BY <1>5 DEF CollectEof
  <2>3. CarryInv'
    BY <1>1, <1>3, <2>1, <2>2 DEF CarryInv
  <2> QED
    BY <1>2, <2>2, <2>3 DEF WrittenInv
<1>6. CASE WriteTCP(e)
  <2>1. PICK d \in pending[e] : /\ d.seq = nextSeq[e]
                                /\ pending' = [pending EXCEPT ![e] = @ \ {d}]
                                /\ out' = [out EXCEPT ![e] = Append(@, d.pay)]
    BY <1>6 DEF WriteTCP
  <2>2. nextSeq' = [nextSeq EXCEPT ![e] = (@ + 1) % SeqMod] /\ in' = in
    BY <1>6 DEF WriteTCP
  <2>3. /\ d.pay = Len(out[e]) + 1
        /\ d.pay < SeqMod
    BY <2>1 DEF CarryInv, WrittenInv, Sound
  <2>4. Len(out[e]) \in Nat /\ nextSeq[e] = Len(out[e])
    BY <1>1 DEF WrittenInv
  <2>5. (nextSeq[e] + 1) % SeqMod = Len(out[e]) + 1
    <3>1. Len(out[e]) + 1 \in Nat /\ Len(out[e]) + 1 < SeqMod
      BY <2>3, <2>4
    <3> QED
      BY <2>4, <3>1, SmallMod
  <2>6. CarryInv'
    BY <1>1, <1>3, <2>1, <2>2 DEF CarryInv
  <2>7. WrittenInv'
    <3> SUFFICES ASSUME NEW f \in Ends
                 PROVE  /\ Len(out'[f]) < SeqMod
                        /\ nextSeq'[f] = Len(out'[f])
                        /\ \A k \in 1..Len(out'[f]) : out'[f][k] = k
      BY DEF WrittenInv
    <3>1. CASE f = e
      <4>1. /\ out'[e] = Append(out[e], d.pay)
            /\ Len(out'[e]) = Len(out[e]) + 1
            /\ out'[e][Len(out[e]) + 1] = d.pay
            /\ \A k \in 1..Len(out[e]) : out'[e][k] = out[e][k]
        BY <1>1, <2>1
      <4>2. nextSeq'[e] = Len(out[e]) + 1
        BY <1>1, <2>2, <2>5
      <4> QED
        BY <2>3, <2>4, <3>1, <4>1, <4>2 DEF WrittenInv
    <3>2. CASE f # e
      BY <1>1, <2>1, <2>2, <3>2 DEF WrittenInv
    <3> QED
      BY <3>1, <3>2
  <2> QED
    BY <1>2, <2>6, <2>7
<1>7. CASE WriteTCPFails(e) \/ ReceivingDone(e)
  <2>1. UNCHANGED <<in, pending, nextSeq, out>>
    BY <1>7 DEF WriteTCPFails, ReceivingDone
  <2> QED
    BY <1>2, <1>3, <2>1 DEF CarryInv, WrittenInv
<1> QED
    BY <1>4, <1>5, <1>6, <1>7 DEF CollectStep

\* Every step of either end keeps the inductive invariant.
LEMMA NextPumpInv == ASSUME FewChunks PROVE PumpInv /\ [Next]_vars => PumpInv'
<1> SUFFICES ASSUME PumpInv, [Next]_vars PROVE PumpInv'
    OBVIOUS
<1>1. TypeOK'
    BY NextTypeOK DEF PumpInv
<1>2. ASSUME NEW e \in Ends, SendStep(e) \/ \E i \in Stripes : WriterStep(e, i)
      PROVE  PumpInv'
  <2>1. UNCHANGED recvVars
    <3>1. CASE SendStep(e)
      BY <3>1 DEF SendStep, ReadTCP, ReadTCPFails, Dispatch, WritersDone, WriteMarker,
                  SendingDone
    <3>2. ASSUME NEW i \in Stripes, WriterStep(e, i) PROVE UNCHANGED recvVars
      BY <3>2 DEF WriterStep, WriteChunk, WriteChunkFails
    <3> QED
      BY <1>2, <3>1, <3>2
  <2>2. CarryInv' /\ WrittenInv'
    BY <2>1 DEF recvVars, PumpInv, CarryInv, WrittenInv
  <2> QED
    BY <1>1, <1>2, <2>2, SendKeeps DEF PumpInv
<1>3. ASSUME NEW e \in Ends, NEW i \in Stripes, ReaderStep(e, i) PROVE PumpInv'
  <2>1. UNCHANGED <<nextSeq, out>>
    BY <1>3 DEF ReaderStep, ReadChunk, ReadChunkFails, Push
  <2>2. WrittenInv'
    BY <2>1 DEF PumpInv, WrittenInv
  <2> QED
    BY <1>1, <1>3, <2>2, ReaderKeeps DEF PumpInv
<1>4. ASSUME NEW e \in Ends, CollectStep(e) PROVE PumpInv'
    BY <1>1, <1>4, CollectKeeps DEF PumpInv
<1>5. ASSUME NEW e \in Ends, Environment(e) PROVE PumpInv'
  <2>1. UNCHANGED <<disp, got, wr, str, rdr, in, pending, nextSeq, out>>
    BY <1>5 DEF Environment, AppHalfClose, AppClose, SessionDies, sendVars, recvVars
  <2> QED
    BY <1>1, <2>1 DEF PumpInv, SendInv, CarryInv, WrittenInv
<1>6. CASE UNCHANGED vars
    BY <1>1, <1>6 DEF vars, PumpInv, SendInv, CarryInv, WrittenInv
<1> QED
    BY <1>2, <1>3, <1>4, <1>5, <1>6 DEF Next, PumpStep

-----------------------------------------------------------------------------
(* Theorems *)

\* Every reachable state of the pump is well typed (writeStripes,
\* readStripesToTCP and closeAll).
THEOREM PumpTypeCorrect == Spec => []TypeOK
<1>1. Init => TypeOK
    BY InitTypeOK
<1>2. TypeOK /\ [Next]_vars => TypeOK'
    BY NextTypeOK
<1> QED
    BY <1>1, <1>2, PTL DEF Spec

\* On a connection of fewer than 2^32 chunks an application receives a prefix of
\* what the other one sent, whatever the number of stripes and the sizes of
\* buffers (the dispatch in writeStripes and the reorder buffer of
\* readStripesToTCP).
THEOREM DeliveryInOrder == ASSUME FewChunks PROVE Spec => []InOrder
<1>1. Init => PumpInv
    BY InitPumpInv
<1>2. PumpInv /\ [Next]_vars => PumpInv'
    BY NextPumpInv
<1>3. PumpInv => InOrder
    BY DEF PumpInv, WrittenInv, InOrder
<1> QED
    BY <1>1, <1>2, <1>3, PTL DEF Spec

=============================================================================
