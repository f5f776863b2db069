------------------------- MODULE StripedPumpMarkers -------------------------
(***************************************************************************)
(* TLAPS proof that the EOF markers mean what writeStripes says they do:   *)
(* when readStripesToTCP has been told of the end of every stripe by a     *)
(* marker, everything the other end took from its application has been     *)
(* written.  A marker is the last of its stripe and is sent when every     *)
(* chunk was; a chunk is somewhere between the two applications unless a   *)
(* writer failed; and the loop counts as many ends as readers have         *)
(* returned.                                                               *)
(***************************************************************************)
EXTENDS StripedPumpRefinement, FiniteSets, FiniteSetTheorems

\* What the numbers of chunks are for: the awaited one is that of the next chunk
\* to write, and the reorder buffer does not take two chunks for one.  A reader
\* that holds no chunk reports an end.
Numbered ==
    \A e \in Ends :
        /\ \A d \in pending[e] : d.seq = nextSeq[e] <=> d.pay = Len(out[e]) + 1
        /\ col[e] = "range" /\ in[e] # <<>> /\ Head(in[e]).pay # 0 =>
            \A d \in pending[e] : d.seq = Head(in[e]).seq => d.pay = Head(in[e]).pay
        /\ \A i \in Stripes : rdr[e][i].at # "holding" => rdr[e][i].pay = 0

\* Where the ends of stream are in a queue.
EofsAt(q) == {j \in 1..Len(q) : q[j].pay = 0}

\* The readers of end e that have returned.
Returned(e) == {i \in Stripes : rdr[e][i].at \in {"failed", "ended"}}

\* The reader of stripe i of sending end e holds or has passed on a marker; the
\* marker was sent.
Told(e, i) ==
    \/ rdr[Peer(e)][i].at = "ended"
    \/ rdr[Peer(e)][i].at = "holding" /\ rdr[Peer(e)][i].pay = 0
Marked(e, i) == Told(e, i) \/ EofsAt(str[e][i]) # {}

\* A writer holds data, and one that failed did so on a closed stream or a dead
\* session.
WriterInv ==
    \A e \in Ends :
        /\ disp[e] \in {"mark", "done"} => \A i \in Stripes : wr[e][i].at # "holding"
        /\ \A i \in Stripes : \/ wr[e][i].at = "idle"
                              \/ wr[e][i].at = "holding" /\ wr[e][i].pay # 0
                              \/ wr[e][i].at = "failed" /\ (dead[e] \/ fin[e])

\* A marker was sent after every writer was done and none had failed, and is the
\* last of its stripe.
MarkedLast(e, i) ==
    /\ Marked(e, i) => /\ disp[e] \in {"mark", "done"} /\ mark[e] > i
                       /\ \A j \in Stripes : wr[e][j].at = "idle"
    /\ \A j \in EofsAt(str[e][i]) : j = Len(str[e][i])
    /\ Told(e, i) => str[e][i] = <<>>

MarkInv == \A e \in Ends : \A i \in Stripes : MarkedLast(e, i)

\* A queue has the k-th chunk.
Has(q, k) == \E j \in 1..Len(q) : q[j].pay = k

\* Where the k-th chunk read by end e may be on its way.
InWriter(e, k) == \E i \in Stripes : wr[e][i].at = "holding" /\ wr[e][i].pay = k
InStream(e, k) == \E i \in Stripes : Has(str[e][i], k)
InReader(e, k) ==
    \E i \in Stripes : rdr[Peer(e)][i].at = "holding" /\ rdr[Peer(e)][i].pay = k
InQueue(e, k) == Has(in[Peer(e)], k)
InBuffer(e, k) == \E d \in pending[Peer(e)] : d.pay = k
Written(e, k) == k <= Len(out[Peer(e)])
Lost(e) == \E i \in Stripes : wr[e][i].at = "failed"

Placed(e, k) ==
    \/ InWriter(e, k) \/ InStream(e, k) \/ InReader(e, k)
    \/ InQueue(e, k) \/ InBuffer(e, k) \/ Written(e, k) \/ Lost(e)

\* No chunk disappears but with a writer.
PlacedInv == \A e \in Ends : \A k \in 1..got[e] : Placed(e, k)

\* Nothing is written that was not read.
WrittenWasRead == \A e \in Ends : Len(out[Peer(e)]) <= got[e]

\* The loop leaves no chunk in the reorder buffer whose turn has come, and is left
\* with the last end.
LoopInv ==
    \A e \in Ends :
        /\ eofs[e] = N => col[e] \in {"return", "done"}
        /\ col[e] = "range" \/ eofs[e] = N => \A d \in pending[e] : d.seq # nextSeq[e]

\* Each reader that returned has reported one end, after everything else it had.
CountInv ==
    \A e \in Ends :
        /\ eofs[e] + Cardinality(EofsAt(in[e])) = Cardinality(Returned(e))
        /\ Returned(e) = Stripes /\ in[e] # <<>> => Len(in[e]) \in EofsAt(in[e])

EndInv ==
    /\ BoundInv /\ WriterInv /\ MarkInv /\ PlacedInv
    /\ WrittenWasRead /\ LoopInv /\ CountInv

-----------------------------------------------------------------------------
(* The loop counts as many ends as readers have returned *)

\* The ends of stream in a queue can be counted.
LEMMA EofsFinite ==
    ASSUME NEW q \in Seq(Chunk)
    PROVE  IsFiniteSet(EofsAt(q)) /\ Cardinality(EofsAt(q)) \in Nat
<1>1. IsFiniteSet(1..Len(q)) /\ EofsAt(q) \in SUBSET (1..Len(q))
    BY FS_Interval DEF EofsAt
<1>2. IsFiniteSet(EofsAt(q))
    BY <1>1, FS_Subset
<1> QED
    BY <1>2, FS_CardinalityType

\* A queue gains an end with the chunk appended to it, if that is one.
LEMMA EofsAppend ==
    ASSUME NEW q \in Seq(Chunk), NEW c \in Chunk
    PROVE  /\ c.pay = 0 => /\ EofsAt(Append(q, c)) = EofsAt(q) \cup {Len(q) + 1}
                           /\ Cardinality(EofsAt(Append(q, c))) = Cardinality(EofsAt(q)) + 1
           /\ c.pay # 0 => EofsAt(Append(q, c)) = EofsAt(q)
<1> DEFINE a == Append(q, c)
<1>1. /\ Len(q) \in Nat /\ Len(a) = Len(q) + 1 /\ a[Len(q) + 1] = c
      /\ \A j \in 1..Len(q) : a[j] = q[j]
    OBVIOUS
<1> HIDE DEF a
<1>2. \A j \in 1..Len(a) : j \in 1..Len(q) \/ j = Len(q) + 1
    BY <1>1
<1>3. \A j \in 1..Len(q) : j \in 1..Len(a)
    BY <1>1
<1>4. Len(q) + 1 \in 1..Len(a) /\ Len(q) + 1 \notin 1..Len(q)
    BY <1>1
<1>5. c.pay = 0 => EofsAt(a) = EofsAt(q) \cup {Len(q) + 1}
    BY <1>1, <1>2, <1>3, <1>4 DEF EofsAt
<1>6. c.pay # 0 => EofsAt(a) = EofsAt(q)
    BY <1>1, <1>2, <1>3, <1>4 DEF EofsAt
<1>7. Len(q) + 1 \notin EofsAt(q)
    BY <1>4 DEF EofsAt
<1>8. c.pay = 0 => Cardinality(EofsAt(a)) = Cardinality(EofsAt(q)) + 1
    BY <1>5, <1>7, EofsFinite, FS_AddElement
<1> QED
    BY <1>5, <1>6, <1>8 DEF a

\* A queue is its head and its tail.
LEMMA TailLength ==
    ASSUME NEW q \in Seq(Chunk), q # <<>>
    PROVE  /\ Len(Tail(q)) \in Nat /\ Len(Tail(q)) + 1 = Len(q)
           /\ Tail(q) # <<>> => Len(Tail(q)) # 0
           /\ Head(q) = q[1] /\ 1 \in 1..Len(q)
           /\ \A j \in 1..Len(Tail(q)) : Tail(q)[j] = q[j + 1]
           /\ \A j \in 1..Len(q) : j # 1 => j - 1 \in 1..Len(Tail(q)) /\ Tail(q)[j - 1] = q[j]
<1>1. Tail(q) \in Seq(Chunk) /\ Len(q) \in Nat \ {0}
    OBVIOUS
<1>2. Len(Tail(q)) \in Nat /\ Len(Tail(q)) + 1 = Len(q)
    BY <1>1
<1>3. Tail(q) # <<>> => Len(Tail(q)) # 0
    BY <1>1, EmptySeq
<1>4. Head(q) = q[1] /\ 1 \in 1..Len(q)
    BY <1>1
<1>5. \A j \in 1..Len(Tail(q)) : Tail(q)[j] = q[j + 1]
    OBVIOUS
<1>6. \A j \in 1..Len(q) : j # 1 => j - 1 \in 1..Len(Tail(q)) /\ Tail(q)[j - 1] = q[j]
  <2> SUFFICES ASSUME NEW j \in 1..Len(q), j # 1
               PROVE  j - 1 \in 1..Len(Tail(q)) /\ Tail(q)[j - 1] = q[j]
    OBVIOUS
  <2>1. j - 1 \in 1..Len(Tail(q)) /\ (j - 1) + 1 = j
    BY <1>1, <1>2
  <2> QED
    BY <1>5, <2>1
<1> QED
    BY <1>2, <1>3, <1>4, <1>5, <1>6

\* A queue loses an end with its head, if that is one.
LEMMA EofsTail ==
    ASSUME NEW q \in Seq(Chunk), q # <<>>
    PROVE  /\ Head(q).pay = 0 =>
                1 + Cardinality(EofsAt(Tail(q))) = Cardinality(EofsAt(q))
           /\ Head(q).pay # 0 => Cardinality(EofsAt(Tail(q))) = Cardinality(EofsAt(q))
           /\ \A j \in Nat : j + 1 \in EofsAt(q) /\ j # 0 => j \in EofsAt(Tail(q))
<1> DEFINE t == Tail(q)
           S == EofsAt(t)
           T == EofsAt(q) \ {1}
           f == [j \in S |-> j + 1]
<1>1. /\ t \in Seq(Chunk) /\ Len(q) \in Nat \ {0} /\ Len(t) \in Nat /\ Len(t) + 1 = Len(q)
      /\ \A j \in 1..Len(t) : t[j] = q[j + 1]
      /\ Head(q) = q[1]
    OBVIOUS
<1> HIDE DEF t
<1>2. \A j \in S : j \in Nat \ {0} /\ j + 1 \in T
    BY <1>1 DEF EofsAt
<1>3. \A k \in T : k - 1 \in S /\ (k - 1) + 1 = k
  <2> SUFFICES ASSUME NEW k \in T PROVE k - 1 \in S /\ (k - 1) + 1 = k
    OBVIOUS
  <2>1. k \in 1..Len(q) /\ k # 1 /\ q[k].pay = 0
    BY DEF EofsAt
  <2>2. k - 1 \in 1..Len(t) /\ (k - 1) + 1 = k
    BY <1>1, <2>1
  <2>3. t[k - 1] = q[k]
    BY <1>1, <2>2
  <2> QED
    BY <2>1, <2>2, <2>3 DEF EofsAt
<1>4. f \in [S -> T]
    BY <1>2
<1>5. \A a, b \in S : f[a] = f[b] => a = b
    BY <1>2
<1>6. \A k \in T : \E j \in S : f[j] = k
  <2> TAKE k \in T
  <2>1. k - 1 \in S /\ f[k - 1] = k
    BY <1>3
  <2> QED
    BY <2>1
<1> HIDE DEF S, T, f
<1>7. ExistsBijection(S, T)
    BY <1>4, <1>5, <1>6 DEF ExistsBijection, Bijection, Injection, Surjection, IsInjective
<1>8. Cardinality(T) = Cardinality(S)
  <2>1. IsFiniteSet(S)
    BY <1>1, EofsFinite DEF S
  <2> QED
    BY <1>7, <2>1, FS_Bijection
<1>9. Cardinality(T) = IF 1 \in EofsAt(q) THEN Cardinality(EofsAt(q)) - 1
                       ELSE Cardinality(EofsAt(q))
    BY EofsFinite, FS_RemoveElement DEF T
<1>10. 1 \in EofsAt(q) <=> Head(q).pay = 0
    BY <1>1 DEF EofsAt
<1>11. Cardinality(EofsAt(q)) \in Nat
    BY EofsFinite
<1>12. /\ Head(q).pay = 0 => 1 + Cardinality(S) = Cardinality(EofsAt(q))
       /\ Head(q).pay # 0 => Cardinality(S) = Cardinality(EofsAt(q))
    BY <1>8, <1>9, <1>10, <1>11
<1>13. ASSUME NEW j \in Nat, j + 1 \in EofsAt(q), j # 0 PROVE j \in S
  <2>1. j + 1 \in T /\ (j + 1) - 1 = j
    BY <1>13 DEF T
  <2> QED
    BY <1>3, <2>1
<1> QED
    BY <1>12, <1>13 DEF S, t

\* The readers are finitely many.
LEMMA ReturnedFinite ==
    ASSUME TypeOK, NEW e \in Ends
    PROVE  /\ IsFiniteSet(Returned(e)) /\ Cardinality(Returned(e)) \in Nat
           /\ Cardinality(Returned(e)) <= N
<1> USE PumpAssumption
<1>1. IsFiniteSet(Stripes) /\ Cardinality(Stripes) = N
    BY FS_Interval DEF Stripes
<1>2. Returned(e) \in SUBSET Stripes
    BY DEF Returned
<1> QED
    BY <1>1, <1>2, FS_Subset, FS_CardinalityType

\* The end a reader reports is counted until the loop takes it.
LEMMA CountStep ==
    ASSUME TypeOK, Numbered, CountInv, NEW e \in Ends,
           CollectStep(e) \/ \E i \in Stripes : ReaderStep(e, i)
    PROVE  CountInv'
<1>1. /\ in \in [Ends -> Seq(Chunk)] /\ eofs \in [Ends -> Nat]
      /\ rdr \in [Ends -> [Stripes -> Held]] /\ TypeOK
    BY DEF TypeOK
<1>2. \A f \in Ends : f # e => in'[f] = in[f] /\ eofs'[f] = eofs[f] /\ rdr'[f] = rdr[f]
    BY <1>1 DEF CollectStep, ReaderStep, Collect, CollectEof, WriteTCP, WriteTCPFails,
                ReceivingDone, ReadChunk, ReadChunkFails, Push
<1> SUFFICES
        /\ eofs'[e] + Cardinality(EofsAt(in'[e])) = Cardinality(Returned(e)')
        /\ Returned(e)' = Stripes /\ in'[e] # <<>> => Len(in'[e]) \in EofsAt(in'[e])
    BY <1>2, ZenonT(30) DEF CountInv, Returned
<1>3. /\ eofs[e] + Cardinality(EofsAt(in[e])) = Cardinality(Returned(e))
      /\ Returned(e) = Stripes /\ in[e] # <<>> => Len(in[e]) \in EofsAt(in[e])
    BY DEF CountInv
<1>4. in[e] \in Seq(Chunk) /\ eofs[e] \in Nat /\ Cardinality(EofsAt(in[e])) \in Nat
    BY <1>1, EofsFinite
<1>5. CASE Collect(e) \/ CollectEof(e)
  <2>1. in[e] # <<>> /\ in'[e] = Tail(in[e]) /\ rdr' = rdr
    BY <1>1, <1>5 DEF Collect, CollectEof
  <2>2. eofs'[e] = IF Head(in[e]).pay = 0 THEN eofs[e] + 1 ELSE eofs[e]
    BY <1>1, <1>5 DEF Collect, CollectEof, Eof
  <2>3. Tail(in[e]) \in Seq(Chunk) /\ Cardinality(EofsAt(Tail(in[e]))) \in Nat
    BY <1>4, <2>1, EofsFinite, HeadTailIn
  <2>4. eofs'[e] + Cardinality(EofsAt(Tail(in[e]))) = eofs[e] + Cardinality(EofsAt(in[e]))
    BY <1>4, <2>1, <2>2, <2>3, EofsTail, SMTT(30)
  <2>5. Tail(in[e]) # <<>> /\ Len(in[e]) \in EofsAt(in[e]) =>
            Len(Tail(in[e])) \in EofsAt(Tail(in[e]))
    <3> SUFFICES ASSUME Tail(in[e]) # <<>>, Len(in[e]) \in EofsAt(in[e])
                 PROVE  Len(Tail(in[e])) \in EofsAt(Tail(in[e]))
      OBVIOUS
    <3>1. Len(Tail(in[e])) \in Nat /\ Len(Tail(in[e])) # 0
          /\ Len(Tail(in[e])) + 1 = Len(in[e])
      BY <1>4, <2>1, <2>3, TailLength
    <3> QED
      BY <1>4, <2>1, <3>1, EofsTail
  <2>6. Returned(e)' = Returned(e)
    BY <2>1 DEF Returned
  <2> QED
    BY <1>3, <2>1, <2>4, <2>5, <2>6
<1>6. CASE WriteTCP(e) \/ WriteTCPFails(e) \/ ReceivingDone(e)
  <2>1. UNCHANGED <<in, eofs, rdr>>
    BY <1>6 DEF WriteTCP, WriteTCPFails, ReceivingDone
  <2> QED
    BY <1>3, <2>1 DEF Returned
<1>7. ASSUME NEW i \in Stripes, ReadChunk(e, i) \/ ReadChunkFails(e, i)
      PROVE  /\ eofs'[e] + Cardinality(EofsAt(in'[e])) = Cardinality(Returned(e)')
             /\ Returned(e)' = Stripes /\ in'[e] # <<>> => Len(in'[e]) \in EofsAt(in'[e])
  <2>1. /\ UNCHANGED <<in, eofs>> /\ rdr[e][i] = Idle
        /\ \A j \in Stripes \ {i} : rdr'[e][j] = rdr[e][j]
    BY <1>1, <1>7 DEF ReadChunk, ReadChunkFails
  <2>2. rdr'[e][i].at \in {"holding", "failing"}
    BY <1>1, <1>7 DEF ReadChunk, ReadChunkFails, Holding, Failing
  <2>3. i \notin Returned(e) /\ i \notin Returned(e)'
    BY <2>1, <2>2 DEF Returned, Idle
  <2>4. Returned(e)' = Returned(e)
    BY <2>1, <2>3 DEF Returned
  <2> QED
    BY <1>3, <2>1, <2>4
<1>8. ASSUME NEW i \in Stripes, Push(e, i)
      PROVE  /\ eofs'[e] + Cardinality(EofsAt(in'[e])) = Cardinality(Returned(e)')
             /\ Returned(e)' = Stripes /\ in'[e] # <<>> => Len(in'[e]) \in EofsAt(in'[e])
  <2> DEFINE c == [seq |-> rdr[e][i].seq, pay |-> rdr[e][i].pay]
  <2>1. c \in Chunk /\ c.pay = rdr[e][i].pay
    BY <1>1 DEF Held, Chunk
  <2>2. /\ in'[e] = Append(in[e], c) /\ eofs' = eofs
        /\ rdr[e][i].at \in {"holding", "failing"}
        /\ \A j \in Stripes \ {i} : rdr'[e][j] = rdr[e][j]
        /\ rdr'[e][i] = IF rdr[e][i].at = "failing" THEN Failed
                        ELSE IF rdr[e][i].pay = 0 THEN Ended ELSE Idle
    BY <1>1, <1>8 DEF Push, Eof
  <2> HIDE DEF c
  <2>3. rdr[e][i].at # "holding" => rdr[e][i].pay = 0
    BY DEF Numbered
  <2>4. i \notin Returned(e)
    BY <2>2 DEF Returned
  <2>5. Len(in'[e]) = Len(in[e]) + 1
    BY <1>4, <2>1, <2>2
  <2>6. CASE c.pay = 0
    <3>1. rdr'[e][i].at \in {"failed", "ended"}
      BY <2>1, <2>2, <2>6 DEF Failed, Ended
    <3>2. Returned(e)' = Returned(e) \cup {i}
      BY <2>2, <3>1 DEF Returned
    <3>3. Cardinality(Returned(e)') = Cardinality(Returned(e)) + 1
      BY <1>1, <2>4, <3>2, ReturnedFinite, FS_AddElement
    <3>4. /\ EofsAt(in'[e]) = EofsAt(in[e]) \cup {Len(in[e]) + 1}
          /\ Cardinality(EofsAt(in'[e])) = Cardinality(EofsAt(in[e])) + 1
      BY <1>4, <2>1, <2>2, <2>6, EofsAppend
    <3>5. eofs[e] + (Cardinality(EofsAt(in[e])) + 1) =
            (eofs[e] + Cardinality(EofsAt(in[e]))) + 1
      BY <1>4
    <3> QED
      BY <1>3, <2>2, <2>5, <3>3, <3>4, <3>5
  <2>7. CASE c.pay # 0
    <3>1. rdr'[e][i].at = "idle"
      BY <2>1, <2>2, <2>3, <2>7 DEF Idle
    <3>2. Returned(e)' = Returned(e) /\ Returned(e)' # Stripes
      BY <2>2, <2>4, <3>1 DEF Returned
    <3>3. EofsAt(in'[e]) = EofsAt(in[e])
      BY <1>4, <2>1, <2>2, <2>7, EofsAppend
    <3> QED
      BY <1>3, <2>2, <3>2, <3>3
  <2> QED
    BY <2>6, <2>7
<1> QED
    BY <1>5, <1>6, <1>7, <1>8 DEF CollectStep, ReaderStep

-----------------------------------------------------------------------------
(* The loop leaves no chunk behind whose turn has come *)

\* The loop waits, or is left, only when the next chunk is not in the reorder
\* buffer.
LEMMA LoopStep ==
    ASSUME TypeOK, LoopInv, NEW e \in Ends, CollectStep(e)
    PROVE  LoopInv'
<1>1. /\ pending \in [Ends -> SUBSET Chunk] /\ nextSeq \in [Ends -> SeqNums]
      /\ eofs \in [Ends -> Nat] /\ col \in [Ends -> {"range", "drain", "return", "done"}]
    BY DEF TypeOK
<1>2. \A f \in Ends : f # e => /\ pending'[f] = pending[f] /\ nextSeq'[f] = nextSeq[f]
                               /\ eofs'[f] = eofs[f] /\ col'[f] = col[f]
    BY <1>1 DEF CollectStep, Collect, CollectEof, WriteTCP, WriteTCPFails, ReceivingDone
<1> SUFFICES
        /\ eofs'[e] = N => col'[e] \in {"return", "done"}
        /\ col'[e] = "range" \/ eofs'[e] = N => \A d \in pending'[e] : d.seq # nextSeq'[e]
    BY <1>2 DEF LoopInv
<1>3. /\ eofs[e] = N => col[e] \in {"return", "done"}
      /\ col[e] = "range" \/ eofs[e] = N => \A d \in pending[e] : d.seq # nextSeq[e]
    BY DEF LoopInv
<1>4. CASE Collect(e)
  <2> DEFINE c == Head(in[e])
  <2>1. /\ col[e] = "range" /\ eofs' = eofs /\ nextSeq' = nextSeq
        /\ col'[e] = (IF c.seq = nextSeq[e] THEN "drain" ELSE "range")
        /\ pending'[e] = {d \in pending[e] : d.seq # c.seq} \cup {c}
    BY <1>1, <1>4 DEF Collect
  <2> HIDE DEF c
  <2> QED
    BY <1>3, <2>1
<1>5. CASE CollectEof(e)
  <2>1. /\ col[e] = "range" /\ pending' = pending /\ nextSeq' = nextSeq
        /\ col'[e] = IF eofs'[e] = N THEN Continue(pending[e], nextSeq[e], N) ELSE "range"
    BY <1>1, <1>5 DEF CollectEof
  <2> QED
    BY <1>3, <2>1 DEF Continue
<1>6. CASE WriteTCP(e)
  <2>1. /\ col[e] = "drain" /\ eofs' = eofs
        /\ col'[e] = Continue(pending'[e], nextSeq'[e], eofs[e])
    BY <1>1, <1>6 DEF WriteTCP
  <2> QED
    BY <1>3, <2>1 DEF Continue
<1>7. CASE WriteTCPFails(e) \/ ReceivingDone(e)
  <2>1. col'[e] \in {"return", "done"} /\ UNCHANGED <<pending, nextSeq, eofs>>
    BY <1>1, <1>7 DEF WriteTCPFails, ReceivingDone
  <2> QED
    BY <1>3, <2>1
<1> QED
    BY <1>4, <1>5, <1>6, <1>7 DEF CollectStep

-----------------------------------------------------------------------------
(* A marker is the last of its stripe and comes after every chunk *)

\* Writers fail for a reason, and are awaited before the markers.
LEMMA WriterKeeps ==
    ASSUME TypeOK, WriterInv, [Next]_vars
    PROVE  WriterInv'
<1>1. /\ disp \in [Ends -> {"read", "dispatch", "wait", "mark", "done"}]
      /\ wr \in [Ends -> [Stripes -> Held]]
      /\ fin \in [Ends -> BOOLEAN] /\ dead \in [Ends -> BOOLEAN]
    BY DEF TypeOK
<1>2. /\ Idle.at = "idle" /\ Failed.at = "failed" /\ \A c : Holding(c).at = "holding"
    BY DEF Idle, Failed, Holding
<1>3. \A f \in Ends : (dead[f] => dead'[f]) /\ (fin[f] => fin'[f])
  <2>1. ASSUME NEW e \in Ends, Environment(e)
        PROVE  \A f \in Ends : (dead[f] => dead'[f]) /\ (fin[f] => fin'[f])
    BY <1>1, <2>1 DEF Environment, AppHalfClose, AppClose, SessionDies
  <2>2. ASSUME NEW e \in Ends, PumpStep(e) PROVE dead' = dead
    BY <2>2 DEF PumpStep, SendStep, WriterStep, ReaderStep, CollectStep, ReadTCP, ReadTCPFails,
           Dispatch, WritersDone, WriteMarker, SendingDone, WriteChunk, WriteChunkFails,
           ReadChunk, ReadChunkFails, Push, Collect, CollectEof, WriteTCP, WriteTCPFails,
           ReceivingDone
  <2>3. ASSUME NEW e \in Ends, PumpStep(e) PROVE fin' = fin \/ fin' = [fin EXCEPT ![e] = TRUE]
    BY <2>3 DEF PumpStep, SendStep, WriterStep, ReaderStep, CollectStep, ReadTCP, ReadTCPFails,
           Dispatch, WritersDone, WriteMarker, SendingDone, WriteChunk, WriteChunkFails,
           ReadChunk, ReadChunkFails, Push, Collect, CollectEof, WriteTCP, WriteTCPFails,
           ReceivingDone, CloseAll
  <2>4. CASE UNCHANGED vars
    BY <2>4 DEF vars
  <2> QED
    BY <1>1, <2>1, <2>2, <2>3, <2>4 DEF Next
<1>4. CASE UNCHANGED <<disp, wr>>
    BY <1>3, <1>4 DEF WriterInv
<1>5. ASSUME NEW e \in Ends, ReadTCP(e) \/ ReadTCPFails(e) \/ WritersDone(e) \/ SendingDone(e)
      PROVE  WriterInv'
  <2>1. wr' = wr /\ \A f \in Ends : f # e => disp'[f] = disp[f]
    BY <1>1, <1>5 DEF ReadTCP, ReadTCPFails, WritersDone, SendingDone
  <2>2. disp'[e] \in {"mark", "done"} => \A i \in Stripes : wr[e][i].at # "holding"
    BY <1>1, <1>5 DEF ReadTCP, ReadTCPFails, WritersDone, SendingDone, WriterInv
  <2> QED
    BY <1>3, <2>1, <2>2 DEF WriterInv
<1>6. ASSUME NEW e \in Ends, NEW i \in Stripes, Dispatch(e, i) PROVE WriterInv'
  <2> DEFINE h == IF fin[e] THEN Failed
                  ELSE Holding([seq |-> SeqOf(got[e] + 1), pay |-> got[e] + 1])
  <2>1. wr' = [wr EXCEPT ![e][i] = h] /\ disp' = [disp EXCEPT ![e] = "read"]
    BY <1>6 DEF Dispatch
  <2>2. fin[e] => h = Failed
    OBVIOUS
  <2>3. ~fin[e] => h = Holding([seq |-> SeqOf(got[e] + 1), pay |-> got[e] + 1])
    OBVIOUS
  <2>4. \/ h.at = "holding" /\ h.pay # 0
        \/ h.at = "failed" /\ (dead'[e] \/ fin'[e])
    <3>1. Holding([seq |-> SeqOf(got[e] + 1), pay |-> got[e] + 1]).pay # 0
      BY DEF Holding, TypeOK
    <3> QED
      BY <1>2, <1>3, <2>2, <2>3, <3>1
  <2> HIDE DEF h
  <2> QED
    BY <1>1, <1>3, <2>1, <2>4 DEF WriterInv
<1>7. ASSUME NEW e \in Ends, NEW i \in Stripes, WriterStep(e, i) PROVE WriterInv'
  <2>1. PICK h \in {Idle, Failed} :
            /\ wr' = [wr EXCEPT ![e][i] = h] /\ disp' = disp
            /\ h = Failed => dead[e] \/ fin[e]
    <3>1. CASE WriteChunk(e, i)
      BY <1>2, <3>1 DEF WriteChunk
    <3>2. CASE WriteChunkFails(e, i)
      BY <3>2 DEF WriteChunkFails
    <3> QED
      BY <1>7, <3>1, <3>2 DEF WriterStep
  <2> QED
    BY <1>1, <1>2, <1>3, <2>1 DEF WriterInv
<1>8. ASSUME NEW e \in Ends,
             \/ WriteMarker(e) \/ Environment(e) \/ CollectStep(e)
             \/ \E i \in Stripes : ReaderStep(e, i)
      PROVE  UNCHANGED <<disp, wr>>
    BY <1>8 DEF WriteMarker, Environment, AppHalfClose, AppClose, SessionDies, CollectStep,
           Collect, CollectEof, WriteTCP, WriteTCPFails, ReceivingDone, ReaderStep,
           ReadChunk, ReadChunkFails, Push, sendVars
<1>9. CASE UNCHANGED vars
    BY <1>4, <1>9 DEF vars
<1> QED
    BY <1>4, <1>5, <1>6, <1>7, <1>8, <1>9 DEF Next, PumpStep, SendStep

\* What does not touch a stripe leaves its marker where it was.
LEMMA StripeFrame ==
    ASSUME NEW e \in Ends, NEW i \in Stripes, MarkedLast(e, i),
           disp'[e] = disp[e], mark'[e] = mark[e], wr'[e] = wr[e],
           str'[e][i] = str[e][i], Told(e, i)' => Told(e, i)
    PROVE  MarkedLast(e, i)'
  BY DEF MarkedLast, Marked

\* writeStripes sends the markers when every chunk was sent.
LEMMA SendMarks ==
    ASSUME TypeOK, WriterInv, MarkInv, NEW e \in Ends, SendStep(e)
    PROVE  MarkInv'
<1> USE PumpAssumption, PeerEnd
<1>1. /\ disp \in [Ends -> {"read", "dispatch", "wait", "mark", "done"}]
      /\ mark \in [Ends -> 1..(N + 1)] /\ got \in [Ends -> Nat]
      /\ wr \in [Ends -> [Stripes -> Held]]
      /\ str \in [Ends -> [Stripes -> Seq(Chunk)]]
    BY DEF TypeOK
<1>2. /\ rdr' = rdr
      /\ \A f \in Ends : f # e => /\ disp'[f] = disp[f] /\ mark'[f] = mark[f]
                                  /\ wr'[f] = wr[f] /\ str'[f] = str[f]
    BY <1>1 DEF SendStep, ReadTCP, ReadTCPFails, Dispatch, WritersDone, WriteMarker,
                SendingDone, recvVars
<1>3. \A f \in Ends : \A i \in Stripes : Told(f, i)' = Told(f, i)
    BY <1>2 DEF Told
<1> SUFFICES ASSUME NEW i \in Stripes PROVE MarkedLast(e, i)'
  <2>1. ASSUME NEW f \in Ends, NEW j \in Stripes, f # e PROVE MarkedLast(f, j)'
    BY <1>2, <1>3, <2>1, StripeFrame DEF MarkInv
  <2> QED
    BY <2>1 DEF MarkInv
<1>4. MarkedLast(e, i)
    BY DEF MarkInv
<1>5. CASE ReadTCP(e) \/ ReadTCPFails(e) \/ WritersDone(e)
  <2>1. disp[e] \notin {"mark", "done"} /\ str' = str
    BY <1>5 DEF ReadTCP, ReadTCPFails, WritersDone
  <2> QED
    BY <1>3, <1>4, <2>1 DEF MarkedLast, Marked
<1>6. CASE SendingDone(e)
  <2>1. UNCHANGED <<mark, wr, str>> /\ disp'[e] = "done"
    BY <1>1, <1>6 DEF SendingDone
  <2> QED
    BY <1>3, <1>4, <2>1 DEF MarkedLast, Marked
<1>7. ASSUME NEW j \in Stripes, Dispatch(e, j) PROVE MarkedLast(e, i)'
  <2>1. disp[e] = "dispatch" /\ str' = str
    BY <1>7 DEF Dispatch
  <2> QED
    BY <1>3, <1>4, <2>1 DEF MarkedLast, Marked
<1>8. CASE WriteMarker(e)
  <2> DEFINE c == [seq |-> SeqOf(got[e] + 1), pay |-> 0]
             m == mark[e]
  <2>1. /\ disp[e] = "mark" /\ UNCHANGED <<disp, wr>> /\ mark'[e] = m + 1
        /\ m \in Stripes /\ m \in Nat
    BY <1>1, <1>8 DEF WriteMarker, Stripes
  <2>2. \/ str' = str
        \/ ~dead[e] /\ ~fin[e] /\ str' = [str EXCEPT ![e][m] = Append(@, c)]
    BY <1>8 DEF WriteMarker
  <2>3. c \in Chunk /\ c.pay = 0
    BY <1>1 DEF Chunk, SeqOf
  <2> HIDE DEF c, m
  <2>4. i \in Nat /\ (mark[e] > i => mark'[e] > i)
    BY <2>1 DEF Stripes, m
  <2>5. CASE str'[e][i] = str[e][i]
    BY <1>3, <1>4, <2>1, <2>4, <2>5 DEF MarkedLast, Marked
  <2>6. CASE str'[e][i] # str[e][i]
    <3>1. /\ i = m /\ ~dead[e] /\ ~fin[e] /\ str'[e][i] = Append(str[e][i], c)
      BY <1>1, <2>1, <2>2, <2>6
    <3>2. \A j \in Stripes : wr'[e][j].at = "idle"
      BY <2>1, <3>1 DEF WriterInv
    <3>3. mark'[e] > i
      BY <2>1, <3>1
    <3>4. ~Marked(e, i)
      BY <1>4, <2>1, <3>1 DEF MarkedLast, m
    <3>5. EofsAt(str'[e][i]) = {Len(str[e][i]) + 1}
      BY <1>1, <2>3, <3>1, <3>4, EofsAppend DEF Marked
    <3>6. Len(str'[e][i]) = Len(str[e][i]) + 1
      BY <1>1, <2>3, <3>1
    <3>7. ~Told(e, i)'
      BY <1>3, <3>4 DEF Marked
    <3> QED
      BY <2>1, <3>2, <3>3, <3>5, <3>6, <3>7 DEF MarkedLast
  <2> QED
    BY <2>5, <2>6
<1> QED
    BY <1>5, <1>6, <1>7, <1>8 DEF SendStep

\* Writers add nothing behind a marker.
LEMMA WriterMarks ==
    ASSUME TypeOK, WriterInv, MarkInv, NEW e \in Ends, NEW i \in Stripes, WriterStep(e, i)
    PROVE  MarkInv'
<1>1. wr \in [Ends -> [Stripes -> Held]] /\ str \in [Ends -> [Stripes -> Seq(Chunk)]]
    BY DEF TypeOK
<1>2. /\ wr[e][i].at = "holding" /\ UNCHANGED <<disp, mark, rdr>>
      /\ \A f \in Ends : f # e => wr'[f] = wr[f]
      /\ \A f \in Ends : \A j \in Stripes : f # e \/ j # i => str'[f][j] = str[f][j]
    BY <1>1 DEF WriterStep, WriteChunk, WriteChunkFails, recvVars
<1>3. \A f \in Ends : \A j \in Stripes : Told(f, j)' = Told(f, j)
    BY <1>2 DEF Told
<1>4. \A j \in Stripes : ~Marked(e, j) /\ MarkedLast(e, j)
    BY <1>2 DEF MarkInv, MarkedLast
<1>5. EofsAt(str'[e][i]) = EofsAt(str[e][i])
  <2>1. CASE WriteChunkFails(e, i)
    BY <2>1 DEF WriteChunkFails
  <2>2. CASE WriteChunk(e, i)
    <3> DEFINE c == [seq |-> wr[e][i].seq, pay |-> wr[e][i].pay]
    <3>1. c \in Chunk
      BY <1>1 DEF Chunk, Held
    <3>4. c.pay # 0
      BY <1>2 DEF WriterInv
    <3>2. str'[e][i] = Append(str[e][i], c)
      BY <1>1, <2>2 DEF WriteChunk
    <3> HIDE DEF c
    <3> QED
      BY <1>1, <3>1, <3>2, <3>4, EofsAppend
  <2> QED
    BY <2>1, <2>2 DEF WriterStep
<1>6. ASSUME NEW j \in Stripes PROVE MarkedLast(e, j)'
  <2>1. EofsAt(str'[e][j]) = {}
    BY <1>2, <1>4, <1>5 DEF Marked
  <2>2. ~Told(e, j)'
    BY <1>3, <1>4 DEF Marked
  <2> QED
    BY <2>1, <2>2 DEF MarkedLast, Marked
<1>7. ASSUME NEW f \in Ends, NEW j \in Stripes, f # e PROVE MarkedLast(f, j)'
    BY <1>2, <1>3, <1>7, StripeFrame DEF MarkInv
<1> QED
    BY <1>6, <1>7 DEF MarkInv

\* A reader finds nothing behind a marker.
LEMMA ReaderMarks ==
    ASSUME TypeOK, MarkInv, NEW e \in Ends, NEW i \in Stripes, ReaderStep(e, i)
    PROVE  MarkInv'
<1> DEFINE p == Peer(e)
           s == str[p][i]
<1> USE PeerEnd
<1>1. /\ rdr \in [Ends -> [Stripes -> Held]] /\ str \in [Ends -> [Stripes -> Seq(Chunk)]]
      /\ p \in Ends /\ Peer(p) = e /\ \A f \in Ends : Peer(f) = e => f = p
    BY DEF TypeOK, Ends, Peer
<1>2. /\ UNCHANGED <<disp, mark, wr>>
      /\ \A f \in Ends : \A j \in Stripes : f # e \/ j # i => rdr'[f][j] = rdr[f][j]
      /\ \A f \in Ends : \A j \in Stripes : f # p \/ j # i => str'[f][j] = str[f][j]
    BY <1>1 DEF ReaderStep, ReadChunk, ReadChunkFails, Push, sendVars
<1>3. \A f \in Ends : \A j \in Stripes : f # p \/ j # i => Told(f, j)' = Told(f, j)
    BY <1>1, <1>2 DEF Told
<1> SUFFICES MarkedLast(p, i)'
  <2>1. ASSUME NEW f \in Ends, NEW j \in Stripes, f # p \/ j # i PROVE MarkedLast(f, j)'
    BY <1>2, <1>3, <2>1, StripeFrame DEF MarkInv
  <2> QED
    BY <2>1 DEF MarkInv
<1>4. MarkedLast(p, i) /\ s \in Seq(Chunk)
    BY <1>1 DEF MarkInv
<1> HIDE DEF p
<1>5. CASE ReadChunk(e, i)
  <2>1. /\ s # <<>> /\ str'[p][i] = Tail(s) /\ rdr'[e][i] = Holding(Head(s))
    BY <1>1, <1>5 DEF ReadChunk, p
  <2>2. /\ rdr'[e][i].at = "holding" /\ rdr'[e][i].pay = Head(s).pay
    BY <2>1 DEF Holding
  <2> HIDE DEF s
  <2>3. Tail(s) \in Seq(Chunk)
    BY <1>4, <2>1, HeadTailIn
  <2>4. /\ Len(Tail(s)) \in Nat /\ Len(Tail(s)) + 1 = Len(s) /\ Head(s) = s[1]
        /\ 1 \in 1..Len(s)
        /\ \A j \in 1..Len(Tail(s)) : Tail(s)[j] = s[j + 1]
    BY <1>4, <2>1, TailLength
  <2>5. \A j \in EofsAt(Tail(s)) : j \in 1..Len(Tail(s)) /\ j + 1 \in EofsAt(s)
    BY <2>4 DEF EofsAt
  <2>6. Head(s).pay = 0 => 1 \in EofsAt(s)
    BY <2>4 DEF EofsAt
  <2>7. \A j \in EofsAt(s) : j = Len(s)
    BY <1>4 DEF MarkedLast, s
  <2>8. \A j \in EofsAt(Tail(s)) : j = Len(Tail(s))
    BY <2>4, <2>5, <2>7
  <2>9. Head(s).pay = 0 => Tail(s) = <<>>
    <3> SUFFICES ASSUME Head(s).pay = 0 PROVE Tail(s) = <<>>
      OBVIOUS
    <3>1. Len(s) = 1
      BY <2>6, <2>7
    <3>2. Len(Tail(s)) = 0
      BY <2>4, <3>1
    <3> QED
      BY <2>3, <3>2, EmptySeq
  <2>10. Told(p, i)' <=> Head(s).pay = 0
    BY <1>1, <2>2 DEF Told
  <2>11. Marked(p, i)' => Marked(p, i)
    BY <2>1, <2>5, <2>6, <2>10 DEF Marked, s
  <2> QED
    BY <1>2, <1>4, <2>1, <2>8, <2>9, <2>10, <2>11 DEF MarkedLast
<1>6. CASE ReadChunkFails(e, i)
  <2>1. str' = str /\ rdr'[e][i].at = "failing"
    BY <1>1, <1>6 DEF ReadChunkFails, Failing
  <2>2. ~Told(p, i)'
    BY <1>1, <2>1 DEF Told
  <2> QED
    BY <1>1, <1>2, <1>4, <2>1, <2>2, StripeFrame
<1>7. CASE Push(e, i)
  <2>1. /\ str' = str
        /\ rdr[e][i].at \in {"holding", "failing"}
        /\ rdr'[e][i] = IF rdr[e][i].at = "failing" THEN Failed
                        ELSE IF rdr[e][i].pay = 0 THEN Ended ELSE Idle
    BY <1>1, <1>7 DEF Push, Eof
  <2>2. Told(p, i)' => Told(p, i)
    BY <1>1, <2>1 DEF Told, Failed, Ended, Idle
  <2> QED
    BY <1>1, <1>2, <1>4, <2>1, <2>2, StripeFrame
<1> QED
    BY <1>5, <1>6, <1>7 DEF ReaderStep

\* Every step leaves the markers last.
LEMMA NextMark == ASSUME TypeOK, WriterInv, MarkInv, [Next]_vars PROVE MarkInv'
<1>1. CASE UNCHANGED <<disp, mark, wr, str, rdr>>
  <2>1. \A e \in Ends : \A i \in Stripes : Told(e, i)' = Told(e, i)
    BY <1>1 DEF Told
  <2> QED
    BY <1>1, <2>1, StripeFrame DEF MarkInv
<1>2. ASSUME NEW e \in Ends, CollectStep(e) \/ Environment(e)
      PROVE  UNCHANGED <<disp, mark, wr, str, rdr>>
    BY <1>2 DEF Environment, AppHalfClose, AppClose, SessionDies, CollectStep, Collect,
           CollectEof, WriteTCP, WriteTCPFails, ReceivingDone, sendVars, recvVars
<1>3. CASE UNCHANGED vars
    BY <1>1, <1>3 DEF vars
<1> QED
    BY <1>1, <1>2, <1>3, SendMarks, WriterMarks, ReaderMarks DEF Next, PumpStep

-----------------------------------------------------------------------------
(* No chunk disappears but with a writer *)

\* A queue keeps what it has and gets what is appended.
LEMMA HasAppend ==
    ASSUME NEW q \in Seq(Chunk), NEW c \in Chunk, NEW k, Has(q, k) \/ c.pay = k
    PROVE  Has(Append(q, c), k)
<1>1. /\ Len(q) \in Nat /\ Len(Append(q, c)) = Len(q) + 1
      /\ Append(q, c)[Len(q) + 1] = c
      /\ \A j \in 1..Len(q) : Append(q, c)[j] = q[j]
    OBVIOUS
<1>2. Len(q) + 1 \in 1..Len(Append(q, c)) /\ \A j \in 1..Len(q) : j \in 1..Len(Append(q, c))
    BY <1>1
<1> QED
    BY <1>1, <1>2 DEF Has

\* What a queue has is its head or in its tail.
LEMMA HasTail ==
    ASSUME NEW q \in Seq(Chunk), q # <<>>, NEW k, Has(q, k), Head(q).pay # k
    PROVE  Has(Tail(q), k)
<1>1. PICK j \in 1..Len(q) : q[j].pay = k
    BY DEF Has
<1>2. j # 1
    BY <1>1, TailLength
<1>3. j - 1 \in 1..Len(Tail(q)) /\ Tail(q)[j - 1] = q[j]
    BY <1>2, TailLength
<1> QED
    BY <1>1, <1>3 DEF Has

\* What does not touch the way of e's chunks leaves them where they were.
LEMMA PlaceFrame ==
    ASSUME NEW e \in Ends, NEW k, Placed(e, k), wr'[e] = wr[e], str'[e] = str[e],
           rdr'[Peer(e)] = rdr[Peer(e)], in'[Peer(e)] = in[Peer(e)],
           pending'[Peer(e)] = pending[Peer(e)], out'[Peer(e)] = out[Peer(e)]
    PROVE  Placed(e, k)'
  BY DEF Placed, InWriter, InStream, InReader, InQueue, InBuffer, Written, Lost

\* A chunk is handed over to a writer, which writes it or fails.
LEMMA SendPlaces ==
    ASSUME TypeOK, PlacedInv, NEW e \in Ends, SendStep(e) \/ \E i \in Stripes : WriterStep(e, i)
    PROVE  PlacedInv'
<1> USE PeerEnd, PumpAssumption
<1>1. /\ wr \in [Ends -> [Stripes -> Held]] /\ str \in [Ends -> [Stripes -> Seq(Chunk)]]
      /\ got \in [Ends -> Nat] /\ mark \in [Ends -> 1..(N + 1)]
    BY DEF TypeOK
<1>2. /\ UNCHANGED <<rdr, in, pending, out>>
      /\ \A f \in Ends : f # e => got'[f] = got[f] /\ wr'[f] = wr[f] /\ str'[f] = str[f]
    BY <1>1 DEF SendStep, WriterStep, ReadTCP, ReadTCPFails, Dispatch, WritersDone, WriteMarker,
                SendingDone, WriteChunk, WriteChunkFails, recvVars
<1>3. \A k : /\ InReader(e, k)' = InReader(e, k) /\ InQueue(e, k)' = InQueue(e, k)
             /\ InBuffer(e, k)' = InBuffer(e, k) /\ Written(e, k)' = Written(e, k)
    BY <1>2 DEF InReader, InQueue, InBuffer, Written
<1> SUFFICES ASSUME NEW k \in 1..got'[e] PROVE Placed(e, k)'
  <2>1. ASSUME NEW f \in Ends, f # e, NEW m \in 1..got'[f] PROVE Placed(f, m)'
    BY <1>2, <2>1, PlaceFrame DEF PlacedInv
  <2> QED
    BY <2>1 DEF PlacedInv
<1>4. CASE ReadTCP(e) \/ ReadTCPFails(e) \/ WritersDone(e) \/ SendingDone(e)
  <2>1. UNCHANGED <<got, wr, str>>
    BY <1>4 DEF ReadTCP, ReadTCPFails, WritersDone, SendingDone
  <2> QED
    BY <1>2, <2>1, PlaceFrame DEF PlacedInv
<1>5. ASSUME NEW i \in Stripes, Dispatch(e, i) PROVE Placed(e, k)'
  <2> DEFINE h == Holding([seq |-> SeqOf(got[e] + 1), pay |-> got[e] + 1])
  <2>1. /\ wr[e][i] = Idle /\ got'[e] = got[e] + 1 /\ str' = str
        /\ wr'[e][i] = (IF fin[e] THEN Failed ELSE h)
        /\ \A j \in Stripes \ {i} : wr'[e][j] = wr[e][j]
    BY <1>1, <1>5 DEF Dispatch
  <2>2. h.at = "holding" /\ h.pay = got[e] + 1 /\ Failed.at = "failed" /\ Idle.at = "idle"
    BY DEF Holding, Failed, Idle
  <2> HIDE DEF h
  <2>3. CASE k \in 1..got[e]
    <3>1. Placed(e, k)
      BY <2>3 DEF PlacedInv
    <3>2. InWriter(e, k) => InWriter(e, k)'
      BY <2>1, <2>2 DEF InWriter
    <3>3. Lost(e) => Lost(e)'
      BY <2>1, <2>2 DEF Lost
    <3>4. InStream(e, k)' = InStream(e, k)
      BY <2>1 DEF InStream
    <3> QED
      BY <1>3, <3>1, <3>2, <3>3, <3>4 DEF Placed
  <2>4. CASE k \notin 1..got[e]
    <3>1. k = got[e] + 1
      BY <1>1, <2>1, <2>4
    <3>2. InWriter(e, k)' \/ Lost(e)'
      BY <2>1, <2>2, <3>1 DEF InWriter, Lost
    <3> QED
      BY <3>2 DEF Placed
  <2> QED
    BY <2>3, <2>4
<1>6. ASSUME NEW i \in Stripes, WriteChunkFails(e, i) PROVE Placed(e, k)'
  <2>1. wr'[e][i].at = "failed"
    BY <1>1, <1>6 DEF WriteChunkFails, Failed
  <2> QED
    BY <2>1 DEF Placed, Lost
<1>7. ASSUME NEW i \in Stripes, WriteChunk(e, i) PROVE Placed(e, k)'
  <2> DEFINE c == [seq |-> wr[e][i].seq, pay |-> wr[e][i].pay]
  <2>1. /\ str'[e][i] = Append(str[e][i], c) /\ got' = got
        /\ \A j \in Stripes \ {i} : str'[e][j] = str[e][j] /\ wr'[e][j] = wr[e][j]
        /\ wr[e][i].at = "holding"
    BY <1>1, <1>7 DEF WriteChunk
  <2>2. c \in Chunk /\ c.pay = wr[e][i].pay /\ str[e][i] \in Seq(Chunk)
    BY <1>1 DEF Chunk, Held
  <2> HIDE DEF c
  <2>3. Placed(e, k)
    BY <2>1 DEF PlacedInv
  <2>4. Has(str[e][i], k) \/ c.pay = k => Has(str'[e][i], k)
    BY <2>1, <2>2, HasAppend
  <2>5. InStream(e, k) => InStream(e, k)'
    BY <2>1, <2>4 DEF InStream
  <2>6. InWriter(e, k) => InWriter(e, k)' \/ InStream(e, k)'
    BY <2>1, <2>2, <2>4 DEF InWriter, InStream
  <2>7. Lost(e) => Lost(e)'
    BY <2>1 DEF Lost
  <2> QED
    BY <1>3, <2>3, <2>5, <2>6, <2>7 DEF Placed
<1>8. CASE WriteMarker(e)
  <2> DEFINE c == [seq |-> SeqOf(got[e] + 1), pay |-> 0]
  <2>1. UNCHANGED <<got, wr>> /\ mark[e] \in Stripes
    BY <1>1, <1>8 DEF WriteMarker, Stripes
  <2>2. c \in Chunk
    BY <1>1 DEF Chunk, SeqOf
  <2>3. str' = str \/ str' = [str EXCEPT ![e][mark[e]] = Append(@, c)]
    BY <1>8 DEF WriteMarker
  <2> HIDE DEF c
  <2>4. \A j \in Stripes : Has(str[e][j], k) => Has(str'[e][j], k)
    <3> SUFFICES ASSUME NEW j \in Stripes, Has(str[e][j], k) PROVE Has(str'[e][j], k)
      OBVIOUS
    <3>1. str'[e][j] = str[e][j] \/ str'[e][j] = Append(str[e][j], c)
      BY <1>1, <2>1, <2>3
    <3>2. str[e][j] \in Seq(Chunk)
      BY <1>1
    <3>3. Has(Append(str[e][j], c), k)
      BY <2>2, <3>2, HasAppend
    <3> QED
      BY <3>1, <3>3
  <2>5. Placed(e, k) /\ (InStream(e, k) => InStream(e, k)')
    BY <2>1, <2>4 DEF PlacedInv, InStream
  <2>6. InWriter(e, k)' = InWriter(e, k) /\ Lost(e)' = Lost(e)
    BY <2>1 DEF InWriter, Lost
  <2> QED
    BY <1>3, <2>5, <2>6 DEF Placed
<1> QED
    BY <1>4, <1>5, <1>6, <1>7, <1>8 DEF SendStep, WriterStep

\* A reader takes a chunk from its stream to the queue.
LEMMA ReaderPlaces ==
    ASSUME TypeOK, PlacedInv, NEW e \in Ends, NEW i \in Stripes, ReaderStep(e, i)
    PROVE  PlacedInv'
<1> DEFINE p == Peer(e)
<1> USE PeerEnd
<1>1. /\ rdr \in [Ends -> [Stripes -> Held]] /\ str \in [Ends -> [Stripes -> Seq(Chunk)]]
      /\ in \in [Ends -> Seq(Chunk)] /\ got \in [Ends -> Nat]
      /\ p \in Ends /\ Peer(p) = e /\ \A f \in Ends : f # p => f = e
    BY DEF TypeOK, Ends, Peer
<1>2. /\ UNCHANGED <<got, wr, pending, out>>
      /\ str'[e] = str[e] /\ rdr'[p] = rdr[p] /\ in'[p] = in[p]
    BY <1>1 DEF ReaderStep, ReadChunk, ReadChunkFails, Push, sendVars
<1> SUFFICES ASSUME NEW k \in 1..got[p], Placed(p, k) PROVE Placed(p, k)'
  <2>1. \A m \in 1..got'[e] : Placed(e, m)'
    BY <1>2, PlaceFrame DEF PlacedInv
  <2>2. \A m \in 1..got'[p] : Placed(p, m)'
    BY <1>1, <1>2 DEF PlacedInv
  <2> QED
    BY <1>1, <2>1, <2>2 DEF PlacedInv
<1> HIDE DEF p
<1>3. /\ InWriter(p, k)' = InWriter(p, k) /\ Lost(p)' = Lost(p)
      /\ InBuffer(p, k)' = InBuffer(p, k) /\ Written(p, k)' = Written(p, k)
    BY <1>2 DEF InWriter, Lost, InBuffer, Written
<1>4. CASE ReadChunk(e, i)
  <2> DEFINE s == str[p][i]
  <2>1. /\ s # <<>> /\ s \in Seq(Chunk) /\ str'[p][i] = Tail(s) /\ in' = in
        /\ rdr[e][i] = Idle /\ rdr'[e][i] = Holding(Head(s))
        /\ \A j \in Stripes \ {i} : rdr'[e][j] = rdr[e][j] /\ str'[p][j] = str[p][j]
    BY <1>1, <1>4 DEF ReadChunk, p
  <2>2. rdr[e][i].at = "idle" /\ rdr'[e][i].at = "holding" /\ rdr'[e][i].pay = Head(s).pay
    BY <2>1 DEF Idle, Holding
  <2>3. Has(s, k) => Has(str'[p][i], k) \/ Head(s).pay = k
    BY <2>1, HasTail
  <2>4. InStream(p, k) => InStream(p, k)' \/ InReader(p, k)'
    BY <1>1, <2>1, <2>2, <2>3 DEF InStream, InReader
  <2>5. InReader(p, k) => InReader(p, k)'
    BY <1>1, <2>1, <2>2 DEF InReader
  <2>6. InQueue(p, k)' = InQueue(p, k)
    BY <2>1 DEF InQueue
  <2> QED
    BY <1>3, <2>4, <2>5, <2>6 DEF Placed
<1>5. CASE ReadChunkFails(e, i)
  <2>1. /\ UNCHANGED <<str, in>> /\ rdr[e][i].at = "idle"
        /\ \A j \in Stripes \ {i} : rdr'[e][j] = rdr[e][j]
    BY <1>1, <1>5 DEF ReadChunkFails, Idle
  <2>2. InReader(p, k) => InReader(p, k)'
    BY <1>1, <2>1 DEF InReader
  <2>3. InQueue(p, k)' = InQueue(p, k) /\ InStream(p, k)' = InStream(p, k)
    BY <2>1 DEF InQueue, InStream
  <2> QED
    BY <1>3, <2>2, <2>3 DEF Placed
<1>6. CASE Push(e, i)
  <2> DEFINE c == [seq |-> rdr[e][i].seq, pay |-> rdr[e][i].pay]
  <2>1. /\ str' = str /\ in'[e] = Append(in[e], c)
        /\ \A j \in Stripes \ {i} : rdr'[e][j] = rdr[e][j]
    BY <1>1, <1>6 DEF Push
  <2>2. c \in Chunk /\ c.pay = rdr[e][i].pay /\ in[e] \in Seq(Chunk)
    BY <1>1 DEF Chunk, Held
  <2> HIDE DEF c
  <2>3. Has(in[e], k) \/ c.pay = k => Has(in'[e], k)
    BY <2>1, <2>2, HasAppend
  <2>4. InQueue(p, k) => InQueue(p, k)'
    BY <1>1, <2>3 DEF InQueue
  <2>5. InReader(p, k) => InReader(p, k)' \/ InQueue(p, k)'
    BY <1>1, <2>1, <2>2, <2>3 DEF InReader, InQueue
  <2>6. InStream(p, k)' = InStream(p, k)
    BY <2>1 DEF InStream
  <2> QED
    BY <1>3, <2>4, <2>5, <2>6 DEF Placed
<1> QED
    BY <1>4, <1>5, <1>6 DEF ReaderStep

\* The loop takes a chunk from the queue to the application.
LEMMA CollectPlaces ==
    ASSUME TypeOK, Numbered, PlacedInv, NEW e \in Ends, CollectStep(e)
    PROVE  PlacedInv'
<1> DEFINE p == Peer(e)
<1> USE PeerEnd
<1>1. /\ in \in [Ends -> Seq(Chunk)] /\ got \in [Ends -> Nat]
      /\ pending \in [Ends -> SUBSET Chunk] /\ out \in [Ends -> Seq(Nat)]
      /\ p \in Ends /\ Peer(p) = e /\ \A f \in Ends : f # p => f = e
    BY DEF TypeOK, Ends, Peer
<1>2. /\ UNCHANGED <<got, wr, str, rdr>>
      /\ in'[p] = in[p] /\ pending'[p] = pending[p] /\ out'[p] = out[p]
    BY <1>1 DEF CollectStep, Collect, CollectEof, WriteTCP, WriteTCPFails, ReceivingDone,
                sendVars
<1> SUFFICES ASSUME NEW k \in 1..got[p], Placed(p, k) PROVE Placed(p, k)'
  <2>1. \A m \in 1..got'[e] : Placed(e, m)'
    BY <1>2, PlaceFrame DEF PlacedInv
  <2>2. \A m \in 1..got'[p] : Placed(p, m)'
    BY <1>1, <1>2 DEF PlacedInv
  <2> QED
    BY <1>1, <2>1, <2>2 DEF PlacedInv
<1>k. k \in Nat /\ k # 0
    BY <1>1
<1> HIDE DEF p
<1>3. /\ InWriter(p, k)' = InWriter(p, k) /\ Lost(p)' = Lost(p)
      /\ InStream(p, k)' = InStream(p, k) /\ InReader(p, k)' = InReader(p, k)
    BY <1>2 DEF InWriter, Lost, InStream, InReader
<1>4. CASE Collect(e)
  <2> DEFINE c == Head(in[e])
  <2>1. /\ in[e] # <<>> /\ in'[e] = Tail(in[e]) /\ out' = out
        /\ pending'[e] = {d \in pending[e] : d.seq # c.seq} \cup {c} /\ c.pay # 0
    BY <1>1, <1>4 DEF Collect, Eof
  <2>4. \A d \in pending[e] : d.seq = c.seq => d.pay = c.pay
    BY <1>4, <2>1 DEF Numbered, Collect
  <2>3. Has(in[e], k) => Has(in'[e], k) \/ c.pay = k
    BY <1>1, <2>1, HasTail
  <2> HIDE DEF c
  <2>5. InBuffer(p, k) => InBuffer(p, k)'
    BY <1>1, <2>1, <2>4 DEF InBuffer
  <2>6. InQueue(p, k) => InQueue(p, k)' \/ InBuffer(p, k)'
    BY <1>1, <2>1, <2>3 DEF InQueue, InBuffer
  <2>7. Written(p, k)' = Written(p, k)
    BY <2>1 DEF Written
  <2> QED
    BY <1>3, <2>5, <2>6, <2>7 DEF Placed
<1>5. CASE CollectEof(e)
  <2>1. /\ in[e] # <<>> /\ Head(in[e]).pay = 0 /\ in'[e] = Tail(in[e])
        /\ UNCHANGED <<pending, out>>
    BY <1>1, <1>5 DEF CollectEof, Eof
  <2>2. Has(in[e], k) => Has(in'[e], k)
    BY <1>1, <1>k, <2>1, HasTail
  <2>3. InQueue(p, k) => InQueue(p, k)'
    BY <1>1, <2>2 DEF InQueue
  <2>4. InBuffer(p, k)' = InBuffer(p, k) /\ Written(p, k)' = Written(p, k)
    BY <2>1 DEF InBuffer, Written
  <2> QED
    BY <1>3, <2>3, <2>4 DEF Placed
<1>6. CASE WriteTCP(e)
  <2>1. PICK d \in pending[e] : /\ d.seq = nextSeq[e] /\ pending'[e] = pending[e] \ {d}
                                /\ out'[e] = Append(out[e], d.pay)
    BY <1>1, <1>6 DEF WriteTCP
  <2>2. in' = in
    BY <1>6 DEF WriteTCP
  <2>3. d.pay = Len(out[e]) + 1 /\ d.pay \in Nat
    BY <1>1, <2>1 DEF Numbered
  <2>4. Len(out[e]) \in Nat /\ Len(out'[e]) = Len(out[e]) + 1
    BY <1>1, <2>1, <2>3
  <2>5. Written(p, k) \/ d.pay = k => Written(p, k)'
    BY <1>1, <1>k, <2>3, <2>4 DEF Written
  <2>6. InBuffer(p, k) => InBuffer(p, k)' \/ Written(p, k)'
    BY <1>1, <2>1, <2>5 DEF InBuffer
  <2>7. InQueue(p, k)' = InQueue(p, k)
    BY <2>2 DEF InQueue
  <2> QED
    BY <1>3, <2>5, <2>6, <2>7 DEF Placed
<1>7. CASE WriteTCPFails(e) \/ ReceivingDone(e)
  <2>1. UNCHANGED <<in, pending, out>>
    BY <1>7 DEF WriteTCPFails, ReceivingDone
  <2> QED
    BY <1>1, <1>2, <2>1, PlaceFrame
<1> QED
    BY <1>4, <1>5, <1>6, <1>7 DEF CollectStep

\* The loop writes what was read.
LEMMA WrittenKeeps ==
    ASSUME TypeOK, Numbered, BoundInv, WrittenWasRead, [Next]_vars
    PROVE  WrittenWasRead'
<1> USE PeerEnd
<1>1. /\ got \in [Ends -> Nat] /\ out \in [Ends -> Seq(Nat)]
      /\ pending \in [Ends -> SUBSET Chunk]
    BY DEF TypeOK
<1>2. \A f \in Ends : got[f] \in Nat /\ Len(out[f]) \in Nat
    BY <1>1
<1>3. CASE UNCHANGED <<got, out>>
    BY <1>3 DEF WrittenWasRead
<1>4. ASSUME NEW e \in Ends, NEW i \in Stripes, Dispatch(e, i) PROVE WrittenWasRead'
  <2>1. out' = out /\ \A f \in Ends : got'[f] = got[f] \/ got'[f] = got[f] + 1
    BY <1>1, <1>4 DEF Dispatch, recvVars
  <2> QED
    BY <1>2, <2>1 DEF WrittenWasRead
<1>5. ASSUME NEW e \in Ends, WriteTCP(e) PROVE WrittenWasRead'
  <2>1. PICK d \in pending[e] : /\ d.seq = nextSeq[e]
                                /\ out'[e] = Append(out[e], d.pay)
    BY <1>1, <1>5 DEF WriteTCP
  <2>2. got' = got /\ \A f \in Ends : f # e => out'[f] = out[f]
    BY <1>1, <1>5 DEF WriteTCP, sendVars
  <2>4. d \in Chunk /\ d.pay = Len(out[e]) + 1
    BY <1>1, <2>1 DEF Numbered
  <2>5. d.pay <= got[Peer(e)]
    BY <2>1 DEF BoundInv
  <2>6. d.pay \in Nat
    BY <2>4 DEF Chunk
  <2>7. Len(out'[e]) = Len(out[e]) + 1
    BY <1>1, <2>1, <2>6
  <2>8. Len(out'[e]) <= got[Peer(e)]
    BY <2>4, <2>5, <2>7, SMTT(30)
  <2> QED
    BY <2>2, <2>8 DEF WrittenWasRead
<1>6. ASSUME NEW e \in Ends,
             \/ ReadTCP(e) \/ ReadTCPFails(e) \/ WritersDone(e) \/ WriteMarker(e)
             \/ SendingDone(e) \/ Environment(e) \/ Collect(e) \/ CollectEof(e)
             \/ WriteTCPFails(e) \/ ReceivingDone(e)
             \/ \E i \in Stripes : WriterStep(e, i) \/ ReaderStep(e, i)
      PROVE  UNCHANGED <<got, out>>
    BY <1>6 DEF ReadTCP, ReadTCPFails, WritersDone, WriteMarker, SendingDone, Environment,
           AppHalfClose, AppClose, SessionDies, Collect, CollectEof, WriteTCPFails,
           ReceivingDone, WriterStep, ReaderStep, WriteChunk, WriteChunkFails, ReadChunk,
           ReadChunkFails, Push, sendVars, recvVars
<1>7. CASE UNCHANGED vars
    BY <1>3, <1>7 DEF vars
<1> QED
    BY <1>3, <1>4, <1>5, <1>6, <1>7 DEF Next, PumpStep, SendStep, CollectStep

-----------------------------------------------------------------------------
(* The markers mean everything has arrived *)

\* A pump that has just started has sent nothing and ended nothing.
LEMMA InitEnd == Init => EndInv
<1> SUFFICES ASSUME Init PROVE EndInv
    OBVIOUS
<1> USE PumpAssumption, PeerEnd
<1>1. BoundInv
    BY InitBound
<1>2. Idle.at = "idle" /\ Idle.pay = 0
    BY DEF Idle
<1>3. \A f \in Ends : \A i \in Stripes : /\ wr[f][i] = Idle /\ rdr[f][i] = Idle
                                         /\ str[f][i] = <<>> /\ mark[f] = 1
    BY DEF Init
<1>4. \A f \in Ends : /\ disp[f] = "read" /\ got[f] = 0 /\ in[f] = <<>> /\ pending[f] = {}
                      /\ eofs[f] = 0 /\ col[f] = "range" /\ out[f] = <<>>
    BY DEF Init
<1>5. EofsAt(<<>>) = {}
    BY DEF EofsAt
<1>6. WriterInv
    BY <1>2, <1>3, <1>4 DEF WriterInv
<1>7. MarkInv
    BY <1>2, <1>3, <1>5 DEF MarkInv, MarkedLast, Marked, Told
<1>8. PlacedInv /\ WrittenWasRead
    BY <1>4 DEF PlacedInv, WrittenWasRead
<1>9. LoopInv
    BY <1>4 DEF LoopInv
<1>10. CountInv
  <2>1. \A f \in Ends : Returned(f) = {}
    BY <1>2, <1>3 DEF Returned
  <2>2. Cardinality({}) = 0
    BY FS_EmptySet
  <2>3. \A f \in Ends : eofs[f] + Cardinality(EofsAt(in[f])) = Cardinality(Returned(f))
    <3> TAKE f \in Ends
    <3>1. EofsAt(in[f]) = {} /\ Returned(f) = {} /\ eofs[f] = 0
      BY <1>4, <1>5, <2>1, Zenon
    <3>2. Cardinality(EofsAt(in[f])) = 0 /\ Cardinality(Returned(f)) = 0
      BY <2>2, <3>1, Zenon
    <3> QED
      BY <3>1, <3>2
  <2> QED
    BY <1>4, <2>3 DEF CountInv
<1> QED
    BY <1>1, <1>6, <1>7, <1>8, <1>9, <1>10 DEF EndInv

\* Every step of either end keeps the inductive invariant.
LEMMA NextEnd == ASSUME TypeOK, Numbered, EndInv, [Next]_vars PROVE EndInv'
<1>1. BoundInv'
    BY NextBound DEF EndInv
<1>2. WriterInv' /\ MarkInv' /\ WrittenWasRead'
    BY WriterKeeps, NextMark, WrittenKeeps DEF EndInv
<1>3. PlacedInv' /\ LoopInv' /\ CountInv'
  <2>1. ASSUME NEW e \in Ends, SendStep(e) \/ \E i \in Stripes : WriterStep(e, i)
        PROVE  PlacedInv' /\ LoopInv' /\ CountInv'
    <3>1. UNCHANGED <<rdr, in, pending, nextSeq, eofs, col>>
      BY <2>1 DEF SendStep, WriterStep, ReadTCP, ReadTCPFails, Dispatch, WritersDone,
             WriteMarker, SendingDone, WriteChunk, WriteChunkFails, recvVars
    <3>2. LoopInv' /\ CountInv'
      BY <3>1 DEF EndInv, LoopInv, CountInv, Returned
    <3> QED
      BY <2>1, <3>2, SendPlaces DEF EndInv
  <2>2. ASSUME NEW e \in Ends, NEW i \in Stripes, ReaderStep(e, i)
        PROVE  PlacedInv' /\ LoopInv' /\ CountInv'
    <3>1. UNCHANGED <<pending, nextSeq, eofs, col>>
      BY <2>2 DEF ReaderStep, ReadChunk, ReadChunkFails, Push
    <3>2. LoopInv'
      BY <3>1 DEF EndInv, LoopInv
    <3> QED
      BY <2>2, <3>2, ReaderPlaces, CountStep DEF EndInv
  <2>3. ASSUME NEW e \in Ends, CollectStep(e) PROVE PlacedInv' /\ LoopInv' /\ CountInv'
    BY <2>3, CollectPlaces, LoopStep, CountStep DEF EndInv
  <2>4. CASE UNCHANGED vars \/ \E e \in Ends : Environment(e)
    <3>1. UNCHANGED <<got, wr, str, rdr, in, pending, nextSeq, eofs, col, out>>
      BY <2>4 DEF vars, Environment, AppHalfClose, AppClose, SessionDies, sendVars, recvVars
    <3>2. LoopInv' /\ CountInv'
      BY <3>1 DEF EndInv, LoopInv, CountInv, Returned
    <3>3. PlacedInv'
      BY <3>1, PlaceFrame DEF EndInv, PlacedInv
    <3> QED
      BY <3>2, <3>3
  <2> QED
    BY <2>1, <2>2, <2>3, <2>4 DEF Next, PumpStep
<1> QED
    BY <1>1, <1>2, <1>3 DEF EndInv

\* Once every reader has passed its marker on and the loop has counted them all,
\* there is no place left where a chunk could be but the application.
LEMMA EndMeansAll == ASSUME TypeOK, Numbered, EndInv PROVE MarkersMeanAll
<1> SUFFICES ASSUME NEW e \in Ends, eofs[e] = N, \A i \in Stripes : rdr[e][i] = Ended
             PROVE  Len(out[e]) = got[Peer(e)]
    BY DEF MarkersMeanAll
<1> DEFINE p == Peer(e)
<1> USE PumpAssumption
<1>1. p \in Ends /\ Peer(p) = e
    BY PeerEnd
<1>2. /\ in[e] \in Seq(Chunk) /\ got[p] \in Nat /\ Len(out[e]) \in Nat
      /\ pending[e] \subseteq Chunk
    BY <1>1 DEF TypeOK
<1>3. Ended.at = "ended"
    BY DEF Ended
<1>4. in[e] = <<>>
  <2>1. Returned(e) = Stripes
    BY <1>3 DEF Returned
  <2>2. N + Cardinality(EofsAt(in[e])) = Cardinality(Returned(e))
    BY DEF EndInv, CountInv
  <2>3. Cardinality(EofsAt(in[e])) = 0
    BY <1>2, <2>2, EofsFinite, ReturnedFinite
  <2>4. EofsAt(in[e]) = {}
    BY <1>2, <2>3, EofsFinite, FS_EmptySet
  <2> QED
    BY <2>1, <2>4 DEF EndInv, CountInv
<1>5. \A i \in Stripes : str[p][i] = <<>> /\ wr[p][i].at = "idle"
  <2>1. \A i \in Stripes : Told(p, i) /\ MarkedLast(p, i)
    BY <1>1, <1>3 DEF Told, EndInv, MarkInv
  <2>2. 1 \in Stripes
    BY DEF Stripes
  <2> QED
    BY <2>1, <2>2 DEF MarkedLast, Marked
<1>6. ASSUME NEW k \in 1..got[p] PROVE InBuffer(p, k) \/ Written(p, k)
  <2>1. Placed(p, k)
    BY <1>1 DEF EndInv, PlacedInv
  <2>2. ~Has(<<>>, k)
    BY DEF Has
  <2>3. ~InWriter(p, k) /\ ~Lost(p)
    BY <1>5 DEF InWriter, Lost
  <2>4. ~InStream(p, k) /\ ~InQueue(p, k)
    BY <1>1, <1>4, <1>5, <2>2 DEF InStream, InQueue
  <2>5. ~InReader(p, k)
    BY <1>1, <1>3 DEF InReader
  <2> QED
    BY <2>1, <2>3, <2>4, <2>5 DEF Placed
<1>7. Len(out[e]) <= got[p]
    BY <1>1 DEF EndInv, WrittenWasRead
<1>8. SUFFICES ASSUME Len(out[e]) < got[p] PROVE FALSE
    BY <1>2, <1>7
<1> DEFINE k == Len(out[e]) + 1
<1>9. k \in 1..got[p] /\ ~Written(p, k)
    BY <1>1, <1>2, <1>8 DEF Written
<1>10. PICK d \in pending[e] : d.pay = k
    BY <1>1, <1>6, <1>9 DEF InBuffer
<1>11. d.seq # nextSeq[e]
    BY <1>10 DEF EndInv, LoopInv
<1>12. d.seq = nextSeq[e]
    BY <1>10 DEF Numbered
<1> QED
    BY <1>11, <1>12

\* As long as the numbers do not run out, they tell the chunks apart.
LEMMA FewNumbered == PumpInv => Numbered
<1> SUFFICES ASSUME PumpInv, NEW e \in Ends
             PROVE  /\ \A d \in pending[e] : d.seq = nextSeq[e] <=> d.pay = Len(out[e]) + 1
                    /\ in[e] # <<>> /\ Head(in[e]).pay # 0 =>
                        \A d \in pending[e] : d.seq = Head(in[e]).seq => d.pay = Head(in[e]).pay
                    /\ \A i \in Stripes : rdr[e][i].at # "holding" => rdr[e][i].pay = 0
    BY DEF Numbered
<1>1. /\ in[e] \in Seq(Sound(Peer(e))) /\ nextSeq[e] = Len(out[e])
      /\ \A d \in pending[e] : d \in Sound(Peer(e)) /\ d.pay # 0
      /\ \A i \in Stripes : rdr[e][i].at # "holding" => rdr[e][i].pay = 0
    BY DEF PumpInv, CarryInv, WrittenInv, CarriesSound
<1>2. Len(out[e]) \in Nat
    BY DEF PumpInv, TypeOK
<1>3. \A d \in Sound(Peer(e)) : d.pay # 0 => d.seq \in Nat /\ d.pay = d.seq + 1
    BY DEF Sound, Chunk
<1>4. \A d \in pending[e] : d.seq = nextSeq[e] <=> d.pay = Len(out[e]) + 1
    BY <1>1, <1>2, <1>3
<1>5. in[e] # <<>> => Head(in[e]) \in Sound(Peer(e))
    BY <1>1, HeadTailIn
<1> QED
    BY <1>1, <1>3, <1>4, <1>5

\* With one stripe no chunk waits in the reorder buffer, so that nothing needs to be
\* told apart.
LEMMA FifoNumbered == ASSUME TypeOK, N = 1, FifoInv PROVE Numbered
<1> SUFFICES ASSUME NEW e \in Ends
             PROVE  /\ \A d \in pending[e] : d.seq = nextSeq[e] <=> d.pay = Len(out[e]) + 1
                    /\ col[e] = "range" => pending[e] = {}
                    /\ \A i \in Stripes : rdr[e][i].at # "holding" => rdr[e][i].pay = 0
    BY DEF Numbered
<1>1. FifoOut(e) /\ FifoIn(e) /\ Stripes = {1}
    BY DEF FifoInv, Fifo, Stripes
<1>2. Len(out[e]) \in Nat
    BY DEF TypeOK
<1>3. (Len(out[e]) + 1) - 1 = Len(out[e])
    BY <1>2
<1>4. SeqOf(Len(out[e]) + 1) = Len(out[e]) % SeqMod
    BY <1>3 DEF SeqOf
<1>5. \A d \in pending[e] : d.pay = Len(out[e]) + 1 /\ d.seq = nextSeq[e]
    BY <1>1, <1>4 DEF FifoOut
<1> QED
    BY <1>1, <1>5 DEF FifoOut, FifoIn

-----------------------------------------------------------------------------
(* Theorems *)

\* On a connection of fewer than 2^32 chunks, a readStripesToTCP that returns
\* because a marker ended every stripe has written everything that writeStripes at
\* the other end read: the markers are sent "after all data has been flushed",
\* whatever the number of stripes, however the goroutines raced.
THEOREM MarkersComplete == ASSUME FewChunks PROVE Spec => []MarkersMeanAll
<1> DEFINE Inv == PumpInv /\ EndInv
<1>1. Init => Inv
    BY InitPumpInv, InitEnd
<1>2. Inv /\ [Next]_vars => Inv'
    BY NextPumpInv, FewNumbered, NextEnd DEF PumpInv
<1>3. Inv => MarkersMeanAll
    BY FewNumbered, EndMeansAll DEF PumpInv
<1> QED
    BY <1>1, <1>2, <1>3, PTL DEF Spec

\* With the build's one stripe that holds however many chunks a connection
\* carries: the numbers may wrap around.
THEOREM OneStripeComplete == ASSUME N = 1 PROVE Spec => []MarkersMeanAll
<1> DEFINE Inv == TypeOK /\ FifoInv /\ EndInv
<1>1. Init => Inv
    BY InitTypeOK, InitFifo, InitEnd
<1>2. Inv /\ [Next]_vars => Inv'
    BY NextTypeOK, NextFifo, FifoNumbered, NextEnd
<1>3. Inv => MarkersMeanAll
    BY FifoNumbered, EndMeansAll
<1> QED
    BY <1>1, <1>2, <1>3, PTL DEF Spec

=============================================================================
