----------------------------- MODULE StripedPump -----------------------------
(***************************************************************************)
(* One forwarded TCP connection: the byte pump of internal/forward at its  *)
(* two ends, pumpStriped where the client connected ("listen") and         *)
(* pumpStripedReceiver where the service was dialed ("accept"), joined by  *)
(* N QUIC streams.  At each end writeStripes reads the TCP connection,     *)
(* numbers the chunks and hands them over an unbuffered channel to one     *)
(* writer goroutine per stream; readStripesToTCP has one reader goroutine  *)
(* per stream, which feed a bounded channel, and puts the chunks back in   *)
(* order.  Whichever of the two returns first closes everything.           *)
(*                                                                         *)
(* A chunk is one Read of the TCP connection, its payload the number k of  *)
(* that Read.  writeChunk is one step: a header without its payload reads  *)
(* as an error at the other end, like no chunk at all.                     *)
(*                                                                         *)
(* QUIC streams (external): reliable and ordered; a stream holds at most   *)
(* Window unread chunks, then Write blocks; Close ends the sending         *)
(* direction only, after the data already written.  The applications read  *)
(* what they are sent or close.                                            *)
(***************************************************************************)
EXTENDS Naturals, Sequences

CONSTANTS
    N,          \* numStripes
    SeqMod,     \* number of sequence numbers, 2^32 in the code
    InCap,      \* capacity of the channel `in`, 8 * N in the code
    Window,     \* bound: chunks a stream's flow control lets be unread
    Plans       \* bound: what the surroundings may do, see Plan

Ends == {"listen", "accept"}
Stripes == 1..N

\* How many chunks the application at each end sends at most, and whether the
\* session may be torn down under the pump.
Plan == [quota : [Ends -> Nat], mayFail : BOOLEAN]

ASSUME PumpAssumption ==
    /\ N \in Nat \ {0} /\ SeqMod \in Nat \ {0}
    /\ InCap \in Nat \ {0} /\ Window \in Nat \ {0}
    /\ Plans \subseteq Plan

VARIABLES
    plan,       \* what the surroundings may do in this behaviour
    app,        \* what the application has closed: nothing, its sending half, all
    rst,        \* the application's closed connection was written to
    tcpClosed,  \* the pump has closed its TCP connection
    disp,       \* where writeStripes is
    got,        \* chunks writeStripes has read and handed over
    mark,       \* the stripe to get the next EOF marker
    wr,         \* what each writer holds
    str,        \* chunks in each stream, by sending end
    fin,        \* the sending direction of each stream was closed
    rdr,        \* what each reader holds, or how it returned
    in,         \* the channel `in`
    pending,    \* the reorder buffer
    nextSeq, eofs, col,  \* the rest of readStripesToTCP
    out,        \* chunks written to the application
    dead        \* the end's session was torn down

appVars == <<plan, app, rst>>
sendVars == <<disp, got, mark, wr>>
recvVars == <<rdr, in, pending, nextSeq, eofs, col, out>>
vars == <<plan, app, rst, tcpClosed, disp, got, mark, wr, str, fin,
          rdr, in, pending, nextSeq, eofs, col, out, dead>>

Peer(e) == IF e = "listen" THEN "accept" ELSE "listen"

\* A chunk on a stream or in a channel; payload 0 is the empty payload, which
\* stands for the EOF marker and for a reader's report of an error alike.
Chunk == [seq : Nat, pay : Nat]

Eof(c) == c.pay = 0

\* What a writer or a reader holds: nothing between two chunks, a chunk, an error
\* to report, or nothing any more once it has returned.
Held == [seq : Nat, pay : Nat,
         at : {"idle", "holding", "failing", "failed", "ended"}]
Idle == [seq |-> 0, pay |-> 0, at |-> "idle"]
Holding(c) == [seq |-> c.seq, pay |-> c.pay, at |-> "holding"]
Failing == [seq |-> 0, pay |-> 0, at |-> "failing"]
Failed == [seq |-> 0, pay |-> 0, at |-> "failed"]
Ended == [seq |-> 0, pay |-> 0, at |-> "ended"]

SeqNums == 0..(SeqMod - 1)

\* Mutant: seq is incremented before the chunk is sent.
SeqFromOne(k) == k % SeqMod

\* The number writeStripes gives its k-th chunk: a uint32.
SeqOf(k) == (k - 1) % SeqMod

-----------------------------------------------------------------------------

Init ==
    /\ plan \in Plans
    /\ app = [e \in Ends |-> "open"]
    /\ rst = [e \in Ends |-> FALSE]
    /\ tcpClosed = [e \in Ends |-> FALSE]
    /\ disp = [e \in Ends |-> "read"]
    /\ got = [e \in Ends |-> 0]
    /\ mark = [e \in Ends |-> 1]
    /\ wr = [e \in Ends |-> [i \in Stripes |-> Idle]]
    /\ str = [e \in Ends |-> [i \in Stripes |-> <<>>]]
    /\ fin = [e \in Ends |-> FALSE]
    /\ rdr = [e \in Ends |-> [i \in Stripes |-> Idle]]
    /\ in = [e \in Ends |-> <<>>]
    /\ pending = [e \in Ends |-> {}]
    /\ nextSeq = [e \in Ends |-> 0]
    /\ eofs = [e \in Ends |-> 0]
    /\ col = [e \in Ends |-> "range"]
    /\ out = [e \in Ends |-> <<>>]
    /\ dead = [e \in Ends |-> FALSE]

-----------------------------------------------------------------------------
(* The applications and the session (external) *)

AppHalfClose(e) ==
    /\ app[e] = "open"
    /\ app' = [app EXCEPT ![e] = "half"]
    /\ UNCHANGED <<plan, rst, tcpClosed, sendVars, str, fin, recvVars, dead>>

AppClose(e) ==
    /\ app[e] # "closed"
    /\ app' = [app EXCEPT ![e] = "closed"]
    /\ UNCHANGED <<plan, rst, tcpClosed, sendVars, str, fin, recvVars, dead>>

\* One end's session is closed or lost; the other end notices later.
SessionDies(e) ==
    /\ plan.mayFail /\ ~dead[e]
    /\ dead' = [dead EXCEPT ![e] = TRUE]
    /\ UNCHANGED <<appVars, tcpClosed, sendVars, str, fin, recvVars>>

-----------------------------------------------------------------------------
(* writeStripes *)

\* src.Read returns a chunk.  An application that has closed may have left some
\* to be read.
ReadTCP(e) ==
    /\ disp[e] = "read"
    /\ ~tcpClosed[e] /\ ~rst[e] /\ got[e] < plan.quota[e]
    /\ disp' = [disp EXCEPT ![e] = "dispatch"]
    /\ UNCHANGED <<appVars, tcpClosed, got, mark, wr, str, fin, recvVars, dead>>

\* src.Read fails: the application has sent all it will, or the connection was
\* reset or closed by closeAll.  The dispatch channel is closed.
ReadTCPFails(e) ==
    /\ disp[e] = "read"
    /\ tcpClosed[e] \/ app[e] # "open"
    /\ disp' = [disp EXCEPT ![e] = "wait"]
    /\ UNCHANGED <<appVars, tcpClosed, got, mark, wr, str, fin, recvVars, dead>>

\* A writer takes the chunk from the unbuffered channel.  If its stream was closed
\* before, its Write fails at once and it returns.
Dispatch(e, i) ==
    /\ disp[e] = "dispatch"
    /\ wr[e][i] = Idle
    /\ wr' = [wr EXCEPT ![e][i] =
                IF fin[e] THEN Failed
                ELSE Holding([seq |-> SeqOf(got[e] + 1), pay |-> got[e] + 1])]
    /\ got' = [got EXCEPT ![e] = @ + 1]
    /\ disp' = [disp EXCEPT ![e] = "read"]
    /\ UNCHANGED <<appVars, tcpClosed, mark, str, fin, recvVars, dead>>

\* writeChunk succeeds.  A Write that was under way when the stream was closed
\* still goes out before the end of the stream.
WriteChunk(e, i) ==
    /\ wr[e][i].at = "holding"
    /\ ~dead[e] /\ Len(str[e][i]) < Window
    /\ str' = [str EXCEPT ![e][i] =
                Append(@, [seq |-> wr[e][i].seq, pay |-> wr[e][i].pay])]
    /\ wr' = [wr EXCEPT ![e][i] = Idle]
    /\ UNCHANGED <<appVars, tcpClosed, disp, got, mark, fin, recvVars, dead>>

\* writeChunk fails on a closed stream or a dead session and the writer returns.
WriteChunkFails(e, i) ==
    /\ wr[e][i].at = "holding"
    /\ dead[e] \/ fin[e]
    /\ wr' = [wr EXCEPT ![e][i] = Failed]
    /\ UNCHANGED <<appVars, tcpClosed, disp, got, mark, str, fin, recvVars, dead>>

\* Mutant: without wg.Wait.
WritersNotAwaited(e) ==
    /\ disp[e] = "wait"
    /\ disp' = [disp EXCEPT ![e] = "mark"]
    /\ UNCHANGED <<appVars, tcpClosed, got, mark, wr, str, fin, recvVars, dead>>

\* wg.Wait returns: no writer holds a chunk, and the idle ones find the channel
\* closed.
WritersDone(e) ==
    /\ disp[e] = "wait"
    /\ \A i \in Stripes : wr[e][i].at # "holding"
    /\ disp' = [disp EXCEPT ![e] = "mark"]
    /\ UNCHANGED <<appVars, tcpClosed, got, mark, wr, str, fin, recvVars, dead>>

\* The EOF marker of the next stripe is written, or fails, which is ignored.
WriteMarker(e) ==
    /\ disp[e] = "mark" /\ mark[e] <= N
    /\ mark' = [mark EXCEPT ![e] = @ + 1]
    /\ \/ /\ ~dead[e] /\ ~fin[e]
          /\ Len(str[e][mark[e]]) < Window
          /\ str' = [str EXCEPT ![e][mark[e]] =
                        Append(@, [seq |-> SeqOf(got[e] + 1), pay |-> 0])]
       \/ (dead[e] \/ fin[e]) /\ UNCHANGED str
    /\ UNCHANGED <<appVars, tcpClosed, disp, got, wr, fin, recvVars, dead>>

\* closeAll: the TCP connection and the sending direction of every stream.
CloseAll(e) ==
    /\ tcpClosed' = [tcpClosed EXCEPT ![e] = TRUE]
    /\ fin' = [fin EXCEPT ![e] = TRUE]

\* writeStripes has returned.
SendingDone(e) ==
    /\ disp[e] = "mark" /\ mark[e] > N
    /\ disp' = [disp EXCEPT ![e] = "done"]
    /\ CloseAll(e)
    /\ UNCHANGED <<appVars, got, mark, wr, str, recvVars, dead>>

-----------------------------------------------------------------------------
(* readStripesToTCP *)

\* readChunk returns a chunk or a marker.
ReadChunk(e, i) ==
    /\ rdr[e][i] = Idle
    /\ ~dead[e] /\ str[Peer(e)][i] # <<>>
    /\ rdr' = [rdr EXCEPT ![e][i] = Holding(Head(str[Peer(e)][i]))]
    /\ str' = [str EXCEPT ![Peer(e)][i] = Tail(@)]
    /\ UNCHANGED <<appVars, tcpClosed, sendVars, fin,
                   in, pending, nextSeq, eofs, col, out, dead>>

\* Mutant: the deadline for the header is left on the router's streams.
ReadChunkDeadline(e, i) ==
    /\ rdr[e][i] = Idle
    /\ \/ dead[e] \/ e = "accept"
       \/ /\ str[Peer(e)][i] = <<>> /\ fin[Peer(e)]
          /\ wr[Peer(e)][i].at # "holding"
    /\ rdr' = [rdr EXCEPT ![e][i] = Failing]
    /\ UNCHANGED <<appVars, tcpClosed, sendVars, str, fin,
                   in, pending, nextSeq, eofs, col, out, dead>>

\* readChunk fails: the session died, or the stream ended without a marker.
\* The reader reports it like a marker, with no payload, and returns.
ReadChunkFails(e, i) ==
    /\ rdr[e][i] = Idle
    /\ \/ dead[e]
       \/ /\ str[Peer(e)][i] = <<>> /\ fin[Peer(e)]
          /\ wr[Peer(e)][i].at # "holding"
    /\ rdr' = [rdr EXCEPT ![e][i] = Failing]
    /\ UNCHANGED <<appVars, tcpClosed, sendVars, str, fin,
                   in, pending, nextSeq, eofs, col, out, dead>>

\* The reader sends what it holds on `in`, and returns after an end of stream.
Push(e, i) ==
    LET r == rdr[e][i] IN
    /\ r.at \in {"holding", "failing"}
    /\ Len(in[e]) < InCap
    /\ in' = [in EXCEPT ![e] = Append(@, [seq |-> r.seq, pay |-> r.pay])]
    /\ rdr' = [rdr EXCEPT ![e][i] = IF r.at = "failing" THEN Failed
                                    ELSE IF Eof(r) THEN Ended
                                    ELSE Idle]
    /\ UNCHANGED <<appVars, tcpClosed, sendVars, str, fin,
                   pending, nextSeq, eofs, col, out, dead>>

\* Mutant: every chunk is taken for the next one.
CollectAny(e) ==
    LET c == Head(in[e]) IN
    /\ col[e] = "range" /\ in[e] # <<>> /\ ~Eof(c)
    /\ in' = [in EXCEPT ![e] = Tail(@)]
    /\ pending' = [pending EXCEPT ![e] = {[c EXCEPT !.seq = nextSeq[e]]}]
    /\ col' = [col EXCEPT ![e] = "drain"]
    /\ UNCHANGED <<appVars, tcpClosed, sendVars, str, fin, rdr, nextSeq, eofs, out, dead>>

\* The loop takes a data chunk and puts it in the reorder buffer, from where it
\* is written at once if its turn has come.
Collect(e) ==
    LET c == Head(in[e]) IN
    /\ col[e] = "range" /\ in[e] # <<>> /\ ~Eof(c)
    /\ in' = [in EXCEPT ![e] = Tail(@)]
    /\ pending' = [pending EXCEPT ![e] = {d \in @ : d.seq # c.seq} \cup {c}]
    /\ col' = [col EXCEPT ![e] = IF c.seq = nextSeq[e] THEN "drain" ELSE "range"]
    /\ UNCHANGED <<appVars, tcpClosed, sendVars, str, fin, rdr, nextSeq, eofs, out, dead>>

\* Where the loop goes when eof of the streams have ended, chunks is in the
\* reorder buffer and seq is awaited.
Continue(chunks, seq, eof) ==
    IF \E d \in chunks : d.seq = seq THEN "drain"
    ELSE IF eof = N THEN "return"
    ELSE "range"

\* Mutant: the ends of streams are counted down.
CollectEofDown(e) ==
    /\ col[e] = "range" /\ in[e] # <<>> /\ Eof(Head(in[e]))
    /\ in' = [in EXCEPT ![e] = Tail(@)]
    /\ eofs' = [eofs EXCEPT ![e] = @ - 1]
    /\ UNCHANGED <<appVars, tcpClosed, sendVars, str, fin, rdr, pending, nextSeq, col, out, dead>>

\* The loop takes an end of stream, and is left with the last one.
CollectEof(e) ==
    /\ col[e] = "range" /\ in[e] # <<>> /\ Eof(Head(in[e]))
    /\ in' = [in EXCEPT ![e] = Tail(@)]
    /\ eofs' = [eofs EXCEPT ![e] = @ + 1]
    /\ col' = [col EXCEPT ![e] = IF eofs'[e] = N
                                 THEN Continue(pending[e], nextSeq[e], N)
                                 ELSE "range"]
    /\ UNCHANGED <<appVars, tcpClosed, sendVars, str, fin, rdr, pending, nextSeq, out, dead>>

\* Mutant: the awaited number does not wrap around.
WriteTCPNoWrap(e) ==
    /\ col[e] = "drain" /\ ~tcpClosed[e] /\ ~rst[e]
    /\ \E d \in pending[e] :
        /\ d.seq = nextSeq[e]
        /\ pending' = [pending EXCEPT ![e] = @ \ {d}]
        /\ out' = [out EXCEPT ![e] = Append(@, d.pay)]
    /\ nextSeq' = [nextSeq EXCEPT ![e] = @ + 1]
    /\ col' = [col EXCEPT ![e] = Continue(pending'[e], nextSeq'[e], eofs[e])]
    /\ rst' = [rst EXCEPT ![e] = app[e] = "closed"]
    /\ UNCHANGED <<plan, app, tcpClosed, sendVars, str, fin, rdr, in, eofs, dead>>

\* dst.Write succeeds; on a connection the application has closed, that gets
\* the connection reset.
WriteTCP(e) ==
    /\ col[e] = "drain" /\ ~tcpClosed[e] /\ ~rst[e]
    /\ \E d \in pending[e] :
        /\ d.seq = nextSeq[e]
        /\ pending' = [pending EXCEPT ![e] = @ \ {d}]
        /\ out' = [out EXCEPT ![e] = Append(@, d.pay)]
    /\ nextSeq' = [nextSeq EXCEPT ![e] = (@ + 1) % SeqMod]
    /\ col' = [col EXCEPT ![e] = Continue(pending'[e], nextSeq'[e], eofs[e])]
    /\ rst' = [rst EXCEPT ![e] = app[e] = "closed"]
    /\ UNCHANGED <<plan, app, tcpClosed, sendVars, str, fin, rdr, in, eofs, dead>>

\* dst.Write fails and readStripesToTCP returns, leaving its readers behind.
WriteTCPFails(e) ==
    /\ col[e] = "drain"
    /\ tcpClosed[e] \/ app[e] = "closed"
    /\ col' = [col EXCEPT ![e] = "return"]
    /\ UNCHANGED <<appVars, tcpClosed, sendVars, str, fin,
                   rdr, in, pending, nextSeq, eofs, out, dead>>

\* Mutant: without closeAll.
ReceivingDoneOnly(e) ==
    /\ col[e] = "return"
    /\ col' = [col EXCEPT ![e] = "done"]
    /\ UNCHANGED <<appVars, tcpClosed, sendVars, str, fin,
                   rdr, in, pending, nextSeq, eofs, out, dead>>

\* readStripesToTCP has returned.
ReceivingDone(e) ==
    /\ col[e] = "return"
    /\ col' = [col EXCEPT ![e] = "done"]
    /\ CloseAll(e)
    /\ UNCHANGED <<appVars, sendVars, str, rdr, in, pending, nextSeq, eofs, out, dead>>

-----------------------------------------------------------------------------

SendStep(e) ==
    \/ ReadTCP(e) \/ ReadTCPFails(e)
    \/ \E i \in Stripes : Dispatch(e, i)
    \/ WritersDone(e) \/ WriteMarker(e) \/ SendingDone(e)

WriterStep(e, i) == WriteChunk(e, i) \/ WriteChunkFails(e, i)

ReaderStep(e, i) == ReadChunk(e, i) \/ ReadChunkFails(e, i) \/ Push(e, i)

CollectStep(e) ==
    \/ Collect(e) \/ CollectEof(e) \/ WriteTCP(e) \/ WriteTCPFails(e)
    \/ ReceivingDone(e)

PumpStep(e) ==
    \/ SendStep(e) \/ CollectStep(e)
    \/ \E i \in Stripes : WriterStep(e, i) \/ ReaderStep(e, i)

Environment(e) ==
    \/ AppHalfClose(e) \/ AppClose(e) \/ SessionDies(e)

Next == \E e \in Ends : PumpStep(e) \/ Environment(e)

Spec == Init /\ [][Next]_vars

\* Every goroutine of the pump is scheduled again and again, and an end whose
\* peer's session is gone notices (CONNECTION_CLOSE, or the idle timeout).
Fairness ==
    /\ \A e \in Ends :
        /\ WF_vars(SendStep(e)) /\ WF_vars(CollectStep(e))
        /\ \A i \in Stripes : WF_vars(WriterStep(e, i)) /\ WF_vars(ReaderStep(e, i))
        /\ WF_vars(dead[Peer(e)] /\ SessionDies(e))

FairSpec == Spec /\ Fairness

-----------------------------------------------------------------------------
(* Properties *)

\* Every variable has its type; the counters of writeStripes and
\* readStripesToTCP never leave their range.
TypeOK ==
    /\ plan \in Plans /\ app \in [Ends -> {"open", "half", "closed"}]
    /\ got \in [Ends -> Nat] /\ mark \in [Ends -> 1..(N + 1)]
    /\ wr \in [Ends -> [Stripes -> Held]] /\ rdr \in [Ends -> [Stripes -> Held]]
    /\ rst \in [Ends -> BOOLEAN] /\ tcpClosed \in [Ends -> BOOLEAN]
    /\ fin \in [Ends -> BOOLEAN] /\ dead \in [Ends -> BOOLEAN]
    /\ disp \in [Ends -> {"read", "dispatch", "wait", "mark", "done"}]
    /\ col \in [Ends -> {"range", "drain", "return", "done"}]
    /\ str \in [Ends -> [Stripes -> Seq(Chunk)]]
    /\ in \in [Ends -> Seq(Chunk)]
    /\ pending \in [Ends -> SUBSET Chunk]
    /\ nextSeq \in [Ends -> SeqNums] /\ eofs \in [Ends -> Nat]
    /\ out \in [Ends -> Seq(Nat)]

\* What readStripesToTCP writes to an application is a prefix of what the other
\* application sent: the k-th chunk written is the k-th chunk read, however the
\* stripes raced, whatever was lost with the session and whoever closed first.
InOrder ==
    \A e \in Ends : \A k \in 1..Len(out[e]) : out[e][k] = k

\* The markers are sent "after all data has been flushed" (writeStripes): when
\* readStripesToTCP has been told of the end of every stripe by a marker,
\* everything the other end took from its application has been written.
MarkersMeanAll ==
    \A e \in Ends :
        eofs[e] = N /\ col[e] \in {"return", "done"} /\ (\A i \in Stripes : rdr[e][i] = Ended)
            => Len(out[e]) = got[Peer(e)]

\* What has been read from each application, and whether anything has happened
\* that may end the connection.
Taken == [e \in Ends |-> got[e] + (IF disp[e] = "dispatch" THEN 1 ELSE 0)]
Over == \E e \in Ends : app[e] # "open" \/ dead[e]

Abs == INSTANCE ForwardedConnection
        WITH Sides <- Ends, sent <- Taken, delivered <- out,
             closed <- tcpClosed, over <- Over

\* The goroutines, stripes and buffers of the pump implement a plain connection:
\* each step of theirs is one of ForwardedConnection or changes nothing an
\* application could see.  A pump that closes a connection for a reason of its
\* own (a deadline, a stripe taken for ended) does not.
Promise == Abs!Spec

\* Nobody is left connected to nothing: once an application has closed, or only
\* ended its sending, or the session has died under the pump, both TCP
\* connections get closed (closeAll), wherever the goroutines were, with the
\* streams' windows and `in` full or not, and in whichever order the two ends
\* notice.
HangUpReachesBothEnds == Over ~> (\A e \in Ends : tcpClosed[e])

\* Bytes are pumped "until either side closes" (README.md): then the pump's two
\* goroutines return and its streams are released.
PumpReturns ==
    (\E e \in Ends : app[e] = "closed")
        ~> (\A e \in Ends : disp[e] = "done" /\ col[e] = "done")

\* The sink mode of nl-punch-bench half-closes and then waits for the server's
\* answer: ending one direction leaves the other one up.
HalfCloseKeepsReply ==
    \A e \in Ends :
        tcpClosed[e] => \/ \E f \in Ends : app[f] = "closed" \/ dead[f]
                        \/ \A f \in Ends : app[f] = "half"

=============================================================================
