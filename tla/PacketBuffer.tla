---------------------------- MODULE PacketBuffer ----------------------------
(***************************************************************************)
(* bufferedPacketConn of internal/transport, at both ends of the ICE path: *)
(* the goroutine drain moves datagrams from the ICE connection into a      *)
(* bounded queue and drops them when it is full; ReadFrom, called by the   *)
(* read loop of quic-go, takes from the queue or sees that drain has       *)
(* ended.                                                                  *)
(***************************************************************************)
EXTENDS Naturals, Sequences

CONSTANTS
    QueueCap   \* capacity of the queue, 4096 in the code

Ends == {"serve", "dial"}

ASSUME BufferAssumption == QueueCap \in Nat \ {0}

VARIABLES
    iceOpen,   \* the ICE connection has not been closed
    queue,     \* bufferedPacketConn.queue
    done,      \* bufferedPacketConn.done is closed
    reading    \* quic-go's read loop runs

bufferVars == <<iceOpen, queue, done, reading>>

\* newBufferedPacketConn, and the read loop its Transport starts.
BufferInit ==
    /\ iceOpen = [e \in Ends |-> TRUE]
    /\ queue = [e \in Ends |-> <<>>]
    /\ done = [e \in Ends |-> FALSE]
    /\ reading = [e \in Ends |-> TRUE]

\* Mutant: a place in the queue is left unused.
HasRoomLess(e) == Len(queue[e]) < QueueCap - 1

\* Mutant: off by one.
HasRoomMore(e) == Len(queue[e]) <= QueueCap

\* The select of drain finds room in the queue.
HasRoom(e) == Len(queue[e]) < QueueCap

\* drain reads datagram m and queues it...
DrainQueues(e, m) ==
    /\ iceOpen[e] /\ HasRoom(e)
    /\ queue' = [queue EXCEPT ![e] = Append(@, m)]
    /\ UNCHANGED <<iceOpen, done, reading>>

\* Mutant: drain returns without close(b.done).
DrainReturns(e) == FALSE /\ UNCHANGED bufferVars

\* ... or drops it, which changes nothing; the connection closed, it ends.
DrainEnds(e) ==
    /\ ~iceOpen[e] /\ ~done[e]
    /\ done' = [done EXCEPT ![e] = TRUE]
    /\ UNCHANGED <<iceOpen, queue, reading>>

\* ReadFrom returns the first datagram of the queue, drain running or not.
ReadFrom(e) ==
    /\ reading[e] /\ queue[e] # <<>>
    /\ queue' = [queue EXCEPT ![e] = Tail(@)]
    /\ UNCHANGED <<iceOpen, done, reading>>

\* ReadFrom fails and the read loop ends, datagrams left in the queue or not.
ReadFromFails(e) ==
    /\ reading[e] /\ done[e]
    /\ reading' = [reading EXCEPT ![e] = FALSE]
    /\ UNCHANGED <<iceOpen, queue, done>>

=============================================================================
