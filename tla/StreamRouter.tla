---------------------------- MODULE StreamRouter ----------------------------
(***************************************************************************)
(* How a TCP connection gets its pump: TCPListener.handle at one end opens *)
(* the streams of a connection over the session, each with a header that   *)
(* names the listener (the tag), and AcceptRouter at the other end reads   *)
(* the headers, groups the stripes of a connection by session id and dials *)
(* the port its configuration has for the tag when a group is complete.    *)
(*                                                                         *)
(* Session ids are 64-bit random numbers, taken to be distinct: the        *)
(* connection stands for its id.  The pumps are those of StripedPump,      *)
(* reduced to when they close their TCP connection and streams: at the end *)
(* of all streams, of the session, or of the application.  Whether the     *)
(* goroutines of a pump also return is StripedPump's business.             *)
(***************************************************************************)
EXTENDS Naturals, Sequences, Config

CONSTANTS
    Conns,     \* TCP connections made to the listeners
    LongNames, \* names of more than maxTagLen = 255 bytes
    Setups     \* what may be built and configured, see Setup

\* The listening peer's numStripes (the router takes it from the headers), the
\* clients there will be, the listening peer's role and the two peers' files.
Setup == [n : Nat \ {0}, clients : SUBSET Conns, role : RoleNames,
          mine : [session : BOOLEAN, url : BOOLEAN, peers : [RoleNames -> Half]],
          theirs : [session : BOOLEAN, url : BOOLEAN, peers : [RoleNames -> Half]]]

ASSUME RouterAssumption == Setups \subseteq Setup

VARIABLES
    setup,     \* the build and the files of this behaviour
    dials,     \* AcceptRouter.dials: the port for each tag
    up,        \* the transport session is alive
    bound,     \* the TCP listeners accept
    running,   \* AcceptRouter.Run is in its loop
    from,      \* the listen entry each connection came in by
    lh,        \* TCPListener.handle of each connection
    opened,    \* streams it has opened and written a header to
    lfin,      \* it has closed its streams
    rh,        \* AcceptRouter.handle of each stream
    group,     \* AcceptRouter.groups: the stripes that have joined
    ready,     \* the group's ready channel is closed
    port,      \* the port dialed for the connection, 0 if none was
    rfin       \* streams the router's end has closed

cvars == <<setup, dials>>
lvars == <<from, lh, opened, lfin>>
rvars == <<rh, group, ready, port, rfin>>
vars == <<cvars, up, bound, running, lvars, rvars>>

Stripes == 1..setup.n

Listens == setup.mine.peers[setup.role].listen
Tag(c) == Listens[from[c]].name

\* main exits unless Load accepts the file.
Init ==
    /\ setup \in {s \in Setups : Valid(s.mine) /\ Valid(s.theirs)}
    /\ dials = DialMap(setup.theirs, Other(setup.role))
    /\ up = TRUE /\ bound = TRUE /\ running = TRUE
    /\ from = [c \in Conns |-> 0]
    /\ lh = [c \in Conns |-> "none"]
    /\ opened = [c \in Conns |-> 0]
    /\ lfin = [c \in Conns |-> FALSE]
    /\ rh = [c \in Conns |-> [i \in Stripes |-> "none"]]
    /\ group = [c \in Conns |-> {}]
    /\ ready = [c \in Conns |-> FALSE]
    /\ port = [c \in Conns |-> 0]
    /\ rfin = [c \in Conns |-> {}]

-----------------------------------------------------------------------------
(* TCPListener *)

\* acceptLoop of a listener: a client connects and a goroutine runs handle.
AcceptTCP(c) ==
    /\ bound /\ lh[c] = "none" /\ c \in setup.clients
    /\ \E k \in DOMAIN Listens : from' = [from EXCEPT ![c] = k]
    /\ lh' = [lh EXCEPT ![c] = "opening"]
    /\ UNCHANGED <<cvars, up, bound, running, opened, lfin, rvars>>

\* Mutant: one stream too many.
OpenStripeTooMany(c) ==
    /\ lh[c] = "opening" /\ up /\ Tag(c) \notin LongNames
    /\ opened' = [opened EXCEPT ![c] = @ + 1]
    /\ lh' = [lh EXCEPT ![c] = IF opened[c] = setup.n THEN "pumping" ELSE "opening"]
    /\ UNCHANGED <<cvars, up, bound, running, from, lfin, rvars>>

\* handle opens the next stream and writes its header; with the last one the
\* pump starts.
OpenStripe(c) ==
    /\ lh[c] = "opening" /\ up /\ Tag(c) \notin LongNames
    /\ opened' = [opened EXCEPT ![c] = @ + 1]
    /\ lh' = [lh EXCEPT ![c] = IF opened[c] + 1 = setup.n THEN "pumping" ELSE "opening"]
    /\ UNCHANGED <<cvars, up, bound, running, from, lfin, rvars>>

\* The client's connection and all its streams are closed: because OpenStream
\* or the header failed, or by the pump's closeAll.
CloseClient(c) ==
    /\ lh' = [lh EXCEPT ![c] = "closed"]
    /\ lfin' = [lfin EXCEPT ![c] = TRUE]
    /\ UNCHANGED <<cvars, up, bound, running, from, opened, rvars>>

\* The session is gone, or the name is too long for a header (the stream, closed
\* without one, is dropped by the router like one whose header is late).
OpenStripeFails(c) ==
    /\ lh[c] = "opening" /\ (~up \/ Tag(c) \in LongNames)
    /\ CloseClient(c)

ListenPumpEnds(c) ==
    /\ lh[c] = "pumping"
    /\ ~up \/ rfin[c] = Stripes
    /\ CloseClient(c)

\* The client disconnects (external).
ClientCloses(c) ==
    /\ lh[c] = "pumping"
    /\ CloseClient(c)

\* TCPListener.Close, when runOnce returns: because the session has ended, or on
\* a signal, before the session is closed.
CloseListener ==
    /\ bound
    /\ bound' = FALSE
    /\ UNCHANGED <<cvars, up, running, lvars, rvars>>

-----------------------------------------------------------------------------
(* AcceptRouter *)

\* Run accepts a stream and starts a goroutine for it.  The first data of the
\* stream has arrived, not necessarily its header.
AcceptStream(c, i) ==
    /\ running /\ up
    /\ i <= opened[c] /\ rh[c][i] = "none"
    /\ rh' = [rh EXCEPT ![c][i] = "header"]
    /\ UNCHANGED <<cvars, up, bound, running, lvars, group, ready, port, rfin>>

\* AcceptStream fails and Run returns.
RunReturns ==
    /\ running /\ ~up
    /\ running' = FALSE
    /\ UNCHANGED <<cvars, up, bound, lvars, rvars>>

\* Mutant: handle returns without s.Close.
ForgetStream(c, i) ==
    /\ rh' = [rh EXCEPT ![c][i] = "done"]
    /\ UNCHANGED <<cvars, up, bound, running, lvars, group, ready, port, rfin>>

\* handle closes a stream it cannot use: the header does not come within 15 s
\* or the session is gone, or the tag is not in dials.
DropStream(c, i) ==
    /\ rh' = [rh EXCEPT ![c][i] = "done"]
    /\ rfin' = [rfin EXCEPT ![c] = @ \cup {i}]
    /\ UNCHANGED <<cvars, up, bound, running, lvars, group, ready, port>>

HeaderFails(c, i) ==
    /\ rh[c][i] = "header"
    /\ DropStream(c, i)

UnknownTag(c, i) ==
    /\ rh[c][i] = "header" /\ up /\ Tag(c) \notin DOMAIN dials
    /\ DropStream(c, i)

\* Mutant: complete with one stripe missing.
AlmostComplete(stripes) == \E i \in Stripes : Stripes \ {i} \subseteq stripes

\* allReady: every stripe of the connection has joined.
Complete(stripes) == stripes = Stripes

\* Under groupsMu the stream joins its group.  The one that completes the group
\* takes it out of the map, releases the others and goes on to dial.
Join(c, i) ==
    LET joined == group[c] \cup {i} IN
    /\ rh[c][i] = "header" /\ up /\ Tag(c) \in DOMAIN dials
    /\ IF Complete(joined)
         THEN /\ group' = [group EXCEPT ![c] = {}]
              /\ ready' = [ready EXCEPT ![c] = TRUE]
              /\ port' = [port EXCEPT ![c] = dials[Tag(c)]]
              /\ rh' = [rh EXCEPT ![c][i] = "dial"]
         ELSE /\ group' = [group EXCEPT ![c] = joined]
              /\ rh' = [rh EXCEPT ![c][i] = "wait"]
              /\ UNCHANGED <<ready, port>>
    /\ UNCHANGED <<cvars, up, bound, running, lvars, rfin>>

\* A handle that waited for its siblings returns, leaving its stream to the pump.
Released(c, i) ==
    /\ rh[c][i] = "wait" /\ ready[c]
    /\ rh' = [rh EXCEPT ![c][i] = "done"]
    /\ UNCHANGED <<cvars, up, bound, running, lvars, group, ready, port, rfin>>

\* DialTimeout connects to the local port and pumpStripedReceiver starts.
DialOK(c, i) ==
    /\ rh[c][i] = "dial"
    /\ rh' = [rh EXCEPT ![c][i] = "pumping"]
    /\ UNCHANGED <<cvars, up, bound, running, lvars, group, ready, port, rfin>>

\* The owner of the group closes all its streams, and the service's connection
\* if there is one.
CloseService(c, i) ==
    /\ rh' = [rh EXCEPT ![c][i] = "done"]
    /\ rfin' = [rfin EXCEPT ![c] = Stripes]
    /\ UNCHANGED <<cvars, up, bound, running, lvars, group, ready, port>>

DialFails(c, i) ==
    /\ rh[c][i] = "dial"
    /\ CloseService(c, i)

\* Mutant: the pump is ended by its listener only.
RouterPumpOutlivesSession(c, i) ==
    /\ rh[c][i] = "pumping"
    /\ lfin[c] /\ up
    /\ CloseService(c, i)

RouterPumpEnds(c, i) ==
    /\ rh[c][i] = "pumping"
    /\ ~up \/ lfin[c]
    /\ CloseService(c, i)

\* The service disconnects (external).
ServiceCloses(c, i) ==
    /\ rh[c][i] = "pumping"
    /\ CloseService(c, i)

\* The session ends (external).
SessionDies ==
    /\ up
    /\ up' = FALSE
    /\ UNCHANGED <<cvars, bound, running, lvars, rvars>>

-----------------------------------------------------------------------------

ListenStep(c) == OpenStripe(c) \/ OpenStripeFails(c) \/ ListenPumpEnds(c)

RouterStep(c, i) ==
    \/ AcceptStream(c, i) \/ UnknownTag(c, i) \/ Join(c, i) \/ Released(c, i)
    \/ HeaderFails(c, i) \/ DialOK(c, i) \/ DialFails(c, i) \/ RouterPumpEnds(c, i)

Next ==
    \/ \E c \in Conns : AcceptTCP(c) \/ ListenStep(c) \/ ClientCloses(c)
    \/ \E c \in Conns : \E i \in Stripes : RouterStep(c, i) \/ ServiceCloses(c, i)
    \/ CloseListener \/ RunReturns \/ SessionDies

Spec == Init /\ [][Next]_vars

AllStripes == UNION {1..s.n : s \in Setups}

\* The goroutines run.  The session need not die and clients and services need not
\* close, but a pump ends only because its writes return (StripedPump): they read or close.
Fairness ==
    /\ \A c \in Conns : WF_vars(ListenStep(c))
    /\ \A c \in Conns, i \in AllStripes : WF_vars(i \in Stripes /\ RouterStep(c, i))
    /\ WF_vars(RunReturns) /\ WF_vars(~up /\ CloseListener)

FairSpec == Spec /\ Fairness

-----------------------------------------------------------------------------
(* Properties *)

\* No connection has more than numStripes streams and no group a stripe out of
\* range.
TypeOK ==
    /\ setup \in Setups
    /\ from \in [Conns -> 0..Len(Listens)] /\ port \in [Conns -> Nat]
    /\ up \in BOOLEAN /\ bound \in BOOLEAN /\ running \in BOOLEAN
    /\ lh \in [Conns -> {"none", "opening", "pumping", "closed"}]
    /\ opened \in [Conns -> 0..setup.n]
    /\ lfin \in [Conns -> BOOLEAN]
    /\ rh \in [Conns -> [Stripes -> {"none", "header", "wait", "dial", "pumping", "done"}]]
    /\ group \in [Conns -> SUBSET Stripes]
    /\ ready \in [Conns -> BOOLEAN]
    /\ rfin \in [Conns -> SUBSET Stripes]

Owns(c, i) == rh[c][i] \in {"dial", "pumping"}

\* The local port is dialed once per connection, by one goroutine, and the pump
\* it starts has every stripe: each has joined and none was dropped or is still
\* in the map (AcceptRouter.handle, the "race in acceptRouter session-id pairing"
\* forward.go suspects).
OneCompleteDial ==
    \A c \in Conns : \A i \in Stripes : Owns(c, i) =>
        /\ \A j \in Stripes : j # i => rh[c][j] \in {"wait", "done"} /\ ~Owns(c, j)
        /\ group[c] = {} /\ rfin[c] = {}

\* No client is left hanging: in the end every one that was accepted is connected
\* to a service or disconnected, and stays so.  Names that are too long or that
\* the other peer's file does not have, late headers, failed dials, services that
\* disconnect and a dying session all reach it.  This is about the build's one
\* stripe: with more, the siblings of a dropped stripe wait for ever.  Outside the
\* model: OpenStreamSync waits, without a timeout, while MaxIncomingStreams (1024)
\* streams are open, and a client whose stream it waits for hangs as long.
ClientsResolved ==
    setup.n = 1 =>
        <>[](\A c \in Conns : \/ lh[c] \in {"none", "closed"}
                              \/ lh[c] = "pumping" /\ rh[c][1] = "pumping")

\* Between peers with the same file a client reaches the service of the listener
\* it connected to: the port the accepting peer's dial entry of that name has, or
\* else the remote_port of the listener.  That validate takes no name twice and
\* that runOnce keeps the dial entries makes it so.
ConfiguredService ==
    \A c \in Conns : port[c] # 0 /\ setup.mine = setup.theirs =>
        LET spec == Listens[from[c]]
            dial == setup.mine.peers[Other(setup.role)].dial
        IN  /\ \A i \in DOMAIN dial : dial[i].name = spec.name => port[c] = dial[i].port
            /\ spec.name \notin NamesOf(dial) => port[c] = spec.remote

\* When the session is gone, nothing of it stays connected: every client and
\* every service gets its connection closed, wherever the stripes of the
\* connection were, and Run returns, so that runReconnectLoop starts afresh.
DeathCutsAll ==
    ~up ~> /\ \A c \in Conns : lh[c] \in {"none", "closed"}
           /\ \A c \in Conns, i \in Stripes : ~Owns(c, i)
           /\ ~running

=============================================================================
