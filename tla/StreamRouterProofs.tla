------------------------- MODULE StreamRouterProofs -------------------------
(***************************************************************************)
(* TLAPS proofs that AcceptRouter dials once per connection, with all its  *)
(* stripes, and to the port the configuration says, for any number of      *)
(* stripes and connections and any files.                                  *)
(***************************************************************************)
EXTENDS StreamRouter, TLAPS

\* The types of the router's own state.
RouterTypes ==
    /\ rh \in [Conns -> [Stripes -> {"none", "header", "wait", "dial", "pumping", "done"}]]
    /\ group \in [Conns -> SUBSET Stripes]
    /\ ready \in [Conns -> BOOLEAN]
    /\ rfin \in [Conns -> SUBSET Stripes]

\* A group that is not complete: nobody owns it, its members wait, and a stream
\* that was dropped is not a member.
Gathering(c) ==
    /\ \A i \in Stripes : rh[c][i] \in {"none", "header", "wait", "done"}
    /\ \A i \in group[c] : rh[c][i] = "wait"
    /\ \A i \in rfin[c] : rh[c][i] = "done"

\* One that is: no stream is still to come, and one handle at most owns it, with
\* all its streams open.
Gathered(c) ==
    /\ group[c] = {}
    /\ \A i \in Stripes : rh[c][i] \in {"wait", "dial", "pumping", "done"}
    /\ \A i, j \in Stripes : Owns(c, i) /\ Owns(c, j) => i = j
    /\ \A i \in Stripes : Owns(c, i) => rfin[c] = {}

GroupInv == \A c \in Conns : IF ready[c] THEN Gathered(c) ELSE Gathering(c)

RouterInv == RouterTypes /\ GroupInv

-----------------------------------------------------------------------------

\* When the router starts, no stream has come.
LEMMA InitRouterInv == Init => RouterInv
  BY DEF Init, RouterInv, RouterTypes, GroupInv, Gathering

\* The setup and the dial map never change.
LEMMA FilesFixed == [Next]_vars => setup' = setup /\ dials' = dials
<1> SUFFICES ASSUME [Next]_vars PROVE setup' = setup /\ dials' = dials
    OBVIOUS
<1> USE DEF cvars
<1>1. ASSUME NEW c \in Conns, AcceptTCP(c) \/ ListenStep(c) \/ ClientCloses(c)
      PROVE  setup' = setup /\ dials' = dials
    BY <1>1 DEF AcceptTCP, ListenStep, OpenStripe, OpenStripeFails, ListenPumpEnds,
                CloseClient, ClientCloses
<1>2. ASSUME NEW c \in Conns, NEW i \in Stripes, RouterStep(c, i) \/ ServiceCloses(c, i)
      PROVE  setup' = setup /\ dials' = dials
  <2>1. CASE AcceptStream(c, i) \/ UnknownTag(c, i) \/ HeaderFails(c, i) \/ Join(c, i)
    BY <2>1 DEF AcceptStream, UnknownTag, HeaderFails, DropStream, Join
  <2>2. CASE Released(c, i) \/ DialOK(c, i) \/ DialFails(c, i) \/ RouterPumpEnds(c, i)
    BY <2>2 DEF Released, DialOK, DialFails, RouterPumpEnds, CloseService
  <2>3. CASE ServiceCloses(c, i)
    BY <2>3 DEF ServiceCloses, CloseService
  <2> QED
    BY <1>2, <2>1, <2>2, <2>3 DEF RouterStep
<1>3. CASE CloseListener \/ RunReturns \/ SessionDies
    BY <1>3 DEF CloseListener, RunReturns, SessionDies
<1>4. CASE UNCHANGED vars
    BY <1>4 DEF vars
<1> QED
    BY <1>1, <1>2, <1>3, <1>4 DEF Next

\* Nor does the number of stripes.
LEMMA SetupFixed == [Next]_vars => Stripes' = Stripes
  BY FilesFixed DEF Stripes

\* A step that leaves the router's state alone keeps the invariant.
LEMMA ElsewhereKeeps ==
    ASSUME RouterInv, Stripes' = Stripes, UNCHANGED <<rh, group, ready, rfin>>
    PROVE  RouterInv'
  BY DEF RouterInv, RouterTypes, GroupInv, Gathering, Gathered, Owns

\* A step of connection c's handlers keeps the invariant if it keeps it for c.
LEMMA OneGroup ==
    ASSUME RouterInv, Stripes' = Stripes, RouterTypes', NEW c \in Conns,
           \A d \in Conns : d # c =>
               /\ rh'[d] = rh[d] /\ group'[d] = group[d]
               /\ ready'[d] = ready[d] /\ rfin'[d] = rfin[d],
           IF ready'[c] THEN Gathered(c)' ELSE Gathering(c)'
    PROVE  RouterInv'
<1>1. ASSUME NEW d \in Conns, d # c
      PROVE  IF ready'[d] THEN Gathered(d)' ELSE Gathering(d)'
    BY <1>1 DEF RouterInv, GroupInv, Gathering, Gathered, Owns
<1> QED
    BY <1>1 DEF RouterInv, GroupInv

\* A handle that takes a stream, or drops it before it has joined.
LEMMA EarlyKeeps ==
    ASSUME RouterInv, Stripes' = Stripes, NEW c \in Conns, NEW i \in Stripes,
           AcceptStream(c, i) \/ UnknownTag(c, i) \/ HeaderFails(c, i)
    PROVE  RouterInv'
<1> USE DEF RouterInv, RouterTypes
<1>1. ~ready[c]
    BY DEF GroupInv, Gathered, AcceptStream, UnknownTag, HeaderFails
<1>2. Gathering(c)
    BY <1>1 DEF GroupInv
<1>3. CASE AcceptStream(c, i)
  <2>1. RouterTypes' /\ ~ready'[c]
    BY <1>1, <1>3 DEF AcceptStream
  <2>2. Gathering(c)'
    BY <1>2, <1>3 DEF Gathering, AcceptStream
  <2> QED
    BY <1>3, <2>1, <2>2, OneGroup DEF AcceptStream
<1>4. CASE UnknownTag(c, i) \/ HeaderFails(c, i)
  <2>1. DropStream(c, i) /\ rh[c][i] = "header"
    BY <1>4 DEF UnknownTag, HeaderFails
  <2>2. RouterTypes' /\ ~ready'[c]
    BY <1>1, <2>1 DEF DropStream
  <2>3. Gathering(c)'
    BY <1>2, <2>1 DEF Gathering, DropStream
  <2> QED
    BY <2>1, <2>2, <2>3, OneGroup DEF DropStream
<1> QED
    BY <1>3, <1>4

\* A stream that joins: its group goes on gathering, or is complete and its own.
LEMMA JoinKeeps ==
    ASSUME RouterInv, Stripes' = Stripes, NEW c \in Conns, NEW i \in Stripes, Join(c, i)
    PROVE  RouterInv'
<1> USE DEF RouterInv, RouterTypes
<1>1. ~ready[c] /\ rh[c][i] = "header"
    BY DEF GroupInv, Gathered, Join
<1>2. Gathering(c)
    BY <1>1 DEF GroupInv
<1>3. CASE Complete(group[c] \cup {i})
  <2>1. \A j \in Stripes : j # i => rh[c][j] = "wait"
    BY <1>2, <1>3 DEF Complete, Gathering
  <2>2. rfin[c] = {}
    BY <1>1, <1>2, <2>1 DEF Gathering
  <2>3. /\ rh' = [rh EXCEPT ![c][i] = "dial"] /\ group' = [group EXCEPT ![c] = {}]
        /\ ready' = [ready EXCEPT ![c] = TRUE] /\ rfin' = rfin
    BY <1>3 DEF Join
  <2>4. Gathered(c)'
    BY <2>1, <2>2, <2>3 DEF Gathered, Owns
  <2>5. RouterTypes'
    BY <2>3
  <2> QED
    BY <2>3, <2>4, <2>5, OneGroup
<1>4. CASE ~Complete(group[c] \cup {i})
  <2>1. /\ rh' = [rh EXCEPT ![c][i] = "wait"]
        /\ group' = [group EXCEPT ![c] = group[c] \cup {i}]
        /\ ready' = ready /\ rfin' = rfin
    BY <1>4 DEF Join
  <2>2. Gathering(c)'
    BY <1>1, <1>2, <2>1 DEF Gathering
  <2>3. RouterTypes'
    BY <2>1
  <2> QED
    BY <1>1, <2>1, <2>2, <2>3, OneGroup
<1> QED
    BY <1>3, <1>4

\* What the handles of a complete group do: return, dial, pump and close.
LEMMA LateKeeps ==
    ASSUME RouterInv, Stripes' = Stripes, NEW c \in Conns, NEW i \in Stripes,
           \/ Released(c, i) \/ DialOK(c, i) \/ DialFails(c, i)
           \/ RouterPumpEnds(c, i) \/ ServiceCloses(c, i)
    PROVE  RouterInv'
<1> USE DEF RouterInv, RouterTypes
<1>1. ready[c]
    BY DEF GroupInv, Gathering, Released, DialOK, DialFails, RouterPumpEnds, ServiceCloses
<1>2. Gathered(c)
    BY <1>1 DEF GroupInv
<1>3. CASE Released(c, i)
  <2>1. RouterTypes' /\ ready'[c]
    BY <1>1, <1>3 DEF Released
  <2>2. Gathered(c)'
    BY <1>2, <1>3 DEF Gathered, Owns, Released
  <2> QED
    BY <1>3, <2>1, <2>2, OneGroup DEF Released
<1>4. CASE DialOK(c, i)
  <2>1. RouterTypes' /\ ready'[c]
    BY <1>1, <1>4 DEF DialOK
  <2>2. Gathered(c)'
    BY <1>2, <1>4 DEF Gathered, Owns, DialOK
  <2> QED
    BY <1>4, <2>1, <2>2, OneGroup DEF DialOK
<1>5. CASE DialFails(c, i) \/ RouterPumpEnds(c, i) \/ ServiceCloses(c, i)
  <2>1. CloseService(c, i) /\ Owns(c, i)
    BY <1>5 DEF DialFails, RouterPumpEnds, ServiceCloses, Owns
  <2>2. RouterTypes' /\ ready'[c]
    BY <1>1, <2>1 DEF CloseService
  <2>3. \A j \in Stripes : ~Owns(c, j)'
    BY <1>2, <2>1 DEF Gathered, Owns, CloseService
  <2>4. Gathered(c)'
    BY <1>2, <2>1, <2>3 DEF Gathered, CloseService
  <2> QED
    BY <2>1, <2>2, <2>4, OneGroup DEF CloseService
<1> QED
    BY <1>3, <1>4, <1>5

\* Every step of the listener, the router and their surroundings keeps the
\* invariant.
LEMMA NextRouterInv == RouterInv /\ [Next]_vars => RouterInv'
<1> SUFFICES ASSUME RouterInv, [Next]_vars PROVE RouterInv'
    OBVIOUS
<1>1. Stripes' = Stripes
    BY SetupFixed
<1>2. ASSUME NEW c \in Conns, AcceptTCP(c) \/ ListenStep(c) \/ ClientCloses(c)
      PROVE  RouterInv'
  <2>1. UNCHANGED <<rh, group, ready, rfin>>
    BY <1>2 DEF AcceptTCP, ListenStep, OpenStripe, OpenStripeFails, ListenPumpEnds,
                CloseClient, ClientCloses, rvars
  <2> QED
    BY <1>1, <2>1, ElsewhereKeeps
<1>3. ASSUME NEW c \in Conns, NEW i \in Stripes, RouterStep(c, i) \/ ServiceCloses(c, i)
      PROVE  RouterInv'
    BY <1>1, <1>3, EarlyKeeps, JoinKeeps, LateKeeps DEF RouterStep
<1>4. CASE CloseListener \/ RunReturns \/ SessionDies \/ UNCHANGED vars
  <2>1. UNCHANGED <<rh, group, ready, rfin>>
    BY <1>4 DEF CloseListener, RunReturns, SessionDies, vars, rvars
  <2> QED
    BY <1>1, <2>1, ElsewhereKeeps
<1> QED
    BY <1>2, <1>3, <1>4 DEF Next

-----------------------------------------------------------------------------
(* Theorems *)

\* Whatever the number of stripes and the order, loss or delay of their headers,
\* the local port is dialed by one handle, after every stripe has joined and with
\* none of them closed (AcceptRouter.handle under groupsMu).
THEOREM DialsOnce == Spec => []OneCompleteDial
<1>1. Init => RouterInv
    BY InitRouterInv
<1>2. RouterInv /\ [Next]_vars => RouterInv'
    BY NextRouterInv
<1>3. RouterInv => OneCompleteDial
  <2> SUFFICES ASSUME RouterInv, NEW c \in Conns, NEW i \in Stripes, Owns(c, i)
               PROVE  /\ \A j \in Stripes : j # i => rh[c][j] \in {"wait", "done"} /\ ~Owns(c, j)
                      /\ group[c] = {} /\ rfin[c] = {}
    BY DEF OneCompleteDial
  <2>1. Gathered(c)
    BY DEF RouterInv, GroupInv, Gathering, Owns
  <2> QED
    BY <2>1 DEF Gathered, Owns
<1> QED
    BY <1>1, <1>2, <1>3, PTL DEF Spec

-----------------------------------------------------------------------------
(* Which port is dialed *)

\* The setup is one the program starts with, and the dial map its.
SetupInv ==
    /\ setup \in Setups /\ Valid(setup.mine) /\ Valid(setup.theirs)
    /\ dials = DialMap(setup.theirs, Other(setup.role))

\* A connection knows its listener from the start, opens a stream at a time, and is
\* dialed for by its tag.
ListenInv ==
    /\ up \in BOOLEAN /\ bound \in BOOLEAN /\ running \in BOOLEAN
    /\ from \in [Conns -> 0..Len(Listens)] /\ port \in [Conns -> Nat]
    /\ lh \in [Conns -> {"none", "opening", "pumping", "closed"}]
    /\ opened \in [Conns -> 0..setup.n] /\ lfin \in [Conns -> BOOLEAN]
    /\ \A c \in Conns :
        /\ lh[c] = "none" => opened[c] = 0
        /\ lh[c] = "opening" => opened[c] < setup.n
        /\ lh[c] # "none" => from[c] \in DOMAIN Listens
        /\ \A i \in Stripes : rh[c][i] # "none" => lh[c] # "none"
        /\ port[c] # 0 => /\ lh[c] # "none" /\ Tag(c) \in DOMAIN dials
                          /\ port[c] = dials[Tag(c)]

ServiceInv == RouterInv /\ SetupInv /\ ListenInv

\* In a file that validate lets through, a name stands for one entry.
LEMMA OneEntry ==
    ASSUME NEW specs, IsInjective([i \in DOMAIN specs |-> specs[i].name]),
           NEW i \in DOMAIN specs, DOMAIN specs \subseteq Nat
    PROVE  FirstOf(specs, specs[i].name) = i /\ LastOf(specs, specs[i].name) = i
<1>1. \A j \in DOMAIN specs : specs[j].name = specs[i].name => j = i
    BY DEF IsInjective
<1>2. i <= i
    OBVIOUS
<1> QED
    BY <1>1, <1>2 DEF FirstOf, LastOf

\* An entry of a list is of its kind.
LEMMA EntryType == ASSUME NEW S, NEW s \in Seq(S), NEW i \in DOMAIN s PROVE s[i] \in S
  OBVIOUS

\* What a setup is made of.
LEMMA SetupShape ==
    ASSUME SetupInv
    PROVE  /\ setup.n \in Nat \ {0} /\ setup.role \in RoleNames
           /\ setup.mine.peers \in [RoleNames -> Half]
           /\ setup.theirs.peers \in [RoleNames -> Half]
           /\ Other(setup.role) \in RoleNames /\ Other(Other(setup.role)) = setup.role
           /\ Listens \in Seq([name : STRING, remote : Nat])
<1>1. setup \in Setup
    BY RouterAssumption DEF SetupInv
<1>2. /\ setup.n \in Nat \ {0} /\ setup.role \in RoleNames
      /\ setup.mine.peers \in [RoleNames -> Half] /\ setup.theirs.peers \in [RoleNames -> Half]
    BY <1>1 DEF Setup
<1>3. Other(setup.role) \in RoleNames /\ Other(Other(setup.role)) = setup.role
    BY <1>2 DEF RoleNames, Other
<1>4. setup.mine.peers[setup.role] \in Half
    BY <1>2
<1> QED
    BY <1>2, <1>3, <1>4 DEF Half, Listens

\* What the dial map has for a name: the port of the own dial entry, or that the
\* other peer's listener asks for.
LEMMA DialedPort ==
    ASSUME NEW cfg, Valid(cfg), cfg.peers \in [RoleNames -> Half], NEW role \in RoleNames,
           Other(role) \in RoleNames
    PROVE  LET me == cfg.peers[role]
               other == cfg.peers[Other(role)]
               map == DialMap(cfg, role)
           IN  /\ DOMAIN map = NamesOf(me.dial) \cup NamesOf(other.listen)
               /\ \A name \in DOMAIN map : map[name] \in Nat
               /\ \A i \in DOMAIN me.dial : map[me.dial[i].name] = me.dial[i].port
               /\ \A i \in DOMAIN other.listen :
                    other.listen[i].name \notin NamesOf(me.dial) =>
                        map[other.listen[i].name] = other.listen[i].remote
<1> DEFINE me == cfg.peers[role]
           other == cfg.peers[Other(role)]
           map == DialMap(cfg, role)
<1>1. me \in Half /\ other \in Half
    OBVIOUS
<1>2. /\ me.dial \in Seq([name : STRING, port : Nat]) /\ DOMAIN me.dial \subseteq Nat
      /\ other.listen \in Seq([name : STRING, remote : Nat]) /\ DOMAIN other.listen \subseteq Nat
    BY <1>1 DEF Half
<1>3. /\ IsInjective([i \in DOMAIN me.dial |-> me.dial[i].name])
      /\ IsInjective([i \in DOMAIN other.listen |-> other.listen[i].name])
    BY DEF Valid, UniqueNames
<1>4. map = [name \in NamesOf(me.dial) \cup NamesOf(other.listen) |->
                IF name \in NamesOf(me.dial)
                  THEN me.dial[LastOf(me.dial, name)].port
                  ELSE other.listen[FirstOf(other.listen, name)].remote]
    BY DEF DialMap
<1> HIDE DEF me, other, map
<1>5. ASSUME NEW i \in DOMAIN me.dial
      PROVE  /\ map[me.dial[i].name] = me.dial[i].port /\ me.dial[i].port \in Nat
  <2>1. LastOf(me.dial, me.dial[i].name) = i
    BY <1>2, <1>3, OneEntry
  <2>2. me.dial[i].name \in NamesOf(me.dial)
    BY DEF NamesOf
  <2>3. me.dial[i] \in [name : STRING, port : Nat]
    BY <1>2, EntryType
  <2> QED
    BY <1>4, <2>1, <2>2, <2>3
<1>6. ASSUME NEW i \in DOMAIN other.listen, other.listen[i].name \notin NamesOf(me.dial)
      PROVE  /\ map[other.listen[i].name] = other.listen[i].remote
             /\ other.listen[i].remote \in Nat
  <2>1. FirstOf(other.listen, other.listen[i].name) = i
    BY <1>2, <1>3, OneEntry
  <2>2. other.listen[i].name \in NamesOf(other.listen)
    BY DEF NamesOf
  <2>3. other.listen[i] \in [name : STRING, remote : Nat]
    BY <1>2, EntryType
  <2> QED
    BY <1>4, <1>6, <2>1, <2>2, <2>3
<1>7. ASSUME NEW name \in DOMAIN map PROVE map[name] \in Nat
  <2>1. CASE name \in NamesOf(me.dial)
    BY <1>5, <2>1 DEF NamesOf
  <2>2. CASE name \notin NamesOf(me.dial)
    <3>1. name \in NamesOf(other.listen)
      BY <1>4, <1>7, <2>2
    <3> QED
      BY <1>6, <2>2, <3>1 DEF NamesOf
  <2> QED
    BY <2>1, <2>2
<1> QED
  <2>1. DOMAIN map = NamesOf(me.dial) \cup NamesOf(other.listen)
    BY <1>4
  <2> QED
    BY <1>5, <1>6, <1>7, <2>1 DEF me, other, map

\* A router that starts with a file that Load accepts satisfies the invariant.
LEMMA InitServiceInv == Init => ServiceInv
<1> SUFFICES ASSUME Init PROVE ServiceInv
    OBVIOUS
<1>1. SetupInv
    BY DEF Init, SetupInv
<1>2. setup.n \in Nat \ {0} /\ Len(Listens) \in Nat
    BY <1>1, SetupShape
<1>3. ListenInv
    BY <1>2 DEF Init, ListenInv, Stripes
<1> QED
    BY <1>1, <1>3, InitRouterInv DEF ServiceInv

\* What no step changes.
LEMMA SetupKept == SetupInv /\ [Next]_vars => SetupInv' /\ setup' = setup /\ dials' = dials
<1> SUFFICES ASSUME SetupInv, [Next]_vars PROVE SetupInv' /\ setup' = setup /\ dials' = dials
    OBVIOUS
<1>1. setup' = setup /\ dials' = dials
    BY FilesFixed
<1> QED
    BY <1>1 DEF SetupInv

\* The steps of a listener.
LEMMA ListenKeeps ==
    ASSUME ServiceInv, setup' = setup, dials' = dials, NEW c \in Conns,
           AcceptTCP(c) \/ ListenStep(c) \/ ClientCloses(c)
    PROVE  ListenInv'
<1> USE DEF ServiceInv, ListenInv
<1>1. /\ Listens' = Listens /\ Stripes' = Stripes
      /\ setup.n \in Nat \ {0} /\ Len(Listens) \in Nat /\ DOMAIN Listens = 1..Len(Listens)
    BY SetupShape DEF Listens, Stripes
<1>2. CASE AcceptTCP(c)
  <2>1. PICK k \in DOMAIN Listens : from' = [from EXCEPT ![c] = k]
    BY <1>2 DEF AcceptTCP
  <2>2. /\ lh[c] = "none" /\ lh' = [lh EXCEPT ![c] = "opening"]
        /\ UNCHANGED <<up, bound, running, opened, lfin, rh, port>>
    BY <1>2 DEF AcceptTCP, rvars
  <2>3. from' \in [Conns -> 0..Len(Listens)]
    BY <1>1, <2>1
  <2>4. ASSUME NEW d \in Conns, port[d] # 0 PROVE Tag(d)' = Tag(d) /\ d # c
    BY <1>1, <2>1, <2>2, <2>4 DEF Tag
  <2> QED
    BY <1>1, <2>1, <2>2, <2>3, <2>4
<1>3. CASE OpenStripe(c)
  <2>1. /\ lh[c] = "opening"
        /\ opened' = [opened EXCEPT ![c] = @ + 1]
        /\ lh' = [lh EXCEPT ![c] = IF opened[c] + 1 = setup.n THEN "pumping" ELSE "opening"]
        /\ UNCHANGED <<up, bound, running, from, lfin, rh, port>>
    BY <1>3 DEF OpenStripe, rvars
  <2>2. opened' \in [Conns -> 0..setup.n]
    BY <1>1, <2>1
  <2>3. \A d \in Conns : Tag(d)' = Tag(d)
    BY <1>1, <2>1 DEF Tag
  <2> QED
    BY <1>1, <2>1, <2>2, <2>3
<1>4. CASE OpenStripeFails(c) \/ ListenPumpEnds(c) \/ ClientCloses(c)
  <2>1. /\ lh[c] # "none"
        /\ lh' = [lh EXCEPT ![c] = "closed"] /\ lfin' = [lfin EXCEPT ![c] = TRUE]
        /\ UNCHANGED <<up, bound, running, from, opened, rh, port>>
    BY <1>4 DEF OpenStripeFails, ListenPumpEnds, ClientCloses, CloseClient, rvars
  <2>2. \A d \in Conns : Tag(d)' = Tag(d)
    BY <1>1, <2>1 DEF Tag
  <2> QED
    BY <1>1, <2>1, <2>2
<1> QED
    BY <1>2, <1>3, <1>4 DEF ListenStep

\* The steps of the router: it dials what its map has for the tag.
LEMMA RouteKeeps ==
    ASSUME ServiceInv, setup' = setup, dials' = dials, NEW c \in Conns, NEW i \in Stripes,
           RouterStep(c, i) \/ ServiceCloses(c, i)
    PROVE  ListenInv'
<1> USE DEF ServiceInv, ListenInv
<1>1. /\ Listens' = Listens /\ Stripes' = Stripes /\ setup.n \in Nat \ {0}
      /\ rh \in [Conns -> [Stripes -> {"none", "header", "wait", "dial", "pumping", "done"}]]
      /\ Stripes = 1..setup.n
    BY SetupShape DEF Listens, Stripes, RouterInv, RouterTypes
<1>2. UNCHANGED <<up, bound, running, from, lh, opened, lfin>> /\ \A d \in Conns : Tag(d)' = Tag(d)
    BY <1>1 DEF RouterStep, AcceptStream, UnknownTag, HeaderFails, DropStream, Join, Released,
           DialOK, DialFails, RouterPumpEnds, CloseService, ServiceCloses, lvars, Tag
<1>3. CASE AcceptStream(c, i)
  <2>1. i <= opened[c] /\ rh' = [rh EXCEPT ![c][i] = "header"] /\ port' = port
    BY <1>3 DEF AcceptStream
  <2>2. lh[c] # "none"
    BY <1>1, <2>1
  <2> QED
    BY <1>1, <1>2, <2>1, <2>2
<1>4. CASE Join(c, i)
  <2>1. rh[c][i] = "header" /\ Tag(c) \in DOMAIN dials
    BY <1>4 DEF Join
  <2>2. \/ port' = port
        \/ port' = [port EXCEPT ![c] = dials[Tag(c)]]
    BY <1>4 DEF Join
  <2>3. rh' = [rh EXCEPT ![c][i] = "dial"] \/ rh' = [rh EXCEPT ![c][i] = "wait"]
    BY <1>4 DEF Join
  <2>4. lh[c] # "none" /\ dials[Tag(c)] \in Nat
    BY <2>1, SetupShape, DialedPort DEF SetupInv
  <2>5. port' \in [Conns -> Nat]
    BY <2>2, <2>4
  <2>6. ASSUME NEW d \in Conns, NEW j \in Stripes, rh'[d][j] # "none" PROVE lh[d] # "none"
    BY <1>1, <2>3, <2>4, <2>6
  <2>7. ASSUME NEW d \in Conns, port'[d] # 0
        PROVE  lh[d] # "none" /\ Tag(d) \in DOMAIN dials /\ port'[d] = dials[Tag(d)]
    BY <2>1, <2>2, <2>4, <2>7
  <2> QED
    BY <1>1, <1>2, <2>5, <2>6, <2>7
<1>5. CASE \/ UnknownTag(c, i) \/ HeaderFails(c, i) \/ Released(c, i) \/ DialOK(c, i)
           \/ DialFails(c, i) \/ RouterPumpEnds(c, i) \/ ServiceCloses(c, i)
  <2>1. /\ rh[c][i] # "none" /\ port' = port
        /\ rh' = [rh EXCEPT ![c][i] = "done"] \/ rh' = [rh EXCEPT ![c][i] = "pumping"]
    <3>1. CASE UnknownTag(c, i) \/ HeaderFails(c, i) \/ Released(c, i) \/ DialOK(c, i)
      BY <3>1 DEF UnknownTag, HeaderFails, DropStream, Released, DialOK
    <3>2. CASE DialFails(c, i) \/ RouterPumpEnds(c, i) \/ ServiceCloses(c, i)
      BY <3>2 DEF DialFails, RouterPumpEnds, CloseService, ServiceCloses
    <3> QED
      BY <1>5, <3>1, <3>2
  <2>2. ASSUME NEW d \in Conns, NEW j \in Stripes, rh'[d][j] # "none" PROVE lh[d] # "none"
    <3>1. ASSUME NEW v, rh' = [rh EXCEPT ![c][i] = v], d # c \/ j # i PROVE rh'[d][j] = rh[d][j]
      BY <1>1, <3>1
    <3>2. CASE d = c /\ j = i
      BY <2>1, <3>2
    <3>3. CASE d # c \/ j # i
      <4>1. rh'[d][j] = rh[d][j]
        BY <2>1, <3>1, <3>3
      <4> QED
        BY <2>2, <4>1
    <3> QED
      BY <3>2, <3>3
  <2> QED
    BY <1>1, <1>2, <2>1, <2>2
<1> QED
    BY <1>3, <1>4, <1>5 DEF RouterStep

\* Every step keeps the invariant.
LEMMA NextServiceInv == ServiceInv /\ [Next]_vars => ServiceInv'
<1> SUFFICES ASSUME ServiceInv, [Next]_vars PROVE ServiceInv'
    OBVIOUS
<1>1. SetupInv' /\ setup' = setup /\ dials' = dials /\ RouterInv'
    BY SetupKept, NextRouterInv DEF ServiceInv
<1>2. ASSUME NEW c \in Conns, AcceptTCP(c) \/ ListenStep(c) \/ ClientCloses(c)
      PROVE  ListenInv'
    BY <1>1, <1>2, ListenKeeps
<1>3. ASSUME NEW c \in Conns, NEW i \in Stripes, RouterStep(c, i) \/ ServiceCloses(c, i)
      PROVE  ListenInv'
    BY <1>1, <1>3, RouteKeeps
<1>4. CASE CloseListener \/ RunReturns \/ SessionDies \/ UNCHANGED vars
  <2>1. /\ UNCHANGED <<from, lh, opened, lfin, rh, port>>
        /\ up' \in BOOLEAN /\ bound' \in BOOLEAN /\ running' \in BOOLEAN
    BY <1>4 DEF ServiceInv, ListenInv, CloseListener, RunReturns, SessionDies, vars, rvars, lvars
  <2>2. Listens' = Listens /\ Stripes' = Stripes /\ \A c \in Conns : Tag(c)' = Tag(c)
    BY <1>1, <2>1 DEF Listens, Stripes, Tag
  <2> QED
    BY <1>1, <2>1, <2>2 DEF ServiceInv, ListenInv
<1> QED
    BY <1>1, <1>2, <1>3, <1>4 DEF Next, ServiceInv

\* The invariant holds throughout.
LEMMA ServiceAlways == Spec => []ServiceInv
<1> QED
    BY InitServiceInv, NextServiceInv, PTL DEF Spec

\* TCPListener.handle opens no stream beyond numStripes and AcceptRouter.handle puts
\* none out of range into a group; the port it dials is a number of the files.
THEOREM RouterTypeCorrect == Spec => []TypeOK
<1>1. ServiceInv => TypeOK
    BY DEF ServiceInv, RouterInv, RouterTypes, SetupInv, ListenInv, TypeOK
<1> QED
    BY <1>1, ServiceAlways, PTL

\* For all files that validate accepts: between peers with the same file every
\* connection that is dialed for reaches the service of the listener it came in by.
THEOREM ReachesConfigured == Spec => []ConfiguredService
<1>1. ServiceInv => ConfiguredService
  <2> SUFFICES ASSUME ServiceInv, NEW c \in Conns, port[c] # 0, setup.mine = setup.theirs
               PROVE  LET spec == Listens[from[c]]
                          dial == setup.mine.peers[Other(setup.role)].dial
                      IN  /\ \A i \in DOMAIN dial :
                                dial[i].name = spec.name => port[c] = dial[i].port
                          /\ spec.name \notin NamesOf(dial) => port[c] = spec.remote
    BY DEF ConfiguredService
  <2> DEFINE dial == setup.mine.peers[Other(setup.role)].dial
  <2>1. from[c] \in DOMAIN Listens /\ port[c] = dials[Listens[from[c]].name]
    BY DEF ServiceInv, ListenInv, Tag
  <2>2. /\ \A i \in DOMAIN dial : dials[dial[i].name] = dial[i].port
        /\ \A i \in DOMAIN Listens :
            Listens[i].name \notin NamesOf(dial) => dials[Listens[i].name] = Listens[i].remote
    <3> DEFINE role == Other(setup.role)
               cfg == setup.theirs
    <3>1. /\ Valid(cfg) /\ cfg.peers \in [RoleNames -> Half] /\ role \in RoleNames
          /\ Other(role) = setup.role /\ Other(role) \in RoleNames
          /\ dials = DialMap(cfg, role)
      BY SetupShape DEF ServiceInv, SetupInv
    <3>2. dial = cfg.peers[role].dial /\ Listens = cfg.peers[Other(role)].listen
      BY <3>1 DEF Listens
    <3> HIDE DEF role, cfg, dial
    <3> DEFINE listen == cfg.peers[Other(role)].listen
               own == cfg.peers[role].dial
               map == DialMap(cfg, role)
    <3>3. /\ \A i \in DOMAIN own : map[own[i].name] = own[i].port
          /\ \A i \in DOMAIN listen :
                listen[i].name \notin NamesOf(own) => map[listen[i].name] = listen[i].remote
      BY <3>1, DialedPort
    <3>4. own = dial /\ listen = Listens /\ map = dials
      BY <3>1, <3>2
    <3> HIDE DEF own, listen, map
    <3> QED
      BY <3>3, <3>4
  <2> HIDE DEF dial
  <2>3. /\ \A i \in DOMAIN dial :
            dial[i].name = Listens[from[c]].name => port[c] = dial[i].port
        /\ Listens[from[c]].name \notin NamesOf(dial) => port[c] = Listens[from[c]].remote
    BY <2>1, <2>2
  <2> QED
    BY <2>3 DEF dial
<1> QED
    BY <1>1, ServiceAlways, PTL

=============================================================================
