------------------------------- MODULE Config -------------------------------
(***************************************************************************)
(* The configuration file (internal/config) as far as forwarding depends   *)
(* on it: which files Load accepts, and the dial map runOnce makes of one. *)
(* Parsing, environment variables and the default STUN servers are left    *)
(* out, and the session id and the signaling URL are only there or not.    *)
(***************************************************************************)
EXTENDS Naturals, Sequences, SequencesExt

\* One peer's half: what it listens on and what it dials, in the file's order.
Half == [listen : Seq([name : STRING, remote : Nat]),
         dial : Seq([name : STRING, port : Nat])]

RoleNames == {"peer-a", "peer-b"}

Other(role) == IF role = "peer-a" THEN "peer-b" ELSE "peer-a"

NamesOf(specs) == {specs[i].name : i \in DOMAIN specs}

\* Mutant: only the dial entries are compared with the names seen.
UniqueDials(half) ==
    /\ IsInjective([i \in DOMAIN half.dial |-> half.dial[i].name])
    /\ NamesOf(half.listen) \cap NamesOf(half.dial) = {}

\* The loop of validate over one peer: no name twice, in listen and dial together.
UniqueNames(half) ==
    /\ IsInjective([i \in DOMAIN half.listen |-> half.listen[i].name])
    /\ IsInjective([i \in DOMAIN half.dial |-> half.dial[i].name])
    /\ NamesOf(half.listen) \cap NamesOf(half.dial) = {}

\* validate: what Load lets through.
Valid(cfg) ==
    /\ cfg.session /\ cfg.url
    /\ DOMAIN cfg.peers = RoleNames
    /\ \A role \in RoleNames :
        /\ "" \notin NamesOf(cfg.peers[role].listen) \cup NamesOf(cfg.peers[role].dial)
        /\ UniqueNames(cfg.peers[role])

\* The first and the last entry with that name.
FirstOf(specs, name) ==
    CHOOSE i \in DOMAIN specs : /\ specs[i].name = name
                                /\ \A j \in DOMAIN specs : specs[j].name = name => i <= j
LastOf(specs, name) ==
    CHOOSE i \in DOMAIN specs : /\ specs[i].name = name
                                /\ \A j \in DOMAIN specs : specs[j].name = name => j <= i

\* runOnce: the port to dial for each tag.  The own dial entries come first, of
\* equal names the last; then what the other peer's listeners ask for, of equal
\* names the first.
DialMap(cfg, role) ==
    LET me == cfg.peers[role]
        other == cfg.peers[Other(role)]
    IN  [name \in NamesOf(me.dial) \cup NamesOf(other.listen) |->
            IF name \in NamesOf(me.dial)
              THEN me.dial[LastOf(me.dial, name)].port
              ELSE other.listen[FirstOf(other.listen, name)].remote]

=============================================================================
