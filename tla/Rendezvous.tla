----------------------------- MODULE Rendezvous -----------------------------
(***************************************************************************)
(* The ICE rendezvous of two peers through the signaling server.  Each     *)
(* peer is the reconnect loop of cmd/nl-punch/main.go around               *)
(* ice.Agent.Connect: it creates a pion agent, gathers candidates,         *)
(* exchanges credentials (peer-a posts an offer and polls for the answer   *)
(* carrying its nonce; peer-b polls for an offer and posts an answer that  *)
(* echoes the nonce), installs the remote's credentials and runs           *)
(* connectivity checks.                                                    *)
(*                                                                         *)
(* An attempt is one pion agent.  Its number stands for the ufrag, the     *)
(* password and the candidates of the agent and, for peer-a, for the nonce *)
(* of newGen: all of them are fresh random values.                         *)
(*                                                                         *)
(* The network between a peer and the server delays, reorders and loses    *)
(* POSTs and their replies; a POST whose client gave up may still reach    *)
(* the server.  A GET is one step: what the peer read becomes visible only *)
(* through its next POST, which is delayed anyway.                         *)
(***************************************************************************)
EXTENDS SignalingServer

VARIABLES
    pc,       \* where each peer's loop is
    att,      \* the attempt a peer is in, 0 while it backs off
    seen,     \* the offer peer-b has read and is answering
    ctr,      \* attempts made so far
    minted,   \* the attempts each peer has made
    open,     \* agents not closed, those no variable refers to included
    remote,   \* the attempt whose credentials an agent was given, 0 if none
    net,      \* POSTs on their way to the server
    acks      \* attempts whose POST was handled and the 204 is on its way

peerVars == <<pc, att, seen, ctr, minted, open, remote>>
vars == <<offers, answers, pc, att, seen, ctr, minted, open, remote, net, acks>>

Peers == Sessions \X Roles

IsControlling(p) == p[2] = "peer-a"

OtherRole(r) == IF r = "peer-a" THEN "peer-b" ELSE "peer-a"

Other(p) == <<p[1], OtherRole(p[2])>>

Stages == {"backoff", "gathering", "posting", "polling", "checking", "connected"}

Request == [peer : Peers, body : Offer]

-----------------------------------------------------------------------------

Init ==
    /\ ServerInit
    /\ pc = [p \in Peers |-> "backoff"]
    /\ att = [p \in Peers |-> 0]
    /\ seen = [p \in Peers |-> NoOffer]
    /\ ctr = 0
    /\ minted = [p \in Peers |-> {}]
    /\ open = {}
    /\ remote = [a \in Attempts |-> 0]
    /\ net = {}
    /\ acks = {}

\* The loop calls runOnce and Connect creates a pion agent with new
\* credentials, and starts gathering.
StartAttempt(p) ==
    /\ pc[p] = "backoff"
    /\ ctr < MaxAttempts
    /\ ctr' = ctr + 1
    /\ pc' = [pc EXCEPT ![p] = "gathering"]
    /\ att' = [att EXCEPT ![p] = ctr + 1]
    /\ minted' = [minted EXCEPT ![p] = @ \cup {ctr + 1}]
    /\ open' = open \cup {ctr + 1}
    /\ UNCHANGED <<offers, answers, seen, remote, net, acks>>

\* Gathering ended, or 10 s passed.  peer-a sends its offer, with its own
\* nonce; peer-b goes on to poll for one.
GatherDone(p) ==
    /\ pc[p] = "gathering"
    /\ IF IsControlling(p)
         THEN /\ pc' = [pc EXCEPT ![p] = "posting"]
              /\ net' = net \cup {[peer |-> p,
                                   body |-> [cred |-> att[p], gen |-> att[p]]]}
         ELSE /\ pc' = [pc EXCEPT ![p] = "polling"]
              /\ UNCHANGED net
    /\ UNCHANGED <<offers, answers, att, seen, ctr, minted, open, remote, acks>>

\* The server handles a POST: /offer from peer-a, /answer from peer-b.  The
\* reply matters only if the client still waits for it.
HandlePost(m) ==
    /\ m \in net
    /\ IF IsControlling(m.peer)
         THEN HandlePostOffer(m.peer[1], m.peer[2], m.body)
         ELSE HandlePostAnswer(m.peer[1], m.body)
    /\ net' = net \ {m}
    /\ acks' = IF att[m.peer] = m.body.cred THEN acks \cup {m.body.cred} ELSE acks
    /\ UNCHANGED peerVars

\* A POST is lost before the server sees it.
LosePost(m) ==
    /\ m \in net
    /\ net' = net \ {m}
    /\ UNCHANGED <<offers, answers, pc, att, seen, ctr, minted, open, remote, acks>>

\* peer-a's PostOffer returns nil.
OfferPosted(p) ==
    /\ IsControlling(p)
    /\ pc[p] = "posting"
    /\ att[p] \in acks
    /\ pc' = [pc EXCEPT ![p] = "polling"]
    /\ acks' = acks \ {att[p]}
    /\ UNCHANGED <<offers, answers, att, seen, ctr, minted, open, remote, net>>

\* AwaitOffer finds an offer, which may be that of an attempt long over, and
\* peer-b sends its answer, echoing the nonce of the offer.
PollOffer(p) ==
    LET o == GetOffer(p[1], "peer-a") IN
    /\ ~IsControlling(p)
    /\ pc[p] = "polling"
    /\ o # NoOffer
    /\ pc' = [pc EXCEPT ![p] = "posting"]
    /\ seen' = [seen EXCEPT ![p] = o]
    /\ net' = net \cup {[peer |-> p, body |-> [cred |-> att[p], gen |-> o.gen]]}
    /\ UNCHANGED <<offers, answers, att, ctr, minted, open, remote, acks>>

\* peer-b's PostAnswer returns nil: the agent is given the credentials of the
\* offer that was read, and Accept starts the checks.
AnswerPosted(p) ==
    /\ ~IsControlling(p)
    /\ pc[p] = "posting"
    /\ att[p] \in acks
    /\ pc' = [pc EXCEPT ![p] = "checking"]
    /\ remote' = [remote EXCEPT ![att[p]] = seen[p].cred]
    /\ acks' = acks \ {att[p]}
    /\ UNCHANGED <<offers, answers, att, seen, ctr, minted, open, net>>

\* Mutant: any answer is accepted.
MatchingAny(answer, wantGen) == answer # NoOffer

\* The answer AwaitAnswerMatching accepts: one that carries the wanted nonce.
Matching(answer, wantGen) == answer # NoOffer /\ answer.gen = wantGen

\* AwaitAnswerMatching returns: the agent is given the answer's credentials
\* and Dial starts the checks.
PollAnswer(p) ==
    LET answer == GetAnswer(p[1]) IN
    /\ IsControlling(p)
    /\ pc[p] = "polling"
    /\ Matching(answer, att[p])
    /\ pc' = [pc EXCEPT ![p] = "checking"]
    /\ remote' = [remote EXCEPT ![att[p]] = answer.cred]
    /\ UNCHANGED <<offers, answers, att, seen, ctr, minted, open, net, acks>>

\* pion's connectivity checks (external): STUN requests are authenticated
\* with both sides' credentials, so a pair works only between two open agents
\* that were given each other's.
Mutual(a, b) == remote[a] = b /\ remote[b] = a

CanPair(p) ==
    LET a == att[p] IN
    /\ remote[a] \in open
    /\ Mutual(a, remote[a])

\* Dial or Accept returns a connection; the tunnel runs over it.
PairSelected(p) ==
    /\ pc[p] = "checking"
    /\ CanPair(p)
    /\ pc' = [pc EXCEPT ![p] = "connected"]
    /\ UNCHANGED <<offers, answers, att, seen, ctr, minted, open, remote, net, acks>>

\* The attempt is over: the loop waits its backoff, and what was in flight for
\* the attempt finds nobody waiting.
Abandon(p) ==
    /\ pc' = [pc EXCEPT ![p] = "backoff"]
    /\ att' = [att EXCEPT ![p] = 0]
    /\ seen' = [seen EXCEPT ![p] = NoOffer]
    /\ acks' = acks \ {att[p]}
    /\ UNCHANGED <<offers, answers, ctr, minted, remote, net>>

\* Connect fails before the checks start (the 120 s are over, a request
\* failed or timed out, a reply was neither a success nor 404): it closes the
\* agent.
FailExchange(p) ==
    /\ pc[p] \in {"gathering", "posting", "polling"}
    /\ open' = open \ {att[p]}
    /\ Abandon(p)

\* Dial or Accept fails because the 120 s are over: Connect returns the error
\* and nothing closes the agent.
FailChecks(p) ==
    /\ pc[p] = "checking"
    /\ UNCHANGED open
    /\ Abandon(p)

\* runOnce returns from an established session and its deferred Close closes
\* the connection and the agent with it.
EndSession(p) ==
    /\ pc[p] = "connected"
    /\ open' = open \ {att[p]}
    /\ Abandon(p)

\* The process dies and is started again: every agent it held is gone.
Crash(p) ==
    /\ open' = open \ minted[p]
    /\ Abandon(p)

ServerRestart ==
    /\ RestartServer
    /\ UNCHANGED <<pc, att, seen, ctr, minted, open, remote, net, acks>>

PeerStep(p) ==
    \/ StartAttempt(p)
    \/ GatherDone(p)
    \/ OfferPosted(p)
    \/ PollOffer(p)
    \/ AnswerPosted(p)
    \/ PollAnswer(p)
    \/ PairSelected(p)
    \/ FailExchange(p)
    \/ FailChecks(p)
    \/ EndSession(p)
    \/ Crash(p)

Next ==
    \/ \E p \in Peers : PeerStep(p)
    \/ \E m \in net : HandlePost(m) \/ LosePost(m)
    \/ ServerRestart

Spec == Init /\ [][Next]_vars

-----------------------------------------------------------------------------
(* Properties *)

\* The server's maps have an entry for every session, even after a restart, and
\* every number stands for an attempt that was made.
TypeOK ==
    /\ ServerTypeOK
    /\ pc \in [Peers -> Stages]
    /\ att \in [Peers -> 0..MaxAttempts]
    /\ seen \in [Peers -> Offer]
    /\ ctr \in 0..MaxAttempts
    /\ minted \in [Peers -> SUBSET Attempts]
    /\ open \in SUBSET Attempts
    /\ remote \in [Attempts -> 0..MaxAttempts]
    /\ net \in SUBSET Request
    /\ acks \in SUBSET (0..MaxAttempts)

\* What the nonce is for: when peer-a has been given an answer's credentials,
\* the agent of that answer has been given peer-a's, or none yet -- never
\* those of another attempt of peer-a, whatever stale offers and answers the
\* server returned and in whatever order POSTs reached it.  Checks between two
\* agents of which one expects a third would only run into the 120 s timeout
\* (AwaitAnswerMatching, newGen, the echo in Connect).
PairingSafe ==
    \A p \in Peers : IsControlling(p) =>
        \A a \in minted[p] :
            remote[a] # 0 => remote[remote[a]] \in {0, a}

\* Peers of different sessions that share a server never exchange credentials,
\* and neither does a peer with an earlier attempt of its own: an agent is
\* only ever given credentials minted by the other role of its own session.
SessionIsolation ==
    \A p \in Peers : \A a \in minted[p] :
        remote[a] # 0 => remote[a] \in minted[Other(p)]

\* types.go says the nonce keeps "a stale answer left over from a previous
\* attempt" from being consumed: the answer peer-a takes is one of the attempt
\* peer-b is in.
OnlyFreshAnswers ==
    [][\A p \in Peers : PollAnswer(p) => remote'[att[p]] = att[Other(p)]]_vars

\* ice.go calls its Agent "Reusable across reconnect cycles": a peer never has
\* more than one pion agent open, the one of the attempt it is in.
OneAgentPerPeer ==
    \A p \in Peers : open \cap minted[p] \subseteq {att[p]}

=============================================================================
