-------------------------- MODULE RendezvousProofs --------------------------
(***************************************************************************)
(* TLAPS proofs that Rendezvous keeps its types, never lets peer-a use an  *)
(* answer made for another attempt (PairingSafe) and never mixes sessions  *)
(* (SessionIsolation), for every set of sessions and any number of         *)
(* attempts.                                                               *)
(***************************************************************************)
EXTENDS Rendezvous, TLAPS

-----------------------------------------------------------------------------
(* The inductive invariant *)

\* Attempt numbers are handed out once and belong to one peer.
AttemptInv ==
    /\ \A p \in Peers : \A a \in minted[p] : a \in 1..ctr
    /\ \A p, q \in Peers : \A a \in Attempts :
            a \in minted[p] /\ a \in minted[q] => p = q
    /\ \A p \in Peers : pc[p] = "backoff" => att[p] = 0
    /\ \A p \in Peers : pc[p] # "backoff" => att[p] \in minted[p]

\* An agent is given remote credentials when its checks start, not before.
FreshInv ==
    /\ \A a \in Attempts : a > ctr => remote[a] = 0
    /\ \A p \in Peers :
            pc[p] \in {"gathering", "posting", "polling"} => remote[att[p]] = 0

\* o is an offer peer-a of p's session made: its nonce is that of its agent.
OfferOf(q, o) == o.gen = o.cred /\ o.cred \in minted[q]

OfferInv ==
    /\ \A q \in Peers : IsControlling(q) => offers[q] = NoOffer \/ OfferOf(q, offers[q])
    /\ \A m \in net : IsControlling(m.peer) => OfferOf(m.peer, m.body)
    /\ \A p \in Peers :
            ~IsControlling(p) /\ pc[p] = "posting" => OfferOf(Other(p), seen[p])

\* peer-b p has answered the offer of peer-a's attempt g with the credentials
\* of its attempt b: the answer is on the server, in flight or consumed.
Claimed(p, b, g) ==
    \/ answers[p[1]] # NoOffer /\ answers[p[1]].cred = b /\ answers[p[1]].gen = g
    \/ \E m \in net : m.peer = p /\ m.body.cred = b /\ m.body.gen = g
    \/ b # 0 /\ g \in minted[Other(p)] /\ remote[g] = b

\* What such an answer means: b's agent has been given g's credentials, or will
\* be if it is given any.
Answers(p, b, g) ==
    /\ b \in minted[p]
    /\ g \in minted[Other(p)]
    /\ remote[b] \in {0, g}
    /\ att[p] = b => /\ pc[p] \notin {"gathering", "polling"}
                     /\ pc[p] = "posting" => seen[p].cred = g

AnswerInv ==
    \A p \in Peers : ~IsControlling(p) =>
        \A b, g \in 0..MaxAttempts : Claimed(p, b, g) => Answers(p, b, g)

\* peer-b is given the credentials of an attempt of peer-a.
AnsweredInv ==
    \A p \in Peers : ~IsControlling(p) =>
        \A b \in minted[p] : remote[b] # 0 => remote[b] \in minted[Other(p)]

IInv ==
    /\ TypeOK
    /\ AttemptInv
    /\ FreshInv
    /\ OfferInv
    /\ AnswerInv
    /\ AnsweredInv

-----------------------------------------------------------------------------
(* Peers *)

\* What pairing up the two roles of a session gives.
LEMMA PeerFacts ==
    ASSUME NEW p \in Peers
    PROVE  /\ p[1] \in Sessions
           /\ <<p[1], p[2]>> = p
           /\ Other(p) \in Peers
           /\ Other(p) # p
           /\ Other(Other(p)) = p
           /\ Other(p)[1] = p[1]
           /\ IsControlling(Other(p)) <=> ~IsControlling(p)
           /\ ~IsControlling(p) => <<p[1], "peer-a">> = Other(p)
  BY DEF Peers, Roles, Other, OtherRole, IsControlling

\* A session has one peer-b.
LEMMA OnePassive ==
    ASSUME NEW p \in Peers, NEW q \in Peers,
           p[1] = q[1], ~IsControlling(p), ~IsControlling(q)
    PROVE  p = q
  BY DEF Peers, Roles, IsControlling

-----------------------------------------------------------------------------
(* Types *)

\* Before the first attempt everything is empty and well typed.
LEMMA InitTypeOK == Init => TypeOK
  BY MaxAttemptsAssumption
  DEF Init, ServerInit, TypeOK, ServerTypeOK, Offer, NoOffer, Attempts, Stages,
      Request, Peers

\* Every step keeps the types: attempt numbers stay within the bound and what
\* moves between peers and server is an offer.
LEMMA NextTypeOK == TypeOK /\ [Next]_vars => TypeOK'
<1> SUFFICES ASSUME TypeOK, [Next]_vars PROVE TypeOK'
    OBVIOUS
<1> USE MaxAttemptsAssumption
<1> USE DEF TypeOK, ServerTypeOK
<1>1. ASSUME NEW p \in Peers, StartAttempt(p) PROVE TypeOK'
    BY <1>1, SMTT(30) DEF StartAttempt, Attempts, Stages
<1>2. ASSUME NEW p \in Peers, GatherDone(p) PROVE TypeOK'
  <2>1. [peer |-> p, body |-> [cred |-> att[p], gen |-> att[p]]] \in Request
    BY DEF Request, Offer
  <2> QED
    BY <1>2, <2>1 DEF GatherDone, Stages
<1>3. ASSUME NEW p \in Peers, OfferPosted(p) PROVE TypeOK'
    BY <1>3 DEF OfferPosted, Stages
<1>4. ASSUME NEW p \in Peers, PollOffer(p) PROVE TypeOK'
  <2>1. GetOffer(p[1], "peer-a") \in Offer
    BY PeerFacts, <1>4 DEF GetOffer, PollOffer, Peers
  <2> QED
    BY <2>1, <1>4 DEF PollOffer, Stages, Request, Offer
<1>5. ASSUME NEW p \in Peers, AnswerPosted(p) PROVE TypeOK'
    BY <1>5 DEF AnswerPosted, Stages, Offer
<1>6. ASSUME NEW p \in Peers, PollAnswer(p) PROVE TypeOK'
    BY <1>6, PeerFacts DEF PollAnswer, GetAnswer, Stages, Offer
<1>7. ASSUME NEW p \in Peers, PairSelected(p) PROVE TypeOK'
    BY <1>7 DEF PairSelected, Stages
<1>8. ASSUME NEW p \in Peers,
             FailExchange(p) \/ FailChecks(p) \/ EndSession(p) \/ Crash(p)
      PROVE  TypeOK'
  <2>1. open' \in SUBSET Attempts
    BY <1>8 DEF FailExchange, FailChecks, EndSession, Crash
  <2>2. Abandon(p)
    BY <1>8 DEF FailExchange, FailChecks, EndSession, Crash
  <2>3. NoOffer \in Offer /\ 0 \in 0..MaxAttempts
    BY DEF Offer, NoOffer
  <2> QED
    BY <2>1, <2>2, <2>3 DEF Abandon, Stages
<1>9. ASSUME NEW m \in net, HandlePost(m) PROVE TypeOK'
  <2>1. m.peer \in Peers /\ m.body \in Offer /\ m.body.cred \in 0..MaxAttempts
    BY DEF Request, Offer
  <2>2. acks' \in SUBSET (0..MaxAttempts)
    BY <1>9, <2>1 DEF HandlePost, Attempts
  <2>3. /\ m.peer[1] \in Sessions
        /\ <<m.peer[1], m.peer[2]>> \in Sessions \X Roles
        /\ NoOffer \in Offer
    BY <2>1, PeerFacts DEF Peers, NoOffer, Offer
  <2>4. CASE IsControlling(m.peer)
    BY <1>9, <2>1, <2>2, <2>3, <2>4 DEF HandlePost, HandlePostOffer, peerVars
  <2>5. CASE ~IsControlling(m.peer)
    BY <1>9, <2>1, <2>2, <2>3, <2>5 DEF HandlePost, HandlePostAnswer, peerVars
  <2> QED
    BY <2>4, <2>5
<1>10. ASSUME NEW m \in net, LosePost(m) PROVE TypeOK'
    BY <1>10 DEF LosePost
<1>11. CASE ServerRestart
    BY <1>11 DEF ServerRestart, RestartServer, Offer, NoOffer
<1>12. CASE UNCHANGED vars
    BY <1>12 DEF vars
<1> QED
    BY <1>1, <1>2, <1>3, <1>4, <1>5, <1>6, <1>7, <1>8, <1>9, <1>10, <1>11, <1>12
    DEF Next, PeerStep

-----------------------------------------------------------------------------
(* The invariant is inductive *)

\* No attempt, no message: the inductive invariant holds initially.
LEMMA InitIInv == Init => IInv
<1> SUFFICES ASSUME Init PROVE IInv
    OBVIOUS
<1>1. TypeOK
    BY InitTypeOK
<1>2. AttemptInv
    BY DEF Init, AttemptInv
<1>3. FreshInv
    BY DEF Init, FreshInv
<1>4. OfferInv
    BY PeerFacts DEF Init, ServerInit, OfferInv, Peers
<1>5. AnswerInv
    BY PeerFacts DEF Init, ServerInit, AnswerInv, Claimed
<1>6. AnsweredInv
    BY DEF Init, AnsweredInv
<1> QED
    BY <1>1, <1>2, <1>3, <1>4, <1>5, <1>6 DEF IInv

\* A new attempt has a number nobody has used.
LEMMA StartAttemptIInv ==
    ASSUME IInv, TypeOK', NEW p \in Peers, StartAttempt(p)
    PROVE  IInv'
<1> USE MaxAttemptsAssumption
<1>1. /\ pc[p] = "backoff" /\ ctr < MaxAttempts /\ ctr' = ctr + 1
      /\ pc' = [pc EXCEPT ![p] = "gathering"]
      /\ att' = [att EXCEPT ![p] = ctr + 1]
      /\ minted' = [minted EXCEPT ![p] = @ \cup {ctr + 1}]
      /\ UNCHANGED <<offers, answers, seen, remote, net, acks>>
    BY DEF StartAttempt
<1>2. /\ ctr \in 0..MaxAttempts /\ pc \in [Peers -> Stages]
      /\ att \in [Peers -> 0..MaxAttempts] /\ minted \in [Peers -> SUBSET Attempts]
      /\ remote \in [Attempts -> 0..MaxAttempts]
    BY DEF IInv, TypeOK
<1>3. \A q \in Peers : \A a \in minted[q] : a \in 1..ctr
    BY DEF IInv, AttemptInv
<1>4. \A q \in Peers : minted[q] \subseteq minted'[q]
    BY <1>1, <1>2
<1>5. remote[ctr + 1] = 0
    BY <1>1, <1>2 DEF IInv, FreshInv, Attempts
<1>6. AttemptInv'
  <2>1. \A q \in Peers : \A a \in minted'[q] : a \in 1..ctr'
    BY <1>1, <1>2, <1>3
  <2>2. \A q, r \in Peers : \A a \in Attempts :
            a \in minted'[q] /\ a \in minted'[r] => q = r
    BY <1>1, <1>2, <1>3 DEF IInv, AttemptInv
  <2>3. \A q \in Peers : pc'[q] = "backoff" => att'[q] = 0
    BY <1>1, <1>2 DEF IInv, AttemptInv
  <2>4. \A q \in Peers : pc'[q] # "backoff" => att'[q] \in minted'[q]
    BY <1>1, <1>2 DEF IInv, AttemptInv
  <2> QED
    BY <2>1, <2>2, <2>3, <2>4 DEF AttemptInv
<1>7. FreshInv'
    BY <1>1, <1>2, <1>5 DEF IInv, FreshInv, Attempts
<1>8. OfferInv'
    BY <1>1, <1>2, <1>4, PeerFacts DEF IInv, OfferInv, OfferOf
<1>9. AnswerInv'
  <2> SUFFICES ASSUME NEW q \in Peers, ~IsControlling(q),
                      NEW b \in 0..MaxAttempts, NEW g \in 0..MaxAttempts,
                      Claimed(q, b, g)'
               PROVE  Answers(q, b, g)'
    BY DEF AnswerInv
  <2>1. Claimed(q, b, g)
    BY <1>1, <1>2, <1>5, PeerFacts DEF Claimed
  <2>2. Answers(q, b, g)
    BY <2>1 DEF IInv, AnswerInv
  <2> QED
    BY <1>1, <1>2, <1>3, <1>4, <2>2, PeerFacts DEF Answers
<1>10. AnsweredInv'
    BY <1>1, <1>2, <1>4, <1>5, PeerFacts DEF IInv, AnsweredInv
<1> QED
    BY <1>6, <1>7, <1>8, <1>9, <1>10 DEF IInv

\* peer-a's new offer carries the nonce of its own agent.
LEMMA GatherDoneIInv ==
    ASSUME IInv, TypeOK', NEW p \in Peers, GatherDone(p)
    PROVE  IInv'
<1>1. /\ pc[p] = "gathering"
      /\ pc' = [pc EXCEPT ![p] = IF IsControlling(p) THEN "posting" ELSE "polling"]
      /\ net' = net \cup (IF IsControlling(p)
                            THEN {[peer |-> p, body |-> [cred |-> att[p], gen |-> att[p]]]}
                            ELSE {})
      /\ UNCHANGED <<offers, answers, att, seen, ctr, minted, remote>>
    BY DEF GatherDone
<1>2. /\ pc \in [Peers -> Stages] /\ att \in [Peers -> 0..MaxAttempts]
      /\ seen \in [Peers -> Offer] /\ minted \in [Peers -> SUBSET Attempts]
      /\ remote \in [Attempts -> 0..MaxAttempts] /\ net \in SUBSET Request
    BY DEF IInv, TypeOK
<1>3. AttemptInv' /\ FreshInv' /\ AnsweredInv'
    BY <1>1, <1>2 DEF IInv, AttemptInv, FreshInv, AnsweredInv
<1>4. OfferInv'
  <2>1. att[p] \in minted[p]
    BY <1>1 DEF IInv, AttemptInv
  <2> QED
    BY <1>1, <1>2, <2>1 DEF IInv, OfferInv, OfferOf
<1>5. AnswerInv'
  <2> SUFFICES ASSUME NEW q \in Peers, ~IsControlling(q),
                      NEW b \in 0..MaxAttempts, NEW g \in 0..MaxAttempts,
                      Claimed(q, b, g)'
               PROVE  Answers(q, b, g)'
    BY DEF AnswerInv
  <2>1. Claimed(q, b, g)
    BY <1>1, <1>2 DEF Claimed
  <2>2. Answers(q, b, g)
    BY <2>1 DEF IInv, AnswerInv
  <2> QED
    BY <1>1, <1>2, <2>2 DEF Answers
<1> QED
    BY <1>3, <1>4, <1>5 DEF IInv

\* A POST only moves an offer or an answer to the server.
LEMMA HandlePostIInv ==
    ASSUME IInv, TypeOK', NEW m \in net, HandlePost(m)
    PROVE  IInv'
<1>1. /\ m.peer \in Peers /\ m.body \in Offer
      /\ m.peer[1] \in Sessions /\ <<m.peer[1], m.peer[2]>> = m.peer
      /\ offers \in [Peers -> Offer] /\ answers \in [Sessions -> Offer]
    BY PeerFacts DEF IInv, TypeOK, ServerTypeOK, Request, Peers
<1>2. /\ net' = net \ {m}
      /\ UNCHANGED <<pc, att, seen, ctr, minted, remote>>
    BY DEF HandlePost, peerVars
<1>3. CASE IsControlling(m.peer)
  <2>1. /\ offers' = [offers EXCEPT ![m.peer] = m.body]
        /\ answers' = [answers EXCEPT ![m.peer[1]] = NoOffer]
    BY <1>1, <1>3 DEF HandlePost, HandlePostOffer
  <2>2. OfferInv'
    BY <1>1, <1>2, <1>3, <2>1 DEF IInv, OfferInv, OfferOf
  <2>3. AnswerInv'
    BY <1>1, <1>2, <2>1, PeerFacts DEF IInv, AnswerInv, Claimed, Answers
  <2> QED
    BY <1>2, <2>2, <2>3 DEF IInv, AttemptInv, FreshInv, AnsweredInv
<1>4. CASE ~IsControlling(m.peer)
  <2>1. offers' = offers /\ answers' = [answers EXCEPT ![m.peer[1]] = m.body]
    BY <1>1, <1>4 DEF HandlePost, HandlePostAnswer
  <2>2. OfferInv'
    BY <1>2, <2>1 DEF IInv, OfferInv, OfferOf
  <2>3. AnswerInv'
    <3> SUFFICES ASSUME NEW q \in Peers, ~IsControlling(q),
                        NEW b \in 0..MaxAttempts, NEW g \in 0..MaxAttempts,
                        Claimed(q, b, g)'
                 PROVE  Answers(q, b, g)'
      BY DEF AnswerInv
    <3>1. Claimed(q, b, g)
      BY <1>1, <1>2, <1>4, <2>1, OnePassive, PeerFacts DEF Claimed
    <3> QED
      BY <1>2, <3>1 DEF IInv, AnswerInv, Answers
  <2> QED
    BY <1>2, <2>2, <2>3 DEF IInv, AttemptInv, FreshInv, AnsweredInv
<1> QED
    BY <1>3, <1>4

\* peer-b answers with its current agent, which nobody has been told of, and
\* remembers whose offer it answers.
LEMMA PollOfferIInv ==
    ASSUME IInv, TypeOK', NEW p \in Peers, PollOffer(p)
    PROVE  IInv'
<1> DEFINE o == offers[Other(p)]
<1>1. /\ ~IsControlling(p) /\ pc[p] = "polling" /\ o # NoOffer
      /\ pc' = [pc EXCEPT ![p] = "posting"]
      /\ seen' = [seen EXCEPT ![p] = o]
      /\ net' = net \cup {[peer |-> p, body |-> [cred |-> att[p], gen |-> o.gen]]}
      /\ UNCHANGED <<offers, answers, att, ctr, minted, remote>>
    BY PeerFacts DEF PollOffer, GetOffer
<1>2. /\ pc \in [Peers -> Stages] /\ att \in [Peers -> 0..MaxAttempts]
      /\ seen \in [Peers -> Offer] /\ minted \in [Peers -> SUBSET Attempts]
      /\ remote \in [Attempts -> 0..MaxAttempts] /\ net \in SUBSET Request
    BY DEF IInv, TypeOK
<1>3. OfferOf(Other(p), o)
    BY <1>1, PeerFacts DEF IInv, OfferInv
<1>4. att[p] \in minted[p] /\ remote[att[p]] = 0
    BY <1>1 DEF IInv, AttemptInv, FreshInv
<1>5. AttemptInv' /\ FreshInv' /\ AnsweredInv'
    BY <1>1, <1>2 DEF IInv, AttemptInv, FreshInv, AnsweredInv
<1>6. OfferInv'
    BY <1>1, <1>2, <1>3 DEF IInv, OfferInv, OfferOf
<1>7. AnswerInv'
  <2> SUFFICES ASSUME NEW q \in Peers, ~IsControlling(q),
                      NEW b \in 0..MaxAttempts, NEW g \in 0..MaxAttempts,
                      Claimed(q, b, g)'
               PROVE  Answers(q, b, g)'
    BY DEF AnswerInv
  <2>1. Claimed(q, b, g) \/ (q = p /\ b = att[p] /\ g = o.gen)
    BY <1>1 DEF Claimed
  <2>2. CASE Claimed(q, b, g)
    <3>1. Answers(q, b, g)
      BY <2>2 DEF IInv, AnswerInv
    <3> QED
      BY <1>1, <1>2, <3>1 DEF Answers
  <2>3. CASE q = p /\ b = att[p] /\ g = o.gen
    BY <1>1, <1>2, <1>3, <1>4, <2>3 DEF Answers, OfferOf
  <2> QED
    BY <2>1, <2>2, <2>3
<1> QED
    BY <1>5, <1>6, <1>7 DEF IInv

\* peer-b's agent is given the credentials of the offer it answered.
LEMMA AnswerPostedIInv ==
    ASSUME IInv, TypeOK', NEW p \in Peers, AnswerPosted(p)
    PROVE  IInv'
<1>1. /\ ~IsControlling(p) /\ pc[p] = "posting"
      /\ pc' = [pc EXCEPT ![p] = "checking"]
      /\ remote' = [remote EXCEPT ![att[p]] = seen[p].cred]
      /\ UNCHANGED <<offers, answers, att, seen, ctr, minted, net>>
    BY DEF AnswerPosted
<1>2. /\ pc \in [Peers -> Stages] /\ att \in [Peers -> 0..MaxAttempts]
      /\ seen \in [Peers -> Offer] /\ minted \in [Peers -> SUBSET Attempts]
      /\ remote \in [Attempts -> 0..MaxAttempts] /\ net \in SUBSET Request
    BY DEF IInv, TypeOK
<1>3. att[p] \in minted[p] /\ att[p] \in Attempts /\ att[p] \in 1..ctr
    BY <1>1, <1>2 DEF IInv, AttemptInv
<1>4. \A q \in Peers : \A a \in minted[q] : a = att[p] => q = p
    BY <1>2, <1>3 DEF IInv, AttemptInv
<1>5. seen[p].cred \in minted[Other(p)]
    BY <1>1 DEF IInv, OfferInv, OfferOf
<1>6. AttemptInv' /\ OfferInv'
    BY <1>1, <1>2 DEF IInv, AttemptInv, OfferInv, OfferOf
<1>7. FreshInv'
  <2>1. \A a \in Attempts : a > ctr => remote'[a] = 0
    BY <1>1, <1>2, <1>3 DEF IInv, FreshInv, TypeOK
  <2>2. ASSUME NEW q \in Peers, pc'[q] \in {"gathering", "posting", "polling"}
        PROVE  remote'[att[q]] = 0
    <3>1. q # p /\ att[q] \in minted[q] /\ remote[att[q]] = 0
      BY <1>1, <1>2, <2>2 DEF IInv, AttemptInv, FreshInv
    <3> QED
      BY <1>1, <1>2, <1>4, <3>1
  <2> QED
    BY <1>1, <2>1, <2>2 DEF FreshInv
<1>8. AnswerInv'
  <2> SUFFICES ASSUME NEW q \in Peers, ~IsControlling(q),
                      NEW b \in 0..MaxAttempts, NEW g \in 0..MaxAttempts,
                      Claimed(q, b, g)'
               PROVE  Answers(q, b, g)'
    BY DEF AnswerInv
  <2>1. Claimed(q, b, g)
    BY <1>1, <1>2, <1>4, PeerFacts DEF Claimed
  <2>2. Answers(q, b, g)
    BY <2>1 DEF IInv, AnswerInv
  <2>3. CASE b = att[p]
    BY <1>1, <1>2, <1>3, <1>4, <2>2, <2>3 DEF Answers
  <2>4. CASE b # att[p]
    BY <1>1, <1>2, <2>2, <2>4 DEF Answers
  <2> QED
    BY <2>3, <2>4
<1>9. AnsweredInv'
    BY <1>1, <1>2, <1>3, <1>4, <1>5 DEF IInv, AnsweredInv
<1> QED
    BY <1>6, <1>7, <1>8, <1>9 DEF IInv

\* peer-a uses an answer that carries its nonce, hence one whose agent expects
\* peer-a's current agent and no other.
LEMMA PollAnswerIInv ==
    ASSUME IInv, TypeOK', NEW p \in Peers, PollAnswer(p)
    PROVE  IInv'
<1> DEFINE ans == answers[p[1]]
<1>1. /\ IsControlling(p) /\ pc[p] = "polling"
      /\ ans # NoOffer /\ ans.gen = att[p]
      /\ pc' = [pc EXCEPT ![p] = "checking"]
      /\ remote' = [remote EXCEPT ![att[p]] = ans.cred]
      /\ UNCHANGED <<offers, answers, att, seen, ctr, minted, net>>
    BY DEF PollAnswer, GetAnswer, Matching
<1>2. /\ pc \in [Peers -> Stages] /\ att \in [Peers -> 0..MaxAttempts]
      /\ seen \in [Peers -> Offer] /\ minted \in [Peers -> SUBSET Attempts]
      /\ remote \in [Attempts -> 0..MaxAttempts] /\ net \in SUBSET Request
    BY DEF IInv, TypeOK
<1>3. att[p] \in minted[p] /\ att[p] \in Attempts /\ att[p] \in 1..ctr
    BY <1>1, <1>2 DEF IInv, AttemptInv
<1>4. \A q \in Peers : \A a \in minted[q] : a = att[p] => q = p
    BY <1>2, <1>3 DEF IInv, AttemptInv
<1>5. Answers(Other(p), ans.cred, att[p])
  <2>1. ans \in Offer
    BY PeerFacts DEF IInv, TypeOK, ServerTypeOK
  <2>2. Claimed(Other(p), ans.cred, ans.gen)
    BY <1>1, PeerFacts DEF Claimed
  <2> QED
    BY <1>1, <2>1, <2>2, PeerFacts DEF IInv, AnswerInv, Offer
<1>6. AttemptInv' /\ OfferInv'
    BY <1>1, <1>2 DEF IInv, AttemptInv, OfferInv, OfferOf
<1>7. FreshInv'
  <2>1. \A a \in Attempts : a > ctr => remote'[a] = 0
    BY <1>1, <1>2, <1>3 DEF IInv, FreshInv, TypeOK
  <2>2. ASSUME NEW q \in Peers, pc'[q] \in {"gathering", "posting", "polling"}
        PROVE  remote'[att[q]] = 0
    <3>1. q # p /\ att[q] \in minted[q] /\ remote[att[q]] = 0
      BY <1>1, <1>2, <2>2 DEF IInv, AttemptInv, FreshInv
    <3> QED
      BY <1>1, <1>2, <1>4, <3>1
  <2> QED
    BY <1>1, <2>1, <2>2 DEF FreshInv
<1>8. AnswerInv'
  <2> SUFFICES ASSUME NEW q \in Peers, ~IsControlling(q),
                      NEW b \in 0..MaxAttempts, NEW g \in 0..MaxAttempts,
                      Claimed(q, b, g)'
               PROVE  Answers(q, b, g)'
    BY DEF AnswerInv
  <2>1. Claimed(q, b, g) \/ (q = Other(p) /\ b = ans.cred /\ g = att[p])
    BY <1>1, <1>2, <1>4, PeerFacts DEF Claimed
  <2>2. Answers(q, b, g)
    BY <1>5, <2>1 DEF IInv, AnswerInv
  <2>3. b # att[p] /\ q # p
    BY <1>1, <1>4, <2>2 DEF Answers
  <2> QED
    BY <1>1, <1>2, <2>2, <2>3 DEF Answers
<1>9. AnsweredInv'
    BY <1>1, <1>2, <1>4 DEF IInv, AnsweredInv
<1> QED
    BY <1>6, <1>7, <1>8, <1>9 DEF IInv

\* A peer that leaves its attempt takes nothing back: its agent keeps whatever
\* credentials it was given, and its posts stay where they are.
LEMMA AbandonIInv ==
    ASSUME IInv, TypeOK', NEW p \in Peers, Abandon(p)
    PROVE  IInv'
<1>1. /\ pc' = [pc EXCEPT ![p] = "backoff"]
      /\ att' = [att EXCEPT ![p] = 0]
      /\ seen' = [seen EXCEPT ![p] = NoOffer]
      /\ UNCHANGED <<offers, answers, ctr, minted, remote, net>>
    BY DEF Abandon
<1>2. /\ pc \in [Peers -> Stages] /\ att \in [Peers -> 0..MaxAttempts]
      /\ seen \in [Peers -> Offer] /\ minted \in [Peers -> SUBSET Attempts]
    BY DEF IInv, TypeOK
<1>3. AttemptInv' /\ FreshInv' /\ AnsweredInv'
    BY <1>1, <1>2 DEF IInv, AttemptInv, FreshInv, AnsweredInv
<1>4. OfferInv'
    BY <1>1, <1>2 DEF IInv, OfferInv, OfferOf
<1>5. AnswerInv'
  <2> SUFFICES ASSUME NEW q \in Peers, ~IsControlling(q),
                      NEW b \in 0..MaxAttempts, NEW g \in 0..MaxAttempts,
                      Claimed(q, b, g)'
               PROVE  Answers(q, b, g)'
    BY DEF AnswerInv
  <2>1. Answers(q, b, g)
    BY <1>1 DEF IInv, AnswerInv, Claimed
  <2> QED
    BY <1>1, <1>2, <2>1 DEF Answers
<1> QED
    BY <1>3, <1>4, <1>5 DEF IInv

\* The remaining steps forget messages or server state, or move a peer on
\* without giving its agent anything.
LEMMA OtherStepsIInv ==
    ASSUME IInv, TypeOK',
           \/ \E p \in Peers : OfferPosted(p) \/ PairSelected(p)
           \/ \E m \in net : LosePost(m)
           \/ ServerRestart
           \/ UNCHANGED vars
    PROVE  IInv'
<1>1. /\ pc \in [Peers -> Stages]
      /\ \A q \in Peers : q \in Sessions \X Roles /\ q[1] \in Sessions
    BY PeerFacts DEF IInv, TypeOK, Peers
<1>2. ASSUME NEW p \in Peers, OfferPosted(p) PROVE IInv'
    BY <1>1, <1>2 DEF OfferPosted, IInv, AttemptInv, FreshInv, OfferInv, OfferOf,
                      AnswerInv, Claimed, Answers, AnsweredInv
<1>3. ASSUME NEW p \in Peers, PairSelected(p) PROVE IInv'
    BY <1>1, <1>3 DEF PairSelected, IInv, AttemptInv, FreshInv, OfferInv, OfferOf,
                      AnswerInv, Claimed, Answers, AnsweredInv
<1>4. ASSUME NEW m \in net, LosePost(m) PROVE IInv'
    BY <1>4 DEF LosePost, IInv, AttemptInv, FreshInv, OfferInv, OfferOf,
                AnswerInv, Claimed, Answers, AnsweredInv
<1>5. CASE ServerRestart
  <2>1. /\ \A q \in Peers : offers'[q] = NoOffer /\ answers'[q[1]] = NoOffer
        /\ UNCHANGED <<pc, att, seen, ctr, minted, remote, net>>
    BY <1>1, <1>5 DEF ServerRestart, RestartServer
  <2> QED
    BY <2>1 DEF IInv, AttemptInv, FreshInv, OfferInv, OfferOf,
                AnswerInv, Claimed, Answers, AnsweredInv
<1>6. CASE UNCHANGED vars
    BY <1>6 DEF vars, IInv, AttemptInv, FreshInv, OfferInv, OfferOf,
                AnswerInv, Claimed, Answers, AnsweredInv
<1> QED
    BY <1>2, <1>3, <1>4, <1>5, <1>6

\* Every step of a peer, the network or the server keeps the inductive invariant.
LEMMA NextIInv == IInv /\ [Next]_vars => IInv'
<1> SUFFICES ASSUME IInv, [Next]_vars PROVE IInv'
    OBVIOUS
<1>1. TypeOK'
    BY NextTypeOK DEF IInv
<1>2. ASSUME NEW p \in Peers, PeerStep(p) PROVE IInv'
  <2>1. CASE FailExchange(p) \/ FailChecks(p) \/ EndSession(p) \/ Crash(p)
    BY <1>1, <2>1, AbandonIInv DEF FailExchange, FailChecks, EndSession, Crash
  <2> QED
    BY <1>1, <1>2, <2>1, StartAttemptIInv, GatherDoneIInv, PollOfferIInv,
       AnswerPostedIInv, PollAnswerIInv, OtherStepsIInv DEF PeerStep
<1>3. ASSUME NEW m \in net, HandlePost(m) \/ LosePost(m) PROVE IInv'
    BY <1>1, <1>3, HandlePostIInv, OtherStepsIInv
<1> QED
    BY <1>1, <1>2, <1>3, OtherStepsIInv DEF Next

-----------------------------------------------------------------------------
(* Theorems *)

\* Every reachable state of the rendezvous is well typed (Connect, the
\* reconnect loop and the server's handlers).
THEOREM TypeCorrect == Spec => []TypeOK
<1>1. Init => TypeOK
    BY InitTypeOK
<1>2. TypeOK /\ [Next]_vars => TypeOK'
    BY NextTypeOK
<1> QED
    BY <1>1, <1>2, PTL DEF Spec

\* The inductive invariant holds in every reachable state.
LEMMA Invariance == Spec => []IInv
<1>1. Init => IInv
    BY InitIInv
<1>2. IInv /\ [Next]_vars => IInv'
    BY NextIInv
<1> QED
    BY <1>1, <1>2, PTL DEF Spec

\* The nonce does its work (AwaitAnswerMatching, newGen, the echo in Connect):
\* peer-a is never left checking against an agent that was told to expect
\* another attempt of peer-a.
THEOREM PairingIsSafe == Spec => []PairingSafe
<1>1. IInv => PairingSafe
  <2> SUFFICES ASSUME IInv, NEW p \in Peers, IsControlling(p),
                      NEW a \in minted[p], remote[a] # 0
               PROVE  remote[remote[a]] \in {0, a}
    BY DEF PairingSafe
  <2>1. a \in Attempts /\ a \in 0..MaxAttempts /\ remote[a] \in 0..MaxAttempts
    BY MaxAttemptsAssumption DEF IInv, TypeOK, Attempts
  <2>2. Claimed(Other(p), remote[a], a)
    BY PeerFacts DEF Claimed
  <2>3. Answers(Other(p), remote[a], a)
    BY <2>1, <2>2, PeerFacts DEF IInv, AnswerInv
  <2> QED
    BY <2>3 DEF Answers
<1> QED
    BY <1>1, Invariance, PTL

\* Sessions sharing a server never exchange credentials (the keys of
\* Server.offers and Server.answers).
THEOREM SessionsAreIsolated == Spec => []SessionIsolation
<1>1. IInv => SessionIsolation
  <2> SUFFICES ASSUME IInv, NEW p \in Peers, NEW a \in minted[p], remote[a] # 0
               PROVE  remote[a] \in minted[Other(p)]
    BY DEF SessionIsolation
  <2>1. CASE ~IsControlling(p)
    BY <2>1 DEF IInv, AnsweredInv
  <2>2. CASE IsControlling(p)
    <3>1. a \in 0..MaxAttempts /\ remote[a] \in 0..MaxAttempts
      BY MaxAttemptsAssumption DEF IInv, TypeOK, Attempts
    <3>2. Claimed(Other(p), remote[a], a)
      BY PeerFacts DEF Claimed
    <3>3. Answers(Other(p), remote[a], a)
      BY <2>2, <3>1, <3>2, PeerFacts DEF IInv, AnswerInv
    <3> QED
      BY <3>3 DEF Answers
  <2> QED
    BY <2>1, <2>2
<1> QED
    BY <1>1, Invariance, PTL

=============================================================================
