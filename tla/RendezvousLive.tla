--------------------------- MODULE RendezvousLive ---------------------------
(***************************************************************************)
(* Rendezvous with the timers of the two reconnect loops, to ask whether   *)
(* the peers find each other again after a time of disturbances.           *)
(*                                                                         *)
(* Until the disturbances stop (Settle) anything may happen at any moment: *)
(* crashes, lost and late POSTs, restarts of the signaling server, ends of *)
(* attempts and sessions.  From then on attempts and waits end when their  *)
(* timers say so and for no other reason.  Time is counted in units of     *)
(* 24 s: an attempt has 120 s, the backoff at its cap is a draw from 48 s  *)
(* to 72 s, Serve waits 60 s for its peer and a QUIC handshake that nobody *)
(* answers is over within 10 s (quic-go's default, external).              *)
(*                                                                         *)
(* Two loops of equal periods can miss each other for ever: peer-b reads   *)
(* the offer of an attempt that is over, or answers one about to end.      *)
(* Only the jitter moves the loops against each other, and it is random:   *)
(* the model fixes the draws after Settle to ones that help (Wait).  Each  *)
(* of them has a positive probability whatever went before, and if with    *)
(* them the peers always meet, they meet after a bounded number of draws,  *)
(* the graph of states being finite.  So many lucky draws in a row come    *)
(* sooner or later with probability 1; the draws before them are made      *)
(* before Settle, where attempts begin and end at any moment.              *)
(***************************************************************************)
EXTENDS Rendezvous, FiniteSets, FiniteSetsExt

CONSTANTS
    Deadline,    \* units an attempt has (runOnce)
    Waits,       \* units the backoff may be at its cap (runReconnectLoop)
    SetupLimit,  \* units Serve (peer-a) and Dial (peer-b) wait for their peer
    MaxEarly,    \* bound: attempts before the disturbances stop
    MaxPosts     \* bound: POSTs on their way at the same time

ASSUME LiveAssumption ==
    /\ Deadline \in Nat \ {0}
    /\ Waits \in SUBSET (Nat \ {0}) /\ Waits # {} /\ IsFiniteSet(Waits)
    /\ SetupLimit \in [Roles -> Nat]
    /\ MaxEarly \in 0..MaxAttempts
    /\ MaxPosts \in Nat \ {0}

VARIABLES
    calm,    \* the disturbances have stopped
    timer,   \* units until a peer's attempt, setup or wait ends, once calm
    slow     \* a peer's attempt has let a unit pass with a step to take

timeVars == <<calm, timer, slow>>
liveVars == <<vars, timeVars>>

-----------------------------------------------------------------------------
(* Attempts without end.  The loops make attempts for ever, so once calm a    *)
(* number is used again when nothing refers to the attempt it stood for.      *)

\* Stands for all attempts that nothing refers to.
Forgotten == MaxAttempts

\* The attempts somebody may still use: a peer's own and the one it was given,
\* and those in an offer or answer that is stored, on its way or being answered.
InUse ==
    LET bodies == {offers[k] : k \in DOMAIN offers} \cup {answers[s] : s \in Sessions}
                  \cup {m.body : m \in net} \cup {seen[p] : p \in Peers}
        own == {att[p] : p \in Peers} \ {0}
    IN  own \cup {remote[a] : a \in own}
            \cup {o.cred : o \in bodies} \cup {o.gen : o \in bodies}

Free == Attempts \ (InUse \cup {Forgotten})

\* Nothing is kept of the free attempts but what is opened.
Reuse(opened) ==
    /\ open' = (open \ Free) \cup opened
    /\ minted' = [p \in Peers |-> minted[p] \ Free]
    /\ remote' = [a \in Attempts |-> IF a \in Free THEN 0
                                     ELSE IF remote[a] \in Free THEN Forgotten
                                     ELSE remote[a]]

\* StartAttempt with the least number that is free.
Restart(p) ==
    /\ pc[p] = "backoff"
    /\ Free # {}
    /\ pc' = [pc EXCEPT ![p] = "gathering"]
    /\ att' = [att EXCEPT ![p] = Min(Free)]
    /\ Reuse({Min(Free)})
    /\ UNCHANGED <<offers, answers, seen, ctr, net, acks>>

-----------------------------------------------------------------------------
(* Timers *)

\* A timer is set when a peer's attempt, setup or wait begins.
SetTimer(p, units) ==
    /\ timer' = IF calm THEN [timer EXCEPT ![p] = units] ELSE timer
    /\ slow' = [slow EXCEPT ![p] = FALSE]
    /\ UNCHANGED calm

\* The other end of p's connection is there, or about to be.
Met(p) ==
    LET q == Other(p) IN
    /\ pc[p] = "connected"
    /\ att[q] = remote[att[p]]
    /\ pc[q] \in {"checking", "connected"}

\* How far peer-a will be in its round, an attempt and the shortest wait, when p
\* has waited w units.
Phase(p, w) ==
    LET q == Other(p) IN
    (w - timer[q] + (IF pc[q] = "backoff" THEN 0 ELSE Deadline)) % (Deadline + Min(Waits))

\* Mutant: no jitter.
WaitNoJitter(p) == Min(Waits)

\* The draws that help: peer-b starts two units after peer-a, when the new offer is
\* there and time for the answer is left, or else comes nearer to that round by round.
Wait(p) ==
    LET lucky == {w \in Waits : Phase(p, w) = 2} IN
    IF IsControlling(p) THEN Min(Waits)
                        ELSE Max(IF lucky # {} THEN lucky ELSE Waits)

-----------------------------------------------------------------------------

\* The exchange of an attempt.
Exchange(p) ==
    \/ Cardinality(net) < MaxPosts /\ (GatherDone(p) \/ PollOffer(p))
    \/ OfferPosted(p) \/ AnswerPosted(p) \/ PollAnswer(p)

\* A peer goes on as runReconnectLoop and Connect do.
Proceed(p) ==
    \/ ~calm /\ ctr < MaxEarly /\ StartAttempt(p) /\ UNCHANGED timeVars
    \/ calm /\ timer[p] = 0 /\ Restart(p) /\ SetTimer(p, Deadline)
    \/ Exchange(p) /\ UNCHANGED timeVars
    \/ PairSelected(p) /\ SetTimer(p, SetupLimit[p[2]])

Ends(p) == FailExchange(p) \/ FailChecks(p) \/ EndSession(p)

HasRequest(p) == \E m \in net : m.peer = p /\ m.body.cred = att[p]

\* The 120 s are over, or the request's 10 s if nothing will answer it, or Serve or
\* Dial gives up on a peer that is not there.
Expire(p) ==
    /\ calm
    /\ ~Met(p)
    /\ \/ timer[p] = 0
       \/ pc[p] = "posting" /\ ~HasRequest(p) /\ att[p] \notin acks
       \/ pc[p] = "connected"
    /\ Ends(p)
    /\ SetTimer(p, Wait(p))

Serve == (\E m \in net : HandlePost(m)) /\ UNCHANGED timeVars

\* A unit of time passes.  No timer is overdue.  The steps of an attempt, which have
\* limits of their own (10 s for gathering and for each request, 2 s between two
\* polls), together take less than a unit, and two agents that can pair do so at once;
\* what an attempt that is over has sent has arrived.
Tick ==
    LET waiting == {p \in Peers : HasRequest(p) \/ ENABLED Proceed(p)} IN
    /\ calm
    /\ \A p \in Peers : Met(p) \/ timer[p] > 0
    /\ \A p \in waiting : ~slow[p] /\ pc[p] # "checking"
    /\ \A m \in net : m.body.cred = att[m.peer]
    /\ timer' = [p \in Peers |-> IF Met(p) THEN timer[p] ELSE timer[p] - 1]
    /\ slow' = [p \in Peers |-> slow[p] \/ p \in waiting]
    /\ UNCHANGED <<vars, calm>>

Disturb ==
    /\ ~calm
    /\ \/ \E p \in Peers : Crash(p) \/ Ends(p)
       \/ \E m \in net : LosePost(m)
       \/ ServerRestart
    /\ UNCHANGED timeVars

\* The disturbances are over: what they left on its way has arrived, a session that had
\* lost its other end has noticed (MaxIdleTimeout) and peer-a waits to try again, which
\* it comes to unless its session lasts.  Each peer has any part of its time left.
Settle ==
    /\ ~calm
    /\ net = {}
    /\ \A p \in Peers : IF IsControlling(p) THEN pc[p] = "backoff" ELSE pc[p] # "connected"
    /\ calm' = TRUE
    /\ \E t \in [Peers -> 0..Max({Deadline} \cup Waits)] :
        /\ \A p \in Peers : t[p] <= IF pc[p] = "backoff" THEN Max(Waits) ELSE Deadline
        /\ timer' = t
    /\ Reuse({})
    /\ UNCHANGED <<offers, answers, pc, att, seen, ctr, net, acks, slow>>

LiveInit ==
    /\ Init
    /\ calm = FALSE
    /\ timer = [p \in Peers |-> 0]
    /\ slow = [p \in Peers |-> FALSE]

LiveNext ==
    \/ \E p \in Peers : Proceed(p) \/ Expire(p)
    \/ Serve \/ Tick \/ Disturb \/ Settle

\* Goroutines run, timers fire and time passes.
Fairness ==
    /\ \A p \in Peers : WF_liveVars(Proceed(p)) /\ WF_liveVars(Expire(p))
    /\ WF_liveVars(Serve) /\ WF_liveVars(Tick)

LiveSpec == LiveInit /\ [][LiveNext]_liveVars /\ Fairness

Joined(s) ==
    \A p \in {s} \X Roles :
        /\ pc[p] = "connected"
        /\ remote[att[p]] = att[Other(p)]

\* Whatever stale offers and answers, open agents and shifted timers the disturbances
\* leave, and however often the two loops of runReconnectLoop just miss each other, once
\* the disturbances stop they end with both peers holding the two ends of one
\* connection, if the jitter helps for long enough.
Convergence == \A s \in Sessions : <>calm => <>[]Joined(s)

=============================================================================
