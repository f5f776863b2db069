--------------------------- MODULE SignalingServer ---------------------------
(***************************************************************************)
(* The signaling server of internal/signaling/server.go: two in-memory     *)
(* maps behind one mutex, so every handler is one atomic step.  A session  *)
(* holds one offer per role and one answer.                                *)
(*                                                                         *)
(* An Offer (types.go; Answer is the same type) is abstracted to the two   *)
(* things the protocol tells apart: `cred`, which attempt's agent the      *)
(* ufrag, password and candidates belong to, and `gen`, the nonce that     *)
(* binds an answer to an offer.  Attempts are numbered from 1, so 0 stands *)
(* for a missing value and NoOffer for a map entry that does not exist.    *)
(***************************************************************************)
EXTENDS Naturals

CONSTANTS Sessions,     \* the session ids the server is used with
          MaxAttempts   \* bound: how many agents the peers create in all

ASSUME MaxAttemptsAssumption == MaxAttempts \in Nat

VARIABLES offers,       \* Server.offers, keyed by session id and role
          answers       \* Server.answers, keyed by session id

serverVars == <<offers, answers>>

Roles == {"peer-a", "peer-b"}

Attempts == 1..MaxAttempts

Offer == [cred : 0..MaxAttempts, gen : 0..MaxAttempts]

NoOffer == [cred |-> 0, gen |-> 0]

ServerTypeOK ==
    /\ offers \in [Sessions \X Roles -> Offer]
    /\ answers \in [Sessions -> Offer]

\* NewServer: both maps are empty.
ServerInit ==
    /\ offers = [k \in Sessions \X Roles |-> NoOffer]
    /\ answers = [s \in Sessions |-> NoOffer]

\* Mutant: the offers keyed by role alone.
HandlePostOfferAnySession(s, r, o) ==
    /\ offers' = [k \in Sessions \X Roles |-> IF k[2] = r THEN o ELSE offers[k]]
    /\ answers' = [answers EXCEPT ![s] = NoOffer]

\* POST /offer: a new offer replaces the role's previous one and invalidates
\* the session's answer, whichever offer that answer was made for.
HandlePostOffer(s, r, o) ==
    /\ offers' = [offers EXCEPT ![<<s, r>>] = o]
    /\ answers' = [answers EXCEPT ![s] = NoOffer]

\* POST /answer: the last answer wins; nothing relates it to the offer.
HandlePostAnswer(s, a) ==
    /\ answers' = [answers EXCEPT ![s] = a]
    /\ UNCHANGED offers

\* GET /offer and GET /answer, NoOffer being the 404 reply.
GetOffer(s, r) == offers[<<s, r>>]

GetAnswer(s) == answers[s]

\* Mutant: the maps are not made.
RestartServerNilMaps ==
    /\ offers' = [k \in {} |-> NoOffer]
    /\ answers' = [s \in {} |-> NoOffer]

\* The state is not persisted: a restarted server has lost it.
RestartServer ==
    /\ offers' = [k \in Sessions \X Roles |-> NoOffer]
    /\ answers' = [s \in Sessions |-> NoOffer]

=============================================================================
