------------------------- MODULE ForwardedConnection -------------------------
(***************************************************************************)
(* What internal/forward promises to the two applications of a forwarded   *)
(* TCP connection, without stripes, sequence numbers or goroutines: a      *)
(* pipe in each direction.  What arrives is the next thing that was sent   *)
(* and has not arrived, and neither application's connection is closed     *)
(* until one of them has ended its sending or the session was lost.        *)
(* StripedPump implements it.                                              *)
(***************************************************************************)
EXTENDS Naturals, Sequences

CONSTANT Sides      \* the two ends of the connection

VARIABLES
    sent,       \* chunks taken from the application of each side
    delivered,  \* what was handed to the application of each side
    closed,     \* whether the application's connection was closed on it
    over        \* whether there was a reason to close

absVars == <<sent, delivered, closed, over>>

Init ==
    /\ sent = [s \in Sides |-> 0]
    /\ delivered = [s \in Sides |-> <<>>]
    /\ closed = [s \in Sides |-> FALSE]
    /\ over = FALSE

Take(s) ==
    /\ ~closed[s]
    /\ sent' = [sent EXCEPT ![s] = @ + 1]
    /\ UNCHANGED <<delivered, closed, over>>

Deliver(from, to) ==
    /\ from # to /\ ~closed[to]
    /\ Len(delivered[to]) < sent[from]
    /\ delivered' = [delivered EXCEPT ![to] = Append(@, Len(@) + 1)]
    /\ UNCHANGED <<sent, closed, over>>

HangUp ==
    /\ ~over /\ over' = TRUE
    /\ UNCHANGED <<sent, delivered, closed>>

Close(s) ==
    /\ over /\ ~closed[s]
    /\ closed' = [closed EXCEPT ![s] = TRUE]
    /\ UNCHANGED <<sent, delivered, over>>

Next ==
    \/ \E s \in Sides : Take(s) \/ Close(s)
    \/ \E from, to \in Sides : Deliver(from, to)
    \/ HangUp

Spec == Init /\ [][Next]_absVars

=============================================================================
