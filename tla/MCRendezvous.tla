---------------------------- MODULE MCRendezvous ----------------------------
(* Instances of Rendezvous for TLC. *)
EXTENDS Rendezvous, TLC

CONSTANTS s1, s2

MCSession1 == {s1}
MCSessions2 == {s1, s2}

\* No definition depends on which session is which.
MCSymmetry == Permutations({s1, s2})

=============================================================================
