------------------------------- MODULE MCBench -------------------------------
(* An instance of Bench for TLC. *)
EXTENDS Bench

MCTimes == {1, 2}

=============================================================================
