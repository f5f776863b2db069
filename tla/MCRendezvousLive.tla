-------------------------- MODULE MCRendezvousLive --------------------------
(* Instances of RendezvousLive for TLC. *)
EXTENDS RendezvousLive

MCSession1 == {"s"}
MCWaits == {2, 3}
MCSetupLimit == [r \in Roles |-> IF r = "peer-a" THEN 3 ELSE 1]

=============================================================================
