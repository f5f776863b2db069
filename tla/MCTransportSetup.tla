-------------------------- MODULE MCTransportSetup --------------------------
(* TransportSetup for TLC; the configuration gives all its constants. *)
EXTENDS TransportSetup

=============================================================================
