------------------------- MODULE MCTransportSession -------------------------
(* TransportSession for TLC; the configuration gives all its constants. *)
EXTENDS TransportSession

=============================================================================
