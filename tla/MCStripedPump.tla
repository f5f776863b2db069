---------------------------- MODULE MCStripedPump ----------------------------
(* Instances of StripedPump for TLC. *)
EXTENDS StripedPump

MCPlan(l, a, fail) ==
    [quota |-> [e \in Ends |-> IF e = "listen" THEN l ELSE a], mayFail |-> fail]

MCUpload2 == {MCPlan(2, 0, FALSE)}
MCUpload3 == {MCPlan(3, 0, FALSE)}
MCDownload5 == {MCPlan(0, 5, FALSE)}
MCFullOrFailing == {MCPlan(0, 5, FALSE), MCPlan(2, 0, TRUE)}

=============================================================================
