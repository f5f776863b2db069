--------------------------- MODULE MCStreamRouter ---------------------------
(* An instance of StreamRouter for TLC: a build with three stripes, and the one-
   stripe build with the same file at both peers, a name that is too long, a
   file the other peer does not have, and a file that validate refuses. *)
EXTENDS StreamRouter

CONSTANTS c1, c2

MCConns == {c1, c2}
MCLong == {"long"}

\* A file in which peer-a listens and peer-b dials.
MCFile(listen, dial) ==
    [session |-> TRUE, url |-> TRUE,
     peers |-> [role \in RoleNames |->
                    IF role = "peer-a" THEN [listen |-> listen, dial |-> <<>>]
                    ELSE [listen |-> <<>>, dial |-> dial]]]

MCListen(name, remote) == [name |-> name, remote |-> remote]
MCDial(name, to) == [name |-> name, port |-> to]

MCOne == MCFile(<<MCListen("web", 1)>>, <<>>)
MCTwo == MCFile(<<MCListen("web", 1), MCListen("db", 2)>>, <<MCDial("web", 3)>>)
MCTwice == MCFile(<<MCListen("web", 1), MCListen("web", 2)>>, <<>>)
MCTooLong == MCFile(<<MCListen("long", 1)>>, <<>>)

MCSetup(n, clients, mine, theirs) ==
    [n |-> n, clients |-> clients, role |-> "peer-a", mine |-> mine, theirs |-> theirs]

MCSetups ==
    {MCSetup(3, {c1, c2}, MCOne, MCOne), MCSetup(1, {c1, c2}, MCOne, MCOne),
     MCSetup(1, {c1, c2}, MCTwo, MCTwo), MCSetup(1, {c1, c2}, MCTwo, MCOne),
     MCSetup(1, {c1}, MCTooLong, MCTooLong), MCSetup(1, {c1}, MCTwice, MCTwice)}

=============================================================================
