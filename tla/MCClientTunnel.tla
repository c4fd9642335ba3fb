--------------------------- MODULE MCClientTunnel ---------------------------
(* Small instances of ClientTunnel.                                          *)
EXTENDS ClientTunnel

CONSTANTS Ann, Bob, Staff, oa, b1

MCMe == [user |-> Ann, role |-> Staff]
\* A neighbour behind the same address.
MCWho == {MCMe, [user |-> Bob, role |-> Staff]}

\* One resource, for Ann or for Bob.
Grant(u) == [x \in {oa} |-> [backend |-> b1, users |-> {u}, roles |-> {}]]
MCPolicies == {Grant(Ann), Grant(Bob)}
=============================================================================
