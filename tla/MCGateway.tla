------------------------------ MODULE MCGateway ------------------------------
(* Small instances of Gateway: "alice" and "Alice" spell one user, "bob" is  *)
(* another one.                                                              *)
EXTENDS Gateway

CONSTANTS alice, Alice, bob, A, B, ip1, ip2

MCNormUser == [a \in Account |-> IF a = bob THEN B ELSE A]

\* Each user behind an address of its own.
HomeKnocks == {x \in Account \X IP : (x[1] = bob) = (x[2] = ip2)}

\* All users behind one NAT address.
SharedKnocks == Account \X IP

FromIp1 == [c \in Conn |-> ip1]
=============================================================================
