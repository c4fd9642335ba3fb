-------------------------- MODULE MCOnlineSessions --------------------------
(* A small instance of OnlineSessions.                                       *)
EXTENDS OnlineSessions, TLC

CONSTANTS ip1

\* The promises are about sessions from life, so this instance has no
\* demonstration data.
MCDemo == {}

Symmetry == Permutations(User)
=============================================================================
