---------------------------- MODULE MCDirectory ----------------------------
(* One seed beside the administrator; an empty database, and one of an      *)
(* older version in which the names of both are taken, by other roles.      *)
EXTENDS Directory

Old(a, role) ==
    [acct |-> a, seeded |-> FALSE, role |-> role, hasRole |-> FALSE, status |-> "active", pass |-> NoHash]

MCSeeds == <<[acct |-> "ann", role |-> "user", status |-> "disabled"]>>
MCDatabases == {<<>>, <<Old("root", "user"), Old("ann", "admin")>>}

=============================================================================
