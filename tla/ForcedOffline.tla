---------------------------- MODULE ForcedOffline ----------------------------
(***************************************************************************)
(* What "forced offline" promises, with no word on how: a user on whom a   *)
(* ban has been enforced has no access until the ban is over.              *)
(***************************************************************************)
CONSTANT User

VARIABLES
    online,     \* users with a window or a tunnel
    banned      \* users on whom a ban has been enforced and still runs

Init ==
    /\ online = {}
    /\ banned = {}

Connect(u) ==
    /\ u \notin banned
    /\ online' = online \cup {u}
    /\ UNCHANGED banned

\* A ban is enforced when nothing of the user is left.
Enforce(u) ==
    /\ u \notin online
    /\ banned' = banned \cup {u}
    /\ UNCHANGED online

\* Windows and tunnels end, bans run out or are being renewed.
Expire ==
    /\ online' \subseteq online
    /\ banned' \subseteq banned

Next ==
    \/ \E u \in User : Connect(u) \/ Enforce(u)
    \/ Expire

Spec == Init /\ [][Next]_<<online, banned>>

\* The promise in one invariant.
Barred == online \cap banned = {}
=============================================================================
