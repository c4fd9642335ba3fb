------------------------------ MODULE Allowlist ------------------------------
(***************************************************************************)
(* The SPA allow list of the gateway (gateway/internal/spa): one window    *)
(* per source address, opened by a knock for TTL, and one deny deadline    *)
(* per user.  Every operation runs under Allowlist.mu, so each one is a    *)
(* single step; the module gives the steps their effect on the two maps    *)
(* and leaves the rest of the state to the module that extends it.         *)
(*                                                                         *)
(* Accounts are written in several ways ("Alice", " alice"); NormUser maps *)
(* a spelling to the user it stands for.  Windows keep the spelling, deny  *)
(* is keyed by the user.  Role and first-knock time are left out: they are *)
(* carried along and decide nothing here.                                  *)
(***************************************************************************)
EXTENDS Integers, FiniteSets

CONSTANTS
    IP,         \* source addresses
    Account,    \* spellings of accounts, as found in tokens and policies
    User,       \* normalised accounts
    NormUser,   \* Account -> User: lower case, blanks trimmed
    TTL         \* life of a window, in ticks

ASSUME AllowlistAssumption ==
    /\ NormUser \in [Account -> User]
    /\ TTL \in Nat

VARIABLES
    now,        \* the gateway's clock
    m,          \* the windows: a set of entries, at most one per address
    deny        \* user -> end of the ban, 0 when there is none

alVars == <<now, m, deny>>

Entry == [ip : IP, user : Account, until : Nat]

(***************************************************************************)
(* Readings of the table.                                                  *)
(***************************************************************************)

\* entry.until has not passed: !now.After(until), so the deadline itself is
\* still inside the window.
Live(e) == now <= e.until

\* Allowed(ip): the live entry of the address, as a set of at most one.
Allowed(ip) == {e \in m : e.ip = ip /\ Live(e)}

\* A ban ends at its deadline: now.Before(until).
Denied(u) == now < deny[u]

(***************************************************************************)
(* Operations.                                                             *)
(***************************************************************************)

AlInit ==
    /\ m = {}
    /\ deny = [u \in User |-> 0]

\* Slips the properties are tried against: the last list wins; windows are
\* matched by spelling; the ban is not looked up where the window is written.
DenyLast(a, until) == deny' = [deny EXCEPT ![NormUser[a]] = until]

RevokeSpelling(a) == m' = {e \in m : e.user # a}

AllowUnchecked(ip, a) ==
    /\ m' = {e \in m : e.ip # ip} \cup {[ip |-> ip, user |-> a, until |-> now + TTL]}
    /\ UNCHANGED deny

\* A ban that is already over by this clock, or no later than the one in
\* force, changes nothing.
DenyUser(a, until) ==
    deny' = IF now < until /\ deny[NormUser[a]] < until
            THEN [deny EXCEPT ![NormUser[a]] = until]
            ELSE deny

RevokeUser(a) == m' = {e \in m : NormUser[e.user] # NormUser[a]}

\* The ban is looked up and the window written under one lock.  The entry of
\* the address is replaced whoever it belonged to.
Allow(ip, a) ==
    /\ ~Denied(NormUser[a])
    /\ m' = {e \in m : e.ip # ip} \cup {[ip |-> ip, user |-> a, until |-> now + TTL]}
    /\ deny' = [deny EXCEPT ![NormUser[a]] = 0]

Reap == m' = {e \in m : Live(e)}

=============================================================================
