---------------------------- MODULE DarkFirewall ----------------------------
(***************************************************************************)
(* The kernel's set of admitted addresses (darkfw) beside the allow list,  *)
(* in a gateway started with -pf.  Three goroutines write to the kernel,   *)
(* each by running a command outside Allowlist.mu:                         *)
(*                                                                         *)
(*   - the SPA loop adds the address of a window it has opened;            *)
(*   - the reaper takes expired windows off the allow list, then looks at  *)
(*     each address again and deletes it unless it has a new window;       *)
(*   - the poller does the same with the windows of a banned user.         *)
(*                                                                         *)
(* The set outlives the process; a gateway that starts empties it, and     *)
(* goes on if it cannot.  Nothing is done about it when a gateway ends.    *)
(* Windows and bans are kept as the time left to them, so that the clock   *)
(* needs no bound; a window whose time is 0 is still open, as in           *)
(* Allowlist, where the deadline itself is inside it.                      *)
(***************************************************************************)
EXTENDS Integers, FiniteSets

CONSTANTS
    IP,
    User,
    TTL,        \* life of a window
    BanTTL,     \* length of a ban
    Bannable,   \* users the poller may be told to force offline
    NoIP

ASSUME FirewallAssumption ==
    /\ TTL \in Nat /\ BanTTL \in Nat
    /\ Bannable \subseteq User
    /\ NoIP \notin IP

Remover == {"reaper", "poller"}

VARIABLES
    up,         \* the gateway runs
    m,          \* the allow list
    deny,       \* user -> time left to its ban
    rules,      \* the kernel's set
    opening,    \* the address the SPA loop is about to add, or NoIP
    batch,      \* remover -> addresses it took off and has not looked at again
    cur,        \* remover -> the address it is about to delete, or NoIP
    stray,      \* history: addresses whose rule may be left behind
    overtaken   \* history: removers whose address knocked after their look at it

hist == <<stray, overtaken>>
vars == <<up, m, deny, rules, opening, batch, cur, hist>>

\* left = -1: the window is over, and waits for the reaper.
Entry == [ip : IP, user : User, left : -1 .. TTL]

TypeOK ==
    /\ up \in BOOLEAN
    /\ m \subseteq Entry
    /\ deny \in [User -> 0 .. BanTTL]
    /\ rules \subseteq IP
    /\ opening \in IP \cup {NoIP}
    /\ batch \in [Remover -> SUBSET IP]
    /\ cur \in [Remover -> IP \cup {NoIP}]
    /\ stray \subseteq IP
    /\ overtaken \subseteq Remover

Nothing ==
    /\ m = {}
    /\ deny = [u \in User |-> 0]
    /\ opening = NoIP
    /\ batch = [r \in Remover |-> {}]
    /\ cur = [r \in Remover |-> NoIP]
    /\ stray = {}
    /\ overtaken = {}

\* Whatever an earlier run left behind in the kernel.
Init ==
    /\ up = FALSE
    /\ rules \in SUBSET IP
    /\ Nothing

Allowed(ip) == \E e \in m : e.ip = ip /\ e.left >= 0

Listed(ip) == \E e \in m : e.ip = ip

-----------------------------------------------------------------------------
(* Slips the properties are tried against. *)

\* The loop over the batch ends at the first address that has a new window.
LookBreaks(r) ==
    /\ cur[r] = NoIP
    /\ \E ip \in batch[r] :
          /\ batch' = [batch EXCEPT ![r] = IF Allowed(ip) THEN {} ELSE @ \ {ip}]
          /\ cur' = [cur EXCEPT ![r] = IF Allowed(ip) THEN NoIP ELSE ip]
    /\ UNCHANGED <<up, m, deny, rules, opening, hist>>

\* There is no second look.
LookAway(r) ==
    /\ cur[r] = NoIP
    /\ \E ip \in batch[r] :
          /\ batch' = [batch EXCEPT ![r] = @ \ {ip}]
          /\ cur' = [cur EXCEPT ![r] = ip]
    /\ UNCHANGED <<up, m, deny, rules, opening, hist>>

\* The windows are dropped, the addresses are not handed out.
ReapForgets ==
    /\ up
    /\ batch["reaper"] = {} /\ cur["reaper"] = NoIP
    /\ m' = {e \in m : e.left >= 0}
    /\ UNCHANGED <<up, deny, rules, opening, batch, cur, hist>>

-----------------------------------------------------------------------------

\* Flush, before the SPA loop is started; its error is dropped, and the set is
\* then what it was.
Start ==
    /\ ~up
    /\ up' = TRUE
    /\ \/ rules' = {} /\ UNCHANGED stray
       \/ stray' = rules /\ UNCHANGED rules
    /\ UNCHANGED <<m, deny, opening, batch, cur, overtaken>>

\* The process ends, in whatever way.
Stop ==
    /\ up
    /\ up' = FALSE
    /\ m' = {}
    /\ deny' = [u \in User |-> 0]
    /\ opening' = NoIP
    /\ batch' = [r \in Remover |-> {}]
    /\ cur' = [r \in Remover |-> NoIP]
    /\ stray' = {}
    /\ overtaken' = {}
    /\ UNCHANGED rules

\* Allow, up to the end of its critical section.
Knock(u, ip) ==
    /\ up
    /\ opening = NoIP
    /\ deny[u] = 0
    /\ m' = {e \in m : e.ip # ip} \cup {[ip |-> ip, user |-> u, left |-> TTL]}
    /\ opening' = ip
    /\ stray' = stray \ {ip}
    /\ overtaken' = overtaken \cup {r \in Remover : cur[r] = ip}
    /\ UNCHANGED <<up, deny, rules, batch, cur>>

\* OnAllow: the command that adds the address is done, or fails.
AddRule ==
    /\ opening # NoIP
    /\ rules' \in {rules, rules \cup {opening}}
    /\ opening' = NoIP
    /\ UNCHANGED <<up, m, deny, batch, cur, hist>>

Reap ==
    /\ up
    /\ batch["reaper"] = {} /\ cur["reaper"] = NoIP
    /\ m' = {e \in m : e.left >= 0}
    /\ batch' = [batch EXCEPT !["reaper"] = {e.ip : e \in m \ m'}]
    /\ UNCHANGED <<up, deny, rules, opening, cur, hist>>

\* DenyUser, RevokeUser and KillUser.
Revoke(u) ==
    /\ up
    /\ u \in Bannable
    /\ batch["poller"] = {} /\ cur["poller"] = NoIP
    /\ deny' = [deny EXCEPT ![u] = BanTTL]
    /\ m' = {e \in m : e.user # u}
    /\ batch' = [batch EXCEPT !["poller"] = {e.ip : e \in m \ m'}]
    /\ stray' = IF opening \in {e.ip : e \in m \ m'} THEN stray \cup {opening} ELSE stray
    /\ UNCHANGED <<up, rules, opening, cur, overtaken>>

\* The second look at an address: with a new window it is passed over.
Look(r) ==
    /\ cur[r] = NoIP
    /\ \E ip \in batch[r] :
          /\ batch' = [batch EXCEPT ![r] = @ \ {ip}]
          /\ cur' = [cur EXCEPT ![r] = IF Allowed(ip) THEN NoIP ELSE ip]
    /\ UNCHANGED <<up, m, deny, rules, opening, hist>>

\* The command that deletes the address; one that fails is not tried again.
DeleteRule(r) ==
    /\ cur[r] # NoIP
    /\ \/ rules' = rules \ {cur[r]} /\ UNCHANGED stray
       \/ stray' = stray \cup {cur[r]} /\ UNCHANGED rules
    /\ cur' = [cur EXCEPT ![r] = NoIP]
    /\ overtaken' = overtaken \ {r}
    /\ UNCHANGED <<up, m, deny, opening, batch>>

\* A tick is long beside the command that adds an address.
Tick ==
    /\ up
    /\ opening = NoIP
    /\ m' = {[e EXCEPT !.left = IF @ >= 0 THEN @ - 1 ELSE -1] : e \in m}
    /\ deny' = [u \in User |-> IF deny[u] > 0 THEN deny[u] - 1 ELSE 0]
    /\ UNCHANGED <<up, rules, opening, batch, cur, hist>>

Next ==
    \/ Start \/ Stop
    \/ \E u \in User : Revoke(u) \/ \E ip \in IP : Knock(u, ip)
    \/ AddRule
    \/ Reap
    \/ \E r \in Remover : Look(r) \/ DeleteRule(r)
    \/ Tick

Spec == Init /\ [][Next]_vars

\* While the gateway runs, commands return, the reaper comes round and time
\* passes.  Nobody has to start it again.
Fairness ==
    /\ WF_vars(AddRule) /\ WF_vars(Reap) /\ SF_vars(Tick)
    /\ \A r \in Remover : WF_vars(Look(r)) /\ WF_vars(DeleteRule(r))

FairSpec == Spec /\ Fairness

-----------------------------------------------------------------------------

\* Someone is at it: the address is about to be deleted, or to be looked at.
Pending(ip) == \E r \in Remover : ip \in batch[r] \/ cur[r] = ip

\* While the gateway runs, every address the kernel lets in has an entry in
\* the allow list, or is on its way out (pf.go:2: only addresses that knocked,
\* and only for their TTL).  There are three ways around it: a ban that falls
\* between the opening of a window and its rule, a deletion that fails, and
\* rules of an earlier run that could not be taken out at the start (main.go:136
\* drops the error); each ends with the next knock from the address.
\* (Every variable keeps its type, too.)
RuleIsBacked ==
    /\ TypeOK
    /\ up => \A ip \in rules : Listed(ip) \/ Pending(ip) \/ ip \in stray

\* Once the window of an address is over, its rule goes, whatever bans, knocks
\* and other removals are about, as long as the gateway runs; but for the three
\* ways around (the comment at pf.go:3 knows none).
ExpiredRulesGo ==
    \A ip \in IP : (up /\ ip \in rules /\ ~Allowed(ip))
                       ~> (ip \notin rules \/ Allowed(ip) \/ ip \in stray \/ ~up)

\* The comment at main.go:147: a stale deletion does not hit the rule of an
\* address that has knocked again.  The second look keeps that promise for
\* every knock before it, from whichever user; a knock between the look and
\* the command is the one that still loses its rule.
LiveRuleStays ==
    [][\A r \in Remover : cur[r] \in rules \ rules' /\ up' /\ Allowed(cur[r])
            => r \in overtaken]_vars

=============================================================================
