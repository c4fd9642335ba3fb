----------------------------- MODULE BanPipeline -----------------------------
(***************************************************************************)
(* A ban on its way from the control plane to the gateway.  The control    *)
(* plane keeps timed bans in memory (a kick, a disabled account) and two   *)
(* lasting reasons to bar a user in its database (the account's status,    *)
(* the verdict on its devices).  The gateway asks for the list every Poll: *)
(* the reply holds the timed bans with their own deadline, and every other *)
(* barred user with a deadline that each reply moves on ("rolling").       *)
(*                                                                         *)
(* Deadlines are kept as the time left to them, 0 for none: an entry whose *)
(* time is over is ignored by every reader, the same as an absent one.  So *)
(* the clock needs no bound.  A session token outlives all of this, hence  *)
(* a user may knock at any time.                                           *)
(***************************************************************************)
EXTENDS Integers

CONSTANTS
    User,       \* accounts, normalised
    Req,        \* status changes that can be under way at the same time
    Kickable,   \* users an administrator may kick
    Reporting,  \* users whose devices report
    BanTTL,     \* kickBanTTL
    Poll,       \* the gateway's polling interval
    TTL,        \* life of a window
    MaxFail     \* bound on the polls in a row that go wrong

ASSUME BanAssumption ==
    /\ Kickable \subseteq User
    /\ Reporting \subseteq User
    /\ BanTTL \in Nat /\ Poll \in Nat \ {0} /\ TTL \in Nat \ {0} /\ MaxFail \in Nat
    /\ Poll * (MaxFail + 1) < BanTTL

VARIABLES
    status,     \* control, database: user -> status of the account
    blocked,    \* control, database: users with a device judged "block"
    revoked,    \* control, memory: user -> time left to its timed ban
    pend,       \* status changes between the database and the ban table
    pollPc,     \* where the poll is
    pollIn,     \* time to the next poll
    list,       \* the last reply: user -> time left to the ban in it
    todo,       \* users of the reply not dealt with yet
    clean,      \* nothing has gone wrong in this poll
    fails,      \* polls in a row that went wrong
    informed,   \* a clean poll ended since the gateway started
    serving,    \* the gateway listens
    window,     \* gateway: user -> time left to its window
    deny,       \* gateway: user -> time left to its ban
    applied,    \* gateway: user -> time left to the last ban dealt with
    barredFor,  \* history: for how long there has been a lasting reason and none was lifted
    untimed     \* history: for how long there has been no timed ban

dbVars == <<status, blocked>>
pollVars == <<pollPc, pollIn, list, todo, clean, fails, informed, serving>>
gwVars == <<window, deny, applied>>
hist == <<barredFor, untimed>>
vars == <<dbVars, revoked, pend, pollVars, gwVars, hist>>

Status == {"active", "idle", "disabled"}    \* "locked" is treated as "disabled"

Change == [req : Req, user : User, status : Status]

\* By then every lasting reason must have been noticed.
Notice == Poll * (MaxFail + 1) + 1

TypeOK ==
    /\ status \in [User -> Status]
    /\ blocked \subseteq Reporting
    /\ revoked \in [User -> 0 .. BanTTL]
    /\ pend \subseteq Change
    /\ pollPc \in {"boot", "idle", "users", "posture", "apply"}
    /\ pollIn \in 0 .. Poll
    /\ list \in [User -> 0 .. BanTTL]
    /\ todo \subseteq User
    /\ clean \in BOOLEAN /\ informed \in BOOLEAN /\ serving \in BOOLEAN
    /\ fails \in 0 .. MaxFail
    /\ window \in [User -> 0 .. TTL]
    /\ deny \in [User -> 0 .. BanTTL]
    /\ applied \in [User -> 0 .. BanTTL]
    /\ barredFor \in [User -> 0 .. Notice]
    /\ untimed \in [User -> 0 .. Notice]

NoTime == [u \in User |-> 0]

Init ==
    /\ status = [u \in User |-> "active"]
    /\ blocked = {}
    /\ revoked = NoTime
    /\ pend = {}
    /\ pollPc = "boot"
    /\ pollIn = 0
    /\ list = NoTime
    /\ todo = {}
    /\ clean = TRUE
    /\ fails = 0
    /\ informed = FALSE
    /\ serving = FALSE
    /\ window = NoTime
    /\ deny = NoTime
    /\ applied = NoTime
    /\ barredFor = NoTime
    /\ untimed = NoTime

Larger(a, b) == IF a < b THEN b ELSE a
Smaller(a, b) == IF a < b THEN a ELSE b

-----------------------------------------------------------------------------
(***************************************************************************)
(* Slips the properties are tried against.                                 *)
(***************************************************************************)

\* Everyone who is not active is blocked.
BlockedUnlessActive(u) == status[u] # "active"

\* The rolling deadline is the next poll.
RolledToNextPoll(S) == [u \in User |-> IF u \in S /\ list[u] = 0 THEN Poll ELSE list[u]]

\* A ban is dealt with once per user.
ApplyOnce(u) ==
    /\ pollPc = "apply"
    /\ u \in todo
    /\ todo' = todo \ {u}
    /\ IF applied[u] > 0
       THEN UNCHANGED gwVars
       ELSE /\ applied' = [applied EXCEPT ![u] = list[u]]
            /\ deny' = [deny EXCEPT ![u] = Larger(deny[u], list[u])]
            /\ window' = [window EXCEPT ![u] = 0]
    /\ UNCHANGED <<dbVars, revoked, pend, pollPc, pollIn, list, clean, fails,
                   informed, serving, hist>>

\* Windows are left to run out.
ApplyKeepsWindow(u) ==
    /\ pollPc = "apply"
    /\ u \in todo
    /\ todo' = todo \ {u}
    /\ IF applied[u] >= list[u]
       THEN UNCHANGED gwVars
       ELSE /\ applied' = [applied EXCEPT ![u] = list[u]]
            /\ deny' = [deny EXCEPT ![u] = Larger(deny[u], list[u])]
            /\ UNCHANGED window
    /\ UNCHANGED <<dbVars, revoked, pend, pollPc, pollIn, list, clean, fails,
                   informed, serving, hist>>

-----------------------------------------------------------------------------
(***************************************************************************)
(* The control plane.                                                      *)
(***************************************************************************)

AccountBlocked(u) == status[u] = "disabled"

\* A lasting reason to bar the user.
Barred(u) == AccountBlocked(u) \/ u \in blocked

\* The users among S that the list does not hold yet, with a rolling deadline.
Rolled(S) == [u \in User |-> IF u \in S /\ list[u] = 0 THEN BanTTL ELSE list[u]]

\* handleKickSession.
Kick(u) ==
    /\ u \in Kickable
    /\ revoked' = [revoked EXCEPT ![u] = BanTTL]
    /\ untimed' = [untimed EXCEPT ![u] = 0]
    /\ UNCHANGED <<dbVars, pend, pollVars, gwVars, barredFor>>

\* handleSetUserStatus writes the database first and the ban table later,
\* after it has read the directory again.
WriteStatus(r, u, s) ==
    /\ \A c \in pend : c.req # r
    /\ status' = [status EXCEPT ![u] = s]
    /\ pend' = pend \cup {[req |-> r, user |-> u, status |-> s]}
    /\ barredFor' = [barredFor EXCEPT ![u] = IF AccountBlocked(u) /\ s # "disabled" THEN 0 ELSE @]
    /\ UNCHANGED <<blocked, revoked, pollVars, gwVars, untimed>>

WriteBan(c) ==
    /\ c \in pend
    /\ revoked' = CASE c.status = "disabled" -> [revoked EXCEPT ![c.user] = BanTTL]
                    [] c.status = "active" -> [revoked EXCEPT ![c.user] = 0]
                    [] OTHER -> revoked
    /\ pend' = pend \ {c}
    /\ untimed' = [untimed EXCEPT ![c.user] = IF c.status = "disabled" THEN 0 ELSE @]
    /\ UNCHANGED <<dbVars, pollVars, gwVars, barredFor>>

\* The directory cannot be read: the status stands, the ban table does not move.
LookupFails(c) ==
    /\ c \in pend
    /\ pend' = pend \ {c}
    /\ UNCHANGED <<dbVars, revoked, pollVars, gwVars, hist>>

\* A report gives some device of the user the verdict "block", or takes the
\* last such verdict away.
Report(u) ==
    /\ u \in Reporting
    /\ \/ u \notin blocked /\ blocked' = blocked \cup {u}
       \/ u \in blocked /\ blocked' = blocked \ {u}
    /\ barredFor' = [barredFor EXCEPT ![u] = IF u \in blocked THEN 0 ELSE @]
    /\ UNCHANGED <<status, revoked, pend, pollVars, gwVars, untimed>>

\* The ban table is in memory only.
ControlRestart ==
    /\ revoked' = NoTime
    /\ pend' = {}
    /\ UNCHANGED <<dbVars, pollVars, gwVars, hist>>

-----------------------------------------------------------------------------
(***************************************************************************)
(* A poll.  handleGatewayPolicy reads the ban table, the directory and the *)
(* verdicts one after the other; a read of the database that fails is      *)
(* passed over in silence.                                                 *)
(***************************************************************************)

PollDue == pollPc = "boot" \/ (pollPc = "idle" /\ pollIn = 0)

ReadRevoked ==
    /\ PollDue
    /\ list' = revoked
    /\ clean' = TRUE
    /\ pollPc' = "users"
    /\ UNCHANGED <<dbVars, revoked, pend, pollIn, todo, fails, informed, serving,
                   gwVars, hist>>

MergeUsers ==
    /\ pollPc = "users"
    /\ list' = Rolled({u \in User : AccountBlocked(u)})
    /\ pollPc' = "posture"
    /\ UNCHANGED <<dbVars, revoked, pend, pollIn, todo, clean, fails, informed,
                   serving, gwVars, hist>>

MergePosture ==
    /\ pollPc = "posture"
    /\ list' = Rolled(blocked)
    /\ todo' = {u \in User : list'[u] > 0}
    /\ pollPc' = "apply"
    /\ UNCHANGED <<dbVars, revoked, pend, pollIn, clean, fails, informed,
                   serving, gwVars, hist>>

MergeFails ==
    /\ clean /\ fails < MaxFail
    /\ clean' = FALSE
    /\ \/ pollPc = "users" /\ pollPc' = "posture" /\ UNCHANGED todo
       \/ pollPc = "posture" /\ pollPc' = "apply" /\ todo' = {u \in User : list[u] > 0}
    /\ UNCHANGED <<dbVars, revoked, pend, pollIn, list, fails, informed,
                   serving, gwVars, hist>>

\* applyRevoked for one user: DenyUser, RevokeUser, KillUser.
Apply(u) ==
    /\ pollPc = "apply"
    /\ u \in todo
    /\ todo' = todo \ {u}
    /\ IF applied[u] >= list[u]
       THEN UNCHANGED gwVars
       ELSE /\ applied' = [applied EXCEPT ![u] = list[u]]
            /\ deny' = [deny EXCEPT ![u] = Larger(deny[u], list[u])]
            /\ window' = [window EXCEPT ![u] = 0]
    /\ UNCHANGED <<dbVars, revoked, pend, pollPc, pollIn, list, clean, fails,
                   informed, serving, hist>>

PollDone ==
    /\ pollPc = "apply"
    /\ todo = {}
    /\ pollPc' = "idle"
    /\ pollIn' = Poll
    /\ serving' = TRUE
    /\ fails' = IF clean THEN 0 ELSE fails + 1
    /\ informed' = (informed \/ clean)
    /\ UNCHANGED <<dbVars, revoked, pend, list, todo, clean, gwVars, hist>>

\* The control plane does not answer: the gateway goes on with what it has,
\* at start with nothing.
PullFails ==
    /\ PollDue
    /\ fails < MaxFail
    /\ fails' = fails + 1
    /\ pollPc' = "idle"
    /\ pollIn' = Poll
    /\ serving' = TRUE
    /\ UNCHANGED <<dbVars, revoked, pend, list, todo, clean, informed, gwVars, hist>>

-----------------------------------------------------------------------------
(***************************************************************************)
(* The gateway and the clock.                                              *)
(***************************************************************************)

\* A knock while no ban is in force.
Knock(u) ==
    /\ serving
    /\ deny[u] = 0
    /\ window' = [window EXCEPT ![u] = TTL]
    /\ UNCHANGED <<dbVars, revoked, pend, pollVars, deny, applied, hist>>

GatewayRestart ==
    /\ pollPc' = "boot"
    /\ pollIn' = 0
    /\ list' = NoTime
    /\ todo' = {}
    /\ clean' = TRUE
    /\ informed' = FALSE
    /\ serving' = FALSE
    /\ window' = NoTime
    /\ deny' = NoTime
    /\ applied' = NoTime
    /\ UNCHANGED <<dbVars, revoked, pend, fails, hist>>

Less(t) == [u \in User |-> IF t[u] > 0 THEN t[u] - 1 ELSE 0]

\* A poll that is due starts, and ends, before the next tick.
Tick ==
    /\ pollPc = "idle" /\ pollIn > 0
    /\ pollIn' = pollIn - 1
    /\ revoked' = Less(revoked)
    /\ list' = Less(list)
    /\ window' = Less(window)
    /\ deny' = Less(deny)
    /\ applied' = Less(applied)
    /\ barredFor' = [u \in User |->
                        IF Barred(u) THEN Smaller(barredFor[u] + 1, Notice) ELSE 0]
    /\ untimed' = [u \in User |->
                        IF revoked'[u] = 0 THEN Smaller(untimed[u] + 1, Notice) ELSE 0]
    /\ UNCHANGED <<dbVars, pend, pollPc, todo, clean, fails, informed, serving>>

Poller ==
    \/ ReadRevoked \/ MergeUsers \/ MergePosture \/ MergeFails
    \/ \E u \in todo : Apply(u)
    \/ PollDone
    \/ PullFails

Next ==
    \/ \E u \in User : Kick(u) \/ Report(u) \/ Knock(u)
    \/ \E r \in Req, u \in User, s \in Status : WriteStatus(r, u, s)
    \/ \E c \in pend : WriteBan(c) \/ LookupFails(c)
    \/ ControlRestart
    \/ Poller
    \/ GatewayRestart
    \/ Tick

Spec == Init /\ [][Next]_vars

\* Time passes and polls go on.
FairSpec == Spec /\ WF_vars(Tick) /\ WF_vars(Poller)

-----------------------------------------------------------------------------
(***************************************************************************)
(* What the two promise together.                                          *)
(***************************************************************************)

Offline(u) == deny[u] > 0 /\ window[u] = 0

\* Between two polls every ban of the last reply that still runs is in force,
\* whatever mix of timed and rolling deadlines came before it (and every
\* variable keeps its type).
ListedIsOffline ==
    /\ TypeOK
    /\ pollPc = "idle" => \A u \in User : list[u] > 0 => Offline(u)

\* A timed ban is in force one polling interval after it was written (plus
\* one for each poll that may go wrong), and stays so until it is over or
\* taken back: also across restarts of the gateway, if it learnt of the bans.
BanInForceAfterPoll ==
    informed /\ pollPc = "idle" =>
        \A u \in User : 0 < revoked[u] /\ revoked[u] < BanTTL - Poll * (MaxFail + 1)
                            => Offline(u)

\* Once the last timed ban of a user is over, a lasting reason alone keeps it
\* offline: every poll moves the deadline on in time, so that the ban lapses
\* neither between two polls nor when polls go wrong.  (When one reason is
\* lifted while the other begins, a reply may have missed both: it reads them
\* one after the other.  Hence "none was lifted" in barredFor.)
BarredStaysOffline ==
    informed /\ pollPc = "idle" =>
        \A u \in User : barredFor[u] = Notice /\ untimed[u] = Notice => Offline(u)

\* The comment at api.go:651 promises it with a timed ban as well: as long as
\* the account is disabled every poll renews the ban and the gateway keeps
\* refusing, so between two polls there is no window.
BarredGetsNoWindow ==
    informed /\ pollPc = "idle" /\ pollIn > 0 =>
        \A u \in User : barredFor[u] = Notice => window[u] = 0

\* No ban outlives its reasons for good: a user with no reason left against
\* it is let in again, and stays so.
ClearedIsAdmitted ==
    \A u \in User : <>[](status[u] # "disabled" /\ u \notin blocked /\ revoked[u] = 0)
                        => <>[](deny[u] = 0)

=============================================================================
