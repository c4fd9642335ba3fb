------------------------------- MODULE Gateway -------------------------------
(***************************************************************************)
(* Forced offline in the data plane.  Four kinds of goroutine share the    *)
(* allow list and the table of tunnels:                                    *)
(*                                                                         *)
(*   - the SPA loop (spa.Serve) opens a window for each accepted knock;    *)
(*   - a handler per TCP connection (proxy.handle) reads the window, puts  *)
(*     the connection into the table under the window's account, reads the *)
(*     window again, then sets the tunnel up and relays;                   *)
(*   - the poller (cmd/baidi-gateway) pulls the list of revoked accounts   *)
(*     from the control plane and applies it one account at a time:        *)
(*     DenyUser, RevokeUser, KillUser, each under its own lock;            *)
(*   - the reaper drops windows that ran out.                              *)
(*                                                                         *)
(* The control plane is the environment: it adds bans to the list it       *)
(* publishes (Ban) and takes them off (Lift).  The process may die and     *)
(* start again with everything in memory gone (Crash).                     *)
(***************************************************************************)
EXTENDS Allowlist

CONSTANTS
    Conn,       \* connections, one handler each
    Src,        \* Conn -> IP: the remote address of the connection
    MayKnock,   \* who knocks from where: a set of <<account, address>>
    BanSpan,    \* until - now of a published ban, by the gateway's clock
    NoAccount,  \* "no account"
    MaxNow,     \* bound on the clock
    MaxCrash    \* bound on the number of crashes

ASSUME GatewayAssumption ==
    /\ Src \in [Conn -> IP]
    /\ MayKnock \subseteq Account \X IP
    /\ BanSpan \subseteq Nat
    /\ NoAccount \notin Account
    /\ MaxNow \in Nat
    /\ MaxCrash \in Nat

\* No two users share a source address (no NAT in front of them).
ExclusiveAddresses ==
    \A x, y \in MayKnock : x[2] = y[2] => NormUser[x[1]] = NormUser[y[1]]

VARIABLES
    policy,     \* bans the control plane publishes
    serving,    \* the SPA and the proxy listen
    pollPc,     \* where the poller is
    rv,         \* the bans of the last policy pulled
    todo,       \* those of rv the loop of applyRevoked has not reached
    cur,        \* the account being forced offline, or NoAccount
    applied,    \* account -> deadline of the last ban applied to it
    closing,    \* the connections KillUser took out of the table
    pc,         \* connection -> where its handler is
    owner,      \* connection -> account read from the window
    open,       \* connection -> its socket has not been closed
    table,      \* proxy.conns: a set of <<user, connection>>
    crashes     \* crashes so far

pollVars == <<pollPc, rv, todo, cur, applied, closing>>
connVars == <<pc, owner, open, table>>
vars == <<now, m, deny, policy, serving, pollPc, rv, todo, cur, applied,
          closing, pc, owner, open, table, crashes>>

RevokedBan == [user : Account, until : Nat]

TypeOK ==
    /\ now \in 0 .. MaxNow
    /\ m \subseteq Entry
    /\ deny \in [User -> Nat]
    /\ policy \subseteq RevokedBan
    /\ serving \in BOOLEAN
    /\ pollPc \in {"boot", "idle", "apply", "revoke", "kill", "close"}
    /\ rv \subseteq RevokedBan
    /\ todo \subseteq rv
    /\ cur \in Account \cup {NoAccount}
    /\ applied \in [Account -> Nat]
    /\ closing \subseteq Conn
    /\ pc \in [Conn -> {"idle", "admitted", "tracked", "setup", "relay", "leaving"}]
    /\ owner \in [Conn -> Account \cup {NoAccount}]
    /\ open \in [Conn -> BOOLEAN]
    /\ table \subseteq User \X Conn
    /\ crashes \in 0 .. MaxCrash
    /\ pollPc \in {"revoke", "kill", "close"} => cur \in Account
    /\ \A c \in Conn : pc[c] # "idle" => owner[c] \in Account

\* A gateway that has just started: nothing of it is on disk.
Init ==
    /\ AlInit
    /\ now = 0
    /\ policy = {}
    /\ serving = FALSE
    /\ pollPc = "boot"
    /\ rv = {}
    /\ todo = {}
    /\ cur = NoAccount
    /\ applied = [a \in Account |-> 0]
    /\ closing = {}
    /\ pc = [c \in Conn |-> "idle"]
    /\ owner = [c \in Conn |-> NoAccount]
    /\ open = [c \in Conn |-> FALSE]
    /\ table = {}
    /\ crashes = 0

-----------------------------------------------------------------------------
(***************************************************************************)
(* Slips the properties are tried against.                                 *)
(***************************************************************************)

\* The second look is left out.
RecheckBlind(c) ==
    /\ pc[c] = "tracked"
    /\ pc' = [pc EXCEPT ![c] = "setup"]
    /\ UNCHANGED <<alVars, policy, serving, pollVars, owner, open, table, crashes>>

\* The handler returns from the second look before untrack is deferred.
FailsUntracked(c) ==
    /\ pc[c] = "tracked"
    /\ Allowed(Src[c]) = {}
    /\ pc' = [pc EXCEPT ![c] = "idle"]
    /\ owner' = [owner EXCEPT ![c] = NoAccount]
    /\ open' = [open EXCEPT ![c] = FALSE]
    /\ UNCHANGED <<alVars, policy, serving, pollVars, table, crashes>>

\* The list the loop runs over is not the one that was pulled.
PullForgets ==
    /\ pollPc \in {"boot", "idle"}
    /\ todo' = policy
    /\ pollPc' = "apply"
    /\ UNCHANGED <<alVars, policy, serving, rv, cur, applied, closing, connVars, crashes>>

\* An account is dealt with once, whatever deadline comes later.
SkipOnceApplied(b) ==
    /\ pollPc = "apply"
    /\ b \in todo
    /\ applied[b.user] # 0
    /\ todo' = todo \ {b}
    /\ UNCHANGED <<alVars, policy, serving, pollPc, rv, cur, applied, closing,
                   connVars, crashes>>

\* The user's set is deleted before it is copied.
KillLosesList ==
    /\ pollPc = "kill"
    /\ closing' = {}
    /\ table' = {t \in table : t[1] # NormUser[cur]}
    /\ pollPc' = "close"
    /\ UNCHANGED <<alVars, policy, serving, rv, todo, cur, applied, pc, owner,
                   open, crashes>>

\* The connections are closed in the background.
KillDoneEarly ==
    /\ pollPc = "close"
    /\ pollPc' = "apply"
    /\ cur' = NoAccount
    /\ UNCHANGED <<alVars, policy, serving, rv, todo, applied, closing,
                   connVars, crashes>>

-----------------------------------------------------------------------------
(***************************************************************************)
(* The SPA loop and the reaper.                                            *)
(***************************************************************************)

\* A knock whose packet and token were accepted.  A denied user's knock is
\* dropped and changes nothing.
Knock(a, ip) ==
    /\ serving
    /\ <<a, ip>> \in MayKnock
    /\ Allow(ip, a)
    /\ UNCHANGED <<now, policy, serving, pollVars, connVars, crashes>>

ReapWindows ==
    /\ serving
    /\ Reap
    /\ UNCHANGED <<now, deny, policy, serving, pollVars, connVars, crashes>>

-----------------------------------------------------------------------------
(***************************************************************************)
(* The handler of a connection.  Returning from it at any point closes the *)
(* socket and runs the deferred untrack ("leaving").                       *)
(***************************************************************************)

\* Accept and the first look at the window.  Without a window the
\* connection is closed on the spot, which changes nothing here.  A
\* connection KillUser still has to close is not a new one.
Admit(c) ==
    /\ serving
    /\ pc[c] = "idle"
    /\ c \notin closing
    /\ \E e \in Allowed(Src[c]) : owner' = [owner EXCEPT ![c] = e.user]
    /\ pc' = [pc EXCEPT ![c] = "admitted"]
    /\ open' = [open EXCEPT ![c] = TRUE]
    /\ UNCHANGED <<alVars, policy, serving, pollVars, table, crashes>>

Track(c) ==
    /\ pc[c] = "admitted"
    /\ pc' = [pc EXCEPT ![c] = "tracked"]
    /\ table' = table \cup {<<NormUser[owner[c]], c>>}
    /\ UNCHANGED <<alVars, policy, serving, pollVars, owner, open, crashes>>

\* The second look asks for any live window of the address.
Recheck(c) ==
    /\ pc[c] = "tracked"
    /\ Allowed(Src[c]) # {}
    /\ pc' = [pc EXCEPT ![c] = "setup"]
    /\ UNCHANGED <<alVars, policy, serving, pollVars, owner, open, table, crashes>>

RecheckFails(c) ==
    /\ pc[c] = "tracked"
    /\ Allowed(Src[c]) = {}
    /\ pc' = [pc EXCEPT ![c] = "leaving"]
    /\ open' = [open EXCEPT ![c] = FALSE]
    /\ UNCHANGED <<alVars, policy, serving, pollVars, owner, table, crashes>>

\* Handshake, preamble, resource lookup and dial succeed.  The socket may
\* have been closed meanwhile: the dial does not look at it.
Establish(c) ==
    /\ pc[c] = "setup"
    /\ pc' = [pc EXCEPT ![c] = "relay"]
    /\ UNCHANGED <<alVars, policy, serving, pollVars, owner, open, table, crashes>>

\* One of them fails, or one end of the relay is closed.
Leave(c) ==
    /\ pc[c] \in {"setup", "relay"}
    /\ pc' = [pc EXCEPT ![c] = "leaving"]
    /\ open' = [open EXCEPT ![c] = FALSE]
    /\ UNCHANGED <<alVars, policy, serving, pollVars, owner, table, crashes>>

Untrack(c) ==
    /\ pc[c] = "leaving"
    /\ pc' = [pc EXCEPT ![c] = "idle"]
    /\ owner' = [owner EXCEPT ![c] = NoAccount]
    /\ table' = table \ {<<NormUser[owner[c]], c>>}
    /\ UNCHANGED <<alVars, policy, serving, pollVars, open, crashes>>

-----------------------------------------------------------------------------
(***************************************************************************)
(* The poller.  A pull that fails leaves everything as it was, except at   *)
(* start, where the gateway then serves without a list.                    *)
(***************************************************************************)

PullPolicy ==
    /\ pollPc \in {"boot", "idle"}
    /\ rv' = policy
    /\ todo' = policy
    /\ pollPc' = "apply"
    /\ UNCHANGED <<alVars, policy, serving, cur, applied, closing, connVars, crashes>>

ServeBlind ==
    /\ pollPc = "boot"
    /\ pollPc' = "idle"
    /\ serving' = TRUE
    /\ UNCHANGED <<alVars, policy, rv, todo, cur, applied, closing, connVars, crashes>>

\* A ban with this deadline has been dealt with already.
SkipApplied(b) ==
    /\ pollPc = "apply"
    /\ b \in todo
    /\ applied[b.user] >= b.until
    /\ todo' = todo \ {b}
    /\ UNCHANGED <<alVars, policy, serving, pollPc, rv, cur, applied, closing,
                   connVars, crashes>>

ApplyDeny(b) ==
    /\ pollPc = "apply"
    /\ b \in todo
    /\ applied[b.user] < b.until
    /\ todo' = todo \ {b}
    /\ applied' = [applied EXCEPT ![b.user] = b.until]
    /\ cur' = b.user
    /\ pollPc' = "revoke"
    /\ DenyUser(b.user, b.until)
    /\ UNCHANGED <<now, m, policy, serving, rv, closing, connVars, crashes>>

ApplyRevoke ==
    /\ pollPc = "revoke"
    /\ RevokeUser(cur)
    /\ pollPc' = "kill"
    /\ UNCHANGED <<now, deny, policy, serving, rv, todo, cur, applied, closing,
                   connVars, crashes>>

\* KillUser takes the user's connections out of the table under the lock ...
ApplyKill ==
    /\ pollPc = "kill"
    /\ closing' = {c \in Conn : <<NormUser[cur], c>> \in table}
    /\ table' = {t \in table : t[1] # NormUser[cur]}
    /\ pollPc' = "close"
    /\ UNCHANGED <<alVars, policy, serving, rv, todo, cur, applied, pc, owner,
                   open, crashes>>

\* ... and closes them one by one after it.
CloseTaken(c) ==
    /\ pollPc = "close"
    /\ c \in closing
    /\ closing' = closing \ {c}
    /\ open' = [open EXCEPT ![c] = FALSE]
    /\ UNCHANGED <<alVars, policy, serving, pollPc, rv, todo, cur, applied, pc,
                   owner, table, crashes>>

KillDone ==
    /\ pollPc = "close"
    /\ closing = {}
    /\ pollPc' = "apply"
    /\ cur' = NoAccount
    /\ UNCHANGED <<alVars, policy, serving, rv, todo, applied, closing,
                   connVars, crashes>>

\* The listeners start after the first list has been applied.
ApplyDone ==
    /\ pollPc = "apply"
    /\ todo = {}
    /\ pollPc' = "idle"
    /\ serving' = TRUE
    /\ UNCHANGED <<alVars, policy, rv, todo, cur, applied, closing, connVars,
                   crashes>>

-----------------------------------------------------------------------------
(***************************************************************************)
(* The environment.                                                        *)
(***************************************************************************)

\* The control plane publishes one ban per user; a later one replaces it.
Ban(a) ==
    /\ \E d \in BanSpan :
          policy' = {b \in policy : NormUser[b.user] # NormUser[a]}
                       \cup {[user |-> a, until |-> now + d]}
    /\ UNCHANGED <<alVars, serving, pollVars, connVars, crashes>>

\* The ban ran out or was taken back.
Lift(b) ==
    /\ b \in policy
    /\ policy' = policy \ {b}
    /\ UNCHANGED <<alVars, serving, pollVars, connVars, crashes>>

Tick ==
    /\ now < MaxNow
    /\ now' = now + 1
    /\ UNCHANGED <<m, deny, policy, serving, pollVars, connVars, crashes>>

Crash ==
    /\ crashes < MaxCrash
    /\ crashes' = crashes + 1
    /\ m' = {}
    /\ deny' = [u \in User |-> 0]
    /\ serving' = FALSE
    /\ pollPc' = "boot"
    /\ rv' = {}
    /\ todo' = {}
    /\ cur' = NoAccount
    /\ applied' = [a \in Account |-> 0]
    /\ closing' = {}
    /\ pc' = [c \in Conn |-> "idle"]
    /\ owner' = [c \in Conn |-> NoAccount]
    /\ open' = [c \in Conn |-> FALSE]
    /\ table' = {}
    /\ UNCHANGED <<now, policy>>

-----------------------------------------------------------------------------

Poller ==
    \/ PullPolicy
    \/ ServeBlind
    \/ \E b \in todo : SkipApplied(b) \/ ApplyDeny(b)
    \/ ApplyRevoke
    \/ ApplyKill
    \/ \E c \in closing : CloseTaken(c)
    \/ KillDone
    \/ ApplyDone

Handler(c) ==
    \/ Admit(c)
    \/ Track(c)
    \/ Recheck(c)
    \/ RecheckFails(c)
    \/ Establish(c)
    \/ Leave(c)
    \/ Untrack(c)

Next ==
    \/ \E a \in Account, ip \in IP : Knock(a, ip)
    \/ ReapWindows
    \/ \E c \in Conn : Handler(c)
    \/ Poller
    \/ \E a \in Account : Ban(a)
    \/ \E b \in policy : Lift(b)
    \/ Tick
    \/ Crash

Spec == Init /\ [][Next]_vars

\* The poller keeps polling and some pull succeeds in the end.  Nothing is
\* assumed of handlers, knocks, peers, the clock or the control plane.
Fairness == WF_vars(Poller)

FairSpec == Spec /\ Fairness

-----------------------------------------------------------------------------
(***************************************************************************)
(* What the gateway promises.                                              *)
(***************************************************************************)

\* The poller is between DenyUser and RevokeUser for this user.
Revoking(u) == pollPc = "revoke" /\ NormUser[cur] = u

\* The poller has denied this user and not yet closed all its connections.
Disposing(u) == pollPc \in {"revoke", "kill", "close"} /\ NormUser[cur] = u

HasWindow(u) == \E e \in m : NormUser[e.user] = u /\ Live(e)

\* A connection that got past the second look, with its socket open.
Carries(c) == pc[c] \in {"setup", "relay"} /\ open[c]

HasTunnel(u) == \E c \in Conn : Carries(c) /\ NormUser[owner[c]] = u

\* spa.Allow reads the ban and writes the window under one lock (spa.go:98):
\* while a ban is in force its user has no live window, except between the
\* DenyUser and the RevokeUser of that same ban.
NoWindowWhileDenied ==
    \A u \in User : Denied(u) /\ HasWindow(u) => Revoking(u)

\* applyRevoked keys its memory by spelling and DenyUser the ban by user: a
\* deadline remembered as applied and still ahead is covered by the ban.
AppliedIsDenied ==
    \A a \in Account : now < applied[a] => applied[a] <= deny[NormUser[a]]

\* From the moment it is tracked until its socket is closed, a connection is
\* within reach of KillUser: it is in the table under its own user, or taken
\* out to be closed.
Killable ==
    \A c \in Conn : pc[c] \in {"tracked", "setup", "relay"} /\ open[c] =>
        <<NormUser[owner[c]], c>> \in table \/ c \in closing

\* The table never holds a connection of another user, nor one whose handler
\* has returned: untrack after KillUser is the harmless no-op the comment at
\* proxy.go:66 says it is.
TableIsCurrent ==
    \A t \in table :
        /\ pc[t[2]] \in {"tracked", "setup", "relay", "leaving"}
        /\ NormUser[owner[t[2]]] = t[1]

\* The claim of proxy.go:139: a connection that slips between the window
\* check and the table is caught by the second look, so once a ban has been
\* dealt with no tunnel of its user is left.
NoTunnelWhileDenied ==
    \A u \in User : Denied(u) /\ HasTunnel(u) => Disposing(u)

\* Every ban of the last list pulled that the loop has passed and that still
\* runs is in force: no window and no tunnel of its user, under any spelling.
PulledBansEnforced ==
    \A b \in rv \ todo :
        now < b.until /\ ~Disposing(NormUser[b.user]) =>
            /\ Denied(NormUser[b.user])
            /\ ~HasWindow(NormUser[b.user])
            /\ ~HasTunnel(NormUser[b.user])

\* A ban in force is never shortened: a list that still carries an older
\* deadline, under whatever spelling, does not take the later one back
\* (spa.go:59); only a restart forgets it.
DenyNeverShortened ==
    [][crashes' = crashes =>
         \A u \in User : now' < deny[u] => deny[u] <= deny'[u]]_vars

PublishedBan(a) == \E b \in policy : b.user = a /\ now < b.until

ForcedOffline(u) == Denied(u) /\ ~HasWindow(u) /\ ~HasTunnel(u)

\* A ban the control plane keeps publishing takes its user offline, across
\* restarts of the gateway, unless it runs out or is taken back first.
BanTakesEffect ==
    \A a \in Account :
        PublishedBan(a) ~> (ForcedOffline(NormUser[a]) \/ ~PublishedBan(a))

-----------------------------------------------------------------------------
(***************************************************************************)
(* The gateway implements ForcedOffline.  A ban counts as enforced from    *)
(* the end of KillUser to its deadline; while the poller works on a user,  *)
(* a renewed ban is not in force yet.                                      *)
(***************************************************************************)

OnlineUsers == {u \in User : HasWindow(u) \/ HasTunnel(u)}

EnforcedUsers ==
    {u \in User : /\ \E a \in Account : NormUser[a] = u /\ now < applied[a]
                  /\ ~Disposing(u)}

Abstract == INSTANCE ForcedOffline
                WITH online <- OnlineUsers, banned <- EnforcedUsers

\* Every step of the gateway is a step of the promise, or none of its steps.
ImplementsForcedOffline == Abstract!Spec

-----------------------------------------------------------------------------
(***************************************************************************)
(* The inductive invariant behind the promises.                            *)
(***************************************************************************)

\* What applied says of the bans the loop has passed.
PassedAreApplied == \A b \in rv \ todo : b.until <= applied[b.user]

ClosingInClose == pollPc # "close" => closing = {}

BanInv == AppliedIsDenied /\ NoWindowWhileDenied /\ PassedAreApplied

TableInv == Killable /\ TableIsCurrent /\ ClosingInClose

\* Windows and connections belong to who knocks from their address.
FromHome ==
    /\ \A e \in m : <<e.user, e.ip>> \in MayKnock
    /\ \A c \in Conn : pc[c] # "idle" => <<owner[c], Src[c]>> \in MayKnock

\* A tunnel of a denied user is one the poller is about to close.
DeniedTunnelsDoomed ==
    \A c \in Conn : Carries(c) /\ Denied(NormUser[owner[c]]) =>
        /\ NormUser[owner[c]] = NormUser[cur]
        /\ \/ pollPc \in {"revoke", "kill"}
           \/ pollPc = "close" /\ c \in closing

IInv ==
    /\ TypeOK
    /\ BanInv
    /\ TableInv
    /\ FromHome
    /\ DeniedTunnelsDoomed

=============================================================================
