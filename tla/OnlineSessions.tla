--------------------------- MODULE OnlineSessions ---------------------------
(***************************************************************************)
(* Who is online, as the console shows it.  The gateway's poller reports   *)
(* the windows of its allow list with every heartbeat (main.go, report),   *)
(* the control plane keeps the last report of each gateway, and the pages  *)
(* read it: the list of sessions, the number in the overview, and the kick *)
(* of a session, which goes by the id "gateway:address".                   *)
(*                                                                         *)
(* One gateway.  Heartbeats are lost, or time out at the gateway and are   *)
(* handled all the same, after a later one perhaps.  Both processes may    *)
(* restart.                                                                *)
(***************************************************************************)
EXTENDS Integers, FiniteSets

CONSTANTS
    User, IP,
    Demo,       \* sessions of the demonstration data: a set of [ip, user]
    NoEntry,
    TTL,        \* a window, and how long a kick bars its user
    Poll,       \* interval of heartbeats
    Delay,      \* a request is handled this long after it was made, or never
    Window,     \* gatewayOnlineWindow
    MaxNow,     \* bound on the clock
    MaxFault,   \* bound on heartbeats lost and restarts, of either process
    MaxKick     \* bound on the number of kicks

ASSUME SessionsAssumption ==
    /\ {TTL, Poll, Delay, MaxNow, MaxFault, MaxKick} \subseteq Nat
    /\ Window \in Nat /\ Window >= Poll + 2 * Delay
    /\ IsFiniteSet(IP)

VARIABLES
    now,
    m,          \* Allowlist.m: address -> entry or NoEntry
    deny,       \* Allowlist.deny: user -> the end of its ban
    pollPc,     \* the poller: "idle", "beat" (its request is out), "pull"
    due,        \* when the ticker fires next
    flight,     \* heartbeats under way: [at, sessions]
    gwSess,     \* the control plane's last report
    lastSeen,   \* when it came in
    kicked,     \* the overlay: ids of sessions
    kicking,    \* kicks under way: [id, user], the user as looked up
    revoked,    \* the ban table: user -> end
    taken,      \* when the report in gwSess was made
    seen,       \* last time a user held the window of an address
    first,      \* since when it has held it without a break
    bad,        \* last time a heartbeat was lost or overtaken, or a restart
    faults, kicks

gwVars == <<m, deny, pollPc, due>>
ctlVars == <<gwSess, lastSeen, kicked, kicking, revoked, taken>>
histVars == <<seen, first>>
sessionVars == <<now, gwVars, flight, ctlVars, histVars, bad, faults, kicks>>

Id == IP \cup {d.ip : d \in Demo}

Session == [ip : IP, user : User]

\* So long ago that nothing depends on it.
Never == -(Window + Delay + 1)

SessionsTypeOK ==
    /\ now \in 0 .. MaxNow
    /\ m \in [IP -> [user : User, until : Nat] \cup {NoEntry}]
    /\ {deny, revoked} \subseteq [User -> Nat]
    /\ pollPc \in {"idle", "beat", "pull"} /\ due \in Nat
    /\ \A x \in flight : x.at \in Nat /\ x.sessions \subseteq Session
    /\ gwSess \subseteq Session /\ kicked \subseteq Id /\ \A k \in kicking : k.id \in Id
    /\ {lastSeen, taken, bad} \subseteq Int
    /\ {seen, first} \subseteq [User \X IP -> Int]
    /\ faults \in 0 .. MaxFault /\ kicks \in 0 .. MaxKick

SessionsInit ==
    /\ now = 0
    /\ m = [ip \in IP |-> NoEntry]
    /\ deny = [u \in User |-> 0]
    /\ pollPc = "idle" /\ due = 0
    /\ flight = {}
    /\ gwSess = {} /\ lastSeen = Never /\ taken = Never
    /\ kicked = {} /\ kicking = {}
    /\ revoked = [u \in User |-> 0]
    /\ seen = [x \in User \X IP |-> Never]
    /\ first = [x \in User \X IP |-> Never]
    /\ bad = Never /\ faults = 0 /\ kicks = 0

-----------------------------------------------------------------------------
(***************************************************************************)
(* The gateway.                                                            *)
(***************************************************************************)

Open(ip) == m[ip] # NoEntry /\ now < m[ip].until

Holds(u, ip) == Open(ip) /\ m[ip].user = u

\* Not kept: the start of a session, which the next user of the address
\* inherits while the window is open.
Allow(u, ip) ==
    /\ deny[u] <= now
    /\ m' = [m EXCEPT ![ip] = [user |-> u, until |-> now + TTL]]

\* A time that has grown too old to matter.
Fade(t, age) == IF now' - t > age THEN Never ELSE t

\* What the histories say after a step: who holds what, since when.
Watch ==
    /\ seen' = [x \in User \X IP |-> IF Holds(x[1], x[2])' THEN now'
                                  ELSE Fade(seen[x], Window + Delay)]
    /\ first' = [x \in User \X IP |->
                    IF ~Holds(x[1], x[2])' THEN Never
                    ELSE IF Holds(x[1], x[2]) THEN first[x] ELSE now']

Knock(u, ip) ==
    /\ Allow(u, ip)
    /\ UNCHANGED <<now, deny, pollPc, due, flight, ctlVars, bad, faults, kicks>>
    /\ Watch

\* Sessions: windows that are still open.
Sessions == {[ip |-> ip, user |-> m[ip].user] : ip \in {i \in IP : Open(i)}}

Beat ==
    /\ pollPc = "idle" /\ due <= now
    /\ pollPc' = "beat"
    /\ flight' = flight \cup {[at |-> now, sessions |-> Sessions]}
    /\ UNCHANGED <<now, m, deny, due, ctlVars, histVars, bad, faults, kicks>>

\* The answer, or the end of the client's patience: the error is dropped.
GoOn ==
    /\ pollPc = "beat"
    /\ pollPc' = "pull"
    /\ UNCHANGED <<now, m, deny, due, flight, ctlVars, histVars, bad, faults, kicks>>

\* Bans of the reply close windows.
Pull ==
    /\ pollPc = "pull"
    /\ pollPc' = "idle"
    /\ due' = now + Poll
    /\ deny' = [u \in User |-> IF revoked[u] > deny[u] THEN revoked[u] ELSE deny[u]]
    /\ m' = [ip \in IP |-> IF m[ip] # NoEntry /\ now < revoked[m[ip].user] THEN NoEntry ELSE m[ip]]
    /\ UNCHANGED <<now, flight, ctlVars, bad, faults, kicks>>
    /\ Watch

PullFails ==
    /\ pollPc = "pull"
    /\ pollPc' = "idle"
    /\ due' = now + Poll
    /\ UNCHANGED <<now, m, deny, flight, ctlVars, histVars, bad, faults, kicks>>

-----------------------------------------------------------------------------
(***************************************************************************)
(* The control plane.                                                      *)
(***************************************************************************)

\* Slip: sessions are added to what the gateway reported before.
RegisterMerged(x) ==
    /\ flight' = flight \ {x}
    /\ gwSess' = gwSess \cup x.sessions
    /\ lastSeen' = now
    /\ taken' = x.at
    /\ bad' = IF x.at < taken THEN now ELSE bad
    /\ UNCHANGED <<now, gwVars, kicked, kicking, revoked, histVars, faults, kicks>>

\* handleGatewayRegister: the report replaces the one before, whichever was
\* made first, and counts as seen now.
Register(x) ==
    /\ flight' = flight \ {x}
    /\ gwSess' = x.sessions
    /\ lastSeen' = now
    /\ taken' = x.at
    /\ bad' = IF x.at < taken THEN now ELSE bad
    /\ UNCHANGED <<now, gwVars, kicked, kicking, revoked, histVars, faults, kicks>>

Lose(x) ==
    /\ faults < MaxFault /\ faults' = faults + 1
    /\ flight' = flight \ {x}
    /\ bad' = now
    /\ UNCHANGED <<now, gwVars, ctlVars, histVars, kicks>>

\* Slip: a gateway may be silent for one interval.
OnlineBrief == now - lastSeen < Poll

Online == now - lastSeen <= Window

\* handleOnline: what live gateways report, or else the demonstration data.
Live == IF Online THEN gwSess ELSE {}
Listed == IF Live # {} THEN Live ELSE Demo
ShownOnline == {s \in Listed : s.ip \notin kicked}

\* onlineSessionCount: the number in the overview, where a live gateway without
\* sessions counts as none while the list falls back on the demonstration data.
Count == IF Online THEN Cardinality(gwSess) ELSE -1

\* Who has the session by the last report, however old it is, or else by the
\* demonstration data.
Holder(id) ==
    LET real == {s.user : s \in {x \in gwSess : x.ip = id}} IN
    IF real # {} THEN real ELSE {d.user : d \in {x \in Demo : x.ip = id}}

\* handleKickSession: the holder is looked up under one lock, barred and marked
\* under another; in between a report may come in, or the process end.
KickSession(id) ==
    /\ kicks < MaxKick /\ kicks' = kicks + 1
    /\ \E u \in Holder(id) : kicking' = kicking \cup {[id |-> id, user |-> u]}
    /\ UNCHANGED <<now, gwVars, flight, gwSess, lastSeen, kicked, revoked, taken, histVars, bad,
                   faults>>

KickWrites(k) ==
    /\ kicking' = kicking \ {k}
    /\ revoked' = [revoked EXCEPT ![k.user] = now + TTL]
    /\ kicked' = kicked \cup {k.id}
    /\ UNCHANGED <<now, gwVars, flight, gwSess, lastSeen, taken, histVars, bad, faults, kicks>>

-----------------------------------------------------------------------------
(***************************************************************************)
(* Time and restarts.                                                      *)
(***************************************************************************)

\* The poller is prompt, and requests are handled within Delay or never.
Tick ==
    /\ now < MaxNow
    /\ pollPc = "idle" => now < due
    /\ pollPc # "idle" => now < due + Delay
    /\ \A x \in flight : now < x.at + Delay
    /\ now' = now + 1
    /\ m' = [ip \in IP |-> IF m[ip] # NoEntry /\ m[ip].until <= now THEN NoEntry ELSE m[ip]]
    /\ deny' = [u \in User |-> IF deny[u] <= now' THEN 0 ELSE deny[u]]
    /\ revoked' = [u \in User |-> IF revoked[u] <= now' THEN 0 ELSE revoked[u]]
    /\ lastSeen' = Fade(lastSeen, Window)
    /\ taken' = Fade(taken, Delay)
    /\ bad' = Fade(bad, Poll + 2 * Delay)
    /\ UNCHANGED <<pollPc, due, flight, gwSess, kicked, kicking, faults, kicks>>
    /\ Watch

GatewayRestart ==
    /\ faults < MaxFault /\ faults' = faults + 1
    /\ m' = [ip \in IP |-> NoEntry]
    /\ deny' = [u \in User |-> 0]
    /\ pollPc' = "idle" /\ due' = now
    /\ bad' = now
    /\ UNCHANGED <<now, flight, ctlVars, kicks>>
    /\ Watch

ControlRestart ==
    /\ faults < MaxFault /\ faults' = faults + 1
    /\ gwSess' = {} /\ lastSeen' = Never /\ taken' = Never
    /\ kicked' = {} /\ kicking' = {}
    /\ revoked' = [u \in User |-> 0]
    /\ bad' = now
    /\ UNCHANGED <<now, gwVars, flight, histVars, kicks>>

SessionsNext ==
    \/ \E u \in User, ip \in IP : Knock(u, ip)
    \/ Beat \/ GoOn \/ Pull \/ PullFails
    \/ \E x \in flight : Register(x) \/ Lose(x)
    \/ \E id \in Id : KickSession(id)
    \/ \E k \in kicking : KickWrites(k)
    \/ Tick \/ GatewayRestart \/ ControlRestart

SessionsSpec == SessionsInit /\ [][SessionsNext]_sessionVars

-----------------------------------------------------------------------------

\* Nobody is listed from life who was not there a while ago: the window of a
\* session the page shows was open, for that user, no longer ago than a
\* gateway may be silent and a report may take, whatever reports were lost,
\* late or out of order, and whoever restarted.  (And every variable keeps
\* its type.)
ListedWasThere ==
    /\ SessionsTypeOK
    /\ \A s \in Live : now - seen[<<s.user, s.ip>>] <= Window + Delay

\* Whoever has been there long enough is shown, if no report was lost or came
\* late and nobody restarted, and is in the overview's number: as online, unless
\* a session of this id was kicked before.  The overlay never lets go of an id (monitor_objects.go:127),
\* so the next session of the address is shown as offline, too.
PresentIsShown ==
    \A u \in User, ip \in IP :
        LET long == now - (Poll + 2 * Delay) IN
        /\ first[<<u, ip>>] # Never /\ first[<<u, ip>>] < long
        /\ bad < long
        => /\ [ip |-> ip, user |-> u] \in (IF ip \in kicked THEN Listed ELSE ShownOnline)
           /\ Count >= Cardinality({i \in IP : \E v \in User : first[<<v, i>>] # Never /\ first[<<v, i>>] < long})

=============================================================================
