------------------------------ MODULE BanProofs ------------------------------
(***************************************************************************)
(* Proofs about BanPipeline for every set of users and requests, every     *)
(* length of a ban, polling interval and number of polls that may fail in  *)
(* a row, as long as a ban outlives these polls (BanAssumption).           *)
(***************************************************************************)
EXTENDS BanPipeline, TLAPS

(***************************************************************************)
(* The inductive invariant.                                                *)
(***************************************************************************)

Polling == pollPc \in {"users", "posture", "apply"}

\* The ticks since the last clean poll, at most, while the poller waits.
Age == fails * Poll + (Poll - pollIn)

\* A poll goes wrong only while there is room for one more.
FailsCounted == Polling /\ ~clean => fails < MaxFail

\* Nothing is known at start, and a poll runs only when it is due.
PollIsDue == (pollPc = "boot" => ~informed) /\ (pollPc # "idle" => pollIn = 0)

\* What the poller has dealt with is denied, and a denied user has no window.
DealtIsDenied == \A u \in User : applied[u] <= deny[u] /\ (deny[u] > 0 => window[u] = 0)

\* Every ban of the reply is dealt with, but for those still to do.
ListedIsDealt ==
    /\ pollPc \in {"boot", "idle"} => todo = {}
    /\ pollPc \in {"boot", "idle", "apply"} => \A u \in User \ todo : list[u] <= applied[u]

\* A reply holds every timed ban that was there when the poll began; between
\* polls those older than the last clean poll are dealt with.
TimedIsListed == Polling => \A u \in User : 0 < revoked[u] /\ revoked[u] < BanTTL => revoked[u] <= list[u]

TimedIsDealt ==
    informed /\ pollPc = "idle" =>
        \A u \in User : 0 < revoked[u] /\ revoked[u] + Age < BanTTL => revoked[u] <= applied[u]

\* The two histories agree with what they are about.
HistoriesAgree ==
    \A u \in User : (barredFor[u] > 0 => Barred(u)) /\ (untimed[u] > 0 => revoked[u] = 0)

\* A user with a lasting reason since the last tick, and without a timed ban,
\* gets a whole ban in the reply: by its status, or by its devices in the read after.
Lasting(u) == barredFor[u] > 0 /\ untimed[u] > 0

LastingIsListed ==
    /\ pollPc = "users" => \A u \in User : untimed[u] > 0 => list[u] = 0
    /\ pollPc = "posture" => \A u \in User :
          untimed[u] > 0 => \/ list[u] = BanTTL
                            \/ list[u] = 0 /\ (clean /\ barredFor[u] > 0 => u \in blocked)
    /\ pollPc = "apply" /\ clean => \A u \in User : Lasting(u) => list[u] = BanTTL

LastingIsDealt ==
    informed =>
        \A u \in User : barredFor[u] > Age /\ untimed[u] > Age => applied[u] + Age >= BanTTL

BanInv ==
    /\ TypeOK
    /\ FailsCounted
    /\ PollIsDue
    /\ DealtIsDenied
    /\ ListedIsDealt
    /\ TimedIsListed
    /\ TimedIsDealt
    /\ HistoriesAgree
    /\ LastingIsListed
    /\ LastingIsDealt

(***************************************************************************)
(* Constants and times.                                                    *)
(***************************************************************************)

LEMMA Constants ==
    /\ Poll \in Nat /\ Poll >= 1
    /\ BanTTL \in Nat /\ BanTTL >= 1
    /\ TTL \in Nat /\ TTL >= 1
    /\ MaxFail \in Nat
    /\ Poll * (MaxFail + 1) \in Nat /\ Poll * (MaxFail + 1) < BanTTL
<1>1. Poll \in Nat /\ Poll >= 1 /\ MaxFail \in Nat /\ BanTTL \in Nat /\ TTL \in Nat /\ TTL >= 1
  BY BanAssumption DEF BanAssumption
<1>2. Poll * (MaxFail + 1) \in Nat
  BY <1>1
<1>3. Poll * (MaxFail + 1) < BanTTL
  BY BanAssumption DEF BanAssumption
<1> QED BY <1>1, <1>2, <1>3

LEMMA NoticeIsNat == Notice \in Nat /\ Notice >= 1
BY Constants DEF Notice

(* While the poller waits, the last clean poll is younger than a ban. *)
LEMMA AgeIsShort ==
    ASSUME NEW n \in 0 .. MaxFail, NEW t \in 0 .. Poll
    PROVE  LET age == n * Poll + (Poll - t) IN
              age \in Nat /\ age <= Poll * (MaxFail + 1) /\ age < BanTTL /\ age < Notice
<1>1. n * Poll \in Nat /\ n * Poll <= MaxFail * Poll
  BY Constants
<1>2. Poll * (MaxFail + 1) = MaxFail * Poll + Poll
  BY Constants
<1>3. MaxFail * Poll \in Nat
  BY Constants
<1> QED BY <1>1, <1>2, <1>3, Constants DEF Notice

LEMMA LessType ==
    ASSUME NEW n \in Nat, NEW t \in [User -> 0 .. n]
    PROVE  /\ Less(t) \in [User -> 0 .. n]
           /\ \A u \in User : Less(t)[u] = IF t[u] > 0 THEN t[u] - 1 ELSE 0
BY DEF Less

LEMMA NoTimeType == ASSUME NEW n \in Nat PROVE NoTime \in [User -> 0 .. n]
BY DEF NoTime

LEMMA RolledType ==
    ASSUME list \in [User -> 0 .. BanTTL], NEW S
    PROVE  /\ Rolled(S) \in [User -> 0 .. BanTTL]
           /\ \A u \in User : Rolled(S)[u] = IF u \in S /\ list[u] = 0 THEN BanTTL ELSE list[u]
BY Constants DEF Rolled

(***************************************************************************)
(* Types.                                                                  *)
(***************************************************************************)

LEMMA InitType == Init => TypeOK
<1> SUFFICES ASSUME Init PROVE TypeOK
  OBVIOUS
<1>1. NoTime \in [User -> 0 .. BanTTL] /\ NoTime \in [User -> 0 .. TTL] /\ NoTime \in [User -> 0 .. Notice]
  BY Constants, NoticeIsNat, NoTimeType
<1>2. 0 \in 0 .. Poll /\ 0 \in 0 .. MaxFail
  BY Constants
<1> QED BY <1>1, <1>2 DEF Init, TypeOK, Status

LEMMA StepType == TypeOK /\ FailsCounted /\ [Next]_vars => TypeOK'
<1> SUFFICES ASSUME TypeOK, FailsCounted, [Next]_vars PROVE TypeOK'
  OBVIOUS
<1> USE DEF dbVars, pollVars, gwVars, hist
<1>1. ASSUME NEW u \in User, Kick(u) PROVE TypeOK'
  BY <1>1, Constants, NoticeIsNat DEF Kick, TypeOK
<1>2. ASSUME NEW u \in User, Report(u) PROVE TypeOK'
  <2>1. blocked' \subseteq Reporting
    BY <1>2 DEF Report, TypeOK
  <2>2. barredFor' \in [User -> 0 .. Notice]
    BY <1>2, NoticeIsNat DEF Report, TypeOK
  <2> QED BY <1>2, <2>1, <2>2 DEF Report, TypeOK
<1>3. ASSUME NEW u \in User, Knock(u) PROVE TypeOK'
  BY <1>3, Constants DEF Knock, TypeOK
<1>4. ASSUME NEW r \in Req, NEW u \in User, NEW s \in Status, WriteStatus(r, u, s) PROVE TypeOK'
  <2>1. pend' \subseteq Change
    BY <1>4 DEF WriteStatus, TypeOK, Change
  <2>2. barredFor' \in [User -> 0 .. Notice]
    BY <1>4, NoticeIsNat DEF WriteStatus, TypeOK
  <2>3. status' \in [User -> Status]
    BY <1>4 DEF WriteStatus, TypeOK
  <2> QED BY <1>4, <2>1, <2>2, <2>3 DEF WriteStatus, TypeOK
<1>5. ASSUME NEW c \in pend, WriteBan(c) PROVE TypeOK'
  <2>1. c.user \in User
    BY DEF TypeOK, Change
  <2>2. revoked' \in [User -> 0 .. BanTTL]
    BY <1>5, <2>1, Constants DEF WriteBan, TypeOK
  <2>3. untimed' \in [User -> 0 .. Notice] /\ pend' \subseteq Change
    BY <1>5, <2>1, NoticeIsNat DEF WriteBan, TypeOK
  <2> QED BY <1>5, <2>2, <2>3 DEF WriteBan, TypeOK
<1>6. ASSUME NEW c \in pend, LookupFails(c) PROVE TypeOK'
  BY <1>6 DEF LookupFails, TypeOK
<1>7. ASSUME ControlRestart PROVE TypeOK'
  <2>1. revoked' \in [User -> 0 .. BanTTL] /\ pend' \subseteq Change
    BY <1>7, Constants, NoTimeType DEF ControlRestart
  <2> QED BY <1>7, <2>1 DEF ControlRestart, TypeOK
<1>8. ASSUME ReadRevoked PROVE TypeOK'
  BY <1>8 DEF ReadRevoked, TypeOK
<1>9. ASSUME MergeUsers PROVE TypeOK'
  <2>1. list' \in [User -> 0 .. BanTTL]
    BY <1>9, RolledType DEF MergeUsers, TypeOK
  <2> QED BY <1>9, <2>1 DEF MergeUsers, TypeOK
<1>10. ASSUME MergePosture PROVE TypeOK'
  <2>1. list' \in [User -> 0 .. BanTTL] /\ todo' \subseteq User
    BY <1>10, RolledType DEF MergePosture, TypeOK
  <2> QED BY <1>10, <2>1 DEF MergePosture, TypeOK
<1>11. ASSUME MergeFails PROVE TypeOK'
  <2>1. todo' \subseteq User /\ pollPc' \in {"posture", "apply"}
    BY <1>11 DEF MergeFails, TypeOK
  <2> QED BY <1>11, <2>1 DEF MergeFails, TypeOK
<1>12. ASSUME NEW u \in todo, Apply(u) PROVE TypeOK'
  <2>1. u \in User
    BY DEF TypeOK
  <2>2. /\ window' \in [User -> 0 .. TTL]
        /\ deny' \in [User -> 0 .. BanTTL]
        /\ applied' \in [User -> 0 .. BanTTL]
    BY <1>12, <2>1, Constants DEF Apply, TypeOK, Larger
  <2> QED BY <1>12, <2>2 DEF Apply, TypeOK
<1>13. ASSUME PollDone PROVE TypeOK'
  <2>1. fails' \in 0 .. MaxFail
    BY <1>13, Constants DEF PollDone, TypeOK, FailsCounted, Polling
  <2>2. pollIn' \in 0 .. Poll
    BY <1>13, Constants DEF PollDone
  <2> QED BY <1>13, <2>1, <2>2 DEF PollDone, TypeOK
<1>14. ASSUME PullFails PROVE TypeOK'
  <2>1. fails' \in 0 .. MaxFail /\ pollIn' \in 0 .. Poll
    BY <1>14, Constants DEF PullFails, TypeOK
  <2> QED BY <1>14, <2>1 DEF PullFails, TypeOK
<1>15. ASSUME GatewayRestart PROVE TypeOK'
  <2>1. NoTime \in [User -> 0 .. BanTTL] /\ NoTime \in [User -> 0 .. TTL] /\ 0 \in 0 .. Poll
    BY Constants, NoTimeType
  <2> QED BY <1>15, <2>1 DEF GatewayRestart, TypeOK
<1>16. ASSUME Tick PROVE TypeOK'
  <2>1. /\ revoked' \in [User -> 0 .. BanTTL]
        /\ list' \in [User -> 0 .. BanTTL]
        /\ window' \in [User -> 0 .. TTL]
        /\ deny' \in [User -> 0 .. BanTTL]
        /\ applied' \in [User -> 0 .. BanTTL]
    BY <1>16, Constants, LessType DEF Tick, TypeOK
  <2>2. \A n \in 0 .. Notice : Smaller(n + 1, Notice) \in 0 .. Notice
    BY NoticeIsNat DEF Smaller
  <2>3. barredFor' \in [User -> 0 .. Notice]
    BY <1>16, <2>2, NoticeIsNat DEF Tick, TypeOK
  <2>4. untimed' \in [User -> 0 .. Notice]
    BY <1>16, <2>2, NoticeIsNat DEF Tick, TypeOK
  <2>5. pollIn' \in 0 .. Poll
    BY <1>16, Constants DEF Tick, TypeOK
  <2> QED BY <1>16, <2>1, <2>3, <2>4, <2>5 DEF Tick, TypeOK
<1>17. ASSUME UNCHANGED vars PROVE TypeOK'
  BY <1>17 DEF TypeOK, vars
<1> QED
  BY <1>1, <1>2, <1>3, <1>4, <1>5, <1>6, <1>7, <1>8, <1>9, <1>10, <1>11, <1>12, <1>13,
     <1>14, <1>15, <1>16, <1>17
  DEF Next, Poller

(***************************************************************************)
(* The steps, conjunct by conjunct.                                        *)
(***************************************************************************)

LEMMA InitInv == Init => BanInv
<1> SUFFICES ASSUME Init PROVE BanInv
  OBVIOUS
<1>1. TypeOK
  BY InitType
<1>2. \A u \in User : /\ list[u] = 0 /\ applied[u] = 0 /\ deny[u] = 0 /\ window[u] = 0
                      /\ barredFor[u] = 0 /\ untimed[u] = 0
  BY DEF Init, NoTime
<1>3. pollPc = "boot" /\ pollIn = 0 /\ todo = {} /\ ~informed
  BY DEF Init
<1> QED
  BY <1>1, <1>2, <1>3
  DEF BanInv, FailsCounted, PollIsDue, Polling, DealtIsDenied, ListedIsDealt, TimedIsListed, TimedIsDealt,
      HistoriesAgree, LastingIsListed, LastingIsDealt

LEMMA FailsStep ==
    ASSUME TypeOK, FailsCounted, PollIsDue, [Next]_vars
    PROVE  FailsCounted' /\ PollIsDue'
<1> USE DEF FailsCounted, PollIsDue, Polling, dbVars, pollVars, gwVars, hist
<1>1. CASE UNCHANGED <<pollPc, pollIn, clean, fails, informed>>
  BY <1>1
<1>2. CASE ReadRevoked
  BY <1>2 DEF ReadRevoked, PollDue
<1>3. CASE MergeUsers
  BY <1>3 DEF MergeUsers
<1>4. CASE MergePosture
  BY <1>4 DEF MergePosture
<1>5. CASE MergeFails
  BY <1>5 DEF MergeFails
<1>6. CASE PollDone
  BY <1>6 DEF PollDone
<1>7. CASE PullFails
  BY <1>7 DEF PullFails
<1>8. CASE GatewayRestart
  BY <1>8 DEF GatewayRestart
<1> QED
  BY <1>1, <1>2, <1>3, <1>4, <1>5, <1>6, <1>7, <1>8
  DEF Next, Poller, vars, Kick, Report, Knock, WriteStatus, WriteBan, LookupFails, ControlRestart,
      Apply, Tick

LEMMA DeniedStep ==
    ASSUME TypeOK, DealtIsDenied, [Next]_vars
    PROVE  DealtIsDenied'
<1> USE DEF dbVars, pollVars, gwVars, hist
<1>0. \A u \in User : /\ applied[u] \in Nat /\ deny[u] \in Nat /\ window[u] \in Nat /\ list[u] \in Nat
                      /\ applied[u] <= deny[u] /\ (deny[u] > 0 => window[u] = 0)
  BY Constants DEF TypeOK, DealtIsDenied
<1>1. CASE UNCHANGED gwVars
  BY <1>1 DEF DealtIsDenied
<1>2. ASSUME NEW u \in User, Knock(u) PROVE DealtIsDenied'
  BY <1>2 DEF Knock, DealtIsDenied, TypeOK
<1>3. ASSUME NEW u \in todo, Apply(u) PROVE DealtIsDenied'
  <2>1. CASE applied[u] >= list[u]
    BY <1>1, <1>3, <2>1 DEF Apply
  <2>2. CASE ~(applied[u] >= list[u])
    <3>1. u \in User
      BY DEF TypeOK
    <3>2. /\ applied'[u] = list[u] /\ deny'[u] = Larger(deny[u], list[u]) /\ window'[u] = 0
          /\ \A v \in User \ {u} : /\ applied'[v] = applied[v] /\ deny'[v] = deny[v]
                                   /\ window'[v] = window[v]
      BY <1>3, <2>2, <3>1 DEF Apply, TypeOK
    <3>3. list[u] <= Larger(deny[u], list[u])
      BY <1>0, <3>1 DEF Larger
    <3> QED BY <1>0, <3>2, <3>3 DEF DealtIsDenied
  <2> QED BY <2>1, <2>2
<1>4. ASSUME GatewayRestart PROVE DealtIsDenied'
  BY <1>4 DEF GatewayRestart, DealtIsDenied, NoTime
<1>5. ASSUME Tick PROVE DealtIsDenied'
  <2>1. \A u \in User : /\ applied'[u] = IF applied[u] > 0 THEN applied[u] - 1 ELSE 0
                        /\ deny'[u] = IF deny[u] > 0 THEN deny[u] - 1 ELSE 0
                        /\ window'[u] = IF window[u] > 0 THEN window[u] - 1 ELSE 0
    BY <1>5 DEF Tick, Less
  <2> QED BY <1>0, <2>1 DEF DealtIsDenied
<1> QED
  BY <1>1, <1>2, <1>3, <1>4, <1>5
  DEF Next, Poller, vars, Kick, Report, WriteStatus, WriteBan, LookupFails, ControlRestart,
      ReadRevoked, MergeUsers, MergePosture, MergeFails, PollDone, PullFails

LEMMA ListedStep ==
    ASSUME TypeOK, ListedIsDealt, [Next]_vars
    PROVE  ListedIsDealt'
<1> USE DEF dbVars, pollVars, gwVars, hist
<1>0. \A u \in User : applied[u] \in Nat /\ list[u] \in Nat
  BY Constants DEF TypeOK
<1>1. CASE UNCHANGED <<pollPc, todo, list, applied>>
  BY <1>1 DEF ListedIsDealt
<1>2. CASE ReadRevoked \/ MergeUsers
  BY <1>2 DEF ReadRevoked, MergeUsers, ListedIsDealt
<1>3. CASE MergePosture
  <2>1. pollPc' = "apply" /\ applied' = applied /\ todo' = {u \in User : list'[u] > 0}
    BY <1>3 DEF MergePosture
  <2>2. \A u \in User : list'[u] \in Nat
    BY <1>3, RolledType, Constants DEF MergePosture, TypeOK
  <2> QED BY <1>0, <2>1, <2>2 DEF ListedIsDealt
<1>4. CASE MergeFails
  BY <1>0, <1>4 DEF MergeFails, ListedIsDealt
<1>5. ASSUME NEW u \in todo, Apply(u) PROVE ListedIsDealt'
  <2>1. u \in User /\ list' = list /\ todo' = todo \ {u} /\ pollPc = "apply" /\ pollPc' = "apply"
    BY <1>5 DEF Apply, TypeOK
  <2>2. list[u] <= applied'[u] /\ \A v \in User \ {u} : applied'[v] = applied[v]
    BY <1>0, <1>5, <2>1 DEF Apply, TypeOK
  <2> QED BY <2>1, <2>2 DEF ListedIsDealt
<1>6. CASE PollDone
  BY <1>6 DEF PollDone, ListedIsDealt
<1>7. CASE PullFails
  BY <1>7 DEF PullFails, PollDue, ListedIsDealt
<1>8. CASE GatewayRestart
  BY <1>8 DEF GatewayRestart, ListedIsDealt, NoTime
<1>9. CASE Tick
  <2>1. \A u \in User : /\ applied'[u] = IF applied[u] > 0 THEN applied[u] - 1 ELSE 0
                        /\ list'[u] = IF list[u] > 0 THEN list[u] - 1 ELSE 0
    BY <1>9 DEF Tick, Less
  <2>2. UNCHANGED <<pollPc, todo>>
    BY <1>9 DEF Tick
  <2> QED BY <1>0, <2>1, <2>2 DEF ListedIsDealt
<1> QED
  BY <1>1, <1>2, <1>3, <1>4, <1>5, <1>6, <1>7, <1>8, <1>9
  DEF Next, Poller, vars, Kick, Report, Knock, WriteStatus, WriteBan, LookupFails, ControlRestart

(* The requests that write the ban table put a whole ban there, or none. *)
LEMMA TimedWrites ==
    ASSUME TypeOK, [Next]_vars, NEW u \in User, revoked'[u] # revoked[u], ~Tick
    PROVE  revoked'[u] \in {0, BanTTL}
<1>1. \A c \in pend : c.user \in User
  BY DEF TypeOK, Change
<1>2. ASSUME NEW v \in User, Kick(v) PROVE revoked'[u] \in {0, BanTTL}
  BY <1>2 DEF Kick, TypeOK
<1>3. ASSUME NEW c \in pend, WriteBan(c) PROVE revoked'[u] \in {0, BanTTL}
  BY <1>1, <1>3 DEF WriteBan, TypeOK
<1>4. CASE ControlRestart
  BY <1>4 DEF ControlRestart, NoTime
<1> QED
  BY <1>2, <1>3, <1>4
  DEF Next, Poller, vars, Report, Knock, WriteStatus, LookupFails, ReadRevoked, MergeUsers,
      MergePosture, MergeFails, Apply, PollDone, PullFails, GatewayRestart

LEMMA TimedListedStep ==
    ASSUME TypeOK, TimedIsListed, [Next]_vars
    PROVE  TimedIsListed'
<1> USE DEF dbVars, pollVars, gwVars, hist
<1>0. \A u \in User : revoked[u] \in Nat /\ list[u] \in Nat
  BY Constants DEF TypeOK
<1> SUFFICES ASSUME Polling', NEW u \in User, 0 < revoked'[u], revoked'[u] < BanTTL
             PROVE  revoked'[u] <= list'[u]
  BY DEF TimedIsListed
<1>1. CASE Tick
  BY <1>1 DEF Tick, Polling
<1>2. CASE ~Tick
  <2>1. revoked'[u] = revoked[u]
    BY <1>2, TimedWrites, Constants
  <2>2. CASE ReadRevoked
    BY <1>0, <2>1, <2>2 DEF ReadRevoked
  <2>3. CASE Polling /\ list'[u] \in Nat /\ list[u] <= list'[u]
    <3>1. revoked[u] <= list[u]
      BY <2>1, <2>3 DEF TimedIsListed
    <3> QED BY <1>0, <2>1, <2>3, <3>1
  <2>4. Polling => MergeUsers \/ MergePosture \/ list' = list \/ GatewayRestart
    BY <1>2
    DEF Next, Poller, vars, Kick, Report, Knock, WriteStatus, WriteBan, LookupFails, ControlRestart,
        ReadRevoked, PollDue, Polling, MergeFails, Apply, PollDone, PullFails
  <2>5. ~Polling => ReadRevoked
    BY <1>2
    DEF Next, Poller, vars, Kick, Report, Knock, WriteStatus, WriteBan, LookupFails, ControlRestart,
        Polling, MergeUsers, MergePosture, MergeFails, Apply, PollDone, PullFails, GatewayRestart
  <2>6. ~GatewayRestart
    BY DEF GatewayRestart, Polling
  <2>7. MergeUsers \/ MergePosture => list'[u] \in Nat /\ list[u] <= list'[u]
    BY <1>0, RolledType, Constants DEF MergeUsers, MergePosture, TypeOK
  <2> QED BY <1>0, <2>2, <2>3, <2>4, <2>5, <2>6, <2>7
<1> QED BY <1>1, <1>2

LEMMA TimedDealtStep ==
    ASSUME BanInv, [Next]_vars
    PROVE  TimedIsDealt'
<1> USE DEF dbVars, pollVars, gwVars, hist
<1>0. TypeOK /\ TypeOK' /\ \A u \in User : revoked[u] \in Nat /\ list[u] \in Nat /\ applied[u] \in Nat
  BY StepType, Constants DEF BanInv, TypeOK
<1> SUFFICES ASSUME informed', pollPc' = "idle",
                    NEW u \in User, 0 < revoked'[u], revoked'[u] + Age' < BanTTL
             PROVE  revoked'[u] <= applied'[u]
  BY DEF TimedIsDealt
<1>a. Age' \in Nat
  BY <1>0, AgeIsShort DEF TypeOK, Age
<1>b. revoked'[u] < BanTTL /\ revoked'[u] \in Nat
  BY <1>0, <1>a, Constants DEF TypeOK
<1>1. CASE Tick
  <2>1. /\ revoked'[u] = IF revoked[u] > 0 THEN revoked[u] - 1 ELSE 0
        /\ applied'[u] = IF applied[u] > 0 THEN applied[u] - 1 ELSE 0
    BY <1>1 DEF Tick, Less
  <2>2. Age' = Age + 1 /\ Age \in Nat
    <3>1. fails' = fails /\ pollIn' = pollIn - 1
      BY <1>1 DEF Tick
    <3>2. Age \in Nat /\ fails * Poll \in Nat /\ pollIn \in Nat
      BY <1>0, AgeIsShort, Constants DEF TypeOK, Age
    <3> QED BY <3>1, <3>2, Constants DEF Age
  <2>3. informed /\ pollPc = "idle"
    BY <1>1 DEF Tick
  <2>4. revoked[u] <= applied[u]
    BY <1>0, <1>b, <2>1, <2>2, <2>3, Constants DEF BanInv, TimedIsDealt
  <2> QED BY <1>0, <2>1, <2>4
<1>2. CASE PollDone
  <2>1. list[u] <= applied[u] /\ UNCHANGED <<revoked, applied>>
    BY <1>2 DEF PollDone, BanInv, ListedIsDealt
  <2>2. revoked[u] <= list[u]
    BY <1>2, <1>b, <2>1 DEF PollDone, BanInv, TimedIsListed, Polling
  <2> QED BY <1>0, <2>1, <2>2
<1>3. CASE PullFails
  <2>1. UNCHANGED <<revoked, applied, informed>> /\ pollPc = "idle"
    BY <1>3 DEF PullFails, PollDue, BanInv, PollIsDue
  <2>2. pollIn = 0 /\ pollIn' = Poll /\ fails' = fails + 1
    BY <1>3, <2>1 DEF PullFails, PollDue
  <2>3. Age' = Age
    <3>1. (fails + 1) * Poll = fails * Poll + Poll /\ fails * Poll \in Nat
      BY <1>0, Constants DEF TypeOK
    <3> QED BY <2>2, <3>1, Constants DEF Age
  <2> QED BY <2>1, <2>3 DEF BanInv, TimedIsDealt
<1>4. CASE ~Tick /\ ~PollDone /\ ~PullFails
  <2>1. UNCHANGED <<pollPc, pollIn, fails, informed, applied>>
    BY <1>4
    DEF Next, Poller, vars, Kick, Report, Knock, WriteStatus, WriteBan, LookupFails, ControlRestart,
        ReadRevoked, MergeUsers, MergePosture, MergeFails, Apply, GatewayRestart
  <2>2. revoked'[u] = revoked[u]
    BY <1>0, <1>4, <1>b, TimedWrites, Constants
  <2> QED BY <2>1, <2>2 DEF BanInv, TimedIsDealt, Age
<1> QED BY <1>1, <1>2, <1>3, <1>4

(* Only time adds to the histories; what lifts a reason, or writes a timed ban, ends them. *)
LEMMA HistoriesGrow ==
    ASSUME TypeOK, [Next]_vars, ~Tick, NEW u \in User
    PROVE  /\ untimed'[u] \in {untimed[u], 0}
           /\ barredFor'[u] \in {barredFor[u], 0}
           /\ barredFor'[u] > 0 /\ u \in blocked => u \in blocked'
           /\ barredFor'[u] > 0 /\ AccountBlocked(u) => AccountBlocked(u)'
<1> USE DEF dbVars, pollVars, gwVars, hist
<1> DEFINE Goal == /\ untimed'[u] \in {untimed[u], 0}
                   /\ barredFor'[u] \in {barredFor[u], 0}
                   /\ barredFor'[u] > 0 /\ u \in blocked => u \in blocked'
                   /\ barredFor'[u] > 0 /\ AccountBlocked(u) => AccountBlocked(u)'
<1>1. ASSUME NEW v \in User, Kick(v) PROVE Goal
  BY <1>1 DEF Kick, TypeOK, AccountBlocked
<1>2. ASSUME NEW v \in User, Report(v) PROVE Goal
  BY <1>2 DEF Report, TypeOK, AccountBlocked
<1>3. ASSUME NEW r \in Req, NEW v \in User, NEW s \in Status, WriteStatus(r, v, s) PROVE Goal
  BY <1>3 DEF WriteStatus, TypeOK, AccountBlocked
<1>4. ASSUME NEW c \in pend, WriteBan(c) PROVE Goal
  BY <1>4 DEF WriteBan, TypeOK, Change, AccountBlocked
<1>5. CASE UNCHANGED <<dbVars, hist>>
  BY <1>5 DEF AccountBlocked
<1> QED
  BY <1>1, <1>2, <1>3, <1>4, <1>5
  DEF Next, Poller, vars, Knock, LookupFails, ControlRestart, ReadRevoked, MergeUsers, MergePosture,
      MergeFails, Apply, PollDone, PullFails, GatewayRestart

LEMMA HistoriesStep ==
    ASSUME TypeOK, HistoriesAgree, [Next]_vars
    PROVE  HistoriesAgree'
<1> USE DEF dbVars, pollVars, gwVars, hist
<1>1. CASE Tick
  <2>1. ASSUME NEW u \in User PROVE (barredFor'[u] > 0 => Barred(u)') /\ (untimed'[u] > 0 => revoked'[u] = 0)
    BY <1>1 DEF Tick, Barred, AccountBlocked
  <2> QED BY <2>1 DEF HistoriesAgree
<1>2. CASE ~Tick
  <2> SUFFICES ASSUME NEW u \in User
               PROVE  (barredFor'[u] > 0 => Barred(u)') /\ (untimed'[u] > 0 => revoked'[u] = 0)
    BY DEF HistoriesAgree
  <2>1. barredFor'[u] > 0 => Barred(u)'
    BY <1>2, HistoriesGrow DEF HistoriesAgree, Barred
  <2>2. CASE revoked'[u] = revoked[u] \/ revoked'[u] = 0
    <3>1. untimed'[u] \in {untimed[u], 0}
      BY <1>2, HistoriesGrow
    <3>2. untimed[u] > 0 => revoked[u] = 0
      BY DEF HistoriesAgree
    <3> QED BY <2>1, <2>2, <3>1, <3>2
  <2>3. ASSUME NEW v \in User, Kick(v) PROVE untimed'[u] > 0 => revoked'[u] = 0
    <3>1. CASE u = v
      BY <2>3, <3>1 DEF Kick, TypeOK
    <3>2. CASE u # v
      BY <2>2, <2>3, <3>2 DEF Kick, TypeOK
    <3> QED BY <3>1, <3>2
  <2>4. ASSUME NEW c \in pend, WriteBan(c) PROVE untimed'[u] > 0 => revoked'[u] = 0
    <3>0. c.user \in User /\ c.status \in Status
      BY DEF TypeOK, Change
    <3>1. CASE u = c.user /\ c.status = "disabled"
      BY <2>4, <3>0, <3>1 DEF WriteBan, TypeOK
    <3>2. CASE ~(u = c.user /\ c.status = "disabled")
      BY <2>2, <2>4, <3>0, <3>2 DEF WriteBan, TypeOK
    <3> QED BY <3>1, <3>2
  <2>5. CASE ControlRestart
    BY <2>2, <2>5 DEF ControlRestart, NoTime
  <2> QED
    BY <1>2, <2>1, <2>2, <2>3, <2>4, <2>5
    DEF Next, Poller, vars, Report, Knock, WriteStatus, LookupFails, ReadRevoked, MergeUsers,
        MergePosture, MergeFails, Apply, PollDone, PullFails, GatewayRestart
<1> QED BY <1>1, <1>2

LEMMA LastingListedStep ==
    ASSUME TypeOK, HistoriesAgree, LastingIsListed, [Next]_vars
    PROVE  LastingIsListed'
<1> USE DEF dbVars, pollVars, gwVars, hist
<1>1. CASE Tick \/ PollDone \/ PullFails \/ GatewayRestart
  <2>1. pollPc' \in {"boot", "idle"}
    BY <1>1 DEF Tick, PollDone, PullFails, GatewayRestart
  <2> QED BY <2>1 DEF LastingIsListed
<1>2. CASE ReadRevoked
  <2>1. pollPc' = "users" /\ list' = revoked /\ untimed' = untimed
    BY <1>2 DEF ReadRevoked
  <2> QED BY <2>1 DEF LastingIsListed, HistoriesAgree
<1>3. CASE MergeUsers
  <2>1. /\ pollPc = "users" /\ pollPc' = "posture"
        /\ UNCHANGED <<status, blocked, barredFor, untimed, clean>>
    BY <1>3 DEF MergeUsers
  <2>2. \A u \in User : list'[u] = IF AccountBlocked(u) /\ list[u] = 0 THEN BanTTL ELSE list[u]
    BY <1>3, RolledType DEF MergeUsers, TypeOK
  <2>3. \A u \in User : barredFor[u] > 0 => AccountBlocked(u) \/ u \in blocked
    BY DEF HistoriesAgree, Barred
  <2>4. \A u \in User : untimed[u] > 0 => list[u] = 0
    BY <2>1 DEF LastingIsListed
  <2>5. \A u \in User : untimed[u] > 0 =>
            list'[u] = BanTTL \/ (list'[u] = 0 /\ (barredFor[u] > 0 => u \in blocked))
    BY <2>2, <2>3, <2>4
  <2> QED BY <2>1, <2>5 DEF LastingIsListed
<1>4. CASE MergePosture
  <2>1. /\ pollPc = "posture" /\ pollPc' = "apply"
        /\ UNCHANGED <<blocked, barredFor, untimed, clean>>
    BY <1>4 DEF MergePosture
  <2>2. \A u \in User : list'[u] = IF u \in blocked /\ list[u] = 0 THEN BanTTL ELSE list[u]
    BY <1>4, RolledType DEF MergePosture, TypeOK
  <2> QED BY <2>1, <2>2 DEF LastingIsListed, Lasting
<1>5. CASE MergeFails
  <2>1. /\ ~clean' /\ UNCHANGED <<list, untimed>>
        /\ \/ pollPc = "users" /\ pollPc' = "posture"
           \/ pollPc' = "apply"
    BY <1>5 DEF MergeFails
  <2> QED BY <2>1 DEF LastingIsListed
<1>6. CASE ~Tick /\ UNCHANGED <<pollPc, list, clean>>
  <2>1. \A u \in User : /\ untimed'[u] > 0 => untimed[u] > 0
                        /\ barredFor'[u] > 0 => barredFor[u] > 0
                        /\ barredFor'[u] > 0 /\ u \in blocked => u \in blocked'
    BY <1>6, HistoriesGrow
  <2> QED BY <1>6, <2>1 DEF LastingIsListed, Lasting
<1>7. ~Tick /\ ~PollDone /\ ~PullFails /\ ~GatewayRestart /\ ~ReadRevoked /\ ~MergeUsers
        /\ ~MergePosture /\ ~MergeFails => UNCHANGED <<pollPc, list, clean>>
  BY DEF Next, Poller, vars, Kick, Report, Knock, WriteStatus, WriteBan, LookupFails, ControlRestart,
         Apply
<1> QED BY <1>1, <1>2, <1>3, <1>4, <1>5, <1>6, <1>7

LEMMA LastingDealtStep ==
    ASSUME BanInv, [Next]_vars
    PROVE  LastingIsDealt'
<1> USE DEF dbVars, pollVars, gwVars, hist
<1>0. TypeOK /\ TypeOK'
  BY StepType DEF BanInv
<1>n. \A u \in User : /\ barredFor[u] \in Nat /\ untimed[u] \in Nat
                      /\ applied[u] \in Nat /\ list[u] \in Nat
  BY <1>0, NoticeIsNat, Constants DEF TypeOK
<1> SUFFICES ASSUME informed', NEW u \in User, barredFor'[u] > Age', untimed'[u] > Age'
             PROVE  applied'[u] + Age' >= BanTTL
  BY DEF LastingIsDealt
<1>a. Age \in Nat /\ Age' \in Nat /\ barredFor'[u] \in Nat /\ untimed'[u] \in Nat
  BY <1>0, AgeIsShort, NoticeIsNat DEF TypeOK, Age
<1>1. CASE Tick
  <2>1. applied'[u] = IF applied[u] > 0 THEN applied[u] - 1 ELSE 0
    BY <1>1 DEF Tick, Less
  <2>2. Age' = Age + 1
    <3>1. fails' = fails /\ pollIn' = pollIn - 1
      BY <1>1 DEF Tick
    <3>2. fails * Poll \in Nat /\ pollIn \in Nat
      BY <1>0, Constants DEF TypeOK
    <3> QED BY <3>1, <3>2, Constants DEF Age
  <2>3. barredFor'[u] <= barredFor[u] + 1 /\ untimed'[u] <= untimed[u] + 1
    <3>1. barredFor'[u] \in {0, Smaller(barredFor[u] + 1, Notice)}
      BY <1>1 DEF Tick
    <3>2. untimed'[u] \in {0, Smaller(untimed[u] + 1, Notice)}
      BY <1>1 DEF Tick
    <3> QED BY <1>n, <3>1, <3>2, NoticeIsNat DEF Smaller
  <2>4. informed /\ barredFor[u] > Age /\ untimed[u] > Age
    BY <1>1, <1>a, <1>n, <2>2, <2>3 DEF Tick
  <2>5. applied[u] + Age >= BanTTL
    BY <2>4 DEF BanInv, LastingIsDealt
  <2> QED BY <1>a, <1>n, <2>1, <2>2, <2>5, Constants
<1>2. CASE PollDone /\ clean
  <2>1. list[u] <= applied[u] /\ applied' = applied /\ pollPc = "apply"
    BY <1>2 DEF PollDone, BanInv, ListedIsDealt
  <2>2. list[u] = BanTTL
    <3>1. Lasting(u)
      BY <1>2, <1>a, <1>n DEF PollDone, Lasting
    <3> QED BY <1>2, <2>1, <3>1 DEF BanInv, LastingIsListed
  <2> QED BY <1>a, <1>n, <2>1, <2>2, Constants
\* A poll that goes wrong hides no time: the age goes on from the last clean one.
<1>3. CASE ~Tick /\ ~(PollDone /\ clean)
  <2>1. informed
    BY <1>3
    DEF Next, Poller, vars, Kick, Report, Knock, WriteStatus, WriteBan, LookupFails, ControlRestart,
        ReadRevoked, MergeUsers, MergePosture, MergeFails, Apply, PollDone, PullFails, GatewayRestart
  <2>2. Age' = Age
    <3>1. CASE PullFails \/ PollDone
      <4>1. pollIn = 0 /\ pollIn' = Poll /\ fails' = fails + 1
        BY <1>3, <3>1, <2>1 DEF PollDone, PullFails, PollDue, BanInv, PollIsDue
      <4>2. (fails + 1) * Poll = fails * Poll + Poll /\ fails * Poll \in Nat
        BY <1>0, Constants DEF TypeOK
      <4> QED BY <4>1, <4>2, Constants DEF Age
    <3>2. CASE ~PullFails /\ ~PollDone
      <4>1. UNCHANGED <<pollIn, fails>>
        BY <1>3, <3>2
        DEF Next, Poller, vars, Kick, Report, Knock, WriteStatus, WriteBan, LookupFails,
            ControlRestart, ReadRevoked, MergeUsers, MergePosture, MergeFails, Apply, GatewayRestart
      <4> QED BY <4>1 DEF Age
    <3> QED BY <3>1, <3>2
  <2>3. barredFor[u] > Age /\ untimed[u] > Age
    BY <1>0, <1>3, <1>a, <1>n, <2>2, HistoriesGrow
  <2>4. applied[u] + Age >= BanTTL
    BY <2>1, <2>3 DEF BanInv, LastingIsDealt
  <2>5. applied'[u] >= applied[u]
    <3>1. ASSUME NEW v \in todo, Apply(v) PROVE applied'[u] >= applied[u]
      <4>1. v \in User
        BY <1>0 DEF TypeOK
      <4>2. applied'[u] = applied[u] \/ (u = v /\ applied'[u] = list[u] /\ ~(applied[u] >= list[u]))
        BY <1>0, <3>1, <4>1 DEF Apply, TypeOK
      <4> QED BY <1>n, <4>2
    <3>2. CASE UNCHANGED applied
      BY <1>n, <3>2
    <3> QED
      BY <1>3, <3>1, <3>2
      DEF Next, Poller, vars, Kick, Report, Knock, WriteStatus, WriteBan, LookupFails, ControlRestart,
          ReadRevoked, MergeUsers, MergePosture, MergeFails, PollDone, PullFails, GatewayRestart
  <2>6. applied'[u] \in Nat
    BY <1>0, Constants DEF TypeOK
  <2> QED BY <1>a, <1>n, <2>2, <2>4, <2>5, <2>6, Constants
<1> QED BY <1>1, <1>2, <1>3

LEMMA BanStep == BanInv /\ [Next]_vars => BanInv'
BY StepType, FailsStep, DeniedStep, ListedStep, TimedListedStep, TimedDealtStep, HistoriesStep,
   LastingListedStep, LastingDealtStep
DEF BanInv

LEMMA BanInductive == Spec => []BanInv
<1>1. Init => BanInv
  BY InitInv
<1>2. BanInv /\ [Next]_vars => BanInv'
  BY BanStep
<1> QED BY <1>1, <1>2, PTL DEF Spec

(***************************************************************************)
(* The promises.                                                           *)
(***************************************************************************)

(* Between two polls every ban of the last reply that still runs is in     *)
(* force: the user is refused and its window is shut, however the timed    *)
(* and rolling deadlines of earlier replies overlapped (applyRevoked).     *)
THEOREM ListedTheorem == Spec => []ListedIsOffline
<1>1. BanInv => ListedIsOffline
  <2> SUFFICES ASSUME BanInv, pollPc = "idle", NEW u \in User, list[u] > 0
               PROVE  Offline(u)
    BY DEF BanInv, ListedIsOffline
  <2>1. list[u] <= applied[u] /\ applied[u] <= deny[u] /\ (deny[u] > 0 => window[u] = 0)
    BY DEF BanInv, ListedIsDealt, DealtIsDenied
  <2>2. list[u] \in Nat /\ applied[u] \in Nat /\ deny[u] \in Nat
    BY Constants DEF BanInv, TypeOK
  <2> QED BY <2>1, <2>2 DEF Offline
<1> QED BY <1>1, BanInductive, PTL

(* A timed ban (handleKickSession, a disabled account) is in force at a    *)
(* gateway that learnt of the bans since it started, one polling interval  *)
(* after it was written and one more for each poll that went wrong, until  *)
(* it is over or taken back.                                               *)
THEOREM TimedBanTheorem == Spec => []BanInForceAfterPoll
<1>1. BanInv => BanInForceAfterPoll
  <2> SUFFICES ASSUME BanInv, informed, pollPc = "idle", NEW u \in User,
                      0 < revoked[u], revoked[u] < BanTTL - Poll * (MaxFail + 1)
               PROVE  Offline(u)
    BY DEF BanInForceAfterPoll
  <2>1. Age \in Nat /\ Age <= Poll * (MaxFail + 1)
    BY AgeIsShort DEF BanInv, TypeOK, Age
  <2>2. revoked[u] \in Nat /\ applied[u] \in Nat /\ deny[u] \in Nat
    BY Constants DEF BanInv, TypeOK
  <2>3. revoked[u] + Age < BanTTL
    BY <2>1, <2>2, Constants
  <2>4. revoked[u] <= applied[u] /\ applied[u] <= deny[u] /\ (deny[u] > 0 => window[u] = 0)
    BY <2>3 DEF BanInv, TimedIsDealt, DealtIsDenied
  <2> QED BY <2>2, <2>4 DEF Offline
<1> QED BY <1>1, BanInductive, PTL

(* A lasting reason alone (a disabled account, a blocked device) keeps its *)
(* user offline once the last timed ban is over: each reply moves the      *)
(* deadline on before the one of an earlier reply can lapse, also when     *)
(* MaxFail polls in a row go wrong (handleGatewayPolicy).                  *)
THEOREM BarredTheorem == Spec => []BarredStaysOffline
<1>1. BanInv => BarredStaysOffline
  <2> SUFFICES ASSUME BanInv, informed, NEW u \in User, barredFor[u] = Notice, untimed[u] = Notice
               PROVE  Offline(u)
    BY DEF BarredStaysOffline
  <2>1. Age \in Nat /\ Age < BanTTL /\ Age < Notice
    BY AgeIsShort DEF BanInv, TypeOK, Age
  <2>2. applied[u] \in Nat /\ deny[u] \in Nat
    BY Constants DEF BanInv, TypeOK
  <2>3. applied[u] + Age >= BanTTL
    BY <2>1, NoticeIsNat DEF BanInv, LastingIsDealt
  <2>4. applied[u] > 0
    BY <2>1, <2>2, <2>3, Constants
  <2>5. applied[u] <= deny[u] /\ (deny[u] > 0 => window[u] = 0)
    BY DEF BanInv, DealtIsDenied
  <2> QED BY <2>2, <2>4, <2>5 DEF Offline
<1> QED BY <1>1, BanInductive, PTL

=============================================================================
