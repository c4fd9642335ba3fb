----------------------------- MODULE PostureGate -----------------------------
(***************************************************************************)
(* The reports on one user's devices and the gate they are for.  A device  *)
(* reports, the risk engine judges, and the verdict replaces the last one  *)
(* of that device; a request for a knock token is refused while the user   *)
(* is under a ban, has a blocked account, has any device judged "block" at *)
(* whatever age, or, in strict mode, has no fresh report.                  *)
(*                                                                         *)
(* Every handler reads the database several times and writes it once, and  *)
(* nothing keeps two of them apart: each read or write is an action.  Of   *)
(* the verdicts "degrade" and "gray" do here what "allow" does.            *)
(***************************************************************************)
EXTENDS Integers, FiniteSets

CONSTANTS
    Device,     \* devices that report for the user
    Post,       \* reports that can be under way at the same time
    Ask,        \* requests for a token that can be under way at the same time
    MaxDevices, \* maxPostureDevices
    Fresh,      \* postureFreshTTL
    MaxOpen,    \* bound on the requests of both kinds under way
    MaxUnread   \* bound on the reads that fail before a device is let in uncounted

ASSUME PostureAssumption ==
    /\ IsFiniteSet(Device) /\ IsFiniteSet(Post) /\ IsFiniteSet(Ask)
    /\ MaxDevices \in Nat \ {0} /\ Fresh \in Nat /\ MaxOpen \in Nat /\ MaxUnread \in Nat

VARIABLES
    reports,    \* database: a device that has reported -> its last verdict and its age
    disabled,   \* database: the account is disabled or locked
    banned,     \* memory: the user is under a ban that still runs
    strict,     \* BAIDI_POSTURE_ENFORCE is "strict"
    posts,      \* the reports under way
    askPc,      \* where each request for a token is, or how it was answered
    stood,      \* history: the reasons to refuse that held all through the request
    met,        \* history: the reasons to refuse that held at some time during it
    unread,     \* history: devices let in because a read failed
    trail       \* history: the last entry of the audit trail on the user's devices

world == <<disabled, banned, strict>>
vars == <<reports, world, posts, askPc, stood, met, unread, trail>>

Verdict == {"allow", "block"}
Reason == {"ban", "account", "block", "stale"}

\* Ages are not told apart beyond this one.
Old == Fresh + 1

Row == [verdict : Verdict, age : 0 .. Old]

\* "age" is that of the time stamp, taken before the row is written.
PostState ==
    [id : Post, pc : {"count", "prev", "save", "now"}, dev : Device,
     verdict : Verdict, age : 0 .. Old, prevBlocked : BOOLEAN]

Pending == {"ban", "account", "verdict", "fresh"}
Answered == {"token", "refused", "error"}

TypeOK ==
    /\ reports \in UNION {[D -> Row] : D \in SUBSET Device}
    /\ disabled \in BOOLEAN /\ banned \in BOOLEAN /\ strict \in BOOLEAN
    /\ posts \subseteq PostState
    /\ \A p, q \in posts : p.id = q.id => p = q
    /\ askPc \in [Ask -> Pending \cup Answered \cup {"idle"}]
    /\ stood \in [Ask -> SUBSET Reason]
    /\ met \in [Ask -> SUBSET Reason]
    /\ unread \in 0 .. MaxUnread
    /\ trail \in {"none", "deny", "ok", "deleted", "mixed"}

Init ==
    /\ reports = [d \in {} |-> [verdict |-> "allow", age |-> 0]]
    /\ disabled = FALSE
    /\ banned = FALSE
    /\ strict \in BOOLEAN
    /\ posts = {}
    /\ askPc = [i \in Ask |-> "idle"]
    /\ stood = [i \in Ask |-> {}]
    /\ met = [i \in Ask |-> {}]
    /\ unread = 0
    /\ trail = "none"

OpenAsks == {i \in Ask : askPc[i] # "idle"}
MayOpen == Cardinality(posts) + Cardinality(OpenAsks) < MaxOpen

Known == DOMAIN reports

\* The reasons to refuse that hold now, as the comments at the gates give them.
Reasons ==
    (IF banned THEN {"ban"} ELSE {}) \cup (IF disabled THEN {"account"} ELSE {})
    \cup (IF \E d \in Known : reports[d].verdict = "block" THEN {"block"} ELSE {})
    \cup (IF strict /\ \A d \in Known : reports[d].age > Fresh THEN {"stale"} ELSE {})

\* The reasons that hold during each request under way.
Watch ==
    /\ stood' = [i \in Ask |-> IF askPc'[i] \notin Pending THEN {}
                            ELSE IF askPc[i] \in Pending THEN stood[i] \cap Reasons'
                            ELSE Reasons']
    /\ met' = [i \in Ask |-> IF askPc'[i] \in Pending THEN met[i] \cup Reasons' ELSE {}]

-----------------------------------------------------------------------------
(***************************************************************************)
(* Slips the properties are tried against.                                 *)
(***************************************************************************)

\* A verdict counts only while its report is fresh.
BlockedWhileFresh == \E d \in Known : reports[d].verdict = "block" /\ reports[d].age <= Fresh

\* Every device has to be fresh.
AllFresh == Known # {} /\ \A d \in Known : reports[d].age <= Fresh

\* The device that fills the last place is not the last one.
CountPastLimit(p) ==
    /\ p.pc = "count"
    /\ posts' = IF Cardinality(Known) > MaxDevices
                THEN posts \ {p}
                ELSE (posts \ {p}) \cup {[p EXCEPT !.pc = "prev"]}
    /\ UNCHANGED <<reports, world, askPc, unread, trail>>
    /\ Watch

\* The device that reported is looked at, not all of them.
ReadNowOfDevice(p) ==
    /\ p.pc = "now"
    /\ posts' = posts \ {p}
    /\ trail' = IF trail = "mixed" \/ (p.verdict = "block") = p.prevBlocked THEN trail
                ELSE IF p.verdict = "block" THEN "deny" ELSE "ok"
    /\ UNCHANGED <<reports, world, askPc, unread>>
    /\ Watch

\* The row of a deleted report is kept, with no verdict.
DeleteSoftly(d) ==
    /\ d \in Known
    /\ reports' = [reports EXCEPT ![d].verdict = "deleted"]
    /\ trail' = IF posts = {} /\ trail # "mixed" THEN "deleted" ELSE "mixed"
    /\ UNCHANGED <<world, posts, askPc, unread>>
    /\ Watch

-----------------------------------------------------------------------------
(***************************************************************************)
(* What the database is asked.                                             *)
(***************************************************************************)

\* PostureVerdict: the worst verdict over all devices.
Blocked == \E d \in Known : reports[d].verdict = "block"

\* PostureFreshest: the age of the latest report counts, whichever device sent it.
IsFresh == \E d \in Known : reports[d].age <= Fresh

-----------------------------------------------------------------------------
(***************************************************************************)
(* handlePostureReport.                                                    *)
(***************************************************************************)

Advance(p, pc) == posts' = (posts \ {p}) \cup {[p EXCEPT !.pc = pc]}

\* Judged, and looked up: only a device without a row is counted.
Judge(id, d, v) ==
    /\ MayOpen
    /\ \A p \in posts : p.id # id
    /\ posts' = posts \cup {[id |-> id, pc |-> IF d \in Known THEN "prev" ELSE "count",
                             dev |-> d, verdict |-> v, age |-> 0, prevBlocked |-> FALSE]}
    /\ trail' = IF posts = {} THEN trail ELSE "mixed"
    /\ UNCHANGED <<reports, world, askPc, unread>>
    /\ Watch

\* A look-up that fails lets the device through.
JudgeUnread(id, d, v) ==
    /\ MayOpen
    /\ \A p \in posts : p.id # id
    /\ unread < MaxUnread
    /\ unread' = unread + 1
    /\ posts' = posts \cup {[id |-> id, pc |-> "prev", dev |-> d, verdict |-> v,
                             age |-> 0, prevBlocked |-> FALSE]}
    /\ trail' = IF posts = {} THEN trail ELSE "mixed"
    /\ UNCHANGED <<reports, world, askPc>>
    /\ Watch

Count(p) ==
    /\ p.pc = "count"
    /\ IF Cardinality(Known) >= MaxDevices THEN posts' = posts \ {p} ELSE Advance(p, "prev")
    /\ UNCHANGED <<reports, world, askPc, unread, trail>>
    /\ Watch

\* A count that fails lets the device through.
CountUnread(p) ==
    /\ p.pc = "count"
    /\ unread < MaxUnread
    /\ unread' = unread + 1
    /\ Advance(p, "prev")
    /\ UNCHANGED <<reports, world, askPc, trail>>
    /\ Watch

\* The worst verdict before the write, and the time stamp.
ReadPrev(p) ==
    /\ p.pc = "prev"
    /\ \/ /\ posts' = (posts \ {p}) \cup {[p EXCEPT !.pc = "save", !.age = 0, !.prevBlocked = Blocked]}
          /\ UNCHANGED trail
       \/ /\ Advance(p, "save")     \* the read fails: as if nothing had been there
          /\ trail' = "mixed"
    /\ UNCHANGED <<reports, world, askPc, unread>>
    /\ Watch

SaveReport(p) ==
    /\ p.pc = "save"
    /\ reports' = [d \in Known \cup {p.dev} |->
                      IF d = p.dev THEN [verdict |-> p.verdict, age |-> p.age] ELSE reports[d]]
    /\ posts' = (posts \ {p}) \cup {[p EXCEPT !.pc = "now", !.age = 0]}
    /\ UNCHANGED <<world, askPc, unread, trail>>
    /\ Watch

\* The worst verdict after the write, and the entry if it changed.
ReadNow(p) ==
    /\ p.pc = "now"
    /\ posts' = posts \ {p}
    /\ \/ trail' = IF trail = "mixed" \/ Blocked = p.prevBlocked THEN trail
                   ELSE IF Blocked THEN "deny" ELSE "ok"
       \/ trail' = "mixed"          \* the read fails: as if nothing blocked
    /\ UNCHANGED <<reports, world, askPc, unread>>
    /\ Watch

\* The write fails, or the caller goes away before it.
GiveUp(p) ==
    /\ p.pc # "now"
    /\ posts' = posts \ {p}
    /\ UNCHANGED <<reports, world, askPc, unread, trail>>
    /\ Watch

\* handleDeletePostureReport.
DeleteReport(d) ==
    /\ d \in Known
    /\ reports' = [e \in Known \ {d} |-> reports[e]]
    /\ trail' = IF posts = {} /\ trail # "mixed" THEN "deleted" ELSE "mixed"
    /\ UNCHANGED <<world, posts, askPc, unread>>
    /\ Watch

-----------------------------------------------------------------------------
(***************************************************************************)
(* handleKnockToken: the three gates, in this order.                       *)
(***************************************************************************)

Answer(i, a) ==
    /\ askPc' = [askPc EXCEPT ![i] = a]
    /\ UNCHANGED <<reports, world, posts, unread, trail>>
    /\ Watch

BeginAsk(i) == MayOpen /\ askPc[i] = "idle" /\ Answer(i, "ban")

CheckBan(i) ==
    /\ askPc[i] = "ban"
    /\ Answer(i, IF banned THEN "refused" ELSE "account")

CheckAccount(i) ==
    /\ askPc[i] = "account"
    /\ Answer(i, IF disabled THEN "refused" ELSE "verdict")

CheckVerdict(i) ==
    /\ askPc[i] = "verdict"
    /\ Answer(i, IF Blocked THEN "refused" ELSE IF strict THEN "fresh" ELSE "token")

CheckFresh(i) ==
    /\ askPc[i] = "fresh"
    /\ Answer(i, IF IsFresh THEN "token" ELSE "refused")

\* The database cannot be read: no token.
CheckFails(i) ==
    /\ askPc[i] \in {"account", "verdict", "fresh"}
    /\ Answer(i, "error")

Return(i) == askPc[i] \in Answered /\ Answer(i, "idle")

-----------------------------------------------------------------------------
(***************************************************************************)
(* The rest of the control plane, and the clock.                           *)
(***************************************************************************)

\* A kick or a change of status; a ban that is over or taken back.
SetBan ==
    /\ banned' = ~banned
    /\ UNCHANGED <<reports, disabled, strict, posts, askPc, unread, trail>>
    /\ Watch

SetStatus ==
    /\ disabled' = ~disabled
    /\ UNCHANGED <<reports, banned, strict, posts, askPc, unread, trail>>
    /\ Watch

Restart ==
    /\ banned' = FALSE
    /\ posts' = {}
    /\ askPc' = [i \in Ask |-> "idle"]
    /\ trail' = IF posts = {} THEN trail ELSE "mixed"
    /\ UNCHANGED <<reports, disabled, strict, unread>>
    /\ Watch

Older(a) == IF a < Old THEN a + 1 ELSE a

Tick ==
    /\ reports' = [d \in Known |-> [reports[d] EXCEPT !.age = Older(@)]]
    /\ posts' = {[p EXCEPT !.age = IF p.pc = "save" THEN Older(@) ELSE @] : p \in posts}
    /\ UNCHANGED <<world, askPc, unread, trail>>
    /\ Watch

Next ==
    \/ \E id \in Post, d \in Device, v \in Verdict : Judge(id, d, v) \/ JudgeUnread(id, d, v)
    \/ \E p \in posts : \/ Count(p) \/ CountUnread(p) \/ ReadPrev(p)
                        \/ SaveReport(p) \/ ReadNow(p) \/ GiveUp(p)
    \/ \E d \in Device : DeleteReport(d)
    \/ \E i \in Ask : \/ BeginAsk(i) \/ CheckBan(i) \/ CheckAccount(i)
                      \/ CheckVerdict(i) \/ CheckFresh(i) \/ CheckFails(i)
                      \/ Return(i)
    \/ SetBan \/ SetStatus \/ Restart \/ Tick

Spec == Init /\ [][Next]_vars

-----------------------------------------------------------------------------
(***************************************************************************)
(* What the gate promises.                                                 *)
(***************************************************************************)

\* No request gets a token past a reason that held from its first moment to
\* its last, whatever came and went beside it and whichever read failed.
NoTokenPastReason ==
    [][\A i \in Ask : askPc[i] \in Pending /\ askPc'[i] = "token" => stood[i] = {}]_vars

\* A refusal has a reason that held at some time during the request: an old
\* report of one device does not shut out a user whose other device is fresh.
RefusedForReason ==
    [][\A i \in Ask : askPc[i] \in Pending /\ askPc'[i] = "refused" => met[i] # {}]_vars

\* maxPostureDevices is read before the row is written, so reports under way
\* may overshoot it: by one less than their number, and by the reads that
\* failed, however often devices come, go and come back.
DevicesBounded ==
    Cardinality(Known) <= MaxDevices + Cardinality(Post) - 1 + unread

\* The comment at posture.go:73: the entries follow the gate.  While reports
\* come one at a time and the reads succeed, the last entry never says that
\* the user is let in while it is not, nor the other way round.
TrailFollowsGate ==
    posts = {} /\ trail # "mixed" =>
        IF Blocked THEN trail \in {"deny", "deleted"} ELSE trail # "deny"

=============================================================================
