---------------------------- MODULE PostureProofs ----------------------------
(***************************************************************************)
(* Proofs about PostureGate for every set of devices, every number of      *)
(* requests, every cap and every window of freshness; and about the risk   *)
(* engine for every list of baselines and reports of every length.         *)
(***************************************************************************)
EXTENDS RiskEngine, TLAPS, FiniteSetTheorems, WellFoundedInduction

Reports == UNION {[D -> Row] : D \in SUBSET Device}

Trail == {"none", "deny", "ok", "deleted", "mixed"}

(***************************************************************************)
(* Types.                                                                  *)
(***************************************************************************)

LEMMA KnownIsTyped ==
    ASSUME reports \in Reports
    PROVE  Known \subseteq Device /\ reports \in [Known -> Row]
<1>1. PICK D \in SUBSET Device : reports \in [D -> Row]
  BY DEF Reports
<1> QED BY <1>1 DEF Known

LEMMA PostChanges ==
    ASSUME TypeOK, NEW p \in posts, NEW q \in PostState, q.id = p.id,
           posts' = (posts \ {p}) \cup {q}
    PROVE  posts' \subseteq PostState /\ \A a, b \in posts' : a.id = b.id => a = b
BY DEF TypeOK

LEMMA PostOpens ==
    ASSUME TypeOK, NEW q \in PostState, \A p \in posts : p.id # q.id,
           posts' = posts \cup {q}
    PROVE  posts' \subseteq PostState /\ \A a, b \in posts' : a.id = b.id => a = b
BY DEF TypeOK

LEMMA PostCloses ==
    ASSUME TypeOK, posts' \subseteq posts
    PROVE  posts' \subseteq PostState /\ \A a, b \in posts' : a.id = b.id => a = b
BY DEF TypeOK

LEMMA InitType == Init => TypeOK
<1> SUFFICES ASSUME Init PROVE TypeOK
  OBVIOUS
<1>1. reports \in [{} -> Row]
  BY DEF Init
<1>2. unread \in 0 .. MaxUnread
  BY PostureAssumption DEF Init, PostureAssumption
<1> QED BY <1>1, <1>2 DEF Init, TypeOK

LEMMA WatchType ==
    ASSUME TypeOK, Watch
    PROVE  stood' \in [Ask -> SUBSET Reason] /\ met' \in [Ask -> SUBSET Reason]
<1>1. Reasons' \subseteq Reason
  BY DEF Reasons, Reason
<1> QED BY <1>1 DEF TypeOK, Watch

(* What the requests for a token and the other handlers share. *)
LEMMA AnswerType ==
    ASSUME TypeOK, NEW i \in Ask, NEW a \in Pending \cup Answered \cup {"idle"}, Answer(i, a)
    PROVE  TypeOK'
<1>1. /\ UNCHANGED <<reports, disabled, banned, strict, posts, unread, trail>>
      /\ askPc' = [askPc EXCEPT ![i] = a]
      /\ Watch
  BY DEF Answer, world
<1>2. stood' \in [Ask -> SUBSET Reason] /\ met' \in [Ask -> SUBSET Reason]
  BY <1>1, WatchType
<1> QED BY <1>1, <1>2 DEF TypeOK

LEMMA OlderType == ASSUME NEW a \in 0 .. Old PROVE Older(a) \in 0 .. Old
BY PostureAssumption DEF Older, Old, PostureAssumption

LEMMA StepType == TypeOK /\ [Next]_vars => TypeOK'
<1> SUFFICES ASSUME TypeOK, [Next]_vars PROVE TypeOK'
  OBVIOUS
<1>0. Known \subseteq Device /\ reports \in [Known -> Row]
  BY KnownIsTyped DEF TypeOK, Reports
<1>1. ASSUME NEW id \in Post, NEW d \in Device, NEW v \in Verdict, Judge(id, d, v)
      PROVE  TypeOK'
  <2>1. stood' \in [Ask -> SUBSET Reason] /\ met' \in [Ask -> SUBSET Reason]
    BY <1>1, WatchType DEF Judge
  <2> DEFINE q == [id |-> id, pc |-> IF d \in Known THEN "prev" ELSE "count",
                   dev |-> d, verdict |-> v, age |-> 0, prevBlocked |-> FALSE]
  <2>2. q \in PostState
    BY PostureAssumption DEF PostState, Old, PostureAssumption
  <2>3. posts' \subseteq PostState /\ \A a, b \in posts' : a.id = b.id => a = b
    <3>1. posts' = posts \cup {q} /\ \A p \in posts : p.id # q.id
      BY <1>1 DEF Judge
    <3> HIDE DEF q
    <3> QED BY <2>2, <3>1, PostOpens
  <2> QED BY <1>1, <2>1, <2>3 DEF Judge, TypeOK, world
<1>2. ASSUME NEW id \in Post, NEW d \in Device, NEW v \in Verdict, JudgeUnread(id, d, v)
      PROVE  TypeOK'
  <2>1. stood' \in [Ask -> SUBSET Reason] /\ met' \in [Ask -> SUBSET Reason]
    BY <1>2, WatchType DEF JudgeUnread
  <2> DEFINE q == [id |-> id, pc |-> "prev", dev |-> d, verdict |-> v,
                   age |-> 0, prevBlocked |-> FALSE]
  <2>2. q \in PostState
    BY PostureAssumption DEF PostState, Old, PostureAssumption
  <2>3. posts' \subseteq PostState /\ \A a, b \in posts' : a.id = b.id => a = b
    <3>1. posts' = posts \cup {q} /\ \A p \in posts : p.id # q.id
      BY <1>2 DEF JudgeUnread
    <3> HIDE DEF q
    <3> QED BY <2>2, <3>1, PostOpens
  <2>4. unread' \in 0 .. MaxUnread
    BY <1>2, PostureAssumption DEF JudgeUnread, TypeOK, PostureAssumption
  <2> QED BY <1>2, <2>1, <2>3, <2>4 DEF JudgeUnread, TypeOK, world
<1>3. ASSUME NEW p \in posts, Count(p) PROVE TypeOK'
  <2>1. stood' \in [Ask -> SUBSET Reason] /\ met' \in [Ask -> SUBSET Reason]
    BY <1>3, WatchType DEF Count
  <2>2. [p EXCEPT !.pc = "prev"] \in PostState
    BY DEF TypeOK, PostState
  <2>3. posts' \subseteq PostState /\ \A a, b \in posts' : a.id = b.id => a = b
    <3>1. CASE posts' = posts \ {p}
      BY <3>1, PostCloses
    <3>2. CASE Advance(p, "prev")
      <4>1. [p EXCEPT !.pc = "prev"].id = p.id
        BY DEF TypeOK, PostState
      <4> QED BY <2>2, <3>2, <4>1, PostChanges DEF Advance
    <3> QED BY <1>3, <3>1, <3>2 DEF Count
  <2> QED BY <1>3, <2>1, <2>3 DEF Count, TypeOK, world
<1>4. ASSUME NEW p \in posts, CountUnread(p) PROVE TypeOK'
  <2>1. stood' \in [Ask -> SUBSET Reason] /\ met' \in [Ask -> SUBSET Reason]
    BY <1>4, WatchType DEF CountUnread
  <2>2. /\ [p EXCEPT !.pc = "prev"] \in PostState
        /\ [p EXCEPT !.pc = "prev"].id = p.id
    BY DEF TypeOK, PostState
  <2>3. posts' \subseteq PostState /\ \A a, b \in posts' : a.id = b.id => a = b
    BY <1>4, <2>2, PostChanges DEF CountUnread, Advance
  <2>4. unread' \in 0 .. MaxUnread
    BY <1>4, PostureAssumption DEF CountUnread, TypeOK, PostureAssumption
  <2> QED BY <1>4, <2>1, <2>3, <2>4 DEF CountUnread, TypeOK, world
<1>5. ASSUME NEW p \in posts, ReadPrev(p) PROVE TypeOK'
  <2>1. stood' \in [Ask -> SUBSET Reason] /\ met' \in [Ask -> SUBSET Reason]
    BY <1>5, WatchType DEF ReadPrev
  <2>2. PICK b \in BOOLEAN, n \in 0 .. Old :
            posts' = (posts \ {p}) \cup {[p EXCEPT !.pc = "save", !.age = n, !.prevBlocked = b]}
    <3>1. CASE posts' = (posts \ {p}) \cup {[p EXCEPT !.pc = "save", !.age = 0, !.prevBlocked = Blocked]}
      <4>1. 0 \in 0 .. Old /\ Blocked \in BOOLEAN
        BY PostureAssumption DEF Old, PostureAssumption, Blocked
      <4> QED BY <3>1, <4>1
    <3>2. CASE Advance(p, "save")
      <4>1. p.age \in 0 .. Old /\ p.prevBlocked \in BOOLEAN
        BY DEF TypeOK, PostState
      <4>2. [p EXCEPT !.pc = "save"] = [p EXCEPT !.pc = "save", !.age = p.age, !.prevBlocked = p.prevBlocked]
        BY DEF TypeOK, PostState
      <4> QED BY <3>2, <4>1, <4>2 DEF Advance
    <3> QED BY <1>5, <3>1, <3>2 DEF ReadPrev
  <2>3. /\ [p EXCEPT !.pc = "save", !.age = n, !.prevBlocked = b] \in PostState
        /\ [p EXCEPT !.pc = "save", !.age = n, !.prevBlocked = b].id = p.id
    <3>1. p \in PostState
      BY DEF TypeOK
    <3> QED BY <3>1 DEF PostState
  <2>4. posts' \subseteq PostState /\ \A x, y \in posts' : x.id = y.id => x = y
    BY <2>2, <2>3, PostChanges
  <2>5. trail' \in Trail
    BY <1>5 DEF ReadPrev, TypeOK, Trail
  <2> QED BY <1>5, <2>1, <2>4, <2>5 DEF ReadPrev, TypeOK, Trail, world
<1>6. ASSUME NEW p \in posts, SaveReport(p) PROVE TypeOK'
  <2>1. stood' \in [Ask -> SUBSET Reason] /\ met' \in [Ask -> SUBSET Reason]
    BY <1>6, WatchType DEF SaveReport
  <2>2. /\ [p EXCEPT !.pc = "now", !.age = 0] \in PostState
        /\ [p EXCEPT !.pc = "now", !.age = 0].id = p.id
    <3>1. 0 \in 0 .. Old
      BY PostureAssumption DEF Old, PostureAssumption
    <3> QED BY <3>1 DEF TypeOK, PostState
  <2>3. posts' \subseteq PostState /\ \A a, b \in posts' : a.id = b.id => a = b
    BY <1>6, <2>2, PostChanges DEF SaveReport
  <2>4. reports' \in [Known \cup {p.dev} -> Row]
    <3>1. [verdict |-> p.verdict, age |-> p.age] \in Row
      BY DEF TypeOK, PostState, Row
    <3> QED BY <1>0, <1>6, <3>1 DEF SaveReport
  <2>5. Known \cup {p.dev} \in SUBSET Device
    BY <1>0 DEF TypeOK, PostState
  <2> QED BY <1>6, <2>1, <2>3, <2>4, <2>5 DEF SaveReport, TypeOK, world
<1>7. ASSUME NEW p \in posts, ReadNow(p) PROVE TypeOK'
  <2>1. stood' \in [Ask -> SUBSET Reason] /\ met' \in [Ask -> SUBSET Reason]
    BY <1>7, WatchType DEF ReadNow
  <2>2. posts' \subseteq PostState /\ \A a, b \in posts' : a.id = b.id => a = b
    BY <1>7, PostCloses DEF ReadNow
  <2>3. trail' \in Trail
    BY <1>7 DEF ReadNow, TypeOK, Trail
  <2> QED BY <1>7, <2>1, <2>2, <2>3 DEF ReadNow, TypeOK, Trail, world
<1>8. ASSUME NEW p \in posts, GiveUp(p) PROVE TypeOK'
  <2>1. stood' \in [Ask -> SUBSET Reason] /\ met' \in [Ask -> SUBSET Reason]
    BY <1>8, WatchType DEF GiveUp
  <2>2. posts' \subseteq PostState /\ \A a, b \in posts' : a.id = b.id => a = b
    BY <1>8, PostCloses DEF GiveUp
  <2> QED BY <1>8, <2>1, <2>2 DEF GiveUp, TypeOK, world
<1>9. ASSUME NEW d \in Device, DeleteReport(d) PROVE TypeOK'
  <2>1. stood' \in [Ask -> SUBSET Reason] /\ met' \in [Ask -> SUBSET Reason]
    BY <1>9, WatchType DEF DeleteReport
  <2>2. reports' \in [Known \ {d} -> Row] /\ Known \ {d} \in SUBSET Device
    BY <1>0, <1>9 DEF DeleteReport
  <2>3. trail' \in Trail
    BY <1>9 DEF DeleteReport, Trail
  <2>4. reports' \in UNION {[D -> Row] : D \in SUBSET Device}
    BY <2>2
  <2> QED BY <1>9, <2>1, <2>3, <2>4 DEF DeleteReport, TypeOK, Trail, world
<1>10. ASSUME NEW i \in Ask,
              \/ BeginAsk(i) \/ CheckBan(i) \/ CheckAccount(i) \/ CheckVerdict(i)
              \/ CheckFresh(i) \/ CheckFails(i) \/ Return(i)
       PROVE  TypeOK'
  <2>1. PICK a \in Pending \cup Answered \cup {"idle"} : Answer(i, a)
    <3>1. CASE BeginAsk(i) \/ CheckFails(i) \/ Return(i)
      BY <3>1 DEF BeginAsk, CheckFails, Return, Pending, Answered
    <3>2. CASE CheckBan(i) \/ CheckAccount(i) \/ CheckFresh(i)
      <4>1. /\ (IF banned THEN "refused" ELSE "account") \in Pending \cup Answered
            /\ (IF disabled THEN "refused" ELSE "verdict") \in Pending \cup Answered
            /\ (IF IsFresh THEN "token" ELSE "refused") \in Pending \cup Answered
        BY DEF Pending, Answered
      <4> QED BY <3>2, <4>1 DEF CheckBan, CheckAccount, CheckFresh
    <3>3. CASE CheckVerdict(i)
      <4> DEFINE a == IF Blocked THEN "refused" ELSE IF strict THEN "fresh" ELSE "token"
      <4>1. a \in Pending \cup Answered
        BY DEF Pending, Answered
      <4>2. Answer(i, a)
        BY <3>3 DEF CheckVerdict
      <4> QED BY <4>1, <4>2
    <3> QED BY <1>10, <3>1, <3>2, <3>3
  <2> QED BY <2>1, AnswerType
<1>11. CASE SetBan
  <2>1. stood' \in [Ask -> SUBSET Reason] /\ met' \in [Ask -> SUBSET Reason]
    BY <1>11, WatchType DEF SetBan
  <2> QED BY <1>11, <2>1 DEF SetBan, TypeOK
<1>12. CASE SetStatus
  <2>1. stood' \in [Ask -> SUBSET Reason] /\ met' \in [Ask -> SUBSET Reason]
    BY <1>12, WatchType DEF SetStatus
  <2> QED BY <1>12, <2>1 DEF SetStatus, TypeOK
<1>13. CASE Restart
  <2>1. stood' \in [Ask -> SUBSET Reason] /\ met' \in [Ask -> SUBSET Reason]
    BY <1>13, WatchType DEF Restart
  <2> QED BY <1>13, <2>1 DEF Restart, TypeOK
<1>14. CASE Tick
  <2>1. stood' \in [Ask -> SUBSET Reason] /\ met' \in [Ask -> SUBSET Reason]
    BY <1>14, WatchType DEF Tick
  <2>2. reports' \in [Known -> Row]
    <3>1. \A d \in Known : [reports[d] EXCEPT !.age = Older(@)] \in Row
      BY <1>0, OlderType DEF Row
    <3> QED BY <1>14, <3>1 DEF Tick
  <2> DEFINE Aged(p) == [p EXCEPT !.age = IF p.pc = "save" THEN Older(@) ELSE @]
  <2>3. ASSUME NEW p \in posts PROVE Aged(p) \in PostState /\ Aged(p).id = p.id
    BY OlderType DEF TypeOK, PostState
  <2>4. posts' \subseteq PostState /\ \A a, b \in posts' : a.id = b.id => a = b
    <3>1. posts' = {Aged(p) : p \in posts}
      BY <1>14 DEF Tick
    <3> HIDE DEF Aged
    <3> QED BY <2>3, <3>1 DEF TypeOK
  <2> QED BY <1>0, <1>14, <2>1, <2>2, <2>4 DEF Tick, TypeOK, world
<1>15. CASE UNCHANGED vars
  BY <1>15 DEF vars, world, TypeOK
<1> QED BY <1>1, <1>2, <1>3, <1>4, <1>5, <1>6, <1>7, <1>8, <1>9, <1>10, <1>11, <1>12,
           <1>13, <1>14, <1>15 DEF Next

\* Every variable keeps its type, for every set of devices and requests.
THEOREM PostureTypeCorrect == Spec => []TypeOK
BY InitType, StepType, PTL DEF Spec

(***************************************************************************)
(* The cap on devices.  What a report may still add was either counted, at *)
(* a time when there was room, or comes of a read that failed.             *)
(***************************************************************************)

(* The reports that nothing stops any more short of the write. *)
Admitted == {p \in posts : p.pc \in {"prev", "save"}}

(* The devices that have a row, or are about to get one. *)
Held == Known \cup {p.dev : p \in Admitted}

HeldBounded == Cardinality(Held) <= MaxDevices + Cardinality(Post) - 1 + unread

(* No two reports under way have one slot, so their devices are no more than the slots. *)
LEMMA ReportingDevices ==
    ASSUME NEW Q \in SUBSET PostState, \A p, q \in Q : p.id = q.id => p = q
    PROVE  LET S == {p.dev : p \in Q}
           IN  IsFiniteSet(S) /\ Cardinality(S) <= Cardinality(Post)
<1> DEFINE S == {p.dev : p \in Q}
           I == {p.id : p \in Q}
           dev == [i \in I |-> (CHOOSE p \in Q : p.id = i).dev]
<1>1. IsFiniteSet(I) /\ Cardinality(I) <= Cardinality(Post)
  <2>1. I \in SUBSET Post
    BY DEF PostState
  <2> QED BY <2>1, FS_Subset, PostureAssumption DEF PostureAssumption
<1>2. dev \in Surjection(I, S)
  <2>1. ASSUME NEW p \in Q PROVE p.id \in I /\ dev[p.id] = p.dev
    OBVIOUS
  <2>2. dev \in [I -> S]
    BY <2>1
  <2>3. \A d \in S : \E i \in I : dev[i] = d
    BY <2>1
  <2> QED BY <2>2, <2>3 DEF Surjection
<1>3. IsFiniteSet(S) /\ Cardinality(S) <= Cardinality(I)
  BY <1>1, <1>2, FS_Surjection
<1>4. Cardinality(S) \in Nat /\ Cardinality(I) \in Nat /\ Cardinality(Post) \in Nat
  BY <1>1, <1>3, FS_CardinalityType, PostureAssumption DEF PostureAssumption
<1> QED BY <1>1, <1>3, <1>4

LEMMA HeldFinite ==
    ASSUME TypeOK
    PROVE  /\ Held \subseteq Device /\ IsFiniteSet(Held) /\ IsFiniteSet(Known)
           /\ Cardinality(Held) \in Nat /\ Cardinality(Known) \in Nat
           /\ Cardinality(Post) \in Nat /\ unread \in Nat
<1>1. Known \subseteq Device
  BY KnownIsTyped DEF TypeOK, Reports
<1>2. Held \subseteq Device /\ Known \subseteq Device
  BY <1>1 DEF Held, Admitted, TypeOK, PostState
<1>3. IsFiniteSet(Held) /\ IsFiniteSet(Known)
  BY <1>2, FS_Subset, PostureAssumption DEF PostureAssumption
<1> QED BY <1>2, <1>3, FS_CardinalityType, PostureAssumption DEF TypeOK, PostureAssumption

(* A step after which no new device is held. *)
LEMMA HeldShrinks ==
    ASSUME TypeOK, TypeOK', HeldBounded, Held' \subseteq Held, unread' = unread
    PROVE  HeldBounded'
<1>1. Cardinality(Held') <= Cardinality(Held)
  BY HeldFinite, FS_Subset
<1>2. Cardinality(Held') \in Nat
  BY HeldFinite, FS_Subset, FS_CardinalityType
<1> QED BY <1>1, <1>2, HeldFinite, PostureAssumption DEF HeldBounded, PostureAssumption

(* A step that lets a device in because a read failed. *)
LEMMA HeldByFailure ==
    ASSUME TypeOK, TypeOK', HeldBounded, NEW d, Held' \subseteq Held \cup {d},
           unread' = unread + 1
    PROVE  HeldBounded'
<1>1. /\ IsFiniteSet(Held \cup {d})
      /\ Cardinality(Held \cup {d}) <= Cardinality(Held) + 1
      /\ Cardinality(Held \cup {d}) \in Nat
  BY HeldFinite, FS_AddElement, FS_CardinalityType
<1>2. Cardinality(Held') <= Cardinality(Held \cup {d}) /\ Cardinality(Held') \in Nat
  BY <1>1, FS_Subset, FS_CardinalityType
<1> QED BY <1>1, <1>2, HeldFinite, PostureAssumption DEF HeldBounded, PostureAssumption

(* A step that lets a device in because there is room. *)
LEMMA HeldByCount ==
    ASSUME TypeOK, TypeOK', Cardinality(Known) < MaxDevices, Known' = Known, unread' = unread
    PROVE  HeldBounded'
<1> DEFINE S == {p.dev : p \in posts}
<1>1. IsFiniteSet(S') /\ Cardinality(S') <= Cardinality(Post) /\ Cardinality(S') \in Nat
  <2>1. posts' \in SUBSET PostState /\ \A p, q \in posts' : p.id = q.id => p = q
    BY DEF TypeOK
  <2> QED BY <2>1, ReportingDevices, FS_CardinalityType
<1>2. Held' \subseteq Known \cup S'
  BY DEF Held, Admitted
<1>3. /\ IsFiniteSet(Known \cup S')
      /\ Cardinality(Known \cup S') = Cardinality(Known) + Cardinality(S') - Cardinality(Known \cap S')
  BY <1>1, HeldFinite, FS_Union
<1>4. Cardinality(Known \cap S') \in Nat
  BY <1>1, FS_Subset, FS_CardinalityType
<1>5. Cardinality(Held') <= Cardinality(Known \cup S')
  BY <1>2, <1>3, FS_Subset
<1>6. Cardinality(Held') \in Nat
  BY <1>2, <1>3, FS_Subset, FS_CardinalityType
<1> QED BY <1>1, <1>3, <1>4, <1>5, <1>6, HeldFinite, PostureAssumption
        DEF HeldBounded, PostureAssumption

LEMMA InitHeld == Init => HeldBounded
<1> SUFFICES ASSUME Init PROVE HeldBounded
  OBVIOUS
<1>1. Held = {} /\ unread = 0
  BY DEF Init, Held, Admitted, Known
<1> QED BY <1>1, FS_EmptySet, FS_CardinalityType, PostureAssumption
        DEF HeldBounded, PostureAssumption

LEMMA StepHeld == TypeOK /\ TypeOK' /\ HeldBounded /\ [Next]_vars => HeldBounded'
<1> SUFFICES ASSUME TypeOK, TypeOK', HeldBounded, [Next]_vars PROVE HeldBounded'
  OBVIOUS
<1>1. ASSUME NEW id \in Post, NEW d \in Device, NEW v \in Verdict, Judge(id, d, v)
      PROVE  HeldBounded'
  <2>1. Held' \subseteq Held
    BY <1>1 DEF Judge, Held, Admitted, Known
  <2> QED BY <1>1, <2>1, HeldShrinks DEF Judge
<1>2. ASSUME NEW id \in Post, NEW d \in Device, NEW v \in Verdict, JudgeUnread(id, d, v)
      PROVE  HeldBounded'
  <2>1. Held' \subseteq Held \cup {d}
    BY <1>2 DEF JudgeUnread, Held, Admitted, Known
  <2> QED BY <1>2, <2>1, HeldByFailure DEF JudgeUnread
<1>3. ASSUME NEW p \in posts, Count(p) PROVE HeldBounded'
  <2>1. unread' = unread /\ Known' = Known
    BY <1>3 DEF Count, Known
  <2>2. CASE Cardinality(Known) >= MaxDevices
    <3>1. Held' \subseteq Held
      BY <1>3, <2>2 DEF Count, Held, Admitted, Known
    <3> QED BY <2>1, <3>1, HeldShrinks
  <2>3. CASE ~(Cardinality(Known) >= MaxDevices)
    <3>1. Cardinality(Known) < MaxDevices
      BY <2>3, HeldFinite, PostureAssumption DEF PostureAssumption
    <3> QED BY <2>1, <3>1, HeldByCount
  <2> QED BY <2>2, <2>3
<1>4. ASSUME NEW p \in posts, CountUnread(p) PROVE HeldBounded'
  <2>1. [p EXCEPT !.pc = "prev"].dev = p.dev
    BY DEF TypeOK, PostState
  <2>2. Held' \subseteq Held \cup {p.dev}
    BY <1>4, <2>1 DEF CountUnread, Advance, Held, Admitted, Known
  <2> QED BY <1>4, <2>2, HeldByFailure DEF CountUnread
<1>5. ASSUME NEW p \in posts, ReadPrev(p) PROVE HeldBounded'
  <2>1. PICK q : q.dev = p.dev /\ posts' = (posts \ {p}) \cup {q}
    <3>1. /\ [p EXCEPT !.pc = "save", !.age = 0, !.prevBlocked = Blocked].dev = p.dev
          /\ [p EXCEPT !.pc = "save"].dev = p.dev
      BY DEF TypeOK, PostState
    <3> QED BY <1>5, <3>1 DEF ReadPrev, Advance
  <2>2. p \in Admitted
    BY <1>5 DEF ReadPrev, Admitted
  <2>3. Held' \subseteq Held
    BY <1>5, <2>1, <2>2 DEF ReadPrev, Held, Admitted, Known
  <2> QED BY <1>5, <2>3, HeldShrinks DEF ReadPrev
<1>6. ASSUME NEW p \in posts, SaveReport(p) PROVE HeldBounded'
  <2>1. [p EXCEPT !.pc = "now", !.age = 0].pc = "now"
    BY DEF TypeOK, PostState
  <2>2. p \in Admitted /\ Known' = Known \cup {p.dev} /\ Admitted' \subseteq Admitted
    BY <1>6, <2>1 DEF SaveReport, Admitted, Known
  <2>3. Held' \subseteq Held
    BY <2>2 DEF Held
  <2> QED BY <1>6, <2>3, HeldShrinks DEF SaveReport
<1>7. ASSUME NEW p \in posts, ReadNow(p) \/ GiveUp(p) PROVE HeldBounded'
  <2>1. Held' \subseteq Held /\ unread' = unread
    BY <1>7 DEF ReadNow, GiveUp, Held, Admitted, Known
  <2> QED BY <2>1, HeldShrinks
<1>8. ASSUME NEW d \in Device, DeleteReport(d) PROVE HeldBounded'
  <2>1. Known' \subseteq Known /\ posts' = posts /\ unread' = unread
    BY <1>8 DEF DeleteReport, Known
  <2>2. Held' \subseteq Held
    BY <2>1 DEF Held, Admitted
  <2> QED BY <2>1, <2>2, HeldShrinks
<1>9. ASSUME NEW i \in Ask,
             \/ BeginAsk(i) \/ CheckBan(i) \/ CheckAccount(i) \/ CheckVerdict(i)
             \/ CheckFresh(i) \/ CheckFails(i) \/ Return(i)
      PROVE  HeldBounded'
  <2>1. UNCHANGED <<reports, posts, unread>>
    BY <1>9 DEF BeginAsk, CheckBan, CheckAccount, CheckVerdict, CheckFresh, CheckFails,
                Return, Answer
  <2>2. Held' \subseteq Held
    BY <2>1 DEF Held, Admitted, Known
  <2> QED BY <2>1, <2>2, HeldShrinks
<1>10. CASE SetBan \/ SetStatus \/ Restart \/ UNCHANGED vars
  <2>1. reports' = reports /\ posts' \subseteq posts /\ unread' = unread
    BY <1>10 DEF SetBan, SetStatus, Restart, vars
  <2>2. Held' \subseteq Held
    BY <2>1 DEF Held, Admitted, Known
  <2> QED BY <2>1, <2>2, HeldShrinks
<1>11. CASE Tick
  <2> DEFINE Aged(p) == [p EXCEPT !.age = IF p.pc = "save" THEN Older(@) ELSE @]
  <2>1. ASSUME NEW p \in posts PROVE Aged(p).dev = p.dev /\ Aged(p).pc = p.pc
    BY DEF TypeOK, PostState
  <2>2. posts' = {Aged(p) : p \in posts} /\ Known' = Known /\ unread' = unread
    BY <1>11 DEF Tick, Known
  <2>3. Held' \subseteq Held
    <3> HIDE DEF Aged
    <3> QED BY <2>1, <2>2 DEF Held, Admitted
  <2> QED BY <2>2, <2>3, HeldShrinks
<1> QED BY <1>1, <1>2, <1>3, <1>4, <1>5, <1>6, <1>7, <1>8, <1>9, <1>10, <1>11 DEF Next

\* The cap on devices is overshot by no more than the reports under way and the
\* failed reads, for every cap and every number of devices and requests.
THEOREM CapTheorem == Spec => []DevicesBounded
<1>1. Init => TypeOK /\ HeldBounded
  BY InitType, InitHeld
<1>2. TypeOK /\ HeldBounded /\ [Next]_vars => TypeOK' /\ HeldBounded'
  BY StepType, StepHeld
<1>3. TypeOK /\ HeldBounded => DevicesBounded
  <2> SUFFICES ASSUME TypeOK, HeldBounded PROVE DevicesBounded
    OBVIOUS
  <2>1. Cardinality(Known) <= Cardinality(Held)
    BY HeldFinite, FS_Subset DEF Held
  <2> QED BY <2>1, HeldFinite, PostureAssumption DEF HeldBounded, DevicesBounded, PostureAssumption
<1> QED BY <1>1, <1>2, <1>3, PTL DEF Spec

(***************************************************************************)
(* The gate.  A reason that stood since the request began still holds, so  *)
(* a check that passes takes it off; and a reason that holds has been met. *)
(***************************************************************************)

GateOK(i) ==
    askPc[i] \in Pending =>
        /\ stood[i] \subseteq Reasons
        /\ Reasons \subseteq met[i]
        /\ askPc[i] # "ban" => "ban" \notin stood[i]
        /\ askPc[i] \in {"verdict", "fresh"} => "account" \notin stood[i]
        /\ askPc[i] = "fresh" => "block" \notin stood[i] /\ strict

GateInv == \A i \in Ask : GateOK(i)

(* Requests that stay where they are, begin or end: the history takes care of them. *)
LEMMA Watched ==
    ASSUME TypeOK, NEW i \in Ask, GateOK(i), Watch, strict' = strict,
           askPc'[i] = askPc[i] \/ askPc'[i] \notin Pending \/ askPc'[i] = "ban"
    PROVE  GateOK(i)'
<1> SUFFICES ASSUME askPc'[i] \in Pending PROVE GateOK(i)'
  BY DEF GateOK
<1>1. /\ stood'[i] = IF askPc[i] \in Pending THEN stood[i] \cap Reasons' ELSE Reasons'
      /\ met'[i] = met[i] \cup Reasons'
  BY DEF Watch
<1>2. CASE askPc'[i] = "ban"
  BY <1>1, <1>2 DEF GateOK
<1>3. CASE askPc'[i] = askPc[i]
  BY <1>1, <1>3 DEF GateOK
<1> QED BY <1>2, <1>3

(* A step that moves no request on, but may begin or end one. *)
LEMMA GateKept ==
    ASSUME TypeOK, GateInv, Watch, strict' = strict,
           \A i \in Ask : \/ askPc'[i] = askPc[i]
                         \/ askPc'[i] \notin Pending
                         \/ askPc'[i] = "ban"
    PROVE  GateInv'
BY Watched DEF GateInv

(* A check that passes: its reason does not hold, hence it did not stand. *)
LEMMA GatePasses ==
    ASSUME TypeOK, GateInv, NEW i \in Ask,
           \/ CheckBan(i) /\ ~banned
           \/ CheckAccount(i) /\ ~disabled
           \/ CheckVerdict(i) /\ ~Blocked /\ strict
    PROVE  GateInv'
<1>1. /\ Watch /\ UNCHANGED <<reports, disabled, banned, strict>>
      /\ \A j \in Ask : j # i => askPc'[j] = askPc[j]
      /\ askPc[i] \in Pending
  BY DEF CheckBan, CheckAccount, CheckVerdict, Answer, world, TypeOK, Pending
<1>2. Reasons' = Reasons
  BY <1>1 DEF Reasons, Known
<1>3. ASSUME NEW j \in Ask, j # i PROVE GateOK(j)'
  BY <1>1, <1>3, Watched DEF GateInv
<1>4. /\ stood'[i] \subseteq stood[i] /\ stood'[i] \subseteq Reasons'
      /\ askPc'[i] \in Pending => Reasons' \subseteq met'[i]
  BY <1>1 DEF Watch
<1>5. stood[i] \subseteq Reasons /\ GateOK(i)
  BY <1>1 DEF GateInv, GateOK
<1>6. GateOK(i)'
  <2>1. CASE CheckBan(i) /\ ~banned
    <3>1. askPc'[i] = "account"
      BY <2>1 DEF CheckBan, Answer, TypeOK
    <3>2. "ban" \notin Reasons
      BY <2>1 DEF Reasons
    <3> QED BY <1>4, <1>5, <3>1, <3>2 DEF GateOK
  <2>2. CASE CheckAccount(i) /\ ~disabled
    <3>1. askPc'[i] = "verdict" /\ askPc[i] = "account"
      BY <2>2 DEF CheckAccount, Answer, TypeOK
    <3>2. "account" \notin Reasons
      BY <2>2 DEF Reasons
    <3> QED BY <1>1, <1>4, <1>5, <3>1, <3>2 DEF GateOK
  <2>3. CASE CheckVerdict(i) /\ ~Blocked /\ strict
    <3>1. askPc'[i] = "fresh" /\ askPc[i] = "verdict"
      BY <2>3 DEF CheckVerdict, Answer, TypeOK
    <3>2. "block" \notin Reasons
      BY <2>3 DEF Reasons, Blocked
    <3> QED BY <1>1, <1>4, <1>5, <2>3, <3>1, <3>2 DEF GateOK
  <2> QED BY <2>1, <2>2, <2>3
<1> QED BY <1>3, <1>6 DEF GateInv

LEMMA InitGate == Init => GateInv
BY DEF Init, GateInv, GateOK, Pending

LEMMA StepGate == TypeOK /\ GateInv /\ [Next]_vars => GateInv'
<1> SUFFICES ASSUME TypeOK, GateInv, [Next]_vars PROVE GateInv'
  OBVIOUS
<1>1. CASE UNCHANGED vars
  BY <1>1 DEF vars, world, GateInv, GateOK, Reasons, Known
<1>2. ASSUME NEW id \in Post, NEW d \in Device, NEW v \in Verdict,
             Judge(id, d, v) \/ JudgeUnread(id, d, v)
      PROVE  GateInv'
  <2>1. Watch /\ strict' = strict /\ askPc' = askPc
    BY <1>2 DEF Judge, JudgeUnread, world
  <2> QED BY <2>1, GateKept
<1>3. ASSUME NEW p \in posts,
             \/ Count(p) \/ CountUnread(p) \/ ReadPrev(p)
             \/ SaveReport(p) \/ ReadNow(p) \/ GiveUp(p)
      PROVE  GateInv'
  <2>1. Watch /\ strict' = strict /\ askPc' = askPc
    BY <1>3 DEF Count, CountUnread, ReadPrev, SaveReport, ReadNow, GiveUp, world
  <2> QED BY <2>1, GateKept
<1>4. ASSUME NEW d \in Device, DeleteReport(d) PROVE GateInv'
  <2>1. Watch /\ strict' = strict /\ askPc' = askPc
    BY <1>4 DEF DeleteReport, world
  <2> QED BY <2>1, GateKept
<1>5. CASE SetBan \/ SetStatus \/ Tick
  <2>1. Watch /\ strict' = strict /\ askPc' = askPc
    BY <1>5 DEF SetBan, SetStatus, Tick, world
  <2> QED BY <2>1, GateKept
<1>6. CASE Restart
  <2>1. Watch /\ strict' = strict /\ \A i \in Ask : askPc'[i] \notin Pending
    BY <1>6 DEF Restart, Pending
  <2> QED BY <2>1, GateKept
<1>7. ASSUME NEW i \in Ask,
             \/ BeginAsk(i) \/ CheckBan(i) \/ CheckAccount(i) \/ CheckVerdict(i)
             \/ CheckFresh(i) \/ CheckFails(i) \/ Return(i)
      PROVE  GateInv'
  <2>1. CASE \/ CheckBan(i) /\ ~banned
             \/ CheckAccount(i) /\ ~disabled
             \/ CheckVerdict(i) /\ ~Blocked /\ strict
    BY <2>1, GatePasses
  <2>2. CASE ~(\/ CheckBan(i) /\ ~banned
               \/ CheckAccount(i) /\ ~disabled
               \/ CheckVerdict(i) /\ ~Blocked /\ strict)
    <3>1. PICK a \in {"ban", "idle"} \cup Answered : Answer(i, a)
      <4>1. CASE BeginAsk(i) \/ CheckFails(i) \/ Return(i)
        BY <4>1 DEF BeginAsk, CheckFails, Return, Answered
      <4>2. CASE CheckBan(i) \/ CheckAccount(i)
        BY <2>2, <4>2 DEF CheckBan, CheckAccount, Answered
      <4>3. CASE CheckVerdict(i)
        <5> DEFINE a == IF Blocked THEN "refused" ELSE IF strict THEN "fresh" ELSE "token"
        <5>1. Answer(i, a)
          BY <4>3 DEF CheckVerdict
        <5>2. CASE Blocked
          <6>1. a = "refused"
            BY <5>2
          <6> QED BY <5>1, <6>1 DEF Answered
        <5>3. CASE ~Blocked
          <6>1. ~strict
            BY <2>2, <4>3, <5>3
          <6>2. a = "token"
            BY <5>3, <6>1
          <6> QED BY <5>1, <6>2 DEF Answered
        <5> QED BY <5>2, <5>3
      <4>4. CASE CheckFresh(i)
        <5>1. (IF IsFresh THEN "token" ELSE "refused") \in Answered
          BY DEF Answered
        <5> QED BY <4>4, <5>1 DEF CheckFresh
      <4> QED BY <1>7, <4>1, <4>2, <4>3, <4>4
    <3>2. /\ Watch /\ strict' = strict /\ askPc' = [askPc EXCEPT ![i] = a]
          /\ a = "ban" \/ a \notin Pending
      BY <3>1 DEF Answer, world, Answered, Pending
    <3> QED BY <3>2, GateKept DEF TypeOK
  <2> QED BY <2>1, <2>2
<1> QED BY <1>1, <1>2, <1>3, <1>4, <1>5, <1>6, <1>7 DEF Next

(* Only the checks end a pending request with a token or a refusal. *)
LEMMA Decides ==
    ASSUME TypeOK, [Next]_vars, NEW i \in Ask, askPc[i] \in Pending,
           askPc'[i] \in {"token", "refused"}
    PROVE  CheckBan(i) \/ CheckAccount(i) \/ CheckVerdict(i) \/ CheckFresh(i)
<1>1. askPc'[i] # askPc[i] /\ askPc'[i] \notin {"idle", "ban", "error"}
  BY DEF Pending
<1>2. PICK j \in Ask : \/ BeginAsk(j) \/ CheckBan(j) \/ CheckAccount(j) \/ CheckVerdict(j)
                        \/ CheckFresh(j) \/ CheckFails(j) \/ Return(j)
  BY <1>1 DEF Next, vars, Judge, JudgeUnread, Count, CountUnread, ReadPrev, SaveReport, ReadNow,
              GiveUp, DeleteReport, SetBan, SetStatus, Restart, Tick
<1>3. j = i
  BY <1>1, <1>2 DEF BeginAsk, CheckBan, CheckAccount, CheckVerdict, CheckFresh, CheckFails,
                    Return, Answer, TypeOK
<1> QED BY <1>1, <1>2, <1>3 DEF BeginAsk, CheckFails, Return, Answer, TypeOK

(* What the decision says of the reasons that hold as it is made. *)
LEMMA DecidesByReason ==
    ASSUME TypeOK, GateInv, [Next]_vars, NEW i \in Ask, askPc[i] \in Pending
    PROVE  /\ askPc'[i] = "token" => stood[i] = {}
           /\ askPc'[i] = "refused" => met[i] # {}
<1>1. /\ stood[i] \subseteq Reasons /\ Reasons \subseteq met[i]
      /\ askPc[i] # "ban" => "ban" \notin stood[i]
      /\ askPc[i] \in {"verdict", "fresh"} => "account" \notin stood[i]
      /\ askPc[i] = "fresh" => "block" \notin stood[i] /\ strict
  BY DEF GateInv, GateOK
<1>2. stood[i] \subseteq {"ban", "account", "block", "stale"}
  BY DEF TypeOK, Reason
<1>3. ASSUME askPc'[i] = "token" PROVE stood[i] = {}
  <2>1. \/ askPc[i] = "verdict" /\ ~Blocked /\ ~strict
        \/ askPc[i] = "fresh" /\ IsFresh
    <3>1. CheckBan(i) \/ CheckAccount(i) \/ CheckVerdict(i) \/ CheckFresh(i)
      BY <1>3, Decides
    <3> QED BY <1>3, <3>1 DEF CheckBan, CheckAccount, CheckVerdict, CheckFresh, Answer, TypeOK
  <2>2. "stale" \notin Reasons
    <3>1. CASE ~strict
      BY <3>1 DEF Reasons
    <3>2. CASE IsFresh
      <4>1. PICK d \in Known : reports[d].age <= Fresh
        BY <3>2 DEF IsFresh
      <4>2. reports[d].age \in Nat
        BY KnownIsTyped, PostureAssumption DEF TypeOK, Reports, Row, Old, PostureAssumption
      <4>3. ~(reports[d].age > Fresh)
        BY <4>1, <4>2, PostureAssumption DEF PostureAssumption
      <4> QED BY <4>3 DEF Reasons
    <3> QED BY <2>1, <3>1, <3>2
  <2>3. ~Blocked => "block" \notin Reasons
    BY DEF Reasons, Blocked
  <2> QED BY <1>1, <1>2, <2>1, <2>2, <2>3
<1>4. ASSUME askPc'[i] = "refused" PROVE met[i] # {}
  <2>1. banned \/ disabled \/ Blocked \/ (~IsFresh /\ strict)
    <3>1. CheckBan(i) \/ CheckAccount(i) \/ CheckVerdict(i) \/ CheckFresh(i)
      BY <1>4, Decides
    <3> QED BY <1>1, <1>4, <3>1 DEF CheckBan, CheckAccount, CheckVerdict, CheckFresh, Answer, TypeOK
  <2>2. ~IsFresh => \A d \in Known : reports[d].age > Fresh
    <3>1. \A d \in Known : reports[d].age \in Nat
      BY KnownIsTyped, PostureAssumption DEF TypeOK, Reports, Row, Old, PostureAssumption
    <3> QED BY <3>1, PostureAssumption DEF IsFresh, PostureAssumption
  <2>3. Reasons # {}
    BY <2>1, <2>2 DEF Reasons, Blocked
  <2> QED BY <1>1, <2>3
<1> QED BY <1>3, <1>4

\* No request gets a token past a reason that stood all through it, with any
\* number of devices, of reports and of requests beside it.
THEOREM TokenTheorem == Spec => NoTokenPastReason
<1>1. Init => TypeOK /\ GateInv
  BY InitType, InitGate
<1>2. TypeOK /\ GateInv /\ [Next]_vars => TypeOK' /\ GateInv'
  BY StepType, StepGate
<1>3. TypeOK /\ GateInv /\ [Next]_vars =>
        [\A i \in Ask : askPc[i] \in Pending /\ askPc'[i] = "token" => stood[i] = {}]_vars
  BY DecidesByReason
<1> QED BY <1>1, <1>2, <1>3, PTL DEF Spec, NoTokenPastReason

\* No request is refused but for a reason that held at some time during it.
THEOREM RefusalTheorem == Spec => RefusedForReason
<1>1. Init => TypeOK /\ GateInv
  BY InitType, InitGate
<1>2. TypeOK /\ GateInv /\ [Next]_vars => TypeOK' /\ GateInv'
  BY StepType, StepGate
<1>3. TypeOK /\ GateInv /\ [Next]_vars =>
        [\A i \in Ask : askPc[i] \in Pending /\ askPc'[i] = "refused" => met[i] # {}]_vars
  BY DecidesByReason
<1> QED BY <1>1, <1>2, <1>3, PTL DEF Spec, RefusedForReason

(***************************************************************************)
(* The audit trail.  Until reports overlap, a read fails or a report is    *)
(* deleted beside another, one report is under way at a time: the trail    *)
(* says what the gate does until its row is written, and what the gate did *)
(* before the write from there to its own entry.                           *)
(***************************************************************************)

(* The last entry may stand for a gate that is shut (b), or for one that is open. *)
Says(b) == IF b THEN trail \in {"deny", "deleted"} ELSE trail # "deny"

TrailInv ==
    trail # "mixed" =>
        /\ \A p, q \in posts : p = q
        /\ (\A p \in posts : p.pc # "now") => Says(Blocked)
        /\ \A p \in posts : /\ p.pc = "save" => p.prevBlocked = Blocked
                            /\ p.pc = "now" => Says(p.prevBlocked)

LEMMA InitTrail == Init => TrailInv
BY DEF Init, TrailInv, Says, Blocked, Known

(* A step that neither writes a row nor an entry, nor starts a report. *)
LEMMA TrailKept ==
    ASSUME TrailInv, Blocked' = Blocked, trail' = trail,
           posts' \subseteq posts, \A p \in posts : p.pc = "now" => p \in posts'
    PROVE  TrailInv'
BY DEF TrailInv, Says

(* A report that goes on to its next step, and the entries with it. *)
LEMMA TrailGoesOn ==
    ASSUME TrailInv, NEW p \in posts, NEW q, posts' = (posts \ {p}) \cup {q}, trail' = trail,
           trail # "mixed" =>
               /\ q.pc # "now" => Says(Blocked)'
               /\ q.pc = "save" => q.prevBlocked = Blocked'
               /\ q.pc = "now" => Says(q.prevBlocked)
    PROVE  TrailInv'
<1> SUFFICES ASSUME trail # "mixed" PROVE TrailInv'
  BY DEF TrailInv
<1>1. posts' = {q}
  BY DEF TrailInv
<1> QED BY <1>1 DEF TrailInv, Says

(* Before the row is written, the trail says what the gate does. *)
LEMMA TrailBeforeWrite ==
    ASSUME TrailInv, trail # "mixed", NEW p \in posts, p.pc # "now"
    PROVE  Says(Blocked)
BY DEF TrailInv

LEMMA StepTrail == TypeOK /\ TrailInv /\ [Next]_vars => TrailInv'
<1> SUFFICES ASSUME TypeOK, TrailInv, [Next]_vars PROVE TrailInv'
  OBVIOUS
<1>1. ASSUME NEW id \in Post, NEW d \in Device, NEW v \in Verdict,
             Judge(id, d, v) \/ JudgeUnread(id, d, v)
      PROVE  TrailInv'
  <2>1. PICK q : /\ posts' = posts \cup {q} /\ q.pc \in {"count", "prev"}
                 /\ Blocked' = Blocked
                 /\ trail' = IF posts = {} THEN trail ELSE "mixed"
    <3> DEFINE r(pc) == [id |-> id, pc |-> pc, dev |-> d, verdict |-> v,
                         age |-> 0, prevBlocked |-> FALSE]
    <3>1. Blocked' = Blocked /\ trail' = IF posts = {} THEN trail ELSE "mixed"
      BY <1>1 DEF Judge, JudgeUnread, Blocked, Known
    <3>2. posts' = posts \cup {r("count")} \/ posts' = posts \cup {r("prev")}
      BY <1>1 DEF Judge, JudgeUnread
    <3>3. r("count").pc = "count" /\ r("prev").pc = "prev"
      OBVIOUS
    <3> HIDE DEF r
    <3> QED BY <3>1, <3>2, <3>3
  <2>2. CASE posts = {}
    BY <2>1, <2>2 DEF TrailInv, Says
  <2>3. CASE posts # {}
    BY <2>1, <2>3 DEF TrailInv
  <2> QED BY <2>2, <2>3
<1>2. ASSUME NEW p \in posts, Count(p) \/ CountUnread(p) PROVE TrailInv'
  <2>1. p.pc = "count" /\ trail' = trail /\ Blocked' = Blocked
    BY <1>2 DEF Count, CountUnread, Blocked, Known
  <2>2. CASE posts' = posts \ {p}
    BY <2>1, <2>2, TrailKept
  <2>3. CASE Advance(p, "prev")
    <3>1. [p EXCEPT !.pc = "prev"].pc = "prev"
      BY DEF TypeOK, PostState
    <3>2. trail # "mixed" => Says(Blocked)'
      BY <2>1, TrailBeforeWrite DEF Says
    <3> QED BY <2>1, <2>3, <3>1, <3>2, TrailGoesOn DEF Advance
  <2> QED BY <1>2, <2>2, <2>3 DEF Count, CountUnread
<1>3. ASSUME NEW p \in posts, ReadPrev(p) PROVE TrailInv'
  <2>1. CASE trail' = "mixed"
    BY <2>1 DEF TrailInv
  <2>2. CASE trail' # "mixed"
    <3> DEFINE q == [p EXCEPT !.pc = "save", !.age = 0, !.prevBlocked = Blocked]
    <3>1. posts' = (posts \ {p}) \cup {q} /\ trail' = trail
      BY <1>3, <2>2 DEF ReadPrev
    <3>2. Blocked' = Blocked /\ p.pc = "prev"
      BY <1>3 DEF ReadPrev, Blocked, Known
    <3>3. q.pc = "save" /\ q.prevBlocked = Blocked
      BY DEF TypeOK, PostState
    <3>4. trail # "mixed" => Says(Blocked)'
      BY <3>1, <3>2, TrailBeforeWrite DEF Says
    <3> HIDE DEF q
    <3> QED BY <3>1, <3>2, <3>3, <3>4, TrailGoesOn
  <2> QED BY <2>1, <2>2
<1>4. ASSUME NEW p \in posts, SaveReport(p) PROVE TrailInv'
  <2> DEFINE q == [p EXCEPT !.pc = "now", !.age = 0]
  <2>1. posts' = (posts \ {p}) \cup {q} /\ trail' = trail /\ p.pc = "save"
    BY <1>4 DEF SaveReport
  <2>2. q.pc = "now" /\ q.prevBlocked = p.prevBlocked
    BY DEF TypeOK, PostState
  <2>3. trail # "mixed" => Says(p.prevBlocked)
    BY <2>1, TrailBeforeWrite DEF TrailInv
  <2> HIDE DEF q
  <2> QED BY <2>1, <2>2, <2>3, TrailGoesOn
<1>5. ASSUME NEW p \in posts, ReadNow(p) PROVE TrailInv'
  <2>1. CASE trail' = "mixed"
    BY <2>1 DEF TrailInv
  <2>2. CASE trail' # "mixed"
    <3>1. /\ trail # "mixed" /\ p.pc = "now" /\ posts' = posts \ {p} /\ Blocked' = Blocked
          /\ trail' = IF Blocked = p.prevBlocked THEN trail
                      ELSE IF Blocked THEN "deny" ELSE "ok"
      BY <1>5, <2>2 DEF ReadNow, Blocked, Known
    <3>2. posts' = {} /\ Says(p.prevBlocked)
      BY <3>1 DEF TrailInv
    <3>3. Says(Blocked)'
      BY <3>1, <3>2 DEF Says
    <3> QED BY <3>2, <3>3 DEF TrailInv
  <2> QED BY <2>1, <2>2
<1>6. ASSUME NEW p \in posts, GiveUp(p) PROVE TrailInv'
  <2>1. p.pc # "now" /\ posts' = posts \ {p} /\ trail' = trail /\ Blocked' = Blocked
    BY <1>6 DEF GiveUp, Blocked, Known
  <2> QED BY <2>1, TrailKept
<1>7. ASSUME NEW d \in Device, DeleteReport(d) PROVE TrailInv'
  <2>1. posts' = posts /\ trail' = IF posts = {} /\ trail # "mixed" THEN "deleted" ELSE "mixed"
    BY <1>7 DEF DeleteReport
  <2> QED BY <2>1 DEF TrailInv, Says
<1>8. ASSUME NEW i \in Ask,
             \/ BeginAsk(i) \/ CheckBan(i) \/ CheckAccount(i) \/ CheckVerdict(i)
             \/ CheckFresh(i) \/ CheckFails(i) \/ Return(i)
      PROVE  TrailInv'
  <2>1. UNCHANGED <<reports, posts, trail>>
    BY <1>8 DEF BeginAsk, CheckBan, CheckAccount, CheckVerdict, CheckFresh, CheckFails,
                Return, Answer
  <2>2. Blocked' = Blocked
    BY <2>1 DEF Blocked, Known
  <2> QED BY <2>1, <2>2, TrailKept
<1>9. CASE SetBan \/ SetStatus \/ UNCHANGED vars
  <2>1. UNCHANGED <<reports, posts, trail>>
    BY <1>9 DEF SetBan, SetStatus, vars
  <2>2. Blocked' = Blocked
    BY <2>1 DEF Blocked, Known
  <2> QED BY <2>1, <2>2, TrailKept
<1>10. CASE Restart
  <2>1. /\ posts' = {} /\ Blocked' = Blocked
        /\ trail' = IF posts = {} THEN trail ELSE "mixed"
    BY <1>10 DEF Restart, Blocked, Known
  <2>2. CASE posts = {}
    BY <2>1, <2>2, TrailKept
  <2>3. CASE posts # {}
    BY <2>1, <2>3 DEF TrailInv
  <2> QED BY <2>2, <2>3
<1>11. CASE Tick
  <2> DEFINE Aged(p) == [p EXCEPT !.age = IF p.pc = "save" THEN Older(@) ELSE @]
  <2>1. ASSUME NEW p \in posts
        PROVE  Aged(p).pc = p.pc /\ Aged(p).prevBlocked = p.prevBlocked
    BY DEF TypeOK, PostState
  <2>2. posts' = {Aged(p) : p \in posts} /\ trail' = trail
    BY <1>11 DEF Tick
  <2>3. Blocked' = Blocked
    <3>1. reports \in [Known -> Row]
      BY KnownIsTyped DEF TypeOK, Reports
    <3>2. ASSUME NEW d \in Known PROVE reports'[d].verdict = reports[d].verdict
      BY <1>11, <3>1 DEF Tick, Row
    <3>3. Known' = Known
      BY <1>11 DEF Tick, Known
    <3> QED BY <3>2, <3>3 DEF Blocked
  <2> HIDE DEF Aged
  <2> QED BY <2>1, <2>2, <2>3 DEF TrailInv, Says
<1> QED BY <1>1, <1>2, <1>3, <1>4, <1>5, <1>6, <1>7, <1>8, <1>9, <1>10, <1>11 DEF Next

\* The last entry on the devices follows the gate while reports come one at a
\* time and the reads succeed, for every number of devices and reports.
THEOREM TrailTheorem == Spec => []TrailFollowsGate
<1>1. Init => TypeOK /\ TrailInv
  BY InitType, InitTrail
<1>2. TypeOK /\ TrailInv /\ [Next]_vars => TypeOK' /\ TrailInv'
  BY StepType, StepTrail
<1>3. TrailInv => TrailFollowsGate
  BY DEF TrailInv, TrailFollowsGate, Says
<1> QED BY <1>1, <1>2, <1>3, PTL DEF Spec

(***************************************************************************)
(* The risk engine.                                                        *)
(***************************************************************************)

LEMMA LeastOne == ASSUME NEW T \in SUBSET Nat, T # {} PROVE \E i \in T : \A j \in T : i <= j
<1> DEFINE Less == OpToRel(<, Nat)
<1>1. \E i \in T : \A j \in T : <<j, i>> \notin Less
  BY NatLessThanWellFounded, WFMin
<1>2. \A i, j \in Nat : j < i => <<j, i>> \in Less
  BY DEF OpToRel
<1> HIDE DEF Less
<1>3. PICK i \in T : \A j \in T : <<j, i>> \notin Less
  BY <1>1
<1>4. \A j \in T : ~(j < i)
  BY <1>2, <1>3
<1> QED BY <1>3, <1>4

Result == [key : Key, ok : BOOLEAN]

(* A report that does not contradict itself is in order where it says so, whatever
   comes last.                                                                     *)
LEMMA PassedIsGood ==
    ASSUME NEW r \in Results, ~Contradicts(r)
    PROVE  Passed(r) = Good(r)
<1>1. PICK n \in Nat : r \in [1 .. n -> Result]
  BY DEF Results, Result
<1>2. DOMAIN r = 1 .. n /\ Len(r) = n /\ \A i \in 1 .. n : r[i] \in Result
  BY <1>1
<1>3. ASSUME NEW k \in Passed(r) PROVE k \in Good(r)
  <2>1. k \in Key /\ [key |-> k, ok |-> TRUE] \in {r[i] : i \in DOMAIN r}
    BY <1>3 DEF Passed
  <2> QED BY <2>1 DEF Contradicts, Good
<1>4. ASSUME NEW k \in Good(r) PROVE k \in Passed(r)
  <2> DEFINE T == {j \in Nat : \E i \in 1 .. n : j = n - i /\ r[i].key = k}
  <2>1. k \in Key /\ T # {}
    <3>1. PICK i \in 1 .. n : r[i] = [key |-> k, ok |-> TRUE]
      BY <1>2 DEF Good
    <3>2. n - i \in T
      BY <3>1
    <3> QED BY <3>2 DEF Good
  <2>2. PICK j \in T : \A l \in T : j <= l
    BY <2>1, LeastOne
  <2>3. PICK i \in 1 .. n : j = n - i /\ r[i].key = k
    BY <2>2
  <2>4. ASSUME NEW l \in i + 1 .. n, r[l].key = k PROVE FALSE
    <3>1. l \in 1 .. n /\ n - l \in Nat /\ n - l < j
      BY <2>3
    <3>2. n - l \in T
      BY <2>4, <3>1
    <3> QED BY <2>2, <2>3, <3>1, <3>2
  <2>5. r[i] = [key |-> k, ok |-> TRUE]
    <3>1. r[i] = [key |-> r[i].key, ok |-> r[i].ok] /\ r[i].ok \in BOOLEAN
      BY <1>2 DEF Result
    <3>2. r[i].ok # FALSE
      BY <1>2, <2>3, <3>1 DEF Good
    <3> QED BY <2>3, <3>1, <3>2
  <2> QED BY <1>2, <2>1, <2>4, <2>5 DEF Passed
<1> QED BY <1>3, <1>4

(* Less in order, more failed. *)
LEMMA FailedGrows ==
    ASSUME NEW b, NEW P, NEW Q, P \subseteq Q
    PROVE  Failed(b, Q) \subseteq Failed(b, P)
BY DEF Failed

LEMMA ScoreGrows ==
    ASSUME NEW A, NEW B, IsFiniteSet(B), A \subseteq B
    PROVE  Score(A) \in Nat /\ Score(B) \in Nat /\ Score(A) <= Score(B)
<1> DEFINE Of(S, s) == {c \in S : c.severity = s}
<1>1. ASSUME NEW s
      PROVE  /\ Cardinality(Of(A, s)) \in Nat /\ Cardinality(Of(B, s)) \in Nat
             /\ Cardinality(Of(A, s)) <= Cardinality(Of(B, s))
  <2>1. IsFiniteSet(Of(B, s)) /\ Of(A, s) \subseteq Of(B, s)
    BY FS_Subset
  <2>2. IsFiniteSet(Of(A, s)) /\ Cardinality(Of(A, s)) <= Cardinality(Of(B, s))
    BY <2>1, FS_Subset
  <2> QED BY <2>1, <2>2, FS_CardinalityType
<1>2. /\ Score(A) = 25 * Cardinality(Of(A, "high")) + 10 * Cardinality(Of(A, "medium"))
                      + 5 * Cardinality(Of(A, "low"))
      /\ Score(B) = 25 * Cardinality(Of(B, "high")) + 10 * Cardinality(Of(B, "medium"))
                      + 5 * Cardinality(Of(B, "low"))
  BY DEF Score
<1> HIDE DEF Of
<1> QED BY <1>1, <1>2

LEMMA RankIsNat == \A d : DisposalRank(d) \in 0 .. 3
BY DEF DisposalRank

LEMMA RankTells ==
    ASSUME NEW c \in Disposal, NEW d \in Disposal, DisposalRank(c) = DisposalRank(d)
    PROVE  c = d
BY DEF Disposal, DisposalRank

(***************************************************************************)
(* The loop over the baselines.                                            *)
(***************************************************************************)

Sum == [score : Nat, disposal : Disposal]

\* What baseline b finds missing.
Missing(b, P) == IF Applies(b) THEN Failed(b, P) ELSE {}

NoWorse(v, w) == v.score >= w.score /\ DisposalRank(v.disposal) >= DisposalRank(w.disposal)

LEMMA AddIs ==
    ASSUME NEW v \in Sum, NEW b \in Baselines, NEW P
    PROVE  /\ Add(v, b, P) \in Sum
           /\ Add(v, b, P).score = v.score + Score(Missing(b, P))
           /\ Score(Missing(b, P)) \in Nat
           /\ DisposalRank(Add(v, b, P).disposal) =
                 IF Missing(b, P) # {} /\ DisposalRank(b.disposal) > DisposalRank(v.disposal)
                 THEN DisposalRank(b.disposal) ELSE DisposalRank(v.disposal)
<1>1. IsFiniteSet(b.checks) /\ b.disposal \in Disposal
  BY RiskAssumption DEF RiskAssumption, Valid
<1>2. Score(Missing(b, P)) \in Nat
  <2>1. Missing(b, P) \subseteq b.checks
    BY DEF Missing, Failed
  <2> QED BY <1>1, <2>1, ScoreGrows
<1>3. Add(v, b, P) =
        [score |-> v.score + Score(Missing(b, P)),
         disposal |-> IF Missing(b, P) # {} /\ DisposalRank(b.disposal) > DisposalRank(v.disposal)
                      THEN b.disposal ELSE v.disposal]
  BY DEF Add, Missing
<1>4. v.score \in Nat /\ v.disposal \in Disposal
  BY DEF Sum
<1> QED BY <1>1, <1>2, <1>3, <1>4 DEF Sum

LEMMA AddGrows ==
    ASSUME NEW v \in Sum, NEW b \in Baselines, NEW P PROVE NoWorse(Add(v, b, P), v)
BY AddIs, RankIsNat DEF NoWorse, Sum

LEMMA AddKeeps ==
    ASSUME NEW v \in Sum, NEW w \in Sum, NoWorse(v, w), NEW b \in Baselines,
           NEW P, NEW Q, P \subseteq Q
    PROVE  NoWorse(Add(v, b, P), Add(w, b, Q))
<1>1. Missing(b, Q) \subseteq Missing(b, P)
  BY FailedGrows DEF Missing
<1>2. Score(Missing(b, Q)) <= Score(Missing(b, P))
  <2>1. Missing(b, P) \subseteq b.checks /\ IsFiniteSet(b.checks)
    BY RiskAssumption DEF Missing, Failed, RiskAssumption, Valid
  <2> QED BY <1>1, <2>1, ScoreGrows, FS_Subset
<1>3. v.score \in Nat /\ w.score \in Nat
  BY DEF Sum
<1>4. Add(v, b, P).score >= Add(w, b, Q).score
  BY <1>2, <1>3, AddIs DEF NoWorse
<1>5. DisposalRank(Add(v, b, P).disposal) >= DisposalRank(Add(w, b, Q).disposal)
  BY <1>1, AddIs, RankIsNat DEF NoWorse
<1> QED BY <1>4, <1>5 DEF NoWorse

LEMMA AddCommutes ==
    ASSUME NEW v \in Sum, NEW a \in Baselines, NEW b \in Baselines, NEW P
    PROVE  Add(Add(v, a, P), b, P) = Add(Add(v, b, P), a, P)
<1> DEFINE x == Add(Add(v, a, P), b, P)
           y == Add(Add(v, b, P), a, P)
<1>1. x \in Sum /\ y \in Sum
  BY AddIs
<1>2. x.score = y.score
  <2>1. v.score \in Nat
    BY DEF Sum
  <2> QED BY <2>1, AddIs
<1>3. DisposalRank(x.disposal) = DisposalRank(y.disposal)
  BY AddIs, RankIsNat
<1> HIDE DEF x, y
<1>4. x.disposal = y.disposal
  BY <1>1, <1>3, RankTells DEF Sum
<1>5. x = [score |-> x.score, disposal |-> x.disposal] /\ y = [score |-> y.score, disposal |-> y.disposal]
  BY <1>1 DEF Sum
<1> QED BY <1>2, <1>4, <1>5 DEF x, y

Nothing == [score |-> 0, disposal |-> "allow"]

Step(baselines, passed, n, v) == IF n = 0 THEN Nothing ELSE Add(v[n - 1], baselines[n], passed)

(* The recursive function of the loop exists: the least n it did not exist up to
   would be one more than an n it does.                                          *)
LEMMA LoopExists ==
    ASSUME NEW bs \in Seq(Baselines), NEW P, NEW n \in Nat
    PROVE  \E f : f = [m \in 0 .. n |-> Step(bs, P, m, f)]
<1> DEFINE T == {k \in Nat : ~ \E f : f = [m \in 0 .. k |-> Step(bs, P, m, f)]}
<1> SUFFICES ASSUME T # {} PROVE FALSE
  OBVIOUS
<1>1. PICK k \in T : \A j \in T : k <= j
  BY LeastOne
<1>2. CASE k = 0
  <2> DEFINE f == [m \in 0 .. 0 |-> Nothing]
  <2>1. f = [m \in 0 .. 0 |-> Step(bs, P, m, f)]
    BY DEF Step
  <2> QED BY <1>1, <1>2, <2>1
<1>3. CASE k # 0
  <2>1. k - 1 \in Nat /\ k - 1 \notin T
    BY <1>1, <1>3
  <2>2. PICK f : f = [m \in 0 .. k - 1 |-> Step(bs, P, m, f)]
    BY <2>1
  <2> DEFINE g == [m \in 0 .. k |-> IF m = k THEN Step(bs, P, k, f) ELSE f[m]]
  <2>3. ASSUME NEW m \in 0 .. k PROVE g[m] = Step(bs, P, m, g)
    <3>1. CASE m = k
      BY <1>3, <2>1, <3>1 DEF Step
    <3>2. CASE m # k
      <4>1. m \in 0 .. k - 1 /\ (m # 0 => m - 1 \in 0 .. k - 1 /\ m - 1 # k)
        BY <2>1, <3>2
      <4>2. g[m] = Step(bs, P, m, f)
        BY <2>2, <3>2, <4>1
      <4> QED BY <4>1, <4>2 DEF Step
    <3> QED BY <3>1, <3>2
  <2>4. g = [m \in 0 .. k |-> Step(bs, P, m, g)]
    BY <2>3
  <2> HIDE DEF g
  <2>5. \E h : h = [m \in 0 .. k |-> Step(bs, P, m, h)]
    BY <2>4
  <2> QED BY <1>1, <2>5
<1> QED BY <1>2, <1>3

LEMMA SumsIs ==
    ASSUME NEW bs \in Seq(Baselines), NEW P
    PROVE  /\ Len(bs) \in Nat /\ \A n \in 1 .. Len(bs) : bs[n] \in Baselines
           /\ Sums(bs, P)[0] = Nothing
           /\ \A n \in 1 .. Len(bs) : Sums(bs, P)[n] = Add(Sums(bs, P)[n - 1], bs[n], P)
<1>1. Len(bs) \in Nat /\ \A n \in 1 .. Len(bs) : bs[n] \in Baselines
  OBVIOUS
<1> DEFINE S == Sums(bs, P)
<1>2. S = CHOOSE f : f = [m \in 0 .. Len(bs) |->
                            IF m = 0 THEN [score |-> 0, disposal |-> "allow"]
                                     ELSE Add(f[m - 1], bs[m], P)]
  BY DEF Sums
<1>3. \E f : f = [m \in 0 .. Len(bs) |->
                    IF m = 0 THEN [score |-> 0, disposal |-> "allow"]
                             ELSE Add(f[m - 1], bs[m], P)]
  BY <1>1, LoopExists DEF Step, Nothing
<1> HIDE DEF S
<1>4. S = [m \in 0 .. Len(bs) |-> IF m = 0 THEN [score |-> 0, disposal |-> "allow"]
                                   ELSE Add(S[m - 1], bs[m], P)]
  BY <1>2, <1>3
<1>5. S[0] = Nothing /\ \A n \in 1 .. Len(bs) : S[n] = Add(S[n - 1], bs[n], P)
  BY <1>1, <1>4 DEF Nothing
<1> QED BY <1>1, <1>5 DEF S

LEMMA NothingIsSum == Nothing \in Sum /\ DisposalRank(Nothing.disposal) = 0
BY DEF Nothing, Sum, Disposal, DisposalRank

LEMMA SumsType ==
    ASSUME NEW bs \in Seq(Baselines), NEW P, NEW n \in 0 .. Len(bs)
    PROVE  Sums(bs, P)[n] \in Sum
<1> DEFINE T == {k \in Nat : k <= Len(bs) /\ Sums(bs, P)[k] \notin Sum}
<1> SUFFICES ASSUME T # {} PROVE FALSE
  BY SumsIs
<1>1. PICK k \in T : \A j \in T : k <= j
  BY LeastOne
<1>2. k \in Nat /\ k <= Len(bs) /\ Len(bs) \in Nat
  BY SumsIs
<1>3. k # 0
  BY <1>1, SumsIs, NothingIsSum
<1>4. k - 1 \in Nat /\ k - 1 <= Len(bs) /\ k - 1 \notin T
  BY <1>1, <1>2, <1>3
<1>5. Sums(bs, P)[k - 1] \in Sum
  BY <1>4
<1>6. Sums(bs, P)[k] = Add(Sums(bs, P)[k - 1], bs[k], P) /\ bs[k] \in Baselines
  BY <1>2, <1>3, SumsIs
<1> QED BY <1>1, <1>5, <1>6, AddIs

(* With less in order it adds up to no less, however many baselines there are. *)
LEMMA SumsKeep ==
    ASSUME NEW bs \in Seq(Baselines), NEW P, NEW Q, P \subseteq Q, NEW n \in 0 .. Len(bs)
    PROVE  NoWorse(Sums(bs, P)[n], Sums(bs, Q)[n])
<1> DEFINE T == {k \in Nat : k <= Len(bs) /\ ~NoWorse(Sums(bs, P)[k], Sums(bs, Q)[k])}
<1> SUFFICES ASSUME T # {} PROVE FALSE
  BY SumsIs
<1>1. PICK k \in T : \A j \in T : k <= j
  BY LeastOne
<1>2. k \in Nat /\ k <= Len(bs) /\ Len(bs) \in Nat
  BY SumsIs
<1>3. k # 0
  <2>1. NoWorse(Nothing, Nothing)
    BY NothingIsSum DEF NoWorse, Nothing
  <2> QED BY <1>1, <2>1, SumsIs
<1>4. k - 1 \in Nat /\ k - 1 <= Len(bs) /\ k - 1 \notin T
  BY <1>1, <1>2, <1>3
<1>5. /\ NoWorse(Sums(bs, P)[k - 1], Sums(bs, Q)[k - 1])
      /\ Sums(bs, P)[k - 1] \in Sum /\ Sums(bs, Q)[k - 1] \in Sum
  BY <1>2, <1>4, SumsType
<1>6. /\ Sums(bs, P)[k] = Add(Sums(bs, P)[k - 1], bs[k], P)
      /\ Sums(bs, Q)[k] = Add(Sums(bs, Q)[k - 1], bs[k], Q)
      /\ bs[k] \in Baselines
  BY <1>2, <1>3, SumsIs
<1>7. NoWorse(Sums(bs, P)[k], Sums(bs, Q)[k])
  BY <1>5, <1>6, AddKeeps
<1> QED BY <1>1, <1>7

(***************************************************************************)
(* The verdict.                                                            *)
(***************************************************************************)

Judged(v) ==
    LET score == IF v.score > 100 THEN 100 ELSE v.score IN
    [score |-> score, disposal |-> v.disposal, level |-> Level(v.disposal, score)]

LEMMA EvaluateIs ==
    ASSUME NEW r, NEW bs
    PROVE  Evaluate(r, bs) = Judged(Sums(bs, Passed(r))[Len(bs)])
BY DEF Evaluate, Judged

LEMMA JudgedGrows ==
    ASSUME NEW v \in Sum, NEW w \in Sum, NoWorse(v, w) PROVE AtLeast(Judged(v), Judged(w))
<1> DEFINE x == IF v.score > 100 THEN 100 ELSE v.score
           y == IF w.score > 100 THEN 100 ELSE w.score
<1>1. v.score \in Nat /\ w.score \in Nat /\ v.disposal \in Disposal /\ w.disposal \in Disposal
  BY DEF Sum
<1>2. x \in Nat /\ y \in Nat /\ x >= y
  BY <1>1 DEF NoWorse
<1> HIDE DEF x, y
<1>3. w.disposal = "block" => v.disposal = "block"
  BY <1>1 DEF NoWorse, Disposal, DisposalRank
<1>4. LevelRank(Level(v.disposal, x)) >= LevelRank(Level(w.disposal, y))
  <2>1. Level(w.disposal, y) = "high" => Level(v.disposal, x) = "high"
    BY <1>2, <1>3 DEF Level
  <2>2. Level(w.disposal, y) = "medium" => Level(v.disposal, x) \in {"high", "medium"}
    BY <1>2 DEF Level
  <2>3. LevelRank("high") = 2 /\ LevelRank("medium") = 1 /\ LevelRank("low") = 0
    BY DEF LevelRank
  <2>4. Level(v.disposal, x) \in {"high", "medium", "low"} /\ Level(w.disposal, y) \in {"high", "medium", "low"}
    BY DEF Level
  <2> QED BY <2>1, <2>2, <2>3, <2>4
<1>5. /\ Judged(v) = [score |-> x, disposal |-> v.disposal, level |-> Level(v.disposal, x)]
      /\ Judged(w) = [score |-> y, disposal |-> w.disposal, level |-> Level(w.disposal, y)]
  BY DEF Judged, x, y
<1> QED BY <1>2, <1>4, <1>5 DEF AtLeast, NoWorse

\* Of two reports that do not contradict themselves the one with fewer checks in
\* order gets no better score, disposal or level, whatever baselines there are,
\* in whatever order, and however many.
THEOREM SelectionTheorem ==
    ASSUME NEW bs \in Seq(Baselines), NEW r \in Results, NEW s \in Results,
           ~Contradicts(r), ~Contradicts(s), Good(s) \subseteq Good(r)
    PROVE  AtLeast(Evaluate(s, bs), Evaluate(r, bs))
<1>1. Passed(s) \subseteq Passed(r)
  BY PassedIsGood
<1>2. Len(bs) \in 0 .. Len(bs)
  BY SumsIs
<1>3. /\ NoWorse(Sums(bs, Passed(s))[Len(bs)], Sums(bs, Passed(r))[Len(bs)])
      /\ Sums(bs, Passed(s))[Len(bs)] \in Sum /\ Sums(bs, Passed(r))[Len(bs)] \in Sum
  BY <1>1, <1>2, SumsKeep, SumsType
<1> QED BY <1>3, JudgedGrows, EvaluateIs

(* What a list comes to depends on what is in it only up to there. *)
LEMMA SumsAgree ==
    ASSUME NEW bs \in Seq(Baselines), NEW cs \in Seq(Baselines), NEW P,
           NEW from \in Nat, NEW to \in Nat, from <= to, to <= Len(bs), to <= Len(cs),
           Sums(bs, P)[from] = Sums(cs, P)[from],
           \A n \in from + 1 .. to : bs[n] = cs[n]
    PROVE  Sums(bs, P)[to] = Sums(cs, P)[to]
<1> DEFINE T == {k \in Nat : from <= k /\ k <= to /\ Sums(bs, P)[k] # Sums(cs, P)[k]}
<1> SUFFICES ASSUME T # {} PROVE FALSE
  OBVIOUS
<1>1. PICK k \in T : \A j \in T : k <= j
  BY LeastOne
<1>2. k \in Nat /\ from <= k /\ k <= to /\ k # from
  BY <1>1
<1>3. k - 1 \in Nat /\ from <= k - 1 /\ k - 1 <= to /\ k - 1 \notin T
  BY <1>1, <1>2
<1>4. Sums(bs, P)[k - 1] = Sums(cs, P)[k - 1] /\ bs[k] = cs[k]
  BY <1>2, <1>3
<1>5. /\ Sums(bs, P)[k] = Add(Sums(bs, P)[k - 1], bs[k], P)
      /\ Sums(cs, P)[k] = Add(Sums(cs, P)[k - 1], cs[k], P)
  <2>1. Len(bs) \in Nat /\ Len(cs) \in Nat
    BY SumsIs
  <2>2. k \in 1 .. Len(bs) /\ k \in 1 .. Len(cs)
    BY <1>2, <2>1
  <2> QED BY <2>2, SumsIs
<1> QED BY <1>1, <1>4, <1>5

\* One more baseline at the end of any list of them helps no report.
THEOREM OneMoreTheorem ==
    ASSUME NEW bs \in Seq(Baselines), NEW b \in Baselines, NEW r
    PROVE  AtLeast(Evaluate(r, Append(bs, b)), Evaluate(r, bs))
<1> DEFINE P == Passed(r)
           cs == Append(bs, b)
           n == Len(bs)
<1>1. /\ n \in Nat /\ cs \in Seq(Baselines) /\ Len(cs) = n + 1 /\ cs[n + 1] = b
      /\ \A m \in 1 .. n : cs[m] = bs[m]
  BY SumsIs
<1> HIDE DEF cs, P
<1>2. Sums(cs, P)[n] = Sums(bs, P)[n]
  <2>1. Sums(cs, P)[0] = Sums(bs, P)[0]
    BY <1>1, SumsIs
  <2> HIDE DEF n
  <2> QED BY <1>1, <2>1, SumsAgree DEF n
<1>3. Sums(cs, P)[n + 1] = Add(Sums(bs, P)[n], b, P) /\ Sums(bs, P)[n] \in Sum
  <2>1. n \in 0 .. Len(bs) /\ n + 1 \in 1 .. Len(cs) /\ (n + 1) - 1 = n
    BY <1>1
  <2> QED BY <1>1, <1>2, <2>1, SumsIs, SumsType
<1>4. NoWorse(Sums(cs, P)[n + 1], Sums(bs, P)[n]) /\ Sums(cs, P)[n + 1] \in Sum
  BY <1>3, AddGrows, AddIs
<1> QED BY <1>1, <1>3, <1>4, JudgedGrows, EvaluateIs DEF P, cs

\* Two neighbours of any list of baselines may change places: the verdict of a
\* report is the same, and so it is for every order of the list.
THEOREM OrderTheorem ==
    ASSUME NEW bs \in Seq(Baselines), NEW k \in 1 .. Len(bs) - 1, NEW r
    PROVE  Evaluate(r, [bs EXCEPT ![k] = bs[k + 1], ![k + 1] = bs[k]]) = Evaluate(r, bs)
<1> DEFINE P == Passed(r)
           cs == [bs EXCEPT ![k] = bs[k + 1], ![k + 1] = bs[k]]
           n == Len(bs)
<1>1. n \in Nat /\ k \in 1 .. n /\ k + 1 \in 1 .. n /\ k - 1 \in Nat /\ (k + 1) - 1 = k
  BY SumsIs
<1>2. bs[k] \in Baselines /\ bs[k + 1] \in Baselines
  BY <1>1, SumsIs
<1>3. /\ cs \in Seq(Baselines) /\ Len(cs) = n
      /\ cs[k] = bs[k + 1] /\ cs[k + 1] = bs[k]
      /\ \A m \in 1 .. n : m \notin {k, k + 1} => cs[m] = bs[m]
  BY <1>1, <1>2
<1> HIDE DEF cs, P
<1>4. Sums(cs, P)[k - 1] = Sums(bs, P)[k - 1]
  <2>1. Sums(cs, P)[0] = Sums(bs, P)[0]
    BY <1>3, SumsIs
  <2>2. \A m \in 0 + 1 .. k - 1 : cs[m] = bs[m]
    BY <1>1, <1>3
  <2> HIDE DEF n
  <2>3. 0 <= k - 1 /\ k - 1 <= Len(cs) /\ k - 1 <= Len(bs)
    BY <1>1, <1>3 DEF n
  <2> QED BY <1>1, <1>3, <2>1, <2>2, <2>3, SumsAgree
<1>5. Sums(cs, P)[k + 1] = Sums(bs, P)[k + 1]
  <2> DEFINE v == Sums(bs, P)[k - 1]
  <2>1. v \in Sum
    BY <1>1, SumsType
  <2>2. Sums(bs, P)[k] = Add(v, bs[k], P) /\ Sums(bs, P)[k + 1] = Add(Sums(bs, P)[k], bs[k + 1], P)
    BY <1>1, SumsIs
  <2>3. /\ Sums(cs, P)[k] = Add(Sums(cs, P)[k - 1], cs[k], P)
        /\ Sums(cs, P)[k + 1] = Add(Sums(cs, P)[k], cs[k + 1], P)
    BY <1>1, <1>3, SumsIs
  <2> HIDE DEF v
  <2>4. Add(Add(v, bs[k], P), bs[k + 1], P) = Add(Add(v, bs[k + 1], P), bs[k], P)
    BY <1>2, <2>1, AddCommutes
  <2> QED BY <1>3, <1>4, <2>2, <2>3, <2>4 DEF v
<1>6. Sums(cs, P)[n] = Sums(bs, P)[n]
  <2>1. \A m \in (k + 1) + 1 .. n : cs[m] = bs[m]
    BY <1>1, <1>3
  <2>2. k + 1 \in Nat /\ k + 1 <= n /\ n <= Len(bs) /\ n <= Len(cs)
    BY <1>1, <1>3
  <2> HIDE DEF n
  <2> QED BY <1>1, <1>3, <1>5, <2>1, <2>2, SumsAgree
<1> QED BY <1>3, <1>6, EvaluateIs DEF P, cs

LEMMA StrictHolds == Strict
<1> SUFFICES ASSUME NEW r \in Results, NEW a \in Baselines, NEW b \in Baselines
             PROVE  /\ Evaluate(r, <<a, b>>) = Evaluate(r, <<b, a>>)
                    /\ AtLeast(Evaluate(r, <<a, b>>), Evaluate(r, <<a>>))
                    /\ ~Contradicts(r) =>
                        \A s \in Results : ~Contradicts(s) /\ Good(s) \subseteq Good(r)
                            => AtLeast(Evaluate(s, <<a, b>>), Evaluate(r, <<a, b>>))
  BY DEF Strict
<1> DEFINE P == Passed(r)
<1>1. ASSUME NEW c \in Baselines
      PROVE  Sums(<<c>>, P)[Len(<<c>>)] = Add(Nothing, c, P)
  <2> DEFINE bs == <<c>>
  <2>1. bs \in Seq(Baselines) /\ Len(bs) = 1 /\ bs[1] = c
    OBVIOUS
  <2> HIDE DEF bs
  <2>2. Sums(bs, P)[1] = Add(Nothing, c, P)
    BY <2>1, SumsIs
  <2> QED BY <2>1, <2>2 DEF bs
<1>2. ASSUME NEW c \in Baselines, NEW d \in Baselines
      PROVE  Sums(<<c, d>>, P)[Len(<<c, d>>)] = Add(Add(Nothing, c, P), d, P)
  <2> DEFINE bs == <<c, d>>
  <2>1. bs \in Seq(Baselines) /\ Len(bs) = 2 /\ bs[1] = c /\ bs[2] = d
    OBVIOUS
  <2> HIDE DEF bs
  <2>2. Sums(bs, P)[1] = Add(Nothing, c, P) /\ Sums(bs, P)[2] = Add(Sums(bs, P)[1], d, P)
    BY <2>1, SumsIs
  <2> QED BY <2>1, <2>2 DEF bs
<1> HIDE DEF P
<1>3. Add(Add(Nothing, a, P), b, P) = Add(Add(Nothing, b, P), a, P)
  BY NothingIsSum, AddCommutes
<1>4. Evaluate(r, <<a, b>>) = Evaluate(r, <<b, a>>)
  BY <1>2, <1>3, EvaluateIs DEF P
<1>5. /\ Add(Nothing, a, P) \in Sum /\ Add(Add(Nothing, a, P), b, P) \in Sum
      /\ NoWorse(Add(Add(Nothing, a, P), b, P), Add(Nothing, a, P))
  BY NothingIsSum, AddIs, AddGrows
<1>6. AtLeast(Evaluate(r, <<a, b>>), Evaluate(r, <<a>>))
  <2>1. /\ Evaluate(r, <<a, b>>) = Judged(Add(Add(Nothing, a, P), b, P))
        /\ Evaluate(r, <<a>>) = Judged(Add(Nothing, a, P))
    BY <1>1, <1>2, EvaluateIs DEF P
  <2> QED BY <1>5, <2>1, JudgedGrows
<1>7. <<a, b>> \in Seq(Baselines)
  OBVIOUS
<1> QED BY <1>4, <1>6, <1>7, SelectionTheorem

\* What is missing has failed, for any number of checks, results and baselines;
\* and where the baselines admit of both answers, the verdicts the gate reads
\* are verdicts of this engine.
THEOREM SilenceTheorem ==
    ASSUME Verdict \subseteq Outcome PROVE Spec => []SilenceNeverHelps
<1>1. TypeOK => SilenceNeverHelps
  <2> SUFFICES ASSUME TypeOK, NEW d \in Known PROVE reports[d].verdict \in Outcome
    BY StrictHolds DEF SilenceNeverHelps
  <2>1. reports \in [Known -> Row]
    BY KnownIsTyped DEF TypeOK, Reports
  <2> QED BY <2>1 DEF Row
<1> QED BY <1>1, PostureTypeCorrect, PTL

=============================================================================
