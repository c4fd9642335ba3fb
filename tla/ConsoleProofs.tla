---------------------------- MODULE ConsoleProofs ---------------------------
(***************************************************************************)
(* Proofs about what the console shows: references into the object library *)
(* (ObjectLibrary, for every set of objects, rules and proposals), and     *)
(* who is online (OnlineSessions, for every set of users and addresses and *)
(* every schedule of polls and delays the assumption allows).              *)
(***************************************************************************)
EXTENDS ObjectLibrary, OnlineSessions, TLAPS, FiniteSetTheorems

Rows == UNION {[S -> Refs] : S \in SUBSET Consumer}

(***************************************************************************)
(* Types.                                                                  *)
(***************************************************************************)

LEMMA SavedIsTyped ==
    ASSUME rows \in Rows
    PROVE  Saved \subseteq Consumer /\ rows \in [Saved -> Refs]
<1>1. PICK S \in SUBSET Consumer : rows \in [S -> Refs]
  BY DEF Rows
<1> QED BY <1>1 DEF Saved

LEMMA PutRows ==
    ASSUME rows \in Rows, NEW c \in Consumer, NEW refs \in Refs,
           rows' = [d \in Saved \cup {c} |-> IF d = c THEN refs ELSE rows[d]]
    PROVE  /\ rows' \in Rows
           /\ Saved' = Saved \cup {c}
           /\ rows'[c] = refs
           /\ \A d \in Saved \ {c} : rows'[d] = rows[d]
<1>1. Saved \cup {c} \in SUBSET Consumer /\ rows \in [Saved -> Refs]
  BY SavedIsTyped
<1>2. rows' \in [Saved \cup {c} -> Refs]
  BY <1>1
<1> QED BY <1>1, <1>2 DEF Rows, Saved

LEMMA DropRows ==
    ASSUME rows \in Rows, NEW c, rows' = [d \in Saved \ {c} |-> rows[d]]
    PROVE  /\ rows' \in Rows
           /\ Saved' = Saved \ {c}
           /\ \A d \in Saved \ {c} : rows'[d] = rows[d]
<1>1. Saved \ {c} \in SUBSET Consumer /\ rows \in [Saved -> Refs]
  BY SavedIsTyped
<1>2. rows' \in [Saved \ {c} -> Refs]
  BY <1>1
<1> QED BY <1>1, <1>2 DEF Rows, Saved

LEMMA InitType == Init => TypeOK
<1> SUFFICES ASSUME Init PROVE TypeOK
  OBVIOUS
<1>1. rows \in [{} -> Refs] /\ Saved = {}
  BY DEF Init, Saved
<1> QED BY <1>1 DEF Init, TypeOK

LEMMA StepType == TypeOK /\ [Next]_vars => TypeOK'
<1> SUFFICES ASSUME TypeOK, [Next]_vars PROVE TypeOK'
  OBVIOUS
<1>0. rows \in Rows
  BY DEF TypeOK, Rows
<1>1. ASSUME NEW k \in Kind, NEW o \in Object, SaveObject(k, o) PROVE TypeOK'
  BY <1>1 DEF SaveObject, TypeOK, Saved
<1>2. ASSUME NEW k \in Kind, NEW o \in Object, DeleteObject(k, o) PROVE TypeOK'
  <2>1. ASSUME NEW q \in saves
        PROVE  [q EXCEPT !.lost = @ \cup {s \in Slot : KindOf(q.of, s) = k /\ q.refs[s] = o}]
                    \in SaveState
    BY DEF TypeOK, SaveState
  <2>2. saves' \subseteq SaveState
    BY <1>2, <2>1 DEF DeleteObject
  <2>3. objects' \in [Kind -> SUBSET Object]
    BY <1>2 DEF DeleteObject, TypeOK
  <2> QED BY <1>2, <2>2, <2>3 DEF DeleteObject, TypeOK, Saved
<1>3. ASSUME NEW id \in Req, NEW c \in Consumer, NEW refs \in Refs, NEW formUp \in BOOLEAN,
             BeginSave(id, c, refs, formUp)
      PROVE  TypeOK'
  <2>1. [id |-> id, of |-> c, refs |-> refs, next |-> 1, lost |-> {}, formUp |-> formUp]
            \in SaveState
    BY DEF SaveState
  <2> QED BY <1>3, <2>1 DEF BeginSave, TypeOK, db, Saved
<1>4. ASSUME NEW q \in saves, Validate(q) PROVE TypeOK'
  <2>1. [q EXCEPT !.next = @ + 1] \in SaveState
    BY <1>4 DEF Validate, TypeOK, SaveState, Slot
  <2>2. saves' \subseteq SaveState
    BY <1>4, <2>1 DEF Validate, TypeOK
  <2> QED BY <1>4, <2>2 DEF Validate, TypeOK, db, Saved
<1>5. ASSUME NEW q \in saves, Put(q), up' \subseteq up \cup {q.of}, q.of \in Site \/ up' = up
      PROVE  TypeOK'
  <2>1. q.of \in Consumer /\ q.refs \in Refs /\ q.lost \in SUBSET Slot
    BY DEF TypeOK, SaveState
  <2>2. rows' \in Rows /\ Saved' = Saved \cup {q.of}
    <3>1. rows' = [c \in Saved \cup {q.of} |-> IF c = q.of THEN q.refs ELSE rows[c]]
      BY <1>5 DEF Put
    <3> QED BY <1>0, <2>1, <3>1, PutRows
  <2>3. up' \subseteq Site \cap Saved'
    BY <1>5, <2>2 DEF TypeOK
  <2>4. excused' \in [Consumer -> SUBSET Slot]
    BY <1>5, <2>1 DEF Put, TypeOK
  <2>5. saves' \subseteq saves /\ UNCHANGED <<objects, toggles>>
    BY <1>5 DEF Put
  <2> QED BY <2>2, <2>3, <2>4, <2>5 DEF TypeOK, Rows
<1>6. ASSUME NEW q \in saves, WriteResource(q) PROVE TypeOK'
  BY <1>5, <1>6 DEF WriteResource
<1>7. ASSUME NEW q \in saves, WriteSite(q) PROVE TypeOK'
  BY <1>5, <1>7 DEF WriteSite
<1>8. ASSUME NEW q \in saves, SaveFails(q) PROVE TypeOK'
  BY <1>8 DEF SaveFails, TypeOK, db, Saved
<1>9. ASSUME NEW c \in Consumer, DeleteConsumer(c) PROVE TypeOK'
  <2>1. rows' \in Rows /\ Saved' = Saved \ {c}
    BY <1>0, <1>9, DropRows DEF DeleteConsumer
  <2>2. up' \subseteq Site \cap Saved'
    BY <1>9, <2>1 DEF DeleteConsumer, TypeOK
  <2> QED BY <1>9, <2>1, <2>2 DEF DeleteConsumer, TypeOK, Rows
<1>10. ASSUME NEW id \in Req, NEW c \in Site, ReadStatus(id, c) PROVE TypeOK'
  <2>1. [id |-> id, of |-> c, wasUp |-> c \in up] \in ToggleState
    BY DEF ToggleState
  <2> QED BY <1>10, <2>1 DEF ReadStatus, TypeOK, db, Saved
<1>11. ASSUME NEW t \in toggles, WriteStatus(t) PROVE TypeOK'
  <2>1. t.of \in Site
    BY DEF TypeOK, ToggleState
  <2>2. up' \subseteq Site \cap Saved /\ Saved' = Saved
    BY <1>11, <2>1 DEF WriteStatus, TypeOK, Saved
  <2> QED BY <1>11, <2>2 DEF WriteStatus, TypeOK
<1>12. ASSUME NEW t \in toggles, ToggleFails(t) PROVE TypeOK'
  BY <1>12 DEF ToggleFails, TypeOK, db, Saved
<1>13. ASSUME UNCHANGED vars PROVE TypeOK'
  BY <1>13 DEF TypeOK, vars, db, Saved
<1> QED BY <1>1, <1>2, <1>3, <1>4, <1>6, <1>7, <1>8, <1>9, <1>10, <1>11, <1>12, <1>13 DEF Next

LEMMA LibraryTypeCorrect == Spec => []TypeOK
BY InitType, StepType, PTL DEF Spec

(***************************************************************************)
(* References.                                                             *)
(***************************************************************************)

\* What a save has looked up is still there, or was deleted under its eyes.
LookedUpOrLost ==
    \A q \in saves : \A s \in Slot :
        s < q.next /\ q.refs[s] # NoRef
            => ObjectExists(KindOf(q.of, s), q.refs[s]) \/ s \in q.lost

NoOtherDangles == \A c \in Saved : Dangling(c) \subseteq excused[c]

LEMMA KindIsKind == \A c, s : KindOf(c, s) \in Kind
BY DEF KindOf, Kind

(* A deletion is refused as long as any slot of any row refers to the object. *)
LEMMA CountIsComplete ==
    ASSUME TypeOK, NEW c \in Saved, NEW s \in Slot
    PROVE  Referenced(KindOf(c, s), rows[c][s])
BY DEF Referenced, KindOf, Slot

LEMMA LookedUpStep ==
    ASSUME TypeOK, LookedUpOrLost, [Next]_vars
    PROVE  LookedUpOrLost'
<1>0. /\ saves \subseteq SaveState
      /\ \A k \in Kind : objects[k] \subseteq Object
  BY DEF TypeOK
<1>1. CASE saves' \subseteq saves /\ \A k \in Kind : objects[k] \subseteq objects'[k]
  BY <1>1, KindIsKind DEF LookedUpOrLost, ObjectExists
<1>2. ASSUME NEW k \in Kind, NEW o \in Object, SaveObject(k, o) PROVE LookedUpOrLost'
  <2>1. saves' = saves /\ \A j \in Kind : objects[j] \subseteq objects'[j]
    BY <1>2 DEF SaveObject, TypeOK
  <2> QED BY <1>1, <2>1
<1>3. ASSUME NEW k \in Kind, NEW o \in Object, DeleteObject(k, o) PROVE LookedUpOrLost'
  <2> DEFINE Told(q) == [q EXCEPT !.lost = @ \cup {s \in Slot : KindOf(q.of, s) = k /\ q.refs[s] = o}]
  <2>1. saves' = {Told(q) : q \in saves}
    BY <1>3 DEF DeleteObject
  <2>2. objects' = [objects EXCEPT ![k] = @ \ {o}]
    BY <1>3 DEF DeleteObject
  <2>3. ASSUME NEW q \in saves
        PROVE  /\ Told(q).of = q.of /\ Told(q).refs = q.refs /\ Told(q).next = q.next
               /\ Told(q).lost = q.lost \cup {s \in Slot : KindOf(q.of, s) = k /\ q.refs[s] = o}
    BY <1>0 DEF SaveState
  <2> HIDE DEF Told
  <2> SUFFICES ASSUME NEW q \in saves, NEW s \in Slot, s < q.next, q.refs[s] # NoRef
               PROVE  \/ q.refs[s] \in objects'[KindOf(q.of, s)]
                      \/ s \in Told(q).lost
    BY <2>1, <2>3 DEF LookedUpOrLost, ObjectExists
  <2>4. q.refs[s] \in objects[KindOf(q.of, s)] \/ s \in q.lost
    BY DEF LookedUpOrLost, ObjectExists
  <2> QED BY <2>2, <2>3, <2>4, KindIsKind DEF TypeOK
<1>4. ASSUME NEW id \in Req, NEW c \in Consumer, NEW refs \in Refs, NEW formUp \in BOOLEAN,
             BeginSave(id, c, refs, formUp)
      PROVE  LookedUpOrLost'
  <2> DEFINE new == [id |-> id, of |-> c, refs |-> refs, next |-> 1, lost |-> {},
                     formUp |-> formUp]
  <2>1. saves' = saves \cup {new} /\ objects' = objects
    BY <1>4 DEF BeginSave, db
  <2>2. \A s \in Slot : ~(s < new.next)
    BY DEF Slot
  <2> HIDE DEF new
  <2> QED BY <2>1, <2>2 DEF LookedUpOrLost, ObjectExists
<1>5. ASSUME NEW q \in saves, Validate(q) PROVE LookedUpOrLost'
  <2> DEFINE new == [q EXCEPT !.next = @ + 1]
  <2>1. /\ new.of = q.of /\ new.refs = q.refs /\ new.lost = q.lost /\ new.next = q.next + 1
        /\ q.next \in Slot
    BY <1>0, <1>5 DEF SaveState, Validate
  <2>2. objects' = objects
    BY <1>5 DEF Validate, db
  <2>3. CASE saves' = saves \ {q}
    BY <1>1, <2>2, <2>3
  <2>4. CASE /\ saves' = (saves \ {q}) \cup {new}
             /\ q.refs[q.next] = NoRef \/ ObjectExists(KindOf(q.of, q.next), q.refs[q.next])
    <3>1. ASSUME NEW s \in Slot, s < new.next, q.refs[s] # NoRef
          PROVE  ObjectExists(KindOf(q.of, s), q.refs[s]) \/ s \in q.lost
      <4>1. s < q.next \/ s = q.next
        BY <2>1, <3>1 DEF Slot
      <4> QED BY <2>4, <3>1, <4>1 DEF LookedUpOrLost
    <3> HIDE DEF new
    <3> QED BY <2>1, <2>2, <2>4, <3>1 DEF LookedUpOrLost, ObjectExists
  <2> QED BY <1>5, <2>3, <2>4 DEF Validate
<1>6. CASE saves' \subseteq saves /\ objects' = objects
  BY <1>1, <1>6
<1>7. ASSUME NEW q \in saves, WriteResource(q) \/ WriteSite(q) \/ SaveFails(q)
      PROVE  LookedUpOrLost'
  BY <1>6, <1>7 DEF WriteResource, WriteSite, SaveFails, Put, db
<1>8. ASSUME NEW c \in Consumer, DeleteConsumer(c) PROVE LookedUpOrLost'
  BY <1>6, <1>8 DEF DeleteConsumer
<1>9. ASSUME NEW id \in Req, NEW c \in Site, ReadStatus(id, c) PROVE LookedUpOrLost'
  BY <1>6, <1>9 DEF ReadStatus, db
<1>10. ASSUME NEW t \in toggles, WriteStatus(t) \/ ToggleFails(t) PROVE LookedUpOrLost'
  BY <1>6, <1>10 DEF WriteStatus, ToggleFails, db
<1>11. CASE UNCHANGED vars
  BY <1>6, <1>11 DEF vars, db
<1> QED BY <1>2, <1>3, <1>4, <1>5, <1>7, <1>8, <1>9, <1>10, <1>11 DEF Next

LEMMA DanglesStep ==
    ASSUME TypeOK, LookedUpOrLost, NoOtherDangles, [Next]_vars
    PROVE  NoOtherDangles'
<1>0. rows \in Rows /\ Saved \subseteq Consumer /\ rows \in [Saved -> Refs]
  BY SavedIsTyped DEF TypeOK, Rows
<1>1. CASE rows' = rows /\ excused' = excused /\ \A k \in Kind : objects[k] \subseteq objects'[k]
  BY <1>1, KindIsKind DEF NoOtherDangles, Dangling, ObjectExists, Saved
<1>2. ASSUME NEW k \in Kind, NEW o \in Object, SaveObject(k, o) PROVE NoOtherDangles'
  <2>1. rows' = rows /\ excused' = excused /\ \A j \in Kind : objects[j] \subseteq objects'[j]
    BY <1>2 DEF SaveObject, TypeOK
  <2> QED BY <1>1, <2>1
<1>3. ASSUME NEW k \in Kind, NEW o \in Object, DeleteObject(k, o) PROVE NoOtherDangles'
  <2>1. rows' = rows /\ excused' = excused /\ objects' = [objects EXCEPT ![k] = @ \ {o}]
    BY <1>3 DEF DeleteObject
  <2>2. ASSUME NEW c \in Saved, NEW s \in Slot, rows[c][s] \in objects[KindOf(c, s)]
        PROVE  rows[c][s] \in objects'[KindOf(c, s)]
    <3>1. Referenced(KindOf(c, s), rows[c][s]) /\ ~Referenced(k, o)
      BY <1>3, CountIsComplete DEF DeleteObject
    <3>2. KindOf(c, s) # k \/ rows[c][s] # o
      BY <3>1
    <3> QED BY <2>1, <2>2, <3>2, KindIsKind DEF TypeOK
  <2> QED BY <2>1, <2>2 DEF NoOtherDangles, Dangling, ObjectExists, Saved
<1>4. ASSUME NEW q \in saves, Put(q) PROVE NoOtherDangles'
  <2>1. q.of \in Consumer /\ q.refs \in Refs
    BY DEF TypeOK, SaveState
  <2>2. /\ Saved' = Saved \cup {q.of}
        /\ rows'[q.of] = q.refs
        /\ \A d \in Saved \ {q.of} : rows'[d] = rows[d]
    BY <1>0, <1>4, <2>1, PutRows DEF Put
  <2>3. objects' = objects
    BY <1>4 DEF Put
  <2>4. excused'[q.of] = q.lost /\ \A d \in Saved \ {q.of} : excused'[d] = excused[d]
    BY <1>0, <1>4, <2>1 DEF Put, TypeOK
  <2>5. \A s \in Slot : q.refs[s] # NoRef
            => ObjectExists(KindOf(q.of, s), q.refs[s]) \/ s \in q.lost
    BY <1>4 DEF Put, LookedUpOrLost, Slot
  <2>6. Dangling(q.of)' \subseteq excused'[q.of]
    BY <2>2, <2>3, <2>4, <2>5 DEF Dangling, ObjectExists
  <2>7. \A d \in Saved \ {q.of} : Dangling(d)' \subseteq excused'[d]
    BY <2>2, <2>3, <2>4 DEF Dangling, ObjectExists, NoOtherDangles
  <2> QED BY <2>2, <2>6, <2>7 DEF NoOtherDangles
<1>5. ASSUME NEW c \in Consumer, DeleteConsumer(c) PROVE NoOtherDangles'
  <2>1. Saved' = Saved \ {c} /\ \A d \in Saved \ {c} : rows'[d] = rows[d]
    BY <1>0, <1>5, DropRows DEF DeleteConsumer
  <2>2. objects' = objects /\ \A d \in Saved \ {c} : excused'[d] = excused[d]
    BY <1>0, <1>5 DEF DeleteConsumer, TypeOK
  <2> QED BY <2>1, <2>2 DEF NoOtherDangles, Dangling, ObjectExists
<1>6. CASE UNCHANGED <<rows, excused, objects>>
  BY <1>1, <1>6
<1>7. ASSUME NEW id \in Req, NEW c \in Consumer, NEW refs \in Refs, NEW formUp \in BOOLEAN,
             BeginSave(id, c, refs, formUp)
      PROVE  NoOtherDangles'
  BY <1>6, <1>7 DEF BeginSave, db
<1>8. ASSUME NEW q \in saves, Validate(q) \/ SaveFails(q) PROVE NoOtherDangles'
  BY <1>6, <1>8 DEF Validate, SaveFails, db
<1>9. ASSUME NEW q \in saves, WriteResource(q) \/ WriteSite(q) PROVE NoOtherDangles'
  BY <1>4, <1>9 DEF WriteResource, WriteSite
<1>10. ASSUME NEW id \in Req, NEW c \in Site, ReadStatus(id, c) PROVE NoOtherDangles'
  BY <1>6, <1>10 DEF ReadStatus, db
<1>11. ASSUME NEW t \in toggles, WriteStatus(t) \/ ToggleFails(t) PROVE NoOtherDangles'
  BY <1>6, <1>11 DEF WriteStatus, ToggleFails, db
<1>12. CASE UNCHANGED vars
  BY <1>6, <1>12 DEF vars, db
<1> QED BY <1>2, <1>3, <1>5, <1>7, <1>8, <1>9, <1>10, <1>11, <1>12 DEF Next

\* A reference dangles only if its object was deleted while the save that wrote
\* it was under way, with any number of objects, consumers and requests.
THEOREM DanglingTheorem == Spec => []DanglesOnlyByRace
<1> DEFINE Inv == TypeOK /\ LookedUpOrLost /\ NoOtherDangles
<1>1. Init => Inv
  <2> SUFFICES ASSUME Init PROVE LookedUpOrLost /\ NoOtherDangles
    BY InitType
  <2> QED BY DEF Init, LookedUpOrLost, NoOtherDangles, Saved
<1>2. Inv /\ [Next]_vars => Inv'
  BY StepType, LookedUpStep, DanglesStep
<1>3. Inv => DanglesOnlyByRace
  BY DEF NoOtherDangles, DanglesOnlyByRace
<1> QED BY <1>1, <1>2, <1>3, PTL DEF Spec

(***************************************************************************)
(* Tunnels.                                                                *)
(***************************************************************************)

Toggled(c) == \E t \in toggles \ toggles' : t.of = c /\ t.wasUp = (c \in up)

LEMMA StatusStep ==
    ASSUME TypeOK, [Next]_vars,
           NEW c \in Site \cap Saved, c \in DOMAIN rows', (c \in up) # (c \in up')
    PROVE  Toggled(c)
<1>1. ASSUME NEW q \in saves, WriteResource(q) \/ WriteSite(q) PROVE FALSE
  BY <1>1 DEF WriteResource, WriteSite
<1>2. ASSUME NEW d \in Consumer, DeleteConsumer(d) PROVE FALSE
  BY <1>2 DEF DeleteConsumer, Saved
<1>3. ASSUME NEW t \in toggles, WriteStatus(t) PROVE Toggled(c)
  <2>1. t.wasUp \in BOOLEAN
    BY DEF TypeOK, ToggleState
  <2>2. CASE c = t.of
    BY <1>3, <2>1, <2>2 DEF WriteStatus, Toggled
  <2>3. CASE c # t.of
    BY <1>3, <2>3 DEF WriteStatus
  <2> QED BY <2>2, <2>3
<1> QED BY <1>1, <1>2, <1>3
        DEF Next, vars, db, SaveObject, DeleteObject, BeginSave, Validate, SaveFails,
            ReadStatus, ToggleFails

\* The status of a site that stays changes only as a toggle says that read it
\* before, whatever saves and edits are under way.
THEOREM StatusTheorem == Spec => StatusOnlyByToggle
<1> DEFINE P == \A c \in Site \cap Saved :
                    c \in DOMAIN rows' /\ (c \in up) # (c \in up')
                        => \E t \in toggles \ toggles' : t.of = c /\ t.wasUp = (c \in up)
<1>1. TypeOK /\ [Next]_vars => P
  BY StatusStep DEF Toggled
<1>2. [][P]_vars <=> StatusOnlyByToggle
  BY DEF StatusOnlyByToggle
<1> HIDE DEF P
<1> QED BY <1>1, <1>2, LibraryTypeCorrect, PTL DEF Spec

(***************************************************************************)
(* Online sessions: types.                                                 *)
(***************************************************************************)

LEMMA SessionsConstants ==
    /\ TTL \in Nat /\ Poll \in Nat /\ Delay \in Nat /\ MaxNow \in Nat
    /\ MaxFault \in Nat /\ MaxKick \in Nat
    /\ Window \in Nat /\ Window >= Poll + 2 * Delay
    /\ Never \in Int /\ Never + Window + Delay + 1 = 0
BY SessionsAssumption DEF SessionsAssumption, Never

(* Arithmetic of the clock, stated once: of a primed variable the provers      *)
(* know only what a fact about every integer tells them.                       *)
LEMMA Elapsed ==
    ASSUME NEW n \in Int, NEW t \in Int, NEW age \in Int
    PROVE  /\ n - t > age <=> ~(n <= t + age)
           /\ n - t <= age <=> n <= t + age
OBVIOUS

LEMMA Later ==
    ASSUME NEW a \in Int, NEW b \in Int, NEW c \in Int, a <= b, b <= c
    PROVE  a <= c
OBVIOUS

LEMMA LaterBy ==
    ASSUME NEW a \in Int, NEW b \in Int, NEW d \in Nat, a <= b
    PROVE  a <= b + d
OBVIOUS

LEMMA Sooner ==
    ASSUME NEW n \in Int, NEW t \in Int, NEW s \in Int, NEW d \in Int, NEW w \in Int,
           t <= s + d, n + d <= t + w
    PROVE  n <= s + w
OBVIOUS

LEMMA Shift ==
    ASSUME NEW n \in Int, NEW t \in Int, NEW w \in Int, NEW d \in Int, n <= t + w
    PROVE  n + d <= t + (w + d)
OBVIOUS

LEMMA Carry ==
    ASSUME NEW n \in Int, NEW t \in Int, NEW s \in Int, NEW d \in Int,
           n <= t + d, t <= s + 0
    PROVE  n <= s + d
OBVIOUS

LEMMA Outside ==
    ASSUME NEW n \in Int, NEW t \in Int, NEW age \in Int, ~(n <= t + age)
    PROVE  /\ ~(n - t <= age)
           /\ t + age < n
OBVIOUS

LEMMA SessionsInitType == SessionsInit => SessionsTypeOK
BY SessionsConstants DEF SessionsInit, SessionsTypeOK

(* What a step that looks again at the windows does to the histories. *)
LEMMA Watched ==
    ASSUME SessionsTypeOK, Watch, NEW u \in User, NEW ip \in IP
    PROVE  /\ seen'[<<u, ip>>] = IF Holds(u, ip)' THEN now' ELSE Fade(seen[<<u, ip>>], Window + Delay)
           /\ first'[<<u, ip>>] = IF ~Holds(u, ip)' THEN Never
                              ELSE IF Holds(u, ip) THEN first[<<u, ip>>] ELSE now'
<1>1. <<u, ip>> \in User \X IP /\ <<u, ip>>[1] = u /\ <<u, ip>>[2] = ip
  OBVIOUS
<1> QED BY <1>1 DEF Watch, Holds, Open

LEMMA FadeType ==
    ASSUME NEW t \in Int, NEW age \in Int, now' \in Int
    PROVE  Fade(t, age) \in Int
BY SessionsConstants DEF Fade

LEMMA Faded ==
    ASSUME NEW t \in Int, NEW age \in Int, now' \in Int
    PROVE  /\ now' <= t + age => Fade(t, age) = t
           /\ ~(now' <= t + age) => Fade(t, age) = Never
BY Elapsed DEF Fade

LEMMA WatchedType ==
    ASSUME SessionsTypeOK, Watch, now' \in Nat
    PROVE  {seen', first'} \subseteq [User \X IP -> Int]
<1>1. ASSUME NEW x \in User \X IP
      PROVE  /\ seen[x] \in Int /\ first[x] \in Int
             /\ Fade(seen[x], Window + Delay) \in Int
  BY SessionsConstants, FadeType DEF SessionsTypeOK
<1> QED BY <1>1, SessionsConstants DEF Watch

LEMMA SessionsStepType == SessionsTypeOK /\ [SessionsNext]_sessionVars => SessionsTypeOK'
<1> SUFFICES ASSUME SessionsTypeOK, [SessionsNext]_sessionVars PROVE SessionsTypeOK'
  OBVIOUS
<1> USE SessionsConstants
<1>0. now \in Nat /\ deny \in [User -> Nat] /\ revoked \in [User -> Nat]
  BY DEF SessionsTypeOK
<1>1. ASSUME NEW u \in User, NEW ip \in IP, Knock(u, ip) PROVE SessionsTypeOK'
  <2>1. {seen', first'} \subseteq [User \X IP -> Int]
    BY <1>0, <1>1, WatchedType DEF Knock
  <2>2. m' \in [IP -> [user : User, until : Nat] \cup {NoEntry}]
    BY <1>0, <1>1 DEF Knock, Allow, SessionsTypeOK
  <2> QED BY <1>1, <2>1, <2>2 DEF Knock, SessionsTypeOK, ctlVars
<1>2. CASE Beat
  <2>1. Sessions \subseteq Session
    BY DEF Sessions, Session, Open, SessionsTypeOK
  <2> QED BY <1>0, <1>2, <2>1 DEF Beat, SessionsTypeOK, ctlVars, histVars
<1>3. CASE GoOn
  BY <1>3 DEF GoOn, SessionsTypeOK, ctlVars, histVars
<1>4. CASE Pull
  <2>1. {seen', first'} \subseteq [User \X IP -> Int]
    BY <1>0, <1>4, WatchedType DEF Pull
  <2>2. m' \in [IP -> [user : User, until : Nat] \cup {NoEntry}]
    BY <1>4 DEF Pull, SessionsTypeOK
  <2>3. deny' \in [User -> Nat] /\ due' \in Nat
    BY <1>0, <1>4 DEF Pull
  <2> QED BY <1>4, <2>1, <2>2, <2>3 DEF Pull, SessionsTypeOK, ctlVars
<1>5. CASE PullFails
  BY <1>0, <1>5 DEF PullFails, SessionsTypeOK, ctlVars, histVars
<1>6. ASSUME NEW x \in flight, Register(x) PROVE SessionsTypeOK'
  BY <1>0, <1>6 DEF Register, SessionsTypeOK, gwVars, histVars
<1>7. ASSUME NEW x \in flight, Lose(x) PROVE SessionsTypeOK'
  BY <1>0, <1>7 DEF Lose, SessionsTypeOK, gwVars, ctlVars, histVars
<1>8. ASSUME NEW id \in Id, KickSession(id) PROVE SessionsTypeOK'
  <2>1. PICK u \in Holder(id) : kicking' = kicking \cup {[id |-> id, user |-> u]}
    BY <1>8 DEF KickSession
  <2>2. \A k \in kicking' : k.id \in Id
    BY <2>1 DEF SessionsTypeOK
  <2> QED BY <1>0, <1>8, <2>2 DEF KickSession, SessionsTypeOK, gwVars, histVars
<1>13. ASSUME NEW k \in kicking, KickWrites(k) PROVE SessionsTypeOK'
  <2>1. revoked' \in [User -> Nat]
    <3>1. now + TTL \in Nat /\ revoked' = [revoked EXCEPT ![k.user] = now + TTL]
      BY <1>0, <1>13 DEF KickWrites
    <3> QED BY <1>0, <3>1
  <2>2. kicked' \subseteq Id /\ \A x \in kicking' : x.id \in Id
    BY <1>13 DEF KickWrites, SessionsTypeOK
  <2> QED BY <1>0, <1>13, <2>1, <2>2 DEF KickWrites, SessionsTypeOK, gwVars, histVars
<1>9. CASE Tick
  <2>1. {seen', first'} \subseteq [User \X IP -> Int]
    BY <1>0, <1>9, WatchedType DEF Tick
  <2>2. m' \in [IP -> [user : User, until : Nat] \cup {NoEntry}]
    BY <1>9 DEF Tick, SessionsTypeOK
  <2>3. now' \in 0 .. MaxNow
    BY <1>0, <1>9 DEF Tick
  <2>4. deny' \in [User -> Nat] /\ revoked' \in [User -> Nat]
    BY <1>0, <1>9 DEF Tick
  <2>5. lastSeen' \in Int /\ taken' \in Int /\ bad' \in Int
    BY <1>9, <2>3, FadeType DEF Tick, SessionsTypeOK
  <2> QED BY <1>9, <2>1, <2>2, <2>3, <2>4, <2>5 DEF Tick, SessionsTypeOK
<1>10. CASE GatewayRestart
  <2>1. {seen', first'} \subseteq [User \X IP -> Int]
    BY <1>0, <1>10, WatchedType DEF GatewayRestart
  <2> QED BY <1>0, <1>10, <2>1 DEF GatewayRestart, SessionsTypeOK, ctlVars
<1>11. CASE ControlRestart
  BY <1>0, <1>11 DEF ControlRestart, SessionsTypeOK, gwVars, histVars
<1>12. CASE UNCHANGED sessionVars
  BY <1>12 DEF sessionVars, gwVars, ctlVars, histVars, SessionsTypeOK
<1> QED BY <1>1, <1>2, <1>3, <1>4, <1>5, <1>6, <1>7, <1>8, <1>9, <1>10, <1>11, <1>12,
          <1>13
        DEF SessionsNext

(***************************************************************************)
(* Online sessions: who was there.                                         *)
(***************************************************************************)

(* The poller is prompt. *)
TurnInv ==
    /\ pollPc = "idle" => now <= due
    /\ pollPc # "idle" => due <= now /\ now <= due + Delay

(* The histories are right about the windows that are open. *)
HeldInv ==
    \A u \in User, ip \in IP :
        /\ Holds(u, ip) => seen[<<u, ip>>] = now
        /\ seen[<<u, ip>>] <= now
        /\ first[<<u, ip>>] # Never => Holds(u, ip) /\ 0 <= first[<<u, ip>>] /\ first[<<u, ip>>] <= now

(* Everyone in S was last seen no longer than d before t (f: seen). *)
SeenSince(f, S, t, d) == \A s \in S : t <= f[<<s.user, s.ip>>] + d

(* Everyone who has been there since before t is in S (f: first). *)
Carries(f, S, t) ==
    \A u \in User, ip \in IP :
        f[<<u, ip>>] # Never /\ f[<<u, ip>>] < t => [ip |-> ip, user |-> u] \in S

(* A heartbeat says who was there when it was made, and is not older than Delay. *)
FlightInv ==
    \A x \in flight :
        /\ x.at <= now /\ now <= x.at + Delay
        /\ SeenSince(seen, x.sessions, x.at, 0)
        /\ Carries(first, x.sessions, x.at)

(* So does the last report, as long as it counts. *)
ReportInv ==
    /\ lastSeen <= now
    /\ Online => SeenSince(seen, gwSess, lastSeen, Delay)

SessionsInv == SessionsTypeOK /\ TurnInv /\ HeldInv /\ FlightInv

LEMMA SessionsInitInv == SessionsInit => SessionsInv /\ ReportInv
<1> SUFFICES ASSUME SessionsInit PROVE SessionsInv /\ ReportInv
  OBVIOUS
<1>1. SessionsTypeOK
  BY SessionsInitType
<1>2. HeldInv
  BY SessionsConstants DEF SessionsInit, HeldInv, Holds, Open
<1>3. TurnInv /\ FlightInv /\ ReportInv
  BY SessionsConstants DEF SessionsInit, TurnInv, FlightInv, ReportInv, SeenSince, Online
<1> QED BY <1>1, <1>2, <1>3 DEF SessionsInv

LEMMA HistoryTypes ==
    ASSUME SessionsTypeOK
    PROVE  /\ now \in Nat /\ due \in Nat
           /\ lastSeen \in Int /\ taken \in Int /\ bad \in Int
           /\ \A u \in User, ip \in IP : seen[<<u, ip>>] \in Int /\ first[<<u, ip>>] \in Int
           /\ \A x \in flight : x.at \in Nat /\ x.sessions \subseteq Session
<1>1. seen \in [User \X IP -> Int] /\ first \in [User \X IP -> Int]
  BY DEF SessionsTypeOK
<1>2. \A u \in User, ip \in IP : <<u, ip>> \in User \X IP
  OBVIOUS
<1>3. \A u \in User, ip \in IP : seen[<<u, ip>>] \in Int /\ first[<<u, ip>>] \in Int
  BY <1>1, <1>2
<1> QED BY <1>3 DEF SessionsTypeOK

LEMMA HeldStep ==
    ASSUME SessionsTypeOK, SessionsTypeOK', HeldInv, now <= now',
           Watch \/ UNCHANGED <<now, m, seen, first>>
    PROVE  HeldInv'
<1>1. CASE UNCHANGED <<now, m, seen, first>>
  BY <1>1 DEF HeldInv, Holds, Open
<1>2. CASE Watch
  <2> SUFFICES ASSUME NEW u \in User, NEW ip \in IP
               PROVE  /\ Holds(u, ip)' => seen'[<<u, ip>>] = now'
                      /\ seen'[<<u, ip>>] <= now'
                      /\ first'[<<u, ip>>] # Never =>
                            Holds(u, ip)' /\ 0 <= first'[<<u, ip>>] /\ first'[<<u, ip>>] <= now'
    BY DEF HeldInv
  <2>1. /\ seen'[<<u, ip>>] = IF Holds(u, ip)' THEN now' ELSE Fade(seen[<<u, ip>>], Window + Delay)
        /\ first'[<<u, ip>>] = IF ~Holds(u, ip)' THEN Never
                           ELSE IF Holds(u, ip) THEN first[<<u, ip>>] ELSE now'
    BY <1>2, Watched
  <2>2. /\ now \in Nat /\ now' \in Nat /\ seen[<<u, ip>>] \in Int /\ first[<<u, ip>>] \in Int
        /\ seen[<<u, ip>>] <= now
        /\ first[<<u, ip>>] # Never => 0 <= first[<<u, ip>>] /\ first[<<u, ip>>] <= now
    BY HistoryTypes DEF HeldInv, SessionsTypeOK
  <2>3. Fade(seen[<<u, ip>>], Window + Delay) <= now'
    BY <2>2, SessionsConstants DEF Fade
  <2> QED BY <2>1, <2>2, <2>3
<1> QED BY <1>1, <1>2

(* Who was seen stays seen, until it is too long ago to matter. *)
LEMMA SeenStays ==
    ASSUME SessionsTypeOK, SessionsTypeOK',
           Watch \/ UNCHANGED <<now, m, seen, first>>,
           NEW S \in SUBSET Session, NEW t \in Int, NEW d \in Nat, SeenSince(seen, S, t, d),
           t <= now', now' + d <= t + (Window + Delay)
    PROVE  SeenSince(seen', S, t, d)
<1> SUFFICES ASSUME NEW s \in S PROVE t <= seen'[<<s.user, s.ip>>] + d
  BY DEF SeenSince
<1>1. s.user \in User /\ s.ip \in IP /\ t <= seen[<<s.user, s.ip>>] + d
  BY DEF SeenSince, Session
<1>2. CASE UNCHANGED <<now, m, seen, first>>
  BY <1>1, <1>2
<1>3. CASE Watch
  <2>1. seen'[<<s.user, s.ip>>] = IF Holds(s.user, s.ip)' THEN now'
                              ELSE Fade(seen[<<s.user, s.ip>>], Window + Delay)
    BY <1>1, <1>3, Watched
  <2>2. now' \in Nat /\ seen[<<s.user, s.ip>>] \in Int
    BY <1>1, HistoryTypes DEF SessionsTypeOK
  <2>3. t <= Fade(seen[<<s.user, s.ip>>], Window + Delay) + d
    <3>1. now' \in Int /\ Window + Delay \in Int /\ d \in Int
      BY <2>2, SessionsConstants
    <3>2. now' <= seen[<<s.user, s.ip>>] + (Window + Delay)
      BY <1>1, <2>2, <3>1, Sooner
    <3> QED BY <1>1, <2>2, <3>1, <3>2, Faded
  <2>4. t <= now' + d
    <3>1. now' \in Int
      BY <2>2
    <3> QED BY <3>1, LaterBy
  <2> QED BY <2>1, <2>3, <2>4
<1> QED BY <1>2, <1>3

(* Nobody has been there for longer than before. *)
LEMMA CarriesStays ==
    ASSUME SessionsTypeOK, SessionsTypeOK', HeldInv,
           Watch \/ UNCHANGED <<now, m, seen, first>>,
           NEW S, NEW t \in Int, Carries(first, S, t), t <= now'
    PROVE  Carries(first', S, t)
<1> SUFFICES ASSUME NEW u \in User, NEW ip \in IP, first'[<<u, ip>>] # Never, first'[<<u, ip>>] < t
             PROVE  [ip |-> ip, user |-> u] \in S
  BY DEF Carries
<1>1. CASE UNCHANGED <<now, m, seen, first>>
  BY <1>1 DEF Carries
<1>2. CASE Watch
  <2>1. first'[<<u, ip>>] = IF ~Holds(u, ip)' THEN Never
                        ELSE IF Holds(u, ip) THEN first[<<u, ip>>] ELSE now'
    BY <1>2, Watched
  <2>2. now' \in Nat
    BY DEF SessionsTypeOK
  <2> QED BY <2>1, <2>2 DEF Carries
<1> QED BY <1>1, <1>2

(* What the steps have in common. *)
LEMMA Looks ==
    ASSUME SessionsTypeOK, [SessionsNext]_sessionVars
    PROVE  /\ Watch \/ UNCHANGED <<now, m, seen, first>>
           /\ Tick \/ now' = now
           /\ now <= now'
<1>1. ASSUME NEW u \in User, NEW ip \in IP, Knock(u, ip)
      PROVE  Watch /\ now' = now
  BY <1>1 DEF Knock
<1>2. ASSUME (\E id \in Id : KickSession(id)) \/ (\E k \in kicking : KickWrites(k))
      PROVE  UNCHANGED <<now, m, seen, first>>
  BY <1>2 DEF KickSession, KickWrites, gwVars, histVars
<1>3. ASSUME NEW x \in flight, Register(x) \/ Lose(x)
      PROVE  UNCHANGED <<now, m, seen, first>>
  BY <1>3 DEF Register, Lose, gwVars, histVars
<1>4. CASE Beat \/ GoOn \/ PullFails \/ ControlRestart \/ UNCHANGED sessionVars
  BY <1>4, HistoryTypes DEF Beat, GoOn, PullFails, ControlRestart, sessionVars, gwVars, histVars
<1>5. CASE Pull \/ GatewayRestart
  BY <1>5, HistoryTypes DEF Pull, GatewayRestart
<1>6. CASE Tick
  BY <1>6, HistoryTypes DEF Tick
<1> QED BY <1>1, <1>2, <1>3, <1>4, <1>5, <1>6, HistoryTypes DEF SessionsNext

LEMMA TurnStep ==
    ASSUME SessionsTypeOK, SessionsTypeOK', TurnInv, [SessionsNext]_sessionVars
    PROVE  TurnInv'
<1> USE SessionsConstants, HistoryTypes
<1>1. CASE Beat \/ GoOn \/ Pull \/ PullFails \/ GatewayRestart
  <2>1. now' = now /\ now \in Nat /\ due \in Nat
    BY <1>1 DEF Beat, GoOn, Pull, PullFails, GatewayRestart
  <2>2. CASE Beat
    BY <2>1, <2>2 DEF Beat, TurnInv
  <2>3. CASE GoOn
    BY <2>1, <2>3 DEF GoOn, TurnInv
  <2>4. CASE Pull \/ PullFails
    BY <2>1, <2>4 DEF Pull, PullFails, TurnInv
  <2>5. CASE GatewayRestart
    BY <2>1, <2>5 DEF GatewayRestart, TurnInv
  <2> QED BY <1>1, <2>2, <2>3, <2>4, <2>5
<1>2. CASE Tick
  BY <1>2 DEF Tick, TurnInv, SessionsTypeOK
<1>3. CASE UNCHANGED <<now, pollPc, due>>
  BY <1>3 DEF TurnInv
<1>4. ASSUME \/ \E u \in User, ip \in IP : Knock(u, ip)
             \/ \E x \in flight : Register(x) \/ Lose(x)
             \/ \E id \in Id : KickSession(id)
             \/ \E k \in kicking : KickWrites(k)
             \/ ControlRestart \/ UNCHANGED sessionVars
      PROVE  UNCHANGED <<now, pollPc, due>>
  BY <1>4 DEF Knock, Register, Lose, KickSession, KickWrites, ControlRestart, sessionVars, gwVars
<1> QED BY <1>1, <1>2, <1>3, <1>4 DEF SessionsNext

(* The heartbeats under way after a step, but for a new one, were under way before. *)
LEMMA FlightStep ==
    ASSUME SessionsTypeOK, SessionsTypeOK', TurnInv, HeldInv, FlightInv,
           [SessionsNext]_sessionVars
    PROVE  FlightInv'
<1> USE SessionsConstants
<1>0. Watch \/ UNCHANGED <<now, m, seen, first>>
  BY Looks
<1>1. ASSUME NEW x \in flight, now' <= x.at + Delay
      PROVE  /\ x.at <= now' /\ now' <= x.at + Delay
             /\ SeenSince(seen', x.sessions, x.at, 0)
             /\ Carries(first', x.sessions, x.at)
  <2>1. x.at \in Nat /\ x.sessions \in SUBSET Session /\ now \in Nat /\ now' \in Nat
    BY HistoryTypes DEF SessionsTypeOK
  <2>2. x.at <= now'
    BY <2>1, Looks DEF FlightInv
  <2>3. SeenSince(seen, x.sessions, x.at, 0) /\ Carries(first, x.sessions, x.at)
    BY DEF FlightInv
  <2>4. SeenSince(seen', x.sessions, x.at, 0)
    <3>1. now' + 0 <= x.at + (Window + Delay) /\ x.at \in Int
      BY <1>1, <2>1
    <3> QED BY <1>0, <2>1, <2>2, <2>3, <3>1, SeenStays
  <2>5. Carries(first', x.sessions, x.at)
    <3>1. x.at \in Int
      BY <2>1
    <3> QED BY <1>0, <2>2, <2>3, <3>1, CarriesStays
  <2> QED BY <1>1, <2>2, <2>4, <2>5
<1>2. CASE Beat
  <2> DEFINE b == [at |-> now, sessions |-> Sessions]
  <2>1. flight' = flight \cup {b} /\ now' = now /\ UNCHANGED <<m, seen, first>>
    BY <1>2 DEF Beat, histVars
  <2>2. SeenSince(seen, Sessions, now, 0)
    <3> SUFFICES ASSUME NEW ip \in IP, Open(ip)
                 PROVE  now <= seen[<<m[ip].user, ip>>] + 0
      BY DEF SeenSince, Sessions
    <3>1. m[ip].user \in User /\ Holds(m[ip].user, ip)
      BY DEF Open, Holds, SessionsTypeOK
    <3> QED BY <3>1, HistoryTypes DEF HeldInv
  <2>3. Carries(first, Sessions, now)
    BY DEF Carries, HeldInv, Holds, Open, Sessions
  <2>4. \A x \in flight : now' <= x.at + Delay
    BY <2>1 DEF FlightInv
  <2>5. ASSUME NEW x \in flight'
        PROVE  /\ x.at <= now' /\ now' <= x.at + Delay
               /\ SeenSince(seen', x.sessions, x.at, 0)
               /\ Carries(first', x.sessions, x.at)
    <3>1. CASE x \in flight
      BY <1>1, <2>4, <3>1
    <3>2. CASE x = b
      <4>1. x.at = now /\ x.sessions = Sessions
        BY <3>2
      <4> QED BY <2>1, <2>2, <2>3, <4>1, HistoryTypes
    <3> QED BY <2>1, <3>1, <3>2
  <2> QED BY <2>5 DEF FlightInv
<1>3. CASE flight' \subseteq flight /\ \A x \in flight : now' <= x.at + Delay
  BY <1>1, <1>3 DEF FlightInv
<1>4. ASSUME ~Beat
      PROVE  flight' \subseteq flight /\ \A x \in flight : now' <= x.at + Delay
  <2>1. flight' \subseteq flight
    BY <1>4 DEF SessionsNext, Knock, GoOn, Pull, PullFails, Register, Lose, KickSession,
                KickWrites, Tick, GatewayRestart, ControlRestart, sessionVars
  <2>2. CASE Tick
    BY <2>1, <2>2, HistoryTypes DEF Tick
  <2>3. CASE now' = now
    BY <2>1, <2>3 DEF FlightInv
  <2> QED BY <2>1, <2>2, <2>3, Looks
<1> QED BY <1>2, <1>3, <1>4

LEMMA SessionsStepInv ==
    SessionsInv /\ [SessionsNext]_sessionVars => SessionsInv'
<1> SUFFICES ASSUME SessionsInv, [SessionsNext]_sessionVars PROVE SessionsInv'
  OBVIOUS
<1>1. SessionsTypeOK'
  BY SessionsStepType DEF SessionsInv
<1>2. HeldInv'
  BY <1>1, Looks, HeldStep DEF SessionsInv
<1>3. TurnInv' /\ FlightInv'
  BY <1>1, TurnStep, FlightStep DEF SessionsInv
<1> QED BY <1>1, <1>2, <1>3 DEF SessionsInv

LEMMA ReportStep ==
    SessionsInv /\ ReportInv /\ [SessionsNext]_sessionVars => ReportInv'
<1> SUFFICES ASSUME SessionsInv, ReportInv, [SessionsNext]_sessionVars PROVE ReportInv'
  OBVIOUS
<1>a. /\ SessionsTypeOK /\ SessionsTypeOK' /\ gwSess \in SUBSET Session
      /\ Watch \/ UNCHANGED <<now, m, seen, first>>
  BY SessionsStepInv, Looks DEF SessionsInv, SessionsTypeOK
<1>b. Window \in Nat /\ Delay \in Nat /\ Never \in Int /\ Never + Window + Delay + 1 = 0
  BY SessionsConstants
<1>0. /\ now \in Nat /\ now' \in Nat /\ now <= now'
      /\ lastSeen \in Int /\ lastSeen <= now /\ lastSeen' \in Int
  BY <1>a, Looks DEF SessionsTypeOK, ReportInv
<1>c. now \in Int /\ now' \in Int /\ Window \in Int /\ Delay \in Int /\ Window + Delay \in Int
  BY <1>0, <1>b
(* The report that was there still counts. *)
<1>1. ASSUME gwSess' = gwSess, lastSeen' = lastSeen, now' <= lastSeen + Window
      PROVE  ReportInv'
  <2>0. lastSeen <= now'
    BY <1>0, <1>c, Later
  <2>1. SeenSince(seen, gwSess, lastSeen, Delay)
    <3>1. lastSeen + Window \in Int
      BY <1>0, <1>c
    <3>2. now <= lastSeen + Window
      BY <1>0, <1>c, <1>1, <3>1, Later
    <3>3. now - lastSeen <= Window
      BY <1>0, <1>c, <3>2, Elapsed
    <3> QED BY <3>3 DEF ReportInv, Online
  <2>2. SeenSince(seen', gwSess, lastSeen, Delay)
    <3>1. now' + Delay <= lastSeen + (Window + Delay)
      BY <1>0, <1>c, <1>1, Shift
    <3> QED BY <1>a, <1>0, <1>b, <2>0, <2>1, <3>1, SeenStays
  <2> QED BY <1>1, <2>0, <2>2 DEF ReportInv
(* There is none, or it is too old. *)
<1>2. ASSUME lastSeen' <= now', ~(now' <= lastSeen' + Window)
      PROVE  ReportInv'
  <2>1. ~(now' - lastSeen' <= Window)
    BY <1>0, <1>c, <1>2, Outside
  <2> QED BY <1>2, <2>1 DEF ReportInv, Online
<1>3. ASSUME gwSess' = gwSess, lastSeen' = lastSeen PROVE ReportInv'
  <2>1. CASE now' <= lastSeen + Window
    BY <1>1, <1>3, <2>1
  <2>2. CASE ~(now' <= lastSeen + Window)
    <3>1. lastSeen <= now'
      BY <1>0, <1>c, Later
    <3> QED BY <1>2, <1>3, <2>2, <3>1
  <2> QED BY <2>1, <2>2
<1>4. ASSUME NEW x \in flight, Register(x) PROVE ReportInv'
  <2>1. /\ gwSess' = x.sessions /\ lastSeen' = now /\ now' = now
        /\ UNCHANGED <<m, seen, first>>
    BY <1>4 DEF Register, gwVars, histVars
  <2>2. /\ x.at \in Nat /\ now <= x.at + Delay
        /\ SeenSince(seen, x.sessions, x.at, 0) /\ x.sessions \subseteq Session
    BY <1>a, HistoryTypes DEF SessionsInv, FlightInv
  <2>3. \A s \in x.sessions : seen[<<s.user, s.ip>>] \in Int
    BY <1>a, <2>2, HistoryTypes DEF Session
  <2>4. SeenSince(seen, x.sessions, now, Delay)
    <3> SUFFICES ASSUME NEW s \in x.sessions PROVE now <= seen[<<s.user, s.ip>>] + Delay
      BY DEF SeenSince
    <3>1. x.at \in Int /\ x.at <= seen[<<s.user, s.ip>>] + 0
      BY <2>2 DEF SeenSince
    <3> QED BY <1>c, <2>2, <2>3, <3>1, Carry
  <2> QED BY <1>0, <2>1, <2>4 DEF ReportInv
<1>5. CASE ControlRestart
  BY <1>0, <1>b, <1>5 DEF ControlRestart, ReportInv, SeenSince
<1>6. CASE Tick
  <2>1. gwSess' = gwSess /\ lastSeen' = Fade(lastSeen, Window)
    BY <1>6 DEF Tick
  <2>2. CASE now' <= lastSeen + Window
    <3>1. lastSeen' = lastSeen
      BY <1>0, <1>c, <2>1, <2>2, Faded
    <3> QED BY <1>3, <2>1, <3>1
  <2>3. CASE ~(now' <= lastSeen + Window)
    <3>1. lastSeen' = Never
      BY <1>0, <1>c, <2>1, <2>3, Faded
    <3>2. Never <= now' /\ ~(now' <= Never + Window)
      <4>1. \A n \in Nat : Never <= n /\ ~(n <= Never + Window)
        BY <1>b
      <4> QED BY <1>0, <4>1
    <3> QED BY <1>2, <3>1, <3>2
  <2> QED BY <2>2, <2>3
<1>7. CASE UNCHANGED <<gwSess, lastSeen>>
  BY <1>3, <1>7
<1>8. ASSUME \/ \E u \in User, ip \in IP : Knock(u, ip)
             \/ \E x \in flight : Lose(x)
             \/ \E id \in Id : KickSession(id)
             \/ \E k \in kicking : KickWrites(k)
             \/ Beat \/ GoOn \/ Pull \/ PullFails \/ GatewayRestart \/ UNCHANGED sessionVars
      PROVE  UNCHANGED <<gwSess, lastSeen>>
  BY <1>8 DEF Knock, Beat, GoOn, Pull, PullFails, GatewayRestart, Lose, KickSession,
              KickWrites, sessionVars, ctlVars
<1> QED BY <1>4, <1>5, <1>6, <1>7, <1>8 DEF SessionsNext

\* Nobody is listed from life whose window was not open for that user within
\* the silence a gateway is allowed and the time a report takes, for every
\* number of users and addresses and every schedule that SessionsAssumption allows.
THEOREM OnlineTheorem == SessionsSpec => []ListedWasThere
<1>1. SessionsInit => SessionsInv /\ ReportInv
  BY SessionsInitInv
<1>2. SessionsInv /\ ReportInv /\ [SessionsNext]_sessionVars => SessionsInv' /\ ReportInv'
  BY SessionsStepInv, ReportStep
<1>3. SessionsInv /\ ReportInv => ListedWasThere
  <2> SUFFICES ASSUME SessionsInv, ReportInv, NEW s \in Live
               PROVE  now - seen[<<s.user, s.ip>>] <= Window + Delay
    BY DEF ListedWasThere, SessionsInv
  <2>1. Online /\ s \in gwSess
    BY DEF Live
  <2>2. s.user \in User /\ s.ip \in IP
    BY <2>1 DEF SessionsInv, SessionsTypeOK, Session
  <2>3. lastSeen <= seen[<<s.user, s.ip>>] + Delay /\ now - lastSeen <= Window
    BY <2>1 DEF ReportInv, SeenSince, Online
  <2>4. seen[<<s.user, s.ip>>] \in Int /\ now \in Nat /\ lastSeen \in Int
    BY <2>2, HistoryTypes DEF SessionsInv
  <2> QED BY <2>3, <2>4, SessionsConstants
<1> QED BY <1>1, <1>2, <1>3, PTL DEF SessionsSpec

(***************************************************************************)
(* Online sessions: who is shown.  There is always a report, handled or    *)
(* known to be lost, with a next one behind it that is not late: a chain.  *)
(***************************************************************************)

\* From one report that is handled to the next one that is.
Span == Poll + 2 * Delay

\* The report made at b, or a later one, is what the control plane has.
Handled(b) ==
    /\ b <= lastSeen
    /\ now <= b + Delay => b <= taken
    /\ Carries(first, gwSess, b)

Good(b) == Handled(b) \/ b <= bad \/ b <= 0

\* Behind the report made at t comes another, at most an interval and a delay later.
Succ(t) ==
    \/ \E y \in flight : t < y.at /\ y.at <= t + (Poll + Delay)
    \/ pollPc = "idle" /\ due <= t + (Poll + Delay)
    \/ pollPc # "idle" /\ due <= t

Link(b) ==
    /\ b <= now
    /\ Good(b) /\ Succ(b)
    /\ \A x \in flight : b < x.at => Succ(x.at)

ChainInv == \E b \in Int : Link(b)

\* What can be counted.
FiniteInv ==
    /\ IsFiniteSet(gwSess)
    /\ \A x \in flight : IsFiniteSet(x.sessions)

LEMMA FiniteInit == SessionsInit => FiniteInv
BY FS_EmptySet DEF SessionsInit, FiniteInv

LEMMA FiniteStep == FiniteInv /\ [SessionsNext]_sessionVars => FiniteInv'
<1> SUFFICES ASSUME FiniteInv, [SessionsNext]_sessionVars PROVE FiniteInv'
  OBVIOUS
<1>1. CASE Beat
  <2> DEFINE O == {i \in IP : Open(i)}
             f == [i \in O |-> [ip |-> i, user |-> m[i].user]]
  <2>1. IsFiniteSet(O)
    BY FS_Subset, SessionsAssumption DEF SessionsAssumption
  <2>2. f \in Surjection(O, Sessions)
    BY DEF Surjection, Sessions
  <2>3. IsFiniteSet(Sessions)
    BY <2>1, <2>2, FS_Surjection
  <2> QED BY <1>1, <2>3 DEF Beat, FiniteInv, ctlVars
<1>2. ASSUME NEW x \in flight, Register(x) \/ Lose(x) PROVE FiniteInv'
  BY <1>2 DEF Register, Lose, FiniteInv, ctlVars
<1>3. CASE ControlRestart
  BY <1>3, FS_EmptySet DEF ControlRestart, FiniteInv
<1>4. CASE UNCHANGED <<flight, gwSess>>
  BY <1>4 DEF FiniteInv
<1>5. ASSUME \/ \E u \in User, ip \in IP : Knock(u, ip)
             \/ \E id \in Id : KickSession(id)
             \/ \E k \in kicking : KickWrites(k)
             \/ GoOn \/ Pull \/ PullFails \/ Tick \/ GatewayRestart \/ UNCHANGED sessionVars
      PROVE  UNCHANGED <<flight, gwSess>>
  BY <1>5 DEF Knock, GoOn, Pull, PullFails, KickSession, KickWrites, Tick, GatewayRestart,
              sessionVars, ctlVars
<1> QED BY <1>1, <1>2, <1>3, <1>4, <1>5 DEF SessionsNext

LEMMA ChainInit == SessionsInit => ChainInv
<1> SUFFICES ASSUME SessionsInit PROVE Link(0)
  BY DEF ChainInv
<1> QED BY SessionsConstants DEF SessionsInit, Link, Good, Succ

LEMMA SpanIsShort == Span \in Nat /\ Span <= Window
BY SessionsConstants DEF Span

(* The next report is handled before the last one is forgotten. *)
LEMMA SuccIsSoon ==
    ASSUME SessionsInv, NEW b \in Int, Succ(b)
    PROVE  now <= b + Span /\ (Tick => now + 1 <= b + Span)
<1> USE SessionsConstants, HistoryTypes DEF SessionsInv, Span
<1>1. ASSUME NEW y \in flight, y.at <= b + (Poll + Delay)
      PROVE  now <= b + Span /\ (Tick => now + 1 <= b + Span)
  <2>1. y.at \in Nat /\ now \in Nat /\ now <= y.at + Delay
    BY DEF FlightInv
  <2>2. Tick => now < y.at + Delay
    BY DEF Tick
  <2> QED BY <1>1, <2>1, <2>2
<1>2. ASSUME pollPc = "idle", due <= b + (Poll + Delay)
      PROVE  now <= b + Span /\ (Tick => now + 1 <= b + Span)
  <2>1. now <= due /\ (Tick => now < due)
    BY <1>2 DEF TurnInv, Tick
  <2> QED BY <1>2, <2>1
<1>3. ASSUME pollPc # "idle", due <= b
      PROVE  now <= b + Span /\ (Tick => now + 1 <= b + Span)
  <2>1. now <= due + Delay /\ (Tick => now < due + Delay)
    BY <1>3 DEF TurnInv, Tick
  <2> QED BY <1>3, <2>1
<1> QED BY <1>1, <1>2, <1>3 DEF Succ

(* A step leaves the next report to come, unless it handles or loses it. *)
LEMMA SuccStays ==
    ASSUME SessionsInv, [SessionsNext]_sessionVars, ~GatewayRestart,
           NEW t \in Int, t <= now, Succ(t),
           \A x \in flight : Register(x) \/ Lose(x) => x.at <= t
    PROVE  Succ(t)'
<1> USE SessionsConstants, HistoryTypes DEF SessionsInv
<1>1. CASE Beat
  <2> DEFINE y == [at |-> now, sessions |-> Sessions]
  <2>1. flight' = flight \cup {y} /\ y.at = now /\ pollPc = "idle" /\ pollPc' # "idle"
        /\ due' = due /\ due <= now
    BY <1>1 DEF Beat
  <2>0. now = due
    BY <2>1 DEF TurnInv
  <2> HIDE DEF y
  <2>2. CASE \E z \in flight : t < z.at /\ z.at <= t + (Poll + Delay)
    BY <2>1, <2>2 DEF Succ
  <2>3. CASE due <= t + (Poll + Delay) /\ due <= t
    BY <2>1, <2>3 DEF Succ
  <2>4. CASE due <= t + (Poll + Delay) /\ t < due
    BY <2>0, <2>1, <2>4 DEF Succ
  <2> QED BY <2>1, <2>2, <2>3, <2>4 DEF Succ
<1>2. CASE GoOn
  BY <1>2 DEF GoOn, Succ
<1>3. CASE Pull \/ PullFails
  <2>1. flight' = flight /\ pollPc # "idle" /\ pollPc' = "idle" /\ due' = now + Poll
        /\ now <= due + Delay
    BY <1>3 DEF Pull, PullFails, TurnInv
  <2>2. CASE \E z \in flight : t < z.at /\ z.at <= t + (Poll + Delay)
    BY <2>1, <2>2 DEF Succ
  <2>3. CASE due <= t
    <3>1. now + Poll <= t + (Poll + Delay)
      BY <2>1, <2>3
    <3> QED BY <2>1, <3>1 DEF Succ
  <2> QED BY <2>1, <2>2, <2>3 DEF Succ
<1>4. ASSUME NEW x \in flight, Register(x) \/ Lose(x) PROVE Succ(t)'
  <2>1. flight' = flight \ {x} /\ UNCHANGED <<pollPc, due>> /\ x.at <= t
    BY <1>4 DEF Register, Lose, gwVars
  <2>2. ASSUME NEW z \in flight, t < z.at
        PROVE  z \in flight'
    BY <2>1, <2>2
  <2> QED BY <2>1, <2>2 DEF Succ
<1>5. ASSUME \/ \E u \in User, ip \in IP : Knock(u, ip)
             \/ \E id \in Id : KickSession(id)
             \/ \E k \in kicking : KickWrites(k)
             \/ Tick \/ ControlRestart \/ UNCHANGED sessionVars
      PROVE  UNCHANGED <<flight, pollPc, due>>
  BY <1>5 DEF Knock, KickSession, KickWrites, Tick, ControlRestart, sessionVars, gwVars
<1>6. CASE UNCHANGED <<flight, pollPc, due>>
  BY <1>6 DEF Succ
<1> QED BY <1>1, <1>2, <1>3, <1>4, <1>5, <1>6 DEF SessionsNext

(* What is carried is carried on. *)
LEMMA GoodStays ==
    ASSUME SessionsInv, [SessionsNext]_sessionVars, NEW b \in Int, b <= now, Good(b),
           UNCHANGED <<now, gwSess, lastSeen, taken, bad>>
    PROVE  Good(b)'
<1>1. CASE Handled(b)
  <2>1. SessionsTypeOK' /\ (Watch \/ UNCHANGED <<now, m, seen, first>>) /\ b <= now'
    BY SessionsStepInv, Looks DEF SessionsInv
  <2>2. Carries(first', gwSess, b)
    BY <1>1, <2>1, CarriesStays DEF SessionsInv, Handled
  <2> QED BY <1>1, <2>2 DEF Handled, Good
<1> QED BY <1>1 DEF Good

LEMMA GoodAges ==
    ASSUME SessionsInv, Tick, NEW b \in Int, b <= now, Good(b), now + 1 <= b + Span
    PROVE  Good(b)'
<1>0. /\ SessionsTypeOK /\ SessionsTypeOK' /\ (Watch \/ UNCHANGED <<now, m, seen, first>>)
      /\ now \in Nat /\ now' = now + 1 /\ now' \in Int
      /\ lastSeen \in Int /\ taken \in Int /\ bad \in Int
      /\ lastSeen' = Fade(lastSeen, Window) /\ taken' = Fade(taken, Delay) /\ bad' = Fade(bad, Span)
      /\ gwSess' = gwSess
  BY SessionsStepInv, HistoryTypes DEF SessionsInv, SessionsNext, Tick, Span
<1>1. CASE Handled(b)
  <2>1. lastSeen' = lastSeen
    <3>1. now' <= lastSeen + Window
      BY <1>0, <1>1, SpanIsShort, SessionsConstants DEF Handled
    <3> QED BY <1>0, <3>1, SessionsConstants, Faded
  <2>2. ASSUME now' <= b + Delay PROVE taken' = taken /\ b <= taken
    <3>1. now + 1 <= b + Delay
      BY <1>0, <2>2
    <3>2. b <= taken
      BY <1>0, <1>1, <3>1, SessionsConstants DEF Handled
    <3>3. now' <= taken + Delay
      BY <1>0, <3>1, <3>2, SessionsConstants
    <3> QED BY <1>0, <3>2, <3>3, SessionsConstants, Faded
  <2>3. Carries(first', gwSess, b)
    <3>1. b <= now'
      BY <1>0
    <3> QED BY <1>0, <1>1, <3>1, CarriesStays DEF SessionsInv, Handled
  <2> QED BY <1>0, <1>1, <2>1, <2>2, <2>3 DEF Handled, Good
<1>2. CASE b <= bad
  <2>1. now' <= bad + Span
    BY <1>0, <1>2, SpanIsShort
  <2>2. bad' = bad
    BY <1>0, <2>1, SpanIsShort, Faded
  <2> QED BY <1>2, <2>2 DEF Good
<1> QED BY <1>1, <1>2 DEF Good

LEMMA ChainStep ==
    SessionsInv /\ ChainInv /\ [SessionsNext]_sessionVars => ChainInv'
<1> SUFFICES ASSUME SessionsInv, ChainInv, [SessionsNext]_sessionVars PROVE ChainInv'
  OBVIOUS
<1> PICK b \in Int : Link(b)
  BY DEF ChainInv
<1>0. /\ now \in Nat /\ now' \in Nat /\ now <= now' /\ bad \in Int /\ taken \in Int
      /\ b <= now /\ b <= now' /\ Good(b) /\ Succ(b)
      /\ \A x \in flight : x.at \in Nat /\ x.at <= now /\ now <= x.at + Delay
                           /\ Carries(first, x.sessions, x.at)
      /\ \A x \in flight : b < x.at => Succ(x.at)
  <2>1. now \in Nat /\ now' \in Nat /\ now <= now' /\ b <= now
    BY SessionsStepInv, Looks DEF SessionsInv, SessionsTypeOK, Link
  <2>2. b <= now'
    BY <2>1, Later
  <2> QED BY <2>1, <2>2, HistoryTypes DEF SessionsInv, FlightInv, Link
(* The same link holds, if what it rests on is not handled now. *)
<1>1. ASSUME Good(b)', ~GatewayRestart, \A x \in flight' : x \in flight \/ Succ(x.at)',
             \A x \in flight : Register(x) \/ Lose(x) => x.at <= b
      PROVE  ChainInv'
  <2>1. Succ(b)'
    BY <1>0, <1>1, SuccStays
  <2>2. ASSUME NEW x \in flight', b < x.at, x \in flight PROVE Succ(x.at)'
    <3>1. x.at \in Int /\ x.at <= now /\ Succ(x.at)
      BY <1>0, <1>1, <2>2
    <3>2. \A z \in flight : Register(z) \/ Lose(z) => z.at <= x.at
      BY <1>0, <1>1, <2>2, <3>1
    <3> QED BY <1>1, <3>1, <3>2, SuccStays
  <2>3. Link(b)'
    BY <1>0, <1>1, <2>1, <2>2 DEF Link
  <2> QED BY <2>3 DEF ChainInv
(* It is: then it is the report that came or was lost that counts. *)
<1>2. ASSUME NEW x \in flight, Register(x) \/ Lose(x), b < x.at, Good(x.at)'
      PROVE  ChainInv'
  <2>1. flight' = flight \ {x} /\ now' = now /\ ~GatewayRestart
    BY <1>2 DEF Register, Lose, GatewayRestart
  <2>2. \A z \in flight : Register(z) \/ Lose(z) => z.at <= x.at
    <3> SUFFICES ASSUME NEW z \in flight, Register(z) \/ Lose(z) PROVE z = x
      BY <1>0
    <3> QED BY <2>1 DEF Register, Lose
  <2>3. Succ(x.at)'
    BY <1>0, <1>2, <2>1, <2>2, SuccStays
  <2>4. ASSUME NEW z \in flight', x.at < z.at PROVE Succ(z.at)'
    BY <1>0, <1>2, <2>1, <2>2, <2>4, SuccStays
  <2>5. Link(x.at)'
    BY <1>0, <1>2, <2>1, <2>3, <2>4 DEF Link
  <2> QED BY <1>0, <2>5 DEF ChainInv
<1>3. CASE Tick
  <2>1. Good(b)'
    BY <1>0, <1>3, SuccIsSoon, GoodAges
  <2>2. flight' = flight /\ now' = now + 1
    BY <1>3 DEF Tick
  <2>3. ~GatewayRestart /\ \A x \in flight : ~Register(x) /\ ~Lose(x)
    BY <1>0, <2>2 DEF Register, Lose, GatewayRestart
  <2> QED BY <1>1, <2>1, <2>2, <2>3
<1>4. ASSUME NEW x \in flight, Register(x) PROVE ChainInv'
  <2>0. /\ flight' = flight \ {x} /\ gwSess' = x.sessions /\ lastSeen' = now /\ now' = now
        /\ taken' = x.at /\ bad' = (IF x.at < taken THEN now ELSE bad) /\ first' = first
    BY <1>4 DEF Register, histVars
  <2>1. CASE b < x.at
    <3>1. Handled(x.at)'
      BY <1>0, <2>0 DEF Handled
    <3> QED BY <1>2, <1>4, <2>1, <3>1 DEF Good
  <2>2. CASE ~(b < x.at)
    <3>1. Good(b)'
      <4>1. CASE x.at < taken
        BY <1>0, <2>0, <4>1 DEF Good
      <4>2. CASE ~(x.at < taken) /\ Handled(b)
        <5>1. now <= b + Delay
          BY <1>0, <2>2, SessionsConstants
        <5>2. x.at = b
          BY <1>0, <2>2, <4>2, <5>1 DEF Handled
        <5>3. Handled(b)'
          BY <1>0, <2>0, <5>2 DEF Handled
        <5> QED BY <5>3 DEF Good
      <4>3. CASE ~(x.at < taken) /\ (b <= bad \/ b <= 0)
        BY <2>0, <4>3 DEF Good
      <4> QED BY <1>0, <4>1, <4>2, <4>3 DEF Good
    <3>2. \A z \in flight : Register(z) \/ Lose(z) => z.at <= b
      <4> SUFFICES ASSUME NEW z \in flight, Register(z) \/ Lose(z) PROVE z = x
        BY <1>0, <2>2
      <4> QED BY <2>0 DEF Register, Lose
    <3>3. ~GatewayRestart
      BY <2>0 DEF GatewayRestart
    <3> QED BY <1>1, <2>0, <3>1, <3>2, <3>3
  <2> QED BY <2>1, <2>2
<1>5. ASSUME NEW x \in flight, Lose(x) PROVE ChainInv'
  <2>0. flight' = flight \ {x} /\ bad' = now
    BY <1>5 DEF Lose
  <2>1. CASE b < x.at
    BY <1>0, <1>2, <1>5, <2>0, <2>1 DEF Good
  <2>2. CASE ~(b < x.at)
    <3>1. Good(b)'
      BY <1>0, <2>0 DEF Good
    <3>2. \A z \in flight : Register(z) \/ Lose(z) => z.at <= b
      <4> SUFFICES ASSUME NEW z \in flight, Register(z) \/ Lose(z) PROVE z = x
        BY <1>0, <2>2
      <4> QED BY <2>0 DEF Register, Lose
    <3>3. ~GatewayRestart
      BY <2>0 DEF GatewayRestart
    <3> QED BY <1>1, <2>0, <3>1, <3>2, <3>3
  <2> QED BY <2>1, <2>2
(* The gateway begins again with a report at once. *)
<1>6. CASE GatewayRestart
  <2>1. /\ bad' = now /\ pollPc' = "idle" /\ due' = now /\ now' = now /\ flight' = flight
    BY <1>6 DEF GatewayRestart
  <2>2. Good(now)'
    BY <1>0, <2>1 DEF Good
  <2>3. now <= now + (Poll + Delay)
    BY <1>0, SessionsConstants
  <2>4. Succ(now)'
    BY <2>1, <2>3 DEF Succ
  <2>5. Link(now)'
    BY <1>0, <2>1, <2>2, <2>4 DEF Link
  <2> QED BY <1>0, <2>5 DEF ChainInv
<1>7. CASE ControlRestart /\ ~GatewayRestart
  <2>1. bad' = now /\ flight' = flight
    BY <1>7 DEF ControlRestart
  <2>2. Good(b)'
    BY <1>0, <2>1 DEF Good
  <2>3. \A x \in flight : ~Register(x) /\ ~Lose(x)
    BY <2>1 DEF Register, Lose
  <2> QED BY <1>1, <1>7, <2>1, <2>2, <2>3
<1>8. CASE Beat
  <2> DEFINE y == [at |-> now, sessions |-> Sessions]
  <2>1. /\ flight' = flight \cup {y} /\ y.at = now /\ pollPc' # "idle" /\ due' = due /\ due <= now
        /\ pollPc = "idle" /\ pollPc' = "beat"
        /\ UNCHANGED <<now, gwSess, lastSeen, taken, bad>>
    BY <1>8 DEF Beat, ctlVars
  <2> HIDE DEF y
  <2>2. Succ(now)'
    BY <2>1 DEF Succ
  <2>3. Good(b)'
    BY <1>0, <2>1, GoodStays
  <2>4. ~GatewayRestart /\ \A x \in flight : ~Register(x) /\ ~Lose(x)
    BY <2>1 DEF Register, Lose, GatewayRestart
  <2>5. ASSUME NEW x \in flight', x \notin flight PROVE Succ(x.at)'
    <3>1. x.at = now
      BY <2>1, <2>5
    <3> QED BY <2>1, <2>2, <3>1
  <2> QED BY <1>1, <2>3, <2>4, <2>5
<1>9. ASSUME UNCHANGED <<now, flight, gwSess, lastSeen, taken, bad>>, ~GatewayRestart
      PROVE  ChainInv'
  <2>1. Good(b)'
    BY <1>0, <1>9, GoodStays
  <2>2. \A x \in flight : ~Register(x) /\ ~Lose(x)
    BY <1>9 DEF Register, Lose
  <2> QED BY <1>1, <1>9, <2>1, <2>2
<1>10. ASSUME \/ \E u \in User, ip \in IP : Knock(u, ip)
              \/ \E id \in Id : KickSession(id)
              \/ \E k \in kicking : KickWrites(k)
              \/ GoOn \/ Pull \/ PullFails \/ UNCHANGED sessionVars
       PROVE  UNCHANGED <<now, flight, gwSess, lastSeen, taken, bad>>
  BY <1>10 DEF Knock, GoOn, Pull, PullFails, KickSession, KickWrites, sessionVars, gwVars, ctlVars
<1> QED BY <1>3, <1>4, <1>5, <1>6, <1>7, <1>8, <1>9, <1>10 DEF SessionsNext

\* Whoever has been there long enough is shown and counted, unless a report was
\* lost or overtaken or somebody restarted since, for every number of users and
\* addresses and every schedule that SessionsAssumption allows.
THEOREM PresentTheorem == SessionsSpec => []PresentIsShown
<1>1. SessionsInit => SessionsInv /\ ChainInv /\ FiniteInv
  BY SessionsInitInv, ChainInit, FiniteInit
<1>2. SessionsInv /\ ChainInv /\ FiniteInv /\ [SessionsNext]_sessionVars
      => SessionsInv' /\ ChainInv' /\ FiniteInv'
  BY SessionsStepInv, ChainStep, FiniteStep
<1>3. SessionsInv /\ ChainInv /\ FiniteInv => PresentIsShown
  <2> SUFFICES ASSUME SessionsInv, ChainInv, FiniteInv, NEW u \in User, NEW ip \in IP,
                      first[<<u, ip>>] # Never, first[<<u, ip>>] < now - Span, bad < now - Span
               PROVE  /\ [ip |-> ip, user |-> u] \in (IF ip \in kicked THEN Listed ELSE ShownOnline)
                      /\ Count >= Cardinality({i \in IP : \E v \in User :
                             first[<<v, i>>] # Never /\ first[<<v, i>>] < now - Span})
    BY DEF PresentIsShown, Span
  <2> DEFINE There == {i \in IP : \E v \in User :
                           first[<<v, i>>] # Never /\ first[<<v, i>>] < now - Span}
             f == [s \in gwSess |-> s.ip]
             Seen == {s.ip : s \in gwSess}
  <2> PICK b \in Int : Link(b)
    BY DEF ChainInv
  <2>0. /\ now \in Nat /\ bad \in Int /\ lastSeen \in Int /\ Span \in Nat /\ Window \in Nat
        /\ Span <= Window
        /\ \A v \in User, i \in IP : first[<<v, i>>] \in Int
    BY HistoryTypes, SpanIsShort, SessionsConstants DEF SessionsInv
  <2>1. now <= b + Span
    BY SuccIsSoon DEF Link
  <2>2. 0 <= first[<<u, ip>>]
    BY DEF SessionsInv, HeldInv
  <2>3. Handled(b)
    <3>1. ~(b <= bad) /\ ~(b <= 0)
      BY <2>0, <2>1, <2>2
    <3> QED BY <3>1 DEF Link, Good
  <2>4. ASSUME NEW v \in User, NEW i \in IP,
               first[<<v, i>>] # Never, first[<<v, i>>] < now - Span
        PROVE  [ip |-> i, user |-> v] \in gwSess
    <3>1. first[<<v, i>>] < b
      BY <2>0, <2>1, <2>4
    <3> QED BY <2>3, <2>4, <3>1 DEF Handled, Carries
  <2>5. Online
    BY <2>0, <2>1, <2>3 DEF Handled, Online
  <2>6. [ip |-> ip, user |-> u] \in Live /\ Live = gwSess
    BY <2>4, <2>5 DEF Live
  <2>7. [ip |-> ip, user |-> u] \in (IF ip \in kicked THEN Listed ELSE ShownOnline)
    BY <2>6 DEF Listed, ShownOnline
  <2>8. There \subseteq Seen
    <3> SUFFICES ASSUME NEW i \in There PROVE i \in Seen
      OBVIOUS
    <3>1. PICK v \in User : [ip |-> i, user |-> v] \in gwSess
      BY <2>4
    <3>2. [ip |-> i, user |-> v].ip = i
      OBVIOUS
    <3> QED BY <3>1, <3>2
  <2>9. IsFiniteSet(Seen) /\ Cardinality(Seen) <= Cardinality(gwSess)
    <3>1. f \in Surjection(gwSess, Seen)
      BY DEF Surjection
    <3> QED BY <3>1, FS_Surjection DEF FiniteInv
  <2>10. Cardinality(There) <= Cardinality(Seen)
    BY <2>8, <2>9, FS_Subset
  <2>11. Cardinality(There) \in Nat /\ Cardinality(Seen) \in Nat /\ Cardinality(gwSess) \in Nat
    BY <2>8, <2>9, FS_Subset, FS_CardinalityType DEF FiniteInv
  <2>12. Count >= Cardinality(There)
    BY <2>5, <2>9, <2>10, <2>11 DEF Count
  <2> QED BY <2>7, <2>12
<1> QED BY <1>1, <1>2, <1>3, PTL DEF SessionsSpec

=============================================================================
