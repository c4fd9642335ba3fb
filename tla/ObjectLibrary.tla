---------------------------- MODULE ObjectLibrary ----------------------------
(***************************************************************************)
(* The object library and its consumers.  Resources refer to an address    *)
(* object and a service object, IPSec sites to two address objects; a      *)
(* reference is an id and no foreign key stands behind it.  A save looks   *)
(* its references up one after the other and then writes the row, each in  *)
(* a statement of its own; a deletion counts the references and deletes    *)
(* in one transaction that holds the write lock from its start.            *)
(*                                                                         *)
(* Time objects have no consumers and are left out.                        *)
(***************************************************************************)
EXTENDS Integers, FiniteSets

CONSTANTS
    Object,     \* ids of objects
    Site,       \* ids of IPSec sites
    Resource,   \* ids of resources
    NoRef,      \* the empty reference
    Req         \* requests of several steps that can be under way at once

ASSUME ObjectAssumption == NoRef \notin Object /\ Site \cap Resource = {}

VARIABLES
    objects,    \* database: kind -> ids in its table
    rows,       \* database: a saved consumer -> its references
    up,         \* database: the sites whose tunnel is up
    saves,      \* saves under way
    toggles,    \* toggles of a tunnel under way
    excused     \* history: references to an object deleted while their save was under way

db == <<objects, rows, up>>
vars == <<db, saves, toggles, excused>>

Consumer == Site \cup Resource
Kind == {"addr", "service"}
Slot == {1, 2}      \* local and remote; address and service
Refs == [Slot -> Object \cup {NoRef}]

\* "next" is the slot to look up, 3 when all are; "lost" the slots whose
\* object was deleted since; "formUp" the status the form was opened with.
SaveState ==
    [id : Req, of : Consumer, refs : Refs, next : 1 .. 3, lost : SUBSET Slot, formUp : BOOLEAN]

ToggleState == [id : Req, of : Site, wasUp : BOOLEAN]

Saved == DOMAIN rows

TypeOK ==
    /\ objects \in [Kind -> SUBSET Object]
    /\ rows \in UNION {[S -> Refs] : S \in SUBSET Consumer}
    /\ up \subseteq Site \cap Saved
    /\ saves \subseteq SaveState
    /\ toggles \subseteq ToggleState
    /\ excused \in [Consumer -> SUBSET Slot]

Init ==
    /\ objects = [k \in Kind |-> {}]
    /\ rows = [c \in {} |-> [s \in Slot |-> NoRef]]
    /\ up = {}
    /\ saves = {}
    /\ toggles = {}
    /\ excused = [c \in Consumer |-> {}]

-----------------------------------------------------------------------------
(***************************************************************************)
(* Slips the properties are tried against.                                 *)
(***************************************************************************)

\* The count forgets the remote end of a site.
ReferencedLocally(k, o) ==
    \/ k = "addr" /\ \E c \in Saved : rows[c][1] = o
    \/ k = "service" /\ \E c \in Saved \cap Resource : rows[c][2] = o

\* The row of a site is written with the status of the form.
WriteWithForm(q) ==
    /\ q.of \in Site /\ q.next = 3
    /\ rows' = [c \in Saved \cup {q.of} |-> IF c = q.of THEN q.refs ELSE rows[c]]
    /\ up' = IF q.formUp THEN up \cup {q.of} ELSE up \ {q.of}
    /\ excused' = [excused EXCEPT ![q.of] = q.lost]
    /\ saves' = saves \ {q}
    /\ UNCHANGED <<objects, toggles>>

-----------------------------------------------------------------------------
(***************************************************************************)
(* What refers to what.                                                    *)
(***************************************************************************)

\* The table a slot of a consumer refers to.
KindOf(c, s) == IF c \in Resource /\ s = 2 THEN "service" ELSE "addr"

ObjectExists(k, o) == o \in objects[k]

\* The count of DeleteObjectIfUnreferenced is not zero.
Referenced(k, o) ==
    \/ k = "addr" /\ \E c \in Saved : \E s \in Slot :
                        KindOf(c, s) = "addr" /\ rows[c][s] = o
    \/ k = "service" /\ \E c \in Saved \cap Resource : rows[c][2] = o

FreeReq(id) == \A q \in saves \cup toggles : q.id # id

-----------------------------------------------------------------------------
(***************************************************************************)
(* Objects: handleSaveObject, handleDeleteObject.                          *)
(***************************************************************************)

\* An upsert: an id that was deleted may come back.
SaveObject(k, o) ==
    /\ ~ObjectExists(k, o)
    /\ objects' = [objects EXCEPT ![k] = @ \cup {o}]
    /\ UNCHANGED <<rows, up, saves, toggles, excused>>

\* DeleteObjectIfUnreferenced; otherwise the answer is 409 and nothing changes.
DeleteObject(k, o) ==
    /\ ObjectExists(k, o)
    /\ ~Referenced(k, o)
    /\ objects' = [objects EXCEPT ![k] = @ \ {o}]
    /\ saves' = {[q EXCEPT !.lost = @ \cup {s \in Slot : KindOf(q.of, s) = k /\ q.refs[s] = o}]
                    : q \in saves}
    /\ UNCHANGED <<rows, up, toggles, excused>>

-----------------------------------------------------------------------------
(***************************************************************************)
(* Consumers: handleSaveIpsec and handleSaveResource, and their deletion.  *)
(***************************************************************************)

BeginSave(id, c, refs, formUp) ==
    /\ FreeReq(id)
    /\ c \in Resource => ~formUp
    /\ saves' = saves \cup {[id |-> id, of |-> c, refs |-> refs, next |-> 1,
                             lost |-> {}, formUp |-> formUp]}
    /\ UNCHANGED <<db, toggles, excused>>

\* A reference that is not empty has to exist, or the save is refused.
Validate(q) ==
    /\ q.next \in Slot
    /\ IF q.refs[q.next] = NoRef \/ ObjectExists(KindOf(q.of, q.next), q.refs[q.next])
       THEN saves' = (saves \ {q}) \cup {[q EXCEPT !.next = @ + 1]}
       ELSE saves' = saves \ {q}
    /\ UNCHANGED <<db, toggles, excused>>

\* The upsert, of whatever table.
Put(q) ==
    /\ q.next = 3
    /\ rows' = [c \in Saved \cup {q.of} |-> IF c = q.of THEN q.refs ELSE rows[c]]
    /\ excused' = [excused EXCEPT ![q.of] = q.lost]
    /\ saves' = saves \ {q}
    /\ UNCHANGED <<objects, toggles>>

WriteResource(q) == q.of \in Resource /\ Put(q) /\ UNCHANGED up

\* A new row takes the status of the form, an old one keeps its own.
WriteSite(q) ==
    /\ q.of \in Site
    /\ Put(q)
    /\ up' = IF q.of \notin Saved /\ q.formUp THEN up \cup {q.of} ELSE up

\* The database fails, or the server stops.
SaveFails(q) == saves' = saves \ {q} /\ UNCHANGED <<db, toggles, excused>>

\* handleDeleteIpsec, handleDeleteResource.
DeleteConsumer(c) ==
    /\ c \in Saved
    /\ rows' = [e \in Saved \ {c} |-> rows[e]]
    /\ up' = up \ {c}
    /\ excused' = [excused EXCEPT ![c] = {}]
    /\ UNCHANGED <<objects, saves, toggles>>

-----------------------------------------------------------------------------
(***************************************************************************)
(* ToggleIpsecSite: the status is read and then written.                   *)
(***************************************************************************)

ReadStatus(id, c) ==
    /\ FreeReq(id)
    /\ c \in Saved
    /\ toggles' = toggles \cup {[id |-> id, of |-> c, wasUp |-> c \in up]}
    /\ UNCHANGED <<db, saves, excused>>

\* The site may be gone by now; nothing is written then.
WriteStatus(t) ==
    /\ up' = IF t.wasUp \/ t.of \notin Saved THEN up \ {t.of} ELSE up \cup {t.of}
    /\ toggles' = toggles \ {t}
    /\ UNCHANGED <<objects, rows, saves, excused>>

ToggleFails(t) == toggles' = toggles \ {t} /\ UNCHANGED <<db, saves, excused>>

Next ==
    \/ \E k \in Kind, o \in Object : SaveObject(k, o) \/ DeleteObject(k, o)
    \/ \E id \in Req, c \in Consumer, refs \in Refs, formUp \in BOOLEAN :
            BeginSave(id, c, refs, formUp)
    \/ \E q \in saves : Validate(q) \/ WriteResource(q) \/ WriteSite(q) \/ SaveFails(q)
    \/ \E c \in Consumer : DeleteConsumer(c)
    \/ \E id \in Req, c \in Site : ReadStatus(id, c)
    \/ \E t \in toggles : WriteStatus(t) \/ ToggleFails(t)

Spec == Init /\ [][Next]_vars

-----------------------------------------------------------------------------
(***************************************************************************)
(* What holds of references and tunnels.                                   *)
(***************************************************************************)

Dangling(c) == {s \in Slot : /\ rows[c][s] # NoRef
                             /\ ~ObjectExists(KindOf(c, s), rows[c][s])}

\* A reference dangles only if its object was deleted while the save that
\* wrote it was under way; no order of finished saves, edits, deletions and
\* objects that come back leaves one behind, not even after such a race.
\* (Every variable keeps its type, too.)
DanglesOnlyByRace ==
    /\ TypeOK
    /\ \A c \in Saved : Dangling(c) \subseteq excused[c]

\* The comment at sqlite_ext.go:38: the status of a tunnel belongs to the
\* toggle.  An edit from a form that was opened before a toggle does not
\* undo it: the status of a site that stays changes only as a toggle says.
StatusOnlyByToggle ==
    [][\A c \in Site \cap Saved :
          c \in DOMAIN rows' /\ (c \in up) # (c \in up')
              => \E t \in toggles \ toggles' : t.of = c /\ t.wasUp = (c \in up)]_vars

=============================================================================
