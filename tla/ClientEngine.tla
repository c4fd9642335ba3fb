---------------------------- MODULE ClientEngine ----------------------------
(***************************************************************************)
(* The client's data plane from Start to its end (dataplane.Run), shared   *)
(* by the desktop program and the mobile binding, and the knocks it sends. *)
(*                                                                         *)
(* Run knocks once, then waits for whichever comes first: the device is    *)
(* closed, or a knock was refused by the control plane.  A goroutine       *)
(* knocks again and again meanwhile.  What the engine does to the gateway  *)
(* (a knock that was sent) is left to the module that composes the two.    *)
(***************************************************************************)

VARIABLES
    control,    \* cfg.Control is set: knocks with tokens of the control plane
    run,        \* where Run is
    keep,       \* where the keep-alive goroutine is
    dev,        \* the TUN device is open
    inbound,    \* pumpInbound: "none", "reading", or "sent" (its error)
    deny,       \* a refusal is in the channel
    denyOnce,   \* a refusal was reported
    session,    \* the mobile Session: [stopped, reason]
    broke       \* someone else closed the device, or it failed

engineVars == <<control, run, keep, dev, inbound, deny, denyOnce, session, broke>>

EngineTypeOK ==
    /\ run \in {"knock", "select", "drain", "ended", "exited"}
    /\ keep \in {"none", "wait", "fetch", "gone"}
    /\ inbound \in {"none", "reading", "sent"}
    /\ {control, dev, deny, denyOnce, broke} \subseteq BOOLEAN
    /\ session \in [stopped : BOOLEAN, reason : {"none", "denied", "broken"}]

EngineInit ==
    /\ control \in BOOLEAN
    /\ run = "knock"
    /\ keep = "none"
    /\ dev = TRUE
    /\ inbound = "none"
    /\ deny = FALSE /\ denyOnce = FALSE
    /\ session = [stopped |-> FALSE, reason |-> "none"]
    /\ broke = FALSE

-----------------------------------------------------------------------------
(***************************************************************************)
(* Knocks.  FetchToken comes back with a token (the session token stands   *)
(* in for it when the request fails), or with the refusal of a 403: the    *)
(* control plane decides each time as it likes.                            *)
(***************************************************************************)

\* denyOnce: the channel takes one refusal and nobody ever waits for room.
Report ==
    /\ deny' = (deny \/ ~denyOnce)
    /\ denyOnce' = TRUE

\* Run knocks before anything else runs, and goes on to the pumps whatever
\* came of it.
Pumps ==
    /\ run = "knock"
    /\ run' = "select"
    /\ inbound' = "reading"
    /\ keep' = IF control THEN "wait" ELSE "gone"
    /\ UNCHANGED <<control, dev, session, broke>>

FirstRefused == control /\ Report /\ Pumps
FirstSent == control /\ Pumps /\ UNCHANGED <<deny, denyOnce>>
NoFirstKnock == ~control /\ Pumps /\ UNCHANGED <<deny, denyOnce>>

\* ctx is cancelled when Run leaves its select.
Cancelled == run \in {"drain", "ended"}

\* The ticker fires: also when ctx is done, select may pick either.
KeepTick ==
    /\ keep = "wait"
    /\ keep' = "fetch"
    /\ UNCHANGED <<control, run, dev, inbound, deny, denyOnce, session, broke>>

KeepStops ==
    /\ keep = "wait" /\ Cancelled
    /\ keep' = "gone"
    /\ UNCHANGED <<control, run, dev, inbound, deny, denyOnce, session, broke>>

KeepRefused ==
    /\ keep = "fetch"
    /\ Report
    /\ keep' = "wait"
    /\ UNCHANGED <<control, run, dev, inbound, session, broke>>

KeepSent ==
    /\ keep = "fetch"
    /\ keep' = "wait"
    /\ UNCHANGED <<control, run, dev, inbound, deny, denyOnce, session, broke>>

-----------------------------------------------------------------------------
(***************************************************************************)
(* The end.                                                                *)
(***************************************************************************)

\* pumpInbound returns the error of a read: the device was closed, or fails.
ReadFails ==
    /\ inbound = "reading"
    /\ inbound' = "sent"
    /\ broke' = (broke \/ dev)
    /\ UNCHANGED <<control, run, keep, dev, deny, denyOnce, session>>

\* markStopped: an error that is not the refusal is a broken tunnel.
MarkStopped(reason) == session' = [stopped |-> TRUE, reason |-> reason]

TakeInbound ==
    /\ run = "select" /\ inbound = "sent"
    /\ run' = "ended"
    /\ MarkStopped("broken")
    /\ UNCHANGED <<control, keep, dev, inbound, deny, denyOnce, broke>>

\* Slip: the refusal closes the device and leaves the rest to the reader.
TakeDenyAsBroken ==
    /\ run = "select" /\ deny
    /\ deny' = FALSE
    /\ dev' = FALSE
    /\ UNCHANGED <<control, run, keep, inbound, denyOnce, session, broke>>

TakeDeny ==
    /\ run = "select" /\ deny
    /\ deny' = FALSE
    /\ dev' = FALSE
    /\ run' = "drain"
    /\ UNCHANGED <<control, keep, inbound, denyOnce, session, broke>>

Drained ==
    /\ run = "drain" /\ inbound = "sent"
    /\ run' = "ended"
    /\ MarkStopped("denied")
    /\ UNCHANGED <<control, keep, dev, inbound, deny, denyOnce, broke>>

\* The desktop program ends with Run; on a phone the process lives on.
Exit ==
    /\ run = "ended"
    /\ run' = "exited"
    /\ keep' = "gone"
    /\ UNCHANGED <<control, dev, inbound, deny, denyOnce, session, broke>>

\* Session.Stop, or the system takes the device away: at any time.
Stop ==
    /\ dev
    /\ dev' = FALSE
    /\ broke' = TRUE
    /\ UNCHANGED <<control, run, keep, inbound, deny, denyOnce, session>>

\* Steps of the engine that send no knock.
EngineStep ==
    \/ FirstRefused \/ NoFirstKnock
    \/ KeepTick \/ KeepStops \/ KeepRefused
    \/ ReadFails \/ TakeInbound \/ TakeDeny \/ Drained
    \/ Stop

\* Steps that send one.
EngineKnock == FirstSent \/ KeepSent

-----------------------------------------------------------------------------

\* knock.go:24: a refusal ends the engine, and the user is told why.  Only a
\* device that was closed or broke at the same time may hide the reason, and
\* the keep-alive is over then as well.
RefusalIsShown ==
    denyOnce ~> /\ run \in {"ended", "exited"}
                /\ keep = "gone"
                /\ session.stopped
                /\ session.reason = "denied" \/ broke

=============================================================================
