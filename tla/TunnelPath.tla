----------------------------- MODULE TunnelPath -----------------------------
(***************************************************************************)
(* One captured flow from end to end: the client's tunnel() with its two   *)
(* copies, the connection to the gateway, and the gateway's handle() with  *)
(* the slot it takes, the preamble, the registry and the backend.  A       *)
(* connection has the name of its flow.                                    *)
(*                                                                         *)
(* How a handler and a forced offline race for the table of tunnels is the *)
(* subject of module Gateway; here the two looks at the window are one     *)
(* step, and KillUser is a socket closed under a handler.                  *)
(***************************************************************************)
EXTENDS Naturals, FiniteSets

CONSTANTS
    Flow,       \* captured flows
    Slots,      \* maxConcurrent
    Who,        \* whose window an address may hold: records [user, role]
    Me,         \* the client's own
    NoOne,      \* no window
    Resource,   \* resource ids
    NoResource, \* neither the map nor the default names one
    Default,    \* the default backend
    Policies    \* what the registry may hold: functions from a set of ids to
                \* records [backend, users, roles]

ASSUME PathAssumption ==
    /\ Slots \in Nat \ {0}
    /\ Me \in Who
    /\ NoOne \notin Who
    /\ NoResource \notin Resource
    /\ \A p \in Policies : DOMAIN p \subseteq Resource

VARIABLES
    reg,        \* Registry.byID
    window,     \* who the window of the client's address is for
    tun,        \* flow -> where tunnel() is
    want,       \* flow -> the resource id its destination is mapped to
    local,      \* flow -> the application's end: "none", "open", "ended"
    line,       \* flow -> what of the first bytes has reached the gateway
    copying,    \* flows whose upload goroutine runs
    cOpen,      \* connections the client has not closed
    gOpen,      \* connections the gateway has not closed
    h,          \* connection -> where handle() is
    as,         \* connection -> who the window was for, until the backend is dialled
    routed,     \* connection -> backend chosen and not dialled yet, or NoResource
    forwarding, \* connections whose goroutine to the backend runs
    bOpen,      \* connections whose backend end is open
    upWrite,    \* connections whose copy to the backend is in a write
    downWrite,  \* connections whose copy to the client is in a write
    late,       \* history: those nothing was read from in time
    could       \* history: backends a registry in force since the second look allowed

copyVars == <<upWrite, downWrite>>
clientVars == <<tun, want, local, line, copying, cOpen>>
handlerVars == <<h, as, routed, forwarding, bOpen, copyVars, late, could>>
pathVars == <<reg, window, clientVars, gOpen, handlerVars>>

\* A handler that holds a slot.
Running(c) == h[c] \notin {"none", "backlog"}

Backend == {Default} \cup UNION {{p[r].backend : r \in DOMAIN p} : p \in Policies}

PathTypeOK ==
    /\ reg \in Policies
    /\ window \in Who \cup {NoOne}
    /\ tun \in [Flow -> {"idle", "knock", "connect", "dial", "copy"}]
    /\ want \in [Flow -> Resource \cup {NoResource}]
    /\ local \in [Flow -> {"none", "open", "ended"}]
    /\ line \in [Flow -> {"none", "sent", "part", "full", "other"}]
    /\ {copying, cOpen, gOpen, forwarding, bOpen, upWrite, downWrite, late} \subseteq SUBSET Flow
    /\ h \in [Flow -> {"none", "backlog", "start", "handshake",
                       "preamble", "route", "dial", "relay"}]
    /\ as \in [Flow -> Who \cup {NoOne}]
    /\ routed \in [Flow -> Backend \cup {NoResource}]
    /\ could \in [Flow -> SUBSET Backend]

PathInit ==
    /\ reg \in Policies
    /\ window = NoOne
    /\ tun = [f \in Flow |-> "idle"]
    /\ want = [f \in Flow |-> NoResource]
    /\ local = [f \in Flow |-> "none"]
    /\ line = [f \in Flow |-> "none"]
    /\ copying = {} /\ cOpen = {} /\ gOpen = {}
    /\ h = [c \in Flow |-> "none"]
    /\ as = [c \in Flow |-> NoOne]
    /\ routed = [c \in Flow |-> NoResource]
    /\ forwarding = {} /\ bOpen = {} /\ late = {}
    /\ upWrite = {} /\ downWrite = {}
    /\ could = [c \in Flow |-> {}]

-----------------------------------------------------------------------------
(***************************************************************************)
(* The registry and the window.                                            *)
(***************************************************************************)

\* No list at all: everyone who has a window.
Authorize(w, res) ==
    \/ w.user \in res.users
    \/ w.role \in res.roles
    \/ res.users = {} /\ res.roles = {}

\* What registry p allows the holder of w under the id r: Lookup, then Authorize.
Allows(p, w, r) ==
    IF r \in DOMAIN p /\ Authorize(w, p[r]) THEN {p[r].backend} ELSE {}

\* The same, as the comment above Authorize has it.
Could(p, w, r) ==
    {p[x].backend : x \in {x \in DOMAIN p \cap {r} :
        p[x].users \cup p[x].roles # {} => w.user \in p[x].users \/ w.role \in p[x].roles}}

\* The poller puts a new registry in place while handlers read.
Replace(p) ==
    /\ p # reg
    /\ reg' = p
    /\ could' = [c \in Flow |-> IF h[c] \in {"handshake", "preamble", "route"}
                                THEN could[c] \cup Could(p, as[c], want[c])
                                ELSE could[c]]
    /\ UNCHANGED <<window, clientVars, gOpen, h, as, routed, forwarding, bOpen, copyVars, late>>

\* It runs out, is taken away, or a neighbour behind the same address knocks.
WindowMoves ==
    /\ window' \in (Who \ {Me}) \cup {NoOne}
    /\ window' # window
    /\ UNCHANGED <<reg, clientVars, gOpen, handlerVars>>

\* A knock of the client: lost, dropped, or it opens the window.
KnockArrives ==
    /\ window' \in {window, Me}
    /\ UNCHANGED <<reg, clientVars, gOpen, handlerVars>>

-----------------------------------------------------------------------------
(***************************************************************************)
(* The client's tunnel().                                                  *)
(***************************************************************************)

\* The application opens a connection into the protected network.
Capture(f, r, knocks) ==
    /\ tun[f] = "idle" /\ h[f] = "none"
    /\ f \notin copying \cup forwarding \cup bOpen
    /\ tun' = [tun EXCEPT ![f] = IF knocks THEN "knock" ELSE "connect"]
    /\ want' = [want EXCEPT ![f] = r]
    /\ local' = [local EXCEPT ![f] = "open"]
    /\ line' = [line EXCEPT ![f] = "none"]
    /\ UNCHANGED <<reg, window, copying, cOpen, gOpen, handlerVars>>

\* Without a control plane every flow knocks first, with the session token.
FlowKnock(f) ==
    /\ tun[f] = "knock"
    /\ tun' = [tun EXCEPT ![f] = "connect"]
    /\ window' \in {window, Me}
    /\ UNCHANGED <<reg, want, local, line, copying, cOpen, gOpen, handlerVars>>

\* The kernel of the gateway answers, whether the accept loop is busy or not.
Connect(f) ==
    /\ tun[f] = "connect"
    /\ tun' = [tun EXCEPT ![f] = "dial"]
    /\ h' = [h EXCEPT ![f] = "backlog"]
    /\ cOpen' = cOpen \cup {f}
    /\ gOpen' = gOpen \cup {f}
    /\ UNCHANGED <<reg, window, want, local, line, copying, as, routed,
                   forwarding, bOpen, copyVars, late, could>>

\* No answer, or the five seconds are over, or the gateway hung up.
DialFails(f) ==
    /\ tun[f] \in {"connect", "dial"}
    /\ tun' = [tun EXCEPT ![f] = "idle"]
    /\ local' = [local EXCEPT ![f] = "none"]
    /\ cOpen' = cOpen \ {f}
    /\ UNCHANGED <<reg, window, want, line, copying, gOpen, handlerVars>>

\* The network delivers the line, in one piece or two; without a line, what
\* the application says first (nothing of the form of a line).  What arrives
\* after readPreamble is the stream that the copy reads.
Arrive(f) ==
    /\ h[f] = "preamble"
    /\ \/ line[f] = "sent" /\ \E l \in {"part", "full"} : line' = [line EXCEPT ![f] = l]
       \/ line[f] = "part" /\ line' = [line EXCEPT ![f] = "full"]
       \/ /\ line[f] = "none" /\ want[f] = NoResource
          /\ f \in copying /\ local[f] = "open"
          /\ line' = [line EXCEPT ![f] = "other"]
    /\ UNCHANGED <<reg, window, tun, want, local, copying, cOpen, gOpen, handlerVars>>

\* The application closes its end.  Nobody tells the gateway.
HangUp(f) ==
    /\ local[f] = "open"
    /\ local' = [local EXCEPT ![f] = "ended"]
    /\ UNCHANGED <<reg, window, tun, want, line, copying, cOpen, gOpen, handlerVars>>

UploadEnds(f) ==
    /\ f \in copying
    /\ local[f] # "open" \/ f \notin cOpen \cap gOpen
    /\ copying' = copying \ {f}
    /\ UNCHANGED <<reg, window, tun, want, local, line, cOpen, gOpen, handlerVars>>

\* The gateway hung up, or what it sends has nobody left to go to.
DownloadEnds(f) ==
    /\ tun[f] = "copy"
    /\ f \notin gOpen \/ local[f] = "ended"
    /\ tun' = [tun EXCEPT ![f] = "idle"]
    /\ local' = [local EXCEPT ![f] = "none"]
    /\ cOpen' = cOpen \ {f}
    /\ UNCHANGED <<reg, window, want, line, copying, gOpen, handlerVars>>

\* The process ends and takes its sockets with it.
ClientDies ==
    /\ tun' = [f \in Flow |-> "idle"]
    /\ local' = [f \in Flow |-> "none"]
    /\ copying' = {}
    /\ cOpen' = {}
    /\ UNCHANGED <<reg, window, want, line, gOpen, handlerVars>>

-----------------------------------------------------------------------------
(***************************************************************************)
(* The gateway's accept loop and handle().                                 *)
(***************************************************************************)

\* The handler returns: its slot is free, the socket closed.
Return(c) ==
    /\ h' = [h EXCEPT ![c] = "none"]
    /\ gOpen' = gOpen \ {c}
    /\ as' = [as EXCEPT ![c] = NoOne]
    /\ routed' = [routed EXCEPT ![c] = NoResource]
    /\ late' = late \ {c}
    /\ could' = [could EXCEPT ![c] = {}]
    /\ downWrite' = downWrite \ {c}
    /\ UNCHANGED <<reg, window, clientVars, forwarding, bOpen, upWrite>>

\* The loop accepts a connection and has a slot for it.
Accept(c) ==
    /\ h[c] = "backlog"
    /\ Cardinality({d \in Flow : Running(d)}) < Slots
    /\ h' = [h EXCEPT ![c] = "start"]
    /\ UNCHANGED <<reg, window, clientVars, gOpen, as, routed, forwarding, bOpen, copyVars, late, could>>

Admit(c) ==
    /\ h[c] = "start" /\ window # NoOne
    /\ h' = [h EXCEPT ![c] = "handshake"]
    /\ as' = [as EXCEPT ![c] = window]
    /\ could' = [could EXCEPT ![c] = Could(reg, window, want[c])]
    /\ UNCHANGED <<reg, window, clientVars, gOpen, routed, forwarding, bOpen, copyVars, late>>

TurnAway(c) == h[c] = "start" /\ window = NoOne /\ Return(c)

\* Both ends are through; the client writes the line, if there is one to
\* write, and its copies begin.
Handshake(c) ==
    /\ h[c] = "handshake" /\ tun[c] = "dial"
    /\ c \in cOpen \cap gOpen
    /\ h' = [h EXCEPT ![c] = "preamble"]
    /\ tun' = [tun EXCEPT ![c] = "copy"]
    /\ line' = [line EXCEPT ![c] = IF want[c] = NoResource THEN "none" ELSE "sent"]
    /\ copying' = copying \cup {c}
    /\ UNCHANGED <<reg, window, want, local, cOpen, gOpen, as, routed, forwarding,
                   bOpen, copyVars, late, could>>

\* Its deadline passes, or one end is closed.
HandshakeFails(c) == h[c] = "handshake" /\ Return(c)

To(c, step, backend) ==
    /\ h' = [h EXCEPT ![c] = step]
    /\ routed' = [routed EXCEPT ![c] = backend]
    /\ UNCHANGED <<reg, window, clientVars, gOpen, as, forwarding, bOpen, copyVars, could>>

\* Slip: whatever is not a line within the budget has no line.
ReadPartAsOther(c) ==
    /\ h[c] = "preamble" /\ line[c] = "part"
    /\ To(c, "dial", Default) /\ UNCHANGED late

\* readPreamble: a whole line; something else; nothing at all until the budget
\* of three seconds is over or the socket is closed (a forced offline closes it
\* whatever has arrived); or a part of a line.
ReadLine(c) ==
    /\ h[c] = "preamble" /\ line[c] = "full"
    /\ To(c, "route", NoResource) /\ UNCHANGED late

ReadOther(c) ==
    /\ h[c] = "preamble" /\ line[c] = "other"
    /\ To(c, "dial", Default) /\ UNCHANGED late

ReadNothing(c) ==
    /\ h[c] = "preamble" /\ (line[c] \in {"none", "sent"} \/ c \notin gOpen)
    /\ To(c, "dial", Default)
    /\ late' = late \cup {c}

ReadPart(c) == h[c] = "preamble" /\ line[c] = "part" /\ Return(c)

\* Slip: the registry is asked about whoever has the window now.
RouteByWindow(c) ==
    /\ h[c] = "route" /\ window # NoOne
    /\ \E b \in Allows(reg, window, want[c]) : To(c, "dial", b)
    /\ UNCHANGED late

Route(c) ==
    /\ h[c] = "route"
    /\ \E b \in Allows(reg, as[c], want[c]) : To(c, "dial", b)
    /\ UNCHANGED late

RouteFails(c) ==
    /\ h[c] = "route"
    /\ Allows(reg, as[c], want[c]) = {}
    /\ Return(c)

\* From here on nothing asks whose flow it is.
DialBackend(c) ==
    /\ h[c] = "dial"
    /\ h' = [h EXCEPT ![c] = "relay"]
    /\ bOpen' = bOpen \cup {c}
    /\ forwarding' = forwarding \cup {c}
    /\ as' = [as EXCEPT ![c] = NoOne]
    /\ routed' = [routed EXCEPT ![c] = NoResource]
    /\ late' = late \ {c}
    /\ could' = [could EXCEPT ![c] = {}]
    /\ UNCHANGED <<reg, window, clientVars, gOpen, copyVars>>

BackendFails(c) == h[c] = "dial" /\ Return(c)

(* The two copies.  Each reads from one end and writes to the other; a read   *)
(* sees its own end go, a write the end it writes to, and no deadline cuts    *)
(* either short.  What is still read of an end that is closed was sent before,*)
(* and could have been read then: no read of data starts after the close.     *)

\* Both ends of the connection between client and gateway are open.
Linked(c) == c \in cOpen \cap gOpen

ForwardReads(c) ==
    /\ c \in forwarding \ upWrite /\ Linked(c)
    /\ upWrite' = upWrite \cup {c}
    /\ UNCHANGED <<reg, window, clientVars, gOpen, h, as, routed, forwarding, bOpen,
                   downWrite, late, could>>

\* The backend has taken what was written.
ForwardWritten(c) ==
    /\ c \in upWrite \cap bOpen
    /\ upWrite' = upWrite \ {c}
    /\ UNCHANGED <<reg, window, clientVars, gOpen, h, as, routed, forwarding, bOpen,
                   downWrite, late, could>>

RelayReads(c) ==
    /\ h[c] = "relay" /\ c \in bOpen \ downWrite
    /\ downWrite' = downWrite \cup {c}
    /\ UNCHANGED <<reg, window, clientVars, gOpen, h, as, routed, forwarding, bOpen,
                   upWrite, late, could>>

\* The client has taken what was written.
RelayWritten(c) ==
    /\ c \in downWrite /\ Linked(c)
    /\ downWrite' = downWrite \ {c}
    /\ UNCHANGED <<reg, window, clientVars, gOpen, h, as, routed, forwarding, bOpen,
                   upWrite, late, could>>

ForwardSeesEnd(c) ==
    /\ c \in forwarding
    /\ IF c \in upWrite THEN c \notin bOpen ELSE ~Linked(c)

\* Slip: the backend's end is left to the other copy.
ForwardEndsOnly(c) ==
    /\ ForwardSeesEnd(c)
    /\ forwarding' = forwarding \ {c}
    /\ upWrite' = upWrite \ {c}
    /\ UNCHANGED <<reg, window, clientVars, gOpen, bOpen, h, as, routed, downWrite, late, could>>

\* The copy to the backend ends, and closes the backend's end.
ForwardEnds(c) ==
    /\ ForwardSeesEnd(c)
    /\ forwarding' = forwarding \ {c}
    /\ bOpen' = bOpen \ {c}
    /\ upWrite' = upWrite \ {c}
    /\ UNCHANGED <<reg, window, clientVars, gOpen, h, as, routed, downWrite, late, could>>

\* The copy to the client ends, and the handler.
RelayEnds(c) ==
    /\ h[c] = "relay"
    /\ IF c \in downWrite THEN ~Linked(c) ELSE c \notin bOpen
    /\ Return(c)

\* A forced offline closes the socket; the handler goes on until it notices.
KillUser(c) ==
    /\ h[c] \in {"handshake", "preamble", "route", "dial", "relay"}
    /\ c \in gOpen
    /\ gOpen' = gOpen \ {c}
    /\ UNCHANGED <<reg, window, clientVars, handlerVars>>

BackendCloses(c) ==
    /\ c \in bOpen
    /\ bOpen' = bOpen \ {c}
    /\ UNCHANGED <<reg, window, clientVars, gOpen, h, as, routed, forwarding, copyVars, late, could>>

-----------------------------------------------------------------------------

ClientStep(f) ==
    \/ FlowKnock(f) \/ Connect(f) \/ DialFails(f)
    \/ UploadEnds(f) \/ DownloadEnds(f)

HandlerStep(c) ==
    \/ Accept(c) \/ Admit(c) \/ TurnAway(c)
    \/ Handshake(c) \/ HandshakeFails(c)
    \/ ReadLine(c) \/ ReadOther(c) \/ ReadNothing(c) \/ ReadPart(c)
    \/ Route(c) \/ RouteFails(c) \/ DialBackend(c) \/ BackendFails(c)
    \/ RelayEnds(c)

PathStep(f) ==
    \/ ClientStep(f)
    \/ Arrive(f) \/ HangUp(f)
    \/ HandlerStep(f) \/ ForwardEnds(f)
    \/ ForwardReads(f) \/ ForwardWritten(f) \/ RelayReads(f) \/ RelayWritten(f)
    \/ KillUser(f) \/ BackendCloses(f)

\* The path by itself: flows are captured at any time.
PathNext ==
    \/ \E f \in Flow : PathStep(f)
    \/ \E f \in Flow, r \in Resource \cup {NoResource}, knocks \in BOOLEAN : Capture(f, r, knocks)
    \/ \E p \in Policies : Replace(p)
    \/ WindowMoves \/ KnockArrives \/ ClientDies

\* Up to the relay every wait of a handler has a deadline; a copy goes on once
\* what it waits for has come or its end has gone.  Nothing is assumed of the
\* client and the backend: neither has to send, or to take what is written.
PathFairness ==
    \A c \in Flow :
        /\ WF_pathVars(h[c] # "backlog" /\ HandlerStep(c))
        /\ WF_pathVars(ForwardEnds(c))

-----------------------------------------------------------------------------

\* The backend a handler dials is one that the id its flow asked for is mapped to, in
\* a registry in force since the second look that lets the user of that look go
\* there (registry.go:81), whoever has the window now; or the default, for a
\* flow that asked for no resource or of whose line nothing was read in time.
Routed ==
    \A c \in Flow : h[c] = "dial" =>
        \/ routed[c] \in could[c]
        \/ routed[c] = Default /\ (want[c] = NoResource \/ c \in late)

EndGone(c) == ~Linked(c) \/ (h[c] = "relay" /\ c \notin bOpen)

\* The backend is there and does not take what the copy writes; the same of
\* the client.  Neither write has a deadline (proxy.go:195-196).
ForwardStuck(c) == c \in upWrite \cap bOpen
RelayStuck(c) == c \in downWrite /\ Linked(c)

\* Whichever end of a connection goes first (the client, a forced offline, the
\* backend), at whatever point of the set-up or of the copies: handle() returns,
\* which frees its slot, and the backend's end is closed, unless the end that is
\* left never again takes what a copy writes to it (then a forced offline does
\* not end it either, though the comment at proxy.go:65 says so).
EveryEndCloses ==
    \A c \in Flow :
        \/ <>[]ForwardStuck(c) \/ <>[]RelayStuck(c)
        \/ (Running(c) /\ EndGone(c)) ~> (h[c] = "none" /\ c \notin bOpen)

=============================================================================
