---------------------------- MODULE ClientTunnel ----------------------------
(***************************************************************************)
(* The client's engine and the path of its flows through the gateway.  The *)
(* engine's knocks open the window of the client's address; flows are      *)
(* captured while its pumps run, live on when a mobile engine ends, and    *)
(* die with the desktop program.                                           *)
(***************************************************************************)
EXTENDS ClientEngine, TunnelPath

tunnelVars == <<engineVars, pathVars>>

TunnelTypeOK == EngineTypeOK /\ PathTypeOK

TunnelInit == EngineInit /\ PathInit

\* A knock that was sent, over UDP.
SendKnock == EngineKnock /\ KnockArrives

\* pumpInbound feeds the network stack, whose forwarder starts tunnel().
Forward(f, r) ==
    /\ inbound = "reading" /\ dev
    /\ Capture(f, r, ~control)
    /\ UNCHANGED engineVars

ExitClient == Exit /\ ClientDies

TunnelNext ==
    \/ EngineStep /\ UNCHANGED pathVars
    \/ SendKnock
    \/ ExitClient
    \/ /\ \/ \E f \in Flow : PathStep(f)
          \/ \E p \in Policies : Replace(p)
          \/ WindowMoves
       /\ UNCHANGED engineVars
    \/ \E f \in Flow, r \in Resource \cup {NoResource} : Forward(f, r)

TunnelSpec == TunnelInit /\ [][TunnelNext]_tunnelVars

Answered ==
    \/ (FirstRefused \/ NoFirstKnock \/ KeepRefused) /\ UNCHANGED pathVars
    \/ SendKnock

\* An answer or a failure comes back from the control plane, the engine's
\* goroutines go on, and select takes every branch that stays ready in turn.
EngineFairness ==
    /\ WF_tunnelVars(Answered)
    /\ WF_tunnelVars((TakeInbound \/ TakeDeny \/ Drained) /\ UNCHANGED pathVars)
    /\ WF_tunnelVars(~dev /\ ReadFails /\ UNCHANGED pathVars)
    /\ SF_tunnelVars(KeepStops /\ UNCHANGED pathVars)

FairTunnelSpec == TunnelSpec /\ EngineFairness /\ PathFairness

-----------------------------------------------------------------------------

\* A flow ends up at the backend its destination is mapped to, in a registry
\* that was in force while its handler ran and that allows it to whoever the
\* window was for; at the default backend only if no resource was asked for,
\* or not a byte of the line was read in time (proxy.go:162: never after a
\* part of it).  (And every variable keeps its type.)
RoutedAsMapped == TunnelTypeOK /\ Routed

=============================================================================
