---------------------------- MODULE GatewayProofs ----------------------------
(***************************************************************************)
(* Proofs about Gateway for every set of accounts, addresses and           *)
(* connections, every window length and every bound.                       *)
(***************************************************************************)
EXTENDS Gateway, TLAPS

(***************************************************************************)
(* Types.                                                                  *)
(***************************************************************************)

LEMMA InitType == Init => TypeOK
<1> SUFFICES ASSUME Init PROVE TypeOK
  OBVIOUS
<1>1. now \in 0 .. MaxNow /\ crashes \in 0 .. MaxCrash
  BY GatewayAssumption DEF GatewayAssumption, Init
<1>2. /\ deny \in [User -> Nat]
      /\ applied \in [Account -> Nat]
  BY DEF Init, AlInit
<1>3. /\ pc \in [Conn -> {"idle", "admitted", "tracked", "setup", "relay", "leaving"}]
      /\ owner \in [Conn -> Account \cup {NoAccount}]
      /\ open \in [Conn -> BOOLEAN]
      /\ \A c \in Conn : pc[c] # "idle" => owner[c] \in Account
  BY DEF Init
<1> QED BY <1>1, <1>2, <1>3 DEF Init, AlInit, TypeOK

LEMMA StepType == TypeOK /\ [Next]_vars => TypeOK'
<1> SUFFICES ASSUME TypeOK, [Next]_vars PROVE TypeOK'
  OBVIOUS
<1> USE AllowlistAssumption, GatewayAssumption
    DEF AllowlistAssumption, GatewayAssumption, TypeOK, alVars, pollVars,
        connVars
<1>1. ASSUME NEW a \in Account, NEW ip \in IP, Knock(a, ip) PROVE TypeOK'
  <2>1. [ip |-> ip, user |-> a, until |-> now + TTL] \in Entry
    BY DEF Entry
  <2>2. m' \subseteq Entry
    BY <1>1, <2>1 DEF Knock, Allow
  <2> QED BY <1>1, <2>2 DEF Knock, Allow
<1>2. CASE ReapWindows
  BY <1>2 DEF ReapWindows, Reap
<1>3. ASSUME NEW c \in Conn, Handler(c) PROVE TypeOK'
  <2>1. CASE Admit(c)
    <3>1. PICK e \in m : owner' = [owner EXCEPT ![c] = e.user]
      BY <2>1 DEF Admit, Allowed
    <3>2. e.user \in Account
      BY DEF Entry
    <3> QED BY <2>1, <3>1, <3>2 DEF Admit
  <2>2. CASE Track(c)
    BY <2>2 DEF Track
  <2>3. CASE Recheck(c)
    BY <2>3 DEF Recheck
  <2>4. CASE RecheckFails(c)
    BY <2>4 DEF RecheckFails
  <2>5. CASE Establish(c)
    BY <2>5 DEF Establish
  <2>6. CASE Leave(c)
    BY <2>6 DEF Leave
  <2>7. CASE Untrack(c)
    BY <2>7 DEF Untrack
  <2> QED BY <1>3, <2>1, <2>2, <2>3, <2>4, <2>5, <2>6, <2>7 DEF Handler
<1>4. CASE Poller
  <2>1. CASE PullPolicy
    BY <2>1 DEF PullPolicy
  <2>2. CASE ServeBlind
    BY <2>2 DEF ServeBlind
  <2>3. ASSUME NEW b \in todo, SkipApplied(b) PROVE TypeOK'
    BY <2>3 DEF SkipApplied
  <2>4. ASSUME NEW b \in todo, ApplyDeny(b) PROVE TypeOK'
    <3>1. b.user \in Account /\ b.until \in Nat
      BY DEF RevokedBan
    <3>2. deny' \in [User -> Nat]
      BY <2>4, <3>1 DEF ApplyDeny, DenyUser
    <3> QED BY <2>4, <3>1, <3>2 DEF ApplyDeny
  <2>5. CASE ApplyRevoke
    BY <2>5 DEF ApplyRevoke, RevokeUser
  <2>6. CASE ApplyKill
    BY <2>6 DEF ApplyKill
  <2>7. ASSUME NEW c \in closing, CloseTaken(c) PROVE TypeOK'
    BY <2>7 DEF CloseTaken
  <2>8. CASE KillDone
    BY <2>8 DEF KillDone
  <2>9. CASE ApplyDone
    BY <2>9 DEF ApplyDone
  <2> QED BY <1>4, <2>1, <2>2, <2>3, <2>4, <2>5, <2>6, <2>7, <2>8, <2>9 DEF Poller
<1>5. ASSUME NEW a \in Account, Ban(a) PROVE TypeOK'
  <2>1. PICK d \in BanSpan : policy' = {b \in policy : NormUser[b.user] # NormUser[a]}
                       \cup {[user |-> a, until |-> now + d]}
    BY <1>5 DEF Ban
  <2>2. policy' \subseteq RevokedBan
    BY <2>1 DEF RevokedBan
  <2> QED BY <1>5, <2>2 DEF Ban
<1>6. ASSUME NEW b \in policy, Lift(b) PROVE TypeOK'
  BY <1>6 DEF Lift
<1>7. CASE Tick
  BY <1>7 DEF Tick
<1>8. CASE Crash
  <2>1. now' \in 0 .. MaxNow /\ crashes' \in 0 .. MaxCrash
    BY <1>8 DEF Crash
  <2>2. /\ deny' \in [User -> Nat]
        /\ applied' \in [Account -> Nat]
    BY <1>8 DEF Crash
  <2>3. /\ pc' \in [Conn -> {"idle", "admitted", "tracked", "setup", "relay", "leaving"}]
        /\ owner' \in [Conn -> Account \cup {NoAccount}]
        /\ open' \in [Conn -> BOOLEAN]
        /\ \A c \in Conn : pc'[c] # "idle" => owner'[c] \in Account
    BY <1>8 DEF Crash
  <2> QED BY <1>8, <2>1, <2>2, <2>3 DEF Crash
<1>9. CASE UNCHANGED vars
  BY <1>9 DEF vars
<1> QED BY <1>1, <1>2, <1>3, <1>4, <1>5, <1>6, <1>7, <1>8, <1>9 DEF Next

\* Every variable keeps its type; the poller has an account in hand while it
\* disposes of one, and a busy handler has read an account from a window.
THEOREM TypeCorrect == Spec => []TypeOK
  BY InitType, StepType, PTL DEF Spec

-----------------------------------------------------------------------------
(***************************************************************************)
(* Bans and windows.  DenyUser makes the ban visible before RevokeUser     *)
(* removes the windows, and Allow looks at the ban under the lock it       *)
(* writes the window under: no step in between can add one.                *)
(***************************************************************************)

\* The steps that touch neither the allow list nor the poller.
LEMMA HandlerKeepsBans ==
  ASSUME NEW c, Handler(c)
  PROVE  UNCHANGED <<now, m, deny, rv, todo, applied, pollPc, cur, closing>>
  BY DEF Handler, Admit, Track, Recheck, RecheckFails, Establish, Leave,
         Untrack, alVars, pollVars

LEMMA InitBans == Init => BanInv
  BY AllowlistAssumption
  DEF AllowlistAssumption, Init, AlInit, BanInv, AppliedIsDenied,
      NoWindowWhileDenied, PassedAreApplied, Denied, HasWindow

LEMMA StepBans == TypeOK /\ BanInv /\ [Next]_vars => BanInv'
<1> SUFFICES ASSUME TypeOK, BanInv, [Next]_vars PROVE BanInv'
  OBVIOUS
<1> USE AllowlistAssumption
    DEF AllowlistAssumption, TypeOK, alVars, pollVars, connVars,
        BanInv, AppliedIsDenied, NoWindowWhileDenied, PassedAreApplied,
        Denied, HasWindow, Live, Revoking, Entry, RevokedBan
<1>1. ASSUME NEW a \in Account, NEW ip \in IP, Knock(a, ip) PROVE BanInv'
  <2> DEFINE k == NormUser[a]
  <2>1. ~Denied(k) /\ k \in User
    BY <1>1 DEF Knock, Allow
  <2>2. deny' = [deny EXCEPT ![k] = 0]
    BY <1>1 DEF Knock, Allow
  <2>3. UNCHANGED <<now, rv, todo, applied, pollPc, cur>>
    BY <1>1 DEF Knock
  <2>4. \A e \in m' : e \in m \/ NormUser[e.user] = k
    BY <1>1 DEF Knock, Allow
  <2>5. AppliedIsDenied'
    BY <2>1, <2>2, <2>3
  <2>6. NoWindowWhileDenied'
    BY <2>1, <2>2, <2>3, <2>4
  <2> QED BY <2>3, <2>5, <2>6
<1>2. CASE ReapWindows
  BY <1>2 DEF ReapWindows, Reap
<1>3. ASSUME NEW c \in Conn, Handler(c) PROVE BanInv'
  BY <1>3, HandlerKeepsBans
<1>4. CASE Poller
  <2>1. CASE PullPolicy
    BY <2>1 DEF PullPolicy
  <2>2. CASE ServeBlind
    BY <2>2 DEF ServeBlind
  <2>3. ASSUME NEW b \in todo, SkipApplied(b) PROVE BanInv'
    BY <2>3 DEF SkipApplied
  <2>4. ASSUME NEW b \in todo, ApplyDeny(b) PROVE BanInv'
    <3> DEFINE k == NormUser[b.user]
    <3>1. b.user \in Account /\ b.until \in Nat /\ k \in User
      OBVIOUS
    <3>2. /\ UNCHANGED <<now, m, rv>>
          /\ pollPc = "apply" /\ pollPc' = "revoke" /\ cur' = b.user
          /\ todo' = todo \ {b}
          /\ applied[b.user] < b.until
          /\ applied' = [applied EXCEPT ![b.user] = b.until]
      BY <2>4 DEF ApplyDeny
    <3>3. deny' = IF now < b.until /\ deny[k] < b.until
                  THEN [deny EXCEPT ![k] = b.until] ELSE deny
      BY <2>4 DEF ApplyDeny, DenyUser
    <3>4. AppliedIsDenied'
      BY <3>1, <3>2, <3>3
    <3>5. NoWindowWhileDenied'
      <4> SUFFICES ASSUME NEW u \in User, u # k, Denied(u)', HasWindow(u)'
                   PROVE  FALSE
        BY <3>1, <3>2
      <4> QED BY <3>1, <3>2, <3>3
    <3>6. PassedAreApplied'
      BY <3>1, <3>2
    <3> QED BY <3>4, <3>5, <3>6
  <2>5. CASE ApplyRevoke
    BY <2>5 DEF ApplyRevoke, RevokeUser
  <2>6. CASE ApplyKill
    BY <2>6 DEF ApplyKill
  <2>7. ASSUME NEW c \in closing, CloseTaken(c) PROVE BanInv'
    BY <2>7 DEF CloseTaken
  <2>8. CASE KillDone
    BY <2>8 DEF KillDone
  <2>9. CASE ApplyDone
    BY <2>9 DEF ApplyDone
  <2> QED BY <1>4, <2>1, <2>2, <2>3, <2>4, <2>5, <2>6, <2>7, <2>8, <2>9 DEF Poller
<1>5. ASSUME NEW a \in Account, Ban(a) PROVE BanInv'
  BY <1>5 DEF Ban
<1>6. ASSUME NEW b \in policy, Lift(b) PROVE BanInv'
  BY <1>6 DEF Lift
<1>7. CASE Tick
  BY <1>7 DEF Tick
<1>8. CASE Crash
  BY <1>8 DEF Crash
<1>9. CASE UNCHANGED vars
  BY <1>9 DEF vars
<1> QED BY <1>1, <1>2, <1>3, <1>4, <1>5, <1>6, <1>7, <1>8, <1>9 DEF Next

LEMMA BansCorrect == Spec => []BanInv
  BY InitBans, StepBans, TypeCorrect, PTL DEF Spec

\* While a ban is in force its user has no live window, unless the poller is
\* between the DenyUser and the RevokeUser of that ban (spa.Allow).
THEOREM NoWindowTheorem == Spec => []NoWindowWhileDenied
<1>1. BanInv => NoWindowWhileDenied
  BY DEF BanInv
<1> QED BY <1>1, BansCorrect, PTL

\* A deadline the poller remembers as applied is covered by the deny map for
\* as long as it runs, whatever spellings the lists used.
THEOREM AppliedTheorem == Spec => []AppliedIsDenied
<1>1. BanInv => AppliedIsDenied
  BY DEF BanInv
<1> QED BY <1>1, BansCorrect, PTL

-----------------------------------------------------------------------------
(***************************************************************************)
(* The table of tunnels, with or without shared addresses.                 *)
(***************************************************************************)

LEMMA InitTable == Init => TableInv
  BY DEF Init, TableInv, Killable, TableIsCurrent, ClosingInClose

LEMMA StepTable == TypeOK /\ TableInv /\ [Next]_vars => TableInv'
<1> SUFFICES ASSUME TypeOK, TableInv, [Next]_vars PROVE TableInv'
  OBVIOUS
<1> USE AllowlistAssumption, GatewayAssumption
    DEF AllowlistAssumption, GatewayAssumption, TypeOK, alVars, pollVars,
        connVars, TableInv, Killable, TableIsCurrent, ClosingInClose
<1>1. ASSUME NEW a \in Account, NEW ip \in IP, Knock(a, ip) PROVE TableInv'
  BY <1>1 DEF Knock
<1>2. CASE ReapWindows
  BY <1>2 DEF ReapWindows
<1>3. ASSUME NEW c \in Conn, Handler(c) PROVE TableInv'
  <2>1. CASE Admit(c)
    BY <2>1 DEF Admit
  <2>2. CASE Track(c)
    BY <2>2 DEF Track
  <2>3. CASE Recheck(c)
    BY <2>3 DEF Recheck
  <2>4. CASE RecheckFails(c)
    BY <2>4 DEF RecheckFails
  <2>5. CASE Establish(c)
    BY <2>5 DEF Establish
  <2>6. CASE Leave(c)
    BY <2>6 DEF Leave
  <2>7. CASE Untrack(c)
    BY <2>7 DEF Untrack
  <2> QED BY <1>3, <2>1, <2>2, <2>3, <2>4, <2>5, <2>6, <2>7 DEF Handler
<1>4. CASE Poller
  <2>1. CASE PullPolicy
    BY <2>1 DEF PullPolicy
  <2>2. CASE ServeBlind
    BY <2>2 DEF ServeBlind
  <2>3. ASSUME NEW b \in todo, SkipApplied(b) PROVE TableInv'
    BY <2>3 DEF SkipApplied
  <2>4. ASSUME NEW b \in todo, ApplyDeny(b) PROVE TableInv'
    BY <2>4 DEF ApplyDeny
  <2>5. CASE ApplyRevoke
    BY <2>5 DEF ApplyRevoke
  <2>6. CASE ApplyKill
    BY <2>6 DEF ApplyKill
  <2>7. ASSUME NEW c \in closing, CloseTaken(c) PROVE TableInv'
    BY <2>7 DEF CloseTaken
  <2>8. CASE KillDone
    BY <2>8 DEF KillDone
  <2>9. CASE ApplyDone
    BY <2>9 DEF ApplyDone
  <2> QED BY <1>4, <2>1, <2>2, <2>3, <2>4, <2>5, <2>6, <2>7, <2>8, <2>9 DEF Poller
<1>5. ASSUME NEW a \in Account, Ban(a) PROVE TableInv'
  BY <1>5 DEF Ban
<1>6. ASSUME NEW b \in policy, Lift(b) PROVE TableInv'
  BY <1>6 DEF Lift
<1>7. CASE Tick
  BY <1>7 DEF Tick
<1>8. CASE Crash
  BY <1>8 DEF Crash
<1>9. CASE UNCHANGED vars
  BY <1>9 DEF vars
<1> QED BY <1>1, <1>2, <1>3, <1>4, <1>5, <1>6, <1>7, <1>8, <1>9 DEF Next

LEMMA TableCorrect == Spec => []TableInv
  BY InitTable, StepTable, TypeCorrect, PTL DEF Spec

\* A tracked connection stays within reach of KillUser until its socket is
\* closed, also when its handler and the kill of another user interleave.
THEOREM KillableTheorem == Spec => []Killable
<1>1. TableInv => Killable
  BY DEF TableInv
<1> QED BY <1>1, TableCorrect, PTL

\* The table holds only connections of running handlers, under their owner.
THEOREM TableTheorem == Spec => []TableIsCurrent
<1>1. TableInv => TableIsCurrent
  BY DEF TableInv
<1> QED BY <1>1, TableCorrect, PTL

-----------------------------------------------------------------------------
(***************************************************************************)
(* Addresses that no two users share.  Then the live window the second     *)
(* look finds is the user's own, and a denied user has none.               *)
(***************************************************************************)

LEMMA InitHome == Init => FromHome
  BY DEF Init, AlInit, FromHome

LEMMA StepHome == TypeOK /\ FromHome /\ [Next]_vars => FromHome'
<1> SUFFICES ASSUME TypeOK, FromHome, [Next]_vars PROVE FromHome'
  OBVIOUS
<1> USE DEF TypeOK, alVars, pollVars, connVars, FromHome, Entry
<1>1. ASSUME NEW a \in Account, NEW ip \in IP, Knock(a, ip) PROVE FromHome'
  <2>1. \A e \in m' : e \in m \/ (e.user = a /\ e.ip = ip)
    BY <1>1 DEF Knock, Allow
  <2> QED BY <1>1, <2>1 DEF Knock
<1>2. CASE ReapWindows
  BY <1>2 DEF ReapWindows, Reap
<1>3. ASSUME NEW c \in Conn, Handler(c) PROVE FromHome'
  <2>1. CASE Admit(c)
    <3>1. PICK e \in m : e.ip = Src[c] /\ owner' = [owner EXCEPT ![c] = e.user]
      BY <2>1 DEF Admit, Allowed
    <3> QED BY <2>1, <3>1 DEF Admit
  <2>2. CASE Track(c)
    BY <2>2 DEF Track
  <2>3. CASE Recheck(c)
    BY <2>3 DEF Recheck
  <2>4. CASE RecheckFails(c)
    BY <2>4 DEF RecheckFails
  <2>5. CASE Establish(c)
    BY <2>5 DEF Establish
  <2>6. CASE Leave(c)
    BY <2>6 DEF Leave
  <2>7. CASE Untrack(c)
    BY <2>7 DEF Untrack
  <2> QED BY <1>3, <2>1, <2>2, <2>3, <2>4, <2>5, <2>6, <2>7 DEF Handler
<1>4. CASE Poller
  <2>1. m' \subseteq m /\ UNCHANGED <<pc, owner>>
    BY <1>4 DEF Poller, PullPolicy, ServeBlind, SkipApplied, ApplyDeny,
                ApplyRevoke, RevokeUser, ApplyKill, CloseTaken, KillDone,
                ApplyDone
  <2> QED BY <2>1
<1>5. ASSUME NEW a \in Account, Ban(a) PROVE FromHome'
  BY <1>5 DEF Ban
<1>6. ASSUME NEW b \in policy, Lift(b) PROVE FromHome'
  BY <1>6 DEF Lift
<1>7. CASE Tick
  BY <1>7 DEF Tick
<1>8. CASE Crash
  BY <1>8 DEF Crash
<1>9. CASE UNCHANGED vars
  BY <1>9 DEF vars
<1> QED BY <1>1, <1>2, <1>3, <1>4, <1>5, <1>6, <1>7, <1>8, <1>9 DEF Next

\* With exclusive addresses the window found from a connection's address is
\* one of the connection's own user.
LEMMA OwnWindow ==
  ASSUME ExclusiveAddresses, TypeOK, FromHome,
         NEW c \in Conn, pc[c] # "idle", NEW e \in Allowed(Src[c])
  PROVE  e \in m /\ Live(e) /\ NormUser[e.user] = NormUser[owner[c]]
<1>1. e \in m /\ Live(e) /\ e.ip = Src[c]
  BY DEF Allowed
<1>2. <<e.user, e.ip>> \in MayKnock /\ <<owner[c], Src[c]>> \in MayKnock
  BY <1>1 DEF FromHome
<1> QED BY <1>1, <1>2 DEF ExclusiveAddresses

LEMMA InitDoomed == Init => DeniedTunnelsDoomed
  BY DEF Init, DeniedTunnelsDoomed, Carries

LEMMA StepDoomed ==
  ASSUME ExclusiveAddresses
  PROVE  IInv /\ [Next]_vars => DeniedTunnelsDoomed'
<1> SUFFICES ASSUME IInv, [Next]_vars PROVE DeniedTunnelsDoomed'
  OBVIOUS
<1> USE AllowlistAssumption
    DEF AllowlistAssumption, IInv, TypeOK, alVars, pollVars, connVars,
        DeniedTunnelsDoomed, Carries, Denied
<1>1. ASSUME NEW a \in Account, NEW ip \in IP, Knock(a, ip)
      PROVE  DeniedTunnelsDoomed'
  BY <1>1 DEF Knock, Allow
<1>2. CASE ReapWindows
  BY <1>2 DEF ReapWindows
<1>3. ASSUME NEW c \in Conn, Handler(c) PROVE DeniedTunnelsDoomed'
  <2>1. CASE Admit(c)
    BY <2>1 DEF Admit
  <2>2. CASE Track(c)
    BY <2>2 DEF Track
  <2>3. CASE Recheck(c)
    <3>1. PICK e \in Allowed(Src[c]) : TRUE
      BY <2>3 DEF Recheck
    <3>2. e \in m /\ Live(e) /\ NormUser[e.user] = NormUser[owner[c]]
      BY <2>3, <3>1, OwnWindow DEF Recheck
    <3>3. NormUser[owner[c]] \in User
      BY <2>3 DEF Recheck
    <3>4. Denied(NormUser[owner[c]]) => Revoking(NormUser[owner[c]])
      BY <3>2, <3>3 DEF BanInv, NoWindowWhileDenied, HasWindow
    <3> QED BY <2>3, <3>4 DEF Recheck, Revoking
  <2>4. CASE RecheckFails(c)
    BY <2>4 DEF RecheckFails
  <2>5. CASE Establish(c)
    BY <2>5 DEF Establish
  <2>6. CASE Leave(c)
    BY <2>6 DEF Leave
  <2>7. CASE Untrack(c)
    BY <2>7 DEF Untrack
  <2> QED BY <1>3, <2>1, <2>2, <2>3, <2>4, <2>5, <2>6, <2>7 DEF Handler
<1>4. CASE Poller
  <2>1. CASE PullPolicy
    BY <2>1 DEF PullPolicy
  <2>2. CASE ServeBlind
    BY <2>2 DEF ServeBlind
  <2>3. ASSUME NEW b \in todo, SkipApplied(b) PROVE DeniedTunnelsDoomed'
    BY <2>3 DEF SkipApplied
  <2>4. ASSUME NEW b \in todo, ApplyDeny(b) PROVE DeniedTunnelsDoomed'
    <3>1. \A u \in User : deny'[u] = deny[u] \/ u = NormUser[b.user]
      BY <2>4 DEF ApplyDeny, DenyUser
    <3> QED BY <2>4, <3>1 DEF ApplyDeny
  <2>5. CASE ApplyRevoke
    BY <2>5 DEF ApplyRevoke
  <2>6. CASE ApplyKill
    BY <2>6 DEF ApplyKill, TableInv, Killable, ClosingInClose
  <2>7. ASSUME NEW c \in closing, CloseTaken(c) PROVE DeniedTunnelsDoomed'
    BY <2>7 DEF CloseTaken
  <2>8. CASE KillDone
    BY <2>8 DEF KillDone
  <2>9. CASE ApplyDone
    BY <2>9 DEF ApplyDone
  <2> QED BY <1>4, <2>1, <2>2, <2>3, <2>4, <2>5, <2>6, <2>7, <2>8, <2>9 DEF Poller
<1>5. ASSUME NEW a \in Account, Ban(a) PROVE DeniedTunnelsDoomed'
  BY <1>5 DEF Ban
<1>6. ASSUME NEW b \in policy, Lift(b) PROVE DeniedTunnelsDoomed'
  BY <1>6 DEF Lift
<1>7. CASE Tick
  BY <1>7 DEF Tick
<1>8. CASE Crash
  BY <1>8 DEF Crash
<1>9. CASE UNCHANGED vars
  BY <1>9 DEF vars
<1> QED BY <1>1, <1>2, <1>3, <1>4, <1>5, <1>6, <1>7, <1>8, <1>9 DEF Next

LEMMA IInvCorrect == ASSUME ExclusiveAddresses PROVE Spec => []IInv
<1>1. Init => IInv
  BY InitType, InitBans, InitTable, InitHome, InitDoomed DEF IInv
<1>2. IInv /\ [Next]_vars => IInv'
  BY StepType, StepBans, StepTable, StepHome, StepDoomed DEF IInv
<1> QED BY <1>1, <1>2, PTL DEF Spec

\* Without a NAT the claim of proxy.go:139 holds: once a ban has been dealt
\* with, no tunnel of its user is left, however the handlers interleave.
THEOREM NoTunnelTheorem ==
  ASSUME ExclusiveAddresses
  PROVE  Spec => []NoTunnelWhileDenied
<1>1. IInv => NoTunnelWhileDenied
  BY DEF IInv, DeniedTunnelsDoomed, NoTunnelWhileDenied, HasTunnel, Disposing
<1> QED BY <1>1, IInvCorrect, PTL

LEMMA PassedBansHold == IInv => PulledBansEnforced
<1> SUFFICES ASSUME IInv, NEW b \in rv \ todo,
                    now < b.until, ~Disposing(NormUser[b.user])
             PROVE  /\ Denied(NormUser[b.user])
                    /\ ~HasWindow(NormUser[b.user])
                    /\ ~HasTunnel(NormUser[b.user])
  BY DEF PulledBansEnforced
<1>1. b.user \in Account /\ b.until \in Nat /\ NormUser[b.user] \in User
  BY AllowlistAssumption DEF AllowlistAssumption, IInv, TypeOK, RevokedBan
<1>2. Denied(NormUser[b.user])
  BY <1>1 DEF IInv, TypeOK, BanInv, PassedAreApplied, AppliedIsDenied, Denied
<1>3. ~HasWindow(NormUser[b.user])
  BY <1>1, <1>2 DEF IInv, BanInv, NoWindowWhileDenied, Revoking, Disposing
<1>4. ~HasTunnel(NormUser[b.user])
  BY <1>1, <1>2 DEF IInv, DeniedTunnelsDoomed, HasTunnel, Disposing
<1> QED BY <1>2, <1>3, <1>4

\* Every running ban of the last list pulled that the loop has passed is in
\* force, under any spelling, unless the poller is renewing it right now.
THEOREM PulledBansTheorem ==
  ASSUME ExclusiveAddresses
  PROVE  Spec => []PulledBansEnforced
  BY PassedBansHold, IInvCorrect, PTL

\* No list and no knock shortens a ban that runs; only a restart drops it.
THEOREM DenyTheorem == Spec => DenyNeverShortened
<1>1. TypeOK /\ [Next]_vars =>
        [crashes' = crashes =>
           \A u \in User : now' < deny[u] => deny[u] <= deny'[u]]_vars
  <2> SUFFICES ASSUME TypeOK, Next, crashes' = crashes,
                      NEW u \in User, now' < deny[u]
               PROVE  deny[u] <= deny'[u]
    OBVIOUS
  <2> USE DEF TypeOK, alVars, pollVars, connVars
  <2>1. ASSUME NEW a \in Account, NEW ip \in IP, Knock(a, ip)
        PROVE  deny[u] <= deny'[u]
    BY <2>1 DEF Knock, Allow, Denied
  <2>2. ASSUME NEW b \in todo, ApplyDeny(b) PROVE deny[u] <= deny'[u]
    BY <2>2 DEF ApplyDeny, DenyUser, RevokedBan
  <2>3. ~Crash
    BY DEF Crash
  <2>4. CASE UNCHANGED deny
    BY <2>4
  <2> QED BY <2>1, <2>2, <2>3, <2>4
        DEF Next, ReapWindows, Handler, Admit, Track, Recheck, RecheckFails,
            Establish, Leave, Untrack, Poller, PullPolicy, ServeBlind,
            SkipApplied, ApplyRevoke, ApplyKill, CloseTaken, KillDone,
            ApplyDone, Ban, Lift, Tick
<1> QED BY <1>1, TypeCorrect, PTL DEF Spec, DenyNeverShortened

-----------------------------------------------------------------------------
(***************************************************************************)
(* The gateway implements ForcedOffline.                                   *)
(***************************************************************************)

LEMMA InitRefines == Init => Abstract!Init
  BY DEF Init, AlInit, Abstract!Init, OnlineUsers, EnforcedUsers, HasWindow,
         HasTunnel, Carries

\* A user counted as banned is denied.
LEMMA EnforcedAreDenied ==
  ASSUME TypeOK, AppliedIsDenied, NEW u \in EnforcedUsers
  PROVE  Denied(u)
<1>1. PICK a \in Account : NormUser[a] = u /\ now < applied[a]
  BY DEF EnforcedUsers
<1> QED BY <1>1 DEF TypeOK, AppliedIsDenied, Denied, EnforcedUsers

\* A step that opens nothing and enforces nothing is an Expire.
LEMMA QuietStep ==
  ASSUME TypeOK, TypeOK', now <= now', m' \subseteq m,
         \A c \in Conn : Carries(c)' => Carries(c) /\ owner'[c] = owner[c],
         \A a \in Account : applied'[a] <= applied[a] \/ Disposing(NormUser[a])',
         \A u \in User : Disposing(u) => Disposing(u)' \/ u \notin EnforcedUsers'
  PROVE  Abstract!Next
<1> USE DEF TypeOK
<1>1. OnlineUsers' \subseteq OnlineUsers
  BY DEF OnlineUsers, HasWindow, HasTunnel, Live, Entry
<1>2. EnforcedUsers' \subseteq EnforcedUsers
  <2> SUFFICES ASSUME NEW u \in EnforcedUsers' PROVE u \in EnforcedUsers
    OBVIOUS
  <2>1. PICK a \in Account : NormUser[a] = u /\ now' < applied'[a]
    BY DEF EnforcedUsers
  <2>2. u \in User /\ ~Disposing(u)'
    BY DEF EnforcedUsers
  <2>3. ~Disposing(u)
    BY <2>2
  <2>4. applied'[a] <= applied[a]
    BY <2>1, <2>2
  <2>5. now < applied[a]
    BY <2>1, <2>4
  <2> QED BY <2>1, <2>2, <2>3, <2>5 DEF EnforcedUsers
<1> QED BY <1>1, <1>2 DEF Abstract!Next, Abstract!Expire

LEMMA KnockRefines ==
  ASSUME ExclusiveAddresses, IInv, IInv',
         NEW a \in Account, NEW ip \in IP, Knock(a, ip)
  PROVE  Abstract!Next
<1> DEFINE k == NormUser[a]
<1> DEFINE new == [ip |-> ip, user |-> a, until |-> now + TTL]
<1> USE AllowlistAssumption, GatewayAssumption
    DEF AllowlistAssumption, GatewayAssumption, IInv, TypeOK
<1>1. /\ UNCHANGED <<now, applied, pollPc, cur, pc, owner, open>>
      /\ <<a, ip>> \in MayKnock
      /\ ~Denied(k)
      /\ m' = {e \in m : e.ip # ip} \cup {new}
  BY DEF Knock, Allow, pollVars, connVars
<1>2. new \in m' /\ now' <= new.until /\ NormUser[new.user] = k /\ k \in User
  BY <1>1
<1>3. \A e \in m : e \in m' \/ NormUser[e.user] = k
  <2> SUFFICES ASSUME NEW e \in m, e.ip = ip PROVE NormUser[e.user] = k
    BY <1>1
  <2>1. <<e.user, ip>> \in MayKnock
    BY DEF FromHome
  <2> QED BY <1>1, <2>1 DEF ExclusiveAddresses
<1>4. HasWindow(k)'
  BY <1>2 DEF HasWindow, Live
<1>5. \A u \in User : u # k => (HasWindow(u)' <=> HasWindow(u))
  BY <1>1, <1>3 DEF HasWindow, Live
<1>6. \A u \in User : HasTunnel(u)' <=> HasTunnel(u)
  BY <1>1 DEF HasTunnel, Carries
<1>7. OnlineUsers' = OnlineUsers \cup {k}
  BY <1>2, <1>4, <1>5, <1>6 DEF OnlineUsers
<1>8. EnforcedUsers' = EnforcedUsers
  BY <1>1 DEF EnforcedUsers, Disposing
<1>9. k \notin EnforcedUsers
  BY <1>1, EnforcedAreDenied DEF BanInv
<1> QED BY <1>2, <1>7, <1>8, <1>9 DEF Abstract!Next, Abstract!Connect

\* The second look passes: the user was online already, by its own window.
LEMMA RecheckRefines ==
  ASSUME ExclusiveAddresses, IInv, IInv', NEW c \in Conn, Recheck(c)
  PROVE  Abstract!Next
<1> USE DEF IInv, TypeOK
<1>1. PICK e \in Allowed(Src[c]) : TRUE
  BY DEF Recheck
<1>2. e \in m /\ Live(e) /\ NormUser[e.user] = NormUser[owner[c]]
  BY <1>1, OwnWindow DEF Recheck
<1>3. /\ UNCHANGED <<now, m, applied, pollPc, cur, owner, open>>
      /\ \A d \in Conn : d # c => pc'[d] = pc[d]
  BY DEF Recheck, alVars, pollVars
<1>4. \A u \in User : HasWindow(u)' <=> HasWindow(u)
  BY <1>3 DEF HasWindow, Live
<1>5. \A u \in User : HasTunnel(u)' => HasTunnel(u) \/ u = NormUser[owner[c]]
  BY <1>3 DEF HasTunnel, Carries
<1>6. HasWindow(NormUser[owner[c]])
  BY <1>2 DEF HasWindow
<1>7. OnlineUsers' \subseteq OnlineUsers
  BY <1>4, <1>5, <1>6 DEF OnlineUsers
<1>8. EnforcedUsers' = EnforcedUsers
  BY <1>3 DEF EnforcedUsers, Disposing
<1> QED BY <1>7, <1>8 DEF Abstract!Next, Abstract!Expire

\* The end of KillUser: nothing of the user is left, the ban is in force.
LEMMA KillDoneRefines ==
  ASSUME IInv, IInv', KillDone
  PROVE  Abstract!Next
<1> USE AllowlistAssumption DEF AllowlistAssumption, IInv, TypeOK
<1>0. PICK k \in User : k = NormUser[cur]
  BY DEF KillDone
<1>1. /\ UNCHANGED <<now, m, deny, applied, pc, owner, open>>
      /\ pollPc = "close" /\ pollPc' = "apply" /\ closing = {}
  BY DEF KillDone, alVars, connVars
<1>2. OnlineUsers' = OnlineUsers
  BY <1>1 DEF OnlineUsers, HasWindow, HasTunnel, Live, Carries
<1>3. NormUser[cur] = k
  BY <1>0
<1>4. \A u \in User : u # k => (u \in EnforcedUsers' <=> u \in EnforcedUsers)
  BY <1>1, <1>3 DEF EnforcedUsers, Disposing
<1>5. k \notin EnforcedUsers
  BY <1>1, <1>3 DEF EnforcedUsers, Disposing
<1>6. CASE k \in EnforcedUsers'
  <2>1. Denied(k)'
    <3>1. PICK a \in Account : NormUser[a] = k /\ now' < applied'[a]
      BY <1>6 DEF EnforcedUsers
    <3> QED BY <3>1 DEF BanInv, AppliedIsDenied, Denied
  <2>2. Denied(k)
    BY <1>1, <2>1 DEF Denied
  <2>3. ~HasWindow(k)
    BY <1>1, <1>3, <2>2 DEF BanInv, NoWindowWhileDenied, Revoking
  <2>4. ~HasTunnel(k)
    BY <1>1, <1>3, <2>2 DEF HasTunnel, DeniedTunnelsDoomed
  <2>5. EnforcedUsers' = EnforcedUsers \cup {k}
    BY <1>4, <1>6 DEF EnforcedUsers
  <2> QED BY <1>2, <1>3, <2>3, <2>4, <2>5
        DEF Abstract!Next, Abstract!Enforce, OnlineUsers
<1>7. CASE k \notin EnforcedUsers'
  <2>1. EnforcedUsers' \subseteq EnforcedUsers
    BY <1>4, <1>7 DEF EnforcedUsers
  <2> QED BY <1>2, <2>1 DEF Abstract!Next, Abstract!Expire
<1> QED BY <1>6, <1>7

LEMMA StepRefines ==
  ASSUME ExclusiveAddresses, IInv, IInv', [Next]_vars
  PROVE  Abstract!Next
<1> USE AllowlistAssumption DEF AllowlistAssumption, IInv, TypeOK, alVars,
        pollVars, connVars, Carries, Disposing
<1>1. ASSUME NEW a \in Account, NEW ip \in IP, Knock(a, ip) PROVE Abstract!Next
  BY <1>1, KnockRefines
<1>2. CASE ReapWindows
  BY <1>2, QuietStep DEF ReapWindows, Reap
<1>3. ASSUME NEW c \in Conn, Handler(c) PROVE Abstract!Next
  <2>1. CASE Recheck(c)
    BY <2>1, RecheckRefines
  <2>2. CASE ~Recheck(c)
    <3>1. /\ UNCHANGED <<now, m, applied, pollPc, cur>>
          /\ \A d \in Conn : Carries(d)' => Carries(d) /\ owner'[d] = owner[d]
      BY <1>3, <2>2 DEF Handler, Admit, Track, RecheckFails, Establish, Leave,
                        Untrack
    <3> QED BY <3>1, QuietStep
  <2> QED BY <2>1, <2>2
<1>4. CASE Poller
  <2>1. CASE PullPolicy
    BY <2>1, QuietStep DEF PullPolicy
  <2>2. CASE ServeBlind
    BY <2>2, QuietStep DEF ServeBlind
  <2>3. ASSUME NEW b \in todo, SkipApplied(b) PROVE Abstract!Next
    BY <2>3, QuietStep DEF SkipApplied
  <2>4. ASSUME NEW b \in todo, ApplyDeny(b) PROVE Abstract!Next
    BY <2>4, QuietStep DEF ApplyDeny
  <2>5. CASE ApplyRevoke
    BY <2>5, QuietStep DEF ApplyRevoke, RevokeUser
  <2>6. CASE ApplyKill
    BY <2>6, QuietStep DEF ApplyKill
  <2>7. ASSUME NEW c \in closing, CloseTaken(c) PROVE Abstract!Next
    BY <2>7, QuietStep DEF CloseTaken
  <2>8. CASE KillDone
    BY <2>8, KillDoneRefines
  <2>9. CASE ApplyDone
    BY <2>9, QuietStep DEF ApplyDone
  <2> QED BY <1>4, <2>1, <2>2, <2>3, <2>4, <2>5, <2>6, <2>7, <2>8, <2>9 DEF Poller
<1>5. ASSUME NEW a \in Account, Ban(a) PROVE Abstract!Next
  BY <1>5, QuietStep DEF Ban
<1>6. ASSUME NEW b \in policy, Lift(b) PROVE Abstract!Next
  BY <1>6, QuietStep DEF Lift
<1>7. CASE Tick
  BY <1>7, QuietStep DEF Tick
<1>8. CASE Crash
  <2>1. OnlineUsers' = {} /\ EnforcedUsers' = {}
    BY <1>8 DEF Crash, OnlineUsers, EnforcedUsers, HasWindow, HasTunnel
  <2> QED BY <2>1 DEF Abstract!Next, Abstract!Expire
<1>9. CASE UNCHANGED vars
  BY <1>9, QuietStep DEF vars
<1> QED BY <1>1, <1>2, <1>3, <1>4, <1>5, <1>6, <1>7, <1>8, <1>9 DEF Next

\* The gateway keeps the abstract promise: a user on whom a ban has been
\* enforced gets neither window nor tunnel before the ban is over.
THEOREM Implementation ==
  ASSUME ExclusiveAddresses
  PROVE  Spec => ImplementsForcedOffline
<1>1. Init => Abstract!Init
  BY InitRefines
<1>2. IInv /\ IInv' /\ [Next]_vars => [Abstract!Next]_<<OnlineUsers, EnforcedUsers>>
  BY StepRefines
<1> QED BY <1>1, <1>2, IInvCorrect, PTL DEF Spec, ImplementsForcedOffline, Abstract!Spec
=============================================================================
