---------------------------- MODULE AccessProofs ----------------------------
(***************************************************************************)
(* Proofs about the way in: a knock is answered once (KnockReplay, for     *)
(* every set of tokens and envelopes, every tolerance, lives of tokens,    *)
(* longest memory and number of restarts), and the flows that come through the window go      *)
(* where the registry allows (ClientTunnel, for every set of flows, users, *)
(* resources and registries).                                              *)
(***************************************************************************)
EXTENDS KnockReplay, ClientTunnel, TLAPS

(***************************************************************************)
(* Seconds and half seconds.                                               *)
(***************************************************************************)

LEMMA Halves ==
    ASSUME now \in Nat
    PROVE  Unix \in Nat /\ 2 * Unix <= now /\ now <= 2 * Unix + 1
BY DEF Unix

LEMMA Constants ==
    /\ Skew \in Nat /\ Skew >= 1
    /\ Cap \in Nat /\ Cap >= 1
    /\ Lives \subseteq Nat
    /\ Ahead \subseteq Int
    /\ MaxNow \in Nat /\ MaxRestart \in Nat
BY ReplayAssumption DEF ReplayAssumption

(***************************************************************************)
(* Types.                                                                  *)
(***************************************************************************)

LEMMA InitType == Init => TypeOK
BY Constants DEF Init, TypeOK

LEMMA StepType == TypeOK /\ [Next]_vars => TypeOK'
<1> SUFFICES ASSUME TypeOK, [Next]_vars PROVE TypeOK'
  OBVIOUS
<1>0. Unix \in Nat /\ now \in Nat
  BY Constants, Halves DEF TypeOK
<1>1. ASSUME NEW t \in OneTime, Issue(t) PROVE TypeOK'
  BY <1>0, <1>1, Constants DEF Issue, TypeOK
<1>2. ASSUME NEW t \in Token, NEW n \in Nonce, Seal(t, n) PROVE TypeOK'
  <2>1. [t |-> t, ts |-> Unix + ahead, n |-> n] \in Envelope
    BY <1>0, Constants DEF TypeOK, Envelope
  <2> QED BY <1>2, <2>1 DEF Seal, TypeOK
<1>3. ASSUME NEW p \in sent, Receive(p) PROVE TypeOK'
  <2>1. p \in Envelope
    BY DEF TypeOK
  <2>2. Alive(seenN) \subseteq Nonce \X Nat /\ Alive(seenJ) \subseteq OneTime \X Nat
    BY DEF TypeOK, Alive
  <2>3. seenN' \subseteq Nonce \X Nat
    BY <1>0, <1>3, <2>1, <2>2, Constants DEF Receive, NonceUntil, Envelope
  <2>4. /\ seenJ' \subseteq OneTime \X Nat
        /\ spent' \in [OneTime -> Nat]
        /\ capped' \subseteq OneTime
    <3>1. CASE p.t \in OneTime /\ Verify(p.t) /\ ~Known(seenJ, p.t)
      <4>1. DedupUntil(p.t) \in Nat
        BY <3>1, Constants DEF DedupUntil, TypeOK
      <4> QED BY <1>3, <2>2, <3>1, <4>1 DEF Receive, UseToken, TypeOK
    <3>2. CASE ~(p.t \in OneTime /\ Verify(p.t) /\ ~Known(seenJ, p.t))
      BY <1>3, <2>2, <3>2 DEF Receive, UseToken, TypeOK
    <3> QED BY <3>1, <3>2
  <2>5. passed' \in [Nonce -> Nat]
    BY <1>3, <2>1 DEF Receive, TypeOK, Envelope
  <2> QED BY <1>3, <2>3, <2>4, <2>5 DEF Receive, TypeOK
<1>4. ASSUME Tick PROVE TypeOK'
  BY <1>4, Constants DEF Tick, TypeOK
<1>5. ASSUME Restart PROVE TypeOK'
  BY <1>5, Constants DEF Restart, TypeOK
<1>6. ASSUME UNCHANGED vars PROVE TypeOK'
  BY <1>6 DEF TypeOK, vars
<1> QED BY <1>1, <1>2, <1>3, <1>4, <1>5, <1>6 DEF Next

LEMMA ReplayTypeCorrect == Spec => []TypeOK
BY InitType, StepType, PTL DEF Spec

(***************************************************************************)
(* One-time tokens.                                                        *)
(***************************************************************************)

\* An entry of the cache outlasts the token, or the token is over.
Kept(t) ==
    \/ \E s \in seenJ : s[1] = t /\ s[2] > 2 * exp[t]
    \/ now > 2 * exp[t] + 1

\* A token that has had its window since the last restart is kept, if its
\* memory was not cut short.
SpentIsKept ==
    \A t \in OneTime \ capped :
        \/ spent[t] <= restarts
        \/ spent[t] = restarts + 1 /\ exp[t] > 0 /\ Kept(t)

(* A token is good to the end of its expiry second, and no longer. *)
LEMMA OverIsExpired ==
    ASSUME TypeOK, NEW t \in OneTime, Verify(t)
    PROVE  now <= 2 * exp[t] + 1
<1>1. now \in Nat /\ exp[t] \in Nat
  BY DEF TypeOK
<1>2. now <= 2 * Unix + 1 /\ Unix \in Nat
  BY <1>1, Halves
<1>3. Unix <= exp[t]
  BY DEF Verify
<1> QED BY <1>1, <1>2, <1>3

(* What a token leaves in the cache outlasts it, unless ten minutes do not. *)
LEMMA DedupOutlasts ==
    ASSUME TypeOK, NEW t \in OneTime, ~Outlives(t)
    PROVE  DedupUntil(t) > 2 * exp[t]
<1>1. now \in Nat /\ exp[t] \in Nat
  BY DEF TypeOK
<1>2. now + 2 * Cap > 2 * exp[t]
  BY <1>1, Constants DEF Outlives
<1> QED BY <1>1, <1>2, Constants DEF DedupUntil

LEMMA SpentStep ==
    ASSUME TypeOK, SpentIsKept, [Next]_vars
    PROVE  SpentIsKept'
<1>0. /\ \A t \in OneTime : spent[t] \in Nat /\ exp[t] \in Nat
      /\ restarts \in Nat /\ now \in Nat
      /\ \A s \in seenJ : s[2] \in Nat
  BY Constants DEF TypeOK
<1>1. ASSUME NEW t \in OneTime, Issue(t) PROVE SpentIsKept'
  <2>1. UNCHANGED <<now, seenJ, spent, capped, restarts>> /\ exp[t] = 0
    BY <1>1 DEF Issue
  <2>2. t \notin capped => spent[t] <= restarts
    BY <2>1 DEF SpentIsKept
  <2>3. \A s \in OneTime \ {t} : exp'[s] = exp[s] /\ (Kept(s)' <=> Kept(s))
    BY <1>1 DEF Issue, TypeOK, Kept
  <2> QED BY <2>1, <2>2, <2>3 DEF SpentIsKept
<1>2. ASSUME NEW t \in Token, NEW n \in Nonce, Seal(t, n) PROVE SpentIsKept'
  BY <1>2 DEF Seal, SpentIsKept, Kept
<1>3. ASSUME NEW p \in sent, Receive(p) PROVE SpentIsKept'
  <2>1. UNCHANGED <<now, exp, restarts>> /\ capped \subseteq capped'
    BY <1>3 DEF Receive, UseToken
  <2>2. Alive(seenJ) \subseteq seenJ' /\ \A t \in OneTime : t # p.t => spent'[t] = spent[t]
    BY <1>3 DEF Receive, UseToken, TypeOK
  <2> SUFFICES ASSUME NEW t \in OneTime \ capped'
               PROVE  \/ spent'[t] <= restarts
                      \/ /\ spent'[t] = restarts + 1
                         /\ exp[t] > 0
                         /\ \/ \E s \in seenJ' : s[1] = t /\ s[2] > 2 * exp[t]
                            \/ now > 2 * exp[t] + 1
    BY <2>1 DEF SpentIsKept, Kept
  <2>3. t \notin capped
    BY <2>1
  <2>4. CASE spent'[t] = spent[t]
    <3>1. ASSUME NEW s \in seenJ, s[2] > 2 * exp[t] PROVE s \in seenJ' \/ now > 2 * exp[t] + 1
      BY <1>0, <2>2, <3>1 DEF Alive
    <3> QED BY <2>3, <2>4, <3>1 DEF SpentIsKept, Kept
  <2>5. CASE spent'[t] # spent[t]
    <3>1. t = p.t
      BY <2>2, <2>5
    <3>2. Verify(t) /\ ~Known(seenJ, t)
      BY <1>3, <2>5, <3>1 DEF Receive, UseToken
    <3>3. spent'[t] = spent[t] + 1 /\ <<t, DedupUntil(t)>> \in seenJ'
      BY <1>3, <3>1, <3>2 DEF Receive, UseToken, TypeOK
    <3>4. ~Outlives(t)
      BY <1>3, <3>1, <3>2 DEF Receive, UseToken
    <3>5. exp[t] > 0 /\ now <= 2 * exp[t] + 1
      BY <3>2, OverIsExpired DEF Verify
    <3>6. ~\E s \in seenJ : s[1] = t /\ s[2] > 2 * exp[t]
      BY <1>0, <3>2, <3>5 DEF Known, Alive
    <3>7. spent[t] <= restarts
      BY <1>0, <2>3, <3>5, <3>6 DEF SpentIsKept, Kept
    <3>8. \E s \in seenJ' : s[1] = t /\ s[2] > 2 * exp[t]
      BY <3>3, <3>4, DedupOutlasts
    <3> QED BY <1>0, <3>3, <3>5, <3>7, <3>8
  <2> QED BY <2>4, <2>5
<1>4. ASSUME Tick PROVE SpentIsKept'
  <2>1. UNCHANGED <<exp, seenJ, spent, capped, restarts>> /\ now' = now + 1
    BY <1>4 DEF Tick
  <2>2. \A t \in OneTime : Kept(t) => Kept(t)'
    BY <1>0, <2>1 DEF Kept
  <2> QED BY <2>1, <2>2 DEF SpentIsKept
<1>5. ASSUME Restart PROVE SpentIsKept'
  <2>1. restarts' = restarts + 1 /\ UNCHANGED <<spent, capped>>
    BY <1>5 DEF Restart
  <2>2. \A t \in OneTime \ capped : spent[t] <= restarts + 1
    BY <1>0 DEF SpentIsKept
  <2> QED BY <2>1, <2>2 DEF SpentIsKept
<1>6. ASSUME UNCHANGED vars PROVE SpentIsKept'
  BY <1>6 DEF SpentIsKept, Kept, vars
<1> QED BY <1>1, <1>2, <1>3, <1>4, <1>5, <1>6 DEF Next

\* A one-time token opens one window, and one more after each restart of the
\* gateway, with any clock of the client and any network, unless it was good
\* for longer than a jti is remembered when it was used.
THEOREM OneTimeTheorem == Spec => []OneTimeTokenOnce
<1>1. Init => SpentIsKept
  BY DEF Init, SpentIsKept
<1>2. TypeOK /\ SpentIsKept => OneTimeTokenOnce
  BY Constants DEF TypeOK, SpentIsKept, OneTimeTokenOnce
<1> QED BY <1>1, <1>2, SpentStep, ReplayTypeCorrect, PTL DEF Spec

(***************************************************************************)
(* Envelopes.                                                              *)
(***************************************************************************)

\* No client's clock is ahead by all that is tolerated.
ClocksAreClose == \A a \in Ahead : a < Skew

\* Stamps are not from further ahead than the client's clock is, and a nonce
\* belongs to one envelope.
StampsAreClose ==
    /\ \A p \in sent : 2 * (p.ts - ahead) <= now
    /\ \A p, q \in sent : p.n = q.n => p = q

\* An envelope that has had its window since the last restart was sent, and its
\* nonce is in the cache for as long as its stamp is good, or that time is past.
LastFresh(p) == 2 * (p.ts + Skew) + 1

PassedIsKept ==
    \A n \in Nonce :
        \/ passed[n] <= restarts
        \/ /\ passed[n] = restarts + 1
           /\ \E p \in sent : /\ p.n = n
                              /\ \/ \E s \in seenN : s[1] = n /\ s[2] >= LastFresh(p)
                                 \/ now > LastFresh(p)

LEMMA StampStep ==
    ASSUME TypeOK, StampsAreClose, [Next]_vars
    PROVE  StampsAreClose'
<1>0. now \in Nat /\ ahead \in Int /\ \A p \in sent : p.ts \in Int
  BY Constants DEF TypeOK, Envelope
<1>1. ASSUME NEW t \in Token, NEW n \in Nonce, Seal(t, n) PROVE StampsAreClose'
  <2> DEFINE new == [t |-> t, ts |-> Unix + ahead, n |-> n]
  <2>1. 2 * (new.ts - ahead) <= now
    BY <1>0, Halves
  <2>2. new.n = n /\ \A p \in sent : p.n # n
    BY <1>1 DEF Seal
  <2>3. sent' = sent \cup {new} /\ UNCHANGED <<now, ahead>>
    BY <1>1 DEF Seal
  <2> HIDE DEF new
  <2> QED BY <2>1, <2>2, <2>3 DEF StampsAreClose
<1>2. CASE sent' = sent /\ ahead' = ahead /\ now' \in {now, now + 1}
  BY <1>0, <1>2 DEF StampsAreClose
<1> QED BY <1>1, <1>2 DEF Next, vars, Issue, Receive, Tick, Restart

(* A nonce that is used now is kept until its stamp is stale. *)
LEMMA KeptLongEnough ==
    ASSUME TypeOK, StampsAreClose, ClocksAreClose, NEW p \in sent, Fresh(p)
    PROVE  NonceUntil >= LastFresh(p)
<1>1. /\ now \in Nat /\ ahead \in Int /\ p.ts \in Int
      /\ ahead < Skew
  BY Constants DEF TypeOK, Envelope, ClocksAreClose
<1>2. p.ts - Unix <= Skew /\ 2 * (p.ts - ahead) <= now
  BY <1>1, Halves, Constants DEF Fresh, StampsAreClose
<1> QED BY <1>1, <1>2, Constants DEF NonceUntil, LastFresh

LEMMA StaleAfter ==
    ASSUME TypeOK, NEW p \in sent, now > LastFresh(p)
    PROVE  ~Fresh(p)
<1>1. now \in Nat /\ p.ts \in Int
  BY DEF TypeOK, Envelope
<1> QED BY <1>1, Halves, Constants DEF Fresh, LastFresh

LEMMA PassedStep ==
    ASSUME TypeOK, StampsAreClose, ClocksAreClose, PassedIsKept, [Next]_vars
    PROVE  PassedIsKept'
<1>0. /\ \A n \in Nonce : passed[n] \in Nat
      /\ restarts \in Nat /\ now \in Nat
      /\ \A s \in seenN : s[2] \in Nat
      /\ \A p \in sent : p.ts \in Int /\ p.n \in Nonce /\ LastFresh(p) \in Int
  BY Constants DEF TypeOK, Envelope, LastFresh
<1>1. ASSUME NEW t \in OneTime, Issue(t) PROVE PassedIsKept'
  BY <1>1 DEF Issue, PassedIsKept, LastFresh
<1>2. ASSUME NEW t \in Token, NEW n \in Nonce, Seal(t, n) PROVE PassedIsKept'
  <2>1. UNCHANGED <<now, seenN, passed, restarts>> /\ sent \subseteq sent'
    BY <1>2 DEF Seal
  <2> QED BY <2>1 DEF PassedIsKept, LastFresh
<1>3. ASSUME NEW p \in sent, Receive(p) PROVE PassedIsKept'
  <2>1. UNCHANGED <<now, sent, restarts>>
    BY <1>3 DEF Receive
  <2>2. Alive(seenN) \subseteq seenN' /\ <<p.n, NonceUntil>> \in seenN'
    BY <1>3 DEF Receive
  <2> SUFFICES ASSUME NEW n \in Nonce
               PROVE  \/ passed'[n] <= restarts
                      \/ /\ passed'[n] = restarts + 1
                         /\ \E q \in sent : /\ q.n = n
                                            /\ \/ \E s \in seenN' : s[1] = n /\ s[2] >= LastFresh(q)
                                               \/ now > LastFresh(q)
    BY <2>1 DEF PassedIsKept, LastFresh
  <2>3. CASE passed'[n] = passed[n]
    <3> SUFFICES ASSUME NEW q \in sent, q.n = n, NEW s \in seenN, s[1] = n, s[2] >= LastFresh(q)
                 PROVE  s \in seenN' \/ now > LastFresh(q)
      BY <2>3 DEF PassedIsKept
    <3> QED BY <1>0, <2>2 DEF Alive
  <2>4. CASE passed'[n] # passed[n]
    <3>1. n = p.n /\ passed'[n] = passed[n] + 1
      BY <1>3, <1>0, <2>4 DEF Receive, TypeOK
    <3>2. Fresh(p) /\ ~Known(seenN, n)
      BY <1>3, <3>1 DEF Receive
    <3>3. NonceUntil >= LastFresh(p) /\ ~(now > LastFresh(p))
      BY <3>2, KeptLongEnough, StaleAfter
    <3>4. ASSUME NEW q \in sent, q.n = n PROVE q = p
      BY <3>1, <3>4 DEF StampsAreClose
    <3>5. ~\E s \in seenN : s[1] = n /\ s[2] >= LastFresh(p)
      BY <1>0, <3>2, <3>3 DEF Known, Alive
    <3>6. passed[n] <= restarts
      BY <3>3, <3>4, <3>5 DEF PassedIsKept
    <3>7. \E s \in seenN' : s[1] = n /\ s[2] >= LastFresh(p)
      BY <2>2, <3>1, <3>3
    <3> QED BY <1>0, <3>1, <3>6, <3>7
  <2> QED BY <2>3, <2>4
<1>4. ASSUME Tick PROVE PassedIsKept'
  <2>1. UNCHANGED <<sent, seenN, passed, restarts>> /\ now' = now + 1
    BY <1>4 DEF Tick
  <2> QED BY <1>0, <2>1 DEF PassedIsKept, LastFresh
<1>5. ASSUME Restart PROVE PassedIsKept'
  BY <1>0, <1>5 DEF Restart, PassedIsKept
<1>6. ASSUME UNCHANGED vars PROVE PassedIsKept'
  BY <1>6 DEF PassedIsKept, LastFresh, vars
<1> QED BY <1>1, <1>2, <1>3, <1>4, <1>5, <1>6 DEF Next

\* While no client's clock is ahead by all that is tolerated, time stamp and
\* nonce together let an envelope pass once, and once more after each restart.
THEOREM EnvelopeTheorem == ASSUME ClocksAreClose PROVE Spec => []EnvelopeOnce
<1> DEFINE Inv == TypeOK /\ StampsAreClose /\ PassedIsKept
<1>1. Init => Inv
  <2> SUFFICES ASSUME Init PROVE StampsAreClose /\ PassedIsKept
    BY InitType
  <2> QED BY DEF Init, StampsAreClose, PassedIsKept
<1>2. Inv /\ [Next]_vars => Inv'
  BY StepType, StampStep, PassedStep
<1>3. Inv => EnvelopeOnce
  BY DEF TypeOK, PassedIsKept, EnvelopeOnce
<1> QED BY <1>1, <1>2, <1>3, PTL DEF Spec

(***************************************************************************)
(* A flow of the client through the gateway: types.                        *)
(***************************************************************************)

LEMMA EngineStepType ==
    ASSUME EngineTypeOK, EngineStep \/ EngineKnock \/ Exit
    PROVE  EngineTypeOK'
<1>1. CASE FirstRefused \/ NoFirstKnock \/ FirstSent
  BY <1>1 DEF FirstRefused, NoFirstKnock, FirstSent, Pumps, Report, EngineTypeOK
<1>2. CASE KeepTick \/ KeepStops \/ KeepRefused \/ KeepSent
  BY <1>2 DEF KeepTick, KeepStops, KeepRefused, KeepSent, Report, EngineTypeOK
<1>3. CASE ReadFails
  BY <1>3 DEF ReadFails, EngineTypeOK
<1>4. CASE TakeDeny \/ Stop \/ Exit
  BY <1>4 DEF TakeDeny, Stop, Exit, EngineTypeOK
<1>5. CASE TakeInbound \/ Drained
  <2>1. session' \in [stopped : BOOLEAN, reason : {"none", "denied", "broken"}]
    <3>1. PICK r \in {"denied", "broken"} : session' = [stopped |-> TRUE, reason |-> r]
      BY <1>5 DEF TakeInbound, Drained, MarkStopped
    <3> QED BY <3>1
  <2> QED BY <1>5, <2>1 DEF TakeInbound, Drained, EngineTypeOK
<1> QED BY <1>1, <1>2, <1>3, <1>4, <1>5 DEF EngineStep, EngineKnock

LEMMA EngineInitType == EngineInit => EngineTypeOK
<1> SUFFICES ASSUME EngineInit PROVE EngineTypeOK
  OBVIOUS
<1>1. session \in [stopped : BOOLEAN, reason : {"none", "denied", "broken"}]
  BY DEF EngineInit
<1> QED BY <1>1 DEF EngineInit, EngineTypeOK

LEMMA PathInitType == PathInit => PathTypeOK
BY PathAssumption DEF PathInit, PathTypeOK, PathAssumption

(* The backends a registry allows are backends, and those Lookup and Authorize *)
(* let through are those the comment above Authorize allows.                   *)
LEMMA CouldAreBackends ==
    ASSUME NEW p \in Policies, NEW w, NEW r
    PROVE  Could(p, w, r) \subseteq Backend
BY DEF Could, Backend

LEMMA AllowedIsCould ==
    ASSUME NEW p, NEW w, NEW r
    PROVE  Allows(p, w, r) \subseteq Could(p, w, r)
BY DEF Allows, Could, Authorize

\* The part of PathTypeOK that is about sets of flows.
SetsOK ==
    {copying, cOpen, gOpen, forwarding, bOpen, upWrite, downWrite, late} \subseteq SUBSET Flow

LEMMA ReturnType ==
    ASSUME PathTypeOK, NEW c \in Flow, Return(c) PROVE PathTypeOK'
<1>1. /\ h' \in [Flow -> {"none", "backlog", "start", "handshake",
                          "preamble", "route", "dial", "relay"}]
      /\ as' \in [Flow -> Who \cup {NoOne}]
  BY DEF Return, PathTypeOK
<1>2. routed' \in [Flow -> Backend \cup {NoResource}] /\ could' \in [Flow -> SUBSET Backend]
  BY DEF Return, PathTypeOK
<1>3. SetsOK'
  BY DEF Return, PathTypeOK, SetsOK, clientVars
<1> QED BY <1>1, <1>2, <1>3 DEF Return, PathTypeOK, SetsOK, clientVars

LEMMA ToType ==
    ASSUME PathTypeOK, NEW c \in Flow, NEW step \in {"route", "dial"},
           NEW b \in Backend \cup {NoResource}, To(c, step, b), late' \in SUBSET Flow
    PROVE  PathTypeOK'
<1>1. h' \in [Flow -> {"none", "backlog", "start", "handshake",
                       "preamble", "route", "dial", "relay"}]
  BY DEF To, PathTypeOK
<1>2. routed' \in [Flow -> Backend \cup {NoResource}]
  BY DEF To, PathTypeOK
<1>3. SetsOK'
  BY DEF To, PathTypeOK, SetsOK, clientVars, copyVars
<1> QED BY <1>1, <1>2, <1>3 DEF To, PathTypeOK, SetsOK, clientVars, copyVars

LEMMA PathStepType ==
    ASSUME PathTypeOK, NEW f \in Flow, PathStep(f) PROVE PathTypeOK'
<1> USE DEF PathTypeOK, SetsOK, copyVars
<1>1. CASE ClientStep(f)
  <2>1. CASE FlowKnock(f)
    <3>1. tun' \in [Flow -> {"idle", "knock", "connect", "dial", "copy"}]
      BY <2>1 DEF FlowKnock
    <3>2. window' \in Who \cup {NoOne}
      BY <2>1, PathAssumption DEF FlowKnock, PathAssumption
    <3>3. UNCHANGED <<reg, want, local, line, copying, cOpen, gOpen, handlerVars>>
      BY <2>1 DEF FlowKnock
    <3> QED BY <3>1, <3>2, <3>3 DEF handlerVars
  <2>2. CASE Connect(f)
    <3>1. tun' \in [Flow -> {"idle", "knock", "connect", "dial", "copy"}]
      BY <2>2 DEF Connect
    <3>2. h' \in [Flow -> {"none", "backlog", "start", "handshake",
                          "preamble", "route", "dial", "relay"}]
      BY <2>2 DEF Connect
    <3>3. cOpen' = cOpen \cup {f} /\ gOpen' = gOpen \cup {f}
      BY <2>2 DEF Connect
    <3>4. UNCHANGED <<reg, window, want, local, line, copying, as, routed, forwarding,
                      bOpen, copyVars, late, could>>
      BY <2>2 DEF Connect
    <3>5. SetsOK'
      BY <3>3, <3>4
    <3> QED BY <3>1, <3>2, <3>4, <3>5
  <2>3. CASE DialFails(f) \/ DownloadEnds(f) \/ UploadEnds(f)
    <3>1. /\ tun' \in [Flow -> {"idle", "knock", "connect", "dial", "copy"}]
          /\ local' \in [Flow -> {"none", "open", "ended"}]
      BY <2>3 DEF DialFails, DownloadEnds, UploadEnds
    <3>2. cOpen' \subseteq cOpen /\ copying' \subseteq copying
      BY <2>3 DEF DialFails, DownloadEnds, UploadEnds
    <3>3. UNCHANGED <<reg, window, want, line, gOpen, handlerVars>>
      BY <2>3 DEF DialFails, DownloadEnds, UploadEnds
    <3>4. SetsOK'
      BY <3>2, <3>3 DEF handlerVars
    <3> QED BY <3>1, <3>3, <3>4 DEF handlerVars
  <2> QED BY <1>1, <2>1, <2>2, <2>3 DEF ClientStep
<1>2. CASE Arrive(f) \/ HangUp(f)
  <2>1. line' \in [Flow -> {"none", "sent", "part", "full", "other"}]
    BY <1>2 DEF Arrive, HangUp
  <2>2. local' \in [Flow -> {"none", "open", "ended"}]
    BY <1>2 DEF Arrive, HangUp
  <2>3. UNCHANGED <<reg, window, tun, want, copying, cOpen, gOpen, handlerVars>>
    BY <1>2 DEF Arrive, HangUp
  <2> QED BY <2>1, <2>2, <2>3 DEF handlerVars
<1>3. CASE \/ ForwardEnds(f) \/ KillUser(f) \/ BackendCloses(f)
           \/ ForwardReads(f) \/ ForwardWritten(f) \/ RelayReads(f) \/ RelayWritten(f)
  <2>1. /\ gOpen' \subseteq gOpen /\ forwarding' \subseteq forwarding /\ bOpen' \subseteq bOpen
        /\ upWrite' \subseteq upWrite \cup {f} /\ downWrite' \subseteq downWrite \cup {f}
    BY <1>3 DEF ForwardEnds, KillUser, BackendCloses, ForwardReads, ForwardWritten,
                RelayReads, RelayWritten, handlerVars
  <2>2. UNCHANGED <<reg, window, clientVars, h, as, routed, late, could>>
    BY <1>3 DEF ForwardEnds, KillUser, BackendCloses, ForwardReads, ForwardWritten,
                RelayReads, RelayWritten, handlerVars
  <2>3. SetsOK'
    BY <2>1, <2>2 DEF clientVars
  <2> QED BY <2>2, <2>3 DEF clientVars
<1>4. CASE HandlerStep(f)
  <2>1. CASE TurnAway(f) \/ HandshakeFails(f) \/ ReadPart(f) \/ RouteFails(f)
             \/ BackendFails(f) \/ RelayEnds(f)
    BY <2>1, ReturnType DEF TurnAway, HandshakeFails, ReadPart, RouteFails, BackendFails, RelayEnds
  <2>2. CASE Accept(f)
    <3>1. h' \in [Flow -> {"none", "backlog", "start", "handshake",
                          "preamble", "route", "dial", "relay"}]
      BY <2>2 DEF Accept
    <3> QED BY <2>2, <3>1 DEF Accept, clientVars
  <2>3. CASE Admit(f)
    <3>1. /\ h' \in [Flow -> {"none", "backlog", "start", "handshake",
                             "preamble", "route", "dial", "relay"}]
          /\ as' \in [Flow -> Who \cup {NoOne}]
      BY <2>3 DEF Admit
    <3>2. could' \in [Flow -> SUBSET Backend]
      BY <2>3, CouldAreBackends DEF Admit
    <3>3. UNCHANGED <<reg, window, clientVars, gOpen, routed, forwarding, bOpen, copyVars, late>>
      BY <2>3 DEF Admit
    <3> QED BY <3>1, <3>2, <3>3 DEF clientVars
  <2>4. CASE Handshake(f)
    <3>1. /\ h' \in [Flow -> {"none", "backlog", "start", "handshake",
                              "preamble", "route", "dial", "relay"}]
          /\ tun' \in [Flow -> {"idle", "knock", "connect", "dial", "copy"}]
      BY <2>4 DEF Handshake
    <3>2. line' \in [Flow -> {"none", "sent", "part", "full", "other"}]
      BY <2>4 DEF Handshake
    <3>3. copying' \in SUBSET Flow
      BY <2>4 DEF Handshake
    <3>4. UNCHANGED <<reg, window, want, local, cOpen, gOpen, as, routed, forwarding,
                      bOpen, copyVars, late, could>>
      BY <2>4 DEF Handshake
    <3>5. SetsOK'
      BY <3>3, <3>4
    <3> QED BY <3>1, <3>2, <3>4, <3>5
  <2>5. CASE ReadLine(f) \/ ReadOther(f) \/ ReadNothing(f)
    <3>1. late' \in SUBSET Flow
      BY <2>5 DEF ReadLine, ReadOther, ReadNothing
    <3>2. PICK step \in {"route", "dial"}, b \in Backend \cup {NoResource} : To(f, step, b)
      BY <2>5 DEF ReadLine, ReadOther, ReadNothing, Backend
    <3> QED BY <3>1, <3>2, ToType
  <2>6. CASE Route(f)
    <3>1. Allows(reg, as[f], want[f]) \subseteq Backend
      BY AllowedIsCould, CouldAreBackends
    <3>2. PICK b \in Allows(reg, as[f], want[f]) : To(f, "dial", b)
      BY <2>6 DEF Route
    <3>3. late' \in SUBSET Flow
      BY <2>6 DEF Route
    <3> QED BY <3>1, <3>2, <3>3, ToType
  <2>7. CASE DialBackend(f)
    <3>1. h' \in [Flow -> {"none", "backlog", "start", "handshake",
                          "preamble", "route", "dial", "relay"}]
      BY <2>7 DEF DialBackend
    <3>2. bOpen' = bOpen \cup {f} /\ forwarding' = forwarding \cup {f} /\ late' = late \ {f}
      BY <2>7 DEF DialBackend
    <3>3. UNCHANGED <<reg, window, clientVars, gOpen, copyVars>>
      BY <2>7 DEF DialBackend
    <3>4. SetsOK'
      BY <3>2, <3>3 DEF clientVars
    <3>5. as' \in [Flow -> Who \cup {NoOne}] /\ routed' \in [Flow -> Backend \cup {NoResource}]
      BY <2>7 DEF DialBackend
    <3>6. could' \in [Flow -> SUBSET Backend]
      BY <2>7 DEF DialBackend
    <3> QED BY <3>1, <3>3, <3>4, <3>5, <3>6 DEF clientVars
  <2> QED BY <1>4, <2>1, <2>2, <2>3, <2>4, <2>5, <2>6, <2>7 DEF HandlerStep
<1> QED BY <1>1, <1>2, <1>3, <1>4 DEF PathStep

LEMMA PathNextType == PathTypeOK /\ [PathNext]_pathVars => PathTypeOK'
<1> SUFFICES ASSUME PathTypeOK, [PathNext]_pathVars PROVE PathTypeOK'
  OBVIOUS
<1>1. ASSUME UNCHANGED pathVars PROVE PathTypeOK'
  BY <1>1 DEF PathTypeOK, pathVars, clientVars, handlerVars, copyVars
<1>2. ASSUME NEW f \in Flow, PathStep(f) PROVE PathTypeOK'
  BY <1>2, PathStepType
<1>3. CASE KnockArrives
  <2>1. window' \in Who \cup {NoOne}
    BY <1>3, PathAssumption DEF KnockArrives, PathTypeOK, PathAssumption
  <2>2. UNCHANGED <<reg, clientVars, gOpen, handlerVars>>
    BY <1>3 DEF KnockArrives
  <2> QED BY <2>1, <2>2 DEF PathTypeOK, clientVars, handlerVars, copyVars
<1>4. CASE ClientDies
  <2>1. /\ tun' \in [Flow -> {"idle", "knock", "connect", "dial", "copy"}]
        /\ local' \in [Flow -> {"none", "open", "ended"}]
    BY <1>4 DEF ClientDies
  <2>2. copying' = {} /\ cOpen' = {} /\ UNCHANGED <<reg, window, want, line, gOpen, handlerVars>>
    BY <1>4 DEF ClientDies
  <2>3. SetsOK'
    BY <2>2 DEF PathTypeOK, SetsOK, handlerVars, copyVars
  <2> QED BY <2>1, <2>2, <2>3 DEF PathTypeOK, SetsOK, handlerVars, copyVars
<1>5. ASSUME NEW p \in Policies, Replace(p) PROVE PathTypeOK'
  <2>1. \A w, r : Could(p, w, r) \subseteq Backend
    BY CouldAreBackends
  <2>2. could' \in [Flow -> SUBSET Backend]
    <3>1. could \in [Flow -> SUBSET Backend]
      BY DEF PathTypeOK
    <3> QED BY <1>5, <2>1, <3>1 DEF Replace
  <2> QED BY <1>5, <2>2 DEF Replace, PathTypeOK, clientVars, copyVars
<1>6. CASE WindowMoves
  BY <1>6 DEF WindowMoves, PathTypeOK, clientVars, handlerVars, copyVars
<1>7. ASSUME NEW f \in Flow, NEW r \in Resource \cup {NoResource}, NEW knocks \in BOOLEAN,
             Capture(f, r, knocks)
      PROVE  PathTypeOK'
  <2>1. /\ tun' \in [Flow -> {"idle", "knock", "connect", "dial", "copy"}]
        /\ local' \in [Flow -> {"none", "open", "ended"}]
    BY <1>7 DEF Capture, PathTypeOK
  <2>2. /\ want' \in [Flow -> Resource \cup {NoResource}]
        /\ line' \in [Flow -> {"none", "sent", "part", "full", "other"}]
    BY <1>7 DEF Capture, PathTypeOK
  <2>3. UNCHANGED <<reg, window, copying, cOpen, gOpen, handlerVars>>
    BY <1>7 DEF Capture
  <2> QED BY <2>1, <2>2, <2>3 DEF PathTypeOK, handlerVars, copyVars
<1> QED BY <1>1, <1>2, <1>3, <1>4, <1>5, <1>6, <1>7 DEF PathNext

(* Beside the engine, the path takes its own steps or none. *)
LEMMA TunnelIsPath ==
    ASSUME EngineTypeOK, [TunnelNext]_tunnelVars PROVE [PathNext]_pathVars
<1>1. CASE UNCHANGED pathVars
  BY <1>1
<1>2. CASE SendKnock \/ ExitClient
  BY <1>2 DEF SendKnock, ExitClient, PathNext
<1>3. ASSUME NEW f \in Flow, NEW r \in Resource \cup {NoResource}, Forward(f, r)
      PROVE  PathNext
  <2>1. (~control) \in BOOLEAN /\ Capture(f, r, ~control)
    BY <1>3 DEF Forward, EngineTypeOK
  <2> QED BY <2>1 DEF PathNext
<1>4. CASE UNCHANGED tunnelVars
  BY <1>4 DEF tunnelVars
<1> QED BY <1>1, <1>2, <1>3, <1>4 DEF TunnelNext, PathNext

LEMMA TunnelStepType == TunnelTypeOK /\ [TunnelNext]_tunnelVars => TunnelTypeOK'
<1> SUFFICES ASSUME TunnelTypeOK, [TunnelNext]_tunnelVars PROVE TunnelTypeOK'
  OBVIOUS
<1>1. PathTypeOK'
  BY TunnelIsPath, PathNextType DEF TunnelTypeOK
<1>2. CASE UNCHANGED engineVars
  BY <1>1, <1>2 DEF TunnelTypeOK, EngineTypeOK, engineVars
<1>3. CASE EngineStep \/ SendKnock \/ ExitClient
  BY <1>1, <1>3, EngineStepType DEF TunnelTypeOK, SendKnock, ExitClient
<1> QED BY <1>2, <1>3 DEF TunnelNext, tunnelVars, Forward

(***************************************************************************)
(* A flow of the client through the gateway: where it ends up.             *)
(***************************************************************************)

\* From the second look at the window to the choice of a backend.
Choosing(c) == h[c] \in {"handshake", "preamble", "route"}

\* What the registry allows now is among what it allowed since the second look;
\* bytes that are not a line come of a flow that asked for no resource.
RouteInv ==
    /\ PathTypeOK
    /\ Routed
    /\ \A c \in Flow : Choosing(c) => Could(reg, as[c], want[c]) \subseteq could[c]
    /\ \A c \in Flow : line[c] = "other" => want[c] = NoResource

LEMMA RouteInit == PathInit => RouteInv
BY PathInitType DEF PathInit, RouteInv, Routed, Choosing

(* What a handler does concerns its own connection. *)
LEMMA RouteOthers ==
    ASSUME RouteInv, PathTypeOK', NEW f \in Flow,
           reg' = reg,
           \A c \in Flow \ {f} : /\ h'[c] = h[c] /\ as'[c] = as[c] /\ want'[c] = want[c]
                                 /\ routed'[c] = routed[c] /\ could'[c] = could[c]
                                 /\ line'[c] = line[c] /\ (c \in late' <=> c \in late),
           h'[f] = "dial" =>
               \/ routed'[f] \in could'[f]
               \/ routed'[f] = Default /\ (want'[f] = NoResource \/ f \in late'),
           Choosing(f)' => Could(reg, as'[f], want'[f]) \subseteq could'[f],
           line'[f] = "other" => want'[f] = NoResource
    PROVE  RouteInv'
<1>1. Routed'
  BY DEF RouteInv, Routed
<1>2. ASSUME NEW c \in Flow, Choosing(c)' PROVE Could(reg', as'[c], want'[c]) \subseteq could'[c]
  BY <1>2 DEF RouteInv, Choosing
<1>3. \A c \in Flow : line'[c] = "other" => want'[c] = NoResource
  BY DEF RouteInv
<1> QED BY <1>1, <1>2, <1>3 DEF RouteInv

LEMMA RouteStep ==
    ASSUME RouteInv, NEW f \in Flow, PathStep(f) PROVE RouteInv'
<1>0. PathTypeOK /\ PathTypeOK'
  BY PathStepType DEF RouteInv
<1>f. /\ h[f] = "dial" =>
             \/ routed[f] \in could[f]
             \/ routed[f] = Default /\ (want[f] = NoResource \/ f \in late)
      /\ Choosing(f) => Could(reg, as[f], want[f]) \subseteq could[f]
      /\ line[f] = "other" => want[f] = NoResource
  BY DEF RouteInv, Routed
<1>1. ASSUME UNCHANGED <<reg, h, as, want, routed, could, line, late>> PROVE RouteInv'
  BY <1>0, <1>1 DEF RouteInv, Routed, Choosing
<1>2. CASE Return(f)
  <2>1. h'[f] = "none"
    BY <1>0, <1>2 DEF Return, PathTypeOK
  <2>2. reg' = reg /\ line' = line /\ want' = want
    BY <1>2 DEF Return, clientVars
  <2>3. \A c \in Flow \ {f} : /\ h'[c] = h[c] /\ as'[c] = as[c] /\ routed'[c] = routed[c]
                              /\ could'[c] = could[c] /\ (c \in late' <=> c \in late)
    BY <1>0, <1>2 DEF Return, PathTypeOK
  <2> QED BY <1>0, <1>f, <2>1, <2>2, <2>3, RouteOthers DEF Choosing
<1>3. CASE Connect(f)
  <2>1. h'[f] = "backlog" /\ \A c \in Flow \ {f} : h'[c] = h[c]
    BY <1>0, <1>3 DEF Connect, PathTypeOK
  <2>2. UNCHANGED <<reg, as, want, routed, could, line, late>>
    BY <1>3 DEF Connect
  <2> QED BY <1>0, <1>f, <2>1, <2>2, RouteOthers DEF Choosing
<1>4. CASE Arrive(f)
  <2>1. UNCHANGED <<reg, h, as, want, routed, could, late>>
    BY <1>4 DEF Arrive, handlerVars
  <2>2. line'[f] = "other" => want[f] = NoResource
    BY <1>0, <1>4 DEF Arrive, PathTypeOK
  <2>3. \A c \in Flow \ {f} : line'[c] = line[c]
    BY <1>0, <1>4 DEF Arrive, PathTypeOK
  <2> QED BY <1>0, <1>f, <2>1, <2>2, <2>3, RouteOthers DEF Choosing
<1>5. CASE Accept(f) \/ Handshake(f)
  <2>1. /\ \A c \in Flow \ {f} : h'[c] = h[c] /\ line'[c] = line[c]
        /\ Choosing(f)' => Choosing(f)
        /\ h'[f] # "dial"
        /\ line'[f] # "other" \/ line'[f] = line[f]
    <3>1. CASE Accept(f)
      BY <1>0, <3>1 DEF Accept, PathTypeOK, Choosing, clientVars
    <3>2. CASE Handshake(f)
      BY <1>0, <3>2 DEF Handshake, PathTypeOK, Choosing
    <3> QED BY <1>5, <3>1, <3>2
  <2>2. UNCHANGED <<reg, as, want, routed, could, late>>
    BY <1>5 DEF Accept, Handshake, clientVars
  <2> QED BY <1>0, <1>f, <2>1, <2>2, RouteOthers
<1>6. CASE Admit(f)
  <2>1. /\ \A c \in Flow \ {f} : h'[c] = h[c] /\ as'[c] = as[c] /\ could'[c] = could[c]
        /\ h'[f] = "handshake" /\ as'[f] = window /\ could'[f] = Could(reg, window, want[f])
    BY <1>0, <1>6 DEF Admit, PathTypeOK
  <2>2. UNCHANGED <<reg, want, routed, line, late>>
    BY <1>6 DEF Admit, clientVars
  <2> QED BY <1>0, <1>f, <2>1, <2>2, RouteOthers
(* A flow without a line: it asked for no resource, or nothing came in time. *)
<1>7. CASE ReadLine(f) \/ ReadOther(f) \/ ReadNothing(f)
  <2>1. UNCHANGED <<reg, as, want, could, line>>
    BY <1>7 DEF ReadLine, ReadOther, ReadNothing, To, clientVars
  <2>2. \A c \in Flow \ {f} : /\ h'[c] = h[c] /\ routed'[c] = routed[c]
                              /\ (c \in late' <=> c \in late)
    <3>1. PICK step, b : To(f, step, b)
      BY <1>7 DEF ReadLine, ReadOther, ReadNothing
    <3>2. \A c \in Flow \ {f} : h'[c] = h[c] /\ routed'[c] = routed[c]
      BY <1>0, <3>1 DEF To, PathTypeOK
    <3>3. late' = late \/ late' = late \cup {f}
      BY <1>7 DEF ReadLine, ReadOther, ReadNothing
    <3> QED BY <3>2, <3>3
  <2>3. Choosing(f)
    BY <1>7 DEF ReadLine, ReadOther, ReadNothing, Choosing
  <2>4. ASSUME NEW step, NEW b, To(f, step, b) PROVE h'[f] = step /\ routed'[f] = b
    BY <1>0, <2>4 DEF To, PathTypeOK
  <2>5. /\ h'[f] = "dial" => routed'[f] = Default /\ (line[f] = "other" \/ f \in late')
        /\ h'[f] \in {"route", "dial"}
    <3>1. CASE ReadLine(f)
      <4>1. To(f, "route", NoResource)
        BY <3>1 DEF ReadLine
      <4> QED BY <2>4, <4>1
    <3>2. CASE ReadOther(f)
      <4>1. To(f, "dial", Default) /\ line[f] = "other"
        BY <3>2 DEF ReadOther
      <4> QED BY <2>4, <4>1
    <3>3. CASE ReadNothing(f)
      <4>1. To(f, "dial", Default) /\ f \in late'
        BY <3>3 DEF ReadNothing
      <4> QED BY <2>4, <4>1
    <3> QED BY <1>7, <3>1, <3>2, <3>3
  <2> QED BY <1>0, <1>f, <2>1, <2>2, <2>3, <2>5, RouteOthers
(* What is chosen by the registry of now is among what a registry allowed. *)
<1>8. CASE Route(f)
  <2>1. PICK b \in Allows(reg, as[f], want[f]) : To(f, "dial", b)
    BY <1>8 DEF Route
  <2>2. b \in could[f] /\ UNCHANGED <<reg, as, want, could, line, late>>
    BY <1>f, <1>8, <2>1, AllowedIsCould DEF Route, To, clientVars, Choosing
  <2>3. /\ \A c \in Flow \ {f} : h'[c] = h[c] /\ routed'[c] = routed[c]
        /\ h'[f] = "dial" /\ routed'[f] = b
    BY <1>0, <2>1 DEF To, PathTypeOK
  <2> QED BY <1>0, <1>f, <2>2, <2>3, RouteOthers DEF Choosing
<1>9. CASE DialBackend(f)
  <2>1. h'[f] = "relay" /\ UNCHANGED <<reg, want, line>>
    BY <1>0, <1>9 DEF DialBackend, PathTypeOK, clientVars
  <2>2. \A c \in Flow \ {f} : /\ h'[c] = h[c] /\ as'[c] = as[c] /\ routed'[c] = routed[c]
                              /\ could'[c] = could[c] /\ (c \in late' <=> c \in late)
    BY <1>0, <1>9 DEF DialBackend, PathTypeOK
  <2> QED BY <1>0, <1>f, <2>1, <2>2, RouteOthers DEF Choosing
<1>10. ASSUME \/ FlowKnock(f) \/ DialFails(f) \/ UploadEnds(f) \/ DownloadEnds(f) \/ HangUp(f)
              \/ ForwardEnds(f) \/ KillUser(f) \/ BackendCloses(f)
              \/ ForwardReads(f) \/ ForwardWritten(f) \/ RelayReads(f) \/ RelayWritten(f)
       PROVE  UNCHANGED <<reg, h, as, want, routed, could, line, late>>
  BY <1>10 DEF FlowKnock, DialFails, UploadEnds, DownloadEnds, HangUp, ForwardEnds, KillUser,
               BackendCloses, ForwardReads, ForwardWritten, RelayReads, RelayWritten,
               clientVars, handlerVars
<1>11. ASSUME \/ TurnAway(f) \/ HandshakeFails(f) \/ ReadPart(f) \/ RouteFails(f)
              \/ BackendFails(f) \/ RelayEnds(f)
       PROVE  Return(f)
  BY <1>11 DEF TurnAway, HandshakeFails, ReadPart, RouteFails, BackendFails, RelayEnds
<1> QED BY <1>1, <1>2, <1>3, <1>4, <1>5, <1>6, <1>7, <1>8, <1>9, <1>10, <1>11
        DEF PathStep, ClientStep, HandlerStep

LEMMA RouteNext == RouteInv /\ [PathNext]_pathVars => RouteInv'
<1> SUFFICES ASSUME RouteInv, [PathNext]_pathVars PROVE RouteInv'
  OBVIOUS
<1>0. PathTypeOK /\ PathTypeOK'
  BY PathNextType DEF RouteInv
<1>1. ASSUME UNCHANGED <<reg, h, as, want, routed, could, line, late>> PROVE RouteInv'
  BY <1>0, <1>1 DEF RouteInv, Routed, Choosing
<1>2. ASSUME \/ UNCHANGED pathVars \/ KnockArrives \/ ClientDies \/ WindowMoves
      PROVE  UNCHANGED <<reg, h, as, want, routed, could, line, late>>
  BY <1>2 DEF KnockArrives, ClientDies, WindowMoves, pathVars, clientVars, handlerVars
<1>3. ASSUME NEW f \in Flow, PathStep(f) PROVE RouteInv'
  BY <1>3, RouteStep
(* What a new registry allows is added to what was allowed. *)
<1>4. ASSUME NEW p \in Policies, Replace(p) PROVE RouteInv'
  <2>1. reg' = p /\ UNCHANGED <<h, as, want, routed, line, late>>
    BY <1>4 DEF Replace, clientVars
  <2>2. \A c \in Flow : could'[c] = IF Choosing(c) THEN could[c] \cup Could(p, as[c], want[c])
                                    ELSE could[c]
    BY <1>4 DEF Replace, Choosing
  <2> QED BY <1>0, <2>1, <2>2 DEF RouteInv, Routed, Choosing
<1>5. ASSUME NEW f \in Flow, NEW r \in Resource \cup {NoResource}, NEW knocks \in BOOLEAN,
             Capture(f, r, knocks)
      PROVE  RouteInv'
  <2>1. /\ h[f] = "none" /\ line'[f] = "none"
        /\ \A c \in Flow \ {f} : want'[c] = want[c] /\ line'[c] = line[c]
    BY <1>0, <1>5 DEF Capture, PathTypeOK
  <2>2. UNCHANGED <<reg, h, as, routed, could, late>>
    BY <1>5 DEF Capture, handlerVars
  <2> QED BY <1>0, <2>1, <2>2, RouteOthers DEF Choosing
<1> QED BY <1>1, <1>2, <1>3, <1>4, <1>5 DEF PathNext

\* A flow ends up where a registry in force while its handler ran lets whoever
\* the window was for at the second look go under the id its destination is
\* mapped to, whoever has the window since: for any number of flows, users,
\* resources and registries.
THEOREM RoutedTheorem == TunnelSpec => []RoutedAsMapped
<1>1. TunnelInit => TunnelTypeOK /\ RouteInv
  BY EngineInitType, PathInitType, RouteInit DEF TunnelInit, TunnelTypeOK
<1>2. TunnelTypeOK /\ RouteInv /\ [TunnelNext]_tunnelVars => TunnelTypeOK' /\ RouteInv'
  BY TunnelStepType, TunnelIsPath, RouteNext DEF TunnelTypeOK
<1>3. TunnelTypeOK /\ RouteInv => RoutedAsMapped
  BY DEF RouteInv, RoutedAsMapped
<1> QED BY <1>1, <1>2, <1>3, PTL DEF TunnelSpec

=============================================================================
