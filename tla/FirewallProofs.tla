--------------------------- MODULE FirewallProofs ---------------------------
(***************************************************************************)
(* Proofs about DarkFirewall for every set of addresses and users and all  *)
(* lengths of windows and bans.                                            *)
(***************************************************************************)
EXTENDS DarkFirewall, TLAPS

LEMMA AddressIsNotNone == NoIP \notin IP
BY FirewallAssumption DEF FirewallAssumption

(***************************************************************************)
(* Types.                                                                  *)
(***************************************************************************)

LEMMA InitType == Init => TypeOK
<1> SUFFICES ASSUME Init PROVE TypeOK
  OBVIOUS
<1>1. deny \in [User -> 0 .. BanTTL]
  BY FirewallAssumption DEF Init, Nothing, FirewallAssumption
<1> QED BY <1>1 DEF Init, Nothing, TypeOK, Entry

LEMMA StepType == TypeOK /\ [Next]_vars => TypeOK'
<1> SUFFICES ASSUME TypeOK, [Next]_vars PROVE TypeOK'
  OBVIOUS
<1>0. TTL \in Nat /\ BanTTL \in Nat
  BY FirewallAssumption DEF FirewallAssumption
<1>1. ASSUME Start PROVE TypeOK'
  BY <1>1 DEF Start, TypeOK, hist
<1>2. ASSUME Stop PROVE TypeOK'
  <2>1. /\ deny' \in [User -> 0 .. BanTTL]
        /\ batch' \in [Remover -> SUBSET IP]
        /\ cur' \in [Remover -> IP \cup {NoIP}]
    BY <1>0, <1>2 DEF Stop
  <2> QED BY <1>2, <2>1 DEF Stop, TypeOK
<1>3. ASSUME NEW u \in User, Revoke(u) PROVE TypeOK'
  <2>1. m' \subseteq m /\ {e.ip : e \in m \ m'} \subseteq IP
    BY <1>3 DEF Revoke, TypeOK, Entry
  <2>2. batch' \in [Remover -> SUBSET IP]
    BY <1>3, <2>1 DEF Revoke, TypeOK
  <2>3. stray' \subseteq IP
    BY <1>3, <2>1 DEF Revoke, TypeOK
  <2>4. deny' \in [User -> 0 .. BanTTL]
    BY <1>0, <1>3 DEF Revoke, TypeOK
  <2> QED BY <1>3, <2>1, <2>2, <2>3, <2>4 DEF Revoke, TypeOK
<1>4. ASSUME NEW u \in User, NEW ip \in IP, Knock(u, ip) PROVE TypeOK'
  <2>1. [ip |-> ip, user |-> u, left |-> TTL] \in Entry
    BY <1>0 DEF Entry
  <2>2. m' \subseteq Entry
    BY <1>4, <2>1 DEF Knock, TypeOK
  <2> QED BY <1>4, <2>2 DEF Knock, TypeOK
<1>5. ASSUME AddRule PROVE TypeOK'
  BY <1>5 DEF AddRule, TypeOK, hist
<1>6. ASSUME Reap PROVE TypeOK'
  <2>1. m' \subseteq m /\ {e.ip : e \in m \ m'} \subseteq IP
    BY <1>6 DEF Reap, TypeOK, Entry
  <2>2. batch' \in [Remover -> SUBSET IP]
    BY <1>6, <2>1 DEF Reap, TypeOK
  <2> QED BY <1>6, <2>1, <2>2 DEF Reap, TypeOK, hist
<1>7. ASSUME NEW r \in Remover, Look(r) PROVE TypeOK'
  BY <1>7 DEF Look, TypeOK, hist
<1>8. ASSUME NEW r \in Remover, DeleteRule(r) PROVE TypeOK'
  BY <1>8 DEF DeleteRule, TypeOK
<1>9. ASSUME Tick PROVE TypeOK'
  <2>1. ASSUME NEW e \in m PROVE [e EXCEPT !.left = IF @ >= 0 THEN @ - 1 ELSE -1] \in Entry
    BY <1>0 DEF TypeOK, Entry
  <2>2. m' \subseteq Entry
    BY <1>9, <2>1 DEF Tick
  <2>3. deny' \in [User -> 0 .. BanTTL]
    BY <1>0, <1>9 DEF Tick, TypeOK
  <2> QED BY <1>9, <2>2, <2>3 DEF Tick, TypeOK, hist
<1>10. ASSUME UNCHANGED vars PROVE TypeOK'
  BY <1>10 DEF TypeOK, vars, hist
<1> QED BY <1>1, <1>2, <1>3, <1>4, <1>5, <1>6, <1>7, <1>8, <1>9, <1>10 DEF Next

\* Every variable of the allow list and of the kernel's set keeps its type.
THEOREM FirewallTypeCorrect == Spec => []TypeOK
BY InitType, StepType, PTL DEF Spec

(***************************************************************************)
(* The inductive invariant.                                                *)
(***************************************************************************)

\* The rule the SPA loop is about to add has an open window behind it, as long
\* as no ban took it: the clock waits, and the reaper takes only what is over.
OpeningIsBacked ==
    opening # NoIP => Allowed(opening) \/ opening \in stray

\* A remover that has settled on an address found no open window there; one that
\* is there now was opened since.
LookedAgain ==
    \A r \in Remover : cur[r] # NoIP /\ Allowed(cur[r]) => r \in overtaken

\* A process that is gone does nothing.
DownIsIdle ==
    ~up => opening = NoIP /\ \A r \in Remover : cur[r] = NoIP /\ batch[r] = {}

FirewallInv ==
    /\ RuleIsBacked
    /\ OpeningIsBacked
    /\ LookedAgain
    /\ DownIsIdle

LEMMA InitFirewall == Init => FirewallInv
<1> SUFFICES ASSUME Init PROVE FirewallInv
  OBVIOUS
<1>1. TypeOK
  BY InitType
<1> QED BY <1>1 DEF Init, Nothing, FirewallInv, RuleIsBacked, OpeningIsBacked, LookedAgain, DownIsIdle

(* An open window is an entry; more entries at other addresses change nothing. *)
LEMMA AllowedIsListed == \A ip : Allowed(ip) => Listed(ip)
BY DEF Allowed, Listed

LEMMA DownStep ==
    ASSUME TypeOK, DownIsIdle, [Next]_vars
    PROVE  DownIsIdle'
<1>1. ASSUME Start PROVE DownIsIdle'
  BY <1>1 DEF Start, DownIsIdle
<1>2. ASSUME Stop PROVE DownIsIdle'
  BY <1>2 DEF Stop, DownIsIdle
<1>3. ASSUME NEW u \in User, Revoke(u) PROVE DownIsIdle'
  BY <1>3 DEF Revoke, DownIsIdle
<1>4. ASSUME NEW u \in User, NEW ip \in IP, Knock(u, ip) PROVE DownIsIdle'
  BY <1>4 DEF Knock, DownIsIdle
<1>5. ASSUME AddRule PROVE DownIsIdle'
  BY <1>5 DEF AddRule, DownIsIdle
<1>6. ASSUME Reap PROVE DownIsIdle'
  BY <1>6 DEF Reap, DownIsIdle
<1>7. ASSUME NEW r \in Remover, Look(r) PROVE DownIsIdle'
  BY <1>7 DEF Look, DownIsIdle, TypeOK
<1>8. ASSUME NEW r \in Remover, DeleteRule(r) PROVE DownIsIdle'
  BY <1>8 DEF DeleteRule, DownIsIdle, TypeOK
<1>9. ASSUME Tick PROVE DownIsIdle'
  BY <1>9 DEF Tick, DownIsIdle
<1>10. ASSUME UNCHANGED vars PROVE DownIsIdle'
  BY <1>10 DEF DownIsIdle, vars
<1> QED BY <1>1, <1>2, <1>3, <1>4, <1>5, <1>6, <1>7, <1>8, <1>9, <1>10 DEF Next

(* What a tick and a removal leave open was open before. *)
LEMMA TickCloses ==
    ASSUME TypeOK, Tick, NEW ip
    PROVE  /\ Allowed(ip)' => Allowed(ip)
           /\ Listed(ip) => Listed(ip)'
<1> DEFINE Aged(e) == [e EXCEPT !.left = IF @ >= 0 THEN @ - 1 ELSE -1]
<1>1. m' = {Aged(e) : e \in m}
  BY DEF Tick
<1>2. ASSUME NEW e \in m
      PROVE  /\ Aged(e).ip = e.ip
             /\ e.left \in Int
             /\ Aged(e).left = IF e.left >= 0 THEN e.left - 1 ELSE -1
  BY FirewallAssumption DEF TypeOK, Entry, FirewallAssumption
<1>3. ASSUME NEW e \in m, Aged(e).left >= 0 PROVE e.left >= 0
  BY <1>2, <1>3
<1> HIDE DEF Aged
<1>4. Allowed(ip)' => Allowed(ip)
  BY <1>1, <1>2, <1>3 DEF Allowed
<1>5. Listed(ip) => Listed(ip)'
  BY <1>1, <1>2 DEF Listed
<1> QED BY <1>4, <1>5

LEMMA KnockOpens ==
    ASSUME TypeOK, NEW u \in User, NEW ip \in IP, Knock(u, ip)
    PROVE  /\ Allowed(ip)'
           /\ \A i \in IP \ {ip} : (Allowed(i)' <=> Allowed(i)) /\ (Listed(i)' <=> Listed(i))
<1> DEFINE new == [ip |-> ip, user |-> u, left |-> TTL]
<1>1. new.ip = ip /\ new.left >= 0
  BY FirewallAssumption DEF FirewallAssumption
<1>2. m' = {e \in m : e.ip # ip} \cup {new}
  BY DEF Knock
<1> HIDE DEF new
<1> QED BY <1>1, <1>2 DEF Allowed, Listed

LEMMA OpeningStep ==
    ASSUME TypeOK, OpeningIsBacked, DownIsIdle, [Next]_vars
    PROVE  OpeningIsBacked'
<1>0. NoIP \notin IP /\ \A e \in m : e.left \in Int
  BY AddressIsNotNone DEF TypeOK, Entry
<1>1. ASSUME Start PROVE OpeningIsBacked'
  BY <1>1 DEF Start, OpeningIsBacked, DownIsIdle, hist
<1>2. ASSUME Stop PROVE OpeningIsBacked'
  BY <1>2 DEF Stop, OpeningIsBacked
<1>3. ASSUME NEW u \in User, Revoke(u) PROVE OpeningIsBacked'
  BY <1>3 DEF Revoke, OpeningIsBacked, Allowed
<1>4. ASSUME NEW u \in User, NEW ip \in IP, Knock(u, ip) PROVE OpeningIsBacked'
  <2>1. opening' = ip /\ Allowed(ip)'
    BY <1>4, KnockOpens DEF Knock
  <2> QED BY <2>1 DEF OpeningIsBacked, Allowed
<1>5. ASSUME AddRule PROVE OpeningIsBacked'
  BY <1>5 DEF AddRule, OpeningIsBacked
<1>6. ASSUME Reap PROVE OpeningIsBacked'
  BY <1>6 DEF Reap, OpeningIsBacked, Allowed, hist
<1>7. ASSUME NEW r \in Remover, Look(r) PROVE OpeningIsBacked'
  BY <1>7 DEF Look, OpeningIsBacked, Allowed, hist
<1>8. ASSUME NEW r \in Remover, DeleteRule(r) PROVE OpeningIsBacked'
  BY <1>8 DEF DeleteRule, OpeningIsBacked, Allowed
<1>9. ASSUME Tick PROVE OpeningIsBacked'
  BY <1>9 DEF Tick, OpeningIsBacked
<1>10. ASSUME UNCHANGED vars PROVE OpeningIsBacked'
  BY <1>10 DEF OpeningIsBacked, Allowed, vars, hist
<1> QED BY <1>1, <1>2, <1>3, <1>4, <1>5, <1>6, <1>7, <1>8, <1>9, <1>10 DEF Next

LEMMA LookedStep ==
    ASSUME TypeOK, LookedAgain, DownIsIdle, [Next]_vars
    PROVE  LookedAgain'
<1>0. \A r \in Remover : cur[r] \in IP \cup {NoIP}
  BY DEF TypeOK
<1>1. ASSUME Start PROVE LookedAgain'
  BY <1>1 DEF Start, LookedAgain, DownIsIdle
<1>2. ASSUME Stop PROVE LookedAgain'
  BY <1>2 DEF Stop, LookedAgain
<1>3. ASSUME NEW u \in User, Revoke(u) PROVE LookedAgain'
  BY <1>3 DEF Revoke, LookedAgain, Allowed
<1>4. ASSUME NEW u \in User, NEW ip \in IP, Knock(u, ip) PROVE LookedAgain'
  <2> SUFFICES ASSUME NEW r \in Remover, cur[r]' # NoIP, Allowed(cur[r])'
               PROVE  r \in overtaken'
    BY DEF LookedAgain
  <2>1. cur' = cur /\ overtaken' = overtaken \cup {s \in Remover : cur[s] = ip}
    BY <1>4 DEF Knock
  <2>2. CASE cur[r] = ip
    BY <2>1, <2>2
  <2>3. CASE cur[r] # ip
    <3>1. PICK i \in IP \ {ip} : i = cur[r]
      BY <1>0, <2>1, <2>3
    <3>2. Allowed(i)'
      BY <2>1, <3>1 DEF Allowed
    <3>3. Allowed(i)
      BY <1>4, <3>2, KnockOpens
    <3> QED BY <2>1, <3>1, <3>3, AddressIsNotNone DEF LookedAgain
  <2> QED BY <2>2, <2>3
<1>5. ASSUME AddRule PROVE LookedAgain'
  BY <1>5 DEF AddRule, LookedAgain, Allowed, hist
<1>6. ASSUME Reap PROVE LookedAgain'
  BY <1>6 DEF Reap, LookedAgain, Allowed, hist
<1>7. ASSUME NEW r \in Remover, Look(r) PROVE LookedAgain'
  <2>1. PICK ip \in batch[r] : cur' = [cur EXCEPT ![r] = IF Allowed(ip) THEN NoIP ELSE ip]
    BY <1>7 DEF Look
  <2>2. \A i : Allowed(i)' <=> Allowed(i)
    BY <1>7 DEF Look, Allowed
  <2>3. overtaken' = overtaken
    BY <1>7 DEF Look, hist
  <2>4. ASSUME NEW s \in Remover, cur'[s] # NoIP, Allowed(cur'[s])
        PROVE  s \in overtaken
    BY <2>1, <2>4 DEF LookedAgain, TypeOK
  <2> QED BY <2>2, <2>3, <2>4 DEF LookedAgain, Allowed
<1>8. ASSUME NEW r \in Remover, DeleteRule(r) PROVE LookedAgain'
  BY <1>8 DEF DeleteRule, LookedAgain, Allowed, TypeOK
<1>9. ASSUME Tick PROVE LookedAgain'
  <2>1. cur' = cur /\ overtaken' = overtaken
    BY <1>9 DEF Tick, hist
  <2>2. \A r \in Remover : Allowed(cur[r])' => Allowed(cur[r])
    BY <1>9, <2>1, TickCloses DEF Allowed
  <2> QED BY <2>1, <2>2 DEF LookedAgain
<1>10. ASSUME UNCHANGED vars PROVE LookedAgain'
  BY <1>10 DEF LookedAgain, Allowed, vars, hist
<1> QED BY <1>1, <1>2, <1>3, <1>4, <1>5, <1>6, <1>7, <1>8, <1>9, <1>10 DEF Next

LEMMA BackedStep ==
    ASSUME FirewallInv, [Next]_vars
    PROVE  RuleIsBacked'
<1>0. TypeOK /\ TypeOK'
  BY StepType DEF FirewallInv, RuleIsBacked
<1> SUFFICES ASSUME up', NEW ip \in rules'
             PROVE  Listed(ip)' \/ Pending(ip)' \/ ip \in stray'
  BY <1>0 DEF RuleIsBacked
<1>a. ip \in IP /\ ip # NoIP
  BY <1>0, AddressIsNotNone DEF TypeOK
<1>b. up /\ ip \in rules => Listed(ip) \/ Pending(ip) \/ ip \in stray
  BY DEF FirewallInv, RuleIsBacked
<1>1. ASSUME Start PROVE ip \in stray'
  BY <1>1 DEF Start
<1>2. ASSUME Stop PROVE FALSE
  BY <1>2 DEF Stop
<1>3. ASSUME NEW u \in User, Revoke(u) PROVE Listed(ip)' \/ Pending(ip)' \/ ip \in stray'
  <2>1. up /\ ip \in rules /\ stray \subseteq stray' /\ cur' = cur
    BY <1>3 DEF Revoke
  <2>2. /\ batch["poller"] = {} /\ cur["poller"] = NoIP
        /\ batch' = [batch EXCEPT !["poller"] = {e.ip : e \in m \ m'}]
    BY <1>3 DEF Revoke
  <2>3. CASE Listed(ip)
    BY <1>0, <2>2, <2>3 DEF Listed, Pending, TypeOK, Remover
  <2>4. CASE Pending(ip)
    BY <1>0, <1>a, <2>1, <2>2, <2>4 DEF Pending, TypeOK
  <2> QED BY <1>b, <2>1, <2>3, <2>4
<1>4. ASSUME NEW u \in User, NEW i \in IP, Knock(u, i)
      PROVE  Listed(ip)' \/ Pending(ip)' \/ ip \in stray'
  <2>1. up /\ ip \in rules /\ batch' = batch /\ cur' = cur /\ stray' = stray \ {i}
    BY <1>4 DEF Knock
  <2>2. CASE ip = i
    <3>1. Allowed(ip)'
      BY <1>0, <1>4, <2>2, KnockOpens
    <3> QED BY <3>1 DEF Allowed, Listed
  <2>3. CASE ip # i
    <3>1. Listed(ip)' <=> Listed(ip)
      BY <1>4, <1>0, <1>a, <2>3, KnockOpens
    <3>2. Pending(ip) => Pending(ip)'
      BY <2>1 DEF Pending
    <3> QED BY <1>b, <2>1, <2>3, <3>1, <3>2
  <2> QED BY <2>2, <2>3
<1>5. ASSUME AddRule PROVE Listed(ip)' \/ Pending(ip)' \/ ip \in stray'
  <2>1. UNCHANGED <<up, m, batch, cur, stray>>
    BY <1>5 DEF AddRule, hist
  <2>2. Listed(ip) \/ Pending(ip) \/ ip \in stray
    <3>1. CASE ip \in rules
      BY <1>b, <2>1, <3>1
    <3>2. CASE ip \notin rules
      <4>1. ip = opening
        BY <1>5, <3>2 DEF AddRule
      <4> QED BY <1>a, <4>1, AllowedIsListed DEF FirewallInv, OpeningIsBacked
    <3> QED BY <3>1, <3>2
  <2> QED BY <2>1, <2>2 DEF Listed, Pending
<1>6. ASSUME Reap PROVE Listed(ip)' \/ Pending(ip)' \/ ip \in stray'
  <2>1. up /\ ip \in rules /\ stray' = stray /\ cur' = cur
    BY <1>6 DEF Reap, hist
  <2>2. /\ batch["reaper"] = {} /\ cur["reaper"] = NoIP
        /\ batch' = [batch EXCEPT !["reaper"] = {e.ip : e \in m \ m'}]
    BY <1>6 DEF Reap
  <2>3. CASE Listed(ip)
    BY <1>0, <2>2, <2>3 DEF Listed, Pending, TypeOK, Remover
  <2>4. CASE Pending(ip)
    BY <1>0, <1>a, <2>1, <2>2, <2>4 DEF Pending, TypeOK
  <2> QED BY <1>b, <2>1, <2>3, <2>4
<1>7. ASSUME NEW r \in Remover, Look(r) PROVE Listed(ip)' \/ Pending(ip)' \/ ip \in stray'
  <2>1. up /\ ip \in rules /\ stray' = stray /\ m' = m /\ cur[r] = NoIP
    BY <1>7 DEF Look, hist
  <2>2. PICK i \in batch[r] :
            /\ batch' = [batch EXCEPT ![r] = @ \ {i}]
            /\ cur' = [cur EXCEPT ![r] = IF Allowed(i) THEN NoIP ELSE i]
    BY <1>7 DEF Look
  <2>3. Pending(ip) => Pending(ip)' \/ Allowed(ip)
    BY <1>0, <1>a, <2>1, <2>2 DEF Pending, TypeOK
  <2>4. Listed(ip) => Listed(ip)'
    BY <2>1 DEF Listed
  <2> QED BY <1>b, <2>1, <2>3, <2>4, AllowedIsListed
<1>8. ASSUME NEW r \in Remover, DeleteRule(r)
      PROVE  Listed(ip)' \/ Pending(ip)' \/ ip \in stray'
  <2>1. up /\ ip \in rules /\ m' = m /\ batch' = batch /\ stray \subseteq stray'
    BY <1>8 DEF DeleteRule
  <2>2. cur' = [cur EXCEPT ![r] = NoIP] /\ (cur[r] = ip => ip \in stray')
    BY <1>8 DEF DeleteRule
  <2>3. Pending(ip) => Pending(ip)' \/ ip \in stray'
    BY <1>0, <2>1, <2>2 DEF Pending, TypeOK
  <2>4. Listed(ip) => Listed(ip)'
    BY <2>1 DEF Listed
  <2> QED BY <1>b, <2>1, <2>3, <2>4
<1>9. ASSUME Tick PROVE Listed(ip)' \/ Pending(ip)' \/ ip \in stray'
  <2>1. up /\ ip \in rules /\ stray' = stray /\ cur' = cur /\ batch' = batch
    BY <1>9 DEF Tick, hist
  <2>2. Listed(ip) => Listed(ip)'
    BY <1>0, <1>9, TickCloses
  <2> QED BY <1>b, <2>1, <2>2 DEF Pending
<1>10. ASSUME UNCHANGED vars PROVE Listed(ip)' \/ Pending(ip)' \/ ip \in stray'
  BY <1>b, <1>10 DEF Listed, Pending, vars, hist
<1> QED BY <1>1, <1>2, <1>3, <1>4, <1>5, <1>6, <1>7, <1>8, <1>9, <1>10 DEF Next

LEMMA FirewallStep == FirewallInv /\ [Next]_vars => FirewallInv'
BY BackedStep, OpeningStep, LookedStep, DownStep DEF FirewallInv, RuleIsBacked

LEMMA FirewallInductive == Spec => []FirewallInv
BY InitFirewall, FirewallStep, PTL DEF Spec

(***************************************************************************)
(* The properties.                                                         *)
(***************************************************************************)

\* While the gateway runs, a rule in the kernel has an entry of the allow list
\* behind it, or a remover is at it, or it went one of the three ways around
\* that are in "stray".
THEOREM RuleTheorem == Spec => []RuleIsBacked
<1>1. FirewallInv => RuleIsBacked
  BY DEF FirewallInv
<1> QED BY <1>1, FirewallInductive, PTL

\* A removal takes the rule of an open window only if the window was opened
\* between the remover's look and its command.
THEOREM LiveRuleTheorem == Spec => LiveRuleStays
<1> DEFINE P == \A r \in Remover : cur[r] \in rules \ rules' /\ up' /\ Allowed(cur[r])
                    => r \in overtaken
<1>1. FirewallInv => P
  <2> SUFFICES ASSUME FirewallInv, NEW r \in Remover, cur[r] \in rules, Allowed(cur[r])
               PROVE  r \in overtaken
    OBVIOUS
  <2>1. cur[r] # NoIP
    BY AddressIsNotNone DEF FirewallInv, RuleIsBacked, TypeOK
  <2> QED BY <2>1 DEF FirewallInv, LookedAgain
<1> QED BY <1>1, FirewallInductive, PTL DEF LiveRuleStays

=============================================================================
