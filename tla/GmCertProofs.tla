---------------------------- MODULE GmCertProofs ----------------------------
(***************************************************************************)
(* Proofs about GmCert, for any number of processes and clients, of faults *)
(* and of certificates that age.                                           *)
(***************************************************************************)
EXTENDS GmCert, TLAPS

(***************************************************************************)
(* The inductive invariant.                                                *)
(***************************************************************************)

\* Whoever works on the directory holds its lock, hence works there alone.
LockHeld == \A p \in Proc : pc[p] \in Working <=> lock = p

\* p writes the certificate authority: the certificate is there, the key not yet.
HalfWritten(p) == pc[p] = "putKey" /\ job[p] = "ca"

\* A start has its CA before it turns to the leaves, and nothing before that.
HasCA ==
    \A p \in Proc :
        /\ pc[p] \in {"off", "wait"} => job[p] = "ca"
        /\ job[p] = "ca" => ca[p] = NoCA
        /\ job[p] # "ca" => ca[p].cert \in Key /\ ca[p].key \in Key
        /\ pc[p] = "putKey" => used \in Key
        /\ pc[p] = "back" => job[p] # "ca"
        /\ pc[p] = "serving" => job[p] = "enc"

\* What it has settled verifies by that CA, and so does what it has just written.
LeafVerifies(p, c) == c.by = ca[p].cert /\ c.pub \in Key

LeavesVerify ==
    \A p \in Proc :
        /\ pc[p] = "serving" \/ job[p] = "enc" => LeafVerifies(p, served[p]["sign"])
        /\ pc[p] = "serving" => LeafVerifies(p, served[p]["enc"])
        /\ pc[p] \in {"putKey", "back"} /\ job[p] # "ca" /\ certFile[job[p]].pub \in Key
              => certFile[job[p]].by = ca[p].cert

\* A key is drawn once: no two certificates are about the same one.
KeysAreDrawn ==
    /\ \A r \in Pair : certFile[r].pub <= used
    /\ aged \subseteq 1 .. used
    /\ \A p \in Proc, l \in Leaf : served[p][l].pub <= used
    /\ \A r, s \in Pair : r # s /\ certFile[r].pub \in Key => certFile[r].pub # certFile[s].pub

\* The CA's certificate on disk is spoiled when it has aged, when its key is gone
\* (unless the key is yet to be written), and before anyone gives it up.
CaCert == certFile["ca"].pub
CaKey == keyFile["ca"]
CaSpoiled == CaCert \in Key => CaCert \in spoiled

SpoiledIsKnown ==
    /\ CaCert \in aged => CaCert \in spoiled
    /\ CaKey \notin Key => CaSpoiled \/ \E p \in Proc : HalfWritten(p)
    /\ \A p \in Proc : pc[p] \in {"dropCert", "dropKey", "putCert"} /\ job[p] = "ca" => CaSpoiled
    /\ \A p \in Proc : HalfWritten(p) => CaCert = used \/ used \in spoiled

\* A CA that somebody goes by is the one on disk, or is spoiled.
Known == {pool[c] : c \in Client} \cup {ca[p].cert : p \in Proc}

OneCA == \A k \in Known : k # Missing /\ k \notin spoiled => k = CaCert

\* A lone key costs one fault, a pair that does not match a second one.
PairsCost ==
    /\ CaKey \in Key /\ CaCert \notin Key
          => faults >= 1 \/ \E p \in Proc : pc[p] = "dropKey" /\ job[p] = "ca"
    /\ CaKey \in Key /\ CaCert \in Key /\ CaKey # CaCert
          => faults >= 2 \/ \E p \in Proc : HalfWritten(p)
    /\ \A p \in Proc : pc[p] \in {"putCert", "putKey"} /\ job[p] = "ca" /\ CaKey \in Key => faults >= 1
    /\ \A p \in Proc : HalfWritten(p) => CaCert = used \/ (CaCert \notin Key /\ faults >= 1)

\* A process that is not known to have outlived its leaf holds none in its last 30
\* days, let alone one past its end.
YoungHeld ==
    /\ over \subseteq aged
    /\ \A p \in Proc : p \notin outlived =>
          /\ \A l \in Leaf : served[p][l].pub \notin aged
          /\ pc[p] \in {"putKey", "back"} /\ job[p] \in Leaf => certFile[job[p]].pub \notin aged

GmCertInv ==
    /\ TypeOK
    /\ LockHeld
    /\ HasCA
    /\ LeavesVerify
    /\ KeysAreDrawn
    /\ SpoiledIsKnown
    /\ OneCA
    /\ PairsCost
    /\ TakenPairMatches
    /\ YoungHeld

(***************************************************************************)
(* Types.                                                                  *)
(***************************************************************************)

LEMMA FilesType ==
    /\ Missing \in FileState /\ Unreadable \in FileState /\ Missing \notin Key /\ Unreadable \notin Key
    /\ Key \subseteq FileState
    /\ \A k \in FileState : k \in Key \/ k = Missing \/ k = Unreadable
    /\ NoCert \in Cert /\ BadCert \in Cert /\ NoCert.pub = Missing /\ BadCert.pub = Unreadable
    /\ NoCA \in [cert : FileState, key : FileState] /\ NoCA.cert = Missing /\ NoCA.key = Missing
    /\ \A n \in Nat : n + 1 \in Key
    /\ CaKeys \subseteq Key
BY DEF FileState, Key, Missing, Unreadable, NoCert, BadCert, Cert, NoCA, CaKeys

LEMMA SettleType ==
    ASSUME pc \in [Proc -> Step], job \in [Proc -> Pair], lock \in Proc \cup {Nobody},
           NEW p \in Proc, Settle(p)
    PROVE  pc' \in [Proc -> Step] /\ job' \in [Proc -> Pair] /\ lock' \in Proc \cup {Nobody}
BY DEF Settle, Go, Step, Pair, Leaf, After

LEMMA ExitType ==
    ASSUME TypeOK, NEW p \in Proc, Exit(p)
    PROVE  /\ pc' \in [Proc -> Step] /\ job' \in [Proc -> Pair]
           /\ ca' \in [Proc -> [cert : FileState, key : FileState]]
           /\ served' \in [Proc -> [Leaf -> Cert]]
           /\ outlived' \subseteq Proc /\ UNCHANGED <<aged, over>>
BY FilesType DEF Exit, Go, Step, Pair, TypeOK

LEMMA InitType == Init => TypeOK
BY FilesType, GmCertAssumption DEF Init, TypeOK, GmCertAssumption, Step, Pair

LEMMA StepType == TypeOK /\ [Next]_vars => TypeOK'
<1> SUFFICES ASSUME TypeOK, [Next]_vars PROVE TypeOK'
  OBVIOUS
<1> USE DEF disk, life
<1>1. ASSUME NEW p \in Proc, Start(p) PROVE TypeOK'
  BY <1>1 DEF Start, Go, TypeOK, Step
<1>2. ASSUME NEW p \in Proc, Acquire(p) PROVE TypeOK'
  BY <1>2 DEF Acquire, Go, TypeOK, Step
<1>3. ASSUME NEW p \in Proc, Stat(p) PROVE TypeOK'
  BY <1>3 DEF Stat, Go, TypeOK, Step
<1>4. ASSUME NEW p \in Proc, Reuse(p) PROVE TypeOK'
  <2>1. pc' \in [Proc -> Step] /\ job' \in [Proc -> Pair] /\ lock' \in Proc \cup {Nobody}
    BY <1>4, SettleType DEF Reuse, TypeOK
  <2>2. certFile["ca"].pub \in FileState /\ keyFile["ca"] \in FileState /\ certFile[job[p]] \in Cert
    BY DEF TypeOK, Pair, Cert
  <2>3. ca' \in [Proc -> [cert : FileState, key : FileState]]
    BY <1>4, <2>2 DEF Reuse, TypeOK
  <2>4. served' \in [Proc -> [Leaf -> Cert]]
    <3>1. CASE job[p] = "ca"
      BY <1>4, <3>1 DEF Reuse, TypeOK
    <3>2. CASE job[p] # "ca"
      <4>1. job[p] \in Leaf /\ served' = [served EXCEPT ![p][job[p]] = certFile[job[p]]]
        BY <1>4, <3>2 DEF Reuse, TypeOK, Pair
      <4> QED BY <2>2, <4>1 DEF TypeOK
    <3> QED BY <3>1, <3>2
  <2> QED BY <1>4, <2>1, <2>3, <2>4 DEF Reuse, TypeOK
<1>5. ASSUME NEW p \in Proc, Reject(p) PROVE TypeOK'
  BY <1>5 DEF Reject, Go, TypeOK, Step
<1>6. ASSUME NEW p \in Proc, DropCert(p) PROVE TypeOK'
  <2>1. certFile' \in [Pair -> Cert]
    BY <1>6, FilesType DEF DropCert, TypeOK
  <2>2. faults' \in 0 .. MaxFaults
    BY <1>6, GmCertAssumption DEF DropCert, FileFails, TypeOK, GmCertAssumption
  <2> QED BY <1>6, <2>1, <2>2 DEF DropCert, Go, TypeOK, Step
<1>7. ASSUME NEW p \in Proc, DropKey(p) PROVE TypeOK'
  <2>1. keyFile' \in [Pair -> FileState]
    BY <1>7, FilesType DEF DropKey, TypeOK
  <2>2. faults' \in 0 .. MaxFaults
    BY <1>7, GmCertAssumption DEF DropKey, FileFails, TypeOK, GmCertAssumption
  <2> QED BY <1>7, <2>1, <2>2 DEF DropKey, Go, TypeOK, Step
<1>8. ASSUME NEW p \in Proc, PutCert(p) PROVE TypeOK'
  <2>1. [pub |-> NewKey, by |-> IF job[p] = "ca" THEN NewKey ELSE ca[p].key] \in Cert
    BY FilesType DEF TypeOK, NewKey, Cert
  <2> QED BY <1>8, <2>1 DEF PutCert, Go, NewKey, TypeOK, Step
<1>9. ASSUME NEW p \in Proc, SignFails(p) PROVE TypeOK'
  BY <1>9, ExitType DEF SignFails, Abort, TypeOK
<1>10. ASSUME NEW p \in Proc, PutKey(p) PROVE TypeOK'
  <2>1. used \in FileState
    BY DEF TypeOK, FileState, Key, Missing
  <2>2. pc' \in [Proc -> Step] /\ job' \in [Proc -> Pair] /\ lock' \in Proc \cup {Nobody}
    BY <1>10, SettleType DEF PutKey, Go, Step, TypeOK
  <2>3. ca' \in [Proc -> [cert : FileState, key : FileState]]
    BY <1>10, <2>1 DEF PutKey, TypeOK
  <2>4. keyFile' \in [Pair -> FileState]
    BY <1>10, <2>1 DEF PutKey, TypeOK
  <2> QED BY <1>10, <2>2, <2>3, <2>4 DEF PutKey, TypeOK
<1>11. ASSUME NEW p \in Proc, ReadBack(p) PROVE TypeOK'
  <2>1. pc' \in [Proc -> Step] /\ job' \in [Proc -> Pair] /\ lock' \in Proc \cup {Nobody}
    BY <1>11, SettleType DEF ReadBack, TypeOK
  <2>2. certFile[job[p]] \in Cert
    BY DEF TypeOK
  <2>3. served' \in [Proc -> [Leaf -> Cert]]
    BY <1>11, <2>2 DEF ReadBack, TypeOK
  <2> QED BY <1>11, <2>1, <2>3 DEF ReadBack, TypeOK
<1>12. ASSUME NEW p \in Proc, ReadBackFails(p) PROVE TypeOK'
  BY <1>12, ExitType DEF ReadBackFails, Abort, TypeOK
<1>13. ASSUME NEW p \in Proc, Stop(p) PROVE TypeOK'
  BY <1>13, ExitType DEF Stop, TypeOK
<1>14. ASSUME NEW p \in Proc, Interrupt(p) PROVE TypeOK'
  <2>1. faults' \in 0 .. MaxFaults /\ spoiled' \subseteq Key
    BY <1>14, FilesType, GmCertAssumption DEF Interrupt, FileFails, TypeOK, GmCertAssumption
  <2> QED BY <1>14, <2>1, ExitType DEF Interrupt, Abort, TypeOK
<1>15. ASSUME NEW c \in Client, LoadCAPool(c) PROVE TypeOK'
  BY <1>15 DEF LoadCAPool, TypeOK
<1>16. ASSUME NEW r \in Pair, SpoilCert(r) PROVE TypeOK'
  <2>1. faults' \in 0 .. MaxFaults /\ spoiled' \subseteq Key /\ certFile' \in [Pair -> Cert]
    BY <1>16, FilesType, GmCertAssumption DEF SpoilCert, FileFails, TypeOK, GmCertAssumption
  <2> QED BY <1>16, <2>1 DEF SpoilCert, TypeOK
<1>17. ASSUME NEW r \in Pair, SpoilKey(r) PROVE TypeOK'
  <2>1. faults' \in 0 .. MaxFaults /\ spoiled' \subseteq Key /\ keyFile' \in [Pair -> FileState]
    BY <1>17, FilesType, GmCertAssumption
    DEF SpoilKey, FileFails, TypeOK, GmCertAssumption
  <2> QED BY <1>17, <2>1 DEF SpoilKey, TypeOK
<1>18. ASSUME NEW k, Age(k) PROVE TypeOK'
  <2>1. aged' \subseteq Key /\ spoiled' \subseteq Key /\ outlived' \subseteq Proc
    BY <1>18, FilesType DEF Age, TypeOK
  <2> QED BY <1>18, <2>1 DEF Age, TypeOK
<1>20. ASSUME NEW p \in Proc, NEW l \in Leaf, Expire(p, l) PROVE TypeOK'
  <2>1. over' \subseteq Key
    BY <1>20 DEF Expire, TypeOK
  <2> QED BY <1>20, <2>1 DEF Expire, TypeOK
<1>19. CASE UNCHANGED vars
  BY <1>19 DEF vars, TypeOK
<1> QED
  BY <1>1, <1>2, <1>3, <1>4, <1>5, <1>6, <1>7, <1>8, <1>9, <1>10, <1>11, <1>12, <1>13, <1>14,
     <1>15, <1>16, <1>17, <1>18, <1>19, <1>20
  DEF Next, Work

(***************************************************************************)
(* The steps, conjunct by conjunct.                                        *)
(***************************************************************************)

LEMMA InitInv == Init => GmCertInv
<1> SUFFICES ASSUME Init PROVE GmCertInv
  OBVIOUS
<1>1. TypeOK
  BY InitType
<1>2. \A p \in Proc : pc[p] = "off" /\ job[p] = "ca" /\ ca[p] = NoCA
  BY DEF Init
<1>3. \A r \in Pair : certFile[r].pub = Missing /\ keyFile[r] = Missing
  BY FilesType DEF Init
<1>4. "ca" \in Pair
  BY DEF Pair
<1>5. LockHeld
  BY <1>2, GmCertAssumption DEF Init, LockHeld, Working, GmCertAssumption
<1>6. HasCA /\ LeavesVerify /\ TakenPairMatches
  BY <1>2, FilesType DEF HasCA, LeavesVerify, TakenPairMatches
<1>7. KeysAreDrawn
  BY <1>3, FilesType DEF Init, KeysAreDrawn, Missing
<1>8. SpoiledIsKnown
  BY <1>2, <1>3, <1>4, FilesType
  DEF Init, SpoiledIsKnown, CaSpoiled, CaCert, CaKey, HalfWritten
<1>9. OneCA
  BY <1>2, FilesType DEF Init, OneCA, Known
<1>10. PairsCost
  BY <1>2, <1>3, <1>4, FilesType DEF PairsCost, CaCert, CaKey, HalfWritten
<1>11. YoungHeld
  BY <1>2 DEF Init, YoungHeld
<1> QED BY <1>1, <1>5, <1>6, <1>7, <1>8, <1>9, <1>10, <1>11 DEF GmCertInv

LEMMA LockStep ==
    ASSUME TypeOK, LockHeld, [Next]_vars
    PROVE  LockHeld'
<1> USE GmCertAssumption DEF GmCertAssumption, Working, Step, Go
<1>0. pc \in [Proc -> Step] /\ \A p \in Proc : pc[p] \in Working <=> lock = p
  BY DEF TypeOK, LockHeld
<1>1. ASSUME NEW p \in Proc, pc' = [pc EXCEPT ![p] = pc'[p]],
             \/ lock' = lock /\ (pc'[p] \in Working <=> pc[p] \in Working)
             \/ lock = Nobody /\ lock' = p /\ pc'[p] \in Working
             \/ lock = p /\ lock' = Nobody /\ pc'[p] \notin Working
      PROVE  LockHeld'
  BY <1>0, <1>1 DEF LockHeld
<1>2. CASE UNCHANGED <<pc, lock>>
  BY <1>2 DEF LockHeld
<1>3. ASSUME NEW p \in Proc, Start(p) \/ Stop(p) PROVE LockHeld'
  BY <1>0, <1>1, <1>3 DEF Start, Stop, Exit
<1>4. ASSUME NEW p \in Proc, Acquire(p) PROVE LockHeld'
  BY <1>0, <1>1, <1>4 DEF Acquire
<1>5. ASSUME NEW p \in Proc, Stat(p) \/ Reject(p) \/ DropCert(p) \/ DropKey(p) \/ PutCert(p)
      PROVE  LockHeld'
  BY <1>0, <1>1, <1>5 DEF Stat, Reject, DropCert, DropKey, PutCert
<1>6. ASSUME NEW p \in Proc, Reuse(p) \/ PutKey(p) \/ ReadBack(p) PROVE LockHeld'
  BY <1>0, <1>1, <1>6 DEF Reuse, PutKey, ReadBack, Settle
<1>7. ASSUME NEW p \in Proc, SignFails(p) \/ ReadBackFails(p) \/ Interrupt(p) PROVE LockHeld'
  BY <1>0, <1>1, <1>7 DEF SignFails, ReadBackFails, Interrupt, Abort, Exit
<1> QED
  BY <1>2, <1>3, <1>4, <1>5, <1>6, <1>7
  DEF Next, Work, vars, LoadCAPool, SpoilCert, SpoilKey, Age, Expire

LEMMA HasCAStep ==
    ASSUME TypeOK, HasCA, [Next]_vars
    PROVE  HasCA'
<1> USE DEF HasCA
<1>0. /\ pc \in [Proc -> Step] /\ job \in [Proc -> Pair]
      /\ ca \in [Proc -> [cert : FileState, key : FileState]]
  BY DEF TypeOK
<1>1. CASE UNCHANGED <<pc, job, ca, used>>
  BY <1>1
<1>2. ASSUME NEW p \in Proc,
             Start(p) \/ Acquire(p) \/ Stat(p) \/ Reject(p) \/ DropCert(p) \/ DropKey(p)
      PROVE  HasCA'
  BY <1>0, <1>2 DEF Start, Acquire, Stat, Reject, DropCert, DropKey, Go
<1>a. ASSUME NEW p \in Proc, PutCert(p) PROVE HasCA'
  <2>1. used' \in Key
    BY <1>a, FilesType DEF PutCert, NewKey, TypeOK
  <2> QED BY <1>0, <1>a, <2>1 DEF PutCert, Go
<1>3. ASSUME NEW p \in Proc, Reuse(p) PROVE HasCA'
  <2>1. CASE job[p] = "ca"
    <3>1. /\ job' = [job EXCEPT ![p] = "sign"] /\ pc' = [pc EXCEPT ![p] = "stat"]
          /\ ca' = [ca EXCEPT ![p] = [cert |-> certFile["ca"].pub, key |-> keyFile["ca"]]]
          /\ used' = used
      BY <1>0, <1>3, <2>1 DEF Reuse, Settle, Go, After
    <3>2. certFile["ca"].pub \in Key /\ keyFile["ca"] \in Key
      BY <1>3, <2>1 DEF Reuse, Loads
    <3> QED BY <1>0, <3>1, <3>2
  <2>2. CASE job[p] # "ca"
    BY <1>0, <1>3, <2>2 DEF Reuse, Settle, Go, After, Pair, Leaf
  <2> QED BY <2>1, <2>2
<1>4. ASSUME NEW p \in Proc, PutKey(p) PROVE HasCA'
  BY <1>0, <1>4 DEF PutKey, Settle, Go, After, Pair, Leaf
<1>5. ASSUME NEW p \in Proc, ReadBack(p) PROVE HasCA'
  BY <1>0, <1>5 DEF ReadBack, Settle, Go, After, Pair, Leaf
<1>6. ASSUME NEW p \in Proc, Exit(p), used' = used PROVE HasCA'
  BY <1>0, <1>6 DEF Exit, Go
<1> QED
  BY <1>1, <1>2, <1>a, <1>3, <1>4, <1>5, <1>6
  DEF Next, Work, vars, SignFails, ReadBackFails, Stop, Interrupt, Abort, LoadCAPool, SpoilCert,
      SpoilKey, Age, Expire, disk

LEMMA LeavesStep ==
    ASSUME TypeOK, LockHeld, HasCA, LeavesVerify, [Next]_vars
    PROVE  LeavesVerify'
<1> USE DEF LeavesVerify, LeafVerifies, disk
<1>0. /\ pc \in [Proc -> Step] /\ job \in [Proc -> Pair] /\ certFile \in [Pair -> Cert]
      /\ ca \in [Proc -> [cert : FileState, key : FileState]]
      /\ served \in [Proc -> [Leaf -> Cert]]
  BY DEF TypeOK
<1>1. CASE UNCHANGED <<pc, job, ca, served, certFile>>
  BY <1>1
<1>2. ASSUME NEW p \in Proc, Start(p) \/ Acquire(p) \/ Stat(p) \/ Reject(p) \/ DropKey(p)
      PROVE  LeavesVerify'
  BY <1>0, <1>2 DEF Start, Acquire, Stat, Reject, DropKey, Go
<1>3. ASSUME NEW p \in Proc, Exit(p), UNCHANGED certFile PROVE LeavesVerify'
  BY <1>0, <1>3 DEF Exit, Go
\* A file that is spoiled holds no key; nobody but the holder of the lock writes one.
<1>4. ASSUME NEW r \in Pair, certFile' = [certFile EXCEPT ![r] = certFile'[r]],
             certFile'[r].pub \notin Key, UNCHANGED <<job, ca, served>>,
             \A p \in Proc : pc'[p] \in {"serving", "putKey", "back"} => pc'[p] = pc[p]
      PROVE  LeavesVerify'
  BY <1>0, <1>4
<1>5. ASSUME NEW p \in Proc, DropCert(p) PROVE LeavesVerify'
  <2>1. job[p] \in Pair /\ UNCHANGED <<job, ca, served>> /\ pc' = [pc EXCEPT ![p] = "dropKey"]
    BY <1>0, <1>5 DEF DropCert, Go
  <2>2. \A q \in Proc : pc'[q] \in {"serving", "putKey", "back"} => pc'[q] = pc[q]
    BY <1>0, <2>1
  <2>3. CASE certFile' = [certFile EXCEPT ![job[p]] = NoCert]
    BY <1>0, <1>4, <2>1, <2>2, <2>3, FilesType
  <2>4. CASE UNCHANGED certFile
    BY <1>0, <2>1, <2>2, <2>4
  <2> QED BY <1>5, <2>3, <2>4 DEF DropCert
<1>6. ASSUME NEW r \in Pair, SpoilCert(r) PROVE LeavesVerify'
  <2>1. PICK c \in {NoCert, BadCert} : certFile' = [certFile EXCEPT ![r] = c]
    BY <1>6 DEF SpoilCert
  <2> QED BY <1>0, <1>4, <1>6, <2>1, FilesType DEF SpoilCert
<1>7. ASSUME NEW p \in Proc, PutCert(p) PROVE LeavesVerify'
  <2>1. \A q \in Proc : q # p => pc[q] \notin {"putKey", "back"}
    BY <1>7 DEF LockHeld, PutCert, Working, Step
  <2>2. job[p] # "ca" => certFile'[job[p]].by = ca[p].cert
    BY <1>0, <1>7 DEF PutCert, CanSign
  <2>3. UNCHANGED <<job, ca, served>> /\ pc' = [pc EXCEPT ![p] = "putKey"]
    BY <1>7 DEF PutCert, Go
  <2> QED BY <1>0, <1>7, <2>1, <2>2, <2>3
\* What is settled is the pair of certificate that was read, and what it has settled before.
<1>8. ASSUME NEW p \in Proc, job[p] \in Leaf, Settle(p), LeafVerifies(p, certFile[job[p]]),
             served' = [served EXCEPT ![p][job[p]] = certFile[job[p]]], UNCHANGED <<ca, certFile>>
      PROVE  LeavesVerify'
  <2>1. served'[p][job[p]] = certFile[job[p]] /\ \A q \in Proc : q # p => served'[q] = served[q]
    BY <1>0, <1>8
  <2>2. CASE job[p] = "enc"
    <3>1. /\ UNCHANGED job /\ pc' = [pc EXCEPT ![p] = "serving"]
          /\ served'[p]["sign"] = served[p]["sign"]
      BY <1>0, <1>8, <2>2 DEF Settle, Go, Leaf
    <3> QED BY <1>0, <1>8, <2>1, <2>2, <3>1
  <2>3. CASE job[p] = "sign"
    <3>1. job' = [job EXCEPT ![p] = "enc"] /\ pc' = [pc EXCEPT ![p] = "stat"]
      BY <1>0, <1>8, <2>3 DEF Settle, Go, After
    <3> QED BY <1>0, <1>8, <2>1, <2>3, <3>1
  <2> QED BY <1>8, <2>2, <2>3 DEF Leaf
<1>9. ASSUME NEW p \in Proc, job[p] = "ca", Settle(p), UNCHANGED <<served, certFile>>,
             \A q \in Proc : q # p => ca'[q] = ca[q]
      PROVE  LeavesVerify'
  <2>1. job' = [job EXCEPT ![p] = "sign"] /\ pc' = [pc EXCEPT ![p] = "stat"]
    BY <1>0, <1>9 DEF Settle, Go, After
  <2> QED BY <1>0, <1>9, <2>1
<1>10. ASSUME NEW p \in Proc, Reuse(p) PROVE LeavesVerify'
  <2>1. CASE job[p] = "ca"
    BY <1>0, <1>9, <1>10, <2>1 DEF Reuse
  <2>2. CASE job[p] # "ca"
    BY <1>0, <1>8, <1>10, <2>2 DEF Reuse, Loads, SignedBy, Pair
  <2> QED BY <2>1, <2>2
<1>11. ASSUME NEW p \in Proc, PutKey(p) PROVE LeavesVerify'
  <2>1. CASE job[p] = "ca"
    BY <1>0, <1>9, <1>11, <2>1 DEF PutKey
  <2>2. CASE job[p] # "ca"
    BY <1>0, <1>11, <2>2 DEF PutKey, Go
  <2> QED BY <2>1, <2>2
<1>12. ASSUME NEW p \in Proc, ReadBack(p) PROVE LeavesVerify'
  BY <1>0, <1>8, <1>12 DEF ReadBack, Loads, HasCA, Pair
<1> QED
  BY <1>1, <1>2, <1>3, <1>5, <1>6, <1>7, <1>10, <1>11, <1>12
  DEF Next, Work, vars, SignFails, ReadBackFails, Stop, Interrupt, Abort, LoadCAPool, SpoilKey, Age,
      Expire

LEMMA DrawnStep ==
    ASSUME TypeOK, KeysAreDrawn, [Next]_vars
    PROVE  KeysAreDrawn'
<1> USE DEF KeysAreDrawn, disk, life
<1>0. /\ certFile \in [Pair -> Cert] /\ used \in Nat /\ aged \subseteq Key
      /\ \A r \in Pair : certFile[r].pub \in Int /\ (certFile[r].pub \in Key => certFile[r].pub \in Nat)
      /\ served \in [Proc -> [Leaf -> Cert]]
      /\ \A p \in Proc, l \in Leaf : served[p][l].pub \in Int
  BY DEF TypeOK, Cert, FileState, Key, Missing, Unreadable
<1>1. CASE UNCHANGED <<certFile, aged, used, served>>
  BY <1>1
<1>2. ASSUME NEW r \in Pair, NEW c \in {NoCert, BadCert}, certFile' = [certFile EXCEPT ![r] = c],
             UNCHANGED <<aged, used, served>>
      PROVE  KeysAreDrawn'
  <2>1. c.pub \notin Key /\ c.pub <= 0 /\ c.pub \in Int
    BY FilesType DEF NoCert, BadCert, Missing, Unreadable
  <2>2. \A s \in Pair : certFile'[s].pub \in {c.pub, certFile[s].pub}
    BY <1>0, <1>2
  <2>3. \A s, t \in Pair : s # t /\ certFile'[s].pub \in Key => certFile'[s].pub # certFile'[t].pub
    BY <1>0, <1>2, <2>1
  <2> QED BY <1>0, <1>2, <2>1, <2>2, <2>3
<1>3. ASSUME NEW p \in Proc, DropCert(p) PROVE KeysAreDrawn'
  BY <1>1, <1>2, <1>3 DEF DropCert, TypeOK
<1>4. ASSUME NEW r \in Pair, SpoilCert(r) PROVE KeysAreDrawn'
  BY <1>2, <1>4 DEF SpoilCert
<1>5. ASSUME NEW p \in Proc, PutCert(p) PROVE KeysAreDrawn'
  <2>1. job[p] \in Pair
    BY DEF TypeOK
  <2>2. /\ used' = used + 1 /\ UNCHANGED <<aged, served>>
        /\ \A s \in Pair : certFile'[s].pub = IF s = job[p] THEN used + 1 ELSE certFile[s].pub
    BY <1>0, <1>5, <2>1 DEF PutCert, NewKey
  <2>3. \A s \in Pair : certFile[s].pub <= used /\ certFile[s].pub \in Int
    BY <1>0
  <2>4. \A s, t \in Pair : s # t /\ certFile'[s].pub \in Key => certFile'[s].pub # certFile'[t].pub
    BY <1>0, <2>2, <2>3
  <2> QED BY <1>0, <2>2, <2>3, <2>4
\* A process takes a certificate that is on disk, or lets go of those it took.
<1>6. ASSUME UNCHANGED <<certFile, aged, used>>,
             \A p \in Proc, l \in Leaf :
                 served'[p][l].pub \in {served[p][l].pub, Missing} \cup {certFile[r].pub : r \in Pair}
      PROVE  KeysAreDrawn'
  <2>1. \A p \in Proc, l \in Leaf : served'[p][l].pub <= used
    BY <1>0, <1>6 DEF Missing
  <2> QED BY <1>6, <2>1
<1>7. ASSUME NEW p \in Proc, Reuse(p) \/ ReadBack(p) PROVE KeysAreDrawn'
  <2>1. job[p] \in Pair /\ UNCHANGED <<certFile, aged, used>>
    BY <1>7 DEF Reuse, ReadBack, TypeOK
  <2>2. CASE UNCHANGED served
    BY <1>1, <2>1, <2>2
  <2>3. CASE served' = [served EXCEPT ![p][job[p]] = certFile[job[p]]]
    BY <1>0, <1>6, <2>1, <2>3
  <2> QED BY <1>7, <2>2, <2>3 DEF Reuse, ReadBack
<1>8. ASSUME NEW p \in Proc, Exit(p), UNCHANGED <<certFile, used>> PROVE KeysAreDrawn'
  <2>1. \A q \in Proc, l \in Leaf : served'[q][l] = IF q = p THEN NoCert ELSE served[q][l]
    BY <1>0, <1>8 DEF Exit
  <2> QED BY <1>6, <1>8, <2>1, FilesType DEF Exit
<1>9. ASSUME NEW k, k <= used, Age(k) PROVE KeysAreDrawn'
  <2>1. k \in 1 .. used
    BY <1>0, <1>9 DEF Age, Key
  <2> QED BY <1>9, <2>1 DEF Age
<1>10. /\ \A r \in Pair : Age(certFile[r].pub) => KeysAreDrawn'
       /\ \A p \in Proc, l \in Leaf : Age(served[p][l].pub) => KeysAreDrawn'
  BY <1>9
<1> QED
  BY <1>1, <1>3, <1>4, <1>5, <1>7, <1>8, <1>10
  DEF Next, Work, vars, Start, Acquire, Stat, Reject, DropKey, SignFails, PutKey, ReadBackFails,
      Stop, Interrupt, Abort, LoadCAPool, SpoilKey, Expire

(* What a step does to the CA on disk, told apart from the leaves.         *)
LEMMA CaFiles ==
    ASSUME TypeOK
    PROVE  /\ "ca" \in Pair /\ CaCert \in FileState /\ CaKey \in FileState
           /\ CaCert \in Key => CaCert \in CaKeys
           /\ CaKey \in Key => CaKey \in CaKeys
BY DEF TypeOK, Pair, CaCert, CaKey, CaKeys, Cert

LEMMA SpoiledStep ==
    ASSUME TypeOK, LockHeld, HasCA, KeysAreDrawn, SpoiledIsKnown, [Next]_vars
    PROVE  SpoiledIsKnown'
<1> USE DEF SpoiledIsKnown, CaSpoiled, disk, life
<1>0. /\ pc \in [Proc -> Step] /\ job \in [Proc -> Pair] /\ certFile \in [Pair -> Cert]
      /\ keyFile \in [Pair -> FileState] /\ used \in Nat /\ "ca" \in Pair
  BY CaFiles DEF TypeOK
<1> DEFINE Giving(p) == pc[p] \in {"dropCert", "dropKey", "putCert"} /\ job[p] = "ca"
\* The files of the CA stay, and no process comes to a step that gives it up or ends one
\* that leaves it half written.
<1>1. ASSUME UNCHANGED <<CaCert, CaKey, used>>, spoiled \subseteq spoiled',
             CaCert \in aged' => CaCert \in spoiled',
             \A p \in Proc : Giving(p)' => Giving(p) \/ CaSpoiled',
             \A p \in Proc : HalfWritten(p)' <=> HalfWritten(p)
      PROVE  SpoiledIsKnown'
  BY <1>1
<1>2. ASSUME UNCHANGED <<certFile, keyFile, used, aged>>, spoiled \subseteq spoiled',
             \A p \in Proc : Giving(p)' => Giving(p),
             \A p \in Proc : HalfWritten(p)' <=> HalfWritten(p)
      PROVE  SpoiledIsKnown'
  BY <1>1, <1>2 DEF CaCert, CaKey
<1>3. CASE UNCHANGED <<pc, job, disk, used, aged, spoiled>>
  BY <1>2, <1>3 DEF HalfWritten
<1>4. ASSUME NEW p \in Proc, Start(p) \/ Acquire(p) \/ ReadBack(p) \/ ReadBackFails(p) \/ SignFails(p)
                               \/ Stop(p) \/ Reuse(p)
      PROVE  SpoiledIsKnown'
  BY <1>0, <1>2, <1>4
  DEF Start, Acquire, Reuse, ReadBack, ReadBackFails, SignFails, Stop, Settle, Abort, Exit, Go,
      HalfWritten
<1>a. ASSUME NEW p \in Proc, pc[p] \in Working PROVE \A q \in Proc : pc[q] \in Working => q = p
  BY <1>a DEF LockHeld
<1>b. /\ CaCert \notin aged \/ CaCert \in spoiled
      /\ \A k \in aged : k \in Key
      /\ \A p \in Proc : HalfWritten(p) => used \in Key
  BY DEF HasCA, HalfWritten, TypeOK
<1>5. ASSUME NEW p \in Proc, Stat(p) \/ Reject(p) PROVE SpoiledIsKnown'
  <2>1. pc[p] \in {"stat", "load"} /\ pc' = [pc EXCEPT ![p] = pc'[p]]
        /\ pc'[p] \in {"load", "putCert", "dropCert"}
        /\ UNCHANGED <<job, certFile, keyFile, used, aged, spoiled>>
    BY <1>0, <1>5 DEF Stat, Reject, Go
  <2>2. \A q \in Proc : ~HalfWritten(q)
    BY <1>a, <2>1 DEF HalfWritten, Working, Step
  <2>3. Giving(p)' => CaSpoiled
    <3>1. CASE Stat(p)
      BY <2>1, <2>2, <3>1, FilesType DEF Stat, Go, Exists, CaCert, CaKey
    <3>2. CASE Reject(p)
      BY <2>1, <2>2, <3>2 DEF Reject, Loads, InLife, SignedBy, CaCert, CaKey
    <3> QED BY <1>5, <3>1, <3>2
  <2>4. \A q \in Proc : /\ Giving(q)' => Giving(q) \/ CaSpoiled'
                        /\ HalfWritten(q)' <=> HalfWritten(q)
    BY <1>0, <2>1, <2>2, <2>3 DEF HalfWritten, CaCert
  <2>5. UNCHANGED <<CaCert, CaKey>>
    BY <2>1 DEF CaCert, CaKey
  <2> QED BY <1>1, <1>b, <2>1, <2>4, <2>5
<1>6. ASSUME NEW p \in Proc, DropCert(p) PROVE SpoiledIsKnown'
  <2>1. /\ pc[p] = "dropCert" /\ pc' = [pc EXCEPT ![p] = "dropKey"] /\ job[p] \in Pair
        /\ UNCHANGED <<job, keyFile, used, aged, spoiled>>
    BY <1>0, <1>6 DEF DropCert, Go
  <2>2. \A q \in Proc : ~HalfWritten(q) /\ ~HalfWritten(q)' /\ (Giving(q)' => Giving(q))
    BY <1>0, <1>a, <2>1 DEF HalfWritten, Working, Step
  <2>3. CASE UNCHANGED certFile
    BY <1>2, <2>1, <2>2, <2>3
  <2>4. CASE certFile' = [certFile EXCEPT ![job[p]] = NoCert]
    <3>1. CASE job[p] = "ca"
      <4>1. CaCert' \notin Key
        BY <1>0, <2>4, <3>1, FilesType DEF CaCert
      <4> QED BY <1>b, <2>1, <2>2, <4>1
    <3>2. CASE job[p] # "ca"
      <4>1. UNCHANGED <<CaCert, CaKey>>
        BY <1>0, <2>1, <2>4, <3>2 DEF CaCert, CaKey
      <4> QED BY <1>1, <1>b, <2>1, <2>2, <4>1
    <3> QED BY <3>1, <3>2
  <2> QED BY <1>6, <2>3, <2>4 DEF DropCert
<1>7. ASSUME NEW p \in Proc, DropKey(p) PROVE SpoiledIsKnown'
  <2>1. /\ pc[p] = "dropKey" /\ pc' = [pc EXCEPT ![p] = "putCert"] /\ job[p] \in Pair
        /\ UNCHANGED <<job, certFile, used, aged, spoiled>>
    BY <1>0, <1>7 DEF DropKey, Go
  <2>2. \A q \in Proc : ~HalfWritten(q) /\ ~HalfWritten(q)' /\ (Giving(q)' => Giving(q))
    BY <1>0, <1>a, <2>1 DEF HalfWritten, Working, Step
  <2>3. CaCert' = CaCert
    BY <2>1 DEF CaCert
  <2>4. CASE job[p] = "ca"
    BY <1>b, <2>1, <2>2, <2>3, <2>4
  <2>5. CASE job[p] # "ca"
    <3>1. CaKey' = CaKey
      BY <1>0, <1>7, <2>5 DEF DropKey, CaKey
    <3> QED BY <1>1, <1>b, <2>1, <2>2, <2>3, <3>1
  <2> QED BY <2>4, <2>5
<1>8. ASSUME NEW p \in Proc, PutCert(p) PROVE SpoiledIsKnown'
  <2>1. /\ pc[p] = "putCert" /\ pc' = [pc EXCEPT ![p] = "putKey"] /\ job[p] \in Pair
        /\ used' = used + 1 /\ UNCHANGED <<job, keyFile, aged, spoiled>>
    BY <1>0, <1>8 DEF PutCert, NewKey, Go
  <2>2. \A q \in Proc : ~HalfWritten(q) /\ ~Giving(q)' /\ (HalfWritten(q)' => q = p /\ job[p] = "ca")
    BY <1>0, <1>a, <2>1 DEF HalfWritten, Working, Step
  <2>3. CASE job[p] = "ca"
    <3>1. CaCert' = used + 1 /\ used + 1 \notin aged
      BY <1>0, <1>8, <2>3 DEF PutCert, NewKey, CaCert, KeysAreDrawn
    <3>2. HalfWritten(p)'
      BY <1>0, <2>1, <2>3 DEF HalfWritten
    <3> QED BY <2>1, <2>2, <3>1, <3>2
  <2>4. CASE job[p] # "ca"
    <3>1. UNCHANGED <<CaCert, CaKey>>
      BY <1>0, <1>8, <2>4 DEF PutCert, CaCert, CaKey
    <3> QED BY <2>1, <2>2, <2>4, <3>1
  <2> QED BY <2>3, <2>4
<1>9. ASSUME NEW p \in Proc, PutKey(p) PROVE SpoiledIsKnown'
  <2>1. /\ pc[p] = "putKey" /\ job[p] \in Pair /\ used \in Key
        /\ keyFile' = [keyFile EXCEPT ![job[p]] = used]
        /\ UNCHANGED <<certFile, used, aged, spoiled>>
    BY <1>0, <1>9 DEF PutKey, HasCA
  <2>2. pc' = [pc EXCEPT ![p] = pc'[p]] /\ pc'[p] \in {"stat", "back"}
        /\ job' = [job EXCEPT ![p] = job'[p]]
    BY <1>0, <1>9 DEF PutKey, Settle, Go
  <2>3. \A q \in Proc : /\ ~HalfWritten(q)' /\ ~Giving(q)'
                        /\ HalfWritten(q) => job[p] = "ca"
    BY <1>0, <1>a, <2>1, <2>2 DEF HalfWritten, Working, Step
  <2>4. CaCert' = CaCert
    BY <2>1 DEF CaCert
  <2>5. CASE job[p] = "ca"
    <3>1. CaKey' = used
      BY <1>0, <2>1, <2>5 DEF CaKey
    <3> QED BY <2>1, <2>3, <2>4, <3>1
  <2>6. CASE job[p] # "ca"
    <3>1. CaKey' = CaKey
      BY <1>0, <2>1, <2>6 DEF CaKey
    <3> QED BY <2>1, <2>3, <2>4, <2>6, <3>1
  <2> QED BY <2>5, <2>6
\* Whatever becomes of the CA's files, what they held is spoiled.
<1>10. ASSUME NEW p \in Proc, Interrupt(p) PROVE SpoiledIsKnown'
  <2>1. /\ \A q \in Proc : /\ HalfWritten(q)' => HalfWritten(q)
                           /\ Giving(q)' => Giving(q)
                           /\ HalfWritten(q) /\ ~HalfWritten(q)' => q = p
        /\ spoiled \subseteq spoiled' /\ (job[p] = "ca" => spoiled' = spoiled \cup CaKeys)
        /\ UNCHANGED <<certFile, keyFile, used, aged>>
    BY <1>0, <1>10 DEF Interrupt, Abort, Exit, Go, HalfWritten
  <2>2. UNCHANGED <<CaCert, CaKey>>
    BY <2>1 DEF CaCert, CaKey
  <2>3. HalfWritten(p) => (CaCert \in Key => CaCert \in spoiled')
    BY <2>1, CaFiles DEF HalfWritten
  <2> QED BY <2>1, <2>2, <2>3
<1>11. ASSUME NEW r \in Pair, SpoilCert(r) PROVE SpoiledIsKnown'
  <2>1. /\ UNCHANGED <<pc, job, keyFile, used, aged>> /\ spoiled \subseteq spoiled'
        /\ r = "ca" => spoiled' = spoiled \cup CaKeys
    BY <1>11 DEF SpoilCert
  <2>2. PICK c \in {NoCert, BadCert} : certFile' = [certFile EXCEPT ![r] = c]
    BY <1>11 DEF SpoilCert
  <2>3. CASE r = "ca"
    <3>1. CaCert' \notin Key
      BY <1>0, <2>2, <2>3, FilesType DEF CaCert
    <3>2. \A q \in Proc : HalfWritten(q) => used \in spoiled'
      BY <1>b, <2>1, <2>3, CaFiles
    <3> QED BY <1>b, <2>1, <3>1, <3>2 DEF HalfWritten
  <2>4. CASE r # "ca"
    <3>1. UNCHANGED <<CaCert, CaKey>>
      BY <1>0, <2>1, <2>2, <2>4 DEF CaCert, CaKey
    <3> QED BY <1>1, <1>b, <2>1, <3>1 DEF HalfWritten
  <2> QED BY <2>3, <2>4
<1>12. ASSUME NEW r \in Pair, SpoilKey(r) PROVE SpoiledIsKnown'
  <2>1. /\ UNCHANGED <<pc, job, certFile, used, aged>> /\ spoiled \subseteq spoiled'
        /\ r = "ca" => spoiled' = spoiled \cup CaKeys
    BY <1>12 DEF SpoilKey
  <2>2. CaCert' = CaCert
    BY <2>1 DEF CaCert
  <2>3. CASE r = "ca"
    <3>1. CaCert \in Key => CaCert \in spoiled'
      BY <2>1, <2>3, CaFiles
    <3> QED BY <1>b, <2>1, <2>2, <3>1 DEF HalfWritten
  <2>4. CASE r # "ca"
    <3>1. CaKey' = CaKey
      BY <1>0, <1>12, <2>4 DEF SpoilKey, CaKey
    <3> QED BY <1>1, <1>b, <2>1, <2>2, <3>1 DEF HalfWritten
  <2> QED BY <2>3, <2>4
<1>13. ASSUME NEW k, Age(k) PROVE SpoiledIsKnown'
  <2>1. /\ UNCHANGED <<pc, job, certFile, keyFile, used>> /\ spoiled \subseteq spoiled'
        /\ k = CaCert => spoiled' = spoiled \cup CaKeys
        /\ k \in Key /\ aged' = aged \cup {k}
    BY <1>13 DEF Age, CaCert
  <2>2. UNCHANGED <<CaCert, CaKey>>
    BY <2>1 DEF CaCert, CaKey
  <2>3. CaCert \in aged' => CaCert \in spoiled'
    BY <1>b, <2>1, CaFiles
  <2> QED BY <1>1, <2>1, <2>2, <2>3 DEF HalfWritten
<1> QED
  BY <1>3, <1>4, <1>5, <1>6, <1>7, <1>8, <1>9, <1>10, <1>11, <1>12, <1>13
  DEF Next, Work, vars, LoadCAPool, Expire

LEMMA OneCAStep ==
    ASSUME TypeOK, HasCA, SpoiledIsKnown, OneCA, [Next]_vars
    PROVE  OneCA'
<1> USE DEF OneCA, Known, disk
<1>0. /\ certFile \in [Pair -> Cert] /\ "ca" \in Pair /\ job \in [Proc -> Pair]
      /\ ca \in [Proc -> [cert : FileState, key : FileState]]
      /\ pool \in [Client -> Key \cup {Missing}]
  BY CaFiles DEF TypeOK
<1>k. \A k \in Known : k \in Key \/ k = Missing
  BY <1>0, FilesType DEF HasCA, TypeOK
\* Someone turns to the CA on disk.
<1>1. ASSUME CaCert' = CaCert, spoiled \subseteq spoiled',
             \A k \in Known' : k \in Known \/ k = CaCert \/ k = Missing \/ k \in spoiled
      PROVE  OneCA'
  BY <1>1
\* The CA on disk is given up.
<1>2. ASSUME CaCert \in Key => CaCert \in spoiled', spoiled \subseteq spoiled', UNCHANGED <<pool, ca>>
      PROVE  OneCA'
  BY <1>k, <1>2, FilesType
<1>3. ASSUME NEW p \in Proc, UNCHANGED <<certFile, pool, spoiled>>, ca' = [ca EXCEPT ![p] = ca'[p]],
             ca'[p].cert \in {CaCert, Missing} \cup spoiled
      PROVE  OneCA'
  <2>1. \A q \in Proc : q # p => ca'[q] = ca[q]
    BY <1>0, <1>3
  <2>2. CaCert' = CaCert
    BY <1>3 DEF CaCert
  <2> QED BY <1>1, <1>3, <2>1, <2>2
<1>4. CASE UNCHANGED <<certFile, pool, ca>> /\ spoiled \subseteq spoiled'
  BY <1>1, <1>4 DEF CaCert
<1>5. ASSUME NEW p \in Proc, Reuse(p) PROVE OneCA'
  <2>1. CASE job[p] = "ca"
    <3>1. ca' = [ca EXCEPT ![p] = [cert |-> certFile["ca"].pub, key |-> keyFile["ca"]]]
      BY <1>5, <2>1 DEF Reuse
    <3>2. ca'[p].cert = CaCert /\ ca' = [ca EXCEPT ![p] = ca'[p]]
      BY <1>0, <3>1 DEF CaCert
    <3> QED BY <1>3, <1>5, <3>2 DEF Reuse
  <2>2. CASE job[p] # "ca"
    BY <1>4, <1>5, <2>2 DEF Reuse
  <2> QED BY <2>1, <2>2
<1>6. ASSUME NEW p \in Proc, PutKey(p) PROVE OneCA'
  <2>1. CASE job[p] = "ca"
    <3>1. ca' = [ca EXCEPT ![p] = [cert |-> used, key |-> used]]
      BY <1>6, <2>1 DEF PutKey
    <3>2. ca'[p].cert = used /\ ca' = [ca EXCEPT ![p] = ca'[p]]
      BY <1>0, <3>1
    <3>3. used = CaCert \/ used \in spoiled
      BY <1>6, <2>1 DEF PutKey, SpoiledIsKnown, HalfWritten
    <3> QED BY <1>3, <1>6, <3>2, <3>3 DEF PutKey
  <2>2. CASE job[p] # "ca"
    BY <1>4, <1>6, <2>2 DEF PutKey
  <2> QED BY <2>1, <2>2
<1>7. ASSUME NEW p \in Proc, Exit(p), UNCHANGED <<certFile, pool>>, spoiled \subseteq spoiled'
      PROVE  OneCA'
  <2>1. \A q \in Proc : ca'[q] = IF q = p THEN NoCA ELSE ca[q]
    BY <1>0, <1>7 DEF Exit
  <2>2. CaCert' = CaCert
    BY <1>7 DEF CaCert
  <2> QED BY <1>1, <1>7, <2>1, <2>2, FilesType
<1>8. ASSUME NEW c \in Client, LoadCAPool(c) PROVE OneCA'
  <2>1. /\ \A d \in Client : pool'[d] = IF d = c THEN CaCert ELSE pool[d]
        /\ UNCHANGED <<certFile, ca, spoiled>>
    BY <1>0, <1>8 DEF LoadCAPool, CaCert
  <2>2. CaCert' = CaCert
    BY <2>1 DEF CaCert
  <2> QED BY <1>1, <2>1, <2>2
<1>9. ASSUME NEW p \in Proc, DropCert(p) \/ PutCert(p) PROVE OneCA'
  <2>1. CASE job[p] = "ca"
    <3>1. CaSpoiled
      BY <1>9, <2>1 DEF DropCert, PutCert, SpoiledIsKnown
    <3> QED BY <1>2, <1>9, <3>1 DEF DropCert, PutCert, CaSpoiled
  <2>2. CASE job[p] # "ca"
    <3>1. CaCert' = CaCert
      BY <1>0, <1>9, <2>2 DEF DropCert, PutCert, CaCert
    <3> QED BY <1>1, <1>9, <3>1 DEF DropCert, PutCert
  <2> QED BY <2>1, <2>2
<1>10. ASSUME NEW r \in Pair, SpoilCert(r) PROVE OneCA'
  <2>1. CASE r = "ca"
    BY <1>2, <1>10, <2>1, CaFiles DEF SpoilCert
  <2>2. CASE r # "ca"
    <3>1. CaCert' = CaCert
      BY <1>0, <1>10, <2>2 DEF SpoilCert, CaCert
    <3> QED BY <1>1, <1>10, <3>1 DEF SpoilCert
  <2> QED BY <2>1, <2>2
<1>11. ASSUME NEW r \in Pair, SpoilKey(r) PROVE OneCA'
  BY <1>4, <1>11 DEF SpoilKey
<1>12. ASSUME NEW k, Age(k) PROVE OneCA'
  BY <1>4, <1>12 DEF Age
<1> QED
  BY <1>4, <1>5, <1>6, <1>7, <1>8, <1>9, <1>10, <1>11, <1>12
  DEF Next, Work, vars, Start, Acquire, Stat, Reject, DropKey, SignFails, ReadBack, ReadBackFails,
      Stop, Interrupt, Abort, Expire

LEMMA PairsCostStep ==
    ASSUME TypeOK, LockHeld, HasCA, PairsCost, [Next]_vars
    PROVE  PairsCost'
<1> USE DEF PairsCost, disk
<1>0. /\ pc \in [Proc -> Step] /\ job \in [Proc -> Pair] /\ certFile \in [Pair -> Cert]
      /\ keyFile \in [Pair -> FileState] /\ used \in Nat /\ faults \in Nat /\ "ca" \in Pair
  BY CaFiles, GmCertAssumption DEF TypeOK, GmCertAssumption
<1>a. ASSUME NEW p \in Proc, pc[p] \in Working PROVE \A q \in Proc : pc[q] \in Working => q = p
  BY <1>a DEF LockHeld
<1> DEFINE Dropping(p) == pc[p] = "dropKey" /\ job[p] = "ca"
           Writing(p) == pc[p] \in {"putCert", "putKey"} /\ job[p] = "ca"
<1>1. ASSUME UNCHANGED <<CaCert, CaKey, used>>, faults' \in Nat, faults' >= faults,
             \A p \in Proc : Dropping(p) => Dropping(p)' \/ faults' >= 1,
             \A p \in Proc : Writing(p)' => Writing(p) \/ (CaKey \in Key => faults >= 1),
             \A p \in Proc : HalfWritten(p) => HalfWritten(p)' \/ (CaKey \in Key => faults' >= 2),
             \A p \in Proc : HalfWritten(p)' => HalfWritten(p)
      PROVE  PairsCost'
  BY <1>0, <1>1
<1>2. ASSUME UNCHANGED <<CaCert, CaKey, used, faults>>,
             \A p \in Proc : (Dropping(p)' <=> Dropping(p)) /\ (HalfWritten(p)' <=> HalfWritten(p))
                             /\ (Writing(p)' => Writing(p))
      PROVE  PairsCost'
  BY <1>0, <1>1, <1>2
<1>3. CASE UNCHANGED <<pc, job, disk, used, faults>>
  BY <1>2, <1>3 DEF HalfWritten, CaCert, CaKey
<1>4. ASSUME NEW p \in Proc, Start(p) \/ Acquire(p) \/ ReadBack(p) \/ ReadBackFails(p) \/ SignFails(p)
                               \/ Stop(p) \/ Reuse(p) \/ Reject(p)
      PROVE  PairsCost'
  <2>1. UNCHANGED <<certFile, keyFile, used, faults>>
    BY <1>4 DEF Start, Acquire, Reuse, Reject, ReadBack, ReadBackFails, SignFails, Stop
  <2>2. UNCHANGED <<CaCert, CaKey>>
    BY <2>1 DEF CaCert, CaKey
  <2>3. \A q \in Proc : (Dropping(q)' <=> Dropping(q)) /\ (HalfWritten(q)' <=> HalfWritten(q))
                        /\ (Writing(q)' => Writing(q))
    BY <1>0, <1>4
    DEF Start, Acquire, Reuse, Reject, ReadBack, ReadBackFails, SignFails, Stop, Settle, Abort, Exit,
        Go, HalfWritten
  <2> QED BY <1>2, <2>1, <2>2, <2>3
<1>5. ASSUME NEW p \in Proc, Stat(p) PROVE PairsCost'
  <2>1. /\ pc[p] = "stat" /\ pc' = [pc EXCEPT ![p] = IF Exists(job[p]) THEN "load" ELSE "putCert"]
        /\ UNCHANGED <<job, certFile, keyFile, used, faults>>
    BY <1>5 DEF Stat, Go
  <2>2. \A q \in Proc : ~HalfWritten(q) /\ ~Dropping(q)
    BY <1>a, <2>1 DEF HalfWritten, Working, Step
  <2>3. Writing(p)' /\ CaKey \in Key => faults >= 1
    BY <1>0, <2>1, <2>2, FilesType DEF Exists, CaCert, CaKey
  <2>4. UNCHANGED <<CaCert, CaKey>>
    BY <2>1 DEF CaCert, CaKey
  <2>5. \A q \in Proc : ~HalfWritten(q)' /\ ~Dropping(q)' /\ (q # p => (Writing(q)' => Writing(q)))
    BY <1>0, <2>1, <2>2 DEF HalfWritten
  <2> QED BY <1>0, <1>1, <2>1, <2>2, <2>3, <2>4, <2>5
<1>6. ASSUME NEW p \in Proc, DropCert(p) PROVE PairsCost'
  <2>1. /\ pc[p] = "dropCert" /\ pc' = [pc EXCEPT ![p] = "dropKey"] /\ job[p] \in Pair
        /\ UNCHANGED <<job, keyFile, used>>
    BY <1>0, <1>6 DEF DropCert, Go
  <2>2. \A q \in Proc : ~HalfWritten(q) /\ ~HalfWritten(q)' /\ ~Dropping(q) /\ ~Writing(q)'
    BY <1>0, <1>a, <2>1 DEF HalfWritten, Working, Step
  <2>3. CaKey' = CaKey
    BY <2>1 DEF CaKey
  <2>4. CASE UNCHANGED certFile /\ faults' = faults + 1
    <3>1. CaCert' = CaCert
      BY <2>4 DEF CaCert
    <3> QED BY <1>0, <1>1, <2>1, <2>2, <2>3, <2>4, <3>1
  <2>5. CASE certFile' = [certFile EXCEPT ![job[p]] = NoCert] /\ UNCHANGED faults
    <3>1. CASE job[p] = "ca"
      <4>1. CaCert' \notin Key
        BY <1>0, <2>5, <3>1, FilesType DEF CaCert
      <4>2. Dropping(p)'
        BY <1>0, <2>1, <3>1
      <4> QED BY <2>2, <4>1, <4>2
    <3>2. CASE job[p] # "ca"
      <4>1. CaCert' = CaCert
        BY <1>0, <2>5, <3>2 DEF CaCert
      <4> QED BY <1>0, <1>1, <2>1, <2>2, <2>3, <2>5, <4>1
    <3> QED BY <3>1, <3>2
  <2> QED BY <1>6, <2>4, <2>5 DEF DropCert, FileFails
<1>7. ASSUME NEW p \in Proc, DropKey(p) PROVE PairsCost'
  <2>1. /\ pc[p] = "dropKey" /\ pc' = [pc EXCEPT ![p] = "putCert"] /\ job[p] \in Pair
        /\ UNCHANGED <<job, certFile, used>>
    BY <1>0, <1>7 DEF DropKey, Go
  <2>2. \A q \in Proc : /\ ~HalfWritten(q) /\ ~HalfWritten(q)' /\ ~Dropping(q)'
                        /\ Writing(q)' \/ Dropping(q) => q = p /\ job[p] = "ca"
    BY <1>0, <1>a, <2>1 DEF HalfWritten, Working, Step
  <2>3. CaCert' = CaCert
    BY <2>1 DEF CaCert
  <2>4. CASE UNCHANGED keyFile /\ faults' = faults + 1
    <3>1. CaKey' = CaKey
      BY <2>4 DEF CaKey
    <3> QED BY <1>0, <2>1, <2>2, <2>3, <2>4, <3>1
  <2>5. CASE keyFile' = [keyFile EXCEPT ![job[p]] = Missing] /\ UNCHANGED faults
    <3>1. CASE job[p] = "ca"
      <4>1. CaKey' \notin Key
        BY <1>0, <2>5, <3>1, FilesType DEF CaKey
      <4> QED BY <2>2, <4>1
    <3>2. CASE job[p] # "ca"
      <4>1. CaKey' = CaKey
        BY <1>0, <2>5, <3>2 DEF CaKey
      <4> QED BY <1>0, <1>1, <2>1, <2>2, <2>3, <2>5, <3>2, <4>1
    <3> QED BY <3>1, <3>2
  <2> QED BY <1>7, <2>4, <2>5 DEF DropKey, FileFails
<1>8. ASSUME NEW p \in Proc, PutCert(p) PROVE PairsCost'
  <2>1. /\ pc[p] = "putCert" /\ pc' = [pc EXCEPT ![p] = "putKey"] /\ job[p] \in Pair
        /\ used' = used + 1 /\ UNCHANGED <<job, keyFile, faults>>
    BY <1>0, <1>8 DEF PutCert, NewKey, Go
  <2>2. \A q \in Proc : /\ ~HalfWritten(q) /\ ~Dropping(q)
                        /\ Writing(q)' \/ HalfWritten(q)' => q = p /\ job[p] = "ca"
    BY <1>0, <1>a, <2>1 DEF HalfWritten, Working, Step
  <2>3. CaKey' = CaKey
    BY <2>1 DEF CaKey
  <2>4. CASE job[p] = "ca"
    <3>1. CaCert' = used' /\ used' \in Key
      BY <1>0, <1>8, <2>1, <2>4, FilesType DEF PutCert, NewKey, CaCert
    <3>2. HalfWritten(p)' /\ Writing(p)
      BY <1>0, <2>1, <2>4 DEF HalfWritten
    <3> QED BY <2>1, <2>2, <2>3, <3>1, <3>2
  <2>5. CASE job[p] # "ca"
    <3>1. CaCert' = CaCert
      BY <1>0, <1>8, <2>5 DEF PutCert, CaCert
    <3> QED BY <2>1, <2>2, <2>3, <2>5, <3>1
  <2> QED BY <2>4, <2>5
<1>9. ASSUME NEW p \in Proc, PutKey(p) PROVE PairsCost'
  <2>1. /\ pc[p] = "putKey" /\ job[p] \in Pair
        /\ keyFile' = [keyFile EXCEPT ![job[p]] = used]
        /\ UNCHANGED <<certFile, used, faults>>
    BY <1>0, <1>9 DEF PutKey
  <2>2. pc' = [pc EXCEPT ![p] = pc'[p]] /\ pc'[p] \in {"stat", "back"}
        /\ job' = [job EXCEPT ![p] = job'[p]]
    BY <1>0, <1>9 DEF PutKey, Settle, Go
  <2>3. \A q \in Proc : /\ ~HalfWritten(q)' /\ ~Dropping(q) /\ ~Dropping(q)' /\ ~Writing(q)'
                        /\ HalfWritten(q) => job[p] = "ca"
    BY <1>0, <1>a, <2>1, <2>2 DEF HalfWritten, Working, Step
  <2>4. CaCert' = CaCert
    BY <2>1 DEF CaCert
  <2>5. CASE job[p] = "ca"
    <3>1. CaKey' = used /\ HalfWritten(p)
      BY <1>0, <2>1, <2>5 DEF CaKey, HalfWritten
    <3> QED BY <2>1, <2>3, <2>4, <3>1
  <2>6. CASE job[p] # "ca"
    <3>1. CaKey' = CaKey
      BY <1>0, <2>1, <2>6 DEF CaKey
    <3> QED BY <2>1, <2>3, <2>4, <2>6, <3>1
  <2> QED BY <2>5, <2>6
<1>10. ASSUME NEW p \in Proc, Interrupt(p) PROVE PairsCost'
  <2>1. /\ \A q \in Proc : /\ Dropping(q)' => Dropping(q)
                           /\ Writing(q)' => Writing(q)
                           /\ HalfWritten(q)' => HalfWritten(q)
                           /\ HalfWritten(q) /\ ~HalfWritten(q)' => q = p
        /\ UNCHANGED <<certFile, keyFile, used>> /\ faults' = faults + 1
    BY <1>0, <1>10 DEF Interrupt, FileFails, Abort, Exit, Go, HalfWritten
  <2>2. UNCHANGED <<CaCert, CaKey>>
    BY <2>1 DEF CaCert, CaKey
  <2>3. HalfWritten(p) /\ CaKey \in Key => faults >= 1
    BY DEF HalfWritten
  <2> QED BY <1>0, <1>1, <2>1, <2>2, <2>3
<1>11. ASSUME NEW r \in Pair, SpoilCert(r) PROVE PairsCost'
  <2>1. UNCHANGED <<pc, job, keyFile, used>> /\ faults' = faults + 1
    BY <1>11 DEF SpoilCert, FileFails
  <2>2. PICK c \in {NoCert, BadCert} : certFile' = [certFile EXCEPT ![r] = c]
    BY <1>11 DEF SpoilCert
  <2>3. CaKey' = CaKey
    BY <2>1 DEF CaKey
  <2>4. CASE r = "ca"
    <3>1. CaCert' \notin Key
      BY <1>0, <2>2, <2>4, FilesType DEF CaCert
    <3> QED BY <1>0, <2>1, <2>3, <3>1 DEF HalfWritten
  <2>5. CASE r # "ca"
    <3>1. CaCert' = CaCert
      BY <1>0, <2>2, <2>5 DEF CaCert
    <3> QED BY <1>0, <1>1, <2>1, <2>3, <3>1 DEF HalfWritten
  <2> QED BY <2>4, <2>5
<1>12. ASSUME NEW r \in Pair, SpoilKey(r) PROVE PairsCost'
  <2>1. UNCHANGED <<pc, job, certFile, used>> /\ faults' = faults + 1
    BY <1>12 DEF SpoilKey, FileFails
  <2>2. PICK k \in {Missing, Unreadable} : keyFile' = [keyFile EXCEPT ![r] = k]
    BY <1>12 DEF SpoilKey
  <2>3. CaCert' = CaCert
    BY <2>1 DEF CaCert
  <2>4. CASE r = "ca"
    <3>1. CaKey' \notin Key
      BY <1>0, <2>2, <2>4, FilesType DEF CaKey
    <3> QED BY <1>0, <2>1, <2>3, <3>1 DEF HalfWritten
  <2>5. CASE r # "ca"
    <3>1. CaKey' = CaKey
      BY <1>0, <2>2, <2>5 DEF CaKey
    <3> QED BY <1>0, <1>1, <2>1, <2>3, <3>1 DEF HalfWritten
  <2> QED BY <2>4, <2>5
<1>13. ASSUME NEW k, Age(k) PROVE PairsCost'
  BY <1>3, <1>13 DEF Age
<1> QED
  BY <1>3, <1>4, <1>5, <1>6, <1>7, <1>8, <1>9, <1>10, <1>11, <1>12, <1>13
  DEF Next, Work, vars, LoadCAPool, Expire

LEMMA TakenStep ==
    ASSUME TypeOK, LockHeld, PairsCost, TakenPairMatches, [Next]_vars
    PROVE  TakenPairMatches'
<1> USE DEF TakenPairMatches, disk
<1>0. /\ ca \in [Proc -> [cert : FileState, key : FileState]] /\ faults \in Nat
      /\ faults' \in Nat /\ faults' >= faults
  <2>1. faults \in Nat
    BY GmCertAssumption DEF TypeOK, GmCertAssumption
  <2>2. ASSUME NEW p \in Proc, Work(p) PROVE faults' \in {faults, faults + 1}
    BY <2>2
    DEF Work, FileFails, Stat, Reuse, Reject, DropCert, DropKey, PutCert, SignFails, PutKey, ReadBack,
        ReadBackFails
  <2>3. faults' \in {faults, faults + 1}
    BY <2>2
    DEF Next, vars, FileFails, Start, Acquire, Stop, Interrupt, LoadCAPool, SpoilCert, SpoilKey, Age,
        Expire
  <2> QED BY <2>1, <2>3 DEF TypeOK
<1>1. ASSUME NEW p \in Proc, ca' = [ca EXCEPT ![p] = ca'[p]],
             ca'[p].cert = ca'[p].key \/ faults >= 2
      PROVE  TakenPairMatches'
  BY <1>0, <1>1
<1>2. CASE UNCHANGED ca
  BY <1>0, <1>2
<1>3. ASSUME NEW p \in Proc, Reuse(p) PROVE TakenPairMatches'
  <2>1. CASE job[p] = "ca"
    <3>1. /\ pc[p] = "load" /\ CaCert \in Key /\ CaKey \in Key
          /\ ca' = [ca EXCEPT ![p] = [cert |-> CaCert, key |-> CaKey]]
      BY <1>3, <2>1 DEF Reuse, Loads, CaCert, CaKey
    <3>2. \A q \in Proc : ~HalfWritten(q)
      BY <3>1 DEF LockHeld, HalfWritten, Working, Step
    <3>3. CaCert = CaKey \/ faults >= 2
      BY <3>1, <3>2 DEF PairsCost
    <3>4. ca'[p] = [cert |-> CaCert, key |-> CaKey]
      BY <1>0, <3>1
    <3>5. ca' = [ca EXCEPT ![p] = ca'[p]]
      BY <3>1, <3>4
    <3>6. ca'[p].cert = ca'[p].key \/ faults >= 2
      BY <3>3, <3>4
    <3> QED BY <1>1, <3>5, <3>6
  <2>2. CASE job[p] # "ca"
    BY <1>2, <1>3, <2>2 DEF Reuse
  <2> QED BY <2>1, <2>2
<1>4. ASSUME NEW p \in Proc, PutKey(p) PROVE TakenPairMatches'
  <2>1. CASE job[p] = "ca"
    BY <1>0, <1>1, <1>4, <2>1 DEF PutKey
  <2>2. CASE job[p] # "ca"
    BY <1>2, <1>4, <2>2 DEF PutKey
  <2> QED BY <2>1, <2>2
<1>5. ASSUME NEW p \in Proc, Exit(p) PROVE TakenPairMatches'
  BY <1>0, <1>1, <1>5, FilesType DEF Exit
<1> QED
  BY <1>2, <1>3, <1>4, <1>5
  DEF Next, Work, vars, Start, Acquire, Stat, Reject, DropCert, DropKey, PutCert, SignFails,
      ReadBack, ReadBackFails, Stop, Interrupt, Abort, LoadCAPool, SpoilCert, SpoilKey, Age,
        Expire

LEMMA YoungStep ==
    ASSUME TypeOK, KeysAreDrawn, YoungHeld, [Next]_vars
    PROVE  YoungHeld'
<1> USE DEF YoungHeld, disk, life
<1>0. /\ pc \in [Proc -> Step] /\ job \in [Proc -> Pair] /\ certFile \in [Pair -> Cert]
      /\ served \in [Proc -> [Leaf -> Cert]] /\ aged \subseteq Key /\ Leaf \subseteq Pair
  BY DEF TypeOK, Pair
<1>1. CASE UNCHANGED <<pc, job, certFile, served, life>>
  BY <1>1
\* A file comes to hold a key nobody drew before, or none.
<1>2. ASSUME UNCHANGED <<job, served, life>>,
             \A r \in Pair : certFile'[r].pub # certFile[r].pub => certFile'[r].pub \notin aged,
             \A p \in Proc : pc'[p] # pc[p] /\ pc'[p] \in {"putKey", "back"} /\ job[p] \in Leaf
                                => certFile'[job[p]].pub \notin aged
      PROVE  YoungHeld'
  BY <1>0, <1>2
<1>3. ASSUME NEW p \in Proc,
             Start(p) \/ Acquire(p) \/ Stat(p) \/ Reject(p) \/ DropKey(p)
      PROVE  YoungHeld'
  BY <1>0, <1>3 DEF Start, Acquire, Stat, Reject, DropKey, Go
<1>4. ASSUME NEW r \in Pair, NEW c \in {NoCert, BadCert}, certFile' = [certFile EXCEPT ![r] = c],
             UNCHANGED <<job, served, life>>,
             \A p \in Proc : pc'[p] \in {"putKey", "back"} => pc'[p] = pc[p]
      PROVE  YoungHeld'
  <2>1. c.pub \notin aged
    BY <1>0, FilesType
  <2>2. \A s \in Pair : certFile'[s].pub # certFile[s].pub => certFile'[s].pub \notin aged
    BY <1>0, <1>4, <2>1
  <2> QED BY <1>2, <1>4, <2>2
<1>5. ASSUME NEW p \in Proc, DropCert(p) PROVE YoungHeld'
  <2>1. /\ job[p] \in Pair /\ UNCHANGED <<job, served, life>>
        /\ \A q \in Proc : pc'[q] \in {"putKey", "back"} => pc'[q] = pc[q]
    BY <1>0, <1>5 DEF DropCert, Go
  <2>2. CASE UNCHANGED certFile
    BY <1>0, <2>1, <2>2
  <2> QED BY <1>4, <1>5, <2>1, <2>2 DEF DropCert
<1>6. ASSUME NEW r \in Pair, SpoilCert(r) PROVE YoungHeld'
  BY <1>4, <1>6 DEF SpoilCert
<1>7. ASSUME NEW p \in Proc, PutCert(p) PROVE YoungHeld'
  <2>1. /\ \A r \in Pair : certFile'[r].pub = IF r = job[p] THEN NewKey ELSE certFile[r].pub
        /\ UNCHANGED <<job, served, life>> /\ \A q \in Proc : q # p => pc'[q] = pc[q]
    BY <1>0, <1>7 DEF PutCert, Go
  <2>2. NewKey \notin aged
    BY DEF KeysAreDrawn, NewKey, TypeOK
  <2> QED BY <1>0, <1>2, <2>1, <2>2
<1>8. ASSUME NEW p \in Proc, PutKey(p) PROVE YoungHeld'
  <2>1. UNCHANGED <<certFile, served, life>> /\ pc[p] = "putKey"
    BY <1>8 DEF PutKey
  <2>2. CASE job[p] = "ca"
    <3>1. job' = [job EXCEPT ![p] = "sign"] /\ pc' = [pc EXCEPT ![p] = "stat"]
      BY <1>0, <1>8, <2>2 DEF PutKey, Settle, Go, After
    <3> QED BY <1>0, <2>1, <3>1
  <2>3. CASE job[p] # "ca"
    <3>1. UNCHANGED job /\ pc' = [pc EXCEPT ![p] = "back"]
      BY <1>8, <2>3 DEF PutKey, Go
    <3> QED BY <1>0, <2>1, <3>1
  <2> QED BY <2>2, <2>3
\* What is settled is no leaf in its last days, unless the process is known to hold one.
<1>9. ASSUME NEW p \in Proc, Settle(p), UNCHANGED <<certFile, life>>,
             \/ UNCHANGED served
             \/ /\ served' = [served EXCEPT ![p][job[p]] = certFile[job[p]]] /\ job[p] \in Leaf
                /\ p \in outlived \/ certFile[job[p]].pub \notin aged
      PROVE  YoungHeld'
  <2>1. \A q \in Proc : q # p => pc'[q] = pc[q] /\ job'[q] = job[q]
    BY <1>0, <1>9 DEF Settle, Go
  <2>2. pc'[p] \in {"serving", "stat"}
    BY <1>0, <1>9 DEF Settle, Go
  <2>3. \A q \in Proc, l \in Leaf : q \notin outlived => served'[q][l].pub \notin aged
    BY <1>0, <1>9
  <2> QED BY <1>9, <2>1, <2>2, <2>3
<1>10. ASSUME NEW p \in Proc, Reuse(p) PROVE YoungHeld'
  BY <1>0, <1>9, <1>10 DEF Reuse, InLife, Pair
<1>11. ASSUME NEW p \in Proc, ReadBack(p) PROVE YoungHeld'
  <2>1. CASE job[p] \in Leaf
    BY <1>9, <1>11, <2>1 DEF ReadBack
  <2>2. CASE job[p] \notin Leaf
    <3>1. UNCHANGED served
      BY <1>0, <1>11, <2>2 DEF ReadBack
    <3> QED BY <1>9, <1>11, <3>1 DEF ReadBack
  <2> QED BY <2>1, <2>2
<1>12. ASSUME NEW p \in Proc, Exit(p), UNCHANGED certFile PROVE YoungHeld'
  <2>1. /\ \A q \in Proc : q # p => pc'[q] = pc[q] /\ job'[q] = job[q] /\ served'[q] = served[q]
        /\ pc'[p] = "off" /\ \A l \in Leaf : served'[p][l] = NoCert
        /\ outlived' = outlived \ {p} /\ UNCHANGED <<aged, over>>
    BY <1>0, <1>12 DEF Exit, Go
  <2>2. NoCert.pub \notin aged
    BY <1>0, FilesType
  <2> QED BY <1>12, <2>1, <2>2
<1>13. ASSUME NEW k, Age(k) PROVE YoungHeld'
  <2>1. /\ aged' = aged \cup {k} /\ outlived' = outlived \cup {p \in Proc : k \in Held(p)}
        /\ UNCHANGED <<pc, job, certFile, served, over>>
    BY <1>13 DEF Age
  <2>2. ASSUME NEW p \in Proc, k \notin Held(p)
        PROVE  /\ \A l \in Leaf : served[p][l].pub # k
               /\ pc[p] \in {"putKey", "back"} /\ job[p] \in Leaf => certFile[job[p]].pub # k
    BY <2>2 DEF Held
  <2> QED BY <2>1, <2>2
<1>14. ASSUME NEW p \in Proc, NEW l \in Leaf, Expire(p, l) PROVE YoungHeld'
  BY <1>14 DEF Expire
<1> QED
  BY <1>1, <1>3, <1>5, <1>6, <1>7, <1>8, <1>10, <1>11, <1>12, <1>13, <1>14
  DEF Next, Work, vars, SignFails, ReadBackFails, Stop, Interrupt, Abort, LoadCAPool, SpoilKey

(***************************************************************************)
(* The promises.                                                           *)
(***************************************************************************)

LEMMA GmCertStep == GmCertInv /\ [Next]_vars => GmCertInv'
BY StepType, LockStep, HasCAStep, LeavesStep, DrawnStep, SpoiledStep, OneCAStep, PairsCostStep,
   TakenStep, YoungStep
DEF GmCertInv

LEMMA GmCertInductive == Spec => []GmCertInv
<1>1. Init => GmCertInv
  BY InitInv
<1>2. GmCertInv /\ [Next]_vars => GmCertInv'
  BY GmCertStep
<1> QED BY <1>1, <1>2, PTL DEF Spec

(* Every variable keeps its type, and what a gateway answers with verifies *)
(* against the CA certificate it took under the lock, both leaves alike    *)
(* (EnsureGateway).                                                        *)
THEOREM ServedTheorem == Spec => []ServedVerifies
<1>1. GmCertInv => ServedVerifies
  <2> SUFFICES ASSUME GmCertInv, NEW p \in Proc, pc[p] = "serving", NEW l \in Leaf
               PROVE  served[p][l].by = ca[p].cert /\ served[p][l].pub \in Key
    BY DEF GmCertInv, ServedVerifies
  <2> QED BY DEF GmCertInv, LeavesVerify, LeafVerifies, Leaf
<1> QED BY <1>1, GmCertInductive, PTL

(* Whichever process created the CA, and whenever a client read ca.pem: it *)
(* accepts every gateway, unless the CA of one of the two lost a file, ran *)
(* out or was left half written, or the gateway has served since before    *)
(* its leaf came to its last 30 days: no start takes a leaf that is that   *)
(* old, and nothing renews one that is served (ensureCA, ensureLeaf,       *)
(* LoadCAPool).                                                            *)
THEOREM ClientsTheorem == Spec => []ClientsVerify
<1>1. GmCertInv => ClientsVerify
  <2> SUFFICES ASSUME GmCertInv, NEW c \in Client, NEW p \in Proc, pc[p] = "serving",
                      pool[c] # Missing, pool[c] \notin spoiled, ca[p].cert \notin spoiled,
                      p \notin outlived
               PROVE  Verifies(c, p)
    BY DEF ClientsVerify
  <2>1. ca[p].cert # Missing
    BY FilesType DEF GmCertInv, HasCA
  <2>2. pool[c] = ca[p].cert
    BY <2>1 DEF GmCertInv, OneCA, Known
  <2>3. \A l \in Leaf : served[p][l].by = ca[p].cert
    BY DEF GmCertInv, LeavesVerify, LeafVerifies, Leaf
  <2>4. pool[c] \notin aged
    BY <2>1, <2>2 DEF GmCertInv, OneCA, Known, SpoiledIsKnown
  <2>5. \A l \in Leaf : served[p][l].pub \notin over
    BY DEF GmCertInv, YoungHeld
  <2> QED BY <2>2, <2>3, <2>4, <2>5 DEF Verifies
<1> QED BY <1>1, GmCertInductive, PTL

(* It takes two faults until a start takes a CA certificate and a CA key   *)
(* that do not belong together for a pair (loadCA).                        *)
THEOREM TakenTheorem == Spec => []TakenPairMatches
<1>1. GmCertInv => TakenPairMatches
  BY DEF GmCertInv
<1> QED BY <1>1, GmCertInductive, PTL

=============================================================================
