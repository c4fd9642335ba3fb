------------------------------- MODULE GmCert -------------------------------
(***************************************************************************)
(* The certificate directory of the national-cipher tunnel: a CA and two   *)
(* leaves (signature, encryption), each a certificate and a key in a file  *)
(* of its own.  Every process that starts (a gateway, baidi-gmca) takes    *)
(* the directory's lock and goes through the three pairs in turn: reuse    *)
(* the pair, or remove what is there and write a new one.  A file is       *)
(* replaced atomically, a pair is not.  Clients read the CA's certificate  *)
(* at any time, without the lock.                                          *)
(*                                                                         *)
(* A key is a number, drawn in sequence; a certificate is the key it is    *)
(* about and the key that signed it.  Faults are a file that is lost or    *)
(* spoiled, a process that dies, a write or a removal that fails.          *)
(***************************************************************************)
EXTENDS Integers, FiniteSets

CONSTANTS
    Proc,       \* processes that start on the directory
    Client,     \* clients that verify a gateway by the CA
    Nobody,     \* the holder of a free lock
    MaxFaults,  \* bound: faults of a behaviour
    MaxAged     \* bound: certificates that reach the end of their life

ASSUME GmCertAssumption == Nobody \notin Proc /\ MaxFaults \in Nat /\ MaxAged \in Nat

VARIABLES
    certFile,   \* disk: pair -> its certificate
    keyFile,    \* disk: pair -> its private key
    lock,       \* the process that holds the directory's lock
    pc,         \* process -> its next step
    job,        \* process -> the pair it is at
    ca,         \* process -> the CA it signs with, [cert, key]
    served,     \* process -> leaf -> the certificate it answers with
    pool,       \* client -> the root it verifies by, Missing before it read one
    used,       \* the last key drawn
    aged,       \* CAs past their last day, leaves within 30 days of theirs
    over,       \* leaves past their last day
    spoiled,    \* history: CAs that lost a file, ran out or were half written
    outlived,   \* history: processes that held a leaf as it came to its last 30 days
    faults      \* faults so far

disk == <<certFile, keyFile>>
life == <<aged, over, outlived>>
vars == <<disk, lock, pc, job, ca, served, pool, used, life, spoiled, faults>>

Leaf == {"sign", "enc"}
Pair == Leaf \cup {"ca"}
After == [ca |-> "sign", sign |-> "enc", enc |-> "done"]

Missing == 0
Unreadable == -1
Key == Nat \ {0}
FileState == Key \cup {Missing, Unreadable}
Cert == [pub : FileState, by : FileState]
NoCert == [pub |-> Missing, by |-> Missing]
BadCert == [pub |-> Unreadable, by |-> Unreadable]
NoCA == [cert |-> Missing, key |-> Missing]

Step == {"off", "wait", "stat", "load", "dropCert", "dropKey", "putCert", "putKey", "back",
         "serving"}
Working == Step \ {"off", "wait", "serving"}

TypeOK ==
    /\ certFile \in [Pair -> Cert]
    /\ keyFile \in [Pair -> FileState]
    /\ lock \in Proc \cup {Nobody}
    /\ pc \in [Proc -> Step]
    /\ job \in [Proc -> Pair]
    /\ ca \in [Proc -> [cert : FileState, key : FileState]]
    /\ served \in [Proc -> [Leaf -> Cert]]
    /\ pool \in [Client -> Key \cup {Missing}]
    /\ used \in Nat
    /\ aged \subseteq Key
    /\ over \subseteq Key
    /\ spoiled \subseteq Key
    /\ outlived \subseteq Proc
    /\ faults \in 0 .. MaxFaults

Init ==
    /\ certFile = [r \in Pair |-> NoCert]
    /\ keyFile = [r \in Pair |-> Missing]
    /\ lock = Nobody
    /\ pc = [p \in Proc |-> "off"]
    /\ job = [p \in Proc |-> "ca"]
    /\ ca = [p \in Proc |-> NoCA]
    /\ served = [p \in Proc |-> [l \in Leaf |-> NoCert]]
    /\ pool = [c \in Client |-> Missing]
    /\ used = 0
    /\ aged = {}
    /\ over = {}
    /\ spoiled = {}
    /\ outlived = {}
    /\ faults = 0

-----------------------------------------------------------------------------
Exists(r) == certFile[r].pub # Missing /\ keyFile[r] # Missing

\* loadCA reads both files and parses them; it does not hold one against the
\* other.  LoadX509KeyPair, for a leaf, does.
Loads(r) ==
    /\ certFile[r].pub \in Key
    /\ IF r = "ca" THEN keyFile[r] \in Key ELSE keyFile[r] = certFile[r].pub

InLife(r) == certFile[r].pub \notin aged

AnySigner(r, root) == TRUE    \* Slip: the current CA is not asked

SignedBy(r, root) == r = "ca" \/ certFile[r].by = root

\* smx509.CreateCertificate refuses a signer that is not the parent's key.
CanSign(p) == ca[p].cert = ca[p].key

NewKey == used + 1

\* The CAs on disk, two when the files do not belong together.
CaKeys == {certFile["ca"].pub, keyFile["ca"]} \cap Key

Go(p, s) == pc' = [pc EXCEPT ![p] = s]

\* The pair is settled: the next one, or the lock is given back and the
\* process serves.
Settle(p) ==
    IF job[p] = "enc"
    THEN Go(p, "serving") /\ lock' = Nobody /\ UNCHANGED job
    ELSE Go(p, "stat") /\ job' = [job EXCEPT ![p] = After[@]] /\ UNCHANGED lock

\* The process is gone, and with it what it held in memory.
Exit(p) ==
    /\ Go(p, "off")
    /\ job' = [job EXCEPT ![p] = "ca"]
    /\ ca' = [ca EXCEPT ![p] = NoCA]
    /\ served' = [served EXCEPT ![p] = [l \in Leaf |-> NoCert]]
    /\ outlived' = outlived \ {p}
    /\ UNCHANGED <<aged, over>>

\* EnsureGateway returns an error and the process exits; the system frees the
\* lock of a process that dies.
Abort(p) == Exit(p) /\ lock' = Nobody

-----------------------------------------------------------------------------
Start(p) ==
    /\ pc[p] = "off"
    /\ Go(p, "wait")
    /\ UNCHANGED <<disk, lock, job, ca, served, pool, used, life, spoiled, faults>>

\* Slip: the lock does nothing, as on Windows.
AcquireAnyway(p) ==
    /\ pc[p] = "wait"
    /\ lock' = p
    /\ Go(p, "stat")
    /\ UNCHANGED <<disk, job, ca, served, pool, used, life, spoiled, faults>>

Acquire(p) ==
    /\ pc[p] = "wait"
    /\ lock = Nobody
    /\ lock' = p
    /\ Go(p, "stat")
    /\ UNCHANGED <<disk, job, ca, served, pool, used, life, spoiled, faults>>

\* Both files are there: they are loaded.  Otherwise a new pair is written
\* over whatever is there; for a leaf only if the CA can sign.
Stat(p) ==
    /\ pc[p] = "stat"
    /\ Go(p, IF Exists(job[p]) THEN "load" ELSE "putCert")
    /\ UNCHANGED <<disk, lock, job, ca, served, pool, used, life, spoiled, faults>>

Reuse(p) ==
    /\ pc[p] = "load"
    /\ Loads(job[p]) /\ InLife(job[p]) /\ SignedBy(job[p], ca[p].cert)
    /\ IF job[p] = "ca"
       THEN /\ ca' = [ca EXCEPT ![p] = [cert |-> certFile["ca"].pub, key |-> keyFile["ca"]]]
            /\ UNCHANGED served
       ELSE served' = [served EXCEPT ![p][job[p]] = certFile[job[p]]] /\ UNCHANGED ca
    /\ Settle(p)
    /\ UNCHANGED <<disk, pool, used, life, spoiled, faults>>

\* Slip: a pair that is there and unfit makes the start fail.
RejectForGood(p) ==
    /\ pc[p] = "load"
    /\ ~(Loads(job[p]) /\ InLife(job[p]) /\ SignedBy(job[p], ca[p].cert))
    /\ Abort(p)
    /\ UNCHANGED <<disk, pool, used, spoiled, faults>>

Reject(p) ==
    /\ pc[p] = "load"
    /\ ~(Loads(job[p]) /\ InLife(job[p]) /\ SignedBy(job[p], ca[p].cert))
    /\ Go(p, "dropCert")
    /\ UNCHANGED <<disk, lock, job, ca, served, pool, used, life, spoiled, faults>>

\* The error of a removal is dropped.
FileFails == faults < MaxFaults /\ faults' = faults + 1

DropCert(p) ==
    /\ pc[p] = "dropCert"
    /\ \/ certFile' = [certFile EXCEPT ![job[p]] = NoCert] /\ UNCHANGED faults
       \/ FileFails /\ UNCHANGED certFile
    /\ Go(p, "dropKey")
    /\ UNCHANGED <<keyFile, lock, job, ca, served, pool, used, life, spoiled>>

\* Slip: only the certificate is removed.
KeepKey(p) ==
    /\ pc[p] = "dropKey"
    /\ Go(p, "putCert")
    /\ UNCHANGED <<disk, lock, job, ca, served, pool, used, life, spoiled, faults>>

DropKey(p) ==
    /\ pc[p] = "dropKey"
    /\ \/ keyFile' = [keyFile EXCEPT ![job[p]] = Missing] /\ UNCHANGED faults
       \/ FileFails /\ UNCHANGED keyFile
    /\ Go(p, "putCert")
    /\ UNCHANGED <<certFile, lock, job, ca, served, pool, used, life, spoiled>>

PutCert(p) ==
    /\ pc[p] = "putCert"
    /\ job[p] = "ca" \/ CanSign(p)
    /\ used' = NewKey
    /\ certFile' = [certFile EXCEPT ![job[p]] =
            [pub |-> NewKey, by |-> IF job[p] = "ca" THEN NewKey ELSE ca[p].key]]
    /\ Go(p, "putKey")
    /\ UNCHANGED <<keyFile, lock, job, ca, served, pool, life, spoiled, faults>>

SignFails(p) ==
    /\ pc[p] = "putCert"
    /\ job[p] # "ca" /\ ~CanSign(p)
    /\ Abort(p)
    /\ UNCHANGED <<disk, pool, used, spoiled, faults>>

\* The CA just written is used from memory, a leaf is read back.
PutKey(p) ==
    /\ pc[p] = "putKey"
    /\ keyFile' = [keyFile EXCEPT ![job[p]] = used]
    /\ IF job[p] = "ca"
       THEN ca' = [ca EXCEPT ![p] = [cert |-> used, key |-> used]] /\ Settle(p)
       ELSE Go(p, "back") /\ UNCHANGED <<ca, job, lock>>
    /\ UNCHANGED <<certFile, served, pool, used, life, spoiled, faults>>

ReadBack(p) ==
    /\ pc[p] = "back"
    /\ Loads(job[p])
    /\ served' = [served EXCEPT ![p][job[p]] = certFile[job[p]]]
    /\ Settle(p)
    /\ UNCHANGED <<disk, ca, pool, used, life, spoiled, faults>>

ReadBackFails(p) ==
    /\ pc[p] = "back"
    /\ ~Loads(job[p])
    /\ Abort(p)
    /\ UNCHANGED <<disk, pool, used, spoiled, faults>>

\* A served process ends in its own time.
Stop(p) ==
    /\ pc[p] = "serving"
    /\ Exit(p)
    /\ UNCHANGED <<disk, lock, pool, used, spoiled, faults>>

\* A client reads the CA's certificate when it starts, whatever the state of
\* the directory; it fails when there is none to parse.
LoadCAPool(c) ==
    /\ certFile["ca"].pub \in Key
    /\ pool' = [pool EXCEPT ![c] = certFile["ca"].pub]
    /\ UNCHANGED <<disk, lock, pc, job, ca, served, used, life, spoiled, faults>>

-----------------------------------------------------------------------------
\* A process that dies, or whose write fails, leaves the directory as it is;
\* the system frees its lock.
Interrupt(p) ==
    /\ pc[p] \in Working
    /\ FileFails
    /\ Abort(p)
    /\ spoiled' = IF job[p] = "ca" THEN spoiled \cup CaKeys ELSE spoiled
    /\ UNCHANGED <<disk, pool, used>>

SpoilCert(r) ==
    /\ certFile[r].pub # Missing
    /\ FileFails
    /\ \E c \in {NoCert, BadCert} : certFile' = [certFile EXCEPT ![r] = c]
    /\ spoiled' = IF r = "ca" THEN spoiled \cup CaKeys ELSE spoiled
    /\ UNCHANGED <<keyFile, lock, pc, job, ca, served, pool, used, life>>

SpoilKey(r) ==
    /\ keyFile[r] # Missing
    /\ FileFails
    /\ \E k \in {Missing, Unreadable} : keyFile' = [keyFile EXCEPT ![r] = k]
    /\ spoiled' = IF r = "ca" THEN spoiled \cup CaKeys ELSE spoiled
    /\ UNCHANGED <<certFile, lock, pc, job, ca, served, pool, used, life>>

\* The leaves a process answers with, or is about to: it keeps the ones it took
\* for as long as it runs, whatever becomes of the files.
Held(p) ==
    {served[p][l].pub : l \in Leaf}
        \cup {certFile[l].pub : l \in {m \in Leaf : pc[p] \in {"putKey", "back"} /\ job[p] = m}}

\* The CA on disk passes its last day, or a leaf comes within 30 days of its own.
Age(k) ==
    /\ k \in Key \ aged
    /\ Cardinality(aged) < MaxAged
    /\ aged' = aged \cup {k}
    /\ spoiled' = IF k = certFile["ca"].pub THEN spoiled \cup CaKeys ELSE spoiled
    /\ outlived' = outlived \cup {p \in Proc : k \in Held(p)}
    /\ UNCHANGED <<disk, lock, pc, job, ca, served, pool, used, over, faults>>

\* A leaf passes its last day while a process still answers with it.
Expire(p, l) ==
    /\ served[p][l].pub \in aged \ over
    /\ over' = over \cup {served[p][l].pub}
    /\ UNCHANGED <<disk, lock, pc, job, ca, served, pool, used, aged, outlived, spoiled, faults>>

Work(p) ==
    \/ Stat(p) \/ Reuse(p) \/ Reject(p) \/ DropCert(p) \/ DropKey(p)
    \/ PutCert(p) \/ SignFails(p) \/ PutKey(p) \/ ReadBack(p) \/ ReadBackFails(p)

Next ==
    \/ \E p \in Proc : Start(p) \/ Acquire(p) \/ Work(p) \/ Stop(p) \/ Interrupt(p)
    \/ \E c \in Client : LoadCAPool(c)
    \/ \E r \in Pair : SpoilCert(r) \/ SpoilKey(r) \/ Age(certFile[r].pub)
    \/ \E p \in Proc, l \in Leaf : Age(served[p][l].pub) \/ Expire(p, l)

\* A process that runs goes on, and a free lock is given to one of those that
\* wait for it; which one, and whether a given one ever gets it, is open.
Fairness == WF_vars(\E p \in Proc : Acquire(p)) /\ \A p \in Proc : WF_vars(Work(p))

Spec == Init /\ [][Next]_vars /\ Fairness

-----------------------------------------------------------------------------
\* What a process answers with verifies against the CA certificate it took
\* under the lock, both leaves alike, and is not a pair of two other files'
\* keys (EnsureGateway).  (Every variable keeps its type, too.)
ServedVerifies ==
    /\ TypeOK
    /\ \A p \in Proc : pc[p] = "serving" =>
          \A l \in Leaf : served[p][l].by = ca[p].cert /\ served[p][l].pub \in Key

\* The client's chain check: both leaves signed by the root it read, and neither
\* they nor the root past their last day.
Verifies(c, p) ==
    /\ pool[c] \notin aged
    /\ \A l \in Leaf : served[p][l].by = pool[c] /\ served[p][l].pub \notin over

\* Whichever process came first, and whenever the client read ca.pem (in the
\* middle of a start, too): the client accepts the gateway, unless the CA of
\* one of them lost a file, ran out or was left half written (ensureCA,
\* LoadCAPool), or the gateway has been running since before its leaf came to
\* its last 30 days (it ensures its leaves once, when it starts, and renews
\* none while it serves).  A start takes no leaf that is that old.
ClientsVerify ==
    \A c \in Client, p \in Proc :
        /\ pc[p] = "serving"
        /\ pool[c] # Missing
        /\ {pool[c], ca[p].cert} \cap spoiled = {}
        /\ p \notin outlived
        => Verifies(c, p)

\* A CA certificate and a CA key that do not belong together are taken for a
\* pair (loadCA compares neither to the other), but it takes two faults to
\* get there: one that leaves a lone key, one that ends the start that
\* writes the new certificate next to it.
TakenPairMatches == \A p \in Proc : ca[p].cert # ca[p].key => faults >= 2

CaBroken ==
    certFile["ca"].pub \in Key /\ keyFile["ca"] \in Key /\ certFile["ca"].pub # keyFile["ca"]

\* When the trouble is over, a start that waits is followed by a gateway that
\* serves, whatever the faults left in the directory: lost, spoiled, expired
\* and foreign files are replaced.  The one thing that is not is a CA whose
\* two files do not belong together.
Heals ==
    (faults = MaxFaults /\ ~CaBroken /\ \E p \in Proc : pc[p] = "wait")
        ~> (\E p \in Proc : pc[p] = "serving")

=============================================================================
