----------------------------- MODULE KnockReplay -----------------------------
(***************************************************************************)
(* One knock, one window.  A client seals a token into an envelope with a  *)
(* second-resolution time stamp and a fresh nonce and sends it over UDP;   *)
(* the network may lose, delay, repeat and reorder it.  The gateway's SPA  *)
(* loop opens the envelope (knock.Open: time stamp, then nonce), verifies  *)
(* the token (auth.Verify: expiry in seconds) and lets each one-time token *)
(* pass once (jti).  Nonces and jtis are remembered in one cache, each for *)
(* a time of its own; the cache is in memory.  A jti is remembered to the  *)
(* end of its token, but for ten minutes at the most: a token may come     *)
(* from a control plane whose clock is ahead, and live longer than that by *)
(* the gateway's.                                                          *)
(*                                                                         *)
(* The clock runs in half seconds: time stamps and expiries are whole      *)
(* seconds, the entries of the cache are not, and the difference matters.  *)
(***************************************************************************)
EXTENDS Integers, FiniteSets

CONSTANTS
    OneTime,    \* tokens from /knock-token: they have a jti
    Session,    \* session tokens: no jti, valid all along
    Nonce,      \* one per envelope
    Skew,       \* tolerated difference of the clocks, in seconds
    Ahead,      \* by how many seconds the client's clock may be ahead
    Lives,      \* lives of a token by the gateway's clock, in seconds: knockTTL,
                \* and what the control plane's clock is ahead by
    Cap,        \* the longest a jti is remembered, in seconds
    MaxNow,     \* bound on the clock, in half seconds
    MaxRestart  \* bound on restarts of the gateway

ASSUME ReplayAssumption ==
    /\ OneTime \cap Session = {}
    /\ Skew \in Nat \ {0} /\ Cap \in Nat \ {0}
    /\ Lives \subseteq Nat \ {0}
    /\ Ahead \subseteq Int
    /\ MaxNow \in Nat /\ MaxRestart \in Nat

Token == OneTime \cup Session

VARIABLES
    now,        \* the gateway's clock, in half seconds
    ahead,      \* by how many seconds it is ahead (a negative one is behind)
    exp,        \* one-time token -> expiry in seconds, 0 before it is issued
    sent,       \* envelopes the client has sent: the network keeps them all
    seenN,      \* nonces in the cache: a set of <<nonce, end in half seconds>>
    seenJ,      \* jtis in the cache, likewise
    passed,     \* history: for each envelope, how often it opened a window
    spent,      \* history: for each one-time token, how often it opened a window
    capped,     \* history: tokens that were to be forgotten before they expire
    restarts

vars == <<now, ahead, exp, sent, seenN, seenJ, passed, spent, capped, restarts>>

\* time.Now().Unix()
Unix == now \div 2

Envelope == [t : Token, ts : Int, n : Nonce]

TypeOK ==
    /\ now \in 0 .. MaxNow
    /\ ahead \in Ahead
    /\ exp \in [OneTime -> Nat]
    /\ sent \subseteq Envelope
    /\ seenN \subseteq Nonce \X Nat
    /\ seenJ \subseteq OneTime \X Nat
    /\ passed \in [Nonce -> Nat]
    /\ spent \in [OneTime -> Nat]
    /\ capped \subseteq OneTime
    /\ restarts \in 0 .. MaxRestart

Init ==
    /\ now = 0
    /\ ahead \in Ahead
    /\ exp = [t \in OneTime |-> 0]
    /\ sent = {}
    /\ seenN = {}
    /\ seenJ = {}
    /\ passed = [n \in Nonce |-> 0]
    /\ spent = [t \in OneTime |-> 0]
    /\ capped = {}
    /\ restarts = 0

-----------------------------------------------------------------------------
(* Slips the properties are tried against. *)

\* The jti is forgotten when the token's expiry second begins.
DedupUntilExpiry(t) == 2 * exp[t]

\* A nonce is remembered for the tolerated difference, not for twice as long.
NonceUntilSkew == now + 2 * Skew

-----------------------------------------------------------------------------
(***************************************************************************)
(* The pieces of the SPA loop.                                             *)
(***************************************************************************)

\* The time stamp is within the tolerated difference.
Fresh(p) == Unix - p.ts <= Skew /\ Unix - p.ts >= -Skew

\* auth.Verify: the expiry second itself is still good.
Verify(t) == t \in OneTime => (exp[t] > 0 /\ Unix <= exp[t])

\* Cache.Seen drops what is over (now.After(end)) before it looks.
Alive(seen) == {s \in seen : now <= s[2]}

Known(seen, key) == \E s \in Alive(seen) : s[1] = key

\* time.Until(exp) + skew, from now, is longer than ten minutes.
TooLong(t) == 2 * exp[t] - now + 2 * Skew > 2 * Cap

\* That long, or ten minutes.
DedupUntil(t) == IF TooLong(t) THEN now + 2 * Cap ELSE 2 * exp[t] + 2 * Skew

\* The token is still good when ten minutes are over.
Outlives(t) == now + 2 * Cap <= 2 * exp[t]

\* 2*skew, from now.
NonceUntil == now + 4 * Skew

-----------------------------------------------------------------------------

\* POST /knock-token.
Issue(t) ==
    /\ exp[t] = 0
    /\ \E life \in Lives : exp' = [exp EXCEPT ![t] = Unix + life]
    /\ UNCHANGED <<now, ahead, sent, seenN, seenJ, passed, spent, capped, restarts>>

\* The client seals a token it holds; a one-time token may be sealed again
\* by a client that does not know whether its knock arrived.
Seal(t, n) ==
    /\ t \in OneTime => exp[t] > 0
    /\ \A p \in sent : p.n # n
    /\ sent' = sent \cup {[t |-> t, ts |-> Unix + ahead, n |-> n]}
    /\ UNCHANGED <<now, ahead, exp, seenN, seenJ, passed, spent, capped, restarts>>

\* A one-time token that passes is remembered, any other packet only has the
\* cache cleaned.
UseToken(p) ==
    IF p.t \in OneTime /\ Verify(p.t) /\ ~Known(seenJ, p.t)
    THEN /\ seenJ' = Alive(seenJ) \cup {<<p.t, DedupUntil(p.t)>>}
         /\ spent' = [spent EXCEPT ![p.t] = @ + 1]
         /\ capped' = IF Outlives(p.t) THEN capped \cup {p.t} ELSE capped
    ELSE /\ seenJ' = Alive(seenJ)
         /\ UNCHANGED <<spent, capped>>

Opens(p) == Verify(p.t) /\ (p.t \in OneTime => ~Known(seenJ, p.t))

\* The envelope arrives, and not for the last time: stale or repeated ones
\* change nothing.  The nonce is used up even if the token is then refused.
Receive(p) ==
    /\ p \in sent
    /\ Fresh(p)
    /\ ~Known(seenN, p.n)
    /\ seenN' = Alive(seenN) \cup {<<p.n, NonceUntil>>}
    /\ UseToken(p)
    /\ passed' = [passed EXCEPT ![p.n] = IF Opens(p) THEN @ + 1 ELSE @]
    /\ UNCHANGED <<now, ahead, exp, sent, restarts>>

Tick ==
    /\ now < MaxNow
    /\ now' = now + 1
    /\ UNCHANGED <<ahead, exp, sent, seenN, seenJ, passed, spent, capped, restarts>>

Restart ==
    /\ restarts < MaxRestart
    /\ restarts' = restarts + 1
    /\ seenN' = {}
    /\ seenJ' = {}
    /\ UNCHANGED <<now, ahead, exp, sent, passed, spent, capped>>

Next ==
    \/ \E t \in OneTime : Issue(t)
    \/ \E t \in Token, n \in Nonce : Seal(t, n)
    \/ \E p \in sent : Receive(p)
    \/ Tick
    \/ Restart

Spec == Init /\ [][Next]_vars

-----------------------------------------------------------------------------
(***************************************************************************)
(* What the loop promises.                                                 *)
(***************************************************************************)

\* A one-time token opens one window, however often it is sealed and its
\* envelopes are repeated (spa.go:202), while the gateway runs; a restart
\* forgets what was used, and gives it one more.  The other exception is a
\* token that is good for more than ten minutes by the gateway's clock when
\* it is used: spa.go:205 has it forgotten before it expires.
OneTimeTokenOnce == \A t \in OneTime \ capped : spent[t] <= 1 + restarts

\* The promise of knock.go:115: time stamp and nonce together keep an envelope
\* from being accepted twice, whatever token it carries (and every
\* variable keeps its type).
EnvelopeOnce ==
    /\ TypeOK
    /\ \A n \in Nonce : passed[n] <= 1 + restarts

=============================================================================
