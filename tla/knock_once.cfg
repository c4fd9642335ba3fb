\* Two clients' worth of envelopes, clocks that differ by less than is tolerated,
\* one life of a token that is remembered to its end and one that is cut short.
SPECIFICATION Spec
CONSTANTS
    OneTime = {k1}
    Session = {s1}
    Nonce = {n1, n2}
    Skew = 2
    Ahead <- NearClocks
    Lives = {2, 4}
    Cap = 4
    MaxNow = 15
    MaxRestart = 1
INVARIANTS
    OneTimeTokenOnce
    EnvelopeOnce
CHECK_DEADLOCK FALSE
