\* Two users behind one address: the second look is not enough.
SPECIFICATION Spec
CONSTANTS
    alice = alice
    Alice = Alice
    bob = bob
    A = A
    B = B
    ip1 = ip1
    ip2 = ip2
    NoAccount = NoAccount
    IP = {ip1}
    Account = {alice, bob}
    User = {A, B}
    NormUser <- MCNormUser
    TTL = 1
    Conn = {c1}
    Src <- FromIp1
    MayKnock <- SharedKnocks
    BanSpan = {2}
    MaxNow = 3
    MaxCrash = 0
INVARIANT
    NoTunnelWhileDenied
