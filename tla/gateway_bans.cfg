\* Two spellings of one user, renewed bans, a tunnel and a crash.
SPECIFICATION FairSpec
CONSTANTS
    alice = alice
    Alice = Alice
    bob = bob
    A = A
    B = B
    ip1 = ip1
    ip2 = ip2
    NoAccount = NoAccount
    IP = {ip1}
    Account = {alice, Alice}
    User = {A}
    NormUser <- MCNormUser
    TTL = 1
    Conn = {c1}
    Src <- FromIp1
    MayKnock <- HomeKnocks
    BanSpan = {0, 2}
    MaxNow = 2
    MaxCrash = 1
INVARIANTS
    TypeOK
    AppliedIsDenied
    NoWindowWhileDenied
    PulledBansEnforced
    Killable
    TableIsCurrent
    NoTunnelWhileDenied
PROPERTIES
    DenyNeverShortened
    ImplementsForcedOffline
    BanTakesEffect
