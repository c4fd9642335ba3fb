\* Kicks, status changes by two administrators, restarts and one bad poll.
SPECIFICATION FairSpec
CONSTANTS
    User = {u1}
    Req = {r1, r2}
    Kickable = {u1}
    Reporting = {u1}
    BanTTL = 4
    Poll = 1
    TTL = 2
    MaxFail = 1
INVARIANTS
    ListedIsOffline
    BanInForceAfterPoll
    BarredStaysOffline
PROPERTY
    ClearedIsAdmitted
