\* An account that is disabled and stays so.
SPECIFICATION Spec
CONSTANTS
    User = {u1}
    Req = {r1}
    Kickable = {}
    Reporting = {}
    BanTTL = 5
    Poll = 2
    TTL = 2
    MaxFail = 0
INVARIANT
    BarredGetsNoWindow
