\* Two users behind one address, one heartbeat lost or one restart, one kick;
\* heartbeats that come late.
SPECIFICATION SessionsSpec
CONSTANTS
    ip1 = ip1
    User = {Ann, Bob}
    IP = {ip1}
    Demo <- MCDemo
    NoEntry = NoEntry
    TTL = 2
    Poll = 1
    Delay = 1
    Window = 3
    MaxNow = 5
    MaxFault = 1
    MaxKick = 1
INVARIANTS
    ListedWasThere
    PresentIsShown
SYMMETRY Symmetry
CHECK_DEADLOCK FALSE
