CONSTANTS
    Proc = {g1, g2}
    Client = {c1}
    Nobody = Nobody
    MaxFaults = 2
    MaxAged = 1
SPECIFICATION Spec
INVARIANTS
    ServedVerifies
    ClientsVerify
    TakenPairMatches
PROPERTIES
    Heals
