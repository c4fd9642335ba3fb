\* One flow at a time, two users at one address, a registry that changes its mind.
SPECIFICATION FairTunnelSpec
CONSTANTS
    Ann = Ann
    Bob = Bob
    Staff = Staff
    oa = oa
    b1 = b1
    Flow = {f1}
    Slots = 1
    Who <- MCWho
    Me <- MCMe
    NoOne = NoOne
    Resource = {oa}
    NoResource = NoResource
    Default = Default
    Policies <- MCPolicies
INVARIANTS
    RoutedAsMapped
PROPERTIES
    RefusalIsShown
    EveryEndCloses
