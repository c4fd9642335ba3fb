CONSTANTS
    Device = {d1, d2, d3}
    Post = {p1, p2}
    Ask = {a1}
    MaxDevices = 1
    Fresh = 0
    MaxOpen = 2
    MaxUnread = 1
    disk = disk
    screen = screen
    Key = {disk, screen}
    Platform = "Windows"
    Baselines <- MCBaselines
    MaxResults = 2
SPECIFICATION Spec
SYMMETRY Symmetry
INVARIANTS
    TypeOK
    DevicesBounded
    TrailFollowsGate
    SilenceNeverHelps
PROPERTIES
    NoTokenPastReason
    RefusedForReason
