CONSTANTS
    Object = {o1}
    Site = {s1}
    Resource = {w1}
    NoRef = NoRef
    Req = {r1, r2}
SPECIFICATION Spec
SYMMETRY Symmetry
INVARIANTS
    DanglesOnlyByRace
PROPERTIES
    StatusOnlyByToggle
