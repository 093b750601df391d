SPECIFICATION Spec
CONSTANTS
    Source = {s1, s2}
    Required = {s1}
    Sig = {x, y}
    MinSources = 2
    Target = 1
    Startup = 1
    Stall = 2
    Grace = 1
    Wall = 4
    Capacity = 2
    Lag = 0
    MaxMessages = 4
    None = None
SYMMETRY Symmetry
INVARIANTS TypeOK NothingLost EvidenceReplay WarmBeforeRace GraceIffTarget EndedOnlyWithoutRequired EndsByWall
PROPERTIES GraceKept ImplementsAttempt
