SPECIFICATION Spec
CONSTANTS
    Source = {s1, s2, s3}
    Required = {s1, s2, s3}
    Sig = {x, y}
    MinSources = 2
    Target = 1
    Startup = 1
    Stall = 2
    Grace = 1
    Wall = 4
    Capacity = 1
    Lag = 0
    MaxMessages = 5
    None = None
SYMMETRY Symmetry
INVARIANTS FirstSeenIsFirstArrival
