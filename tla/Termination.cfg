SPECIFICATION FairSpec
CONSTANTS
    Source = {s1, s2}
    Required = {}
    Sig = {x}
    MinSources = 2
    Target = 1
    Startup = 1
    Stall = 2
    Grace = 1
    Wall = 4
    Capacity = 1
    Lag = 1
    MaxMessages = 2
    None = None
INVARIANTS SilenceBounded EndsByWall
PROPERTIES MatchedAttemptCompletes
