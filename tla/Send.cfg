SPECIFICATION FairSpec
CONSTANTS
    Count = 2
    PollLimit = 2
    Timeout = 1
    Pause = 2
    Validity = 2
    Behind = 1
    Horizon = 17
INVARIANTS TypeOK LandingsAreReal LandedOnce DeltaNotUnderstated ReportIsRight AttemptsBounded
PROPERTIES SendEnds
