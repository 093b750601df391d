SPECIFICATION FairSpec
CONSTANTS
    Endpoint = {a}
    Slot = {0, 1}
    Samples = 4
    MaxInflight = 2
    Timeout = 3
    Horizon = 17
    None = None
INVARIANTS TypeOK OnSchedule EveryTickCounted
PROPERTIES ProbeEnds
