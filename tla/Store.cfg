SPECIFICATION Spec
CONSTANTS
    Targets = {1}
    PublishMin = 1
    MaxRows = 1
    MaxCommands = 3
    Rank <- Ranks
    Absent = Absent
    Broken = Broken
    Whole = Whole
INVARIANTS TypeOK CompletedIsBacked ReportIsBacked FinishedVerifies BundleIsWhole
