SPECIFICATION Spec
CONSTANTS
    Targets = {1}
    PublishMin = 1
    MaxRows = 2
    MaxCommands = 1
    Rank <- Ranks
    Absent = Absent
    Broken = Broken
    Whole = Whole
INVARIANTS VerifiedIsCompleted
