SPECIFICATION Spec
CONSTANTS
    Source = {1, 2, 3}
    Sig = {x, y, z}
    Offset = {1, 2}
    MinSources = 2
    Absent = Absent
    MaxDuplicates = 1
    Listed <- Configured
CONSTRAINT DuplicatesBounded
SYMMETRY Symmetry
INVARIANTS TypeOK MatchedAgrees PercentilesAreRanks TablesAgree
PROPERTIES ImplementsCount
