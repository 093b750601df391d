SPECIFICATION FairSpec
CONSTANTS
    Endpoint = {a, b}
    Event = {x, y}
    Target = 2
    Capacity = 1
    MaxUnpaired = 1
    MaxRepeats = 2
    None = None
INVARIANTS TypeOK WinsAreReal PairedFromFirstReports SharedEventsRaced
PROPERTIES EndsWithStreams
