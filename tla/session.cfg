SPECIFICATION FairSpec
CONSTANTS
    Queries = {q1}
    MaxClicks = 4
INVARIANTS
    BoundariesHold
    PicksAreKept
PROPERTIES
    RequestsSettle
CHECK_DEADLOCK FALSE
