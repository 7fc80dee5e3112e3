SPECIFICATION ReadingsSpec
CONSTANTS
    m1 = m1
    Points = {m1}
    LastTime = 2
    Energies = {0, 1}
    Creations = {1, 2}
    Qualities = {"validated", "provisional"}
    Reanchored <- EarlyOrGap
    LegacyLogs = 1
    MaxLogs = 3
INVARIANTS
    ReadingsTypeOK
    HeldIsNewer
    DeletableImportsOnlyAdd
PROPERTIES
    NeverRegresses
    RepairLosesNothing
CHECK_DEADLOCK FALSE
