SPECIFICATION Spec
CONSTANTS
    Zevs = {"a", "b"}
    Forms = {"f1", "f2", "wrong", "refused"}
    Valid = {"f1", "f2", "refused"}
    Accepted = {"f1", "f2"}
    MaxWrites = 2
    MaxSaves = 2
    MaxEpochs = 3
    MaxPages = 2
INVARIANTS
    CleanDraftIsCurrent
PROPERTIES
    EditsAreKept
