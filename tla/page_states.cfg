\* import wizard: two files of the same name, size and date; one good, one
\* overwriting and one refused setting; community wizard: up to three rows;
\* charts: one community with up to two meters, one with none; dialogs: two
\* mounts of the page, two requests on their way, three generations of the form;
\* restoring: two backups, one of them with two communities
SPECIFICATION PageSpec
CONSTANTS
    Zevs = {"a", "b"}
    Files = {x1, x2}
    Twins = {x1, x2}
    Configs = {"good", "over", "wrong"}
    Overwriting = {"over"}
    Wrong = {"wrong"}
    MeterIds = {"m", "n"}
    MaxRows = 3
    MaxKeys = 5
    Communities = {"a", "b"}
    Meters = {x1, x2}
    Home <- homeOf
    Periods = {1, 2}
    Places = {"a", "b"}
    Subjects = {"p"}
    Typed = {"t"}
    MaxLives = 2
    MaxGen = 3
    MaxCalls = 2
    Backups = {1, 2}
    Held <- heldIn
INVARIANTS
    AppliesWhatWasShown
    CommunityIsCreatedOnce
    ChartFollowsTheAddress
PROPERTIES
    DialogsMindTheirOwn
SYMMETRY Alike
