SPECIFICATION Spec
CONSTANTS
    Communities = {"a", "b"}
    MaxWrites = 2
    MonthsOfYear = 12
    DaysOfWeek = 2
    DayLength = 3
    MonthLength = 2
    ShortYear = 3
CHECK_DEADLOCK FALSE
INVARIANTS
    Freshness
    ViewsAreDerivedRight
    FormsForeseeTheServer
PROPERTIES
    WrittenIsShown
