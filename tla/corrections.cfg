SPECIFICATION InputsSpec
CONSTANTS
    p1 = p1
    m1 = m1
    pay1 = pay1
    Participants = {p1}
    LastDay = 2
    Subtotals = {1}
    PaymentIds = {pay1}
    PaymentAmounts = {1}
    CreditAmounts = {1}
    Step = 1
    MaxInvoices = 2
    MaxCredits = 1
    MaxDeletes = 1
    Points = {m1}
    LastTime = 1
    Energies = {1, 2}
    Creations = {1}
    Qualities = {"validated"}
    Reanchored <- OneStepEarly
    LegacyLogs = 1
    MaxLogs = 2
    civil_date <- TwoDays
    Members <- FirstLeaves
    Holder <- FirstHoldsLate
INVARIANTS
    FlagsAreRight
PROPERTIES
    SettledWithTheInvoice
CHECK_DEADLOCK FALSE
