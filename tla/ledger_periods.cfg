SPECIFICATION Spec
CONSTANTS
    p1 = p1
    p2 = p2
    pay1 = pay1
    pay2 = pay2
    pay3 = pay3
    Participants <- TwoParticipants
    LastDay = 2
    Subtotals = {10}
    PaymentIds <- TwoPayments
    PaymentAmounts = {}
    CreditAmounts = {}
    Step = 1
    MaxInvoices = 3
    MaxCredits = 2
    MaxDeletes = 1
SYMMETRY Symmetry
INVARIANTS
    NoDoubleBilling
    DeductionIsBacked
PROPERTIES
    RegenerationSparesIssued
    CreditReturnsOnce
CHECK_DEADLOCK FALSE
