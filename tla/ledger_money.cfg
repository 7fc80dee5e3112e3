SPECIFICATION Spec
CONSTANTS
    p1 = p1
    p2 = p2
    pay1 = pay1
    pay2 = pay2
    pay3 = pay3
    Participants <- OneParticipant
    LastDay = 1
    Subtotals <- MixedSubtotals
    PaymentIds <- ThreePayments
    PaymentAmounts = {3, 10}
    CreditAmounts = {3, 7}
    Step = 5
    MaxInvoices = 3
    MaxCredits = 3
    MaxDeletes = 1
SYMMETRY Symmetry
INVARIANTS
    TypeOK
    StatusAgreesWithPayments
    CreditNeverOverspent
    CorrectionsFitTheCash
PROPERTIES
    Lifecycle
CHECK_DEADLOCK FALSE
