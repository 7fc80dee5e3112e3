-------------------------- MODULE MCInvoiceWorkflow --------------------------
(* Instances of InvoiceWorkflow for TLC. *)
EXTENDS InvoiceWorkflow, TLC

CONSTANTS p1, p2, pay1, pay2, pay3

OneParticipant == {p1}
TwoParticipants == {p1, p2}
TwoPayments == {pay1, pay2}
ThreePayments == {pay1, pay2, pay3}

\* A payout, an amount that rounds up and one that rounds down (Step = 5).
MixedSubtotals == {-5, 8, 12}

\* Payment keys are interchangeable, and so are participants.
Symmetry == Permutations({pay1, pay2, pay3}) \cup Permutations({p1, p2})
=============================================================================
