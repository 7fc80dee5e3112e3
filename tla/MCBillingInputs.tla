--------------------------- MODULE MCBillingInputs ---------------------------
(* Instances of BillingInputs for TLC: two days with one instant each. *)
EXTENDS BillingInputs, TLC

CONSTANTS p1, m1, pay1

TwoDays == [t \in 0..LastTime |-> t + 1]
OneStepEarly == [t \in 0..LastTime |-> t - 1]

\* m1 is the community's own on the first day, the last of p1's membership; on
\* the second it is assigned to p1, whose assignment is open.
FirstLeaves == [d \in Days |-> IF d = 1 THEN {p1} ELSE {}]
FirstHoldsLate == [a \in Points \X Days |-> IF a[2] = 1 THEN None ELSE p1]
=============================================================================
