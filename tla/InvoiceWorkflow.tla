--------------------------- MODULE InvoiceWorkflow ---------------------------
(***************************************************************************)
(* The invoice ledger of one community (ZEV): invoices, payments, credit   *)
(* notes and the credit set against invoices.                              *)
(*                                                                         *)
(* Source: backend/invoices/workflow.py, the replacement rules of          *)
(* backend/invoices/engine.py and the delete endpoint of                   *)
(* backend/invoices/views.py.                                              *)
(*                                                                         *)
(* Every workflow function locks the invoice row (and generation the       *)
(* participant row) before it reads what it decides on, so each one is one *)
(* step.  The delete endpoint does not: it checks an unlocked copy and     *)
(* deletes later, so it is two steps with the request in between.          *)
(*                                                                         *)
(* Money is counted in Rappen.  The primary key of an invoice and its      *)
(* number are one identity, as are those of a credit note: both are drawn  *)
(* from the counters of the ZEV row under its lock.  Rows of               *)
(* InvoiceReadingImpact, which some of these steps also write, are         *)
(* conjoined in module BillingInputs.                                      *)
(***************************************************************************)
EXTENDS Integers, FiniteSets, FiniteSetsExt, Functions

CONSTANTS
    Participants,       \* members of the community
    LastDay,            \* billing periods lie in 1..LastDay
    Subtotals,          \* what pricing can come to (subtotal plus VAT), in Rappen
    PaymentIds,         \* primary keys of payments; bounds the payments stored at once
    PaymentAmounts,     \* amounts a manager enters as a payment
    CreditAmounts,      \* amounts a manager enters as a partial credit
    Step,               \* rounding step of the ZEV: 1 (exact) or 5 (5 Rappen)
    MaxInvoices,        \* bound on invoices ever generated
    MaxCredits,         \* bound on credit notes ever issued
    MaxDeletes          \* bound on delete requests in flight

ASSUME ConstantsAssumption ==
    /\ LastDay \in Nat
    /\ Subtotals \subseteq Int
    /\ PaymentAmounts \subseteq Int /\ CreditAmounts \subseteq Int
    /\ IsFiniteSet(PaymentIds)
    /\ Step \in Nat \ {0}
    /\ MaxInvoices \in Nat /\ MaxCredits \in Nat /\ MaxDeletes \in Nat

VARIABLES
    invoices,           \* Invoice rows, by number
    invoice_counter,    \* Zev.invoice_counter
    payments,           \* Payment rows, by primary key
    credits,            \* Credit rows, by number
    credit_counter,     \* Zev.credit_note_counter
    applications,       \* CreditApplication rows, by <<credit, invoice>>
    deleting            \* invoices between the check and the delete of a request

ledger == <<payments, credits, credit_counter, applications>>
vars == <<invoices, invoice_counter, ledger, deleting>>

-----------------------------------------------------------------------------
(* Rows *)

InvoiceStatus == {"draft", "approved", "sent", "paid", "cancelled"}
CreditKind == {"reversal", "adjustment"}
Days == 1..LastDay

\* approved stands for approved_at being set.
Invoice == [participant : Participants, period_start : Days, period_end : Days,
            status : InvoiceStatus, approved : BOOLEAN, total : Int,
            credit_applied : Int, due_rounding : Int]
Payment == [invoice : Nat, amount : Int]
Credit == [participant : Participants, source : Nat, kind : CreditKind,
           amount : Int, rounding : Int, refunded : Int]
CreditApplication == [amount : Int, released : BOOLEAN]

TypeOK ==
    /\ invoices \in [DOMAIN invoices -> Invoice]
    /\ DOMAIN invoices \subseteq 1..(invoice_counter - 1)
    /\ invoice_counter \in 1..(MaxInvoices + 1)
    /\ payments \in [DOMAIN payments -> Payment]
    /\ DOMAIN payments \subseteq PaymentIds
    /\ credits \in [DOMAIN credits -> Credit]
    /\ credit_counter \in 1..(MaxCredits + 1)
    /\ DOMAIN credits = 1..(credit_counter - 1)
    /\ applications \in [DOMAIN applications -> CreditApplication]
    /\ DOMAIN applications \subseteq (DOMAIN credits) \X (DOMAIN invoices)
    /\ deleting \subseteq Nat

Live(i) == invoices[i].status # "cancelled"
Issued(i) == invoices[i].approved
Status(i) == invoices[i].status

-----------------------------------------------------------------------------
(* Amounts *)

\* Half away from zero to a multiple of the step.
round_to_step(amount) ==
    LET Nearest(a) == ((2 * a + Step) \div (2 * Step)) * Step
    IN  IF amount >= 0 THEN Nearest(amount) ELSE -Nearest(-amount)

rounding_difference(amount) == round_to_step(amount) - amount

amount_due(i) ==
    LET row == invoices[i]
    IN  IF row.total > 0
        THEN Max({row.total - row.credit_applied, 0}) + row.due_rounding
        ELSE row.total

PaymentsOf(i) == {p \in DOMAIN payments : payments[p].invoice = i}
CreditsOf(i) == {c \in DOMAIN credits : credits[c].source = i}
\* The applications of invoice i whose released_at is not set.
ActiveApplications(i) ==
    {a \in DOMAIN applications : a[2] = i /\ ~applications[a].released}

paid_chf(i) ==
    SumFunctionOnSet([p \in DOMAIN payments |-> payments[p].amount], PaymentsOf(i))

\* What the credit notes of an invoice correct, before their rounding.
credited_chf(i) ==
    SumFunctionOnSet([c \in DOMAIN credits |-> credits[c].amount - credits[c].rounding],
                     CreditsOf(i))

AppliedAmount == [a \in DOMAIN applications |-> applications[a].amount]

\* What is left of credit c when only the applications to the invoices of
\* kept still exist.
RemainingWith(c, kept) ==
    credits[c].amount - credits[c].refunded
      - SumFunctionOnSet(AppliedAmount,
            {a \in DOMAIN applications :
                a[1] = c /\ a[2] \in kept /\ ~applications[a].released})

credit_remaining(c) == RemainingWith(c, DOMAIN invoices)

-----------------------------------------------------------------------------
Init ==
    /\ invoices = <<>>
    /\ invoice_counter = 1
    /\ payments = <<>>
    /\ credits = <<>>
    /\ credit_counter = 1
    /\ applications = <<>>
    /\ deleting = {}

(* Generation: engine.generate_invoice *)

\* Mutant: periods that share only a boundary day do not overlap.
OverlapsStrictly(i, p, start, end) ==
    /\ invoices[i].participant = p
    /\ invoices[i].period_start < end
    /\ invoices[i].period_end > start

Overlaps(i, p, start, end) ==
    /\ invoices[i].participant = p
    /\ invoices[i].period_start <= end
    /\ invoices[i].period_end >= start

Overlapping(p, start, end) == {i \in DOMAIN invoices : Overlaps(i, p, start, end)}

\* No overlap is approved, sent or paid; one never issued is covered whole.
Replaceable(p, start, end) ==
    \A i \in Overlapping(p, start, end) :
        /\ Status(i) \in {"draft", "cancelled"}
        /\ ~Issued(i) => /\ start <= invoices[i].period_start
                         /\ end >= invoices[i].period_end

\* Mutant: cancelled invoices are replaced even when they were issued.
DoomedEvenIssued(p, start, end) == Overlapping(p, start, end)

Doomed(p, start, end) == {i \in Overlapping(p, start, end) : ~Issued(i)}

\* Mutant: every credit note of the ZEV, not only the participant's.
AnyCredits(p) == DOMAIN credits

OwnCredits(p) == {c \in DOMAIN credits : credits[c].participant = p}

\* Mutant: takes the credit note's amount, whatever is left of it.
TakenOfWhole(c, p, total, kept) ==
    IF c \in OwnCredits(p) THEN Max({Min({credits[c].amount, total}), 0}) ELSE 0

\* What apply_open_credits takes of credit c for a new invoice of p over
\* total: oldest credit first, until the total is covered.  kept are the
\* invoices that survive the replacement, whose credit stays in use.
TakenOf(c, p, total, kept) ==
    LET Own == OwnCredits(p)
        open == [d \in DOMAIN credits |-> Max({RemainingWith(d, kept), 0})]
        to_cover == total - SumFunctionOnSet(open, {d \in Own : d < c})
    IN  IF c \in Own THEN Max({Min({open[c], to_cover}), 0}) ELSE 0

generate_invoice(p, start, end, subtotal) ==
    LET new == invoice_counter
        doomed == Doomed(p, start, end)
        kept == DOMAIN invoices \ doomed
        total == round_to_step(subtotal)
        taken == [c \in DOMAIN credits |-> TakenOf(c, p, total, kept)]
        applied == SumFunction(taken)
        row == [participant |-> p, period_start |-> start, period_end |-> end,
                status |-> "draft", approved |-> FALSE, total |-> total,
                credit_applied |-> applied,
                due_rounding |-> IF applied > 0 /\ total > applied
                                 THEN rounding_difference(total - applied) ELSE 0]
        keptApplications == {a \in DOMAIN applications : a[2] \in kept}
        newApplications == {<<c, new>> : c \in {d \in DOMAIN credits : taken[d] > 0}}
    IN  /\ invoice_counter <= MaxInvoices
        /\ start <= end
        /\ Replaceable(p, start, end)
        /\ invoices' = [i \in kept \cup {new} |-> IF i = new THEN row ELSE invoices[i]]
        /\ invoice_counter' = invoice_counter + 1
        /\ payments' = Restrict(payments,
                          {q \in DOMAIN payments : payments[q].invoice \notin doomed})
        /\ applications' =
              [a \in keptApplications \cup newApplications |->
                  IF a[2] = new THEN [amount |-> taken[a[1]], released |-> FALSE]
                  ELSE applications[a]]
        /\ UNCHANGED <<credits, credit_counter, deleting>>

-----------------------------------------------------------------------------
(* Status transitions and money: workflow.py *)

\* Mutant: the caller's status is trusted instead of the locked row's.
TransitionUnchecked(i, from, to) ==
    invoices' = [invoices EXCEPT ![i].status = to]

Transition(i, from, to) ==
    /\ Status(i) \in from
    /\ invoices' = [invoices EXCEPT ![i].status = to]

approve_invoice(i) ==
    /\ Status(i) = "draft"
    /\ invoices' = [invoices EXCEPT ![i].status = "approved", ![i].approved = TRUE]
    /\ UNCHANGED <<invoice_counter, ledger, deleting>>

\* mark_invoice_sent, and record_email_delivery on an approved invoice.
mark_invoice_sent(i) ==
    /\ Transition(i, {"approved"}, "sent")
    /\ UNCHANGED <<invoice_counter, ledger, deleting>>

BookPayment(i, amount) ==
    \E p \in PaymentIds \ DOMAIN payments :
        payments' = [q \in DOMAIN payments \cup {p} |->
                        IF q = p THEN [invoice |-> i, amount |-> amount]
                        ELSE payments[q]]

record_payment(i, amount) ==
    LET outstanding == amount_due(i) - paid_chf(i)
    IN  /\ amount_due(i) > 0
        /\ 0 < amount /\ amount <= outstanding
        /\ Transition(i, {"sent"}, IF amount = outstanding THEN "paid" ELSE "sent")
        /\ BookPayment(i, amount)
        /\ UNCHANGED <<invoice_counter, credits, credit_counter, applications, deleting>>

mark_invoice_paid(i) ==
    LET outstanding == amount_due(i) - paid_chf(i)
    IN  /\ Transition(i, {"sent"}, "paid")
        /\ IF outstanding # 0 THEN BookPayment(i, outstanding)
           ELSE UNCHANGED payments
        /\ UNCHANGED <<invoice_counter, credits, credit_counter, applications, deleting>>

\* Mutant: the status is left as it was.
delete_payment_only(p) ==
    LET i == payments[p].invoice
    IN  /\ CreditsOf(i) = {}
        /\ Transition(i, {"sent", "paid"}, Status(i))
        /\ payments' = Restrict(payments, DOMAIN payments \ {p})
        /\ UNCHANGED <<invoice_counter, credits, credit_counter, applications, deleting>>

delete_payment(p) ==
    LET i == payments[p].invoice
        rest == paid_chf(i) - payments[p].amount
    IN  /\ CreditsOf(i) = {}
        /\ Transition(i, {"sent", "paid"},
              IF Status(i) = "paid" /\ rest # amount_due(i) THEN "sent" ELSE Status(i))
        /\ payments' = Restrict(payments, DOMAIN payments \ {p})
        /\ UNCHANGED <<invoice_counter, credits, credit_counter, applications, deleting>>

\* Mutant: everything is released.
release_everything(i) ==
    applications' = [a \in DOMAIN applications |->
                        [applications[a] EXCEPT !.released = TRUE]]

release_credit_applications(i) ==
    applications' = [a \in DOMAIN applications |->
                        IF a[2] = i THEN [applications[a] EXCEPT !.released = TRUE]
                        ELSE applications[a]]

cancel_invoice(i) ==
    /\ Transition(i, {"draft", "approved", "sent"}, "cancelled")
    /\ PaymentsOf(i) = {}
    /\ release_credit_applications(i)
    /\ UNCHANGED <<invoice_counter, payments, credits, credit_counter, deleting>>

\* The guards correct_invoice shares between its two kinds.
Correctable(i) ==
    /\ Status(i) \in {"sent", "paid"}
    /\ Status(i) = "sent" => paid_chf(i) > 0
    /\ invoices[i].total > 0

\* Mutant: earlier credit notes are forgotten.
creditable_received(i) == paid_chf(i)

creditable(i) == paid_chf(i) - credited_chf(i)

\* Mutant: the number is used but the counter is not saved.
IssueUncounted(i, kind, amount) ==
    /\ credit_counter <= MaxCredits
    /\ credits' = [c \in DOMAIN credits \cup {credit_counter} |->
                      [participant |-> invoices[i].participant, source |-> i,
                       kind |-> kind, amount |-> round_to_step(amount),
                       rounding |-> rounding_difference(amount), refunded |-> 0]]
    /\ UNCHANGED credit_counter

IssueCredit(i, kind, amount) ==
    /\ credit_counter <= MaxCredits
    /\ credits' = [c \in DOMAIN credits \cup {credit_counter} |->
                      IF c = credit_counter
                      THEN [participant |-> invoices[i].participant, source |-> i,
                            kind |-> kind, amount |-> round_to_step(amount),
                            rounding |-> rounding_difference(amount), refunded |-> 0]
                      ELSE credits[c]]
    /\ credit_counter' = credit_counter + 1

\* kind = reversal: the cash not yet credited becomes a credit note, unless it
\* rounds to nothing; the invoice is cancelled and the credit it used is free.
reverse_invoice(i) ==
    /\ Correctable(i)
    /\ creditable(i) > 0 \/ ActiveApplications(i) # {}
    /\ IF creditable(i) > 0 /\ round_to_step(creditable(i)) > 0
       THEN IssueCredit(i, "reversal", creditable(i))
       ELSE UNCHANGED <<credits, credit_counter>>
    /\ invoices' = [invoices EXCEPT ![i].status = "cancelled"]
    /\ release_credit_applications(i)
    /\ UNCHANGED <<invoice_counter, payments, deleting>>

\* kind = adjustment: a credit note over part of the cash, nothing else.
adjust_invoice(i, amount) ==
    /\ Correctable(i)
    /\ 0 < amount /\ amount <= creditable(i)
    /\ round_to_step(amount) > 0
    /\ IssueCredit(i, "adjustment", amount)
    /\ UNCHANGED <<invoices, invoice_counter, payments, applications, deleting>>

refund_credit(c) ==
    /\ credit_remaining(c) > 0
    /\ credits' = [credits EXCEPT ![c].refunded = @ + credit_remaining(c)]
    /\ UNCHANGED <<invoices, invoice_counter, payments, credit_counter,
                   applications, deleting>>

-----------------------------------------------------------------------------
(* The delete endpoint: InvoiceViewSet.destroy *)

can_delete_invoice(i) == Status(i) \in {"draft", "cancelled"} /\ ~Issued(i)

\* The guards, on a row read without a lock.
destroy_check(i, admin) ==
    /\ Cardinality(deleting) < MaxDeletes
    /\ CreditsOf(i) = {}
    /\ PaymentsOf(i) = {}
    /\ admin \/ can_delete_invoice(i)
    /\ deleting' = deleting \cup {i}
    /\ UNCHANGED <<invoices, invoice_counter, ledger>>

\* super().destroy(): the row is read again and deleted with what cascades
\* from it.  A row that is gone answers 404; credit notes protect their source.
destroy_delete(i) ==
    /\ deleting' = deleting \ {i}
    /\ IF i \in DOMAIN invoices /\ CreditsOf(i) = {}
       THEN /\ invoices' = Restrict(invoices, DOMAIN invoices \ {i})
            /\ payments' = Restrict(payments, DOMAIN payments \ PaymentsOf(i))
            /\ applications' = Restrict(applications,
                                  {a \in DOMAIN applications : a[2] # i})
       ELSE UNCHANGED <<invoices, payments, applications>>
    /\ UNCHANGED <<invoice_counter, credits, credit_counter>>

-----------------------------------------------------------------------------
InvoiceStep(i) ==
    \/ approve_invoice(i)
    \/ mark_invoice_sent(i)
    \/ \E amount \in PaymentAmounts : record_payment(i, amount)
    \/ mark_invoice_paid(i)
    \/ cancel_invoice(i)
    \/ reverse_invoice(i)
    \/ \E amount \in CreditAmounts : adjust_invoice(i, amount)
    \/ \E admin \in BOOLEAN : destroy_check(i, admin)

Next ==
    \/ \E p \in Participants, start, end \in Days, subtotal \in Subtotals :
          generate_invoice(p, start, end, subtotal)
    \/ \E i \in DOMAIN invoices : InvoiceStep(i)
    \/ \E p \in DOMAIN payments : delete_payment(p)
    \/ \E c \in DOMAIN credits : refund_credit(c)
    \/ \E i \in deleting : destroy_delete(i)

Spec == Init /\ [][Next]_vars

-----------------------------------------------------------------------------
(* Properties *)

\* The status agrees with the money: a paid invoice received exactly its
\* amount due; a sent one still lacks some of it (or is a payout, or covered
\* by credit, with nothing booked); before sending nothing is booked.  The
\* status is written by record_payment, mark_invoice_paid and delete_payment
\* from sums that any of the others may have changed.
StatusAgreesWithPayments ==
    \A i \in DOMAIN invoices :
        CASE Status(i) = "paid" -> paid_chf(i) = amount_due(i)
          [] Status(i) = "sent" -> \/ PaymentsOf(i) = {}
                                   \/ 0 < paid_chf(i) /\ paid_chf(i) < amount_due(i)
          [] Status(i) \in {"draft", "approved"} -> PaymentsOf(i) = {}
          [] OTHER -> TRUE

\* A credit note is never spent twice: generation, regeneration, cancellation,
\* reversal, deletion and refund together never use more than its amount.
CreditNeverOverspent == \A c \in DOMAIN credits : credit_remaining(c) >= 0

\* Credit notes never correct more cash than the invoice received, however
\* partial credits, later payments and removed payments interleave.
CreditedWithinReceived ==
    \A i \in DOMAIN invoices :
        CreditsOf(i) # {} => 0 < credited_chf(i) /\ credited_chf(i) <= paid_chf(i)

\* A cancelled invoice keeps nothing: no credit stays in use for it, and the
\* cash it received was credited down to less than half the smallest coin.
CancelledKeepsNothing ==
    \A i \in DOMAIN invoices :
        ~Live(i) => /\ ActiveApplications(i) = {}
                    /\ 0 <= creditable(i) /\ 2 * creditable(i) < Step

\* No day is billed twice: a participant never has two invoices that are not
\* cancelled over overlapping periods (_replaceable_overlapping_invoice_ids).
NoDoubleBilling ==
    \A i, j \in DOMAIN invoices :
        /\ i # j /\ Live(i) /\ Live(j)
        /\ invoices[i].participant = invoices[j].participant
        => \/ invoices[i].period_end < invoices[j].period_start
           \/ invoices[j].period_end < invoices[i].period_start

\* What an invoice says it deducted is really held for it, out of the
\* participant's own credit notes, for as long as the invoice stands.
DeductionIsBacked ==
    \A i \in DOMAIN invoices :
        Live(i) =>
            /\ SumFunctionOnSet(AppliedAmount, ActiveApplications(i))
                 = invoices[i].credit_applied
            /\ \A a \in ActiveApplications(i) :
                  credits[a[1]].participant = invoices[i].participant

\* The arrows of the state machine in workflow.py.
AllowedTransitions ==
    {<<"draft", "approved">>, <<"draft", "cancelled">>, <<"approved", "sent">>,
     <<"approved", "cancelled">>, <<"sent", "paid">>, <<"sent", "cancelled">>,
     <<"paid", "sent">>, <<"paid", "cancelled">>}

\* Statuses move along the arrows only, approved_at is never cleared, and what
\* an invoice asks for is frozen from generation on.
LifecycleStep ==
    \A i \in (DOMAIN invoices) \cap DOMAIN invoices' :
        LET before == invoices[i]
            after == invoices'[i]
        IN  /\ before.status # after.status =>
                  <<before.status, after.status>> \in AllowedTransitions
            /\ before.approved => after.approved
            /\ amount_due(i)' = amount_due(i)
Lifecycle == [][LifecycleStep]_vars

\* Regeneration spares issued invoices: one that disappears was the target of
\* a delete request (ADR 0037).
RetentionStep ==
    \A i \in DOMAIN invoices :
        Issued(i) /\ i \notin DOMAIN invoices' => i \in deleting
RegenerationSparesIssued == [][RetentionStep]_vars

\* Credit comes back to a credit note only from an invoice that used it and is
\* cancelled, replaced or deleted by that very step, so a retry or a second
\* cancellation never frees it twice.
CreditReturnStep ==
    \A c \in DOMAIN credits :
        credit_remaining(c)' > credit_remaining(c) =>
            \E i \in DOMAIN invoices :
                /\ Live(i) /\ <<c, i>> \in ActiveApplications(i)
                /\ i \in DOMAIN invoices' => invoices'[i].status = "cancelled"
CreditReturnsOnce == [][CreditReturnStep]_vars

\* Corrections and the cash fit together, in whatever order payments, partial
\* credits and a final reversal come: never more is credited than was received,
\* and nothing is kept of an invoice that is cancelled (correct_invoice).
CorrectionsFitTheCash == CreditedWithinReceived /\ CancelledKeepsNothing
=============================================================================
