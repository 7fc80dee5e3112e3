---------------------------- MODULE BillingInputs ----------------------------
(***************************************************************************)
(* The invoice ledger and the meter readings of one community together:    *)
(* invoices are priced from the readings of their period, and a committed  *)
(* change of the readings flags the invoices it may have outdated.         *)
(*                                                                         *)
(* Source: backend/invoices/reading_impact.py, called by the importers,    *)
(* the deletions and the repair command of module MeterReadings, and by    *)
(* generation, cancellation and correction of module InvoiceWorkflow.      *)
(*                                                                         *)
(* Generation and every writer of readings hold the advisory lock of the   *)
(* community, and flagging locks the invoices it matches, so each          *)
(* operation stays one step.                                               *)
(***************************************************************************)
EXTENDS InvoiceWorkflow, MeterReadings

CONSTANTS
    civil_date,         \* the Swiss civil day of an instant
    Members,            \* participants whose membership covers a day
    Holder              \* who a point is assigned to on a day, or None

VARIABLES
    impacts,            \* invoices with an open InvoiceReadingImpact
    priced              \* history: the quantities each invoice was priced from

ledgerVars == vars
inputsVars == <<ledgerVars, readingsVars, impacts, priced>>

ASSUME AssignmentsAssumption ==
    /\ civil_date \in [0..LastTime -> Days]
    /\ Members \in [Days -> SUBSET Participants]
    /\ Holder \in [Points \X Days -> Participants \cup {None}]
    /\ None \notin Participants

Day(s) == civil_date[s[2]]

-----------------------------------------------------------------------------
(* Pricing reads the readings: engine._gather_period_readings *)

\* At an instant where the participant holds a meter with a reading, or takes
\* part in community allocation, all readings of the community set the split
\* between local and grid energy.
PricedAt(p, t) ==
    \/ p \in Members[civil_date[t]]
    \/ \E m \in Points : Holder[<<m, civil_date[t]>>] = p /\ <<m, t>> \in DOMAIN readings

_gather_period_readings(p, start, end) ==
    [s \in {r \in DOMAIN readings : Day(r) \in start..end /\ PricedAt(p, r[2])} |->
        readings[s].energy]

CurrentInputs(i) ==
    _gather_period_readings(invoices[i].participant,
                            invoices[i].period_start, invoices[i].period_end)

-----------------------------------------------------------------------------
(* Flagging: reading_impact.py *)

\* Mutant: only who held the meter that day, not who shares the pool.
affected_holder_days(slots) ==
    [d \in {Day(s) : s \in slots} |->
        {Holder[<<s[1], d>>] : s \in {r \in slots : Day(r) = d}} \ {None}]

\* Everyone whose membership covers the day, and who held the meter that day.
affected_participant_days(slots) ==
    [d \in {Day(s) : s \in slots} |->
        Members[d] \cup ({Holder[<<s[1], d>>] : s \in {r \in slots : Day(r) = d}} \ {None})]

_invoices_for_targets(targets) ==
    {i \in DOMAIN invoices :
        /\ invoices[i].status # "cancelled"
        /\ \E d \in DOMAIN targets :
              /\ invoices[i].participant \in targets[d]
              /\ invoices[i].period_start <= d /\ d <= invoices[i].period_end}

\* Mutant: the newest correction takes the place of the open ones.
FlagAnew(slots) ==
    /\ impacts' = _invoices_for_targets(affected_participant_days(slots))
    /\ UNCHANGED <<ledgerVars, priced>>

Flag(slots) ==
    /\ impacts' = impacts \cup _invoices_for_targets(affected_participant_days(slots))
    /\ UNCHANGED <<ledgerVars, priced>>

Import ==
    \/ \E source \in {"csv", "sdatch"} : import_rejected(source) /\ Flag({})
    \/ \E file \in Files(Energies), overwrite_existing \in BOOLEAN :
          /\ import_csv(file, overwrite_existing)
          /\ Flag(CsvChanged(file, overwrite_existing))
    \/ \E d \in Deliveries :
          import_sdatch(d) /\ Flag(SdatChanged(d))

\* Imports, or one meter's readings from date_from to date_to, which the
\* serializer wants in this order.
Delete ==
    \/ \E batches \in SUBSET DOMAIN logs :
          /\ _delete_import_logs(batches)
          /\ Flag(SlotsOf(readings, batches))
    \/ \E point \in Points, date_to \in Days : \E date_from \in 1..date_to :
          LET times == {t \in 0..LastTime : civil_date[t] \in date_from..date_to}
          IN  /\ delete_readings(point, times)
              /\ Flag(Window(readings, point, times))

\* The slots a repair takes readings from and puts them into.
RepairedSlots(batches) ==
    SlotsOf(readings, batches) \cup
    {NewSlot(s) : s \in Moves(batches)}

\* Both sides of the move are affected.  Without allow_invoiced an issued
\* invoice among them refuses the repair.
Repair ==
    \E batches \in SUBSET DOMAIN logs, allow_invoiced \in BOOLEAN :
        /\ reanchor(batches)
        /\ \/ allow_invoiced
           \/ \A i \in _invoices_for_targets(
                          affected_participant_days(RepairedSlots(batches))) :
                 invoices[i].status = "draft"
        /\ Flag(RepairedSlots(batches))

-----------------------------------------------------------------------------
(* The ledger's side *)

\* settle_regeneration deletes the replaced drafts with their impacts; the new
\* invoice is priced from the readings of this moment.
Generate ==
    \E p \in Participants, start, end \in Days, subtotal \in Subtotals :
        LET doomed == Doomed(p, start, end)
        IN  /\ generate_invoice(p, start, end, subtotal)
            /\ impacts' = impacts \ doomed
            /\ priced' = [i \in (DOMAIN priced \ doomed) \cup {invoice_counter} |->
                             IF i = invoice_counter
                             THEN _gather_period_readings(p, start, end)
                             ELSE priced[i]]
            /\ UNCHANGED readingsVars

resolve_on_cancel(i) == impacts' = impacts \ {i}

Cancel ==
    \E i \in DOMAIN invoices :
        /\ cancel_invoice(i) \/ reverse_invoice(i)
        /\ resolve_on_cancel(i)
        /\ UNCHANGED <<readingsVars, priced>>

\* The impacts of a deleted invoice go with it.
Destroy ==
    \E i \in deleting :
        /\ destroy_delete(i)
        /\ impacts' = impacts \cap DOMAIN invoices'
        /\ priced' = Restrict(priced, DOMAIN invoices')
        /\ UNCHANGED readingsVars

\* The operations that neither read nor resolve impacts.
Carry ==
    /\ \/ \E i \in DOMAIN invoices :
             \/ approve_invoice(i)
             \/ mark_invoice_sent(i)
             \/ \E amount \in PaymentAmounts : record_payment(i, amount)
             \/ mark_invoice_paid(i)
             \/ \E amount \in CreditAmounts : adjust_invoice(i, amount)
             \/ \E admin \in BOOLEAN : destroy_check(i, admin)
       \/ \E p \in DOMAIN payments : delete_payment(p)
       \/ \E c \in DOMAIN credits : refund_credit(c)
    /\ UNCHANGED <<readingsVars, impacts, priced>>

-----------------------------------------------------------------------------
InputsInit ==
    /\ Init
    /\ ReadingsInit
    /\ impacts = {}
    /\ priced = <<>>

InputsNext == Import \/ Delete \/ Repair \/ Generate \/ Cancel \/ Destroy \/ Carry

InputsSpec == InputsInit /\ [][InputsNext]_inputsVars

-----------------------------------------------------------------------------
(* Properties *)

InputsTypeOK ==
    /\ TypeOK
    /\ ReadingsTypeOK
    /\ impacts \subseteq DOMAIN invoices
    /\ DOMAIN priced = DOMAIN invoices

\* A reading concerns the members of its day and who held its meter that day.
Concerns(s, p) == p \in Members[Day(s)] \/ Holder[<<s[1], Day(s)>>] = p

\* What an invoice is priced from, as far as it concerns its participant.
OwnInputs(i, inputs) ==
    Restrict(inputs, {s \in DOMAIN inputs : Concerns(s, invoices[i].participant)})

\* No invoice is silently outdated: one that is not cancelled was priced from
\* the readings as they are now, or carries an open impact, whatever import,
\* deletion or repair came between (invoice-lifecycle spec, 4.6).  Left out are
\* the other meters on days on which the participant is assigned one without
\* being a member: they set the split, and their changes flag members only.
OutdatedIsFlagged ==
    \A i \in DOMAIN invoices :
        Live(i) => i \in impacts \/ OwnInputs(i, priced[i]) = OwnInputs(i, CurrentInputs(i))

\* A cancelled invoice asks for no review: no step leaves or puts an open
\* impact on it.
CancelledAsksNothing == \A i \in impacts : Live(i)

\* Impacts are settled only with their invoice: an open impact disappears
\* only when its invoice is replaced, cancelled or deleted in that step.
SettleStep ==
    \A i \in impacts \ impacts' :
        i \in DOMAIN invoices' => invoices'[i].status = "cancelled"
SettledWithTheInvoice == [][SettleStep]_inputsVars

\* The open impacts are the right ones: every invoice that stands and is no
\* longer priced from the readings as they are has one, a cancelled one none.
FlagsAreRight == InputsTypeOK /\ OutdatedIsFlagged /\ CancelledAsksNothing
=============================================================================
