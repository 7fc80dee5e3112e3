--------------------------- MODULE BillingScreens ---------------------------
(***************************************************************************)
(* The screens of the billing area: a period's invoices and their charges,  *)
(* one invoice with its payments and credit notes, the e-mails, the reports *)
(* and the documents delivered to participants. A component is an operator  *)
(* of the context it is mounted in.                                         *)
(***************************************************************************)
EXTENDS WebKeys, WebApi

overview == {InvoiceKeys.periodOverview}

\* invalidateInvoicesList and invalidateCockpit of useInvoiceActions
related ==
    {InvoiceKeys.lists, InvoiceKeys.mine, InvoiceKeys.readiness,
     InvoiceKeys.readinessList, InvoiceKeys.attention}

-----------------------------------------------------------------------------
(* useInvoiceActions: what a row, and the whole period, can be taken        *)
(* through. The submissions that queue work, and the payment, carry the     *)
(* community and period they were made in.                                  *)

rowMutations ==
    [generate |-> Guarded(Offer(InvoiceApi.generateInvoice, overview \cup related), overview),
     pdf      |-> Offer(InvoiceStepApi.generateInvoicePdf, overview),
     approve  |-> Offer(InvoiceStepApi.approveInvoice, overview \cup related),
     delete   |-> Confirmed(Offer(InvoiceStepApi.deleteInvoice, overview \cup related)),
     email    |-> Guarded(Offer(InvoiceStepApi.sendInvoiceEmail, overview \cup related), overview),
     markSent |-> Offer(InvoiceStepApi.markInvoiceSent, overview \cup related),
     markPaid |-> Offer(InvoiceStepApi.markInvoicePaid, overview \cup related),
     recordPayment |-> Guarded(Offer(InvoiceStepApi.recordPayment, overview \cup related),
                               overview \cup related)]

batchMutations ==
    [generateAll |-> Guarded(Offer(InvoiceApi.generateInvoicesForZev, overview \cup related),
                             overview \cup {InvoiceKeys.lists, InvoiceKeys.mine}),
     approveAll  |-> Offer(InvoiceApi.approveAllInvoices, overview \cup related),
     sendAll     |-> Guarded(Offer(InvoiceApi.sendAllInvoices, overview \cup related), overview),
     generateAllPdfs |-> Guarded(Offer(InvoiceApi.generateAllPdfs, overview), overview)]

\* every row at the step its status is at
getPrimaryRowAction ==
    Does({On(rowMutations.generate, {"none", "cancelled"}), On(rowMutations.approve, {"draft"}),
          On(rowMutations.email, {"approved"}), On(rowMutations.markPaid, {"sent"})})

\* without payments; a manager only what was never approved
hasDeletePermission(c) ==
    IF accessFor(c).isAdmin THEN {"draft", "approved", "sent", "cancelled"}
                            ELSE {"draft", "cancelled"}

getRowMenuItems(c) ==
    Does({On(rowMutations.generate, {"draft"}), On(rowMutations.markSent, {"approved"}),
          On(rowMutations.recordPayment, {"sent"}), On(rowMutations.email, {"sent"}),
          On(rowMutations.delete, hasDeletePermission(c)), rowMutations.pdf})

batchMenuItems ==
    Does({batchMutations.generateAll, batchMutations.approveAll,
          batchMutations.sendAll, batchMutations.generateAllPdfs})

-----------------------------------------------------------------------------
(* A charge counts in the next generation, so every invoice query reloads.  *)

PeriodCharges(c) ==
    LET reload == {ChargeKeys.lists, <<"invoices">>}
        periodOpen == {"none", "draft", "cancelled"}
    IN Join({ Reads({Query(ChargeKeys.list, ChargeApi.fetchCharges),
                     Query(ZevKeys.participants, ParticipantApi.fetchParticipants)}),
              When(canWriteInSelectedCommunity(c),
                   Does({On(Guarded(Offer(ChargeApi.createCharge, reload), reload), periodOpen),
                         On(Guarded(Offer(ChargeApi.updateCharge, reload), reload), periodOpen),
                         On(Confirmed(Guarded(Offer(ChargeApi.deleteCharge, reload), reload)),
                            periodOpen)})) })

\* the form asks for a preview of the allocation as it is filled in
ChargeForm(c) ==
    When(canWriteInSelectedCommunity(c),
         Reads({Query(ChargeKeys.preview, ChargeApi.previewCharge)}))

\* while PDFs or generations are awaited the overview is asked again
InvoicesContent(c) ==
    Join({ Reads({Polls(Query(InvoiceKeys.periodOverview, InvoiceApi.fetchInvoicePeriodOverview))}),
           When(canWriteInSelectedCommunity(c),
                Join({getPrimaryRowAction, getRowMenuItems(c), batchMenuItems})),
           When(accessFor(c).isZevScope, PeriodCharges(c)),
           When(accessFor(c).isZevScope, ChargeForm(c)) })

BillingEmailsPage(c) ==
    LET retry == Offer(InvoiceStepApi.retryFailedEmail,
                       {InvoiceKeys.lists, InvoiceKeys.mine, InvoiceKeys.detail})
    IN Join({ Reads({Polls(Query(InvoiceKeys.list, InvoiceApi.fetchInvoices))}),
              When(canWriteInSelectedCommunity(c), Does({Guarded(retry, {})})) })

\* two tabs, one of them mounted
BillingHubPage(c, tab) ==
    IF tab = "invoices" THEN InvoicesContent(c) ELSE BillingEmailsPage(c)

-----------------------------------------------------------------------------
(* One invoice. The answer to a change replaces the cached invoice, and the *)
(* lists that show it are reloaded. What is offered follows the account's   *)
(* relation to the invoice's community, whatever community is selected.     *)

handleInvoiceChanged(offer) ==
    Sets([offer EXCEPT !.refreshes =
            {InvoiceKeys.lists, <<"invoices", "period-overview">>, InvoiceKeys.mine,
             InvoiceKeys.credits, <<"invoices", "readiness">>,
             <<"invoices", "readiness-list">>, <<"invoices", "attention">>}],
         {InvoiceKeys.detail})

handleCreditChanged == {InvoiceKeys.detail, InvoiceKeys.credits, InvoiceKeys.mine}

InvoicePaymentsCard(c) ==
    When(accessFor(c).canManage,
         Does({On(handleInvoiceChanged(Offer(InvoiceStepApi.recordPayment, {})), {"sent"}),
               On(handleInvoiceChanged(Offer(InvoiceStepApi.markInvoicePaid, {})), {"sent"}),
               On(Confirmed(handleInvoiceChanged(Offer(InvoiceStepApi.deletePayment, {}))),
                  {"sent", "paid"})}))

InvoiceCreditsCard(c) ==
    When(accessFor(c).canManage,
         Does({On(handleInvoiceChanged(Offer(InvoiceStepApi.correctInvoice, {})), {"sent", "paid"}),
               Offer(InvoiceStepApi.refundCredit, handleCreditChanged)}))

InvoiceAccessLinkCard(c) ==
    When(accessFor(c).canManage,
         Does({Confirmed(Offer(InvoiceStepApi.revokeInvoiceAccessLink, {InvoiceKeys.detail}))}))

\* a participant sees the invoice without its payments
InvoiceDetailPage(c) ==
    LET detail == Query(InvoiceKeys.detail, InvoiceApi.fetchInvoice)
        generatePdf == Offer(InvoiceStepApi.generateInvoicePdf, {InvoiceKeys.detail})
    IN Join({ Reads({detail}),
              When(~accessFor(c).isParticipantScope, InvoicePaymentsCard(c)),
              InvoiceCreditsCard(c), InvoiceAccessLinkCard(c),
              When(accessFor(c).canManage, Does({generatePdf})) })

AdminInvoicesContent ==
    Part({Query(InvoiceKeys.lists \o <<"all", "all">>, InvoiceApi.fetchInvoices)},
         {Confirmed(Offer(InvoiceStepApi.deleteInvoice, {InvoiceKeys.lists, InvoiceKeys.mine}))})

\* the overview hub passes the attention query it loads itself
BillingPeriodsPage(c) ==
    Reads({Query(InvoiceKeys.readinessList, ReadinessApi.fetchReadinessList)})

-----------------------------------------------------------------------------
(* Reports and delivered documents. *)

latestExport == <<"annualStatementExport", "latest", ZEV, "$">>

\* the job shown is polled by the card; the cached one only seeds it
AnnualStatementsExportCard(c) ==
    Part({Keeps(Query(latestExport, ExportApi.fetchAnnualStatementExports))},
         {Guarded(Offer(ExportApi.createAnnualStatementsExport, {latestExport}), {})})

AnnualReportSection(c) ==
    Reads({Query(InvoiceKeys.annualReport, InvoiceApi.fetchAnnualReport)})

ParticipantYearDocuments(c) == Reads({Query(InboxKeys.mine, InboxApi.listMine)})

ReportsPage(c) ==
    Join({ When(accessFor(c).isZevScope,
                Join({AnnualReportSection(c), AnnualStatementsExportCard(c)})),
           When(accessFor(c).isParticipantScope, ParticipantYearDocuments(c)) })

DocumentsPage(c) == Reads({Query(InboxKeys.mine, InboxApi.listMine)})

UploadDocumentDialog == Does({Offer(InboxApi.uploadInboxDocument, {InboxKeys.all})})

IssueReportsDialog == Does({Offer(InboxApi.issueReport, {InboxKeys.all})})

\* only what the operator uploaded is withdrawn, and never twice
Outbox(c) ==
    Join({ Reads({Query(InboxKeys.outbox, InboxApi.listOutbox),
                  Query(ZevKeys.participants, ParticipantApi.fetchParticipants)}),
           When(canWriteInSelectedCommunity(c),
                Join({ UploadDocumentDialog, IssueReportsDialog,
                       Does({Confirmed(Offer(InboxApi.withdrawInboxDocument, {InboxKeys.all}))}) })) })
=============================================================================
