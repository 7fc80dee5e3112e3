--------------------------- MODULE InvoiceDelivery ---------------------------
(***************************************************************************)
(* The document of one invoice and its way to the participant: rendering   *)
(* and publishing the PDF, e-mailing it, marking the invoice as sent by    *)
(* hand, and the participant's inbox, against approval, cancellation,      *)
(* payment and deletion of the invoice.                                    *)
(*                                                                         *)
(* Source: backend/invoices/pdf.py, tasks.py, document_parties.py,         *)
(* workflow.py, views.py and backend/inbox/.                               *)
(*                                                                         *)
(* Every process works on an instance of the invoice it loaded earlier;    *)
(* every step is one statement on the database, one storage call or one    *)
(* SMTP call, and anything may happen in between.                          *)
(*                                                                         *)
(* A document is abstracted to its marking and to the issuer and recipient *)
(* it shows.  The parties' data is a version that an edit increments.      *)
(* Subject, body, recipients and audit events are left out: the endpoints  *)
(* queue an e-mail only for a known address.                               *)
(***************************************************************************)
EXTENDS Naturals, FiniteSets

CONSTANTS Workers,      \* processes: web requests and Celery workers
          None,         \* no value
          MaxRetries,   \* max_retries of send_invoice_email_task
          LastEdit,     \* bound: edits of the parties' data
          MaxFiles,     \* bound: PDF files that exist at a time
          MaxJobs,      \* bound: operations ever started
          MaxFaults     \* bound: crashes, lost messages, refused writes

VARIABLES row,       \* the Invoice row, None once it is deleted
          parties,   \* version of the parties' live data
          files,     \* PDF files in the media storage, by name
          retired,   \* files that an approval still has to delete
          inbox,     \* the DeliveredDocument of the invoice
          mailed,    \* history: documents a mail server accepted
          workers,   \* where each process stands
          jobs,      \* operations started
          faults     \* faults so far

vars == <<row, parties, files, retired, inbox, mailed, workers, jobs, faults>>

-----------------------------------------------------------------------------
(* State *)

Statuses == {"draft", "approved", "sent", "paid", "cancelled"}
Copies == 0..LastEdit
Names == 0..MaxFiles

Document == [mark : {"draft", "cancelled", "none"}, copy : Copies]

ASSUME DeliveryAssumption ==
    /\ {MaxRetries, LastEdit, MaxFiles, MaxJobs, MaxFaults} \subseteq Nat
    /\ None \notin Copies \cup Names \cup Document

\* copy is the issuer and recipient copy, sent is sent_at being set.
Invoice == [status : Statuses, copy : Copies \cup {None}, pdf_file : Names \cup {None},
            pdf_status : {"none", "pending", "ready", "failed"}, sent : BOOLEAN]

\* via is a history field: what delivered the document.
Delivered == [via : {"mail", "hand", "backfill"}, doc : Document]

\* A process: what it does and where it is; the columns of its instance; the
\* version of the parties' data when it loaded; whether the row still has the
\* updated_at of the load; the status and file of the load; render attempts;
\* the file it stored; the document it holds; retries; the log of its mail;
\* and, as history, whether a mail server confirmed its message.
Worker == [op : {"none", "view", "task", "mail", "hand", "backfill"},
           pc : {"idle", "load", "render", "store", "publish", "rejected", "log", "read",
                 "send", "sent", "record", "deliver", "transition", "refused"},
           status : Statuses, copy : Copies \cup {None}, pdf_file : Names \cup {None},
           seen : Copies, unmodified : BOOLEAN,
           pre_status : Statuses, pre_file : Names \cup {None},
           attempt : 1..2, file : Names \cup {None}, doc : Document \cup {None},
           retries : 0..MaxRetries, log : {"none", "pending", "failed", "sent"},
           confirmed : BOOLEAN]

Idle == [op |-> "none", pc |-> "idle", status |-> "draft", copy |-> None, pdf_file |-> None,
         seen |-> 0, unmodified |-> FALSE, pre_status |-> "draft", pre_file |-> None,
         attempt |-> 1, file |-> None, doc |-> None, retries |-> 0, log |-> "none",
         confirmed |-> FALSE]

Exists == row # None

\* _document_marking
Mark(status) == IF status \in {"draft", "cancelled"} THEN status ELSE "none"

\* The process goes on with some fields of its state changed.
Goto(w, state) == workers' = [workers EXCEPT ![w] = state]
At(w, op, pc) == workers[w].op \in op /\ workers[w].pc = pc

\* A write that sets updated_at: no process has the newest row any more, but
\* w goes on as state.
Touch(w, state) ==
    workers' = [v \in Workers |-> IF v = w THEN state ELSE [workers[v] EXCEPT !.unmodified = FALSE]]

TouchAll == workers' = [v \in Workers |-> [workers[v] EXCEPT !.unmodified = FALSE]]

Loaded(w) == [workers[w] EXCEPT !.status = row.status, !.copy = row.copy,
                                !.pdf_file = row.pdf_file, !.seen = parties]

Init ==
    /\ row \in {[status |-> "draft", copy |-> 0, pdf_file |-> None, pdf_status |-> "none",
                 sent |-> FALSE],
                \* an invoice of an older transfer archive, without a copy
                [status |-> "approved", copy |-> None, pdf_file |-> None, pdf_status |-> "none",
                 sent |-> FALSE]}
    /\ parties = 0
    /\ files = [n \in Names |-> None]
    /\ retired = {}
    /\ inbox = None
    /\ mailed = {}
    /\ workers = [w \in Workers |-> Idle]
    /\ jobs = 0
    /\ faults = 0

-----------------------------------------------------------------------------
(* Rendering and publishing: copy_for_render, generate_pdf, save_invoice_pdf *)

\* Mutant: the conditional UPDATE of a draft render forgets its condition.
copy_unguarded(w) == Exists /\ (workers[w].status = "draft" \/ row.copy = None)

\* Whether the UPDATE of copy_for_render finds the row.
CopyMatches(w) ==
    /\ Exists
    /\ IF workers[w].status = "draft" THEN row.status = "draft" ELSE row.copy = None

\* Whether the instance is rendered with the copy it has loaded.
HasCopy(w) == workers[w].status # "draft" /\ workers[w].copy # None

\* The parties are read when the instance is loaded or when it is rendered.
FreshCopies(w) == workers[w].seen..parties

\* The copy the document shows, and the copy the row then has.
RenderedCopy(w, fresh) ==
    IF HasCopy(w) THEN workers[w].copy
    ELSE IF ~CopyMatches(w) /\ Exists /\ row.copy # None THEN row.copy
    ELSE fresh

StoreCopy(w, fresh) ==
    row' = IF ~HasCopy(w) /\ CopyMatches(w) THEN [row EXCEPT !.copy = fresh] ELSE row

RenderedDoc(w, fresh) == [mark |-> Mark(workers[w].status), copy |-> RenderedCopy(w, fresh)]

generate_pdf(w) ==
    /\ At(w, {"view", "task", "mail"}, "render")
    /\ \E fresh \in FreshCopies(w) :
          /\ StoreCopy(w, fresh)
          /\ Goto(w, [workers[w] EXCEPT !.pc = "store", !.copy = RenderedCopy(w, fresh),
                                        !.doc = RenderedDoc(w, fresh)])
    /\ UNCHANGED <<parties, files, retired, inbox, mailed, jobs, faults>>

\* The storage keeps the name it is given if it is free and adds a suffix
\* otherwise: name 0 is invoice_<number>.pdf.
FreeNames == {n \in Names : files[n] = None}
AvailableName == CHOOSE n \in FreeNames : \A m \in FreeNames : n <= m

store_pdf(w) ==
    /\ At(w, {"view", "task", "mail"}, "store")
    /\ FreeNames # {}
    /\ files' = [files EXCEPT ![AvailableName] = workers[w].doc]
    /\ Goto(w, [workers[w] EXCEPT !.pc = "publish", !.doc = None, !.file = AvailableName,
                                  !.pdf_file = AvailableName])
    /\ UNCHANGED <<row, parties, retired, inbox, mailed, jobs, faults>>

\* self.retry of the e-mail task: run again from the start, at most MaxRetries
\* times.
Retried(w, log) ==
    IF workers[w].retries < MaxRetries
    THEN [Idle EXCEPT !.op = "mail", !.pc = "load", !.retries = workers[w].retries + 1,
                      !.log = log, !.confirmed = workers[w].confirmed]
    ELSE Idle

\* The e-mail task once its instance names a PDF; the rest of the instance is
\* not looked at again.
WithPdf(w, name) ==
    [Idle EXCEPT !.op = "mail", !.pc = "log", !.pdf_file = name, !.retries = workers[w].retries,
                 !.confirmed = workers[w].confirmed]

\* Mutant: publication looks at the copies only.
publishable_copies(w) == Exists /\ row.copy = workers[w].copy

\* The row still is what was rendered.
Publishable(w) == Exists /\ row.status = workers[w].status /\ row.copy = workers[w].copy

publish_pdf(w) ==
    /\ At(w, {"view", "task", "mail"}, "publish")
    /\ IF Publishable(w)
       THEN /\ row' = [row EXCEPT !.pdf_file = workers[w].file, !.pdf_status = "ready"]
            /\ Touch(w, IF workers[w].op = "mail" THEN WithPdf(w, workers[w].file) ELSE Idle)
       ELSE /\ Goto(w, [workers[w] EXCEPT !.pc = "rejected"])
            /\ UNCHANGED row
    /\ UNCHANGED <<parties, files, retired, inbox, mailed, jobs, faults>>

\* The row is as the process loaded it (the filter pdf_state).
AsLoaded(w) == /\ Exists
               /\ workers[w].unmodified
               /\ row.status = workers[w].pre_status
               /\ row.pdf_file = workers[w].pre_file

\* The rejected file is deleted, best effort, and the instance refreshed for a
\* second attempt.  After that, or if the invoice is gone, the render ends.
discard_render(w) ==
    /\ At(w, {"view", "task", "mail"}, "rejected")
    /\ \/ files' = [files EXCEPT ![workers[w].file] = None] /\ UNCHANGED faults
       \/ faults < MaxFaults /\ faults' = faults + 1 /\ UNCHANGED files
    /\ IF Exists /\ workers[w].attempt = 1
       THEN Goto(w, [Loaded(w) EXCEPT !.pc = "render", !.attempt = 2, !.file = None])
            /\ UNCHANGED row
       ELSE /\ row' = IF workers[w].op = "task" /\ AsLoaded(w) /\ row.pdf_status = "pending"
                      THEN [row EXCEPT !.pdf_status = "none"] ELSE row
            /\ Goto(w, IF workers[w].op = "mail" /\ Exists THEN Retried(w, "none") ELSE Idle)
    /\ UNCHANGED <<parties, retired, inbox, mailed, jobs>>

\* Rendering or storing raises, or the database refuses the publication and
\* the stored file is deleted.  Only render tasks and the endpoint record it.
render_fails(w) ==
    /\ \/ /\ At(w, {"view", "task", "mail"}, "render") \/ At(w, {"view", "task", "mail"}, "store")
          /\ UNCHANGED <<files, faults>>
       \/ /\ At(w, {"view", "task", "mail"}, "publish")
          /\ faults < MaxFaults /\ faults' = faults + 1
          /\ files' = [files EXCEPT ![workers[w].file] = None]
    /\ row' = IF workers[w].op # "mail" /\ AsLoaded(w)
              THEN [row EXCEPT !.pdf_status = "failed"] ELSE row
    /\ Goto(w, Idle)
    /\ UNCHANGED <<parties, retired, inbox, mailed, jobs>>

-----------------------------------------------------------------------------
(* The requests and tasks that render *)

\* The state of a process that starts an operation with the row it has loaded.
Fetched(w, op, pc) ==
    [Loaded(w) EXCEPT !.op = op, !.pc = pc, !.unmodified = TRUE,
                      !.pre_status = row.status, !.pre_file = row.pdf_file]

MayStart(w) == Exists /\ jobs < MaxJobs /\ workers[w] = Idle

\* POST generate-pdf: renders in the request.
request_pdf(w) ==
    /\ MayStart(w)
    /\ jobs' = jobs + 1
    /\ Goto(w, Fetched(w, "view", "render"))
    /\ UNCHANGED <<row, parties, files, retired, inbox, mailed, faults>>

\* Generation and generate-pdfs-all: mark pending, then queue the task.  If the
\* broker refuses, the first goes on to record it, the second does not.
queue_pdf(w) ==
    /\ MayStart(w)
    /\ jobs' = jobs + 1
    /\ row' = [row EXCEPT !.pdf_status = "pending"]
    /\ \/ Goto(w, [Idle EXCEPT !.op = "task", !.pc = "load"]) /\ UNCHANGED faults
       \/ /\ faults < MaxFaults /\ faults' = faults + 1
          /\ workers' \in {workers, [workers EXCEPT ![w] = [Idle EXCEPT !.op = "view", !.pc = "refused"]]}
    /\ UNCHANGED <<parties, files, retired, inbox, mailed>>

\* Unconditional, whatever has happened to the document since.
queue_refused(w) ==
    /\ At(w, {"view"}, "refused")
    /\ row' = IF Exists THEN [row EXCEPT !.pdf_status = "failed"] ELSE row
    /\ Goto(w, Idle)
    /\ UNCHANGED <<parties, files, retired, inbox, mailed, jobs, faults>>

\* generate_invoice_pdf_task and generate_zev_pdfs_task fetch their invoices.
load_for_render(w) ==
    /\ At(w, {"task"}, "load")
    /\ Goto(w, IF Exists THEN Fetched(w, "task", "render") ELSE Idle)
    /\ UNCHANGED <<row, parties, files, retired, inbox, mailed, jobs, faults>>

-----------------------------------------------------------------------------
(* The e-mail task: send_invoice_email_task, record_email_delivery *)

\* send-email, send-all and retry-email queue the task, at any status.
send_email(w) ==
    /\ MayStart(w)
    /\ jobs' = jobs + 1
    /\ Goto(w, [Idle EXCEPT !.op = "mail", !.pc = "load"])
    /\ UNCHANGED <<row, parties, files, retired, inbox, mailed, faults>>

\* Load the invoice and render its PDF only if it has none.
load_for_mail(w) ==
    /\ At(w, {"mail"}, "load")
    /\ Goto(w, IF ~Exists THEN Idle
               ELSE IF row.pdf_file = None THEN [Loaded(w) EXCEPT !.pc = "render"]
               ELSE WithPdf(w, row.pdf_file))
    /\ UNCHANGED <<row, parties, files, retired, inbox, mailed, jobs, faults>>

\* The EmailLog of this attempt; it cannot be written for a deleted invoice.
create_log(w) ==
    /\ At(w, {"mail"}, "log")
    /\ Goto(w, IF Exists THEN [workers[w] EXCEPT !.pc = "read", !.log = "pending"] ELSE Idle)
    /\ UNCHANGED <<row, parties, files, retired, inbox, mailed, jobs, faults>>

\* The attempt failed: say so in the log and retry.  With the invoice the log
\* is gone too; writing it raises and the task ends.
AttemptFailed(w) ==
    Goto(w, IF Exists THEN Retried(w, "failed") ELSE Idle)

\* The attachment is what the file the instance names holds now.
read_attachment(w) ==
    /\ At(w, {"mail"}, "read")
    /\ LET doc == files[workers[w].pdf_file] IN
          IF doc = None THEN AttemptFailed(w)
          ELSE Goto(w, [workers[w] EXCEPT !.pc = "send", !.doc = doc])
    /\ UNCHANGED <<row, parties, files, retired, inbox, mailed, jobs, faults>>

\* The server accepts the message and says so.
send_succeeds(w) ==
    /\ At(w, {"mail"}, "send")
    /\ mailed' = mailed \cup {workers[w].doc}
    /\ Goto(w, [workers[w] EXCEPT !.pc = "sent", !.confirmed = TRUE])
    /\ UNCHANGED <<row, parties, files, retired, inbox, jobs, faults>>

\* Sending raises: the server refused, or its answer was lost.
send_fails(w) ==
    /\ At(w, {"mail"}, "send")
    /\ faults < MaxFaults /\ faults' = faults + 1
    /\ mailed' \in {mailed, mailed \cup {workers[w].doc}}
    /\ AttemptFailed(w)
    /\ UNCHANGED <<row, parties, files, retired, inbox, jobs>>

save_log(w) ==
    /\ At(w, {"mail"}, "sent")
    /\ Goto(w, IF Exists THEN [workers[w] EXCEPT !.pc = "record", !.log = "sent"] ELSE Idle)
    /\ UNCHANGED <<row, parties, files, retired, inbox, mailed, jobs, faults>>

record_email_delivery(w) ==
    /\ At(w, {"mail"}, "record")
    /\ IF Exists
       THEN /\ row' = [row EXCEPT !.sent = TRUE,
                                  !.status = IF @ = "approved" THEN "sent" ELSE @]
            /\ Touch(w, IF row.sent THEN Idle ELSE [workers[w] EXCEPT !.pc = "deliver"])
       ELSE Goto(w, Idle) /\ UNCHANGED row
    /\ UNCHANGED <<parties, files, retired, inbox, mailed, jobs, faults>>

\* Mutant: one handler for sending and bookkeeping (the state before #576).
bookkeeping_retries(w) ==
    /\ At(w, {"mail"}, "sent") \/ At(w, {"mail"}, "record")
    /\ faults < MaxFaults /\ faults' = faults + 1
    /\ AttemptFailed(w)
    /\ UNCHANGED <<row, parties, files, retired, inbox, mailed, jobs>>

\* A write after the delivery raises: the task ends without a retry.
bookkeeping_fails(w) ==
    /\ At(w, {"mail"}, "sent") \/ At(w, {"mail"}, "record")
    /\ faults < MaxFaults /\ faults' = faults + 1
    /\ Goto(w, Idle)
    /\ UNCHANGED <<row, parties, files, retired, inbox, mailed, jobs>>

-----------------------------------------------------------------------------
(* The inbox: deliver_sent_invoice, deliver, backfill_invoices *)

\* At most one document per invoice: the first delivery stands.
Deliver(via, doc) ==
    inbox' = IF Exists /\ inbox = None THEN [via |-> via, doc |-> doc] ELSE inbox

\* After the first recorded e-mail: the attached document.
deliver_mailed(w) ==
    /\ At(w, {"mail"}, "deliver")
    /\ Deliver("mail", workers[w].doc)
    /\ Goto(w, Idle)
    /\ UNCHANGED <<row, parties, files, retired, mailed, jobs, faults>>

\* mark-sent fetches the invoice, then locks and transitions the row.
mark_sent(w) ==
    /\ MayStart(w)
    /\ jobs' = jobs + 1
    /\ Goto(w, [Loaded(w) EXCEPT !.op = "hand", !.pc = "transition"])
    /\ UNCHANGED <<row, parties, files, retired, inbox, mailed, faults>>

\* Only status, updated_at and sent_at of the instance are brought up to date.
mark_invoice_sent(w) ==
    /\ At(w, {"hand"}, "transition")
    /\ IF Exists /\ row.status = "approved"
       THEN /\ row' = [row EXCEPT !.status = "sent", !.sent = TRUE]
            /\ Touch(w, [workers[w] EXCEPT !.status = "sent", !.pc = "deliver"])
       ELSE Goto(w, Idle) /\ UNCHANGED row
    /\ UNCHANGED <<parties, files, retired, inbox, mailed, jobs, faults>>

\* stored_invoice_bytes of the instance
StoredBytes(w) == IF workers[w].pdf_file = None THEN None ELSE files[workers[w].pdf_file]

\* The stored PDF, or a render for the inbox only when there is none.
deliver_by_hand(w) ==
    /\ At(w, {"hand"}, "deliver")
    /\ \/ /\ StoredBytes(w) # None
          /\ Deliver("hand", StoredBytes(w))
          /\ UNCHANGED row
       \/ /\ StoredBytes(w) = None
          /\ \E fresh \in FreshCopies(w) :
                Deliver("hand", RenderedDoc(w, fresh)) /\ StoreCopy(w, fresh)
    /\ Goto(w, Idle)
    /\ UNCHANGED <<parties, files, retired, mailed, jobs, faults>>

\* sent_to_participant
SentToParticipant == row.sent \/ row.status \in {"sent", "paid"}

\* openzev_inbox_backfill: an invoice that was sent, has a PDF and no document.
backfill(w) ==
    /\ MayStart(w)
    /\ SentToParticipant /\ inbox = None
    /\ jobs' = jobs + 1
    /\ Goto(w, [Loaded(w) EXCEPT !.op = "backfill", !.pc = "deliver"])
    /\ UNCHANGED <<row, parties, files, retired, inbox, mailed, faults>>

backfill_invoice(w) ==
    /\ At(w, {"backfill"}, "deliver")
    /\ IF StoredBytes(w) = None THEN UNCHANGED inbox ELSE Deliver("backfill", StoredBytes(w))
    /\ Goto(w, Idle)
    /\ UNCHANGED <<row, parties, files, retired, mailed, jobs, faults>>

\* The delivery to the inbox raises, which is logged and audited only.
delivery_fails(w) ==
    /\ At(w, {"mail", "hand", "backfill"}, "deliver")
    /\ faults < MaxFaults /\ faults' = faults + 1
    /\ Goto(w, Idle)
    /\ UNCHANGED <<row, parties, files, retired, inbox, mailed, jobs>>

-----------------------------------------------------------------------------
(* The invoice's own life *)

\* Locked: a last copy is taken and the draft PDF retired.
approve_invoice ==
    /\ Exists /\ row.status = "draft"
    /\ row' = [row EXCEPT !.status = "approved", !.copy = parties, !.pdf_file = None,
                          !.pdf_status = "none"]
    /\ retired' = retired \cup ({row.pdf_file} \ {None})
    /\ TouchAll
    /\ UNCHANGED <<parties, files, inbox, mailed, jobs, faults>>

\* on_commit of the approval; best effort, and lost if the process dies.
delete_retired(name) ==
    /\ name \in retired
    /\ retired' = retired \ {name}
    /\ \/ files' = [files EXCEPT ![name] = None] /\ UNCHANGED faults
       \/ faults < MaxFaults /\ faults' = faults + 1 /\ UNCHANGED files
    /\ UNCHANGED <<row, parties, inbox, mailed, workers, jobs>>

\* Payments, their deletion, cancellation and reversal, as far as they change
\* the status (see InvoiceWorkflow).
Transitions ==
    {<<"sent", "paid">>, <<"paid", "sent">>}
        \cup {<<status, "cancelled">> : status \in Statuses \ {"cancelled"}}

transition(to) ==
    /\ Exists /\ <<row.status, to>> \in Transitions
    /\ row' = [row EXCEPT !.status = to]
    /\ TouchAll
    /\ UNCHANGED <<parties, files, retired, inbox, mailed, jobs, faults>>

\* Regeneration or the delete endpoint, which keep invoices with payments;
\* files and the inbox stay.
delete_invoice ==
    /\ Exists /\ row.status # "paid"
    /\ row' = None
    /\ UNCHANGED <<parties, files, retired, inbox, mailed, workers, jobs, faults>>

edit_parties ==
    /\ parties < LastEdit
    /\ parties' = parties + 1
    /\ UNCHANGED <<row, files, retired, inbox, mailed, workers, jobs, faults>>

\* A process dies; Celery has acknowledged its task already.
crash(w) ==
    /\ workers[w] # Idle
    /\ faults < MaxFaults /\ faults' = faults + 1
    /\ Goto(w, Idle)
    /\ UNCHANGED <<row, parties, files, retired, inbox, mailed, jobs>>

Next ==
    \/ \E w \in Workers :
          \/ generate_pdf(w) \/ store_pdf(w) \/ publish_pdf(w) \/ discard_render(w)
          \/ render_fails(w) \/ request_pdf(w) \/ queue_pdf(w) \/ queue_refused(w) \/ load_for_render(w)
          \/ send_email(w) \/ load_for_mail(w) \/ create_log(w) \/ read_attachment(w)
          \/ send_succeeds(w) \/ send_fails(w) \/ save_log(w) \/ record_email_delivery(w)
          \/ bookkeeping_fails(w) \/ deliver_mailed(w) \/ mark_sent(w) \/ mark_invoice_sent(w)
          \/ deliver_by_hand(w) \/ backfill(w) \/ backfill_invoice(w) \/ delivery_fails(w)
          \/ crash(w)
    \/ approve_invoice
    \/ \E name \in retired : delete_retired(name)
    \/ \E to \in Statuses : transition(to)
    \/ delete_invoice
    \/ edit_parties

Spec == Init /\ [][Next]_vars

-----------------------------------------------------------------------------
(* Properties *)

\* Every variable keeps its type.
TypeOK ==
    /\ row \in Invoice \cup {None}
    /\ parties \in Copies
    /\ files \in [Names -> Document \cup {None}]
    /\ retired \subseteq Names
    /\ inbox \in Delivered \cup {None}
    /\ mailed \subseteq Document
    /\ workers \in [Workers -> Worker]
    /\ jobs \in 0..MaxJobs
    /\ faults \in 0..MaxFaults

\* The PDF an issued invoice offers (pdf_file) is in the storage, is not marked
\* as a draft and shows the copy frozen at approval, whichever renders were
\* under way when it was approved (save_invoice_pdf, approve_invoice).
IssuedDocumentIsFinal ==
    Exists /\ row.pdf_file # None /\ row.status \in {"approved", "sent", "paid"} =>
        /\ files[row.pdf_file] # None
        /\ files[row.pdf_file].mark # "draft"
        /\ files[row.pdf_file].copy = row.copy

\* From approval on the issuer and recipient of an invoice never change: a
\* draft render that is late reads the approved copy back (copy_for_render).
ApprovedCopyIsFrozen ==
    [][Exists /\ row' # None /\ row.status # "draft" /\ row.copy # None
          => row'.copy = row.copy]_vars

\* A task whose message the mail server confirmed never gets back to sending,
\* and the log of that message never says it failed (#576).
ConfirmedIsNotResent ==
    \A w \in Workers : workers[w].confirmed =>
        workers[w].pc \in {"sent", "record", "deliver"} /\ workers[w].log # "failed"

\* The document an e-mail put into the inbox is one that was e-mailed, whatever
\* has been rendered, approved or cancelled since (record_email_delivery).
InboxHoldsWhatWasMailed ==
    inbox # None /\ inbox.via = "mail" => inbox.doc \in mailed

\* The e-mails of an invoice are accounted for: a confirmed one is not sent
\* again by the retry of a task, and what it put into the inbox was e-mailed.
MailIsAccountedFor == TypeOK /\ ConfirmedIsNotResent /\ InboxHoldsWhatWasMailed
=============================================================================
