--------------------------- MODULE DeliveryProofs ---------------------------
(***************************************************************************)
(* Theorems about InvoiceDelivery, for any number of processes, retries,   *)
(* edits, files and faults: a confirmed e-mail is never sent again, what   *)
(* the inbox holds was e-mailed, the copy of an approved invoice stays,    *)
(* and the document of an issued invoice is final.                         *)
(***************************************************************************)
EXTENDS InvoiceDelivery, FiniteSetTheorems, WellFoundedInduction, TLAPS

-----------------------------------------------------------------------------
(* The inductive invariant *)

Sending == {"sent", "record", "deliver"}

\* What is true of a process wherever it stands, m being what was mailed: it
\* holds a document or names a file where its next step uses one; the log of
\* an attempt that is under way is pending; after the send the document it
\* holds is one of those mailed; and only then is it confirmed.
Sound(k, m) ==
    /\ k.confirmed => k.pc \in Sending /\ k.log # "failed"
    /\ k.op = "mail" /\ k.pc \in {"log", "read"} => k.pdf_file # None
    /\ k.op = "mail" /\ k.pc \in {"read", "send"} => k.log = "pending"
    /\ k.pc \in {"store", "send"} => k.doc # None
    /\ k.op = "mail" /\ k.pc \in Sending => k.doc \in m
    /\ k.pc \in {"store", "publish", "rejected"} => k.copy # None
    /\ k.pc \in {"publish", "rejected"} => k.file # None

AllSound == \A w \in Workers : Sound(workers[w], mailed)

MailInv == TypeOK /\ AllSound /\ InboxHoldsWhatWasMailed

\* A process that has stored a file and not yet published or discarded it.
Owns(w) == workers[w].pc \in {"publish", "rejected"}

\* The document that the columns of its instance stand for.
Rendered(w) == [mark |-> Mark(workers[w].status), copy |-> workers[w].copy]

\* What a process is about to store is what it rendered, and so is the file
\* that it owns; no other process, no approval and not the row refers to that
\* file.
RendersAreOwned ==
    \A w \in Workers :
        /\ workers[w].pc = "store" => workers[w].doc = Rendered(w)
        /\ Owns(w) =>
              /\ files[workers[w].file] = Rendered(w)
              /\ workers[w].file \notin retired
              /\ Exists => row.pdf_file # workers[w].file
              /\ \A v \in Workers \ {w} : Owns(v) => workers[v].file # workers[w].file

\* A file that an approval still has to delete is there, and the file that the
\* row names is there and is not to be deleted.
NamedFilesExist ==
    /\ \A n \in retired : files[n] # None
    /\ Exists /\ row.pdf_file # None =>
          files[row.pdf_file] # None /\ row.pdf_file \notin retired

DocumentParts == RendersAreOwned /\ NamedFilesExist /\ IssuedDocumentIsFinal

DocumentInv == MailInv /\ DocumentParts

-----------------------------------------------------------------------------
(* Steps of one process *)

\* The places of a process that starts or restarts.
LEMMA IdleSound ==
    /\ Idle \in Worker
    /\ \A m : Sound(Idle, m)
<1>1. Idle \in Worker
  BY DeliveryAssumption DEF Idle, Worker, Statuses, Copies, Names
<1>2. \A m : Sound(Idle, m)
  BY DEF Idle, Sound, Sending
<1>. QED  BY <1>1, <1>2

\* More was mailed: nothing changes for the processes that stay.
LEMMA SoundGrows ==
    ASSUME NEW k \in Worker, NEW m, NEW n, m \subseteq n, Sound(k, m)
    PROVE  Sound(k, n)
  BY DEF Sound

LEMMA UntouchedSound ==
    ASSUME NEW k \in Worker, NEW m, Sound(k, m)
    PROVE  /\ [k EXCEPT !.unmodified = FALSE] \in Worker
           /\ Sound([k EXCEPT !.unmodified = FALSE], m)
<1>1. [k EXCEPT !.unmodified = FALSE] \in Worker
  BY DEF Worker
<1>2. Sound([k EXCEPT !.unmodified = FALSE], m)
  BY DEF Sound, Worker
<1>. QED  BY <1>1, <1>2

\* One process goes on, soundly, and the others stay where they are.
Moves(w) == \E s \in Worker : Sound(s, mailed') /\ (Goto(w, s) \/ Touch(w, s))

LEMMA MovesSound ==
    ASSUME MailInv, NEW w \in Workers, Moves(w), mailed \subseteq mailed'
    PROVE  workers' \in [Workers -> Worker] /\ AllSound'
<1>1. PICK s \in Worker : Sound(s, mailed') /\ (Goto(w, s) \/ Touch(w, s))
  BY DEF Moves
<1>2. workers \in [Workers -> Worker]
  BY DEF MailInv, TypeOK
<1>3. \A v \in Workers : workers[v] \in Worker /\ Sound(workers[v], mailed')
  BY <1>2, SoundGrows DEF MailInv, AllSound
<1>4. CASE Goto(w, s)
  BY <1>1, <1>2, <1>3, <1>4 DEF Goto, AllSound
<1>5. CASE Touch(w, s)
  <2>1. \A v \in Workers : /\ [workers[v] EXCEPT !.unmodified = FALSE] \in Worker
                            /\ Sound([workers[v] EXCEPT !.unmodified = FALSE], mailed')
    BY <1>3, UntouchedSound
  <2>. QED  BY <1>1, <1>5, <2>1 DEF Touch, AllSound
<1>. QED  BY <1>1, <1>4, <1>5

LEMMA TouchAllSound ==
    ASSUME MailInv, TouchAll, UNCHANGED mailed
    PROVE  workers' \in [Workers -> Worker] /\ AllSound'
<1>1. \A v \in Workers : workers[v] \in Worker /\ Sound(workers[v], mailed)
  BY DEF MailInv, TypeOK, AllSound
<1>2. \A v \in Workers : /\ [workers[v] EXCEPT !.unmodified = FALSE] \in Worker
                          /\ Sound([workers[v] EXCEPT !.unmodified = FALSE], mailed)
  BY <1>1, UntouchedSound
<1>. QED  BY <1>2 DEF TouchAll, AllSound

LEMMA MovesIdle ==
    ASSUME NEW w, Goto(w, Idle)
    PROVE  Moves(w)
  BY IdleSound DEF Moves

LEMMA WorkerFields ==
    ASSUME MailInv, NEW w \in Workers
    PROVE  workers[w] \in Worker /\ Sound(workers[w], mailed)
  BY DEF MailInv, TypeOK, AllSound

\* A process that only reads or renders next needs nothing.
LEMMA EarlySound ==
    ASSUME NEW k, NEW m, ~k.confirmed,
           k.pc \in {"idle", "load", "render", "transition", "refused"}
    PROVE  Sound(k, m)
  BY DEF Sound, Sending

\* What is read from the row and the parties has its type.
LEMMA LoadedType ==
    ASSUME MailInv, NEW w \in Workers, Exists
    PROVE  Loaded(w) \in Worker
<1>1. row \in Invoice /\ parties \in Copies
  BY DEF MailInv, TypeOK, Exists
<1>2. workers[w] \in Worker
  BY WorkerFields
<1>. QED  BY <1>1, <1>2 DEF Loaded, Worker, Invoice

LEMMA FetchedType ==
    ASSUME MailInv, NEW w \in Workers, Exists,
           NEW op \in {"view", "task"}
    PROVE  Fetched(w, op, "render") \in Worker
<1>1. row \in Invoice
  BY DEF MailInv, TypeOK, Exists
<1>2. row.status \in Statuses /\ row.pdf_file \in Names \cup {None}
  BY <1>1 DEF Invoice
<1>3. Loaded(w) \in Worker
  BY LoadedType
<1>. QED  BY <1>2, <1>3, Zenon DEF Fetched, Worker

LEMMA FetchedSound ==
    ASSUME MailInv, NEW w \in Workers, Exists, ~workers[w].confirmed,
           NEW op \in {"view", "task"}
    PROVE  Fetched(w, op, "render") \in Worker /\ Sound(Fetched(w, op, "render"), mailed)
<1>2. workers[w] \in Worker
  BY WorkerFields
<1>3. Fetched(w, op, "render") \in Worker
  BY FetchedType
<1>4. /\ Fetched(w, op, "render").pc = "render"
      /\ ~Fetched(w, op, "render").confirmed
  BY <1>2 DEF Fetched, Loaded, Worker
<1>5. Sound(Fetched(w, op, "render"), mailed)
  BY <1>4, EarlySound
<1>. QED  BY <1>3, <1>5

\* The copy that a render shows has its type.
LEMMA RenderedType ==
    ASSUME MailInv, NEW w \in Workers, NEW fresh \in FreshCopies(w)
    PROVE  /\ fresh \in Copies
           /\ RenderedCopy(w, fresh) \in Copies
           /\ RenderedDoc(w, fresh) \in Document
<1>1. /\ row \in Invoice \cup {None} /\ parties \in Copies
      /\ workers[w] \in Worker
  BY WorkerFields DEF MailInv, TypeOK
<1>2. /\ workers[w].seen \in Copies
      /\ workers[w].copy \in Copies \cup {None}
      /\ workers[w].status \in Statuses
  BY <1>1 DEF Worker
<1>3. fresh \in Copies
  BY <1>1, <1>2, DeliveryAssumption DEF FreshCopies, Copies
<1>4. RenderedCopy(w, fresh) \in Copies
  BY <1>1, <1>2, <1>3 DEF RenderedCopy, HasCopy, Exists, Invoice
<1>5. Mark(workers[w].status) \in {"draft", "cancelled", "none"}
  BY <1>2 DEF Mark
<1>6. RenderedDoc(w, fresh) \in Document
  BY <1>4, <1>5 DEF RenderedDoc, Document
<1>. QED  BY <1>3, <1>4, <1>6

\* A nonempty set of naturals has a least element.
LEMMA LeastNat ==
  ASSUME NEW N, N \subseteq Nat, N # {}
  PROVE  \E m \in N : \A k \in N : m <= k
<1> DEFINE R == OpToRel(<, Nat)
<1>1. IsWellFoundedOn(R, Nat)
  BY NatLessThanWellFounded, Zenon
<1> HIDE DEF R
<1>2. PICK m \in N : \A y \in N : ~(<<y, m>> \in R)
  BY <1>1, WFMin, Zenon
<1>3. \A y \in N : y < m => <<y, m>> \in R
  BY Zenon DEF R, OpToRel
<1>4. \A y \in N : ~(y < m)
  BY <1>2, <1>3, Zenon
<1>5. m \in Nat /\ \A k \in N : k \in Nat
  OBVIOUS
<1>6. \A k \in N : m <= k
  BY <1>4, <1>5, SMT
<1>. QED  BY <1>6, Zenon

LEMMA AvailableNameIsFree ==
    ASSUME FreeNames # {}
    PROVE  AvailableName \in Names /\ files[AvailableName] = None
<1>1. FreeNames \subseteq Nat
  BY DeliveryAssumption DEF FreeNames, Names
<1>2. \E n \in FreeNames : \A m \in FreeNames : n <= m
  BY <1>1, LeastNat
<1>3. AvailableName \in FreeNames
  BY <1>2 DEF AvailableName
<1>. QED  BY <1>3 DEF FreeNames

LEMMA RestartType ==
    ASSUME NEW k \in Worker, NEW r \in 0..MaxRetries,
           NEW log \in {"none", "pending", "failed", "sent"}, NEW c \in BOOLEAN
    PROVE  [k EXCEPT !.op = "mail", !.pc = "load", !.retries = r, !.log = log,
                     !.confirmed = c] \in Worker
  BY ZenonT(120) DEF Worker

LEMMA RetriedType ==
    ASSUME MailInv, NEW w \in Workers, NEW log \in {"none", "failed"}
    PROVE  Retried(w, log) \in Worker
<1>1. workers[w] \in Worker
  BY WorkerFields
<1>2. workers[w].retries \in 0..MaxRetries /\ workers[w].confirmed \in BOOLEAN
  BY <1>1 DEF Worker
<1>3. log \in {"none", "pending", "failed", "sent"}
  OBVIOUS
<1>4. CASE workers[w].retries < MaxRetries
  <2>1. workers[w].retries + 1 \in 0..MaxRetries
    BY <1>2, <1>4, DeliveryAssumption
  <2>2. Retried(w, log) =
            [Idle EXCEPT !.op = "mail", !.pc = "load", !.retries = workers[w].retries + 1,
                         !.log = log, !.confirmed = workers[w].confirmed]
    BY <1>4 DEF Retried
  <2>3. [Idle EXCEPT !.op = "mail", !.pc = "load", !.retries = workers[w].retries + 1,
                     !.log = log, !.confirmed = workers[w].confirmed] \in Worker
    BY <1>2, <1>3, <2>1, IdleSound, RestartType, Zenon
  <2>. QED  BY <2>2, <2>3
<1>. QED  BY <1>4, IdleSound DEF Retried

LEMMA RetriedSound ==
    ASSUME MailInv, NEW w \in Workers, ~workers[w].confirmed,
           NEW log \in {"none", "failed"}, NEW m
    PROVE  Retried(w, log) \in Worker /\ Sound(Retried(w, log), m)
<1>2. Retried(w, log) \in Worker
  BY RetriedType
<1>3. CASE workers[w].retries < MaxRetries
  <2>1. Retried(w, log).pc = "load"
    BY <1>3 DEF Retried, Idle
  <2>2. ~Retried(w, log).confirmed
    BY <1>3 DEF Retried, Idle
  <2>. QED  BY <1>2, <2>1, <2>2, EarlySound
<1>4. CASE ~(workers[w].retries < MaxRetries)
  BY <1>2, <1>4, IdleSound DEF Retried
<1>. QED  BY <1>3, <1>4

LEMMA WithPdfType ==
    ASSUME MailInv, NEW w \in Workers, NEW name \in Names
    PROVE  WithPdf(w, name) \in Worker
<1>1. workers[w] \in Worker
  BY WorkerFields
<1>2. workers[w].retries \in 0..MaxRetries /\ workers[w].confirmed \in BOOLEAN
  BY <1>1 DEF Worker
<1>. QED  BY <1>2, IdleSound, Zenon DEF WithPdf, Worker

LEMMA WithPdfSound ==
    ASSUME MailInv, NEW w \in Workers, ~workers[w].confirmed,
           NEW name \in Names, NEW m
    PROVE  WithPdf(w, name) \in Worker /\ Sound(WithPdf(w, name), m)
<1>2. WithPdf(w, name) \in Worker
  BY WithPdfType
<1>3. WithPdf(w, name).pc = "log" /\ WithPdf(w, name).pdf_file = name
  BY DEF WithPdf, Idle
<1>4. ~WithPdf(w, name).confirmed
  BY DEF WithPdf, Idle
<1>5. Sound(WithPdf(w, name), m)
  BY <1>3, <1>4, DeliveryAssumption DEF Sound, Sending
<1>. QED  BY <1>2, <1>5

-----------------------------------------------------------------------------
(* Where a process goes on to *)

LEMMA ToStore ==
    ASSUME NEW k \in Worker, NEW m, Sound(k, m), k.pc = "render",
           NEW c \in Copies, NEW d \in Document
    PROVE  LET s == [k EXCEPT !.pc = "store", !.copy = c, !.doc = d]
           IN  s \in Worker /\ Sound(s, m)
<1> DEFINE s == [k EXCEPT !.pc = "store", !.copy = c, !.doc = d]
<1>1. s \in Worker
  BY Zenon DEF Worker
<1>2. s.pc = "store" /\ s.copy = c /\ s.doc = d /\ (s.confirmed => k.confirmed)
  BY DEF Worker
<1>3. Sound(s, m)
  BY <1>2, DeliveryAssumption DEF Sound, Sending
<1>. QED  BY <1>1, <1>3

LEMMA ToPublish ==
    ASSUME NEW k \in Worker, NEW m, Sound(k, m), k.pc = "store", NEW n \in Names
    PROVE  LET s == [k EXCEPT !.pc = "publish", !.doc = None, !.file = n, !.pdf_file = n]
           IN  s \in Worker /\ Sound(s, m)
<1> DEFINE s == [k EXCEPT !.pc = "publish", !.doc = None, !.file = n, !.pdf_file = n]
<1>1. s \in Worker
  BY Zenon DEF Worker
<1>2. s.pc = "publish" /\ s.copy = k.copy /\ s.file = n /\ (s.confirmed => k.confirmed)
  BY DEF Worker
<1>3. Sound(s, m)
  BY <1>2, DeliveryAssumption DEF Sound, Sending
<1>. QED  BY <1>1, <1>3

LEMMA ToRejected ==
    ASSUME NEW k \in Worker, NEW m, Sound(k, m), k.pc = "publish"
    PROVE  LET s == [k EXCEPT !.pc = "rejected"]
           IN  s \in Worker /\ Sound(s, m)
<1> DEFINE s == [k EXCEPT !.pc = "rejected"]
<1>1. s \in Worker
  BY Zenon DEF Worker
<1>2. s.pc = "rejected" /\ s.copy = k.copy /\ s.file = k.file /\ (s.confirmed => k.confirmed)
  BY DEF Worker
<1>3. Sound(s, m)
  BY <1>2 DEF Sound, Sending
<1>. QED  BY <1>1, <1>3

LEMMA ToSecondRender ==
    ASSUME NEW k \in Worker, NEW m, ~k.confirmed
    PROVE  LET s == [k EXCEPT !.pc = "render", !.attempt = 2, !.file = None]
           IN  s \in Worker /\ Sound(s, m)
<1> DEFINE s == [k EXCEPT !.pc = "render", !.attempt = 2, !.file = None]
<1>0. 2 \in 1..2
  OBVIOUS
<1>1. s \in Worker
  BY <1>0, Zenon DEF Worker
<1>2. s.pc = "render" /\ ~s.confirmed
  BY DEF Worker
<1>. QED  BY <1>1, <1>2, EarlySound

LEMMA PlaceType ==
    ASSUME NEW k \in Worker
    PROVE  \A pc \in {"load", "transition", "refused"} : [k EXCEPT !.pc = pc] \in Worker
<1>1. [k EXCEPT !.pc = "load"] \in Worker
  BY Zenon DEF Worker
<1>2. [k EXCEPT !.pc = "transition"] \in Worker
  BY Zenon DEF Worker
<1>3. [k EXCEPT !.pc = "refused"] \in Worker
  BY Zenon DEF Worker
<1>. QED  BY <1>1, <1>2, <1>3

LEMMA TaskType ==
    ASSUME NEW k \in Worker
    PROVE  \A op \in {"view", "task", "mail", "hand"} : [k EXCEPT !.op = op] \in Worker
<1>1. [k EXCEPT !.op = "view"] \in Worker
  BY Zenon DEF Worker
<1>2. [k EXCEPT !.op = "task"] \in Worker
  BY Zenon DEF Worker
<1>3. [k EXCEPT !.op = "mail"] \in Worker
  BY Zenon DEF Worker
<1>4. [k EXCEPT !.op = "hand"] \in Worker
  BY Zenon DEF Worker
<1>. QED  BY <1>1, <1>2, <1>3, <1>4

LEMMA ToStart ==
    ASSUME NEW k \in Worker, NEW m, ~k.confirmed,
           NEW op \in {"view", "task", "mail", "hand"},
           NEW pc \in {"load", "transition", "refused"}
    PROVE  LET s == [k EXCEPT !.op = op, !.pc = pc]
           IN  s \in Worker /\ Sound(s, m)
<1> DEFINE s == [k EXCEPT !.op = op, !.pc = pc]
<1>1. s \in Worker
  <2>1. PICK j \in Worker : j = [k EXCEPT !.pc = pc]
    BY PlaceType
  <2>2. s = [j EXCEPT !.op = op]
    BY <2>1 DEF Worker
  <2>. QED  BY <2>2, TaskType
<1>2. s.pc = pc /\ ~s.confirmed
  BY DEF Worker
<1>. QED  BY <1>1, <1>2, EarlySound

LEMMA ToRead ==
    ASSUME NEW k \in Worker, NEW m, Sound(k, m), k.op = "mail", k.pc = "log"
    PROVE  LET s == [k EXCEPT !.pc = "read", !.log = "pending"]
           IN  s \in Worker /\ Sound(s, m)
<1> DEFINE s == [k EXCEPT !.pc = "read", !.log = "pending"]
<1>1. s \in Worker
  BY Zenon DEF Worker
<1>2. /\ s.pc = "read" /\ s.log = "pending" /\ s.pdf_file = k.pdf_file
      /\ s.confirmed => k.confirmed
  BY DEF Worker
<1>3. Sound(s, m)
  BY <1>2 DEF Sound, Sending
<1>. QED  BY <1>1, <1>3

LEMMA ToSend ==
    ASSUME NEW k \in Worker, NEW m, Sound(k, m), k.op = "mail", k.pc = "read",
           NEW d \in Document
    PROVE  LET s == [k EXCEPT !.pc = "send", !.doc = d]
           IN  s \in Worker /\ Sound(s, m)
<1> DEFINE s == [k EXCEPT !.pc = "send", !.doc = d]
<1>1. s \in Worker
  BY Zenon DEF Worker
<1>2. s.pc = "send" /\ s.log = k.log /\ s.doc = d /\ (s.confirmed => k.confirmed)
  BY DEF Worker
<1>3. Sound(s, m)
  BY <1>2, DeliveryAssumption DEF Sound, Sending
<1>. QED  BY <1>1, <1>3

LEMMA ToSent ==
    ASSUME NEW k \in Worker, NEW m, NEW n, Sound(k, m), k.op = "mail", k.pc = "send",
           k.doc \in n
    PROVE  LET s == [k EXCEPT !.pc = "sent", !.confirmed = TRUE]
           IN  s \in Worker /\ Sound(s, n)
<1> DEFINE s == [k EXCEPT !.pc = "sent", !.confirmed = TRUE]
<1>1. s \in Worker
  BY Zenon DEF Worker
<1>2. s.pc = "sent" /\ s.log = k.log /\ s.doc = k.doc
  BY DEF Worker
<1>3. Sound(s, n)
  BY <1>2 DEF Sound, Sending
<1>. QED  BY <1>1, <1>3

LEMMA ToRecord ==
    ASSUME NEW k \in Worker, NEW m, Sound(k, m), k.op = "mail", k.pc = "sent"
    PROVE  LET s == [k EXCEPT !.pc = "record", !.log = "sent"]
           IN  s \in Worker /\ Sound(s, m)
<1> DEFINE s == [k EXCEPT !.pc = "record", !.log = "sent"]
<1>1. s \in Worker
  BY Zenon DEF Worker
<1>2. s.pc = "record" /\ s.log = "sent" /\ s.doc = k.doc
  BY DEF Worker
<1>3. Sound(s, m)
  BY <1>2 DEF Sound, Sending
<1>. QED  BY <1>1, <1>3

LEMMA ToDeliver ==
    ASSUME NEW k \in Worker, NEW m, Sound(k, m),
           \/ k.op = "mail" /\ k.pc = "record"
           \/ k.op # "mail" /\ ~k.confirmed
    PROVE  LET s == [k EXCEPT !.pc = "deliver"]
           IN  s \in Worker /\ Sound(s, m)
<1> DEFINE s == [k EXCEPT !.pc = "deliver"]
<1>1. s \in Worker
  BY Zenon DEF Worker
<1>2. /\ s.pc = "deliver" /\ s.log = k.log /\ s.doc = k.doc /\ s.op = k.op
      /\ s.confirmed => k.confirmed
  BY DEF Worker
<1>3. Sound(s, m)
  BY <1>2 DEF Sound, Sending
<1>. QED  BY <1>1, <1>3

-----------------------------------------------------------------------------
(* Every step of a process leaves it sound *)

LEMMA LoadedUnconfirmed ==
    ASSUME NEW w, workers[w] \in Worker, ~workers[w].confirmed
    PROVE  ~Loaded(w).confirmed
  BY DEF Loaded, Worker

LEMMA MovesRender ==
    ASSUME MailInv, NEW w \in Workers,
           \/ generate_pdf(w) \/ store_pdf(w) \/ publish_pdf(w)
           \/ discard_render(w) \/ render_fails(w)
    PROVE  Moves(w)
<1>0. /\ workers[w] \in Worker /\ Sound(workers[w], mailed)
      /\ UNCHANGED mailed
  BY WorkerFields DEF generate_pdf, store_pdf, publish_pdf, discard_render, render_fails
<1>1. CASE generate_pdf(w)
  <2>1. PICK fresh \in FreshCopies(w) :
            Goto(w, [workers[w] EXCEPT !.pc = "store", !.copy = RenderedCopy(w, fresh),
                                       !.doc = RenderedDoc(w, fresh)])
    BY <1>1 DEF generate_pdf
  <2>2. workers[w].pc = "render"
    BY <1>1 DEF generate_pdf, At
  <2>. QED  BY <1>0, <2>1, <2>2, RenderedType, ToStore DEF Moves
<1>2. CASE store_pdf(w)
  <2>1. /\ FreeNames # {} /\ workers[w].pc = "store"
        /\ Goto(w, [workers[w] EXCEPT !.pc = "publish", !.doc = None, !.file = AvailableName,
                                      !.pdf_file = AvailableName])
    BY <1>2 DEF store_pdf, At
  <2>2. AvailableName \in Names
    BY <2>1, AvailableNameIsFree
  <2>. QED  BY <1>0, <2>1, <2>2, ToPublish DEF Moves
<1>3. CASE publish_pdf(w)
  <2>1. workers[w].pc = "publish" /\ ~workers[w].confirmed /\ workers[w].file \in Names
    BY <1>0, <1>3 DEF publish_pdf, At, Sound, Sending, Worker
  <2>2. CASE Publishable(w)
    <3>1. \/ Touch(w, WithPdf(w, workers[w].file))
          \/ Touch(w, Idle)
      BY <1>3, <2>2 DEF publish_pdf
    <3>. QED  BY <1>0, <2>1, <3>1, IdleSound, WithPdfSound DEF Moves
  <2>3. CASE ~Publishable(w)
    <3>1. Goto(w, [workers[w] EXCEPT !.pc = "rejected"])
      BY <1>3, <2>3 DEF publish_pdf
    <3>. QED  BY <1>0, <2>1, <3>1, ToRejected DEF Moves
  <2>. QED  BY <2>2, <2>3
<1>4. CASE discard_render(w)
  <2>1. workers[w].pc = "rejected" /\ ~workers[w].confirmed
    BY <1>0, <1>4 DEF discard_render, At, Sound, Sending
  <2>2. \/ Exists /\ Goto(w, [Loaded(w) EXCEPT !.pc = "render", !.attempt = 2, !.file = None])
        \/ Goto(w, Retried(w, "none"))
        \/ Goto(w, Idle)
    BY <1>4 DEF discard_render
  <2>3. CASE Exists /\ Goto(w, [Loaded(w) EXCEPT !.pc = "render", !.attempt = 2, !.file = None])
    <3>1. Loaded(w) \in Worker /\ ~Loaded(w).confirmed
      BY <1>0, <2>1, <2>3, LoadedType, LoadedUnconfirmed
    <3>. QED  BY <2>3, <3>1, ToSecondRender DEF Moves
  <2>4. CASE Goto(w, Retried(w, "none"))
    BY <2>1, <2>4, RetriedSound DEF Moves
  <2>. QED  BY <2>2, <2>3, <2>4, MovesIdle
<1>5. CASE render_fails(w)
  BY <1>5, MovesIdle DEF render_fails
<1>. QED  BY <1>1, <1>2, <1>3, <1>4, <1>5

LEMMA MovesStart ==
    ASSUME MailInv, NEW w \in Workers,
           \/ request_pdf(w) \/ queue_pdf(w) \/ queue_refused(w) \/ load_for_render(w)
           \/ send_email(w) \/ mark_sent(w) \/ backfill(w)
    PROVE  Moves(w)
<1>0. /\ workers[w] \in Worker /\ Sound(workers[w], mailed)
      /\ workers \in [Workers -> Worker]
      /\ UNCHANGED mailed
  BY WorkerFields DEF MailInv, TypeOK, request_pdf, queue_pdf, queue_refused, load_for_render,
                      send_email, mark_sent, backfill
<1>1. Idle \in Worker /\ ~Idle.confirmed /\ Idle.op # "mail"
  BY IdleSound DEF Idle
<1>2. CASE request_pdf(w)
  <2>1. Exists /\ workers[w] = Idle /\ Goto(w, Fetched(w, "view", "render"))
    BY <1>2 DEF request_pdf, MayStart
  <2>. QED  BY <1>0, <1>1, <2>1, FetchedSound DEF Moves
<1>3. CASE queue_pdf(w)
  <2>1. /\ workers[w] = Idle
        /\ \/ Goto(w, [Idle EXCEPT !.op = "task", !.pc = "load"])
           \/ Goto(w, [Idle EXCEPT !.op = "view", !.pc = "refused"])
           \/ workers' = workers
    BY <1>3 DEF queue_pdf, MayStart, Goto
  <2>2. workers' = workers => Goto(w, workers[w])
    BY <1>0 DEF Goto
  <2>3. /\ [Idle EXCEPT !.op = "task", !.pc = "load"] \in Worker
        /\ Sound([Idle EXCEPT !.op = "task", !.pc = "load"], mailed)
    BY <1>1, ToStart
  <2>4. /\ [Idle EXCEPT !.op = "view", !.pc = "refused"] \in Worker
        /\ Sound([Idle EXCEPT !.op = "view", !.pc = "refused"], mailed)
    BY <1>1, ToStart
  <2>. QED  BY <1>0, <2>1, <2>2, <2>3, <2>4 DEF Moves
<1>4. CASE queue_refused(w)
  BY <1>4, MovesIdle DEF queue_refused
<1>5. CASE load_for_render(w)
  <2>1. ~workers[w].confirmed
    BY <1>0, <1>5 DEF load_for_render, At, Sound, Sending
  <2>2. Goto(w, Idle) \/ (Exists /\ Goto(w, Fetched(w, "task", "render")))
    BY <1>5 DEF load_for_render
  <2>. QED  BY <1>0, <2>1, <2>2, FetchedSound, MovesIdle DEF Moves
<1>6. CASE send_email(w)
  <2>1. Goto(w, [Idle EXCEPT !.op = "mail", !.pc = "load"])
    BY <1>6 DEF send_email
  <2>. QED  BY <1>0, <1>1, <2>1, ToStart DEF Moves
<1>7. CASE mark_sent(w)
  <2>1. /\ Exists /\ workers[w] = Idle
        /\ Goto(w, [Loaded(w) EXCEPT !.op = "hand", !.pc = "transition"])
    BY <1>7 DEF mark_sent, MayStart
  <2>2. Loaded(w) \in Worker /\ ~Loaded(w).confirmed
    BY <1>0, <1>1, <2>1, LoadedType, LoadedUnconfirmed
  <2>. QED  BY <1>0, <2>1, <2>2, ToStart DEF Moves
<1>8. CASE backfill(w)
  <2>1. /\ Exists /\ workers[w] = Idle
        /\ Goto(w, [Loaded(w) EXCEPT !.op = "backfill", !.pc = "deliver"])
    BY <1>8 DEF backfill, MayStart
  <2>2. Loaded(w) \in Worker /\ ~Loaded(w).confirmed
    BY <1>0, <1>1, <2>1, LoadedType, LoadedUnconfirmed
  <2> DEFINE s == [Loaded(w) EXCEPT !.op = "backfill", !.pc = "deliver"]
  <2>3. s \in Worker
    BY <2>2, Zenon DEF Worker
  <2>4. s.op = "backfill" /\ s.pc = "deliver" /\ ~s.confirmed
    BY <2>2 DEF Worker
  <2>5. Sound(s, mailed)
    BY <2>4 DEF Sound, Sending
  <2>. QED  BY <1>0, <2>1, <2>3, <2>5 DEF Moves
<1>. QED  BY <1>2, <1>3, <1>4, <1>5, <1>6, <1>7, <1>8

LEMMA MovesMail ==
    ASSUME MailInv, NEW w \in Workers,
           \/ load_for_mail(w) \/ create_log(w) \/ read_attachment(w) \/ send_succeeds(w)
           \/ send_fails(w) \/ save_log(w) \/ record_email_delivery(w) \/ bookkeeping_fails(w)
    PROVE  Moves(w)
<1>0. workers[w] \in Worker /\ Sound(workers[w], mailed)
  BY WorkerFields
<1>1. CASE load_for_mail(w)
  <2>1. /\ UNCHANGED mailed
        /\ workers[w].op = "mail" /\ workers[w].pc = "load" /\ ~workers[w].confirmed
    BY <1>0, <1>1 DEF load_for_mail, At, Sound, Sending
  <2>2. \/ Goto(w, Idle)
        \/ Exists /\ Goto(w, [Loaded(w) EXCEPT !.pc = "render"])
        \/ Exists /\ row.pdf_file # None /\ Goto(w, WithPdf(w, row.pdf_file))
    BY <1>1 DEF load_for_mail
  <2>3. CASE Exists /\ Goto(w, [Loaded(w) EXCEPT !.pc = "render"])
    <3>1. Loaded(w) \in Worker /\ ~Loaded(w).confirmed
      BY <1>0, <2>1, <2>3, LoadedType, LoadedUnconfirmed
    <3>2. [Loaded(w) EXCEPT !.pc = "render"] \in Worker
      BY <3>1, Zenon DEF Worker
    <3>3. /\ [Loaded(w) EXCEPT !.pc = "render"].pc = "render"
          /\ ~[Loaded(w) EXCEPT !.pc = "render"].confirmed
      BY <3>1 DEF Worker
    <3>. QED  BY <2>3, <3>2, <3>3, EarlySound DEF Moves
  <2>4. CASE Exists /\ row.pdf_file # None /\ Goto(w, WithPdf(w, row.pdf_file))
    <3>1. row.pdf_file \in Names
      BY <2>4 DEF MailInv, TypeOK, Exists, Invoice
    <3>. QED  BY <2>1, <2>4, <3>1, WithPdfSound DEF Moves
  <2>. QED  BY <2>2, <2>3, <2>4, MovesIdle
<1>2. CASE create_log(w)
  <2>1. UNCHANGED mailed /\ workers[w].op = "mail" /\ workers[w].pc = "log"
    BY <1>2 DEF create_log, At
  <2>2. \/ Goto(w, Idle)
        \/ Goto(w, [workers[w] EXCEPT !.pc = "read", !.log = "pending"])
    BY <1>2 DEF create_log
  <2>. QED  BY <1>0, <2>1, <2>2, ToRead, MovesIdle DEF Moves
<1>3. CASE read_attachment(w)
  <2>1. /\ UNCHANGED mailed
        /\ workers[w].op = "mail" /\ workers[w].pc = "read" /\ ~workers[w].confirmed
    BY <1>0, <1>3 DEF read_attachment, At, Sound, Sending
  <2>2. files[workers[w].pdf_file] \in Document \cup {None}
    <3>1. workers[w].pdf_file \in Names
      BY <1>0, <2>1 DEF Sound, Worker
    <3>. QED  BY <3>1 DEF MailInv, TypeOK
  <2>3. \/ Goto(w, Idle)
        \/ Goto(w, Retried(w, "failed"))
        \/ /\ files[workers[w].pdf_file] # None
           /\ Goto(w, [workers[w] EXCEPT !.pc = "send", !.doc = files[workers[w].pdf_file]])
    BY <1>3 DEF read_attachment, AttemptFailed
  <2>. QED  BY <1>0, <2>1, <2>2, <2>3, ToSend, RetriedSound, MovesIdle DEF Moves
<1>4. CASE send_succeeds(w)
  <2>1. /\ workers[w].op = "mail" /\ workers[w].pc = "send"
        /\ workers[w].doc \in mailed'
        /\ Goto(w, [workers[w] EXCEPT !.pc = "sent", !.confirmed = TRUE])
    BY <1>4 DEF send_succeeds, At
  <2>. QED  BY <1>0, <2>1, ToSent DEF Moves
<1>5. CASE send_fails(w)
  <2>1. workers[w].op = "mail" /\ workers[w].pc = "send" /\ ~workers[w].confirmed
    BY <1>0, <1>5 DEF send_fails, At, Sound, Sending
  <2>2. Goto(w, Idle) \/ Goto(w, Retried(w, "failed"))
    BY <1>5 DEF send_fails, AttemptFailed
  <2>. QED  BY <2>1, <2>2, RetriedSound, MovesIdle DEF Moves
<1>6. CASE save_log(w)
  <2>1. UNCHANGED mailed /\ workers[w].op = "mail" /\ workers[w].pc = "sent"
    BY <1>6 DEF save_log, At
  <2>2. \/ Goto(w, Idle)
        \/ Goto(w, [workers[w] EXCEPT !.pc = "record", !.log = "sent"])
    BY <1>6 DEF save_log
  <2>. QED  BY <1>0, <2>1, <2>2, ToRecord, MovesIdle DEF Moves
<1>7. CASE record_email_delivery(w)
  <2>1. UNCHANGED mailed /\ workers[w].op = "mail" /\ workers[w].pc = "record"
    BY <1>7 DEF record_email_delivery, At
  <2>2. \/ Goto(w, Idle) \/ Touch(w, Idle)
        \/ Touch(w, [workers[w] EXCEPT !.pc = "deliver"])
    BY <1>7 DEF record_email_delivery
  <2>. QED  BY <1>0, <2>1, <2>2, ToDeliver, IdleSound DEF Moves
<1>8. CASE bookkeeping_fails(w)
  BY <1>8, MovesIdle DEF bookkeeping_fails
<1>. QED  BY <1>1, <1>2, <1>3, <1>4, <1>5, <1>6, <1>7, <1>8

LEMMA MovesInbox ==
    ASSUME MailInv, NEW w \in Workers,
           \/ deliver_mailed(w) \/ mark_invoice_sent(w) \/ deliver_by_hand(w)
           \/ backfill_invoice(w) \/ delivery_fails(w) \/ crash(w)
    PROVE  Moves(w)
<1>1. CASE mark_invoice_sent(w)
  <2>0. workers[w] \in Worker /\ Sound(workers[w], mailed)
    BY WorkerFields
  <2>1. /\ UNCHANGED mailed
        /\ workers[w].op = "hand" /\ workers[w].pc = "transition" /\ ~workers[w].confirmed
    BY <1>1, <2>0 DEF mark_invoice_sent, At, Sound, Sending
  <2>2. \/ Goto(w, Idle)
        \/ Touch(w, [workers[w] EXCEPT !.status = "sent", !.pc = "deliver"])
    BY <1>1 DEF mark_invoice_sent
  <2> DEFINE s == [workers[w] EXCEPT !.status = "sent", !.pc = "deliver"]
  <2>3. "sent" \in Statuses
    BY DEF Statuses
  <2>4. s \in Worker
    BY <2>0, <2>3, Zenon DEF Worker
  <2>5. s.op = "hand" /\ s.pc = "deliver" /\ ~s.confirmed
    BY <2>0, <2>1 DEF Worker
  <2>6. Sound(s, mailed)
    BY <2>5 DEF Sound, Sending
  <2>. QED  BY <2>1, <2>2, <2>4, <2>6, MovesIdle DEF Moves
<1>2. CASE ~mark_invoice_sent(w)
  BY <1>2, MovesIdle DEF deliver_mailed, deliver_by_hand, backfill_invoice, delivery_fails, crash
<1>. QED  BY <1>1, <1>2

-----------------------------------------------------------------------------
(* The mail of an invoice is accounted for *)

PdfStatuses == {"none", "pending", "ready", "failed"}

LEMMA RowUpdates ==
    ASSUME NEW r \in Invoice
    PROVE  /\ \A c \in Copies : [r EXCEPT !.copy = c] \in Invoice
           /\ \A f \in Names \cup {None}, p \in PdfStatuses :
                 [r EXCEPT !.pdf_file = f, !.pdf_status = p] \in Invoice
           /\ \A p \in PdfStatuses : [r EXCEPT !.pdf_status = p] \in Invoice
           /\ \A s \in Statuses : /\ [r EXCEPT !.sent = TRUE, !.status = s] \in Invoice
                                  /\ [r EXCEPT !.status = s, !.sent = TRUE] \in Invoice
                                  /\ [r EXCEPT !.status = s] \in Invoice
           /\ \A s \in Statuses, c \in Copies, f \in Names \cup {None}, p \in PdfStatuses :
                 [r EXCEPT !.status = s, !.copy = c, !.pdf_file = f, !.pdf_status = p] \in Invoice
  BY DEF Invoice, PdfStatuses

\* The row keeps its type.
LEMMA RowType ==
    ASSUME MailInv, [Next]_vars
    PROVE  row' \in Invoice \cup {None}
<1>0. /\ row \in Invoice \cup {None} /\ parties \in Copies
      /\ Exists => row \in Invoice
  BY DEF MailInv, TypeOK, Exists
<1>1. /\ {"sent", "approved"} \subseteq Statuses
      /\ {"none", "pending", "ready", "failed"} = PdfStatuses
  BY DEF Statuses, PdfStatuses
<1>2. ASSUME NEW w \in Workers, NEW fresh \in FreshCopies(w), StoreCopy(w, fresh)
      PROVE  row' \in Invoice \cup {None}
  <2>1. fresh \in Copies
    BY <1>2, RenderedType
  <2>2. row' = row \/ (Exists /\ row' = [row EXCEPT !.copy = fresh])
    BY <1>2 DEF StoreCopy, CopyMatches
  <2>. QED  BY <1>0, <2>1, <2>2, RowUpdates
<1>3. ASSUME NEW w \in Workers,
             \/ generate_pdf(w) \/ deliver_by_hand(w)
      PROVE  row' \in Invoice \cup {None}
  BY <1>0, <1>2, <1>3 DEF generate_pdf, deliver_by_hand
<1>4. ASSUME NEW w \in Workers, publish_pdf(w)
      PROVE  row' \in Invoice \cup {None}
  <2>1. workers[w].file \in Names \cup {None}
    BY WorkerFields DEF Worker
  <2>2. row' = row \/ (Exists /\ row' = [row EXCEPT !.pdf_file = workers[w].file,
                                                    !.pdf_status = "ready"])
    BY <1>4 DEF publish_pdf, Publishable
  <2>. QED  BY <1>0, <1>1, <2>1, <2>2, RowUpdates
<1>5. ASSUME NEW w \in Workers,
             discard_render(w) \/ render_fails(w) \/ queue_pdf(w) \/ queue_refused(w)
      PROVE  row' \in Invoice \cup {None}
  <2>1. \/ row' = row
        \/ /\ Exists
           /\ \E p \in PdfStatuses : row' = [row EXCEPT !.pdf_status = p]
    BY <1>5 DEF discard_render, render_fails, queue_pdf, queue_refused, AsLoaded, MayStart,
                 PdfStatuses
  <2>. QED  BY <1>0, <2>1, RowUpdates
<1>6. ASSUME NEW w \in Workers, record_email_delivery(w) \/ mark_invoice_sent(w)
      PROVE  row' \in Invoice \cup {None}
  <2>1. CASE record_email_delivery(w) /\ Exists
    <3>1. row' = [row EXCEPT !.sent = TRUE,
                             !.status = IF row.status = "approved" THEN "sent" ELSE row.status]
      BY <2>1 DEF record_email_delivery
    <3>2. (IF row.status = "approved" THEN "sent" ELSE row.status) \in Statuses
      BY <1>0, <2>1 DEF Invoice, Statuses
    <3>. QED  BY <1>0, <2>1, <3>1, <3>2, RowUpdates
  <2>2. CASE mark_invoice_sent(w) /\ Exists
    BY <1>0, <1>1, <2>2, RowUpdates DEF mark_invoice_sent
  <2>. QED  BY <1>0, <1>6, <2>1, <2>2 DEF record_email_delivery, mark_invoice_sent
<1>7. CASE approve_invoice
  <2>1. /\ Exists
        /\ row' = [row EXCEPT !.status = "approved", !.copy = parties, !.pdf_file = None,
                              !.pdf_status = "none"]
    BY <1>7 DEF approve_invoice
  <2>. QED  BY <1>0, <1>1, <2>1, RowUpdates
<1>8. ASSUME NEW to \in Statuses, transition(to)
      PROVE  row' \in Invoice \cup {None}
  BY <1>0, <1>8, RowUpdates DEF transition
<1>9. CASE UNCHANGED row \/ delete_invoice
  BY <1>0, <1>9 DEF delete_invoice
<1>. QED
  BY <1>3, <1>4, <1>5, <1>6, <1>7, <1>8, <1>9
  DEF Next, vars, store_pdf, request_pdf, load_for_render, send_email, load_for_mail, create_log,
      read_attachment, send_succeeds, send_fails, save_log, bookkeeping_fails, deliver_mailed,
      mark_sent, backfill, backfill_invoice, delivery_fails, crash, delete_retired, edit_parties

\* The storage and the files to be deleted keep their types.
LEMMA FilesType ==
    ASSUME MailInv, [Next]_vars
    PROVE  /\ files' \in [Names -> Document \cup {None}]
           /\ retired' \subseteq Names
<1>0. /\ files \in [Names -> Document \cup {None}] /\ retired \subseteq Names
      /\ row \in Invoice \cup {None}
  BY DEF MailInv, TypeOK
<1>1. ASSUME NEW w \in Workers, store_pdf(w)
      PROVE  files' \in [Names -> Document \cup {None}] /\ retired' \subseteq Names
  <2>1. workers[w].doc \in Document \cup {None}
    BY WorkerFields DEF Worker
  <2>. QED  BY <1>0, <1>1, <2>1 DEF store_pdf
<1>2. ASSUME NEW w \in Workers, discard_render(w) \/ render_fails(w)
      PROVE  files' \in [Names -> Document \cup {None}] /\ retired' \subseteq Names
  BY <1>0, <1>2 DEF discard_render, render_fails
<1>3. CASE approve_invoice
  <2>1. row.pdf_file \in Names \cup {None}
    BY <1>0, <1>3 DEF approve_invoice, Exists, Invoice
  <2>. QED  BY <1>0, <1>3, <2>1 DEF approve_invoice
<1>4. ASSUME NEW name \in retired, delete_retired(name)
      PROVE  files' \in [Names -> Document \cup {None}] /\ retired' \subseteq Names
  BY <1>0, <1>4 DEF delete_retired
<1>5. CASE UNCHANGED <<files, retired>>
  BY <1>0, <1>5
<1>. QED
  BY <1>1, <1>2, <1>3, <1>4, <1>5
  DEF Next, vars, generate_pdf, publish_pdf, request_pdf, queue_pdf, queue_refused,
      load_for_render, send_email, load_for_mail, create_log, read_attachment, send_succeeds,
      send_fails, save_log, record_email_delivery, bookkeeping_fails, deliver_mailed, mark_sent,
      mark_invoice_sent, deliver_by_hand, backfill, backfill_invoice, delivery_fails, crash,
      transition, delete_invoice, edit_parties

\* What was mailed are documents, and nothing is taken back.
LEMMA MailedGrows ==
    ASSUME MailInv, [Next]_vars
    PROVE  mailed' \subseteq Document /\ mailed \subseteq mailed'
<1>0. mailed \subseteq Document
  BY DEF MailInv, TypeOK
<1>1. ASSUME NEW w \in Workers, send_succeeds(w) \/ send_fails(w)
      PROVE  mailed' \subseteq Document /\ mailed \subseteq mailed'
  <2>1. workers[w].pc = "send"
    BY <1>1 DEF send_succeeds, send_fails, At
  <2>2. workers[w].doc \in Document
    BY <2>1, WorkerFields DEF Worker, Sound
  <2>. QED  BY <1>0, <1>1, <2>2 DEF send_succeeds, send_fails
<1>2. CASE UNCHANGED mailed
  BY <1>0, <1>2
<1>. QED
  BY <1>1, <1>2
  DEF Next, vars, generate_pdf, store_pdf, publish_pdf, discard_render, render_fails, request_pdf,
      queue_pdf, queue_refused, load_for_render, send_email, load_for_mail, create_log,
      read_attachment, save_log, record_email_delivery, bookkeeping_fails, deliver_mailed,
      mark_sent, mark_invoice_sent, deliver_by_hand, backfill, backfill_invoice, delivery_fails,
      crash, approve_invoice, delete_retired, transition, delete_invoice, edit_parties

\* The inbox takes one document; an e-mail's is among those mailed.
LEMMA DeliverSound ==
    ASSUME MailInv, NEW via \in {"mail", "hand", "backfill"}, NEW doc \in Document,
           Deliver(via, doc), UNCHANGED mailed, via = "mail" => doc \in mailed
    PROVE  inbox' \in Delivered \cup {None} /\ InboxHoldsWhatWasMailed'
<1>1. inbox \in Delivered \cup {None} /\ InboxHoldsWhatWasMailed
  BY DEF MailInv, TypeOK
<1>2. CASE inbox' = inbox
  BY <1>1, <1>2 DEF InboxHoldsWhatWasMailed
<1>3. CASE inbox' = [via |-> via, doc |-> doc]
  BY <1>3 DEF InboxHoldsWhatWasMailed, Delivered
<1>. QED  BY <1>2, <1>3 DEF Deliver

LEMMA StoredType ==
    ASSUME MailInv, NEW w \in Workers
    PROVE  StoredBytes(w) \in Document \cup {None}
<1>1. workers[w].pdf_file \in Names \cup {None}
  BY WorkerFields DEF Worker
<1>. QED  BY <1>1 DEF StoredBytes, MailInv, TypeOK

LEMMA InboxSound ==
    ASSUME MailInv, [Next]_vars
    PROVE  inbox' \in Delivered \cup {None} /\ InboxHoldsWhatWasMailed'
<1>0. inbox \in Delivered \cup {None} /\ InboxHoldsWhatWasMailed /\ mailed \subseteq mailed'
  BY MailedGrows DEF MailInv, TypeOK
<1>1. ASSUME NEW w \in Workers, deliver_mailed(w)
      PROVE  inbox' \in Delivered \cup {None} /\ InboxHoldsWhatWasMailed'
  <2>1. workers[w].op = "mail" /\ workers[w].pc = "deliver"
    BY <1>1 DEF deliver_mailed, At
  <2>2. workers[w].doc \in mailed /\ mailed \subseteq Document
    BY <2>1, WorkerFields DEF Sound, Sending, MailInv, TypeOK
  <2>. QED  BY <1>1, <2>2, DeliverSound DEF deliver_mailed
<1>2. ASSUME NEW w \in Workers, deliver_by_hand(w)
      PROVE  inbox' \in Delivered \cup {None} /\ InboxHoldsWhatWasMailed'
  <2>1. CASE StoredBytes(w) # None /\ Deliver("hand", StoredBytes(w))
    BY <1>2, <2>1, StoredType, DeliverSound DEF deliver_by_hand
  <2>2. ASSUME NEW fresh \in FreshCopies(w), Deliver("hand", RenderedDoc(w, fresh))
        PROVE  inbox' \in Delivered \cup {None} /\ InboxHoldsWhatWasMailed'
    BY <1>2, <2>2, RenderedType, DeliverSound DEF deliver_by_hand
  <2>. QED  BY <1>2, <2>1, <2>2 DEF deliver_by_hand
<1>3. ASSUME NEW w \in Workers, backfill_invoice(w)
      PROVE  inbox' \in Delivered \cup {None} /\ InboxHoldsWhatWasMailed'
  <2>1. CASE StoredBytes(w) # None
    BY <1>3, <2>1, StoredType, DeliverSound DEF backfill_invoice
  <2>2. CASE StoredBytes(w) = None
    BY <1>0, <1>3, <2>2 DEF backfill_invoice, InboxHoldsWhatWasMailed
  <2>. QED  BY <2>1, <2>2
<1>4. CASE UNCHANGED inbox
  BY <1>0, <1>4 DEF InboxHoldsWhatWasMailed
<1>. QED
  BY <1>1, <1>2, <1>3, <1>4
  DEF Next, vars, generate_pdf, store_pdf, publish_pdf, discard_render, render_fails, request_pdf,
      queue_pdf, queue_refused, load_for_render, send_email, load_for_mail, create_log,
      read_attachment, send_succeeds, send_fails, save_log, record_email_delivery,
      bookkeeping_fails, mark_sent, mark_invoice_sent, backfill, delivery_fails, crash,
      approve_invoice, delete_retired, transition, delete_invoice, edit_parties

LEMMA CountersType ==
    ASSUME MailInv, [Next]_vars
    PROVE  parties' \in Copies /\ jobs' \in 0..MaxJobs /\ faults' \in 0..MaxFaults
<1>0. /\ parties \in Copies /\ jobs \in 0..MaxJobs /\ faults \in 0..MaxFaults
      /\ {LastEdit, MaxJobs, MaxFaults} \subseteq Nat
  BY DeliveryAssumption DEF MailInv, TypeOK
<1>1. /\ UNCHANGED parties \/ (parties < LastEdit /\ parties' = parties + 1)
      /\ UNCHANGED jobs \/ (jobs < MaxJobs /\ jobs' = jobs + 1)
      /\ UNCHANGED faults \/ (faults < MaxFaults /\ faults' = faults + 1)
  BY DEF Next, vars, generate_pdf, store_pdf, publish_pdf, discard_render, render_fails,
      request_pdf, queue_pdf, queue_refused, load_for_render, send_email, load_for_mail,
      create_log, read_attachment, send_succeeds, send_fails, save_log, record_email_delivery,
      bookkeeping_fails, deliver_mailed, mark_sent, mark_invoice_sent, deliver_by_hand, backfill,
      backfill_invoice, delivery_fails, crash, approve_invoice, delete_retired, transition,
      delete_invoice, edit_parties, MayStart
<1>. QED  BY <1>0, <1>1 DEF Copies

\* Every process stays sound.
LEMMA WorkersSound ==
    ASSUME MailInv, [Next]_vars
    PROVE  workers' \in [Workers -> Worker] /\ AllSound'
<1>0. mailed \subseteq mailed'
  BY MailedGrows
<1>1. ASSUME NEW w \in Workers, Moves(w)
      PROVE  workers' \in [Workers -> Worker] /\ AllSound'
  BY <1>0, <1>1, MovesSound
<1>2. CASE TouchAll /\ UNCHANGED mailed
  BY <1>2, TouchAllSound
<1>3. CASE UNCHANGED <<workers, mailed>>
  BY <1>3 DEF MailInv, TypeOK, AllSound
<1>4. CASE Next
  <2>1. CASE \E w \in Workers : Moves(w)
    BY <1>1, <2>1
  <2>2. CASE ~ \E w \in Workers : Moves(w)
    <3>1. \/ approve_invoice \/ delete_invoice \/ edit_parties
          \/ \E name \in retired : delete_retired(name)
          \/ \E to \in Statuses : transition(to)
      BY <1>4, <2>2, MovesRender, MovesStart, MovesMail, MovesInbox DEF Next
    <3>. QED
      BY <1>2, <1>3, <3>1
      DEF approve_invoice, delete_invoice, edit_parties, delete_retired, transition
  <2>. QED  BY <2>1, <2>2
<1>. QED  BY <1>3, <1>4 DEF vars

LEMMA MailInit == Init => MailInv
<1> SUFFICES ASSUME Init PROVE MailInv
  OBVIOUS
<1>0. 0 \in Copies
  BY DeliveryAssumption DEF Copies
<1>1. row \in Invoice
  <2>1. [status |-> "draft", copy |-> 0, pdf_file |-> None, pdf_status |-> "none",
         sent |-> FALSE] \in Invoice
    BY <1>0 DEF Invoice, Statuses
  <2>2. [status |-> "approved", copy |-> None, pdf_file |-> None, pdf_status |-> "none",
         sent |-> FALSE] \in Invoice
    BY DEF Invoice, Statuses
  <2>. QED  BY <2>1, <2>2 DEF Init
<1>2. /\ parties \in Copies /\ jobs \in 0..MaxJobs /\ faults \in 0..MaxFaults
  BY DeliveryAssumption DEF Init, Copies
<1>3. files \in [Names -> Document \cup {None}]
  BY DEF Init
<1>4. workers \in [Workers -> Worker] /\ AllSound
  BY IdleSound DEF Init, AllSound
<1>. QED  BY <1>1, <1>2, <1>3, <1>4 DEF Init, MailInv, TypeOK, InboxHoldsWhatWasMailed

LEMMA MailStep == MailInv /\ [Next]_vars => MailInv'
<1> SUFFICES ASSUME MailInv, [Next]_vars PROVE MailInv'
  OBVIOUS
<1>. QED
  BY RowType, FilesType, MailedGrows, InboxSound, CountersType, WorkersSound DEF MailInv, TypeOK

LEMMA MailHolds == Spec => []MailInv
  BY MailInit, MailStep, PTL DEF Spec

\* Every variable keeps its type (the processes of invoices/tasks.py, pdf.py
\* and inbox/ never hold a document or name a file where they have none); a
\* task whose message the mail server confirmed never gets back to sending and
\* its log never says that it failed; and the document that an e-mail put into
\* the inbox was e-mailed (send_invoice_email_task, record_email_delivery).
THEOREM MailAccounted == Spec => []MailIsAccountedFor
<1>1. MailInv => MailIsAccountedFor
  <2> SUFFICES ASSUME MailInv PROVE ConfirmedIsNotResent
    BY DEF MailInv, MailIsAccountedFor
  <2>. QED  BY DEF MailInv, AllSound, Sound, Sending, ConfirmedIsNotResent
<1>. QED  BY <1>1, MailHolds, PTL

-----------------------------------------------------------------------------
(* The copy of an approved invoice stays *)

Final == {"approved", "sent", "paid"}

\* The row is deleted or keeps its copy and its file, and is not issued now
\* unless it was before.
RowKept ==
    \/ row' = None
    \/ row' = row
    \/ /\ Exists
       /\ row'.copy = row.copy /\ row'.pdf_file = row.pdf_file
       /\ row'.status \in Final => row.status \in Final

\* A render stores the copy it took: of a draft, or where there was none.
CopyStored ==
    /\ Exists
    /\ row.status = "draft" \/ row.copy = None
    /\ row'.status = row.status /\ row'.pdf_file = row.pdf_file

LEMMA StoreCopySteps ==
    ASSUME MailInv, NEW w \in Workers, NEW fresh, StoreCopy(w, fresh)
    PROVE  RowKept \/ CopyStored
<1>1. CASE row' = row
  BY <1>1 DEF RowKept
<1>2. CASE Exists /\ CopyMatches(w) /\ row' = [row EXCEPT !.copy = fresh]
  <2>1. row \in Invoice
    BY <1>2 DEF MailInv, TypeOK, Exists
  <2>. QED  BY <1>2, <2>1 DEF CopyStored, CopyMatches, Invoice
<1>. QED  BY <1>1, <1>2 DEF StoreCopy, CopyMatches

LEMMA RowSteps ==
    ASSUME MailInv, [Next]_vars
    PROVE  \/ RowKept \/ CopyStored \/ approve_invoice
           \/ \E w \in Workers : publish_pdf(w) /\ Publishable(w)
<1>0. Exists => row \in Invoice
  BY DEF MailInv, TypeOK, Exists
<1>1. ASSUME NEW w \in Workers, generate_pdf(w) \/ deliver_by_hand(w)
      PROVE  RowKept \/ CopyStored
  BY <1>1, StoreCopySteps DEF generate_pdf, deliver_by_hand, RowKept
<1>2. ASSUME NEW w \in Workers,
             discard_render(w) \/ render_fails(w) \/ queue_pdf(w) \/ queue_refused(w)
      PROVE  RowKept
  <2>1. \/ row' = row
        \/ /\ Exists
           /\ \E p \in PdfStatuses : row' = [row EXCEPT !.pdf_status = p]
    BY <1>2 DEF discard_render, render_fails, queue_pdf, queue_refused, AsLoaded, MayStart,
                PdfStatuses
  <2>. QED  BY <1>0, <2>1 DEF RowKept, Invoice
<1>3. ASSUME NEW w \in Workers, record_email_delivery(w) \/ mark_invoice_sent(w)
      PROVE  RowKept
  <2>1. CASE row' = row
    BY <2>1 DEF RowKept
  <2>2. CASE /\ Exists
             /\ row' = [row EXCEPT !.sent = TRUE,
                                   !.status = IF row.status = "approved" THEN "sent" ELSE row.status]
    BY <1>0, <2>2 DEF RowKept, Invoice, Final
  <2>3. CASE /\ Exists /\ row.status = "approved"
             /\ row' = [row EXCEPT !.status = "sent", !.sent = TRUE]
    BY <1>0, <2>3 DEF RowKept, Invoice, Final
  <2>. QED  BY <1>3, <2>1, <2>2, <2>3 DEF record_email_delivery, mark_invoice_sent
<1>4. ASSUME NEW to \in Statuses, transition(to)
      PROVE  RowKept
  <2>1. /\ Exists /\ row' = [row EXCEPT !.status = to]
        /\ to = "cancelled" \/ (to = "paid" /\ row.status = "sent")
           \/ (to = "sent" /\ row.status = "paid")
    BY <1>4 DEF transition, Transitions
  <2>. QED  BY <1>0, <2>1 DEF RowKept, Invoice, Final
<1>5. CASE UNCHANGED row \/ delete_invoice
  BY <1>5 DEF delete_invoice, RowKept
<1>6. ASSUME NEW w \in Workers, publish_pdf(w), ~Publishable(w)
      PROVE  RowKept
  BY <1>6 DEF publish_pdf, RowKept
<1>. QED
  BY <1>1, <1>2, <1>3, <1>4, <1>5, <1>6
  DEF Next, vars, store_pdf, request_pdf, load_for_render, send_email, load_for_mail, create_log,
      read_attachment, send_succeeds, send_fails, save_log, bookkeeping_fails, deliver_mailed,
      mark_sent, backfill, backfill_invoice, delivery_fails, crash, delete_retired, edit_parties

\* From approval on the issuer and the recipient of an invoice never change,
\* whichever renders were under way (copy_for_render, approve_invoice).
THEOREM ApprovedCopyStays == Spec => ApprovedCopyIsFrozen
<1>1. MailInv /\ [Next]_vars =>
        [Exists /\ row' # None /\ row.status # "draft" /\ row.copy # None
            => row'.copy = row.copy]_vars
  <2> SUFFICES ASSUME MailInv, [Next]_vars, Exists, row' # None, row.status # "draft",
                      row.copy # None
               PROVE  row'.copy = row.copy
    OBVIOUS
  <2>1. ~CopyStored /\ ~approve_invoice
    BY DEF CopyStored, approve_invoice
  <2>2. CASE RowKept
    BY <2>2 DEF RowKept
  <2>3. ASSUME NEW w \in Workers, publish_pdf(w), Publishable(w)
        PROVE  row'.copy = row.copy
    <3>1. row \in Invoice
      BY DEF MailInv, TypeOK, Exists
    <3>2. row' = [row EXCEPT !.pdf_file = workers[w].file, !.pdf_status = "ready"]
      BY <2>3 DEF publish_pdf
    <3>. QED  BY <3>1, <3>2 DEF Invoice
  <2>. QED  BY <2>1, <2>2, <2>3, RowSteps
<1>. QED  BY <1>1, MailHolds, PTL DEF Spec, ApprovedCopyIsFrozen

-----------------------------------------------------------------------------
(* The document of an issued invoice is final *)

\* A process has not come to store or to own a file, and where it still does it
\* is the same file of the same render.
RenderKept(v) ==
    /\ workers'[v].pc = "store" =>
          workers[v].pc = "store" /\ workers'[v].doc = workers[v].doc
    /\ workers'[v].pc \in {"publish", "rejected"} =>
          Owns(v) /\ workers'[v].file = workers[v].file
    /\ workers'[v].pc \in {"store", "publish", "rejected"} =>
          workers'[v].status = workers[v].status /\ workers'[v].copy = workers[v].copy

\* The step leaves w at no file.
Leaves(w) ==
    \E s : /\ s.pc \notin {"store", "publish", "rejected"}
           /\ Goto(w, s) \/ Touch(w, s)

LEMMA OthersKept ==
    ASSUME MailInv, NEW w \in Workers, NEW s, Goto(w, s) \/ Touch(w, s)
    PROVE  workers'[w] = s /\ \A v \in Workers \ {w} : RenderKept(v)
<1>1. workers \in [Workers -> Worker]
  BY DEF MailInv, TypeOK
<1>2. workers'[w] = s
  BY <1>1 DEF Goto, Touch
<1>3. ASSUME NEW v \in Workers \ {w}
      PROVE  RenderKept(v)
  <2>1. workers[v] \in Worker
    BY <1>1
  <2>2. \/ workers'[v] = workers[v]
        \/ workers'[v] = [workers[v] EXCEPT !.unmodified = FALSE]
    BY <1>1 DEF Goto, Touch
  <2>3. /\ workers'[v].pc = workers[v].pc /\ workers'[v].doc = workers[v].doc
        /\ workers'[v].file = workers[v].file /\ workers'[v].status = workers[v].status
        /\ workers'[v].copy = workers[v].copy
    BY <2>1, <2>2 DEF Worker
  <2>. QED  BY <2>3 DEF RenderKept, Owns
<1>. QED  BY <1>2, <1>3

LEMMA AllKept ==
    ASSUME MailInv, TouchAll
    PROVE  \A v \in Workers : RenderKept(v)
<1>1. workers \in [Workers -> Worker]
  BY DEF MailInv, TypeOK
<1>2. ASSUME NEW v \in Workers
      PROVE  RenderKept(v)
  <2>1. workers[v] \in Worker /\ workers'[v] = [workers[v] EXCEPT !.unmodified = FALSE]
    BY <1>1 DEF TouchAll
  <2>2. /\ workers'[v].pc = workers[v].pc /\ workers'[v].doc = workers[v].doc
        /\ workers'[v].file = workers[v].file /\ workers'[v].status = workers[v].status
        /\ workers'[v].copy = workers[v].copy
    BY <2>1 DEF Worker
  <2>. QED  BY <2>2 DEF RenderKept, Owns
<1>. QED  BY <1>2

LEMMA LeavesKept ==
    ASSUME MailInv, NEW w \in Workers, Leaves(w)
    PROVE  /\ ~Owns(w)' /\ workers'[w].pc # "store"
           /\ \A v \in Workers : RenderKept(v)
<1>1. PICK s : /\ s.pc \notin {"store", "publish", "rejected"}
               /\ Goto(w, s) \/ Touch(w, s)
  BY DEF Leaves
<1>2. workers'[w] = s /\ \A v \in Workers \ {w} : RenderKept(v)
  BY <1>1, OthersKept
<1>3. RenderKept(w)
  BY <1>1, <1>2 DEF RenderKept
<1>. QED  BY <1>1, <1>2, <1>3 DEF Owns

LEMMA RenderedIsDocument ==
    ASSUME MailInv, NEW w \in Workers, workers[w].pc \in {"store", "publish", "rejected"}
    PROVE  Rendered(w) \in Document /\ Rendered(w) # None
<1>1. workers[w].status \in Statuses /\ workers[w].copy \in Copies
  BY WorkerFields DEF Worker, Sound
<1>2. Mark(workers[w].status) \in {"draft", "cancelled", "none"}
  BY <1>1 DEF Mark
<1>. QED  BY <1>1, <1>2, DeliveryAssumption DEF Rendered, Document

\* The row's own file is left alone.
LEMMA FinalKept ==
    ASSUME DocumentInv, RowKept \/ CopyStored,
           Exists /\ row.pdf_file # None => files'[row.pdf_file] = files[row.pdf_file]
    PROVE  IssuedDocumentIsFinal'
<1>0. /\ MailInv /\ IssuedDocumentIsFinal
      /\ Exists => row.pdf_file \in Names \cup {None}
      /\ Exists' => Exists /\ row'.pdf_file = row.pdf_file
  BY DEF DocumentInv, DocumentParts, MailInv, TypeOK, Exists, Invoice, RowKept, CopyStored
<1> SUFFICES ASSUME Exists', row'.pdf_file # None, row'.status \in Final
             PROVE  /\ files'[row'.pdf_file] # None
                    /\ files'[row'.pdf_file].mark # "draft"
                    /\ files'[row'.pdf_file].copy = row'.copy
  BY DEF IssuedDocumentIsFinal, Final
<1>1. /\ Exists /\ row'.pdf_file = row.pdf_file /\ row.pdf_file \in Names
      /\ files'[row.pdf_file] = files[row.pdf_file]
  BY <1>0
<1>2. row.status \in Final
  BY DEF RowKept, CopyStored, Exists
<1>3. /\ files[row.pdf_file] # None
      /\ files[row.pdf_file].mark # "draft"
      /\ files[row.pdf_file].copy = row.copy
  BY <1>0, <1>1, <1>2 DEF IssuedDocumentIsFinal, Final
<1>4. row.copy \in Copies
  <2>1. files[row.pdf_file] \in Document
    BY <1>0, <1>1, <1>3 DEF MailInv, TypeOK
  <2>. QED  BY <1>3, <2>1 DEF Document
<1>5. row'.copy = row.copy
  BY <1>1, <1>2, <1>4, DeliveryAssumption DEF RowKept, CopyStored, Final, Exists
<1>. QED  BY <1>1, <1>3, <1>5

\* The row's file is out of reach of the step: nothing in the storage that the
\* row, an approval or a process refers to changes, and none comes to refer
\* to a file.
LEMMA KeptStep ==
    ASSUME DocumentInv, RowKept \/ CopyStored,
           \A v \in Workers : RenderKept(v),
           retired' \subseteq retired,
           \A n \in Names : files'[n] = files[n]
                            \/ /\ n \notin retired'
                               /\ Exists => row.pdf_file # n
                               /\ \A v \in Workers : Owns(v)' => workers[v].file # n
    PROVE  DocumentParts'
<1>0. /\ MailInv /\ RendersAreOwned /\ NamedFilesExist /\ IssuedDocumentIsFinal
      /\ retired \subseteq Names
      /\ Exists => row.pdf_file \in Names \cup {None}
      /\ Exists' => Exists /\ row'.pdf_file = row.pdf_file
  BY DEF DocumentInv, DocumentParts, MailInv, TypeOK, Exists, Invoice, RowKept, CopyStored
<1>1. RendersAreOwned'
  <2> SUFFICES ASSUME NEW w \in Workers
               PROVE  /\ workers'[w].pc = "store" => workers'[w].doc = Rendered(w)'
                      /\ Owns(w)' =>
                            /\ files'[workers'[w].file] = Rendered(w)'
                            /\ workers'[w].file \notin retired'
                            /\ Exists' => row'.pdf_file # workers'[w].file
                            /\ \A v \in Workers \ {w} : Owns(v)' => workers'[v].file # workers'[w].file
    BY DEF RendersAreOwned
  <2>1. /\ \A v \in Workers : Owns(v)' => Owns(v) /\ workers'[v].file = workers[v].file
        /\ workers'[w].pc = "store" => workers[w].pc = "store" /\ workers'[w].doc = workers[w].doc
    BY DEF RenderKept, Owns
  <2>2. workers'[w].pc \in {"store", "publish", "rejected"} => Rendered(w)' = Rendered(w)
    BY DEF RenderKept, Rendered
  <2>3. workers'[w].pc = "store" => workers'[w].doc = Rendered(w)'
    BY <1>0, <2>1, <2>2 DEF RendersAreOwned
  <2>4. ASSUME Owns(w)'
        PROVE  /\ files'[workers'[w].file] = Rendered(w)'
               /\ workers'[w].file \notin retired'
               /\ Exists' => row'.pdf_file # workers'[w].file
               /\ \A v \in Workers \ {w} : Owns(v)' => workers'[v].file # workers'[w].file
    <3>1. Owns(w) /\ workers'[w].file = workers[w].file /\ Rendered(w)' = Rendered(w)
      BY <2>1, <2>2, <2>4 DEF Owns
    <3>2. workers[w].file \in Names
      BY <1>0, <3>1, WorkerFields DEF Owns, Worker, Sound
    <3>3. files'[workers[w].file] = files[workers[w].file]
      BY <2>4, <3>2
    <3>. QED  BY <1>0, <2>1, <3>1, <3>3 DEF RendersAreOwned
  <2>. QED  BY <2>3, <2>4
<1>2. NamedFilesExist'
  <2>1. \A n \in retired' : files'[n] # None
    BY <1>0 DEF NamedFilesExist
  <2>2. Exists' /\ row'.pdf_file # None => files'[row'.pdf_file] # None /\ row'.pdf_file \notin retired'
    BY <1>0 DEF NamedFilesExist
  <2>. QED  BY <2>1, <2>2 DEF NamedFilesExist
<1>3. IssuedDocumentIsFinal'
  BY <1>0, FinalKept
<1>. QED  BY <1>1, <1>2, <1>3 DEF DocumentParts

\* The steps that take a process to no file.
LEMMA LeavesSteps ==
    ASSUME MailInv, NEW w \in Workers,
           \/ discard_render(w) \/ render_fails(w) \/ request_pdf(w) \/ queue_pdf(w)
           \/ queue_refused(w) \/ load_for_render(w) \/ send_email(w) \/ load_for_mail(w)
           \/ create_log(w) \/ read_attachment(w) \/ send_succeeds(w) \/ send_fails(w)
           \/ save_log(w) \/ record_email_delivery(w) \/ bookkeeping_fails(w)
           \/ deliver_mailed(w) \/ mark_sent(w) \/ mark_invoice_sent(w) \/ deliver_by_hand(w)
           \/ backfill(w) \/ backfill_invoice(w) \/ delivery_fails(w) \/ crash(w)
    PROVE  Leaves(w)
<1>0. workers \in [Workers -> Worker] /\ workers[w] \in Worker
  BY DEF MailInv, TypeOK
<1>1. Idle.pc = "idle"
  BY DEF Idle
<1>2. ASSUME Goto(w, Idle) \/ Touch(w, Idle)
      PROVE  Leaves(w)
  BY <1>1, <1>2 DEF Leaves
<1>3. ASSUME NEW log, Goto(w, Retried(w, log))
      PROVE  Leaves(w)
  <2>1. Retried(w, log).pc \in {"load", "idle"}
    BY DEF Retried, Idle
  <2>. QED  BY <1>3, <2>1 DEF Leaves
<1>4. ASSUME NEW pc \in {"render", "read", "send", "sent", "record", "deliver", "load",
                         "transition", "refused"},
             NEW s, s.pc = pc, Goto(w, s) \/ Touch(w, s)
      PROVE  Leaves(w)
  BY <1>4 DEF Leaves
<1>5. Loaded(w).pc = workers[w].pc /\ "pc" \in DOMAIN Loaded(w)
  BY <1>0 DEF Loaded, Worker
<1>6. CASE discard_render(w)
  <2>1. \/ Goto(w, [Loaded(w) EXCEPT !.pc = "render", !.attempt = 2, !.file = None])
        \/ Goto(w, Retried(w, "none"))
        \/ Goto(w, Idle)
    BY <1>6 DEF discard_render
  <2>2. [Loaded(w) EXCEPT !.pc = "render", !.attempt = 2, !.file = None].pc = "render"
    BY <1>0 DEF Loaded, Worker
  <2>. QED  BY <1>2, <1>3, <1>4, <2>1, <2>2
<1>7. CASE request_pdf(w) \/ load_for_render(w)
  <2>1. \/ Goto(w, Fetched(w, "view", "render")) \/ Goto(w, Fetched(w, "task", "render"))
        \/ Goto(w, Idle)
    BY <1>7 DEF request_pdf, load_for_render
  <2>2. \A op : Fetched(w, op, "render").pc = "render"
    BY <1>0 DEF Fetched, Loaded, Worker
  <2>. QED  BY <1>2, <1>4, <2>1, <2>2
<1>8. CASE queue_pdf(w)
  <2>1. /\ workers[w] = Idle
        /\ \/ Goto(w, [Idle EXCEPT !.op = "task", !.pc = "load"])
           \/ Goto(w, [Idle EXCEPT !.op = "view", !.pc = "refused"])
           \/ workers' = workers
    BY <1>8 DEF queue_pdf, MayStart, Goto
  <2>2. workers' = workers => Goto(w, Idle)
    BY <1>0, <2>1 DEF Goto
  <2>3. /\ [Idle EXCEPT !.op = "task", !.pc = "load"].pc = "load"
        /\ [Idle EXCEPT !.op = "view", !.pc = "refused"].pc = "refused"
    BY DEF Idle
  <2>. QED  BY <1>2, <1>4, <2>1, <2>2, <2>3
<1>9. CASE send_email(w)
  <2>1. [Idle EXCEPT !.op = "mail", !.pc = "load"].pc = "load"
    BY DEF Idle
  <2>. QED  BY <1>4, <1>9, <2>1 DEF send_email
<1>10. CASE load_for_mail(w)
  <2>1. \/ Goto(w, Idle) \/ Goto(w, [Loaded(w) EXCEPT !.pc = "render"])
        \/ Goto(w, WithPdf(w, row.pdf_file))
    BY <1>10 DEF load_for_mail
  <2>2. [Loaded(w) EXCEPT !.pc = "render"].pc = "render"
    BY <1>5
  <2>3. WithPdf(w, row.pdf_file).pc = "log"
    BY DEF WithPdf, Idle
  <2>. QED  BY <1>2, <1>4, <2>1, <2>2, <2>3 DEF Leaves
<1>11. CASE create_log(w) \/ save_log(w)
  <2>1. \/ Goto(w, Idle) \/ Goto(w, [workers[w] EXCEPT !.pc = "read", !.log = "pending"])
        \/ Goto(w, [workers[w] EXCEPT !.pc = "record", !.log = "sent"])
    BY <1>11 DEF create_log, save_log
  <2>2. /\ [workers[w] EXCEPT !.pc = "read", !.log = "pending"].pc = "read"
        /\ [workers[w] EXCEPT !.pc = "record", !.log = "sent"].pc = "record"
    BY <1>0 DEF Worker
  <2>. QED  BY <1>2, <1>4, <2>1, <2>2
<1>12. CASE read_attachment(w) \/ send_fails(w)
  <2>1. \/ Goto(w, Idle) \/ Goto(w, Retried(w, "failed"))
        \/ Goto(w, [workers[w] EXCEPT !.pc = "send", !.doc = files[workers[w].pdf_file]])
    BY <1>12 DEF read_attachment, send_fails, AttemptFailed
  <2>2. [workers[w] EXCEPT !.pc = "send", !.doc = files[workers[w].pdf_file]].pc = "send"
    BY <1>0 DEF Worker
  <2>. QED  BY <1>2, <1>3, <1>4, <2>1, <2>2
<1>13. CASE send_succeeds(w)
  <2>1. [workers[w] EXCEPT !.pc = "sent", !.confirmed = TRUE].pc = "sent"
    BY <1>0 DEF Worker
  <2>. QED  BY <1>4, <1>13, <2>1 DEF send_succeeds
<1>14. CASE record_email_delivery(w)
  <2>1. \/ Goto(w, Idle) \/ Touch(w, Idle) \/ Touch(w, [workers[w] EXCEPT !.pc = "deliver"])
    BY <1>14 DEF record_email_delivery
  <2>2. [workers[w] EXCEPT !.pc = "deliver"].pc = "deliver"
    BY <1>0 DEF Worker
  <2>. QED  BY <1>2, <1>4, <2>1, <2>2
<1>15. CASE mark_sent(w) \/ backfill(w)
  <2>1. \/ Goto(w, [Loaded(w) EXCEPT !.op = "hand", !.pc = "transition"])
        \/ Goto(w, [Loaded(w) EXCEPT !.op = "backfill", !.pc = "deliver"])
    BY <1>15 DEF mark_sent, backfill
  <2>2. /\ [Loaded(w) EXCEPT !.op = "hand", !.pc = "transition"].pc = "transition"
        /\ [Loaded(w) EXCEPT !.op = "backfill", !.pc = "deliver"].pc = "deliver"
    BY <1>0 DEF Loaded, Worker
  <2>. QED  BY <1>4, <2>1, <2>2
<1>16. CASE mark_invoice_sent(w)
  <2>1. \/ Goto(w, Idle)
        \/ Touch(w, [workers[w] EXCEPT !.status = "sent", !.pc = "deliver"])
    BY <1>16 DEF mark_invoice_sent
  <2>2. [workers[w] EXCEPT !.status = "sent", !.pc = "deliver"].pc = "deliver"
    BY <1>0 DEF Worker
  <2>. QED  BY <1>2, <1>4, <2>1, <2>2
<1>17. CASE \/ render_fails(w) \/ queue_refused(w) \/ bookkeeping_fails(w) \/ deliver_mailed(w)
            \/ deliver_by_hand(w) \/ backfill_invoice(w) \/ delivery_fails(w) \/ crash(w)
  BY <1>2, <1>17 DEF render_fails, queue_refused, bookkeeping_fails, deliver_mailed,
                     deliver_by_hand, backfill_invoice, delivery_fails, crash
<1>. QED
  BY <1>6, <1>7, <1>8, <1>9, <1>10, <1>11, <1>12, <1>13, <1>14, <1>15, <1>16, <1>17

\* A render has the process at the store with what it rendered.
LEMMA DocumentRender ==
    ASSUME DocumentInv, NEW w \in Workers, generate_pdf(w), RowKept \/ CopyStored
    PROVE  DocumentParts'
<1>0. /\ MailInv /\ RendersAreOwned /\ NamedFilesExist
      /\ files' = files /\ retired' = retired
      /\ Exists' => Exists /\ row'.pdf_file = row.pdf_file
  BY DEF DocumentInv, DocumentParts, generate_pdf, RowKept, CopyStored, Exists
<1>1. PICK fresh : Goto(w, [workers[w] EXCEPT !.pc = "store", !.copy = RenderedCopy(w, fresh),
                                             !.doc = RenderedDoc(w, fresh)])
  BY DEF generate_pdf
<1>2. /\ workers'[w] = [workers[w] EXCEPT !.pc = "store", !.copy = RenderedCopy(w, fresh),
                                          !.doc = RenderedDoc(w, fresh)]
      /\ \A v \in Workers \ {w} : RenderKept(v)
  BY <1>0, <1>1, OthersKept
<1>3. /\ workers'[w].pc = "store" /\ workers'[w].status = workers[w].status
      /\ workers'[w].copy = RenderedCopy(w, fresh) /\ workers'[w].doc = RenderedDoc(w, fresh)
  <2>1. workers[w] \in Worker
    BY <1>0, WorkerFields
  <2>. QED  BY <1>2, <2>1 DEF Worker
<1>4. workers'[w].doc = Rendered(w)' /\ ~Owns(w)'
  BY <1>3 DEF Rendered, RenderedDoc, Owns
<1>5. ASSUME NEW v \in Workers, v # w
      PROVE  /\ workers'[v].pc = "store" => workers'[v].doc = Rendered(v)'
             /\ Owns(v)' =>
                   /\ Owns(v) /\ workers'[v].file = workers[v].file
                   /\ files'[workers'[v].file] = Rendered(v)'
                   /\ workers'[v].file \notin retired'
                   /\ Exists' => row'.pdf_file # workers'[v].file
  <2>1. RenderKept(v)
    BY <1>2, <1>5
  <2>2. workers'[v].pc \in {"store", "publish", "rejected"} => Rendered(v)' = Rendered(v)
    BY <2>1 DEF RenderKept, Rendered
  <2>. QED  BY <1>0, <2>1, <2>2 DEF RendersAreOwned, RenderKept, Owns
<1>6. RendersAreOwned'
  BY <1>0, <1>4, <1>5 DEF RendersAreOwned
<1>7. NamedFilesExist'
  BY <1>0 DEF NamedFilesExist
<1>8. IssuedDocumentIsFinal'
  <2>1. /\ DocumentInv /\ (RowKept \/ CopyStored)
    OBVIOUS
  <2>. QED  BY <1>0, <2>1, FinalKept
<1>. QED  BY <1>6, <1>7, <1>8 DEF DocumentParts

\* A new file has a name that nobody refers to.
LEMMA DocumentStore ==
    ASSUME DocumentInv, NEW w \in Workers, store_pdf(w)
    PROVE  DocumentParts'
<1>0. /\ MailInv /\ RendersAreOwned /\ NamedFilesExist
      /\ retired' = retired /\ row' = row /\ FreeNames # {}
      /\ files' = [files EXCEPT ![AvailableName] = workers[w].doc]
      /\ workers[w].pc = "store"
      /\ Goto(w, [workers[w] EXCEPT !.pc = "publish", !.doc = None, !.file = AvailableName,
                                    !.pdf_file = AvailableName])
  BY DEF DocumentInv, DocumentParts, store_pdf, At
<1>1. PICK a : a = AvailableName
  OBVIOUS
<1>2. a \in Names /\ files[a] = None
  BY <1>0, <1>1, AvailableNameIsFree
<1>3. files \in [Names -> Document \cup {None}]
  BY <1>0 DEF MailInv, TypeOK
<1>4. files'[a] = Rendered(w) /\ \A n \in Names \ {a} : files'[n] = files[n]
  BY <1>0, <1>1, <1>2, <1>3 DEF RendersAreOwned
<1>5. Rendered(w) # None
  BY <1>0, RenderedIsDocument
<1>6. /\ workers'[w] = [workers[w] EXCEPT !.pc = "publish", !.doc = None, !.file = a, !.pdf_file = a]
      /\ \A v \in Workers \ {w} : RenderKept(v)
  BY <1>0, <1>1, OthersKept
<1>7. /\ workers'[w].pc = "publish" /\ workers'[w].status = workers[w].status
      /\ workers'[w].copy = workers[w].copy /\ workers'[w].file = a
  <2>1. workers[w] \in Worker
    BY <1>0, WorkerFields
  <2>. QED  BY <1>6, <2>1 DEF Worker
<1>8. Rendered(w)' = Rendered(w)
  BY <1>7 DEF Rendered
<1>9. a \notin retired /\ (Exists => row.pdf_file # a)
  BY <1>2, DeliveryAssumption, <1>0 DEF NamedFilesExist
<1>10. ASSUME NEW v \in Workers, v # w
       PROVE  /\ workers'[v].pc = "store" => workers'[v].doc = Rendered(v)'
              /\ Owns(v)' =>
                    /\ Owns(v) /\ workers'[v].file = workers[v].file
                    /\ workers'[v].file # a
                    /\ files'[workers'[v].file] = Rendered(v)'
                    /\ workers'[v].file \notin retired'
                    /\ Exists' => row'.pdf_file # workers'[v].file
  <2>1. RenderKept(v)
    BY <1>6, <1>10
  <2>2. workers'[v].pc \in {"store", "publish", "rejected"} => Rendered(v)' = Rendered(v)
    BY <2>1 DEF RenderKept, Rendered
  <2>3. workers'[v].pc = "store" => workers'[v].doc = Rendered(v)'
    BY <1>0, <2>1, <2>2 DEF RendersAreOwned, RenderKept
  <2>4. ASSUME Owns(v)'
        PROVE  /\ Owns(v) /\ workers'[v].file = workers[v].file
               /\ workers'[v].file # a
               /\ files'[workers'[v].file] = Rendered(v)'
               /\ workers'[v].file \notin retired'
               /\ Exists' => row'.pdf_file # workers'[v].file
    <3>1. Owns(v) /\ workers'[v].file = workers[v].file /\ Rendered(v)' = Rendered(v)
      BY <2>1, <2>2, <2>4 DEF RenderKept, Owns
    <3>2. workers[v].file \in Names
      BY <1>0, <3>1, WorkerFields DEF Owns, Worker, Sound
    <3>3. files[workers[v].file] = Rendered(v) /\ Rendered(v) # None
      BY <1>0, <3>1, RenderedIsDocument DEF RendersAreOwned, Owns
    <3>4. workers[v].file # a
      BY <1>2, <3>3
    <3>. QED  BY <1>0, <1>4, <3>1, <3>2, <3>3, <3>4 DEF RendersAreOwned, Exists
  <2>. QED  BY <2>3, <2>4
<1>11. RendersAreOwned'
  <2>1. /\ workers'[w].pc # "store" /\ files'[workers'[w].file] = Rendered(w)'
        /\ workers'[w].file \notin retired' /\ (Exists' => row'.pdf_file # workers'[w].file)
    BY <1>0, <1>4, <1>7, <1>8, <1>9 DEF Exists
  <2>2. \A v \in Workers \ {w} : Owns(v)' => workers'[v].file # workers'[w].file
    BY <1>7, <1>10
  <2>. QED  BY <1>0, <1>10, <2>1, <2>2 DEF RendersAreOwned
<1>12. /\ \A n \in retired : n \in Names
       /\ Exists => row.pdf_file \in Names \cup {None}
  BY <1>0 DEF MailInv, TypeOK, Exists, Invoice
<1>13. NamedFilesExist'
  BY <1>0, <1>4, <1>9, <1>12 DEF NamedFilesExist, Exists
<1>14. IssuedDocumentIsFinal'
  <2>1. RowKept
    BY <1>0 DEF RowKept
  <2>. QED  BY <1>4, <1>9, <1>12, <2>1, FinalKept
<1>. QED  BY <1>11, <1>13, <1>14 DEF DocumentParts

\* A publication hands the file of the process over to the row.
LEMMA DocumentPublish ==
    ASSUME DocumentInv, NEW w \in Workers, publish_pdf(w), Publishable(w)
    PROVE  DocumentParts'
<1>0. /\ MailInv /\ RendersAreOwned /\ NamedFilesExist
      /\ retired' = retired /\ files' = files
      /\ Exists /\ row.status = workers[w].status /\ row.copy = workers[w].copy
      /\ row' = [row EXCEPT !.pdf_file = workers[w].file, !.pdf_status = "ready"]
      /\ Owns(w)
  BY DEF DocumentInv, DocumentParts, publish_pdf, Publishable, At, Owns
<1>1. Leaves(w)
  <2>1. Touch(w, WithPdf(w, workers[w].file)) \/ Touch(w, Idle)
    BY DEF publish_pdf
  <2>2. WithPdf(w, workers[w].file).pc = "log" /\ Idle.pc = "idle"
    BY DEF WithPdf, Idle
  <2>. QED  BY <2>1, <2>2 DEF Leaves
<1>2. ~Owns(w)' /\ workers'[w].pc # "store" /\ \A v \in Workers : RenderKept(v)
  BY <1>0, <1>1, LeavesKept
<1>3. /\ row'.pdf_file = workers[w].file /\ row'.copy = row.copy
      /\ row'.status = row.status
  <2>1. row \in Invoice
    BY <1>0 DEF MailInv, TypeOK, Exists
  <2>. QED  BY <1>0, <2>1 DEF Invoice
<1>4. files[workers[w].file] = Rendered(w) /\ Rendered(w) # None /\ workers[w].file \notin retired
  BY <1>0, RenderedIsDocument DEF RendersAreOwned, Owns
<1>5. RendersAreOwned'
  <2>1. ASSUME NEW v \in Workers
        PROVE  /\ workers'[v].pc = "store" => workers'[v].doc = Rendered(v)'
               /\ Owns(v)' =>
                     /\ v # w /\ Owns(v) /\ workers'[v].file = workers[v].file
                     /\ files'[workers'[v].file] = Rendered(v)'
                     /\ workers'[v].file \notin retired'
                     /\ row'.pdf_file # workers'[v].file
    <3>1. RenderKept(v)
      BY <1>2
    <3>2. workers'[v].pc \in {"store", "publish", "rejected"} => Rendered(v)' = Rendered(v)
      BY <3>1 DEF RenderKept, Rendered
    <3>3. workers'[v].pc = "store" => workers'[v].doc = Rendered(v)'
      BY <1>0, <3>1, <3>2 DEF RendersAreOwned, RenderKept
    <3>4. Owns(v)' => v # w /\ Owns(v) /\ workers'[v].file = workers[v].file
                      /\ Rendered(v)' = Rendered(v)
      BY <1>2, <3>1, <3>2 DEF RenderKept, Owns
    <3>5. v # w /\ Owns(v) => workers[v].file # workers[w].file
      BY <1>0 DEF RendersAreOwned
    <3>. QED  BY <1>0, <1>3, <3>3, <3>4, <3>5 DEF RendersAreOwned
  <2>. QED  BY <1>0, <2>1 DEF RendersAreOwned
<1>6. NamedFilesExist'
  BY <1>0, <1>3, <1>4 DEF NamedFilesExist
<1>7. IssuedDocumentIsFinal'
  BY <1>0, <1>3, <1>4 DEF IssuedDocumentIsFinal, Rendered, Mark
<1>. QED  BY <1>5, <1>6, <1>7 DEF DocumentParts

\* The file of a render that is discarded or refused is its process's own.
LEMMA DocumentDiscard ==
    ASSUME DocumentInv, NEW w \in Workers, discard_render(w) \/ render_fails(w),
           RowKept \/ CopyStored
    PROVE  DocumentParts'
<1>0. MailInv /\ RendersAreOwned
  BY DEF DocumentInv, DocumentParts
<1>1. /\ ~Owns(w)' /\ \A v \in Workers : RenderKept(v)
      /\ retired' = retired
  BY <1>0, LeavesSteps, LeavesKept DEF discard_render, render_fails
<1>2. \/ files' = files
      \/ Owns(w) /\ files' = [files EXCEPT ![workers[w].file] = None]
  BY DEF discard_render, render_fails, At, Owns
<1>3. CASE files' = files
  BY <1>1, <1>3, KeptStep
<1>4. CASE Owns(w) /\ files' = [files EXCEPT ![workers[w].file] = None]
  <2>1. /\ workers[w].file \notin retired
        /\ Exists => row.pdf_file # workers[w].file
    BY <1>0, <1>4 DEF RendersAreOwned
  <2>2. \A v \in Workers : Owns(v)' => workers[v].file # workers[w].file
    BY <1>0, <1>1, <1>4 DEF RendersAreOwned, RenderKept, Owns
  <2>3. \A n \in Names \ {workers[w].file} : files'[n] = files[n]
    BY <1>0, <1>4 DEF MailInv, TypeOK
  <2>4. \A n \in Names : \/ files'[n] = files[n]
                         \/ /\ n \notin retired'
                            /\ Exists => row.pdf_file # n
                            /\ \A v \in Workers : Owns(v)' => workers[v].file # n
    BY <1>1, <2>1, <2>2, <2>3
  <2>. QED  BY <1>1, <2>4, KeptStep
<1>. QED  BY <1>2, <1>3, <1>4

\* Approval leaves the row without a file; the draft's is to be deleted.
LEMMA DocumentApprove ==
    ASSUME DocumentInv, approve_invoice
    PROVE  DocumentParts'
<1>0. /\ MailInv /\ RendersAreOwned /\ NamedFilesExist
      /\ Exists /\ files' = files
      /\ retired' = retired \cup ({row.pdf_file} \ {None})
      /\ row' = [row EXCEPT !.status = "approved", !.copy = parties, !.pdf_file = None,
                            !.pdf_status = "none"]
      /\ TouchAll
  BY DEF DocumentInv, DocumentParts, approve_invoice
<1>1. row'.pdf_file = None
  <2>1. row \in Invoice
    BY <1>0 DEF MailInv, TypeOK, Exists
  <2>. QED  BY <1>0, <2>1 DEF Invoice
<1>2. RendersAreOwned'
  <2>1. ASSUME NEW v \in Workers
        PROVE  /\ workers'[v].pc = "store" => workers'[v].doc = Rendered(v)'
               /\ Owns(v)' =>
                     /\ Owns(v) /\ workers'[v].file = workers[v].file
                     /\ files'[workers'[v].file] = Rendered(v)'
                     /\ workers'[v].file \notin retired'
                     /\ row'.pdf_file # workers'[v].file
    <3>1. RenderKept(v)
      BY <1>0, AllKept
    <3>2. workers'[v].pc \in {"store", "publish", "rejected"} => Rendered(v)' = Rendered(v)
      BY <3>1 DEF RenderKept, Rendered
    <3>3. workers'[v].pc = "store" => workers'[v].doc = Rendered(v)'
      BY <1>0, <3>1, <3>2 DEF RendersAreOwned, RenderKept
    <3>4. Owns(v)' => Owns(v) /\ workers'[v].file = workers[v].file
                      /\ Rendered(v)' = Rendered(v)
      BY <3>1, <3>2 DEF RenderKept, Owns
    <3>5. Owns(v) => workers[v].file # None
      BY <1>0, WorkerFields DEF Owns, Sound
    <3>. QED  BY <1>0, <1>1, <3>3, <3>4, <3>5 DEF RendersAreOwned
  <2>. QED  BY <1>0, <2>1 DEF RendersAreOwned
<1>3. NamedFilesExist'
  BY <1>0, <1>1 DEF NamedFilesExist
<1>4. IssuedDocumentIsFinal'
  BY <1>1 DEF IssuedDocumentIsFinal
<1>. QED  BY <1>2, <1>3, <1>4 DEF DocumentParts

\* A retired file is nobody's.
LEMMA DocumentDelete ==
    ASSUME DocumentInv, NEW name \in retired, delete_retired(name)
    PROVE  DocumentParts'
<1>0. /\ MailInv /\ RendersAreOwned /\ NamedFilesExist
      /\ retired' = retired \ {name} /\ row' = row /\ workers' = workers
      /\ files' = files \/ files' = [files EXCEPT ![name] = None]
  BY DEF DocumentInv, DocumentParts, delete_retired
<1>1. RowKept /\ \A v \in Workers : RenderKept(v) /\ (Owns(v)' => Owns(v))
  BY <1>0 DEF RowKept, RenderKept, Owns
<1>2. \A n \in Names \ {name} : files'[n] = files[n]
  BY <1>0 DEF MailInv, TypeOK
<1>3. /\ \A v \in Workers : Owns(v) => workers[v].file # name
      /\ Exists => row.pdf_file # name
  <2>1. name # None
    BY <1>0, DeliveryAssumption DEF MailInv, TypeOK
  <2>. QED  BY <1>0, <2>1 DEF RendersAreOwned, NamedFilesExist
<1>4. \A n \in Names : \/ files'[n] = files[n]
                       \/ /\ n \notin retired'
                          /\ Exists => row.pdf_file # n
                          /\ \A v \in Workers : Owns(v)' => workers[v].file # n
  BY <1>0, <1>1, <1>2, <1>3
<1>. QED  BY <1>0, <1>1, <1>4, KeptStep

\* The other steps of a process, and of the invoice, leave the storage alone.
LEMMA DocumentOther ==
    ASSUME DocumentInv, RowKept \/ CopyStored, UNCHANGED <<files, retired>>,
           \A v \in Workers : RenderKept(v)
    PROVE  DocumentParts'
  BY KeptStep

LEMMA DocumentStep == DocumentInv /\ [Next]_vars => DocumentInv'
<1> SUFFICES ASSUME DocumentInv, [Next]_vars PROVE DocumentInv'
  OBVIOUS
<1>0. MailInv /\ MailInv'
  BY MailStep DEF DocumentInv
<1>1. \/ RowKept \/ CopyStored \/ approve_invoice
      \/ \E w \in Workers : publish_pdf(w) /\ Publishable(w)
  BY <1>0, RowSteps
<1> SUFFICES DocumentParts'
  BY <1>0 DEF DocumentInv
<1>2. CASE approve_invoice
  BY <1>2, DocumentApprove
<1>3. CASE \E w \in Workers : publish_pdf(w) /\ Publishable(w)
  BY <1>3, DocumentPublish
<1> SUFFICES ASSUME RowKept \/ CopyStored, ~approve_invoice,
                    ~ \E w \in Workers : publish_pdf(w) /\ Publishable(w)
             PROVE  DocumentParts'
  BY <1>1, <1>2, <1>3
<1>4. ASSUME NEW w \in Workers, generate_pdf(w)
      PROVE  DocumentParts'
  BY <1>4, DocumentRender
<1>5. ASSUME NEW w \in Workers, store_pdf(w)
      PROVE  DocumentParts'
  BY <1>5, DocumentStore
<1>6. ASSUME NEW w \in Workers, discard_render(w) \/ render_fails(w)
      PROVE  DocumentParts'
  BY <1>6, DocumentDiscard
<1>7. ASSUME NEW name \in retired, delete_retired(name)
      PROVE  DocumentParts'
  BY <1>7, DocumentDelete
<1>8. ASSUME NEW w \in Workers, publish_pdf(w)
      PROVE  DocumentParts'
  <2>1. /\ workers[w].pc = "publish" /\ Goto(w, [workers[w] EXCEPT !.pc = "rejected"])
        /\ UNCHANGED <<files, retired>>
    BY <1>8 DEF publish_pdf, At
  <2>2. /\ workers'[w] = [workers[w] EXCEPT !.pc = "rejected"]
        /\ \A v \in Workers \ {w} : RenderKept(v)
    BY <1>0, <2>1, OthersKept
  <2>3. workers[w] \in Worker
    BY <1>0, WorkerFields
  <2>4. RenderKept(w)
    BY <2>1, <2>2, <2>3 DEF RenderKept, Owns, Worker
  <2>. QED  BY <2>1, <2>2, <2>4, DocumentOther
<1>9. ASSUME NEW w \in Workers, UNCHANGED <<files, retired>>, Leaves(w)
      PROVE  DocumentParts'
  BY <1>0, <1>9, LeavesKept, DocumentOther
<1>10. CASE TouchAll /\ UNCHANGED <<files, retired>>
  BY <1>0, <1>10, AllKept, DocumentOther
<1>11. CASE UNCHANGED <<files, retired, workers>>
  <2>1. \A v \in Workers : RenderKept(v)
    BY <1>11 DEF RenderKept, Owns
  <2>. QED  BY <1>11, <2>1, DocumentOther
<1>12. ASSUME NEW w \in Workers,
              \/ request_pdf(w) \/ queue_pdf(w) \/ queue_refused(w) \/ load_for_render(w)
              \/ send_email(w) \/ load_for_mail(w) \/ create_log(w) \/ read_attachment(w)
              \/ send_succeeds(w) \/ send_fails(w) \/ save_log(w) \/ record_email_delivery(w)
              \/ bookkeeping_fails(w) \/ deliver_mailed(w) \/ mark_sent(w)
              \/ mark_invoice_sent(w) \/ deliver_by_hand(w) \/ backfill(w)
              \/ backfill_invoice(w) \/ delivery_fails(w) \/ crash(w)
       PROVE  DocumentParts'
  <2>1. Leaves(w)
    BY <1>0, <1>12, LeavesSteps
  <2>2. UNCHANGED <<files, retired>>
    BY <1>12
    DEF request_pdf, queue_pdf, queue_refused, load_for_render, send_email, load_for_mail,
        create_log, read_attachment, send_succeeds, send_fails, save_log, record_email_delivery,
        bookkeeping_fails, deliver_mailed, mark_sent, mark_invoice_sent, deliver_by_hand,
        backfill, backfill_invoice, delivery_fails, crash
  <2>. QED  BY <1>9, <2>1, <2>2
<1>13. CASE \/ delete_invoice \/ edit_parties \/ UNCHANGED vars
            \/ \E to \in Statuses : transition(to)
  BY <1>10, <1>11, <1>13 DEF delete_invoice, edit_parties, transition, vars
<1>. QED  BY <1>4, <1>5, <1>6, <1>7, <1>8, <1>12, <1>13 DEF Next

LEMMA DocumentInit == Init => DocumentInv
<1> SUFFICES ASSUME Init PROVE DocumentInv
  OBVIOUS
<1>1. MailInv
  BY MailInit
<1>2. \A w \in Workers : workers[w].pc = "idle"
  BY DEF Init, Idle
<1>3. retired = {} /\ row.pdf_file = None
  BY DEF Init
<1>. QED
  BY <1>1, <1>2, <1>3
  DEF DocumentInv, DocumentParts, RendersAreOwned, NamedFilesExist, IssuedDocumentIsFinal, Owns

\* The PDF that an issued invoice offers is in the storage, is not marked as a
\* draft and shows the copy frozen at approval, however many renders,
\* publications, rejections and deletions of files were under way when it was
\* approved, and whichever of them failed (save_invoice_pdf, approve_invoice).
THEOREM IssuedDocumentStaysFinal == Spec => []IssuedDocumentIsFinal
<1>1. DocumentInv => IssuedDocumentIsFinal
  BY DEF DocumentInv, DocumentParts
<1>. QED  BY <1>1, DocumentInit, DocumentStep, PTL DEF Spec
=============================================================================
