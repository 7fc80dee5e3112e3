---------------------------- MODULE SettingsDraft ---------------------------
(***************************************************************************)
(* The settings page of a community (pages/ZevSettingsPage.tsx): one draft  *)
(* over a cached list of communities that is re-read behind its back. Saves *)
(* go on after the user switched community or left the page, their answers  *)
(* come in any order, and somebody else edits the same community.           *)
(*                                                                         *)
(* A form is one value: Forms are what can be typed, Valid what             *)
(* validateZevForm lets through, Accepted what the API stores of it.        *)
(* log[z] is every version the API stored of community z; updated_at is the *)
(* position in it. A page is one mount of the component, with its own draft *)
(* and its own memory of accepted saves; a save keeps the page and the      *)
(* epoch of the draft it was submitted from. The account may write in the   *)
(* community: who may is App's question.                                    *)
(***************************************************************************)
EXTENDS Integers, Sequences, FiniteSets

CONSTANTS Zevs, Forms, Valid, Accepted,
          MaxWrites,  \* versions stored after the first ones
          MaxSaves,   \* saves on their way at once
          MaxEpochs,  \* drafts of the first page; one fewer for each later one
          MaxPages    \* mounts of the page

ASSUME FormsAssumption == Accepted # {} /\ Accepted \subseteq Valid /\ Valid \subseteq Forms
ASSUME ZevsAssumption == Zevs # {} /\ IsFiniteSet(Zevs) /\ {"none", "no", "leave"} \cap Zevs = {}
ASSUME DraftBounds == /\ MaxWrites \in Nat /\ MaxSaves \in Nat
                      /\ MaxEpochs \in Nat \ {0} /\ MaxPages \in Nat \ {0}

VARIABLES log,       \* what the API stored, per community, oldest first
          list,      \* the cached list of communities
          read,      \* the request that reads the list again
          selected,  \* the selected community
          page,      \* mounts so far
          open,      \* the page is mounted
          draft,     \* its draft, the error below it and the message on a field
          accepted,  \* the saves each page accepted, per community
          saves,     \* the saves on their way
          asking     \* the dialog: "no", "leave", or the community to switch to

vars == <<log, list, read, selected, page, open, draft, accepted, saves, asking>>

Version == [at : 1..(MaxWrites + 1), form : Accepted]
newest(z) == log[z][Len(log[z])]
canStore  == Cardinality({v \in Zevs \X (2..MaxWrites + 1) : v[2] <= Len(log[v[1]])}) < MaxWrites
noDraft == [zev |-> "none", epoch |-> 0, form |-> "", baseline |-> "",
            error |-> FALSE, rejected |-> {}]

TypeOK ==
    /\ \A z \in Zevs : log[z] \in Seq(Version) /\ list[z] \in Version
    /\ read.stage \in {"idle", "asked", "served"}
    /\ selected \in Zevs /\ page \in 1..MaxPages /\ open \in BOOLEAN
    /\ draft # noDraft => /\ draft.zev \in Zevs /\ draft.epoch \in 1..MaxEpochs
                          /\ draft.form \in Forms /\ draft.baseline \in Accepted
                          /\ draft.rejected \subseteq Forms
    /\ \A s \in saves : s.id \in Zevs /\ s.form \in Valid
                        /\ s.stage \in {"sent", "stored", "failed"}
    /\ asking \in Zevs \cup {"no", "leave"}

-----------------------------------------------------------------------------
(* What the page derives *)

draftIsSelected == open /\ draft.zev = selected
isZevFormDirty(form, baseline) == form # baseline
isDirty   == draftIsSelected /\ isZevFormDirty(draft.form, draft.baseline)
ofDraft(s) == open /\ s.page = page /\ s.id = selected /\ s.epoch = draft.epoch
isPending == \E s \in saves : ofDraft(s)
\* mutant: the form can be edited while it is saved
neverFrozen == FALSE
controlsReadOnly == isPending

(* The effect that keeps the draft in step with the list: another community *)
(* starts a new draft, a dirty draft is left alone, and a record that is    *)
(* not newer than a save this page accepted is not believed.                *)
\* mutant: every record of the list is believed
neverStale(memory, record) == FALSE
isStale(memory, record) ==
    \E a \in memory : record.at <= a.at /\ isZevFormDirty(record.form, a.form)

followList(d, records, zev, memory) ==
    LET target == IF isStale(memory, records[zev])
                  THEN (CHOOSE a \in memory : TRUE).form ELSE records[zev].form
    IN IF d.zev # zev
       THEN [zev |-> zev, epoch |-> d.epoch + 1, form |-> target, baseline |-> target,
             error |-> FALSE, rejected |-> {}]
       ELSE IF isZevFormDirty(d.form, d.baseline) THEN d
       ELSE [d EXCEPT !.form = target, !.baseline = target]

\* an error is shown only below an unsaved draft
clearError(d) ==
    IF d.error /\ d.form = d.baseline THEN [d EXCEPT !.error = FALSE, !.rejected = {}] ELSE d

\* every change the page renders runs its effects
rendered(d, records, zev, memory) ==
    IF open THEN clearError(followList(d, records, zev, memory[zev])) ELSE d

Idle  == [stage |-> "idle"]
Asked == [stage |-> "asked"]

-----------------------------------------------------------------------------
(* The user *)

atThePage == open /\ asking = "no"

updateForm(form) ==
    /\ atThePage /\ draftIsSelected /\ ~controlsReadOnly /\ form # draft.form
    /\ draft' = rendered([draft EXCEPT !.form = form, !.rejected = {}],
                         list, selected, accepted[page])
    /\ UNCHANGED <<log, list, read, selected, page, open, accepted, saves, asking>>

discard ==
    /\ atThePage /\ ~isPending
    /\ isDirty \/ draft.error
    /\ draft' = rendered([draft EXCEPT !.form = draft.baseline, !.error = FALSE, !.rejected = {}],
                         list, selected, accepted[page])
    /\ UNCHANGED <<log, list, read, selected, page, open, accepted, saves, asking>>

\* a form that is not valid is not sent: the first field at fault is shown
attemptSave ==
    /\ atThePage /\ draftIsSelected /\ ~controlsReadOnly /\ isDirty
    /\ IF draft.form \in Valid
       THEN /\ Cardinality(saves) < MaxSaves
            /\ saves' = saves \cup {[id |-> selected, page |-> page, epoch |-> draft.epoch,
                                     form |-> draft.form, stage |-> "sent", at |-> 0]}
            /\ UNCHANGED draft
       ELSE /\ draft' = [draft EXCEPT !.rejected = {draft.form}]
            /\ UNCHANGED saves
    /\ UNCHANGED <<log, list, read, selected, page, open, accepted, asking>>

setSelectedZevId(zev) ==
    /\ selected' = zev
    /\ draft' = rendered(draft, list, zev, accepted[page])
    /\ UNCHANGED <<log, list, read, page, open, accepted, saves>>

requestSwitch(zev) ==
    /\ asking = "no" /\ zev # selected /\ page + draft.epoch <= MaxEpochs
    /\ IF isDirty THEN asking' = zev /\ UNCHANGED <<log, list, read, selected, page, open,
                                                    draft, accepted, saves>>
       ELSE setSelectedZevId(zev) /\ UNCHANGED asking

goElsewhere ==
    /\ open' = FALSE /\ draft' = noDraft
    /\ UNCHANGED <<log, list, read, selected, page, accepted, saves>>

leave ==
    /\ atThePage
    /\ IF isDirty THEN asking' = "leave" /\ UNCHANGED <<log, list, read, selected, page, open,
                                                        draft, accepted, saves>>
       ELSE goElsewhere /\ UNCHANGED asking

answerDialog(discards) ==
    /\ asking # "no" /\ asking' = "no"
    /\ CASE ~discards -> UNCHANGED <<log, list, read, selected, page, open, draft, accepted,
                                     saves>>
         [] discards /\ asking = "leave" -> goElsewhere
         [] discards /\ asking \in Zevs -> setSelectedZevId(asking)

\* mounting the page reads the list again when it is not being read
Return ==
    /\ ~open /\ page < MaxPages
    /\ page' = page + 1 /\ open' = TRUE
    /\ read' = IF read = Idle THEN Asked ELSE read
    /\ draft' = followList(noDraft, list, selected, {})
    /\ UNCHANGED <<log, list, selected, accepted, saves, asking>>

-----------------------------------------------------------------------------
(* The API, and the answers it gives *)

store(zev, form) ==
    log' = [log EXCEPT ![zev] = Append(@, [at |-> Len(@) + 1, form |-> form])]

advance(s, stage, at) ==
    saves' = (saves \ {s}) \cup {[s EXCEPT !.stage = stage, !.at = at]}

updateZev(s) ==
    /\ s.stage = "sent"
    /\ IF s.form \in Accepted
       THEN canStore /\ store(s.id, s.form) /\ advance(s, "stored", Len(log[s.id]) + 1)
       ELSE advance(s, "failed", 0) /\ UNCHANGED log
    /\ UNCHANGED <<list, read, selected, page, open, draft, accepted, asking>>

\* the request, or the answer, is lost; the browser sees a failure
Lose(s) ==
    /\ s.stage \in {"sent", "stored"}
    /\ advance(s, "failed", s.at)
    /\ UNCHANGED <<log, list, read, selected, page, open, draft, accepted, asking>>

\* another manager saves a form
Elsewhere(zev, form) ==
    /\ canStore /\ form # newest(zev).form
    /\ store(zev, form)
    /\ UNCHANGED <<list, read, selected, page, open, draft, accepted, saves, asking>>

onSuccess(s) ==
    LET saved   == [at |-> s.at, form |-> s.form]
        isOlder == \E a \in accepted[s.page][s.id] : saved.at < a.at
        records == IF isOlder THEN list ELSE [list EXCEPT ![s.id] = saved]
        memories == IF isOlder THEN accepted ELSE [accepted EXCEPT ![s.page][s.id] = {saved}]
    IN /\ s.stage = "stored"
       /\ saves' = saves \ {s}
       /\ list' = records /\ accepted' = memories
       /\ read' = Asked                  \* what was being read is thrown away
       /\ draft' = rendered(IF isOlder \/ ~ofDraft(s) THEN draft
                            ELSE [draft EXCEPT !.form = s.form, !.baseline = s.form,
                                               !.error = FALSE, !.rejected = {}],
                            records, selected, memories[page])
       /\ UNCHANGED <<log, selected, page, open, asking>>

\* a refusal names the field at fault, a lost request does not
onError(s) ==
    /\ s.stage = "failed"
    /\ saves' = saves \ {s}
    /\ \E named \in BOOLEAN :
          /\ named => s.form \notin Accepted
          /\ draft' = rendered(IF ~ofDraft(s) THEN draft
                               ELSE [draft EXCEPT !.error = TRUE,
                                                  !.rejected = IF named THEN {s.form} ELSE @],
                               list, selected, accepted[page])
    /\ UNCHANGED <<log, list, read, selected, page, open, accepted, asking>>

-----------------------------------------------------------------------------
(* The list is read again when a save asks for it, and when the window is   *)
(* focused.                                                                 *)

refetchOnFocus ==
    /\ read = Idle /\ read' = Asked
    /\ UNCHANGED <<log, list, selected, page, open, draft, accepted, saves, asking>>

fetchZevs ==
    /\ read = Asked
    /\ read' = [stage |-> "served", data |-> [z \in Zevs |-> newest(z)]]
    /\ UNCHANGED <<log, list, selected, page, open, draft, accepted, saves, asking>>

listArrives ==
    /\ read.stage = "served"
    /\ list' = read.data /\ read' = Idle
    /\ draft' = rendered(draft, read.data, selected, accepted[page])
    /\ UNCHANGED <<log, selected, page, open, accepted, saves, asking>>

readFails ==
    /\ read # Idle /\ read' = Idle
    /\ UNCHANGED <<log, list, selected, page, open, draft, accepted, saves, asking>>

-----------------------------------------------------------------------------
first == [at |-> 1, form |-> CHOOSE f \in Accepted : TRUE]

Init ==
    /\ log = [z \in Zevs |-> <<first>>]
    /\ list = [z \in Zevs |-> first] /\ read = Idle
    /\ selected = (CHOOSE z \in Zevs : TRUE) /\ page = 1 /\ open = TRUE
    /\ draft = [zev |-> selected, epoch |-> 1, form |-> first.form, baseline |-> first.form,
                error |-> FALSE, rejected |-> {}]
    /\ accepted = [p \in 1..MaxPages |-> [z \in Zevs |-> {}]]
    /\ saves = {} /\ asking = "no"

theUser ==
    \/ \E f \in Forms : updateForm(f)
    \/ discard \/ attemptSave \/ leave \/ Return
    \/ \E z \in Zevs : requestSwitch(z)
    \/ \E b \in BOOLEAN : answerDialog(b)
answers == \E s \in saves : onSuccess(s) \/ onError(s)
theApi  == \E s \in saves : updateZev(s) \/ Lose(s)

Next ==
    \/ theUser \/ theApi \/ answers
    \/ \E z \in Zevs, f \in Accepted : Elsewhere(z, f)
    \/ refetchOnFocus \/ fetchZevs \/ listArrives \/ readFails

Spec == Init /\ [][Next]_vars

-----------------------------------------------------------------------------
\* the steps of the API and of the cache
behindTheUsersBack ==
    log' # log \/ list' # list \/ read' # read \/ ~(saves \subseteq saves')

(* What is typed and not saved stays: while a draft is dirty, only the user *)
(* changes it. Neither a read of the list, nor the answer to a save of      *)
(* another community, another draft of the same one or an earlier mount of  *)
(* the page touches it, and its own save returns what was typed because the *)
(* form is frozen meanwhile (ZevSettingsPage.tsx 159-183, 206-233, 255-258).*)
EditsAreKept ==
    [][isDirty /\ behindTheUsersBack =>
          draft'.form = draft.form /\ draft'.epoch = draft.epoch]_vars

(* A saved form is not taken back: once the page accepted a save, a clean   *)
(* draft shows that version or a later one, whatever order lists and other  *)
(* answers arrive in (the guard isStale, and isOlder of onSuccess).         *)
NothingIsReverted ==
    draftIsSelected /\ ~isDirty =>
        \A a \in accepted[page][selected] :
            \E i \in a.at..Len(log[selected]) : log[selected][i].form = draft.baseline

(* A message on a field is about the value in it: messages of another       *)
(* draft, another community or a form since edited are gone.                *)
MessagesAreCurrent == open => draft.rejected \subseteq {draft.form}

(* A clean draft shows what was saved last, and a field only what is said of *)
(* its value, whatever order lists, answers and switches come in.           *)
CleanDraftIsCurrent == TypeOK /\ NothingIsReverted /\ MessagesAreCurrent
=============================================================================
