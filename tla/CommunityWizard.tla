--------------------------- MODULE CommunityWizard ---------------------------
(***************************************************************************)
(* The wizard in which an admin sets up a community (pages/ZevListPage.tsx): *)
(* the community, its owner, its metering points, a review, and one request  *)
(* that creates everything. The wizard can be closed, gone back in or opened *)
(* anew while that request is on its way.                                   *)
(*                                                                         *)
(* The rows of metering points are two lists: their contents in the form,   *)
(* and a key each for the screen. A row carries the key it was made with.   *)
(***************************************************************************)
EXTENDS Naturals, Sequences, SequencesExt, FiniteSets

CONSTANTS MeterIds,   \* what can be typed as a meter's id
          MaxRows,    \* bound: rows of the wizard
          MaxKeys     \* bound: keys made in one visit

VARIABLES open, step,    \* the dialog and its step; 5 shows the credentials
          ownerMode,     \* a new person or an existing account
          form,
          keys, seed,    \* the rows' keys, and the keys made so far
          submitted,     \* createSubmittedRef
          pending,       \* creations on their way: what the API will object to
          rendered       \* isPending as the last render saw it

wizardVars == <<open, step, ownerMode, form, keys, seed, submitted, pending, rendered>>

unset == "unset"
Texts == {unset, "valid", "malformed"}  \* typed as the API wants it, or only typed

Row(key) == [meter |-> unset, key |-> key]
defaultCreateForm(key) ==
    [named |-> unset, person |-> unset, account |-> FALSE, iban |-> unset,
     addressed |-> FALSE, points |-> <<Row(key)>>]

TypeOK ==
    /\ open \in BOOLEAN /\ step \in 1..5 /\ ownerMode \in {"new", "existing"}
    /\ form.named \in Texts /\ form.person \in Texts
    /\ form.iban \in {unset, "valid", "invalid"} /\ Len(form.points) \in 1..MaxRows
    /\ keys \in Seq(1..MaxKeys) /\ submitted \in BOOLEAN

-----------------------------------------------------------------------------
(* Each step is checked when it is left *)

getMeteringPointErrors(points) ==
    {e \in {"missing", "duplicate"} : \E i \in DOMAIN points :
        IF points[i].meter = unset THEN e = "missing"
        ELSE e = "duplicate" /\ \E j \in 1..i-1 : points[j].meter = points[i].meter}

ownerGiven == IF ownerMode = "existing" THEN form.account ELSE form.person # unset

validateWizardStep(at) ==
    CASE at = 1 -> form.named # unset
      [] at = 2 -> ownerGiven /\ (form.iban # unset => form.iban = "valid" /\ form.addressed)
      [] at = 3 -> form.points # <<>> /\ getMeteringPointErrors(form.points) = {}
      [] OTHER  -> TRUE

\* what is sent: the account only when it is the owner
payload == [form EXCEPT !.account = @ /\ ownerMode = "existing"]

\* what the API objects to, as far as the form decides it: "format" stands for
\* the checks of a single text (EmailField, max_length, the prefix's pattern),
\* and the person's are dropped with the person when an account is sent
objections(sent) ==
    LET meter(i) == sent.points[i].meter
        asked == DOMAIN sent.points
    IN {o \in {"format", "name", "owner", "iban", "address", "meter", "sameMeter"} :
           CASE o = "format"  -> \/ sent.named = "malformed"
                                 \/ ~sent.account /\ sent.person = "malformed"
             [] o = "name"    -> sent.named = unset
             [] o = "owner"   -> ~sent.account /\ sent.person = unset
             [] o = "iban"    -> sent.iban = "invalid"
             [] o = "address" -> sent.iban # unset /\ ~sent.addressed
             [] o = "meter"   -> \E i \in asked : meter(i) = unset
             [] o = "sameMeter" -> \E i, j \in asked : i # j /\ meter(i) = meter(j)}

-----------------------------------------------------------------------------
(* The dialog. What a click sees is the last render, and only a click that  *)
(* follows another at once comes before it.                                 *)

render == rendered' = (pending' # <<>>)

openCreateModal ==
    /\ ~open /\ seed < MaxKeys
    /\ form' = defaultCreateForm(seed + 1)
    /\ keys' = <<seed + 1>> /\ seed' = seed + 1
    /\ step' = 1 /\ open' = TRUE
    /\ UNCHANGED <<ownerMode, submitted, pending>> /\ render

\* after a success the form starts over, its row without a key
closeCreateModal ==
    /\ open /\ open' = FALSE /\ step' = 1 /\ ownerMode' = "new" /\ submitted' = FALSE
    /\ form' = IF step = 5 THEN defaultCreateForm(0) ELSE form
    /\ UNCHANGED <<keys, seed, pending>> /\ render

edit(at, typed) ==
    /\ open /\ step = at /\ form' = typed /\ form' # form
    /\ UNCHANGED <<open, step, ownerMode, keys, seed, submitted, pending>> /\ render

typeCommunity(named) == edit(1, [form EXCEPT !.named = named])
typeOwner(person, addressed) ==
    edit(2, [form EXCEPT !.addressed = addressed,
                         !.person = IF ownerMode = "new" THEN person ELSE @])
pickAccount(account) == ownerMode = "existing" /\ edit(2, [form EXCEPT !.account = account])
typeIban(iban) == edit(2, [form EXCEPT !.iban = iban])

setOwnerMode(chosen) ==
    /\ open /\ step = 2 /\ chosen # ownerMode /\ ownerMode' = chosen
    /\ UNCHANGED <<open, step, form, keys, seed, submitted, pending>> /\ render

goTo(next) ==
    /\ step' = next
    /\ UNCHANGED <<open, ownerMode, form, keys, seed, submitted, pending>> /\ render

goToNextStep     == open /\ step \in 1..3 /\ validateWizardStep(step) /\ goTo(step + 1)
goToPreviousStep == open /\ step \in 2..4 /\ goTo(step - 1)

-----------------------------------------------------------------------------
(* The rows *)

addMeteringPoint ==
    /\ open /\ step = 3 /\ Len(form.points) < MaxRows /\ seed < MaxKeys
    /\ form' = [form EXCEPT !.points = Append(@, Row(seed + 1))]
    /\ keys' = Append(keys, seed + 1) /\ seed' = seed + 1
    /\ UNCHANGED <<open, step, ownerMode, submitted, pending>> /\ render

\* the screen lists the keys, and finds each row by the place of its key
shownAt(i) == i \in DOMAIN keys /\ i \in DOMAIN form.points

updateMeteringPoint(i, meter) == shownAt(i) /\ edit(3, [form EXCEPT !.points[i].meter = meter])

removeMeteringPoint(i) ==
    /\ open /\ step = 3 /\ shownAt(i) /\ Len(form.points) > 1
    /\ form' = [form EXCEPT !.points = RemoveAt(@, i)]
    /\ keys' = RemoveAt(keys, i)
    /\ UNCHANGED <<open, step, ownerMode, seed, submitted, pending>> /\ render

-----------------------------------------------------------------------------
(* The request *)

\* mutant: only the button guards against a second click
handleCreateByButton ==
    /\ open /\ step = 4 /\ ~rendered
    /\ submitted' = TRUE /\ pending' = Append(pending, objections(payload))
    /\ UNCHANGED <<open, step, ownerMode, form, keys, seed, rendered>>

handleCreateZev ==
    /\ open /\ step = 4 /\ ~submitted /\ ~rendered
    /\ submitted' = TRUE /\ pending' = Append(pending, objections(payload))
    /\ UNCHANGED <<open, step, ownerMode, form, keys, seed, rendered>>

\* also while the wizard is closed, back at an earlier step or opened anew
createMutationSucceeds ==
    /\ pending # <<>> /\ Head(pending) = {}
    /\ pending' = Tail(pending) /\ step' = 5
    /\ UNCHANGED <<open, ownerMode, form, keys, seed, submitted>> /\ render

createMutationFails ==
    /\ pending # <<>> /\ pending' = Tail(pending)
    /\ UNCHANGED <<open, step, ownerMode, form, keys, seed, submitted>> /\ render

-----------------------------------------------------------------------------
Init ==
    /\ open = FALSE /\ step = 1 /\ ownerMode = "new"
    /\ form = defaultCreateForm(1) /\ keys = <<1>> /\ seed = 1
    /\ submitted = FALSE /\ pending = <<>> /\ rendered = FALSE

\* the page is left and visited again; an answer on its way no longer reaches it
revisit ==
    /\ open' = FALSE /\ step' = 1 /\ ownerMode' = "new"
    /\ form' = defaultCreateForm(1) /\ keys' = <<1>> /\ seed' = 1
    /\ submitted' = FALSE /\ pending' = <<>> /\ rendered' = FALSE

Next ==
    \/ revisit
    \/ openCreateModal \/ closeCreateModal \/ goToNextStep \/ goToPreviousStep
    \/ \E text \in Texts : typeCommunity(text)
    \/ \E b \in BOOLEAN : pickAccount(b)
    \/ \E text \in Texts, b \in BOOLEAN : typeOwner(text, b)
    \/ \E iban \in {unset, "valid", "invalid"} : typeIban(iban)
    \/ \E chosen \in {"new", "existing"} : setOwnerMode(chosen)
    \/ addMeteringPoint
    \/ \E i \in 1..MaxRows : removeMeteringPoint(i)
    \/ \E i \in 1..MaxRows, meter \in MeterIds \cup {unset} : updateMeteringPoint(i, meter)
    \/ handleCreateZev \/ createMutationSucceeds \/ createMutationFails

Spec == Init /\ [][Next]_wizardVars

-----------------------------------------------------------------------------
(* What is sent is complete: whatever was gone back to, switched between a  *)
(* new person and an account, or left over from an earlier opening, the API *)
(* misses nothing in a creation, finds no false IBAN and no meter twice.    *)
(* The steps are checked one by one, the request is built from all of them  *)
(* (validateWizardStep, handleCreateZev against                             *)
(* ZevCreateWithOwnerSerializer). The wizard looks at no text's format, so  *)
(* that alone is left for the API to refuse.                                *)
SentIsComplete == \A i \in DOMAIN pending : pending[i] \subseteq {"format"}

(* What is typed lands in its row: while the wizard is open, every row is   *)
(* found under its own key, in the same place, though contents and keys are *)
(* kept apart and only the contents start over when a finished wizard       *)
(* closes (openCreateModal, removeMeteringPoint).                           *)
KeysFollowRows ==
    open => keys = [i \in DOMAIN form.points |-> form.points[i].key]

(* A community is asked for once: one visit sends no creation while one is  *)
(* on its way, not by a second click before the button is disabled, nor by  *)
(* closing and opening the wizard meanwhile (createSubmittedRef and         *)
(* isPending, neither of which is enough alone).                            *)
AskedForOnce == Len(pending) <= 1
=============================================================================
