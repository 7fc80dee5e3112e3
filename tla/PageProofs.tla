------------------------------ MODULE PageProofs ------------------------------
(***************************************************************************)
(* Theorems about PageStates, for any files, communities, meters, rows and *)
(* requests on their way: each page's invariant is kept by the operations  *)
(* of that page, and the other pages leave its state alone.                *)
(***************************************************************************)
EXTENDS PageStates, FiniteSetTheorems, SequenceTheorems, WellFoundedInduction, TLAPS

-----------------------------------------------------------------------------
(* Lists *)

\* A list without the entry at i.
LEMMA RemoveAtFacts ==
    ASSUME NEW S, NEW s \in Seq(S), NEW i \in 1..Len(s)
    PROVE  /\ RemoveAt(s, i) \in Seq(S) /\ Len(RemoveAt(s, i)) = Len(s) - 1
           /\ DOMAIN RemoveAt(s, i) = 1..(Len(s) - 1)
           /\ \A k \in 1..(Len(s) - 1) : RemoveAt(s, i)[k] = IF k < i THEN s[k] ELSE s[k + 1]
<1>. DEFINE a == SubSeq(s, 1, i - 1)
            b == SubSeq(s, i + 1, Len(s))
<1>1. Len(s) \in Nat /\ DOMAIN s = 1..Len(s) /\ i \in Nat /\ i <= Len(s) /\ 1 <= i
      /\ \A k \in 1..Len(s) : s[k] \in S
  BY LenProperties, ElementOfSeq
<1>2. a \in Seq(S) /\ Len(a) = i - 1 /\ \A k \in 1..(i - 1) : a[k] = s[k]
  <2>1. \A k \in 1..(i - 1) : s[k] \in S
    BY <1>1
  <2>2. /\ SubSeq(s, 1, i - 1) \in Seq(S)
        /\ Len(SubSeq(s, 1, i - 1)) = IF 1 <= i - 1 THEN (i - 1) - 1 + 1 ELSE 0
        /\ \A k \in 1..((i - 1) - 1 + 1) : SubSeq(s, 1, i - 1)[k] = s[1 + k - 1]
    BY <1>1, <2>1, SubSeqProperties
  <2>. QED  BY <1>1, <2>2
<1>3. b \in Seq(S) /\ Len(b) = Len(s) - i /\ \A k \in 1..(Len(s) - i) : b[k] = s[i + k]
  <2>1. \A k \in (i + 1)..Len(s) : s[k] \in S
    BY <1>1
  <2>2. /\ b \in Seq(S)
        /\ Len(b) = IF i + 1 <= Len(s) THEN Len(s) - (i + 1) + 1 ELSE 0
        /\ \A k \in 1..(Len(s) - (i + 1) + 1) : b[k] = s[(i + 1) + k - 1]
    BY <1>1, <2>1, SubSeqProperties
  <2>. HIDE DEF b
  <2>3. Len(s) - (i + 1) + 1 = Len(s) - i /\ \A k \in 1..(Len(s) - i) : (i + 1) + k - 1 = i + k
    BY <1>1
  <2>4. Len(b) = Len(s) - i
    <3>1. CASE i + 1 <= Len(s)
      BY <1>1, <2>2, <3>1
    <3>2. CASE ~(i + 1 <= Len(s))
      <4>1. Len(b) = 0
        BY <2>2, <3>2
      <4>2. Len(s) = i
        <5>. DEFINE n == Len(s)
        <5>1. n \in Nat /\ i \in Nat /\ i <= n /\ ~(i + 1 <= n)
          BY <1>1, <3>2
        <5>. HIDE DEF n
        <5>2. n = i
          BY <5>1
        <5>. QED  BY <5>2 DEF n
      <4>. QED  BY <1>1, <4>1, <4>2
    <3>. QED  BY <3>1, <3>2
  <2>5. ASSUME NEW k \in 1..(Len(s) - i) PROVE b[k] = s[i + k]
    BY <1>1, <2>2, <2>3
  <2>. QED  BY <2>2, <2>4, <2>5
<1>. HIDE DEF a, b
<1>4. /\ a \o b \in Seq(S) /\ Len(a \o b) = Len(s) - 1
      /\ \A k \in 1..(Len(s) - 1) : (a \o b)[k] = IF k <= i - 1 THEN a[k] ELSE b[k - (i - 1)]
  <2>1. /\ a \o b \in Seq(S) /\ Len(a \o b) = Len(a) + Len(b)
        /\ \A k \in 1..Len(a) + Len(b) : (a \o b)[k] = IF k <= Len(a) THEN a[k] ELSE b[k - Len(a)]
    BY <1>2, <1>3, ConcatProperties
  <2>2. Len(a) + Len(b) = Len(s) - 1
    BY <1>1, <1>2, <1>3
  <2>. QED  BY <1>2, <2>1, <2>2
<1>5. \A k \in 1..(Len(s) - 1) : (a \o b)[k] = IF k < i THEN s[k] ELSE s[k + 1]
  BY <1>1, <1>2, <1>3, <1>4
<1>6. RemoveAt(s, i) = a \o b
  BY DEF RemoveAt, a, b
<1>7. DOMAIN (a \o b) = 1..(Len(s) - 1)
  BY <1>4, LenProperties
<1>. QED  BY <1>4, <1>5, <1>6, <1>7

-----------------------------------------------------------------------------
(* The wizard that sets up a community *)

WizardRow == [meter : MeterIds \cup {"unset"}, key : 0..MaxKeys]
WizardForm ==
    [named : Create!Texts, person : Create!Texts, account : BOOLEAN, iban : {"unset", "valid", "invalid"},
     addressed : BOOLEAN, points : Seq(WizardRow)]

CreateTyped ==
    /\ open \in BOOLEAN /\ step \in 1..5 /\ ownerMode \in {"new", "existing"}
    /\ form \in WizardForm /\ Len(form.points) \in 1..MaxRows
    /\ keys \in Seq(1..MaxKeys) /\ seed \in 1..MaxKeys
    /\ submitted \in BOOLEAN /\ rendered \in BOOLEAN

\* the steps behind the one shown were checked, and nothing changed them since
StepsChecked ==
    /\ step \in 2..4 => Create!validateWizardStep(1)
    /\ step \in 3..4 => Create!validateWizardStep(2)
    /\ step = 4 => Create!validateWizardStep(3)

\* at most one creation is on its way, one the API can only object to for the
\* format of a text, and then one of the two guards is up
OneAtATime ==
    /\ pending \in {<<>>, <<{}>>, <<{"format"}>>}
    /\ pending # <<>> => submitted \/ rendered

CreateInv == CreateTyped /\ Create!KeysFollowRows /\ StepsChecked /\ OneAtATime

\* The form that a wizard starts with.
LEMMA DefaultForm ==
    ASSUME NEW k \in 0..MaxKeys
    PROVE  LET f == Create!defaultCreateForm(k)
           IN f \in WizardForm /\ Len(f.points) = 1 /\ f.points = <<[meter |-> "unset", key |-> k]>>
<1>1. [meter |-> "unset", key |-> k] \in WizardRow
  BY DEF WizardRow
<1>2. <<[meter |-> "unset", key |-> k]>> \in Seq(WizardRow) /\ Len(<<[meter |-> "unset", key |-> k]>>) = 1
  BY <1>1
<1>. QED  BY <1>2 DEF Create!defaultCreateForm, Create!Row, Create!unset, Create!Texts, WizardForm

LEMMA CreateStarts == Create!Init => CreateInv
<1>. SUFFICES ASSUME Create!Init PROVE CreateInv
  OBVIOUS
<1>1. MaxKeys \in Nat \ {0} /\ MaxRows \in Nat \ {0}
  BY PagesAssumption
<1>2. form \in WizardForm /\ Len(form.points) = 1 /\ form.points = <<[meter |-> "unset", key |-> 1]>>
  BY <1>1, DefaultForm DEF Create!Init
<1>3. keys \in Seq(1..MaxKeys)
  BY <1>1 DEF Create!Init
<1>4. CreateTyped
  <2>1. /\ open = FALSE /\ step = 1 /\ ownerMode = "new" /\ seed = 1
        /\ submitted = FALSE /\ rendered = FALSE
    BY DEF Create!Init
  <2>2. step \in 1..5 /\ Len(form.points) \in 1..MaxRows /\ seed \in 1..MaxKeys
    BY <1>1, <1>2, <2>1
  <2>. QED  BY <1>2, <1>3, <2>1, <2>2 DEF CreateTyped
<1>5. Create!KeysFollowRows
  BY DEF Create!Init, Create!KeysFollowRows
<1>. QED  BY <1>4, <1>5 DEF CreateInv, Create!Init, Create!KeysFollowRows, StepsChecked, OneAtATime

\* The wizard is opened, closed, left: it starts over at the first step.
LEMMA CreateOpens ==
    ASSUME CreateInv, Create!openCreateModal \/ Create!closeCreateModal \/ Create!revisit
    PROVE  CreateInv'
<1>. USE DEF Create!render
<1>1. MaxKeys \in Nat \ {0} /\ MaxRows \in Nat \ {0}
  BY PagesAssumption
<1>2. CASE Create!openCreateModal
  <2>. DEFINE k == seed + 1
  <2>1. /\ open' = TRUE /\ step' = 1 /\ ownerMode' = ownerMode /\ seed' = k /\ keys' = <<k>>
        /\ form' = Create!defaultCreateForm(k) /\ submitted' = submitted /\ pending' = pending
        /\ rendered' = (pending # <<>>) /\ k \in 1..MaxKeys
    BY <1>1, <1>2 DEF Create!openCreateModal, CreateInv, CreateTyped
  <2>. HIDE DEF k
  <2>2. /\ form' \in WizardForm /\ Len(form'.points) = 1
        /\ form'.points = <<[meter |-> "unset", key |-> k]>>
    BY <1>1, <2>1, DefaultForm
  <2>3. keys' \in Seq(1..MaxKeys)
    BY <2>1
  <2>4. step' \in 1..5 /\ Len(form'.points) \in 1..MaxRows /\ seed' \in 1..MaxKeys
    BY <1>1, <2>1, <2>2
  <2>5. CreateTyped'
    BY <2>1, <2>2, <2>3, <2>4 DEF CreateInv, CreateTyped
  <2>6. Create!KeysFollowRows'
    BY <2>1, <2>2 DEF Create!KeysFollowRows
  <2>7. StepsChecked'
    BY <2>1 DEF StepsChecked
  <2>8. OneAtATime'
    BY <2>1 DEF CreateInv, OneAtATime
  <2>. QED  BY <2>5, <2>6, <2>7, <2>8 DEF CreateInv
<1>3. CASE Create!closeCreateModal
  <2>1. /\ open' = FALSE /\ step' = 1 /\ ownerMode' = "new" /\ submitted' = FALSE
        /\ form' \in {form, Create!defaultCreateForm(0)}
        /\ seed' = seed /\ keys' = keys /\ pending' = pending /\ rendered' = (pending # <<>>)
    BY <1>3 DEF Create!closeCreateModal
  <2>2. form' \in WizardForm /\ Len(form'.points) \in 1..MaxRows
    <3>1. CASE form' = form
      BY <3>1 DEF CreateInv, CreateTyped
    <3>2. CASE form' = Create!defaultCreateForm(0)
      <4>1. 0 \in 0..MaxKeys
        BY <1>1
      <4>2. form' \in WizardForm /\ Len(form'.points) = 1
        BY <3>2, <4>1, DefaultForm
      <4>. QED  BY <1>1, <4>2
    <3>. QED  BY <2>1, <3>1, <3>2
  <2>3. CreateTyped'
    <3>1. step' \in 1..5
      BY <2>1
    <3>. QED  BY <2>1, <2>2, <3>1 DEF CreateInv, CreateTyped
  <2>4. StepsChecked' /\ Create!KeysFollowRows'
    BY <2>1 DEF StepsChecked, Create!KeysFollowRows
  <2>5. OneAtATime'
    BY <2>1 DEF CreateInv, OneAtATime
  <2>. QED  BY <2>3, <2>4, <2>5 DEF CreateInv
<1>4. CASE Create!revisit
  <2>1. /\ open' = FALSE /\ step' = 1 /\ ownerMode' = "new" /\ submitted' = FALSE /\ rendered' = FALSE
        /\ form' = Create!defaultCreateForm(1) /\ seed' = 1 /\ keys' = <<1>> /\ pending' = <<>>
    BY <1>4 DEF Create!revisit
  <2>2. form' \in WizardForm /\ Len(form'.points) = 1
    <3>1. 1 \in 0..MaxKeys
      BY <1>1
    <3>. QED  BY <2>1, <3>1, DefaultForm
  <2>3. keys' \in Seq(1..MaxKeys)
    BY <1>1, <2>1
  <2>4. Len(form'.points) \in 1..MaxRows /\ seed' \in 1..MaxKeys /\ step' \in 1..5
    <3>1. Len(form'.points) \in 1..MaxRows
      BY <1>1, <2>2
    <3>2. seed' \in 1..MaxKeys /\ step' \in 1..5
      BY <1>1, <2>1
    <3>. QED  BY <3>1, <3>2
  <2>5. CreateTyped'
    BY <2>1, <2>2, <2>3, <2>4 DEF CreateTyped
  <2>. QED  BY <2>1, <2>5 DEF CreateInv, StepsChecked, OneAtATime, Create!KeysFollowRows
<1>. QED  BY <1>2, <1>3, <1>4

\* A field is typed in at its own step, so the steps behind stay checked.
LEMMA CreateEdits ==
    ASSUME CreateInv, NEW at \in 1..3, NEW typed \in WizardForm, Create!edit(at, typed),
           typed.points = form.points \/ (at = 3 /\ Len(typed.points) = Len(form.points)
              /\ \A i \in DOMAIN form.points : typed.points[i].key = form.points[i].key),
           at > 1 => typed.named = form.named,
           at > 2 => /\ typed.person = form.person /\ typed.account = form.account
                     /\ typed.iban = form.iban /\ typed.addressed = form.addressed
    PROVE  CreateInv'
<1>1. /\ open' = open /\ step' = step /\ step = at /\ ownerMode' = ownerMode /\ submitted' = submitted
      /\ seed' = seed /\ keys' = keys /\ pending' = pending /\ rendered' = (pending # <<>>)
      /\ form' = typed
  BY DEF Create!edit, Create!render
<1>2. CreateTyped'
  BY <1>1 DEF CreateInv, CreateTyped
<1>3. Create!KeysFollowRows'
  <2>1. form.points \in Seq(WizardRow) /\ typed.points \in Seq(WizardRow)
    BY DEF CreateInv, CreateTyped, WizardForm
  <2>2. DOMAIN typed.points = DOMAIN form.points
        /\ \A i \in DOMAIN form.points : typed.points[i].key = form.points[i].key
    BY <2>1
  <2>. QED  BY <1>1, <2>2 DEF CreateInv, Create!KeysFollowRows
<1>4. StepsChecked'
  <2>1. CASE at = 1
    BY <1>1, <2>1 DEF StepsChecked
  <2>2. CASE at = 2
    BY <1>1, <2>2 DEF CreateInv, StepsChecked, Create!validateWizardStep
  <2>3. CASE at = 3
    BY <1>1, <2>3 DEF CreateInv, StepsChecked, Create!validateWizardStep, Create!ownerGiven, Create!unset
  <2>. QED  BY <2>1, <2>2, <2>3
<1>5. OneAtATime'
  BY <1>1 DEF CreateInv, OneAtATime
<1>. QED  BY <1>2, <1>3, <1>4, <1>5 DEF CreateInv

\* A value typed into the form is a form.
LEMMA CreateTypes ==
    ASSUME CreateInv, NEW text \in Create!Texts, NEW b \in BOOLEAN,
           NEW iban \in {"unset", "valid", "invalid"}, NEW chosen \in {"new", "existing"},
           \/ Create!typeCommunity(text) \/ Create!pickAccount(b) \/ Create!typeOwner(text, b)
           \/ Create!typeIban(iban) \/ Create!setOwnerMode(chosen)
    PROVE  CreateInv'
<1>1. form \in WizardForm
  BY DEF CreateInv, CreateTyped
<1>2. CASE Create!typeCommunity(text)
  <2>. DEFINE typed == [form EXCEPT !.named = text]
  <2>1. typed \in WizardForm /\ typed.points = form.points
    BY <1>1 DEF WizardForm
  <2>2. Create!edit(1, typed)
    BY <1>2 DEF Create!typeCommunity
  <2>. HIDE DEF typed
  <2>. QED  BY <2>1, <2>2, CreateEdits
<1>3. CASE Create!pickAccount(b)
  <2>. DEFINE typed == [form EXCEPT !.account = b]
  <2>1. typed \in WizardForm /\ typed.points = form.points /\ typed.named = form.named
    BY <1>1 DEF WizardForm
  <2>2. Create!edit(2, typed)
    BY <1>3 DEF Create!pickAccount
  <2>. HIDE DEF typed
  <2>. QED  BY <2>1, <2>2, CreateEdits
<1>4. CASE Create!typeOwner(text, b)
  <2>. DEFINE typed == [form EXCEPT !.addressed = b, !.person = IF ownerMode = "new" THEN text ELSE @]
  <2>1. typed \in WizardForm /\ typed.points = form.points /\ typed.named = form.named
    BY <1>1 DEF WizardForm
  <2>2. Create!edit(2, typed)
    BY <1>4 DEF Create!typeOwner
  <2>. HIDE DEF typed
  <2>. QED  BY <2>1, <2>2, CreateEdits
<1>5. CASE Create!typeIban(iban)
  <2>. DEFINE typed == [form EXCEPT !.iban = iban]
  <2>1. typed \in WizardForm /\ typed.points = form.points /\ typed.named = form.named
    BY <1>1 DEF WizardForm
  <2>2. Create!edit(2, typed)
    BY <1>5 DEF Create!typeIban
  <2>. HIDE DEF typed
  <2>. QED  BY <2>1, <2>2, CreateEdits
<1>6. CASE Create!setOwnerMode(chosen)
  <2>1. /\ open' = open /\ step' = step /\ step = 2 /\ ownerMode' = chosen /\ submitted' = submitted
        /\ seed' = seed /\ keys' = keys /\ pending' = pending /\ rendered' = (pending # <<>>)
        /\ form' = form
    BY <1>6 DEF Create!setOwnerMode, Create!render
  <2>2. CreateTyped' /\ Create!KeysFollowRows'
    BY <2>1 DEF CreateInv, CreateTyped, Create!KeysFollowRows
  <2>3. StepsChecked'
    BY <2>1 DEF CreateInv, StepsChecked, Create!validateWizardStep
  <2>4. OneAtATime'
    BY <2>1 DEF CreateInv, OneAtATime
  <2>. QED  BY <2>2, <2>3, <2>4 DEF CreateInv
<1>. QED  BY <1>2, <1>3, <1>4, <1>5, <1>6

\* A step is left forward only when it is complete.
LEMMA CreateMoves ==
    ASSUME CreateInv, Create!goToNextStep \/ Create!goToPreviousStep
    PROVE  CreateInv'
<1>1. /\ open' = open /\ ownerMode' = ownerMode /\ submitted' = submitted
      /\ seed' = seed /\ keys' = keys /\ pending' = pending /\ rendered' = (pending # <<>>)
      /\ form' = form
  BY DEF Create!goToNextStep, Create!goToPreviousStep, Create!goTo, Create!render
<1>2. \/ step \in 1..3 /\ step' = step + 1 /\ Create!validateWizardStep(step)
      \/ step \in 2..4 /\ step' = step - 1
  BY DEF Create!goToNextStep, Create!goToPreviousStep, Create!goTo
<1>3. step \in 1..5 /\ step' \in 1..5
  BY <1>2 DEF CreateInv, CreateTyped
<1>4. CreateTyped' /\ Create!KeysFollowRows'
  BY <1>1, <1>3 DEF CreateInv, CreateTyped, Create!KeysFollowRows
<1>5. \A n \in 1..3 : Create!validateWizardStep(n)' = Create!validateWizardStep(n)
  BY <1>1 DEF Create!validateWizardStep, Create!ownerGiven
<1>6. StepsChecked'
  <2>1. \A n \in 1..3 : n < step' /\ step' # 5 => Create!validateWizardStep(n)
    BY <1>2, <1>3 DEF CreateInv, StepsChecked
  <2>2. \A n \in 1..3 : n < step' /\ step' # 5 => Create!validateWizardStep(n)'
    BY <1>5, <2>1
  <2>. QED  BY <1>3, <2>2 DEF StepsChecked
<1>7. OneAtATime'
  BY <1>1 DEF CreateInv, OneAtATime
<1>. QED  BY <1>4, <1>6, <1>7 DEF CreateInv

\* A row is added with its key, at the end of both lists.
LEMMA CreateAdds ==
    ASSUME CreateInv, Create!addMeteringPoint
    PROVE  CreateInv'
<1>. DEFINE k == seed + 1
            r == [meter |-> "unset", key |-> k]
            old == form.points
<1>1. /\ open /\ open' = open /\ step' = step /\ step = 3 /\ ownerMode' = ownerMode
      /\ submitted' = submitted /\ pending' = pending /\ rendered' = (pending # <<>>)
      /\ seed' = k /\ keys' = Append(keys, k) /\ form' = [form EXCEPT !.points = Append(old, r)]
      /\ Len(old) < MaxRows /\ seed < MaxKeys
  BY DEF Create!addMeteringPoint, Create!render, Create!Row, Create!unset
<1>2. MaxKeys \in Nat \ {0} /\ MaxRows \in Nat \ {0}
  BY PagesAssumption
<1>3. /\ form \in WizardForm /\ old \in Seq(WizardRow) /\ Len(old) \in 1..MaxRows
      /\ keys \in Seq(1..MaxKeys) /\ seed \in 1..MaxKeys
  BY DEF CreateInv, CreateTyped, WizardForm
<1>4. k \in 1..MaxKeys
  BY <1>1, <1>2, <1>3
<1>5. r \in WizardRow /\ r.key = k
  BY <1>4 DEF WizardRow
<1>. HIDE DEF k, r, old
<1>6. /\ Append(old, r) \in Seq(WizardRow) /\ Len(Append(old, r)) = Len(old) + 1
      /\ DOMAIN Append(old, r) = 1..(Len(old) + 1)
      /\ \A i \in 1..Len(old) : Append(old, r)[i] = old[i]
      /\ Append(old, r)[Len(old) + 1] = r
  BY <1>3, <1>5, AppendProperties, LenProperties
<1>7. /\ form' \in WizardForm /\ form'.points = Append(old, r) /\ form'.named = form.named
      /\ form'.person = form.person /\ form'.account = form.account
      /\ form'.iban = form.iban /\ form'.addressed = form.addressed
  BY <1>1, <1>3, <1>6 DEF WizardForm
<1>8. CreateTyped'
  <2>1. Append(keys, k) \in Seq(1..MaxKeys)
    BY <1>3, <1>4, AppendProperties
  <2>2. Len(form'.points) \in 1..MaxRows
    BY <1>1, <1>2, <1>3, <1>6, <1>7
  <2>. QED  BY <1>1, <1>4, <1>7, <2>1, <2>2 DEF CreateInv, CreateTyped
<1>9. Create!KeysFollowRows'
  <2>1. keys = [i \in DOMAIN old |-> old[i].key] /\ DOMAIN old = 1..Len(old)
    BY <1>1, <1>3, LenProperties DEF CreateInv, Create!KeysFollowRows, old
  <2>2. Len(keys) = Len(old)
    BY <1>3, <2>1
  <2>3. /\ Append(keys, k) \in Seq(1..MaxKeys) /\ Len(Append(keys, k)) = Len(old) + 1
        /\ DOMAIN Append(keys, k) = 1..(Len(old) + 1)
        /\ \A i \in 1..Len(old) : Append(keys, k)[i] = keys[i]
        /\ Append(keys, k)[Len(old) + 1] = k
    BY <1>3, <1>4, <2>2, AppendProperties, LenProperties
  <2>4. \A i \in 1..(Len(old) + 1) : Append(keys, k)[i] = Append(old, r)[i].key
    BY <1>3, <1>5, <1>6, <2>1, <2>3
  <2>5. Append(keys, k) = [i \in DOMAIN Append(old, r) |-> Append(old, r)[i].key]
    <3>1. Append(keys, k) \in [1..(Len(old) + 1) -> 1..MaxKeys]
      BY <2>3, LenProperties
    <3>2. Append(keys, k) = [i \in 1..(Len(old) + 1) |-> Append(keys, k)[i]]
      BY <3>1
    <3>. QED  BY <1>6, <2>4, <3>2
  <2>. QED  BY <1>1, <1>7, <2>5 DEF Create!KeysFollowRows
<1>10. StepsChecked'
  BY <1>1, <1>7 DEF CreateInv, StepsChecked, Create!validateWizardStep, Create!ownerGiven, Create!unset
<1>11. OneAtATime'
  BY <1>1 DEF CreateInv, OneAtATime
<1>. QED  BY <1>8, <1>9, <1>10, <1>11 DEF CreateInv

\* A row is removed with its key, at the same place of both lists.
LEMMA CreateRemoves ==
    ASSUME CreateInv, NEW at \in 1..MaxRows, Create!removeMeteringPoint(at)
    PROVE  CreateInv'
<1>. DEFINE old == form.points
            n == Len(old)
<1>1. /\ open /\ open' = open /\ step' = step /\ step = 3 /\ ownerMode' = ownerMode
      /\ submitted' = submitted /\ pending' = pending /\ rendered' = (pending # <<>>)
      /\ seed' = seed /\ keys' = RemoveAt(keys, at) /\ form' = [form EXCEPT !.points = RemoveAt(old, at)]
      /\ at \in DOMAIN old /\ n > 1
  BY DEF Create!removeMeteringPoint, Create!render, Create!shownAt, Create!RemoveAt, RemoveAt
<1>2. MaxKeys \in Nat \ {0} /\ MaxRows \in Nat \ {0}
  BY PagesAssumption
<1>3. /\ form \in WizardForm /\ old \in Seq(WizardRow) /\ n \in 1..MaxRows
      /\ keys \in Seq(1..MaxKeys)
  BY DEF CreateInv, CreateTyped, WizardForm
<1>4. DOMAIN old = 1..n /\ keys = [i \in 1..n |-> old[i].key]
  BY <1>1, <1>3, LenProperties DEF CreateInv, Create!KeysFollowRows
<1>5. /\ RemoveAt(old, at) \in Seq(WizardRow) /\ Len(RemoveAt(old, at)) = n - 1
      /\ DOMAIN RemoveAt(old, at) = 1..(n - 1)
      /\ \A i \in 1..(n - 1) : RemoveAt(old, at)[i] = IF i < at THEN old[i] ELSE old[i + 1]
  BY <1>1, <1>3, <1>4, RemoveAtFacts
<1>. HIDE DEF old
<1>6. Len(keys) = n
  BY <1>3, <1>4, LenProperties
<1>7. /\ RemoveAt(keys, at) \in Seq(1..MaxKeys)
      /\ DOMAIN RemoveAt(keys, at) = 1..(n - 1)
      /\ \A i \in 1..(n - 1) : RemoveAt(keys, at)[i] = IF i < at THEN keys[i] ELSE keys[i + 1]
  <2>. HIDE DEF n
  <2>1. at \in 1..Len(keys)
    BY <1>1, <1>4, <1>6
  <2>2. /\ RemoveAt(keys, at) \in Seq(1..MaxKeys)
        /\ DOMAIN RemoveAt(keys, at) = 1..(Len(keys) - 1)
        /\ \A i \in 1..(Len(keys) - 1) : RemoveAt(keys, at)[i] = IF i < at THEN keys[i] ELSE keys[i + 1]
    BY <1>3, <2>1, RemoveAtFacts
  <2>. QED  BY <1>6, <2>2
<1>. HIDE DEF n
<1>8. /\ form' \in WizardForm /\ form'.points = RemoveAt(old, at) /\ form'.named = form.named
      /\ form'.person = form.person /\ form'.account = form.account
      /\ form'.iban = form.iban /\ form'.addressed = form.addressed
  BY <1>1, <1>3, <1>5 DEF WizardForm
<1>9. CreateTyped'
  <2>1. Len(form'.points) \in 1..MaxRows
    BY <1>1, <1>2, <1>3, <1>5, <1>8
  <2>. QED  BY <1>1, <1>7, <1>8, <2>1 DEF CreateInv, CreateTyped
<1>10. Create!KeysFollowRows'
  <2>1. \A i \in 1..(n - 1) : i \in 1..n /\ i + 1 \in 1..n
    BY <1>3
  <2>2. \A i \in 1..(n - 1) : RemoveAt(keys, at)[i] = RemoveAt(old, at)[i].key
    BY <1>4, <1>5, <1>7, <2>1
  <2>3. RemoveAt(keys, at) = [i \in 1..(n - 1) |-> RemoveAt(keys, at)[i]]
    <3>1. RemoveAt(keys, at) \in [1..(n - 1) -> 1..MaxKeys]
      BY <1>7, LenProperties
    <3>. QED  BY <3>1
  <2>4. RemoveAt(keys, at) = [i \in 1..(n - 1) |-> RemoveAt(old, at)[i].key]
    BY <2>2, <2>3
  <2>. QED  BY <1>1, <1>5, <1>8, <2>4 DEF Create!KeysFollowRows
<1>11. StepsChecked'
  BY <1>1, <1>8 DEF CreateInv, StepsChecked, Create!validateWizardStep, Create!ownerGiven, Create!unset
<1>12. OneAtATime'
  BY <1>1 DEF CreateInv, OneAtATime
<1>. QED  BY <1>9, <1>10, <1>11, <1>12 DEF CreateInv

\* A meter typed into a row keeps the row's key.
LEMMA CreateUpdates ==
    ASSUME CreateInv, NEW at \in 1..MaxRows, NEW meter \in MeterIds \cup {"unset"},
           Create!updateMeteringPoint(at, meter)
    PROVE  CreateInv'
<1>. DEFINE old == form.points
            new == [old EXCEPT ![at].meter = meter]
            typed == [form EXCEPT !.points[at].meter = meter]
<1>1. form \in WizardForm /\ old \in Seq(WizardRow) /\ at \in DOMAIN old /\ DOMAIN old = 1..Len(old)
  BY LenProperties DEF CreateInv, CreateTyped, WizardForm, Create!updateMeteringPoint, Create!shownAt
<1>2. typed = [form EXCEPT !.points = new]
  BY <1>1 DEF WizardForm
<1>3. old[at] \in WizardRow
  BY <1>1, ElementOfSeq
<1>4. [old[at] EXCEPT !.meter = meter] \in WizardRow /\ [old[at] EXCEPT !.meter = meter].key = old[at].key
  BY <1>3 DEF WizardRow
<1>5. /\ new \in Seq(WizardRow) /\ Len(new) = Len(old)
      /\ \A i \in DOMAIN old : new[i].key = old[i].key
  BY <1>1, <1>4, ExceptSeq
<1>. HIDE DEF new
<1>6. /\ typed \in WizardForm /\ typed.points = new /\ typed.named = form.named
      /\ typed.person = form.person /\ typed.account = form.account
      /\ typed.iban = form.iban /\ typed.addressed = form.addressed
  BY <1>1, <1>2, <1>5 DEF WizardForm
<1>7. Create!edit(3, typed)
  BY DEF Create!updateMeteringPoint
<1>. HIDE DEF typed
<1>. QED  BY <1>5, <1>6, <1>7, CreateEdits

\* Of what the steps have checked, only a text's format is left to object to.
LEMMA CheckedIsComplete ==
    ASSUME CreateInv, step = 4
    PROVE  Create!objections(Create!payload) \in {{}, {"format"}}
<1>. DEFINE pts == form.points
            sent == Create!payload
<1>1. /\ form.named # "unset" /\ Create!ownerGiven
      /\ form.iban # "unset" => form.iban = "valid" /\ form.addressed
      /\ Create!getMeteringPointErrors(pts) = {}
  BY DEF CreateInv, StepsChecked, Create!validateWizardStep, Create!unset
<1>2. form \in WizardForm /\ pts \in Seq(WizardRow) /\ DOMAIN pts = 1..Len(pts) /\ Len(pts) \in Nat
  BY LenProperties DEF CreateInv, CreateTyped, WizardForm
<1>3. /\ sent.named = form.named /\ sent.person = form.person /\ sent.iban = form.iban
      /\ sent.addressed = form.addressed /\ sent.points = pts
      /\ sent.account = (form.account /\ ownerMode = "existing")
  BY <1>2 DEF Create!payload, WizardForm
<1>4. \A i \in DOMAIN pts : pts[i].meter # "unset"
  <2>. SUFFICES ASSUME NEW i \in DOMAIN pts, pts[i].meter = "unset" PROVE FALSE
    OBVIOUS
  <2>. HIDE DEF pts
  <2>1. "missing" \in Create!getMeteringPointErrors(pts)
    BY DEF Create!getMeteringPointErrors, Create!unset
  <2>. QED  BY <1>1, <2>1
<1>5. \A i, j \in DOMAIN pts : j < i => pts[j].meter # pts[i].meter
  <2>. SUFFICES ASSUME NEW i \in DOMAIN pts, NEW j \in DOMAIN pts, j < i,
                       pts[j].meter = pts[i].meter
                PROVE FALSE
    OBVIOUS
  <2>. HIDE DEF pts
  <2>1. j \in 1..i-1
    BY <1>2
  <2>2. "duplicate" \in Create!getMeteringPointErrors(pts)
    BY <1>4, <2>1 DEF Create!getMeteringPointErrors, Create!unset
  <2>. QED  BY <1>1, <2>2
<1>6. \A i, j \in DOMAIN pts : i # j => pts[i].meter # pts[j].meter
  <2>. HIDE DEF pts
  <2>1. \A i, j \in DOMAIN pts : i # j => i < j \/ j < i
    BY <1>2
  <2>. QED  BY <1>5, <2>1
<1>7. sent.named # "unset" /\ (sent.account \/ sent.person # "unset") /\ sent.iban # "invalid"
      /\ (sent.iban # "unset" => sent.addressed)
  BY <1>1, <1>3 DEF Create!ownerGiven, Create!unset
<1>. HIDE DEF sent, pts
<1>8. \A o \in {"name", "owner", "iban", "address", "meter", "sameMeter"} :
          o \notin Create!objections(sent)
  BY <1>3, <1>4, <1>6, <1>7 DEF Create!objections, Create!unset
<1>9. Create!objections(sent) \subseteq {"format", "name", "owner", "iban", "address", "meter", "sameMeter"}
  BY DEF Create!objections
<1>. QED  BY <1>8, <1>9 DEF sent

\* The request: sent when neither guard is up, answered once.
LEMMA CreateSends ==
    ASSUME CreateInv,
           Create!handleCreateZev \/ Create!createMutationSucceeds \/ Create!createMutationFails
    PROVE  CreateInv'
<1>. USE DEF Create!render
<1>1. CASE Create!handleCreateZev
  <2>1. /\ open' = open /\ step' = step /\ step = 4 /\ ownerMode' = ownerMode /\ submitted' = TRUE
        /\ seed' = seed /\ keys' = keys /\ form' = form /\ rendered' = rendered
        /\ ~submitted /\ ~rendered /\ pending' = Append(pending, Create!objections(Create!payload))
    BY <1>1 DEF Create!handleCreateZev
  <2>2. pending = <<>>
    BY <2>1 DEF CreateInv, OneAtATime
  <2>3. pending' \in {<<{}>>, <<{"format"}>>}
    BY <2>1, <2>2, CheckedIsComplete
  <2>4. CreateTyped' /\ Create!KeysFollowRows' /\ OneAtATime'
    BY <2>1, <2>3 DEF CreateInv, CreateTyped, Create!KeysFollowRows, OneAtATime
  <2>5. StepsChecked'
    BY <2>1 DEF CreateInv, StepsChecked, Create!validateWizardStep, Create!ownerGiven
  <2>. QED  BY <2>4, <2>5 DEF CreateInv
<1>2. CASE Create!createMutationSucceeds
  <2>1. /\ open' = open /\ step' = 5 /\ ownerMode' = ownerMode /\ submitted' = submitted
        /\ seed' = seed /\ keys' = keys /\ form' = form /\ rendered' = (pending' # <<>>)
        /\ pending # <<>> /\ pending' = Tail(pending)
    BY <1>2 DEF Create!createMutationSucceeds
  <2>2. pending' = <<>>
    <3>1. PICK x : pending = <<x>>
      BY <2>1 DEF CreateInv, OneAtATime
    <3>. QED  BY <2>1, <3>1
  <2>3. step' \in 1..5
    BY <2>1
  <2>4. CreateTyped' /\ Create!KeysFollowRows' /\ OneAtATime'
    BY <2>1, <2>2, <2>3 DEF CreateInv, CreateTyped, Create!KeysFollowRows, OneAtATime
  <2>5. StepsChecked'
    BY <2>1 DEF StepsChecked
  <2>. QED  BY <2>4, <2>5 DEF CreateInv
<1>3. CASE Create!createMutationFails
  <2>1. /\ open' = open /\ step' = step /\ ownerMode' = ownerMode /\ submitted' = submitted
        /\ seed' = seed /\ keys' = keys /\ form' = form /\ rendered' = (pending' # <<>>)
        /\ pending # <<>> /\ pending' = Tail(pending)
    BY <1>3 DEF Create!createMutationFails
  <2>2. pending' = <<>>
    <3>1. PICK x : pending = <<x>>
      BY <2>1 DEF CreateInv, OneAtATime
    <3>. QED  BY <2>1, <3>1
  <2>3. CreateTyped' /\ Create!KeysFollowRows' /\ OneAtATime'
    BY <2>1, <2>2 DEF CreateInv, CreateTyped, Create!KeysFollowRows, OneAtATime
  <2>4. StepsChecked'
    BY <2>1 DEF CreateInv, StepsChecked, Create!validateWizardStep, Create!ownerGiven
  <2>. QED  BY <2>3, <2>4 DEF CreateInv
<1>. QED  BY <1>1, <1>2, <1>3

LEMMA CreateSteps ==
    ASSUME CreateInv, Create!Next PROVE CreateInv'
<1>1. CASE Create!revisit \/ Create!openCreateModal \/ Create!closeCreateModal
  BY <1>1, CreateOpens
<1>2. CASE Create!goToNextStep \/ Create!goToPreviousStep
  BY <1>2, CreateMoves
<1>3. CASE \/ \E text \in Create!Texts : Create!typeCommunity(text)
           \/ \E b \in BOOLEAN : Create!pickAccount(b)
           \/ \E text \in Create!Texts, b \in BOOLEAN : Create!typeOwner(text, b)
           \/ \E iban \in {"unset", "valid", "invalid"} : Create!typeIban(iban)
           \/ \E chosen \in {"new", "existing"} : Create!setOwnerMode(chosen)
  <2>1. CASE \E text \in Create!Texts : Create!typeCommunity(text)
    <3>1. PICK text \in Create!Texts : Create!typeCommunity(text)
      BY <2>1
    <3>. QED  BY <3>1, CreateTypes
  <2>2. CASE \E b \in BOOLEAN : Create!pickAccount(b)
    <3>1. PICK b \in BOOLEAN : Create!pickAccount(b)
      BY <2>2
    <3>2. "unset" \in Create!Texts
      BY DEF Create!Texts, Create!unset
    <3>. QED  BY <3>1, <3>2, CreateTypes
  <2>3. CASE \E text \in Create!Texts, b \in BOOLEAN : Create!typeOwner(text, b)
    BY <2>3, CreateTypes
  <2>4. CASE \/ \E iban \in {"unset", "valid", "invalid"} : Create!typeIban(iban)
             \/ \E chosen \in {"new", "existing"} : Create!setOwnerMode(chosen)
    <3>1. "unset" \in Create!Texts
      BY DEF Create!Texts, Create!unset
    <3>. QED  BY <2>4, <3>1, CreateTypes
  <2>. QED  BY <1>3, <2>1, <2>2, <2>3, <2>4
<1>4. CASE Create!addMeteringPoint
  BY <1>4, CreateAdds
<1>5. CASE \E i \in 1..MaxRows : Create!removeMeteringPoint(i)
  BY <1>5, CreateRemoves
<1>6. CASE \E i \in 1..MaxRows, meter \in MeterIds \cup {"unset"} : Create!updateMeteringPoint(i, meter)
  BY <1>6, CreateUpdates
<1>7. CASE Create!handleCreateZev \/ Create!createMutationSucceeds \/ Create!createMutationFails
  BY <1>7, CreateSends
<1>. QED  BY <1>1, <1>2, <1>3, <1>4, <1>5, <1>6, <1>7 DEF Create!Next, Create!unset

LEMMA CreateIdle ==
    ASSUME CreateInv, UNCHANGED createVars PROVE CreateInv'
<1>1. CreateTyped' /\ Create!KeysFollowRows' /\ OneAtATime'
  BY DEF createVars, CreateInv, CreateTyped, Create!KeysFollowRows, OneAtATime
<1>2. StepsChecked'
  BY DEF createVars, CreateInv, StepsChecked, Create!validateWizardStep, Create!ownerGiven
<1>. QED  BY <1>1, <1>2 DEF CreateInv

(* A community is asked for once and completely: however the wizard is       *)
(* closed, opened, gone back in or clicked twice, at most one creation is    *)
(* on its way, nothing is missing, false or double in it (the format of its  *)
(* texts, which the wizard does not look at, aside), and each row is found   *)
(* under its own key. Neither guard against a second click is enough alone;  *)
(* the invariant is that one of them is up while a creation is on its way,   *)
(* and that the steps behind the one shown stay as they were checked         *)
(* (ZevListPage).                                                            *)
THEOREM CommunityIsCreatedOnceHolds == PageSpec => []CommunityIsCreatedOnce
<1>1. PageInit => CreateInv
  BY CreateStarts DEF PageInit
<1>2. CreateInv /\ [PageNext]_pageVars => CreateInv'
  <2>1. ASSUME CreateInv, PageNext PROVE CreateInv'
    <3>1. CASE UNCHANGED createVars
      BY <2>1, <3>1, CreateIdle
    <3>2. CASE Create!Next
      BY <2>1, <3>2, CreateSteps
    <3>. QED  BY <2>1, <3>1, <3>2 DEF PageNext
  <2>2. ASSUME CreateInv, UNCHANGED pageVars PROVE CreateInv'
    BY <2>2, CreateIdle DEF pageVars
  <2>. QED  BY <2>1, <2>2
<1>3. CreateInv => CommunityIsCreatedOnce
  <2>. SUFFICES ASSUME CreateInv PROVE CommunityIsCreatedOnce
    OBVIOUS
  <2>1. Create!KeysFollowRows
    BY DEF CreateInv
  <2>2. CASE pending = <<>>
    BY <2>1, <2>2 DEF CommunityIsCreatedOnce, Create!SentIsComplete, Create!AskedForOnce
  <2>3. ASSUME NEW x \in {{}, {"format"}}, pending = <<x>> PROVE CommunityIsCreatedOnce
    <3>1. DOMAIN pending = {1} /\ pending[1] = x /\ Len(pending) = 1
      BY <2>3
    <3>. QED  BY <2>1, <3>1 DEF CommunityIsCreatedOnce, Create!SentIsComplete, Create!AskedForOnce
  <2>. QED  BY <2>2, <2>3 DEF CreateInv, OneAtATime
<1>. QED  BY <1>1, <1>2, <1>3, PTL DEF PageSpec

-----------------------------------------------------------------------------
(* The dialogs of the metering points *)

Text    == Typed \cup Points!Ranges \cup {"none", "blank", "loaded"}
Content == [zev : Places \cup {"none"}, editing : Subjects \cup {"none"}, text : Text]
Kinds   == {"point", "assignment", "building", "data"}
Scope   == [zev : Places, access : Points!Access, life : 1..MaxLives]
Dialog  == [kind : Kinds \cup {"none"}, zev : Places \cup {"none"}, editing : Subjects \cup {"none"},
            text : Text, errors : SUBSET Content]
Ask     == [content : Content, call : 0..MaxCalls]
Call    == [id : 1..MaxCalls, kind : Kinds, life : 1..MaxLives, zev : Places, canWrite : BOOLEAN,
            content : Content, gen : Nat, seen : BOOLEAN,
            left : SUBSET [zev : Places, canWrite : BOOLEAN]]

\* the dialog belongs to the mount; only the form of a metering point shows errors
DialogHere ==
    /\ scope \in Scope /\ dialog \in Dialog /\ generation \in Nat /\ generation <= MaxGen + 1
    /\ dialog.kind = "none" => dialog = Points!closed
    /\ dialog.kind # "none" => dialog.zev = scope.zev
    /\ dialog.kind = "point" => generation <= MaxGen
    /\ dialog.kind # "point" => dialog.errors = {}
    /\ dialog.errors \subseteq {Points!content(dialog)}

AskHere ==
    /\ ask \subseteq Ask /\ \A a \in ask : a.content.zev = scope.zev
    /\ \A a, b \in ask : a = b

\* a request of this mount was composed in it; one that has the form's
\* generation says what the form says
OwnCall(c) ==
    /\ c.life <= scope.life /\ c.content.zev = c.zev
    /\ c.left \subseteq {[zev |-> c.zev, canWrite |-> TRUE]}
    /\ c.life = scope.life =>
          /\ c.zev = scope.zev /\ c.canWrite = Points!canWrite /\ c.gen <= generation
          /\ c.kind = "point" /\ c.gen = generation =>
                dialog.kind = "point" /\ Points!content(dialog) = c.content

CallsOwn ==
    /\ calls \subseteq Call /\ \A c, d \in calls : c.id = d.id => c = d
    /\ \A c \in calls : OwnCall(c)

PointsInv ==
    IF page = "points" THEN DialogHere /\ AskHere /\ CallsOwn
    ELSE dialog = Points!closed /\ calls = {}

\* A render marks requests as seen and changes nothing else of them.
LEMMA SeenFacts ==
    ASSUME NEW cs \in SUBSET Call
    PROVE  /\ Points!seen(cs) \subseteq Call
           /\ \A k \in Points!seen(cs) : \E c \in cs :
                 /\ k.id = c.id /\ k.kind = c.kind /\ k.life = c.life /\ k.zev = c.zev
                 /\ k.canWrite = c.canWrite /\ k.content = c.content /\ k.gen = c.gen
                 /\ k.left = c.left /\ k = [c EXCEPT !.seen = TRUE]
           /\ \A c \in cs : \E k \in Points!seen(cs) : k.id = c.id
<1>1. ASSUME NEW c \in cs
      PROVE  LET k == [c EXCEPT !.seen = TRUE]
             IN /\ k \in Call /\ k.id = c.id /\ k.kind = c.kind /\ k.life = c.life /\ k.zev = c.zev
                /\ k.canWrite = c.canWrite /\ k.content = c.content /\ k.gen = c.gen
                /\ k.left = c.left
  <2>1. c \in Call
    OBVIOUS
  <2>. QED  BY <2>1 DEF Call
<1>. QED  BY <1>1 DEF Points!seen

LEMMA SeenAreOwn ==
    ASSUME NEW cs \in SUBSET Call, \A c, d \in cs : c.id = d.id => c = d,
           \A c \in cs : OwnCall(c)', calls' = Points!seen(cs)
    PROVE  CallsOwn' /\ \A c \in cs : \E k \in calls' : k.id = c.id
<1>1. calls' \subseteq Call /\ \A c \in cs : \E k \in calls' : k.id = c.id
  BY SeenFacts
<1>2. \A c, d \in calls' : c.id = d.id => c = d
  <2>. SUFFICES ASSUME NEW k \in Points!seen(cs), NEW l \in Points!seen(cs), k.id = l.id PROVE k = l
    OBVIOUS
  <2>1. PICK c \in cs : k.id = c.id /\ k = [c EXCEPT !.seen = TRUE]
    BY SeenFacts
  <2>2. PICK d \in cs : l.id = d.id /\ l = [d EXCEPT !.seen = TRUE]
    BY SeenFacts
  <2>3. c = d
    BY <2>1, <2>2
  <2>. QED  BY <2>1, <2>2, <2>3
<1>3. ASSUME NEW k \in calls' PROVE OwnCall(k)'
  <2>1. PICK c \in cs : /\ k.id = c.id /\ k.kind = c.kind /\ k.life = c.life /\ k.zev = c.zev
                        /\ k.canWrite = c.canWrite /\ k.content = c.content /\ k.gen = c.gen
                        /\ k.left = c.left
    BY SeenFacts
  <2>2. OwnCall(c)'
    OBVIOUS
  <2>. QED  BY <2>1, <2>2 DEF OwnCall
<1>. QED  BY <1>1, <1>2, <1>3 DEF CallsOwn

LEMMA ClosedFacts ==
    /\ Points!closed \in Dialog /\ Points!closed.kind = "none" /\ Points!closed.errors = {}
BY DEF Points!closed, Points!none, Dialog, Text, Kinds

\* What one dialog says is a content.
LEMMA ContentFacts ==
    ASSUME NEW d \in Dialog
    PROVE  Points!content(d) \in Content /\ Points!content(d).zev = d.zev
<1>1. /\ d.zev \in Places \cup {"none"} /\ d.editing \in Subjects \cup {"none"} /\ d.text \in Text /\ "none" \in Text
  BY DEF Dialog, Text
<1>. QED  BY <1>1 DEF Points!content, Points!none, Content

\* A dialog is opened, typed in or closed: the form of a metering point
\* starts a new generation, and another dialog is open only while no request
\* has its generation.
LEMMA DialogChanges ==
    ASSUME DialogHere, AskHere, CallsOwn, NEW next \in Dialog,
           scope' = scope, ask' = ask, calls' = Points!seen(calls), dialog' = next,
           next.kind = "none" => next = Points!closed, next.kind # "none" => next.zev = scope.zev,
           next.errors = {}, dialog.kind # "none" \/ next.kind # "none",
           \/ generation' = generation /\ dialog.kind # "point" /\ next.kind # "point"
           \/ generation' = generation + 1 /\ generation <= MaxGen
              /\ (next.kind = "point" => generation < MaxGen)
    PROVE  DialogHere' /\ AskHere' /\ CallsOwn' /\ \A c \in calls : \E k \in calls' : k.id = c.id
<1>0. /\ MaxGen \in Nat /\ generation \in Nat /\ generation <= MaxGen + 1
      /\ generation' = generation \/ (generation' = generation + 1 /\ generation <= MaxGen)
      /\ next.kind = "point" => generation' = generation + 1 /\ generation < MaxGen
      /\ generation' = generation => dialog.kind # "point"
  BY PagesAssumption DEF DialogHere
<1>1. generation' \in Nat /\ generation' <= MaxGen + 1 /\ (next.kind = "point" => generation' <= MaxGen)
  BY <1>0
<1>2. DialogHere'
  BY <1>1 DEF DialogHere
<1>3. AskHere'
  BY DEF AskHere
<1>4. ASSUME NEW c \in calls PROVE OwnCall(c)'
  <2>1. OwnCall(c) /\ c.gen \in Nat
    BY DEF CallsOwn, Call
  <2>2. c.life = scope.life => c.gen <= generation'
    BY <1>0, <2>1 DEF OwnCall
  <2>3. c.life = scope.life => ~(c.kind = "point" /\ c.gen = generation')
    BY <1>0, <2>1 DEF OwnCall
  <2>4. Points!canWrite' = Points!canWrite
    BY DEF Points!canWrite
  <2>. QED  BY <2>1, <2>2, <2>3, <2>4 DEF OwnCall
<1>5. calls \in SUBSET Call /\ \A c, d \in calls : c.id = d.id => c = d
  BY DEF CallsOwn
<1>. QED  BY <1>2, <1>3, <1>4, <1>5, SeenAreOwn

\* A dialog or its question is opened, typed in, closed.
LEMMA PointsOpen ==
    ASSUME DialogHere, AskHere, CallsOwn,
           \/ \E kind \in Points!Forms, editing \in Subjects \cup {"none"} : Points!openForm(kind, editing)
           \/ \E point \in Subjects : Points!openDeleteDataModal(point)
           \/ \E text \in Typed : Points!setForm(text)
           \/ \E range \in Points!Ranges : Points!setDeleteData(range)
           \/ Points!closeModal
    PROVE  DialogHere' /\ AskHere' /\ CallsOwn' /\ \A c \in calls : \E k \in calls' : k.id = c.id
<1>. USE DEF Points!none, Points!touched, Points!countable
<1>. DEFINE Kept == DialogHere' /\ AskHere' /\ CallsOwn' /\ \A c \in calls : \E k \in calls' : k.id = c.id
<1>1. scope' = scope /\ ask' = ask /\ calls' = Points!seen(calls)
  BY DEF Points!openForm, Points!openDeleteDataModal, Points!setForm, Points!setDeleteData,
         Points!closeModal
<1>2. scope \in Scope /\ dialog \in Dialog /\ generation \in Nat /\ MaxGen \in Nat
  BY PagesAssumption DEF DialogHere
<1>3. scope.zev \in Places 
  BY <1>2 DEF Scope
<1>4. ASSUME NEW kind \in Points!Forms, NEW editing \in Subjects \cup {"none"},
             Points!openForm(kind, editing)
      PROVE  Kept
  <2>0. kind \in Kinds \ {"none", "data"}
    BY DEF Points!Forms, Kinds
  <2>. DEFINE next == [kind |-> kind, zev |-> scope.zev, editing |-> editing,
                       text |-> IF editing = "none" THEN "blank" ELSE "loaded", errors |-> {}]
  <2>1. next \in Dialog /\ next.kind = kind /\ next.zev = scope.zev /\ next.errors = {}
    BY <1>3, <2>0 DEF Dialog, Text
  <2>2. /\ dialog' = next /\ dialog.kind = "none"
        /\ IF kind = "point" THEN generation' = generation + 1 /\ generation < MaxGen
           ELSE generation' = generation
    BY <1>4 DEF Points!openForm
  <2>. HIDE DEF next
  <2>3. kind # "none"
    BY <2>0
  <2>4. \/ generation' = generation /\ dialog.kind # "point" /\ next.kind # "point"
        \/ generation' = generation + 1 /\ generation <= MaxGen
           /\ (next.kind = "point" => generation < MaxGen)
    BY <1>2, <2>1, <2>2
  <2>. QED  BY <1>1, <2>1, <2>2, <2>3, <2>4, DialogChanges
<1>5. ASSUME NEW point \in Subjects, Points!openDeleteDataModal(point)
      PROVE  Kept
  <2>. DEFINE next == [kind |-> "data", zev |-> scope.zev, editing |-> point,
                       text |-> "all", errors |-> {}]
  <2>1. next \in Dialog /\ next.kind = "data" /\ next.zev = scope.zev /\ next.errors = {}
    BY <1>3 DEF Dialog, Text, Kinds, Points!Ranges
  <2>2. dialog' = next /\ dialog.kind = "none" /\ generation' = generation
    BY <1>5 DEF Points!openDeleteDataModal
  <2>. HIDE DEF next
  <2>. QED  BY <1>1, <2>1, <2>2, DialogChanges
<1>6. ASSUME NEW text \in Typed, Points!setForm(text)
      PROVE  Kept
  <2>. DEFINE next == [dialog EXCEPT !.text = text, !.errors = {}]
  <2>1. next \in Dialog /\ next.kind = dialog.kind /\ next.zev = dialog.zev /\ next.errors = {}
    BY <1>2 DEF Dialog, Text
  <2>2. /\ dialog' = next /\ dialog.kind \in Points!Forms
        /\ IF dialog.kind = "point" THEN generation' = generation + 1 /\ generation < MaxGen
           ELSE generation' = generation
    BY <1>6 DEF Points!setForm
  <2>. HIDE DEF next
  <2>3. dialog.kind # "none" /\ dialog.zev = scope.zev
    BY <2>2 DEF Points!Forms, DialogHere
  <2>4. \/ generation' = generation /\ dialog.kind # "point" /\ next.kind # "point"
        \/ generation' = generation + 1 /\ generation <= MaxGen
           /\ (next.kind = "point" => generation < MaxGen)
    BY <1>2, <2>1, <2>2
  <2>. QED  BY <1>1, <2>1, <2>2, <2>3, <2>4, DialogChanges
<1>7. ASSUME NEW range \in Points!Ranges, Points!setDeleteData(range)
      PROVE  Kept
  <2>. DEFINE next == [dialog EXCEPT !.text = range]
  <2>1. next \in Dialog /\ next.kind = dialog.kind /\ next.zev = dialog.zev /\ next.errors = dialog.errors
    BY <1>2 DEF Dialog, Text
  <2>2. dialog' = next /\ dialog.kind = "data" /\ generation' = generation
    BY <1>7 DEF Points!setDeleteData
  <2>. HIDE DEF next
  <2>3. dialog.zev = scope.zev /\ dialog.errors = {}
    BY <2>2 DEF DialogHere
  <2>. QED  BY <1>1, <2>1, <2>2, <2>3, DialogChanges
<1>8. CASE Points!closeModal
  <2>1. /\ dialog' = Points!closed /\ dialog.kind # "none"
        /\ generation' = IF dialog.kind = "point" THEN generation + 1 ELSE generation
    BY <1>8 DEF Points!closeModal
  <2>2. \/ generation' = generation /\ dialog.kind # "point" /\ Points!closed.kind # "point"
        \/ generation' = generation + 1 /\ generation <= MaxGen
           /\ (Points!closed.kind = "point" => generation < MaxGen)
    BY <2>1, ClosedFacts DEF DialogHere
  <2>. QED  BY <1>1, <2>1, <2>2, ClosedFacts, DialogChanges
<1>. QED  BY <1>4, <1>5, <1>6, <1>7, <1>8

\* A request is composed: it has this mount's identity, and the form's generation.
LEMMA MutateFacts ==
    ASSUME DialogHere, CallsOwn, NEW kind \in Kinds, NEW sent \in Content, sent.zev = scope.zev,
           Points!mutate(kind, sent),
           kind = "point" => dialog.kind = "point" /\ Points!content(dialog) = sent,
           scope' = scope, dialog' = dialog, generation' = generation
    PROVE  /\ CallsOwn' /\ \A c \in calls : c \in calls'
           /\ \E new \in Call : calls' \ calls = {new}
<1>1. PICK id \in Points!free :
        calls' = calls \cup
               {[id |-> id, kind |-> kind, life |-> scope.life, zev |-> scope.zev,
                 canWrite |-> Points!canWrite, content |-> sent,
                 gen |-> IF kind = "point" THEN generation ELSE 0,
                 seen |-> FALSE, left |-> {}]}
  BY DEF Points!mutate
<1>. DEFINE made == [id |-> id, kind |-> kind, life |-> scope.life, zev |-> scope.zev,
                    canWrite |-> Points!canWrite, content |-> sent,
                    gen |-> IF kind = "point" THEN generation ELSE 0,
                    seen |-> FALSE, left |-> {}]
<1>2. id \in 1..MaxCalls /\ \A c \in calls : c.id # id
  BY DEF Points!free
<1>3. scope.life \in 1..MaxLives /\ scope.zev \in Places /\ generation \in Nat
  BY DEF DialogHere, Scope
<1>4. Points!canWrite \in BOOLEAN
  BY DEF Points!canWrite
<1>5. /\ made \in Call /\ made.id = id /\ made.kind = kind /\ made.life = scope.life
      /\ made.zev = scope.zev /\ made.canWrite = Points!canWrite /\ made.content = sent
      /\ made.left = {} /\ made.gen = IF kind = "point" THEN generation ELSE 0
  BY <1>2, <1>3, <1>4 DEF Call
<1>. HIDE DEF made
<1>6. PICK new \in Call :
        /\ new.id = id /\ new.kind = kind /\ new.life = scope.life /\ new.zev = scope.zev
        /\ new.canWrite = Points!canWrite /\ new.content = sent /\ new.left = {}
        /\ new.gen = IF kind = "point" THEN generation ELSE 0
        /\ calls' = calls \cup {new}
  BY <1>1, <1>5 DEF made
<1>7. calls' = calls \cup {new}
  BY <1>6
<1>8. Points!canWrite' = Points!canWrite
  BY DEF Points!canWrite
<1>9. OwnCall(new)'
  <2>1. new.gen \in Nat /\ new.gen <= generation
    BY <1>3, <1>6
  <2>2. scope.life <= scope.life
    BY <1>3
  <2>. QED  BY <1>6, <1>8, <2>1, <2>2 DEF OwnCall
<1>10. \A c \in calls : OwnCall(c)'
  BY <1>8 DEF CallsOwn, OwnCall
<1>11. \A c, d \in calls' : c.id = d.id => c = d
  BY <1>2, <1>6, <1>7 DEF CallsOwn
<1>12. calls' \ calls = {new}
  BY <1>2, <1>6, <1>7
<1>. QED  BY <1>7, <1>9, <1>10, <1>11, <1>12 DEF CallsOwn

LEMMA PointsSend ==
    ASSUME DialogHere, AskHere, CallsOwn,
           Points!submitForm \/ Points!submitDeleteData \/ Points!handleConfirm \/ Points!handleCancel
    PROVE  /\ DialogHere' /\ AskHere' /\ CallsOwn' /\ dialog' = dialog
           /\ \A c \in calls : \E k \in calls' : k.id = c.id
<1>1. scope' = scope /\ dialog' = dialog /\ generation' = generation
  BY DEF Points!submitForm, Points!submitDeleteData, Points!handleConfirm, Points!handleCancel
<1>2. DialogHere'
  BY <1>1 DEF DialogHere
<1>3. dialog \in Dialog /\ Points!content(dialog) \in Content /\ Points!content(dialog).zev = dialog.zev
  BY ContentFacts DEF DialogHere
<1>4. CASE Points!submitForm
  <2>1. ask' = ask /\ dialog.kind \in Points!Forms /\ Points!mutate(dialog.kind, Points!content(dialog))
    BY <1>4 DEF Points!submitForm
  <2>2. dialog.kind \in Kinds /\ dialog.kind # "none"
    BY <2>1 DEF Points!Forms, Kinds
  <2>3. Points!content(dialog).zev = scope.zev
    BY <1>3, <2>2 DEF DialogHere
  <2>4. CallsOwn' /\ \A c \in calls : c \in calls'
    BY <1>1, <1>3, <2>1, <2>2, <2>3, MutateFacts
  <2>5. AskHere'
    BY <1>1, <2>1 DEF AskHere
  <2>. QED  BY <1>1, <1>2, <2>4, <2>5
<1>5. ASSUME calls' = Points!seen(calls) PROVE CallsOwn' /\ \A c \in calls : \E k \in calls' : k.id = c.id
  <2>1. \A c \in calls : OwnCall(c)'
    BY <1>1 DEF CallsOwn, OwnCall, Points!canWrite
  <2>2. calls \in SUBSET Call /\ \A c, d \in calls : c.id = d.id => c = d
    BY DEF CallsOwn
  <2>. QED  BY <1>5, <2>1, <2>2, SeenAreOwn
<1>6. CASE Points!submitDeleteData
  <2>1. /\ calls' = Points!seen(calls) /\ dialog.kind = "data"
        /\ ask' = {[content |-> Points!content(dialog), call |-> 0]}
    BY <1>6 DEF Points!submitDeleteData
  <2>2. 0 \in 0..MaxCalls
    BY PagesAssumption
  <2>3. [content |-> Points!content(dialog), call |-> 0] \in Ask
    BY <1>3, <2>2 DEF Ask
  <2>4. dialog.zev = scope.zev
    BY <2>1 DEF DialogHere
  <2>5. AskHere'
    BY <1>1, <1>3, <2>1, <2>3, <2>4 DEF AskHere
  <2>. QED  BY <1>1, <1>2, <1>5, <2>1, <2>5
<1>7. CASE Points!handleConfirm
  <2>1. PICK a \in ask : /\ Points!mutate("data", a.content)
                         /\ ask' = {[a EXCEPT !.call = c.id] : c \in calls' \ calls}
    BY <1>7 DEF Points!handleConfirm
  <2>2. a \in Ask /\ a.content \in Content /\ a.content.zev = scope.zev
    BY DEF AskHere, Ask
  <2>3. "data" \in Kinds
    BY DEF Kinds
  <2>4. CallsOwn' /\ (\A c \in calls : c \in calls') /\ \E new \in Call : calls' \ calls = {new}
    BY <1>1, <2>1, <2>2, <2>3, MutateFacts
  <2>5. PICK new \in Call : calls' \ calls = {new}
    BY <2>4
  <2>6. ask' = {[a EXCEPT !.call = new.id]}
    BY <2>1, <2>5
  <2>7. new.id \in 0..MaxCalls
    BY PagesAssumption DEF Call
  <2>8. [a EXCEPT !.call = new.id] \in Ask /\ [a EXCEPT !.call = new.id].content = a.content
    BY <2>2, <2>7 DEF Ask
  <2>9. AskHere'
    BY <1>1, <2>2, <2>6, <2>8 DEF AskHere
  <2>. QED  BY <1>1, <1>2, <2>4, <2>9
<1>8. CASE Points!handleCancel
  <2>1. ask' = {} /\ calls' = Points!seen(calls)
    BY <1>8 DEF Points!handleCancel
  <2>2. AskHere'
    BY <2>1 DEF AskHere
  <2>. QED  BY <1>1, <1>2, <1>5, <2>1, <2>2
<1>. QED  BY <1>4, <1>6, <1>7, <1>8

\* A request leaves only from the mount it was composed in; otherwise it is refused.
LEMMA PointsLeave ==
    ASSUME DialogHere, AskHere, CallsOwn, NEW c \in calls, Points!dispatch(c) \/ Points!refuse(c)
    PROVE  DialogHere' /\ AskHere' /\ CallsOwn' /\ dialog' = dialog
<1>1. scope' = scope /\ dialog' = dialog /\ generation' = generation
  BY DEF Points!dispatch, Points!refuse
<1>2. DialogHere'
  BY <1>1 DEF DialogHere
<1>3. \A k \in calls : OwnCall(k)'
  BY <1>1 DEF CallsOwn, OwnCall, Points!canWrite
<1>4. c \in Call /\ OwnCall(c) /\ scope \in Scope
  BY DEF CallsOwn, DialogHere
<1>5. CASE Points!refuse(c)
  <2>1. calls' \subseteq calls /\ ask' \subseteq ask
    BY <1>5 DEF Points!refuse, Points!settles
  <2>2. CallsOwn'
    BY <1>3, <2>1 DEF CallsOwn
  <2>. QED  BY <1>1, <1>2, <2>1, <2>2 DEF AskHere
<1>6. CASE Points!dispatch(c)
  <2>. DEFINE sent == [c EXCEPT !.seen = TRUE, !.left = {[zev |-> scope.zev, canWrite |-> Points!canWrite]}]
  <2>1. calls' = (calls \ {c}) \cup {sent} /\ c.life = scope.life /\ c.canWrite /\ ask' = ask
    BY <1>6 DEF Points!dispatch, Points!assertWritable, Points!isCurrent
  <2>2. scope.zev \in Places /\ Points!canWrite \in BOOLEAN
    BY <1>4 DEF Scope, Points!canWrite
  <2>a. {[zev |-> scope.zev, canWrite |-> Points!canWrite]} \in SUBSET [zev : Places, canWrite : BOOLEAN]
    BY <2>2
  <2>b. /\ sent \in Call /\ sent.id = c.id /\ sent.kind = c.kind /\ sent.life = c.life
        /\ sent.zev = c.zev /\ sent.canWrite = c.canWrite /\ sent.content = c.content
        /\ sent.gen = c.gen
        /\ sent.left = {[zev |-> scope.zev, canWrite |-> Points!canWrite]}
    BY <1>4, <2>a DEF Call
  <2>. HIDE DEF sent
  <2>3. PICK d \in Call :
        /\ d.id = c.id /\ d.kind = c.kind /\ d.life = c.life /\ d.zev = c.zev
        /\ d.canWrite = c.canWrite /\ d.content = c.content /\ d.gen = c.gen
        /\ d.left = {[zev |-> scope.zev, canWrite |-> Points!canWrite]} /\ d = sent
    BY <2>b
  <2>4. c.zev = scope.zev /\ Points!canWrite = TRUE
    BY <1>4, <2>1, <2>2 DEF OwnCall
  <2>5. OwnCall(d)'
    <3>1. OwnCall(c)'
      BY <1>3
    <3>2. d.left \subseteq {[zev |-> d.zev, canWrite |-> TRUE]}
      BY <2>3, <2>4
    <3>. QED  BY <2>3, <3>1, <3>2 DEF OwnCall
  <2>6. calls' \subseteq Call /\ \A k, l \in calls' : k.id = l.id => k = l
    BY <2>1, <2>3 DEF CallsOwn
  <2>7. CallsOwn'
    <3>1. \A k \in calls' : k \in calls \/ k = d
      BY <2>1, <2>3
    <3>2. \A k \in calls' : OwnCall(k)'
      BY <1>3, <2>5, <3>1
    <3>. QED  BY <2>6, <3>2 DEF CallsOwn
  <2>8. AskHere'
    BY <1>1, <2>1 DEF AskHere
  <2>. QED  BY <1>1, <1>2, <2>7, <2>8
<1>. QED  BY <1>5, <1>6

\* An answer closes or marks the form that says what was sent, and no other.
LEMMA PointsAnswer ==
    ASSUME DialogHere, AskHere, CallsOwn, NEW c \in calls, NEW ofAField \in BOOLEAN,
           Points!onSuccess(c) \/ Points!onError(c, ofAField)
    PROVE  /\ DialogHere' /\ AskHere' /\ CallsOwn'
           /\ dialog.kind = "point" /\ dialog' # dialog => Points!content(dialog) = c.content
           /\ \A d \in calls \ {c} : \E k \in calls' : k.id = d.id
<1>1. scope' = scope /\ calls' = Points!seen(calls \ {c}) /\ ask' \subseteq ask
  BY DEF Points!onSuccess, Points!onError, Points!settles
<1>2. AskHere'
  BY <1>1 DEF AskHere
<1>3. /\ c \in Call /\ OwnCall(c) /\ c.content \in Content /\ c.gen \in Nat
      /\ MaxGen \in Nat /\ generation \in Nat /\ dialog \in Dialog
  BY PagesAssumption DEF CallsOwn, DialogHere, Call
<1>4. calls \ {c} \in SUBSET Call /\ \A k, l \in calls \ {c} : k.id = l.id => k = l
  BY DEF CallsOwn
<1>5. Points!canWrite' = Points!canWrite
  BY <1>1 DEF Points!canWrite
<1>. DEFINE mine == c.life = scope.life /\ (c.kind = "point" => c.gen = generation)
<1>6. c.kind = "point" /\ mine => dialog.kind = "point" /\ Points!content(dialog) = c.content
  BY <1>3 DEF OwnCall
<1>7. CASE Points!onSuccess(c)
  <2>1. /\ dialog' = IF mine /\ dialog.kind = c.kind THEN Points!closed ELSE dialog
        /\ generation' = IF mine /\ c.kind = "point" THEN generation + 1 ELSE generation
    BY <1>7 DEF Points!onSuccess, Points!ownsForm, Points!isCurrent
  <2>. HIDE DEF mine
  <2>2. c.kind # "none" /\ dialog.kind \in Kinds \cup {"none"}
    BY <1>3 DEF Call, Kinds, Dialog
  <2>3. CASE mine /\ c.kind = "point"
    <3>1. dialog' = Points!closed /\ generation' = generation + 1 /\ generation <= MaxGen
      BY <1>6, <2>1, <2>3 DEF DialogHere
    <3>2. DialogHere'
      <4>1. generation' \in Nat /\ generation' <= MaxGen + 1
        BY <1>3, <3>1
      <4>. QED  BY <1>1, <3>1, <4>1, ClosedFacts DEF DialogHere
    <3>3. \A d \in calls : d.life = scope.life => d.gen \in Nat /\ d.gen <= generation
      BY DEF CallsOwn, OwnCall, Call
    <3>4. \A d \in calls \ {c} : OwnCall(d)'
      <4>. SUFFICES ASSUME NEW d \in calls PROVE OwnCall(d)'
        OBVIOUS
      <4>1. OwnCall(d) /\ (d.life = scope.life => d.gen <= generation' /\ d.gen # generation')
        BY <1>3, <3>1, <3>3 DEF CallsOwn
      <4>. QED  BY <1>1, <1>5, <4>1 DEF OwnCall
    <3>. QED  BY <1>1, <1>2, <1>4, <1>6, <2>3, <3>2, <3>4, SeenAreOwn
  <2>4. CASE ~(mine /\ c.kind = "point")
    <3>1. generation' = generation
      BY <2>1, <2>4
    <3>2. CASE mine /\ dialog.kind = c.kind
      <4>1. dialog' = Points!closed /\ dialog.kind # "point"
        BY <2>1, <2>4, <3>2
      <4>2. DialogHere'
        BY <1>1, <3>1, <4>1, ClosedFacts DEF DialogHere
      <4>3. \A d \in calls \ {c} : OwnCall(d)'
        BY <1>1, <1>5, <3>1, <4>1 DEF CallsOwn, OwnCall
      <4>. QED  BY <1>1, <1>2, <1>4, <4>1, <4>2, <4>3, SeenAreOwn
    <3>3. CASE ~(mine /\ dialog.kind = c.kind)
      <4>1. dialog' = dialog
        BY <2>1, <3>3
      <4>2. DialogHere'
        BY <1>1, <3>1, <4>1 DEF DialogHere
      <4>3. \A d \in calls \ {c} : OwnCall(d)'
        BY <1>1, <1>5, <3>1, <4>1 DEF CallsOwn, OwnCall
      <4>. QED  BY <1>1, <1>2, <1>4, <4>1, <4>2, <4>3, SeenAreOwn
    <3>. QED  BY <3>2, <3>3
  <2>. QED  BY <2>3, <2>4
<1>8. CASE Points!onError(c, ofAField)
  <2>. DEFINE marked == [dialog EXCEPT !.errors = IF ofAField THEN {c.content} ELSE {}]
  <2>1. /\ generation' = generation
        /\ dialog' = dialog \/ (c.kind = "point" /\ mine /\ dialog' = marked)
    BY <1>8 DEF Points!onError, Points!ownsForm, Points!isCurrent
  <2>2. /\ marked \in Dialog /\ marked.kind = dialog.kind /\ marked.zev = dialog.zev
        /\ marked.editing = dialog.editing /\ marked.text = dialog.text
        /\ marked.errors \subseteq {c.content}
    BY <1>3 DEF Dialog
  <2>. HIDE DEF marked, mine
  <2>3. Points!content(marked) = Points!content(dialog)
    BY <2>2 DEF Points!content
  <2>4. dialog'.kind = dialog.kind /\ Points!content(dialog)' = Points!content(dialog)
    <3>1. CASE dialog' = dialog
      BY <3>1 DEF Points!content
    <3>2. CASE dialog' = marked
      <4>1. Points!content(dialog)' = Points!content(marked)
        BY <3>2 DEF Points!content
      <4>. QED  BY <2>2, <2>3, <3>2, <4>1
    <3>. QED  BY <2>1, <3>1, <3>2
  <2>5. DialogHere'
    <3>1. CASE dialog' = dialog
      BY <1>1, <2>1, <3>1 DEF DialogHere
    <3>2. CASE c.kind = "point" /\ mine /\ dialog' = marked
      <4>1. dialog.kind = "point" /\ Points!content(dialog) = c.content
        BY <1>6, <3>2
      <4>2. dialog'.errors \subseteq {Points!content(dialog)'}
        BY <2>2, <2>4, <3>2, <4>1
      <4>3. dialog' \in Dialog /\ dialog'.kind = "point" /\ dialog'.zev = scope.zev
        BY <2>2, <3>2, <4>1 DEF DialogHere
      <4>. QED  BY <1>1, <2>1, <4>1, <4>2, <4>3 DEF DialogHere
    <3>. QED  BY <2>1, <3>1, <3>2
  <2>6. \A d \in calls \ {c} : OwnCall(d)'
    BY <1>1, <1>5, <2>1, <2>4 DEF CallsOwn, OwnCall
  <2>. QED  BY <1>1, <1>2, <1>4, <1>6, <2>1, <2>5, <2>6, SeenAreOwn
<1>. QED  BY <1>7, <1>8

\* The page is mounted anew: nothing of the dialog is left, and the requests
\* on their way belong to an earlier mount.
LEMMA PointsMount ==
    ASSUME DialogHere, CallsOwn, Points!remount \/ Points!reload
    PROVE  DialogHere' /\ AskHere' /\ CallsOwn' /\ (Points!remount => scope' # scope)
<1>1. dialog' = Points!closed /\ generation' = 0 /\ ask' = {}
  BY DEF Points!remount, Points!reload
<1>2. scope \in Scope /\ MaxGen \in Nat /\ MaxLives \in Nat \ {0}
  BY PagesAssumption DEF DialogHere
<1>3. scope' \in Scope => DialogHere' /\ AskHere'
  <2>1. generation' \in Nat /\ generation' <= MaxGen + 1
    BY <1>1, <1>2
  <2>. QED  BY <1>1, <2>1, ClosedFacts DEF DialogHere, AskHere
<1>4. CASE Points!remount
  <2>1. PICK next \in Points!mounted(scope.life + 1) : scope' = next /\ scope.life < MaxLives
    BY <1>4 DEF Points!remount
  <2>2. calls' = calls
    BY <1>4 DEF Points!remount
  <2>3. scope' \in Scope /\ scope'.life = scope.life + 1 /\ scope.life \in Nat
    BY <1>2, <2>1 DEF Points!mounted, Scope
  <2>4. ASSUME NEW c \in calls PROVE OwnCall(c)'
    <3>1. OwnCall(c) /\ c.life \in Nat /\ c.life <= scope.life
      BY DEF CallsOwn, OwnCall, Call
    <3>2. c.life <= scope'.life /\ c.life # scope'.life
      BY <2>3, <3>1
    <3>. QED  BY <3>1, <3>2 DEF OwnCall
  <2>5. scope' # scope
    BY <2>3
  <2>. QED  BY <1>3, <2>2, <2>3, <2>4, <2>5 DEF CallsOwn
<1>5. CASE Points!reload
  <2>1. scope' = [scope EXCEPT !.life = 1] /\ calls' = {}
    BY <1>5 DEF Points!reload
  <2>2. 1 \in 1..MaxLives
    BY <1>2
  <2>3. scope' \in Scope
    BY <1>2, <2>1, <2>2 DEF Scope
  <2>4. CallsOwn'
    BY <2>1 DEF CallsOwn
  <2>5. Points!remount => scope' # scope
    <3>. SUFFICES ASSUME Points!remount PROVE scope' # scope
      OBVIOUS
    <3>1. PICK next \in Points!mounted(scope.life + 1) : scope' = next
      BY DEF Points!remount
    <3>2. scope'.life = scope.life + 1 /\ scope.life \in Nat
      BY <1>2, <3>1 DEF Points!mounted, Scope
    <3>. QED  BY <3>2
  <2>. QED  BY <1>3, <2>3, <2>4, <2>5
<1>. QED  BY <1>4, <1>5

LEMMA PointsSteps ==
    ASSUME DialogHere, AskHere, CallsOwn, Points!Next
    PROVE  DialogHere' /\ AskHere' /\ CallsOwn' /\ Points!SparesOtherForms
<1>. DEFINE Kept == DialogHere' /\ AskHere' /\ CallsOwn'
            AllStay == \A c \in calls : \E k \in calls' : k.id = c.id
<1>1. AllStay => Points!SparesOtherForms
  BY DEF Points!SparesOtherForms
<1>2. dialog' = dialog => Points!SparesOtherForms
  BY DEF Points!SparesOtherForms
<1>3. CASE \/ \E kind \in Points!Forms, editing \in Subjects \cup {"none"} : Points!openForm(kind, editing)
           \/ \E point \in Subjects : Points!openDeleteDataModal(point)
           \/ \E text \in Typed : Points!setForm(text)
           \/ \E range \in Points!Ranges : Points!setDeleteData(range)
           \/ Points!closeModal
  BY <1>1, <1>3, PointsOpen
<1>4. CASE Points!submitForm \/ Points!submitDeleteData \/ Points!handleConfirm \/ Points!handleCancel
  BY <1>2, <1>4, PointsSend
<1>5. CASE \E c \in calls : Points!dispatch(c) \/ Points!refuse(c)
  BY <1>2, <1>5, PointsLeave
<1>6. CASE \/ \E c \in calls : Points!onSuccess(c)
           \/ \E c \in calls, ofAField \in BOOLEAN : Points!onError(c, ofAField)
  <2>1. PICK c \in calls, ofAField \in BOOLEAN : Points!onSuccess(c) \/ Points!onError(c, ofAField)
    BY <1>6
  <2>2. /\ Kept /\ \A d \in calls \ {c} : \E k \in calls' : k.id = d.id
        /\ dialog.kind = "point" /\ dialog' # dialog => Points!content(dialog) = c.content
    BY <2>1, PointsAnswer
  <2>3. Points!SparesOtherForms
    BY <2>2 DEF Points!SparesOtherForms
  <2>. QED  BY <2>2, <2>3
<1>7. CASE Points!remount \/ Points!reload
  <2>1. Kept /\ (Points!remount => scope' # scope)
    BY <1>7, PointsMount
  <2>2. Points!SparesOtherForms
    BY <1>7, <2>1 DEF Points!SparesOtherForms
  <2>. QED  BY <2>1, <2>2
<1>. QED  BY <1>3, <1>4, <1>5, <1>6, <1>7 DEF Points!Next, Points!none

\* On another page there is no dialog and no request of one.
LEMMA PointsKeep ==
    ASSUME PointsInv, PageNext \/ UNCHANGED pageVars
    PROVE  PointsInv' /\ Points!SparesOtherForms
<1>1. page' = page
  BY DEF PageNext, pageVars
<1>2. CASE page = "points"
  <2>1. DialogHere /\ AskHere /\ CallsOwn
    BY <1>2 DEF PointsInv
  <2>2. CASE Points!Next
    BY <1>1, <1>2, <2>1, <2>2, PointsSteps DEF PointsInv
  <2>3. CASE UNCHANGED pointVars
    <3>1. scope' = scope /\ dialog' = dialog /\ generation' = generation /\ ask' = ask /\ calls' = calls
      BY <2>3 DEF pointVars
    <3>2. DialogHere' /\ AskHere'
      BY <2>1, <3>1 DEF DialogHere, AskHere
    <3>3. CallsOwn'
      BY <2>1, <3>1 DEF CallsOwn, OwnCall, Points!canWrite
    <3>. QED  BY <1>1, <1>2, <3>1, <3>2, <3>3 DEF PointsInv, Points!SparesOtherForms
  <2>. QED  BY <1>2, <2>2, <2>3 DEF PageNext, pageVars
<1>3. CASE page # "points"
  <2>1. UNCHANGED pointVars
    BY <1>3 DEF PageNext, pageVars
  <2>. QED  BY <1>1, <1>3, <2>1 DEF PointsInv, pointVars, Points!SparesOtherForms
<1>. QED  BY <1>2, <1>3

LEMMA PointsStart == PageInit => PointsInv
<1>. SUFFICES ASSUME PageInit PROVE PointsInv
  OBVIOUS
<1>1. CASE page = "points"
  <2>1. scope \in Points!mounted(1) /\ dialog = Points!closed /\ generation = 0 /\ ask = {} /\ calls = {}
    BY <1>1 DEF PageInit, Points!Init
  <2>2. 1 \in 1..MaxLives /\ MaxGen \in Nat
    BY PagesAssumption
  <2>3. scope \in Scope
    BY <2>1, <2>2 DEF Points!mounted, Scope
  <2>4. generation \in Nat /\ generation <= MaxGen + 1
    BY <2>1, <2>2
  <2>5. DialogHere
    BY <2>1, <2>3, <2>4, ClosedFacts DEF DialogHere
  <2>6. AskHere /\ CallsOwn
    BY <2>1 DEF AskHere, CallsOwn
  <2>. QED  BY <1>1, <2>5, <2>6 DEF PointsInv
<1>2. CASE page # "points"
  BY <1>2 DEF PageInit, PointsInv
<1>. QED  BY <1>1, <1>2

(* A dialog of the metering points deals with its own request: the errors it *)
(* shows are about what it says, a request leaves only where it was          *)
(* composed, and an answer leaves alone a metering point's form that was     *)
(* opened or edited since, for any number of mounts, generations and         *)
(* requests on their way. The invariant is that a request of this mount      *)
(* with the form's generation says what the form says, and that its          *)
(* identity is the mount's (useMeteringPointActions, useWriteScope).         *)
THEOREM DialogsMindTheirOwnHolds == PageSpec => DialogsMindTheirOwn
<1>1. PageInit => PointsInv
  BY PointsStart
<1>2. PointsInv /\ [PageNext]_pageVars => PointsInv' /\ [Points!SparesOtherForms]_pageVars
  BY PointsKeep
<1>3. PointsInv => Points!ErrorsAreOfThisForm /\ Points!LeftWhereComposed
  <2>. SUFFICES ASSUME PointsInv PROVE Points!ErrorsAreOfThisForm /\ Points!LeftWhereComposed
    OBVIOUS
  <2>1. CASE page = "points"
    <3>1. Points!ErrorsAreOfThisForm
      BY <2>1 DEF PointsInv, DialogHere, Points!ErrorsAreOfThisForm
    <3>2. Points!LeftWhereComposed
      BY <2>1 DEF PointsInv, CallsOwn, OwnCall, Points!LeftWhereComposed
    <3>. QED  BY <3>1, <3>2
  <2>2. CASE page # "points"
    BY <2>2, ClosedFacts DEF PointsInv, Points!ErrorsAreOfThisForm, Points!LeftWhereComposed
  <2>. QED  BY <2>1, <2>2
<1>. QED  BY <1>1, <1>2, <1>3, PTL DEF PageSpec, DialogsMindTheirOwn

-----------------------------------------------------------------------------
(* The metering charts *)

Address == [tab : Chart!Tabs, meter : Meters \cup {"none", "zev_total"}, period : Periods,
            severity : BOOLEAN]
Gaps == [meter : Meters, context : Address \X (Communities \cup {"none"})]
View == [kind : {"admin", "manager", "participant"}, held : SUBSET Meters, pick : Communities,
         zevs : Chart!Query, lists : [Communities -> Chart!Query], url : Address,
         quality : SUBSET SUBSET Meters, gaps : SUBSET Gaps, asked : BOOLEAN, lost : BOOLEAN]

AtMostOne(set) == \A x, y \in set : x = y

\* what holds of a view before the effects have corrected it
Drawn(s) ==
    /\ s \in View /\ AtMostOne(s.quality) /\ AtMostOne(s.gaps)
    /\ Chart!isManagedScope(s) => s.zevs # Chart!idle
    /\ s.lost = FALSE
    /\ s.gaps # {} => s.asked = TRUE

\* what the address names, as far as the page can tell
Valid(s) ==
    IF s.url.meter = "zev_total" THEN Chart!isManagedScope(s) /\ Chart!selectedZevId(s) # "none"
    ELSE s.url.meter \in {"none"} \cup Chart!meteringPoints(s)
Resolvable(s) ==
    IF s.url.meter = "zev_total"
    THEN Chart!isManagedScope(s) =>
             ~(s.zevs.fetching /\ ~s.zevs.data) /\ (s.zevs.failed => s.zevs.data)
    ELSE Chart!meterListResolved(s)

ChartInv(s) == Drawn(s) /\ (Valid(s) \/ ~Resolvable(s))

\* The community of a view that has one is the one picked.
LEMMA ScopeFacts ==
    ASSUME NEW s \in View
    PROVE  /\ s.pick \in Communities /\ s.pick # "none"
           /\ Chart!selectedZevId(s) # "none" => Chart!selectedZevId(s) = s.pick
           /\ Chart!meterListResolved(s) => Chart!selectedZevId(s) = s.pick
           /\ Chart!meteringPoints(s) \subseteq Chart!listed(s)
           /\ Chart!listed(s) \subseteq Meters
           /\ Chart!resolveMeterSelection(s).valid = Valid(s)
           /\ Chart!resolveMeterSelection(s).meter = IF Valid(s) THEN s.url.meter ELSE "none"
           /\ Chart!resolveMeterSelection(s).isResolving =
                 (s.url.meter \notin {"none", "zev_total"} /\ ~Chart!meterListResolved(s))
<1>. USE DEF Chart!none, Chart!Total
<1>1. s.pick \in Communities /\ s.pick # "none" /\ s.held \subseteq Meters
  BY PagesAssumption DEF View
<1>2. Chart!selectedZevId(s) # "none" => Chart!selectedZevId(s) = s.pick
  BY DEF Chart!selectedZevId
<1>3. Chart!meterListResolved(s) => Chart!selectedZevId(s) # "none"
  BY DEF Chart!meterListResolved, Chart!theList, Chart!idle
<1>4. Chart!meteringPoints(s) \subseteq Chart!listed(s) /\ Chart!listed(s) \subseteq Meters
  BY <1>1 DEF Chart!meteringPoints, Chart!listed
<1>5. /\ Chart!resolveMeterSelection(s).valid = Valid(s)
      /\ Chart!resolveMeterSelection(s).meter = IF Valid(s) THEN s.url.meter ELSE "none"
      /\ Chart!resolveMeterSelection(s).isResolving =
            (s.url.meter \notin {"none", "zev_total"} /\ ~Chart!meterListResolved(s))
  BY DEF Chart!resolveMeterSelection, Valid
<1>. QED  BY <1>1, <1>2, <1>3, <1>4, <1>5

\* A good link is never taken for one that names nothing.
LEMMA GoodLinkIsValid ==
    ASSUME NEW s, Drawn(s), ~Valid(s), Resolvable(s)
    PROVE  ~Chart!isGood(s)
<1>. USE DEF Chart!none, Chart!Total
<1>1. s \in View /\ s.zevs \in Chart!Query /\ (Chart!isManagedScope(s) => s.zevs # Chart!idle)
  BY DEF Drawn, View
<1>2. CASE s.url.meter = "zev_total"
  <2>. SUFFICES ASSUME Chart!isManagedScope(s) PROVE FALSE
    BY <1>2, PagesAssumption DEF Chart!isGood, Drawn, View
  <2>1. Chart!selectedZevId(s) = "none"
    BY <1>2 DEF Valid
  <2>2. ~s.zevs.data
    BY <1>1, <2>1, ScopeFacts DEF Chart!selectedZevId
  <2>3. ~s.zevs.fetching /\ ~s.zevs.failed
    BY <1>2, <2>2 DEF Resolvable
  <2>4. s.zevs = Chart!idle
    BY <1>1, <2>2, <2>3 DEF Chart!Query, Chart!idle
  <2>. QED  BY <1>1, <2>4
<1>3. CASE s.url.meter # "zev_total"
  <2>1. Chart!meterListResolved(s) /\ Chart!selectedZevId(s) = s.pick
    BY <1>1, <1>3, ScopeFacts DEF Resolvable
  <2>2. s.url.meter \notin Chart!listed(s)
    BY <1>3, <2>1 DEF Valid, Chart!meteringPoints
  <2>. QED  BY <1>3, <2>1, <2>2 DEF Chart!isGood, Chart!listed
<1>. QED  BY <1>2, <1>3

LEMMA LinkKeptFacts ==
    ASSUME NEW s, Drawn(s) PROVE ChartInv(Chart!linkKept(s))
<1>. USE DEF Chart!none, Chart!Total
<1>1. s \in View
  BY DEF Drawn
<1>. DEFINE off == [s EXCEPT !.url.meter = "none", !.lost = @ \/ Chart!isGood(s)]
<1>2. Chart!linkKept(s) = IF ~Valid(s) /\ Resolvable(s) THEN off ELSE s
  BY <1>1, ScopeFacts DEF Chart!linkKept, Resolvable
<1>3. CASE ~Valid(s) /\ Resolvable(s)
  <2>1. s.lost = FALSE /\ Chart!isGood(s) = FALSE
    BY <1>3, GoodLinkIsValid DEF Drawn, Chart!isGood
  <2>2. [s.url EXCEPT !.meter = "none"] \in Address /\ [s.url EXCEPT !.meter = "none"].meter = "none"
    BY <1>1 DEF View, Address
  <2>3. off = [s EXCEPT !.url = [s.url EXCEPT !.meter = "none"], !.lost = FALSE]
    BY <1>1, <2>1 DEF View
  <2>. HIDE DEF off
  <2>4. /\ off \in View /\ off.url.meter = "none" /\ off.quality = s.quality /\ off.gaps = s.gaps
        /\ off.zevs = s.zevs /\ off.kind = s.kind /\ off.lost = FALSE /\ off.asked = s.asked
    BY <1>1, <2>2, <2>3 DEF View
  <2>5. Drawn(off)
    BY <2>4 DEF Drawn, Chart!isManagedScope
  <2>6. Valid(off)
    BY <2>4 DEF Valid
  <2>. QED  BY <1>2, <1>3, <2>5, <2>6 DEF ChartInv
<1>4. CASE ~(~Valid(s) /\ Resolvable(s))
  BY <1>2, <1>4 DEF ChartInv
<1>. QED  BY <1>3, <1>4

\* Asking for a list leaves what is known of it as it was.
LEMMA ObservedFacts ==
    ASSUME NEW s, ChartInv(s) PROVE ChartInv(Chart!observed(s))
<1>. USE DEF Chart!none, Chart!Total
<1>1. s \in View /\ s.lists \in [Communities -> Chart!Query]
  BY DEF ChartInv, Drawn, View
<1>2. CASE /\ Chart!selectedZevId(s) # "none" /\ Chart!theList(s) = Chart!idle
           /\ Chart!observed(s) = [s EXCEPT !.lists[Chart!selectedZevId(s)] = Chart!asking]
  <2>. DEFINE lists == [s.lists EXCEPT ![s.pick] = Chart!asking]
              t == [s EXCEPT !.lists = lists]
  <2>1. s.pick \in Communities /\ Chart!selectedZevId(s) = s.pick
    BY <1>1, <1>2, ScopeFacts
  <2>2. Chart!asking \in Chart!Query /\ Chart!asking.data = FALSE
    BY DEF Chart!asking, Chart!Query
  <2>3. lists \in [Communities -> Chart!Query] /\ lists[s.pick] = Chart!asking
    BY <1>1, <2>1, <2>2
  <2>. HIDE DEF lists
  <2>4. Chart!observed(s) = t
    BY <1>1, <1>2, <2>1 DEF View, lists
  <2>5. /\ t \in View /\ t.quality = s.quality /\ t.gaps = s.gaps /\ t.lists = lists
        /\ t.zevs = s.zevs /\ t.kind = s.kind /\ t.lost = s.lost /\ t.asked = s.asked
        /\ t.pick = s.pick /\ t.held = s.held /\ t.url = s.url
    BY <1>1, <2>3 DEF View
  <2>. HIDE DEF t
  <2>6. Drawn(t)
    BY <2>5 DEF ChartInv, Drawn, Chart!isManagedScope
  <2>7. Chart!selectedZevId(t) = Chart!selectedZevId(s) /\ Chart!isManagedScope(t) = Chart!isManagedScope(s)
    BY <2>5 DEF Chart!selectedZevId, Chart!isManagedScope
  <2>8. Chart!meterListResolved(t) = FALSE /\ Chart!meterListResolved(s) = FALSE
    BY <1>2, <2>1, <2>2, <2>3, <2>5, <2>7 DEF Chart!meterListResolved, Chart!theList, Chart!idle
  <2>9. Chart!meteringPoints(t) = {} /\ Chart!meteringPoints(s) = {}
    BY <2>8 DEF Chart!meteringPoints
  <2>10. Valid(t) = Valid(s) /\ Resolvable(t) = Resolvable(s)
    BY <2>5, <2>7, <2>8, <2>9 DEF Valid, Resolvable
  <2>. QED  BY <2>4, <2>6, <2>10 DEF ChartInv
<1>3. CASE Chart!observed(s) = s
  BY <1>3
<1>. QED  BY <1>2, <1>3 DEF Chart!observed

\* Gaps that are not shown are forgotten.
LEMMA GapsDroppedFacts ==
    ASSUME NEW s, ChartInv(s) PROVE ChartInv(Chart!gapsDropped(s))
<1>1. s \in View /\ s.asked \in BOOLEAN
  BY DEF ChartInv, Drawn, View
<1>. DEFINE visible == Chart!gapsPoint(s) # {}
            t == [s EXCEPT !.gaps = IF visible THEN s.gaps ELSE {}, !.asked = s.asked /\ visible]
<1>2. Chart!gapsDropped(s) = t
  BY <1>1 DEF Chart!gapsDropped, View
<1>. HIDE DEF visible
<1>3. /\ t \in View /\ t.quality = s.quality /\ t.gaps = (IF visible THEN s.gaps ELSE {})
      /\ t.zevs = s.zevs /\ t.kind = s.kind /\ t.lost = s.lost /\ t.asked = (s.asked /\ visible)
      /\ t.pick = s.pick /\ t.held = s.held /\ t.url = s.url /\ t.lists = s.lists
  BY <1>1 DEF View
<1>. HIDE DEF t
<1>4. Drawn(t)
  BY <1>1, <1>3 DEF ChartInv, Drawn, Chart!isManagedScope, AtMostOne, visible
<1>5. Valid(t) = Valid(s) /\ Resolvable(t) = Resolvable(s)
  BY <1>3 DEF Valid, Resolvable, Chart!isManagedScope, Chart!selectedZevId, Chart!meteringPoints,
              Chart!meterListResolved, Chart!theList, Chart!listed
<1>. QED  BY <1>2, <1>4, <1>5 DEF ChartInv

LEMMA SettledFacts ==
    ASSUME NEW s, Drawn(s) PROVE ChartInv(Chart!settled(s))
<1>1. ChartInv(Chart!linkKept(s))
  BY LinkKeptFacts
<1>2. ChartInv(Chart!observed(Chart!linkKept(s)))
  BY <1>1, ObservedFacts
<1>. QED  BY <1>2, GapsDroppedFacts DEF Chart!settled

LEMMA ChartCardinality ==
    ASSUME NEW S, AtMostOne(S) PROVE Chart!Cardinality(S) <= 1 /\ (Chart!Cardinality(S) = 1 => S # {})
<1>1. Chart!Cardinality(S) = Cardinality(S)
  BY DEF Chart!Cardinality, Cardinality
<1>2. CASE S = {}
  BY <1>1, <1>2, FS_EmptySet
<1>3. CASE S # {}
  <2>1. PICK x : S = {x}
    BY <1>3 DEF AtMostOne
  <2>2. Cardinality(S) = 1
    BY <2>1, FS_Singleton
  <2>. QED  BY <1>1, <1>3, <2>2
<1>. QED  BY <1>2, <1>3

\* What is asked for is of this community.
LEMMA ChartAsksForItsOwn ==
    ASSUME NEW s, ChartInv(s)
    PROVE  /\ Chart!chartQuery(s) \subseteq
                 Chart!listed(s) \cup (IF Chart!isManagedScope(s) THEN {"zev_total"} ELSE {})
           /\ Chart!qualityQuery(s) \subseteq Chart!listed(s) \cup {"none"}
<1>. USE DEF Chart!none, Chart!Total
<1>1. s \in View /\ "zev_total" \notin Meters /\ Chart!meteringPoints(s) \subseteq Chart!listed(s)
  BY ScopeFacts, PagesAssumption DEF ChartInv, Drawn
<1>2. Chart!resolveMeterSelection(s).meter \in
         {"none"} \cup Chart!listed(s) \cup (IF Chart!isManagedScope(s) THEN {"zev_total"} ELSE {})
  BY <1>1, ScopeFacts DEF Valid
<1>3. Chart!defaultMeterSelection(s).meter \in
         {"none"} \cup Chart!listed(s) \cup (IF Chart!isManagedScope(s) THEN {"zev_total"} ELSE {})
  <2>1. CASE Chart!isManagedScope(s)
    BY <2>1 DEF Chart!defaultMeterSelection
  <2>2. CASE ~Chart!isManagedScope(s)
    <3>. DEFINE P == Chart!meteringPoints(s)
    <3>1. Chart!Cardinality({}) # 1
      BY FS_EmptySet DEF Chart!Cardinality, Cardinality
    <3>2. Chart!defaultMeterSelection(s).meter =
             IF Chart!Cardinality(P) = 1 THEN CHOOSE m \in P : TRUE ELSE "none"
      BY <2>2 DEF Chart!defaultMeterSelection
    <3>. HIDE DEF P
    <3>3. Chart!defaultMeterSelection(s).meter \in P \cup {"none"}
      BY <3>1, <3>2
    <3>. QED  BY <1>1, <3>3 DEF P
  <2>. QED  BY <2>1, <2>2
<1>4. Chart!chartQuery(s) \subseteq
         Chart!listed(s) \cup (IF Chart!isManagedScope(s) THEN {"zev_total"} ELSE {})
  BY <1>2, <1>3 DEF Chart!chartQuery, Chart!chartMp
<1>5. Chart!qualityQuery(s) \subseteq Chart!listed(s) \cup {"none"}
  BY <1>2 DEF Chart!qualityQuery, Chart!qualityMeteringPointFilter
<1>. QED  BY <1>4, <1>5

\* The chart's panel shows a chart, a skeleton or a reason, or else its bar says
\* that the list failed.
LEMMA ChartPanelShows ==
    ASSUME NEW s, ChartInv(s), Chart!isManagedScope(s) => s.zevs.data,
           ~Chart!listFailed(s), s.url.tab = "chart"
    PROVE  Chart!chartPanel(s) # {}
<1>. USE DEF Chart!none, Chart!Total
<1>1. s \in View /\ s.url.meter \in Meters \cup {"none", "zev_total"}
  BY DEF ChartInv, Drawn, View, Address
<1>2. Chart!isManagedScope(s) => Chart!selectedZevId(s) # "none"
  BY <1>1, ScopeFacts DEF Chart!selectedZevId
<1>. DEFINE message ==
       CASE Chart!isResolvingMpSelection(s) \/ Chart!awaitingMeterList(s) -> {"skeleton"}
         [] Chart!hasNoMeters(s) -> {"noMeters"}
         [] Chart!chartMp(s) = "none" /\ s.url.meter = "none" /\ Chart!meterListResolved(s) ->
               {"noPointSelected"}
         [] OTHER -> {}
     chart == IF Chart!showChart(s) THEN Chart!chartQuery(s) ELSE {}
<1>3. Chart!chartPanel(s) = message \cup chart
  BY DEF Chart!chartPanel
<1>. SUFFICES ASSUME message = {} PROVE chart # {}
  BY <1>3
<1>4. ~Chart!isResolvingMpSelection(s) /\ ~Chart!awaitingMeterList(s) /\ ~Chart!hasNoMeters(s)
  OBVIOUS
<1>5. ~(Chart!chartMp(s) = "none" /\ s.url.meter = "none" /\ Chart!meterListResolved(s))
  BY <1>4
<1>. HIDE DEF message
<1>6. Chart!periodReady(s)
  BY DEF Chart!periodReady, Chart!hasScope
<1>7. Chart!chartMp(s) # "none"
  <2>1. CASE s.url.meter = "none"
    <3>1. CASE Chart!isManagedScope(s)
      BY <1>2, <2>1, <3>1 DEF Chart!chartMp, Chart!defaultMeterSelection
    <3>2. CASE ~Chart!isManagedScope(s)
      <4>1. Chart!meterListResolved(s)
        BY <1>4, <2>1, <3>2 DEF Chart!isResolvingMpSelection, Chart!defaultMeterSelection
      <4>. QED  BY <1>5, <2>1, <4>1
    <3>. QED  BY <3>1, <3>2
  <2>2. CASE s.url.meter = "zev_total"
    <3>1. Chart!isManagedScope(s)
      BY <2>2 DEF ChartInv, Valid, Resolvable
    <3>2. Valid(s)
      BY <1>2, <2>2, <3>1 DEF Valid
    <3>. QED  BY <1>1, <2>2, <3>2, ScopeFacts DEF Chart!chartMp
  <2>3. CASE s.url.meter \in Meters /\ s.url.meter \notin {"none", "zev_total"}
    <3>1. Chart!meterListResolved(s)
      <4>. SUFFICES ASSUME ~Chart!meterListResolved(s) PROVE FALSE
        OBVIOUS
      <4>1. Chart!listPending(s)
        BY DEF Chart!listPending, Chart!meterListResolved, Chart!listFailed
      <4>. QED  BY <1>1, <1>4, <2>3, <4>1, ScopeFacts DEF Chart!isResolvingMpSelection
    <3>2. Valid(s)
      BY <2>3, <3>1 DEF ChartInv, Resolvable
    <3>. QED  BY <1>1, <2>3, <3>2, ScopeFacts DEF Chart!chartMp
  <2>. QED  BY <1>1, <2>1, <2>2, <2>3
<1>. QED  BY <1>4, <1>6, <1>7 DEF Chart!showChart, Chart!chartQuery

LEMMA ChartNeverBlank ==
    ASSUME NEW s, ChartInv(s) PROVE Chart!shown(s) # {}
<1>. USE DEF Chart!none, Chart!Total
<1>1. s \in View /\ s.url.tab \in {"chart", "quality", "imports"}
  BY DEF ChartInv, Drawn, View, Address, Chart!Tabs
<1>2. CASE Chart!ScopeGuard(s) # "children"
  BY <1>2 DEF Chart!shown
<1>3. CASE Chart!ScopeGuard(s) = "children"
  <2>1. Chart!isManagedScope(s) => s.zevs.data
    BY <1>3 DEF Chart!ScopeGuard, Chart!hasScope
  <2>. DEFINE panel == CASE s.url.tab = "chart"   -> Chart!chartPanel(s)
                         [] s.url.tab = "quality" -> Chart!qualityPanel(s)
                         [] OTHER -> {"imports"}
  <2>2. Chart!shown(s) = Chart!filterBar(s) \cup panel
    BY <1>3 DEF Chart!shown
  <2>3. CASE s.url.tab = "imports"
    BY <2>2, <2>3
  <2>4. CASE s.url.tab # "imports" /\ Chart!listFailed(s)
    BY <2>2, <2>4 DEF Chart!filterBar
  <2>5. CASE s.url.tab = "chart" /\ ~Chart!listFailed(s)
    BY <2>1, <2>2, <2>5, ChartPanelShows
  <2>6. CASE s.url.tab = "quality" /\ ~Chart!listFailed(s)
    <3>1. Chart!isManagedScope(s) => Chart!selectedZevId(s) # "none"
      BY <1>1, <2>1, ScopeFacts DEF Chart!selectedZevId
    <3>2. Chart!periodReady(s)
      BY <2>1 DEF Chart!periodReady, Chart!hasScope
    <3>3. Chart!qualityPanel(s) # {}
      <4>1. CASE s.url.meter \notin {"none", "zev_total"} /\ ~Chart!meterListResolved(s)
        <5>1. Chart!listPending(s)
          BY <2>6, <4>1 DEF Chart!listPending, Chart!meterListResolved, Chart!listFailed
        <5>. QED  BY <4>1, <5>1 DEF Chart!qualityPanel
      <4>2. CASE ~(s.url.meter \notin {"none", "zev_total"} /\ ~Chart!meterListResolved(s))
        BY <2>6, <3>1, <3>2, <4>2 DEF Chart!qualityPanel, Chart!qualityQuery
      <4>. QED  BY <4>1, <4>2
    <3>. QED  BY <2>2, <2>6, <3>3
  <2>. QED  BY <1>1, <2>3, <2>4, <2>5, <2>6
<1>. QED  BY <1>2, <1>3

\* One answer of a query, and the query asked again, are queries that are not idle.
LEMMA QueryFacts ==
    ASSUME NEW q \in Chart!Query
    PROVE  /\ Chart!answered(q) \subseteq Chart!Query /\ Chart!idle \notin Chart!answered(q)
           /\ Chart!again(q) \in Chart!Query /\ Chart!again(q) # Chart!idle
<1>1. q.data \in BOOLEAN /\ q.failed \in BOOLEAN
  BY DEF Chart!Query
<1>2. Chart!again(q) \in Chart!Query /\ Chart!again(q).fetching = TRUE
  BY <1>1 DEF Chart!again, Chart!Query
<1>3. /\ [q EXCEPT !.failed = TRUE, !.fetching = FALSE] \in Chart!Query
      /\ [q EXCEPT !.failed = TRUE, !.fetching = FALSE].failed = TRUE
  BY DEF Chart!Query
<1>4. [data |-> TRUE, failed |-> FALSE, fetching |-> FALSE] \in Chart!Query
  BY DEF Chart!Query
<1>5. Chart!idle.fetching = FALSE /\ Chart!idle.failed = FALSE /\ Chart!idle.data = FALSE
  BY DEF Chart!idle
<1>6. Chart!again(q) # Chart!idle
  BY <1>2, <1>5
<1>7. Chart!idle # [q EXCEPT !.failed = TRUE, !.fetching = FALSE]
  BY <1>3, <1>5
<1>8. Chart!idle # [data |-> TRUE, failed |-> FALSE, fetching |-> FALSE]
  BY <1>5
<1>9. Chart!answered(q) = {[data |-> TRUE, failed |-> FALSE, fetching |-> FALSE],
                           [q EXCEPT !.failed = TRUE, !.fetching = FALSE]}
  BY DEF Chart!answered
<1>. QED  BY <1>2, <1>3, <1>4, <1>6, <1>7, <1>8, <1>9

\* Another address, community, list or set of gaps is drawn, then settled.
LEMMA Redrawn ==
    ASSUME NEW s, Drawn(s), NEW t \in View, t.kind = s.kind, t.lost = s.lost,
           AtMostOne(t.quality), AtMostOne(t.gaps),
           t.zevs = s.zevs \/ t.zevs # Chart!idle, t.gaps # {} => t.asked = TRUE
    PROVE  Drawn(t)
BY DEF Drawn, Chart!isManagedScope

LEMMA ElsewhereFacts ==
    ASSUME NEW s, Drawn(s), Chart!elsewhere(s) PROVE ChartInv(view')
<1>1. PICK cached \in Chart!cachedReports(s) : view' = Chart!settled([s EXCEPT !.quality = cached])
  BY DEF Chart!elsewhere
<1>2. s \in View
  BY DEF Drawn
<1>3. cached \in SUBSET SUBSET Meters /\ AtMostOne(cached)
  <2>1. Chart!listed(s) \subseteq Meters
    BY <1>2, ScopeFacts
  <2>. QED  BY <2>1 DEF Chart!cachedReports, AtMostOne
<1>. DEFINE t == [s EXCEPT !.quality = cached]
<1>4. /\ t \in View /\ t.kind = s.kind /\ t.lost = s.lost /\ t.quality = cached /\ t.gaps = s.gaps
      /\ t.zevs = s.zevs /\ t.asked = s.asked
  BY <1>2, <1>3 DEF View
<1>. HIDE DEF t
<1>5. Drawn(t)
  BY <1>3, <1>4 DEF Drawn, Chart!isManagedScope
<1>. QED  BY <1>1, <1>5, SettledFacts DEF t

\* Another address.
LEMMA UrlDrawn ==
    ASSUME NEW s, Drawn(s), NEW url \in Address
    PROVE  Drawn([s EXCEPT !.url = url])
<1>. DEFINE t == [s EXCEPT !.url = url]
<1>1. s \in View
  BY DEF Drawn
<1>2. /\ t \in View /\ t.kind = s.kind /\ t.lost = s.lost /\ t.quality = s.quality /\ t.gaps = s.gaps
      /\ t.zevs = s.zevs /\ t.asked = s.asked
  BY <1>1 DEF View
<1>. HIDE DEF t
<1>3. Drawn(t)
  BY <1>2 DEF Drawn, Chart!isManagedScope
<1>. QED  BY <1>3 DEF t

LEMMA ChartMoves ==
    ASSUME ChartInv(view),
           \/ \E meter \in Meters \cup {"none", "zev_total"} : Chart!handleMpChange(meter)
           \/ \E tab \in Chart!Tabs : Chart!handleTabChange(tab)
           \/ \E period \in Periods : Chart!handlePeriodChange(period)
           \/ \E zev2 \in Communities : Chart!setSelectedZevId(zev2)
           \/ Chart!toggleSeverity
           \/ \E meter \in Meters : Chart!handleJumpToChart(meter)
    PROVE  ChartInv(view')
<1>1. view \in View /\ view.url \in Address /\ Drawn(view)
  BY DEF ChartInv, Drawn, View
<1>2. ASSUME NEW meter \in Meters \cup {"none", "zev_total"}, Chart!handleMpChange(meter)
      PROVE  ChartInv(view')
  <2>. DEFINE url == [view.url EXCEPT !.meter = meter]
  <2>1. url \in Address
    BY <1>1 DEF Address
  <2>2. [view EXCEPT !.url.meter = meter] = [view EXCEPT !.url = url]
    BY <1>1 DEF View
  <2>3. Chart!elsewhere([view EXCEPT !.url = url])
    BY <1>2, <2>2 DEF Chart!handleMpChange
  <2>. HIDE DEF url
  <2>. QED  BY <1>1, <2>1, <2>3, UrlDrawn, ElsewhereFacts
<1>3. ASSUME NEW tab \in Chart!Tabs, Chart!handleTabChange(tab) PROVE ChartInv(view')
  <2>. DEFINE url == [view.url EXCEPT !.tab = tab]
  <2>1. url \in Address
    BY <1>1 DEF Address
  <2>2. [view EXCEPT !.url.tab = tab] = [view EXCEPT !.url = url]
    BY <1>1 DEF View
  <2>3. Chart!elsewhere([view EXCEPT !.url = url])
    BY <1>3, <2>2 DEF Chart!handleTabChange
  <2>. HIDE DEF url
  <2>. QED  BY <1>1, <2>1, <2>3, UrlDrawn, ElsewhereFacts
<1>4. ASSUME NEW period \in Periods, Chart!handlePeriodChange(period) PROVE ChartInv(view')
  <2>. DEFINE url == [view.url EXCEPT !.period = period]
  <2>1. url \in Address
    BY <1>1 DEF Address
  <2>2. [view EXCEPT !.url.period = period] = [view EXCEPT !.url = url]
    BY <1>1 DEF View
  <2>3. Chart!elsewhere([view EXCEPT !.url = url])
    BY <1>4, <2>2 DEF Chart!handlePeriodChange
  <2>. HIDE DEF url
  <2>. QED  BY <1>1, <2>1, <2>3, UrlDrawn, ElsewhereFacts
<1>5. ASSUME NEW c \in Communities, Chart!setSelectedZevId(c) PROVE ChartInv(view')
  <2>. DEFINE t == [view EXCEPT !.pick = c]
  <2>1. /\ t \in View /\ t.kind = view.kind /\ t.lost = view.lost /\ t.quality = view.quality
        /\ t.gaps = view.gaps /\ t.zevs = view.zevs /\ t.asked = view.asked
    BY <1>1 DEF View
  <2>2. Chart!elsewhere(t)
    BY <1>5 DEF Chart!setSelectedZevId
  <2>. HIDE DEF t
  <2>3. Drawn(t)
    BY <1>1, <2>1 DEF Drawn, Chart!isManagedScope
  <2>. QED  BY <2>2, <2>3, ElsewhereFacts
<1>6. CASE Chart!toggleSeverity
  <2>. DEFINE url == [view.url EXCEPT !.severity = ~view.url.severity]
  <2>1. url \in Address
    BY <1>1 DEF Address
  <2>2. view' = Chart!settled([view EXCEPT !.url.severity = ~@])
    BY <1>6 DEF Chart!toggleSeverity
  <2>3. [view EXCEPT !.url.severity = ~@] = [view EXCEPT !.url = url]
    BY <1>1 DEF View
  <2>4. view' = Chart!settled([view EXCEPT !.url = url])
    BY <2>2, <2>3
  <2>. HIDE DEF url
  <2>. QED  BY <1>1, <2>1, <2>4, UrlDrawn, SettledFacts
<1>7. ASSUME NEW meter \in Meters, Chart!handleJumpToChart(meter) PROVE ChartInv(view')
  <2>. DEFINE url == [view.url EXCEPT !.tab = "chart", !.meter = meter]
  <2>1. url \in Address
    BY <1>1 DEF Address, Chart!Tabs
  <2>2. [view EXCEPT !.url.tab = "chart", !.url.meter = meter] = [view EXCEPT !.url = url]
    BY <1>1 DEF View
  <2>3. Chart!elsewhere([view EXCEPT !.url = url])
    BY <1>7, <2>2 DEF Chart!handleJumpToChart
  <2>. HIDE DEF url
  <2>. QED  BY <1>1, <2>1, <2>3, UrlDrawn, ElsewhereFacts
<1>. QED  BY <1>2, <1>3, <1>4, <1>5, <1>6, <1>7

LEMMA ChartGaps ==
    ASSUME ChartInv(view),
           Chart!closeGaps \/ Chart!handleGoToImports \/ \E meter \in Meters : Chart!openGaps(meter)
    PROVE  ChartInv(view')
<1>. USE DEF Chart!none, Chart!Total
<1>1. view \in View /\ view.url \in Address /\ Drawn(view) /\ AtMostOne(view.quality)
  BY DEF ChartInv, Drawn, View
<1>. DEFINE shut == [view EXCEPT !.gaps = {}]
<1>2. /\ shut \in View /\ shut.kind = view.kind /\ shut.lost = view.lost
      /\ shut.quality = view.quality /\ shut.gaps = {} /\ shut.zevs = view.zevs
      /\ shut.url = view.url
  BY <1>1 DEF View
<1>3. Drawn(shut)
  <2>. HIDE DEF shut
  <2>1. AtMostOne(shut.gaps)
    BY <1>2 DEF AtMostOne
  <2>. QED  BY <1>1, <1>2, <2>1, Redrawn
<1>4. CASE Chart!closeGaps
  BY <1>3, <1>4, SettledFacts DEF Chart!closeGaps
<1>5. CASE Chart!handleGoToImports
  <2>. DEFINE url == [view.url EXCEPT !.tab = "imports"]
  <2>1. url \in Address
    BY <1>1 DEF Address, Chart!Tabs
  <2>2. [view EXCEPT !.gaps = {}, !.url.tab = "imports"] = [shut EXCEPT !.url = url]
    BY <1>1 DEF View
  <2>3. Chart!elsewhere([shut EXCEPT !.url = url])
    BY <1>5, <2>2 DEF Chart!handleGoToImports
  <2>. HIDE DEF url, shut
  <2>. QED  BY <1>3, <2>1, <2>3, UrlDrawn, ElsewhereFacts
<1>6. ASSUME NEW meter \in Meters, Chart!openGaps(meter) PROVE ChartInv(view')
  <2>. DEFINE g == [meter |-> meter, context |-> Chart!gapsContext(view)]
              t == [view EXCEPT !.gaps = {g}, !.asked = TRUE]
  <2>1. Chart!gapsContext(view) \in Address \X (Communities \cup {"none"})
    BY <1>1, ScopeFacts DEF Chart!gapsContext
  <2>2. g \in Gaps
    BY <2>1 DEF Gaps
  <2>3. view' = Chart!settled(t)
    BY <1>6 DEF Chart!openGaps
  <2>. HIDE DEF g
  <2>4. /\ t \in View /\ t.kind = view.kind /\ t.lost = view.lost
        /\ t.quality = view.quality /\ t.gaps = {g} /\ t.zevs = view.zevs /\ t.asked = TRUE
    BY <1>1, <2>2 DEF View
  <2>. HIDE DEF t
  <2>5. Drawn(t)
    <3>1. AtMostOne(t.gaps)
      BY <2>4 DEF AtMostOne
    <3>. QED  BY <1>1, <2>4, <3>1, Redrawn
  <2>. QED  BY <2>3, <2>5, SettledFacts
<1>. QED  BY <1>4, <1>5, <1>6

LEMMA ChartAnswers ==
    ASSUME ChartInv(view),
           \/ Chart!zevsAnswer \/ Chart!refetchZevs \/ Chart!refetchList
           \/ \E zev2 \in Communities : Chart!listAnswers(zev2)
           \/ \E rows \in SUBSET Meters : Chart!qualityAnswers(rows)
    PROVE  ChartInv(view')
<1>. USE DEF Chart!none, Chart!Total
<1>1. /\ view \in View /\ Drawn(view) /\ AtMostOne(view.quality) /\ AtMostOne(view.gaps)
      /\ view.zevs \in Chart!Query /\ view.lists \in [Communities -> Chart!Query]
      /\ (view.gaps # {} => view.asked = TRUE)
  BY DEF ChartInv, Drawn, View
<1>2. ASSUME NEW q \in Chart!Query, q # Chart!idle, view' = Chart!settled([view EXCEPT !.zevs = q])
      PROVE  ChartInv(view')
  <2>. DEFINE t == [view EXCEPT !.zevs = q]
  <2>1. /\ t \in View /\ t.kind = view.kind /\ t.lost = view.lost /\ t.asked = view.asked
        /\ t.quality = view.quality /\ t.gaps = view.gaps /\ t.zevs = q
    BY <1>1 DEF View
  <2>. HIDE DEF t
  <2>2. Drawn(t)
    BY <1>1, <1>2, <2>1, Redrawn
  <2>. QED  BY <1>2, <2>2, SettledFacts DEF t
<1>3. ASSUME NEW c \in Communities, NEW q \in Chart!Query,
             view' = Chart!settled([view EXCEPT !.lists[c] = q])
      PROVE  ChartInv(view')
  <2>. DEFINE lists == [view.lists EXCEPT ![c] = q]
              t == [view EXCEPT !.lists = lists]
  <2>1. lists \in [Communities -> Chart!Query]
    BY <1>1
  <2>2. [view EXCEPT !.lists[c] = q] = t
    BY <1>1 DEF View
  <2>. HIDE DEF lists
  <2>3. /\ t \in View /\ t.kind = view.kind /\ t.lost = view.lost /\ t.asked = view.asked
        /\ t.quality = view.quality /\ t.gaps = view.gaps /\ t.zevs = view.zevs
    BY <1>1, <2>1 DEF View
  <2>4. view' = Chart!settled(t)
    BY <1>3, <2>2
  <2>. HIDE DEF t
  <2>5. Drawn(t)
    BY <1>1, <2>3, Redrawn
  <2>. QED  BY <2>4, <2>5, SettledFacts
<1>4. CASE Chart!zevsAnswer
  <2>1. PICK q \in Chart!answered(view.zevs) : view' = Chart!settled([view EXCEPT !.zevs = q])
    BY <1>4 DEF Chart!zevsAnswer
  <2>2. q \in Chart!Query /\ q # Chart!idle
    BY <1>1, QueryFacts
  <2>. QED  BY <1>2, <2>1, <2>2
<1>5. CASE Chart!refetchZevs
  <2>1. view' = Chart!settled([view EXCEPT !.zevs = Chart!again(view.zevs)])
    BY <1>5 DEF Chart!refetchZevs
  <2>. QED  BY <1>1, <1>2, <2>1, QueryFacts
<1>6. CASE Chart!refetchList
  <2>. DEFINE c == Chart!selectedZevId(view)
              q == Chart!again(view.lists[c])
  <2>1. Chart!theList(view) # Chart!idle /\ view' = Chart!settled([view EXCEPT !.lists[c] = q])
    BY <1>6 DEF Chart!refetchList
  <2>2. c \in Communities
    BY <1>1, <2>1, ScopeFacts DEF Chart!theList
  <2>3. q \in Chart!Query
    BY <1>1, <2>2, QueryFacts
  <2>. HIDE DEF c, q
  <2>. QED  BY <1>3, <2>1, <2>2, <2>3
<1>7. ASSUME NEW c \in Communities, Chart!listAnswers(c) PROVE ChartInv(view')
  <2>1. PICK q \in Chart!answered(view.lists[c]) : view' = Chart!settled([view EXCEPT !.lists[c] = q])
    BY <1>7 DEF Chart!listAnswers
  <2>2. q \in Chart!Query
    BY <1>1, QueryFacts
  <2>. QED  BY <1>3, <2>1, <2>2
<1>8. ASSUME NEW rows \in SUBSET Meters, Chart!qualityAnswers(rows) PROVE ChartInv(view')
  <2>. DEFINE t == [view EXCEPT !.quality = {rows}]
  <2>1. /\ t \in View /\ t.kind = view.kind /\ t.lost = view.lost /\ t.asked = view.asked
        /\ t.quality = {rows} /\ t.gaps = view.gaps /\ t.zevs = view.zevs
    BY <1>1 DEF View
  <2>2. view' = Chart!settled(t)
    BY <1>8 DEF Chart!qualityAnswers
  <2>. HIDE DEF t
  <2>3. AtMostOne({rows})
    BY DEF AtMostOne
  <2>4. Drawn(t)
    BY <1>1, <2>1, <2>3, Redrawn
  <2>. QED  BY <2>2, <2>4, SettledFacts
<1>. QED  BY <1>4, <1>5, <1>6, <1>7, <1>8

LEMMA ChartStarts == Chart!Init => ChartInv(view)
<1>. USE DEF Chart!none, Chart!Total
<1>. SUFFICES ASSUME Chart!Init PROVE ChartInv(view)
  OBVIOUS
<1>1. PICK kind \in {"admin", "manager", "participant"}, held \in SUBSET Meters,
           pick \in Communities, meter \in Meters \cup {"none", "zev_total"}, tab \in {"chart", "quality"},
           cached \in SUBSET Communities, period \in Periods :
     /\ kind = "participant" => tab = "chart"
     /\ view = Chart!settled([kind |-> kind, held |-> held, pick |-> pick,
                zevs |-> IF kind = "participant" THEN Chart!idle ELSE Chart!asking,
                lists |-> [c \in Communities |-> [Chart!idle EXCEPT !.data = c \in cached]],
                url |-> [tab |-> tab, meter |-> meter, period |-> period, severity |-> FALSE],
                quality |-> {}, gaps |-> {}, asked |-> FALSE, lost |-> FALSE])
  BY Zenon DEF Chart!Init
<1>. DEFINE zevs == IF kind = "participant" THEN Chart!idle ELSE Chart!asking
            lists == [c \in Communities |-> [Chart!idle EXCEPT !.data = c \in cached]]
            url == [tab |-> tab, meter |-> meter, period |-> period, severity |-> FALSE]
            s == [kind |-> kind, held |-> held, pick |-> pick, zevs |-> zevs, lists |-> lists,
                  url |-> url, quality |-> {}, gaps |-> {}, asked |-> FALSE, lost |-> FALSE]
<1>2. zevs \in Chart!Query /\ (kind # "participant" => zevs # Chart!idle)
  BY DEF Chart!idle, Chart!asking, Chart!Query
<1>3. lists \in [Communities -> Chart!Query]
  <2>1. \A b \in BOOLEAN : [Chart!idle EXCEPT !.data = b] \in Chart!Query
    BY DEF Chart!idle, Chart!Query
  <2>2. ASSUME NEW c \in Communities PROVE [Chart!idle EXCEPT !.data = c \in cached] \in Chart!Query
    <3>1. (c \in cached) \in BOOLEAN
      OBVIOUS
    <3>. QED  BY <2>1, <3>1
  <2>. QED  BY <2>2
<1>4. url \in Address
  BY DEF Address, Chart!Tabs
<1>5. view = Chart!settled(s)
  BY <1>1
<1>. HIDE DEF zevs, lists, url
<1>6. /\ s \in View /\ s.quality = {} /\ s.gaps = {} /\ s.lost = FALSE /\ s.kind = kind /\ s.zevs = zevs
  BY <1>2, <1>3, <1>4 DEF View
<1>. HIDE DEF s
<1>7. Drawn(s)
  BY <1>2, <1>6 DEF Drawn, AtMostOne, Chart!isManagedScope
<1>. QED  BY <1>5, <1>7, SettledFacts

LEMMA ChartSteps ==
    ASSUME ChartInv(view), Chart!Next PROVE ChartInv(view')
<1>1. CASE \/ \E meter \in Meters \cup {"none", "zev_total"} : Chart!handleMpChange(meter)
           \/ \E tab \in Chart!Tabs : Chart!handleTabChange(tab)
           \/ \E period \in Periods : Chart!handlePeriodChange(period)
           \/ \E zev2 \in Communities : Chart!setSelectedZevId(zev2)
           \/ Chart!toggleSeverity
           \/ \E meter \in Meters : Chart!handleJumpToChart(meter)
  BY <1>1, ChartMoves
<1>2. CASE Chart!closeGaps \/ Chart!handleGoToImports \/ \E meter \in Meters : Chart!openGaps(meter)
  BY <1>2, ChartGaps
<1>3. CASE \/ Chart!zevsAnswer \/ Chart!refetchZevs \/ Chart!refetchList
           \/ \E zev2 \in Communities : Chart!listAnswers(zev2)
           \/ \E rows \in SUBSET Meters : Chart!qualityAnswers(rows)
  BY <1>3, ChartAnswers
<1>. QED  BY <1>1, <1>2, <1>3 DEF Chart!Next, Chart!none, Chart!Total

ChartPageInv == page = "metering" => ChartInv(view)

LEMMA ChartKeeps ==
    ASSUME ChartPageInv, PageNext \/ UNCHANGED pageVars PROVE ChartPageInv'
<1>1. page' = page
  BY DEF PageNext, pageVars
<1>. SUFFICES ASSUME page = "metering" PROVE ChartInv(view)'
  BY <1>1 DEF ChartPageInv
<1>2. ChartInv(view)
  BY DEF ChartPageInv
<1>3. Chart!Next \/ view' = view
  BY DEF PageNext, pageVars
<1>4. ChartInv(view')
  BY <1>2, <1>3, ChartSteps
<1>. QED  BY <1>4

(* The metering page follows its address, for any communities, meters and    *)
(* periods: a good link survives late lists and failures, something is       *)
(* always shown, only this community's meters are asked for, and gaps are    *)
(* shown only to who asked. The invariant is that a link the page can judge  *)
(* names something here: it holds because the effect that removes a link     *)
(* waits for the list, or for the community, that the link is judged by      *)
(* (MeteringChartPage).                                                      *)
THEOREM ChartFollowsTheAddressHolds == PageSpec => []ChartFollowsTheAddress
<1>1. PageInit => ChartPageInv
  BY ChartStarts DEF PageInit, ChartPageInv
<1>2. ChartPageInv /\ [PageNext]_pageVars => ChartPageInv'
  BY ChartKeeps
<1>3. ChartPageInv => ChartFollowsTheAddress
  <2>. SUFFICES ASSUME ChartInv(view) PROVE /\ Chart!GoodLinkSurvives /\ Chart!NeverBlank
                                             /\ Chart!AsksForItsOwn /\ Chart!GapsWereAskedFor
    BY DEF ChartPageInv, ChartFollowsTheAddress
  <2>1. Chart!GoodLinkSurvives
    BY DEF Chart!GoodLinkSurvives, ChartInv, Drawn
  <2>2. Chart!NeverBlank
    BY ChartNeverBlank DEF Chart!NeverBlank
  <2>3. Chart!AsksForItsOwn
    BY ChartAsksForItsOwn DEF Chart!AsksForItsOwn, Chart!none, Chart!Total
  <2>4. Chart!GapsWereAskedFor
    BY DEF Chart!GapsWereAskedFor, Chart!gapsPoint, ChartInv, Drawn
  <2>. QED  BY <2>1, <2>2, <2>3, <2>4
<1>. QED  BY <1>1, <1>2, <1>3, PTL DEF PageSpec

-----------------------------------------------------------------------------
(* Restoring a community *)

\* all that can be chosen, the first offered included
SomeBackup == Backups \cup {0} \cup {Section!Max(list) : list \in SUBSET Backups}
SomeZev    == Section!Archived \cup {0} \cup {Section!Min(Held[b]) : b \in SomeBackup}
Choice     == [backup : SomeBackup, zev : SomeZev]
Job        == [dry : BOOLEAN, of : Choice, moved : BOOLEAN,
               status : {"running", "completed", "failed"}, plan : Section!Plans]
Starting   == [dry : BOOLEAN, of : Choice, force : BOOLEAN, typed : Section!Archived \cup {0},
               shown : SUBSET Job, moved : BOOLEAN]
Restore    == [list : SUBSET Backups, pick : [backup : Backups \cup {0}, zev : Section!Archived \cup {0}],
               force : BOOLEAN, typed : Section!Archived \cup {0}, starting : SUBSET Starting,
               job : SUBSET Job, safe : BOOLEAN]

\* a request to restore was confirmed for the preview it was shown with
Confirmed(s) ==
    ~s.dry => \E j \in s.shown :
        /\ ~j.moved => s.of = j.of
        /\ s.typed = j.of.zev /\ ~j.plan.hard /\ (j.plan.soft => s.force)

\* what is asked for or shown is of what is chosen, unless that has moved
RestoreInv(r) ==
    /\ r \in Restore /\ AtMostOne(r.starting) /\ AtMostOne(r.job)
    /\ \A j \in r.job : ~j.moved => j.of = Section!chosen(r)
    /\ \A s \in r.starting : (~s.moved => s.of = Section!chosen(r)) /\ Confirmed(s)

LEMMA ChosenFacts ==
    ASSUME NEW r \in Restore
    PROVE  Section!chosen(r) \in Choice
<1>1. r.list \in SUBSET Backups /\ r.pick.backup \in Backups \cup {0} /\ r.pick.zev \in Section!Archived \cup {0}
  BY DEF Restore
<1>2. Section!backup(r) \in SomeBackup
  BY <1>1 DEF Section!backup, SomeBackup
<1>3. Section!selectedZev(r) \in SomeZev
  <2>1. CASE r.pick.zev \in Section!communitiesIn(r)
    BY <1>1, <2>1 DEF Section!selectedZev, SomeZev
  <2>2. CASE r.pick.zev \notin Section!communitiesIn(r) /\ Section!communitiesIn(r) = {}
    BY <2>2 DEF Section!selectedZev, SomeZev
  <2>3. CASE r.pick.zev \notin Section!communitiesIn(r) /\ Section!communitiesIn(r) # {}
    <3>1. Section!selectedZev(r) = Section!Min(Section!communitiesIn(r))
      BY <2>3 DEF Section!selectedZev
    <3>2. Section!communitiesIn(r) = Held[Section!backup(r)]
      BY <2>3 DEF Section!communitiesIn
    <3>. QED  BY <1>2, <3>1, <3>2 DEF SomeZev
  <2>. QED  BY <2>1, <2>2, <2>3
<1>. QED  BY <1>2, <1>3 DEF Section!chosen, Choice

\* What is chosen depends on the list and the pick alone.
LEMMA ChosenSame ==
    ASSUME NEW r, NEW t, t.list = r.list, t.pick = r.pick
    PROVE  Section!chosen(t) = Section!chosen(r)
<1>1. Section!backup(t) = Section!backup(r)
  BY DEF Section!backup
<1>2. Section!communitiesIn(t) = Section!communitiesIn(r)
  BY <1>1 DEF Section!communitiesIn
<1>3. Section!selectedZev(t) = Section!selectedZev(r)
  BY <1>2 DEF Section!selectedZev
<1>. QED  BY <1>1, <1>3 DEF Section!chosen

\* Requests and jobs under which the choice has moved.
LEMMA FlaggedFacts ==
    ASSUME NEW S
    PROVE  /\ S \in SUBSET Job => Section!flagged(S) \in SUBSET Job
           /\ S \in SUBSET Starting =>
                 /\ Section!flagged(S) \in SUBSET Starting
                 /\ (\A s \in S : Confirmed(s)) => \A s \in Section!flagged(S) : Confirmed(s)
           /\ S \in SUBSET Job \/ S \in SUBSET Starting => \A s \in Section!flagged(S) : s.moved
           /\ AtMostOne(S) => AtMostOne(Section!flagged(S))
<1>1. ASSUME NEW j \in Job PROVE [j EXCEPT !.moved = TRUE] \in Job /\ [j EXCEPT !.moved = TRUE].moved
  BY DEF Job
<1>2. ASSUME NEW s \in Starting
      PROVE  LET f == [s EXCEPT !.moved = TRUE]
             IN /\ f \in Starting /\ f.moved /\ f.dry = s.dry /\ f.of = s.of /\ f.shown = s.shown
                /\ f.typed = s.typed /\ f.force = s.force
  BY DEF Starting
<1>3. ASSUME NEW s \in Starting, Confirmed(s) PROVE Confirmed([s EXCEPT !.moved = TRUE])
  <2>. DEFINE f == [s EXCEPT !.moved = TRUE]
  <2>1. f.dry = s.dry /\ f.of = s.of /\ f.shown = s.shown /\ f.typed = s.typed /\ f.force = s.force
    BY <1>2
  <2>. HIDE DEF f
  <2>2. Confirmed(f)
    BY <1>3, <2>1 DEF Confirmed
  <2>. QED  BY <2>2 DEF f
<1>4. AtMostOne(S) => AtMostOne(Section!flagged(S))
  BY DEF AtMostOne, Section!flagged
<1>. QED  BY <1>1, <1>2, <1>3, <1>4 DEF Section!flagged

\* A step that leaves the choice, the requests and the jobs alone.
LEMMA RestoreSame ==
    ASSUME NEW r, RestoreInv(r), NEW t \in Restore, t.list = r.list, t.pick = r.pick,
           t.starting \subseteq r.starting, t.job \subseteq r.job
    PROVE  RestoreInv(t)
<1>1. Section!chosen(t) = Section!chosen(r)
  BY ChosenSame
<1>. QED  BY <1>1 DEF RestoreInv, AtMostOne

\* Another choice: no job is shown, and a request on its way is flagged.
LEMMA RestoreChoices ==
    ASSUME RestoreInv(restore),
           \/ \E b \in Backups : Section!selectBackup(b)
           \/ \E z \in Section!Archived : Section!selectZev(z)
           \/ \E loaded \in SUBSET Backups : Section!refetchBackups(loaded)
    PROVE  RestoreInv(restore')
<1>1. /\ restore \in Restore /\ restore.starting \in SUBSET Starting /\ restore.job \in SUBSET Job
      /\ AtMostOne(restore.starting) /\ AtMostOne(restore.job)
      /\ \A s \in restore.starting : Confirmed(s)
  BY DEF RestoreInv, Restore
<1>. DEFINE marked == Section!flagged(restore.starting)
            jobs == Section!flagged(restore.job)
<1>2. /\ marked \in SUBSET Starting /\ (\A s \in marked : Confirmed(s)) /\ (\A s \in marked : s.moved)
      /\ jobs \in SUBSET Job /\ (\A j \in jobs : j.moved) /\ AtMostOne(marked) /\ AtMostOne(jobs)
  BY <1>1, FlaggedFacts
<1>. HIDE DEF marked, jobs
<1>3. ASSUME NEW pick \in [backup : Backups \cup {0}, zev : Section!Archived \cup {0}],
             restore' = Section!reset(pick)
      PROVE  RestoreInv(restore')
  <2>0. 0 \in Section!Archived \cup {0}
    OBVIOUS
  <2>. DEFINE t == [restore EXCEPT !.pick = pick, !.force = FALSE, !.typed = 0, !.starting = marked,
                                   !.job = {}]
  <2>1. restore' = t
    BY <1>1, <1>3 DEF Section!reset, Restore, marked
  <2>2. t \in Restore /\ t.starting = marked /\ t.job = {}
    BY <1>1, <1>2, <2>0 DEF Restore
  <2>. HIDE DEF t
  <2>3. RestoreInv(t)
    BY <1>2, <2>2 DEF RestoreInv, AtMostOne
  <2>. QED  BY <2>1, <2>3
<1>4. ASSUME NEW b \in Backups, Section!selectBackup(b) PROVE RestoreInv(restore')
  <2>1. [backup |-> b, zev |-> 0] \in [backup : Backups \cup {0}, zev : Section!Archived \cup {0}]
    OBVIOUS
  <2>2. restore' = Section!reset([backup |-> b, zev |-> 0])
    BY <1>4 DEF Section!selectBackup
  <2>. QED  BY <1>3, <2>1, <2>2
<1>5. ASSUME NEW z \in Section!Archived, Section!selectZev(z) PROVE RestoreInv(restore')
  <2>1. [restore.pick EXCEPT !.zev = z] \in [backup : Backups \cup {0}, zev : Section!Archived \cup {0}]
    BY <1>1 DEF Restore
  <2>2. restore' = Section!reset([restore.pick EXCEPT !.zev = z])
    BY <1>5 DEF Section!selectZev
  <2>. QED  BY <1>3, <2>1, <2>2
<1>6. ASSUME NEW loaded \in SUBSET Backups, Section!refetchBackups(loaded) PROVE RestoreInv(restore')
  <2>. DEFINE list == Section!restorableBackups(loaded)
              t == [restore EXCEPT !.list = list]
              u == [t EXCEPT !.starting = marked, !.job = jobs]
  <2>1. list \in SUBSET Backups
    BY DEF Section!restorableBackups
  <2>2. restore' = IF Section!chosen(t) = Section!chosen(restore) THEN t ELSE u
    <3>1. t.starting = restore.starting /\ t.job = restore.job
      BY <1>1 DEF Restore
    <3>2. restore' = IF Section!chosen(t) = Section!chosen(restore) THEN t
                     ELSE [t EXCEPT !.starting = Section!flagged(@), !.job = Section!flagged(@)]
      BY <1>6 DEF Section!refetchBackups
    <3>. QED  BY <3>1, <3>2 DEF marked, jobs
  <2>. HIDE DEF list
  <2>3. t \in Restore /\ t.starting = restore.starting /\ t.job = restore.job
    BY <1>1, <2>1 DEF Restore
  <2>4. u \in Restore /\ u.starting = marked /\ u.job = jobs
    BY <1>2, <2>3 DEF Restore
  <2>. HIDE DEF t, u
  <2>5. CASE Section!chosen(t) = Section!chosen(restore)
    <3>1. RestoreInv(t)
      BY <2>3, <2>5 DEF RestoreInv
    <3>. QED  BY <2>2, <2>5, <3>1
  <2>6. CASE Section!chosen(t) # Section!chosen(restore)
    <3>1. RestoreInv(u)
      BY <1>2, <2>4 DEF RestoreInv
    <3>. QED  BY <2>2, <2>6, <3>1
  <2>. QED  BY <2>5, <2>6
<1>. QED  BY <1>4, <1>5, <1>6

LEMMA RestoreTyping ==
    ASSUME RestoreInv(restore),
           \/ Section!setForce \/ \E name \in Section!Archived \cup {0} : Section!setConfirmText(name)
           \/ Section!startFails \/ Section!reopen
    PROVE  RestoreInv(restore')
<1>1. restore \in Restore /\ restore.force \in BOOLEAN
  BY DEF RestoreInv, Restore
<1>2. CASE Section!setForce
  <2>1. restore' = [restore EXCEPT !.force = ~restore.force] /\ (~restore.force) \in BOOLEAN
    BY <1>1, <1>2 DEF Section!setForce
  <2>2. /\ restore' \in Restore /\ restore'.list = restore.list /\ restore'.pick = restore.pick
        /\ restore'.starting = restore.starting /\ restore'.job = restore.job
    BY <1>1, <2>1 DEF Restore
  <2>. QED  BY <2>2, RestoreSame
<1>3. ASSUME NEW name \in Section!Archived \cup {0}, Section!setConfirmText(name)
      PROVE  RestoreInv(restore')
  <2>1. restore' = [restore EXCEPT !.typed = name]
    BY <1>3 DEF Section!setConfirmText
  <2>2. /\ restore' \in Restore /\ restore'.list = restore.list /\ restore'.pick = restore.pick
        /\ restore'.starting = restore.starting /\ restore'.job = restore.job
    BY <1>1, <2>1 DEF Restore
  <2>. QED  BY <2>2, RestoreSame
<1>4. CASE Section!startFails
  <2>1. restore' = [restore EXCEPT !.starting = {}]
    BY <1>4 DEF Section!startFails
  <2>2. /\ restore' \in Restore /\ restore'.list = restore.list /\ restore'.pick = restore.pick
        /\ restore'.starting = {} /\ restore'.job = restore.job
    BY <1>1, <2>1 DEF Restore
  <2>. QED  BY <2>2, RestoreSame
<1>5. CASE Section!reopen
  <2>1. Section!restorableBackups(restore.list) \in SUBSET Backups /\ restore.safe \in BOOLEAN
    BY <1>1 DEF Section!restorableBackups, Restore
  <2>2. restore' \in Restore /\ restore'.starting = {} /\ restore'.job = {}
    BY <1>5, <2>1 DEF Section!reopen, Section!opened, Restore
  <2>. QED  BY <2>2 DEF RestoreInv, AtMostOne
<1>. QED  BY <1>2, <1>3, <1>4, <1>5

\* What may be applied is what is shown and confirmed.
LEMMA RestoreRequests ==
    ASSUME RestoreInv(restore), Section!preview \/ Section!apply \/ Section!startSucceeds
    PROVE  RestoreInv(restore')
<1>1. /\ restore \in Restore /\ restore.force \in BOOLEAN /\ restore.typed \in Section!Archived \cup {0}
      /\ restore.job \in SUBSET Job /\ restore.starting \in SUBSET Starting
      /\ Section!chosen(restore) \in Choice
  BY ChosenFacts DEF RestoreInv, Restore
<1>2. ASSUME NEW dry \in BOOLEAN, NEW shown \in SUBSET Job, Section!start(dry, shown),
             ~dry => \E j \in shown :
                 /\ ~j.moved => Section!chosen(restore) = j.of
                 /\ restore.typed = j.of.zev /\ ~j.plan.hard /\ (j.plan.soft => restore.force)
      PROVE  RestoreInv(restore')
  <2>. DEFINE s == [dry |-> dry, of |-> Section!chosen(restore), force |-> ~dry /\ restore.force,
                    typed |-> restore.typed, shown |-> shown, moved |-> FALSE]
  <2>1. (~dry /\ restore.force) \in BOOLEAN
    BY <1>1
  <2>2. /\ s \in Starting /\ s.dry = dry /\ s.of = Section!chosen(restore) /\ s.shown = shown
        /\ s.typed = restore.typed /\ s.force = (~dry /\ restore.force)
    BY <1>1, <2>1 DEF Starting
  <2>3. restore' = [restore EXCEPT !.starting = {s}]
    BY <1>2 DEF Section!start
  <2>. HIDE DEF s
  <2>4. /\ restore' \in Restore /\ restore'.list = restore.list /\ restore'.pick = restore.pick
        /\ restore'.starting = {s} /\ restore'.job = restore.job
    BY <1>1, <2>2, <2>3 DEF Restore
  <2>5. Section!chosen(restore') = Section!chosen(restore)
    BY <2>4, ChosenSame
  <2>6. Confirmed(s)
    BY <1>2, <2>2 DEF Confirmed
  <2>. QED  BY <2>2, <2>4, <2>5, <2>6 DEF RestoreInv, AtMostOne
<1>3. CASE Section!preview
  <2>1. Section!start(TRUE, {})
    BY <1>3 DEF Section!preview
  <2>. QED  BY <1>2, <2>1
<1>4. CASE Section!apply
  <2>1. PICK j \in restore.job : Section!canApply(restore, j) /\ Section!start(FALSE, {j})
    BY <1>4 DEF Section!apply
  <2>2. restore.typed = j.of.zev /\ ~j.plan.hard /\ (j.plan.soft => restore.force)
    BY <2>1 DEF Section!canApply, Section!canStartRestore, Section!confirmationName
  <2>3. ~j.moved => j.of = Section!chosen(restore)
    BY DEF RestoreInv
  <2>4. {j} \in SUBSET Job
    BY <1>1
  <2>. QED  BY <1>2, <2>1, <2>2, <2>3, <2>4
<1>5. CASE Section!startSucceeds
  <2>1. PICK s \in restore.starting :
          restore' = [restore EXCEPT !.starting = {},
            !.job = {[dry |-> s.dry, of |-> s.of, moved |-> s.moved, status |-> "running",
                      plan |-> [exists |-> FALSE, hard |-> FALSE, soft |-> FALSE]]}]
    BY <1>5 DEF Section!startSucceeds
  <2>. DEFINE j == [dry |-> s.dry, of |-> s.of, moved |-> s.moved, status |-> "running",
                    plan |-> [exists |-> FALSE, hard |-> FALSE, soft |-> FALSE]]
  <2>2. s \in Starting /\ (~s.moved => s.of = Section!chosen(restore))
    BY <1>1 DEF RestoreInv
  <2>3. [exists |-> FALSE, hard |-> FALSE, soft |-> FALSE] \in Section!Plans
    BY DEF Section!Plans
  <2>4. j \in Job /\ j.of = s.of /\ j.moved = s.moved
    BY <2>2, <2>3 DEF Job, Starting
  <2>5. restore' = [restore EXCEPT !.starting = {}, !.job = {j}]
    BY <2>1
  <2>. HIDE DEF j
  <2>6. /\ restore' \in Restore /\ restore'.list = restore.list /\ restore'.pick = restore.pick
        /\ restore'.starting = {} /\ restore'.job = {j}
    BY <1>1, <2>4, <2>5 DEF Restore
  <2>7. Section!chosen(restore') = Section!chosen(restore)
    BY <2>6, ChosenSame
  <2>. QED  BY <2>2, <2>4, <2>6, <2>7 DEF RestoreInv, AtMostOne
<1>. QED  BY <1>3, <1>4, <1>5

LEMMA RestoreJobs ==
    ASSUME RestoreInv(restore), NEW status \in {"completed", "failed"}, NEW plan \in Section!Plans,
           Section!jobEnds(status, plan)
    PROVE  RestoreInv(restore')
<1>1. restore \in Restore /\ restore.job \in SUBSET Job
  BY DEF RestoreInv, Restore
<1>2. PICK j \in restore.job :
        restore' = [restore EXCEPT !.job = {[j EXCEPT !.status = status, !.plan = plan]}]
  BY DEF Section!jobEnds
<1>. DEFINE k == [j EXCEPT !.status = status, !.plan = plan]
<1>3. k \in Job /\ k.of = j.of /\ k.moved = j.moved
  BY <1>1 DEF Job
<1>4. restore' = [restore EXCEPT !.job = {k}]
  BY <1>2
<1>. HIDE DEF k
<1>5. /\ restore' \in Restore /\ restore'.list = restore.list /\ restore'.pick = restore.pick
      /\ restore'.starting = restore.starting /\ restore'.job = {k}
  BY <1>1, <1>3, <1>4 DEF Restore
<1>6. Section!chosen(restore') = Section!chosen(restore)
  BY <1>5, ChosenSame
<1>7. ~k.moved => k.of = Section!chosen(restore)
  BY <1>3 DEF RestoreInv
<1>. QED  BY <1>5, <1>6, <1>7 DEF RestoreInv, AtMostOne

LEMMA RestoreSteps ==
    ASSUME RestoreInv(restore), Section!Next PROVE RestoreInv(restore')
<1>1. CASE \/ \E b \in Backups : Section!selectBackup(b)
           \/ \E z \in Section!Archived : Section!selectZev(z)
           \/ \E loaded \in SUBSET Backups : Section!refetchBackups(loaded)
  BY <1>1, RestoreChoices
<1>2. CASE \/ Section!setForce \/ \E name \in Section!Archived \cup {0} : Section!setConfirmText(name)
           \/ Section!startFails \/ Section!reopen
  BY <1>2, RestoreTyping
<1>3. CASE Section!preview \/ Section!apply \/ Section!startSucceeds
  BY <1>3, RestoreRequests
<1>4. CASE \E status \in {"completed", "failed"}, plan \in Section!Plans : Section!jobEnds(status, plan)
  BY <1>4, RestoreJobs
<1>. QED  BY <1>1, <1>2, <1>3, <1>4 DEF Section!Next

LEMMA RestoreStarts == Section!Init => RestoreInv(restore)
<1>. SUFFICES ASSUME Section!Init PROVE RestoreInv(restore)
  OBVIOUS
<1>1. PICK safe \in BOOLEAN, loaded \in SUBSET Backups : restore = Section!opened(safe, loaded)
  BY DEF Section!Init
<1>2. Section!restorableBackups(loaded) \in SUBSET Backups
  BY DEF Section!restorableBackups
<1>3. restore \in Restore /\ restore.starting = {} /\ restore.job = {}
  BY <1>1, <1>2 DEF Section!opened, Restore
<1>. QED  BY <1>3 DEF RestoreInv, AtMostOne

-----------------------------------------------------------------------------
(* The import wizard: selections of files *)

LEMMA FunctionIsSeq ==
    ASSUME NEW S, NEW n \in Nat, NEW f \in [1..n -> S]
    PROVE  f \in Seq(S) /\ Len(f) = n /\ DOMAIN f = 1..n
<1>1. f \in Seq(S)
  BY SeqDef
<1>. QED  BY <1>1, LenProperties

\* A selection is a list of files, none of them twice.
LEMMA SelectionFacts ==
    ASSUME NEW s
    PROVE  s \in Selections <=>
             /\ s \in Seq(Files) /\ Len(s) <= Cardinality(Files)
             /\ \A i, j \in DOMAIN s : i # j => s[i] # s[j]
<1>. DEFINE N == Cardinality(Files)
<1>1. N \in Nat
  BY WizardAssumption, FS_CardinalityType
<1>. HIDE DEF N
<1>2. s \in UNION {[1..m -> Files] : m \in 0..N} <=> s \in Seq(Files) /\ Len(s) <= N
  <2>1. ASSUME s \in UNION {[1..m -> Files] : m \in 0..N} PROVE s \in Seq(Files) /\ Len(s) <= N
    <3>1. PICK m \in 0..N : s \in [1..m -> Files]
      BY <2>1
    <3>2. s \in Seq(Files) /\ Len(s) = m
      BY <1>1, <3>1, FunctionIsSeq
    <3>. QED  BY <1>1, <3>2
  <2>2. ASSUME s \in Seq(Files), Len(s) <= N PROVE s \in UNION {[1..m -> Files] : m \in 0..N}
    <3>1. s \in [1..Len(s) -> Files] /\ Len(s) \in Nat
      BY <2>2, LenProperties
    <3>2. Len(s) \in 0..N
      BY <1>1, <2>2, <3>1
    <3>. QED  BY <3>1, <3>2
  <2>. QED  BY <2>1, <2>2
<1>. QED  BY <1>2 DEF Selections, SeqOf, N

LEMMA EmptySelection == <<>> \in Selections
<1>1. Cardinality(Files) \in Nat
  BY WizardAssumption, FS_CardinalityType
<1>2. <<>> \in Seq(Files) /\ Len(<<>>) <= Cardinality(Files) /\ DOMAIN <<>> = {}
  BY <1>1
<1>. QED  BY <1>2, SelectionFacts

\* A nonempty set of naturals has a least element.
LEMMA LeastNat ==
  ASSUME NEW N, N \subseteq Nat, N # {}
  PROVE  \E m \in N : \A k \in N : m <= k
<1> DEFINE R == OpToRel(<, Nat)
<1>1. IsWellFoundedOn(R, Nat)
  BY NatLessThanWellFounded, Zenon
<1> HIDE DEF R
<1>2. PICK m \in N : \A y \in N : ~(<<y, m>> \in R)
  BY <1>1, WFMin, Zenon
<1>3. \A y \in N : y < m => <<y, m>> \in R
  BY Zenon DEF R, OpToRel
<1>4. \A y \in N : ~(y < m)
  BY <1>2, <1>3, Zenon
<1>5. m \in Nat /\ \A k \in N : k \in Nat
  OBVIOUS
<1>6. \A k \in N : m <= k
  BY <1>4, <1>5, SMT
<1>. QED  BY <1>6, Zenon

\* Positions can be enumerated in their order.
Increasing(f) == \A i, j \in DOMAIN f : i < j => f[i] < f[j]
Enumerable(P) == \E f \in [1..Cardinality(P) -> P] : Increasing(f)

LEMMA PositionsEnumerable ==
    ASSUME NEW N \in Nat, NEW P \in SUBSET (1..N)
    PROVE  Enumerable(P)
<1>. DEFINE Bad == {n \in Nat : \E Q \in SUBSET (1..n) : ~Enumerable(Q)}
<1>. SUFFICES ASSUME Bad # {} PROVE FALSE
  OBVIOUS
<1>1. PICK n \in Bad : \A k \in Bad : n <= k
  BY LeastNat
<1>2. PICK Q \in SUBSET (1..n) : ~Enumerable(Q)
  BY <1>1
<1>3. n \in Nat /\ n # 0
  <2>. SUFFICES ASSUME n = 0 PROVE FALSE
    BY <1>1
  <2>0. Q = {}
    BY <1>2
  <2>1. Q = {} /\ 1..Cardinality(Q) = {}
    <3>1. Cardinality(Q) = 0
      BY <2>0, FS_EmptySet
    <3>. QED  BY <2>0, <3>1
  <2>2. <<>> \in [1..Cardinality(Q) -> Q] /\ Increasing(<<>>)
    BY <2>1 DEF Increasing
  <2>. QED  BY <1>2, <2>2 DEF Enumerable
<1>4. n - 1 \notin Bad /\ n - 1 \in Nat
  <2>. HIDE DEF Bad
  <2>1. n - 1 \in Nat /\ ~(n <= n - 1)
    BY <1>3
  <2>. QED  BY <1>1, <2>1
<1>5. \A R \in SUBSET (1..(n - 1)) : Enumerable(R)
  BY <1>4
<1>. HIDE DEF Bad
<1>6. n \in Q
  <2>. SUFFICES ASSUME n \notin Q PROVE FALSE
    OBVIOUS
  <2>1. Q \in SUBSET (1..(n - 1))
    BY <1>3
  <2>. QED  BY <1>2, <1>5, <2>1
<1>. DEFINE R == Q \ {n}
            c == Cardinality(R)
<1>7. R \in SUBSET (1..(n - 1))
  BY <1>3
<1>8. IsFiniteSet(R) /\ c \in Nat
  <2>1. IsFiniteSet(1..(n - 1))
    BY <1>4, FS_Interval
  <2>. QED  BY <1>7, <2>1, FS_Subset, FS_CardinalityType
<1>9. Cardinality(Q) = c + 1
  <2>1. Q = R \cup {n} /\ n \notin R
    BY <1>6
  <2>. HIDE DEF R
  <2>. QED  BY <1>8, <2>1, FS_AddElement
<1>10. PICK f \in [1..c -> R] : Increasing(f)
  BY <1>5, <1>7 DEF Enumerable
<1>. DEFINE g == [k \in 1..(c + 1) |-> IF k <= c THEN f[k] ELSE n]
<1>11. g \in [1..(c + 1) -> Q]
  <2>. HIDE DEF c
  <2>. QED  BY <1>6, <1>8
<1>12. Increasing(g)
  <2>. HIDE DEF c, R
  <2>1. \A i \in 1..c : f[i] \in Nat /\ f[i] < n
    <3>1. \A x \in R : x \in Nat /\ x < n
      BY <1>3, <1>7
    <3>. QED  BY <1>10, <3>1
  <2>2. ASSUME NEW i \in 1..(c + 1), NEW j \in 1..(c + 1), i < j PROVE g[i] < g[j]
    <3>1. i \in 1..c
      BY <1>8, <2>2
    <3>2. CASE j \in 1..c
      BY <1>8, <1>10, <2>2, <3>1, <3>2 DEF Increasing
    <3>3. CASE j = c + 1
      BY <1>8, <2>1, <3>1, <3>3
    <3>. QED  BY <1>8, <3>2, <3>3
  <2>. QED  BY <2>2 DEF Increasing
<1>. QED  BY <1>2, <1>9, <1>11, <1>12 DEF Enumerable

LEMMA InOrderFacts ==
    ASSUME NEW N \in Nat, NEW P \in SUBSET (1..N)
    PROVE  /\ Cardinality(P) \in Nat /\ Cardinality(P) <= N /\ (Cardinality(P) = 0 <=> P = {})
           /\ inOrder(P) \in [1..Cardinality(P) -> P] /\ Increasing(inOrder(P))
<1>1. IsFiniteSet(1..N) /\ Cardinality(1..N) = N
  BY FS_Interval
<1>2. IsFiniteSet(P) /\ Cardinality(P) <= N
  BY <1>1, FS_Subset
<1>3. Cardinality(P) \in Nat /\ (Cardinality(P) = 0 <=> P = {})
  BY <1>2, FS_CardinalityType, FS_EmptySet
<1>4. \E f \in [1..Cardinality(P) -> P] : \A i, j \in DOMAIN f : i < j => f[i] < f[j]
  BY PositionsEnumerable DEF Enumerable, Increasing
<1>5. inOrder(P) = CHOOSE f \in [1..Cardinality(P) -> P] : \A i, j \in DOMAIN f : i < j => f[i] < f[j]
  BY DEF inOrder
<1>6. inOrder(P) \in [1..Cardinality(P) -> P] /\ Increasing(inOrder(P))
  BY <1>4, <1>5, Zenon DEF Increasing
<1>. QED  BY <1>2, <1>3, <1>6

\* The entries of a list at some positions, none of them twice.
LEMMA FilterFacts ==
    ASSUME NEW S, NEW s \in Seq(S), NEW P \in SUBSET DOMAIN s
    PROVE  /\ filter(s, P) \in Seq(S) /\ Len(filter(s, P)) <= Len(s)
           /\ DOMAIN filter(s, P) = 1..Cardinality(P)
           /\ P = {} <=> filter(s, P) = <<>>
           /\ \A k \in 1..Cardinality(P) : inOrder(P)[k] \in P /\ filter(s, P)[k] = s[inOrder(P)[k]]
           /\ \A k, l \in 1..Cardinality(P) : k # l => inOrder(P)[k] # inOrder(P)[l]
<1>. DEFINE n == Cardinality(P)
            o == inOrder(P)
<1>1. DOMAIN s = 1..Len(s) /\ Len(s) \in Nat /\ s \in [1..Len(s) -> S]
  BY LenProperties
<1>2. /\ n \in Nat /\ n <= Len(s) /\ (n = 0 <=> P = {})
      /\ o \in [1..n -> P] /\ Increasing(o)
  BY <1>1, InOrderFacts
<1>3. filter(s, P) = [k \in 1..n |-> s[o[k]]]
  BY DEF filter
<1>. HIDE DEF n, o
<1>4. filter(s, P) \in [1..n -> S]
  BY <1>1, <1>2, <1>3
<1>5. filter(s, P) \in Seq(S) /\ Len(filter(s, P)) = n /\ DOMAIN filter(s, P) = 1..n
  BY <1>2, <1>4, FunctionIsSeq
<1>6. \A k \in 1..n : o[k] \in P /\ filter(s, P)[k] = s[o[k]]
  BY <1>2, <1>3
<1>7. \A k, l \in 1..n : k # l => o[k] # o[l]
  <2>. SUFFICES ASSUME NEW k \in 1..n, NEW l \in 1..n, k < l PROVE o[k] # o[l]
    BY <1>2
  <2>1. o[k] < o[l] /\ o[k] \in Nat
    BY <1>1, <1>2 DEF Increasing
  <2>2. o[l] \in Nat
    BY <1>1, <1>2
  <2>. QED  BY <2>1, <2>2
<1>8. P = {} <=> filter(s, P) = <<>>
  <2>1. n = 0 <=> filter(s, P) = <<>>
    BY <1>2, <1>5, EmptySeq
  <2>. QED  BY <1>2, <2>1
<1>9. Len(filter(s, P)) <= Len(s)
  BY <1>2, <1>5
<1>. QED  BY <1>5, <1>6, <1>7, <1>8, <1>9 DEF n, o

LEMMA FilterSelection ==
    ASSUME NEW s \in Selections, NEW P \in SUBSET DOMAIN s
    PROVE  filter(s, P) \in Selections /\ \A f \in ToSet(filter(s, P)) : \E i \in P : f = s[i]
<1>1. s \in Seq(Files) /\ Len(s) <= Cardinality(Files) /\ \A i, j \in DOMAIN s : i # j => s[i] # s[j]
  BY SelectionFacts
<1>. DEFINE t == filter(s, P)
            n == Cardinality(P)
            o == inOrder(P)
<1>2. /\ t \in Seq(Files) /\ Len(t) <= Len(s) /\ DOMAIN t = 1..n
      /\ \A k \in 1..n : o[k] \in P /\ t[k] = s[o[k]]
      /\ \A k, l \in 1..n : k # l => o[k] # o[l]
  BY <1>1, FilterFacts
<1>. HIDE DEF t, n, o
<1>3. Len(t) <= Cardinality(Files)
  <2>1. Len(t) \in Nat /\ Len(s) \in Nat /\ Cardinality(Files) \in Nat
    BY <1>1, <1>2, LenProperties, WizardAssumption, FS_CardinalityType
  <2>. QED  BY <1>1, <1>2, <2>1
<1>4. \A i, j \in DOMAIN t : i # j => t[i] # t[j]
  BY <1>1, <1>2
<1>5. t \in Selections
  BY <1>2, <1>3, <1>4, SelectionFacts
<1>6. \A f \in ToSet(t) : \E i \in P : f = s[i]
  BY <1>2 DEF ToSet
<1>. QED  BY <1>5, <1>6 DEF t

LEMMA RemoveSelection ==
    ASSUME NEW s \in Selections, NEW i \in DOMAIN s
    PROVE  RemoveAt(s, i) \in Selections /\ ToSet(RemoveAt(s, i)) \subseteq ToSet(s)
<1>1. s \in Seq(Files) /\ Len(s) <= Cardinality(Files) /\ \A k, l \in DOMAIN s : k # l => s[k] # s[l]
  BY SelectionFacts
<1>2. DOMAIN s = 1..Len(s) /\ Len(s) \in Nat /\ Cardinality(Files) \in Nat
  BY <1>1, LenProperties, WizardAssumption, FS_CardinalityType
<1>. DEFINE t == RemoveAt(s, i)
            n == Len(s) - 1
            at(k) == IF k < i THEN k ELSE k + 1
<1>3. t \in Seq(Files) /\ Len(t) = n /\ DOMAIN t = 1..n
      /\ \A k \in 1..n : t[k] = IF k < i THEN s[k] ELSE s[k + 1]
  BY <1>1, <1>2, RemoveAtFacts
<1>. HIDE DEF t
<1>4. \A k \in 1..n : at(k) \in DOMAIN s /\ t[k] = s[at(k)]
  BY <1>2, <1>3
<1>5. \A k, l \in 1..n : k # l => at(k) # at(l)
  BY <1>2
<1>. HIDE DEF at
<1>6. \A k, l \in DOMAIN t : k # l => t[k] # t[l]
  BY <1>1, <1>3, <1>4, <1>5
<1>7. Len(t) <= Cardinality(Files)
  BY <1>1, <1>2, <1>3
<1>8. t \in Selections
  BY <1>3, <1>6, <1>7, SelectionFacts
<1>9. ToSet(t) \subseteq ToSet(s)
  BY <1>3, <1>4 DEF ToSet
<1>. QED  BY <1>8, <1>9 DEF t

-----------------------------------------------------------------------------
(* The import wizard: what is shown and what is on its way *)

Source     == {"csv", "sdatch"}
Wizard     == [step : 1..2, source : Source, files : Selections, config : Configs]
Stamp      == [files : {stampFilesOf(f) : f \in Selections}, config : Configs, zev : Zevs,
               source : Source]
Dead       == [live : {FALSE}]
DetectReq  == [files : Selections \ {<<>>}, live : {TRUE}]
PreviewReq == [files : Selections \ {<<>>}, config : Configs, zev : Zevs, stamp : SUBSET Stamp,
               mixed : BOOLEAN, live : {TRUE}]
UploadReq  == [files : Selections \ {<<>>}, config : Configs, source : Source, zev : Zevs,
               shown : Seq(Preview), mixed : BOOLEAN, live : {TRUE}]

\* previews of these files, one for each, in their order
OfFiles(list, files) ==
    DOMAIN list = DOMAIN files /\ \A i \in DOMAIN files : list[i].file = files[i]

\* previews of one setting and one community, those of the stamp, and of the files selected
Belong(list, stamps, files) ==
    \E st \in stamps :
        /\ \A i \in DOMAIN list : list[i].config = st.config /\ list[i].zev = st.zev
        /\ files # <<>> => OfFiles(list, files)

\* a request for previews carries the stamp of what it asks for, and the
\* selection is still that or empty, unless failed files were put back
OwnPreview(r, files) ==
    /\ \E st \in r.stamp : st.config = r.config /\ st.zev = r.zev
    /\ AtMostOne(r.stamp)
    /\ ~r.mixed => files \in {r.files, <<>>}

\* an upload goes with the previews it was started from
OwnUpload(u) ==
    ~u.mixed =>
        /\ u.shown # <<>> => OfFiles(u.shown, u.files)
        /\ u.source = "csv" =>
              u.shown = [i \in DOMAIN u.files |-> [file |-> u.files[i], config |-> u.config,
                                                  zev |-> u.zev, ok |-> TRUE]]

WizardTyped ==
    /\ zev \in Zevs /\ wizard \in Wizard /\ (wizard.step = 2 => wizard.files # <<>>)
    /\ detection \in {"idle", "loading", "done", "failed"} /\ mixed \in BOOLEAN
    /\ detecting \subseteq DetectReq \cup Dead

PreviewsOwn ==
    /\ previews \in Seq(Preview) /\ stamp \subseteq Stamp /\ AtMostOne(stamp)
    /\ previews # <<>> /\ ~mixed => Belong(previews, stamp, wizard.files)

PreviewingOwn ==
    /\ previewing \subseteq PreviewReq \cup Dead
    /\ \A r \in previewing : r.live => OwnPreview(r, wizard.files)

UploadsOwn ==
    /\ upload \subseteq UploadReq \cup Dead /\ asking \subseteq UploadReq
    /\ asking # {} => upload = {}
    /\ \A u \in upload \cup asking : u.live => OwnUpload(u)

LandedApart ==
    /\ ToSet(wizard.files) \cap landed = {}
    /\ \A u \in upload \cup asking : u.live => ToSet(u.files) \cap landed = {}

WizardInv == WizardTyped /\ PreviewsOwn /\ PreviewingOwn /\ UploadsOwn /\ LandedApart

ImportInv == IF page = "imports" THEN WizardInv ELSE previews = <<>> /\ upload = {}

LEMMA FreshFacts ==
    /\ fresh \in Wizard /\ fresh.step = 1 /\ fresh.files = <<>> /\ ToSet(fresh.files) = {}
<1>1. start \in Configs
  BY WizardAssumption, Zenon DEF start
<1>2. <<>> \in Selections
  BY EmptySelection
<1>. QED  BY <1>1, <1>2 DEF fresh, Wizard, Source, ToSet

LEMMA SupersededFacts ==
    ASSUME NEW rs
    PROVE  superseded(rs) \subseteq Dead /\ \A r \in superseded(rs) : ~r.live
<1>1. ASSUME NEW r \in superseded(rs) PROVE r \in Dead /\ ~r.live
  <2>1. r = [live |-> FALSE]
    BY DEF superseded
  <2>2. r \in Dead
    BY <2>1 DEF Dead
  <2>3. ~r.live
    BY <2>1
  <2>. QED  BY <2>2, <2>3
<1>. QED  BY <1>1

\* What an empty wizard shows is in order, whatever was on its way.
LEMMA ResetKeeps ==
    ASSUME WizardInv, resetWizard
    PROVE  /\ wizard' = fresh
           /\ PreviewsOwn' /\ PreviewingOwn' /\ mixed' = FALSE /\ detection' = "idle"
           /\ detecting' \subseteq DetectReq \cup Dead
<1>1. /\ wizard' = fresh /\ previews' = <<>> /\ stamp' = {} /\ mixed' = FALSE
      /\ detection' = "idle" /\ detecting' = superseded(detecting)
      /\ previewing' = superseded(previewing)
  BY DEF resetWizard, clearDetection, dropPreviews
<1>2. PreviewsOwn'
  BY <1>1 DEF PreviewsOwn, AtMostOne
<1>3. PreviewingOwn'
  BY <1>1, SupersededFacts DEF PreviewingOwn
<1>. QED  BY <1>1, <1>2, <1>3, SupersededFacts

LEMMA WizardResets ==
    ASSUME WizardInv, close \/ changeScope PROVE WizardInv'
<1>1. resetWizard /\ upload' = superseded(upload) /\ landed' = landed
  BY DEF close, changeScope
<1>2. asking' = {}
  BY DEF close, changeScope, atWork
<1>3. zev' \in Zevs
  BY DEF close, changeScope, WizardInv, WizardTyped
<1>4. /\ wizard' = fresh /\ PreviewsOwn' /\ PreviewingOwn' /\ mixed' = FALSE /\ detection' = "idle"
      /\ detecting' \subseteq DetectReq \cup Dead
  BY <1>1, ResetKeeps
<1>5. WizardTyped'
  <2>1. mixed' \in BOOLEAN
    BY <1>4
  <2>2. wizard' \in Wizard /\ wizard'.step = 1
    BY <1>4, FreshFacts
  <2>3. wizard'.step = 2 => wizard'.files # <<>>
    BY <2>2
  <2>4. detection' \in {"idle", "loading", "done", "failed"}
    BY <1>4
  <2>. QED  BY <1>3, <1>4, <2>1, <2>2, <2>3, <2>4, Zenon DEF WizardTyped
<1>6. UploadsOwn'
  BY <1>1, <1>2, SupersededFacts DEF UploadsOwn
<1>7. LandedApart'
  BY <1>1, <1>2, <1>4, FreshFacts, SupersededFacts DEF LandedApart
<1>. QED  BY <1>4, <1>5, <1>6, <1>7 DEF WizardInv

\* A change of the selection drops the previews and the request for them.
LEMMA WizardPicks ==
    ASSUME WizardInv,
           \/ \E s \in {"csv", "sdatch"} : handleSourceChange(s)
           \/ \E s \in Selections : handleFileChange(s)
           \/ \E i \in 1..Cardinality(Files) : handleRemoveFile(i)
    PROVE  WizardInv'
<1>1. /\ zev' = zev /\ asking' = asking /\ upload' = upload
      /\ previews' = <<>> /\ stamp' = {} /\ mixed' = FALSE
      /\ detection' = "idle" /\ detecting' = superseded(detecting)
  BY DEF handleSourceChange, handleFileChange, handleRemoveFile, clearDetection, dropPreviews
<1>2. wizard \in Wizard /\ wizard.step = 1 /\ zev \in Zevs
  BY DEF handleSourceChange, handleFileChange, handleRemoveFile, WizardInv, WizardTyped
<1>3. PreviewsOwn'
  BY <1>1 DEF PreviewsOwn, AtMostOne
<1>4. UploadsOwn'
  BY <1>1 DEF WizardInv, UploadsOwn
<1>5. wizard' \in Wizard /\ wizard'.step = 1
  <2>1. CASE \E s \in {"csv", "sdatch"} : handleSourceChange(s)
    BY <1>2, <2>1, EmptySelection DEF handleSourceChange, Wizard, Source
  <2>2. CASE \E s \in Selections : handleFileChange(s)
    BY <1>2, <2>2 DEF handleFileChange, Wizard
  <2>3. CASE \E i \in 1..Cardinality(Files) : handleRemoveFile(i)
    <3>1. PICK i \in DOMAIN wizard.files : wizard' = [wizard EXCEPT !.files = RemoveAt(@, i)]
      BY <2>3 DEF handleRemoveFile
    <3>2. RemoveAt(wizard.files, i) \in Selections
      BY <1>2, RemoveSelection DEF Wizard
    <3>. QED  BY <1>2, <3>1, <3>2 DEF Wizard
  <2>. QED  BY <2>1, <2>2, <2>3
<1>6. WizardTyped'
  <2>1. mixed' \in BOOLEAN
    BY <1>1
  <2>2. wizard'.step = 2 => wizard'.files # <<>>
    BY <1>5
  <2>3. detection' \in {"idle", "loading", "done", "failed"}
    BY <1>1
  <2>4. detecting' \subseteq DetectReq \cup Dead /\ zev' \in Zevs
    BY <1>1, <1>2, SupersededFacts
  <2>. QED  BY <1>5, <2>1, <2>2, <2>3, <2>4, Zenon DEF WizardTyped
<1>7. PreviewingOwn'
  <2>1. CASE \E s \in {"csv", "sdatch"} : handleSourceChange(s)
    <3>1. previewing' = previewing /\ wizard'.files = <<>>
      BY <1>2, <2>1 DEF handleSourceChange, Wizard
    <3>. QED  BY <3>1 DEF WizardInv, PreviewingOwn, OwnPreview
  <2>2. CASE previewing' = superseded(previewing)
    BY <2>2, SupersededFacts DEF PreviewingOwn
  <2>. QED  BY <2>1, <2>2 DEF handleFileChange, handleRemoveFile
<1>8. LandedApart'
  <2>1. /\ landed' \subseteq landed
        /\ ToSet(wizard'.files) \cap landed' = {}
    <3>1. CASE \E s \in {"csv", "sdatch"} : handleSourceChange(s)
      BY <1>2, <3>1 DEF handleSourceChange, Wizard, ToSet
    <3>2. CASE \E s \in Selections : handleFileChange(s)
      <4>1. PICK s \in Selections : wizard'.files = s /\ landed' = landed \ ToSet(s)
        BY <1>2, <3>2 DEF handleFileChange, Wizard
      <4>. QED  BY <4>1
    <3>3. CASE \E i \in 1..Cardinality(Files) : handleRemoveFile(i)
      <4>1. PICK i \in DOMAIN wizard.files : wizard' = [wizard EXCEPT !.files = RemoveAt(@, i)]
        BY <3>3 DEF handleRemoveFile
      <4>2. ToSet(RemoveAt(wizard.files, i)) \subseteq ToSet(wizard.files)
        BY <1>2, RemoveSelection DEF Wizard
      <4>3. wizard'.files = RemoveAt(wizard.files, i) /\ landed' = landed
        BY <1>2, <3>3, <4>1 DEF handleRemoveFile, Wizard
      <4>. QED  BY <4>2, <4>3 DEF WizardInv, LandedApart
    <3>. QED  BY <3>1, <3>2, <3>3
  <2>. QED  BY <1>1, <2>1 DEF WizardInv, LandedApart
<1>. QED  BY <1>3, <1>4, <1>6, <1>7, <1>8 DEF WizardInv

\* Moving between the steps, and asking to detect the settings.
LEMMA WizardTurns ==
    ASSUME WizardInv, handleNextStep \/ onBackToStep1 \/ onRedetect PROVE WizardInv'
<1>1. /\ zev' = zev /\ asking' = asking /\ upload' = upload /\ landed' = landed
      /\ previews' = previews /\ stamp' = stamp /\ mixed' = mixed /\ previewing' = previewing
  BY DEF handleNextStep, onBackToStep1, onRedetect, shownVars
<1>2. zev \in Zevs /\ wizard \in Wizard /\ (wizard.step = 2 => wizard.files # <<>>)
  BY DEF WizardInv, WizardTyped
<1>3. wizard' \in Wizard /\ wizard'.files = wizard.files
  BY <1>2 DEF handleNextStep, onBackToStep1, onRedetect, Wizard
<1>4. wizard'.step = 2 => wizard'.files # <<>>
  BY <1>2, <1>3 DEF handleNextStep, onBackToStep1, onRedetect, Wizard
<1>5. \/ UNCHANGED detectVars
      \/ runDetection /\ wizard.files # <<>>
  BY <1>2 DEF handleNextStep, onBackToStep1, onRedetect
<1>6. detection' \in {"idle", "loading", "done", "failed"}
  BY <1>5 DEF runDetection, detectVars, WizardInv, WizardTyped
<1>7. detecting' \subseteq DetectReq \cup Dead
  <2>1. CASE UNCHANGED detectVars
    BY <2>1 DEF detectVars, WizardInv, WizardTyped
  <2>2. CASE runDetection /\ wizard.files # <<>>
    <3>1. detecting' = {[files |-> wizard.files, live |-> TRUE]}
      BY <2>2 DEF runDetection
    <3>2. wizard.files \in Selections
      BY <1>2 DEF Wizard
    <3>3. [files |-> wizard.files, live |-> TRUE] \in DetectReq
      BY <2>2, <3>2 DEF DetectReq
    <3>. QED  BY <3>1, <3>3
  <2>. QED  BY <1>5, <2>1, <2>2
<1>8. mixed' \in BOOLEAN
  BY <1>1 DEF WizardInv, WizardTyped
<1>9. WizardTyped'
  BY <1>1, <1>2, <1>3, <1>4, <1>6, <1>7, <1>8, Zenon DEF WizardTyped
<1>10. PreviewsOwn' /\ PreviewingOwn'
  BY <1>1, <1>3 DEF WizardInv, PreviewsOwn, PreviewingOwn
<1>11. UploadsOwn' /\ LandedApart'
  BY <1>1, <1>3 DEF WizardInv, UploadsOwn, LandedApart
<1>. QED  BY <1>9, <1>10, <1>11 DEF WizardInv

\* Other settings leave the previews to be compared by their stamp.
LEMMA WizardSets ==
    ASSUME WizardInv,
           \/ \E c \in Configs : changeSettings(c)
           \/ \E c \in Configs \ (Overwriting \cup Wrong), s \in {"done", "failed"} : detectAnswers(c, s)
    PROVE  WizardInv'
<1>1. /\ zev' = zev /\ asking' = asking /\ upload' = upload /\ landed' = landed
      /\ previewing' = previewing
  BY DEF changeSettings, detectAnswers
<1>2. zev \in Zevs /\ wizard \in Wizard /\ (wizard.step = 2 => wizard.files # <<>>)
  BY DEF WizardInv, WizardTyped
<1>3. wizard' = wizard \/ \E c \in Configs : wizard' = [wizard EXCEPT !.config = c]
  BY DEF changeSettings, detectAnswers
<1>4. wizard' \in Wizard /\ wizard'.files = wizard.files /\ wizard'.step = wizard.step
  BY <1>2, <1>3 DEF Wizard
<1>5. dropPreviews \/ UNCHANGED shownVars
  BY DEF changeSettings, detectAnswers
<1>6. detection' \in {"idle", "loading", "done", "failed"}
  BY DEF changeSettings, detectAnswers, detectVars, WizardInv, WizardTyped
<1>7. detecting' \subseteq DetectReq \cup Dead
  BY DEF changeSettings, detectAnswers, detectVars, WizardInv, WizardTyped
<1>8. mixed' \in BOOLEAN
  BY <1>5 DEF dropPreviews, shownVars, WizardInv, WizardTyped
<1>9. wizard'.step = 2 => wizard'.files # <<>>
  BY <1>2, <1>4
<1>10. WizardTyped'
  BY <1>1, <1>2, <1>4, <1>6, <1>7, <1>8, <1>9, Zenon DEF WizardTyped
<1>11. PreviewsOwn'
  <2>1. CASE dropPreviews
    BY <2>1 DEF dropPreviews, PreviewsOwn, AtMostOne
  <2>2. CASE UNCHANGED shownVars
    BY <1>4, <2>2 DEF shownVars, WizardInv, PreviewsOwn
  <2>. QED  BY <1>5, <2>1, <2>2
<1>12. PreviewingOwn'
  BY <1>1, <1>4 DEF WizardInv, PreviewingOwn
<1>13. UploadsOwn' /\ LandedApart'
  BY <1>1, <1>4 DEF WizardInv, UploadsOwn, LandedApart
<1>. QED  BY <1>10, <1>11, <1>12, <1>13 DEF WizardInv

LEMMA StampOfFacts ==
    ASSUME NEW files \in Selections, NEW config \in Configs, files # <<>>, zev \in Zevs, wizard \in Wizard
    PROVE  \E st \in Stamp : stampOf(files, config) = {st} /\ st.config = config /\ st.zev = zev
<1>. DEFINE st == [files |-> stampFilesOf(files), config |-> config, zev |-> zev, source |-> wizard.source]
<1>1. stampOf(files, config) = {st}
  BY DEF stampOf
<1>2. st \in Stamp
  BY DEF Stamp, Wizard
<1>. QED  BY <1>1, <1>2

LEMMA WizardLoads ==
    ASSUME WizardInv, loadPreview PROVE WizardInv'
<1>1. /\ UNCHANGED <<zev, wizard, shownVars, detectVars, asking, upload, landed>>
      /\ wizard.files # <<>>
      /\ previewing' = {[files |-> wizard.files, config |-> wizard.config, zev |-> zev,
                         stamp |-> stampOf(wizard.files, wizard.config), mixed |-> FALSE,
                         live |-> TRUE]}
  BY DEF loadPreview
<1>2. /\ zev \in Zevs /\ wizard \in Wizard
      /\ wizard.files \in Selections /\ wizard.config \in Configs
  BY DEF WizardInv, WizardTyped, Wizard
<1>3. PICK st \in Stamp : /\ stampOf(wizard.files, wizard.config) = {st}
                          /\ st.config = wizard.config /\ st.zev = zev
  BY <1>1, <1>2, StampOfFacts
<1>4. PICK new : new = [files |-> wizard.files, config |-> wizard.config, zev |-> zev,
                        stamp |-> {st}, mixed |-> FALSE, live |-> TRUE]
  OBVIOUS
<1>5. previewing' = {new}
  BY <1>1, <1>3, <1>4
<1>6. new \in PreviewReq
  BY <1>1, <1>2, <1>4 DEF PreviewReq
<1>7. OwnPreview(new, wizard'.files)
  BY <1>1, <1>3, <1>4 DEF OwnPreview, AtMostOne
<1>8. PreviewingOwn'
  BY <1>5, <1>6, <1>7 DEF PreviewingOwn
<1>9. WizardTyped' /\ PreviewsOwn'
  BY <1>1 DEF WizardInv, WizardTyped, PreviewsOwn, shownVars, detectVars
<1>10. UploadsOwn' /\ LandedApart'
  BY <1>1 DEF WizardInv, UploadsOwn, LandedApart
<1>. QED  BY <1>8, <1>9, <1>10 DEF WizardInv

\* The previews that arrive are of what was asked for.
LEMMA WizardShows ==
    ASSUME WizardInv, previewArrives PROVE WizardInv'
<1>1. UNCHANGED <<zev, wizard, detectVars, asking, upload, landed>> /\ previewing' = {}
  BY DEF previewArrives
<1>2. PICK r \in previewing :
        \/ ~r.live /\ UNCHANGED shownVars
        \/ /\ r.live
           /\ \E verdicts \in [DOMAIN r.files -> BOOLEAN] :
                 previews' = [i \in DOMAIN r.files |->
                                [file |-> r.files[i], config |-> r.config,
                                 zev |-> r.zev, ok |-> verdicts[i]]]
           /\ stamp' = r.stamp /\ mixed' = r.mixed
  BY DEF previewArrives
<1>3. PreviewingOwn'
  BY <1>1 DEF PreviewingOwn
<1>4. UploadsOwn' /\ LandedApart'
  BY <1>1 DEF WizardInv, UploadsOwn, LandedApart
<1>5. CASE UNCHANGED shownVars
  <2>1. WizardTyped' /\ PreviewsOwn'
    BY <1>1, <1>5 DEF WizardInv, WizardTyped, PreviewsOwn, shownVars, detectVars
  <2>. QED  BY <1>3, <1>4, <2>1 DEF WizardInv
<1>6. CASE r.live /\ ~UNCHANGED shownVars
  <2>1. r \in PreviewReq /\ OwnPreview(r, wizard.files)
    <3>1. r \in PreviewReq \/ r \in Dead
      BY DEF WizardInv, PreviewingOwn
    <3>2. r \notin Dead
      BY <1>6 DEF Dead
    <3>. QED  BY <1>6, <3>1, <3>2 DEF WizardInv, PreviewingOwn
  <2>2. PICK verdicts \in [DOMAIN r.files -> BOOLEAN] :
          previews' = [i \in DOMAIN r.files |-> [file |-> r.files[i], config |-> r.config,
                                                 zev |-> r.zev, ok |-> verdicts[i]]]
    BY <1>2, <1>6
  <2>3. stamp' = r.stamp /\ mixed' = r.mixed
    BY <1>2, <1>6
  <2>4. /\ r.files \in Selections /\ r.config \in Configs /\ r.zev \in Zevs
        /\ r.stamp \subseteq Stamp /\ r.mixed \in BOOLEAN
    BY <2>1 DEF PreviewReq
  <2>5. mixed' \in BOOLEAN
    BY <2>3, <2>4
  <2>6. r.files \in Seq(Files) /\ DOMAIN r.files = 1..Len(r.files) /\ Len(r.files) \in Nat
    BY <2>4, SelectionFacts, LenProperties
  <2>7. \A i \in DOMAIN r.files : r.files[i] \in Files
    BY <2>6
  <2>8. \A i \in DOMAIN r.files : previews'[i] \in Preview
    BY <2>2, <2>4, <2>7 DEF Preview
  <2>9. DOMAIN previews' = DOMAIN r.files /\ previews' \in [1..Len(r.files) -> Preview]
    BY <2>2, <2>6, <2>8
  <2>10. previews' \in Seq(Preview)
    BY <2>6, <2>9, FunctionIsSeq
  <2>11. /\ \A i \in DOMAIN r.files :
               previews'[i].file = r.files[i] /\ previews'[i].config = r.config /\ previews'[i].zev = r.zev
    BY <2>2
  <2>12. ~mixed' => Belong(previews', stamp', wizard'.files)
    <3>. SUFFICES ASSUME ~mixed' PROVE Belong(previews', stamp', wizard'.files)
      OBVIOUS
    <3>1. PICK st \in r.stamp : st.config = r.config /\ st.zev = r.zev
      BY <2>1 DEF OwnPreview
    <3>2. \A i \in DOMAIN previews' : previews'[i].config = st.config /\ previews'[i].zev = st.zev
      BY <2>9, <2>11, <3>1
    <3>3. wizard'.files # <<>> => wizard'.files = r.files
      BY <1>1, <2>1, <2>3 DEF OwnPreview
    <3>4. OfFiles(previews', r.files)
      BY <2>9, <2>11 DEF OfFiles
    <3>. QED  BY <2>3, <3>1, <3>2, <3>3, <3>4 DEF Belong
  <2>13. AtMostOne(stamp') /\ stamp' \subseteq Stamp
    BY <2>1, <2>3, <2>4 DEF OwnPreview
  <2>14. PreviewsOwn'
    BY <2>10, <2>12, <2>13 DEF PreviewsOwn
  <2>15. WizardTyped'
    <3>1. zev' = zev /\ wizard' = wizard /\ detection' = detection /\ detecting' = detecting
      BY <1>1 DEF detectVars
    <3>. QED  BY <2>5, <3>1 DEF WizardInv, WizardTyped
  <2>. QED  BY <1>3, <1>4, <2>14, <2>15 DEF WizardInv
<1>. QED  BY <1>2, <1>5, <1>6

\* What is shown when the import starts is what goes with it.
LEMMA UploadFacts ==
    ASSUME WizardInv, canStartImport
    PROVE  Upload \in UploadReq /\ OwnUpload(Upload) /\ ToSet(Upload.files) \cap landed = {}
<1>1. PICK u : u = Upload
  OBVIOUS
<1>2. /\ u.files = wizard.files /\ u.config = wizard.config /\ u.source = wizard.source
      /\ u.zev = zev /\ u.shown = previews /\ u.mixed = mixed /\ u.live = TRUE
  BY <1>1 DEF Upload
<1>3. /\ zev \in Zevs /\ wizard \in Wizard /\ wizard.files # <<>>
      /\ wizard.files \in Selections /\ wizard.config \in Configs /\ wizard.source \in Source
  BY DEF WizardInv, WizardTyped, Wizard, canStartImport
<1>4. previews \in Seq(Preview) /\ AtMostOne(stamp)
  BY DEF WizardInv, PreviewsOwn
<1>5. mixed \in BOOLEAN
  BY DEF WizardInv, WizardTyped
<1>6. u \in UploadReq
  BY <1>1, <1>3, <1>4, <1>5 DEF Upload, UploadReq
<1>7. ToSet(u.files) \cap landed = {}
  BY <1>2 DEF WizardInv, LandedApart
<1>8. OwnUpload(u)
  <2>. SUFFICES ASSUME ~mixed
               PROVE  /\ previews # <<>> => OfFiles(previews, wizard.files)
                      /\ wizard.source = "csv" =>
                            previews = [i \in DOMAIN wizard.files |->
                                          [file |-> wizard.files[i], config |-> wizard.config,
                                           zev |-> zev, ok |-> TRUE]]
    BY <1>2 DEF OwnUpload
  <2>1. previews # <<>> => OfFiles(previews, wizard.files)
    BY <1>3 DEF WizardInv, PreviewsOwn, Belong
  <2>2. ASSUME wizard.source = "csv"
        PROVE  previews = [i \in DOMAIN wizard.files |->
                             [file |-> wizard.files[i], config |-> wizard.config,
                              zev |-> zev, ok |-> TRUE]]
    <3>1. previews # <<>> /\ previewStampMatches /\ ~hasPreviewErrors
      BY <2>2 DEF canStartImport
    <3>2. PICK st \in stamp : /\ \A i \in DOMAIN previews : /\ previews[i].config = st.config
                                                            /\ previews[i].zev = st.zev
                              /\ OfFiles(previews, wizard.files)
      BY <1>3, <3>1 DEF WizardInv, PreviewsOwn, Belong
    <3>3. st.config = wizard.config /\ st.zev = zev
      <4>1. PICK s2 \in Stamp : /\ stampOf(wizard.files, wizard.config) = {s2}
                                /\ s2.config = wizard.config /\ s2.zev = zev
        BY <1>3, StampOfFacts
      <4>2. stamp = stampOf(wizard.files, wizard.config)
        BY <3>1 DEF previewStampMatches
      <4>. QED  BY <3>2, <4>1, <4>2
    <3>4. DOMAIN previews = DOMAIN wizard.files
      BY <3>2 DEF OfFiles
    <3>5. ASSUME NEW i \in DOMAIN wizard.files
          PROVE  previews[i] = [file |-> wizard.files[i], config |-> wizard.config,
                                zev |-> zev, ok |-> TRUE]
      <4>1. previews[i] \in Preview
        BY <1>4, <3>4, LenProperties
      <4>2. previews[i].file = wizard.files[i] /\ previews[i].config = wizard.config /\ previews[i].zev = zev
        BY <3>2, <3>3, <3>4 DEF OfFiles
      <4>3. previews[i].ok = TRUE
        <5>1. previews[i].ok \in BOOLEAN
          BY <4>1 DEF Preview
        <5>2. previews[i].ok
          BY <3>1, <3>4 DEF hasPreviewErrors
        <5>. QED  BY <5>1, <5>2
      <4>4. previews[i] = [file |-> previews[i].file, config |-> previews[i].config,
                           zev |-> previews[i].zev, ok |-> previews[i].ok]
        BY <4>1 DEF Preview
      <4>. QED  BY <4>2, <4>3, <4>4
    <3>6. previews = [i \in DOMAIN previews |-> previews[i]]
      BY <1>4, LenProperties
    <3>. QED  BY <3>4, <3>5, <3>6
  <2>. QED  BY <2>1, <2>2
<1>. QED  BY <1>1, <1>6, <1>7, <1>8

LEMMA WizardUploads ==
    ASSUME WizardInv, startImport \/ \E b \in BOOLEAN : doUpload(b) PROVE WizardInv'
<1>1. UNCHANGED <<zev, wizard, shownVars, detectVars, previewing, landed>>
  BY DEF startImport, doUpload
<1>2. WizardTyped' /\ PreviewsOwn'
  BY <1>1 DEF WizardInv, WizardTyped, PreviewsOwn, shownVars, detectVars
<1>3. PreviewingOwn'
  BY <1>1 DEF WizardInv, PreviewingOwn
<1>4. CASE startImport
  <2>1. PICK u : u = Upload
    OBVIOUS
  <2>2. u \in UploadReq /\ OwnUpload(u) /\ ToSet(u.files) \cap landed = {}
    BY <1>4, <2>1, UploadFacts DEF startImport
  <2>3. upload = {} /\ asking = {}
    BY <1>4 DEF startImport, atWork
  <2>4. (asking' = {u} /\ upload' = {}) \/ (upload' = {u} /\ asking' = {})
    BY <1>4, <2>1, <2>3 DEF startImport
  <2>5. UploadsOwn'
    BY <2>2, <2>4 DEF UploadsOwn
  <2>6. LandedApart'
    BY <1>1, <2>2, <2>4 DEF WizardInv, LandedApart
  <2>. QED  BY <1>2, <1>3, <2>5, <2>6 DEF WizardInv
<1>5. CASE \E b \in BOOLEAN : doUpload(b)
  <2>1. asking' = {} /\ (upload' = asking \/ upload' = upload)
    BY <1>5 DEF doUpload
  <2>2. UploadsOwn'
    BY <2>1 DEF WizardInv, UploadsOwn
  <2>3. LandedApart'
    BY <1>1, <2>1 DEF WizardInv, LandedApart
  <2>. QED  BY <1>2, <1>3, <2>2, <2>3 DEF WizardInv
<1>. QED  BY <1>4, <1>5

LEMMA NonemptyUpload ==
    ASSUME NEW u \in UploadReq PROVE ToSet(u.files) # {}
<1>1. u.files \in Seq(Files) /\ u.files # <<>>
  BY SelectionFacts DEF UploadReq
<1>2. Len(u.files) # 0 /\ Len(u.files) \in Nat /\ DOMAIN u.files = 1..Len(u.files)
  BY <1>1, EmptySeq, LenProperties
<1>3. 1 \in DOMAIN u.files
  BY <1>2
<1>. QED  BY <1>3 DEF ToSet

\* The files that failed are put back with their own previews, or as mixed.
LEMMA FailedArePutBack ==
    ASSUME WizardInv, NEW request \in UploadReq, OwnUpload(request),
           NEW failed \in SUBSET ToSet(request.files), failed # {}, keepFailed(request, failed)
    PROVE  /\ wizard' \in Wizard /\ wizard'.files # <<>> /\ ToSet(wizard'.files) \subseteq failed
           /\ mixed' \in BOOLEAN /\ PreviewsOwn' /\ PreviewingOwn'
<1>1. PICK P : P = {i \in DOMAIN request.files : request.files[i] \in failed}
  OBVIOUS
<1>2. PICK back : back = filter(request.files, P)
  OBVIOUS
<1>3. /\ wizard' = [wizard EXCEPT !.files = back]
      /\ previews' = filter(previews, P \cap DOMAIN previews)
      /\ stamp' = {[s EXCEPT !.files = stampFilesOf(back)] : s \in stamp}
      /\ mixed' = (mixed \/ request.mixed \/ previews # request.shown)
      /\ previewing' = (previewing \ live(previewing)) \cup
                       {[r EXCEPT !.mixed = r.files # back] : r \in live(previewing)}
  BY <1>1, <1>2, Zenon DEF keepFailed
<1>4. request.files \in Selections
  BY DEF UploadReq
<1>5. back \in Selections /\ \A f \in ToSet(back) : \E i \in P : f = request.files[i]
  BY <1>1, <1>2, <1>4, FilterSelection
<1>6. request.files \in Seq(Files)
  BY <1>4, SelectionFacts
<1>7. /\ DOMAIN back = 1..Cardinality(P) /\ (P = {} <=> back = <<>>)
      /\ \A k \in 1..Cardinality(P) : inOrder(P)[k] \in P /\ back[k] = request.files[inOrder(P)[k]]
  <2>1. P \in SUBSET DOMAIN request.files
    BY <1>1
  <2>2. /\ DOMAIN filter(request.files, P) = 1..Cardinality(P)
        /\ P = {} <=> filter(request.files, P) = <<>>
        /\ \A k \in 1..Cardinality(P) : /\ inOrder(P)[k] \in P
                                         /\ filter(request.files, P)[k] = request.files[inOrder(P)[k]]
    BY <1>6, <2>1, FilterFacts
  <2>. QED  BY <1>2, <2>2
<1>8. P # {}
  BY <1>1 DEF ToSet
<1>9. wizard' \in Wizard /\ wizard'.files = back
  BY <1>3, <1>5 DEF WizardInv, WizardTyped, Wizard
<1>10. ToSet(back) \subseteq failed
  BY <1>1, <1>5
<1>11. mixed' \in BOOLEAN
  BY <1>3
<1>12. previews \in Seq(Preview) /\ stamp \subseteq Stamp /\ AtMostOne(stamp)
  BY DEF WizardInv, PreviewsOwn
<1>13. /\ previews' \in Seq(Preview)
       /\ DOMAIN previews' = 1..Cardinality(P \cap DOMAIN previews)
       /\ P \cap DOMAIN previews = {} <=> previews' = <<>>
       /\ \A k \in 1..Cardinality(P \cap DOMAIN previews) :
             /\ inOrder(P \cap DOMAIN previews)[k] \in P \cap DOMAIN previews
             /\ previews'[k] = previews[inOrder(P \cap DOMAIN previews)[k]]
  BY <1>3, <1>12, FilterFacts
<1>14. ASSUME NEW s \in stamp
       PROVE  LET t == [s EXCEPT !.files = stampFilesOf(back)]
              IN t \in stamp' /\ t \in Stamp /\ t.config = s.config /\ t.zev = s.zev
  <2>1. s \in Stamp
    BY <1>12
  <2>2. LET t == [s EXCEPT !.files = stampFilesOf(back)]
        IN t \in Stamp /\ t.config = s.config /\ t.zev = s.zev
    BY <1>5, <2>1 DEF Stamp
  <2>. QED  BY <1>3, <2>2
<1>15. stamp' \subseteq Stamp /\ AtMostOne(stamp')
  <2>1. stamp' \subseteq Stamp
    BY <1>3, <1>14
  <2>2. ASSUME NEW x \in stamp', NEW y \in stamp' PROVE x = y
    <3>1. PICK s \in stamp : x = [s EXCEPT !.files = stampFilesOf(back)]
      BY <1>3
    <3>2. PICK t \in stamp : y = [t EXCEPT !.files = stampFilesOf(back)]
      BY <1>3
    <3>. QED  BY <1>12, <3>1, <3>2 DEF AtMostOne
  <2>. QED  BY <2>1, <2>2 DEF AtMostOne
<1>16. ASSUME previews' # <<>>, ~mixed' PROVE Belong(previews', stamp', wizard'.files)
  <2>1. ~mixed /\ ~request.mixed /\ previews = request.shown
    BY <1>3, <1>16
  <2>2. previews # <<>>
    <3>. SUFFICES ASSUME previews = <<>> PROVE FALSE
      OBVIOUS
    <3>1. DOMAIN previews = {}
      OBVIOUS
    <3>. QED  BY <1>13, <1>16, <3>1
  <2>3. OfFiles(previews, request.files)
    BY <2>1, <2>2 DEF OwnUpload
  <2>4. P \cap DOMAIN previews = P
    BY <1>1, <2>3 DEF OfFiles
  <2>5. PICK st \in stamp : \A i \in DOMAIN previews : /\ previews[i].config = st.config
                                                       /\ previews[i].zev = st.zev
    BY <2>1, <2>2 DEF WizardInv, PreviewsOwn, Belong
  <2>6. DOMAIN previews' = DOMAIN back
    BY <1>7, <1>13, <2>4
  <2>7. ASSUME NEW k \in DOMAIN back
        PROVE  /\ previews'[k].file = back[k]
               /\ previews'[k].config = st.config /\ previews'[k].zev = st.zev
    <3>1. /\ inOrder(P)[k] \in P /\ previews'[k] = previews[inOrder(P)[k]]
          /\ back[k] = request.files[inOrder(P)[k]]
      BY <1>7, <1>13, <2>4
    <3>2. inOrder(P)[k] \in DOMAIN request.files /\ inOrder(P)[k] \in DOMAIN previews
      BY <1>1, <2>4, <3>1
    <3>. QED  BY <2>3, <2>5, <3>1, <3>2 DEF OfFiles
  <2>8. OfFiles(previews', wizard'.files)
    BY <1>9, <2>6, <2>7 DEF OfFiles
  <2>9. PICK t \in stamp' : t.config = st.config /\ t.zev = st.zev
    BY <1>14
  <2>. QED  BY <2>6, <2>7, <2>8, <2>9 DEF Belong
<1>17. PreviewsOwn'
  BY <1>13, <1>15, <1>16 DEF PreviewsOwn
<1>18. ASSUME NEW q \in previewing'
       PROVE  q \in PreviewReq \cup Dead /\ (q.live => OwnPreview(q, wizard'.files))
  <2>1. CASE q \in previewing \ live(previewing)
    BY <2>1 DEF live, WizardInv, PreviewingOwn
  <2>2. CASE q \in {[r EXCEPT !.mixed = r.files # back] : r \in live(previewing)}
    <3>1. PICK r \in live(previewing) : q = [r EXCEPT !.mixed = r.files # back]
      BY <2>2
    <3>2. r \in PreviewReq /\ OwnPreview(r, wizard.files)
      <4>1. r \in PreviewReq \/ r \in Dead
        BY <3>1 DEF live, WizardInv, PreviewingOwn
      <4>2. r \notin Dead
        BY <3>1 DEF live, Dead
      <4>. QED  BY <3>1, <4>1, <4>2 DEF live, WizardInv, PreviewingOwn
    <3>3. /\ q.files = r.files /\ q.config = r.config /\ q.zev = r.zev /\ q.stamp = r.stamp
          /\ q.mixed = (r.files # back) /\ q \in PreviewReq
      BY <3>1, <3>2 DEF PreviewReq
    <3>4. OwnPreview(q, back)
      BY <3>2, <3>3 DEF OwnPreview
    <3>. QED  BY <1>9, <3>3, <3>4
  <2>. QED  BY <1>3, <1>18, <2>1, <2>2
<1>19. PreviewingOwn'
  BY <1>18 DEF PreviewingOwn
<1>. QED  BY <1>7, <1>8, <1>9, <1>10, <1>11, <1>17, <1>19

LEMMA WizardOutcomes ==
    ASSUME WizardInv, \E failed \in SUBSET Files : handleUploadOutcomes(failed) PROVE WizardInv'
<1>1. PICK failed \in SUBSET Files : handleUploadOutcomes(failed)
  OBVIOUS
<1>2. upload' = {} /\ zev' = zev /\ asking' = asking
  BY <1>1 DEF handleUploadOutcomes
<1>3. PICK request \in upload :
        \/ /\ ~request.live /\ failed = {}
           /\ UNCHANGED <<wizard, shownVars, detectVars, previewing, landed>>
        \/ /\ request.live /\ failed \subseteq ToSet(request.files)
           /\ landed' = landed \cup (ToSet(request.files) \ failed)
           /\ CASE failed = {} -> resetWizard
                [] failed = ToSet(request.files) ->
                      UNCHANGED <<wizard, shownVars, detectVars, previewing>>
                [] OTHER -> /\ keepFailed(request, failed)
                            /\ UNCHANGED detectVars
  BY <1>1, Zenon DEF handleUploadOutcomes
<1>4. asking = {} /\ asking' = {}
  BY <1>2, <1>3 DEF WizardInv, UploadsOwn
<1>5. UploadsOwn'
  BY <1>2, <1>4 DEF UploadsOwn
<1>6. zev \in Zevs /\ wizard \in Wizard /\ (wizard.step = 2 => wizard.files # <<>>)
  BY DEF WizardInv, WizardTyped
<1>7. CASE UNCHANGED <<wizard, shownVars, detectVars, previewing>> /\ landed' = landed
  <2>1. WizardTyped' /\ PreviewsOwn'
    BY <1>2, <1>7 DEF WizardInv, WizardTyped, PreviewsOwn, shownVars, detectVars
  <2>2. PreviewingOwn' /\ LandedApart'
    BY <1>2, <1>4, <1>7 DEF WizardInv, PreviewingOwn, LandedApart
  <2>. QED  BY <1>5, <2>1, <2>2 DEF WizardInv
<1>8. CASE ~request.live
  BY <1>3, <1>7, <1>8
<1>9. CASE request.live
  <2>1. request \in UploadReq /\ OwnUpload(request) /\ ToSet(request.files) \cap landed = {}
    <3>1. request \in UploadReq \/ request \in Dead
      BY DEF WizardInv, UploadsOwn
    <3>2. request \notin Dead
      BY <1>9 DEF Dead
    <3>. QED  BY <1>9, <3>1, <3>2 DEF WizardInv, UploadsOwn, LandedApart
  <2>2. failed \subseteq ToSet(request.files) /\ landed' = landed \cup (ToSet(request.files) \ failed)
    BY <1>3, <1>9
  <2>3. CASE failed = {}
    <3>1. resetWizard
      <4>1. (CASE failed = {} -> resetWizard
               [] failed = ToSet(request.files) ->
                     UNCHANGED <<wizard, shownVars, detectVars, previewing>>
               [] OTHER -> /\ keepFailed(request, failed)
                           /\ UNCHANGED detectVars)
        BY <1>3, <1>9, Zenon
      <4>2. failed # ToSet(request.files)
        BY <2>3, <2>1, NonemptyUpload
      <4>. QED  BY <2>3, <4>1, <4>2, Zenon
    <3>2. /\ wizard' = fresh /\ PreviewsOwn' /\ PreviewingOwn' /\ mixed' = FALSE /\ detection' = "idle"
          /\ detecting' \subseteq DetectReq \cup Dead
      BY <3>1, ResetKeeps
    <3>3. mixed' \in BOOLEAN
      BY <3>2
    <3>4. wizard' \in Wizard /\ (wizard'.step = 2 => wizard'.files # <<>>)
      BY <3>2, FreshFacts
    <3>5. detection' \in {"idle", "loading", "done", "failed"}
      BY <3>2
    <3>6. WizardTyped'
      BY <1>2, <1>6, <3>2, <3>3, <3>4, <3>5, Zenon DEF WizardTyped
    <3>7. LandedApart'
      BY <1>2, <1>4, <3>2, FreshFacts DEF LandedApart
    <3>. QED  BY <1>5, <3>2, <3>6, <3>7 DEF WizardInv
  <2>4. CASE failed # {} /\ failed = ToSet(request.files)
    <3>1. UNCHANGED <<wizard, shownVars, detectVars, previewing>>
      BY <1>3, <1>9, <2>4
    <3>2. landed' = landed
      BY <2>2, <2>4
    <3>. QED  BY <1>7, <3>1, <3>2
  <2>5. CASE failed # {} /\ failed # ToSet(request.files)
    <3>1. keepFailed(request, failed) /\ UNCHANGED detectVars
      BY <1>3, <1>9, <2>5
    <3>2. /\ wizard' \in Wizard /\ wizard'.files # <<>> /\ ToSet(wizard'.files) \subseteq failed
          /\ mixed' \in BOOLEAN /\ PreviewsOwn' /\ PreviewingOwn'
      BY <2>1, <2>2, <2>5, <3>1, FailedArePutBack
    <3>3. detection' = detection /\ detecting' = detecting
      BY <3>1 DEF detectVars
    <3>4. WizardTyped'
      BY <1>2, <3>2, <3>3 DEF WizardInv, WizardTyped
    <3>5. LandedApart'
      BY <1>2, <1>4, <2>1, <2>2, <3>2 DEF LandedApart
    <3>. QED  BY <1>5, <3>2, <3>4, <3>5 DEF WizardInv
  <2>. QED  BY <2>3, <2>4, <2>5
<1>. QED  BY <1>8, <1>9

LEMMA WizardStarts == Init => WizardInv
<1>. SUFFICES ASSUME Init PROVE WizardInv
  OBVIOUS
<1>1. /\ zev \in Zevs /\ wizard = fresh /\ previews = <<>> /\ stamp = {} /\ detection = "idle"
      /\ detecting = {} /\ previewing = {} /\ asking = {} /\ upload = {} /\ landed = {}
  BY DEF Init
<1>2. mixed \in BOOLEAN
  BY DEF Init
<1>3. wizard \in Wizard /\ (wizard.step = 2 => wizard.files # <<>>)
  BY <1>1, FreshFacts
<1>4. detection \in {"idle", "loading", "done", "failed"} /\ detecting \subseteq DetectReq \cup Dead
  BY <1>1
<1>5. WizardTyped
  BY <1>1, <1>2, <1>3, <1>4, Zenon DEF WizardTyped
<1>6. PreviewsOwn /\ PreviewingOwn
  BY <1>1 DEF PreviewsOwn, PreviewingOwn, AtMostOne
<1>7. UploadsOwn /\ LandedApart
  BY <1>1 DEF UploadsOwn, LandedApart
<1>. QED  BY <1>5, <1>6, <1>7 DEF WizardInv

LEMMA WizardSteps ==
    ASSUME WizardInv, Next PROVE WizardInv'
<1>1. CASE close \/ changeScope
  BY <1>1, WizardResets
<1>2. CASE \/ \E s \in {"csv", "sdatch"} : handleSourceChange(s)
           \/ \E s \in Selections : handleFileChange(s)
           \/ \E i \in 1..Cardinality(Files) : handleRemoveFile(i)
  BY <1>2, WizardPicks
<1>3. CASE handleNextStep \/ onBackToStep1 \/ onRedetect
  BY <1>3, WizardTurns
<1>4. CASE \/ \E c \in Configs : changeSettings(c)
           \/ \E c \in Configs \ (Overwriting \cup Wrong), s \in {"done", "failed"} : detectAnswers(c, s)
  BY <1>4, WizardSets
<1>5. CASE loadPreview
  BY <1>5, WizardLoads
<1>6. CASE previewArrives
  BY <1>6, WizardShows
<1>7. CASE startImport \/ \E b \in BOOLEAN : doUpload(b)
  BY <1>7, WizardUploads
<1>8. CASE \E failed \in SUBSET Files : handleUploadOutcomes(failed)
  BY <1>8, WizardOutcomes
<1>. QED  BY <1>1, <1>2, <1>3, <1>4, <1>5, <1>6, <1>7, <1>8 DEF Next

LEMMA ImportKeeps ==
    ASSUME ImportInv, PageNext \/ UNCHANGED pageVars PROVE ImportInv'
<1>1. page' = page
  BY DEF PageNext, pageVars
<1>2. CASE Next /\ page = "imports"
  BY <1>1, <1>2, WizardSteps DEF ImportInv
<1>3. CASE UNCHANGED vars
  <2>1. /\ zev' = zev /\ wizard' = wizard /\ previews' = previews /\ stamp' = stamp
        /\ detection' = detection /\ detecting' = detecting /\ previewing' = previewing
        /\ asking' = asking /\ upload' = upload /\ mixed' = mixed /\ landed' = landed
    BY <1>3 DEF vars
  <2>2. CASE page = "imports"
    <3>1. WizardTyped' /\ PreviewsOwn'
      BY <2>1, <2>2 DEF ImportInv, WizardInv, WizardTyped, PreviewsOwn
    <3>2. PreviewingOwn' /\ UploadsOwn' /\ LandedApart'
      BY <2>1, <2>2 DEF ImportInv, WizardInv, PreviewingOwn, UploadsOwn, LandedApart
    <3>. QED  BY <1>1, <2>2, <3>1, <3>2 DEF ImportInv, WizardInv
  <2>3. CASE page # "imports"
    BY <1>1, <2>1, <2>3 DEF ImportInv
  <2>. QED  BY <2>2, <2>3
<1>. QED  BY <1>2, <1>3 DEF PageNext, pageVars

RestorePageInv == page = "backups" => RestoreInv(restore)

LEMMA RestoreKeeps ==
    ASSUME RestorePageInv, PageNext \/ UNCHANGED pageVars PROVE RestorePageInv'
<1>1. page' = page
  BY DEF PageNext, pageVars
<1>. SUFFICES ASSUME page = "backups" PROVE RestoreInv(restore)'
  BY <1>1 DEF RestorePageInv
<1>2. RestoreInv(restore)
  BY DEF RestorePageInv
<1>3. Section!Next \/ restore' = restore
  BY DEF PageNext, pageVars
<1>4. RestoreInv(restore')
  BY <1>2, <1>3, RestoreSteps
<1>. QED  BY <1>4

\* the wizard shows and uploads what it previewed
LEMMA ImportShowsItsOwn ==
    ASSUME ImportInv PROVE PreviewIsOfSelection /\ UploadedWasPreviewed /\ RetrySparesImported
<1>1. CASE page # "imports"
  BY <1>1 DEF ImportInv, PreviewIsOfSelection, UploadedWasPreviewed, RetrySparesImported, live
<1>2. CASE page = "imports"
  <2>1. WizardInv
    BY <1>2 DEF ImportInv
  <2>2. PreviewIsOfSelection
    <3>. SUFFICES ASSUME previews # <<>>, previewStampMatches, ~mixed
                 PROVE  \A i \in DOMAIN previews :
                            /\ i \in DOMAIN wizard.files /\ previews[i].file = wizard.files[i]
                            /\ previews[i].config = wizard.config /\ previews[i].zev = zev
      BY DEF PreviewIsOfSelection
    <3>1. stamp # {} /\ stamp = stampOf(wizard.files, wizard.config)
      BY DEF previewStampMatches
    <3>2. wizard.files # <<>>
      BY <3>1 DEF stampOf
    <3>3. zev \in Zevs /\ wizard \in Wizard /\ wizard.files \in Selections /\ wizard.config \in Configs
      BY <2>1 DEF WizardInv, WizardTyped, Wizard
    <3>4. PICK st \in Stamp : /\ stampOf(wizard.files, wizard.config) = {st}
                              /\ st.config = wizard.config /\ st.zev = zev
      BY <3>2, <3>3, StampOfFacts
    <3>5. /\ \A i \in DOMAIN previews : previews[i].config = st.config /\ previews[i].zev = st.zev
          /\ OfFiles(previews, wizard.files)
      BY <2>1, <3>1, <3>2, <3>4 DEF WizardInv, PreviewsOwn, Belong
    <3>. QED  BY <3>4, <3>5 DEF OfFiles
  <2>3. UploadedWasPreviewed
    BY <2>1 DEF WizardInv, UploadsOwn, OwnUpload, UploadedWasPreviewed, live
  <2>4. RetrySparesImported
    BY <2>1 DEF WizardInv, LandedApart, RetrySparesImported, live
  <2>. QED  BY <2>2, <2>3, <2>4
<1>. QED  BY <1>1, <1>2

LEMMA OneAtMost ==
    ASSUME NEW S, AtMostOne(S)
    PROVE  Cardinality(S) <= 1 /\ Points!Cardinality(S) <= 1 /\ Section!Cardinality(S) <= 1
<1>1. Points!Cardinality(S) = Cardinality(S) /\ Section!Cardinality(S) = Cardinality(S)
  BY DEF Points!Cardinality, Section!Cardinality, Cardinality
<1>2. CASE S = {}
  BY <1>1, <1>2, FS_EmptySet
<1>3. CASE S # {}
  <2>1. PICK x : S = {x}
    BY <1>3 DEF AtMostOne
  <2>2. Cardinality(S) = 1
    BY <2>1, FS_Singleton
  <2>. QED  BY <1>1, <2>2
<1>. QED  BY <1>2, <1>3

\* Each page's state has its type.
LEMMA PageTypes ==
    ASSUME page \in {"imports", "zevs", "metering", "points", "backups"},
           ImportInv, CreateInv, ChartPageInv, PointsInv, RestorePageInv
    PROVE  PageTypeOK
<1>1. ASSUME page = "imports" PROVE TypeOK
  <2>1. WizardInv
    BY <1>1 DEF ImportInv
  <2>2. Cardinality(stamp) <= 1
    BY <2>1, OneAtMost DEF WizardInv, PreviewsOwn
  <2>3. ASSUME NEW r \in live(detecting) \cup live(previewing) \cup live(upload) PROVE r.files # <<>>
    <3>1. r.live /\ r \in DetectReq \cup PreviewReq \cup UploadReq \cup Dead
      BY <2>1 DEF live, WizardInv, WizardTyped, PreviewingOwn, UploadsOwn
    <3>2. r \notin Dead
      BY <3>1 DEF Dead
    <3>. QED  BY <3>1, <3>2 DEF DetectReq, PreviewReq, UploadReq
  <2>4. /\ zev \in Zevs
        /\ wizard \in [step : 1..2, source : {"csv", "sdatch"}, files : Selections, config : Configs]
    BY <2>1 DEF WizardInv, WizardTyped, Wizard, Source
  <2>5. previews \in Seq(Preview)
    BY <2>1 DEF WizardInv, PreviewsOwn
  <2>6. detection \in {"idle", "loading", "done", "failed"} /\ mixed \in BOOLEAN
    BY <2>1 DEF WizardInv, WizardTyped
  <2>. QED  BY <2>2, <2>3, <2>4, <2>5, <2>6, Zenon DEF TypeOK
<1>2. Create!TypeOK
  <2>1. /\ form.iban \in {"unset", "valid", "invalid"}
        /\ form.named \in Create!Texts /\ form.person \in Create!Texts
    BY DEF CreateInv, CreateTyped, WizardForm
  <2>2. CreateTyped
    BY DEF CreateInv
  <2>. QED  BY <2>1, <2>2, Zenon DEF CreateTyped, Create!TypeOK, Create!unset
<1>3. ASSUME page = "metering" PROVE Chart!TypeOK
  <2>1. view \in View /\ AtMostOne(view.quality) /\ AtMostOne(view.gaps)
    BY <1>3 DEF ChartPageInv, ChartInv, Drawn
  <2>2. Chart!Cardinality(view.quality) <= 1 /\ Chart!Cardinality(view.gaps) <= 1
    BY <2>1, ChartCardinality
  <2>3. /\ view.pick \in Communities /\ view.zevs \in Chart!Query
        /\ view.lists \in [Communities -> Chart!Query] /\ view.url \in Address
    BY <2>1 DEF View
  <2>4. view.url.meter \in Meters \cup {"none", "zev_total"} /\ view.url.tab \in Chart!Tabs
    BY <2>3 DEF Address
  <2>. QED  BY <2>2, <2>3, <2>4, Zenon DEF Chart!TypeOK, Chart!none, Chart!Total
<1>4. ASSUME page = "points" PROVE Points!TypeOK
  <2>1. DialogHere /\ AskHere /\ CallsOwn
    BY <1>4 DEF PointsInv
  <2>2. Points!Cardinality(ask) <= 1
    BY <2>1, OneAtMost DEF AskHere, AtMostOne
  <2>3. scope.zev \in Places /\ scope.access \in Points!Access /\ scope.life \in 1..MaxLives
    BY <2>1 DEF DialogHere, Scope
  <2>4. dialog.kind \in Points!Forms \cup {"none", "data"}
    BY <2>1 DEF DialogHere, Dialog, Kinds, Points!Forms
  <2>5. generation \in 0..MaxGen + 1
    BY <2>1, PagesAssumption DEF DialogHere
  <2>6. \A c \in calls : c.life <= scope.life /\ c.id \in 1..MaxCalls
    BY <2>1 DEF CallsOwn, OwnCall, Call
  <2>. QED  BY <2>2, <2>3, <2>4, <2>5, <2>6, Zenon DEF Points!TypeOK, Points!none
<1>5. ASSUME page = "backups" PROVE Section!TypeOK
  <2>1. restore \in Restore /\ AtMostOne(restore.starting) /\ AtMostOne(restore.job)
    BY <1>5 DEF RestorePageInv, RestoreInv
  <2>2. Section!Cardinality(restore.starting) <= 1 /\ Section!Cardinality(restore.job) <= 1
    BY <2>1, OneAtMost
  <2>3. /\ restore.list \subseteq Backups /\ restore.pick.backup \in Backups \cup {0}
        /\ restore.typed \in Section!Archived \cup {0}
    BY <2>1 DEF Restore
  <2>. QED  BY <2>2, <2>3, Zenon DEF Section!TypeOK
<1>. QED  BY <1>1, <1>2, <1>3, <1>4, <1>5 DEF PageTypeOK

PageInv ==
    /\ page \in {"imports", "zevs", "metering", "points", "backups"}
    /\ ImportInv /\ CreateInv /\ ChartPageInv /\ PointsInv /\ RestorePageInv

(* What is imported or restored is what was shown, for any files, twins      *)
(* among them, settings, communities and backups. A preview that counts as   *)
(* current is of the selected files, settings and community, every CSV file  *)
(* goes up as its error-free preview showed it, a retry spares what landed,  *)
(* and a restore is the one previewed and confirmed unless the choice moved  *)
(* after that preview was asked for. The invariant says of                   *)
(* the previews, of the request for them, of the question about overwriting  *)
(* and of the upload on its way what each was made of: an answer may come    *)
(* when the wizard has moved on, and only files put back beside another      *)
(* selection's previews are mixed (ImportsPage, BackupRestoreSection).       *)
THEOREM AppliesWhatWasShownHolds == PageSpec => []AppliesWhatWasShown
<1>1. PageInit => PageInv
  <2>. SUFFICES ASSUME PageInit PROVE PageInv
    OBVIOUS
  <2>1. page \in {"imports", "zevs", "metering", "points", "backups"} /\ CreateInv /\ PointsInv
    BY CreateStarts, PointsStart DEF PageInit
  <2>2. ChartPageInv /\ RestorePageInv
    BY ChartStarts, RestoreStarts DEF PageInit, ChartPageInv, RestorePageInv
  <2>3. ImportInv
    BY WizardStarts DEF PageInit, ImportInv
  <2>. QED  BY <2>1, <2>2, <2>3 DEF PageInv
<1>2. PageInv /\ [PageNext]_pageVars => PageInv'
  <2>. SUFFICES ASSUME PageInv, PageNext \/ UNCHANGED pageVars PROVE PageInv'
    OBVIOUS
  <2>1. page' \in {"imports", "zevs", "metering", "points", "backups"}
    BY DEF PageInv, PageNext, pageVars
  <2>2. CreateInv'
    <3>1. UNCHANGED createVars \/ Create!Next
      BY DEF PageNext, pageVars
    <3>. QED  BY <3>1, CreateIdle, CreateSteps DEF PageInv
  <2>3. ImportInv' /\ ChartPageInv' /\ PointsInv' /\ RestorePageInv'
    BY ImportKeeps, ChartKeeps, PointsKeep, RestoreKeeps DEF PageInv
  <2>. QED  BY <2>1, <2>2, <2>3 DEF PageInv
<1>3. PageInv => AppliesWhatWasShown
  <2>. SUFFICES ASSUME PageInv PROVE AppliesWhatWasShown
    OBVIOUS
  <2>1. PageTypeOK
    BY PageTypes DEF PageInv
  <2>2. PreviewIsOfSelection /\ UploadedWasPreviewed /\ RetrySparesImported
    BY ImportShowsItsOwn DEF PageInv
  <2>3. page = "backups" => Section!RestoresWhatWasShown
    BY DEF PageInv, RestorePageInv, RestoreInv, Confirmed, Section!RestoresWhatWasShown
  <2>. QED  BY <2>1, <2>2, <2>3 DEF AppliesWhatWasShown
<1>. QED  BY <1>1, <1>2, <1>3, PTL DEF PageSpec
=============================================================================
