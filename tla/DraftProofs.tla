----------------------------- MODULE DraftProofs -----------------------------
(***************************************************************************)
(* Theorems about SettingsDraft, for any communities, forms, saves and     *)
(* mounts of the page: a clean draft shows what was saved last or later,   *)
(* a message is about the value in its field, and what is typed stays.     *)
(***************************************************************************)
EXTENDS SettingsDraft, FiniteSetTheorems, TLAPS

-----------------------------------------------------------------------------
(* The inductive invariant *)

Draft == [zev : Zevs, epoch : 1..MaxEpochs, form : Forms, baseline : Accepted,
          error : BOOLEAN, rejected : SUBSET Forms]
Save == [id : Zevs, page : 1..MaxPages, epoch : 1..MaxEpochs, form : Valid,
         stage : {"sent", "stored", "failed"}, at : 0..(MaxWrites + 1)]

Types ==
    /\ log \in [Zevs -> Seq(Version)]
    /\ list \in [Zevs -> Version]
    /\ read \in {Idle, Asked} \cup [stage : {"served"}, data : [Zevs -> Version]]
    /\ selected \in Zevs
    /\ page \in 1..MaxPages
    /\ open \in BOOLEAN
    /\ accepted \in [1..MaxPages -> [Zevs -> SUBSET Version]]
    /\ saves \subseteq Save
    /\ asking \in Zevs \cup {"no", "leave"}

\* r is a version that the API stored of community z.
IsStored(z, r) == r.at \in 1..Len(log[z]) /\ log[z][r.at] = r

\* updated_at is the position in the log.
LogInOrder ==
    \A z \in Zevs : /\ Len(log[z]) >= 1
                    /\ \A i \in 1..Len(log[z]) : log[z][i].at = i

\* Whatever the browser holds was stored: the list, the answer on its way, the
\* one save a page remembers of a community; a page not yet mounted remembers
\* none.
Backed ==
    \A z \in Zevs :
        /\ IsStored(z, list[z])
        /\ read.stage = "served" => IsStored(z, read.data[z])
        /\ \A p \in 1..MaxPages :
              /\ \A a \in accepted[p][z] : IsStored(z, a)
              /\ \A a, b \in accepted[p][z] : a = b
              /\ p > page => accepted[p][z] = {}

\* A save on its way: one that was stored is in the log; it is of a page that
\* was mounted and of a draft that was begun; and the draft it was submitted
\* from still holds what was submitted, unsaved, and waits for no other.
SavesInOrder ==
    \A s \in saves :
        /\ s.stage = "stored" => IsStored(s.id, [at |-> s.at, form |-> s.form])
        /\ s.page <= page
        /\ open /\ s.page = page => s.epoch <= draft.epoch
        /\ ofDraft(s) => /\ draft.form = s.form /\ draft.form # draft.baseline
                         /\ \A t \in saves : ofDraft(t) => t = s

\* The draft of a mounted page is of the selected community, and a message
\* stands only beside a value that is not saved.
DraftInOrder ==
    /\ open => /\ draft \in Draft /\ draft.zev = selected
               /\ draft.rejected \subseteq {draft.form}
               /\ draft.rejected # {} => draft.form # draft.baseline
    /\ ~open => draft = noDraft

\* The dialog is asked of a mounted page, whose next draft is within bounds.
DialogInOrder ==
    /\ asking # "no" => open
    /\ asking \in Zevs => asking # selected /\ draft.epoch < MaxEpochs

DraftInv ==
    /\ Types /\ LogInOrder /\ Backed /\ SavesInOrder
    /\ DraftInOrder /\ DialogInOrder /\ NothingIsReverted

-----------------------------------------------------------------------------
(* The log *)

\* The log only grows.
LogGrows ==
    \A z \in Zevs : /\ Len(log'[z]) >= Len(log[z])
                    /\ \A i \in 1..Len(log[z]) : log'[z][i] = log[z][i]

LEMMA LenType ==
    ASSUME Types, NEW z \in Zevs
    PROVE  /\ log[z] \in Seq(Version) /\ Len(log[z]) \in Nat
           /\ DOMAIN log[z] = 1..Len(log[z])
           /\ \A i \in 1..Len(log[z]) : log[z][i] \in Version
  BY DEF Types

\* The bound on the versions stored bounds the position of each.
LEMMA RoomToStore ==
    ASSUME Types, LogInOrder, canStore, NEW z \in Zevs
    PROVE  Len(log[z]) + 1 \in 1..(MaxWrites + 1)
<1> DEFINE room == 2..(MaxWrites + 1)
           all == {v \in Zevs \X room : v[2] <= Len(log[v[1]])}
<1>1. IsFiniteSet(room) /\ Cardinality(room) = MaxWrites
  <2>1. 2 \in Int /\ MaxWrites + 1 \in Int /\ MaxWrites \in Nat
    BY DraftBounds
  <2>2. /\ IsFiniteSet(2..(MaxWrites + 1))
        /\ Cardinality(2..(MaxWrites + 1)) = IF 2 > MaxWrites + 1 THEN 0 ELSE MaxWrites + 1 - 2 + 1
    BY <2>1, FS_Interval
  <2>. QED  BY <2>1, <2>2
<1>2. IsFiniteSet(all) /\ Cardinality(all) \in Nat
  <2> HIDE DEF room
  <2>1. IsFiniteSet(Zevs \X room)
    BY <1>1, ZevsAssumption, FS_Product
  <2>2. all \in SUBSET (Zevs \X room)
    OBVIOUS
  <2> HIDE DEF all
  <2>. QED  BY <2>1, <2>2, FS_Subset, FS_CardinalityType
<1>3. Cardinality(all) < MaxWrites
  BY DEF canStore
<1>4. Cardinality({z} \X room) = MaxWrites
  <2> HIDE DEF room
  <2>1. IsFiniteSet({z}) /\ Cardinality({z}) = 1
    BY FS_Singleton
  <2>2. Cardinality({z} \X room) = 1 * MaxWrites
    BY <1>1, <2>1, FS_Product
  <2>. QED  BY <2>2, DraftBounds
<1>5. Len(log[z]) \in Nat
  BY LenType
<1>6. Len(log[z]) - 1 < MaxWrites
  <2> SUFFICES ASSUME MaxWrites + 1 <= Len(log[z]) PROVE FALSE
    BY <1>5, DraftBounds
  <2>1. \A i \in room : i <= Len(log[z])
    BY <1>5, DraftBounds
  <2>2. {z} \X room \in SUBSET all
    <3> HIDE DEF room
    <3>. QED  BY <2>1
  <2>3. Cardinality({z} \X room) <= Cardinality(all)
    <3> HIDE DEF room, all
    <3>. QED  BY <1>2, <2>2, FS_Subset
  <2> HIDE DEF room, all
  <2>. QED  BY <1>2, <1>3, <1>4, <2>3, DraftBounds
<1>. QED  BY <1>6, LenType, DraftBounds

LEMMA StoreFacts ==
    ASSUME Types, LogInOrder, canStore, NEW z \in Zevs, NEW f \in Accepted, store(z, f)
    PROVE  /\ log' \in [Zevs -> Seq(Version)] /\ LogInOrder' /\ LogGrows
           /\ Len(log[z]) + 1 \in 1..(MaxWrites + 1)
           /\ \A r : r = [at |-> Len(log[z]) + 1, form |-> f] => IsStored(z, r)'
<1>1. PICK n : n = Len(log[z]) + 1
  OBVIOUS
<1>2. n \in 1..(MaxWrites + 1)
  BY <1>1, RoomToStore
<1>3. PICK r : r = [at |-> n, form |-> f]
  OBVIOUS
<1>4. r \in Version /\ r.at = n
  BY <1>2, <1>3 DEF Version
<1>5. log' = [log EXCEPT ![z] = Append(log[z], r)]
  BY <1>1, <1>3 DEF store
<1>6. log \in [Zevs -> Seq(Version)] /\ log[z] \in Seq(Version)
  BY DEF Types
<1>7. /\ Append(log[z], r) \in Seq(Version) /\ Len(Append(log[z], r)) = n
      /\ \A i \in 1..Len(log[z]) : Append(log[z], r)[i] = log[z][i]
      /\ Append(log[z], r)[n] = r
  BY <1>1, <1>4, <1>6
<1>8. log' \in [Zevs -> Seq(Version)] /\ log'[z] = Append(log[z], r)
      /\ \A y \in Zevs \ {z} : log'[y] = log[y]
  BY <1>5, <1>6, <1>7
<1>9. \A y \in Zevs : Len(log[y]) \in Nat
  BY LenType
<1>10. LogGrows
  <2>1. ASSUME NEW y \in Zevs
        PROVE  /\ Len(log'[y]) >= Len(log[y])
               /\ \A i \in 1..Len(log[y]) : log'[y][i] = log[y][i]
    <3>1. CASE y # z
      BY <1>8, <1>9, <3>1
    <3>2. CASE y = z
      BY <1>1, <1>7, <1>8, <1>9, <3>2
    <3>. QED  BY <3>1, <3>2
  <2>. QED  BY <2>1 DEF LogGrows
<1>11. LogInOrder'
  <2>1. ASSUME NEW y \in Zevs
        PROVE  Len(log'[y]) >= 1 /\ \A i \in 1..Len(log'[y]) : log'[y][i].at = i
    <3>1. CASE y # z
      BY <1>8, <3>1 DEF LogInOrder
    <3>2. CASE y = z
      <4>1. \A i \in 1..n : i = n \/ i \in 1..Len(log[z])
        BY <1>1, <1>9
      <4>2. \A i \in 1..Len(log[z]) : log[z][i].at = i
        BY DEF LogInOrder
      <4>. QED  BY <1>2, <1>4, <1>7, <1>8, <3>2, <4>1, <4>2
    <3>. QED  BY <3>1, <3>2
  <2>. QED  BY <2>1 DEF LogInOrder
<1>12. IsStored(z, r)'
  BY <1>2, <1>4, <1>7, <1>8 DEF IsStored
<1>. QED  BY <1>1, <1>2, <1>3, <1>8, <1>10, <1>11, <1>12

LEMMA LogSame ==
    ASSUME Types, LogInOrder, UNCHANGED log
    PROVE  log' \in [Zevs -> Seq(Version)] /\ LogInOrder' /\ LogGrows
<1>1. \A y \in Zevs : Len(log[y]) \in Nat
  BY LenType
<1>. QED  BY <1>1 DEF Types, LogInOrder, LogGrows

\* What was stored stays stored.
LEMMA StoredStays ==
    ASSUME Types, LogGrows, NEW z \in Zevs, NEW r, IsStored(z, r)
    PROVE  IsStored(z, r)'
<1>1. /\ Len(log[z]) \in Nat /\ Len(log'[z]) >= Len(log[z])
      /\ log'[z][r.at] = r /\ r.at \in 1..Len(log[z])
  BY LenType DEF IsStored, LogGrows
<1>2. PICK m : m = Len(log'[z])
  OBVIOUS
<1>. QED  BY <1>1, <1>2 DEF IsStored

-----------------------------------------------------------------------------
(* What a render makes of the draft *)

\* The form a clean draft is given: the record's or, where the record is not
\* newer than what the page accepted, the accepted one.
Target(memory, record) ==
    IF isStale(memory, record) THEN (CHOOSE a \in memory : TRUE).form ELSE record.form

LEMMA TargetType ==
    ASSUME NEW memory \in SUBSET Version, NEW record \in Version
    PROVE  Target(memory, record) \in Accepted
<1>1. CASE isStale(memory, record)
  <2>1. (CHOOSE a \in memory : TRUE) \in memory
    BY <1>1 DEF isStale
  <2>. QED  BY <1>1, <2>1 DEF Target, Version
<1>2. CASE ~isStale(memory, record)
  BY <1>2 DEF Target, Version
<1>. QED  BY <1>1, <1>2

\* It is the form that was accepted or a later one.
LEMMA TargetIsCurrent ==
    ASSUME Types, NEW z \in Zevs, NEW record \in Version, IsStored(z, record),
           NEW memory \in SUBSET Version, \A a \in memory : IsStored(z, a),
           \A a, b \in memory : a = b, NEW a \in memory
    PROVE  \E i \in a.at..Len(log[z]) : log[z][i].form = Target(memory, record)
<1>0. /\ Len(log[z]) \in Nat
      /\ a.at \in 1..Len(log[z]) /\ log[z][a.at] = a
      /\ record.at \in 1..Len(log[z]) /\ log[z][record.at] = record
  BY LenType DEF IsStored
<1>1. CASE isStale(memory, record)
  <2>1. (CHOOSE b \in memory : TRUE) \in memory
    OBVIOUS
  <2>2. Target(memory, record) = a.form
    BY <1>1, <2>1 DEF Target
  <2>. QED  BY <1>0, <2>2
<1>2. CASE ~isStale(memory, record)
  <2>1. Target(memory, record) = record.form
    BY <1>2 DEF Target
  <2>2. ~(record.at <= a.at) \/ record.form = a.form
    BY <1>2 DEF isStale, isZevFormDirty
  <2>. QED  BY <1>0, <2>1, <2>2
<1>. QED  BY <1>1, <1>2

\* A dirty draft of the community is left alone; any other becomes clean and
\* has the target form.
Followed(r, d, zev, target) ==
    /\ r.zev = zev
    /\ r.epoch = IF d.zev = zev THEN d.epoch ELSE d.epoch + 1
    /\ IF d.zev = zev /\ d.form # d.baseline THEN r = d
       ELSE r.form = target /\ r.baseline = target
    /\ r.rejected \subseteq IF d.zev = zev THEN d.rejected ELSE {}

LEMMA FollowFacts ==
    ASSUME NEW d \in Draft, NEW records \in [Zevs -> Version], NEW zev \in Zevs,
           NEW memory \in SUBSET Version, d.zev = zev \/ d.epoch < MaxEpochs,
           NEW r, r = clearError(followList(d, records, zev, memory))
    PROVE  r \in Draft /\ Followed(r, d, zev, Target(memory, records[zev]))
<1>1. PICK target : target = Target(memory, records[zev])
  OBVIOUS
<1>2. target \in Accepted /\ target \in Forms
  BY <1>1, TargetType, FormsAssumption
<1>3. PICK e : e = followList(d, records, zev, memory)
  OBVIOUS
<1>4. e = IF d.zev # zev
          THEN [zev |-> zev, epoch |-> d.epoch + 1, form |-> target, baseline |-> target,
                error |-> FALSE, rejected |-> {}]
          ELSE IF isZevFormDirty(d.form, d.baseline) THEN d
          ELSE [d EXCEPT !.form = target, !.baseline = target]
  BY <1>1, <1>3 DEF followList, Target
<1>5. e \in Draft /\ Followed(e, d, zev, target)
  <2>1. CASE d.zev # zev
    <3>1. d.epoch + 1 \in 1..MaxEpochs
      BY <2>1, DraftBounds DEF Draft
    <3>2. e = [zev |-> zev, epoch |-> d.epoch + 1, form |-> target, baseline |-> target,
               error |-> FALSE, rejected |-> {}]
      BY <1>4, <2>1
    <3>3. e \in Draft
      BY <1>2, <3>1, <3>2 DEF Draft
    <3>. QED  BY <2>1, <3>2, <3>3 DEF Followed
  <2>2. CASE d.zev = zev /\ d.form # d.baseline
    <3>1. e = d
      BY <1>4, <2>2 DEF isZevFormDirty
    <3>. QED  BY <2>2, <3>1 DEF Followed
  <2>3. CASE d.zev = zev /\ d.form = d.baseline
    <3>1. e = [d EXCEPT !.form = target, !.baseline = target]
      BY <1>4, <2>3 DEF isZevFormDirty
    <3>2. e \in Draft
      BY <1>2, <3>1 DEF Draft
    <3>. QED  BY <2>3, <3>1, <3>2 DEF Followed, Draft
  <2>. QED  BY <2>1, <2>2, <2>3
<1>6. r = IF e.error /\ e.form = e.baseline THEN [e EXCEPT !.error = FALSE, !.rejected = {}] ELSE e
  BY <1>3 DEF clearError
<1>7. CASE e.error /\ e.form = e.baseline
  <2>1. r = [e EXCEPT !.error = FALSE, !.rejected = {}]
    BY <1>6, <1>7
  <2>2. r \in Draft
    BY <1>5, <2>1 DEF Draft
  <2>3. /\ r.zev = e.zev /\ r.epoch = e.epoch /\ r.form = e.form /\ r.baseline = e.baseline
        /\ r.rejected = {}
    BY <1>5, <2>1 DEF Draft
  <2>4. ~(d.zev = zev /\ d.form # d.baseline)
    BY <1>5, <1>7 DEF Followed
  <2>. QED  BY <1>1, <1>5, <2>2, <2>3, <2>4 DEF Followed
<1>8. CASE ~(e.error /\ e.form = e.baseline)
  BY <1>1, <1>5, <1>6, <1>8
<1>. QED  BY <1>7, <1>8

-----------------------------------------------------------------------------
(* Parts of the invariant that a step leaves alone *)

TargetsAreCurrent ==
    \A z \in Zevs, record \in Version, memory \in SUBSET Version :
        IsStored(z, record) /\ (\A a \in memory : IsStored(z, a)) /\ (\A a, b \in memory : a = b)
        => \A a \in memory :
              \E i \in a.at..Len(log[z]) : log[z][i].form = Target(memory, record)

LEMMA CurrentNow == Types => TargetsAreCurrent
  BY TargetIsCurrent DEF TargetsAreCurrent

LEMMA CurrentNext == Types' => TargetsAreCurrent'
  BY CurrentNow, PTL

\* A render brings the draft in step with the list.
LEMMA RenderStep ==
    ASSUME Types', Backed', open', NEW d \in Draft,
           d.zev = selected' \/ d.epoch < MaxEpochs,
           d.rejected \subseteq {d.form}, d.rejected # {} => d.form # d.baseline,
           draft' = clearError(followList(d, list', selected', accepted'[page'][selected']))
    PROVE  /\ DraftInOrder' /\ NothingIsReverted'
           /\ Followed(draft', d, selected', Target(accepted'[page'][selected'], list'[selected']))
<1>1. PICK z : z = selected'
  OBVIOUS
<1>2. PICK memory : memory = accepted'[page'][z]
  OBVIOUS
<1>3. PICK records : records = list'
  OBVIOUS
<1>4. /\ z \in Zevs /\ page' \in 1..MaxPages /\ memory \in SUBSET Version
      /\ records \in [Zevs -> Version]
  BY <1>1, <1>2, <1>3 DEF Types
<1>5. PICK r : r = draft'
  OBVIOUS
<1>6. r \in Draft /\ Followed(r, d, z, Target(memory, records[z]))
  <2>1. r = clearError(followList(d, records, z, memory)) /\ (d.zev = z \/ d.epoch < MaxEpochs)
    BY <1>1, <1>2, <1>3, <1>5
  <2>. QED  BY <1>4, <2>1, FollowFacts
<1>7. r.rejected \subseteq {r.form} /\ (r.rejected # {} => r.form # r.baseline)
  BY <1>6 DEF Followed
<1>8. DraftInOrder'
  BY <1>1, <1>5, <1>6, <1>7 DEF DraftInOrder, Followed
<1>9. NothingIsReverted'
  <2> SUFFICES ASSUME (draftIsSelected /\ ~isDirty)', NEW a \in memory
               PROVE  \E i \in a.at..Len(log'[z]) : log'[z][i].form = r.baseline
    BY <1>1, <1>2, <1>5 DEF NothingIsReverted
  <2>1. r.form = r.baseline
    BY <1>5 DEF isDirty, isZevFormDirty, draftIsSelected
  <2>2. r.baseline = Target(memory, records[z])
    BY <1>6, <2>1 DEF Followed
  <2>3. /\ IsStored(z, records[z])' /\ \A b \in memory : IsStored(z, b)'
        /\ \A b, c \in memory : b = c
    BY <1>2, <1>3, <1>4 DEF Backed
  <2>4. TargetsAreCurrent'
    BY CurrentNext
  <2>5. \E i \in a.at..Len(log'[z]) : log'[z][i].form = Target(memory, records[z])
    BY <1>4, <2>3, <2>4 DEF TargetsAreCurrent
  <2>. QED  BY <2>2, <2>5
<1>. QED  BY <1>1, <1>2, <1>3, <1>5, <1>6, <1>8, <1>9

LEMMA BackedKept ==
    ASSUME DraftInv, LogGrows, UNCHANGED <<list, read, accepted, page>>
    PROVE  Backed'
<1>1. ASSUME NEW z \in Zevs
      PROVE  /\ IsStored(z, list[z])'
             /\ (read.stage = "served" => IsStored(z, read.data[z]))'
             /\ \A p \in 1..MaxPages :
                   /\ \A a \in accepted[p][z] : IsStored(z, a)'
                   /\ \A a, b \in accepted[p][z] : a = b
                   /\ p > page => accepted[p][z] = {}
  <2>1. \A r : IsStored(z, r) => IsStored(z, r)'
    BY StoredStays DEF DraftInv
  <2>2. PICK r : r = list[z]
    OBVIOUS
  <2>3. PICK u : u = read.data[z]
    OBVIOUS
  <2>4. IsStored(z, r)' /\ (read.stage = "served" => IsStored(z, u)')
    BY <2>1, <2>2, <2>3 DEF DraftInv, Backed
  <2>5. IsStored(z, list[z])' /\ (read.stage = "served" => IsStored(z, read.data[z]))'
    BY <2>2, <2>3, <2>4 DEF IsStored
  <2>. QED  BY <2>1, <2>5 DEF DraftInv, Backed
<1>. QED  BY <1>1 DEF Backed

LEMMA RevertedKept ==
    ASSUME DraftInv, LogGrows, log' \in [Zevs -> Seq(Version)],
           UNCHANGED <<draft, accepted, selected, page, open>>
    PROVE  NothingIsReverted'
<1>1. selected \in Zevs /\ Len(log[selected]) \in Nat /\ page \in 1..MaxPages
  BY LenType DEF DraftInv, Types
<1>2. PICK m : m = Len(log'[selected])
  OBVIOUS
<1>3. /\ m \in Nat /\ m >= Len(log[selected])
      /\ \A i \in 1..Len(log[selected]) : log'[selected][i] = log[selected][i]
  BY <1>1, <1>2 DEF LogGrows
<1>4. \A a \in accepted[page][selected] : a.at \in 1..Len(log[selected])
  BY <1>1 DEF DraftInv, Backed, IsStored
<1>5. ASSUME draftIsSelected, ~isDirty, NEW a \in accepted[page][selected]
      PROVE  \E i \in a.at..m : log'[selected][i].form = draft.baseline
  <2>1. PICK i \in a.at..Len(log[selected]) : log[selected][i].form = draft.baseline
    BY <1>5 DEF DraftInv, NothingIsReverted
  <2>2. i \in 1..Len(log[selected])
    BY <1>1, <1>4, <2>1
  <2>3. i \in a.at..m
    BY <1>1, <1>3, <1>4, <2>1, <2>2
  <2>. QED  BY <1>3, <2>1, <2>2, <2>3
<1>. QED  BY <1>2, <1>5 DEF NothingIsReverted, draftIsSelected, isDirty, isZevFormDirty

\* Nothing that a save is compared with changed.
LEMMA SavesKept ==
    ASSUME DraftInv, LogGrows, NEW T, saves' = T, T \subseteq saves,
           UNCHANGED <<draft, selected, page, open>>
    PROVE  SavesInOrder'
<1>1. Types /\ SavesInOrder
  BY DEF DraftInv
<1>2. ASSUME NEW s \in T
      PROVE  s.stage = "stored" => IsStored(s.id, [at |-> s.at, form |-> s.form])'
  <2>1. s.id \in Zevs
    BY <1>1 DEF Types, Save
  <2>. QED  BY <1>1, <2>1, StoredStays DEF SavesInOrder
<1>. QED  BY <1>1, <1>2 DEF SavesInOrder, ofDraft

\* A save on its way is answered or lost.
LEMMA SavesAdvance ==
    ASSUME DraftInv, LogGrows, NEW s \in saves, NEW stage \in {"stored", "failed"},
           NEW at \in 0..(MaxWrites + 1), advance(s, stage, at),
           \A r : r = [at |-> at, form |-> s.form] /\ stage = "stored" => IsStored(s.id, r)',
           UNCHANGED <<draft, selected, page, open>>
    PROVE  saves' \subseteq Save /\ SavesInOrder'
<1>1. Types /\ SavesInOrder /\ s \in Save
  BY DEF DraftInv, Types
<1>2. PICK n : n = [s EXCEPT !.stage = stage, !.at = at]
  OBVIOUS
<1>3. /\ n \in Save /\ n.stage = stage /\ n.at = at /\ n.id = s.id /\ n.page = s.page
      /\ n.epoch = s.epoch /\ n.form = s.form
  BY <1>1, <1>2 DEF Save
<1>4. saves' = (saves \ {s}) \cup {n}
  BY <1>2 DEF advance
<1>5. saves' \subseteq Save
  BY <1>1, <1>3, <1>4 DEF Types
<1>6. n.stage = "stored" => IsStored(n.id, [at |-> n.at, form |-> n.form])'
  BY <1>3
<1>7. ASSUME NEW t \in saves
      PROVE  t.stage = "stored" => IsStored(t.id, [at |-> t.at, form |-> t.form])'
  <2>1. t.id \in Zevs
    BY <1>1 DEF Types, Save
  <2>. QED  BY <1>1, <2>1, StoredStays DEF SavesInOrder
<1>8. (ofDraft(n) <=> ofDraft(s)) /\ \A t : ofDraft(t)' <=> ofDraft(t)
  BY <1>3 DEF ofDraft
<1>9. SavesInOrder'
  <2>1. ASSUME NEW t \in saves'
        PROVE  /\ t.stage = "stored" => IsStored(t.id, [at |-> t.at, form |-> t.form])'
               /\ t.page <= page
               /\ open /\ t.page = page => t.epoch <= draft.epoch
               /\ ofDraft(t) => /\ draft.form = t.form /\ draft.form # draft.baseline
                                /\ \A u \in saves' : ofDraft(u) => u = t
    <3>1. CASE t \in saves /\ t # s
      BY <1>1, <1>4, <1>7, <1>8, <3>1 DEF SavesInOrder
    <3>2. CASE t = n
      BY <1>1, <1>3, <1>4, <1>6, <1>8, <3>2 DEF SavesInOrder
    <3>. QED  BY <1>4, <3>1, <3>2
  <2>. QED  BY <1>8, <2>1 DEF SavesInOrder
<1>. QED  BY <1>5, <1>9

LEMMA NewestIsStored ==
    ASSUME Types, LogInOrder, NEW z \in Zevs
    PROVE  newest(z) \in Version /\ IsStored(z, newest(z))
<1>1. /\ Len(log[z]) \in Nat /\ Len(log[z]) >= 1
      /\ \A i \in 1..Len(log[z]) : log[z][i] \in Version /\ log[z][i].at = i
  BY LenType DEF LogInOrder
<1>2. Len(log[z]) \in 1..Len(log[z])
  BY <1>1
<1>. QED  BY <1>1, <1>2 DEF newest, IsStored

-----------------------------------------------------------------------------
(* The steps of the API *)

LEMMA ApiStep ==
    ASSUME DraftInv,
           \/ \E s \in saves : updateZev(s) \/ Lose(s)
           \/ \E z \in Zevs, f \in Accepted : Elsewhere(z, f)
    PROVE  DraftInv'
<1>0. /\ Types /\ LogInOrder /\ DraftInOrder /\ DialogInOrder
      /\ UNCHANGED <<list, read, selected, page, open, draft, accepted, asking>>
  BY DEF DraftInv, updateZev, Lose, Elsewhere
<1>1. ASSUME log' \in [Zevs -> Seq(Version)], LogInOrder', LogGrows, saves' \subseteq Save,
             SavesInOrder'
      PROVE  DraftInv'
  <2>1. Types'
    BY <1>0, <1>1 DEF Types
  <2>2. Backed' /\ NothingIsReverted'
    BY <1>0, <1>1, BackedKept, RevertedKept
  <2>3. DraftInOrder' /\ DialogInOrder'
    BY <1>0 DEF DraftInOrder, DialogInOrder
  <2>. QED  BY <1>1, <2>1, <2>2, <2>3 DEF DraftInv
<1>2. ASSUME NEW z \in Zevs, NEW f \in Accepted, Elsewhere(z, f)
      PROVE  DraftInv'
  <2>1. log' \in [Zevs -> Seq(Version)] /\ LogInOrder' /\ LogGrows
    BY <1>0, <1>2, StoreFacts DEF Elsewhere
  <2>2. saves' = saves /\ saves \subseteq Save
    BY <1>0, <1>2 DEF Elsewhere, Types
  <2>3. SavesInOrder'
    BY <1>0, <2>1, <2>2, SavesKept
  <2>. QED  BY <1>1, <2>1, <2>2, <2>3
<1>3. ASSUME NEW s \in saves, updateZev(s) \/ Lose(s)
      PROVE  DraftInv'
  <2>0. s \in Save /\ 0 \in 0..(MaxWrites + 1)
    BY <1>0, DraftBounds DEF Types
  <2>1. CASE /\ canStore /\ s.form \in Accepted /\ store(s.id, s.form)
             /\ advance(s, "stored", Len(log[s.id]) + 1)
    <3>1. PICK at : at = Len(log[s.id]) + 1
      OBVIOUS
    <3>2. s.id \in Zevs
      BY <2>0 DEF Save
    <3>3. /\ log' \in [Zevs -> Seq(Version)] /\ LogInOrder' /\ LogGrows
          /\ at \in 1..(MaxWrites + 1)
          /\ \A r : r = [at |-> at, form |-> s.form] => IsStored(s.id, r)'
      BY <1>0, <2>1, <3>1, <3>2, StoreFacts
    <3>4. at \in 0..(MaxWrites + 1) /\ advance(s, "stored", at)
      BY <2>1, <3>1, <3>3, DraftBounds
    <3>5. saves' \subseteq Save /\ SavesInOrder'
      BY <1>0, <3>3, <3>4, SavesAdvance
    <3>. QED  BY <1>1, <3>3, <3>5
  <2>2. ASSUME NEW at \in 0..(MaxWrites + 1), advance(s, "failed", at), UNCHANGED log
        PROVE  DraftInv'
    <3>1. log' \in [Zevs -> Seq(Version)] /\ LogInOrder' /\ LogGrows
      BY <1>0, <2>2, LogSame
    <3>2. saves' \subseteq Save /\ SavesInOrder'
      BY <1>0, <2>2, <3>1, SavesAdvance
    <3>. QED  BY <1>1, <3>1, <3>2
  <2>3. s.at \in 0..(MaxWrites + 1)
    BY <2>0 DEF Save
  <2>. QED  BY <1>3, <2>0, <2>1, <2>2, <2>3 DEF updateZev, Lose
<1>. QED  BY <1>2, <1>3

LEMMA ReadStep ==
    ASSUME DraftInv, refetchOnFocus \/ fetchZevs \/ readFails
    PROVE  DraftInv'
<1>0. /\ Types /\ LogInOrder /\ Backed /\ DraftInOrder /\ DialogInOrder
      /\ UNCHANGED <<log, list, selected, page, open, draft, accepted, saves, asking>>
  BY DEF DraftInv, refetchOnFocus, fetchZevs, readFails
<1>1. log' \in [Zevs -> Seq(Version)] /\ LogInOrder' /\ LogGrows
  BY <1>0, LogSame
<1>2. SavesInOrder' /\ NothingIsReverted'
  BY <1>0, <1>1, SavesKept, RevertedKept
<1>3. DraftInOrder' /\ DialogInOrder'
  BY <1>0 DEF DraftInOrder, DialogInOrder
<1>4. Types' /\ Backed'
  <2>1. CASE read' \in {Idle, Asked}
    <3>1. read'.stage # "served"
      BY <2>1 DEF Idle, Asked
    <3>2. Types'
      BY <1>0, <2>1 DEF Types
    <3>. QED  BY <1>0, <3>1, <3>2 DEF Backed, IsStored
  <2>2. CASE fetchZevs
    <3>1. PICK data : data = [z \in Zevs |-> newest(z)]
      OBVIOUS
    <3>2. read' = [stage |-> "served", data |-> data]
      BY <2>2, <3>1 DEF fetchZevs
    <3>3. data \in [Zevs -> Version] /\ \A z \in Zevs : IsStored(z, data[z])
      BY <1>0, <3>1, NewestIsStored
    <3>4. Types'
      BY <1>0, <3>2, <3>3 DEF Types
    <3>. QED  BY <1>0, <3>2, <3>3, <3>4 DEF Backed, IsStored
  <2>. QED  BY <2>1, <2>2 DEF refetchOnFocus, readFails
<1>. QED  BY <1>1, <1>2, <1>3, <1>4 DEF DraftInv

-----------------------------------------------------------------------------
(* The steps of the user *)

\* The draft's own save, where there is one, finds the draft as it was.
LEMMA SavesRendered ==
    ASSUME DraftInv, LogGrows, NEW T, saves' = T, T \subseteq saves, open,
           UNCHANGED <<page, open, selected>>, draft'.epoch = draft.epoch,
           \A s \in T : ofDraft(s) => draft'.form = draft.form /\ draft'.baseline = draft.baseline
    PROVE  SavesInOrder'
<1>1. Types /\ SavesInOrder
  BY DEF DraftInv
<1>2. ASSUME NEW s \in T
      PROVE  s.stage = "stored" => IsStored(s.id, [at |-> s.at, form |-> s.form])'
  <2>1. s.id \in Zevs
    BY <1>1 DEF Types, Save
  <2>. QED  BY <1>1, <2>1, StoredStays DEF SavesInOrder
<1>3. \A s : ofDraft(s)' <=> ofDraft(s)
  BY DEF ofDraft
<1>4. ASSUME NEW s \in T
      PROVE  /\ s.page <= page
             /\ open /\ s.page = page => s.epoch <= draft'.epoch
             /\ ofDraft(s) => /\ draft'.form = s.form /\ draft'.form # draft'.baseline
                              /\ \A t \in T : ofDraft(t) => t = s
  BY <1>1 DEF SavesInOrder
<1>. QED  BY <1>2, <1>3, <1>4 DEF SavesInOrder

\* A step of the user changes neither what is stored nor what was read.
LEMMA UserFrame ==
    ASSUME DraftInv, UNCHANGED <<log, list, read, page, accepted>>, selected' \in Zevs,
           open' \in BOOLEAN, saves' \subseteq Save, asking' \in Zevs \cup {"no", "leave"}
    PROVE  Types' /\ LogInOrder' /\ Backed' /\ LogGrows
<1>1. Types /\ LogInOrder
  BY DEF DraftInv
<1>2. log' \in [Zevs -> Seq(Version)] /\ LogInOrder' /\ LogGrows
  BY <1>1, LogSame
<1>3. Types'
  BY <1>1, <1>2 DEF Types
<1>. QED  BY <1>2, <1>3, BackedKept

LEMMA DraftFacts ==
    ASSUME DraftInv, open
    PROVE  /\ draft \in Draft /\ draft.zev = selected
           /\ draft.rejected \subseteq {draft.form}
           /\ draft.rejected # {} => draft.form # draft.baseline
           /\ draft.epoch \in 1..MaxEpochs /\ draft.baseline \in Forms
           /\ selected \in Zevs /\ page \in 1..MaxPages
  BY FormsAssumption DEF DraftInv, DraftInOrder, Draft, Types

\* The form is edited, or what was typed is thrown away.
LEMMA EditStep ==
    ASSUME DraftInv, (\E f \in Forms : updateForm(f)) \/ discard
    PROVE  DraftInv'
<1>0. /\ open /\ asking = "no" /\ ~isPending
      /\ UNCHANGED <<log, list, read, selected, page, open, accepted, saves, asking>>
  BY DEF updateForm, discard, atThePage, controlsReadOnly
<1>1. Types /\ DraftInOrder /\ DialogInOrder
  BY DEF DraftInv
<1>2. Types' /\ LogInOrder' /\ Backed' /\ LogGrows
  BY <1>0, <1>1, UserFrame DEF Types
<1>3. PICK d \in Draft : /\ d.zev = selected /\ d.epoch = draft.epoch /\ d.rejected = {}
                         /\ draft' = rendered(d, list, selected, accepted[page])
  <2>1. ASSUME NEW f \in Forms, updateForm(f)
        PROVE  \E d \in Draft : /\ d.zev = selected /\ d.epoch = draft.epoch /\ d.rejected = {}
                                /\ draft' = rendered(d, list, selected, accepted[page])
    <3>1. PICK d : d = [draft EXCEPT !.form = f, !.rejected = {}]
      OBVIOUS
    <3>2. d \in Draft /\ d.zev = selected /\ d.epoch = draft.epoch /\ d.rejected = {}
      BY <1>0, <3>1, DraftFacts DEF Draft
    <3>. QED  BY <2>1, <3>1, <3>2 DEF updateForm
  <2>2. CASE discard
    <3>1. PICK d : d = [draft EXCEPT !.form = draft.baseline, !.error = FALSE, !.rejected = {}]
      OBVIOUS
    <3>2. d \in Draft /\ d.zev = selected /\ d.epoch = draft.epoch /\ d.rejected = {}
      BY <1>0, <3>1, DraftFacts DEF Draft
    <3>. QED  BY <2>2, <3>1, <3>2 DEF discard
  <2>. QED  BY <2>1, <2>2
<1>4. draft' = clearError(followList(d, list', selected', accepted'[page'][selected']))
  BY <1>0, <1>3 DEF rendered
<1>5. /\ DraftInOrder' /\ NothingIsReverted'
      /\ Followed(draft', d, selected', Target(accepted'[page'][selected'], list'[selected']))
  BY <1>0, <1>2, <1>3, <1>4, RenderStep
<1>6. draft'.epoch = draft.epoch
  BY <1>0, <1>3, <1>5 DEF Followed
<1>7. SavesInOrder'
  BY <1>0, <1>2, <1>6, SavesRendered DEF isPending
<1>8. DialogInOrder'
  BY <1>0, <1>1, ZevsAssumption DEF DialogInOrder
<1>. QED  BY <1>2, <1>5, <1>7, <1>8 DEF DraftInv

LEMMA AttemptStep ==
    ASSUME DraftInv, attemptSave
    PROVE  DraftInv'
<1>0. /\ open /\ asking = "no" /\ ~isPending /\ draft.form # draft.baseline
      /\ UNCHANGED <<log, list, read, selected, page, open, accepted, asking>>
  BY DEF attemptSave, atThePage, controlsReadOnly, isDirty, isZevFormDirty
<1>1. Types /\ DraftInOrder /\ DialogInOrder /\ SavesInOrder
  BY DEF DraftInv
<1>2. DialogInOrder'
  BY <1>0, <1>1, ZevsAssumption DEF DialogInOrder
<1>3. CASE draft.form \in Valid
  <2>1. PICK n : n = [id |-> selected, page |-> page, epoch |-> draft.epoch,
                      form |-> draft.form, stage |-> "sent", at |-> 0]
    OBVIOUS
  <2>2. saves' = saves \cup {n} /\ UNCHANGED draft
    BY <1>3, <2>1 DEF attemptSave
  <2>3. n \in Save
    BY <1>0, <1>3, <2>1, DraftFacts, DraftBounds DEF Save
  <2>4. saves' \subseteq Save
    BY <1>1, <2>2, <2>3 DEF Types
  <2>5. Types' /\ LogInOrder' /\ Backed' /\ LogGrows
    BY <1>0, <1>1, <2>4, UserFrame DEF Types
  <2>6. DraftInOrder' /\ NothingIsReverted'
    BY <1>0, <1>1, <2>2, <2>5, RevertedKept DEF DraftInOrder, Types
  <2>7. \A t : ofDraft(t)' <=> ofDraft(t)
    BY <1>0, <2>2 DEF ofDraft
  <2>8. ASSUME NEW t \in saves
        PROVE  /\ ~ofDraft(t)
               /\ t.stage = "stored" => IsStored(t.id, [at |-> t.at, form |-> t.form])'
    <3>1. t.id \in Zevs
      BY <1>1 DEF Types, Save
    <3>. QED  BY <1>0, <1>1, <2>5, <3>1, StoredStays DEF SavesInOrder, isPending
  <2>9. /\ n.stage = "sent" /\ n.page = page /\ n.epoch = draft.epoch /\ n.form = draft.form
        /\ draft.epoch <= draft.epoch /\ page <= page
    BY <1>0, <2>1, DraftFacts
  <2>10. SavesInOrder'
    BY <1>0, <1>1, <2>2, <2>7, <2>8, <2>9 DEF SavesInOrder
  <2>. QED  BY <1>2, <2>5, <2>6, <2>10 DEF DraftInv
<1>4. CASE draft.form \notin Valid
  <2>1. draft' = [draft EXCEPT !.rejected = {draft.form}] /\ saves' = saves
    BY <1>4 DEF attemptSave
  <2>2. /\ draft' \in Draft /\ draft'.zev = draft.zev /\ draft'.epoch = draft.epoch
        /\ draft'.form = draft.form /\ draft'.baseline = draft.baseline
        /\ draft'.rejected = {draft.form}
    BY <1>0, <2>1, DraftFacts DEF Draft
  <2>3. Types' /\ LogInOrder' /\ Backed' /\ LogGrows
    BY <1>0, <1>1, <2>1, UserFrame DEF Types
  <2>4. DraftInOrder'
    BY <1>0, <2>2, DraftFacts DEF DraftInOrder
  <2>5. NothingIsReverted'
    BY <1>0, <2>2, DraftFacts DEF NothingIsReverted, isDirty, draftIsSelected, isZevFormDirty
  <2>6. SavesInOrder'
    BY <1>0, <2>1, <2>2, <2>3, SavesRendered
  <2>. QED  BY <1>2, <2>3, <2>4, <2>5, <2>6 DEF DraftInv
<1>. QED  BY <1>3, <1>4


\* No save on its way is of the draft that the page has now.
LEMMA SavesOutlived ==
    ASSUME DraftInv, LogGrows, saves' = saves,
           \A s \in saves : s.page <= page' /\ (open' /\ s.page = page' => s.epoch < draft'.epoch),
           open' => draft'.epoch \in Nat
    PROVE  SavesInOrder'
<1>1. Types /\ SavesInOrder
  BY DEF DraftInv
<1>2. ASSUME NEW s \in saves
      PROVE  s.stage = "stored" => IsStored(s.id, [at |-> s.at, form |-> s.form])'
  <2>1. s.id \in Zevs
    BY <1>1 DEF Types, Save
  <2>. QED  BY <1>1, <2>1, StoredStays DEF SavesInOrder
<1>3. ASSUME NEW s \in saves
      PROVE  ~ofDraft(s)' /\ (open' /\ s.page = page' => s.epoch <= draft'.epoch)
  <2>1. s.epoch \in Nat
    BY <1>1, DraftBounds DEF Types, Save
  <2>. QED  BY <2>1 DEF ofDraft
<1>. QED  BY <1>2, <1>3 DEF SavesInOrder

\* Another community is selected: a mounted page begins a new draft.
LEMMA SwitchStep ==
    ASSUME DraftInv, NEW zev \in Zevs, zev # selected, open => draft.epoch < MaxEpochs,
           setSelectedZevId(zev), asking' = "no"
    PROVE  DraftInv'
<1>0. UNCHANGED <<log, list, read, page, open, accepted, saves>> /\ selected' = zev
  BY DEF setSelectedZevId
<1>1. Types /\ DraftInOrder /\ SavesInOrder
  BY DEF DraftInv
<1>2. Types' /\ LogInOrder' /\ Backed' /\ LogGrows
  BY <1>0, <1>1, UserFrame DEF Types
<1>3. DialogInOrder'
  BY ZevsAssumption DEF DialogInOrder
<1>4. CASE open
  <2>1. draft' = clearError(followList(draft, list', selected', accepted'[page'][selected']))
    BY <1>0, <1>4 DEF setSelectedZevId, rendered
  <2>2. /\ draft \in Draft /\ draft.rejected \subseteq {draft.form} /\ draft.zev = selected
        /\ draft.rejected # {} => draft.form # draft.baseline
        /\ draft.epoch \in 1..MaxEpochs
    BY <1>4, DraftFacts
  <2>3. /\ DraftInOrder' /\ NothingIsReverted'
        /\ Followed(draft', draft, selected', Target(accepted'[page'][selected'], list'[selected']))
    BY <1>0, <1>2, <1>4, <2>1, <2>2, RenderStep
  <2>4. draft'.epoch = draft.epoch + 1
    BY <1>0, <2>2, <2>3 DEF Followed
  <2>5. \A s \in saves : s.page <= page' /\ (open' /\ s.page = page' => s.epoch < draft'.epoch)
    <3> SUFFICES ASSUME NEW s \in saves
                 PROVE  s.page <= page /\ (s.page = page => s.epoch < draft.epoch + 1)
      BY <1>0, <2>4
    <3>1. s.epoch \in Nat
      BY <1>1, DraftBounds DEF Types, Save
    <3>2. s.page <= page /\ (s.page = page => s.epoch <= draft.epoch)
      BY <1>1, <1>4 DEF SavesInOrder
    <3>. QED  BY <2>2, <3>1, <3>2
  <2>6. draft'.epoch \in Nat
    BY <2>2, <2>4, DraftBounds
  <2>7. SavesInOrder'
    BY <1>0, <1>2, <2>5, <2>6, SavesOutlived
  <2>. QED  BY <1>2, <1>3, <2>3, <2>7 DEF DraftInv
<1>5. CASE ~open
  <2>1. draft' = draft
    BY <1>5 DEF setSelectedZevId, rendered
  <2>2. DraftInOrder' /\ NothingIsReverted'
    BY <1>0, <1>1, <1>5, <2>1 DEF DraftInOrder, NothingIsReverted, draftIsSelected
  <2>3. SavesInOrder'
    BY <1>0, <1>1, <1>2, <1>5, SavesOutlived DEF SavesInOrder
  <2>. QED  BY <1>2, <1>3, <2>2, <2>3 DEF DraftInv
<1>. QED  BY <1>4, <1>5

\* The page is left.
LEMMA ElsewhereStep ==
    ASSUME DraftInv, goElsewhere, asking' = "no"
    PROVE  DraftInv'
<1>0. /\ UNCHANGED <<log, list, read, selected, page, accepted, saves>>
      /\ ~open' /\ open' \in BOOLEAN /\ draft' = noDraft
  BY DEF goElsewhere
<1>1. Types /\ SavesInOrder
  BY DEF DraftInv
<1>2. Types' /\ LogInOrder' /\ Backed' /\ LogGrows
  BY <1>0, <1>1, UserFrame DEF Types
<1>3. DialogInOrder'
  BY ZevsAssumption DEF DialogInOrder
<1>4. DraftInOrder' /\ NothingIsReverted'
  BY <1>0 DEF DraftInOrder, NothingIsReverted, draftIsSelected
<1>5. SavesInOrder'
  BY <1>0, <1>1, <1>2, SavesOutlived DEF SavesInOrder
<1>. QED  BY <1>2, <1>3, <1>4, <1>5 DEF DraftInv

\* A dialog opens or closes and nothing else changes.
LEMMA DialogStep ==
    ASSUME DraftInv, UNCHANGED <<log, list, read, selected, page, open, draft, accepted, saves>>,
           asking' \in Zevs \cup {"no", "leave"}, DialogInOrder'
    PROVE  DraftInv'
<1>1. Types /\ DraftInOrder
  BY DEF DraftInv
<1>2. Types' /\ LogInOrder' /\ Backed' /\ LogGrows
  BY <1>1, UserFrame DEF Types
<1>3. DraftInOrder' /\ NothingIsReverted'
  BY <1>1, <1>2, RevertedKept DEF DraftInOrder, Types
<1>4. SavesInOrder'
  BY <1>2, SavesKept
<1>. QED  BY <1>2, <1>3, <1>4 DEF DraftInv

LEMMA MoveStep ==
    ASSUME DraftInv, leave \/ (\E z \in Zevs : requestSwitch(z)) \/ (\E b \in BOOLEAN : answerDialog(b))
    PROVE  DraftInv'
<1>1. Types /\ DraftInOrder /\ DialogInOrder
  BY DEF DraftInv
<1>2. CASE leave
  <2>1. CASE isDirty
    <3>1. open /\ asking' = "leave"
          /\ UNCHANGED <<log, list, read, selected, page, open, draft, accepted, saves>>
      BY <1>2, <2>1 DEF leave, atThePage
    <3>2. DialogInOrder'
      BY <3>1, ZevsAssumption DEF DialogInOrder
    <3>. QED  BY <3>1, <3>2, DialogStep
  <2>2. CASE ~isDirty
    <3>1. goElsewhere /\ asking' = "no"
      BY <1>2, <2>2 DEF leave, atThePage
    <3>. QED  BY <3>1, ElsewhereStep
  <2>. QED  BY <2>1, <2>2
<1>3. ASSUME NEW z \in Zevs, requestSwitch(z)
      PROVE  DraftInv'
  <2>1. open => draft.epoch < MaxEpochs
    <3>1. open => draft.epoch \in 1..MaxEpochs /\ page \in 1..MaxPages
      BY DraftFacts
    <3>. QED  BY <1>3, <3>1, DraftBounds DEF requestSwitch
  <2>2. CASE isDirty
    <3>1. open /\ asking' = z /\ z # selected
          /\ UNCHANGED <<log, list, read, selected, page, open, draft, accepted, saves>>
      BY <1>3, <2>2 DEF requestSwitch, isDirty, draftIsSelected
    <3>2. DialogInOrder'
      BY <2>1, <3>1 DEF DialogInOrder
    <3>. QED  BY <3>1, <3>2, DialogStep
  <2>3. CASE ~isDirty
    <3>1. setSelectedZevId(z) /\ asking' = "no" /\ z # selected
      BY <1>3, <2>3 DEF requestSwitch
    <3>. QED  BY <2>1, <3>1, SwitchStep
  <2>. QED  BY <2>2, <2>3
<1>4. ASSUME NEW b \in BOOLEAN, answerDialog(b)
      PROVE  DraftInv'
  <2>0. asking # "no" /\ asking' = "no" /\ "leave" \notin Zevs
        /\ (asking = "leave" \/ asking \in Zevs)
    BY <1>1, <1>4, ZevsAssumption DEF answerDialog, Types
  <2>1. CASE ~b
    <3>1. UNCHANGED <<log, list, read, selected, page, open, draft, accepted, saves>>
      BY <1>4, <2>1 DEF answerDialog
    <3>2. DialogInOrder'
      BY <2>0, ZevsAssumption DEF DialogInOrder
    <3>. QED  BY <2>0, <3>1, <3>2, DialogStep
  <2>2. CASE b /\ asking = "leave"
    <3>1. goElsewhere
      BY <1>4, <2>0, <2>2 DEF answerDialog
    <3>. QED  BY <2>0, <3>1, ElsewhereStep
  <2>3. CASE b /\ asking \in Zevs
    <3>1. PICK z \in Zevs : z = asking
      BY <2>3
    <3>2. setSelectedZevId(z) /\ z # selected /\ draft.epoch < MaxEpochs
      BY <1>1, <1>4, <2>0, <2>3, <3>1 DEF answerDialog, DialogInOrder
    <3>. QED  BY <2>0, <3>2, SwitchStep
  <2>. QED  BY <2>0, <2>1, <2>2, <2>3
<1>. QED  BY <1>2, <1>3, <1>4


\* The page is mounted again, with a draft and a memory of its own.
LEMMA ReturnStep ==
    ASSUME DraftInv, Return
    PROVE  DraftInv'
<1>0. /\ ~open /\ page < MaxPages /\ page' = page + 1 /\ open' /\ open' \in BOOLEAN
      /\ read' = (IF read = Idle THEN Asked ELSE read)
      /\ UNCHANGED <<log, list, selected, accepted, saves, asking>>
  BY DEF Return
<1>1. Types /\ LogInOrder /\ Backed /\ SavesInOrder /\ DialogInOrder
  BY DEF DraftInv
<1>2. page \in 1..MaxPages /\ page' \in 1..MaxPages
  BY <1>0, <1>1, DraftBounds DEF Types
<1>3. log' \in [Zevs -> Seq(Version)] /\ LogInOrder' /\ LogGrows
  BY <1>0, <1>1, LogSame
<1>4. Types'
  BY <1>0, <1>1, <1>2 DEF Types
<1>5. Backed'
  <2>1. read' = read \/ read' = Asked
    BY <1>0
  <2>2. Asked.stage # "served"
    BY DEF Asked
  <2>3. \A p \in 1..MaxPages : p > page' => p > page
    BY <1>0, <1>2
  <2>. QED  BY <1>0, <1>1, <2>1, <2>2, <2>3 DEF Backed, IsStored
<1>6. PICK z \in Zevs : z = selected
  BY <1>1 DEF Types
<1>7. PICK f : f = list[z].form
  OBVIOUS
<1>8. f \in Accepted /\ f \in Forms
  BY <1>1, <1>6, <1>7, FormsAssumption DEF Types, Version
<1>9. draft' = [zev |-> z, epoch |-> 1, form |-> f, baseline |-> f, error |-> FALSE, rejected |-> {}]
  <2>1. noDraft.zev # z /\ noDraft.epoch + 1 = 1
    BY ZevsAssumption DEF noDraft
  <2>2. ~isStale({}, list[z])
    BY DEF isStale
  <2>. QED  BY <1>6, <1>7, <2>1, <2>2 DEF Return, followList
<1>10. draft' \in Draft /\ draft'.epoch = 1
  BY <1>8, <1>9, DraftBounds DEF Draft
<1>11. DraftInOrder'
  BY <1>0, <1>6, <1>9, <1>10 DEF DraftInOrder
<1>12. NothingIsReverted'
  <2>1. accepted'[page'][selected'] = {}
    BY <1>0, <1>1, <1>2, <1>6 DEF Backed
  <2>. QED  BY <2>1 DEF NothingIsReverted
<1>13. DialogInOrder'
  BY <1>0, <1>1, ZevsAssumption DEF DialogInOrder
<1>14. \A s \in saves : s.page <= page' /\ s.page # page'
  <2> SUFFICES ASSUME NEW s \in saves PROVE s.page <= page' /\ s.page # page'
    OBVIOUS
  <2>1. s.page \in 1..MaxPages
    BY <1>1 DEF Types, Save
  <2>2. s.page <= page
    BY <1>1 DEF SavesInOrder
  <2>. QED  BY <1>0, <1>2, <2>1, <2>2
<1>15. SavesInOrder'
  BY <1>0, <1>3, <1>10, <1>14, SavesOutlived
<1>. QED  BY <1>3, <1>4, <1>5, <1>11, <1>12, <1>13, <1>15 DEF DraftInv

-----------------------------------------------------------------------------
(* Answers *)

\* What arrives is rendered: d is the draft, with what the answer changes in it.
LEMMA AnswerRendered ==
    ASSUME DraftInv, Types', Backed', UNCHANGED <<log, selected, page, open, asking>>,
           NEW T, saves' = T, T \subseteq saves, NEW d,
           open => /\ d \in Draft /\ d.zev = selected /\ d.epoch = draft.epoch
                   /\ d.rejected \subseteq {d.form} /\ (d.rejected # {} => d.form # d.baseline)
                   /\ \A s \in T : ofDraft(s) => d.form = draft.form /\ d.baseline = draft.baseline,
           ~open => d = draft,
           draft' = rendered(d, list', selected, accepted'[page])
    PROVE  /\ DraftInv'
           /\ open => Followed(draft', d, selected, Target(accepted'[page][selected], list'[selected]))
<1>1. Types /\ LogInOrder /\ DraftInOrder /\ DialogInOrder /\ SavesInOrder
  BY DEF DraftInv
<1>2. LogInOrder' /\ LogGrows
  BY <1>1, LogSame
<1>3. CASE open
  <2>1. draft' = clearError(followList(d, list', selected', accepted'[page'][selected']))
    BY <1>3 DEF rendered
  <2>2. /\ DraftInOrder' /\ NothingIsReverted'
        /\ Followed(draft', d, selected', Target(accepted'[page'][selected'], list'[selected']))
    BY <1>3, <2>1, RenderStep
  <2>3. draft'.epoch = draft.epoch
    BY <1>3, <2>2 DEF Followed
  <2>4. ASSUME NEW s \in T, ofDraft(s)
        PROVE  draft'.form = draft.form /\ draft'.baseline = draft.baseline
    <3>1. draft.form # draft.baseline
      BY <1>1, <2>4 DEF SavesInOrder
    <3>. QED  BY <1>3, <2>2, <2>4, <3>1 DEF Followed
  <2>5. SavesInOrder'
    BY <1>2, <1>3, <2>3, <2>4, SavesRendered
  <2>6. DialogInOrder'
    BY <1>1, <2>3 DEF DialogInOrder
  <2>. QED  BY <1>2, <2>2, <2>5, <2>6 DEF DraftInv
<1>4. CASE ~open
  <2>1. draft' = draft
    BY <1>4 DEF rendered
  <2>2. DraftInOrder' /\ DialogInOrder' /\ NothingIsReverted'
    BY <1>1, <1>4, <2>1 DEF DraftInOrder, DialogInOrder, NothingIsReverted, draftIsSelected
  <2>3. SavesInOrder'
    BY <1>2, <2>1, SavesKept
  <2>. QED  BY <1>2, <1>4, <2>2, <2>3 DEF DraftInv
<1>. QED  BY <1>3, <1>4

\* What is typed is left as it is.
TypedStays == isDirty => draft'.form = draft.form /\ draft'.epoch = draft.epoch

LEMMA ListStep ==
    ASSUME DraftInv, listArrives
    PROVE  DraftInv' /\ TypedStays
<1>0. /\ read.stage = "served" /\ list' = read.data /\ read' = Idle
      /\ draft' = rendered(draft, list', selected, accepted'[page])
      /\ UNCHANGED <<log, selected, page, open, accepted, saves, asking>>
  BY DEF listArrives
<1>1. Types /\ Backed
  BY DEF DraftInv
<1>2. read.data \in [Zevs -> Version]
  BY <1>0, <1>1 DEF Types, Idle, Asked
<1>3. Types'
  BY <1>0, <1>1, <1>2 DEF Types
<1>4. Backed'
  <2>1. read'.stage # "served"
    BY <1>0 DEF Idle
  <2>. QED  BY <1>0, <1>1, <2>1 DEF Backed, IsStored
<1>5. /\ DraftInv'
      /\ open => Followed(draft', draft, selected, Target(accepted'[page][selected], list'[selected]))
  BY <1>0, <1>3, <1>4, DraftFacts, AnswerRendered
<1>6. TypedStays
  BY <1>5 DEF TypedStays, isDirty, draftIsSelected, isZevFormDirty, Followed
<1>. QED  BY <1>5, <1>6

LEMMA ErrorStep ==
    ASSUME DraftInv, NEW s \in saves, onError(s)
    PROVE  DraftInv' /\ TypedStays
<1>0. PICK T : T = saves \ {s}
  OBVIOUS
<1>1. /\ saves' = T /\ T \subseteq saves
      /\ UNCHANGED <<log, list, read, selected, page, open, accepted, asking>>
  BY <1>0 DEF onError
<1>2. Types /\ SavesInOrder /\ s \in Save
  BY DEF DraftInv, Types
<1>3. Types' /\ Backed'
  BY <1>1, <1>2, UserFrame DEF Types
<1>4. PICK d : /\ draft' = rendered(d, list', selected, accepted'[page])
               /\ \/ d = draft
                  \/ ofDraft(s) /\ \E R \in {{s.form}, draft.rejected} :
                                      d = [draft EXCEPT !.error = TRUE, !.rejected = R]
  BY <1>1 DEF onError
<1>5. /\ open => /\ d \in Draft /\ d.zev = selected /\ d.epoch = draft.epoch
                 /\ d.rejected \subseteq {d.form} /\ (d.rejected # {} => d.form # d.baseline)
                 /\ d.form = draft.form /\ d.baseline = draft.baseline
      /\ ~open => d = draft
  <2>1. CASE d = draft
    BY <2>1, DraftFacts
  <2>2. ASSUME ofDraft(s), NEW R \in {{s.form}, draft.rejected},
               d = [draft EXCEPT !.error = TRUE, !.rejected = R]
        PROVE  /\ open /\ d \in Draft /\ d.zev = selected /\ d.epoch = draft.epoch
               /\ d.rejected \subseteq {d.form} /\ (d.rejected # {} => d.form # d.baseline)
               /\ d.form = draft.form /\ d.baseline = draft.baseline
    <3>1. open /\ draft.form = s.form /\ draft.form # draft.baseline
      BY <1>2, <2>2 DEF SavesInOrder, ofDraft
    <3>2. R \subseteq {draft.form} /\ R \subseteq Forms
      BY <1>2, <2>2, <3>1, DraftFacts DEF Draft
    <3>3. /\ d \in Draft /\ d.zev = draft.zev /\ d.epoch = draft.epoch /\ d.rejected = R
          /\ d.form = draft.form /\ d.baseline = draft.baseline
      BY <2>2, <3>1, <3>2, DraftFacts DEF Draft
    <3>. QED  BY <3>1, <3>2, <3>3, DraftFacts
  <2>. QED  BY <1>4, <2>1, <2>2
<1>6. /\ DraftInv'
      /\ open => Followed(draft', d, selected, Target(accepted'[page][selected], list'[selected]))
  BY <1>1, <1>3, <1>4, <1>5, AnswerRendered
<1>7. TypedStays
  BY <1>5, <1>6 DEF TypedStays, isDirty, draftIsSelected, isZevFormDirty, Followed
<1>. QED  BY <1>6, <1>7


\* The answer to a save: the page that sent it remembers it, unless it already
\* remembers a later one, and its draft is clean when the save was of it.
LEMMA SuccessStep ==
    ASSUME DraftInv, NEW s \in saves, onSuccess(s)
    PROVE  DraftInv' /\ TypedStays
<1>0. PICK T, saved : T = saves \ {s} /\ saved = [at |-> s.at, form |-> s.form]
  OBVIOUS
<1> DEFINE isOlder == \E a \in accepted[s.page][s.id] : saved.at < a.at
<1>1. /\ saves' = T /\ T \subseteq saves /\ s.stage = "stored" /\ read' = Asked
      /\ list' = (IF isOlder THEN list ELSE [list EXCEPT ![s.id] = saved])
      /\ accepted' = (IF isOlder THEN accepted ELSE [accepted EXCEPT ![s.page][s.id] = {saved}])
      /\ draft' = rendered(IF isOlder \/ ~ofDraft(s) THEN draft
                           ELSE [draft EXCEPT !.form = s.form, !.baseline = s.form,
                                              !.error = FALSE, !.rejected = {}],
                           list', selected, accepted'[page])
      /\ UNCHANGED <<log, selected, page, open, asking>>
  BY <1>0 DEF onSuccess
<1> HIDE DEF isOlder
<1>2. Types /\ Backed /\ SavesInOrder /\ s \in Save
  BY DEF DraftInv, Types
<1>3. s.id \in Zevs /\ s.page \in 1..MaxPages /\ s.page <= page /\ page \in 1..MaxPages
  BY <1>2 DEF Save, SavesInOrder, Types
<1>4. IsStored(s.id, saved) /\ saved \in Version /\ s.form \in Accepted /\ s.form \in Forms
  <2>1. IsStored(s.id, saved)
    BY <1>0, <1>1, <1>2 DEF SavesInOrder
  <2>2. saved \in Version /\ saved.form = s.form
    BY <1>0, <1>2, <1>3, <2>1, LenType DEF IsStored
  <2>. QED  BY <2>1, <2>2, FormsAssumption DEF Version
<1>5. list' \in [Zevs -> Version] /\ \A z \in Zevs : IsStored(z, list'[z])
  <2>1. list \in [Zevs -> Version] /\ \A z \in Zevs : IsStored(z, list[z])
    BY <1>2 DEF Types, Backed
  <2>. QED  BY <1>1, <1>3, <1>4, <2>1
<1>6. /\ accepted' \in [1..MaxPages -> [Zevs -> SUBSET Version]]
      /\ \A p \in 1..MaxPages, z \in Zevs :
            \/ accepted'[p][z] = accepted[p][z]
            \/ p = s.page /\ z = s.id /\ accepted'[p][z] = {saved}
  <2>1. accepted \in [1..MaxPages -> [Zevs -> SUBSET Version]] /\ {saved} \in SUBSET Version
    BY <1>2, <1>4 DEF Types
  <2>2. CASE isOlder
    BY <1>1, <2>1, <2>2
  <2>3. CASE ~isOlder
    <3>1. accepted' = [accepted EXCEPT ![s.page][s.id] = {saved}]
      BY <1>1, <2>3
    <3>. QED  BY <1>3, <2>1, <3>1
  <2>. QED  BY <2>2, <2>3
<1>7. Types'
  BY <1>1, <1>2, <1>5, <1>6 DEF Types
<1>8. Backed'
  <2>1. read'.stage # "served"
    BY <1>1 DEF Asked
  <2>2. ASSUME NEW z \in Zevs, NEW p \in 1..MaxPages
        PROVE  /\ \A a \in accepted'[p][z] : IsStored(z, a)
               /\ \A a, b \in accepted'[p][z] : a = b
               /\ p > page => accepted'[p][z] = {}
    <3>1. CASE accepted'[p][z] = accepted[p][z]
      BY <1>2, <3>1 DEF Backed
    <3>2. CASE p = s.page /\ z = s.id /\ accepted'[p][z] = {saved}
      <4>1. ~(p > page)
        BY <1>3, <3>2
      <4>. QED  BY <1>4, <3>2, <4>1
    <3>. QED  BY <1>6, <3>1, <3>2
  <2>. QED  BY <1>1, <1>5, <2>1, <2>2 DEF Backed, IsStored
<1>9. CASE isOlder \/ ~ofDraft(s)
  <2>1. draft' = rendered(draft, list', selected, accepted'[page])
    BY <1>1, <1>9
  <2>2. /\ DraftInv'
        /\ open => Followed(draft', draft, selected, Target(accepted'[page][selected], list'[selected]))
    BY <1>1, <1>7, <1>8, <2>1, DraftFacts, AnswerRendered
  <2>3. TypedStays
    BY <2>2 DEF TypedStays, isDirty, draftIsSelected, isZevFormDirty, Followed
  <2>. QED  BY <2>2, <2>3
<1>10. CASE ~isOlder /\ ofDraft(s)
  <2>1. PICK d : d = [draft EXCEPT !.form = s.form, !.baseline = s.form,
                                   !.error = FALSE, !.rejected = {}]
    OBVIOUS
  <2>2. draft' = rendered(d, list', selected, accepted'[page])
    BY <1>1, <1>10, <2>1
  <2>3. open /\ s.page = page /\ s.id = selected
    BY <1>10 DEF ofDraft
  <2>4. /\ d \in Draft /\ d.zev = selected /\ d.epoch = draft.epoch /\ d.rejected = {}
        /\ d.form = s.form /\ d.baseline = s.form
    BY <1>4, <2>1, <2>3, DraftFacts DEF Draft
  <2>5. draft.form = s.form /\ \A t \in T : ~ofDraft(t)
    BY <1>0, <1>2, <1>10 DEF SavesInOrder
  <2>6. /\ DraftInv'
        /\ open => Followed(draft', d, selected, Target(accepted'[page][selected], list'[selected]))
    BY <1>1, <1>7, <1>8, <2>2, <2>3, <2>4, <2>5, AnswerRendered
  <2>7. accepted'[page][selected] = {saved} /\ list'[selected] = saved
    <3>1. list \in [Zevs -> Version] /\ accepted \in [1..MaxPages -> [Zevs -> SUBSET Version]]
      BY <1>2 DEF Types
    <3>2. /\ list' = [list EXCEPT ![s.id] = saved]
          /\ accepted' = [accepted EXCEPT ![s.page][s.id] = {saved}]
      BY <1>1, <1>10
    <3>. QED  BY <1>3, <2>3, <3>1, <3>2
  <2>8. Target({saved}, saved) = s.form
    BY <1>0 DEF Target, isStale, isZevFormDirty
  <2>9. draft'.form = s.form /\ draft'.epoch = draft.epoch
    BY <2>3, <2>4, <2>6, <2>7, <2>8 DEF Followed
  <2>. QED  BY <2>5, <2>6, <2>9 DEF TypedStays
<1>. QED  BY <1>9, <1>10

-----------------------------------------------------------------------------
(* The theorems *)

LEMMA DraftInit == Init => DraftInv
<1> SUFFICES ASSUME Init PROVE DraftInv
  OBVIOUS
<1>1. PICK f : f = (CHOOSE g \in Accepted : TRUE)
  OBVIOUS
<1>2. PICK v : v = [at |-> 1, form |-> f]
  OBVIOUS
<1>3. f \in Accepted /\ f \in Forms /\ v \in Version /\ v.at = 1 /\ v.form = f /\ v = first
  BY <1>1, <1>2, FormsAssumption, DraftBounds DEF Version, first
<1>4. selected \in Zevs
  BY ZevsAssumption DEF Init
<1>5. /\ log = [z \in Zevs |-> <<v>>] /\ list = [z \in Zevs |-> v] /\ read = Idle
      /\ draft = [zev |-> selected, epoch |-> 1, form |-> f, baseline |-> f,
                  error |-> FALSE, rejected |-> {}]
      /\ page = 1 /\ open = TRUE /\ saves = {} /\ asking = "no"
      /\ accepted = [p \in 1..MaxPages |-> [z \in Zevs |-> {}]]
  BY <1>3 DEF Init
<1>6. \A z \in Zevs : log[z] = <<v>> /\ list[z] = v
  BY <1>5
<1>7. <<v>> \in Seq(Version) /\ Len(<<v>>) = 1 /\ <<v>>[1] = v
  BY <1>3
<1>8. Types
  <2>1. 1 \in 1..MaxPages
    BY DraftBounds
  <2>2. log \in [Zevs -> Seq(Version)] /\ list \in [Zevs -> Version]
    BY <1>3, <1>5, <1>7
  <2>3. accepted \in [1..MaxPages -> [Zevs -> SUBSET Version]]
    BY <1>5
  <2>. QED  BY <1>4, <1>5, <2>1, <2>2, <2>3 DEF Types
<1>9. LogInOrder
  <2>1. \A i \in 1..1 : i = 1
    OBVIOUS
  <2>2. ASSUME NEW z \in Zevs
        PROVE  Len(log[z]) = 1 /\ log[z][1].at = 1
    BY <1>3, <1>6, <1>7
  <2>. QED  BY <2>1, <2>2 DEF LogInOrder
<1>10. Backed
  <2>1. read.stage # "served"
    BY <1>5 DEF Idle
  <2>2. \A z \in Zevs, p \in 1..MaxPages : accepted[p][z] = {}
    BY <1>5
  <2>3. \A z \in Zevs : IsStored(z, list[z])
    <3>1. 1 \in 1..1
      OBVIOUS
    <3>. QED  BY <1>3, <1>6, <1>7, <3>1 DEF IsStored
  <2>. QED  BY <2>1, <2>2, <2>3 DEF Backed
<1>11. SavesInOrder
  BY <1>5 DEF SavesInOrder
<1>12. DraftInOrder
  <2>1. draft \in Draft
    BY <1>3, <1>4, <1>5, DraftBounds DEF Draft
  <2>. QED  BY <1>5, <2>1 DEF DraftInOrder
<1>13. DialogInOrder
  BY <1>5, ZevsAssumption DEF DialogInOrder
<1>14. NothingIsReverted
  <2>1. accepted[page][selected] = {}
    BY <1>4, <1>5, DraftBounds
  <2>. QED  BY <2>1 DEF NothingIsReverted
<1>. QED  BY <1>8, <1>9, <1>10, <1>11, <1>12, <1>13, <1>14 DEF DraftInv

LEMMA DraftStep == DraftInv /\ [Next]_vars => DraftInv'
<1> SUFFICES ASSUME DraftInv, [Next]_vars PROVE DraftInv'
  OBVIOUS
<1>1. CASE UNCHANGED vars
  BY <1>1 DEF vars, DraftInv, Types, LogInOrder, Backed, SavesInOrder, DraftInOrder,
     DialogInOrder, NothingIsReverted, IsStored, ofDraft, draftIsSelected, isDirty, isZevFormDirty
<1>2. CASE theUser
  BY <1>2, EditStep, AttemptStep, MoveStep, ReturnStep DEF theUser
<1>3. CASE theApi \/ \E z \in Zevs, f \in Accepted : Elsewhere(z, f)
  BY <1>3, ApiStep DEF theApi
<1>4. CASE answers
  BY <1>4, SuccessStep, ErrorStep DEF answers
<1>5. CASE refetchOnFocus \/ fetchZevs \/ listArrives \/ readFails
  BY <1>5, ReadStep, ListStep
<1>. QED  BY <1>1, <1>2, <1>3, <1>4, <1>5 DEF Next

LEMMA DraftAlways == Spec => []DraftInv
  BY DraftInit, DraftStep, PTL DEF Spec

LEMMA DraftIsCurrent == DraftInv => CleanDraftIsCurrent
<1> SUFFICES ASSUME DraftInv PROVE CleanDraftIsCurrent
  OBVIOUS
<1>1. Types /\ DraftInOrder /\ NothingIsReverted
  BY DEF DraftInv
<1>2. MessagesAreCurrent
  BY <1>1 DEF MessagesAreCurrent, DraftInOrder
<1>3. read.stage \in {"idle", "asked", "served"}
  BY <1>1 DEF Types, Idle, Asked
<1>4. \A s \in saves : /\ s.id \in Zevs /\ s.form \in Valid
                       /\ s.stage \in {"sent", "stored", "failed"}
  BY <1>1 DEF Types, Save
<1>5. draft # noDraft => /\ draft.zev \in Zevs /\ draft.epoch \in 1..MaxEpochs
                         /\ draft.form \in Forms /\ draft.baseline \in Accepted
                         /\ draft.rejected \subseteq Forms
  BY <1>1 DEF DraftInOrder, Draft
<1>6. TypeOK
  BY <1>1, <1>3, <1>4, <1>5 DEF TypeOK, Types
<1>. QED  BY <1>1, <1>2, <1>6 DEF CleanDraftIsCurrent

(* A clean draft shows the version the page saw accepted or a later one, and *)
(* a message on a field is about its value (followList with isStale, isOlder *)
(* of onSuccess, clearError), whatever order lists, answers, switches of     *)
(* community and mounts of the page come in.                                 *)
THEOREM CleanDraftStaysCurrent == Spec => []CleanDraftIsCurrent
  BY DraftAlways, DraftIsCurrent, PTL

LEMMA TypedKept ==
    ASSUME DraftInv, Next, isDirty, behindTheUsersBack
    PROVE  draft'.form = draft.form /\ draft'.epoch = draft.epoch
<1>1. CASE theUser
  <2>1. open
    BY DEF isDirty, draftIsSelected
  <2>2. ASSUME NEW b \in BOOLEAN, answerDialog(b)
        PROVE  UNCHANGED <<log, list, read, saves>>
    <3>1. asking = "leave" \/ asking \in Zevs
      BY <2>2 DEF answerDialog, DraftInv, Types
    <3>2. CASE ~b
      BY <2>2, <3>2 DEF answerDialog
    <3>3. CASE b /\ asking = "leave"
      BY <2>2, <3>3, ZevsAssumption DEF answerDialog, goElsewhere
    <3>4. CASE b /\ asking \in Zevs
      BY <2>2, <3>4, ZevsAssumption DEF answerDialog, setSelectedZevId
    <3>. QED  BY <3>1, <3>2, <3>3, <3>4
  <2>3. ASSUME leave \/ \E z \in Zevs : requestSwitch(z)
        PROVE  UNCHANGED <<log, list, read, saves>>
    BY <2>3 DEF leave, requestSwitch, goElsewhere, setSelectedZevId
  <2>4. ~Return
    BY <2>1 DEF Return
  <2>5. ASSUME attemptSave
        PROVE  UNCHANGED <<log, list, read>> /\ saves \subseteq saves'
    BY <2>5 DEF attemptSave
  <2>6. ASSUME (\E f \in Forms : updateForm(f)) \/ discard
        PROVE  UNCHANGED <<log, list, read, saves>>
    BY <2>6 DEF updateForm, discard
  <2>7. UNCHANGED <<log, list, read>> /\ saves \subseteq saves'
    BY <1>1, <2>2, <2>3, <2>4, <2>5, <2>6 DEF theUser
  <2>. QED  BY <2>7 DEF behindTheUsersBack
<1>2. CASE theApi \/ \E z \in Zevs, f \in Accepted : Elsewhere(z, f)
  BY <1>2 DEF theApi, updateZev, Lose, Elsewhere
<1>3. CASE answers
  BY <1>3, SuccessStep, ErrorStep DEF answers, TypedStays
<1>4. CASE refetchOnFocus \/ fetchZevs \/ readFails
  BY <1>4 DEF refetchOnFocus, fetchZevs, readFails
<1>5. CASE listArrives
  BY <1>5, ListStep DEF TypedStays
<1>. QED  BY <1>1, <1>2, <1>3, <1>4, <1>5 DEF Next

(* What is typed and not saved stays: no read of the list, no answer to a    *)
(* save and no write of another manager changes a dirty draft                *)
(* (ZevSettingsPage.tsx, the draft effect, onSuccess and onError).           *)
THEOREM EditsStay == Spec => EditsAreKept
<1>1. DraftInv /\ [Next]_vars
      => [isDirty /\ behindTheUsersBack =>
             draft'.form = draft.form /\ draft'.epoch = draft.epoch]_vars
  BY TypedKept
<1>. QED  BY <1>1, DraftAlways, PTL DEF Spec, EditsAreKept
=============================================================================
