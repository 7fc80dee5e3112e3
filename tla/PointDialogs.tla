---------------------------- MODULE PointDialogs ----------------------------
(***************************************************************************)
(* The dialogs of the metering-points page: the form of a metering point,   *)
(* of an assignment and of a building, and the deletion of readings, which  *)
(* is confirmed once more (features/meteringPoints). A dialog may be closed, *)
(* typed in or opened for something else while its request is on its way or *)
(* waits for the network, and the community may change.                     *)
(*                                                                         *)
(* The page is mounted anew for every account, community and right to       *)
(* write. A life is one mount: the identity useWriteScope compares. Only    *)
(* one dialog is open at a time, since its scrim covers the page.           *)
(***************************************************************************)
EXTENDS Naturals, FiniteSets

CONSTANTS Places,     \* the communities
          Subjects,   \* what a row of the page can open a dialog for
          Typed,      \* what the user types into a form
          MaxLives,   \* bound: mounts of the page
          MaxGen,     \* bound: generations of the metering-point form
          MaxCalls    \* bound: requests on their way

VARIABLES scope,       \* what the mounted page is for, and its life
          dialog,      \* the open dialog and what it holds
          generation,  \* mpFormGeneration of this mount
          ask,         \* the question above the dialog, {} when there is none
          calls        \* requests waiting for the network or for their answer

dialogVars == <<scope, dialog, generation, ask, calls>>

none   == "none"
Forms  == {"point", "assignment", "building"}
Access == {"reads", "writes", "deletes"}                 \* an admin deletes readings too
Ranges == {"all", "undated", "ordered", "reversed"}      \* mode and dates of a deletion

closed == [kind |-> none, zev |-> none, editing |-> none, text |-> none, errors |-> {}]

\* what a dialog says: the errors of an answer are about one of these. Of an
\* assignment or a building no more is told apart than where it belongs.
content(d) ==
    IF d.kind \in {"point", "data"} THEN [zev |-> d.zev, editing |-> d.editing, text |-> d.text]
    ELSE [zev |-> d.zev, editing |-> none, text |-> none]

TypeOK ==
    /\ scope.zev \in Places /\ scope.access \in Access
    /\ scope.life \in 1..MaxLives /\ generation \in 0..MaxGen + 1
    /\ dialog.kind \in Forms \cup {none, "data"} /\ Cardinality(ask) <= 1
    /\ \A c \in calls : c.life <= scope.life /\ c.id \in 1..MaxCalls

-----------------------------------------------------------------------------
(* useWriteScope *)

isCurrent(life) == life = scope.life
canWrite == scope.access # "reads"
canDeleteData == scope.access = "deletes"

assertWritable(c) == isCurrent(c.life) /\ c.canWrite /\ c.zev # none

\* every render but that of a click's own event shows which requests are pending
seen(cs) == {[c EXCEPT !.seen = TRUE] : c \in cs}
isPending(kind) == \E c \in calls : c.kind = kind /\ isCurrent(c.life) /\ c.seen

-----------------------------------------------------------------------------
(* Opening, typing, closing. Everything that touches the form of a metering *)
(* point starts a new generation; the other forms have none.                *)

touched(kind)   == IF kind = "point" THEN generation + 1 ELSE generation
countable(kind) == kind = "point" => generation < MaxGen

idle == ask = {}

openForm(kind, editing) ==
    /\ idle /\ dialog.kind = none /\ canWrite /\ countable(kind)
    /\ dialog' = [kind |-> kind, zev |-> scope.zev, editing |-> editing,
                  text |-> IF editing = none THEN "blank" ELSE "loaded", errors |-> {}]
    /\ generation' = touched(kind)
    /\ calls' = seen(calls) /\ UNCHANGED <<scope, ask>>

openDeleteDataModal(point) ==
    /\ idle /\ dialog.kind = none /\ canWrite /\ canDeleteData
    /\ dialog' = [kind |-> "data", zev |-> scope.zev, editing |-> point,
                  text |-> "all", errors |-> {}]
    /\ calls' = seen(calls) /\ UNCHANGED <<scope, generation, ask>>

setForm(text) ==
    /\ idle /\ dialog.kind \in Forms /\ countable(dialog.kind) /\ text # dialog.text
    /\ dialog' = [dialog EXCEPT !.text = text, !.errors = {}]
    /\ generation' = touched(dialog.kind)
    /\ calls' = seen(calls) /\ UNCHANGED <<scope, ask>>

setDeleteData(range) ==
    /\ idle /\ dialog.kind = "data" /\ range # dialog.text
    /\ dialog' = [dialog EXCEPT !.text = range]
    /\ calls' = seen(calls) /\ UNCHANGED <<scope, generation, ask>>

\* by Cancel, Escape, the scrim or the cross, a draft after its own question
closeModal ==
    /\ idle /\ dialog.kind # none
    /\ dialog' = closed /\ generation' = touched(dialog.kind)
    /\ calls' = seen(calls) /\ UNCHANGED <<scope, ask>>

-----------------------------------------------------------------------------
(* Sending *)

free == {id \in 1..MaxCalls : \A c \in calls : c.id # id}

mutate(kind, sent) ==
    \E id \in free :
        /\ \A other \in free : id <= other
        /\ calls' = calls \cup
               {[id |-> id, kind |-> kind, life |-> scope.life, zev |-> scope.zev,
                 canWrite |-> canWrite, content |-> sent,
                 gen |-> IF kind = "point" THEN generation ELSE 0,
                 seen |-> FALSE, left |-> {}]}

\* an assignment without a participant, a metering point of no community, is refused here
submitted(d) ==
    CASE d.kind = "point"      -> d.zev # none /\ d.zev = scope.zev
      [] d.kind = "assignment" -> d.text # "blank"
      [] OTHER                 -> TRUE

submitForm ==
    /\ idle /\ dialog.kind \in Forms /\ canWrite /\ ~isPending(dialog.kind)
    /\ submitted(dialog)
    /\ mutate(dialog.kind, content(dialog))
    /\ UNCHANGED <<scope, dialog, generation, ask>>

\* what is asked about is what will be deleted, whatever the dialog says later
submitDeleteData ==
    /\ idle /\ dialog.kind = "data" /\ canWrite /\ canDeleteData /\ ~isPending("data")
    /\ dialog.text \in {"all", "ordered"}
    /\ ask' = {[content |-> content(dialog), call |-> 0]}
    /\ calls' = seen(calls) /\ UNCHANGED <<scope, dialog, generation>>

handleConfirm ==
    \E a \in ask :
        /\ a.call = 0 /\ mutate("data", a.content)
        /\ ask' = {[a EXCEPT !.call = c.id] : c \in calls' \ calls}
        /\ UNCHANGED <<scope, dialog, generation>>

\* also while the request is on its way, which goes on
handleCancel ==
    /\ ask # {} /\ ask' = {}
    /\ calls' = seen(calls) /\ UNCHANGED <<scope, dialog, generation>>

-----------------------------------------------------------------------------
(* The request and its answer *)

settles(c) == ask' = {a \in ask : a.call # c.id \/ ~isCurrent(c.life)}

\* mutationFn: at once, or when the browser is online again
dispatch(c) ==
    /\ c.left = {} /\ assertWritable(c)
    /\ calls' = (calls \ {c}) \cup
           {[c EXCEPT !.seen = TRUE, !.left = {[zev |-> scope.zev, canWrite |-> canWrite]}]}
    /\ UNCHANGED <<scope, dialog, generation, ask>>

refuse(c) ==
    /\ c.left = {} /\ ~assertWritable(c)
    /\ calls' = calls \ {c} /\ settles(c)
    /\ UNCHANGED <<scope, dialog, generation>>

\* mutant: an answer belongs to whatever form of its kind is open
ownsAnyForm(c) == isCurrent(c.life)

ownsForm(c) == isCurrent(c.life) /\ (c.kind = "point" => c.gen = generation)

onSuccess(c) ==
    /\ c.left # {} /\ calls' = seen(calls \ {c}) /\ settles(c)
    /\ dialog' = IF ownsForm(c) /\ dialog.kind = c.kind THEN closed ELSE dialog
    /\ generation' = IF ownsForm(c) /\ c.kind = "point" THEN generation + 1 ELSE generation
    /\ UNCHANGED scope

\* errors that name a field go below it, any other into a toast
onError(c, ofAField) ==
    /\ c.left # {} /\ calls' = seen(calls \ {c}) /\ settles(c)
    /\ dialog' = IF c.kind = "point" /\ ownsForm(c) /\ c.canWrite
                 THEN [dialog EXCEPT !.errors = IF ofAField THEN {c.content} ELSE {}]
                 ELSE dialog
    /\ UNCHANGED <<scope, generation>>

-----------------------------------------------------------------------------
mounted(life) ==
    [zev : Places, access : Access, life : {life}]

Init ==
    /\ scope \in mounted(1) /\ dialog = closed /\ generation = 0 /\ ask = {} /\ calls = {}

\* the page's key changes: every state of it starts over, requests go on
remount ==
    /\ scope.life < MaxLives
    /\ \E next \in mounted(scope.life + 1) :
           /\ [next EXCEPT !.life = scope.life] # scope
           /\ scope' = next
    /\ dialog' = closed /\ generation' = 0 /\ ask' = {} /\ UNCHANGED calls

\* the browser loads the app anew; an answer on its way no longer reaches it
reload ==
    /\ scope' = [scope EXCEPT !.life = 1] /\ dialog' = closed /\ generation' = 0 /\ ask' = {} /\ calls' = {}

Next ==
    \/ \E kind \in Forms, editing \in Subjects \cup {none} : openForm(kind, editing)
    \/ \E point \in Subjects : openDeleteDataModal(point)
    \/ \E text \in Typed : setForm(text)
    \/ \E range \in Ranges : setDeleteData(range)
    \/ closeModal \/ submitForm \/ submitDeleteData \/ handleConfirm \/ handleCancel
    \/ \E c \in calls : dispatch(c) \/ refuse(c) \/ onSuccess(c)
    \/ \E c \in calls, ofAField \in BOOLEAN : onError(c, ofAField)
    \/ remount \/ reload

Spec == Init /\ [][Next]_dialogVars

-----------------------------------------------------------------------------
(* The errors below the fields are about what the fields say: not about an  *)
(* earlier text, nor another metering point's form opened since (onError    *)
(* of saveMpMutation, setMpForm).                                           *)
ErrorsAreOfThisForm == dialog.errors \subseteq {content(dialog)}

(* What leaves belongs where it lands: a request leaves only while the      *)
(* community it was composed in is the one shown, with the right to write,  *)
(* though it may have waited for the network or a confirmation meanwhile    *)
(* (assertWritable in every mutationFn).                                    *)
LeftWhereComposed ==
    \A c \in calls : c.left \subseteq {[zev |-> c.content.zev, canWrite |-> TRUE]}

(* An answer spares another form: the form of a metering point is closed    *)
(* or changed by an answer only as long as it says what was sent; a form    *)
(* opened or edited since is left alone (mpFormGeneration: "A callback from *)
(* an older form must not reset a newly opened or edited one").             *)
SparesOtherForms ==
    \A c \in calls :
        LET answered == scope' = scope /\ ~reload /\ \A k \in calls' : k.id # c.id
        IN  answered /\ dialog.kind = "point" /\ dialog' # dialog => content(dialog) = c.content
=============================================================================
