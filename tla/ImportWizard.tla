---------------------------- MODULE ImportWizard ----------------------------
(***************************************************************************)
(* The metering import wizard (pages/ImportsPage.tsx): pick files, let the  *)
(* API detect the settings, load a preview of every file, upload. The three *)
(* requests answer late and the wizard can be edited, closed or moved to    *)
(* another community meanwhile.                                             *)
(*                                                                         *)
(* A preview is tied to the wizard by a stamp: the metadata of the files,   *)
(* not their contents, the settings and the community. Twins are files with *)
(* the same metadata. A request that was superseded by its counter          *)
(* (previewReqId, detectReqId, wizardGeneration) is one that is not live.   *)
(***************************************************************************)
EXTENDS Naturals, Sequences, SequencesExt, FiniteSets

CONSTANTS Zevs, Files, Twins, Configs,
          Overwriting,       \* settings that replace existing readings: asked about
          Wrong              \* settings csvConfigValid refuses

ASSUME WizardAssumption ==
    /\ IsFiniteSet(Files) /\ Twins \subseteq Files
    /\ Overwriting \subseteq Configs /\ Wrong \subseteq Configs
    /\ Configs \ (Overwriting \cup Wrong) # {}

VARIABLES zev,         \* the selected community
          wizard,      \* step, source, files and settings
          previews,    \* what each file's preview said, and what it was made of
          stamp,       \* {} or what the previews were loaded for
          detection,   \* what the notice above the settings says
          detectedFor, \* {} or the metadata of the selection it was read for
          detecting, previewing, asking, upload,  \* {} or the one on its way
          mixed,       \* history: files put back beside another selection's previews
          landed       \* history: files imported since they were picked

vars == <<zev, wizard, previews, stamp, detection, detectedFor, detecting, previewing, asking,
          upload, mixed, landed>>
shownVars  == <<previews, stamp, mixed>>
detectVars == <<detection, detectedFor, detecting>>

Selections == {s \in SeqOf(Files, Cardinality(Files)) : \A i, j \in DOMAIN s : i # j => s[i] # s[j]}
Preview == [file : Files, config : Configs, zev : Zevs, ok : BOOLEAN]

live(requests) == {r \in requests : r.live}

TypeOK ==
    /\ zev \in Zevs
    /\ wizard \in [step : 1..2, source : {"csv", "sdatch"}, files : Selections,
                   config : Configs]
    /\ previews \in Seq(Preview) /\ Cardinality(stamp) <= 1
    /\ detection \in {"idle", "loading", "done", "failed"} /\ mixed \in BOOLEAN
    /\ \A request \in live(detecting) \cup live(previewing) \cup live(upload) :
          request.files # <<>>

-----------------------------------------------------------------------------
(* What the page derives *)

metadata(file) == IF file \in Twins THEN "twin" ELSE file
stampFilesOf(files) == [i \in DOMAIN files |-> metadata(files[i])]
stampOf(files, config) ==
    IF files = <<>> THEN {}
    ELSE {[files |-> stampFilesOf(files), config |-> config, zev |-> zev,
           source |-> wizard.source]}

previewStampMatches == stamp # {} /\ stamp = stampOf(wizard.files, wizard.config)
hasPreviewErrors    == \E i \in DOMAIN previews : ~previews[i].ok
\* mutant: errors in the preview do not stop the import
canStartDespiteErrors ==
    wizard.files # <<>> /\ (wizard.source = "csv" => previews # <<>> /\ previewStampMatches)
canStartImport ==
    /\ wizard.files # <<>>
    /\ wizard.source = "csv" =>
          /\ previews # <<>> /\ previewStampMatches
          /\ wizard.config \notin Wrong /\ ~hasPreviewErrors

\* its answer changes nothing: only that it is still awaited matters
superseded(requests) == {[live |-> FALSE] : r \in requests}
start == CHOOSE c \in Configs : c \notin Overwriting \cup Wrong
fresh == [step |-> 1, source |-> "csv", files |-> <<>>, config |-> start]

\* a question covers the wizard; an upload on its way does not close it
atWork == asking = {}

-----------------------------------------------------------------------------
clearDetection ==
    detection' = "idle" /\ detectedFor' = {} /\ detecting' = superseded(detecting)
dropPreviews   == previews' = <<>> /\ stamp' = {} /\ mixed' = FALSE

resetWizard ==
    /\ wizard' = fresh /\ clearDetection /\ dropPreviews
    /\ previewing' = superseded(previewing)

close ==
    /\ atWork /\ wizard # fresh
    /\ resetWizard /\ upload' = superseded(upload)
    /\ UNCHANGED <<zev, asking, landed>>

\* another community, or another right to write: every dialog closes
changeScope ==
    /\ zev' \in Zevs \ {zev}
    /\ resetWizard /\ upload' = superseded(upload) /\ asking' = {}
    /\ UNCHANGED landed

-----------------------------------------------------------------------------
(* Step 1: the files *)

handleSourceChange(source) ==
    /\ atWork /\ wizard.step = 1 /\ source # wizard.source
    /\ wizard' = [wizard EXCEPT !.source = source, !.files = <<>>]
    /\ clearDetection /\ dropPreviews
    /\ UNCHANGED <<zev, previewing, asking, upload, landed>>

\* also a file taken off the selection: "the exact selection it was loaded for"
handleFileChange(files) ==
    /\ atWork /\ wizard.step = 1 /\ files # wizard.files
    /\ wizard' = [wizard EXCEPT !.files = files]
    /\ clearDetection /\ dropPreviews /\ previewing' = superseded(previewing)
    /\ landed' = landed \ ToSet(files)
    /\ UNCHANGED <<zev, asking, upload>>

handleRemoveFile(index) ==
    /\ atWork /\ wizard.step = 1 /\ index \in DOMAIN wizard.files
    /\ wizard' = [wizard EXCEPT !.files = RemoveAt(@, index)]
    /\ clearDetection /\ dropPreviews /\ previewing' = superseded(previewing)
    /\ UNCHANGED <<zev, asking, upload, landed>>

\* the first file is read once per selection; going back and forth asks no more
runDetection ==
    /\ detecting' = {[files |-> wizard.files, live |-> TRUE]} /\ detection' = "loading"
    /\ detectedFor' = {stampFilesOf(wizard.files)}

handleNextStep ==
    /\ atWork /\ wizard.step = 1 /\ wizard.files # <<>>
    /\ wizard' = [wizard EXCEPT !.step = 2]
    /\ IF wizard.source = "csv" /\ detectedFor # {stampFilesOf(wizard.files)} THEN runDetection
       ELSE UNCHANGED detectVars
    /\ UNCHANGED <<zev, shownVars, previewing, asking, upload, landed>>

-----------------------------------------------------------------------------
(* Step 2: settings, preview, upload *)

onBackToStep1 ==
    /\ atWork /\ wizard.step = 2
    /\ wizard' = [wizard EXCEPT !.step = 1]
    /\ UNCHANGED <<zev, shownVars, detectVars, previewing, asking, upload, landed>>

onRedetect ==
    /\ atWork /\ wizard.step = 2 /\ detection \in {"done", "failed"}
    /\ runDetection
    /\ UNCHANGED <<zev, wizard, shownVars, previewing, asking, upload, landed>>

\* a change of the row format drops the previews, any other leaves them outdated
changeSettings(config) ==
    /\ atWork /\ wizard.step = 2 /\ wizard.source = "csv" /\ config # wizard.config
    /\ wizard' = [wizard EXCEPT !.config = config]
    /\ dropPreviews \/ UNCHANGED shownVars
    /\ UNCHANGED <<zev, detectVars, previewing, asking, upload, landed>>

detectAnswers(config, status) ==
    /\ \E request \in detecting :
          IF ~request.live THEN UNCHANGED <<wizard, shownVars, detection>>
          ELSE /\ detection' = status
               /\ \/ /\ status = "done"
                     /\ wizard' = [wizard EXCEPT !.config = config] /\ dropPreviews
                  \/ UNCHANGED <<wizard, shownVars>>   \* nothing detected
    /\ detecting' = {}
    /\ UNCHANGED <<zev, detectedFor, previewing, asking, upload, landed>>

loadPreview ==
    /\ atWork /\ wizard.step = 2 /\ wizard.source = "csv" /\ wizard.files # <<>>
    /\ previewing = {} /\ detection # "loading" /\ wizard.config \notin Wrong
    /\ previewing' = {[files |-> wizard.files, config |-> wizard.config, zev |-> zev,
                       stamp |-> stampOf(wizard.files, wizard.config), mixed |-> FALSE,
                       live |-> TRUE]}
    /\ UNCHANGED <<zev, wizard, shownVars, detectVars, asking, upload, landed>>

\* one request per file; each may fail or name errors and missing meters
previewArrives ==
    /\ \E request \in previewing :
          \/ ~request.live /\ UNCHANGED shownVars
          \/ /\ request.live
             /\ \E verdicts \in [DOMAIN request.files -> BOOLEAN] :
                   previews' = [i \in DOMAIN request.files |->
                                  [file |-> request.files[i], config |-> request.config,
                                   zev |-> request.zev, ok |-> verdicts[i]]]
             /\ stamp' = request.stamp /\ mixed' = request.mixed
    /\ previewing' = {}
    /\ UNCHANGED <<zev, wizard, detectVars, asking, upload, landed>>

\* shown: the previews the user sees when he starts the import
Upload == [files |-> wizard.files, config |-> wizard.config, source |-> wizard.source,
           zev |-> zev, shown |-> previews, mixed |-> mixed, live |-> TRUE]

startImport ==
    /\ atWork /\ wizard.step = 2 /\ upload = {} /\ canStartImport
    /\ IF wizard.source = "csv" /\ wizard.config \in Overwriting
       THEN asking' = {Upload} /\ UNCHANGED upload
       ELSE upload' = {Upload} /\ UNCHANGED asking
    /\ UNCHANGED <<zev, wizard, shownVars, detectVars, previewing, landed>>

\* what is uploaded is what the question was about
doUpload(confirmed) ==
    /\ asking # {} /\ asking' = {}
    /\ upload' = IF confirmed THEN asking ELSE upload
    /\ UNCHANGED <<zev, wizard, shownVars, detectVars, previewing, landed>>

\* the entries of a list at the given positions, in their order
inOrder(positions) ==
    CHOOSE f \in [1..Cardinality(positions) -> positions] :
        \A i, j \in DOMAIN f : i < j => f[i] < f[j]
filter(list, positions) ==
    [k \in 1..Cardinality(positions) |-> list[inOrder(positions)[k]]]

\* only the files that failed stay, with their previews, to be tried again
keepFailed(request, failed) ==
    LET failedPositions == {i \in DOMAIN request.files : request.files[i] \in failed}
        failedFiles == filter(request.files, failedPositions)
    IN /\ wizard' = [wizard EXCEPT !.files = failedFiles]
       /\ previews' = filter(previews, failedPositions \cap DOMAIN previews)
       /\ stamp' = {[s EXCEPT !.files = stampFilesOf(failedFiles)] : s \in stamp}
       /\ mixed' = (mixed \/ request.mixed \/ previews # request.shown)
       /\ previewing' = (previewing \ live(previewing)) \cup
                        {[r EXCEPT !.mixed = r.files # failedFiles] : r \in live(previewing)}

handleUploadOutcomes(failed) ==
    /\ \E request \in upload :
          \/ /\ ~request.live /\ failed = {}
             /\ UNCHANGED <<wizard, shownVars, detectVars, previewing, landed>>
          \/ /\ request.live /\ failed \subseteq ToSet(request.files)
             /\ landed' = landed \cup (ToSet(request.files) \ failed)
             /\ CASE failed = {} -> resetWizard
                  [] failed = ToSet(request.files) ->
                        UNCHANGED <<wizard, shownVars, detectVars, previewing>>
                  [] OTHER -> /\ keepFailed(request, failed)
                              /\ UNCHANGED detectVars
    /\ upload' = {}
    /\ UNCHANGED <<zev, asking>>

-----------------------------------------------------------------------------
Init ==
    /\ zev \in Zevs /\ wizard = fresh /\ previews = <<>> /\ stamp = {}
    /\ detection = "idle" /\ detectedFor = {} /\ detecting = {}
    /\ previewing = {} /\ asking = {} /\ upload = {} /\ mixed = FALSE /\ landed = {}

Next ==
    \/ close \/ changeScope
    \/ \E s \in {"csv", "sdatch"} : handleSourceChange(s)
    \/ \E s \in Selections : handleFileChange(s)
    \/ \E i \in 1..Cardinality(Files) : handleRemoveFile(i)
    \/ handleNextStep \/ onBackToStep1 \/ onRedetect
    \/ \E c \in Configs : changeSettings(c)
    \/ \E c \in Configs \ (Overwriting \cup Wrong), s \in {"done", "failed"} : detectAnswers(c, s)
    \/ loadPreview \/ previewArrives \/ startImport
    \/ \E b \in BOOLEAN : doUpload(b)
    \/ \E failed \in SUBSET Files : handleUploadOutcomes(failed)

Spec == Init /\ [][Next]_vars

-----------------------------------------------------------------------------
(* A preview that counts as current was loaded for exactly this selection:  *)
(* these files and not others with the same metadata, these settings, this  *)
(* community (ImportsPage.tsx 146-165, handleFileChange, keepFailed). The   *)
(* exception is mixed: the files of an upload that failed in part are put   *)
(* back after another selection was previewed, or while it is, and take     *)
(* over its previews.                                                       *)
PreviewIsOfSelection ==
    previews # <<>> /\ previewStampMatches /\ ~mixed =>
        \A i \in DOMAIN previews :
            /\ i \in DOMAIN wizard.files /\ previews[i].file = wizard.files[i]
            /\ previews[i].config = wizard.config /\ previews[i].zev = zev

(* What is uploaded was previewed: every CSV file goes to the community and *)
(* with the settings an error-free preview of that file was shown for, also *)
(* on a retry of the files that failed, and whatever arrived while the user *)
(* was asked about overwriting or worked on while an upload was on its way, *)
(* mixed excepted.                                                          *)
UploadedWasPreviewed ==
    \A u \in live(upload) : u.source = "csv" /\ ~u.mixed =>
        u.shown = [i \in DOMAIN u.files |-> [file |-> u.files[i], config |-> u.config,
                                            zev |-> u.zev, ok |-> TRUE]]

(* A retry does not import a second time what went through: a file that     *)
(* landed is uploaded again only after the user picked it again.            *)
RetrySparesImported == \A u \in live(upload) : ToSet(u.files) \cap landed = {}
=============================================================================
