----------------------------- MODULE PageStates -----------------------------
(***************************************************************************)
(* The pages that keep a state of their own while requests are on their way: *)
(* the import wizard, the wizard that sets up a community, the metering      *)
(* charts, the dialogs of the metering points, and the section that restores *)
(* a community. The browser shows one page, and leaving it drops its state,  *)
(* so a behaviour is that of one of them.                                    *)
(***************************************************************************)
EXTENDS ImportWizard

CONSTANTS MeterIds, MaxRows, MaxKeys,      \* see CommunityWizard
          Communities, Meters, Home, Periods,  \* see MeterChart
          Places, Subjects, Typed, MaxLives, MaxGen, MaxCalls,  \* see PointDialogs
          Backups, Held   \* see RestoreSection

\* A wizard has room for a row and a key; the two values that stand for no
\* meter and for all of them are nobody's id.
ASSUME PagesAssumption ==
    /\ MaxRows \in Nat \ {0} /\ MaxKeys \in Nat \ {0}
    /\ MaxLives \in Nat \ {0} /\ MaxGen \in Nat /\ MaxCalls \in Nat
    /\ Home \in [Meters -> Communities]
    /\ {"none", "zev_total"} \cap Meters = {} /\ "none" \notin Communities \cup Places
    /\ Backups \subseteq Nat \ {0} /\ \A b \in Backups : Held[b] \subseteq Nat \ {0}

VARIABLES page,
          open, step, ownerMode, form, keys, seed, submitted, pending, rendered,
          view,
          scope, dialog, generation, ask, calls,
          restore

Create == INSTANCE CommunityWizard
Chart  == INSTANCE MeterChart
Points == INSTANCE PointDialogs
Section == INSTANCE RestoreSection

createVars == <<open, step, ownerMode, form, keys, seed, submitted, pending, rendered>>
pointVars  == <<scope, dialog, generation, ask, calls>>
pageVars   == <<vars, page, createVars, view, pointVars, restore>>

(* Every meter is at home in the first community; the other has none. *)
homeOf == [m \in Meters |-> "a"]

(* The older of two backups is of the whole instance, the newer of one community. *)
heldIn == [b \in Backups |-> IF b = 1 THEN {1, 2} ELSE {1}]

(* Files that look alike are interchangeable, and so are the meters of a     *)
(* community; no behaviour has both, so the instance uses the same two values. *)
Alike == Permutations(Files \cup Meters)

PageInit ==
    /\ page \in {"imports", "zevs", "metering", "points", "backups"}
    /\ IF page = "imports" THEN Init
       ELSE /\ zev = "off" /\ wizard = fresh /\ previews = <<>> /\ stamp = {}
            /\ detection = "idle" /\ detectedFor = {} /\ detecting = {}
            /\ previewing = {} /\ asking = {} /\ upload = {} /\ mixed = FALSE /\ landed = {}
    /\ Create!Init
    /\ IF page = "metering" THEN Chart!Init ELSE view = "off"
    /\ IF page = "points" THEN Points!Init
       ELSE scope = "off" /\ dialog = Points!closed /\ generation = 0 /\ ask = {} /\ calls = {}
    /\ IF page = "backups" THEN Section!Init ELSE restore = "off"

PageNext ==
    /\ UNCHANGED page
    /\ \/ page = "imports"  /\ Next /\ UNCHANGED <<createVars, view, pointVars, restore>>
       \/ page = "zevs"     /\ Create!Next /\ UNCHANGED <<vars, view, pointVars, restore>>
       \/ page = "metering" /\ Chart!Next /\ UNCHANGED <<vars, createVars, pointVars, restore>>
       \/ page = "points"   /\ Points!Next /\ UNCHANGED <<vars, createVars, view, restore>>
       \/ page = "backups"  /\ Section!Next /\ UNCHANGED <<vars, createVars, view, pointVars>>

PageSpec == PageInit /\ [][PageNext]_pageVars

-----------------------------------------------------------------------------
(* Each page's state is what its module says it is. *)
PageTypeOK ==
    CASE page = "imports" -> TypeOK
      [] page = "zevs" -> Create!TypeOK
      [] page = "metering" -> Chart!TypeOK
      [] page = "points" -> Points!TypeOK
      [] OTHER -> Section!TypeOK

(* What is imported or restored is what was shown: the preview belongs to    *)
(* the files, the settings and the community selected, every CSV file goes   *)
(* up as its error-free preview showed it, a retry spares what landed        *)
(* (ImportsPage), and a restore is the one previewed and confirmed, unless   *)
(* the choice moved after that preview was asked for: the page then sends    *)
(* the new choice (BackupRestoreSection; README, section 5).                 *)
AppliesWhatWasShown ==
    /\ PageTypeOK
    /\ PreviewIsOfSelection /\ UploadedWasPreviewed /\ RetrySparesImported
    /\ page = "backups" => Section!RestoresWhatWasShown

(* A community is asked for once and completely, from rows that keep their   *)
(* own keys, however the wizard is closed, opened and clicked (ZevListPage). *)
CommunityIsCreatedOnce == Create!SentIsComplete /\ Create!KeysFollowRows /\ Create!AskedForOnce

(* The metering page follows its address: a good link survives late lists    *)
(* and failures, something is always shown, only this community's meters are *)
(* asked for, and gaps are shown only to who asked (MeteringChartPage).      *)
ChartFollowsTheAddress ==
    page = "metering" =>
        /\ Chart!GoodLinkSurvives
        /\ Chart!NeverBlank
        /\ Chart!AsksForItsOwn
        /\ Chart!GapsWereAskedFor

(* A dialog of the metering points deals with its own request: the errors    *)
(* it shows are about what it says, a request leaves only where it was       *)
(* composed, and an answer leaves alone a metering point's form that was     *)
(* opened or edited since (useMeteringPointActions).                        *)
DialogsMindTheirOwn ==
    /\ [](Points!ErrorsAreOfThisForm /\ Points!LeftWhereComposed)
    /\ [][Points!SparesOtherForms]_pageVars
=============================================================================
