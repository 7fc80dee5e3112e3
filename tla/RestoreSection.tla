--------------------------- MODULE RestoreSection ---------------------------
(***************************************************************************)
(* Restoring a community from a backup (features/backups): a backup and a   *)
(* community are chosen, a preview is asked for, which is a job of its own, *)
(* and what it shows is confirmed and restored. The list of backups is read *)
(* again meanwhile: a newer one may appear in it, the chosen one lose its   *)
(* file. A request is answered late, or after another choice. (A second     *)
(* click before the button is disabled is the server's to refuse.)          *)
(***************************************************************************)
EXTENDS Naturals, FiniteSets, FiniteSetsExt

CONSTANTS Backups,     \* numbers: the newer a backup, the larger
          Held         \* the communities in each backup, numbers in its manifest's order

VARIABLE restore
(* list      the backups loaded that can be restored from                   *)
(* pick      backupId and zevId: what was chosen, 0 for nothing yet          *)
(* force, typed   the switch, and the name typed to confirm                 *)
(* starting  {} or {the request that creates a job}                         *)
(* job       {} or {the job shown, with its plan}                           *)
(* safe      a safety backup can be taken: a destination, and encryption     *)
(* moved     history, of a request or a job: the choice has changed under it *)

Archived == UNION {Held[b] : b \in Backups}

Plans == [exists : BOOLEAN, hard : BOOLEAN, soft : BOOLEAN]

TypeOK ==
    /\ restore.list \subseteq Backups /\ restore.pick.backup \in Backups \cup {0}
    /\ restore.typed \in Archived \cup {0}
    /\ Cardinality(restore.starting) <= 1 /\ Cardinality(restore.job) <= 1

-----------------------------------------------------------------------------
(* What is chosen: the pick while it is there, otherwise the first offered *)

\* finished, with a file, and holding a community
restorableBackups(loaded) == {b \in loaded : Held[b] # {}}

backup(s) ==
    CASE s.pick.backup \in s.list -> s.pick.backup
      [] s.list = {} -> 0
      [] OTHER -> Max(s.list)

communitiesIn(s) == IF backup(s) = 0 THEN {} ELSE Held[backup(s)]

selectedZev(s) ==
    CASE s.pick.zev \in communitiesIn(s) -> s.pick.zev
      [] communitiesIn(s) = {} -> 0
      [] OTHER -> Min(communitiesIn(s))

chosen(s) == [backup |-> backup(s), zev |-> selectedZev(s)]

-----------------------------------------------------------------------------
(* What may be done *)

running(s) == \E j \in s.job : j.status = "running"
previewReady(j) == j.dry /\ j.status = "completed"

canPreview(s) == backup(s) # 0 /\ selectedZev(s) # 0 /\ s.starting = {} /\ ~running(s)

canStartRestore(plan, force) == ~plan.hard /\ (plan.soft => force)

confirmationName(j) == j.of.zev

canApply(s, j) ==
    /\ previewReady(j) /\ canStartRestore(j.plan, s.force)
    /\ s.typed = confirmationName(j)
    /\ j.plan.exists => s.safe
    /\ s.starting = {} /\ ~running(s)

-----------------------------------------------------------------------------
(* The user and the list *)

\* the choice has changed under what was asked for or is shown
flagged(set) == {[x EXCEPT !.moved = TRUE] : x \in set}

reset(pick) ==
    [restore EXCEPT !.pick = pick, !.force = FALSE, !.typed = 0, !.starting = flagged(@),
                    !.job = {}]

selectBackup(b) ==
    /\ b \in restore.list /\ b # backup(restore)
    /\ restore' = reset([backup |-> b, zev |-> 0])

selectZev(z) ==
    /\ z \in communitiesIn(restore) /\ z # selectedZev(restore)
    /\ restore' = reset([restore.pick EXCEPT !.zev = z])

refetchBackups(loaded) ==
    /\ restorableBackups(loaded) # restore.list
    /\ LET next == [restore EXCEPT !.list = restorableBackups(loaded)]
       IN restore' = IF chosen(next) = chosen(restore) THEN next
                     ELSE [next EXCEPT !.starting = flagged(@), !.job = flagged(@)]

confirming(s) == \E j \in s.job : previewReady(j) /\ ~j.plan.hard

setForce ==
    /\ confirming(restore) /\ \E j \in restore.job : j.plan.soft
    /\ restore' = [restore EXCEPT !.force = ~@]

setConfirmText(name) ==
    /\ confirming(restore) /\ name # restore.typed
    /\ restore' = [restore EXCEPT !.typed = name]

-----------------------------------------------------------------------------
(* The requests and the jobs *)

\* both requests name what is chosen at the click
start(dryRun, shown) ==
    restore' = [restore EXCEPT !.starting =
        {[dry |-> dryRun, of |-> chosen(restore), force |-> ~dryRun /\ restore.force,
          typed |-> restore.typed, shown |-> shown, moved |-> FALSE]}]

preview == canPreview(restore) /\ start(TRUE, {})
apply   == \E j \in restore.job : canApply(restore, j) /\ start(FALSE, {j})

\* whatever has been chosen since
startSucceeds ==
    \E s \in restore.starting :
        restore' = [restore EXCEPT !.starting = {},
            !.job = {[dry |-> s.dry, of |-> s.of, moved |-> s.moved, status |-> "running",
                      plan |-> [exists |-> FALSE, hard |-> FALSE, soft |-> FALSE]]}]

startFails == restore.starting # {} /\ restore' = [restore EXCEPT !.starting = {}]

jobEnds(status, plan) ==
    \E j \in restore.job :
        /\ j.status = "running"
        /\ restore' = [restore EXCEPT !.job = {[j EXCEPT !.status = status, !.plan = plan]}]

-----------------------------------------------------------------------------
opened(safe, loaded) ==
    [list |-> restorableBackups(loaded), pick |-> [backup |-> 0, zev |-> 0], force |-> FALSE,
     typed |-> 0, starting |-> {}, job |-> {}, safe |-> safe]

Init == \E safe \in BOOLEAN, loaded \in SUBSET Backups : restore = opened(safe, loaded)

\* the section is left and opened anew
reopen == restore' = opened(restore.safe, restore.list)

Next ==
    \/ \E b \in Backups : selectBackup(b)
    \/ \E z \in Archived : selectZev(z)
    \/ \E loaded \in SUBSET Backups : refetchBackups(loaded)
    \/ setForce
    \/ \E name \in Archived \cup {0} : setConfirmText(name)
    \/ preview \/ apply \/ startSucceeds \/ startFails
    \/ \E status \in {"completed", "failed"}, plan \in Plans : jobEnds(status, plan)
    \/ reopen

Spec == Init /\ [][Next]_restore

-----------------------------------------------------------------------------
(* What is restored is what was previewed: the backup and the community of  *)
(* a restore are those of the preview confirmed, whose name was typed, with *)
(* no hard conflict and the others forced. A preview under which the choice *)
(* has moved is no part of the claim, because there the page does not keep  *)
(* it: another choice made while the preview was asked for, or a backup     *)
(* that came or went in the list, leaves the preview of the former choice   *)
(* on screen, and its confirmation restores the present one                 *)
(* (BackupRestoreSection).                                                  *)
RestoresWhatWasShown ==
    \A s \in restore.starting : ~s.dry =>
        \E j \in s.shown :
            /\ ~j.moved => s.of = j.of
            /\ s.typed = j.of.zev /\ ~j.plan.hard /\ (j.plan.soft => s.force)
=============================================================================
