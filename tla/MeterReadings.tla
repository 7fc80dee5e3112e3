---------------------------- MODULE MeterReadings ----------------------------
(***************************************************************************)
(* The meter readings of one community: billable and held (quarantined)    *)
(* rows, and the import logs that own them.                                *)
(*                                                                         *)
(* Source: backend/metering/importers/csv_importer.py, sdatch_importer.py, *)
(* the import-log delete endpoint of backend/metering/views.py, the        *)
(* delete-readings endpoint of backend/zev/views.py and the command        *)
(* reanchor_readings.                                                      *)
(*                                                                         *)
(* Each writer decides and writes in one transaction under the advisory    *)
(* lock of the community (metering/locks.py), so each is one step.         *)
(*                                                                         *)
(* A slot is a meter with a direction, and an instant.  A file delivers a  *)
(* slot at most once: SDAT-CH files that do otherwise are rejected, and    *)
(* for a CSV file only the rows that parse are kept.                       *)
(***************************************************************************)
EXTENDS Integers, FiniteSets, Functions

CONSTANTS
    Points,         \* metering points, each with its direction
    LastTime,       \* instants are 0..LastTime
    Energies,       \* delivered quantities
    Creations,      \* Creation stamps of SDAT-CH deliveries, 1 or later
    Qualities,      \* what SDAT-CH observations are delivered as
    Reanchored,     \* the real instant of a legacy instant, None in the DST gap
    LegacyLogs,     \* CSV imports from before timestamp_timezone was recorded
    MaxLogs         \* bound on import logs ever written

None == -1
Times == 0..LastTime
Slots == Points \X Times

ASSUME ReadingsAssumption ==
    /\ LastTime \in Nat /\ MaxLogs \in Nat /\ LegacyLogs \in 0..MaxLogs
    /\ Energies \subseteq Nat
    /\ Creations \subseteq Nat \ {0}
    /\ Qualities \subseteq {"validated", "estimated", "provisional"}
    /\ Reanchored \in [Times -> Times \cup {None}]
    /\ \A t \in Times : Reanchored[t] < t

VARIABLES
    readings,       \* MeterReading rows, by slot
    held,           \* QuarantinedReading rows, by slot
    logs,           \* ImportLog rows, by batch
    next_batch      \* batch ids (UUIDs) not used yet start here

readingsVars == <<readings, held, logs, next_batch>>

-----------------------------------------------------------------------------
(* Rows *)

\* creation is source_creation, 0 when absent; quality stands for the business
\* reason and condition of the row.  first is a history field: the batch that
\* put a row into the slot, where batch is the last one that wrote it.
Reading == [energy : Nat, source : {"csv", "sdatch"}, creation : Nat,
            quality : {"none", "validated", "estimated", "provisional"},
            batch : 1..MaxLogs, first : 1..MaxLogs]

\* overwrote: rows_overwritten > 0.  held_overwrote: quarantine_overwritten > 0.
\* legacy: a CSV import from before timestamp_timezone was recorded.
ImportLog == [source : {"csv", "sdatch"}, overwrote : BOOLEAN,
              held_overwrote : BOOLEAN, legacy : BOOLEAN]

ReadingsTypeOK ==
    /\ readings \in [DOMAIN readings -> Reading] /\ DOMAIN readings \subseteq Slots
    /\ held \in [DOMAIN held -> Reading] /\ DOMAIN held \subseteq Slots
    /\ next_batch \in 1..(MaxLogs + 1)
    /\ logs \in [DOMAIN logs -> ImportLog] /\ DOMAIN logs \subseteq 1..(next_batch - 1)

\* Rows of the batches from before ADR 0026, if there are any.
ReadingsInit ==
    /\ \E old \in SUBSET (Points \X (1..LastTime)) :
       \E energy \in [old -> Energies], batch \in [old -> 1..LegacyLogs] :
          readings = [s \in old |->
              [energy |-> energy[s], source |-> "csv", creation |-> 0, quality |-> "none",
               batch |-> batch[s], first |-> batch[s]]]
    /\ held = <<>>
    /\ logs = [b \in 1..LegacyLogs |->
                  [source |-> "csv", overwrote |-> FALSE, held_overwrote |-> FALSE,
                   legacy |-> TRUE]]
    /\ next_batch = LegacyLogs + 1

\* Mutant: two imports share a batch id.
WriteLogUncounted(source, overwrote, held_overwrote) ==
    /\ next_batch <= MaxLogs
    /\ logs' = [b \in DOMAIN logs \cup {next_batch} |->
                   [source |-> source, overwrote |-> overwrote,
                    held_overwrote |-> held_overwrote, legacy |-> FALSE]]
    /\ UNCHANGED next_batch

\* A new log, as the last write of an import.
WriteLog(source, overwrote, held_overwrote) ==
    /\ next_batch <= MaxLogs
    /\ logs' = [b \in DOMAIN logs \cup {next_batch} |->
                   IF b = next_batch
                   THEN [source |-> source, overwrote |-> overwrote,
                         held_overwrote |-> held_overwrote, legacy |-> FALSE]
                   ELSE logs[b]]
    /\ next_batch' = next_batch + 1

\* A rejected or failed import: everything is rolled back, then a log of the
\* attempt is written.
import_rejected(source) ==
    /\ WriteLog(source, FALSE, FALSE)
    /\ UNCHANGED <<readings, held>>

-----------------------------------------------------------------------------
(* CSV and Excel: import_csv.  A file maps slots to quantities. *)

CsvCreated(file) == DOMAIN file \ DOMAIN readings

CsvOverwritten(file, overwrite_existing) ==
    IF overwrite_existing
    THEN {s \in DOMAIN file \cap DOMAIN readings : readings[s].energy # file[s]}
    ELSE {}

\* The slots flag_import_impacts is given.
CsvChanged(file, overwrite_existing) ==
    CsvCreated(file) \cup CsvOverwritten(file, overwrite_existing)

import_csv(file, overwrite_existing) ==
    LET written == CsvChanged(file, overwrite_existing)
    IN  /\ WriteLog("csv", CsvOverwritten(file, overwrite_existing) # {}, FALSE)
        /\ readings' = [s \in DOMAIN readings \cup written |->
              IF s \in written
              THEN [energy |-> file[s], source |-> "csv", creation |-> 0,
                    quality |-> "none", batch |-> next_batch,
                    first |-> IF s \in DOMAIN readings THEN readings[s].first
                              ELSE next_batch]
              ELSE readings[s]]
        /\ UNCHANGED held

-----------------------------------------------------------------------------
(* SDAT-CH: import_sdatch.  A delivery is a Creation stamp, whether it is a  *)
(* replacement, and one observation (energy, quality) for each of its slots. *)

\* Reason E88 and no condition, or the condition "estimated".
IsBillable(d, s) == d.obs[s].quality # "provisional"

\* CSV data is never overwritten by a delivery.
_is_protected_source(s) == s \in DOMAIN readings /\ readings[s].source # "sdatch"

\* Mutant: the newest file received wins, whatever its Creation.
AgainstByArrival(rows, s, d) ==
    IF s \notin DOMAIN rows THEN "new"
    ELSE IF d.is_replace THEN "replace" ELSE "original_existing"

\* The delivery against the row stored at slot s of one stream.
Against(rows, s, d) ==
    IF s \notin DOMAIN rows THEN "new"
    ELSE IF d.creation < rows[s].creation THEN "stale"
    ELSE IF d.creation = rows[s].creation
    THEN IF d.obs[s] = [energy |-> rows[s].energy, quality |-> rows[s].quality]
         THEN "duplicate" ELSE "conflict"
    ELSE IF d.is_replace THEN "replace" ELSE "original_existing"

\* Mutant: an informational observation is held beside newer billing data.
_decide_slot_held(s, d) ==
    IF _is_protected_source(s) THEN "source_conflict"
    ELSE IF IsBillable(d, s) THEN Against(readings, s, d)
    ELSE Against(held, s, d)

_decide_slot(s, d) ==
    IF _is_protected_source(s) THEN "source_conflict"
    ELSE IF IsBillable(d, s) THEN Against(readings, s, d)
    ELSE IF /\ s \notin DOMAIN held
            /\ s \in DOMAIN readings /\ readings[s].creation >= d.creation
    THEN "stale"
    ELSE Against(held, s, d)

Decided(d, billable, verdicts) ==
    {s \in DOMAIN d.obs : IsBillable(d, s) = billable /\ _decide_slot(s, d) \in verdicts}

Refused(d) ==
    \E s \in DOMAIN d.obs : _decide_slot(s, d) \in {"source_conflict", "conflict"}

\* Held rows dropped because the delivery made their slot billable.
Promoted(d) ==
    {s \in Decided(d, TRUE, {"new", "replace"}) :
        s \in DOMAIN held /\ held[s].creation <= d.creation}

\* The slots flag_import_impacts is given: provenance alone does not count.
SdatChanged(d) ==
    IF Refused(d) THEN {}
    ELSE Decided(d, TRUE, {"new"}) \cup
         {s \in Decided(d, TRUE, {"replace"}) : readings[s].energy # d.obs[s].energy}

\* One stream after the delivery wrote the slots of written.
Delivered(rows, written, d) ==
    [s \in DOMAIN rows \cup written |->
        IF s \in written
        THEN [energy |-> d.obs[s].energy, source |-> "sdatch", creation |-> d.creation,
              quality |-> d.obs[s].quality, batch |-> next_batch,
              first |-> IF s \in DOMAIN rows THEN rows[s].first ELSE next_batch]
        ELSE rows[s]]

\* Mutant: only replaced billable rows are counted.
apply_plan_uncounted(d) ==
    /\ readings' = Delivered(readings, Decided(d, TRUE, {"new", "replace"}), d)
    /\ held' = Restrict(Delivered(held, Decided(d, FALSE, {"new", "replace"}), d),
                        (DOMAIN held \cup Decided(d, FALSE, {"new", "replace"})) \ Promoted(d))
    /\ WriteLog("sdatch", Decided(d, TRUE, {"replace"}) # {}, FALSE)

_apply_plan(d) ==
    LET billable == Decided(d, TRUE, {"new", "replace"})
        holding == Decided(d, FALSE, {"new", "replace"})
    IN  /\ readings' = Delivered(readings, billable, d)
        /\ held' = Restrict(Delivered(held, holding, d),
                            (DOMAIN held \cup holding) \ Promoted(d))
        /\ WriteLog("sdatch", Decided(d, TRUE, {"replace"}) # {},
                    Decided(d, FALSE, {"replace"}) # {})

import_sdatch(d) ==
    /\ next_batch <= MaxLogs
    /\ \/ Refused(d) /\ import_rejected("sdatch")
       \/ ~Refused(d) /\ _apply_plan(d)

-----------------------------------------------------------------------------
(* Deletion *)

\* Whether protection_code refuses the deletion of log b.
protection_code(b) == logs[b].overwrote \/ logs[b].held_overwrote

SlotsOf(rows, batches) == {s \in DOMAIN rows : rows[s].batch \in batches}

\* One protected log refuses the whole selection.
_delete_import_logs(batches) ==
    /\ batches # {}
    /\ \A b \in batches : ~protection_code(b)
    /\ readings' = Restrict(readings, DOMAIN readings \ SlotsOf(readings, batches))
    /\ held' = Restrict(held, DOMAIN held \ SlotsOf(held, batches))
    /\ logs' = Restrict(logs, DOMAIN logs \ batches)
    /\ UNCHANGED next_batch

Window(rows, point, times) == {s \in DOMAIN rows : s[1] = point /\ s[2] \in times}

delete_readings(point, times) ==
    /\ readings' = Restrict(readings, DOMAIN readings \ Window(readings, point, times))
    /\ held' = Restrict(held, DOMAIN held \ Window(held, point, times))
    /\ UNCHANGED <<logs, next_batch>>

-----------------------------------------------------------------------------
(* The repair command for legacy CSV batches: reanchor_readings --apply *)

legacy_batches == {b \in DOMAIN logs : logs[b].source = "csv" /\ logs[b].legacy}

NewSlot(s) == <<s[1], Reanchored[s[2]]>>

Moves(batches) == {s \in SlotsOf(readings, batches) : Reanchored[s[2]] # None}

\* Mutant: a slot outside the selection may already be taken.
PlanAcceptedBlindly(batches) ==
    \A s \in SlotsOf(readings, batches) \ Moves(batches) : readings[s].energy = 0

\* SelectionPlan.refusal is None: only empty readings lie in the DST gap, and
\* no target is taken twice or by a reading outside the selection.
PlanAccepted(batches) ==
    /\ \A s \in SlotsOf(readings, batches) \ Moves(batches) : readings[s].energy = 0
    /\ \A s, t \in Moves(batches) : NewSlot(s) = NewSlot(t) => s = t
    /\ \A s \in Moves(batches) :
          NewSlot(s) \notin DOMAIN readings \ SlotsOf(readings, batches)

reanchor(batches) ==
    LET moved == Moves(batches)
        stay == DOMAIN readings \ SlotsOf(readings, batches)
        From(target) == CHOOSE s \in moved : NewSlot(s) = target
    IN  /\ batches # {} /\ batches \subseteq legacy_batches
        /\ PlanAccepted(batches)
        /\ readings' = [s \in stay \cup {NewSlot(m) : m \in moved} |->
                          IF s \in {NewSlot(m) : m \in moved} THEN readings[From(s)]
                          ELSE readings[s]]
        /\ logs' = [b \in DOMAIN logs |-> IF b \in batches
                                         THEN [logs[b] EXCEPT !.legacy = FALSE]
                                         ELSE logs[b]]
        /\ UNCHANGED <<held, next_batch>>

-----------------------------------------------------------------------------
\* Functions from some, not all, of the slots.
Files(values) == UNION {[slots -> values] : slots \in SUBSET Slots \ {{}}}

Deliveries ==
    [creation : Creations, is_replace : BOOLEAN,
     obs : Files([energy : Energies, quality : Qualities])]

ReadingsNext ==
    \/ \E source \in {"csv", "sdatch"} : import_rejected(source)
    \/ \E file \in Files(Energies), overwrite_existing \in BOOLEAN :
          import_csv(file, overwrite_existing)
    \/ \E d \in Deliveries : import_sdatch(d)
    \/ \E batches \in SUBSET DOMAIN logs : _delete_import_logs(batches)
    \/ \E point \in Points, from, to \in Times : delete_readings(point, from..to)
    \/ \E batches \in SUBSET DOMAIN logs : reanchor(batches)

ReadingsSpec == ReadingsInit /\ [][ReadingsNext]_readingsVars

-----------------------------------------------------------------------------
(* Properties *)

\* Held data is kept only while it is news: the held observation of a slot was
\* created after the SDAT-CH data billed there, in whatever order the files
\* arrive, are replayed, replaced or deleted.
HeldIsNewer ==
    \A s \in DOMAIN held \cap DOMAIN readings :
        readings[s].source = "sdatch" => held[s].creation > readings[s].creation

\* Billing data never goes back: while a slot stays filled a delivery replaces
\* it only by a later Creation, and never replaces CSV data.
RegressStep ==
    \A s \in DOMAIN readings \cap DOMAIN readings' :
        readings'[s].source = "sdatch" /\ readings'[s] # readings[s] =>
            readings[s].source = "sdatch" /\ readings'[s].creation > readings[s].creation
NeverRegresses == [][RegressStep]_readingsVars

\* Deleting imports only takes back what they added: a row, billable or held,
\* that its batch wrote over an earlier row belongs to a log that is kept.
DeletableImportsOnlyAdd ==
    \A rows \in {readings, held} : \A s \in DOMAIN rows :
        rows[s].batch # rows[s].first =>
            rows[s].batch \in DOMAIN logs /\ protection_code(rows[s].batch)

\* The repair loses nothing: rows outside the repaired batches stay as they
\* were, and every quantity inside them is found again at an earlier instant.
RepairStep ==
    LET repaired == {b \in DOMAIN logs \cap DOMAIN logs' : logs[b].legacy /\ ~logs'[b].legacy}
    IN  repaired # {} => \A s \in DOMAIN readings :
            IF readings[s].batch \in repaired
            THEN readings[s].energy # 0 =>
                     \E t \in DOMAIN readings' :
                         t[1] = s[1] /\ t[2] < s[2] /\ readings'[t] = readings[s]
            ELSE s \in DOMAIN readings' /\ readings'[s] = readings[s]
RepairLosesNothing == [][RepairStep]_readingsVars

=============================================================================
