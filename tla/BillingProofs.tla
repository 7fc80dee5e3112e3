---------------------------- MODULE BillingProofs ----------------------------
(***************************************************************************)
(* Theorems about MeterReadings, for any meters, instants, files and       *)
(* Creation stamps, and about BillingInputs: the ledger and the readings   *)
(* together, for any community, files, periods and bounds.  Whatever       *)
(* changes a reading leaves an open impact on every invoice that was       *)
(* priced from it.                                                         *)
(***************************************************************************)
EXTENDS BillingInputs, InvoiceWorkflowProofs

-----------------------------------------------------------------------------
(* What the inputs look like *)

\* A file names slots and gives each a value.
LEMMA FileType ==
    ASSUME NEW values, NEW file \in Files(values)
    PROVE  /\ DOMAIN file \subseteq Slots
           /\ file \in [DOMAIN file -> values]
  BY DEF Files

\* A delivery carries a Creation and typed observations of slots.
LEMMA DeliveryType ==
    ASSUME NEW d \in Deliveries
    PROVE  /\ d.creation \in Nat
           /\ DOMAIN d.obs \subseteq Slots
           /\ \A s \in DOMAIN d.obs :
                 /\ d.obs[s].energy \in Nat
                 /\ d.obs[s].quality \in {"validated", "estimated", "provisional"}
  <1>1. /\ d.creation \in Creations
        /\ d.obs \in Files([energy : Energies, quality : Qualities])
    BY DEF Deliveries
  <1>2. /\ DOMAIN d.obs \subseteq Slots
        /\ d.obs \in [DOMAIN d.obs -> [energy : Energies, quality : Qualities]]
    BY <1>1, FileType
  <1> QED
    BY <1>1, <1>2, ReadingsAssumption DEF ReadingsAssumption

\* A billable observation that is written fills an empty slot or replaces an
\* older delivery's row.
LEMMA BillableVerdict ==
    ASSUME ReadingsTypeOK, NEW d \in Deliveries, NEW s \in Decided(d, TRUE, {"new", "replace"})
    PROVE  /\ s \in Slots /\ s \in DOMAIN d.obs
           /\ s \notin DOMAIN readings => _decide_slot(s, d) = "new"
           /\ s \in DOMAIN readings =>
                 /\ _decide_slot(s, d) = "replace"
                 /\ readings[s].source = "sdatch"
                 /\ readings[s].creation < d.creation
  <1>1. /\ s \in DOMAIN d.obs /\ IsBillable(d, s)
        /\ _decide_slot(s, d) \in {"new", "replace"}
    BY DEF Decided
  <1>2. ~_is_protected_source(s) /\ _decide_slot(s, d) = Against(readings, s, d)
    BY <1>1 DEF _decide_slot
  <1>3. d.creation \in Nat /\ DOMAIN d.obs \subseteq Slots
    BY DeliveryType
  <1>4. s \in DOMAIN readings => readings[s].creation \in Nat
    BY DEF ReadingsTypeOK, Reading
  <1> QED
    BY <1>1, <1>2, <1>3, <1>4 DEF Against, _is_protected_source

\* A held observation that is written is newer than what is held and billed.
LEMMA HeldVerdict ==
    ASSUME ReadingsTypeOK, HeldIsNewer, NEW d \in Deliveries,
           NEW s \in Decided(d, FALSE, {"new", "replace"})
    PROVE  /\ s \in Slots /\ s \in DOMAIN d.obs
           /\ s \in DOMAIN held => _decide_slot(s, d) = "replace"
           /\ s \in DOMAIN readings => readings[s].creation < d.creation
  <1>1. /\ s \in DOMAIN d.obs /\ ~IsBillable(d, s)
        /\ _decide_slot(s, d) \in {"new", "replace"}
    BY DEF Decided, IsBillable
  <1>2. d.creation \in Nat /\ DOMAIN d.obs \subseteq Slots
    BY DeliveryType
  <1>3. /\ s \in DOMAIN readings => readings[s].creation \in Nat
        /\ s \in DOMAIN held => held[s].creation \in Nat
    BY DEF ReadingsTypeOK, Reading
  <1>4. ~_is_protected_source(s) /\ _decide_slot(s, d) = Against(held, s, d)
    BY <1>1 DEF _decide_slot
  <1>5. s \in DOMAIN held => _decide_slot(s, d) = "replace" /\ held[s].creation < d.creation
    BY <1>1, <1>2, <1>3, <1>4 DEF Against
  <1>6. ASSUME s \in DOMAIN readings
        PROVE  readings[s].creation < d.creation
    <2>1. readings[s].source = "sdatch"
      BY <1>4, <1>6 DEF _is_protected_source
    <2>2. CASE s \in DOMAIN held
      BY <1>2, <1>3, <1>5, <1>6, <2>1, <2>2 DEF HeldIsNewer
    <2>3. CASE s \notin DOMAIN held
      BY <1>1, <1>2, <1>3, <1>6, <2>3 DEF _decide_slot
    <2> QED
      BY <2>2, <2>3
  <1> QED
    BY <1>1, <1>2, <1>5, <1>6

-----------------------------------------------------------------------------
(* The inductive invariant *)

\* Batches of billable rows are used ones, and a row has its log's source:
\* what tells the repair command's CSV rows from SDAT-CH rows.
RowsOwned ==
    \A s \in DOMAIN readings :
        /\ readings[s].batch < next_batch
        /\ readings[s].batch \in DOMAIN logs => readings[s].source = logs[readings[s].batch].source

\* A new log keeps the others, and takes a batch id nobody used.
LEMMA LogWritten ==
    ASSUME ReadingsTypeOK, NEW source \in {"csv", "sdatch"}, NEW over \in BOOLEAN,
           NEW hover \in BOOLEAN, WriteLog(source, over, hover)
    PROVE  /\ next_batch \in 1..MaxLogs
           /\ next_batch \notin DOMAIN logs
           /\ next_batch' = next_batch + 1
           /\ DOMAIN logs' = DOMAIN logs \cup {next_batch}
           /\ logs' \in [DOMAIN logs' -> ImportLog] /\ DOMAIN logs' \subseteq 1..(next_batch' - 1)
           /\ next_batch' \in 1..(MaxLogs + 1)
           /\ logs'[next_batch].source = source
           /\ logs'[next_batch].overwrote = over /\ logs'[next_batch].held_overwrote = hover
           /\ \A b \in DOMAIN logs : logs'[b] = logs[b]
  <1>1. /\ next_batch \in 1..(MaxLogs + 1) /\ next_batch <= MaxLogs /\ MaxLogs \in Nat
        /\ DOMAIN logs \subseteq 1..(next_batch - 1)
    BY ReadingsAssumption DEF ReadingsTypeOK, WriteLog, ReadingsAssumption
  <1>2. next_batch \in 1..MaxLogs /\ next_batch \notin DOMAIN logs
    BY <1>1
  <1>3. next_batch' = next_batch + 1 /\ next_batch' \in 1..(MaxLogs + 1)
    BY <1>1 DEF WriteLog
  <1>4. DOMAIN logs' = DOMAIN logs \cup {next_batch}
    BY DEF WriteLog
  <1>5. DOMAIN logs' \subseteq 1..(next_batch' - 1)
    BY <1>1, <1>3, <1>4
  <1>6. logs'[next_batch] = [source |-> source, overwrote |-> over,
                             held_overwrote |-> hover, legacy |-> FALSE]
    BY DEF WriteLog
  <1>7. \A b \in DOMAIN logs : logs'[b] = logs[b]
    BY <1>2 DEF WriteLog
  <1>8. \A b \in DOMAIN logs' : logs'[b] \in ImportLog
    <2>1. [source |-> source, overwrote |-> over, held_overwrote |-> hover,
           legacy |-> FALSE] \in ImportLog
      BY Zenon DEF ImportLog
    <2>2. \A b \in DOMAIN logs : logs[b] \in ImportLog
      BY DEF ReadingsTypeOK
    <2> QED
      BY <1>4, <1>6, <1>7, <2>1, <2>2
  <1>9. logs' \in [DOMAIN logs' -> ImportLog]
    BY <1>8 DEF WriteLog
  <1>10. logs'[next_batch].source = source
    BY <1>6
  <1>11. logs'[next_batch].overwrote = over /\ logs'[next_batch].held_overwrote = hover
    BY <1>6
  <1> QED
    BY <1>2, <1>3, <1>4, <1>5, <1>7, <1>9, <1>10, <1>11

\* A stream after a delivery is typed.
LEMMA DeliveredType ==
    ASSUME ReadingsTypeOK, NEW d \in Deliveries, next_batch \in 1..MaxLogs,
           NEW rows, rows \in [DOMAIN rows -> Reading], DOMAIN rows \subseteq Slots,
           NEW written \in SUBSET DOMAIN d.obs
    PROVE  /\ DOMAIN Delivered(rows, written, d) = DOMAIN rows \cup written
           /\ DOMAIN rows \cup written \subseteq Slots
           /\ \A s \in DOMAIN rows \cup written : Delivered(rows, written, d)[s] \in Reading
  <1>1. DOMAIN Delivered(rows, written, d) = DOMAIN rows \cup written
    BY DEF Delivered
  <1>2. DOMAIN rows \cup written \subseteq Slots
    BY DeliveryType
  <1>3. ASSUME NEW s \in DOMAIN rows \cup written
        PROVE  Delivered(rows, written, d)[s] \in Reading
    <2>1. CASE s \in written
      <3>1. /\ d.creation \in Nat /\ d.obs[s].energy \in Nat
            /\ d.obs[s].quality \in {"validated", "estimated", "provisional"}
        BY DeliveryType, <2>1
      <3>2. (IF s \in DOMAIN rows THEN rows[s].first ELSE next_batch) \in 1..MaxLogs
        BY DEF Reading
      <3> QED
        BY <2>1, <3>1, <3>2 DEF Delivered, Reading
    <2>2. CASE s \notin written
      BY <1>3, <2>2 DEF Delivered
    <2> QED
      BY <2>1, <2>2
  <1> QED
    BY <1>1, <1>2, <1>3

-----------------------------------------------------------------------------
(* Each operation preserves the types *)

LEMMA RejectedType ==
    ASSUME ReadingsTypeOK, NEW source \in {"csv", "sdatch"}, import_rejected(source)
    PROVE  ReadingsTypeOK'
  BY LogWritten DEF import_rejected, ReadingsTypeOK

LEMMA CsvType ==
    ASSUME ReadingsTypeOK, NEW file \in Files(Energies), NEW over \in BOOLEAN,
           import_csv(file, over)
    PROVE  ReadingsTypeOK'
  <1> DEFINE written == CsvChanged(file, over)
  <1>1. WriteLog("csv", CsvOverwritten(file, over) # {}, FALSE)
    BY DEF import_csv
  <1>2. /\ next_batch \in 1..MaxLogs /\ next_batch' \in 1..(MaxLogs + 1)
        /\ logs' \in [DOMAIN logs' -> ImportLog] /\ DOMAIN logs' \subseteq 1..(next_batch' - 1)
    BY <1>1, LogWritten
  <1>3. written \subseteq DOMAIN file /\ DOMAIN file \subseteq Slots
    BY FileType DEF CsvChanged, CsvCreated, CsvOverwritten
  <1>4. DOMAIN readings' = DOMAIN readings \cup written
    BY DEF import_csv
  <1>5. ASSUME NEW s \in DOMAIN readings \cup written
        PROVE  readings'[s] \in Reading
    <2>1. CASE s \in written
      <3>1. file[s] \in Nat
        BY <1>3, <2>1, FileType, ReadingsAssumption DEF ReadingsAssumption
      <3>2. (IF s \in DOMAIN readings THEN readings[s].first ELSE next_batch) \in 1..MaxLogs
        BY <1>2 DEF ReadingsTypeOK, Reading
      <3>3. readings'[s] = [energy |-> file[s], source |-> "csv", creation |-> 0,
                            quality |-> "none", batch |-> next_batch,
                            first |-> IF s \in DOMAIN readings THEN readings[s].first
                                      ELSE next_batch]
        BY <2>1 DEF import_csv
      <3> QED
        BY <1>2, <3>1, <3>2, <3>3 DEF Reading
    <2>2. CASE s \notin written
      BY <1>5, <2>2 DEF import_csv, ReadingsTypeOK
    <2> QED
      BY <2>1, <2>2
  <1>6. readings' \in [DOMAIN readings' -> Reading]
    BY <1>4, <1>5 DEF import_csv
  <1>7. DOMAIN readings' \subseteq Slots
    BY <1>3, <1>4 DEF ReadingsTypeOK
  <1>8. held' = held
    BY DEF import_csv
  <1> QED
    BY <1>2, <1>6, <1>7, <1>8 DEF ReadingsTypeOK

LEMMA PlanType ==
    ASSUME ReadingsTypeOK, NEW d \in Deliveries, _apply_plan(d)
    PROVE  ReadingsTypeOK'
  <1> DEFINE billable == Decided(d, TRUE, {"new", "replace"})
             holding == Decided(d, FALSE, {"new", "replace"})
             kept == (DOMAIN held \cup holding) \ Promoted(d)
             over == Decided(d, TRUE, {"replace"}) # {}
             hover == Decided(d, FALSE, {"replace"}) # {}
  <1>1. WriteLog("sdatch", over, hover)
    BY DEF _apply_plan
  <1>2. /\ next_batch \in 1..MaxLogs /\ next_batch' \in 1..(MaxLogs + 1)
        /\ logs' \in [DOMAIN logs' -> ImportLog] /\ DOMAIN logs' \subseteq 1..(next_batch' - 1)
    <2> over \in BOOLEAN /\ hover \in BOOLEAN
      OBVIOUS
    <2> HIDE DEF over, hover
    <2> QED
      BY <1>1, LogWritten
  <1>3. billable \in SUBSET DOMAIN d.obs /\ holding \in SUBSET DOMAIN d.obs
    BY DEF Decided
  <1>4. readings' = Delivered(readings, billable, d)
    BY DEF _apply_plan
  <1>5. held' = Restrict(Delivered(held, holding, d), kept)
    BY DEF _apply_plan
  <1> HIDE DEF billable, holding, over, hover
  <1>6. /\ readings' \in [DOMAIN readings' -> Reading]
        /\ DOMAIN readings' \subseteq Slots
    <2>1. /\ DOMAIN Delivered(readings, billable, d) = DOMAIN readings \cup billable
          /\ DOMAIN readings \cup billable \subseteq Slots
          /\ \A s \in DOMAIN readings \cup billable :
                Delivered(readings, billable, d)[s] \in Reading
      BY <1>2, <1>3, DeliveredType DEF ReadingsTypeOK
    <2> QED
      BY <1>4, <2>1 DEF Delivered
  <1>7. /\ held' \in [DOMAIN held' -> Reading]
        /\ DOMAIN held' \subseteq Slots
    <2>1. /\ DOMAIN Delivered(held, holding, d) = DOMAIN held \cup holding
          /\ DOMAIN held \cup holding \subseteq Slots
          /\ \A s \in DOMAIN held \cup holding : Delivered(held, holding, d)[s] \in Reading
      BY <1>2, <1>3, DeliveredType DEF ReadingsTypeOK
    <2>2. kept \subseteq DOMAIN held \cup holding
      OBVIOUS
    <2> QED
      BY <1>5, <2>1, <2>2 DEF Restrict
  <1> QED
    BY <1>2, <1>6, <1>7 DEF ReadingsTypeOK

LEMMA DeleteLogsType ==
    ASSUME ReadingsTypeOK, NEW batches \in SUBSET DOMAIN logs, _delete_import_logs(batches)
    PROVE  ReadingsTypeOK'
  BY DEF ReadingsTypeOK, _delete_import_logs, Restrict

LEMMA DeleteReadingsType ==
    ASSUME ReadingsTypeOK, NEW point, NEW times, delete_readings(point, times)
    PROVE  ReadingsTypeOK'
  BY DEF ReadingsTypeOK, delete_readings, Restrict

\* Where a repaired row goes, and what it carries.
LEMMA RepairMoves ==
    ASSUME ReadingsTypeOK, NEW batches \in SUBSET DOMAIN logs, reanchor(batches),
           NEW s \in DOMAIN readings'
    PROVE  /\ s \in Slots
           /\ \/ /\ s \in DOMAIN readings /\ readings[s].batch \notin batches
                 /\ readings'[s] = readings[s]
              \/ \E m \in DOMAIN readings :
                    readings[m].batch \in batches /\ readings'[s] = readings[m]
  <1> DEFINE moved == Moves(batches)
             stay == DOMAIN readings \ SlotsOf(readings, batches)
             targets == {NewSlot(m) : m \in moved}
             From(target) == CHOOSE m \in moved : NewSlot(m) = target
  <1>1. readings' = [r \in stay \cup targets |->
                       IF r \in targets THEN readings[From(r)] ELSE readings[r]]
    BY DEF reanchor
  <1>2. CASE s \in targets
    <2>1. PICK m \in moved : NewSlot(m) = s
      BY <1>2
    <2>2. From(s) \in moved
      BY <2>1
    <2>3. readings'[s] = readings[From(s)]
      BY <1>1, <1>2
    <2>4. From(s) \in DOMAIN readings /\ readings[From(s)].batch \in batches
      BY <2>2 DEF Moves, SlotsOf
    <2>5. m \in Slots /\ Reanchored[m[2]] # None
      BY DEF Moves, SlotsOf, ReadingsTypeOK
    <2>6. s \in Slots
      BY <2>1, <2>5, ReadingsAssumption DEF ReadingsAssumption, NewSlot, Slots
    <2> HIDE DEF From
    <2> QED
      BY <2>3, <2>4, <2>6
  <1>3. CASE s \notin targets
    <2>1. s \in stay /\ readings'[s] = readings[s]
      BY <1>1, <1>3
    <2> QED
      BY <2>1 DEF SlotsOf, ReadingsTypeOK
  <1> QED
    BY <1>2, <1>3

LEMMA RepairLogs ==
    ASSUME ReadingsTypeOK, NEW batches \in SUBSET DOMAIN logs, reanchor(batches)
    PROVE  /\ DOMAIN logs' = DOMAIN logs
           /\ logs' \in [DOMAIN logs -> ImportLog]
           /\ \A b \in DOMAIN logs :
                 /\ logs'[b].source = logs[b].source
                 /\ logs'[b].overwrote = logs[b].overwrote
                 /\ logs'[b].held_overwrote = logs[b].held_overwrote
           /\ \A b \in batches : logs[b].source = "csv"
           /\ held' = held /\ next_batch' = next_batch
  <1>1. logs' = [b \in DOMAIN logs |-> IF b \in batches
                                       THEN [logs[b] EXCEPT !.legacy = FALSE] ELSE logs[b]]
    BY DEF reanchor
  <1>2. \A b \in DOMAIN logs : logs[b] \in ImportLog
    BY DEF ReadingsTypeOK
  <1>3. ASSUME NEW b \in DOMAIN logs
        PROVE  /\ logs'[b] \in ImportLog
               /\ logs'[b].source = logs[b].source
               /\ logs'[b].overwrote = logs[b].overwrote
               /\ logs'[b].held_overwrote = logs[b].held_overwrote
    <2>1. CASE b \in batches
      <3>1. logs'[b] = [logs[b] EXCEPT !.legacy = FALSE]
        BY <1>1, <2>1
      <3> QED
        BY <1>2, <3>1 DEF ImportLog
    <2>2. CASE b \notin batches
      BY <1>1, <1>2, <2>2
    <2> QED
      BY <2>1, <2>2
  <1> QED
    BY <1>1, <1>3 DEF reanchor, legacy_batches

LEMMA RepairType ==
    ASSUME ReadingsTypeOK, NEW batches \in SUBSET DOMAIN logs, reanchor(batches)
    PROVE  ReadingsTypeOK'
  <1>1. \A s \in DOMAIN readings' : s \in Slots /\ readings'[s] \in Reading
    BY RepairMoves DEF ReadingsTypeOK
  <1>2. readings' \in [DOMAIN readings' -> Reading]
    BY <1>1 DEF reanchor
  <1>3. DOMAIN readings' \subseteq Slots
    BY <1>1
  <1> QED
    BY <1>2, <1>3, RepairLogs DEF ReadingsTypeOK

LEMMA ReadingsTypeInit ==
    ReadingsInit => ReadingsTypeOK
  <1> SUFFICES ASSUME ReadingsInit PROVE ReadingsTypeOK
    OBVIOUS
  <1>1. PICK old \in SUBSET (Points \X (1..LastTime)) :
        \E energy \in [old -> Energies], batch \in [old -> 1..LegacyLogs] :
          readings = [s \in old |->
              [energy |-> energy[s], source |-> "csv", creation |-> 0, quality |-> "none",
               batch |-> batch[s], first |-> batch[s]]]
    BY DEF ReadingsInit
  <1>2. PICK energy \in [old -> Energies], batch \in [old -> 1..LegacyLogs] :
          readings = [s \in old |->
              [energy |-> energy[s], source |-> "csv", creation |-> 0, quality |-> "none",
               batch |-> batch[s], first |-> batch[s]]]
    BY <1>1
  <1>3. /\ LastTime \in Nat /\ MaxLogs \in Nat /\ LegacyLogs \in 0..MaxLogs
        /\ Energies \subseteq Nat
    BY ReadingsAssumption DEF ReadingsAssumption
  <1>4. old \subseteq Slots
    BY <1>3 DEF Slots, Times
  <1>5. ASSUME NEW s \in old
        PROVE  readings[s] \in Reading
    <2>0. energy[s] \in Energies /\ batch[s] \in 1..LegacyLogs
      BY <1>2
    <2>1. energy[s] \in Nat /\ batch[s] \in 1..MaxLogs
      <3>1. \A b \in 1..LegacyLogs : b \in 1..MaxLogs
        BY <1>3
      <3> QED
        BY <1>3, <2>0, <3>1, Zenon
    <2>2. readings[s] = [energy |-> energy[s], source |-> "csv", creation |-> 0,
                         quality |-> "none", batch |-> batch[s], first |-> batch[s]]
      BY <1>2
    <2> QED
      BY <2>1, <2>2 DEF Reading
  <1>6. readings \in [DOMAIN readings -> Reading] /\ DOMAIN readings \subseteq Slots
    BY <1>2, <1>4, <1>5
  <1>7. held \in [DOMAIN held -> Reading] /\ DOMAIN held \subseteq Slots
    BY DEF ReadingsInit
  <1>8. next_batch \in 1..(MaxLogs + 1) /\ DOMAIN logs \subseteq 1..(next_batch - 1)
    BY <1>3 DEF ReadingsInit
  <1>9. logs \in [DOMAIN logs -> ImportLog]
    BY DEF ReadingsInit, ImportLog
  <1> QED
    BY <1>6, <1>7, <1>8, <1>9 DEF ReadingsTypeOK

LEMMA ReadingsTypeStep ==
    ReadingsTypeOK /\ [ReadingsNext]_readingsVars => ReadingsTypeOK'
  <1> SUFFICES ASSUME ReadingsTypeOK, [ReadingsNext]_readingsVars PROVE ReadingsTypeOK'
    OBVIOUS
  <1>1. CASE \E source \in {"csv", "sdatch"} : import_rejected(source)
    BY <1>1, RejectedType
  <1>2. CASE \E file \in Files(Energies), over \in BOOLEAN : import_csv(file, over)
    BY <1>2, CsvType
  <1>3. CASE \E d \in Deliveries : import_sdatch(d)
    BY <1>3, PlanType, RejectedType DEF import_sdatch
  <1>4. CASE \E batches \in SUBSET DOMAIN logs : _delete_import_logs(batches)
    BY <1>4, DeleteLogsType
  <1>5. CASE \E point \in Points, from, to \in Times : delete_readings(point, from..to)
    BY <1>5, DeleteReadingsType
  <1>6. CASE \E batches \in SUBSET DOMAIN logs : reanchor(batches)
    BY <1>6, RepairType
  <1>7. CASE UNCHANGED readingsVars
    BY <1>7 DEF readingsVars, ReadingsTypeOK
  <1> QED
    BY <1>1, <1>2, <1>3, <1>4, <1>5, <1>6, <1>7 DEF ReadingsNext

\* The types of all rows, logs and batch ids hold in every state: whatever an
\* import, a deletion or a repair does to them.
THEOREM ReadingsTypeCorrect == ReadingsSpec => []ReadingsTypeOK
  BY ReadingsTypeInit, ReadingsTypeStep, PTL DEF ReadingsSpec

-----------------------------------------------------------------------------
(* What an applied delivery does to a slot *)

LEMMA PlanBillable ==
    ASSUME ReadingsTypeOK, NEW d \in Deliveries, _apply_plan(d), NEW s \in DOMAIN readings'
    PROVE  \/ /\ s \in DOMAIN readings /\ readings'[s] = readings[s]
              /\ s \notin Decided(d, TRUE, {"new", "replace"})
           \/ /\ s \in Decided(d, TRUE, {"new", "replace"})
              /\ readings'[s].source = "sdatch" /\ readings'[s].creation = d.creation
              /\ readings'[s].batch = next_batch
              /\ s \notin DOMAIN readings => readings'[s].first = next_batch
  BY DEF _apply_plan, Delivered

LEMMA PlanHeld ==
    ASSUME ReadingsTypeOK, NEW d \in Deliveries, _apply_plan(d), NEW s \in DOMAIN held'
    PROVE  /\ s \notin Promoted(d)
           /\ \/ s \in DOMAIN held /\ held'[s] = held[s]
              \/ /\ s \in Decided(d, FALSE, {"new", "replace"})
                 /\ held'[s].creation = d.creation
                 /\ held'[s].batch = next_batch
                 /\ s \notin DOMAIN held => held'[s].first = next_batch
  BY DEF _apply_plan, Delivered, Restrict

-----------------------------------------------------------------------------
(* Batches own their rows *)

LEMMA RowsOwnedInit ==
    ReadingsInit => RowsOwned
  <1> SUFFICES ASSUME ReadingsInit PROVE RowsOwned
    OBVIOUS
  <1>1. ASSUME NEW s \in DOMAIN readings
        PROVE  /\ readings[s].batch \in 1..LegacyLogs /\ readings[s].source = "csv"
               /\ \A b \in DOMAIN logs : logs[b].source = "csv"
    BY DEF ReadingsInit
  <1>2. LegacyLogs \in Nat /\ next_batch = LegacyLogs + 1
    BY ReadingsAssumption DEF ReadingsInit, ReadingsAssumption
  <1> QED
    BY <1>1, <1>2 DEF RowsOwned

LEMMA OwnedStep ==
    ASSUME ReadingsTypeOK, RowsOwned, [ReadingsNext]_readingsVars
    PROVE  RowsOwned'
  <1> SUFFICES ASSUME NEW s \in DOMAIN readings'
               PROVE  /\ readings'[s].batch < next_batch'
                      /\ readings'[s].batch \in DOMAIN logs' =>
                            readings'[s].source = logs'[readings'[s].batch].source
    BY DEF RowsOwned
  <1>0. \A r \in DOMAIN readings :
           /\ readings[r].batch \in Nat /\ readings[r].batch < next_batch
           /\ readings[r].batch \in DOMAIN logs =>
                 readings[r].source = logs[readings[r].batch].source
    BY DEF ReadingsTypeOK, Reading, RowsOwned
  <1>N. next_batch \in Nat
    BY DEF ReadingsTypeOK
  <1>1. ASSUME NEW source \in {"csv", "sdatch"}, import_rejected(source)
        PROVE  /\ readings'[s].batch < next_batch'
               /\ readings'[s].batch \in DOMAIN logs' =>
                     readings'[s].source = logs'[readings'[s].batch].source
    <2>1. WriteLog(source, FALSE, FALSE) /\ readings' = readings
      BY <1>1 DEF import_rejected
    <2>2. /\ next_batch' = next_batch + 1
          /\ DOMAIN logs' = DOMAIN logs \cup {next_batch}
          /\ \A b \in DOMAIN logs : logs'[b] = logs[b]
      BY <2>1, LogWritten
    <2> QED
      BY <1>0, <1>N, <2>1, <2>2
  <1>2. ASSUME NEW file \in Files(Energies), NEW over \in BOOLEAN, import_csv(file, over)
        PROVE  /\ readings'[s].batch < next_batch'
               /\ readings'[s].batch \in DOMAIN logs' =>
                     readings'[s].source = logs'[readings'[s].batch].source
    <2>1. WriteLog("csv", CsvOverwritten(file, over) # {}, FALSE)
      BY <1>2 DEF import_csv
    <2>2. \/ s \in DOMAIN readings /\ readings'[s] = readings[s]
          \/ readings'[s].batch = next_batch /\ readings'[s].source = "csv"
      BY <1>2 DEF import_csv
    <2>3. /\ next_batch' = next_batch + 1 /\ logs'[next_batch].source = "csv"
          /\ DOMAIN logs' = DOMAIN logs \cup {next_batch}
          /\ \A b \in DOMAIN logs : logs'[b] = logs[b]
      BY <2>1, LogWritten
    <2> QED
      BY <1>0, <1>N, <2>2, <2>3
  <1>3. ASSUME NEW d \in Deliveries, _apply_plan(d)
        PROVE  /\ readings'[s].batch < next_batch'
               /\ readings'[s].batch \in DOMAIN logs' =>
                     readings'[s].source = logs'[readings'[s].batch].source
    <2>1. PICK over \in BOOLEAN, hover \in BOOLEAN : WriteLog("sdatch", over, hover)
      BY <1>3 DEF _apply_plan
    <2>2. \/ s \in DOMAIN readings /\ readings'[s] = readings[s]
          \/ readings'[s].batch = next_batch /\ readings'[s].source = "sdatch"
      BY <1>3, PlanBillable
    <2>3. /\ next_batch' = next_batch + 1 /\ logs'[next_batch].source = "sdatch"
          /\ DOMAIN logs' = DOMAIN logs \cup {next_batch}
          /\ \A b \in DOMAIN logs : logs'[b] = logs[b]
      BY <2>1, LogWritten
    <2> QED
      BY <1>0, <1>N, <2>2, <2>3
  <1>4. CASE \E batches \in SUBSET DOMAIN logs : _delete_import_logs(batches)
    BY <1>0, <1>4 DEF _delete_import_logs, Restrict
  <1>5. CASE \E point \in Points, from, to \in Times : delete_readings(point, from..to)
    BY <1>0, <1>5 DEF delete_readings, Restrict
  <1>6. ASSUME NEW batches \in SUBSET DOMAIN logs, reanchor(batches)
        PROVE  /\ readings'[s].batch < next_batch'
               /\ readings'[s].batch \in DOMAIN logs' =>
                     readings'[s].source = logs'[readings'[s].batch].source
    BY <1>0, <1>6, RepairMoves, RepairLogs
  <1>7. CASE UNCHANGED readingsVars
    BY <1>0, <1>7 DEF readingsVars
  <1> QED
    BY <1>1, <1>2, <1>3, <1>4, <1>5, <1>6, <1>7 DEF ReadingsNext, import_sdatch

-----------------------------------------------------------------------------
(* Held data is news *)

LEMMA HeldStep ==
    ASSUME ReadingsTypeOK, RowsOwned, HeldIsNewer, [ReadingsNext]_readingsVars
    PROVE  HeldIsNewer'
  <1> SUFFICES ASSUME NEW s \in DOMAIN held', s \in DOMAIN readings',
                      readings'[s].source = "sdatch"
               PROVE  held'[s].creation > readings'[s].creation
    BY DEF HeldIsNewer
  <1>1. CASE \E source \in {"csv", "sdatch"} : import_rejected(source)
    BY <1>1 DEF import_rejected, HeldIsNewer
  <1>2. CASE \E file \in Files(Energies), over \in BOOLEAN : import_csv(file, over)
    BY <1>2 DEF import_csv, HeldIsNewer
  <1>3. ASSUME NEW d \in Deliveries, _apply_plan(d)
        PROVE  held'[s].creation > readings'[s].creation
    <2>0. /\ d.creation \in Nat
          /\ \A r \in DOMAIN readings : readings[r].creation \in Nat
          /\ \A r \in DOMAIN held : held[r].creation \in Nat
      BY DeliveryType DEF ReadingsTypeOK, Reading
    <2>1. CASE s \in Decided(d, TRUE, {"new", "replace"})
      <3>1. readings'[s].creation = d.creation
        BY <1>3, <2>1, PlanBillable
      <3>2. s \notin Decided(d, FALSE, {"new", "replace"})
        BY <2>1 DEF Decided
      <3>3. s \in DOMAIN held /\ held'[s] = held[s] /\ s \notin Promoted(d)
        BY <1>3, <3>2, PlanHeld
      <3>4. ~(held[s].creation <= d.creation)
        BY <2>1, <3>3 DEF Promoted
      <3>5. held[s].creation \in Nat
        BY <2>0, <3>3
      <3> QED
        BY <2>0, <3>1, <3>3, <3>4, <3>5
    <2>2. CASE s \notin Decided(d, TRUE, {"new", "replace"})
      <3>1. s \in DOMAIN readings /\ readings'[s] = readings[s]
        BY <1>3, <2>2, PlanBillable
      <3>2. CASE s \in DOMAIN held /\ held'[s] = held[s]
        BY <3>1, <3>2 DEF HeldIsNewer
      <3>3. CASE s \in Decided(d, FALSE, {"new", "replace"}) /\ held'[s].creation = d.creation
        BY <2>0, <3>1, <3>3, HeldVerdict
      <3> QED
        BY <1>3, <3>2, <3>3, PlanHeld
    <2> QED
      BY <2>1, <2>2
  <1>4. CASE \E batches \in SUBSET DOMAIN logs : _delete_import_logs(batches)
    BY <1>4 DEF _delete_import_logs, Restrict, HeldIsNewer
  <1>5. CASE \E point \in Points, from, to \in Times : delete_readings(point, from..to)
    BY <1>5 DEF delete_readings, Restrict, HeldIsNewer
  <1>6. ASSUME NEW batches \in SUBSET DOMAIN logs, reanchor(batches)
        PROVE  held'[s].creation > readings'[s].creation
    <2>1. \A m \in DOMAIN readings : readings[m].batch \in batches => readings[m].source = "csv"
      BY <1>6, RepairLogs DEF RowsOwned
    <2>2. s \in DOMAIN readings /\ readings'[s] = readings[s]
      BY <1>6, <2>1, RepairMoves
    <2> QED
      BY <1>6, <2>2, RepairLogs DEF HeldIsNewer
  <1>7. CASE UNCHANGED readingsVars
    BY <1>7 DEF readingsVars, HeldIsNewer
  <1> QED
    BY <1>1, <1>2, <1>3, <1>4, <1>5, <1>6, <1>7 DEF ReadingsNext, import_sdatch

\* Held data is kept only while it is news (_decide_slot, promote), for any
\* files in any order.  Preserved only together with RowsOwned, which keeps
\* the repair from moving SDAT-CH rows.
THEOREM HeldStaysNews == ReadingsSpec => []HeldIsNewer
  <1>1. ReadingsInit => ReadingsTypeOK /\ RowsOwned /\ HeldIsNewer
    <2>1. ReadingsInit => HeldIsNewer
      BY DEF ReadingsInit, HeldIsNewer
    <2> QED
      BY <2>1, ReadingsTypeInit, RowsOwnedInit
  <1>2. /\ ReadingsTypeOK /\ RowsOwned /\ HeldIsNewer
        /\ [ReadingsNext]_readingsVars
        => (ReadingsTypeOK /\ RowsOwned /\ HeldIsNewer)'
    BY ReadingsTypeStep, OwnedStep, HeldStep
  <1> QED
    BY <1>1, <1>2, PTL DEF ReadingsSpec

-----------------------------------------------------------------------------
(* Data never regresses *)

LEMMA NoRegress ==
    ASSUME ReadingsTypeOK, RowsOwned, [ReadingsNext]_readingsVars
    PROVE  [RegressStep]_readingsVars
  <1> SUFFICES ASSUME NEW s \in DOMAIN readings, s \in DOMAIN readings',
                      readings'[s].source = "sdatch", readings'[s] # readings[s]
               PROVE  /\ readings[s].source = "sdatch"
                      /\ readings'[s].creation > readings[s].creation
    BY DEF RegressStep
  <1>1. CASE \E source \in {"csv", "sdatch"} : import_rejected(source)
    BY <1>1 DEF import_rejected
  <1>2. CASE \E file \in Files(Energies), over \in BOOLEAN : import_csv(file, over)
    BY <1>2 DEF import_csv
  <1>3. ASSUME NEW d \in Deliveries, _apply_plan(d)
        PROVE  /\ readings[s].source = "sdatch"
               /\ readings'[s].creation > readings[s].creation
    <2>1. s \in Decided(d, TRUE, {"new", "replace"}) /\ readings'[s].creation = d.creation
      BY <1>3, PlanBillable
    <2>2. readings[s].source = "sdatch" /\ readings[s].creation < d.creation
      BY <2>1, BillableVerdict
    <2>3. readings[s].creation \in Nat /\ d.creation \in Nat
      BY DeliveryType DEF ReadingsTypeOK, Reading
    <2> QED
      BY <2>1, <2>2, <2>3
  <1>4. CASE \E batches \in SUBSET DOMAIN logs : _delete_import_logs(batches)
    BY <1>4 DEF _delete_import_logs, Restrict
  <1>5. CASE \E point \in Points, from, to \in Times : delete_readings(point, from..to)
    BY <1>5 DEF delete_readings, Restrict
  <1>6. ASSUME NEW batches \in SUBSET DOMAIN logs, reanchor(batches)
        PROVE  FALSE
    <2>1. \A m \in DOMAIN readings : readings[m].batch \in batches => readings[m].source = "csv"
      BY <1>6, RepairLogs DEF RowsOwned
    <2> QED
      BY <1>6, <2>1, RepairMoves
  <1>7. CASE UNCHANGED readingsVars
    BY <1>7 DEF readingsVars
  <1> QED
    BY <1>1, <1>2, <1>3, <1>4, <1>5, <1>6, <1>7 DEF ReadingsNext, import_sdatch

\* Billing data never goes back to an older delivery, and CSV data is never
\* replaced by one (_decide_slot), in whatever order files arrive.
THEOREM NeverGoesBack == ReadingsSpec => NeverRegresses
  <1>1. ReadingsInit => ReadingsTypeOK /\ RowsOwned
    BY RowsOwnedInit, ReadingsTypeInit
  <1>2. ReadingsTypeOK /\ RowsOwned /\ [ReadingsNext]_readingsVars => (ReadingsTypeOK /\ RowsOwned)'
    BY ReadingsTypeStep, OwnedStep
  <1>3. ReadingsTypeOK /\ RowsOwned /\ [ReadingsNext]_readingsVars => [RegressStep]_readingsVars
    BY NoRegress
  <1> QED
    BY <1>1, <1>2, <1>3, PTL DEF ReadingsSpec, NeverRegresses

-----------------------------------------------------------------------------
(* Deletable imports only added rows *)

\* One stream's part of DeletableImportsOnlyAdd.
OnlyAdded(rows) ==
    \A s \in DOMAIN rows :
        rows[s].batch # rows[s].first =>
            rows[s].batch \in DOMAIN logs /\ protection_code(rows[s].batch)

LEMMA BothStreams ==
    DeletableImportsOnlyAdd <=> OnlyAdded(readings) /\ OnlyAdded(held)
  BY DEF DeletableImportsOnlyAdd, OnlyAdded

LEMMA OnlyAddedStep ==
    ASSUME ReadingsTypeOK, HeldIsNewer, OnlyAdded(readings), OnlyAdded(held), [ReadingsNext]_readingsVars
    PROVE  OnlyAdded(readings)' /\ OnlyAdded(held)'
  <1>0. ReadingsTypeOK'
    BY ReadingsTypeStep
  <1>1. ASSUME NEW source \in {"csv", "sdatch"}, import_rejected(source)
        PROVE  OnlyAdded(readings)' /\ OnlyAdded(held)'
    <2>1. /\ DOMAIN logs' = DOMAIN logs \cup {next_batch}
          /\ \A b \in DOMAIN logs : logs'[b] = logs[b]
      BY <1>1, LogWritten DEF import_rejected
    <2> QED
      BY <1>1, <2>1 DEF import_rejected, OnlyAdded, protection_code
  <1>2. ASSUME NEW file \in Files(Energies), NEW over \in BOOLEAN, import_csv(file, over)
        PROVE  OnlyAdded(readings)' /\ OnlyAdded(held)'
    <2>1. WriteLog("csv", CsvOverwritten(file, over) # {}, FALSE)
      BY <1>2 DEF import_csv
    <2>2. /\ DOMAIN logs' = DOMAIN logs \cup {next_batch}
          /\ \A b \in DOMAIN logs : logs'[b] = logs[b]
          /\ logs'[next_batch].overwrote = (CsvOverwritten(file, over) # {})
      BY <2>1, LogWritten
    <2>3. ASSUME NEW s \in DOMAIN readings', readings'[s].batch # readings'[s].first
          PROVE  \/ s \in DOMAIN readings /\ readings'[s] = readings[s]
                 \/ readings'[s].batch = next_batch /\ s \in CsvOverwritten(file, over)
      BY <1>2, <2>3 DEF import_csv, CsvChanged, CsvCreated
    <2>4. OnlyAdded(readings)'
      <3> SUFFICES ASSUME NEW s \in DOMAIN readings', readings'[s].batch # readings'[s].first
                   PROVE  /\ readings'[s].batch \in DOMAIN logs'
                          /\ \/ logs'[readings'[s].batch].overwrote
                             \/ logs'[readings'[s].batch].held_overwrote
        BY DEF OnlyAdded, protection_code
      <3>1. CASE s \in DOMAIN readings /\ readings'[s] = readings[s]
        BY <2>2, <3>1 DEF OnlyAdded, protection_code
      <3>2. CASE readings'[s].batch = next_batch /\ s \in CsvOverwritten(file, over)
        BY <2>2, <3>2
      <3> QED
        BY <2>3, <3>1, <3>2
    <2>5. OnlyAdded(held)'
      BY <1>2, <2>2 DEF import_csv, OnlyAdded, protection_code
    <2> QED
      BY <2>4, <2>5
  <1>3. ASSUME NEW d \in Deliveries, _apply_plan(d)
        PROVE  OnlyAdded(readings)' /\ OnlyAdded(held)'
    <2>1. WriteLog("sdatch", Decided(d, TRUE, {"replace"}) # {},
                   Decided(d, FALSE, {"replace"}) # {})
      BY <1>3 DEF _apply_plan
    <2>2. /\ DOMAIN logs' = DOMAIN logs \cup {next_batch}
          /\ \A b \in DOMAIN logs : logs'[b] = logs[b]
          /\ logs'[next_batch].overwrote = (Decided(d, TRUE, {"replace"}) # {})
          /\ logs'[next_batch].held_overwrote = (Decided(d, FALSE, {"replace"}) # {})
      BY <2>1, LogWritten
    <2>3. OnlyAdded(readings)'
      <3> SUFFICES ASSUME NEW s \in DOMAIN readings', readings'[s].batch # readings'[s].first
                   PROVE  /\ readings'[s].batch \in DOMAIN logs'
                          /\ \/ logs'[readings'[s].batch].overwrote
                             \/ logs'[readings'[s].batch].held_overwrote
        BY DEF OnlyAdded, protection_code
      <3>1. CASE s \in DOMAIN readings /\ readings'[s] = readings[s]
        BY <2>2, <3>1 DEF OnlyAdded, protection_code
      <3>2. CASE /\ s \in Decided(d, TRUE, {"new", "replace"})
                 /\ readings'[s].batch = next_batch
                 /\ s \notin DOMAIN readings => readings'[s].first = next_batch
        <4>1. s \in DOMAIN readings /\ _decide_slot(s, d) = "replace"
          BY <3>2, BillableVerdict
        <4>2. s \in Decided(d, TRUE, {"replace"})
          BY <3>2, <4>1 DEF Decided
        <4> QED
          BY <2>2, <3>2, <4>2
      <3> QED
        BY <1>3, <3>1, <3>2, PlanBillable
    <2>4. OnlyAdded(held)'
      <3> SUFFICES ASSUME NEW s \in DOMAIN held', held'[s].batch # held'[s].first
                   PROVE  /\ held'[s].batch \in DOMAIN logs'
                          /\ \/ logs'[held'[s].batch].overwrote
                             \/ logs'[held'[s].batch].held_overwrote
        BY DEF OnlyAdded, protection_code
      <3>1. CASE s \in DOMAIN held /\ held'[s] = held[s]
        BY <2>2, <3>1 DEF OnlyAdded, protection_code
      <3>2. CASE /\ s \in Decided(d, FALSE, {"new", "replace"})
                 /\ held'[s].batch = next_batch
                 /\ s \notin DOMAIN held => held'[s].first = next_batch
        <4>1. s \in DOMAIN held /\ _decide_slot(s, d) = "replace"
          BY <3>2, HeldVerdict
        <4>2. s \in Decided(d, FALSE, {"replace"})
          BY <3>2, <4>1 DEF Decided
        <4> QED
          BY <2>2, <3>2, <4>2
      <3> QED
        BY <1>3, <3>1, <3>2, PlanHeld
    <2> QED
      BY <2>3, <2>4
  <1>4. CASE \E batches \in SUBSET DOMAIN logs : _delete_import_logs(batches)
    BY <1>4 DEF _delete_import_logs, Restrict, SlotsOf, OnlyAdded, protection_code
  <1>5. CASE \E point \in Points, from, to \in Times : delete_readings(point, from..to)
    BY <1>5 DEF delete_readings, Restrict, OnlyAdded, protection_code
  <1>6. ASSUME NEW batches \in SUBSET DOMAIN logs, reanchor(batches)
        PROVE  OnlyAdded(readings)' /\ OnlyAdded(held)'
    BY <1>6, RepairMoves, RepairLogs DEF OnlyAdded, protection_code
  <1>7. CASE UNCHANGED readingsVars
    BY <1>7 DEF readingsVars, OnlyAdded, protection_code
  <1> QED
    BY <1>1, <1>2, <1>3, <1>4, <1>5, <1>6, <1>7 DEF ReadingsNext, import_sdatch

\* Deleting imports only takes back what they added (protection_code and its
\* counters), for both streams.  The invariant on held data is needed to know
\* which deliveries replace held rows.
THEOREM DeletionTakesBackAdditions == ReadingsSpec => []DeletableImportsOnlyAdd
  <1> DEFINE Inv == ReadingsTypeOK /\ RowsOwned /\ HeldIsNewer /\ OnlyAdded(readings) /\ OnlyAdded(held)
  <1>1. ReadingsInit => Inv
    <2>1. ReadingsInit => OnlyAdded(readings) /\ OnlyAdded(held)
      BY DEF ReadingsInit, OnlyAdded
    <2>2. ReadingsInit => HeldIsNewer
      BY DEF ReadingsInit, HeldIsNewer
    <2> QED
      BY <2>1, <2>2, ReadingsTypeInit, RowsOwnedInit
  <1>2. Inv /\ [ReadingsNext]_readingsVars => Inv'
    BY ReadingsTypeStep, OwnedStep, HeldStep, OnlyAddedStep
  <1>3. Inv => DeletableImportsOnlyAdd
    BY BothStreams
  <1> QED
    BY <1>1, <1>2, <1>3, PTL DEF ReadingsSpec


-----------------------------------------------------------------------------
(* The repair loses nothing *)

Repaired == {b \in DOMAIN logs \cap DOMAIN logs' : logs[b].legacy /\ ~logs'[b].legacy}

\* What a step keeps of the logs is kept as it is, but for the repair.
LEMMA OnlyRepairsClear ==
    ASSUME ReadingsTypeOK, [ReadingsNext]_readingsVars, ~ \E batches \in SUBSET DOMAIN logs : reanchor(batches)
    PROVE  Repaired = {}
  <1> SUFFICES ASSUME NEW b \in DOMAIN logs \cap DOMAIN logs'
               PROVE  logs'[b] = logs[b]
    BY DEF Repaired
  <1>1. ASSUME NEW source \in {"csv", "sdatch"}, NEW over \in BOOLEAN, NEW hover \in BOOLEAN,
               WriteLog(source, over, hover)
        PROVE  logs'[b] = logs[b]
    BY <1>1, LogWritten
  <1>2. CASE \E source \in {"csv", "sdatch"} : import_rejected(source)
    BY <1>1, <1>2 DEF import_rejected
  <1>3. CASE \E file \in Files(Energies), over \in BOOLEAN : import_csv(file, over)
    BY <1>1, <1>3 DEF import_csv
  <1>4. CASE \E d \in Deliveries : import_sdatch(d)
    BY <1>1, <1>4 DEF import_sdatch, import_rejected, _apply_plan
  <1>5. CASE \E batches \in SUBSET DOMAIN logs : _delete_import_logs(batches)
    BY <1>5 DEF _delete_import_logs, Restrict
  <1>6. CASE (\E point \in Points, from, to \in Times : delete_readings(point, from..to))
             \/ UNCHANGED readingsVars
    BY <1>6 DEF delete_readings, readingsVars
  <1> QED
    BY <1>2, <1>3, <1>4, <1>5, <1>6 DEF ReadingsNext

LEMMA RepairedAreSelected ==
    ASSUME ReadingsTypeOK, NEW batches \in SUBSET DOMAIN logs, reanchor(batches)
    PROVE  Repaired = batches
  <1>1. logs' = [b \in DOMAIN logs |-> IF b \in batches
                                       THEN [logs[b] EXCEPT !.legacy = FALSE] ELSE logs[b]]
        /\ batches \subseteq legacy_batches
    BY DEF reanchor
  <1>2. \A b \in DOMAIN logs : logs[b] \in ImportLog
    BY DEF ReadingsTypeOK
  <1>3. ASSUME NEW b \in batches
        PROVE  b \in Repaired
    <2>1. logs'[b] = [logs[b] EXCEPT !.legacy = FALSE] /\ logs[b] \in ImportLog
      BY <1>1, <1>2
    <2>2. ~logs'[b].legacy
      BY <2>1 DEF ImportLog
    <2> QED
      BY <1>1, <2>2 DEF Repaired, legacy_batches
  <1>4. ASSUME NEW b \in Repaired
        PROVE  b \in batches
    BY <1>1 DEF Repaired
  <1> QED
    BY <1>3, <1>4

LEMMA RepairKeeps ==
    ASSUME ReadingsTypeOK, NEW batches \in SUBSET DOMAIN logs, reanchor(batches),
           NEW s \in DOMAIN readings
    PROVE  IF readings[s].batch \in batches
           THEN readings[s].energy # 0 =>
                    \E t \in DOMAIN readings' :
                        t[1] = s[1] /\ t[2] < s[2] /\ readings'[t] = readings[s]
           ELSE s \in DOMAIN readings' /\ readings'[s] = readings[s]
  <1> DEFINE moved == Moves(batches)
             stay == DOMAIN readings \ SlotsOf(readings, batches)
             targets == {NewSlot(m) : m \in moved}
             From(target) == CHOOSE m \in moved : NewSlot(m) = target
  <1>1. readings' = [r \in stay \cup targets |->
                       IF r \in targets THEN readings[From(r)] ELSE readings[r]]
    BY DEF reanchor
  <1>2. PlanAccepted(batches)
    BY DEF reanchor
  <1>3. CASE readings[s].batch \notin batches
    <2>1. s \in stay
      BY <1>3 DEF SlotsOf
    <2>2. s \notin targets
      BY <1>2, <2>1 DEF PlanAccepted
    <2> QED
      BY <1>1, <1>3, <2>1, <2>2
  <1>4. CASE readings[s].batch \in batches
    <2> SUFFICES ASSUME readings[s].energy # 0
                 PROVE  \E t \in DOMAIN readings' :
                            t[1] = s[1] /\ t[2] < s[2] /\ readings'[t] = readings[s]
      BY <1>4
    <2>1. s \in SlotsOf(readings, batches)
      BY <1>4 DEF SlotsOf
    <2>2. s \in moved
      BY <1>2, <2>1 DEF PlanAccepted
    <2>3. PICK t : t = NewSlot(s)
      OBVIOUS
    <2>4. t \in targets
      BY <2>2, <2>3
    <2>5. From(t) \in moved /\ NewSlot(From(t)) = t
      BY <2>2, <2>3
    <2> HIDE DEF From
    <2>6. From(t) = s
      BY <1>2, <2>2, <2>3, <2>5 DEF PlanAccepted
    <2>7. t \in DOMAIN readings' /\ readings'[t] = readings[s]
      BY <1>1, <2>4, <2>6
    <2>8. s[2] \in Times
      BY DEF ReadingsTypeOK, Slots
    <2>9. t[1] = s[1] /\ t[2] < s[2]
      BY <2>3, <2>8, ReadingsAssumption DEF ReadingsAssumption, NewSlot
    <2> QED
      BY <2>7, <2>9
  <1> QED
    BY <1>3, <1>4

LEMMA RepairStepHolds ==
    ASSUME ReadingsTypeOK, [ReadingsNext]_readingsVars
    PROVE  RepairStep
  <1>1. CASE ~ \E batches \in SUBSET DOMAIN logs : reanchor(batches)
    BY <1>1, OnlyRepairsClear DEF RepairStep, Repaired
  <1>2. ASSUME NEW batches \in SUBSET DOMAIN logs, reanchor(batches)
        PROVE  RepairStep
    BY <1>2, RepairedAreSelected, RepairKeeps DEF RepairStep, Repaired
  <1> QED
    BY <1>1, <1>2

\* A repair of legacy imports (reanchor_readings --apply) loses no energy and
\* touches nothing outside the batches it repairs: every quantity is found
\* again, earlier, and no two are moved onto one another.
THEOREM RepairIsLossless == ReadingsSpec => RepairLosesNothing
  <1>1. ReadingsTypeOK /\ [ReadingsNext]_readingsVars => [RepairStep]_readingsVars
    BY RepairStepHolds
  <1> QED
    BY <1>1, ReadingsTypeCorrect, PTL DEF ReadingsSpec, RepairLosesNothing

-----------------------------------------------------------------------------
(* The ledger and the readings together *)

-----------------------------------------------------------------------------
(* Both components keep their types *)

\* A step of the whole is a step of the ledger, or leaves the ledger alone.
LEMMA LedgerStep ==
  ASSUME InputsNext
  PROVE  [Next]_vars
<1>1. CASE Import \/ Delete \/ Repair
  BY <1>1 DEF Import, Delete, Repair, Flag, ledgerVars
<1>2. CASE Generate
  BY <1>2 DEF Generate, Next
<1>3. CASE Cancel
  BY <1>3 DEF Cancel, Next, InvoiceStep
<1>4. CASE Destroy
  BY <1>4 DEF Destroy, Next
<1>5. CASE Carry
  BY <1>5 DEF Carry, Next, InvoiceStep
<1>. QED  BY <1>1, <1>2, <1>3, <1>4, <1>5 DEF InputsNext

\* Deletion by civil days apart, it is a step of the readings, or leaves them.
LEMMA ReadingsTypesKept ==
  ASSUME ReadingsTypeOK, InputsNext
  PROVE  ReadingsTypeOK'
<1>1. CASE Import
  <2>1. ReadingsNext
    BY <1>1 DEF Import, ReadingsNext
  <2>. QED  BY <2>1, ReadingsTypeStep
<1>2. CASE Delete
  <2>1. CASE \E batches \in SUBSET DOMAIN logs : _delete_import_logs(batches)
    BY <2>1, DeleteLogsType
  <2>2. CASE \E point \in Points, times \in SUBSET (0..LastTime) : delete_readings(point, times)
    BY <2>2, DeleteReadingsType
  <2>. QED  BY <1>2, <2>1, <2>2 DEF Delete
<1>3. CASE Repair
  BY <1>3, RepairType DEF Repair
<1>4. CASE UNCHANGED readingsVars
  BY <1>4, ReadingsTypeStep
<1>. QED  BY <1>1, <1>2, <1>3, <1>4 DEF InputsNext, Generate, Cancel, Destroy, Carry

-----------------------------------------------------------------------------
(* What a change of the readings touches *)

\* Outside S, the slots are filled as they were, with the same quantities.
OnlyChanges(S) ==
    \A s : s \notin S =>
        /\ s \in DOMAIN readings' <=> s \in DOMAIN readings
        /\ s \in DOMAIN readings => readings'[s].energy = readings[s].energy

LEMMA CsvChanges ==
  ASSUME NEW file, NEW over, import_csv(file, over)
  PROVE  OnlyChanges(CsvChanged(file, over))
  BY DEF import_csv, OnlyChanges

LEMMA PlanChanges ==
  ASSUME ReadingsTypeOK, NEW d \in Deliveries, import_sdatch(d)
  PROVE  OnlyChanges(SdatChanged(d))
<1>1. CASE Refused(d)
  <2>1. readings' = readings
    BY <1>1 DEF import_sdatch, import_rejected
  <2>. QED  BY <2>1 DEF OnlyChanges
<1>2. CASE ~Refused(d)
  <2> DEFINE W == Decided(d, TRUE, {"new", "replace"})
  <2>1. readings' = Delivered(readings, W, d)
    BY <1>2 DEF import_sdatch, _apply_plan
  <2>2. /\ DOMAIN readings' = DOMAIN readings \cup W
        /\ \A s \in W : readings'[s].energy = d.obs[s].energy
        /\ \A s \in DOMAIN readings \ W : readings'[s] = readings[s]
    <3> HIDE DEF W
    <3>. QED  BY <2>1 DEF Delivered
  <2>3. ASSUME NEW s \in W, s \notin SdatChanged(d)
        PROVE  s \in DOMAIN readings /\ readings[s].energy = d.obs[s].energy
    <3>1. s \notin Decided(d, TRUE, {"new"})
      BY <1>2, <2>3 DEF SdatChanged
    <3>2. s \in Decided(d, TRUE, {"replace"}) /\ _decide_slot(s, d) # "new" /\ IsBillable(d, s)
      BY <2>3, <3>1 DEF Decided
    <3>3. s \in DOMAIN readings
      BY <3>2 DEF Decided, _decide_slot, Against, _is_protected_source
    <3>. QED  BY <1>2, <2>3, <3>2, <3>3 DEF SdatChanged
  <2> HIDE DEF W
  <2>. QED  BY <2>2, <2>3 DEF OnlyChanges
<1>. QED  BY <1>1, <1>2

LEMMA DeletionChanges ==
  /\ \A batches : _delete_import_logs(batches) => OnlyChanges(SlotsOf(readings, batches))
  /\ \A point, times : delete_readings(point, times) => OnlyChanges(Window(readings, point, times))
<1>1. ASSUME NEW batches, _delete_import_logs(batches)
      PROVE  OnlyChanges(SlotsOf(readings, batches))
  BY <1>1 DEF _delete_import_logs, Restrict, OnlyChanges
<1>2. ASSUME NEW point, NEW times, delete_readings(point, times)
      PROVE  OnlyChanges(Window(readings, point, times))
  BY <1>2 DEF delete_readings, Restrict, OnlyChanges
<1>. QED  BY <1>1, <1>2

LEMMA RepairChanges ==
  ASSUME NEW batches, reanchor(batches)
  PROVE  OnlyChanges(RepairedSlots(batches))
<1> DEFINE targets == {NewSlot(m) : m \in Moves(batches)}
           stay == DOMAIN readings \ SlotsOf(readings, batches)
<1>1. /\ DOMAIN readings' = stay \cup targets
      /\ \A s \in stay \ targets : readings'[s] = readings[s]
  BY DEF reanchor
<1>2. RepairedSlots(batches) = SlotsOf(readings, batches) \cup targets
  BY DEF RepairedSlots
<1> HIDE DEF targets
<1>. QED  BY <1>1, <1>2 DEF OnlyChanges

-----------------------------------------------------------------------------
(* What an invoice is priced from *)

\* The readings of a period that concern the participant.
PoolOf(p, start, end) ==
    [s \in {r \in DOMAIN readings : Day(r) \in start..end /\ Concerns(r, p)} |->
        readings[s].energy]

\* They are among what the participant's invoice is priced from.
LEMMA PricedFromThePool ==
  ASSUME ReadingsTypeOK, NEW p \in Participants, NEW start, NEW end, NEW inputs,
         inputs = _gather_period_readings(p, start, end)
  PROVE  Restrict(inputs, {s \in DOMAIN inputs : Concerns(s, p)}) = PoolOf(p, start, end)
<1>1. ASSUME NEW r \in DOMAIN readings, Concerns(r, p)
      PROVE  PricedAt(p, r[2])
  <2>1. PICK m \in Points, t \in Times : r = <<m, t>>
    BY DEF ReadingsTypeOK, Slots
  <2>2. r[1] = m /\ r[2] = t
    BY <2>1
  <2>3. p \in Members[civil_date[t]] \/ Holder[<<m, civil_date[t]>>] = p
    BY <1>1, <2>2 DEF Concerns, Day
  <2>4. PricedAt(p, t)
    BY <1>1, <2>1, <2>3 DEF PricedAt
  <2>. QED  BY <2>2, <2>4
<1>. DEFINE D == {r \in DOMAIN readings : Day(r) \in start..end /\ PricedAt(p, r[2])}
            C == {r \in DOMAIN readings : Day(r) \in start..end /\ Concerns(r, p)}
<1>2. inputs = [s \in D |-> readings[s].energy]
  BY DEF _gather_period_readings
<1>3. C = {s \in D : Concerns(s, p)} /\ DOMAIN inputs = D
  BY <1>1, <1>2
<1>4. PoolOf(p, start, end) = [s \in C |-> readings[s].energy]
  BY DEF PoolOf
<1>. HIDE DEF C, D
<1>5. \A s \in C : s \in D
  BY <1>3
<1>6. \A s \in C : inputs[s] = readings[s].energy
  BY <1>2, <1>5
<1>. QED  BY <1>3, <1>4, <1>6 DEF Restrict

\* The pool of an invoice that a change of S does not flag stays as it is.
LEMMA PoolStays ==
  ASSUME NEW S, OnlyChanges(S), UNCHANGED vars, TypeOK, NEW i \in DOMAIN invoices, Live(i),
         i \notin _invoices_for_targets(affected_participant_days(S)),
         NEW row, row = invoices[i]
  PROVE  PoolOf(row.participant, row.period_start, row.period_end)'
         = PoolOf(row.participant, row.period_start, row.period_end)
<1> DEFINE p == row.participant
           start == row.period_start
           end == row.period_end
           days == affected_participant_days(S)
<1>1. ASSUME NEW s \in S, Day(s) \in start..end
      PROVE  ~Concerns(s, p)
  <2>1. /\ Day(s) \in DOMAIN days /\ Members[Day(s)] \subseteq days[Day(s)]
        /\ Holder[<<s[1], Day(s)>>] # None => Holder[<<s[1], Day(s)>>] \in days[Day(s)]
    BY DEF affected_participant_days
  <2>5. p # None
    BY AssignmentsAssumption DEF TypeOK, Invoice
  <2>2. start \in Int /\ end \in Int
    BY DEF TypeOK, Invoice, Days
  <2>3. start <= Day(s) /\ Day(s) <= end
    BY <1>1, <2>2
  <2> HIDE DEF days
  <2>4. i \notin _invoices_for_targets(days)
    BY DEF days
  <2>. QED  BY <2>1, <2>3, <2>4, <2>5 DEF _invoices_for_targets, Live, Concerns
<1>2. {r \in DOMAIN readings' : Day(r) \in start..end /\ Concerns(r, p)}
      = {r \in DOMAIN readings : Day(r) \in start..end /\ Concerns(r, p)}
  <2> HIDE DEF p, start, end
  <2>. QED  BY <1>1 DEF OnlyChanges
<1>3. \A r \in DOMAIN readings : Day(r) \in start..end /\ Concerns(r, p)
         => readings'[r].energy = readings[r].energy
  <2> HIDE DEF p, start, end
  <2>. QED  BY <1>1 DEF OnlyChanges
<1>4. \A r, k : Day(r)' = Day(r) /\ (Concerns(r, k)' <=> Concerns(r, k))
  BY DEF Day, Concerns
<1>. QED  BY <1>2, <1>3, <1>4 DEF PoolOf

\* The inputs of the invoices in other words, before and after a step.
PoolsAreInputs ==
    \A i \in DOMAIN invoices :
        OwnInputs(i, CurrentInputs(i))
        = PoolOf(invoices[i].participant, invoices[i].period_start, invoices[i].period_end)

LEMMA PoolsNow == TypeOK /\ ReadingsTypeOK => PoolsAreInputs
<1> SUFFICES ASSUME TypeOK, ReadingsTypeOK, NEW i \in DOMAIN invoices
             PROVE  OwnInputs(i, CurrentInputs(i))
                    = PoolOf(invoices[i].participant, invoices[i].period_start, invoices[i].period_end)
  BY DEF PoolsAreInputs
<1>1. invoices[i].participant \in Participants
  BY DEF TypeOK, Invoice
<1>2. PICK p, start, end :
         p = invoices[i].participant /\ start = invoices[i].period_start /\ end = invoices[i].period_end
  OBVIOUS
<1>3. PICK inputs : inputs = _gather_period_readings(p, start, end)
  OBVIOUS
<1>4. OwnInputs(i, inputs) = PoolOf(p, start, end)
  <2>1. p \in Participants
    BY <1>1, <1>2
  <2>2. Restrict(inputs, {s \in DOMAIN inputs : Concerns(s, p)}) = PoolOf(p, start, end)
    BY <1>3, <2>1, PricedFromThePool
  <2>. QED  BY <1>2, <2>2 DEF OwnInputs
<1>. QED  BY <1>2, <1>3, <1>4 DEF CurrentInputs

LEMMA PoolsNext == (TypeOK /\ ReadingsTypeOK)' => PoolsAreInputs'
  BY PoolsNow, PTL

-----------------------------------------------------------------------------
(* The steps *)

\* Impacts are of invoices that stand.
StandInv == InputsTypeOK /\ CancelledAsksNothing

\* A change of the readings flags invoices that stand and settles nothing.
LEMMA FlagStands ==
  ASSUME StandInv, TypeOK', ReadingsTypeOK', NEW S, Flag(S)
  PROVE  StandInv' /\ SettleStep
<1>1. /\ priced' = priced /\ UNCHANGED invoices
      /\ impacts' = impacts \cup _invoices_for_targets(affected_participant_days(S))
  BY DEF Flag, ledgerVars, vars
<1>2. InputsTypeOK'
  BY <1>1 DEF StandInv, InputsTypeOK, _invoices_for_targets
<1>3. CancelledAsksNothing'
  BY <1>1 DEF StandInv, CancelledAsksNothing, _invoices_for_targets, Live
<1>. QED  BY <1>1, <1>2, <1>3 DEF StandInv, SettleStep

\* ... and every invoice that was priced from what changed.
LEMMA FlagStep ==
  ASSUME InputsTypeOK, OutdatedIsFlagged, TypeOK', ReadingsTypeOK',
         NEW S, OnlyChanges(S), Flag(S)
  PROVE  OutdatedIsFlagged'
<1>1. /\ UNCHANGED vars /\ priced' = priced /\ UNCHANGED invoices
      /\ impacts' = impacts \cup _invoices_for_targets(affected_participant_days(S))
  BY DEF Flag, ledgerVars, vars
<1>2. TypeOK /\ ReadingsTypeOK
  BY DEF InputsTypeOK
<1>3. PoolsAreInputs /\ PoolsAreInputs'
  BY <1>2, PoolsNow, PoolsNext
<1>4. ASSUME NEW i \in DOMAIN invoices, Live(i), i \notin impacts'
      PROVE  OwnInputs(i, priced[i])' = OwnInputs(i, CurrentInputs(i))'
  <2>1. i \notin impacts /\ i \notin _invoices_for_targets(affected_participant_days(S))
    BY <1>1, <1>4
  <2>2. OwnInputs(i, priced[i]) = OwnInputs(i, CurrentInputs(i))
    BY <1>4, <2>1 DEF OutdatedIsFlagged
  <2>3. PICK row : row = invoices[i]
    OBVIOUS
  <2>4. PoolOf(row.participant, row.period_start, row.period_end)'
        = PoolOf(row.participant, row.period_start, row.period_end)
    BY <1>1, <1>2, <1>4, <2>1, <2>3, PoolStays
  <2>5. OwnInputs(i, CurrentInputs(i))' = PoolOf(row.participant, row.period_start, row.period_end)'
    BY <1>1, <1>3, <2>3 DEF PoolsAreInputs, PoolOf
  <2>6. OwnInputs(i, priced[i])' = OwnInputs(i, priced[i])
    BY <1>1 DEF OwnInputs, Concerns, Day
  <2>. QED  BY <1>3, <2>2, <2>3, <2>4, <2>5, <2>6 DEF PoolsAreInputs
<1>. QED  BY <1>1, <1>4 DEF OutdatedIsFlagged, Live

LEMMA ReadingsSteps ==
  ASSUME StandInv, TypeOK', ReadingsTypeOK', Import \/ Delete \/ Repair
  PROVE  /\ StandInv' /\ SettleStep
         /\ OutdatedIsFlagged => OutdatedIsFlagged'
<1>1. InputsTypeOK /\ ReadingsTypeOK
  BY DEF StandInv, InputsTypeOK
<1>2. PICK S : OnlyChanges(S) /\ Flag(S)
  <2>1. CASE \E source \in {"csv", "sdatch"} : import_rejected(source) /\ Flag({})
    BY <2>1 DEF import_rejected, OnlyChanges
  <2>2. CASE \E file \in Files(Energies), over \in BOOLEAN :
                import_csv(file, over) /\ Flag(CsvChanged(file, over))
    BY <2>2, CsvChanges
  <2>3. CASE \E d \in Deliveries : import_sdatch(d) /\ Flag(SdatChanged(d))
    BY <1>1, <2>3, PlanChanges
  <2>4. CASE Delete
    BY <2>4, DeletionChanges DEF Delete
  <2>5. CASE Repair
    BY <2>5, RepairChanges DEF Repair
  <2>. QED  BY <2>1, <2>2, <2>3, <2>4, <2>5 DEF Import
<1>. QED  BY <1>1, <1>2, FlagStands, FlagStep


\* What concerns a participant is no matter of the ledger.
LEMMA OwnOfRow ==
  ASSUME NEW i, invoices'[i].participant = invoices[i].participant,
         priced'[i] = priced[i], CurrentInputs(i)' = CurrentInputs(i)
  PROVE  /\ OwnInputs(i, priced[i])' = OwnInputs(i, priced[i])
         /\ OwnInputs(i, CurrentInputs(i))' = OwnInputs(i, CurrentInputs(i))
<1>1. ASSUME NEW inputs, NEW inputs2, inputs2 = inputs
      PROVE  Restrict(inputs2, {s \in DOMAIN inputs2 : Concerns(s, invoices'[i].participant)})
             = Restrict(inputs, {s \in DOMAIN inputs : Concerns(s, invoices[i].participant)})
  BY <1>1
<1>. QED  BY <1>1 DEF OwnInputs, Concerns, Day

\* Rows that a step of the ledger keeps ask for the same readings.
LEMMA InputsOfRow ==
  ASSUME UNCHANGED readings, NEW i, NEW j,
         invoices'[j].participant = invoices[i].participant,
         invoices'[j].period_start = invoices[i].period_start,
         invoices'[j].period_end = invoices[i].period_end
  PROVE  CurrentInputs(j)' = CurrentInputs(i)
  BY DEF CurrentInputs, _gather_period_readings, PricedAt, Day

LEMMA GenerateStep ==
  ASSUME StandInv, TypeOK', ReadingsTypeOK', Generate
  PROVE  StandInv' /\ SettleStep /\ (OutdatedIsFlagged => OutdatedIsFlagged')
<1>0. InputsTypeOK /\ CancelledAsksNothing /\ TypeOK
  BY DEF StandInv, InputsTypeOK
<1>1. PICK p \in Participants, start \in Days, end \in Days, subtotal \in Subtotals :
         /\ generate_invoice(p, start, end, subtotal)
         /\ impacts' = impacts \ Doomed(p, start, end)
         /\ priced' = [i \in (DOMAIN priced \ Doomed(p, start, end)) \cup {invoice_counter} |->
                          IF i = invoice_counter
                          THEN _gather_period_readings(p, start, end) ELSE priced[i]]
         /\ UNCHANGED readingsVars
  BY DEF Generate
<1>2. PICK new, kept : new = invoice_counter /\ kept = DOMAIN invoices \ Doomed(p, start, end)
  OBVIOUS
<1>3. /\ DOMAIN invoices' = kept \cup {new}
      /\ \A i \in kept : i # new => invoices'[i] = invoices[i]
      /\ invoices'[new].participant = p /\ invoices'[new].period_start = start
      /\ invoices'[new].period_end = end
  BY <1>1, <1>2 DEF generate_invoice
<1>4. new \notin DOMAIN invoices
  BY <1>0, <1>2, ConstantsAssumption DEF TypeOK
<1>5. /\ DOMAIN priced = DOMAIN invoices /\ impacts \subseteq DOMAIN invoices
      /\ impacts' \subseteq kept
  BY <1>0, <1>1, <1>2 DEF InputsTypeOK
<1>6. /\ DOMAIN priced' = kept \cup {new}
      /\ \A i \in kept : priced'[i] = priced[i]
      /\ priced'[new] = _gather_period_readings(p, start, end)
  BY <1>1, <1>2, <1>4, <1>5
<1>7. InputsTypeOK'
  BY <1>3, <1>5, <1>6 DEF InputsTypeOK
<1>8. CancelledAsksNothing'
  BY <1>0, <1>1, <1>2, <1>3, <1>4, <1>5 DEF CancelledAsksNothing, Live
<1>9. readings' = readings
  BY <1>1 DEF readingsVars
<1>10. ASSUME OutdatedIsFlagged, NEW i \in kept
       PROVE  (Live(i) => i \in impacts \/ OwnInputs(i, priced[i]) = OwnInputs(i, CurrentInputs(i)))'
  <2>1. i \in DOMAIN invoices /\ i # new /\ invoices'[i] = invoices[i]
    BY <1>2, <1>3, <1>4
  <2>2. CurrentInputs(i)' = CurrentInputs(i)
    BY <1>9, <2>1, InputsOfRow
  <2>3. i \in impacts <=> i \in impacts'
    BY <1>1, <1>2
  <2>4. /\ OwnInputs(i, priced[i])' = OwnInputs(i, priced[i])
        /\ OwnInputs(i, CurrentInputs(i))' = OwnInputs(i, CurrentInputs(i))
    BY <1>6, <2>1, <2>2, OwnOfRow
  <2>. QED  BY <1>10, <2>1, <2>3, <2>4 DEF OutdatedIsFlagged, Live
<1>11. priced'[new] = CurrentInputs(new)'
  BY <1>3, <1>6, <1>9 DEF CurrentInputs, _gather_period_readings, PricedAt, Day
<1>12. OutdatedIsFlagged => OutdatedIsFlagged'
  <2>1. OwnInputs(new, priced[new])' = OwnInputs(new, CurrentInputs(new))'
    BY <1>11 DEF OwnInputs
  <2>. QED  BY <1>3, <1>10, <2>1 DEF OutdatedIsFlagged
<1>13. SettleStep
  BY <1>1, <1>2, <1>3, <1>4, <1>5 DEF SettleStep
<1>. QED  BY <1>7, <1>8, <1>12, <1>13 DEF StandInv

LEMMA CancelStep ==
  ASSUME StandInv, TypeOK', ReadingsTypeOK', Cancel
  PROVE  StandInv' /\ SettleStep /\ (OutdatedIsFlagged => OutdatedIsFlagged')
<1>0. InputsTypeOK /\ CancelledAsksNothing /\ TypeOK
  BY DEF StandInv, InputsTypeOK
<1>1. PICK i \in DOMAIN invoices :
         /\ cancel_invoice(i) \/ reverse_invoice(i)
         /\ impacts' = impacts \ {i} /\ priced' = priced /\ readings' = readings
  BY DEF Cancel, resolve_on_cancel, readingsVars
<1>2. invoices' = [invoices EXCEPT ![i].status = "cancelled"]
  BY <1>1 DEF cancel_invoice, reverse_invoice, Transition
<1>3. \A j \in DOMAIN invoices : invoices[j] \in Invoice
  BY <1>0 DEF TypeOK
<1>4. /\ DOMAIN invoices' = DOMAIN invoices
      /\ \A j \in DOMAIN invoices : j # i => invoices'[j] = invoices[j]
      /\ invoices'[i].status = "cancelled"
  BY <1>2, <1>3 DEF Invoice
<1>5. InputsTypeOK'
  BY <1>0, <1>1, <1>4 DEF InputsTypeOK
<1>6. CancelledAsksNothing'
  BY <1>0, <1>1, <1>4 DEF CancelledAsksNothing, Live, InputsTypeOK
<1>7. ASSUME OutdatedIsFlagged, NEW j \in DOMAIN invoices, Live(j)', j \notin impacts'
      PROVE  OwnInputs(j, priced[j])' = OwnInputs(j, CurrentInputs(j))'
  <2>1. j # i /\ Live(j) /\ invoices'[j] = invoices[j] /\ j \notin impacts
    BY <1>1, <1>4, <1>7 DEF Live
  <2>2. CurrentInputs(j)' = CurrentInputs(j)
    BY <1>1, <2>1, InputsOfRow
  <2>3. /\ OwnInputs(j, priced[j])' = OwnInputs(j, priced[j])
        /\ OwnInputs(j, CurrentInputs(j))' = OwnInputs(j, CurrentInputs(j))
    BY <1>1, <2>1, <2>2, OwnOfRow
  <2>. QED  BY <1>7, <2>1, <2>3 DEF OutdatedIsFlagged
<1>8. OutdatedIsFlagged => OutdatedIsFlagged'
  BY <1>1, <1>4, <1>7 DEF OutdatedIsFlagged
<1>9. SettleStep
  BY <1>1, <1>4 DEF SettleStep
<1>. QED  BY <1>5, <1>6, <1>8, <1>9 DEF StandInv

LEMMA DestroyStep ==
  ASSUME StandInv, TypeOK', ReadingsTypeOK', Destroy
  PROVE  StandInv' /\ SettleStep /\ (OutdatedIsFlagged => OutdatedIsFlagged')
<1>0. InputsTypeOK /\ CancelledAsksNothing /\ TypeOK
  BY DEF StandInv, InputsTypeOK
<1>1. /\ impacts' = impacts \cap DOMAIN invoices' /\ priced' = Restrict(priced, DOMAIN invoices')
      /\ readings' = readings
  BY DEF Destroy, readingsVars
<1>2. /\ DOMAIN invoices' \subseteq DOMAIN invoices
      /\ \A j \in DOMAIN invoices' : invoices'[j] = invoices[j]
  BY DEF Destroy, destroy_delete, Restrict
<1>3. DOMAIN priced' = DOMAIN invoices' /\ \A j \in DOMAIN invoices' : priced'[j] = priced[j]
  BY <1>0, <1>1, <1>2 DEF InputsTypeOK, Restrict
<1>4. InputsTypeOK'
  BY <1>1, <1>3 DEF InputsTypeOK
<1>5. CancelledAsksNothing'
  BY <1>0, <1>1, <1>2 DEF CancelledAsksNothing, Live
<1>6. ASSUME OutdatedIsFlagged, NEW j \in DOMAIN invoices', Live(j)', j \notin impacts'
      PROVE  OwnInputs(j, priced[j])' = OwnInputs(j, CurrentInputs(j))'
  <2>1. j \in DOMAIN invoices /\ Live(j) /\ invoices'[j] = invoices[j] /\ j \notin impacts
    BY <1>1, <1>2, <1>6 DEF Live
  <2>2. CurrentInputs(j)' = CurrentInputs(j)
    BY <1>1, <2>1, InputsOfRow
  <2>3. /\ OwnInputs(j, priced[j])' = OwnInputs(j, priced[j])
        /\ OwnInputs(j, CurrentInputs(j))' = OwnInputs(j, CurrentInputs(j))
    BY <1>3, <1>6, <2>1, <2>2, OwnOfRow
  <2>. QED  BY <1>6, <2>1, <2>3 DEF OutdatedIsFlagged
<1>7. OutdatedIsFlagged => OutdatedIsFlagged'
  BY <1>6 DEF OutdatedIsFlagged
<1>8. SettleStep
  BY <1>1 DEF SettleStep
<1>. QED  BY <1>4, <1>5, <1>7, <1>8 DEF StandInv

\* The other operations keep what an invoice is for, and none cancels it.
LEMMA RowsCarried ==
  ASSUME TypeOK, Carry
  PROVE  /\ DOMAIN invoices' = DOMAIN invoices
         /\ \A j \in DOMAIN invoices :
               /\ invoices'[j].participant = invoices[j].participant
               /\ invoices'[j].period_start = invoices[j].period_start
               /\ invoices'[j].period_end = invoices[j].period_end
               /\ Live(j)' <=> Live(j)
<1>0. invoices \in [DOMAIN invoices -> Invoice] /\ \A j \in DOMAIN invoices : invoices[j] \in Invoice
  BY DEF TypeOK
<1>1. ASSUME NEW i, NEW from, NEW to, Transition(i, from, to), "cancelled" \notin from,
             to # "cancelled"
      PROVE  /\ DOMAIN invoices' = DOMAIN invoices
             /\ \A j \in DOMAIN invoices :
                   /\ invoices'[j].participant = invoices[j].participant
                   /\ invoices'[j].period_start = invoices[j].period_start
                   /\ invoices'[j].period_end = invoices[j].period_end
                   /\ Live(j)' <=> Live(j)
  BY <1>0, <1>1 DEF Transition, Status, Live, Invoice
<1>2. CASE UNCHANGED invoices
  BY <1>2 DEF Live
<1>3. CASE \E i \in DOMAIN invoices : approve_invoice(i)
  <2>1. PICK i \in DOMAIN invoices : approve_invoice(i)
    BY <1>3
  <2>2. /\ invoices[i].status = "draft"
        /\ invoices' = [invoices EXCEPT ![i].status = "approved", ![i].approved = TRUE]
    BY <2>1 DEF approve_invoice, Status
  <2>3. DOMAIN invoices' = DOMAIN invoices
        /\ \A j \in DOMAIN invoices : j # i => invoices'[j] = invoices[j]
    BY <2>2
  <2>4. invoices'[i] = [invoices[i] EXCEPT !.status = "approved", !.approved = TRUE]
    BY <2>2, <1>0
  <2>5. /\ invoices'[i].participant = invoices[i].participant
        /\ invoices'[i].period_start = invoices[i].period_start
        /\ invoices'[i].period_end = invoices[i].period_end
        /\ invoices'[i].status = "approved"
    BY <1>0, <2>4 DEF Invoice
  <2>. QED  BY <2>2, <2>3, <2>5 DEF Live
<1>4. CASE \E i \in DOMAIN invoices : mark_invoice_sent(i) \/ mark_invoice_paid(i)
  BY <1>1, <1>4 DEF mark_invoice_sent, mark_invoice_paid
<1>5. CASE \E i \in DOMAIN invoices, amount \in PaymentAmounts : record_payment(i, amount)
  BY <1>1, <1>5 DEF record_payment
<1>6. CASE \E p \in DOMAIN payments : delete_payment(p)
  <2>1. PICK i, to : Transition(i, {"sent", "paid"}, to) /\ (to = "sent" \/ to = Status(i))
    BY <1>6 DEF delete_payment
  <2>2. to # "cancelled"
    BY <2>1 DEF Transition
  <2>. QED  BY <1>1, <2>1, <2>2
<1>7. CASE \/ \E i \in DOMAIN invoices :
                 \/ \E amount \in CreditAmounts : adjust_invoice(i, amount)
                 \/ \E admin \in BOOLEAN : destroy_check(i, admin)
           \/ \E c \in DOMAIN credits : refund_credit(c)
  BY <1>2, <1>7 DEF adjust_invoice, destroy_check, refund_credit
<1>. QED  BY <1>3, <1>4, <1>5, <1>6, <1>7 DEF Carry

LEMMA CarryStep ==
  ASSUME StandInv, TypeOK', ReadingsTypeOK', Carry
  PROVE  StandInv' /\ SettleStep /\ (OutdatedIsFlagged => OutdatedIsFlagged')
<1>0. InputsTypeOK /\ CancelledAsksNothing /\ TypeOK
  BY DEF StandInv, InputsTypeOK
<1>1. impacts' = impacts /\ priced' = priced /\ readings' = readings
  BY DEF Carry, readingsVars
<1>2. DOMAIN invoices' = DOMAIN invoices /\ \A j \in DOMAIN invoices : Live(j)' <=> Live(j)
  BY <1>0, RowsCarried
<1>3. \A j \in DOMAIN invoices : CurrentInputs(j)' = CurrentInputs(j)
  BY <1>0, <1>1, RowsCarried, InputsOfRow
<1>6. \A j \in DOMAIN invoices :
         /\ OwnInputs(j, priced[j])' = OwnInputs(j, priced[j])
         /\ OwnInputs(j, CurrentInputs(j))' = OwnInputs(j, CurrentInputs(j))
  BY <1>0, <1>1, <1>3, RowsCarried, OwnOfRow
<1>4. InputsTypeOK' /\ CancelledAsksNothing' /\ (OutdatedIsFlagged => OutdatedIsFlagged')
  BY <1>0, <1>1, <1>2, <1>6 DEF InputsTypeOK, CancelledAsksNothing, OutdatedIsFlagged
<1>5. SettleStep
  BY <1>1 DEF SettleStep
<1>. QED  BY <1>4, <1>5 DEF StandInv

-----------------------------------------------------------------------------
(* The theorems *)

LEMMA FlagsInit == InputsInit => FlagsAreRight
<1> SUFFICES ASSUME InputsInit PROVE FlagsAreRight
  OBVIOUS
<1>1. TypeOK
  BY ConstantsAssumption DEF InputsInit, Init, TypeOK
<1>2. ReadingsTypeOK
  BY ReadingsTypeInit DEF InputsInit
<1>3. DOMAIN invoices = {} /\ DOMAIN priced = {} /\ impacts = {}
  BY DEF InputsInit, Init
<1>. QED  BY <1>1, <1>2, <1>3
          DEF FlagsAreRight, InputsTypeOK, OutdatedIsFlagged, CancelledAsksNothing

LEMMA InputsStep ==
  ASSUME StandInv, [InputsNext]_inputsVars
  PROVE  /\ StandInv' /\ SettleStep
         /\ OutdatedIsFlagged => OutdatedIsFlagged'
<1>1. CASE UNCHANGED inputsVars
  <2>1. UNCHANGED vars /\ UNCHANGED readingsVars /\ UNCHANGED <<invoices, readings, impacts, priced>>
    BY <1>1 DEF inputsVars, ledgerVars, vars, readingsVars
  <2>2. InputsTypeOK'
    BY <2>1, TypeStep, ReadingsTypeStep DEF StandInv, InputsTypeOK
  <2>3. \A i : CurrentInputs(i)' = CurrentInputs(i)
    BY <2>1, InputsOfRow
  <2>4. \A i : /\ OwnInputs(i, priced[i])' = OwnInputs(i, priced[i])
               /\ OwnInputs(i, CurrentInputs(i))' = OwnInputs(i, CurrentInputs(i))
    BY <2>1, <2>3, OwnOfRow
  <2>. QED  BY <2>1, <2>2, <2>4 DEF StandInv, OutdatedIsFlagged, CancelledAsksNothing, Live, SettleStep
<1>2. CASE InputsNext
  <2>1. TypeOK' /\ ReadingsTypeOK'
    BY <1>2, LedgerStep, TypeStep, ReadingsTypesKept DEF StandInv, InputsTypeOK
  <2>. QED  BY <1>2, <2>1, ReadingsSteps, GenerateStep, CancelStep, DestroyStep, CarryStep
            DEF InputsNext
<1>. QED  BY <1>1, <1>2

(* No invoice is silently outdated: one that stands and was not priced from *)
(* the readings as they are now carries an open impact, whatever imports,   *)
(* deletions, repairs, regenerations and corrections came between           *)
(* (flag_import_impacts, flag_deleted_slot_impacts,                         *)
(* flag_reanchored_slot_impacts), and a cancelled invoice carries none      *)
(* (resolve_on_cancel).  Assignments may outlast memberships; only the      *)
(* other meters of such days, which set the split, are left out, and their  *)
(* changes flag members alone.                                              *)
THEOREM NothingSilentlyOutdated == InputsSpec => []FlagsAreRight
<1>1. FlagsAreRight /\ [InputsNext]_inputsVars => FlagsAreRight'
  BY InputsStep DEF FlagsAreRight, StandInv
<1>. QED  BY <1>1, FlagsInit, PTL DEF InputsSpec

(* An open impact is settled only with its invoice, replaced, cancelled or  *)
(* deleted in that step (settle_regeneration, resolve_on_cancel), whoever   *)
(* the meters are assigned to.                                              *)
THEOREM ImpactsAreSettledWithInvoices == InputsSpec => SettledWithTheInvoice
<1>1. InputsInit => StandInv
  BY FlagsInit DEF FlagsAreRight, StandInv
<1>2. StandInv /\ [InputsNext]_inputsVars => StandInv' /\ [SettleStep]_inputsVars
  BY InputsStep
<1>. QED  BY <1>1, <1>2, PTL DEF InputsSpec, SettledWithTheInvoice
=============================================================================
