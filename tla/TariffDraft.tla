----------------------------- MODULE TariffDraft ----------------------------
(***************************************************************************)
(* The forms of a tariff and of its price bands: what they show             *)
(* (TariffForm.tsx, TariffBandFields.tsx), what their schemas demand and     *)
(* what is sent (useTariffForms.ts), against what the backend refuses       *)
(* (tariffs/serializers.py, tariffs/models.py); and the bands drafted with a *)
(* new tariff beside the server's verdict on them (TariffDraftBands.tsx).   *)
(* A text is blank, a number or something else; blank is sent as null. A    *)
(* mask of months or weekdays is a set, {} for no restriction. Name,        *)
(* category, dates and notes are sent as typed and left out, and so are the *)
(* range and the precision of a number; what depends on the other tariffs   *)
(* of the community (overlaps, the identity of a series) is the backend's   *)
(* alone.                                                                   *)
(***************************************************************************)
EXTENDS Integers, Sequences, SequencesExt

blank == ""
numbers == {"1", "2"}
texts == {blank, "1", "x"}
isNaN(text) == text \notin numbers \cup {blank}

EnergyBased == {"energy", "percentage_of_energy"}
SharedFees == {"shared_fee"}
BillingModes == EnergyBased \cup SharedFees \cup {"fee"}

-----------------------------------------------------------------------------
(* Price series *)

\* what a series serves prices grid supply, feed-in, or nothing (storage refunds)
ENERGY_TYPE_BY_DYNAMIC_TARIFF_TYPE == [grid |-> "grid", feed_in |-> "feed_in", refund |-> blank]
\* one of each type, and one of grid prices by the second version of the
\* protocol that does not name its product
unnamed == "unnamed"
PriceSeries == DOMAIN ENERGY_TYPE_BY_DYNAMIC_TARIFF_TYPE \cup {unnamed}
tariff_type(source) == IF source = unnamed THEN "grid" ELSE source
impliedEnergyType(source) == ENERGY_TYPE_BY_DYNAMIC_TARIFF_TYPE[tariff_type(source)]

dynamicSourceOptions(locked) ==
    {s \in PriceSeries : impliedEnergyType(s) # blank /\ locked \in {blank, impliedEnergyType(s)}}

-----------------------------------------------------------------------------
(* A band *)

bandFieldsShown(band) ==
    {"type", "time_from", "time_to", "months", "weekdays"}
    \cup (IF band.type = "band" THEN {"label"} ELSE {})
    \cup (IF band.mode = "percentage_of_energy" THEN {"percentage"} ELSE {"price"})

refineBand(band) ==
    (IF band.mode = "percentage_of_energy" /\ band.percentage = blank THEN {"percentage"} ELSE {})
    \cup (IF band.mode # "percentage_of_energy" /\ band.price = blank THEN {"price"} ELSE {})
    \cup (IF band.type # "flat" /\ (band.time_from = blank) # (band.time_to = blank) THEN {"times"} ELSE {})

\* mutant: price and percentage are sent as they stand
bandAsTyped(band) ==
    [type |-> band.type, label |-> IF band.type = "band" THEN band.label ELSE blank,
     price |-> band.price, percentage |-> band.percentage,
     time_from |-> band.time_from, time_to |-> band.time_to,
     months |-> band.months, weekdays |-> band.weekdays]

mapBandDraftToInput(band) ==
    LET isPercentage == band.mode = "percentage_of_energy"
    IN [type |-> band.type, label |-> IF band.type = "band" THEN band.label ELSE blank,
        price |-> IF isPercentage THEN blank ELSE band.price,
        percentage |-> IF isPercentage THEN band.percentage ELSE blank,
        time_from |-> band.time_from, time_to |-> band.time_to,
        months |-> band.months, weekdays |-> band.weekdays]

shared(mask, other) == mask = {} \/ other = {} \/ mask \cap other # {}
has_window(band) == band.time_from # blank /\ band.time_to # blank
is_catch_all(band) == band.type # "flat" /\ ~has_window(band)

_reject_flat_beside_timed_bands(band, siblings) ==
    IF \E s \in siblings : (s.type = "flat") # (band.type = "flat") /\ shared(band.months, s.months)
    THEN {"flat_timed_conflict"} ELSE {}

_reject_ambiguous_catch_all(band, siblings) ==
    CASE band.type = "flat" -> {}
      [] (band.time_from = blank) # (band.time_to = blank) -> {"band_time_pair"}
      [] OTHER -> IF is_catch_all(band) /\ \E s \in siblings :
                        is_catch_all(s) /\ shared(band.months, s.months) /\ shared(band.weekdays, s.weekdays)
                  THEN {"catch_all_conflict"} ELSE {}

\* of a band of a static tariff of this mode, beside those it already has
validate_parent(input, mode, siblings) ==
    (IF mode \notin EnergyBased THEN {"bands_energy_only"} ELSE {})
    \cup _reject_flat_beside_timed_bands(input, siblings)
    \cup _reject_ambiguous_catch_all(input, siblings)
    \cup (IF mode = "energy" /\ input.price = blank THEN {"price_required"} ELSE {})
    \cup (IF mode = "energy" /\ input.percentage # blank THEN {"percentage_mode_only"} ELSE {})
    \cup (IF mode = "percentage_of_energy" /\ input.percentage = blank THEN {"percentage_required"} ELSE {})
    \cup (IF mode = "percentage_of_energy" /\ input.price # blank THEN {"percentage_not_price"} ELSE {})

-----------------------------------------------------------------------------
(* A tariff. What the backend has stored of a version: its series, whether it *)
(* has bands and whether an invoice was priced by it                          *)

newTariff == [source |-> blank, hasPeriods |-> FALSE, billed |-> FALSE]

\* the identity of a stored version is not shown
tariffFieldsShown(form) ==
    LET takesInitialBands == form.is_new /\ form.mode = "energy" /\ form.source = blank
    IN (IF form.is_new THEN {"mode"} ELSE {})
       \cup (IF form.is_new /\ form.mode \in EnergyBased THEN {"energy_type"} ELSE {})
       \cup (IF form.mode = "energy" THEN {"source"} ELSE {})
       \cup (IF form.mode = "energy" /\ form.energy_type = "feed_in" /\ form.source # blank
             THEN {"minimum"} ELSE {})
       \cup (IF form.is_new /\ form.mode = "percentage_of_energy" THEN {"initial_percentage"} ELSE {})
       \cup (IF form.mode \notin EnergyBased THEN {"fixed_price"} ELSE {})
       \cup (IF form.mode \in SharedFees THEN {"split_key"} ELSE {})
       \cup (IF takesInitialBands THEN {"initial_periods"} ELSE {})

tariffFormSchema(form) ==
    (IF isNaN(form.minimum) THEN {"minimum"} ELSE {})
    \cup (IF form.mode = "percentage_of_energy" /\ form.is_new /\ form.initial_percentage \notin numbers
          THEN {"initial_percentage"} ELSE {})
    \cup (IF form.mode \notin EnergyBased /\ form.fixed_price \notin numbers THEN {"fixed_price"} ELSE {})

\* picking a series decides the energy type of a new tariff
pickSource(form, source) ==
    [form EXCEPT !.source = source,
                 !.energy_type = IF form.is_new /\ source # blank THEN impliedEnergyType(source) ELSE @]

\* initial_percentage and initial_periods: <<>> when they are not sent
tariffInput(form, minimum) ==
    LET isEnergyBased == form.mode \in EnergyBased
    IN [mode |-> form.mode,
        energy_type |-> IF isEnergyBased THEN form.energy_type ELSE blank,
        fixed_price |-> IF isEnergyBased THEN blank ELSE form.fixed_price,
        initial_percentage |-> IF form.is_new /\ form.mode = "percentage_of_energy"
                               THEN <<form.initial_percentage>> ELSE <<>>,
        initial_periods |-> IF form.is_new /\ form.mode = "energy" /\ form.source = blank
                            THEN [k \in DOMAIN form.initial_periods |-> mapBandDraftToInput(form.initial_periods[k])]
                            ELSE <<>>,
        split_key |-> IF form.mode \in SharedFees THEN form.split_key ELSE "equal",
        source |-> IF form.mode = "energy" THEN form.source ELSE blank,
        minimum |-> minimum]

\* a minimum applies to a feed-in tariff with a series
mapTariffFormValuesToInput(form) ==
    tariffInput(form, IF form.mode = "energy" /\ form.energy_type = "feed_in" /\ form.source # blank
                      THEN form.minimum ELSE blank)

\* a series can price what it serves, and only as a price per kWh
_dynamic_source_errors(input) ==
    CASE input.source = blank -> {}
      [] input.mode # "energy" -> {"source_energy_only"}
      [] input.source = unnamed -> {"product_required"}
      [] impliedEnergyType(input.source) = blank -> {"storage_refund"}
      [] impliedEnergyType(input.source) # input.energy_type -> {"source_type_mismatch"}
      [] OTHER -> {}

\* each band drafted with the tariff, beside those before it
_validate_initial_periods(input) ==
    LET bands == input.initial_periods
    IN UNION {validate_parent(bands[k], input.mode, {bands[j] : j \in 1..(k - 1)}) : k \in DOMAIN bands}

\* the serializer's and the model's rules
tariffRefusals(input, version, isNew) ==
    (IF input.source # blank /\ version.hasPeriods THEN {"remove_bands_for_source"} ELSE {})
    \cup (IF version.billed /\ version.source # blank /\ input.source # version.source
          THEN {"billed_source_change"} ELSE {})
    \cup (IF input.initial_periods # <<>> /\ ~isNew THEN {"edit_existing_bands"} ELSE {})
    \cup (IF input.initial_periods # <<>> /\ (input.mode # "energy" \/ input.source # blank)
          THEN {"initial_bands"} ELSE {})
    \cup (IF input.initial_percentage # <<>> /\ ~isNew THEN {"edit_existing_bands"} ELSE {})
    \cup (IF input.initial_percentage # <<>> /\ input.mode # "percentage_of_energy"
          THEN {"percentage_mode_only"} ELSE {})
    \cup (IF input.initial_percentage # <<>> /\ input.initial_percentage[1] \notin numbers THEN {"null"} ELSE {})
    \cup (IF input.mode \in EnergyBased /\ input.energy_type = blank THEN {"energy_type_required"} ELSE {})
    \cup (IF input.mode \notin EnergyBased /\ input.fixed_price \notin numbers THEN {"fixed_price_required"} ELSE {})
    \cup _dynamic_source_errors(input)
    \cup _validate_initial_periods(input)

-----------------------------------------------------------------------------
(* The drafted bands and the verdict on them                                 *)
(* draft: bands, the errors by position (a verdict not given is empty), and  *)
(* the position that is edited (0: none, beyond the last: a new band)        *)

\* a coded error that names a band's field goes to its row, the others remain
splitTariffBandErrors(answer) ==
    LET rows == [k \in DOMAIN answer.items |-> {e \in answer.coded : e.band = k /\ e.field \in answer.items[k]}]
    IN [rows |-> rows, rest |-> answer.coded \ UNION {rows[k] : k \in DOMAIN rows}]

openBand(draft, k) == [draft EXCEPT !.editing = k]

keepBand(draft, band) ==
    LET k == draft.editing
    IN IF k \in DOMAIN draft.bands
       THEN [bands |-> [draft.bands EXCEPT ![k] = band], editing |-> 0,
             errors |-> [j \in DOMAIN draft.errors |-> IF j = k THEN {} ELSE draft.errors[j]]]
       ELSE [draft EXCEPT !.bands = Append(@, band), !.editing = 0]

removeBand(draft, k) ==
    [bands |-> RemoveAt(draft.bands, k), editing |-> 0,
     errors |-> IF k \in DOMAIN draft.errors THEN RemoveAt(draft.errors, k) ELSE draft.errors]

\* every row has its edit and delete, nothing open a band to add, an editor its keep and cancel
draftEdits(draft, typed) ==
    {openBand(draft, k) : k \in DOMAIN draft.bands}
    \cup {removeBand(draft, k) : k \in DOMAIN draft.bands}
    \cup IF draft.editing = 0 THEN {openBand(draft, Len(draft.bands) + 1)}
         ELSE {keepBand(draft, typed), openBand(draft, 0)}

-----------------------------------------------------------------------------
(* Forms *)

masks == {{}, {1}, {2}}
typedBands ==
    [mode : EnergyBased, type : {"flat", "high", "band"}, label : {blank, "x"}, price : {blank, "1"},
     percentage : {blank, "1"}, time_from : {blank, "1"}, time_to : {blank, "2"},
     months : {{}, {1}}, weekdays : {{}}]

\* the editor keeps what its schema accepts
draftedBands ==
    {b \in [mode : {"energy"}, type : {"flat", "high"}, label : {"x"}, price : {"1"}, percentage : {"2"},
            time_from : {blank, "1"}, time_to : {blank, "2"}, months : masks, weekdays : masks] :
        refineBand(b) = {}}

draftLists == {<<>>, <<[mode |-> "energy", type |-> "high", label |-> "x", price |-> "1", percentage |-> "2",
                        time_from |-> "1", time_to |-> "2", months |-> {}, weekdays |-> {}]>>}

someForms(isNew, sources) ==
    [is_new : {isNew}, mode : BillingModes, energy_type : {"local", "grid", "feed_in"}, fixed_price : texts,
     initial_percentage : IF isNew THEN texts ELSE {blank},
     initial_periods : IF isNew THEN draftLists ELSE {<<>>},
     split_key : {"equal", "weight"}, source : sources, minimum : texts]

newForms == someForms(TRUE, {blank} \cup dynamicSourceOptions(blank))

storedVersions ==
    {v \in [source : {blank} \cup dynamicSourceOptions(blank), hasPeriods : BOOLEAN, billed : BOOLEAN] :
        v.source # blank => ~v.hasPeriods}

\* a stored version's form: the picker offers what its energy type allows,
\* and keeps its value while it is disabled
versionForms(version) ==
    {f \in someForms(FALSE, {blank} \cup dynamicSourceOptions(blank)) :
        /\ version.source # blank => /\ f.mode = "energy"
                                     /\ version.source \in dynamicSourceOptions(f.energy_type)
        /\ f.mode # "energy" \/ version.hasPeriods => f.source = version.source
        /\ f.source \in {version.source, blank} \cup dynamicSourceOptions(f.energy_type)}

-----------------------------------------------------------------------------
(* Properties *)

hiddenIsNotSent ==
    /\ \A form \in {f \in newForms : f.minimum = blank} : \A other \in
            {[form EXCEPT !.minimum = "2"], [form EXCEPT !.fixed_price = "2"],
             [form EXCEPT !.initial_percentage = "2"], [form EXCEPT !.split_key = "weight"],
             [form EXCEPT !.source = "feed_in"], [form EXCEPT !.energy_type = "grid"],
             [form EXCEPT !.initial_periods = <<>>]} :
            (\A field \in tariffFieldsShown(form) : other[field] = form[field])
                => mapTariffFormValuesToInput(other) = mapTariffFormValuesToInput(form)
    /\ \A band \in typedBands : \A other \in
            {[band EXCEPT !.label = blank], [band EXCEPT !.price = "2"], [band EXCEPT !.percentage = "2"]} :
            (\A field \in bandFieldsShown(band) : other[field] = band[field])
                => mapBandDraftToInput(other) = mapBandDraftToInput(band)

\* What a form does not show it does not send: a value left behind by another
\* billing mode, another series or another type of band never reaches the
\* server, whatever was typed before.
HiddenIsNotSent == hiddenIsNotSent

\* a static energy tariff drafted with these bands
withBands(bands) ==
    [is_new |-> TRUE, mode |-> "energy", energy_type |-> "local", fixed_price |-> blank,
     initial_percentage |-> blank, initial_periods |-> bands, split_key |-> "equal",
     source |-> blank, minimum |-> blank]

answerTo(form) == tariffRefusals(mapTariffFormValuesToInput(form), newTariff, TRUE)

schemaForeseesTheServer ==
    /\ \A form \in newForms : tariffFormSchema(form) = {} =>
            /\ answerTo(form) \subseteq {"source_type_mismatch", "product_required"}
            /\ "product_required" \in answerTo(form) => form.source = unnamed
    /\ \A form \in newForms : \A s \in dynamicSourceOptions(blank) :
            form.mode = "energy" => "source_type_mismatch" \notin answerTo(pickSource(form, s))
    /\ \A version \in storedVersions : \A form \in versionForms(version) : tariffFormSchema(form) = {} =>
            tariffRefusals(mapTariffFormValuesToInput(form), version, FALSE)
                \subseteq {"billed_source_change"} \cup (IF form.source = unnamed THEN {"product_required"} ELSE {})
    /\ \A band \in typedBands : refineBand(band) = {} =>
            validate_parent(mapBandDraftToInput(band), band.mode, {}) = {}
    /\ \A a, b \in draftedBands :
            /\ answerTo(withBands(<<a, b>>)) \subseteq {"flat_timed_conflict", "catch_all_conflict"}
            /\ answerTo(withBands(<<a, b>>)) = answerTo(withBands(<<b, a>>))
            /\ a.months = {1} /\ b.months = {2} => answerTo(withBands(<<a, b>>)) = {}

\* What the schemas accept the backend accepts, with the exceptions named
\* here, which the forms leave to it: of a new tariff it can refuse an energy
\* type that was changed behind the series, and a series that does not name
\* its product; of a stored version that, and another series for one that is
\* already billed; of two bands drafted together a flat one beside a timed one
\* and two without a time window, in either order, and only when they share
\* their months (serializers.py, test_initial_periods.py).
SchemaForeseesTheServer == schemaForeseesTheServer

verdictFollowsItsBand ==
    LET sent    == <<"first", "second">>
        answers == {a \in [items : [1..2 -> SUBSET {"times"}],
                           coded : SUBSET [band : 0..2, field : {"times", "name"}]] :
                        a.coded # {}}
        told(a)  == splitTariffBandErrors(a)
        start(a) == [bands |-> sent, errors |-> told(a).rows, editing |-> 0]
        more(S)  == S \cup UNION {draftEdits(d, "typed") : d \in S}
        about(d, a) == \A k \in DOMAIN d.bands \cap DOMAIN d.errors : \A e \in d.errors[k] :
                            e \in a.coded /\ sent[e.band] = d.bands[k]
    IN \A a \in answers :
          /\ told(a).rest \cup UNION Range(told(a).rows) = a.coded
          /\ \A d \in more(more(more(more({start(a)})))) : about(d, a)

\* What the server refused is told once, at the band it was said about and for
\* as long as that band stands as it was sent, while bands are added, changed
\* and removed around it; the rest is told above the form.
VerdictFollowsItsBand == verdictFollowsItsBand
=============================================================================
