---------------------------- MODULE TariffBands -----------------------------
(***************************************************************************)
(* When a price band applies (features/tariffs/recurrence.ts) and which     *)
(* hours of the year no band of a version prices (bandCoverage.ts), against *)
(* the rule the invoices are priced by (tariffs/periods.py, resolve_band).  *)
(* A mask is the set of its months or weekdays, {} for no restriction; a    *)
(* band without a window has none for its ends.                             *)
(***************************************************************************)
EXTENDS Integers, Sequences, SequencesExt, FiniteSets

CONSTANTS MonthsOfYear, DaysOfWeek,
          DayLength   \* the times of day 0..DayLength

ASSUME BandAssumption ==
    MonthsOfYear \in Nat \ {0} /\ DaysOfWeek \in Nat \ {0} /\ DayLength \in Nat \ {0}

none == -1
allMonths == 1..MonthsOfYear
allWeekdays == 0..(DaysOfWeek - 1)

-----------------------------------------------------------------------------
(* Masks *)

\* a mask is stored in order
parseMonths(mask) == SelectSeq([m \in allMonths |-> m], LAMBDA m : m \in mask)

\* the run that this month continues, or one of its own
addMonth(runs, month) ==
    IF runs # <<>> /\ Last(runs)[2] + 1 = month
    THEN Front(runs) \o << <<Last(runs)[1], month>> >> ELSE Append(runs, <<month, month>>)

\* December and January are adjacent
monthRanges(mask) ==
    LET runs == FoldLeft(addMonth, <<>>, parseMonths(mask))
        wraps == Len(runs) > 1 /\ runs[1][1] = 1 /\ Last(runs)[2] = MonthsOfYear
    IN IF mask = {} \/ mask = allMonths THEN <<>>
       ELSE IF wraps THEN SubSeq(runs, 2, Len(runs) - 1) \o << <<Last(runs)[1], runs[1][2]>> >>
       ELSE runs

\* the chips that are lit, and what a new selection is stored as: nothing if refused
selectedRecurrence(mask, all) == IF mask = {} THEN all ELSE mask
recurrenceValue(next, all) ==
    IF next = {} THEN {} ELSE IF Cardinality(next) >= Cardinality(all) THEN {{}} ELSE {next}

-----------------------------------------------------------------------------
(* Coverage *)

typeRank == [band |-> 0, flat |-> 1, high |-> 2, low |-> 3]
\* by type, start and id; a band without a start first
precedes(a, b) ==
    \/ typeRank[a.type] < typeRank[b.type]
    \/ typeRank[a.type] = typeRank[b.type] /\ a.start < b.start
    \/ typeRank[a.type] = typeRank[b.type] /\ a.start = b.start /\ a.id < b.id
orderedBands(bands) == SetToSortSeq(bands, precedes)

recurs(mask, value) == mask = {} \/ value \in mask
inSeason(bands, month) == SelectSeq(bands, LAMBDA b : recurs(b.months, month))
hasWindow(b) == b.start # none /\ b.end # none
inWindow(time, start, end) ==
    IF start < end THEN start <= time /\ time < end ELSE time >= start \/ time < end

catchAlls(season, day) ==
    {k \in DOMAIN season : season[k].type # "flat" /\ ~hasWindow(season[k]) /\ recurs(season[k].days, day)}
matching(season, day, time) ==
    {k \in DOMAIN season :
        \/ season[k].type = "flat"
        \/ /\ hasWindow(season[k]) /\ recurs(season[k].days, day)
           /\ inWindow(time, season[k].start, season[k].end)}

\* between two edges the set of matching bands does not change
coverageEdges(bands) ==
    LET ends == {0, DayLength} \cup {b.start : b \in bands} \cup {b.end : b \in bands}
    IN SelectSeq([i \in 1..(DayLength + 1) |-> i - 1], LAMBDA time : time \in ends)

addStretch(gaps, stretch) ==
    IF stretch.weekdays = {} THEN gaps
    ELSE IF gaps # <<>> /\ Last(gaps).end = stretch.start /\ Last(gaps).weekdays = stretch.weekdays
    THEN Front(gaps) \o <<[Last(gaps) EXCEPT !.end = stretch.end]>>
    ELSE Append(gaps, stretch)

\* reachable: the <<month, weekday>> pairs the version meets
monthGaps(bands, reachable, month) ==
    LET season == inSeason(orderedBands(bands), month)
        edges  == coverageEdges(bands)
        open(time) == {day \in allWeekdays : /\ <<month, day>> \in reachable
                                             /\ matching(season, day, time) = {}
                                             /\ catchAlls(season, day) = {}}
    IN FoldLeft(addStretch, <<>>,
                [i \in 1..(Len(edges) - 1) |->
                    [weekdays |-> open(edges[i]), start |-> edges[i], end |-> edges[i + 1]]])

bandCoverage(bands, reachable) ==
    LET gaps == [m \in allMonths |-> monthGaps(bands, reachable, m)]
        fallback(m) == Head(inSeason(orderedBands(bands), m) \o orderedBands(bands))
        found == {m \in allMonths : gaps[m] # <<>>}
        edges == coverageEdges(bands)
    IN [uncovered |-> found # {},
        overlaps  |-> \E p \in reachable, i \in 1..(Len(edges) - 1) :
                         LET season == inSeason(orderedBands(bands), p[1])
                         IN \/ Cardinality(matching(season, p[2], edges[i])) > 1
                            \/ Cardinality(catchAlls(season, p[2])) > 1,
        gaps      |-> {[gap |-> g, months |-> {m \in found : g \in ToSet(gaps[m])}] :
                          g \in UNION {ToSet(gaps[m]) : m \in found}},
        fallbacks |-> {[band |-> b, months |-> {m \in found : fallback(m) = b}] :
                          b \in {fallback(m) : m \in found}}]

\* the rule of the invoices: how an hour is priced, and by which band
resolve_band(bands, month, day, time) ==
    LET periods == orderedBands(bands)
        season  == inSeason(periods, month)
        prices(b) == \/ b.type = "flat"
                     \/ hasWindow(b) /\ recurs(b.days, day) /\ inWindow(time, b.start, b.end)
        rest(b)   == b.type # "flat" /\ ~hasWindow(b) /\ recurs(b.days, day)
        own       == SelectSeq(season, prices)
        others    == SelectSeq(season, rest)
    IN CASE own # <<>>    -> [by |-> "own", band |-> Head(own)]
         [] others # <<>> -> [by |-> "rest", band |-> Head(others)]
         [] OTHER         -> [by |-> "fallback", band |-> Head(season \o periods)]

-----------------------------------------------------------------------------
(* Bounds: every mask of months; versions of two bands of every type, with   *)
(* no window, one within the day, one past midnight and one of a whole day.  *)

windows == {<<none, none>>, <<0, 1>>, <<1, 0>>, <<2, 1>>, <<1, 1>>}
coverageBands(id) ==
    {[id |-> id, type |-> t, start |-> w[1], end |-> w[2], months |-> m, days |-> d] :
        t \in {"flat", "high", "low"}, w \in windows, m \in {{}, {1}, {2, MonthsOfYear}}, d \in {{}, {0}}}
someBands ==
    {b \in coverageBands(1) : b.type = "flat" => b.start = none /\ b.days = {}}
otherBands == {[b EXCEPT !.id = 2] : b \in someBands}
bandSets == {{b} : b \in someBands} \cup {{a, b} : a \in someBands, b \in otherBands}
everyPair == allMonths \X allWeekdays

\* the hours on which the warning and the invoice disagree
misjudged(bands) ==
    LET coverage == bandCoverage(bands, everyPair)
    IN {x \in allMonths \X allWeekdays \X (0..(DayLength - 1)) :
          LET priced == resolve_band(bands, x[1], x[2], x[3])
              warned == \E g \in coverage.gaps :
                            /\ x[1] \in g.months /\ x[2] \in g.gap.weekdays
                            /\ g.gap.start <= x[3] /\ x[3] < g.gap.end
          IN \/ warned # (priced.by = "fallback")
             \/ warned /\ ~ \E f \in coverage.fallbacks : f.band = priced.band /\ x[1] \in f.months}

(* The hours the tariff screen warns of are exactly those the invoice prices *)
(* with a band that is not meant for them, and the band it names is the one  *)
(* the invoice takes: over seasons, weekdays, windows past midnight and      *)
(* bands without a window (bandCoverage against resolve_band).               *)
gapsAgree == \A bands \in bandSets : misjudged(bands) = {}
GapsAreUnpriced == gapsAgree

rangeMonths(r) == IF r[1] <= r[2] THEN r[1]..r[2] ELSE (r[1]..MonthsOfYear) \cup (1..r[2])
follows(a, b) == b = (a % MonthsOfYear) + 1

(* A season reads back as the months it was stored for, in as few ranges as  *)
(* there are seasons, a winter through the turn of the year being one; and   *)
(* the chips store what they show: all lit means no restriction, turning one *)
(* off and on again changes nothing (monthRanges, selectedRecurrence,        *)
(* recurrenceValue).                                                         *)
seasonsReadBack ==
    \A mask \in SUBSET allMonths :
        LET ranges == monthRanges(mask)
            lit    == selectedRecurrence(mask, allMonths)
        IN /\ mask \notin {{}, allMonths} =>
                 /\ UNION {rangeMonths(ranges[k]) : k \in DOMAIN ranges} = mask
                 /\ \A j, k \in DOMAIN ranges : ~follows(ranges[j][2], ranges[k][1])
           /\ \A month \in lit : \A kept \in recurrenceValue(lit \ {month}, allMonths) :
                 /\ selectedRecurrence(kept, allMonths) = lit \ {month}
                 /\ recurrenceValue(selectedRecurrence(kept, allMonths) \cup {month}, allMonths)
                       = {IF lit = allMonths THEN {} ELSE lit}
SeasonsReadBack == seasonsReadBack
=============================================================================
