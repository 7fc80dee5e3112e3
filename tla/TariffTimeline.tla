--------------------------- MODULE TariffTimeline ---------------------------
(***************************************************************************)
(* The versions of a tariff over time: which one a list row stands for      *)
(* (features/tariffs/validity.ts) and the step chart of its prices          *)
(* (priceHistory.ts). Days are numbers; a version holds from a day to a day *)
(* (none: open) and has bands in the order the backend stores them.         *)
(***************************************************************************)
EXTENDS TariffBands

CONSTANTS MonthLength, ShortYear   \* days of a month and months of a year
ASSUME TimelineAssumption == MonthLength \in Nat \ {0} /\ ShortYear \in Nat \ {0}

later(a, b) == IF a >= b THEN a ELSE b
monthOn(day) == ((day \div MonthLength) % ShortYear) + 1

-----------------------------------------------------------------------------
(* The overview *)

validityState(version, today) ==
    CASE version.from > today -> "scheduled"
      [] version.to # none /\ version.to < today -> "expired"
      [] OTHER -> "active"

positions(versions, today, state) == {k \in DOMAIN versions : validityState(versions[k], today) = state}
first(ks) == CHOOSE k \in ks : \A j \in ks : k <= j
last(ks)  == CHOOSE k \in ks : \A j \in ks : j <= k

\* versions are newest first
listedVersion(versions, today, upcoming) ==
    LET next   == positions(versions, today, "scheduled")
        active == positions(versions, today, "active")
    IN versions[CASE upcoming /\ next # {} -> last(next)
                  [] active # {}           -> first(active)
                  [] next # {}             -> last(next)
                  [] OTHER                 -> 1]

\* the group of a series and the version its row stands for
tariffOverview(versions, today) ==
    LET active == positions(versions, today, "active")
        next   == positions(versions, today, "scheduled")
        ended  == positions(versions, today, "expired")
    IN CASE active # {} -> [group |-> "current", version |-> versions[first(active)],
                            upcoming |-> {versions[k] : k \in {last(next) : x \in next}}]
         [] next # {}   -> [group |-> "upcoming", version |-> versions[last(next)], upcoming |-> {}]
         [] OTHER       -> [group |-> "history", version |-> versions[first(ended)], upcoming |-> {}]

-----------------------------------------------------------------------------
(* The step chart: points at which a value changes, each holding until the   *)
(* next. A line is <<type, position>>: of the named bands the first of its   *)
(* type, of the others one per position.                                     *)

bandsInMonth(version, month) == SelectSeq(version.bands, LAMBDA b : recurs(b.months, month))
bandsOfType(version, type) == SelectSeq(version.bands, LAMBDA b : b.type = type)

seasonalSegments(version, today) ==
    LET signature(month) == bandsInMonth(version, month)
        changeMonths == {m \in 1..ShortYear :
                            signature(m) # signature(IF m = 1 THEN ShortYear ELSE m - 1)}
        end == IF version.to # none THEN version.to ELSE later(today, version.from)
        boundaries == SelectSeq([i \in 1..(end + 1) |-> i - 1],
                                LAMBDA day : /\ version.from < day /\ day % MonthLength = 0
                                             /\ monthOn(day) \in changeMonths)
        from(k) == IF k = 1 THEN version.from ELSE boundaries[k - 1]
        to(k)   == IF k > Len(boundaries) THEN version.to ELSE boundaries[k] - 1
    IN IF changeMonths = {} THEN <<version>>
       ELSE [k \in 1..(Len(boundaries) + 1) |->
                [from |-> from(k), to |-> to(k), bands |-> bandsInMonth(version, monthOn(from(k)))]]

segmentsOf(versions, today) ==
    FlattenSeq([k \in DOMAIN versions |-> seasonalSegments(versions[k], today)])

bandKeysFor(segments) ==
    LET counts == {Len(bandsOfType(segments[k], "band")) : k \in DOMAIN segments}
    IN {<<t, 1>> : t \in {x \in {"flat", "high", "low"} :
                            \E k \in DOMAIN segments : bandsOfType(segments[k], x) # <<>>}}
       \cup {<<"band", n>> : n \in 1..last(counts)}

valuesFor(segment, keys, base) ==
    [key \in keys |-> LET bands == bandsOfType(segment, key[1])
                      IN IF key[2] \in DOMAIN bands THEN base * bands[key[2]].price ELSE none]
nulls(keys) == [key \in keys |-> none]
point(day, values) == [t |-> day, values |-> values]

\* two that meet need no point between them; before a gap the line is ended
assemble(segments, keys, today) ==
    LET pieces(k) ==
            LET s == segments[k]
                values == valuesFor(s, keys, 1)
                runEnd == IF s.to # none THEN s.to ELSE later(today, s.from)
                next == k < Len(segments)
            IN <<point(s.from, values)>> \o
               (IF next /\ s.to # none /\ segments[k + 1].from = s.to + 1 THEN <<>>
                ELSE (IF runEnd > s.from THEN <<point(runEnd, values)>> ELSE <<>>) \o
                     (IF next /\ s.to # none THEN <<point(s.to + 1, nulls(keys))>> ELSE <<>>))
    IN FlattenSeq([k \in DOMAIN segments |-> pieces(k)])

terminalBoundary(versions, today) ==
    LET final == Last(versions) IN IF final.to # none THEN final.to ELSE later(today, final.from)

versionOn(versions, day) ==
    {v \in ToSet(versions) : v.from <= day /\ (v.to = none \/ v.to >= day)}

representativePrice(version) ==
    LET preferred == bandsOfType(version, "flat") \o bandsOfType(version, "high") \o version.bands
    IN IF preferred = <<>> THEN 0 ELSE Head(preferred).price

\* what a percentage is a fraction of: the grid tariffs in force, together
gridBaseOn(grid, day) ==
    LET priceOf(series) == IF versionOn(series, day) = {} THEN 0
                           ELSE representativePrice(CHOOSE v \in versionOn(series, day) : TRUE)
    IN FoldLeft(LAMBDA total, series : total + priceOf(series), 0, grid)

\* mutant: only the tariff's own changes count
ownBoundaries(segments, grid) ==
    UNION {{v.from, v.to + 1} : v \in ToSet(segments)}
percentageBoundaries(segments, grid) ==
    UNION {{v.from} \cup (IF v.to # none THEN {v.to + 1} ELSE {}) : v \in ToSet(segments \o FlattenSeq(grid))}

percentagePoints(versions, grid, today) ==
    LET segments == segmentsOf(versions, today)
        keys == bandKeysFor(segments)
        end  == terminalBoundary(versions, today)
        relevant == SelectSeq([i \in 1..(end + 1) |-> i - 1],
                        LAMBDA d : d >= versions[1].from /\ d \in percentageBoundaries(segments, grid) \cup {end})
        values(d) == IF versionOn(segments, d) = {} THEN nulls(keys)
                     ELSE valuesFor(CHOOSE s \in versionOn(segments, d) : TRUE, keys, gridBaseOn(grid, d))
    IN [k \in DOMAIN relevant |-> point(relevant[k], values(relevant[k]))]

\* a price (no grid series), or a percentage of the grid's
buildPriceHistory(versions, grid, today) ==
    IF grid # <<>> THEN percentagePoints(versions, grid, today)
    ELSE LET segments == segmentsOf(versions, today)
         IN assemble(segments, bandKeysFor(segments), today)

-----------------------------------------------------------------------------
(* Bounds: two versions with or without a gap, the second one open or not,   *)
(* over more than a year, with bands of one, two or all seasons.             *)

chartBand(type, price, months) == [type |-> type, price |-> price, months |-> months]
chartBands ==
    {<<chartBand("flat", 1, {})>>,
     <<chartBand("flat", 1, {1, 3}), chartBand("flat", 2, {2})>>,
     <<chartBand("flat", 2, {1}), chartBand("high", 3, {2, 3})>>,
     <<chartBand("band", 1, {}), chartBand("band", 2, {1}), chartBand("band", 3, {2})>>}
chartVersion(from, to, bands) == [from |-> from, to |-> to, bands |-> bands]
lastDay == MonthLength * (ShortYear + 1)
versionLists ==
    {<<chartVersion(1, to, b)>> : to \in {none, 1, 5}, b \in chartBands}
      \cup {<<chartVersion(1, t1, b1), chartVersion(f2, t2, b2)>> :
                t1 \in {1, 2, 4}, f2 \in {5, 6}, t2 \in {none, 6, lastDay}, b1 \in chartBands, b2 \in chartBands}
gridLists ==
    LET opened  == <<chartVersion(3, none, <<chartBand("flat", 2, {})>>)>>
        resumed == <<chartVersion(0, 2, <<chartBand("high", 3, {})>>),
                     chartVersion(5, none, <<chartBand("flat", 2, {})>>)>>
    IN {<<>>, <<opened>>, <<resumed>>, <<opened, resumed>>}

\* what the points say of a day
charted(points, day, key) ==
    points[last({k \in DOMAIN points : points[k].t <= day})].values[key]
\* what the tariff says of it
inForce(versions, grid, day, key) ==
    IF versionOn(versions, day) = {} THEN none
    ELSE LET v == CHOOSE x \in versionOn(versions, day) : TRUE
             bands == SelectSeq(bandsInMonth(v, monthOn(day)), LAMBDA b : b.type = key[1])
         IN IF key[2] \in DOMAIN bands
            THEN bands[key[2]].price * (IF grid = <<>> THEN 1 ELSE gridBaseOn(grid, day)) ELSE none

(* On every day from the first version on, each line of the price chart is   *)
(* at the price in force on that day and broken where none is, for tariffs   *)
(* with seasons, with gaps between versions, still open, or priced as a      *)
(* share of grid tariffs that change on days of their own.                   *)
chartAgrees ==
    \A versions \in versionLists, grid \in gridLists, today \in {0, 6, lastDay} :
        LET points == buildPriceHistory(versions, grid, today)
        IN /\ \A k \in 1..(Len(points) - 1) : points[k].t < points[k + 1].t
           /\ \A day \in versions[1].from..terminalBoundary(versions, today),
                 key \in bandKeysFor(segmentsOf(versions, today)) :
                 charted(points, day, key) = inForce(versions, grid, day, key)
ChartShowsThePrice == chartAgrees

(* A tariff's row stands for the version in force today and names the next   *)
(* one to start; one that has not started for the nearest, one that is over  *)
(* for the latest; and the list and the overview choose the same version     *)
(* (listedVersion, tariffOverview).                                          *)
overviewAgrees ==
    \A versions \in versionLists, today \in 0..lastDay :
        LET newestFirst == Reverse(versions)
            row == tariffOverview(newestFirst, today)
            upcoming == {v \in ToSet(versions) : v.from > today}
        IN /\ row.version = listedVersion(newestFirst, today, FALSE)
           /\ row.group = "current" => {row.version} = versionOn(versions, today)
           /\ row.group # "current" => versionOn(versions, today) = {}
           /\ \A v \in upcoming : \A n \in row.upcoming : n.from <= v.from
           /\ row.group = "upcoming" => \A v \in upcoming : row.version.from <= v.from
           /\ row.group = "history" => \A v \in ToSet(versions) : v.from <= row.version.from
           /\ row.upcoming # {} <=> row.group = "current" /\ upcoming # {}
RowIsInForce == overviewAgrees
=============================================================================
