-------------------------- MODULE BillingCalendar ---------------------------
(***************************************************************************)
(* The periods a community is billed in, as the client computes them, and   *)
(* the period a page shows: the one its address names, or the one that      *)
(* replaces it when the selected community or its interval changes. A date  *)
(* is <<year, month, day>>; dates are compared as the ISO strings are.      *)
(***************************************************************************)
EXTENDS Integers, Sequences, SequencesExt, FiniteSets

Intervals == {"monthly", "quarterly", "semi_annual", "annual"}

isLeap(y) == (y % 4 = 0 /\ y % 100 # 0) \/ y % 400 = 0
monthDays(y, m) ==
    CASE m = 2 -> IF isLeap(y) THEN 29 ELSE 28 [] m \in {4, 6, 9, 11} -> 30 [] OTHER -> 31

\* the constructor carries months beyond the year; day 0 is the day before the first
Date(year, month0, day) ==
    LET index == year * 12 + month0 - (IF day = 0 THEN 1 ELSE 0)
        y == index \div 12
        m == (index % 12) + 1
    IN <<y, m, IF day = 0 THEN monthDays(y, m) ELSE day>>

isValidIsoDay(d) == d[2] \in 1..12 /\ d[3] \in 1..monthDays(d[1], d[2])
iso(d) == d[1] * 10000 + d[2] * 100 + d[3]
earlier(a, b) == iso(a) < iso(b)
span(from, to) == [from |-> from, to |-> to]

-----------------------------------------------------------------------------
(* Whole periods *)

monthsToAdd(interval) ==
    CASE interval = "monthly" -> 1 [] interval = "quarterly" -> 3
      [] interval = "semi_annual" -> 6 [] OTHER -> 12

startOfBillingPeriod(d, interval) ==
    LET month == d[2] - 1
    IN Date(d[1], CASE interval = "monthly"     -> month
                    [] interval = "quarterly"   -> (month \div 3) * 3
                    [] interval = "semi_annual" -> IF month < 6 THEN 0 ELSE 6
                    [] OTHER                    -> 0, 1)

endOfBillingPeriod(start, interval) ==
    LET nextStart == Date(start[1], start[2] - 1 + monthsToAdd(interval), 1)
    IN Date(nextStart[1], nextStart[2] - 1, 0)

period(start, interval) == span(start, endOfBillingPeriod(start, interval))

getCurrentBillingPeriod(today, interval) ==
    period(startOfBillingPeriod(today, interval), interval)

isBillingAlignedPeriod(range, interval) ==
    range = getCurrentBillingPeriod(range.from, interval)

shiftBillingPeriod(from, interval, direction) ==
    period(Date(from[1], from[2] - 1 + monthsToAdd(interval) * direction, 1), interval)

adjacentBillingPeriod(from, interval, direction) ==
    LET containing == startOfBillingPeriod(from, interval)
    IN IF direction = -1 /\ earlier(containing, from) THEN period(containing, interval)
       ELSE shiftBillingPeriod(containing, interval, direction)

billingPeriodsOfYear(year, interval) ==
    LET walk[k \in 1..13] == IF k = 1 THEN period(<<year, 1, 1>>, interval)
                             ELSE shiftBillingPeriod(walk[k - 1].from, interval, 1)
    IN SelectSeq([k \in 1..13 |-> walk[k]], LAMBDA p : p.from[1] = year)

getPreviousBillingPeriod(today, interval) ==
    shiftBillingPeriod(startOfBillingPeriod(today, interval), interval, -1)

alignedPeriodEndingWith(range, interval) == getCurrentBillingPeriod(range.to, interval)

firstAlignedBillingPeriod(start, interval) ==
    LET step       == monthsToAdd(interval)
        monthIndex == start[1] * 12 + (start[2] - 1) - ((start[2] - 1) % step)
        aligned    == start[3] = 1 /\ (start[2] - 1) % step = 0
    IN period(Date(0, IF aligned THEN monthIndex ELSE monthIndex + step, 1), interval)

\* newest first, none before the community's first
recentBillingPeriods(today, interval, count, minFrom) ==
    LET walk[k \in 0..count] ==
            IF k = 0 THEN getCurrentBillingPeriod(today, interval)
            ELSE shiftBillingPeriod(walk[k - 1].from, interval, -1)
    IN SelectSeq([k \in 1..(count + 1) |-> walk[k - 1]], LAMBDA p : ~earlier(p.from, minFrom))

quickRangeToDates(today, preset) ==
    LET y == today[1]
        m == today[2] - 1
        quarter == (m \div 3) * 3
    IN CASE preset = "this_month"   -> span(Date(y, m, 1), today)
         [] preset = "last_month"   -> span(Date(y, m - 1, 1), Date(y, m, 0))
         [] preset = "this_quarter" -> span(Date(y, quarter, 1), today)
         [] preset = "last_quarter" -> span(Date(y, quarter - 3, 1), Date(y, quarter, 0))
         [] preset = "this_year"    -> span(Date(y, 0, 1), today)
         [] OTHER                   -> span(Date(y - 1, 0, 1), Date(y - 1, 11, 31))

\* the arrows of the selector: {} where there is no step
previousStep(range, interval, allowCustomRange, minFrom) ==
    LET back == IF allowCustomRange THEN shiftBillingPeriod(range.from, interval, -1)
                ELSE adjacentBillingPeriod(range.from, interval, -1)
    IN IF (allowCustomRange /\ ~isBillingAlignedPeriod(range, interval)) \/ earlier(back.from, minFrom)
       THEN {} ELSE {back}

-----------------------------------------------------------------------------
(* The period of a page: of its address if that names one, {} if it names    *)
(* none or a malformed one. A policy says what the page falls back to and    *)
(* what a change of community does.                                          *)

billingRangeFromParams(range) ==
    {r \in range : isValidIsoDay(r.from) /\ isValidIsoDay(r.to) /\ ~earlier(r.to, r.from)}

\* not before the community's start; a page may set no such bound: {}
invoiceRangeFromParams(range, communityStart) ==
    {r \in billingRangeFromParams(range) : \A s \in communityStart : ~earlier(r.from, s)}

fallbackRange(policy) ==
    LET default == IF policy.fallback = "previous-complete"
                   THEN getPreviousBillingPeriod(policy.today, policy.interval)
                   ELSE getCurrentBillingPeriod(policy.today, policy.interval)
    IN IF \E first \in policy.minimumFallback : earlier(default.from, first.from)
       THEN CHOOSE first \in policy.minimumFallback : TRUE ELSE default

\* the address to write, {} for none
resolveBillingPeriodTarget(policy, requested, scopeChanged) ==
    LET valid   == invoiceRangeFromParams(requested, policy.minimumRangeStart)
        carried == {alignedPeriodEndingWith(r, policy.interval) : r \in valid}
    IN CASE scopeChanged /\ policy.scopeChange = "reset" -> {fallbackRange(policy)}
         [] policy.scopeChange # "align"                 -> {}
         [] requested # {} /\ valid = {}                 -> {fallbackRange(policy)}
         [] ~scopeChanged \/ valid = {}
               \/ \A r \in valid : isBillingAlignedPeriod(r, policy.interval) -> {}
         [] \/ invoiceRangeFromParams(carried, policy.minimumRangeStart) = {}
            \/ \E p \in carried, first \in policy.minimumFallback : earlier(p.from, first.from)
               -> {fallbackRange(policy)}
         [] OTHER -> carried

shownPeriod(policy, requested, scopeChanged) ==
    LET target == resolveBillingPeriodTarget(policy, requested, scopeChanged)
        valid  == invoiceRangeFromParams(requested, policy.minimumRangeStart)
    IN CHOOSE p \in IF target # {} THEN target
                    ELSE IF valid # {} THEN valid ELSE {fallbackRange(policy)} : TRUE

\* the pages: the dashboards, the metering chart, the billing page
pagePolicy(page, interval, start, today) ==
    [interval |-> interval, today |-> today,
     fallback |-> IF page = "billing" THEN "previous-complete" ELSE "current",
     minimumRangeStart |-> IF page = "billing" THEN {start} ELSE {},
     minimumFallback |-> IF page = "billing" THEN {firstAlignedBillingPeriod(start, interval)} ELSE {},
     scopeChange |-> CASE page = "billing" -> "align" [] page = "dashboard" -> "reset"
                       [] OTHER -> "preserve-url"]

-----------------------------------------------------------------------------
(* Bounds: a common and a leap year, and the days where something turns. *)
calendarYears == {2023, 2024}
calendarDays ==
    {d \in calendarYears \X (1..12) \X (1..31) : d[3] \in {1, 2, 15, 28, 29, 30, 31} /\ isValidIsoDay(d)}
turningDays == {<<2023, 1, 1>>, <<2023, 11, 30>>, <<2024, 2, 29>>, <<2024, 3, 31>>, <<2024, 7, 1>>}
carriedRanges ==
    {{}} \cup {{span(f, t)} : f \in turningDays, t \in turningDays \cup {<<2024, 2, 30>>, <<2024, 6, 30>>}}
        \cup {{getCurrentBillingPeriod(d, i)} : d \in turningDays, i \in Intervals}

nextDay(d) == IF d[3] < monthDays(d[1], d[2]) THEN <<d[1], d[2], d[3] + 1>> ELSE Date(d[1], d[2], 1)
covers(p, d) == ~earlier(d, p.from) /\ ~earlier(p.to, d)

\* the years that their periods do not tile, per interval
untiled ==
    {x \in Intervals \X calendarYears :
        LET periods == billingPeriodsOfYear(x[2], x[1])
        IN ~(/\ \A k \in 1..(Len(periods) - 1) : nextDay(periods[k].to) = periods[k + 1].from
             /\ periods[1].from = <<x[2], 1, 1>> /\ periods[Len(periods)].to = <<x[2], 12, 31>>)}

\* the days from which the arrows do not lead to the nearest whole periods
misled ==
    {x \in Intervals \X calendarDays :
        LET i    == x[1]
            d    == x[2]
            back == adjacentBillingPeriod(d, i, -1)
            on   == adjacentBillingPeriod(d, i, 1)
        IN ~(/\ covers(getCurrentBillingPeriod(d, i), d)
             /\ getCurrentBillingPeriod(d, i) \in ToSet(billingPeriodsOfYear(d[1], i))
             /\ earlier(back.from, d) /\ earlier(d, on.from)
             /\ isBillingAlignedPeriod(back, i) /\ isBillingAlignedPeriod(on, i)
             /\ ~earlier(shiftBillingPeriod(back.from, i, 1).from, d)
             /\ shiftBillingPeriod(on.from, i, -1) = getCurrentBillingPeriod(d, i))}

(* Whole periods follow one another without a gap or an overlap, in a year,  *)
(* from year to year and through the selector's arrows: a step back and a    *)
(* step forward meet again, and from a range that is no period the arrows    *)
(* lead to the nearest whole ones (billingPeriod.ts).                        *)
PeriodsTile == untiled = {} /\ misled = {}

\* the starts for which the first period is not the backend's, or is passed
misbilled ==
    {x \in Intervals \X calendarDays :
        LET i     == x[1]
            first == firstAlignedBillingPeriod(x[2], i)
        IN ~(/\ isBillingAlignedPeriod(first, i) /\ ~earlier(first.from, x[2])
             /\ earlier(shiftBillingPeriod(first.from, i, -1).from, x[2])
             /\ previousStep(first, i, FALSE, first.from) = {}
             /\ \A today \in turningDays :
                   \A p \in ToSet(recentBillingPeriods(today, i, 5, first.from)) :
                       ~earlier(p.from, x[2]) /\ isBillingAlignedPeriod(p, i))}

\* the quick ranges, each with the interval it names a period of
quickRanges ==
    {<<"this_month", "last_month", "monthly">>, <<"this_quarter", "last_quarter", "quarterly">>,
     <<"this_year", "last_year", "annual">>}
misquoted ==
    {x \in quickRanges \X calendarDays :
        \/ quickRangeToDates(x[2], x[1][1]).from # getCurrentBillingPeriod(x[2], x[1][3]).from
        \/ quickRangeToDates(x[2], x[1][2]) # getPreviousBillingPeriod(x[2], x[1][3])}

(* The first period that is offered is the first the backend bills           *)
(* (period_starts): the earliest one that begins on or after the start of    *)
(* the community, which the arrow back and the list never pass. The ranges   *)
(* offered beside the calendar are whole periods or the begun one.           *)
FirstPeriodIsBillable == misbilled = {} /\ misquoted = {}

\* the situations in which writing the address changes what is shown
unsettled ==
    {x \in {"billing", "dashboard", "chart"} \X Intervals \X turningDays \X turningDays \X carriedRanges :
        LET policy == pagePolicy(x[1], x[2], x[3], x[4])
            shown  == shownPeriod(policy, x[5], TRUE)
            target == resolveBillingPeriodTarget(policy, x[5], TRUE)
        IN ~(/\ target # {} => /\ invoiceRangeFromParams(target, policy.minimumRangeStart) = target
                               /\ \A changed \in BOOLEAN : shownPeriod(policy, target, changed) = shown
             /\ x[1] = "billing" =>
                    /\ isBillingAlignedPeriod(shown, x[2])
                    /\ ~earlier(shown.from, firstAlignedBillingPeriod(x[3], x[2]).from))}

(* When the community or its interval changes under a page, the period the   *)
(* page asks for is settled at once: writing it to the address is accepted   *)
(* and changes it no more, so no query pairs one community with the period   *)
(* of another. On the billing page it is a whole period of the new community *)
(* that does not begin before its first (useBillingPeriodParams).            *)
CarriedPeriodSettles == unsettled = {}
=============================================================================
