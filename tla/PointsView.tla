----------------------------- MODULE PointsView -----------------------------
(***************************************************************************)
(* The list of metering points: what the page derives from the points, the  *)
(* assignments and the data quality (features/meteringPoints), each of      *)
(* which arrives on its own. A view is                                      *)
(*     points       the loaded points                                       *)
(*     assignments  the loaded assignments, of every community              *)
(*     available    whether the assignments have arrived                    *)
(*     quality      severities by point, for the points that have one       *)
(*     buildings    the loaded buildings                                    *)
(*     managed      whether the reader has a community scope                *)
(*     selected     the selected community                                  *)
(*     today                                                                *)
(* Days are numbers; an assignment ends on a day or never (openEnd). A search  *)
(* term stands for the set of points it matches.                            *)
(***************************************************************************)
EXTENDS Integers, FiniteSets, FiniteSetsExt

openEnd == -1   \* no last day

-----------------------------------------------------------------------------
(* One point *)

getAssignmentState(a, today) ==
    CASE a.from > today -> "upcoming"
      [] a.to # openEnd /\ a.to < today -> "ended"
      [] OTHER -> "current"

isAssignmentCurrent(a, today) == getAssignmentState(a, today) = "current"

getMeteringPointHealth(p, quality) ==
    IF ~p.hasReadings THEN "no_data" ELSE IF p.id \in DOMAIN quality THEN quality[p.id] ELSE "unknown"

isMeteringPointHolderLess(p, assignments, today) ==
    p.isActive /\ p.hasReadings /\ \A a \in assignments : ~isAssignmentCurrent(a, today)

meteringPointNeedsAttention(p, health, holderLess) ==
    p.isActive /\ (health \in {"yellow", "red", "no_data"} \/ holderLess)

-----------------------------------------------------------------------------
(* The list *)

assignmentsByMeteringPoint(v, p) == {a \in v.assignments : v.available /\ a.point = p.id}

\* an unavailable response cannot establish an absent assignment: no entries
meteringPointHolderLessById(v) ==
    [p \in {x \in v.points : v.managed /\ v.available} |->
        isMeteringPointHolderLess(p, assignmentsByMeteringPoint(v, p), v.today)]

isAssignedByMeteringPoint(v) ==
    [p \in {x \in v.points : v.managed /\ v.available} |->
        \E a \in assignmentsByMeteringPoint(v, p) : isAssignmentCurrent(a, v.today)]

needsAttention(v, p) ==
    LET holderLess == meteringPointHolderLessById(v)
    IN meteringPointNeedsAttention(p, getMeteringPointHealth(p, v.quality),
                                   p \in DOMAIN holderLess /\ holderLess[p])

scopedMeteringPoints(v) == {p \in v.points : v.managed => p.community = v.selected}

matchesView(v, view, p) ==
    CASE view = "all"      -> TRUE
      [] view = "active"   -> p.isActive
      [] view = "inactive" -> ~p.isActive
      [] view = "unassigned" ->
            p \in DOMAIN isAssignedByMeteringPoint(v) /\ ~isAssignedByMeteringPoint(v)[p]
      [] view = "attention"  -> needsAttention(v, p)

\* filters: view, type and building ("all" for any), and what the search matches
filteredMeteringPoints(v, filters) ==
    {p \in scopedMeteringPoints(v) :
        /\ matchesView(v, filters.view, p)
        /\ filters.type \in {"all", p.type}
        /\ p \in filters.matching
        /\ filters.building \in {"all", p.building}}

\* a building without a row is hidden, unless it has no points and nothing is filtered
groupMeteringPointsByBuilding(v, rows, filtersActive) ==
    {g \in {[building |-> b, points |-> {p \in rows : p.building = b}] : b \in v.buildings} :
        g.points # {} \/ (~filtersActive /\ \A p \in v.points : p.building # g.building)}

\* one plain list as long as there are no buildings
meteringPoints(v, filters) ==
    LET rows == filteredMeteringPoints(v, filters)
        hasFilters == \/ filters.matching # v.points
                      \/ \E f \in {filters.view, filters.type, filters.building} : f # "all"
    IN IF v.managed /\ v.buildings # {}
       THEN UNION {g.points : g \in groupMeteringPointsByBuilding(v, rows, hasFilters)} ELSE rows

getMeteringPointCounts(v) ==
    LET scoped   == scopedMeteringPoints(v)
        active   == {p \in scoped : p.isActive}
        assigned == {p \in scoped :
                        \E a \in assignmentsByMeteringPoint(v, p) : isAssignmentCurrent(a, v.today)}
    IN [all        |-> Cardinality(scoped),
        active     |-> Cardinality(active),
        inactive   |-> Cardinality(scoped) - Cardinality(active),
        unassigned |-> IF v.available THEN Cardinality(scoped) - Cardinality(assigned) ELSE 0,
        attention  |-> Cardinality({p \in scoped : needsAttention(v, p)})]

\* assignments are a manager's concern
tabs(v) == {"all", "active", "inactive", "attention"} \cup IF v.managed THEN {"unassigned"} ELSE {}

-----------------------------------------------------------------------------
(* The next assignment of a point *)

getNextAssignmentGuidance(assignments, today) ==
    LET ends == {a.to : a \in {x \in assignments : x.to # openEnd}}
    IN [suggestedValidFrom |-> IF ends = {} THEN today ELSE Max(ends) + 1,
        hasOpenEndedAssignment |-> \E a \in assignments : a.to = openEnd]

openCreateAssignModal(v, p) ==
    LET guidance == getNextAssignmentGuidance(assignmentsByMeteringPoint(v, p), v.today)
    IN [form |-> [point |-> p.id, participant |-> "", from |-> guidance.suggestedValidFrom, to |-> openEnd],
        warned |-> guidance.hasOpenEndedAssignment]

\* the request, if there is one
submitAssignForm(form) == {f \in {form} : f.participant # ""}

\* the backend's rule: windows are inclusive at both ends
overlaps(a, b) == (b.to = openEnd \/ a.from <= b.to) /\ (a.to = openEnd \/ b.from <= a.to)
_validate_no_overlap(a, existing) == \A b \in {x \in existing : x.point = a.point} : ~overlaps(a, b)

-----------------------------------------------------------------------------
(* Views of two points, one of another community *)

someAssignments ==
    LET windows == {w \in [from : 1..4, to : {openEnd} \cup 1..4] : w.to = openEnd \/ w.from <= w.to}
        histories == {h \in UNION {kSubset(k, windows) : k \in 0..3} :
                        \A a, b \in h : a # b => ~overlaps(a, b)}
    IN {{[point |-> 1, participant |-> "tenant", from |-> w.from, to |-> w.to] : w \in h} : h \in histories}

somePoints ==
    {{[id |-> 1, community |-> "a", building |-> "x", type |-> "consumption", isActive |-> act, hasReadings |-> read],
      [id |-> 2, community |-> other, building |-> "y", type |-> "production", isActive |-> TRUE, hasReadings |-> TRUE]}
        : act \in BOOLEAN, read \in BOOLEAN, other \in {"a", "b"}}

someViews ==
    [points : somePoints, assignments : someAssignments, available : BOOLEAN,
     quality : UNION {[ids -> {"green", "red"}] : ids \in SUBSET {1, 2}},
     buildings : {{}, {"x", "y", "z"}}, managed : BOOLEAN, selected : {"a"}, today : {2}]

unfiltered(v, view) == [view |-> view, type |-> "all", building |-> "all", matching |-> v.points]

-----------------------------------------------------------------------------
(* Properties *)

tabsCountTheirRows ==
    \A v \in someViews : \A view \in tabs(v) :
        getMeteringPointCounts(v)[view] = Cardinality(meteringPoints(v, unfiltered(v, view)))

\* Every tab the toolbar offers carries the number of rows its view shows,
\* whatever has arrived so far: the counts (getMeteringPointCounts) and the
\* rows (getScopedAndFilteredMeteringPoints, grouped by building) are computed
\* apart.
TabsCountTheirRows == tabsCountTheirRows

alarmsAreEarned ==
    \A v \in someViews : \A arrived \in {[v EXCEPT !.available = TRUE]} :
        \A p \in v.points : \A view \in {"attention", "unassigned"} :
            matchesView(v, view, p) => matchesView(arrived, view, p)

\* A point that is listed as needing attention or as unassigned while the
\* assignments are still on their way is listed so after they have arrived:
\* nothing is alleged on the strength of a missing answer.
AlarmsAreEarned == alarmsAreEarned

warnedWhenRefused ==
    \A v \in {x \in someViews : x.available /\ x.quality = <<>> /\ x.buildings = {}} : \A p \in v.points :
        LET modal == openCreateAssignModal(v, p)
        IN \A request \in submitAssignForm([modal.form EXCEPT !.participant = "next"]) :
              modal.warned <=> ~_validate_no_overlap(request, v.assignments)

\* The form for the next assignment, submitted with the day it suggests, is
\* refused by the backend's overlap rule exactly when the form has warned of
\* an open-ended assignment.
WarnedWhenRefused == warnedWhenRefused
=============================================================================
