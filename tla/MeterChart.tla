----------------------------- MODULE MeterChart -----------------------------
(***************************************************************************)
(* The metering page's charts and data quality (pages/MeteringChartPage.tsx). *)
(* The address names a meter, or the community's total; the community, the  *)
(* list of its meters and the quality report arrive each on its own, late,  *)
(* failing or from the cache. Everything shown is derived from these, and   *)
(* effects correct the state after each render: they are part of the step   *)
(* that caused it (settled).                                                *)
(***************************************************************************)
EXTENDS Naturals, FiniteSets

CONSTANTS Communities,
          Meters,
          Home,      \* the community of each meter
          Periods

none  == "none"         \* no meter, no community
Total == "zev_total"    \* ALL_METERING_POINTS_VALUE

VARIABLE view
(* kind      admin, manager (both read the communities) or participant      *)
(* held      the meters there are                                           *)
(* pick      the community picked; zevs: the communities' query             *)
(* lists     the query of each community's meters                           *)
(* url       tab, metering_point, period and severity of the address        *)
(* quality   {} or {the meters the report shows gaps for}                   *)
(* gaps      {} or the row whose gaps were opened, and where                 *)
(* asked     history: the user opened the gaps shown                        *)
(* lost      history: a good link was taken out of the address              *)

Query == [data : BOOLEAN, failed : BOOLEAN, fetching : BOOLEAN]
asking == [data |-> FALSE, failed |-> FALSE, fetching |-> TRUE]
idle   == [data |-> FALSE, failed |-> FALSE, fetching |-> FALSE]
Tabs == {"chart", "quality", "imports"}

TypeOK ==
    /\ view.pick \in Communities /\ view.zevs \in Query
    /\ view.lists \in [Communities -> Query]
    /\ view.url.meter \in Meters \cup {none, Total} /\ view.url.tab \in Tabs
    /\ Cardinality(view.quality) <= 1 /\ Cardinality(view.gaps) <= 1

-----------------------------------------------------------------------------
(* The scope *)

isManagedScope(s) == s.kind # "participant"
\* a manager's memberships name his community before its record arrives
selectedZevId(s)  == IF s.kind = "admin" /\ ~s.zevs.data THEN none ELSE s.pick
hasScope(s)       == isManagedScope(s) /\ s.zevs.data
periodReady(s)    == isManagedScope(s) => hasScope(s)

ScopeGuard(s) ==
    CASE ~isManagedScope(s) \/ hasScope(s) -> "children"
      [] s.zevs.fetching -> "skeleton"
      [] OTHER -> "notice"

-----------------------------------------------------------------------------
(* The list of meters and the selection *)

theList(s) == IF selectedZevId(s) = none THEN idle ELSE s.lists[selectedZevId(s)]
listed(s)  == {m \in s.held : Home[m] = selectedZevId(s)}

meterListResolved(s) == theList(s).data
listFailed(s)  == theList(s).failed
listPending(s) == (~theList(s).data /\ ~theList(s).failed) \/ theList(s).fetching
meteringPoints(s) == IF meterListResolved(s) THEN listed(s) ELSE {}
hasNoMeters(s) == meterListResolved(s) /\ meteringPoints(s) = {}

resolveMeterSelection(s) ==
    LET requested == s.url.meter
        valid == IF requested = Total THEN isManagedScope(s) /\ selectedZevId(s) # none
                 ELSE requested \in {none} \cup meteringPoints(s)
    IN [valid |-> valid, meter |-> IF valid THEN requested ELSE none,
        isResolving |-> requested \notin {none, Total} /\ ~meterListResolved(s)]

defaultMeterSelection(s) ==
    [meter |-> IF isManagedScope(s) THEN IF selectedZevId(s) = none THEN none ELSE Total
               ELSE IF Cardinality(meteringPoints(s)) = 1
                    THEN CHOOSE m \in meteringPoints(s) : TRUE ELSE none,
     isResolving |-> ~isManagedScope(s) /\ ~meterListResolved(s)]

chartMp(s) == IF s.url.meter # none THEN resolveMeterSelection(s).meter
              ELSE defaultMeterSelection(s).meter

isResolvingMpSelection(s) ==
    \/ resolveMeterSelection(s).isResolving /\ listPending(s)
    \/ s.url.meter = none /\ defaultMeterSelection(s).isResolving /\ ~listFailed(s)
awaitingMeterList(s) == chartMp(s) # none /\ ~meterListResolved(s) /\ ~listFailed(s)

\* what the queries ask for; {} when they are not enabled
chartQuery(s) ==
    IF periodReady(s) /\ s.url.tab = "chart" /\ ~hasNoMeters(s) /\ chartMp(s) # none
    THEN {chartMp(s)} ELSE {}

qualityMeteringPointFilter(s) ==
    LET meter == resolveMeterSelection(s).meter IN IF meter = Total THEN none ELSE meter

qualityQuery(s) ==
    IF /\ periodReady(s) /\ s.url.tab = "quality"
       /\ s.url.meter \in {none, Total} \/ meterListResolved(s)
       /\ isManagedScope(s) => selectedZevId(s) # none
    THEN {qualityMeteringPointFilter(s)} ELSE {}

-----------------------------------------------------------------------------
(* What the page shows *)

filterBar(s) == IF s.url.tab # "imports" /\ listFailed(s) THEN {"notice"} ELSE {}

showChart(s) == chartMp(s) # none /\ ~hasNoMeters(s) /\ ~awaitingMeterList(s)

chartPanel(s) ==
    LET message == CASE isResolvingMpSelection(s) \/ awaitingMeterList(s) -> {"skeleton"}
                     [] hasNoMeters(s) -> {"noMeters"}
                     [] chartMp(s) = none /\ s.url.meter = none /\ meterListResolved(s) ->
                           {"noPointSelected"}
                     [] OTHER -> {}
    IN message \cup (IF showChart(s) THEN chartQuery(s) ELSE {})

qualityPanel(s) ==
    IF s.url.meter \notin {none, Total} /\ ~meterListResolved(s)
    THEN IF listPending(s) THEN {"skeleton"} ELSE {}
    ELSE qualityQuery(s)

shown(s) ==
    IF ScopeGuard(s) # "children" THEN {ScopeGuard(s)}
    ELSE filterBar(s) \cup CASE s.url.tab = "chart"   -> chartPanel(s)
                             [] s.url.tab = "quality" -> qualityPanel(s)
                             [] OTHER -> {"imports"}

\* tab, community, period, meter and severity: the gaps opened elsewhere are not shown
gapsContext(s) == <<s.url, selectedZevId(s)>>
gapsPoint(s) ==
    {g \in s.gaps : g.context = gapsContext(s) /\ \E rows \in s.quality : g.meter \in rows}

-----------------------------------------------------------------------------
(* The effects *)

observed(s) ==
    IF /\ periodReady(s) /\ s.url.tab # "imports" /\ selectedZevId(s) # none
       /\ theList(s) = idle
    THEN [s EXCEPT !.lists[selectedZevId(s)] = asking] ELSE s

isGood(s) == \/ s.url.meter = Total /\ isManagedScope(s)
             \/ s.url.meter \in s.held /\ Home[s.url.meter] = s.pick

\* mutant: the total is judged before the community is known
linkKeptEarly(s) ==
    IF ~resolveMeterSelection(s).valid /\ (s.url.meter # Total => meterListResolved(s))
    THEN [s EXCEPT !.url.meter = none, !.lost = @ \/ isGood(s)] ELSE s

\* a link that turns out to name nothing here is taken out of the address
linkKept(s) ==
    LET scopeResolved == isManagedScope(s) =>
                            ~(s.zevs.fetching /\ ~s.zevs.data) /\ (s.zevs.failed => s.zevs.data)
        resolvable == IF s.url.meter = Total THEN scopeResolved ELSE meterListResolved(s)
    IN IF ~resolveMeterSelection(s).valid /\ resolvable
       THEN [s EXCEPT !.url.meter = none, !.lost = @ \/ isGood(s)] ELSE s

gapsDropped(s) ==
    [s EXCEPT !.gaps = IF gapsPoint(s) = {} THEN {} ELSE @, !.asked = @ /\ gapsPoint(s) # {}]

settled(s) == gapsDropped(observed(linkKept(s)))

\* another report is asked for; the cache may hold its answer. Beside the
\* other tabs nothing reads it, and it is looked up again on return.
cachedReports(s) ==
    {{}} \cup IF s.url.tab = "quality" THEN {{rows} : rows \in SUBSET listed(s)} ELSE {}

elsewhere(s) ==
    \E cached \in cachedReports(s) : view' = settled([s EXCEPT !.quality = cached])

-----------------------------------------------------------------------------
(* The user *)

handleMpChange(meter) ==
    /\ ScopeGuard(view) = "children" /\ view.url.tab # "imports"
    /\ meter \in meteringPoints(view) \cup
          (IF view.url.tab = "quality" THEN {none}
           ELSE IF isManagedScope(view) THEN {Total} ELSE {})
    /\ elsewhere([view EXCEPT !.url.meter = meter])

handleTabChange(tab) ==
    /\ ScopeGuard(view) = "children" /\ tab # view.url.tab
    /\ tab = "chart" \/ isManagedScope(view)
    /\ elsewhere([view EXCEPT !.url.tab = tab])

handlePeriodChange(period) ==
    /\ ScopeGuard(view) = "children" /\ view.url.tab # "imports" /\ period # view.url.period
    /\ elsewhere([view EXCEPT !.url.period = period])

\* the report stays, only its rows are narrowed
toggleSeverity ==
    /\ view.url.tab = "quality" /\ qualityPanel(view) # {} /\ view.quality # {}
    /\ view' = settled([view EXCEPT !.url.severity = ~@])

handleJumpToChart(meter) ==
    /\ view.url.tab = "quality" /\ qualityQuery(view) # {} /\ view.quality # {}
    /\ meter \in listed(view)
    /\ elsewhere([view EXCEPT !.url.tab = "chart", !.url.meter = meter])

openGaps(meter) ==
    /\ view.url.tab = "quality" /\ qualityQuery(view) # {}
    /\ \E rows \in view.quality : meter \in rows
    /\ view' = settled([view EXCEPT !.gaps = {[meter |-> meter, context |-> gapsContext(view)]},
                                    !.asked = TRUE])

closeGaps ==
    /\ gapsPoint(view) # {}
    /\ view' = settled([view EXCEPT !.gaps = {}])

handleGoToImports ==
    /\ gapsPoint(view) # {}
    /\ elsewhere([view EXCEPT !.gaps = {}, !.url.tab = "imports"])

setSelectedZevId(zev) ==
    /\ zev # view.pick /\ selectedZevId(view) # none
    /\ elsewhere([view EXCEPT !.pick = zev])

-----------------------------------------------------------------------------
(* The answers *)

answered(query) == {[data |-> TRUE, failed |-> FALSE, fetching |-> FALSE],
                    [query EXCEPT !.failed = TRUE, !.fetching = FALSE]}
\* a first answer is awaited anew; one that was there stays, and so does its error
again(query) == [query EXCEPT !.failed = @ /\ query.data, !.fetching = TRUE]

zevsAnswer ==
    /\ view.zevs.fetching
    /\ \E query \in answered(view.zevs) : view' = settled([view EXCEPT !.zevs = query])

refetchZevs ==
    /\ isManagedScope(view) /\ ~view.zevs.fetching
    /\ view' = settled([view EXCEPT !.zevs = again(@)])

listAnswers(zev) ==
    /\ view.lists[zev].fetching
    /\ \E query \in answered(view.lists[zev]) : view' = settled([view EXCEPT !.lists[zev] = query])

refetchList ==
    /\ ScopeGuard(view) = "children" /\ view.url.tab # "imports"
    /\ theList(view) # idle /\ ~theList(view).fetching
    /\ view' = settled([view EXCEPT !.lists[selectedZevId(view)] = again(@)])

\* also an answer that replaces an earlier one
qualityAnswers(rows) ==
    /\ qualityQuery(view) # {}
    /\ rows \subseteq {m \in listed(view) : qualityMeteringPointFilter(view) \in {none, m}}
    /\ view' = settled([view EXCEPT !.quality = {rows}])

-----------------------------------------------------------------------------
\* the page is opened by any link, with or without a list in the cache
Init ==
    \E kind \in {"admin", "manager", "participant"}, held \in SUBSET Meters,
       pick \in Communities, meter \in Meters \cup {none, Total}, tab \in {"chart", "quality"},
       cached \in SUBSET Communities, period \in Periods :
        /\ kind = "participant" => tab = "chart"
        /\ view = settled([kind |-> kind, held |-> held, pick |-> pick,
                zevs |-> IF kind = "participant" THEN idle ELSE asking,
                lists |-> [c \in Communities |-> [idle EXCEPT !.data = c \in cached]],
                url |-> [tab |-> tab, meter |-> meter, period |-> period, severity |-> FALSE],
                quality |-> {}, gaps |-> {}, asked |-> FALSE, lost |-> FALSE])

Next ==
    \/ \E meter \in Meters \cup {none, Total} : handleMpChange(meter)
    \/ \E tab \in Tabs : handleTabChange(tab)
    \/ \E period \in Periods : handlePeriodChange(period)
    \/ \E zev \in Communities : setSelectedZevId(zev)
    \/ toggleSeverity \/ closeGaps \/ handleGoToImports
    \/ \E meter \in Meters : handleJumpToChart(meter) \/ openGaps(meter)
    \/ zevsAnswer \/ refetchZevs \/ refetchList
    \/ \E zev \in Communities : listAnswers(zev)
    \/ \E rows \in SUBSET Meters : qualityAnswers(rows)

Spec == Init /\ [][Next]_view

-----------------------------------------------------------------------------
(* The page is never blank: whatever has arrived, failed or is on its way,  *)
(* each tab shows a chart or a table that is being asked for, a skeleton, a *)
(* reason why there is nothing, or an error that can be retried.            *)
NeverBlank == shown(view) # {}

(* A good link survives: the meter or the total that a link names stays in  *)
(* the address unless the user changes it, however late the community and   *)
(* the list of meters arrive, and when either fails (the effect at          *)
(* MeteringChartPage.tsx:417).                                              *)
GoodLinkSurvives == ~view.lost

(* Only this community's meters are asked for: after a switch of community  *)
(* no chart is requested for a meter of the one before, a participant never *)
(* asks for the total, and the quality report is never filtered by the      *)
(* total, which the API refuses (#671).                                     *)
AsksForItsOwn ==
    /\ chartQuery(view) \subseteq listed(view) \cup (IF isManagedScope(view) THEN {Total} ELSE {})
    /\ qualityQuery(view) \subseteq listed(view) \cup {none}

(* The gaps of a meter are shown only to who asked: once hidden by another  *)
(* period, meter, severity or community, or by a report without them, they  *)
(* do not come back by themselves.                                          *)
GapsWereAskedFor == gapsPoint(view) # {} => view.asked
=============================================================================
