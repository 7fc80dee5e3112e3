--------------------------- MODULE MeteringScreens --------------------------
(***************************************************************************)
(* The metering area: points with their buildings, assignments and PV       *)
(* planes, the readings as charts and raw values, the imports, and the      *)
(* energy views (dashboard, live, my energy). The submissions of            *)
(* useMeteringPointActions and ImportsContent carry the community they were *)
(* made in and always refresh that community's queries; a missing write     *)
(* access is noticed before the call is made.                               *)
(***************************************************************************)
EXTENDS WebKeys, WebApi

Scoped(offer) == Guarded(offer, offer.refreshes)

-----------------------------------------------------------------------------
(* Metering points *)

\* afterBuildingChange: the points carry their building, the roles may too
buildingMutations ==
    LET reload == {ZevKeys.buildings, <<"zev", "partyRoles">>, MeteringKeys.points}
    IN [save   |-> Scoped(Offer(BuildingApi.updateBuilding, reload)),
        create |-> Scoped(Offer(BuildingApi.createBuilding, reload)),
        delete |-> Confirmed(Scoped(Offer(BuildingApi.deleteBuilding, reload)))]

pointMutations ==
    LET reload == {MeteringKeys.points, ZevKeys.buildings}
    IN [save   |-> Scoped(Offer(MeteringPointApi.updateMeteringPoint, reload)),
        create |-> Scoped(Offer(MeteringPointApi.createMeteringPoint, reload)),
        delete |-> Confirmed(Scoped(Offer(MeteringPointApi.deleteMeteringPoint,
                                          {MeteringKeys.all, ZevKeys.buildings})))]

assignmentMutations ==
    LET reload == {MeteringKeys.allAssignments, MeteringKeys.points,
                   ZevKeys.participants, ZevKeys.buildings}
    IN [save   |-> Scoped(Offer(MeteringPointApi.updateMeteringPointAssignment, reload)),
        create |-> Scoped(Offer(MeteringPointApi.createMeteringPointAssignment, reload)),
        delete |-> Confirmed(Scoped(Offer(MeteringPointApi.deleteMeteringPointAssignment, reload)))]

deleteMeteringData ==
    Confirmed(Scoped(Offer(MeteringPointApi.deleteMeteringPointReadings,
                           invalidateReadingQueries)))

\* who may see assignments and buildings gets them; the points everybody
pointQueries(c) ==
    LET managed ==
          {Query(ZevKeys.participants, ParticipantApi.fetchParticipants),
           Query(ZevKeys.buildings, BuildingApi.fetchBuildings),
           Query(ZevKeys.partyRoles, PartyApi.fetchPartyRoles),
           Query(MeteringKeys.allAssignments, MeteringPointApi.fetchMeteringPointAssignments)}
    IN Reads({Query(MeteringKeys.points, MeteringPointApi.fetchMeteringPoints),
              Query(MeteringKeys.qualityStatus, ReadingApi.fetchMeteringDataQualityStatus)}
             \cup IF accessFor(c).isZevScope THEN managed ELSE {})

\* deleting readings is the administrators'; a building must be empty
MeteringPointRow(c) ==
    LET canWrite == canWriteInSelectedCommunity(c)
    IN Does((IF canWrite THEN {pointMutations.delete, assignmentMutations.delete} ELSE {})
            \cup IF canWrite /\ accessFor(c).isAdmin THEN {deleteMeteringData} ELSE {})

MeteringPointFormModal == Does({pointMutations.create, pointMutations.save})
MeteringAssignmentFormModal == Does({assignmentMutations.create, assignmentMutations.save})
BuildingFormModal == Does({buildingMutations.create, buildingMutations.save})
BuildingHeader == Does({buildingMutations.delete})

\* a plane is deleted without a question; the forecast is computed from them
PvPlanesDialog(c) ==
    LET reload == {ZevKeys.pvPlanes, LiveKeys.all}
    IN Join({ Reads({Query(ZevKeys.pvPlanes, MeteringPointApi.fetchPvPlanes)}),
              When(canWriteInSelectedCommunity(c),
                   Does({Offer(MeteringPointApi.createPvPlane, reload),
                         Offer(MeteringPointApi.updatePvPlane, reload),
                         Offer(MeteringPointApi.deletePvPlane, reload)})) })

MeteringPointsPage(c) ==
    Join({ pointQueries(c), MeteringPointRow(c),
           When(accessFor(c).isZevScope, PvPlanesDialog(c)),
           When(canWriteInSelectedCommunity(c),
                Join({MeteringPointFormModal, MeteringAssignmentFormModal,
                      BuildingFormModal, BuildingHeader})) })

-----------------------------------------------------------------------------
(* Readings and imports *)

HeldReadingsPanel ==
    Reads({Query(MeteringKeys.heldReadings, ReadingApi.fetchHeldMeteringReadings)})

RawDayDetail == Reads({Query(MeteringKeys.rawDay, ReadingApi.fetchRawMeteringDay)})

RawMeteringTable(c) ==
    Join({ Reads({Query(MeteringKeys.rawData, ReadingApi.fetchRawMeteringData)}), RawDayDetail,
           When(accessFor(c).isZevScope,
                Join({Reads({Query(MeteringKeys.pointAssignments,
                                   MeteringPointApi.fetchMeteringPointAssignments)}),
                      HeldReadingsPanel})) })

\* the wizard's detection and preview change nothing; ImportWizard has the order
importMutations ==
    LET does(call) == Scoped(Offer(call, invalidateReadingQueries))
    IN [detect  |-> Repeatable(Offer(ImportApi.detectCsvSettings, {})),
        preview |-> Repeatable(Offer(ImportApi.previewCsvImport, {})),
        upload  |-> does(ImportApi.uploadMeteringFile),
        delete  |-> Confirmed(does(ImportApi.deleteImportLog)),
        bulkDelete |-> Confirmed(does(ImportApi.bulkDeleteImportLogs))]

ImportsContent(c) ==
    Join({ Reads({Query(MeteringKeys.importLogs, ImportApi.fetchImportLogs)}),
           When(canWriteInSelectedCommunity(c),
                Does({importMutations[name] : name \in DOMAIN importMutations})) })

MeteringChartPage(c, tab) ==
    Join({ Reads({Query(MeteringKeys.points, MeteringPointApi.fetchMeteringPoints)}),
           When(accessFor(c).isZevScope, Reads({Query(ZevKeys.list, CommunityApi.fetchZevs)})),
           When(tab = "chart",
                Join({Reads({Query(MeteringKeys.chartData, ReadingApi.fetchChartData)}),
                      RawMeteringTable(c)})),
           When(tab = "quality",
                Reads({Query(MeteringKeys.qualityStatus,
                             ReadingApi.fetchMeteringDataQualityStatus)})),
           When(tab = "imports" /\ accessFor(c).isZevScope, ImportsContent(c)) })

-----------------------------------------------------------------------------
(* Energy views *)

useLiveEnabled == Keeps(Query(LiveKeys.enabled, LiveApi.fetchLiveEnabled))
useLiveEnergy  == Polls(Query(LiveKeys.snapshot, LiveApi.fetchLiveSnapshot))
useLiveCurve   == Polls(Query(LiveKeys.curve, LiveApi.fetchLiveCurve))
useOwnSeries   == Keeps(Query(LiveKeys.ownSeries, LiveApi.fetchOwnSeries))
useProductionForecast == Polls(Query(LiveKeys.forecast, LiveApi.fetchProductionForecast))

LiveEnergyView(c) ==
    Join({Reads({useLiveEnabled}), When(c.on, Reads({useLiveEnergy}))})

TodayPanel(c) ==
    Join({LiveEnergyView(c), When(c.on, Reads({useLiveCurve, useOwnSeries}))})

MyEnergyView(c) ==
    LET eligible == Keeps(Query(MeteringKeys.supplementaryEligible,
                                SupplementaryApi.listEligibleMeteringPoints))
        sources == Query(MeteringKeys.supplementarySources,
                         SupplementaryApi.listSupplementarySources)
    IN Join({ Reads({eligible}), TodayPanel(c), When(c.on, Reads({useProductionForecast})),
              When(accessFor(c).isZevScope,
                   Reads({Query(ZevKeys.participants, ParticipantApi.fetchParticipants)})),
              When(accessFor(c).isZevScope /\ c.on, Reads({sources})) })

summaryQuery == Query(MeteringKeys.dashboardSummary, ReadingApi.fetchMeteringDashboardSummary)
hourlyProfileQuery == Query(MeteringKeys.hourlyProfile, ReadingApi.fetchHourlyProfile)

ManagementDashboardBody(c) == Reads({summaryQuery, hourlyProfileQuery})
ParticipantDashboardBody(c) == Reads({summaryQuery, hourlyProfileQuery})

DashboardPage(c) ==
    Join({When(accessFor(c).isZevScope, ManagementDashboardBody(c)),
          When(accessFor(c).isParticipantScope, ParticipantDashboardBody(c))})
=============================================================================
