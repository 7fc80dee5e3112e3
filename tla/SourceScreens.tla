---------------------------- MODULE SourceScreens ---------------------------
(***************************************************************************)
(* The supplementary energy sources a participant or a community connects:  *)
(* features/supplementary. Every change refreshes the same queries, after a *)
(* failure too. The secrets of a source (its push token, its consents) are  *)
(* the holder's: an administrator acting in the account is not offered what *)
(* would create or show one.                                                *)
(***************************************************************************)
EXTENDS WebKeys, WebApi

invalidateSourceQueries ==
    {LiveKeys.all, MeteringKeys.supplementarySources, MeteringKeys.supplementaryEligible,
     MeteringKeys.supplementaryZevEligibleAll, <<"metering", "dashboard-summary">>,
     <<"metering", "points">>}

SourceOffer(call) == Settled(Offer(call, invalidateSourceQueries))

\* the feature flag and the meters the user holds; an answer of 404 is "off"
useEnergyDataEligibility ==
    Keeps(Query(MeteringKeys.supplementaryEligible, SupplementaryApi.listEligibleMeteringPoints))

supplementarySources ==
    Query(MeteringKeys.supplementarySources, SupplementaryApi.listSupplementarySources)

(* useSourceActions: the provider decides which of them a source has.       *)
useSourceActions ==
    [test |-> SourceOffer(SupplementaryApi.testSupplementarySource),
     sync |-> SourceOffer(SupplementaryApi.syncSupplementarySource),
     replaceKey |-> SourceOffer(SupplementaryApi.updateSupplementarySource),
     setEnabled |-> SourceOffer(SupplementaryApi.updateSupplementarySource),
     disconnect |-> SourceOffer(SupplementaryApi.disconnectSupplementarySource),
     purge |-> SourceOffer(SupplementaryApi.purgeSupplementaryReadings),
     remove |-> SourceOffer(SupplementaryApi.deleteSupplementarySource),
     rotate |-> SourceOffer(SupplementaryApi.rotateSupplementaryPushToken),
     revoke |-> SourceOffer(SupplementaryApi.revokeSupplementaryPushToken),
     capability |-> SourceOffer(SupplementaryApi.updateSupplementarySource)]

(* The menu of SourceDetails. A source is described by what the entries     *)
(* depend on: provider, enabled, the capabilities it has, the ones the      *)
(* meter could still get from it, and whether a push token exists.          *)
fullMenu(source, c) ==
    LET does == useSourceActions
        stops == IF Cardinality(source.has) > 1 THEN source.has ELSE {}
    IN UNION { IF source.provider # "push" /\ source.enabled THEN {does.test} ELSE {},
               IF source.provider = "solar" THEN {does.replaceKey} ELSE {},
               IF source.provider = "push" /\ ~c.acting THEN {Confirmed(does.rotate)} ELSE {},
               IF source.provider = "push" /\ source.token THEN {Confirmed(does.revoke)} ELSE {},
               IF source.enabled THEN {Confirmed(does.disconnect)} ELSE {},
               IF source.enabled /\ source.open # {} /\ ~c.acting
                 THEN {Confirmed(does.capability)} ELSE {},
               IF stops # {} THEN {Confirmed(does.capability)} ELSE {},
               IF "history" \in source.has THEN {Confirmed(does.purge)} ELSE {},
               {Confirmed(does.remove)} }

\* on behalf of the owner a manager may only switch it off, empty or remove it
limitedMenu(source) ==
    LET does == useSourceActions
    IN {does.setEnabled, Confirmed(does.remove)}
         \cup (IF "history" \in source.has THEN {Confirmed(does.purge)} ELSE {})

CsvImport ==
    Does({Offer(SupplementaryApi.importSupplementaryCsv,
                {MeteringKeys.supplementarySources, <<"metering", "dashboard-summary">>})})

\* one visible action beside the menu: a sync, or a new key where it is needed
SourceDetails(source, c, canManage, limited) ==
    LET polled == /\ source.provider # "push"
                  /\ source.enabled
                  /\ source.has \cap {"history", "forecast"} # {}
    IN When(canManage,
            Join({ Does(IF limited THEN limitedMenu(source) ELSE fullMenu(source, c)),
                   When(polled /\ ~limited, Does({useSourceActions.sync})),
                   When(/\ source.provider = "push" /\ source.enabled
                        /\ "history" \in source.has /\ ~limited, CsvImport) }))

\* the shapes of a connected source the panes are looked at with
Sources ==
    { s \in [provider : {"solar", "push", "forecast"}, enabled : BOOLEAN,
             has : {{"history"}, {"live"}, {"history", "live"}, {"forecast"}},
             open : {{}, {"live"}, {"history"}}, token : BOOLEAN] :
        /\ s.open \cap s.has = {}
        /\ s.token => s.provider = "push"
        /\ s.provider = "forecast" <=> s.has = {"forecast"}
        /\ s.provider = "forecast" => s.open = {} }

SourcePane(c, canManage, limited) ==
    Join({SourceDetails(source, c, canManage, limited) : source \in Sources})

(* Connecting: the dialogs are opened by buttons that are off while an      *)
(* administrator acts in the account.                                       *)

\* a new connection, or the capability added to one the holder already has
SupplementarySourceModal ==
    Does({Offer(SupplementaryApi.createSupplementarySource, invalidateSourceQueries),
          Offer(SupplementaryApi.updateSupplementarySource, invalidateSourceQueries)})

ForecastConnectDialog ==
    Does({Offer(SupplementaryApi.createSupplementarySource, invalidateSourceQueries),
          Offer(SupplementaryApi.updateSupplementarySource, invalidateSourceQueries)})

CapabilityRows(c, canManage) ==
    When(canManage /\ ~c.acting, Join({SupplementarySourceModal, ForecastConnectDialog}))

MeteringPointDataCard(c) == CapabilityRows(c, TRUE)

ZevConnectDialog(c) ==
    Join({CapabilityRows(c, TRUE), When(~c.acting, SupplementarySourceModal)})

ZevEnergySources(c, canManage) ==
    Join({ Reads({useEnergyDataEligibility}),
           When(c.on, Reads({supplementarySources})),
           When(c.on /\ canManage,
                Join({Reads({Query(MeteringKeys.supplementaryZevEligible,
                                   SupplementaryApi.fetchZevEligibleSources)}),
                      ZevConnectDialog(c)})),
           When(c.on, SourcePane(c, canManage, FALSE)),
           When(c.on, SourcePane(c, canManage, TRUE)) })

\* the meters of the account, with the sources that feed them
MyMeteringPointsPage(c) ==
    Join({ Reads({useEnergyDataEligibility}),
           When(accessFor(c).isParticipantScope,
                Reads({Query(MeteringKeys.points, MeteringPointApi.fetchMeteringPoints)})),
           When(c.on, Join({Reads({supplementarySources}), MeteringPointDataCard(c),
                            SourcePane(c, TRUE, FALSE)})) })
=============================================================================
