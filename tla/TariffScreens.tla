---------------------------- MODULE TariffScreens ---------------------------
(***************************************************************************)
(* Tariffs: the series of a community with their versions and bands, the    *)
(* import of a grid operator's published tariffs, the sources of dynamic    *)
(* prices, and the combined progression computed from all of them.          *)
(***************************************************************************)
EXTENDS WebKeys, WebApi

\* mutant: the series themselves are forgotten
invalidateSumsOnly == {TariffKeys.dynamicSources, <<"tariffs", "progression">>}

\* any change of a tariff can reshape its series, the sources and the sum
invalidateTariffQueries ==
    {TariffKeys.series, TariffKeys.dynamicSources, <<"tariffs", "progression">>}

TariffOffer(call) ==
    Guarded(Offer(call, invalidateTariffQueries), invalidateTariffQueries)

useTariffCrud ==
    [create |-> TariffOffer(TariffApi.createTariff), update |-> TariffOffer(TariffApi.updateTariff),
     delete |-> Confirmed(TariffOffer(TariffApi.deleteTariff)),
     createPeriod |-> TariffOffer(TariffApi.createTariffPeriod),
     updatePeriod |-> TariffOffer(TariffApi.updateTariffPeriod),
     deletePeriod |-> Confirmed(TariffOffer(TariffApi.deleteTariffPeriod))]

\* a new version closes its predecessor; a rename reaches every version
useTariffVersions ==
    [newVersion |-> TariffOffer(TariffApi.createTariffVersion),
     duplicate |-> TariffOffer(TariffApi.duplicateTariff),
     rename |-> TariffOffer(TariffApi.renameTariffSeries)]

\* preview, choose, apply; the chosen address may be kept with the community
VseTariffImportModal ==
    Does({Offer(DynamicSourceApi.previewVseTariffImport, {}),
          Offer(DynamicSourceApi.applyVseTariffImport, invalidateTariffQueries)})

\* discover a feed, pick a component, create; a source that exists is edited
DynamicSourceForm(existing) ==
    LET reload == {TariffKeys.dynamicSources}
    IN IF existing
       THEN Does({Offer(DynamicSourceApi.updateDynamicTariffSource, reload)})
       ELSE Does({Offer(DynamicSourceApi.discoverDynamicTariffSource, {}),
                  Offer(DynamicSourceApi.createDynamicTariffSource, reload)})

TariffForm ==
    Join({Part({Keeps(Query(TariffKeys.dynamicSources, DynamicSourceApi.fetchDynamicTariffSources))},
               {useTariffCrud.create, useTariffCrud.update}),
          DynamicSourceForm(FALSE)})

TariffPeriodForm == Does({useTariffCrud.createPeriod, useTariffCrud.updatePeriod})

TariffVersionForm ==
    Does({useTariffVersions.newVersion, useTariffVersions.duplicate, useTariffVersions.rename})

DynamicPriceHistoryPanel ==
    Reads({Query(TariffKeys.dynamicPrices, DynamicSourceApi.fetchDynamicPriceHistory)})

TariffDetailPane(c) ==
    Join({ DynamicPriceHistoryPanel,
           When(canWriteInSelectedCommunity(c),
                Does({useTariffCrud.delete, useTariffCrud.deletePeriod})) })

\* one editor at a time, in the pane of the series it edits
TariffsPage(c) ==
    Join({ Reads({Query(TariffKeys.series, TariffApi.fetchTariffSeries)}), TariffDetailPane(c),
           When(canWriteInSelectedCommunity(c),
                Join({TariffForm, TariffPeriodForm, TariffVersionForm, VseTariffImportModal})) })

TariffProgressionPage(c) ==
    Reads({Query(TariffKeys.progression, TariffApi.fetchTariffProgression)})

\* clearing and deleting ask for the source's name to be typed
AdminDynamicSourcesPanel ==
    LET reload == {TariffKeys.dynamicSources, <<"admin", "audit-events">>}
        sources == Polls(Query(TariffKeys.dynamicSources,
                               DynamicSourceApi.fetchDynamicTariffSources))
    IN Join({ Part({sources, Query(AdminKeys.auditEvents, AuditApi.fetchAuditEvents)},
                   {Offer(DynamicSourceApi.queueDynamicSourceFetch, reload),
                    Offer(DynamicSourceApi.recheckDynamicTariffSource, reload),
                    Confirmed(Offer(DynamicSourceApi.clearDynamicSourcePrices, reload)),
                    Confirmed(Offer(DynamicSourceApi.deleteDynamicTariffSource, reload))}),
              DynamicSourceForm(TRUE), DynamicSourceForm(FALSE), DynamicPriceHistoryPanel })
=============================================================================
