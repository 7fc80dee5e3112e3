------------------------------- MODULE WebKeys ------------------------------
(***************************************************************************)
(* The keys of the query cache, lib/api/queryKeys.ts. A key is a sequence   *)
(* invalidated by prefix, so what a name is spelled as matters: an          *)
(* invalidation reaches a query exactly when its key is a prefix. ZEV       *)
(* stands for the selected community's id, "$" for any other parameter.     *)
(***************************************************************************)
EXTENDS WebKit

NotificationKeys ==
    [all |-> <<"notifications">>, unreadCount |-> <<"notifications", "unread-count">>,
     list |-> <<"notifications", "list">>]

AuthKeys ==
    LET auth(name) == <<"auth", name>>
    IN [appSettings |-> auth("app-settings"), systemHealth |-> auth("system-health"),
        users |-> auth("users"), featureFlags |-> auth("feature-flags"),
        registrationEnabled |-> auth("registration-enabled"),
        vatRates |-> auth("vat-rates"), oauthProviders |-> auth("oauth-providers"),
        socialAccounts |-> auth("social-accounts"), apiKeys |-> auth("api-keys"),
        mfa |-> auth("mfa"), credentials |-> auth("credentials"),
        allCredentialsRoot |-> auth("all-credentials"),
        allCredentials |-> auth("all-credentials") \o <<"$", "$", "$">>,
        allApiKeysRoot |-> auth("all-api-keys"),
        allApiKeys |-> auth("all-api-keys") \o <<"$", "$">>,
        oauthProviderConfigs |-> auth("oauth-provider-configs")]

ZevKeys ==
    [list |-> <<"zev", "list">>, participants |-> <<"zev", "participants", ZEV>>,
     allParticipants |-> <<"zev", "participants", "all">>,
     transferSections |-> <<"zev", "transfer-sections">>,
     gridOperators |-> <<"zev", "grid-operators">>,
     gridOperatorSuggestions |-> <<"zev", "grid-operators", "suggest", "$">>,
     participantGeocodingEnabled |-> <<"zev", "participant-geocoding-enabled">>,
     access |-> <<"zev", "access", ZEV, "$">>, parties |-> <<"zev", "parties", ZEV>>,
     buildings |-> <<"zev", "buildings", ZEV>>, pvPlanes |-> <<"zev", "pv-planes", "$">>,
     partyRoles |-> <<"zev", "partyRoles", ZEV, "$">>]

TariffKeys ==
    [series |-> <<"tariffs", "series", ZEV>>,
     progression |-> <<"tariffs", "progression", ZEV, "$", "$", "$">>,
     dynamicSources |-> <<"tariffs", "dynamic-sources">>,
     dynamicPrices |-> <<"tariffs", "dynamic-sources", "$", "prices", "$", "$">>]

ChargeKeys ==
    [lists |-> <<"charges", "list">>, list |-> <<"charges", "list", ZEV, "$", "$">>,
     preview |-> <<"charges", "preview", "$">>]

FeasibilityKeys == [enabled |-> <<"feasibility", "enabled">>]

BackupKeys ==
    [destinations |-> <<"backups", "destinations">>, jobs |-> <<"backups", "jobs">>,
     status |-> <<"backups", "status">>, schedule |-> <<"backups", "schedule">>,
     restores |-> <<"backups", "restores">>, restore |-> <<"backups", "restores", "$">>]

InboxKeys ==
    [all |-> <<"inbox">>, mine |-> <<"inbox", "list", "mine", "$">>,
     outbox |-> <<"inbox", "list", "outbox", ZEV>>]

InvoiceKeys ==
    LET invoices(name) == <<"invoices", name>>
    IN [lists |-> invoices("list"), list |-> invoices("list") \o <<ZEV, "$">>,
        mine |-> invoices("mine"), credits |-> invoices("credits"),
        detail |-> invoices("detail") \o <<"$">>, dashboard |-> invoices("dashboard"),
        periodOverview |-> invoices("period-overview") \o <<ZEV, "$", "$">>,
        readiness |-> invoices("readiness") \o <<ZEV>>,
        readinessAll |-> invoices("readiness") \o <<"all">>,
        readinessList |-> invoices("readiness-list") \o <<ZEV>>,
        attention |-> invoices("attention") \o <<ZEV>>,
        annualReport |-> invoices("annual-report") \o <<ZEV, "$">>]

AdminKeys ==
    [emailTemplate |-> <<"admin", "email-template", "$">>,
     invoicePdfTemplate |-> <<"admin", "pdf-template", "invoice">>,
     contractPdfTemplate |-> <<"admin", "pdf-template", "contract">>,
     annualStatementPdfTemplate |-> <<"admin", "pdf-template", "annual-statement">>,
     creditNotePdfTemplate |-> <<"admin", "pdf-template", "credit-note">>,
     auditEvents |-> <<"admin", "audit-events", "$">>,
     auditEvent |-> <<"admin", "audit-event", "$">>,
     auditFilterOptions |-> <<"admin", "audit-events", "filter-options">>]

MeteringKeys ==
    LET metering(name) == <<"metering", name>>
    IN [all |-> <<"metering">>, points |-> metering("points") \o <<ZEV>>,
        allPoints |-> metering("points") \o <<"all">>,
        pointAssignments |-> metering("point-assignments") \o <<"$">>,
        allAssignments |-> metering("point-assignments") \o <<"all">>,
        importLogs |-> metering("import-logs"),
        chartData |-> metering("chart-data") \o <<"$", "$", "$", "$">>,
        rawData |-> metering("raw-data") \o <<"$", "$", "$">>,
        rawDay |-> metering("raw-day") \o <<"$", "$">>,
        heldReadings |-> metering("held-readings") \o <<"$", "$", "$", "$", "$">>,
        dashboardSummary |-> metering("dashboard-summary") \o <<ZEV>>,
        qualityStatus |-> metering("quality-status") \o <<"$", "$", ZEV, "$">>,
        supplementarySources |-> metering("supplementary-sources"),
        supplementaryEligible |-> metering("supplementary-eligible"),
        supplementaryZevEligibleAll |-> metering("supplementary-zev-eligible"),
        supplementaryZevEligible |-> metering("supplementary-zev-eligible") \o <<ZEV>>,
        supplementaryReconciliation |-> metering("supplementary-reconciliation") \o <<"$">>,
        hourlyProfile |-> metering("hourly-profile") \o <<"$", "$", ZEV, "$">>]

LiveKeys ==
    [all |-> <<"live">>, enabled |-> <<"live", "enabled">>,
     snapshot |-> <<"live", "snapshot", ZEV>>, curve |-> <<"live", "curve", ZEV, "$", "$">>,
     forecast |-> <<"live", "forecast", ZEV>>,
     ownSeries |-> <<"live", "own-series", ZEV, "$", "$", "$", "$">>]

\* everything a change of readings can show in
invalidateReadingQueries == {MeteringKeys.all, <<"invoices">>}
=============================================================================
