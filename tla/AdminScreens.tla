----------------------------- MODULE AdminScreens ---------------------------
(***************************************************************************)
(* The platform's own area: the hub of communities, invoices, feeds, audit   *)
(* log and health, the accounts and their credentials, the templates, the   *)
(* settings and the backups. Most saves put the answer into the cache.      *)
(***************************************************************************)
EXTENDS BillingScreens, TariffScreens, CommunityScreens

-----------------------------------------------------------------------------
(* System settings, by tab *)

\* the saved settings replace the cached ones
saveRegional == Sets(Offer(SettingsApi.updateAppSettings, {}), {AuthKeys.appSettings})

\* a flag decides what health reports and which sources and points are listed
featureToggle ==
    Offer(SettingsApi.updateFeatureFlag,
          {AuthKeys.featureFlags, AuthKeys.systemHealth, MeteringKeys.supplementaryEligible,
           MeteringKeys.supplementarySources, <<"metering", "points">>})

oauthMutations ==
    LET reload == {AuthKeys.oauthProviderConfigs}
    IN {Offer(OAuthApi.createOAuthProviderConfig, reload),
        Offer(OAuthApi.updateOAuthProviderConfig, reload),
        Confirmed(Offer(OAuthApi.deleteOAuthProviderConfig, reload))}

\* who must have a second factor, and until when
MfaPolicySection ==
    Part({Query(AuthKeys.systemHealth, SettingsApi.fetchSystemHealth)},
         {Sets(Offer(SettingsApi.updateAppSettings, {AuthKeys.mfa}), {AuthKeys.appSettings})})

AnalyticsPrivacySection ==
    Does({Sets(Offer(SettingsApi.updateAppSettings, {}), {AuthKeys.appSettings})})

VatSettingsSection ==
    LET reload == {AuthKeys.vatRates}
    IN Part({Query(AuthKeys.vatRates, SettingsApi.fetchVatRates)},
            {Offer(SettingsApi.createVatRate, reload), Offer(SettingsApi.updateVatRate, reload),
             Confirmed(Offer(SettingsApi.deleteVatRate, reload))})

-----------------------------------------------------------------------------
(* Backups *)

backupDestinations == Query(BackupKeys.destinations, BackupApi.fetchBackupDestinations)
backupStatus == Query(BackupKeys.status, BackupApi.fetchBackupStatus)

\* a test answers at once and is shown as a message only
BackupDestinationsSection ==
    LET reload == {BackupKeys.destinations, BackupKeys.status}
    IN Part({backupDestinations},
            {Offer(BackupApi.createBackupDestination, reload),
             Offer(BackupApi.updateBackupDestination, reload),
             Confirmed(Offer(BackupApi.deleteBackupDestination, reload)),
             Offer(BackupApi.testBackupDestination, {})})

\* polled while a job runs; the status is asked again when the last one ends
BackupJobsSection ==
    Part({backupDestinations, Query(ZevKeys.list, CommunityApi.fetchZevs),
          Polls(Query(BackupKeys.jobs, BackupApi.fetchBackupJobs))},
         {Offer(BackupApi.createBackupJob, {BackupKeys.jobs}),
          Offer(BackupApi.verifyBackupJob, {BackupKeys.jobs}),
          Confirmed(Offer(BackupApi.deleteBackupArtifact, {BackupKeys.jobs}))})

\* a preview runs first; applying it needs the community's name typed
BackupRestoreSection ==
    LET restores == {BackupKeys.restores}
    IN Part({Query(BackupKeys.jobs, BackupApi.fetchBackupJobs), backupDestinations,
             Polls(Query(BackupKeys.restores, BackupApi.fetchRestoreJobs)),
             Polls(Query(BackupKeys.restore, BackupApi.fetchRestoreJob))},
            {Offer(BackupApi.createRestoreJob, restores),
             Confirmed(Offer(BackupApi.createRestoreJob, restores))})

BackupScheduleSection ==
    Part({Query(BackupKeys.schedule, BackupApi.fetchBackupSchedule)},
         {Sets(Offer(BackupApi.updateBackupSchedule, {BackupKeys.status}), {BackupKeys.schedule})})

BackupSettingsSection ==
    Join({Reads({backupStatus}), BackupDestinationsSection, BackupJobsSection,
          BackupRestoreSection, BackupScheduleSection})

AdminSystemSettingsPage(tab) ==
    Join({ Reads({Query(AuthKeys.appSettings, SettingsApi.fetchAppSettings)}),
           When(tab = "regional", Does({saveRegional})),
           When(tab = "features",
                Part({Query(AuthKeys.featureFlags, SettingsApi.fetchFeatureFlags)}, {featureToggle})),
           When(tab = "oauth",
                Part({Query(AuthKeys.oauthProviderConfigs, OAuthApi.fetchOAuthProviderConfigs)},
                     oauthMutations)),
           When(tab = "security", Join({MfaPolicySection, AnalyticsPrivacySection})),
           When(tab = "vat", VatSettingsSection),
           When(tab = "backup", BackupSettingsSection) })

-----------------------------------------------------------------------------
(* Accounts *)

\* switching an account on is the one change of access that is not asked about
accountMutations ==
    LET reload == {AuthKeys.users}
    IN {Offer(UsersApi.createUser, reload), Offer(UsersApi.updateUser, reload),
        Confirmed(Offer(UsersApi.deleteUser, reload)),
        Confirmed(Offer(UsersApi.resetUserMfa, reload)),
        Confirmed(Offer(UsersApi.revokeUserSessions, {})),
        Confirmed(Offer(UsersApi.impersonateParticipant, {}))}

AdminAccountsPage ==
    Part({Query(AuthKeys.users, UsersApi.fetchUsers), zevList}, accountMutations)

AdminCredentialsPage ==
    LET reload == {AuthKeys.allCredentialsRoot, AuthKeys.credentials}
    IN Part({Query(AuthKeys.allCredentials, CredentialsApi.fetchAllCredentials),
             Query(AuthKeys.users, UsersApi.fetchUsers)},
            {Confirmed(Offer(ApiKeysApi.revokeAnyApiKey, reload)),
             Confirmed(Offer(CredentialsApi.revokeAnalyticsToken, reload)),
             Confirmed(Offer(SupplementaryApi.revokeSupplementaryPushToken, reload))})

AdminAccountsHubPage(tab) ==
    IF tab = "tokens" THEN AdminCredentialsPage ELSE AdminAccountsPage

-----------------------------------------------------------------------------
(* Templates: a save cancels what is being read and replaces it.            *)

TemplateEditor(key) ==
    LET saves(call) == [call EXCEPT !.writes = {Last(key)}]
    IN Part({Query(key, [TemplateApi.fetchPdfTemplate EXCEPT !.reads = {Last(key)}])},
            {Replaces(Offer(saves(TemplateApi.updatePdfTemplate), {}), {key}),
             Replaces(Confirmed(Offer(saves(TemplateApi.resetPdfTemplate), {})), {key})})

EmailTemplateEditor ==
    LET key == AdminKeys.emailTemplate
    IN Part({Query(key, TemplateApi.fetchEmailTemplate)},
            {Replaces(Offer(TemplateApi.updateEmailTemplate, {}), {key}),
             Replaces(Confirmed(Offer(TemplateApi.resetEmailTemplate, {})), {key})})

PDF_TEMPLATE_CONFIG ==
    {AdminKeys.invoicePdfTemplate, AdminKeys.contractPdfTemplate,
     AdminKeys.annualStatementPdfTemplate, AdminKeys.creditNotePdfTemplate}

AdminTemplatesHubPage(tab) ==
    IF tab = "email" THEN EmailTemplateEditor
    ELSE Join({TemplateEditor(key) : key \in PDF_TEMPLATE_CONFIG})

-----------------------------------------------------------------------------
(* The hub *)

AdminDashboardPage == Reads({Query(InvoiceKeys.dashboard, InvoiceStepApi.fetchDashboardStats)})

AdminSystemHealthPanel == Reads({Query(AuthKeys.systemHealth, SettingsApi.fetchSystemHealth)})

AuditEventPane == Reads({Query(AdminKeys.auditEvent, AuditApi.fetchAuditEvent)})

\* the platform's log, or the selected community's
AuditLogsPage(c, scope) ==
    When(scope = "admin" \/ accessFor(c).isZevScope,
         Join({ Reads({Query(AdminKeys.auditEvents, AuditApi.fetchAuditEvents),
                       Query(AdminKeys.auditFilterOptions, AuditApi.fetchAuditFilterOptions)}),
                AuditEventPane }))

AdminOverviewHubPage(c, tab) ==
    CASE tab = "overview"        -> AdminDashboardPage
      [] tab = "zevs"            -> ZevListPage(c)
      [] tab = "invoices"        -> AdminInvoicesContent
      [] tab = "dynamic-sources" -> AdminDynamicSourcesPanel
      [] tab = "audit"           -> AuditLogsPage(c, "admin")
      [] tab = "health"          -> AdminSystemHealthPanel
=============================================================================
