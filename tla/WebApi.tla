------------------------------- MODULE WebApi -------------------------------
(***************************************************************************)
(* The functions of lib/api as calls: the permission level of the endpoint  *)
(* they ask, and what the answer is made of or what the request changes, by *)
(* the name of the records. One record of calls per file or part of a file; *)
(* the fields keep the functions' names. File downloads are reads.          *)
(***************************************************************************)
EXTENDS WebKit

(* lib/api/auth.ts *)

SignInApi ==
    [login |-> Send("public", {"me"}), submitMfaChallenge |-> Exempt(Send("public", {"me"})),
     logout |-> Send("public", {"me"}), fetchMe |-> Get("account", {"me"}),
     passkeyAuthenticate |-> Exempt(Send("public", {"me"}))]

SecondFactorApi ==
    [fetchMfaStatus |-> Get("account", {"mfa"}),
     beginTotpEnrolment |-> Exempt(Send("self", {})),
     confirmTotpEnrolment |-> Exempt(Send("self", {"mfa", "me"})),
     removeTotp |-> Exempt(Send("self", {"mfa", "me"})),
     regenerateRecoveryCodes |-> Exempt(Send("self", {"mfa"})),
     passkeyRegister |-> Exempt(Send("self", {"mfa", "me"})),
     renamePasskey |-> Exempt(Send("self", {"mfa"})),
     removePasskey |-> Exempt(Send("self", {"mfa", "me"}))]

SettingsApi ==
    [fetchAppSettings |-> Get("public", {"settings"}),
     fetchSystemHealth |-> Get("admin", {"health"}),
     updateAppSettings |-> Send("admin", {"settings"}),
     fetchVatRates |-> Get("admin", {"vat"}), createVatRate |-> Send("admin", {"vat"}),
     updateVatRate |-> Send("admin", {"vat"}), deleteVatRate |-> Send("admin", {"vat"}),
     fetchFeatureFlags |-> Get("admin", {"flags"}),
     fetchRegistrationEnabled |-> Get("public", {"flags"}),
     updateFeatureFlag |-> Send("admin", {"flags"})]

UsersApi ==
    [fetchUsers |-> Get("admin", {"users"}), createUser |-> Send("admin", {"users"}),
     updateUser |-> Send("admin", {"users"}), deleteUser |-> Send("admin", {"users"}),
     impersonateParticipant |-> Send("admin", {"me"}),
     resetUserMfa |-> Send("admin", {"users"}),
     revokeUserSessions |-> Send("admin", {})]

ProfileApi ==
    [updateProfile |-> Exempt(Send("account", {"me"})),
     requestEmailChange |-> Exempt(Send("self", {"me"})),
     confirmEmailChange |-> Exempt(Send("public", {"me"})),
     requestPasswordReset |-> Exempt(Send("public", {})),
     confirmPasswordReset |-> Exempt(Send("public", {})),
     revokeOtherSessions |-> Exempt(Send("self", {})),
     changePassword |-> Exempt(Send("self", {"me"})),
     resetPassword |-> Exempt(Send("self", {})), register |-> Send("public", {}),
     verifyEmail |-> Send("public", {"me"}),
     setInitialPassword |-> Exempt(Send("self", {"me"}))]

OAuthApi ==
    [fetchOAuthProviders |-> Get("public", {"oauth"}),
     oauthLoginInitiate |-> Send("public", {}), oauthLinkInitiate |-> Exempt(Send("self", {})),
     oauthTokenExchange |-> Send("public", {"me"}),
     fetchSocialAccounts |-> Get("account", {"social"}),
     deleteSocialAccount |-> Exempt(Send("self", {"social"})),
     fetchOAuthProviderConfigs |-> Get("admin", {"oauth"}),
     createOAuthProviderConfig |-> Send("admin", {"oauth"}),
     updateOAuthProviderConfig |-> Send("admin", {"oauth"}),
     deleteOAuthProviderConfig |-> Send("admin", {"oauth"})]

ApiKeysApi ==
    [fetchApiKeys |-> Get("account", {"apiKeys"}),
     createApiKey |-> Send("self", {"apiKeys"}),
     revokeApiKey |-> Exempt(Send("account", {"apiKeys"})),
     fetchAllApiKeys |-> Get("admin", {"apiKeys"}),
     revokeAnyApiKey |-> Send("admin", {"apiKeys"})]

(* lib/api/credentials.ts *)
CredentialsApi ==
    [fetchMyCredentials |-> Get("account", {"apiKeys", "tokens", "pushTokens"}),
     fetchAllCredentials |-> Get("admin", {"apiKeys", "tokens", "pushTokens"}),
     createAnalyticsToken |-> Send("self", {"tokens"}),
     revokeAnalyticsToken |-> Send("account", {"tokens"})]

(* lib/api/zev.ts *)

CommunityApi ==
    [createSelfSetupZev |-> Send("account", {"zevs", "me"}),
     fetchZevs |-> Get("view", {"zevs"}),
     createZevWithOwner |-> Send("admin", {"zevs", "users"}),
     updateZev |-> Send("write", {"zevs"}), disableZev |-> Send("manage", {"zevs"}),
     enableZev |-> Send("admin", {"zevs"}), purgeZev |-> Send("admin", {"zevs"}),
     fetchGridOperators |-> Get("account", {}),
     fetchGridOperatorSuggestions |-> Get("account", {})]

ParticipantApi ==
    [fetchParticipants |-> Get("view", {"participants"}),
     createParticipant |-> Send("write", {"participants"}),
     updateParticipant |-> Send("write", {"participants"}),
     deleteParticipant |-> Send("write", {"participants"}),
     sendOnboardingLink |-> Send("write", {"participants"}),
     getOnboardingLink |-> Send("write", {"participants"}),
     revokeOnboardingLink |-> Send("write", {"participants"}),
     linkParticipantAccount |-> Send("admin", {"participants", "users"}),
     unlinkParticipantAccount |-> Send("admin", {"participants", "users"}),
     downloadParticipantContractPdf |-> Send("write", {"contracts"}),
     downloadIssuedParticipantContractPdf |-> Get("view", {}),
     fetchParticipantGeocodingEnabled |-> Get("account", {"flags"})]

MeteringPointApi ==
    [fetchMeteringPoints |-> Get("account", {"points"}),
     createMeteringPoint |-> Send("write", {"points"}),
     updateMeteringPoint |-> Send("write", {"points"}),
     deleteMeteringPoint |-> Send("write", {"points", "assignments"}),
     deleteMeteringPointReadings |-> Send("admin", {"readings", "logs"}),
     fetchMeteringPointAssignments |-> Get("view", {"assignments"}),
     createMeteringPointAssignment |-> Send("write", {"assignments"}),
     updateMeteringPointAssignment |-> Send("write", {"assignments"}),
     deleteMeteringPointAssignment |-> Send("write", {"assignments"}),
     fetchPvPlanes |-> Get("account", {"planes"}),
     createPvPlane |-> Send("write", {"planes"}), updatePvPlane |-> Send("write", {"planes"}),
     deletePvPlane |-> Send("write", {"planes"})]

PartyApi ==
    [fetchZevAccess |-> Get("view", {"access"}),
     createZevAccess |-> Send("write", {"access"}),
     updateZevAccess |-> Send("write", {"access"}),
     revokeZevAccess |-> Send("write", {"access"}),
     resendZevInvitation |-> Send("write", {}),
     fetchParties |-> Get("view", {"parties"}), createParty |-> Send("write", {"parties"}),
     updateParty |-> Send("write", {"parties", "roles"}),
     deleteParty |-> Send("write", {"parties"}),
     fetchPartyRoles |-> Get("view", {"roles"}),
     assignPartyRole |-> Send("write", {"roles"}),
     endPartyRole |-> Send("write", {"roles"}),
     setPartyRoleBuilding |-> Send("write", {"roles"})]

BuildingApi ==
    [fetchBuildings |-> Get("view", {"buildings"}),
     createBuilding |-> Send("write", {"buildings"}),
     updateBuilding |-> Send("write", {"buildings"}),
     deleteBuilding |-> Send("write", {"buildings", "planes"}),
     locateBuilding |-> Send("write", {})]

(* lib/api/zevTransfer.ts *)
TransferApi ==
    [fetchTransferSections |-> Get("view", {}), exportZevArchive |-> Get("view", {}),
     inspectZevArchive |-> Send("admin", {}),
     importZevArchive |-> Send("admin", {"zevs", "users"})]

(* lib/api/metering.ts *)

ImportApi ==
    [fetchImportLogs |-> Get("view", {"logs"}),
     deleteImportLog |-> Send("write", {"logs", "readings"}),
     bulkDeleteImportLogs |-> Send("write", {"logs", "readings"}),
     uploadMeteringFile |-> Send("write", {"logs", "readings"}),
     previewCsvImport |-> Send("write", {}), detectCsvSettings |-> Send("write", {})]

ReadingApi ==
    [fetchChartData |-> Get("account", {"readings"}),
     fetchRawMeteringData |-> Get("account", {"readings"}),
     fetchRawMeteringDay |-> Get("account", {"readings"}),
     fetchHeldMeteringReadings |-> Get("view", {"readings"}),
     fetchMeteringDashboardSummary |-> Get("account", {"readings"}),
     fetchHourlyProfile |-> Get("account", {"readings"}),
     fetchMeteringDataQualityStatus |-> Get("account", {"readings", "assignments"})]

(* lib/api/live.ts *)
LiveApi ==
    [fetchLiveSnapshot |-> Get("member", {"live"}), fetchLiveCurve |-> Get("member", {"live"}),
     fetchOwnSeries |-> Get("member", {"live"}), fetchLiveEnabled |-> Get("account", {"flags"}),
     fetchProductionForecast |-> Get("member", {"planes"})]

(* lib/api/supplementary.ts *)
SupplementaryApi ==
    [listSupplementarySources |-> Get("account", {"sources"}),
     listEligibleMeteringPoints |-> Get("account", {"points"}),
     fetchZevEligibleSources |-> Get("view", {"points"}),
     createSupplementarySource |-> Send("self", {"sources", "pushTokens"}),
     updateSupplementarySource |-> Send("account", {"sources"}),
     deleteSupplementarySource |-> Send("account", {"sources", "live", "pushTokens"}),
     disconnectSupplementarySource |-> Send("account", {"sources"}),
     purgeSupplementaryReadings |-> Send("account", {"sources", "live"}),
     testSupplementarySource |-> Send("account", {"sources"}),
     syncSupplementarySource |-> Send("account", {"sources", "live"}),
     rotateSupplementaryPushToken |-> Send("self", {"sources", "pushTokens"}),
     revokeSupplementaryPushToken |-> Send("account", {"sources", "pushTokens"}),
     importSupplementaryCsv |-> Send("account", {"sources", "live"}),
     fetchSupplementaryReconciliation |-> Get("account", {"sources", "live"})]

(* lib/api/tariffs.ts *)

TariffApi ==
    [fetchTariffSeries |-> Get("view", {"tariffs"}),
     fetchTariffProgression |-> Get("view", {"tariffs", "prices"}),
     createTariffVersion |-> Send("write", {"tariffs"}),
     duplicateTariff |-> Send("write", {"tariffs"}),
     renameTariffSeries |-> Send("write", {"tariffs"}),
     createTariff |-> Send("write", {"tariffs"}), updateTariff |-> Send("write", {"tariffs"}),
     deleteTariff |-> Send("write", {"tariffs"}),
     createTariffPeriod |-> Send("write", {"tariffs"}),
     updateTariffPeriod |-> Send("write", {"tariffs"}),
     deleteTariffPeriod |-> Send("write", {"tariffs"})]

DynamicSourceApi ==
    [fetchDynamicTariffSources |-> Get("view", {"feeds"}),
     createDynamicTariffSource |-> Send("write", {"feeds"}),
     discoverDynamicTariffSource |-> Send("write", {}),
     updateDynamicTariffSource |-> Send("admin", {"feeds"}),
     fetchDynamicPriceHistory |-> Get("view", {"prices"}),
     queueDynamicSourceFetch |-> Queue("admin", {"feeds", "prices"}),
     recheckDynamicTariffSource |-> Send("admin", {"feeds"}),
     clearDynamicSourcePrices |-> Send("admin", {"feeds", "prices"}),
     deleteDynamicTariffSource |-> Send("admin", {"feeds"}),
     previewVseTariffImport |-> Send("write", {}),
     applyVseTariffImport |-> Send("write", {"tariffs", "feeds", "zevs"})]

(* lib/api/charges.ts *)
ChargeApi ==
    [fetchCharges |-> Get("view", {"charges"}), createCharge |-> Send("write", {"charges"}),
     updateCharge |-> Send("write", {"charges"}), deleteCharge |-> Send("write", {"charges"}),
     previewCharge |-> Post("write", {})]

(* lib/api/invoices.ts *)

InvoiceApi ==
    [fetchInvoices |-> Get("account", {"invoices"}),
     fetchInvoice |-> Get("view", {"invoices", "credits"}),
     generateInvoice |-> Send("write", {"invoices"}),
     generateInvoicesForZev |-> Queue("write", {"invoices"}),
     approveAllInvoices |-> Send("write", {"invoices"}),
     sendAllInvoices |-> Queue("write", {"invoices"}),
     generateAllPdfs |-> Queue("write", {"invoices"}),
     downloadAllPdfs |-> Post("view", {}), downloadAnnualStatement |-> Get("account", {}),
     fetchAnnualReport |-> Get("account", {"invoices", "readings"}),
     downloadFinancialSummary |-> Get("view", {}), downloadTariffOverview |-> Get("view", {}),
     fetchInvoicePeriodOverview |-> Get("view", {"invoices", "readings", "participants"})]

InvoiceStepApi ==
    [generateInvoicePdf |-> Send("write", {"invoices"}),
     revokeInvoiceAccessLink |-> Send("write", {"invoices"}),
     fetchInvoicePdfBlob |-> Get("account", {}),
     sendInvoiceEmail |-> Queue("write", {"invoices"}),
     approveInvoice |-> SendFrom("write", {"invoices"}, {"draft"}),
     markInvoiceSent |-> SendFrom("write", {"invoices"}, {"approved"}),
     markInvoicePaid |-> SendFrom("write", {"invoices"}, {"sent"}),
     recordPayment |-> SendFrom("write", {"invoices"}, {"sent"}),
     deletePayment |-> SendFrom("write", {"invoices"}, {"sent", "paid"}),
     correctInvoice |-> SendFrom("write", {"invoices", "credits"}, {"sent", "paid"}),
     listCredits |-> Get("account", {"credits"}), refundCredit |-> Send("write", {"credits"}),
     getCredit |-> Get("account", {"credits"}), downloadCreditPdf |-> Get("account", {}),
     deleteInvoice |-> Send("write", {"invoices"}),
     fetchEmailLogs |-> Get("account", {"invoices"}),
     retryFailedEmail |-> Queue("write", {"invoices"}),
     fetchDashboardStats |-> Get("admin", {"invoices"})]

TemplateApi ==
    [fetchPdfTemplate |-> Get("admin", {"templates"}),
     updatePdfTemplate |-> Send("admin", {"templates"}),
     resetPdfTemplate |-> Send("admin", {"templates"}),
     previewPdfTemplate |-> Post("admin", {}),
     fetchEmailTemplate |-> Get("admin", {"templates"}),
     updateEmailTemplate |-> Send("admin", {"templates"}),
     resetEmailTemplate |-> Send("admin", {"templates"})]

(* lib/api/readiness.ts *)
ReadinessApi ==
    LET inputs == {"invoices", "readings", "participants", "assignments", "tariffs", "zevs"}
    IN [fetchReadiness |-> Get("view", inputs), fetchReadinessList |-> Get("view", inputs),
        fetchAttention |-> Get("view", inputs)]

(* lib/api/inbox.ts *)
InboxApi ==
    [listMine |-> Get("account", {"inbox"}), listOutbox |-> Get("view", {"inbox"}),
     getInboxDocument |-> Get("account", {"inbox"}),
     downloadInboxDocument |-> Get("account", {}),
     uploadInboxDocument |-> Send("write", {"inbox"}),
     withdrawInboxDocument |-> Send("write", {"inbox"}),
     issueReport |-> Send("write", {"inbox"}), deliverContract |-> Send("write", {"inbox"})]

(* lib/api/exports.ts, backups.ts *)
ExportApi ==
    [createAnnualStatementsExport |-> Queue("view", {"exports"}),
     fetchAnnualStatementExports |-> Get("view", {"exports"}),
     fetchExportJob |-> Get("view", {"exports"}),
     downloadAnnualStatementsExport |-> Get("view", {})]

BackupApi ==
    [fetchBackupDestinations |-> Get("admin", {"destinations"}),
     createBackupDestination |-> Send("admin", {"destinations"}),
     updateBackupDestination |-> Send("admin", {"destinations"}),
     deleteBackupDestination |-> Send("admin", {"destinations"}),
     testBackupDestination |-> Send("admin", {}),
     fetchBackupJobs |-> Get("admin", {"backups"}), createBackupJob |-> Queue("admin", {"backups"}),
     downloadBackupArtifact |-> Get("admin", {}),
     fetchBackupStatus |-> Get("admin", {"backups", "destinations"}),
     fetchRestoreJobs |-> Get("admin", {"restores"}), fetchRestoreJob |-> Get("admin", {"restores"}),
     createRestoreJob |-> Queue("admin", {"restores"}),
     fetchBackupSchedule |-> Get("admin", {"schedule"}),
     updateBackupSchedule |-> Send("admin", {"schedule"}),
     verifyBackupJob |-> Queue("admin", {"backups"}),
     deleteBackupArtifact |-> Send("admin", {"backups"})]

(* lib/api/audit.ts, notifications.ts, feasibility.ts, public.ts *)
AuditApi ==
    [fetchAuditEvents |-> Get("view", {"audit"}), fetchAuditEvent |-> Get("view", {"audit"}),
     fetchAuditFilterOptions |-> Get("view", {"audit"})]

NotificationApi ==
    [fetchNotifications |-> Get("account", {"notifications"}),
     fetchUnreadNotificationCount |-> Get("account", {"notifications"}),
     markNotificationRead |-> Send("account", {"notifications"}),
     markAllNotificationsRead |-> Send("account", {"notifications"})]

FeasibilityApi ==
    [fetchFeasibilityCalculatorEnabled |-> Get("account", {"flags"}),
     calculateFeasibility |-> Post("account", {}), fetchFeasibilityPrefill |-> Get("view", {})]

PublicApi ==
    [fetchPublicInvoice |-> Get("public", {}), fetchPublicInvoiceCharts |-> Get("public", {}),
     requestMagicLink |-> Send("public", {}), consumeMagicLink |-> Send("public", {"me"}),
     consumeOnboardingLink |-> Send("public", {"me"})]
=============================================================================
