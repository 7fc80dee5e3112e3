-------------------------------- MODULE Pages -------------------------------
(***************************************************************************)
(* The routes of the web client and what each is made of. An address is the *)
(* sequence of its parts; a part after "?" is a search parameter, one that  *)
(* begins with ":" stands for any value.                                    *)
(***************************************************************************)
EXTENDS AdminScreens, MeteringScreens, AccountScreens

ZEV_SCOPE    == {"admin", "manager", "viewer"}
ACTIVE_SCOPE == ZEV_SCOPE \cup {"participant"}
anyone       == Relations \cup {"none"}

Home == <<>>
Login == <<"login">>
Account == <<"account">>
MyDocuments == <<"me", "documents">>
Verify == <<"verify-email">>
invoiceDetail == <<"billing", "invoices", ":invoiceId">>

-----------------------------------------------------------------------------
(* The routes of AppRoutes, by what stands in front of them. *)

publicRoutes ==
    {Login, Verify, <<"confirm-email-change">>, <<"forgot-password">>, <<"reset-password">>,
     <<"oauth", "callback">>, <<"i", ":prefix">>, <<"signin", ":token">>, <<"join", ":prefix">>}

adminOverviewTabs == {"overview", "zevs", "invoices", "dynamic-sources", "audit", "health"}
settingsTabs == {"regional", "features", "oauth", "security", "vat", "backup"}

adminRoutes ==
    {<<"admin">>, <<"admin", "accounts">>, <<"admin", "accounts", "users">>,
     <<"admin", "accounts", "tokens">>, <<"admin", "templates">>, <<"admin", "templates", "pdf">>,
     <<"admin", "templates", "email">>, <<"admin", "system-settings">>}
      \cup {<<"admin", tab>> : tab \in adminOverviewTabs}
      \cup {<<"admin", "system-settings", "?", tab>> : tab \in settingsTabs}

zevSettingsTabs == {"general", "people", "billing", "documents", "energy", "audit", "export"}

zevRoutes ==
    {<<"participants">>, <<"zev-settings">>, <<"metering", "quality">>, <<"metering", "imports">>,
     <<"tariffs">>, <<"tariffs", "progression">>, <<"billing", "periods">>,
     <<"billing", "invoices">>, <<"billing", "emails">>, <<"documents">>, <<"feasibility">>,
     <<"zev-settings", "parties">>, <<"zev-settings", "access">>}
      \cup {<<"zev-settings", tab>> : tab \in zevSettingsTabs}

activeRoutes ==
    {<<"dashboard">>, <<"my-energy">>, <<"metering", "points">>, <<"metering", "chart">>,
     <<"me", "metering-points">>}

(* Former addresses. billing/periods and the merged settings tabs are       *)
(* behind a guard of their own, the others redirect before any role is      *)
(* asked for.                                                               *)
aliases ==
    (<<"live">> :> <<"my-energy">>) @@
    (<<"admin", "accounts", "api-keys">> :> <<"admin", "accounts", "tokens">>) @@
    (<<"admin", "api-keys">> :> <<"admin", "accounts", "tokens">>) @@
    (<<"admin", "pdf-templates">> :> <<"admin", "templates", "pdf">>) @@
    (<<"admin", "email-templates">> :> <<"admin", "templates", "email">>) @@
    (<<"admin", "audit-logs">> :> <<"admin", "audit">>) @@
    (<<"admin", "settings", "regional">> :> <<"admin", "system-settings", "?", "regional">>) @@
    (<<"admin", "settings", "vat">> :> <<"admin", "system-settings", "?", "vat">>) @@
    (<<"admin", "features">> :> <<"admin", "system-settings", "?", "features">>) @@
    (<<"admin", "oauth">> :> <<"admin", "system-settings", "?", "oauth">>) @@
    (<<"metering-points">> :> <<"metering", "points">>) @@
    (<<"metering">> :> <<"metering", "chart">>) @@
    (<<"billing", "periods">> :> Home) @@
    (<<"billing", "documents">> :> <<"documents">>) @@
    (<<"billing", "statements">> :> <<"reports">>) @@
    (<<"billing">> :> <<"billing", "invoices">>) @@
    (<<"invoices">> :> <<"billing", "invoices">>) @@
    (<<"audit-logs">> :> <<"zev-settings", "audit">>) @@
    (<<"me", "invoices">> :> MyDocuments) @@
    (<<"imports">> :> <<"metering", "imports">>) @@
    (<<"zev-settings", "parties">> :> <<"zev-settings", "people">>) @@
    (<<"zev-settings", "access">> :> <<"zev-settings", "people">>)

InvoiceDetailAlias == <<"invoices", ":invoiceId">> :> invoiceDetail
MeteringDataAlias ==
    (<<"metering-data">> :> <<"metering", "chart">>) @@
    (<<"metering-data", "?", "quality">> :> <<"metering", "quality">>)

\* mutant: two former addresses lead to each other
aliasesCrossed ==
    (<<"admin", "accounts", "api-keys">> :> <<"admin", "api-keys">>) @@
    (<<"admin", "api-keys">> :> <<"admin", "accounts", "api-keys">>) @@
    aliases @@ InvoiceDetailAlias @@ MeteringDataAlias
AliasNavigate == aliases @@ InvoiceDetailAlias @@ MeteringDataAlias

shellRoutes ==
    adminRoutes \cup zevRoutes \cup activeRoutes \cup DOMAIN AliasNavigate
      \cup {Home, Account, invoiceDetail, MyDocuments, <<"reports">>, <<"me", "statement">>}
NotFound == <<"no", "such", "page">>
Paths == publicRoutes \cup shellRoutes \cup {NotFound}

allowedRoles(p) ==
    CASE p \in adminRoutes  -> {"admin"}
      [] p \in zevRoutes    -> ZEV_SCOPE
      [] p \in activeRoutes -> ACTIVE_SCOPE
      [] p = MyDocuments    -> ACTIVE_SCOPE \cup {"former"}
      [] p = <<"reports">>  -> ACTIVE_SCOPE
      [] p = <<"me", "statement">> -> {"participant"}
      [] OTHER -> anyone

-----------------------------------------------------------------------------
(* What a page is made of, and where the shell's links lead *)

\* the account's entries of the side bar, by its relation
SidebarLinks(w) ==
    LET manage == {Home, <<"dashboard">>, <<"metering", "chart">>, <<"billing", "invoices">>,
                   <<"documents">>, <<"reports">>, <<"participants">>, <<"metering", "points">>,
                   <<"tariffs">>, <<"zev-settings">>}
        optional == {<<"my-energy">>, <<"feasibility">>, <<"me", "metering-points">>, MyDocuments}
        take == {Home, MyDocuments, <<"me", "statement">>, <<"me", "metering-points">>}
        platform == {<<"admin">>, <<"admin", "accounts">>, <<"admin", "templates">>,
                     <<"admin", "system-settings">>}
    IN {Account} \cup
       (IF accessFor(w).isZevScope THEN manage ELSE {}) \cup
       (IF accessFor(w).isZevScope /\ w.on THEN optional ELSE {}) \cup
       (IF w.role = "participant" THEN take ELSE {}) \cup
       (IF w.role = "participant" /\ w.on THEN {<<"my-energy">>} ELSE {}) \cup
       (IF w.role = "former" THEN {MyDocuments} ELSE {}) \cup
       (IF w.role = "admin" THEN platform ELSE {})

\* where the notifications of an audience lead
notificationLink(audience) ==
    IF audience = "participant" THEN {MyDocuments, <<"me", "metering-points">>}
    ELSE {invoiceDetail, <<"metering", "imports">>, <<"billing", "invoices">>}

\* what a new community still lacks
SetupGuidance == {<<"participants">>, <<"metering", "points">>, <<"tariffs">>,
                  <<"zev-settings", "billing">>, <<"zev-settings", "people">>}
\* what an empty list of invoices waits for
InvoicesEmptyState == {<<"participants">>, <<"metering", "points">>, <<"tariffs">>}

\* the links inside the pages
pageLinks(w, p) ==
    CASE p = Home /\ w.role \in ZEV_SCOPE -> SetupGuidance \cup {<<"billing", "invoices">>}
      [] p = Account -> {<<"me", "metering-points">>}
      [] p = <<"my-energy">> ->
           {<<"me", "metering-points">>, <<"dashboard">>}
             \cup IF accessFor(w).canManage THEN {<<"zev-settings", "energy">>} ELSE {}
      [] p = <<"me", "metering-points">> -> {<<"metering", "chart">>}
      [] p = <<"metering", "points">> ->
           {<<"metering", "chart">>, <<"metering-data", "?", "quality">>}
      [] p = <<"billing", "invoices">> -> InvoicesEmptyState \cup {invoiceDetail}
      [] p = <<"tariffs">> -> {<<"tariffs", "progression">>}
      [] p = <<"tariffs", "progression">> -> {<<"tariffs">>}
      [] p = <<"zev-settings", "export">> -> IF w.role = "admin" THEN {<<"admin", "zevs">>} ELSE {}
      [] p = <<"admin", "overview">> -> {<<"admin", "invoices">>, <<"admin", "health">>}
      [] p = <<"admin", "health">> -> {<<"admin", "system-settings", "?", "backup">>,
                                       <<"admin", "system-settings", "?", "features">>}
      [] p = <<"admin", "zevs">> -> {Home}
      [] OTHER -> {}

\* the count is asked again by itself, the list while it is open
NotificationBell ==
    Part({Polls(Query(NotificationKeys.unreadCount,
                      NotificationApi.fetchUnreadNotificationCount)),
          Query(NotificationKeys.list, NotificationApi.fetchNotifications)},
         {Offer(NotificationApi.markNotificationRead, {NotificationKeys.all}),
          Offer(NotificationApi.markAllNotificationsRead, {NotificationKeys.all})})

\* the shell reads for itself
Layout(w) ==
    Join({ Reads({useEnergyDataEligibility}), NotificationBell,
           When(accessFor(w).isZevScope,
                Reads({zevList, Keeps(Query(FeasibilityKeys.enabled,
                                      FeasibilityApi.fetchFeasibilityCalculatorEnabled))})),
           When(w.role \in ACTIVE_SCOPE, Reads({useLiveEnabled})) })

OverviewPage(w) ==
    Join({ Reads({Query(InvoiceKeys.readiness, ReadinessApi.fetchReadiness),
                  Query(InvoiceKeys.attention, ReadinessApi.fetchAttention)}),
           BillingPeriodsPage(w) })

PrefillFromZevCard == Part({zevList}, {Offer(FeasibilityApi.fetchFeasibilityPrefill, {})})

\* every change of the form asks for a new calculation
FeasibilityCalculator ==
    Join({PrefillFromZevCard, Does({Repeatable(Offer(FeasibilityApi.calculateFeasibility, {}))})})

FeasibilityCalculatorPage(w) ==
    Join({ Reads({Query(FeasibilityKeys.enabled, FeasibilityApi.fetchFeasibilityCalculatorEnabled)}),
           When(w.on, FeasibilityCalculator) })

communityPage(w, p) ==
    CASE p = Home -> IF w.role \in ZEV_SCOPE THEN OverviewPage(w)
                     ELSE IF w.role = "none" THEN Nothing ELSE DashboardPage(w)
      [] p = <<"dashboard">> -> DashboardPage(w)
      [] p = <<"my-energy">> -> MyEnergyView(w)
      [] p = <<"participants">> -> ParticipantsPage(w)
      [] p = <<"zev-settings">> -> ZevSettingsPage(w, "general")
      [] p \in {<<"zev-settings", tab>> : tab \in zevSettingsTabs} -> ZevSettingsPage(w, p[2])
      [] p = <<"metering", "points">> -> MeteringPointsPage(w)
      [] p \in {<<"metering", tab>> : tab \in {"chart", "quality", "imports"}} ->
           MeteringChartPage(w, p[2])
      [] p = <<"tariffs">> -> TariffsPage(w)
      [] p = <<"tariffs", "progression">> -> TariffProgressionPage(w)
      [] p \in {<<"billing", "invoices">>, <<"billing", "emails">>} -> BillingHubPage(w, p[2])
      [] p = invoiceDetail -> InvoiceDetailPage(w)
      [] p = <<"documents">> -> Outbox(w)
      [] p = MyDocuments -> DocumentsPage(w)
      [] p = <<"me", "metering-points">> -> MyMeteringPointsPage(w)
      [] p \in {<<"reports">>, <<"me", "statement">>} -> ReportsPage(w)
      [] p = <<"feasibility">> -> FeasibilityCalculatorPage(w)
      [] OTHER -> Nothing

adminPage(w, p) ==
    IF Len(p) = 1 THEN AdminOverviewHubPage(w, "overview")
    ELSE CASE p[2] \in adminOverviewTabs -> AdminOverviewHubPage(w, p[2])
           [] p[2] = "accounts" -> AdminAccountsHubPage(Last(p))
           [] p[2] = "templates" -> AdminTemplatesHubPage(Last(p))
           [] p[2] = "system-settings" -> AdminSystemSettingsPage(Last(p))
           [] OTHER -> Nothing

publicPage(p, at) ==
    CASE p = Login -> LoginPage(at)
      [] p = Verify -> verifySteps(at)
      [] p = <<"confirm-email-change">> -> ConfirmEmailChangePage
      [] p = <<"forgot-password">> -> ForgotPasswordPage
      [] p = <<"reset-password">> -> ResetPasswordPage
      [] p = <<"oauth", "callback">> -> tokenPages.oauth
      [] p = <<"i", ":prefix">> -> PublicInvoicePage
      [] p = <<"signin", ":token">> -> tokenPages.signin
      [] p = <<"join", ":prefix">> -> tokenPages.join
      [] OTHER -> Nothing

shellPage(w, p) ==
    Join({ Layout(w),
           IF p = Account THEN AccountProfilePage(w)
           ELSE IF p \in adminRoutes THEN adminPage(w, p)
           ELSE communityPage(w, p) })
=============================================================================
