---------------------------- MODULE AccountScreens --------------------------
(***************************************************************************)
(* The account's own page in its three tabs, and the pages that work        *)
(* without a session. The security tab is one disabled fieldset while an    *)
(* administrator acts in the account.                                       *)
(***************************************************************************)
EXTENDS WebKeys, WebApi

mfaStatus == Query(AuthKeys.mfa, SecondFactorApi.fetchMfaStatus)

(* Profile: what was saved is shown from the session's user, which no query *)
(* holds; ProfileCard refetches a key that nothing is read under.           *)
EmailChangeForm == Does({Offer(ProfileApi.requestEmailChange, {})})

ProfileCard(c) ==
    Join({ Does({Offer(ProfileApi.updateProfile, {<<"auth", "me">>})}),
           When(~c.acting, EmailChangeForm) })

(* Security *)

\* set a first password, change the one there is, or have a link mailed;
\* each but the last reloads the session's user
PasswordCard ==
    Does({Offer(ProfileApi.setInitialPassword, {}), Offer(ProfileApi.changePassword, {}),
          Offer(ProfileApi.resetPassword, {})})

LinkedAccountsCard(c) ==
    Join({ Reads({Query(AuthKeys.socialAccounts, OAuthApi.fetchSocialAccounts),
                  Query(AuthKeys.oauthProviders, OAuthApi.fetchOAuthProviders)}),
           When(~c.acting,
                Does({Offer(OAuthApi.oauthLinkInitiate, {}),
                      Confirmed(Offer(OAuthApi.deleteSocialAccount, {AuthKeys.socialAccounts}))})) })

SessionsCard == Does({Confirmed(Offer(ProfileApi.revokeOtherSessions, {}))})

\* a secret is drawn, a code confirms it; removing asks first
TotpBlock ==
    Does({Offer(SecondFactorApi.beginTotpEnrolment, {}),
          Offer(SecondFactorApi.confirmTotpEnrolment, {AuthKeys.mfa}),
          Confirmed(Offer(SecondFactorApi.removeTotp, {AuthKeys.mfa}))})

PasskeysBlock ==
    Does({Offer(SecondFactorApi.passkeyRegister, {AuthKeys.mfa}),
          Offer(SecondFactorApi.renamePasskey, {AuthKeys.mfa}),
          Confirmed(Offer(SecondFactorApi.removePasskey, {AuthKeys.mfa}))})

TwoFactorSection(c) ==
    Join({ Reads({mfaStatus}),
           When(~c.acting,
                Join({TotpBlock, PasskeysBlock,
                      Does({Offer(SecondFactorApi.regenerateRecoveryCodes, {AuthKeys.mfa})})})) })

(* Tokens: API keys, analytics tokens and the push tokens of the sources,   *)
(* in one list. Taking one away is allowed on the holder's behalf.          *)
tokensRefresh == {AuthKeys.credentials, AuthKeys.apiKeys, MeteringKeys.supplementarySources}

CreateApiKeyForm == Does({Offer(ApiKeysApi.createApiKey, tokensRefresh)})

CreateAnalyticsTokenForm(c) ==
    Part(IF accessFor(c).isAdmin THEN {Query(ZevKeys.list, CommunityApi.fetchZevs)} ELSE {},
         {Offer(CredentialsApi.createAnalyticsToken, tokensRefresh)})

TokensSection(c) ==
    Join({ Part({Query(AuthKeys.credentials, CredentialsApi.fetchMyCredentials)},
                {Confirmed(Offer(ApiKeysApi.revokeApiKey, tokensRefresh)),
                 Confirmed(Offer(CredentialsApi.revokeAnalyticsToken, tokensRefresh)),
                 Confirmed(Offer(SupplementaryApi.revokeSupplementaryPushToken, tokensRefresh))}),
           When(~c.acting,
                Join({Does({Confirmed(Offer(SupplementaryApi.rotateSupplementaryPushToken,
                                            tokensRefresh))}),
                      CreateApiKeyForm, CreateAnalyticsTokenForm(c)})) })

\* the panels stay mounted, whichever is in front
AccountProfilePage(c) ==
    Join({ ProfileCard(c), LinkedAccountsCard(c), TwoFactorSection(c), TokensSection(c),
           When(~c.acting, Join({PasswordCard, SessionsCard})) })

-----------------------------------------------------------------------------
(* Without a session *)

\* what the installation lets a visitor do
signInQueries ==
    {Keeps(Query(AuthKeys.registrationEnabled, SettingsApi.fetchRegistrationEnabled)),
     Keeps(Query(AuthKeys.oauthProviders, OAuthApi.fetchOAuthProviders))}

handleRegister == Offer(ProfileApi.register, {})

\* a password, then a code if the account has a second factor; the
\* registration stands beside either
LoginPage(step) ==
    LET doors == {Offer(SignInApi.login, {}), Offer(SignInApi.passkeyAuthenticate, {}),
                  Offer(OAuthApi.oauthLoginInitiate, {})}
    IN Part(signInQueries,
            {handleRegister} \cup
              IF step = "code" THEN {Offer(SignInApi.submitMfaChallenge, {})} ELSE doors)

\* the link of a registration or an invitation: verify, choose a password,
\* and set up a community unless one was waiting
verifySteps(step) ==
    CASE step = "verifying"  -> Does({Offer(ProfileApi.verifyEmail, {})})
      [] step \in {"signup", "invitation"} -> Does({Offer(ProfileApi.setInitialPassword, {})})
      [] step = "create-zev" -> Does({Offer(CommunityApi.createSelfSetupZev, {})})
      [] OTHER               -> Nothing

ForgotPasswordPage == Does({Offer(ProfileApi.requestPasswordReset, {})})
ResetPasswordPage == Does({Offer(ProfileApi.confirmPasswordReset, {})})
ConfirmEmailChangePage == Does({Offer(ProfileApi.confirmEmailChange, {})})

\* opened from the code printed on an invoice; the charts follow the invoice
PublicInvoicePage ==
    Part({Query(<<"public-invoice", "$", "$">>, PublicApi.fetchPublicInvoice),
          Query(<<"public-invoice-charts", "$", "$">>, PublicApi.fetchPublicInvoiceCharts)},
         {Offer(PublicApi.requestMagicLink, {})})

tokenPages ==
    [signin |-> Does({Offer(PublicApi.consumeMagicLink, {})}),
     join   |-> Does({Offer(PublicApi.consumeOnboardingLink, {})}),
     oauth  |-> Does({Offer(OAuthApi.oauthTokenExchange, {})})]
=============================================================================
