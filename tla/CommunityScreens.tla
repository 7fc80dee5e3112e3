--------------------------- MODULE CommunityScreens -------------------------
(***************************************************************************)
(* Communities and the people in them: the list administrators keep, the    *)
(* settings of the selected community with its parties, roles and access    *)
(* grants, and the participants with their onboarding links.                *)
(***************************************************************************)
EXTENDS SourceScreens

zevList == Query(ZevKeys.list, CommunityApi.fetchZevs)

-----------------------------------------------------------------------------
(* The administrators' list *)

\* five steps; the last shows the owner's credentials once
CreateZevWizard == Does({Offer(CommunityApi.createZevWithOwner, {ZevKeys.list})})

\* read the archive's manifest, choose sections, import; the list reloads when
\* the result is closed
ZevImportModal ==
    Part({Query(ZevKeys.transferSections, TransferApi.fetchTransferSections)},
         {Offer(TransferApi.inspectZevArchive, {}),
          Offer(TransferApi.importZevArchive, {ZevKeys.list})})

\* a disabled community is enabled or purged, any other is disabled
lifecycleActions ==
    Does({On(Confirmed(Offer(CommunityApi.enableZev, {ZevKeys.list})), {"disabled"}),
          On(Confirmed(Offer(CommunityApi.purgeZev, {ZevKeys.list})), {"disabled"}),
          On(Confirmed(Offer(CommunityApi.disableZev, {ZevKeys.list})), {"enabled"})})

ZevListPage(c) ==
    Join({ Part({zevList}, {Offer(CommunityApi.updateZev, {ZevKeys.list})}), lifecycleActions,
           When(accessFor(c).isAdmin,
                Join({Reads({Query(AuthKeys.users, UsersApi.fetchUsers)}),
                      CreateZevWizard, ZevImportModal})) })

-----------------------------------------------------------------------------
(* The settings of the selected community *)

\* the saved community replaces its entry of the list, unless a later save won
updateMutation ==
    Sets(Offer(CommunityApi.updateZev,
               {ZevKeys.list, InvoiceKeys.readiness, InvoiceKeys.readinessList}),
         {ZevKeys.list})

ZevGeneralSettingsFields ==
    Reads({Keeps(Query(ZevKeys.gridOperators, CommunityApi.fetchGridOperators)),
           Keeps(Query(ZevKeys.gridOperatorSuggestions,
                       CommunityApi.fetchGridOperatorSuggestions))})

afterPartyChange ==
    {ZevKeys.parties, <<"zev", "partyRoles", ZEV>>, <<"zev", "access", ZEV>>,
     ZevKeys.list, <<"zev", "participants">>}

\* a managing role, an ending and a deletion are asked about first
partyMutations ==
    LET does(call) == Offer(call, afterPartyChange)
    IN [create |-> does(PartyApi.createParty), update |-> does(PartyApi.updateParty),
        delete |-> Confirmed(does(PartyApi.deleteParty)),
        assign |-> Confirmed(does(PartyApi.assignPartyRole)),
        assignLandowner |-> does(PartyApi.assignPartyRole),
        setBuilding |-> Offer(PartyApi.setPartyRoleBuilding,
                              afterPartyChange \cup {ZevKeys.buildings}),
        end |-> Confirmed(does(PartyApi.endPartyRole))]

\* only a step down and a removal are asked about
useAccessActions ==
    LET reload == {<<"zev", "access", ZEV>>, ZevKeys.parties}
    IN [give |-> Offer(PartyApi.createZevAccess, reload),
        changeRole |-> Offer(PartyApi.updateZevAccess, reload),
        stepDown |-> Confirmed(Offer(PartyApi.updateZevAccess, reload)),
        resend |-> Offer(PartyApi.resendZevInvitation, {}),
        revoke |-> Confirmed(Offer(PartyApi.revokeZevAccess, reload))]

PartyFormModal == Does({partyMutations.create, partyMutations.update})
GiveAccessForm == Does({useAccessActions.give})
describeAccess ==
    Does({useAccessActions.changeRole, useAccessActions.stepDown, useAccessActions.resend,
          useAccessActions.revoke, useAccessActions.give})
SingleHolderRole == Does({partyMutations.assign})
Landowners ==
    Does({partyMutations.assignLandowner, partyMutations.setBuilding, partyMutations.end})

ZevPartiesSection(c) ==
    Join({ Reads({Query(ZevKeys.parties, PartyApi.fetchParties),
                  Query(ZevKeys.partyRoles, PartyApi.fetchPartyRoles),
                  Query(ZevKeys.buildings, BuildingApi.fetchBuildings),
                  Query(ZevKeys.access, PartyApi.fetchZevAccess)}),
           When(canWriteInSelectedCommunity(c),
                Join({PartyFormModal, GiveAccessForm, describeAccess, SingleHolderRole,
                      Landowners, Does({partyMutations.delete})})) })

ZevExportModal ==
    Reads({Query(ZevKeys.transferSections, TransferApi.fetchTransferSections)})

\* the tabs of a community; only the settings form has a save bar
ZevSettingsPage(c, tab) ==
    LET canWrite == canWriteInSelectedCommunity(c)
    IN Join({ Reads({zevList, useEnergyDataEligibility}),
              When(tab \in {"general", "billing", "documents"},
                   Join({ZevGeneralSettingsFields, When(canWrite, Does({updateMutation}))})),
              When(tab = "people", ZevPartiesSection(c)),
              When(tab = "energy", ZevEnergySources(c, canWrite)),
              When(tab = "audit",
                   Reads({Query(AdminKeys.auditEvents, AuditApi.fetchAuditEvents)})),
              When(tab = "export", ZevExportModal),
              When(tab = "export" /\ canWrite,
                   Does({On(Confirmed(Offer(CommunityApi.disableZev, {ZevKeys.list})), {"enabled"})})),
              When(accessFor(c).isAdmin,
                   Does({On(Offer(CommunityApi.enableZev, {ZevKeys.list}), {"disabled"})})) })

-----------------------------------------------------------------------------
(* Participants *)

participantMutations ==
    LET does(call) == Guarded(Offer(call, {ZevKeys.participants}), {ZevKeys.participants})
    IN [create |-> does(ParticipantApi.createParticipant),
        update |-> does(ParticipantApi.updateParticipant),
        delete |-> Confirmed(does(ParticipantApi.deleteParticipant)),
        sendLink |-> does(ParticipantApi.sendOnboardingLink),
        copyLink |-> does(ParticipantApi.getOnboardingLink),
        revokeLink |-> does(ParticipantApi.revokeOnboardingLink)]

\* an administrator ties a participant to an account; accounts that may be tied
useParticipantAccountLinking ==
    LET reload == {<<"zev", "participants">>, AuthKeys.users}
    IN Part({Query(AuthKeys.users, UsersApi.fetchUsers)},
            {Offer(ParticipantApi.linkParticipantAccount, reload),
             Confirmed(Offer(ParticipantApi.unlinkParticipantAccount, reload))})

\* the addresses and contacts a new participant can be filled from
ParticipantFormModal ==
    Part({Query(ZevKeys.parties, PartyApi.fetchParties),
          Query(ZevKeys.buildings, BuildingApi.fetchBuildings)},
         {participantMutations.create, participantMutations.update})

ParticipantCardsSection ==
    Does({participantMutations.delete, participantMutations.sendLink,
          participantMutations.copyLink, participantMutations.revokeLink})

\* a viewer downloads the contract that was issued; issuing one is a change
ParticipantsPage(c) ==
    Join({ Reads({Query(ZevKeys.participants, ParticipantApi.fetchParticipants),
                  Query(ZevKeys.participantGeocodingEnabled,
                        ParticipantApi.fetchParticipantGeocodingEnabled)}),
           When(c.on, Reads({Query(ZevKeys.buildings, BuildingApi.fetchBuildings)})),
           When(canWriteInSelectedCommunity(c),
                Join({ParticipantFormModal, ParticipantCardsSection,
                      Does({Repeatable(Offer(ParticipantApi.downloadParticipantContractPdf, {})),
                            Repeatable(Offer(InboxApi.deliverContract, {}))})})),
           When(canWriteInSelectedCommunity(c) /\ accessFor(c).isAdmin,
                useParticipantAccountLinking) })
=============================================================================
