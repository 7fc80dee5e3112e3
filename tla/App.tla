--------------------------------- MODULE App --------------------------------
(***************************************************************************)
(* The router of the web client: which page an address shows to whom. An    *)
(* address is the sequence of its parts, a "?" part is a search parameter.  *)
(* A page inside the shell is behind the guards of ProtectedRoute and the   *)
(* second-factor gate; a guard that refuses navigates elsewhere, so a       *)
(* refused address is left in one or more steps. The account moves too: it  *)
(* signs in and out, another community is selected, an administrator acts   *)
(* in it, a password is chosen, a factor enrolled, the grace period ends.   *)
(***************************************************************************)
EXTENDS Pages

-----------------------------------------------------------------------------
VARIABLES
    c,          \* the context of WebKit: who is signed in, in which community
    wide,       \* hasCommunityWideAccess: it manages or views some community
    path,       \* the address
    invoice,    \* what the page of one invoice knows of it
    step,       \* of the sign-in page and the verification page
    must,       \* the account must choose a password
    required,   \* the policy asks a second factor of the account
    enrolled,   \* the account has one
    seen,       \* the gate's copy of the second-factor status
    asking,     \* that copy is being read, or has been invalidated
    late,       \* the grace period is over
    mountedLate,\* it was when the gate was mounted, the only time it looks
    dismissed   \* the gate's notice was put off

account == <<must, required, enrolled, late>>
gate == <<seen, asking, mountedLate, dismissed>>
vars == <<c, wide, path, invoice, step, account, gate>>

Guest == [role |-> "guest", disabled |-> FALSE, acting |-> FALSE, on |-> FALSE]

-----------------------------------------------------------------------------
(* The guards, outermost first *)

\* without a status, or acting for somebody, the gate lets everything through
mfaGateState(p) ==
    IF \/ seen \in {"unknown", "fine"} \/ c.acting \/ p = Account THEN "pass"
    ELSE IF ~mountedLate THEN (IF dismissed THEN "pass" ELSE "grace")
    ELSE "hard"

ProtectedRoute(p, allowed, allowUnlinked) ==
    IF c.role = "guest" THEN Login
    ELSE IF must /\ ~c.acting /\ p # Account THEN Account
    ELSE IF ~allowUnlinked /\ c.role = "none" /\ p \notin {Home, Account} THEN Home
    ELSE IF c.role \notin allowed THEN Home
    ELSE p

HomePage(p) == IF c.role = "former" THEN MyDocuments ELSE p

\* a participant has no live invoice: once the read has failed the page gives way
InvoiceDetailRoute(p) == IF invoice = "failed" /\ ~wide THEN MyDocuments ELSE p

MfaEnrolmentGate(p, inner) == IF mfaGateState(p) = "pass" THEN inner ELSE p

\* the address a render of p leaves the browser at
AppRoutes(p) ==
    LET outer == ProtectedRoute(p, anyone, TRUE)
        inner == ProtectedRoute(p, allowedRoles(p), FALSE)
        element == IF inner # p THEN inner
                   ELSE IF p \in DOMAIN AliasNavigate THEN AliasNavigate[p]
                   ELSE IF p = Home THEN HomePage(p)
                   ELSE IF p = invoiceDetail THEN InvoiceDetailRoute(p)
                   ELSE p
    IN IF p \notin shellRoutes THEN p
       ELSE IF outer # p THEN outer
       ELSE MfaEnrolmentGate(p, element)

AtRest == AppRoutes(path) = path
ShellShown == AtRest /\ path \in shellRoutes /\ mfaGateState(path) = "pass"

-----------------------------------------------------------------------------
(* Signing in: the answer signs the account in and leads to the start page  *)
(* or, when a password is due, to the account.                              *)

startStep(p) == CASE p = Login -> "password" [] p = Verify -> "verifying" [] OTHER -> "none"
firstRead(p) == IF p = invoiceDetail THEN "asked" ELSE "none"
goTo(p) == path' = p /\ step' = startStep(p) /\ invoice' = firstRead(p)
remountGate == dismissed' = FALSE /\ mountedLate' = late
forgetStatus == seen' = "unknown" /\ asking' = TRUE
reload == remountGate /\ forgetStatus

\* the API's view of the account: compliance_status
overdue == required /\ ~enrolled /\ late

\* who may be, with which memberships elsewhere
becomes(w) ==
    /\ c' = w
    /\ wide' \in (CASE w.role \in ZEV_SCOPE -> {TRUE}
                    [] w.role \in {"participant", "former"} -> BOOLEAN
                    [] OTHER -> {FALSE})

Init ==
    /\ c = Guest /\ wide = FALSE /\ path \in Paths /\ step = startStep(path)
    /\ invoice = firstRead(path)
    /\ must = FALSE /\ required = FALSE /\ enrolled = FALSE /\ late = FALSE
    /\ seen = "unknown" /\ asking = TRUE /\ mountedLate = FALSE /\ dismissed = FALSE

\* whoever it is, with what the account has
SignedIn(w, asks) ==
    /\ w.role # "guest" /\ ~w.acting
    /\ becomes(w)
    /\ must' \in BOOLEAN /\ required' \in BOOLEAN
    /\ enrolled' = asks
    /\ reload
    /\ UNCHANGED late

handleSubmit(w) ==
    /\ path = Login /\ step = "password"
    /\ \/ SignedIn(w, FALSE) /\ goTo(IF must' THEN Account ELSE Home)
       \/ step' = "code" /\ UNCHANGED <<c, wide, path, invoice, account, gate>>

handleMfaSubmit(w) ==
    /\ path = Login /\ step = "code"
    /\ SignedIn(w, TRUE) /\ goTo(IF must' THEN Account ELSE Home)

cancelMfaChallenge ==
    /\ path = Login /\ step = "code"
    /\ step' = "password" /\ UNCHANGED <<c, wide, path, invoice, account, gate>>

handlePasskeyLogin(w) ==
    /\ path = Login /\ step = "password"
    /\ SignedIn(w, TRUE) /\ goTo(IF must' THEN Account ELSE Home)

\* a link from an e-mail or the identity provider; a factor that is asked for
\* is given on the same page
followToken(w, asks) ==
    /\ path \in {<<"signin", ":token">>, <<"join", ":prefix">>, <<"oauth", "callback">>}
    /\ SignedIn(w, asks) /\ goTo(Home)

\* the verification page, step by step; an invited account has a community
verifyEmail(w, purpose) ==
    /\ path = Verify /\ step = "verifying"
    /\ \/ /\ w.role \in (IF purpose = "signup" THEN {"none"} ELSE {"manager", "viewer"})
          /\ SignedIn(w, FALSE)
          /\ step' = purpose /\ UNCHANGED <<path, invoice>>
       \/ step' = "error" /\ UNCHANGED <<c, wide, path, invoice, account, gate>>

handleSetPassword ==
    /\ path = Verify /\ step \in {"signup", "invitation"} /\ c.role # "guest"
    /\ IF step = "signup" THEN step' = "create-zev" /\ UNCHANGED <<path, invoice>> ELSE goTo(Home)
    /\ must' = FALSE /\ UNCHANGED <<c, wide, required, enrolled, late, gate>>

handleCreateZev ==
    /\ path = Verify /\ step = "create-zev" /\ c.role = "none"
    /\ accepts(c, overdue, CommunityApi.createSelfSetupZev)
    /\ becomes([c EXCEPT !.role = "manager"])
    /\ goTo(Home) /\ UNCHANGED <<account, gate>>

logout ==
    /\ c.role # "guest"
    /\ becomes(Guest) /\ must' = FALSE /\ required' = FALSE /\ enrolled' = FALSE
    /\ reload /\ UNCHANGED <<path, invoice, step, late>>

-----------------------------------------------------------------------------
(* Moving about *)

\* an address is typed, opened from a bookmark or reloaded
Open(p) == goTo(p) /\ reload /\ UNCHANGED <<c, wide, account>>

\* a link of the side bar, of the page or of a notification, which may be of
\* another community of the account
Follow(p) ==
    /\ ShellShown
    /\ p \in SidebarLinks(c) \cup pageLinks(c, path)
              \cup notificationLink("participant") \cup notificationLink("manager")
    /\ goTo(p) /\ UNCHANGED <<c, wide, account, gate>>

\* Navigate, with replace; the outer guard's takes the place of the gate,
\* which is mounted anew behind it
Navigate ==
    /\ ~AtRest /\ goTo(AppRoutes(path))
    /\ IF ProtectedRoute(path, anyone, TRUE) # path
       THEN remountGate /\ UNCHANGED <<seen, asking>> ELSE UNCHANGED gate
    /\ UNCHANGED <<c, wide, account>>

\* the switcher changes the community, not the address
setSelectedZevId(role, disabled) ==
    /\ ShellShown /\ c.role \in Relations \ {"admin"} /\ role \in Relations \ {"admin"}
    /\ role \in ZEV_SCOPE => wide
    /\ c' = [c EXCEPT !.role = role, !.disabled = disabled]
    /\ UNCHANGED <<wide, path, invoice, step, account, gate>>

\* a refreshed user no longer has a membership, or has one again
membershipsChange(role) ==
    /\ c.role \in anyone \ {"admin"} /\ role \in anyone \ {"admin", c.role}
    /\ becomes([c EXCEPT !.role = role, !.disabled = FALSE])
    /\ UNCHANGED <<path, invoice, step, account, gate>>

startImpersonation(role) ==
    /\ ShellShown /\ c.role = "admin" /\ path \in {<<"admin", "accounts">>, <<"admin", "accounts", "users">>}
    /\ role \in anyone \ {"admin"} /\ accepts(c, overdue, UsersApi.impersonateParticipant)
    /\ becomes([c EXCEPT !.role = role, !.acting = TRUE, !.disabled = FALSE])
    /\ must' \in BOOLEAN /\ UNCHANGED <<path, invoice, step, required, enrolled, late>>
    /\ forgetStatus /\ UNCHANGED <<mountedLate, dismissed>>

stopImpersonation ==
    /\ ShellShown /\ c.acting
    /\ becomes([c EXCEPT !.role = "admin", !.acting = FALSE])
    /\ must' = FALSE /\ forgetStatus
    /\ goTo(<<"admin", "accounts">>)
    /\ UNCHANGED <<required, enrolled, late, mountedLate, dismissed>>

\* on the account page
choosePassword ==
    /\ ShellShown /\ path = Account /\ ~c.acting /\ must
    /\ must' = FALSE /\ UNCHANGED <<c, wide, path, invoice, step, required, enrolled, late, gate>>

\* the first factor is added, or the last one removed, which is refused where
\* the policy asks for one; the control's success invalidates the status, if
\* it names its key
changeFactor ==
    /\ ShellShown /\ path = Account /\ ~c.acting
    /\ enrolled => ~required
    /\ \E o \in Join({TotpBlock, PasskeysBlock}).offers :
         /\ "mfa" \in o.call.writes /\ accepts(c, overdue, o.call)
         /\ asking' = (asking \/ Reloads(o, mfaStatus))
    /\ enrolled' = ~enrolled
    /\ UNCHANGED <<c, wide, path, invoice, step, must, required, late>>
    /\ UNCHANGED <<seen, mountedLate, dismissed>>

\* the gate asks for the status unless an administrator acts in the account
statusArrives ==
    /\ c.role # "guest" /\ ~c.acting /\ path \in shellRoutes /\ asking
    /\ seen' = (IF required /\ ~enrolled THEN "needed" ELSE "fine")
    /\ asking' = FALSE
    /\ UNCHANGED <<c, wide, path, invoice, step, account, mountedLate, dismissed>>

\* the read of the invoice ends, or a repeated one; only who manages or views
\* its community is given it
invoiceArrives ==
    /\ ShellShown /\ invoice \in {"asked", "failed"}
    /\ invoice' \in (IF wide THEN {"read", "failed"} ELSE {"failed"})
    /\ UNCHANGED <<c, wide, path, step, account, gate>>

dismiss ==
    /\ AtRest /\ path \in shellRoutes /\ mfaGateState(path) = "grace"
    /\ dismissed' = TRUE
    /\ UNCHANGED <<c, wide, path, invoice, step, account, seen, asking, mountedLate>>

setUp ==
    /\ AtRest /\ path \in shellRoutes /\ mfaGateState(path) # "pass"
    /\ goTo(Account) /\ UNCHANGED <<c, wide, account, gate>>

graceEnds ==
    /\ ~late /\ late' = TRUE
    /\ UNCHANGED <<c, wide, path, invoice, step, must, required, enrolled, gate>>

byTheUser ==
    \/ \E w \in Contexts :
         \/ handleSubmit(w) \/ handleMfaSubmit(w) \/ handlePasskeyLogin(w)
         \/ \E asks \in BOOLEAN : followToken(w, asks)
         \/ \E purpose \in {"signup", "invitation"} : verifyEmail(w, purpose)
    \/ cancelMfaChallenge \/ handleSetPassword \/ handleCreateZev \/ logout
    \/ \E p \in Paths : Open(p) \/ Follow(p)
    \/ \E role \in Relations, disabled \in BOOLEAN : setSelectedZevId(role, disabled)
    \/ \E role \in anyone : startImpersonation(role)
    \/ stopImpersonation \/ choosePassword \/ changeFactor \/ dismiss \/ setUp

\* a rendered Navigate is an effect of that render: it goes before any event
\* of the user, while answers of the API may still arrive first
Next ==
    \/ AtRest /\ byTheUser
    \/ Navigate \/ statusArrives \/ invoiceArrives \/ graceEnds
    \/ \E role \in anyone : membershipsChange(role)

\* a rendered Navigate is carried out, a query that is mounted is answered
Spec == Init /\ [][Next]_vars /\ WF_vars(Navigate) /\ WF_vars(statusArrives)
-----------------------------------------------------------------------------
(* Properties *)

\* The variables hold what the browser and the account can hold.
TypeOK ==
    /\ c \in Contexts \cup {Guest} /\ wide \in BOOLEAN /\ path \in Paths
    /\ invoice \in (IF path = invoiceDetail THEN {"asked", "failed", "read"} ELSE {"none"})
    /\ step \in {"none", "password", "code", "verifying", "signup", "invitation", "create-zev",
                "error"}
    /\ {must, required, enrolled, late, asking, mountedLate, dismissed} \subseteq BOOLEAN
    /\ seen \in {"unknown", "needed", "fine"}

refuses(w, calls) == \E call \in calls : ~Permits(w, call.level)
callsOf(things) == {t.call : t \in things}
shown == {p \in shellRoutes : p \notin DOMAIN AliasNavigate}
unreadable == {x \in shown \X (Contexts \ {Guest}) :
                 refuses(x[2], callsOf(shellPage(x[2], x[1]).shows))}
unallowed == {x \in shown \X (Contexts \ {Guest}) :
                 refuses(x[2], callsOf(shellPage(x[2], x[1]).offers))}

\* the gate was mounted after the grace period and has read the status
gateKnows == seen = "needed" /\ mountedLate

besideEnrolment ==
    callsOf(NotificationBell.offers) \cup
    {ApiKeysApi.createApiKey, CredentialsApi.createAnalyticsToken,
     CredentialsApi.revokeAnalyticsToken, SupplementaryApi.revokeSupplementaryPushToken,
     SupplementaryApi.rotateSupplementaryPushToken}
unenrolled == {x \in shown \X (Contexts \ {Guest}) :
                 \E call \in callsOf(shellPage(x[2], x[1]).offers) \ besideEnrolment :
                     ~enforce_mfa_enrolment(x[2], TRUE, call)}

(* However an address was reached (typed, linked, kept while the community  *)
(* or the memberships changed, left by an impersonation), a page that the   *)
(* guards leave on the screen reads nothing the API would refuse it         *)
(* (ProtectedRoute, allowedRoles of AppRoutes, the enabled conditions). The *)
(* page of one invoice asks whoever opens it; it is judged where the        *)
(* selected community is the invoice's.                                     *)
ShownIsReadable ==
    /\ ShellShown /\ (path = invoiceDetail => c.role \in ZEV_SCOPE)
         => <<path, c>> \notin unreadable
    /\ path \in publicRoutes => ~refuses(c, callsOf(publicPage(path, step).shows))

(* ... and offers no control whose call the API would refuse: not to a      *)
(* viewer, not in a disabled community, not to an administrator acting for  *)
(* somebody. The page of one invoice is the exception: its access-link      *)
(* controls do not ask whether the community is disabled. Once the gate has *)
(* seen that the second factor is overdue, what is refused for its sake is  *)
(* offered beside the enrolment only: the marks of notifications and the    *)
(* tokens. A page without a session offers what needs none; the later steps *)
(* of the verification page need the session its first one began.           *)
OfferedIsAllowed ==
    /\ ShellShown /\ path # invoiceDetail => <<path, c>> \notin unallowed
    /\ ShellShown /\ overdue /\ gateKnows => <<path, c>> \notin unenrolled
    /\ path \in publicRoutes /\ (c.role = "guest" => step \in {"none", "password", "code", "verifying"})
        => ~refuses(c, callsOf(publicPage(path, step).offers))

(* Two links that are shown to more accounts than may follow them: the      *)
(* account page's link to the own metering points, and the quality link of  *)
(* a metering point's row.                                                  *)
deadLinks == {<<"me", "metering-points">>, <<"metering-data", "?", "quality">>}

ownNotifications ==
    CASE accessFor(c).isZevScope -> notificationLink("manager")
      [] c.role = "participant"  -> notificationLink("participant")
      [] OTHER                   -> {}

(* A link of the side bar, of a page or of a notification of the selected   *)
(* community leads to the page it names, possibly through its alias, and    *)
(* never back to the start page: what a link is shown to agrees with the    *)
(* role list of its route.                                                  *)
LinksLead ==
    ShellShown /\ (must => c.acting) =>
        \A p \in ((SidebarLinks(c) \cup pageLinks(c, path)) \ deadLinks) \cup ownNotifications :
            LET q == AppRoutes(p)
            IN \/ q = p
               \/ p \in DOMAIN AliasNavigate /\ q = AliasNavigate[p] /\ AppRoutes(q) = q

(* A chain of redirects ends: no two guards send an address back and forth  *)
(* (HomePage, ProtectedRoute, InvoiceDetailRoute and the aliases).          *)
RedirectsEnd == ~AtRest ~> AtRest

(* Whoever enrols a factor is let through without a reload: the enrolment   *)
(* invalidates the status the gate reads.                                   *)
EnrolledIsAdmitted ==
    (enrolled /\ seen = "needed" /\ path = Account /\ c.role # "guest" /\ ~c.acting)
        ~> (seen # "needed" \/ ~enrolled \/ path \notin shellRoutes \/ c.acting)

(* What an account is shown, offered and sent to is its own to see, use and  *)
(* follow (ProtectedRoute, the sidebar, canWriteInSelectedCommunity).        *)
PagesAreEarned == TypeOK /\ ShownIsReadable /\ OfferedIsAllowed /\ LinksLead

(* No guard holds on to an account: redirects end, and an enrolment is seen  *)
(* by the gate that asked for it.                                           *)
GuardsLetGo == RedirectsEnd /\ EnrolledIsAdmitted
=============================================================================
