-------------------------------- MODULE Session --------------------------------
(***************************************************************************)
(* The browser's session: AuthProvider (frontend/src/lib/auth.tsx), the    *)
(* axios interceptor that renews the access cookie (lib/api/client.ts),    *)
(* the saved community preference (lib/managedZev.tsx) and the pages that  *)
(* sign somebody in.                                                       *)
(*                                                                         *)
(* Cookies are the browser's, not the page's: a request carries the jar as *)
(* it is when the request is SENT, and an answer changes the jar when it   *)
(* ARRIVES.  An identity is an account or the admin acting as the          *)
(* participant ("as"); the query cache is one entry per query, tagged with *)
(* the identity that fetched it and the session version it was sent in.    *)
(* Awaits that only wait for microtasks (cancelQueries, clear) are one     *)
(* step with what precedes them.                                           *)
(***************************************************************************)
EXTENDS Naturals, Sequences, FiniteSets

CONSTANTS Queries,   \* query keys a mounted screen may fetch
          MaxClicks  \* what the user and the mounted screens start, per behaviour

ASSUME Bounds == MaxClicks \in Nat

VARIABLES user,      \* AuthProvider's user: an identity or "none"
          clicks,    \* how much was started
          version,   \* sessionVersion.current
          slot,      \* prefSaveRef.current; gen is the object's identity
          saves,     \* every updatePreferredZev call, in call order
          flow,      \* the sign-in or impersonation in progress
          net,       \* requests on their way or waiting for a refresh
          refresh,   \* refreshPromise: "idle" or the jar it was sent with
          bye,       \* logout requests not yet answered
          jar,       \* whose session cookies the browser holds
          cache,     \* the query cache
          pick,      \* ManagedZevProvider's explicitPick: who made it, or "none"
          server,    \* preferred_zev per account, at the server
          pref,      \* the pick merged into the user record since /auth/me loaded it
          shown      \* history: the version that asked for the identity on screen,
                     \* and the identity that was there when the version began

vars == <<user, clicks, version, slot, saves, flow, net, refresh, bye, jar, cache,
          pick, server, pref, shown>>

Accounts == {"admin", "part"}
Ids == Accounts \cup {"as", "none"}
AccountOf(i) == IF i = "as" THEN "part" ELSE i
NoEntry == [by |-> "none", sentIn |-> 0]
NoZev == 0
Zevs == 1..MaxClicks

\* The doors into a session.  guards: it is an AuthProvider operation, which
\* calls invalidateSessionRequests and resetQueryCache first; the entry pages
\* only exchange their token and call refreshUser.  challenge: the answer may
\* ask for a second factor instead of setting cookies.  signsIn: the
\* identities its answer may set.
loginDoor == [guards |-> TRUE, challenge |-> TRUE,
              from |-> {"none"}, signsIn |-> Accounts]
completeMfaChallenge == [guards |-> TRUE, challenge |-> FALSE,
              from |-> {"none"}, signsIn |-> Accounts]
loginWithPasskey == [guards |-> TRUE, challenge |-> FALSE,
              from |-> {"none"}, signsIn |-> Accounts]
startImpersonation == [guards |-> TRUE, challenge |-> FALSE,
              from |-> {"admin"}, signsIn |-> {"as"}]
stopImpersonation == [guards |-> TRUE, challenge |-> FALSE,
              from |-> {"as"}, signsIn |-> {"admin"}]
MagicSignInPage == [guards |-> FALSE, challenge |-> TRUE,
              from |-> Accounts \cup {"none"}, signsIn |-> {"part"}]
ParticipantOnboardingPage == [guards |-> FALSE, challenge |-> TRUE,
              from |-> Accounts \cup {"none"}, signsIn |-> {"part"}]
OAuthCallbackPage == [guards |-> FALSE, challenge |-> FALSE,
              from |-> Accounts \cup {"none"}, signsIn |-> Accounts]
VerifyEmailPage == [guards |-> FALSE, challenge |-> FALSE,
              from |-> Accounts \cup {"none"}, signsIn |-> {"part"}]

Doors == {loginDoor, completeMfaChallenge, loginWithPasskey, startImpersonation,
          stopImpersonation, MagicSignInPage, ParticipantOnboardingPage,
          OAuthCallbackPage, VerifyEmailPage}
\* LoginPage shows the code form only while the password step is pending, and
\* the entry pages are opened by a page load.
PageDoors == {d \in Doors : ~d.guards}
NoDoor == [guards |-> TRUE, challenge |-> FALSE, from |-> {}, signsIn |-> {}]
NoFlow == [door |-> NoDoor, at |-> "idle"]

\* Requests: /auth/me of a caller, a preference save, a query.
Request(what, about, in) == [what |-> what, about |-> about, in |-> in, as |-> jar,
                             retried |-> FALSE, at |-> "sent"]
IsMe(r) == r.what \in {"first", "flow", "refresh"}

\* setUser: ManagedZevProvider drops the explicit pick when the account id
\* differs from the last one it rendered.
ShowUser(i) ==
    /\ user' = i
    /\ pick' = IF AccountOf(i) = AccountOf(user) THEN pick ELSE "none"

\* loadCurrentUser: the version is captured when the request is sent.
loadCurrentUser(caller) == Request(caller, "me", version)

Init ==
    /\ user = "none" /\ clicks = 0 /\ version = 0
    /\ slot = [gen |-> 0, userId |-> "none", seq |-> 0]
    /\ saves = <<>> /\ flow = NoFlow /\ refresh = "idle" /\ bye = 0
    /\ jar \in {"none", "admin"}
    /\ net = {loadCurrentUser("first")}
    /\ cache = [q \in Queries |-> NoEntry]
    /\ pick = "none" /\ server = [a \in Accounts |-> NoZev] /\ pref = NoZev
    /\ shown = [askedIn |-> 0, heldOver |-> "none"]

\* invalidateSessionRequests.
invalidateSessionRequests ==
    /\ version' = version + 1
    /\ slot' = [gen |-> version + 1, userId |-> "none", seq |-> 0]

\* resetQueryCache: a cancelled query's answer is discarded, then clear().
resetQueryCache ==
    /\ net' = {r \in net : r.what # "query"}
    /\ cache' = [q \in Queries |-> NoEntry]

\* The page was just loaded.
Pristine == /\ version = 0 /\ saves = <<>> /\ cache = [q \in Queries |-> NoEntry]
            /\ \A r \in net : r.what = "first"

\* Somebody starts something; the shell and its screens are mounted for a
\* signed-in user, except on the entry pages.
Click == clicks < MaxClicks /\ clicks' = clicks + 1
Mounted == user # "none" /\ flow.door.guards

\* A sign-in or an impersonation starts and its request goes out.
Begin(d) ==
    /\ Click /\ flow = NoFlow /\ user \in d.from
    /\ d \in PageDoors => Pristine
    /\ IF d.guards
       THEN /\ invalidateSessionRequests /\ resetQueryCache
            /\ shown' = [shown EXCEPT !.heldOver = user]
       ELSE UNCHANGED <<version, slot, net, cache, shown>>
    /\ flow' = [door |-> d, at |-> "asked"]
    /\ UNCHANGED <<user, saves, refresh, bye, jar, pick, server, pref>>

\* Its answer: the cookies are the new identity's, and /auth/me is loaded.
Admit(d, i) ==
    /\ flow = [door |-> d, at |-> "asked"] /\ i \in d.signsIn
    /\ jar' = i
    /\ flow' = [door |-> [NoDoor EXCEPT !.guards = d.guards], at |-> "loading"]
    /\ net' = net \cup {[loadCurrentUser("flow") EXCEPT !.as = i]}
    /\ IF d = stopImpersonation THEN ShowUser("none") ELSE UNCHANGED <<user, pick>>
    /\ UNCHANGED <<clicks, version, slot, saves, refresh, bye, cache, server, pref, shown>>

\* Its answer asks for the second factor: no session, the form changes.
Challenge(d) ==
    /\ flow = [door |-> d, at |-> "asked"] /\ d.challenge
    /\ flow' = NoFlow
    /\ UNCHANGED <<user, clicks, version, slot, saves, net, refresh, bye, jar,
                   cache, pick, server, pref, shown>>

\* Its request fails, or the passkey prompt is dismissed.  A lapsed admin
\* session clears the user; the server cleared the cookies.
Refuse(d, expired) ==
    /\ flow = [door |-> d, at |-> "asked"]
    /\ expired => d = stopImpersonation
    /\ flow' = NoFlow
    /\ IF expired THEN ShowUser("none") /\ jar' = "none" ELSE UNCHANGED <<user, pick, jar>>
    /\ UNCHANGED <<clicks, version, slot, saves, net, refresh, bye, cache,
                   server, pref, shown>>

\* logout: local state first, the request is not awaited.
Logout ==
    /\ Click /\ Mounted
    /\ invalidateSessionRequests /\ resetQueryCache /\ ShowUser("none")
    /\ bye' = bye + 1 /\ shown' = [shown EXCEPT !.heldOver = "none"]
    /\ UNCHANGED <<saves, flow, refresh, jar, server, pref>>

\* Its answer deletes the cookies, whoever's they are by now; a lost one
\* leaves them.
LogoutAnswered(lost) ==
    /\ bye > 0 /\ bye' = bye - 1
    /\ jar' = IF lost THEN jar ELSE "none"
    /\ UNCHANGED <<user, clicks, version, slot, saves, flow, net, refresh, cache, pick, server, pref, shown>>

\* refreshUser from a mounted page (PasswordCard, PartyAccess).
RefreshUser ==
    /\ Click /\ Mounted
    /\ ~ \E r \in net : r.what = "refresh"
    /\ net' = net \cup {loadCurrentUser("refresh")}
    /\ UNCHANGED <<user, version, slot, saves, flow, refresh, bye, jar,
                   cache, pick, server, pref, shown>>

\* A mounted query is fetched: on mount, focus, interval or invalidation.
Fetch(q) ==
    /\ Click /\ Mounted
    /\ ~ \E r \in net : r.what = "query" /\ r.about = q
    /\ net' = net \cup {Request("query", q, version)}
    /\ UNCHANGED <<user, version, slot, saves, flow, refresh, bye, jar,
                   cache, pick, server, pref, shown>>

--------------------------------------------------------------------------------
(* The community preference. *)

\* setSelectedZevId, then updatePreferredZev: the local pick is optimistic,
\* the save joins the slot's chain.
updatePreferredZev ==
    /\ Click /\ Mounted
    /\ LET z == Len(saves) + 1
           caller == AccountOf(user)
           seq == IF slot.userId = caller THEN slot.seq + 1 ELSE 1
       IN /\ slot' = [slot EXCEPT !.userId = caller, !.seq = seq]
          /\ saves' = Append(saves, [gen |-> slot.gen, caller |-> caller, seq |-> seq,
                                     zev |-> z, at |-> "queued",
                                     stored |-> "none"])
          /\ pick' = caller
    /\ UNCHANGED <<user, version, flow, net, refresh, bye, jar, cache, server, pref, shown>>

\* Mutant: a save does not wait for the one before it.
SentAtOnce(i) == saves[i].at = "queued"

\* A save's turn: the one before it in its slot's chain has settled.
Turn(i) ==
    /\ saves[i].at = "queued"
    /\ \A j \in 1..(i - 1) :
          saves[j].gen = saves[i].gen => saves[j].at \in {"done", "failed"}

\* The dispatch guard: a save of a replaced slot resolves to null.
DispatchSave(i) ==
    /\ i \in DOMAIN saves /\ Turn(i)
    /\ IF slot.gen = saves[i].gen
       THEN /\ saves' = [saves EXCEPT ![i].at = "sent"]
            /\ net' = net \cup {Request("save", i, version)}
       ELSE saves' = [saves EXCEPT ![i].at = "done"] /\ UNCHANGED net
    /\ UNCHANGED <<user, clicks, version, slot, flow, refresh, bye, jar, cache, pick, server, pref, shown>>

--------------------------------------------------------------------------------
(* The network: answers, the interceptor, the shared refresh. *)

Authorized(r) == r.at = "sent" /\ r.as # "none"

\* Mutant: the session version is not compared.
MeAlwaysShown(r) ==
    /\ IsMe(r) /\ Authorized(r)
    /\ ShowUser(r.as) /\ pref' = NoZev
    /\ shown' = [shown EXCEPT !.askedIn = r.in]
    /\ flow' = IF r.what = "flow" THEN NoFlow ELSE flow
    /\ net' = net \ {r}
    /\ UNCHANGED <<clicks, version, slot, saves, refresh, bye, jar, cache, server>>

\* What an answered /auth/me does: only the version it was sent in may show it.
MeArrives(r) ==
    /\ IsMe(r) /\ Authorized(r)
    /\ IF r.in = version
       THEN ShowUser(r.as) /\ pref' = NoZev /\ shown' = [shown EXCEPT !.askedIn = r.in]
       ELSE UNCHANGED <<user, pick, pref, shown>>
    /\ flow' = IF r.what = "flow" THEN NoFlow ELSE flow
    /\ net' = net \ {r}
    /\ UNCHANGED <<clicks, version, slot, saves, refresh, bye, jar, cache, server>>

\* A save is stored at the server under the account of the cookies it carried.
SaveStored(r) ==
    /\ r.what = "save" /\ Authorized(r)
    /\ server' = [server EXCEPT ![AccountOf(r.as)] = saves[r.about].zev]
    /\ saves' = [saves EXCEPT ![r.about].stored = AccountOf(r.as)]
    /\ net' = (net \ {r}) \cup {[r EXCEPT !.at = "stored"]}
    /\ UNCHANGED <<user, clicks, version, slot, flow, refresh, bye, jar,
                   cache, pick, pref, shown>>

\* Its answer ends it and is merged if the current slot counts as many picks
\* of the same caller: the slots themselves are not compared.
SaveArrives(r) ==
    /\ r.what = "save" /\ r.at = "stored"
    /\ saves' = [saves EXCEPT ![r.about].at = "done"]
    /\ net' = net \ {r}
    /\ pref' = IF /\ slot.userId = saves[r.about].caller
                  /\ slot.seq = saves[r.about].seq
                  /\ AccountOf(user) = AccountOf(r.as)
               THEN saves[r.about].zev ELSE pref
    /\ UNCHANGED <<user, clicks, version, slot, flow, refresh, bye, jar, cache, pick, server, shown>>

QueryArrives(r) ==
    /\ r.what = "query" /\ Authorized(r)
    /\ cache' = [cache EXCEPT ![r.about] = [by |-> r.as, sentIn |-> r.in]]
    /\ net' = net \ {r}
    /\ UNCHANGED <<user, clicks, version, slot, saves, flow, refresh, bye, jar,
                   pick, server, pref, shown>>

\* What a request that ends with an error leaves behind.
Fails(rs) ==
    /\ LET firsts == {r \in rs : r.what = "first"}
           flows == {r \in rs : r.what = "flow"}
       IN /\ IF \E r \in firsts : r.in = version THEN ShowUser("none") ELSE UNCHANGED <<user, pick>>
          /\ flow' = IF flows = {} THEN flow ELSE NoFlow
    /\ saves' = [i \in DOMAIN saves |-> IF \E r \in rs : r.what = "save" /\ r.about = i
                                        THEN [saves[i] EXCEPT !.at = "failed"] ELSE saves[i]]

\* 401, because there is no session, it was revoked, or its access cookie had
\* run out (at any time: no request is exempt).  The first time it joins the
\* refresh in flight, or starts it; a retried request fails.
Unauthorized(r) ==
    /\ r.at = "sent"
    /\ IF r.retried
       THEN Fails({r}) /\ net' = net \ {r} /\ UNCHANGED refresh
       ELSE /\ net' = (net \ {r}) \cup {[r EXCEPT !.retried = TRUE, !.at = "waiting"]}
            /\ refresh' = IF refresh = "idle" THEN jar ELSE refresh
            /\ UNCHANGED <<user, pick, flow, saves>>
    /\ UNCHANGED <<clicks, version, slot, bye, jar, cache, server, pref, shown>>

\* Any other error (no network, 5xx) is thrown at once: the request may have
\* been served before its answer was lost.
NetworkError(r) ==
    /\ r.at \in {"sent", "stored"}
    /\ Fails({r}) /\ net' = net \ {r}
    /\ UNCHANGED <<clicks, version, slot, refresh, bye, jar, cache, server, pref, shown>>

\* The refresh renews the session it was sent with; its waiters are sent again
\* with the jar as it then is.
RefreshAnswered ==
    /\ refresh \in Ids \ {"none"}
    /\ jar' = refresh /\ refresh' = "idle"
    /\ net' = {IF r.at = "waiting" THEN [r EXCEPT !.at = "sent", !.as = jar'] ELSE r : r \in net}
    /\ UNCHANGED <<user, clicks, version, slot, saves, flow, bye, cache, pick, server, pref, shown>>

\* Mutant: the refresh's own 401 enters the interceptor and awaits itself.
RefreshAwaitsItself == refresh # "idle" /\ UNCHANGED vars

\* A failed refresh fails every waiter; a rejected token also clears the
\* cookies, a missing one or a refresh that was not served leaves them alone.
RefreshRefused ==
    /\ refresh # "idle"
    /\ jar' \in {jar, IF refresh = "none" THEN jar ELSE "none"}
    /\ refresh' = "idle"
    /\ LET waiting == {r \in net : r.at = "waiting"}
       IN Fails(waiting) /\ net' = net \ waiting
    /\ UNCHANGED <<clicks, version, slot, bye, cache, server, pref, shown>>

Answer == \/ \E r \in net : MeArrives(r) \/ SaveStored(r) \/ SaveArrives(r)
                            \/ QueryArrives(r) \/ Unauthorized(r) \/ NetworkError(r)
          \/ RefreshAnswered \/ RefreshRefused
          \/ \E lost \in BOOLEAN : LogoutAnswered(lost)

DoorAnswer == \E d \in Doors :
                 \/ \E i \in Accounts \cup {"as"} : Admit(d, i)
                 \/ Challenge(d)
                 \/ \E expired \in BOOLEAN : Refuse(d, expired)

Next == \/ \E d \in Doors : Begin(d)
        \/ DoorAnswer \/ Answer
        \/ Logout \/ RefreshUser
        \/ \E q \in Queries : Fetch(q)
        \/ updatePreferredZev
        \/ \E i \in DOMAIN saves : DispatchSave(i)

Spec == Init /\ [][Next]_vars
\* Every request on its way is answered in the end and promise callbacks run;
\* nobody is made to click.
AnswerQuery(q) == \E r \in net : r.about = q /\ (QueryArrives(r) \/ Unauthorized(r))
FairSpec == /\ Spec
            /\ \A q \in Queries : WF_vars(AnswerQuery(q))
            /\ WF_vars(RefreshAnswered \/ RefreshRefused)

--------------------------------------------------------------------------------
(* What the session promises. *)

TypeOK ==
    /\ user \in Ids /\ jar \in Ids
    /\ shown \in [askedIn : 0..MaxClicks, heldOver : Ids]
    /\ clicks \in 0..MaxClicks /\ version \in 0..MaxClicks
    /\ slot \in [gen : 0..MaxClicks, userId : Accounts \cup {"none"}, seq : 0..MaxClicks]
    /\ flow.at \in {"idle", "asked", "loading"}
    /\ refresh \in Ids \cup {"idle"} /\ bye \in 0..MaxClicks
    /\ cache \in [Queries -> [by : Ids, sentIn : 0..MaxClicks]]
    /\ pick \in Accounts \cup {"none"}
    /\ server \in [Accounts -> Zevs \cup {NoZev}] /\ pref \in Zevs \cup {NoZev}

\* The identity on screen was asked for since the last boundary, or was there
\* when it was crossed: no late /auth/me of an earlier session, answered or
\* failed, puts somebody on the screen.
LateIdentityIsDropped ==
    user # "none" => shown.askedIn = version \/ user = shown.heldOver

\* The query cache holds nothing that was asked for before the last boundary
\* cleared it: answers of cancelled queries do not come back.  Whose data a
\* query of this session brings is another question (README, section 5).
NoLeftoverData == \A q \in Queries : cache[q] # NoEntry => cache[q].sentIn = version

\* The explicit community pick was made by the account on screen.
PickIsOwn == pick # "none" => pick = AccountOf(user)

\* A session boundary holds against late answers, in whatever order they come:
\* nothing asked for before it, identity, data or pick of another account,
\* appears after it (the generation counters and the cache reset of
\* lib/auth.tsx, the explicit pick of lib/managedZev.tsx).
BoundariesHold ==
    TypeOK /\ LateIdentityIsDropped /\ PickIsOwn /\ NoLeftoverData

\* Once a later pick of a session is stored for an account, no earlier one of
\* that session is its preference.
LaterPickReplaces ==
    \A i, j \in DOMAIN saves :
        i < j /\ saves[i].gen = saves[j].gen /\ saves[j].stored # "none"
              /\ saves[i].stored = saves[j].stored
            => server[saves[j].stored] # saves[i].zev

\* A pick still waiting for its turn at a boundary is not sent after it.
QueuedPicksAreSkipped == \A r \in net : r.what = "save" => r.in = saves[r.about].gen

\* The picks of a session are saved one after the other and the last one is
\* kept, whatever is refused, retried after a refresh, lost or answered late
\* and whoever's cookies they go out with; none is first sent in a later
\* session (the chain and the dispatch guard of updatePreferredZev, lib/auth.tsx).
PicksAreKept == LaterPickReplaces /\ QueuedPicksAreSkipped

\* A request that meets an expired session is answered, retried once or
\* failed; it never circles between 401 and refresh.
RequestsSettle == \A q \in Queries :
    (\E r \in net : r.what = "query" /\ r.about = q) ~>
        (~ \E r \in net : r.what = "query" /\ r.about = q)

--------------------------------------------------------------------------------
(* What a comment of the code promises and the code does not keep. *)

\* "Never issue a PATCH under the next account's cookies" (lib/auth.tsx:143): a
\* pick sent with the cookies of the account that made it is not sent again
\* with another's.
PatchesStayOwn ==
    [][\A r \in net, again \in net' :
          (/\ r.what = "save" /\ again.what = "save" /\ again.about = r.about
           /\ AccountOf(r.as) = saves[r.about].caller)
            => AccountOf(again.as) \in {saves[r.about].caller, "none"}]_vars
================================================================================
