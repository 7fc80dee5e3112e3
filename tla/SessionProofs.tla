---------------------------- MODULE SessionProofs ----------------------------
(***************************************************************************)
(* Theorems about Session, for any queries and any number of session       *)
(* boundaries, picks and requests on their way, in whatever order they are *)
(* answered: nothing asked for before a boundary appears after it, and the *)
(* picks of a session are kept in their order.                             *)
(***************************************************************************)
EXTENDS Session, TLAPS

-----------------------------------------------------------------------------
(* The inductive invariants *)

Req == [what : {"first", "flow", "refresh", "save", "query"},
        about : {"me"} \cup Zevs \cup Queries, in : 0..MaxClicks, as : Ids,
        retried : BOOLEAN, at : {"sent", "waiting", "stored"}]

Save == [gen : 0..MaxClicks, caller : Accounts, seq : 1..MaxClicks, zev : Zevs,
         at : {"queued", "sent", "done", "failed"},
         stored : Accounts \cup {"none"}]

\* The slot is the one of this session version; what was started bounds the
\* versions, the picks and the logouts under way.
Types ==
    /\ TypeOK
    /\ net \subseteq Req
    /\ saves \in Seq(Save) /\ Len(saves) <= clicks
    /\ slot.gen = version /\ slot.seq <= Len(saves)
    /\ bye <= version /\ version <= clicks

\* A request is of this session version or an earlier one; a query of an
\* earlier one was cancelled with it.
RequestsOfVersion ==
    \A r \in net : /\ r.in <= version
                   /\ r.what = "query" => r.about \in Queries /\ r.in = version

\* What this page shows belongs to this session, whatever overtakes what.
ShownInv == Types /\ RequestsOfVersion /\ PickIsOwn /\ LateIdentityIsDropped /\ NoLeftoverData

\* A save waits for those before it in its slot's chain, and has one request on
\* its way from its dispatch to its answer.
SaveStates ==
    /\ \A i \in DOMAIN saves :
          /\ saves[i].zev = i /\ saves[i].gen <= version
          /\ saves[i].at = "queued" => saves[i].stored = "none"
    /\ \A i, j \in DOMAIN saves :
          j < i /\ saves[j].gen = saves[i].gen /\ saves[i].at # "queued"
            => saves[j].at \in {"done", "failed"}

SaveRequests ==
    /\ \A r \in net : r.what = "save" => /\ r.about \in DOMAIN saves /\ saves[r.about].at = "sent"
                                         /\ r.in = saves[r.about].gen
    /\ \A r, s \in net : r.what = "save" /\ s.what = "save" /\ r.about = s.about => r = s

SavesInv == ShownInv /\ SaveStates /\ SaveRequests /\ LaterPickReplaces

-----------------------------------------------------------------------------
(* Accounts, doors and requests *)

LEMMA AccountFacts ==
    \A i \in Ids : /\ AccountOf(i) \in Accounts \cup {"none"}
                   /\ AccountOf(i) = "none" <=> i = "none"
  BY DEF Ids, Accounts, AccountOf

LEMMA RequestType ==
    ASSUME Types, NEW what \in {"first", "flow", "refresh", "save", "query"},
           NEW about \in {"me"} \cup Zevs \cup Queries
    PROVE  /\ Request(what, about, version) \in Req
           /\ Request(what, about, version).what = what
           /\ Request(what, about, version).about = about
           /\ Request(what, about, version).in = version
           /\ Request(what, about, version).as = jar
           /\ Request(what, about, version).at = "sent"
  BY DEF Types, TypeOK, Request, Req

LEMMA ShowUserFacts ==
    ASSUME Types, PickIsOwn, NEW i \in Ids, ShowUser(i)
    PROVE  /\ user' = i
           /\ pick' \in Accounts \cup {"none"}
           /\ PickIsOwn'
  BY DEF Types, TypeOK, PickIsOwn, ShowUser

\* Nobody new is on the screen.
LEMMA LateKept ==
    ASSUME LateIdentityIsDropped, user' = user \/ user' = "none", UNCHANGED <<version, shown>>
    PROVE  LateIdentityIsDropped'
  BY DEF LateIdentityIsDropped

\* What ends with an error ends no session version.
LEMMA FailsFacts ==
    ASSUME Types, PickIsOwn, NEW rs, Fails(rs)
    PROVE  /\ user' \in Ids /\ (user' = user \/ user' = "none")
           /\ flow'.at \in {"idle", "asked", "loading"}
           /\ pick' \in Accounts \cup {"none"}
           /\ PickIsOwn'
           /\ DOMAIN saves' = DOMAIN saves /\ Len(saves') = Len(saves) /\ saves' \in Seq(Save)
           /\ \A i \in DOMAIN saves : saves'[i] \in {saves[i], [saves[i] EXCEPT !.at = "failed"]}
<1>1. saves \in Seq(Save) /\ Len(saves) \in Nat /\ DOMAIN saves = 1..Len(saves)
      /\ \A i \in DOMAIN saves : saves[i] \in Save
  BY DEF Types
<1>2. saves' = [i \in DOMAIN saves |-> IF \E r \in rs : r.what = "save" /\ r.about = i
                                        THEN [saves[i] EXCEPT !.at = "failed"] ELSE saves[i]]
  BY DEF Fails
<1>3. \A i \in DOMAIN saves : /\ saves'[i] \in {saves[i], [saves[i] EXCEPT !.at = "failed"]}
                              /\ saves'[i] \in Save
  BY <1>1, <1>2 DEF Save
<1>4. saves' \in [1..Len(saves) -> Save]
  BY <1>1, <1>2, <1>3
<1>5. DOMAIN saves' = DOMAIN saves /\ Len(saves') = Len(saves) /\ saves' \in Seq(Save)
  BY <1>1, <1>4
<1>6. /\ user' \in Ids /\ (user' = user \/ user' = "none")
      /\ pick' \in Accounts \cup {"none"}
      /\ PickIsOwn'
  <2>1. CASE \E r \in rs : r.what = "first" /\ r.in = version
    <3>1. ShowUser("none")
      BY <2>1 DEF Fails
    <3>. QED  BY <3>1, ShowUserFacts DEF Ids
  <2>2. CASE ~ \E r \in rs : r.what = "first" /\ r.in = version
    <3>1. UNCHANGED <<user, pick>>
      BY <2>2 DEF Fails
    <3>. QED  BY <3>1 DEF Types, TypeOK, PickIsOwn
  <2>. QED  BY <2>1, <2>2
<1>7. flow'.at \in {"idle", "asked", "loading"}
  BY DEF Fails, NoFlow, Types, TypeOK
<1>. QED  BY <1>3, <1>5, <1>6, <1>7


-----------------------------------------------------------------------------
(* ShownInv: one lemma per operation *)

LEMMA InitShown == Init => ShownInv
<1>. SUFFICES ASSUME Init PROVE ShownInv
  OBVIOUS
<1>1. TypeOK
  BY Bounds DEF Init, TypeOK, Ids, Accounts, Zevs, NoZev, NoFlow, NoEntry
<1>2. net \subseteq Req
  BY Bounds DEF Init, loadCurrentUser, Request, Req, Ids, Accounts
<1>3. Types
  BY <1>1, <1>2, Bounds DEF Init, Types
<1>. QED  BY <1>3 DEF Init, ShownInv, RequestsOfVersion, loadCurrentUser, Request, PickIsOwn,
            NoLeftoverData, LateIdentityIsDropped

\* A boundary: the version is bumped and the queries of the earlier one go.
LEMMA BoundaryShown ==
    ASSUME ShownInv, invalidateSessionRequests, resetQueryCache, clicks < MaxClicks
    PROVE  /\ version' \in 0..MaxClicks /\ version' > version
           /\ slot' \in [gen : 0..MaxClicks, userId : Accounts \cup {"none"}, seq : 0..MaxClicks]
           /\ slot'.gen = version' /\ slot'.seq = 0
           /\ cache' \in [Queries -> [by : Ids, sentIn : 0..MaxClicks]]
           /\ net' \subseteq Req /\ NoLeftoverData' /\ RequestsOfVersion'
<1>. USE Bounds
<1>1. version \in 0..MaxClicks /\ version' = version + 1 /\ version + 1 \in 0..MaxClicks
  BY DEF ShownInv, Types, TypeOK, invalidateSessionRequests
<1>2. slot' = [gen |-> version', userId |-> "none", seq |-> 0]
  BY <1>1 DEF invalidateSessionRequests
<1>3. cache' = [q \in Queries |-> NoEntry] /\ NoEntry \in [by : Ids, sentIn : 0..MaxClicks]
  BY DEF resetQueryCache, NoEntry, Ids
<1>4. \A r \in net' : r \in net /\ r.what # "query"
  BY DEF resetQueryCache
<1>5. \A r \in net : r \in Req /\ r.in \in 0..MaxClicks /\ r.in <= version
  BY DEF ShownInv, Types, RequestsOfVersion, Req
<1>6. net' \subseteq Req
  BY <1>4, <1>5
<1>7. RequestsOfVersion'
  BY <1>1, <1>4, <1>5 DEF RequestsOfVersion
<1>8. NoLeftoverData'
  BY <1>3 DEF NoLeftoverData
<1>. QED  BY <1>1, <1>2, <1>3, <1>6, <1>7, <1>8

LEMMA BeginShown == ASSUME ShownInv, NEW d \in Doors, Begin(d) PROVE ShownInv'
<1>. USE Bounds
<1>1. flow'.at \in {"idle", "asked", "loading"} /\ clicks < MaxClicks /\ clicks' = clicks + 1
  BY DEF Begin, Click
<1>2. /\ Len(saves) \in Nat /\ version \in 0..MaxClicks /\ clicks \in 0..MaxClicks
      /\ Len(saves) <= clicks /\ version <= clicks /\ bye \in 0..MaxClicks /\ bye <= version
  BY DEF ShownInv, Types, TypeOK
<1>3. /\ version' \in 0..MaxClicks /\ version' >= version /\ version' <= clicks'
      /\ slot' \in [gen : 0..MaxClicks, userId : Accounts \cup {"none"}, seq : 0..MaxClicks]
      /\ slot'.gen = version' /\ slot'.seq <= Len(saves)
      /\ cache' \in [Queries -> [by : Ids, sentIn : 0..MaxClicks]]
      /\ shown' \in [askedIn : 0..MaxClicks, heldOver : Ids]
      /\ net' \subseteq Req /\ NoLeftoverData' /\ RequestsOfVersion' /\ LateIdentityIsDropped'
  <2>1. CASE d.guards
    <3>1. /\ invalidateSessionRequests /\ resetQueryCache /\ user' = user
          /\ shown' = [shown EXCEPT !.heldOver = user]
      BY <2>1 DEF Begin
    <3>2. version' >= version /\ version' <= clicks'
      BY <1>1, <1>2, <3>1 DEF invalidateSessionRequests
    <3>3. shown' \in [askedIn : 0..MaxClicks, heldOver : Ids] /\ LateIdentityIsDropped'
      BY <3>1 DEF ShownInv, Types, TypeOK, LateIdentityIsDropped
    <3>. QED  BY <1>1, <1>2, <3>1, <3>2, <3>3, BoundaryShown
  <2>2. CASE ~d.guards
    <3>1. UNCHANGED <<version, slot, net, cache, shown, user>>
      BY <2>2 DEF Begin
    <3>. QED  BY <1>1, <1>2, <3>1 DEF ShownInv, Types, TypeOK, RequestsOfVersion, NoLeftoverData,
                LateIdentityIsDropped
  <2>. QED  BY <2>1, <2>2
<1>4. Types'
  BY <1>1, <1>2, <1>3 DEF ShownInv, Types, TypeOK, Begin, Ids
<1>5. PickIsOwn'
  BY DEF ShownInv, PickIsOwn, Begin
<1>. QED  BY <1>3, <1>4, <1>5 DEF ShownInv

LEMMA AdmitShown ==
    ASSUME ShownInv, NEW d \in Doors, NEW i \in Accounts \cup {"as"}, Admit(d, i)
    PROVE  ShownInv'
<1>. DEFINE m == [loadCurrentUser("flow") EXCEPT !.as = i]
<1>1. i \in Ids /\ "none" \in Ids
  BY DEF Ids
<1>2. loadCurrentUser("flow") \in Req /\ loadCurrentUser("flow").what = "flow"
      /\ loadCurrentUser("flow").in = version
  BY RequestType DEF loadCurrentUser, ShownInv
<1>3. m \in Req /\ m.what = "flow" /\ m.in = version
  BY <1>1, <1>2 DEF Req
<1>4. net' = net \cup {m}
  BY DEF Admit
<1>5. /\ user' \in Ids /\ (user' = user \/ user' = "none")
      /\ pick' \in Accounts \cup {"none"}
      /\ PickIsOwn'
  <2>1. CASE d = stopImpersonation
    <3>1. ShowUser("none")
      BY <2>1 DEF Admit
    <3>. QED  BY <1>1, <3>1, ShowUserFacts DEF ShownInv
  <2>2. CASE d # stopImpersonation
    <3>1. UNCHANGED <<user, pick>>
      BY <2>2 DEF Admit
    <3>. QED  BY <3>1 DEF ShownInv, Types, TypeOK, PickIsOwn
  <2>. QED  BY <2>1, <2>2
<1>6. flow'.at \in {"idle", "asked", "loading"}
  BY DEF Admit
<1>. HIDE DEF m
<1>7. net' \subseteq Req
  BY <1>3, <1>4 DEF ShownInv, Types
<1>8. Types'
  BY <1>1, <1>5, <1>6, <1>7 DEF ShownInv, Types, TypeOK, Admit
<1>9. RequestsOfVersion'
  <2>1. version' = version /\ version \in Nat
    BY Bounds DEF ShownInv, Types, TypeOK, Admit
  <2>. QED  BY <1>3, <1>4, <2>1 DEF ShownInv, RequestsOfVersion
<1>10. LateIdentityIsDropped'
  BY <1>5, LateKept DEF ShownInv, Admit
<1>. QED  BY <1>5, <1>8, <1>9, <1>10 DEF ShownInv, NoLeftoverData, Admit

LEMMA ChallengeShown == ASSUME ShownInv, NEW d \in Doors, Challenge(d) PROVE ShownInv'
<1>1. flow'.at \in {"idle", "asked", "loading"}
  BY DEF Challenge, NoFlow
<1>. QED  BY <1>1 DEF ShownInv, Types, TypeOK, RequestsOfVersion, NoLeftoverData, PickIsOwn,
            LateIdentityIsDropped, Challenge

LEMMA RefuseShown ==
    ASSUME ShownInv, NEW d \in Doors, NEW expired \in BOOLEAN, Refuse(d, expired)
    PROVE  ShownInv'
<1>1. flow'.at \in {"idle", "asked", "loading"}
  BY DEF Refuse, NoFlow
<1>2. /\ user' \in Ids /\ jar' \in Ids /\ (user' = user \/ user' = "none")
      /\ pick' \in Accounts \cup {"none"}
      /\ PickIsOwn'
  <2>1. CASE expired
    <3>1. ShowUser("none") /\ jar' = "none"
      BY <2>1 DEF Refuse
    <3>. QED  BY <3>1, ShowUserFacts DEF ShownInv, Ids
  <2>2. CASE ~expired
    <3>1. UNCHANGED <<user, jar, pick>>
      BY <2>2 DEF Refuse
    <3>. QED  BY <3>1 DEF ShownInv, Types, TypeOK, PickIsOwn
  <2>. QED  BY <2>1, <2>2
<1>3. LateIdentityIsDropped'
  BY <1>2, LateKept DEF ShownInv, Refuse
<1>. QED  BY <1>1, <1>2, <1>3 DEF ShownInv, Types, TypeOK, RequestsOfVersion, NoLeftoverData, Refuse

LEMMA LogoutShown == ASSUME ShownInv, Logout PROVE ShownInv'
<1>. USE Bounds
<1>1. /\ invalidateSessionRequests /\ resetQueryCache /\ clicks < MaxClicks /\ ShowUser("none")
      /\ clicks' = clicks + 1 /\ shown' = [shown EXCEPT !.heldOver = "none"]
  BY DEF Logout, Click
<1>2. user' = "none" /\ pick' \in Accounts \cup {"none"} /\ PickIsOwn'
  BY <1>1, ShowUserFacts DEF ShownInv, Ids
<1>3. /\ bye' \in 0..MaxClicks /\ bye' <= version' /\ version' <= clicks'
      /\ clicks' \in 0..MaxClicks /\ Len(saves) <= clicks'
  BY <1>1 DEF ShownInv, Types, TypeOK, Logout, invalidateSessionRequests
<1>4. Len(saves) \in Nat
  BY DEF ShownInv, Types
<1>5. /\ version' \in 0..MaxClicks
      /\ slot' \in [gen : 0..MaxClicks, userId : Accounts \cup {"none"}, seq : 0..MaxClicks]
      /\ slot'.gen = version' /\ slot'.seq <= Len(saves)
      /\ cache' \in [Queries -> [by : Ids, sentIn : 0..MaxClicks]]
      /\ net' \subseteq Req /\ NoLeftoverData' /\ RequestsOfVersion'
  BY <1>1, <1>4, BoundaryShown
<1>6. shown' \in [askedIn : 0..MaxClicks, heldOver : Ids]
  BY <1>1 DEF ShownInv, Types, TypeOK, Ids
<1>7. Types'
  BY <1>2, <1>3, <1>5, <1>6 DEF ShownInv, Types, TypeOK, Logout, Ids
<1>8. LateIdentityIsDropped'
  BY <1>2 DEF LateIdentityIsDropped
<1>. QED  BY <1>2, <1>5, <1>7, <1>8 DEF ShownInv

LEMMA LogoutAnsweredShown ==
    ASSUME ShownInv, NEW lost \in BOOLEAN, LogoutAnswered(lost) PROVE ShownInv'
<1>1. bye' \in 0..MaxClicks /\ bye' <= version /\ jar' \in Ids
  BY Bounds DEF ShownInv, Types, TypeOK, LogoutAnswered, Ids
<1>. QED  BY <1>1 DEF ShownInv, Types, TypeOK, RequestsOfVersion, NoLeftoverData, PickIsOwn,
            LateIdentityIsDropped, LogoutAnswered


LEMMA SendShown ==
    ASSUME ShownInv, NEW m \in Req, m.in = version, m.what = "query" => m.about \in Queries,
           net' = net \cup {m},
           UNCHANGED <<user, version, slot, flow, refresh, bye, jar, cache, pick, server,
                       pref, shown>>,
           Click \/ UNCHANGED clicks,
           saves' \in Seq(Save), Len(saves') = Len(saves)
    PROVE  ShownInv'
<1>1. Types'
  BY Bounds DEF ShownInv, Types, TypeOK, Click
<1>2. RequestsOfVersion'
  BY Bounds DEF ShownInv, Types, TypeOK, RequestsOfVersion
<1>. QED  BY <1>1, <1>2 DEF ShownInv, PickIsOwn, NoLeftoverData, LateIdentityIsDropped

LEMMA RefreshUserShown == ASSUME ShownInv, RefreshUser PROVE ShownInv'
<1>1. loadCurrentUser("refresh") \in Req /\ loadCurrentUser("refresh").what = "refresh"
      /\ loadCurrentUser("refresh").in = version
  BY RequestType DEF loadCurrentUser, ShownInv
<1>2. net' = net \cup {loadCurrentUser("refresh")} /\ saves' \in Seq(Save) /\ Len(saves') = Len(saves)
  BY DEF RefreshUser, ShownInv, Types
<1>. QED  BY <1>1, <1>2, SendShown DEF RefreshUser

LEMMA FetchShown == ASSUME ShownInv, NEW q \in Queries, Fetch(q) PROVE ShownInv'
<1>. DEFINE m == Request("query", q, version)
<1>1. m \in Req /\ m.in = version /\ (m.what = "query" => m.about \in Queries)
  <2>1. q \in {"me"} \cup Zevs \cup Queries /\ Types
    BY DEF ShownInv
  <2>. QED  BY <2>1, RequestType
<1>2. net' = net \cup {m} /\ saves' \in Seq(Save) /\ Len(saves') = Len(saves)
  BY DEF Fetch, ShownInv, Types
<1>. HIDE DEF m
<1>. QED  BY <1>1, <1>2, SendShown DEF Fetch

\* The save that joins the chain.
NewSave ==
    [gen |-> slot.gen, caller |-> AccountOf(user),
     seq |-> IF slot.userId = AccountOf(user) THEN slot.seq + 1 ELSE 1,
     zev |-> Len(saves) + 1, at |-> "queued", stored |-> "none"]

LEMMA PickFacts ==
    ASSUME ShownInv, updatePreferredZev
    PROVE  /\ NewSave \in Save /\ saves' = Append(saves, NewSave)
           /\ saves' \in Seq(Save) /\ Len(saves') = Len(saves) + 1 /\ Len(saves') <= clicks'
           /\ DOMAIN saves' = 1..(Len(saves) + 1) /\ DOMAIN saves = 1..Len(saves)
           /\ \A i \in DOMAIN saves : saves'[i] = saves[i]
           /\ saves'[Len(saves) + 1] = NewSave
           /\ slot' = [slot EXCEPT !.userId = NewSave.caller, !.seq = NewSave.seq]
           /\ pick' = NewSave.caller
           /\ clicks' = clicks + 1 /\ clicks' \in 0..MaxClicks
<1>. USE Bounds
<1>0. clicks < MaxClicks /\ clicks' = clicks + 1 /\ user # "none"
  BY DEF updatePreferredZev, Click, Mounted
<1>1. saves \in Seq(Save) /\ Len(saves) \in Nat /\ Len(saves) + 1 \in Zevs /\ slot.seq \in Nat
      /\ slot.seq <= Len(saves) /\ slot.gen \in 0..MaxClicks
      /\ Len(saves) <= clicks /\ clicks \in 0..MaxClicks
  BY <1>0 DEF ShownInv, Types, TypeOK, Zevs
<1>2. AccountOf(user) \in Accounts
  <2>1. user \in Ids
    BY DEF ShownInv, Types, TypeOK
  <2>. QED  BY <1>0, <2>1, AccountFacts
<1>3. (IF slot.userId = AccountOf(user) THEN slot.seq + 1 ELSE 1) \in 1..MaxClicks
  BY <1>1 DEF Zevs
<1>5. NewSave \in Save
  BY <1>1, <1>2, <1>3 DEF NewSave, Save, Ids
<1>6. saves' = Append(saves, NewSave)
  BY DEF updatePreferredZev, NewSave
<1>7. slot' = [slot EXCEPT !.userId = NewSave.caller, !.seq = NewSave.seq]
      /\ pick' = NewSave.caller
  BY DEF updatePreferredZev, NewSave
<1>. HIDE DEF NewSave
<1>. QED  BY <1>0, <1>1, <1>5, <1>6, <1>7

LEMMA PickShown == ASSUME ShownInv, updatePreferredZev PROVE ShownInv'
<1>. USE Bounds
<1>1. NewSave.caller \in Accounts /\ NewSave.seq \in 0..MaxClicks
      /\ NewSave.seq <= Len(saves) + 1 /\ NewSave.caller = AccountOf(user)
  <2>1. NewSave \in Save /\ Len(saves) \in Nat /\ slot.seq \in Nat /\ slot.seq <= Len(saves)
    BY PickFacts DEF ShownInv, Types, TypeOK
  <2>2. NewSave.seq <= Len(saves) + 1 /\ NewSave.caller = AccountOf(user)
    BY <2>1 DEF NewSave
  <2>. QED  BY <2>1, <2>2 DEF Save
<1>2. /\ saves' \in Seq(Save) /\ Len(saves') = Len(saves) + 1 /\ Len(saves') <= clicks'
      /\ slot' = [slot EXCEPT !.userId = NewSave.caller, !.seq = NewSave.seq]
      /\ pick' = NewSave.caller
      /\ clicks' = clicks + 1 /\ clicks' \in 0..MaxClicks
  BY PickFacts
<1>3. /\ slot' \in [gen : 0..MaxClicks, userId : Accounts \cup {"none"}, seq : 0..MaxClicks]
      /\ slot'.gen = version /\ slot'.seq <= Len(saves')
  BY <1>1, <1>2 DEF ShownInv, Types, TypeOK
<1>4. Types'
  BY <1>1, <1>2, <1>3 DEF ShownInv, Types, TypeOK, updatePreferredZev
<1>5. PickIsOwn'
  BY <1>1, <1>2 DEF PickIsOwn, updatePreferredZev
<1>. QED  BY <1>4, <1>5 DEF ShownInv, RequestsOfVersion, NoLeftoverData, LateIdentityIsDropped,
            updatePreferredZev

\* Replacing one save by another leaves a sequence of saves of the same length.
LEMMA ReplaceSave ==
    ASSUME saves \in Seq(Save), NEW i \in DOMAIN saves, NEW s \in Save,
           saves' = [saves EXCEPT ![i] = s]
    PROVE  /\ saves' \in Seq(Save) /\ Len(saves') = Len(saves) /\ DOMAIN saves' = DOMAIN saves
           /\ DOMAIN saves = 1..Len(saves) /\ Len(saves) \in Nat
           /\ \A j \in DOMAIN saves : saves'[j] = IF j = i THEN s ELSE saves[j]
  OBVIOUS

LEMMA DispatchFacts ==
    ASSUME ShownInv, NEW i \in DOMAIN saves, DispatchSave(i)
    PROVE  \/ /\ saves[i].gen = version /\ net' = net \cup {Request("save", i, version)}
              /\ saves' = [saves EXCEPT ![i] = [saves[i] EXCEPT !.at = "sent"]]
              /\ [saves[i] EXCEPT !.at = "sent"] \in Save
           \/ /\ saves[i].gen # version /\ net' = net
              /\ saves' = [saves EXCEPT ![i] = [saves[i] EXCEPT !.at = "done"]]
              /\ [saves[i] EXCEPT !.at = "done"] \in Save
<1>1. saves[i] \in Save /\ slot.gen = version /\ jar \in Ids
  BY DEF ShownInv, Types, TypeOK
<1>. QED  BY <1>1 DEF DispatchSave, Save

LEMMA DispatchShown == ASSUME ShownInv, NEW i \in DOMAIN saves, DispatchSave(i) PROVE ShownInv'
<1>1. saves \in Seq(Save) /\ i \in Zevs
  <2>1. Len(saves) <= clicks /\ clicks \in 0..MaxClicks /\ Len(saves) \in Nat /\ DOMAIN saves = 1..Len(saves)
        /\ saves \in Seq(Save)
    BY DEF ShownInv, Types, TypeOK
  <2>. QED  BY <2>1, Bounds DEF Zevs
<1>2. CASE saves[i].gen = version
  <2>1. saves' \in Seq(Save) /\ Len(saves') = Len(saves) /\ net' = net \cup {Request("save", i, version)}
    BY <1>1, <1>2, DispatchFacts, ReplaceSave
  <2>2. Request("save", i, version) \in Req /\ Request("save", i, version).in = version
        /\ Request("save", i, version).what = "save"
    BY <1>1, RequestType DEF ShownInv
  <2>. QED  BY <2>1, <2>2, SendShown DEF DispatchSave
<1>3. CASE saves[i].gen # version
  <2>1. saves' \in Seq(Save) /\ Len(saves') = Len(saves) /\ net' = net
    BY <1>1, <1>3, DispatchFacts, ReplaceSave
  <2>. QED  BY <2>1 DEF DispatchSave, ShownInv, Types, TypeOK, RequestsOfVersion, NoLeftoverData,
              PickIsOwn, LateIdentityIsDropped
<1>. QED  BY <1>2, <1>3


\* Requests of the set kept, each renewed or as it was, are of their version.
LEMMA KeptRequests ==
    ASSUME ShownInv, NEW N,
           \A r \in N : r \in Req /\ \E s \in net : r.what = s.what /\ r.about = s.about /\ r.in = s.in
    PROVE  /\ N \subseteq Req
           /\ \A r \in N : r.in <= version /\ (r.what = "query" => r.about \in Queries /\ r.in = version)
  BY DEF ShownInv, RequestsOfVersion

LEMMA MeArrivesShown == ASSUME ShownInv, NEW r \in net, MeArrives(r) PROVE ShownInv'
<1>1. r \in Req /\ net \subseteq Req /\ r.as \in Ids /\ r.as # "none"
  BY DEF ShownInv, Types, Req, MeArrives, Authorized
<1>2. AccountOf(r.as) \in Accounts
  BY <1>1, AccountFacts
<1>3. /\ user' \in Ids /\ pref' \in Zevs \cup {NoZev}
      /\ pick' \in Accounts \cup {"none"}
      /\ shown' \in [askedIn : 0..MaxClicks, heldOver : Ids]
      /\ PickIsOwn' /\ LateIdentityIsDropped'
  <2>1. CASE r.in = version
    <3>1. ShowUser(r.as) /\ pref' = NoZev /\ shown' = [shown EXCEPT !.askedIn = r.in]
          /\ version' = version
      BY <2>1 DEF MeArrives
    <3>2. shown' \in [askedIn : 0..MaxClicks, heldOver : Ids] /\ shown'.askedIn = version'
      BY <2>1, <3>1 DEF ShownInv, Types, TypeOK
    <3>3. LateIdentityIsDropped'
      BY <3>2 DEF LateIdentityIsDropped
    <3>. QED  BY <1>1, <3>1, <3>2, <3>3, ShowUserFacts DEF ShownInv
  <2>2. CASE r.in # version
    <3>1. UNCHANGED <<user, pick, pref, shown, version>>
      BY <2>2 DEF MeArrives
    <3>. QED  BY <3>1 DEF ShownInv, Types, TypeOK, PickIsOwn, LateIdentityIsDropped
  <2>. QED  BY <2>1, <2>2
<1>4. flow'.at \in {"idle", "asked", "loading"}
  BY DEF MeArrives, NoFlow, ShownInv, Types, TypeOK
<1>5. net' \subseteq net
  BY DEF MeArrives
<1>6. Types'
  BY <1>1, <1>3, <1>4, <1>5 DEF ShownInv, Types, TypeOK, MeArrives
<1>7. RequestsOfVersion'
  BY <1>5 DEF ShownInv, RequestsOfVersion, MeArrives
<1>. QED  BY <1>3, <1>6, <1>7 DEF ShownInv, NoLeftoverData, MeArrives

\* The request of a save names it.
LEMMA SaveRequestFacts ==
    ASSUME SavesInv, NEW r \in net, r.what = "save"
    PROVE  /\ r \in Req /\ r.as \in Ids /\ r.about \in DOMAIN saves /\ r.about \in 1..Len(saves)
           /\ saves \in Seq(Save) /\ saves[r.about] \in Save /\ Len(saves) \in Nat
           /\ DOMAIN saves = 1..Len(saves)
  BY DEF SavesInv, ShownInv, Types, SaveRequests, Req

LEMMA StoredFacts ==
    ASSUME SavesInv, NEW r \in net, SaveStored(r)
    PROVE  /\ AccountOf(r.as) \in Accounts /\ r.as # "none" /\ r.at = "sent"
           /\ [saves[r.about] EXCEPT !.stored = AccountOf(r.as)] \in Save
           /\ saves' = [saves EXCEPT ![r.about] = [saves[r.about] EXCEPT !.stored = AccountOf(r.as)]]
           /\ server' = [server EXCEPT ![AccountOf(r.as)] = saves[r.about].zev]
           /\ server' \in [Accounts -> Zevs \cup {NoZev}]
           /\ net' = (net \ {r}) \cup {[r EXCEPT !.at = "stored"]}
<1>1. r.what = "save" /\ r.as # "none" /\ r.at = "sent"
  BY DEF SaveStored, Authorized
<1>2. r.as \in Ids /\ saves[r.about] \in Save /\ r.about \in DOMAIN saves
  BY <1>1, SaveRequestFacts
<1>3. AccountOf(r.as) \in Accounts
  BY <1>1, <1>2, AccountFacts
<1>4. [saves[r.about] EXCEPT !.stored = AccountOf(r.as)] \in Save
  BY <1>2, <1>3 DEF Save
<1>5. saves[r.about].zev \in Zevs
  BY <1>2 DEF Save
<1>6. server' \in [Accounts -> Zevs \cup {NoZev}]
  BY <1>3, <1>5 DEF SaveStored, SavesInv, ShownInv, Types, TypeOK
<1>. QED  BY <1>1, <1>3, <1>4, <1>6 DEF SaveStored

LEMMA SaveStoredShown == ASSUME SavesInv, NEW r \in net, SaveStored(r) PROVE ShownInv'
<1>1. r.what = "save" /\ ShownInv
  BY DEF SaveStored, SavesInv
<1>2. saves' \in Seq(Save) /\ Len(saves') = Len(saves)
  <2>. DEFINE n == [saves[r.about] EXCEPT !.stored = AccountOf(r.as)]
  <2>1. n \in Save /\ saves' = [saves EXCEPT ![r.about] = n]
    BY StoredFacts
  <2>2. saves \in Seq(Save) /\ r.about \in DOMAIN saves
    BY <1>1, SaveRequestFacts
  <2>. HIDE DEF n
  <2>. QED  BY <2>1, <2>2, ReplaceSave
<1>. DEFINE m == [r EXCEPT !.at = "stored"]
<1>3. m \in Req /\ m.what = r.what /\ m.about = r.about /\ m.in = r.in
  BY <1>1, SaveRequestFacts DEF Req
<1>4. net' = (net \ {r}) \cup {m} /\ server' \in [Accounts -> Zevs \cup {NoZev}]
  BY StoredFacts
<1>. HIDE DEF m
<1>5. \A s \in net' : s \in Req /\ \E t \in net : s.what = t.what /\ s.about = t.about /\ s.in = t.in
  BY <1>1, <1>3, <1>4 DEF ShownInv, Types
<1>6. /\ net' \subseteq Req
      /\ \A s \in net' : s.in <= version /\ (s.what = "query" => s.about \in Queries /\ s.in = version)
  BY <1>1, <1>5, KeptRequests
<1>7. Types'
  BY <1>1, <1>2, <1>4, <1>6 DEF ShownInv, Types, TypeOK, SaveStored
<1>8. RequestsOfVersion'
  BY <1>6 DEF RequestsOfVersion, SaveStored
<1>. QED  BY <1>1, <1>7, <1>8 DEF ShownInv, PickIsOwn, NoLeftoverData, LateIdentityIsDropped, SaveStored

LEMMA SaveArrivesFacts ==
    ASSUME SavesInv, NEW r \in net, SaveArrives(r)
    PROVE  /\ r.what = "save" /\ r.at = "stored" /\ net' = net \ {r}
           /\ [saves[r.about] EXCEPT !.at = "done"] \in Save
           /\ saves' = [saves EXCEPT ![r.about] = [saves[r.about] EXCEPT !.at = "done"]]
           /\ pref' \in {pref, saves[r.about].zev} /\ saves[r.about].zev \in Zevs
<1>1. r.what = "save" /\ saves[r.about] \in Save
  BY SaveRequestFacts DEF SaveArrives
<1>. QED  BY <1>1 DEF SaveArrives, Save

LEMMA SaveArrivesShown == ASSUME SavesInv, NEW r \in net, SaveArrives(r) PROVE ShownInv'
<1>1. r.what = "save" /\ ShownInv /\ net' = net \ {r} /\ pref' \in Zevs \cup {NoZev}
  <2>1. pref \in Zevs \cup {NoZev}
    BY DEF SavesInv, ShownInv, Types, TypeOK
  <2>. QED  BY <2>1, SaveArrivesFacts DEF SavesInv
<1>2. saves' \in Seq(Save) /\ Len(saves') = Len(saves)
  BY <1>1, SaveRequestFacts, SaveArrivesFacts, ReplaceSave
<1>3. Types'
  BY <1>1, <1>2 DEF ShownInv, Types, TypeOK, SaveArrives
<1>. QED  BY <1>1, <1>3 DEF ShownInv, RequestsOfVersion, PickIsOwn, NoLeftoverData,
            LateIdentityIsDropped, SaveArrives

LEMMA QueryArrivesShown == ASSUME ShownInv, NEW r \in net, QueryArrives(r) PROVE ShownInv'
<1>1. r \in Req /\ r.about \in Queries /\ r.in = version /\ r.as \in Ids
  BY DEF QueryArrives, ShownInv, Types, RequestsOfVersion, Req
<1>2. /\ cache' = [cache EXCEPT ![r.about] = [by |-> r.as, sentIn |-> version]]
      /\ [by |-> r.as, sentIn |-> version] \in [by : Ids, sentIn : 0..MaxClicks]
  BY <1>1 DEF QueryArrives, ShownInv, Types, TypeOK
<1>3. cache' \in [Queries -> [by : Ids, sentIn : 0..MaxClicks]]
  BY <1>1, <1>2 DEF ShownInv, Types, TypeOK
<1>4. Types'
  BY <1>3 DEF ShownInv, Types, TypeOK, QueryArrives
<1>5. NoLeftoverData'
  BY <1>1, <1>2 DEF NoLeftoverData, ShownInv, Types, TypeOK, QueryArrives
<1>. QED  BY <1>4, <1>5 DEF ShownInv, RequestsOfVersion, PickIsOwn, LateIdentityIsDropped, QueryArrives

\* Requests that end with an error take nothing of this session with them.
LEMMA FailedShown ==
    ASSUME ShownInv, NEW rs, Fails(rs), net' \subseteq net, jar' \in Ids, refresh' \in Ids \cup {"idle"},
           UNCHANGED <<clicks, version, slot, bye, cache, server, pref, shown>>
    PROVE  ShownInv'
<1>1. /\ user' \in Ids /\ (user' = user \/ user' = "none")
      /\ flow'.at \in {"idle", "asked", "loading"}
      /\ pick' \in Accounts \cup {"none"}
      /\ PickIsOwn'
      /\ Len(saves') = Len(saves) /\ saves' \in Seq(Save)
  BY FailsFacts DEF ShownInv
<1>2. Types'
  BY <1>1 DEF ShownInv, Types, TypeOK
<1>3. LateIdentityIsDropped'
  BY <1>1, LateKept DEF ShownInv
<1>. QED  BY <1>1, <1>2, <1>3 DEF ShownInv, RequestsOfVersion, NoLeftoverData

LEMMA NetworkErrorShown == ASSUME ShownInv, NEW r \in net, NetworkError(r) PROVE ShownInv'
<1>1. Fails({r}) /\ net' = net \ {r} /\ UNCHANGED <<jar, refresh>>
      /\ UNCHANGED <<clicks, version, slot, bye, cache, server, pref, shown>>
  BY DEF NetworkError
<1>2. jar' \in Ids /\ refresh' \in Ids \cup {"idle"} /\ net' \subseteq net
  BY <1>1 DEF ShownInv, Types, TypeOK
<1>. QED  BY <1>1, <1>2, FailedShown

LEMMA UnauthorizedShown == ASSUME ShownInv, NEW r \in net, Unauthorized(r) PROVE ShownInv'
<1>1. r \in Req /\ net \subseteq Req
  BY DEF ShownInv, Types
<1>2. CASE r.retried
  <2>1. Fails({r}) /\ net' = net \ {r} /\ UNCHANGED <<jar, refresh>>
        /\ UNCHANGED <<clicks, version, slot, bye, cache, server, pref, shown>>
    BY <1>2 DEF Unauthorized
  <2>2. jar' \in Ids /\ refresh' \in Ids \cup {"idle"} /\ net' \subseteq net
    BY <2>1 DEF ShownInv, Types, TypeOK
  <2>. QED  BY <2>1, <2>2, FailedShown
<1>3. CASE ~r.retried
  <2>. DEFINE m == [r EXCEPT !.retried = TRUE, !.at = "waiting"]
  <2>1. net' = (net \ {r}) \cup {m} /\ refresh' \in Ids \cup {"idle"}
        /\ UNCHANGED <<user, pick, flow, saves>>
    BY <1>3 DEF Unauthorized, ShownInv, Types, TypeOK
  <2>2. m \in Req /\ m.what = r.what /\ m.about = r.about /\ m.in = r.in
    BY <1>1 DEF Req
  <2>. HIDE DEF m
  <2>3. \A s \in net' : s \in Req /\ \E t \in net : s.what = t.what /\ s.about = t.about /\ s.in = t.in
    BY <1>1, <2>1, <2>2
  <2>4. /\ net' \subseteq Req
        /\ \A s \in net' : s.in <= version /\ (s.what = "query" => s.about \in Queries /\ s.in = version)
    BY <2>3, KeptRequests
  <2>5. Types'
    BY <2>1, <2>4 DEF ShownInv, Types, TypeOK, Unauthorized
  <2>6. RequestsOfVersion'
    BY <2>4 DEF RequestsOfVersion, Unauthorized
  <2>. QED  BY <2>1, <2>5, <2>6 DEF ShownInv, PickIsOwn, NoLeftoverData, LateIdentityIsDropped,
              Unauthorized
<1>. QED  BY <1>2, <1>3

\* What the refresh makes of the requests on their way.
Renewed(r) == IF r.at = "waiting" THEN [r EXCEPT !.at = "sent", !.as = refresh] ELSE r

LEMMA RenewedFacts ==
    ASSUME NEW r \in Req, refresh \in Ids
    PROVE  /\ Renewed(r) \in Req /\ Renewed(r).what = r.what /\ Renewed(r).about = r.about
           /\ Renewed(r).in = r.in /\ Renewed(r).as \in {r.as, refresh}
           /\ (Renewed(r).at = "stored" <=> r.at = "stored")
           /\ (r.at = "stored" => Renewed(r) = r)
  BY DEF Renewed, Req

LEMMA RenewedNet ==
    ASSUME RefreshAnswered
    PROVE  refresh \in Ids /\ refresh # "none" /\ jar' = refresh /\ net' = {Renewed(r) : r \in net}
  BY DEF RefreshAnswered, Renewed

LEMMA RefreshAnsweredShown == ASSUME ShownInv, RefreshAnswered PROVE ShownInv'
<1>1. refresh \in Ids /\ jar' = refresh /\ net' = {Renewed(r) : r \in net}
  BY RenewedNet
<1>2. \A r \in net : r \in Req
  BY DEF ShownInv, Types
<1>3. \A s \in net' : s \in Req /\ \E t \in net : s.what = t.what /\ s.about = t.about /\ s.in = t.in
  BY <1>1, <1>2, RenewedFacts
<1>4. /\ net' \subseteq Req
      /\ \A s \in net' : s.in <= version /\ (s.what = "query" => s.about \in Queries /\ s.in = version)
  BY <1>3, KeptRequests
<1>5. refresh' = "idle" /\ UNCHANGED <<user, clicks, version, slot, saves, flow,
        bye, cache, pick, server, pref, shown>>
  BY DEF RefreshAnswered
<1>6. Types'
  BY <1>1, <1>4, <1>5 DEF ShownInv, Types, TypeOK
<1>7. RequestsOfVersion'
  BY <1>4, <1>5 DEF RequestsOfVersion
<1>. QED  BY <1>5, <1>6, <1>7 DEF ShownInv, PickIsOwn, NoLeftoverData, LateIdentityIsDropped

LEMMA RefreshRefusedShown == ASSUME ShownInv, RefreshRefused PROVE ShownInv'
<1>. DEFINE waiting == {r \in net : r.at = "waiting"}
<1>1. Fails(waiting) /\ net' = net \ waiting /\ jar' \in {jar, "none"} /\ refresh' = "idle"
      /\ UNCHANGED <<clicks, version, slot, bye, cache, server, pref, shown>>
  BY DEF RefreshRefused
<1>2. jar' \in Ids /\ refresh' \in Ids \cup {"idle"} /\ net' \subseteq net
  BY <1>1 DEF ShownInv, Types, TypeOK, Ids
<1>. QED  BY <1>1, <1>2, FailedShown

-----------------------------------------------------------------------------
(* SavesInv: one lemma per operation *)

LEMMA InitSaves == Init => SavesInv
<1>. SUFFICES ASSUME Init PROVE SavesInv
  OBVIOUS
<1>1. saves = <<>> /\ DOMAIN saves = {}
  BY DEF Init
<1>2. \A r \in net : r.what = "first"
  BY DEF Init, loadCurrentUser, Request
<1>. QED  BY <1>1, <1>2, InitShown DEF SavesInv, SaveStates, SaveRequests, LaterPickReplaces

\* The domain and the types of the saves.
LEMMA SavesFacts ==
    ASSUME ShownInv
    PROVE  /\ saves \in Seq(Save) /\ Len(saves) \in Nat /\ DOMAIN saves = 1..Len(saves)
           /\ \A i \in DOMAIN saves : saves[i] \in Save
           /\ \A i \in DOMAIN saves :
                 /\ saves[i].gen \in Nat /\ saves[i].caller \in Accounts
                 /\ saves[i].at \in {"queued", "sent", "done", "failed"}
                 /\ saves[i].stored \in Accounts \cup {"none"}
           /\ version \in Nat /\ slot.gen = version
           /\ (saves # <<>> => Len(saves) \in DOMAIN saves)
<1>1. saves \in Seq(Save) /\ version \in Nat /\ slot.gen = version
  BY Bounds DEF ShownInv, Types, TypeOK
<1>2. /\ Len(saves) \in Nat /\ DOMAIN saves = 1..Len(saves)
      /\ \A i \in DOMAIN saves : saves[i] \in Save
      /\ (saves # <<>> => Len(saves) \in DOMAIN saves)
  BY <1>1
<1>3. \A s \in Save :
          /\ s.gen \in Nat /\ s.caller \in Accounts
          /\ s.at \in {"queued", "sent", "done", "failed"}
          /\ s.stored \in Accounts \cup {"none"}
  BY Bounds DEF Save
<1>. QED  BY <1>1, <1>2, <1>3

\* An operation that leaves the saves alone.
LEMMA SavesKept ==
    ASSUME SavesInv, ShownInv', SaveRequests', UNCHANGED <<saves, server, version>>
    PROVE  SavesInv'
  BY DEF SavesInv, SaveStates, LaterPickReplaces

\* No save's request is sent, changed or answered.
LEMMA SaveRequestsKept ==
    ASSUME SavesInv, UNCHANGED saves, \A r \in net' : r.what = "save" => r \in net
    PROVE  SaveRequests'
  BY DEF SavesInv, SaveRequests

\* A boundary: the saves are those of an earlier session.
LEMMA BoundarySaves ==
    ASSUME SavesInv, ShownInv', version' = version + 1, UNCHANGED <<saves, server>>,
           net' \subseteq net
    PROVE  SavesInv'
<1>1. SaveRequests'
  BY SaveRequestsKept
<1>2. \A i \in DOMAIN saves : saves[i].gen <= version /\ saves[i].gen \in Nat /\ version \in Nat
  BY SavesFacts DEF SavesInv, SaveStates
<1>3. \A i \in DOMAIN saves : saves[i].gen <= version'
  BY <1>2
<1>4. SaveStates'
  BY <1>3 DEF SavesInv, SaveStates
<1>. QED  BY <1>1, <1>4 DEF SavesInv, LaterPickReplaces

LEMMA BeginSaves == ASSUME SavesInv, NEW d \in Doors, Begin(d) PROVE SavesInv'
<1>1. ShownInv'
  BY BeginShown DEF SavesInv
<1>2. CASE d.guards
  <2>1. version' = version + 1 /\ UNCHANGED <<saves, server>> /\ net' \subseteq net
    BY <1>2 DEF Begin, invalidateSessionRequests, resetQueryCache
  <2>. QED  BY <1>1, <2>1, BoundarySaves
<1>3. CASE ~d.guards
  <2>1. UNCHANGED <<saves, server, version, slot, user, pref, net>>
    BY <1>3 DEF Begin
  <2>. QED  BY <1>1, <2>1, SaveRequestsKept, SavesKept
<1>. QED  BY <1>2, <1>3

LEMMA LogoutSaves == ASSUME SavesInv, Logout PROVE SavesInv'
<1>1. ShownInv'
  BY LogoutShown DEF SavesInv
<1>2. version' = version + 1 /\ UNCHANGED <<saves, server>> /\ net' \subseteq net
  BY DEF Logout, invalidateSessionRequests, resetQueryCache
<1>. QED  BY <1>1, <1>2, BoundarySaves

LEMMA AdmitSaves ==
    ASSUME SavesInv, NEW d \in Doors, NEW i \in Accounts \cup {"as"}, Admit(d, i)
    PROVE  SavesInv'
<1>1. ShownInv'
  BY AdmitShown DEF SavesInv
<1>. DEFINE m == [loadCurrentUser("flow") EXCEPT !.as = i]
<1>2. net' = net \cup {m}
  BY DEF Admit
<1>3. m.what = "flow"
  BY DEF loadCurrentUser, Request
<1>4. SaveRequests'
  BY <1>2, <1>3, SaveRequestsKept DEF Admit
<1>. QED  BY <1>1, <1>4, SavesKept DEF Admit

LEMMA ChallengeSaves == ASSUME SavesInv, NEW d \in Doors, Challenge(d) PROVE SavesInv'
<1>1. ShownInv' /\ SaveRequests'
  BY ChallengeShown, SaveRequestsKept DEF SavesInv, Challenge
<1>. QED  BY <1>1, SavesKept DEF Challenge

LEMMA RefuseSaves ==
    ASSUME SavesInv, NEW d \in Doors, NEW expired \in BOOLEAN, Refuse(d, expired)
    PROVE  SavesInv'
<1>1. ShownInv' /\ SaveRequests'
  BY RefuseShown, SaveRequestsKept DEF SavesInv, Refuse
<1>. QED  BY <1>1, SavesKept DEF Refuse, ShowUser

LEMMA LogoutAnsweredSaves ==
    ASSUME SavesInv, NEW lost \in BOOLEAN, LogoutAnswered(lost) PROVE SavesInv'
<1>1. ShownInv' /\ SaveRequests'
  BY LogoutAnsweredShown, SaveRequestsKept DEF SavesInv, LogoutAnswered
<1>. QED  BY <1>1, SavesKept DEF LogoutAnswered

LEMMA RefreshUserSaves == ASSUME SavesInv, RefreshUser PROVE SavesInv'
<1>1. net' = net \cup {loadCurrentUser("refresh")} /\ loadCurrentUser("refresh").what = "refresh"
  BY DEF RefreshUser, loadCurrentUser, Request
<1>2. ShownInv' /\ SaveRequests'
  BY <1>1, RefreshUserShown, SaveRequestsKept DEF SavesInv, RefreshUser
<1>. QED  BY <1>2, SavesKept DEF RefreshUser

LEMMA FetchSaves == ASSUME SavesInv, NEW q \in Queries, Fetch(q) PROVE SavesInv'
<1>1. net' = net \cup {Request("query", q, version)} /\ Request("query", q, version).what = "query"
  BY DEF Fetch, Request
<1>2. ShownInv' /\ SaveRequests'
  BY <1>1, FetchShown, SaveRequestsKept DEF SavesInv, Fetch
<1>. QED  BY <1>2, SavesKept DEF Fetch

LEMMA MeArrivesSaves == ASSUME SavesInv, NEW r \in net, MeArrives(r) PROVE SavesInv'
<1>1. ShownInv' /\ SaveRequests'
  BY MeArrivesShown, SaveRequestsKept DEF SavesInv, MeArrives
<1>. QED  BY <1>1, SavesKept DEF MeArrives, ShowUser

LEMMA QueryArrivesSaves == ASSUME SavesInv, NEW r \in net, QueryArrives(r) PROVE SavesInv'
<1>1. ShownInv' /\ SaveRequests'
  BY QueryArrivesShown, SaveRequestsKept DEF SavesInv, QueryArrives
<1>. QED  BY <1>1, SavesKept DEF QueryArrives

LEMMA RefreshAnsweredSaves == ASSUME SavesInv, RefreshAnswered PROVE SavesInv'
<1>1. ShownInv'
  BY RefreshAnsweredShown DEF SavesInv
<1>2. refresh \in Ids /\ net' = {Renewed(r) : r \in net} /\ UNCHANGED saves
  BY RenewedNet DEF RefreshAnswered
<1>3. \A r \in net : r \in Req
  BY DEF SavesInv, ShownInv, Types
<1>4. SaveRequests'
  BY <1>2, <1>3, RenewedFacts DEF SavesInv, SaveRequests
<1>. QED  BY <1>1, <1>4, SavesKept DEF RefreshAnswered

\* The requests that fail take their saves with them.
LEMMA FailsSaves ==
    ASSUME SavesInv, ShownInv', NEW rs \in SUBSET net, Fails(rs), net' = net \ rs,
           UNCHANGED <<version, server>>
    PROVE  SavesInv'
<1>. DEFINE hit(i) == \E r \in rs : r.what = "save" /\ r.about = i
<1>1. /\ DOMAIN saves' = DOMAIN saves /\ Len(saves') = Len(saves)
      /\ \A i \in DOMAIN saves : saves'[i] = IF hit(i) THEN [saves[i] EXCEPT !.at = "failed"] ELSE saves[i]
  BY FailsFacts DEF SavesInv, ShownInv, Fails
<1>2. \A i \in DOMAIN saves : saves[i] \in Save
  BY SavesFacts DEF SavesInv
<1>3. \A i \in DOMAIN saves :
         /\ saves'[i].gen = saves[i].gen /\ saves'[i].zev = saves[i].zev /\ saves'[i].stored = saves[i].stored
         /\ saves'[i].at = IF hit(i) THEN "failed" ELSE saves[i].at
  BY <1>1, <1>2 DEF Save
<1>4. \A i \in DOMAIN saves : hit(i) => saves[i].at = "sent"
  BY DEF SavesInv, SaveRequests
<1>5. \A r \in net' : r.what = "save" => ~hit(r.about)
  BY DEF SavesInv, SaveRequests
<1>. HIDE DEF hit
<1>6. SaveStates'
  BY <1>1, <1>3, <1>4 DEF SavesInv, SaveStates
<1>7. SaveRequests'
  <2>1. net' \subseteq net
    OBVIOUS
  <2>. QED  BY <1>1, <1>3, <1>5, <2>1 DEF SavesInv, SaveRequests
<1>8. LaterPickReplaces'
  BY <1>1, <1>3 DEF SavesInv, LaterPickReplaces
<1>. QED  BY <1>6, <1>7, <1>8 DEF SavesInv

LEMMA NetworkErrorSaves == ASSUME SavesInv, NEW r \in net, NetworkError(r) PROVE SavesInv'
<1>1. Fails({r}) /\ net' = net \ {r} /\ UNCHANGED <<version, server>>
  BY DEF NetworkError
<1>2. ShownInv' /\ {r} \in SUBSET net
  BY NetworkErrorShown DEF SavesInv
<1>. QED  BY <1>1, <1>2, FailsSaves

LEMMA UnauthorizedSaves == ASSUME SavesInv, NEW r \in net, Unauthorized(r) PROVE SavesInv'
<1>1. ShownInv'
  BY UnauthorizedShown DEF SavesInv
<1>2. CASE r.retried
  <2>1. Fails({r}) /\ net' = net \ {r} /\ UNCHANGED <<version, server>>
    BY <1>2 DEF Unauthorized
  <2>. QED  BY <1>1, <2>1, FailsSaves
<1>3. CASE ~r.retried
  <2>. DEFINE m == [r EXCEPT !.retried = TRUE, !.at = "waiting"]
  <2>1. net' = (net \ {r}) \cup {m} /\ UNCHANGED <<saves, server, version>>
    BY <1>3 DEF Unauthorized
  <2>2. m.what = r.what /\ m.about = r.about /\ m.in = r.in
    BY DEF SavesInv, ShownInv, Types, Req
  <2>. HIDE DEF m
  <2>3. SaveRequests'
    BY <2>1, <2>2 DEF SavesInv, SaveRequests
  <2>. QED  BY <1>1, <2>1, <2>3, SavesKept
<1>. QED  BY <1>2, <1>3

LEMMA RefreshRefusedSaves == ASSUME SavesInv, RefreshRefused PROVE SavesInv'
<1>. DEFINE waiting == {r \in net : r.at = "waiting"}
<1>1. Fails(waiting) /\ net' = net \ waiting /\ UNCHANGED <<version, server>>
  BY DEF RefreshRefused
<1>2. ShownInv' /\ waiting \in SUBSET net
  BY RefreshRefusedShown DEF SavesInv
<1>. QED  BY <1>1, <1>2, FailsSaves

LEMMA PickSaves == ASSUME SavesInv, updatePreferredZev PROVE SavesInv'
<1>. DEFINE n == Len(saves) + 1
<1>1. /\ DOMAIN saves' = 1..n /\ DOMAIN saves = 1..Len(saves) /\ Len(saves) \in Nat
      /\ \A i \in DOMAIN saves : saves'[i] = saves[i]
      /\ saves'[n] = NewSave /\ NewSave \in Save
  BY PickFacts, SavesFacts DEF SavesInv
<1>2. /\ NewSave.gen = version /\ NewSave.zev = n /\ NewSave.at = "queued" /\ NewSave.stored = "none"
      /\ version \in Nat
  BY SavesFacts DEF NewSave, SavesInv
<1>3. UNCHANGED <<version, net, server>>
  BY DEF updatePreferredZev
<1>4. SaveStates'
  <2>1. \A i \in DOMAIN saves' :
          /\ saves'[i].zev = i /\ saves'[i].gen <= version
          /\ saves'[i].at = "queued" => saves'[i].stored = "none"
    BY <1>1, <1>2 DEF SavesInv, SaveStates
  <2>2. \A i, j \in DOMAIN saves' :
          j < i /\ saves'[j].gen = saves'[i].gen /\ saves'[i].at # "queued"
            => saves'[j].at \in {"done", "failed"}
    BY <1>1, <1>2 DEF SavesInv, SaveStates
  <2>. QED  BY <1>3, <2>1, <2>2 DEF SaveStates
<1>5. SaveRequests'
  BY <1>1, <1>3 DEF SavesInv, SaveRequests
<1>6. LaterPickReplaces'
  BY <1>1, <1>2, <1>3 DEF SavesInv, LaterPickReplaces
<1>. QED  BY <1>4, <1>5, <1>6, PickShown DEF SavesInv

LEMMA DispatchSaves == ASSUME SavesInv, NEW i \in DOMAIN saves, DispatchSave(i) PROVE SavesInv'
<1>. USE SavesFacts
<1>1. ShownInv /\ ShownInv' /\ UNCHANGED <<version, server>>
  BY DispatchShown DEF SavesInv, DispatchSave
<1>2. /\ saves[i].at = "queued"
      /\ \A j \in DOMAIN saves : j < i /\ saves[j].gen = saves[i].gen => saves[j].at \in {"done", "failed"}
  BY <1>1 DEF DispatchSave, Turn
<1>3. \E s \in Save :
         /\ saves' = [saves EXCEPT ![i] = s]
         /\ s.gen = saves[i].gen /\ s.zev = saves[i].zev /\ s.stored = saves[i].stored
         /\ \/ /\ s.at = "sent" /\ saves[i].gen = version
               /\ net' = net \cup {Request("save", i, version)}
            \/ s.at = "done" /\ net' = net
  <2>1. saves[i] \in Save
    BY <1>1
  <2>2. CASE saves[i].gen = version
    <3>. DEFINE s == [saves[i] EXCEPT !.at = "sent"]
    <3>1. s \in Save /\ saves' = [saves EXCEPT ![i] = s] /\ net' = net \cup {Request("save", i, version)}
      BY <1>1, <2>2, DispatchFacts
    <3>2. s.gen = saves[i].gen /\ s.zev = saves[i].zev /\ s.stored = saves[i].stored /\ s.at = "sent"
      BY <2>1 DEF Save
    <3>. HIDE DEF s
    <3>. QED  BY <2>2, <3>1, <3>2
  <2>3. CASE saves[i].gen # version
    <3>. DEFINE s == [saves[i] EXCEPT !.at = "done"]
    <3>1. s \in Save /\ saves' = [saves EXCEPT ![i] = s] /\ net' = net
      BY <1>1, <2>3, DispatchFacts
    <3>2. s.gen = saves[i].gen /\ s.zev = saves[i].zev /\ s.stored = saves[i].stored /\ s.at = "done"
      BY <2>1 DEF Save
    <3>. HIDE DEF s
    <3>. QED  BY <3>1, <3>2
  <2>. QED  BY <2>2, <2>3
<1>4. PICK s \in Save :
         /\ saves' = [saves EXCEPT ![i] = s]
         /\ s.gen = saves[i].gen /\ s.zev = saves[i].zev /\ s.stored = saves[i].stored
         /\ \/ /\ s.at = "sent" /\ saves[i].gen = version
               /\ net' = net \cup {Request("save", i, version)}
            \/ s.at = "done" /\ net' = net
  BY <1>3
<1>5. /\ DOMAIN saves' = DOMAIN saves
      /\ \A j \in DOMAIN saves : saves'[j] = IF j = i THEN s ELSE saves[j]
  BY <1>1, <1>4, ReplaceSave
<1>6. \A j \in DOMAIN saves : j > i /\ saves[j].gen = saves[i].gen => saves[j].at = "queued"
  BY <1>1, <1>2 DEF SavesInv, SaveStates
<1>7. SaveStates'
  <2>1. \A j \in DOMAIN saves' :
          /\ saves'[j].zev = j /\ saves'[j].gen <= version
          /\ saves'[j].at = "queued" => saves'[j].stored = "none"
    BY <1>4, <1>5 DEF SavesInv, SaveStates
  <2>2. \A j, k \in DOMAIN saves' :
          k < j /\ saves'[k].gen = saves'[j].gen /\ saves'[j].at # "queued"
            => saves'[k].at \in {"done", "failed"}
    BY <1>1, <1>2, <1>4, <1>5, <1>6 DEF SavesInv, SaveStates
  <2>. QED  BY <1>1, <2>1, <2>2 DEF SaveStates
<1>8. SaveRequests'
  <2>1. \A r \in net : r.what = "save" => r.about # i
    BY <1>2 DEF SavesInv, SaveRequests
  <2>2. CASE net' = net
    BY <1>5, <2>1, <2>2 DEF SavesInv, SaveRequests
  <2>3. CASE net' = net \cup {Request("save", i, version)} /\ s.at = "sent" /\ saves[i].gen = version
    <3>. DEFINE m == Request("save", i, version)
    <3>1. m.what = "save" /\ m.about = i /\ m.in = version
      BY DEF Request
    <3>2. net' = net \cup {m}
      BY <2>3
    <3>. HIDE DEF m
    <3>. QED  BY <1>4, <1>5, <2>1, <2>3, <3>1, <3>2 DEF SavesInv, SaveRequests
  <2>. QED  BY <1>4, <2>2, <2>3
<1>9. LaterPickReplaces'
  BY <1>1, <1>4, <1>5 DEF SavesInv, LaterPickReplaces
<1>. QED  BY <1>1, <1>7, <1>8, <1>9 DEF SavesInv

LEMMA SaveStoredSaves == ASSUME SavesInv, NEW r \in net, SaveStored(r) PROVE SavesInv'
<1>. DEFINE k == r.about
            A == AccountOf(r.as)
            s == [saves[k] EXCEPT !.stored = A]
            m == [r EXCEPT !.at = "stored"]
<1>1. ShownInv /\ ShownInv' /\ r.what = "save" /\ UNCHANGED version
  BY SaveStoredShown DEF SavesInv, SaveStored
<1>2. /\ r \in Req /\ k \in DOMAIN saves /\ saves \in Seq(Save) /\ saves[k] \in Save
      /\ DOMAIN saves = 1..Len(saves) /\ Len(saves) \in Nat
  BY <1>1, SaveRequestFacts
<1>3. /\ A \in Accounts /\ s \in Save /\ saves' = [saves EXCEPT ![k] = s]
      /\ server' = [server EXCEPT ![A] = saves[k].zev] /\ net' = (net \ {r}) \cup {m}
  BY StoredFacts
<1>4. s.gen = saves[k].gen /\ s.zev = saves[k].zev /\ s.stored = A /\ s.at = saves[k].at
  BY <1>2 DEF Save
<1>5. m.what = "save" /\ m.about = k /\ m.in = r.in
  BY <1>1, <1>2 DEF Req
<1>6. saves[k].at = "sent" /\ r.in = saves[k].gen
  BY <1>1 DEF SavesInv, SaveRequests
<1>7. \A j \in DOMAIN saves : j > k /\ saves[j].gen = saves[k].gen
                                => saves[j].at = "queued" /\ saves[j].stored = "none"
  BY <1>2, <1>6 DEF SavesInv, SaveStates
<1>8. A # "none" /\ server \in [Accounts -> Zevs \cup {NoZev}]
  BY <1>3 DEF Accounts, SavesInv, ShownInv, Types, TypeOK
<1>. HIDE DEF k, A, s, m
<1>9. /\ DOMAIN saves' = DOMAIN saves
      /\ \A j \in DOMAIN saves : saves'[j] = IF j = k THEN s ELSE saves[j]
  BY <1>2, <1>3, ReplaceSave
<1>10. SaveStates'
  <2>1. \A j \in DOMAIN saves' :
          /\ saves'[j].zev = j /\ saves'[j].gen <= version
          /\ saves'[j].at = "queued" => saves'[j].stored = "none"
    BY <1>4, <1>6, <1>9 DEF SavesInv, SaveStates
  <2>2. \A i, j \in DOMAIN saves' :
          j < i /\ saves'[j].gen = saves'[i].gen /\ saves'[i].at # "queued"
            => saves'[j].at \in {"done", "failed"}
    BY <1>4, <1>9 DEF SavesInv, SaveStates
  <2>. QED  BY <1>1, <2>1, <2>2 DEF SaveStates
<1>11. SaveRequests'
  <2>1. \A q \in net : q # r /\ q.what = "save" => q.about # k
    BY <1>1 DEF SavesInv, SaveRequests, k
  <2>. QED  BY <1>2, <1>3, <1>4, <1>5, <1>6, <1>9, <2>1 DEF SavesInv, SaveRequests
<1>12. LaterPickReplaces'
  <2>1. SUFFICES ASSUME NEW i \in DOMAIN saves, NEW j \in DOMAIN saves, i < j,
                        saves'[i].gen = saves'[j].gen, saves'[j].stored # "none",
                        saves'[i].stored = saves'[j].stored
                 PROVE  server'[saves'[j].stored] # saves'[i].zev
    BY <1>9 DEF LaterPickReplaces
  <2>2. i # k
    BY <1>4, <1>7, <1>9, <1>2, <2>1
  <2>3. saves'[i] = saves[i] /\ saves[i].zev = i /\ saves[k].zev = k
    BY <1>2, <1>9, <2>2 DEF SavesInv, SaveStates
  <2>4. CASE saves'[j].stored = A
    BY <1>3, <1>8, <2>2, <2>3, <2>4
  <2>5. CASE saves'[j].stored # A
    <3>1. j # k /\ saves'[j] = saves[j]
      BY <1>4, <1>9, <2>5
    <3>2. server[saves[j].stored] # saves[i].zev
      BY <2>1, <2>3, <3>1 DEF SavesInv, LaterPickReplaces
    <3>. QED  BY <1>3, <1>8, <2>3, <2>5, <3>1, <3>2
  <2>. QED  BY <2>4, <2>5
<1>. QED  BY <1>1, <1>10, <1>11, <1>12 DEF SavesInv

LEMMA SaveArrivesSaves == ASSUME SavesInv, NEW r \in net, SaveArrives(r) PROVE SavesInv'
<1>. DEFINE k == r.about
            s == [saves[k] EXCEPT !.at = "done"]
<1>1. ShownInv /\ ShownInv' /\ UNCHANGED <<version, server>>
  BY SaveArrivesShown DEF SavesInv, SaveArrives
<1>2. r.what = "save" /\ net' = net \ {r} /\ s \in Save /\ saves' = [saves EXCEPT ![k] = s]
  BY SaveArrivesFacts
<1>3. /\ k \in DOMAIN saves /\ saves \in Seq(Save) /\ saves[k] \in Save
      /\ DOMAIN saves = 1..Len(saves) /\ Len(saves) \in Nat
  BY <1>2, SaveRequestFacts
<1>4. s.gen = saves[k].gen /\ s.zev = saves[k].zev /\ s.stored = saves[k].stored /\ s.at = "done"
  BY <1>3 DEF Save
<1>5. saves[k].at = "sent"
  BY <1>2 DEF SavesInv, SaveRequests
<1>6. \A q \in net' : q \in net /\ (q.what = "save" => q.about # k)
  BY <1>2 DEF SavesInv, SaveRequests
<1>. HIDE DEF k, s
<1>7. /\ DOMAIN saves' = DOMAIN saves
      /\ \A j \in DOMAIN saves : saves'[j] = IF j = k THEN s ELSE saves[j]
  BY <1>2, <1>3, ReplaceSave
<1>8. SaveStates'
  <2>1. \A j \in DOMAIN saves' :
          /\ saves'[j].zev = j /\ saves'[j].gen <= version
          /\ saves'[j].at = "queued" => saves'[j].stored = "none"
    BY <1>4, <1>7 DEF SavesInv, SaveStates
  <2>2. \A i, j \in DOMAIN saves' :
          j < i /\ saves'[j].gen = saves'[i].gen /\ saves'[i].at # "queued"
            => saves'[j].at \in {"done", "failed"}
    BY <1>4, <1>5, <1>7 DEF SavesInv, SaveStates
  <2>. QED  BY <1>1, <2>1, <2>2 DEF SaveStates
<1>9. SaveRequests'
  BY <1>6, <1>7 DEF SavesInv, SaveRequests
<1>10. LaterPickReplaces'
  BY <1>1, <1>4, <1>7 DEF SavesInv, LaterPickReplaces
<1>. QED  BY <1>1, <1>8, <1>9, <1>10 DEF SavesInv


LEMMA SavesStep == SavesInv /\ [Next]_vars => SavesInv'
<1>. SUFFICES ASSUME SavesInv, [Next]_vars PROVE SavesInv'
  OBVIOUS
<1>1. ASSUME NEW d \in Doors, Begin(d) PROVE SavesInv'
  BY <1>1, BeginSaves
<1>2. ASSUME NEW d \in Doors, NEW i \in Accounts \cup {"as"}, Admit(d, i) PROVE SavesInv'
  BY <1>2, AdmitSaves
<1>3. ASSUME NEW d \in Doors, Challenge(d) PROVE SavesInv'
  BY <1>3, ChallengeSaves
<1>4. ASSUME NEW d \in Doors, NEW expired \in BOOLEAN, Refuse(d, expired) PROVE SavesInv'
  BY <1>4, RefuseSaves
<1>5. CASE Logout
  BY <1>5, LogoutSaves
<1>6. ASSUME NEW lost \in BOOLEAN, LogoutAnswered(lost) PROVE SavesInv'
  BY <1>6, LogoutAnsweredSaves
<1>7. CASE RefreshUser
  BY <1>7, RefreshUserSaves
<1>8. ASSUME NEW q \in Queries, Fetch(q) PROVE SavesInv'
  BY <1>8, FetchSaves
<1>9. CASE updatePreferredZev
  BY <1>9, PickSaves
<1>10. ASSUME NEW i \in DOMAIN saves, DispatchSave(i) PROVE SavesInv'
  BY <1>10, DispatchSaves
<1>11. ASSUME NEW r \in net, MeArrives(r) PROVE SavesInv'
  BY <1>11, MeArrivesSaves
<1>12. ASSUME NEW r \in net, SaveStored(r) PROVE SavesInv'
  BY <1>12, SaveStoredSaves
<1>13. ASSUME NEW r \in net, SaveArrives(r) PROVE SavesInv'
  BY <1>13, SaveArrivesSaves
<1>14. ASSUME NEW r \in net, QueryArrives(r) PROVE SavesInv'
  BY <1>14, QueryArrivesSaves
<1>15. ASSUME NEW r \in net, Unauthorized(r) PROVE SavesInv'
  BY <1>15, UnauthorizedSaves
<1>16. CASE RefreshAnswered
  BY <1>16, RefreshAnsweredSaves
<1>17. CASE RefreshRefused
  BY <1>17, RefreshRefusedSaves
<1>18. ASSUME NEW r \in net, NetworkError(r) PROVE SavesInv'
  BY <1>18, NetworkErrorSaves
<1>19. CASE UNCHANGED vars
  BY <1>19 DEF vars, SavesInv, ShownInv, Types, TypeOK, RequestsOfVersion, PickIsOwn,
       NoLeftoverData, LateIdentityIsDropped, SaveStates, SaveRequests, LaterPickReplaces
<1>20. CASE DoorAnswer
  BY <1>2, <1>3, <1>4, <1>20 DEF DoorAnswer
<1>21. CASE Answer
  BY <1>6, <1>11, <1>12, <1>13, <1>14, <1>15, <1>16, <1>17, <1>18, <1>21 DEF Answer
<1>. QED  BY <1>1, <1>5, <1>7, <1>8, <1>9, <1>10, <1>19, <1>20, <1>21 DEF Next

LEMMA SavesInvariant == Spec => []SavesInv
  BY InitSaves, SavesStep, PTL DEF Spec

\* A session boundary holds, in whatever order answers come: the identity on
\* screen was asked for since the last boundary or was there when it was
\* crossed, the query cache holds nothing asked for before it, and the explicit
\* community pick is the one of the account on screen (sessionVersion and
\* resetQueryCache of lib/auth.tsx, the pick of lib/managedZev.tsx).
THEOREM BoundariesAlwaysHold == Spec => []BoundariesHold
<1>1. SavesInv => BoundariesHold
  BY DEF SavesInv, ShownInv, Types, BoundariesHold
<1>. QED  BY <1>1, SavesInvariant, PTL

\* The picks of a session keep their order at the server, whatever is refused,
\* retried, lost or answered late, and none is first sent after its session
\* (the chain and the dispatch guard of updatePreferredZev in lib/auth.tsx).
THEOREM PicksAreAlwaysKept == Spec => []PicksAreKept
<1>1. SavesInv => PicksAreKept
  BY DEF SavesInv, SaveRequests, PicksAreKept, QueuedPicksAreSkipped
<1>. QED  BY <1>1, SavesInvariant, PTL
=============================================================================
