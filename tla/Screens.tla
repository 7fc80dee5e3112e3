------------------------------- MODULE Screens ------------------------------
(***************************************************************************)
(* What a screen shows after its own controls were used. A behaviour is     *)
(* about one control and one query of the same page (pair), taken from the  *)
(* pages of Pages, where the control's call changes what the query reads.   *)
(* The query cache is the library's: a read is asked, served and arrives;   *)
(* an invalidation reads an entry again if it is shown and marks it if not; *)
(* a first read that is under way is not repeated, and a read under way out *)
(* of view is neither repeated nor dropped: it is joined when its entry is  *)
(* shown, and takes the mark away when it arrives. Meanwhile the user       *)
(* switches community, leaves the page and comes back, and the answer to a  *)
(* submission is late or lost.                                              *)
(***************************************************************************)
EXTENDS Pages, BillingCalendar, TariffTimeline, PointsView, TariffDraft, BackupForms

CONSTANTS Communities,  \* that can be selected
          MaxWrites     \* submissions that are stored in one behaviour, to any two entries

ASSUME MaxWritesAssumption == MaxWrites \in Nat \ {0}

-----------------------------------------------------------------------------
(* The pairs: every control with every query it affects on some page. Work   *)
(* that is queued changes the records after the answer, and is left out.     *)

users == {w \in Contexts : w.role # "guest"}
open == {x \in (shellRoutes \ DOMAIN AliasNavigate) \X users :
            /\ x[2].role \in allowedRoles(x[1])
            /\ x[2].role = "none" => x[1] \in {Home, Account}}
pairsOf(page) ==
    {pr \in [offer : page.offers, query : page.shows] :
        Affects(pr.offer, pr.query) /\ ~pr.offer.call.queued}
Pairs == UNION {pairsOf(shellPage(x[2], x[1])) : x \in open}

(* The changes a screen does not show until it is loaded again: what was     *)
(* written and the key that goes on showing what was there before.           *)
Unrefreshed ==
    {<<{"points"}, MeteringKeys.supplementaryEligible>>, \* a meter: connectable sources
     <<{"backups"}, BackupKeys.status>>,                 \* a deleted archive: the totals
     <<{"flags"}, LiveKeys.enabled>>,                    \* a switched feature: the side bar
     <<{"flags"}, FeasibilityKeys.enabled>>,
     <<{"assignments"}, MeteringKeys.qualityStatus>>,    \* a new holder: the missing data
     <<{"users", "zevs"}, AuthKeys.users>>,              \* a community: its owner's account
     <<{"buildings", "planes"}, ZevKeys.pvPlanes>>,      \* a deleted building: its planes
     \* imported tariffs: the address they came from
     <<{"tariffs", "zevs", "feeds"}, ZevKeys.list>>}

-----------------------------------------------------------------------------
VARIABLES
    pair,     \* the control and the query the behaviour is about
    zev,      \* the selected community
    mounted,  \* the page is open
    stored,   \* writes stored, per entry
    cache,    \* the query's entries, one per community if the key has its id
    sub,      \* the submission under way
    lost      \* the answer to a stored write was lost

vars == <<pair, zev, mounted, stored, cache, sub, lost>>

o == pair.offer
q == pair.query
scoped == ZEV \in Range(q.key)
slot(z) == IF scoped THEN z ELSE "all"
Slots == Communities \cup {"all"}

nothing == -1   \* no data
Idle == [phase |-> "idle", zev |-> "all"]
Empty == [data |-> nothing, stale |-> FALSE, flight |-> "no", brings |-> nothing,
          late |-> FALSE]  \* history: older than a write that was answered before it arrived
here == cache[slot(zev)]

\* a read is asked for; one that is under way is joined
ask(e) == IF e.flight = "no" THEN [e EXCEPT !.flight = "asked"] ELSE e
\* an entry comes into view
show(e) == IF e.data = nothing \/ e.stale \/ ~q.keep THEN ask(e) ELSE e
\* a prefix of the entry's key is invalidated
invalidate(e, shown) ==
    IF ~shown THEN [e EXCEPT !.stale = TRUE]
    ELSE IF e.data = nothing THEN [ask(e) EXCEPT !.stale = TRUE]
    ELSE [e EXCEPT !.stale = TRUE, !.flight = "asked", !.brings = nothing]
setQueryData(e, n) ==
    LET f == IF o.clean THEN [e EXCEPT !.flight = "no", !.brings = nothing, !.late = FALSE] ELSE e
    IN [f EXCEPT !.data = n, !.stale = FALSE]

\* the entry of z is under one of these prefixes when they name community at
reached(prefixes, at, z) ==
    \E prefix \in prefixes : IsPrefix(prefix, q.key) /\ (ZEV \in Range(prefix) => z = at)
afterRefresh(prefixes, at, entries) ==
    [z \in Slots |->
        IF z \in {slot(k) : k \in Communities} /\ reached(prefixes, at, IF scoped THEN z ELSE at)
        THEN invalidate(entries[z], mounted /\ z = slot(zev)) ELSE entries[z]]

-----------------------------------------------------------------------------
Init ==
    /\ pair \in Pairs /\ zev \in Communities /\ mounted = TRUE
    /\ stored = [z \in Slots |-> 0]
    /\ cache = [z \in Slots |-> IF z = slot(zev) THEN ask(Empty) ELSE Empty]
    /\ sub = Idle /\ lost = FALSE

\* a control stands beside the data it is about
Click ==
    /\ mounted /\ sub = Idle /\ here.data # nothing /\ stored[slot(zev)] < MaxWrites
    /\ \A z \in Slots \ {slot(zev)} : stored[z] + stored[slot(zev)] < MaxWrites
    /\ sub' = [phase |-> IF o.confirm THEN "asking" ELSE "sent", zev |-> zev]
    /\ UNCHANGED <<pair, zev, mounted, stored, cache, lost>>

Confirm(yes) ==
    /\ sub.phase = "asking" /\ mounted
    /\ sub' = IF yes THEN [sub EXCEPT !.phase = "sent"] ELSE Idle
    /\ UNCHANGED <<pair, zev, mounted, stored, cache, lost>>

Store ==
    /\ sub.phase = "sent"
    /\ stored' = [stored EXCEPT ![slot(sub.zev)] = @ + 1]
    /\ sub' = [sub EXCEPT !.phase = "stored"]
    /\ UNCHANGED <<pair, zev, mounted, cache, lost>>

\* the write is answered while a read that was served before it, or may have
\* been, is still under way out of view
outlived(entries) ==
    [z \in Slots |->
        IF z = slot(sub.zev) /\ sub.phase = "stored" /\ entries[z].flight = "served"
             /\ ~(mounted /\ z = slot(zev))
        THEN [entries[z] EXCEPT !.late = TRUE] ELSE entries[z]]

\* a guarded answer acts on the community it was submitted for, another on
\* the one the last render of the page was about
target == IF o.guarded THEN sub.zev ELSE zev
prefixes == IF o.guarded /\ sub.zev # zev THEN o.always ELSE o.refreshes

Answer ==
    /\ sub.phase = "stored"
    /\ LET filled == IF q.key \in o.sets
                     THEN [cache EXCEPT ![slot(target)] =
                              setQueryData(@, stored[slot(sub.zev)])]
                     ELSE cache
       IN cache' = outlived(afterRefresh(prefixes, target, filled))
    /\ sub' = Idle
    /\ UNCHANGED <<pair, zev, mounted, stored, lost>>

\* refused, or the connection broke before or after the write was stored
Fail ==
    /\ sub.phase \in {"sent", "stored"}
    /\ cache' = IF o.settled THEN outlived(afterRefresh(prefixes, target, cache)) ELSE cache
    /\ lost' = (lost \/ (sub.phase = "stored" /\ ~o.settled))
    /\ sub' = Idle
    /\ UNCHANGED <<pair, zev, mounted, stored>>

Serve(z) ==
    /\ cache[z].flight = "asked"
    /\ cache' = [cache EXCEPT ![z].flight = "served", ![z].brings = stored[z], ![z].late = FALSE]
    /\ UNCHANGED <<pair, zev, mounted, stored, sub, lost>>

Arrive(z) ==
    /\ cache[z].flight = "served"
    /\ cache' = [cache EXCEPT ![z] =
                    [Empty EXCEPT !.data = cache[z].brings, !.late = cache[z].late]]
    /\ UNCHANGED <<pair, zev, mounted, stored, sub, lost>>

\* mutant: a timer that invalidates, and so drops the read under way
pollByInvalidating ==
    /\ q.polls /\ mounted
    /\ cache' = [cache EXCEPT ![slot(zev)] = invalidate(@, TRUE)]
    /\ UNCHANGED <<pair, zev, mounted, stored, sub, lost>>

\* a timer asks again; a read that is under way is joined
Poll ==
    /\ q.polls /\ mounted /\ here.flight = "no"
    /\ cache' = [cache EXCEPT ![slot(zev)] = ask(@)]
    /\ UNCHANGED <<pair, zev, mounted, stored, sub, lost>>

setSelectedZevId(z) ==
    /\ mounted /\ z # zev /\ sub.phase # "asking"
    /\ zev' = z
    /\ cache' = [cache EXCEPT ![slot(z)] = show(@)]
    /\ UNCHANGED <<pair, mounted, stored, sub, lost>>

Leave ==
    /\ mounted /\ mounted' = FALSE
    /\ sub' = IF sub.phase = "asking" THEN Idle ELSE sub
    /\ UNCHANGED <<pair, zev, stored, cache, lost>>

Return ==
    /\ ~mounted /\ mounted' = TRUE
    /\ cache' = [cache EXCEPT ![slot(zev)] = show(@)]
    /\ UNCHANGED <<pair, zev, stored, sub, lost>>

Next ==
    \/ Click \/ \E yes \in BOOLEAN : Confirm(yes)
    \/ Store \/ Answer \/ Fail \/ Poll \/ Leave \/ Return
    \/ \E z \in Slots : Serve(z) \/ Arrive(z)
    \/ \E z \in Communities : setSelectedZevId(z)

\* the API answers what it was asked
Spec ==
    /\ Init /\ [][Next]_vars
    /\ \A z \in Slots : WF_vars(Serve(z) \/ Arrive(z))

-----------------------------------------------------------------------------
(* Properties *)

\* The variables hold what the client and the API can hold.
TypeOK ==
    /\ pair \in Pairs /\ zev \in Communities /\ mounted \in BOOLEAN /\ lost \in BOOLEAN
    /\ stored \in [Slots -> 0..MaxWrites]
    /\ cache \in [Slots -> [data : nothing..MaxWrites, stale : BOOLEAN,
                            flight : {"no", "asked", "served"}, brings : nothing..MaxWrites,
                            late : BOOLEAN]]
    /\ sub \in [phase : {"idle", "asking", "sent", "stored"}, zev : Slots]

(* Answers that are put in the place of the data without cancelling a read   *)
(* that is under way, which may then bring the former data back: the         *)
(* application settings, the backup schedule and the invoice of its page.    *)
overwrites(pr) ==
    pr.query.key \in pr.offer.sets /\ ~pr.offer.clean /\ ~Reloads(pr.offer, pr.query)

isExcepted(pr) == overwrites(pr) \/ <<pr.offer.call.writes, pr.query.key>> \in Unrefreshed
excepted == isExcepted(pair)

(* A control names what it changes: its success invalidates the key of the   *)
(* query or puts the answer in its place, a failure that may have stored     *)
(* something invalidates it, and when another community was selected         *)
(* meanwhile, the one left behind is invalidated, or read again when it is   *)
(* next shown, and the one selected does not keep the other's answer.        *)
ChangeIsNamed(pr) ==
    LET offer == pr.offer
        query == pr.query
        key == query.key
        named(list) == \E prefix \in list : IsPrefix(prefix, key)
        namedEverywhere(list) == \E prefix \in list : IsPrefix(prefix, key) /\ ZEV \notin Range(prefix)
        replaced == key \in offer.sets /\ offer.clean
        ofZev == ZEV \in Range(key)
    IN isExcepted(pr) \/
       /\ named(offer.refreshes) \/ (replaced /\ ~offer.settled)
       /\ offer.guarded /\ ~ofZev => named(offer.always) \/ (replaced /\ ~offer.settled)
       /\ offer.guarded /\ ofZev /\ query.keep =>
             named(offer.always) \/ (key \in offer.sets /\ ~offer.settled)
       /\ ~offer.guarded /\ ofZev =>
             /\ key \in offer.sets => named(offer.refreshes)
             /\ query.keep => namedEverywhere(offer.refreshes)

\* ... every control of every page, for each query it affects there.
ChangesAreNamed == \A pr \in Pairs : ChangeIsNamed(pr)

(* Once nothing is under way, the page shows every change its own controls  *)
(* made, whatever community was selected meanwhile: each onSuccess of the   *)
(* screens names the keys of all it changes, and no read that began before  *)
(* undoes an invalidation in view. The exceptions: Unrefreshed, overwrites, *)
(* and data that is late: its read was served and still under way out of    *)
(* view when the write was answered, and nothing reads it again.            *)
Freshness ==
    (mounted /\ sub = Idle /\ here.flight = "no" /\ ~lost /\ ~excepted /\ ~here.late)
        => here.data = stored[slot(zev)]

(* A control is offered in no status of its subject in which the API        *)
(* refuses its call (getPrimaryRowAction, getRowMenuItems, the cards of the *)
(* invoice page against the guards of the workflow).                        *)
OfferedWhereAccepted == o.call.from # {} /\ o.on # {} => o.on \subseteq o.call.from

(* A user who stops clicking and stays on the page ends up with what was    *)
(* stored on the screen, for good, or with data that is late: no timer or   *)
(* invalidation starves the reads it asks for.                              *)
WrittenIsShown ==
    <>[](mounted /\ sub = Idle /\ ~lost /\ ~excepted)
        => <>[](here.data = stored[slot(zev)] \/ here.late)

(* What the client computes beside the server agrees with it: the periods   *)
(* that can be billed, the hours a tariff prices, the price in force, and    *)
(* the points that need attention.                                          *)
ViewsAreDerivedRight ==
    /\ TypeOK
    /\ PeriodsTile /\ FirstPeriodIsBillable /\ CarriedPeriodSettles
    /\ GapsAreUnpriced /\ SeasonsReadBack
    /\ ChartShowsThePrice /\ RowIsInForce
    /\ TabsCountTheirRows /\ AlarmsAreEarned

(* What a control offers and a form lets through is what the server accepts  *)
(* of the same state, but for the refusals SchemaForeseesTheServer names; a  *)
(* refusal is told at the row it is about, and a control names what the      *)
(* server changes at its call.                                               *)
FormsForeseeTheServer ==
    /\ OfferedWhereAccepted /\ ChangesAreNamed
    /\ WarnedWhenRefused
    /\ SchemaForeseesTheServer /\ HiddenIsNotSent /\ VerdictFollowsItsBand
    /\ DestinationFormKeepsSecret /\ ScheduleSettles
=============================================================================
