------------------------------- MODULE WebKit -------------------------------
(***************************************************************************)
(* The vocabulary the screens of the web client are described in, and the  *)
(* two access rules they meet: what the client derives for the signed-in   *)
(* account (lib/membership.ts, lib/communityAccess.ts), and what the API    *)
(* accepts (accounts/permissions.py, zev/permissions.py, and what           *)
(* accounts/authentication.py asks of a session before them).               *)
(*                                                                         *)
(* A context c says who looks at a screen: c.role is the account's relation *)
(* to the selected community, "none" without one and "guest" without a      *)
(* session; c.disabled that the community is disabled; c.acting that an     *)
(* administrator acts in the account; c.on that the optional features are   *)
(* switched on.                                                             *)
(***************************************************************************)
EXTENDS Sequences, SequencesExt, FiniteSets

Relations == {"admin", "manager", "viewer", "participant", "former"}

Contexts ==
    { c \in [role : Relations \cup {"none", "guest"}, disabled : BOOLEAN,
             acting : BOOLEAN, on : BOOLEAN] :
        /\ c.acting => c.role \notin {"admin", "guest"}
        /\ c.disabled => c.role \in Relations }

-----------------------------------------------------------------------------
(* What the client derives. *)

accessFor(c) ==
    [isZevScope         |-> c.role \in {"admin", "manager", "viewer"},
     canManage          |-> c.role \in {"admin", "manager"},
     isParticipantScope |-> c.role \in {"participant", "former"},
     isAdmin            |-> c.role = "admin"]

\* mutant: a disabled community is not read-only
canWriteWhereManaged(c) == accessFor(c).canManage

canWriteInSelectedCommunity(c) ==
    /\ accessFor(c).canManage
    /\ accessFor(c).isAdmin \/ ~c.disabled

-----------------------------------------------------------------------------
(* What the API accepts: the permission classes, by the name of a level.    *)

Permits(c, level) ==
    CASE level = "public"  -> TRUE
      [] level = "account" -> c.role # "guest"
      [] level = "self"    -> c.role # "guest" /\ ~c.acting
      [] level = "member"  -> c.role \in Relations \ {"former"}
      [] level = "view"    -> c.role \in {"admin", "manager", "viewer"}
      [] level = "manage"  -> c.role \in {"admin", "manager"}
      [] level = "write"   -> \/ c.role = "admin"
                              \/ c.role = "manager" /\ ~c.disabled
      [] level = "admin"   -> c.role = "admin"
      [] level = "nobody"  -> FALSE

\* The authentication class refuses an account whose second factor is overdue
\* every write but those that protect the account itself.
enforce_mfa_enrolment(c, overdue, call) ==
    overdue /\ ~c.acting => ~call.unsafe \/ call.exempt

accepts(c, overdue, call) ==
    Permits(c, call.level) /\ enforce_mfa_enrolment(c, overdue, call)

-----------------------------------------------------------------------------
(* Calls of lib/api: what a read is made of, what a write changes, and the  *)
(* statuses of its subject it is accepted in ({} when it asks none).        *)
(* unsafe: by a method that may change something; exempt: one of            *)
(* MFA_ENROLMENT_EXEMPT_URL_NAMES.                                          *)

Call(level, reads, writes) ==
    [level |-> level, reads |-> reads, writes |-> writes, from |-> {}, queued |-> FALSE,
     unsafe |-> FALSE, exempt |-> FALSE]
Get(level, reads)   == Call(level, reads, {})
Send(level, writes) == [Call(level, {}, writes) EXCEPT !.unsafe = TRUE]
Post(level, reads)  == [Call(level, reads, {}) EXCEPT !.unsafe = TRUE]
Exempt(call)        == [call EXCEPT !.exempt = TRUE]
SendFrom(level, writes, from) == [Send(level, writes) EXCEPT !.from = from]
\* the answer says that the work is queued; a worker changes the records later
Queue(level, writes) == [Send(level, writes) EXCEPT !.queued = TRUE]

\* the part of a key that is the selected community's id
ZEV == "$zev"

(* A query of a mounted component. keep: the result counts as fresh until   *)
(* it is invalidated (a staleTime); polls: it is asked again by itself.     *)
Query(key, call)  == [key |-> key, call |-> call, keep |-> FALSE, polls |-> FALSE]
Keeps(query)      == [query EXCEPT !.keep = TRUE]
Polls(query)      == [query EXCEPT !.polls = TRUE]

(* A control that submits a call. refreshes: the key prefixes its success   *)
(* invalidates; sets: the keys whose data it replaces by the answer, clean: *)
(* after cancelling what is being read under them; on: the statuses of the  *)
(* subject it is offered in; once: disabled while a submission is pending;  *)
(* confirm: a dialog asks first; guarded: the submission carries the scope  *)
(* it was made in, and an answer that finds another scope selected          *)
(* refreshes only the keys of "always"; settled: a failure refreshes too.   *)
Offer(call, refreshes) ==
    [call |-> call, refreshes |-> refreshes, always |-> {}, sets |-> {}, on |-> {},
     once |-> TRUE, confirm |-> FALSE, guarded |-> FALSE, settled |-> FALSE,
     clean |-> FALSE]
On(offer, statuses) == [offer EXCEPT !.on = statuses]
Confirmed(offer)    == [offer EXCEPT !.confirm = TRUE]
Guarded(offer, always) == [offer EXCEPT !.guarded = TRUE, !.always = always]
Repeatable(offer)   == [offer EXCEPT !.once = FALSE]
Sets(offer, keys)   == [offer EXCEPT !.sets = keys]
Replaces(offer, keys) == [offer EXCEPT !.sets = keys, !.clean = TRUE]
Settled(offer)      == [offer EXCEPT !.settled = TRUE]

(* A component: what it reads while mounted and what it lets the user do.   *)
Part(shows, offers) == [shows |-> shows, offers |-> offers]
Nothing             == Part({}, {})
Reads(shows)        == Part(shows, {})
Does(offers)        == Part({}, offers)
When(condition, part) == IF condition THEN part ELSE Nothing
Join(parts) ==
    Part(UNION {p.shows : p \in parts}, UNION {p.offers : p \in parts})

Reloads(offer, query) == \E prefix \in offer.refreshes : IsPrefix(prefix, query.key)
Affects(offer, query) == offer.call.writes \cap query.call.reads # {}
=============================================================================
