--------------------------- MODULE ExportPromise ---------------------------
(***************************************************************************)
(* What the export API promises the person who asked for an export: a job  *)
(* is pending, then either fails for good or is ready, and what is ready   *)
(* can be downloaded until Retention has passed since it became ready.     *)
(* ExportJobs implements it with rows, a broker, workers, files and a      *)
(* sweep, none of which appears here.                                      *)
(***************************************************************************)
EXTENDS Naturals

CONSTANTS Jobs,         \* the exports that may be asked for
          Retention     \* how long a ready export stays

VARIABLES clock,        \* the time
          offers        \* [Jobs -> what the requester is offered]

offerVars == <<clock, offers>>

\* until: the time up to which a ready export may be downloaded.
Offer(state, until) == [state |-> state, until |-> until]

Init ==
    /\ clock = 0
    /\ offers = [j \in Jobs |-> Offer("unknown", 0)]

-----------------------------------------------------------------------------

\* The job moves from one state to the next; only fulfilling sets a deadline.
Move(j, from, to, until) ==
    /\ offers[j].state = from
    /\ offers' = [offers EXCEPT ![j] = Offer(to, until)]
    /\ UNCHANGED clock

Accept(j) == Move(j, "unknown", "pending", 0)

Refuse(j) == Move(j, "pending", "failed", 0)

Fulfil(j) == Move(j, "pending", "ready", clock + Retention)

\* A ready export is withdrawn only once its time is over.
Withdraw(j) ==
    /\ offers[j].until <= clock
    /\ Move(j, "ready", "gone", offers[j].until)

Elapse ==
    /\ clock' = clock + 1
    /\ UNCHANGED offers

-----------------------------------------------------------------------------

Next ==
    \/ Elapse
    \/ \E j \in Jobs : Accept(j) \/ Refuse(j) \/ Fulfil(j) \/ Withdraw(j)

Spec == Init /\ [][Next]_offerVars

=============================================================================
