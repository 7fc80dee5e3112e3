----------------------------- MODULE ExportJobs -----------------------------
(***************************************************************************)
(* The life of an export job (exports/tasks.py, exports/views.py): the     *)
(* request that creates the row and enqueues the task, the worker that     *)
(* claims, renders, stores and publishes, and the sweep that deletes       *)
(* expired files and fails jobs nobody will finish.  Every step is one     *)
(* database statement, one storage call or one broker call; anything may   *)
(* happen in between, including the death of the process.                  *)
(*                                                                         *)
(* Time is a clock all processes read.  What a render produces, the audit  *)
(* trail and the messages shown to users are left out.                     *)
(***************************************************************************)
EXTENDS Naturals, FiniteSets

CONSTANTS Jobs,           \* primary keys an export row may get
          Clients,        \* requests that may be in flight (views.py)
          Workers,        \* Celery worker processes
          NoJob,          \* a worker that runs no export
          HardLimit,      \* _RUNNER_HARD_LIMIT_S
          RunningGrace,   \* _SWEEP_RUNNING_GRACE_S
          QueuedCutoff,   \* _SWEEP_QUEUED_CUTOFF_S
          Retention,      \* EXPORT_RETENTION_HOURS
          Limited,        \* the workers whose pool kills an overdue task
          MaxFaults,      \* bound: crashes, lost messages, storage failures
          LastRequest,    \* bound: no row is created after this time
          LastClaim,      \* bound: no task is delivered after this time
          Horizon         \* bound: the clock stops here

ASSUME TimesAssumption ==
    /\ {HardLimit, QueuedCutoff, MaxFaults, LastRequest, LastClaim, Horizon} \subseteq Nat
    /\ {RunningGrace, Retention} \subseteq Nat \ {0}
    /\ Limited \subseteq Workers

ASSUME NoJobAssumption == NoJob \notin Jobs

VARIABLES now,      \* the clock
          jobs,     \* ExportJob rows; status "none" where there is no row
          broker,   \* task messages waiting, each the key of its job
          files,    \* files in the media storage, named after their job
          clients,  \* where each request stands
          workers,  \* where each worker stands
          faults    \* faults so far

vars == <<now, jobs, broker, files, clients, workers, faults>>

-----------------------------------------------------------------------------
(* State *)

\* ExportJobStatus, and "none" before the row exists.
Statuses == {"none", "queued", "running", "completed", "failed"}

Active == {"queued", "running"}

\* The columns that decide anything (models.py).  result_file is the name the
\* row stores: the file name embeds the key, so it is the job or NoJob.
ExportJob == [status : Statuses, created_at : Nat, started_at : Nat,
              file_expires_at : Nat, result_file : Jobs \cup {NoJob}]

NoRow == [status |-> "none", created_at |-> 0, started_at |-> 0,
          file_expires_at |-> 0, result_file |-> NoJob]

\* What a query of the sweep may return.
Rows == SUBSET (Jobs \X Statuses)

\* A worker's place.  The last three belong to the sweep: the time it started,
\* the <<job, status>> pairs its last query returned and not yet handled, and
\* the file it has just deleted.
Worker == [pc   : {"idle", "sweep", "expired", "erased", "stale", "rendering", "stored"},
           job  : Jobs \cup {NoJob},
           at   : Nat,
           todo : Rows,
           file : Jobs \cup {NoJob}]

Place(pc, job, at, todo, file) ==
    [pc |-> pc, job |-> job, at |-> at, todo |-> todo, file |-> file]

Idle == Place("idle", NoJob, 0, {}, NoJob)

Client == [pc : {"idle", "checked", "created"}, job : Jobs \cup {NoJob}]

NoRequest == [pc |-> "idle", job |-> NoJob]

Init ==
    /\ now = 0
    /\ jobs = [j \in Jobs |-> NoRow]
    /\ broker = {}
    /\ files = {}
    /\ clients = [c \in Clients |-> NoRequest]
    /\ workers = [w \in Workers |-> Idle]
    /\ faults = 0

Fault ==
    /\ faults < MaxFaults
    /\ faults' = faults + 1

-----------------------------------------------------------------------------
(* The request (ExportJobsView.post) *)

\* No identical job is active.  (If one is, the request answers with it and
\* changes nothing.)  Two requests may both get here before either creates.
post_check(c) ==
    /\ clients[c].pc = "idle"
    /\ now <= LastRequest
    /\ \A j \in Jobs : jobs[j].status \notin Active
    /\ clients' = [clients EXCEPT ![c].pc = "checked"]
    /\ UNCHANGED <<now, jobs, broker, files, workers, faults>>

post_create(c, j) ==
    /\ clients[c].pc = "checked"
    /\ now <= LastRequest
    /\ jobs[j].status = "none"
    /\ jobs' = [jobs EXCEPT ![j] = [NoRow EXCEPT !.status = "queued", !.created_at = now]]
    /\ clients' = [clients EXCEPT ![c] = [pc |-> "created", job |-> j]]
    /\ UNCHANGED <<now, broker, files, workers, faults>>

post_enqueue(c) ==
    /\ clients[c].pc = "created"
    /\ broker' = broker \cup {clients[c].job}
    /\ clients' = [clients EXCEPT ![c] = NoRequest]
    /\ UNCHANGED <<now, jobs, files, workers, faults>>

\* The broker refuses the task: the row is failed on the spot.
post_enqueue_failed(c) ==
    /\ clients[c].pc = "created"
    /\ jobs' = [jobs EXCEPT ![clients[c].job].status = "failed"]
    /\ clients' = [clients EXCEPT ![c] = NoRequest]
    /\ UNCHANGED <<now, broker, files, workers, faults>>

\* The web process dies between the row and the task.
post_crash(c) ==
    /\ clients[c].pc = "created"
    /\ Fault
    /\ clients' = [clients EXCEPT ![c] = NoRequest]
    /\ UNCHANGED <<now, jobs, broker, files, workers>>

\* The broker loses a message.
lose(j) ==
    /\ j \in broker
    /\ Fault
    /\ broker' = broker \ {j}
    /\ UNCHANGED <<now, jobs, files, clients, workers>>

-----------------------------------------------------------------------------
(* The worker (execute_export_job) *)

\* The claim is one guarded UPDATE.  The message may be delivered again.
execute_export_job(w, j) ==
    /\ workers[w].pc = "idle"
    /\ j \in broker
    /\ now <= LastClaim
    /\ broker' \in {broker, broker \ {j}}
    /\ IF jobs[j].status = "queued"
       THEN /\ jobs' = [jobs EXCEPT ![j].status = "running", ![j].started_at = now]
            /\ workers' = [workers EXCEPT ![w] = Place("sweep", j, 0, {}, NoJob)]
       ELSE UNCHANGED <<jobs, workers>>
    /\ UNCHANGED <<now, files, clients, faults>>

\* _mark_failed with no guard, as the worker itself calls it.
_mark_failed(j) == [jobs EXCEPT ![j].status = "failed"]

\* The render raises (its own errors, the soft limit), or the file cannot be stored.
render_failed(w) ==
    /\ workers[w].pc = "rendering"
    /\ jobs' = _mark_failed(workers[w].job)
    /\ workers' = [workers EXCEPT ![w] = Idle]
    /\ UNCHANGED <<now, broker, files, clients, faults>>

\* Mutant: storing the file also saves the row, which then names it.
store_and_save(w) ==
    /\ workers[w].pc = "rendering"
    /\ files' = files \cup {workers[w].job}
    /\ jobs' = [jobs EXCEPT ![workers[w].job].result_file = workers[w].job]
    /\ workers' = [workers EXCEPT ![w].pc = "stored"]
    /\ UNCHANGED <<now, broker, clients, faults>>

\* The file is written; the row is not saved.
store(w) ==
    /\ workers[w].pc = "rendering"
    /\ files' = files \cup {workers[w].job}
    /\ workers' = [workers EXCEPT ![w].pc = "stored"]
    /\ UNCHANGED <<now, jobs, broker, clients, faults>>

\* _delete_orphaned_file: a storage failure is logged and leaves the file.
Discard(j) ==
    \/ files' = files \ {j} /\ UNCHANGED faults
    \/ Fault /\ UNCHANGED files

\* Mutant: the completion is written whatever became of the job.
AnyStatus(j) == jobs[j].status \in Statuses

Publishable(j) == jobs[j].status = "running"

\* The UPDATE publishes a job that is still running; otherwise the file goes.
publish(w) ==
    LET j == workers[w].job
    IN  /\ workers[w].pc = "stored"
        /\ IF Publishable(j)
           THEN /\ jobs' = [jobs EXCEPT ![j].status = "completed",
                                        ![j].file_expires_at = now + Retention,
                                        ![j].result_file = j]
                /\ UNCHANGED <<files, faults>>
           ELSE /\ Discard(j)
                /\ UNCHANGED jobs
        /\ workers' = [workers EXCEPT ![w] = Idle]
        /\ UNCHANGED <<now, broker, clients>>

publish_failed(w) ==
    /\ workers[w].pc = "stored"
    /\ Discard(workers[w].job)
    /\ jobs' = _mark_failed(workers[w].job)
    /\ workers' = [workers EXCEPT ![w] = Idle]
    /\ UNCHANGED <<now, broker, clients>>

\* The process dies, whatever it was doing.
crash(w) ==
    /\ workers[w].pc # "idle"
    /\ Fault
    /\ workers' = [workers EXCEPT ![w] = Idle]
    /\ UNCHANGED <<now, jobs, broker, files, clients>>

\* An export task that has used up its hard limit (run_export_job).
Overdue(w) ==
    /\ w \in Limited
    /\ workers[w].job # NoJob
    /\ jobs[workers[w].job].started_at + HardLimit <= now

\* The pool kills it.
hard_kill(w) ==
    /\ Overdue(w)
    /\ workers' = [workers EXCEPT ![w] = Idle]
    /\ UNCHANGED <<now, jobs, broker, files, clients, faults>>

-----------------------------------------------------------------------------
(* The sweep (sweep_export_jobs_impl), run by every claimed job and by beat *)

beat(w) ==
    /\ workers[w].pc = "idle"
    /\ workers' = [workers EXCEPT ![w].pc = "sweep"]
    /\ UNCHANGED <<now, jobs, broker, files, clients, faults>>

\* A completed job whose file is past its time.
Expired(j) ==
    /\ jobs[j].status = "completed"
    /\ jobs[j].file_expires_at <= now
    /\ jobs[j].result_file # NoJob

sweep_expired(w) ==
    /\ workers[w].pc = "sweep"
    /\ workers' = [workers EXCEPT ![w] =
           Place("expired", workers[w].job, now,
                 {<<j, "completed">> : j \in {k \in Jobs : Expired(k)}}, NoJob)]
    /\ UNCHANGED <<now, jobs, broker, files, clients, faults>>

\* First the file, then, in a statement of its own, the name in the row.
erase_file(w, j) ==
    /\ workers[w].pc = "expired"
    /\ <<j, "completed">> \in workers[w].todo
    /\ files' = files \ {j}
    /\ workers' = [workers EXCEPT ![w] =
           Place("erased", workers[w].job, workers[w].at,
                 workers[w].todo \ {<<j, "completed">>}, j)]
    /\ UNCHANGED <<now, jobs, broker, clients, faults>>

clear_name(w) ==
    LET j == workers[w].file
    IN  /\ workers[w].pc = "erased"
        /\ jobs' = [jobs EXCEPT ![j].result_file = IF @ = j THEN NoJob ELSE @]
        /\ workers' = [workers EXCEPT ![w] =
               Place("expired", workers[w].job, workers[w].at, workers[w].todo, NoJob)]
        /\ UNCHANGED <<now, broker, files, clients, faults>>

\* The storage refuses: the row keeps the name for the next sweep.
erase_failed(w, j) ==
    /\ workers[w].pc = "expired"
    /\ <<j, "completed">> \in workers[w].todo
    /\ Fault
    /\ workers' = [workers EXCEPT ![w].todo = @ \ {<<j, "completed">>}]
    /\ UNCHANGED <<now, jobs, broker, files, clients>>

\* Mutant: only running jobs are looked at.
StaleRunning(j, status, t) ==
    /\ jobs[j].status = status
    /\ status = "running" /\ jobs[j].started_at + HardLimit + RunningGrace <= t

\* Whether job j is past the cutoff of its status, for a sweep that began at t.
Stale(j, status, t) ==
    /\ jobs[j].status = status
    /\ \/ status = "running" /\ jobs[j].started_at + HardLimit + RunningGrace <= t
       \/ status = "queued" /\ jobs[j].created_at + QueuedCutoff <= t

\* The query for jobs that can no longer finish.
sweep_stale(w) ==
    /\ workers[w].pc = "expired"
    /\ workers[w].todo = {}
    /\ workers' = [workers EXCEPT ![w] =
           Place("stale", workers[w].job, workers[w].at,
                 {p \in Jobs \X Active : Stale(p[1], p[2], workers[w].at)}, NoJob)]
    /\ UNCHANGED <<now, jobs, broker, files, clients, faults>>

\* Mutant: the UPDATE goes by what the query saw.
FailSeen(j, status, t) == _mark_failed(j)

\* The UPDATE checks again what the query saw.
FailIfStale(j, status, t) == IF Stale(j, status, t) THEN _mark_failed(j) ELSE jobs

fail_stale(w, j, status) ==
    /\ workers[w].pc = "stale"
    /\ <<j, status>> \in workers[w].todo
    /\ jobs' = FailIfStale(j, status, workers[w].at)
    /\ workers' = [workers EXCEPT ![w].todo = @ \ {<<j, status>>}]
    /\ UNCHANGED <<now, broker, files, clients, faults>>

\* What a worker does after its sweep: the job it claimed, or nothing.
AfterSweep(w) ==
    IF workers[w].job = NoJob THEN Idle
    ELSE Place("rendering", workers[w].job, 0, {}, NoJob)

sweep_done(w) ==
    /\ workers[w].pc = "stale"
    /\ workers[w].todo = {}
    /\ workers' = [workers EXCEPT ![w] = AfterSweep(w)]
    /\ UNCHANGED <<now, jobs, broker, files, clients, faults>>

\* The sweep raises; a claimed job goes on without it.
sweep_aborted(w) ==
    /\ workers[w].pc \in {"sweep", "expired", "erased", "stale"}
    /\ Fault
    /\ workers' = [workers EXCEPT ![w] = AfterSweep(w)]
    /\ UNCHANGED <<now, jobs, broker, files, clients>>

-----------------------------------------------------------------------------
(* The specification *)

\* Time does not pass an overdue task by: the pool kills it first.
Tick ==
    /\ now < Horizon
    /\ \A w \in Workers : ~Overdue(w)
    /\ now' = now + 1
    /\ UNCHANGED <<jobs, broker, files, clients, workers, faults>>

sweep_step(w) ==
    \/ sweep_expired(w)
    \/ \E j \in Jobs : erase_file(w, j)
    \/ clear_name(w)
    \/ sweep_stale(w)
    \/ \E j \in Jobs, status \in Active : fail_stale(w, j, status)
    \/ sweep_done(w)

Next ==
    \/ Tick
    \/ \E c \in Clients :
        \/ post_check(c) \/ post_enqueue(c) \/ post_enqueue_failed(c) \/ post_crash(c)
        \/ \E j \in Jobs : post_create(c, j)
    \/ \E j \in Jobs : lose(j)
    \/ \E w \in Workers :
        \/ \E j \in Jobs : execute_export_job(w, j) \/ erase_failed(w, j)
        \/ render_failed(w) \/ store(w) \/ publish(w) \/ publish_failed(w)
        \/ crash(w) \/ hard_kill(w)
        \/ beat(w) \/ sweep_step(w) \/ sweep_aborted(w)

Spec == Init /\ [][Next]_vars

\* Time goes on, the pool enforces the limit, the beat schedule keeps starting
\* sweeps and a sweep that is not killed goes through.  Nothing is assumed of
\* requests, the broker or renders: any of them may never move again.
Fairness ==
    /\ WF_vars(Tick)
    /\ WF_vars(\E w \in Workers : beat(w))
    /\ \A w \in Workers : WF_vars(hard_kill(w)) /\ WF_vars(sweep_step(w))

FairSpec == Spec /\ Fairness

-----------------------------------------------------------------------------
(* Properties *)

\* Column types, and which columns a status comes with (models.py).
TypeOK ==
    /\ now \in Nat /\ faults \in Nat
    /\ jobs \in [Jobs -> ExportJob]
    /\ broker \subseteq Jobs /\ files \subseteq Jobs
    /\ clients \in [Clients -> Client]
    /\ workers \in [Workers -> Worker]
    /\ \A j \in Jobs : /\ jobs[j].result_file # NoJob =>
                            jobs[j].status = "completed" /\ jobs[j].result_file = j
                       /\ jobs[j].started_at <= now

\* A job is rendered by one worker at most, and as long as that worker lives
\* and is held to its limit the row says running: duplicate deliveries do not
\* claim again, and the sweep, whose query may be older than the claim, does
\* not fail a healthy run.
LiveRunOwnsJob ==
    \A w \in Workers :
        workers[w].job # NoJob =>
            /\ w \in Limited => jobs[workers[w].job].status = "running"
            /\ \A v \in Workers \ {w} : workers[v].job # workers[w].job

\* What the requester is offered: a completed job is ready while its row names
\* a file that is really there.
Offered(j) ==
    CASE jobs[j].status = "none" -> [state |-> "unknown", until |-> 0]
      [] jobs[j].status \in Active -> [state |-> "pending", until |-> 0]
      [] jobs[j].status = "failed" -> [state |-> "failed", until |-> 0]
      [] OTHER -> [state |-> IF jobs[j].result_file \in files THEN "ready" ELSE "gone",
                   until |-> jobs[j].file_expires_at]

Promise == INSTANCE ExportPromise WITH clock <- now, offers <- [j \in Jobs |-> Offered(j)]

\* The jobs keep the promise of the API: an outcome is final, no late worker
\* resurrects or fails what is settled, and the file of a completed job is
\* there for the whole retention time and is deleted only after it.
KeepsPromise == Promise!Spec

\* A job somebody waits for is settled in the end, whatever died on the way:
\* the request before it enqueued, the message, the worker.
EveryJobSettles ==
    \A j \in Jobs : jobs[j].status \in Active ~> jobs[j].status \in {"completed", "failed"}

\* Once its time is over the file of a completed job is deleted, even if a
\* sweep failed on it or died between the file and the row.
ExpiredIsErased ==
    \A j \in Jobs : (jobs[j].status = "completed" /\ jobs[j].file_expires_at <= now)
                        ~> (j \notin files /\ jobs[j].result_file = NoJob)

\* Whatever crashed, got lost or was refused, the sweep catches up: every job
\* ends, and every file whose time is over is deleted (sweep_export_jobs_impl).
SweepCatchesUp == EveryJobSettles /\ ExpiredIsErased
=============================================================================
