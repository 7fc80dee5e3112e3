-------------------------- MODULE ExportJobsProofs --------------------------
(***************************************************************************)
(* Theorems about ExportJobs, for any jobs, requests and workers and any   *)
(* limits: the type invariant, the exclusive ownership of a live run, and  *)
(* that the jobs implement ExportPromise.                                  *)
(***************************************************************************)
EXTENDS ExportJobs, TLAPS

-----------------------------------------------------------------------------
(* The inductive invariant *)

\* A job a worker holds was claimed once, by that worker.
Held ==
    \A w \in Workers :
        /\ workers[w].pc = "idle" => workers[w].job = NoJob
        /\ workers[w].pc \in {"rendering", "stored"} => workers[w].job # NoJob
        /\ workers[w].job # NoJob =>
              /\ jobs[workers[w].job].status \in {"running", "failed"}
              /\ \A v \in Workers \ {w} : workers[v].job # workers[w].job

\* A row whose request has not enqueued it is known to that request alone.
Unsent ==
    /\ \A j \in broker : jobs[j].status # "none"
    /\ \A c \in Clients :
        /\ clients[c].pc # "created" => clients[c].job = NoJob
        /\ clients[c].pc = "created" =>
              /\ clients[c].job # NoJob
              /\ clients[c].job \notin broker
              /\ jobs[clients[c].job].status \in {"queued", "failed"}
              /\ \A w \in Workers : workers[w].job # clients[c].job
              /\ \A d \in Clients \ {c} : clients[d].job # clients[c].job

\* What a sweep is about to delete, or has just deleted, is past its time.
Overripe(j) ==
    /\ j \in Jobs
    /\ jobs[j].status = "completed"
    /\ jobs[j].file_expires_at <= now

Sweeping ==
    \A w \in Workers :
        /\ workers[w].at <= now
        /\ \A j \in Jobs : <<j, "completed">> \in workers[w].todo => Overripe(j)
        /\ workers[w].pc = "erased" => Overripe(workers[w].file)

\* The file a worker stored is there until that worker is done with it.
Stored == \A w \in Workers : workers[w].pc = "stored" => workers[w].job \in files

\* A worker that is held to its limit and holds a job is within it.
InTime ==
    \A w \in Limited :
        workers[w].job # NoJob =>
            /\ jobs[workers[w].job].status = "running"
            /\ now <= jobs[workers[w].job].started_at + HardLimit

IInv == TypeOK /\ Held /\ Unsent /\ Sweeping /\ Stored

-----------------------------------------------------------------------------
(* Types *)

\* What the two queries of the sweep return, less what was handled.
LEMMA RowsFacts ==
    /\ {} \in Rows
    /\ \A T \in Rows : \A p : T \ {p} \in Rows
    /\ {<<j, "completed">> : j \in {k \in Jobs : Expired(k)}} \in Rows
    /\ \A t : {p \in Jobs \X Active : Stale(p[1], p[2], t)} \in Rows
  BY DEF Rows, Statuses, Active

\* Type of a worker's place.
LEMMA PlaceType ==
    ASSUME NEW pc \in {"idle", "sweep", "expired", "erased", "stale", "rendering", "stored"},
           NEW job \in Jobs \cup {NoJob}, NEW at \in Nat, NEW todo \in Rows,
           NEW file \in Jobs \cup {NoJob}
    PROVE  Place(pc, job, at, todo, file) \in Worker
  BY DEF Place, Worker

\* Types of the fields of a worker.
LEMMA WorkerFields ==
    ASSUME TypeOK, NEW w \in Workers
    PROVE  /\ workers[w].pc \in {"idle", "sweep", "expired", "erased", "stale",
                                 "rendering", "stored"}
           /\ workers[w].job \in Jobs \cup {NoJob}
           /\ workers[w].at \in Nat
           /\ workers[w].todo \in Rows
           /\ workers[w].file \in Jobs \cup {NoJob}
           /\ AfterSweep(w) \in Worker
           /\ Idle \in Worker
  BY RowsFacts, PlaceType DEF TypeOK, Worker, AfterSweep, Idle

\* The initial state has the right types.
LEMMA TypeInit == Init => TypeOK
  <1>1. Idle \in Worker
    BY RowsFacts, PlaceType DEF Idle
  <1>2. NoRow \in ExportJob /\ NoRow.result_file = NoJob /\ NoRow.started_at = 0
    BY DEF NoRow, ExportJob, Statuses
  <1> QED
    BY <1>1, <1>2 DEF Init, TypeOK, Client, NoRequest

\* Every action keeps the types.
LEMMA TypeStep ==
    ASSUME TypeOK, Held, Unsent, Sweeping, [Next]_vars
    PROVE  TypeOK'
  <1>1. ASSUME Tick
        PROVE  TypeOK'
    BY <1>1 DEF Tick, TypeOK, ExportJob, Worker, Client, Statuses
  <1>2. ASSUME NEW c \in Clients, post_check(c)
        PROVE  TypeOK'
    <2>1. clients' \in [Clients -> Client]
      BY <1>2 DEF post_check, TypeOK, Client
    <2> QED
      BY <1>2, <2>1 DEF post_check, TypeOK
  <1>3. ASSUME NEW c \in Clients, post_enqueue(c)
        PROVE  TypeOK'
    <2>1. clients[c].job \in Jobs
      BY <1>3 DEF post_enqueue, Unsent, TypeOK, Client
    <2> QED
      BY <1>3, <2>1 DEF post_enqueue, NoRequest, TypeOK, Client
  <1>4. ASSUME NEW c \in Clients, post_enqueue_failed(c)
        PROVE  TypeOK'
    <2> DEFINE j == clients[c].job
    <2>1. j \in Jobs /\ jobs[j].status # "completed"
      BY <1>4 DEF post_enqueue_failed, Unsent, TypeOK, Client
    <2>2. jobs' = [jobs EXCEPT ![j].status = "failed"]
      BY <1>4 DEF post_enqueue_failed, _mark_failed
    <2> HIDE DEF j
    <2>3. jobs' \in [Jobs -> ExportJob]
      BY <2>1, <2>2 DEF TypeOK, ExportJob, Statuses
    <2>4. \A k \in Jobs : /\ jobs'[k].result_file = jobs[k].result_file
                          /\ jobs'[k].started_at = jobs[k].started_at
                          /\ jobs[k].status = "completed" => jobs'[k].status = "completed"
      BY <2>1, <2>2 DEF TypeOK, ExportJob
    <2> QED
      BY <1>4, <2>3, <2>4 DEF post_enqueue_failed, NoRequest, TypeOK, Client
  <1>5. ASSUME NEW c \in Clients, post_crash(c)
        PROVE  TypeOK'
    BY <1>5 DEF post_crash, Fault, NoRequest, TypeOK, ExportJob, Worker,
       Client, Statuses
  <1>6. ASSUME NEW c \in Clients, NEW j \in Jobs, post_create(c, j)
        PROVE  TypeOK'
    <2> DEFINE row == [NoRow EXCEPT !.status = "queued", !.created_at = now]
    <2>1. row \in ExportJob /\ row.result_file = NoJob /\ row.started_at = 0
      BY DEF NoRow, ExportJob, Statuses, TypeOK
    <2>2. jobs' = [jobs EXCEPT ![j] = row]
      BY <1>6 DEF post_create
    <2> HIDE DEF row
    <2>3. jobs' \in [Jobs -> ExportJob]
      BY <2>1, <2>2 DEF TypeOK
    <2>4. clients' \in [Clients -> Client]
      BY <1>6 DEF post_create, TypeOK, Client
    <2>5. \A k \in Jobs : jobs'[k] = IF k = j THEN row ELSE jobs[k]
      BY <2>2 DEF TypeOK
    <2>6. \A k \in Jobs : /\ jobs'[k].result_file # NoJob =>
                                jobs'[k].status = "completed" /\ jobs'[k].result_file = k
                          /\ jobs'[k].started_at <= now
      BY <2>1, <2>5 DEF TypeOK
    <2> QED
      BY <1>6, <2>3, <2>4, <2>6 DEF post_create, TypeOK
  <1>7. ASSUME NEW j \in Jobs, lose(j)
        PROVE  TypeOK'
    BY <1>7 DEF lose, Fault, TypeOK, ExportJob, Worker, Client, Statuses
  <1>8. ASSUME NEW w \in Workers, render_failed(w)
        PROVE  TypeOK'
    <2> DEFINE j == workers[w].job
    <2>1. j \in Jobs /\ jobs[j].status # "completed"
      BY <1>8 DEF render_failed, Held, TypeOK, Worker
    <2>2. jobs' = [jobs EXCEPT ![j].status = "failed"]
      BY <1>8 DEF render_failed, _mark_failed
    <2> HIDE DEF j
    <2>3. jobs' \in [Jobs -> ExportJob]
      BY <2>1, <2>2 DEF TypeOK, ExportJob, Statuses
    <2>4. \A k \in Jobs : /\ jobs'[k].result_file = jobs[k].result_file
                          /\ jobs'[k].started_at = jobs[k].started_at
                          /\ jobs[k].status = "completed" => jobs'[k].status = "completed"
      BY <2>1, <2>2 DEF TypeOK, ExportJob
    <2> QED
      BY <1>8, <2>3, <2>4, WorkerFields DEF render_failed, TypeOK
  <1>9. ASSUME NEW w \in Workers, store(w)
        PROVE  TypeOK'
    <2>1. workers[w].job \in Jobs
      BY <1>9 DEF store, Held, TypeOK, Worker
    <2>2. workers' \in [Workers -> Worker]
      BY <1>9 DEF store, TypeOK, Worker
    <2> QED
      BY <1>9, <2>1, <2>2 DEF store, TypeOK
  <1>10. ASSUME NEW w \in Workers, publish(w)
        PROVE  TypeOK'
    <2> DEFINE j == workers[w].job
    <2>1. j \in Jobs
      BY <1>10 DEF publish, Held, TypeOK, Worker
    <2>2. CASE Publishable(j)
      <3>1. jobs' \in [Jobs -> ExportJob]
        BY <1>10, <2>1, <2>2 DEF publish, TypeOK, ExportJob, Statuses
      <3>2. \A k \in Jobs \ {j} : jobs'[k] = jobs[k]
        BY <1>10, <2>1, <2>2 DEF publish, TypeOK
      <3>3. /\ jobs'[j].status = "completed" /\ jobs'[j].result_file = j
            /\ jobs'[j].started_at = jobs[j].started_at
        BY <1>10, <2>1, <2>2 DEF publish, TypeOK, ExportJob
      <3> QED
        BY <1>10, <2>1, <2>2, <3>1, <3>2, <3>3, WorkerFields DEF publish, TypeOK
    <2>3. CASE ~Publishable(j)
      BY <1>10, <2>3, WorkerFields DEF publish, Discard, Fault, TypeOK
    <2> QED
      BY <2>2, <2>3
  <1>11. ASSUME NEW w \in Workers, publish_failed(w)
        PROVE  TypeOK'
    <2> DEFINE j == workers[w].job
    <2>1. j \in Jobs /\ jobs[j].status # "completed"
      BY <1>11 DEF publish_failed, Held, TypeOK, Worker
    <2>2. jobs' = [jobs EXCEPT ![j].status = "failed"]
      BY <1>11 DEF publish_failed, _mark_failed
    <2> HIDE DEF j
    <2>3. jobs' \in [Jobs -> ExportJob]
      BY <2>1, <2>2 DEF TypeOK, ExportJob, Statuses
    <2>4. \A k \in Jobs : /\ jobs'[k].result_file = jobs[k].result_file
                          /\ jobs'[k].started_at = jobs[k].started_at
                          /\ jobs[k].status = "completed" => jobs'[k].status = "completed"
      BY <2>1, <2>2 DEF TypeOK, ExportJob
    <2> QED
      BY <1>11, <2>3, <2>4, WorkerFields DEF publish_failed, Discard, Fault, TypeOK
  <1>12. ASSUME NEW w \in Workers, crash(w)
        PROVE  TypeOK'
    BY <1>12, WorkerFields DEF crash, Fault, TypeOK
  <1>13. ASSUME NEW w \in Workers, hard_kill(w)
        PROVE  TypeOK'
    BY <1>13, WorkerFields DEF hard_kill, TypeOK
  <1>14. ASSUME NEW w \in Workers, beat(w)
        PROVE  TypeOK'
    <2>1. workers' \in [Workers -> Worker]
      BY <1>14 DEF beat, TypeOK, Worker
    <2> QED
      BY <1>14, <2>1 DEF beat, TypeOK
  <1>15. ASSUME NEW w \in Workers, sweep_expired(w)
        PROVE  TypeOK'
    <2>1. workers' \in [Workers -> Worker]
      BY <1>15, RowsFacts, WorkerFields, PlaceType DEF sweep_expired, TypeOK
    <2> QED
      BY <1>15, <2>1 DEF sweep_expired, TypeOK
  <1>16. ASSUME NEW w \in Workers, clear_name(w)
        PROVE  TypeOK'
    <2>1. workers[w].file \in Jobs
      BY <1>16 DEF clear_name, Sweeping, Overripe
    <2>2. jobs' \in [Jobs -> ExportJob]
      BY <1>16, <2>1 DEF clear_name, TypeOK, ExportJob
    <2>3. workers' \in [Workers -> Worker]
      BY <1>16, WorkerFields, PlaceType DEF clear_name, TypeOK
    <2>4. \A j \in Jobs : /\ jobs'[j].status = jobs[j].status
                          /\ jobs'[j].started_at = jobs[j].started_at
                          /\ jobs'[j].result_file \in {jobs[j].result_file, NoJob}
      BY <1>16, <2>1 DEF clear_name, TypeOK, ExportJob
    <2> QED
      BY <1>16, <2>2, <2>3, <2>4 DEF clear_name, TypeOK
  <1>17. ASSUME NEW w \in Workers, sweep_stale(w)
        PROVE  TypeOK'
    <2> DEFINE found == {p \in Jobs \X Active : Stale(p[1], p[2], workers[w].at)}
    <2>1. found \in Rows
      BY RowsFacts
    <2>2. workers' = [workers EXCEPT ![w] =
                        Place("stale", workers[w].job, workers[w].at, found, NoJob)]
      BY <1>17 DEF sweep_stale
    <2> HIDE DEF found
    <2>3. Place("stale", workers[w].job, workers[w].at, found, NoJob) \in Worker
      BY <2>1, WorkerFields, PlaceType
    <2>4. workers' \in [Workers -> Worker]
      BY <2>2, <2>3 DEF TypeOK
    <2> QED
      BY <1>17, <2>4 DEF sweep_stale, TypeOK
  <1>18. ASSUME NEW w \in Workers, sweep_done(w)
        PROVE  TypeOK'
    BY <1>18, WorkerFields DEF sweep_done, TypeOK
  <1>19. ASSUME NEW w \in Workers, sweep_aborted(w)
        PROVE  TypeOK'
    BY <1>19, WorkerFields DEF sweep_aborted, Fault, TypeOK
  <1>20. ASSUME NEW w \in Workers, NEW j \in Jobs, execute_export_job(w, j)
        PROVE  TypeOK'
    <2>1. CASE jobs[j].status = "queued"
      <3>1. jobs' \in [Jobs -> ExportJob]
        BY <1>20, <2>1 DEF execute_export_job, TypeOK, ExportJob, Statuses
      <3>0. Place("sweep", j, 0, {}, NoJob) \in Worker
        BY RowsFacts, PlaceType
      <3>2. workers' \in [Workers -> Worker]
        BY <1>20, <2>1, <3>0 DEF execute_export_job, TypeOK
      <3>3. \A k \in Jobs : /\ jobs'[k].result_file = jobs[k].result_file
                            /\ jobs'[k].started_at \in {jobs[k].started_at, now}
                            /\ jobs[k].status = "completed" => jobs'[k].status = "completed"
        BY <1>20, <2>1 DEF execute_export_job, TypeOK, ExportJob
      <3> QED
        BY <1>20, <3>1, <3>2, <3>3 DEF execute_export_job, TypeOK
    <2>2. CASE jobs[j].status # "queued"
      BY <1>20, <2>2 DEF execute_export_job, TypeOK
    <2> QED
      BY <2>1, <2>2
  <1>21. ASSUME NEW w \in Workers, NEW j \in Jobs, erase_failed(w, j)
        PROVE  TypeOK'
    <2> DEFINE rest == workers[w].todo \ {<<j, "completed">>}
    <2>1. rest \in Rows
      BY RowsFacts, WorkerFields
    <2>2. workers' = [workers EXCEPT ![w].todo = rest]
      BY <1>21 DEF erase_failed
    <2> HIDE DEF rest
    <2>3. workers' \in [Workers -> Worker]
      BY <2>1, <2>2 DEF TypeOK, Worker
    <2> QED
      BY <1>21, <2>3 DEF erase_failed, Fault, TypeOK
  <1>22. ASSUME NEW w \in Workers, NEW j \in Jobs, erase_file(w, j)
        PROVE  TypeOK'
    <2>1. workers' \in [Workers -> Worker]
      BY <1>22, RowsFacts, WorkerFields, PlaceType DEF erase_file, TypeOK
    <2> QED
      BY <1>22, <2>1 DEF erase_file, TypeOK
  <1>23. ASSUME NEW w \in Workers, NEW j \in Jobs, NEW status \in Active,
     fail_stale(w, j, status)
        PROVE  TypeOK'
    <2> DEFINE rest == workers[w].todo \ {<<j, status>>}
    <2>1. rest \in Rows
      BY RowsFacts, WorkerFields
    <2>2. workers' = [workers EXCEPT ![w].todo = rest]
      BY <1>23 DEF fail_stale
    <2> HIDE DEF rest
    <2>3. workers' \in [Workers -> Worker]
      BY <2>1, <2>2 DEF TypeOK, Worker
    <2>4. jobs' \in [Jobs -> ExportJob]
      BY <1>23 DEF fail_stale, FailIfStale, _mark_failed, TypeOK, ExportJob, Statuses
    <2>5. \A k \in Jobs : /\ jobs'[k].result_file = jobs[k].result_file
                          /\ jobs'[k].started_at = jobs[k].started_at
                          /\ jobs[k].status = "completed" => jobs'[k].status = "completed"
      BY <1>23 DEF fail_stale, FailIfStale, Stale, _mark_failed, TypeOK, ExportJob, Active
    <2> QED
      BY <1>23, <2>3, <2>4, <2>5 DEF fail_stale, TypeOK
  <1>24. CASE UNCHANGED vars
    BY <1>24 DEF vars, TypeOK, ExportJob, Worker, Client, Statuses
  <1> QED
    BY <1>1, <1>2, <1>3, <1>4, <1>5, <1>6, <1>7, <1>8, <1>9, <1>10, <1>11,
       <1>12, <1>13, <1>14, <1>15, <1>16, <1>17, <1>18, <1>19, <1>20, <1>21,
       <1>22, <1>23, <1>24 DEF Next, sweep_step

-----------------------------------------------------------------------------
(* Claims *)

\* A claim is made once: only a queued row is claimed, and no row becomes queued again.
LEMMA HeldStep ==
    ASSUME TypeOK, Held, Unsent, Sweeping, [Next]_vars
    PROVE  Held'
  <1>1. ASSUME Tick
        PROVE  Held'
    BY <1>1, NoJobAssumption DEF Tick, Held, TypeOK, ExportJob, Worker
  <1>2. ASSUME NEW c \in Clients, post_check(c)
        PROVE  Held'
    BY <1>2, NoJobAssumption DEF post_check, Held, TypeOK, ExportJob, Worker
  <1>3. ASSUME NEW c \in Clients, post_enqueue(c)
        PROVE  Held'
    BY <1>3, NoJobAssumption DEF post_enqueue, NoRequest, Held, TypeOK,
       ExportJob, Worker
  <1>4. ASSUME NEW c \in Clients, post_enqueue_failed(c)
        PROVE  Held'
    BY <1>4, NoJobAssumption DEF post_enqueue_failed, NoRequest, Held,
       TypeOK, ExportJob, Worker
  <1>5. ASSUME NEW c \in Clients, post_crash(c)
        PROVE  Held'
    BY <1>5, NoJobAssumption DEF post_crash, Fault, NoRequest, Held, TypeOK,
       ExportJob, Worker
  <1>6. ASSUME NEW c \in Clients, NEW j \in Jobs, post_create(c, j)
        PROVE  Held'
    BY <1>6, NoJobAssumption DEF post_create, NoRow, Held, TypeOK, ExportJob,
       Worker
  <1>7. ASSUME NEW j \in Jobs, lose(j)
        PROVE  Held'
    BY <1>7, NoJobAssumption DEF lose, Fault, Held, TypeOK, ExportJob, Worker
  <1>8. ASSUME NEW w \in Workers, render_failed(w)
        PROVE  Held'
    BY <1>8, NoJobAssumption DEF render_failed, _mark_failed, Idle, Place,
       Held, TypeOK, ExportJob, Worker
  <1>9. ASSUME NEW w \in Workers, store(w)
        PROVE  Held'
    BY <1>9, NoJobAssumption DEF store, Held, TypeOK, ExportJob, Worker
  <1>10. ASSUME NEW w \in Workers, publish(w)
        PROVE  Held'
    BY <1>10, NoJobAssumption DEF publish, Publishable, Discard, Fault, Idle,
       Place, Held, TypeOK, ExportJob, Worker
  <1>11. ASSUME NEW w \in Workers, publish_failed(w)
        PROVE  Held'
    BY <1>11, NoJobAssumption DEF publish_failed, _mark_failed, Discard,
       Fault, Idle, Place, Held, TypeOK, ExportJob, Worker
  <1>12. ASSUME NEW w \in Workers, crash(w)
        PROVE  Held'
    BY <1>12, NoJobAssumption DEF crash, Fault, Idle, Place, Held, TypeOK,
       ExportJob, Worker
  <1>13. ASSUME NEW w \in Workers, hard_kill(w)
        PROVE  Held'
    BY <1>13, NoJobAssumption DEF hard_kill, Idle, Place, Held, TypeOK,
       ExportJob, Worker
  <1>14. ASSUME NEW w \in Workers, beat(w)
        PROVE  Held'
    BY <1>14, NoJobAssumption DEF beat, Held, TypeOK, ExportJob, Worker
  <1>15. ASSUME NEW w \in Workers, sweep_expired(w)
        PROVE  Held'
    BY <1>15, NoJobAssumption DEF sweep_expired, Place, Held, TypeOK,
       ExportJob, Worker
  <1>16. ASSUME NEW w \in Workers, clear_name(w)
        PROVE  Held'
    BY <1>16, NoJobAssumption DEF clear_name, Place, Held, TypeOK, ExportJob,
       Worker
  <1>17. ASSUME NEW w \in Workers, sweep_stale(w)
        PROVE  Held'
    BY <1>17, NoJobAssumption DEF sweep_stale, Place, Held, TypeOK,
       ExportJob, Worker
  <1>18. ASSUME NEW w \in Workers, sweep_done(w)
        PROVE  Held'
    BY <1>18, NoJobAssumption DEF sweep_done, AfterSweep, Idle, Place, Held,
       TypeOK, ExportJob, Worker
  <1>19. ASSUME NEW w \in Workers, sweep_aborted(w)
        PROVE  Held'
    BY <1>19, NoJobAssumption DEF sweep_aborted, AfterSweep, Idle, Fault,
       Place, Held, TypeOK, ExportJob, Worker
  <1>20. ASSUME NEW w \in Workers, NEW j \in Jobs, execute_export_job(w, j)
        PROVE  Held'
    <2>1. CASE jobs[j].status # "queued"
      BY <1>20, <2>1 DEF execute_export_job, Held
    <2>2. CASE jobs[j].status = "queued"
      <3>1. \A v \in Workers : workers[v].job # j
        BY <2>2, NoJobAssumption DEF Held
      <3>2. \A v \in Workers \ {w} : workers'[v] = workers[v]
        BY <1>20, <2>2 DEF execute_export_job, TypeOK
      <3>3. workers'[w].pc = "sweep" /\ workers'[w].job = j
        BY <1>20, <2>2 DEF execute_export_job, Place, TypeOK
      <3>4. /\ jobs'[j].status = "running"
            /\ \A k \in Jobs \ {j} : jobs'[k].status = jobs[k].status
        BY <1>20, <2>2 DEF execute_export_job, TypeOK, ExportJob
      <3> QED
        BY <3>1, <3>2, <3>3, <3>4, WorkerFields DEF Held
    <2> QED
      BY <2>1, <2>2
  <1>21. ASSUME NEW w \in Workers, NEW j \in Jobs, erase_failed(w, j)
        PROVE  Held'
    BY <1>21, NoJobAssumption DEF erase_failed, Fault, Held, TypeOK,
       ExportJob, Worker
  <1>22. ASSUME NEW w \in Workers, NEW j \in Jobs, erase_file(w, j)
        PROVE  Held'
    BY <1>22, NoJobAssumption DEF erase_file, Place, Held, TypeOK, ExportJob,
       Worker
  <1>23. ASSUME NEW w \in Workers, NEW j \in Jobs, NEW status \in Active,
     fail_stale(w, j, status)
        PROVE  Held'
    BY <1>23, NoJobAssumption DEF fail_stale, FailIfStale, Stale,
       _mark_failed, Active, Held, TypeOK, ExportJob, Worker
  <1>24. CASE UNCHANGED vars
    BY <1>24, NoJobAssumption DEF vars, Held, TypeOK, ExportJob, Worker
  <1> QED
    BY <1>1, <1>2, <1>3, <1>4, <1>5, <1>6, <1>7, <1>8, <1>9, <1>10, <1>11,
       <1>12, <1>13, <1>14, <1>15, <1>16, <1>17, <1>18, <1>19, <1>20, <1>21,
       <1>22, <1>23, <1>24 DEF Next, sweep_step

\* Only its own request knows a row before it is enqueued.
LEMMA UnsentStep ==
    ASSUME TypeOK, Held, Unsent, Sweeping, [Next]_vars
    PROVE  Unsent'
  <1>1. ASSUME Tick
        PROVE  Unsent'
    BY <1>1, NoJobAssumption DEF Tick, Unsent, Held, TypeOK, ExportJob,
       Worker, Client
  <1>2. ASSUME NEW c \in Clients, post_check(c)
        PROVE  Unsent'
    BY <1>2, NoJobAssumption DEF post_check, Unsent, Held, TypeOK, ExportJob,
       Worker, Client
  <1>3. ASSUME NEW c \in Clients, post_enqueue(c)
        PROVE  Unsent'
    BY <1>3, NoJobAssumption DEF post_enqueue, NoRequest, Unsent, Held,
       TypeOK, ExportJob, Worker, Client
  <1>4. ASSUME NEW c \in Clients, post_enqueue_failed(c)
        PROVE  Unsent'
    BY <1>4, NoJobAssumption DEF post_enqueue_failed, NoRequest, Unsent,
       Held, TypeOK, ExportJob, Worker, Client
  <1>5. ASSUME NEW c \in Clients, post_crash(c)
        PROVE  Unsent'
    BY <1>5, NoJobAssumption DEF post_crash, Fault, NoRequest, Unsent, Held,
       TypeOK, ExportJob, Worker, Client
  <1>6. ASSUME NEW c \in Clients, NEW j \in Jobs, post_create(c, j)
        PROVE  Unsent'
    BY <1>6, NoJobAssumption DEF post_create, NoRow, Unsent, Held, TypeOK,
       ExportJob, Worker, Client
  <1>7. ASSUME NEW j \in Jobs, lose(j)
        PROVE  Unsent'
    BY <1>7, NoJobAssumption DEF lose, Fault, Unsent, Held, TypeOK,
       ExportJob, Worker, Client
  <1>8. ASSUME NEW w \in Workers, render_failed(w)
        PROVE  Unsent'
    BY <1>8, NoJobAssumption DEF render_failed, _mark_failed, Idle, Place,
       Unsent, Held, TypeOK, ExportJob, Worker, Client
  <1>9. ASSUME NEW w \in Workers, store(w)
        PROVE  Unsent'
    BY <1>9, NoJobAssumption DEF store, Unsent, Held, TypeOK, ExportJob,
       Worker, Client
  <1>10. ASSUME NEW w \in Workers, publish(w)
        PROVE  Unsent'
    BY <1>10, NoJobAssumption DEF publish, Publishable, Discard, Fault, Idle,
       Place, Unsent, Held, TypeOK, ExportJob, Worker, Client
  <1>11. ASSUME NEW w \in Workers, publish_failed(w)
        PROVE  Unsent'
    BY <1>11, NoJobAssumption DEF publish_failed, _mark_failed, Discard,
       Fault, Idle, Place, Unsent, Held, TypeOK, ExportJob, Worker, Client
  <1>12. ASSUME NEW w \in Workers, crash(w)
        PROVE  Unsent'
    BY <1>12, NoJobAssumption DEF crash, Fault, Idle, Place, Unsent, Held,
       TypeOK, ExportJob, Worker, Client
  <1>13. ASSUME NEW w \in Workers, hard_kill(w)
        PROVE  Unsent'
    BY <1>13, NoJobAssumption DEF hard_kill, Idle, Place, Unsent, Held,
       TypeOK, ExportJob, Worker, Client
  <1>14. ASSUME NEW w \in Workers, beat(w)
        PROVE  Unsent'
    BY <1>14, NoJobAssumption DEF beat, Unsent, Held, TypeOK, ExportJob,
       Worker, Client
  <1>15. ASSUME NEW w \in Workers, sweep_expired(w)
        PROVE  Unsent'
    BY <1>15, NoJobAssumption DEF sweep_expired, Place, Unsent, Held, TypeOK,
       ExportJob, Worker, Client
  <1>16. ASSUME NEW w \in Workers, clear_name(w)
        PROVE  Unsent'
    BY <1>16, NoJobAssumption DEF clear_name, Place, Unsent, Held, TypeOK,
       ExportJob, Worker, Client
  <1>17. ASSUME NEW w \in Workers, sweep_stale(w)
        PROVE  Unsent'
    BY <1>17, NoJobAssumption DEF sweep_stale, Place, Unsent, Held, TypeOK,
       ExportJob, Worker, Client
  <1>18. ASSUME NEW w \in Workers, sweep_done(w)
        PROVE  Unsent'
    BY <1>18, NoJobAssumption DEF sweep_done, AfterSweep, Idle, Place,
       Unsent, Held, TypeOK, ExportJob, Worker, Client
  <1>19. ASSUME NEW w \in Workers, sweep_aborted(w)
        PROVE  Unsent'
    BY <1>19, NoJobAssumption DEF sweep_aborted, AfterSweep, Idle, Fault,
       Place, Unsent, Held, TypeOK, ExportJob, Worker, Client
  <1>20. ASSUME NEW w \in Workers, NEW j \in Jobs, execute_export_job(w, j)
        PROVE  Unsent'
    <2>1. CASE jobs[j].status # "queued"
      BY <1>20, <2>1 DEF execute_export_job, Unsent
    <2>2. CASE jobs[j].status = "queued"
      <3>1. \A c \in Clients : clients[c].pc = "created" => clients[c].job # j
        BY <1>20 DEF execute_export_job, Unsent
      <3>2. \A v \in Workers \ {w} : workers'[v] = workers[v]
        BY <1>20, <2>2 DEF execute_export_job, TypeOK
      <3>3. workers'[w].job = j
        BY <1>20, <2>2 DEF execute_export_job, Place, TypeOK
      <3>4. /\ jobs'[j].status = "running"
            /\ \A k \in Jobs \ {j} : jobs'[k].status = jobs[k].status
        BY <1>20, <2>2 DEF execute_export_job, TypeOK, ExportJob
      <3>5. broker' \subseteq broker /\ clients' = clients
        BY <1>20 DEF execute_export_job
      <3> QED
        BY <3>1, <3>2, <3>3, <3>4, <3>5 DEF Unsent, TypeOK, Client
    <2> QED
      BY <2>1, <2>2
  <1>21. ASSUME NEW w \in Workers, NEW j \in Jobs, erase_failed(w, j)
        PROVE  Unsent'
    BY <1>21, NoJobAssumption DEF erase_failed, Fault, Unsent, Held, TypeOK,
       ExportJob, Worker, Client
  <1>22. ASSUME NEW w \in Workers, NEW j \in Jobs, erase_file(w, j)
        PROVE  Unsent'
    BY <1>22, NoJobAssumption DEF erase_file, Place, Unsent, Held, TypeOK,
       ExportJob, Worker, Client
  <1>23. ASSUME NEW w \in Workers, NEW j \in Jobs, NEW status \in Active,
     fail_stale(w, j, status)
        PROVE  Unsent'
    BY <1>23, NoJobAssumption DEF fail_stale, FailIfStale, Stale,
       _mark_failed, Active, Unsent, Held, TypeOK, ExportJob, Worker, Client
  <1>24. CASE UNCHANGED vars
    BY <1>24, NoJobAssumption DEF vars, Unsent, Held, TypeOK, ExportJob,
       Worker, Client
  <1> QED
    BY <1>1, <1>2, <1>3, <1>4, <1>5, <1>6, <1>7, <1>8, <1>9, <1>10, <1>11,
       <1>12, <1>13, <1>14, <1>15, <1>16, <1>17, <1>18, <1>19, <1>20, <1>21,
       <1>22, <1>23, <1>24 DEF Next, sweep_step

-----------------------------------------------------------------------------
(* Sweeps and files *)

\* What a sweep found past its time stays so: completed rows and deadlines do not change.
LEMMA SweepingStep ==
    ASSUME TypeOK, Held, Unsent, Sweeping, [Next]_vars
    PROVE  Sweeping'
  <1>1. ASSUME Tick
        PROVE  Sweeping'
    BY <1>1, NoJobAssumption DEF Tick, Sweeping, Overripe, TypeOK, ExportJob,
       Worker
  <1>2. ASSUME NEW c \in Clients, post_check(c)
        PROVE  Sweeping'
    BY <1>2, NoJobAssumption DEF post_check, Sweeping, Overripe, TypeOK,
       ExportJob, Worker
  <1>3. ASSUME NEW c \in Clients, post_enqueue(c)
        PROVE  Sweeping'
    BY <1>3, NoJobAssumption DEF post_enqueue, NoRequest, Sweeping, Overripe,
       TypeOK, ExportJob, Worker
  <1>4. ASSUME NEW c \in Clients, post_enqueue_failed(c)
        PROVE  Sweeping'
    <2>1. \A k \in Jobs : /\ jobs[k].status = "completed" => jobs'[k].status = "completed"
                          /\ jobs'[k].file_expires_at = jobs[k].file_expires_at
      BY <1>4, NoJobAssumption DEF post_enqueue_failed, Unsent, TypeOK, ExportJob, Client
    <2>2. \A v \in Workers : workers'[v] \in {workers[v], Idle}
      BY <1>4 DEF post_enqueue_failed, TypeOK
    <2>3. now' = now /\ now \in Nat
      BY <1>4 DEF post_enqueue_failed, TypeOK
    <2> QED
      BY <2>1, <2>2, <2>3 DEF Sweeping, Overripe, Idle, Place
  <1>5. ASSUME NEW c \in Clients, post_crash(c)
        PROVE  Sweeping'
    BY <1>5, NoJobAssumption DEF post_crash, Fault, NoRequest, Sweeping,
       Overripe, TypeOK, ExportJob, Worker
  <1>6. ASSUME NEW c \in Clients, NEW j \in Jobs, post_create(c, j)
        PROVE  Sweeping'
    BY <1>6, NoJobAssumption DEF post_create, NoRow, Sweeping, Overripe,
       TypeOK, ExportJob, Worker
  <1>7. ASSUME NEW j \in Jobs, lose(j)
        PROVE  Sweeping'
    BY <1>7, NoJobAssumption DEF lose, Fault, Sweeping, Overripe, TypeOK,
       ExportJob, Worker
  <1>8. ASSUME NEW w \in Workers, render_failed(w)
        PROVE  Sweeping'
    <2>1. \A k \in Jobs : /\ jobs[k].status = "completed" => jobs'[k].status = "completed"
                          /\ jobs'[k].file_expires_at = jobs[k].file_expires_at
      BY <1>8, NoJobAssumption DEF render_failed, _mark_failed, Held, TypeOK, ExportJob, Worker
    <2>2. \A v \in Workers : workers'[v] \in {workers[v], Idle}
      BY <1>8 DEF render_failed, TypeOK
    <2>3. now' = now /\ now \in Nat
      BY <1>8 DEF render_failed, TypeOK
    <2> QED
      BY <2>1, <2>2, <2>3 DEF Sweeping, Overripe, Idle, Place
  <1>9. ASSUME NEW w \in Workers, store(w)
        PROVE  Sweeping'
    BY <1>9, NoJobAssumption DEF store, Sweeping, Overripe, TypeOK,
       ExportJob, Worker
  <1>10. ASSUME NEW w \in Workers, publish(w)
        PROVE  Sweeping'
    BY <1>10, NoJobAssumption DEF publish, Publishable, Discard, Fault, Idle,
       Place, Sweeping, Overripe, TypeOK, ExportJob, Worker
  <1>11. ASSUME NEW w \in Workers, publish_failed(w)
        PROVE  Sweeping'
    <2>1. \A k \in Jobs : /\ jobs[k].status = "completed" => jobs'[k].status = "completed"
                          /\ jobs'[k].file_expires_at = jobs[k].file_expires_at
      BY <1>11, NoJobAssumption DEF publish_failed, _mark_failed, Held, TypeOK, ExportJob, Worker
    <2>2. \A v \in Workers : workers'[v] \in {workers[v], Idle}
      BY <1>11 DEF publish_failed, TypeOK
    <2>3. now' = now /\ now \in Nat
      BY <1>11 DEF publish_failed, TypeOK
    <2> QED
      BY <2>1, <2>2, <2>3 DEF Sweeping, Overripe, Idle, Place
  <1>12. ASSUME NEW w \in Workers, crash(w)
        PROVE  Sweeping'
    BY <1>12, NoJobAssumption DEF crash, Fault, Idle, Place, Sweeping,
       Overripe, TypeOK, ExportJob, Worker
  <1>13. ASSUME NEW w \in Workers, hard_kill(w)
        PROVE  Sweeping'
    BY <1>13, NoJobAssumption DEF hard_kill, Idle, Place, Sweeping, Overripe,
       TypeOK, ExportJob, Worker
  <1>14. ASSUME NEW w \in Workers, beat(w)
        PROVE  Sweeping'
    BY <1>14, NoJobAssumption DEF beat, Sweeping, Overripe, TypeOK,
       ExportJob, Worker
  <1>15. ASSUME NEW w \in Workers, sweep_expired(w)
        PROVE  Sweeping'
    <2> DEFINE found == {<<j, "completed">> : j \in {k \in Jobs : Expired(k)}}
    <2>1. \A j \in Jobs : <<j, "completed">> \in found => Expired(j)
      OBVIOUS
    <2>2. workers'[w].todo = found /\ workers'[w].at = now /\ workers'[w].pc = "expired"
      BY <1>15 DEF sweep_expired, Place, TypeOK
    <2> HIDE DEF found
    <2>3. \A v \in Workers \ {w} : workers'[v] = workers[v]
      BY <1>15 DEF sweep_expired, TypeOK
    <2>4. now' = now /\ jobs' = jobs /\ now \in Nat
      BY <1>15 DEF sweep_expired, TypeOK
    <2> QED
      BY <2>1, <2>2, <2>3, <2>4 DEF Sweeping, Overripe, Expired
  <1>16. ASSUME NEW w \in Workers, clear_name(w)
        PROVE  Sweeping'
    BY <1>16, NoJobAssumption DEF clear_name, Place, Sweeping, Overripe,
       TypeOK, ExportJob, Worker
  <1>17. ASSUME NEW w \in Workers, sweep_stale(w)
        PROVE  Sweeping'
    <2> DEFINE found == {p \in Jobs \X Active : Stale(p[1], p[2], workers[w].at)}
    <2>1. \A j \in Jobs : <<j, "completed">> \notin found
      BY DEF Active
    <2>2. /\ workers'[w].todo = found /\ workers'[w].at = workers[w].at
          /\ workers'[w].pc = "stale"
      BY <1>17 DEF sweep_stale, Place, TypeOK
    <2> HIDE DEF found
    <2>3. \A v \in Workers \ {w} : workers'[v] = workers[v]
      BY <1>17 DEF sweep_stale, TypeOK
    <2>4. now' = now /\ jobs' = jobs
      BY <1>17 DEF sweep_stale
    <2> QED
      BY <2>1, <2>2, <2>3, <2>4 DEF Sweeping, Overripe
  <1>18. ASSUME NEW w \in Workers, sweep_done(w)
        PROVE  Sweeping'
    BY <1>18, NoJobAssumption DEF sweep_done, AfterSweep, Idle, Place,
       Sweeping, Overripe, TypeOK, ExportJob, Worker
  <1>19. ASSUME NEW w \in Workers, sweep_aborted(w)
        PROVE  Sweeping'
    BY <1>19, NoJobAssumption DEF sweep_aborted, AfterSweep, Idle, Fault,
       Place, Sweeping, Overripe, TypeOK, ExportJob, Worker
  <1>20. ASSUME NEW w \in Workers, NEW j \in Jobs, execute_export_job(w, j)
        PROVE  Sweeping'
    BY <1>20, NoJobAssumption DEF execute_export_job, Place, Sweeping,
       Overripe, TypeOK, ExportJob, Worker
  <1>21. ASSUME NEW w \in Workers, NEW j \in Jobs, erase_failed(w, j)
        PROVE  Sweeping'
    BY <1>21, NoJobAssumption DEF erase_failed, Fault, Sweeping, Overripe,
       TypeOK, ExportJob, Worker
  <1>22. ASSUME NEW w \in Workers, NEW j \in Jobs, erase_file(w, j)
        PROVE  Sweeping'
    BY <1>22, NoJobAssumption DEF erase_file, Place, Sweeping, Overripe,
       TypeOK, ExportJob, Worker
  <1>23. ASSUME NEW w \in Workers, NEW j \in Jobs, NEW status \in Active,
     fail_stale(w, j, status)
        PROVE  Sweeping'
    BY <1>23, NoJobAssumption DEF fail_stale, FailIfStale, Stale,
       _mark_failed, Active, Sweeping, Overripe, TypeOK, ExportJob, Worker
  <1>24. CASE UNCHANGED vars
    BY <1>24, NoJobAssumption DEF vars, Sweeping, Overripe, TypeOK,
       ExportJob, Worker
  <1> QED
    BY <1>1, <1>2, <1>3, <1>4, <1>5, <1>6, <1>7, <1>8, <1>9, <1>10, <1>11,
       <1>12, <1>13, <1>14, <1>15, <1>16, <1>17, <1>18, <1>19, <1>20, <1>21,
       <1>22, <1>23, <1>24 DEF Next, sweep_step

\* Nobody but its worker deletes the file of an unpublished job: a sweep only
\* deletes files of completed ones.
LEMMA StoredStep ==
    ASSUME TypeOK, Held, Sweeping, Stored, [Next]_vars
    PROVE  Stored'
  <1>1. ASSUME Tick
        PROVE  Stored'
    BY <1>1, NoJobAssumption DEF Tick, Stored, Held, Sweeping, Overripe,
       TypeOK, Worker
  <1>2. ASSUME NEW c \in Clients, post_check(c)
        PROVE  Stored'
    BY <1>2, NoJobAssumption DEF post_check, Stored, Held, Sweeping,
       Overripe, TypeOK, Worker
  <1>3. ASSUME NEW c \in Clients, post_enqueue(c)
        PROVE  Stored'
    BY <1>3, NoJobAssumption DEF post_enqueue, NoRequest, Stored, Held,
       Sweeping, Overripe, TypeOK, Worker
  <1>4. ASSUME NEW c \in Clients, post_enqueue_failed(c)
        PROVE  Stored'
    BY <1>4, NoJobAssumption DEF post_enqueue_failed, NoRequest, Stored,
       Held, Sweeping, Overripe, TypeOK, Worker
  <1>5. ASSUME NEW c \in Clients, post_crash(c)
        PROVE  Stored'
    BY <1>5, NoJobAssumption DEF post_crash, Fault, NoRequest, Stored, Held,
       Sweeping, Overripe, TypeOK, Worker
  <1>6. ASSUME NEW c \in Clients, NEW j \in Jobs, post_create(c, j)
        PROVE  Stored'
    BY <1>6, NoJobAssumption DEF post_create, NoRow, Stored, Held, Sweeping,
       Overripe, TypeOK, Worker
  <1>7. ASSUME NEW j \in Jobs, lose(j)
        PROVE  Stored'
    BY <1>7, NoJobAssumption DEF lose, Fault, Stored, Held, Sweeping,
       Overripe, TypeOK, Worker
  <1>8. ASSUME NEW w \in Workers, render_failed(w)
        PROVE  Stored'
    BY <1>8, NoJobAssumption DEF render_failed, _mark_failed, Idle, Place,
       Stored, Held, Sweeping, Overripe, TypeOK, Worker
  <1>9. ASSUME NEW w \in Workers, store(w)
        PROVE  Stored'
    BY <1>9, NoJobAssumption DEF store, Stored, Held, Sweeping, Overripe,
       TypeOK, Worker
  <1>10. ASSUME NEW w \in Workers, publish(w)
        PROVE  Stored'
    BY <1>10, NoJobAssumption DEF publish, Publishable, Discard, Fault, Idle,
       Place, Stored, Held, Sweeping, Overripe, TypeOK, Worker
  <1>11. ASSUME NEW w \in Workers, publish_failed(w)
        PROVE  Stored'
    BY <1>11, NoJobAssumption DEF publish_failed, _mark_failed, Discard,
       Fault, Idle, Place, Stored, Held, Sweeping, Overripe, TypeOK, Worker
  <1>12. ASSUME NEW w \in Workers, crash(w)
        PROVE  Stored'
    BY <1>12, NoJobAssumption DEF crash, Fault, Idle, Place, Stored, Held,
       Sweeping, Overripe, TypeOK, Worker
  <1>13. ASSUME NEW w \in Workers, hard_kill(w)
        PROVE  Stored'
    BY <1>13, NoJobAssumption DEF hard_kill, Idle, Place, Stored, Held,
       Sweeping, Overripe, TypeOK, Worker
  <1>14. ASSUME NEW w \in Workers, beat(w)
        PROVE  Stored'
    BY <1>14, NoJobAssumption DEF beat, Stored, Held, Sweeping, Overripe,
       TypeOK, Worker
  <1>15. ASSUME NEW w \in Workers, sweep_expired(w)
        PROVE  Stored'
    BY <1>15, NoJobAssumption DEF sweep_expired, Place, Stored, Held,
       Sweeping, Overripe, TypeOK, Worker
  <1>16. ASSUME NEW w \in Workers, clear_name(w)
        PROVE  Stored'
    BY <1>16, NoJobAssumption DEF clear_name, Place, Stored, Held, Sweeping,
       Overripe, TypeOK, Worker
  <1>17. ASSUME NEW w \in Workers, sweep_stale(w)
        PROVE  Stored'
    BY <1>17, NoJobAssumption DEF sweep_stale, Place, Stored, Held, Sweeping,
       Overripe, TypeOK, Worker
  <1>18. ASSUME NEW w \in Workers, sweep_done(w)
        PROVE  Stored'
    BY <1>18, NoJobAssumption DEF sweep_done, AfterSweep, Idle, Place,
       Stored, Held, Sweeping, Overripe, TypeOK, Worker
  <1>19. ASSUME NEW w \in Workers, sweep_aborted(w)
        PROVE  Stored'
    BY <1>19, NoJobAssumption DEF sweep_aborted, AfterSweep, Idle, Fault,
       Place, Stored, Held, Sweeping, Overripe, TypeOK, Worker
  <1>20. ASSUME NEW w \in Workers, NEW j \in Jobs, execute_export_job(w, j)
        PROVE  Stored'
    BY <1>20, NoJobAssumption DEF execute_export_job, Place, Stored, Held,
       Sweeping, Overripe, TypeOK, Worker
  <1>21. ASSUME NEW w \in Workers, NEW j \in Jobs, erase_failed(w, j)
        PROVE  Stored'
    BY <1>21, NoJobAssumption DEF erase_failed, Fault, Stored, Held,
       Sweeping, Overripe, TypeOK, Worker
  <1>22. ASSUME NEW w \in Workers, NEW j \in Jobs, erase_file(w, j)
        PROVE  Stored'
    BY <1>22, NoJobAssumption DEF erase_file, Place, Stored, Held, Sweeping,
       Overripe, TypeOK, Worker
  <1>23. ASSUME NEW w \in Workers, NEW j \in Jobs, NEW status \in Active,
     fail_stale(w, j, status)
        PROVE  Stored'
    BY <1>23, NoJobAssumption DEF fail_stale, FailIfStale, Stale,
       _mark_failed, Active, Stored, Held, Sweeping, Overripe, TypeOK, Worker
  <1>24. CASE UNCHANGED vars
    BY <1>24, NoJobAssumption DEF vars, Stored, Held, Sweeping, Overripe,
       TypeOK, Worker
  <1> QED
    BY <1>1, <1>2, <1>3, <1>4, <1>5, <1>6, <1>7, <1>8, <1>9, <1>10, <1>11,
       <1>12, <1>13, <1>14, <1>15, <1>16, <1>17, <1>18, <1>19, <1>20, <1>21,
       <1>22, <1>23, <1>24 DEF Next, sweep_step

-----------------------------------------------------------------------------
(* Limits *)

\* No worker held to its limit outlives it, and a sweep, which waits longer
\* and whose clock reading is older, leaves its job alone.
LEMMA TimedStep ==
    ASSUME TypeOK, Held, Unsent, Sweeping, InTime, [Next]_vars
    PROVE  InTime'
  <1>1. ASSUME Tick
        PROVE  InTime'
    <2> SUFFICES ASSUME NEW w \in Limited, workers[w].job # NoJob
                 PROVE  /\ jobs[workers[w].job].status = "running"
                        /\ now + 1 <= jobs[workers[w].job].started_at + HardLimit
      BY <1>1 DEF Tick, InTime
    <2>1. workers[w].job \in Jobs
      BY WorkerFields, TimesAssumption
    <2>2. jobs[workers[w].job].started_at \in Nat /\ HardLimit \in Nat /\ now \in Nat
      BY <2>1, TimesAssumption DEF TypeOK, ExportJob
    <2>3. ~Overdue(w)
      BY <1>1, TimesAssumption DEF Tick
    <2>4. ~(jobs[workers[w].job].started_at + HardLimit <= now)
      BY <2>3 DEF Overdue
    <2> QED
      BY <2>2, <2>4 DEF InTime
  <1>2. ASSUME NEW c \in Clients, post_check(c)
        PROVE  InTime'
    BY <1>2, NoJobAssumption, TimesAssumption DEF post_check, InTime, TypeOK,
       ExportJob, Worker
  <1>3. ASSUME NEW c \in Clients, post_enqueue(c)
        PROVE  InTime'
    BY <1>3, NoJobAssumption, TimesAssumption DEF post_enqueue, NoRequest,
       InTime, TypeOK, ExportJob, Worker
  <1>4. ASSUME NEW c \in Clients, post_enqueue_failed(c)
        PROVE  InTime'
    <2>1. \A v \in Workers : workers[v].job # NoJob =>
                               jobs'[workers[v].job] = jobs[workers[v].job]
      BY <1>4, NoJobAssumption DEF post_enqueue_failed, Unsent, TypeOK, Worker, Client
    <2>2. workers' = workers /\ now' = now
      BY <1>4 DEF post_enqueue_failed
    <2> QED
      BY <2>1, <2>2, TimesAssumption DEF InTime
  <1>5. ASSUME NEW c \in Clients, post_crash(c)
        PROVE  InTime'
    BY <1>5, NoJobAssumption, TimesAssumption DEF post_crash, Fault,
       NoRequest, InTime, TypeOK, ExportJob, Worker
  <1>6. ASSUME NEW c \in Clients, NEW j \in Jobs, post_create(c, j)
        PROVE  InTime'
    BY <1>6, NoJobAssumption, TimesAssumption DEF post_create, NoRow, InTime,
       TypeOK, ExportJob, Worker
  <1>7. ASSUME NEW j \in Jobs, lose(j)
        PROVE  InTime'
    BY <1>7, NoJobAssumption, TimesAssumption DEF lose, Fault, InTime,
       TypeOK, ExportJob, Worker
  <1>8. ASSUME NEW w \in Workers, render_failed(w)
        PROVE  InTime'
    <2>1. \A v \in Workers \ {w} :
             /\ workers'[v] = workers[v]
             /\ workers[v].job # NoJob =>
                    jobs'[workers[v].job] = jobs[workers[v].job]
      BY <1>8, NoJobAssumption DEF render_failed, _mark_failed, Held, TypeOK, Worker
    <2>2. workers'[w].job = NoJob /\ now' = now
      BY <1>8 DEF render_failed, Idle, Place, TypeOK
    <2> QED
      BY <2>1, <2>2, TimesAssumption DEF InTime
  <1>9. ASSUME NEW w \in Workers, store(w)
        PROVE  InTime'
    BY <1>9, NoJobAssumption, TimesAssumption DEF store, InTime, TypeOK,
       ExportJob, Worker
  <1>10. ASSUME NEW w \in Workers, publish(w)
        PROVE  InTime'
    BY <1>10, NoJobAssumption, TimesAssumption DEF publish, Publishable,
       Discard, Fault, Idle, Place, InTime, TypeOK, ExportJob, Worker
  <1>11. ASSUME NEW w \in Workers, publish_failed(w)
        PROVE  InTime'
    <2>1. \A v \in Workers \ {w} :
             /\ workers'[v] = workers[v]
             /\ workers[v].job # NoJob =>
                    jobs'[workers[v].job] = jobs[workers[v].job]
      BY <1>11, NoJobAssumption DEF publish_failed, _mark_failed, Held, TypeOK, Worker
    <2>2. workers'[w].job = NoJob /\ now' = now
      BY <1>11 DEF publish_failed, Idle, Place, TypeOK
    <2> QED
      BY <2>1, <2>2, TimesAssumption DEF InTime
  <1>12. ASSUME NEW w \in Workers, crash(w)
        PROVE  InTime'
    BY <1>12, NoJobAssumption, TimesAssumption DEF crash, Fault, Idle, Place,
       InTime, TypeOK, ExportJob, Worker
  <1>13. ASSUME NEW w \in Workers, hard_kill(w)
        PROVE  InTime'
    BY <1>13, NoJobAssumption, TimesAssumption DEF hard_kill, Idle, Place,
       InTime, TypeOK, ExportJob, Worker
  <1>14. ASSUME NEW w \in Workers, beat(w)
        PROVE  InTime'
    BY <1>14, NoJobAssumption, TimesAssumption DEF beat, InTime, TypeOK,
       ExportJob, Worker
  <1>15. ASSUME NEW w \in Workers, sweep_expired(w)
        PROVE  InTime'
    BY <1>15, NoJobAssumption, TimesAssumption DEF sweep_expired, Place,
       InTime, TypeOK, ExportJob, Worker
  <1>16. ASSUME NEW w \in Workers, clear_name(w)
        PROVE  InTime'
    BY <1>16, NoJobAssumption, TimesAssumption DEF clear_name, Place, InTime,
       TypeOK, ExportJob, Worker
  <1>17. ASSUME NEW w \in Workers, sweep_stale(w)
        PROVE  InTime'
    BY <1>17, NoJobAssumption, TimesAssumption DEF sweep_stale, Place,
       InTime, TypeOK, ExportJob, Worker
  <1>18. ASSUME NEW w \in Workers, sweep_done(w)
        PROVE  InTime'
    BY <1>18, NoJobAssumption, TimesAssumption DEF sweep_done, AfterSweep,
       Idle, Place, InTime, TypeOK, ExportJob, Worker
  <1>19. ASSUME NEW w \in Workers, sweep_aborted(w)
        PROVE  InTime'
    BY <1>19, NoJobAssumption, TimesAssumption DEF sweep_aborted, AfterSweep,
       Idle, Fault, Place, InTime, TypeOK, ExportJob, Worker
  <1>20. ASSUME NEW w \in Workers, NEW j \in Jobs, execute_export_job(w, j)
        PROVE  InTime'
    BY <1>20, NoJobAssumption, TimesAssumption DEF execute_export_job, Place,
       InTime, TypeOK, ExportJob, Worker
  <1>21. ASSUME NEW w \in Workers, NEW j \in Jobs, erase_failed(w, j)
        PROVE  InTime'
    BY <1>21, NoJobAssumption, TimesAssumption DEF erase_failed, Fault,
       InTime, TypeOK, ExportJob, Worker
  <1>22. ASSUME NEW w \in Workers, NEW j \in Jobs, erase_file(w, j)
        PROVE  InTime'
    BY <1>22, NoJobAssumption, TimesAssumption DEF erase_file, Place, InTime,
       TypeOK, ExportJob, Worker
  <1>23. ASSUME NEW w \in Workers, NEW j \in Jobs, NEW status \in Active,
     fail_stale(w, j, status)
        PROVE  InTime'
    <2>1. ASSUME NEW v \in Limited, workers[v].job # NoJob
          PROVE  jobs'[workers[v].job] = jobs[workers[v].job]
      <3>1. workers[v].job \in Jobs /\ jobs[workers[v].job].status = "running"
        BY <2>1, WorkerFields, TimesAssumption DEF InTime
      <3>2. /\ jobs[workers[v].job].started_at \in Nat /\ HardLimit \in Nat
            /\ RunningGrace \in Nat \ {0} /\ now \in Nat /\ workers[w].at \in Nat
        BY <3>1, TimesAssumption, WorkerFields DEF TypeOK, ExportJob
      <3>3. /\ now <= jobs[workers[v].job].started_at + HardLimit
            /\ workers[w].at <= now
        BY <2>1 DEF InTime, Sweeping
      <3>4. ~Stale(workers[v].job, "running", workers[w].at)
        BY <3>2, <3>3 DEF Stale
      <3>5. ~Stale(workers[v].job, status, workers[w].at)
        BY <3>1, <3>4 DEF Stale
      <3> QED
        BY <1>23, <3>1, <3>5 DEF fail_stale, FailIfStale, _mark_failed, TypeOK
    <2>2. \A v \in Workers : workers'[v].job = workers[v].job
      BY <1>23 DEF fail_stale, TypeOK, Worker
    <2>3. now' = now
      BY <1>23 DEF fail_stale
    <2> QED
      BY <2>1, <2>2, <2>3, TimesAssumption DEF InTime
  <1>24. CASE UNCHANGED vars
    BY <1>24, NoJobAssumption, TimesAssumption DEF vars, InTime, TypeOK,
       ExportJob, Worker
  <1> QED
    BY <1>1, <1>2, <1>3, <1>4, <1>5, <1>6, <1>7, <1>8, <1>9, <1>10, <1>11,
       <1>12, <1>13, <1>14, <1>15, <1>16, <1>17, <1>18, <1>19, <1>20, <1>21,
       <1>22, <1>23, <1>24 DEF Next, sweep_step

-----------------------------------------------------------------------------
(* Theorems *)

\* The invariant holds initially.
LEMMA InvInit == Init => IInv /\ InTime
  <1> SUFFICES ASSUME Init PROVE IInv /\ InTime
    OBVIOUS
  <1>1. TypeOK
    BY TypeInit
  <1>2. Held /\ Stored /\ InTime
    BY NoJobAssumption, TimesAssumption DEF Init, Held, Stored, InTime, Idle, Place
  <1>3. Unsent
    BY DEF Init, Unsent, NoRequest
  <1>4. Sweeping
    BY DEF Init, Sweeping, Idle, Place
  <1> QED
    BY <1>1, <1>2, <1>3, <1>4 DEF IInv

\* Every step keeps the invariant.
LEMMA InvStep == IInv /\ [Next]_vars => IInv'
  BY TypeStep, HeldStep, UnsentStep, SweepingStep, StoredStep DEF IInv

\* Every step keeps workers within their limits.
LEMMA TimedInvStep == IInv /\ InTime /\ [Next]_vars => InTime'
  BY TimedStep DEF IInv

\* The inductive invariant holds in every reachable state.
THEOREM Invariance == Spec => [](IInv /\ InTime)
  BY InvInit, InvStep, TimedInvStep, PTL DEF Spec

\* Rows, files, requests and workers keep their types, and a row names a file
\* only once it is completed (models.py).
THEOREM ExportTypes == Spec => []TypeOK
  <1>1. IInv => TypeOK
    BY DEF IInv
  <1> QED
    BY <1>1, Invariance, PTL

\* A live run owns its job: nobody else renders it and, where the pool enforces
\* the hard limit, no sweep fails it, for any limits as long as the sweep waits
\* some grace beyond the hard limit.
THEOREM LiveRunsAreSafe == Spec => []LiveRunOwnsJob
  <1>1. IInv /\ InTime => LiveRunOwnsJob
    BY DEF IInv, InTime, Held, LiveRunOwnsJob
  <1> QED
    BY <1>1, Invariance, PTL

-----------------------------------------------------------------------------
(* Refinement: the jobs implement ExportPromise *)

\* The moves of an offer that ExportPromise allows.
Allowed(old, new) ==
    \/ new = old
    \/ old.state = "unknown" /\ new = [state |-> "pending", until |-> 0]
    \/ old.state = "pending" /\ new = [state |-> "failed", until |-> 0]
    \/ old.state = "pending" /\ new = [state |-> "ready", until |-> now + Retention]
    \/ /\ old.state = "ready" /\ old.until <= now
       /\ new = [state |-> "gone", until |-> old.until]

\* An offer depends on the row and on the presence of the file it names.
LEMMA SameOffer ==
    ASSUME NEW j \in Jobs, jobs'[j] = jobs[j],
           jobs[j].result_file \in files' <=> jobs[j].result_file \in files
    PROVE  Offered(j)' = Offered(j)
  BY DEF Offered

\* A step that moves one offer, as allowed, is a step of ExportPromise.
LEMMA OneMoves ==
    ASSUME TypeOK, NEW j \in Jobs, now' = now,
           \A k \in Jobs \ {j} : Offered(k)' = Offered(k),
           Allowed(Offered(j), Offered(j)')
    PROVE  [Promise!Next]_(Promise!offerVars)
  <1> DEFINE old == [k \in Jobs |-> Offered(k)]
             new == [k \in Jobs |-> Offered(k)']
  <1>1. new = [old EXCEPT ![j] = Offered(j)'] /\ old[j] = Offered(j)
    OBVIOUS
  <1>2. CASE Offered(j)' = Offered(j)
    BY <1>2 DEF Promise!offerVars
  <1>3. CASE /\ Offered(j).state = "unknown"
             /\ Offered(j)' = [state |-> "pending", until |-> 0]
    BY <1>1, <1>3 DEF Promise!Next, Promise!Accept, Promise!Move, Promise!Offer
  <1>4. CASE /\ Offered(j).state = "pending"
             /\ Offered(j)' = [state |-> "failed", until |-> 0]
    BY <1>1, <1>4 DEF Promise!Next, Promise!Refuse, Promise!Move, Promise!Offer
  <1>5. CASE /\ Offered(j).state = "pending"
             /\ Offered(j)' = [state |-> "ready", until |-> now + Retention]
    BY <1>1, <1>5 DEF Promise!Next, Promise!Fulfil, Promise!Move, Promise!Offer
  <1>6. CASE /\ Offered(j).state = "ready" /\ Offered(j).until <= now
             /\ Offered(j)' = [state |-> "gone", until |-> Offered(j).until]
    BY <1>1, <1>6 DEF Promise!Next, Promise!Withdraw, Promise!Move, Promise!Offer
  <1> QED
    BY <1>2, <1>3, <1>4, <1>5, <1>6 DEF Allowed

\* A step that changes neither rows nor files nor the clock moves no offer.
LEMMA NoneMoves ==
    ASSUME now' = now, jobs' = jobs, files' = files
    PROVE  [Promise!Next]_(Promise!offerVars)
  BY SameOffer DEF Promise!offerVars

\* Rows other than j keep their offer when only j's row and file change.
LEMMA OthersKeep ==
    ASSUME TypeOK, NEW j \in Jobs,
           \A k \in Jobs \ {j} : jobs'[k] = jobs[k] /\ (k \in files' <=> k \in files),
           NoJob \notin files, NoJob \notin files'
    PROVE  \A k \in Jobs \ {j} : Offered(k)' = Offered(k)
  <1> SUFFICES ASSUME NEW k \in Jobs \ {j} PROVE Offered(k)' = Offered(k)
    OBVIOUS
  <1>1. jobs[k].result_file \in {k, NoJob}
    BY DEF TypeOK
  <1> QED
    BY <1>1, SameOffer

\* NoJob is no file.
LEMMA NoFileNoJob == ASSUME TypeOK PROVE NoJob \notin files
  BY NoJobAssumption DEF TypeOK

\* An active job that fails is refused; one that had failed stays as it is.
LEMMA FailingRefuses ==
    ASSUME TypeOK, NEW j \in Jobs, now' = now,
           jobs[j].status \in {"queued", "running", "failed"},
           jobs' = [jobs EXCEPT ![j].status = "failed"],
           files' \in {files, files \ {j}}
    PROVE  [Promise!Next]_(Promise!offerVars)
  <1>1. \A k \in Jobs \ {j} : Offered(k)' = Offered(k)
    BY OthersKeep, NoFileNoJob DEF TypeOK
  <1>2. jobs'[j].status = "failed"
    BY DEF TypeOK, ExportJob
  <1>3. Offered(j)' = [state |-> "failed", until |-> 0]
    BY <1>2 DEF Offered, Active
  <1>4. Offered(j).state = "pending" \/ Offered(j) = [state |-> "failed", until |-> 0]
    BY DEF Offered, Active
  <1>5. Allowed(Offered(j), Offered(j)')
    BY <1>3, <1>4 DEF Allowed
  <1> QED
    BY <1>1, <1>5, OneMoves

\* The file of a job that is not completed is nobody's offer.
LEMMA UnpublishedKeeps ==
    ASSUME TypeOK, NEW j \in Jobs, now' = now, jobs' = jobs,
           jobs[j].status \in {"running", "failed"},
           files' \in {files, files \ {j}, files \cup {j}}
    PROVE  [Promise!Next]_(Promise!offerVars)
  <1>1. \A k \in Jobs \ {j} : Offered(k)' = Offered(k)
    BY OthersKeep, NoFileNoJob, NoJobAssumption
  <1>2. Offered(j)' = Offered(j)
    BY DEF Offered, Active
  <1> QED
    BY <1>1, <1>2, OneMoves DEF Allowed

\* A running job whose file is stored is fulfilled by its publication.
LEMMA PublishingFulfils ==
    ASSUME TypeOK, NEW j \in Jobs, now' = now, files' = files, j \in files,
           jobs[j].status = "running",
           jobs' = [jobs EXCEPT ![j].status = "completed",
                                ![j].file_expires_at = now + Retention,
                                ![j].result_file = j]
    PROVE  [Promise!Next]_(Promise!offerVars)
  <1>1. \A k \in Jobs \ {j} : Offered(k)' = Offered(k)
    BY OthersKeep, NoFileNoJob DEF TypeOK
  <1>2. /\ jobs'[j].status = "completed" /\ jobs'[j].result_file = j
        /\ jobs'[j].file_expires_at = now + Retention
    BY DEF TypeOK, ExportJob
  <1>3. Offered(j)' = [state |-> "ready", until |-> now + Retention]
    BY <1>2 DEF Offered, Active
  <1>4. Offered(j).state = "pending"
    BY DEF Offered, Active
  <1> QED
    BY <1>1, <1>3, <1>4, OneMoves DEF Allowed

\* A completed job past its time whose row or file goes is withdrawn.
LEMMA ErasingWithdraws ==
    ASSUME TypeOK, NEW j \in Jobs, now' = now, Overripe(j),
           jobs'[j].status = "completed",
           jobs'[j].file_expires_at = jobs[j].file_expires_at,
           jobs'[j].result_file \in {jobs[j].result_file, NoJob},
           \A k \in Jobs \ {j} : jobs'[k] = jobs[k],
           files' \in {files, files \ {j}}
    PROVE  [Promise!Next]_(Promise!offerVars)
  <1>1. \A k \in Jobs \ {j} : Offered(k)' = Offered(k)
    BY OthersKeep, NoFileNoJob
  <1>2. jobs[j].result_file \in {j, NoJob} /\ NoJob \notin files /\ NoJob \notin files'
    BY NoFileNoJob DEF TypeOK
  <1>3. /\ Offered(j).until = jobs[j].file_expires_at
        /\ Offered(j).state = IF jobs[j].result_file \in files THEN "ready" ELSE "gone"
        /\ Offered(j) = [state |-> Offered(j).state, until |-> Offered(j).until]
    BY DEF Overripe, Offered, Active
  <1>4. Offered(j)' = [state |-> IF jobs'[j].result_file \in files' THEN "ready" ELSE "gone",
                       until |-> jobs[j].file_expires_at]
    BY DEF Offered, Active
  <1>5. jobs'[j].result_file \in files' => jobs[j].result_file \in files
    BY <1>2
  <1>6. Allowed(Offered(j), Offered(j)')
    BY <1>3, <1>4, <1>5 DEF Allowed, Overripe
  <1> QED
    BY <1>1, <1>6, OneMoves

\* Every step is a step of ExportPromise or changes no offer.
LEMMA PromiseStep ==
    ASSUME IInv, [Next]_vars
    PROVE  [Promise!Next]_(Promise!offerVars)
  <1> USE DEF IInv
  <1>1. ASSUME Tick
        PROVE  [Promise!Next]_(Promise!offerVars)
    <2>1. \A k \in Jobs : Offered(k)' = Offered(k)
      BY <1>1, SameOffer DEF Tick
    <2> QED
      BY <1>1, <2>1 DEF Tick, Promise!Next, Promise!Elapse
  <1>2. ASSUME NEW c \in Clients, post_check(c)
        PROVE  [Promise!Next]_(Promise!offerVars)
    BY <1>2, NoneMoves DEF post_check
  <1>3. ASSUME NEW c \in Clients, post_enqueue(c)
        PROVE  [Promise!Next]_(Promise!offerVars)
    BY <1>3, NoneMoves DEF post_enqueue
  <1>4. ASSUME NEW c \in Clients, post_enqueue_failed(c)
        PROVE  [Promise!Next]_(Promise!offerVars)
    <2>1. /\ clients[c].job \in Jobs
          /\ jobs[clients[c].job].status \in {"queued", "failed"}
      BY <1>4 DEF post_enqueue_failed, Unsent, TypeOK, Client
    <2> QED
      BY <1>4, <2>1, FailingRefuses DEF post_enqueue_failed
  <1>5. ASSUME NEW c \in Clients, post_crash(c)
        PROVE  [Promise!Next]_(Promise!offerVars)
    BY <1>5, NoneMoves DEF post_crash
  <1>6. ASSUME NEW c \in Clients, NEW j \in Jobs, post_create(c, j)
        PROVE  [Promise!Next]_(Promise!offerVars)
    <2>1. \A k \in Jobs \ {j} : Offered(k)' = Offered(k)
      BY <1>6, OthersKeep, NoFileNoJob DEF post_create, TypeOK
    <2>2. Offered(j).state = "unknown"
      BY <1>6 DEF post_create, Offered, Active
    <2>3. jobs'[j].status = "queued"
      BY <1>6 DEF post_create, NoRow, TypeOK
    <2>4. Offered(j)' = [state |-> "pending", until |-> 0]
      BY <2>3 DEF Offered, Active
    <2> QED
      BY <1>6, <2>1, <2>2, <2>4, OneMoves DEF post_create, Allowed
  <1>7. ASSUME NEW j \in Jobs, lose(j)
        PROVE  [Promise!Next]_(Promise!offerVars)
    BY <1>7, NoneMoves DEF lose
  <1>8. ASSUME NEW w \in Workers, render_failed(w)
        PROVE  [Promise!Next]_(Promise!offerVars)
    <2>1. /\ workers[w].job \in Jobs
          /\ jobs[workers[w].job].status \in {"running", "failed"}
      BY <1>8, WorkerFields DEF render_failed, Held
    <2> QED
      BY <1>8, <2>1, FailingRefuses DEF render_failed, _mark_failed
  <1>9. ASSUME NEW w \in Workers, store(w)
        PROVE  [Promise!Next]_(Promise!offerVars)
    <2>1. workers[w].job \in Jobs /\ jobs[workers[w].job].status \in {"running", "failed"}
      BY <1>9, WorkerFields DEF store, Held
    <2> QED
      BY <1>9, <2>1, UnpublishedKeeps DEF store
  <1>10. ASSUME NEW w \in Workers, publish(w)
        PROVE  [Promise!Next]_(Promise!offerVars)
    <2>1. /\ workers[w].job \in Jobs /\ workers[w].job \in files /\ now' = now
          /\ jobs[workers[w].job].status \in {"running", "failed"}
      BY <1>10, WorkerFields DEF publish, Held, Stored
    <2>2. CASE Publishable(workers[w].job)
      BY <1>10, <2>1, <2>2, PublishingFulfils DEF publish, Publishable
    <2>3. CASE ~Publishable(workers[w].job)
      BY <1>10, <2>1, <2>3, UnpublishedKeeps DEF publish, Discard, Fault
    <2> QED
      BY <2>2, <2>3
  <1>11. ASSUME NEW w \in Workers, publish_failed(w)
        PROVE  [Promise!Next]_(Promise!offerVars)
    <2>1. /\ workers[w].job \in Jobs
          /\ jobs[workers[w].job].status \in {"running", "failed"}
      BY <1>11, WorkerFields DEF publish_failed, Held
    <2> QED
      BY <1>11, <2>1, FailingRefuses DEF publish_failed, _mark_failed, Discard, Fault
  <1>12. ASSUME NEW w \in Workers, crash(w)
        PROVE  [Promise!Next]_(Promise!offerVars)
    BY <1>12, NoneMoves DEF crash
  <1>13. ASSUME NEW w \in Workers, hard_kill(w)
        PROVE  [Promise!Next]_(Promise!offerVars)
    BY <1>13, NoneMoves DEF hard_kill
  <1>14. ASSUME NEW w \in Workers, beat(w)
        PROVE  [Promise!Next]_(Promise!offerVars)
    BY <1>14, NoneMoves DEF beat
  <1>15. ASSUME NEW w \in Workers, sweep_expired(w)
        PROVE  [Promise!Next]_(Promise!offerVars)
    BY <1>15, NoneMoves DEF sweep_expired
  <1>16. ASSUME NEW w \in Workers, clear_name(w)
        PROVE  [Promise!Next]_(Promise!offerVars)
    <2> DEFINE j == workers[w].file
    <2>1. j \in Jobs /\ Overripe(j)
      BY <1>16 DEF clear_name, Sweeping, Overripe
    <2>2. jobs' = [jobs EXCEPT ![j].result_file = IF @ = j THEN NoJob ELSE @]
      BY <1>16 DEF clear_name
    <2>3. now' = now /\ files' = files
      BY <1>16 DEF clear_name
    <2> HIDE DEF j
    <2>4. /\ jobs'[j].status = jobs[j].status
          /\ jobs'[j].file_expires_at = jobs[j].file_expires_at
          /\ jobs'[j].result_file \in {jobs[j].result_file, NoJob}
          /\ \A k \in Jobs \ {j} : jobs'[k] = jobs[k]
      BY <2>1, <2>2 DEF TypeOK, ExportJob
    <2> QED
      BY <2>1, <2>3, <2>4, ErasingWithdraws DEF Overripe
  <1>17. ASSUME NEW w \in Workers, sweep_stale(w)
        PROVE  [Promise!Next]_(Promise!offerVars)
    BY <1>17, NoneMoves DEF sweep_stale
  <1>18. ASSUME NEW w \in Workers, sweep_done(w)
        PROVE  [Promise!Next]_(Promise!offerVars)
    BY <1>18, NoneMoves DEF sweep_done
  <1>19. ASSUME NEW w \in Workers, sweep_aborted(w)
        PROVE  [Promise!Next]_(Promise!offerVars)
    BY <1>19, NoneMoves DEF sweep_aborted
  <1>20. ASSUME NEW w \in Workers, NEW j \in Jobs, execute_export_job(w, j)
        PROVE  [Promise!Next]_(Promise!offerVars)
    <2>1. now' = now /\ files' = files
      BY <1>20 DEF execute_export_job
    <2>2. CASE jobs[j].status = "queued"
      <3>1. jobs' = [jobs EXCEPT ![j].status = "running", ![j].started_at = now]
        BY <1>20, <2>2 DEF execute_export_job
      <3>2. \A k \in Jobs \ {j} : Offered(k)' = Offered(k)
        BY <2>1, <3>1, OthersKeep, NoFileNoJob DEF TypeOK
      <3>3. jobs'[j].status = "running"
        BY <3>1 DEF TypeOK, ExportJob
      <3>4. Offered(j)' = Offered(j)
        BY <2>2, <3>3 DEF Offered, Active
      <3> QED
        BY <2>1, <3>2, <3>4, OneMoves DEF Allowed
    <2>3. CASE jobs[j].status # "queued"
      BY <1>20, <2>1, <2>3, NoneMoves DEF execute_export_job
    <2> QED
      BY <2>2, <2>3
  <1>21. ASSUME NEW w \in Workers, NEW j \in Jobs, erase_failed(w, j)
        PROVE  [Promise!Next]_(Promise!offerVars)
    BY <1>21, NoneMoves DEF erase_failed
  <1>22. ASSUME NEW w \in Workers, NEW j \in Jobs, erase_file(w, j)
        PROVE  [Promise!Next]_(Promise!offerVars)
    <2>1. Overripe(j)
      BY <1>22 DEF erase_file, Sweeping
    <2>2. jobs' = jobs /\ now' = now /\ files' = files \ {j}
      BY <1>22 DEF erase_file
    <2> QED
      BY <2>1, <2>2, ErasingWithdraws DEF Overripe
  <1>23. ASSUME NEW w \in Workers, NEW j \in Jobs, NEW status \in Active,
     fail_stale(w, j, status)
        PROVE  [Promise!Next]_(Promise!offerVars)
    <2>1. now' = now /\ files' = files
      BY <1>23 DEF fail_stale
    <2>2. CASE Stale(j, status, workers[w].at)
      <3>1. jobs[j].status \in {"queued", "running"}
        BY <2>2 DEF Stale, Active
      <3> QED
        BY <1>23, <2>1, <2>2, <3>1, FailingRefuses DEF fail_stale, FailIfStale, _mark_failed
    <2>3. CASE ~Stale(j, status, workers[w].at)
      BY <1>23, <2>1, <2>3, NoneMoves DEF fail_stale, FailIfStale
    <2> QED
      BY <2>2, <2>3
  <1>24. CASE UNCHANGED vars
    BY <1>24, NoneMoves DEF vars
  <1> QED
    BY <1>1, <1>2, <1>3, <1>4, <1>5, <1>6, <1>7, <1>8, <1>9, <1>10, <1>11,
       <1>12, <1>13, <1>14, <1>15, <1>16, <1>17, <1>18, <1>19, <1>20, <1>21,
       <1>22, <1>23, <1>24 DEF Next, sweep_step

\* The job rows, files, workers and sweeps implement the promise of the API:
\* an outcome is final and a completed export stays downloadable for its whole
\* retention time, whatever is killed, lost, delayed or delivered twice, and
\* whether or not the pool enforces its limits.
THEOREM PromiseKept == Spec => KeepsPromise
  <1>1. Init => Promise!Init
    BY DEF Init, Promise!Init, Promise!Offer, Offered, NoRow, Active
  <1>2. IInv /\ [Next]_vars => [Promise!Next]_(Promise!offerVars)
    BY PromiseStep
  <1>3. Spec => []IInv
    BY InvInit, InvStep, PTL DEF Spec
  <1> QED
    BY <1>1, <1>2, <1>3, PTL DEF Spec, KeepsPromise, Promise!Spec

=============================================================================
