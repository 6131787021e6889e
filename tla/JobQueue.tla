------------------------------ MODULE JobQueue ------------------------------
(***************************************************************************)
(* The job table of the SQLite library and everybody who writes to it: the *)
(* worker processes of `vpo jobs start` with their heartbeat threads, the  *)
(* processes that track their own job while they run it (`vpo process`,    *)
(* `vpo scan`, `vpo db prune`), the operator's `vpo jobs` commands, the    *)
(* approval service, and whoever deletes a film with the rows of its jobs. *)
(* Every UPDATE of the code is one committed SQL statement, so it is one   *)
(* step here; between two statements of a process any other process may    *)
(* run, die or be killed.                                                  *)
(*                                                                         *)
(* Time is counted in heartbeat intervals (HEARTBEAT_INTERVAL, 30 s).  A   *)
(* row's worker_heartbeat is kept as its age, capped one above the stale   *)
(* timeout: recover_stale_jobs compares it with nothing larger.            *)
(***************************************************************************)
EXTENDS Naturals, FiniteSets

CONSTANTS
  Jobs,                 \* rows, numbered in the order of created_at
  Workers,              \* worker processes (worker_pid)
  None,                 \* SQL NULL / Python None
  Cli,                  \* whoever tracks its own job, as a holder in JobLease
  JobType,              \* job_type of each row
  Priority,             \* priority of each row, lowest first
  StaleTimeout,         \* DEFAULT_HEARTBEAT_TIMEOUT, in intervals (300 s: 10)
  MaxHeartbeatFailures, \* MAX_HEARTBEAT_FAILURES (3)
  MaxMissed,            \* bound: failed beats in a row of one thread
  Outlive,              \* may a beat in flight outlast the join of 1 s
  MaxRetries,           \* bound: `vpo jobs retry` commands
  MaxKills              \* bound: worker processes signalled or killed

ASSUME JobsAssumption ==
  /\ Jobs \subseteq Nat
  /\ IsFiniteSet(Jobs)
  /\ JobType \in [Jobs -> {"transcode", "process", "move", "prune", "scan", "apply"}]
  /\ Priority \in [Jobs -> Nat]

ASSUME NamesAssumption ==
  /\ None \notin Jobs \union Workers \union Nat
  /\ Cli \notin Workers

ASSUME TimingAssumption ==
  /\ StaleTimeout \in Nat \ {0}
  /\ MaxHeartbeatFailures \in Nat \ {0}
  /\ MaxMissed \in Nat
  /\ Outlive \in BOOLEAN
  /\ MaxRetries \in Nat
  /\ MaxKills \in Nat

VARIABLES
  status,     \* status[j], "absent" before the insert, "deleted" after the delete
  owner,      \* owner[j]: worker_pid
  age,        \* age[j]: intervals since worker_heartbeat, None for NULL
  tracked,    \* jobs whose own process (no worker) is alive and runs them
  pc,         \* pc[w]: where run() and process_job() are
  cur,        \* cur[w]: the job process_job() executes
  thread,     \* thread[w][s]: the heartbeat thread of this job ("cur"), and
              \* the one that outlived an earlier job ("old")
  failures,   \* _consecutive_heartbeat_failures, one counter for both threads
  shutdown,   \* _shutdown_requested
  retries,    \* retries so far (bound)
  kills       \* kills so far (bound)

rows    == <<status, owner, age>>
process == <<pc, cur, thread, failures, shutdown>>
counts  == <<retries, kills>>
vars    == <<status, owner, age, tracked, pc, cur, thread, failures, shutdown,
             retries, kills>>

Terminal == {"completed", "failed", "cancelled"}
Statuses == Terminal \union {"absent", "queued", "running", "deleted"}

(* The job types process_job() dispatches; any other fails as unknown.     *)
Handled == {"transcode", "process", "move", "prune"}

(* The job types that run in the process that inserts the row.             *)
SelfRun == {"process", "scan", "prune"}

(* The job types whose row has no file_id. *)
Filmless == {"scan", "prune"}

Slots  == {"cur", "old"}
Phases == {"off", "wait", "beat"}   \* no thread, in wait(30), in update_heartbeat
Thread == [job : Jobs \union {None}, phase : Phases, missed : 0 .. MaxMissed]

NoThread  == [job |-> None, phase |-> "off", missed |-> 0]
NoThreads == [s \in Slots |-> NoThread]

PCs == {"down", "recovering", "idle", "busy", "joining"}

TypeOK ==
  /\ status \in [Jobs -> Statuses]
  /\ owner \in [Jobs -> Workers \union {None}]
  /\ age \in [Jobs -> (0 .. StaleTimeout + 1) \union {None}]
  /\ tracked \subseteq Jobs
  /\ pc \in [Workers -> PCs]
  /\ cur \in [Workers -> Jobs \union {None}]
  /\ thread \in [Workers -> [Slots -> Thread]]
  /\ failures \in [Workers -> Nat]
  /\ shutdown \in [Workers -> BOOLEAN]
  /\ retries \in 0 .. MaxRetries
  /\ kills \in 0 .. MaxKills

Init ==
  /\ status = [j \in Jobs |-> "absent"]
  /\ owner = [j \in Jobs |-> None]
  /\ age = [j \in Jobs |-> None]
  /\ tracked = {}
  /\ pc = [w \in Workers |-> "down"]
  /\ cur = [w \in Workers |-> None]
  /\ thread = [w \in Workers |-> NoThreads]
  /\ failures = [w \in Workers |-> 0]
  /\ shutdown = [w \in Workers |-> FALSE]
  /\ retries = 0
  /\ kills = 0

-----------------------------------------------------------------------------
(* The queue as claim_next_job() and recover_stale_jobs() see it.          *)

Queued == {j \in Jobs : status[j] = "queued"}

(* ORDER BY priority ASC, created_at ASC *)
Ahead(j, k) ==
  \/ Priority[j] < Priority[k]
  \/ Priority[j] = Priority[k] /\ j <= k

First(j) == j \in Queued /\ \A k \in Queued : Ahead(j, k)

(* Faulty: <= for <, a heartbeat exactly as old as the timeout is stale.   *)
StaleAtTimeout ==
  {j \in Jobs : status[j] = "running" /\ age[j] # None /\ age[j] >= StaleTimeout}

(* status = 'running' AND worker_heartbeat < cutoff: NULL is never smaller. *)
Stale == {j \in Jobs : status[j] = "running" /\ age[j] # None /\ age[j] > StaleTimeout}

(* recover_stale_jobs(): one UPDATE. *)
RecoverStale ==
  /\ status' = [j \in Jobs |-> IF j \in Stale THEN "queued" ELSE status[j]]
  /\ owner' = [j \in Jobs |-> IF j \in Stale THEN None ELSE owner[j]]
  /\ age' = [j \in Jobs |-> IF j \in Stale THEN None ELSE age[j]]

(* delete_old_jobs(): every settled row created before the cutoff. *)
Purge(cutoff) ==
  status' = [j \in Jobs |->
               IF j <= cutoff /\ status[j] \in Terminal THEN "deleted" ELSE status[j]]

-----------------------------------------------------------------------------
(* The worker process: run(), process_job().                               *)

(* `vpo jobs start`: a new JobWorker; run() purges first, if auto_purge.   *)
StartWorker(w) ==
  /\ pc[w] = "down"
  /\ pc' = [pc EXCEPT ![w] = "recovering"]
  /\ shutdown' = [shutdown EXCEPT ![w] = FALSE]
  /\ failures' = [failures EXCEPT ![w] = 0]
  /\ (\E cutoff \in Jobs : Purge(cutoff)) \/ UNCHANGED status
  /\ UNCHANGED <<owner, age, tracked, cur, thread, counts>>

RecoverAtStart(w) ==
  /\ pc[w] = "recovering"
  /\ pc' = [pc EXCEPT ![w] = "idle"]
  /\ RecoverStale
  /\ UNCHANGED <<tracked, cur, thread, failures, shutdown, counts>>

(* Faulty: the claim leaves worker_heartbeat to the first beat, NULL until  *)
(* then.                                                                   *)
ClaimWithoutHeartbeat(w) ==
  /\ pc[w] = "idle"
  /\ ~shutdown[w]
  /\ \E j \in Queued :
       /\ First(j)
       /\ status' = [status EXCEPT ![j] = "running"]
       /\ owner' = [owner EXCEPT ![j] = w]
       /\ cur' = [cur EXCEPT ![w] = j]
       /\ thread' = [thread EXCEPT ![w]["cur"] =
                       [job |-> j, phase |-> "wait", missed |-> 0]]
  /\ failures' = [failures EXCEPT ![w] = 0]
  /\ pc' = [pc EXCEPT ![w] = "busy"]
  /\ UNCHANGED <<age, tracked, shutdown, counts>>

(* claim_next_job() under BEGIN IMMEDIATE, then _start_heartbeat(): the     *)
(* stop event is cleared, for a thread that outlived its job as well.      *)
Claim(w) ==
  /\ pc[w] = "idle"
  /\ ~shutdown[w]
  /\ \E j \in Queued :
       /\ First(j)
       /\ status' = [status EXCEPT ![j] = "running"]
       /\ owner' = [owner EXCEPT ![j] = w]
       /\ age' = [age EXCEPT ![j] = 0]
       /\ cur' = [cur EXCEPT ![w] = j]
       /\ thread' = [thread EXCEPT ![w]["cur"] =
                       [job |-> j, phase |-> "wait", missed |-> 0]]
  /\ failures' = [failures EXCEPT ![w] = 0]
  /\ pc' = [pc EXCEPT ![w] = "busy"]
  /\ UNCHANGED <<tracked, shutdown, counts>>

(* run() returns: nothing is queued, the claim met a locked database, or   *)
(* _should_continue() is false (shutdown, max_files, max_duration, end_by). *)
(* The process ends and its daemon threads end with it.                    *)
Leave(w) ==
  /\ pc[w] = "idle"
  /\ pc' = [pc EXCEPT ![w] = "down"]
  /\ thread' = [thread EXCEPT ![w] = NoThreads]
  /\ UNCHANGED <<rows, tracked, cur, failures, shutdown, counts>>

(* The job is done or has raised: release_job(), an UPDATE by id alone;    *)
(* then _stop_heartbeat() sets the event, and threads in wait(30) return.  *)
Release(w, outcome) ==
  LET j == cur[w] IN
  /\ pc[w] = "busy"
  /\ outcome = "completed" => JobType[j] \in Handled
  /\ IF status[j] = "deleted"
       THEN UNCHANGED rows
       ELSE /\ status' = [status EXCEPT ![j] = outcome]
            /\ owner' = [owner EXCEPT ![j] = None]
            /\ age' = [age EXCEPT ![j] = None]
  /\ thread' = [thread EXCEPT ![w] =
                  [s \in Slots |-> IF @[s].phase = "wait" THEN NoThread ELSE @[s]]]
  /\ cur' = [cur EXCEPT ![w] = None]
  /\ pc' = [pc EXCEPT ![w] = "joining"]
  /\ UNCHANGED <<tracked, failures, shutdown, counts>>

(* join(timeout=1.0) returns, with the thread gone or still in its beat.   *)
(* Bound: a worker keeps at most one thread of an earlier job.             *)
EndJoin(w) ==
  /\ pc[w] = "joining"
  /\ pc' = [pc EXCEPT ![w] = "idle"]
  /\ \/ thread[w]["cur"].phase = "off" /\ UNCHANGED thread
     \/ /\ Outlive
        /\ thread[w]["cur"].phase # "off"
        /\ thread[w]["old"].phase = "off"
        /\ thread' = [thread EXCEPT ![w]["old"] = thread[w]["cur"],
                                    ![w]["cur"] = NoThread]
  /\ UNCHANGED <<rows, tracked, cur, failures, shutdown, counts>>

(* SIGTERM or SIGINT: read by _should_continue(), between two jobs.        *)
Signal(w) ==
  /\ pc[w] # "down"
  /\ kills < MaxKills
  /\ kills' = kills + 1
  /\ shutdown' = [shutdown EXCEPT ![w] = TRUE]
  /\ UNCHANGED <<rows, tracked, pc, cur, thread, failures, retries>>

(* SIGKILL, power loss, or release_job() raising twice: the row stays.     *)
Die(w) ==
  /\ pc[w] # "down"
  /\ kills < MaxKills
  /\ kills' = kills + 1
  /\ pc' = [pc EXCEPT ![w] = "down"]
  /\ cur' = [cur EXCEPT ![w] = None]
  /\ thread' = [thread EXCEPT ![w] = NoThreads]
  /\ UNCHANGED <<rows, tracked, failures, shutdown, retries>>

-----------------------------------------------------------------------------
(* The heartbeat threads.                                                  *)

(* The event is set from _stop_heartbeat() to the next _start_heartbeat(). *)
StopSet(w) == pc[w] # "busy"

(* The end of a beat: back to wait(30), which returns at once on a set     *)
(* event.                                                                  *)
AfterBeat(w, s, missed) ==
  IF StopSet(w) THEN NoThread
  ELSE [thread[w][s] EXCEPT !.phase = "wait", !.missed = missed]

(* update_heartbeat() commits: WHERE id = ? AND status = 'running', whoever *)
(* claimed the row, and the thread does not look at its result.            *)
BeatOk(w, s) ==
  LET j == thread[w][s].job IN
  /\ thread[w][s].phase = "beat"
  /\ IF status[j] = "running"
       THEN /\ age' = [age EXCEPT ![j] = 0]
            /\ owner' = [owner EXCEPT ![j] = w]
       ELSE UNCHANGED <<age, owner>>
  /\ failures' = [failures EXCEPT ![w] = 0]
  /\ thread' = [thread EXCEPT ![w][s] = AfterBeat(w, s, 0)]
  /\ UNCHANGED <<status, tracked, pc, cur, shutdown, counts>>

(* The beat raises ("database is locked"): the shared counter grows and at *)
(* MAX_HEARTBEAT_FAILURES the thread requests shutdown and ends.           *)
BeatFails(w, s) ==
  LET missed == thread[w][s].missed + 1
      last   == failures[w] + 1 >= MaxHeartbeatFailures
  IN
  /\ thread[w][s].phase = "beat"
  /\ missed <= MaxMissed
  /\ failures' = [failures EXCEPT ![w] = @ + 1]
  /\ shutdown' = [shutdown EXCEPT ![w] = @ \/ last]
  /\ thread' = [thread EXCEPT ![w][s] =
                  IF last THEN NoThread ELSE AfterBeat(w, s, missed)]
  /\ UNCHANGED <<rows, tracked, pc, cur, counts>>

(* One HEARTBEAT_INTERVAL passes.  wait(30) of every thread times out; a   *)
(* beat takes less than an interval (busy_timeout is 10 s).                *)
Tick ==
  /\ \A w \in Workers, s \in Slots : thread[w][s].phase # "beat"
  /\ thread' = [w \in Workers |-> [s \in Slots |->
                  IF thread[w][s].phase = "wait"
                    THEN [thread[w][s] EXCEPT !.phase = "beat"]
                    ELSE thread[w][s]]]
  /\ age' = [j \in Jobs |->
               IF age[j] = None \/ age[j] > StaleTimeout THEN age[j] ELSE age[j] + 1]
  /\ UNCHANGED <<status, owner, tracked, pc, cur, failures, shutdown, counts>>

-----------------------------------------------------------------------------
(* Everybody else.                                                         *)

(* insert_job() stamps created_at with now. *)
Newest(j) == status[j] = "absent" /\ \A k \in Jobs : k < j => status[k] # "absent"

(* approve() inserts an APPLY job, queued. *)
Enqueue(j) ==
  /\ Newest(j)
  /\ JobType[j] = "apply"
  /\ status' = [status EXCEPT ![j] = "queued"]
  /\ UNCHANGED <<owner, age, tracked, process, counts>>

(* Faulty: the row carries the pid of the process that tracks it.          *)
TrackStartWithPid(j) ==
  /\ Newest(j)
  /\ JobType[j] \in SelfRun
  /\ status' = [status EXCEPT ![j] = "running"]
  /\ owner' = [owner EXCEPT ![j] = Cli]
  /\ tracked' = tracked \union {j}
  /\ UNCHANGED <<age, process, counts>>

(* create_process_job() and its siblings insert the row already running,   *)
(* without pid or heartbeat.                                               *)
TrackStart(j) ==
  /\ Newest(j)
  /\ JobType[j] \in SelfRun
  /\ status' = [status EXCEPT ![j] = "running"]
  /\ tracked' = tracked \union {j}
  /\ UNCHANGED <<owner, age, process, counts>>

(* _update_job_status(): by id alone, pid and heartbeat left as they are;  *)
(* JobNotFoundError if the row is gone.  Only a scan interrupted by the    *)
(* user is recorded as cancelled.                                          *)
TrackEnd(j, outcome) ==
  /\ j \in tracked
  /\ outcome = "cancelled" => JobType[j] = "scan"
  /\ tracked' = tracked \ {j}
  /\ status' = [status EXCEPT ![j] = IF @ = "deleted" THEN @ ELSE outcome]
  /\ UNCHANGED <<owner, age, process, counts>>

(* The tracking process dies, or fail_job_with_retry() gives up.           *)
TrackLost(j) ==
  /\ j \in tracked
  /\ tracked' = tracked \ {j}
  /\ UNCHANGED <<rows, process, counts>>

(* `vpo jobs recover` *)
OperatorRecover ==
  /\ RecoverStale
  /\ UNCHANGED <<tracked, process, counts>>

(* Faulty: a running job can be cancelled under its holder.                *)
CancelRunning(j) ==
  /\ status[j] \in {"queued", "running"}
  /\ status' = [status EXCEPT ![j] = "cancelled"]
  /\ UNCHANGED <<owner, age, tracked, process, counts>>

(* `vpo jobs cancel` *)
Cancel(j) ==
  /\ status[j] = "queued"
  /\ status' = [status EXCEPT ![j] = "cancelled"]
  /\ UNCHANGED <<owner, age, tracked, process, counts>>

(* `vpo jobs retry` *)
Requeue(j) ==
  /\ status[j] \in {"failed", "cancelled"}
  /\ retries < MaxRetries
  /\ retries' = retries + 1
  /\ status' = [status EXCEPT ![j] = "queued"]
  /\ owner' = [owner EXCEPT ![j] = None]
  /\ age' = [age EXCEPT ![j] = None]
  /\ UNCHANGED <<tracked, process, kills>>

(* A prune or `vpo scan --prune` deletes films, and jobs.file_id is ON      *)
(* DELETE CASCADE: their jobs go, whatever their status and whoever        *)
(* executes them.  Which jobs are of which film is left open.              *)
DeleteFilms(S) ==
  /\ \A j \in S : JobType[j] \notin Filmless /\ status[j] \notin {"absent", "deleted"}
  /\ status' = [j \in Jobs |-> IF j \in S THEN "deleted" ELSE status[j]]
  /\ owner' = [j \in Jobs |-> IF j \in S THEN None ELSE owner[j]]
  /\ age' = [j \in Jobs |-> IF j \in S THEN None ELSE age[j]]
  /\ UNCHANGED <<tracked, process, counts>>

WorkerStep(w) ==
  \/ StartWorker(w) \/ RecoverAtStart(w) \/ Claim(w) \/ Leave(w) \/ EndJoin(w)
  \/ \E outcome \in {"completed", "failed"} : Release(w, outcome)
  \/ Signal(w) \/ Die(w)

ThreadStep(w) == \E s \in Slots : BeatOk(w, s) \/ BeatFails(w, s)

OtherStep ==
  \/ \E j \in Jobs : Enqueue(j) \/ TrackStart(j) \/ TrackLost(j) \/ Cancel(j) \/ Requeue(j)
  \/ \E j \in Jobs, outcome \in Terminal : TrackEnd(j, outcome)
  \/ \E S \in SUBSET Jobs : DeleteFilms(S)
  \/ OperatorRecover

Next ==
  \/ \E w \in Workers : WorkerStep(w) \/ ThreadStep(w)
  \/ OtherStep
  \/ Tick

Spec == Init /\ [][Next]_vars

-----------------------------------------------------------------------------
(* Safety.                                                                 *)

(* No two processes execute the same job: while a worker is in             *)
(* process_job(), its row says "running", unless it went with its film, so *)
(* that nobody else can claim it, and no other worker and no tracking      *)
(* process has it.  claim_next_job() and recover_stale_jobs() together     *)
(* have to keep this across deaths, missed beats, retries and prunes.      *)
Exclusive ==
  \A w \in Workers : pc[w] = "busy" =>
    /\ status[cur[w]] \in {"running", "deleted"}
    /\ cur[w] \notin tracked
    /\ \A v \in Workers : cur[v] = cur[w] => v = w

(* "preventing duplicate job execution", word for word: no job is inside   *)
(* process_job() of two workers.                                           *)
NoDuplicateExecution ==
  \A v, w \in Workers : cur[v] = cur[w] /\ cur[v] # None => v = w

(* A row that is not running carries no pid and no heartbeat, whatever a   *)
(* late beat does: else a queued job would look claimed, and a claimed one *)
(* would inherit the age of an earlier claim.                              *)
UnheldRowsAreClear ==
  \A j \in Jobs : status[j] # "running" => owner[j] = None /\ age[j] = None

(* A completed job is never run, failed or queued again: late releases and *)
(* retries may not resurrect it, only a purge or a prune removes it.       *)
CompletedIsFinal ==
  [][\A j \in Jobs : status[j] = "completed" => status'[j] \in {"completed", "deleted"}]_vars

(* The table keeps the promise of JobLease: only the one holder settles a  *)
(* job, it is queued again only after its holder is gone, and a deleted    *)
(* row stays deleted, whatever its holder records.                         *)
HoldersOf(j) ==
  {w \in Workers : cur[w] = j} \union (IF j \in tracked THEN {Cli} ELSE {})

Lease == INSTANCE JobLease WITH
  Holders <- Workers \union {Cli},
  state   <- status,
  holders <- [j \in Jobs |-> HoldersOf(j)]

LeaseSpec == Lease!Spec

-----------------------------------------------------------------------------
(* Why Exclusive holds, as an inductive invariant.                         *)

(* The heartbeats are good enough: the failed beats a worker can see in a  *)
(* row, of both its threads, stay below MAX_HEARTBEAT_FAILURES, and those  *)
(* of one thread below the stale timeout.                                  *)
Tolerant ==
  /\ (IF Outlive THEN MaxMissed + MaxMissed ELSE MaxMissed) < MaxHeartbeatFailures
  /\ MaxMissed < StaleTimeout

(* A tracked row is running, if it is still there, and has no heartbeat. *)
TrackedRows ==
  \A j \in tracked :
    status[j] \in {"running", "deleted"} /\ owner[j] = None /\ age[j] = None

(* A thread beats for a job that some worker has claimed. *)
ThreadJobs ==
  \A w \in Workers, s \in Slots :
    IF thread[w][s].phase = "off"
      THEN thread[w][s] = NoThread
      ELSE /\ thread[w][s].job \in Jobs \ tracked
           /\ status[thread[w][s].job] # "absent"

OldOnlyIfOutlive ==
  \A w \in Workers : ~Outlive => thread[w]["old"].phase = "off"

(* A worker in process_job() has a live thread, and the age of its row, if *)
(* it is still there, is accounted for by the beats that thread missed.    *)
BusyIsBeating ==
  \A w \in Workers : pc[w] = "busy" =>
    LET t == thread[w]["cur"] IN
    /\ t.phase # "off"
    /\ t.job = cur[w]
    /\ status[cur[w]] = "running" =>
         age[cur[w]] \in 0 .. (t.missed + IF t.phase = "beat" THEN 1 ELSE 0)
    /\ failures[w] <= t.missed + thread[w]["old"].missed

IdleHasNoJob ==
  \A w \in Workers : IF pc[w] = "busy" THEN cur[w] \in Jobs ELSE cur[w] = None

IInv ==
  /\ TypeOK
  /\ UnheldRowsAreClear
  /\ TrackedRows
  /\ ThreadJobs
  /\ OldOnlyIfOutlive
  /\ BusyIsBeating
  /\ IdleHasNoJob
  /\ Exclusive

-----------------------------------------------------------------------------
(* Liveness.                                                               *)

(* `vpo jobs start` is run again and again (docs/usage/jobs.md, cron); a   *)
(* process the operating system runs takes its next step; a job ends; a    *)
(* beat ends; time passes; the database is not locked at every claim.      *)
Fairness ==
  /\ WF_vars(Tick)
  /\ \A w \in Workers :
       /\ WF_vars(StartWorker(w))
       /\ WF_vars(RecoverAtStart(w))
       /\ SF_vars(Claim(w))
       /\ WF_vars(Leave(w))
       /\ WF_vars(\E outcome \in {"completed", "failed"} : Release(w, outcome))
       /\ WF_vars(EndJoin(w))
       /\ WF_vars(ThreadStep(w))

FairSpec == Spec /\ Fairness

(* Every queued job is worked off in the end, or cancelled, even when the  *)
(* worker that claimed it dies: the next worker takes it back.             *)
QueuedJobsSettle ==
  \A j \in Jobs : status[j] = "queued" ~> status[j] \in Terminal \union {"deleted"}

=============================================================================
