# Video Policy Orchestrator: a TLA+ verification project

The Video Policy Orchestrator (VPO) keeps a library of video files in one
SQLite database, evaluates user-written policies against the tracks of each
file, and rewrites the files with `mkvmerge`, `mkvpropedit` and `ffmpeg`.
Several processes share the database and the files: `vpo process`, `vpo scan`
and `vpo db prune` run in the foreground, `vpo jobs start` runs workers on a
queue, `vpo serve` is a daemon with an HTTP API and background tasks.

This directory specifies the parts of it that are hard to test. All paths below
are relative to `src/src/vpo/` unless they start with another directory.

## 1. Inventory

| Component | State it keeps | Operations | Interacts with |
|---|---|---|---|
| Job queue (`jobs/queue.py`, `jobs/maintenance.py`, `db/queries/jobs.py`) | rows of table `jobs`: status, priority, created_at, worker_pid, worker_heartbeat | claim, release, heartbeat, recover, cancel, requeue, purge | every process, through committed SQL statements |
| Worker (`jobs/worker.py`) | current job, shutdown flag, heartbeat thread, stop event, failure counter | run, process_job, start/stop heartbeat, signal handler | queue, services, workflow |
| Job tracking (`jobs/tracking.py`, `jobs/cli_lifecycle.py`, `jobs/runner.py`) | rows inserted already running | create, complete, cancel, fail, fail with retry | queue (same rows), CLI, auto-prune |
| Job services (`jobs/services/`) | plans table, files on disk | process, transcode, move, prune, approve, reject | worker, API |
| Connections (`db/connection.py`) | one shared write connection and its lock; one connection per worker | transaction, execute_write, read, retry with backoff | daemon handlers, auto-prune, progress |
| Phase execution (`workflow/phases/executor/`) | modified flag, backup, database row of the file, uncommitted path change | execute_phase, one handler per operation, rollback | evaluator, executors, database |
| Workflow (`workflow/processor.py`, `multi_policy.py`, `skip_conditions.py`) | outcome of each phase, file_info snapshot | process_file, run_if, depends_on, skip_when, re-introspect, statistics | phase execution, database |
| Executors (`executor/`) | file, `<file>.vpo-backup`, temporary output | execute, rollback, backup, restore, file_lock | external tools |
| Policy evaluation (`policy/evaluator/`, `matchers.py`, `conditions.py`) | none (pure) | classify, order, default flags, dispositions, fallbacks, container | phase execution, plans |
| Scanner (`scanner/`, `introspector/`) | files and tracks tables, scan_status | scan, mark missing, rescan, prune | vpo-core, database |
| Daemon (`server/lifecycle.py`, `signals.py`, `app.py`, `cleanup.py`) | shutdown state, tasks | start, shutdown, reload | pool, tasks, limiter |
| Background tasks (`server/auto_prune.py`, `server/maintenance.py`) | last run, health, stop event | run, stop | pool |
| Rate limiter (`server/rate_limit.py`) | deque of timestamps per address and kind | check, reconfigure, cleanup | middleware, reload |
| API and UI (`server/api/`, `server/ui/`) | none of its own | request handlers | pool, services |
| CLI (`cli/`) | none of its own | commands | everything above |
| Plugins (`plugin/`, `plugins/`) | registry, subscriptions | load, dispatch | scanner, workflow |
| Transcription, language analysis, classification | cached results per track | sample, aggregate, classify | plugins, evaluator |
| Policy loading, expressions, editing (`policy/`, `server/api/policies.py`) | policy files, summaries by mtime | parse, validate, convert, list, create, save | CLI, UI |
| Views, statistics, reports (`db/views/`, `workflow/stats_capture.py`, `reports/`) | processing statistics | list, page, sum, record, purge | API, CLI, every writer of the database |
| Configuration, tools, metadata, logging, vpo-core | caches, files | load, detect, format, hash | everything |

### What makes each part hard, and what makes it correct

* **Queue and workers.** Any number of processes with threads of their own;
  processes die between any two statements; time-outs race with late beats.
  Correct when no job is executed twice, no job is lost, a settled row is not
  disturbed by a late statement, and a completed job stays completed.
* **Connections.** One connection shared by threads; transactions opened
  implicitly by Python's `sqlite3`; a second connection of the same process
  waiting for the first. Correct when a transaction contains the statements of
  one caller and no process waits for itself.
* **Phases and executors.** Several operations rewrite one file, each from a plan
  computed from the same snapshot; each may fail or be killed. Correct when an
  intact copy of the file exists at every moment, disk and database agree on the
  path after every phase, and the outcome is the one the policy describes.
* **Workflow.** Phases depend on each other's outcomes; errors stop, skip or
  continue. Correct when a phase runs only if what it depends on did what it asks.
* **Policy evaluation.** Pure, but composed of rules that undo each other's
  assumptions. Correct when a plan is minimal (a second evaluation is empty),
  never removes every audio track, and sets one default per type.
* **Policy files.** A page, a user and the list read and write one file without a lock;
  what is validated is not what is written. Correct when no change is overwritten
  unseen and what is saved can be loaded and means the same.
* **Scanner, approval, limiter, reload.** Two requests or two processes on one
  row; windows and counters at their limits.

`PROJECT.json` lists the hazards with the line where each bites, and the
properties that cover them.

## 2. Modules

| Module | Models | Section |
|---|---|---|
| `JobLease`, `JobQueue` | the abstract promise of the job table; queue, workers, heartbeats, trackers, operator, prunes | 3 |
| `PhaseExecution` | one film under a policy: phases, operations, executors, backups, the row | 4 |
| `TrackPolicy`, `ConditionalRules`, `Reencoding` | operators: what a policy decides about tracks, rules and conditions, synthesis and transcoding | 5 |
| `PolicyPlan` | a phase applied to a file, operation by operation, and then again | 5 |
| `PhaseGates`, `BatchRun` | conditions and error modes of phases; `vpo process` over a batch of files and policies | 6 |
| `Library` | the database and all that write it: scans, workflows, prunes, plan approval | 7 |
| `RateLimiter`, `Daemon` | the sliding window; `vpo serve` from start to exit | 8 |
| `Schema`, `LibraryUpgrade` | operators: the schema and its 26 migrations; the processes that open and upgrade a library | 9 |
| `AnalysisCache` | what the library knows of the sound of a film, and who reads, writes and invalidates it | 10 |
| `LibraryBackup` | `vpo db backup` and `restore`, and what SQLite makes of the files under whoever has them open | 11 |
| `Expressions`, `PolicyDocument`, `PolicyConversion` | operators: conditions as text, the rules a policy is validated by, what it is converted to | 12 |
| `PolicyFiles` | one policy file: the pages of the editor, its creation, the list, a user, a daemon that dies | 12 |
| `LibraryViews`, `ProcessingStats`, `Reports`, `ReportCommands` | operators: what the views, statistics and reports answer, and who asks for them | 13 |
| `LibraryPages` | lists turned page by page, runs that record statistics, purges, and the writes between them | 13 |
| `DatabaseProofs`, `PhaseExecutionProofs`, `DaemonProofs`, `BatchRunProofs`, `LibraryProofs`, `AnalysisCacheProofs`, `LibraryUpgradeProofs`, `LibraryUpgradeEnds` | theorems | 15 |
| `MC...` | instances for TLC | |

How they compose: `PolicyPlan` extends `Reencoding`, that `ConditionalRules`, that
`TrackPolicy`; `BatchRun` extends `PhaseGates`; `Daemon` extends `RateLimiter`; `PolicyFiles` extends
`PolicyConversion`, that `PolicyDocument`, that `Expressions`; `LibraryPages` extends
`ReportCommands`, that `Reports`, that `ProcessingStats`, that `LibraryViews`.
`DatabaseProofs` extends `JobQueue`, `LibraryBackup` and `LibraryPages`, which share no variable; each other module of
theorems extends the module it is about, `LibraryUpgradeEnds` through `LibraryUpgradeProofs`.
`PhaseExecution`, `PolicyPlan` and `BatchRun` are three views of one phase: how it
treats the disk, what it does to the tracks, and what the phases, policies and files
around it make of its outcome; `AnalysisCache` is a fourth, of the verdicts it evaluates with. `JobQueue`, `BatchRun`, `Library` and `Daemon` meet in the
`jobs` table: `JobQueue` has the rows of the workers, `BatchRun` the rows of one
`vpo process`, `Library` those an approval inserts, `Daemon` that of an auto-prune.

Not done, in the order in which it is worth doing: two processes that run phases on one film; the worker's
connection with the progress updates that leave a transaction open.

## 3. JobQueue

### State and actions

A row is `status[j]`, `owner[j]` (worker_pid) and `age[j]`: how many heartbeat
intervals ago worker_heartbeat was written, `None` for NULL. Jobs are numbered in
the order of `created_at`. A worker process `w` is `pc[w]` (where `run()` is),
`cur[w]` (the job inside `process_job()`), its heartbeat threads, the failure
counter both threads share and the shutdown flag. `tracked` holds the jobs that
run in the process that inserted them.

| Action | Code |
|---|---|
| `StartWorker`, `RecoverAtStart` | `vpo jobs start`; `run()`: purge, then `recover_stale_jobs()` |
| `Claim` | `claim_next_job()` (one transaction) and `_start_heartbeat()` |
| `Release` | end of `process_job()`: `release_job()`, then the stop event is set |
| `EndJoin` | `_stop_heartbeat()`: `join(timeout=1.0)` returns, with or without the thread |
| `Leave` | `run()` returns: queue empty, limit reached, shutdown requested |
| `Signal`, `Die` | SIGTERM/SIGINT; SIGKILL or a crash |
| `Tick` | one `HEARTBEAT_INTERVAL` passes; waiting threads enter `update_heartbeat()` |
| `BeatOk`, `BeatFails` | the beat commits, or raises |
| `TrackStart`, `TrackEnd`, `TrackLost` | `tracking.py`: insert running, settle, or die without settling |
| `Enqueue` | `approve()` inserts an APPLY job |
| `Cancel`, `Requeue`, `OperatorRecover` | `vpo jobs cancel`, `retry`, `recover` |
| `DeleteFilms` | `delete_file()` of a prune or of `vpo scan --prune`: `jobs.file_id` is `ON DELETE CASCADE`, so the rows of the film's jobs go, queued and running ones too |

Each UPDATE of the code is committed on its own, so it is one action; everything
else a process does between two statements is invisible to the others. The order of
claims is the code's (`priority`, then `created_at`). The operators marked `Faulty`
are not part of the specification: each is a plausible bug in the action it
precedes, used to see that a property notices it.

### Abstractions

The result columns of a row (output path, error, summary, progress) are left out: no
property reads them and no guard of the code does. A purge may take any prefix of
the rows in the order of creation: the retention period is not tied to the clock of
the heartbeats. A worker keeps at most one heartbeat thread of an earlier job: an
older one would have to hang in `update_heartbeat()` for more than an interval. A
beat takes less than one interval (`busy_timeout` is 10 s, the interval 30 s). Which
jobs belong to one film, and whether it is missing from the disk, is left open:
`DeleteFilms` takes any set of rows that have a film, scans and prunes having none.

A row deleted under a worker stays deleted: `release_job()` and `update_heartbeat()`
match no row, and the tracking process meets `JobNotFoundError`. The worker goes on with
the film it was given. So `Exclusive` says of the row of a job in execution that it is
"running" or "deleted", and `JobLease` may `Forget` a row at any time and lets its holder
`Abandon` it.

### Runs

| Run | Checks | Instance |
|---|---|---|
| `jobqueue_safety` | `TypeOK`, `Exclusive`, `LeaseSpec`, `QueuedJobsSettle` | 2 workers, 2 jobs, stale after 2 intervals, 1 missed beat per thread, 3 deaths or signals, 1 retry, threads that outlive their job, films deleted at any time |

Two jobs are enough for a worker to hold one while the other is retried, cancelled
or claimed, and of the two sources of rows (inserted queued, inserted running) there
is one each; with two workers one can be dead or late while the other takes its job.
The workers are not declared interchangeable: symmetry is unsound where liveness is checked.
`StaleTimeout` is scaled down from 10 to 2: what matters is its relation to the beats
that may be missed, and that relation is the assumption of the theorems.

`QueuedJobsSettle` holds only under `FairSpec`: time passes; a process that can take
its next step takes it; a job ends; a beat ends; workers are started again and again
(`docs/usage/jobs.md` runs `vpo jobs start` from cron); and a worker that finds the
queue non-empty infinitely often is not locked out at every claim (strong fairness
of `Claim`, since `Leave` competes with it: the code leaves when the claim meets a
locked database or a limit is reached). Operators, signals and deaths are not fair.
The bounds on deaths and retries matter here: with deaths without end a job could be
claimed and lost for ever.

### Where the code contradicts its comments

* The comment of `_start_heartbeat()` says that the shutdown after three failed beats
  prevents duplicate execution. It does not stop the job in `process_job()`: with the
  constants of the code (stale after 10 intervals) that job goes on without beats, is
  taken back, and a second worker runs it at the same time. The theorem `NoDuplicate`
  says what is needed instead: fewer missed beats than the limit.
* `recover_stale_jobs()` promises to reset running jobs with no
  heartbeat within the timeout. Rows inserted by `tracking.py` have a NULL heartbeat
  and never match (`TrackLost` leaves them running for good); `cleanup_orphaned_cli_jobs()`,
  written for them, is not called.

## 4. PhaseExecution

### State and actions

One film has two names, `src` (film.avi) and `dst` (film.mkv), since a conversion
renames it; a change between other containers is the same with other letters.
`file[n]` and `backup[n]` are what is stored under the name and under its
`.vpo-backup`: a version of the film (a number; each operation that succeeds makes
the next one), `Torn` (a part of one), `Other` (another film) or `Absent`. `temp` is
the temporary output. `row` is `files.path` as committed, `pending` as the process's
own open transaction has it, `tracks` the version the tracks table describes. The
process is at `pc`, in phase `ph` and operation `op` of its `policy`; `path` is the
`file_path` of `process_file()`, `cur` that of `PhaseExecutionState`, `known` the
version `file_info` describes. `before`, `input` and `events` are for the properties.

| Action | Code |
|---|---|
| `StartFile`, `SkipPhase`, `LastPhaseDone` | `process_file()`: start, conditions of a phase, end of the loop |
| `BeginBackup`, `EndBackup`, `BackupFails` | `execute_phase()`: `create_backup()`, an interruptible copy |
| `OpNothing`, `OpRefused` | `execute_with_plan()`: empty plan or constraint; no executor, no space, an exception |
| `OpBackup`, `OpBackupEnds`, `OpGivesUp` | the executor's own `create_backup()`, under the same name |
| `RunTool`, `ToolSucceeds`, `ToolFails` | mkvpropedit in place; mkvmerge and ffmpeg into a temporary output |
| `Replace`, `DropOriginal`, `DropBackup`, `UnlinkFails` | `temp_path.replace(output_path)` and the unlinks after it |
| `Move`, `MoveEnds`, `MoveFails` | `shutil.move()` of the transcode executor |
| `RestoreUnlinks`, `RestoreMoves`, `RestoreFails` | `safe_restore_from_backup()` |
| `OpSucceeds`, `PathRefused` | counting the operation; `_handle_path_change()` |
| `OpFails`, `LastOpDone`, `Cleanup` | error mode of the operation, `cleanup_backup()` |
| `EndPhase`, `Aborts` | commit of a new path, or the exception of a locked database |
| `Introspect`, `IntrospectFails`, `PhaseFails` | `_re_introspect()`; error mode of the phase |
| `Persist`, `PersistFails` | `StatsCollector.persist()`, which commits or rolls back whatever is open |
| `Killed` | SIGKILL, a power cut or Ctrl+C between any two steps |

The four kinds of operation are the four ways the executors treat the disk:
`edit` (mkvpropedit), `remux` (mkvmerge, ffmpeg, and the audio-only transcode),
`convert` (the same with a new container) and `transcode` (no backup of its own).
The operators marked `Faulty` are plausible bugs, as in `JobQueue`.

### Abstractions

What a plan does to the tracks is left out: it is the subject of `PolicyPlan`. So are
operations that do not rewrite the film (timestamps, transcription), audio synthesis
(which keeps a backup file of its own), dry runs, and two-pass and hardware
fallback, which repeat `RunTool`. Whether a phase is skipped is free (`SkipPhase`).
The audio-only transcode restores its input also when the unlink of its backup
raises; the model ends that as a failed operation on a changed film. After `Aborts`
the connection may stay open with the update; the model lets the update be committed
or dropped at once. Two processes on one film are not modelled.

### Runs

| Run | Checks | Instance |
|---|---|---|
| `phase_safety` | `TypeOK`, `IntactUnlessExposed`, `OperationAtomic`, `FreshTracks`, `PathFollowsFile` | 21 policies of one or two phases with two operations each, all error modes, two runs, temporary directory elsewhere |

Two operations in a phase are enough for the second to find the backup of the phase
replaced by the first and to fail after a rename; two phases for one to start from
what the other left; two runs for one to start on what a kill left. The policies put
each kind after the ones that change its name or its content. `CHECK_DEADLOCK` is
off: when the runs are used up or the film has left the path of its row, nothing more
happens. The model makes no fairness assumption: its properties are safety.

`PathFollowsFile` joins two statements, that a committed path names the place of the film
(`CommitFollowsFile`) and that after a run the row does (`RowFollowsFile`).

`IntactUnlessExposed` says that a complete version of the film exists at every step
until one of three events, each of which alone can lose it: a run starts on a damaged
film and copies it over the good backup; a backup cannot be moved back; a move between
two file systems is cut short. The other properties name, in the same way, the
failures they do not survive: an interrupted run, a failed statement (`dbError`), an
unlink that raises (`unlinkFailed`), and for the tracks a failed phase.

### What the code does, as modelled

A conversion replaces whatever is stored under the new name; the database is asked
afterwards, and refuses the path when the other film is gone already (`PathRefused`, with
`Occupied`).

FR-015 of `specs/037-user-defined-phases/spec.md` promises a rollback of the phase when
an operation fails. The code raises the error again without one (`OpFails`), and the
backup of the phase is gone by then: the executors use the same name.

What `IntactUnlessExposed` excepts under a temporary directory on another file system is
real: the move has truncated the original, the temporary output has been removed, and
a phase that continues after the error deletes its backup.

## 5. Policy: TrackPolicy, ConditionalRules, Reencoding, PolicyPlan

### Operators

| Operators | Code |
|---|---|
| `ClassifyTrack`, `DesiredOrder`, `DesiredDefaults`, `PreferredTrack` | `policy/evaluator/classification.py` |
| `KeptAudio`, `ApplyFallback`, `KeptPositions` | `filtering.py`: dispositions, minimum, fallbacks, forced subtitles |
| `LanguageUpdates`, `TitleUpdates` | `transcription.py`: what a transcription changes |
| `MatchesTrack`, `EvaluateCondition`, `ExecuteActions`, `EvaluateRules` | `policy/conditions.py`, `actions.py`, `evaluator/rules.py` |
| `SourceTrack`, `Resolve`, `PlanSynthesis`, `Synthesised` | `policy/synthesis/`: source by points, skip conditions, new tracks |
| `NeedsTranscode`, `Scaled`, `AudioPlan`, `Streams`, `Encoded` | `policy/transcode.py`, `executor/transcode/`: decision, audio plan, the streams ffmpeg takes |

`ConditionalRules` declares a RECURSIVE operator, since conditions nest: nothing is
proved about it or the modules above it.

### State and actions of PolicyPlan

`disk` is the file, `[name, format, tracks, tags]`; `info` what `file_info` says of it,
read before the phase; `todo` the operations of the phase still to be dispatched; `plan`
the last plan evaluated. A track is a record with an identity that no code reads: the
properties follow tracks by it.

| Action | Code |
|---|---|
| `PluginEvaluate` | `PolicyEnginePlugin.evaluate()`: a plan only, with transcription results |
| `StartPhase`, `EndPhase` | `execute_phase()`, the second time on the file as re-introspected |
| `PlanOperation` | `execute_with_plan()`: evaluate the whole policy over `info`, choose the executor (`SelectExecutor`), run it on `disk` (`Executed`) or fail |
| `Synthesise` | `execute_audio_synthesis()` |
| `TranscodeVideo`, `TranscodeAudio` | `execute_transcode()` with and without a video configuration |

What matters is that an executor names tracks by the numbers they have in `info` while
the file is `disk`: `ApplyActions`, `Mkvmerge`, `FfmpegRemux`, `Synthesised` and
`Encoded` translate what each tool makes of such a number, faithful to options that a
tool ignores (mkvmerge drops titles, languages and forced flags of a plan) or takes too
far (ffmpeg's `-disposition` replaces every flag).

### Runs

| Run | Checks | Instance |
|---|---|---|
| `policy_safety` | `TracksSurvive` (`KeptTracksSurvive` and `FilterLeavesAudio`), `EndsAsAsked` (`TypeOK`; one default audio track where one is asked for; what an MP4 can hold; `Converges`) | 44 phases and 65 files, each phase applied four times, any operation may fail |
| `policy_audioless` | `NeverAudioless`, violated | a filter and the default flags in one phase |

The phases are chosen so that each fallback, executor, container mode, kind of rule and
condition, preference of a synthesis and kind of transcode is used; the files so that
tracks of every class are there, first, last or missing. Four rounds, because a policy
that clears titles, by which commentaries are recognised, needs several to settle.
There is no fairness: `Converges` is checked as an invariant of the last round.
`Converges`, `KeptTracksSurvive` and `FilterLeavesAudio` speak of phases with one
operation: with two, the second acts on stale numbers, and that is the violation.

`KeptTracksSurvive` excepts the video transcode of a film with fewer than two audio
tracks: `_needs_explicit_mapping()` then gives no `-map`, and ffmpeg keeps one subtitle
and no attachment, although `specs/034-conditional-video-transcode/spec.md` says that
all subtitle tracks are copied. `Converges` excepts what does not settle (`Stable`): a
container conversion, a synthesis without `skip_if_exists`, and an audio transcode that
does not preserve its own target, which is encoded again by every run.

`policy_audioless` contradicts SC-003 of `specs/031-track-filter-remux/spec.md`: the
filters leave one audio track; the next operation of the phase repeats the dispositions
with the numbers of the file before, and mkvmerge removes that track too.

### What else the code does, as modelled

* A plan with a container change and nothing else counts no change and is not executed.
* MKV files without mkvmerge are never reordered; `track_order` and `default_flags` in
  one phase apply the permutation twice.
* A `fail` rule ends its operation as a success; is_original and is_dubbed are always
  false in a workflow, which passes no classification.
* A phase that transcodes a video which needs nothing succeeds, leaves the audio of its
  configuration as it was and counts a change, every run.
* A synthesis ignores the tracks other definitions of the phase are about to make, never
  applies `position`, and writes Matroska under the name of an AVI.
* A track synthesised earlier in the phase is unknown to the transcode: it gets ffmpeg's
  default codec, or is not mapped.

## 6. Batch: PhaseGates, BatchRun

`PhaseGates` has the conditions of a phase (`skip_when`, `depends_on`, `run_if`) and the
error modes (`EffectiveOnError`, `StrictestMode`). `BatchRun` has the main thread of
`vpo process` (`main`, `stop`, `results`), a thread for each file (`future`, `work`), the
files (`media`, `renamed`), what the library says of them, and the jobs.

| Action | Code |
|---|---|
| `StartFile`, `CheckStop` | `_process_single_file()`: a future is taken; the stop event, before each policy |
| `JobNotCreated`, `InputMissing`, `DiskLow`, `NotInLibrary`, `BeginPhases` | `run_policies_for_file()`, `JobLifecycle.on_job_start()`, the checks of `WorkflowRunner` |
| `SkipPhase`, `IdlePhase`, `ChangingPhase`, `UnreadablePhase`, `FailingPhase`, `EscapingPhase` | `WorkflowProcessor.process_file()`: a phase skipped, without effect, with one, not readable after, failed, failed by an exception |
| `CompleteJob`, `CompleteUnknown`, `JobNotCompleted`, `FailJob`, `OrphanJob` | `on_job_complete()`, `on_job_fail()` and their failures |
| `Collect`, `CancelPending`, `Finish`, `Interrupt` | the loop over `as_completed()`, the abort, `shutdown(wait=True)`, Ctrl-C |

`batch_safety` has three files, of which one is unknown to the library and one is spared
by a `skip_when`, two policies with dependencies and all error modes, two threads and one
failing update of a job's row: enough for one file to wait, one to run and one to be
collected when the batch stops. Checked are `PhasesFollow` (dependencies, error modes, and
phases that know the file as it is), `JobsTell` (a file reported as processed was, and no
job stays running), `StopsAndEnds` (a stop takes
effect, and the batch ends). `BatchAssumption` admits the policies the loader does: names of
phases are unique, and a phase depends on earlier ones. Fairness: each thread and the main thread
are scheduled and a phase ends (the tools have time limits); failures and Ctrl-C are
not fair. `CHECK_DEADLOCK` is off: a batch ends.

The properties say no more than the code does. Files still running at an abort are
never reported. A file stopped between two policies keeps `overall_success`, and only
because its future is not collected then does `JobsTell` hold. After a policy renamed
the file, the next one gets the path the batch began with and fails with "Input file not
found". The mode that aborts is the strictest of all policies, not that of the failing
one as the docstring says. An exception of a later policy loses the earlier results and
is attributed to the first, `current_policy_name` never being updated. The `8k` resolution
of `skip_when` matches nothing.

## 7. Library

The database of the daemon, the scanner, the workflow and the prune, one SQLite
transaction at a time (`db`, `txn`). `content` and `present` are the disk.

| Action | Code |
|---|---|
| `StartScan`, `Discover`, `Lookup`, `MarkMissing`, `BeginBatch`, `Persist`, `EndScan`, `Interrupt`, `KillScan` | `scan_and_persist()` with its batches and its snapshot |
| `Rework`, `Introspect`, `Stat`, `WriteTracks`, `WriteTimesOut` | a workflow changes a film, then `_re_introspect()` |
| `StartPrune`, `CreatePruneJob`, `SelectMissing`, `BeginPrune`, `DeleteMissing`, `CompletePrune` | `PruneJobService`, by a worker or by auto-prune on the pool's connection |
| `Acquire`, `BeginRequest`, `Decide`, `InsertJob`, `CommitRequest`, `StatementFails` | `api_plan_approve_handler()` and the reject one, in `DaemonConnectionPool.transaction()` |
| `Replace`, `TakeAway`, `BringBack` | the disk, by others |

A connection is `Begin`, `Write`, `Commit`, `Rollback` as Python's `sqlite3` gives them:
a statement that writes joins the transaction it finds open on its connection, whoever
opened it. That is what the prune of the daemon does to a request: it runs on the shared
connection without the pool's lock, and its commit can cut an approval in two.

`library_safety`: two films in directories of which one is a prefix of the other (the
`LIKE` of the code selects both), one plan, an approval and a rejection, batches of two;
any three of scans, workflows, prunes and requests at any interleaving of their
statements, with two events on the disk. Checked: `RowsHold` (`RowsTell`, of stamps and tracks and of
what a scan leaves, and `NeverLost`: a film that never went away keeps its row), `AnswersTrue` (of the answers to approvals, and that an approved plan has its job) and `AllEnd`. Fairness: a
scan, a workflow, a prune and the thread of a request take their next step (SQLite's
busy time-out makes a waiting statement fail at last); starting one, the disk and
Ctrl-C are not fair. Three tasks are enough for two writers and the prune that
disturbs them; the events that a property has to except are in `history`.

The exceptions are what the code does: a film that went away and came back unchanged
stays `missing` and a prune then deletes its row (`docs/usage/cli-usage.md` says
"no longer on disk"); re-introspection reads the tracks before the time stamp, so a
film replaced in between keeps the old tracks for good (`history.torn` has the film, stamp and tracks of such rows); an approval cut in two is
approved without a job, or is answered 500 after its effects were committed. Further:
the prune reads its list before `BEGIN IMMEDIATE`; deleting a file's row deletes its jobs, also
those that are queued or running (`DeleteFilms` of section 3);
an unmounted directory marks all of its films missing.

## 8. Daemon: RateLimiter, Daemon

`RateLimiter` has the deques of `record_and_check()` and the clean-up of stale ones. A pop
in the code compares floating-point times, so an entry of exactly the window's age may
stay or go (`Popped`). `admitted`, `told` and `changed` are history: the requests
admitted since the limits changed last, and the moment a refused client was given.

`Daemon` adds the configuration in force and the one a reload compares with, an event
stream, the thread of one writing request, the auto-prune task and its thread, and the
stages of the shutdown.

| Action | Code |
|---|---|
| `Answer`, `Accept`, `BeginWrite`, `EndWrite`, `OpenStream`, `ClientLeaves` | middleware, a write in a thread, `sse_jobs_handler()` |
| `ReloadFails`, `Reload` | SIGHUP: `ConfigReloader.reload()`, `_apply_dynamic_updates()` |
| `StartPrune`, `PruneThread`, `PruneReturns`, `PruneStops` | `AutoPruneTask.run()` and `_do_prune()`, statement by statement, each of which may fail |
| `Signal`, `Drain`, `Drained`, `DrainTimeout`, `StopPrune`, `StopPruneTimeout`, `ClosePool`, `Exit`, `Kill` | `run_server()` from the first signal on, aiohttp's `AppRunner.cleanup()`, the clean-up handlers of the application |

`daemon_safety`: one client with reads and writes, limits of one and two requests in
windows of one and two seconds of two ticks, seven ticks, two reloads, one failing
statement, started with and without `--config`, environment, prune and signal. Two
windows and both limits fit in seven ticks, and a reload between. Checked:
`WindowHolds`, `RetryTells`, `SnapshotInForce`, `ExitIsClean` and `ShutdownEnds`.
Fairness: threads are scheduled, transactions end, time-outs elapse; clients never have
to leave nor signals to come.

Conditions of the properties that a reader may not expect: under `serve --config X` the
limiter starts from the default file, since `create_app()` calls `get_config()` without
the path, while a reload compares with X: until a reload changes the limits they may not
be those of X. `Retry-After` is right when the limits had been in force for a window at the refusal.
`shutdown_timeout` is ignored; event streams look for an event that nothing sets, so a
shutdown waits for aiohttp's minute. A prune the stop gave up on leaves its job running.
A reload of a broken or missing file applies the defaults and reports success.

## 9. Opening a library: Schema, LibraryUpgrade

`Schema` has each statement of `create_schema()` and of the migrations as a record, and
what SQLite makes of it (`Fails`, `After`, `Dropped`). A library is its version and its
tables; a table is the set of columns, constraints and indexes that migrations add, and
one or two rows that name the row they belong to. `LibraryOf(v)` is a library of version
`v` as the migrations leave it. Columns a table has had from the start, the other
columns of rows and the language codes the migration of version 10 rewrites are left out;
`"ix"` stands for the indexes made with their table.

| Action of `LibraryUpgrade` | Code |
|---|---|
| `Open` | a command (`_get_db_connection()`), `vpo scan` or `vpo serve`, `vpo scan --db` |
| `ReadVersion` | `get_schema_version()`, read once |
| `Execute`, `Raise` | the next statement of a script, and what becomes of the process when it raises |
| `Crash` | the process dies, or meets an error that is not in the file: a lock, a full disk |

`executescript()` and DDL outside a transaction commit statement by statement, an `INSERT`
or `BEGIN IMMEDIATE` opens a transaction that only the next `commit()` ends (`writer`,
`draft`). `upgrade_safety` starts at an empty file, at versions 1, 6, 19, 24 and 25 and
at the current one (the rebuild at 15 is passed on the way from 1 and 6); three openings (`MaxOpens`), one death
(`MaxCrashes`), a second process beside the first at `Shared` versions, which bounds the
interleavings to the rebuilds, the creation and the last migrations. Three openings are
an upgrade that is cut, the command that meets its remains, and another upgrade. A
library may stay as it is for ever: `CHECK_DEADLOCK` is off. Checked: `TypeOK`,
`RowsKept` (a row stays in the file; an upgrade that is not disturbed leaves all rows in their tables), `UpgradesEnd`.
`recreated` is a history variable: the tables a process created empty while the copy their rows are in
lay beside.

What the code does, as the exceptions of these properties have it:

* A process that dies in the rebuild of migration 6, 15, 19 or 24 leaves a copy beside the
  table, or no table; every later upgrade then raises, although the comment at
  `server/app.py:239` has migrations idempotent and safe to re-run on failure. Migration 25
  is one transaction, for this reason. At 19 a command may meanwhile create an empty `jobs`;
  the upgrade then reaches version 27 with all jobs in `jobs_new`.
* Two processes that upgrade at once can have the same effect.
* Rows can be lost for good when a command joins them. Between the DROP and the RENAME of
  migration 19 (`v16_to_v20.py:439`) the `create_schema()` of a command creates an empty `jobs`;
  two upgrades that had looked before both copy that (an empty table has no id in common
  with `jobs_new`, so nothing raises); one drops it and puts the full `jobs_new` in its place,
  and the other drops that. It takes four openings at version 19, three of them at once, one
  more than the run allows (`MaxOpens`); it was met when the invariant was written down for a
  proof, confirmed by TLC with larger bounds, and is why `RowsStayInTheFile` leaves out the
  tables in `recreated`. With that exception four openings of three processes were also
  run for starts at 24 and 25 to the end, and for 6, 15 and 19 for ten million states each.
* Dying between the rename and the indexes leaves a table without indexes.
* Migration 24 drops `processing_stats` with `foreign_keys = ON`: all rows of
  `action_results` and `performance_metrics` are deleted. Migration 25 drops `jobs` and
  sets every `processing_stats.job_id` to NULL; `tests/unit/test_schema.py:1629` expects
  it kept, on a connection without foreign keys.
* Commands do not migrate: below version 9 `create_schema()` fails on an index of `files`,
  below 23 on one of `jobs`, and from 23 on a command runs on the old schema.

## 10. The sound of a film: AnalysisCache

Two results of listening are stored per row of `tracks`, under the content hash the file
had when its record was read: the languages heard (`language_analysis/`) and whether the
track is the original, a dub or a commentary (`track_classification/`). `content` is the
film, one of a few contents that stand for time, size and hash; `db` holds its record, the
rows of its audio tracks (`ids`, in stream order) and what hangs on them (`heard`,
`classed`); `writer` is the process whose transaction holds the database.

| Action | Code |
|---|---|
| `StartAnalysis`, `ReadTracks`, `TakeTrack`, `Listen`, `StoreVerdict`, `StoreSegments`, `AnalysisLockedOut` | `LanguageAnalysisOrchestrator`, `vpo analyze language`: record, tracks, cache, samples, and the two transactions of `persist_analysis_result()` |
| `StartClassify`, `LookUpClasses`, `ReadRows`, `StoreClass`, `ClassifyLockedOut` | `vpo analyze classify`: one transaction for each track |
| `ClearAll`, `ClearClasses`, `EndClear` | `vpo analyze clear` |
| `StartScan`, `Hash`, `BeginScan`, `Persist`, `CommitScan` | `scan_and_persist()`, with `ON DELETE CASCADE` of the tracks that are gone |
| `StartRun`, `LoadTracks`, `Evaluate`, `PhaseEnds`, `Change`, `Introspect`, `Measure`, `Record` | a workflow run, as `audio_is_multi_language` sees it |
| `Replace`, `Die` | somebody replaces the film; a process dies |

A sample is a language (of `Languages`) or silence, and a segment is known by the position
of its sample; confidences, acoustic profiles and titles are left out,
and so is the detection of one language per track (`transcription/`). The verdict of a
track (`Verdict`), the second languages, counted again from the stored segments
(`Secondary`), and the condition (`IsMultiLanguage`) are operators.

`analysis_safety`: a film with a bilingual track and a dub, the film without the first
track, and the film with the tracks the other way round; two processes, three tasks
(`MaxTasks`), two events (`MaxEvents`: the film changes, a sample fails, a process dies),
four of both together (`MaxSteps`).
Three contents are what it takes for a row to change hands by a removal and by a swap; two
processes for a change between a record and its samples, or between two transactions.

* `VerdictsTrue`: a verdict stored under the hash of the film is that of the sound of its
  track, and its segments are of the same analysis. Not after an earlier content came back
  (its old verdict may have been overwritten by a process that listened to the other), nor
  after an extraction failed for a passing reason, which is stored as silence, "und" if all
  fail; nor for a row whose analysis was cut between the transactions or overlapped another.
* `ClassifiedWhole`, checked with `VerdictsTrue` as `CachesTell`: classifications taken for valid are of all tracks, of one original
  language. Not after classifications that were cut, cleared half-way or overlapped: one
  classified track makes the cache valid for the film. Nor after a record was written that
  does not belong to the tracks (`blind`): a hash with the tracks of another content, the film having
  been replaced between the two, or a content that had been recorded before and left.
* `UsedVerdictsTrue`: a run on a film that was as recorded, and that nobody else changes
  or records as it was before, evaluates with verdicts of the right tracks, in each of its phases, and with a verdict for
  every track the condition says what the sound says.

The last two exceptions are the same behaviour: neither `scan_and_persist()` nor the record
of a run looks whether the file still is what it has hashed or introspected, so a process
that was slow writes the record of an earlier content over a newer one. Its rows then carry
what was stored under the other's tracks. It takes two commands and two changes of the film
in between, more than the steps of the run, and was met in the proof of the theorems of section 15.

What the last one does not speak of: `get_language_results_for_tracks()` ignores the hash,
although `docs/usage/multi-language-detection.md:234` gives `(track_id, file_hash)` as the
key of the cache. After a phase that removed a track, the next run of a policy evaluates
the tracks behind it with the verdicts of others, until the film is analysed again. Within
the run this does not happen, because the tracks of the new `FileInfo` have no ids: its
later phases are evaluated without any verdict. Also: files without a hash share the hash
"" in the analysis of a scan; `vpo analyze clear FILE` commits the classifications but not
the languages (`cli/analyze.py:1099`); no scan ever stores metadata of plugins, so the
original language is always unknown to it; `is_analysis_stale()`,
`invalidate_analysis_cache()` and `delete_classifications_for_file()` have no caller.

## 11. Backup and restore: LibraryBackup

A library is two names, `library.db` and `library.db-wal`, and a process that has it open
has two files. `name`, `base`, `frames` and `conn` keep these apart; a database is the set
of transactions in it. What SQLite does with them is external and modelled from its rules:
a WAL is read on top of the database it lies beside, and makes it unreadable (`Torn`) if
it belongs to another; the last connection to close checkpoints and deletes the WAL by its
name, unless the database has been unlinked; locks are those of the WAL's shared memory.

| Action | Code |
|---|---|
| `Open`, `Close` | `_get_db_connection()` and its `atexit` (`cli/__init__.py`), or any other process |
| `BeginWrite`, `Commit`, `Checkpoint`, `Kill` | whoever uses the library |
| `StartBackup`, `Copy`, `Move`, `MoveStarts`, `MoveEnds`, `MoveFails` | `create_backup()`, on the connection of the command |
| `StartRestore` | `restore_command()` to the confirmation, with `validate_backup()` |
| `RestoreLockCheck`, `OpenTemp`, `WriteTemp`, `ExtractFails`, `Verify`, `UnlinkWal`, `Replace`, `ReplaceFails` | `restore_backup()`; `ExtractFails`, `ReplaceFails` and a file that `Verify` rejects end in its `except` (`GiveUp`), which unlinks the temporary name, whosever file it means |

`backup_safety`: three processes, each of which may use, back up and restore; two
transactions, three commands, one fault (a kill, or a move, an extraction or a replacement
that fails). Three processes are a user and two commands that overlap; three commands a
backup and two restores, of which one can fail before it has a file while the other writes
or verifies its own. That takes the fault; with a fourth command, a backup that is moving
its file over the archive, it happens without one, by the same action (a torn archive). No
fairness, and the system may stop.

* `LibraryIsWhole`: what the next process finds is all that was committed, or the archive
  and what came after. Three things are excepted, because the code does not hold in them:
  a restore that ends between `wal_file.unlink()` and `temp_db.replace()` has taken away
  what was committed and not checkpointed (`cut`), although `restore_backup()` says
  "Replaces the current database atomically"; a process that opens the library between
  them leaves a WAL of the old database beside the new one (`overtaken`); and two restores
  write, verify, install and unlink one temporary file (`shared`): an empty one may pass
  `quick_check` and become the library. A restore shares the file from before it has
  written anything: if it cannot read the archive, it unlinks the other's.
* `BackupIsWhole`: a backup holds what is in the WAL.

What the model shows beside: `_check_database_lock()` refuses only while somebody is inside
a write transaction, so an idle daemon does not stop a restore; it keeps the old files open
and commits to nothing until it is started again. Without `-wal` nothing is checked. The
metadata's `schema_version`, "Database schema version at backup time", is the program's;
`file_count` is read before the copy, so a commit between them makes the two differ. A
library that cannot be read and has a WAL cannot be restored: the lock check raises an
error nobody catches.

## 12. Policy files: Expressions, PolicyDocument, PolicyConversion, PolicyFiles

### Operators

| Operators | Code |
|---|---|
| `Tokenize`, `Parse`, `Serialize` | `policy/expressions/`: a condition as a text of tokens, read and written |
| `PolicyModel` and one operator for each model under it | `policy/pydantic_models/`: `"ok"`, or how a document is refused (`"invalid"`: with a message; `"raises"`: by an exception nobody expects) |
| `ConvertPolicy`, `LoadFromDict`, `ValidatePolicyData` | `conversion.py`, the checks of the dataclasses, `load_policy_from_dict()`, `validate_policy_data()` |

A text is a sequence of tokens; which characters make one up is left out. A document is
well typed: its fields may have wrong values, be missing or unknown, but a number is not
where a list belongs.

### State and actions of PolicyFiles

`file` is the policy, `[content, mtime, version]`, or nothing; every change is a version and
carries the tick of the clock. `pages` is what each page of the editor shows and how far
its request is; `cache` the entry of the list, by mtime.

| Action | Code |
|---|---|
| `ReadPage`, `StatPage` | `policy_editor_handler()`: the content and the mtime, in two calls |
| `Send`, `CheckStamp`, `ReadCurrent`, `Truncate`, `WriteBack`, `Reload`, `AnswerSaved` | `api_policy_update_handler()` and `PolicyRoundTripEditor.save()`, in threads |
| `StartCreate`, `TruncateNew`, `WriteNew` | `api_policy_create_handler()` |
| `ListStat`, `ListRead` | `_parse_policy_file()` of the list |
| `EditExternally`, `DeleteExternally`, `Crash`, `Tick` | a user, a daemon that dies, the clock |

A page may send any request of its scene: what its form does is left out. mtimes are
compared for equality only.

### The run policy_files

116 scenes (`MCScenes`). A few let two pages, the list, a user with an editor, a deletion
and a death interleave on one document, with two ticks of the clock; the others save one
document once, one for each rule of the validation and of the conversion, and each
condition. Two pages are what an overwritten save takes; a second tick separates a change
that has a stamp of its own from one that shares it. There is no fairness and the system
may stop (`CHECK_DEADLOCK` is off).

* `StaleSavesRefused`: a page does not overwrite a version it has not seen, as
  `docs/usage/policy-editor.md:489` promises. Excepted are the three windows the code has: a
  change after the comparison, one between the two calls that load a page, and two
  changes within one tick.
* `SavedPoliciesLoad`: over a policy that could be loaded, a save writes one that can be
  loaded, although only the keys of the request are loaded before and the rest of the file
  is kept. Excepted are the words below.
* `CacheTells`: the list never shows one content under the mtime of another.
* `ExpressionsReadBack`: a condition written as an expression and read again is the same
  condition, if the language can spell it (`Spellable`).

### What the code does, as modelled

* A created policy has `track_order: [video, audio, subtitle]` (`server/api/policies.py:460`), which
  `load_policy()` refuses, although `docs/usage/policy-editor.md:37` speaks of sensible defaults.
* The language `no` (and a name or category such as `yes`) is saved with 200: ruamel.yaml,
  which writes YAML 1.2, leaves it bare, and `yaml.safe_load()` reads a boolean.
* A page that sends `config: null` is answered "Invalid JSON payload". A null inside `config:`
  of the file makes the summary of changes raise: 500, after the file was saved.
* Unknown top-level fields are preserved by a save (`docs/usage/policy-editor.md:502`) and refused
  by every load.
* "Validation already passed above" (`server/api/policies.py:246`) is not what a load asks:
  the text of a `create_if`, an empty `skip_if` or a bitrate such as "+64k" pass the
  validation; the save then answers 500.
* The lexer's errors are no `ParseError`: an expression with a stray character raises.
* `Spellable` excludes what the serializer loses: a title that matches by `contains` or a
  regular expression, escapes and quotes in names, negative numbers, some numbers within strings.
* A policy is truncated before it is written. A creation does so without looking again, and
  a daemon that dies in between leaves an empty file; there is no copy.

## 13. Views, pages and reports: LibraryViews, ProcessingStats, Reports, ReportCommands, LibraryPages

### Operators

An operator gives the answer of a query out of one snapshot `db` of the tables, a set of
records for each.

| Operators | Code |
|---|---|
| `FilesFiltered`, `LibraryInfo`, `Duplicates`, `FilesAnalysisStatus`, `JobsFiltered`, ... | `db/views/`, the lists of `db/queries/jobs.py` and `db/operations.py` |
| `StatsRecord`, `Persist`, `Purged`, `StatsSummary`, `PolicyStats`, `StatsTrends`, ... | `workflow/stats_capture.py`, `db/queries/stats.py`, `db/views/stats.py` |
| `JobsReport`, `LibraryReport`, `TranscodesReport`, `PolicyApplyReport`, ... | `reports/queries.py` |
| `Report...`, `Db...`, `VpoJobs...`, `AnalyzeStatus`, `Api...` | the commands of `vpo report`, `db`, `jobs` and `analyze status`, and the handlers of the HTTP API: what they refuse, which query they ask, what they say |

A text is one word that matches or does not; quotients of the figures are left out.

### State and actions of LibraryPages

`db` is the tables, `client` a browser with the list it turns, `run` a run with its
`StatsCollector`, `purge` a purge that waits for an answer.

| Action | Code |
|---|---|
| `Scan`, `MarkMissing`, `Prune`, `Snapshot` | the writes of a scan and of a prune job |
| `Transcribe`, `Analyze` | the upserts of a transcription and of a verdict |
| `StartJob`, `EndJob`, `AddJob`, `PurgeJobs`, `DecidePlan` | the writes to jobs and plans |
| `BeginRun`, `EndPhase`, `EndRun`, `PersistRun` | `capture_before_state()`, `add_phase_metrics()`, `capture_after_state()`, `persist()`, whose time is taken before it gets the write lock |
| `AskPurge`, `ConfirmPurge`, `CancelPurge`, `PurgeAtOnce`, `ApiPurge` | `vpo report purge`, which asks unless it is given `--yes`; `DELETE /api/stats/purge` |
| `OpenList`, `NextPage`, `LastPage` | the button for the next page, which asks for the rows after `offset` |

The tables have the keys of the schema (`Tables`: primary keys, the film of a row of statistics, the row
of a metric), which `TablesAssumption` asks of the tables at the start. A walk (`WalksAssumption`) is a list, a query
that the API takes, and a page of 1 to `ApiMaxPage` rows. A limit of the API is one of the view too
(`PagesAssumption`: 100 and 1000). A list is in an order of its rows
(`Ranked`): the n-th row is the one that n - 1 come before. The identifiers of statistics, which the code
draws at random, are counted up.

### The run pages_safety

Three films, two of one content, three jobs, two plans, three runs of three policies on record; nine lists with
pages of one row; views of two rows, of at most four if asked, so that lists are cut and lists are whole; two writes (`MaxClock`), which is what it takes to move a row past a page
and to record a run while a purge waits. `Bounds` lets a browser read while neither run nor
purge is going on, which its properties do not relate. The system may stop, and there is no
fairness.

* `PagesKeepRows` (with `PagesTypeOK`, the keys of the tables): a row that was on a list when it was opened, and that
  nobody touched, has been shown when the last page has, unless some row left the list or
  sank in it (`sunk`): only that moves a row to a page already read.
* `FiguresAgree`: totals of all policies, of each, of the points of each chart, of the
  lines of the history, before and after any moment, add up; `vpo db info`, `missing`,
  `prune --dry-run`, `vpo analyze status`, `vpo report library` and the charts count the same films
  and tracks; the reports of jobs have the jobs of the jobs page and of `vpo jobs`. A list with a
  limit is compared for every limit: while it is shorter it has everything, and where it is cut
  it has as many rows as the limit, which the property says and does not call agreement.
* `RecordsWhole`: a run is recorded with all its phases or not at all.
* `PurgeTells`: a confirmed purge reports the number it deleted, and deletes what it had
  counted and beside it only what runs had stamped when it was asked.

### What the code does, as modelled

* `vpo jobs clear` and `vpo jobs cleanup` say "Cleared 3 job(s)" and delete nothing:
  `delete_job()` and `delete_old_jobs()` do not commit ("Caller must manage transactions",
  `db/queries/jobs.py:496`), nor does either command, and its connection is closed without.
* `DELETE /api/stats/purge` deletes and answers with an error: `delete_processing_stats_*()` commit
  inside the pool's transaction, whose own `COMMIT` then raises.
* The scans report reads `files_scanned`, `total`, `new` and `changed`; scans write other
  names (`jobs/tracking.py:35`), so its counters are 0. Nothing fills `files_affected_json`,
  from which the report of policy applications counts.
* A list's length is passed on as a total. `vpo db missing` says "Missing files:" and `total` of at
  most its limit, 100 by default (`cli/db.py:113`), where `vpo db info` counts all; the statistics
  by policy stop at 50 policies and the history of a film at 50 runs, while the totals count all;
  `vpo analyze status` lists as many films as its limit beside a summary of all tracks.
* A limit is applied before the filter by resolution or codec, and 0 is no limit.
* `get_library_snapshots()` without a time gives the oldest 365.
* Groups of duplicates that tie in count and size are cut into several (`DuplicatesWhole` excepts them).
* The statistics of a transcode job that still runs are compared with `datetime('now')`, a
  text in another format: only days are told apart.
* `/api/stats/policies` takes a policy and ignores it. `since` of the API is one of a few words,
  although its docs have ISO 8601.
* `upsert_file()` keeps the job that scanned a film first: errors of a later scan are
  listed under that one.
* A report without rows leaves the file of an earlier one, also with `--force`.

## 14. Bounds

`JobQueue`: `MaxMissed`, failed beats in a row of one thread; `MaxRetries`, `vpo jobs
retry` commands; `MaxKills`, worker processes signalled or killed; `age` is capped one
above `StaleTimeout`, which no comparison of the code distinguishes. `PhaseExecution`:
`MaxRuns`, runs of `process_file()` on the film. `PolicyPlan`: `Rounds`. `BatchRun`:
`MaxFaults`, failing updates of a job's row. `Library`: `MaxVersion`, contents of a file;
`MaxEvents`, on the disk; `MaxTasks`, scans, workflows, prunes and requests together;
`BatchSize`, two rows in a scan's transaction, which two films fill and one does not.
`LibraryUpgrade`: `Shared`, `MaxOpens`, `MaxCrashes`. `AnalysisCache`: `MaxTasks`, `MaxEvents`,
`MaxSteps`. `LibraryBackup`: `MaxCommits`, `MaxTasks`, `MaxFaults`. `PolicyFiles`: `writes`, `ticks`, `loads` and
`saves` of the scene. `Expressions`: `MAX_DEPTH` is the code's. `LibraryPages`: `MaxClock`, writes, and the constraint
`Bounds` of its instance; its sizes of pages (2, 4 at most, 1 and 2 of the API, 4 lines of `vpo jobs list` at most)
are scaled down from 50, 1000 and the like to what three films and three runs reach and do not reach.
`Daemon`: `MaxClock`, `MaxReloads`, `MaxFaults`, one writing request and one prune; a
start without signals begins no stream and no writing request, and one that may be
signalled has no clock, which keeps limiter and shutdown apart where they do not meet.

## 15. Proofs

### DatabaseProofs: JobQueue

`DatabaseProofs` proves, for every set of jobs and workers, every priority and type of
job, any number of deaths, retries and deleted films and any timeout, under the assumptions declared
in `JobQueue` and

    Tolerant == the beats a worker misses in a row stay below MAX_HEARTBEAT_FAILURES
                (those of both threads, if threads may outlive their job)
                and below the stale timeout

that `TypeOK`, `Exclusive`, `NoDuplicateExecution` and `UnheldRowsAreClear` are
invariants, that a completed job stays completed (`CompletedIsFinal`), and that
`JobQueue` implements `JobLease` (`LeaseSpec`): each step maps to one step of the lease
or to a stutter.

`Exclusive` is not inductive. `IInv` adds why it holds: the age of the row of a busy
worker is accounted for by the beats its thread has missed (`BusyIsBeating`), so it
never reaches the stale timeout; the failure counter, shared by two threads, is bounded
by what both have missed, so the thread never ends while its job runs; tracked rows
have no heartbeat, so recovery does not see them (`TrackedRows`); a row deleted with its
film has none either, whoever executes its job (`UnheldRowsAreClear`), so nothing is asked
of its age; and no thread ever
beats for a tracked job (`ThreadJobs`), since a row is tracked from its insert on. Each
action has a lemma; the refinement has one per kind of step and uses `IInv` to know that
the holder of a settled row is its only one. The end of a job whose row is gone maps to
`Abandon`.

Only model-checked: `QueuedJobsSettle` (liveness under fairness is out of reach of the
proof system).

### DatabaseProofs: LibraryBackup

For any number of processes, commits, commands and faults:
`LibraryIsWhole` and `BackupIsWhole`.

`BackupIInv` adds to the types: the file a restore writes is nobody's library (`TempInv`); unless
one of the three exceptions has happened, there is one restore at work and the temporary file
holds what it has read (`RestoreInv`), which a restore that fails beside it would take away
without the exception (`GiveUpKeeps` asks that there be none); and `WholeInv`: whoever has the library open has its WAL open and the
other way round, the WAL beside the library is of the library, and the two together are what
was committed. While the library is unlinked there is no WAL. That the last connection to close checkpoints by the WAL's name
is harmless only because of the equivalence in `WholeInv`. Files are numbers, and a new one is any that is not in
use (`Fresh`), so a lemma shows that there is one.

### DatabaseProofs: LibraryPages

For every library that has the keys of the schema, every set of lists, queries and page
sizes, and any number of writes: `PagesKeepRows`, `RecordsWhole` and `PurgeTells`. The assumptions are
`TablesAssumption`, `WalksAssumption`, `PagesAssumption`, and that NULL is not a number.

`PagesIInv` adds three parts to the types and keys. `PagesInv`: while no row has left the list or sunk
in it, a row the browser opened the list with, that has kept its place and was not shown, has as many rows before it
as have been turned past; and if the total of the last answer says there is no other page, there is no
such row. `RunInv`: the number of a run is above those of all rows until it
is written, so that its metrics are nobody else's. `PurgeInv`: the rows that were counted are rows the purge is for.

The argument is about ranks. The rank of a row is the number of rows before it; in a total
order ranks are different and fill 0 .. n - 1 (`RanksOnto`), so a list is the rows by rank (`RankedRows`) and
a page those whose ranks are in it (`PageHas`). Each of the five lists is such an order of its rows by
a column and then by the identifier (`ListIsRanked`), and each handler answers with the page
of it and with its length, or, when the page is empty, with nothing (`FetchedPage`). A write changes one row's columns,
adds a row or takes rows, and leaves what the lists are sorted by, except what `Place` says (`KeysKept`, `KeyFollows`).
So if no row leaves or sinks, the rows before a row that stays are still before it, and its rank does not
fall (`RankStays`, by an injection of the one set into the other).

That a run's phases are read as they were written (`MetricsRead`) is the same lemma about ranks:
the row of the n-th phase has n - 1 before it.

### PhaseExecutionProofs

For every set of policies, any number of runs, with and without another film in the way
and a temporary directory elsewhere, every property of the run `phase_safety` is proved, and one more:
`TypeOK`, `IntactUnlessExposed` (`NoLoss`), `OperationAtomic`, `FreshTracks`,
`IntrospectOutsideTransaction` and `PathFollowsFile` (from `RowFollowsFile` and `CommitFollowsFile`). The assumptions
are that the constants have their types and that the special contents are not versions.

None of them is inductive alone. `IInv` has five parts, each kept by every action under
the ones before it:

* the types;
* `PathInv`: where `path`, `cur`, `row` and `pending` agree, and that the film has left
  the committed name whenever the pending one differs;
* `CopyInv`, while nothing of `Exposed` happened: which of film, backup, temporary
  output and input is complete at each point of an operation;
* `RowInv`, while nothing disturbed the runs: the film has no second name;
* `FreshInv`, while nothing failed: until a phase reports a change, the film is the
  version `file_info` describes.

`events` only grows, so the conditions of the last three can only become false. Each
part has three lemmas, one for the loop over the phases, one for the loop over the
operations, one for the executors, with one step per action; the theorems then read
their property off `IInv`. `CommitFollowsFile` needs one more lemma (`RowSteps`): only
the end of a phase or of a run changes the committed row.

The violated property is TLC's. Nothing is said about progress.

### DaemonProofs

For every set of clients and configurations, any clock resolution and clean-up interval,
any number of reloads and faults: `TypeOK`, `WindowHolds` (no window since the last change of
the limits admits more than the limit in force), `RetryTells` (a client refused under limits in force for
a window is admitted when it comes back after the time it was told), `SnapshotInForce`
and `ExitIsClean`.

`LimiterInv` says why the window holds although a deque forgets: `Follows` relates it to
the history of admissions, of which it still holds all that are younger than the window;
`Spaced` says that an admission and the one `limit` places after it are a window apart.
Lemmas show what popping, appending and forgetting do to these relations; the integer
division of `Retry-After` has one of its own (`RoundsUp`). `RetryInv` states for each
refused client that the entries it waits for expire no later than promised. The daemon's
`IInv` adds the order of the shutdown (`StageInv`: which stages leave a task, a pool, a
writing thread) and the prune's (`PruneInv`: what the job's row, the rows and the
statement the thread is at may be together). `ShutdownEnds` is TLC's: it is liveness.

### BatchRunProofs

For any number of files and threads, any policies the loader admits (`BatchAssumption`) and
any number of failing updates: `TypeOK`, `JobsTell`, `PhasesFollow`, and of `StopsAndEnds` its
safe half `StopTakesEffect`; that the batch ends is TLC's.

The properties speak of what has been; `IInv` of each thread, wherever it is. `PhasesInv`: the
phases before the current one have an outcome and those after it none (`InOrder`), a failure
is known to the dependency check (`FailuresKnown`), what a phase depends on has completed
(`DependenciesMet`), and a failure whose mode stops the file has no phase after it
(`ModesKept`). `JobsInv`: a thread's job is running exactly while its policy is, and while
nothing has failed all earlier ones are completed. `LibraryInv`: as long as nothing has failed the
library has the file as it is, or not at all, hence `KnownIsReal`. `VerdictInv`: a verdict may overstate the
file only once the batch is stopped, when nobody collects it. `CountInv`: the jobs begun since the stop
and the threads about to begin one are together no more than the threads, because
whoever begins one had decided to before the stop. `Cardinality(Orphans) <= faults`
makes each orphan the trace of one failed update. The lemmas on a phase that ends
(`PhaseEnded`, `PhaseStep`) and on a policy that ends (`EndPolicyStep`) serve all actions that do so.

### LibraryProofs

For any films, plans and requests, any directories that contain themselves in their `LIKE`, any size of
batches and any number of events and tasks: `TypeOK`, `RowsHold` and `AnswersTrue`, the two of them
action properties.

`RowsInv` is about rows in the committed database and in the open transaction, whoever owns
it: a row that is not torn has tracks no older than its stamp, and neither is newer than the film (`SoundInv`); a film that never left
the disk is nowhere marked missing and no transaction lacks its row (`KeptInv`), for which
the list of a prune may not hold such a film; only the transaction of a scan differs from the committed
rows (`FilesCommitted`); and of an undisturbed scan, how far each of its
steps has brought the rows of its scope (`ScanInv`). `AnswersInv` has the lock (`LockInv`: one request is under way,
and holds it), what the plans and jobs are in both databases (`PlansInv`: a commit
in the middle of an approval is the only way to an approved plan without its job), and what
the request under way has done to what its connection sees (`RequestInv`).

The attempt to prove `RowsHold` refuted the first form of its exception, a set of films: a
row that was torn once could be replaced, and the set no longer told which row was meant.
`history.torn` now holds film, stamp and tracks.

### AnalysisCacheProofs

For any contents with any tracks and samples, any threshold and any number of processes,
events and commands: `CachesTell` (types, `VerdictsTrue`, `ClassifiedWhole`) and
`UsedVerdictsTrue`. `AnalysisCacheAssumption` says that each film has a track, each track a sample,
and all tracks the same number of them (`SamplesPerTrack`).

`IInv` has a part for each command and one for each table:

* `AnalysisInv`: the rows an analysis has read keep their place among the film's tracks as
  long as they exist, and the samples it has are those of the film it hashed, if that is the film;
* `ClassInv` and `HalfwayInv`: a classification under the recorded hash has the recorded tracks, and
  what it has stored so far is there for every row that is;
* `RunInv` and `UsedInv`: a run that nobody disturbed is on the film as recorded, or, after a
  phase that changed it, on tracks without rows, and the verdicts it has used are the film's;
* `HeardInv`, `SegmentsInv`, `StoringInv`: verdicts under the film's hash are true, have the segments of the
  same analysis, and an analysis between its transactions is alone with its row;
* `RecordInv` and `ClassesInv`: the recorded tracks are those of the recorded hash, and valid classifications are complete.

`Placed` carries the most: ids are never reused, so a row either is where it was when it
was read or is gone, and a late write to it is lost. `RecordInv` is where the first version of
the properties failed (section 10): a stale record makes the hash and the tracks differ.

### LibraryUpgradeProofs

For libraries of any versions, any number of processes that open one at once, and any
number of openings and deaths: `TypeOK` and `RowsKept`.

Nothing here is proved statement by statement: lemmas sum up the 27 scripts, and the rest
uses only those. Every script ends with a statement that is never skipped and that commits
(`Ended`), so no transaction outlives its script. Outside the five rebuilds statements are
`Tame`: they make no copy and drop and rename nothing of a rebuilt table. So a statement does one of five
things to a rebuilt table and its copy (`Effects`): nothing to their rows, or it makes the
copy, fills it, drops the table, or renames the copy.

`RowsStayInTheFile`, the first half of `RowsKept`, needs the inductive invariant `RowsInv`. It is about the committed file and what the open transaction sees
(`AllSights`), and about each table apart from those in `recreated` (`TableInv`): the rows are in the table or in
the copy (`Safe`); a process is at the drop only while the copy has them all wherever it looks
(`Droppable`), and at the rename only while there is no table (`Renameable`); one that is at
either keeps others from being there, because a full copy cannot be filled
again: the rows would have the same ids, and the `INSERT` raises.

`LeftInPlace`, the second half, is about processes that open the library one after another
and do not die, so its invariants may say where the one process is. `VersionsInv`: the version
only grows, and a migration runs (`Due`) only on a library that was not new. `DetailsInv`: only migration 24
loses details of statistics, only 25 their jobs. `CalmInv`: the library is `Rested` when no
process opens it, every row in its table and no copy, and `Fit` for the next statement of the
one that does: in a rebuild, `Midway` says line by line which of table and copy has the rows.

Its point is that no rebuild fails half way: the `INSERT` of each finds every column it
selects, and the indexes after it theirs. So the invariant tells what seven migrations add to
the rebuilt tables (`Gains`): a library whose version is past one has what it adds (`Level`),
so has a process past its line (`GainsKept`), and a rebuild makes its copy with all that was
gained before (`GainFacts`). Without it a statement could raise after the `DROP`, and
`CalmInv` would not be inductive. Only migration 24 begins a transaction before its rebuild,
and no statement fails from there on (`Copying`).

### LibraryUpgradeEnds

`UpgradesEnd`, for libraries of any versions and any number of processes, openings and
deaths. Its two halves need different invariants, because a process that died takes
nothing from the columns of a library but may leave its indexes out.

First, again, the scripts are summed up, so that later proofs do not see them:
`GentleShape` says of the 21 that rebuild nothing what they look at before they add or
create it, that an index finds its columns, and that between them they give each table
what `Since` has for their version; `Swaps` says of the five rebuilds which line makes,
fills, drops and renames; `Fresh` says of `create_schema()` that it makes every table in full.

Columns, with deaths. `AloneInv`: as long as no two processes met, the committed file is
`Sane` wherever the last one was cut. No table has a column that a new library lacks,
`jobs` has its last one only with all others, and nothing has a column that `create_schema()` indexes
before its version (`Plausible`); every table has the
columns of the version unless it is the one that a rebuild has dropped (`Reached`); a copy in the
file belongs to the rebuild that is still to be done, or `jobs` has been made anew
(`Leftover`). The process that is opening it is `OnItsWay`: a migration that rebuilds
nothing has done its earlier lines, or found them done by one that was cut (`Moving`), and
what it decided to leave out is what `PRAGMA table_info` showed it (`Looked`); a rebuild is in turn (`Turning`).
From the copy on, the rebuilds at 24 and 25 are transactions: the file never lacks their table, and at 25 holds
no copy of the migration's (`AllOrNothing`).
Then the only statement an upgrade can fail at is a rebuild's `CREATE` beside a copy
(`WayFails`), and what it fails at is `MeetsLeftover`; an upgrade that ends is at version 27, and
`Sane` at 27 is every column (`LastIsCurrent`).

Indexes, without. `ExactInv`: while nobody has died, the library between two openings is `Tidy`, all of its
version with its indexes and nothing ahead of it, and the process that is opening it has made
of it what its earlier lines make (`InTheOrder`). No copy is ever met then (`NoneFails`), for which
`CalmInv` of `LibraryUpgradeProofs` is needed.

Trying to prove it found a mistake in the model: the cases of `AfterScript` overlapped, which TLC
resolves by their order and TLA+ leaves open. They are now in order.

### Only model-checked

* Liveness: `QueuedJobsSettle`, `BatchEnds` in `StopsAndEnds`, `AllEnd`, `ShutdownEnds`.
  It needs fairness and ENABLED, which the proof system does not handle.
* The violated property, which a behaviour refutes.
* `PolicyPlan` and `PolicyFiles`: what they check is computed by recursive operators
  (conditions inside conditions), and needs an induction over data.
* `FiguresAgree` of `LibraryPages`: sums and counts over sets of records are folds
  (`MapThenSumSet`, `FoldLeft`), about which only induction would say anything.

## 16. Not modelled

* Reading and checking: configuration,
  tool detection, the parsing of `ffprobe`'s output, metadata providers, plugin loading.
  Straight-line code without state of its own that another part could disturb.
* Rendering, logging, formatting, `vpo db optimize`, `verify` and `logs`. Together with the
  item above they are most of the repository's lines.
* Transcription and what a plugin hears in a sample: numerical heuristics over external
  models; what a policy makes of their results is in `PolicyPlan` and `AnalysisCache`.
* Quality settings, hardware encoders, two passes, progress metrics, disk space
  estimates: data that no property tells apart; a failing encoder is `ToolFails`.
* Two processes that run phases on one film, the move service; `file_lock()`, `process_files()` and `MoveExecutor`, which nothing calls.

Other things met while modelling, too small for a run: the number of event streams is not
given back when `prepare()` fails (`server/api/events.py:125`), an encoder query that timed
out once is cached as "no encoders" for the life of the process
(`policy/synthesis/encoders.py:46`).

## 17. Running it

    tlc -config JobQueueSafety.cfg MCJobQueue
    tlc -config PhaseSafety.cfg MCPhaseExecution
    tlc -config PolicySafety.cfg MCPolicyPlan      (and PolicyAudioless.cfg)
    tlc -config BatchSafety.cfg MCBatchRun
    tlc -config LibrarySafety.cfg MCLibrary
    tlc -config DaemonSafety.cfg MCDaemon
    tlc -config UpgradeSafety.cfg MCLibraryUpgrade
    tlc -config AnalysisSafety.cfg MCAnalysisCache
    tlc -config BackupSafety.cfg MCLibraryBackup
    tlc -config PolicyFilesSafety.cfg MCPolicyFiles
    tlc -config PagesSafety.cfg MCLibraryPages
    tlapm DatabaseProofs.tla                       (and the other modules of theorems)

The longest runs, `jobqueue_safety`, `library_safety`, `daemon_safety`, `backup_safety` and `upgrade_safety`, take from one minute to
somewhat more than three each; a module of proofs
takes up to a few minutes from nothing, `DatabaseProofs` and the two on `LibraryUpgrade` about ten each.
