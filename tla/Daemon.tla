------------------------------- MODULE Daemon -------------------------------
(***************************************************************************)
(* The life of `vpo serve`: requests through the rate limiter, SIGHUP      *)
(* (src/vpo/server/config_reload.py), the auto-prune task and its thread   *)
(* (server/auto_prune.py), and the shutdown from the first signal to the   *)
(* exit (cli/serve.py, server/app.py, aiohttp's AppRunner.cleanup()).      *)
(*                                                                         *)
(* Everything in the event loop is one step up to its next await; the      *)
(* threads of a writing request and of a prune move between any two.  What *)
(* those two do to each other's transaction on the connection they share   *)
(* is the subject of module Library; here each has its own.                *)
(***************************************************************************)
EXTENDS RateLimiter

CONSTANTS
    Settings,    \* what a valid file can say: [limit, other], other being all the rest
    Defaults,    \* what an empty file says
    Starts,      \* how it is started: [file, home, env, prune, missing], the file of
                 \* --config, the default file, the limits in the environment, whether
                 \* it prunes and whether there is something to prune, with the bounds
                 \* ticks (of the clock) and stops (a signal and a kill; without one no
                 \* stream and no writing thread is begun that it could interrupt)
    MaxReloads,  \* bound: SIGHUPs
    MaxFaults    \* bound: statements of the prune that meet a locked database

Setting == [limit : Configs, other : Nat]

ASSUME DaemonAssumption ==
    /\ Settings \subseteq Setting
    /\ Defaults \in Settings /\ Defaults.limit = Default
    /\ Starts \subseteq [file : Settings, home : Settings, env : Configs \cup {None},
                         prune : BOOLEAN, missing : BOOLEAN,
                         ticks : 0..MaxClock, stops : 0..1]
    /\ MaxReloads \in Nat /\ MaxFaults \in Nat

VARIABLES
    current,   \* ConfigReloader._current_config
    error,     \* ReloadState.last_error is set
    reloads,   \* SIGHUPs so far
    started,   \* history: the start
    applied,   \* history: a reload has changed the limits
    stage,     \* how far run_server() is
    stream,    \* an event stream is open
    write,     \* the thread of a request that writes
    cut,       \* the drain ended by its timeout: the handlers were cancelled
    pool,      \* the connection pool is open
    task,      \* AutoPruneTask.run()
    prune,     \* the thread of _do_prune(): the statement it is at
    failed,    \* what PruneJobService.process() returns to it
    rows,      \* the rows of missing files in the database
    job,       \* the row of the prune's job
    left,      \* history: the stop did not wait for the prune
    faults     \* statements that met a locked database

reloadVars == <<current, error, reloads, applied>>
pruneVars == <<prune, failed, rows, job, faults>>
loopVars == <<stage, stream, cut, pool, task, left>>
vars == <<limiterVars, reloadVars, started, loopVars, write, pruneVars>>

\* get_config(): the environment goes before the file.  (Each limit has a variable of
\* its own; here they are set together.)
Loaded(file, env) == IF env = None THEN file ELSE [file EXCEPT !.limit = env]

\* create_app() makes the limiter from the default file, --config or not.
DaemonInit ==
    \E s \in Starts :
      /\ LimiterInit /\ config = Loaded(s.home, s.env).limit
      /\ started = s /\ current = Loaded(s.file, s.env)
      /\ error = FALSE /\ reloads = 0 /\ applied = FALSE
      /\ stage = "up" /\ stream = FALSE /\ cut = FALSE /\ pool = TRUE /\ left = FALSE
      /\ write = "none"
      /\ task = IF s.prune THEN "waiting" ELSE "ended"
      /\ prune = "none" /\ failed = FALSE /\ job = "none" /\ faults = 0
      /\ rows = IF s.missing THEN "missing" ELSE "none"

Serving == stage \in {"up", "signalled"}      \* signal handlers and sockets are in place
Over == stage \in {"exited", "killed"}
StopSet == ~Serving /\ stage # "draining"     \* AutoPruneTask.stop() was called
----------------------------------------------------------------------------
(* Time and requests *)

PassTime == Serving /\ clock < started.ticks /\ Tick /\ UNCHANGED <<reloadVars, started, loopVars, write, pruneVars>>

\* A request that writes nothing, or that is answered 503 by shutdown_check_middleware().
Answer(kind, c) ==
    /\ Serving
    /\ Admit(kind, c) \/ Refuse(kind, c) \/ Pass
    /\ UNCHANGED <<reloadVars, started, loopVars, write, pruneVars>>

\* A request that writes, in a thread of its own.
Accept(c) ==
    /\ stage = "up" /\ started.stops > 0
    /\ write = "none"       \* bound: one such request
    /\ Admit("mutate", c) \/ Pass
    /\ write' = "waiting"
    /\ UNCHANGED <<reloadVars, started, loopVars, pruneVars>>

\* transaction(): the write lock, and then BEGIN; without the pool it raises.
BeginWrite ==
    /\ write = "waiting" /\ ~Over
    /\ write' = IF pool THEN "locked" ELSE "refused"
    /\ UNCHANGED <<limiterVars, reloadVars, started, loopVars, pruneVars>>

EndWrite ==
    /\ write = "locked" /\ ~Over
    /\ write' = "done"
    /\ UNCHANGED <<limiterVars, reloadVars, started, loopVars, pruneVars>>

\* sse_jobs_handler(): nothing sets the event it looks for, so it ends with its client
\* or when it is cancelled.
OpenStream ==
    /\ stage = "up" /\ started.stops > 0 /\ ~stream
    /\ stream' = TRUE
    /\ UNCHANGED <<limiterVars, reloadVars, started, stage, cut, pool, task, left, write, pruneVars>>

ClientLeaves ==
    /\ stream /\ ~Over
    /\ stream' = FALSE
    /\ UNCHANGED <<limiterVars, reloadVars, started, stage, cut, pool, task, left, write, pruneVars>>
----------------------------------------------------------------------------
(* SIGHUP.  Nothing in reload() awaits: it is one step, and its lock is always free. *)

Reloadable == Serving /\ reloads < MaxReloads /\ reloads' = reloads + 1

\* A value the configuration's classes refuse: the old one stays.
ReloadFails ==
    /\ Reloadable
    /\ error' = TRUE
    /\ UNCHANGED <<limiterVars, current, applied, started, loopVars, write, pruneVars>>

\* Mutant: only switching the limiter on or off is seen as a change of it.
ApplySwitch(new) ==
    IF new.limit.enabled # current.limit.enabled THEN Reconfigure(new.limit)
                                                 ELSE UNCHANGED limiterVars

\* _apply_dynamic_updates(): the limiter, if what the file says of it has changed.
Apply(new) ==
    IF new.limit # current.limit THEN Reconfigure(new.limit) ELSE UNCHANGED limiterVars

\* A file that is missing or is not TOML reads as an empty one.
Reload(file) ==
    LET new == Loaded(file, started.env)
    IN  /\ Reloadable
        /\ Apply(new)
        /\ current' = new
        /\ error' = IF new = current THEN error ELSE FALSE
        /\ applied' = (applied \/ new.limit # current.limit)
        /\ UNCHANGED <<started, loopVars, write, pruneVars>>
----------------------------------------------------------------------------
(* The auto-prune task and its thread *)

\* _run_prune(): get_connection() waits for the write lock, in the event loop.
StartPrune ==
    /\ task = "waiting" /\ ~StopSet /\ ~Over /\ write # "locked"
    /\ job = "none"         \* bound: one prune
    /\ task' = "pruning" /\ prune' = "create" /\ failed' = FALSE
    /\ UNCHANGED <<limiterVars, reloadVars, started, stage, stream, cut, pool, left,
                   write, rows, job, faults>>

\* The statement the thread is at does what it should, ...
Statement(at, next) ==
    /\ prune = at /\ pool /\ ~Over
    /\ prune' = next
    /\ UNCHANGED <<limiterVars, reloadVars, started, loopVars, write, failed, faults>>

\* ... or raises, the connection being closed or another process holding the lock.
Raises(at, next) ==
    /\ prune = at /\ ~Over
    /\ pool => faults < MaxFaults
    /\ faults' = IF pool THEN faults + 1 ELSE faults
    /\ prune' = next
    /\ UNCHANGED <<limiterVars, reloadVars, started, loopVars, write, job>>

CreateJob ==
    \/ Statement("create", "select") /\ job' = "running" /\ UNCHANGED rows
    \/ Raises("create", "none") /\ UNCHANGED <<failed, rows>>

SelectMissing ==
    \/ Statement("select", IF rows = "missing" THEN "begin" ELSE "complete")
         /\ UNCHANGED <<job, rows>>
    \/ Raises("select", "complete") /\ failed' = TRUE /\ UNCHANGED rows

BeginDelete ==
    \/ Statement("begin", "delete") /\ UNCHANGED <<job, rows>>
    \/ Raises("begin", "complete") /\ failed' = TRUE /\ UNCHANGED rows

DeleteRows ==
    \/ Statement("delete", "commit") /\ rows' = "deleting" /\ UNCHANGED job
    \/ Raises("delete", "complete") /\ failed' = TRUE /\ UNCHANGED rows

CommitDelete ==
    \/ Statement("commit", "complete") /\ rows' = "deleted" /\ UNCHANGED job
    \/ Raises("commit", "complete") /\ failed' = TRUE /\ rows' = "missing"

\* complete_prune_job(): what it raises leaves the thread, and the row as it is.
CompleteJob ==
    \/ Statement("complete", "none") /\ UNCHANGED rows
         /\ job' = IF failed THEN "failed" ELSE "completed"
    \/ Raises("complete", "none") /\ UNCHANGED <<failed, rows>>

PruneThread ==
    CreateJob \/ SelectMissing \/ BeginDelete \/ DeleteRows \/ CommitDelete \/ CompleteJob

\* The task goes on when its thread has returned, and ends when it sees the stop event.
PruneReturns ==
    /\ task = "pruning" /\ prune = "none" /\ ~Over
    /\ task' = IF StopSet THEN "ended" ELSE "waiting"
    /\ UNCHANGED <<limiterVars, reloadVars, started, stage, stream, cut, pool, left,
                   write, pruneVars>>

PruneStops ==
    /\ task = "waiting" /\ StopSet /\ ~Over
    /\ task' = "ended"
    /\ UNCHANGED <<limiterVars, reloadVars, started, stage, stream, cut, pool, left,
                   write, pruneVars>>
----------------------------------------------------------------------------
(* The shutdown *)

GoOn(to) == stage' = to /\ UNCHANGED <<limiterVars, reloadVars, started, write>>

\* SIGTERM or SIGINT; another one before the handlers are removed changes nothing.
Signal ==
    /\ stage = "up" /\ started.stops > 0 /\ GoOn("signalled")
    /\ UNCHANGED <<stream, cut, pool, task, left, pruneVars>>

\* After half a second the handlers are removed, and runner.cleanup() closes the sockets.
Drain ==
    /\ stage = "signalled" /\ GoOn("draining")
    /\ UNCHANGED <<stream, cut, pool, task, left, pruneVars>>

\* A second signal then, or a kill at any time: an open transaction is rolled back.
Kill ==
    /\ ~Over /\ started.stops > 0 /\ stage' = "killed"
    /\ rows' = IF rows = "deleting" THEN "missing" ELSE rows
    /\ UNCHANGED <<limiterVars, reloadVars, started, stream, cut, pool, task, left, write,
                   prune, failed, job, faults>>

Handling == stream \/ (write \in {"waiting", "locked"} /\ ~cut)

Drained ==
    /\ stage = "draining" /\ ~Handling /\ GoOn("stopping")
    /\ UNCHANGED <<stream, cut, pool, task, left, pruneVars>>

\* Mutant: streams are waited for without end.
DrainTimeoutButStreams ==
    /\ stage = "draining" /\ Handling /\ ~cut
    /\ cut' = TRUE
    /\ UNCHANGED <<limiterVars, reloadVars, started, stage, stream, pool, task, left, write, pruneVars>>

\* aiohttp cancels what still runs after a minute; the thread of a request goes on.
DrainTimeout ==
    /\ stage = "draining" /\ Handling
    /\ cut' = TRUE /\ stream' = FALSE
    /\ UNCHANGED <<limiterVars, reloadVars, started, stage, pool, task, left, write, pruneVars>>

\* Mutant: the task is told to stop and not waited for.
StopPruneAtOnce ==
    /\ stage = "stopping" /\ GoOn("closing")
    /\ UNCHANGED <<stream, cut, pool, task, left, pruneVars>>

\* _stop_auto_prune_task(): waits for the task, ...
StopPrune ==
    /\ stage = "stopping" /\ task = "ended" /\ GoOn("closing")
    /\ UNCHANGED <<stream, cut, pool, task, left, pruneVars>>

\* ... for five seconds, and then cancels it; its thread goes on.
StopPruneTimeout ==
    /\ stage = "stopping" /\ task = "pruning" /\ GoOn("closing")
    /\ task' = "ended" /\ left' = TRUE
    /\ UNCHANGED <<stream, cut, pool, pruneVars>>

\* _cleanup_connection_pool(): close() waits for the write lock, which the prune's
\* thread does not hold; what that has not committed is rolled back.
ClosePool ==
    /\ stage = "closing" /\ write # "locked" /\ GoOn("joining")
    /\ pool' = FALSE
    /\ rows' = IF rows = "deleting" THEN "missing" ELSE rows
    /\ UNCHANGED <<stream, cut, task, left, prune, failed, job, faults>>

\* asyncio.run() joins the threads.
Exit ==
    /\ stage = "joining" /\ prune = "none" /\ write # "waiting" /\ GoOn("exited")
    /\ UNCHANGED <<stream, cut, pool, task, left, pruneVars>>

Finished == Over /\ UNCHANGED vars

Loop ==
    \/ Drain \/ Drained \/ DrainTimeout
    \/ StopPrune \/ StopPruneTimeout \/ ClosePool \/ Exit

Next ==
    \/ PassTime
    \/ \E c \in Clients : Accept(c) \/ \E kind \in Kinds : Answer(kind, c)
    \/ BeginWrite \/ EndWrite
    \/ OpenStream \/ ClientLeaves
    \/ ReloadFails \/ \E file \in Settings : Reload(file)
    \/ StartPrune \/ PruneThread \/ PruneReturns \/ PruneStops
    \/ Signal \/ Loop
    \/ Kill \/ Finished

Spec == DaemonInit /\ [][Next]_vars

\* Threads are scheduled, transactions end (a statement waits for a lock for thirty
\* seconds at most), timeouts elapse.
Fairness ==
    /\ WF_vars(BeginWrite \/ EndWrite)
    /\ WF_vars(PruneThread)
    /\ WF_vars(PruneReturns \/ PruneStops)
    /\ WF_vars(Loop)

FairSpec == Spec /\ Fairness
----------------------------------------------------------------------------
TypeOK ==
    /\ LimiterTypeOK
    /\ current \in Setting /\ started \in Starts
    /\ error \in BOOLEAN /\ applied \in BOOLEAN /\ reloads \in 0..MaxReloads
    /\ stage \in {"up", "signalled", "draining", "stopping", "closing", "joining",
                  "exited", "killed"}
    /\ stream \in BOOLEAN /\ cut \in BOOLEAN /\ pool \in BOOLEAN /\ left \in BOOLEAN
    /\ write \in {"none", "waiting", "locked", "done", "refused"}
    /\ task \in {"waiting", "pruning", "ended"}
    /\ prune \in {"none", "create", "select", "begin", "delete", "commit", "complete"}
    /\ failed \in BOOLEAN /\ faults \in 0..MaxFaults
    /\ rows \in {"none", "missing", "deleting", "deleted"}
    /\ job \in {"none", "running", "completed", "failed"}

\* The limits in force are those of the settings a reload compares the file with,
\* whatever files come and go: otherwise a change could be missed for ever.  For a daemon
\* whose --config has other limits than the default file it holds only from the first
\* reload on that changes them.
SnapshotInForce ==
    started.home.limit = started.file.limit \/ applied => config = current.limit

\* Closing the pool cuts no request's transaction, and turns a request away only when its
\* client has been cut off before.  A prune's job says what became of the rows, and one
\* is left running after an exit only if the stop gave up on the prune or the database
\* was locked.
ExitIsClean ==
    /\ ~pool => write # "locked"
    /\ write = "refused" => cut
    /\ job = "completed" => rows \in {"none", "deleted"}
    /\ job = "failed" => rows # "deleted"
    /\ stage = "exited" /\ job = "running" => left \/ faults > 0

\* Once told to, the daemon ends, whatever streams, requests and prunes it has.
ShutdownEnds == stage = "signalled" ~> Over
=============================================================================
