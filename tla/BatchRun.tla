----------------------------- MODULE BatchRun -----------------------------
(***************************************************************************)
(* `vpo process`: the threads of a pool run the policies, in order, on     *)
(* each file of a batch; the main thread collects the verdicts and stops   *)
(* the batch at the first failure (strictest error mode `fail`) or at      *)
(* Ctrl-C (src/vpo/cli/process.py, workflow/multi_policy.py,               *)
(* jobs/runner.py, jobs/cli_lifecycle.py, workflow/processor.py).          *)
(*                                                                         *)
(* How a phase changes the file is PhaseExecution's; here a phase has the  *)
(* effect on the file that the conditions of later phases look at.  The    *)
(* conversion of the container also renames the file.                      *)
(***************************************************************************)
EXTENDS PhaseGates

CONSTANTS
    N,          \* number of files; the pool's queue has them in order
    Workers,    \* number of threads
    Policies,   \* sequence of [onError, phases]; phases is a sequence of [name,
                \* dependsOn, ifModified, ifCompleted, skipWhen, onError, effect]
    Media,      \* what each file is when the batch begins
    Unscanned,  \* the files the library does not know
    MaxFaults   \* bound: updates of a job's row that fail

VARIABLES
    main,     \* the main thread: "collecting", "cancelling", "waiting", "done"
    stop,     \* stop_event
    future,   \* future[f]: "pending", "running", "finished", "cancelled"
    verdict,  \* verdict[f]: what the future of f returned
    results,  \* results[f]: what the main thread made of it
    work,     \* work[f]: the thread that runs f
    media,    \* media[f]: the file
    library,  \* library[f]: what the database says of it, None when unknown
    renamed,  \* the files that left their path
    jobs,     \* jobs[f][p]: status of the job of policy p on f
    faults,   \* updates that have failed
    late      \* jobs created since stop was set

vars == <<main, stop, future, verdict, results, work, media, library, renamed,
          jobs, faults, late>>
batch == <<main, stop, future, verdict, results>>
files == <<media, library, renamed>>
rows  == <<jobs, faults, late>>

Files == 1..N
Modes == {"continue", "skip", "fail"}
Names == {ph.name : ph \in UNION {Range(Policies[p].phases) : p \in DOMAIN Policies}}

\* A policy that loads has phases of different names, which depend on earlier ones.
ASSUME BatchAssumption ==
    /\ N \in Nat /\ Workers \in Nat \ {0} /\ MaxFaults \in Nat /\ Unscanned \subseteq Files
    /\ Media = [f \in Files |-> Media[f]]
    /\ Len(Policies) \in Nat \ {0} /\ DOMAIN Policies = 1..Len(Policies)
    /\ \A p \in DOMAIN Policies :
         LET phases == Policies[p].phases
         IN  /\ Policies[p].onError \in Modes
             /\ Len(phases) \in Nat \ {0} /\ DOMAIN phases = 1..Len(phases)
             /\ \A k \in DOMAIN phases :
                  phases[k].dependsOn \subseteq {phases[j].name : j \in 1..(k - 1)}
             /\ \A j, k \in DOMAIN phases : phases[j].name = phases[k].name => j = k

Steps == {"between", "job", "phase", "refused", "unknown", "record", "fail"}
Fresh(policy, succeeded) ==
    [step |-> "between", policy |-> policy, phase |-> 1, succeeded |-> succeeded,
     outcome |-> [n \in Names |-> "pending"], modified |-> {}, failed |-> {}, known |-> None]
Idle == Fresh(1, TRUE)

Running(f)  == future[f] = "running"
In(f, step) == Running(f) /\ work[f].step = step
PolicyOf(f) == Policies[work[f].policy]
PhaseOf(f)  == PolicyOf(f).phases[work[f].phase]

Init ==
    /\ main = "collecting" /\ stop = FALSE
    /\ future  = [f \in Files |-> "pending"]
    /\ verdict = [f \in Files |-> "none"]
    /\ results = [f \in Files |-> "none"]
    /\ work    = [f \in Files |-> Idle]
    /\ media   = Media
    /\ library = [f \in Files |-> IF f \in Unscanned THEN None ELSE Media[f]]
    /\ renamed = {}
    /\ jobs    = [f \in Files |-> [p \in DOMAIN Policies |-> "none"]]
    /\ faults  = 0 /\ late = 0

----------------------------------------------------------------------------
(* A thread and its file: _process_single_file(), run_policies_for_file(). *)

\* The future of f returns v; nothing of the thread's own state outlives it.
Return(f, v) ==
    /\ future'  = [future EXCEPT ![f] = "finished"]
    /\ verdict' = [verdict EXCEPT ![f] = v]
    /\ work'    = [work EXCEPT ![f] = Idle]
    /\ UNCHANGED <<main, stop, results>>

VerdictOf(succeeded) == IF succeeded THEN "ok" ELSE "failed"

\* A free thread takes the first pending file, and gives it up if told to stop.
StartFile(f) ==
    /\ future[f] = "pending" /\ \A g \in 1..(f - 1) : future[g] # "pending"
    /\ Cardinality({g \in Files : Running(g)}) < Workers
    /\ IF stop THEN Return(f, "none")
               ELSE /\ future' = [future EXCEPT ![f] = "running"]
                    /\ UNCHANGED <<main, stop, verdict, results, work>>
    /\ UNCHANGED <<files, rows>>

\* Mutant: a thread looks at the stop event only when it takes a file.
CheckNothing(f) ==
    /\ In(f, "between")
    /\ work' = [work EXCEPT ![f].step = "job"] /\ UNCHANGED batch
    /\ UNCHANGED <<files, rows>>

\* The stop event is looked at between policies only.  A file none of whose
\* policies ran has failed; one stopped later keeps the verdict it has.
CheckStop(f) ==
    /\ In(f, "between")
    /\ IF stop THEN Return(f, VerdictOf(work[f].policy > 1 /\ work[f].succeeded))
               ELSE work' = [work EXCEPT ![f].step = "job"] /\ UNCHANGED batch
    /\ UNCHANGED <<files, rows>>

\* Mutant: the last policy is not known as such.
EndPolicyPast(f, ok) ==
    LET succeeded == work[f].succeeded /\ ok
        last      == work[f].policy > Len(Policies)
        broken    == ~ok /\ Len(Policies) > 1 /\ PolicyOf(f).onError # "continue"
    IN  IF last \/ broken
          THEN Return(f, VerdictOf(succeeded))
          ELSE /\ work' = [work EXCEPT ![f] = Fresh(work[f].policy + 1, succeeded)]
               /\ UNCHANGED batch

\* The policy of f is over; another follows unless it failed and asks not to.
EndPolicy(f, ok) ==
    LET succeeded == work[f].succeeded /\ ok
        last      == work[f].policy = Len(Policies)
        broken    == ~ok /\ Len(Policies) > 1 /\ PolicyOf(f).onError # "continue"
    IN  IF last \/ broken
          THEN Return(f, VerdictOf(succeeded))
          ELSE /\ work' = [work EXCEPT ![f] = Fresh(work[f].policy + 1, succeeded)]
               /\ UNCHANGED batch

SetJob(f, status) == jobs' = [jobs EXCEPT ![f][work[f].policy] = status]

\* on_job_start(): the row is committed, in status running.
CreateJob(f) == SetJob(f, "running") /\ late' = (IF stop THEN late + 1 ELSE late)

\* It raises: the exception leaves the loop over the policies, whose results
\* are lost.
JobNotCreated(f) ==
    /\ In(f, "job") /\ faults < MaxFaults /\ faults' = faults + 1
    /\ Return(f, "failed")
    /\ UNCHANGED <<files, jobs, late>>

\* Mutant: the job is left as it was created.
InputMissingUntold(f) ==
    /\ In(f, "job") /\ f \in renamed
    /\ CreateJob(f) /\ Return(f, "failed")
    /\ UNCHANGED <<files, faults>>

\* run_single(): the path given to every policy is the one the batch began with.
InputMissing(f) ==
    /\ In(f, "job") /\ f \in renamed
    /\ CreateJob(f) /\ work' = [work EXCEPT ![f].step = "fail"]
    /\ UNCHANGED <<batch, files, faults>>

\* process_file(): too little space for the file, or no row for it; its phases
\* do not run.
DiskLow(f) ==
    /\ In(f, "job") /\ f \notin renamed
    /\ CreateJob(f) /\ work' = [work EXCEPT ![f].step = "refused"]
    /\ UNCHANGED <<batch, files, faults>>

NotInLibrary(f) ==
    /\ In(f, "job") /\ f \notin renamed /\ library[f] = None
    /\ CreateJob(f) /\ work' = [work EXCEPT ![f].step = "unknown"]
    /\ UNCHANGED <<batch, files, faults>>

BeginPhases(f) ==
    /\ In(f, "job") /\ f \notin renamed /\ library[f] # None
    /\ CreateJob(f) /\ work' = [work EXCEPT ![f].step = "phase", ![f].known = library[f]]
    /\ UNCHANGED <<batch, files, faults>>

----------------------------------------------------------------------------
(* WorkflowProcessor.process_file(): one step per phase.                   *)

\* The phase of f ended so; the next one, or the record of the job, follows.
EndPhase(f, became, change, failed, known, over) ==
    LET name == PhaseOf(f).name
        last == work[f].phase = Len(PolicyOf(f).phases)
    IN  work' = [work EXCEPT
          ![f].outcome[name] = became,
          ![f].modified = IF change THEN @ \cup {name} ELSE @,
          ![f].failed = IF failed THEN @ \cup {name} ELSE @,
          ![f].known = known,
          ![f].phase = @ + 1,
          ![f].step = IF last \/ over THEN "record" ELSE "phase"]

Affected(file, effect) ==
    [x \in DOMAIN file |-> IF x \in DOMAIN effect THEN effect[x] ELSE file[x]]

ChangeFile(f) == media' = [media EXCEPT ![f] = Affected(@, PhaseOf(f).effect)]
Rename(f) ==
    renamed' = IF "container" \in DOMAIN PhaseOf(f).effect THEN renamed \cup {f} ELSE renamed

\* Mutant: the phase's own mode is not looked at.
EndsByPolicy(f) == PolicyOf(f).onError # "continue"

\* An error mode of `skip` and of `fail` both end the phases of this file.
Ends(f) == EffectiveOnError(PolicyOf(f), PhaseOf(f)) # "continue"

IsSkipped(f) == Skipped(PhaseOf(f), work[f].known, work[f].outcome, work[f].modified)

SkipPhase(f) ==
    /\ In(f, "phase") /\ IsSkipped(f)
    /\ EndPhase(f, "skipped", FALSE, FALSE, work[f].known, FALSE)
    /\ UNCHANGED <<batch, files, rows>>

\* The phase finds nothing to change.
IdlePhase(f) ==
    /\ In(f, "phase") /\ ~IsSkipped(f)
    /\ EndPhase(f, "completed", FALSE, FALSE, work[f].known, FALSE)
    /\ UNCHANGED <<batch, files, rows>>

\* It changes the file, and the file is introspected again.
ChangingPhase(f) ==
    /\ In(f, "phase") /\ ~IsSkipped(f)
    /\ ChangeFile(f) /\ Rename(f)
    /\ library' = [library EXCEPT ![f] = media'[f]]
    /\ EndPhase(f, "completed", TRUE, FALSE, media'[f], FALSE)
    /\ UNCHANGED <<batch, rows>>

\* It changes the file, which can then not be introspected: a phase that has
\* been counted as completed fails.
UnreadablePhase(f) ==
    /\ In(f, "phase") /\ ~IsSkipped(f)
    /\ ChangeFile(f) /\ Rename(f)
    /\ EndPhase(f, "failed", FALSE, TRUE, work[f].known, Ends(f))
    /\ UNCHANGED <<batch, library, rows>>

\* It raises PhaseExecutionError; an operation that had changed the file may
\* not be rolled back.
FailingPhase(f) ==
    /\ In(f, "phase") /\ ~IsSkipped(f)
    /\ (ChangeFile(f) /\ Rename(f)) \/ UNCHANGED <<media, renamed>>
    /\ EndPhase(f, "failed", FALSE, TRUE, work[f].known, Ends(f))
    /\ UNCHANGED <<batch, library, rows>>

\* The tracks of the changed file cannot be written to the library: an error no
\* handler of process_file() catches.
EscapingPhase(f) ==
    /\ In(f, "phase") /\ ~IsSkipped(f)
    /\ faults < MaxFaults /\ faults' = faults + 1
    /\ ChangeFile(f) /\ Rename(f)
    /\ work' = [work EXCEPT ![f].step = "fail"]
    /\ UNCHANGED <<batch, library, jobs, late>>

----------------------------------------------------------------------------
(* run_single(): what becomes of the job.                                  *)

\* on_job_complete().
CompleteJob(f) ==
    LET ok == work[f].step = "record" /\ work[f].failed = {}
    IN  /\ In(f, "record") \/ In(f, "refused")
        /\ SetJob(f, IF ok THEN "completed" ELSE "failed") /\ EndPolicy(f, ok)
        /\ UNCHANGED <<files, faults, late>>

\* A file the library does not know ends its policies; the batch calls it so if
\* the first policy says so.
CompleteUnknown(f) ==
    /\ In(f, "unknown")
    /\ SetJob(f, "failed")
    /\ Return(f, IF work[f].policy = 1 THEN "notInLibrary" ELSE "failed")
    /\ UNCHANGED <<files, faults, late>>

\* It raises, and the job is failed instead.
JobNotCompleted(f) ==
    /\ \E step \in {"record", "refused", "unknown"} : In(f, step)
    /\ faults < MaxFaults /\ faults' = faults + 1
    /\ work' = [work EXCEPT ![f].step = "fail"]
    /\ UNCHANGED <<batch, files, jobs, late>>

\* on_job_fail().
FailJob(f) ==
    /\ In(f, "fail")
    /\ SetJob(f, "failed") /\ EndPolicy(f, FALSE)
    /\ UNCHANGED <<files, faults, late>>

\* Its retries fail too: the row stays running.
OrphanJob(f) ==
    /\ In(f, "fail") /\ faults < MaxFaults /\ faults' = faults + 1
    /\ EndPolicy(f, FALSE)
    /\ UNCHANGED <<files, jobs, late>>

----------------------------------------------------------------------------
(* The main thread: process_command().                                     *)

mainLeaves == <<future, verdict, work, files, rows>>

\* as_completed() yields a finished file; `fail` ends the batch at a failure.
\* The results of the files that are still running are then not waited for.
Collect(f) ==
    LET aborts == verdict[f] = "failed" /\ StrictestMode(Policies) = "fail"
    IN  /\ main = "collecting" /\ future[f] = "finished" /\ results[f] = "none"
        /\ results' = [results EXCEPT ![f] = verdict[f]]
        /\ stop' = aborts
        /\ main' = IF aborts THEN "cancelling" ELSE main
        /\ UNCHANGED mainLeaves

\* Ctrl-C.
Interrupt ==
    /\ main = "collecting"
    /\ stop' = TRUE /\ main' = "cancelling"
    /\ UNCHANGED <<results, mainLeaves>>

\* Future.cancel() has no effect on a file that is running.
CancelPending ==
    /\ main = "cancelling"
    /\ future' = [f \in Files |-> IF future[f] = "pending" THEN "cancelled" ELSE future[f]]
    /\ main' = "waiting"
    /\ UNCHANGED <<stop, verdict, results, work, files, rows>>

\* Mutant: shutdown waits for the cancelled files too.
FinishAll ==
    /\ \/ main = "collecting" /\ \A f \in Files : results[f] # "none"
       \/ main = "waiting" /\ \A f \in Files : future[f] = "finished"
    /\ main' = "done"
    /\ UNCHANGED <<stop, results, mainLeaves>>

\* Every result is in, or shutdown(wait=True) returns.
Finish ==
    /\ \/ main = "collecting" /\ \A f \in Files : results[f] # "none"
       \/ main = "waiting" /\ \A f \in Files : ~Running(f)
    /\ main' = "done"
    /\ UNCHANGED <<stop, results, mainLeaves>>

Phase(f) ==
    \/ SkipPhase(f) \/ IdlePhase(f) \/ ChangingPhase(f)
    \/ UnreadablePhase(f) \/ FailingPhase(f) \/ EscapingPhase(f)

Job(f) ==
    \/ JobNotCreated(f) \/ InputMissing(f) \/ DiskLow(f) \/ NotInLibrary(f) \/ BeginPhases(f)
    \/ CompleteJob(f) \/ CompleteUnknown(f) \/ JobNotCompleted(f) \/ FailJob(f) \/ OrphanJob(f)

Thread(f) == StartFile(f) \/ CheckStop(f) \/ Job(f) \/ Phase(f)

Main == (\E f \in Files : Collect(f)) \/ CancelPending \/ Finish

Next == (\E f \in Files : Thread(f)) \/ Main \/ Interrupt

\* Every thread and the main thread are scheduled, and a phase ends.
Spec == Init /\ [][Next]_vars /\ (\A f \in Files : WF_vars(Thread(f))) /\ WF_vars(Main)

----------------------------------------------------------------------------
(* Correctness.                                                            *)

TypeOK ==
    /\ main \in {"collecting", "cancelling", "waiting", "done"} /\ stop \in BOOLEAN
    /\ future \in [Files -> {"pending", "running", "finished", "cancelled"}]
    /\ verdict \in [Files -> {"none", "ok", "failed", "notInLibrary"}]
    /\ results \in [Files -> {"none", "ok", "failed", "notInLibrary"}]
    /\ DOMAIN work = Files
    /\ \A f \in Files :
         /\ work[f].step \in Steps /\ work[f].succeeded \in BOOLEAN
         /\ work[f].policy \in DOMAIN Policies
         /\ work[f].step = "phase" => work[f].phase \in DOMAIN PolicyOf(f).phases
         /\ work[f].outcome \in [Names -> {"pending", "completed", "failed", "skipped"}]
         /\ work[f].modified \subseteq Names /\ work[f].failed \subseteq Names
    /\ DOMAIN media = Files /\ DOMAIN library = Files /\ renamed \subseteq Files
    /\ jobs \in [Files -> [DOMAIN Policies -> {"none", "running", "completed", "failed"}]]
    /\ faults \in 0..MaxFaults /\ late \in Nat

\* A file the batch reports as processed has, for every policy, a job that
\* completed: neither a stop between two policies, nor a policy whose failure is
\* let pass, nor a job that could not be recorded, is reported as a success.
OkMeansAll ==
    \A f \in Files : results[f] = "ok" => \A p \in DOMAIN Policies : jobs[f][p] = "completed"

\* A phase runs only on the work of the phases it depends on: each of them
\* completed, and has not failed after that for want of a readable file.
CompletedDependencies ==
    \A f \in Files : \A k \in DOMAIN PolicyOf(f).phases :
        LET ph == PolicyOf(f).phases[k]
        IN  work[f].outcome[ph.name] \in {"completed", "failed"} =>
              \A d \in ph.dependsOn : work[f].outcome[d] = "completed" /\ d \notin work[f].failed

\* No phase of the policy follows one that failed, unless the error mode in force
\* for that phase, its own before the policy's, is to continue.
OnErrorStops ==
    \A f \in Files : \A j, k \in DOMAIN PolicyOf(f).phases :
        /\ j < k /\ PolicyOf(f).phases[j].name \in work[f].failed
        /\ EffectiveOnError(PolicyOf(f), PolicyOf(f).phases[j]) # "continue"
        => work[f].outcome[PolicyOf(f).phases[k].name] = "pending"

\* The conditions of a phase are evaluated on the file as it is, in the first
\* policy and in those after it, as long as nothing has failed.
KnownIsReal ==
    \A f \in Files :
        /\ In(f, "phase") /\ work[f].failed = {}
        /\ \A p \in 1..(work[f].policy - 1) : jobs[f][p] = "completed"
        => work[f].known = media[f] /\ library[f] = media[f]

\* What runs is what the policy's order, dependencies and error modes let run on the
\* file as it is.
PhasesFollow == CompletedDependencies /\ OnErrorStops /\ KnownIsReal

\* Once the batch is stopped a thread begins at most the policy it had decided
\* on, whatever is left in the pool's queue and in the list of policies.
StopTakesEffect == late <= Workers

\* The jobs that say they are running, and are not.
Orphans ==
    {job \in Files \X DOMAIN Policies :
       /\ jobs[job[1]][job[2]] = "running"
       /\ ~(Running(job[1]) /\ work[job[1]].policy = job[2])}

\* A job whose processing is over says so: at most one stays running for each
\* update of a job's row that failed.
NoOrphans == Cardinality(Orphans) <= faults

\* What the jobs and the results say of a file is what became of it.
JobsTell == OkMeansAll /\ NoOrphans

\* The batch ends, stopped or not, and one that nobody stopped reports every file.
BatchEnds == <>(main = "done" /\ (stop \/ \A f \in Files : results[f] # "none"))

\* A batch that is stopped begins nothing more, and every batch ends.
StopsAndEnds == []StopTakesEffect /\ BatchEnds
=============================================================================
