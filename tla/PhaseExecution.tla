--------------------------- MODULE PhaseExecution ---------------------------
(***************************************************************************)
(* One film of the library while a policy rewrites it: the phases of       *)
(* WorkflowProcessor.process_file(), the operations of                     *)
(* PhaseExecutor.execute_phase(), and what each executor does to the film, *)
(* its backup and its temporary output.                                    *)
(*                                                                         *)
(* A step is one call that other processes can observe or that can fail: a *)
(* copy takes two steps, so it can be cut short; a rename takes one.       *)
(* Between two steps the process may be killed or interrupted by Ctrl+C    *)
(* (KeyboardInterrupt is caught by none of the handlers), and a later run  *)
(* may start on what is left.  What a plan does to the tracks is left out: *)
(* each operation that succeeds makes the next version of the film.        *)
(***************************************************************************)
EXTENDS Naturals, Sequences

CONSTANTS
  Policies,       \* the policies a run may be given
  Absent,         \* no such file
  Torn,           \* a file of which only a part was written
  Other,          \* another film of the library
  None,           \* Python None
  Occupied,       \* does another film hold the name the conversion makes
  TempElsewhere,  \* is temp_directory on a file system of its own
  MaxRuns         \* bound: runs of process_file() on this film

Kinds == {"edit",       \* mkvpropedit: writes into the film
          "remux",      \* mkvmerge, ffmpeg: temporary output, then replace()
          "convert",    \* the same with a new container: the name changes
          "transcode"}  \* TranscodeExecutor: temporary output, then move()
Modes == {"fail", "skip", "continue"}   \* OnErrorMode
Names == {"src", "dst"}                 \* film.avi, film.mkv

Phase  == [ops : Seq(Kinds), onError : Modes \union {None}]
Policy == [phases : Seq(Phase), onError : Modes]

ASSUME PoliciesAssumption == Policies \subseteq Policy

ASSUME NamesAssumption ==
  /\ Absent \notin Nat /\ Torn \notin Nat /\ Other \notin Nat
  /\ Absent # Torn /\ Absent # Other /\ Torn # Other
  /\ None \notin Modes

ASSUME ModesAssumption ==
  /\ Occupied \in BOOLEAN
  /\ TempElsewhere \in BOOLEAN
  /\ MaxRuns \in Nat

VARIABLES
  file,     \* file[n]: what is stored under each name
  backup,   \* backup[n]: what is stored under <n>.vpo-backup
  temp,     \* the temporary output of the executor that runs
  row,      \* files.path of the film, committed
  pending,  \* files.path as the process's own transaction sees it
  tracks,   \* the version of the film the tracks table describes
  pc,       \* where the process is
  policy,   \* its policy
  ph,       \* index of the phase
  op,       \* index of the operation in the phase
  path,     \* process_file(): file_path
  cur,      \* PhaseExecutionState.file_path
  known,    \* the version of the film file_info describes
  before,   \* the film when the phase began (for FreshTracks)
  input,    \* the film when the operation began
  changed,  \* total_changes > 0
  runs,     \* runs so far (bound)
  events    \* what went wrong so far (for the properties)

disk  == <<file, backup, temp>>
db    == <<row, pending, tracks>>
place == <<policy, ph, op, path, cur>>
facts == <<known, before, input, changed>>
vars  == <<disk, db, pc, place, facts, runs, events>>

Content == Nat \union {Absent, Torn, Other}
Whole(c) == c \in Nat

PCs == {"idle", "phase", "backup", "op", "opBackup", "ready", "running",
        "written", "moving", "replaced", "settled", "opDone", "restore",
        "restoring", "opError", "cleanup", "phaseDone", "introspect",
        "phaseError", "persist"}

Events == {"interrupted", "dbError", "unlinkFailed", "phaseError", "rerunTorn",
           "restoreFailed", "moveCut"}

TypeOK ==
  /\ file \in [Names -> Content]
  /\ backup \in [Names -> Content]
  /\ temp \in Content
  /\ row \in Names
  /\ pending \in Names
  /\ tracks \in Content
  /\ pc \in PCs
  /\ policy \in Policies
  /\ ph \in Nat
  /\ op \in Nat
  /\ path \in Names
  /\ cur \in Names
  /\ known \in Content
  /\ before \in Content
  /\ input \in Content
  /\ changed \in BOOLEAN
  /\ runs \in 0 .. MaxRuns
  /\ events \subseteq Events

Init ==
  /\ file = [n \in Names |-> IF n = "src" THEN 0 ELSE IF Occupied THEN Other ELSE Absent]
  /\ backup = [n \in Names |-> Absent]
  /\ temp = Absent
  /\ row = "src"
  /\ pending = "src"
  /\ tracks = 0
  /\ pc = "idle"
  /\ policy \in Policies
  /\ ph = 1
  /\ op = 1
  /\ path = "src"
  /\ cur = "src"
  /\ known = 0
  /\ before = 0
  /\ input = 0
  /\ changed = FALSE
  /\ runs = 0
  /\ events = {}

-----------------------------------------------------------------------------
(* The phase and the operation the process is at.                          *)

Phases  == policy.phases
ThisPhase == Phases[ph]
Ops     == ThisPhase.ops
Kind    == Ops[op]

(* The executors that make a backup of their own, under the same name.     *)
OwnBackup == {"edit", "remux", "convert"}

(* output_path of the executor *)
Output == IF Kind = "convert" THEN "dst" ELSE cur

(* What the tool makes of its input: the next version, unless the input was *)
(* damaged already.                                                        *)
Result == IF Whole(input) THEN input + 1 ELSE input

(* _get_effective_on_error() *)
PhaseMode == IF ThisPhase.onError = None THEN policy.onError ELSE ThisPhase.onError

Happened(e) == events' = events \union e

-----------------------------------------------------------------------------
(* process_file(): the loop over the phases.                               *)

(* The runner looks for the file on disk, process_file() for its row; if    *)
(* either is missing nothing happens.  A film that is damaged is not looked *)
(* at before it is worked on.                                              *)
StartFile ==
  /\ pc = "idle"
  /\ runs < MaxRuns
  /\ file[row] # Absent
  /\ pc' = "phase"
  /\ policy' \in Policies
  /\ ph' = 1
  /\ op' = 1
  /\ path' = row
  /\ cur' = row
  /\ known' = tracks
  /\ changed' = FALSE
  /\ runs' = runs + 1
  /\ Happened(IF file[row] = Torn THEN {"rerunTorn"} ELSE {})
  /\ UNCHANGED <<disk, db, before, input>>

(* depends_on, skip_when or run_if says no, or the phase has no operation. *)
SkipPhase ==
  /\ pc = "phase"
  /\ ph <= Len(Phases)
  /\ ph' = ph + 1
  /\ UNCHANGED <<disk, db, pc, policy, op, path, cur, facts, runs, events>>

(* create_backup() of the phase: copy2 onto whatever was there.            *)
BeginBackup ==
  /\ pc = "phase"
  /\ ph <= Len(Phases)
  /\ Ops # <<>>
  /\ file[path] # Absent
  /\ backup' = [backup EXCEPT ![path] = Torn]
  /\ pc' = "backup"
  /\ cur' = path
  /\ before' = file[path]
  /\ changed' = FALSE
  /\ UNCHANGED <<file, temp, db, policy, ph, op, path, known, input, runs, events>>

EndBackup ==
  /\ pc = "backup"
  /\ backup' = [backup EXCEPT ![path] = file[path]]
  /\ pc' = "op"
  /\ op' = 1
  /\ UNCHANGED <<file, temp, db, policy, ph, path, cur, facts, runs, events>>

(* create_backup() returns None: there is no film, or the disk is full     *)
(* before or during the copy.  execute_phase() raises.                     *)
BackupFails ==
  /\ \/ pc = "phase" /\ ph <= Len(Phases) /\ Ops # <<>> /\ before' = file[path]
     \/ pc = "backup" /\ UNCHANGED before
  /\ pc' = "phaseError"
  /\ cur' = path
  /\ UNCHANGED <<disk, db, policy, ph, op, path, known, input, changed, runs, events>>

(* Faulty: file_info is kept from one phase to the next.                   *)
EndPhaseWithoutIntrospection ==
  /\ pc = "phaseDone"
  /\ path' = cur
  /\ row' = IF cur # path THEN pending ELSE row
  /\ pc' = "phase"
  /\ ph' = ph + 1
  /\ UNCHANGED <<disk, pending, tracks, policy, op, cur, facts, runs, events>>

(* The phase is over: a new path is committed.                             *)
EndPhase ==
  /\ pc = "phaseDone"
  /\ path' = cur
  /\ row' = IF cur # path THEN pending ELSE row
  /\ IF changed
     THEN pc' = "introspect" /\ UNCHANGED ph
     ELSE pc' = "phase" /\ ph' = ph + 1
  /\ UNCHANGED <<disk, pending, tracks, policy, op, cur, facts, runs, events>>

(* _re_introspect(): ffprobe, then the tracks in a transaction of its own. *)
Introspect ==
  /\ pc = "introspect"
  /\ file[path] # Absent
  /\ tracks' = file[path]
  /\ known' = file[path]
  /\ pc' = "phase"
  /\ ph' = ph + 1
  /\ UNCHANGED <<disk, row, pending, policy, op, path, cur, before, input, changed,
                 runs, events>>

(* MediaIntrospectionError, raised again as PhaseExecutionError            *)
IntrospectFails ==
  /\ pc = "introspect"
  /\ pc' = "phaseError"
  /\ UNCHANGED <<disk, db, place, facts, runs, events>>

(* PhaseExecutionError: stop, or go on with the path and the file_info the *)
(* phase began with.                                                       *)
PhaseFails ==
  /\ pc = "phaseError"
  /\ IF PhaseMode = "continue"
     THEN pc' = "phase" /\ ph' = ph + 1
     ELSE pc' = "persist" /\ UNCHANGED ph
  /\ Happened({"phaseError"})
  /\ UNCHANGED <<disk, db, policy, op, path, cur, facts, runs>>

LastPhaseDone ==
  /\ pc = "phase"
  /\ ph > Len(Phases)
  /\ pc' = "persist"
  /\ UNCHANGED <<disk, db, place, facts, runs, events>>

(* StatsCollector.persist() commits whatever the connection holds, or rolls *)
(* it back.                                                                *)
Persist ==
  /\ pc = "persist"
  /\ pc' = "idle"
  /\ row' = pending
  /\ UNCHANGED <<disk, pending, tracks, place, facts, runs, events>>

PersistFails ==
  /\ pc = "persist"
  /\ pc' = "idle"
  /\ pending' = row
  /\ Happened({"dbError"})
  /\ UNCHANGED <<disk, row, tracks, place, facts, runs>>

(* SIGKILL, a power cut, Ctrl+C.  SQLite drops the open transaction; the    *)
(* next executor writes a temporary output of its own.                     *)
Killed ==
  /\ pc # "idle"
  /\ pc' = "idle"
  /\ temp' = Absent
  /\ pending' = row
  /\ Happened({"interrupted"} \union (IF pc = "moving" THEN {"moveCut"} ELSE {}))
  /\ UNCHANGED <<file, backup, row, tracks, place, facts, runs>>

(* The database is locked at the commit of the new path or at BEGIN         *)
(* IMMEDIATE: the exception ends process_file().  The runner then records   *)
(* the failure on the same connection, which commits the path or does not. *)
Aborts ==
  /\ \/ pc = "phaseDone" /\ cur # path
     \/ pc = "introspect"
  /\ pc' = "idle"
  /\ \/ row' = pending /\ UNCHANGED pending
     \/ pending' = row /\ UNCHANGED row
  /\ Happened({"interrupted"})
  /\ UNCHANGED <<disk, tracks, place, facts, runs>>

-----------------------------------------------------------------------------
(* execute_phase(): the loop over the operations.                          *)

AtOp == pc = "op" /\ op <= Len(Ops)

(* No change is needed, a policy constraint forbids it, or the filters have *)
(* run already.  A film that needs no transcode may still count as changed. *)
OpNothing ==
  /\ AtOp
  /\ op' = op + 1
  /\ \/ UNCHANGED changed
     \/ Kind = "transcode" /\ changed' = TRUE
  /\ UNCHANGED <<disk, db, pc, policy, ph, path, cur, known, before, input, runs, events>>

(* The evaluation raises, no tool can do it, or the disk is too full.      *)
OpRefused ==
  /\ AtOp
  /\ pc' = "opError"
  /\ input' = file[cur]
  /\ UNCHANGED <<disk, db, place, known, before, changed, runs, events>>

(* Faulty: the new path is committed before the tool has made the file.    *)
OpBackupEndsAfterCommit ==
  /\ pc = "opBackup"
  /\ backup' = [backup EXCEPT ![cur] = file[cur]]
  /\ pc' = "ready"
  /\ row' = Output
  /\ pending' = Output
  /\ UNCHANGED <<file, temp, tracks, place, facts, runs, events>>

(* The executor's create_backup(): unlink what is there, then copy2.       *)
OpBackup ==
  /\ AtOp
  /\ Kind \in OwnBackup
  /\ file[cur] # Absent
  /\ backup' = [backup EXCEPT ![cur] = Torn]
  /\ input' = file[cur]
  /\ pc' = "opBackup"
  /\ UNCHANGED <<file, temp, db, place, known, before, changed, runs, events>>

OpBackupEnds ==
  /\ pc = "opBackup"
  /\ backup' = [backup EXCEPT ![cur] = file[cur]]
  /\ pc' = "ready"
  /\ UNCHANGED <<file, temp, db, place, facts, runs, events>>

(* The copy fails, or the command cannot be built: nothing is restored.    *)
OpGivesUp ==
  /\ pc \in {"opBackup", "ready"}
  /\ pc' = "opError"
  /\ UNCHANGED <<disk, db, place, facts, runs, events>>

(* The tool starts to write.                                               *)
RunTool ==
  /\ \/ pc = "ready" /\ UNCHANGED input
     \/ AtOp /\ Kind = "transcode" /\ file[cur] # Absent /\ input' = file[cur]
  /\ pc' = "running"
  /\ IF Kind = "edit"
     THEN file' = [file EXCEPT ![cur] = Torn] /\ UNCHANGED temp
     ELSE temp' = Torn /\ UNCHANGED file
  /\ UNCHANGED <<backup, db, place, known, before, changed, runs, events>>

ToolSucceeds ==
  /\ pc = "running"
  /\ IF Kind = "edit"
     THEN file' = [file EXCEPT ![cur] = Result] /\ pc' = "settled" /\ UNCHANGED temp
     ELSE temp' = Result /\ pc' = "written" /\ UNCHANGED file
  /\ UNCHANGED <<backup, db, place, facts, runs, events>>

(* Faulty: the backup is not restored.                                     *)
ToolFailsUnrestored ==
  /\ \/ pc = "running"
     \/ pc = "written" /\ Kind # "transcode"
  /\ temp' = Absent
  /\ \/ UNCHANGED file
     \/ Kind = "edit" /\ file' = [file EXCEPT ![cur] = input]
  /\ pc' = "opError"
  /\ UNCHANGED <<backup, db, place, facts, runs, events>>

(* An error code, a timeout, or an output that does not pass the checks. An *)
(* editing tool may have refused before it wrote anything.                 *)
ToolFails ==
  /\ \/ pc = "running"
     \/ pc = "written" /\ Kind # "transcode"
  /\ temp' = Absent
  /\ \/ UNCHANGED file
     \/ Kind = "edit" /\ file' = [file EXCEPT ![cur] = input]
  /\ pc' = IF Kind \in OwnBackup THEN "restore" ELSE "opError"
  /\ UNCHANGED <<backup, db, place, facts, runs, events>>

(* temp_path.replace(output_path); whatever has that name is replaced.     *)
Replace ==
  /\ pc = "written"
  /\ Kind # "transcode"
  /\ file' = [file EXCEPT ![Output] = temp]
  /\ temp' = Absent
  /\ pc' = "replaced"
  /\ UNCHANGED <<backup, db, place, facts, runs, events>>

(* Faulty: the original goes also when the output has taken its name.      *)
DropOriginalAlways ==
  /\ pc = "replaced"
  /\ file' = [file EXCEPT ![cur] = Absent]
  /\ pc' = "settled"
  /\ UNCHANGED <<backup, temp, db, place, facts, runs, events>>

(* The original goes when the name has changed.                            *)
DropOriginal ==
  /\ pc = "replaced"
  /\ file' = IF Output # cur THEN [file EXCEPT ![cur] = Absent] ELSE file
  /\ pc' = "settled"
  /\ UNCHANGED <<backup, temp, db, place, facts, runs, events>>

(* keep_backup=False                                                       *)
DropBackup ==
  /\ pc = "settled"
  /\ backup' = [backup EXCEPT ![cur] = Absent]
  /\ pc' = "opDone"
  /\ UNCHANGED <<file, temp, db, place, facts, runs, events>>

(* The unlink of the original, or of the backup, raises: the operation has  *)
(* failed although the film is changed.                                    *)
UnlinkFails ==
  /\ \/ pc = "replaced" /\ Output # cur
     \/ pc = "settled"
  /\ pc' = "opError"
  /\ Happened({"unlinkFailed"})
  /\ UNCHANGED <<disk, db, place, facts, runs>>

(* shutil.move(): a rename, or a copy between two file systems.            *)
Move ==
  /\ pc = "written"
  /\ Kind = "transcode"
  /\ IF TempElsewhere
     THEN file' = [file EXCEPT ![cur] = Torn] /\ pc' = "moving" /\ UNCHANGED temp
     ELSE file' = [file EXCEPT ![cur] = temp] /\ temp' = Absent /\ pc' = "opDone"
  /\ UNCHANGED <<backup, db, place, facts, runs, events>>

MoveEnds ==
  /\ pc = "moving"
  /\ file' = [file EXCEPT ![cur] = temp]
  /\ temp' = Absent
  /\ pc' = "opDone"
  /\ UNCHANGED <<backup, db, place, facts, runs, events>>

(* The move raises; the temporary output is removed.                       *)
MoveFails ==
  /\ \/ pc = "written" /\ Kind = "transcode" /\ UNCHANGED events
     \/ pc = "moving" /\ Happened({"moveCut"})
  /\ temp' = Absent
  /\ pc' = "opError"
  /\ UNCHANGED <<file, backup, db, place, facts, runs>>

(* Faulty: the row is left to the next scan.                               *)
OpSucceedsOnDisk ==
  /\ pc = "opDone"
  /\ cur' = Output
  /\ changed' = TRUE
  /\ op' = op + 1
  /\ pc' = "op"
  /\ UNCHANGED <<disk, db, policy, ph, path, known, before, input, runs, events>>

(* Faulty: output_path is taken over without the test for None.            *)
OpSucceedsUnchecked ==
  /\ pc = "opDone"
  /\ Output = cur \/ (~Occupied /\ pending = cur)
  /\ pending' = IF Output # cur THEN Output ELSE pending
  /\ cur' = IF Output # cur THEN Output ELSE None
  /\ changed' = TRUE
  /\ op' = op + 1
  /\ pc' = "op"
  /\ UNCHANGED <<disk, row, tracks, policy, ph, path, known, before, input, runs, events>>

(* The operation is counted; a new path goes into the open transaction.    *)
OpSucceeds ==
  /\ pc = "opDone"
  /\ Output = cur \/ (~Occupied /\ pending = cur)
  /\ pending' = IF Output # cur THEN Output ELSE pending
  /\ cur' = Output
  /\ changed' = TRUE
  /\ op' = op + 1
  /\ pc' = "op"
  /\ UNCHANGED <<disk, row, tracks, policy, ph, path, known, before, input, runs, events>>

(* _handle_path_change() raises: the new path belongs to another film, or   *)
(* the database is locked.                                                 *)
PathRefused ==
  /\ pc = "opDone"
  /\ Output # cur
  /\ pc' = "opError"
  /\ Happened(IF Occupied THEN {} ELSE {"dbError"})
  /\ UNCHANGED <<disk, db, place, facts, runs>>

(* safe_restore_from_backup(): unlink the original, move the backup there. *)
RestoreUnlinks ==
  /\ pc = "restore"
  /\ backup[cur] # Absent
  /\ file' = [file EXCEPT ![cur] = Absent]
  /\ pc' = "restoring"
  /\ UNCHANGED <<backup, temp, db, place, facts, runs, events>>

RestoreMoves ==
  /\ pc = "restoring"
  /\ file' = [file EXCEPT ![cur] = backup[cur]]
  /\ backup' = [backup EXCEPT ![cur] = Absent]
  /\ pc' = "opError"
  /\ UNCHANGED <<temp, db, place, facts, runs, events>>

RestoreFails ==
  /\ pc \in {"restore", "restoring"}
  /\ pc' = "opError"
  /\ Happened({"restoreFailed"})
  /\ UNCHANGED <<disk, db, place, facts, runs>>

(* The operation failed: policy.config.on_error decides.                   *)
OpFails ==
  /\ pc = "opError"
  /\ \/ policy.onError = "fail" /\ pc' = "phaseError" /\ UNCHANGED op
     \/ policy.onError = "skip" /\ pc' = "cleanup" /\ UNCHANGED op
     \/ policy.onError = "continue" /\ pc' = "op" /\ op' = op + 1
  /\ UNCHANGED <<disk, db, policy, ph, path, cur, facts, runs, events>>

LastOpDone ==
  /\ pc = "op"
  /\ op > Len(Ops)
  /\ pc' = "cleanup"
  /\ UNCHANGED <<disk, db, place, facts, runs, events>>

(* cleanup_backup(state), also after operations that failed; an unlink that *)
(* fails is only logged.                                                   *)
Cleanup ==
  /\ pc = "cleanup"
  /\ \/ backup' = [backup EXCEPT ![path] = Absent]
     \/ UNCHANGED backup
  /\ pc' = "phaseDone"
  /\ UNCHANGED <<file, temp, db, place, facts, runs, events>>

-----------------------------------------------------------------------------

File ==
  \/ StartFile \/ SkipPhase \/ LastPhaseDone \/ Persist \/ PersistFails
  \/ EndPhase \/ Introspect \/ IntrospectFails \/ PhaseFails \/ Killed \/ Aborts

PhaseSteps ==
  \/ BeginBackup \/ EndBackup \/ BackupFails
  \/ OpNothing \/ OpRefused \/ OpFails \/ LastOpDone \/ Cleanup

Executor ==
  \/ OpBackup \/ OpBackupEnds \/ OpGivesUp
  \/ RunTool \/ ToolSucceeds \/ ToolFails
  \/ Replace \/ DropOriginal \/ DropBackup \/ UnlinkFails
  \/ Move \/ MoveEnds \/ MoveFails
  \/ RestoreUnlinks \/ RestoreMoves \/ RestoreFails
  \/ OpSucceeds \/ PathRefused

Next == File \/ PhaseSteps \/ Executor

Spec == Init /\ [][Next]_vars

-----------------------------------------------------------------------------
(* Properties.                                                             *)

(* Zero data loss (docs/overview/project-overview.md): some complete        *)
(* version of the film is stored under one of its names, in a backup or in  *)
(* the output about to be moved into place.                                *)
IntactCopy ==
  \/ \E n \in Names : Whole(file[n]) \/ Whole(backup[n])
  \/ Whole(temp)

(* What the code has no answer to: a run that starts on a damaged film      *)
(* copies it over the backup, and when a backup could not be moved back, or *)
(* a move across file systems was cut short, the phase still ends by       *)
(* deleting the backup.                                                    *)
Exposed == events \intersect {"rerunTorn", "restoreFailed", "moveCut"} # {}

(* Until one of these happens a complete version of the film exists, at    *)
(* every step and wherever the process is killed: each executor and the    *)
(* phase itself use the same backup name and delete it independently.      *)
IntactUnlessExposed == Exposed \/ IntactCopy

(* An operation that fails leaves the film under its name as it was before  *)
(* the operation, whichever of its steps failed (safe_restore_from_backup,  *)
(* temporary outputs), unless it failed after the film was in place.       *)
OperationAtomic ==
  pc = "opError" /\ ~Exposed /\ ~Occupied
                 /\ events \intersect {"dbError", "unlinkFailed"} = {}
    => file[cur] = input

(* When a run has ended by itself, the row names the place where the film  *)
(* is, complete, and nothing is left under its other name: the path update  *)
(* of _handle_path_change() is committed far from the rename, by           *)
(* process_file() or, after a failed phase, only by persist().             *)
RowFollowsFile ==
  pc = "idle" /\ ~Exposed /\ ~Occupied
              /\ events \intersect {"interrupted", "dbError", "unlinkFailed"} = {}
    => \A n \in Names : IF n = row THEN Whole(file[n]) ELSE file[n] = Absent

(* No step commits a path before the film is complete under it.            *)
CommitFollowsFile ==
  [][row' # row => Exposed \/ Whole(file[row'])]_vars

(* The row and the film agree, when a path is committed and after the run.  *)
PathFollowsFile == []RowFollowsFile /\ CommitFollowsFile

(* A phase is evaluated on the tracks of the film it will change, unless    *)
(* something failed or was interrupted before: file_info is read once and   *)
(* refreshed only after a phase that reports changes.                      *)
FreshTracks ==
  pc = "backup" /\ ~Exposed
                /\ events \intersect {"interrupted", "phaseError", "unlinkFailed"} = {}
    => known = before

(* BEGIN IMMEDIATE in _re_introspect() raises inside an open transaction:  *)
(* no uncommitted path may be pending there.                               *)
IntrospectOutsideTransaction == pc = "introspect" => pending = row
=============================================================================
