------------------------ MODULE PhaseExecutionProofs ------------------------
(***************************************************************************)
(* Theorems about PhaseExecution, for every set of policies, any number of *)
(* runs, with and without another film in the way of the conversion and a  *)
(* temporary directory on another file system.                             *)
(***************************************************************************)
EXTENDS PhaseExecution, TLAPS

(* The process is inside execute_phase(), with a backup begun.             *)
InPhase == PCs \ {"idle", "phase", "introspect", "phaseError", "persist"}

(* No executor is at work on the film.                                     *)
Quiet == PCs \ {"idle", "running", "moving", "restore", "restoring"}

(* Where the path is known to the process, to its transaction and to the   *)
(* committed row; a film that is named by an uncommitted row only has left *)
(* the committed place.                                                    *)
PathInv ==
  /\ pc # "idle" => path = row
  /\ pc \in {"idle", "introspect"} => pending = row
  /\ pending # row => pending = "dst" /\ file[row] = Absent
  /\ pc \in InPhase => cur = pending
  /\ pc \in {"settled", "opDone"} /\ Output # cur => file[cur] = Absent
  /\ pc = "moving" => Kind = "transcode"
  /\ Occupied => row = "src" /\ pending = "src"

(* Which copies are complete at each point, as long as nothing happened    *)
(* that the code has no answer to.                                         *)
NoTorn(N) == \A n \in N : file[n] # Torn
SomeFile  == \E n \in Names : Whole(file[n])

OthersInPlace == \A n \in Names : file[n] = Other => Occupied /\ n = "dst"

IdleInv ==
  pc = "idle" =>
    /\ \E n \in Names : Whole(file[n]) \/ Whole(backup[n])
    /\ \A n \in Names : file[n] = Torn => n = row \/ file[row] = Absent

QuietInv == pc \in Quiet => NoTorn(Names) /\ SomeFile

BackupInv == pc = "backup" => Whole(file[path])

WorkInv ==
  /\ pc \in {"opBackup", "ready", "written"} => file[cur] = input
  /\ pc \in {"opBackup", "ready", "running", "written", "restore", "restoring"} =>
       Whole(input)
  /\ pc \in {"ready", "restore", "restoring"} => backup[cur] = input
  /\ pc \in {"running", "written"} /\ Kind \in OwnBackup => backup[cur] = input
  /\ pc \in {"running", "moving", "restore", "restoring"} => NoTorn(Names \ {cur})
  /\ pc = "running" /\ Kind # "edit" => file[cur] = input
  /\ pc \in {"written", "moving"} => Whole(temp)
  /\ pc = "replaced" => Whole(file[Output])

RestoredInv ==
  pc = "opError" /\ ~Occupied /\ events \intersect {"dbError", "unlinkFailed"} = {}
    => file[cur] = input

CopyInv == OthersInPlace /\ IdleInv /\ QuietInv /\ BackupInv /\ WorkInv /\ RestoredInv

(* The name under which the film is, and the only one, when no run was     *)
(* interrupted and the database and the disk did what they were asked.     *)
Undisturbed ==
  ~Exposed /\ ~Occupied /\ events \intersect {"interrupted", "dbError", "unlinkFailed"} = {}

Alone(n) == \A m \in Names \ {n} : file[m] = Absent

RowInv ==
  /\ pc \notin {"replaced", "settled", "opDone"} => Alone(pending)
  /\ pc \in {"settled", "opDone"} => Alone(Output)
  /\ pc = "replaced" /\ Output = cur => Alone(cur)
  /\ pc = "idle" => NoTorn(Names) /\ SomeFile

(* The version of the film that the tracks, and the file_info read from    *)
(* them, describe: the film itself, until an operation of the phase has    *)
(* changed it, when nothing failed and no run was interrupted.             *)
Completed ==
  ~Exposed /\ events \intersect {"interrupted", "phaseError", "unlinkFailed"} = {}

Unchanged(n) == file[n] \in {known, Absent}

FreshInv ==
  /\ pc = "idle" => file[row] \in {tracks, Absent}
  /\ pc # "idle" => known = tracks
  /\ pc \in {"phase", "persist"} => pending = row /\ Unchanged(path)
  /\ pc = "backup" => cur = path /\ file[path] = known /\ before = known
  /\ pc \in InPhase \ {"backup"} /\ ~changed =>
       /\ cur = path
       /\ pc \in {"op", "opError", "cleanup", "phaseDone"} => Unchanged(cur)
       /\ pc \in {"opBackup", "ready", "running", "written", "restore", "restoring"} =>
            input = known

IInv ==
  /\ TypeOK
  /\ PathInv
  /\ ~Exposed => CopyInv
  /\ Undisturbed => RowInv
  /\ Completed => FreshInv

-----------------------------------------------------------------------------
(* Types.                                                                  *)

(* What the executors make and where they put it.                          *)
LEMMA OutputFacts ==
  ASSUME TypeOK
  PROVE  /\ Output \in Names
         /\ Output # cur => Kind = "convert" /\ Output = "dst" /\ cur = "src"
         /\ Result \in Content
BY DEF TypeOK, Output, Result, Names, Content, Whole

(* The initial state is well typed.                                        *)
LEMMA InitTypeOK == Init => TypeOK
<1> SUFFICES ASSUME Init PROVE TypeOK
  OBVIOUS
<1>1. file \in [Names -> Content]
  BY DEF Init, Content
<1>2. backup \in [Names -> Content] /\ runs \in 0 .. MaxRuns
  BY ModesAssumption DEF Init, Content
<1>3. QED
  BY <1>1, <1>2 DEF Init, TypeOK, Names, Content, PCs

(* The loop over the phases keeps the types.                               *)
LEMMA FileKeepsTypes ==
  ASSUME TypeOK, File
  PROVE  TypeOK'
<1> USE DEF TypeOK, disk, db, place, facts, Content, PCs, Events
<1>1. CASE StartFile
  <2>1. runs' \in 0 .. MaxRuns
    BY <1>1, ModesAssumption DEF StartFile
  <2>2. events' \subseteq Events
    BY <1>1 DEF StartFile, Happened
  <2>3. QED
    BY <1>1, <2>1, <2>2 DEF StartFile
<1>2. CASE SkipPhase
  BY <1>2, OutputFacts DEF SkipPhase
<1>3. CASE LastPhaseDone
  BY <1>3, OutputFacts DEF LastPhaseDone
<1>4. CASE Persist
  BY <1>4, OutputFacts DEF Persist
<1>5. CASE PersistFails
  BY <1>5, OutputFacts DEF PersistFails, Happened
<1>6. CASE EndPhase
  BY <1>6, OutputFacts DEF EndPhase
<1>7. CASE Introspect
  BY <1>7, OutputFacts DEF Introspect
<1>8. CASE IntrospectFails
  BY <1>8, OutputFacts DEF IntrospectFails
<1>9. CASE PhaseFails
  BY <1>9, OutputFacts DEF PhaseFails, Happened
<1>10. CASE Killed
  BY <1>10, OutputFacts DEF Killed, Happened
<1>11. CASE Aborts
  BY <1>11, OutputFacts DEF Aborts, Happened
<1>12. QED
  BY <1>1, <1>2, <1>3, <1>4, <1>5, <1>6, <1>7, <1>8, <1>9, <1>10, <1>11 DEF File

(* The loop over the operations keeps the types.                           *)
LEMMA PhaseKeepsTypes ==
  ASSUME TypeOK, PhaseSteps
  PROVE  TypeOK'
<1> USE DEF TypeOK, disk, db, place, facts, Content, PCs, Events
<1>1. CASE BeginBackup
  BY <1>1, OutputFacts DEF BeginBackup
<1>2. CASE EndBackup
  BY <1>2, OutputFacts DEF EndBackup
<1>3. CASE BackupFails
  BY <1>3, OutputFacts DEF BackupFails
<1>4. CASE OpNothing
  <2>1. changed' \in BOOLEAN
    BY <1>4, Zenon DEF OpNothing
  <2>2. QED
    BY <1>4, <2>1 DEF OpNothing, AtOp
<1>5. CASE OpRefused
  BY <1>5, OutputFacts DEF OpRefused, AtOp
<1>6. CASE OpFails
  BY <1>6, OutputFacts DEF OpFails
<1>7. CASE LastOpDone
  BY <1>7, OutputFacts DEF LastOpDone
<1>8. CASE Cleanup
  BY <1>8, OutputFacts DEF Cleanup
<1>9. QED
  BY <1>1, <1>2, <1>3, <1>4, <1>5, <1>6, <1>7, <1>8 DEF PhaseSteps

(* The executors keep the types.                                           *)
LEMMA ExecutorKeepsTypes ==
  ASSUME TypeOK, Executor
  PROVE  TypeOK'
<1> USE DEF TypeOK, disk, db, place, facts, Content, PCs, Events
<1>1. CASE OpBackup
  BY <1>1, OutputFacts DEF OpBackup, AtOp
<1>2. CASE OpBackupEnds
  BY <1>2, OutputFacts DEF OpBackupEnds
<1>3. CASE OpGivesUp
  BY <1>3, OutputFacts DEF OpGivesUp
<1>4. CASE RunTool
  BY <1>4, OutputFacts DEF RunTool, AtOp
<1>5. CASE ToolSucceeds
  BY <1>5, OutputFacts DEF ToolSucceeds
<1>6. CASE ToolFails
  BY <1>6, OutputFacts DEF ToolFails
<1>7. CASE Replace
  BY <1>7, OutputFacts DEF Replace
<1>8. CASE DropOriginal
  BY <1>8, OutputFacts DEF DropOriginal
<1>9. CASE DropBackup
  BY <1>9, OutputFacts DEF DropBackup
<1>10. CASE UnlinkFails
  BY <1>10, OutputFacts DEF UnlinkFails, Happened
<1>11. CASE Move
  BY <1>11, OutputFacts DEF Move
<1>12. CASE MoveEnds
  BY <1>12, OutputFacts DEF MoveEnds
<1>13. CASE MoveFails
  BY <1>13, OutputFacts DEF MoveFails, Happened
<1>14. CASE RestoreUnlinks
  BY <1>14, OutputFacts DEF RestoreUnlinks
<1>15. CASE RestoreMoves
  BY <1>15, OutputFacts DEF RestoreMoves
<1>16. CASE RestoreFails
  BY <1>16, OutputFacts DEF RestoreFails, Happened
<1>17. CASE OpSucceeds
  BY <1>17, OutputFacts DEF OpSucceeds
<1>18. CASE PathRefused
  BY <1>18, OutputFacts DEF PathRefused, Happened
<1>19. QED
  BY <1>1, <1>2, <1>3, <1>4, <1>5, <1>6, <1>7, <1>8, <1>9, <1>10, <1>11,
     <1>12, <1>13, <1>14, <1>15, <1>16, <1>17, <1>18 DEF Executor

-----------------------------------------------------------------------------
(* Paths.                                                                  *)

(* The operation is the same one as long as the position in the policy is. *)
LEMMA SameOperation ==
  ASSUME UNCHANGED <<policy, ph, op>>
  PROVE  /\ Kind' = Kind
         /\ cur' = cur => Output' = Output
BY DEF Kind, Ops, ThisPhase, Phases, Output

(* Initially all the paths agree.                                          *)
LEMMA InitPathInv == Init => PathInv
BY DEF Init, PathInv, InPhase

(* The loop over the phases keeps the process, its transaction and the row *)
(* together on the path.                                                   *)
LEMMA FileKeepsPaths ==
  ASSUME TypeOK, PathInv, File
  PROVE  PathInv'
<1> USE DEF TypeOK, PathInv, InPhase, PCs, Names, disk, db, place, facts
<1>1. CASE StartFile
  BY <1>1, OutputFacts, SameOperation DEF StartFile, Happened
<1>2. CASE SkipPhase
  BY <1>2, OutputFacts, SameOperation DEF SkipPhase
<1>3. CASE LastPhaseDone
  BY <1>3, OutputFacts, SameOperation DEF LastPhaseDone
<1>4. CASE Persist
  BY <1>4, OutputFacts, SameOperation DEF Persist
<1>5. CASE PersistFails
  BY <1>5, OutputFacts, SameOperation DEF PersistFails, Happened
<1>6. CASE EndPhase
  BY <1>6, OutputFacts, SameOperation DEF EndPhase
<1>7. CASE Introspect
  BY <1>7, OutputFacts, SameOperation DEF Introspect
<1>8. CASE IntrospectFails
  BY <1>8, OutputFacts, SameOperation DEF IntrospectFails
<1>9. CASE PhaseFails
  BY <1>9, OutputFacts, SameOperation DEF PhaseFails, Happened
<1>10. CASE Killed
  BY <1>10, OutputFacts, SameOperation DEF Killed, Happened
<1>11. CASE Aborts
  BY <1>11, OutputFacts, SameOperation DEF Aborts, Happened
<1>12. QED
  BY <1>1, <1>2, <1>3, <1>4, <1>5, <1>6, <1>7, <1>8, <1>9, <1>10, <1>11 DEF File

(* The loop over the operations keeps the process, its transaction and the *)
(* row together on the path.                                               *)
LEMMA PhaseKeepsPaths ==
  ASSUME TypeOK, PathInv, PhaseSteps
  PROVE  PathInv'
<1> USE DEF TypeOK, PathInv, InPhase, PCs, Names, disk, db, place, facts
<1>1. CASE BeginBackup
  BY <1>1, OutputFacts, SameOperation DEF BeginBackup
<1>2. CASE EndBackup
  BY <1>2, OutputFacts, SameOperation DEF EndBackup
<1>3. CASE BackupFails
  BY <1>3, OutputFacts, SameOperation DEF BackupFails
<1>4. CASE OpNothing
  BY <1>4, OutputFacts, SameOperation DEF OpNothing, AtOp
<1>5. CASE OpRefused
  BY <1>5, OutputFacts, SameOperation DEF OpRefused, AtOp
<1>6. CASE OpFails
  BY <1>6, OutputFacts, SameOperation DEF OpFails
<1>7. CASE LastOpDone
  BY <1>7, OutputFacts, SameOperation DEF LastOpDone
<1>8. CASE Cleanup
  BY <1>8, OutputFacts, SameOperation DEF Cleanup
<1>9. QED
  BY <1>1, <1>2, <1>3, <1>4, <1>5, <1>6, <1>7, <1>8 DEF PhaseSteps

(* The executors keep the process, its transaction and the row together on *)
(* the path.                                                               *)
LEMMA ExecutorKeepsPaths ==
  ASSUME TypeOK, PathInv, Executor
  PROVE  PathInv'
<1> USE DEF TypeOK, PathInv, InPhase, PCs, Names, disk, db, place, facts
<1>1. CASE OpBackup
  BY <1>1, OutputFacts, SameOperation DEF OpBackup, AtOp
<1>2. CASE OpBackupEnds
  BY <1>2, OutputFacts, SameOperation DEF OpBackupEnds
<1>3. CASE OpGivesUp
  BY <1>3, OutputFacts, SameOperation DEF OpGivesUp
<1>4. CASE RunTool
  BY <1>4, OutputFacts, SameOperation DEF RunTool, AtOp
<1>5. CASE ToolSucceeds
  BY <1>5, OutputFacts, SameOperation DEF ToolSucceeds
<1>6. CASE ToolFails
  BY <1>6, OutputFacts, SameOperation DEF ToolFails
<1>7. CASE Replace
  BY <1>7, OutputFacts, SameOperation DEF Replace
<1>8. CASE DropOriginal
  BY <1>8, OutputFacts, SameOperation DEF DropOriginal
<1>9. CASE DropBackup
  BY <1>9, OutputFacts, SameOperation DEF DropBackup
<1>10. CASE UnlinkFails
  BY <1>10, OutputFacts, SameOperation DEF UnlinkFails, Happened
<1>11. CASE Move
  BY <1>11, OutputFacts, SameOperation DEF Move
<1>12. CASE MoveEnds
  BY <1>12, OutputFacts, SameOperation DEF MoveEnds
<1>13. CASE MoveFails
  BY <1>13, OutputFacts, SameOperation DEF MoveFails, Happened
<1>14. CASE RestoreUnlinks
  BY <1>14, OutputFacts, SameOperation DEF RestoreUnlinks
<1>15. CASE RestoreMoves
  BY <1>15, OutputFacts, SameOperation DEF RestoreMoves
<1>16. CASE RestoreFails
  BY <1>16, OutputFacts, SameOperation DEF RestoreFails, Happened
<1>17. CASE OpSucceeds
  BY <1>17, OutputFacts, SameOperation DEF OpSucceeds
<1>18. CASE PathRefused
  BY <1>18, OutputFacts, SameOperation DEF PathRefused, Happened
<1>19. QED
  BY <1>1, <1>2, <1>3, <1>4, <1>5, <1>6, <1>7, <1>8, <1>9, <1>10, <1>11,
     <1>12, <1>13, <1>14, <1>15, <1>16, <1>17, <1>18 DEF Executor

-----------------------------------------------------------------------------
(* Copies of the film.                                                     *)

(* What happened stays recorded.                                           *)
LEMMA EventsStay == Next => events \subseteq events'
<1> USE DEF Happened, disk, db, place, facts
<1>1. File => events \subseteq events'
  BY DEF File, StartFile, SkipPhase, LastPhaseDone, Persist, PersistFails, EndPhase,
     Introspect, IntrospectFails, PhaseFails, Killed, Aborts
<1>2. PhaseSteps => events' = events
  BY DEF PhaseSteps, BeginBackup, EndBackup, BackupFails, OpNothing, OpRefused, OpFails,
     LastOpDone, Cleanup
<1>3. OpBackup \/ OpBackupEnds \/ OpGivesUp \/ RunTool \/ ToolSucceeds \/ ToolFails
        => events' = events
  BY DEF OpBackup, OpBackupEnds, OpGivesUp, RunTool, ToolSucceeds, ToolFails
<1>4. Replace \/ DropOriginal \/ DropBackup \/ UnlinkFails \/ Move \/ MoveEnds \/ MoveFails
        => events \subseteq events'
  BY DEF Replace, DropOriginal, DropBackup, UnlinkFails, Move, MoveEnds, MoveFails
<1>5. RestoreUnlinks \/ RestoreMoves \/ RestoreFails \/ OpSucceeds \/ PathRefused
        => events \subseteq events'
  BY DEF RestoreUnlinks, RestoreMoves, RestoreFails, OpSucceeds, PathRefused
<1>6. QED
  BY <1>1, <1>2, <1>3, <1>4, <1>5 DEF Next, Executor

(* Initially the film is intact under its name.                            *)
LEMMA InitCopyInv == Init => CopyInv
BY NamesAssumption
   DEF Init, CopyInv, OthersInPlace, IdleInv, QuietInv, Quiet, BackupInv, WorkInv,
       RestoredInv, Names, Whole, NoTorn, SomeFile

(* The loop over the phases keeps the copies of the film that are complete *)
(* so.                                                                     *)
LEMMA FileKeepsCopies ==
  ASSUME TypeOK, PathInv, CopyInv, File, ~Exposed'
  PROVE  CopyInv'
<1> USE NamesAssumption, OutputFacts, SameOperation
    DEF TypeOK, PathInv, InPhase, PCs, Content, Names, Whole, disk, db, place, facts,
        CopyInv, OthersInPlace, IdleInv, QuietInv, Quiet, NoTorn, SomeFile,
        BackupInv, WorkInv, RestoredInv, OwnBackup, Exposed
<1>1. CASE StartFile
  BY <1>1 DEF StartFile, Happened
<1>2. CASE SkipPhase
  BY <1>2 DEF SkipPhase
<1>3. CASE LastPhaseDone
  BY <1>3 DEF LastPhaseDone
<1>4. CASE Persist
  BY <1>4 DEF Persist
<1>5. CASE PersistFails
  BY <1>5 DEF PersistFails, Happened
<1>6. CASE EndPhase
  BY <1>6 DEF EndPhase
<1>7. CASE Introspect
  BY <1>7 DEF Introspect
<1>8. CASE IntrospectFails
  BY <1>8 DEF IntrospectFails
<1>9. CASE PhaseFails
  BY <1>9 DEF PhaseFails, Happened
<1>10. CASE Killed
  BY <1>10 DEF Killed, Happened
<1>11. CASE Aborts
  BY <1>11 DEF Aborts, Happened
<1>12. QED
  BY <1>1, <1>2, <1>3, <1>4, <1>5, <1>6, <1>7, <1>8, <1>9, <1>10, <1>11 DEF File

(* The loop over the operations keeps the copies of the film that are      *)
(* complete so.                                                            *)
LEMMA PhaseKeepsCopies ==
  ASSUME TypeOK, PathInv, CopyInv, PhaseSteps, ~Exposed'
  PROVE  CopyInv'
<1> USE NamesAssumption, OutputFacts, SameOperation
    DEF TypeOK, PathInv, InPhase, PCs, Content, Names, Whole, disk, db, place, facts,
        CopyInv, OthersInPlace, IdleInv, QuietInv, Quiet, NoTorn, SomeFile,
        BackupInv, WorkInv, RestoredInv, OwnBackup, Exposed
<1>1. CASE BeginBackup
  BY <1>1 DEF BeginBackup
<1>2. CASE EndBackup
  BY <1>2 DEF EndBackup
<1>3. CASE BackupFails
  BY <1>3 DEF BackupFails
<1>4. CASE OpNothing
  BY <1>4 DEF OpNothing, AtOp
<1>5. CASE OpRefused
  BY <1>5 DEF OpRefused, AtOp
<1>6. CASE OpFails
  BY <1>6 DEF OpFails
<1>7. CASE LastOpDone
  BY <1>7 DEF LastOpDone
<1>8. CASE Cleanup
  BY <1>8 DEF Cleanup
<1>9. QED
  BY <1>1, <1>2, <1>3, <1>4, <1>5, <1>6, <1>7, <1>8 DEF PhaseSteps

(* The executors keep the copies of the film that are complete so.         *)
LEMMA ExecutorKeepsCopies ==
  ASSUME TypeOK, PathInv, CopyInv, Executor, ~Exposed'
  PROVE  CopyInv'
<1> USE NamesAssumption, OutputFacts, SameOperation
    DEF TypeOK, PathInv, InPhase, PCs, Content, Names, Whole, disk, db, place, facts,
        CopyInv, OthersInPlace, IdleInv, QuietInv, Quiet, NoTorn, SomeFile,
        BackupInv, WorkInv, RestoredInv, OwnBackup, Exposed
<1>1. CASE OpBackup
  BY <1>1 DEF OpBackup, AtOp
<1>2. CASE OpBackupEnds
  BY <1>2 DEF OpBackupEnds
<1>3. CASE OpGivesUp
  BY <1>3 DEF OpGivesUp
<1>4. CASE RunTool
  BY <1>4 DEF RunTool, AtOp
<1>5. CASE ToolSucceeds
  BY <1>5 DEF ToolSucceeds, Result
<1>6. CASE ToolFails
  BY <1>6 DEF ToolFails
<1>7. CASE Replace
  BY <1>7 DEF Replace
<1>8. CASE DropOriginal
  BY <1>8 DEF DropOriginal
<1>9. CASE DropBackup
  BY <1>9 DEF DropBackup
<1>10. CASE UnlinkFails
  BY <1>10 DEF UnlinkFails, Happened
<1>11. CASE Move
  BY <1>11 DEF Move
<1>12. CASE MoveEnds
  BY <1>12 DEF MoveEnds
<1>13. CASE MoveFails
  BY <1>13 DEF MoveFails, Happened
<1>14. CASE RestoreUnlinks
  BY <1>14 DEF RestoreUnlinks
<1>15. CASE RestoreMoves
  BY <1>15 DEF RestoreMoves
<1>16. CASE RestoreFails
  BY <1>16 DEF RestoreFails, Happened
<1>17. CASE OpSucceeds
  BY <1>17 DEF OpSucceeds
<1>18. CASE PathRefused
  BY <1>18 DEF PathRefused, Happened
<1>19. QED
  BY <1>1, <1>2, <1>3, <1>4, <1>5, <1>6, <1>7, <1>8, <1>9, <1>10, <1>11,
     <1>12, <1>13, <1>14, <1>15, <1>16, <1>17, <1>18 DEF Executor

-----------------------------------------------------------------------------
(* The name of the film.                                                   *)

(* Initially the film has one name.                                        *)
LEMMA InitRowInv == Init => (Undisturbed => RowInv)
BY NamesAssumption
   DEF Init, Undisturbed, RowInv, Alone, NoTorn, SomeFile, Names, Whole

(* The loop over the phases keeps the film under one name.                 *)
LEMMA FileKeepsRow ==
  ASSUME TypeOK, PathInv, CopyInv, RowInv, File, Undisturbed'
  PROVE  RowInv'
<1> USE NamesAssumption, OutputFacts, SameOperation
    DEF TypeOK, PathInv, InPhase, PCs, Names, Whole, disk, db, place, facts,
        CopyInv, QuietInv, Quiet, NoTorn, SomeFile, WorkInv, Undisturbed, RowInv, Alone
<1>1. CASE StartFile
  BY <1>1 DEF StartFile, Happened
<1>2. CASE SkipPhase
  BY <1>2 DEF SkipPhase
<1>3. CASE LastPhaseDone
  BY <1>3 DEF LastPhaseDone
<1>4. CASE Persist
  BY <1>4 DEF Persist
<1>5. CASE PersistFails
  BY <1>5 DEF PersistFails, Happened
<1>6. CASE EndPhase
  BY <1>6 DEF EndPhase
<1>7. CASE Introspect
  BY <1>7 DEF Introspect
<1>8. CASE IntrospectFails
  BY <1>8 DEF IntrospectFails
<1>9. CASE PhaseFails
  BY <1>9 DEF PhaseFails, Happened
<1>10. CASE Killed
  BY <1>10 DEF Killed, Happened
<1>11. CASE Aborts
  BY <1>11 DEF Aborts, Happened
<1>12. QED
  BY <1>1, <1>2, <1>3, <1>4, <1>5, <1>6, <1>7, <1>8, <1>9, <1>10, <1>11 DEF File

(* The loop over the operations keeps the film under one name.             *)
LEMMA PhaseKeepsRow ==
  ASSUME TypeOK, PathInv, CopyInv, RowInv, PhaseSteps, Undisturbed'
  PROVE  RowInv'
<1> USE NamesAssumption, OutputFacts, SameOperation
    DEF TypeOK, PathInv, InPhase, PCs, Names, Whole, disk, db, place, facts,
        CopyInv, QuietInv, Quiet, NoTorn, SomeFile, WorkInv, Undisturbed, RowInv, Alone
<1>1. CASE BeginBackup
  BY <1>1 DEF BeginBackup
<1>2. CASE EndBackup
  BY <1>2 DEF EndBackup
<1>3. CASE BackupFails
  BY <1>3 DEF BackupFails
<1>4. CASE OpNothing
  BY <1>4 DEF OpNothing, AtOp
<1>5. CASE OpRefused
  BY <1>5 DEF OpRefused, AtOp
<1>6. CASE OpFails
  BY <1>6 DEF OpFails
<1>7. CASE LastOpDone
  BY <1>7 DEF LastOpDone
<1>8. CASE Cleanup
  BY <1>8 DEF Cleanup
<1>9. QED
  BY <1>1, <1>2, <1>3, <1>4, <1>5, <1>6, <1>7, <1>8 DEF PhaseSteps

(* The executors keep the film under one name.                             *)
LEMMA ExecutorKeepsRow ==
  ASSUME TypeOK, PathInv, CopyInv, RowInv, Executor, Undisturbed'
  PROVE  RowInv'
<1> USE NamesAssumption, OutputFacts, SameOperation
    DEF TypeOK, PathInv, InPhase, PCs, Names, Whole, disk, db, place, facts,
        CopyInv, QuietInv, Quiet, NoTorn, SomeFile, WorkInv, Undisturbed, RowInv, Alone
<1>1. CASE OpBackup
  BY <1>1 DEF OpBackup, AtOp
<1>2. CASE OpBackupEnds
  BY <1>2 DEF OpBackupEnds
<1>3. CASE OpGivesUp
  BY <1>3 DEF OpGivesUp
<1>4. CASE RunTool
  BY <1>4 DEF RunTool, AtOp
<1>5. CASE ToolSucceeds
  BY <1>5 DEF ToolSucceeds
<1>6. CASE ToolFails
  BY <1>6 DEF ToolFails
<1>7. CASE Replace
  BY <1>7 DEF Replace
<1>8. CASE DropOriginal
  BY <1>8 DEF DropOriginal
<1>9. CASE DropBackup
  BY <1>9 DEF DropBackup
<1>10. CASE UnlinkFails
  BY <1>10 DEF UnlinkFails, Happened
<1>11. CASE Move
  BY <1>11 DEF Move
<1>12. CASE MoveEnds
  BY <1>12 DEF MoveEnds
<1>13. CASE MoveFails
  BY <1>13 DEF MoveFails, Happened
<1>14. CASE RestoreUnlinks
  BY <1>14 DEF RestoreUnlinks
<1>15. CASE RestoreMoves
  BY <1>15 DEF RestoreMoves
<1>16. CASE RestoreFails
  BY <1>16 DEF RestoreFails, Happened
<1>17. CASE OpSucceeds
  BY <1>17 DEF OpSucceeds
<1>18. CASE PathRefused
  BY <1>18 DEF PathRefused, Happened
<1>19. QED
  BY <1>1, <1>2, <1>3, <1>4, <1>5, <1>6, <1>7, <1>8, <1>9, <1>10, <1>11,
     <1>12, <1>13, <1>14, <1>15, <1>16, <1>17, <1>18 DEF Executor

-----------------------------------------------------------------------------
(* What the tracks describe.                                               *)

(* Initially the tracks describe the film.                                 *)
LEMMA InitFreshInv == Init => FreshInv
BY DEF Init, FreshInv, InPhase, Names

(* The loop over the phases keeps file_info about the film that is there.  *)
LEMMA FileKeepsFresh ==
  ASSUME TypeOK, PathInv, CopyInv, FreshInv, File, Completed'
  PROVE  FreshInv'
<1> USE NamesAssumption, OutputFacts, SameOperation
    DEF TypeOK, PathInv, InPhase, PCs, Names, Whole, disk, db, place, facts,
        CopyInv, WorkInv, Exposed, OwnBackup, Completed, FreshInv, Unchanged
<1>1. CASE StartFile
  BY <1>1 DEF StartFile, Happened
<1>2. CASE SkipPhase
  BY <1>2 DEF SkipPhase
<1>3. CASE LastPhaseDone
  BY <1>3 DEF LastPhaseDone
<1>4. CASE Persist
  BY <1>4 DEF Persist
<1>5. CASE PersistFails
  BY <1>5 DEF PersistFails, Happened
<1>6. CASE EndPhase
  BY <1>6 DEF EndPhase
<1>7. CASE Introspect
  BY <1>7 DEF Introspect
<1>8. CASE IntrospectFails
  BY <1>8 DEF IntrospectFails
<1>9. CASE PhaseFails
  BY <1>9 DEF PhaseFails, Happened
<1>10. CASE Killed
  BY <1>10 DEF Killed, Happened
<1>11. CASE Aborts
  BY <1>11 DEF Aborts, Happened
<1>12. QED
  BY <1>1, <1>2, <1>3, <1>4, <1>5, <1>6, <1>7, <1>8, <1>9, <1>10, <1>11 DEF File

(* The loop over the operations keeps file_info about the film that is     *)
(* there.                                                                  *)
LEMMA PhaseKeepsFresh ==
  ASSUME TypeOK, PathInv, CopyInv, FreshInv, PhaseSteps, Completed'
  PROVE  FreshInv'
<1> USE NamesAssumption, OutputFacts, SameOperation
    DEF TypeOK, PathInv, InPhase, PCs, Names, Whole, disk, db, place, facts,
        CopyInv, WorkInv, Exposed, OwnBackup, Completed, FreshInv, Unchanged
<1>1. CASE BeginBackup
  BY <1>1 DEF BeginBackup
<1>2. CASE EndBackup
  BY <1>2 DEF EndBackup
<1>3. CASE BackupFails
  BY <1>3 DEF BackupFails
<1>4. CASE OpNothing
  BY <1>4 DEF OpNothing, AtOp
<1>5. CASE OpRefused
  BY <1>5 DEF OpRefused, AtOp
<1>6. CASE OpFails
  BY <1>6 DEF OpFails
<1>7. CASE LastOpDone
  BY <1>7 DEF LastOpDone
<1>8. CASE Cleanup
  BY <1>8 DEF Cleanup
<1>9. QED
  BY <1>1, <1>2, <1>3, <1>4, <1>5, <1>6, <1>7, <1>8 DEF PhaseSteps

(* The executors keep file_info about the film that is there.              *)
LEMMA ExecutorKeepsFresh ==
  ASSUME TypeOK, PathInv, CopyInv, FreshInv, Executor, Completed'
  PROVE  FreshInv'
<1> USE NamesAssumption, OutputFacts, SameOperation
    DEF TypeOK, PathInv, InPhase, PCs, Names, Whole, disk, db, place, facts,
        CopyInv, WorkInv, Exposed, OwnBackup, Completed, FreshInv, Unchanged
<1>1. CASE OpBackup
  BY <1>1 DEF OpBackup, AtOp
<1>2. CASE OpBackupEnds
  BY <1>2 DEF OpBackupEnds
<1>3. CASE OpGivesUp
  BY <1>3 DEF OpGivesUp
<1>4. CASE RunTool
  BY <1>4 DEF RunTool, AtOp
<1>5. CASE ToolSucceeds
  BY <1>5 DEF ToolSucceeds
<1>6. CASE ToolFails
  BY <1>6 DEF ToolFails
<1>7. CASE Replace
  BY <1>7 DEF Replace
<1>8. CASE DropOriginal
  BY <1>8 DEF DropOriginal
<1>9. CASE DropBackup
  BY <1>9 DEF DropBackup
<1>10. CASE UnlinkFails
  BY <1>10 DEF UnlinkFails, Happened
<1>11. CASE Move
  BY <1>11 DEF Move
<1>12. CASE MoveEnds
  BY <1>12 DEF MoveEnds
<1>13. CASE MoveFails
  BY <1>13 DEF MoveFails, Happened
<1>14. CASE RestoreUnlinks
  BY <1>14 DEF RestoreUnlinks
<1>15. CASE RestoreMoves
  BY <1>15 DEF RestoreMoves
<1>16. CASE RestoreFails
  BY <1>16 DEF RestoreFails, Happened
<1>17. CASE OpSucceeds
  BY <1>17 DEF OpSucceeds
<1>18. CASE PathRefused
  BY <1>18 DEF PathRefused, Happened
<1>19. QED
  BY <1>1, <1>2, <1>3, <1>4, <1>5, <1>6, <1>7, <1>8, <1>9, <1>10, <1>11,
     <1>12, <1>13, <1>14, <1>15, <1>16, <1>17, <1>18 DEF Executor

-----------------------------------------------------------------------------
(* The inductive invariant.                                                *)

(* It holds initially.                                                     *)
LEMMA InitIInv == Init => IInv
BY InitTypeOK, InitPathInv, InitCopyInv, InitRowInv, InitFreshInv DEF IInv

(* Every step keeps it: the conditions on the events that its parts are    *)
(* under can only become false.                                            *)
LEMMA NextKeepsIInv == IInv /\ [Next]_vars => IInv'
<1> SUFFICES ASSUME IInv, [Next]_vars PROVE IInv'
  OBVIOUS
<1>1. CASE Next
  <2>1. TypeOK'
    BY <1>1, FileKeepsTypes, PhaseKeepsTypes, ExecutorKeepsTypes DEF IInv, Next
  <2>2. PathInv'
    BY <1>1, FileKeepsPaths, PhaseKeepsPaths, ExecutorKeepsPaths DEF IInv, Next
  <2>3. events \subseteq events'
    BY <1>1, EventsStay
  <2>4. ASSUME ~Exposed' PROVE CopyInv'
    <3>1. ~Exposed
      BY <2>3, <2>4 DEF Exposed
    <3>2. QED
      BY <1>1, <2>4, <3>1, FileKeepsCopies, PhaseKeepsCopies, ExecutorKeepsCopies
         DEF IInv, Next
  <2>5. ASSUME Undisturbed' PROVE RowInv'
    <3>1. Undisturbed /\ ~Exposed
      BY <2>3, <2>5 DEF Undisturbed, Exposed
    <3>2. QED
      BY <1>1, <2>5, <3>1, FileKeepsRow, PhaseKeepsRow, ExecutorKeepsRow
         DEF IInv, Next
  <2>6. ASSUME Completed' PROVE FreshInv'
    <3>1. Completed /\ ~Exposed
      BY <2>3, <2>6 DEF Completed, Exposed
    <3>2. QED
      BY <1>1, <2>6, <3>1, FileKeepsFresh, PhaseKeepsFresh, ExecutorKeepsFresh
         DEF IInv, Next
  <2>7. QED
    BY <2>1, <2>2, <2>4, <2>5, <2>6 DEF IInv
<1>2. CASE UNCHANGED vars
  BY <1>2 DEF vars, disk, db, place, facts, IInv, TypeOK, PathInv, CopyInv, OthersInPlace,
     IdleInv, QuietInv, BackupInv, WorkInv, RestoredInv, NoTorn, SomeFile, Undisturbed,
     RowInv, Alone, Completed, FreshInv, Unchanged, Exposed, Whole, Kind, Ops,
     ThisPhase, Phases, Output
<1>3. QED
  BY <1>1, <1>2

(* The invariant holds in every reachable state.                           *)
THEOREM InductiveInvariant == Spec => []IInv
BY InitIInv, NextKeepsIInv, PTL DEF Spec

-----------------------------------------------------------------------------
(* The properties.                                                         *)

(* Every variable has its type.                                            *)
THEOREM TypeCorrect == Spec => []TypeOK
<1>1. IInv => TypeOK
  BY DEF IInv
<1>2. QED
  BY <1>1, InductiveInvariant, PTL

(* A complete version of the film exists at every step, wherever the       *)
(* process is killed, until a damaged film is worked on again, a restore    *)
(* fails or a move between file systems is cut short.                      *)
THEOREM NoLoss == Spec => []IntactUnlessExposed
<1>1. IInv => IntactUnlessExposed
  <2> SUFFICES ASSUME IInv, ~Exposed PROVE IntactCopy
    BY DEF IntactUnlessExposed
  <2> USE DEF IInv, TypeOK, CopyInv, IntactCopy
  <2>1. CASE pc = "idle"
    BY <2>1 DEF IdleInv
  <2>2. CASE pc \in Quiet
    BY <2>2 DEF QuietInv, SomeFile
  <2>3. CASE pc \in {"running", "restore", "restoring"}
    <3>1. Whole(input) /\ (backup[cur] = input \/ file[cur] = input)
      BY <2>3 DEF WorkInv, OwnBackup
    <3>2. QED
      BY <3>1
  <2>4. CASE pc = "moving"
    BY <2>4 DEF WorkInv
  <2>5. QED
    BY <2>1, <2>2, <2>3, <2>4 DEF Quiet, PCs
<1>2. QED
  BY <1>1, InductiveInvariant, PTL

(* An operation that fails leaves the film as it was before it.            *)
THEOREM OperationsAreAtomic == Spec => []OperationAtomic
<1>1. IInv => OperationAtomic
  BY DEF IInv, CopyInv, RestoredInv, OperationAtomic
<1>2. QED
  BY <1>1, InductiveInvariant, PTL

(* After runs that nothing disturbed the row names the film.               *)
THEOREM RowNamesTheFilm == Spec => []RowFollowsFile
<1>1. IInv => RowFollowsFile
  <2> SUFFICES ASSUME IInv, pc = "idle", Undisturbed, NEW n \in Names
               PROVE  IF n = row THEN Whole(file[n]) ELSE file[n] = Absent
    BY DEF RowFollowsFile, Undisturbed
  <2>1. pending = row /\ Alone(row) /\ NoTorn(Names) /\ SomeFile
    BY DEF IInv, PathInv, RowInv
  <2>2. \A m \in Names : m # row => file[m] = Absent
    BY <2>1 DEF Alone
  <2>3. Whole(file[row])
    BY <2>1, <2>2, NamesAssumption DEF SomeFile, Whole
  <2>4. QED
    BY <2>2, <2>3
<1>2. QED
  BY <1>1, InductiveInvariant, PTL

(* A phase whose predecessors completed is evaluated on the tracks of the   *)
(* film it changes.                                                        *)
THEOREM TracksAreFresh == Spec => []FreshTracks
<1>1. IInv => FreshTracks
  BY DEF IInv, Completed, FreshInv, FreshTracks
<1>2. QED
  BY <1>1, InductiveInvariant, PTL

(* No path update is pending when _re_introspect() begins a transaction.   *)
THEOREM NoOpenTransaction == Spec => []IntrospectOutsideTransaction
<1>1. IInv => IntrospectOutsideTransaction
  BY DEF IInv, PathInv, IntrospectOutsideTransaction
<1>2. QED
  BY <1>1, InductiveInvariant, PTL

(* A step that changes the committed row is the end of a phase or of a run, *)
(* and commits the path of the transaction.                                *)
LEMMA RowSteps ==
  ASSUME TypeOK, PathInv, Next, row' # row
  PROVE  row' = pending /\ pc \in {"phaseDone", "persist"}
<1> USE DEF Happened, disk, db, place, facts
<1>1. File
  BY DEF Next, PhaseSteps, Executor, BeginBackup, EndBackup, BackupFails, OpNothing, OpRefused,
     OpFails, LastOpDone, Cleanup, OpBackup, OpBackupEnds, OpGivesUp, RunTool, ToolSucceeds,
     ToolFails, Replace, DropOriginal, DropBackup, UnlinkFails, Move, MoveEnds, MoveFails,
     RestoreUnlinks, RestoreMoves, RestoreFails, OpSucceeds, PathRefused
<1>2. EndPhase \/ Persist \/ Aborts
  BY <1>1 DEF File, StartFile, SkipPhase, LastPhaseDone, PersistFails, Introspect,
     IntrospectFails, PhaseFails, Killed
<1>3. QED
  BY <1>2 DEF EndPhase, Persist, Aborts, PathInv

(* A path is committed only when the film is complete under it.            *)
THEOREM CommitsFollowTheFile == Spec => CommitFollowsFile
<1>1. IInv /\ [Next]_vars => (row' # row => Exposed \/ Whole(file[row']))
  <2> SUFFICES ASSUME IInv, [Next]_vars, row' # row, ~Exposed
               PROVE  Whole(file[row'])
    OBVIOUS
  <2>1. Next
    BY DEF vars, db
  <2>2. row' = pending /\ pc \in {"phaseDone", "persist"}
    BY <2>1, RowSteps DEF IInv
  <2>3. file[row] = Absent /\ SomeFile
    BY <2>2 DEF IInv, PathInv, CopyInv, QuietInv, Quiet, PCs
  <2>4. pending \in Names /\ row \in Names /\ pending # row
    BY <2>2 DEF IInv, TypeOK
  <2>5. QED
    BY <2>2, <2>3, <2>4, NamesAssumption DEF SomeFile, Names, Whole
<1>2. QED
  BY <1>1, InductiveInvariant, PTL DEF Spec, CommitFollowsFile

(* The row names the film when a path is committed and when the run is over *)
(* (PathFollowsFile): both of the above.                                    *)
THEOREM PathsFollowTheFile == Spec => PathFollowsFile
  BY RowNamesTheFilm, CommitsFollowTheFile DEF PathFollowsFile
=============================================================================
