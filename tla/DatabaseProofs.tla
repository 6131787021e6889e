--------------------------- MODULE DatabaseProofs ---------------------------
(***************************************************************************)
(* Theorems about the database file: about the file when it is backed up   *)
(* and restored (LibraryBackup), for every number of processes, commits,   *)
(* backups, restores and faults; about its job table and those who write   *)
(* to it (JobQueue), for every set of jobs and workers and every value of  *)
(* the timing constants, where IInv is inductive under Tolerant, the       *)
(* assumption that heartbeats are not missed often enough to lose a job;   *)
(* and about its tables when they are looked at through the pages of a     *)
(* list (LibraryPages), for every library, list, query and size of a page, *)
(* where PagesIInv is inductive.  The three systems share no variable.     *)
(***************************************************************************)
EXTENDS JobQueue, LibraryBackup, LibraryPages, FiniteSetTheorems, TLAPS

-----------------------------------------------------------------------------
(* Backup and restore: what the next process that opens the library finds, *)
(* and what a backup holds.                                                *)

Stored == SUBSET (0..MaxCommits)

\* What a process remembers of its command.
States ==
    [pc : {"idle", "done", "copying", "validated", "checked"}]
      \cup [pc : {"writing"}, txn : 0..MaxCommits]
      \cup [pc : {"copied", "moving"}, copy : Databases]
      \cup [pc : {"writing temp"}, file : DOMAIN base]
      \cup [pc : {"written", "verified", "unlinked"}, db : Stored]

\* Files and their names.
FileType ==
    /\ IsFiniteSet(DOMAIN base) /\ DOMAIN base \subseteq Nat
    /\ base \in [DOMAIN base -> Databases]
    /\ IsFiniteSet(DOMAIN frames) /\ DOMAIN frames \subseteq Nat
    /\ frames \in [DOMAIN frames -> [of : DOMAIN base, txns : Stored]]
    /\ name \in [main : DOMAIN base, temp : DOMAIN base \cup {Absent},
                 wal : DOMAIN frames \cup {Absent}]

\* Processes, and what is counted and remembered.
ProcType ==
    /\ conn = [p \in Procs |-> conn[p]]
    /\ \A p \in Procs : conn[p] # Absent => conn[p] \in [db : DOMAIN base, wal : DOMAIN frames]
    /\ proc \in [Procs -> States]
    /\ \A p \in Procs : conn[p] = Absent =>
         proc[p].pc \notin {"writing", "copying", "copied", "moving", "done"}
    /\ archive \in Databases \cup {Absent}
    /\ \A p \in Procs : proc[p].pc \in Restoring \cup {"validated", "checked"} => archive # Absent
    /\ count \in [commits : 0..MaxCommits, tasks : 0..MaxTasks, faults : 0..MaxFaults]
    /\ history \subseteq {"cut", "overtaken", "shared"}

\* The file a restore writes is not yet anybody's library.
TempInv ==
    name.temp # Absent =>
        /\ name.temp # name.main
        /\ \A p \in Procs : conn[p] # Absent => conn[p].db # name.temp

\* The only restore at work has written what it has read.
RestoreInv ==
    history = {} =>
        /\ \A p \in Procs, q \in Procs :
             proc[p].pc \in Restoring /\ proc[q].pc \in Restoring => p = q
        /\ \A p \in Procs :
             /\ proc[p].pc = "writing temp" => proc[p].file = name.temp
             /\ proc[p].pc \in {"written", "verified", "unlinked"} =>
                  name.temp # Absent /\ base[name.temp] = proc[p].db

\* Who has the library open has its WAL open, and who has its WAL open has the
\* library open; together they hold what they should.
WholeInv ==
    history = {} =>
        IF Unlinked THEN name.wal = Absent
        ELSE /\ base[name.main] # Torn
             /\ \A p \in Procs : conn[p] # Absent =>
                  (conn[p].db = name.main <=> conn[p].wal = name.wal)
             /\ name.wal # Absent => frames[name.wal].of = name.main
             /\ truth = base[name.main] \cup IF name.wal = Absent THEN {} ELSE frames[name.wal].txns

BackupIInv == FileType /\ ProcType /\ TempInv /\ RestoreInv /\ WholeInv

----------------------------------------------------------------------------
(* The helpers.                                                            *)

LEMMA StoredFacts ==
  /\ Databases = {Torn} \cup Stored /\ Torn \notin Stored /\ Absent \notin Stored
  /\ Absent # Torn /\ Absent \notin Databases /\ Absent \notin Nat
  /\ \A a \in Stored, b \in Stored : a \cup b \in Stored
  /\ {} \in Stored /\ {0} \in Stored
  /\ MaxCommits \in Nat /\ MaxTasks \in Nat /\ MaxFaults \in Nat
BY LibraryBackupAssumption DEF Databases, Stored

LEMMA WithFacts ==
  ASSUME NEW f, NEW x, NEW v
  PROVE  /\ With(f, x, v) = [y \in DOMAIN f \cup {x} |-> With(f, x, v)[y]]
         /\ DOMAIN With(f, x, v) = DOMAIN f \cup {x} /\ With(f, x, v)[x] = v
         /\ \A y \in DOMAIN f : y # x => With(f, x, v)[y] = f[y]
BY DEF With

LEMMA FreshFacts ==
  ASSUME NEW f, IsFiniteSet(DOMAIN f)
  PROVE  Fresh(f) \in Nat /\ Fresh(f) \notin DOMAIN f
<1> DEFINE n == Cardinality(DOMAIN f)
<1>1. n \in Nat
  BY FS_CardinalityType
<1>2. \E x \in 1..n + 1 : x \notin DOMAIN f
  <2>1. SUFFICES ASSUME 1..n + 1 \subseteq DOMAIN f PROVE FALSE
    OBVIOUS
  <2>2. Cardinality(1..n + 1) = n + 1
    BY <1>1, FS_Interval
  <2>3. Cardinality(1..n + 1) <= n
    BY <2>1, FS_Subset
  <2>4. QED
    BY <1>1, <2>2, <2>3
<1>3. Fresh(f) \in 1..n + 1 /\ Fresh(f) \notin DOMAIN f
  BY <1>2 DEF Fresh
<1>4. QED
  BY <1>1, <1>3

\* What the name of a step tells of what its process remembers.
LEMMA StateFacts ==
  ASSUME NEW s \in States
  PROVE  /\ s.pc = "writing" => s.txn \in 0..MaxCommits
         /\ s.pc \in {"copied", "moving"} => s \in [pc : {"copied", "moving"}, copy : Databases]
         /\ s.pc = "writing temp" => s.file \in DOMAIN base
         /\ s.pc \in {"written", "verified", "unlinked"} =>
              s \in [pc : {"written", "verified", "unlinked"}, db : Stored]
         /\ s.pc \in {"idle", "done", "copying", "validated", "checked", "writing", "copied",
                      "moving", "writing temp", "written", "verified", "unlinked"}
BY DEF States

LEMMA GotoFacts ==
  ASSUME ProcType, NEW p \in Procs, NEW s, Goto(p, s)
  PROVE  /\ proc'[p] = s
         /\ \A q \in Procs : q # p => proc'[q] = proc[q]
         /\ proc' = [q \in Procs |-> proc'[q]]
BY DEF ProcType, Goto

\* Processes that use the library see it, as long as nothing has happened.
LEMMA ReadsFacts ==
  ASSUME FileType, NEW f \in DOMAIN base, NEW w \in DOMAIN frames \cup {Absent}
  PROVE  /\ Reads(f, w) \in Databases
         /\ Reads(f, w) # Torn =>
              /\ base[f] \in Stored
              /\ w # Absent => frames[w].txns \in Stored
              /\ Reads(f, w) = base[f] \cup IF w = Absent THEN {} ELSE frames[w].txns
<1>1. base[f] \in Databases /\ (w # Absent => frames[w].txns \in Stored)
  BY DEF FileType
<1>2. QED
  BY <1>1, StoredFacts DEF Reads

LEMMA WholeLibrary ==
  ASSUME FileType, WholeInv, history = {}, ~Unlinked
  PROVE  /\ Library = truth /\ Library # Torn
         /\ \A p \in Procs : conn[p] # Absent /\ conn[p].db = name.main => View(p) = Library
<1>1. /\ name.main \in DOMAIN base /\ base[name.main] \in Stored
      /\ name.wal # Absent => frames[name.wal].txns \in Stored
      /\ name.wal # Absent => frames[name.wal].of = name.main
      /\ truth = base[name.main] \cup IF name.wal = Absent THEN {} ELSE frames[name.wal].txns
  BY StoredFacts DEF FileType, WholeInv
<1>2. Library = truth /\ Library # Torn
  <2>1. base[name.main] # Torn /\ truth \in Stored
    BY <1>1, StoredFacts
  <2>2. Library = truth
    BY <1>1, <2>1 DEF Library, Reads
  <2>3. QED
    BY <2>1, <2>2, StoredFacts
<1>3. QED
  BY <1>2 DEF WholeInv, View, Library

----------------------------------------------------------------------------
(* What a step leaves alone.                                               *)

LEMMA StatesGrow ==
  ASSUME DOMAIN base \subseteq DOMAIN base', NEW s \in States
  PROVE  s \in States'
BY DEF States, Databases, Stored

LEMMA Counted ==
  ASSUME ProcType
  PROVE  /\ Task => count' \in [commits : 0..MaxCommits, tasks : 0..MaxTasks, faults : 0..MaxFaults]
         /\ Fault => count' \in [commits : 0..MaxCommits, tasks : 0..MaxTasks, faults : 0..MaxFaults]
<1>1. /\ count \in [commits : 0..MaxCommits, tasks : 0..MaxTasks, faults : 0..MaxFaults]
      /\ count.commits \in 0..MaxCommits /\ count.tasks \in 0..MaxTasks /\ count.faults \in 0..MaxFaults
  BY DEF ProcType
<1>2. ASSUME Task
      PROVE  count' \in [commits : 0..MaxCommits, tasks : 0..MaxTasks, faults : 0..MaxFaults]
  <2>1. count.tasks + 1 \in 0..MaxTasks /\ count' = [count EXCEPT !.tasks = count.tasks + 1]
    BY <1>1, <1>2, StoredFacts DEF Task
  <2>2. QED
    BY <1>1, <2>1
<1>3. ASSUME Fault
      PROVE  count' \in [commits : 0..MaxCommits, tasks : 0..MaxTasks, faults : 0..MaxFaults]
  <2>1. count.faults + 1 \in 0..MaxFaults /\ count' = [count EXCEPT !.faults = count.faults + 1]
    BY <1>1, <1>3, StoredFacts DEF Fault
  <2>2. QED
    BY <1>1, <2>1
<1>4. QED
  BY <1>2, <1>3

\* A step of one process, that may lose its connection.
LEMMA ProcStep ==
  ASSUME ProcType, NEW p \in Procs, NEW s \in States', Goto(p, s),
         DOMAIN base \subseteq DOMAIN base', DOMAIN frames' = DOMAIN frames,
         \/ conn' = conn /\ (conn[p] = Absent =>
              s.pc \notin {"writing", "copying", "copied", "moving", "done"})
         \/ conn' = [conn EXCEPT ![p] = Absent] /\ s.pc = "idle",
         archive' \in Databases \cup {Absent}, archive # Absent => archive' # Absent,
         s.pc \in Restoring \cup {"validated", "checked"} => archive' # Absent,
         count' \in [commits : 0..MaxCommits, tasks : 0..MaxTasks, faults : 0..MaxFaults],
         history' \subseteq {"cut", "overtaken", "shared"}
  PROVE  ProcType'
<1>1. /\ proc'[p] = s /\ proc' = [q \in Procs |-> proc'[q]]
      /\ \A q \in Procs : q # p => proc'[q] = proc[q]
  BY GotoFacts
<1>2. /\ conn' = [q \in Procs |-> conn'[q]]
      /\ \A q \in Procs : q # p => conn'[q] = conn[q]
      /\ conn'[p] \in {conn[p], Absent}
  BY DEF ProcType
<1>3. \A q \in Procs : conn'[q] # Absent => conn'[q] \in [db : DOMAIN base', wal : DOMAIN frames']
  <2>1. \A q \in Procs : conn'[q] # Absent =>
          conn'[q] = conn[q] /\ conn[q] \in [db : DOMAIN base, wal : DOMAIN frames]
    BY <1>2 DEF ProcType
  <2>2. QED
    BY <2>1
<1>4. proc' \in [Procs -> States']
  <2>1. \A q \in Procs : proc[q] \in States'
    BY StatesGrow DEF ProcType
  <2>2. QED
    BY <1>1, <2>1
<1>5. \A q \in Procs : conn'[q] = Absent =>
        proc'[q].pc \notin {"writing", "copying", "copied", "moving", "done"}
  BY <1>1, <1>2 DEF ProcType
<1>6. \A q \in Procs : proc'[q].pc \in Restoring \cup {"validated", "checked"} => archive' # Absent
  BY <1>1 DEF ProcType
<1>7. Databases' = Databases /\ Restoring' = Restoring
  BY DEF Databases, Restoring
<1>8. QED
  BY <1>2, <1>3, <1>4, <1>5, <1>6, <1>7 DEF ProcType

LEMMA UnlinkedStays ==
  ASSUME ProcType, NEW p \in Procs, NEW s, Goto(p, s),
         s.pc # "unlinked", proc[p].pc # "unlinked"
  PROVE  Unlinked' <=> Unlinked
BY GotoFacts DEF Unlinked, At

\* A step of one process that leaves the library's files alone.
LEMMA FilesStay ==
  ASSUME BackupIInv, NEW p \in Procs, NEW s \in States', Goto(p, s),
         UNCHANGED <<name, base, frames, truth>>,
         \/ conn' = conn /\ (conn[p] = Absent =>
              s.pc \notin {"writing", "copying", "copied", "moving", "done"})
         \/ conn' = [conn EXCEPT ![p] = Absent] /\ s.pc = "idle",
         archive' \in Databases \cup {Absent}, archive # Absent => archive' # Absent,
         s.pc \notin Restoring,
         s.pc \in {"validated", "checked"} => archive' # Absent,
         count' \in [commits : 0..MaxCommits, tasks : 0..MaxTasks, faults : 0..MaxFaults],
         history' \subseteq {"cut", "overtaken", "shared"}, history \subseteq history',
         proc[p].pc = "unlinked" => history' # {}
  PROVE  BackupIInv'
<1>1. /\ proc'[p] = s
      /\ \A q \in Procs : q # p => proc'[q] = proc[q]
  BY GotoFacts DEF BackupIInv
<1>2. \A q \in Procs : q # p => conn'[q] = conn[q]
  BY DEF BackupIInv, ProcType
<1>3. conn'[p] \in {conn[p], Absent}
  BY DEF BackupIInv, ProcType
<1>4. FileType'
  BY DEF BackupIInv, FileType, Databases, Stored
<1>5. ProcType'
  BY ProcStep DEF BackupIInv
<1>6. TempInv'
  <2>1. \A q \in Procs : conn'[q] # Absent => conn'[q] = conn[q]
    BY <1>2, <1>3
  <2>2. QED
    BY <2>1 DEF BackupIInv, TempInv
<1>7. RestoreInv'
  <2>1. \A q \in Procs : proc'[q].pc \in Restoring => q # p /\ proc'[q] = proc[q]
    BY <1>1
  <2>2. history' = {} => history = {}
    OBVIOUS
  <2>3. QED
    BY <2>1, <2>2 DEF BackupIInv, RestoreInv, Restoring
<1>8. WholeInv'
  <2>1. SUFFICES ASSUME history' = {} PROVE WholeInv'
    BY DEF WholeInv
  <2>2. history = {} /\ (Unlinked' <=> Unlinked)
    BY <2>1, UnlinkedStays DEF BackupIInv, Restoring
  <2>3. \A q \in Procs : conn'[q] # Absent => conn'[q] = conn[q]
    BY <1>2, <1>3
  <2>4. QED
    BY <2>2, <2>3 DEF BackupIInv, WholeInv
<1>9. QED
  BY <1>4, <1>5, <1>6, <1>7, <1>8 DEF BackupIInv


\* How a command ends.
LEMMA EndFacts ==
  ASSUME ProcType, NEW p \in Procs
  PROVE  \E s \in States' : /\ End(p) => Goto(p, s)
                            /\ s.pc \in {"idle", "done"} /\ (conn[p] = Absent => s.pc = "idle")
<1> DEFINE s == IF conn[p] = Absent THEN Idle ELSE [pc |-> "done"]
<1>1. s \in States' /\ s.pc \in {"idle", "done"} /\ (conn[p] = Absent => s.pc = "idle")
  BY DEF States, Idle
<1>2. End(p) => Goto(p, s)
  BY DEF End
<1>3. QED
  BY <1>1, <1>2

LEMMA FilesStayEnd ==
  ASSUME BackupIInv, NEW p \in Procs, End(p),
         UNCHANGED <<name, base, frames, truth, conn>>,
         archive' \in Databases \cup {Absent}, archive # Absent => archive' # Absent,
         count' \in [commits : 0..MaxCommits, tasks : 0..MaxTasks, faults : 0..MaxFaults],
         history' = history, proc[p].pc # "unlinked"
  PROVE  BackupIInv'
<1>1. PICK s \in States' : /\ Goto(p, s) /\ s.pc \in {"idle", "done"}
                           /\ (conn[p] = Absent => s.pc = "idle")
  BY EndFacts DEF BackupIInv
<1>2. s.pc \notin Restoring /\ s.pc \notin {"validated", "checked"}
  BY <1>1 DEF Restoring
<1>3. history' \subseteq {"cut", "overtaken", "shared"}
  BY DEF BackupIInv, ProcType
<1>4. QED
  BY <1>1, <1>2, <1>3, FilesStay

----------------------------------------------------------------------------
(* The steps that leave the library's files alone.                         *)

LEMMA BeginWriteKeeps ==
  ASSUME BackupIInv, NEW p \in Procs, BeginWrite(p)
  PROVE  BackupIInv'
<1> DEFINE s == [pc |-> "writing", txn |-> count'.commits]
<1>1. /\ count' = [count EXCEPT !.commits = count.commits + 1]
      /\ count.commits + 1 \in 0..MaxCommits /\ count'.commits = count.commits + 1
      /\ count' \in [commits : 0..MaxCommits, tasks : 0..MaxTasks, faults : 0..MaxFaults]
  BY StoredFacts DEF BeginWrite, BackupIInv, ProcType
<1>2. s \in States' /\ s.pc = "writing" /\ Goto(p, s)
  BY <1>1 DEF States, BeginWrite
<1>3. s.pc \notin Restoring
  BY DEF Restoring
<1>4. /\ archive' \in Databases \cup {Absent} /\ archive' = archive
      /\ history' \subseteq {"cut", "overtaken", "shared"} /\ history' = history
      /\ UNCHANGED <<name, base, frames, truth, conn>> /\ conn[p] # Absent
      /\ proc[p].pc # "unlinked"
  BY DEF BeginWrite, BackupIInv, ProcType, At
<1> HIDE DEF s
<1>5. QED
  BY <1>1, <1>2, <1>3, <1>4, FilesStay

LEMMA CopyKeeps ==
  ASSUME BackupIInv, NEW p \in Procs, Copy(p)
  PROVE  BackupIInv'
<1>1. /\ archive' \in Databases \cup {Absent} /\ archive' = archive
      /\ history' \subseteq {"cut", "overtaken", "shared"} /\ history' = history
      /\ UNCHANGED <<name, base, frames, truth, conn>> /\ conn[p] # Absent
      /\ count' \in [commits : 0..MaxCommits, tasks : 0..MaxTasks, faults : 0..MaxFaults]
      /\ proc[p].pc = "copying"
  BY DEF Copy, BackupIInv, ProcType, At
<1>2. CASE View(p) = Torn
  BY <1>1, <1>2, FilesStayEnd DEF Copy
<1>3. CASE View(p) # Torn
  <2> DEFINE s == [pc |-> "copied", copy |-> View(p)]
  <2>1. View(p) \in Databases
    BY <1>1, ReadsFacts DEF View, BackupIInv, ProcType
  <2>2. s \in States' /\ s.pc = "copied" /\ Goto(p, s) /\ s.pc \notin Restoring
    BY <2>1, <1>3 DEF States, Copy, Restoring, Databases
  <2> HIDE DEF s
  <2>3. QED
    BY <1>1, <2>2, FilesStay
<1>4. QED
  BY <1>2, <1>3

LEMMA MoveKeeps ==
  ASSUME BackupIInv, NEW p \in Procs, Move(p) \/ MoveEnds(p) \/ MoveFails(p)
  PROVE  BackupIInv'
<1>1. /\ history' = history /\ End(p)
      /\ UNCHANGED <<name, base, frames, truth, conn>>
      /\ proc[p].pc \in {"copied", "moving"}
  BY DEF Move, MoveEnds, MoveFails, At
<1>2. count' \in [commits : 0..MaxCommits, tasks : 0..MaxTasks, faults : 0..MaxFaults]
  BY Counted DEF Move, MoveEnds, MoveFails, BackupIInv, ProcType
<1>3. proc[p].copy \in Databases
  BY <1>1, StateFacts DEF BackupIInv, ProcType
<1>4. archive' \in Databases \cup {Absent} /\ (archive # Absent => archive' # Absent)
  BY <1>3, StoredFacts DEF Move, MoveEnds, MoveFails, BackupIInv, ProcType
<1>5. QED
  BY <1>1, <1>2, <1>4, FilesStayEnd

LEMMA MoveStartsKeeps ==
  ASSUME BackupIInv, NEW p \in Procs, MoveStarts(p)
  PROVE  BackupIInv'
<1> DEFINE s == [proc[p] EXCEPT !.pc = "moving"]
<1>1. proc[p] \in [pc : {"copied", "moving"}, copy : Databases] /\ proc[p].pc = "copied"
  BY StateFacts DEF MoveStarts, At, BackupIInv, ProcType
<1>2. s \in [pc : {"copied", "moving"}, copy : Databases] /\ s.pc = "moving"
  BY <1>1
<1>3. s \in States' /\ s.pc \notin Restoring /\ Goto(p, s)
  BY <1>2 DEF States, Databases, Restoring, MoveStarts
<1>4. /\ archive' = Torn /\ Torn \in Databases /\ Torn # Absent
      /\ history' = history /\ history' \subseteq {"cut", "overtaken", "shared"}
      /\ UNCHANGED <<name, base, frames, truth, conn>> /\ conn[p] # Absent
      /\ count' \in [commits : 0..MaxCommits, tasks : 0..MaxTasks, faults : 0..MaxFaults]
  BY <1>1, StoredFacts DEF MoveStarts, BackupIInv, ProcType
<1> HIDE DEF s
<1>5. QED
  BY <1>1, <1>2, <1>3, <1>4, FilesStay

LEMMA StartRestoreKeeps ==
  ASSUME BackupIInv, NEW p \in Procs, StartRestore(p)
  PROVE  BackupIInv'
<1> DEFINE s == [pc |-> "validated"]
<1>1. s \in States' /\ s.pc = "validated" /\ s.pc \notin Restoring /\ Goto(p, s)
  BY DEF States, Restoring, StartRestore
<1>2. /\ archive' = archive /\ archive # Absent /\ archive \in Databases \cup {Absent}
      /\ history' = history /\ history' \subseteq {"cut", "overtaken", "shared"}
      /\ UNCHANGED <<name, base, frames, truth, conn>> /\ proc[p].pc # "unlinked"
      /\ count' \in [commits : 0..MaxCommits, tasks : 0..MaxTasks, faults : 0..MaxFaults]
  BY Counted DEF StartRestore, BackupIInv, ProcType, At
<1> HIDE DEF s
<1>3. QED
  BY <1>1, <1>2, FilesStay

LEMMA KillKeeps ==
  ASSUME BackupIInv, NEW p \in Procs, Kill(p)
  PROVE  BackupIInv'
<1>1. Idle \in States' /\ Idle.pc = "idle" /\ Idle.pc \notin Restoring /\ Goto(p, Idle)
  BY DEF States, Restoring, Kill, Idle
<1>2. /\ archive' = archive /\ archive \in Databases \cup {Absent}
      /\ history' \subseteq {"cut", "overtaken", "shared"} /\ history \subseteq history'
      /\ UNCHANGED <<name, base, frames, truth>> /\ conn' = [conn EXCEPT ![p] = Absent]
      /\ proc[p].pc = "unlinked" => history' # {}
      /\ count' \in [commits : 0..MaxCommits, tasks : 0..MaxTasks, faults : 0..MaxFaults]
  BY Counted DEF Kill, BackupIInv, ProcType, At
<1>3. QED
  BY <1>1, <1>2, FilesStay


----------------------------------------------------------------------------
(* The steps that close a connection.                                      *)

LEMMA ClosedFacts ==
  ASSUME FileType, NEW f \in DOMAIN base, NEW w \in DOMAIN frames, NEW users,
         Closed(f, w, users), frames' = frames
  PROVE  /\ FileType'
         /\ DOMAIN base' = DOMAIN base
         /\ name'.main = name.main /\ name'.temp = name.temp
         /\ \A g \in DOMAIN base : g # name.main => base'[g] = base[g]
         /\ \/ base' = base /\ name' = name
            \/ /\ users = {} /\ f = name.main /\ base[f] # Torn /\ base'[f] # Torn
               /\ base'[f] = base[f] \cup frames[w].txns /\ name'.wal = Absent
<1>1. CASE users = {} /\ f = name.main /\ Reads(f, w) # Torn
  <2>1. /\ base' = [base EXCEPT ![f] = base[f] \cup frames[w].txns]
        /\ name' = [name EXCEPT !.wal = Absent]
    BY <1>1 DEF Closed
  <2>2. base[f] \in Stored /\ frames[w].txns \in Stored
    BY ReadsFacts, <1>1, StoredFacts DEF FileType
  <2>3. base[f] # Torn /\ base[f] \cup frames[w].txns \in Stored
        /\ base[f] \cup frames[w].txns # Torn /\ base[f] \cup frames[w].txns \in Databases
    BY <2>2, StoredFacts
  <2>4. base' \in [DOMAIN base -> Databases] /\ DOMAIN base' = DOMAIN base
    BY <2>1, <2>3 DEF FileType
  <2>5. name' \in [main : DOMAIN base, temp : DOMAIN base \cup {Absent},
                   wal : DOMAIN frames \cup {Absent}]
    BY <2>1 DEF FileType
  <2>6. FileType'
    BY <2>4, <2>5 DEF FileType, Databases, Stored
  <2>7. QED
    BY <1>1, <2>1, <2>3, <2>4, <2>6 DEF FileType
<1>2. CASE ~(users = {} /\ f = name.main /\ Reads(f, w) # Torn)
  <2>1. UNCHANGED <<base, name>>
    BY <1>2 DEF Closed
  <2>2. QED
    BY <2>1 DEF FileType, Databases, Stored
<1>3. QED
  BY <1>1, <1>2

LEMMA ClosedKeeps ==
  ASSUME BackupIInv, NEW p \in Procs, NEW s \in States', Goto(p, s),
         NEW f \in DOMAIN base, NEW w \in DOMAIN frames, NEW users,
         Closed(f, w, users), frames' = frames,
         UNCHANGED <<truth, history, archive>>,
         count' \in [commits : 0..MaxCommits, tasks : 0..MaxTasks, faults : 0..MaxFaults],
         \/ conn' = conn /\ (conn[p] = Absent =>
              s.pc \notin {"writing", "copying", "copied", "moving", "done"})
         \/ conn' = [conn EXCEPT ![p] = Absent] /\ s.pc = "idle",
         s.pc \notin Restoring, proc[p].pc \notin Restoring,
         s.pc \in {"validated", "checked"} => archive # Absent,
         users = {} /\ f = name.main =>
           \A q \in Procs : conn'[q] # Absent => conn[q].db # name.main,
         history = {} /\ ~Unlinked /\ f = name.main => w = name.wal
  PROVE  BackupIInv'
<1>1. /\ proc'[p] = s
      /\ \A q \in Procs : q # p => proc'[q] = proc[q]
  BY GotoFacts DEF BackupIInv
<1>2. \A q \in Procs : conn'[q] # Absent => conn'[q] = conn[q]
  BY DEF BackupIInv, ProcType
<1>3. /\ FileType' /\ DOMAIN base' = DOMAIN base
      /\ name'.main = name.main /\ name'.temp = name.temp
      /\ \A g \in DOMAIN base : g # name.main => base'[g] = base[g]
  BY ClosedFacts DEF BackupIInv
<1>4. ProcType'
  <2>1. /\ archive' \in Databases \cup {Absent} /\ (archive # Absent => archive' # Absent)
        /\ history' \subseteq {"cut", "overtaken", "shared"}
        /\ DOMAIN base \subseteq DOMAIN base' /\ DOMAIN frames' = DOMAIN frames
        /\ s.pc \in Restoring \cup {"validated", "checked"} => archive' # Absent
    BY <1>3 DEF BackupIInv, ProcType
  <2>2. QED
    BY <2>1, ProcStep DEF BackupIInv
<1>5. TempInv'
  BY <1>2, <1>3 DEF BackupIInv, TempInv
<1>6. RestoreInv'
  <2>1. \A q \in Procs : proc'[q].pc \in Restoring => q # p /\ proc'[q] = proc[q]
    BY <1>1
  <2>2. name.temp # Absent => name.temp \in DOMAIN base /\ name.temp # name.main
    BY DEF BackupIInv, TempInv, FileType
  <2>3. name.temp # Absent => base'[name'.temp] = base[name.temp]
    BY <1>3, <2>2
  <2>4. QED
    BY <1>3, <2>1, <2>3 DEF BackupIInv, RestoreInv, Restoring
<1>7. WholeInv'
  <2>1. SUFFICES ASSUME history' = {} PROVE WholeInv'
    BY DEF WholeInv
  <2>2. history = {} /\ (Unlinked' <=> Unlinked)
    BY <2>1, UnlinkedStays DEF BackupIInv, Restoring
  <2>3. CASE base' = base /\ name' = name
    BY <1>2, <2>2, <2>3 DEF BackupIInv, WholeInv
  <2>4. CASE /\ users = {} /\ f = name.main /\ base[f] # Torn /\ base'[f] # Torn
             /\ base'[f] = base[f] \cup frames[w].txns /\ name'.wal = Absent
    <3>1. CASE Unlinked
      BY <2>2, <2>4, <3>1 DEF WholeInv
    <3>2. CASE ~Unlinked
      <4>1. w = name.wal /\ w # Absent
        BY <2>2, <2>4, <3>2, StoredFacts DEF BackupIInv, FileType
      <4>2. \A q \in Procs : conn'[q] # Absent => conn'[q].db # name'.main /\ conn'[q].wal # name'.wal
        BY <1>2, <1>3, <2>4, StoredFacts DEF BackupIInv, FileType, ProcType
      <4>3. truth' = base'[name'.main] /\ base'[name'.main] # Torn
        BY <1>3, <2>2, <2>4, <3>2, <4>1 DEF BackupIInv, WholeInv
      <4>4. QED
        BY <2>2, <2>4, <3>2, <4>2, <4>3 DEF WholeInv
    <3>3. QED
      BY <3>1, <3>2
  <2>5. QED
    BY <2>3, <2>4, ClosedFacts DEF BackupIInv
<1>8. QED
  BY <1>3, <1>4, <1>5, <1>6, <1>7 DEF BackupIInv

LEMMA CloseKeeps ==
  ASSUME BackupIInv, NEW p \in Procs, Close(p)
  PROVE  BackupIInv'
<1> DEFINE f == conn[p].db
           w == conn[p].wal
           users == Users(conn[p].db, Procs \ {p})
<1>1. f \in DOMAIN base /\ w \in DOMAIN frames
  BY DEF Close, BackupIInv, ProcType
<1>2. Closed(f, w, users) /\ Goto(p, Idle) /\ conn' = [conn EXCEPT ![p] = Absent]
  BY DEF Close
<1>3. Idle \in States' /\ Idle.pc = "idle"
  BY DEF States, Idle
<1>4. Idle.pc \notin Restoring /\ proc[p].pc \notin Restoring
  BY <1>3 DEF Restoring, Close
<1>5. /\ frames' = frames /\ UNCHANGED <<truth, history, archive>>
      /\ count' \in [commits : 0..MaxCommits, tasks : 0..MaxTasks, faults : 0..MaxFaults]
  BY DEF Close, BackupIInv, ProcType
<1>6. users = {} /\ f = name.main => \A q \in Procs : conn'[q] # Absent => conn[q].db # name.main
  BY <1>2 DEF Users, BackupIInv, ProcType
<1>7. history = {} /\ ~Unlinked /\ f = name.main => w = name.wal
  BY DEF BackupIInv, WholeInv, Close
<1> HIDE DEF f, w, users
<1>8. QED
  BY <1>1, <1>2, <1>3, <1>4, <1>5, <1>6, <1>7, ClosedKeeps

LEMMA LockCheckKeeps ==
  ASSUME BackupIInv, NEW p \in Procs, NEW s \in States',
         LockCheck(p, Goto(p, s), End(p)),
         UNCHANGED <<frames, conn, truth, history, archive>>,
         count' \in [commits : 0..MaxCommits, tasks : 0..MaxTasks, faults : 0..MaxFaults],
         conn[p] = Absent => s.pc \notin {"writing", "copying", "copied", "moving", "done"},
         s.pc \notin Restoring, proc[p].pc \notin Restoring,
         s.pc \in {"validated", "checked"} => archive # Absent
  PROVE  BackupIInv'
<1>1. /\ archive' \in Databases \cup {Absent} /\ archive' = archive
      /\ history' \subseteq {"cut", "overtaken", "shared"} /\ history' = history
      /\ proc[p].pc # "unlinked"
  BY DEF BackupIInv, ProcType, Restoring
<1>2. CASE Goto(p, s) /\ UNCHANGED <<base, name>>
  BY <1>1, <1>2, FilesStay
<1>3. CASE End(p) /\ UNCHANGED <<base, name>>
  BY <1>1, <1>3, FilesStayEnd
<1>4. CASE /\ Goto(p, s) /\ name.wal # Absent
           /\ Closed(name.main, name.wal, Users(name.main, Procs))
  <2>1. name.main \in DOMAIN base /\ name.wal \in DOMAIN frames
    BY <1>4 DEF BackupIInv, FileType
  <2>2. Users(name.main, Procs) = {} =>
          \A q \in Procs : conn'[q] # Absent => conn[q].db # name.main
    BY DEF Users
  <2> DEFINE f == name.main
             w == name.wal
             users == Users(name.main, Procs)
  <2>3. /\ f \in DOMAIN base /\ w \in DOMAIN frames /\ Closed(f, w, users)
        /\ users = {} /\ f = name.main => \A q \in Procs : conn'[q] # Absent => conn[q].db # name.main
        /\ history = {} /\ ~Unlinked /\ f = name.main => w = name.wal
    BY <1>4, <2>1, <2>2
  <2> HIDE DEF f, w, users
  <2>4. QED
    BY <1>4, <2>3, ClosedKeeps
<1>5. QED
  BY <1>2, <1>3, <1>4 DEF LockCheck

LEMMA LockChecksKeep ==
  ASSUME BackupIInv, NEW p \in Procs, StartBackup(p) \/ RestoreLockCheck(p)
  PROVE  BackupIInv'
<1>1. CASE StartBackup(p)
  <2> DEFINE s == [pc |-> "copying"]
  <2>1. s \in States' /\ s.pc = "copying" /\ s.pc \notin Restoring
    BY DEF States, Restoring
  <2>2. /\ conn[p] # Absent /\ proc[p].pc \notin Restoring
        /\ UNCHANGED <<frames, conn, truth, history, archive>>
        /\ count' \in [commits : 0..MaxCommits, tasks : 0..MaxTasks, faults : 0..MaxFaults]
        /\ LockCheck(p, Goto(p, s), End(p))
    BY <1>1, Counted DEF StartBackup, At, Restoring, BackupIInv
  <2> HIDE DEF s
  <2>3. QED
    BY <2>1, <2>2, LockCheckKeeps
<1>2. CASE RestoreLockCheck(p)
  <2> DEFINE s == [pc |-> "checked"]
  <2>1. s \in States' /\ s.pc = "checked" /\ s.pc \notin Restoring
    BY DEF States, Restoring
  <2>2. /\ archive # Absent /\ proc[p].pc \notin Restoring
        /\ UNCHANGED <<frames, conn, truth, history, archive>>
        /\ count' \in [commits : 0..MaxCommits, tasks : 0..MaxTasks, faults : 0..MaxFaults]
        /\ LockCheck(p, Goto(p, s), End(p))
    BY <1>2 DEF RestoreLockCheck, At, Restoring, BackupIInv, ProcType
  <2> HIDE DEF s
  <2>3. QED
    BY <2>1, <2>2, LockCheckKeeps
<1>3. QED
  BY <1>1, <1>2


----------------------------------------------------------------------------
(* The steps that use the library.                                         *)

LEMMA WalsFacts ==
  ASSUME FileType, ProcType
  PROVE  /\ DOMAIN Wals \subseteq DOMAIN frames
         /\ IsFiniteSet(DOMAIN Wals) /\ DOMAIN Wals \subseteq Nat
         /\ name.wal # Absent => name.wal \in DOMAIN Wals
         /\ \A q \in Procs : conn[q] # Absent => conn[q].wal \in DOMAIN Wals
         /\ \A v \in DOMAIN Wals : Wals[v] = frames[v] /\ Wals[v] \in [of : DOMAIN base, txns : Stored]
<1>1. DOMAIN Wals \subseteq DOMAIN frames
  BY DEF Wals
<1>2. IsFiniteSet(DOMAIN Wals) /\ DOMAIN Wals \subseteq Nat
  BY <1>1, FS_Subset DEF FileType
<1>3. name.wal # Absent => name.wal \in DOMAIN Wals
  BY DEF Wals, FileType
<1>4. \A q \in Procs : conn[q] # Absent => conn[q].wal \in DOMAIN Wals
  BY DEF Wals, ProcType
<1>5. \A v \in DOMAIN Wals : Wals[v] = frames[v]
  BY DEF Wals
<1>6. QED
  BY <1>1, <1>2, <1>3, <1>4, <1>5 DEF FileType

LEMMA OpenKeeps ==
  ASSUME BackupIInv, NEW p \in Procs, Open(p)
  PROVE  BackupIInv'
<1> DEFINE w == IF name.wal = Absent THEN Fresh(Wals) ELSE name.wal
           new == [of |-> name.main, txns |-> IF name.wal = Absent THEN {} ELSE frames[w].txns]
<1>1. /\ proc[p].pc = "idle" /\ conn[p] = Absent
      /\ conn' = [conn EXCEPT ![p] = [db |-> name.main, wal |-> w]]
      /\ name' = [name EXCEPT !.wal = w] /\ frames' = With(Wals, w, new)
      /\ history' = history \cup {x \in {"overtaken"} : Unlinked}
      /\ UNCHANGED <<base, proc, archive, count, truth>>
  BY DEF Open, At
<1>2. FileType /\ ProcType /\ TempInv /\ RestoreInv /\ WholeInv
  BY DEF BackupIInv
<1>3. /\ name.wal = Absent => w \notin DOMAIN Wals
      /\ name.wal # Absent => w = name.wal /\ w \in DOMAIN frames
      /\ w \in Nat /\ w # Absent
  BY <1>2, WalsFacts, FreshFacts, StoredFacts DEF FileType
<1>4. new \in [of : DOMAIN base, txns : Stored] /\ new.of = name.main
  BY <1>2, <1>3, StoredFacts DEF FileType
<1> HIDE DEF w, new
<1>5. /\ DOMAIN frames' = DOMAIN Wals \cup {w} /\ frames'[w] = new
      /\ \A v \in DOMAIN Wals : v # w => frames'[v] = frames[v]
      /\ frames' = [v \in DOMAIN frames' |-> frames'[v]]
  <2>1. /\ frames' = With(Wals, w, new) /\ DOMAIN frames' = DOMAIN Wals \cup {w}
        /\ frames' = [v \in DOMAIN Wals \cup {w} |-> frames'[v]]
        /\ frames'[w] = new /\ \A v \in DOMAIN Wals : v # w => frames'[v] = Wals[v]
    BY <1>1 DEF With
  <2>2. QED
    BY <1>2, <2>1, WalsFacts
<1>6. name'.main = name.main /\ name'.temp = name.temp /\ name'.wal = w
  BY <1>1, <1>2 DEF FileType
<1>7. /\ conn' = [q \in Procs |-> conn'[q]]
      /\ conn'[p] = [db |-> name.main, wal |-> w]
      /\ \A q \in Procs : q # p => conn'[q] = conn[q]
  BY <1>1, <1>2 DEF ProcType
<1>8. Unlinked' <=> Unlinked
  BY <1>1 DEF Unlinked, At
<1>9. FileType'
  <2>1. IsFiniteSet(DOMAIN frames') /\ DOMAIN frames' \subseteq Nat
    BY <1>2, <1>3, <1>5, WalsFacts, FS_AddElement
  <2>2. \A v \in DOMAIN frames' : frames'[v] \in [of : DOMAIN base, txns : Stored]
    BY <1>2, <1>4, <1>5, WalsFacts
  <2>3. frames' \in [DOMAIN frames' -> [of : DOMAIN base, txns : Stored]]
    BY <1>5, <2>2
  <2>4. name' \in [main : DOMAIN base, temp : DOMAIN base \cup {Absent},
                   wal : DOMAIN frames' \cup {Absent}]
    BY <1>1, <1>2, <1>5 DEF FileType
  <2>5. QED
    BY <1>1, <1>2, <2>1, <2>3, <2>4 DEF FileType, Databases, Stored
<1>10. ProcType'
  <2>1. \A q \in Procs : conn'[q] # Absent => conn'[q] \in [db : DOMAIN base, wal : DOMAIN frames']
    <3>1. conn'[p] \in [db : DOMAIN base, wal : DOMAIN frames']
      BY <1>2, <1>5, <1>7 DEF FileType
    <3>2. ASSUME NEW q \in Procs, q # p, conn'[q] # Absent
          PROVE  conn'[q] \in [db : DOMAIN base, wal : DOMAIN frames']
      <4>1. conn[q] \in [db : DOMAIN base, wal : DOMAIN frames] /\ conn[q].wal \in DOMAIN frames'
        BY <1>2, <1>5, <1>7, <3>2, WalsFacts DEF ProcType
      <4>2. QED
        BY <1>7, <3>2, <4>1
    <3>3. QED
      BY <3>1, <3>2
  <2>2. \A q \in Procs : conn'[q] = Absent => conn[q] = Absent
    BY <1>1, <1>7
  <2>3. proc' \in [Procs -> States'] /\ proc' = proc
    BY <1>1, <1>2, StatesGrow DEF ProcType
  <2>4. history' \subseteq {"cut", "overtaken", "shared"}
    BY <1>1, <1>2 DEF ProcType
  <2>5. QED
    BY <1>1, <1>2, <1>7, <2>1, <2>2, <2>3, <2>4 DEF ProcType, Databases, Restoring
<1>11. TempInv'
  BY <1>1, <1>2, <1>6, <1>7 DEF TempInv
<1>12. RestoreInv'
  BY <1>1, <1>2, <1>6 DEF RestoreInv, Restoring
<1>13. WholeInv'
  <2>1. SUFFICES ASSUME history' = {} PROVE WholeInv'
    BY DEF WholeInv
  <2>2. history = {} /\ ~Unlinked /\ ~Unlinked'
    BY <1>1, <1>8, <2>1
  <2>3. /\ base[name.main] # Torn
        /\ \A q \in Procs : conn[q] # Absent => (conn[q].db = name.main <=> conn[q].wal = name.wal)
        /\ truth = base[name.main] \cup IF name.wal = Absent THEN {} ELSE frames[name.wal].txns
    BY <1>2, <2>2 DEF WholeInv
  <2>4. truth' = base'[name'.main] \cup frames'[name'.wal].txns
    BY <1>1, <1>3, <1>5, <1>6, <2>3 DEF new
  <2>5. ASSUME NEW q \in Procs, conn'[q] # Absent
        PROVE  conn'[q].db = name'.main <=> conn'[q].wal = name'.wal
    <3>1. CASE q = p
      BY <1>6, <1>7, <3>1
    <3>2. CASE q # p
      <4>1. conn'[q] = conn[q] /\ conn[q].wal \in DOMAIN Wals /\ conn[q].wal # Absent
        BY <1>2, <1>7, <2>5, <3>2, WalsFacts, StoredFacts
      <4>2. QED
        BY <1>3, <1>6, <2>3, <2>5, <4>1
    <3>3. QED
      BY <3>1, <3>2
  <2>6. base'[name'.main] # Torn /\ frames'[name'.wal].of = name'.main /\ name'.wal # Absent
    BY <1>1, <1>3, <1>4, <1>5, <1>6, <2>3
  <2>7. QED
    BY <2>2, <2>4, <2>5, <2>6 DEF WholeInv
<1>14. QED
  BY <1>9, <1>10, <1>11, <1>12, <1>13 DEF BackupIInv

LEMMA CommitKeeps ==
  ASSUME BackupIInv, NEW p \in Procs, Commit(p)
  PROVE  BackupIInv'
<1> DEFINE w == conn[p].wal
           t == proc[p].txn
<1>1. /\ proc[p].pc = "writing" /\ Goto(p, Idle)
      /\ frames' = [frames EXCEPT ![w].txns = frames[w].txns \cup {t}]
      /\ truth' = IF conn[p].db = name.main THEN truth \cup {t} ELSE truth
      /\ UNCHANGED <<name, base, conn, archive, count, history>>
  BY DEF Commit, At
<1>2. FileType /\ ProcType /\ TempInv /\ RestoreInv /\ WholeInv
  BY DEF BackupIInv
<1>3. conn[p] # Absent /\ w \in DOMAIN frames /\ w # Absent /\ w \in Nat /\ t \in 0..MaxCommits
  BY <1>1, <1>2, StateFacts, StoredFacts DEF ProcType, FileType
<1>4. /\ frames[w] \in [of : DOMAIN base, txns : Stored]
      /\ frames[w].txns \cup {t} \in Stored
  BY <1>2, <1>3 DEF FileType, Stored
<1>5. /\ frames' \in [DOMAIN frames -> [of : DOMAIN base, txns : Stored]]
      /\ DOMAIN frames' = DOMAIN frames
      /\ frames'[w].txns = frames[w].txns \cup {t} /\ frames'[w].of = frames[w].of
      /\ \A v \in DOMAIN frames : v # w => frames'[v] = frames[v]
  BY <1>1, <1>2, <1>3, <1>4 DEF FileType
<1>6. Idle \in States' /\ Idle.pc = "idle"
  BY DEF States, Idle
<1>7. proc'[p].pc = "idle" /\ \A q \in Procs : q # p => proc'[q] = proc[q]
  BY <1>1, <1>2, <1>6, GotoFacts
<1>8. Unlinked' <=> Unlinked
  BY <1>1, <1>2, <1>6, UnlinkedStays
<1> HIDE DEF w, t
<1>9. FileType'
  BY <1>1, <1>2, <1>5 DEF FileType, Databases, Stored
<1>10. ProcType'
  <2>1. Idle.pc \notin Restoring \cup {"validated", "checked"}
    BY <1>6 DEF Restoring
  <2>2. QED
    BY <1>1, <1>2, <1>3, <1>5, <1>6, <2>1, ProcStep DEF ProcType
<1>11. TempInv'
  BY <1>1, <1>2 DEF TempInv
<1>12. RestoreInv'
  BY <1>1, <1>2, <1>7 DEF RestoreInv, Restoring
<1>13. WholeInv'
  <2>1. SUFFICES ASSUME history = {}, ~Unlinked PROVE WholeInv'
    BY <1>1, <1>2, <1>8 DEF WholeInv
  <2>2. /\ base[name.main] # Torn /\ (conn[p].db = name.main <=> w = name.wal)
        /\ \A q \in Procs : conn[q] # Absent => (conn[q].db = name.main <=> conn[q].wal = name.wal)
        /\ name.wal # Absent => frames[name.wal].of = name.main
        /\ truth = base[name.main] \cup IF name.wal = Absent THEN {} ELSE frames[name.wal].txns
    BY <1>2, <1>3, <2>1 DEF WholeInv, w
  <2>3. name.wal # Absent => name.wal \in DOMAIN frames
    BY <1>2 DEF FileType
  <2>4. truth' = base[name.main] \cup IF name.wal = Absent THEN {} ELSE frames'[name.wal].txns
    <3>1. CASE w = name.wal
      BY <1>1, <1>3, <1>5, <2>2, <3>1
    <3>2. CASE w # name.wal
      BY <1>1, <1>5, <2>2, <2>3, <3>2
    <3>3. QED
      BY <3>1, <3>2
  <2>5. name.wal # Absent => frames'[name.wal].of = name.main
    BY <1>5, <2>2, <2>3
  <2>6. QED
    BY <1>1, <1>8, <2>1, <2>2, <2>4, <2>5 DEF WholeInv
<1>14. QED
  BY <1>9, <1>10, <1>11, <1>12, <1>13 DEF BackupIInv

LEMMA CheckpointKeeps ==
  ASSUME BackupIInv, NEW p \in Procs, Checkpoint(p)
  PROVE  BackupIInv'
<1> DEFINE f == conn[p].db
           w == conn[p].wal
<1>1. /\ conn[p] # Absent /\ Reads(f, w) # Torn
      /\ UNCHANGED <<name, frames, conn, proc, archive, count, truth, history>>
  BY DEF Checkpoint, View
<1>2. FileType /\ ProcType /\ TempInv /\ RestoreInv /\ WholeInv
  BY DEF BackupIInv
<1>3. f \in DOMAIN base /\ w \in DOMAIN frames /\ w # Absent
  BY <1>1, <1>2, StoredFacts DEF ProcType, FileType
<1>4. base[f] \in Stored /\ frames[w].txns \in Stored
  BY <1>1, <1>2, <1>3, ReadsFacts
<1>5. PICK b \in Checkpointed(f, w, Users(f, Procs)) : base' = [base EXCEPT ![f] = b]
  BY DEF Checkpoint
<1>6. /\ b = base[f] \cup frames[w].txns \/ b = Torn
      /\ b = Torn => \E q \in Users(f, Procs) : conn[q].wal # w
  BY <1>4, <1>5, StoredFacts DEF Checkpointed
<1>7. b \in Databases
  BY <1>4, <1>6, StoredFacts
<1>8. /\ DOMAIN base' = DOMAIN base /\ base'[f] = b
      /\ base' \in [DOMAIN base -> Databases]
      /\ \A g \in DOMAIN base : g # f => base'[g] = base[g]
  BY <1>2, <1>3, <1>5, <1>7 DEF FileType
<1>9. FileType'
  BY <1>1, <1>2, <1>8 DEF FileType, Databases, Stored
<1>10. ProcType'
  <2>1. proc' \in [Procs -> States']
    BY <1>1, <1>2, <1>8, StatesGrow DEF ProcType
  <2>2. QED
    BY <1>1, <1>2, <1>8, <2>1 DEF ProcType, Databases, Restoring
<1>11. TempInv'
  BY <1>1, <1>2 DEF TempInv
<1>12. RestoreInv'
  <2>1. name.temp # Absent => name.temp \in DOMAIN base /\ name.temp # f
    BY <1>1, <1>2 DEF TempInv, FileType
  <2>2. name.temp # Absent => base'[name.temp] = base[name.temp]
    BY <1>8, <2>1
  <2>3. QED
    BY <1>1, <1>2, <2>2 DEF RestoreInv, Restoring
<1>13. WholeInv'
  <2>1. Unlinked' <=> Unlinked
    BY <1>1 DEF Unlinked, At
  <2>2. SUFFICES ASSUME history = {}, ~Unlinked PROVE WholeInv'
    BY <1>1, <1>2, <2>1 DEF WholeInv
  <2>3. base'[name.main] # Torn /\ base'[name.main] \cup (IF name.wal = Absent THEN {} ELSE frames[name.wal].txns) = truth
    <3>1. CASE f = name.main
      <4>1. \A q \in Users(f, Procs) : conn[q].wal = w
        BY <1>1, <1>2, <2>2, <3>1 DEF Users, WholeInv
      <4>2. b = base[f] \cup frames[w].txns /\ w = name.wal /\ b # Torn
        BY <1>1, <1>2, <1>4, <1>6, <2>2, <3>1, <4>1, StoredFacts DEF WholeInv
      <4>3. truth = base[f] \cup frames[w].txns
        BY <1>2, <1>3, <2>2, <3>1, <4>2 DEF WholeInv
      <4> HIDE DEF f, w
      <4>4. QED
        BY <1>3, <1>8, <3>1, <4>2, <4>3
    <3>2. CASE f # name.main
      BY <1>2, <1>8, <2>2, <3>2 DEF WholeInv, FileType
    <3>3. QED
      BY <3>1, <3>2
  <2>4. QED
    BY <1>1, <1>2, <2>1, <2>2, <2>3 DEF WholeInv
<1>14. QED
  BY <1>9, <1>10, <1>11, <1>12, <1>13 DEF BackupIInv


----------------------------------------------------------------------------
(* The steps of a restore.                                                 *)

\* It ends without having replaced the library.
LEMMA GiveUpKeeps ==
  ASSUME BackupIInv, NEW p \in Procs, GiveUp(p),
         UNCHANGED <<base, frames, conn, archive, truth>>,
         history' \subseteq {"cut", "overtaken", "shared"}, history \subseteq history',
         history' = {} => \A q \in Procs : q # p => proc[q].pc \notin Restoring,
         proc[p].pc = "unlinked" => history' # {},
         count' \in [commits : 0..MaxCommits, tasks : 0..MaxTasks, faults : 0..MaxFaults]
  PROVE  BackupIInv'
<1>1. FileType /\ ProcType /\ TempInv /\ RestoreInv /\ WholeInv
  BY DEF BackupIInv
<1>2. name' = [name EXCEPT !.temp = Absent] /\ End(p)
  BY DEF GiveUp
<1>3. name'.main = name.main /\ name'.temp = Absent /\ name'.wal = name.wal
  BY <1>1, <1>2 DEF FileType
<1>4. PICK s \in States' : /\ Goto(p, s) /\ s.pc \in {"idle", "done"}
                           /\ (conn[p] = Absent => s.pc = "idle")
  BY <1>1, <1>2, EndFacts
<1>5. s.pc \notin Restoring \cup {"validated", "checked"}
  BY <1>4 DEF Restoring
<1>6. /\ proc'[p] = s
      /\ \A q \in Procs : q # p => proc'[q] = proc[q]
  BY <1>1, <1>4, GotoFacts
<1>7. FileType'
  <2>1. name' \in [main : DOMAIN base, temp : DOMAIN base \cup {Absent},
                   wal : DOMAIN frames \cup {Absent}]
    BY <1>1, <1>2 DEF FileType
  <2>2. QED
    BY <1>1, <2>1 DEF FileType, Databases, Stored
<1>8. ProcType'
  BY <1>1, <1>4, <1>5, ProcStep DEF ProcType
<1>9. TempInv'
  BY <1>3 DEF TempInv
<1>10. RestoreInv'
  <2>1. SUFFICES ASSUME history' = {} PROVE RestoreInv'
    BY DEF RestoreInv
  <2>2. \A q \in Procs : q # p => proc[q].pc \notin Restoring
    BY <2>1
  <2>3. \A q \in Procs : proc'[q].pc \notin Restoring
    BY <1>5, <1>6, <2>2
  <2>4. QED
    BY <2>3 DEF RestoreInv, Restoring
<1>11. WholeInv'
  <2>1. SUFFICES ASSUME history' = {} PROVE WholeInv'
    BY DEF WholeInv
  <2>2. s.pc # "unlinked" /\ proc[p].pc # "unlinked" /\ history = {}
    BY <1>4, <2>1
  <2>3. Unlinked' <=> Unlinked
    BY <1>1, <1>4, <2>2, UnlinkedStays
  <2>4. QED
    BY <1>1, <1>3, <2>2, <2>3 DEF WholeInv
<1>12. QED
  BY <1>7, <1>8, <1>9, <1>10, <1>11 DEF BackupIInv

LEMMA OpenTempKeeps ==
  ASSUME BackupIInv, NEW p \in Procs, OpenTemp(p)
  PROVE  BackupIInv'
<1>1. /\ proc[p].pc = "checked" /\ UNCHANGED <<frames, conn, archive, count, truth>>
      /\ FileType /\ ProcType /\ TempInv /\ RestoreInv /\ WholeInv
      /\ proc[p].pc # "unlinked"
  BY DEF OpenTemp, At, BackupIInv
<1> DEFINE f == IF name.temp = Absent THEN Fresh(base) ELSE name.temp
           s == [pc |-> "writing temp", file |-> f]
<1>2. PICK written \in {{}, Torn} : base' = With(base, f, written)
  BY DEF OpenTemp
<1>3. /\ name' = [name EXCEPT !.temp = f] /\ Goto(p, s)
      /\ history' = history \cup Shared(p)
  BY DEF OpenTemp
<1>4. /\ f \in Nat /\ f # Absent /\ f # name.main
      /\ \A q \in Procs : conn[q] # Absent => conn[q].db # f
  BY <1>1, FreshFacts, StoredFacts DEF FileType, TempInv, ProcType
<1>5. s.pc = "writing temp" /\ s.file = f /\ s \in [pc : {"writing temp"}, file : {f}]
  OBVIOUS
<1> HIDE DEF f, s
<1>6. /\ DOMAIN base' = DOMAIN base \cup {f}
      /\ base' = [g \in DOMAIN base \cup {f} |-> base'[g]]
      /\ base'[f] = written /\ \A g \in DOMAIN base : g # f => base'[g] = base[g]
  BY <1>2 DEF With
<1>7. base' \in [DOMAIN base \cup {f} -> Databases]
  <2>1. written \in Databases
    BY StoredFacts
  <2>2. \A g \in DOMAIN base \cup {f} : base'[g] \in Databases
    BY <1>1, <1>6, <2>1 DEF FileType
  <2>3. QED
    BY <1>6, <2>2
<1>8. name'.main = name.main /\ name'.temp = f /\ name'.wal = name.wal
  BY <1>1, <1>3 DEF FileType
<1>9. /\ proc'[p] = s
      /\ \A q \in Procs : q # p => proc'[q] = proc[q]
  BY <1>1, <1>3, GotoFacts
<1>10. FileType'
  <2>1. IsFiniteSet(DOMAIN base') /\ DOMAIN base' \subseteq Nat
    BY <1>1, <1>4, <1>6, FS_AddElement DEF FileType
  <2>2. name' \in [main : DOMAIN base', temp : DOMAIN base' \cup {Absent},
                   wal : DOMAIN frames \cup {Absent}]
    BY <1>1, <1>3, <1>6 DEF FileType
  <2>3. frames \in [DOMAIN frames -> [of : DOMAIN base', txns : Stored]]
    <3>1. \A w \in DOMAIN frames : frames[w] \in [of : DOMAIN base, txns : Stored]
      BY <1>1 DEF FileType
    <3>2. \A w \in DOMAIN frames : frames[w] \in [of : DOMAIN base', txns : Stored]
      BY <1>6, <3>1
    <3>3. QED
      BY <1>1, <3>2 DEF FileType
  <2>4. QED
    BY <1>1, <1>6, <1>7, <2>1, <2>2, <2>3 DEF FileType, Databases, Stored
<1>11. ProcType'
  <2>1. s \in States'
    BY <1>5, <1>6 DEF States
  <2>2. history' \subseteq {"cut", "overtaken", "shared"} /\ archive # Absent
    BY <1>1, <1>3 DEF ProcType, Shared
  <2>3. s.pc \notin {"writing", "copying", "copied", "moving", "done"}
    BY <1>5
  <2>4. QED
    BY <1>1, <1>3, <1>6, <2>1, <2>2, <2>3, ProcStep DEF ProcType
<1>12. TempInv'
  BY <1>1, <1>4, <1>8 DEF TempInv
<1>13. ASSUME history' = {}
       PROVE  history = {} /\ \A q \in Procs : proc[q].pc \notin Restoring
  BY <1>1, <1>3, <1>13 DEF Shared, Restoring
<1>14. RestoreInv'
  BY <1>4, <1>5, <1>8, <1>9, <1>13 DEF RestoreInv, Restoring
<1>15. WholeInv'
  <2>1. SUFFICES ASSUME history' = {} PROVE WholeInv'
    BY DEF WholeInv
  <2>2. ~Unlinked /\ ~Unlinked'
    BY <1>5, <1>9, <1>13, <2>1 DEF Unlinked, At, Restoring
  <2>3. base'[name'.main] = base[name.main]
    BY <1>1, <1>4, <1>6, <1>8 DEF FileType
  <2>4. QED
    BY <1>1, <1>8, <1>13, <2>1, <2>2, <2>3 DEF WholeInv
<1>16. QED
  BY <1>10, <1>11, <1>12, <1>14, <1>15 DEF BackupIInv

LEMMA WriteTempKeeps ==
  ASSUME BackupIInv, NEW p \in Procs, WriteTemp(p)
  PROVE  BackupIInv'
<1>1. /\ proc[p].pc = "writing temp" /\ UNCHANGED <<frames, conn, archive, count, truth, history>>
      /\ FileType /\ ProcType /\ TempInv /\ RestoreInv /\ WholeInv
      /\ proc[p].pc # "unlinked" /\ proc[p].pc \in Restoring /\ archive # Torn
  BY DEF WriteTemp, At, BackupIInv, Restoring
<1> DEFINE f == proc[p].file
           s == [pc |-> "written", db |-> archive]
<1>2. base' = [base EXCEPT ![f] = archive] /\ Goto(p, s) /\ UNCHANGED name
  BY DEF WriteTemp
<1>3. f \in DOMAIN base /\ archive \in Stored /\ archive \in Databases /\ f # Absent
  BY <1>1, StateFacts, StoredFacts DEF ProcType, Restoring, FileType
<1>4. s.pc = "written" /\ s.db = archive /\ s \in [pc : {"written"}, db : {archive}]
  OBVIOUS
<1> HIDE DEF f, s
<1>5. /\ DOMAIN base' = DOMAIN base /\ base' \in [DOMAIN base -> Databases]
      /\ base'[f] = archive /\ \A g \in DOMAIN base : g # f => base'[g] = base[g]
  BY <1>1, <1>2, <1>3 DEF FileType
<1>6. /\ proc'[p] = s
      /\ \A q \in Procs : q # p => proc'[q] = proc[q]
  BY <1>1, <1>2, GotoFacts
<1>7. FileType'
  BY <1>1, <1>2, <1>5 DEF FileType, Databases, Stored
<1>8. ProcType'
  <2>1. s \in States'
    BY <1>3, <1>4 DEF States, Stored
  <2>2. /\ s.pc \notin {"writing", "copying", "copied", "moving", "done"}
        /\ archive # Absent /\ history' \subseteq {"cut", "overtaken", "shared"}
    BY <1>1, <1>3, <1>4, StoredFacts DEF ProcType
  <2>3. QED
    BY <1>1, <1>2, <1>5, <2>1, <2>2, ProcStep DEF ProcType
<1>9. TempInv'
  BY <1>1, <1>2 DEF TempInv
<1>10. ASSUME history = {}
      PROVE  /\ \A q \in Procs : q # p => proc[q].pc \notin Restoring
             /\ f = name.temp /\ f # name.main
  BY <1>1, <1>3, <1>10 DEF RestoreInv, TempInv, f
<1>11. RestoreInv'
  <2>1. SUFFICES ASSUME history = {} PROVE RestoreInv'
    BY <1>1 DEF RestoreInv
  <2>2. \A q \in Procs : q # p => proc'[q].pc \notin Restoring
    BY <1>6, <1>10, <2>1
  <2>3. name'.temp = f /\ base'[name'.temp] = proc'[p].db /\ proc'[p].pc = "written"
    BY <1>2, <1>4, <1>5, <1>6, <1>10, <2>1
  <2>4. QED
    BY <1>3, <2>2, <2>3 DEF RestoreInv, Restoring
<1>12. WholeInv'
  <2>1. SUFFICES ASSUME history = {} PROVE WholeInv'
    BY <1>1 DEF WholeInv
  <2>2. Unlinked' <=> Unlinked
    BY <1>1, <1>2, <1>4, UnlinkedStays
  <2>3. base'[name'.main] = base[name.main]
    BY <1>1, <1>2, <1>5, <1>10, <2>1 DEF FileType
  <2>4. QED
    BY <1>1, <1>2, <2>1, <2>2, <2>3 DEF WholeInv
<1>13. QED
  BY <1>7, <1>8, <1>9, <1>11, <1>12 DEF BackupIInv

LEMMA ExtractFailsKeeps ==
  ASSUME BackupIInv, NEW p \in Procs, ExtractFails(p)
  PROVE  BackupIInv'
<1>1. /\ proc[p].pc # "unlinked" /\ GiveUp(p) /\ history' = history \cup Shared(p)
      /\ UNCHANGED <<base, frames, conn, archive, truth>>
  BY DEF ExtractFails
<1>2. history' = {} => \A q \in Procs : q # p => proc[q].pc \notin Restoring
  BY <1>1 DEF Shared
<1>3. history' \subseteq {"cut", "overtaken", "shared"} /\ history \subseteq history'
  BY <1>1 DEF Shared, BackupIInv, ProcType
<1>4. count' \in [commits : 0..MaxCommits, tasks : 0..MaxTasks, faults : 0..MaxFaults]
  BY Counted DEF ExtractFails, BackupIInv, ProcType
<1>5. QED
  BY <1>1, <1>2, <1>3, <1>4, GiveUpKeeps

LEMMA VerifyKeeps ==
  ASSUME BackupIInv, NEW p \in Procs, Verify(p)
  PROVE  BackupIInv'
<1> DEFINE f == IF name.temp = Absent THEN Fresh(base) ELSE name.temp
           s == [proc[p] EXCEPT !.pc = "verified"]
<1>1. /\ proc[p].pc = "written" /\ UNCHANGED <<frames, conn, archive, count, truth, history>>
      /\ FileType /\ ProcType /\ TempInv /\ RestoreInv /\ WholeInv
      /\ proc[p].pc # "unlinked" /\ proc[p].pc \in Restoring
  BY DEF Verify, At, BackupIInv, Restoring
<1>2. CASE name.temp # Absent /\ base[f] = Torn
  <2>1. GiveUp(p) /\ UNCHANGED base
    BY <1>2 DEF Verify
  <2>2. /\ count' \in [commits : 0..MaxCommits, tasks : 0..MaxTasks, faults : 0..MaxFaults]
        /\ history' \subseteq {"cut", "overtaken", "shared"}
        /\ history' = {} => \A q \in Procs : q # p => proc[q].pc \notin Restoring
    BY <1>1 DEF ProcType, RestoreInv
  <2>3. QED
    BY <1>1, <2>1, <2>2, GiveUpKeeps
<1>3. CASE ~(name.temp # Absent /\ base[f] = Torn)
  <2>1. /\ name' = [name EXCEPT !.temp = f] /\ Goto(p, s)
        /\ base' = IF name.temp = Absent THEN With(base, f, {}) ELSE base
    BY <1>3 DEF Verify
  <2>2. /\ f \in Nat /\ f # Absent /\ f # name.main
        /\ \A q \in Procs : conn[q] # Absent => conn[q].db # f
    BY <1>1, FreshFacts, StoredFacts DEF FileType, TempInv, ProcType
  <2>3. /\ proc[p] \in [pc : {"written", "verified", "unlinked"}, db : Stored]
        /\ s \in [pc : {"written", "verified", "unlinked"}, db : Stored]
        /\ s.pc = "verified" /\ s.db = proc[p].db
    BY <1>1, StateFacts DEF ProcType
  <2>4. name.temp # Absent => f = name.temp /\ f \in DOMAIN base
    BY <1>1 DEF FileType
  <2> HIDE DEF f, s
  <2>5. /\ DOMAIN base' = DOMAIN base \cup {f}
        /\ base' = [g \in DOMAIN base \cup {f} |-> base'[g]]
        /\ \A g \in DOMAIN base : g # f => base'[g] = base[g]
        /\ IF name.temp = Absent THEN base'[f] = {} ELSE base'[f] = base[f]
    <3>1. CASE name.temp = Absent
      BY <2>1, <3>1 DEF With
    <3>2. CASE name.temp # Absent
      <4>1. base' = base /\ DOMAIN base \cup {f} = DOMAIN base
        BY <2>1, <2>4, <3>2
      <4>2. QED
        BY <1>1, <3>2, <4>1 DEF FileType
    <3>3. QED
      BY <3>1, <3>2
  <2>6. base' \in [DOMAIN base \cup {f} -> Databases]
    <3>1. {} \in Databases
      BY StoredFacts
    <3>2. \A g \in DOMAIN base \cup {f} : base'[g] \in Databases
      BY <1>1, <2>4, <2>5, <3>1 DEF FileType
    <3>3. QED
      BY <2>5, <3>2
  <2>7. name'.main = name.main /\ name'.temp = f /\ name'.wal = name.wal
    BY <1>1, <2>1 DEF FileType
  <2>8. /\ proc'[p] = s
        /\ \A q \in Procs : q # p => proc'[q] = proc[q]
    BY <1>1, <2>1, GotoFacts
  <2>9. FileType'
    <3>1. IsFiniteSet(DOMAIN base') /\ DOMAIN base' \subseteq Nat
      BY <1>1, <2>2, <2>5, FS_AddElement DEF FileType
    <3>2. name' \in [main : DOMAIN base', temp : DOMAIN base' \cup {Absent},
                     wal : DOMAIN frames \cup {Absent}]
      BY <1>1, <2>1, <2>5 DEF FileType
    <3>3. frames \in [DOMAIN frames -> [of : DOMAIN base', txns : Stored]]
      <4>1. \A w \in DOMAIN frames : frames[w] \in [of : DOMAIN base, txns : Stored]
        BY <1>1 DEF FileType
      <4>2. \A w \in DOMAIN frames : frames[w] \in [of : DOMAIN base', txns : Stored]
        BY <2>5, <4>1
      <4>3. QED
        BY <1>1, <4>2 DEF FileType
    <3>4. QED
      BY <1>1, <2>5, <2>6, <3>1, <3>2, <3>3 DEF FileType, Databases, Stored
  <2>10. ProcType'
    <3>1. s \in States'
      BY <2>3 DEF States, Stored
    <3>2. /\ s.pc \notin {"writing", "copying", "copied", "moving", "done"}
          /\ archive # Absent /\ history' \subseteq {"cut", "overtaken", "shared"}
          /\ DOMAIN base \subseteq DOMAIN base' /\ DOMAIN frames' = DOMAIN frames
          /\ archive' \in Databases \cup {Absent} /\ archive' = archive
          /\ count' \in [commits : 0..MaxCommits, tasks : 0..MaxTasks, faults : 0..MaxFaults]
      BY <1>1, <2>3, <2>5 DEF ProcType
    <3>3. QED
      BY <1>1, <2>1, <3>1, <3>2, ProcStep
  <2>11. TempInv'
    BY <1>1, <2>2, <2>7 DEF TempInv
  <2>12. ASSUME history = {}
         PROVE  /\ \A q \in Procs : q # p => proc[q].pc \notin Restoring
                /\ name.temp # Absent /\ base[name.temp] = proc[p].db
    BY <1>1, <2>12 DEF RestoreInv
  <2>13. RestoreInv'
    <3>1. SUFFICES ASSUME history = {} PROVE RestoreInv'
      BY <1>1 DEF RestoreInv
    <3>2. \A q \in Procs : q # p => proc'[q].pc \notin Restoring
      BY <2>8, <2>12, <3>1
    <3>3. /\ name'.temp # Absent /\ base'[name'.temp] = proc'[p].db /\ proc'[p].pc = "verified"
      BY <2>2, <2>3, <2>4, <2>5, <2>7, <2>8, <2>12, <3>1
    <3>4. QED
      BY <3>2, <3>3 DEF RestoreInv, Restoring
  <2>14. WholeInv'
    <3>1. SUFFICES ASSUME history = {} PROVE WholeInv'
      BY <1>1 DEF WholeInv
    <3>2. Unlinked' <=> Unlinked
      BY <1>1, <2>1, <2>3, UnlinkedStays
    <3>3. base'[name'.main] = base[name.main]
      BY <1>1, <2>2, <2>5, <2>7 DEF FileType
    <3>4. QED
      BY <1>1, <2>7, <3>1, <3>2, <3>3 DEF WholeInv
  <2>15. QED
    BY <2>9, <2>10, <2>11, <2>13, <2>14 DEF BackupIInv
<1>4. QED
  BY <1>2, <1>3

LEMMA UnlinkWalKeeps ==
  ASSUME BackupIInv, NEW p \in Procs, UnlinkWal(p)
  PROVE  BackupIInv'
<1> DEFINE s == [proc[p] EXCEPT !.pc = "unlinked"]
<1>1. /\ proc[p].pc = "verified" /\ name' = [name EXCEPT !.wal = Absent] /\ Goto(p, s)
      /\ UNCHANGED <<base, frames, conn, archive, count, truth, history>>
      /\ FileType /\ ProcType /\ TempInv /\ RestoreInv /\ WholeInv
  BY DEF UnlinkWal, At, BackupIInv
<1>2. /\ s \in [pc : {"written", "verified", "unlinked"}, db : Stored]
      /\ s.pc = "unlinked" /\ s.db = proc[p].db
  <2>1. proc[p] \in [pc : {"written", "verified", "unlinked"}, db : Stored]
    BY <1>1, StateFacts DEF ProcType
  <2>2. QED
    BY <2>1
<1> HIDE DEF s
<1>3. name'.main = name.main /\ name'.temp = name.temp /\ name'.wal = Absent
  BY <1>1 DEF FileType
<1>4. /\ proc'[p] = s
      /\ \A q \in Procs : q # p => proc'[q] = proc[q]
  BY <1>1, GotoFacts
<1>5. FileType'
  BY <1>1 DEF FileType, Databases, Stored
<1>6. ProcType'
  <2>1. s \in States'
    BY <1>2 DEF States, Stored
  <2>2. /\ s.pc \notin {"writing", "copying", "copied", "moving", "done"}
        /\ archive # Absent /\ history' \subseteq {"cut", "overtaken", "shared"}
    BY <1>1, <1>2 DEF ProcType, Restoring
  <2>3. QED
    BY <1>1, <2>1, <2>2, ProcStep DEF ProcType
<1>7. TempInv'
  BY <1>1, <1>3 DEF TempInv
<1>8. RestoreInv'
  <2>1. SUFFICES ASSUME history = {} PROVE RestoreInv'
    BY <1>1 DEF RestoreInv
  <2>2. /\ \A q \in Procs : q # p => proc[q].pc \notin Restoring
        /\ name.temp # Absent /\ base[name.temp] = proc[p].db
    BY <1>1, <2>1 DEF RestoreInv, Restoring
  <2>3. \A q \in Procs : q # p => proc'[q].pc \notin Restoring
    BY <1>4, <2>2
  <2>4. name'.temp # Absent /\ base'[name'.temp] = proc'[p].db /\ proc'[p].pc = "unlinked"
    BY <1>1, <1>2, <1>3, <1>4, <2>2
  <2>5. QED
    BY <2>3, <2>4 DEF RestoreInv, Restoring
<1>9. WholeInv'
  <2>1. Unlinked'
    BY <1>2, <1>4 DEF Unlinked, At
  <2>2. QED
    BY <1>3, <2>1 DEF WholeInv
<1>10. QED
  BY <1>5, <1>6, <1>7, <1>8, <1>9 DEF BackupIInv

LEMMA ReplaceKeeps ==
  ASSUME BackupIInv, NEW p \in Procs, Replace(p)
  PROVE  BackupIInv'
<1>1. /\ proc[p].pc = "unlinked" /\ name.temp # Absent /\ End(p)
      /\ name' = [name EXCEPT !.main = name.temp, !.temp = Absent]
      /\ truth' = proc[p].db
      /\ UNCHANGED <<base, frames, conn, archive, count, history>>
      /\ FileType /\ ProcType /\ TempInv /\ RestoreInv /\ WholeInv
  BY DEF Replace, At, BackupIInv
<1>2. PICK s \in States' : /\ Goto(p, s) /\ s.pc \in {"idle", "done"}
                           /\ (conn[p] = Absent => s.pc = "idle")
  BY <1>1, EndFacts
<1>3. s.pc \notin Restoring \cup {"validated", "checked"}
  BY <1>2 DEF Restoring
<1>4. /\ proc'[p] = s
      /\ \A q \in Procs : q # p => proc'[q] = proc[q]
  BY <1>1, <1>2, GotoFacts
<1>5. name'.main = name.temp /\ name'.temp = Absent /\ name'.wal = name.wal
  BY <1>1 DEF FileType
<1>6. FileType'
  BY <1>1 DEF FileType, Databases, Stored
<1>7. ProcType'
  BY <1>1, <1>2, <1>3, ProcStep DEF ProcType
<1>8. TempInv'
  BY <1>5 DEF TempInv
<1>9. ASSUME history = {}
      PROVE  /\ \A q \in Procs : q # p => proc[q].pc \notin Restoring
             /\ base[name.temp] = proc[p].db /\ name.wal = Absent
  <2>1. Unlinked
    BY <1>1 DEF Unlinked, At
  <2>2. QED
    BY <1>1, <1>9, <2>1 DEF RestoreInv, Restoring, WholeInv
<1>10. ASSUME history = {}, NEW q \in Procs PROVE proc'[q].pc \notin Restoring
  BY <1>3, <1>4, <1>9, <1>10
<1>11. RestoreInv'
  BY <1>1, <1>10 DEF RestoreInv, Restoring
<1>12. WholeInv'
  <2>1. SUFFICES ASSUME history = {} PROVE WholeInv'
    BY <1>1 DEF WholeInv
  <2>2. ~Unlinked'
    BY <1>10, <2>1 DEF Unlinked, At, Restoring
  <2>3. proc[p].db \in Stored
    <3>1. proc[p] \in States
      BY <1>1 DEF ProcType
    <3>2. proc[p] \in [pc : {"written", "verified", "unlinked"}, db : Stored]
      BY <1>1, <3>1, StateFacts
    <3>3. QED
      BY <3>2
  <2>4. base'[name'.main] = truth' /\ base'[name'.main] # Torn /\ name'.wal = Absent
    BY <1>1, <1>5, <1>9, <2>1, <2>3, StoredFacts
  <2>5. \A q \in Procs : conn'[q] # Absent => conn'[q].db # name'.main /\ conn'[q].wal # name'.wal
    BY <1>1, <1>5, <2>4, StoredFacts DEF TempInv, ProcType, FileType
  <2>6. QED
    BY <2>2, <2>4, <2>5 DEF WholeInv
<1>13. QED
  BY <1>6, <1>7, <1>8, <1>11, <1>12 DEF BackupIInv

LEMMA ReplaceFailsKeeps ==
  ASSUME BackupIInv, NEW p \in Procs, ReplaceFails(p)
  PROVE  BackupIInv'
<1>1. /\ proc[p].pc = "unlinked" /\ GiveUp(p) /\ history' = history \cup {"cut"}
      /\ UNCHANGED <<base, frames, conn, archive, truth>>
  BY DEF ReplaceFails, At
<1>2. /\ history' \subseteq {"cut", "overtaken", "shared"} /\ history \subseteq history'
      /\ history' # {}
  BY <1>1 DEF BackupIInv, ProcType
<1>3. count' \in [commits : 0..MaxCommits, tasks : 0..MaxTasks, faults : 0..MaxFaults]
  BY Counted DEF ReplaceFails, BackupIInv, ProcType
<1>4. QED
  BY <1>1, <1>2, <1>3, GiveUpKeeps

----------------------------------------------------------------------------
LEMMA InitInv == BackupInit => BackupIInv
<1> SUFFICES ASSUME BackupInit PROVE BackupIInv
  OBVIOUS
<1>1. /\ DOMAIN base = {1} /\ base = [f \in {1} |-> base[f]] /\ base[1] = {0}
      /\ DOMAIN frames = {} /\ frames = [w \in {} |-> frames[w]]
      /\ name = [main |-> 1, wal |-> Absent, temp |-> Absent]
  BY DEF BackupInit, With
<1>2. FileType
  <2>1. IsFiniteSet({1}) /\ IsFiniteSet({})
    BY FS_Singleton, FS_EmptySet
  <2>2. base \in [{1} -> Databases]
    BY <1>1, StoredFacts
  <2>3. frames \in [{} -> [of : {1}, txns : Stored]]
    BY <1>1
  <2>4. name \in [main : {1}, temp : {1} \cup {Absent}, wal : {} \cup {Absent}]
    BY <1>1
  <2>5. {1} \subseteq Nat /\ {} \subseteq Nat
    OBVIOUS
  <2>6. QED
    BY <1>1, <2>1, <2>2, <2>3, <2>4, <2>5 DEF FileType
<1>3. ProcType
  <2>1. Idle \in States /\ Idle.pc = "idle"
    BY DEF States, Idle
  <2>2. count \in [commits : 0..MaxCommits, tasks : 0..MaxTasks, faults : 0..MaxFaults]
    BY StoredFacts DEF BackupInit
  <2>3. proc = [p \in Procs |-> Idle] /\ conn = [p \in Procs |-> Absent] /\ archive = Absent /\ history = {}
    BY DEF BackupInit
  <2>4. QED
    BY <2>1, <2>2, <2>3 DEF ProcType, Restoring
<1>4. \A p \in Procs : proc[p].pc = "idle" /\ conn[p] = Absent
  BY DEF BackupInit, Idle
<1>5. TempInv /\ RestoreInv
  BY <1>1, <1>4 DEF TempInv, RestoreInv, Restoring
<1>6. WholeInv
  <2>1. {0} # Torn
    BY StoredFacts
  <2>2. truth = {0} /\ ~Unlinked
    BY <1>4 DEF BackupInit, Unlinked, At
  <2>3. QED
    BY <1>1, <1>4, <2>1, <2>2 DEF WholeInv
<1>7. QED
  BY <1>2, <1>3, <1>5, <1>6 DEF BackupIInv

LEMMA NextInv == BackupIInv /\ [BackupNext]_backupVars => BackupIInv'
<1>1. ASSUME BackupIInv, BackupNext PROVE BackupIInv'
  <2>1. PICK p \in Procs :
          \/ Open(p) \/ BeginWrite(p) \/ Commit(p) \/ Checkpoint(p) \/ Close(p) \/ Kill(p)
          \/ Backup(p) \/ Restore(p)
    BY <1>1 DEF BackupNext
  <2>2. CASE Open(p) \/ BeginWrite(p) \/ Commit(p) \/ Checkpoint(p) \/ Close(p) \/ Kill(p)
    BY <1>1, <2>2, OpenKeeps, BeginWriteKeeps, CommitKeeps, CheckpointKeeps, CloseKeeps, KillKeeps
  <2>3. CASE Backup(p)
    BY <1>1, <2>3, LockChecksKeep, CopyKeeps, MoveKeeps, MoveStartsKeeps DEF Backup
  <2>4. CASE Restore(p)
    BY <1>1, <2>4, StartRestoreKeeps, LockChecksKeep, OpenTempKeeps, WriteTempKeeps,
       ExtractFailsKeeps, VerifyKeeps, UnlinkWalKeeps, ReplaceKeeps, ReplaceFailsKeeps DEF Restore
  <2>5. QED
    BY <2>1, <2>2, <2>3, <2>4
<1>2. ASSUME BackupIInv, UNCHANGED backupVars PROVE BackupIInv'
  BY <1>2 DEF BackupIInv, backupVars, FileType, ProcType, TempInv, RestoreInv, WholeInv, Unlinked, At,
     States, Databases, Stored, Restoring
<1>3. QED
  BY <1>1, <1>2

LEMMA Invariant == BackupSpec => []BackupIInv
<1> QED
  BY InitInv, NextInv, PTL DEF BackupSpec

----------------------------------------------------------------------------
LEMMA InvTypeOK == BackupIInv => BackupTypeOK
<1> SUFFICES ASSUME BackupIInv PROVE BackupTypeOK
  OBVIOUS
<1>1. FileType /\ ProcType
  BY DEF BackupIInv
<1>2. /\ name.main \in DOMAIN base /\ name.temp \in DOMAIN base \cup {Absent}
      /\ name.wal \in DOMAIN frames \cup {Absent}
      /\ \A f \in DOMAIN base : base[f] \in Databases
      /\ \A w \in DOMAIN frames : frames[w].of \in DOMAIN base
  BY <1>1 DEF FileType
<1>3. /\ \A p \in Procs : conn[p] # Absent => conn[p].db \in DOMAIN base
      /\ \A p \in Procs : conn[p] = Absent =>
           proc[p].pc \notin {"writing", "copying", "copied", "moving", "done"}
      /\ archive \in Databases \cup {Absent}
      /\ history \subseteq {"cut", "overtaken", "shared"}
  BY <1>1 DEF ProcType
<1>4. QED
  BY <1>2, <1>3 DEF BackupTypeOK

\* What the next process that opens library.db finds is what was committed to it,
\* or what the restored archive held and every transaction since: however many
\* processes use, back up and restore the library (db/backup.py, cli/db.py), and
\* wherever one is killed, is refused or fails, except when a restore stops between
\* unlinking the WAL and replacing the database, or is not alone.
THEOREM BackupLibraryIsWhole == BackupSpec => []LibraryIsWhole
<1>1. BackupIInv => LibraryIsWhole
  BY InvTypeOK, WholeLibrary DEF BackupIInv, LibraryIsWhole
<1>2. QED
  BY <1>1, Invariant, PTL

LEMMA CopyIsWhole ==
  ASSUME BackupIInv, NEW p \in Procs, Copy(p), proc'[p].pc = "copied"
  PROVE  proc'[p].copy = truth \/ conn[p].db # name.main \/ Unlinked \/ history # {}
<1>1. conn[p] # Absent
  BY DEF Copy, At, BackupIInv, ProcType
<1>2. CASE View(p) = Torn
  <2>1. PICK s \in States' : Goto(p, s) /\ s.pc \in {"idle", "done"}
    BY <1>2, EndFacts DEF Copy, BackupIInv
  <2>2. proc'[p].pc \in {"idle", "done"}
    BY <2>1, GotoFacts DEF BackupIInv
  <2>3. QED
    BY <2>2
<1>3. CASE View(p) # Torn
  <2>1. Goto(p, [pc |-> "copied", copy |-> View(p)])
    BY <1>3 DEF Copy
  <2>2. proc'[p] = [pc |-> "copied", copy |-> View(p)]
    BY <2>1, GotoFacts DEF BackupIInv
  <2>3. proc'[p].copy = View(p)
    BY <2>2
  <2>4. QED
    BY <1>1, <2>3, WholeLibrary DEF BackupIInv
<1>4. QED
  BY <1>2, <1>3

\* Only Copy takes a process from "copying" to "copied".
LEMMA OnlyCopy ==
  ASSUME BackupIInv, NEW p \in Procs, At(p, "copying"), proc'[p].pc = "copied", BackupNext
  PROVE  Copy(p)
<1>1. PICK q \in Procs :
        \/ Open(q) \/ BeginWrite(q) \/ Commit(q) \/ Checkpoint(q) \/ Close(q) \/ Kill(q)
        \/ Backup(q) \/ Restore(q)
  BY DEF BackupNext
<1>2. ASSUME q # p PROVE proc'[p] = proc[p]
  BY <1>1, <1>2 DEF BackupIInv, ProcType, Goto, Open, BeginWrite, Commit, Checkpoint, Close, Kill, Backup,
     Restore, StartBackup, LockCheck, Copy, Move, MoveStarts, MoveEnds, MoveFails, End,
     StartRestore, RestoreLockCheck, OpenTemp, WriteTemp, ExtractFails, GiveUp, Verify,
     UnlinkWal, Replace, ReplaceFails
<1>3. q = p
  BY <1>2 DEF At
<1>4. Kill(p) => proc'[p].pc = "idle"
  BY GotoFacts DEF Kill, BackupIInv, Idle
<1>5. QED
  BY <1>1, <1>3, <1>4 DEF At, Open, BeginWrite, Commit, Checkpoint, Close, Backup, Restore,
     StartBackup, Move, MoveStarts, MoveEnds, MoveFails, StartRestore, RestoreLockCheck, OpenTemp,
     WriteTemp, ExtractFails, Verify, UnlinkWal, Replace, ReplaceFails

LEMMA ArchiveIsCopy ==
  ASSUME BackupNext, archive' \notin {archive, Torn}
  PROVE  \E p \in Procs : proc[p].pc \in {"copied", "moving"} /\ archive' = proc[p].copy
<1>1. PICK q \in Procs :
        \/ Open(q) \/ BeginWrite(q) \/ Commit(q) \/ Checkpoint(q) \/ Close(q) \/ Kill(q)
        \/ Backup(q) \/ Restore(q)
  BY DEF BackupNext
<1>2. Move(q) \/ MoveEnds(q)
  BY <1>1 DEF Open, BeginWrite, Commit, Checkpoint, Close, Kill, Backup,
     Restore, StartBackup, Copy, MoveStarts, MoveFails,
     StartRestore, RestoreLockCheck, OpenTemp, WriteTemp, ExtractFails, Verify, UnlinkWal,
     Replace, ReplaceFails
<1>3. QED
  BY <1>2 DEF Move, MoveEnds, At

\* A backup holds all that was committed to the library when it was copied, what is
\* still in the WAL included, and nothing but such a copy replaces an archive
\* (create_backup() in db/backup.py).
THEOREM BackupsAreWhole == BackupSpec => BackupIsWhole
<1> DEFINE A == /\ \A p \in Procs : At(p, "copying") /\ proc'[p].pc = "copied" =>
                     \/ proc'[p].copy = truth
                     \/ conn[p].db # name.main \/ Unlinked \/ history # {}
                /\ archive' \notin {archive, Torn} =>
                     \E p \in Procs : proc[p].pc \in {"copied", "moving"} /\ archive' = proc[p].copy
<1>1. BackupIInv /\ [BackupNext]_backupVars => [A]_backupVars
  <2>1. ASSUME BackupIInv, BackupNext PROVE A
    BY <2>1, OnlyCopy, CopyIsWhole, ArchiveIsCopy
  <2>2. QED
    BY <2>1
<1>2. QED
  BY <1>1, Invariant, PTL DEF BackupSpec, BackupIsWhole

-----------------------------------------------------------------------------
(* The job table.                                                          *)

USE DEF Terminal, Statuses, Slots, Phases, PCs

(* The empty thread and a freshly started one are threads.                 *)
LEMMA ThreadFacts ==
  /\ NoThread \in Thread
  /\ NoThreads \in [Slots -> Thread]
  /\ \A j \in Jobs : [job |-> j, phase |-> "wait", missed |-> 0] \in Thread
BY TimingAssumption DEF NoThread, NoThreads, Thread

(* The empty table with no process running satisfies the invariant.        *)
LEMMA InitIInv == Init => IInv
BY JobsAssumption, NamesAssumption, TimingAssumption, ThreadFacts
   DEF Init, IInv, TypeOK, UnheldRowsAreClear, TrackedRows, ThreadJobs,
       OldOnlyIfOutlive, BusyIsBeating, IdleHasNoJob, Exclusive, NoThreads, NoThread

(* What a committed recover_stale_jobs() touches: no job a live worker      *)
(* executes, none that a process tracks.                                   *)
LEMMA StaleIsUnheld ==
  ASSUME Tolerant, IInv, NEW j \in Stale
  PROVE  /\ j \notin tracked
         /\ \A w \in Workers : pc[w] = "busy" => cur[w] # j
<1>1. j \notin tracked
  BY DEF IInv, TrackedRows, Stale
<1>2. ASSUME NEW w \in Workers, pc[w] = "busy", cur[w] = j
      PROVE  FALSE
  <2>1. thread[w]["cur"].missed \in 0 .. MaxMissed
    BY <1>2 DEF IInv, TypeOK, Thread
  <2>2. age[j] \in 0 .. MaxMissed + 1
    BY <1>2, <2>1, TimingAssumption DEF IInv, BusyIsBeating, Stale
  <2>3. QED
    BY <2>2, TimingAssumption DEF Tolerant, Stale
<1>3. QED
  BY <1>1, <1>2

(* recover_stale_jobs(), with nothing else changing but the pc of a worker *)
(* that is not in process_job().                                           *)
LEMMA RecoverKeepsIInv ==
  ASSUME Tolerant, IInv, RecoverStale,
         UNCHANGED <<tracked, cur, thread, failures, shutdown, counts>>,
         pc' \in [Workers -> PCs],
         \A w \in Workers : pc'[w] = "busy" <=> pc[w] = "busy"
  PROVE  IInv'
<1> USE DEF RecoverStale, counts
<1>1. TypeOK'
  BY DEF IInv, TypeOK
<1>2. UnheldRowsAreClear'
  BY DEF IInv, TypeOK, UnheldRowsAreClear
<1>3. TrackedRows' /\ ThreadJobs'
  BY StaleIsUnheld DEF IInv, TypeOK, TrackedRows, ThreadJobs
<1>4. OldOnlyIfOutlive' /\ IdleHasNoJob'
  BY DEF IInv, OldOnlyIfOutlive, IdleHasNoJob
<1>5. BusyIsBeating' /\ Exclusive'
  BY StaleIsUnheld DEF IInv, TypeOK, BusyIsBeating, Exclusive, IdleHasNoJob
<1>6. QED
  BY <1>1, <1>2, <1>3, <1>4, <1>5 DEF IInv

-----------------------------------------------------------------------------
(* One lemma per step of a worker process.                                 *)

(* `vpo jobs start` and its purge of settled rows keep the invariant.      *)
LEMMA StartWorkerKeepsIInv ==
  ASSUME IInv, NEW w \in Workers, StartWorker(w)
  PROVE  IInv'
<1> USE DEF StartWorker, counts, Purge
<1>0. \A j \in Jobs : \/ status'[j] = status[j]
                      \/ /\ status[j] \in Terminal
                         /\ status'[j] = "deleted"
  BY DEF IInv, TypeOK
<1>1. TypeOK'
  BY DEF IInv, TypeOK
<1>2. UnheldRowsAreClear' /\ TrackedRows' /\ ThreadJobs'
  BY <1>0 DEF IInv, TypeOK, UnheldRowsAreClear, TrackedRows, ThreadJobs
<1>3. OldOnlyIfOutlive' /\ IdleHasNoJob'
  BY DEF IInv, TypeOK, OldOnlyIfOutlive, IdleHasNoJob
<1>4. BusyIsBeating'
  <2>1. \A v \in Workers : pc'[v] = "busy" => pc[v] = "busy" /\ failures'[v] = failures[v]
    BY DEF IInv, TypeOK
  <2>2. \A j \in Jobs : status'[j] = "running" => status[j] = "running"
    BY <1>0
  <2>3. QED
    BY <2>1, <2>2 DEF IInv, BusyIsBeating, IdleHasNoJob
<1>5. Exclusive'
  BY <1>0 DEF IInv, TypeOK, Exclusive, IdleHasNoJob
<1>6. QED
  BY <1>1, <1>2, <1>3, <1>4, <1>5 DEF IInv

(* claim_next_job() keeps it: a queued row has no holder and no heartbeat. *)
LEMMA ClaimKeepsIInv ==
  ASSUME IInv, NEW w \in Workers, Claim(w)
  PROVE  IInv'
<1>1. PICK j \in Queued :
        /\ status' = [status EXCEPT ![j] = "running"]
        /\ owner' = [owner EXCEPT ![j] = w]
        /\ age' = [age EXCEPT ![j] = 0]
        /\ cur' = [cur EXCEPT ![w] = j]
        /\ thread' = [thread EXCEPT ![w]["cur"] =
                        [job |-> j, phase |-> "wait", missed |-> 0]]
  BY DEF Claim
<1>2. /\ pc[w] = "idle"
      /\ pc' = [pc EXCEPT ![w] = "busy"]
      /\ failures' = [failures EXCEPT ![w] = 0]
      /\ UNCHANGED <<tracked, shutdown, retries, kills>>
  BY DEF Claim, counts
<1>3. j \in Jobs /\ status[j] = "queued"
  BY DEF Queued
<1>4. j \notin tracked
  BY <1>3 DEF IInv, TrackedRows
<1>5. \A v \in Workers : cur[v] # j
  BY <1>3, NamesAssumption DEF IInv, IdleHasNoJob, Exclusive
<1>6. TypeOK'
  BY <1>1, <1>2, <1>3, ThreadFacts, TimingAssumption DEF IInv, TypeOK
<1>7. UnheldRowsAreClear' /\ TrackedRows'
  BY <1>1, <1>2, <1>3, <1>4 DEF IInv, TypeOK, UnheldRowsAreClear, TrackedRows
<1>8. ThreadJobs' /\ OldOnlyIfOutlive'
  BY <1>1, <1>2, <1>3, <1>4 DEF IInv, TypeOK, ThreadJobs, OldOnlyIfOutlive
<1>9. BusyIsBeating'
  <2> SUFFICES ASSUME NEW v \in Workers, pc'[v] = "busy"
               PROVE  /\ thread'[v]["cur"].phase # "off"
                      /\ thread'[v]["cur"].job = cur'[v]
                      /\ status'[cur'[v]] = "running" =>
                           age'[cur'[v]] \in 0 .. (thread'[v]["cur"].missed +
                             IF thread'[v]["cur"].phase = "beat" THEN 1 ELSE 0)
                      /\ failures'[v] <= thread'[v]["cur"].missed + thread'[v]["old"].missed
    BY DEF BusyIsBeating
  <2>1. CASE v = w
    BY <2>1, <1>1, <1>2, <1>3 DEF IInv, TypeOK, Thread
  <2>2. CASE v # w
    BY <2>2, <1>1, <1>2, <1>3, <1>5 DEF IInv, TypeOK, BusyIsBeating
  <2>3. QED
    BY <2>1, <2>2
<1>10. IdleHasNoJob' /\ Exclusive'
  BY <1>1, <1>2, <1>3, <1>4, <1>5 DEF IInv, TypeOK, IdleHasNoJob, Exclusive
<1>11. QED
  BY <1>6, <1>7, <1>8, <1>9, <1>10 DEF IInv

(* The end of a worker process, in order or not, leaves its row as it is.  *)
LEMMA LeaveOrDieKeepsIInv ==
  ASSUME IInv, NEW w \in Workers, Leave(w) \/ Die(w)
  PROVE  IInv'
<1>1. /\ pc' = [pc EXCEPT ![w] = "down"]
      /\ thread' = [thread EXCEPT ![w] = NoThreads]
      /\ cur' = [cur EXCEPT ![w] = None]
      /\ UNCHANGED <<status, owner, age, tracked, failures, shutdown, retries>>
      /\ kills' \in 0 .. MaxKills
  BY TimingAssumption DEF Leave, Die, rows, counts, IInv, TypeOK, IdleHasNoJob
<1>2. TypeOK'
  BY <1>1, ThreadFacts DEF IInv, TypeOK
<1>3. UnheldRowsAreClear' /\ TrackedRows'
  BY <1>1 DEF IInv, UnheldRowsAreClear, TrackedRows
<1>4. ThreadJobs' /\ OldOnlyIfOutlive'
  BY <1>1 DEF IInv, TypeOK, ThreadJobs, OldOnlyIfOutlive, NoThreads, NoThread
<1>5. BusyIsBeating' /\ IdleHasNoJob' /\ Exclusive'
  BY <1>1, NamesAssumption DEF IInv, TypeOK, BusyIsBeating, IdleHasNoJob, Exclusive
<1>6. QED
  BY <1>2, <1>3, <1>4, <1>5 DEF IInv

(* release_job() settles the row of the one worker that has it.            *)
LEMMA ReleaseKeepsIInv ==
  ASSUME IInv, NEW w \in Workers, NEW outcome \in {"completed", "failed"},
         Release(w, outcome)
  PROVE  IInv'
<1> DEFINE j == cur[w]
<1>1. /\ pc[w] = "busy"
      /\ pc' = [pc EXCEPT ![w] = "joining"]
      /\ cur' = [cur EXCEPT ![w] = None]
      /\ thread' = [thread EXCEPT ![w] =
            [s \in Slots |-> IF @[s].phase = "wait" THEN NoThread ELSE @[s]]]
      /\ UNCHANGED <<tracked, failures, shutdown, retries, kills>>
  BY DEF Release, counts
<1>2. /\ j \in Jobs /\ status[j] \in {"running", "deleted"} /\ j \notin tracked
      /\ \A v \in Workers : v # w => cur[v] # j
  BY <1>1 DEF IInv, IdleHasNoJob, Exclusive
<1>3. /\ \/ status[j] = "deleted" /\ status'[j] = "deleted"
         \/ status'[j] = outcome
      /\ owner'[j] = None /\ age'[j] = None
      /\ \A k \in Jobs \ {j} :
           status'[k] = status[k] /\ owner'[k] = owner[k] /\ age'[k] = age[k]
      /\ status' \in [Jobs -> Statuses] /\ owner' \in [Jobs -> Workers \union {None}]
      /\ age' \in [Jobs -> (0 .. StaleTimeout + 1) \union {None}]
  <2>1. CASE status[j] = "deleted"
    <3>1. UNCHANGED <<status, owner, age>>
      BY <2>1 DEF Release, rows
    <3>2. owner[j] = None /\ age[j] = None
      BY <1>2, <2>1 DEF IInv, UnheldRowsAreClear
    <3>3. QED
      BY <1>2, <2>1, <3>1, <3>2 DEF IInv, TypeOK
  <2>2. CASE status[j] # "deleted"
    <3>1. /\ status' = [status EXCEPT ![j] = outcome]
          /\ owner' = [owner EXCEPT ![j] = None]
          /\ age' = [age EXCEPT ![j] = None]
      BY <2>2 DEF Release
    <3>2. QED
      BY <1>2, <3>1 DEF IInv, TypeOK
  <2>3. QED
    BY <2>1, <2>2
<1>4. status'[j] \in Terminal \union {"deleted"}
  BY <1>3
<1>5. TypeOK'
  BY <1>1, <1>3, ThreadFacts DEF IInv, TypeOK
<1>6. UnheldRowsAreClear' /\ TrackedRows'
  BY <1>1, <1>2, <1>3, <1>4 DEF IInv, TypeOK, UnheldRowsAreClear, TrackedRows
<1>7. ThreadJobs' /\ OldOnlyIfOutlive'
  BY <1>1, <1>2, <1>3, <1>4 DEF IInv, TypeOK, ThreadJobs, OldOnlyIfOutlive, NoThread
<1>8. BusyIsBeating'
  <2>1. \A v \in Workers : pc'[v] = "busy" =>
          /\ v # w /\ pc[v] = "busy" /\ cur[v] \in Jobs \ {j}
          /\ cur'[v] = cur[v] /\ thread'[v] = thread[v]
    <3>1. ASSUME NEW v \in Workers, pc'[v] = "busy"
          PROVE  v # w /\ pc[v] = "busy"
      BY <1>1, <3>1 DEF IInv, TypeOK
    <3>2. \A v \in Workers : v # w => cur'[v] = cur[v] /\ thread'[v] = thread[v]
      BY <1>1 DEF IInv, TypeOK
    <3>3. QED
      BY <1>2, <3>1, <3>2 DEF IInv, IdleHasNoJob
  <2> HIDE DEF j
  <2>2. \A v \in Workers : pc'[v] = "busy" =>
          /\ status'[cur'[v]] = status[cur[v]] /\ age'[cur'[v]] = age[cur[v]]
          /\ failures'[v] = failures[v] /\ thread'[v] = thread[v]
          /\ cur'[v] = cur[v] /\ pc[v] = "busy"
    BY <1>1, <1>3, <2>1
  <2>3. QED
    BY <2>2 DEF IInv, BusyIsBeating
<1>9. IdleHasNoJob' /\ Exclusive'
  BY <1>1, <1>2, <1>3, NamesAssumption DEF IInv, TypeOK, IdleHasNoJob, Exclusive
<1>10. QED
  BY <1>5, <1>6, <1>7, <1>8, <1>9 DEF IInv

(* _stop_heartbeat() keeps it, with the thread gone or still in a beat.    *)
LEMMA EndJoinKeepsIInv ==
  ASSUME IInv, NEW w \in Workers, EndJoin(w)
  PROVE  IInv'
<1>1. /\ pc[w] = "joining"
      /\ pc' = [pc EXCEPT ![w] = "idle"]
      /\ UNCHANGED <<status, owner, age, tracked, cur, failures, shutdown, retries, kills>>
      /\ \/ UNCHANGED thread
         \/ /\ Outlive
            /\ thread' = [thread EXCEPT ![w]["old"] = thread[w]["cur"],
                                        ![w]["cur"] = NoThread]
  BY DEF EndJoin, rows, counts
<1>2. TypeOK'
  <2>1. thread \in [Workers -> [Slots -> Thread]] /\ NoThread \in Thread
    BY ThreadFacts DEF IInv, TypeOK
  <2>2. thread' \in [Workers -> [Slots -> Thread]]
    <3>1. CASE UNCHANGED thread
      BY <2>1, <3>1
    <3>2. CASE thread' = [thread EXCEPT ![w]["old"] = thread[w]["cur"],
                                        ![w]["cur"] = NoThread]
      BY <2>1, <3>2 DEF Slots
    <3>3. QED
      BY <1>1, <3>1, <3>2
  <2>3. pc' \in [Workers -> PCs]
    BY <1>1 DEF IInv, TypeOK, PCs
  <2>4. QED
    BY <1>1, <2>2, <2>3 DEF IInv, TypeOK
<1>3. UnheldRowsAreClear' /\ TrackedRows'
  BY <1>1 DEF IInv, UnheldRowsAreClear, TrackedRows
<1>4. ThreadJobs' /\ OldOnlyIfOutlive'
  BY <1>1 DEF IInv, TypeOK, ThreadJobs, OldOnlyIfOutlive, NoThread
<1>5. BusyIsBeating' /\ IdleHasNoJob' /\ Exclusive'
  BY <1>1 DEF IInv, TypeOK, BusyIsBeating, IdleHasNoJob, Exclusive
<1>6. QED
  BY <1>2, <1>3, <1>4, <1>5 DEF IInv

(* A signal sets a flag that only the next claim reads.                    *)
LEMMA SignalKeepsIInv ==
  ASSUME IInv, NEW w \in Workers, Signal(w)
  PROVE  IInv'
<1>1. /\ shutdown' = [shutdown EXCEPT ![w] = TRUE]
      /\ kills' \in 0 .. MaxKills
      /\ UNCHANGED <<status, owner, age, tracked, pc, cur, thread, failures, retries>>
  BY TimingAssumption DEF Signal, rows, IInv, TypeOK
<1>2. TypeOK'
  BY <1>1 DEF IInv, TypeOK
<1>3. UnheldRowsAreClear' /\ TrackedRows' /\ ThreadJobs' /\ OldOnlyIfOutlive'
  BY <1>1 DEF IInv, UnheldRowsAreClear, TrackedRows, ThreadJobs, OldOnlyIfOutlive
<1>4. BusyIsBeating' /\ IdleHasNoJob' /\ Exclusive'
  BY <1>1 DEF IInv, BusyIsBeating, IdleHasNoJob, Exclusive
<1>5. QED
  BY <1>2, <1>3, <1>4 DEF IInv

-----------------------------------------------------------------------------
(* One lemma per step of a heartbeat thread, and the one for time.         *)

(* What becomes of a thread at the end of its beat.                        *)
LEMMA AfterBeatFacts ==
  ASSUME IInv, NEW w \in Workers, NEW s \in Slots, NEW missed \in 0 .. MaxMissed
  PROVE  /\ AfterBeat(w, s, missed) \in Thread
         /\ AfterBeat(w, s, missed).phase # "off" =>
              /\ pc[w] = "busy"
              /\ AfterBeat(w, s, missed).phase = "wait"
              /\ AfterBeat(w, s, missed).job = thread[w][s].job
              /\ AfterBeat(w, s, missed).missed = missed
         /\ pc[w] = "busy" => AfterBeat(w, s, missed).phase # "off"
         /\ AfterBeat(w, s, missed).phase = "off" => AfterBeat(w, s, missed) = NoThread
<1> DEFINE t == [thread[w][s] EXCEPT !.phase = "wait", !.missed = missed]
<1>1. thread[w][s] \in Thread
  BY DEF IInv, TypeOK
<1>2. t \in Thread /\ t.phase = "wait" /\ t.job = thread[w][s].job /\ t.missed = missed
  BY <1>1 DEF Thread
<1>3. NoThread \in Thread /\ NoThread.phase = "off"
  BY ThreadFacts DEF NoThread
<1>4. AfterBeat(w, s, missed) = IF pc[w] = "busy" THEN t ELSE NoThread
  BY DEF AfterBeat, StopSet
<1> HIDE DEF t
<1>5. QED
  BY <1>2, <1>3, <1>4

(* update_heartbeat() keeps it, even for a job that went to someone else.  *)
LEMMA BeatOkKeepsIInv ==
  ASSUME IInv, NEW w \in Workers, NEW s \in Slots, BeatOk(w, s)
  PROVE  IInv'
<1> DEFINE j == thread[w][s].job
           t == AfterBeat(w, s, 0)
<1>1. /\ thread[w][s].phase = "beat"
      /\ failures' = [failures EXCEPT ![w] = 0]
      /\ thread' = [thread EXCEPT ![w][s] = t]
      /\ UNCHANGED <<status, tracked, pc, cur, shutdown, retries, kills>>
  BY DEF BeatOk, counts
<1>2. /\ j \in Jobs /\ j \notin tracked
      /\ status[j] # "absent"
  BY <1>1 DEF IInv, ThreadJobs
<1>3. \/ /\ status[j] = "running"
         /\ age' = [age EXCEPT ![j] = 0]
         /\ owner' = [owner EXCEPT ![j] = w]
      \/ status[j] # "running" /\ UNCHANGED <<age, owner>>
  BY DEF BeatOk
<1>4. /\ t \in Thread
      /\ t.phase = "off" => t = NoThread
      /\ pc[w] = "busy" => t.phase = "wait" /\ t.missed = 0
      /\ t.phase # "off" => t.job = j
  BY AfterBeatFacts, TimingAssumption
<1> HIDE DEF j, t
<1>5. TypeOK'
  <2>1. thread' \in [Workers -> [Slots -> Thread]]
    BY <1>1, <1>4 DEF IInv, TypeOK
  <2>2. failures' \in [Workers -> Nat] /\ status' \in [Jobs -> Statuses]
    BY <1>1 DEF IInv, TypeOK
  <2>3. /\ age' \in [Jobs -> (0 .. StaleTimeout + 1) \union {None}]
        /\ owner' \in [Jobs -> Workers \union {None}]
    <3>1. CASE UNCHANGED <<age, owner>>
      BY <3>1 DEF IInv, TypeOK
    <3>2. CASE age' = [age EXCEPT ![j] = 0] /\ owner' = [owner EXCEPT ![j] = w]
      <4>1. 0 \in 0 .. StaleTimeout + 1
        BY TimingAssumption
      <4>2. QED
        BY <3>2, <4>1, Zenon DEF IInv, TypeOK
    <3>3. QED
      BY <1>3, <3>1, <3>2
  <2>4. QED
    BY <1>1, <2>1, <2>2, <2>3 DEF IInv, TypeOK
<1>6. UnheldRowsAreClear' /\ TrackedRows'
  BY <1>1, <1>2, <1>3 DEF IInv, TypeOK, UnheldRowsAreClear, TrackedRows
<1>7. ThreadJobs' /\ OldOnlyIfOutlive'
  BY <1>1, <1>2, <1>4 DEF IInv, TypeOK, ThreadJobs, OldOnlyIfOutlive
<1>8. BusyIsBeating'
  <2> SUFFICES ASSUME NEW v \in Workers, pc[v] = "busy"
               PROVE  /\ thread'[v]["cur"].phase # "off"
                      /\ thread'[v]["cur"].job = cur[v]
                      /\ status[cur[v]] = "running" =>
                           age'[cur[v]] \in 0 .. (thread'[v]["cur"].missed +
                             IF thread'[v]["cur"].phase = "beat" THEN 1 ELSE 0)
                      /\ failures'[v] <= thread'[v]["cur"].missed + thread'[v]["old"].missed
    BY <1>1 DEF BusyIsBeating
  <2>1. /\ cur[v] \in Jobs
        /\ thread[v]["cur"].phase # "off"
        /\ thread[v]["cur"].job = cur[v]
        /\ status[cur[v]] = "running" =>
             age[cur[v]] \in 0 .. (thread[v]["cur"].missed +
               IF thread[v]["cur"].phase = "beat" THEN 1 ELSE 0)
        /\ failures[v] <= thread[v]["cur"].missed + thread[v]["old"].missed
    BY DEF IInv, BusyIsBeating, IdleHasNoJob, Exclusive
  <2>2. thread' \in [Workers -> [Slots -> Thread]]
    BY <1>5 DEF TypeOK
  <2>3. age'[cur[v]] = age[cur[v]] \/ age'[cur[v]] = 0
    BY <1>2, <1>3, <2>1 DEF IInv, TypeOK
  <2>4. CASE v = w /\ s = "cur"
    <3>1. thread'[v]["cur"] = t /\ t.phase = "wait" /\ t.missed = 0 /\ t.job = j
      BY <1>1, <1>4, <2>4 DEF IInv, TypeOK
    <3>2. cur[v] = j /\ (status[cur[v]] = "running" => age'[cur[v]] = 0)
      BY <1>2, <1>3, <2>1, <2>4 DEF IInv, TypeOK, j
    <3>3. failures'[v] = 0
      BY <1>1, <2>4 DEF IInv, TypeOK
    <3>4. thread'[v]["old"].missed \in Nat
      BY <2>2, TimingAssumption DEF Thread
    <3>5. QED
      BY <3>1, <3>2, <3>3, <3>4
  <2>5. CASE v = w /\ s = "old"
    <3>1. thread'[v]["cur"] = thread[v]["cur"] /\ failures'[v] = 0
      BY <1>1, <2>5 DEF IInv, TypeOK
    <3>2. /\ thread'[v]["old"].missed \in Nat
          /\ thread'[v]["cur"].missed \in Nat
      BY <2>2, TimingAssumption DEF Thread
    <3>3. QED
      BY <2>1, <2>3, <3>1, <3>2
  <2>6. CASE v # w
    <3>1. thread'[v] = thread[v] /\ failures'[v] = failures[v]
      BY <1>1, <2>6 DEF IInv, TypeOK
    <3>2. thread[v]["cur"].missed \in Nat
      BY TimingAssumption DEF IInv, TypeOK, Thread
    <3>3. QED
      BY <2>1, <2>3, <3>1, <3>2
  <2>7. QED
    BY <2>4, <2>5, <2>6
<1>9. IdleHasNoJob' /\ Exclusive'
  BY <1>1 DEF IInv, IdleHasNoJob, Exclusive
<1>10. QED
  BY <1>5, <1>6, <1>7, <1>8, <1>9 DEF IInv

(* A thread of a worker in process_job() never reaches the failure that    *)
(* ends it, so its job goes on being beaten for.                           *)
LEMMA BusyThreadSurvives ==
  ASSUME Tolerant, IInv, NEW w \in Workers, NEW s \in Slots,
         thread[w][s].phase = "beat", thread[w][s].missed + 1 <= MaxMissed,
         pc[w] = "busy"
  PROVE  /\ failures[w] + 1 < MaxHeartbeatFailures
         /\ failures[w] <= thread[w]["cur"].missed + thread[w]["old"].missed
<1>1. /\ thread[w]["cur"].missed \in 0 .. MaxMissed
      /\ thread[w]["old"].missed \in 0 .. MaxMissed
      /\ failures[w] \in Nat
  BY DEF IInv, TypeOK, Thread
<1>2. failures[w] <= thread[w]["cur"].missed + thread[w]["old"].missed
  BY DEF IInv, BusyIsBeating
<1>3. ~Outlive => s = "cur" /\ thread[w]["old"].missed = 0
  BY DEF IInv, OldOnlyIfOutlive, ThreadJobs, NoThread
<1>4. s = "cur" \/ s = "old"
  OBVIOUS
<1>5. QED
  BY <1>1, <1>2, <1>3, <1>4, TimingAssumption DEF Tolerant

(* A missed beat keeps it: the row is as old as what the thread missed.    *)
LEMMA BeatFailsKeepsIInv ==
  ASSUME Tolerant, IInv, NEW w \in Workers, NEW s \in Slots, BeatFails(w, s)
  PROVE  IInv'
<1> DEFINE m == thread[w][s].missed + 1
           t == thread'[w][s]
<1>1. /\ thread[w][s].phase = "beat"
      /\ m <= MaxMissed
      /\ failures' = [failures EXCEPT ![w] = @ + 1]
      /\ UNCHANGED <<status, owner, age, tracked, pc, cur, retries, kills>>
  BY DEF BeatFails, rows, counts
<1>2. m \in 1 .. MaxMissed /\ m \in 0 .. MaxMissed
  BY <1>1, TimingAssumption DEF IInv, TypeOK, Thread
<1>3. \/ thread' = [thread EXCEPT ![w][s] = NoThread]
           /\ failures[w] + 1 >= MaxHeartbeatFailures
      \/ thread' = [thread EXCEPT ![w][s] = AfterBeat(w, s, m)]
  BY DEF BeatFails
<1>4. /\ thread' = [thread EXCEPT ![w][s] = t]
      /\ t \in Thread
      /\ t.phase = "off" => t = NoThread
      /\ t.phase # "off" => t.job = thread[w][s].job
  BY <1>2, <1>3, ThreadFacts, AfterBeatFacts DEF IInv, TypeOK, NoThread
<1>5. pc[w] = "busy" => t.phase = "wait" /\ t.missed = m
  BY <1>1, <1>2, <1>3, BusyThreadSurvives, AfterBeatFacts, TimingAssumption
     DEF IInv, TypeOK
<1>6. shutdown' \in [Workers -> BOOLEAN]
  BY DEF BeatFails, IInv, TypeOK
<1> HIDE DEF t
<1>7. TypeOK'
  <2>1. thread' \in [Workers -> [Slots -> Thread]]
    BY <1>4 DEF IInv, TypeOK
  <2>2. failures' \in [Workers -> Nat]
    BY <1>1 DEF IInv, TypeOK
  <2>3. QED
    BY <1>1, <1>6, <2>1, <2>2 DEF IInv, TypeOK
<1>8. UnheldRowsAreClear' /\ TrackedRows' /\ IdleHasNoJob' /\ Exclusive'
  BY <1>1 DEF IInv, UnheldRowsAreClear, TrackedRows, IdleHasNoJob, Exclusive
<1>9. ThreadJobs' /\ OldOnlyIfOutlive'
  BY <1>1, <1>4 DEF IInv, TypeOK, ThreadJobs, OldOnlyIfOutlive
<1>10. BusyIsBeating'
  <2> SUFFICES ASSUME NEW v \in Workers, pc[v] = "busy"
               PROVE  /\ thread'[v]["cur"].phase # "off"
                      /\ thread'[v]["cur"].job = cur[v]
                      /\ status[cur[v]] = "running" =>
                           age[cur[v]] \in 0 .. (thread'[v]["cur"].missed +
                             IF thread'[v]["cur"].phase = "beat" THEN 1 ELSE 0)
                      /\ failures'[v] <= thread'[v]["cur"].missed + thread'[v]["old"].missed
    BY <1>1 DEF BusyIsBeating
  <2>1. /\ thread[v]["cur"].phase # "off"
        /\ thread[v]["cur"].job = cur[v]
        /\ status[cur[v]] = "running" =>
             age[cur[v]] \in 0 .. (thread[v]["cur"].missed +
               IF thread[v]["cur"].phase = "beat" THEN 1 ELSE 0)
        /\ failures[v] <= thread[v]["cur"].missed + thread[v]["old"].missed
    BY DEF IInv, BusyIsBeating
  <2>2. /\ thread[v]["cur"].missed \in Nat
        /\ thread[v]["old"].missed \in Nat
        /\ failures[v] \in Nat
    BY TimingAssumption DEF IInv, TypeOK, Thread
  <2>3. CASE v = w /\ s = "cur"
    <3>1. /\ thread'[v]["cur"] = t
          /\ thread'[v]["old"] = thread[v]["old"]
          /\ failures'[v] = failures[v] + 1
      BY <1>1, <1>4, <2>3 DEF IInv, TypeOK
    <3>2. t.phase = "wait" /\ t.missed = thread[v]["cur"].missed + 1 /\ t.job = cur[v]
      BY <1>4, <1>5, <2>1, <2>3
    <3>3. QED
      BY <1>1, <2>1, <2>2, <2>3, <3>1, <3>2
  <2>4. CASE v = w /\ s = "old"
    <3>1. /\ thread'[v]["cur"] = thread[v]["cur"]
          /\ thread'[v]["old"] = t
          /\ failures'[v] = failures[v] + 1
      BY <1>1, <1>4, <2>4 DEF IInv, TypeOK
    <3>2. t.missed = thread[v]["old"].missed + 1
      BY <1>5, <2>4
    <3>3. QED
      BY <2>1, <2>2, <3>1, <3>2
  <2>5. CASE v # w
    <3>1. thread'[v] = thread[v] /\ failures'[v] = failures[v]
      BY <1>1, <1>4, <2>5 DEF IInv, TypeOK
    <3>2. QED
      BY <2>1, <3>1
  <2>6. QED
    BY <2>3, <2>4, <2>5
<1>11. QED
  BY <1>7, <1>8, <1>9, <1>10 DEF IInv

(* An interval passes: ages grow by one, and every waiting thread beats.   *)
LEMMA TickKeepsIInv ==
  ASSUME Tolerant, IInv, Tick
  PROVE  IInv'
<1> DEFINE Woken(t) == IF t.phase = "wait" THEN [t EXCEPT !.phase = "beat"] ELSE t
           Older(a) == IF a = None \/ a > StaleTimeout THEN a ELSE a + 1
<1>1. /\ \A w \in Workers, s \in Slots : thread[w][s].phase # "beat"
      /\ thread' = [w \in Workers |-> [s \in Slots |-> Woken(thread[w][s])]]
      /\ age' = [j \in Jobs |-> Older(age[j])]
      /\ UNCHANGED <<status, owner, tracked, pc, cur, failures, shutdown, retries, kills>>
  BY DEF Tick, counts
<1>2. \A t \in Thread : /\ Woken(t) \in Thread
                        /\ Woken(t).job = t.job
                        /\ Woken(t).missed = t.missed
                        /\ Woken(t).phase = IF t.phase = "wait" THEN "beat" ELSE t.phase
                        /\ t.phase # "wait" => Woken(t) = t
  BY DEF Thread
<1>3. \A a \in (0 .. StaleTimeout + 1) \union {None} :
        /\ Older(a) \in (0 .. StaleTimeout + 1) \union {None}
        /\ a = None <=> Older(a) = None
        /\ a # None => Older(a) <= a + 1
  BY TimingAssumption, NamesAssumption
<1> HIDE DEF Woken, Older
<1>4. \A w \in Workers, s \in Slots :
        /\ thread[w][s] \in Thread
        /\ thread'[w][s] = Woken(thread[w][s])
  BY <1>1 DEF IInv, TypeOK
<1>5. \A j \in Jobs : age[j] \in (0 .. StaleTimeout + 1) \union {None}
                      /\ age'[j] = Older(age[j])
  BY <1>1 DEF IInv, TypeOK
<1>6. TypeOK'
  <2>1. thread' \in [Workers -> [Slots -> Thread]]
    BY <1>1, <1>2, <1>4
  <2>2. age' \in [Jobs -> (0 .. StaleTimeout + 1) \union {None}]
    BY <1>1, <1>3, <1>5
  <2>3. QED
    BY <1>1, <2>1, <2>2 DEF IInv, TypeOK
<1>7. UnheldRowsAreClear' /\ TrackedRows'
  BY <1>1, <1>3, <1>5 DEF IInv, TypeOK, UnheldRowsAreClear, TrackedRows
<1>8. ThreadJobs' /\ OldOnlyIfOutlive'
  BY <1>1, <1>2, <1>4 DEF IInv, ThreadJobs, OldOnlyIfOutlive
<1>9. BusyIsBeating'
  <2> SUFFICES ASSUME NEW w \in Workers, pc[w] = "busy"
               PROVE  /\ thread'[w]["cur"].phase # "off"
                      /\ thread'[w]["cur"].job = cur[w]
                      /\ status[cur[w]] = "running" =>
                           age'[cur[w]] \in 0 .. (thread'[w]["cur"].missed +
                             IF thread'[w]["cur"].phase = "beat" THEN 1 ELSE 0)
                      /\ failures[w] <= thread'[w]["cur"].missed + thread'[w]["old"].missed
    BY <1>1 DEF BusyIsBeating
  <2>1. /\ thread[w]["cur"].phase # "off"
        /\ thread[w]["cur"].job = cur[w]
        /\ status[cur[w]] = "running" =>
             age[cur[w]] \in 0 .. (thread[w]["cur"].missed +
               IF thread[w]["cur"].phase = "beat" THEN 1 ELSE 0)
        /\ failures[w] <= thread[w]["cur"].missed + thread[w]["old"].missed
        /\ cur[w] \in Jobs
    BY DEF IInv, BusyIsBeating, IdleHasNoJob
  <2>2. thread[w]["cur"].phase = "wait" /\ thread[w]["cur"].missed \in Nat
    BY <1>1, <1>4, <2>1, TimingAssumption DEF Thread
  <2>3. /\ thread'[w]["cur"].phase = "beat"
        /\ thread'[w]["cur"].job = cur[w]
        /\ thread'[w]["cur"].missed = thread[w]["cur"].missed
        /\ thread'[w]["old"].missed = thread[w]["old"].missed
    BY <1>2, <1>4, <2>1, <2>2
  <2>4. ASSUME status[cur[w]] = "running"
        PROVE  age[cur[w]] \in Nat /\ age[cur[w]] <= thread[w]["cur"].missed
    BY <2>1, <2>2, <2>4
  <2>5. ASSUME status[cur[w]] = "running"
        PROVE  age'[cur[w]] \in Nat /\ age'[cur[w]] <= thread[w]["cur"].missed + 1
    BY <1>3, <1>5, <2>1, <2>2, <2>4, <2>5, NamesAssumption, TimingAssumption
  <2>6. QED
    BY <2>1, <2>2, <2>3, <2>5
<1>10. IdleHasNoJob' /\ Exclusive'
  BY <1>1 DEF IInv, IdleHasNoJob, Exclusive
<1>11. QED
  BY <1>6, <1>7, <1>8, <1>9, <1>10 DEF IInv

-----------------------------------------------------------------------------
(* One lemma for the steps of everybody else.                              *)

(* A statement that touches the one row j, which nobody holds before it and *)
(* which is left without pid and heartbeat.                                *)
LEMMA UnheldRowKeepsIInv ==
  ASSUME IInv, NEW j \in Jobs, NEW to \in Statuses \ {"absent"},
         status[j] \notin {"running", "deleted"} \/ j \in tracked,
         status' = [status EXCEPT ![j] = to],
         \/ tracked' = tracked \ {j}
         \/ tracked' = tracked \union {j} /\ to = "running",
         UNCHANGED <<owner, age, pc, cur, thread, failures, shutdown, kills>>,
         status[j] = "absent" \/ tracked' = tracked \ {j},
         retries' \in 0 .. MaxRetries
  PROVE  IInv'
<1>1. owner[j] = None /\ age[j] = None
  BY DEF IInv, UnheldRowsAreClear, TrackedRows
<1>2. \A w \in Workers : pc[w] = "busy" => cur[w] # j
  BY DEF IInv, Exclusive
<1>3. TypeOK'
  BY DEF IInv, TypeOK
<1>4. UnheldRowsAreClear' /\ TrackedRows'
  BY <1>1 DEF IInv, TypeOK, UnheldRowsAreClear, TrackedRows
<1>5. ThreadJobs' /\ OldOnlyIfOutlive'
  BY DEF IInv, TypeOK, ThreadJobs, OldOnlyIfOutlive
<1>6. BusyIsBeating' /\ IdleHasNoJob' /\ Exclusive'
  BY <1>2 DEF IInv, TypeOK, BusyIsBeating, IdleHasNoJob, Exclusive
<1>7. QED
  BY <1>3, <1>4, <1>5, <1>6 DEF IInv

(* Rows that go with their film keep it, whoever executes their jobs.      *)
LEMMA DeleteFilmsKeepsIInv ==
  ASSUME IInv, NEW S \in SUBSET Jobs, DeleteFilms(S)
  PROVE  IInv'
<1>1. /\ status' = [j \in Jobs |-> IF j \in S THEN "deleted" ELSE status[j]]
      /\ owner' = [j \in Jobs |-> IF j \in S THEN None ELSE owner[j]]
      /\ age' = [j \in Jobs |-> IF j \in S THEN None ELSE age[j]]
      /\ UNCHANGED <<tracked, pc, cur, thread, failures, shutdown, retries, kills>>
  BY DEF DeleteFilms, process, counts
<1>2. TypeOK'
  BY <1>1 DEF IInv, TypeOK
<1>3. UnheldRowsAreClear' /\ TrackedRows'
  BY <1>1 DEF IInv, TypeOK, UnheldRowsAreClear, TrackedRows
<1>4. ThreadJobs' /\ OldOnlyIfOutlive'
  BY <1>1 DEF IInv, TypeOK, ThreadJobs, OldOnlyIfOutlive
<1>5. \A w \in Workers : pc[w] = "busy" =>
        /\ cur[w] \in Jobs
        /\ status'[cur[w]] = "running" =>
             status[cur[w]] = "running" /\ age'[cur[w]] = age[cur[w]]
        /\ status'[cur[w]] \in {status[cur[w]], "deleted"}
  BY <1>1 DEF IInv, IdleHasNoJob
<1>6. BusyIsBeating'
  BY <1>1, <1>5 DEF IInv, BusyIsBeating
<1>7. IdleHasNoJob' /\ Exclusive'
  BY <1>1, <1>5 DEF IInv, IdleHasNoJob, Exclusive
<1>8. QED
  BY <1>2, <1>3, <1>4, <1>6, <1>7 DEF IInv

(* The tracking processes, the operator, the approvals and the prunes keep *)
(* it.                                                                     *)
LEMMA OtherKeepsIInv ==
  ASSUME Tolerant, IInv, OtherStep
  PROVE  IInv'
<1> USE DEF process, rows, counts
<1>1. ASSUME NEW j \in Jobs, Enqueue(j) \/ TrackStart(j)
      PROVE  IInv'
  <2>1. status[j] = "absent" /\ j \notin tracked
    BY <1>1 DEF Enqueue, TrackStart, Newest, IInv, TrackedRows
  <2>2. retries' \in 0 .. MaxRetries
    BY <1>1 DEF Enqueue, TrackStart, IInv, TypeOK
  <2>3. CASE Enqueue(j)
    BY <2>1, <2>2, <2>3, UnheldRowKeepsIInv DEF Enqueue
  <2>4. CASE TrackStart(j)
    BY <2>1, <2>2, <2>4, UnheldRowKeepsIInv DEF TrackStart
  <2>5. QED
    BY <1>1, <2>3, <2>4
<1>2. ASSUME NEW j \in Jobs, NEW outcome \in Terminal, TrackEnd(j, outcome)
      PROVE  IInv'
  <2>1. retries' \in 0 .. MaxRetries
    BY <1>2 DEF TrackEnd, IInv, TypeOK
  <2> DEFINE to == IF status[j] = "deleted" THEN "deleted" ELSE outcome
  <2>2. to \in Statuses \ {"absent"}
    OBVIOUS
  <2>3. status' = [status EXCEPT ![j] = to]
    BY <1>2 DEF TrackEnd
  <2> HIDE DEF to
  <2>4. QED
    BY <1>2, <2>1, <2>2, <2>3, UnheldRowKeepsIInv DEF TrackEnd
<1>3. ASSUME NEW j \in Jobs, TrackLost(j)
      PROVE  IInv'
  <2>1. /\ tracked' = tracked \ {j}
        /\ UNCHANGED <<status, owner, age, pc, cur, thread, failures, shutdown,
                       retries, kills>>
    BY <1>3 DEF TrackLost
  <2>2. TypeOK' /\ UnheldRowsAreClear' /\ TrackedRows'
    BY <2>1 DEF IInv, TypeOK, UnheldRowsAreClear, TrackedRows
  <2>3. ThreadJobs' /\ OldOnlyIfOutlive' /\ BusyIsBeating'
    BY <2>1 DEF IInv, ThreadJobs, OldOnlyIfOutlive, BusyIsBeating
  <2>4. IdleHasNoJob' /\ Exclusive'
    BY <2>1 DEF IInv, IdleHasNoJob, Exclusive
  <2>5. QED
    BY <2>2, <2>3, <2>4 DEF IInv
<1>4. ASSUME NEW j \in Jobs, Cancel(j) \/ Requeue(j)
      PROVE  IInv'
  <2>1. /\ status[j] \in {"queued", "failed", "cancelled"}
        /\ \E to \in {"queued", "cancelled"} : status' = [status EXCEPT ![j] = to]
        /\ UNCHANGED <<tracked, pc, cur, thread, failures, shutdown, kills>>
    BY <1>4 DEF Cancel, Requeue
  <2>2. retries' \in 0 .. MaxRetries
    BY <1>4, TimingAssumption DEF Cancel, Requeue, IInv, TypeOK
  <2>3. owner[j] = None /\ age[j] = None /\ j \notin tracked
    BY <2>1 DEF IInv, UnheldRowsAreClear, TrackedRows
  <2>4. UNCHANGED <<owner, age>>
    BY <1>4, <2>3 DEF Cancel, Requeue, IInv, TypeOK
  <2>5. tracked' = tracked \ {j}
    BY <2>1, <2>3
  <2>6. QED
    BY <2>1, <2>2, <2>4, <2>5, UnheldRowKeepsIInv
<1>5. ASSUME OperatorRecover
      PROVE  IInv'
  BY <1>5, RecoverKeepsIInv DEF OperatorRecover, IInv, TypeOK
<1>6. QED
  BY <1>1, <1>2, <1>3, <1>4, <1>5, DeleteFilmsKeepsIInv DEF OtherStep

-----------------------------------------------------------------------------
(* The theorems.                                                           *)

(* The invariant is inductive.                                             *)
LEMMA NextKeepsIInv ==
  ASSUME Tolerant, IInv, [Next]_vars
  PROVE  IInv'
<1>1. ASSUME NEW w \in Workers, WorkerStep(w)
      PROVE  IInv'
  <2>1. CASE RecoverAtStart(w)
    BY <2>1, RecoverKeepsIInv DEF RecoverAtStart, IInv, TypeOK
  <2>2. CASE StartWorker(w) \/ Claim(w)
    BY <2>2, StartWorkerKeepsIInv, ClaimKeepsIInv
  <2>3. CASE Leave(w) \/ Die(w)
    BY <2>3, LeaveOrDieKeepsIInv
  <2>4. CASE EndJoin(w) \/ Signal(w)
    BY <2>4, EndJoinKeepsIInv, SignalKeepsIInv
  <2>5. CASE \E outcome \in {"completed", "failed"} : Release(w, outcome)
    BY <2>5, ReleaseKeepsIInv
  <2>6. QED
    BY <1>1, <2>1, <2>2, <2>3, <2>4, <2>5 DEF WorkerStep
<1>2. ASSUME NEW w \in Workers, ThreadStep(w)
      PROVE  IInv'
  BY <1>2, BeatOkKeepsIInv, BeatFailsKeepsIInv DEF ThreadStep
<1>3. CASE UNCHANGED vars
  <2>1. TypeOK' /\ UnheldRowsAreClear' /\ TrackedRows' /\ ThreadJobs'
    BY <1>3 DEF vars, IInv, TypeOK, UnheldRowsAreClear, TrackedRows, ThreadJobs
  <2>2. OldOnlyIfOutlive' /\ BusyIsBeating' /\ IdleHasNoJob' /\ Exclusive'
    BY <1>3 DEF vars, IInv, OldOnlyIfOutlive, BusyIsBeating, IdleHasNoJob, Exclusive
  <2>3. QED
    BY <2>1, <2>2 DEF IInv
<1>4. QED
  BY <1>1, <1>2, <1>3, TickKeepsIInv, OtherKeepsIInv DEF Next

(* The inductive invariant holds of every behaviour, as long as heartbeats *)
(* are not missed so often that recover_stale_jobs() takes a live job.     *)
THEOREM InductiveInvariant ==
  ASSUME Tolerant
  PROVE  Spec => []IInv
<1>1. IInv /\ [Next]_vars => IInv'
  BY NextKeepsIInv
<1>2. QED
  BY <1>1, InitIInv, PTL DEF Spec

(* Type correctness. *)
THEOREM TypeCorrect ==
  ASSUME Tolerant
  PROVE  Spec => []TypeOK
<1>1. IInv => TypeOK
  BY DEF IInv
<1>2. QED
  BY <1>1, InductiveInvariant, PTL

(* However many workers, jobs, deaths, signals and retries there are, even *)
(* if heartbeat threads outlive their jobs and films are deleted under     *)
(* them: the row of the job a worker executes says "running" or went with  *)
(* its film, and no one else executes that job.                            *)
THEOREM ExclusiveHolds ==
  ASSUME Tolerant
  PROVE  Spec => []Exclusive
<1>1. IInv => Exclusive
  BY DEF IInv
<1>2. QED
  BY <1>1, InductiveInvariant, PTL

(* No job is inside process_job() of two workers. *)
THEOREM NoDuplicate ==
  ASSUME Tolerant
  PROVE  Spec => []NoDuplicateExecution
<1>1. IInv => NoDuplicateExecution
  BY DEF IInv, Exclusive, IdleHasNoJob, NoDuplicateExecution
<1>2. QED
  BY <1>1, InductiveInvariant, PTL

(* A row that is not running carries neither pid nor heartbeat.            *)
THEOREM RowsClear ==
  ASSUME Tolerant
  PROVE  Spec => []UnheldRowsAreClear
<1>1. IInv => UnheldRowsAreClear
  BY DEF IInv
<1>2. QED
  BY <1>1, InductiveInvariant, PTL

-----------------------------------------------------------------------------
(* JobQueue implements JobLease.  Most steps leave state and holders alone. *)

(* The holders depend on cur and tracked alone.                            *)
LEMMA HoldersUnchanged ==
  ASSUME UNCHANGED <<cur, tracked>>
  PROVE  \A j : HoldersOf(j)' = HoldersOf(j)
BY DEF HoldersOf

(* A job has at most one holder, and then its row is running or is gone.   *)
LEMMA HoldersFacts ==
  ASSUME IInv
  PROVE  /\ \A j \in Jobs : status[j] \notin {"running", "deleted"} => HoldersOf(j) = {}
         /\ \A j \in tracked : HoldersOf(j) = {Cli}
         /\ \A w \in Workers : pc[w] = "busy" => HoldersOf(cur[w]) = {w}
<1>1. \A w \in Workers, j \in Jobs : cur[w] = j => pc[w] = "busy"
  BY NamesAssumption DEF IInv, IdleHasNoJob
<1>2. ASSUME NEW j \in Jobs, status[j] \notin {"running", "deleted"}
      PROVE  HoldersOf(j) = {}
  BY <1>1, <1>2 DEF IInv, Exclusive, TrackedRows, HoldersOf
<1>3. ASSUME NEW j \in tracked
      PROVE  HoldersOf(j) = {Cli}
  BY <1>1 DEF IInv, TypeOK, Exclusive, HoldersOf
<1>4. ASSUME NEW w \in Workers, pc[w] = "busy"
      PROVE  HoldersOf(cur[w]) = {w}
  BY <1>4 DEF IInv, Exclusive, HoldersOf
<1>5. QED
  BY <1>2, <1>3, <1>4

(* A step that changes no status and no holder is a stutter of JobLease.   *)
LEMMA StutterSimulates ==
  ASSUME UNCHANGED <<status, cur, tracked>>
  PROVE  UNCHANGED Lease!leaseVars
BY HoldersUnchanged DEF Lease!leaseVars

(* A step that changes only statuses maps to one that leaves the holders.  *)
LEMMA RowStepSimulates ==
  ASSUME IInv, UNCHANGED <<cur, tracked>>,
         \/ \E j \in Jobs : /\ status[j] = "absent"
                            /\ status' = [status EXCEPT ![j] = "queued"]
         \/ \E j \in Jobs : /\ status[j] = "queued"
                            /\ status' = [status EXCEPT ![j] = "cancelled"]
         \/ \E j \in Jobs : /\ status[j] \in {"failed", "cancelled"}
                            /\ status' = [status EXCEPT ![j] = "queued"]
         \/ \E S \in SUBSET Jobs :
              /\ \A j \in S : status[j] = "running" /\ HoldersOf(j) = {}
              /\ status' = [j \in Jobs |-> IF j \in S THEN "queued" ELSE status[j]]
         \/ \E S \in SUBSET Jobs :
              /\ \A j \in S : status[j] # "absent"
              /\ status' = [j \in Jobs |-> IF j \in S THEN "deleted" ELSE status[j]]
  PROVE  Lease!Next
<1>1. [j \in Jobs |-> HoldersOf(j)]' = [j \in Jobs |-> HoldersOf(j)]
  BY HoldersUnchanged
<1>2. QED
  BY <1>1 DEF Lease!Next, Lease!Submit, Lease!Withdraw, Lease!Retry,
              Lease!Reclaim, Lease!Forget

(* A step that gives a job to its first holder or takes it from its only   *)
(* one.                                                                    *)
LEMMA HolderStepSimulates ==
  ASSUME IInv, NEW j \in Jobs, NEW p \in Workers \union {Cli}, NEW to \in Statuses,
         status' = [status EXCEPT ![j] = to],
         \A k \in Jobs \ {j} : HoldersOf(k)' = HoldersOf(k),
         \/ /\ status[j] \in {"absent", "queued"} /\ to = "running"
            /\ HoldersOf(j)' = {p}
         \/ /\ status[j] = "running" /\ to \in Terminal
            /\ HoldersOf(j) = {p} /\ HoldersOf(j)' = {}
         \/ /\ status[j] \in {"running", "deleted"} /\ to = status[j]
            /\ HoldersOf(j) = {p} /\ HoldersOf(j)' = {}
  PROVE  Lease!Next
<1> DEFINE h == [k \in Jobs |-> HoldersOf(k)]
<1>1. h' = [h EXCEPT ![j] = HoldersOf(j)']
  OBVIOUS
<1>2. h[j] = HoldersOf(j)
  OBVIOUS
<1>3. status[j] \notin {"running", "deleted"} => HoldersOf(j) = {}
  BY HoldersFacts
<1>4. CASE status[j] \in {"absent", "queued"} /\ to = "running" /\ HoldersOf(j)' = {p}
  <2>1. Lease!Lease(j, p)
    BY <1>1, <1>2, <1>3, <1>4 DEF Lease!Lease
  <2>2. QED
    BY <2>1 DEF Lease!Next
<1>5. CASE /\ status[j] = "running" /\ to \in Terminal
           /\ HoldersOf(j) = {p} /\ HoldersOf(j)' = {}
  <2>1. Lease!Settle(j, p, to)
    BY <1>1, <1>2, <1>5 DEF Lease!Settle
  <2>2. QED
    BY <1>5, <2>1 DEF Lease!Next, Lease!Settled
<1>6. CASE /\ status[j] \in {"running", "deleted"} /\ to = status[j]
           /\ HoldersOf(j) = {p} /\ HoldersOf(j)' = {}
  <2>1. UNCHANGED status
    BY <1>6 DEF IInv, TypeOK
  <2>2. Lease!Abandon(j)
    BY <1>1, <1>2, <1>6, <2>1 DEF Lease!Abandon
  <2>3. QED
    BY <2>2 DEF Lease!Next
<1>7. QED
  BY <1>4, <1>5, <1>6

(* recover_stale_jobs() reclaims jobs without a holder.                    *)
LEMMA RecoverSimulates ==
  ASSUME Tolerant, IInv, RecoverStale, UNCHANGED <<cur, tracked>>
  PROVE  Lease!Next
<1>1. \A j \in Stale : HoldersOf(j) = {}
  BY StaleIsUnheld, NamesAssumption DEF IInv, IdleHasNoJob, HoldersOf, Stale
<1>2. /\ Stale \in SUBSET Jobs
      /\ \A j \in Stale : status[j] = "running"
  BY DEF Stale
<1>3. status' = [j \in Jobs |-> IF j \in Stale THEN "queued" ELSE status[j]]
  BY DEF RecoverStale
<1>4. QED
  BY <1>1, <1>2, <1>3, RowStepSimulates

(* The start of a worker forgets settled jobs, or stutters.                *)
LEMMA StartWorkerSimulates ==
  ASSUME IInv, NEW w \in Workers, StartWorker(w)
  PROVE  [Lease!Next]_(Lease!leaseVars)
<1>1. UNCHANGED <<cur, tracked>>
  BY DEF StartWorker
<1>2. CASE UNCHANGED status
  BY <1>1, <1>2, StutterSimulates
<1>3. ASSUME NEW cutoff \in Jobs, Purge(cutoff)
      PROVE  Lease!Next
  <2> DEFINE S == {j \in Jobs : j <= cutoff /\ status[j] \in Terminal}
  <2>1. /\ S \in SUBSET Jobs
        /\ \A j \in S : status[j] # "absent"
        /\ status' = [j \in Jobs |-> IF j \in S THEN "deleted" ELSE status[j]]
    BY <1>3 DEF Purge
  <2> HIDE DEF S
  <2>2. QED
    BY <1>1, <2>1, RowStepSimulates
<1>4. QED
  BY <1>2, <1>3 DEF StartWorker

(* claim_next_job() is a Lease.                                            *)
LEMMA ClaimSimulates ==
  ASSUME IInv, NEW w \in Workers, Claim(w)
  PROVE  Lease!Next
<1>1. PICK j \in Queued : /\ status' = [status EXCEPT ![j] = "running"]
                          /\ cur' = [cur EXCEPT ![w] = j]
                          /\ tracked' = tracked
  BY DEF Claim
<1>2. /\ j \in Jobs /\ status[j] = "queued" /\ cur[w] = None
      /\ cur \in [Workers -> Jobs \union {None}]
  BY <1>1 DEF Queued, Claim, IInv, IdleHasNoJob, TypeOK
<1>3. HoldersOf(j) = {}
  BY <1>2, HoldersFacts
<1>4. HoldersOf(j)' = {w}
  BY <1>1, <1>2, <1>3 DEF HoldersOf
<1>5. \A k \in Jobs \ {j} : HoldersOf(k)' = HoldersOf(k)
  BY <1>1, <1>2, NamesAssumption DEF HoldersOf
<1>6. QED
  BY <1>1, <1>2, <1>4, <1>5, HolderStepSimulates

(* A worker lets go of its job: it settles it, dies with it, or has lost   *)
(* its row.                                                                *)
LEMMA WorkerLetsGoSimulates ==
  ASSUME IInv, NEW w \in Workers, pc[w] = "busy", NEW to \in Statuses,
         to = status[cur[w]] \/ (status[cur[w]] = "running" /\ to \in Terminal),
         status' = [status EXCEPT ![cur[w]] = to],
         cur' = [cur EXCEPT ![w] = None], UNCHANGED tracked
  PROVE  Lease!Next
<1>1. PICK j \in Jobs : cur[w] = j
  BY DEF IInv, IdleHasNoJob
<1>2. /\ status[j] \in {"running", "deleted"} /\ j \notin tracked
      /\ cur \in [Workers -> Jobs \union {None}]
      /\ \A v \in Workers : cur[v] = j => v = w
  BY <1>1 DEF IInv, Exclusive, TypeOK
<1>3. HoldersOf(j) = {w}
  BY <1>1, HoldersFacts
<1>4. HoldersOf(j)' = {}
  BY <1>1, <1>2, NamesAssumption DEF HoldersOf
<1>5. \A k \in Jobs \ {j} : HoldersOf(k)' = HoldersOf(k)
  BY <1>1, <1>2, NamesAssumption DEF HoldersOf
<1>6. QED
  BY <1>1, <1>2, <1>3, <1>4, <1>5, HolderStepSimulates

(* Every step of a worker process is a step or a stutter of JobLease.      *)
LEMMA WorkerSimulates ==
  ASSUME Tolerant, IInv, NEW w \in Workers, WorkerStep(w)
  PROVE  [Lease!Next]_(Lease!leaseVars)
<1> USE DEF rows, counts
<1>1. CASE StartWorker(w) \/ Claim(w)
  BY <1>1, StartWorkerSimulates, ClaimSimulates
<1>2. CASE RecoverAtStart(w)
  BY <1>2, RecoverSimulates DEF RecoverAtStart
<1>3. CASE Leave(w) \/ EndJoin(w) \/ Signal(w)
  BY <1>3, StutterSimulates DEF Leave, EndJoin, Signal
<1>4. ASSUME NEW outcome \in {"completed", "failed"}, Release(w, outcome)
      PROVE  Lease!Next
  <2>1. status[cur[w]] \in {"running", "deleted"} /\ pc[w] = "busy"
    BY <1>4 DEF Release, IInv, Exclusive
  <2> DEFINE to == IF status[cur[w]] = "deleted" THEN "deleted" ELSE outcome
  <2>2. /\ status' = [status EXCEPT ![cur[w]] = to]
        /\ cur' = [cur EXCEPT ![w] = None]
        /\ UNCHANGED tracked
    BY <1>4, <2>1 DEF Release, IInv, TypeOK
  <2>3. /\ to \in Statuses
        /\ to = status[cur[w]] \/ (status[cur[w]] = "running" /\ to \in Terminal)
    BY <2>1
  <2> HIDE DEF to
  <2>4. QED
    BY <2>1, <2>2, <2>3, WorkerLetsGoSimulates
<1>5. CASE Die(w)
  <2>1. CASE pc[w] = "busy"
    <3>1. status[cur[w]] \in Statuses
      BY <2>1 DEF IInv, Exclusive
    <3>2. /\ status' = [status EXCEPT ![cur[w]] = status[cur[w]]]
          /\ cur' = [cur EXCEPT ![w] = None]
          /\ UNCHANGED tracked
      BY <1>5 DEF Die, IInv, TypeOK
    <3>3. QED
      BY <2>1, <3>1, <3>2, WorkerLetsGoSimulates
  <2>2. CASE pc[w] # "busy"
    <3>1. UNCHANGED <<status, cur, tracked>>
      BY <1>5, <2>2 DEF Die, IInv, IdleHasNoJob, TypeOK
    <3>2. QED
      BY <3>1, StutterSimulates
  <2>3. QED
    BY <2>1, <2>2
<1>6. QED
  BY <1>1, <1>2, <1>3, <1>4, <1>5 DEF WorkerStep

(* Every step of the other processes is a step or a stutter of JobLease.   *)
LEMMA OtherSimulates ==
  ASSUME Tolerant, IInv, OtherStep
  PROVE  Lease!Next
<1> USE DEF process, rows, counts
<1>1. ASSUME NEW j \in Jobs, Enqueue(j) \/ Cancel(j) \/ Requeue(j)
      PROVE  Lease!Next
  <2>1. UNCHANGED <<cur, tracked>>
    BY <1>1 DEF Enqueue, Cancel, Requeue
  <2>2. CASE Enqueue(j)
    BY <2>1, <2>2, RowStepSimulates DEF Enqueue, Newest
  <2>3. CASE Cancel(j)
    BY <2>1, <2>3, RowStepSimulates DEF Cancel
  <2>4. CASE Requeue(j)
    BY <2>1, <2>4, RowStepSimulates DEF Requeue
  <2>5. QED
    BY <1>1, <2>2, <2>3, <2>4
<1>2. ASSUME NEW j \in Jobs, TrackStart(j)
      PROVE  Lease!Next
  <2>1. /\ status[j] = "absent"
        /\ status' = [status EXCEPT ![j] = "running"]
        /\ tracked' = tracked \union {j} /\ cur' = cur
    BY <1>2 DEF TrackStart, Newest
  <2>2. HoldersOf(j) = {}
    BY <2>1, HoldersFacts
  <2>3. /\ HoldersOf(j)' = {Cli}
        /\ \A k \in Jobs \ {j} : HoldersOf(k)' = HoldersOf(k)
    BY <2>1, <2>2 DEF HoldersOf
  <2>4. QED
    BY <2>1, <2>3, HolderStepSimulates
<1>3. ASSUME NEW j \in tracked, NEW to \in Statuses,
             to = status[j] \/ (status[j] = "running" /\ to \in Terminal),
             status' = [status EXCEPT ![j] = to],
             tracked' = tracked \ {j}, UNCHANGED cur
      PROVE  Lease!Next
  <2>1. j \in Jobs /\ status[j] \in {"running", "deleted"}
    BY DEF IInv, TypeOK, TrackedRows
  <2>2. HoldersOf(j) = {Cli}
    BY HoldersFacts
  <2>3. \A w \in Workers : cur[w] # j
    BY <2>1, NamesAssumption DEF IInv, IdleHasNoJob, Exclusive
  <2>4. /\ HoldersOf(j)' = {}
        /\ \A k \in Jobs \ {j} : HoldersOf(k)' = HoldersOf(k)
    BY <1>3, <2>3 DEF HoldersOf
  <2>5. QED
    BY <1>3, <2>1, <2>2, <2>4, HolderStepSimulates
<1>4. ASSUME NEW j \in Jobs, NEW outcome \in Terminal, TrackEnd(j, outcome)
      PROVE  Lease!Next
  <2>1. j \in tracked /\ status[j] \in {"running", "deleted"}
    BY <1>4 DEF TrackEnd, IInv, TrackedRows
  <2> DEFINE to == IF status[j] = "deleted" THEN "deleted" ELSE outcome
  <2>2. status' = [status EXCEPT ![j] = to] /\ tracked' = tracked \ {j} /\ UNCHANGED cur
    BY <1>4 DEF TrackEnd
  <2>3. to \in Statuses /\ (to = status[j] \/ (status[j] = "running" /\ to \in Terminal))
    BY <2>1
  <2> HIDE DEF to
  <2>4. QED
    BY <1>3, <2>1, <2>2, <2>3
<1>5. ASSUME NEW j \in Jobs, TrackLost(j)
      PROVE  Lease!Next
  <2>1. j \in tracked /\ tracked' = tracked \ {j} /\ UNCHANGED <<status, cur>>
    BY <1>5 DEF TrackLost
  <2>2. status' = [status EXCEPT ![j] = status[j]] /\ status[j] \in Statuses
    BY <2>1 DEF IInv, TypeOK, TrackedRows
  <2>3. QED
    BY <1>3, <2>1, <2>2
<1>6. CASE OperatorRecover
  BY <1>6, RecoverSimulates DEF OperatorRecover
<1>7. ASSUME NEW S \in SUBSET Jobs, DeleteFilms(S)
      PROVE  Lease!Next
  <2>1. /\ \A j \in S : status[j] # "absent"
        /\ status' = [j \in Jobs |-> IF j \in S THEN "deleted" ELSE status[j]]
        /\ UNCHANGED <<cur, tracked>>
    BY <1>7 DEF DeleteFilms
  <2>2. QED
    BY <2>1, RowStepSimulates
<1>8. QED
  BY <1>1, <1>2, <1>4, <1>5, <1>6, <1>7 DEF OtherStep

(* The job table keeps the promise of JobLease: whatever workers, tracking *)
(* processes, operators and prunes do, a job has one holder, only its      *)
(* holder settles it, only an abandoned job goes back to the queue, and a  *)
(* row that went with its film stays deleted.                              *)
THEOREM ImplementsLease ==
  ASSUME Tolerant
  PROVE  Spec => LeaseSpec
<1>1. Init => Lease!Init
  BY NamesAssumption DEF Init, Lease!Init, HoldersOf
<1>2. IInv /\ [Next]_vars => [Lease!Next]_(Lease!leaseVars)
  <2> SUFFICES ASSUME IInv, [Next]_vars
               PROVE  [Lease!Next]_(Lease!leaseVars)
    OBVIOUS
  <2>1. ASSUME NEW w \in Workers, WorkerStep(w)
        PROVE  [Lease!Next]_(Lease!leaseVars)
    BY <2>1, WorkerSimulates
  <2>2. ASSUME NEW w \in Workers, ThreadStep(w)
        PROVE  [Lease!Next]_(Lease!leaseVars)
    BY <2>2, StutterSimulates DEF ThreadStep, BeatOk, BeatFails, rows
  <2>3. CASE Tick \/ UNCHANGED vars
    BY <2>3, StutterSimulates DEF Tick, vars
  <2>4. QED
    BY <2>1, <2>2, <2>3, OtherSimulates DEF Next
<1>3. QED
  BY <1>1, <1>2, InductiveInvariant, PTL DEF Spec, LeaseSpec, Lease!Spec

-----------------------------------------------------------------------------
(* A completed job is never run, failed or queued again, by a late release, *)
(* a retry or a recovery.                                                  *)
THEOREM CompletedStaysCompleted ==
  ASSUME Tolerant
  PROVE  Spec => CompletedIsFinal
<1> DEFINE Kept == \A j \in Jobs : status[j] = "completed" =>
                     status'[j] \in {"completed", "deleted"}
<1>1. ASSUME IInv, [Next]_vars
      PROVE  Kept
  <2>1. ASSUME NEW w \in Workers, WorkerStep(w)
        PROVE  Kept
    <3>1. CASE StartWorker(w)
      BY <1>1, <3>1 DEF StartWorker, Purge, IInv, TypeOK
    <3>2. CASE RecoverAtStart(w)
      BY <1>1, <3>2 DEF RecoverAtStart, RecoverStale, Stale, IInv, TypeOK
    <3>3. CASE Claim(w)
      BY <1>1, <3>3 DEF Claim, Queued, IInv, TypeOK
    <3>4. CASE \E outcome \in {"completed", "failed"} : Release(w, outcome)
      BY <1>1, <3>4 DEF Release, IInv, TypeOK, Exclusive, rows
    <3>5. CASE Leave(w) \/ EndJoin(w) \/ Signal(w) \/ Die(w)
      BY <3>5 DEF Leave, EndJoin, Signal, Die, rows
    <3>6. QED
      BY <2>1, <3>1, <3>2, <3>3, <3>4, <3>5 DEF WorkerStep
  <2>2. ASSUME NEW w \in Workers, ThreadStep(w)
        PROVE  Kept
    BY <2>2 DEF ThreadStep, BeatOk, BeatFails, rows
  <2>3. CASE OtherStep
    <3>1. ASSUME NEW j \in Jobs, Enqueue(j) \/ TrackStart(j) \/ Cancel(j) \/ Requeue(j)
          PROVE  Kept
      BY <1>1, <3>1 DEF Enqueue, TrackStart, Cancel, Requeue, Newest, IInv, TypeOK
    <3>2. ASSUME NEW j \in Jobs, NEW outcome \in Terminal, TrackEnd(j, outcome)
          PROVE  Kept
      BY <1>1, <3>2 DEF TrackEnd, IInv, TypeOK, TrackedRows
    <3>3. ASSUME NEW j \in Jobs, TrackLost(j)
          PROVE  Kept
      BY <3>3 DEF TrackLost, rows
    <3>4. CASE OperatorRecover
      BY <1>1, <3>4 DEF OperatorRecover, RecoverStale, Stale, IInv, TypeOK
    <3>5. ASSUME NEW S \in SUBSET Jobs, DeleteFilms(S)
          PROVE  Kept
      BY <1>1, <3>5 DEF DeleteFilms, IInv, TypeOK
    <3>6. QED
      BY <2>3, <3>1, <3>2, <3>3, <3>4, <3>5 DEF OtherStep
  <2>4. CASE Tick \/ UNCHANGED vars
    BY <2>4 DEF Tick, vars
  <2>5. QED
    BY <1>1, <2>1, <2>2, <2>3, <2>4 DEF Next
<1>2. IInv /\ [Next]_vars => [Kept]_vars
  BY <1>1
<1>3. QED
  BY <1>2, InductiveInvariant, PTL DEF Spec, CompletedIsFinal

-----------------------------------------------------------------------------
(* Pages: the place of a row in an order, and the rows of a page.           *)

\* R orders the members of S, one before the other.
Orders(R, S) ==
    /\ \A x \in S : <<x, x>> \notin R
    /\ \A x, y \in S : x = y \/ <<x, y>> \in R \/ <<y, x>> \in R
    /\ \A x, y, z \in S : <<x, y>> \in R /\ <<y, z>> \in R => <<x, z>> \in R

RowsBefore(R, S, x) == {y \in S : <<y, x>> \in R}
Rank(R, S, x) == Cardinality(RowsBefore(R, S, x))

LEMMA RankBounds ==
    ASSUME NEW S, NEW R, IsFiniteSet(S), Orders(R, S), NEW x \in S
    PROVE  /\ Cardinality(S) \in Nat
           /\ Rank(R, S, x) \in Nat
           /\ IsFiniteSet(RowsBefore(R, S, x))
           /\ Rank(R, S, x) < Cardinality(S)
<1>1. RowsBefore(R, S, x) \in SUBSET S /\ RowsBefore(R, S, x) # S
  BY DEF RowsBefore, Orders
<1>2. IsFiniteSet(RowsBefore(R, S, x)) /\ Rank(R, S, x) <= Cardinality(S) /\ Rank(R, S, x) # Cardinality(S)
  BY <1>1, FS_Subset, Zenon DEF Rank
<1>3. Cardinality(S) \in Nat /\ Rank(R, S, x) \in Nat
  BY <1>2, FS_CardinalityType, Zenon DEF Rank
<1> QED
  BY <1>2, <1>3

LEMMA RankGrows ==
    ASSUME NEW S, NEW R, IsFiniteSet(S), Orders(R, S),
           NEW x \in S, NEW y \in S, <<x, y>> \in R
    PROVE  Rank(R, S, x) < Rank(R, S, y)
<1>1. RowsBefore(R, S, x) \in SUBSET RowsBefore(R, S, y) /\ RowsBefore(R, S, x) # RowsBefore(R, S, y)
  BY DEF RowsBefore, Orders
<1>2. IsFiniteSet(RowsBefore(R, S, y)) /\ Rank(R, S, x) \in Nat /\ Rank(R, S, y) \in Nat
  BY RankBounds
<1>3. Rank(R, S, x) <= Rank(R, S, y) /\ Rank(R, S, x) # Rank(R, S, y)
  BY <1>1, <1>2, FS_Subset, Zenon DEF Rank
<1> QED
  BY <1>2, <1>3

LEMMA RanksDiffer ==
    ASSUME NEW S, NEW R, IsFiniteSet(S), Orders(R, S),
           NEW x \in S, NEW y \in S, Rank(R, S, x) = Rank(R, S, y)
    PROVE  x = y
<1>1. Rank(R, S, x) \in Nat
  BY RankBounds
<1>2. <<x, y>> \notin R /\ <<y, x>> \notin R
  BY <1>1, RankGrows
<1> QED
  BY <1>2 DEF Orders

\* Each place has a row, and each row has its place.
LEMMA RanksOnto ==
    ASSUME NEW S, NEW R, IsFiniteSet(S), Orders(R, S),
           NEW i \in 1 .. Cardinality(S)
    PROVE  \E x \in S : Rank(R, S, x) = i - 1
<1> DEFINE n == Cardinality(S)
           f == [x \in S |-> 1 + Rank(R, S, x)]
<1>1. n \in Nat
  BY FS_CardinalityType
<1>2. \A x \in S : Rank(R, S, x) \in Nat /\ Rank(R, S, x) < n
  BY RankBounds
<1>3. f \in [S -> 1 .. n]
  BY <1>1, <1>2
<1>4. \A x, y \in S : f[x] = f[y] => x = y
  BY <1>2, RanksDiffer
<1>5. f \in Injection(S, 1 .. n)
  BY <1>3, <1>4 DEF Injection, IsInjective
<1>6. IsFiniteSet(1 .. n) /\ Cardinality(1 .. n) = n
  BY <1>1, FS_Interval
<1>7. f \in Surjection(S, 1 .. n)
  BY <1>5, <1>6, FS_Injection, Zenon
<1>8. \E x \in S : f[x] = i
  BY <1>7, Zenon DEF Surjection
<1> QED
  BY <1>2, <1>8

LEMMA RankedRows ==
    ASSUME NEW S, NEW R, IsFiniteSet(S), Orders(R, S)
    PROVE  /\ Ranked(S, R) \in Seq(S)
           /\ Len(Ranked(S, R)) = Cardinality(S)
           /\ \A i \in 1 .. Cardinality(S) :
                Ranked(S, R)[i] \in S /\ Rank(R, S, Ranked(S, R)[i]) = i - 1
           /\ \A x \in S : /\ Rank(R, S, x) + 1 \in 1 .. Cardinality(S)
                           /\ Ranked(S, R)[Rank(R, S, x) + 1] = x
<1> DEFINE n == Cardinality(S)
           L == Ranked(S, R)
<1>1. n \in Nat
  BY FS_CardinalityType
<1>2. L = [i \in 1 .. n |-> CHOOSE r \in S : Rank(R, S, r) = i - 1]
  BY Zenon DEF Ranked, Rank, RowsBefore
<1>3. ASSUME NEW i \in 1 .. n
      PROVE  L[i] \in S /\ Rank(R, S, L[i]) = i - 1
  <2>1. \E x \in S : Rank(R, S, x) = i - 1
    BY RanksOnto
  <2>2. L[i] = CHOOSE r \in S : Rank(R, S, r) = i - 1
    BY <1>2
  <2> QED
    BY <2>1, <2>2, Zenon
<1>4. L \in [1 .. n -> S]
  BY <1>2, <1>3
<1>5. L \in Seq(S) /\ Len(L) = n
  BY <1>1, <1>4
<1>6. ASSUME NEW x \in S
      PROVE  Rank(R, S, x) + 1 \in 1 .. n /\ L[Rank(R, S, x) + 1] = x
  <2>1. Rank(R, S, x) \in Nat /\ Rank(R, S, x) < n
    BY RankBounds
  <2>2. Rank(R, S, x) + 1 \in 1 .. n
    BY <1>1, <2>1
  <2>3. PICK j \in 1 .. n : j = Rank(R, S, x) + 1
    BY <2>2
  <2>4. L[j] \in S /\ Rank(R, S, L[j]) = j - 1
    BY <1>3
  <2> HIDE DEF L
  <2>5. Rank(R, S, L[j]) = Rank(R, S, x)
    BY <2>1, <2>3, <2>4
  <2>6. L[j] = x
    BY <2>4, <2>5, RanksDiffer
  <2> QED
    BY <2>3, <2>6
<1> QED
  BY <1>3, <1>5, <1>6

LEMMA RankedRange ==
    ASSUME NEW S, NEW R, IsFiniteSet(S), Orders(R, S)
    PROVE  Range(Ranked(S, R)) = S
<1>1. Cardinality(S) \in Nat
  BY FS_CardinalityType
<1>2. Ranked(S, R) \in Seq(S) /\ Len(Ranked(S, R)) = Cardinality(S)
  BY RankedRows
<1>3. DOMAIN Ranked(S, R) = 1 .. Cardinality(S)
  BY <1>2
<1>4. \A i \in 1 .. Cardinality(S) : Ranked(S, R)[i] \in S
  BY RankedRows
<1>5. \A x \in S : /\ Rank(R, S, x) + 1 \in 1 .. Cardinality(S)
                   /\ Ranked(S, R)[Rank(R, S, x) + 1] = x
  BY RankedRows
<1> QED
  BY <1>3, <1>4, <1>5, Zenon DEF Range

\* A row whose place is within a page is on it.
LEMMA PageHas ==
    ASSUME NEW S, NEW R, IsFiniteSet(S), Orders(R, S),
           NEW limit \in Nat \ {0}, NEW offset \in Nat,
           NEW P, P = Page(Ranked(S, R), limit, offset),
           NEW x \in S, offset <= Rank(R, S, x), Rank(R, S, x) < offset + limit
    PROVE  \E i \in DOMAIN P : P[i] = x
<1> DEFINE L == Ranked(S, R)
           n == Cardinality(S)
           k == Rank(R, S, x)
           last == Min({offset + limit, Len(L)})
<1>1. n \in Nat /\ k \in Nat /\ k < n
  BY RankBounds
<1>2. L \in Seq(S) /\ Len(L) = n /\ L[k + 1] = x
  BY RankedRows
<1>3. last \in Nat /\ k < last /\ last <= n
  <2>1. CASE offset + limit <= n
    <3>1. last = offset + limit
      BY <1>1, <1>2, <2>1 DEF Min
    <3> QED
      BY <1>1, <2>1, <3>1
  <2>2. CASE ~(offset + limit <= n)
    <3>1. last = n
      BY <1>1, <1>2, <2>2 DEF Min
    <3> QED
      BY <1>1, <2>2, <3>1
  <2> QED
    BY <2>1, <2>2
<1> HIDE DEF L, last, n, k
<1>4. P = SubSeq(L, offset + 1, last)
  BY DEF Page, L, last
<1>5. k - offset + 1 \in DOMAIN SubSeq(L, offset + 1, last)
      /\ SubSeq(L, offset + 1, last)[k - offset + 1] = L[k + 1]
  <2>1. offset <= k /\ k < offset + limit
    BY DEF k
  <2> QED
    BY <1>1, <1>2, <1>3, <2>1
<1> QED
  BY <1>2, <1>4, <1>5

\* No row is on a page that begins behind the last.
LEMMA PageIsEmpty ==
    ASSUME NEW S, NEW R, IsFiniteSet(S), Orders(R, S),
           NEW limit \in Nat \ {0}, NEW offset \in Nat,
           Page(Ranked(S, R), limit, offset) = << >>
    PROVE  Cardinality(S) <= offset
<1>1. Cardinality(S) \in Nat
  BY FS_CardinalityType
<1> SUFFICES ASSUME offset < Cardinality(S) PROVE FALSE
  BY <1>1
<1>2. offset + 1 \in 1 .. Cardinality(S)
  BY <1>1
<1>3. PICK x \in S : Rank(R, S, x) = offset
  BY <1>2, RanksOnto
<1>4. \E i \in DOMAIN Page(Ranked(S, R), limit, offset) : TRUE
  <2>1. offset <= Rank(R, S, x) /\ Rank(R, S, x) < offset + limit
    BY <1>3
  <2> QED
    BY <2>1, PageHas
<1> QED
  BY <1>4

-----------------------------------------------------------------------------
(* The lists of the browser as rows in an order: films by their scan, jobs   *)
(* by what the page sorts them by, the others by name or by date.            *)

\* The rows of a list.
ListRows(d, w) ==
    CASE w.list = "files" -> {f \in d.files : Wanted(f, LibraryQuery(w.q))}
      [] w.list = "transcriptions" -> {f \in d.files : w.q.showAll \/ Transcribed(f) # {}}
      [] w.list = "jobs"  -> {j \in d.jobs : /\ w.q.status # Null => j.status = w.q.status
                                             /\ w.q.type # Null => j.type = w.q.type
                                             /\ w.q.since # Null => j.created >= w.q.since
                                             /\ w.q.search # Null => j.path = w.q.search}
      [] w.list = "plans" -> {p \in d.plans : /\ w.q.status # Null => p.status = w.q.status
                                              /\ w.q.since # Null => p.created >= w.q.since
                                              /\ w.q.policy # Null => p.policy = w.q.policy}
      [] w.list = "plugin" -> {f \in d.files : w.q.plugin \in f.plugins}

\* The column by which a list is sorted, the greatest first.
JobKey(j, by, ascending) ==
    CASE by \in {"duration", "status"} -> JobPlace(j, by, ascending)
      [] by = "job_type" -> IF ascending THEN 0 - Alphabetical(j.type) ELSE Alphabetical(j.type)
      [] by = "file_path" -> IF ascending THEN 0 - j.path ELSE j.path
      [] OTHER -> IF ascending THEN 0 - j.created ELSE j.created
Key(w, r) ==
    CASE w.list = "files" -> r.scanned
      [] w.list \in {"transcriptions", "plugin"} -> 0 - r.name
      [] w.list = "jobs"  -> JobKey(r, w.q.by, w.q.ascending)
      [] w.list = "plans" -> r.created

ListOrder(d, w) ==
    {p \in ListRows(d, w) \X ListRows(d, w) :
       \/ Key(w, p[1]) > Key(w, p[2])
       \/ ~(Key(w, p[2]) > Key(w, p[1])) /\ p[1].id < p[2].id}

LEMMA WalkLists ==
    ASSUME NEW w \in Walks
    PROVE  w.list \in {"files", "transcriptions", "jobs", "plans", "plugin"}
BY WalksAssumption

LEMMA AlphabeticalIsInt ==
    ASSUME NEW word \in JobStatuses \union JobTypes
    PROVE  Alphabetical(word) \in Int
<1>1. \E i \in 1 .. 11 :
      word = <<"apply", "cancelled", "completed", "failed", "move",
               "process", "prune", "queued", "running", "scan", "transcode">>[i]
  <2>1. word \in {"queued", "running", "completed", "failed", "cancelled",
                  "apply", "move", "process", "prune", "scan", "transcode"}
    BY DEF JobStatuses, JobTypes
  <2> QED
    BY <2>1
<1>2. Alphabetical(word) \in 1 .. 11
  BY <1>1, Zenon DEF Alphabetical
<1> QED
  BY <1>2

LEMMA ListTypes ==
    ASSUME NEW d, NEW now \in Nat, Tables(d, now), NEW w \in Walks
    PROVE  /\ IsFiniteSet(ListRows(d, w))
           /\ \A r \in ListRows(d, w) : r.id \in Nat
           /\ \A r, s \in ListRows(d, w) : r.id = s.id => r = s
           /\ w.list \in {"files", "transcriptions", "plugin"} => ListRows(d, w) \subseteq d.files
           /\ w.list = "jobs" => ListRows(d, w) \subseteq d.jobs
           /\ w.list = "plans" => ListRows(d, w) \subseteq d.plans
<1>1. Keyed(d.files) /\ Keyed(d.jobs) /\ Keyed(d.plans)
  BY DEF Tables
<1>2. /\ w.list \in {"files", "transcriptions", "plugin"} => ListRows(d, w) \subseteq d.files
      /\ w.list = "jobs" => ListRows(d, w) \subseteq d.jobs
      /\ w.list = "plans" => ListRows(d, w) \subseteq d.plans
  BY DEF ListRows
<1>3. \E T \in {d.files, d.jobs, d.plans} : ListRows(d, w) \subseteq T
  BY <1>2, WalkLists
<1>4. PICK T : Keyed(T) /\ ListRows(d, w) \subseteq T
  BY <1>1, <1>3
<1>5. IsFiniteSet(ListRows(d, w))
  BY <1>4, FS_Subset DEF Keyed
<1> QED
  BY <1>2, <1>4, <1>5 DEF Keyed

LEMMA DurationTypes ==
    ASSUME NEW j, NEW now \in Nat, now <= MaxClock, JobRow(j, now)
    PROVE  Duration(j) = Null \/ Duration(j) \in 0 .. MaxClock
<1>1. MaxClock \in Nat
  BY TablesAssumption
<1> QED
  BY <1>1 DEF JobRow, Duration

LEMMA JobKeyIsInt ==
    ASSUME NEW j, NEW now \in Nat, now <= MaxClock, JobRow(j, now), NEW by, NEW ascending
    PROVE  JobKey(j, by, ascending) \in Int /\ JobPlace(j, by, ascending) \in Int
<1>1. Duration(j) = Null \/ Duration(j) \in 0 .. MaxClock
  BY DurationTypes
<1>2. Alphabetical(j.status) \in Int /\ Alphabetical(j.type) \in Int
  BY AlphabeticalIsInt DEF JobRow
<1>3. j.path \in Int /\ j.created \in Int /\ MaxClock \in Int
  BY TablesAssumption DEF JobRow
<1>4. JobPlace(j, by, ascending) \in Int
  BY <1>1, <1>2, <1>3 DEF JobPlace
<1> QED
  BY <1>2, <1>3, <1>4 DEF JobKey

LEMMA KeyIsInt ==
    ASSUME NEW d, NEW now \in Nat, now <= MaxClock, Tables(d, now), NEW w \in Walks,
           NEW r \in ListRows(d, w)
    PROVE  Key(w, r) \in Int /\ Place(w, r) \in Int
<1>1. CASE w.list \in {"files", "transcriptions", "plugin"}
  <2>1. FileRow(r)
    BY <1>1, ListTypes DEF Tables
  <2> QED
    BY <1>1, <2>1 DEF FileRow, Key, Place
<1>2. CASE w.list = "jobs"
  <2>1. JobRow(r, now)
    BY <1>2, ListTypes DEF Tables
  <2>2. JobKey(r, w.q.by, w.q.ascending) \in Int /\ JobPlace(r, w.q.by, w.q.ascending) \in Int
    BY <2>1, JobKeyIsInt
  <2> QED
    BY <1>2, <2>2 DEF Key, Place
<1>3. CASE w.list = "plans"
  <2>1. PlanRow(r)
    BY <1>3, ListTypes DEF Tables
  <2> QED
    BY <1>3, <2>1 DEF PlanRow, Key, Place
<1> QED
  BY <1>1, <1>2, <1>3, WalkLists

LEMMA ListOrders ==
    ASSUME NEW d, NEW now \in Nat, now <= MaxClock, Tables(d, now), NEW w \in Walks
    PROVE  Orders(ListOrder(d, w), ListRows(d, w))
<1> DEFINE S == ListRows(d, w)
<1>1. \A r \in S : Key(w, r) \in Int /\ r.id \in Int
  BY KeyIsInt, ListTypes
<1>2. \A r, s \in S : r.id = s.id => r = s
  BY ListTypes
<1>3. \A r, s \in S : <<r, s>> \in ListOrder(d, w) <=>
        \/ Key(w, r) > Key(w, s)
        \/ ~(Key(w, s) > Key(w, r)) /\ r.id < s.id
  BY DEF ListOrder
<1> HIDE DEF S
<1> QED
  BY <1>1, <1>2, <1>3 DEF Orders, S

\* What sorts before what in the list of the jobs page.
LEMMA JobOrder ==
    ASSUME NEW now \in Nat, now <= MaxClock, NEW by, NEW ascending,
           NEW a, JobRow(a, now), NEW b, JobRow(b, now)
    PROVE  JobBefore(a, b, by, ascending) <=> JobKey(a, by, ascending) > JobKey(b, by, ascending)
<1>1. /\ Duration(a) = Null \/ Duration(a) \in 0 .. MaxClock
      /\ Duration(b) = Null \/ Duration(b) \in 0 .. MaxClock
  BY DurationTypes
<1>2. /\ Alphabetical(a.status) \in Int /\ Alphabetical(a.type) \in Int
      /\ Alphabetical(b.status) \in Int /\ Alphabetical(b.type) \in Int
  BY AlphabeticalIsInt DEF JobRow
<1>3. /\ a.path \in Int /\ a.created \in Int /\ b.path \in Int /\ b.created \in Int
      /\ MaxClock \in Nat /\ Null \notin Int
  BY TablesAssumption, NullAssumption DEF JobRow
<1>4. CASE by = "duration"
  BY <1>1, <1>3, <1>4 DEF JobBefore, JobKey, JobPlace
<1>5. CASE by = "status"
  BY <1>2, <1>5 DEF JobBefore, JobKey, JobPlace
<1>6. CASE by = "job_type"
  BY <1>2, <1>6 DEF JobBefore, JobKey
<1>7. CASE by \notin {"duration", "status", "job_type"}
  BY <1>3, <1>7 DEF JobBefore, JobKey
<1> QED
  BY <1>4, <1>5, <1>6, <1>7

LEMMA ListIsRanked ==
    ASSUME NEW d, NEW now \in Nat, now <= MaxClock, Tables(d, now), NEW w \in Walks
    PROVE  WholeList(d, w) = Ranked(ListRows(d, w), ListOrder(d, w))
<1> DEFINE S == ListRows(d, w)
<1>1. CASE w.list = "files"
  <2>1. S = {f \in d.files : Wanted(f, LibraryQuery(w.q))}
    BY <1>1 DEF ListRows
  <2>2. {p \in S \X S : LastScanned(p[1], p[2]) \/ (~LastScanned(p[2], p[1]) /\ p[1].id < p[2].id)}
          = ListOrder(d, w)
    BY <1>1 DEF ListOrder, Key, LastScanned
  <2>3. WholeList(d, w) = FilesList(d, LibraryQuery(w.q))
    BY <1>1 DEF WholeList
  <2> QED
    BY <2>1, <2>2, <2>3, Zenon DEF FilesList, Sorted
<1>2. CASE w.list = "transcriptions"
  <2>1. S = {f \in d.files : w.q.showAll \/ Transcribed(f) # {}}
    BY <1>2 DEF ListRows
  <2>2. \A r \in S : r.name \in Int
    BY <1>2, ListTypes DEF Tables, FileRow
  <2>3. {p \in S \X S : ByName(p[1], p[2]) \/ (~ByName(p[2], p[1]) /\ p[1].id < p[2].id)}
          = ListOrder(d, w)
    BY <1>2, <2>2 DEF ListOrder, Key, ByName
  <2>4. WholeList(d, w) = TranscriptionsList(d, w.q.showAll)
    BY <1>2 DEF WholeList
  <2> QED
    BY <2>1, <2>3, <2>4, Zenon DEF TranscriptionsList, Sorted
<1>3. CASE w.list = "plugin"
  <2>1. S = {f \in d.files : w.q.plugin \in f.plugins}
    BY <1>3 DEF ListRows
  <2>2. \A r \in S : r.name \in Int
    BY <1>3, ListTypes DEF Tables, FileRow
  <2>3. {p \in S \X S : ByName(p[1], p[2]) \/ (~ByName(p[2], p[1]) /\ p[1].id < p[2].id)}
          = ListOrder(d, w)
    BY <1>3, <2>2 DEF ListOrder, Key, ByName
  <2>4. WholeList(d, w) = PluginList(d, w.q.plugin)
    BY <1>3 DEF WholeList
  <2> QED
    BY <2>1, <2>3, <2>4, Zenon DEF PluginList, Sorted
<1>4. CASE w.list = "plans"
  <2>1. S = {p \in d.plans : /\ w.q.status # Null => p.status = w.q.status
                             /\ w.q.since # Null => p.created >= w.q.since
                             /\ w.q.policy # Null => p.policy = w.q.policy}
    BY <1>4 DEF ListRows
  <2>2. {p \in S \X S : NewestPlan(p[1], p[2]) \/ (~NewestPlan(p[2], p[1]) /\ p[1].id < p[2].id)}
          = ListOrder(d, w)
    BY <1>4 DEF ListOrder, Key, NewestPlan
  <2>3. WholeList(d, w) = PlansList(d, w.q)
    BY <1>4 DEF WholeList
  <2> QED
    BY <2>1, <2>2, <2>3, Zenon DEF PlansList, Sorted
<1>5. CASE w.list = "jobs"
  <2>1. S = {j \in d.jobs : /\ w.q.status # Null => j.status = w.q.status
                            /\ w.q.type # Null => j.type = w.q.type
                            /\ w.q.since # Null => j.created >= w.q.since
                            /\ w.q.search # Null => j.path = w.q.search}
    BY <1>5 DEF ListRows
  <2>2. \A r \in S : JobRow(r, now)
    BY <1>5, ListTypes DEF Tables
  <2>3. \A r, s \in S : JobBefore(r, s, w.q.by, w.q.ascending) <=> Key(w, r) > Key(w, s)
    BY <1>5, <2>2, JobOrder DEF Key
  <2>4. {p \in S \X S : \/ JobBefore(p[1], p[2], w.q.by, w.q.ascending)
                        \/ ~JobBefore(p[2], p[1], w.q.by, w.q.ascending) /\ p[1].id < p[2].id}
          = ListOrder(d, w)
    <3> HIDE DEF S
    <3>1. ListOrder(d, w) = {p \in S \X S : \/ Key(w, p[1]) > Key(w, p[2])
                                            \/ ~(Key(w, p[2]) > Key(w, p[1])) /\ p[1].id < p[2].id}
      BY DEF ListOrder, S
    <3> QED
      BY <2>3, <3>1
  <2>5. WholeList(d, w) = JobsList(d, w.q)
    BY <1>5 DEF WholeList
  <2> QED
    BY <2>1, <2>4, <2>5, Zenon DEF JobsList, Sorted
<1> QED
  BY <1>1, <1>2, <1>3, <1>4, <1>5, WalkLists

-----------------------------------------------------------------------------
(* What a request for a page answers.                                       *)

\* What the API makes of the limit and the offset of a walk.
LEMMA Limits ==
    ASSUME NEW n \in 1 .. ApiMaxPage, NEW offset \in Nat
    PROVE  /\ n \in Nat \ {0}
           /\ RequestLimit(n) = n /\ ClampLimit(n) = n
           /\ RequestOffset(offset) = offset
<1>1. /\ n \in Nat /\ 1 <= n /\ n <= ApiMaxPage /\ n <= MaxPage
      /\ ApiMaxPage \in Nat /\ MaxPage \in Nat /\ n # Null /\ offset # Null
  BY PagesAssumption, NullAssumption
<1>2. Min({ApiMaxPage, n}) = n /\ Min({MaxPage, n}) = n
  BY <1>1 DEF Min
<1>3. Max({1, n}) = n /\ Max({0, offset}) = offset
  BY <1>1 DEF Max
<1> QED
  BY <1>1, <1>2, <1>3 DEF RequestLimit, Within, ClampLimit, RequestOffset

\* The query of a page is that of the walk, but for what says which page.
LEMMA PageQuery ==
    ASSUME NEW w \in Walks, NEW offset \in Nat
    PROVE  LET q == [w.q EXCEPT !.limit = w.size, !.offset = offset]
           IN  /\ q.limit = w.size /\ q.offset = offset
               /\ DOMAIN q = DOMAIN w.q
               /\ \A x \in DOMAIN q \ {"limit", "offset"} : q[x] = w.q[x]
BY WalksAssumption

\* The page of the list that a request is for.
PageOf(d, w, offset) == Page(Ranked(ListRows(d, w), ListOrder(d, w)), w.size, offset)

LEMMA FetchedPage ==
    ASSUME NEW d, NEW now \in Nat, now <= MaxClock, Tables(d, now), NEW w \in Walks,
           NEW offset \in Nat
    PROVE  /\ DOMAIN Fetched(d, w, offset).rows = DOMAIN PageOf(d, w, offset)
           /\ \A i \in DOMAIN PageOf(d, w, offset) :
                Fetched(d, w, offset).rows[i].id = PageOf(d, w, offset)[i].id
           /\ \/ Fetched(d, w, offset).total = Cardinality(ListRows(d, w))
              \/ Fetched(d, w, offset).total = 0 /\ PageOf(d, w, offset) = << >>
<1> DEFINE q == [w.q EXCEPT !.limit = w.size, !.offset = offset]
           S == ListRows(d, w)
           L == WholeList(d, w)
           P == PageOf(d, w, offset)
           page == Fetched(d, w, offset)
<1>1. P = Page(L, w.size, offset)
  BY ListIsRanked, Zenon DEF PageOf
<1>2. Len(L) = Cardinality(S)
  BY ListIsRanked, ListTypes, ListOrders, RankedRows
<1>3. w.size \in 1 .. ApiMaxPage
  BY WalksAssumption
<1>4. /\ RequestLimit(w.size) = w.size /\ ClampLimit(w.size) = w.size
      /\ RequestOffset(offset) = offset
  BY <1>3, Limits
<1>5. /\ q.limit = w.size /\ q.offset = offset /\ DOMAIN q = DOMAIN w.q
      /\ \A x \in DOMAIN q \ {"limit", "offset"} : q[x] = w.q[x]
  BY PageQuery
<1>6. CASE w.list = "files"
  <2>1. DOMAIN q = {"status", "search", "resolution", "audioLang", "subtitles", "limit", "offset"}
    BY <1>5, <1>6, WalksAssumption
  <2>2. page = ApiLibrary(d, q)
    BY <1>6 DEF Fetched
  <2>3. /\ q.status = w.q.status /\ q.search = w.q.search /\ q.resolution = w.q.resolution
        /\ q.audioLang = w.q.audioLang /\ q.subtitles = w.q.subtitles
    BY <1>5, <2>1
  <2> HIDE DEF q
  <2>4. \A f : Wanted(f, LibraryQuery(q)) <=> Wanted(f, LibraryQuery(w.q))
    <3>1. LET a == LibraryQuery(q)
              b == LibraryQuery(w.q)
          IN  /\ a.status = b.status /\ a.search = b.search /\ a.resolution = b.resolution
              /\ a.audioLang = b.audioLang /\ a.subtitles = b.subtitles
      BY <1>5, <2>1, <2>3 DEF LibraryQuery
    <3> QED
      BY <3>1 DEF Wanted
  <2>5. {f \in d.files : Wanted(f, LibraryQuery(q))} = {f \in d.files : Wanted(f, LibraryQuery(w.q))}
    BY <2>4
  <2>6. FilesList(d, LibraryQuery(q)) = L
    BY <1>6, <2>5 DEF FilesList, WholeList
  <2>7. S = {f \in d.files : Wanted(f, LibraryQuery(q))}
    BY <1>6, <2>5 DEF ListRows
  <2>8. FilesFiltered(d, LibraryQuery(q), RequestLimit(q.limit), RequestOffset(q.offset))
          = [rows |-> P, total |-> Cardinality(S)]
    BY <1>1, <1>4, <1>5, <2>6, <2>7 DEF FilesFiltered
  <2>9. page.rows = [i \in DOMAIN P |-> FileListItem(P[i])] /\ page.total = Cardinality(S)
    BY <2>2, <2>8 DEF ApiLibrary, Listed
  <2>10. \A i \in DOMAIN P : FileListItem(P[i]).id = P[i].id
    BY DEF FileListItem
  <2> HIDE DEF P, page, S
  <2>11. DOMAIN page.rows = DOMAIN P /\ \A i \in DOMAIN P : page.rows[i].id = P[i].id
    BY <2>9, <2>10
  <2> QED
    BY <2>9, <2>11 DEF P, page, S
<1>7. CASE w.list = "transcriptions"
  <2>1. page = ApiTranscriptions(d, q)
    BY <1>7 DEF Fetched
  <2>2. q.showAll = w.q.showAll
    BY <1>5, <1>7, WalksAssumption
  <2> HIDE DEF q
  <2>3. Listed(FilesWithTranscriptions(d, w.q.showAll, w.size, offset), q, w.q.showAll) = page
    BY <1>4, <1>5, <2>1, <2>2 DEF ApiTranscriptions
  <2>4. page.rows = FilesWithTranscriptions(d, w.q.showAll, w.size, offset).rows
        /\ page.total = FilesWithTranscriptions(d, w.q.showAll, w.size, offset).total
    BY <2>3 DEF Listed
  <2>5. Page(TranscriptionsList(d, w.q.showAll), ClampLimit(w.size), offset) = P
    BY <1>1, <1>4, <1>7 DEF WholeList
  <2>6. S = {f \in d.files : w.q.showAll \/ Transcribed(f) # {}}
    BY <1>7 DEF ListRows
  <2> HIDE DEF P, page, S
  <2>7. page.total = Cardinality(S)
    BY <2>4, <2>6 DEF FilesWithTranscriptions
  <2>8. LET shown == FilesWithTranscriptions(d, w.q.showAll, w.size, offset).rows
        IN  DOMAIN shown = DOMAIN P /\ \A i \in DOMAIN P : shown[i].id = P[i].id
    <3> DEFINE T == TranscriptionsList(d, w.q.showAll)
               Q == Page(T, ClampLimit(w.size), offset)
               all == {f \in d.files : w.q.showAll \/ Transcribed(f) # {}}
    <3>1. FilesWithTranscriptions(d, w.q.showAll, w.size, offset) =
            [rows |-> [i \in DOMAIN Q |->
                 [id |-> Q[i].id, count |-> Cardinality(Transcribed(Q[i])),
                  languages |-> {Q[i].tracks[k].heard : k \in Transcribed(Q[i])}]],
             total |-> Cardinality(all)]
      BY Zenon DEF FilesWithTranscriptions
    <3>2. Q = P
      BY <2>5
    <3> HIDE DEF Q, all
    <3>3. LET shown == FilesWithTranscriptions(d, w.q.showAll, w.size, offset).rows
          IN  DOMAIN shown = DOMAIN Q /\ \A i \in DOMAIN Q : shown[i].id = Q[i].id
      BY <3>1
    <3> QED
      BY <3>2, <3>3
  <2>9. DOMAIN page.rows = DOMAIN P /\ \A i \in DOMAIN P : page.rows[i].id = P[i].id
    BY <2>4, <2>8
  <2> QED
    BY <2>7, <2>9 DEF P, page, S
<1>8. CASE w.list = "jobs"
  <2>1. page = ApiJobs(d, q)
    BY <1>8 DEF Fetched
  <2>2. /\ w.q.status \in {Null} \union JobStatuses /\ w.q.type \in {Null} \union JobTypes
        /\ w.q.since # Unreadable
        /\ DOMAIN q = {"status", "type", "since", "search", "by", "ascending", "limit", "offset"}
    BY <1>5, <1>8, WalksAssumption
  <2>3. /\ q.status = w.q.status /\ q.type = w.q.type /\ q.since = w.q.since
        /\ q.search = w.q.search /\ q.by = w.q.by /\ q.ascending = w.q.ascending
    BY <1>5, <2>2
  <2> HIDE DEF q
  <2>4. JobsList(d, q) = L
    BY <1>8, <2>3 DEF WholeList, JobsList
  <2>5. JobsFiltered(d, q, RequestLimit(q.limit), RequestOffset(q.offset)) = [rows |-> P, total |-> Len(L)]
    BY <1>1, <1>4, <1>5, <2>4 DEF JobsFiltered
  <2>6. /\ q.status \in {Null, "queued", "running", "completed", "failed", "cancelled"}
        /\ q.type \in {Null, "transcode", "move", "scan", "apply", "process", "prune"}
        /\ q.since # Unreadable
    BY <2>2, <2>3 DEF JobStatuses, JobTypes
  <2>7. page.rows = P /\ page.total = Len(L)
    BY <2>1, <2>5, <2>6 DEF ApiJobs, Listed
  <2> QED
    BY <1>2, <2>7
<1>9. CASE w.list = "plans"
  <2>1. page = ApiPlans(d, q)
    BY <1>9 DEF Fetched
  <2>2. /\ w.q.status \in {Null, "pending", "approved", "rejected", "applied", "canceled"}
        /\ w.q.since # Unreadable
        /\ DOMAIN q = {"status", "since", "policy", "limit", "offset"}
    BY <1>5, <1>9, WalksAssumption
  <2>3. q.status = w.q.status /\ q.since = w.q.since /\ q.policy = w.q.policy
    BY <1>5, <2>2
  <2> HIDE DEF q
  <2>4. PlansList(d, q) = L
    BY <1>9, <2>3 DEF WholeList, PlansList
  <2>5. PlansFiltered(d, q, RequestLimit(q.limit), RequestOffset(q.offset)) = [rows |-> P, total |-> Len(L)]
    BY <1>1, <1>4, <1>5, <2>4 DEF PlansFiltered
  <2>6. page.rows = P /\ page.total = Len(L)
    BY <2>1, <2>2, <2>3, <2>5 DEF ApiPlans, Listed
  <2> QED
    BY <1>2, <2>6
<1>10. CASE w.list = "plugin"
  <2>1. page = ApiPluginFiles(d, q.plugin, q)
    BY <1>10 DEF Fetched
  <2>2. q.plugin = w.q.plugin
    BY <1>5, <1>10, WalksAssumption
  <2> HIDE DEF q
  <2>3. PluginList(d, q.plugin) = L
    BY <1>10, <2>2 DEF WholeList
  <2>4. FilesWithPluginData(d, q.plugin, RequestLimit(q.limit), RequestOffset(q.offset))
          = [rows |-> P, total |-> IF P = << >> THEN 0 ELSE Len(L)]
    BY <1>1, <1>4, <1>5, <2>3 DEF FilesWithPluginData
  <2>5. page.rows = P /\ page.total = IF P = << >> THEN 0 ELSE Len(L)
    BY <2>1, <2>4 DEF ApiPluginFiles, Listed
  <2> QED
    BY <1>2, <2>5
<1> QED
  BY <1>6, <1>7, <1>8, <1>9, <1>10, WalkLists

\* A page shows the rows whose place is on it, and says how many the list has, unless the
\* list ends before it.
LEMMA FetchedRows ==
    ASSUME NEW d, NEW now \in Nat, now <= MaxClock, Tables(d, now), NEW w \in Walks,
           NEW offset \in Nat
    PROVE  /\ \A r \in ListRows(d, w) :
                offset <= Rank(ListOrder(d, w), ListRows(d, w), r)
                /\ Rank(ListOrder(d, w), ListRows(d, w), r) < offset + w.size
                  => r.id \in Range(Ids(Fetched(d, w, offset).rows))
           /\ Fetched(d, w, offset).total \in Nat
           /\ \/ Cardinality(ListRows(d, w)) <= Fetched(d, w, offset).total
              \/ Cardinality(ListRows(d, w)) <= offset
<1> DEFINE S == ListRows(d, w)
           R == ListOrder(d, w)
           P == PageOf(d, w, offset)
           page == Fetched(d, w, offset)
<1>1. IsFiniteSet(S) /\ Orders(R, S) /\ w.size \in Nat \ {0} /\ Cardinality(S) \in Nat
  BY ListTypes, ListOrders, WalksAssumption, PagesAssumption, FS_CardinalityType
<1>2. /\ DOMAIN page.rows = DOMAIN P
      /\ \A i \in DOMAIN P : page.rows[i].id = P[i].id
      /\ page.total = Cardinality(S) \/ (page.total = 0 /\ P = << >>)
  BY FetchedPage
<1>3. ASSUME NEW r \in S, offset <= Rank(R, S, r), Rank(R, S, r) < offset + w.size
      PROVE  r.id \in Range(Ids(page.rows))
  <2>1. PICK i \in DOMAIN P : P[i] = r
    <3>1. P = Page(Ranked(S, R), w.size, offset)
      BY DEF PageOf
    <3> HIDE DEF S, R, P
    <3> QED
      BY <1>1, <1>3, <3>1, PageHas
  <2>2. i \in DOMAIN page.rows /\ page.rows[i].id = r.id
    BY <1>2, <2>1
  <2> HIDE DEF page
  <2> QED
    BY <2>2 DEF Ids, Range
<1>4. P = << >> => Cardinality(S) <= offset
  BY <1>1, PageIsEmpty DEF PageOf
<1> QED
  BY <1>1, <1>2, <1>3, <1>4

-----------------------------------------------------------------------------
(* What a write to the tables does to the browser: a row that kept its      *)
(* place is not before the pages that are still to come.                    *)

LEMMA PlacesOf ==
    ASSUME NEW d, NEW now \in Nat, now <= MaxClock, Tables(d, now), NEW w \in Walks
    PROVE  /\ DOMAIN Places(d, w) = {r.id : r \in ListRows(d, w)}
           /\ \A r \in ListRows(d, w) : Places(d, w)[r.id] = Place(w, r)
<1> DEFINE S == ListRows(d, w)
           L == WholeList(d, w)
<1>1. Range(L) = S
  BY ListIsRanked, ListTypes, ListOrders, RankedRange
<1>2. \A r, s \in S : r.id = s.id => r = s
  BY ListTypes
<1> HIDE DEF S, L
<1>3. Places(d, w) = [id \in {r.id : r \in S} |-> Place(w, Unique(RowWith(S, id)))]
  BY <1>1, Zenon DEF Places, L
<1>4. ASSUME NEW r \in S
      PROVE  Unique(RowWith(S, r.id)) = r
  <2>1. RowWith(S, r.id) = {r}
    BY <1>2 DEF RowWith
  <2> QED
    BY <2>1 DEF Unique
<1> QED
  BY <1>3, <1>4 DEF S

\* What no write to a row changes.
KeysKept(d, e) ==
    /\ \A f \in d.files, g \in e.files : f.id = g.id => f.name = g.name
    /\ \A j \in d.jobs, k \in e.jobs :
         j.id = k.id => j.created = k.created /\ j.path = k.path /\ j.type = k.type
    /\ \A p \in d.plans, q \in e.plans : p.id = q.id => p.created = q.created

LEMMA KeyFollows ==
    ASSUME NEW d, NEW now \in Nat, now <= MaxClock, Tables(d, now),
           NEW e, NEW later \in Nat, later <= MaxClock, Tables(e, later),
           KeysKept(d, e), NEW w \in Walks,
           NEW r \in ListRows(d, w), NEW s \in ListRows(e, w), r.id = s.id
    PROVE  /\ Place(w, s) = Place(w, r) => Key(w, s) = Key(w, r)
           /\ Place(w, s) >= Place(w, r) => Key(w, s) >= Key(w, r)
<1>1. /\ Key(w, r) \in Int /\ Place(w, r) \in Int
      /\ Key(w, s) \in Int /\ Place(w, s) \in Int
  BY KeyIsInt
<1>2. CASE w.list = "files"
  BY <1>2 DEF Key, Place
<1>3. CASE w.list \in {"transcriptions", "plugin"}
  <2>1. r.name = s.name
    BY <1>3, ListTypes DEF KeysKept
  <2> QED
    BY <1>1, <1>3, <2>1 DEF Key
<1>4. CASE w.list = "plans"
  <2>1. r.created = s.created
    BY <1>4, ListTypes DEF KeysKept
  <2> QED
    BY <1>1, <1>4, <2>1 DEF Key
<1>5. CASE w.list = "jobs"
  <2>1. r.created = s.created /\ r.path = s.path /\ r.type = s.type
    BY <1>5, ListTypes DEF KeysKept
  <2> DEFINE by == w.q.by
             up == w.q.ascending
  <2>2. /\ Key(w, r) = JobKey(r, by, up) /\ Place(w, r) = JobPlace(r, by, up)
        /\ Key(w, s) = JobKey(s, by, up) /\ Place(w, s) = JobPlace(s, by, up)
    BY <1>5 DEF Key, Place
  <2> HIDE DEF by, up
  <2>3. CASE by \in {"duration", "status"}
    BY <1>1, <2>2, <2>3 DEF JobKey
  <2>4. CASE by \notin {"duration", "status"}
    <3>1. JobKey(r, by, up) = JobKey(s, by, up)
      BY <2>1, <2>4 DEF JobKey
    <3> QED
      BY <1>1, <2>2, <3>1
  <2> QED
    BY <2>3, <2>4
<1> QED
  BY <1>2, <1>3, <1>4, <1>5, WalkLists

\* When no row leaves a list or sinks in it, a row that keeps its place has at least the
\* rows before it that it had.
LEMMA RankStays ==
    ASSUME NEW d, NEW now \in Nat, now <= MaxClock, Tables(d, now),
           NEW e, NEW later \in Nat, later <= MaxClock, Tables(e, later),
           KeysKept(d, e), NEW w \in Walks,
           \A x \in ListRows(d, w) : \E y \in ListRows(e, w) :
             x.id = y.id /\ Place(w, y) >= Place(w, x),
           NEW r \in ListRows(d, w), NEW s \in ListRows(e, w), r.id = s.id,
           Place(w, s) = Place(w, r)
    PROVE  Rank(ListOrder(d, w), ListRows(d, w), r) <= Rank(ListOrder(e, w), ListRows(e, w), s)
<1> DEFINE S == ListRows(d, w)
           T == ListRows(e, w)
           A == RowsBefore(ListOrder(d, w), S, r)
           B == RowsBefore(ListOrder(e, w), T, s)
           f == [x \in A |-> CHOOSE y \in T : x.id = y.id]
<1>1. /\ \A x \in S : Key(w, x) \in Int /\ Place(w, x) \in Int /\ x.id \in Int
      /\ \A y \in T : Key(w, y) \in Int /\ Place(w, y) \in Int /\ y.id \in Int
  BY KeyIsInt, ListTypes
<1>2. /\ \A x, y \in S : x.id = y.id => x = y
      /\ \A x, y \in T : x.id = y.id => x = y
  BY ListTypes
<1>3. Key(w, s) = Key(w, r)
  BY KeyFollows
<1>4. ASSUME NEW x \in A
      PROVE  x \in S /\ f[x] \in B /\ f[x].id = x.id
  <2>1. x \in S /\ (Key(w, x) > Key(w, r) \/ (~(Key(w, r) > Key(w, x)) /\ x.id < r.id))
    BY DEF RowsBefore, ListOrder
  <2>2. PICK y \in T : x.id = y.id /\ Place(w, y) >= Place(w, x)
    BY <2>1
  <2>3. Key(w, y) >= Key(w, x)
    BY <2>1, <2>2, KeyFollows
  <2>4. Key(w, y) > Key(w, s) \/ (~(Key(w, s) > Key(w, y)) /\ y.id < s.id)
    BY <1>1, <1>3, <2>1, <2>2, <2>3
  <2>5. y \in B
    BY <2>4 DEF RowsBefore, ListOrder
  <2>6. f[x] \in T /\ x.id = f[x].id
    BY <2>2
  <2>7. f[x] = y
    BY <1>2, <2>2, <2>6
  <2> QED
    BY <2>1, <2>2, <2>5, <2>7
<1>5. f \in [A -> B]
  BY <1>4
<1>6. \A x, y \in A : f[x] = f[y] => x = y
  BY <1>2, <1>4
<1>7. f \in Injection(A, B)
  <2> HIDE DEF f, A, B
  <2> QED
    BY <1>5, <1>6 DEF Injection, IsInjective
<1>8. IsFiniteSet(B)
  BY ListTypes, ListOrders, RankBounds
<1> QED
  BY <1>7, <1>8, FS_Injection, Zenon DEF Rank

\* The browser has on its pages what was on the list and stayed there.
PagesInv ==
    /\ DOMAIN client = {"stage", "walk", "offset", "total", "seen", "watch", "sunk"}
    /\ client.sunk \in BOOLEAN
    /\ client.stage = "reading" =>
         /\ client.walk \in Walks /\ client.offset \in Nat /\ client.total \in Nat
         /\ ~client.sunk =>
              /\ \A id \in client.watch \ client.seen : \E r \in ListRows(db, client.walk) :
                   /\ r.id = id
                   /\ client.offset + client.walk.size
                        <= Rank(ListOrder(db, client.walk), ListRows(db, client.walk), r)
              /\ client.total <= client.offset + client.walk.size => client.watch \subseteq client.seen
    /\ client.stage = "done" /\ ~client.sunk => client.watch \subseteq client.seen

\* What a write to the tables does to the rows that the browser has yet to see.
LEMMA WatchedInv ==
    ASSUME PagesInv, client.stage \in {"idle", "reading", "done"},
           clock \in Nat, clock' \in Nat, clock <= MaxClock, clock' <= MaxClock,
           Tables(db, clock), Tables(db', clock'), KeysKept(db, db'), client' = Watched(db')
    PROVE  PagesInv' /\ client'.stage = client.stage
<1> DEFINE w == client.walk
           was == Places(db, w)
           is == Places(db', w)
<1>1. CASE client.stage # "reading"
  <2>1. client' = client
    BY <1>1 DEF Watched
  <2> QED
    BY <1>1, <2>1 DEF PagesInv
<1>2. CASE client.stage = "reading"
  <2>1. client' = [client EXCEPT
                     !.watch = {id \in @ : id \in DOMAIN is /\ is[id] = was[id]},
                     !.sunk = @ \/ \E id \in DOMAIN was : id \notin DOMAIN is \/ is[id] < was[id]]
    BY <1>2, Zenon DEF Watched
  <2>2. /\ DOMAIN client = {"stage", "walk", "offset", "total", "seen", "watch", "sunk"}
        /\ client.sunk \in BOOLEAN
        /\ w \in Walks /\ client.offset \in Nat /\ client.total \in Nat
    BY <1>2 DEF PagesInv
  <2> HIDE DEF was, is
  <2>3. /\ DOMAIN client' = DOMAIN client
        /\ client'.stage = "reading" /\ client'.walk = w /\ client'.offset = client.offset
        /\ client'.total = client.total /\ client'.seen = client.seen
        /\ client'.watch = {id \in client.watch : id \in DOMAIN is /\ is[id] = was[id]}
        /\ client'.sunk =
             (client.sunk \/ \E id \in DOMAIN was : id \notin DOMAIN is \/ is[id] < was[id])
    BY <1>2, <2>1, <2>2
  <2>4. client'.sunk \in BOOLEAN
    BY <2>3
  <2>5. ASSUME ~client'.sunk
        PROVE  /\ \A id \in client'.watch \ client'.seen : \E r \in ListRows(db', w) :
                    /\ r.id = id
                    /\ client.offset + w.size <= Rank(ListOrder(db', w), ListRows(db', w), r)
               /\ client.total <= client.offset + w.size => client'.watch \subseteq client'.seen
    <3>1. /\ ~client.sunk
          /\ \A id \in DOMAIN was : id \in DOMAIN is /\ ~(is[id] < was[id])
      BY <2>2, <2>3, <2>5
    <3>2. /\ DOMAIN was = {r.id : r \in ListRows(db, w)}
          /\ \A r \in ListRows(db, w) : was[r.id] = Place(w, r)
          /\ DOMAIN is = {r.id : r \in ListRows(db', w)}
          /\ \A r \in ListRows(db', w) : is[r.id] = Place(w, r)
      BY <2>2, PlacesOf DEF was, is
    <3>3. ASSUME NEW x \in ListRows(db, w)
          PROVE  \E y \in ListRows(db', w) : x.id = y.id /\ Place(w, y) >= Place(w, x)
      <4>1. PICK y \in ListRows(db', w) : x.id = y.id
        BY <3>1, <3>2
      <4>2. Place(w, x) \in Int /\ Place(w, y) \in Int
        BY <2>2, KeyIsInt
      <4>3. ~(Place(w, y) < Place(w, x))
        BY <3>1, <3>2, <4>1
      <4> QED
        BY <4>1, <4>2, <4>3
    <3>4. ASSUME NEW id \in client'.watch \ client'.seen
          PROVE  \E s \in ListRows(db', w) :
                    /\ s.id = id
                    /\ client.offset + w.size <= Rank(ListOrder(db', w), ListRows(db', w), s)
      <4>1. id \in client.watch \ client.seen /\ id \in DOMAIN is /\ is[id] = was[id]
        BY <2>3
      <4>2. PICK r \in ListRows(db, w) :
              r.id = id /\ client.offset + w.size <= Rank(ListOrder(db, w), ListRows(db, w), r)
        BY <1>2, <3>1, <4>1 DEF PagesInv
      <4>3. PICK s \in ListRows(db', w) : s.id = id
        BY <3>2, <4>1
      <4>4. Place(w, s) = Place(w, r)
        BY <3>2, <4>1, <4>2, <4>3
      <4>5. Rank(ListOrder(db, w), ListRows(db, w), r) <= Rank(ListOrder(db', w), ListRows(db', w), s)
        <5>1. r.id = s.id
          BY <4>2, <4>3
        <5> QED
          BY <2>2, <3>3, <4>4, <5>1, RankStays
      <4>6. /\ Rank(ListOrder(db, w), ListRows(db, w), r) \in Nat
            /\ Rank(ListOrder(db', w), ListRows(db', w), s) \in Nat
        BY <2>2, ListTypes, ListOrders, RankBounds
      <4>7. client.offset \in Nat /\ w.size \in Nat
        BY <2>2, WalksAssumption, PagesAssumption
      <4> QED
        BY <4>2, <4>3, <4>5, <4>6, <4>7
    <3>5. client.total <= client.offset + w.size => client.watch \subseteq client.seen
      BY <1>2, <3>1 DEF PagesInv
    <3> QED
      BY <2>3, <3>4, <3>5
  <2> QED
    BY <1>2, <2>2, <2>3, <2>4, <2>5 DEF PagesInv
<1> QED
  BY <1>1, <1>2

-----------------------------------------------------------------------------
(* Numbers of new rows.                                                    *)

LEMMA MaxOf ==
    ASSUME NEW S \in SUBSET Nat, IsFiniteSet(S), S # {}
    PROVE  Max(S) \in S /\ \A x \in S : x <= Max(S)
<1> DEFINE R == {p \in S \X S : p[1] < p[2]}
           n == Cardinality(S)
<1>1. Orders(R, S)
  BY DEF Orders
<1>2. n \in Nat /\ n # 0
  BY FS_CardinalityType, FS_EmptySet
<1>3. n \in 1 .. n
  BY <1>2
<1> HIDE DEF R, n
<1>4. PICK x \in S : Rank(R, S, x) = n - 1
  BY <1>1, <1>3, RanksOnto DEF n
<1>5. ASSUME NEW y \in S
      PROVE  y <= x
  <2>1. Rank(R, S, y) \in Nat /\ Rank(R, S, y) < n
    BY <1>1, RankBounds DEF n
  <2>2. <<x, y>> \in R => Rank(R, S, x) < Rank(R, S, y)
    BY <1>1, RankGrows
  <2>3. <<x, y>> \notin R
    BY <1>2, <1>4, <2>1, <2>2
  <2> QED
    BY <2>3 DEF R
<1>6. \E m \in S : \A y \in S : m >= y
  BY <1>5
<1>7. Max(S) \in S /\ \A y \in S : Max(S) >= y
  BY <1>6, Zenon DEF Max
<1> QED
  BY <1>7

LEMMA IdsBounded ==
    ASSUME NEW T, Keyed(T)
    PROVE  LET last == Max({0} \union {r.id : r \in T})
           IN  last \in Nat /\ \A r \in T : r.id \in Nat /\ r.id <= last
<1> DEFINE S == {0} \union {r.id : r \in T}
<1>1. S \in SUBSET Nat /\ S # {}
  BY DEF Keyed
<1>2. IsFiniteSet({r.id : r \in T})
  <2>1. IsFiniteSet(T)
    BY DEF Keyed
  <2> DEFINE f == [r \in T |-> r.id]
             I == {r.id : r \in T}
  <2>2. f \in [T -> I] /\ \A i \in I : \E r \in T : f[r] = i
    OBVIOUS
  <2>3. f \in Surjection(T, I)
    <3> HIDE DEF f, I
    <3> QED
      BY <2>2 DEF Surjection
  <2> QED
    BY <2>1, <2>3, FS_Surjection, Zenon
<1>3. IsFiniteSet(S)
  BY <1>2, FS_Singleton, FS_Union
<1>4. Max(S) \in S /\ \A x \in S : x <= Max(S)
  BY <1>1, <1>3, MaxOf
<1>5. \A r \in T : r.id \in S
  OBVIOUS
<1> HIDE DEF S
<1>6. Max(S) \in Nat /\ \A r \in T : r.id \in Nat /\ r.id <= Max(S)
  BY <1>1, <1>4, <1>5
<1> QED
  BY <1>6 DEF S

LEMMA NextIdIsNew ==
    ASSUME NEW T, Keyed(T)
    PROVE  NextId(T) \in Nat /\ \A r \in T : r.id < NextId(T)
<1> DEFINE m == Max({0} \union {r.id : r \in T})
<1>1. m \in Nat /\ \A r \in T : r.id \in Nat /\ r.id <= m
  BY IdsBounded
<1>2. NextId(T) = 1 + m
  BY DEF NextId
<1> HIDE DEF m
<1> QED
  BY <1>1, <1>2

-----------------------------------------------------------------------------
(* Writes to the tables keep their keys, and what no write changes.         *)

LEMMA KeyedPart ==
    ASSUME NEW T, Keyed(T), NEW U \in SUBSET T
    PROVE  Keyed(U)
<1>1. IsFiniteSet(U)
  BY FS_Subset DEF Keyed
<1> QED
  BY <1>1 DEF Keyed

LEMMA KeyedAndRow ==
    ASSUME NEW T, Keyed(T), NEW r, r.id \in Nat, \A s \in T : s.id # r.id
    PROVE  Keyed(T \union {r})
<1>1. IsFiniteSet(T \union {r})
  BY FS_Singleton, FS_Union, Zenon DEF Keyed
<1> QED
  BY <1>1 DEF Keyed

LEMMA KeyedSetRow ==
    ASSUME NEW T, Keyed(T), NEW r, r.id \in Nat
    PROVE  /\ Keyed(SetRow(T, r))
           /\ r \in SetRow(T, r)
           /\ \A s \in SetRow(T, r) : s = r \/ (s \in T /\ s.id # r.id)
           /\ {s.id : s \in T} \subseteq {s.id : s \in SetRow(T, r)}
<1> DEFINE U == T \ RowWith(T, r.id)
<1>1. Keyed(U)
  BY KeyedPart
<1>2. \A s \in U : s \in T /\ s.id # r.id
  BY DEF RowWith
<1>3. SetRow(T, r) = U \union {r}
  BY DEF SetRow
<1>4. Keyed(SetRow(T, r))
  BY <1>1, <1>2, <1>3, KeyedAndRow
<1>5. \A s \in T : s \in SetRow(T, r) \/ s.id = r.id
  BY <1>3 DEF RowWith
<1> QED
  BY <1>2, <1>3, <1>4, <1>5

LEMMA LaterJobs ==
    ASSUME NEW now \in Nat, NEW j, JobRow(j, now)
    PROVE  JobRow(j, now + 1)
BY DEF JobRow

TableNames == {"files", "jobs", "plans", "stats", "metrics", "snapshots"}

\* Nothing but the time has changed in the tables that the properties are about.
LEMMA SameTables ==
    ASSUME NEW d, NEW now \in Nat, Tables(d, now), NEW e, DOMAIN e = TableNames,
           e.files = d.files, e.jobs = d.jobs, e.plans = d.plans, e.stats = d.stats,
           e.metrics = d.metrics
    PROVE  Tables(e, now + 1) /\ KeysKept(d, e)
<1>1. \A j \in d.jobs : JobRow(j, now + 1)
  BY LaterJobs DEF Tables
<1>2. Keyed(d.files) /\ Keyed(d.jobs) /\ Keyed(d.plans)
  BY DEF Tables
<1>3. \A f, g \in d.files : f.id = g.id => f = g
  BY <1>2 DEF Keyed
<1>4. \A f, g \in d.jobs : f.id = g.id => f = g
  BY <1>2 DEF Keyed
<1>5. \A f, g \in d.plans : f.id = g.id => f = g
  BY <1>2 DEF Keyed
<1>6. KeysKept(d, e)
  BY <1>3, <1>4, <1>5, Zenon DEF KeysKept
<1>7. Tables(e, now + 1)
  BY <1>1 DEF Tables, TableNames
<1> QED
  BY <1>6, <1>7

\* A write to one film.
LEMMA FileWritten ==
    ASSUME NEW d, NEW now \in Nat, Tables(d, now),
           NEW row, FileRow(row), \A f \in d.files : f.id = row.id => f.name = row.name,
           NEW e, e = [d EXCEPT !.files = SetRow(@, row)]
    PROVE  Tables(e, now + 1) /\ KeysKept(d, e)
<1>1. /\ DOMAIN d = TableNames /\ DOMAIN e = TableNames
      /\ e.files = SetRow(d.files, row) /\ e.jobs = d.jobs /\ e.plans = d.plans
      /\ e.stats = d.stats /\ e.metrics = d.metrics
  BY DEF Tables, TableNames
<1>2. /\ Keyed(d.files) /\ row.id \in Nat
      /\ Keyed(d.files) /\ Keyed(d.jobs) /\ Keyed(d.plans) /\ Keyed(d.stats)
  BY DEF Tables, FileRow
<1>3. /\ Keyed(e.files)
      /\ \A f \in e.files : f = row \/ (f \in d.files /\ f.id # row.id)
      /\ {f.id : f \in d.files} \subseteq {f.id : f \in e.files}
  <2> DEFINE T == d.files
  <2>1. Keyed(T) /\ row.id \in Nat
    BY <1>2
  <2> HIDE DEF T
  <2>2. /\ Keyed(SetRow(T, row))
        /\ \A s \in SetRow(T, row) : s = row \/ (s \in T /\ s.id # row.id)
        /\ {s.id : s \in T} \subseteq {s.id : s \in SetRow(T, row)}
    BY <2>1, KeyedSetRow
  <2>3. e.files = SetRow(T, row)
    BY <1>1 DEF T
  <2> QED
    BY <2>2, <2>3, Zenon DEF T
<1>4. \A f \in e.files : FileRow(f)
  BY <1>3 DEF Tables
<1>5. \A j \in d.jobs : JobRow(j, now + 1)
  BY LaterJobs DEF Tables
<1>6. \A f, g \in d.files : f.id = g.id => f = g
  BY <1>2 DEF Keyed
<1>7. \A f \in d.files, g \in e.files : f.id = g.id => f.name = g.name
  BY <1>3, <1>6
<1>8. \A f, g \in d.jobs : f.id = g.id => f = g
  BY <1>2 DEF Keyed
<1>9. \A f, g \in d.plans : f.id = g.id => f = g
  BY <1>2 DEF Keyed
<1>10. KeysKept(d, e)
  BY <1>1, <1>7, <1>8, <1>9, Zenon DEF KeysKept
<1>11. /\ {s.file : s \in e.stats} \subseteq {f.id : f \in e.files}
       /\ {m.stats : m \in e.metrics} \subseteq {s.id : s \in e.stats}
       /\ \A p \in e.plans : PlanRow(p)
  <2>1. /\ {s.file : s \in d.stats} \subseteq {f.id : f \in d.files}
        /\ {m.stats : m \in d.metrics} \subseteq {s.id : s \in d.stats}
        /\ \A p \in d.plans : PlanRow(p)
    BY DEF Tables
  <2> QED
    BY <1>1, <1>3, <2>1
<1>12. Tables(e, now + 1)
  BY <1>1, <1>2, <1>3, <1>4, <1>5, <1>11, Zenon DEF Tables, TableNames
<1> QED
  BY <1>10, <1>12

\* A write to one job, or a new one.
LEMMA JobWritten ==
    ASSUME NEW d, NEW now \in Nat, Tables(d, now),
           NEW row, JobRow(row, now + 1),
           \A j \in d.jobs : j.id = row.id =>
             j.created = row.created /\ j.path = row.path /\ j.type = row.type,
           NEW e, e = [d EXCEPT !.jobs = SetRow(@, row)]
    PROVE  Tables(e, now + 1) /\ KeysKept(d, e)
<1>1. /\ DOMAIN d = TableNames /\ DOMAIN e = TableNames
      /\ e.jobs = SetRow(d.jobs, row) /\ e.files = d.files /\ e.plans = d.plans
      /\ e.stats = d.stats /\ e.metrics = d.metrics
  BY DEF Tables, TableNames
<1>2. /\ row.id \in Nat
      /\ Keyed(d.files) /\ Keyed(d.jobs) /\ Keyed(d.plans) /\ Keyed(d.stats)
  BY DEF Tables, JobRow
<1>3. /\ Keyed(e.jobs)
      /\ \A j \in e.jobs : j = row \/ (j \in d.jobs /\ j.id # row.id)
  BY <1>1, <1>2, KeyedSetRow
<1>4. \A j \in d.jobs : JobRow(j, now + 1)
  BY LaterJobs DEF Tables
<1>5. \A j \in e.jobs : JobRow(j, now + 1)
  BY <1>3, <1>4
<1>6. \A j, k \in d.jobs : j.id = k.id => j = k
  BY <1>2 DEF Keyed
<1>7. \A j \in d.jobs, k \in e.jobs :
        j.id = k.id => j.created = k.created /\ j.path = k.path /\ j.type = k.type
  BY <1>3, <1>6
<1>8. \A f, g \in d.files : f.id = g.id => f = g
  BY <1>2 DEF Keyed
<1>9. \A f, g \in d.plans : f.id = g.id => f = g
  BY <1>2 DEF Keyed
<1>10. KeysKept(d, e)
  BY <1>1, <1>7, <1>8, <1>9, Zenon DEF KeysKept
<1>11. /\ {s.file : s \in d.stats} \subseteq {f.id : f \in d.files}
       /\ {m.stats : m \in d.metrics} \subseteq {s.id : s \in d.stats}
       /\ \A p \in d.plans : PlanRow(p)
       /\ \A f \in d.files : FileRow(f)
  BY DEF Tables
<1>12. Tables(e, now + 1)
  BY <1>1, <1>2, <1>3, <1>5, <1>11, Zenon DEF Tables, TableNames
<1> QED
  BY <1>10, <1>12

\* A write to one plan.
LEMMA PlanWritten ==
    ASSUME NEW d, NEW now \in Nat, Tables(d, now),
           NEW row, PlanRow(row), \A p \in d.plans : p.id = row.id => p.created = row.created,
           NEW e, e = [d EXCEPT !.plans = SetRow(@, row)]
    PROVE  Tables(e, now + 1) /\ KeysKept(d, e)
<1>1. /\ DOMAIN d = TableNames /\ DOMAIN e = TableNames
      /\ e.plans = SetRow(d.plans, row) /\ e.files = d.files /\ e.jobs = d.jobs
      /\ e.stats = d.stats /\ e.metrics = d.metrics
  BY DEF Tables, TableNames
<1>2. /\ row.id \in Nat
      /\ Keyed(d.files) /\ Keyed(d.jobs) /\ Keyed(d.plans) /\ Keyed(d.stats)
  BY DEF Tables, PlanRow
<1>3. /\ Keyed(e.plans)
      /\ \A p \in e.plans : p = row \/ (p \in d.plans /\ p.id # row.id)
  BY <1>1, <1>2, KeyedSetRow
<1>4. \A p \in e.plans : PlanRow(p)
  BY <1>3 DEF Tables
<1>5. \A j \in d.jobs : JobRow(j, now + 1)
  BY LaterJobs DEF Tables
<1>6. \A p, q \in d.plans : p.id = q.id => p = q
  BY <1>2 DEF Keyed
<1>7. \A p \in d.plans, q \in e.plans : p.id = q.id => p.created = q.created
  BY <1>3, <1>6
<1>8. \A f, g \in d.files : f.id = g.id => f = g
  BY <1>2 DEF Keyed
<1>9. \A f, g \in d.jobs : f.id = g.id => f = g
  BY <1>2 DEF Keyed
<1>10. KeysKept(d, e)
  BY <1>1, <1>7, <1>8, <1>9, Zenon DEF KeysKept
<1>11. /\ {s.file : s \in d.stats} \subseteq {f.id : f \in d.files}
       /\ {m.stats : m \in d.metrics} \subseteq {s.id : s \in d.stats}
       /\ \A f \in d.files : FileRow(f)
  BY DEF Tables
<1>12. Tables(e, now + 1)
  BY <1>1, <1>2, <1>3, <1>4, <1>5, <1>11, Zenon DEF Tables, TableNames
<1> QED
  BY <1>10, <1>12

\* Rows that go: of films with what hangs on them, of jobs, of statistics.
LEMMA RowsGone ==
    ASSUME NEW d, NEW now \in Nat, Tables(d, now),
           NEW e, DOMAIN e = TableNames, e.plans = d.plans,
           e.files \in SUBSET d.files, e.jobs \in SUBSET d.jobs, e.stats \in SUBSET d.stats,
           {s.file : s \in e.stats} \subseteq {f.id : f \in e.files},
           {m.stats : m \in e.metrics} \subseteq {s.id : s \in e.stats}
    PROVE  Tables(e, now + 1) /\ KeysKept(d, e)
<1>1. Keyed(d.files) /\ Keyed(d.jobs) /\ Keyed(d.plans) /\ Keyed(d.stats)
  BY DEF Tables
<1>2. Keyed(e.files) /\ Keyed(e.jobs) /\ Keyed(e.plans) /\ Keyed(e.stats)
  BY <1>1, KeyedPart
<1>3. \A j \in d.jobs : JobRow(j, now + 1)
  BY LaterJobs DEF Tables
<1>4. /\ \A f \in e.files : FileRow(f)
      /\ \A j \in e.jobs : JobRow(j, now + 1)
      /\ \A p \in e.plans : PlanRow(p)
  BY <1>3 DEF Tables
<1>5. Tables(e, now + 1)
  BY <1>2, <1>4, Zenon DEF Tables, TableNames
<1>6. \A f \in d.files, g \in e.files : f.id = g.id => f = g
  BY <1>1 DEF Keyed
<1>7. \A f \in d.jobs, g \in e.jobs : f.id = g.id => f = g
  BY <1>1 DEF Keyed
<1>8. \A f \in d.plans, g \in e.plans : f.id = g.id => f = g
  BY <1>1 DEF Keyed
<1> QED
  BY <1>5, <1>6, <1>7, <1>8, Zenon DEF KeysKept

LEMMA StatsGone ==
    ASSUME NEW d, NEW now \in Nat, Tables(d, now), NEW G \in SUBSET d.stats,
           NEW e, e = DeleteStats(d, G)
    PROVE  /\ Tables(e, now + 1) /\ KeysKept(d, e)
           /\ DOMAIN e = TableNames /\ e.files = d.files /\ e.jobs = d.jobs /\ e.plans = d.plans
           /\ e.snapshots = d.snapshots /\ e.stats = d.stats \ G
           /\ e.metrics = {m \in d.metrics : m.stats \notin {s.id : s \in G}}
<1>1. /\ DOMAIN d = TableNames /\ DOMAIN e = TableNames
      /\ e.files = d.files /\ e.jobs = d.jobs /\ e.plans = d.plans
      /\ e.snapshots = d.snapshots /\ e.stats = d.stats \ G
      /\ e.metrics = {m \in d.metrics : m.stats \notin {s.id : s \in G}}
  BY DEF Tables, TableNames, DeleteStats
<1>2. /\ {s.file : s \in d.stats} \subseteq {f.id : f \in d.files}
      /\ {m.stats : m \in d.metrics} \subseteq {s.id : s \in d.stats}
  BY DEF Tables
<1>3. {s.file : s \in e.stats} \subseteq {f.id : f \in e.files}
  BY <1>1, <1>2
<1>4. {m.stats : m \in e.metrics} \subseteq {s.id : s \in e.stats}
  BY <1>1, <1>2
<1>5. Tables(e, now + 1) /\ KeysKept(d, e)
  BY <1>1, <1>3, <1>4, RowsGone
<1> QED
  BY <1>1, <1>5

LEMMA FilesGone ==
    ASSUME NEW d, NEW now \in Nat, Tables(d, now), NEW G \in SUBSET d.files,
           NEW e, e = DeleteFiles(d, G)
    PROVE  /\ Tables(e, now + 1) /\ KeysKept(d, e)
           /\ e.files = d.files \ G
           /\ e.stats = {s \in d.stats : s.file \notin {f.id : f \in G}}
           /\ e.metrics = {m \in d.metrics : m.stats \notin
                             {s.id : s \in {t \in d.stats : t.file \in {f.id : f \in G}}}}
<1> DEFINE I == {f.id : f \in G}
           H == {s \in d.stats : s.file \in I}
           c == [d EXCEPT !.files = @ \ G, !.jobs = {j \in @ : j.file \notin I}]
<1>1. e = DeleteStats(c, H)
  BY Zenon DEF DeleteFiles
<1>2. DOMAIN d = TableNames
  BY DEF Tables, TableNames
<1> HIDE DEF I
<1>3. /\ DOMAIN c = TableNames /\ c.files = d.files \ G /\ c.jobs = {j \in d.jobs : j.file \notin I}
      /\ c.plans = d.plans /\ c.stats = d.stats /\ c.metrics = d.metrics
  BY <1>2 DEF TableNames
<1> HIDE DEF c
<1>4. /\ DOMAIN e = TableNames /\ e.files = d.files \ G /\ e.jobs = {j \in d.jobs : j.file \notin I}
      /\ e.plans = d.plans /\ e.stats = d.stats \ H
      /\ e.metrics = {m \in d.metrics : m.stats \notin {s.id : s \in H}}
  BY <1>1, <1>3 DEF DeleteStats, TableNames
<1>5. /\ {s.file : s \in d.stats} \subseteq {f.id : f \in d.files}
      /\ {m.stats : m \in d.metrics} \subseteq {s.id : s \in d.stats}
  BY DEF Tables
<1>6. {s.file : s \in e.stats} \subseteq {f.id : f \in e.files}
  <2>1. SUFFICES ASSUME NEW s \in e.stats
                 PROVE  \E f \in e.files : s.file = f.id
    OBVIOUS
  <2>2. s \in d.stats /\ s.file \notin I
    BY <1>4
  <2>3. PICK f \in d.files : s.file = f.id
    BY <1>5, <2>2
  <2>4. f \notin G
    BY <2>2, <2>3 DEF I
  <2> QED
    BY <1>4, <2>3, <2>4
<1>7. {m.stats : m \in e.metrics} \subseteq {s.id : s \in e.stats}
  <2> HIDE DEF H
  <2> QED
    BY <1>4, <1>5
<1>8. e.stats = {s \in d.stats : s.file \notin I}
  BY <1>4
<1>9. Tables(e, now + 1) /\ KeysKept(d, e)
  BY <1>4, <1>6, <1>7, RowsGone
<1> QED
  BY <1>4, <1>8, <1>9, Zenon DEF I

-----------------------------------------------------------------------------
(* The phases of a run are read back in the order they were written.        *)

LEMMA MetricsSame ==
    ASSUME NEW d, NEW e, NEW id,
           {m \in d.metrics : m.stats = id} = {m \in e.metrics : m.stats = id}
    PROVE  MetricsOf(d, id) = MetricsOf(e, id)
BY DEF MetricsOf

\* The rows that the phases of a run are recorded in, and the order they are read in.
MetricRows(id, phases) == {[stats |-> id, phase |-> phases[i], nr |-> i] : i \in DOMAIN phases}
MetricOrder(T) == {p \in T \X T : p[1].nr < p[2].nr}

LEMMA MetricRanks ==
    ASSUME NEW X, NEW phases \in Seq(X), NEW id,
           NEW i \in 1 .. Len(phases)
    PROVE  LET S == MetricRows(id, phases)
               row(k) == [stats |-> id, phase |-> phases[k], nr |-> k]
           IN  /\ IsFiniteSet(S) /\ Orders(MetricOrder(S), S)
               /\ Cardinality(S) = Len(phases)
               /\ row(i) \in S /\ Rank(MetricOrder(S), S, row(i)) = i - 1
<1> DEFINE S == MetricRows(id, phases)
           row(k) == [stats |-> id, phase |-> phases[k], nr |-> k]
           n == Len(phases)
           f == [k \in 1 .. n |-> row(k)]
           A == RowsBefore(MetricOrder(S), S, row(i))
           g == [k \in 1 .. (i - 1) |-> row(k)]
<1>1. n \in Nat /\ DOMAIN phases = 1 .. n
  OBVIOUS
<1>2. S = {row(k) : k \in 1 .. n}
  BY <1>1 DEF MetricRows
<1>3. \A k \in 1 .. n : row(k) \in S /\ row(k).nr = k
  BY <1>2
<1>4. \A r \in S : r.nr \in 1 .. n /\ r = row(r.nr)
  BY <1>2
<1> HIDE DEF S, row
<1>5. f \in Bijection(1 .. n, S)
  <2>1. f \in [1 .. n -> S]
    BY <1>3
  <2>2. \A k, l \in 1 .. n : f[k] = f[l] => k = l
    BY <1>3
  <2>3. \A r \in S : \E k \in 1 .. n : f[k] = r
    BY <1>4
  <2> HIDE DEF f
  <2> QED
    BY <2>1, <2>2, <2>3 DEF Bijection, Injection, IsInjective, Surjection
<1>6. IsFiniteSet(S) /\ Cardinality(S) = n
  <2>1. IsFiniteSet(1 .. n) /\ Cardinality(1 .. n) = n
    BY <1>1, FS_Interval
  <2>2. ExistsBijection(1 .. n, S)
    BY <1>5 DEF ExistsBijection
  <2> QED
    BY <2>1, <2>2, FS_Bijection
<1>7. \A r, s \in S : <<r, s>> \in MetricOrder(S) <=> r.nr < s.nr
  BY DEF MetricOrder
<1>8. Orders(MetricOrder(S), S)
  <2>1. \A r, s \in S : r.nr = s.nr => r = s
    BY <1>4
  <2>2. \A r \in S : r.nr \in Int
    BY <1>4
  <2> QED
    BY <1>7, <2>1, <2>2 DEF Orders
<1>9. \A r \in S : r \in A <=> r.nr < i
  BY <1>3, <1>7 DEF RowsBefore
<1>10. g \in Bijection(1 .. (i - 1), A)
  <2> DEFINE J == 1 .. (i - 1)
  <2>0. A \subseteq S
    BY DEF RowsBefore
  <2>1. g \in [J -> A]
    <3>1. \A k \in J : k \in 1 .. n /\ k < i
      BY <1>1
    <3>2. \A k \in J : row(k) \in A
      BY <1>3, <1>9, <3>1
    <3> HIDE DEF A
    <3> QED
      BY <3>2
  <2>2. \A k, l \in J : g[k] = g[l] => k = l
    <3>1. \A k \in J : k \in 1 .. n /\ g[k] = row(k)
      BY <1>1
    <3> HIDE DEF g, J
    <3> QED
      BY <1>3, <3>1
  <2>3. \A r \in A : \E k \in J : g[k] = r
    <3>1. ASSUME NEW r \in A
          PROVE  r.nr \in J /\ g[r.nr] = r
      <4>1. r.nr \in 1 .. n /\ r.nr < i /\ row(r.nr) = r
        BY <1>4, <1>9, <2>0
      <4> QED
        BY <1>1, <4>1
    <3> QED
      BY <3>1
  <2> HIDE DEF g, J, A
  <2> QED
    BY <2>1, <2>2, <2>3, Zenon DEF Bijection, Injection, IsInjective, Surjection, J
<1>11. Cardinality(A) = i - 1
  <2>1. i - 1 \in Nat
    BY <1>1
  <2>2. IsFiniteSet(1 .. (i - 1)) /\ Cardinality(1 .. (i - 1)) = i - 1
    BY <2>1, FS_Interval
  <2>3. ExistsBijection(1 .. (i - 1), A)
    BY <1>10, Zenon DEF ExistsBijection
  <2> HIDE DEF A
  <2> QED
    BY <2>2, <2>3, FS_Bijection
<1>12. Rank(MetricOrder(S), S, row(i)) = i - 1
  BY <1>11, Zenon DEF Rank
<1> QED
  BY <1>3, <1>6, <1>8, <1>12 DEF S, row

\* The phases of a run are read back as they were recorded.
LEMMA MetricsRead ==
    ASSUME NEW X, NEW phases \in Seq(X), NEW id, NEW d,
           {m \in d.metrics : m.stats = id} = MetricRows(id, phases)
    PROVE  MetricsOf(d, id) = phases
<1> DEFINE S == MetricRows(id, phases)
           n == Len(phases)
           L == Ranked(S, MetricOrder(S))
           row(k) == [stats |-> id, phase |-> phases[k], nr |-> k]
<1>1. MetricsOf(d, id) = [i \in DOMAIN L |-> L[i].phase]
  BY Zenon DEF MetricsOf, MetricOrder
<1>2. n \in Nat /\ DOMAIN phases = 1 .. n /\ phases = [i \in 1 .. n |-> phases[i]]
  OBVIOUS
<1>3. IsFiniteSet(S) /\ Orders(MetricOrder(S), S) /\ Cardinality(S) = n
  <2>1. CASE n = 0
    <3>1. S = {}
      BY <1>2, <2>1 DEF MetricRows
    <3>2. IsFiniteSet({}) /\ Cardinality({}) = 0
      BY FS_EmptySet
    <3> QED
      BY <2>1, <3>1, <3>2 DEF Orders
  <2>2. CASE n # 0
    <3>1. 1 \in 1 .. n
      BY <1>2, <2>2
    <3> QED
      BY <3>1, MetricRanks
  <2> QED
    BY <2>1, <2>2
<1>4. DOMAIN L = 1 .. n
  BY <1>2, <1>3, RankedRows
<1>5. ASSUME NEW i \in 1 .. n
      PROVE  L[i] = row(i)
  <2>1. row(i) \in S /\ Rank(MetricOrder(S), S, row(i)) = i - 1
    BY MetricRanks
  <2> HIDE DEF S, row
  <2>0. \A r \in S : L[Rank(MetricOrder(S), S, r) + 1] = r
    BY <1>3, RankedRows, Zenon
  <2>2. L[Rank(MetricOrder(S), S, row(i)) + 1] = row(i)
    BY <2>0, <2>1, Zenon
  <2>3. i - 1 + 1 = i
    BY <1>2
  <2> HIDE DEF L
  <2> QED
    BY <2>1, <2>2, <2>3
<1>6. ASSUME NEW i \in 1 .. n
      PROVE  L[i].phase = phases[i]
  <2>1. row(i).phase = phases[i]
    OBVIOUS
  <2> QED
    BY <1>5, <2>1, Zenon
<1> HIDE DEF L, S, n
<1> QED
  BY <1>1, <1>2, <1>4, <1>6

-----------------------------------------------------------------------------
(* The inductive invariant of LibraryPages.                                 *)

\* The statistics of a run are numbered when it begins, so that no row has its number
\* before it is written.
RunInv ==
    /\ DOMAIN run = {"stage", "capture", "record", "nr"}
    /\ run.nr \in Nat
    /\ \A s \in db.stats : s.id <= run.nr
    /\ run.stage # "idle" =>
         /\ \A s \in db.stats : s.id < run.nr
         /\ DOMAIN run.capture = {"file", "policy", "before", "tracks", "target", "skipped",
                                  "encoder", "phases"}
         /\ run.capture.phases \in Seq({p.name : p \in PhaseMetrics})
    /\ run.stage = "stamped" => run.record.id = run.nr

\* What a purge counted is what it was asked to delete.
Meant(s, by) ==
    CASE by.kind = "before" -> s.at < by.at
      [] by.kind = "policy" -> s.policy = by.policy
      [] OTHER              -> TRUE
PurgeInv ==
    /\ DOMAIN purge = {"stage", "by", "counted", "told"}
    /\ purge.stage = "asked" => \A s \in purge.counted : Meant(s, purge.by)

PagesIInv == PagesTypeOK /\ PagesInv /\ RunInv /\ PurgeInv

-----------------------------------------------------------------------------
RecordsStep ==
    /\ {m.stats : m \in db'.metrics} \subseteq {s.id : s \in db'.stats}
    /\ {s.file : s \in db'.stats} \subseteq {f.id : f \in db'.files}
    /\ \A s \in db'.stats :
         IF s \in db.stats THEN MetricsOf(db', s.id) = MetricsOf(db, s.id)
         ELSE s = run.record /\ MetricsOf(db', s.id) = run.capture.phases
    /\ db'.files # db.files \/ run' # run =>
         \A s \in db.stats \ db'.stats : RowWith(db'.files, s.file) = {}

PurgeStep ==
    purge.stage = "asked" /\ db' # db /\ purge'.stage = "idle" =>
      LET gone == db.stats \ db'.stats
      IN  /\ purge'.told = Cardinality(gone)
          /\ db' = [db EXCEPT !.stats = @ \ gone,
                              !.metrics = {m \in @ : RowWith(db'.stats, m.stats) # {}}]
          /\ purge.counted \intersect db.stats \subseteq gone
          /\ purge.by.kind = "before" => \A s \in gone : s.at < purge.by.at

PagesStep == PagesIInv' /\ RecordsStep /\ PurgeStep

LEMMA PagesInitially == PagesInit => PagesIInv
<1> SUFFICES ASSUME PagesInit PROVE PagesIInv
  OBVIOUS
<1>1. /\ Tables(InitialDb, 1) /\ MaxClock \in Nat \ {0}
      /\ db = InitialDb /\ clock = 1
  BY TablesAssumption DEF PagesInit
<1>2. PagesTypeOK
  <2>1. /\ client.stage = "idle" /\ run.stage = "idle" /\ purge.stage = "idle"
        /\ clock \in 1 .. MaxClock
    BY <1>1 DEF PagesInit
  <2> QED
    BY <1>1, <2>1 DEF PagesTypeOK
<1>3. PagesInv
  BY DEF PagesInit, PagesInv
<1>4. RunInv
  <2>1. Keyed(db.stats)
    BY <1>1 DEF Tables
  <2> DEFINE m == Max({0} \union {s.id : s \in InitialDb.stats})
  <2>2. m \in Nat /\ \A s \in db.stats : s.id <= m
    BY <1>1, <2>1, IdsBounded
  <2>3. /\ DOMAIN run = {"stage", "capture", "record", "nr"}
        /\ run.nr = m /\ run.stage = "idle"
    BY DEF PagesInit
  <2> HIDE DEF m
  <2> QED
    BY <2>2, <2>3 DEF RunInv
<1>5. PurgeInv
  BY DEF PagesInit, PurgeInv
<1> QED
  BY <1>2, <1>3, <1>4, <1>5 DEF PagesIInv

-----------------------------------------------------------------------------
(* Steps.                                                                   *)

\* A write to the tables, and what the browser makes of it.
LEMMA PagesWrite ==
    ASSUME PagesIInv, NEW d, Change(d), Tables(d, clock + 1), KeysKept(db, d)
    PROVE  /\ clock \in Nat /\ clock' \in 1 .. MaxClock /\ Tables(db', clock')
           /\ client'.stage \in {"idle", "reading", "done"}
           /\ PagesInv' /\ db' = d
<1>1. /\ clock \in Nat /\ clock + 1 \in 1 .. MaxClock /\ clock <= MaxClock
      /\ clock' = clock + 1 /\ db' = d /\ client' = Watched(d)
  BY TablesAssumption DEF PagesIInv, PagesTypeOK, Change
<1>2. /\ client.stage \in {"idle", "reading", "done"} /\ Tables(db, clock) /\ PagesInv
  BY DEF PagesIInv, PagesTypeOK
<1>3. clock' \in Nat /\ clock' <= MaxClock
  BY <1>1, TablesAssumption
<1>4. Tables(db', clock') /\ KeysKept(db, db') /\ client' = Watched(db')
  BY <1>1, Zenon
<1>5. PagesInv' /\ client'.stage = client.stage
  BY <1>1, <1>2, <1>3, <1>4, WatchedInv
<1> QED
  BY <1>1, <1>2, <1>4, <1>5

\* A write that leaves the statistics alone.
LEMMA QuietWrite ==
    ASSUME PagesIInv, NEW d, Change(d), Tables(d, clock + 1), KeysKept(db, d),
           d.stats = db.stats, d.metrics = db.metrics, UNCHANGED <<run, purge>>
    PROVE  PagesStep
<1>1. /\ clock' \in 1 .. MaxClock /\ Tables(db', clock')
      /\ client'.stage \in {"idle", "reading", "done"}
      /\ PagesInv' /\ db' = d
  BY PagesWrite
<1>2. run' = run /\ purge' = purge
  OBVIOUS
<1>3. PagesTypeOK' /\ RunInv' /\ PurgeInv'
  <2>1. PagesTypeOK /\ RunInv /\ PurgeInv
    BY DEF PagesIInv
  <2>2. PagesTypeOK'
    BY <1>1, <1>2, <2>1 DEF PagesTypeOK
  <2>3. RunInv'
    BY <1>1, <1>2, <2>1 DEF RunInv
  <2>4. PurgeInv'
    BY <1>2, <2>1 DEF PurgeInv
  <2> QED
    BY <2>2, <2>3, <2>4
<1>4. RecordsStep
  <2>1. /\ {m.stats : m \in db'.metrics} \subseteq {s.id : s \in db'.stats}
        /\ {s.file : s \in db'.stats} \subseteq {f.id : f \in db'.files}
    BY <1>1 DEF Tables
  <2>2. \A s \in db'.stats : s \in db.stats /\ MetricsOf(db', s.id) = MetricsOf(db, s.id)
    BY <1>1, MetricsSame
  <2>3. db.stats \ db'.stats = {}
    BY <1>1
  <2> QED
    BY <2>1, <2>2, <2>3 DEF RecordsStep
<1>5. PurgeStep
  BY <1>2 DEF PurgeStep
<1> QED
  BY <1>1, <1>3, <1>4, <1>5 DEF PagesStep, PagesIInv

\* A step that writes nothing.
LEMMA NoWrite ==
    ASSUME PagesIInv, UNCHANGED <<db, clock>>, PagesInv', RunInv', PurgeInv',
           client'.stage \in {"idle", "reading", "done"},
           run'.stage \in {"idle", "captured", "stamped"}, purge'.stage \in {"idle", "asked"}
    PROVE  PagesStep
<1>1. db' = db /\ clock' = clock /\ PagesTypeOK
  BY DEF PagesIInv
<1>2. PagesTypeOK'
  BY <1>1 DEF PagesTypeOK
<1>3. RecordsStep
  <2>1. /\ {m.stats : m \in db'.metrics} \subseteq {s.id : s \in db'.stats}
        /\ {s.file : s \in db'.stats} \subseteq {f.id : f \in db'.files}
    BY <1>1 DEF PagesTypeOK, Tables
  <2>2. \A s \in db'.stats : s \in db.stats /\ MetricsOf(db', s.id) = MetricsOf(db, s.id)
    BY <1>1
  <2>3. db.stats \ db'.stats = {}
    BY <1>1
  <2> QED
    BY <2>1, <2>2, <2>3 DEF RecordsStep
<1>4. PurgeStep
  BY <1>1 DEF PurgeStep
<1> QED
  BY <1>2, <1>3, <1>4 DEF PagesStep, PagesIInv

-----------------------------------------------------------------------------
(* Scans, analyses, jobs and plans.                                        *)

LEMMA TablesNow ==
    ASSUME PagesIInv
    PROVE  /\ clock \in Nat /\ Tables(db, clock) /\ DOMAIN db = TableNames
           /\ \A f \in db.files : FileRow(f)
           /\ \A f, g \in db.files : f.id = g.id => f = g
           /\ \A j \in db.jobs : JobRow(j, clock)
           /\ \A j, k \in db.jobs : j.id = k.id => j = k
           /\ \A p \in db.plans : PlanRow(p)
           /\ \A p, q \in db.plans : p.id = q.id => p = q
           /\ \A s \in db.stats : s.id \in Nat
           /\ \A s, t \in db.stats : s.id = t.id => s = t
           /\ {s.file : s \in db.stats} \subseteq {f.id : f \in db.files}
           /\ {m.stats : m \in db.metrics} \subseteq {s.id : s \in db.stats}
<1>1. clock \in Nat /\ Tables(db, clock)
  BY TablesAssumption DEF PagesIInv, PagesTypeOK
<1>2. Keyed(db.files) /\ Keyed(db.jobs) /\ Keyed(db.plans) /\ Keyed(db.stats)
  BY <1>1 DEF Tables
<1> QED
  BY <1>1, <1>2 DEF Tables, Keyed, TableNames

LEMMA FileStep ==
    ASSUME PagesIInv, NEW row, FileRow(row),
           \A f \in db.files : f.id = row.id => f.name = row.name,
           Change([db EXCEPT !.files = SetRow(@, row)]), UNCHANGED <<run, purge>>
    PROVE  PagesStep
<1> DEFINE d == [db EXCEPT !.files = SetRow(@, row)]
<1>1. Tables(d, clock + 1) /\ KeysKept(db, d)
  BY TablesNow, FileWritten
<1>2. d.stats = db.stats /\ d.metrics = db.metrics
  BY TablesNow DEF TableNames
<1>3. Change(d)
  OBVIOUS
<1> HIDE DEF d
<1> QED
  BY <1>1, <1>2, <1>3, QuietWrite

LEMMA JobStep ==
    ASSUME PagesIInv, NEW row, JobRow(row, clock + 1),
           \A j \in db.jobs : j.id = row.id =>
             j.created = row.created /\ j.path = row.path /\ j.type = row.type,
           Change([db EXCEPT !.jobs = SetRow(@, row)]), UNCHANGED <<run, purge>>
    PROVE  PagesStep
<1> DEFINE d == [db EXCEPT !.jobs = SetRow(@, row)]
<1>1. Tables(d, clock + 1) /\ KeysKept(db, d)
  BY TablesNow, JobWritten
<1>2. d.stats = db.stats /\ d.metrics = db.metrics
  BY TablesNow DEF TableNames
<1>3. Change(d)
  OBVIOUS
<1> HIDE DEF d
<1> QED
  BY <1>1, <1>2, <1>3, QuietWrite

LEMMA PlanStep ==
    ASSUME PagesIInv, NEW row, PlanRow(row),
           \A p \in db.plans : p.id = row.id => p.created = row.created,
           Change([db EXCEPT !.plans = SetRow(@, row)]), UNCHANGED <<run, purge>>
    PROVE  PagesStep
<1> DEFINE d == [db EXCEPT !.plans = SetRow(@, row)]
<1>1. Tables(d, clock + 1) /\ KeysKept(db, d)
  BY TablesNow, PlanWritten
<1>2. d.stats = db.stats /\ d.metrics = db.metrics
  BY TablesNow DEF TableNames
<1>3. Change(d)
  OBVIOUS
<1> HIDE DEF d
<1> QED
  BY <1>1, <1>2, <1>3, QuietWrite

LEMMA ScanStep ==
    ASSUME PagesIInv, NEW path \in Paths, Scan(path)
    PROVE  PagesStep
<1>1. PICK content \in Contents, at \in {clock, clock + 1}, j \in db.jobs :
        Change([db EXCEPT !.files = SetRow(@, Scanned(path, at, content, j.id))])
  BY DEF Scan
<1>2. UNCHANGED <<run, purge>>
  BY DEF Scan
<1> DEFINE row == Scanned(path, at, content, j.id)
           known == {f \in db.files : f.path = path}
           first == IF known = {} THEN Null ELSE Unique(known).job
<1>3. /\ DOMAIN row = FileFields
      /\ row.id = IF known = {} THEN NextId(db.files) ELSE Unique(known).id
      /\ row.name = path /\ row.path = path /\ row.status \in {"error", "ok"}
      /\ row.scanned = at
  BY DEF Scanned, FileFields
<1>4. row.id \in Nat /\ \A f \in db.files : f.id = row.id => f.name = row.name
  <2>1. CASE known = {}
    <3>1. Keyed(db.files)
      BY TablesNow DEF Tables
    <3>2. NextId(db.files) \in Nat /\ \A f \in db.files : f.id < NextId(db.files) /\ f.id \in Nat
      BY <3>1, NextIdIsNew DEF Keyed
    <3> HIDE DEF row, known
    <3> QED
      BY <1>3, <2>1, <3>2
  <2>2. CASE known # {}
    <3>1. Unique(known) \in known
      BY <2>2, Zenon DEF Unique
    <3>2. PICK g \in db.files : g = Unique(known) /\ g.path = path
      BY <3>1
    <3>3. g.id \in Nat /\ g.name = path
      BY <3>2, TablesNow DEF FileRow
    <3>4. \A f \in db.files : f.id = g.id => f = g
      BY TablesNow
    <3> HIDE DEF row, known
    <3> QED
      BY <1>3, <2>2, <3>2, <3>3, <3>4
  <2> QED
    BY <2>1, <2>2
<1>5. FileRow(row)
  <2>1. path \in Int /\ at \in Nat
    BY TablesAssumption, TablesNow
  <2> HIDE DEF row
  <2> QED
    BY <1>3, <1>4, <2>1 DEF FileRow, FileStatuses
<1>6. Change([db EXCEPT !.files = SetRow(@, row)])
  BY <1>1
<1> HIDE DEF row
<1> QED
  BY <1>2, <1>4, <1>5, <1>6, FileStep

LEMMA MarkMissingStep ==
    ASSUME PagesIInv, NEW f \in db.files, MarkMissing(f)
    PROVE  PagesStep
<1> DEFINE row == [f EXCEPT !.status = "missing"]
<1>1. FileRow(f) /\ \A g \in db.files : g.id = f.id => g = f
  BY TablesNow
<1>2. FileRow(row) /\ row.id = f.id /\ row.name = f.name
  BY <1>1 DEF FileRow, FileFields, FileStatuses
<1>3. Change([db EXCEPT !.files = SetRow(@, row)]) /\ UNCHANGED <<run, purge>>
  BY DEF MarkMissing
<1> HIDE DEF row
<1> QED
  BY <1>1, <1>2, <1>3, FileStep

LEMMA TrackStep ==
    ASSUME PagesIInv, NEW f \in db.files, NEW i, Transcribe(f, i) \/ Analyze(f, i)
    PROVE  PagesStep
<1>1. FileRow(f) /\ \A g \in db.files : g.id = f.id => g = f
  BY TablesNow
<1>2. CASE Transcribe(f, i)
  <2>1. PICK language \in Languages :
          Change([db EXCEPT !.files = SetRow(@, [f EXCEPT !.tracks[i].heard = language])])
    BY <1>2 DEF Transcribe
  <2> DEFINE row == [f EXCEPT !.tracks[i].heard = language]
  <2>2. FileRow(row) /\ row.id = f.id /\ row.name = f.name
    BY <1>1 DEF FileRow, FileFields
  <2>3. UNCHANGED <<run, purge>>
    BY <1>2 DEF Transcribe
  <2>4. Change([db EXCEPT !.files = SetRow(@, row)])
    BY <2>1
  <2> HIDE DEF row
  <2> QED
    BY <1>1, <2>2, <2>3, <2>4, FileStep
<1>3. CASE Analyze(f, i)
  <2>1. PICK verdict \in Verdicts :
          Change([db EXCEPT !.files = SetRow(@, [f EXCEPT !.tracks[i].verdict = verdict])])
    BY <1>3 DEF Analyze
  <2> DEFINE row == [f EXCEPT !.tracks[i].verdict = verdict]
  <2>2. FileRow(row) /\ row.id = f.id /\ row.name = f.name
    BY <1>1 DEF FileRow, FileFields
  <2>3. UNCHANGED <<run, purge>>
    BY <1>3 DEF Analyze
  <2>4. Change([db EXCEPT !.files = SetRow(@, row)])
    BY <2>1
  <2> HIDE DEF row
  <2> QED
    BY <1>1, <2>2, <2>3, <2>4, FileStep
<1> QED
  BY <1>2, <1>3

LEMMA SnapshotStep ==
    ASSUME PagesIInv, Snapshot
    PROVE  PagesStep
<1>1. PICK T : Change([db EXCEPT !.snapshots = T]) /\ UNCHANGED <<run, purge>>
  BY DEF Snapshot
<1> DEFINE d == [db EXCEPT !.snapshots = T]
<1>2. /\ DOMAIN d = TableNames /\ d.files = db.files /\ d.jobs = db.jobs
      /\ d.plans = db.plans /\ d.stats = db.stats /\ d.metrics = db.metrics
  BY TablesNow DEF TableNames
<1>3. Change(d)
  BY <1>1
<1> HIDE DEF d
<1>4. Tables(d, clock + 1) /\ KeysKept(db, d)
  BY <1>2, TablesNow, SameTables
<1> QED
  BY <1>1, <1>2, <1>3, <1>4, QuietWrite

LEMMA RunningJobStep ==
    ASSUME PagesIInv, NEW j \in db.jobs, StartJob(j) \/ EndJob(j)
    PROVE  PagesStep
<1>1. /\ JobRow(j, clock) /\ clock \in Nat
      /\ \A k \in db.jobs : k.id = j.id => k = j
  BY TablesNow
<1>2. CASE StartJob(j)
  <2> DEFINE row == [j EXCEPT !.status = "running", !.started = clock + 1]
  <2>1. /\ DOMAIN row = JobFields /\ row.id = j.id /\ row.path = j.path /\ row.type = j.type
        /\ row.status = "running" /\ row.created = j.created /\ row.completed = j.completed
    BY <1>1 DEF JobRow, JobFields
  <2>2. JobRow(j, clock + 1)
    BY <1>1, LaterJobs
  <2>3. Change([db EXCEPT !.jobs = SetRow(@, row)]) /\ UNCHANGED <<run, purge>>
    BY <1>2 DEF StartJob
  <2> HIDE DEF row
  <2>4. JobRow(row, clock + 1)
    BY <2>1, <2>2 DEF JobRow, JobStatuses
  <2> QED
    BY <1>1, <2>1, <2>3, <2>4, JobStep
<1>3. CASE EndJob(j)
  <2>1. PICK result \in {"completed", "failed"} :
          Change([db EXCEPT !.jobs = SetRow(@, [j EXCEPT !.status = result,
                                                         !.completed = clock + 1])])
    BY <1>3 DEF EndJob
  <2> DEFINE row == [j EXCEPT !.status = result, !.completed = clock + 1]
  <2>2. /\ DOMAIN row = JobFields /\ row.id = j.id /\ row.path = j.path /\ row.type = j.type
        /\ row.status = result /\ row.created = j.created /\ row.completed = clock + 1
    BY <1>1 DEF JobRow, JobFields
  <2>3. JobRow(j, clock + 1)
    BY <1>1, LaterJobs
  <2>4. Change([db EXCEPT !.jobs = SetRow(@, row)]) /\ UNCHANGED <<run, purge>>
    BY <1>3, <2>1 DEF EndJob
  <2> HIDE DEF row
  <2>5. JobRow(row, clock + 1)
    BY <1>1, <2>2, <2>3 DEF JobRow, JobStatuses
  <2> QED
    BY <1>1, <2>2, <2>4, <2>5, JobStep
<1> QED
  BY <1>2, <1>3

LEMMA AddJobStep ==
    ASSUME PagesIInv, NEW f \in db.files, AddJob(f)
    PROVE  PagesStep
<1> DEFINE row == [id |-> NextId(db.jobs), file |-> f.id, path |-> f.path, type |-> "transcode",
                   status |-> "queued", created |-> clock + 1, started |-> Null, completed |-> Null,
                   policy |-> Null, codec |-> "hevc", summary |-> << >>, affected |-> << >>]
<1>1. Change([db EXCEPT !.jobs = @ \union {row}]) /\ UNCHANGED <<run, purge>>
  BY DEF AddJob
<1>2. Keyed(db.jobs)
  BY TablesNow DEF Tables
<1>3. NextId(db.jobs) \in Nat /\ \A j \in db.jobs : j.id # NextId(db.jobs)
  <2>1. NextId(db.jobs) \in Nat /\ \A j \in db.jobs : j.id < NextId(db.jobs) /\ j.id \in Nat
    BY <1>2, NextIdIsNew DEF Keyed
  <2> QED
    BY <2>1
<1>4. /\ DOMAIN row = JobFields /\ row.id = NextId(db.jobs) /\ row.path = f.path
      /\ row.type = "transcode" /\ row.status = "queued" /\ row.created = clock + 1
      /\ row.completed = Null
  BY DEF JobFields
<1>5. f.path \in Int /\ clock \in Nat
  BY TablesNow DEF FileRow
<1> HIDE DEF row
<1>6. JobRow(row, clock + 1)
  BY <1>3, <1>4, <1>5 DEF JobRow, JobStatuses, JobTypes
<1>7. SetRow(db.jobs, row) = db.jobs \union {row}
  BY <1>3, <1>4 DEF SetRow, RowWith
<1>8. Change([db EXCEPT !.jobs = SetRow(@, row)])
  BY <1>1, <1>7, TablesNow DEF TableNames
<1> QED
  BY <1>1, <1>3, <1>4, <1>6, <1>8, JobStep

LEMMA PurgeJobsStep ==
    ASSUME PagesIInv, PurgeJobs
    PROVE  PagesStep
<1>1. PICK T : Change([db EXCEPT !.jobs = @ \ T]) /\ UNCHANGED <<run, purge>>
  BY DEF PurgeJobs
<1> DEFINE d == [db EXCEPT !.jobs = @ \ T]
<1>2. /\ DOMAIN d = TableNames /\ d.files = db.files /\ d.jobs = db.jobs \ T
      /\ d.plans = db.plans /\ d.stats = db.stats /\ d.metrics = db.metrics
  BY TablesNow DEF TableNames
<1>3. Change(d)
  BY <1>1
<1> HIDE DEF d
<1>4. Tables(d, clock + 1) /\ KeysKept(db, d)
  BY <1>2, TablesNow, RowsGone
<1> QED
  BY <1>1, <1>2, <1>3, <1>4, QuietWrite

LEMMA DecidePlanStep ==
    ASSUME PagesIInv, NEW p \in db.plans, DecidePlan(p)
    PROVE  PagesStep
<1>1. PlanRow(p) /\ \A q \in db.plans : q.id = p.id => q = p
  BY TablesNow
<1>2. PICK answer \in {"approved", "rejected"} :
        Change([db EXCEPT !.plans = SetRow(@, [p EXCEPT !.status = answer])])
  BY DEF DecidePlan
<1> DEFINE row == [p EXCEPT !.status = answer]
<1>3. PlanRow(row) /\ row.id = p.id /\ row.created = p.created
  BY <1>1 DEF PlanRow
<1>4. Change([db EXCEPT !.plans = SetRow(@, row)]) /\ UNCHANGED <<run, purge>>
  BY <1>2 DEF DecidePlan
<1> HIDE DEF row
<1> QED
  BY <1>1, <1>3, <1>4, PlanStep

-----------------------------------------------------------------------------
(* Rows of the statistics that go.                                         *)

\* A write by which rows of the statistics go with their metrics.
LEMMA StatsStep ==
    ASSUME PagesIInv, NEW d, Change(d), Tables(d, clock + 1), KeysKept(db, d),
           NEW G \in SUBSET db.stats, d.stats = db.stats \ G,
           d.metrics = {m \in db.metrics : m.stats \notin {s.id : s \in G}},
           d.files # db.files => \A s \in G : RowWith(d.files, s.file) = {},
           run' = run
    PROVE  /\ PagesInv' /\ RunInv' /\ RecordsStep
           /\ PurgeInv' /\ purge'.stage \in {"idle", "asked"} => PagesIInv'
<1>1. /\ clock' \in 1 .. MaxClock /\ Tables(db', clock')
      /\ client'.stage \in {"idle", "reading", "done"}
      /\ PagesInv' /\ db' = d
  BY PagesWrite
<1>2. PagesTypeOK /\ RunInv
  BY DEF PagesIInv
<1>3. \A s \in d.stats : s \in db.stats
  OBVIOUS
<1>4. RunInv'
  BY <1>1, <1>2, <1>3 DEF RunInv
<1>5. purge'.stage \in {"idle", "asked"} => PagesTypeOK'
  BY <1>1, <1>2 DEF PagesTypeOK
<1>6. RecordsStep
  <2>1. /\ {m.stats : m \in db'.metrics} \subseteq {s.id : s \in db'.stats}
        /\ {s.file : s \in db'.stats} \subseteq {f.id : f \in db'.files}
    BY <1>1 DEF Tables
  <2>2. ASSUME NEW s \in db'.stats
        PROVE  s \in db.stats /\ MetricsOf(db', s.id) = MetricsOf(db, s.id)
    <3>1. s \in db.stats /\ s \notin G
      BY <1>1
    <3>2. \A t \in G : t.id # s.id
      BY <3>1, TablesNow
    <3>3. {m \in db'.metrics : m.stats = s.id} = {m \in db.metrics : m.stats = s.id}
      BY <1>1, <3>2
    <3> QED
      BY <3>1, <3>3, MetricsSame
  <2>3. db'.files # db.files \/ run' # run =>
          \A s \in db.stats \ db'.stats : RowWith(db'.files, s.file) = {}
    BY <1>1
  <2> QED
    BY <2>1, <2>2, <2>3 DEF RecordsStep
<1> QED
  BY <1>1, <1>4, <1>5, <1>6 DEF PagesIInv

LEMMA PruneStep ==
    ASSUME PagesIInv, Prune
    PROVE  PagesStep
<1> DEFINE G == {f \in db.files : f.status = "missing"}
           d == DeleteFiles(db, G)
           I == {f.id : f \in G}
           H == {s \in db.stats : s.file \in I}
<1>1. Change(d) /\ UNCHANGED <<run, purge>>
  BY DEF Prune
<1>2. /\ Tables(d, clock + 1) /\ KeysKept(db, d) /\ d.files = db.files \ G
      /\ d.stats = {s \in db.stats : s.file \notin I}
      /\ d.metrics = {m \in db.metrics : m.stats \notin {s.id : s \in H}}
  BY TablesNow, FilesGone
<1>3. \A s \in H : RowWith(d.files, s.file) = {}
  <2>1. \A f, g \in db.files : f.id = g.id => f = g
    BY TablesNow
  <2>2. ASSUME NEW s \in H, NEW f \in d.files, f.id = s.file
        PROVE  FALSE
    <3>1. PICK g \in G : g.id = s.file
      OBVIOUS
    <3>2. f \in db.files /\ f \notin G
      BY <1>2
    <3> QED
      BY <2>1, <2>2, <3>1, <3>2
  <2> QED
    BY <2>2 DEF RowWith
<1>4. d.stats = db.stats \ H
  BY <1>2
<1> HIDE DEF d
<1>5. /\ PagesInv' /\ RunInv' /\ RecordsStep
      /\ PurgeInv' /\ purge'.stage \in {"idle", "asked"} => PagesIInv'
  <2>1. H \in SUBSET db.stats
    OBVIOUS
  <2> HIDE DEF H
  <2> QED
    BY <1>1, <1>2, <1>3, <1>4, <2>1, StatsStep
<1>6. /\ PurgeInv' /\ purge'.stage \in {"idle", "asked"}
      /\ PurgeStep
  BY <1>1 DEF PagesIInv, PagesTypeOK, PurgeInv, PurgeStep
<1> QED
  BY <1>5, <1>6 DEF PagesStep

LEMMA PurgedStep ==
    ASSUME PagesIInv, NEW by, Change(DeleteStats(db, Purged(db, by))), run' = run
    PROVE  /\ PagesInv' /\ RunInv' /\ RecordsStep
           /\ PurgeInv' /\ purge'.stage \in {"idle", "asked"} => PagesIInv'
           /\ db.stats \ db'.stats = Purged(db, by)
           /\ db' = [db EXCEPT !.stats = @ \ Purged(db, by),
                               !.metrics = {m \in @ : RowWith(db'.stats, m.stats) # {}}]
<1> DEFINE G == Purged(db, by)
           d == DeleteStats(db, G)
<1>1. G \in SUBSET db.stats
  BY DEF Purged
<1>2. /\ Tables(d, clock + 1) /\ KeysKept(db, d) /\ d.files = db.files /\ d.stats = db.stats \ G
      /\ d.metrics = {m \in db.metrics : m.stats \notin {s.id : s \in G}}
  <2> HIDE DEF G
  <2> QED
    BY <1>1, TablesNow, StatsGone
<1>3. Change(d) /\ db' = d
  BY DEF Change
<1>4. d = [db EXCEPT !.stats = @ \ G, !.metrics = {m \in @ : m.stats \notin {s.id : s \in G}}]
  BY DEF DeleteStats
<1> HIDE DEF d, G
<1>5. /\ PagesInv' /\ RunInv' /\ RecordsStep
      /\ PurgeInv' /\ purge'.stage \in {"idle", "asked"} => PagesIInv'
  BY <1>1, <1>2, <1>3, StatsStep
<1>6. db.stats \ db'.stats = G
  BY <1>1, <1>2, <1>3
<1>7. {m \in db.metrics : m.stats \notin {s.id : s \in G}}
        = {m \in db.metrics : RowWith(db'.stats, m.stats) # {}}
  <2>1. ASSUME NEW m \in db.metrics
        PROVE  m.stats \notin {s.id : s \in G} <=> RowWith(db'.stats, m.stats) # {}
    <3>1. PICK t \in db.stats : m.stats = t.id
      BY TablesNow
    <3>2. \A s \in db.stats : s.id = m.stats => s = t
      BY <3>1, TablesNow
    <3>3. m.stats \in {s.id : s \in G} <=> t \in G
      BY <1>1, <3>1, <3>2
    <3>4. RowWith(db'.stats, m.stats) # {} <=> t \in db'.stats
      BY <1>2, <1>3, <3>1, <3>2 DEF RowWith
    <3> QED
      BY <1>2, <1>3, <3>3, <3>4
  <2> QED
    BY <2>1
<1>8. db' = [db EXCEPT !.stats = @ \ G,
                       !.metrics = {m \in @ : RowWith(db'.stats, m.stats) # {}}]
  <2> DEFINE M == {m \in db.metrics : m.stats \notin {s.id : s \in G}}
             N == {m \in db.metrics : RowWith(db'.stats, m.stats) # {}}
  <2>1. db' = [db EXCEPT !.stats = db.stats \ G, !.metrics = M]
    BY <1>3, <1>4, TablesNow DEF TableNames
  <2>2. M = N
    BY <1>7
  <2> HIDE DEF M
  <2>3. db' = [db EXCEPT !.stats = db.stats \ G, !.metrics = N]
    BY <2>1, <2>2
  <2> QED
    BY <2>3, TablesNow DEF TableNames
<1> QED
  BY <1>5, <1>6, <1>8 DEF G

LEMMA ConfirmPurgeStep ==
    ASSUME PagesIInv, ConfirmPurge
    PROVE  PagesStep
<1> DEFINE by == purge.by
           G == Purged(db, by)
<1>1. /\ purge.stage = "asked" /\ Change(DeleteStats(db, G)) /\ run' = run
      /\ purge' = [stage |-> "idle", by |-> Null, counted |-> {}, told |-> Cardinality(G)]
  BY DEF ConfirmPurge
<1>2. /\ PagesInv' /\ RunInv' /\ RecordsStep
      /\ PurgeInv' /\ purge'.stage \in {"idle", "asked"} => PagesIInv'
      /\ db.stats \ db'.stats = G
      /\ db' = [db EXCEPT !.stats = @ \ G,
                          !.metrics = {m \in @ : RowWith(db'.stats, m.stats) # {}}]
  BY <1>1, PurgedStep
<1>3. PurgeInv' /\ purge'.stage = "idle" /\ purge'.told = Cardinality(G)
  BY <1>1 DEF PurgeInv
<1>4. \A s \in db.stats : s \in G <=> Meant(s, by)
  BY DEF Purged, Meant
<1>5. \A s \in purge.counted : Meant(s, by)
  BY <1>1 DEF PagesIInv, PurgeInv
<1> HIDE DEF by
<1>6. purge.counted \intersect db.stats \subseteq G
  BY <1>4, <1>5
<1>7. by.kind = "before" => \A s \in G : s.at < by.at
  BY DEF Purged
<1> HIDE DEF G
<1>8. PurgeStep
  BY <1>2, <1>3, <1>6, <1>7 DEF PurgeStep, by
<1> QED
  BY <1>2, <1>3, <1>8 DEF PagesStep

LEMMA PurgeUnaskedStep ==
    ASSUME PagesIInv, NEW o, PurgeAtOnce(o) \/ ApiPurge(o)
    PROVE  PagesStep
<1>1. /\ purge.stage = "idle" /\ run' = run
      /\ Change(DeleteStats(db, Purged(db, PurgeNow(o))))
      /\ \E x : purge' = [purge EXCEPT !.told = x]
  BY DEF PurgeAtOnce, ApiPurge
<1>2. /\ PagesInv' /\ RunInv' /\ RecordsStep
      /\ PurgeInv' /\ purge'.stage \in {"idle", "asked"} => PagesIInv'
  BY <1>1, PurgedStep
<1>3. DOMAIN purge = {"stage", "by", "counted", "told"}
  BY DEF PagesIInv, PurgeInv
<1>4. PurgeInv' /\ purge'.stage = "idle"
  BY <1>1, <1>3 DEF PurgeInv
<1>5. PurgeStep
  BY <1>1 DEF PurgeStep
<1> QED
  BY <1>2, <1>4, <1>5 DEF PagesStep

LEMMA SameInv ==
    ASSUME PagesIInv, db' = db
    PROVE  /\ client' = client => PagesInv' /\ client'.stage \in {"idle", "reading", "done"}
           /\ run' = run => RunInv' /\ run'.stage \in {"idle", "captured", "stamped"}
           /\ purge' = purge => PurgeInv' /\ purge'.stage \in {"idle", "asked"}
<1>1. client' = client => PagesInv' /\ client'.stage \in {"idle", "reading", "done"}
  BY DEF PagesIInv, PagesTypeOK, PagesInv
<1>2. run' = run => RunInv' /\ run'.stage \in {"idle", "captured", "stamped"}
  BY DEF PagesIInv, PagesTypeOK, RunInv
<1>3. purge' = purge => PurgeInv' /\ purge'.stage \in {"idle", "asked"}
  BY DEF PagesIInv, PagesTypeOK, PurgeInv
<1> QED
  BY <1>1, <1>2, <1>3

LEMMA AskPurgeStep ==
    ASSUME PagesIInv, NEW o, AskPurge(o) \/ CancelPurge
    PROVE  PagesStep
<1>1. db' = db /\ clock' = clock /\ client' = client /\ run' = run
  BY DEF AskPurge, CancelPurge
<1>2. PurgeInv' /\ purge'.stage \in {"idle", "asked"}
  <2>1. CASE AskPurge(o)
    <3> DEFINE by == PurgeNow(o)
               G == Purged(db, by)
    <3>1. purge' = [stage |-> "asked", by |-> by, counted |-> G, told |-> Null]
      BY <2>1 DEF AskPurge
    <3>2. \A s \in G : Meant(s, by)
      BY DEF Purged, Meant
    <3> HIDE DEF G, by
    <3> QED
      BY <3>1, <3>2 DEF PurgeInv
  <2>2. CASE CancelPurge
    BY <2>2 DEF CancelPurge, PurgeInv
  <2> QED
    BY <2>1, <2>2
<1> QED
  BY <1>1, <1>2, SameInv, NoWrite

-----------------------------------------------------------------------------
(* The workflow.                                                           *)

LEMMA BeginRunStep ==
    ASSUME PagesIInv, NEW f, NEW policy, BeginRun(f, policy)
    PROVE  PagesStep
<1>1. /\ db' = db /\ clock' = clock /\ client' = client /\ purge' = purge
      /\ run' = [run EXCEPT !.stage = "captured", !.capture = CaptureBefore(f, policy, f.size),
                            !.nr = @ + 1]
  BY DEF BeginRun
<1>2. RunInv
  BY DEF PagesIInv
<1> DEFINE c == CaptureBefore(f, policy, f.size)
<1>3. /\ DOMAIN run' = {"stage", "capture", "record", "nr"}
      /\ run'.stage = "captured" /\ run'.capture = c /\ run'.nr = run.nr + 1
  BY <1>1, <1>2 DEF RunInv
<1>4. /\ DOMAIN c = {"file", "policy", "before", "tracks", "target", "skipped",
                     "encoder", "phases"}
      /\ c.phases = << >>
  BY DEF CaptureBefore
<1> HIDE DEF c
<1>5. \A s \in db.stats : s.id \in Nat
  BY TablesNow
<1>6. \A s \in db.stats : s.id < run'.nr /\ s.id <= run'.nr
  BY <1>2, <1>3, <1>5 DEF RunInv
<1>7. run'.nr \in Nat /\ c.phases \in Seq({p.name : p \in PhaseMetrics})
  <2> DEFINE X == {p.name : p \in PhaseMetrics}
  <2> HIDE DEF X
  <2>1. << >> \in Seq(X)
    OBVIOUS
  <2> QED
    BY <1>2, <1>3, <1>4, <2>1 DEF RunInv, X
<1>8. RunInv'
  BY <1>1, <1>3, <1>4, <1>6, <1>7, Zenon DEF RunInv
<1> QED
  BY <1>1, <1>3, <1>8, SameInv, NoWrite

LEMMA EndPhaseStep ==
    ASSUME PagesIInv, EndPhase
    PROVE  PagesStep
<1>1. /\ db' = db /\ clock' = clock /\ client' = client /\ purge' = purge
      /\ run.stage = "captured"
  BY DEF EndPhase
<1>2. PICK phase \in PhaseMetrics : run' = [run EXCEPT !.capture = CapturePhase(@, phase)]
  BY DEF EndPhase
<1>3. RunInv
  BY DEF PagesIInv
<1> DEFINE c == CapturePhase(run.capture, phase)
           X == {p.name : p \in PhaseMetrics}
<1>4. /\ DOMAIN run' = {"stage", "capture", "record", "nr"}
      /\ run'.stage = "captured" /\ run'.capture = c /\ run'.nr = run.nr
  BY <1>1, <1>2, <1>3 DEF RunInv
<1>5. /\ DOMAIN run.capture = {"file", "policy", "before", "tracks", "target", "skipped",
                               "encoder", "phases"}
      /\ run.capture.phases \in Seq(X)
      /\ \A s \in db.stats : s.id < run.nr
  BY <1>1, <1>3 DEF RunInv
<1>6. /\ DOMAIN c = DOMAIN run.capture
      /\ c.phases = Append(run.capture.phases, phase.name)
  BY <1>5 DEF CapturePhase
<1>7. phase.name \in X
  OBVIOUS
<1> HIDE DEF c, X
<1>8. c.phases \in Seq(X)
  BY <1>5, <1>6, <1>7
<1>9. RunInv'
  BY <1>1, <1>3, <1>4, <1>5, <1>6, <1>8 DEF RunInv, X
<1> QED
  BY <1>1, <1>4, <1>9, SameInv, NoWrite

LEMMA EndRunStep ==
    ASSUME PagesIInv, EndRun
    PROVE  PagesStep
<1>1. /\ db' = db /\ clock' = clock /\ client' = client /\ purge' = purge
      /\ run.stage = "captured"
  BY DEF EndRun
<1>2. PICK o \in Outcomes :
        run' = [run EXCEPT !.stage = "stamped",
                           !.record = StatsRecord(run.capture, run.nr, clock, o.size, o.tracks, o.ok)]
  BY DEF EndRun
<1>3. RunInv
  BY DEF PagesIInv
<1> DEFINE r == StatsRecord(run.capture, run.nr, clock, o.size, o.tracks, o.ok)
<1>4. /\ DOMAIN run' = {"stage", "capture", "record", "nr"}
      /\ run'.stage = "stamped" /\ run'.capture = run.capture /\ run'.nr = run.nr
      /\ run'.record = r
  BY <1>1, <1>2, <1>3 DEF RunInv
<1>5. r.id = run.nr
  BY DEF StatsRecord
<1> HIDE DEF r
<1>6. RunInv'
  BY <1>1, <1>3, <1>4, <1>5 DEF RunInv
<1> QED
  BY <1>1, <1>4, <1>6, SameInv, NoWrite

\* The record of a run goes in with its phases.
LEMMA Persisted ==
    ASSUME PagesIInv, run.stage = "stamped", RowWith(db.files, run.record.file) # {},
           NEW d, d = Persist(db, run.record, run.capture.phases)
    PROVE  /\ Tables(d, clock + 1) /\ KeysKept(db, d)
           /\ d.files = db.files /\ d.stats = db.stats \union {run.record}
           /\ \A s \in db.stats : MetricsOf(d, s.id) = MetricsOf(db, s.id)
           /\ MetricsOf(d, run.record.id) = run.capture.phases
<1> DEFINE nr == run.nr
           rec == run.record
           done == run.capture.phases
<1>1. /\ nr \in Nat /\ rec.id = nr /\ done \in Seq({p.name : p \in PhaseMetrics})
      /\ \A s \in db.stats : s.id < nr
  BY DEF PagesIInv, RunInv
<1>2. \A s \in db.stats : s.id \in Nat /\ s.id # nr
  BY <1>1, TablesNow
<1> DEFINE M == MetricRows(nr, done)
<1>3. /\ DOMAIN d = TableNames /\ d.files = db.files /\ d.jobs = db.jobs /\ d.plans = db.plans
      /\ d.stats = db.stats \union {rec} /\ d.metrics = db.metrics \union M
  <2>1. d = InsertMetrics(InsertStats(db, rec), rec.id, done)
    BY DEF Persist
  <2>2. M = {[stats |-> rec.id, phase |-> done[i], nr |-> i] : i \in DOMAIN done}
    BY <1>1, Zenon DEF MetricRows
  <2> DEFINE c == InsertStats(db, rec)
  <2> HIDE DEF M, rec, done, nr
  <2>3. /\ DOMAIN c = TableNames /\ c.files = db.files /\ c.jobs = db.jobs
        /\ c.plans = db.plans /\ c.stats = db.stats \union {rec} /\ c.metrics = db.metrics
    BY TablesNow DEF InsertStats, TableNames
  <2> HIDE DEF c
  <2>4. d = [c EXCEPT !.metrics = @ \union M]
    BY <2>1, <2>2, Zenon DEF InsertMetrics, c
  <2> QED
    BY <2>3, <2>4 DEF TableNames
<1>4. \A m \in M : m.stats = nr
  BY DEF MetricRows
<1>5. \A m \in db.metrics : \E s \in db.stats : s.id = m.stats
  BY TablesNow
<1> HIDE DEF M, rec, done, nr
<1>6. \A m \in db.metrics : m.stats # nr
  BY <1>2, <1>5
<1>7. MetricsOf(d, rec.id) = done
  <2>1. {m \in d.metrics : m.stats = nr} = M
    BY <1>3, <1>4, <1>6
  <2> QED
    BY <1>1, <2>1, MetricsRead DEF M
<1>8. \A s \in db.stats : MetricsOf(d, s.id) = MetricsOf(db, s.id)
  <2>1. ASSUME NEW s \in db.stats
        PROVE  MetricsOf(d, s.id) = MetricsOf(db, s.id)
    <3>1. {m \in d.metrics : m.stats = s.id} = {m \in db.metrics : m.stats = s.id}
      BY <1>2, <1>3, <1>4
    <3> QED
      BY <3>1, MetricsSame
  <2> QED
    BY <2>1
<1>9. Tables(d, clock + 1)
  <2>1. /\ Keyed(db.files) /\ Keyed(db.jobs) /\ Keyed(db.plans) /\ Keyed(db.stats)
        /\ clock \in Nat
    BY TablesNow DEF Tables
  <2>2. Keyed(d.stats)
    <3>1. rec.id \in Nat /\ \A s \in db.stats : s.id # rec.id
      BY <1>1, <1>2
    <3>2. Keyed(db.stats \union {rec})
      BY <2>1, <3>1, KeyedAndRow
    <3> QED
      BY <1>3, <3>2
  <2>3. \A j \in db.jobs : JobRow(j, clock + 1)
    BY <2>1, TablesNow, LaterJobs
  <2>4. {s.file : s \in d.stats} \subseteq {f.id : f \in d.files}
    <3>1. \E f \in db.files : f.id = rec.file
      BY DEF RowWith, rec
    <3> QED
      BY <1>3, <3>1, TablesNow
  <2>5. {m.stats : m \in d.metrics} \subseteq {s.id : s \in d.stats}
    BY <1>1, <1>3, <1>4, <1>5
  <2>6. /\ \A f \in db.files : FileRow(f)
        /\ \A p \in db.plans : PlanRow(p)
    BY TablesNow
  <2> QED
    BY <1>3, <2>1, <2>2, <2>3, <2>4, <2>5, <2>6, Zenon DEF Tables, TableNames
<1>10. KeysKept(db, d)
  <2>1. /\ \A f, g \in db.files : f.id = g.id => f = g
        /\ \A j, k \in db.jobs : j.id = k.id => j = k
        /\ \A p, q \in db.plans : p.id = q.id => p = q
    BY TablesNow
  <2> QED
    BY <1>3, <2>1, Zenon DEF KeysKept
<1> QED
  BY <1>3, <1>7, <1>8, <1>9, <1>10 DEF rec, done

LEMMA PersistRunStep ==
    ASSUME PagesIInv, PersistRun
    PROVE  PagesStep
<1> DEFINE d == Persist(db, run.record, run.capture.phases)
<1>1. /\ run.stage = "stamped" /\ Change(d) /\ purge' = purge
      /\ run' = [run EXCEPT !.stage = "idle", !.capture = Null, !.record = Null]
  BY DEF PersistRun
<1>2. RunInv /\ PagesTypeOK /\ PurgeInv
  BY DEF PagesIInv
<1>3. DOMAIN run' = DOMAIN run /\ run'.stage = "idle" /\ run'.nr = run.nr
  BY <1>1, <1>2 DEF RunInv
<1>4. /\ Tables(d, clock + 1) /\ KeysKept(db, d) /\ d.files = db.files
      /\ \A s \in db.stats : s \in d.stats /\ MetricsOf(d, s.id) = MetricsOf(db, s.id)
      /\ \A s \in d.stats :
           s \in db.stats \/ (s = run.record /\ MetricsOf(d, s.id) = run.capture.phases)
  <2>1. CASE RowWith(db.files, run.record.file) = {}
    <3>1. d = db
      BY <2>1, Zenon DEF Persist
    <3> HIDE DEF d
    <3>2. Tables(d, clock + 1) /\ KeysKept(db, d)
      BY <3>1, TablesNow, SameTables
    <3> QED
      BY <3>1, <3>2
  <2>2. CASE RowWith(db.files, run.record.file) # {}
    <3> HIDE DEF d
    <3>1. /\ Tables(d, clock + 1) /\ KeysKept(db, d)
          /\ d.files = db.files /\ d.stats = db.stats \union {run.record}
          /\ \A s \in db.stats : MetricsOf(d, s.id) = MetricsOf(db, s.id)
          /\ MetricsOf(d, run.record.id) = run.capture.phases
      BY <1>1, <2>2, Persisted DEF d
    <3> QED
      BY <3>1
  <2> QED
    BY <2>1, <2>2
<1> HIDE DEF d
<1>5. /\ clock' \in 1 .. MaxClock /\ Tables(db', clock')
      /\ client'.stage \in {"idle", "reading", "done"}
      /\ PagesInv' /\ db' = d
  BY <1>1, <1>4, PagesWrite
<1>6. PagesTypeOK'
  BY <1>1, <1>2, <1>3, <1>5 DEF PagesTypeOK
<1>7. RunInv'
  <2>1. run.record.id = run.nr /\ run.nr \in Nat /\ \A s \in db.stats : s.id <= run.nr
    BY <1>1, <1>2 DEF RunInv
  <2>2. \A s \in d.stats : s.id <= run.nr
    BY <1>4, <2>1
  <2> QED
    BY <1>2, <1>3, <1>5, <2>1, <2>2 DEF RunInv
<1>8. PurgeInv'
  BY <1>1, <1>2 DEF PurgeInv
<1>9. RecordsStep
  <2>1. /\ {m.stats : m \in db'.metrics} \subseteq {s.id : s \in db'.stats}
        /\ {s.file : s \in db'.stats} \subseteq {f.id : f \in db'.files}
    BY <1>5 DEF Tables
  <2>2. db.stats \ db'.stats = {}
    BY <1>4, <1>5
  <2> QED
    BY <1>4, <1>5, <2>1, <2>2 DEF RecordsStep
<1>10. PurgeStep
  BY <1>1 DEF PurgeStep
<1> QED
  BY <1>5, <1>6, <1>7, <1>8, <1>9, <1>10 DEF PagesStep, PagesIInv

-----------------------------------------------------------------------------
(* The browser.                                                            *)

\* What an answer adds to what the browser has seen.
LEMMA PageShown ==
    ASSUME PagesIInv, NEW w \in Walks, NEW offset \in Nat, NEW r \in ListRows(db, w),
           offset <= Rank(ListOrder(db, w), ListRows(db, w), r),
           \/ r.id \notin Range(Ids(Fetched(db, w, offset).rows))
           \/ Fetched(db, w, offset).total <= offset + w.size
    PROVE  \/ r.id \in Range(Ids(Fetched(db, w, offset).rows))
           \/ /\ offset + w.size <= Rank(ListOrder(db, w), ListRows(db, w), r)
              /\ offset + w.size < Fetched(db, w, offset).total
<1> DEFINE S == ListRows(db, w)
           k == Rank(ListOrder(db, w), S, r)
           total == Fetched(db, w, offset).total
           shown == Range(Ids(Fetched(db, w, offset).rows))
<1>1. clock \in Nat /\ clock <= MaxClock /\ Tables(db, clock)
  BY TablesAssumption DEF PagesIInv, PagesTypeOK
<1>2. k \in Nat /\ k < Cardinality(S) /\ Cardinality(S) \in Nat
  BY <1>1, ListTypes, ListOrders, RankBounds
<1>3. /\ offset <= k /\ k < offset + w.size => r.id \in shown
      /\ total \in Nat
      /\ Cardinality(S) <= total \/ Cardinality(S) <= offset
  BY <1>1, FetchedRows
<1>4. w.size \in Nat \ {0}
  BY WalksAssumption, PagesAssumption
<1> HIDE DEF S, k, total, shown
<1>5. offset <= k
  BY DEF k, S
<1>6. r.id \notin shown => offset + w.size <= k /\ offset + w.size < total
  BY <1>2, <1>3, <1>4, <1>5
<1> QED
  BY <1>6 DEF S, k, total, shown

LEMMA OpenListStep ==
    ASSUME PagesIInv, NEW w \in Walks, OpenList(w)
    PROVE  PagesStep
<1> DEFINE total == Fetched(db, w, 0).total
           shown == Range(Ids(Fetched(db, w, 0).rows))
<1>1. /\ db' = db /\ clock' = clock /\ run' = run /\ purge' = purge
      /\ client' = [stage |-> "reading", walk |-> w, offset |-> 0, total |-> total,
                    seen |-> shown, watch |-> DOMAIN Places(db, w), sunk |-> FALSE]
  BY DEF OpenList
<1>2. clock \in Nat /\ clock <= MaxClock /\ Tables(db, clock)
  BY TablesAssumption DEF PagesIInv, PagesTypeOK
<1>3. DOMAIN Places(db, w) = {r.id : r \in ListRows(db, w)}
  BY <1>2, PlacesOf
<1>4. total \in Nat
  BY <1>2, FetchedRows
<1>5. ASSUME NEW r \in ListRows(db, w), r.id \notin shown
      PROVE  /\ w.size <= Rank(ListOrder(db, w), ListRows(db, w), r)
             /\ w.size < total
  <2>1. Rank(ListOrder(db, w), ListRows(db, w), r) \in Nat
    BY <1>2, ListTypes, ListOrders, RankBounds
  <2>2. w.size \in Nat /\ 0 + w.size = w.size
    BY WalksAssumption, PagesAssumption
  <2>3. 0 <= Rank(ListOrder(db, w), ListRows(db, w), r)
    BY <2>1
  <2> QED
    BY <1>5, <2>2, <2>3, PageShown
<1>6. w.size \in Nat
  BY WalksAssumption, PagesAssumption
<1> HIDE DEF total, shown
<1>7. PagesInv'
  <2>1. /\ DOMAIN client' = {"stage", "walk", "offset", "total", "seen", "watch", "sunk"}
        /\ client'.sunk = FALSE /\ client'.stage = "reading" /\ client'.walk = w
        /\ client'.offset = 0 /\ client'.total = total /\ client'.seen = shown
        /\ client'.watch = {r.id : r \in ListRows(db, w)}
    BY <1>1, <1>3
  <2>2. ASSUME NEW id \in client'.watch \ client'.seen
        PROVE  \E r \in ListRows(db, w) :
                 r.id = id /\ 0 + w.size <= Rank(ListOrder(db, w), ListRows(db, w), r)
    <3>1. PICK r \in ListRows(db, w) : r.id = id
      BY <2>1
    <3>2. w.size <= Rank(ListOrder(db, w), ListRows(db, w), r) /\ 0 + w.size = w.size
      BY <1>5, <1>6, <2>1, <3>1
    <3> QED
      BY <3>1, <3>2
  <2>3. total <= 0 + w.size => client'.watch \subseteq client'.seen
    BY <1>4, <1>5, <1>6, <2>1
  <2> QED
    BY <1>1, <1>4, <2>1, <2>2, <2>3 DEF PagesInv
<1>8. client'.stage = "reading"
  BY <1>1
<1> QED
  BY <1>1, <1>7, <1>8, SameInv, NoWrite

LEMMA NextPageStep ==
    ASSUME PagesIInv, NextPage
    PROVE  PagesStep
<1> DEFINE w == client.walk
           offset == client.offset + client.walk.size
           total == Fetched(db, w, offset).total
           shown == Range(Ids(Fetched(db, w, offset).rows))
<1>1. /\ db' = db /\ clock' = clock /\ run' = run /\ purge' = purge
      /\ client.stage = "reading"
      /\ client' = [client EXCEPT !.offset = @ + client.walk.size, !.total = total,
                                  !.seen = @ \union shown]
  BY DEF NextPage
<1>2. clock \in Nat /\ clock <= MaxClock /\ Tables(db, clock) /\ PagesInv
  BY TablesAssumption DEF PagesIInv, PagesTypeOK
<1>3. /\ DOMAIN client = {"stage", "walk", "offset", "total", "seen", "watch", "sunk"}
      /\ client.sunk \in BOOLEAN
      /\ w \in Walks /\ client.offset \in Nat
      /\ ~client.sunk => \A id \in client.watch \ client.seen : \E r \in ListRows(db, w) :
           r.id = id /\ offset <= Rank(ListOrder(db, w), ListRows(db, w), r)
  BY <1>1, <1>2 DEF PagesInv
<1>4. w.size \in Nat /\ offset \in Nat
  BY <1>3, WalksAssumption, PagesAssumption
<1> HIDE DEF w, offset, total, shown
<1>5. total \in Nat
  BY <1>2, <1>3, <1>4, FetchedRows DEF total
<1>6. ASSUME NEW r \in ListRows(db, w),
             offset <= Rank(ListOrder(db, w), ListRows(db, w), r), r.id \notin shown
      PROVE  /\ offset + w.size <= Rank(ListOrder(db, w), ListRows(db, w), r)
             /\ offset + w.size < total
  BY <1>3, <1>4, <1>6, PageShown DEF total, shown
<1>7. PagesInv'
  <2>1. /\ DOMAIN client' = DOMAIN client
        /\ client'.sunk = client.sunk /\ client'.stage = "reading" /\ client'.walk = w
        /\ client'.offset = offset /\ client'.total = total
        /\ client'.seen = client.seen \union shown /\ client'.watch = client.watch
    BY <1>1, <1>3 DEF w, offset
  <2>2. ASSUME ~client.sunk, NEW id \in client'.watch \ client'.seen
        PROVE  \E r \in ListRows(db, w) :
                 /\ r.id = id /\ offset + w.size <= Rank(ListOrder(db, w), ListRows(db, w), r)
                 /\ offset + w.size < total
    <3>1. id \in client.watch \ client.seen /\ id \notin shown
      BY <2>1
    <3>2. PICK r \in ListRows(db, w) :
            r.id = id /\ offset <= Rank(ListOrder(db, w), ListRows(db, w), r)
      BY <1>3, <2>2, <3>1
    <3> QED
      BY <1>6, <3>1, <3>2
  <2>3. ASSUME ~client.sunk, total <= offset + w.size, NEW id \in client'.watch
        PROVE  id \in client'.seen
    <3>1. ASSUME id \notin client'.seen PROVE FALSE
      <4>1. offset + w.size < total
        BY <2>2, <2>3, <3>1
      <4> QED
        BY <1>4, <1>5, <2>3, <4>1
    <3> QED
      BY <3>1
  <2> QED
    BY <1>1, <1>3, <1>4, <1>5, <2>1, <2>2, <2>3 DEF PagesInv
<1>8. client'.stage = "reading"
  BY <1>1, <1>3
<1> QED
  BY <1>1, <1>7, <1>8, SameInv, NoWrite

LEMMA LastPageStep ==
    ASSUME PagesIInv, LastPage
    PROVE  PagesStep
<1>1. /\ db' = db /\ clock' = clock /\ run' = run /\ purge' = purge
      /\ client.stage = "reading"
      /\ client.offset + client.walk.size >= client.total
      /\ client' = [client EXCEPT !.stage = "done"]
  BY DEF LastPage
<1>2. PagesInv
  BY DEF PagesIInv
<1>3. /\ client.walk \in Walks /\ client.offset \in Nat /\ client.total \in Nat
      /\ ~client.sunk /\ client.total <= client.offset + client.walk.size
           => client.watch \subseteq client.seen
  BY <1>1, <1>2 DEF PagesInv
<1>4. client.walk.size \in Nat
  BY <1>3, WalksAssumption, PagesAssumption
<1>5. ~client.sunk => client.watch \subseteq client.seen
  BY <1>1, <1>3, <1>4
<1>6. /\ DOMAIN client' = DOMAIN client /\ client'.stage = "done"
      /\ client'.sunk = client.sunk /\ client'.watch = client.watch
      /\ client'.seen = client.seen
  BY <1>1, <1>2 DEF PagesInv
<1>7. PagesInv'
  BY <1>2, <1>5, <1>6 DEF PagesInv
<1> QED
  BY <1>1, <1>6, <1>7, SameInv, NoWrite

-----------------------------------------------------------------------------
(* The specification.                                                      *)

LEMMA PagesStutter ==
    ASSUME PagesIInv, UNCHANGED pagesVars
    PROVE  PagesIInv'
BY DEF pagesVars, PagesIInv, PagesTypeOK, PagesInv, RunInv, PurgeInv

LEMMA EachPagesStep ==
    ASSUME PagesIInv, PagesNext
    PROVE  PagesStep
<1>1. CASE \E path \in Paths : Scan(path)
  BY <1>1, ScanStep
<1>2. CASE \E f \in db.files : MarkMissing(f)
  BY <1>2, MarkMissingStep
<1>3. CASE Prune
  BY <1>3, PruneStep
<1>4. CASE \E f \in db.files : \E i \in TracksOf(f, "audio") : Transcribe(f, i) \/ Analyze(f, i)
  BY <1>4, TrackStep
<1>5. CASE Snapshot
  BY <1>5, SnapshotStep
<1>6. CASE \E j \in db.jobs : StartJob(j) \/ EndJob(j)
  BY <1>6, RunningJobStep
<1>7. CASE \E f \in db.files : AddJob(f)
  BY <1>7, AddJobStep
<1>8. CASE PurgeJobs
  BY <1>8, PurgeJobsStep
<1>9. CASE \E p \in db.plans : DecidePlan(p)
  BY <1>9, DecidePlanStep
<1>10. CASE \E f \in db.files, policy \in {s.policy : s \in InitialDb.stats} : BeginRun(f, policy)
  BY <1>10, BeginRunStep
<1>11. CASE EndPhase
  BY <1>11, EndPhaseStep
<1>12. CASE EndRun
  BY <1>12, EndRunStep
<1>13. CASE PersistRun
  BY <1>13, PersistRunStep
<1>14. CASE \E o \in PurgeOptions : AskPurge(o) \/ PurgeAtOnce(o) \/ ApiPurge(o)
  BY <1>14, AskPurgeStep, PurgeUnaskedStep
<1>15. CASE ConfirmPurge
  BY <1>15, ConfirmPurgeStep
<1>16. CASE CancelPurge
  BY <1>16, AskPurgeStep
<1>17. CASE \E w \in Walks : OpenList(w)
  BY <1>17, OpenListStep
<1>18. CASE NextPage
  BY <1>18, NextPageStep
<1>19. CASE LastPage
  BY <1>19, LastPageStep
<1> QED
  BY <1>1, <1>2, <1>3, <1>4, <1>5, <1>6, <1>7, <1>8, <1>9, <1>10, <1>11, <1>12, <1>13,
     <1>14, <1>15, <1>16, <1>17, <1>18, <1>19 DEF PagesNext

\* The inductive invariant of LibraryPages.
LEMMA PagesInvariant == PagesSpec => []PagesIInv
<1>1. PagesInit => PagesIInv
  BY PagesInitially
<1>2. PagesIInv /\ [PagesNext]_pagesVars => PagesIInv'
  <2>1. PagesIInv /\ PagesNext => PagesIInv'
    BY EachPagesStep DEF PagesStep
  <2> QED
    BY <2>1, PagesStutter
<1> QED
  BY <1>1, <1>2, PTL DEF PagesSpec

\* The pages of a list show every row that was on it at the start and stayed there
\* untouched, whatever is scanned, added, finished or purged between two requests.
THEOREM PagesKeep == PagesSpec => []PagesKeepRows
<1>1. PagesIInv => PagesKeepRows
  BY DEF PagesIInv, PagesInv, PagesKeepRows
<1> QED
  BY <1>1, PagesInvariant, PTL

\* The statistics of a run are written with all its phases or not at all, and what is
\* written of films or runs takes only the statistics of films that go.
THEOREM RecordsAreWhole == PagesSpec => RecordsWhole
<1>1. PagesIInv /\ [PagesNext]_pagesVars => [RecordsStep]_pagesVars
  BY EachPagesStep DEF PagesStep
<1>2. PagesSpec => [][RecordsStep]_pagesVars
  BY <1>1, PagesInvariant, PTL DEF PagesSpec
<1> QED
  BY <1>2, PTL DEF RecordsWhole, RecordsStep

\* A confirmed purge tells how many rows it deleted, deletes those it had counted that
\* are still there, and of the others only what it was asked to delete.
THEOREM PurgesTell == PagesSpec => PurgeTells
<1>1. PagesIInv /\ [PagesNext]_pagesVars => [PurgeStep]_pagesVars
  BY EachPagesStep DEF PagesStep
<1>2. PagesSpec => [][PurgeStep]_pagesVars
  BY <1>1, PagesInvariant, PTL DEF PagesSpec
<1> QED
  BY <1>2, PTL DEF PurgeTells, PurgeStep
=============================================================================
