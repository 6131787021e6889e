--------------------------- MODULE LibraryProofs ---------------------------
(***************************************************************************)
(* Theorems about Library, for every set of files, scan scopes, plans and  *)
(* requests, every batch size and every number of scans, workflows, prunes *)
(* and events on the disk: what the rows tell of the files, what keeps its *)
(* row, and what the answers to requests tell of plans and jobs.           *)
(***************************************************************************)
EXTENDS Library, TLAPS

\* The database as it is committed, and as an open transaction sees it.
Sights == IF txn = None THEN {db} ELSE {db, txn.db}

ScanStages == {"idle", "discover", "lookup", "missing", "begin", "persist", "end"}
ProcStages == {"idle", "introspect", "stat", "write"}
PruneStages == {"idle", "create", "select", "begin", "delete", "complete"}
Answers == {"idle", "begin", "decide", "insert", "commit", "refuse", "done", "refused", "failed"}
Holding == {"begin", "decide", "insert", "commit", "refuse"}

DiskType ==
    /\ content \in [Paths -> 1..MaxVersion] /\ present \subseteq Paths
    /\ history \in [went : SUBSET Paths, torn : SUBSET (Paths \X (1..MaxVersion) \X (0..MaxVersion)),
                    split : SUBSET Plans, quiet : BOOLEAN]
BaseType == db \in Databases /\ txn \in [conn : Conns, db : Databases] \cup {None}
ScanType ==
    /\ scan \in [pc : ScanStages, scope : SUBSET Paths, found : [Paths -> 0..MaxVersion],
                 todo : SUBSET Paths, batch : 0..BatchSize, interrupted : BOOLEAN]
    /\ scan.todo \subseteq scan.scope
    /\ scan.pc # "idle" => scan.scope \in Scopes
    /\ \A f \in scan.todo : scan.found[f] # 0
    /\ scan.pc \in {"discover", "lookup"} => scan.todo = {}
    /\ scan.pc = "persist" => scan.batch < BatchSize
ProcType ==
    /\ proc \in [pc : ProcStages, file : Paths \cup {None}, tracks : 0..MaxVersion, stamp : 0..MaxVersion]
    /\ proc.pc # "idle" => proc.file \in Paths
    /\ proc.pc = "write" => proc.stamp \in 1..MaxVersion
PruneType ==
    prune \in [pc : PruneStages, conn : {"worker", "pool"}, missing : SUBSET Paths]
ApiType == req \in [Requests -> Answers] /\ lock \in Requests \cup {None}

\* Only a scan that persists, or has just ended, has a transaction.
ScanHolds ==
    /\ scan.pc = "persist" => InTxn("scan")
    /\ InTxn("scan") => scan.pc \in {"persist", "end"}

\* A file that has always been there is not missing in any sight of the database, nor to
\* a prune, and a transaction does not lose its row.
Kept(d) == \A f \in Paths \ history.went : d.files[f] # None => d.files[f].status # "missing"
KeptInv ==
    /\ Paths \ history.went \subseteq present
    /\ prune.missing \subseteq history.went
    /\ \A d \in Sights : Kept(d)
    /\ txn # None =>
         \A f \in Paths \ history.went : db.files[f] # None => txn.db.files[f] # None

\* A good row has the time and size of a version that is not newer than its tracks.
SoundRow(f, row, version, torn) ==
    row # None /\ row.status = "ok" /\ <<f, row.stamp, row.tracks>> \notin torn
      => row.stamp <= row.tracks /\ row.tracks <= version
Sound(d) == \A f \in Paths : SoundRow(f, d.files[f], content[f], history.torn)
SoundInv ==
    /\ \A d \in Sights : Sound(d)
    /\ \A f \in Paths : scan.found[f] <= content[f]
    /\ proc.pc \in {"stat", "write"} => proc.tracks <= content[proc.file]
    /\ proc.pc = "write" => proc.tracks <= proc.stamp /\ proc.stamp <= content[proc.file]

\* Only a scan has rows of files in a transaction.
FilesCommitted == txn # None /\ txn.conn # "scan" => txn.db.files = db.files

\* What an undisturbed scan has achieved.
Seen(f) == View("scan").files[f] # None /\ View("scan").files[f].stamp = content[f]
Unseen(f) == View("scan").files[f] = None \/ View("scan").files[f].status = "missing"
Past(stages) == scan.pc \in stages \/ (scan.pc = "end" /\ ~scan.interrupted)
ScanInv ==
    history.quiet =>
      /\ Past({"lookup", "missing", "begin", "persist"}) =>
           \A f \in scan.scope : scan.found[f] = IF f \in present THEN content[f] ELSE 0
      /\ Past({"missing", "begin", "persist"}) =>
           \A f \in (scan.scope \cap present) \ scan.todo : Seen(f)
      /\ Past({"begin", "persist"}) =>
           \A f \in scan.scope \ present : Unseen(f)
      /\ Past({}) => scan.todo = {}

Types == DiskType /\ BaseType /\ ScanType /\ ProcType /\ PruneType /\ ApiType /\ ScanHolds

RowsInv == Types /\ KeptInv /\ SoundInv /\ FilesCommitted /\ ScanInv

\* At most one request is under way, and it has the lock.
LockInv == \A r \in Requests : req[r] \in Holding => lock = r

\* The plans and jobs, committed and in the transaction.
JobsOK(d) == \A p \in Plans : d.jobs[p] <= 1 /\ (d.jobs[p] = 1 => d.plans[p] = "approved")
Whole(d, S) == \A p \in Plans \ S : d.plans[p] = "approved" => d.jobs[p] = 1
Inserting == {r \in Requests : req[r] = "insert"}
PlansInv ==
    /\ JobsOK(db) /\ Whole(db, history.split)
    /\ txn # None =>
         /\ JobsOK(txn.db)
         /\ Whole(txn.db, history.split \cup Split(txn.conn))
         /\ \A p \in Plans : db.plans[p] # "pending" => txn.db.plans[p] = db.plans[p]
         /\ txn.conn # "pool" => txn.db.plans = db.plans /\ txn.db.jobs = db.jobs

\* What the request that is under way has done.
RequestInv ==
    \A r \in Requests :
        /\ req[r] = "insert" => /\ r.kind = "approve"
                                /\ View("pool").plans[r.plan] = "approved"
                                /\ View("pool").jobs[r.plan] = 0
        /\ req[r] = "commit" => View("pool").plans[r.plan] = Decision(r)

AnswersInv == LockInv /\ PlansInv /\ RequestInv


----------------------------------------------------------------------------
(* The operators on databases.                                             *)

\* A row is written, and nothing else.
LEMMA SetFileFacts ==
  ASSUME NEW d \in Databases, NEW f \in Paths, NEW row \in Row
  PROVE  /\ SetFile(d, f, row) \in Databases
         /\ SetFile(d, f, row).files = [d.files EXCEPT ![f] = row]
         /\ SetFile(d, f, row).plans = d.plans /\ SetFile(d, f, row).jobs = d.jobs
BY DEF SetFile, Databases

\* Rows are deleted, and nothing else.
LEMMA DeleteFilesFacts ==
  ASSUME NEW d \in Databases, NEW S
  PROVE  /\ DeleteFiles(d, S) \in Databases
         /\ \A f \in Paths : DeleteFiles(d, S).files[f] = IF f \in S THEN None ELSE d.files[f]
         /\ DeleteFiles(d, S).plans = d.plans /\ DeleteFiles(d, S).jobs = d.jobs
BY DEF DeleteFiles, Databases

\* Rows are marked missing, and nothing else.
LEMMA MarkFilesFacts ==
  ASSUME NEW d \in Databases, NEW S, \A f \in S : d.files[f] # None
  PROVE  /\ MarkFiles(d, S) \in Databases
         /\ \A f \in Paths : MarkFiles(d, S).files[f] =
              IF f \in S THEN [d.files[f] EXCEPT !.status = "missing"] ELSE d.files[f]
         /\ MarkFiles(d, S).plans = d.plans /\ MarkFiles(d, S).jobs = d.jobs
<1>1. ASSUME NEW f \in Paths, f \in S PROVE [d.files[f] EXCEPT !.status = "missing"] \in Row
  BY <1>1 DEF Databases, Row, Statuses
<1>2. [f \in Paths |-> IF f \in S THEN [d.files[f] EXCEPT !.status = "missing"] ELSE d.files[f]]
        \in [Paths -> Row \cup {None}]
  BY <1>1 DEF Databases
<1>3. MarkFiles(d, S) = [files |-> [f \in Paths |-> IF f \in S THEN [d.files[f] EXCEPT !.status = "missing"]
                                                     ELSE d.files[f]],
                         plans |-> d.plans, jobs |-> d.jobs]
  BY DEF MarkFiles, Databases
<1>4. QED
  BY <1>2, <1>3 DEF Databases

\* A transaction is no None, and tells who has it and what it sees.
LEMMA TxnFacts ==
  ASSUME NEW c \in Conns, NEW d \in Databases
  PROVE  /\ [conn |-> c, db |-> d] \in [conn : Conns, db : Databases]
         /\ [conn |-> c, db |-> d] # None
BY NoneAssumption

----------------------------------------------------------------------------
(* Types.                                                                  *)

LEMMA InitTypes == Init => Types
<1> SUFFICES ASSUME Init PROVE Types
  OBVIOUS
<1> USE LibraryAssumption, NoneAssumption DEF Init
<1>1. DiskType /\ BaseType
  BY DEF DiskType, BaseType, Databases
<1>2. ScanType /\ ProcType /\ PruneType /\ ApiType
  BY DEF ScanType, ProcType, PruneType, ApiType, NoScan, NoProc, NoPrune, ScanStages, ProcStages,
         PruneStages, Answers
<1>3. ScanHolds
  BY DEF ScanHolds, InTxn, NoScan
<1>4. QED
  BY <1>1, <1>2, <1>3 DEF Types

\* Who takes a step, and what it leaves alone.
DiskStep ==
    /\ (\E f \in Paths : Replace(f) \/ BringBack(f)) \/ \E S \in SUBSET Paths : TakeAway(S)
    /\ UNCHANGED <<db, txn, scan, proc, prune, req, lock>>
ScanStep ==
    /\ (\E S \in Scopes : StartScan(S)) \/ Scanner \/ Interrupt \/ KillScan
    /\ UNCHANGED <<content, present, proc, prune, req, lock>>
ProcStep ==
    /\ (\E f \in Paths : Rework(f)) \/ Workflow \/ WriteTimesOut
    /\ UNCHANGED <<present, scan, prune, req, lock>>
PruneStep ==
    /\ (\E c \in {"worker", "pool"} : StartPrune(c)) \/ Pruner
    /\ UNCHANGED <<content, present, scan, proc, req, lock>>
ApiStep ==
    /\ \E r \in Requests : Acquire(r) \/ Request(r)
    /\ UNCHANGED <<content, present, scan, proc, prune, history>>

LEMMA WhoSteps ==
  ASSUME [Next]_vars
  PROVE  DiskStep \/ ScanStep \/ ProcStep \/ PruneStep \/ ApiStep \/ UNCHANGED vars
<1> USE DEF disk, base, api
<1>1. ASSUME NEW f \in Paths, Replace(f) \/ BringBack(f) PROVE DiskStep
  BY <1>1 DEF DiskStep, Replace, BringBack
<1>2. ASSUME NEW S \in SUBSET Paths, TakeAway(S) PROVE DiskStep
  BY <1>2 DEF DiskStep, TakeAway
<1>3. ASSUME NEW S \in Scopes, StartScan(S) PROVE ScanStep
  BY <1>3 DEF ScanStep, StartScan
<1>4. CASE Interrupt \/ KillScan
  BY <1>4 DEF ScanStep, Interrupt, KillScan
<1>5. CASE Scanner
  BY <1>5 DEF ScanStep, Scanner, Persist, Lookup, MarkMissing, Discover, BeginBatch, EndScan
<1>6. ASSUME NEW f \in Paths, Rework(f) PROVE ProcStep
  BY <1>6 DEF ProcStep, Rework
<1>7. CASE Workflow \/ WriteTimesOut
  BY <1>7 DEF ProcStep, Workflow, Introspect, Stat, WriteTracks, WriteTimesOut
<1>8. ASSUME NEW c \in {"worker", "pool"}, StartPrune(c) PROVE PruneStep
  BY <1>8 DEF PruneStep, StartPrune
<1>9. CASE Pruner
  BY <1>9 DEF PruneStep, Pruner, CreatePruneJob, SelectMissing, BeginPrune, DeleteMissing, CompletePrune
<1>10. ASSUME NEW r \in Requests, Acquire(r) PROVE ApiStep
  BY <1>10 DEF ApiStep, Acquire
<1>11. ASSUME NEW r \in Requests, Request(r) PROVE ApiStep
  BY <1>11 DEF ApiStep, Request, BeginRequest, Decide, InsertJob, CommitRequest, StatementFails, Fail
<1>12. QED
  BY <1>1, <1>2, <1>3, <1>4, <1>5, <1>6, <1>7, <1>8, <1>9, <1>10, <1>11 DEF Next, Environment

\* A new version of a file is newer.
LEMMA NewerFacts ==
  ASSUME content \in [Paths -> 1..MaxVersion], NEW f \in Paths, content[f] < MaxVersion,
         content' = [content EXCEPT ![f] = @ + 1]
  PROVE  /\ content' \in [Paths -> 1..MaxVersion]
         /\ \A g \in Paths : content[g] <= content'[g]
<1>1. \A g \in Paths : content[g] \in 1..MaxVersion
  OBVIOUS
<1>2. content[f] + 1 \in 1..MaxVersion
  BY <1>1, LibraryAssumption
<1>3. content' \in [Paths -> 1..MaxVersion]
  BY <1>2
<1>4. ASSUME NEW g \in Paths PROVE content[g] <= content'[g]
  <2>1. CASE g = f
    BY <2>1, <1>1, LibraryAssumption
  <2>2. CASE g # f
    BY <2>2, <1>1, LibraryAssumption
  <2>3. QED
    BY <2>1, <2>2
<1>5. QED
  BY <1>3, <1>4

LEMMA DiskTypeStep ==
  ASSUME Types, [Next]_vars
  PROVE  DiskType'
<1> USE DEF Types, DiskType
<1>1. CASE DiskStep
  <2>1. ASSUME NEW f \in Paths, Replace(f) PROVE DiskType'
    BY <2>1, NewerFacts DEF Replace, Disturb
  <2>2. QED
    BY <1>1, <2>1 DEF DiskStep, BringBack, TakeAway, Disturb
<1>2. CASE ScanStep
  <2>1. UNCHANGED history \/ Disturb \/ history' = [history EXCEPT !.quiet = TRUE]
    BY <1>2 DEF ScanStep, StartScan, Scanner, Interrupt, KillScan, Persist, Lookup, MarkMissing,
                Discover, BeginBatch, EndScan
  <2>2. QED
    BY <1>2, <2>1 DEF ScanStep, Disturb
<1>3. ASSUME NEW f \in Paths, Rework(f), UNCHANGED present PROVE DiskType'
  BY <1>3, NewerFacts DEF Rework, Disturb
<1>4. CASE WriteTracks /\ UNCHANGED present
  <2>1. proc.pc = "write" /\ proc.file \in Paths /\ proc.stamp \in 1..MaxVersion
        /\ proc.tracks \in 0..MaxVersion
    BY <1>4 DEF WriteTracks, ProcType
  <2>2. UNCHANGED <<content, present>>
        /\ history' = [history EXCEPT !.quiet = FALSE,
                         !.torn = IF proc.stamp = proc.tracks THEN @
                                  ELSE @ \cup {<<proc.file, proc.stamp, proc.tracks>>}]
    BY <1>4 DEF WriteTracks, disk
  <2>3. (IF proc.stamp = proc.tracks THEN history.torn
         ELSE history.torn \cup {<<proc.file, proc.stamp, proc.tracks>>})
          \in SUBSET (Paths \X (1..MaxVersion) \X (0..MaxVersion))
    BY <2>1
  <2>4. QED
    BY <2>2, <2>3
<1>5. CASE (Introspect \/ Stat \/ WriteTimesOut) /\ UNCHANGED present
  BY <1>5 DEF Introspect, Stat, WriteTimesOut, disk
<1>6. CASE PruneStep
  <2>1. UNCHANGED history \/ Cut(prune.conn)
    BY <1>6 DEF PruneStep, StartPrune, Pruner, CreatePruneJob, SelectMissing, BeginPrune, DeleteMissing,
                CompletePrune
  <2>2. Split(prune.conn) \subseteq Plans
    BY LibraryAssumption DEF Split
  <2>3. QED
    BY <1>6, <2>1, <2>2 DEF PruneStep, Cut
<1>7. CASE ApiStep \/ UNCHANGED vars
  BY <1>7 DEF ApiStep, vars
<1>8. QED
  BY <1>1, <1>2, <1>3, <1>4, <1>5, <1>6, <1>7, WhoSteps DEF ProcStep, Workflow

\* The row that a scan writes.
ScanRow(f, readable, hashed) ==
    [stamp  |-> scan.found[f],
     tracks |-> IF readable THEN content[f]
                ELSE IF txn.db.files[f] = None THEN 0 ELSE txn.db.files[f].tracks,
     status |-> ScanStatus(readable, hashed)]

LEMMA PersistFacts ==
  ASSUME Types, NEW f \in Paths, NEW readable \in BOOLEAN, NEW hashed \in BOOLEAN,
         Persist(f, readable, hashed)
  PROVE  /\ txn # None /\ txn.conn = "scan" /\ txn.db \in Databases
         /\ ScanRow(f, readable, hashed) \in Row
         /\ \/ db' = SetFile(txn.db, f, ScanRow(f, readable, hashed)) /\ txn' = None
            \/ /\ db' = db /\ scan'.pc # "begin"
               /\ txn' = [conn |-> "scan", db |-> SetFile(txn.db, f, ScanRow(f, readable, hashed))]
         /\ SetFile(txn.db, f, ScanRow(f, readable, hashed)) \in Databases
         /\ scan.pc = "persist" /\ f \in scan.todo
         /\ scan'.todo = scan.todo \ {f} /\ scan'.found = scan.found /\ scan'.scope = scan.scope
         /\ scan'.interrupted = scan.interrupted
         /\ scan'.pc \in {"begin", "persist", "end"} /\ (scan'.pc = "end" <=> scan.todo = {f})
         /\ scan'.pc = "persist" => txn' # None /\ scan'.batch < BatchSize
         /\ scan'.batch \in 0..BatchSize
<1>1. scan.pc = "persist" /\ f \in scan.todo /\ txn # None /\ txn.conn = "scan" /\ txn.db \in Databases
  BY DEF Persist, Types, ScanHolds, InTxn, BaseType
<1>2. ScanRow(f, readable, hashed) \in Row
  <2>1. scan.found[f] \in 1..MaxVersion
    BY <1>1, LibraryAssumption DEF Types, ScanType
  <2>2. content[f] \in 0..MaxVersion /\ 0 \in 0..MaxVersion
    BY LibraryAssumption DEF Types, DiskType
  <2>3. txn.db.files[f] # None => txn.db.files[f].tracks \in 0..MaxVersion
    BY <1>1 DEF Databases, Row
  <2>4. ScanStatus(readable, hashed) \in Statuses
    BY DEF ScanStatus, Statuses
  <2>5. QED
    BY <2>1, <2>2, <2>3, <2>4 DEF ScanRow, Row
<1>3. SetFile(txn.db, f, ScanRow(f, readable, hashed)) \in Databases
  BY <1>1, <1>2, SetFileFacts
<1> DEFINE filled == scan.batch + 1 >= BatchSize
           new == SetFile(txn.db, f, ScanRow(f, readable, hashed))
<1>4. /\ IF filled THEN db' = new /\ txn' = None ELSE Write("scan", new)
      /\ scan' = [scan EXCEPT !.todo = @ \ {f}, !.batch = @ + 1,
                      !.pc = IF scan.todo = {f} THEN "end" ELSE IF filled THEN "begin" ELSE @]
  BY DEF Persist, ScanRow
<1>5. \/ db' = new /\ txn' = None
      \/ db' = db /\ ~filled /\ txn' = [conn |-> "scan", db |-> new]
  BY <1>4 DEF Write
<1>6. scan.batch \in 0..BatchSize /\ scan.batch < BatchSize /\ BatchSize \in Nat
  BY <1>1, LibraryAssumption DEF Types, ScanType
<1>7. /\ scan'.todo = scan.todo \ {f} /\ scan'.found = scan.found /\ scan'.scope = scan.scope
      /\ scan'.interrupted = scan.interrupted /\ scan'.batch = scan.batch + 1
      /\ scan'.pc = IF scan.todo = {f} THEN "end" ELSE IF filled THEN "begin" ELSE "persist"
  BY <1>4, <1>1 DEF Types, ScanType
<1>8. scan'.batch \in 0..BatchSize /\ (~filled => scan'.batch < BatchSize)
  BY <1>6, <1>7
<1>9. ~filled => txn' # None
  BY <1>3, <1>4, TxnFacts DEF Write, Conns
<1> HIDE DEF filled, new
<1>10. QED
  <2>1. \/ db' = SetFile(txn.db, f, ScanRow(f, readable, hashed)) /\ txn' = None
        \/ /\ db' = db /\ scan'.pc # "begin"
           /\ txn' = [conn |-> "scan", db |-> SetFile(txn.db, f, ScanRow(f, readable, hashed))]
    BY <1>5, <1>7 DEF new
  <2>2. scan'.pc = "persist" => txn' # None /\ scan'.batch < BatchSize
    BY <1>7, <1>8, <1>9
  <2>3. scan'.pc \in {"begin", "persist", "end"} /\ (scan'.pc = "end" <=> scan.todo = {f})
    BY <1>7
  <2>4. QED
    BY <1>1, <1>2, <1>3, <1>7, <1>8, <2>1, <2>2, <2>3

LEMMA ScanTypeStep ==
  ASSUME Types, [Next]_vars
  PROVE  ScanType'
<1> USE LibraryAssumption DEF Types
<1>1. CASE DiskStep \/ ProcStep \/ PruneStep \/ ApiStep \/ UNCHANGED vars
  <2>1. UNCHANGED scan
    BY <1>1 DEF DiskStep, ProcStep, PruneStep, ApiStep, vars
  <2>2. QED
    BY <2>1 DEF ScanType
<1>2. ASSUME NEW S \in Scopes, StartScan(S) PROVE ScanType'
  <2>1. scan' = [pc |-> "discover", scope |-> S, found |-> [f \in Paths |-> 0], todo |-> {}, batch |-> 0,
                 interrupted |-> FALSE]
    BY <1>2 DEF StartScan, NoScan
  <2>2. S \subseteq Paths /\ 0 \in 0..BatchSize /\ 0 \in 0..MaxVersion
    OBVIOUS
  <2>3. QED
    BY <2>1, <2>2 DEF ScanType, ScanStages
<1>3. CASE Discover
  <2>1. ASSUME NEW f \in Paths PROVE content[f] \in 0..MaxVersion
    BY DEF DiskType
  <2>2. scan.pc = "discover" /\ scan' = [scan EXCEPT !.pc = "lookup",
          !.found = [f \in Paths |-> IF f \in scan.scope \cap present THEN content[f] ELSE 0]]
    BY <1>3 DEF Discover
  <2>3. [f \in Paths |-> IF f \in scan.scope \cap present THEN content[f] ELSE 0] \in [Paths -> 0..MaxVersion]
    BY <2>1
  <2>4. scan.todo = {}
    BY <2>2 DEF ScanType
  <2>5. QED
    BY <2>2, <2>3, <2>4 DEF ScanType, ScanStages
<1>4. ASSUME NEW full \in BOOLEAN, Lookup(full) PROVE ScanType'
  <2> DEFINE todo == {f \in scan.scope : /\ scan.found[f] # 0
                                         /\ full \/ NeedsRescan(db.files[f], scan.found[f])}
  <2>1. scan.pc = "lookup" /\ scan' = [scan EXCEPT !.pc = "missing", !.todo = todo]
    BY <1>4 DEF Lookup
  <2>2. todo \in SUBSET Paths /\ todo \subseteq scan.scope /\ \A f \in todo : scan.found[f] # 0
    BY DEF ScanType
  <2> HIDE DEF todo
  <2>3. QED
    BY <2>1, <2>2 DEF ScanType, ScanStages
<1>5. ASSUME NEW pruning \in BOOLEAN, MarkMissing(pruning) PROVE ScanType'
  BY <1>5 DEF MarkMissing, ScanType, ScanStages
<1>6. CASE BeginBatch
  <2>1. 0 \in 0..BatchSize /\ 0 < BatchSize
    OBVIOUS
  <2>2. scan.pc = "begin" /\ scan' = [scan EXCEPT !.pc = "persist", !.batch = 0]
    BY <1>6 DEF BeginBatch
  <2>3. QED
    BY <2>1, <2>2 DEF ScanType, ScanStages
<1>7. ASSUME NEW f \in Paths, NEW readable \in BOOLEAN, NEW hashed \in BOOLEAN,
             Persist(f, readable, hashed)
      PROVE  ScanType'
  <2> DEFINE pc == IF scan.todo = {f} THEN "end" ELSE IF scan.batch + 1 >= BatchSize THEN "begin" ELSE scan.pc
  <2>1. scan' = [scan EXCEPT !.todo = @ \ {f}, !.batch = @ + 1, !.pc = pc]
    BY <1>7 DEF Persist
  <2>2. pc \in ScanStages
    BY DEF ScanType, ScanStages
  <2>3. scan.batch + 1 \in 0..BatchSize
    <3>1. scan.pc = "persist" /\ scan.batch \in 0..BatchSize
      BY <1>7 DEF Persist, ScanType
    <3>2. QED
      BY <3>1 DEF ScanType
  <2> HIDE DEF pc
  <2>4. scan' \in [pc : ScanStages, scope : SUBSET Paths, found : [Paths -> 0..MaxVersion],
                 todo : SUBSET Paths, batch : 0..BatchSize, interrupted : BOOLEAN]
    BY <2>1, <2>2, <2>3 DEF ScanType
  <2>5. QED
    BY <1>7, <2>4, PersistFacts DEF ScanType
<1>8. CASE EndScan \/ KillScan
  <2>1. scan' = [pc |-> "idle", scope |-> {}, found |-> [f \in Paths |-> 0], todo |-> {}, batch |-> 0,
                 interrupted |-> FALSE]
    BY <1>8 DEF EndScan, KillScan, NoScan
  <2>2. 0 \in 0..BatchSize /\ 0 \in 0..MaxVersion
    OBVIOUS
  <2>3. QED
    BY <2>1, <2>2 DEF ScanType, ScanStages
<1>9. CASE Interrupt
  BY <1>9 DEF Interrupt, ScanType, ScanStages
<1>10. QED
  BY <1>1, <1>2, <1>3, <1>4, <1>5, <1>6, <1>7, <1>8, <1>9, WhoSteps DEF ScanStep, Scanner

LEMMA ProcTypeStep ==
  ASSUME Types, [Next]_vars
  PROVE  ProcType'
<1> USE LibraryAssumption DEF Types
<1>0. 0 \in 0..MaxVersion
  OBVIOUS
<1>1. CASE DiskStep \/ ScanStep \/ PruneStep \/ ApiStep \/ UNCHANGED vars
  <2>1. UNCHANGED proc
    BY <1>1 DEF DiskStep, ScanStep, PruneStep, ApiStep, vars
  <2>2. QED
    BY <2>1 DEF ProcType
<1>2. ASSUME NEW f \in Paths, Rework(f) PROVE ProcType'
  BY <1>0, <1>2 DEF Rework, ProcType, NoProc, ProcStages
<1>3. CASE Introspect
  <2>1. CASE proc.file \in present
    <3>1. proc.file \in Paths /\ content[proc.file] \in 0..MaxVersion
      BY <2>1 DEF DiskType
    <3>2. QED
      BY <1>3, <2>1, <3>1 DEF Introspect, ProcType, ProcStages
  <2>2. CASE proc.file \notin present
    BY <1>0, <1>3, <2>2 DEF Introspect, ProcType, NoProc, ProcStages
  <2>3. QED
    BY <2>1, <2>2
<1>4. CASE Stat
  <2>1. CASE proc.file \in present
    <3>1. proc.file \in Paths /\ content[proc.file] \in 1..MaxVersion /\ content[proc.file] \in 0..MaxVersion
      BY <2>1 DEF DiskType
    <3>2. QED
      BY <1>4, <2>1, <3>1 DEF Stat, ProcType, ProcStages
  <2>2. CASE proc.file \notin present
    BY <1>0, <1>4, <2>2 DEF Stat, ProcType, NoProc, ProcStages
  <2>3. QED
    BY <2>1, <2>2
<1>5. CASE WriteTracks \/ WriteTimesOut
  BY <1>0, <1>5 DEF WriteTracks, WriteTimesOut, ProcType, NoProc, ProcStages
<1>6. QED
  BY <1>1, <1>2, <1>3, <1>4, <1>5, WhoSteps DEF ProcStep, Workflow

LEMMA PruneTypeStep ==
  ASSUME Types, [Next]_vars
  PROVE  PruneType'
<1> USE DEF Types
<1>1. CASE DiskStep \/ ScanStep \/ ProcStep \/ ApiStep \/ UNCHANGED vars
  <2>1. UNCHANGED prune
    BY <1>1 DEF DiskStep, ScanStep, ProcStep, ApiStep, vars
  <2>2. QED
    BY <2>1 DEF PruneType
<1>2. ASSUME NEW c \in {"worker", "pool"}, StartPrune(c) PROVE PruneType'
  BY <1>2 DEF StartPrune, PruneType, PruneStages
<1>3. CASE CreatePruneJob \/ BeginPrune \/ DeleteMissing \/ CompletePrune
  BY <1>3 DEF CreatePruneJob, BeginPrune, DeleteMissing, CompletePrune, PruneType, NoPrune, PruneStages
<1>4. CASE SelectMissing
  <2>1. MissingIn(View(prune.conn)) \subseteq Paths
    BY DEF MissingIn
  <2>2. QED
    BY <1>4, <2>1 DEF SelectMissing, PruneType, PruneStages
<1>5. QED
  BY <1>1, <1>2, <1>3, <1>4, WhoSteps DEF PruneStep, Pruner

LEMMA ApiTypeStep ==
  ASSUME Types, [Next]_vars
  PROVE  ApiType'
<1> USE DEF Types
<1>1. CASE DiskStep \/ ScanStep \/ ProcStep \/ PruneStep \/ UNCHANGED vars
  <2>1. UNCHANGED <<req, lock>>
    BY <1>1 DEF DiskStep, ScanStep, ProcStep, PruneStep, vars
  <2>2. QED
    BY <2>1 DEF ApiType
<1>2. ASSUME NEW r \in Requests, Acquire(r) \/ Request(r) PROVE ApiType'
  <2>1. req' = req \/ \E pc \in Answers : Goto(r, pc)
    BY <1>2 DEF Acquire, Request, BeginRequest, Decide, InsertJob, CommitRequest, StatementFails, Fail, Answers
  <2>2. lock' \in {lock, r, None}
    BY <1>2 DEF Acquire, Request, BeginRequest, Decide, InsertJob, CommitRequest, StatementFails, Fail
  <2>3. QED
    BY <2>1, <2>2 DEF ApiType, Goto
<1>3. QED
  BY <1>1, <1>2, WhoSteps DEF ApiStep

LEMMA ViewFacts ==
  ASSUME BaseType, NEW c
  PROVE  View(c) \in Databases
BY DEF BaseType, View, InTxn

\* What a prune and a request do to the database and the transaction.
LEMMA PruneBase ==
  ASSUME Types, PruneStep
  PROVE  \/ UNCHANGED <<db, txn>>
         \/ UNCHANGED db /\ ~Locked(prune.conn) /\ txn' = [conn |-> prune.conn, db |-> View(prune.conn)]
         \/ /\ InTxn(prune.conn) /\ Cut(prune.conn)
            /\ db' = txn.db /\ txn' = None
         \/ /\ ~Locked(prune.conn) /\ Cut(prune.conn)
            /\ db' = DeleteFiles(View(prune.conn), prune.missing) /\ txn' = None
<1>1. ASSUME NEW c \in {"worker", "pool"}, StartPrune(c) PROVE UNCHANGED <<db, txn>>
  BY <1>1 DEF StartPrune, base
<1>2. CASE CreatePruneJob
  BY <1>2 DEF CreatePruneJob, Write, base
<1>3. CASE SelectMissing \/ CompletePrune
  BY <1>3 DEF SelectMissing, CompletePrune, Commit, base
<1>4. CASE BeginPrune
  <2>1. txn = None => View(prune.conn) = db /\ ~Locked(prune.conn)
    BY DEF View, InTxn, Locked
  <2>2. QED
    BY <1>4, <2>1 DEF BeginPrune, Begin, base
<1>5. CASE DeleteMissing
  BY <1>5 DEF DeleteMissing, base
<1>6. QED
  BY <1>1, <1>2, <1>3, <1>4, <1>5 DEF PruneStep, Pruner

LEMMA BaseTypeStep ==
  ASSUME Types, [Next]_vars
  PROVE  BaseType'
<1> USE DEF Types
<1>1. CASE DiskStep \/ UNCHANGED vars
  <2>1. UNCHANGED <<db, txn>>
    BY <1>1 DEF DiskStep, vars
  <2>2. QED
    BY <2>1 DEF BaseType
<1>2. ASSUME NEW S \in Scopes, StartScan(S) PROVE BaseType'
  BY <1>2 DEF StartScan, base, BaseType
<1>3. ASSUME NEW pruning \in BOOLEAN, MarkMissing(pruning) PROVE BaseType'
  <2>1. \A f \in GoneFrom(scan.scope) : db.files[f] # None
    BY DEF GoneFrom
  <2>2. DeleteFiles(db, GoneFrom(scan.scope)) \in Databases /\ MarkFiles(db, GoneFrom(scan.scope)) \in Databases
    BY <2>1, DeleteFilesFacts, MarkFilesFacts DEF BaseType
  <2>3. QED
    BY <1>3, <2>2 DEF MarkMissing, Transact, BaseType
<1>4. ASSUME NEW f \in Paths, NEW readable \in BOOLEAN, NEW hashed \in BOOLEAN,
             Persist(f, readable, hashed)
      PROVE  BaseType'
  BY <1>4, PersistFacts, TxnFacts DEF BaseType, Conns
<1>5. CASE Discover \/ Interrupt \/ \E full \in BOOLEAN : Lookup(full)
  BY <1>5 DEF Discover, Interrupt, Lookup, base, BaseType
<1>6. CASE BeginBatch
  BY <1>6, TxnFacts DEF BeginBatch, Begin, BaseType, Conns
<1>7. CASE EndScan \/ KillScan
  BY <1>7, ViewFacts DEF EndScan, KillScan, Rollback, BaseType
<1>8. CASE ProcStep
  <2>1. UNCHANGED <<db, txn>> \/ WriteTracks
    BY <1>8 DEF ProcStep, Workflow, Rework, Introspect, Stat, WriteTimesOut, base
  <2>2. CASE WriteTracks
    <3>1. proc.file \in Paths /\ proc.stamp \in 1..MaxVersion /\ proc.tracks \in 0..MaxVersion
      BY <2>2 DEF WriteTracks, ProcType
    <3>2. ASSUME db.files[proc.file] # None
          PROVE  [db.files[proc.file] EXCEPT !.stamp = proc.stamp, !.tracks = proc.tracks] \in Row
      <4>1. db.files[proc.file] \in Row
        BY <3>1, <3>2 DEF BaseType, Databases
      <4>2. QED
        BY <3>1, <4>1 DEF Row
    <3>3. UNCHANGED txn /\ db' = (IF db.files[proc.file] = None THEN db
             ELSE SetFile(db, proc.file, [db.files[proc.file] EXCEPT !.stamp = proc.stamp, !.tracks = proc.tracks]))
      BY <2>2 DEF WriteTracks, Transact
    <3>4. QED
      BY <3>1, <3>2, <3>3, SetFileFacts DEF BaseType
  <2>3. QED
    BY <2>1, <2>2 DEF BaseType
<1>9. CASE PruneStep
  <2>1. prune.conn \in Conns /\ View(prune.conn) \in Databases
    BY ViewFacts DEF PruneType, Conns
  <2>2. DeleteFiles(View(prune.conn), prune.missing) \in Databases
    BY <2>1, DeleteFilesFacts
  <2>3. InTxn(prune.conn) => txn.db \in Databases
    BY DEF InTxn, BaseType
  <2>4. QED
    BY <1>9, <2>1, <2>2, <2>3, PruneBase, TxnFacts DEF BaseType
<1>10. ASSUME NEW r \in Requests, Acquire(r) \/ Request(r) PROVE BaseType'
  <2>1. "pool" \in Conns /\ View("pool") \in Databases
    BY ViewFacts DEF Conns
  <2>2. CASE Acquire(r) \/ BeginRequest(r) \/ CommitRequest(r) \/ StatementFails(r)
    BY <2>1, <2>2, TxnFacts DEF Acquire, BeginRequest, CommitRequest, StatementFails, Fail, Rollback, Commit, InTxn,
       Begin, base, BaseType
  <2>3. CASE Decide(r)
    <3>1. [View("pool") EXCEPT !.plans[r.plan] = Decision(r)] \in Databases
      BY <2>1 DEF Databases, Decision
    <3>2. QED
      BY <2>1, <2>3, <3>1, TxnFacts DEF Decide, Write, BaseType
  <2>4. CASE InsertJob(r)
    <3>1. [View("pool") EXCEPT !.jobs[r.plan] = @ + 1] \in Databases
      BY <2>1 DEF Databases
    <3>2. QED
      BY <2>1, <2>4, <3>1, TxnFacts DEF InsertJob, Write, BaseType
  <2>5. QED
    BY <1>10, <2>2, <2>3, <2>4 DEF Request
<1>11. QED
  BY <1>1, <1>2, <1>3, <1>4, <1>5, <1>6, <1>7, <1>8, <1>9, <1>10, WhoSteps DEF ScanStep, Scanner, ApiStep

\* Nobody touches the transaction of a scan, nor commits beside it.
LEMMA ScanAlone ==
  ASSUME Types, InTxn("scan"), ProcStep \/ PruneStep \/ ApiStep
  PROVE  UNCHANGED <<db, txn>>
<1>1. txn # None /\ txn.conn = "scan" /\ Locked("pool") /\ ~InTxn("pool")
  BY DEF InTxn, Locked
<1>2. CASE ProcStep
  BY <1>1, <1>2 DEF ProcStep, Workflow, Rework, Introspect, Stat, WriteTracks, WriteTimesOut, Transact, base
<1>3. CASE PruneStep
  BY <1>1, <1>3, PruneBase DEF Types, PruneType, InTxn, Locked
<1>4. CASE ApiStep
  BY <1>1, <1>4 DEF ApiStep, Acquire, Request, BeginRequest, Decide, InsertJob, CommitRequest, StatementFails,
     Fail, Rollback, Commit, base
<1>5. QED
  BY <1>2, <1>3, <1>4

\* Nobody opens a transaction in the name of a scan.
LEMMA NoneForScan ==
  ASSUME Types, ~InTxn("scan"), ProcStep \/ PruneStep \/ ApiStep
  PROVE  ~InTxn("scan")'
<1>1. CASE ProcStep
  BY <1>1 DEF ProcStep, Workflow, Rework, Introspect, Stat, WriteTracks, WriteTimesOut, Transact, base, InTxn
<1>2. CASE PruneStep
  BY <1>2, PruneBase DEF Types, PruneType, InTxn
<1>3. CASE ApiStep
  BY <1>3 DEF ApiStep, Acquire, Request, BeginRequest, Decide, InsertJob, CommitRequest, StatementFails,
     Fail, Rollback, Commit, Begin, Write, base, InTxn
<1>4. QED
  BY <1>1, <1>2, <1>3

LEMMA ScanHoldsStep ==
  ASSUME Types, [Next]_vars
  PROVE  ScanHolds'
<1> USE DEF Types, ScanHolds
<1>1. CASE DiskStep \/ UNCHANGED vars
  BY <1>1 DEF DiskStep, vars, InTxn
<1>2. CASE ProcStep \/ PruneStep \/ ApiStep
  <2>1. UNCHANGED scan
    BY <1>2 DEF ProcStep, PruneStep, ApiStep
  <2>2. InTxn("scan")' <=> InTxn("scan")
    BY <1>2, ScanAlone, NoneForScan DEF InTxn
  <2>3. QED
    BY <2>1, <2>2
<1>3. ASSUME NEW S \in Scopes, StartScan(S) PROVE ScanHolds'
  BY <1>3 DEF StartScan, NoScan, base, InTxn
<1>4. CASE Discover \/ Interrupt \/ \E full \in BOOLEAN : Lookup(full)
  BY <1>4 DEF Discover, Interrupt, Lookup, base, InTxn, ScanType, ScanStages
<1>5. ASSUME NEW pruning \in BOOLEAN, MarkMissing(pruning) PROVE ScanHolds'
  BY <1>5 DEF MarkMissing, Transact, InTxn, ScanType
<1>6. CASE BeginBatch
  BY <1>6, TxnFacts DEF BeginBatch, Begin, InTxn, ScanType, BaseType, Conns
<1>7. ASSUME NEW f \in Paths, NEW readable \in BOOLEAN, NEW hashed \in BOOLEAN,
             Persist(f, readable, hashed)
      PROVE  ScanHolds'
  BY <1>7, PersistFacts DEF InTxn
<1>8. CASE EndScan \/ KillScan
  BY <1>8 DEF EndScan, KillScan, Rollback, NoScan, InTxn
<1>9. QED
  BY <1>1, <1>2, <1>3, <1>4, <1>5, <1>6, <1>7, <1>8, WhoSteps DEF ScanStep, Scanner

LEMMA TypesStep ==
  ASSUME Types, [Next]_vars
  PROVE  Types'
BY DiskTypeStep, BaseTypeStep, ScanTypeStep, ProcTypeStep, PruneTypeStep, ApiTypeStep, ScanHoldsStep
   DEF Types

\* The variables keep their types.
THEOREM LibraryTypeOK == Spec => []TypeOK
<1>1. Types => TypeOK
  BY DEF Types, DiskType, BaseType, ScanType, ProcType, PruneType, ApiType, ScanHolds, TypeOK,
         ScanStages, ProcStages, PruneStages, Answers
<1>2. Init => Types
  BY InitTypes
<1>3. Types /\ [Next]_vars => Types'
  BY TypesStep
<1>4. QED
  BY <1>1, <1>2, <1>3, PTL DEF Spec

----------------------------------------------------------------------------
(* The rows of the files.                                                  *)

\* The rows stay as they are, committed and in a transaction.
FilesStay ==
    IF InTxn("scan") THEN UNCHANGED <<db, txn>>
    ELSE /\ db'.files = db.files /\ ~InTxn("scan")'
         /\ txn' # None => txn'.db.files = db.files

LEMMA PruneFiles ==
  ASSUME Types, FilesCommitted, PruneStep
  PROVE  \/ FilesStay /\ (UNCHANGED history \/ Cut(prune.conn))
         \/ /\ ~InTxn("scan") /\ txn' = None /\ Cut(prune.conn)
            /\ \A f \in Paths : db'.files[f] = IF f \in prune.missing THEN None ELSE db.files[f]
<1>1. CASE InTxn("scan")
  <2>1. UNCHANGED <<db, txn>>
    BY <1>1, ScanAlone
  <2>2. UNCHANGED history \/ Cut(prune.conn)
    BY DEF PruneStep, StartPrune, Pruner, CreatePruneJob, SelectMissing, BeginPrune, DeleteMissing, CompletePrune
  <2>3. QED
    BY <1>1, <2>1, <2>2 DEF FilesStay
<1>2. CASE ~InTxn("scan")
  <2>1. View(prune.conn).files = db.files /\ View(prune.conn) \in Databases
    BY <1>2, ViewFacts DEF View, InTxn, FilesCommitted, Types
  <2>2. UNCHANGED history \/ Cut(prune.conn)
    BY DEF PruneStep, StartPrune, Pruner, CreatePruneJob, SelectMissing, BeginPrune, DeleteMissing, CompletePrune
  <2>3. ~InTxn("scan")'
    BY <1>2, NoneForScan
  <2>4. CASE UNCHANGED <<db, txn>>
    BY <1>2, <2>2, <2>3, <2>4 DEF FilesStay, FilesCommitted, InTxn
  <2>5. CASE UNCHANGED db /\ txn' = [conn |-> prune.conn, db |-> View(prune.conn)]
    BY <1>2, <2>1, <2>2, <2>3, <2>5 DEF FilesStay
  <2>6. CASE InTxn(prune.conn) /\ db' = txn.db /\ txn' = None
    BY <1>2, <2>1, <2>2, <2>3, <2>6 DEF FilesStay, View
  <2>7. CASE Cut(prune.conn) /\ db' = DeleteFiles(View(prune.conn), prune.missing) /\ txn' = None
    BY <1>2, <2>1, <2>7, DeleteFilesFacts
  <2>8. QED
    BY <2>4, <2>5, <2>6, <2>7, PruneBase
<1>3. QED
  BY <1>1, <1>2

LEMMA ApiFiles ==
  ASSUME Types, FilesCommitted, ApiStep
  PROVE  FilesStay
<1>1. CASE InTxn("scan")
  BY <1>1, ScanAlone DEF FilesStay
<1>2. CASE ~InTxn("scan")
  <2>1. View("pool").files = db.files /\ View("pool") \in Databases
    BY <1>2, ViewFacts DEF View, InTxn, FilesCommitted, Types
  <2>2. ~InTxn("scan")'
    BY <1>2, NoneForScan
  <2>3. txn # None => txn.db.files = db.files
    BY <1>2 DEF InTxn, FilesCommitted
  <2>4. PICK r \in Requests : Acquire(r) \/ Request(r)
    BY DEF ApiStep
  <2>5. CASE Acquire(r) \/ BeginRequest(r)
    BY <1>2, <2>2, <2>3, <2>5 DEF Acquire, BeginRequest, Begin, base, FilesStay
  <2>6. CASE CommitRequest(r) \/ StatementFails(r)
    BY <1>2, <2>2, <2>3, <2>6 DEF CommitRequest, StatementFails, Fail, Rollback, Commit, InTxn, FilesStay
  <2>7. CASE Decide(r)
    BY <1>2, <2>1, <2>2, <2>7 DEF Decide, Write, FilesStay, Databases
  <2>8. CASE InsertJob(r)
    BY <1>2, <2>1, <2>2, <2>8 DEF InsertJob, Write, FilesStay, Databases
  <2>9. QED
    BY <2>4, <2>5, <2>6, <2>7, <2>8 DEF Request
<1>3. QED
  BY <1>1, <1>2

LEMMA ProcFiles ==
  ASSUME Types, FilesCommitted, ProcStep, ~WriteTracks
  PROVE  FilesStay
<1>1. UNCHANGED <<db, txn>>
  BY DEF ProcStep, Workflow, Rework, Introspect, Stat, WriteTimesOut, base
<1>2. QED
  BY <1>1 DEF FilesStay, FilesCommitted, InTxn

\* What such a step leaves of the invariants.
LEMMA FilesStayKeeps ==
  ASSUME FilesStay, FilesCommitted, UNCHANGED <<content, present, scan>>,
         history'.went = history.went, history.torn \subseteq history'.torn
  PROVE  /\ FilesCommitted'
         /\ \A d \in Sights' : \E e \in Sights : d.files = e.files
         /\ View("scan")'.files = View("scan").files
<1>1. CASE InTxn("scan")
  BY <1>1 DEF FilesStay, FilesCommitted, Sights, View, InTxn
<1>2. CASE ~InTxn("scan")
  BY <1>2 DEF FilesStay, FilesCommitted, Sights, View, InTxn
<1>3. QED
  BY <1>1, <1>2

\* What the history variable keeps.
LEMMA HistoryFacts ==
  ASSUME Types, [Next]_vars
  PROVE  /\ history.went \subseteq history'.went
         /\ history.torn \subseteq history'.torn /\ history.split \subseteq history'.split
         /\ UNCHANGED present => history'.went = history.went
         /\ ~WriteTracks => history'.torn = history.torn
         /\ ~PruneStep => history'.split = history.split
         /\ history'.quiet => history.quiet \/ \E S \in Scopes : StartScan(S)
         /\ history'.quiet => UNCHANGED <<content, present>>
<1> USE DEF Types, DiskType
<1>1. CASE DiskStep
  BY <1>1 DEF DiskStep, Replace, BringBack, TakeAway, Disturb
<1>2. CASE ScanStep
  <2>1. ASSUME NEW S \in Scopes, StartScan(S) PROVE history' = [history EXCEPT !.quiet = TRUE]
    BY <2>1 DEF StartScan
  <2>2. Scanner \/ Interrupt \/ KillScan => UNCHANGED history \/ Disturb
    BY DEF Scanner, Interrupt, KillScan, Persist, Lookup, MarkMissing, Discover, BeginBatch, EndScan
  <2>3. QED
    BY <1>2, <2>1, <2>2 DEF ScanStep, Disturb
<1>3. CASE ProcStep
  <2>1. CASE WriteTracks
    BY <2>1, <1>3 DEF ProcStep, WriteTracks, disk
  <2>2. ASSUME NEW f \in Paths, Rework(f) PROVE Disturb
    BY <2>2 DEF Rework
  <2>3. CASE Introspect \/ Stat \/ WriteTimesOut
    BY <2>3 DEF Introspect, Stat, WriteTimesOut, disk
  <2>4. QED
    BY <1>3, <2>1, <2>2, <2>3 DEF ProcStep, Workflow, Disturb
<1>4. CASE PruneStep
  <2>1. UNCHANGED history \/ Cut(prune.conn)
    BY <1>4 DEF PruneStep, StartPrune, Pruner, CreatePruneJob, SelectMissing, BeginPrune, DeleteMissing,
                CompletePrune
  <2>2. QED
    BY <1>4, <2>1 DEF PruneStep, Cut
<1>5. CASE ApiStep \/ UNCHANGED vars
  BY <1>5 DEF ApiStep, vars
<1>6. QED
  BY <1>1, <1>2, <1>3, <1>4, <1>5, WhoSteps

\* The rows of files that are there stay as they are when the missing ones are marked.
LEMMA MarkMissingKeeps ==
  ASSUME Types, NEW pruning \in BOOLEAN, MarkMissing(pruning)
  PROVE  txn' = None /\ \A f \in present : db'.files[f] = db.files[f]
<1> DEFINE gone == GoneFrom(scan.scope)
<1>1. \A f \in gone : db.files[f] # None
  BY DEF GoneFrom
<1>2. \A f \in gone : f \notin present
  BY DEF GoneFrom
<1>3. txn' = None /\ db' = IF pruning THEN DeleteFiles(db, gone) ELSE MarkFiles(db, gone)
  BY DEF MarkMissing, Transact
<1>4. db \in Databases /\ present \subseteq Paths
  BY DEF Types, BaseType, DiskType
<1> HIDE DEF gone
<1>5. CASE pruning
  BY <1>2, <1>3, <1>4, <1>5, DeleteFilesFacts
<1>6. CASE ~pruning
  <2>1. \A f \in Paths : MarkFiles(db, gone).files[f] =
          IF f \in gone THEN [db.files[f] EXCEPT !.status = "missing"] ELSE db.files[f]
    BY <1>1, <1>4, MarkFilesFacts
  <2>2. QED
    BY <1>2, <1>3, <1>4, <1>6, <2>1
<1>7. QED
  BY <1>5, <1>6

\* Files that have always been there keep their rows, and are not missing.
LEMMA KeptStep ==
  ASSUME Types, KeptInv, FilesCommitted, [Next]_vars
  PROVE  KeptInv'
<1> DEFINE Always == Paths \ history.went
<1>1. history.went \subseteq history'.went /\ (UNCHANGED present => history'.went = history.went)
  BY HistoryFacts
<1>2. ASSUME \A d \in Sights' : \E e \in Sights : d.files = e.files
      PROVE  \A d \in Sights' : Kept(d)'
  BY <1>1, <1>2 DEF KeptInv, Kept
<1>3. CASE DiskStep
  <2>1. UNCHANGED <<db, txn, prune>> /\ Sights' = Sights
    BY <1>3 DEF DiskStep, Sights
  <2>2. Paths \ history'.went \subseteq present'
    <3>1. ASSUME NEW S \in SUBSET Paths, TakeAway(S)
          PROVE  present' = present \ S /\ history'.went = history.went \cup S
      BY <3>1 DEF TakeAway, Types, DiskType
    <3>2. ASSUME NEW f \in Paths, Replace(f) \/ BringBack(f)
          PROVE  present \subseteq present' /\ history'.went = history.went
      BY <3>2 DEF Replace, BringBack, Disturb, Types, DiskType
    <3>3. QED
      BY <1>3, <3>1, <3>2 DEF DiskStep, KeptInv
  <2>3. \A d \in Sights' : Kept(d)'
    BY <1>2, <2>1
  <2>4. QED
    BY <1>1, <2>1, <2>2, <2>3 DEF KeptInv
<1>4. CASE UNCHANGED vars
  BY <1>4 DEF vars, KeptInv, Sights, Kept
<1>5. CASE PruneStep
  <2>1. UNCHANGED <<present, scan, content>> /\ history'.went = history.went /\ history.torn \subseteq history'.torn
    BY <1>5, HistoryFacts DEF PruneStep
  <2>2. prune'.missing \subseteq history.went
    <3>1. MissingIn(View(prune.conn)) \subseteq history.went
      BY DEF MissingIn, KeptInv, Kept, View, InTxn, Sights
    <3>2. prune'.missing \in {{}, prune.missing, MissingIn(View(prune.conn))}
      <4>1. ASSUME NEW c \in {"worker", "pool"}, StartPrune(c) PROVE prune'.missing = {}
        BY <4>1 DEF StartPrune
      <4>2. CASE CreatePruneJob \/ BeginPrune \/ DeleteMissing
        BY <4>2 DEF CreatePruneJob, BeginPrune, DeleteMissing, Types, PruneType
      <4>3. CASE SelectMissing
        BY <4>3 DEF SelectMissing, Types, PruneType
      <4>4. CASE CompletePrune
        BY <4>4 DEF CompletePrune, NoPrune
      <4>5. QED
        BY <1>5, <4>1, <4>2, <4>3, <4>4 DEF PruneStep, Pruner
    <3>3. QED
      BY <3>1, <3>2 DEF KeptInv
  <2>3. CASE FilesStay
    <3>1. \A d \in Sights' : Kept(d)'
      BY <1>2, <2>1, <2>3, FilesStayKeeps
    <3>2. txn' # None => \A f \in Paths \ history.went : db'.files[f] # None => txn'.db.files[f] # None
      BY <2>3 DEF FilesStay, KeptInv
    <3>3. QED
      BY <2>1, <2>2, <3>1, <3>2 DEF KeptInv
  <2>4. CASE txn' = None /\ \A f \in Paths : db'.files[f] = IF f \in prune.missing THEN None ELSE db.files[f]
    <3>1. Kept(db)'
      BY <2>1, <2>4 DEF KeptInv, Kept, Sights
    <3>2. \A d \in Sights' : Kept(d)'
      BY <2>4, <3>1 DEF Sights
    <3>3. QED
      BY <2>1, <2>2, <2>4, <3>2 DEF KeptInv
  <2>5. QED
    BY <1>5, <2>3, <2>4, PruneFiles
<1>6. CASE ApiStep \/ (ProcStep /\ ~WriteTracks)
  <2>1. FilesStay /\ UNCHANGED <<present, scan, prune>> /\ history'.went = history.went
    BY <1>6, ApiFiles, ProcFiles, HistoryFacts DEF ApiStep, ProcStep
  <2>2. \A d \in Sights' : \E e \in Sights : d.files = e.files
    BY <2>1 DEF FilesStay, FilesCommitted, Sights, InTxn
  <2>3. \A d \in Sights' : Kept(d)'
    BY <1>2, <2>2
  <2>4. txn' # None => \A f \in Paths \ history.went : db'.files[f] # None => txn'.db.files[f] # None
    BY <2>1 DEF FilesStay, KeptInv
  <2>5. QED
    BY <2>1, <2>3, <2>4 DEF KeptInv
<1>7. CASE ProcStep /\ WriteTracks
  <2>1. /\ txn = None /\ UNCHANGED <<txn, present, prune>> /\ history'.went = history.went
        /\ proc.file \in Paths /\ db \in Databases
    BY <1>7, HistoryFacts DEF ProcStep, WriteTracks, Transact, Types, ProcType, BaseType
  <2>2. ASSUME db.files[proc.file] # None
        PROVE  /\ [db.files[proc.file] EXCEPT !.stamp = proc.stamp, !.tracks = proc.tracks] \in Row
               /\ [db.files[proc.file] EXCEPT !.stamp = proc.stamp, !.tracks = proc.tracks].status
                    = db.files[proc.file].status
    <3>1. proc.stamp \in 1..MaxVersion /\ proc.tracks \in 0..MaxVersion
      BY <1>7 DEF WriteTracks, Types, ProcType
    <3>2. db.files[proc.file] \in Row
      BY <2>1, <2>2 DEF Databases
    <3>3. QED
      BY <3>1, <3>2 DEF Row
  <2>3. db' = (IF db.files[proc.file] = None THEN db
             ELSE SetFile(db, proc.file, [db.files[proc.file] EXCEPT !.stamp = proc.stamp, !.tracks = proc.tracks]))
    BY <1>7 DEF WriteTracks, Transact
  <2>4. \A f \in Paths : db'.files[f] # None => db.files[f] # None /\ db'.files[f].status = db.files[f].status
    <3>1. CASE db.files[proc.file] = None
      BY <2>3, <3>1
    <3>2. CASE db.files[proc.file] # None
      <4>1. db'.files = [db.files EXCEPT ![proc.file] =
                          [db.files[proc.file] EXCEPT !.stamp = proc.stamp, !.tracks = proc.tracks]]
        BY <2>1, <2>2, <2>3, <3>2, SetFileFacts
      <4>2. QED
        BY <2>1, <2>2, <3>2, <4>1 DEF Databases
    <3>3. QED
      BY <3>1, <3>2
  <2>5. Kept(db)'
    BY <2>1, <2>4 DEF KeptInv, Kept, Sights
  <2>6. QED
    BY <2>1, <2>5 DEF KeptInv, Sights
<1>8. CASE ScanStep
  <2>1. UNCHANGED <<content, present, prune>> /\ history'.went = history.went
    BY <1>8, HistoryFacts DEF ScanStep
  <2> SUFFICES /\ \A d \in Sights' : Kept(d)'
               /\ txn' # None => \A f \in Paths \ history.went : db'.files[f] # None => txn'.db.files[f] # None
    BY <2>1 DEF KeptInv
  <2>2. CASE UNCHANGED <<db, txn>>
    BY <2>1, <2>2 DEF KeptInv, Sights, Kept
  <2>3. ASSUME NEW pruning \in BOOLEAN, MarkMissing(pruning)
        PROVE  txn' = None /\ Kept(db)'
    <3>1. txn' = None /\ \A f \in present : db'.files[f] = db.files[f]
      BY <2>3, MarkMissingKeeps
    <3>2. QED
      BY <2>1, <3>1 DEF KeptInv, Kept, Sights
  <2>4. ASSUME NEW f \in Paths, NEW readable \in BOOLEAN, NEW hashed \in BOOLEAN, Persist(f, readable, hashed)
        PROVE  /\ \A d \in Sights' : Kept(d)'
               /\ txn' # None => \A g \in Paths \ history.went : db'.files[g] # None => txn'.db.files[g] # None
    <3> DEFINE row == ScanRow(f, readable, hashed)
               new == SetFile(txn.db, f, row)
    <3>1. /\ txn # None /\ txn.db \in Databases /\ row \in Row
          /\ (db' = new /\ txn' = None) \/ (db' = db /\ txn' = [conn |-> "scan", db |-> new])
      BY <2>4, PersistFacts
    <3>2. row.status # "missing" /\ row # None
      BY <3>1, NoneAssumption DEF ScanRow, ScanStatus
    <3>3. new.files = [txn.db.files EXCEPT ![f] = row]
      BY <3>1, SetFileFacts
    <3>4. \A g \in Paths : new.files[g] = IF g = f THEN row ELSE txn.db.files[g]
      BY <3>1, <3>3 DEF Databases
    <3> HIDE DEF row, new
    <3>5. /\ \A g \in Paths \ history.went : new.files[g] # None => new.files[g].status # "missing"
          /\ \A g \in Paths \ history.went : db.files[g] # None => new.files[g] # None
      BY <3>1, <3>2, <3>4 DEF KeptInv, Kept, Sights
    <3>6. Kept(db) /\ history'.went = history.went
      BY <2>1 DEF KeptInv, Sights
    <3>7. QED
      BY <3>1, <3>5, <3>6 DEF Sights, Kept
  <2>5. CASE BeginBatch
    BY <2>1, <2>5 DEF BeginBatch, Begin, Sights, Kept, KeptInv
  <2>6. CASE EndScan
    BY <2>1, <2>6 DEF EndScan, View, InTxn, Sights, Kept, KeptInv
  <2>7. CASE KillScan
    BY <2>1, <2>7 DEF KillScan, Rollback, Sights, Kept, KeptInv
  <2>8. (\E S \in Scopes : StartScan(S)) \/ Discover \/ Interrupt \/ (\E full \in BOOLEAN : Lookup(full))
          => UNCHANGED <<db, txn>>
    BY DEF StartScan, Discover, Interrupt, Lookup, base
  <2>9. ASSUME txn' = None, Kept(db)' PROVE \A d \in Sights' : Kept(d)'
    BY <2>9 DEF Sights
  <2>10. QED
    BY <1>8, <2>2, <2>3, <2>4, <2>5, <2>6, <2>7, <2>8, <2>9 DEF ScanStep, Scanner
<1>9. QED
  BY <1>3, <1>4, <1>5, <1>6, <1>7, <1>8, WhoSteps

LEMMA FilesCommittedStep ==
  ASSUME Types, FilesCommitted, [Next]_vars
  PROVE  FilesCommitted'
<1>1. CASE DiskStep \/ UNCHANGED vars
  BY <1>1 DEF DiskStep, vars, FilesCommitted
<1>2. ASSUME FilesStay PROVE FilesCommitted'
  BY <1>2 DEF FilesStay, FilesCommitted, InTxn
<1>3. CASE PruneStep
  BY <1>2, <1>3, PruneFiles DEF FilesCommitted
<1>4. CASE ApiStep \/ (ProcStep /\ ~WriteTracks)
  BY <1>2, <1>4, ApiFiles, ProcFiles
<1>5. CASE ProcStep /\ WriteTracks
  BY <1>5 DEF WriteTracks, Transact, FilesCommitted
<1>6. CASE ScanStep
  <2>1. ASSUME NEW f \in Paths, NEW readable \in BOOLEAN, NEW hashed \in BOOLEAN, Persist(f, readable, hashed)
        PROVE  FilesCommitted'
    BY <2>1, PersistFacts DEF FilesCommitted
  <2>2. CASE (\E S \in Scopes : StartScan(S)) \/ Discover \/ Interrupt \/ (\E full \in BOOLEAN : Lookup(full))
    BY <2>2 DEF StartScan, Discover, Interrupt, Lookup, base, FilesCommitted
  <2>3. CASE BeginBatch \/ EndScan \/ KillScan \/ (\E pruning \in BOOLEAN : MarkMissing(pruning))
    BY <2>3 DEF BeginBatch, Begin, EndScan, KillScan, Rollback, MarkMissing, Transact, FilesCommitted
  <2>4. QED
    BY <1>6, <2>1, <2>2, <2>3 DEF ScanStep, Scanner
<1>7. QED
  BY <1>1, <1>3, <1>4, <1>5, <1>6, WhoSteps

\* Files only get newer.
LEMMA ContentStep ==
  ASSUME Types, [Next]_vars
  PROVE  \A f \in Paths : content[f] <= content'[f]
<1>1. content \in [Paths -> 1..MaxVersion] /\ present \subseteq Paths
  BY DEF Types, DiskType
<1>2. ASSUME UNCHANGED content PROVE \A f \in Paths : content[f] <= content'[f]
  BY <1>1, <1>2, LibraryAssumption
<1>3. ASSUME NEW f \in Paths, Replace(f) \/ Rework(f) PROVE \A g \in Paths : content[g] <= content'[g]
  BY <1>1, <1>3, NewerFacts DEF Replace, Rework
<1>4. (\E S \in SUBSET Paths : TakeAway(S)) \/ (\E f \in Paths : BringBack(f)) \/ Workflow \/ WriteTimesOut
        => UNCHANGED content
  BY DEF TakeAway, BringBack, Workflow, Introspect, Stat, WriteTracks, WriteTimesOut, disk
<1>5. QED
  BY <1>2, <1>3, <1>4, WhoSteps DEF DiskStep, ProcStep, ScanStep, PruneStep, ApiStep, vars

\* A sound row stays sound.
LEMMA SoundRowStays ==
  ASSUME Types, [Next]_vars, NEW f \in Paths, NEW row \in Row \cup {None},
         SoundRow(f, row, content[f], history.torn)
  PROVE  SoundRow(f, row, content'[f], history'.torn)
<1>1. history.torn \subseteq history'.torn /\ content[f] <= content'[f]
  BY HistoryFacts, ContentStep
<1>2. content[f] \in 1..MaxVersion /\ content'[f] \in 1..MaxVersion
  BY TypesStep DEF Types, DiskType
<1>3. ASSUME row # None PROVE row.stamp \in 1..MaxVersion /\ row.tracks \in 0..MaxVersion
  BY <1>3 DEF Row
<1>4. CASE row # None /\ row.status = "ok" /\ <<f, row.stamp, row.tracks>> \notin history'.torn
  <2>1. row.stamp <= row.tracks /\ row.tracks <= content[f]
    BY <1>1, <1>4 DEF SoundRow
  <2>2. row.tracks <= content'[f]
    BY <1>1, <1>2, <1>3, <1>4, <2>1, LibraryAssumption
  <2>3. QED
    BY <2>1, <2>2 DEF SoundRow
<1>5. QED
  BY <1>4 DEF SoundRow

LEMMA SoundStep ==
  ASSUME Types, SoundInv, FilesCommitted, [Next]_vars
  PROVE  \A d \in Sights' : Sound(d)'
<1> DEFINE Fine(f, row) == SoundRow(f, row, content'[f], history'.torn)
<1>1. \A d \in Sights : Sound(d) /\ d \in Databases
  BY DEF SoundInv, Sights, Types, BaseType
<1>2. \A f \in Paths, d \in Sights : d.files[f] \in Row \cup {None}
  BY <1>1 DEF Databases
<1>3. \A f \in Paths, d \in Sights : Fine(f, d.files[f])
  BY <1>1, <1>2, SoundRowStays DEF Sound
<1>4. \A f \in Paths : Fine(f, None)
  BY DEF SoundRow
<1> DEFINE Old(d) == \A f \in Paths : d.files[f] = None \/ \E e \in Sights : d.files[f] = e.files[f]
<1>5. ASSUME \A d \in Sights' : Old(d) PROVE \A d \in Sights' : Sound(d)'
  <2>1. \A d \in Sights', f \in Paths : Fine(f, d.files[f])
    BY <1>3, <1>4, <1>5
  <2>2. QED
    BY <2>1 DEF Sound
<1>6. ASSUME \A d \in Sights' : \E e \in Sights : d.files = e.files PROVE \A d \in Sights' : Old(d)
  BY <1>6
<1>7. CASE DiskStep \/ UNCHANGED vars \/ UNCHANGED <<db, txn>>
  <2>1. Sights' = Sights
    BY <1>7 DEF DiskStep, vars, Sights
  <2>2. \A d \in Sights' : Old(d)
    BY <2>1
  <2>3. QED
    BY <1>5, <2>2
<1>8. ASSUME FilesStay PROVE \A d \in Sights' : Old(d)
  BY <1>6, <1>8 DEF FilesStay, FilesCommitted, Sights, InTxn
<1>9. CASE PruneStep
  <2>1. CASE txn' = None /\ \A f \in Paths : db'.files[f] = IF f \in prune.missing THEN None ELSE db.files[f]
    <3>1. \A d \in Sights' : Old(d)
      BY <2>1 DEF Sights
    <3>2. QED
      BY <1>5, <3>1
  <2>2. CASE FilesStay
    BY <1>5, <1>8, <2>2
  <2>3. QED
    BY <1>9, <2>1, <2>2, PruneFiles
<1>10. CASE ApiStep \/ (ProcStep /\ ~WriteTracks)
  <2>1. FilesStay
    BY <1>10, ApiFiles, ProcFiles
  <2>2. QED
    BY <1>5, <1>8, <2>1
<1>11. CASE ProcStep /\ WriteTracks
  <2> DEFINE f == proc.file
             row == [db.files[f] EXCEPT !.stamp = proc.stamp, !.tracks = proc.tracks]
  <2>1. /\ txn = None /\ UNCHANGED txn /\ proc.pc = "write" /\ f \in Paths /\ db \in Databases
        /\ proc.stamp \in 1..MaxVersion /\ proc.tracks \in 0..MaxVersion
    BY <1>11 DEF WriteTracks, Transact, Types, ProcType, BaseType
  <2>2. db' = (IF db.files[f] = None THEN db ELSE SetFile(db, f, row))
    BY <1>11 DEF WriteTracks, Transact
  <2>3. CASE db.files[f] = None
    <3>1. Sights' = Sights
      BY <2>1, <2>2, <2>3 DEF Sights
    <3>2. \A d \in Sights' : Old(d)
      BY <3>1
    <3>3. QED
      BY <1>5, <3>2
  <2>4. CASE db.files[f] # None
    <3>1. row \in Row /\ row.stamp = proc.stamp /\ row.tracks = proc.tracks
      <4>1. db.files[f] \in Row
        BY <2>1, <2>4 DEF Databases
      <4>2. QED
        BY <2>1, <4>1 DEF Row
    <3>2. db'.files = [db.files EXCEPT ![f] = row]
      BY <2>1, <2>2, <2>4, <3>1, SetFileFacts
    <3>3. \A g \in Paths : db'.files[g] = IF g = f THEN row ELSE db.files[g]
      BY <2>1, <3>2 DEF Databases
    <3>4. Fine(f, row)
      <4>1. /\ proc.tracks <= proc.stamp /\ proc.stamp <= content[f] /\ UNCHANGED content
        BY <1>11, <2>1 DEF SoundInv, WriteTracks, disk
      <4>2. CASE proc.stamp = proc.tracks
        BY <2>1, <3>1, <4>1, <4>2, LibraryAssumption DEF SoundRow
      <4>3. CASE proc.stamp # proc.tracks
        <5>1. history'.torn = history.torn \cup {<<f, proc.stamp, proc.tracks>>}
          BY <1>11, <4>3 DEF WriteTracks, Types, DiskType
        <5>2. QED
          BY <3>1, <5>1 DEF SoundRow, Torn
      <4>4. QED
        BY <4>2, <4>3
    <3>5. db \in Sights /\ Sights' = {db'}
      BY <2>1 DEF Sights
    <3> HIDE DEF f, row
    <3>6. Sound(db)'
      BY <1>3, <3>3, <3>4, <3>5 DEF Sound
    <3>7. QED
      BY <3>5, <3>6
  <2>5. QED
    BY <2>3, <2>4
<1>12. ASSUME NEW f \in Paths, NEW readable \in BOOLEAN, NEW hashed \in BOOLEAN, Persist(f, readable, hashed)
       PROVE  \A d \in Sights' : Sound(d)'
  <2> DEFINE row == ScanRow(f, readable, hashed)
             new == SetFile(txn.db, f, row)
  <2>1. /\ txn # None /\ txn.db \in Databases /\ row \in Row
        /\ (db' = new /\ txn' = None) \/ (db' = db /\ txn' = [conn |-> "scan", db |-> new])
    BY <1>12, PersistFacts
  <2>2. new.files = [txn.db.files EXCEPT ![f] = row]
    BY <2>1, SetFileFacts
  <2>3. \A g \in Paths : new.files[g] = IF g = f THEN row ELSE txn.db.files[g]
    BY <2>1, <2>2 DEF Databases
  <2>4. Fine(f, row)
    <3>1. scan.found[f] <= content[f] /\ UNCHANGED content /\ content[f] \in 1..MaxVersion
      BY <1>12 DEF Persist, disk, SoundInv, Types, DiskType
    <3>2. row.status = "ok" => readable
      BY DEF ScanRow, ScanStatus
    <3>3. row.stamp = scan.found[f] /\ (readable => row.tracks = content[f])
      BY DEF ScanRow
    <3> HIDE DEF row
    <3>4. CASE readable
      BY <3>1, <3>3, <3>4, LibraryAssumption DEF SoundRow
    <3>5. QED
      BY <3>2, <3>4 DEF SoundRow
  <2>5. txn.db \in Sights /\ db \in Sights
    BY <2>1 DEF Sights
  <2> HIDE DEF row, new
  <2>6. \A g \in Paths : Fine(g, new.files[g])
    BY <1>3, <2>3, <2>4, <2>5
  <2>7. \A g \in Paths : Fine(g, db.files[g])
    BY <1>3, <2>5
  <2>8. QED
    BY <2>1, <2>6, <2>7 DEF Sights, Sound
<1>13. ASSUME NEW pruning \in BOOLEAN, MarkMissing(pruning)
       PROVE  \A d \in Sights' : Sound(d)'
  <2> DEFINE gone == GoneFrom(scan.scope)
  <2>1. \A f \in gone : db.files[f] # None
    BY DEF GoneFrom
  <2>2. txn' = None /\ db' = IF pruning THEN DeleteFiles(db, gone) ELSE MarkFiles(db, gone)
    BY <1>13 DEF MarkMissing, Transact
  <2>3. db \in Databases /\ db \in Sights
    BY DEF Types, BaseType, Sights
  <2> HIDE DEF gone
  <2>4. CASE pruning
    <3>1. \A f \in Paths : db'.files[f] = IF f \in gone THEN None ELSE db.files[f]
      BY <2>2, <2>3, <2>4, DeleteFilesFacts
    <3>2. \A d \in Sights' : Old(d)
      BY <2>2, <2>3, <3>1 DEF Sights
    <3>3. QED
      BY <1>5, <3>2
  <2>5. CASE ~pruning
    <3>1. \A f \in Paths : db'.files[f] =
             IF f \in gone THEN [db.files[f] EXCEPT !.status = "missing"] ELSE db.files[f]
      BY <2>1, <2>2, <2>3, <2>5, MarkFilesFacts
    <3>2. \A f \in gone \cap Paths : [db.files[f] EXCEPT !.status = "missing"].status = "missing"
      BY <2>1, <2>3 DEF Databases, Row
    <3>3. \A f \in Paths : Fine(f, db'.files[f])
      BY <1>3, <2>3, <3>1, <3>2 DEF SoundRow
    <3>4. QED
      BY <2>2, <3>3 DEF Sights, Sound
  <2>6. QED
    BY <2>4, <2>5
<1>14. CASE ScanStep
  <2>1. CASE BeginBatch \/ EndScan \/ KillScan
    <3>1. Sights' \subseteq Sights
      BY <2>1 DEF BeginBatch, Begin, EndScan, View, InTxn, KillScan, Rollback, Sights
    <3>2. \A d \in Sights' : Old(d)
      BY <3>1
    <3>3. QED
      BY <1>5, <3>2
  <2>2. (\E S \in Scopes : StartScan(S)) \/ Discover \/ Interrupt \/ (\E full \in BOOLEAN : Lookup(full))
          => UNCHANGED <<db, txn>>
    BY DEF StartScan, Discover, Interrupt, Lookup, base
  <2>3. QED
    BY <1>7, <1>12, <1>13, <1>14, <2>1, <2>2 DEF ScanStep, Scanner
<1>15. QED
  BY <1>7, <1>9, <1>10, <1>11, <1>14, WhoSteps

LEMMA SoundInvStep ==
  ASSUME Types, SoundInv, FilesCommitted, [Next]_vars
  PROVE  SoundInv'
<1>1. \A d \in Sights' : Sound(d)'
  BY SoundStep
<1>2. \A f \in Paths : content[f] \in 1..MaxVersion /\ content'[f] \in 1..MaxVersion
                       /\ content[f] <= content'[f]
  BY TypesStep, ContentStep DEF Types, DiskType
<1>3. \A f \in Paths : scan'.found[f] <= content'[f]
  <2>1. ASSUME scan'.found = scan.found PROVE \A f \in Paths : scan'.found[f] <= content'[f]
    <3>1. \A f \in Paths : scan.found[f] \in 0..MaxVersion /\ scan.found[f] <= content[f]
      BY DEF SoundInv, Types, ScanType
    <3>2. QED
      BY <1>2, <2>1, <3>1, LibraryAssumption
  <2>2. ASSUME scan'.found = [f \in Paths |-> 0] PROVE \A f \in Paths : scan'.found[f] <= content'[f]
    BY <1>2, <2>2, LibraryAssumption
  <2>3. CASE Discover
    <3>1. /\ UNCHANGED content
          /\ scan'.found = [f \in Paths |-> IF f \in scan.scope \cap present THEN content[f] ELSE 0]
      BY <2>3 DEF Discover, disk, Types, ScanType
    <3>2. QED
      BY <1>2, <3>1, LibraryAssumption
  <2>4. ASSUME NEW S \in Scopes, StartScan(S) PROVE scan'.found = [f \in Paths |-> 0]
    BY <2>4 DEF StartScan, NoScan
  <2>5. EndScan \/ KillScan => scan'.found = [f \in Paths |-> 0]
    BY DEF EndScan, KillScan, NoScan
  <2>6. ASSUME NEW f \in Paths, NEW readable \in BOOLEAN, NEW hashed \in BOOLEAN, Persist(f, readable, hashed)
        PROVE  scan'.found = scan.found
    BY <2>6, PersistFacts
  <2>7. BeginBatch \/ Interrupt \/ (\E full \in BOOLEAN : Lookup(full)) \/ (\E pruning \in BOOLEAN : MarkMissing(pruning))
          => scan'.found = scan.found
    BY DEF BeginBatch, Interrupt, Lookup, MarkMissing, Types, ScanType
  <2>8. CASE ScanStep
    BY <2>1, <2>2, <2>3, <2>4, <2>5, <2>6, <2>7, <2>8 DEF ScanStep, Scanner
  <2>9. CASE DiskStep \/ ProcStep \/ PruneStep \/ ApiStep \/ UNCHANGED vars
    BY <2>1, <2>9 DEF DiskStep, ProcStep, PruneStep, ApiStep, vars
  <2>10. QED
    BY <2>8, <2>9, WhoSteps
<1> DEFINE ProcFine == /\ proc.pc \in {"stat", "write"} => proc.tracks <= content[proc.file]
                       /\ proc.pc = "write" => proc.tracks <= proc.stamp /\ proc.stamp <= content[proc.file]
<1>4. ProcFine'
  <2>1. CASE UNCHANGED proc
    <3>1. proc.pc # "idle" => proc.file \in Paths /\ proc.tracks \in 0..MaxVersion /\ proc.stamp \in 0..MaxVersion
      BY DEF Types, ProcType
    <3>2. QED
      BY <1>2, <2>1, <3>1, LibraryAssumption DEF SoundInv
  <2>2. proc'.pc \notin {"stat", "write"} => ProcFine'
    OBVIOUS
  <2>3. CASE Introspect /\ proc.file \in present
    <3>1. /\ proc'.pc = "stat" /\ proc'.file = proc.file /\ proc'.tracks = content[proc.file]
          /\ UNCHANGED content /\ proc.file \in Paths
      BY <2>3 DEF Introspect, disk, Types, ProcType, DiskType
    <3>2. QED
      BY <1>2, <3>1, LibraryAssumption
  <2>4. CASE Stat /\ proc.file \in present
    <3>1. /\ proc'.pc = "write" /\ proc'.file = proc.file /\ proc'.stamp = content[proc.file]
          /\ proc'.tracks = proc.tracks /\ proc.tracks <= content[proc.file]
          /\ UNCHANGED content /\ proc.file \in Paths
      BY <2>4 DEF Stat, disk, Types, ProcType, DiskType, SoundInv
    <3>2. QED
      BY <1>2, <3>1, LibraryAssumption
  <2>5. ASSUME NEW f \in Paths, Rework(f) PROVE proc'.pc = "introspect"
    BY <2>5 DEF Rework, NoProc
  <2>5a. (Introspect /\ proc.file \notin present) \/ (Stat /\ proc.file \notin present) \/ WriteTracks
          \/ WriteTimesOut => proc'.pc = "idle"
    BY DEF Introspect, Stat, WriteTracks, WriteTimesOut, NoProc
  <2>6. CASE ProcStep
    BY <2>2, <2>3, <2>4, <2>5, <2>5a, <2>6 DEF ProcStep, Workflow
  <2>7. CASE DiskStep \/ ScanStep \/ PruneStep \/ ApiStep \/ UNCHANGED vars
    <3>1. UNCHANGED proc
      BY <2>7 DEF DiskStep, ScanStep, PruneStep, ApiStep, vars
    <3>2. QED
      BY <2>1, <3>1
  <2>8. QED
    BY <2>6, <2>7, WhoSteps
<1>5. QED
  BY <1>1, <1>3, <1>4 DEF SoundInv

\* A step of another leaves what an undisturbed scan has achieved.
LEMMA ScanInvOthers ==
  ASSUME Types, FilesCommitted, ScanInv, [Next]_vars,
         DiskStep \/ ProcStep \/ PruneStep \/ ApiStep \/ UNCHANGED vars
  PROVE  ScanInv'
<1>1. CASE ~history'.quiet
  BY <1>1 DEF ScanInv
<1>2. CASE history'.quiet
  <2>1. ASSUME NEW S, StartScan(S) PROVE scan'.pc # scan.pc
    BY <2>1 DEF StartScan, NoScan
  <2>2. UNCHANGED scan
    BY DEF DiskStep, ProcStep, PruneStep, ApiStep, vars
  <2>3. history.quiet /\ UNCHANGED <<content, present>>
    BY <1>2, <2>1, <2>2, HistoryFacts
  <2>4. View("scan")'.files = View("scan").files
    <3>1. CASE DiskStep \/ UNCHANGED vars
      BY <3>1 DEF DiskStep, vars, View, InTxn
    <3>2. ASSUME FilesStay PROVE View("scan")'.files = View("scan").files
      BY <3>2 DEF FilesStay, View, InTxn
    <3>3. CASE PruneStep
      <4>1. ~Cut(prune.conn) \/ ~history'.quiet
        BY DEF Cut, Types, DiskType
      <4>2. QED
        BY <1>2, <3>2, <3>3, <4>1, PruneFiles
    <3>4. CASE ApiStep \/ (ProcStep /\ ~WriteTracks)
      BY <3>2, <3>4, ApiFiles, ProcFiles
    <3>5. ~WriteTracks
      BY <1>2 DEF WriteTracks, Types, DiskType
    <3>6. QED
      BY <3>1, <3>3, <3>4, <3>5
  <2>5. QED
    BY <2>2, <2>3, <2>4 DEF ScanInv, Past, Seen, Unseen
<1>3. QED
  BY <1>1, <1>2

\* The steps of the scan itself.
LEMMA ScanInvScan ==
  ASSUME Types, FilesCommitted, ScanInv, [Next]_vars, ScanStep
  PROVE  ScanInv'
<1>0. UNCHANGED <<content, present>> /\ present \subseteq Paths /\ Scopes \subseteq SUBSET Paths
  BY LibraryAssumption DEF ScanStep, Types, DiskType
<1>1. ASSUME NEW S \in Scopes, StartScan(S) PROVE ScanInv'
  <2>1. scan'.pc = "discover"
    BY <1>1 DEF StartScan, NoScan
  <2>2. QED
    BY <2>1 DEF ScanInv, Past
<1> SUFFICES ASSUME history'.quiet, \A S \in Scopes : ~StartScan(S)
             PROVE  ScanInv'
  BY <1>1 DEF ScanInv
<1>2. history.quiet
  BY HistoryFacts
<1>3. CASE Discover
  <2>1. /\ scan'.pc = "lookup" /\ scan'.scope = scan.scope /\ scan.scope \subseteq Paths
        /\ scan'.found = [f \in Paths |-> IF f \in scan.scope \cap present THEN content[f] ELSE 0]
    BY <1>3 DEF Discover, Types, ScanType
  <2>2. \A f \in scan'.scope : scan'.found[f] = IF f \in present' THEN content'[f] ELSE 0
    BY <1>0, <2>1
  <2>3. QED
    BY <2>1, <2>2 DEF ScanInv, Past
<1>4. ASSUME NEW full \in BOOLEAN, Lookup(full) PROVE ScanInv'
  <2>1. /\ scan.pc = "lookup" /\ scan'.pc = "missing" /\ scan'.scope = scan.scope /\ scan'.found = scan.found
        /\ scan'.todo = {f \in scan.scope : scan.found[f] # 0 /\ (full \/ NeedsRescan(db.files[f], scan.found[f]))}
        /\ UNCHANGED <<db, txn>>
    BY <1>4 DEF Lookup, base, Types, ScanType
  <2>2. ~InTxn("scan")
    BY <2>1 DEF Types, ScanHolds
  <2>3. \A f \in scan.scope : scan.found[f] = IF f \in present THEN content[f] ELSE 0
    BY <1>2, <2>1 DEF ScanInv, Past
  <2>4. ASSUME NEW f \in (scan'.scope \cap present') \ scan'.todo PROVE Seen(f)'
    <3>1. f \in scan.scope /\ f \in present /\ f \notin scan'.todo
      BY <1>0, <2>1
    <3>2. scan.found[f] = content[f] /\ content[f] # 0
      BY <1>0, <2>3, <3>1 DEF Types, DiskType
    <3>3. ~NeedsRescan(db.files[f], scan.found[f])
      BY <2>1, <3>1, <3>2
    <3>4. View("scan")' = db
      BY <2>1, <2>2 DEF View, InTxn
    <3>5. QED
      BY <1>0, <3>2, <3>3, <3>4 DEF NeedsRescan, Seen
  <2>5. \A f \in scan'.scope : scan'.found[f] = IF f \in present' THEN content'[f] ELSE 0
    BY <1>0, <2>1, <2>3
  <2>6. QED
    BY <2>1, <2>4, <2>5 DEF ScanInv, Past
<1>5. ASSUME NEW pruning \in BOOLEAN, MarkMissing(pruning) PROVE ScanInv'
  <2> DEFINE gone == GoneFrom(scan.scope)
  <2>1. /\ scan.pc = "missing" /\ scan'.pc = (IF scan.todo = {} THEN "end" ELSE "begin")
        /\ scan'.scope = scan.scope /\ scan'.found = scan.found /\ scan'.todo = scan.todo
        /\ txn' = None /\ txn = None
        /\ db' = IF pruning THEN DeleteFiles(db, gone) ELSE MarkFiles(db, gone)
    BY <1>5 DEF MarkMissing, Transact, Types, ScanType
  <2>2. View("scan") = db /\ View("scan")' = db' /\ db \in Databases
    BY <2>1 DEF View, InTxn, Types, BaseType
  <2>3. \A f \in scan.scope : scan.found[f] = IF f \in present THEN content[f] ELSE 0
    BY <1>2, <2>1 DEF ScanInv, Past
  <2>4. \A f \in gone : db.files[f] # None /\ f \notin present
    BY DEF GoneFrom
  <2>5. \A f \in scan.scope \ present : f \in Paths /\ (f \in gone \/ db.files[f] = None)
    <3>1. scan.scope \in Scopes
      BY <2>1 DEF Types, ScanType
    <3>2. scan.scope \subseteq Like(scan.scope) /\ scan.scope \subseteq Paths
      BY <1>0, <3>1, LibraryAssumption
    <3>3. QED
      BY <2>3, <3>2 DEF GoneFrom
  <2> HIDE DEF gone
  <2>6. \A f \in Paths : db'.files[f] = IF f \in gone THEN (IF pruning THEN None ELSE [db.files[f] EXCEPT !.status = "missing"])
                                        ELSE db.files[f]
    <3>1. CASE pruning
      BY <2>1, <2>2, <3>1, DeleteFilesFacts
    <3>2. CASE ~pruning
      <4>1. \A f \in gone : db.files[f] # None
        BY <2>4
      <4>2. QED
        BY <2>1, <2>2, <3>2, <4>1, MarkFilesFacts
    <3>3. QED
      BY <3>1, <3>2
  <2>7. ASSUME NEW f \in (scan'.scope \cap present') \ scan'.todo PROVE Seen(f)'
    <3>1. f \in scan.scope /\ f \in present /\ f \notin scan.todo /\ f \in Paths
      BY <1>0, <2>1
    <3>2. db.files[f] # None /\ db.files[f].stamp = content[f]
      BY <1>2, <2>1, <2>2, <3>1 DEF ScanInv, Past, Seen
    <3>3. db'.files[f] = db.files[f]
      BY <2>4, <2>6, <3>1
    <3>4. QED
      BY <1>0, <2>2, <3>2, <3>3 DEF Seen
  <2>8. ASSUME NEW f \in scan'.scope \ present' PROVE Unseen(f)'
    <3>1. f \in Paths /\ (f \in gone \/ db.files[f] = None)
      BY <1>0, <2>1, <2>5
    <3>2. f \in gone => [db.files[f] EXCEPT !.status = "missing"].status = "missing"
      BY <2>2, <2>4, <3>1 DEF Databases, Row
    <3>3. QED
      BY <2>2, <2>6, <3>1, <3>2 DEF Unseen
  <2>9. \A f \in scan'.scope : scan'.found[f] = IF f \in present' THEN content'[f] ELSE 0
    BY <1>0, <2>1, <2>3
  <2>10. scan'.pc = "end" => scan'.todo = {}
    BY <2>1
  <2>11. QED
    BY <2>7, <2>8, <2>9, <2>10 DEF ScanInv, Past
<1>6. CASE BeginBatch
  <2>1. /\ scan.pc = "begin" /\ scan'.pc = "persist" /\ scan'.scope = scan.scope /\ scan'.found = scan.found
        /\ scan'.todo = scan.todo /\ txn = None /\ txn' = [conn |-> "scan", db |-> db] /\ db' = db
    BY <1>6 DEF BeginBatch, Begin, Types, ScanType
  <2>2. View("scan")' = View("scan")
    BY <2>1 DEF View, InTxn
  <2>3. QED
    BY <1>0, <1>2, <2>1, <2>2 DEF ScanInv, Past, Seen, Unseen
<1>7. ASSUME NEW f \in Paths, NEW readable \in BOOLEAN, NEW hashed \in BOOLEAN, Persist(f, readable, hashed)
      PROVE  ScanInv'
  <2> DEFINE row == ScanRow(f, readable, hashed)
             new == SetFile(txn.db, f, row)
  <2>1. /\ txn # None /\ txn.conn = "scan" /\ txn.db \in Databases /\ row \in Row /\ new \in Databases
        /\ (db' = new /\ txn' = None) \/ (db' = db /\ txn' = [conn |-> "scan", db |-> new])
        /\ scan.pc = "persist" /\ f \in scan.todo
        /\ scan'.todo = scan.todo \ {f} /\ scan'.found = scan.found /\ scan'.scope = scan.scope
        /\ (scan'.pc = "end" <=> scan.todo = {f})
    BY <1>7, PersistFacts
  <2>2. new.files = [txn.db.files EXCEPT ![f] = row]
    BY <2>1, SetFileFacts
  <2>3. \A g \in Paths : new.files[g] = IF g = f THEN row ELSE txn.db.files[g]
    BY <2>1, <2>2 DEF Databases
  <2>4. row.stamp = scan.found[f] /\ row # None
    BY <2>1, NoneAssumption DEF ScanRow
  <2>5. View("scan") = txn.db
    BY <2>1 DEF View, InTxn
  <2>6. [conn |-> "scan", db |-> new] # None
    BY <2>1, TxnFacts DEF Conns
  <2>7. PICK d : d = new
    OBVIOUS
  <2> HIDE DEF row, new
  <2>8. View("scan")' = d
    BY <2>1, <2>6, <2>7 DEF View, InTxn
  <2>9. \A g \in scan.scope : scan.found[g] = IF g \in present THEN content[g] ELSE 0
    BY <1>2, <2>1 DEF ScanInv, Past
  <2>10. f \in scan.scope /\ f \in present /\ scan.found[f] = content[f]
    BY <2>1, <2>9 DEF Types, ScanType
  <2>11. ASSUME NEW g \in (scan'.scope \cap present') \ scan'.todo PROVE Seen(g)'
    <3>1. g \in Paths /\ d.files[g] # None /\ d.files[g].stamp = content[g]
      <4>1. g \in scan.scope /\ g \in present /\ (g = f \/ g \notin scan.todo) /\ g \in Paths
        BY <1>0, <2>1
      <4>2. CASE g = f
        BY <2>3, <2>4, <2>7, <2>10, <4>1, <4>2
      <4>3. CASE g # f
        BY <1>2, <2>1, <2>3, <2>5, <2>7, <4>1, <4>3 DEF ScanInv, Past, Seen
      <4>4. QED
        BY <4>2, <4>3
    <3>2. QED
      BY <1>0, <2>8, <3>1 DEF Seen
  <2>12. ASSUME NEW g \in scan'.scope \ present' PROVE Unseen(g)'
    <3>1. g \in scan.scope /\ g \notin present /\ g # f /\ g \in Paths
      BY <1>0, <2>1, <2>10 DEF Types, ScanType
    <3>2. d.files[g] = txn.db.files[g]
      BY <2>3, <2>7, <3>1
    <3>3. QED
      BY <1>2, <2>1, <2>5, <2>8, <3>1, <3>2 DEF ScanInv, Past, Unseen
  <2>13. \A g \in scan'.scope : scan'.found[g] = IF g \in present' THEN content'[g] ELSE 0
    BY <1>0, <2>1, <2>9
  <2>14. scan'.pc = "end" => scan'.todo = {}
    BY <2>1
  <2>15. QED
    BY <2>11, <2>12, <2>13, <2>14 DEF ScanInv, Past
<1>8. CASE Interrupt
  <2>1. scan'.pc = "end" /\ scan'.interrupted
    BY <1>8 DEF Interrupt, Types, ScanType
  <2>2. QED
    BY <2>1 DEF ScanInv, Past
<1>9. ~EndScan /\ ~KillScan
  BY DEF EndScan, KillScan, Disturb, Types, DiskType
<1>10. QED
  BY <1>3, <1>4, <1>5, <1>6, <1>7, <1>8, <1>9 DEF ScanStep, Scanner

LEMMA InitRows == Init => RowsInv
<1> SUFFICES ASSUME Init PROVE RowsInv
  OBVIOUS
<1>1. Types
  BY InitTypes
<1>2. /\ content = [f \in Paths |-> 1] /\ present = Paths /\ txn = None /\ Sights = {db}
      /\ \A f \in Paths : db.files[f] = None
      /\ scan.pc = "idle" /\ scan.found = [f \in Paths |-> 0] /\ proc.pc = "idle" /\ prune.missing = {}
      /\ history.quiet = FALSE
  BY DEF Init, NoScan, NoProc, NoPrune, Sights
<1>3. KeptInv
  BY <1>2 DEF KeptInv, Kept
<1>4. SoundInv
  BY <1>2 DEF SoundInv, Sound, SoundRow
<1>5. FilesCommitted /\ ScanInv
  BY <1>2 DEF FilesCommitted, ScanInv
<1>6. QED
  BY <1>1, <1>3, <1>4, <1>5 DEF RowsInv

LEMMA RowsInvStep ==
  ASSUME RowsInv, [Next]_vars
  PROVE  RowsInv'
<1>1. ScanInv'
  BY ScanInvOthers, ScanInvScan, WhoSteps DEF RowsInv
<1>2. QED
  BY <1>1, TypesStep, KeptStep, SoundInvStep, FilesCommittedStep DEF RowsInv

LEMMA RowsInvTells ==
  ASSUME RowsInv
  PROVE  RowsTell
<1>1. StampTells
  <2>1. SUFFICES ASSUME NEW f \in present, db.files[f] # None, db.files[f].status = "ok",
                        db.files[f].stamp = content[f], ~Torn(f, db.files[f])
                 PROVE  db.files[f].tracks = content[f]
    BY DEF StampTells
  <2>2. f \in Paths /\ db.files[f] \in Row /\ content[f] \in 1..MaxVersion
    BY <2>1 DEF RowsInv, Types, DiskType, BaseType, Databases
  <2>3. db.files[f].stamp <= db.files[f].tracks /\ db.files[f].tracks <= content[f]
    BY <2>1, <2>2 DEF RowsInv, SoundInv, Sound, SoundRow, Sights, Torn
  <2>4. QED
    BY <2>1, <2>2, <2>3, LibraryAssumption DEF Row
<1>2. ScanTells
  <2>1. SUFFICES ASSUME scan.pc = "end", ~scan.interrupted, history.quiet, NEW f \in scan.scope
                 PROVE  LET row == View("scan").files[f]
                        IN  IF f \in present
                              THEN /\ row # None /\ row.stamp = content[f]
                                   /\ row.status = "missing" => f \in history.went
                              ELSE row = None \/ row.status = "missing"
    BY DEF ScanTells
  <2>2. f \in Paths
    BY <2>1 DEF RowsInv, Types, ScanType
  <2>3. CASE f \in present
    <3>1. Seen(f)
      BY <2>1, <2>3 DEF RowsInv, ScanInv, Past
    <3>2. Kept(View("scan"))
      BY DEF RowsInv, KeptInv, Sights, View, InTxn
    <3>3. QED
      BY <2>2, <2>3, <3>1, <3>2 DEF Seen, Kept
  <2>4. CASE f \notin present
    <3>1. Unseen(f)
      BY <2>1, <2>4 DEF RowsInv, ScanInv, Past
    <3>2. QED
      BY <2>4, <3>1 DEF Unseen
  <2>5. QED
    BY <2>3, <2>4
<1>3. QED
  BY <1>1, <1>2 DEF RowsTell

\* The row of a file that has always been there is not lost by any step.
LEMMA NeverLostStep ==
  ASSUME RowsInv, [Next]_vars
  PROVE  NeverLost \/ UNCHANGED vars
<1>1. KeptInv' /\ KeptInv /\ Types /\ FilesCommitted
  BY RowsInvStep DEF RowsInv
<1>2. Kept(db)'
  BY <1>1 DEF KeptInv, Sights
<1> DEFINE Held == \A f \in Paths \ history.went : db.files[f] # None => db'.files[f] # None
<1>3. ASSUME Held PROVE NeverLost
  <2>1. CASE UNCHANGED present
    <3>1. history'.went = history.went
      BY <2>1, <1>1, HistoryFacts
    <3>2. QED
      BY <1>2, <1>3, <3>1 DEF NeverLost, Kept
  <2>2. CASE DiskStep
    <3>1. db' = db
      BY <2>2 DEF DiskStep
    <3>2. Kept(db)
      BY <1>1 DEF KeptInv, Sights
    <3>3. QED
      BY <3>1, <3>2 DEF NeverLost, Kept
  <2>3. QED
    BY <2>1, <2>2, WhoSteps DEF ScanStep, ProcStep, PruneStep, ApiStep, vars
<1>4. db' = db \/ (txn # None /\ db' = txn.db) => Held
  BY <1>1 DEF KeptInv
<1>5. CASE DiskStep \/ UNCHANGED vars
  BY <1>3, <1>4, <1>5 DEF DiskStep, vars
<1>6. FilesStay => Held
  BY DEF FilesStay
<1>7. CASE PruneStep
  <2>1. CASE FilesStay
    BY <1>3, <1>6, <2>1
  <2>2. CASE \A f \in Paths : db'.files[f] = IF f \in prune.missing THEN None ELSE db.files[f]
    BY <1>1, <1>3, <2>2 DEF KeptInv
  <2>3. QED
    BY <1>1, <1>7, <2>1, <2>2, PruneFiles
<1>8. CASE ApiStep \/ (ProcStep /\ ~WriteTracks)
  BY <1>1, <1>3, <1>6, <1>8, ApiFiles, ProcFiles
<1>9. CASE ProcStep /\ WriteTracks
  <2> DEFINE f == proc.file
             row == [db.files[f] EXCEPT !.stamp = proc.stamp, !.tracks = proc.tracks]
  <2>1. /\ f \in Paths /\ db \in Databases /\ proc.stamp \in 1..MaxVersion /\ proc.tracks \in 0..MaxVersion
        /\ db' = (IF db.files[f] = None THEN db ELSE SetFile(db, f, row))
    BY <1>1, <1>9 DEF WriteTracks, Transact, Types, ProcType, BaseType
  <2>2. CASE db.files[f] = None
    BY <1>3, <1>4, <2>1, <2>2
  <2>3. CASE db.files[f] # None
    <3>1. db.files[f] \in Row
      BY <2>1, <2>3 DEF Databases
    <3>2. row \in Row
      BY <2>1, <3>1 DEF Row
    <3>3. db'.files = [db.files EXCEPT ![f] = row]
      BY <2>1, <2>3, <3>2, SetFileFacts
    <3> HIDE DEF row
    <3>4. Held
      BY <2>1, <3>2, <3>3, NoneAssumption DEF Databases
    <3>5. QED
      BY <1>3, <3>4
  <2>4. QED
    BY <2>2, <2>3
<1>10. ASSUME NEW f \in Paths, NEW readable \in BOOLEAN, NEW hashed \in BOOLEAN, Persist(f, readable, hashed)
       PROVE  Held
  <2> DEFINE row == ScanRow(f, readable, hashed)
             new == SetFile(txn.db, f, row)
  <2>1. /\ txn # None /\ txn.db \in Databases /\ row \in Row /\ (db' = new \/ db' = db)
    BY <1>1, <1>10, PersistFacts
  <2>2. new.files = [txn.db.files EXCEPT ![f] = row]
    BY <2>1, SetFileFacts
  <2>3. \A g \in Paths : new.files[g] = IF g = f THEN row ELSE txn.db.files[g]
    BY <2>1, <2>2 DEF Databases
  <2> HIDE DEF row, new
  <2>4. \A g \in Paths \ history.went : db.files[g] # None => new.files[g] # None
    BY <1>1, <2>1, <2>3, NoneAssumption DEF KeptInv
  <2>5. QED
    BY <2>1, <2>4
<1>11. ASSUME NEW pruning \in BOOLEAN, MarkMissing(pruning) PROVE Held
  <2>1. \A f \in present : db'.files[f] = db.files[f]
    BY <1>1, <1>11, MarkMissingKeeps
  <2>2. QED
    BY <1>1, <2>1 DEF KeptInv
<1>12. CASE ScanStep
  <2>1. (\E S \in Scopes : StartScan(S)) \/ Discover \/ Interrupt \/ (\E full \in BOOLEAN : Lookup(full))
          \/ BeginBatch \/ KillScan => db' = db
    BY DEF StartScan, Discover, Interrupt, Lookup, BeginBatch, Begin, KillScan, Rollback, base
  <2>2. EndScan => db' = db \/ (txn # None /\ db' = txn.db)
    BY DEF EndScan, View, InTxn
  <2>3. QED
    BY <1>3, <1>4, <1>10, <1>11, <1>12, <2>1, <2>2 DEF ScanStep, Scanner
<1>13. QED
  BY <1>5, <1>7, <1>8, <1>9, <1>12, WhoSteps

\* Time and size of a row that is good and not torn are those of its tracks, an
\* undisturbed scan leaves the rows of its directories true, and no step loses the row
\* of a file that has always been there, nor calls it missing.
THEOREM LibraryRowsHold == Spec => RowsHold
<1>1. Init => RowsInv
  BY InitRows
<1>2. RowsInv /\ [Next]_vars => RowsInv'
  BY RowsInvStep
<1>3. RowsInv /\ RowsInv' /\ [Next]_vars => [RowsTell' /\ NeverLost]_vars
  <2>1. RowsInv' => RowsTell'
    BY RowsInvTells, PTL
  <2>2. QED
    BY <2>1, NeverLostStep
<1>4. QED
  BY <1>1, <1>2, <1>3, PTL DEF Spec, RowsHold

----------------------------------------------------------------------------
(* Plans, jobs, and the answers to requests.                               *)

SamePlans(d, e) == d.plans = e.plans /\ d.jobs = e.jobs

\* Only the pool's connection has plans and jobs in a transaction.
PlansStay ==
    IF InTxn("pool") THEN UNCHANGED <<db, txn>>
    ELSE /\ SamePlans(db', db) /\ ~InTxn("pool")'
         /\ txn' # None => SamePlans(txn'.db, db)

\* Scans and workflows leave the transaction of the pool, and plans and jobs, alone.
LEMMA ScanPlans ==
  ASSUME Types, PlansInv, ScanStep
  PROVE  PlansStay
<1> USE DEF SamePlans
<1>1. txn # None /\ txn.conn # "pool" => SamePlans(txn.db, db)
  BY DEF PlansInv
<1>2. CASE UNCHANGED <<db, txn>>
  BY <1>1, <1>2 DEF PlansStay, InTxn
<1>3. ASSUME NEW f \in Paths, NEW readable \in BOOLEAN, NEW hashed \in BOOLEAN, Persist(f, readable, hashed)
      PROVE  PlansStay
  <2> DEFINE row == ScanRow(f, readable, hashed)
             new == SetFile(txn.db, f, row)
  <2>1. /\ txn # None /\ txn.conn = "scan" /\ txn.db \in Databases /\ row \in Row
        /\ (db' = new /\ txn' = None) \/ (db' = db /\ txn' = [conn |-> "scan", db |-> new])
    BY <1>3, PersistFacts
  <2> HIDE DEF row
  <2>2. SamePlans(new, txn.db)
    BY <2>1, SetFileFacts
  <2> HIDE DEF new
  <2>3. QED
    BY <1>1, <2>1, <2>2 DEF PlansStay, InTxn
<1>4. ASSUME NEW pruning \in BOOLEAN, MarkMissing(pruning) PROVE PlansStay
  <2> DEFINE gone == GoneFrom(scan.scope)
  <2>1. \A f \in gone : db.files[f] # None
    BY DEF GoneFrom
  <2>2. txn = None /\ txn' = None /\ db' = IF pruning THEN DeleteFiles(db, gone) ELSE MarkFiles(db, gone)
    BY <1>4 DEF MarkMissing, Transact
  <2>3. db \in Databases
    BY DEF Types, BaseType
  <2> HIDE DEF gone
  <2>4. SamePlans(db', db)
    BY <2>1, <2>2, <2>3, DeleteFilesFacts, MarkFilesFacts
  <2>5. QED
    BY <2>2, <2>4 DEF PlansStay, InTxn
<1>5. CASE BeginBatch
  BY <1>5 DEF BeginBatch, Begin, PlansStay, InTxn
<1>6. CASE EndScan
  BY <1>1, <1>6 DEF EndScan, Locked, View, InTxn, PlansStay
<1>7. CASE KillScan
  BY <1>1, <1>7 DEF KillScan, Rollback, InTxn, PlansStay
<1>8. (\E S \in Scopes : StartScan(S)) \/ Discover \/ Interrupt \/ (\E full \in BOOLEAN : Lookup(full))
        => UNCHANGED <<db, txn>>
  BY DEF StartScan, Discover, Interrupt, Lookup, base
<1>9. QED
  BY <1>2, <1>3, <1>4, <1>5, <1>6, <1>7, <1>8 DEF ScanStep, Scanner

LEMMA ProcPlans ==
  ASSUME Types, PlansInv, ProcStep
  PROVE  PlansStay
<1> USE DEF SamePlans
<1>1. CASE WriteTracks
  <2> DEFINE f == proc.file
             row == [db.files[f] EXCEPT !.stamp = proc.stamp, !.tracks = proc.tracks]
  <2>1. /\ f \in Paths /\ db \in Databases /\ proc.stamp \in 1..MaxVersion /\ proc.tracks \in 0..MaxVersion
        /\ db' = (IF db.files[f] = None THEN db ELSE SetFile(db, f, row)) /\ txn = None /\ txn' = None
    BY <1>1 DEF WriteTracks, Transact, Types, ProcType, BaseType
  <2>2. ASSUME db.files[f] # None PROVE row \in Row
    <3>1. db.files[f] \in Row
      BY <2>1, <2>2 DEF Databases
    <3>2. QED
      BY <2>1, <3>1 DEF Row
  <2> HIDE DEF row
  <2>3. SamePlans(db', db)
    BY <2>1, <2>2, SetFileFacts
  <2>4. QED
    BY <2>1, <2>3 DEF PlansStay, InTxn
<1>2. CASE ~WriteTracks
  <2>1. UNCHANGED <<db, txn>>
    BY <1>2 DEF ProcStep, Workflow, Rework, Introspect, Stat, WriteTimesOut, base
  <2>2. QED
    BY <2>1 DEF PlansStay, PlansInv, InTxn
<1>3. QED
  BY <1>1, <1>2

\* Where plans and jobs stay, so do the invariants about them.
LEMMA PlansStayKeeps ==
  ASSUME AnswersInv, PlansStay, UNCHANGED <<req, lock>>, history'.split = history.split
  PROVE  AnswersInv' /\ db'.plans = db.plans
<1> USE DEF SamePlans
<1>1. LockInv'
  BY DEF AnswersInv, LockInv
<1>2. CASE InTxn("pool")
  <2>1. UNCHANGED <<db, txn>>
    BY <1>2 DEF PlansStay
  <2>2. PlansInv'
    BY <2>1 DEF AnswersInv, PlansInv, JobsOK, Whole, Split
  <2>3. RequestInv'
    BY <2>1 DEF AnswersInv, RequestInv, View, InTxn
  <2>4. QED
    BY <1>1, <2>1, <2>2, <2>3 DEF AnswersInv
<1>3. CASE ~InTxn("pool")
  <2>1. /\ db'.plans = db.plans /\ db'.jobs = db.jobs /\ ~InTxn("pool")'
        /\ txn' # None => txn'.db.plans = db.plans /\ txn'.db.jobs = db.jobs
    BY <1>3 DEF PlansStay
  <2>2. PlansInv'
    BY <2>1 DEF AnswersInv, PlansInv, JobsOK, Whole
  <2>3. RequestInv'
    BY <1>3, <2>1 DEF AnswersInv, RequestInv, View
  <2>4. QED
    BY <1>1, <2>1, <2>2, <2>3 DEF AnswersInv
<1>4. QED
  BY <1>2, <1>3

\* A prune may commit what a request has in its transaction, and tells what it cut.
LEMMA PrunePlans ==
  ASSUME Types, AnswersInv, PruneStep
  PROVE  /\ AnswersInv'
         /\ \A p \in Plans : db.plans[p] # "pending" => db'.plans[p] = db.plans[p]
<1> USE DEF SamePlans
<1> PICK c \in {"worker", "pool"} : c = prune.conn
  BY DEF Types, PruneType
<1>1. UNCHANGED <<req, lock>> /\ c \in {"worker", "pool"} /\ View(c) \in Databases
  BY ViewFacts DEF PruneStep, Types
<1>2. LockInv' /\ Split(c)' = Split(c)
  BY <1>1 DEF AnswersInv, LockInv, Split
<1>3. UNCHANGED history \/ Cut(c)
  BY DEF PruneStep, StartPrune, Pruner, CreatePruneJob, SelectMissing, BeginPrune, DeleteMissing, CompletePrune
<1>4. history.split \subseteq history'.split /\ (Cut(c) => history'.split = history.split \cup Split(c))
  BY <1>3 DEF Cut, Types, DiskType
<1>5. ASSUME SamePlans(View("pool")', View("pool")) PROVE RequestInv'
  BY <1>1, <1>5 DEF AnswersInv, RequestInv
<1>6. \A p \in Plans : View(c).plans[p] = db.plans[p] \/ db.plans[p] = "pending"
  BY DEF View, InTxn, AnswersInv, PlansInv
<1>7. /\ JobsOK(View(c)) /\ Whole(View(c), history.split \cup Split(c))
      /\ c # "pool" => SamePlans(View(c), db)
  BY DEF View, InTxn, AnswersInv, PlansInv, Whole
<1>8. ASSUME ~Locked(c) PROVE View(c) = View("pool") \/ (c # "pool" /\ View("pool") = db)
  BY <1>8 DEF Locked, View, InTxn
<1>9. CASE UNCHANGED <<db, txn>>
  <2>1. PlansInv'
    BY <1>1, <1>4, <1>9 DEF AnswersInv, PlansInv, JobsOK, Whole, Split
  <2>2. RequestInv'
    BY <1>5, <1>9 DEF View, InTxn
  <2>3. QED
    BY <1>2, <1>9, <2>1, <2>2 DEF AnswersInv
<1>10. CASE UNCHANGED db /\ ~Locked(c) /\ txn' = [conn |-> c, db |-> View(c)]
  <2>1. PlansInv'
    <3>1. JobsOK(db)' /\ Whole(db, history.split)'
      BY <1>4, <1>10 DEF AnswersInv, PlansInv, JobsOK, Whole
    <3>2. JobsOK(View(c)) /\ Whole(View(c), history'.split \cup Split(c)')
      BY <1>2, <1>4, <1>7 DEF Whole
    <3>3. txn'.conn = c /\ txn'.db = View(c) /\ db' = db
      BY <1>10
    <3>4. \A p \in Plans : db.plans[p] # "pending" => View(c).plans[p] = db.plans[p]
      BY <1>6
    <3>5. c # "pool" => View(c).plans = db.plans /\ View(c).jobs = db.jobs
      BY <1>7
    <3>6. PICK d : d = View(c)
      OBVIOUS
    <3>7. JobsOK(txn.db)'
      BY <3>2, <3>3, <3>6 DEF JobsOK
    <3>8. Whole(txn.db, history.split \cup Split(txn.conn))'
      BY <1>1, <3>2, <3>3, <3>6 DEF Whole, Split
    <3>9. QED
      BY <3>1, <3>3, <3>4, <3>5, <3>7, <3>8 DEF PlansInv
  <2>2. RequestInv'
    <3>1. [conn |-> c, db |-> View(c)] # None
      BY <1>1, TxnFacts DEF Conns
    <3>2. View("pool")' = IF c = "pool" THEN View(c) ELSE db
      BY <1>1, <1>10, <3>1 DEF View, InTxn
    <3>3. SamePlans(View("pool")', View("pool"))
      BY <1>7, <1>8, <1>10, <3>2
    <3>4. QED
      BY <1>5, <3>3
  <2>3. QED
    BY <1>2, <1>10, <2>1, <2>2 DEF AnswersInv
<1>11. CASE ~Locked(c) /\ Cut(c) /\ SamePlans(db', View(c)) /\ txn' = None
  <2>1. PlansInv'
    <3>1. JobsOK(db)' /\ Whole(db, history.split)'
      BY <1>4, <1>7, <1>11 DEF JobsOK, Whole
    <3>2. QED
      BY <1>11, <3>1 DEF PlansInv
  <2>2. View("pool")' = db'
    BY <1>11 DEF View, InTxn
  <2>3. RequestInv'
    BY <1>5, <1>7, <1>8, <1>11, <2>2
  <2>4. QED
    BY <1>2, <1>6, <1>11, <2>1, <2>3 DEF AnswersInv
<1>12. InTxn(c) /\ Cut(c) /\ db' = txn.db /\ txn' = None => ~Locked(c) /\ SamePlans(db', View(c))
  BY DEF InTxn, Locked, View
<1>13. db' = DeleteFiles(View(c), prune.missing) => SamePlans(db', View(c))
  BY <1>1, DeleteFilesFacts
<1>14. QED
  BY <1>9, <1>10, <1>11, <1>12, <1>13, PruneBase

\* Only the request that has the lock is under way.
LEMMA LockStep ==
  ASSUME Types, LockInv, NEW r \in Requests, Acquire(r) \/ Request(r)
  PROVE  /\ LockInv'
         /\ \A s \in Requests \ {r} : req'[s] = req[s] /\ req[s] \notin Holding
         /\ req'[r] = "done" => req[r] = "commit" /\ CommitRequest(r)
         /\ req'[r] = "insert" => req[r] = "decide"
<1> USE LibraryAssumption DEF LockInv, Holding
<1>1. req \in [Requests -> Answers] /\ lock \in Requests \cup {None}
  BY DEF Types, ApiType
<1>2. CASE Acquire(r)
  BY <1>1, <1>2 DEF Acquire, Goto
<1>3. CASE BeginRequest(r)
  BY <1>1, <1>3 DEF BeginRequest, Goto
<1>4. CASE Decide(r) \/ InsertJob(r)
  BY <1>1, <1>4 DEF Decide, InsertJob, Goto
<1>5. CASE CommitRequest(r)
  BY <1>1, <1>5 DEF CommitRequest, Goto
<1>6. CASE StatementFails(r)
  BY <1>1, <1>6 DEF StatementFails, Fail, Goto
<1>7. QED
  BY <1>2, <1>3, <1>4, <1>5, <1>6 DEF Request

LEMMA ApiPlans ==
  ASSUME Types, AnswersInv, [Next]_vars, ApiStep
  PROVE  /\ AnswersInv'
         /\ \A p \in Plans : db.plans[p] # "pending" => db'.plans[p] = db.plans[p]
         /\ \A r \in Requests : req[r] # "done" /\ req'[r] = "done" => db'.plans[r.plan] = Decision(r)
<1> PICK r \in Requests : Acquire(r) \/ Request(r)
  BY DEF ApiStep
<1>1. /\ LockInv'
      /\ \A s \in Requests \ {r} : req'[s] = req[s] /\ req[s] \notin Holding
      /\ req'[r] = "done" => req[r] = "commit" /\ CommitRequest(r)
  BY LockStep DEF AnswersInv
<1>2. /\ PlansInv /\ RequestInv /\ history' = history /\ r.plan \in Plans
      /\ req \in [Requests -> Answers] /\ req' \in [Requests -> Answers]
  BY LibraryAssumption, TypesStep DEF AnswersInv, ApiStep, Types, ApiType
<1> DEFINE p0 == r.plan
           d == View("pool")
<1>3. d \in Databases /\ \A p \in Plans : d.jobs[p] \in Nat
  BY ViewFacts DEF Types, Databases
<1>4. /\ JobsOK(d) /\ Whole(d, history.split \cup Split("pool"))
      /\ \A p \in Plans : db.plans[p] # "pending" => d.plans[p] = db.plans[p]
  BY <1>2 DEF PlansInv, JobsOK, Whole, View, InTxn
<1>5. Split("pool") = (IF req[r] = "insert" THEN {p0} ELSE {}) /\ Split("pool")' = (IF req'[r] = "insert" THEN {p0} ELSE {})
  BY <1>1, <1>2 DEF Split, Holding
<1>6. ASSUME NEW c, c # "pool" PROVE Split(c) = {} /\ Split(c)' = {}
  BY <1>6 DEF Split
\* What is left to show of a step that writes in the pool's transaction.
<1>7. ASSUME NEW new, JobsOK(new), Whole(new, history.split \cup Split("pool")'), UNCHANGED db,
             txn' = [conn |-> "pool", db |-> new], new \in Databases,
             \A p \in Plans : db.plans[p] # "pending" => new.plans[p] = db.plans[p]
      PROVE  PlansInv' /\ View("pool")' = new
  <2>1. txn' # None /\ txn'.conn = "pool" /\ txn'.db = new
    BY <1>7, TxnFacts DEF Conns
  <2>2. View("pool")' = new
    BY <2>1 DEF View, InTxn
  <2>3. JobsOK(db)' /\ Whole(db, history.split)'
    BY <1>2, <1>7 DEF PlansInv, JobsOK, Whole
  <2>4. JobsOK(txn.db)' /\ Whole(txn.db, history.split \cup Split(txn.conn))'
    BY <1>2, <1>7, <2>1 DEF JobsOK, Whole, Split
  <2>5. QED
    BY <1>7, <2>1, <2>2, <2>3, <2>4 DEF PlansInv
\* And of one that leaves the plans and jobs alone, and the request idle or at its end.
<1>8. ASSUME UNCHANGED db, txn' = txn \/ txn' = None,
             req'[r] \notin {"insert", "commit"},
             req[r] = "insert" /\ txn' # None => txn.conn # "pool"
      PROVE  PlansInv' /\ RequestInv'
  <2>1. RequestInv'
    BY <1>1, <1>8 DEF RequestInv, Holding
  <2>2. JobsOK(db)' /\ Whole(db, history.split)'
    BY <1>2, <1>8 DEF PlansInv, JobsOK, Whole
  <2>3. ASSUME txn' # None PROVE Split(txn.conn)' = Split(txn.conn)
    BY <1>5, <1>6, <1>8, <2>3
  <2>4. ASSUME txn' # None PROVE txn' = txn /\ Split(txn.conn)' = Split(txn.conn)
    BY <1>8, <2>3, <2>4
  <2>5. txn' # None => JobsOK(txn.db)' /\ Whole(txn.db, history.split \cup Split(txn.conn))'
    BY <1>2, <2>4 DEF PlansInv, JobsOK, Whole
  <2>6. PlansInv'
    BY <1>2, <1>8, <2>2, <2>4, <2>5 DEF PlansInv
  <2>7. QED
    BY <2>1, <2>6
<1>9. CASE Acquire(r)
  <2>1. UNCHANGED <<db, txn>> /\ req[r] = "idle" /\ req'[r] = "begin"
    BY <1>2, <1>9 DEF Acquire, Goto, base
  <2>2. QED
    BY <1>1, <1>8, <2>1 DEF AnswersInv
<1>10. CASE BeginRequest(r)
  <2>1. CASE txn = None
    <3>1. txn' = [conn |-> "pool", db |-> db] /\ UNCHANGED db /\ req'[r] = "decide" /\ req[r] = "begin" /\ d = db
      BY <1>2, <1>10, <2>1 DEF BeginRequest, Begin, Goto, View, InTxn
    <3>2. PlansInv'
      BY <1>3, <1>4, <1>5, <1>7, <3>1
    <3>3. RequestInv'
      BY <1>1, <3>1 DEF RequestInv, Holding
    <3>4. QED
      BY <1>1, <3>1, <3>2, <3>3 DEF AnswersInv
  <2>2. CASE txn # None
    <3>1. UNCHANGED <<db, txn>> /\ req[r] = "begin" /\ req'[r] = "failed"
      BY <1>2, <1>10, <2>2 DEF BeginRequest, Goto, base
    <3>2. QED
      BY <1>1, <1>8, <3>1 DEF AnswersInv
  <2>3. QED
    BY <2>1, <2>2
<1>11. CASE Decide(r)
  <2> DEFINE pending == d.plans[p0] = "pending"
             new == IF pending THEN [d EXCEPT !.plans[p0] = Decision(r)] ELSE d
  <2>1. /\ req[r] = "decide" /\ UNCHANGED db /\ txn' = [conn |-> "pool", db |-> new]
        /\ req'[r] = IF ~pending THEN "refuse" ELSE IF r.kind = "approve" THEN "insert" ELSE "commit"
    BY <1>2, <1>11 DEF Decide, Write, Goto
  <2>2. /\ new \in Databases /\ new.jobs = d.jobs
        /\ \A p \in Plans : new.plans[p] = IF p = p0 /\ pending THEN Decision(r) ELSE d.plans[p]
    BY <1>2, <1>3 DEF Databases, Decision
  <2>3. PICK e : e = new
    OBVIOUS
  <2>4. r.kind \in {"approve", "reject"} /\ p0 \in Plans
    BY LibraryAssumption
  <2>5. pending => d.jobs[p0] = 0
    BY <1>3, <1>4, <2>4 DEF JobsOK
  <2> HIDE DEF new
  <2>6. JobsOK(e)
    BY <1>4, <2>2, <2>3, <2>5 DEF JobsOK
  <2>7. Whole(e, history.split \cup Split("pool")')
    <3>1. ASSUME NEW p \in Plans \ (history.split \cup Split("pool")'), e.plans[p] = "approved"
          PROVE  e.jobs[p] = 1
      <4>1. CASE p = p0 /\ pending
        BY <1>5, <2>1, <2>2, <2>3, <2>4, <3>1, <4>1 DEF Decision
      <4>2. CASE ~(p = p0 /\ pending)
        BY <1>4, <1>5, <2>1, <2>2, <2>3, <3>1, <4>2 DEF Whole
      <4>3. QED
        BY <4>1, <4>2
    <3>2. QED
      BY <3>1 DEF Whole
  <2>8. \A p \in Plans : db.plans[p] # "pending" => e.plans[p] = db.plans[p]
    BY <1>4, <2>2, <2>3
  <2>9. PlansInv' /\ View("pool")' = e
    BY <1>7, <2>1, <2>2, <2>3, <2>6, <2>7, <2>8
  <2>10. RequestInv'
    <3>1. req'[r] = "insert" => r.kind = "approve" /\ e.plans[p0] = "approved" /\ e.jobs[p0] = 0
      BY <2>1, <2>2, <2>3, <2>4, <2>5 DEF Decision
    <3>2. req'[r] = "commit" => e.plans[p0] = Decision(r)
      BY <2>1, <2>2, <2>3, <2>4
    <3>3. QED
      BY <1>1, <2>9, <3>1, <3>2 DEF RequestInv, Holding
  <2>11. QED
    BY <1>1, <2>1, <2>9, <2>10 DEF AnswersInv
<1>12. CASE InsertJob(r)
  <2> DEFINE new == [d EXCEPT !.jobs[p0] = @ + 1]
  <2>1. req[r] = "insert" /\ UNCHANGED db /\ txn' = [conn |-> "pool", db |-> new] /\ req'[r] = "commit"
    BY <1>2, <1>12 DEF InsertJob, Write, Goto
  <2>2. r.kind = "approve" /\ d.plans[p0] = "approved" /\ d.jobs[p0] = 0
    BY <1>2, <2>1 DEF RequestInv
  <2>3. /\ new \in Databases /\ new.plans = d.plans
        /\ \A p \in Plans : new.jobs[p] = IF p = p0 THEN 1 ELSE d.jobs[p]
    BY <1>2, <1>3, <2>2 DEF Databases
  <2>4. PICK e : e = new
    OBVIOUS
  <2> HIDE DEF new
  <2>5. JobsOK(e)
    BY <1>4, <2>2, <2>3, <2>4 DEF JobsOK
  <2>6. Whole(e, history.split \cup Split("pool")')
    BY <1>4, <1>5, <2>1, <2>3, <2>4 DEF Whole
  <2>7. PlansInv' /\ View("pool")' = e
    BY <1>4, <1>7, <2>1, <2>3, <2>4, <2>5, <2>6
  <2>8. RequestInv'
    BY <1>1, <2>1, <2>2, <2>3, <2>4, <2>7 DEF RequestInv, Holding, Decision
  <2>9. QED
    BY <1>1, <2>1, <2>7, <2>8 DEF AnswersInv
<1>13. CASE CommitRequest(r)
  <2>1. /\ req[r] \in {"commit", "refuse"} /\ InTxn("pool") /\ db' = txn.db /\ txn' = None /\ d = txn.db
        /\ req'[r] \in {"done", "refused"}
    BY <1>2, <1>13 DEF CommitRequest, Commit, Goto, View
  <2>2. JobsOK(db)' /\ Whole(db, history.split)'
    BY <1>2, <1>4, <1>5, <2>1 DEF JobsOK, Whole
  <2>3. PlansInv'
    BY <2>1, <2>2 DEF PlansInv
  <2>4. RequestInv'
    BY <1>1, <2>1 DEF RequestInv, Holding
  <2>5. req[r] = "commit" => db'.plans[p0] = Decision(r)
    BY <1>2, <2>1 DEF RequestInv
  <2>6. QED
    BY <1>1, <1>4, <2>1, <2>3, <2>4, <2>5 DEF AnswersInv
<1>14. CASE StatementFails(r)
  <2>1. /\ UNCHANGED db /\ txn' = (IF InTxn("pool") THEN None ELSE txn) /\ req'[r] = "failed"
    BY <1>2, <1>14 DEF StatementFails, Fail, Rollback, Goto
  <2>2. txn' = txn \/ txn' = None
    BY <2>1
  <2>3. txn' # None => txn.conn # "pool"
    BY <2>1 DEF InTxn
  <2>4. PlansInv' /\ RequestInv'
    BY <1>8, <2>1, <2>2, <2>3
  <2>5. QED
    BY <1>1, <2>1, <2>4 DEF AnswersInv
<1>15. QED
  BY <1>9, <1>10, <1>11, <1>12, <1>13, <1>14 DEF Request

LEMMA InitAnswers == Init => AnswersInv
<1> SUFFICES ASSUME Init PROVE AnswersInv
  OBVIOUS
<1>1. /\ txn = None /\ \A r \in Requests : req[r] = "idle"
      /\ \A p \in Plans : db.plans[p] = "pending" /\ db.jobs[p] = 0
  BY DEF Init
<1>2. QED
  BY <1>1 DEF AnswersInv, LockInv, PlansInv, RequestInv, JobsOK, Whole, Holding

\* What a step does for the plans, and the answers that it gives.
LEMMA AnswersStep ==
  ASSUME Types, AnswersInv, [Next]_vars
  PROVE  /\ AnswersInv'
         /\ \A p \in Plans : db.plans[p] # "pending" => db'.plans[p] = db.plans[p]
         /\ \A r \in Requests : req[r] # "done" /\ req'[r] = "done" => db'.plans[r.plan] = Decision(r)
<1>1. CASE (ScanStep \/ ProcStep) /\ ~PruneStep
  <2>1. PlansStay /\ UNCHANGED <<req, lock>>
    BY <1>1, ScanPlans, ProcPlans DEF AnswersInv, ScanStep, ProcStep
  <2>2. history'.split = history.split
    BY <1>1, HistoryFacts
  <2>3. QED
    BY <2>1, <2>2, PlansStayKeeps
<1>2. CASE DiskStep \/ UNCHANGED vars
  <2>1. UNCHANGED <<db, txn, req, lock>> /\ history'.split = history.split
    BY <1>2 DEF DiskStep, Replace, BringBack, TakeAway, Disturb, vars, Types, DiskType
  <2>2. PlansStay
    BY <2>1 DEF PlansStay, SamePlans, AnswersInv, PlansInv, InTxn
  <2>3. QED
    BY <2>1, <2>2, PlansStayKeeps
<1>3. CASE PruneStep
  <2>1. UNCHANGED req
    BY <1>3 DEF PruneStep
  <2>2. QED
    BY <1>3, <2>1, PrunePlans
<1>4. CASE ApiStep
  BY <1>4, ApiPlans
<1>5. QED
  BY <1>1, <1>2, <1>3, <1>4, WhoSteps

\* An approved plan has exactly one job unless a commit of the auto-prune task cut the
\* approval in two, a plan is decided once, and as the request is told that decided it.
THEOREM LibraryAnswersTrue == Spec => AnswersTrue
<1>1. Init => Types /\ AnswersInv
  BY InitTypes, InitAnswers
<1>2. Types /\ AnswersInv /\ [Next]_vars => (Types /\ AnswersInv)'
  BY TypesStep, AnswersStep
<1>3. Types /\ AnswersInv => ApprovedHasJob
  BY DEF AnswersInv, PlansInv, JobsOK, Whole, ApprovedHasJob
<1> DEFINE Told == /\ ApprovedHasJob'
                   /\ \A p \in Plans : db.plans[p] # "pending" => db'.plans[p] = db.plans[p]
                   /\ \A r \in Requests : req[r] # "done" /\ req'[r] = "done"
                                          => db'.plans[r.plan] = Decision(r)
<1>4. Types /\ AnswersInv /\ (Types /\ AnswersInv)' /\ [Next]_vars => [Told]_vars
  <2>1. (Types /\ AnswersInv)' => ApprovedHasJob'
    BY <1>3, PTL
  <2>2. QED
    BY <2>1, AnswersStep
<1>5. AnswersTrue <=> [][Told]_vars
  BY DEF AnswersTrue
<1> HIDE DEF Told
<1>6. QED
  BY <1>1, <1>2, <1>4, <1>5, PTL DEF Spec

=============================================================================
