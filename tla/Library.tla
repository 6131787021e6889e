------------------------------ MODULE Library ------------------------------
(***************************************************************************)
(* The library database and those who write it: `vpo scan`                 *)
(* (scanner/orchestrator.py), a workflow that re-introspects the file it   *)
(* changed (workflow/processor.py), the prune of missing files, by a       *)
(* worker or by the daemon's auto-prune task (jobs/services/prune.py,      *)
(* server/auto_prune.py), and the approval and rejection of plans over     *)
(* the API (server/api/plans.py, jobs/services/approval.py).  The daemon's *)
(* threads share one connection (db/connection.py).                        *)
(*                                                                         *)
(* SQLite is modelled by what the code relies on: one connection at a time *)
(* has a transaction that writes, and it alone sees what it wrote before   *)
(* the commit.  What the system keeps on a file is its version, which      *)
(* stands for its modification time, its size and its tracks.              *)
(***************************************************************************)
EXTENDS Integers, FiniteSets

CONSTANTS
    Paths,       \* the video files
    Scopes,      \* the sets of paths that a scan may be asked for
    Like(_),     \* the paths LIKE '<directory>%' selects for a scope
    Plans,
    Requests,    \* API requests: [id, plan, kind], kind "approve" or "reject"
    BatchSize,   \* batch_commit_size
    None,
    MaxVersion,  \* bounds: contents of a file,
    MaxEvents,   \* events on the disk,
    MaxTasks     \* scans, workflows, prunes and requests

ASSUME LibraryAssumption ==
    /\ Scopes \subseteq SUBSET Paths /\ \A S \in Scopes : S \subseteq Like(S)
    /\ BatchSize \in Nat \ {0} /\ MaxVersion \in Nat \ {0}
    /\ MaxEvents \in Nat /\ MaxTasks \in Nat
    /\ \A r \in Requests : r.plan \in Plans /\ r.kind \in {"approve", "reject"}
    /\ None \notin Requests

VARIABLES
    content,  \* content[f]: the version of the file
    present,  \* the files that are on disk
    db,       \* the committed database: files, plans, jobs
    txn,      \* the open transaction: None or [conn, db]
    scan, proc, prune,
    req,      \* req[r]: where the thread of the request is
    lock,     \* the holder of the pool's write lock
    count,    \* the events and the tasks so far, for the bounds
    history   \* for the properties: files that went, torn rows, split plans, quiet

vars == <<content, present, db, txn, scan, proc, prune, req, lock, count, history>>
disk == <<content, present>>
base == <<db, txn>>
api  == <<req, lock>>

Statuses == {"ok", "error", "missing"}
Row == [stamp : 1..MaxVersion, tracks : 0..MaxVersion, status : Statuses]
Conns == {"scan", "process", "worker", "pool"}

\* What the tables hold.
Databases == [files : [Paths -> Row \cup {None}],
              plans : [Plans -> {"pending", "approved", "rejected"}],
              jobs  : [Plans -> Nat]]

\* None is no row and no transaction.
ASSUME NoneAssumption == None \notin Row /\ None \notin [conn : Conns, db : Databases]

NoScan == [pc |-> "idle", scope |-> {}, found |-> [f \in Paths |-> 0],
           todo |-> {}, batch |-> 0, interrupted |-> FALSE]
NoProc == [pc |-> "idle", file |-> None, tracks |-> 0, stamp |-> 0]
NoPrune == [pc |-> "idle", conn |-> "worker", missing |-> {}]

Init ==
    /\ content = [f \in Paths |-> 1] /\ present = Paths
    /\ db = [files |-> [f \in Paths |-> None], plans |-> [p \in Plans |-> "pending"],
             jobs |-> [p \in Plans |-> 0]]
    /\ txn = None /\ scan = NoScan /\ proc = NoProc /\ prune = NoPrune
    /\ req = [r \in Requests |-> "idle"] /\ lock = None
    /\ count = [events |-> 0, tasks |-> 0]
    /\ history = [went |-> {}, torn |-> {}, split |-> {}, quiet |-> FALSE]

----------------------------------------------------------------------------
(* SQLite, as the sqlite3 module gives it.                                 *)

InTxn(c) == txn # None /\ txn.conn = c
Locked(c) == txn # None /\ txn.conn # c
View(c) == IF InTxn(c) THEN txn.db ELSE db

\* BEGIN IMMEDIATE, and a statement that writes in the transaction it opens or
\* finds open.
Begin(c) == txn = None /\ txn' = [conn |-> c, db |-> db] /\ UNCHANGED db
Write(c, new) == ~Locked(c) /\ txn' = [conn |-> c, db |-> new] /\ UNCHANGED db
Commit(c) == InTxn(c) /\ db' = txn.db /\ txn' = None
Rollback(c) == txn' = (IF InTxn(c) THEN None ELSE txn) /\ UNCHANGED db
Transact(new) == txn = None /\ db' = new /\ UNCHANGED txn

SetFile(d, f, row) == [d EXCEPT !.files[f] = row]
DeleteFiles(d, S) == [d EXCEPT !.files = [f \in Paths |-> IF f \in S THEN None ELSE @[f]]]
MarkFiles(d, S) ==
    [d EXCEPT !.files = [f \in Paths |->
        IF f \in S THEN [@[f] EXCEPT !.status = "missing"] ELSE @[f]]]
MissingIn(d) == {f \in Paths : d.files[f] # None /\ d.files[f].status = "missing"}

\* Bounds.
Event == count.events < MaxEvents /\ count' = [count EXCEPT !.events = @ + 1]
Task == count.tasks < MaxTasks /\ count' = [count EXCEPT !.tasks = @ + 1]

Disturb == history' = [history EXCEPT !.quiet = FALSE]

----------------------------------------------------------------------------
(* The disk: a file is replaced, taken away (an unmounted share takes all  *)
(* of its files), and comes back as it was.                                *)

Replace(f) ==
    /\ f \in present /\ content[f] < MaxVersion
    /\ content' = [content EXCEPT ![f] = @ + 1]
    /\ Event /\ Disturb
    /\ UNCHANGED <<present, base, scan, proc, prune, api>>

TakeAway(S) ==
    /\ S # {} /\ S \subseteq present /\ S \cap history.went = {}
    /\ Event /\ present' = present \ S
    /\ history' = [history EXCEPT !.quiet = FALSE, !.went = @ \cup S]
    /\ UNCHANGED <<content, base, scan, proc, prune, api>>

BringBack(f) ==
    /\ f \notin present
    /\ Event /\ present' = present \cup {f}
    /\ Disturb
    /\ UNCHANGED <<content, base, scan, proc, prune, api>>

----------------------------------------------------------------------------
(* ScannerOrchestrator.scan_and_persist().                                 *)

StartScan(S) ==
    /\ scan.pc = "idle" /\ Task
    /\ scan' = [NoScan EXCEPT !.pc = "discover", !.scope = S]
    /\ history' = [history EXCEPT !.quiet = TRUE]
    /\ UNCHANGED <<disk, base, proc, prune, api>>

\* discover_videos(): the walk takes time and size of the files it meets.
Discover ==
    /\ scan.pc = "discover"
    /\ scan' = [scan EXCEPT !.pc = "lookup",
         !.found = [f \in Paths |-> IF f \in scan.scope \cap present THEN content[f] ELSE 0]]
    /\ UNCHANGED <<count, disk, base, proc, prune, api, history>>

\* Mutant: a row whose file came back is looked at, any other row is not.
NeedsRescanSeldom(row, version) == row = None \/ row.status = "missing"

\* file_needs_rescan(): time and size are compared, not the status of the row.
NeedsRescan(row, version) == row = None \/ row.stamp # version

\* With --full every file is taken.
Lookup(full) ==
    /\ scan.pc = "lookup"
    /\ scan' = [scan EXCEPT !.pc = "missing",
         !.todo = {f \in scan.scope : /\ scan.found[f] # 0
                                      /\ full \/ NeedsRescan(db.files[f], scan.found[f])}]
    /\ UNCHANGED <<count, disk, base, proc, prune, api, history>>

\* Mutant: what the walk did not meet is gone.
GoneUnseen(S) == {f \in Like(S) : db.files[f] # None /\ scan.found[f] = 0}

\* detect_missing_files() looks again, at every path the LIKE selects.
GoneFrom(S) == {f \in Like(S) : db.files[f] # None /\ f \notin present /\ scan.found[f] = 0}

\* With --prune their rows are deleted at once.
MarkMissing(pruning) ==
    /\ scan.pc = "missing"
    /\ LET gone == GoneFrom(scan.scope)
       IN  Transact(IF pruning THEN DeleteFiles(db, gone) ELSE MarkFiles(db, gone))
    /\ scan' = [scan EXCEPT !.pc = IF scan.todo = {} THEN "end" ELSE "begin"]
    /\ UNCHANGED <<count, disk, proc, prune, api, history>>

\* Mutant: the batch is begun without BEGIN.
BeginBatchBare ==
    /\ scan.pc = "begin"
    /\ scan' = [scan EXCEPT !.pc = "persist", !.batch = 0]
    /\ UNCHANGED <<count, disk, base, proc, prune, api, history>>

BeginBatch ==
    /\ scan.pc = "begin" /\ Begin("scan")
    /\ scan' = [scan EXCEPT !.pc = "persist", !.batch = 0]
    /\ UNCHANGED <<count, disk, proc, prune, api, history>>

ScanStatus(readable, hashed) == IF readable /\ hashed THEN "ok" ELSE "error"

\* upsert_file() with the time and size of the walk; the tracks are those of the
\* file as it is now, if it can be introspected.
Persist(f, readable, hashed) ==
    LET old    == txn.db.files[f]
        row    == [stamp  |-> scan.found[f],
                   tracks |-> IF readable THEN content[f] ELSE IF old = None THEN 0 ELSE old.tracks,
                   status |-> ScanStatus(readable, hashed)]
        filled == scan.batch + 1 >= BatchSize
        new    == SetFile(txn.db, f, row)
    IN  /\ scan.pc = "persist" /\ f \in scan.todo
        /\ readable => f \in present
        /\ IF filled THEN db' = new /\ txn' = None ELSE Write("scan", new)
        /\ scan' = [scan EXCEPT !.todo = @ \ {f}, !.batch = @ + 1,
                      !.pc = IF scan.todo = {f} THEN "end" ELSE IF filled THEN "begin" ELSE @]
        /\ UNCHANGED <<count, disk, proc, prune, api, history>>

\* Ctrl-C sets a flag that the loops look at; what the batch holds is kept.
Interrupt ==
    /\ scan.pc \notin {"idle", "end"}
    /\ scan' = [scan EXCEPT !.pc = "end", !.interrupted = TRUE]
    /\ UNCHANGED <<count, disk, base, proc, prune, api, history>>

\* The snapshot of the library's counts and the scan's own job are written, and
\* whatever is still open is committed with them.
EndScan ==
    /\ scan.pc = "end" /\ ~Locked("scan")
    /\ db' = View("scan") /\ txn' = None
    /\ scan' = NoScan /\ Disturb
    /\ UNCHANGED <<count, disk, proc, prune, api>>

\* The process is killed, or waited too long for the database: SQLite rolls its
\* transaction back.
KillScan ==
    /\ scan.pc # "idle"
    /\ Rollback("scan") /\ scan' = NoScan /\ Disturb
    /\ UNCHANGED <<count, disk, proc, prune, api>>

----------------------------------------------------------------------------
(* WorkflowProcessor.process_file(): a phase has changed the file;         *)
(* _re_introspect().                                                       *)

Rework(f) ==
    /\ proc.pc = "idle" /\ f \in present /\ db.files[f] # None /\ content[f] < MaxVersion
    /\ content' = [content EXCEPT ![f] = @ + 1]
    /\ proc' = [NoProc EXCEPT !.pc = "introspect", !.file = f]
    /\ Task /\ Disturb
    /\ UNCHANGED <<present, base, scan, prune, api>>

Introspect ==
    /\ proc.pc = "introspect"
    /\ proc' = IF proc.file \in present
                 THEN [proc EXCEPT !.pc = "stat", !.tracks = content[proc.file]]
                 ELSE NoProc
    /\ UNCHANGED <<count, disk, base, scan, prune, api, history>>

Stat ==
    /\ proc.pc = "stat"
    /\ proc' = IF proc.file \in present
                 THEN [proc EXCEPT !.pc = "write", !.stamp = content[proc.file]]
                 ELSE NoProc
    /\ UNCHANGED <<count, disk, base, scan, prune, api, history>>

\* The status of the row is left; without a row the transaction fails.
WriteTracks ==
    LET f == proc.file
    IN  /\ proc.pc = "write"
        /\ Transact(IF db.files[f] = None THEN db
                                ELSE SetFile(db, f, [db.files[f] EXCEPT !.stamp = proc.stamp,
                                                                        !.tracks = proc.tracks]))
        /\ proc' = NoProc
        /\ history' = [history EXCEPT !.quiet = FALSE,
                         !.torn = IF proc.stamp = proc.tracks THEN @
                                  ELSE @ \cup {<<f, proc.stamp, proc.tracks>>}]
        /\ UNCHANGED <<count, disk, scan, prune, api>>

WriteTimesOut ==
    /\ proc.pc = "write" /\ txn # None
    /\ proc' = NoProc
    /\ UNCHANGED <<count, disk, base, scan, prune, api, history>>

----------------------------------------------------------------------------
(* PruneJobService.process(): by a worker on its own connection, by the    *)
(* auto-prune task on the connection of the daemon's pool, in a thread     *)
(* that does not hold the pool's lock.                                     *)

\* What a commit on the shared connection cuts in two.
Split(c) == IF c = "pool" THEN {r.plan : r \in {x \in Requests : req[x] = "insert"}} ELSE {}
Cut(c) == history' = [history EXCEPT !.quiet = FALSE, !.split = @ \cup Split(c)]

StartPrune(c) ==
    /\ prune.pc = "idle" /\ Task
    /\ c = "pool" => lock = None  \* get_connection() takes the lock, and lets it go
    /\ prune' = [pc |-> IF c = "pool" THEN "create" ELSE "select", conn |-> c, missing |-> {}]
    /\ UNCHANGED <<disk, base, scan, proc, api, history>>

\* The job of the auto-prune task is inserted, and not committed.
CreatePruneJob ==
    /\ prune.pc = "create"
    /\ IF Locked(prune.conn) THEN UNCHANGED base ELSE Write(prune.conn, View(prune.conn))
    /\ prune' = [prune EXCEPT !.pc = IF Locked(prune.conn) THEN "idle" ELSE "select"]
    /\ UNCHANGED <<count, disk, scan, proc, api, history>>

\* The missing files are read, and an open transaction is committed.
SelectMissing ==
    LET missing == MissingIn(View(prune.conn))
    IN  /\ prune.pc = "select"
        /\ prune' = [prune EXCEPT !.missing = missing,
                                  !.pc = IF missing = {} THEN "complete" ELSE "begin"]
        /\ IF missing # {} /\ InTxn(prune.conn) THEN Commit(prune.conn) /\ Cut(prune.conn)
                                              ELSE UNCHANGED <<base, history>>
        /\ UNCHANGED <<count, disk, scan, proc, api>>

\* BEGIN IMMEDIATE fails inside a transaction, and when it waited too long.
BeginPrune ==
    /\ prune.pc = "begin"
    /\ IF txn = None THEN Begin(prune.conn) ELSE UNCHANGED base
    /\ prune' = [prune EXCEPT !.pc = IF txn = None THEN "delete" ELSE "complete"]
    /\ UNCHANGED <<count, disk, scan, proc, api, history>>

DeleteMissing ==
    /\ prune.pc = "delete"
    /\ IF Locked(prune.conn)
          THEN UNCHANGED <<base, history>>
          ELSE /\ db' = DeleteFiles(View(prune.conn), prune.missing) /\ txn' = None
               /\ Cut(prune.conn)
    /\ prune' = [prune EXCEPT !.pc = "complete"]
    /\ UNCHANGED <<count, disk, scan, proc, api>>

\* The job is completed, and committed with what its connection has open.
CompletePrune ==
    /\ prune.pc = "complete"
    /\ IF InTxn(prune.conn) THEN Commit(prune.conn) /\ Cut(prune.conn)
                             ELSE UNCHANGED <<base, history>>
    /\ prune' = NoPrune
    /\ UNCHANGED <<count, disk, scan, proc, api>>

----------------------------------------------------------------------------
(* A request, in DaemonConnectionPool.transaction().                       *)

Goto(r, pc) == req' = [req EXCEPT ![r] = pc]

Acquire(r) ==
    /\ req[r] = "idle" /\ lock = None
    /\ Task /\ lock' = r /\ Goto(r, "begin")
    /\ UNCHANGED <<disk, base, scan, proc, prune, history>>

\* An exception: what the connection has open is rolled back, the lock released.
Fail(r) ==
    /\ Rollback("pool") /\ Goto(r, "failed") /\ lock' = None
    /\ UNCHANGED <<count, disk, scan, proc, prune, history>>

\* Mutant: the lock is kept when BEGIN fails.
BeginRequestHolding(r) ==
    /\ req[r] = "begin"
    /\ IF txn = None THEN Begin("pool") /\ Goto(r, "decide")
                     ELSE UNCHANGED base /\ Goto(r, "failed")
    /\ UNCHANGED <<count, disk, scan, proc, prune, lock, history>>

\* BEGIN IMMEDIATE: inside a transaction it is an error, and nothing is rolled
\* back; behind another connection's it may time out.
BeginRequest(r) ==
    /\ req[r] = "begin"
    /\ IF txn = None
          THEN Begin("pool") /\ Goto(r, "decide") /\ UNCHANGED lock
          ELSE UNCHANGED base /\ Goto(r, "failed") /\ lock' = None
    /\ UNCHANGED <<count, disk, scan, proc, prune, history>>

Decision(r) == IF r.kind = "approve" THEN "approved" ELSE "rejected"

\* update_plan_status(): the states a plan may come from are in the WHERE clause.
Decide(r) ==
    LET d == View("pool")
        pending == d.plans[r.plan] = "pending"
    IN  /\ req[r] = "decide" /\ ~Locked("pool")
        /\ Write("pool", IF pending THEN [d EXCEPT !.plans[r.plan] = Decision(r)] ELSE d)
        /\ Goto(r, IF ~pending THEN "refuse" ELSE IF r.kind = "approve" THEN "insert" ELSE "commit")
        /\ UNCHANGED <<count, disk, scan, proc, prune, lock, history>>

\* Mutant: the job is committed before the plan.
InsertJobAlone(r) ==
    /\ req[r] = "insert" /\ ~Locked("pool")
    /\ db' = [db EXCEPT !.jobs[r.plan] = @ + 1]
    /\ UNCHANGED txn
    /\ Goto(r, "commit")
    /\ UNCHANGED <<count, disk, scan, proc, prune, lock, history>>

InsertJob(r) ==
    /\ req[r] = "insert" /\ ~Locked("pool")
    /\ Write("pool", [View("pool") EXCEPT !.jobs[r.plan] = @ + 1])
    /\ Goto(r, "commit")
    /\ UNCHANGED <<count, disk, scan, proc, prune, lock, history>>

CommitRequest(r) ==
    /\ req[r] \in {"commit", "refuse"} /\ Commit("pool")
    /\ Goto(r, IF req[r] = "commit" THEN "done" ELSE "refused") /\ lock' = None
    /\ UNCHANGED <<count, disk, scan, proc, prune, history>>

\* A statement finds the database locked, or COMMIT no transaction.
StatementFails(r) ==
    /\ \/ req[r] \in {"decide", "insert"} /\ Locked("pool")
       \/ req[r] \in {"commit", "refuse"} /\ ~InTxn("pool")
    /\ Fail(r)

Scanner ==
    \/ \E f \in Paths, readable, hashed \in BOOLEAN : Persist(f, readable, hashed)
    \/ \E full \in BOOLEAN : Lookup(full)
    \/ \E pruning \in BOOLEAN : MarkMissing(pruning)
    \/ Discover \/ BeginBatch \/ EndScan
Workflow == Introspect \/ Stat \/ WriteTracks
Pruner == CreatePruneJob \/ SelectMissing \/ BeginPrune \/ DeleteMissing \/ CompletePrune
Request(r) ==
    BeginRequest(r) \/ Decide(r) \/ InsertJob(r) \/ CommitRequest(r) \/ StatementFails(r)

Environment ==
    \/ \E f \in Paths : Replace(f) \/ BringBack(f) \/ Rework(f)
    \/ \E S \in SUBSET Paths : TakeAway(S)
    \/ \E S \in Scopes : StartScan(S)
    \/ \E c \in {"worker", "pool"} : StartPrune(c)
    \/ \E r \in Requests : Acquire(r)
    \/ Interrupt \/ KillScan \/ WriteTimesOut

Next == Environment \/ Scanner \/ Workflow \/ Pruner \/ \E r \in Requests : Request(r)

Spec ==
    /\ Init /\ [][Next]_vars
    /\ WF_vars(Scanner) /\ WF_vars(Workflow) /\ WF_vars(Pruner)
    /\ \A r \in Requests : WF_vars(Request(r))

----------------------------------------------------------------------------
(* Correctness.                                                            *)

TypeOK ==
    /\ content \in [Paths -> 1..MaxVersion] /\ present \subseteq Paths
    /\ db \in Databases /\ txn \in [conn : Conns, db : Databases] \cup {None}
    /\ scan.pc \in {"idle", "discover", "lookup", "missing", "begin", "persist", "end"}
    /\ scan.todo \subseteq scan.scope /\ scan.batch \in 0..BatchSize
    /\ scan.pc = "persist" => InTxn("scan")
    /\ proc.pc \in {"idle", "introspect", "stat", "write"}
    /\ prune.pc \in {"idle", "create", "select", "begin", "delete", "complete"}
    /\ req \in [Requests -> {"idle", "begin", "decide", "insert", "commit", "refuse",
                            "done", "refused", "failed"}]
    /\ lock \in Requests \cup {None}

\* A row whose time and size are those of the file on disk has the file's tracks:
\* the next scan would not look at the file again.  The exception is a row written
\* by a workflow while the file was replaced, after its tracks were read.
Torn(f, row) == <<f, row.stamp, row.tracks>> \in history.torn
StampTells ==
    \A f \in present :
        LET row == db.files[f]
        IN  row # None /\ row.status = "ok" /\ row.stamp = content[f] /\ ~Torn(f, row)
              => row.tracks = content[f]

\* A scan that nothing disturbed leaves every file of its directories recorded as
\* it is, and every row without a file missing.  A file that went away and came
\* back unchanged may still be called missing.
ScanTells ==
    scan.pc = "end" /\ ~scan.interrupted /\ history.quiet =>
        \A f \in scan.scope :
            LET row == View("scan").files[f]
            IN  IF f \in present
                  THEN /\ row # None /\ row.stamp = content[f]
                       /\ row.status = "missing" => f \in history.went
                  ELSE row = None \/ row.status = "missing"

\* The rows tell of the files what the next scan and the policies take from them.
RowsTell == StampTells /\ ScanTells

\* A file that has always been on disk is never marked missing, nor its row pruned,
\* whatever directory is scanned, and however scans, prunes and workflows overlap.
NeverLost ==
    \A f \in Paths \ history.went :
       db.files[f] # None => db'.files[f] # None /\ db'.files[f].status # "missing"

\* The rows tell of the files, and a file that is there keeps its row.
RowsHold == [][RowsTell' /\ NeverLost]_vars

\* An approved plan has exactly one job, and a plan that is not approved has none,
\* unless a commit of the auto-prune task cut the approval in two.
ApprovedHasJob ==
    \A p \in Plans :
        /\ db.jobs[p] <= 1
        /\ db.jobs[p] = 1 => db.plans[p] = "approved"
        /\ db.plans[p] = "approved" /\ p \notin history.split => db.jobs[p] = 1

\* A plan is approved or rejected once, and by the request that is told so.
AnswersTrue ==
    [][/\ ApprovedHasJob'
       /\ \A p \in Plans : db.plans[p] # "pending" => db'.plans[p] = db.plans[p]
       /\ \A r \in Requests : req[r] # "done" /\ req'[r] = "done"
                              => db'.plans[r.plan] = Decision(r)]_vars

\* All come to rest: every scan, workflow and prune ends, every request is answered,
\* and none leaves a transaction open or the lock taken for the others to wait on.
AllEnd ==
    []<>(/\ scan.pc = "idle" /\ proc.pc = "idle" /\ prune.pc = "idle"
         /\ \A r \in Requests : req[r] \in {"idle", "done", "refused", "failed"}
         /\ txn = None /\ lock = None)
=============================================================================
