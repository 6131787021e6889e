---------------------------- MODULE LibraryBackup ----------------------------
(***************************************************************************)
(* `vpo db backup` and `vpo db restore` (db/backup.py, cli/db.py) beside    *)
(* the processes that use the library.                                     *)
(*                                                                         *)
(* The library is what SQLite makes of two names, library.db and           *)
(* library.db-wal.  A name may come to mean another file while a process   *)
(* has the old one open, so files and names are kept apart: a restore      *)
(* replaces both names under whoever has the library open.  A database is  *)
(* the set of transactions in it; Torn is one that SQLite cannot read.     *)
(***************************************************************************)
EXTENDS Integers, FiniteSets

CONSTANTS
    Procs,
    Absent, Torn,
    MaxCommits,  \* bounds: transactions;
    MaxTasks,    \* backups and restores started;
    MaxFaults    \* processes killed, moves and replacements that fail

ASSUME LibraryBackupAssumption ==
    /\ {MaxCommits, MaxTasks, MaxFaults} \subseteq Nat
    /\ Absent # Torn /\ Absent \notin Nat
    /\ \A txns \in SUBSET (0..MaxCommits) : Absent # txns /\ Torn # txns

VARIABLES
    name,     \* main, temp: a database file or Absent; wal: a WAL file or Absent
    base,     \* base[f]: what database file f holds
    frames,   \* frames[w]: [of, txns], the transactions in WAL file w and their database
    conn,     \* conn[p]: [db, wal], the files p has open, or Absent
    proc,     \* proc[p]: where p is in its command, and what it holds
    archive,  \* the file at the output path of backups: Absent, Torn or a database
    count,    \* for the bounds
    truth,    \* for the properties: what the library should hold,
    history   \* and what has happened that they make exceptions for

backupVars == <<name, base, frames, conn, proc, archive, count, truth, history>>

Idle == [pc |-> "idle"]
At(p, pc) == proc[p].pc = pc
Goto(p, state) == proc' = [proc EXCEPT ![p] = state]
Task == count.tasks < MaxTasks /\ count' = [count EXCEPT !.tasks = @ + 1]
Fault == count.faults < MaxFaults /\ count' = [count EXCEPT !.faults = @ + 1]

With(f, x, v) == [y \in DOMAIN f \cup {x} |-> IF y = x THEN v ELSE f[y]]
Fresh(f) == CHOOSE x \in 1..Cardinality(DOMAIN f) + 1 : x \notin DOMAIN f

Users(f, procs) == {p \in procs : conn[p] # Absent /\ conn[p].db = f}

\* What a connection sees that has database file f and WAL file w.
Reads(f, w) ==
    IF base[f] = Torn \/ (w # Absent /\ frames[w].txns # {} /\ frames[w].of # f) THEN Torn
    ELSE base[f] \cup IF w = Absent THEN {} ELSE frames[w].txns

Library == Reads(name.main, name.wal)
View(p) == Reads(conn[p].db, conn[p].wal)

BackupInit ==
    /\ name = [main |-> 1, wal |-> Absent, temp |-> Absent]
    /\ base = With(<<>>, 1, {0}) /\ frames = <<>>
    /\ conn = [p \in Procs |-> Absent] /\ proc = [p \in Procs |-> Idle]
    /\ archive = Absent /\ truth = {0}
    /\ count = [commits |-> 0, tasks |-> 0, faults |-> 0]
    /\ history = {}

----------------------------------------------------------------------------
(* Whoever uses the library.                                               *)

Unlinked == \E p \in Procs : At(p, "unlinked")

\* Files without a name that nobody has open are gone.
Wals == [w \in {v \in DOMAIN frames : v = name.wal \/ \E p \in Procs : conn[p] # Absent /\ conn[p].wal = v}
           |-> frames[w]]

\* A database that cannot be read is not opened (get_connection() raises).
Open(p) ==
    /\ At(p, "idle") /\ conn[p] = Absent /\ Library # Torn
    /\ LET w == IF name.wal = Absent THEN Fresh(Wals) ELSE name.wal
       IN  /\ conn' = [conn EXCEPT ![p] = [db |-> name.main, wal |-> w]]
           /\ name' = [name EXCEPT !.wal = w]
           /\ frames' = With(Wals, w,
                [of |-> name.main, txns |-> IF name.wal = Absent THEN {} ELSE frames[w].txns])
    /\ history' = history \cup {x \in {"overtaken"} : Unlinked}
    /\ UNCHANGED <<base, proc, archive, count, truth>>

\* The locks are in the shared memory that goes with the WAL.
Writing(w) == \E q \in Procs : At(q, "writing") /\ conn[q].wal = w

BeginWrite(p) ==
    /\ At(p, "idle") /\ conn[p] # Absent /\ View(p) # Torn
    /\ ~Writing(conn[p].wal)
    /\ count.commits < MaxCommits
    /\ count' = [count EXCEPT !.commits = @ + 1]
    /\ Goto(p, [pc |-> "writing", txn |-> count'.commits])
    /\ UNCHANGED <<name, base, frames, conn, archive, truth, history>>

\* A transaction counts if its database is still the library.
Commit(p) ==
    /\ At(p, "writing")
    /\ frames' = [frames EXCEPT ![conn[p].wal].txns = @ \cup {proc[p].txn}]
    /\ truth' = IF conn[p].db = name.main THEN truth \cup {proc[p].txn} ELSE truth
    /\ Goto(p, Idle)
    /\ UNCHANGED <<name, base, conn, archive, count, history>>

\* The WAL is copied into the database; its frames stay until they are written
\* over.  With two WALs on one database, one of them is of an older version.
Checkpointed(f, w, users) ==
    IF base[f] = Torn THEN {Torn}
    ELSE {base[f] \cup frames[w].txns}
           \cup {x \in {Torn} : \E q \in users : conn[q].wal # w}

Checkpoint(p) ==
    /\ At(p, "idle") /\ conn[p] # Absent /\ View(p) # Torn
    /\ \E b \in Checkpointed(conn[p].db, conn[p].wal, Users(conn[p].db, Procs)) :
         base' = [base EXCEPT ![conn[p].db] = b]
    /\ UNCHANGED <<name, frames, conn, proc, archive, count, truth, history>>

\* The last connection checkpoints and deletes the WAL, by its name, unless the
\* database has lost its own (SQLite's databaseIsUnmoved()).
Closed(f, w, users) ==
    IF users = {} /\ f = name.main /\ Reads(f, w) # Torn
    THEN /\ base' = [base EXCEPT ![f] = @ \cup frames[w].txns]
         /\ name' = [name EXCEPT !.wal = Absent]
    ELSE UNCHANGED <<base, name>>

Close(p) ==
    /\ proc[p].pc \in {"idle", "done"} /\ conn[p] # Absent
    /\ Closed(conn[p].db, conn[p].wal, Users(conn[p].db, Procs \ {p}))
    /\ conn' = [conn EXCEPT ![p] = Absent]
    /\ Goto(p, Idle)
    /\ UNCHANGED <<frames, archive, count, truth, history>>

\* It leaves its files as they are.
Kill(p) ==
    /\ conn[p] # Absent \/ proc[p] # Idle
    /\ Fault
    /\ history' = history \cup {x \in {"cut"} : At(p, "unlinked")}
    /\ conn' = [conn EXCEPT ![p] = Absent]
    /\ Goto(p, Idle)
    /\ UNCHANGED <<name, base, frames, archive, truth>>

End(p) == Goto(p, IF conn[p] = Absent THEN Idle ELSE [pc |-> "done"])

----------------------------------------------------------------------------
(* vpo db backup, on the connection of its own process.                    *)

\* _check_database_lock(): a WAL with content is what makes it try the write
\* lock; the connection it tries with may be the last one when it closes.
LockCheck(p, pass, refused) ==
    LET w == name.wal
        used == w # Absent /\ frames[w].txns # {}
    IN  IF ~used THEN pass /\ UNCHANGED <<base, name>>
        ELSE IF Library = Torn \/ Writing(w) THEN refused /\ UNCHANGED <<base, name>>
        ELSE pass /\ Closed(name.main, w, Users(name.main, Procs))

StartBackup(p) ==
    /\ At(p, "idle") /\ conn[p] # Absent /\ Task
    /\ LockCheck(p, Goto(p, [pc |-> "copying"]), End(p))
    /\ UNCHANGED <<frames, conn, archive, truth, history>>

\* Mutant: the file is copied instead of the database.
CopyFile(p) ==
    /\ At(p, "copying")
    /\ IF View(p) = Torn THEN End(p)
       ELSE Goto(p, [pc |-> "copied", copy |-> base[conn[p].db]])
    /\ UNCHANGED <<name, base, frames, conn, archive, count, truth, history>>

\* sqlite3.Connection.backup(): one read transaction, through the WAL.
Copy(p) ==
    /\ At(p, "copying")
    /\ IF View(p) = Torn THEN End(p) ELSE Goto(p, [pc |-> "copied", copy |-> View(p)])
    /\ UNCHANGED <<name, base, frames, conn, archive, count, truth, history>>

\* shutil.move(): a rename, or, to another file system, a copy.
Move(p) ==
    /\ At(p, "copied")
    /\ archive' = proc[p].copy
    /\ End(p)
    /\ UNCHANGED <<name, base, frames, conn, count, truth, history>>

MoveStarts(p) ==
    /\ At(p, "copied")
    /\ archive' = Torn
    /\ Goto(p, [proc[p] EXCEPT !.pc = "moving"])
    /\ UNCHANGED <<name, base, frames, conn, count, truth, history>>

MoveEnds(p) ==
    /\ At(p, "moving")
    /\ archive' = proc[p].copy
    /\ End(p)
    /\ UNCHANGED <<name, base, frames, conn, count, truth, history>>

MoveFails(p) ==
    /\ proc[p].pc \in {"copied", "moving"} /\ Fault
    /\ End(p)
    /\ UNCHANGED <<name, base, frames, conn, archive, truth, history>>

Backup(p) ==
    StartBackup(p) \/ Copy(p) \/ Move(p) \/ MoveStarts(p) \/ MoveEnds(p) \/ MoveFails(p)

----------------------------------------------------------------------------
(* vpo db restore.  Its process has the old library open too, if it can be *)
(* read: the command line opens it before the command begins.              *)

StartRestore(p) ==
    /\ At(p, "idle") /\ (conn[p] # Absent \/ Library = Torn) /\ Task
    /\ archive \notin {Absent, Torn}
    /\ Goto(p, [pc |-> "validated"])
    /\ UNCHANGED <<name, base, frames, conn, archive, truth, history>>

RestoreLockCheck(p) ==
    /\ At(p, "validated")
    /\ LockCheck(p, Goto(p, [pc |-> "checked"]), End(p))
    /\ UNCHANGED <<frames, conn, archive, count, truth, history>>

\* library.db.restore-tmp has one name for everybody: open(temp_db, "wb")
\* truncates what is there.
Restoring == {"writing temp", "written", "verified", "unlinked"}

\* except Exception: the name is unlinked, whosever file it means by now.
GiveUp(p) == name' = [name EXCEPT !.temp = Absent] /\ End(p)

\* What p does to the name meets the file of another restore.
Shared(p) == {x \in {"shared"} : \E q \in Procs \ {p} : proc[q].pc \in Restoring}

OpenTemp(p) ==
    /\ At(p, "checked") /\ archive # Torn
    /\ LET f == IF name.temp = Absent THEN Fresh(base) ELSE name.temp
       IN  /\ name' = [name EXCEPT !.temp = f]
           /\ \E written \in {{}, Torn} : base' = With(base, f, written)
           /\ Goto(p, [pc |-> "writing temp", file |-> f])
    /\ history' = history \cup Shared(p)
    /\ UNCHANGED <<frames, conn, archive, count, truth>>

WriteTemp(p) ==
    /\ At(p, "writing temp") /\ archive # Torn
    /\ base' = [base EXCEPT ![proc[p].file] = archive]
    /\ Goto(p, [pc |-> "written", db |-> archive])
    /\ UNCHANGED <<name, frames, conn, archive, count, truth, history>>

\* The archive cannot be read when it is opened again, before there is a file of
\* this restore, or while it is extracted; or the file cannot be written.
ExtractFails(p) ==
    /\ proc[p].pc \in {"checked", "writing temp"}
    /\ IF archive = Torn THEN UNCHANGED count ELSE Fault
    /\ GiveUp(p)
    /\ history' = history \cup Shared(p)
    /\ UNCHANGED <<base, frames, conn, archive, truth>>

\* sqlite3.connect() creates an empty database if the file is gone.
Verify(p) ==
    /\ At(p, "written")
    /\ LET f == IF name.temp = Absent THEN Fresh(base) ELSE name.temp
       IN  IF name.temp # Absent /\ base[f] = Torn THEN GiveUp(p) /\ UNCHANGED base
           ELSE /\ name' = [name EXCEPT !.temp = f]
                /\ base' = IF name.temp = Absent THEN With(base, f, {}) ELSE base
                /\ Goto(p, [proc[p] EXCEPT !.pc = "verified"])
    /\ UNCHANGED <<frames, conn, archive, count, truth, history>>

\* Mutant: the -wal and -shm files are left to SQLite.
UnlinkWalNever(p) ==
    /\ At(p, "verified")
    /\ Goto(p, [proc[p] EXCEPT !.pc = "unlinked"])
    /\ UNCHANGED <<name, base, frames, conn, archive, count, truth, history>>

UnlinkWal(p) ==
    /\ At(p, "verified")
    /\ name' = [name EXCEPT !.wal = Absent]
    /\ Goto(p, [proc[p] EXCEPT !.pc = "unlinked"])
    /\ UNCHANGED <<base, frames, conn, archive, count, truth, history>>

Replace(p) ==
    /\ At(p, "unlinked") /\ name.temp # Absent
    /\ name' = [name EXCEPT !.main = name.temp, !.temp = Absent]
    /\ truth' = proc[p].db
    /\ End(p)
    /\ UNCHANGED <<base, frames, conn, archive, count, history>>

ReplaceFails(p) ==
    /\ At(p, "unlinked")
    /\ IF name.temp = Absent THEN UNCHANGED count ELSE Fault
    /\ GiveUp(p)
    /\ history' = history \cup {"cut"}
    /\ UNCHANGED <<base, frames, conn, archive, truth>>

Restore(p) ==
    \/ StartRestore(p) \/ RestoreLockCheck(p) \/ OpenTemp(p) \/ WriteTemp(p)
    \/ ExtractFails(p) \/ Verify(p) \/ UnlinkWal(p) \/ Replace(p) \/ ReplaceFails(p)

----------------------------------------------------------------------------
BackupNext == \E p \in Procs :
    \/ Open(p) \/ BeginWrite(p) \/ Commit(p) \/ Checkpoint(p) \/ Close(p) \/ Kill(p)
    \/ Backup(p) \/ Restore(p)

BackupSpec == BackupInit /\ [][BackupNext]_backupVars

----------------------------------------------------------------------------
Databases == {Torn} \cup SUBSET (0..MaxCommits)

\* Names mean files that exist, processes have files that exist, and a process
\* without a connection is not in the middle of a transaction or a backup.
BackupTypeOK ==
    /\ name.main \in DOMAIN base /\ name.temp \in DOMAIN base \cup {Absent}
    /\ name.wal \in DOMAIN frames \cup {Absent}
    /\ \A f \in DOMAIN base : base[f] \in Databases
    /\ \A w \in DOMAIN frames : frames[w].of \in DOMAIN base
    /\ \A p \in Procs : conn[p] # Absent => conn[p].db \in DOMAIN base
    /\ \A p \in Procs : conn[p] = Absent =>
         proc[p].pc \notin {"writing", "copying", "copied", "moving", "done"}
    /\ archive \in Databases \cup {Absent}
    /\ history \subseteq {"cut", "overtaken", "shared"}

\* What the next process that opens library.db finds is every transaction that
\* was committed to it and none else, or, once a restore has replaced it, what
\* the validated archive held and every transaction since: wherever a backup or
\* a restore fails, is refused or is killed, whatever else has the old or the
\* new library open, and whatever they write, checkpoint and delete when they
\* close.  Not so from when a restore has unlinked the WAL to when it has
\* replaced the database: for good, if it ends there or somebody opens the
\* library there; and not if two restores were at work at once.
LibraryIsWhole == BackupTypeOK /\ (history = {} /\ ~Unlinked => Library = truth)

\* A backup holds all that was committed to the library when it was copied,
\* what is still in the WAL included, and what replaces the archive is such a
\* copy; a process whose library was replaced under it backs up the old one.
BackupIsWhole ==
    [][/\ \A p \in Procs : At(p, "copying") /\ proc'[p].pc = "copied" =>
            \/ proc'[p].copy = truth
            \/ conn[p].db # name.main \/ Unlinked \/ history # {}
       /\ archive' \notin {archive, Torn} =>
            \E p \in Procs : proc[p].pc \in {"copied", "moving"} /\ archive' = proc[p].copy
      ]_backupVars

=============================================================================
