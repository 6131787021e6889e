--------------------------- MODULE LibraryUpgrade ---------------------------
(***************************************************************************)
(* Processes that open one library file.  Every command first executes     *)
(* create_schema() on its default library (src/vpo/cli/__init__.py) and    *)
(* goes on without a library when that fails; `vpo scan` and `vpo serve`   *)
(* then bring the library up to date with initialize_database(), and with  *)
(* --db they do only that.  Nothing keeps two of them from doing so at     *)
(* once, and a process may die, or meet an error, at any statement: what   *)
(* was not committed is then rolled back.                                  *)
(***************************************************************************)
EXTENDS Schema

CONSTANTS
    Processes,   \* the processes that open the library
    Starts,      \* the versions the library may have at first
    Shared,      \* bound: the versions at which a second process opens it meanwhile
    NoProcess,   \* nobody holds a transaction
    MaxOpens,    \* bound: how often the library is opened
    MaxCrashes   \* bound: how many processes die while they open it

ASSUME UpgradeAssumption ==
    /\ Starts \subseteq 0 .. SchemaVersion
    /\ Shared \subseteq 0 .. SchemaVersion
    /\ NoProcess \notin Processes
    /\ MaxOpens \in Nat /\ MaxCrashes \in Nat

VARIABLES
    lib,       \* the committed content of the file
    writer,    \* the process that holds a transaction, or NoProcess
    draft,     \* the content as that transaction sees it
    at,        \* at[p]: what p does: [kind, stage, script, line, seen]
    origin,    \* history: the version the library had at first
    opens,     \* history: how often it was opened
    crashes,   \* history: how many processes died
    overlap,   \* history: two processes opened it at once
    recreated  \* history: the tables created empty while a copy of them lay beside

vars == <<lib, writer, draft, at, origin, opens, crashes, overlap, recreated>>

\* A command executes create_schema(), an upgrade initialize_database() after
\* it, and an upgrade of another file (--db) only that.
Kinds == {"command", "upgrade", "upgrade --db"}

\* "ensure" is the create_schema() of main(), "read" and "initialize" are
\* initialize_database() before and after it reads the version.
Busy == {"ensure", "read", "initialize"}

Place(kind, stage, script) ==
    [kind |-> kind, stage |-> stage, script |-> script, line |-> 1, seen |-> {}]

Originals == [v \in Starts |-> LibraryOf(v)]
Original == Originals[origin]

Init ==
    /\ origin \in Starts
    /\ lib = Originals[origin]
    /\ writer = NoProcess
    /\ draft = EmptyLibrary
    /\ at = [p \in Processes |-> Place("command", "closed", 0)]
    /\ opens = 0
    /\ crashes = 0
    /\ overlap = FALSE
    /\ recreated = {}

Opening(p) == at[p].stage \in Busy
Idle == \A p \in Processes : ~Opening(p)

\* What the statements of p see.
View(p) == IF writer = p THEN draft ELSE lib

\* A process starts, or the next one after it.
Open(p, kind) ==
    /\ ~Opening(p)
    /\ opens < MaxOpens
    /\ Idle \/ lib.version \in Shared
    /\ at' = [at EXCEPT ![p] =
                Place(kind, IF kind = "upgrade --db" THEN "read" ELSE "ensure", 0)]
    /\ opens' = opens + 1
    /\ overlap' = (overlap \/ ~Idle)
    /\ UNCHANGED <<lib, writer, draft, origin, crashes, recreated>>

\* Where initialize_database() goes from the version it has read.
AfterVersion(a, v) ==
    IF v >= SchemaVersion THEN Place(a.kind, "open", 0) ELSE Place(a.kind, "initialize", v)

\* get_schema_version(): the only time it is read.
ReadVersion(p) ==
    /\ at[p].stage = "read"
    /\ at' = [at EXCEPT ![p] = AfterVersion(@, lib.version)]
    /\ UNCHANGED <<lib, writer, draft, origin, opens, crashes, overlap, recreated>>

\* Mutant: it goes on past the last migration.
AfterScriptOn(a) ==
    IF a.stage = "ensure" THEN Place(a.kind, IF a.kind = "command" THEN "open" ELSE "read", 0)
      ELSE IF a.script = 0 THEN Place(a.kind, "open", 0)
      ELSE Place(a.kind, "initialize", a.script + 1)

\* Where p is after its script: main() has its connection, or the version that
\* initialize_database() counts up names the next migration.
AfterScript(a) ==
    IF a.stage = "ensure" THEN Place(a.kind, IF a.kind = "command" THEN "open" ELSE "read", 0)
      ELSE IF a.script \in {0, SchemaVersion - 1} THEN Place(a.kind, "open", 0)
      ELSE Place(a.kind, "initialize", a.script + 1)

\* Where p is after a statement: at the next one that is not skipped.
AfterStatement(a, seen) ==
    LET script == Scripts[a.script]
        ahead == {i \in a.line + 1 .. Len(script) : script[i].unless \notin seen}
    IN  IF ahead = {} THEN AfterScript(a)
          ELSE [a EXCEPT !.line = Min(ahead), !.seen = seen]

\* A rebuilt table is created although the copy its rows are in is still there.
Recreates(s, db) ==
    {t \in Rebuilt : s.op = "create" /\ s.table = t
                     /\ t \notin DOMAIN db.tables /\ New[t] \in DOMAIN db.tables}

\* A statement of p is executed; it waits while it would write and another
\* process holds a transaction.
Execute(p) ==
    /\ at[p].stage \in {"ensure", "initialize"}
    /\ LET s == Scripts[at[p].script][at[p].line]
           new == After(s, View(p))
           seen == IF s.op = "look" THEN Seen(View(p), s.table) ELSE at[p].seen
           opened == writer = p \/ s.op = "begin"
           ends == s.op \in {"version", "stamp", "commit"}
       IN  /\ ~Fails(s, View(p))
           /\ new # View(p) \/ s.op = "begin" => writer \in {p, NoProcess}
           /\ lib' = IF opened /\ ~ends THEN lib ELSE new
           /\ writer' = CASE opened /\ ~ends -> p
                          [] opened /\ ends -> NoProcess
                          [] OTHER -> writer
           /\ draft' = CASE opened /\ ~ends -> new
                         [] opened /\ ends -> EmptyLibrary
                         [] OTHER -> draft
           /\ at' = [at EXCEPT ![p] = AfterStatement(@, seen)]
           /\ recreated' = recreated \cup Recreates(s, View(p))
    /\ UNCHANGED <<origin, opens, crashes, overlap>>

\* The transaction of p, if it holds one, is undone.
RollBack(p) ==
    /\ writer' = IF writer = p THEN NoProcess ELSE writer
    /\ draft' = IF writer = p THEN EmptyLibrary ELSE draft
    /\ UNCHANGED lib

\* A statement of p raises.  main() goes on without a connection: that ends a
\* command, and leaves an upgrade to initialize_database().
Raise(p) ==
    /\ at[p].stage \in {"ensure", "initialize"}
    /\ Fails(Scripts[at[p].script][at[p].line], View(p))
    /\ at' = [at EXCEPT ![p] =
                Place(@.kind, IF @.stage = "ensure" /\ @.kind = "upgrade" THEN "read"
                                ELSE "failed", 0)]
    /\ RollBack(p)
    /\ UNCHANGED <<origin, opens, crashes, overlap, recreated>>

\* p is killed, or a statement fails for a reason that is not in the file: a
\* lock that is held too long, a full disk.
Crash(p) ==
    /\ Opening(p)
    /\ crashes < MaxCrashes
    /\ crashes' = crashes + 1
    /\ at' = [at EXCEPT ![p] = Place(@.kind, "closed", 0)]
    /\ RollBack(p)
    /\ UNCHANGED <<origin, opens, overlap, recreated>>

Next ==
    \E p \in Processes :
        \/ \E kind \in Kinds : Open(p, kind)
        \/ ReadVersion(p)
        \/ Execute(p)
        \/ Raise(p)
        \/ Crash(p)

Spec == Init /\ [][Next]_vars

-----------------------------------------------------------------------------
(* Properties. *)

Leftovers == {t \in Rebuilt : New[t] \in DOMAIN lib.tables}

Indexes == {"ix", "ix_job_id", "ix_status_scanned", "ix_job_type", "ix_origin", "ix_batch_id",
            "ix_job", "ix_file_time"}

\* Types: the file, the transaction on it and the places of the processes.
TypeOK ==
    /\ lib.version \in 0 .. SchemaVersion
    /\ writer \in Processes \cup {NoProcess}
    /\ writer # NoProcess => at[writer].stage \in Busy
    /\ writer = NoProcess => draft = EmptyLibrary
    /\ \A p \in Processes :
         /\ at[p].kind \in Kinds
         /\ at[p].stage \in Busy \cup {"closed", "open", "failed"}
         /\ at[p].script \in DOMAIN Scripts
         /\ at[p].line \in 1 .. Len(Scripts[at[p].script])
    /\ opens \in 0 .. MaxOpens
    /\ crashes \in 0 .. MaxCrashes

\* No job, no transcript and no statistics row is ever gone from the file,
\* wherever processes die and however many upgrade at once: it is in its table
\* or in the copy a rebuild has left (the rebuilds of migrations 6, 15, 19, 24
\* and 25).  The exception is a table that create_schema() has created again in
\* the middle of its rebuild: two upgrades that had begun may then both copy the
\* empty one, and the second drops what the first has put in its place.
RowsStayInTheFile ==
    \A t \in Rebuilt \ recreated : Ids(Original, t) \subseteq Ids(lib, t) \cup Ids(lib, New[t])

\* Processes that open the library one after another, and none of which dies,
\* leave every row where it was and no copy behind; details of statistics and
\* their jobs are kept by libraries past the migrations that lose them (24 and
\* 25).
LeftInPlace ==
    Idle /\ crashes = 0 /\ ~overlap =>
        /\ Leftovers = {}
        /\ \A t \in Rebuilt : Ids(lib, t) = Ids(Original, t)
        /\ origin > 24 => \A t \in {"action_results", "performance_metrics"} :
                            TableOf(lib, t).rows = TableOf(Original, t).rows
        /\ origin > 25 => TableOf(lib, "processing_stats").rows
                            = TableOf(Original, "processing_stats").rows

\* No upgrade loses a row: whatever cuts it, all are in the file, and uncut, in place.
RowsKept == RowsStayInTheFile /\ LeftInPlace

Ends(p, stage) == Opening(p) /\ at'[p].stage = stage

\* p has opened a library with the schema of a new one, and with its indexes
\* when no process has died; what a command opens lacks at most what the last
\* three migrations add.
OpensCurrent(p) ==
    IF at[p].kind = "command"
      THEN \A t \in DOMAIN Since :
             (ColsOf(SchemaVersion, t) \ Indexes) \ TableOf(lib', t).cols
               \subseteq {"fk_job", "prune", "container_tags"}
      ELSE /\ lib'.version = SchemaVersion
           /\ \A t \in DOMAIN Since :
                /\ t \in DOMAIN lib'.tables
                /\ lib'.tables[t].cols \ Indexes = ColsOf(SchemaVersion, t) \ Indexes
                /\ crashes = 0 => lib'.tables[t].cols = ColsOf(SchemaVersion, t)

\* p has met what a process left that died in one of the four rebuilds that are
\* not one transaction, at the version of that rebuild.
MeetsLeftover ==
    Leftovers # {} /\ crashes > 0 /\ lib.version \in {6, 15, 19, 24}

\* How opening the library ends when no other process does so: with the schema
\* of a new one or, for an upgrade, with an error that says where an earlier one
\* was cut; create_schema() alone may also fail on a library it is too new for.
UpgradesEnd ==
    [][~overlap => \A p \in Processes :
         /\ Ends(p, "open") => OpensCurrent(p)
         /\ Ends(p, "failed") /\ at[p].kind # "command" => MeetsLeftover]_vars
=============================================================================
