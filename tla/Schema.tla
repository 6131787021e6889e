------------------------------- MODULE Schema -------------------------------
(***************************************************************************)
(* The schema of a library and its migrations (src/vpo/db/schema): what    *)
(* each SQL statement of them does to the content of the database file.    *)
(*                                                                         *)
(* A library is [version, tables]: the schema_version row of _meta, 0 when *)
(* there is none, and for each table that exists [cols, rows].  cols holds *)
(* the columns, constraints and indexes the migrations are about; what a   *)
(* table has had from the start is left out.  A row is [id, ref]: its key  *)
(* and the row of another table it names, Null for none.                   *)
(*                                                                         *)
(* A script is the sequence of statements a function executes.  A          *)
(* statement is skipped when what "unless" names was in the table at the   *)
(* last look at it.                                                        *)
(***************************************************************************)
EXTENDS Naturals, Sequences, FiniteSetsExt, Functions, TLC

SchemaVersion == 27
Null == "null"

\* The name a table has while it is rebuilt.
New == [jobs |-> "jobs_new", processing_stats |-> "processing_stats_new",
        transcription_results |-> "transcription_results_new"]

Rebuilt == DOMAIN New

-----------------------------------------------------------------------------
(* Libraries. *)

NoTable == [cols |-> {}, rows |-> {}]
TableOf(lib, t) == IF t \in DOMAIN lib.tables THEN lib.tables[t] ELSE NoTable
Ids(lib, t) == {r.id : r \in TableOf(lib, t).rows}
Has(lib, t, cols) == t \in DOMAIN lib.tables /\ cols \subseteq lib.tables[t].cols
WithTable(lib, t, table) ==
    [lib EXCEPT !.tables = [u \in {t} \cup DOMAIN @ |-> IF u = t THEN table ELSE @[u]]]
Without(lib, t) == [lib EXCEPT !.tables = Restrict(@, DOMAIN @ \ {t})]

\* What PRAGMA table_info and sqlite_master tell of a table.
Seen(lib, t) == IF t \in DOMAIN lib.tables THEN {"table"} \cup lib.tables[t].cols ELSE {}

-----------------------------------------------------------------------------
(* Statements, as SQLite executes them with foreign_keys = ON. *)

Statement(op, t, arg, cols) ==
    [op |-> op, table |-> t, arg |-> arg, cols |-> cols, unless |-> "never"]

Look(t) == Statement("look", t, Null, {})
Create(t, cols) == Statement("create", t, Null, cols)     \* IF NOT EXISTS
Make(t, cols) == Statement("make", t, Null, cols)         \* without it
Add(t, col) == Statement("add", t, Null, {col})
Index(t, name, on) == Statement("index", t, name, on)     \* IF NOT EXISTS
Copy(t, cols) == Statement("copy", t, New[t], cols)       \* INSERT .. SELECT
Drop(t) == Statement("drop", t, Null, {})
DropIfExists(t) == Statement("discard", t, Null, {})
Rename(t) == Statement("rename", New[t], t, {})
Begin == Statement("begin", "_meta", Null, {})
Commit == Statement("commit", "_meta", Null, {})
Version(n) == Statement("version", "_meta", n, {})        \* UPDATE, then commit()
Stamp == Statement("stamp", "_meta", SchemaVersion, {})   \* INSERT OR IGNORE, then commit()

Unless(what, script) ==
    [i \in DOMAIN script |-> [script[i] EXCEPT !.unless = what]]

\* Mutant: the reference of a row is copied as it is.
CopiedAsIs(lib, r) == r

\* A row as the SELECT of a rebuild gives it: a reference to a job that is
\* gone becomes NULL.
Copied(lib, r) ==
    IF r.ref \in Ids(lib, "jobs") THEN r ELSE [r EXCEPT !.ref = Null]

\* The rows of table t once the rows of table gone are deleted: details go with
\* their statistics, statistics only forget their job.
Bereft(lib, t, gone) ==
    LET rows == lib.tables[t].rows
        lost == {r \in rows : r.ref \in Ids(lib, gone)}
    IN  IF gone = "processing_stats" /\ t \in {"action_results", "performance_metrics"}
          THEN rows \ lost
          ELSE IF gone = "jobs" /\ "fk_job" \in lib.tables[t].cols
            THEN (rows \ lost) \cup {[r EXCEPT !.ref = Null] : r \in lost}
            ELSE rows

\* DROP TABLE deletes the rows of the table first.
Dropped(lib, t) ==
    Without([lib EXCEPT !.tables =
               [u \in DOMAIN @ |-> [@[u] EXCEPT !.rows = Bereft(lib, u, t)]]], t)

\* The statement raises, and changes nothing.
Fails(s, lib) ==
    CASE s.op = "make" -> s.table \in DOMAIN lib.tables
      [] s.op = "add" -> s.table \notin DOMAIN lib.tables \/ Has(lib, s.table, s.cols)
      [] s.op = "index" -> ~Has(lib, s.table, s.cols)
      [] s.op = "copy" ->
           \/ ~Has(lib, s.table, s.cols)
           \/ s.arg \notin DOMAIN lib.tables
           \/ Ids(lib, s.table) \cap Ids(lib, s.arg) # {}
           \/ /\ Has(lib, s.arg, {"fk_job"})
              /\ \E r \in TableOf(lib, s.table).rows :
                   Copied(lib, r).ref \notin Ids(lib, "jobs") \cup {Null}
      [] s.op = "drop" -> s.table \notin DOMAIN lib.tables
      [] s.op = "rename" ->
           s.table \notin DOMAIN lib.tables \/ s.arg \in DOMAIN lib.tables
      [] OTHER -> FALSE

\* The library after the statement.
After(s, lib) ==
    CASE s.op \in {"create", "make"} ->
           IF s.table \in DOMAIN lib.tables THEN lib
             ELSE WithTable(lib, s.table, [cols |-> s.cols, rows |-> {}])
      [] s.op = "add" -> [lib EXCEPT !.tables[s.table].cols = @ \cup s.cols]
      [] s.op = "index" -> [lib EXCEPT !.tables[s.table].cols = @ \cup {s.arg}]
      [] s.op = "copy" ->
           [lib EXCEPT !.tables[s.arg].rows =
              @ \cup {Copied(lib, r) : r \in lib.tables[s.table].rows}]
      [] s.op = "drop" -> Dropped(lib, s.table)
      [] s.op = "discard" -> Without(lib, s.table)
      [] s.op = "rename" -> WithTable(Without(lib, s.table), s.arg, lib.tables[s.table])
      [] s.op = "version" -> IF lib.version = 0 THEN lib ELSE [lib EXCEPT !.version = s.arg]
      [] s.op = "stamp" -> IF lib.version = 0 THEN [lib EXCEPT !.version = s.arg] ELSE lib
      [] OTHER -> lib

-----------------------------------------------------------------------------
(* The migrations, version n to n + 1 under the name of n.  "ix" stands for *)
(* the indexes that are made with a table and never alone.                  *)

Table(t, cols) == <<Create(t, cols), Index(t, "ix", {})>>
IfMissing(t) == <<Look(t)>> \o Unless("table", Table(t, {}))
AddMissing(t, cols) ==
    <<Look(t)>> \o [i \in DOMAIN cols |-> [Add(t, cols[i]) EXCEPT !.unless = cols[i]]]

Migrate1 ==
    AddMissing("tracks", <<"channels", "channel_layout", "width", "height", "frame_rate">>)
    \o <<Version(2)>>
Migrate2 ==
    <<DropIfExists("operations")>> \o Table("operations", {"policy_name"}) \o <<Version(3)>>
Migrate3 == IfMissing("plugin_acknowledgments") \o <<Version(4)>>
Migrate4 == IfMissing("jobs") \o <<Version(5)>>
Migrate5 == IfMissing("transcription_results") \o <<Version(6)>>

JobsOf7 == {"files_affected_json", "summary_json"}
Migrate6 ==
    <<Look("jobs")>>
    \o Unless("summary_json",
         <<Create("jobs_new", JobsOf7), Copy("jobs", {}), Drop("jobs"), Rename("jobs"),
           Index("jobs", "ix", {})>>)
    \o <<Version(7)>>

Migrate7 == AddMissing("jobs", <<"log_path">>) \o <<Version(8)>>
Migrate8 ==
    AddMissing("files", <<"job_id">>) \o <<Index("files", "ix_job_id", {"job_id"}), Version(9)>>
Migrate9 == <<Index("files", "ix_status_scanned", {}), Version(10)>>
Migrate10 == <<Begin, Version(11)>>     \* language codes are left out
Migrate11 == IfMissing("plans") \o <<Version(12)>>
Migrate12 ==
    AddMissing("tracks", <<"color_transfer", "color_primaries", "color_space", "color_range">>)
    \o <<Version(13)>>
Migrate13 ==
    IfMissing("language_analysis_results") \o IfMissing("language_segments") \o <<Version(14)>>
Migrate14 == AddMissing("tracks", <<"duration_seconds">>) \o <<Version(15)>>

Migrate15 ==
    <<Look("transcription_results")>>
    \o Unless("music",
         <<Create("transcription_results_new", {"music"}), Copy("transcription_results", {}),
           Drop("transcription_results"), Rename("transcription_results"),
           Index("transcription_results", "ix", {})>>)
    \o <<Version(16)>>

Migrate16 == AddMissing("files", <<"plugin_metadata">>) \o <<Version(17)>>
Migrate17 ==
    IfMissing("processing_stats") \o IfMissing("action_results")
    \o IfMissing("performance_metrics") \o <<Version(18)>>
Migrate18 == IfMissing("track_classification_results") \o <<Version(19)>>

\* Mutant: the old table is dropped before it is copied.
Migrate19Early ==
    <<Look("jobs")>>
    \o Unless("valid_priority",
         <<Create("jobs_new", JobsOf7 \cup {"log_path", "valid_priority"}),
           Drop("jobs"), Rename("jobs"),
           Index("jobs", "ix", {}), Index("jobs", "ix_job_type", {})>>)
    \o <<Version(20)>>

Migrate19 ==
    <<Look("jobs")>>
    \o Unless("valid_priority",
         <<Create("jobs_new", JobsOf7 \cup {"log_path", "valid_priority"}),
           Copy("jobs", JobsOf7 \cup {"log_path"}), Drop("jobs"), Rename("jobs"),
           Index("jobs", "ix", {}), Index("jobs", "ix_job_type", {})>>)
    \o <<Version(20)>>

Migrate20 == AddMissing("processing_stats", <<"encoder_type">>) \o <<Version(21)>>
Migrate21 == <<Index("processing_stats", "ix_file_time", {}), Version(22)>>
Migrate22 ==
    AddMissing("jobs", <<"origin", "batch_id">>) \o AddMissing("processing_stats", <<"job_id">>)
    \o <<Index("processing_stats", "ix_job", {"job_id"}), Version(23)>>
Migrate23 ==
    <<Index("jobs", "ix_origin", {"origin"}), Index("jobs", "ix_batch_id", {"batch_id"}),
      Version(24)>>

\* The INSERT opens a transaction, which only the last commit() ends.
Migrate24 ==
    <<Look("processing_stats")>>
    \o Unless("fk_job",
         <<Make("processing_stats_new", {"encoder_type", "job_id", "fk_job"}),
           Begin, Copy("processing_stats", {"encoder_type", "job_id"}),
           Drop("processing_stats"), Rename("processing_stats"),
           Index("processing_stats", "ix", {}), Index("processing_stats", "ix_job", {"job_id"}),
           Index("processing_stats", "ix_file_time", {})>>)
    \o <<Version(25)>>

JobsOf26 ==
    JobsOf7 \cup {"log_path", "valid_priority", "origin", "batch_id", "prune"}

\* Mutant: the rebuild is not one transaction.
Migrate25Loose ==
    <<Look("jobs")>>
    \o Unless("prune",
         <<Make("jobs_new", JobsOf26), Copy("jobs", {}), Drop("jobs"), Rename("jobs"),
           Index("jobs", "ix", {}), Index("jobs", "ix_job_type", {}),
           Index("jobs", "ix_origin", {"origin"}), Index("jobs", "ix_batch_id", {"batch_id"})>>)
    \o Table("library_snapshots", {}) \o <<Version(26)>>

Migrate25 ==
    <<Look("jobs")>>
    \o Unless("prune",
         <<Begin, Make("jobs_new", JobsOf26), Copy("jobs", {}), Drop("jobs"), Rename("jobs"),
           Index("jobs", "ix", {}), Index("jobs", "ix_job_type", {}),
           Index("jobs", "ix_origin", {"origin"}), Index("jobs", "ix_batch_id", {"batch_id"}),
           Commit>>)
    \o Table("library_snapshots", {}) \o <<Version(26)>>

Migrate26 ==
    <<Look("files"), Begin>>
    \o Unless("container_tags", <<Add("files", "container_tags")>>) \o <<Version(27)>>

Migrations ==
    <<Migrate1, Migrate2, Migrate3, Migrate4, Migrate5, Migrate6, Migrate7, Migrate8, Migrate9,
      Migrate10, Migrate11, Migrate12, Migrate13, Migrate14, Migrate15, Migrate16, Migrate17,
      Migrate18, Migrate19, Migrate20, Migrate21, Migrate22, Migrate23, Migrate24, Migrate25,
      Migrate26>>

-----------------------------------------------------------------------------
(* SCHEMA_SQL: the schema of a new library, every statement IF NOT EXISTS. *)

SchemaOfFiles ==
    <<Create("files", {"job_id", "plugin_metadata", "container_tags"}),
      Index("files", "ix_job_id", {"job_id"}), Index("files", "ix_status_scanned", {})>>
SchemaOfTracks ==
    <<Create("tracks", {"channels", "channel_layout", "width", "height", "frame_rate",
                        "color_transfer", "color_primaries", "color_space", "color_range",
                        "duration_seconds"})>>
SchemaOfPolicies ==
    Table("operations", {"policy_name"}) \o <<Create("policies", {})>>
    \o Table("plugin_acknowledgments", {})
SchemaOfJobs ==
    Table("jobs", JobsOf26)
    \o <<Index("jobs", "ix_job_type", {}), Index("jobs", "ix_origin", {"origin"}),
         Index("jobs", "ix_batch_id", {"batch_id"})>>
SchemaOfAnalysis ==
    Table("transcription_results", {"music"}) \o Table("plans", {})
    \o Table("language_analysis_results", {}) \o Table("language_segments", {})
SchemaOfStatistics ==
    Table("processing_stats", {"encoder_type", "job_id", "fk_job"})
    \o <<Index("processing_stats", "ix_job", {"job_id"}),
         Index("processing_stats", "ix_file_time", {})>>
    \o Table("action_results", {}) \o Table("performance_metrics", {})
SchemaOfTheRest ==
    Table("track_classification_results", {}) \o Table("library_snapshots", {})

CreateSchema ==
    SchemaOfFiles \o SchemaOfTracks \o SchemaOfPolicies \o SchemaOfJobs \o SchemaOfAnalysis
    \o SchemaOfStatistics \o SchemaOfTheRest \o <<Stamp>>

\* Script 0 is create_schema(), script n the migration from version n.
Scripts == [n \in 0 .. SchemaVersion - 1 |-> IF n = 0 THEN CreateSchema ELSE Migrations[n]]

-----------------------------------------------------------------------------
(* Libraries of every version: since when a table has what it has. *)

EmptyLibrary == [version |-> 0, tables |-> << >>]

Since ==
    [files |-> [table |-> 1, job_id |-> 9, ix_job_id |-> 9, ix_status_scanned |-> 10,
                plugin_metadata |-> 17, container_tags |-> 27],
     tracks |-> [table |-> 1, channels |-> 2, channel_layout |-> 2, width |-> 2, height |-> 2,
                 frame_rate |-> 2, color_transfer |-> 13, color_primaries |-> 13,
                 color_space |-> 13, color_range |-> 13, duration_seconds |-> 15],
     operations |-> [table |-> 1, policy_name |-> 3, ix |-> 3],
     policies |-> [table |-> 1],
     plugin_acknowledgments |-> [table |-> 4, ix |-> 4],
     jobs |-> [table |-> 5, ix |-> 5, files_affected_json |-> 7, summary_json |-> 7,
               log_path |-> 8, valid_priority |-> 20, ix_job_type |-> 20, origin |-> 23,
               batch_id |-> 23, ix_origin |-> 24, ix_batch_id |-> 24, prune |-> 26],
     transcription_results |-> [table |-> 6, ix |-> 6, music |-> 16],
     plans |-> [table |-> 12, ix |-> 12],
     language_analysis_results |-> [table |-> 14, ix |-> 14],
     language_segments |-> [table |-> 14, ix |-> 14],
     processing_stats |-> [table |-> 18, ix |-> 18, encoder_type |-> 21, ix_file_time |-> 22,
                           job_id |-> 23, ix_job |-> 23, fk_job |-> 25],
     action_results |-> [table |-> 18, ix |-> 18],
     performance_metrics |-> [table |-> 18, ix |-> 18],
     track_classification_results |-> [table |-> 19, ix |-> 19],
     library_snapshots |-> [table |-> 26, ix |-> 26]]

TablesOf(v) == {t \in DOMAIN Since : Since[t].table <= v}
ColsOf(v, t) == {c \in DOMAIN Since[t] : c # "table" /\ Since[t][c] <= v}

\* One row of each table of interest: a job, a transcript, the statistics of the
\* job and of a job deleted since, and the details of the statistics.
RowsOf(v, t) ==
    CASE t = "jobs" -> {[id |-> "job", ref |-> Null]}
      [] t = "transcription_results" -> {[id |-> "transcript", ref |-> Null]}
      [] t = "processing_stats" ->
           {[id |-> "stats", ref |-> IF v < 23 THEN Null ELSE "job"],
            [id |-> "orphan", ref |-> IF v \in {23, 24} THEN "deleted job" ELSE Null]}
      [] t \in {"action_results", "performance_metrics"} -> {[id |-> t, ref |-> "stats"]}
      [] OTHER -> {}

LibraryOf(v) ==
    IF v = 0 THEN EmptyLibrary
      ELSE [version |-> v,
            tables |-> [t \in TablesOf(v) |->
                          [cols |-> ColsOf(v, t), rows |-> RowsOf(v, t)]]]
=============================================================================
