------------------------ MODULE LibraryUpgradeProofs ------------------------
(***************************************************************************)
(* Theorems about LibraryUpgrade, for any number of processes, openings    *)
(* and deaths, and libraries of any versions: the rows of the tables that  *)
(* migrations rebuild are in the file, and in their tables again when      *)
(* processes open the library one after another and none dies.             *)
(***************************************************************************)
EXTENDS LibraryUpgrade, WellFoundedInduction, TLAPS

Copies == {New[t] : t \in Rebuilt}

IsStatement(s) ==
    s \in [op : {s.op}, table : {s.table}, arg : {s.arg}, cols : {s.cols}, unless : {s.unless}]

\* No column and no index is called "never", which is what a statement that is
\* not skipped is skipped for; two columns only come with their table, one of
\* them to one table only and the other one never alone.
Reserved == {"never", "summary_json", "fk_job"}
Made(t, cols) ==
    /\ "never" \notin cols
    /\ "fk_job" \in cols => t \in {"processing_stats", "processing_stats_new"}
    /\ "summary_json" \in cols => JobsOf7 \subseteq cols

Sound(s) ==
    /\ IsStatement(s)
    /\ "never" \notin s.cols
    /\ s.op \in {"create", "make"} => Made(s.table, s.cols)
    /\ s.op = "add" => s.cols \cap Reserved = {}
    /\ s.op = "index" => s.arg \notin Reserved
    /\ s.op \in {"version", "stamp"} => s.arg \in 0 .. SchemaVersion

\* A statement that leaves rebuilt tables and their copies where they are, and
\* the version as it is.
Tame(s) ==
    /\ Sound(s)
    /\ s.op \notin {"make", "copy", "drop", "rename", "version", "stamp"}
    /\ s.op = "create" => s.table \notin Copies
    /\ s.op = "discard" => s.table = "operations"

\* A sequence, whatever its elements are.
IsSequence(script) == script \in Seq({script[i] : i \in DOMAIN script})
AllTame(script) == IsSequence(script) /\ \A i \in DOMAIN script : Tame(script[i])

\* The last statement of script n ends the transaction, and is never skipped.
Closing(n) == IF n = 0 THEN Stamp ELSE Version(n + 1)
Ended(script, n) == Len(script) > 0 /\ script[Len(script)] = Closing(n)
Whole(script, n) ==
    /\ IsSequence(script) /\ Ended(script, n)
    /\ \A i \in DOMAIN script : i # Len(script) => Tame(script[i])

-----------------------------------------------------------------------------
(* The scripts.                                                            *)

LEMMA Names ==
  /\ Rebuilt = {"jobs", "processing_stats", "transcription_results"}
  /\ New["jobs"] = "jobs_new" /\ New["processing_stats"] = "processing_stats_new"
  /\ New["transcription_results"] = "transcription_results_new"
  /\ Copies = {"jobs_new", "processing_stats_new", "transcription_results_new"}
BY DEF Rebuilt, New, Copies

LEMMA TameStatements ==
  /\ \A t : Tame(Look(t))
  /\ \A t, cols : t \notin Copies /\ Made(t, cols) => Tame(Create(t, cols))
  /\ \A t, col : col \notin Reserved => Tame(Add(t, col))
  /\ \A t, name, cols : name \notin Reserved /\ "never" \notin cols => Tame(Index(t, name, cols))
  /\ Tame(DropIfExists("operations")) /\ Tame(Begin) /\ Tame(Commit)
BY DEF Tame, Sound, IsStatement, Statement, Look, Create, Add, Index, DropIfExists, Begin, Commit, Made,
       Reserved

LEMMA ClosingFacts ==
  ASSUME NEW n \in 0 .. SchemaVersion - 1
  PROVE  /\ Sound(Closing(n)) /\ Closing(n).op \in {"version", "stamp"}
         /\ Closing(n).unless = "never"
<1>1. n + 1 \in 0 .. SchemaVersion /\ SchemaVersion \in 0 .. SchemaVersion
  BY DEF SchemaVersion
<1>2. QED
  BY <1>1 DEF Closing, Stamp, Version, Statement, Sound, IsStatement

LEMMA SequenceFacts ==
  ASSUME NEW S, NEW script \in Seq(S)
  PROVE  IsSequence(script) /\ DOMAIN script = 1 .. Len(script) /\ Len(script) \in Nat
<1> DEFINE T == {script[i] : i \in DOMAIN script}
<1>1. DOMAIN script = 1 .. Len(script) /\ Len(script) \in Nat
  OBVIOUS
<1>2. \A i \in 1 .. Len(script) : script[i] \in T
  BY <1>1
<1>3. script \in [1 .. Len(script) -> T]
  BY <1>1, <1>2
<1>4. script \in Seq(T)
  BY <1>1, <1>3
<1>5. QED
  BY <1>1, <1>4 DEF IsSequence

LEMMA UnlessTame ==
  ASSUME NEW script, AllTame(script), NEW what
  PROVE  AllTame(Unless(what, script))
<1>1. \A i \in DOMAIN script : Tame([script[i] EXCEPT !.unless = what])
  BY DEF AllTame, Tame, Sound, IsStatement
<1>2. QED
  BY <1>1 DEF Unless, AllTame, IsSequence

LEMMA Concatenated ==
  ASSUME NEW a, NEW b, AllTame(a)
  PROVE  /\ AllTame(b) => AllTame(a \o b)
         /\ \A n : Whole(b, n) => Whole(a \o b, n)
<1> SUFFICES ASSUME IsSequence(b)
             PROVE  /\ AllTame(b) => AllTame(a \o b)
                    /\ \A n : Whole(b, n) => Whole(a \o b, n)
  BY DEF AllTame, Whole
<1> DEFINE S == {a[i] : i \in DOMAIN a} \cup {b[i] : i \in DOMAIN b}
<1>1. a \in Seq(S) /\ b \in Seq(S)
  BY DEF AllTame, IsSequence
<1>2. /\ a \o b \in Seq(S) /\ DOMAIN (a \o b) = 1 .. Len(a) + Len(b)
      /\ Len(a) \in Nat /\ Len(b) \in Nat /\ DOMAIN a = 1 .. Len(a) /\ DOMAIN b = 1 .. Len(b)
      /\ Len(a \o b) = Len(a) + Len(b)
      /\ \A i \in DOMAIN (a \o b) : (a \o b)[i] = IF i <= Len(a) THEN a[i] ELSE b[i - Len(a)]
  BY <1>1
<1>3. IsSequence(a \o b)
  BY <1>2, SequenceFacts
<1> HIDE DEF S
<1>4. ASSUME NEW i \in DOMAIN (a \o b)
      PROVE  \/ Tame((a \o b)[i])
             \/ i - Len(a) \in DOMAIN b /\ (a \o b)[i] = b[i - Len(a)]
  <2>1. CASE i <= Len(a)
    BY <1>2, <2>1 DEF AllTame
  <2>2. CASE ~(i <= Len(a))
    BY <1>2, <2>2
  <2>3. QED
    BY <2>1, <2>2
<1>5. AllTame(b) => AllTame(a \o b)
  BY <1>3, <1>4 DEF AllTame
<1>6. ASSUME NEW n, Whole(b, n) PROVE Whole(a \o b, n)
  <2>1. Len(b) > 0 /\ b[Len(b)] = Closing(n)
    BY <1>6 DEF Whole, Ended
  <2>2. Len(a \o b) > 0 /\ (a \o b)[Len(a \o b)] = b[Len(b)]
    BY <1>2, <2>1
  <2>3. ASSUME NEW i \in DOMAIN (a \o b), i # Len(a \o b) PROVE Tame((a \o b)[i])
    <3>1. i - Len(a) # Len(b)
      BY <1>2, <2>3
    <3>2. QED
      BY <1>4, <1>6, <2>3, <3>1 DEF Whole
  <2>4. QED
    BY <1>3, <2>1, <2>2, <2>3 DEF Whole, Ended
<1>7. QED
  BY <1>5, <1>6

LEMMA Listed ==
  /\ \A a : Tame(a) => AllTame(<<a>>)
  /\ \A a, b : Tame(a) /\ Tame(b) => AllTame(<<a, b>>)
  /\ \A a, b, c : Tame(a) /\ Tame(b) /\ Tame(c) => AllTame(<<a, b, c>>)
BY SequenceFacts DEF AllTame, IsSequence

LEMMA TablesTame ==
  ASSUME NEW t, t \notin Copies
  PROVE  (\A cols : Made(t, cols) => AllTame(Table(t, cols))) /\ AllTame(IfMissing(t))
<1>1. ASSUME NEW cols, Made(t, cols) PROVE AllTame(Table(t, cols))
  <2>1. Tame(Create(t, cols)) /\ Tame(Index(t, "ix", {}))
    BY <1>1, TameStatements DEF Reserved
  <2>2. QED
    BY <2>1, Listed DEF Table
<1>2. AllTame(Unless("table", Table(t, {})))
  BY <1>1, UnlessTame DEF Made
<1>3. AllTame(<<Look(t)>>)
  BY Listed, TameStatements
<1>4. QED
  BY <1>1, <1>2, <1>3, Concatenated DEF IfMissing

ColumnNames(cols) == IsSequence(cols) /\ \A i \in DOMAIN cols : cols[i] \notin Reserved

LEMMA AddMissingTame ==
  ASSUME NEW t, NEW cols, ColumnNames(cols)
  PROVE  AllTame(AddMissing(t, cols))
<1> DEFINE added == [i \in DOMAIN cols |-> [Add(t, cols[i]) EXCEPT !.unless = cols[i]]]
<1>1. \A i \in DOMAIN cols : Tame(added[i])
  BY TameStatements DEF Tame, Sound, IsStatement, ColumnNames
<1>2. AllTame(added)
  BY <1>1 DEF AllTame, IsSequence, ColumnNames
<1>3. AllTame(<<Look(t)>>)
  BY Listed, TameStatements
<1>4. QED
  BY <1>2, <1>3, Concatenated DEF AddMissing

LEMMA Tuples ==
  /\ \A a : a \notin Reserved => ColumnNames(<<a>>)
  /\ \A a, b : a \notin Reserved /\ b \notin Reserved => ColumnNames(<<a, b>>)
  /\ \A a, b, c, d : a \notin Reserved /\ b \notin Reserved /\ c \notin Reserved /\ d \notin Reserved
                     => ColumnNames(<<a, b, c, d>>)
  /\ \A a, b, c, d, e : a \notin Reserved /\ b \notin Reserved /\ c \notin Reserved /\ d \notin Reserved /\ e \notin Reserved
                        => ColumnNames(<<a, b, c, d, e>>)
<1>1. SUFFICES ASSUME NEW a, NEW b, NEW c, NEW d, NEW e
               PROVE  /\ a \notin Reserved => ColumnNames(<<a>>)
                      /\ a \notin Reserved /\ b \notin Reserved => ColumnNames(<<a, b>>)
                      /\ a \notin Reserved /\ b \notin Reserved /\ c \notin Reserved /\ d \notin Reserved
                           => ColumnNames(<<a, b, c, d>>)
                      /\ a \notin Reserved /\ b \notin Reserved /\ c \notin Reserved /\ d \notin Reserved /\ e \notin Reserved
                           => ColumnNames(<<a, b, c, d, e>>)
  OBVIOUS
<1>2. IsSequence(<<a>>) /\ IsSequence(<<a, b>>)
  BY DEF IsSequence
<1>3. <<a, b, c, d>> \in Seq({a, b, c, d}) /\ <<a, b, c, d, e>> \in Seq({a, b, c, d, e})
  OBVIOUS
<1>4. IsSequence(<<a, b, c, d>>) /\ IsSequence(<<a, b, c, d, e>>)
  BY <1>3, SequenceFacts
<1>5. QED
  BY <1>2, <1>4 DEF ColumnNames

LEMMA Endings ==
  ASSUME NEW n
  PROVE  /\ Whole(<<Closing(n)>>, n)
         /\ \A a : Tame(a) => Whole(<<a, Closing(n)>>, n)
         /\ \A a, b : Tame(a) /\ Tame(b) => Whole(<<a, b, Closing(n)>>, n)
BY SequenceFacts DEF Whole, Ended, IsSequence

\* The migrations that rebuild nothing.
Gentle == (1 .. SchemaVersion - 1) \ {6, 15, 19, 24, 25}

LEMMA GentleMigrations ==
  ASSUME NEW n \in Gentle
  PROVE  Whole(Migrations[n], n)
<1> USE DEF SchemaVersion, Reserved, Made
<1>1. Whole(Migrate1, 1)
  <2>1. AllTame(AddMissing("tracks", <<"channels", "channel_layout", "width", "height", "frame_rate">>))
    BY AddMissingTame, Tuples
  <2>2. Whole(<<Version(2)>>, 1)
    <3>1. Closing(1) = Version(2)
      BY DEF Closing
    <3>2. QED
      BY <3>1, Endings
  <2>3. QED
    BY <2>1, <2>2, Concatenated DEF Migrate1
<1>2. Whole(Migrate2, 2)
  <2>1. AllTame(<<DropIfExists("operations")>>) /\ AllTame(Table("operations", {"policy_name"}))
    BY Listed, TameStatements, TablesTame, Names
  <2>2. Whole(<<Version(3)>>, 2)
    <3>1. Closing(2) = Version(3)
      BY DEF Closing
    <3>2. QED
      BY <3>1, Endings
  <2>3. QED
    BY <2>1, <2>2, Concatenated DEF Migrate2
<1>3. Whole(Migrate3, 3)
  <2>1. AllTame(IfMissing("plugin_acknowledgments"))
    BY TablesTame, Names
  <2>2. Whole(<<Version(4)>>, 3)
    <3>1. Closing(3) = Version(4)
      BY DEF Closing
    <3>2. QED
      BY <3>1, Endings
  <2>3. QED
    BY <2>1, <2>2, Concatenated DEF Migrate3
<1>4. Whole(Migrate4, 4)
  <2>1. AllTame(IfMissing("jobs"))
    BY TablesTame, Names
  <2>2. Whole(<<Version(5)>>, 4)
    <3>1. Closing(4) = Version(5)
      BY DEF Closing
    <3>2. QED
      BY <3>1, Endings
  <2>3. QED
    BY <2>1, <2>2, Concatenated DEF Migrate4
<1>5. Whole(Migrate5, 5)
  <2>1. AllTame(IfMissing("transcription_results"))
    BY TablesTame, Names
  <2>2. Whole(<<Version(6)>>, 5)
    <3>1. Closing(5) = Version(6)
      BY DEF Closing
    <3>2. QED
      BY <3>1, Endings
  <2>3. QED
    BY <2>1, <2>2, Concatenated DEF Migrate5
<1>7. Whole(Migrate7, 7)
  <2>1. AllTame(AddMissing("jobs", <<"log_path">>))
    BY AddMissingTame, Tuples
  <2>2. Whole(<<Version(8)>>, 7)
    <3>1. Closing(7) = Version(8)
      BY DEF Closing
    <3>2. QED
      BY <3>1, Endings
  <2>3. QED
    BY <2>1, <2>2, Concatenated DEF Migrate7
<1>8. Whole(Migrate8, 8)
  <2>1. Tame(Index("files", "ix_job_id", {"job_id"})) /\ AllTame(AddMissing("files", <<"job_id">>))
    BY TameStatements, AddMissingTame, Tuples
  <2>2. Whole(<<Index("files", "ix_job_id", {"job_id"}), Version(9)>>, 8)
    <3>1. Closing(8) = Version(9)
      BY DEF Closing
    <3>2. QED
      BY <2>1, <3>1, Endings
  <2>3. QED
    BY <2>1, <2>2, Concatenated DEF Migrate8
<1>9. Whole(Migrate9, 9)
  <2>1. Tame(Index("files", "ix_status_scanned", {}))
    BY TameStatements
  <2>2. Closing(9) = Version(10)
    BY DEF Closing
  <2>3. QED
    BY <2>1, <2>2, Endings DEF Migrate9
<1>10. Whole(Migrate10, 10)
  <2>1. Tame(Begin)
    BY TameStatements
  <2>2. Closing(10) = Version(11)
    BY DEF Closing
  <2>3. QED
    BY <2>1, <2>2, Endings DEF Migrate10
<1>11. Whole(Migrate11, 11)
  <2>1. AllTame(IfMissing("plans"))
    BY TablesTame, Names
  <2>2. Whole(<<Version(12)>>, 11)
    <3>1. Closing(11) = Version(12)
      BY DEF Closing
    <3>2. QED
      BY <3>1, Endings
  <2>3. QED
    BY <2>1, <2>2, Concatenated DEF Migrate11
<1>12. Whole(Migrate12, 12)
  <2>1. AllTame(AddMissing("tracks", <<"color_transfer", "color_primaries", "color_space", "color_range">>))
    BY AddMissingTame, Tuples
  <2>2. Whole(<<Version(13)>>, 12)
    <3>1. Closing(12) = Version(13)
      BY DEF Closing
    <3>2. QED
      BY <3>1, Endings
  <2>3. QED
    BY <2>1, <2>2, Concatenated DEF Migrate12
<1>13. Whole(Migrate13, 13)
  <2>1. AllTame(IfMissing("language_analysis_results")) /\ AllTame(IfMissing("language_segments"))
    BY TablesTame, Names
  <2>2. Whole(<<Version(14)>>, 13)
    <3>1. Closing(13) = Version(14)
      BY DEF Closing
    <3>2. QED
      BY <3>1, Endings
  <2>3. QED
    BY <2>1, <2>2, Concatenated DEF Migrate13
<1>14. Whole(Migrate14, 14)
  <2>1. AllTame(AddMissing("tracks", <<"duration_seconds">>))
    BY AddMissingTame, Tuples
  <2>2. Whole(<<Version(15)>>, 14)
    <3>1. Closing(14) = Version(15)
      BY DEF Closing
    <3>2. QED
      BY <3>1, Endings
  <2>3. QED
    BY <2>1, <2>2, Concatenated DEF Migrate14
<1>16. Whole(Migrate16, 16)
  <2>1. AllTame(AddMissing("files", <<"plugin_metadata">>))
    BY AddMissingTame, Tuples
  <2>2. Whole(<<Version(17)>>, 16)
    <3>1. Closing(16) = Version(17)
      BY DEF Closing
    <3>2. QED
      BY <3>1, Endings
  <2>3. QED
    BY <2>1, <2>2, Concatenated DEF Migrate16
<1>17. Whole(Migrate17, 17)
  <2>1. /\ AllTame(IfMissing("processing_stats"))
        /\ AllTame(IfMissing("action_results"))
        /\ AllTame(IfMissing("performance_metrics"))
    BY TablesTame, Names
  <2>2. Whole(<<Version(18)>>, 17)
    <3>1. Closing(17) = Version(18)
      BY DEF Closing
    <3>2. QED
      BY <3>1, Endings
  <2>3. QED
    BY <2>1, <2>2, Concatenated DEF Migrate17
<1>18. Whole(Migrate18, 18)
  <2>1. AllTame(IfMissing("track_classification_results"))
    BY TablesTame, Names
  <2>2. Whole(<<Version(19)>>, 18)
    <3>1. Closing(18) = Version(19)
      BY DEF Closing
    <3>2. QED
      BY <3>1, Endings
  <2>3. QED
    BY <2>1, <2>2, Concatenated DEF Migrate18
<1>20. Whole(Migrate20, 20)
  <2>1. AllTame(AddMissing("processing_stats", <<"encoder_type">>))
    BY AddMissingTame, Tuples
  <2>2. Whole(<<Version(21)>>, 20)
    <3>1. Closing(20) = Version(21)
      BY DEF Closing
    <3>2. QED
      BY <3>1, Endings
  <2>3. QED
    BY <2>1, <2>2, Concatenated DEF Migrate20
<1>21. Whole(Migrate21, 21)
  <2>1. Tame(Index("processing_stats", "ix_file_time", {}))
    BY TameStatements
  <2>2. Closing(21) = Version(22)
    BY DEF Closing
  <2>3. QED
    BY <2>1, <2>2, Endings DEF Migrate21
<1>22. Whole(Migrate22, 22)
  <2>1. /\ AllTame(AddMissing("jobs", <<"origin", "batch_id">>))
        /\ AllTame(AddMissing("processing_stats", <<"job_id">>))
    BY AddMissingTame, Tuples
  <2>2. Tame(Index("processing_stats", "ix_job", {"job_id"}))
    BY TameStatements
  <2>3. Whole(<<Index("processing_stats", "ix_job", {"job_id"}), Version(23)>>, 22)
    <3>1. Closing(22) = Version(23)
      BY DEF Closing
    <3>2. QED
      BY <2>2, <3>1, Endings
  <2>4. QED
    BY <2>1, <2>3, Concatenated DEF Migrate22
<1>23. Whole(Migrate23, 23)
  <2>1. Tame(Index("jobs", "ix_origin", {"origin"})) /\ Tame(Index("jobs", "ix_batch_id", {"batch_id"}))
    BY TameStatements
  <2>2. Closing(23) = Version(24)
    BY DEF Closing
  <2>3. QED
    BY <2>1, <2>2, Endings DEF Migrate23
<1>26. Whole(Migrate26, 26)
  <2>1. AllTame(<<Look("files"), Begin>>) /\ AllTame(<<Add("files", "container_tags")>>)
    BY Listed, TameStatements
  <2>2. AllTame(Unless("container_tags", <<Add("files", "container_tags")>>))
    BY <2>1, UnlessTame
  <2>3. Whole(<<Version(27)>>, 26)
    <3>1. Closing(26) = Version(27)
      BY DEF Closing
    <3>2. QED
      BY <3>1, Endings
  <2>4. QED
    BY <2>1, <2>2, <2>3, Concatenated DEF Migrate26
<1>27. QED
  BY <1>1, <1>2, <1>3, <1>4, <1>5, <1>7, <1>8, <1>9, <1>10, <1>11, <1>12, <1>13, <1>14, <1>16, <1>17,
     <1>18, <1>20, <1>21, <1>22, <1>23, <1>26 DEF Gentle, Migrations

LEMMA CreateSchemaWhole == Whole(CreateSchema, 0)
<1> USE DEF Reserved, Made
<1>1. AllTame(SchemaOfFiles) /\ AllTame(SchemaOfTracks)
  BY Listed, TameStatements, Names DEF SchemaOfFiles, SchemaOfTracks
<1>2. AllTame(SchemaOfPolicies)
  <2>1. /\ AllTame(Table("operations", {"policy_name"})) /\ AllTame(<<Create("policies", {})>>)
        /\ AllTame(Table("plugin_acknowledgments", {}))
    BY TablesTame, Listed, TameStatements, Names
  <2>2. QED
    BY <2>1, Concatenated DEF SchemaOfPolicies
<1>3. AllTame(SchemaOfJobs)
  <2>0. Made("jobs", JobsOf26)
    BY DEF JobsOf26, JobsOf7
  <2>1. /\ AllTame(Table("jobs", JobsOf26))
        /\ AllTame(<<Index("jobs", "ix_job_type", {}), Index("jobs", "ix_origin", {"origin"}),
                     Index("jobs", "ix_batch_id", {"batch_id"})>>)
    BY <2>0, TablesTame, Listed, TameStatements, Names
  <2>2. QED
    BY <2>1, Concatenated DEF SchemaOfJobs
<1>4. AllTame(SchemaOfAnalysis)
  <2>1. /\ AllTame(Table("transcription_results", {"music"})) /\ AllTame(Table("plans", {}))
        /\ AllTame(Table("language_analysis_results", {})) /\ AllTame(Table("language_segments", {}))
    BY TablesTame, Names
  <2>2. QED
    BY <2>1, Concatenated DEF SchemaOfAnalysis
<1>5. AllTame(SchemaOfStatistics)
  <2>1. /\ AllTame(Table("processing_stats", {"encoder_type", "job_id", "fk_job"}))
        /\ AllTame(<<Index("processing_stats", "ix_job", {"job_id"}),
                     Index("processing_stats", "ix_file_time", {})>>)
        /\ AllTame(Table("action_results", {})) /\ AllTame(Table("performance_metrics", {}))
    BY TablesTame, Listed, TameStatements, Names
  <2>2. QED
    BY <2>1, Concatenated DEF SchemaOfStatistics
<1>6. AllTame(SchemaOfTheRest)
  <2>1. /\ AllTame(Table("track_classification_results", {}))
        /\ AllTame(Table("library_snapshots", {}))
    BY TablesTame, Names
  <2>2. QED
    BY <2>1, Concatenated DEF SchemaOfTheRest
<1>7. Whole(<<Stamp>>, 0)
  BY SequenceFacts DEF Whole, Ended, IsSequence, Closing
<1>8. QED
  BY <1>1, <1>2, <1>3, <1>4, <1>5, <1>6, <1>7, Concatenated DEF CreateSchema

-----------------------------------------------------------------------------
(* The migrations that rebuild a table.                                    *)

Rebuilds == {6, 15, 19, 24, 25}
Subject(n) == CASE n = 15 -> "transcription_results" [] n = 24 -> "processing_stats" [] OTHER -> "jobs"
MakeLine(n) == IF n = 25 THEN 3 ELSE 2
CopyLine(n) == IF n \in {24, 25} THEN 4 ELSE 3

\* What the copy is made with, and what the copying asks of the table.
MadeCols(n) ==
    CASE n = 6 -> JobsOf7
      [] n = 15 -> {"music"}
      [] n = 19 -> JobsOf7 \cup {"log_path", "valid_priority"}
      [] n = 24 -> {"encoder_type", "job_id", "fk_job"}
      [] OTHER -> JobsOf26
NeededCols(n) ==
    CASE n = 19 -> JobsOf7 \cup {"log_path"}
      [] n = 24 -> {"encoder_type", "job_id"}
      [] OTHER -> {}

Tagged(what, s) == [s EXCEPT !.unless = what]

LEMMA Migration6 ==
  LET s == Migrate6
      what == "summary_json"
  IN  /\ IsSequence(s) /\ Len(s) = 7
      /\ s[1] = Look("jobs")
      /\ s[2] = Tagged(what, Create("jobs_new", JobsOf7))
      /\ s[3] = Tagged(what, Copy("jobs", {}))
      /\ s[4] = Tagged(what, Drop("jobs"))
      /\ s[5] = Tagged(what, Rename("jobs"))
      /\ s[6] = Tagged(what, Index("jobs", "ix", {}))
      /\ s[7] = Version(7)
BY DEF Migrate6, IsSequence, Unless, Tagged

LEMMA Migration15 ==
  LET s == Migrate15
      what == "music"
  IN  /\ IsSequence(s) /\ Len(s) = 7
      /\ s[1] = Look("transcription_results")
      /\ s[2] = Tagged(what, Create("transcription_results_new", {"music"}))
      /\ s[3] = Tagged(what, Copy("transcription_results", {}))
      /\ s[4] = Tagged(what, Drop("transcription_results"))
      /\ s[5] = Tagged(what, Rename("transcription_results"))
      /\ s[6] = Tagged(what, Index("transcription_results", "ix", {}))
      /\ s[7] = Version(16)
BY DEF Migrate15, IsSequence, Unless, Tagged

LEMMA Migration19 ==
  LET s == Migrate19
      what == "valid_priority"
  IN  /\ IsSequence(s) /\ Len(s) = 8
      /\ s[1] = Look("jobs")
      /\ s[2] = Tagged(what, Create("jobs_new", JobsOf7 \cup {"log_path", "valid_priority"}))
      /\ s[3] = Tagged(what, Copy("jobs", JobsOf7 \cup {"log_path"}))
      /\ s[4] = Tagged(what, Drop("jobs"))
      /\ s[5] = Tagged(what, Rename("jobs"))
      /\ s[6] = Tagged(what, Index("jobs", "ix", {}))
      /\ s[7] = Tagged(what, Index("jobs", "ix_job_type", {}))
      /\ s[8] = Version(20)
<1>1. IsSequence(Migrate19) /\ Len(Migrate19) = 8
  BY DEF Migrate19, IsSequence, Unless
<1>2. /\ Migrate19[1] = Look("jobs")
      /\ Migrate19[2] = Tagged("valid_priority", Create("jobs_new", JobsOf7 \cup {"log_path", "valid_priority"}))
      /\ Migrate19[3] = Tagged("valid_priority", Copy("jobs", JobsOf7 \cup {"log_path"}))
      /\ Migrate19[4] = Tagged("valid_priority", Drop("jobs"))
  <2>1. /\ Migrate19[1] = Look("jobs")
        /\ Migrate19[2] = Tagged("valid_priority",
                                Create("jobs_new", JobsOf7 \cup {"log_path", "valid_priority"}))
    BY DEF Migrate19, Unless, Tagged
  <2>2. /\ Migrate19[3] = Tagged("valid_priority", Copy("jobs", JobsOf7 \cup {"log_path"}))
        /\ Migrate19[4] = Tagged("valid_priority", Drop("jobs"))
    BY DEF Migrate19, Unless, Tagged
  <2>3. QED
    BY <2>1, <2>2
<1>3. /\ Migrate19[5] = Tagged("valid_priority", Rename("jobs"))
      /\ Migrate19[6] = Tagged("valid_priority", Index("jobs", "ix", {}))
      /\ Migrate19[7] = Tagged("valid_priority", Index("jobs", "ix_job_type", {}))
      /\ Migrate19[8] = Version(20)
  BY DEF Migrate19, Unless, Tagged
<1>4. QED
  BY <1>1, <1>2, <1>3

LEMMA Migration24 ==
  LET s == Migrate24
      what == "fk_job"
  IN  /\ IsSequence(s) /\ Len(s) = 10
      /\ s[1] = Look("processing_stats")
      /\ s[2] = Tagged(what, Make("processing_stats_new", {"encoder_type", "job_id", "fk_job"}))
      /\ s[3] = Tagged(what, Begin)
      /\ s[4] = Tagged(what, Copy("processing_stats", {"encoder_type", "job_id"}))
      /\ s[5] = Tagged(what, Drop("processing_stats"))
      /\ s[6] = Tagged(what, Rename("processing_stats"))
      /\ s[7] = Tagged(what, Index("processing_stats", "ix", {}))
      /\ s[8] = Tagged(what, Index("processing_stats", "ix_job", {"job_id"}))
      /\ s[9] = Tagged(what, Index("processing_stats", "ix_file_time", {}))
      /\ s[10] = Version(25)
BY DEF Migrate24, IsSequence, Unless, Tagged

LEMMA Migration25 ==
  LET s == Migrate25
      what == "prune"
  IN  /\ IsSequence(s) /\ Len(s) = 14
      /\ s[1] = Look("jobs")
      /\ s[2] = Tagged(what, Begin)
      /\ s[3] = Tagged(what, Make("jobs_new", JobsOf26))
      /\ s[4] = Tagged(what, Copy("jobs", {}))
      /\ s[5] = Tagged(what, Drop("jobs"))
      /\ s[6] = Tagged(what, Rename("jobs"))
      /\ s[7] = Tagged(what, Index("jobs", "ix", {}))
      /\ s[8] = Tagged(what, Index("jobs", "ix_job_type", {}))
      /\ s[9] = Tagged(what, Index("jobs", "ix_origin", {"origin"}))
      /\ s[10] = Tagged(what, Index("jobs", "ix_batch_id", {"batch_id"}))
      /\ s[11] = Tagged(what, Commit)
      /\ s[12] = Create("library_snapshots", {})
      /\ s[13] = Index("library_snapshots", "ix", {})
      /\ s[14] = Version(26)
<1>1. IsSequence(Migrate25) /\ Len(Migrate25) = 14
  BY DEF Migrate25, IsSequence, Unless, Table
<1>2. /\ Migrate25[1] = Look("jobs")
      /\ Migrate25[2] = Tagged("prune", Begin)
      /\ Migrate25[3] = Tagged("prune", Make("jobs_new", JobsOf26))
      /\ Migrate25[4] = Tagged("prune", Copy("jobs", {}))
      /\ Migrate25[5] = Tagged("prune", Drop("jobs"))
      /\ Migrate25[6] = Tagged("prune", Rename("jobs"))
      /\ Migrate25[7] = Tagged("prune", Index("jobs", "ix", {}))
  BY DEF Migrate25, Unless, Tagged, Table
<1>3. /\ Migrate25[8] = Tagged("prune", Index("jobs", "ix_job_type", {}))
      /\ Migrate25[9] = Tagged("prune", Index("jobs", "ix_origin", {"origin"}))
      /\ Migrate25[10] = Tagged("prune", Index("jobs", "ix_batch_id", {"batch_id"}))
      /\ Migrate25[11] = Tagged("prune", Commit)
      /\ Migrate25[12] = Create("library_snapshots", {})
      /\ Migrate25[13] = Index("library_snapshots", "ix", {})
      /\ Migrate25[14] = Version(26)
  BY DEF Migrate25, Unless, Tagged, Table
<1>4. QED
  BY <1>1, <1>2, <1>3

\* What the statements of a rebuild do, line by line.
Shaped(n, s) ==
    LET t == Subject(n)
        c == CopyLine(n)
    IN  /\ IsSequence(s) /\ Len(s) > c + 2 /\ Ended(s, n)
        /\ \A i \in DOMAIN s :
             /\ Sound(s[i])
             /\ i = MakeLine(n) => /\ s[i].op \in {"create", "make"} /\ s[i].table = New[t]
                                  /\ s[i].cols = MadeCols(n)
             /\ i = c => /\ s[i].op = "copy" /\ s[i].table = t /\ s[i].arg = New[t]
                        /\ s[i].cols = NeededCols(n)
             /\ i = c + 1 => s[i].op = "drop" /\ s[i].table = t
             /\ i = c + 2 => s[i].op = "rename" /\ s[i].table = New[t] /\ s[i].arg = t
             /\ i \notin {MakeLine(n), c, c + 1, c + 2, Len(s)} => Tame(s[i])
        /\ \A i \in 2 .. c + 2 : s[i].unless = s[2].unless

LEMMA TaggedFacts ==
  ASSUME NEW what, NEW s, IsStatement(s)
  PROVE  /\ IsStatement(Tagged(what, s)) /\ Tagged(what, s).unless = what
         /\ Tagged(what, s).op = s.op /\ Tagged(what, s).table = s.table
         /\ Tagged(what, s).arg = s.arg /\ Tagged(what, s).cols = s.cols
         /\ Sound(s) => Sound(Tagged(what, s))
         /\ Tame(s) => Tame(Tagged(what, s))
BY DEF Tagged, IsStatement, Tame, Sound

LEMMA Rebuilders ==
  ASSUME NEW t, NEW cols
  PROVE  /\ IsStatement(Create(t, cols)) /\ Create(t, cols).op = "create" /\ Create(t, cols).table = t
         /\ Create(t, cols).cols = cols
         /\ IsStatement(Make(t, cols)) /\ Make(t, cols).op = "make" /\ Make(t, cols).table = t
         /\ Make(t, cols).cols = cols
         /\ IsStatement(Copy(t, cols)) /\ Copy(t, cols).op = "copy" /\ Copy(t, cols).table = t
         /\ Copy(t, cols).arg = New[t] /\ Copy(t, cols).cols = cols
         /\ IsStatement(Drop(t)) /\ Drop(t).op = "drop" /\ Drop(t).table = t
         /\ IsStatement(Rename(t)) /\ Rename(t).op = "rename" /\ Rename(t).table = New[t]
         /\ Rename(t).arg = t
         /\ Sound(Drop(t)) /\ Sound(Rename(t))
         /\ Made(t, cols) => Sound(Create(t, cols)) /\ Sound(Make(t, cols))
         /\ "never" \notin cols => Sound(Copy(t, cols))
<1>1. Made(t, cols) => "never" \notin cols
  BY DEF Made
<1>2. QED
  BY <1>1 DEF Sound, IsStatement, Statement, Create, Make, Copy, Drop, Rename

LEMMA ShapeOf6 == Shaped(6, Migrate6)
<1>1. /\ Subject(6) = "jobs" /\ CopyLine(6) = 3 /\ MakeLine(6) = 2 /\ New["jobs"] = "jobs_new"
      /\ DOMAIN Migrate6 = 1 .. 7 /\ Len(Migrate6) = 7 /\ IsSequence(Migrate6)
      /\ MadeCols(6) = JobsOf7 /\ NeededCols(6) = {}
  BY Migration6, Names DEF MadeCols, NeededCols, Subject, CopyLine, MakeLine, IsSequence
<1>2. Tame(Migrate6[1]) /\ Tame(Migrate6[6])
  <2>1. /\ Tame(Look("jobs"))
        /\ Tame(Index("jobs", "ix", {}))
    BY TameStatements DEF Reserved
  <2>2. \A s : Tame(s) => Tame(Tagged("summary_json", s))
    BY TaggedFacts DEF Tame, Sound
  <2>3. QED
    BY <2>1, <2>2, Migration6
<1>3. Made("jobs_new", JobsOf7) /\ "never" \notin {}
  BY DEF Made, JobsOf7, JobsOf26
<1>4. /\ Sound(Migrate6[2]) /\ Sound(Migrate6[3]) /\ Sound(Migrate6[4]) /\ Sound(Migrate6[5])
      /\ Migrate6[2].op = "create" /\ Migrate6[2].table = "jobs_new"
      /\ Migrate6[2].cols = MadeCols(6)
      /\ Migrate6[3].op = "copy" /\ Migrate6[3].table = "jobs" /\ Migrate6[3].arg = "jobs_new"
      /\ Migrate6[3].cols = NeededCols(6)
      /\ Migrate6[4].op = "drop" /\ Migrate6[4].table = "jobs"
      /\ Migrate6[5].op = "rename" /\ Migrate6[5].table = "jobs_new" /\ Migrate6[5].arg = "jobs"
  <2>1. Sound(Migrate6[2]) /\ Sound(Migrate6[3]) /\ Sound(Migrate6[4]) /\ Sound(Migrate6[5])
    BY <1>3, Migration6, Rebuilders, TaggedFacts
  <2>2. /\ Migrate6[2].op = "create" /\ Migrate6[2].table = "jobs_new"
        /\ Migrate6[2].cols = MadeCols(6)
    BY <1>1, Migration6 DEF Tagged, Create, Make, Copy, Statement
  <2>3. /\ Migrate6[3].op = "copy" /\ Migrate6[3].table = "jobs" /\ Migrate6[3].arg = "jobs_new"
        /\ Migrate6[3].cols = NeededCols(6)
    BY <1>1, Migration6 DEF Tagged, Create, Make, Copy, Statement
  <2>4. /\ Migrate6[4].op = "drop" /\ Migrate6[4].table = "jobs"
        /\ Migrate6[5].op = "rename" /\ Migrate6[5].table = "jobs_new" /\ Migrate6[5].arg = "jobs"
    BY <1>1, Migration6, Rebuilders, TaggedFacts
  <2>5. QED
    BY <2>1, <2>2, <2>3, <2>4
<1>5. \A i \in 2 .. 5 : Migrate6[i].unless = "summary_json"
  BY Migration6, Rebuilders, TameStatements, TaggedFacts DEF Tame, Sound
<1>6. Ended(Migrate6, 6) /\ Sound(Migrate6[7])
  <2>1. Migrate6[7] = Closing(6)
    BY Migration6 DEF Closing
  <2>2. QED
    BY <1>1, <2>1, ClosingFacts DEF Ended, SchemaVersion
<1>7. \A i \in 1 .. 7 : i \notin {2, 3, 4, 5, 7} => Tame(Migrate6[i])
  BY <1>2
<1>8. QED
  BY <1>1, <1>4, <1>5, <1>6, <1>7 DEF Shaped, Tame

LEMMA ShapeOf15 == Shaped(15, Migrate15)
<1>1. /\ Subject(15) = "transcription_results" /\ CopyLine(15) = 3 /\ MakeLine(15) = 2 /\ New["transcription_results"] = "transcription_results_new"
      /\ DOMAIN Migrate15 = 1 .. 7 /\ Len(Migrate15) = 7 /\ IsSequence(Migrate15)
      /\ MadeCols(15) = {"music"} /\ NeededCols(15) = {}
  BY Migration15, Names DEF MadeCols, NeededCols, Subject, CopyLine, MakeLine, IsSequence
<1>2. Tame(Migrate15[1]) /\ Tame(Migrate15[6])
  <2>1. /\ Tame(Look("transcription_results"))
        /\ Tame(Index("transcription_results", "ix", {}))
    BY TameStatements DEF Reserved
  <2>2. \A s : Tame(s) => Tame(Tagged("music", s))
    BY TaggedFacts DEF Tame, Sound
  <2>3. QED
    BY <2>1, <2>2, Migration15
<1>3. Made("transcription_results_new", {"music"}) /\ "never" \notin {}
  BY DEF Made, JobsOf7, JobsOf26
<1>4. /\ Sound(Migrate15[2]) /\ Sound(Migrate15[3]) /\ Sound(Migrate15[4]) /\ Sound(Migrate15[5])
      /\ Migrate15[2].op = "create" /\ Migrate15[2].table = "transcription_results_new"
      /\ Migrate15[2].cols = MadeCols(15)
      /\ Migrate15[3].op = "copy" /\ Migrate15[3].table = "transcription_results" /\ Migrate15[3].arg = "transcription_results_new"
      /\ Migrate15[3].cols = NeededCols(15)
      /\ Migrate15[4].op = "drop" /\ Migrate15[4].table = "transcription_results"
      /\ Migrate15[5].op = "rename" /\ Migrate15[5].table = "transcription_results_new" /\ Migrate15[5].arg = "transcription_results"
  <2>1. Sound(Migrate15[2]) /\ Sound(Migrate15[3]) /\ Sound(Migrate15[4]) /\ Sound(Migrate15[5])
    BY <1>3, Migration15, Rebuilders, TaggedFacts
  <2>2. /\ Migrate15[2].op = "create" /\ Migrate15[2].table = "transcription_results_new"
        /\ Migrate15[2].cols = MadeCols(15)
    BY <1>1, Migration15 DEF Tagged, Create, Make, Copy, Statement
  <2>3. /\ Migrate15[3].op = "copy" /\ Migrate15[3].table = "transcription_results" /\ Migrate15[3].arg = "transcription_results_new"
        /\ Migrate15[3].cols = NeededCols(15)
    BY <1>1, Migration15 DEF Tagged, Create, Make, Copy, Statement
  <2>4. /\ Migrate15[4].op = "drop" /\ Migrate15[4].table = "transcription_results"
        /\ Migrate15[5].op = "rename" /\ Migrate15[5].table = "transcription_results_new" /\ Migrate15[5].arg = "transcription_results"
    BY <1>1, Migration15, Rebuilders, TaggedFacts
  <2>5. QED
    BY <2>1, <2>2, <2>3, <2>4
<1>5. \A i \in 2 .. 5 : Migrate15[i].unless = "music"
  BY Migration15, Rebuilders, TameStatements, TaggedFacts DEF Tame, Sound
<1>6. Ended(Migrate15, 15) /\ Sound(Migrate15[7])
  <2>1. Migrate15[7] = Closing(15)
    BY Migration15 DEF Closing
  <2>2. QED
    BY <1>1, <2>1, ClosingFacts DEF Ended, SchemaVersion
<1>7. \A i \in 1 .. 7 : i \notin {2, 3, 4, 5, 7} => Tame(Migrate15[i])
  BY <1>2
<1>8. QED
  BY <1>1, <1>4, <1>5, <1>6, <1>7 DEF Shaped, Tame

LEMMA ShapeOf19 == Shaped(19, Migrate19)
<1>1. /\ Subject(19) = "jobs" /\ CopyLine(19) = 3 /\ MakeLine(19) = 2 /\ New["jobs"] = "jobs_new"
      /\ DOMAIN Migrate19 = 1 .. 8 /\ Len(Migrate19) = 8 /\ IsSequence(Migrate19)
      /\ MadeCols(19) = JobsOf7 \cup {"log_path", "valid_priority"} /\ NeededCols(19) = JobsOf7 \cup {"log_path"}
  BY Migration19, Names DEF MadeCols, NeededCols, Subject, CopyLine, MakeLine, IsSequence
<1>2. Tame(Migrate19[1]) /\ Tame(Migrate19[6]) /\ Tame(Migrate19[7])
  <2>1. /\ Tame(Look("jobs"))
        /\ Tame(Index("jobs", "ix", {}))
        /\ Tame(Index("jobs", "ix_job_type", {}))
    BY TameStatements DEF Reserved
  <2>2. \A s : Tame(s) => Tame(Tagged("valid_priority", s))
    BY TaggedFacts DEF Tame, Sound
  <2>3. QED
    BY <2>1, <2>2, Migration19
<1>3. Made("jobs_new", JobsOf7 \cup {"log_path", "valid_priority"}) /\ "never" \notin (JobsOf7 \cup {"log_path"})
  BY DEF Made, JobsOf7, JobsOf26
<1>4. /\ Sound(Migrate19[2]) /\ Sound(Migrate19[3]) /\ Sound(Migrate19[4]) /\ Sound(Migrate19[5])
      /\ Migrate19[2].op = "create" /\ Migrate19[2].table = "jobs_new"
      /\ Migrate19[2].cols = MadeCols(19)
      /\ Migrate19[3].op = "copy" /\ Migrate19[3].table = "jobs" /\ Migrate19[3].arg = "jobs_new"
      /\ Migrate19[3].cols = NeededCols(19)
      /\ Migrate19[4].op = "drop" /\ Migrate19[4].table = "jobs"
      /\ Migrate19[5].op = "rename" /\ Migrate19[5].table = "jobs_new" /\ Migrate19[5].arg = "jobs"
  <2>1. Sound(Migrate19[2]) /\ Sound(Migrate19[3]) /\ Sound(Migrate19[4]) /\ Sound(Migrate19[5])
    BY <1>3, Migration19, Rebuilders, TaggedFacts
  <2>2. /\ Migrate19[2].op = "create" /\ Migrate19[2].table = "jobs_new"
        /\ Migrate19[2].cols = MadeCols(19)
    BY <1>1, Migration19 DEF Tagged, Create, Make, Copy, Statement
  <2>3. /\ Migrate19[3].op = "copy" /\ Migrate19[3].table = "jobs" /\ Migrate19[3].arg = "jobs_new"
        /\ Migrate19[3].cols = NeededCols(19)
    BY <1>1, Migration19 DEF Tagged, Create, Make, Copy, Statement
  <2>4. /\ Migrate19[4].op = "drop" /\ Migrate19[4].table = "jobs"
        /\ Migrate19[5].op = "rename" /\ Migrate19[5].table = "jobs_new" /\ Migrate19[5].arg = "jobs"
    BY <1>1, Migration19, Rebuilders, TaggedFacts
  <2>5. QED
    BY <2>1, <2>2, <2>3, <2>4
<1>5. \A i \in 2 .. 5 : Migrate19[i].unless = "valid_priority"
  BY Migration19, Rebuilders, TameStatements, TaggedFacts DEF Tame, Sound
<1>6. Ended(Migrate19, 19) /\ Sound(Migrate19[8])
  <2>1. Migrate19[8] = Closing(19)
    BY Migration19 DEF Closing
  <2>2. QED
    BY <1>1, <2>1, ClosingFacts DEF Ended, SchemaVersion
<1>7. \A i \in 1 .. 8 : i \notin {2, 3, 4, 5, 8} => Tame(Migrate19[i])
  BY <1>2
<1>8. QED
  BY <1>1, <1>4, <1>5, <1>6, <1>7 DEF Shaped, Tame

LEMMA ShapeOf24 == Shaped(24, Migrate24)
<1>1. /\ Subject(24) = "processing_stats" /\ CopyLine(24) = 4 /\ MakeLine(24) = 2 /\ New["processing_stats"] = "processing_stats_new"
      /\ DOMAIN Migrate24 = 1 .. 10 /\ Len(Migrate24) = 10 /\ IsSequence(Migrate24)
      /\ MadeCols(24) = {"encoder_type", "job_id", "fk_job"} /\ NeededCols(24) = {"encoder_type", "job_id"}
  BY Migration24, Names DEF MadeCols, NeededCols, Subject, CopyLine, MakeLine, IsSequence
<1>2. Tame(Migrate24[1]) /\ Tame(Migrate24[3]) /\ Tame(Migrate24[7]) /\ Tame(Migrate24[8]) /\ Tame(Migrate24[9])
  <2>1. /\ Tame(Look("processing_stats"))
        /\ Tame(Begin)
        /\ Tame(Index("processing_stats", "ix", {}))
        /\ Tame(Index("processing_stats", "ix_job", {"job_id"}))
        /\ Tame(Index("processing_stats", "ix_file_time", {}))
    BY TameStatements DEF Reserved
  <2>2. \A s : Tame(s) => Tame(Tagged("fk_job", s))
    BY TaggedFacts DEF Tame, Sound
  <2>3. QED
    BY <2>1, <2>2, Migration24
<1>3. Made("processing_stats_new", {"encoder_type", "job_id", "fk_job"}) /\ "never" \notin {"encoder_type", "job_id"}
  BY DEF Made, JobsOf7, JobsOf26
<1>4. /\ Sound(Migrate24[2]) /\ Sound(Migrate24[4]) /\ Sound(Migrate24[5]) /\ Sound(Migrate24[6])
      /\ Migrate24[2].op = "make" /\ Migrate24[2].table = "processing_stats_new"
      /\ Migrate24[2].cols = MadeCols(24)
      /\ Migrate24[4].op = "copy" /\ Migrate24[4].table = "processing_stats" /\ Migrate24[4].arg = "processing_stats_new"
      /\ Migrate24[4].cols = NeededCols(24)
      /\ Migrate24[5].op = "drop" /\ Migrate24[5].table = "processing_stats"
      /\ Migrate24[6].op = "rename" /\ Migrate24[6].table = "processing_stats_new" /\ Migrate24[6].arg = "processing_stats"
  <2>1. Sound(Migrate24[2]) /\ Sound(Migrate24[4]) /\ Sound(Migrate24[5]) /\ Sound(Migrate24[6])
    BY <1>3, Migration24, Rebuilders, TaggedFacts
  <2>2. /\ Migrate24[2].op = "make" /\ Migrate24[2].table = "processing_stats_new"
        /\ Migrate24[2].cols = MadeCols(24)
    BY <1>1, Migration24 DEF Tagged, Create, Make, Copy, Statement
  <2>3. /\ Migrate24[4].op = "copy" /\ Migrate24[4].table = "processing_stats" /\ Migrate24[4].arg = "processing_stats_new"
        /\ Migrate24[4].cols = NeededCols(24)
    BY <1>1, Migration24 DEF Tagged, Create, Make, Copy, Statement
  <2>4. /\ Migrate24[5].op = "drop" /\ Migrate24[5].table = "processing_stats"
        /\ Migrate24[6].op = "rename" /\ Migrate24[6].table = "processing_stats_new" /\ Migrate24[6].arg = "processing_stats"
    BY <1>1, Migration24, Rebuilders, TaggedFacts
  <2>5. QED
    BY <2>1, <2>2, <2>3, <2>4
<1>5. \A i \in 2 .. 6 : Migrate24[i].unless = "fk_job"
  BY Migration24, Rebuilders, TameStatements, TaggedFacts DEF Tame, Sound
<1>6. Ended(Migrate24, 24) /\ Sound(Migrate24[10])
  <2>1. Migrate24[10] = Closing(24)
    BY Migration24 DEF Closing
  <2>2. QED
    BY <1>1, <2>1, ClosingFacts DEF Ended, SchemaVersion
<1>7. \A i \in 1 .. 10 : i \notin {2, 4, 5, 6, 10} => Tame(Migrate24[i])
  BY <1>2
<1>8. QED
  BY <1>1, <1>4, <1>5, <1>6, <1>7 DEF Shaped, Tame

LEMMA ShapeOf25 == Shaped(25, Migrate25)
<1>1. /\ Subject(25) = "jobs" /\ CopyLine(25) = 4 /\ MakeLine(25) = 3 /\ New["jobs"] = "jobs_new"
      /\ DOMAIN Migrate25 = 1 .. 14 /\ Len(Migrate25) = 14 /\ IsSequence(Migrate25)
      /\ MadeCols(25) = JobsOf26 /\ NeededCols(25) = {}
  BY Migration25, Names DEF MadeCols, NeededCols, Subject, CopyLine, MakeLine, IsSequence
<1>2. /\ Tame(Migrate25[1]) /\ Tame(Migrate25[2]) /\ Tame(Migrate25[7])
      /\ Tame(Migrate25[8]) /\ Tame(Migrate25[9]) /\ Tame(Migrate25[10])
      /\ Tame(Migrate25[11]) /\ Tame(Migrate25[12]) /\ Tame(Migrate25[13])
  <2>1. /\ Tame(Look("jobs")) /\ Tame(Begin) /\ Tame(Commit)
        /\ Tame(Create("library_snapshots", {})) /\ Tame(Index("library_snapshots", "ix", {}))
    BY TameStatements, Names DEF Reserved, Made
  <2>2. /\ Tame(Index("jobs", "ix", {})) /\ Tame(Index("jobs", "ix_job_type", {}))
        /\ Tame(Index("jobs", "ix_origin", {"origin"}))
        /\ Tame(Index("jobs", "ix_batch_id", {"batch_id"}))
    BY TameStatements DEF Reserved
  <2>3. \A s : Tame(s) => Tame(Tagged("prune", s))
    BY TaggedFacts DEF Tame, Sound
  <2>4. QED
    BY <2>1, <2>2, <2>3, Migration25
<1>3. Made("jobs_new", JobsOf26) /\ "never" \notin {}
  BY DEF Made, JobsOf7, JobsOf26
<1>4. /\ Sound(Migrate25[3]) /\ Sound(Migrate25[4]) /\ Sound(Migrate25[5]) /\ Sound(Migrate25[6])
      /\ Migrate25[3].op = "make" /\ Migrate25[3].table = "jobs_new"
      /\ Migrate25[3].cols = MadeCols(25)
      /\ Migrate25[4].op = "copy" /\ Migrate25[4].table = "jobs" /\ Migrate25[4].arg = "jobs_new"
      /\ Migrate25[4].cols = NeededCols(25)
      /\ Migrate25[5].op = "drop" /\ Migrate25[5].table = "jobs"
      /\ Migrate25[6].op = "rename" /\ Migrate25[6].table = "jobs_new" /\ Migrate25[6].arg = "jobs"
  <2>1. Sound(Migrate25[3]) /\ Sound(Migrate25[4]) /\ Sound(Migrate25[5]) /\ Sound(Migrate25[6])
    BY <1>3, Migration25, Rebuilders, TaggedFacts
  <2>2. /\ Migrate25[3].op = "make" /\ Migrate25[3].table = "jobs_new"
        /\ Migrate25[3].cols = MadeCols(25)
    BY <1>1, Migration25 DEF Tagged, Create, Make, Copy, Statement
  <2>3. /\ Migrate25[4].op = "copy" /\ Migrate25[4].table = "jobs" /\ Migrate25[4].arg = "jobs_new"
        /\ Migrate25[4].cols = NeededCols(25)
    BY <1>1, Migration25 DEF Tagged, Create, Make, Copy, Statement
  <2>4. /\ Migrate25[5].op = "drop" /\ Migrate25[5].table = "jobs"
        /\ Migrate25[6].op = "rename" /\ Migrate25[6].table = "jobs_new" /\ Migrate25[6].arg = "jobs"
    BY <1>1, Migration25, Rebuilders, TaggedFacts
  <2>5. QED
    BY <2>1, <2>2, <2>3, <2>4
<1>5. \A i \in 2 .. 6 : Migrate25[i].unless = "prune"
  BY Migration25, Rebuilders, TameStatements, TaggedFacts DEF Tame, Sound
<1>6. Ended(Migrate25, 25) /\ Sound(Migrate25[14])
  <2>1. Migrate25[14] = Closing(25)
    BY Migration25 DEF Closing
  <2>2. QED
    BY <1>1, <2>1, ClosingFacts DEF Ended, SchemaVersion
<1>7. \A i \in 1 .. 14 : i \notin {3, 4, 5, 6, 14} => Tame(Migrate25[i])
  BY <1>2
<1>8. QED
  BY <1>1, <1>4, <1>5, <1>6, <1>7 DEF Shaped, Tame

\* Every script is harmless or a rebuild, and ends as it should.
LEMMA ScriptShapes ==
  ASSUME NEW n \in 0 .. SchemaVersion - 1
  PROVE  /\ Ended(Scripts[n], n) /\ IsSequence(Scripts[n])
         /\ n \notin Rebuilds => Whole(Scripts[n], n)
         /\ n \in Rebuilds => Shaped(n, Scripts[n])
<1>1. Scripts[n] = IF n = 0 THEN CreateSchema ELSE Migrations[n]
  BY DEF Scripts
<1>2. CASE n = 0
  BY <1>1, <1>2, CreateSchemaWhole DEF Whole, Rebuilds
<1>3. CASE n \in Gentle
  BY <1>1, <1>3, GentleMigrations DEF Whole, Gentle, Rebuilds
<1>4. CASE n \in Rebuilds
  <2>1. Shaped(n, Migrations[n])
    BY <1>4, ShapeOf6, ShapeOf15, ShapeOf19, ShapeOf24, ShapeOf25 DEF Rebuilds, Migrations
  <2>2. QED
    BY <1>1, <1>4, <2>1 DEF Rebuilds, Shaped
<1>5. QED
  BY <1>2, <1>3, <1>4 DEF Gentle, Rebuilds, SchemaVersion

LEMMA Lines ==
  ASSUME NEW n \in 0 .. SchemaVersion - 1
  PROVE  /\ DOMAIN Scripts[n] = 1 .. Len(Scripts[n]) /\ Len(Scripts[n]) \in Nat
         /\ Len(Scripts[n]) > 0
BY ScriptShapes, SequenceFacts DEF IsSequence, Ended

\* Where the rebuild of table t is, for the place a of a process.
Stands(a, t, k) ==
    a.script \in Rebuilds /\ Subject(a.script) = t /\ a.line = CopyLine(a.script) + k

Makes(s, t) == s.op \in {"create", "make"} /\ s.table = New[t]
CopiesTo(s, t) == s.op = "copy" /\ s.table = t /\ s.arg = New[t]
Drops(s, t) == s.op = "drop" /\ s.table = t
Renames(s, t) == s.op = "rename" /\ s.table = New[t] /\ s.arg = t

\* What the statement at a place does to a rebuilt table.
LEMMA StatementAt ==
  ASSUME NEW a, a.script \in 0 .. SchemaVersion - 1, a.line \in 1 .. Len(Scripts[a.script]),
         NEW s, s = Scripts[a.script][a.line]
  PROVE  /\ Sound(s)
         /\ \/ Tame(s)
            \/ s = Closing(a.script) /\ a.line = Len(Scripts[a.script])
            \/ \E t \in Rebuilt : \/ Makes(s, t)
                                  \/ CopiesTo(s, t) /\ Stands(a, t, 0)
                                  \/ Drops(s, t) /\ Stands(a, t, 1)
                                  \/ Renames(s, t) /\ Stands(a, t, 2)
<1>1. a.line \in DOMAIN Scripts[a.script]
  BY Lines
<1>0. ASSUME a.line = Len(Scripts[a.script]) PROVE Sound(s) /\ s = Closing(a.script)
  BY <1>0, ScriptShapes, ClosingFacts DEF Ended
<1>2. CASE a.script \notin Rebuilds
  BY <1>0, <1>1, <1>2, ScriptShapes DEF Whole, Tame
<1>3. CASE a.script \in Rebuilds
  <2>1. Shaped(a.script, Scripts[a.script]) /\ Subject(a.script) \in Rebuilt
    BY <1>3, ScriptShapes, Names DEF Subject
  <2>2. Sound(s)
    BY <1>1, <2>1 DEF Shaped
  <2>3. CASE a.line = MakeLine(a.script)
    BY <1>1, <2>1, <2>2, <2>3 DEF Shaped, Makes
  <2>4. CASE a.line = CopyLine(a.script)
    BY <1>1, <1>3, <2>1, <2>2, <2>4 DEF Shaped, CopiesTo, Stands, CopyLine
  <2>5. CASE a.line = CopyLine(a.script) + 1
    BY <1>1, <1>3, <2>1, <2>2, <2>5 DEF Shaped, Drops, Stands
  <2>6. CASE a.line = CopyLine(a.script) + 2
    BY <1>1, <1>3, <2>1, <2>2, <2>6 DEF Shaped, Renames, Stands
  <2>7. CASE a.line \notin {MakeLine(a.script), CopyLine(a.script), CopyLine(a.script) + 1,
                            CopyLine(a.script) + 2}
    BY <1>0, <1>1, <2>1, <2>2, <2>7 DEF Shaped
  <2>8. QED
    BY <2>3, <2>4, <2>5, <2>6, <2>7
<1>4. QED
  BY <1>2, <1>3

LEMMA Least ==
  ASSUME NEW S, S \subseteq Nat, S # {}
  PROVE  Min(S) \in S /\ \A i \in S : Min(S) <= i
<1>1. IsWellFoundedOn(OpToRel(<, Nat), Nat)
  BY NatLessThanWellFounded
<1>2. PICK x \in S : \A y \in S : <<y, x>> \notin OpToRel(<, Nat)
  BY <1>1, WFMin
<1>3. \A y \in S : x <= y
  <2> SUFFICES ASSUME NEW y \in S, y < x PROVE FALSE
    OBVIOUS
  <2>1. <<y, x>> \in Nat \X Nat /\ <<y, x>>[1] < <<y, x>>[2]
    OBVIOUS
  <2>2. <<y, x>> \in OpToRel(<, Nat)
    BY <2>1 DEF OpToRel
  <2>3. QED
    BY <1>2, <2>2
<1>4. QED
  BY <1>3 DEF Min

\* A place of a process, as a record.
IsPlace(a) == a = [kind |-> a.kind, stage |-> a.stage, script |-> a.script, line |-> a.line,
                   seen |-> a.seen]

\* From place a down to b in the same script, passing over what is to be skipped.
Further(a, b, seen) ==
    /\ b = [a EXCEPT !.line = b.line, !.seen = seen]
    /\ b.script = a.script /\ b.stage = a.stage /\ b.kind = a.kind /\ b.seen = seen
    /\ b.line \in a.line + 1 .. Len(Scripts[a.script])
    /\ Scripts[a.script][b.line].unless \notin seen
    /\ \A i \in a.line + 1 .. b.line - 1 : Scripts[a.script][i].unless \in seen

\* After the last statement a process has ended its script; after another one
\* it is further down.
LEMMA NextLine ==
  ASSUME NEW a, IsPlace(a), a.script \in 0 .. SchemaVersion - 1,
         a.line \in 1 .. Len(Scripts[a.script]), NEW seen, "never" \notin seen,
         NEW b, b = AfterStatement(a, seen)
  PROVE  (b = AfterScript(a) /\ a.line = Len(Scripts[a.script])) \/ Further(a, b, seen)
<1> DEFINE script == Scripts[a.script]
           ahead == {i \in a.line + 1 .. Len(script) : script[i].unless \notin seen}
<1>1. /\ script[Len(script)].unless = "never"
      /\ Len(script) \in Nat /\ a.line \in Nat /\ a.line \in 1 .. Len(script)
  BY ScriptShapes, Lines, ClosingFacts DEF Ended
<1>2. CASE ahead = {}
  <2>1. b = AfterScript(a)
    BY <1>2 DEF AfterStatement
  <2>2. ASSUME a.line # Len(script) PROVE FALSE
    <3>1. Len(script) \in a.line + 1 .. Len(script)
      BY <1>1, <2>2
    <3>2. QED
      BY <1>1, <1>2, <3>1
  <2>3. QED
    BY <2>1, <2>2
<1>3. CASE ahead # {}
  <2>1. b = [a EXCEPT !.line = Min(ahead), !.seen = seen]
    BY <1>3 DEF AfterStatement
  <2>2. Min(ahead) \in ahead /\ \A i \in ahead : Min(ahead) <= i
    <3>1. ahead \subseteq Nat
      BY <1>1
    <3>2. QED
      BY <1>3, <3>1, Least
  <2>3. /\ b.line = Min(ahead) /\ b.script = a.script /\ b.stage = a.stage /\ b.kind = a.kind
        /\ b.seen = seen
    BY <2>1 DEF IsPlace
  <2>4. ASSUME NEW i \in a.line + 1 .. b.line - 1 PROVE script[i].unless \in seen
    <3>1. i \in a.line + 1 .. Len(script) /\ ~(b.line <= i)
      BY <1>1, <2>2, <2>3, <2>4
    <3>2. i \notin ahead
      <4> HIDE DEF ahead
      <4>1. QED
        BY <2>2, <2>3, <3>1
    <3>3. QED
      BY <3>1, <3>2
  <2>5. QED
    BY <2>1, <2>2, <2>3, <2>4 DEF Further
<1>4. QED
  BY <1>2, <1>3

\* A process is at the drop of a rebuild only after the copy, at the rename only
\* after the drop.
LEMMA LineByLine ==
  ASSUME NEW a, IsPlace(a), a.script \in 0 .. SchemaVersion - 1,
         a.line \in 1 .. Len(Scripts[a.script]), NEW seen, "never" \notin seen,
         NEW b, b = AfterStatement(a, seen), NEW t, NEW k \in {1, 2}, Stands(b, t, k)
  PROVE  Stands(a, t, k - 1)
<1> DEFINE script == Scripts[a.script]
           c == CopyLine(a.script)
<1>1. /\ b.script = a.script /\ b.line \in a.line + 1 .. Len(script)
      /\ script[b.line].unless \notin seen
      /\ \A i \in a.line + 1 .. b.line - 1 : script[i].unless \in seen
  <2>1. b # AfterScript(a)
    <3>1. AfterScript(a).line = 1
      BY DEF AfterScript, Place
    <3>2. QED
      BY <3>1 DEF Stands, CopyLine
  <2>2. b = AfterScript(a) \/ Further(a, b, seen)
    BY NextLine
  <2>3. QED
    BY <2>1, <2>2 DEF Further
<1>2. a.script \in Rebuilds /\ Subject(a.script) = t /\ b.line = c + k /\ c \in {3, 4}
  BY <1>1 DEF Stands, CopyLine
<1>3. script[c + k].unless = script[c + k - 1].unless
  <2>1. \A i \in 2 .. c + 2 : script[i].unless = script[2].unless
    BY <1>2, ScriptShapes DEF Shaped
  <2>2. c + k \in 2 .. c + 2 /\ c + k - 1 \in 2 .. c + 2
    BY <1>2
  <2>3. QED
    BY <2>1, <2>2
<1>4. a.line = c + k - 1
  <2>1. a.line \in Nat /\ Len(script) \in Nat
    BY Lines
  <2>2. c + k - 1 \notin a.line + 1 .. b.line - 1
    BY <1>1, <1>2, <1>3
  <2> HIDE DEF c
  <2>3. QED
    BY <1>1, <1>2, <2>1, <2>2
<1>5. QED
  BY <1>2, <1>4 DEF Stands

-----------------------------------------------------------------------------
(* What a statement makes of a library.                                    *)

IsTable(table) ==
    /\ table = [cols |-> table.cols, rows |-> table.rows]
    /\ "never" \notin table.cols
    /\ \A r \in table.rows : r = [id |-> r.id, ref |-> r.ref]

IsLibrary(L) ==
    /\ L = [version |-> L.version, tables |-> L.tables]
    /\ L.version \in 0 .. SchemaVersion
    /\ L.tables = [t \in DOMAIN L.tables |-> L.tables[t]]
    /\ \A t \in DOMAIN L.tables : IsTable(L.tables[t])

LEMMA IdsOf ==
  ASSUME NEW L, NEW t
  PROVE  /\ t \in DOMAIN L.tables => Ids(L, t) = {r.id : r \in L.tables[t].rows}
         /\ t \notin DOMAIN L.tables => Ids(L, t) = {}
BY DEF Ids, TableOf, NoTable

LEMMA SameIds ==
  ASSUME NEW L, NEW M, NEW u, u \in DOMAIN L.tables <=> u \in DOMAIN M.tables,
         u \in DOMAIN L.tables => M.tables[u].rows = L.tables[u].rows
  PROVE  Ids(M, u) = Ids(L, u)
BY DEF Ids, TableOf

\* CREATE TABLE, with or without IF NOT EXISTS.
LEMMA AfterCreate ==
  ASSUME NEW L, IsLibrary(L), NEW s, Sound(s), s.op \in {"create", "make"}
  PROVE  LET M == After(s, L)
         IN  /\ IsLibrary(M) /\ DOMAIN M.tables = DOMAIN L.tables \cup {s.table}
             /\ \A u : Ids(M, u) = Ids(L, u)
             /\ M.version = L.version /\ \A u \in DOMAIN L.tables : M.tables[u] = L.tables[u]
             /\ s.table \notin DOMAIN L.tables
                  => M.tables[s.table].cols = s.cols /\ M.tables[s.table].rows = {}
<1> DEFINE M == After(s, L)
           made == [cols |-> s.cols, rows |-> {}]
<1>1. CASE s.table \in DOMAIN L.tables
  BY <1>1 DEF After
<1>2. CASE s.table \notin DOMAIN L.tables
  <2>1. M = WithTable(L, s.table, made)
    BY <1>2 DEF After
  <2>2. M = [version |-> L.version,
             tables |-> [u \in {s.table} \cup DOMAIN L.tables |->
                            IF u = s.table THEN made ELSE L.tables[u]]]
    BY <2>1 DEF WithTable, IsLibrary
  <2> HIDE DEF M
  <2>3. IsTable(made)
    BY DEF Sound, IsTable
  <2>4. IsLibrary(M) /\ DOMAIN M.tables = DOMAIN L.tables \cup {s.table}
    BY <2>2, <2>3 DEF IsLibrary
  <2>5. ASSUME NEW u PROVE Ids(M, u) = Ids(L, u)
    <3>1. CASE u = s.table
      <4>1. u \notin DOMAIN L.tables /\ u \in DOMAIN M.tables /\ M.tables[u].rows = {}
        BY <1>2, <2>2, <3>1
      <4>2. Ids(M, u) = {}
        BY <4>1, IdsOf
      <4>3. QED
        BY <4>1, <4>2, IdsOf
    <3>2. CASE u # s.table
      <4>1. /\ u \in DOMAIN L.tables <=> u \in DOMAIN M.tables
            /\ u \in DOMAIN L.tables => M.tables[u] = L.tables[u]
        BY <2>2, <3>2
      <4>2. QED
        BY <4>1, SameIds
    <3>3. QED
      BY <3>1, <3>2
  <2>6. /\ M.version = L.version /\ \A u \in DOMAIN L.tables : M.tables[u] = L.tables[u]
        /\ M.tables[s.table].cols = s.cols /\ M.tables[s.table].rows = {}
    BY <1>2, <2>2
  <2>7. QED
    BY <2>4, <2>5, <2>6 DEF M
<1>3. QED
  BY <1>1, <1>2

\* Columns, indexes and the version.
\* A table with more columns, none of them reserved.
Widened(wide, table) ==
    /\ wide.rows = table.rows /\ table.cols \subseteq wide.cols
    /\ wide.cols \cap Reserved \subseteq table.cols

LEMMA AfterAlter ==
  ASSUME NEW L, IsLibrary(L), NEW s, Sound(s), ~Fails(s, L),
         s.op \notin {"create", "make", "copy", "drop", "discard", "rename"}
  PROVE  LET M == After(s, L)
         IN  /\ IsLibrary(M) /\ DOMAIN M.tables = DOMAIN L.tables
             /\ \A u : Ids(M, u) = Ids(L, u)
             /\ \A u \in DOMAIN L.tables : Widened(M.tables[u], L.tables[u])
             /\ s.op = "add" => Has(M, s.table, s.cols)
             /\ s.op \notin {"version", "stamp"} => M.version = L.version
             /\ s.op \in {"version", "stamp"} => M.tables = L.tables
             /\ s.op \notin {"add", "index", "version", "stamp"} => M = L
<1> DEFINE M == After(s, L)
<1>1. ASSUME s.op \in {"add", "index"}
      PROVE  /\ IsLibrary(M) /\ DOMAIN M.tables = DOMAIN L.tables
             /\ \A u : Ids(M, u) = Ids(L, u)
             /\ \A u \in DOMAIN L.tables : Widened(M.tables[u], L.tables[u])
             /\ s.op = "add" => Has(M, s.table, s.cols)
             /\ M.version = L.version
  <2>1. PICK more : /\ M = [L EXCEPT !.tables[s.table].cols = @ \cup more]
                    /\ more \cap Reserved = {} /\ (s.op = "add" => more = s.cols)
    <3>1. CASE s.op = "add"
      <4>1. M = [L EXCEPT !.tables[s.table].cols = @ \cup s.cols] /\ s.cols \cap Reserved = {}
        BY <3>1 DEF After, Sound
      <4>2. QED
        BY <3>1, <4>1
    <3>2. CASE s.op = "index"
      <4>1. M = [L EXCEPT !.tables[s.table].cols = @ \cup {s.arg}] /\ {s.arg} \cap Reserved = {}
        BY <3>2 DEF After, Sound
      <4>2. QED
        BY <3>2, <4>1
    <3>3. QED
      BY <1>1, <3>1, <3>2
  <2>2. s.table \in DOMAIN L.tables
    BY <1>1 DEF Fails, Has
  <2> DEFINE altered == [cols |-> L.tables[s.table].cols \cup more, rows |-> L.tables[s.table].rows]
  <2>3. M = [version |-> L.version,
             tables |-> [u \in DOMAIN L.tables |-> IF u = s.table THEN altered ELSE L.tables[u]]]
    <3>1. M = [version |-> L.version,
               tables |-> [L.tables EXCEPT ![s.table].cols = @ \cup more]]
      BY <2>1 DEF IsLibrary
    <3>2. [L.tables EXCEPT ![s.table].cols = @ \cup more]
            = [u \in DOMAIN L.tables |-> IF u = s.table THEN altered ELSE L.tables[u]]
      <4>1. /\ L.tables = [u \in DOMAIN L.tables |-> L.tables[u]]
            /\ L.tables[s.table] = [cols |-> L.tables[s.table].cols, rows |-> L.tables[s.table].rows]
        BY <2>2 DEF IsLibrary, IsTable
      <4>2. [L.tables[s.table] EXCEPT !.cols = @ \cup more] = altered
        BY <4>1
      <4>3. [L.tables EXCEPT ![s.table] = altered]
              = [u \in DOMAIN L.tables |-> IF u = s.table THEN altered ELSE L.tables[u]]
        BY <4>1
      <4> HIDE DEF altered
      <4>4. QED
        BY <4>2, <4>3
    <3>3. QED
      BY <3>1, <3>2
  <2> HIDE DEF M
  <2>4. IsTable(altered)
    BY <2>1, <2>2 DEF IsLibrary, IsTable, Reserved
  <2>5. IsLibrary(M) /\ DOMAIN M.tables = DOMAIN L.tables
    BY <2>3, <2>4 DEF IsLibrary
  <2>6. ASSUME NEW u PROVE Ids(M, u) = Ids(L, u)
    <3>1. /\ u \in DOMAIN L.tables <=> u \in DOMAIN M.tables
          /\ u \in DOMAIN L.tables => M.tables[u].rows = L.tables[u].rows
      BY <2>3
    <3>2. QED
      BY <3>1, SameIds
  <2>7. M.version = L.version /\ \A u \in DOMAIN L.tables : Widened(M.tables[u], L.tables[u])
    <3>1. M.version = L.version
      BY <2>3
    <3>2. ASSUME NEW u \in DOMAIN L.tables PROVE Widened(M.tables[u], L.tables[u])
      <4>1. CASE u = s.table
        BY <2>1, <2>3, <4>1 DEF Widened
      <4>2. CASE u # s.table
        BY <2>3, <4>2 DEF Widened
      <4>3. QED
        BY <4>1, <4>2
    <3>3. QED
      BY <3>1, <3>2
  <2>8. s.op = "add" => Has(M, s.table, s.cols)
    BY <2>1, <2>2, <2>3 DEF Has
  <2>9. QED
    BY <2>5, <2>6, <2>7, <2>8
<1>2. ASSUME s.op \in {"version", "stamp"}
      PROVE  /\ IsLibrary(M) /\ M.tables = L.tables
  BY <1>2 DEF After, IsLibrary, Sound
<1>3. ASSUME s.op \notin {"add", "index", "version", "stamp"} PROVE M = L
  BY <1>3 DEF After
<1>4. ASSUME M.tables = L.tables PROVE \A u : Ids(M, u) = Ids(L, u)
  BY <1>4 DEF Ids, TableOf
<1>5. ASSUME M.tables = L.tables PROVE \A u \in DOMAIN L.tables : Widened(M.tables[u], L.tables[u])
  BY <1>5 DEF Widened
<1>6. QED
  BY <1>1, <1>2, <1>3, <1>4, <1>5

LEMMA AfterDiscard ==
  ASSUME NEW L, IsLibrary(L), NEW s, Sound(s), s.op = "discard"
  PROVE  LET M == After(s, L)
         IN  /\ IsLibrary(M) /\ DOMAIN M.tables = DOMAIN L.tables \ {s.table}
             /\ \A u : u # s.table => Ids(M, u) = Ids(L, u)
             /\ M.version = L.version /\ \A u \in DOMAIN M.tables : M.tables[u] = L.tables[u]
<1> DEFINE M == After(s, L)
<1>1. M = [version |-> L.version,
           tables |-> [u \in DOMAIN L.tables \ {s.table} |-> L.tables[u]]]
  BY DEF After, Without, Restrict, IsLibrary
<1> HIDE DEF M
<1>2. IsLibrary(M) /\ DOMAIN M.tables = DOMAIN L.tables \ {s.table}
  BY <1>1 DEF IsLibrary
<1>3. ASSUME NEW u, u # s.table PROVE Ids(M, u) = Ids(L, u)
  <2>1. /\ u \in DOMAIN L.tables <=> u \in DOMAIN M.tables
        /\ u \in DOMAIN L.tables => M.tables[u] = L.tables[u]
    BY <1>1, <1>3
  <2>2. QED
    BY <2>1, SameIds
<1>4. M.version = L.version /\ \A u \in DOMAIN M.tables : M.tables[u] = L.tables[u]
  BY <1>1
<1>5. QED
  BY <1>2, <1>3, <1>4 DEF M

LEMMA AfterCopy ==
  ASSUME NEW L, IsLibrary(L), NEW t \in Rebuilt, NEW s, Sound(s), CopiesTo(s, t), ~Fails(s, L)
  PROVE  LET M == After(s, L)
         IN  /\ IsLibrary(M) /\ DOMAIN M.tables = DOMAIN L.tables
             /\ \A u : u # New[t] => Ids(M, u) = Ids(L, u)
             /\ Ids(M, New[t]) = Ids(L, New[t]) \cup Ids(L, t)
             /\ t \in DOMAIN L.tables /\ Ids(L, t) \cap Ids(L, New[t]) = {}
             /\ M.version = L.version
             /\ \A u \in DOMAIN M.tables : /\ M.tables[u].cols = L.tables[u].cols
                                           /\ u # New[t] => M.tables[u] = L.tables[u]
<1> DEFINE M == After(s, L)
           copied == {Copied(L, r) : r \in L.tables[t].rows}
           filled == [cols |-> L.tables[New[t]].cols, rows |-> L.tables[New[t]].rows \cup copied]
<1>1. /\ t \in DOMAIN L.tables /\ New[t] \in DOMAIN L.tables
      /\ Ids(L, t) \cap Ids(L, New[t]) = {}
  BY DEF CopiesTo, Fails, Has
<1>2. M = [L EXCEPT !.tables[New[t]].rows = @ \cup copied]
  BY DEF After, CopiesTo
<1>3. M = [version |-> L.version,
           tables |-> [u \in DOMAIN L.tables |-> IF u = New[t] THEN filled ELSE L.tables[u]]]
  <2>1. M = [version |-> L.version,
             tables |-> [L.tables EXCEPT ![New[t]].rows = @ \cup copied]]
    BY <1>2 DEF IsLibrary
  <2>2. [L.tables EXCEPT ![New[t]].rows = @ \cup copied]
          = [u \in DOMAIN L.tables |-> IF u = New[t] THEN filled ELSE L.tables[u]]
    <3>1. /\ L.tables = [u \in DOMAIN L.tables |-> L.tables[u]]
          /\ L.tables[New[t]] = [cols |-> L.tables[New[t]].cols, rows |-> L.tables[New[t]].rows]
      BY <1>1 DEF IsLibrary, IsTable
    <3> HIDE DEF copied
    <3>2. [L.tables[New[t]] EXCEPT !.rows = @ \cup copied] = filled
      BY <3>1
    <3>3. [L.tables EXCEPT ![New[t]] = filled]
            = [u \in DOMAIN L.tables |-> IF u = New[t] THEN filled ELSE L.tables[u]]
      BY <3>1
    <3> HIDE DEF filled
    <3>4. QED
      BY <3>2, <3>3
  <2>3. QED
    BY <2>1, <2>2
<1> HIDE DEF M
<1>4. \A r \in L.tables[t].rows : /\ Copied(L, r).id = r.id
                                  /\ Copied(L, r) = [id |-> Copied(L, r).id, ref |-> Copied(L, r).ref]
  <2> SUFFICES ASSUME NEW r \in L.tables[t].rows
               PROVE  /\ Copied(L, r).id = r.id
                      /\ Copied(L, r) = [id |-> Copied(L, r).id, ref |-> Copied(L, r).ref]
    OBVIOUS
  <2>1. r = [id |-> r.id, ref |-> r.ref]
    BY <1>1 DEF IsLibrary, IsTable
  <2>2. Copied(L, r) = r \/ Copied(L, r) = [id |-> r.id, ref |-> Null]
    BY <2>1 DEF Copied
  <2>3. QED
    BY <2>1, <2>2
<1>5. IsTable(filled)
  BY <1>1, <1>4 DEF IsLibrary, IsTable
<1>6. IsLibrary(M) /\ DOMAIN M.tables = DOMAIN L.tables
  BY <1>3, <1>5 DEF IsLibrary
<1>7. ASSUME NEW u, u # New[t] PROVE Ids(M, u) = Ids(L, u)
  <2>1. /\ u \in DOMAIN L.tables <=> u \in DOMAIN M.tables
        /\ u \in DOMAIN L.tables => M.tables[u] = L.tables[u]
    BY <1>3, <1>7
  <2>2. QED
    BY <2>1, SameIds
<1>8. Ids(M, New[t]) = Ids(L, New[t]) \cup Ids(L, t)
  <2>1. M.tables[New[t]].rows = L.tables[New[t]].rows \cup copied /\ New[t] \in DOMAIN M.tables
    BY <1>1, <1>3
  <2>2. Ids(M, New[t]) = {r.id : r \in L.tables[New[t]].rows \cup copied}
    BY <2>1, IdsOf
  <2>3. {r.id : r \in copied} = {r.id : r \in L.tables[t].rows}
    BY <1>4
  <2>4. {r.id : r \in L.tables[New[t]].rows \cup copied}
          = {r.id : r \in L.tables[New[t]].rows} \cup {r.id : r \in copied}
    <3> HIDE DEF copied
    <3>1. QED
      OBVIOUS
  <2>5. QED
    BY <1>1, <2>2, <2>3, <2>4, IdsOf
<1>9. /\ M.version = L.version
      /\ \A u \in DOMAIN M.tables : /\ M.tables[u].cols = L.tables[u].cols
                                    /\ u # New[t] => M.tables[u] = L.tables[u]
  BY <1>3
<1>10. QED
  BY <1>1, <1>6, <1>7, <1>8, <1>9 DEF M

\* Deleting the rows of a rebuilt table removes rows of the details only.
LEMMA BereftKeepsIds ==
  ASSUME NEW L, IsLibrary(L), NEW u \in DOMAIN L.tables, NEW gone
  PROVE  /\ \A r \in Bereft(L, u, gone) : r = [id |-> r.id, ref |-> r.ref]
         /\ u \notin {"action_results", "performance_metrics"}
              => {r.id : r \in Bereft(L, u, gone)} = {r.id : r \in L.tables[u].rows}
<1> DEFINE rows == L.tables[u].rows
           lost == {r \in rows : r.ref \in Ids(L, gone)}
           freed == {[r EXCEPT !.ref = Null] : r \in lost}
<1>1. \A r \in rows : r = [id |-> r.id, ref |-> r.ref]
  BY DEF IsLibrary, IsTable
<1>2. \A r \in rows : [r EXCEPT !.ref = Null] = [id |-> r.id, ref |-> Null]
  BY <1>1
<1>3. /\ Bereft(L, u, gone) \in {rows, rows \ lost, (rows \ lost) \cup freed}
      /\ u \notin {"action_results", "performance_metrics"}
           => Bereft(L, u, gone) \in {rows, (rows \ lost) \cup freed}
  BY DEF Bereft
<1>4. {r.id : r \in (rows \ lost) \cup freed} = {r.id : r \in rows}
  <2>1. \A r \in lost : [r EXCEPT !.ref = Null] \in freed /\ [r EXCEPT !.ref = Null].id = r.id
    BY <1>2
  <2>2. ASSUME NEW q \in freed PROVE \E r \in lost : q.id = r.id
    <3>1. PICK r \in lost : q = [r EXCEPT !.ref = Null]
      OBVIOUS
    <3>2. q.id = r.id
      BY <1>2, <3>1
    <3>3. QED
      BY <3>2
  <2>3. lost \subseteq rows
    OBVIOUS
  <2> HIDE DEF lost, freed, rows
  <2>4. ASSUME NEW q \in (rows \ lost) \cup freed PROVE \E r \in rows : q.id = r.id
    BY <2>2, <2>3
  <2>5. ASSUME NEW r \in rows PROVE \E q \in (rows \ lost) \cup freed : q.id = r.id
    <3>1. CASE r \in lost
      BY <2>1, <3>1
    <3>2. CASE r \notin lost
      BY <3>2
    <3>3. QED
      BY <3>1, <3>2
  <2>6. QED
    BY <2>4, <2>5
<1>5. \A r \in (rows \ lost) \cup freed : r = [id |-> r.id, ref |-> r.ref]
  BY <1>1, <1>2
<1>6. QED
  BY <1>1, <1>3, <1>4, <1>5

LEMMA AfterDrop ==
  ASSUME NEW L, IsLibrary(L), NEW t \in Rebuilt, NEW s, Sound(s), Drops(s, t)
  PROVE  LET M == After(s, L)
         IN  /\ IsLibrary(M) /\ DOMAIN M.tables = DOMAIN L.tables \ {t}
             /\ \A u : u \notin {t, "action_results", "performance_metrics"} => Ids(M, u) = Ids(L, u)
             /\ M.version = L.version
             /\ \A u \in DOMAIN M.tables : /\ M.tables[u].cols = L.tables[u].cols
                                           /\ M.tables[u].rows = Bereft(L, u, t)
<1> DEFINE M == After(s, L)
           left(u) == [cols |-> L.tables[u].cols, rows |-> Bereft(L, u, t)]
<1>1. M = [version |-> L.version, tables |-> [u \in DOMAIN L.tables \ {t} |-> left(u)]]
  <2> DEFINE bereft == [u \in DOMAIN L.tables |-> [L.tables[u] EXCEPT !.rows = Bereft(L, u, t)]]
  <2>1. M = Without([L EXCEPT !.tables = bereft], t)
    BY DEF After, Drops, Dropped
  <2>2. [L EXCEPT !.tables = bereft] = [version |-> L.version, tables |-> bereft]
    BY DEF IsLibrary
  <2>3. \A u \in DOMAIN L.tables : bereft[u] = left(u)
    BY DEF IsLibrary, IsTable
  <2> HIDE DEF M
  <2>4. M = [version |-> L.version, tables |-> Restrict(bereft, DOMAIN bereft \ {t})]
    BY <2>1, <2>2 DEF Without
  <2>5. Restrict(bereft, DOMAIN bereft \ {t}) = [u \in DOMAIN L.tables \ {t} |-> left(u)]
    BY <2>3 DEF Restrict
  <2>6. QED
    BY <2>4, <2>5
<1> HIDE DEF M
<1>2. \A u \in DOMAIN L.tables : IsTable(left(u))
  BY BereftKeepsIds DEF IsLibrary, IsTable
<1>3. IsLibrary(M) /\ DOMAIN M.tables = DOMAIN L.tables \ {t}
  BY <1>1, <1>2 DEF IsLibrary
<1>4. ASSUME NEW u, u \notin {t, "action_results", "performance_metrics"}
      PROVE  Ids(M, u) = Ids(L, u)
  <2>1. CASE u \in DOMAIN L.tables
    <3>1. u \in DOMAIN M.tables /\ M.tables[u].rows = Bereft(L, u, t)
      BY <1>1, <1>4, <2>1
    <3>2. Ids(M, u) = {r.id : r \in Bereft(L, u, t)}
      BY <3>1, IdsOf
    <3>3. {r.id : r \in Bereft(L, u, t)} = {r.id : r \in L.tables[u].rows}
      BY <1>4, <2>1, BereftKeepsIds
    <3>4. QED
      BY <2>1, <3>2, <3>3, IdsOf
  <2>2. CASE u \notin DOMAIN L.tables
    BY <1>3, <2>2, IdsOf
  <2>3. QED
    BY <2>1, <2>2
<1>5. /\ M.version = L.version
      /\ \A u \in DOMAIN M.tables : /\ M.tables[u].cols = L.tables[u].cols
                                    /\ M.tables[u].rows = Bereft(L, u, t)
  BY <1>1
<1>6. QED
  BY <1>3, <1>4, <1>5 DEF M

LEMMA AfterRename ==
  ASSUME NEW L, IsLibrary(L), NEW t \in Rebuilt, NEW s, Sound(s), Renames(s, t), ~Fails(s, L)
  PROVE  LET M == After(s, L)
         IN  /\ IsLibrary(M) /\ DOMAIN M.tables = (DOMAIN L.tables \ {New[t]}) \cup {t}
             /\ \A u : u \notin {t, New[t]} => Ids(M, u) = Ids(L, u)
             /\ Ids(M, t) = Ids(L, New[t])
             /\ M.version = L.version /\ M.tables[t] = L.tables[New[t]]
             /\ \A u \in DOMAIN M.tables : u # t => M.tables[u] = L.tables[u]
<1> DEFINE M == After(s, L)
           moved == L.tables[New[t]]
<1>1. New[t] \in DOMAIN L.tables /\ t \notin DOMAIN L.tables
  BY DEF Renames, Fails
<1>2. M = [version |-> L.version,
           tables |-> [u \in {t} \cup (DOMAIN L.tables \ {New[t]}) |->
                          IF u = t THEN moved ELSE L.tables[u]]]
  <2>1. M = WithTable(Without(L, New[t]), t, moved)
    BY DEF After, Renames
  <2>2. Without(L, New[t]) = [version |-> L.version,
                              tables |-> [u \in DOMAIN L.tables \ {New[t]} |-> L.tables[u]]]
    BY DEF Without, Restrict, IsLibrary
  <2> HIDE DEF M
  <2>3. QED
    BY <2>1, <2>2 DEF WithTable
<1> HIDE DEF M
<1>3. IsLibrary(M) /\ DOMAIN M.tables = (DOMAIN L.tables \ {New[t]}) \cup {t}
  BY <1>1, <1>2 DEF IsLibrary
<1>4. ASSUME NEW u, u \notin {t, New[t]} PROVE Ids(M, u) = Ids(L, u)
  <2>1. /\ u \in DOMAIN L.tables <=> u \in DOMAIN M.tables
        /\ u \in DOMAIN L.tables => M.tables[u] = L.tables[u]
    BY <1>2, <1>4
  <2>2. QED
    BY <2>1, SameIds
<1>5. Ids(M, t) = Ids(L, New[t])
  <2>1. t \in DOMAIN M.tables /\ M.tables[t].rows = L.tables[New[t]].rows
    BY <1>2
  <2>2. QED
    BY <1>1, <2>1, IdsOf
<1>6. /\ M.version = L.version /\ M.tables[t] = L.tables[New[t]]
      /\ \A u \in DOMAIN M.tables : u # t => M.tables[u] = L.tables[u]
  BY <1>2
<1>7. QED
  BY <1>3, <1>4, <1>5, <1>6 DEF M

LEMMA Distinct ==
  ASSUME NEW t \in Rebuilt, NEW u \in Rebuilt
  PROVE  /\ t # New[u] /\ (t # u => New[t] # New[u]) /\ New[t] \in Copies
         /\ t \notin {"action_results", "performance_metrics", "operations"}
         /\ New[t] \notin {"action_results", "performance_metrics", "operations"}
BY Names

\* What the statement s makes of table t, from library L to M.
Keeps(t, L, M) ==
    /\ t \in DOMAIN L.tables <=> t \in DOMAIN M.tables
    /\ Ids(M, t) = Ids(L, t) /\ Ids(M, New[t]) = Ids(L, New[t])
Begins(s, t, L, M) ==
    /\ s.op = "create" /\ s.table = t
    /\ t \notin DOMAIN L.tables /\ t \in DOMAIN M.tables
    /\ Ids(M, New[t]) = Ids(L, New[t])
Fills(t, L, M) ==
    /\ t \in DOMAIN L.tables /\ t \in DOMAIN M.tables
    /\ Ids(L, t) \cap Ids(L, New[t]) = {}
    /\ Ids(M, t) = Ids(L, t) /\ Ids(M, New[t]) = Ids(L, New[t]) \cup Ids(L, t)
Removes(t, L, M) == t \notin DOMAIN M.tables /\ Ids(M, New[t]) = Ids(L, New[t])
Restores(t, L, M) ==
    /\ t \notin DOMAIN L.tables /\ t \in DOMAIN M.tables /\ Ids(M, t) = Ids(L, New[t])

\* One statement does to each rebuilt table one of five things, three of them
\* only at their line of the rebuild.
LEMMA Effects ==
  ASSUME NEW a, a.script \in 0 .. SchemaVersion - 1, a.line \in 1 .. Len(Scripts[a.script]),
         NEW s, s = Scripts[a.script][a.line],
         NEW L, IsLibrary(L), ~Fails(s, L), NEW M, M = After(s, L)
  PROVE  /\ IsLibrary(M)
         /\ \A t \in Rebuilt :
              \/ Keeps(t, L, M)
              \/ Begins(s, t, L, M)
              \/ Stands(a, t, 0) /\ Fills(t, L, M)
              \/ Stands(a, t, 1) /\ Removes(t, L, M)
              \/ Stands(a, t, 2) /\ Restores(t, L, M)
<1> DEFINE Goal ==
             /\ IsLibrary(M)
             /\ \A t \in Rebuilt :
                  \/ Keeps(t, L, M)
                  \/ Begins(s, t, L, M)
                  \/ Stands(a, t, 0) /\ Fills(t, L, M)
                  \/ Stands(a, t, 1) /\ Removes(t, L, M)
                  \/ Stands(a, t, 2) /\ Restores(t, L, M)
<1>1. /\ Sound(s)
      /\ \/ Tame(s)
         \/ s.op \in {"version", "stamp"}
         \/ \E t \in Rebuilt : \/ Makes(s, t)
                               \/ CopiesTo(s, t) /\ Stands(a, t, 0)
                               \/ Drops(s, t) /\ Stands(a, t, 1)
                               \/ Renames(s, t) /\ Stands(a, t, 2)
  BY StatementAt, ClosingFacts
<1>2. ASSUME s.op \in {"create", "make"},
             \A t \in Rebuilt : s.op = "make" => s.table # t
      PROVE  Goal
  <2>1. /\ IsLibrary(M) /\ DOMAIN M.tables = DOMAIN L.tables \cup {s.table}
        /\ \A u : Ids(M, u) = Ids(L, u)
    <3>1. IsLibrary(L) /\ M = After(s, L)
      OBVIOUS
    <3>2. QED
      BY ONLY <1>1, <1>2, <3>1, AfterCreate
  <2>2. ASSUME NEW t \in Rebuilt PROVE Keeps(t, L, M) \/ Begins(s, t, L, M)
    BY <1>2, <2>1 DEF Keeps, Begins
  <2>3. QED
    BY <2>1, <2>2
<1>3. CASE Tame(s)
  <2>1. CASE s.op = "create"
    BY <1>2, <2>1
  <2>2. CASE s.op = "discard"
    <3>1. /\ IsLibrary(M) /\ DOMAIN M.tables = DOMAIN L.tables \ {"operations"}
          /\ \A u : u # "operations" => Ids(M, u) = Ids(L, u)
      BY <1>1, <1>3, <2>2, AfterDiscard DEF Tame
    <3>2. \A t \in Rebuilt : Keeps(t, L, M)
      BY <3>1, Distinct DEF Keeps
    <3>3. QED
      BY <3>1, <3>2
  <2>3. CASE s.op \notin {"create", "discard"}
    <3>1. IsLibrary(M) /\ DOMAIN M.tables = DOMAIN L.tables /\ \A u : Ids(M, u) = Ids(L, u)
      BY <1>1, <1>3, <2>3, AfterAlter DEF Tame
    <3>2. \A t \in Rebuilt : Keeps(t, L, M)
      BY <3>1 DEF Keeps
    <3>3. QED
      BY <3>1, <3>2
  <2>4. QED
    BY <2>1, <2>2, <2>3
<1>9. CASE s.op \in {"version", "stamp"}
  <2>1. IsLibrary(M) /\ DOMAIN M.tables = DOMAIN L.tables /\ \A u : Ids(M, u) = Ids(L, u)
    BY <1>1, <1>9, AfterAlter
  <2>2. \A t \in Rebuilt : Keeps(t, L, M)
    BY <2>1 DEF Keeps
  <2>3. QED
    BY <2>1, <2>2
<1>4. ASSUME NEW u \in Rebuilt, Makes(s, u) PROVE Goal
  <2>1. \A t \in Rebuilt : s.table # t
    BY <1>4, Distinct DEF Makes
  <2>2. QED
    BY <1>2, <1>4, <2>1 DEF Makes
<1>5. ASSUME NEW u \in Rebuilt, CopiesTo(s, u), Stands(a, u, 0) PROVE Goal
  <2>1. /\ IsLibrary(M) /\ DOMAIN M.tables = DOMAIN L.tables
        /\ \A x : x # New[u] => Ids(M, x) = Ids(L, x)
        /\ Ids(M, New[u]) = Ids(L, New[u]) \cup Ids(L, u)
        /\ u \in DOMAIN L.tables /\ Ids(L, u) \cap Ids(L, New[u]) = {}
    BY <1>1, <1>5, AfterCopy
  <2>2. Fills(u, L, M)
    BY <2>1, Distinct DEF Fills
  <2>3. ASSUME NEW t \in Rebuilt, t # u PROVE Keeps(t, L, M)
    BY <2>1, <2>3, Distinct DEF Keeps
  <2>4. QED
    BY <1>5, <2>1, <2>2, <2>3
<1>6. ASSUME NEW u \in Rebuilt, Drops(s, u), Stands(a, u, 1) PROVE Goal
  <2>1. /\ IsLibrary(M) /\ DOMAIN M.tables = DOMAIN L.tables \ {u}
        /\ \A x : x \notin {u, "action_results", "performance_metrics"} => Ids(M, x) = Ids(L, x)
    BY <1>1, <1>6, AfterDrop
  <2>2. Removes(u, L, M)
    BY <2>1, Distinct DEF Removes
  <2>3. ASSUME NEW t \in Rebuilt, t # u PROVE Keeps(t, L, M)
    BY <2>1, <2>3, Distinct DEF Keeps
  <2>4. QED
    BY <1>6, <2>1, <2>2, <2>3
<1>7. ASSUME NEW u \in Rebuilt, Renames(s, u), Stands(a, u, 2) PROVE Goal
  <2>1. /\ IsLibrary(M) /\ DOMAIN M.tables = (DOMAIN L.tables \ {New[u]}) \cup {u}
        /\ \A x : x \notin {u, New[u]} => Ids(M, x) = Ids(L, x)
        /\ Ids(M, u) = Ids(L, New[u])
    BY <1>1, <1>7, AfterRename
  <2>2. Restores(u, L, M)
    <3>1. u \notin DOMAIN L.tables
      BY <1>7 DEF Renames, Fails
    <3>2. QED
      BY <2>1, <3>1 DEF Restores
  <2>3. ASSUME NEW t \in Rebuilt, t # u PROVE Keeps(t, L, M)
    BY <2>1, <2>3, Distinct DEF Keeps
  <2>4. QED
    BY <1>7, <2>1, <2>2, <2>3
<1>8. QED
  BY <1>1, <1>3, <1>4, <1>5, <1>6, <1>7, <1>9

-----------------------------------------------------------------------------
(* Types.                                                                  *)


StartedPlace(a) ==
    /\ IsPlace(a) /\ a.kind \in Kinds /\ a.stage \in Busy \cup {"closed", "open", "failed"}
    /\ a.script \in 0 .. SchemaVersion - 1
    /\ a.line \in 1 .. Len(Scripts[a.script])
    /\ "never" \notin a.seen

WriterInv ==
    /\ writer \in Processes \cup {NoProcess}
    /\ writer = NoProcess => draft = EmptyLibrary
    /\ writer # NoProcess => at[writer].stage \in {"ensure", "initialize"}

PlacesInv ==
    /\ at = [p \in Processes |-> at[p]]
    /\ \A p \in Processes : StartedPlace(at[p])

LibrariesInv == IsLibrary(lib) /\ IsLibrary(draft)

CountsInv == opens \in 0 .. MaxOpens /\ crashes \in 0 .. MaxCrashes

TypesInv == WriterInv /\ PlacesInv /\ LibrariesInv /\ CountsInv

\* Every process is at most in one place.
LEMMA Placed ==
  ASSUME NEW kind \in Kinds, NEW stage \in Busy \cup {"closed", "open", "failed"},
         NEW script \in 0 .. SchemaVersion - 1
  PROVE  /\ StartedPlace(Place(kind, stage, script))
         /\ Place(kind, stage, script).stage = stage /\ Place(kind, stage, script).kind = kind
         /\ Place(kind, stage, script).line = 1
BY Lines DEF StartedPlace, IsPlace, Place

LEMMA PlacedFirst ==
  \A kind \in Kinds, stage \in {"ensure", "read", "initialize", "closed", "open", "failed"} :
    StartedPlace(Place(kind, stage, 0))
<1>1. 0 \in 0 .. SchemaVersion - 1
  BY DEF SchemaVersion
<1>2. QED
  BY <1>1, Placed DEF Busy

LEMMA EmptyIsLibrary == IsLibrary(EmptyLibrary)
<1>1. DOMAIN << >> = {}
  OBVIOUS
<1>2. << >> = [t \in {} |-> << >>[t]]
  OBVIOUS
<1>3. QED
  BY <1>1, <1>2 DEF EmptyLibrary, IsLibrary, SchemaVersion

LEMMA SinceFacts == \A t \in DOMAIN Since : "never" \notin DOMAIN Since[t]
BY DEF Since

LEMMA RowsOfFacts ==
  ASSUME NEW v, NEW t
  PROVE  \A r \in RowsOf(v, t) : r = [id |-> r.id, ref |-> r.ref]
<1>1. \A x, y : LET r == [id |-> x, ref |-> y] IN r = [id |-> r.id, ref |-> r.ref]
  OBVIOUS
<1>2. CASE t = "jobs"
  BY <1>1, <1>2 DEF RowsOf
<1>3. CASE t = "transcription_results"
  BY <1>1, <1>3 DEF RowsOf
<1>4. CASE t = "processing_stats"
  <2>1. PICK x, y : RowsOf(v, t) = {[id |-> "stats", ref |-> x], [id |-> "orphan", ref |-> y]}
    BY <1>4 DEF RowsOf
  <2>2. QED
    BY <1>1, <2>1
<1>5. CASE t \in {"action_results", "performance_metrics"}
  BY <1>1, <1>5 DEF RowsOf
<1>6. CASE t \notin {"jobs", "transcription_results", "processing_stats", "action_results",
                    "performance_metrics"}
  BY <1>6 DEF RowsOf
<1>7. QED
  BY <1>2, <1>3, <1>4, <1>5, <1>6

LEMMA StartingLibraries ==
  ASSUME NEW v \in 0 .. SchemaVersion
  PROVE  IsLibrary(LibraryOf(v))
<1> DEFINE table(t) == [cols |-> ColsOf(v, t), rows |-> RowsOf(v, t)]
<1>1. \A t \in TablesOf(v) : IsTable(table(t))
  BY SinceFacts, RowsOfFacts DEF IsTable, ColsOf, TablesOf
<1>2. ASSUME v # 0
      PROVE  LibraryOf(v) = [version |-> v, tables |-> [t \in TablesOf(v) |-> table(t)]]
  BY <1>2 DEF LibraryOf
<1>3. CASE v # 0
  BY <1>1, <1>2, <1>3 DEF IsLibrary
<1>4. CASE v = 0
  BY <1>4, EmptyIsLibrary DEF LibraryOf
<1>5. QED
  BY <1>3, <1>4

LEMMA TypesInit == Init => TypesInv
<1> SUFFICES ASSUME Init PROVE TypesInv
  OBVIOUS
<1>1. IsLibrary(lib)
  BY StartingLibraries, UpgradeAssumption DEF Init, Originals
<1>2. PlacesInv
  <2>1. StartedPlace(Place("command", "closed", 0))
    BY PlacedFirst DEF Kinds
  <2>2. QED
    BY <2>1 DEF Init, PlacesInv
<1>3. QED
  BY <1>1, <1>2, EmptyIsLibrary, UpgradeAssumption
  DEF Init, TypesInv, WriterInv, LibrariesInv, CountsInv

\* The view of a process is a library.
LEMMA ViewIsLibrary ==
  ASSUME TypesInv, NEW p
  PROVE  IsLibrary(View(p))
BY DEF TypesInv, LibrariesInv, View

LEMMA SeenFacts ==
  ASSUME NEW L, IsLibrary(L), NEW t
  PROVE  "never" \notin Seen(L, t)
BY DEF IsLibrary, IsTable, Seen

LEMMA TypesStep == TypesInv /\ [Next]_vars => TypesInv'
<1> SUFFICES ASSUME TypesInv, [Next]_vars PROVE TypesInv'
  OBVIOUS
<1>1. CASE UNCHANGED vars
  BY <1>1 DEF vars, TypesInv, WriterInv, PlacesInv, LibrariesInv, CountsInv, StartedPlace, IsPlace
<1>2. ASSUME NEW p \in Processes, NEW kind \in Kinds, Open(p, kind) PROVE TypesInv'
  <2>1. WriterInv'
    <3>1. writer # p
      BY <1>2, UpgradeAssumption DEF TypesInv, WriterInv, Open, Opening, Busy
    <3>2. QED
      BY <1>2, <3>1 DEF TypesInv, WriterInv, PlacesInv, Open
  <2>2. PlacesInv'
    <3>1. StartedPlace(Place(kind, IF kind = "upgrade --db" THEN "read" ELSE "ensure", 0))
      BY PlacedFirst
    <3>2. QED
      BY <1>2, <3>1 DEF TypesInv, PlacesInv, Open
  <2>3. CountsInv'
    <3>1. opens' = opens + 1 /\ opens < MaxOpens /\ crashes' = crashes
      BY <1>2 DEF Open
    <3>2. QED
      BY <3>1, UpgradeAssumption DEF TypesInv, CountsInv
  <2>4. QED
    BY <1>2, <2>1, <2>2, <2>3 DEF TypesInv, LibrariesInv, Open
<1>3. ASSUME NEW p \in Processes, ReadVersion(p) PROVE TypesInv'
  <2>1. WriterInv'
    <3>1. writer # p
      BY <1>3, UpgradeAssumption DEF TypesInv, WriterInv, ReadVersion
    <3>2. QED
      BY <1>3, <3>1 DEF TypesInv, WriterInv, PlacesInv, ReadVersion
  <2>2. PlacesInv'
    <3>1. StartedPlace(at[p]) /\ lib.version \in 0 .. SchemaVersion
      BY DEF TypesInv, PlacesInv, LibrariesInv, IsLibrary
    <3>2. StartedPlace(AfterVersion(at[p], lib.version))
      <4>1. CASE lib.version >= SchemaVersion
        BY <3>1, <4>1, PlacedFirst DEF AfterVersion, StartedPlace
      <4>2. CASE ~(lib.version >= SchemaVersion)
        <5>1. lib.version \in 0 .. SchemaVersion - 1
          BY <3>1, <4>2 DEF SchemaVersion
        <5>2. QED
          BY <3>1, <4>2, <5>1, Placed DEF AfterVersion, StartedPlace, Busy
      <4>3. QED
        BY <4>1, <4>2
    <3>3. QED
      BY <1>3, <3>2 DEF TypesInv, PlacesInv, ReadVersion
  <2>3. QED
    BY <1>3, <2>1, <2>2 DEF TypesInv, LibrariesInv, CountsInv, ReadVersion
<1>4. ASSUME NEW p \in Processes, Execute(p) PROVE TypesInv'
  <2> DEFINE a == at[p]
             s == Scripts[a.script][a.line]
             new == After(s, View(p))
             seen == IF s.op = "look" THEN Seen(View(p), s.table) ELSE a.seen
             opened == writer = p \/ s.op = "begin"
             ends == s.op \in {"version", "stamp", "commit"}
  <2>1. StartedPlace(a) /\ a.stage \in {"ensure", "initialize"} /\ ~Fails(s, View(p))
    BY <1>4 DEF TypesInv, PlacesInv, Execute
  <2>2. IsLibrary(View(p)) /\ IsLibrary(new)
    BY <2>1, ViewIsLibrary, Effects DEF StartedPlace
  <2>3. "never" \notin seen
    BY <2>1, <2>2, SeenFacts DEF StartedPlace
  <2>4. /\ new # View(p) \/ s.op = "begin" => writer \in {p, NoProcess}
        /\ lib' = IF opened /\ ~ends THEN lib ELSE new
        /\ writer' = CASE opened /\ ~ends -> p
                       [] opened /\ ends -> NoProcess
                       [] OTHER -> writer
        /\ draft' = CASE opened /\ ~ends -> new
                      [] opened /\ ends -> EmptyLibrary
                      [] OTHER -> draft
        /\ at' = [at EXCEPT ![p] = AfterStatement(a, seen)]
        /\ UNCHANGED <<origin, opens, crashes, overlap>>
    BY <1>4 DEF Execute
  <2> DEFINE b == AfterStatement(a, seen)
  <2> HIDE DEF new, seen
  <2>5. (b = AfterScript(a) /\ a.line = Len(Scripts[a.script])) \/ Further(a, b, seen)
    <3>1. IsPlace(a) /\ a.script \in 0 .. SchemaVersion - 1 /\ a.line \in 1 .. Len(Scripts[a.script])
      BY <2>1 DEF StartedPlace
    <3>2. QED
      BY <2>3, <3>1, NextLine
  <2> HIDE DEF b
  <2>6. StartedPlace(b)
    <3>1. CASE b = AfterScript(a)
      <4>1. a.stage = "initialize" /\ a.script \notin {0, SchemaVersion - 1}
              => a.script + 1 \in 0 .. SchemaVersion - 1
        <5>1. a.script \in 0 .. 26
          BY <2>1 DEF StartedPlace, SchemaVersion
        <5>2. QED
          BY <5>1 DEF SchemaVersion
      <4>2. CASE a.stage = "ensure" \/ a.script \in {0, SchemaVersion - 1}
        BY <2>1, <3>1, <4>2, PlacedFirst DEF AfterScript, StartedPlace
      <4>3. CASE a.stage # "ensure" /\ a.script \notin {0, SchemaVersion - 1}
        BY <2>1, <3>1, <4>1, <4>3, Placed DEF AfterScript, StartedPlace, Busy
      <4>4. QED
        BY <4>2, <4>3
    <3>2. CASE Further(a, b, seen)
      <4>1. a.line \in Nat /\ Len(Scripts[a.script]) \in Nat /\ a.script \in 0 .. SchemaVersion - 1
        BY <2>1, Lines DEF StartedPlace
      <4>2. b = [kind |-> a.kind, stage |-> a.stage, script |-> a.script, line |-> b.line, seen |-> seen]
        BY <2>1, <3>2 DEF StartedPlace, IsPlace, Further
      <4>3. /\ b.kind = a.kind /\ b.stage = a.stage /\ b.script = a.script /\ b.seen = seen
            /\ b.line \in 1 .. Len(Scripts[b.script])
        BY <3>2, <4>1 DEF Further
      <4>4. QED
        BY <2>1, <2>3, <4>2, <4>3 DEF StartedPlace, IsPlace
    <3>3. QED
      BY <2>5, <3>1, <3>2
  <2>7. PlacesInv'
    BY <2>4, <2>6 DEF TypesInv, PlacesInv, b
  <2>8. LibrariesInv'
    BY <2>2, <2>4, EmptyIsLibrary DEF TypesInv, LibrariesInv
  <2>9. WriterInv'
    <3>1. ASSUME opened, ~ends PROVE b.stage = a.stage
      <4>1. a.line # Len(Scripts[a.script])
        BY <2>1, <3>1, ScriptShapes, ClosingFacts DEF StartedPlace, Ended
      <4>2. QED
        BY <2>1, <2>5, <4>1 DEF Further
    <3>2. at'[p] = b
      BY <2>4 DEF TypesInv, PlacesInv, b
    <3>3. CASE opened /\ ~ends
      BY <2>1, <2>4, <3>1, <3>2, <3>3, UpgradeAssumption DEF WriterInv
    <3>4. CASE opened /\ ends
      BY <2>4, <3>4, UpgradeAssumption DEF WriterInv
    <3>5. CASE ~opened
      <4>1. writer' = writer /\ draft' = draft /\ writer # p
        BY <2>4, <3>5
      <4>2. \A q \in Processes : q # p => at'[q] = at[q]
        BY <2>4 DEF TypesInv, PlacesInv
      <4>3. QED
        BY <4>1, <4>2 DEF TypesInv, WriterInv
    <3>6. QED
      BY <3>3, <3>4, <3>5
  <2>10. QED
    BY <2>4, <2>7, <2>8, <2>9 DEF TypesInv, CountsInv
<1>5. ASSUME NEW p \in Processes, Raise(p) PROVE TypesInv'
  <2>1. PlacesInv'
    <3> DEFINE b == Place(at[p].kind, IF at[p].stage = "ensure" /\ at[p].kind = "upgrade" THEN "read"
                                        ELSE "failed", 0)
    <3>1. StartedPlace(b)
      BY PlacedFirst DEF TypesInv, PlacesInv, StartedPlace
    <3>2. at' = [at EXCEPT ![p] = b]
      BY <1>5 DEF Raise
    <3>3. QED
      BY <3>1, <3>2 DEF TypesInv, PlacesInv
  <2>2. WriterInv'
    BY <1>5 DEF TypesInv, WriterInv, PlacesInv, Raise, RollBack
  <2>3. QED
    BY <1>5, <2>1, <2>2, EmptyIsLibrary DEF TypesInv, LibrariesInv, CountsInv, Raise, RollBack
<1>6. ASSUME NEW p \in Processes, Crash(p) PROVE TypesInv'
  <2>1. PlacesInv'
    <3>1. StartedPlace(Place(at[p].kind, "closed", 0))
      BY PlacedFirst DEF TypesInv, PlacesInv, StartedPlace
    <3>2. QED
      BY <1>6, <3>1 DEF TypesInv, PlacesInv, Crash
  <2>2. WriterInv'
    BY <1>6 DEF TypesInv, WriterInv, PlacesInv, Crash, RollBack
  <2>3. CountsInv'
    BY <1>6, UpgradeAssumption DEF TypesInv, CountsInv, Crash
  <2>4. QED
    BY <1>6, <2>1, <2>2, <2>3, EmptyIsLibrary DEF TypesInv, LibrariesInv, Crash, RollBack
<1>7. QED
  BY <1>1, <1>2, <1>3, <1>4, <1>5, <1>6 DEF Next

\* The file, the transaction on it and the places of the processes have their
\* types: a process that holds a transaction is still opening the library, since
\* every script ends it with a statement that is never skipped.
THEOREM UpgradeTypes == Spec => []TypeOK
<1>1. TypesInv => TypeOK
  <2>1. DOMAIN Scripts = 0 .. SchemaVersion - 1
    BY DEF Scripts
  <2>2. QED
    BY <2>1 DEF TypesInv, WriterInv, PlacesInv, LibrariesInv, CountsInv, StartedPlace, IsLibrary,
                TypeOK, Busy
<1>2. QED
  BY <1>1, TypesInit, TypesStep, PTL DEF Spec

-----------------------------------------------------------------------------
(* The rows.                                                               *)

\* The statement at a line of a rebuild does what the line is for.
LEMMA EffectsOfRebuild ==
  ASSUME NEW a, a.script \in 0 .. SchemaVersion - 1, a.line \in 1 .. Len(Scripts[a.script]),
         NEW s, s = Scripts[a.script][a.line],
         NEW L, IsLibrary(L), ~Fails(s, L), NEW M, M = After(s, L), NEW t \in Rebuilt
  PROVE  /\ Stands(a, t, 0) => Fills(t, L, M)
         /\ Stands(a, t, 1) => Removes(t, L, M)
<1>1. a.line \in DOMAIN Scripts[a.script] /\ a.line \in Nat
  BY Lines
<1>2. ASSUME a.script \in Rebuilds PROVE Shaped(a.script, Scripts[a.script])
  BY <1>2, ScriptShapes
<1>3. ASSUME Stands(a, t, 0) PROVE Fills(t, L, M)
  <2>1. CopiesTo(s, t) /\ Sound(s)
    BY <1>1, <1>2, <1>3 DEF Stands, Shaped, CopiesTo, CopyLine
  <2>2. QED
    BY <2>1, AfterCopy, Distinct DEF Fills
<1>4. ASSUME Stands(a, t, 1) PROVE Removes(t, L, M)
  <2>1. Drops(s, t) /\ Sound(s)
    BY <1>1, <1>2, <1>4 DEF Stands, Shaped, Drops, CopyLine
  <2>2. QED
    BY <2>1, AfterDrop, Distinct DEF Removes
<1>5. QED
  BY <1>3, <1>4

\* The rows the library had at first.
Kept(t) == Ids(Original, t)

\* The libraries that p may see before another process changes them: its own
\* transaction, or the file and what another one may yet make of it.
Sights(p) ==
    CASE writer = p -> {draft} [] writer = NoProcess -> {lib} [] OTHER -> {lib, draft}
AllSights == IF writer = NoProcess THEN {lib} ELSE {lib, draft}

\* The rows K are in table t, or in its copy when there is no t.
Safe(L, t, K) == IF t \in DOMAIN L.tables THEN K \subseteq Ids(L, t) ELSE K \subseteq Ids(L, New[t])
\* Table t may be dropped; its copy may take its name.
Droppable(L, t, K) == t \in DOMAIN L.tables /\ K \subseteq Ids(L, t) /\ K \subseteq Ids(L, New[t])
Renameable(L, t, K) == t \notin DOMAIN L.tables /\ K \subseteq Ids(L, New[t])

Dropping(p, t) == Stands(at[p], t, 1)
Renaming(p, t) == Stands(at[p], t, 2)
Replacing(p, t) == Dropping(p, t) \/ Renaming(p, t)

\* What keeps the rows of t: a process is at the drop only while the copy has
\* them all, at the rename only while there is no table, wherever it looks; and
\* no two processes are there at once, since a copy that is full cannot be
\* filled again.
TableInv(t) ==
    t \notin recreated /\ Kept(t) # {} =>
        /\ \A L \in AllSights : Safe(L, t, Kept(t))
        /\ \A p \in Processes : Dropping(p, t) => \A L \in Sights(p) : Droppable(L, t, Kept(t))
        /\ \A p \in Processes : Renaming(p, t) => \A L \in Sights(p) : Renameable(L, t, Kept(t))
        /\ \A p, q \in Processes : Replacing(p, t) /\ Replacing(q, t) => p = q

RowsInv == \A t \in Rebuilt : TableInv(t)

\* A statement that neither creates the table empty beside its copy nor is a
\* drop or rename out of turn keeps the rows safe.
LEMMA SafeAfter ==
  ASSUME NEW t \in Rebuilt, NEW K, K # {}, NEW L, NEW M, NEW s, t \notin Recreates(s, L),
         Safe(L, t, K),
         \/ Keeps(t, L, M)
         \/ Begins(s, t, L, M)
         \/ Fills(t, L, M)
         \/ Droppable(L, t, K) /\ Removes(t, L, M)
         \/ Renameable(L, t, K) /\ Restores(t, L, M)
  PROVE  /\ Safe(M, t, K)
         /\ ~Begins(s, t, L, M)
<1>1. ~Begins(s, t, L, M)
  <2>1. ASSUME Begins(s, t, L, M) PROVE FALSE
    <3>1. t \notin DOMAIN L.tables /\ K \subseteq Ids(L, New[t])
      BY <2>1 DEF Begins, Safe
    <3>2. New[t] \in DOMAIN L.tables
      BY <3>1, IdsOf
    <3>3. QED
      BY <2>1, <3>1, <3>2 DEF Begins, Recreates
  <2>2. QED
    BY <2>1
<1>2. QED
  BY <1>1 DEF Safe, Keeps, Fills, Removes, Restores, Droppable, Renameable

\* What a process at the drop or the rename relies on survives the statements
\* of the others, and no other process can fill the copy.
LEMMA Undisturbed ==
  ASSUME NEW t \in Rebuilt, NEW K, K # {}, NEW L, NEW M
  PROVE  /\ Droppable(L, t, K) /\ Keeps(t, L, M) => Droppable(M, t, K)
         /\ Renameable(L, t, K) /\ Keeps(t, L, M) => Renameable(M, t, K)
         /\ Droppable(L, t, K) \/ Renameable(L, t, K) => Safe(L, t, K) /\ ~Fills(t, L, M)
         /\ Safe(L, t, K) /\ Fills(t, L, M) => Droppable(M, t, K) /\ M # L
         /\ Droppable(L, t, K) /\ Removes(t, L, M) => Renameable(M, t, K) /\ M # L
<1>1. PICK id : id \in K
  OBVIOUS
<1>2. Safe(L, t, K) /\ Fills(t, L, M) => M # L
  BY <1>1 DEF Safe, Fills
<1>3. Droppable(L, t, K) \/ Renameable(L, t, K) => Safe(L, t, K) /\ ~Fills(t, L, M)
  BY <1>1 DEF Safe, Fills, Droppable, Renameable
<1>4. QED
  BY <1>2, <1>3 DEF Safe, Keeps, Fills, Removes, Droppable, Renameable

LEMMA KeptStays == origin' = origin => \A t : Kept(t)' = Kept(t)
BY DEF Kept, Original

\* A step that changes no library a process may see, and takes no process to
\* the drop or the rename.
LEMMA QuietStep ==
  ASSUME RowsInv, origin' = origin, recreated' = recreated,
         AllSights' \subseteq AllSights,
         \A q \in Processes : at'[q].line = 1 \/ (at'[q] = at[q] /\ Sights(q)' \subseteq Sights(q))
  PROVE  RowsInv'
<1> SUFFICES ASSUME NEW t \in Rebuilt PROVE TableInv(t)'
  BY DEF RowsInv
<1>1. \A q \in Processes : /\ Dropping(q, t)' => Dropping(q, t)
                           /\ Renaming(q, t)' => Renaming(q, t)
                           /\ Replacing(q, t)' => Sights(q)' \subseteq Sights(q)
  BY DEF Replacing, Dropping, Renaming, Stands, CopyLine
<1>2. Kept(t)' = Kept(t) /\ TableInv(t)
  BY KeptStays DEF RowsInv
<1>3. QED
  BY <1>1, <1>2 DEF TableInv, Replacing

\* What the processes may see after a statement of p.
LEMMA SightsAfter ==
  ASSUME TypesInv, NEW p \in Processes, Execute(p),
         NEW new, new = After(Scripts[at[p].script][at[p].line], View(p))
  PROVE  /\ View(p) \in Sights(p) /\ View(p) \in AllSights
         /\ \A L \in AllSights' : L \in AllSights \/ L = new
         /\ \A q \in Processes \ {p} : \A L \in Sights(q)' :
              L \in Sights(q) \/ (L = new /\ View(p) \in Sights(q))
         /\ new # View(p) => /\ Sights(p)' = {new}
                             /\ \A q \in Processes \ {p} : View(p) \in Sights(q)
<1> DEFINE s == Scripts[at[p].script][at[p].line]
           opened == writer = p \/ s.op = "begin"
           ends == s.op \in {"version", "stamp", "commit"}
<1>1. /\ new # View(p) \/ s.op = "begin" => writer \in {p, NoProcess}
      /\ lib' = IF opened /\ ~ends THEN lib ELSE new
      /\ writer' = CASE opened /\ ~ends -> p
                     [] opened /\ ends -> NoProcess
                     [] OTHER -> writer
      /\ draft' = CASE opened /\ ~ends -> new
                    [] opened /\ ends -> EmptyLibrary
                    [] OTHER -> draft
  BY DEF Execute
<1>2. p # NoProcess /\ \A q \in Processes : q # NoProcess
  BY UpgradeAssumption
<1>3. ~(s.op = "begin" /\ ends)
  OBVIOUS
<1> HIDE DEF s
<1>4. View(p) \in Sights(p) /\ View(p) \in AllSights
  BY <1>2 DEF View, Sights, AllSights
<1>5. CASE writer = p
  <2>1. View(p) = draft /\ opened
    BY <1>5 DEF View
  <2>2. CASE ends
    BY <1>1, <1>2, <1>4, <1>5, <2>1, <2>2 DEF Sights, AllSights
  <2>3. CASE ~ends
    BY <1>1, <1>2, <1>4, <1>5, <2>1, <2>3 DEF Sights, AllSights
  <2>4. QED
    BY <2>2, <2>3
<1>6. CASE writer = NoProcess
  <2>1. View(p) = lib
    BY <1>2, <1>6 DEF View
  <2>2. CASE s.op = "begin"
    BY <1>1, <1>2, <1>3, <1>4, <1>6, <2>1, <2>2 DEF Sights, AllSights
  <2>3. CASE s.op # "begin"
    BY <1>1, <1>2, <1>4, <1>6, <2>1, <2>3 DEF Sights, AllSights
  <2>4. QED
    BY <2>2, <2>3
<1>7. CASE writer \notin {p, NoProcess}
  <2>1. View(p) = lib /\ new = lib /\ s.op # "begin"
    BY <1>1, <1>7 DEF View
  <2>2. lib' = lib /\ writer' = writer /\ draft' = draft
    BY <1>1, <1>7, <2>1
  <2>3. new = View(p)
    BY <2>1
  <2>4. ASSUME NEW L \in AllSights' PROVE L \in AllSights
    BY <2>2 DEF AllSights
  <2>5. ASSUME NEW q \in Processes \ {p}, NEW L \in Sights(q)' PROVE L \in Sights(q)
    BY <2>2 DEF Sights
  <2>6. QED
    BY <1>4, <2>3, <2>4, <2>5
<1>8. QED
  BY <1>5, <1>6, <1>7

LEMMA RowsInit == Init => RowsInv
<1> SUFFICES ASSUME Init, NEW t \in Rebuilt PROVE TableInv(t)
  BY DEF RowsInv
<1>1. \A p \in Processes : ~Replacing(p, t)
  BY DEF Init, Replacing, Dropping, Renaming, Stands, Place, Rebuilds
<1>2. lib = Original /\ writer = NoProcess
  BY DEF Init, Original
<1>3. Safe(lib, t, Kept(t))
  <2>1. t \notin DOMAIN lib.tables => Kept(t) = {}
    BY <1>2, IdsOf DEF Kept
  <2>2. QED
    BY <1>2, <2>1 DEF Safe, Kept
<1>4. QED
  BY <1>1, <1>2, <1>3 DEF TableInv, AllSights, Replacing

LEMMA ExecuteKeepsRows ==
  ASSUME TypesInv, RowsInv, NEW p \in Processes, Execute(p)
  PROVE  RowsInv'
<1> DEFINE a == at[p]
           s == Scripts[a.script][a.line]
           V == View(p)
           new == After(s, V)
           seen == IF s.op = "look" THEN Seen(V, s.table) ELSE a.seen
           b == AfterStatement(a, seen)
<1>1. /\ ~Fails(s, V) /\ at' = [at EXCEPT ![p] = b] /\ origin' = origin
      /\ recreated' = recreated \cup Recreates(s, V)
  BY DEF Execute
<1>2. /\ IsPlace(a) /\ a.script \in 0 .. SchemaVersion - 1 /\ a.line \in 1 .. Len(Scripts[a.script])
      /\ a.line \in Nat
  BY Lines DEF TypesInv, PlacesInv, StartedPlace
<1>3. IsLibrary(V)
  BY ViewIsLibrary
<1> HIDE DEF seen, V, s
<1>4. /\ V \in Sights(p) /\ V \in AllSights
      /\ \A L \in AllSights' : L \in AllSights \/ L = new
      /\ \A q \in Processes \ {p} : \A L \in Sights(q)' : L \in Sights(q) \/ (L = new /\ V \in Sights(q))
      /\ new # V => Sights(p)' = {new} /\ \A q \in Processes \ {p} : V \in Sights(q)
  BY SightsAfter DEF s, V
<1>5. /\ at'[p] = b /\ \A q \in Processes \ {p} : at'[q] = at[q]
  BY <1>1 DEF TypesInv, PlacesInv
<1>6. \A t, k : k \in {1, 2} /\ Stands(b, t, k) => Stands(a, t, k - 1)
  <2>1. "never" \notin seen
    BY <1>3, SeenFacts DEF TypesInv, PlacesInv, StartedPlace, seen
  <2>2. QED
    BY <1>2, <2>1, LineByLine
<1> SUFFICES ASSUME NEW t \in Rebuilt, t \notin recreated', Kept(t)' # {}
             PROVE  /\ \A L \in AllSights' : Safe(L, t, Kept(t)')
                    /\ \A q \in Processes : Dropping(q, t)'
                         => \A L \in Sights(q)' : Droppable(L, t, Kept(t)')
                    /\ \A q \in Processes : Renaming(q, t)'
                         => \A L \in Sights(q)' : Renameable(L, t, Kept(t)')
                    /\ \A q, r \in Processes : Replacing(q, t)' /\ Replacing(r, t)' => q = r
  BY DEF RowsInv, TableInv
<1> DEFINE K == Kept(t)
<1>7. K # {} /\ Kept(t)' = K /\ t \notin Recreates(s, V)
  BY <1>1, KeptStays
<1> HIDE DEF K, new, b
<1>8. /\ \A L \in AllSights : Safe(L, t, K)
      /\ \A q \in Processes : Dropping(q, t) => \A L \in Sights(q) : Droppable(L, t, K)
      /\ \A q \in Processes : Renaming(q, t) => \A L \in Sights(q) : Renameable(L, t, K)
      /\ \A q, r \in Processes : Replacing(q, t) /\ Replacing(r, t) => q = r
  BY <1>1, <1>7 DEF RowsInv, TableInv, K
<1>9. /\ \/ Keeps(t, V, new)
         \/ Begins(s, t, V, new)
         \/ Fills(t, V, new)
         \/ Dropping(p, t) /\ Removes(t, V, new)
         \/ Renaming(p, t) /\ Restores(t, V, new)
      /\ Stands(a, t, 0) => Fills(t, V, new)
      /\ Dropping(p, t) => Removes(t, V, new)
  BY <1>1, <1>2, <1>3, Effects, EffectsOfRebuild DEF Dropping, Renaming, new, s
<1>10. Safe(new, t, K) /\ ~Begins(s, t, V, new)
  <2>1. Dropping(p, t) => Droppable(V, t, K)
    BY <1>4, <1>8
  <2>2. Renaming(p, t) => Renameable(V, t, K)
    BY <1>4, <1>8
  <2>3. QED
    BY <1>4, <1>7, <1>8, <1>9, <2>1, <2>2, SafeAfter
\* Another process at the drop or the rename: the statement leaves t alone.
<1>11. ASSUME NEW q \in Processes \ {p}, Replacing(q, t), V \in Sights(q) PROVE Keeps(t, V, new)
  <2>1. ~Replacing(p, t)
    BY <1>8, <1>11
  <2>2. Droppable(V, t, K) \/ Renameable(V, t, K)
    BY <1>8, <1>11 DEF Replacing
  <2>3. ~Fills(t, V, new)
    BY <1>7, <2>2, Undisturbed
  <2>4. QED
    BY <1>9, <1>10, <2>1, <2>3 DEF Replacing
<1>12. ASSUME NEW q \in Processes \ {p}
       PROVE  /\ Dropping(q, t)' <=> Dropping(q, t)
              /\ Renaming(q, t)' <=> Renaming(q, t)
  BY <1>5 DEF Dropping, Renaming
\* p itself comes to the drop by the copy, to the rename by the drop.
<1>13. /\ Dropping(p, t)' => Stands(a, t, 0)
       /\ Renaming(p, t)' => Dropping(p, t)
  <2>1. Stands(b, t, 1) => Stands(a, t, 1 - 1)
    BY <1>6
  <2>2. Stands(b, t, 2) => Stands(a, t, 2 - 1)
    BY <1>6
  <2>3. QED
    BY <1>5, <2>1, <2>2 DEF Dropping, Renaming
<1>14. ASSUME Dropping(p, t)'
       PROVE  Fills(t, V, new) /\ Droppable(new, t, K) /\ new # V
  <2>1. Fills(t, V, new) /\ Safe(V, t, K)
    BY <1>4, <1>8, <1>9, <1>13, <1>14
  <2>2. QED
    BY <1>7, <2>1, Undisturbed
<1>15. ASSUME Renaming(p, t)'
       PROVE  Dropping(p, t) /\ Renameable(new, t, K) /\ new # V
  <2>1. Dropping(p, t) /\ Removes(t, V, new) /\ Droppable(V, t, K)
    BY <1>4, <1>8, <1>9, <1>13, <1>15
  <2>2. QED
    BY <1>7, <2>1, Undisturbed
<1>16. \A L \in AllSights' : Safe(L, t, K)
  BY <1>4, <1>8, <1>10
<1>17. ASSUME NEW q \in Processes, Dropping(q, t)', NEW L \in Sights(q)'
       PROVE  Droppable(L, t, K)
  <2>1. CASE q = p
    BY <1>4, <1>14, <1>17, <2>1
  <2>2. CASE q # p
    <3>1. Dropping(q, t)
      BY <1>12, <1>17, <2>2
    <3>2. CASE L \in Sights(q)
      BY <1>8, <3>1, <3>2
    <3>3. CASE L = new /\ V \in Sights(q)
      <4>1. Keeps(t, V, new) /\ Droppable(V, t, K)
        BY <1>8, <1>11, <2>2, <3>1, <3>3 DEF Replacing
      <4>2. QED
        BY <1>7, <3>3, <4>1, Undisturbed
    <3>4. QED
      BY <1>4, <1>17, <2>2, <3>2, <3>3
  <2>3. QED
    BY <2>1, <2>2
<1>18. ASSUME NEW q \in Processes, Renaming(q, t)', NEW L \in Sights(q)'
       PROVE  Renameable(L, t, K)
  <2>1. CASE q = p
    BY <1>4, <1>15, <1>18, <2>1
  <2>2. CASE q # p
    <3>1. Renaming(q, t)
      BY <1>12, <1>18, <2>2
    <3>2. CASE L \in Sights(q)
      BY <1>8, <3>1, <3>2
    <3>3. CASE L = new /\ V \in Sights(q)
      <4>1. Keeps(t, V, new) /\ Renameable(V, t, K)
        BY <1>8, <1>11, <2>2, <3>1, <3>3 DEF Replacing
      <4>2. QED
        BY <1>7, <3>3, <4>1, Undisturbed
    <3>4. QED
      BY <1>4, <1>18, <2>2, <3>2, <3>3
  <2>3. QED
    BY <2>1, <2>2
<1>19. ASSUME NEW q \in Processes \ {p}, Replacing(q, t), Replacing(p, t)' PROVE FALSE
  <2>1. CASE Dropping(p, t)'
    <3>1. Keeps(t, V, new)
      BY <1>4, <1>11, <1>14, <1>19, <2>1
    <3>2. Droppable(V, t, K) \/ Renameable(V, t, K)
      BY <1>4, <1>8, <1>14, <1>19, <2>1 DEF Replacing
    <3>3. QED
      BY <1>7, <1>14, <2>1, <3>2, Undisturbed
  <2>2. CASE Renaming(p, t)'
    BY <1>8, <1>15, <1>19, <2>2 DEF Replacing
  <2>3. QED
    BY <1>19, <2>1, <2>2 DEF Replacing
<1>20. \A q, r \in Processes : Replacing(q, t)' /\ Replacing(r, t)' => q = r
  <2>1. \A q \in Processes \ {p} : Replacing(q, t)' <=> Replacing(q, t)
    BY <1>12 DEF Replacing
  <2>2. QED
    BY <1>8, <1>19, <2>1
<1>21. QED
  BY <1>7, <1>16, <1>17, <1>18, <1>20

LEMMA RowsStep == TypesInv /\ RowsInv /\ [Next]_vars => RowsInv'
<1> SUFFICES ASSUME TypesInv, RowsInv, [Next]_vars PROVE RowsInv'
  OBVIOUS
<1>1. CASE UNCHANGED vars
  BY <1>1, QuietStep DEF vars, Sights, AllSights
<1>2. ASSUME NEW p \in Processes, NEW kind \in Kinds, Open(p, kind) PROVE RowsInv'
  <2>1. \A q \in Processes : at'[q] = at[q] \/ at'[q].line = 1
    BY <1>2 DEF TypesInv, PlacesInv, Open, Place
  <2>2. AllSights' = AllSights /\ \A q \in Processes : Sights(q)' = Sights(q)
    BY <1>2 DEF Open, Sights, AllSights
  <2>3. QED
    BY <1>2, <2>1, <2>2, QuietStep DEF Open
<1>3. ASSUME NEW p \in Processes, ReadVersion(p) PROVE RowsInv'
  <2>1. \A q \in Processes : at'[q] = at[q] \/ at'[q].line = 1
    BY <1>3 DEF TypesInv, PlacesInv, ReadVersion, AfterVersion, Place
  <2>2. AllSights' = AllSights /\ \A q \in Processes : Sights(q)' = Sights(q)
    BY <1>3 DEF ReadVersion, Sights, AllSights
  <2>3. QED
    BY <1>3, <2>1, <2>2, QuietStep DEF ReadVersion
<1>4. ASSUME NEW p \in Processes, Execute(p) PROVE RowsInv'
  BY <1>4, ExecuteKeepsRows
<1>5. ASSUME NEW p \in Processes, RollBack(p), NEW b, b.line = 1, at' = [at EXCEPT ![p] = b],
             origin' = origin, recreated' = recreated
      PROVE  RowsInv'
  <2>1. AllSights' \subseteq AllSights
    BY <1>5 DEF RollBack, AllSights
  <2>2. at'[p].line = 1 /\ \A q \in Processes \ {p} : at'[q] = at[q]
    BY <1>5 DEF TypesInv, PlacesInv
  <2>3. ASSUME NEW q \in Processes
        PROVE  at'[q].line = 1 \/ (at'[q] = at[q] /\ Sights(q)' \subseteq Sights(q))
    <3>1. q # p => Sights(q)' \subseteq Sights(q)
      BY <1>5, UpgradeAssumption DEF RollBack, Sights
    <3>2. QED
      BY <2>2, <3>1
  <2>4. QED
    BY <1>5, <2>1, <2>3, QuietStep
<1>6. ASSUME NEW p \in Processes, Raise(p) PROVE RowsInv'
  <2> DEFINE b == Place(at[p].kind, IF at[p].stage = "ensure" /\ at[p].kind = "upgrade" THEN "read"
                                      ELSE "failed", 0)
  <2>1. b.line = 1
    BY DEF Place
  <2>2. at' = [at EXCEPT ![p] = b] /\ RollBack(p) /\ origin' = origin /\ recreated' = recreated
    BY <1>6 DEF Raise
  <2> HIDE DEF b
  <2>3. QED
    BY <1>5, <2>1, <2>2
<1>7. ASSUME NEW p \in Processes, Crash(p) PROVE RowsInv'
  <2> DEFINE b == Place(at[p].kind, "closed", 0)
  <2>1. b.line = 1
    BY DEF Place
  <2>2. at' = [at EXCEPT ![p] = b] /\ RollBack(p) /\ origin' = origin /\ recreated' = recreated
    BY <1>7 DEF Crash
  <2> HIDE DEF b
  <2>3. QED
    BY <1>5, <2>1, <2>2
<1>8. QED
  BY <1>1, <1>2, <1>3, <1>4, <1>6, <1>7 DEF Next

\* However many processes open the library at once, whatever its version and
\* wherever they die: no row of a table that migrations rebuild is gone from the
\* file, unless create_schema() created the table anew in the middle of its
\* rebuild.
THEOREM RowsAreKept == Spec => []RowsStayInTheFile
<1>1. RowsInv => RowsStayInTheFile
  <2> SUFFICES ASSUME RowsInv, NEW t \in Rebuilt \ recreated
               PROVE  Kept(t) \subseteq Ids(lib, t) \cup Ids(lib, New[t])
    BY DEF RowsStayInTheFile, Kept
  <2>1. CASE Kept(t) = {}
    BY <2>1
  <2>2. CASE Kept(t) # {}
    <3>1. Safe(lib, t, Kept(t))
      BY <2>2 DEF RowsInv, TableInv, AllSights
    <3>2. QED
      BY <3>1 DEF Safe
  <2>3. QED
    BY <2>1, <2>2
<1>2. Spec => [](TypesInv /\ RowsInv)
  BY TypesInit, TypesStep, RowsInit, RowsStep, PTL DEF Spec
<1>3. QED
  BY <1>1, <1>2, PTL

-----------------------------------------------------------------------------
(* Processes that open the library one after another.                      *)

\* Statements that do no harm to a table: it has what it had, or is new.
Wider(L, M, u) ==
    /\ u \in DOMAIN L.tables => u \in DOMAIN M.tables /\ Widened(M.tables[u], L.tables[u])
    /\ u \in DOMAIN M.tables \ DOMAIN L.tables
         => M.tables[u].rows = {} /\ Made(u, M.tables[u].cols)

\* A table of jobs with a summary has all the columns of version 7.
Sensible(L) == Has(L, "jobs", {"summary_json"}) => Has(L, "jobs", JobsOf7)

Details == {"action_results", "performance_metrics"}

LEMMA WiderFacts ==
  ASSUME NEW L, NEW M, NEW u, Wider(L, M, u)
  PROVE  /\ TableOf(M, u).rows = TableOf(L, u).rows /\ Ids(M, u) = Ids(L, u)
         /\ \A cols : Has(L, u, cols) => Has(M, u, cols)
         /\ u \in Details /\ "fk_job" \notin TableOf(L, u).cols => "fk_job" \notin TableOf(M, u).cols
         /\ u = "jobs" /\ Sensible(L) => Sensible(M)
<1>1. TableOf(M, u).rows = TableOf(L, u).rows
  BY DEF Wider, TableOf, NoTable, Widened
<1>2. \A cols : Has(L, u, cols) => Has(M, u, cols)
  BY DEF Wider, Has, Widened
<1>3. u \in Details /\ "fk_job" \notin TableOf(L, u).cols => "fk_job" \notin TableOf(M, u).cols
  BY DEF Wider, TableOf, NoTable, Widened, Made, Reserved, Details
<1>4. ASSUME u = "jobs", Sensible(L), Has(M, "jobs", {"summary_json"}) PROVE Has(M, "jobs", JobsOf7)
  <2>1. u \in DOMAIN M.tables /\ "summary_json" \in M.tables[u].cols
    BY <1>4 DEF Has
  <2>2. CASE u \in DOMAIN L.tables
    <3>1. "summary_json" \in L.tables[u].cols
      BY <2>1, <2>2 DEF Wider, Widened, Reserved
    <3>2. Has(L, u, JobsOf7)
      BY <1>4, <2>2, <3>1 DEF Has, Sensible
    <3>3. QED
      BY <1>2, <1>4, <3>2
  <2>3. CASE u \notin DOMAIN L.tables
    BY <1>4, <2>1, <2>3 DEF Wider, Made, Has
  <2>4. QED
    BY <2>2, <2>3
<1>5. QED
  BY <1>1, <1>2, <1>3, <1>4 DEF Ids, Sensible

LEMMA SameIsWider ==
  ASSUME NEW L, NEW M, NEW u, u \in DOMAIN L.tables <=> u \in DOMAIN M.tables,
         u \in DOMAIN L.tables => M.tables[u] = L.tables[u]
  PROVE  Wider(L, M, u)
BY DEF Wider, Widened

LEMMA CreateIsWider ==
  ASSUME NEW L, IsLibrary(L), NEW s, Sound(s), s.op \in {"create", "make"}, NEW M, M = After(s, L), NEW u
  PROVE  Wider(L, M, u)
<1>1. /\ DOMAIN M.tables = DOMAIN L.tables \cup {s.table}
      /\ \A x \in DOMAIN L.tables : M.tables[x] = L.tables[x]
      /\ s.table \notin DOMAIN L.tables
           => M.tables[s.table].cols = s.cols /\ M.tables[s.table].rows = {}
  BY AfterCreate
<1>2. Made(s.table, s.cols)
  BY DEF Sound
<1>3. QED
  BY <1>1, <1>2 DEF Wider, Widened

\* A tame statement does no harm to any table; nor does the last of a script,
\* which changes nothing but the version.
LEMMA TameIsWider ==
  ASSUME NEW L, IsLibrary(L), NEW s, Tame(s), ~Fails(s, L), NEW M, M = After(s, L)
  PROVE  /\ M.version = L.version
         /\ \A u : u # "operations" => Wider(L, M, u)
         /\ \A u \in Copies : u \in DOMAIN M.tables => u \in DOMAIN L.tables
         /\ s.op = "add" => Has(M, s.table, s.cols)
<1>0. Sound(s)
  BY DEF Tame
<1>1. CASE s.op = "create"
  <2>1. DOMAIN M.tables = DOMAIN L.tables \cup {s.table} /\ M.version = L.version
    BY <1>0, <1>1, AfterCreate
  <2>2. s.table \notin Copies
    BY <1>1 DEF Tame
  <2>3. QED
    BY <1>0, <1>1, <2>1, <2>2, CreateIsWider
<1>2. CASE s.op = "discard"
  <2>1. s.table = "operations"
    BY <1>2 DEF Tame
  <2>2. /\ DOMAIN M.tables = DOMAIN L.tables \ {"operations"} /\ M.version = L.version
        /\ \A u \in DOMAIN M.tables : M.tables[u] = L.tables[u]
    BY <1>0, <1>2, <2>1, AfterDiscard
  <2>3. ASSUME NEW u, u # "operations" PROVE Wider(L, M, u)
    BY <2>2, <2>3, SameIsWider
  <2>4. QED
    BY <1>2, <2>2, <2>3
<1>3. CASE s.op \notin {"create", "discard"}
  <2>1. /\ DOMAIN M.tables = DOMAIN L.tables /\ M.version = L.version
        /\ \A u \in DOMAIN L.tables : Widened(M.tables[u], L.tables[u])
        /\ s.op = "add" => Has(M, s.table, s.cols)
    BY <1>0, <1>3, AfterAlter DEF Tame
  <2>2. QED
    BY <2>1 DEF Wider
<1>4. QED
  BY <1>1, <1>2, <1>3

LEMMA ClosingKeepsTables ==
  ASSUME NEW n \in 0 .. SchemaVersion - 1, NEW s, s = Closing(n), NEW L, IsLibrary(L),
         NEW M, M = After(s, L)
  PROVE  /\ ~Fails(s, L) /\ M.tables = L.tables
         /\ n = 0 => M.version = IF L.version = 0 THEN SchemaVersion ELSE L.version
         /\ n # 0 => M.version = IF L.version = 0 THEN L.version ELSE n + 1
<1>1. ~Fails(s, L)
  BY ClosingFacts DEF Fails
<1>2. M.tables = L.tables
  BY <1>1, ClosingFacts, AfterAlter
<1>0. \A v : [L EXCEPT !.version = v].version = v
  <2>1. L = [version |-> L.version, tables |-> L.tables]
    BY DEF IsLibrary
  <2>2. QED
    BY <2>1
<1>3. CASE n = 0
  <2>1. s.op = "stamp" /\ s.arg = SchemaVersion
    BY <1>3 DEF Closing, Stamp, Statement
  <2>2. L.version = 0 => M = [L EXCEPT !.version = s.arg]
    BY <2>1 DEF After
  <2>3. L.version # 0 => M = L
    BY <2>1 DEF After
  <2>4. L.version = 0 => M.version = SchemaVersion
    BY <1>0, <2>1, <2>2
  <2>5. QED
    BY <1>1, <1>2, <1>3, <2>3, <2>4
<1>4. CASE n # 0
  <2>1. s.op = "version" /\ s.arg = n + 1
    BY <1>4 DEF Closing, Version, Statement
  <2>2. L.version # 0 => M = [L EXCEPT !.version = s.arg]
    BY <2>1 DEF After
  <2>3. L.version = 0 => M = L
    BY <2>1 DEF After
  <2>4. L.version # 0 => M.version = n + 1
    BY <1>0, <2>1, <2>2
  <2>5. QED
    BY <1>1, <1>2, <1>4, <2>3, <2>4
<1>5. QED
  BY <1>3, <1>4

\* What a statement does, told apart by what it is for.
LEMMA KindsOfStatements ==
  ASSUME NEW a, a.script \in 0 .. SchemaVersion - 1, a.line \in 1 .. Len(Scripts[a.script]),
         NEW s, s = Scripts[a.script][a.line],
         NEW L, IsLibrary(L), ~Fails(s, L), NEW M, M = After(s, L)
  PROVE  \/ Tame(s)
         \/ s = Closing(a.script) /\ a.line = Len(Scripts[a.script]) /\ M.tables = L.tables
         \/ /\ M.version = L.version
            /\ \E t \in Rebuilt : \/ Makes(s, t) /\ Sound(s)
                                  \/ CopiesTo(s, t) /\ Sound(s) /\ Stands(a, t, 0)
                                  \/ Drops(s, t) /\ Sound(s) /\ Stands(a, t, 1)
                                  \/ Renames(s, t) /\ Sound(s) /\ Stands(a, t, 2)
<1>1. CASE Tame(s)
  BY <1>1
<1>2. CASE s = Closing(a.script) /\ a.line = Len(Scripts[a.script])
  BY <1>2, ClosingKeepsTables
<1>3. ASSUME NEW t \in Rebuilt, Sound(s), Makes(s, t) PROVE M.version = L.version
  BY <1>3, AfterCreate DEF Makes
<1>4. ASSUME NEW t \in Rebuilt, Sound(s), CopiesTo(s, t) PROVE M.version = L.version
  BY <1>4, AfterCopy
<1>5. ASSUME NEW t \in Rebuilt, Sound(s), Drops(s, t) PROVE M.version = L.version
  BY <1>5, AfterDrop
<1>6. ASSUME NEW t \in Rebuilt, Sound(s), Renames(s, t) PROVE M.version = L.version
  BY <1>6, AfterRename
<1>7. QED
  BY <1>1, <1>2, <1>3, <1>4, <1>5, <1>6, StatementAt

\* The version only grows from the one the library had at first, or is that of
\* a new library; a migration is of a version it had, and the statement a process is
\* at is one that its last look does not skip.
VersionSince(L) == IF origin = 0 THEN L.version \in {0, SchemaVersion} ELSE L.version >= origin
Due(a) ==
    /\ a.script # 0 => origin # 0 /\ a.script >= origin /\ a.stage = "initialize"
    /\ Scripts[a.script][a.line].unless \notin a.seen

VersionsInv ==
    /\ origin \in 0 .. SchemaVersion
    /\ \A L \in AllSights : VersionSince(L)
    /\ \A p \in Processes : Due(at[p])

LEMMA DueAtStart ==
  ASSUME NEW kind, NEW stage
  PROVE  Due(Place(kind, stage, 0))
BY DEF Due, Place

LEMMA VersionsInit == Init => VersionsInv
<1> SUFFICES ASSUME Init PROVE VersionsInv
  OBVIOUS
<1>1. origin \in 0 .. SchemaVersion /\ origin \in Starts
  BY UpgradeAssumption DEF Init
<1>2. lib = LibraryOf(origin) /\ AllSights = {lib}
  BY <1>1 DEF Init, Originals, AllSights
<1>3. VersionSince(lib)
  <2>1. lib.version = origin
    BY <1>2 DEF LibraryOf, EmptyLibrary
  <2>2. QED
    BY <1>1, <2>1 DEF VersionSince, SchemaVersion
<1>4. \A p \in Processes : Due(at[p])
  BY DueAtStart DEF Init
<1>5. QED
  BY <1>1, <1>2, <1>3, <1>4 DEF VersionsInv

LEMMA SightsOnRollBack ==
  ASSUME NEW p, RollBack(p)
  PROVE  AllSights' \subseteq AllSights
BY DEF RollBack, AllSights

\* The part of p in a statement that is executed.
LEMMA Executed ==
  ASSUME TypesInv, NEW p \in Processes, Execute(p),
         NEW a, a = at[p], NEW s, s = Scripts[a.script][a.line], NEW V, V = View(p),
         NEW new, new = After(s, V)
  PROVE  /\ StartedPlace(a) /\ a.stage \in {"ensure", "initialize"} /\ IsLibrary(V) /\ IsLibrary(new)
         /\ a.script \in 0 .. SchemaVersion - 1 /\ a.line \in 1 .. Len(Scripts[a.script])
         /\ ~Fails(s, V) /\ origin' = origin /\ crashes' = crashes /\ overlap' = overlap
         /\ V \in AllSights /\ \A L \in AllSights' : L \in AllSights \/ L = new
         /\ \A q \in Processes \ {p} : at'[q] = at[q]
         /\ \E seen : /\ seen = IF s.op = "look" THEN Seen(V, s.table) ELSE a.seen
                      /\ "never" \notin seen
                      /\ at'[p] = AfterStatement(a, seen)
                      /\ \/ at'[p] = AfterScript(a) /\ a.line = Len(Scripts[a.script])
                         \/ Further(a, at'[p], seen)
<1> DEFINE seen == IF s.op = "look" THEN Seen(V, s.table) ELSE a.seen
<1>1. /\ StartedPlace(a) /\ a.stage \in {"ensure", "initialize"} /\ ~Fails(s, V)
      /\ at' = [at EXCEPT ![p] = AfterStatement(a, seen)]
      /\ origin' = origin /\ crashes' = crashes /\ overlap' = overlap
  BY DEF TypesInv, PlacesInv, Execute
<1>2. IsLibrary(V) /\ "never" \notin seen
  BY <1>1, ViewIsLibrary, SeenFacts DEF StartedPlace
<1>3. V \in AllSights /\ \A L \in AllSights' : L \in AllSights \/ L = new
  BY SightsAfter
<1> HIDE DEF seen
<1>4. at'[p] = AfterStatement(a, seen) /\ \A q \in Processes \ {p} : at'[q] = at[q]
  BY <1>1 DEF TypesInv, PlacesInv
<1>5. IsPlace(a) /\ a.script \in 0 .. SchemaVersion - 1 /\ a.line \in 1 .. Len(Scripts[a.script])
  BY <1>1 DEF StartedPlace
<1>6. (at'[p] = AfterScript(a) /\ a.line = Len(Scripts[a.script])) \/ Further(a, at'[p], seen)
  BY <1>2, <1>4, <1>5, NextLine
<1>7. IsLibrary(new)
  BY <1>1, <1>2, <1>5, Effects
<1>8. QED
  BY <1>1, <1>2, <1>3, <1>4, <1>5, <1>6, <1>7 DEF seen

LEMMA ExecuteVersions ==
  ASSUME TypesInv, VersionsInv, NEW p \in Processes, Execute(p)
  PROVE  VersionsInv'
<1> DEFINE a == at[p]
           s == Scripts[a.script][a.line]
           V == View(p)
           new == After(s, V)
<1>1. /\ StartedPlace(a) /\ a.stage \in {"ensure", "initialize"} /\ IsLibrary(V) /\ IsLibrary(new)
      /\ a.script \in 0 .. SchemaVersion - 1 /\ a.line \in 1 .. Len(Scripts[a.script])
      /\ ~Fails(s, V) /\ origin' = origin
      /\ V \in AllSights /\ \A L \in AllSights' : L \in AllSights \/ L = new
      /\ \A q \in Processes \ {p} : at'[q] = at[q]
      /\ \E seen : /\ "never" \notin seen
                   /\ \/ at'[p] = AfterScript(a) /\ a.line = Len(Scripts[a.script])
                      \/ Further(a, at'[p], seen)
  BY Executed
<1>2. Due(a) /\ origin \in 0 .. SchemaVersion /\ VersionSince(V) /\ V.version \in 0 .. SchemaVersion
  BY <1>1 DEF VersionsInv, IsLibrary
<1>3. \/ Tame(s)
      \/ s = Closing(a.script) /\ a.line = Len(Scripts[a.script]) /\ new.tables = V.tables
      \/ new.version = V.version
  BY <1>1, KindsOfStatements
<1> HIDE DEF new, V, s
<1>4. VersionSince(new)
  <2>1. CASE Tame(s)
    <3>1. new.version = V.version
      BY <1>1, <2>1, TameIsWider DEF new
    <3>2. QED
      BY <1>2, <3>1 DEF VersionSince
  <2>2. CASE s = Closing(a.script)
    <3>1. /\ a.script = 0 => new.version = IF V.version = 0 THEN SchemaVersion ELSE V.version
          /\ a.script # 0 => new.version = IF V.version = 0 THEN V.version ELSE a.script + 1
      BY <1>1, <2>2, ClosingKeepsTables DEF new
    <3>2. CASE a.script = 0
      BY <1>2, <3>1, <3>2 DEF VersionSince, SchemaVersion
    <3>3. CASE a.script # 0
      <4>1. origin # 0 /\ a.script >= origin /\ V.version >= origin
        BY <1>2, <3>3 DEF Due, VersionSince
      <4>2. new.version = a.script + 1
        BY <1>2, <3>1, <3>3, <4>1
      <4>3. a.script + 1 >= origin
        BY <1>1, <1>2, <4>1
      <4>4. QED
        BY <4>1, <4>2, <4>3 DEF VersionSince
    <3>4. QED
      BY <3>2, <3>3
  <2>3. CASE new.version = V.version
    BY <1>2, <2>3 DEF VersionSince
  <2>4. QED
    BY <1>3, <2>1, <2>2, <2>3
<1>6. \A L \in AllSights' : VersionSince(L)'
  <2>1. ASSUME NEW L \in AllSights' PROVE (origin' = 0 => L.version \in {0, SchemaVersion})
                                        /\ (origin' # 0 => L.version >= origin')
    <3>1. VersionSince(L)
      BY <1>1, <1>4 DEF VersionsInv
    <3>2. QED
      BY <1>1, <3>1 DEF VersionSince
  <2>2. QED
    BY <2>1 DEF VersionSince
<1>7. Due(at'[p])
  <2>1. CASE at'[p] = AfterScript(a)
    <3>1. CASE a.stage = "ensure" \/ a.script \in {0, SchemaVersion - 1}
      BY <2>1, <3>1, DueAtStart DEF AfterScript
    <3>2. CASE ~(a.stage = "ensure" \/ a.script \in {0, SchemaVersion - 1})
      <4>1. at'[p] = Place(a.kind, "initialize", a.script + 1)
        BY <2>1, <3>2 DEF AfterScript
      <4>2. a.script + 1 >= origin /\ origin # 0
        BY <1>1, <1>2, <3>2 DEF Due
      <4>3. QED
        BY <4>1, <4>2 DEF Due, Place
    <3>3. QED
      BY <3>1, <3>2
  <2>2. ASSUME NEW seen, Further(a, at'[p], seen) PROVE Due(at'[p])
    BY <1>2, <2>2 DEF Due, Further
  <2>3. QED
    BY <1>1, <2>1, <2>2
<1>8. \A q \in Processes : Due(at[q])'
  <2>1. \A q \in Processes : Due(at'[q])
    BY <1>1, <1>7 DEF VersionsInv
  <2>2. QED
    BY <1>1, <2>1 DEF Due
<1>9. QED
  BY <1>1, <1>2, <1>6, <1>8 DEF VersionsInv

LEMMA VersionsStep == TypesInv /\ VersionsInv /\ [Next]_vars => VersionsInv'
<1> SUFFICES ASSUME TypesInv, VersionsInv, [Next]_vars PROVE VersionsInv'
  OBVIOUS
<1>0. ASSUME origin' = origin, AllSights' \subseteq AllSights, \A p \in Processes : Due(at'[p])
      PROVE  VersionsInv'
  BY <1>0 DEF VersionsInv, VersionSince, Due
<1>1. CASE UNCHANGED vars
  BY <1>0, <1>1 DEF vars, VersionsInv, AllSights
<1>2. ASSUME NEW p \in Processes, origin' = origin, AllSights' \subseteq AllSights, NEW b, Due(b),
             at' = [at EXCEPT ![p] = b]
      PROVE  VersionsInv'
  BY <1>0, <1>2 DEF VersionsInv, TypesInv, PlacesInv
<1>3. ASSUME NEW p \in Processes, NEW kind \in Kinds, Open(p, kind) PROVE VersionsInv'
  <2>1. AllSights' \subseteq AllSights
    BY <1>3 DEF Open, AllSights
  <2>2. QED
    BY <1>2, <1>3, <2>1, DueAtStart DEF Open
<1>4. ASSUME NEW p \in Processes, ReadVersion(p) PROVE VersionsInv'
  <2>1. AllSights' \subseteq AllSights /\ lib \in AllSights
    BY <1>4 DEF ReadVersion, AllSights
  <2>2. Due(AfterVersion(at[p], lib.version))
    <3>1. VersionSince(lib) /\ lib.version \in 0 .. SchemaVersion /\ origin \in 0 .. SchemaVersion
      BY <2>1 DEF VersionsInv, TypesInv, LibrariesInv, IsLibrary
    <3>2. CASE lib.version >= SchemaVersion
      BY <3>2, DueAtStart DEF AfterVersion
    <3>3. CASE ~(lib.version >= SchemaVersion)
      <4>1. AfterVersion(at[p], lib.version) = Place(at[p].kind, "initialize", lib.version)
        BY <3>3 DEF AfterVersion
      <4>2. lib.version # 0 => origin # 0 /\ lib.version >= origin
        BY <3>1, <3>3 DEF VersionSince, SchemaVersion
      <4>3. QED
        BY <4>1, <4>2 DEF Due, Place
    <3>4. QED
      BY <3>2, <3>3
  <2>3. QED
    BY <1>2, <1>4, <2>1, <2>2 DEF ReadVersion
<1>5. ASSUME NEW p \in Processes, Execute(p) PROVE VersionsInv'
  BY <1>5, ExecuteVersions
<1>6. ASSUME NEW p \in Processes, Raise(p) PROVE VersionsInv'
  BY <1>2, <1>6, DueAtStart, SightsOnRollBack DEF Raise
<1>7. ASSUME NEW p \in Processes, Crash(p) PROVE VersionsInv'
  BY <1>2, <1>7, DueAtStart, SightsOnRollBack DEF Crash
<1>8. QED
  BY <1>1, <1>3, <1>4, <1>5, <1>6, <1>7 DEF Next

\* The details of statistics have no reference to a job; no migration after 24
\* takes rows from them, none after 25 from the statistics.
DetailsKept(L) ==
    /\ \A u \in Details : "fk_job" \notin TableOf(L, u).cols
    /\ origin > 24 => \A u \in Details : TableOf(L, u).rows = TableOf(Original, u).rows
    /\ origin > 25 => TableOf(L, "processing_stats").rows = TableOf(Original, "processing_stats").rows

DetailsInv == \A L \in AllSights : DetailsKept(L)

LEMMA DetailsAfter ==
  ASSUME NEW a, a.script \in 0 .. SchemaVersion - 1, a.line \in 1 .. Len(Scripts[a.script]),
         NEW s, s = Scripts[a.script][a.line],
         NEW L, IsLibrary(L), ~Fails(s, L), NEW M, M = After(s, L),
         NEW u \in Details, "fk_job" \notin TableOf(L, u).cols
  PROVE  /\ "fk_job" \notin TableOf(M, u).cols
         /\ a.script # 24 => TableOf(M, u).rows = TableOf(L, u).rows
<1>1. u # "operations" /\ \A t \in Rebuilt : u # t /\ u # New[t]
  BY Names DEF Details
<1>2. CASE Tame(s)
  <2>1. Wider(L, M, u)
    BY <1>1, <1>2, TameIsWider
  <2>2. QED
    BY <2>1, WiderFacts
<1>3. CASE M.tables = L.tables
  BY <1>3 DEF TableOf
<1>4. ASSUME NEW t \in Rebuilt, Makes(s, t), Sound(s)
      PROVE  "fk_job" \notin TableOf(M, u).cols /\ TableOf(M, u).rows = TableOf(L, u).rows
  <2>1. Wider(L, M, u)
    BY <1>4, CreateIsWider DEF Makes
  <2>2. QED
    BY <2>1, WiderFacts
<1>5. ASSUME NEW t \in Rebuilt, CopiesTo(s, t), Sound(s)
      PROVE  "fk_job" \notin TableOf(M, u).cols /\ TableOf(M, u).rows = TableOf(L, u).rows
  <2>1. /\ DOMAIN M.tables = DOMAIN L.tables
        /\ \A x \in DOMAIN M.tables : x # New[t] => M.tables[x] = L.tables[x]
    BY <1>5, AfterCopy
  <2>2. QED
    BY <1>1, <2>1 DEF TableOf
<1>6. ASSUME NEW t \in Rebuilt, Drops(s, t), Sound(s), Stands(a, t, 1)
      PROVE  /\ "fk_job" \notin TableOf(M, u).cols
             /\ a.script # 24 => TableOf(M, u).rows = TableOf(L, u).rows
  <2>1. /\ DOMAIN M.tables = DOMAIN L.tables \ {t}
        /\ \A x \in DOMAIN M.tables : /\ M.tables[x].cols = L.tables[x].cols
                                      /\ M.tables[x].rows = Bereft(L, x, t)
    <3>1. IsLibrary(L) /\ M = After(s, L)
      OBVIOUS
    <3>2. QED
      BY ONLY <1>6, <3>1, AfterDrop
  <2>2. a.script # 24 => t # "processing_stats"
    BY <1>6 DEF Stands, Subject, Rebuilds
  <2>3. u \in DOMAIN L.tables /\ t # "processing_stats" => Bereft(L, u, t) = L.tables[u].rows
    BY DEF Bereft, TableOf
  <2>4. QED
    BY <1>1, <2>1, <2>2, <2>3 DEF TableOf
<1>7. ASSUME NEW t \in Rebuilt, Renames(s, t), Sound(s)
      PROVE  "fk_job" \notin TableOf(M, u).cols /\ TableOf(M, u).rows = TableOf(L, u).rows
  <2>1. /\ DOMAIN M.tables = (DOMAIN L.tables \ {New[t]}) \cup {t}
        /\ \A x \in DOMAIN M.tables : x # t => M.tables[x] = L.tables[x]
    BY <1>7, AfterRename
  <2>2. QED
    BY <1>1, <2>1 DEF TableOf
<1>8. QED
  BY <1>2, <1>3, <1>4, <1>5, <1>6, <1>7, KindsOfStatements

LEMMA StatisticsAfter ==
  ASSUME NEW a, a.script \in 0 .. SchemaVersion - 1, a.line \in 1 .. Len(Scripts[a.script]),
         a.script \notin Rebuilds, NEW s, s = Scripts[a.script][a.line],
         NEW L, IsLibrary(L), ~Fails(s, L), NEW M, M = After(s, L)
  PROVE  TableOf(M, "processing_stats").rows = TableOf(L, "processing_stats").rows
<1>1. CASE Tame(s)
  BY <1>1, TameIsWider, WiderFacts
<1>2. CASE s = Closing(a.script)
  <2>1. M.tables = L.tables
    BY <1>2, ClosingKeepsTables
  <2>2. QED
    BY <2>1 DEF TableOf
<1>3. Tame(s) \/ s = Closing(a.script)
  <2>1. a.line \in DOMAIN Scripts[a.script] /\ Whole(Scripts[a.script], a.script)
    BY Lines, ScriptShapes
  <2>2. QED
    BY <2>1 DEF Whole, Ended
<1>4. QED
  BY <1>1, <1>2, <1>3

LEMMA DetailsInit == Init => DetailsInv
<1> SUFFICES ASSUME Init PROVE DetailsInv
  OBVIOUS
<1>1. lib = Original /\ AllSights = {lib}
  BY DEF Init, Original, AllSights
<1>2. origin \in 0 .. SchemaVersion /\ Original = LibraryOf(origin)
  BY UpgradeAssumption DEF Init, Original, Originals
<1>3. ASSUME NEW u \in Details PROVE "fk_job" \notin TableOf(LibraryOf(origin), u).cols
  <2>1. "fk_job" \notin ColsOf(origin, u)
    BY DEF ColsOf, Since, Details
  <2>2. CASE origin = 0
    BY <2>2 DEF LibraryOf, EmptyLibrary, TableOf, NoTable
  <2>3. CASE origin # 0
    BY <2>1, <2>3 DEF LibraryOf, TableOf, NoTable
  <2>4. QED
    BY <2>2, <2>3
<1>4. QED
  BY <1>1, <1>2, <1>3 DEF DetailsInv, DetailsKept

LEMMA DetailsStep == TypesInv /\ VersionsInv /\ DetailsInv /\ [Next]_vars => DetailsInv'
<1> SUFFICES ASSUME TypesInv, VersionsInv, DetailsInv, [Next]_vars PROVE DetailsInv'
  OBVIOUS
<1>0. ASSUME origin' = origin, \A L \in AllSights' : DetailsKept(L) PROVE DetailsInv'
  BY <1>0 DEF DetailsInv, DetailsKept, Original
<1>1. ASSUME origin' = origin, AllSights' \subseteq AllSights PROVE DetailsInv'
  BY <1>0, <1>1 DEF DetailsInv
<1>2. ASSUME NEW p \in Processes, Execute(p) PROVE DetailsInv'
  <2> DEFINE a == at[p]
             s == Scripts[a.script][a.line]
             V == View(p)
             new == After(s, V)
  <2>1. /\ IsLibrary(V) /\ a.script \in 0 .. SchemaVersion - 1 /\ a.line \in 1 .. Len(Scripts[a.script])
        /\ ~Fails(s, V) /\ origin' = origin
        /\ V \in AllSights /\ \A L \in AllSights' : L \in AllSights \/ L = new
    BY <1>2, Executed
  <2>2. DetailsKept(V) /\ origin \in 0 .. SchemaVersion /\ (a.script # 0 => a.script >= origin)
    BY <2>1 DEF DetailsInv, VersionsInv, Due
  <2> HIDE DEF new, V, s
  <2>3. ASSUME NEW u \in Details
        PROVE  /\ "fk_job" \notin TableOf(new, u).cols
               /\ a.script # 24 => TableOf(new, u).rows = TableOf(V, u).rows
    BY <2>1, <2>2, <2>3, DetailsAfter DEF DetailsKept, new, s
  <2>4. a.script \notin Rebuilds
          => TableOf(new, "processing_stats").rows = TableOf(V, "processing_stats").rows
    BY <2>1, StatisticsAfter DEF new, s
  <2>5. DetailsKept(new)
    <3>1. origin > 24 => a.script # 24
      BY <2>1, <2>2 DEF SchemaVersion
    <3>2. origin > 25 => a.script \notin Rebuilds
      BY <2>1, <2>2 DEF SchemaVersion, Rebuilds
    <3>3. QED
      BY <2>2, <2>3, <2>4, <3>1, <3>2 DEF DetailsKept
  <2>6. QED
    BY <1>0, <2>1, <2>5 DEF DetailsInv
<1>3. CASE UNCHANGED vars
  BY <1>1, <1>3 DEF vars, AllSights
<1>4. ASSUME NEW p \in Processes, \/ \E kind \in Kinds : Open(p, kind)
                                  \/ ReadVersion(p)
      PROVE  DetailsInv'
  BY <1>1, <1>4 DEF Open, ReadVersion, AllSights
<1>5. ASSUME NEW p \in Processes, Raise(p) \/ Crash(p) PROVE DetailsInv'
  BY <1>1, <1>5, SightsOnRollBack DEF Raise, Crash
<1>6. QED
  BY <1>2, <1>3, <1>4, <1>5 DEF Next

-----------------------------------------------------------------------------
(* What the rebuilds need of the migrations before them.                   *)

\* The migrations that give a rebuilt table what a later rebuild copies or is
\* indexed by, and the line after which it is there.
Gains == {4, 5, 6, 7, 17, 20, 22}
GainTable(n) ==
    CASE n = 5 -> "transcription_results"
      [] n \in {17, 20, 22} -> "processing_stats"
      [] OTHER -> "jobs"
GainCols(n) ==
    CASE n = 6 -> JobsOf7
      [] n = 7 -> {"log_path"}
      [] n = 20 -> {"encoder_type"}
      [] n = 22 -> {"job_id"}
      [] OTHER -> {}
GainLine(n) == IF n \in {6, 22} THEN 5 ELSE 2
Gained(L, n) == Has(L, GainTable(n), GainCols(n))
Level(L, k) == \A n \in Gains : n < k => Gained(L, n)

LEMMA GainFacts ==
  /\ \A n \in Gains : GainTable(n) \in Rebuilt /\ n \in 1 .. SchemaVersion - 1
  /\ \A m \in Rebuilds : Subject(m) \in Rebuilt /\ m \in 1 .. SchemaVersion - 1
  /\ \A m \in Rebuilds, n \in Gains : n <= m /\ GainTable(n) = Subject(m) => GainCols(n) \subseteq MadeCols(m)
  /\ \A m \in Rebuilds : Subject(m) = "jobs" => JobsOf7 \subseteq MadeCols(m)
<1>1. /\ \A n \in Gains : GainTable(n) \in Rebuilt /\ n \in 1 .. SchemaVersion - 1
      /\ \A m \in Rebuilds : Subject(m) \in Rebuilt /\ m \in 1 .. SchemaVersion - 1
  BY Names DEF Gains, GainTable, Rebuilds, Subject, SchemaVersion
<1>2. ASSUME NEW m \in Rebuilds, NEW n \in Gains, n <= m, GainTable(n) = Subject(m)
      PROVE  GainCols(n) \subseteq MadeCols(m)
  <2>1. CASE m = 6
    BY <1>2, <2>1 DEF Gains, GainCols, GainTable, MadeCols, Subject
  <2>2. CASE m = 15
    BY <1>2, <2>2 DEF Gains, GainCols, GainTable, MadeCols, Subject
  <2>3. CASE m = 19
    BY <1>2, <2>3 DEF Gains, GainCols, GainTable, MadeCols, Subject
  <2>4. CASE m = 24
    BY <1>2, <2>4 DEF Gains, GainCols, GainTable, MadeCols, Subject
  <2>5. CASE m = 25
    BY <1>2, <2>5 DEF Gains, GainCols, GainTable, MadeCols, Subject, JobsOf26
  <2>6. QED
    BY <1>2, <2>1, <2>2, <2>3, <2>4, <2>5 DEF Rebuilds
<1>3. \A m \in Rebuilds : Subject(m) = "jobs" => JobsOf7 \subseteq MadeCols(m)
  BY DEF Rebuilds, Subject, MadeCols, JobsOf26
<1>4. QED
  BY <1>1, <1>2, <1>3

\* What a rebuild copies is there after the migrations before it.
LEMMA LevelIsEnough ==
  ASSUME NEW L, NEW m \in Rebuilds, Level(L, m)
  PROVE  /\ Has(L, Subject(m), NeededCols(m)) /\ Subject(m) \in DOMAIN L.tables
         /\ m = 24 => Has(L, "processing_stats", {"job_id"})
<1> USE DEF Level, Gains, Gained, GainTable, GainCols, NeededCols, Subject, Has
<1>1. CASE m = 6
  <2>1. Gained(L, 4)
    BY <1>1
  <2>2. QED
    BY <1>1, <2>1
<1>2. CASE m = 15
  <2>1. Gained(L, 5)
    BY <1>2
  <2>2. QED
    BY <1>2, <2>1
<1>3. CASE m = 19
  <2>1. Gained(L, 6) /\ Gained(L, 7)
    BY <1>3
  <2>2. QED
    BY <1>3, <2>1
<1>4. CASE m = 24
  <2>1. Gained(L, 20) /\ Gained(L, 22)
    BY <1>4
  <2>2. QED
    BY <1>4, <2>1
<1>5. CASE m = 25
  <2>1. Gained(L, 4)
    BY <1>5
  <2>2. QED
    BY <1>5, <2>1
<1>6. QED
  BY <1>1, <1>2, <1>3, <1>4, <1>5 DEF Rebuilds

\* The line of a script at which a table has gained what it gains, and the look
\* before it.
LEMMA GainLines ==
  ASSUME NEW n \in Gains, n # 6, NEW g, g = GainLine(n), NEW t, t = GainTable(n)
  PROVE  /\ g \in {2, 5} /\ g < Len(Scripts[n])
         /\ Scripts[n][g - 1].op = "look" /\ Scripts[n][g - 1].table = t
         /\ Scripts[n][g - 1].unless = "never" /\ Scripts[n][g].table = t
         /\ \/ /\ Scripts[n][g].op = "create" /\ Scripts[n][g].unless = "table" /\ GainCols(n) = {}
            \/ /\ Scripts[n][g].op = "add" /\ Scripts[n][g].cols = GainCols(n)
               /\ GainCols(n) = {Scripts[n][g].unless}
<1>1. Scripts[n] = Migrations[n]
  BY GainFacts DEF Scripts, SchemaVersion, Gains
<1> DEFINE Goal(m, k, u, cols) ==
             /\ k < Len(m) /\ m[k - 1].op = "look" /\ m[k - 1].table = u /\ m[k - 1].unless = "never"
             /\ m[k].table = u
             /\ \/ m[k].op = "create" /\ m[k].unless = "table" /\ cols = {}
                \/ m[k].op = "add" /\ m[k].cols = cols /\ cols = {m[k].unless}
<1>2. Goal(Migrate4, 2, "jobs", {}) /\ Goal(Migrate5, 2, "transcription_results", {})
  BY DEF Migrate4, Migrate5, IfMissing, Unless, Table, Look, Create, Index, Version, Statement
<1>3. Goal(Migrate7, 2, "jobs", {"log_path"}) /\ Goal(Migrate20, 2, "processing_stats", {"encoder_type"})
  BY DEF Migrate7, Migrate20, AddMissing, Look, Add, Version, Statement
<1>4. Goal(Migrate17, 2, "processing_stats", {})
  BY DEF Migrate17, IfMissing, Unless, Table, Look, Create, Index, Version, Statement
<1>5. Goal(Migrate22, 5, "processing_stats", {"job_id"})
  BY DEF Migrate22, AddMissing, Look, Add, Index, Version, Statement
<1> HIDE DEF Goal
<1>6. Goal(Migrations[n], GainLine(n), GainTable(n), GainCols(n))
  <2>1. CASE n = 4
    <3>1. Migrations[4] = Migrate4
      BY DEF Migrations
    <3>2. QED
      BY <1>2, <2>1, <3>1 DEF GainLine, GainTable, GainCols
  <2>2. CASE n = 5
    <3>1. Migrations[5] = Migrate5
      BY DEF Migrations
    <3>2. QED
      BY <1>2, <2>2, <3>1 DEF GainLine, GainTable, GainCols
  <2>3. CASE n = 7
    <3>1. Migrations[7] = Migrate7
      BY DEF Migrations
    <3>2. QED
      BY <1>3, <2>3, <3>1 DEF GainLine, GainTable, GainCols
  <2>4. CASE n = 17
    <3>1. Migrations[17] = Migrate17
      BY DEF Migrations
    <3>2. QED
      BY <1>4, <2>4, <3>1 DEF GainLine, GainTable, GainCols
  <2>5. CASE n = 20
    <3>1. Migrations[20] = Migrate20
      BY DEF Migrations
    <3>2. QED
      BY <1>3, <2>5, <3>1 DEF GainLine, GainTable, GainCols
  <2>6. CASE n = 22
    <3>1. Migrations[22] = Migrate22
      BY DEF Migrations
    <3>2. QED
      BY <1>5, <2>6, <3>1 DEF GainLine, GainTable, GainCols
  <2>7. QED
    BY <2>1, <2>2, <2>3, <2>4, <2>5, <2>6 DEF Gains
<1>7. g \in {2, 5}
  BY DEF GainLine
<1>8. QED
  BY <1>1, <1>6, <1>7 DEF Goal

\* What the statement at a line of a rebuild is.
LEMMA RebuildLine ==
  ASSUME NEW a, a.script \in Rebuilds, a.line \in 1 .. Len(Scripts[a.script]),
         NEW s, s = Scripts[a.script][a.line], NEW t, t = Subject(a.script),
         NEW c, c = CopyLine(a.script), NEW m, m = MakeLine(a.script)
  PROVE  /\ t \in Rebuilt /\ Sound(s) /\ c \in {3, 4} /\ m \in {2, 3} /\ m < c
         /\ Len(Scripts[a.script]) \in Nat /\ Len(Scripts[a.script]) > c + 2
         /\ a.line = m => Makes(s, t) /\ s.cols = MadeCols(a.script)
         /\ a.line = c => CopiesTo(s, t) /\ s.cols = NeededCols(a.script)
         /\ a.line = c + 1 => Drops(s, t)
         /\ a.line = c + 2 => Renames(s, t)
         /\ a.line \notin {m, c, c + 1, c + 2, Len(Scripts[a.script])} => Tame(s)
         /\ m < a.line /\ a.line < c => a.script = 24 /\ a.line = 3 /\ s.op = "begin"
<1>1. a.script \in 0 .. SchemaVersion - 1 /\ t \in Rebuilt
  BY GainFacts DEF SchemaVersion
<1>2. /\ Shaped(a.script, Scripts[a.script]) /\ a.line \in DOMAIN Scripts[a.script]
      /\ Len(Scripts[a.script]) \in Nat
  BY <1>1, ScriptShapes, Lines
<1>3. c \in {3, 4} /\ m \in {2, 3} /\ m < c /\ (m + 1 < c => a.script = 24 /\ m = 2 /\ c = 4)
  BY DEF CopyLine, MakeLine, Rebuilds
<1>4. ASSUME m < a.line, a.line < c PROVE a.script = 24 /\ a.line = 3 /\ s.op = "begin"
  <2>1. a.script = 24 /\ a.line = 3
    BY <1>2, <1>3, <1>4
  <2>2. Scripts[24] = Migrate24
    BY <1>1, <2>1 DEF Scripts, Migrations
  <2>3. Migrate24[3] = Tagged("fk_job", Begin)
    BY Migration24
  <2>4. Tagged("fk_job", Begin).op = "begin"
    BY DEF Tagged, Begin, Statement
  <2>5. QED
    BY <2>1, <2>2, <2>3, <2>4
<1>5. Sound(s) /\ Len(Scripts[a.script]) > c + 2
  BY <1>2 DEF Shaped
<1>6. /\ a.line = m => Makes(s, t) /\ s.cols = MadeCols(a.script)
      /\ a.line = c => CopiesTo(s, t) /\ s.cols = NeededCols(a.script)
  BY <1>2 DEF Shaped, Makes, CopiesTo
<1>7. /\ a.line = c + 1 => Drops(s, t)
      /\ a.line = c + 2 => Renames(s, t)
      /\ a.line \notin {m, c, c + 1, c + 2, Len(Scripts[a.script])} => Tame(s)
  BY <1>2 DEF Shaped, Drops, Renames
<1>8. QED
  BY <1>1, <1>2, <1>3, <1>4, <1>5, <1>6, <1>7

\* A process in the middle of a rebuild: its copy is made, the table not yet
\* replaced.
Inside(a) ==
    /\ a.script \in Rebuilds
    /\ a.line \in MakeLine(a.script) + 1 .. CopyLine(a.script) + 2

\* A rebuild is executed line by line once it has begun, or skipped as a whole.
LEMMA RebuildInTurn ==
  ASSUME NEW a, a.script \in Rebuilds, a.line \in 1 .. Len(Scripts[a.script]),
         NEW s, s = Scripts[a.script][a.line], Due(a), NEW V,
         NEW seen, seen = (IF s.op = "look" THEN Seen(V, s.table) ELSE a.seen),
         NEW b, Further(a, b, seen)
  PROVE  /\ a.line \in MakeLine(a.script) .. CopyLine(a.script) + 1 => b.line = a.line + 1
         /\ Inside(b) => a.line \in MakeLine(a.script) .. CopyLine(a.script) + 1
<1> DEFINE n == a.script
           script == Scripts[n]
           c == CopyLine(n)
           m == MakeLine(n)
<1>1. /\ c \in {3, 4} /\ m \in {2, 3} /\ m < c /\ a.line \in Nat
      /\ Len(script) \in Nat /\ Len(script) > c + 2
      /\ a.line = m => s.op \in {"create", "make"}
      /\ a.line = c => s.op = "copy"
      /\ a.line = c + 1 => s.op = "drop"
      /\ m < a.line /\ a.line < c => s.op = "begin"
  <2>1. a.line \in Nat
    BY Lines
  <2>2. QED
    BY <2>1, RebuildLine DEF Makes, CopiesTo, Drops
<1>2. \A i \in 2 .. c + 2 : script[i].unless = script[2].unless
  <2>0. n \in 1 .. SchemaVersion - 1
    BY GainFacts
  <2>1. n \in 0 .. SchemaVersion - 1
    BY ONLY <2>0 DEF SchemaVersion
  <2>2. QED
    BY <2>1, ScriptShapes DEF Shaped
<1>3. /\ b.script = n /\ b.line \in a.line + 1 .. Len(script) /\ script[b.line].unless \notin seen
      /\ \A i \in a.line + 1 .. b.line - 1 : script[i].unless \in seen
  BY DEF Further
<1> HIDE DEF c, m, script
<1>4. ASSUME a.line \in m .. c + 1 PROVE b.line = a.line + 1
  <2>1. seen = a.seen
    BY <1>1, <1>4
  <2>2. s.unless \notin a.seen /\ s = script[a.line]
    BY DEF Due, script
  <2>3. a.line \in 2 .. c + 2 /\ a.line + 1 \in 2 .. c + 2
    BY <1>1, <1>4
  <2>4. script[a.line + 1].unless \notin seen
    BY <1>2, <2>1, <2>2, <2>3
  <2>5. a.line + 1 \notin a.line + 1 .. b.line - 1
    BY <1>3, <2>4
  <2>6. a.line \in Nat /\ Len(script) \in Nat
    BY <1>1
  <2>7. QED
    BY ONLY <1>3, <2>5, <2>6
<1>5. ASSUME b.line \in m + 1 .. c + 2 PROVE a.line \in m .. c + 1
  <2>1. script[b.line].unless = script[m].unless
    BY <1>1, <1>2, <1>5
  <2>2. m \notin a.line + 1 .. b.line - 1
    BY <1>3, <2>1
  <2>3. QED
    BY <1>1, <1>3, <1>5, <2>2
<1>6. QED
  BY <1>3, <1>4, <1>5 DEF Inside, c, m

\* The rows that table t has at first in a library of version o, and where they
\* are while one process migrates it: in their table, with no copy beside it,
\* but for the table that is being rebuilt.
FirstIds(o, t) == Ids(Originals[o], t)
InPlace(L, t, K) == New[t] \notin DOMAIN L.tables /\ Ids(L, t) = K
Midway(L, a, K) ==
    LET t == Subject(a.script)
        c == CopyLine(a.script)
    IN  /\ New[t] \in DOMAIN L.tables /\ MadeCols(a.script) \subseteq L.tables[New[t]].cols
        /\ a.line <= c => t \in DOMAIN L.tables /\ Ids(L, t) = K /\ Ids(L, New[t]) = {}
        /\ a.line = c + 1 => t \in DOMAIN L.tables /\ Ids(L, New[t]) = K
        /\ a.line = c + 2 => t \notin DOMAIN L.tables /\ Ids(L, New[t]) = K
Where(a, t, L, K) ==
    IF Inside(a) /\ t = Subject(a.script) THEN Midway(L, a, K) ELSE InPlace(L, t, K)

LEMMA TameInPlace ==
  ASSUME NEW L, IsLibrary(L), NEW s, Tame(s), ~Fails(s, L), NEW M, M = After(s, L),
         NEW t \in Rebuilt, NEW K, InPlace(L, t, K)
  PROVE  InPlace(M, t, K)
<1>1. t # "operations" /\ New[t] \in Copies
  BY Distinct
<1>2. Ids(M, t) = Ids(L, t)
  BY <1>1, TameIsWider, WiderFacts
<1>3. New[t] \notin DOMAIN M.tables
  BY <1>1, TameIsWider DEF InPlace
<1>4. QED
  BY <1>2, <1>3 DEF InPlace

LEMMA OtherInPlace ==
  ASSUME NEW L, IsLibrary(L), NEW s, Sound(s), ~Fails(s, L), NEW M, M = After(s, L),
         NEW t \in Rebuilt, NEW u \in Rebuilt, t # u,
         Makes(s, u) \/ CopiesTo(s, u) \/ Drops(s, u) \/ Renames(s, u), NEW K, InPlace(L, t, K)
  PROVE  InPlace(M, t, K)
<1>1. /\ t # New[u] /\ New[t] # New[u] /\ New[t] # u
      /\ t \notin Details /\ New[t] \notin Details
  BY Distinct DEF Details
<1>2. CASE Makes(s, u)
  <2>1. DOMAIN M.tables = DOMAIN L.tables \cup {New[u]} /\ Ids(M, t) = Ids(L, t)
    BY <1>2, AfterCreate DEF Makes
  <2>2. QED
    BY <1>1, <2>1 DEF InPlace
<1>3. CASE CopiesTo(s, u)
  <2>1. DOMAIN M.tables = DOMAIN L.tables /\ Ids(M, t) = Ids(L, t)
    BY <1>1, <1>3, AfterCopy
  <2>2. QED
    BY <1>1, <2>1 DEF InPlace
<1>4. CASE Drops(s, u)
  <2>1. DOMAIN M.tables = DOMAIN L.tables \ {u} /\ Ids(M, t) = Ids(L, t)
    BY <1>1, <1>4, AfterDrop DEF Details
  <2>2. QED
    BY <1>1, <2>1 DEF InPlace
<1>5. CASE Renames(s, u)
  <2>1. DOMAIN M.tables = (DOMAIN L.tables \ {New[u]}) \cup {u} /\ Ids(M, t) = Ids(L, t)
    BY <1>1, <1>5, AfterRename
  <2>2. QED
    BY <1>1, <2>1 DEF InPlace
<1>6. QED
  BY <1>2, <1>3, <1>4, <1>5

\* A statement before the last one of a script that rebuilds nothing is tame.
LEMMA GentleLine ==
  ASSUME NEW a, a.script \in 0 .. SchemaVersion - 1, a.script \notin Rebuilds,
         a.line \in 1 .. Len(Scripts[a.script]), a.line # Len(Scripts[a.script])
  PROVE  Tame(Scripts[a.script][a.line])
BY ScriptShapes, Lines DEF Whole

LEMMA NotLast ==
  ASSUME NEW a, a.script \in 0 .. SchemaVersion - 1, a.line \in 1 .. Len(Scripts[a.script]), NEW b, NEW seen, Further(a, b, seen)
  PROVE  a.line # Len(Scripts[a.script]) /\ b.line > a.line /\ a.line \in Nat /\ b.line \in Nat
BY Lines DEF Further

\* The table is there when its copy is made.
TableThere(a, L) ==
    a.script \in Rebuilds /\ a.line = MakeLine(a.script) => Subject(a.script) \in DOMAIN L.tables

\* What the copy of a rebuild takes over, and what is left without its table.
LEMMA CopyTakes ==
  ASSUME NEW L, IsLibrary(L), NEW t \in Rebuilt, NEW s, Sound(s), CopiesTo(s, t), ~Fails(s, L),
         NEW M, M = After(s, L)
  PROVE  /\ DOMAIN M.tables = DOMAIN L.tables
         /\ Ids(M, New[t]) = Ids(L, New[t]) \cup Ids(L, t)
         /\ \A u \in DOMAIN M.tables : M.tables[u].cols = L.tables[u].cols
BY AfterCopy

LEMMA DropLeaves ==
  ASSUME NEW L, IsLibrary(L), NEW t \in Rebuilt, NEW s, Sound(s), Drops(s, t),
         NEW M, M = After(s, L)
  PROVE  /\ DOMAIN M.tables = DOMAIN L.tables \ {t}
         /\ Ids(M, New[t]) = Ids(L, New[t])
         /\ \A u \in DOMAIN M.tables : M.tables[u].cols = L.tables[u].cols
<1>1. New[t] \notin {t, "action_results", "performance_metrics"}
  BY Distinct DEF Details
<1>2. QED
  BY <1>1, AfterDrop

LEMMA WhereAfter ==
  ASSUME NEW a, a.script \in 1 .. SchemaVersion - 1, a.line \in 1 .. Len(Scripts[a.script]),
         NEW s, s = Scripts[a.script][a.line], Due(a),
         NEW L, IsLibrary(L), ~Fails(s, L), NEW M, M = After(s, L),
         NEW seen, seen = (IF s.op = "look" THEN Seen(L, s.table) ELSE a.seen),
         NEW b, Further(a, b, seen), NEW t \in Rebuilt, NEW K, Where(a, t, L, K), TableThere(a, L)
  PROVE  Where(b, t, M, K)
<1>0. a.script \in 0 .. SchemaVersion - 1 /\ b.script = a.script
  <2>1. b.script = a.script
    BY DEF Further
  <2>2. a.script \in 1 .. SchemaVersion - 1
    OBVIOUS
  <2>3. QED
    BY ONLY <2>1, <2>2 DEF SchemaVersion
<1>1. a.line # Len(Scripts[a.script]) /\ b.line > a.line /\ a.line \in Nat /\ b.line \in Nat
  BY <1>0, NotLast
<1>2. CASE a.script \notin Rebuilds
  <2>1. Tame(s) /\ InPlace(L, t, K)
    BY <1>0, <1>1, <1>2, GentleLine DEF Where, Inside
  <2>2. QED
    BY <1>0, <1>2, <2>1, TameInPlace DEF Where, Inside
<1> DEFINE u == Subject(a.script)
           c == CopyLine(a.script)
           m == MakeLine(a.script)
<1>3. ASSUME a.script \in Rebuilds
      PROVE  /\ u \in Rebuilt /\ Sound(s) /\ c \in {3, 4} /\ m \in {2, 3} /\ m < c
             /\ a.line = m => Makes(s, u) /\ s.cols = MadeCols(a.script)
             /\ a.line = c => CopiesTo(s, u)
             /\ a.line = c + 1 => Drops(s, u)
             /\ a.line = c + 2 => Renames(s, u)
             /\ a.line \notin {m, c, c + 1, c + 2} => Tame(s)
             /\ m < a.line /\ a.line < c => s.op = "begin"
  BY <1>1, <1>3, RebuildLine
<1>4. ASSUME a.script \in Rebuilds
      PROVE  /\ a.line \in m .. c + 1 => b.line = a.line + 1
             /\ Inside(b) => a.line \in m .. c + 1
  BY <1>4, RebuildInTurn
<1>5. CASE a.script \in Rebuilds /\ t # u
  <2>1. InPlace(L, t, K)
    BY <1>5 DEF Where
  <2>2. InPlace(M, t, K)
    <3>1. CASE Tame(s)
      BY <2>1, <3>1, TameInPlace
    <3>2. CASE ~Tame(s)
      BY <1>3, <1>5, <2>1, <3>2, OtherInPlace
    <3>3. QED
      BY <3>1, <3>2
  <2>3. QED
    BY <1>0, <1>5, <2>2 DEF Where
<1>6. CASE a.script \in Rebuilds /\ t = u
  <2>0. New[t] # t /\ t \notin Details /\ New[t] \notin Details
    BY Distinct DEF Details
  <2>00. /\ c \in Nat /\ m \in Nat
         /\ Inside(a) <=> a.line \in m + 1 .. c + 2
         /\ Inside(b) <=> b.line \in m + 1 .. c + 2
    BY <1>0, <1>3, <1>6 DEF Inside
  <2> DEFINE At(x, N) ==
                 /\ New[t] \in DOMAIN N.tables /\ MadeCols(a.script) \subseteq N.tables[New[t]].cols
                 /\ x <= c => t \in DOMAIN N.tables /\ Ids(N, t) = K /\ Ids(N, New[t]) = {}
                 /\ x = c + 1 => t \in DOMAIN N.tables /\ Ids(N, New[t]) = K
                 /\ x = c + 2 => t \notin DOMAIN N.tables /\ Ids(N, New[t]) = K
  <2>01. /\ Midway(L, a, K) <=> At(a.line, L)
         /\ Midway(M, b, K) <=> At(b.line, M)
    BY <1>0, <1>6 DEF Midway
  <2> HIDE DEF c, m, At
  <2>02. /\ a.line \in m + 1 .. c + 2 => At(a.line, L)
         /\ a.line \notin m + 1 .. c + 2 => InPlace(L, t, K)
    BY <1>6, <2>00, <2>01 DEF Where
  <2>03. SUFFICES /\ b.line \in m + 1 .. c + 2 => At(b.line, M)
                  /\ b.line \notin m + 1 .. c + 2 => InPlace(M, t, K)
    BY <1>0, <1>6, <2>00, <2>01 DEF Where
  <2>04. IsLibrary(L) /\ ~Fails(s, L) /\ M = After(s, L) /\ t \in Rebuilt
    OBVIOUS
  <2>1. CASE a.line < m
    <3>1. InPlace(M, t, K)
      BY <1>1, <1>3, <1>6, <2>00, <2>02, <2>1, TameInPlace
    <3>2. b.line \notin m + 1 .. c + 2
      BY <1>1, <1>4, <1>6, <2>00, <2>1
    <3>3. QED
      BY <3>1, <3>2
  <2>2. CASE a.line = m
    <3>1. Makes(s, t) /\ InPlace(L, t, K) /\ t \in DOMAIN L.tables /\ s.cols = MadeCols(a.script)
      BY <1>1, <1>3, <1>6, <2>00, <2>02, <2>2 DEF m, TableThere
    <3>2. b.line = m + 1 /\ m + 1 <= c
      BY <1>3, <1>4, <1>6, <2>2, <2>00
    <3>3. /\ DOMAIN M.tables = DOMAIN L.tables \cup {New[t]}
          /\ Ids(M, t) = Ids(L, t) /\ Ids(M, New[t]) = Ids(L, New[t])
          /\ M.tables[New[t]].cols = s.cols
      <4>1. s.op \in {"create", "make"} /\ s.table = New[t] /\ New[t] \notin DOMAIN L.tables
        BY <1>6, <3>1 DEF Makes, InPlace
      <4>2. Sound(s)
        BY <1>3, <1>6
      <4>3. QED
        BY ONLY <2>04, <4>1, <4>2, AfterCreate
    <3>4. Ids(L, New[t]) = {} /\ Ids(L, t) = K
      BY <3>1, IdsOf DEF InPlace
    <3>5. At(b.line, M)
      <4>1. b.line <= c /\ b.line # c + 1 /\ b.line # c + 2
        BY ONLY <2>00, <3>2
      <4>2. /\ New[t] \in DOMAIN M.tables /\ MadeCols(a.script) \subseteq M.tables[New[t]].cols
            /\ t \in DOMAIN M.tables /\ Ids(M, t) = K /\ Ids(M, New[t]) = {}
        BY ONLY <3>1, <3>3, <3>4
      <4>3. QED
        BY <4>1, <4>2 DEF At
    <3>6. QED
      BY <1>3, <1>6, <3>2, <3>5
  <2>3. CASE m < a.line /\ a.line < c
    <3>1. s.op = "begin" /\ b.line = a.line + 1 /\ At(a.line, L) /\ Sound(s)
      BY <1>1, <1>3, <1>4, <1>6, <2>00, <2>02, <2>3
    <3>2. M = L
      BY <3>1, AfterAlter
    <3>3. At(b.line, M)
      BY <1>1, <1>3, <1>6, <2>3, <3>1, <3>2 DEF At
    <3>4. QED
      BY <1>1, <1>3, <1>6, <2>3, <3>1, <3>3
  <2>4. CASE a.line = c
    <3>1. CopiesTo(s, t) /\ b.line = c + 1 /\ At(c, L) /\ Sound(s)
      BY <1>1, <1>3, <1>4, <1>6, <2>00, <2>02, <2>4
    <3>2. /\ DOMAIN M.tables = DOMAIN L.tables
          /\ Ids(M, New[t]) = Ids(L, New[t]) \cup Ids(L, t)
          /\ \A u1 \in DOMAIN M.tables : M.tables[u1].cols = L.tables[u1].cols
      BY ONLY <2>04, <3>1, CopyTakes
    <3>3. /\ New[t] \in DOMAIN L.tables /\ MadeCols(a.script) \subseteq L.tables[New[t]].cols
          /\ t \in DOMAIN L.tables /\ Ids(L, t) = K /\ Ids(L, New[t]) = {}
      BY <2>00, <3>1 DEF At
    <3>4. MadeCols(a.script) \subseteq M.tables[New[t]].cols /\ Ids(M, New[t]) = K
      BY <3>2, <3>3
    <3>5. ~(c + 1 <= c) /\ c + 1 # c + 2
      BY <2>00
    <3>6. At(c + 1, M)
      BY <3>2, <3>3, <3>4, <3>5 DEF At
    <3>7. QED
      BY <1>3, <1>6, <3>1, <3>6
  <2>5. CASE a.line = c + 1
    <3>1. Drops(s, t) /\ b.line = c + 2 /\ At(c + 1, L) /\ Sound(s)
      BY <1>1, <1>3, <1>4, <1>6, <2>00, <2>02, <2>5
    <3>2. /\ DOMAIN M.tables = DOMAIN L.tables \ {t}
          /\ Ids(M, New[t]) = Ids(L, New[t])
          /\ \A u1 \in DOMAIN M.tables : M.tables[u1].cols = L.tables[u1].cols
      BY ONLY <2>04, <3>1, DropLeaves
    <3>3. /\ New[t] \in DOMAIN L.tables /\ MadeCols(a.script) \subseteq L.tables[New[t]].cols
          /\ Ids(L, New[t]) = K
      BY <2>00, <3>1 DEF At
    <3>4. MadeCols(a.script) \subseteq M.tables[New[t]].cols
      BY <2>0, <3>2, <3>3
    <3>5. ~(c + 2 <= c) /\ c + 2 # c + 1
      BY <2>00
    <3>6. At(c + 2, M)
      BY <2>0, <3>2, <3>3, <3>4, <3>5 DEF At
    <3>7. QED
      BY <1>3, <1>6, <3>1, <3>6
  <2>6. CASE a.line = c + 2
    <3>1. Renames(s, t) /\ b.line > c + 2 /\ At(c + 2, L) /\ Sound(s)
      BY <1>1, <1>3, <1>6, <2>00, <2>02, <2>6
    <3>2. DOMAIN M.tables = (DOMAIN L.tables \ {New[t]}) \cup {t} /\ Ids(M, t) = Ids(L, New[t])
      BY <3>1, AfterRename
    <3>3. InPlace(M, t, K)
      BY <1>3, <1>6, <2>0, <3>1, <3>2 DEF At, InPlace
    <3>4. QED
      BY <1>1, <1>3, <1>6, <3>1, <3>3
  <2>7. CASE a.line > c + 2
    <3>1. InPlace(M, t, K)
      BY <1>1, <1>3, <1>6, <2>00, <2>02, <2>7, TameInPlace
    <3>2. QED
      BY <1>1, <2>00, <2>7, <3>1
  <2>8. QED
    BY <1>1, <1>3, <1>6, <2>00, <2>1, <2>2, <2>3, <2>4, <2>5, <2>6, <2>7
<1>7. QED
  BY <1>2, <1>5, <1>6

\* A table keeps its columns until its rebuild drops it.
LEMMA HasAfter ==
  ASSUME NEW a, a.script \in 0 .. SchemaVersion - 1, a.line \in 1 .. Len(Scripts[a.script]),
         NEW s, s = Scripts[a.script][a.line],
         NEW L, IsLibrary(L), ~Fails(s, L), NEW M, M = After(s, L),
         NEW t \in Rebuilt, NEW cols, Has(L, t, cols)
  PROVE  Has(M, t, cols) \/ Stands(a, t, 1)
<1>1. t # "operations" /\ t \notin Details /\ \A u \in Rebuilt : t # New[u]
  BY Distinct DEF Details
<1>2. CASE Tame(s)
  <2>1. Wider(L, M, t)
    BY <1>1, <1>2, TameIsWider
  <2>2. QED
    BY <2>1, WiderFacts
<1>3. CASE M.tables = L.tables
  BY <1>3 DEF Has
<1>4. ASSUME NEW u \in Rebuilt, Makes(s, u), Sound(s) PROVE Has(M, t, cols)
  <2>1. Wider(L, M, t)
    BY <1>4, CreateIsWider DEF Makes
  <2>2. QED
    BY <2>1, WiderFacts
<1>5. ASSUME NEW u \in Rebuilt, CopiesTo(s, u), Sound(s) PROVE Has(M, t, cols)
  <2>1. /\ DOMAIN M.tables = DOMAIN L.tables
        /\ \A x \in DOMAIN M.tables : M.tables[x].cols = L.tables[x].cols
    BY <1>5, CopyTakes
  <2>2. QED
    BY <2>1 DEF Has
<1>6. ASSUME NEW u \in Rebuilt, Drops(s, u), Sound(s), u # t PROVE Has(M, t, cols)
  <2>1. /\ DOMAIN M.tables = DOMAIN L.tables \ {u}
        /\ \A x \in DOMAIN M.tables : M.tables[x].cols = L.tables[x].cols
    <3>1. IsLibrary(L) /\ M = After(s, L)
      OBVIOUS
    <3>2. QED
      BY ONLY <1>6, <3>1, DropLeaves
  <2>2. QED
    BY <1>6, <2>1 DEF Has
<1>7. ASSUME NEW u \in Rebuilt, Renames(s, u), Sound(s) PROVE Has(M, t, cols)
  <2>1. /\ DOMAIN M.tables = (DOMAIN L.tables \ {New[u]}) \cup {u}
        /\ \A x \in DOMAIN M.tables : x # u => M.tables[x] = L.tables[x]
    BY <1>7, AfterRename
  <2>2. u \notin DOMAIN L.tables
    BY <1>7 DEF Renames, Fails
  <2>3. QED
    BY <1>1, <2>1, <2>2 DEF Has
<1>8. QED
  BY <1>2, <1>3, <1>4, <1>5, <1>6, <1>7, KindsOfStatements

\* What the statement of a place does to one that passes by a gain.
LEMMA GainsHere ==
  ASSUME NEW a, a.script \in 1 .. SchemaVersion - 1, a.line \in 1 .. Len(Scripts[a.script]),
         NEW s, s = Scripts[a.script][a.line],
         NEW L, IsLibrary(L), ~Fails(s, L), NEW M, M = After(s, L),
         NEW seen, seen = (IF s.op = "look" THEN Seen(L, s.table) ELSE a.seen),
         "never" \notin seen, NEW b, Further(a, b, seen),
         a.script \in Gains, a.script # 6, a.line <= GainLine(a.script), b.line > GainLine(a.script)
  PROVE  Gained(M, a.script)
<1> DEFINE n == a.script
           g == GainLine(n)
           t == GainTable(n)
           k == Scripts[n][g]
<1>0. n \in 0 .. SchemaVersion - 1 /\ a.line \in Nat /\ b.line \in Nat
  BY NotLast
<1>1. /\ g \in {2, 5} /\ g < Len(Scripts[n])
      /\ Scripts[n][g - 1].op = "look" /\ Scripts[n][g - 1].table = t
      /\ Scripts[n][g - 1].unless = "never" /\ k.table = t
      /\ \/ k.op = "create" /\ k.unless = "table" /\ GainCols(n) = {}
         \/ k.op = "add" /\ k.cols = GainCols(n) /\ GainCols(n) = {k.unless}
  BY GainLines
<1>2. \A i \in a.line + 1 .. b.line - 1 : Scripts[n][i].unless \in seen
  BY DEF Further
<1>3. Sound(s)
  BY <1>0, StatementAt
<1> HIDE DEF g, t, k
<1>4. a.line \in {g - 1, g}
  <2>1. g - 1 \notin a.line + 1 .. b.line - 1
    BY <1>1, <1>2
  <2>2. g - 1 <= b.line - 1
    BY <1>0, <1>1 DEF g
  <2>3. a.line <= g
    BY DEF g
  <2>4. a.line \in Nat /\ b.line \in Nat /\ g \in {2, 5}
    BY <1>0, <1>1
  <2>5. QED
    BY ONLY <2>1, <2>2, <2>3, <2>4
<1>5. CASE a.line = g
  <2>1. s = k
    BY <1>5 DEF k
  <2>2. CASE k.op = "create" /\ GainCols(n) = {}
    <3>1. s.table \in DOMAIN M.tables
      BY <1>3, <2>1, <2>2, AfterCreate
    <3>2. QED
      BY <1>1, <2>1, <2>2, <3>1 DEF Gained, Has, t
  <2>3. CASE k.op = "add" /\ k.cols = GainCols(n)
    <3>1. Has(M, s.table, s.cols)
      BY <1>3, <2>1, <2>3, AfterAlter
    <3>2. QED
      BY <1>1, <2>1, <2>3, <3>1 DEF Gained, t
  <2>4. QED
    BY <1>1, <2>2, <2>3
<1>6. CASE a.line = g - 1
  <2>1. s.op = "look" /\ s.table = t
    BY <1>1, <1>6
  <2>2. seen = Seen(L, t) /\ M = L
    BY <1>3, <2>1, AfterAlter
  <2>3. k.unless \in seen
    <3>1. g \in a.line + 1 .. b.line - 1
      BY <1>0, <1>1, <1>6 DEF g
    <3>2. QED
      BY <1>2, <3>1 DEF k
  <2>4. t \in DOMAIN L.tables /\ k.unless \in {"table"} \cup L.tables[t].cols
    BY <2>2, <2>3 DEF Seen
  <2>5. CASE GainCols(n) = {}
    BY <2>2, <2>4, <2>5 DEF Gained, Has, t
  <2>6. CASE GainCols(n) = {k.unless}
    <3>1. k.unless # "table"
      BY <2>6 DEF GainCols, JobsOf7, n
    <3>2. QED
      BY <2>2, <2>4, <2>6, <3>1 DEF Gained, Has, t
  <2>7. QED
    BY <1>1, <2>5, <2>6
<1>7. QED
  BY <1>4, <1>5, <1>6

\* The copy of the table that is at the rename of its rebuild.
CopyMade(a, L) ==
    a.script \in Rebuilds /\ a.line = CopyLine(a.script) + 2
      => MadeCols(a.script) \subseteq L.tables[New[Subject(a.script)]].cols

LEMMA SensibleAfter ==
  ASSUME NEW a, a.script \in 0 .. SchemaVersion - 1, a.line \in 1 .. Len(Scripts[a.script]),
         NEW s, s = Scripts[a.script][a.line],
         NEW L, IsLibrary(L), ~Fails(s, L), NEW M, M = After(s, L), Sensible(L), CopyMade(a, L)
  PROVE  Sensible(M)
<1>1. /\ "jobs" \in Rebuilt /\ "jobs" # "operations" /\ "jobs" \notin Details
      /\ \A u \in Rebuilt : "jobs" # New[u]
  BY Names, Distinct DEF Details
<1>2. CASE Tame(s)
  <2>1. Wider(L, M, "jobs")
    BY <1>1, <1>2, TameIsWider
  <2>2. QED
    BY <2>1, WiderFacts
<1>3. CASE M.tables = L.tables
  BY <1>3 DEF Has, Sensible
<1>0. ASSUME "jobs" \in DOMAIN M.tables => "jobs" \in DOMAIN L.tables /\ M.tables["jobs"].cols = L.tables["jobs"].cols
      PROVE  Sensible(M)
  BY <1>0 DEF Has, Sensible
<1>4. ASSUME NEW u \in Rebuilt, Makes(s, u), Sound(s) PROVE Sensible(M)
  <2>1. Wider(L, M, "jobs")
    BY <1>4, CreateIsWider DEF Makes
  <2>2. QED
    BY <2>1, WiderFacts
<1>5. ASSUME NEW u \in Rebuilt, CopiesTo(s, u), Sound(s) PROVE Sensible(M)
  <2>1. /\ DOMAIN M.tables = DOMAIN L.tables
        /\ \A x \in DOMAIN M.tables : M.tables[x].cols = L.tables[x].cols
    BY <1>5, CopyTakes
  <2>2. QED
    BY <1>0, <2>1
<1>6. ASSUME NEW u \in Rebuilt, Drops(s, u), Sound(s) PROVE Sensible(M)
  <2>1. /\ DOMAIN M.tables = DOMAIN L.tables \ {u}
        /\ \A x \in DOMAIN M.tables : M.tables[x].cols = L.tables[x].cols
    <3>1. IsLibrary(L) /\ M = After(s, L)
      OBVIOUS
    <3>2. QED
      BY ONLY <1>6, <3>1, DropLeaves
  <2>2. QED
    BY <1>0, <2>1
<1>7. ASSUME NEW u \in Rebuilt, Renames(s, u), Sound(s), Stands(a, u, 2) PROVE Sensible(M)
  <2>1. /\ DOMAIN M.tables = (DOMAIN L.tables \ {New[u]}) \cup {u}
        /\ M.tables[u] = L.tables[New[u]]
        /\ \A x \in DOMAIN M.tables : x # u => M.tables[x] = L.tables[x]
    BY <1>7, AfterRename
  <2>2. CASE u = "jobs"
    <3>1. JobsOf7 \subseteq M.tables["jobs"].cols /\ "jobs" \in DOMAIN M.tables
      BY <1>7, <2>1, <2>2, GainFacts DEF Stands, CopyMade
    <3>2. QED
      BY <3>1 DEF Sensible, Has
  <2>3. CASE u # "jobs"
    BY <1>0, <2>1, <2>3
  <2>4. QED
    BY <2>2, <2>3
<1>8. QED
  BY <1>2, <1>3, <1>4, <1>5, <1>6, <1>7, KindsOfStatements

Past(a, n) == n < a.script \/ (n = a.script /\ a.line > GainLine(n))

\* What the migrations so far have given is still there, or about to be put back
\* by the rename of a rebuild.
GainsKept(a, L) == \A n \in Gains : Past(a, n) => Gained(L, n) \/ Stands(a, GainTable(n), 2)

LEMMA GainsAfter ==
  ASSUME NEW a, a.script \in 1 .. SchemaVersion - 1, a.line \in 1 .. Len(Scripts[a.script]),
         NEW s, s = Scripts[a.script][a.line], Due(a),
         NEW L, IsLibrary(L), ~Fails(s, L), NEW M, M = After(s, L),
         Sensible(L), CopyMade(a, L), GainsKept(a, L),
         NEW seen, seen = (IF s.op = "look" THEN Seen(L, s.table) ELSE a.seen),
         "never" \notin seen, NEW b, Further(a, b, seen)
  PROVE  GainsKept(b, M)
<1>00. a.script \in 0 .. SchemaVersion - 1 /\ b.script = a.script
  <2>1. b.script = a.script
    BY DEF Further
  <2>2. a.script \in 1 .. SchemaVersion - 1
    OBVIOUS
  <2>3. QED
    BY ONLY <2>1, <2>2 DEF SchemaVersion
<1>0. /\ a.script \in 0 .. SchemaVersion - 1 /\ b.script = a.script
      /\ a.line # Len(Scripts[a.script]) /\ b.line > a.line /\ a.line \in Nat /\ b.line \in Nat
  BY <1>00, NotLast
<1> SUFFICES ASSUME NEW n \in Gains, Past(b, n) PROVE Gained(M, n) \/ Stands(b, GainTable(n), 2)
  BY DEF GainsKept
<1> DEFINE t == GainTable(n)
<1>1. n <= a.script /\ n \in 1 .. SchemaVersion - 1 /\ t \in Rebuilt
  <2>1. n \in 1 .. SchemaVersion - 1 /\ t \in Rebuilt
    BY GainFacts
  <2>2. n <= a.script
    <3>1. n < a.script \/ n = a.script
      BY <1>00 DEF Past
    <3>2. n \in 1 .. 26 /\ a.script \in 0 .. 26
      BY <1>00, <2>1 DEF SchemaVersion
    <3>3. QED
      BY <3>1, <3>2
  <2>3. QED
    BY <2>1, <2>2
\* The rename puts the copy in the place of the table, with all it was made with.
<1>2. CASE Stands(a, t, 2)
  <2>1. /\ Renames(s, t) /\ Sound(s) /\ a.script \in Rebuilds /\ Subject(a.script) = t
        /\ a.line = CopyLine(a.script) + 2
    BY <1>2, RebuildLine DEF Stands
  <2>2. t \in DOMAIN M.tables /\ M.tables[t] = L.tables[New[t]]
    BY <1>0, <1>1, <2>1, AfterRename
  <2>3. GainCols(n) \subseteq MadeCols(a.script)
    BY <1>1, <2>1, GainFacts
  <2>4. QED
    BY <2>1, <2>2, <2>3 DEF CopyMade, Gained, Has
<1>3. CASE Gained(L, n)
  <2>1. Has(M, t, GainCols(n)) \/ Stands(a, t, 1)
    BY <1>0, <1>1, <1>3, HasAfter DEF Gained
  <2>2. ASSUME Stands(a, t, 1) PROVE Stands(b, t, 2)
    <3>1. a.script \in Rebuilds /\ Subject(a.script) = t /\ a.line = CopyLine(a.script) + 1
      BY <2>2 DEF Stands
    <3>2. CopyLine(a.script) \in {3, 4} /\ MakeLine(a.script) \in {2, 3} /\ MakeLine(a.script) < CopyLine(a.script)
      BY <3>1, RebuildLine
    <3>3. b.line = a.line + 1
      <4>1. a.line \in MakeLine(a.script) .. CopyLine(a.script) + 1
        BY <1>0, <3>1, <3>2
      <4>2. QED
        BY <3>1, <4>1, RebuildInTurn
    <3>4. QED
      BY <1>0, <3>1, <3>2, <3>3 DEF Stands
  <2>3. QED
    BY <2>1, <2>2 DEF Gained
<1>4. CASE Past(a, n)
  BY <1>2, <1>3, <1>4 DEF GainsKept
<1>5. CASE ~Past(a, n)
  <2>1. n = a.script /\ b.line > GainLine(n) /\ ~(a.line > GainLine(n)) /\ GainLine(n) \in {2, 5}
    BY <1>0, <1>5 DEF Past, GainLine
  <2>2. CASE n # 6
    BY <1>0, <2>1, <2>2, GainsHere
  <2>3. CASE n = 6
    <3>1. a.script = 6 /\ a.script \in Rebuilds /\ GainLine(6) = 5 /\ t = "jobs" /\ GainCols(n) = JobsOf7
      BY <2>1, <2>3 DEF Rebuilds, GainLine, GainTable, GainCols
    <3>2. MakeLine(a.script) = 2 /\ CopyLine(a.script) = 3 /\ Subject(a.script) = "jobs"
      BY <3>1 DEF MakeLine, CopyLine, Subject
    <3>3. a.line <= 5 /\ b.line > 5
      BY <1>0, <2>1, <2>3, <3>1
    <3>4. a.line \in {1, 5}
      <4>1. a.line \in 2 .. 3 + 1 => b.line = a.line + 1
        BY <3>1, <3>2, RebuildInTurn
      <4>2. QED
        BY <1>0, <3>3, <4>1
    <3>5. CASE a.line = 5
      <4>1. Stands(a, t, 2)
        BY <3>1, <3>2, <3>5 DEF Stands
      <4>2. QED
        BY <1>2, <4>1
    <3>6. CASE a.line = 1
      <4>1. Scripts[6] = Migrate6
        BY <1>0, <3>1 DEF Scripts, Migrations
      <4>2. /\ s = Look("jobs") /\ Scripts[6][2].unless = "summary_json"
        BY <3>1, <3>6, <4>1, Migration6, Rebuilders, TaggedFacts
      <4>3. s.op = "look" /\ s.table = "jobs" /\ Sound(s)
        <5>1. Sound(s)
          BY <1>0, StatementAt
        <5>2. s.op = "look" /\ s.table = "jobs"
          BY <4>2 DEF Look, Statement
        <5>3. QED
          BY <5>1, <5>2
      <4>4. M = L /\ seen = Seen(L, "jobs")
        BY <4>3, AfterAlter
      <4>5. "summary_json" \in seen
        <5>1. 2 \in a.line + 1 .. b.line - 1
          BY <1>0, <3>3, <3>6
        <5>2. QED
          BY <3>1, <4>2, <5>1 DEF Further
      <4>6. Has(L, "jobs", {"summary_json"})
        BY <4>4, <4>5 DEF Seen, Has
      <4>7. QED
        BY <3>1, <4>4, <4>6 DEF Sensible, Gained
    <3>7. QED
      BY <3>4, <3>5, <3>6
  <2>4. QED
    BY <2>2, <2>3
<1>6. QED
  BY <1>4, <1>5

\* A library of which o was the first version, at rest and under migration.
Rested(o, L) ==
    /\ \A t \in Rebuilt : InPlace(L, t, FirstIds(o, t))
    /\ o # 0 => Level(L, L.version) /\ Sensible(L)
Migrating(o, a, L) ==
    /\ L.version = a.script
    /\ \A t \in Rebuilt : Where(a, t, L, FirstIds(o, t))
    /\ GainsKept(a, L) /\ Sensible(L)
Fit(o, a, L) == IF a.script = 0 THEN Rested(o, L) ELSE Migrating(o, a, L)

LEMMA RestedStarts ==
  ASSUME NEW o, NEW L, Rested(o, L), NEW a, a.line = 1, a.script \in 0 .. SchemaVersion - 1,
         a.script # 0 => o # 0 /\ L.version = a.script
  PROVE  Fit(o, a, L)
<1>1. CASE a.script = 0
  BY <1>1 DEF Fit
<1>2. CASE a.script # 0
  <2>1. ~Inside(a)
    BY DEF Inside, MakeLine
  <2>2. \A t \in Rebuilt : Where(a, t, L, FirstIds(o, t))
    BY <2>1 DEF Where, Rested
  <2>3. GainsKept(a, L)
    <3>1. \A n \in Gains : Past(a, n) => n < a.script
      BY DEF Past, GainLine
    <3>2. QED
      BY <1>2, <3>1 DEF GainsKept, Rested, Level
  <2>4. QED
    BY <1>2, <2>2, <2>3 DEF Fit, Migrating, Rested
<1>3. QED
  BY <1>1, <1>2

LEMMA OutsideRests ==
  ASSUME NEW o, NEW L, NEW a, Fit(o, a, L), ~Inside(a)
  PROVE  Rested(o, L)
<1>1. CASE a.script = 0
  BY <1>1 DEF Fit
<1>2. CASE a.script # 0
  <2>1. /\ L.version = a.script /\ GainsKept(a, L) /\ Sensible(L)
        /\ \A t \in Rebuilt : Where(a, t, L, FirstIds(o, t))
    BY <1>2 DEF Fit, Migrating
  <2>2. \A t : ~Stands(a, t, 2)
    <3>1. ASSUME NEW t, Stands(a, t, 2) PROVE Inside(a)
      BY <3>1 DEF Stands, Inside, MakeLine, CopyLine
    <3>2. QED
      BY <3>1
  <2>3. Level(L, L.version)
    BY <2>1, <2>2 DEF Level, GainsKept, Past
  <2>4. \A t \in Rebuilt : InPlace(L, t, FirstIds(o, t))
    BY <2>1 DEF Where
  <2>5. QED
    BY <2>1, <2>3, <2>4 DEF Rested
<1>3. QED
  BY <1>1, <1>2

LEMMA RestedOnTame ==
  ASSUME NEW o, NEW L, Rested(o, L), IsLibrary(L), NEW s, Tame(s), ~Fails(s, L), NEW M, M = After(s, L)
  PROVE  Rested(o, M)
<1>1. \A t \in Rebuilt : InPlace(M, t, FirstIds(o, t))
  BY TameInPlace DEF Rested
<1>2. M.version = L.version /\ \A u \in Rebuilt : Wider(L, M, u)
  BY TameIsWider, Distinct
<1>3. ASSUME NEW n \in Gains, Gained(L, n) PROVE Gained(M, n)
  BY <1>2, <1>3, GainFacts, WiderFacts DEF Gained
<1>4. Level(L, L.version) => Level(M, M.version)
  BY <1>2, <1>3 DEF Level
<1>5. Sensible(L) => Sensible(M)
  BY <1>2, WiderFacts, Names
<1>6. QED
  BY <1>1, <1>4, <1>5 DEF Rested

\* Up to its last statement a script keeps the library fit for what comes next.
LEMMA FitAfter ==
  ASSUME NEW o, NEW a, a.script \in 0 .. SchemaVersion - 1, a.line \in 1 .. Len(Scripts[a.script]),
         NEW s, s = Scripts[a.script][a.line], Due(a),
         NEW L, IsLibrary(L), ~Fails(s, L), NEW M, M = After(s, L), Fit(o, a, L),
         NEW seen, seen = (IF s.op = "look" THEN Seen(L, s.table) ELSE a.seen),
         "never" \notin seen, NEW b, Further(a, b, seen)
  PROVE  Fit(o, b, M)
<1>1. b.script = a.script /\ a.line # Len(Scripts[a.script])
  BY NotLast DEF Further
<1>2. CASE a.script = 0
  <2>1. Tame(s)
    BY <1>1, <1>2, GentleLine DEF Rebuilds
  <2>2. QED
    BY <1>1, <1>2, <2>1, RestedOnTame DEF Fit
<1>3. CASE a.script # 0
  <2>1. /\ L.version = a.script /\ GainsKept(a, L) /\ Sensible(L)
        /\ \A t \in Rebuilt : Where(a, t, L, FirstIds(o, t))
    BY <1>3 DEF Fit, Migrating
  <2>2. a.script \in 1 .. SchemaVersion - 1
    BY <1>3 DEF SchemaVersion
  <2>3. ASSUME a.script \in Rebuilds, a.line = MakeLine(a.script)
        PROVE  Subject(a.script) \in DOMAIN L.tables
    <3>1. ~Inside(a)
      BY <2>3 DEF Inside, MakeLine
    <3>2. Level(L, a.script)
      <4>1. \A t : ~Stands(a, t, 2)
        BY <2>3 DEF Stands, MakeLine, CopyLine
      <4>2. QED
        BY <2>1, <4>1 DEF Level, GainsKept, Past
    <3>3. QED
      BY <2>3, <3>2, LevelIsEnough
  <2>4. CopyMade(a, L)
    <3>1. ASSUME a.script \in Rebuilds, a.line = CopyLine(a.script) + 2
          PROVE  MadeCols(a.script) \subseteq L.tables[New[Subject(a.script)]].cols
      <4>1. Inside(a) /\ Subject(a.script) \in Rebuilt
        BY <3>1, GainFacts DEF Inside, MakeLine, CopyLine
      <4>2. QED
        BY <2>1, <4>1 DEF Where, Midway
    <3>2. QED
      BY <3>1 DEF CopyMade
  <2>5. ASSUME NEW t \in Rebuilt PROVE Where(b, t, M, FirstIds(o, t))
    <3>1. TableThere(a, L)
      BY <2>3 DEF TableThere
    <3>2. Where(a, t, L, FirstIds(o, t))
      BY <2>1
    <3>3. QED
      BY <2>2, <3>1, <3>2, WhereAfter
  <2>6. GainsKept(b, M) /\ Sensible(M)
    BY <2>1, <2>2, <2>4, GainsAfter, SensibleAfter
  <2>7. M.version = L.version
    <3>1. CASE Tame(s)
      BY <3>1, TameIsWider
    <3>2. QED
      BY <1>1, <3>1, KindsOfStatements
  <2>8. QED
    BY <1>1, <1>3, <2>1, <2>5, <2>6, <2>7 DEF Fit, Migrating
<1>4. QED
  BY <1>2, <1>3

LEMMA ScriptNumbers ==
  (\A n \in 0 .. SchemaVersion - 1 : n \in Nat) /\ (\A n \in 1 .. SchemaVersion - 1 : n \in Nat)
BY DEF SchemaVersion

\* A script that has ended leaves the library at rest.
LEMMA LastRests ==
  ASSUME NEW o, NEW a, a.script \in 0 .. SchemaVersion - 1, a.line = Len(Scripts[a.script]),
         NEW s, s = Scripts[a.script][a.line],
         NEW L, IsLibrary(L), NEW M, M = After(s, L), Fit(o, a, L), L.version = 0 => o = 0
  PROVE  /\ Rested(o, M) /\ s.op \in {"version", "stamp"}
         /\ a.script # 0 => M.version = a.script + 1
<1>1. s = Closing(a.script) /\ s.op \in {"version", "stamp"}
  BY ScriptShapes, ClosingFacts DEF Ended
<1>2. /\ M.tables = L.tables
      /\ a.script = 0 => M.version = IF L.version = 0 THEN SchemaVersion ELSE L.version
      /\ a.script # 0 => M.version = IF L.version = 0 THEN L.version ELSE a.script + 1
  BY <1>1, ClosingKeepsTables
<1>3. /\ \A t, K : InPlace(L, t, K) => InPlace(M, t, K)
      /\ \A n : Gained(L, n) => Gained(M, n)
      /\ Sensible(L) => Sensible(M)
  BY <1>2 DEF InPlace, Ids, TableOf, Gained, Has, Sensible
<1>4. CASE a.script = 0
  <2>1. Rested(o, L)
    BY <1>4 DEF Fit
  <2>2. o # 0 => M.version = L.version
    BY <1>2, <1>4
  <2>3. QED
    BY <1>1, <1>3, <1>4, <2>1, <2>2 DEF Rested, Level
<1>5. CASE a.script # 0
  <2>1. L.version = a.script /\ GainsKept(a, L) /\ Sensible(L)
    BY <1>5 DEF Fit, Migrating
  <2>2. M.version = a.script + 1
    BY <1>2, <1>5, <2>1
  <2>3. ~Inside(a)
    <3>1. ASSUME a.script \in Rebuilds PROVE a.line > CopyLine(a.script) + 2 /\ CopyLine(a.script) \in {3, 4}
      <4>1. a.line \in 1 .. Len(Scripts[a.script])
        BY Lines
      <4>2. QED
        BY <3>1, <4>1, RebuildLine
    <3>2. QED
      BY <3>1 DEF Inside, MakeLine
  <2>4. Rested(o, L)
    BY <2>3, OutsideRests
  <2>5. \A t : ~Stands(a, t, 2)
    BY <2>3 DEF Stands, Inside, MakeLine, CopyLine
  <2>6. ASSUME NEW n \in Gains, n < a.script + 1 PROVE Gained(L, n)
    <3>1. n \in Nat /\ a.script \in Nat
      BY GainFacts, ScriptNumbers
    <3>2. CASE n < a.script
      BY <2>1, <2>5, <3>2 DEF GainsKept, Past
    <3>3. CASE n = a.script
      <4>1. a.line > GainLine(n)
        <5>1. CASE n = 6
          <6>1. a.line > CopyLine(6) + 2 /\ CopyLine(6) = 3 /\ GainLine(6) = 5
            <7>1. a.script = 6 /\ a.script \in Rebuilds /\ a.line \in 1 .. Len(Scripts[a.script])
              BY <3>3, <5>1, Lines DEF Rebuilds
            <7>2. CopyLine(6) = 3 /\ GainLine(6) = 5
              BY DEF CopyLine, GainLine
            <7>3. Len(Scripts[a.script]) > CopyLine(a.script) + 2
              BY <7>1, RebuildLine
            <7>4. QED
              BY <7>1, <7>2, <7>3
          <6>2. QED
            BY <5>1, <6>1
        <5>2. CASE n # 6
          <6>1. GainLine(n) \in {2, 5} /\ GainLine(n) < Len(Scripts[n])
            BY <5>2, GainLines
          <6>2. Len(Scripts[n]) \in Nat
            BY <3>3, Lines
          <6>3. QED
            BY <3>3, <6>1, <6>2
        <5>3. QED
          BY <5>1, <5>2
      <4>2. QED
        BY <2>1, <2>5, <3>3, <4>1 DEF GainsKept, Past
    <3>4. QED
      BY <2>6, <3>1, <3>2, <3>3
  <2>7. QED
    BY <1>1, <1>3, <1>5, <2>1, <2>2, <2>4, <2>6 DEF Rested, Level
<1>6. QED
  BY <1>4, <1>5

\* No statement of a rebuild fails on what the migrations before it and its own
\* statements have left; after the copy of migration 24 none does at all.
LEMMA RebuildHolds ==
  ASSUME NEW o, NEW a, a.script \in 1 .. SchemaVersion - 1, a.line \in 1 .. Len(Scripts[a.script]),
         NEW s, s = Scripts[a.script][a.line],
         NEW L, IsLibrary(L), Migrating(o, a, L), Inside(a) \/ (a.script = 24 /\ a.line >= 4)
  PROVE  ~Fails(s, L)
<1>0. a.script \in Rebuilds
  BY DEF Inside, Rebuilds
<1> DEFINE t == Subject(a.script)
           c == CopyLine(a.script)
           m == MakeLine(a.script)
<1>1. /\ t \in Rebuilt /\ Sound(s) /\ c \in {3, 4} /\ m \in {2, 3} /\ m < c
      /\ a.line = c => CopiesTo(s, t) /\ s.cols = NeededCols(a.script)
      /\ a.line = c + 1 => Drops(s, t)
      /\ a.line = c + 2 => Renames(s, t)
      /\ m < a.line /\ a.line < c => s.op = "begin"
  BY <1>0, RebuildLine
<1>2. a.line # c + 2 => Level(L, a.script)
  <2>1. ASSUME a.line # c + 2 PROVE \A u : ~Stands(a, u, 2)
    BY <2>1 DEF Stands
  <2>2. QED
    BY <2>1 DEF Migrating, Level, GainsKept, Past
<1>3. a.line \in Nat
  BY <1>0, RebuildLine
<1>4. CASE Inside(a)
  <2>1. /\ New[t] \in DOMAIN L.tables
        /\ a.line <= c => t \in DOMAIN L.tables /\ Ids(L, New[t]) = {}
        /\ a.line = c + 1 => t \in DOMAIN L.tables
        /\ a.line = c + 2 => t \notin DOMAIN L.tables
    BY <1>1, <1>4 DEF Migrating, Where, Midway
  <2>2. a.line \in m + 1 .. c + 2
    BY <1>4 DEF Inside
  <2> HIDE DEF c, m, t
  <2>3. CASE a.line = c
    <3>1. s.op = "copy" /\ s.table = t /\ s.arg = New[t] /\ s.cols = NeededCols(a.script)
      BY <1>1, <2>3 DEF CopiesTo
    <3>2. Has(L, t, s.cols)
      <4>1. Level(L, a.script)
        BY <1>1, <1>2, <2>3
      <4>2. QED
        BY <1>0, <3>1, <4>1, LevelIsEnough DEF t
    <3>3. New[t] \in DOMAIN L.tables /\ Ids(L, t) \cap Ids(L, New[t]) = {}
      BY <1>1, <2>1, <2>3
    <3>4. \A r \in TableOf(L, t).rows : Copied(L, r).ref \in Ids(L, "jobs") \cup {Null}
      <4>1. \A r \in TableOf(L, t).rows : r = [id |-> r.id, ref |-> r.ref]
        BY DEF IsLibrary, IsTable, TableOf, NoTable
      <4>2. QED
        BY <4>1 DEF Copied
    <3>5. QED
      BY <3>1, <3>2, <3>3, <3>4 DEF Fails
  <2>4. CASE a.line = c + 1
    <3>1. t \in DOMAIN L.tables /\ Drops(s, t)
      BY <1>1, <2>1, <2>4
    <3>2. QED
      BY <3>1 DEF Fails, Drops
  <2>5. CASE a.line = c + 2
    <3>1. t \notin DOMAIN L.tables /\ New[t] \in DOMAIN L.tables /\ Renames(s, t)
      BY <1>1, <2>1, <2>5
    <3>2. QED
      BY <3>1 DEF Fails, Renames
  <2>6. CASE a.line < c
    <3>1. s.op = "begin"
      BY <1>1, <1>3, <2>2, <2>6
    <3>2. QED
      BY <3>1 DEF Fails
  <2>7. QED
    BY <1>1, <1>3, <2>2, <2>3, <2>4, <2>5, <2>6
<1>5. CASE a.script = 24 /\ a.line >= 4 /\ ~Inside(a)
  <2>1. c = 4 /\ m = 2 /\ t = "processing_stats"
    BY <1>5 DEF CopyLine, MakeLine, Subject
  <2>2. a.line > 6
    <3>1. a.line \notin 3 .. 6
      BY <1>0, <1>5, <2>1 DEF Inside
    <3>2. QED
      BY <1>3, <1>5, <3>1
  <2>3. Has(L, "processing_stats", {"job_id"})
    <3>1. Level(L, 24)
      BY <1>2, <1>5, <2>1, <2>2
    <3>2. QED
      BY <1>0, <1>5, <3>1, LevelIsEnough
  <2>4. Scripts[24] = Migrate24 /\ Len(Migrate24) = 10
    BY Migration24 DEF Scripts, Migrations, SchemaVersion
  <2>5. a.line \in 7 .. 10
    BY <1>3, <1>5, <2>2, <2>4
  <2>6. \/ s.op = "index" /\ s.table = "processing_stats" /\ s.cols \subseteq {"job_id"}
        \/ s.op = "version"
    <3>1. /\ Migrate24[7] = Tagged("fk_job", Index("processing_stats", "ix", {}))
          /\ Migrate24[8] = Tagged("fk_job", Index("processing_stats", "ix_job", {"job_id"}))
          /\ Migrate24[9] = Tagged("fk_job", Index("processing_stats", "ix_file_time", {}))
          /\ Migrate24[10] = Version(25)
      BY Migration24
    <3>2. \A name, cols : LET i == Tagged("fk_job", Index("processing_stats", name, cols))
                          IN  i.op = "index" /\ i.table = "processing_stats" /\ i.cols = cols
      BY DEF Tagged, Index, Statement
    <3>3. Version(25).op = "version"
      BY DEF Version, Statement
    <3>4. s = Migrate24[a.line] /\ a.line \in {7, 8, 9, 10}
      BY <1>5, <2>4, <2>5
    <3>5. QED
      BY <3>1, <3>2, <3>3, <3>4
  <2>7. QED
    BY <2>3, <2>6 DEF Fails, Has
<1>6. QED
  BY <1>4, <1>5

\* Libraries of every version are at rest.
LEMMA RestedAtFirst ==
  ASSUME NEW o \in Starts
  PROVE  Rested(o, Originals[o])
<1>1. o \in 0 .. SchemaVersion /\ Originals[o] = LibraryOf(o) /\ FirstIds(o, "jobs") = Ids(LibraryOf(o), "jobs")
  BY UpgradeAssumption DEF Originals, FirstIds
<1>2. \A t \in Rebuilt : Ids(Originals[o], t) = FirstIds(o, t)
  BY DEF FirstIds
<1>3. \A t \in Rebuilt : New[t] \notin DOMAIN LibraryOf(o).tables
  <2>1. \A t \in Rebuilt : New[t] \notin DOMAIN Since
    BY Names DEF Since
  <2>2. DOMAIN LibraryOf(o).tables \subseteq DOMAIN Since
    BY DEF LibraryOf, EmptyLibrary, TablesOf
  <2>3. QED
    BY <2>1, <2>2
<1>4. ASSUME o # 0 PROVE Level(LibraryOf(o), LibraryOf(o).version) /\ Sensible(LibraryOf(o))
  <2>1. /\ LibraryOf(o).version = o /\ DOMAIN LibraryOf(o).tables = TablesOf(o)
        /\ \A t \in TablesOf(o) : LibraryOf(o).tables[t].cols = ColsOf(o, t)
    BY <1>4 DEF LibraryOf
  <2>2. /\ Since["jobs"].table = 5 /\ Since["transcription_results"].table = 6
        /\ Since["processing_stats"].table = 18
        /\ {"jobs", "transcription_results", "processing_stats"} \subseteq DOMAIN Since
    BY DEF Since
  <2>3. /\ "files_affected_json" \in DOMAIN Since["jobs"] /\ Since["jobs"]["files_affected_json"] = 7
        /\ "summary_json" \in DOMAIN Since["jobs"] /\ Since["jobs"]["summary_json"] = 7
        /\ "log_path" \in DOMAIN Since["jobs"] /\ Since["jobs"]["log_path"] = 8
    BY DEF Since
  <2>4. /\ "encoder_type" \in DOMAIN Since["processing_stats"] /\ Since["processing_stats"]["encoder_type"] = 21
        /\ "job_id" \in DOMAIN Since["processing_stats"] /\ Since["processing_stats"]["job_id"] = 23
    BY DEF Since
  <2>5. o \in Nat
    BY <1>1
  <2>6. ASSUME NEW n \in Gains, n < o PROVE Gained(LibraryOf(o), n)
    <3>1. GainTable(n) \in TablesOf(o)
      BY <2>2, <2>5, <2>6 DEF Gains, GainTable, TablesOf
    <3>2. GainCols(n) \subseteq ColsOf(o, GainTable(n))
      BY <2>3, <2>4, <2>5, <2>6 DEF Gains, GainTable, GainCols, ColsOf, JobsOf7
    <3>3. QED
      BY <2>1, <3>1, <3>2 DEF Gained, Has
  <2>7. Level(LibraryOf(o), LibraryOf(o).version)
    BY <2>1, <2>6 DEF Level
  <2>8. Sensible(LibraryOf(o))
    BY <2>1, <2>3, <2>5 DEF Sensible, Has, ColsOf, JobsOf7
  <2>9. QED
    BY <2>7, <2>8
<1>5. QED
  BY <1>1, <1>2, <1>3, <1>4 DEF Rested, InPlace

\* As long as no process has died and no two have opened the library at once,
\* one process sees what the file or its own transaction holds, and finds it fit
\* for its next statement; and should that statement fail, the file is at rest,
\* but for the transaction of migration 24, in which no statement fails.
Content == IF writer = NoProcess THEN lib ELSE draft
Copying(a) == a.script = 24 /\ a.line >= 4

Settled ==
    /\ \A p, q \in Processes : Opening(p) /\ Opening(q) => p = q
    /\ Idle => Rested(origin, lib)
    /\ \A p \in Processes : Opening(p) => Fit(origin, at[p], Content)
    /\ writer # NoProcess => Rested(origin, lib) \/ Copying(at[writer])

CalmInv == crashes = 0 /\ ~overlap => Settled

LEMMA CalmInit == Init => CalmInv
<1> SUFFICES ASSUME Init PROVE Settled
  BY DEF CalmInv
<1>1. Rested(origin, lib) /\ writer = NoProcess
  BY RestedAtFirst DEF Init
<1>2. \A p \in Processes : ~Opening(p)
  BY DEF Init, Opening, Place, Busy
<1>3. QED
  BY <1>1, <1>2 DEF Settled

\* The process that holds a transaction is the one that opens the library.
LEMMA SoleWriter ==
  ASSUME TypesInv, Settled
  PROVE  /\ Idle => writer = NoProcess
         /\ \A p \in Processes : Opening(p) => writer \in {p, NoProcess} /\ View(p) = Content
<1>1. writer # NoProcess => writer \in Processes /\ Opening(writer)
  BY DEF TypesInv, WriterInv, Opening, Busy
<1>2. QED
  BY <1>1, UpgradeAssumption DEF Settled, Idle, View, Content

LEMMA ExecuteSettled ==
  ASSUME TypesInv, VersionsInv, Settled, NEW p \in Processes, Execute(p)
  PROVE  Settled'
<1> DEFINE a == at[p]
           s == Scripts[a.script][a.line]
           V == View(p)
           new == After(s, V)
           b == at'[p]
           opened == writer = p \/ s.op = "begin"
           ends == s.op \in {"version", "stamp", "commit"}
<1>1. /\ StartedPlace(a) /\ a.stage \in {"ensure", "initialize"} /\ IsLibrary(V)
      /\ a.script \in 0 .. SchemaVersion - 1 /\ a.line \in 1 .. Len(Scripts[a.script])
      /\ ~Fails(s, V) /\ origin' = origin /\ V \in AllSights
      /\ \A q \in Processes \ {p} : at'[q] = at[q]
      /\ \E seen : /\ seen = IF s.op = "look" THEN Seen(V, s.table) ELSE a.seen
                   /\ "never" \notin seen
                   /\ b = AfterStatement(a, seen)
                   /\ \/ b = AfterScript(a) /\ a.line = Len(Scripts[a.script])
                      \/ Further(a, b, seen)
  BY Executed
<1>2. /\ lib' = IF opened /\ ~ends THEN lib ELSE new
      /\ writer' = CASE opened /\ ~ends -> p
                     [] opened /\ ends -> NoProcess
                     [] OTHER -> writer
      /\ draft' = CASE opened /\ ~ends -> new
                    [] opened /\ ends -> EmptyLibrary
                    [] OTHER -> draft
  BY DEF Execute
<1>3. /\ Opening(p) /\ Fit(origin, a, V) /\ writer \in {p, NoProcess} /\ p # NoProcess
      /\ \A q \in Processes \ {p} : ~Opening(q)
  <2>1. Opening(p)
    BY <1>1 DEF Opening, Busy
  <2>2. V = Content /\ writer \in {p, NoProcess}
    BY <2>1, SoleWriter
  <2>3. QED
    BY <2>1, <2>2, UpgradeAssumption DEF Settled
<1>4. Due(a) /\ (V.version = 0 => origin = 0)
  <2>1. VersionSince(V) /\ origin \in 0 .. SchemaVersion /\ Due(a)
    BY <1>1 DEF VersionsInv
  <2>2. QED
    BY <2>1 DEF VersionSince
<1>5. Content' = new
  BY <1>2, <1>3 DEF Content
<1>6. \A q \in Processes \ {p} : ~Opening(q)'
  BY <1>1, <1>3 DEF Opening
<1> HIDE DEF new, V, s, b
\* Further down the script.
<1>7. ASSUME NEW seen, seen = (IF s.op = "look" THEN Seen(V, s.table) ELSE a.seen), "never" \notin seen,
             Further(a, b, seen)
      PROVE  Settled'
  <2>1. Fit(origin, b, new)
    <3>1. s = Scripts[a.script][a.line] /\ new = After(s, V)
      BY DEF s, new
    <3>2. /\ a.script \in 0 .. SchemaVersion - 1 /\ a.line \in 1 .. Len(Scripts[a.script])
          /\ IsLibrary(V) /\ ~Fails(s, V) /\ Fit(origin, a, V) /\ Due(a)
      BY <1>1, <1>3, <1>4
    <3> HIDE DEF a
    <3>3. QED
      BY <1>4, <1>7, <3>1, <3>2, FitAfter
  <2>2. Opening(p)' /\ ~Idle'
    BY <1>1, <1>7 DEF Opening, Idle, Busy, Further, b
  <2>3. /\ b.script = a.script /\ b.line > a.line /\ a.line # Len(Scripts[a.script])
        /\ a.line \in Nat /\ b.line \in Nat
    <3>1. b.script = a.script
      BY <1>7 DEF Further
    <3>2. QED
      BY <1>1, <1>7, <3>1, NotLast
  <2>4. writer' # NoProcess => Rested(origin, lib') \/ Copying(b)
    <3> SUFFICES ASSUME writer' # NoProcess PROVE Rested(origin, lib') \/ Copying(b)
      OBVIOUS
    <3>1. opened /\ ~ends /\ lib' = lib
      BY <1>2, <1>3
    <3>2. CASE writer = p
      <4>1. Rested(origin, lib) \/ Copying(a)
        BY <1>3, <3>2 DEF Settled
      <4>2. Copying(a) => Copying(b)
        BY <2>3 DEF Copying
      <4>3. QED
        BY <3>1, <4>1, <4>2
    <3>3. CASE writer = NoProcess
      <4>1. s.op = "begin" /\ V = lib
        BY <1>3, <3>1, <3>3 DEF View, V
      <4>2. CASE ~Inside(a)
        BY <1>3, <3>1, <4>1, <4>2, OutsideRests
      <4>3. CASE Inside(a)
        <5>1. /\ a.script \in Rebuilds
              /\ a.line \in MakeLine(a.script) + 1 .. CopyLine(a.script) + 2
          BY <4>3 DEF Inside
        <5>2. a.script = 24 /\ a.line = 3
          <6>1. /\ a.line = CopyLine(a.script) => s.op = "copy"
                /\ a.line = CopyLine(a.script) + 1 => s.op = "drop"
                /\ a.line = CopyLine(a.script) + 2 => s.op = "rename"
                /\ MakeLine(a.script) < a.line /\ a.line < CopyLine(a.script) => a.script = 24 /\ a.line = 3
                /\ MakeLine(a.script) \in Nat /\ CopyLine(a.script) \in Nat
            <7>1. s = Scripts[a.script][a.line]
              BY DEF s
            <7>2. /\ CopyLine(a.script) \in {3, 4} /\ MakeLine(a.script) \in {2, 3}
                  /\ a.line = CopyLine(a.script) => CopiesTo(s, Subject(a.script))
                  /\ a.line = CopyLine(a.script) + 1 => Drops(s, Subject(a.script))
                  /\ a.line = CopyLine(a.script) + 2 => Renames(s, Subject(a.script))
                  /\ MakeLine(a.script) < a.line /\ a.line < CopyLine(a.script)
                       => a.script = 24 /\ a.line = 3
              <8>1. a.script \in Rebuilds /\ a.line \in 1 .. Len(Scripts[a.script])
                BY <1>1, <5>1
              <8> HIDE DEF a
              <8>2. QED
                BY <7>1, <8>1, RebuildLine
            <7>3. QED
              BY <7>2 DEF CopiesTo, Drops, Renames
          <6>2. QED
            BY <4>1, <5>1, <6>1
        <5>3. QED
          BY <2>3, <5>2 DEF Copying
      <4>4. QED
        BY <4>2, <4>3
    <3>4. QED
      BY <1>3, <3>2, <3>3
  <2>5. \A q \in Processes : Opening(q)' => Fit(origin, at'[q], new)
    BY <1>6, <2>1 DEF b
  <2>6. writer' # NoProcess => writer' = p
    BY <1>2, <1>3
  <2>7. QED
    BY <1>1, <1>5, <1>6, <2>2, <2>4, <2>5, <2>6 DEF Settled, b
\* At the end of the script.
<1>8. ASSUME b = AfterScript(a), a.line = Len(Scripts[a.script]) PROVE Settled'
  <2>1. /\ Rested(origin, new) /\ s.op \in {"version", "stamp"}
        /\ a.script # 0 => new.version = a.script + 1
    <3>1. s = Scripts[a.script][a.line] /\ new = After(s, V)
      BY DEF s, new
    <3>2. /\ a.script \in 0 .. SchemaVersion - 1 /\ a.line = Len(Scripts[a.script])
          /\ IsLibrary(V) /\ Fit(origin, a, V) /\ (V.version = 0 => origin = 0)
      BY <1>1, <1>3, <1>4, <1>8
    <3> HIDE DEF a
    <3>3. QED
      BY <3>1, <3>2, LastRests
  <2>2. writer' = NoProcess /\ lib' = new
    BY <1>2, <1>3, <2>1
  <2>3. Fit(origin, b, new)
    <3>1. CASE a.stage = "ensure" \/ a.script \in {0, SchemaVersion - 1}
      <4>1. b.line = 1 /\ b.script = 0
        BY <1>8, <3>1 DEF AfterScript, Place
      <4>2. QED
        BY <2>1, <4>1 DEF Fit
    <3>2. CASE ~(a.stage = "ensure" \/ a.script \in {0, SchemaVersion - 1})
      <4>1. b.line = 1 /\ b.script = a.script + 1
        BY <1>8, <3>2 DEF AfterScript, Place
      <4>2. a.script \in 1 .. SchemaVersion - 2 /\ origin # 0
        BY <1>1, <1>4, <3>2 DEF Due, SchemaVersion
      <4>3. b.script \in 0 .. SchemaVersion - 1 /\ new.version = b.script
        BY <2>1, <4>1, <4>2 DEF SchemaVersion
      <4>4. QED
        BY <2>1, <4>1, <4>2, <4>3, RestedStarts
    <3>3. QED
      BY <3>1, <3>2
  <2>4. \A q \in Processes : Opening(q)' => Fit(origin, at'[q], new)
    BY <1>6, <2>3 DEF b
  <2>5. QED
    BY <1>1, <1>5, <1>6, <2>1, <2>2, <2>4 DEF Settled
<1>9. QED
  BY <1>1, <1>7, <1>8

\* A process goes to a place where it executes nothing yet, or stops, while the
\* file is at rest.
LEMMA MoveSettled ==
  ASSUME TypesInv, Settled, NEW p \in Processes, \A q \in Processes \ {p} : ~Opening(q),
         Rested(origin, lib), NEW b, at' = [at EXCEPT ![p] = b], Fit(origin, b, lib),
         writer' = NoProcess, lib' = lib, origin' = origin
  PROVE  Settled'
<1>1. at'[p] = b /\ \A q \in Processes \ {p} : at'[q] = at[q]
  BY DEF TypesInv, PlacesInv
<1>2. Content' = lib /\ \A q \in Processes \ {p} : ~Opening(q)'
  BY <1>1 DEF Content, Opening
<1>3. QED
  BY <1>1, <1>2 DEF Settled

LEMMA CalmStep == TypesInv /\ VersionsInv /\ CalmInv /\ [Next]_vars => CalmInv'
<1> SUFFICES ASSUME TypesInv, VersionsInv, CalmInv, [Next]_vars, crashes' = 0, ~overlap'
             PROVE  Settled'
  BY DEF CalmInv
<1>1. CASE UNCHANGED vars
  BY <1>1 DEF vars, CalmInv, Settled, Idle, Opening, Content
<1>2. ASSUME NEW p \in Processes, NEW kind \in Kinds, Open(p, kind) PROVE Settled'
  <2> DEFINE b == Place(kind, IF kind = "upgrade --db" THEN "read" ELSE "ensure", 0)
  <2>1. /\ Settled /\ Idle /\ at' = [at EXCEPT ![p] = b] /\ lib' = lib /\ origin' = origin
        /\ writer' = writer
    BY <1>2 DEF Open, CalmInv
  <2>2. Rested(origin, lib) /\ writer = NoProcess /\ \A q \in Processes : ~Opening(q)
    BY <2>1, SoleWriter DEF Settled, Idle
  <2>3. Fit(origin, b, lib)
    BY <2>2 DEF Fit, Place
  <2> HIDE DEF b
  <2>4. QED
    BY <2>1, <2>2, <2>3, MoveSettled
<1>3. ASSUME NEW p \in Processes, ReadVersion(p) PROVE Settled'
  <2> DEFINE b == AfterVersion(at[p], lib.version)
  <2>1. /\ Settled /\ at[p].stage = "read" /\ at' = [at EXCEPT ![p] = b] /\ lib' = lib
        /\ origin' = origin /\ writer' = writer
    BY <1>3 DEF ReadVersion, CalmInv
  <2>2. writer = NoProcess /\ Opening(p) /\ \A q \in Processes \ {p} : ~Opening(q)
    <3>1. Opening(p)
      BY <2>1 DEF Opening, Busy
    <3>2. writer # p
      BY <2>1, UpgradeAssumption DEF TypesInv, WriterInv
    <3>3. QED
      BY <2>1, <3>1, <3>2, SoleWriter DEF Settled
  <2>3. Rested(origin, lib)
    <3>1. at[p].script = 0
      BY <2>1 DEF VersionsInv, Due
    <3>2. QED
      BY <2>1, <2>2, <3>1 DEF Settled, Content, Fit
  <2>4. Fit(origin, b, lib)
    <3>1. VersionSince(lib) /\ lib.version \in 0 .. SchemaVersion /\ origin \in 0 .. SchemaVersion
      BY <2>2 DEF VersionsInv, AllSights, TypesInv, LibrariesInv, IsLibrary
    <3>2. CASE lib.version >= SchemaVersion
      BY <2>3, <3>2 DEF AfterVersion, Place, Fit
    <3>3. CASE ~(lib.version >= SchemaVersion)
      <4>1. b.line = 1 /\ b.script = lib.version /\ lib.version \in 0 .. SchemaVersion - 1
        BY <3>1, <3>3 DEF AfterVersion, Place, SchemaVersion
      <4>2. lib.version # 0 => origin # 0
        BY <3>1, <3>3 DEF VersionSince, SchemaVersion
      <4> HIDE DEF b
      <4>3. QED
        BY <2>3, <4>1, <4>2, RestedStarts
    <3>4. QED
      BY <3>2, <3>3
  <2> HIDE DEF b
  <2>5. QED
    BY <2>1, <2>2, <2>3, <2>4, MoveSettled
<1>4. ASSUME NEW p \in Processes, Execute(p) PROVE Settled'
  <2>1. crashes' = crashes /\ overlap' = overlap
    BY <1>4 DEF Execute
  <2>2. QED
    BY <1>4, <2>1, ExecuteSettled DEF CalmInv
<1>5. ASSUME NEW p \in Processes, Raise(p) PROVE Settled'
  <2> DEFINE a == at[p]
             s == Scripts[a.script][a.line]
             b == Place(a.kind, IF a.stage = "ensure" /\ a.kind = "upgrade" THEN "read" ELSE "failed", 0)
  <2>1. /\ Settled /\ a.stage \in {"ensure", "initialize"} /\ Fails(s, View(p))
        /\ at' = [at EXCEPT ![p] = b] /\ lib' = lib /\ origin' = origin
        /\ writer' = IF writer = p THEN NoProcess ELSE writer
    BY <1>5 DEF Raise, RollBack, CalmInv
  <2>2. /\ Opening(p) /\ writer \in {p, NoProcess} /\ View(p) = Content /\ p # NoProcess
        /\ Fit(origin, a, Content) /\ \A q \in Processes \ {p} : ~Opening(q)
    <3>1. Opening(p)
      BY <2>1 DEF Opening, Busy
    <3>2. writer \in {p, NoProcess} /\ View(p) = Content
      BY <2>1, <3>1, SoleWriter
    <3>3. QED
      BY <2>1, <3>1, <3>2, UpgradeAssumption DEF Settled
  <2>3. /\ a.script \in 0 .. SchemaVersion - 1 /\ a.line \in 1 .. Len(Scripts[a.script])
        /\ IsLibrary(Content)
    BY <2>2, ViewIsLibrary DEF TypesInv, PlacesInv, StartedPlace
  <2>4. ~(Inside(a) \/ Copying(a))
    <3>1. ASSUME Inside(a) \/ Copying(a) PROVE FALSE
      <4>1. a.script # 0
        BY <3>1 DEF Inside, Copying, Rebuilds
      <4>2. a.script \in 1 .. SchemaVersion - 1 /\ Migrating(origin, a, Content)
        BY <2>2, <2>3, <4>1 DEF Fit, SchemaVersion
      <4>3. s = Scripts[a.script][a.line]
        OBVIOUS
      <4> HIDE DEF s, a
      <4>4. ~Fails(s, Content)
        BY <2>3, <3>1, <4>2, <4>3, RebuildHolds DEF Copying
      <4>5. QED
        BY <2>1, <2>2, <4>4
    <3>2. QED
      BY <3>1
  <2>5. Rested(origin, lib)
    <3>1. CASE writer = NoProcess
      <4>1. Content = lib
        BY <3>1 DEF Content
      <4>2. QED
        BY <2>2, <2>4, <4>1, OutsideRests
    <3>2. CASE writer # NoProcess
      BY <2>1, <2>2, <2>4, <3>2 DEF Settled
    <3>3. QED
      BY <3>1, <3>2
  <2>6. Fit(origin, b, lib)
    BY <2>5 DEF Fit, Place
  <2>7. writer' = NoProcess
    BY <2>1, <2>2
  <2> HIDE DEF b
  <2>8. QED
    BY <2>1, <2>2, <2>5, <2>6, <2>7, MoveSettled
<1>6. ASSUME NEW p \in Processes, Crash(p) PROVE Settled'
  <2>1. crashes' = crashes + 1 /\ crashes \in 0 .. MaxCrashes
    BY <1>6 DEF Crash, TypesInv, CountsInv
  <2>2. QED
    BY <2>1, UpgradeAssumption
<1>7. QED
  BY <1>1, <1>2, <1>3, <1>4, <1>5, <1>6 DEF Next

\* Processes that open the library one after another, none of which dies, leave
\* the rows of every rebuilt table in it and no copy behind; the details of
\* statistics are lost to migration 24 only, their job to migration 25.  All
\* rows are in the file whatever processes do, see RowsAreKept.
THEOREM UpgradesKeepRows == Spec => []RowsKept
<1>1. VersionsInv /\ DetailsInv /\ CalmInv => LeftInPlace
  <2> SUFFICES ASSUME DetailsInv, CalmInv, Idle, crashes = 0, ~overlap
               PROVE  /\ Leftovers = {}
                      /\ \A t \in Rebuilt : Ids(lib, t) = Ids(Original, t)
                      /\ origin > 24 => \A t \in {"action_results", "performance_metrics"} :
                                          TableOf(lib, t).rows = TableOf(Original, t).rows
                      /\ origin > 25 => TableOf(lib, "processing_stats").rows
                                          = TableOf(Original, "processing_stats").rows
    BY DEF LeftInPlace
  <2>1. \A t \in Rebuilt : New[t] \notin DOMAIN lib.tables /\ Ids(lib, t) = Ids(Original, t)
    BY DEF CalmInv, Settled, Rested, InPlace, FirstIds, Original
  <2>2. DetailsKept(lib)
    BY DEF DetailsInv, AllSights
  <2>3. QED
    BY <2>1, <2>2 DEF Leftovers, DetailsKept, Details
<1>2. Spec => [](TypesInv /\ VersionsInv /\ DetailsInv /\ CalmInv)
  BY TypesInit, TypesStep, VersionsInit, VersionsStep, DetailsInit, DetailsStep, CalmInit, CalmStep,
     PTL DEF Spec
<1>3. Spec => []LeftInPlace
  BY <1>1, <1>2, PTL
<1>4. RowsKept <=> RowsStayInTheFile /\ LeftInPlace
  BY DEF RowsKept
<1>5. QED
  BY <1>3, <1>4, RowsAreKept, PTL
=============================================================================
