------------------------- MODULE LibraryUpgradeEnds -------------------------
(***************************************************************************)
(* How opening a library ends, for libraries of any versions and any       *)
(* number of processes that open one at once.  A library that an opening   *)
(* finished has every table and column of a new one, and its indexes too   *)
(* when no process has died; an opening that fails met what another left.  *)
(* What happens to the rows of the tables that are rebuilt is proved in    *)
(* LibraryUpgradeProofs, whose lemmas on scripts serve here too.           *)
(***************************************************************************)
EXTENDS LibraryUpgradeProofs

-----------------------------------------------------------------------------
(* What each migration gives to which table.                               *)

\* A table is named for what it is, and a copy for the table it will be.
NameOf(t) ==
    CASE t = "jobs_new" -> "jobs"
      [] t = "processing_stats_new" -> "processing_stats"
      [] t = "transcription_results_new" -> "transcription_results"
      [] OTHER -> t
Final(t) == DOMAIN Since[t] \ {"table"}

\* Columns that create_schema() asks for, and the version from which on a
\* library that was not new may have them.
Timely(v, t, cols) ==
    /\ t = "files" /\ "job_id" \in cols => v >= 8
    /\ t = "jobs" /\ "origin" \in cols => v >= 19
    /\ t = "processing_stats" /\ "job_id" \in cols => v >= 22

Proper(n, s) ==
    /\ s.op = "create" => s.table \in DOMAIN Since /\ s.cols \subseteq {"policy_name"} \cap Final(s.table)
                          /\ (n # 2 => s.cols = {})
    /\ s.op = "add" => /\ s.table \in TablesOf(n) /\ s.cols \subseteq Final(s.table)
                       /\ s.cols \cap (Indexes \cup {"prune", "summary_json"}) = {}
                       /\ Timely(n, s.table, s.cols)
    /\ s.op = "index" => s.table \in DOMAIN Since /\ s.arg \in Indexes \cap Final(s.table)

Plain(n, s) ==
    /\ Proper(n, s)
    /\ s.op \in {"look", "create", "add", "index", "begin", "version", "discard"}
    /\ s.op = "version" => s.arg = n + 1
    /\ s.unless # "never" =>
         \/ s.op \in {"create", "index"} /\ s.unless = "table" /\ s.cols = {}
         \/ s.op = "add" /\ s.cols = {s.unless}
    /\ s.op = "add" => s.unless # "never"
    /\ s.op = "discard" => n = 2
    /\ s.op = "begin" => n \in {10, 26}

\* What a statement may be skipped for is looked up before it in its table, and
\* every column is added once.
Ordered(S) ==
  \A i \in DOMAIN S :
    /\ S[i].op = "discard" => i = 1
    /\ S[i].unless # "never" => i # 1 /\ S[1].op = "look" /\ S[1].unless = "never"
    /\ \A j \in DOMAIN S : j < i =>
         /\ S[j].op = "look" /\ S[i].unless # "never" /\ S[j].table # S[i].table
              => \E k \in DOMAIN S : j < k /\ k < i /\ S[k].op = "look"
         /\ S[i].op = "add" /\ S[j].op = "add" /\ S[j].table = S[i].table => S[j].unless # S[i].unless

Prepared(n, S) ==
  \A i \in DOMAIN S : S[i].op = "index" =>
    \/ S[i].table \in TablesOf(n) /\ S[i].cols \subseteq ColsOf(n, S[i].table) \ Indexes
    \/ \E j \in DOMAIN S : /\ j < i /\ S[j].op \in {"create", "add"} /\ S[j].table = S[i].table
                           /\ S[i].cols \subseteq S[j].cols

Gives(s, t, c) ==
    /\ s.table = t
    /\ CASE c = "table" -> s.op = "create"
         [] c \in Indexes -> s.op = "index" /\ s.arg = c
         [] OTHER -> s.op \in {"create", "add"} /\ c \in s.cols
Complete(n, S) ==
    \A t \in DOMAIN Since : \A c \in DOMAIN Since[t] : Since[t][c] = n + 1 =>
       \E i \in DOMAIN S : Gives(S[i], t, c)

\* What a statement gives to a table is new in this version, and a table is
\* looked at before it is given anything.
Newly(n, S) ==
  \A i \in DOMAIN S :
    LET t == S[i].table
    IN  /\ S[i].op = "add" => \A c \in S[i].cols : c \in DOMAIN Since[t] /\ Since[t][c] = n + 1
        /\ S[i].unless = "table" => Since[t].table = n + 1
        /\ S[i].op = "create" => /\ n = 2 \/ Since[t].table = n + 1
                                 /\ t \in TablesOf(n + 1) /\ S[i].cols \subseteq ColsOf(n + 1, t)
        /\ S[i].op = "look" => \A j \in DOMAIN S : j < i /\ S[j].op \in {"create", "add"} => S[j].table # t

GentleShape(n, S) ==
    /\ \A i \in DOMAIN S : Plain(n, S[i])
    /\ Ordered(S) /\ Prepared(n, S) /\ Complete(n, S) /\ Newly(n, S)

LEMMA Constructors ==
  /\ \A t : Look(t).op = "look" /\ Look(t).table = t /\ Look(t).unless = "never"
  /\ \A t, c : LET s == Tagged(c, Add(t, c)) IN s.op = "add" /\ s.table = t /\ s.cols = {c} /\ s.unless = c
  /\ \A t, c : LET s == Create(t, c) IN s.op = "create" /\ s.table = t /\ s.cols = c /\ s.unless = "never"
  /\ \A t : LET s == Tagged("table", Create(t, {})) IN s.op = "create" /\ s.table = t /\ s.cols = {} /\ s.unless = "table"
  /\ \A t, x : LET s == Tagged("table", Index(t, x, {})) IN s.op = "index" /\ s.table = t /\ s.arg = x /\ s.cols = {} /\ s.unless = "table"
  /\ \A t, x, c : LET s == Index(t, x, c) IN s.op = "index" /\ s.table = t /\ s.arg = x /\ s.cols = c /\ s.unless = "never"
  /\ \A n : Version(n).op = "version" /\ Version(n).arg = n /\ Version(n).unless = "never"
  /\ \A t : DropIfExists(t).op = "discard" /\ DropIfExists(t).table = t /\ DropIfExists(t).unless = "never"
  /\ Begin.op = "begin" /\ Begin.unless = "never"
  BY DEF Look, Tagged, Add, Create, Index, Version, Statement, DropIfExists, Begin

LEMMA GentleScript1 == GentleShape(1, Migrate1)
<1> DEFINE s == Migrate1
<1>1. /\ DOMAIN s = {1, 2, 3, 4, 5, 6, 7} /\ Len(s) = 7
      /\ s[1] = Look("tracks")
      /\ s[2] = Tagged("channels", Add("tracks", "channels"))
      /\ s[3] = Tagged("channel_layout", Add("tracks", "channel_layout"))
      /\ s[4] = Tagged("width", Add("tracks", "width"))
      /\ s[5] = Tagged("height", Add("tracks", "height"))
      /\ s[6] = Tagged("frame_rate", Add("tracks", "frame_rate"))
      /\ s[7] = Version(2)
  BY DEF Migrate1, AddMissing, Tagged
<1> HIDE DEF s
<1>2. \A i \in DOMAIN s : Plain(1, s[i])
  BY <1>1, Constructors DEF Plain, Proper, Timely, Final, TablesOf, Indexes, Since
<1>3. Ordered(s)
  BY <1>1, Constructors DEF Ordered
<1>4. Prepared(1, s)
  BY <1>1, Constructors DEF Prepared
<1>5. Complete(1, s)
  BY <1>1, Constructors DEF Complete, Gives, Indexes, Since
<1>6. Newly(1, s)
  BY <1>1, Constructors DEF Newly, TablesOf, ColsOf, Since
<1>7. QED
  BY <1>2, <1>3, <1>4, <1>5, <1>6 DEF GentleShape, s

LEMMA GentleScript2 == GentleShape(2, Migrate2)
<1> DEFINE s == Migrate2
<1>1. /\ DOMAIN s = {1, 2, 3, 4} /\ Len(s) = 4
      /\ s[1] = DropIfExists("operations")
      /\ s[2] = Create("operations", {"policy_name"})
      /\ s[3] = Index("operations", "ix", {})
      /\ s[4] = Version(3)
  BY DEF Migrate2, Table
<1> HIDE DEF s
<1>2. \A i \in DOMAIN s : Plain(2, s[i])
  BY <1>1, Constructors DEF Plain, Proper, Timely, Final, TablesOf, Indexes, Since
<1>3. Ordered(s)
  BY <1>1, Constructors DEF Ordered
<1>4. Prepared(2, s)
  BY <1>1, Constructors DEF Prepared, TablesOf, ColsOf, Indexes, Since
<1>5. Complete(2, s)
  BY <1>1, Constructors DEF Complete, Gives, Indexes, Since
<1>6. Newly(2, s)
  BY <1>1, Constructors DEF Newly, TablesOf, ColsOf, Since
<1>7. QED
  BY <1>2, <1>3, <1>4, <1>5, <1>6 DEF GentleShape, s

LEMMA GentleScript3 == GentleShape(3, Migrate3)
<1> DEFINE s == Migrate3
<1>1. /\ DOMAIN s = {1, 2, 3, 4} /\ Len(s) = 4
      /\ s[1] = Look("plugin_acknowledgments")
      /\ s[2] = Tagged("table", Create("plugin_acknowledgments", {}))
      /\ s[3] = Tagged("table", Index("plugin_acknowledgments", "ix", {}))
      /\ s[4] = Version(4)
  BY DEF Migrate3, IfMissing, Table, Unless, Tagged
<1> HIDE DEF s
<1>2. \A i \in DOMAIN s : Plain(3, s[i])
  BY <1>1, Constructors DEF Plain, Proper, Timely, Final, TablesOf, Indexes, Since
<1>3. Ordered(s)
  BY <1>1, Constructors DEF Ordered
<1>4. Prepared(3, s)
  BY <1>1, Constructors DEF Prepared, TablesOf, ColsOf, Indexes, Since
<1>5. Complete(3, s)
  BY <1>1, Constructors DEF Complete, Gives, Indexes, Since
<1>6. Newly(3, s)
  BY <1>1, Constructors DEF Newly, TablesOf, ColsOf, Since
<1>7. QED
  BY <1>2, <1>3, <1>4, <1>5, <1>6 DEF GentleShape, s

LEMMA GentleScript4 == GentleShape(4, Migrate4)
<1> DEFINE s == Migrate4
<1>1. /\ DOMAIN s = {1, 2, 3, 4} /\ Len(s) = 4
      /\ s[1] = Look("jobs")
      /\ s[2] = Tagged("table", Create("jobs", {}))
      /\ s[3] = Tagged("table", Index("jobs", "ix", {}))
      /\ s[4] = Version(5)
  BY DEF Migrate4, IfMissing, Table, Unless, Tagged
<1> HIDE DEF s
<1>2. \A i \in DOMAIN s : Plain(4, s[i])
  BY <1>1, Constructors DEF Plain, Proper, Timely, Final, TablesOf, Indexes, Since
<1>3. Ordered(s)
  BY <1>1, Constructors DEF Ordered
<1>4. Prepared(4, s)
  BY <1>1, Constructors DEF Prepared, TablesOf, ColsOf, Indexes, Since
<1>5. Complete(4, s)
  BY <1>1, Constructors DEF Complete, Gives, Indexes, Since
<1>6. Newly(4, s)
  BY <1>1, Constructors DEF Newly, TablesOf, ColsOf, Since
<1>7. QED
  BY <1>2, <1>3, <1>4, <1>5, <1>6 DEF GentleShape, s

LEMMA GentleScript5 == GentleShape(5, Migrate5)
<1> DEFINE s == Migrate5
<1>1. /\ DOMAIN s = {1, 2, 3, 4} /\ Len(s) = 4
      /\ s[1] = Look("transcription_results")
      /\ s[2] = Tagged("table", Create("transcription_results", {}))
      /\ s[3] = Tagged("table", Index("transcription_results", "ix", {}))
      /\ s[4] = Version(6)
  BY DEF Migrate5, IfMissing, Table, Unless, Tagged
<1> HIDE DEF s
<1>2. \A i \in DOMAIN s : Plain(5, s[i])
  BY <1>1, Constructors DEF Plain, Proper, Timely, Final, TablesOf, Indexes, Since
<1>3. Ordered(s)
  BY <1>1, Constructors DEF Ordered
<1>4. Prepared(5, s)
  BY <1>1, Constructors DEF Prepared, TablesOf, ColsOf, Indexes, Since
<1>5. Complete(5, s)
  BY <1>1, Constructors DEF Complete, Gives, Indexes, Since
<1>6. Newly(5, s)
  BY <1>1, Constructors DEF Newly, TablesOf, ColsOf, Since
<1>7. QED
  BY <1>2, <1>3, <1>4, <1>5, <1>6 DEF GentleShape, s

LEMMA GentleScript7 == GentleShape(7, Migrate7)
<1> DEFINE s == Migrate7
<1>1. /\ DOMAIN s = {1, 2, 3} /\ Len(s) = 3
      /\ s[1] = Look("jobs")
      /\ s[2] = Tagged("log_path", Add("jobs", "log_path"))
      /\ s[3] = Version(8)
  BY DEF Migrate7, AddMissing, Tagged
<1> HIDE DEF s
<1>2. \A i \in DOMAIN s : Plain(7, s[i])
  BY <1>1, Constructors DEF Plain, Proper, Timely, Final, TablesOf, Indexes, Since
<1>3. Ordered(s)
  BY <1>1, Constructors DEF Ordered
<1>4. Prepared(7, s)
  BY <1>1, Constructors DEF Prepared
<1>5. Complete(7, s)
  BY <1>1, Constructors DEF Complete, Gives, Indexes, Since
<1>6. Newly(7, s)
  BY <1>1, Constructors DEF Newly, TablesOf, ColsOf, Since
<1>7. QED
  BY <1>2, <1>3, <1>4, <1>5, <1>6 DEF GentleShape, s

LEMMA GentleScript8 == GentleShape(8, Migrate8)
<1> DEFINE s == Migrate8
<1>1. /\ DOMAIN s = {1, 2, 3, 4} /\ Len(s) = 4
      /\ s[1] = Look("files")
      /\ s[2] = Tagged("job_id", Add("files", "job_id"))
      /\ s[3] = Index("files", "ix_job_id", {"job_id"})
      /\ s[4] = Version(9)
  BY DEF Migrate8, AddMissing, Tagged
<1> HIDE DEF s
<1>2. \A i \in DOMAIN s : Plain(8, s[i])
  BY <1>1, Constructors DEF Plain, Proper, Timely, Final, TablesOf, Indexes, Since
<1>3. Ordered(s)
  BY <1>1, Constructors DEF Ordered
<1>4. Prepared(8, s)
  BY <1>1, Constructors DEF Prepared, TablesOf, ColsOf, Indexes, Since
<1>5. Complete(8, s)
  BY <1>1, Constructors DEF Complete, Gives, Indexes, Since
<1>6. Newly(8, s)
  BY <1>1, Constructors DEF Newly, TablesOf, ColsOf, Since
<1>7. QED
  BY <1>2, <1>3, <1>4, <1>5, <1>6 DEF GentleShape, s

LEMMA GentleScript9 == GentleShape(9, Migrate9)
<1> DEFINE s == Migrate9
<1>1. /\ DOMAIN s = {1, 2} /\ Len(s) = 2
      /\ s[1] = Index("files", "ix_status_scanned", {})
      /\ s[2] = Version(10)
  BY DEF Migrate9
<1> HIDE DEF s
<1>2. \A i \in DOMAIN s : Plain(9, s[i])
  BY <1>1, Constructors DEF Plain, Proper, Timely, Final, TablesOf, Indexes, Since
<1>3. Ordered(s)
  BY <1>1, Constructors DEF Ordered
<1>4. Prepared(9, s)
  BY <1>1, Constructors DEF Prepared, TablesOf, ColsOf, Indexes, Since
<1>5. Complete(9, s)
  BY <1>1, Constructors DEF Complete, Gives, Indexes, Since
<1>6. Newly(9, s)
  BY <1>1, Constructors DEF Newly, TablesOf, ColsOf, Since
<1>7. QED
  BY <1>2, <1>3, <1>4, <1>5, <1>6 DEF GentleShape, s

LEMMA GentleScript10 == GentleShape(10, Migrate10)
<1> DEFINE s == Migrate10
<1>1. /\ DOMAIN s = {1, 2} /\ Len(s) = 2
      /\ s[1] = Begin
      /\ s[2] = Version(11)
  BY DEF Migrate10
<1> HIDE DEF s
<1>2. \A i \in DOMAIN s : Plain(10, s[i])
  BY <1>1, Constructors DEF Plain, Proper, Timely, Final, TablesOf, Indexes, Since
<1>3. Ordered(s)
  BY <1>1, Constructors DEF Ordered
<1>4. Prepared(10, s)
  BY <1>1, Constructors DEF Prepared
<1>5. Complete(10, s)
  BY <1>1, Constructors DEF Complete, Gives, Indexes, Since
<1>6. Newly(10, s)
  BY <1>1, Constructors DEF Newly, TablesOf, ColsOf, Since
<1>7. QED
  BY <1>2, <1>3, <1>4, <1>5, <1>6 DEF GentleShape, s

LEMMA GentleScript11 == GentleShape(11, Migrate11)
<1> DEFINE s == Migrate11
<1>1. /\ DOMAIN s = {1, 2, 3, 4} /\ Len(s) = 4
      /\ s[1] = Look("plans")
      /\ s[2] = Tagged("table", Create("plans", {}))
      /\ s[3] = Tagged("table", Index("plans", "ix", {}))
      /\ s[4] = Version(12)
  BY DEF Migrate11, IfMissing, Table, Unless, Tagged
<1> HIDE DEF s
<1>2. \A i \in DOMAIN s : Plain(11, s[i])
  BY <1>1, Constructors DEF Plain, Proper, Timely, Final, TablesOf, Indexes, Since
<1>3. Ordered(s)
  BY <1>1, Constructors DEF Ordered
<1>4. Prepared(11, s)
  BY <1>1, Constructors DEF Prepared, TablesOf, ColsOf, Indexes, Since
<1>5. Complete(11, s)
  BY <1>1, Constructors DEF Complete, Gives, Indexes, Since
<1>6. Newly(11, s)
  BY <1>1, Constructors DEF Newly, TablesOf, ColsOf, Since
<1>7. QED
  BY <1>2, <1>3, <1>4, <1>5, <1>6 DEF GentleShape, s

LEMMA GentleScript12 == GentleShape(12, Migrate12)
<1> DEFINE s == Migrate12
<1>1. /\ DOMAIN s = {1, 2, 3, 4, 5, 6} /\ Len(s) = 6
      /\ s[1] = Look("tracks")
      /\ s[2] = Tagged("color_transfer", Add("tracks", "color_transfer"))
      /\ s[3] = Tagged("color_primaries", Add("tracks", "color_primaries"))
      /\ s[4] = Tagged("color_space", Add("tracks", "color_space"))
      /\ s[5] = Tagged("color_range", Add("tracks", "color_range"))
      /\ s[6] = Version(13)
  BY DEF Migrate12, AddMissing, Tagged
<1> HIDE DEF s
<1>2. \A i \in DOMAIN s : Plain(12, s[i])
  BY <1>1, Constructors DEF Plain, Proper, Timely, Final, TablesOf, Indexes, Since
<1>3. Ordered(s)
  BY <1>1, Constructors DEF Ordered
<1>4. Prepared(12, s)
  BY <1>1, Constructors DEF Prepared
<1>5. Complete(12, s)
  BY <1>1, Constructors DEF Complete, Gives, Indexes, Since
<1>6. Newly(12, s)
  BY <1>1, Constructors DEF Newly, TablesOf, ColsOf, Since
<1>7. QED
  BY <1>2, <1>3, <1>4, <1>5, <1>6 DEF GentleShape, s

LEMMA GentleScript13 == GentleShape(13, Migrate13)
<1> DEFINE s == Migrate13
<1>1. /\ DOMAIN s = {1, 2, 3, 4, 5, 6, 7} /\ Len(s) = 7
      /\ s[1] = Look("language_analysis_results")
      /\ s[2] = Tagged("table", Create("language_analysis_results", {}))
      /\ s[3] = Tagged("table", Index("language_analysis_results", "ix", {}))
      /\ s[4] = Look("language_segments")
      /\ s[5] = Tagged("table", Create("language_segments", {}))
      /\ s[6] = Tagged("table", Index("language_segments", "ix", {}))
      /\ s[7] = Version(14)
  BY DEF Migrate13, IfMissing, Table, Unless, Tagged
<1> HIDE DEF s
<1>2. \A i \in DOMAIN s : Plain(13, s[i])
  BY <1>1, Constructors DEF Plain, Proper, Timely, Final, TablesOf, Indexes, Since
<1>3. Ordered(s)
  BY <1>1, Constructors DEF Ordered
<1>4. Prepared(13, s)
  BY <1>1, Constructors DEF Prepared, TablesOf, ColsOf, Indexes, Since
<1>5. Complete(13, s)
  BY <1>1, Constructors DEF Complete, Gives, Indexes, Since
<1>6. Newly(13, s)
  BY <1>1, Constructors DEF Newly, TablesOf, ColsOf, Since
<1>7. QED
  BY <1>2, <1>3, <1>4, <1>5, <1>6 DEF GentleShape, s

LEMMA GentleScript14 == GentleShape(14, Migrate14)
<1> DEFINE s == Migrate14
<1>1. /\ DOMAIN s = {1, 2, 3} /\ Len(s) = 3
      /\ s[1] = Look("tracks")
      /\ s[2] = Tagged("duration_seconds", Add("tracks", "duration_seconds"))
      /\ s[3] = Version(15)
  BY DEF Migrate14, AddMissing, Tagged
<1> HIDE DEF s
<1>2. \A i \in DOMAIN s : Plain(14, s[i])
  BY <1>1, Constructors DEF Plain, Proper, Timely, Final, TablesOf, Indexes, Since
<1>3. Ordered(s)
  BY <1>1, Constructors DEF Ordered
<1>4. Prepared(14, s)
  BY <1>1, Constructors DEF Prepared
<1>5. Complete(14, s)
  BY <1>1, Constructors DEF Complete, Gives, Indexes, Since
<1>6. Newly(14, s)
  BY <1>1, Constructors DEF Newly, TablesOf, ColsOf, Since
<1>7. QED
  BY <1>2, <1>3, <1>4, <1>5, <1>6 DEF GentleShape, s

LEMMA GentleScript16 == GentleShape(16, Migrate16)
<1> DEFINE s == Migrate16
<1>1. /\ DOMAIN s = {1, 2, 3} /\ Len(s) = 3
      /\ s[1] = Look("files")
      /\ s[2] = Tagged("plugin_metadata", Add("files", "plugin_metadata"))
      /\ s[3] = Version(17)
  BY DEF Migrate16, AddMissing, Tagged
<1> HIDE DEF s
<1>2. \A i \in DOMAIN s : Plain(16, s[i])
  BY <1>1, Constructors DEF Plain, Proper, Timely, Final, TablesOf, Indexes, Since
<1>3. Ordered(s)
  BY <1>1, Constructors DEF Ordered
<1>4. Prepared(16, s)
  BY <1>1, Constructors DEF Prepared
<1>5. Complete(16, s)
  BY <1>1, Constructors DEF Complete, Gives, Indexes, Since
<1>6. Newly(16, s)
  BY <1>1, Constructors DEF Newly, TablesOf, ColsOf, Since
<1>7. QED
  BY <1>2, <1>3, <1>4, <1>5, <1>6 DEF GentleShape, s

LEMMA GentleScript17 == GentleShape(17, Migrate17)
<1> DEFINE s == Migrate17
<1>1. /\ DOMAIN s = {1, 2, 3, 4, 5, 6, 7, 8, 9, 10} /\ Len(s) = 10
      /\ s[1] = Look("processing_stats")
      /\ s[2] = Tagged("table", Create("processing_stats", {}))
      /\ s[3] = Tagged("table", Index("processing_stats", "ix", {}))
      /\ s[4] = Look("action_results")
      /\ s[5] = Tagged("table", Create("action_results", {}))
      /\ s[6] = Tagged("table", Index("action_results", "ix", {}))
      /\ s[7] = Look("performance_metrics")
      /\ s[8] = Tagged("table", Create("performance_metrics", {}))
      /\ s[9] = Tagged("table", Index("performance_metrics", "ix", {}))
      /\ s[10] = Version(18)
  BY DEF Migrate17, IfMissing, Table, Unless, Tagged
<1> HIDE DEF s
<1>2. \A i \in DOMAIN s : Plain(17, s[i])
  BY <1>1, Constructors DEF Plain, Proper, Timely, Final, TablesOf, Indexes, Since
<1>3. Ordered(s)
  BY <1>1, Constructors DEF Ordered
<1>4. Prepared(17, s)
  BY <1>1, Constructors DEF Prepared, TablesOf, ColsOf, Indexes, Since
<1>5. Complete(17, s)
  BY <1>1, Constructors DEF Complete, Gives, Indexes, Since
<1>6. Newly(17, s)
  BY <1>1, Constructors DEF Newly, TablesOf, ColsOf, Since
<1>7. QED
  BY <1>2, <1>3, <1>4, <1>5, <1>6 DEF GentleShape, s

LEMMA GentleScript18 == GentleShape(18, Migrate18)
<1> DEFINE s == Migrate18
<1>1. /\ DOMAIN s = {1, 2, 3, 4} /\ Len(s) = 4
      /\ s[1] = Look("track_classification_results")
      /\ s[2] = Tagged("table", Create("track_classification_results", {}))
      /\ s[3] = Tagged("table", Index("track_classification_results", "ix", {}))
      /\ s[4] = Version(19)
  BY DEF Migrate18, IfMissing, Table, Unless, Tagged
<1> HIDE DEF s
<1>2. \A i \in DOMAIN s : Plain(18, s[i])
  BY <1>1, Constructors DEF Plain, Proper, Timely, Final, TablesOf, Indexes, Since
<1>3. Ordered(s)
  BY <1>1, Constructors DEF Ordered
<1>4. Prepared(18, s)
  BY <1>1, Constructors DEF Prepared, TablesOf, ColsOf, Indexes, Since
<1>5. Complete(18, s)
  BY <1>1, Constructors DEF Complete, Gives, Indexes, Since
<1>6. Newly(18, s)
  BY <1>1, Constructors DEF Newly, TablesOf, ColsOf, Since
<1>7. QED
  BY <1>2, <1>3, <1>4, <1>5, <1>6 DEF GentleShape, s

LEMMA GentleScript20 == GentleShape(20, Migrate20)
<1> DEFINE s == Migrate20
<1>1. /\ DOMAIN s = {1, 2, 3} /\ Len(s) = 3
      /\ s[1] = Look("processing_stats")
      /\ s[2] = Tagged("encoder_type", Add("processing_stats", "encoder_type"))
      /\ s[3] = Version(21)
  BY DEF Migrate20, AddMissing, Tagged
<1> HIDE DEF s
<1>2. \A i \in DOMAIN s : Plain(20, s[i])
  BY <1>1, Constructors DEF Plain, Proper, Timely, Final, TablesOf, Indexes, Since
<1>3. Ordered(s)
  BY <1>1, Constructors DEF Ordered
<1>4. Prepared(20, s)
  BY <1>1, Constructors DEF Prepared
<1>5. Complete(20, s)
  BY <1>1, Constructors DEF Complete, Gives, Indexes, Since
<1>6. Newly(20, s)
  BY <1>1, Constructors DEF Newly, TablesOf, ColsOf, Since
<1>7. QED
  BY <1>2, <1>3, <1>4, <1>5, <1>6 DEF GentleShape, s

LEMMA GentleScript21 == GentleShape(21, Migrate21)
<1> DEFINE s == Migrate21
<1>1. /\ DOMAIN s = {1, 2} /\ Len(s) = 2
      /\ s[1] = Index("processing_stats", "ix_file_time", {})
      /\ s[2] = Version(22)
  BY DEF Migrate21
<1> HIDE DEF s
<1>2. \A i \in DOMAIN s : Plain(21, s[i])
  BY <1>1, Constructors DEF Plain, Proper, Timely, Final, TablesOf, Indexes, Since
<1>3. Ordered(s)
  BY <1>1, Constructors DEF Ordered
<1>4. Prepared(21, s)
  BY <1>1, Constructors DEF Prepared, TablesOf, ColsOf, Indexes, Since
<1>5. Complete(21, s)
  BY <1>1, Constructors DEF Complete, Gives, Indexes, Since
<1>6. Newly(21, s)
  BY <1>1, Constructors DEF Newly, TablesOf, ColsOf, Since
<1>7. QED
  BY <1>2, <1>3, <1>4, <1>5, <1>6 DEF GentleShape, s

LEMMA GentleScript22 == GentleShape(22, Migrate22)
<1> DEFINE s == Migrate22
<1>1. /\ DOMAIN s = {1, 2, 3, 4, 5, 6, 7} /\ Len(s) = 7
      /\ s[1] = Look("jobs")
      /\ s[2] = Tagged("origin", Add("jobs", "origin"))
      /\ s[3] = Tagged("batch_id", Add("jobs", "batch_id"))
      /\ s[4] = Look("processing_stats")
      /\ s[5] = Tagged("job_id", Add("processing_stats", "job_id"))
      /\ s[6] = Index("processing_stats", "ix_job", {"job_id"})
      /\ s[7] = Version(23)
  BY DEF Migrate22, AddMissing, Tagged
<1> HIDE DEF s
<1>2. \A i \in DOMAIN s : Plain(22, s[i])
  BY <1>1, Constructors DEF Plain, Proper, Timely, Final, TablesOf, Indexes, Since
<1>3. Ordered(s)
  BY <1>1, Constructors DEF Ordered
<1>4. Prepared(22, s)
  BY <1>1, Constructors DEF Prepared, TablesOf, ColsOf, Indexes, Since
<1>5. Complete(22, s)
  BY <1>1, Constructors DEF Complete, Gives, Indexes, Since
<1>6. Newly(22, s)
  BY <1>1, Constructors DEF Newly, TablesOf, ColsOf, Since
<1>7. QED
  BY <1>2, <1>3, <1>4, <1>5, <1>6 DEF GentleShape, s

LEMMA GentleScript23 == GentleShape(23, Migrate23)
<1> DEFINE s == Migrate23
<1>1. /\ DOMAIN s = {1, 2, 3} /\ Len(s) = 3
      /\ s[1] = Index("jobs", "ix_origin", {"origin"})
      /\ s[2] = Index("jobs", "ix_batch_id", {"batch_id"})
      /\ s[3] = Version(24)
  BY DEF Migrate23
<1> HIDE DEF s
<1>2. \A i \in DOMAIN s : Plain(23, s[i])
  BY <1>1, Constructors DEF Plain, Proper, Timely, Final, TablesOf, Indexes, Since
<1>3. Ordered(s)
  BY <1>1, Constructors DEF Ordered
<1>4. Prepared(23, s)
  BY <1>1, Constructors DEF Prepared, TablesOf, ColsOf, Indexes, Since
<1>5. Complete(23, s)
  BY <1>1, Constructors DEF Complete, Gives, Indexes, Since
<1>6. Newly(23, s)
  BY <1>1, Constructors DEF Newly, TablesOf, ColsOf, Since
<1>7. QED
  BY <1>2, <1>3, <1>4, <1>5, <1>6 DEF GentleShape, s

LEMMA GentleScript26 == GentleShape(26, Migrate26)
<1> DEFINE s == Migrate26
<1>1. /\ DOMAIN s = {1, 2, 3, 4} /\ Len(s) = 4
      /\ s[1] = Look("files")
      /\ s[2] = Begin
      /\ s[3] = Tagged("container_tags", Add("files", "container_tags"))
      /\ s[4] = Version(27)
  BY DEF Migrate26, Unless, Tagged
<1> HIDE DEF s
<1>2. \A i \in DOMAIN s : Plain(26, s[i])
  BY <1>1, Constructors DEF Plain, Proper, Timely, Final, TablesOf, Indexes, Since
<1>3. Ordered(s)
  BY <1>1, Constructors DEF Ordered
<1>4. Prepared(26, s)
  BY <1>1, Constructors DEF Prepared
<1>5. Complete(26, s)
  BY <1>1, Constructors DEF Complete, Gives, Indexes, Since
<1>6. Newly(26, s)
  BY <1>1, Constructors DEF Newly, TablesOf, ColsOf, Since
<1>7. QED
  BY <1>2, <1>3, <1>4, <1>5, <1>6 DEF GentleShape, s

LEMMA CreateSchemaLines ==
  LET s == CreateSchema
  IN  /\ DOMAIN s = 1 .. 35 /\ Len(s) = 35
      /\ s[1] = Create("files", {"job_id", "plugin_metadata", "container_tags"})
      /\ s[2] = Index("files", "ix_job_id", {"job_id"})
      /\ s[3] = Index("files", "ix_status_scanned", {})
      /\ s[4] = Create("tracks", {"channels", "channel_layout", "width", "height", "frame_rate",
                                  "color_transfer", "color_primaries", "color_space", "color_range",
                                  "duration_seconds"})
      /\ s[5] = Create("operations", {"policy_name"})
      /\ s[6] = Index("operations", "ix", {})
      /\ s[7] = Create("policies", {})
      /\ s[8] = Create("plugin_acknowledgments", {})
      /\ s[9] = Index("plugin_acknowledgments", "ix", {})
      /\ s[10] = Create("jobs", JobsOf26)
      /\ s[11] = Index("jobs", "ix", {})
      /\ s[12] = Index("jobs", "ix_job_type", {})
      /\ s[13] = Index("jobs", "ix_origin", {"origin"})
      /\ s[14] = Index("jobs", "ix_batch_id", {"batch_id"})
      /\ s[15] = Create("transcription_results", {"music"})
      /\ s[16] = Index("transcription_results", "ix", {})
      /\ s[17] = Create("plans", {})
      /\ s[18] = Index("plans", "ix", {})
      /\ s[19] = Create("language_analysis_results", {})
      /\ s[20] = Index("language_analysis_results", "ix", {})
      /\ s[21] = Create("language_segments", {})
      /\ s[22] = Index("language_segments", "ix", {})
      /\ s[23] = Create("processing_stats", {"encoder_type", "job_id", "fk_job"})
      /\ s[24] = Index("processing_stats", "ix", {})
      /\ s[25] = Index("processing_stats", "ix_job", {"job_id"})
      /\ s[26] = Index("processing_stats", "ix_file_time", {})
      /\ s[27] = Create("action_results", {})
      /\ s[28] = Index("action_results", "ix", {})
      /\ s[29] = Create("performance_metrics", {})
      /\ s[30] = Index("performance_metrics", "ix", {})
      /\ s[31] = Create("track_classification_results", {})
      /\ s[32] = Index("track_classification_results", "ix", {})
      /\ s[33] = Create("library_snapshots", {})
      /\ s[34] = Index("library_snapshots", "ix", {})
      /\ s[35] = Stamp
  BY DEF CreateSchema, SchemaOfFiles, SchemaOfTracks, SchemaOfPolicies, SchemaOfJobs,
         SchemaOfAnalysis, SchemaOfStatistics, SchemaOfTheRest, Table

\* create_schema() makes every table as the last migration leaves it.
FreshLine(s) ==
    /\ s.op \in {"create", "index", "stamp"} /\ s.unless = "never"
    /\ s.op = "create" => s.table \in DOMAIN Since /\ s.cols = Final(s.table) \ Indexes
    /\ s.op = "index" => /\ s.table \in DOMAIN Since /\ s.arg \in Indexes \cap Final(s.table)
                         /\ s.cols \subseteq Final(s.table) \ Indexes
Asks(s, t, col) == s.op = "index" /\ s.table = t /\ s.cols = {col}
Fresh(S) ==
    /\ \A i \in DOMAIN S : FreshLine(S[i])
    /\ Asks(S[2], "files", "job_id") /\ Asks(S[13], "jobs", "origin")
    /\ Asks(S[14], "jobs", "batch_id") /\ Asks(S[25], "processing_stats", "job_id")
    /\ \A i \in DOMAIN S : S[i].op = "create" =>
         /\ S[i].table = "files" => i = 1
         /\ S[i].table = "jobs" => i > 2
         /\ S[i].table \in {"processing_stats", "transcription_results"} => i > 13
    /\ \A i \in DOMAIN S : S[i].op = "index" =>
         \E j \in DOMAIN S : j < i /\ S[j].op = "create" /\ S[j].table = S[i].table
    /\ \A t \in DOMAIN Since : \E i \in DOMAIN S : S[i].op = "create" /\ S[i].table = t

LEMMA FinalColumns ==
  /\ "files" \in DOMAIN Since /\ Final("files") \ Indexes = {"job_id", "plugin_metadata", "container_tags"}
  /\ "tracks" \in DOMAIN Since /\ Final("tracks") \ Indexes = {"channels", "channel_layout", "width", "height", "frame_rate",
                                     "color_transfer", "color_primaries", "color_space",
                                     "color_range", "duration_seconds"}
  /\ "operations" \in DOMAIN Since /\ Final("operations") \ Indexes = {"policy_name"}
  /\ "policies" \in DOMAIN Since /\ Final("policies") \ Indexes = {}
  /\ "plugin_acknowledgments" \in DOMAIN Since /\ Final("plugin_acknowledgments") \ Indexes = {}
  /\ "jobs" \in DOMAIN Since /\ Final("jobs") \ Indexes = JobsOf26
  /\ "transcription_results" \in DOMAIN Since /\ Final("transcription_results") \ Indexes = {"music"}
  /\ "plans" \in DOMAIN Since /\ Final("plans") \ Indexes = {}
  /\ "language_analysis_results" \in DOMAIN Since /\ Final("language_analysis_results") \ Indexes = {}
  /\ "language_segments" \in DOMAIN Since /\ Final("language_segments") \ Indexes = {}
  /\ "processing_stats" \in DOMAIN Since /\ Final("processing_stats") \ Indexes = {"encoder_type", "job_id", "fk_job"}
  /\ "action_results" \in DOMAIN Since /\ Final("action_results") \ Indexes = {}
  /\ "performance_metrics" \in DOMAIN Since /\ Final("performance_metrics") \ Indexes = {}
  /\ "track_classification_results" \in DOMAIN Since /\ Final("track_classification_results") \ Indexes = {}
  /\ "library_snapshots" \in DOMAIN Since /\ Final("library_snapshots") \ Indexes = {}
<1>1. "files" \in DOMAIN Since /\ Final("files") \ Indexes = {"job_id", "plugin_metadata", "container_tags"}
  BY DEF Final, Since, Indexes
<1>2. "tracks" \in DOMAIN Since /\ Final("tracks") \ Indexes = {"channels", "channel_layout", "width", "height", "frame_rate",
                                     "color_transfer", "color_primaries", "color_space",
                                     "color_range", "duration_seconds"}
  BY DEF Final, Since, Indexes
<1>3. "operations" \in DOMAIN Since /\ Final("operations") \ Indexes = {"policy_name"}
  BY DEF Final, Since, Indexes
<1>4. "policies" \in DOMAIN Since /\ Final("policies") \ Indexes = {}
  BY DEF Final, Since, Indexes
<1>5. "plugin_acknowledgments" \in DOMAIN Since /\ Final("plugin_acknowledgments") \ Indexes = {}
  BY DEF Final, Since, Indexes
<1>6. "jobs" \in DOMAIN Since /\ Final("jobs") \ Indexes = JobsOf26
  BY DEF Final, Since, Indexes, JobsOf26, JobsOf7
<1>7. "transcription_results" \in DOMAIN Since /\ Final("transcription_results") \ Indexes = {"music"}
  BY DEF Final, Since, Indexes
<1>8. "plans" \in DOMAIN Since /\ Final("plans") \ Indexes = {}
  BY DEF Final, Since, Indexes
<1>9. "language_analysis_results" \in DOMAIN Since /\ Final("language_analysis_results") \ Indexes = {}
  BY DEF Final, Since, Indexes
<1>10. "language_segments" \in DOMAIN Since /\ Final("language_segments") \ Indexes = {}
  BY DEF Final, Since, Indexes
<1>11. "processing_stats" \in DOMAIN Since /\ Final("processing_stats") \ Indexes = {"encoder_type", "job_id", "fk_job"}
  BY DEF Final, Since, Indexes
<1>12. "action_results" \in DOMAIN Since /\ Final("action_results") \ Indexes = {}
  BY DEF Final, Since, Indexes
<1>13. "performance_metrics" \in DOMAIN Since /\ Final("performance_metrics") \ Indexes = {}
  BY DEF Final, Since, Indexes
<1>14. "track_classification_results" \in DOMAIN Since /\ Final("track_classification_results") \ Indexes = {}
  BY DEF Final, Since, Indexes
<1>15. "library_snapshots" \in DOMAIN Since /\ Final("library_snapshots") \ Indexes = {}
  BY DEF Final, Since, Indexes
<1> QED
  BY <1>1, <1>2, <1>3, <1>4, <1>5, <1>6, <1>7, <1>8, <1>9, <1>10, <1>11, <1>12, <1>13, <1>14, <1>15

LEMMA CreateSchemaFresh == Fresh(CreateSchema)
<1> DEFINE s == CreateSchema
<1>1. DOMAIN s = {1, 2, 3, 4, 5, 6, 7, 8, 9, 10, 11, 12, 13, 14, 15, 16, 17, 18, 19, 20, 21, 22, 23, 24, 25, 26, 27, 28, 29, 30, 31, 32, 33, 34, 35}
  BY CreateSchemaLines
<1>5. Stamp.op = "stamp" /\ Stamp.unless = "never"
  BY DEF Stamp, Statement
<1> HIDE DEF s
<1>2. \A i \in DOMAIN s : s[i].op \in {"create", "index", "stamp"} /\ s[i].unless = "never"
  BY <1>1, <1>5, CreateSchemaLines, Constructors DEF s
<1>3. \A i \in DOMAIN s : s[i].op = "create" => 
         s[i].table \in DOMAIN Since /\ s[i].cols = Final(s[i].table) \ Indexes
  BY <1>1, <1>5, CreateSchemaLines, Constructors, FinalColumns DEF s
<1>4. \A i \in DOMAIN s : s[i].op = "index" => 
         /\ s[i].table \in DOMAIN Since /\ s[i].arg \in Indexes \cap Final(s[i].table)
         /\ s[i].cols \subseteq Final(s[i].table) \ Indexes
  BY <1>1, <1>5, CreateSchemaLines, Constructors DEF s, Final, Indexes, Since
<1>6. \A i \in DOMAIN s : FreshLine(s[i])
  BY <1>2, <1>3, <1>4 DEF FreshLine
<1>7. /\ Asks(s[2], "files", "job_id") /\ Asks(s[13], "jobs", "origin")
      /\ Asks(s[14], "jobs", "batch_id") /\ Asks(s[25], "processing_stats", "job_id")
  BY CreateSchemaLines, Constructors DEF s, Asks
<1>8. \A i \in DOMAIN s : s[i].op = "create" =>
         /\ s[i].table = "files" => i = 1
         /\ s[i].table = "jobs" => i > 2
         /\ s[i].table \in {"processing_stats", "transcription_results"} => i > 13
  BY <1>1, <1>5, CreateSchemaLines, Constructors DEF s
<1>9. \A i \in DOMAIN s : s[i].op = "index" =>
          \E j \in DOMAIN s : j < i /\ s[j].op = "create" /\ s[j].table = s[i].table
  BY <1>1, <1>5, CreateSchemaLines, Constructors DEF s
<1>10. \A t \in DOMAIN Since : \E i \in DOMAIN s : s[i].op = "create" /\ s[i].table = t
  BY <1>1, <1>5, CreateSchemaLines, Constructors DEF s, Since
<1>11. Fresh(s)
  BY <1>6, <1>7, <1>8, <1>9, <1>10 DEF Fresh
<1> QED
  BY <1>11 DEF s

LEMMA GentleScripts ==
  ASSUME NEW n \in Gentle
  PROVE  GentleShape(n, Scripts[n])
<1>1. CASE n = 1
  BY <1>1, GentleScript1 DEF Scripts, Migrations, SchemaVersion
<1>2. CASE n = 2
  BY <1>2, GentleScript2 DEF Scripts, Migrations, SchemaVersion
<1>3. CASE n = 3
  BY <1>3, GentleScript3 DEF Scripts, Migrations, SchemaVersion
<1>4. CASE n = 4
  BY <1>4, GentleScript4 DEF Scripts, Migrations, SchemaVersion
<1>5. CASE n = 5
  BY <1>5, GentleScript5 DEF Scripts, Migrations, SchemaVersion
<1>6. CASE n = 7
  BY <1>6, GentleScript7 DEF Scripts, Migrations, SchemaVersion
<1>7. CASE n = 8
  BY <1>7, GentleScript8 DEF Scripts, Migrations, SchemaVersion
<1>8. CASE n = 9
  BY <1>8, GentleScript9 DEF Scripts, Migrations, SchemaVersion
<1>9. CASE n = 10
  BY <1>9, GentleScript10 DEF Scripts, Migrations, SchemaVersion
<1>10. CASE n = 11
  BY <1>10, GentleScript11 DEF Scripts, Migrations, SchemaVersion
<1>11. CASE n = 12
  BY <1>11, GentleScript12 DEF Scripts, Migrations, SchemaVersion
<1>12. CASE n = 13
  BY <1>12, GentleScript13 DEF Scripts, Migrations, SchemaVersion
<1>13. CASE n = 14
  BY <1>13, GentleScript14 DEF Scripts, Migrations, SchemaVersion
<1>14. CASE n = 16
  BY <1>14, GentleScript16 DEF Scripts, Migrations, SchemaVersion
<1>15. CASE n = 17
  BY <1>15, GentleScript17 DEF Scripts, Migrations, SchemaVersion
<1>16. CASE n = 18
  BY <1>16, GentleScript18 DEF Scripts, Migrations, SchemaVersion
<1>17. CASE n = 20
  BY <1>17, GentleScript20 DEF Scripts, Migrations, SchemaVersion
<1>18. CASE n = 21
  BY <1>18, GentleScript21 DEF Scripts, Migrations, SchemaVersion
<1>19. CASE n = 22
  BY <1>19, GentleScript22 DEF Scripts, Migrations, SchemaVersion
<1>20. CASE n = 23
  BY <1>20, GentleScript23 DEF Scripts, Migrations, SchemaVersion
<1>21. CASE n = 26
  BY <1>21, GentleScript26 DEF Scripts, Migrations, SchemaVersion
<1>22. QED
  BY <1>1, <1>2, <1>3, <1>4, <1>5, <1>6, <1>7, <1>8, <1>9, <1>10, <1>11, <1>12, <1>13, <1>14, <1>15, <1>16, <1>17, <1>18, <1>19, <1>20, <1>21 DEF Gentle, SchemaVersion

\* The column that a rebuild gives its table, and is skipped for.
Mark(n) ==
    CASE n = 6 -> "summary_json" [] n = 15 -> "music" [] n = 19 -> "valid_priority"
      [] n = 24 -> "fk_job" [] OTHER -> "prune"

\* The lines of a rebuild besides those of its four steps.
SwapLine(n, i, s) ==
    LET t == Subject(n)
        c == CopyLine(n)
    IN  /\ i = 1 => s.op = "look" /\ s.table = t /\ s.unless = "never"
        /\ i \in 2 .. c + 2 => s.unless = Mark(n)
        /\ i \in 2 .. c - 1 /\ i # MakeLine(n) => s.op = "begin"
        /\ i > c + 2 =>
             /\ s.op \in {"index", "commit", "create", "version"}
             /\ s.unless \in {"never", Mark(n)}
             /\ s.op = "create" => /\ n = 25 /\ i = 12 /\ s.table = "library_snapshots"
                                   /\ s.cols = {} /\ s.unless = "never"
             /\ s.op = "index" =>
                  \/ s.table = t /\ s.arg \in Indexes \cap Final(t) /\ s.cols \subseteq MadeCols(n)
                  \/ /\ n = 25 /\ i = 13 /\ s.table = "library_snapshots" /\ s.cols = {}
                     /\ s.arg = "ix" /\ s.unless = "never"
             /\ s.op = "version" => s.arg = n + 1
        /\ s.op = "commit" => n = 25 /\ i = 11
Swaps(n, S) ==
    /\ \A i \in DOMAIN S : SwapLine(n, i, S[i])
    /\ Len(S) = CASE n = 19 -> 8 [] n = 24 -> 10 [] n = 25 -> 14 [] OTHER -> 7

LEMMA TaggedConstructors ==
  /\ \A what, t : LET s == Tagged(what, Look(t)) IN s.op = "look" /\ s.table = t /\ s.unless = what
  /\ \A what, t, c : LET s == Tagged(what, Create(t, c)) IN s.op = "create" /\ s.table = t /\ s.cols = c /\ s.unless = what
  /\ \A what, t, c : LET s == Tagged(what, Make(t, c)) IN s.op = "make" /\ s.table = t /\ s.cols = c /\ s.unless = what
  /\ \A what, t, c : LET s == Tagged(what, Copy(t, c)) IN s.op = "copy" /\ s.unless = what
  /\ \A what, t : LET s == Tagged(what, Drop(t)) IN s.op = "drop" /\ s.unless = what
  /\ \A what, t : LET s == Tagged(what, Rename(t)) IN s.op = "rename" /\ s.unless = what
  /\ \A what, t, x, c : LET s == Tagged(what, Index(t, x, c)) IN s.op = "index" /\ s.table = t /\ s.arg = x /\ s.cols = c /\ s.unless = what
  /\ \A what : LET s == Tagged(what, Begin) IN s.op = "begin" /\ s.unless = what
  /\ \A what : LET s == Tagged(what, Commit) IN s.op = "commit" /\ s.unless = what
  BY DEF Look, Tagged, Make, Create, Copy, Drop, Rename, Index, Begin, Commit, Statement

LEMMA Swaps6 == Swaps(6, Migrate6)
<1> DEFINE s == Migrate6
<1>1. Len(s) = 7 /\ DOMAIN s = {1, 2, 3, 4, 5, 6, 7}
  <2>1. Len(s) = 7 /\ DOMAIN s = 1 .. Len(s)
    BY Migration6 DEF IsSequence
  <2>2. QED
    BY <2>1
<1>2. \A i \in DOMAIN s : SwapLine(6, i, s[i])
  BY <1>1, Migration6, Constructors, TaggedConstructors
     DEF SwapLine, Subject, CopyLine, MakeLine, Mark, MadeCols, Indexes, Final, Since, JobsOf26, JobsOf7
<1>3. QED
  BY <1>1, <1>2 DEF Swaps

LEMMA Swaps15 == Swaps(15, Migrate15)
<1> DEFINE s == Migrate15
<1>1. Len(s) = 7 /\ DOMAIN s = {1, 2, 3, 4, 5, 6, 7}
  <2>1. Len(s) = 7 /\ DOMAIN s = 1 .. Len(s)
    BY Migration15 DEF IsSequence
  <2>2. QED
    BY <2>1
<1>2. \A i \in DOMAIN s : SwapLine(15, i, s[i])
  BY <1>1, Migration15, Constructors, TaggedConstructors
     DEF SwapLine, Subject, CopyLine, MakeLine, Mark, MadeCols, Indexes, Final, Since, JobsOf26, JobsOf7
<1>3. QED
  BY <1>1, <1>2 DEF Swaps

LEMMA Swaps19 == Swaps(19, Migrate19)
<1> DEFINE s == Migrate19
<1>1. Len(s) = 8 /\ DOMAIN s = {1, 2, 3, 4, 5, 6, 7, 8}
  <2>1. Len(s) = 8 /\ DOMAIN s = 1 .. Len(s)
    BY Migration19 DEF IsSequence
  <2>2. QED
    BY <2>1
<1>2. \A i \in DOMAIN s : SwapLine(19, i, s[i])
  BY <1>1, Migration19, Constructors, TaggedConstructors
     DEF SwapLine, Subject, CopyLine, MakeLine, Mark, MadeCols, Indexes, Final, Since, JobsOf26, JobsOf7
<1>3. QED
  BY <1>1, <1>2 DEF Swaps

LEMMA Swaps24 == Swaps(24, Migrate24)
<1> DEFINE s == Migrate24
<1>1. Len(s) = 10 /\ DOMAIN s = {1, 2, 3, 4, 5, 6, 7, 8, 9, 10}
  <2>1. Len(s) = 10 /\ DOMAIN s = 1 .. Len(s)
    BY Migration24 DEF IsSequence
  <2>2. QED
    BY <2>1
<1>2. \A i \in DOMAIN s : SwapLine(24, i, s[i])
  BY <1>1, Migration24, Constructors, TaggedConstructors
     DEF SwapLine, Subject, CopyLine, MakeLine, Mark, MadeCols, Indexes, Final, Since, JobsOf26, JobsOf7
<1>3. QED
  BY <1>1, <1>2 DEF Swaps

LEMMA Swaps25 == Swaps(25, Migrate25)
<1> DEFINE s == Migrate25
<1>1. Len(s) = 14 /\ DOMAIN s = {1, 2, 3, 4, 5, 6, 7, 8, 9, 10, 11, 12, 13, 14}
  <2>1. Len(s) = 14 /\ DOMAIN s = 1 .. Len(s)
    BY Migration25 DEF IsSequence
  <2>2. QED
    BY <2>1
<1>2. \A i \in DOMAIN s : SwapLine(25, i, s[i])
  BY <1>1, Migration25, Constructors, TaggedConstructors
     DEF SwapLine, Subject, CopyLine, MakeLine, Mark, MadeCols, Indexes, Final, Since, JobsOf26, JobsOf7
<1>3. QED
  BY <1>1, <1>2 DEF Swaps

LEMMA RebuildScripts ==
  ASSUME NEW n \in Rebuilds
  PROVE  Swaps(n, Scripts[n])
<1>1. CASE n = 6
  BY <1>1, Swaps6 DEF Scripts, Migrations, SchemaVersion
<1>2. CASE n = 15
  BY <1>2, Swaps15 DEF Scripts, Migrations, SchemaVersion
<1>3. CASE n = 19
  BY <1>3, Swaps19 DEF Scripts, Migrations, SchemaVersion
<1>4. CASE n = 24
  BY <1>4, Swaps24 DEF Scripts, Migrations, SchemaVersion
<1>5. CASE n = 25
  BY <1>5, Swaps25 DEF Scripts, Migrations, SchemaVersion
<1>6. QED
  BY <1>1, <1>2, <1>3, <1>4, <1>5 DEF Rebuilds

\* What a rebuild makes of its table, and what else its script adds.
LEMMA Rebuilding ==
  ASSUME NEW n \in Rebuilds, NEW t, t = Subject(n)
  PROVE  /\ t \in DOMAIN Since /\ t \in TablesOf(n) /\ MadeCols(n) \subseteq Final(t) \ Indexes
         /\ Mark(n) \in MadeCols(n) /\ ColsOf(n + 1, t) \ Indexes \subseteq MadeCols(n)
         /\ ColsOf(n + 1, t) \ Indexes
              \subseteq (ColsOf(n, t) \ Indexes) \cup {Mark(n)} \cup (IF n = 6 THEN JobsOf7 ELSE {})
         /\ Timely(n, t, MadeCols(n))
         /\ "prune" \in MadeCols(n) => JobsOf26 \subseteq MadeCols(n)
         /\ "summary_json" \in MadeCols(n) => JobsOf7 \subseteq MadeCols(n)
         /\ Mark(n) \in JobsOf26 \/ t # "jobs"
<1>1. CASE n = 6
  BY <1>1 DEF Subject, MadeCols, Mark, Timely, TablesOf, ColsOf, Final, Since, Indexes, JobsOf26, JobsOf7
<1>2. CASE n = 15
  BY <1>2 DEF Subject, MadeCols, Mark, Timely, TablesOf, ColsOf, Final, Since, Indexes, JobsOf26, JobsOf7
<1>3. CASE n = 19
  BY <1>3 DEF Subject, MadeCols, Mark, Timely, TablesOf, ColsOf, Final, Since, Indexes, JobsOf26, JobsOf7
<1>4. CASE n = 24
  BY <1>4 DEF Subject, MadeCols, Mark, Timely, TablesOf, ColsOf, Final, Since, Indexes, JobsOf26, JobsOf7
<1>5. CASE n = 25
  BY <1>5 DEF Subject, MadeCols, Mark, Timely, TablesOf, ColsOf, Final, Since, Indexes, JobsOf26, JobsOf7
<1>6. QED
  BY <1>1, <1>2, <1>3, <1>4, <1>5 DEF Rebuilds

LEMMA OtherTables ==
  ASSUME NEW n \in Rebuilds, NEW t \in DOMAIN Since, t # Subject(n)
  PROVE  /\ t \in TablesOf(n + 1) => t \in TablesOf(n) \/ (n = 25 /\ t = "library_snapshots")
         /\ ColsOf(n + 1, t) \ Indexes \subseteq ColsOf(n, t)
<1>1. CASE n = 6
  BY <1>1 DEF Subject, TablesOf, ColsOf, Since, Indexes
<1>2. CASE n = 15
  BY <1>2 DEF Subject, TablesOf, ColsOf, Since, Indexes
<1>3. CASE n = 19
  BY <1>3 DEF Subject, TablesOf, ColsOf, Since, Indexes
<1>4. CASE n = 24
  BY <1>4 DEF Subject, TablesOf, ColsOf, Since, Indexes
<1>5. CASE n = 25
  BY <1>5 DEF Subject, TablesOf, ColsOf, Since, Indexes
<1>6. QED
  BY <1>1, <1>2, <1>3, <1>4, <1>5 DEF Rebuilds

-----------------------------------------------------------------------------
(* Libraries on which an upgrade can go on.                                *)

\* What a table, or a copy, has is what a new library has in it, all of it in a
\* library that is not yet stamped; it has the last column with all others, and
\* those that create_schema() asks for in time.
PlausibleTable(v, t, cols) ==
    /\ NameOf(t) \in DOMAIN Since /\ cols \subseteq Final(NameOf(t))
    /\ NameOf(t) = "jobs" /\ "prune" \in cols => JobsOf26 \subseteq cols
    /\ NameOf(t) = "jobs" /\ "summary_json" \in cols => JobsOf7 \subseteq cols
    /\ v # 0 => Timely(v, NameOf(t), cols)
    /\ v = 0 => Final(NameOf(t)) \ Indexes \subseteq cols
Plausible(L) == \A t \in DOMAIN L.tables : PlausibleTable(L.version, t, L.tables[t].cols)

\* Every table has the columns of the version, unless a process died between
\* the statements that replace it.
Missing(L, t) ==
    /\ t \notin DOMAIN L.tables
    /\ \/ L.version = 2 /\ t = "operations"
       \/ L.version \in Rebuilds /\ t = Subject(L.version) /\ New[t] \in DOMAIN L.tables
Reached(L) ==
    \A t \in TablesOf(L.version) : Has(L, t, ColsOf(L.version, t) \ Indexes) \/ Missing(L, t)

\* A copy that was left is that of the rebuild of this version, still to be
\* done, or create_schema() has made a new table in place of the one it is of.
Leftover(L) ==
    \A t \in Rebuilt : New[t] \in DOMAIN L.tables =>
      \/ /\ L.version \in Rebuilds /\ Subject(L.version) = t /\ ~Has(L, t, {Mark(L.version)})
         /\ MadeCols(L.version) \subseteq L.tables[New[t]].cols
      \/ t = "jobs" /\ Has(L, "jobs", {"prune"})

Sane(L) == Plausible(L) /\ Reached(L) /\ Leftover(L)

\* The last two rebuilds are transactions, in the file all or nothing of them.
AllOrNothing(L) ==
    L.version \in {24, 25} =>
      /\ Subject(L.version) \in DOMAIN L.tables
      /\ L.version = 25 /\ "jobs_new" \in DOMAIN L.tables => Has(L, "jobs", {"prune"})

LEMMA NamesOf ==
  /\ \A t \in DOMAIN Since : NameOf(t) = t /\ t \notin Copies
  /\ \A t \in Rebuilt : t \in DOMAIN Since /\ NameOf(New[t]) = t
<1>1. DOMAIN Since \cap {"jobs_new", "processing_stats_new", "transcription_results_new"} = {}
  BY DEF Since
<1>2. {"jobs", "processing_stats", "transcription_results"} \subseteq DOMAIN Since
  BY DEF Since
<1>3. QED
  BY <1>1, <1>2, Names DEF NameOf

Extra(s) == CASE s.op = "add" -> s.cols [] s.op = "index" -> {s.arg} [] OTHER -> {}

\* What a statement that takes nothing away makes of a library.
Grown(s, L, M) ==
    /\ IsLibrary(M) /\ M.version = L.version
    /\ \A t \in DOMAIN L.tables :
         /\ t \in DOMAIN M.tables
         /\ M.tables[t].cols = L.tables[t].cols \cup (IF t = s.table THEN Extra(s) ELSE {})
    /\ \A t \in DOMAIN M.tables \ DOMAIN L.tables :
         s.op \in {"create", "make"} /\ t = s.table /\ M.tables[t].cols = s.cols /\ M.tables[t].rows = {}
    /\ s.op = "create" => s.table \in DOMAIN M.tables
    /\ s.op \in {"add", "index"} => s.table \in DOMAIN L.tables

LEMMA StatementGrows ==
  ASSUME NEW L, IsLibrary(L), NEW s, Sound(s), ~Fails(s, L), NEW M, M = After(s, L),
         s.op \in {"create", "make", "add", "index", "look", "begin", "commit"}
  PROVE  Grown(s, L, M)
<1>1. CASE s.op \in {"create", "make"}
  BY <1>1, AfterCreate DEF Grown, Extra
<1>2. CASE s.op \in {"add", "index"}
  <2>1. /\ IsLibrary(M) /\ DOMAIN M.tables = DOMAIN L.tables /\ M.version = L.version
    BY <1>2, AfterAlter
  <2>2. s.table \in DOMAIN L.tables
    BY <1>2 DEF Fails, Has
  <2>3. M = [L EXCEPT !.tables[s.table].cols = @ \cup Extra(s)]
    BY <1>2 DEF After, Extra
  <2>4. /\ L = [version |-> L.version, tables |-> L.tables]
        /\ L.tables = [t \in DOMAIN L.tables |-> L.tables[t]]
        /\ \A t \in DOMAIN L.tables : L.tables[t] = [cols |-> L.tables[t].cols, rows |-> L.tables[t].rows]
    BY DEF IsLibrary, IsTable
  <2>5. M.tables = [L.tables EXCEPT ![s.table].cols = @ \cup Extra(s)]
    BY <2>3, <2>4
  <2>6. \A t \in DOMAIN L.tables :
           M.tables[t].cols = L.tables[t].cols \cup (IF t = s.table THEN Extra(s) ELSE {})
    BY ONLY <2>2, <2>4, <2>5
  <2>7. QED
    BY <1>2, <2>1, <2>2, <2>6 DEF Grown
<1>3. CASE s.op \in {"look", "begin", "commit"}
  <2>1. M = L
    BY <1>3 DEF After
  <2>2. QED
    BY <1>3, <2>1 DEF Grown, Extra
<1>4. QED
  BY <1>1, <1>2, <1>3

LEMMA GrownHas ==
  ASSUME NEW L, NEW s, NEW M, Grown(s, L, M)
  PROVE  /\ \A t, cols : Has(L, t, cols) => Has(M, t, cols)
         /\ s.op = "add" => Has(M, s.table, s.cols)
         /\ s.op = "index" => Has(M, s.table, {s.arg})
         /\ \A t, col : Has(M, t, {col}) => \/ Has(L, t, {col})
                                            \/ t = s.table /\ col \in Extra(s)
                                            \/ t = s.table /\ t \notin DOMAIN L.tables
                                               /\ s.op \in {"create", "make"} /\ col \in s.cols
  BY DEF Grown, Has, Extra

LEMMA PlausibleGrows ==
  ASSUME NEW L, Plausible(L), NEW s, NEW M, Grown(s, L, M),
         s.op \in {"create", "make"} /\ s.table \notin DOMAIN L.tables
           => PlausibleTable(L.version, s.table, s.cols),
         s.op \in {"add", "index"} =>
           /\ s.table \in DOMAIN Since /\ Extra(s) \subseteq Final(s.table)
           /\ Extra(s) \cap {"prune", "summary_json"} = {}
           /\ L.version # 0 => Timely(L.version, s.table, Extra(s))
  PROVE  Plausible(M)
<1> SUFFICES ASSUME NEW t \in DOMAIN M.tables PROVE PlausibleTable(M.version, t, M.tables[t].cols)
  BY DEF Plausible
<1>1. M.version = L.version
  BY DEF Grown
<1>2. CASE t \notin DOMAIN L.tables
  BY <1>1, <1>2 DEF Grown
<1>3. CASE t \in DOMAIN L.tables /\ (t # s.table \/ s.op \notin {"add", "index"})
  <2>1. M.tables[t].cols = L.tables[t].cols
    BY <1>3 DEF Grown, Extra
  <2>2. QED
    BY <1>1, <1>3, <2>1 DEF Plausible
<1>4. CASE t \in DOMAIN L.tables /\ t = s.table /\ s.op \in {"add", "index"}
  <2>1. M.tables[t].cols = L.tables[t].cols \cup Extra(s)
    BY <1>4 DEF Grown
  <2>2. NameOf(t) = t /\ PlausibleTable(L.version, t, L.tables[t].cols)
    BY <1>4, NamesOf DEF Plausible
  <2>3. QED
    BY <1>1, <1>4, <2>1, <2>2 DEF PlausibleTable, Timely
<1>5. QED
  BY <1>2, <1>3, <1>4

LEMMA ReachedGrows ==
  ASSUME NEW L, Reached(L), NEW s, NEW M, Grown(s, L, M),
         s.table \in DOMAIN M.tables \ DOMAIN L.tables /\ s.table \in TablesOf(L.version)
           => ColsOf(L.version, s.table) \ Indexes \subseteq s.cols
  PROVE  Reached(M)
<1>1. \A t \in TablesOf(L.version) : Missing(L, t) =>
        Missing(M, t) \/ Has(M, t, ColsOf(L.version, t) \ Indexes)
  BY DEF Missing, Grown, Has
<1>2. \A t \in TablesOf(L.version) : Has(L, t, ColsOf(L.version, t) \ Indexes)
                                       => Has(M, t, ColsOf(L.version, t) \ Indexes)
  BY GrownHas
<1>3. QED
  BY <1>1, <1>2 DEF Reached, Grown

LEMMA LeftoverGrows ==
  ASSUME NEW L, Leftover(L), NEW s, NEW M, Grown(s, L, M), s.table \in Copies => s.op \notin {"create", "make"},
         \A t \in Rebuilt : L.version \in Rebuilds /\ Subject(L.version) = t /\ Has(M, t, {Mark(L.version)})
           => Has(L, t, {Mark(L.version)}) \/ (t = "jobs" /\ Has(M, "jobs", {"prune"}))
  PROVE  Leftover(M)
<1> SUFFICES ASSUME NEW t \in Rebuilt, New[t] \in DOMAIN M.tables
             PROVE  \/ /\ M.version \in Rebuilds /\ Subject(M.version) = t /\ ~Has(M, t, {Mark(M.version)})
                       /\ MadeCols(M.version) \subseteq M.tables[New[t]].cols
                    \/ t = "jobs" /\ Has(M, "jobs", {"prune"})
  BY DEF Leftover
<1>1. New[t] \in Copies
  BY Distinct
<1>2. New[t] \in DOMAIN L.tables /\ L.tables[New[t]].cols \subseteq M.tables[New[t]].cols
  BY <1>1 DEF Grown
<1>3. M.version = L.version
  BY DEF Grown
<1>4. Has(L, "jobs", {"prune"}) => Has(M, "jobs", {"prune"})
  BY GrownHas
<1>5. QED
  BY <1>2, <1>3, <1>4 DEF Leftover

-----------------------------------------------------------------------------
(* create_schema().                                                        *)

\* What the statements before a place have made is there.
Done(n, s, L) ==
    /\ s.op = "create" => Has(L, s.table, IF n = 0 THEN {} ELSE s.cols)
    /\ s.op \in {"add", "index"} => Has(L, s.table, s.cols)
DoneTo(a, L) == \A j \in 1 .. a.line - 1 : Done(a.script, Scripts[a.script][j], L)

LEMMA SchemaScript ==
  /\ Fresh(Scripts[0]) /\ Len(Scripts[0]) = 35 /\ DOMAIN Scripts[0] = 1 .. 35 /\ Scripts[0][35] = Stamp
  /\ 0 \in 0 .. SchemaVersion - 1 /\ 0 \notin Rebuilds
<1>1. Scripts[0] = CreateSchema
  BY DEF Scripts, SchemaVersion
<1>2. 0 \in 0 .. SchemaVersion - 1 /\ 0 \notin Rebuilds
  BY DEF SchemaVersion, Rebuilds
<1>3. QED
  BY <1>1, <1>2, CreateSchemaFresh, CreateSchemaLines

\* A line of create_schema().
LEMMA SchemaLine ==
  ASSUME NEW i \in 1 .. 35, NEW s, s = Scripts[0][i]
  PROVE  /\ FreshLine(s) /\ (i # 35 => Tame(s) /\ s.op # "stamp") /\ Sound(s)
         /\ s.op = "create" => /\ s.table = "files" => i = 1
                               /\ s.table = "jobs" => i > 2
                               /\ s.table \in {"processing_stats", "transcription_results"} => i > 13
         /\ s.op = "index" => \E j \in 1 .. 35 : /\ j < i /\ Scripts[0][j].op = "create"
                                                 /\ Scripts[0][j].table = s.table
<1>1. i \in DOMAIN Scripts[0] /\ Fresh(Scripts[0])
  BY SchemaScript
<1>2. FreshLine(s)
  BY <1>1 DEF Fresh
<1>3. s.op = "create" => /\ s.table = "files" => i = 1
                         /\ s.table = "jobs" => i > 2
                         /\ s.table \in {"processing_stats", "transcription_results"} => i > 13
  BY <1>1 DEF Fresh
<1>4. s.op = "index" => \E j \in DOMAIN Scripts[0] : /\ j < i /\ Scripts[0][j].op = "create"
                                                    /\ Scripts[0][j].table = s.table
  BY <1>1 DEF Fresh
<1>5. i # 35 => Tame(s)
  <2> DEFINE a == [script |-> 0, line |-> i]
  <2>1. a.script = 0 /\ a.line = i
    OBVIOUS
  <2> HIDE DEF a
  <2>2. QED
    BY <2>1, GentleLine, SchemaScript
<1>6. Sound(s)
  <2>1. Stamp = Closing(0)
    BY DEF Closing
  <2>2. i = 35 => s = Stamp
    BY SchemaScript
  <2>3. QED
    BY <1>5, <2>1, <2>2, ClosingFacts, SchemaScript DEF Tame
<1>7. QED
  BY <1>2, <1>3, <1>4, <1>5, <1>6, SchemaScript DEF Tame

LEMMA SchemaLines ==
  \A i \in 1 .. 35 :
    /\ FreshLine(Scripts[0][i])
    /\ Scripts[0][i].op = "create" =>
         /\ Scripts[0][i].table = "files" => i = 1
         /\ Scripts[0][i].table = "jobs" => i > 2
         /\ Scripts[0][i].table \in {"processing_stats", "transcription_results"} => i > 13
  BY ONLY SchemaLine

\* create_schema() comes to the jobs only in a library of version 8 or later,
\* and past them only from version 19 on, unless the library is not stamped.
LEMMA AskedFor ==
  ASSUME NEW a, a.script = 0, a.line \in 1 .. 35, NEW L, Plausible(L), DoneTo(a, L), L.version # 0
  PROVE  /\ a.line > 2 => L.version >= 8
         /\ a.line > 13 => L.version >= 19
         /\ a.line > 25 => /\ L.version >= 22 /\ Has(L, "jobs", {"origin"}) /\ Has(L, "jobs", {"batch_id"})
                           /\ Has(L, "processing_stats", {"job_id"})
<1>1. \A j \in 1 .. 35 : j < a.line => Done(0, Scripts[0][j], L)
  BY DEF DoneTo
<1>2. /\ Asks(Scripts[0][2], "files", "job_id") /\ Asks(Scripts[0][13], "jobs", "origin")
      /\ Asks(Scripts[0][14], "jobs", "batch_id") /\ Asks(Scripts[0][25], "processing_stats", "job_id")
  BY SchemaScript, Zenon DEF Fresh
<1>3. /\ a.line > 2 => Has(L, "files", {"job_id"})
      /\ a.line > 13 => Has(L, "jobs", {"origin"})
      /\ a.line > 14 => Has(L, "jobs", {"batch_id"})
      /\ a.line > 25 => Has(L, "processing_stats", {"job_id"})
  <2>1. /\ a.line > 2 => Done(0, Scripts[0][2], L)
        /\ a.line > 13 => Done(0, Scripts[0][13], L)
        /\ a.line > 14 => Done(0, Scripts[0][14], L)
        /\ a.line > 25 => Done(0, Scripts[0][25], L)
    BY <1>1
  <2>2. \A s, t, col : Asks(s, t, col) /\ Done(0, s, L) => Has(L, t, {col})
    BY DEF Asks, Done
  <2>3. QED
    BY ONLY <1>2, <2>1, <2>2
<1>4. \A t \in {"files", "jobs", "processing_stats"} : NameOf(t) = t
  BY DEF NameOf
<1>5. \A t \in {"files", "jobs", "processing_stats"} : t \in DOMAIN L.tables =>
         Timely(L.version, t, L.tables[t].cols)
  BY <1>4 DEF Plausible, PlausibleTable
<1>6. QED
  BY <1>3, <1>5 DEF Timely, Has

LEMMA SubjectsOf ==
  /\ \A n \in Rebuilds : Subject(n) \in Rebuilt
  /\ Subject(6) = "jobs" /\ Subject(15) = "transcription_results" /\ Subject(19) = "jobs"
  /\ Subject(24) = "processing_stats" /\ Subject(25) = "jobs"
  BY GainFacts DEF Subject

LEMMA FirstVersions ==
  /\ \A v \in Nat : v >= 1 => "files" \in TablesOf(v)
  /\ \A v \in Nat : v >= 8 => "jobs" \in TablesOf(v)
  /\ \A v \in Nat : v >= 19 => "processing_stats" \in TablesOf(v) /\ "transcription_results" \in TablesOf(v)
  BY DEF TablesOf, Since

\* A table that create_schema() makes is new, or comes in time.
LEMMA SchemaIsTimely ==
  ASSUME NEW a, a.script = 0, a.line \in 1 .. 35, NEW s, s = Scripts[0][a.line], s.op = "create",
         NEW L, IsLibrary(L), Sane(L), AllOrNothing(L), DoneTo(a, L), s.table \notin DOMAIN L.tables
  PROVE  /\ PlausibleTable(L.version, s.table, s.cols)
         /\ L.version \in Rebuilds /\ Subject(L.version) = s.table => s.table = "jobs"
<1> DEFINE v == L.version
<1>1. s.table \in DOMAIN Since /\ s.cols = Final(s.table) \ Indexes /\ NameOf(s.table) = s.table
  <2>1. FreshLine(s)
    BY SchemaLines
  <2>2. QED
    BY <2>1, NamesOf DEF FreshLine
<1>2. v \in 0 .. SchemaVersion
  BY DEF IsLibrary
<1>3. /\ s.table = "files" => a.line = 1
      /\ s.table = "jobs" => a.line > 2
      /\ s.table \in {"processing_stats", "transcription_results"} => a.line > 13
  <2>1. \A i \in 1 .. 35 : Scripts[0][i].op = "create" =>
          /\ Scripts[0][i].table = "files" => i = 1
          /\ Scripts[0][i].table = "jobs" => i > 2
          /\ Scripts[0][i].table \in {"processing_stats", "transcription_results"} => i > 13
    BY SchemaLines
  <2>2. QED
    BY <2>1, Zenon
<1>4. v # 0 => (a.line > 2 => v >= 8) /\ (a.line > 13 => v >= 19)
  BY AskedFor DEF Sane
<1>5. \A t \in TablesOf(v) : t = s.table => Missing(L, t)
  BY DEF Sane, Reached, Has
<1>6. v # 0 => s.table # "files"
  <2>1. SUFFICES ASSUME v # 0, s.table = "files" PROVE FALSE
    OBVIOUS
  <2>2. Missing(L, "files")
    BY <1>2, <1>5, <2>1, FirstVersions DEF SchemaVersion
  <2>3. "files" \notin Rebuilt /\ "files" # "operations"
    BY Names
  <2>4. QED
    BY <2>2, <2>3, SubjectsOf DEF Missing
<1>7. v # 0 /\ s.table = "jobs" => v >= 19
  <2>1. SUFFICES ASSUME v # 0, s.table = "jobs" PROVE v >= 19
    OBVIOUS
  <2>2. v >= 8
    BY <1>3, <1>4, <2>1
  <2>3. Missing(L, "jobs")
    BY <1>2, <1>5, <2>1, <2>2, FirstVersions DEF SchemaVersion
  <2>4. v \in Rebuilds /\ Subject(v) = "jobs"
    BY <2>3 DEF Missing
  <2>5. QED
    BY <2>2, <2>4, SubjectsOf DEF Rebuilds
<1>8. s.table = "processing_stats" => v = 0
  <2>1. SUFFICES ASSUME v # 0, s.table = "processing_stats" PROVE FALSE
    OBVIOUS
  <2>2. v >= 19
    BY <1>3, <1>4, <2>1
  <2>3. Missing(L, "processing_stats")
    BY <1>2, <1>5, <2>1, <2>2, FirstVersions DEF SchemaVersion
  <2>4. v = 24
    BY <2>3, SubjectsOf DEF Missing, Rebuilds
  <2>5. QED
    BY <2>1, <2>4, SubjectsOf DEF AllOrNothing
<1>9. s.table = "transcription_results" => v = 0
  <2>1. SUFFICES ASSUME v # 0, s.table = "transcription_results" PROVE FALSE
    OBVIOUS
  <2>2. v >= 19
    BY <1>3, <1>4, <2>1
  <2>3. Missing(L, "transcription_results")
    BY <1>2, <1>5, <2>1, <2>2, FirstVersions DEF SchemaVersion
  <2>4. v = 15
    BY <2>3, SubjectsOf DEF Missing, Rebuilds
  <2>5. QED
    BY <2>2, <2>4
<1>10. v # 0 => Timely(v, s.table, s.cols)
  BY <1>6, <1>7, <1>8 DEF Timely
<1>11. s.table = "jobs" => s.cols = JobsOf26 /\ JobsOf7 \subseteq s.cols
  BY <1>1, FinalColumns DEF JobsOf26
<1>12. PlausibleTable(v, s.table, s.cols)
  BY <1>1, <1>10, <1>11 DEF PlausibleTable
<1>13. v \in Rebuilds => v # 0 /\ Subject(v) \in {"jobs", "processing_stats", "transcription_results"}
  BY SubjectsOf, Names DEF Rebuilds
<1>14. QED
  BY <1>8, <1>9, <1>12, <1>13

LEMMA MarksAreColumns ==
  /\ \A n \in Rebuilds : Mark(n) \notin Indexes /\ Mark(n) # "table"
  /\ "prune" \in JobsOf26
  BY DEF Mark, Indexes, Rebuilds, JobsOf26

LEMMA SchemaStep ==
  ASSUME NEW a, a.script = 0, a.line \in 1 .. 34, NEW s, s = Scripts[0][a.line],
         NEW L, IsLibrary(L), ~Fails(s, L), NEW M, M = After(s, L),
         Sane(L), AllOrNothing(L), DoneTo(a, L)
  PROVE  /\ Sane(M) /\ AllOrNothing(M) /\ M.version = L.version
         /\ \A j \in 1 .. a.line : Done(0, Scripts[0][j], M)
<1>1. FreshLine(s) /\ Tame(s) /\ s.op # "stamp"
  <2>1. a.line \in 1 .. 35 /\ a.line # 35
    OBVIOUS
  <2>2. \A i \in 1 .. 35 : FreshLine(Scripts[0][i])
                            /\ (i # 35 => Tame(Scripts[0][i]) /\ Scripts[0][i].op # "stamp")
    BY ONLY SchemaLine
  <2>3. QED
    BY ONLY <2>1, <2>2, s = Scripts[0][a.line]
<1>2. Grown(s, L, M)
  BY <1>1, StatementGrows DEF FreshLine, Tame
<1>11. /\ \A t, cols : Has(L, t, cols) => Has(M, t, cols)
       /\ \A t, col : Has(M, t, {col}) => \/ Has(L, t, {col})
                                          \/ t = s.table /\ col \in Extra(s)
                                          \/ t = s.table /\ t \notin DOMAIN L.tables
  BY ONLY <1>2, GrownHas
<1>3. s.table \in DOMAIN M.tables \ DOMAIN L.tables => s.op = "create"
  BY <1>1, <1>2 DEF Grown, FreshLine
<1>4. s.op = "create" /\ s.table \notin DOMAIN L.tables =>
        /\ PlausibleTable(L.version, s.table, s.cols)
        /\ L.version \in Rebuilds /\ Subject(L.version) = s.table => s.table = "jobs"
  BY SchemaIsTimely
<1>5. Plausible(M)
  <2>1. s.op = "index" => Extra(s) = {s.arg} /\ s.arg \in Indexes \cap Final(s.table) /\ s.table \in DOMAIN Since
    BY <1>1 DEF Extra, FreshLine
  <2>2. Indexes \cap {"prune", "summary_json", "job_id", "origin"} = {}
    BY DEF Indexes
  <2>3. s.op # "make" /\ s.op # "add"
    BY <1>1 DEF FreshLine
  <2>4. s.op = "index" => Timely(L.version, s.table, Extra(s)) /\ Extra(s) \cap {"prune", "summary_json"} = {}
    BY <2>1, <2>2 DEF Timely
  <2>5. QED
    BY <1>2, <1>4, <2>1, <2>3, <2>4, PlausibleGrows DEF Sane
<1>6. Reached(M)
  <2>1. s.op = "create" => ColsOf(L.version, s.table) \ Indexes \subseteq s.cols
    BY <1>1 DEF FreshLine, ColsOf, Final
  <2>2. QED
    BY <1>2, <1>3, <2>1, ReachedGrows DEF Sane
<1>7. Leftover(M)
  <2>1. s.table \in Copies => s.op \notin {"create", "make"}
    BY <1>1, NamesOf DEF FreshLine
  <2>2. ASSUME NEW t \in Rebuilt, L.version \in Rebuilds, Subject(L.version) = t,
               Has(M, t, {Mark(L.version)}), ~Has(L, t, {Mark(L.version)})
        PROVE  t = "jobs" /\ Has(M, "jobs", {"prune"})
    <3>1. Mark(L.version) \notin Extra(s)
      BY <1>1, <2>2, MarksAreColumns DEF FreshLine, Extra
    <3>2. t = s.table /\ t \notin DOMAIN L.tables
      BY <1>11, <2>2, <3>1
    <3>5. t \in DOMAIN M.tables
      BY <2>2 DEF Has
    <3>6. s.op = "create"
      BY <1>1, <1>2, <3>2, <3>5 DEF FreshLine, Grown
    <3>7. t = "jobs" /\ M.tables[t].cols = s.cols
      BY <1>2, <1>4, <2>2, <3>2, <3>5, <3>6 DEF Grown
    <3>3. s.cols = JobsOf26
      BY <1>1, <3>2, <3>6, <3>7, FinalColumns DEF FreshLine
    <3>4. QED
      BY <3>3, <3>5, <3>7, MarksAreColumns DEF Has
  <2>3. QED
    BY <1>2, <2>1, <2>2, LeftoverGrows DEF Sane
<1>8. AllOrNothing(M)
  <2>1. \A t \in Copies : t \in DOMAIN M.tables => t \in DOMAIN L.tables
    BY <1>1, <1>2, NamesOf DEF Grown, FreshLine
  <2>2. Has(L, "jobs", {"prune"}) => Has(M, "jobs", {"prune"})
    BY ONLY <1>11
  <2>3. QED
    BY <1>2, <2>1, <2>2, Names DEF AllOrNothing, Grown
<1>9. ASSUME NEW j \in 1 .. a.line PROVE Done(0, Scripts[0][j], M)
  <2>4. \A r : Done(0, r, L) => Done(0, r, M)
    BY ONLY <1>11 DEF Done
  <2>1. CASE j = a.line
    <3>1. s.op = "index" => Has(M, s.table, s.cols)
      BY <1>11 DEF Fails
    <3>2. s.op # "add" /\ (s.op = "create" => Has(M, s.table, {}))
      BY <1>1, <1>2 DEF FreshLine, Grown, Has
    <3>3. QED
      BY <2>1, <3>1, <3>2 DEF Done
  <2>2. CASE j # a.line
    <3>1. j \in 1 .. a.line - 1
      BY <2>2
    <3>2. QED
      BY <2>4, <3>1 DEF DoneTo
  <2>3. QED
    BY <2>1, <2>2
<1>10. QED
  BY <1>2, <1>5, <1>6, <1>7, <1>8, <1>9 DEF Sane, Grown

\* In a library that is not stamped no statement of it fails.
LEMMA SchemaHolds ==
  ASSUME NEW a, a.script = 0, a.line \in 1 .. 35, NEW s, s = Scripts[0][a.line],
         NEW L, Plausible(L), DoneTo(a, L), L.version = 0
  PROVE  ~Fails(s, L)
<1>1. FreshLine(s)
  BY SchemaLine
<1>2. CASE s.op = "index"
  <2>1. PICK j \in 1 .. 35 : /\ j < a.line /\ Scripts[0][j].op = "create"
                             /\ Scripts[0][j].table = s.table
    BY <1>2, SchemaLine
  <2>2. s.table \in DOMAIN L.tables
    <3>1. j \in 1 .. a.line - 1
      BY <2>1
    <3>2. Done(0, Scripts[0][j], L)
      BY <3>1 DEF DoneTo
    <3>3. QED
      BY <2>1, <3>2 DEF Done, Has
  <2>3. NameOf(s.table) = s.table
    BY <1>1, <1>2, NamesOf DEF FreshLine
  <2>4. Final(s.table) \ Indexes \subseteq L.tables[s.table].cols
    BY <2>2, <2>3 DEF Plausible, PlausibleTable
  <2>5. QED
    BY <1>1, <1>2, <2>2, <2>4 DEF FreshLine, Fails, Has
<1>3. CASE s.op \in {"create", "stamp"}
  BY <1>3 DEF Fails
<1>4. QED
  BY <1>1, <1>2, <1>3 DEF FreshLine

LEMMA Late ==
  ASSUME NEW v \in 22 .. SchemaVersion, NEW t \in DOMAIN Since
  PROVE  /\ t \in TablesOf(v) \/ t = "library_snapshots"
         /\ \A c \in Final(t) \ Indexes :
              \/ c \in ColsOf(v, t) \ Indexes
              \/ c \in {"fk_job", "prune", "container_tags"}
              \/ t = "jobs" /\ c \in {"origin", "batch_id"}
              \/ t = "processing_stats" /\ c = "job_id"
  BY DEF TablesOf, Since, SchemaVersion, Final, ColsOf, Indexes

LEMMA LastVersion ==
  /\ \A t \in DOMAIN Since : ColsOf(SchemaVersion, t) = Final(t)
  /\ TablesOf(SchemaVersion) = DOMAIN Since
  /\ SchemaVersion \notin Rebuilds /\ SchemaVersion \notin {0, 24, 25}
<1>1. SchemaVersion \notin Rebuilds /\ SchemaVersion \notin {0, 24, 25}
  BY DEF Rebuilds, SchemaVersion
<1>2. TablesOf(SchemaVersion) = DOMAIN Since
  BY DEF TablesOf, Since, SchemaVersion
<1>3. \A t \in DOMAIN Since : \A c \in DOMAIN Since[t] : Since[t][c] <= SchemaVersion
  BY DEF Since, SchemaVersion
<1>4. \A t \in DOMAIN Since : ColsOf(SchemaVersion, t) = Final(t)
  BY <1>3 DEF ColsOf, Final
<1>5. QED
  BY <1>1, <1>2, <1>4

\* Where create_schema() ends: every table is there, with the columns of a new
\* library but those of the last three migrations.
Furnished(L) ==
    \A t \in DOMAIN Since :
      Final(t) \ Indexes \subseteq TableOf(L, t).cols \cup {"fk_job", "prune", "container_tags"}

LEMMA AllTablesMade ==
  ASSUME NEW a, a.script = 0, a.line = 35, NEW L, DoneTo(a, L)
  PROVE  DOMAIN Since \subseteq DOMAIN L.tables
<1> SUFFICES ASSUME NEW t \in DOMAIN Since PROVE t \in DOMAIN L.tables
  OBVIOUS
<1>1. PICK j \in 1 .. 35 : Scripts[0][j].op = "create" /\ Scripts[0][j].table = t
  <2>1. DOMAIN Scripts[0] = 1 .. 35 /\ Fresh(Scripts[0])
    BY SchemaScript
  <2>2. \E j \in DOMAIN Scripts[0] : Scripts[0][j].op = "create" /\ Scripts[0][j].table = t
    BY <2>1, Zenon DEF Fresh
  <2>3. QED
    BY ONLY <2>1, <2>2
<1>2. Scripts[0][35].op = "stamp"
  BY SchemaScript DEF Stamp, Statement
<1>3. j # 35
  BY <1>1, <1>2
<1>6. j \in 1 .. 34
  BY <1>3
<1>4. Done(0, Scripts[0][j], L)
  BY <1>6 DEF DoneTo
<1>5. QED
  BY <1>1, <1>4 DEF Done, Has

LEMMA SchemaEnds ==
  ASSUME NEW a, a.script = 0, a.line = 35, NEW L, IsLibrary(L), Sane(L), AllOrNothing(L),
         DoneTo(a, L), NEW M, M = After(Scripts[0][35], L)
  PROVE  /\ Sane(M) /\ AllOrNothing(M) /\ Furnished(M)
         /\ L.version = 0 => M.version = SchemaVersion
<1>1. /\ M.tables = L.tables
      /\ M.version = IF L.version = 0 THEN SchemaVersion ELSE L.version
  BY SchemaScript, ClosingKeepsTables DEF Closing
<1>2. \A t \in DOMAIN Since : t \in DOMAIN L.tables /\ NameOf(t) = t
  BY AllTablesMade, NamesOf
<1>3. CASE L.version = 0
  <2>1. \A t \in DOMAIN Since : Final(t) \ Indexes \subseteq L.tables[t].cols
    BY <1>2, <1>3 DEF Sane, Plausible, PlausibleTable
  <2>2. M.version = SchemaVersion
    BY <1>1, <1>3
  <2>3. Plausible(M)
    <3>1. \A t, cols : Timely(SchemaVersion, t, cols)
      BY DEF Timely, SchemaVersion
    <3>2. QED
      BY <1>1, <1>3, <2>2, <3>1, LastVersion DEF Sane, Plausible, PlausibleTable
  <2>4. Reached(M)
    BY <1>1, <1>2, <2>1, <2>2, LastVersion DEF Reached, Has
  <2>5. Leftover(M)
    <3>1. 0 \notin Rebuilds
      BY DEF Rebuilds
    <3>2. QED
      BY <1>1, <1>3, <3>1 DEF Sane, Leftover, Has
  <2>6. AllOrNothing(M)
    BY <2>2, LastVersion DEF AllOrNothing
  <2>7. Furnished(M)
    BY <1>1, <1>2, <2>1 DEF Furnished, TableOf
  <2>8. QED
    BY <2>2, <2>3, <2>4, <2>5, <2>6, <2>7 DEF Sane
<1>4. CASE L.version # 0
  <2>1. M.tables = L.tables /\ M.version = L.version
    BY <1>1, <1>4
  <2>2. Sane(M) /\ AllOrNothing(M)
    <3>1. L = [version |-> L.version, tables |-> L.tables]
      BY DEF IsLibrary
    <3>2. M = L
      <4>1. Scripts[0][35] = Stamp
        BY SchemaScript
      <4>2. QED
        BY <1>4, <4>1 DEF After, Stamp, Statement
    <3>3. QED
      BY <3>2
  <2>3. /\ L.version >= 22 /\ Has(L, "jobs", {"origin"}) /\ Has(L, "jobs", {"batch_id"})
        /\ Has(L, "processing_stats", {"job_id"})
    BY <1>4, AskedFor DEF Sane
  <2>4. L.version \in 22 .. SchemaVersion
    BY <2>3 DEF IsLibrary, SchemaVersion
  <2>5. \A t \in TablesOf(L.version) : ColsOf(L.version, t) \ Indexes \subseteq L.tables[t].cols
    <3>1. TablesOf(L.version) \subseteq DOMAIN Since
      BY DEF TablesOf
    <3>2. \A t \in DOMAIN Since : ~Missing(L, t)
      BY <1>2 DEF Missing
    <3>3. QED
      BY <3>1, <3>2 DEF Sane, Reached, Has
  <2>6. ASSUME NEW t \in DOMAIN Since
        PROVE  Final(t) \ Indexes \subseteq L.tables[t].cols \cup {"fk_job", "prune", "container_tags"}
    <3>1. CASE t \in TablesOf(L.version)
      <4> SUFFICES ASSUME NEW c \in Final(t) \ Indexes, c \notin {"fk_job", "prune", "container_tags"}
                   PROVE  c \in L.tables[t].cols
        OBVIOUS
      <4>1. \/ c \in ColsOf(L.version, t) \ Indexes
            \/ t = "jobs" /\ c \in {"origin", "batch_id"}
            \/ t = "processing_stats" /\ c = "job_id"
        BY <2>4, Late
      <4>2. QED
        BY <2>3, <2>5, <3>1, <4>1 DEF Has
    <3>2. CASE t = "library_snapshots"
      BY <3>2, FinalColumns
    <3>3. QED
      BY <2>4, <3>1, <3>2, Late
  <2>7. Furnished(M)
    BY <1>2, <2>1, <2>6 DEF Furnished, TableOf
  <2>8. QED
    BY <1>4, <2>2, <2>7
<1>5. QED
  BY <1>3, <1>4

-----------------------------------------------------------------------------
(* The migrations that rebuild nothing, from any library that is sane.     *)

LEMMA GentleFacts ==
  ASSUME NEW n \in Gentle
  PROVE  /\ n \in 1 .. SchemaVersion - 1 /\ n \in 0 .. SchemaVersion - 1 /\ n \notin Rebuilds /\ n # 0
         /\ n \in Nat /\ n + 1 # 0 /\ n + 1 # 25 /\ n + 1 \in 0 .. SchemaVersion
  BY DEF Gentle, Rebuilds, SchemaVersion

LEMMA GentleLines ==
  ASSUME NEW n \in Gentle, NEW i \in 1 .. Len(Scripts[n]), NEW s, s = Scripts[n][i]
  PROVE  /\ Plain(n, s) /\ Sound(s) /\ i \in DOMAIN Scripts[n]
         /\ i # Len(Scripts[n]) => Tame(s) /\ s.op # "version"
         /\ i = Len(Scripts[n]) => s = Version(n + 1) /\ s = Closing(n)
<1>1. DOMAIN Scripts[n] = 1 .. Len(Scripts[n]) /\ Len(Scripts[n]) > 0
  BY GentleFacts, Lines
<1>2. Plain(n, s)
  BY <1>1, GentleScripts DEF GentleShape
<1>3. Whole(Scripts[n], n)
  BY GentleFacts, ScriptShapes
<1>4. i # Len(Scripts[n]) => Tame(s)
  BY <1>1, <1>3 DEF Whole
<1>5. Closing(n) = Version(n + 1)
  BY GentleFacts DEF Closing
<1>6. Sound(Closing(n))
  BY GentleFacts, ClosingFacts
<1>7. i = Len(Scripts[n]) => s = Closing(n)
  BY <1>3 DEF Whole, Ended
<1>8. QED
  BY <1>1, <1>2, <1>4, <1>5, <1>6, <1>7 DEF Tame

\* Migration 2, the only one that discards a table and makes it anew.
LEMMA Discarding ==
  LET S == Scripts[2]
  IN  /\ S[1].op = "discard" /\ S[1].table = "operations"
      /\ S[2].op = "create" /\ S[2].table = "operations" /\ S[2].cols = {"policy_name"}
      /\ S[3].op = "index" /\ S[3].table = "operations" /\ S[3].cols = {} /\ S[3].arg = "ix"
      /\ S[4].op = "version" /\ Len(S) = 4
      /\ \A i \in 1 .. 4 : S[i].unless = "never"
<1>1. Scripts[2] = Migrate2
  BY DEF Scripts, Migrations, SchemaVersion
<1> DEFINE s == Migrate2
<1>2. /\ Len(s) = 4
      /\ s[1] = DropIfExists("operations")
      /\ s[2] = Create("operations", {"policy_name"})
      /\ s[3] = Index("operations", "ix", {})
      /\ s[4] = Version(3)
  BY DEF Migrate2, Table
<1> HIDE DEF s
<1>3. \A i \in {1, 2, 3, 4} : s[i].unless = "never"
  BY <1>2, Constructors
<1>4. 1 .. 4 = {1, 2, 3, 4}
  OBVIOUS
<1>5. QED
  BY <1>1, <1>2, <1>3, <1>4, Constructors DEF s

\* What is not skipped yet, and was looked for in its table.
Pending(a, i) ==
    /\ i \in a.line .. Len(Scripts[a.script]) /\ Scripts[a.script][i].unless # "never"
    /\ \A j \in a.line .. i - 1 : Scripts[a.script][j].op # "look"
Told(seen, s, L) ==
    /\ seen \subseteq Seen(L, s.table)
    /\ s.op = "add" /\ Has(L, s.table, s.cols) => s.unless \in seen
Looked(a, L) == \A i : Pending(a, i) => Told(a.seen, Scripts[a.script][i], L)
Cleared(a, L) == a.script = 2 /\ a.line = 2 => "operations" \notin DOMAIN L.tables

Moving(a, L) == Sane(L) /\ L.version = a.script /\ DoneTo(a, L) /\ Looked(a, L) /\ Cleared(a, L)

\* No statement of such a migration fails.
LEMMA GentleHolds ==
  ASSUME NEW a, a.script \in Gentle, a.line \in 1 .. Len(Scripts[a.script]), Due(a),
         NEW s, s = Scripts[a.script][a.line], NEW L, IsLibrary(L), Moving(a, L)
  PROVE  ~Fails(s, L)
<1> DEFINE n == a.script
           S == Scripts[a.script]
<1>1. Plain(n, s) /\ Proper(n, s) /\ a.line \in DOMAIN S
  <2>1. \A k \in 1 .. Len(S) : Plain(n, S[k]) /\ k \in DOMAIN S
    BY ONLY GentleLines, n \in Gentle
  <2>2. Plain(n, s) /\ a.line \in DOMAIN S
    BY ONLY <2>1, s = S[a.line], a.line \in 1 .. Len(S)
  <2>3. QED
    BY <2>2 DEF Plain
<1>2. \A t \in TablesOf(n) : Has(L, t, ColsOf(n, t) \ Indexes) \/ (n = 2 /\ t = "operations")
  BY GentleFacts DEF Moving, Sane, Reached, Missing
<1>3. CASE s.op = "add"
  <2>1. s.unless # "never" /\ s.cols = {s.unless}
    BY <1>1, <1>3 DEF Plain
  <2>2. n # 2
    <3>1. SUFFICES ASSUME n = 2 PROVE FALSE
      OBVIOUS
    <3>2. a.line \in 1 .. 4
      BY <3>1, Discarding
    <3>3. QED
      BY <2>1, <3>1, <3>2, Discarding
  <2>3. s.table \in DOMAIN L.tables
    BY <1>1, <1>2, <1>3, <2>2 DEF Proper, Has
  <2>4. Pending(a, a.line)
    BY <2>1 DEF Pending
  <2>5. Has(L, s.table, s.cols) => s.unless \in a.seen
    BY <1>3, <2>4 DEF Moving, Looked, Told
  <2>6. s.unless \notin a.seen
    BY DEF Due
  <2>7. QED
    BY <1>3, <2>3, <2>5, <2>6 DEF Fails
<1>4. CASE s.op = "index"
  <2>1. CASE n = 2
    <3>1. a.line \in 1 .. 4
      BY <2>1, Discarding
    <3>2. a.line = 3
      BY <1>4, <2>1, <3>1, Discarding
    <3>3. Done(2, Scripts[2][2], L)
      BY <2>1, <3>2 DEF Moving, DoneTo
    <3>4. Has(L, "operations", {"policy_name"})
      BY <3>3, Discarding DEF Done
    <3>5. s.table = "operations" /\ s.cols = {}
      BY <2>1, <3>2, Discarding
    <3>6. QED
      BY <1>4, <3>4, <3>5 DEF Fails, Has
  <2>2. CASE n # 2
    <3>1. \/ s.table \in TablesOf(n) /\ s.cols \subseteq ColsOf(n, s.table) \ Indexes
          \/ \E j \in DOMAIN S : /\ j < a.line /\ S[j].op \in {"create", "add"} /\ S[j].table = s.table
                                 /\ s.cols \subseteq S[j].cols
      BY <1>1, <1>4, GentleScripts DEF GentleShape, Prepared
    <3>2. CASE s.table \in TablesOf(n) /\ s.cols \subseteq ColsOf(n, s.table) \ Indexes
      BY <1>2, <1>4, <2>2, <3>2 DEF Fails, Has
    <3>3. ASSUME NEW j \in DOMAIN S, j < a.line, S[j].op \in {"create", "add"}, S[j].table = s.table,
                 s.cols \subseteq S[j].cols
          PROVE  ~Fails(s, L)
      <4>1. DOMAIN S = 1 .. Len(S) /\ Len(S) \in Nat
        BY GentleFacts, Lines
      <4>2. j \in 1 .. a.line - 1
        BY <3>3, <4>1
      <4>3. Done(n, S[j], L)
        BY <4>2 DEF Moving, DoneTo
      <4>4. Has(L, s.table, S[j].cols)
        BY <3>3, <4>3, GentleFacts DEF Done
      <4>5. QED
        BY <1>4, <3>3, <4>4 DEF Fails, Has
    <3>4. QED
      BY <3>1, <3>2, <3>3
  <2>3. QED
    BY <2>1, <2>2
<1>5. CASE s.op \in {"look", "create", "begin", "version", "discard"}
  BY <1>5 DEF Fails
<1>6. QED
  BY <1>1, <1>3, <1>4, <1>5 DEF Plain

\* A place of a migration in its own words: the statement and those around it.
LEMMA HereIsPlain ==
  ASSUME NEW a, a.script \in Gentle, a.line \in 1 .. Len(Scripts[a.script]),
         NEW s, s = Scripts[a.script][a.line]
  PROVE  /\ Plain(a.script, s) /\ Proper(a.script, s) /\ Sound(s) /\ a.line \in DOMAIN Scripts[a.script]
         /\ a.line # Len(Scripts[a.script]) => Tame(s) /\ s.op # "version"
         /\ a.line = Len(Scripts[a.script]) => s = Version(a.script + 1) /\ s = Closing(a.script)
<1> DEFINE n == a.script
           S == Scripts[a.script]
<1>1. \A k \in 1 .. Len(S) : /\ Plain(n, S[k]) /\ Sound(S[k]) /\ k \in DOMAIN S
                             /\ k # Len(S) => Tame(S[k]) /\ S[k].op # "version"
                             /\ k = Len(S) => S[k] = Version(n + 1) /\ S[k] = Closing(n)
  BY ONLY GentleLines, n \in Gentle
<1>2. /\ Plain(n, s) /\ Sound(s) /\ a.line \in DOMAIN S
      /\ a.line # Len(S) => Tame(s) /\ s.op # "version"
      /\ a.line = Len(S) => s = Version(n + 1) /\ s = Closing(n)
  BY ONLY <1>1, s = S[a.line], a.line \in 1 .. Len(S)
<1>3. QED
  BY <1>2 DEF Plain

\* A statement that takes nothing away leaves a library sane.
LEMMA GentleGrows ==
  ASSUME NEW n \in Gentle, NEW s, Proper(n, s), s.op \in {"look", "create", "add", "index", "begin"},
         NEW L, Sane(L), L.version = n, NEW M, Grown(s, L, M)
  PROVE  Sane(M) /\ M.version = n
<1>1. M.version = n /\ n # 0 /\ n \notin Rebuilds
  BY GentleFacts DEF Grown
<1>2. Plausible(M)
  <2>1. ASSUME s.op = "create", s.table \notin DOMAIN L.tables
        PROVE  PlausibleTable(n, s.table, s.cols)
    <3>1. s.table \in DOMAIN Since /\ s.cols \subseteq {"policy_name"} /\ s.cols \subseteq Final(s.table)
      BY <2>1 DEF Proper
    <3>2. NameOf(s.table) = s.table
      BY <3>1, NamesOf
    <3>3. Timely(n, s.table, s.cols)
      BY <3>1 DEF Timely
    <3>4. QED
      BY <1>1, <3>1, <3>2, <3>3 DEF PlausibleTable
  <2>2. ASSUME s.op = "add"
        PROVE  /\ s.table \in DOMAIN Since /\ Extra(s) \subseteq Final(s.table)
               /\ Extra(s) \cap {"prune", "summary_json"} = {}
               /\ Timely(n, s.table, Extra(s))
    BY <2>2 DEF Proper, Extra, TablesOf
  <2>3. ASSUME s.op = "index"
        PROVE  /\ s.table \in DOMAIN Since /\ Extra(s) \subseteq Final(s.table)
               /\ Extra(s) \cap {"prune", "summary_json"} = {}
               /\ Timely(n, s.table, Extra(s))
    <3>1. Extra(s) = {s.arg} /\ s.arg \in Indexes /\ s.table \in DOMAIN Since /\ s.arg \in Final(s.table)
      BY <2>3 DEF Proper, Extra
    <3>2. s.arg \notin {"prune", "summary_json", "job_id", "origin"}
      BY <3>1 DEF Indexes
    <3>3. QED
      BY <3>1, <3>2 DEF Timely
  <2>4. QED
    BY <2>1, <2>2, <2>3, PlausibleGrows DEF Sane
<1>3. Reached(M)
  <2>1. ASSUME s.table \notin DOMAIN L.tables, s.table \in TablesOf(n)
        PROVE  ColsOf(n, s.table) \ Indexes \subseteq s.cols
    <3>1. Missing(L, s.table)
      BY <2>1 DEF Sane, Reached, Has
    <3>2. n = 2 /\ s.table = "operations"
      BY <1>1, <3>1 DEF Missing
    <3>3. ColsOf(2, "operations") \ Indexes = {}
      BY DEF ColsOf, Since
    <3>4. QED
      BY <3>2, <3>3
  <2>2. QED
    BY <2>1, ReachedGrows DEF Sane
<1>4. Leftover(M)
  <2>1. s.table \in Copies => s.op # "create"
    BY NamesOf DEF Proper
  <2>2. QED
    BY <1>1, <2>1, LeftoverGrows DEF Sane
<1>5. QED
  BY <1>1, <1>2, <1>3, <1>4 DEF Sane

LEMMA DiscardIsSane ==
  ASSUME NEW L, IsLibrary(L), Sane(L), L.version = 2, NEW s, Sound(s), s.op = "discard", s.table = "operations",
         NEW M, M = After(s, L)
  PROVE  Sane(M) /\ M.version = 2 /\ "operations" \notin DOMAIN M.tables
<1>1. /\ DOMAIN M.tables = DOMAIN L.tables \ {"operations"} /\ M.version = 2
      /\ \A u \in DOMAIN M.tables : M.tables[u] = L.tables[u]
  BY AfterDiscard
<1>2. Plausible(M)
  BY <1>1 DEF Sane, Plausible
<1>3. Reached(M)
  <2>1. 2 \notin Rebuilds
    BY DEF Rebuilds
  <2>2. \A t \in TablesOf(2) : t = "operations" \/ Has(L, t, ColsOf(2, t) \ Indexes)
    BY <2>1 DEF Sane, Reached, Missing
  <2>3. \A t \in TablesOf(2) : t = "operations" \/ Has(M, t, ColsOf(2, t) \ Indexes)
    BY <1>1, <2>2 DEF Has
  <2>4. Missing(M, "operations")
    BY <1>1 DEF Missing
  <2>5. QED
    BY <1>1, <2>3, <2>4 DEF Reached
<1>4. Leftover(M)
  <2>1. \A t \in Rebuilt : t # "operations" /\ New[t] # "operations"
    BY Distinct
  <2>2. 2 \notin Rebuilds
    BY DEF Rebuilds
  <2>3. "jobs" # "operations"
    OBVIOUS
  <2>4. QED
    BY <1>1, <2>1, <2>2, <2>3 DEF Sane, Leftover, Has
<1>5. QED
  BY <1>1, <1>2, <1>3, <1>4 DEF Sane

\* What is told by the last look stays so past a statement.
LEMMA ToldAhead ==
  ASSUME NEW a, a.script \in Gentle, a.line \in 1 .. Len(Scripts[a.script]),
         NEW s, s = Scripts[a.script][a.line], NEW L, Moving(a, L),
         NEW M, Grown(s, L, M),
         NEW seen, seen = (IF s.op = "look" THEN Seen(L, s.table) ELSE a.seen),
         s.op = "look" => M = L, s.op \in {"look", "create", "add", "index", "begin"},
         NEW i \in a.line + 1 .. Len(Scripts[a.script]), NEW r, r = Scripts[a.script][i],
         r.unless # "never", \A j \in a.line + 1 .. i - 1 : Scripts[a.script][j].op # "look"
  PROVE  Told(seen, r, M)
<1> DEFINE n == a.script
           S == Scripts[a.script]
<1>1. DOMAIN S = 1 .. Len(S) /\ Len(S) \in Nat
  BY GentleFacts, Lines
<1>2. i \in DOMAIN S /\ a.line \in DOMAIN S /\ a.line < i /\ i \in 1 .. Len(S)
  BY <1>1
<1>3. Ordered(S)
  BY GentleScripts DEF GentleShape
<1>4. Plain(n, r) /\ Proper(n, r)
  <2>1. \A k \in 1 .. Len(S) : Plain(n, S[k])
    BY ONLY GentleLines, n \in Gentle
  <2>2. Plain(n, r)
    BY ONLY <1>2, <2>1, r = S[i]
  <2>3. QED
    BY <2>2 DEF Plain
<1>5. r.op = "add" => r.cols = {r.unless}
  BY <1>4 DEF Plain
<1>6. CASE s.op = "look"
  <2>1. s.table = r.table
    <3>1. SUFFICES ASSUME s.table # r.table PROVE FALSE
      OBVIOUS
    <3>2. \E k \in DOMAIN S : a.line < k /\ k < i /\ S[k].op = "look"
      BY <1>2, <1>3, <1>6, <3>1 DEF Ordered
    <3>3. PICK k \in DOMAIN S : a.line < k /\ k < i /\ S[k].op = "look"
      BY <3>2
    <3>4. k \in a.line + 1 .. i - 1
      BY <1>1, <3>3
    <3>5. QED
      BY <3>3, <3>4
  <2>2. seen = Seen(M, r.table)
    BY <1>6, <2>1
  <2>3. r.op = "add" /\ Has(M, r.table, r.cols) => r.unless \in seen
    BY <1>5, <2>2, Zenon DEF Has, Seen
  <2>4. QED
    BY <2>2, <2>3 DEF Told
<1>7. CASE s.op # "look"
  <2>1. seen = a.seen
    BY <1>7
  <2>2. Pending(a, i)
    <3>1. \A j \in a.line .. i - 1 : j = a.line \/ j \in a.line + 1 .. i - 1
      BY <1>2
    <3>2. i \in a.line .. Len(S)
      BY <1>2
    <3>3. QED
      BY <1>7, <3>1, <3>2 DEF Pending
  <2>3. Told(a.seen, r, L)
    BY <2>2 DEF Moving, Looked
  <2>4. a.seen \subseteq Seen(M, r.table)
    <3>1. Seen(L, r.table) \subseteq Seen(M, r.table)
      BY DEF Seen, Grown
    <3>2. QED
      BY <2>3, <3>1 DEF Told
  <2>5. ASSUME r.op = "add", Has(M, r.table, r.cols), r.unless \notin a.seen PROVE FALSE
    <3>1. ~Has(L, r.table, {r.unless}) /\ Has(M, r.table, {r.unless})
      BY <1>5, <2>3, <2>5 DEF Told
    <3>2. \/ r.table = s.table /\ r.unless \in Extra(s)
          \/ r.table = s.table /\ s.table \notin DOMAIN L.tables
      BY ONLY <3>1, GrownHas, Grown(s, L, M)
    <3>3. n # 2
      <4>1. SUFFICES ASSUME n = 2 PROVE FALSE
        OBVIOUS
      <4>2. i \in 1 .. 4
        BY <1>2, <4>1, Discarding
      <4>3. QED
        BY <4>1, <4>2, Discarding
    <3>4. r.table \in DOMAIN L.tables
      <4>1. r.table \in TablesOf(n)
        BY <1>4, <2>5 DEF Proper
      <4>2. QED
        BY <3>3, <4>1, GentleFacts DEF Moving, Sane, Reached, Missing, Has
    <3>5. r.table = s.table /\ r.unless \in Extra(s)
      BY <3>2, <3>4
    <3>6. s.op \in {"add", "index"}
      BY <3>5 DEF Extra
    <3>7. Plain(n, s) /\ Proper(n, s)
      BY HereIsPlain
    <3>8. CASE s.op = "index"
      <4>1. r.unless \in Indexes
        BY <3>5, <3>7, <3>8 DEF Extra, Proper
      <4>2. r.unless \notin Indexes
        BY <1>4, <1>5, <2>5 DEF Proper
      <4>3. QED
        BY <4>1, <4>2
    <3>9. CASE s.op = "add"
      <4>1. s.cols = {s.unless}
        BY <3>7, <3>9 DEF Plain
      <4>2. s.unless = r.unless
        BY <3>5, <3>9, <4>1 DEF Extra
      <4>3. s.unless # r.unless
        BY <1>2, <1>3, <2>5, <3>5, <3>9 DEF Ordered
      <4>4. QED
        BY <4>2, <4>3
    <3>10. QED
      BY <3>6, <3>8, <3>9
  <2>6. QED
    BY <2>1, <2>4, <2>5 DEF Told
<1>8. QED
  BY <1>6, <1>7

\* Where a process is after a statement of such a migration, but its last.
LEMMA GentleStep ==
  ASSUME NEW a, a.script \in Gentle, a.line \in 1 .. Len(Scripts[a.script]),
         NEW s, s = Scripts[a.script][a.line], NEW L, IsLibrary(L), ~Fails(s, L), Moving(a, L),
         NEW M, M = After(s, L),
         NEW seen, seen = (IF s.op = "look" THEN Seen(L, s.table) ELSE a.seen),
         "never" \notin seen, NEW b, Further(a, b, seen)
  PROVE  Moving(b, M)
<1> DEFINE n == a.script
           S == Scripts[a.script]
<1>1. DOMAIN S = 1 .. Len(S) /\ Len(S) \in Nat /\ n # 0 /\ n \in 0 .. SchemaVersion - 1
  BY GentleFacts, Lines
<1>2. /\ a.line # Len(S) /\ b.line > a.line /\ a.line \in Nat /\ b.line \in Nat /\ b.line \in a.line + 1 .. Len(S)
      /\ b.script = n /\ b.seen = seen
  <2>1. a.line # Len(S) /\ b.line > a.line /\ a.line \in Nat /\ b.line \in Nat
    BY <1>1, NotLast
  <2>2. b.line \in a.line + 1 .. Len(S) /\ b.script = n /\ b.seen = seen
    BY DEF Further
  <2>3. QED
    BY <2>1, <2>2
<1>3. Plain(n, s) /\ Proper(n, s) /\ Sound(s) /\ Tame(s) /\ s.op # "version"
  BY <1>2, HereIsPlain
<1>4. CASE s.op = "discard"
  <2>1. n = 2
    BY <1>3, <1>4 DEF Plain
  <2>2. a.line \in 1 .. 4
    BY <2>1, Discarding
  <2>3. a.line = 1
    BY <1>4, <2>1, <2>2, Discarding
  <2>4. s.table = "operations"
    BY <2>1, <2>3, Discarding
  <2>5. Sane(M) /\ M.version = 2 /\ "operations" \notin DOMAIN M.tables
    BY <1>3, <1>4, <2>1, <2>4, DiscardIsSane DEF Moving
  <2>6. b.line = 2
    <3>1. \A k \in 1 .. 4 : S[k].unless = "never"
      BY <2>1, Discarding
    <3>2. SUFFICES ASSUME b.line # 2 PROVE FALSE
      OBVIOUS
    <3>3. 2 \in a.line + 1 .. b.line - 1
      BY <1>2, <2>3, <3>2
    <3>4. S[2].unless \in seen
      BY <3>3 DEF Further
    <3>5. S[b.line].unless \notin seen
      BY <1>2 DEF Further
    <3>6. b.line \in 1 .. 4
      BY <1>2, <2>1, Discarding
    <3>7. QED
      BY <3>1, <3>4, <3>5, <3>6
  <2>7. DoneTo(b, M)
    <3>1. S[1].op = "discard"
      BY <1>4, <2>3
    <3>2. Done(n, S[1], M)
      BY <3>1 DEF Done
    <3>3. \A j \in 1 .. b.line - 1 : j = 1
      BY <2>6
    <3>4. QED
      BY <1>2, <3>2, <3>3 DEF DoneTo
  <2>8. Looked(b, M)
    <3>1. \A i : Pending(b, i) => i \in 1 .. 4 /\ S[i].unless # "never"
      BY <1>2, <2>1, <2>6, Discarding DEF Pending
    <3>2. QED
      BY <2>1, <3>1, Discarding DEF Looked
  <2>9. QED
    BY <1>2, <2>1, <2>5, <2>7, <2>8 DEF Moving, Cleared
<1>5. CASE s.op # "discard"
  <2>1. s.op \in {"look", "create", "add", "index", "begin"}
    BY <1>3, <1>5 DEF Plain
  <2>2. Grown(s, L, M)
    BY <1>3, <2>1, StatementGrows
  <2>3. Sane(M) /\ M.version = n
    BY <1>3, <2>1, <2>2, GentleGrows DEF Moving
  <2>4. s.op = "look" => M = L
    BY DEF After
  <2>5. \A i \in a.line + 1 .. Len(S) :
          S[i].unless # "never" /\ (\A j \in a.line + 1 .. i - 1 : S[j].op # "look") => Told(seen, S[i], M)
    BY <2>1, <2>2, <2>4, ToldAhead
  <2>6. \A j \in a.line + 1 .. b.line - 1 : /\ j \in 1 .. Len(S) /\ S[j].unless \in seen
                                            /\ S[j].unless # "never" /\ Plain(n, S[j]) /\ S[j].op # "look"
    <3> SUFFICES ASSUME NEW j \in a.line + 1 .. b.line - 1
                 PROVE  /\ j \in 1 .. Len(S) /\ S[j].unless \in seen
                        /\ S[j].unless # "never" /\ Plain(n, S[j]) /\ S[j].op # "look"
      OBVIOUS
    <3>1. j \in 1 .. Len(S)
      BY <1>1, <1>2
    <3>2. Plain(n, S[j])
      BY ONLY <3>1, GentleLines, n \in Gentle
    <3>3. S[j].unless \in seen
      BY DEF Further
    <3>4. S[j].unless # "never"
      BY <3>3
    <3>5. QED
      BY <3>1, <3>2, <3>3, <3>4 DEF Plain
  <2>7. Looked(b, M)
    <3> SUFFICES ASSUME NEW i, Pending(b, i) PROVE Told(seen, S[i], M)
      BY <1>2 DEF Looked
    <3>1. i \in b.line .. Len(S) /\ S[i].unless # "never" /\ \A j \in b.line .. i - 1 : S[j].op # "look"
      BY <1>2 DEF Pending
    <3>2. i \in a.line + 1 .. Len(S)
      BY <1>1, <1>2, <3>1
    <3>3. ASSUME NEW j \in a.line + 1 .. i - 1 PROVE S[j].op # "look"
      <4>1. j \in a.line + 1 .. b.line - 1 \/ j \in b.line .. i - 1
        BY <1>1, <1>2, <3>1
      <4>2. QED
        BY <2>6, <3>1, <4>1
    <3>4. QED
      BY <2>5, <3>1, <3>2, <3>3
  <2>8. DoneTo(b, M)
    <3> SUFFICES ASSUME NEW j \in 1 .. b.line - 1 PROVE Done(n, S[j], M)
      BY <1>2 DEF DoneTo
    <3>9. /\ \A t, cols : Has(L, t, cols) => Has(M, t, cols)
          /\ s.op = "add" => Has(M, s.table, s.cols)
      BY ONLY <2>2, GrownHas
    <3>1. CASE j \in 1 .. a.line - 1
      <4>1. Done(n, S[j], L)
        BY <3>1 DEF Moving, DoneTo
      <4>2. QED
        BY ONLY <3>9, <4>1 DEF Done
    <3>2. CASE j = a.line
      <4>1. s.op = "add" => Has(M, s.table, s.cols)
        BY <3>9
      <4>2. s.op = "index" => Has(M, s.table, s.cols)
        BY <3>9 DEF Fails
      <4>3. s.op = "create" => Has(M, s.table, s.cols)
        <5> SUFFICES ASSUME s.op = "create" PROVE Has(M, s.table, s.cols)
          OBVIOUS
        <5>1. s.table \in DOMAIN M.tables
          BY <2>2 DEF Grown
        <5>2. CASE s.table \notin DOMAIN L.tables
          BY <2>2, <5>1, <5>2, Zenon DEF Grown, Has
        <5>3. CASE s.cols = {}
          BY <5>1, <5>3 DEF Has
        <5>5. CASE s.cols # {}
          <6>1. n = 2
            BY <1>3, <5>5 DEF Proper
          <6>2. a.line \in 1 .. 4
            BY <6>1, Discarding
          <6>3. a.line = 2 /\ s.table = "operations"
            BY <6>1, <6>2, Discarding
          <6>4. s.table \notin DOMAIN L.tables
            BY <6>1, <6>3 DEF Moving, Cleared
          <6>5. QED
            BY <5>2, <6>4
        <5>6. QED
          BY <5>3, <5>5
      <4>4. QED
        BY <1>1, <3>2, <4>1, <4>2, <4>3 DEF Done
    <3>3. CASE j \in a.line + 1 .. b.line - 1
      <4>1. S[j].unless \in seen /\ S[j].unless # "never" /\ Plain(n, S[j]) /\ j \in a.line + 1 .. Len(S)
        BY <1>1, <1>2, <2>6, <3>3
      <4>2. Told(seen, S[j], M)
        <5>1. \A k \in a.line + 1 .. j - 1 : k \in a.line + 1 .. b.line - 1
          BY <1>2, <3>3
        <5>2. QED
          BY <2>5, <2>6, <4>1, <5>1
      <4>3. S[j].unless \in Seen(M, S[j].table)
        BY <4>1, <4>2 DEF Told
      <4>4. S[j].table \in DOMAIN M.tables
        BY <4>3, Zenon DEF Seen
      <4>5. CASE S[j].op \in {"create", "index"} /\ S[j].cols = {}
        BY <4>4, <4>5 DEF Done, Has
      <4>6. CASE S[j].op = "add" /\ S[j].cols = {S[j].unless}
        <5>1. S[j].cols \subseteq Final(S[j].table)
          BY <4>1, <4>6 DEF Plain, Proper
        <5>2. S[j].unless # "table"
          BY <4>6, <5>1 DEF Final
        <5>3. S[j].unless \in M.tables[S[j].table].cols
          BY <4>3, <4>4, <5>2, Zenon DEF Seen
        <5>4. QED
          BY <4>4, <4>6, <5>3 DEF Done, Has
      <4>7. QED
        BY <4>1, <4>5, <4>6 DEF Plain
    <3>4. j \in 1 .. a.line - 1 \/ j = a.line \/ j \in a.line + 1 .. b.line - 1
      BY <1>1, <1>2
    <3>5. QED
      BY <3>1, <3>2, <3>3, <3>4
  <2>9. Cleared(b, M)
    <3> SUFFICES ASSUME n = 2, b.line = 2 PROVE FALSE
      BY <1>2 DEF Cleared
    <3>1. a.line = 1
      BY <1>1, <1>2
    <3>2. s = S[1]
      BY <3>1
    <3>3. QED
      BY <1>5, <3>2, Discarding
  <2>10. QED
    BY <1>2, <2>3, <2>7, <2>8, <2>9 DEF Moving
<1>6. QED
  BY <1>4, <1>5

LEMMA Ages ==
  \A t \in DOMAIN Since : \A c \in DOMAIN Since[t] : Since[t][c] \in Nat /\ Since[t].table <= Since[t][c]
  BY DEF Since

LEMMA LaterIsTimely ==
  ASSUME NEW v \in Nat, NEW t, NEW cols, Timely(v, t, cols)
  PROVE  Timely(v + 1, t, cols)
  BY DEF Timely

LEMMA StatisticsSince == "processing_stats" \in TablesOf(23) /\ "processing_stats" \in DOMAIN Since
  BY DEF TablesOf, Since

\* Where it ends: the library has come to the next version.
LEMMA GentleEnds ==
  ASSUME NEW a, a.script \in Gentle, a.line = Len(Scripts[a.script]),
         NEW s, s = Scripts[a.script][a.line], NEW L, IsLibrary(L), Moving(a, L), NEW M, M = After(s, L)
  PROVE  Sane(M) /\ AllOrNothing(M) /\ M.version = a.script + 1
<1> DEFINE n == a.script
           S == Scripts[a.script]
<1>1. DOMAIN S = 1 .. Len(S) /\ Len(S) \in Nat /\ Len(S) > 0
  BY GentleFacts, Lines
<1>2. n \in Nat /\ n # 0 /\ n + 1 # 0 /\ n \notin Rebuilds /\ n + 1 # 25
  BY GentleFacts
<1>3. s = Closing(n) /\ s.op = "version"
  <2>1. a.line \in 1 .. Len(S)
    BY <1>1
  <2>2. s = Version(n + 1) /\ s = Closing(n)
    BY <2>1, HereIsPlain
  <2>3. QED
    BY <2>2, Constructors
<1>4. M.tables = L.tables /\ M.version = n + 1
  <2>1. n \in 0 .. SchemaVersion - 1 /\ L.version # 0
    BY <1>2, GentleFacts DEF Moving
  <2>2. QED
    BY <1>2, <1>3, <2>1, ClosingKeepsTables
<1>5. \A j \in 1 .. Len(S) : j # Len(S) => Done(n, S[j], L)
  <2>1. \A j \in 1 .. Len(S) : j # Len(S) => j \in 1 .. a.line - 1
    BY <1>1
  <2>2. QED
    BY <2>1 DEF Moving, DoneTo
<1>6. \A t \in DOMAIN Since : \A c \in DOMAIN Since[t] : Since[t][c] = n + 1 /\ c \notin Indexes =>
         t \in DOMAIN L.tables /\ (c # "table" => c \in L.tables[t].cols)
  <2> SUFFICES ASSUME NEW t \in DOMAIN Since, NEW c \in DOMAIN Since[t], Since[t][c] = n + 1, c \notin Indexes
               PROVE  t \in DOMAIN L.tables /\ (c # "table" => c \in L.tables[t].cols)
    OBVIOUS
  <2>1. PICK j \in DOMAIN S : Gives(S[j], t, c)
    BY GentleScripts DEF GentleShape, Complete
  <2>2. S[j].table = t /\ S[j].op \in {"create", "add"} /\ (c # "table" => c \in S[j].cols)
    BY <2>1 DEF Gives
  <2>3. S[Len(S)].op = "version"
    BY <1>3
  <2>4. Done(n, S[j], L)
    BY <1>1, <1>5, <2>2, <2>3
  <2>5. QED
    BY <1>2, <2>2, <2>4 DEF Done, Has
<1>7. \A t \in TablesOf(n + 1) : Has(L, t, ColsOf(n + 1, t) \ Indexes)
  <2> SUFFICES ASSUME NEW t \in TablesOf(n + 1) PROVE Has(L, t, ColsOf(n + 1, t) \ Indexes)
    OBVIOUS
  <2>1. t \in DOMAIN Since /\ Since[t].table <= n + 1 /\ "table" \in DOMAIN Since[t] /\ "table" \notin Indexes
    BY DEF TablesOf, Since, Indexes
  <2>2. t \in DOMAIN L.tables
    <3>1. CASE Since[t].table = n + 1
      BY <1>6, <2>1, <3>1
    <3>2. CASE Since[t].table <= n
      <4>1. t \in TablesOf(n)
        BY <2>1, <3>2 DEF TablesOf
      <4>2. Has(L, t, ColsOf(n, t) \ Indexes) \/ (n = 2 /\ t = "operations")
        <5>1. L.version = n /\ Reached(L)
          BY DEF Moving, Sane
        <5>2. Has(L, t, ColsOf(n, t) \ Indexes) \/ Missing(L, t)
          BY ONLY <4>1, <5>1 DEF Reached
        <5>3. QED
          BY ONLY <1>2, <5>1, <5>2 DEF Missing
      <4>3. CASE n = 2 /\ t = "operations"
        <5>1. S[2].op = "create" /\ S[2].table = "operations" /\ Len(S) = 4
          BY <4>3, Discarding
        <5>2. Done(n, S[2], L)
          BY <1>5, <5>1
        <5>3. QED
          BY <4>3, <5>1, <5>2 DEF Done, Has
      <4>4. QED
        BY <4>2, <4>3 DEF Has
    <3>3. QED
      BY <1>2, <2>1, <3>1, <3>2, Ages
  <2>3. ASSUME NEW c \in ColsOf(n + 1, t) \ Indexes PROVE c \in L.tables[t].cols
    <3>1. c \in DOMAIN Since[t] /\ c # "table" /\ Since[t][c] <= n + 1 /\ Since[t][c] \in Nat
      BY <2>1, Ages DEF ColsOf
    <3>2. CASE Since[t][c] = n + 1
      BY <1>6, <2>1, <3>1, <3>2
    <3>3. CASE Since[t][c] <= n
      <4>1. c \in ColsOf(n, t) \ Indexes
        BY <3>1, <3>3 DEF ColsOf
      <4>2. t \in TablesOf(n)
        <5>1. Since[t].table <= n /\ Since[t].table \in Nat
          BY <1>2, <2>1, <3>1, <3>3, Ages
        <5>2. QED
          BY <2>1, <5>1 DEF TablesOf
      <4>3. ~Missing(L, t)
        BY <2>2 DEF Missing
      <4>4. QED
        BY <4>1, <4>2, <4>3 DEF Moving, Sane, Reached, Has
    <3>4. QED
      BY <1>2, <3>1, <3>2, <3>3
  <2>4. QED
    BY <2>2, <2>3 DEF Has
<1>8. Reached(M)
  BY <1>4, <1>7 DEF Reached, Has
<1>9. Plausible(M)
  <2> SUFFICES ASSUME NEW t \in DOMAIN M.tables PROVE PlausibleTable(n + 1, t, M.tables[t].cols)
    BY <1>4 DEF Plausible
  <2>1. PlausibleTable(n, t, M.tables[t].cols)
    BY <1>4 DEF Moving, Sane, Plausible
  <2>2. Timely(n + 1, NameOf(t), M.tables[t].cols)
    BY <1>2, <2>1, LaterIsTimely, Zenon DEF PlausibleTable
  <2>3. QED
    BY <1>2, <2>1, <2>2, Zenon DEF PlausibleTable
<1>10. \A t \in Rebuilt : New[t] \in DOMAIN L.tables => t = "jobs" /\ Has(L, "jobs", {"prune"})
  BY <1>2 DEF Moving, Sane, Leftover
<1>11. Leftover(M)
  BY <1>4, <1>10 DEF Leftover, Has
<1>12. AllOrNothing(M)
  <2> SUFFICES ASSUME n + 1 = 24 PROVE Subject(24) \in DOMAIN L.tables
    BY <1>2, <1>4 DEF AllOrNothing
  <2>1. n = 23
    BY <1>2
  <2>2. Subject(24) = "processing_stats" /\ "processing_stats" \in TablesOf(n)
    BY <2>1, StatisticsSince, SubjectsOf
  <2>3. QED
    BY <1>2, <2>1, <2>2 DEF Moving, Sane, Reached, Missing, Has
<1>13. QED
  BY <1>4, <1>8, <1>9, <1>11, <1>12 DEF Sane

-----------------------------------------------------------------------------
(* The rebuilds, from any library that is sane.                            *)

\* What the copy of a rebuild is made with is what its table has afterwards.
LEMMA MadeInFull ==
  ASSUME NEW n \in Rebuilds
  PROVE  MadeCols(n) = ColsOf(n + 1, Subject(n)) \ Indexes
<1>1. CASE n = 6
  BY <1>1 DEF Subject, MadeCols, ColsOf, Since, Indexes, JobsOf7
<1>2. CASE n = 15
  BY <1>2 DEF Subject, MadeCols, ColsOf, Since, Indexes
<1>3. CASE n = 19
  BY <1>3 DEF Subject, MadeCols, ColsOf, Since, Indexes, JobsOf7
<1>4. CASE n = 24
  BY <1>4 DEF Subject, MadeCols, ColsOf, Since, Indexes
<1>5. CASE n = 25
  BY <1>5 DEF Subject, MadeCols, ColsOf, Since, Indexes, JobsOf26, JobsOf7
<1>6. QED
  BY <1>1, <1>2, <1>3, <1>4, <1>5 DEF Rebuilds

LEMMA RebuildFacts ==
  ASSUME NEW n \in Rebuilds
  PROVE  /\ n \in 1 .. SchemaVersion - 1 /\ n \in 0 .. SchemaVersion - 1 /\ n \notin {0, 2} /\ n \notin Gentle
         /\ n \in Nat /\ n + 1 # 0 /\ n + 1 \in 0 .. SchemaVersion /\ n + 1 # 24
         /\ CopyLine(n) \in {3, 4} /\ MakeLine(n) \in {2, 3} /\ MakeLine(n) < CopyLine(n)
         /\ n = 25 => CopyLine(n) = 4 /\ MakeLine(n) = 3
         /\ Subject(n) \in Rebuilt /\ Subject(n) \in DOMAIN Since
         /\ "jobs_new" = New["jobs"] /\ "jobs" \in Rebuilt
<1>1. /\ n \in 1 .. SchemaVersion - 1 /\ n \in 0 .. SchemaVersion - 1 /\ n \notin {0, 2} /\ n \notin Gentle
      /\ n \in Nat /\ n + 1 # 0 /\ n + 1 \in 0 .. SchemaVersion /\ n + 1 # 24
  BY DEF Rebuilds, Gentle, SchemaVersion
<1>2. /\ CopyLine(n) \in {3, 4} /\ MakeLine(n) \in {2, 3} /\ MakeLine(n) < CopyLine(n)
      /\ n = 25 => CopyLine(n) = 4 /\ MakeLine(n) = 3
  BY DEF Rebuilds, CopyLine, MakeLine
<1>3. Subject(n) \in Rebuilt /\ Subject(n) \in DOMAIN Since
  BY GainFacts, NamesOf
<1>4. QED
  BY <1>1, <1>2, <1>3, Names

\* Where a process is while it rebuilds: no column it gives is there before the
\* copy takes the place of the table, and all of them afterwards.
Turn(a, L) ==
    LET n == a.script
        t == Subject(n)
        c == CopyLine(n)
    IN  /\ a.line = 1 => AllOrNothing(L)
        /\ a.line \in 2 .. c + 1 => ~Has(L, t, {Mark(n)})
        /\ Inside(a) => New[t] \in DOMAIN L.tables
        /\ a.line = c + 2 => t \notin DOMAIN L.tables
        /\ a.line > c + 2 => /\ Has(L, t, ColsOf(n + 1, t) \ Indexes)
                             /\ New[t] \in DOMAIN L.tables => t = "jobs" /\ Has(L, t, {"prune"})
        /\ n \in {24, 25} /\ a.line <= c + 1 => t \in DOMAIN L.tables
        /\ n = 25 => /\ a.line \in {2, 3} => "jobs_new" \notin DOMAIN L.tables
                     /\ a.line = 4 => Ids(L, "jobs_new") = {}
                     /\ a.line > 12 => "library_snapshots" \in DOMAIN L.tables
Turning(a, L) == Sane(L) /\ L.version = a.script /\ Turn(a, L)

LEMMA SwapHere ==
  ASSUME NEW a, a.script \in Rebuilds, a.line \in 1 .. Len(Scripts[a.script]),
         NEW s, s = Scripts[a.script][a.line]
  PROVE  SwapLine(a.script, a.line, s)
<1> DEFINE n == a.script
           S == Scripts[a.script]
<1>1. DOMAIN S = 1 .. Len(S)
  BY RebuildFacts, Lines
<1>2. Swaps(n, S)
  BY RebuildScripts
<1>3. QED
  BY <1>1, <1>2 DEF Swaps

LEMMA RebuildSteps ==
  ASSUME NEW a, a.script \in Rebuilds, a.line \in 2 .. CopyLine(a.script) + 2,
         a.line \in 1 .. Len(Scripts[a.script]), NEW s, s = Scripts[a.script][a.line]
  PROVE  s.op \in {"create", "make", "begin", "copy", "drop", "rename"}
<1> DEFINE c == CopyLine(a.script)
           m == MakeLine(a.script)
<1>1. c \in {3, 4} /\ m \in {2, 3}
  BY RebuildFacts
<1>2. CASE a.line \in {m, c, c + 1, c + 2}
  BY <1>2, RebuildLine DEF Makes, CopiesTo, Drops, Renames
<1>3. CASE a.line \notin {m, c, c + 1, c + 2}
  <2>1. a.line \in 2 .. c - 1
    BY <1>1, <1>3
  <2>2. QED
    BY <1>3, <2>1, SwapHere DEF SwapLine
<1>4. QED
  BY <1>2, <1>3

\* The next line of a rebuild that is on its way is the next one executed.
LEMMA SwapInTurn ==
  ASSUME NEW a, a.script \in Rebuilds, a.line \in 1 .. Len(Scripts[a.script]), Due(a),
         a.line \in 2 .. CopyLine(a.script) + 1, NEW b, Further(a, b, a.seen)
  PROVE  b.line = a.line + 1
<1> DEFINE n == a.script
           S == Scripts[a.script]
           c == CopyLine(a.script)
<1>1. /\ DOMAIN S = 1 .. Len(S) /\ Len(S) \in Nat /\ n \in 0 .. SchemaVersion - 1
      /\ c \in {3, 4} /\ Len(S) > c + 2
  BY RebuildFacts, Lines, ScriptShapes DEF Shaped
<1>2. b.line > a.line /\ a.line \in Nat /\ b.line \in Nat
  BY <1>1, NotLast
<1>3. \A k \in 2 .. c + 2 : S[k].unless = Mark(n)
  <2>1. \A k \in 2 .. c + 2 : k \in 1 .. Len(S)
    BY <1>1
  <2>2. \A k \in 1 .. Len(S) : SwapLine(n, k, S[k])
    BY <1>1, RebuildScripts DEF Swaps
  <2>3. QED
    BY <2>1, <2>2 DEF SwapLine
<1> SUFFICES ASSUME b.line # a.line + 1 PROVE FALSE
  OBVIOUS
<1>4. a.line \in 2 .. c + 2 /\ a.line + 1 \in 2 .. c + 2
  BY <1>1
<1>5. S[a.line].unless = Mark(n) /\ S[a.line + 1].unless = Mark(n)
  BY ONLY <1>3, <1>4
<1>6. S[a.line].unless \notin a.seen
  BY DEF Due
<1>7. a.line + 1 \in a.line + 1 .. b.line - 1
  BY <1>2
<1>8. S[a.line + 1].unless \in a.seen
  BY <1>7 DEF Further
<1>9. QED
  BY <1>5, <1>6, <1>8

\* After the look of a rebuild, it is begun or skipped as a whole.
LEMMA SwapNext ==
  ASSUME NEW a, a.script \in Rebuilds, a.line \in 1 .. Len(Scripts[a.script]),
         NEW s, s = Scripts[a.script][a.line], Due(a), NEW L,
         NEW seen, seen = (IF s.op = "look" THEN Seen(L, s.table) ELSE a.seen), "never" \notin seen,
         NEW b, Further(a, b, seen)
  PROVE  /\ a.line \in Nat /\ b.line \in Nat /\ b.line > a.line /\ b.script = a.script /\ b.seen = seen
         /\ a.line # Len(Scripts[a.script])
         /\ a.line = 1 => \/ b.line = 2 /\ ~Has(L, Subject(a.script), {Mark(a.script)})
                          \/ b.line > CopyLine(a.script) + 2 /\ Has(L, Subject(a.script), {Mark(a.script)})
<1> DEFINE n == a.script
           S == Scripts[a.script]
           c == CopyLine(a.script)
           t == Subject(a.script)
<1>1. /\ DOMAIN S = 1 .. Len(S) /\ Len(S) \in Nat /\ n \in 0 .. SchemaVersion - 1
      /\ c \in {3, 4} /\ Len(S) > c + 2
  BY RebuildFacts, Lines, ScriptShapes DEF Shaped
<1>2. /\ a.line # Len(S) /\ b.line > a.line /\ a.line \in Nat /\ b.line \in Nat
      /\ b.line \in a.line + 1 .. Len(S) /\ b.script = n /\ b.seen = seen
  <2>1. a.line # Len(S) /\ b.line > a.line /\ a.line \in Nat /\ b.line \in Nat
    BY <1>1, NotLast
  <2>2. b.line \in a.line + 1 .. Len(S) /\ b.script = n /\ b.seen = seen
    BY DEF Further
  <2>3. QED
    BY <2>1, <2>2
<1>3. \A k \in 1 .. Len(S) : SwapLine(n, k, S[k])
  BY <1>1, RebuildScripts DEF Swaps
<1>4. \A k \in a.line + 1 .. b.line - 1 : S[k].unless \in seen
  BY DEF Further
<1>5. S[b.line].unless \notin seen
  BY DEF Further
<1>6. \A k \in 2 .. c + 2 : S[k].unless = Mark(n)
  <2>1. \A k \in 2 .. c + 2 : k \in 1 .. Len(S)
    BY <1>1
  <2>2. QED
    BY <1>3, <2>1 DEF SwapLine
<1>8. a.line = 1 => \/ b.line = 2 /\ ~Has(L, t, {Mark(n)})
                    \/ b.line > c + 2 /\ Has(L, t, {Mark(n)})
  <2> SUFFICES ASSUME a.line = 1 PROVE \/ b.line = 2 /\ ~Has(L, t, {Mark(n)})
                                       \/ b.line > c + 2 /\ Has(L, t, {Mark(n)})
    OBVIOUS
  <2>1. s.op = "look" /\ s.table = t
    BY <1>3, SwapHere DEF SwapLine
  <2>2. seen = Seen(L, t)
    BY <2>1
  <2>3. Mark(n) \in seen <=> Has(L, t, {Mark(n)})
    BY <2>2, MarksAreColumns, Zenon DEF Seen, Has
  <2>4. CASE Mark(n) \in seen
    <3>1. \A k \in 2 .. c + 2 : b.line # k
      BY <1>5, <1>6, <2>4
    <3>2. QED
      BY <1>1, <1>2, <2>3, <2>4, <3>1
  <2>5. CASE Mark(n) \notin seen
    <3>1. S[2].unless \notin seen
      BY <1>1, <1>6, <2>5
    <3>2. 2 \notin a.line + 1 .. b.line - 1
      BY <1>4, <3>1
    <3>3. b.line = 2
      BY <1>2, <3>2
    <3>4. QED
      BY <2>3, <2>5, <3>3
  <2>6. QED
    BY <2>4, <2>5
<1>9. QED
  BY <1>2, <1>8

\* The statement that makes the snapshots is not passed over.
LEMMA AlwaysMade ==
  ASSUME NEW a, a.script = 25, a.line \in 1 .. Len(Scripts[a.script]), NEW seen, "never" \notin seen,
         NEW b, Further(a, b, seen), b.line > 12
  PROVE  a.line >= 12
<1> SUFFICES ASSUME a.line < 12 PROVE FALSE
  <2>1. a.line \in Nat
    BY RebuildFacts, Lines
  <2>2. QED
    BY <2>1
<1>1. a.line \in Nat /\ b.line \in Nat
  BY RebuildFacts, NotLast DEF Rebuilds
<1>2. 12 \in a.line + 1 .. b.line - 1
  BY <1>1
<1>3. Scripts[25][12].unless \in seen
  BY <1>2 DEF Further
<1>4. Scripts[25] = Migrate25
  BY DEF Scripts, Migrations, SchemaVersion
<1>5. Migrate25[12] = Create("library_snapshots", {})
  BY Migration25
<1>6. QED
  BY <1>3, <1>4, <1>5, Constructors

\* What of a library the columns depend on.
SameShape(L, M) ==
    /\ M.version = L.version /\ DOMAIN M.tables = DOMAIN L.tables
    /\ \A t \in DOMAIN L.tables : M.tables[t].cols = L.tables[t].cols

LEMMA ShapeIsSane ==
  ASSUME NEW L, Sane(L), NEW M, SameShape(L, M)
  PROVE  Sane(M) /\ \A t, cols : Has(M, t, cols) <=> Has(L, t, cols)
<1>1. \A t, cols : Has(M, t, cols) <=> Has(L, t, cols)
  BY DEF SameShape, Has
<1>2. Plausible(M)
  BY DEF Sane, Plausible, SameShape
<1>3. Reached(M)
  BY <1>1 DEF Sane, Reached, Missing, SameShape
<1>4. Leftover(M)
  <2>1. \A t \in Rebuilt : New[t] \in DOMAIN M.tables => M.tables[New[t]].cols = L.tables[New[t]].cols
    BY DEF SameShape
  <2>2. M.version = L.version /\ DOMAIN M.tables = DOMAIN L.tables /\ Leftover(L)
    BY DEF Sane, SameShape
  <2>3. QED
    BY ONLY <1>1, <2>1, <2>2 DEF Leftover
<1>5. QED
  BY <1>1, <1>2, <1>3, <1>4 DEF Sane

\* A copy beside a table that is not rebuilt yet is of this rebuild, and no
\* other copy is there when jobs are rebuilt.
LEMMA CopyIsMade ==
  ASSUME NEW L, Sane(L), NEW n \in Rebuilds, L.version = n, NEW t, t = Subject(n), ~Has(L, t, {Mark(n)})
  PROVE  /\ New[t] \in DOMAIN L.tables => MadeCols(n) \subseteq L.tables[New[t]].cols
         /\ \A u \in Rebuilt : u # t /\ New[u] \in DOMAIN L.tables => u = "jobs" /\ Has(L, "jobs", {"prune"})
<1>1. t \in Rebuilt /\ NameOf("jobs") = "jobs"
  BY RebuildFacts DEF NameOf
<1>2. ~(t = "jobs" /\ Has(L, "jobs", {"prune"}))
  <2> SUFFICES ASSUME t = "jobs", Has(L, "jobs", {"prune"}) PROVE FALSE
    OBVIOUS
  <2>1. JobsOf26 \subseteq L.tables["jobs"].cols
    BY <1>1 DEF Sane, Plausible, PlausibleTable, Has
  <2>2. Mark(n) \in JobsOf26
    BY Rebuilding
  <2>3. QED
    BY <2>1, <2>2 DEF Has
<1>3. QED
  BY <1>1, <1>2 DEF Sane, Leftover

LEMMA CopyLooksLikeTable ==
  ASSUME NEW n \in Rebuilds, NEW t, t = Subject(n)
  PROVE  /\ PlausibleTable(n, New[t], MadeCols(n))
         /\ NameOf(New[t]) = t /\ NameOf(t) = t /\ New[t] \notin DOMAIN Since /\ t # New[t]
         /\ \A v, cols : PlausibleTable(v, New[t], cols) <=> PlausibleTable(v, t, cols)
<1>1. t \in Rebuilt /\ t \in DOMAIN Since /\ n # 0
  BY RebuildFacts
<1>2. NameOf(New[t]) = t /\ NameOf(t) = t /\ New[t] \notin DOMAIN Since /\ t # New[t]
  BY <1>1, NamesOf, Distinct
<1>3. /\ MadeCols(n) \subseteq Final(t) /\ Timely(n, t, MadeCols(n))
      /\ "prune" \in MadeCols(n) => JobsOf26 \subseteq MadeCols(n)
      /\ "summary_json" \in MadeCols(n) => JobsOf7 \subseteq MadeCols(n)
  BY Rebuilding
<1>4. QED
  BY <1>1, <1>2, <1>3 DEF PlausibleTable

\* The copy is made.
LEMMA SwapMakes ==
  ASSUME NEW a, a.script \in Rebuilds, a.line \in 1 .. Len(Scripts[a.script]), a.line = MakeLine(a.script),
         NEW s, s = Scripts[a.script][a.line], NEW L, IsLibrary(L), ~Fails(s, L), Turning(a, L),
         NEW M, M = After(s, L), NEW b, b.script = a.script, b.line = a.line + 1
  PROVE  Turning(b, M)
<1> DEFINE n == a.script
           t == Subject(a.script)
           c == CopyLine(a.script)
<1>1. /\ Makes(s, t) /\ s.cols = MadeCols(n) /\ Sound(s) /\ t \in Rebuilt /\ n \in Rebuilds
      /\ c \in {3, 4} /\ MakeLine(n) \in {2, 3} /\ MakeLine(n) < c /\ n \notin {0, 2}
  BY RebuildLine, RebuildFacts
<1>2. Grown(s, L, M)
  BY <1>1, StatementGrows DEF Makes
<1>3. ~Has(L, t, {Mark(n)}) /\ L.version = n /\ Sane(L)
  BY <1>1 DEF Turning, Turn
<1>4. /\ PlausibleTable(n, New[t], MadeCols(n)) /\ New[t] \notin DOMAIN Since /\ t # New[t]
      /\ New[t] \in DOMAIN M.tables /\ M.version = n /\ s.table = New[t]
  <2>1. PlausibleTable(n, New[t], MadeCols(n)) /\ New[t] \notin DOMAIN Since /\ t # New[t]
    BY <1>1, CopyLooksLikeTable
  <2>2. s.table = New[t] /\ s.op \in {"create", "make"}
    BY <1>1 DEF Makes
  <2>3. DOMAIN M.tables = DOMAIN L.tables \cup {s.table}
    BY <1>1, <2>2, AfterCreate
  <2>4. M.version = n
    BY <1>2, <1>3 DEF Grown
  <2>5. QED
    BY <2>1, <2>2, <2>3, <2>4
<1>5. /\ \A u, col : u # New[t] => (Has(M, u, {col}) <=> Has(L, u, {col}))
      /\ \A u : u # New[t] => (u \in DOMAIN M.tables <=> u \in DOMAIN L.tables)
  BY ONLY <1>2, <1>4 DEF Grown, Has
<1>6. Plausible(M)
  BY <1>1, <1>2, <1>3, <1>4, PlausibleGrows DEF Sane, Makes
<1>7. Reached(M)
  BY <1>2, <1>3, <1>4, ReachedGrows DEF Sane, TablesOf
<1>8. MadeCols(n) \subseteq M.tables[New[t]].cols
  <2>1. CASE New[t] \in DOMAIN L.tables
    <3>1. MadeCols(n) \subseteq L.tables[New[t]].cols
      BY <1>1, <1>3, <2>1, CopyIsMade
    <3>2. QED
      BY <1>2, <2>1, <3>1 DEF Grown
  <2>2. CASE New[t] \notin DOMAIN L.tables
    <3>1. \A u \in DOMAIN M.tables \ DOMAIN L.tables : M.tables[u].cols = s.cols
      BY <1>2, Zenon DEF Grown
    <3>2. QED
      BY <1>1, <1>4, <2>2, <3>1
  <2>3. QED
    BY <2>1, <2>2
<1>9. ~Has(M, t, {Mark(n)})
  BY <1>3, <1>4, <1>5
<1>10. Leftover(M)
  <2> SUFFICES ASSUME NEW u \in Rebuilt, u # t, New[u] \in DOMAIN M.tables
               PROVE  u = "jobs" /\ Has(M, "jobs", {"prune"})
    BY <1>1, <1>4, <1>8, <1>9, Zenon DEF Leftover
  <2>1. New[u] # New[t] /\ "jobs" # New[t]
    BY <1>1, Distinct, RebuildFacts
  <2>2. New[u] \in DOMAIN L.tables
    BY <1>5, <2>1
  <2>3. u = "jobs" /\ Has(L, "jobs", {"prune"})
    BY <1>1, <1>3, <2>2, CopyIsMade
  <2>4. QED
    BY <1>5, <2>1, <2>3
<1>11. Turn(b, M)
  <2>1. b.line \in 2 .. c + 1 /\ b.line # 1 /\ b.line # c + 2 /\ ~(b.line > c + 2)
    BY <1>1
  <2>2. n \in {24, 25} => t \in DOMAIN M.tables
    <3>1. a.line <= c + 1
      BY <1>1
    <3>2. n \in {24, 25} => t \in DOMAIN L.tables
      BY <3>1 DEF Turning, Turn
    <3>3. QED
      BY <1>4, <1>5, <3>2
  <2>3. n = 25 => b.line = 4 /\ Ids(M, "jobs_new") = {}
    <3> SUFFICES ASSUME n = 25 PROVE b.line = 4 /\ Ids(M, "jobs_new") = {}
      OBVIOUS
    <3>1. a.line = 3 /\ t = "jobs" /\ New[t] = "jobs_new"
      BY SubjectsOf, RebuildFacts DEF MakeLine
    <3>2. "jobs_new" \notin DOMAIN L.tables
      BY <3>1 DEF Turning, Turn
    <3>3. M.tables["jobs_new"].rows = {}
      BY <1>2, <1>4, <3>1, <3>2 DEF Grown
    <3>4. QED
      BY <1>4, <3>1, <3>3, IdsOf
  <2>4. QED
    BY <1>1, <1>4, <1>9, <2>1, <2>2, <2>3 DEF Turn
<1>12. QED
  BY <1>4, <1>6, <1>7, <1>10, <1>11 DEF Turning, Sane

\* What the lines of a rebuild are about, for its proofs.
LEMMA TurnFacts ==
  ASSUME NEW a, a.script \in Rebuilds, a.line \in 1 .. Len(Scripts[a.script]), NEW t, t = Subject(a.script),
         NEW c, c = CopyLine(a.script), NEW n, n = a.script, NEW s, s = Scripts[a.script][a.line]
  PROVE  /\ t \in Rebuilt /\ t \in DOMAIN Since /\ n \notin {0, 2} /\ Sound(s) /\ a.line \in Nat
         /\ c \in {3, 4} /\ MakeLine(n) \in {2, 3} /\ MakeLine(n) < c /\ (n = 25 => c = 4 /\ MakeLine(n) = 3)
         /\ Inside(a) <=> a.line \in MakeLine(n) + 1 .. c + 2
  BY RebuildFacts, RebuildLine DEF Inside

\* The table is looked at.
LEMMA SwapLooks ==
  ASSUME NEW a, a.script \in Rebuilds, a.line \in 1 .. Len(Scripts[a.script]), a.line = 1, Due(a),
         NEW s, s = Scripts[a.script][a.line], NEW L, IsLibrary(L), Turning(a, L),
         NEW M, M = After(s, L), NEW seen, seen = (IF s.op = "look" THEN Seen(L, s.table) ELSE a.seen),
         "never" \notin seen, NEW b, Further(a, b, seen)
  PROVE  Turning(b, M)
<1> DEFINE n == a.script
           t == Subject(a.script)
           c == CopyLine(a.script)
<1>1. /\ t \in Rebuilt /\ t \in DOMAIN Since /\ n \notin {0, 2} /\ n \in Rebuilds
      /\ c \in {3, 4} /\ MakeLine(n) \in {2, 3} /\ MakeLine(n) < c /\ (n = 25 => c = 4 /\ MakeLine(n) = 3)
  BY TurnFacts
<1>2. s.op = "look" /\ s.table = t
  BY SwapHere DEF SwapLine
<1>3. M = L
  BY <1>2 DEF After
<1>4. AllOrNothing(L) /\ L.version = n /\ Sane(L)
  BY DEF Turning, Turn
<1>5. /\ b.script = n /\ b.line \in Nat
      /\ \/ b.line = 2 /\ ~Has(L, t, {Mark(n)})
         \/ b.line > c + 2 /\ Has(L, t, {Mark(n)})
      /\ n = 25 => b.line <= 12
  <2>1. b.script = n /\ b.line \in Nat
    <3>1. n \in 0 .. SchemaVersion - 1
      BY RebuildFacts
    <3>2. b.script = n
      BY DEF Further
    <3>3. QED
      BY <3>1, <3>2, NotLast
  <2>2. \/ b.line = 2 /\ ~Has(L, t, {Mark(n)})
        \/ b.line > c + 2 /\ Has(L, t, {Mark(n)})
    BY SwapNext
  <2>3. (n = 25 /\ b.line > 12) => a.line >= 12
    BY AlwaysMade
  <2>4. QED
    BY <2>1, <2>2, <2>3
<1>6. CASE b.line = 2 /\ ~Has(L, t, {Mark(n)})
  <2>1. ~Inside(b)
    BY <1>1, <1>5, <1>6 DEF Inside
  <2>2. n \in {24, 25} => t \in DOMAIN L.tables
    BY <1>4 DEF AllOrNothing
  <2>3. n = 25 => "jobs_new" \notin DOMAIN L.tables
    <3>1. n = 25 => Mark(n) = "prune" /\ t = "jobs"
      BY SubjectsOf DEF Mark
    <3>2. QED
      BY <1>4, <1>6, <3>1 DEF AllOrNothing
  <2>4. Turn(b, L)
    BY <1>1, <1>5, <1>6, <2>1, <2>2, <2>3 DEF Turn
  <2>5. QED
    BY <1>3, <1>4, <1>5, <2>4 DEF Turning
<1>7. CASE b.line > c + 2 /\ Has(L, t, {Mark(n)})
  <2>1. ~Inside(b)
    BY <1>1, <1>5, <1>7 DEF Inside
  <2>2. t \in TablesOf(n) /\ t \in DOMAIN L.tables
    BY <1>1, <1>7, Rebuilding DEF Has
  <2>3. ColsOf(n, t) \ Indexes \subseteq L.tables[t].cols
    BY <1>4, <2>2 DEF Sane, Reached, Missing, Has
  <2>4. n = 6 => JobsOf7 \subseteq L.tables[t].cols
    <3> SUFFICES ASSUME n = 6 PROVE JobsOf7 \subseteq L.tables[t].cols
      OBVIOUS
    <3>1. t = "jobs" /\ NameOf(t) = "jobs" /\ Mark(n) = "summary_json"
      BY SubjectsOf DEF NameOf, Mark
    <3>2. PlausibleTable(n, t, L.tables[t].cols)
      BY <1>4, <2>2 DEF Sane, Plausible
    <3>3. "summary_json" \in L.tables[t].cols
      BY <1>7, <3>1 DEF Has
    <3>4. QED
      BY <3>1, <3>2, <3>3 DEF PlausibleTable
  <2>5. ColsOf(n + 1, t) \ Indexes \subseteq L.tables[t].cols
    <3>1. ColsOf(n + 1, t) \ Indexes
            \subseteq (ColsOf(n, t) \ Indexes) \cup {Mark(n)} \cup (IF n = 6 THEN JobsOf7 ELSE {})
      BY Rebuilding
    <3>2. QED
      BY <1>7, <2>3, <2>4, <3>1 DEF Has
  <2>6. New[t] \in DOMAIN L.tables => t = "jobs" /\ Has(L, t, {"prune"})
    BY <1>1, <1>4, <1>7 DEF Sane, Leftover
  <2>7. Turn(b, L)
    BY <1>1, <1>5, <1>7, <2>1, <2>2, <2>5, <2>6 DEF Turn, Has
  <2>8. QED
    BY <1>3, <1>4, <1>5, <2>7 DEF Turning
<1>8. QED
  BY <1>5, <1>6, <1>7

\* A transaction is begun, or the rows are copied.
LEMMA SwapCopies ==
  ASSUME NEW a, a.script \in Rebuilds, a.line \in 1 .. Len(Scripts[a.script]),
         a.line \in 2 .. CopyLine(a.script), a.line # MakeLine(a.script),
         NEW s, s = Scripts[a.script][a.line], NEW L, IsLibrary(L), ~Fails(s, L), Turning(a, L),
         NEW M, M = After(s, L), NEW b, b.script = a.script, b.line = a.line + 1
  PROVE  Turning(b, M)
<1> DEFINE n == a.script
           t == Subject(a.script)
           c == CopyLine(a.script)
<1>1. /\ t \in Rebuilt /\ t \in DOMAIN Since /\ n \notin {0, 2} /\ Sound(s) /\ n \in Rebuilds
      /\ c \in {3, 4} /\ MakeLine(n) \in {2, 3} /\ MakeLine(n) < c /\ (n = 25 => c = 4 /\ MakeLine(n) = 3)
  BY TurnFacts
<1>2. SameShape(L, M) /\ (a.line # c => M = L)
  <2>1. CASE a.line = c
    <3>1. CopiesTo(s, t)
      BY <2>1, RebuildLine
    <3>2. QED
      BY <1>1, <2>1, <3>1, AfterCopy DEF SameShape
  <2>2. CASE a.line # c
    <3>1. s.op = "begin"
      BY <1>1, <2>2, SwapHere DEF SwapLine
    <3>2. M = L
      BY <3>1 DEF After
    <3>3. QED
      BY <3>2 DEF SameShape
  <2>3. QED
    BY <2>1, <2>2
<1>3. Sane(M) /\ (\A u, cols : Has(M, u, cols) <=> Has(L, u, cols)) /\ M.version = n
      /\ DOMAIN M.tables = DOMAIN L.tables
  BY <1>2, ShapeIsSane DEF Turning, SameShape
<1>4. ~Has(L, t, {Mark(n)}) /\ (n \in {24, 25} => t \in DOMAIN L.tables)
  BY <1>1 DEF Turning, Turn
<1>5. Inside(b) => New[t] \in DOMAIN L.tables
  <2> SUFFICES ASSUME Inside(b) PROVE New[t] \in DOMAIN L.tables
    OBVIOUS
  <2>1. a.line \in MakeLine(n) + 1 .. c + 2
    BY <1>1 DEF Inside
  <2>2. Inside(a)
    BY <2>1 DEF Inside
  <2>3. QED
    BY <2>2 DEF Turning, Turn
<1>6. n = 25 => b.line \in {3, 5} /\ (b.line = 3 => "jobs_new" \notin DOMAIN L.tables)
  <2> SUFFICES ASSUME n = 25 PROVE b.line \in {3, 5} /\ (b.line = 3 => "jobs_new" \notin DOMAIN L.tables)
    OBVIOUS
  <2>1. a.line \in {2, 4}
    BY <1>1
  <2>2. a.line = 2 => "jobs_new" \notin DOMAIN L.tables
    BY DEF Turning, Turn
  <2>3. QED
    BY <2>1, <2>2
<1>7. b.line \in 2 .. c + 1 /\ b.line # 1 /\ b.line # c + 2 /\ ~(b.line > c + 2)
  BY <1>1
<1>8. Turn(b, M)
  BY <1>3, <1>4, <1>5, <1>6, <1>7 DEF Turn
<1>9. QED
  BY <1>3, <1>8 DEF Turning

\* The table is dropped.
LEMMA SwapDrops ==
  ASSUME NEW a, a.script \in Rebuilds, a.line \in 1 .. Len(Scripts[a.script]), a.line = CopyLine(a.script) + 1,
         NEW s, s = Scripts[a.script][a.line], NEW L, IsLibrary(L), ~Fails(s, L), Turning(a, L),
         NEW M, M = After(s, L), NEW b, b.script = a.script, b.line = a.line + 1
  PROVE  Turning(b, M)
<1> DEFINE n == a.script
           t == Subject(a.script)
           c == CopyLine(a.script)
<1>1. /\ t \in Rebuilt /\ t \in DOMAIN Since /\ n \notin {0, 2} /\ Sound(s) /\ n \in Rebuilds
      /\ c \in {3, 4} /\ MakeLine(n) \in {2, 3} /\ MakeLine(n) < c /\ (n = 25 => c = 4 /\ MakeLine(n) = 3)
  BY TurnFacts
<1>2. Drops(s, t)
  BY RebuildLine
<1>3. /\ DOMAIN M.tables = DOMAIN L.tables \ {t} /\ M.version = L.version
      /\ \A u \in DOMAIN M.tables : M.tables[u].cols = L.tables[u].cols
  BY <1>1, <1>2, AfterDrop
<1>4. ~Has(L, t, {Mark(n)}) /\ L.version = n /\ Sane(L) /\ M.version = n
  BY <1>1, <1>3 DEF Turning, Turn
<1>5. New[t] \in DOMAIN L.tables /\ t # New[t]
  <2>1. a.line \in MakeLine(n) + 1 .. c + 2
    BY <1>1
  <2>2. Inside(a)
    BY <2>1 DEF Inside
  <2>3. QED
    BY <1>1, <2>2, Distinct DEF Turning, Turn
<1>6. New[t] \in DOMAIN M.tables /\ t \notin DOMAIN M.tables
  BY <1>3, <1>5
<1>7. \A u, cols : u # t => (Has(M, u, cols) <=> Has(L, u, cols))
  BY ONLY <1>3 DEF Has
<1>8. Plausible(M)
  BY <1>3, <1>4 DEF Sane, Plausible
<1>9. Reached(M)
  <2> SUFFICES ASSUME NEW u \in TablesOf(n) PROVE Has(M, u, ColsOf(n, u) \ Indexes) \/ Missing(M, u)
    BY <1>4 DEF Reached
  <2>1. Has(L, u, ColsOf(n, u) \ Indexes) \/ Missing(L, u)
    BY <1>4 DEF Sane, Reached
  <2>2. CASE u = t
    BY <1>1, <1>4, <1>6, <2>2 DEF Missing
  <2>3. CASE u # t
    <3>1. ~Missing(L, u)
      BY <1>1, <1>4, <2>3 DEF Missing
    <3>2. QED
      BY <1>7, <2>1, <2>3, <3>1
  <2>4. QED
    BY <2>2, <2>3
<1>10. Leftover(M)
  <2>1. MadeCols(n) \subseteq M.tables[New[t]].cols
    <3>1. MadeCols(n) \subseteq L.tables[New[t]].cols
      BY <1>1, <1>4, <1>5, CopyIsMade
    <3>2. QED
      BY <1>3, <1>6, <3>1
  <2>2. ~Has(M, t, {Mark(n)})
    BY <1>6 DEF Has
  <2>3. \A u \in Rebuilt : u # t /\ New[u] \in DOMAIN M.tables => u = "jobs" /\ Has(M, "jobs", {"prune"})
    <3>1. \A u \in Rebuilt : u # t /\ New[u] \in DOMAIN M.tables => u = "jobs" /\ Has(L, "jobs", {"prune"})
      BY <1>1, <1>3, <1>4, CopyIsMade
    <3>2. QED
      BY <1>7, <3>1
  <2>4. QED
    BY <1>1, <1>4, <2>1, <2>2, <2>3 DEF Leftover
<1>11. Turn(b, M)
  <2>1. b.line = c + 2 /\ b.line # 1 /\ b.line \notin 2 .. c + 1 /\ ~(b.line > c + 2) /\ ~(b.line <= c + 1)
    BY <1>1
  <2>2. n = 25 => b.line = 6
    BY <1>1, <2>1
  <2>3. QED
    BY <1>6, <2>1, <2>2 DEF Turn
<1>12. QED
  BY <1>4, <1>8, <1>9, <1>10, <1>11 DEF Turning, Sane

\* The copy takes its place.
LEMMA SwapRenames ==
  ASSUME NEW a, a.script \in Rebuilds, a.line \in 1 .. Len(Scripts[a.script]), a.line = CopyLine(a.script) + 2,
         NEW s, s = Scripts[a.script][a.line], NEW L, IsLibrary(L), ~Fails(s, L), Turning(a, L),
         NEW M, M = After(s, L), NEW b, b.script = a.script, b.line \in Nat, b.line > a.line,
         a.script = 25 => b.line <= 12
  PROVE  Turning(b, M)
<1> DEFINE n == a.script
           t == Subject(a.script)
           c == CopyLine(a.script)
<1>1. /\ t \in Rebuilt /\ t \in DOMAIN Since /\ n \notin {0, 2} /\ Sound(s) /\ n \in Rebuilds /\ n \in Nat
      /\ c \in {3, 4} /\ MakeLine(n) \in {2, 3} /\ MakeLine(n) < c /\ (n = 25 => c = 4 /\ MakeLine(n) = 3)
  BY TurnFacts, RebuildFacts
<1>2. Renames(s, t)
  BY RebuildLine
<1>3. /\ DOMAIN M.tables = (DOMAIN L.tables \ {New[t]}) \cup {t}
      /\ M.version = L.version /\ M.tables[t] = L.tables[New[t]]
      /\ \A u \in DOMAIN M.tables : u # t => M.tables[u] = L.tables[u]
  BY <1>1, <1>2, AfterRename
<1>4. L.version = n /\ Sane(L) /\ M.version = n
  BY <1>3 DEF Turning
<1>5. New[t] \in DOMAIN L.tables /\ t \notin DOMAIN L.tables /\ t # New[t] /\ New[t] \notin DOMAIN Since
  <2>1. a.line \in MakeLine(n) + 1 .. c + 2
    BY <1>1
  <2>2. Inside(a)
    BY <2>1 DEF Inside
  <2>3. New[t] \in DOMAIN L.tables /\ t \notin DOMAIN L.tables
    BY <2>2 DEF Turning, Turn
  <2>4. QED
    BY <1>1, <2>3, CopyLooksLikeTable
<1>6. New[t] \notin DOMAIN M.tables /\ t \in DOMAIN M.tables
  BY <1>3, <1>5
<1>7. \A u, cols : u # t /\ u # New[t] => (Has(M, u, cols) <=> Has(L, u, cols))
  BY ONLY <1>3 DEF Has
<1>8. Plausible(M)
  <2> SUFFICES ASSUME NEW u \in DOMAIN M.tables PROVE PlausibleTable(n, u, M.tables[u].cols)
    BY <1>4 DEF Plausible
  <2>1. CASE u # t
    BY <1>3, <1>4, <2>1 DEF Sane, Plausible
  <2>2. CASE u = t
    <3>1. PlausibleTable(n, New[t], L.tables[New[t]].cols)
      BY <1>4, <1>5 DEF Sane, Plausible
    <3>2. QED
      BY <1>1, <1>3, <2>2, <3>1, CopyLooksLikeTable
  <2>3. QED
    BY <2>1, <2>2
<1>9. ColsOf(n + 1, t) \ Indexes \subseteq M.tables[t].cols
  <2>1. ~Has(L, t, {Mark(n)})
    BY <1>5 DEF Has
  <2>2. MadeCols(n) \subseteq L.tables[New[t]].cols
    BY <1>1, <1>4, <1>5, <2>1, CopyIsMade
  <2>3. QED
    BY <1>1, <1>3, <2>2, MadeInFull
<1>10. Reached(M)
  <2> SUFFICES ASSUME NEW u \in TablesOf(n) PROVE Has(M, u, ColsOf(n, u) \ Indexes)
    BY <1>4 DEF Reached
  <2>1. Has(L, u, ColsOf(n, u) \ Indexes) \/ Missing(L, u)
    BY <1>4 DEF Sane, Reached
  <2>2. CASE u = t
    <3>1. ColsOf(n, t) \subseteq ColsOf(n + 1, t)
      BY <1>1, Ages DEF ColsOf
    <3>2. QED
      BY <1>6, <1>9, <2>2, <3>1 DEF Has
  <2>3. CASE u # t
    <3>1. ~Missing(L, u)
      BY <1>1, <1>4, <2>3 DEF Missing
    <3>2. u # New[t]
      BY <1>5 DEF TablesOf
    <3>3. QED
      BY <1>7, <2>1, <2>3, <3>1, <3>2
  <2>4. QED
    BY <2>2, <2>3
<1>11. Leftover(M)
  <2> SUFFICES ASSUME NEW u \in Rebuilt, New[u] \in DOMAIN M.tables
               PROVE  u = "jobs" /\ Has(M, "jobs", {"prune"})
    BY DEF Leftover
  <2>1. u # t /\ New[u] # t
    BY <1>1, <1>6, Distinct
  <2>2. New[u] \in DOMAIN L.tables
    BY <1>3, <2>1
  <2>3. ~Has(L, t, {Mark(n)})
    BY <1>5 DEF Has
  <2>4. u = "jobs" /\ Has(L, "jobs", {"prune"})
    BY <1>1, <1>4, <2>1, <2>2, <2>3, CopyIsMade
  <2>5. "jobs" # New[t]
    BY <1>1, Distinct, RebuildFacts
  <2>6. QED
    BY <1>7, <2>1, <2>4, <2>5
<1>12. Turn(b, M)
  <2>1. b.line > c + 2 /\ b.line # 1 /\ b.line \notin 2 .. c + 1 /\ b.line # c + 2 /\ ~(b.line <= c + 1)
    BY <1>1
  <2>2. ~Inside(b)
    BY <1>1 DEF Inside
  <2>3. n = 25 => b.line \notin {2, 3} /\ b.line # 4 /\ ~(b.line > 12)
    BY <1>1
  <2>4. QED
    BY <1>6, <1>9, <2>1, <2>2, <2>3 DEF Turn, Has
<1>13. QED
  BY <1>4, <1>8, <1>10, <1>11, <1>12 DEF Turning, Sane

LEMMA Snapshots ==
  /\ "library_snapshots" \in DOMAIN Since /\ "library_snapshots" \notin TablesOf(25)
  /\ "library_snapshots" \notin Rebuilt \cup Copies /\ NameOf("library_snapshots") = "library_snapshots"
  /\ Final("library_snapshots") = {"ix"} /\ "ix" \in Indexes
<1>1. "library_snapshots" \in DOMAIN Since /\ "library_snapshots" \notin TablesOf(25)
  BY DEF Since, TablesOf
<1>2. Final("library_snapshots") = {"ix"} /\ "ix" \in Indexes
  BY DEF Since, Final, Indexes
<1>3. "library_snapshots" \notin Rebuilt \cup Copies
  BY Names
<1>4. QED
  BY <1>1, <1>2, <1>3, NamesOf

\* The indexes are made, and what else comes with the script.
LEMMA SwapAfter ==
  ASSUME NEW a, a.script \in Rebuilds, a.line \in 1 .. Len(Scripts[a.script]), a.line > CopyLine(a.script) + 2,
         a.line # Len(Scripts[a.script]),
         NEW s, s = Scripts[a.script][a.line], NEW L, IsLibrary(L), ~Fails(s, L), Turning(a, L),
         NEW M, M = After(s, L), NEW b, b.script = a.script, b.line \in Nat, b.line > a.line,
         a.script = 25 /\ b.line > 12 => a.line >= 12
  PROVE  Turning(b, M)
<1> DEFINE n == a.script
           t == Subject(a.script)
           c == CopyLine(a.script)
<1>1. /\ t \in Rebuilt /\ t \in DOMAIN Since /\ n \notin {0, 2} /\ Sound(s) /\ n \in Rebuilds /\ n \in Nat
      /\ c \in {3, 4} /\ MakeLine(n) \in {2, 3} /\ MakeLine(n) < c /\ (n = 25 => c = 4 /\ MakeLine(n) = 3)
      /\ a.line \in Nat
  BY TurnFacts, RebuildFacts
<1>2. SwapLine(n, a.line, s)
  BY SwapHere
<1>3. Tame(s)
  BY <1>1, RebuildLine
<1>4. /\ s.op \in {"index", "commit", "create"}
      /\ s.op = "create" => n = 25 /\ a.line = 12 /\ s.table = "library_snapshots" /\ s.cols = {}
      /\ s.op = "index" => \/ s.table = t /\ s.arg \in Indexes \cap Final(t)
                           \/ n = 25 /\ s.table = "library_snapshots" /\ s.arg = "ix"
  <2>1. s.op # "version"
    BY <1>3 DEF Tame
  <2>2. QED
    BY <1>2, <2>1 DEF SwapLine
<1>5. Grown(s, L, M)
  BY <1>1, <1>4, StatementGrows
<1>6. L.version = n /\ Sane(L) /\ M.version = n
  BY <1>5 DEF Turning, Grown
<1>7. Has(L, t, ColsOf(n + 1, t) \ Indexes) /\ (New[t] \in DOMAIN L.tables => t = "jobs" /\ Has(L, t, {"prune"}))
  BY DEF Turning, Turn
<1>8. /\ \A u, cols : Has(L, u, cols) => Has(M, u, cols)
      /\ \A u, col : Has(M, u, {col}) => \/ Has(L, u, {col})
                                         \/ u = s.table /\ col \in Extra(s)
                                         \/ u = s.table /\ u \notin DOMAIN L.tables
  BY ONLY <1>5, GrownHas
<1>9. \A col \in Extra(s) : col \in Indexes
  BY <1>4, Snapshots DEF Extra
<1>10. Plausible(M)
  <2>1. ASSUME s.op = "create" PROVE PlausibleTable(n, s.table, s.cols)
    <3>1. s.table = "library_snapshots" /\ s.cols = {}
      BY <1>4, <2>1
    <3>2. Timely(n, s.table, {})
      BY DEF Timely
    <3>3. QED
      BY <1>1, <3>1, <3>2, Snapshots DEF PlausibleTable
  <2>2. ASSUME s.op = "index"
        PROVE  /\ s.table \in DOMAIN Since /\ Extra(s) \subseteq Final(s.table)
               /\ Extra(s) \cap {"prune", "summary_json"} = {}
               /\ Timely(n, s.table, Extra(s))
    <3>1. Extra(s) = {s.arg} /\ s.arg \in Indexes /\ s.table \in DOMAIN Since /\ s.arg \in Final(s.table)
      BY <1>1, <1>4, <2>2, Snapshots DEF Extra
    <3>2. s.arg \notin {"prune", "summary_json", "job_id", "origin"}
      BY <3>1 DEF Indexes
    <3>3. QED
      BY <3>1, <3>2 DEF Timely
  <2>3. s.op \notin {"add", "make"}
    BY <1>4
  <2>4. QED
    BY <1>5, <1>6, <2>1, <2>2, <2>3, PlausibleGrows DEF Sane
<1>11. Reached(M)
  <2>1. s.table \in DOMAIN M.tables \ DOMAIN L.tables => s.table \notin TablesOf(n)
    BY <1>4, <1>5, Snapshots, Zenon DEF Grown
  <2>2. QED
    BY <1>5, <1>6, <2>1, ReachedGrows DEF Sane
<1>12. Leftover(M)
  <2>1. s.table \in Copies => s.op \notin {"create", "make"}
    BY <1>4, Snapshots
  <2>2. ASSUME NEW u \in Rebuilt, Subject(n) = u, Has(M, u, {Mark(n)}) PROVE Has(L, u, {Mark(n)})
    <3>1. Mark(n) \notin Extra(s)
      BY <1>1, <1>9, MarksAreColumns
    <3>2. u \in DOMAIN L.tables
      BY <1>7, <2>2 DEF Has
    <3>3. QED
      BY <1>8, <2>2, <3>1, <3>2
  <2>3. QED
    BY <1>5, <1>6, <2>1, <2>2, LeftoverGrows DEF Sane
<1>13. Turn(b, M)
  <2>1. b.line > c + 2 /\ b.line # 1 /\ b.line \notin 2 .. c + 1 /\ b.line # c + 2 /\ ~(b.line <= c + 1)
    BY <1>1
  <2>2. ~Inside(b)
    BY <1>1 DEF Inside
  <2>3. Has(M, t, ColsOf(n + 1, t) \ Indexes)
    BY <1>7, <1>8
  <2>4. New[t] \in DOMAIN M.tables => t = "jobs" /\ Has(M, t, {"prune"})
    <3>1. New[t] # "library_snapshots"
      BY <1>1, Distinct, Snapshots
    <3>2. New[t] \in DOMAIN M.tables => New[t] \in DOMAIN L.tables
      BY <1>4, <1>5, <3>1, Zenon DEF Grown
    <3>3. QED
      BY <1>7, <1>8, <3>2
  <2>5. n = 25 => b.line \notin {2, 3} /\ b.line # 4
    BY <1>1
  <2>6. n = 25 /\ b.line > 12 => "library_snapshots" \in DOMAIN M.tables
    <3> SUFFICES ASSUME n = 25, b.line > 12 PROVE "library_snapshots" \in DOMAIN M.tables
      OBVIOUS
    <3>1. CASE a.line = 12
      <4>1. s = Create("library_snapshots", {})
        BY <3>1, Migration25 DEF Scripts, Migrations, SchemaVersion
      <4>2. s.op = "create" /\ s.table = "library_snapshots"
        BY <4>1, Constructors
      <4>3. QED
        BY <1>5, <4>2 DEF Grown
    <3>2. CASE a.line > 12
      <4>1. "library_snapshots" \in DOMAIN L.tables
        BY <3>2 DEF Turning, Turn
      <4>2. QED
        BY <1>5, <4>1 DEF Grown
    <3>3. QED
      BY <1>1, <3>1, <3>2
  <2>7. QED
    BY <2>1, <2>2, <2>3, <2>4, <2>5, <2>6 DEF Turn
<1>14. QED
  BY <1>6, <1>10, <1>11, <1>12, <1>13 DEF Turning, Sane

\* Where a process is after a statement of a rebuild, but its last.
LEMMA RebuildStep ==
  ASSUME NEW a, a.script \in Rebuilds, a.line \in 1 .. Len(Scripts[a.script]), Due(a),
         NEW s, s = Scripts[a.script][a.line], NEW L, IsLibrary(L), ~Fails(s, L), Turning(a, L),
         NEW M, M = After(s, L), NEW seen, seen = (IF s.op = "look" THEN Seen(L, s.table) ELSE a.seen),
         "never" \notin seen, NEW b, Further(a, b, seen)
  PROVE  Turning(b, M)
<1> DEFINE n == a.script
           c == CopyLine(a.script)
           m == MakeLine(a.script)
<1>1. /\ n \in Nat /\ c \in {3, 4} /\ m \in {2, 3} /\ m < c /\ a.line \in Nat /\ (n = 25 => c = 4)
  BY TurnFacts, RebuildFacts
<1>2. /\ b.line \in Nat /\ b.line > a.line /\ b.script = n /\ a.line # Len(Scripts[n])
  <2>1. n \in 0 .. SchemaVersion - 1
    BY RebuildFacts
  <2>2. b.script = n
    BY DEF Further
  <2>3. QED
    BY <2>1, <2>2, NotLast
<1>3. n = 25 /\ b.line > 12 => a.line >= 12
  BY AlwaysMade
<1>4. a.line \in 2 .. c + 1 => b.line = a.line + 1
  <2> SUFFICES ASSUME a.line \in 2 .. c + 1 PROVE b.line = a.line + 1
    OBVIOUS
  <2>1. a.line \in 2 .. c + 2
    BY <1>1
  <2>2. s.op # "look"
    <3>1. s.op \in {"create", "make", "begin", "copy", "drop", "rename"}
      BY <2>1, RebuildSteps
    <3>2. QED
      BY <3>1
  <2>3. Further(a, b, a.seen)
    BY <2>2
  <2>4. QED
    BY <2>3, SwapInTurn
<1>5. CASE a.line = 1
  BY <1>5, SwapLooks
<1>6. CASE a.line = m
  BY <1>1, <1>2, <1>4, <1>6, SwapMakes
<1>7. CASE a.line \in 2 .. c /\ a.line # m
  <2>1. b.line = a.line + 1
    BY <1>1, <1>4, <1>7
  <2>2. QED
    BY <1>2, <1>7, <2>1, SwapCopies
<1>8. CASE a.line = c + 1
  <2>1. b.line = a.line + 1
    BY <1>1, <1>4, <1>8
  <2>2. QED
    BY <1>2, <1>8, <2>1, SwapDrops
<1>9. CASE a.line = c + 2
  <2>1. n = 25 => b.line <= 12
    BY <1>1, <1>2, <1>3, <1>9
  <2>2. QED
    BY <1>2, <1>9, <2>1, SwapRenames
<1>10. CASE a.line > c + 2
  BY <1>2, <1>3, <1>10, SwapAfter
<1>11. QED
  <2>1. a.line = 1 \/ a.line = m \/ (a.line \in 2 .. c /\ a.line # m) \/ a.line = c + 1 \/ a.line = c + 2
        \/ a.line > c + 2
    BY <1>1
  <2>2. QED
    BY <1>5, <1>6, <1>7, <1>8, <1>9, <1>10, <2>1

\* Where a rebuild ends: the library has come to the next version.
LEMMA RebuildEnds ==
  ASSUME NEW a, a.script \in Rebuilds, a.line = Len(Scripts[a.script]),
         NEW s, s = Scripts[a.script][a.line], NEW L, IsLibrary(L), Turning(a, L), NEW M, M = After(s, L)
  PROVE  Sane(M) /\ AllOrNothing(M) /\ M.version = a.script + 1
<1> DEFINE n == a.script
           t == Subject(a.script)
           c == CopyLine(a.script)
<1>1. /\ Ended(Scripts[n], n) /\ a.line > c + 2 /\ n \in 0 .. SchemaVersion - 1 /\ n \in Rebuilds /\ n \in Nat
      /\ n \notin {0, 2} /\ n + 1 # 0 /\ n + 1 # 24 /\ t \in Rebuilt /\ t \in DOMAIN Since
  BY RebuildFacts, ScriptShapes DEF Shaped
<1>2. s = Closing(n)
  BY <1>1 DEF Ended
<1>3. L.version = n /\ Sane(L)
  BY DEF Turning
<1>4. M.tables = L.tables /\ M.version = n + 1
  BY <1>1, <1>2, <1>3, ClosingKeepsTables
<1>5. /\ Has(L, t, ColsOf(n + 1, t) \ Indexes)
      /\ New[t] \in DOMAIN L.tables => t = "jobs" /\ Has(L, t, {"prune"})
  BY <1>1 DEF Turning, Turn
<1>6. n = 25 => "library_snapshots" \in DOMAIN L.tables
  <2> SUFFICES ASSUME n = 25 PROVE "library_snapshots" \in DOMAIN L.tables
    OBVIOUS
  <2>1. Len(Scripts[25]) = 14
    BY Migration25 DEF Scripts, Migrations, SchemaVersion
  <2>2. QED
    BY <2>1 DEF Turning, Turn
<1>7. \A u \in TablesOf(n + 1) : u # t => Has(L, u, ColsOf(n + 1, u) \ Indexes)
  <2> SUFFICES ASSUME NEW u \in TablesOf(n + 1), u # t PROVE Has(L, u, ColsOf(n + 1, u) \ Indexes)
    OBVIOUS
  <2>1. u \in DOMAIN Since
    BY DEF TablesOf
  <2>2. /\ u \in TablesOf(n) \/ (n = 25 /\ u = "library_snapshots")
        /\ ColsOf(n + 1, u) \ Indexes \subseteq ColsOf(n, u)
    BY <1>1, <2>1, OtherTables
  <2>3. CASE u \in TablesOf(n)
    <3>1. Has(L, u, ColsOf(n, u) \ Indexes) \/ Missing(L, u)
      BY <1>3, <2>3 DEF Sane, Reached
    <3>2. ~Missing(L, u)
      BY <1>1, <1>3 DEF Missing
    <3>3. QED
      BY <2>2, <3>1, <3>2 DEF Has
  <2>4. CASE n = 25 /\ u = "library_snapshots"
    <3>1. ColsOf(n + 1, u) \ Indexes = {}
      BY <2>4, Snapshots DEF ColsOf, Final
    <3>2. QED
      BY <1>6, <2>4, <3>1 DEF Has
  <2>5. QED
    BY <2>2, <2>3, <2>4
<1>8. Reached(M)
  BY <1>4, <1>5, <1>7 DEF Reached, Has
<1>9. Plausible(M)
  <2> SUFFICES ASSUME NEW u \in DOMAIN M.tables PROVE PlausibleTable(n + 1, u, M.tables[u].cols)
    BY <1>4 DEF Plausible
  <2>1. PlausibleTable(n, u, M.tables[u].cols)
    BY <1>3, <1>4 DEF Sane, Plausible
  <2>2. Timely(n + 1, NameOf(u), M.tables[u].cols)
    BY <1>1, <2>1, LaterIsTimely DEF PlausibleTable
  <2>3. QED
    BY <1>1, <2>1, <2>2, Zenon DEF PlausibleTable
<1>10. \A u \in Rebuilt : New[u] \in DOMAIN L.tables => u = "jobs" /\ Has(L, "jobs", {"prune"})
  <2> SUFFICES ASSUME NEW u \in Rebuilt, New[u] \in DOMAIN L.tables
               PROVE  u = "jobs" /\ Has(L, "jobs", {"prune"})
    OBVIOUS
  <2>1. CASE u = t
    BY <1>5, <2>1
  <2>2. CASE u # t
    BY <1>1, <1>3, <2>2 DEF Sane, Leftover
  <2>3. QED
    BY <2>1, <2>2
<1>11. Leftover(M)
  BY <1>4, <1>10 DEF Leftover, Has
<1>12. AllOrNothing(M)
  <2> SUFFICES ASSUME n + 1 = 25
               PROVE  "jobs" \in DOMAIN L.tables /\ ("jobs_new" \in DOMAIN L.tables => Has(L, "jobs", {"prune"}))
    BY <1>1, <1>4, SubjectsOf DEF AllOrNothing, Has
  <2>1. n = 24 /\ t = "processing_stats"
    BY <1>1, SubjectsOf
  <2>2. "jobs" \in TablesOf(n + 1)
    BY <1>1, <2>1, FirstVersions
  <2>3. "jobs" \in DOMAIN L.tables
    BY <1>7, <2>1, <2>2 DEF Has
  <2>4. QED
    BY <1>1, <1>10, <2>3, RebuildFacts
<1>13. QED
  BY <1>4, <1>8, <1>9, <1>11, <1>12 DEF Sane

\* Three rebuilds do not mind a copy that is there.
LEMMA MakersOf ==
  /\ Scripts[6][2].op = "create" /\ Scripts[15][2].op = "create" /\ Scripts[19][2].op = "create"
<1>1. Scripts[6] = Migrate6 /\ Scripts[15] = Migrate15 /\ Scripts[19] = Migrate19
  BY DEF Scripts, Migrations, SchemaVersion
<1>2. QED
  BY <1>1, Migration6, Migration15, Migration19, TaggedConstructors

\* A statement of a rebuild that fails is one of its four steps, and fails for
\* what an earlier process has left; in the last rebuild none does.
LEMMA RebuildFails ==
  ASSUME NEW a, a.script \in Rebuilds, a.line \in 1 .. Len(Scripts[a.script]),
         NEW s, s = Scripts[a.script][a.line], NEW L, IsLibrary(L), Turning(a, L), Fails(s, L)
  PROVE  /\ a.script # 25 /\ a.line \in 2 .. CopyLine(a.script) + 2
         /\ New[Subject(a.script)] \in DOMAIN L.tables
         /\ Inside(a) \/ (a.script = 24 /\ a.line = 2)
<1> DEFINE n == a.script
           t == Subject(a.script)
           c == CopyLine(a.script)
           m == MakeLine(a.script)
<1>1. /\ t \in Rebuilt /\ t \in DOMAIN Since /\ n \notin {0, 2} /\ Sound(s) /\ n \in Rebuilds
      /\ c \in {3, 4} /\ m \in {2, 3} /\ m < c /\ (n = 25 => c = 4 /\ m = 3) /\ a.line \in Nat
  BY TurnFacts
<1>2. L.version = n /\ Sane(L) /\ SwapLine(n, a.line, s)
  BY SwapHere DEF Turning
<1>3. a.line \in 2 .. c + 2
  <2>1. a.line # 1
    <3> SUFFICES ASSUME a.line = 1 PROVE FALSE
      OBVIOUS
    <3>1. s.op = "look"
      BY <1>2 DEF SwapLine
    <3>2. QED
      BY <3>1 DEF Fails
  <2>2. ~(a.line > c + 2)
    <3> SUFFICES ASSUME a.line > c + 2 PROVE FALSE
      OBVIOUS
    <3>1. s.op \in {"index", "commit", "create", "version"}
      BY <1>2 DEF SwapLine
    <3>2. s.op = "index" /\ ~Has(L, s.table, s.cols)
      BY <3>1 DEF Fails
    <3>3. \/ s.table = t /\ s.cols \subseteq MadeCols(n)
          \/ n = 25 /\ a.line = 13 /\ s.table = "library_snapshots" /\ s.cols = {}
      BY <1>2, <3>2 DEF SwapLine
    <3>4. CASE s.table = t /\ s.cols \subseteq MadeCols(n)
      <4>1. Has(L, t, MadeCols(n))
        BY MadeInFull DEF Turning, Turn
      <4>2. QED
        BY <3>2, <3>4, <4>1 DEF Has
    <3>5. CASE n = 25 /\ a.line = 13 /\ s.table = "library_snapshots" /\ s.cols = {}
      <4>1. "library_snapshots" \in DOMAIN L.tables
        BY <3>5 DEF Turning, Turn
      <4>2. QED
        BY <3>2, <3>5, <4>1 DEF Has
    <3>6. QED
      BY <3>3, <3>4, <3>5
  <2>3. QED
    BY <1>1, <2>1, <2>2
<1>4. a.line \in {m, c, c + 1, c + 2}
  <2> SUFFICES ASSUME a.line \notin {m, c, c + 1, c + 2} PROVE FALSE
    OBVIOUS
  <2>1. a.line \in 2 .. c - 1 /\ a.line # m
    BY <1>1, <1>3
  <2>2. s.op = "begin"
    BY <1>2, <2>1 DEF SwapLine
  <2>3. QED
    BY <2>2 DEF Fails
<1>5. CASE a.line = m
  <2>1. Makes(s, t) /\ s.op = "make"
    BY <1>5, RebuildLine DEF Makes, Fails
  <2>2. New[t] \in DOMAIN L.tables
    BY <2>1 DEF Makes, Fails
  <2>3. n # 25
    <3> SUFFICES ASSUME n = 25 PROVE FALSE
      OBVIOUS
    <3>1. New[t] = "jobs_new" /\ a.line = 3
      BY <1>1, <1>5, SubjectsOf, RebuildFacts
    <3>2. "jobs_new" \notin DOMAIN L.tables
      BY <3>1 DEF Turning, Turn
    <3>3. QED
      BY <2>2, <3>1, <3>2
  <2>4. n = 24 /\ a.line = 2
    <3>1. a.line = 2
      BY <1>5, <2>3 DEF MakeLine
    <3>2. CASE n = 24
      BY <3>1, <3>2
    <3>3. CASE n = 6
      BY <2>1, <3>1, <3>3, MakersOf
    <3>4. CASE n = 15
      BY <2>1, <3>1, <3>4, MakersOf
    <3>5. CASE n = 19
      BY <2>1, <3>1, <3>5, MakersOf
    <3>6. QED
      BY <2>3, <3>2, <3>3, <3>4, <3>5 DEF Rebuilds
  <2>5. QED
    BY <1>3, <2>2, <2>3, <2>4
<1>6. CASE a.line \in {c, c + 1, c + 2}
  <2>1. Inside(a)
    <3>1. a.line \in m + 1 .. c + 2
      BY <1>1, <1>6
    <3>2. QED
      BY <3>1 DEF Inside
  <2>2. New[t] \in DOMAIN L.tables
    BY <2>1 DEF Turning, Turn
  <2>3. n # 25
    <3> SUFFICES ASSUME n = 25 PROVE FALSE
      OBVIOUS
    <3>1. t = "jobs" /\ New[t] = "jobs_new"
      BY SubjectsOf, RebuildFacts
    <3>2. CASE a.line = c
      <4>1. CopiesTo(s, t) /\ s.cols = {}
        BY <3>2, RebuildLine DEF NeededCols
      <4>2. t \in DOMAIN L.tables /\ Ids(L, New[t]) = {}
        BY <1>1, <3>1, <3>2 DEF Turning, Turn
      <4>3. ~Has(L, New[t], {"fk_job"})
        <5>1. L.tables[New[t]].cols \subseteq Final("jobs")
          BY <1>1, <1>2, <2>2, <3>1, NamesOf DEF Sane, Plausible, PlausibleTable
        <5>2. "fk_job" \notin Final("jobs")
          BY DEF Final, Since
        <5>3. QED
          BY <5>1, <5>2 DEF Has
      <4>4. QED
        BY <2>2, <4>1, <4>2, <4>3 DEF Fails, CopiesTo, Has
    <3>3. CASE a.line = c + 1
      <4>1. Drops(s, t)
        BY <3>3, RebuildLine
      <4>2. t \in DOMAIN L.tables
        BY <1>1, <3>3 DEF Turning, Turn
      <4>3. QED
        BY <4>1, <4>2 DEF Fails, Drops
    <3>4. CASE a.line = c + 2
      <4>1. Renames(s, t)
        BY <3>4, RebuildLine
      <4>2. t \notin DOMAIN L.tables
        BY <3>4 DEF Turning, Turn
      <4>3. QED
        BY <2>2, <4>1, <4>2 DEF Fails, Renames
    <3>5. QED
      BY <1>6, <3>2, <3>3, <3>4
  <2>4. QED
    BY <1>3, <2>1, <2>2, <2>3
<1>7. QED
  BY <1>4, <1>5, <1>6

-----------------------------------------------------------------------------
(* One process on its way.                                                 *)

OnItsWay(a, L) ==
    /\ Sane(L)
    /\ a.script = 0 => AllOrNothing(L) /\ DoneTo(a, L) /\ (a.stage = "initialize" => L.version = 0)
    /\ a.script \in Gentle => Moving(a, L)
    /\ a.script \in Rebuilds => Turning(a, L)

LEMMA ThreeSorts ==
  /\ \A n \in 0 .. SchemaVersion - 1 : n = 0 \/ n \in Gentle \/ n \in Rebuilds
  /\ 0 \notin Gentle /\ 0 \notin Rebuilds /\ Gentle \cap Rebuilds = {}
  /\ \A n \in 0 .. SchemaVersion - 1 : n # 0 => n \in 1 .. SchemaVersion - 1
  BY DEF Gentle, Rebuilds, SchemaVersion

LEMMA WayStarts ==
  ASSUME NEW L, Sane(L), AllOrNothing(L), NEW a, a.line = 1, a.script \in 0 .. SchemaVersion - 1,
         a.script # 0 => L.version = a.script,
         a.script = 0 /\ a.stage = "initialize" => L.version = 0
  PROVE  OnItsWay(a, L)
<1>1. DoneTo(a, L)
  <2>1. \A j \in 1 .. a.line - 1 : FALSE
    OBVIOUS
  <2>2. QED
    BY <2>1 DEF DoneTo
<1>2. ASSUME a.script \in Gentle PROVE Moving(a, L)
  <2>1. a.script # 0 /\ DOMAIN Scripts[a.script] = 1 .. Len(Scripts[a.script]) /\ Len(Scripts[a.script]) \in Nat
    BY <1>2, GentleFacts, Lines
  <2>2. ASSUME NEW i, Pending(a, i) PROVE FALSE
    <3>1. i \in 1 .. Len(Scripts[a.script]) /\ Scripts[a.script][i].unless # "never"
      BY <2>2 DEF Pending
    <3>2. i # 1 /\ Scripts[a.script][1].op = "look"
      BY <1>2, <2>1, <3>1, GentleScripts DEF GentleShape, Ordered
    <3>3. 1 \in a.line .. i - 1
      BY <2>1, <3>1, <3>2
    <3>4. QED
      BY <2>2, <3>2, <3>3 DEF Pending
  <2>3. QED
    BY <1>1, <2>1, <2>2 DEF Moving, Looked, Cleared
<1>3. ASSUME a.script \in Rebuilds PROVE Turning(a, L)
  <2>1. a.script # 0 /\ CopyLine(a.script) \in {3, 4} /\ MakeLine(a.script) \in {2, 3}
    BY <1>3, RebuildFacts
  <2>2. ~Inside(a)
    BY <2>1 DEF Inside
  <2>3. a.line \notin 2 .. CopyLine(a.script) + 1 /\ a.line # CopyLine(a.script) + 2 /\ ~(a.line > CopyLine(a.script) + 2)
    BY <2>1
  <2>4. a.script \in {24, 25} => Subject(a.script) \in DOMAIN L.tables
    BY <2>1 DEF AllOrNothing
  <2>5. Turn(a, L)
    BY <2>2, <2>3, <2>4 DEF Turn
  <2>6. QED
    BY <2>1, <2>5 DEF Turning
<1>4. QED
  BY <1>1, <1>2, <1>3 DEF OnItsWay

GoesOn(b, L, M) == OnItsWay(b, M) /\ M.version = L.version

LEMMA WayOn ==
  ASSUME NEW a, a.script \in 0 .. SchemaVersion - 1, a.line \in 1 .. Len(Scripts[a.script]), Due(a),
         NEW s, s = Scripts[a.script][a.line], NEW L, IsLibrary(L), ~Fails(s, L), OnItsWay(a, L),
         NEW M, M = After(s, L), NEW seen, seen = (IF s.op = "look" THEN Seen(L, s.table) ELSE a.seen),
         "never" \notin seen, NEW b, Further(a, b, seen)
  PROVE  GoesOn(b, L, M)
<1> USE DEF GoesOn
<1>1. b.script = a.script /\ b.stage = a.stage /\ a.line # Len(Scripts[a.script])
  <2>1. b.script = a.script /\ b.stage = a.stage
    BY DEF Further
  <2>2. QED
    BY <2>1, NotLast
<1>2. CASE a.script = 0
  <2>1. Len(Scripts[0]) = 35 /\ s.unless = "never" /\ s.op # "look"
    <3>1. Len(Scripts[0]) = 35
      BY SchemaScript
    <3>2. \A i \in 1 .. 35 : Scripts[0][i].unless = "never" /\ Scripts[0][i].op # "look"
      BY ONLY SchemaLine DEF FreshLine
    <3>3. QED
      BY <1>2, <3>1, <3>2
  <2>2. b.line = a.line + 1
    <3>1. \A i \in 1 .. 35 : Scripts[0][i].unless = "never"
      BY ONLY SchemaLine DEF FreshLine
    <3>2. b.line \in a.line + 1 .. 35 /\ a.line \in 1 .. 35
      BY <1>2, <2>1 DEF Further
    <3>a. \A i \in a.line + 1 .. b.line - 1 : i \in 1 .. 35
      BY ONLY <3>2
    <3>b. \A i \in a.line + 1 .. b.line - 1 : Scripts[a.script][i].unless \in seen
      BY DEF Further
    <3>3. \A i \in a.line + 1 .. b.line - 1 : i \in 1 .. 35 /\ Scripts[0][i].unless \in seen
      BY ONLY <1>2, <3>a, <3>b
    <3>4. \A i \in a.line + 1 .. b.line - 1 : FALSE
      BY <3>1, <3>3
    <3>5. QED
      BY <3>2, <3>4
  <2>3. a.line \in 1 .. 34
    BY <1>1, <1>2, <2>1
  <2>4. Sane(L) /\ AllOrNothing(L) /\ DoneTo(a, L) /\ (a.stage = "initialize" => L.version = 0)
    BY <1>2 DEF OnItsWay
  <2>5. /\ Sane(M) /\ AllOrNothing(M) /\ M.version = L.version
        /\ \A j \in 1 .. a.line : Done(0, Scripts[0][j], M)
    BY <1>2, <2>3, <2>4, SchemaStep
  <2>6. DoneTo(b, M)
    BY <1>1, <1>2, <2>2, <2>3, <2>5 DEF DoneTo
  <2>7. QED
    BY <1>1, <1>2, <2>4, <2>5, <2>6, ThreeSorts DEF OnItsWay
<1>3. CASE a.script \in Gentle
  <2>1. Moving(a, L)
    BY <1>3 DEF OnItsWay
  <2>2. Moving(b, M)
    BY <1>3, <2>1, GentleStep
  <2>3. QED
    BY <1>1, <1>3, <2>1, <2>2, ThreeSorts DEF OnItsWay, Moving
<1>4. CASE a.script \in Rebuilds
  <2>1. Turning(a, L)
    BY <1>4 DEF OnItsWay
  <2>2. Turning(b, M)
    BY <1>4, <2>1, RebuildStep
  <2>3. QED
    BY <1>1, <1>4, <2>1, <2>2, ThreeSorts DEF OnItsWay, Turning
<1>5. QED
  BY <1>2, <1>3, <1>4, ThreeSorts

LEMMA WayEnds ==
  ASSUME NEW a, a.script \in 0 .. SchemaVersion - 1, a.line = Len(Scripts[a.script]),
         NEW s, s = Scripts[a.script][a.line], NEW L, IsLibrary(L), OnItsWay(a, L), NEW M, M = After(s, L)
  PROVE  /\ Sane(M) /\ AllOrNothing(M) /\ s.op \in {"version", "stamp"}
         /\ a.script # 0 => M.version = a.script + 1
         /\ a.script = 0 => Furnished(M) /\ (a.stage = "initialize" => M.version = SchemaVersion)
<1>0. s.op \in {"version", "stamp"}
  <2>1. s = Closing(a.script)
    BY ScriptShapes DEF Ended
  <2>2. QED
    BY <2>1, ClosingFacts
<1>1. CASE a.script = 0
  <2>1. a.line = 35 /\ s = Scripts[0][35]
    BY <1>1, SchemaScript
  <2>2. Sane(L) /\ AllOrNothing(L) /\ DoneTo(a, L) /\ (a.stage = "initialize" => L.version = 0)
    BY <1>1 DEF OnItsWay
  <2>3. /\ Sane(M) /\ AllOrNothing(M) /\ Furnished(M)
        /\ L.version = 0 => M.version = SchemaVersion
    BY <1>1, <2>1, <2>2, SchemaEnds
  <2>4. QED
    BY <1>0, <1>1, <2>2, <2>3
<1>2. CASE a.script \in Gentle
  <2>1. Moving(a, L)
    BY <1>2 DEF OnItsWay
  <2>2. Sane(M) /\ AllOrNothing(M) /\ M.version = a.script + 1
    BY <1>2, <2>1, GentleEnds
  <2>3. QED
    BY <1>0, <1>2, <2>2, ThreeSorts
<1>3. CASE a.script \in Rebuilds
  <2>1. Turning(a, L)
    BY <1>3 DEF OnItsWay
  <2>2. Sane(M) /\ AllOrNothing(M) /\ M.version = a.script + 1
    BY <1>3, <2>1, RebuildEnds
  <2>3. QED
    BY <1>0, <1>3, <2>2, ThreeSorts
<1>4. QED
  BY <1>1, <1>2, <1>3, ThreeSorts

\* A process fails only in a rebuild or, if create_schema() is executed first of
\* all, in a library it is too new for.
LEMMA WayFails ==
  ASSUME NEW a, a.script \in 0 .. SchemaVersion - 1, a.line \in 1 .. Len(Scripts[a.script]), Due(a),
         NEW s, s = Scripts[a.script][a.line], NEW L, IsLibrary(L), OnItsWay(a, L), Fails(s, L),
         a.stage = "initialize"
  PROVE  a.script \in Rebuilds
<1>1. a.script # 0
  <2> SUFFICES ASSUME a.script = 0 PROVE FALSE
    OBVIOUS
  <2>1. a.line \in 1 .. 35
    BY SchemaScript
  <2>2. QED
    BY <2>1, SchemaHolds DEF OnItsWay, Sane
<1>2. a.script \notin Gentle
  BY GentleHolds DEF OnItsWay
<1>3. QED
  BY <1>1, <1>2, ThreeSorts

-----------------------------------------------------------------------------
(* The two rebuilds that are transactions.                                 *)

\* Where a process may hold one, and where it must: lines 4 to 9 of migration 24,
\* 3 to 11 of migration 25.
InTransaction(a) == (a.script = 24 /\ a.line \in 4 .. 9) \/ (a.script = 25 /\ a.line \in 3 .. 11)
Holding(a) == a.script \in {10, 26} \/ InTransaction(a) \/ (a.script = 24 /\ a.line = 10)
LastHeld(n) == IF n = 24 THEN 9 ELSE 11

LEMMA HeldTogether ==
  ASSUME NEW n \in {24, 25}
  PROVE  /\ \A i \in 2 .. LastHeld(n) : Scripts[n][i].unless = Mark(n)
         /\ Len(Scripts[n]) = IF n = 24 THEN 10 ELSE 14
<1>1. CASE n = 24
  <2>1. Scripts[n] = Migrate24
    BY <1>1 DEF Scripts, Migrations, SchemaVersion
  <2>2. Len(Migrate24) = 10 /\ \A i \in 2 .. 9 : Migrate24[i].unless = "fk_job"
    BY Migration24, TaggedConstructors
  <2>3. QED
    BY <1>1, <2>1, <2>2 DEF Mark, LastHeld
<1>2. CASE n = 25
  <2>1. Scripts[n] = Migrate25
    BY <1>2 DEF Scripts, Migrations, SchemaVersion
  <2>2. Len(Migrate25) = 14 /\ \A i \in 2 .. 11 : Migrate25[i].unless = "prune"
    BY Migration25, TaggedConstructors
  <2>3. QED
    BY <1>2, <2>1, <2>2 DEF Mark, LastHeld
<1>3. QED
  BY <1>1, <1>2

\* They are executed line by line, or skipped as a whole.
LEMMA HeldInTurn ==
  ASSUME NEW a, a.script \in {24, 25}, a.line \in 1 .. Len(Scripts[a.script]), Due(a),
         NEW seen, a.line # 1 => seen = a.seen, NEW b, Further(a, b, seen),
         NEW k, k = LastHeld(a.script)
  PROVE  /\ a.line \in 2 .. k - 1 => b.line = a.line + 1
         /\ a.line = 1 => b.line = 2 \/ b.line > k
         /\ a.line >= k => b.line > k
         /\ a.line \in Nat /\ b.line \in Nat /\ k \in {9, 11} /\ a.line < b.line
<1>1. k \in {9, 11} /\ Len(Scripts[a.script]) \in {10, 14}
  BY HeldTogether DEF LastHeld
<1>2. /\ a.line \in Nat /\ b.line \in Nat /\ a.line < b.line /\ a.line >= 1
      /\ b.line \in a.line + 1 .. Len(Scripts[a.script])
  BY <1>1 DEF Further
<1>3. \A i \in 2 .. k : Scripts[a.script][i].unless = Mark(a.script)
  BY HeldTogether
<1>4. Scripts[a.script][a.line].unless \notin a.seen /\ Scripts[a.script][b.line].unless \notin seen
  BY DEF Due, Further
<1>5. \A i \in a.line + 1 .. b.line - 1 : Scripts[a.script][i].unless \in seen
  BY DEF Further
<1>6. ASSUME a.line \in 2 .. k - 1 PROVE b.line = a.line + 1
  <2>1. Mark(a.script) \notin seen
    BY <1>1, <1>3, <1>4, <1>6
  <2>2. a.line + 1 \in 2 .. k
    BY <1>1, <1>2, <1>6
  <2>3. a.line + 1 \notin a.line + 1 .. b.line - 1
    BY <1>3, <1>5, <2>1, <2>2
  <2>4. QED
    BY <1>2, <2>3
<1>7. ASSUME a.line = 1, b.line # 2 PROVE b.line > k
  <2>1. 2 \in a.line + 1 .. b.line - 1
    BY <1>2, <1>7
  <2>2. Mark(a.script) \in seen
    BY <1>1, <1>3, <1>5, <2>1
  <2>3. b.line \notin 2 .. k
    BY <1>3, <1>4, <2>2
  <2>4. QED
    BY <1>1, <1>2, <1>7, <2>3
<1>8. a.line >= k => b.line > k
  BY <1>1, <1>2
<1>9. QED
  BY <1>1, <1>2, <1>6, <1>7, <1>8

\* Where transactions begin and where one is committed before the last line.
LEMMA BeginsOf ==
  ASSUME NEW a, a.script \in 0 .. SchemaVersion - 1, a.line \in 1 .. Len(Scripts[a.script]),
         NEW s, s = Scripts[a.script][a.line]
  PROVE  /\ s.op = "begin" => \/ a.script \in {10, 26}
                              \/ a.script = 24 /\ a.line = 3
                              \/ a.script = 25 /\ a.line = 2
         /\ s.op = "commit" => a.script = 25 /\ a.line = 11
         /\ s.op \in {"version", "stamp"} => a.line = Len(Scripts[a.script])
<1>1. CASE a.script = 0
  <2>1. a.line \in 1 .. 35
    BY <1>1, SchemaScript
  <2>2. \A i \in 1 .. 35 : /\ Scripts[0][i].op \in {"create", "index", "stamp"}
                           /\ i # 35 => Scripts[0][i].op # "stamp"
    BY ONLY SchemaLine DEF FreshLine
  <2>3. s.op \in {"create", "index", "stamp"} /\ (s.op = "stamp" => a.line = 35)
    BY <1>1, <2>1, <2>2
  <2>4. QED
    BY <1>1, <2>3, SchemaScript
<1>2. CASE a.script \in Gentle
  <2>1. Plain(a.script, s) /\ (a.line # Len(Scripts[a.script]) => Tame(s))
    BY <1>2, HereIsPlain
  <2>2. QED
    BY <2>1 DEF Plain, Tame
<1>3. CASE a.script \in Rebuilds
  <2> DEFINE n == a.script
             c == CopyLine(n)
             m == MakeLine(n)
  <2>1. SwapLine(n, a.line, s)
    BY <1>3, SwapHere
  <2>2. /\ a.line = m => Makes(s, Subject(n))
        /\ a.line = c => s.op = "copy"
        /\ a.line = c + 1 => s.op = "drop"
        /\ a.line = c + 2 => s.op = "rename"
        /\ m < a.line /\ a.line < c => a.script = 24 /\ a.line = 3
        /\ a.line \notin {m, c, c + 1, c + 2, Len(Scripts[n])} => Tame(s)
        /\ Len(Scripts[n]) > c + 2 /\ c \in {3, 4} /\ m \in {2, 3} /\ m < c
    BY <1>3, RebuildLine DEF CopiesTo, Drops, Renames
  <2>3. a.line \in Nat /\ a.line >= 1 /\ (n = 25 <=> m = 3)
    BY <1>3, Lines DEF MakeLine
  <2>4. s.op = "begin" => (a.script = 24 /\ a.line = 3) \/ (a.script = 25 /\ a.line = 2)
    <3>1. a.line = 1 => s.op = "look"
      BY <2>1 DEF SwapLine
    <3>2. a.line > c + 2 => s.op # "begin"
      BY <2>1 DEF SwapLine
    <3>3. a.line = m => s.op # "begin"
      BY <2>2 DEF Makes
    <3>4. a.line < m /\ a.line # 1 => n = 25 /\ a.line = 2
      BY <2>2, <2>3
    <3>5. QED
      BY <2>2, <2>3, <3>1, <3>2, <3>3, <3>4
  <2>5. s.op = "commit" => a.script = 25 /\ a.line = 11
    BY <2>1 DEF SwapLine
  <2>6. s.op \in {"version", "stamp"} => a.line = Len(Scripts[n])
    BY <2>2 DEF Tame, Makes
  <2>7. QED
    BY <2>4, <2>5, <2>6
<1>4. QED
  BY <1>1, <1>2, <1>3, ThreeSorts

-----------------------------------------------------------------------------
(* Processes that open the library one after another, wherever they die.   *)

\* Where the process that opens the library is: on its way, in the transaction
\* if it is where there is one, the file then as the copy was made in it.
Underway(p) ==
    /\ OnItsWay(at[p], Content)
    /\ InTransaction(at[p]) => writer = p
    /\ at[p].script = 24 /\ InTransaction(at[p]) => "processing_stats_new" \in DOMAIN lib.tables
    /\ at[p].stage = "ensure" => at[p].kind # "upgrade --db"
    /\ at[p].stage # "initialize" => at[p].script = 0
    /\ at[p].stage = "read" => at[p].line = 1

Alone ==
    /\ \A p, q \in Processes : Opening(p) /\ Opening(q) => p = q
    /\ Sane(lib) /\ AllOrNothing(lib)
    /\ writer # NoProcess => Holding(at[writer]) /\ draft.version = lib.version
    /\ \A p \in Processes : Opening(p) => Underway(p)

AloneInv == ~overlap => Alone

LEMMA SoleHolder ==
  ASSUME TypesInv, Alone, NEW p \in Processes, Opening(p)
  PROVE  /\ writer \in {p, NoProcess} /\ View(p) = Content
         /\ \A q \in Processes \ {p} : ~Opening(q)
         /\ writer = p => Holding(at[p]) /\ draft.version = lib.version
         /\ writer = NoProcess => View(p) = lib
         /\ View(p).version = lib.version
<1>1. writer \in Processes \cup {NoProcess} /\ (writer # NoProcess => Opening(writer))
  BY DEF TypesInv, WriterInv, Opening, Busy
<1>2. writer \in {p, NoProcess}
  BY <1>1 DEF Alone
<1>3. NoProcess # p
  BY UpgradeAssumption
<1>4. QED
  BY <1>1, <1>2, <1>3 DEF Alone, View, Content

\* Libraries as Init has them.
LEMMA FirstIsSane ==
  ASSUME NEW v \in 0 .. SchemaVersion
  PROVE  Sane(LibraryOf(v)) /\ AllOrNothing(LibraryOf(v))
<1> DEFINE L == LibraryOf(v)
<1>1. CASE v = 0
  <2>1. L.version = 0 /\ DOMAIN L.tables = {}
    BY <1>1 DEF LibraryOf, EmptyLibrary
  <2>2. TablesOf(0) = {}
    BY DEF TablesOf, Since
  <2>3. Plausible(L) /\ Reached(L)
    BY <2>1, <2>2 DEF Plausible, Reached
  <2>4. Leftover(L) /\ AllOrNothing(L)
    BY <2>1 DEF Leftover, AllOrNothing
  <2>5. QED
    BY <2>3, <2>4 DEF Sane
<1>2. CASE v # 0
  <2>0. v \in Nat /\ v \in 1 .. 27
    BY <1>2 DEF SchemaVersion
  <2>1. /\ L.version = v /\ DOMAIN L.tables = TablesOf(v)
        /\ \A t \in TablesOf(v) : L.tables[t].cols = ColsOf(v, t)
    BY <1>2 DEF LibraryOf
  <2>2. TablesOf(v) \subseteq DOMAIN Since
    BY DEF TablesOf
  <2>3. \A t \in TablesOf(v) : PlausibleTable(v, t, ColsOf(v, t))
    <3> SUFFICES ASSUME NEW t \in TablesOf(v) PROVE PlausibleTable(v, t, ColsOf(v, t))
      OBVIOUS
    <3>1. NameOf(t) = t /\ t \in DOMAIN Since
      BY <2>2, NamesOf
    <3>2. ColsOf(v, t) \subseteq Final(t)
      BY DEF ColsOf, Final
    <3>3. t = "jobs" /\ "prune" \in ColsOf(v, t) => JobsOf26 \subseteq ColsOf(v, t)
      BY <2>0 DEF ColsOf, JobsOf26, JobsOf7, Since
    <3>4. t = "jobs" /\ "summary_json" \in ColsOf(v, t) => JobsOf7 \subseteq ColsOf(v, t)
      BY <2>0 DEF ColsOf, JobsOf7, Since
    <3>5. Timely(v, t, ColsOf(v, t))
      BY <2>0 DEF ColsOf, Timely, Since
    <3>6. QED
      BY <2>0, <3>1, <3>2, <3>3, <3>4, <3>5 DEF PlausibleTable
  <2>4. Plausible(L)
    BY <2>1, <2>3 DEF Plausible
  <2>5. Reached(L)
    BY <2>1 DEF Reached, Has
  <2>6. \A t \in Rebuilt : New[t] \notin DOMAIN L.tables
    BY <2>1, <2>2, NamesOf, Distinct
  <2>7. Leftover(L)
    BY <2>6 DEF Leftover
  <2>8. L.version = 25 => "jobs_new" \notin DOMAIN L.tables
    BY <2>6, Names
  <2>9. v \in {24, 25} => Subject(v) \in TablesOf(v)
    BY Rebuilding DEF Rebuilds
  <2>10. AllOrNothing(L)
    BY <2>1, <2>8, <2>9 DEF AllOrNothing
  <2>11. QED
    BY <2>4, <2>5, <2>7, <2>10 DEF Sane
<1>3. QED
  BY <1>1, <1>2

LEMMA AloneInit == Init => AloneInv
<1> SUFFICES ASSUME Init PROVE Alone
  BY DEF AloneInv
<1>1. \A p \in Processes : ~Opening(p)
  BY DEF Init, Opening, Place, Busy
<1>2. lib = LibraryOf(origin) /\ origin \in 0 .. SchemaVersion
  BY UpgradeAssumption DEF Init, Originals
<1>3. Sane(lib) /\ AllOrNothing(lib)
  BY <1>2, FirstIsSane
<1>4. writer = NoProcess
  BY DEF Init
<1>5. QED
  BY <1>1, <1>3, <1>4 DEF Alone

\* What a statement of p leaves: its transaction goes on, or the file has all.
StaysOpen(p, s) == (writer = p \/ s.op = "begin") /\ s.op \notin {"version", "stamp", "commit"}
Leaves(p, s, new) ==
    /\ StaysOpen(p, s) => lib' = lib /\ writer' = p /\ draft' = new
    /\ ~StaysOpen(p, s) => lib' = new /\ writer' = NoProcess
    /\ Content' = new

LEMMA FileAfter ==
  ASSUME TypesInv, Alone, NEW p \in Processes, Execute(p),
         NEW s, s = Scripts[at[p].script][at[p].line], NEW new, new = After(s, View(p))
  PROVE  Leaves(p, s, new)
<1> DEFINE opened == writer = p \/ s.op = "begin"
           ends == s.op \in {"version", "stamp", "commit"}
<1>1. Opening(p)
  <2>1. at[p].stage \in {"ensure", "initialize"}
    BY Zenon DEF Execute
  <2>2. QED
    BY <2>1 DEF Opening, Busy
<1>2. writer \in {p, NoProcess} /\ p # NoProcess
  BY <1>1, SoleHolder, UpgradeAssumption
<1>3. /\ lib' = IF opened /\ ~ends THEN lib ELSE new
      /\ writer' = CASE opened /\ ~ends -> p
                     [] opened /\ ends -> NoProcess
                     [] OTHER -> writer
      /\ draft' = CASE opened /\ ~ends -> new
                    [] opened /\ ends -> EmptyLibrary
                    [] OTHER -> draft
  BY Zenon DEF Execute
<1>4. /\ opened \in BOOLEAN /\ ends \in BOOLEAN /\ (writer = p => opened)
      /\ StaysOpen(p, s) = (opened /\ ~ends)
  BY DEF StaysOpen
<1>. HIDE DEF opened, ends
<1>5. QED
  BY ONLY <1>2, <1>3, <1>4 DEF Leaves, Content

\* From one line to a further one, a process stays in its transaction or begins
\* it where it does.
LEMMA StaysInTransaction ==
  ASSUME NEW a, a.script \in 0 .. SchemaVersion - 1, a.line \in 1 .. Len(Scripts[a.script]), Due(a),
         NEW s, s = Scripts[a.script][a.line],
         NEW seen, s.op # "look" => seen = a.seen, NEW b, Further(a, b, seen)
  PROVE  /\ InTransaction(b) => /\ s.op \notin {"version", "stamp", "commit"}
                                /\ InTransaction(a) \/ (s.op = "begin" /\ (a.script = 24 => a.line = 3))
         /\ Holding(a) \/ s.op = "begin" => Holding(b) \/ s.op \in {"version", "stamp", "commit"}
<1>1. b.script = a.script
  BY DEF Further
<1>2. CASE a.script \in {24, 25}
  <2> DEFINE k == LastHeld(a.script)
  <2>1. a.line # 1 => seen = a.seen
    <3>1. a.script \in Rebuilds
      BY <1>2 DEF Rebuilds
    <3>2. SwapLine(a.script, a.line, s) /\ a.line \in Nat
      BY <3>1, SwapHere, TurnFacts, RebuildFacts
    <3>3. a.line \in 2 .. CopyLine(a.script) + 2 => s.op # "look"
      BY <3>1, RebuildSteps
    <3>4. a.line > CopyLine(a.script) + 2 => s.op # "look"
      BY <3>2 DEF SwapLine
    <3>5. QED
      BY <3>1, <3>2, <3>3, <3>4, RebuildFacts
  <2>2. /\ a.line \in 2 .. k - 1 => b.line = a.line + 1
        /\ a.line = 1 => b.line = 2 \/ b.line > k
        /\ a.line >= k => b.line > k
        /\ a.line \in Nat /\ b.line \in Nat /\ k \in {9, 11} /\ a.line < b.line
    BY <1>2, <2>1, HeldInTurn
  <2>3. k = IF a.script = 24 THEN 9 ELSE 11
    BY DEF LastHeld
  <2>4. Len(Scripts[a.script]) = IF a.script = 24 THEN 10 ELSE 14
    BY <1>2, HeldTogether
  <2>5. /\ s.op = "begin" => (a.script = 24 /\ a.line = 3) \/ (a.script = 25 /\ a.line = 2)
        /\ s.op = "commit" => a.script = 25 /\ a.line = 11
        /\ s.op \in {"version", "stamp"} => a.line = Len(Scripts[a.script])
    BY <1>2, BeginsOf
  <2>6. b.line \in 1 .. Len(Scripts[a.script]) /\ a.line >= 1
    BY <2>2, <2>4 DEF Further
  <2>7. (a.script = 24 /\ a.line = 3) \/ (a.script = 25 /\ a.line = 2) => s.op = "begin"
    <3>1. a.script \in Rebuilds /\ SwapLine(a.script, a.line, s)
      BY <1>2, SwapHere DEF Rebuilds
    <3>2. QED
      BY <3>1 DEF SwapLine, CopyLine, MakeLine
  <2>8. CASE a.script = 24
    BY <1>1, <2>2, <2>3, <2>4, <2>5, <2>6, <2>7, <2>8 DEF InTransaction, Holding
  <2>9. CASE a.script = 25
    <3>1. a.line = 11 => s.op = "commit"
      BY <2>9, Migration25, TaggedConstructors DEF Scripts, Migrations, SchemaVersion
    <3>2. QED
      BY <1>1, <2>2, <2>3, <2>4, <2>5, <2>6, <2>7, <2>9, <3>1 DEF InTransaction, Holding
  <2>10. QED
    BY <1>2, <2>8, <2>9
<1>3. CASE a.script \notin {24, 25}
  <2>1. s.op = "begin" => a.script \in {10, 26}
    BY <1>3, BeginsOf
  <2>2. QED
    BY <1>1, <1>3, <2>1 DEF InTransaction, Holding
<1>4. QED
  BY <1>2, <1>3

\* Outside of the transactions the file is as they leave it.
LEMMA OutsideIsWhole ==
  ASSUME NEW b, b.script \in 0 .. SchemaVersion - 1, b.line \in Nat, b.line >= 1, ~InTransaction(b),
         NEW M, OnItsWay(b, M)
  PROVE  Sane(M) /\ AllOrNothing(M)
<1>0. Sane(M)
  BY DEF OnItsWay
<1>1. CASE b.script = 0
  BY <1>0, <1>1 DEF OnItsWay
<1>2. CASE b.script \in Gentle
  <2>1. M.version = b.script
    BY <1>2 DEF OnItsWay, Moving
  <2>2. b.script \notin {24, 25}
    BY <1>2 DEF Gentle
  <2>3. QED
    BY <1>0, <2>1, <2>2 DEF AllOrNothing
<1>3. CASE b.script \in Rebuilds
  <2>1. M.version = b.script /\ Turn(b, M)
    BY <1>3 DEF OnItsWay, Turning
  <2>2. CASE b.script \notin {24, 25}
    BY <1>0, <2>1, <2>2 DEF AllOrNothing
  <2>3. CASE b.script = 24
    <3>1. b.line \in {1, 2, 3} \/ b.line > 6
      BY <2>3 DEF InTransaction
    <3>2. Subject(24) \in DOMAIN M.tables
      <4>1. CASE b.line = 1
        BY <2>1, <2>3, <4>1 DEF Turn, AllOrNothing
      <4>2. CASE b.line \in {2, 3}
        BY <2>1, <2>3, <4>2 DEF Turn, CopyLine
      <4>3. CASE b.line > 6
        BY <2>1, <2>3, <4>3 DEF Turn, CopyLine, Has
      <4>4. QED
        BY <3>1, <4>1, <4>2, <4>3
    <3>3. QED
      BY <1>0, <2>1, <2>3, <3>2 DEF AllOrNothing
  <2>4. CASE b.script = 25
    <3>1. b.line = 1 \/ b.line = 2 \/ b.line > 11
      BY <2>4 DEF InTransaction
    <3>2. CASE b.line = 1
      BY <1>0, <2>1, <3>2 DEF Turn
    <3>3. CASE b.line = 2
      <4>1. Subject(25) \in DOMAIN M.tables /\ "jobs_new" \notin DOMAIN M.tables
        BY <2>1, <2>4, <3>3 DEF Turn, CopyLine
      <4>2. QED
        BY <1>0, <2>1, <2>4, <4>1 DEF AllOrNothing
    <3>4. CASE b.line > 11
      <4>1. Has(M, "jobs", ColsOf(26, "jobs") \ Indexes)
        BY <2>1, <2>4, <3>4 DEF Turn, CopyLine, Subject
      <4>2. "prune" \in ColsOf(26, "jobs") \ Indexes
        BY DEF ColsOf, Since, Indexes
      <4>3. QED
        BY <1>0, <2>1, <2>4, <4>1, <4>2 DEF AllOrNothing, Has, Subject
    <3>5. QED
      BY <3>1, <3>2, <3>3, <3>4
  <2>5. QED
    BY <2>2, <2>3, <2>4
<1>4. QED
  BY <1>1, <1>2, <1>3, ThreeSorts

\* A process that is at the copy of migration 24, or past it, sees the copy it
\* has made.
LEMMA CopyThere ==
  ASSUME NEW a, a.script = 24, a.line = 3, NEW L, OnItsWay(a, L)
  PROVE  "processing_stats_new" \in DOMAIN L.tables
<1>1. Turn(a, L)
  BY DEF OnItsWay, Turning, Rebuilds
<1>2. Inside(a)
  BY DEF Inside, Rebuilds, MakeLine, CopyLine
<1>3. New[Subject(24)] = "processing_stats_new"
  BY Names DEF Subject
<1>4. QED
  BY <1>1, <1>2, <1>3 DEF Turn

LEMMA ExecuteAlone ==
  ASSUME TypesInv, VersionsInv, Alone, NEW p \in Processes, Execute(p)
  PROVE  Alone'
<1> DEFINE a == at[p]
           s == Scripts[a.script][a.line]
           V == View(p)
           new == After(s, V)
           b == at'[p]
           opened == writer = p \/ s.op = "begin"
           ends == s.op \in {"version", "stamp", "commit"}
           seen == IF s.op = "look" THEN Seen(V, s.table) ELSE a.seen
<1>1. /\ Opening(p) /\ Due(a) /\ Underway(p)
  BY DEF Execute, Opening, Busy, VersionsInv, Alone
<1>2. /\ StartedPlace(a) /\ a.stage \in {"ensure", "initialize"} /\ IsLibrary(V) /\ IsLibrary(new)
      /\ a.script \in 0 .. SchemaVersion - 1 /\ a.line \in 1 .. Len(Scripts[a.script])
      /\ ~Fails(s, V)
      /\ \A q \in Processes \ {p} : at'[q] = at[q]
      /\ "never" \notin seen
      /\ \/ b = AfterScript(a) /\ a.line = Len(Scripts[a.script])
         \/ Further(a, b, seen)
  BY Executed
<1>3. /\ writer \in {p, NoProcess} /\ V = Content
      /\ \A q \in Processes \ {p} : ~Opening(q)
      /\ writer = p => Holding(a) /\ draft.version = lib.version
      /\ writer = NoProcess => V = lib
      /\ V.version = lib.version
  BY <1>1, SoleHolder
<1>5. OnItsWay(a, V)
  BY <1>1, <1>3, Zenon DEF Underway
<1>6. \A q \in Processes \ {p} : ~Opening(q)'
  BY <1>2, <1>3 DEF Opening
<1>7. TypesInv'
  BY TypesStep DEF Next
<1>8. b.line \in Nat /\ b.line >= 1 /\ b.script \in 0 .. SchemaVersion - 1
  <2>1. StartedPlace(b)
    BY <1>7 DEF TypesInv, PlacesInv
  <2>2. b.script \in 0 .. SchemaVersion - 1 /\ b.line \in 1 .. Len(Scripts[b.script])
    BY <2>1 DEF StartedPlace
  <2>3. Len(Scripts[b.script]) \in Nat
    BY <2>2, Lines
  <2>4. QED
    BY <2>2, <2>3
<1>. HIDE DEF a, s, V, new, b, opened, ends, seen
<1>4. /\ opened /\ ~ends => lib' = lib /\ writer' = p /\ draft' = new
      /\ ~(opened /\ ~ends) => lib' = new /\ writer' = NoProcess
      /\ Content' = new
  <2>1. s = Scripts[at[p].script][at[p].line] /\ new = After(s, View(p))
    BY DEF a, s, V, new
  <2>2. Leaves(p, s, new)
    BY <2>1, FileAfter
  <2>3. QED
    BY <2>2 DEF Leaves, StaysOpen, opened, ends
<1>9. p # NoProcess
  BY UpgradeAssumption
<1>10. ASSUME Further(a, b, seen) PROVE Alone'
  <2>1. OnItsWay(b, new) /\ new.version = V.version
    <3>1. seen = (IF s.op = "look" THEN Seen(V, s.table) ELSE a.seen) /\ s = Scripts[a.script][a.line] /\ new = After(s, V)
      BY DEF seen, s, new
    <3>2. /\ a.script \in 0 .. SchemaVersion - 1 /\ a.line \in 1 .. Len(Scripts[a.script]) /\ Due(a)
          /\ IsLibrary(V) /\ ~Fails(s, V) /\ OnItsWay(a, V) /\ "never" \notin seen /\ Further(a, b, seen)
      BY <1>1, <1>2, <1>5, <1>10
    <3>3. GoesOn(b, V, new)
      BY ONLY <3>1, <3>2, WayOn
    <3>4. QED
      BY <3>3 DEF GoesOn
  <2>2. /\ InTransaction(b) => /\ s.op \notin {"version", "stamp", "commit"}
                               /\ InTransaction(a) \/ (s.op = "begin" /\ (a.script = 24 => a.line = 3))
        /\ Holding(a) \/ s.op = "begin" => Holding(b) \/ s.op \in {"version", "stamp", "commit"}
    <3>1. (s.op # "look" => seen = a.seen) /\ s = Scripts[a.script][a.line]
      BY DEF seen, s
    <3>2. QED
      BY ONLY <1>1, <1>2, <1>10, <3>1, StaysInTransaction
  <2>3. InTransaction(b) => opened /\ ~ends
    BY <1>1, <2>2, Zenon DEF opened, ends, Underway, a
  <2>4. Sane(lib') /\ AllOrNothing(lib')
    <3>1. CASE opened /\ ~ends
      BY <1>4, <3>1 DEF Alone
    <3>2. CASE ~(opened /\ ~ends)
      BY <1>4, <1>8, <2>1, <2>3, <3>2, OutsideIsWhole
    <3>3. QED
      BY <3>1, <3>2
  <2>5. writer' # NoProcess => Holding(at'[writer']) /\ draft'.version = lib'.version
    <3>1. CASE opened /\ ~ends
      <4>1. Holding(b)
        BY <1>3, <2>2, <3>1 DEF opened, ends
      <4>2. QED
        BY <1>3, <1>4, <2>1, <3>1, <4>1 DEF b
    <3>2. QED
      BY <1>4, <3>1
  <2>6. b.script = 24 /\ InTransaction(b) => "processing_stats_new" \in DOMAIN lib'.tables
    <3> SUFFICES ASSUME b.script = 24, InTransaction(b) PROVE "processing_stats_new" \in DOMAIN lib'.tables
      OBVIOUS
    <3>1. lib' = lib /\ a.script = 24
      BY <1>4, <1>10, <2>3 DEF Further
    <3>2. CASE InTransaction(a)
      BY <1>1, <3>1, <3>2, Zenon DEF Underway, a
    <3>3. CASE ~InTransaction(a)
      <4>1. a.line = 3
        BY <2>2, <3>1, <3>3
      <4>2. writer = NoProcess
        BY <1>3, <3>1, <3>3, <4>1 DEF Holding
      <4>3. QED
        BY <1>3, <1>5, <3>1, <4>1, <4>2, CopyThere
    <3>4. QED
      BY <3>2, <3>3
  <2>7. Underway(p)'
    <3>1. b.stage = a.stage /\ b.kind = a.kind /\ b.script = a.script /\ a.stage # "read"
      BY <1>2, <1>10 DEF Further
    <3>2. InTransaction(b) => writer' = p
      BY <1>4, <2>3
    <3>3. QED
      BY <1>1, <1>4, <2>1, <2>6, <3>1, <3>2, Zenon DEF Underway, a, b
  <2>8. QED
    BY <1>6, <2>4, <2>5, <2>7 DEF Alone
<1>11. ASSUME b = AfterScript(a), a.line = Len(Scripts[a.script]) PROVE Alone'
  <2>1. /\ Sane(new) /\ AllOrNothing(new) /\ s.op \in {"version", "stamp"}
        /\ a.script # 0 => new.version = a.script + 1
    <3>1. s = Scripts[a.script][a.line] /\ new = After(s, V)
      BY DEF s, new
    <3>2. QED
      BY ONLY <1>2, <1>5, <1>11, <3>1, WayEnds
  <2>2. lib' = new /\ writer' = NoProcess
    BY <1>4, <2>1 DEF ends
  <2>3. /\ b.line = 1 /\ b.stage \in {"open", "read", "initialize"}
        /\ b.stage = "read" => b.script = 0
        /\ b.stage = "initialize" => a.script # 0 /\ b.script = a.script + 1
        /\ b.script # 0 => b.stage = "initialize"
    BY <1>11 DEF AfterScript, Place
  <2>4. ASSUME Opening(p)' PROVE Underway(p)'
    <3>1. b.stage \in {"read", "initialize"}
      BY <2>3, <2>4 DEF Opening, Busy, b
    <3>2. OnItsWay(b, new)
      <4>1. b.script # 0 => new.version = b.script
        BY <2>1, <2>3
      <4>2. ~(b.script = 0 /\ b.stage = "initialize")
        BY <1>2, <2>3, ScriptNumbers
      <4>3. QED
        BY <1>8, <2>1, <2>3, <4>1, <4>2, WayStarts
    <3>3. ~InTransaction(b)
      BY <2>3 DEF InTransaction
    <3>4. QED
      BY <1>4, <2>3, <3>1, <3>2, <3>3, Zenon DEF Underway, b
  <2>5. QED
    BY <1>6, <2>1, <2>2, <2>4 DEF Alone
<1>12. QED
  BY <1>2, <1>10, <1>11

\* A process stops or goes to a place where it has executed nothing yet, and no
\* transaction is left.
LEMMA MoveAlone ==
  ASSUME TypesInv, Alone, NEW p \in Processes, \A q \in Processes \ {p} : ~Opening(q),
         NEW b, at' = [at EXCEPT ![p] = b], writer' = NoProcess, lib' = lib,
         b.line = 1, b.script \in 0 .. SchemaVersion - 1,
         \/ b.stage \notin Busy
         \/ /\ b.stage \in {"ensure", "read"} /\ b.script = 0
            /\ b.stage = "ensure" => b.kind # "upgrade --db"
         \/ b.stage = "initialize" /\ b.script = lib.version
  PROVE  Alone'
<1>1. at'[p] = b /\ \A q \in Processes \ {p} : at'[q] = at[q]
  BY Zenon DEF TypesInv, PlacesInv
<1>2. \A q \in Processes \ {p} : ~Opening(q)'
  BY <1>1 DEF Opening
<1>3. Sane(lib) /\ AllOrNothing(lib)
  BY Zenon DEF Alone
<1>4. Content' = lib
  BY DEF Content
<1>5. ASSUME b.stage \in Busy PROVE OnItsWay(b, lib)
  <2>1. b.script # 0 => lib.version = b.script
    BY <1>5, Zenon
  <2>2. b.script = 0 /\ b.stage = "initialize" => lib.version = 0
    BY <1>5
  <2>3. QED
    BY <1>3, <2>1, <2>2, WayStarts, Zenon
<1>6. ~InTransaction(b)
  <2>0. b.line = 1
    OBVIOUS
  <2>1. b.line \notin 4 .. 9 /\ b.line \notin 3 .. 11
    BY ONLY <2>0
  <2>2. QED
    BY ONLY <2>1 DEF InTransaction
<1>7. Opening(p)' => Underway(p)'
  BY <1>1, <1>4, <1>5, <1>6, Zenon DEF Opening, Underway, Busy
<1>8. QED
  BY <1>2, <1>3, <1>7, Zenon DEF Alone

LEMMA AloneStep == TypesInv /\ VersionsInv /\ AloneInv /\ [Next]_vars => AloneInv'
<1> SUFFICES ASSUME TypesInv, VersionsInv, AloneInv, [Next]_vars, ~overlap'
             PROVE  Alone'
  BY DEF AloneInv
<1>0. 0 \in 0 .. SchemaVersion - 1
  BY DEF SchemaVersion
<1>1. CASE UNCHANGED vars
  BY <1>1, Zenon DEF vars, AloneInv, Alone, Underway, Opening, Content
<1>2. ASSUME NEW p \in Processes, NEW kind \in Kinds, Open(p, kind) PROVE Alone'
  <2> DEFINE b == Place(kind, IF kind = "upgrade --db" THEN "read" ELSE "ensure", 0)
  <2>1. /\ Alone /\ Idle /\ at' = [at EXCEPT ![p] = b] /\ lib' = lib /\ writer' = writer
    BY <1>2, Zenon DEF Open, AloneInv
  <2>2. writer = NoProcess /\ \A q \in Processes : ~Opening(q)
    BY <2>1 DEF Idle, TypesInv, WriterInv, Opening, Busy
  <2>3. /\ b.line = 1 /\ b.script = 0 /\ b.stage \in {"ensure", "read"}
        /\ b.stage = "ensure" => b.kind # "upgrade --db"
    BY Zenon DEF Place
  <2> HIDE DEF b
  <2>4. QED
    BY <1>0, <2>1, <2>2, <2>3, MoveAlone, Zenon
<1>3. ASSUME NEW p \in Processes, ReadVersion(p) PROVE Alone'
  <2> DEFINE b == AfterVersion(at[p], lib.version)
  <2>1. /\ Alone /\ at[p].stage = "read" /\ at' = [at EXCEPT ![p] = b] /\ lib' = lib
        /\ writer' = writer
    BY <1>3 DEF ReadVersion, AloneInv
  <2>2. Opening(p)
    BY <2>1 DEF Opening, Busy
  <2>3. writer = NoProcess /\ \A q \in Processes \ {p} : ~Opening(q)
    <3>1. at[p].script = 0
      BY <2>1, <2>2, Zenon DEF Alone, Underway
    <3>2. ~Holding(at[p])
      BY <3>1 DEF Holding, InTransaction
    <3>3. QED
      BY <2>1, <2>2, <3>2, SoleHolder
  <2>4. lib.version \in 0 .. SchemaVersion
    BY DEF TypesInv, LibrariesInv, IsLibrary
  <2>5. /\ b.line = 1 /\ b.script \in 0 .. SchemaVersion - 1
        /\ b.stage \notin Busy \/ (b.stage = "initialize" /\ b.script = lib.version)
    BY <1>0, <2>4 DEF AfterVersion, Place, SchemaVersion, Busy
  <2> HIDE DEF b
  <2>6. QED
    BY <2>1, <2>3, <2>5, MoveAlone, Zenon
<1>4. ASSUME NEW p \in Processes, Execute(p) PROVE Alone'
  <2>1. Alone
    BY <1>4 DEF Execute, AloneInv
  <2>2. QED
    BY <1>4, <2>1, ExecuteAlone
<1>5. ASSUME NEW p \in Processes, Raise(p) PROVE Alone'
  <2> DEFINE b == Place(at[p].kind, IF at[p].stage = "ensure" /\ at[p].kind = "upgrade" THEN "read" ELSE "failed", 0)
  <2>1. /\ Alone /\ at[p].stage \in {"ensure", "initialize"} /\ at' = [at EXCEPT ![p] = b] /\ lib' = lib
        /\ writer' = IF writer = p THEN NoProcess ELSE writer
    BY <1>5 DEF Raise, RollBack, AloneInv
  <2>2. Opening(p)
    BY <2>1 DEF Opening, Busy
  <2>3. writer' = NoProcess /\ \A q \in Processes \ {p} : ~Opening(q)
    BY <2>1, <2>2, SoleHolder
  <2>4. /\ b.line = 1 /\ b.script = 0 /\ b.stage \in {"read", "failed"} /\ b.stage # "ensure"
    BY DEF Place
  <2>5. "failed" \notin Busy
    BY DEF Busy
  <2> HIDE DEF b
  <2>6. QED
    BY <1>0, <2>1, <2>3, <2>4, <2>5, MoveAlone, Zenon
<1>6. ASSUME NEW p \in Processes, Crash(p) PROVE Alone'
  <2> DEFINE b == Place(at[p].kind, "closed", 0)
  <2>1. /\ Alone /\ Opening(p) /\ at' = [at EXCEPT ![p] = b] /\ lib' = lib
        /\ writer' = IF writer = p THEN NoProcess ELSE writer
    BY <1>6 DEF Crash, RollBack, AloneInv
  <2>3. writer' = NoProcess /\ \A q \in Processes \ {p} : ~Opening(q)
    BY <2>1, SoleHolder
  <2>4. /\ b.line = 1 /\ b.script = 0 /\ b.stage \notin Busy
    BY DEF Place, Busy
  <2> HIDE DEF b
  <2>6. QED
    BY <1>0, <2>1, <2>3, <2>4, MoveAlone, Zenon
<1>7. QED
  BY <1>1, <1>2, <1>3, <1>4, <1>5, <1>6 DEF Next

-----------------------------------------------------------------------------
(* How opening the library ends.                                           *)

\* A library of the last version, as it is opened.
LastColumns(L) ==
    /\ L.version = SchemaVersion
    /\ \A t \in DOMAIN Since : /\ t \in DOMAIN L.tables
                               /\ L.tables[t].cols \ Indexes = ColsOf(SchemaVersion, t) \ Indexes

LEMMA LastIsCurrent ==
  ASSUME NEW L, Sane(L), L.version = SchemaVersion
  PROVE  LastColumns(L)
<1> SUFFICES ASSUME NEW t \in DOMAIN Since
             PROVE  t \in DOMAIN L.tables /\ L.tables[t].cols \ Indexes = ColsOf(SchemaVersion, t) \ Indexes
  BY DEF LastColumns
<1>1. ColsOf(SchemaVersion, t) = Final(t) /\ t \in TablesOf(L.version)
  BY LastVersion
<1>2. ~Missing(L, t)
  BY LastVersion DEF Missing, SchemaVersion
<1>3. Has(L, t, ColsOf(SchemaVersion, t) \ Indexes)
  BY <1>1, <1>2 DEF Sane, Reached
<1>4. NameOf(t) = t
  BY NamesOf
<1>5. L.tables[t].cols \subseteq Final(t)
  BY <1>3, <1>4 DEF Sane, Plausible, PlausibleTable, Has
<1>6. QED
  BY <1>1, <1>3, <1>5 DEF Has

LEMMA CurrentIsFurnished ==
  ASSUME NEW L, LastColumns(L)
  PROVE  Furnished(L)
<1> SUFFICES ASSUME NEW t \in DOMAIN Since PROVE Final(t) \ Indexes \subseteq TableOf(L, t).cols
  BY DEF Furnished
<1>1. ColsOf(SchemaVersion, t) = Final(t)
  BY LastVersion
<1>2. QED
  BY <1>1 DEF LastColumns, TableOf

LEMMA ScriptEnds ==
  \A a : /\ a.stage = "ensure" /\ a.kind # "command" => AfterScript(a).stage = "read"
         /\ a.stage # "ensure" /\ a.script \notin {0, SchemaVersion - 1} => AfterScript(a).stage = "initialize"
<1> TAKE a
<1>1. ASSUME a.stage = "ensure", a.kind # "command" PROVE AfterScript(a).stage = "read"
  <2>1. AfterScript(a) = Place(a.kind, "read", 0)
    BY ONLY <1>1 DEF AfterScript
  <2>2. QED
    BY <2>1 DEF Place
<1>2. a.stage # "ensure" /\ a.script \notin {0, SchemaVersion - 1} => AfterScript(a).stage = "initialize"
  BY DEF AfterScript, Place
<1>3. QED
  BY <1>1, <1>2

\* The only steps that end it.
LEMMA StepsEnd ==
  ASSUME TypesInv, [Next]_vars, NEW p \in Processes, NEW st \in {"open", "failed"}, Ends(p, st)
  PROVE  \/ st = "open" /\ (ReadVersion(p) \/ Execute(p))
         \/ st = "failed" /\ Raise(p)
<1>0. Opening(p) /\ at'[p].stage = st /\ st \notin Busy
  BY DEF Ends, Busy
<1>1. at'[p] # at[p]
  BY <1>0 DEF Opening
<1>2. PICK q \in Processes : \/ \E kind \in Kinds : Open(q, kind)
                             \/ ReadVersion(q) \/ Execute(q) \/ Raise(q) \/ Crash(q)
  BY <1>1 DEF Next, vars
<1>3. at = [r \in Processes |-> at[r]]
  BY DEF TypesInv, PlacesInv
<1>4. q = p
  <2> SUFFICES ASSUME q # p PROVE at'[p] = at[p]
    BY <1>1
  <2>1. \A b : at' = [at EXCEPT ![q] = b] => at'[p] = at[p]
    BY <1>3
  <2>2. QED
    BY <1>2, <2>1, Zenon DEF Open, ReadVersion, Execute, Raise, Crash
<1>5. \A b : at' = [at EXCEPT ![p] = b] => at'[p] = b
  BY <1>3
<1>6. ASSUME NEW kind \in Kinds, Open(p, kind) PROVE FALSE
  BY <1>0, <1>6, Zenon DEF Open
<1>7. ASSUME Crash(p) PROVE FALSE
  <2>1. at' = [at EXCEPT ![p] = Place(at[p].kind, "closed", 0)]
    BY <1>7 DEF Crash
  <2>2. at'[p].stage = "closed"
    BY <1>5, <2>1 DEF Place
  <2>3. QED
    BY <1>0, <2>2
<1>8. ASSUME ReadVersion(p) PROVE st = "open"
  <2>1. at' = [at EXCEPT ![p] = AfterVersion(at[p], lib.version)]
    BY <1>8 DEF ReadVersion
  <2>2. at'[p] = AfterVersion(at[p], lib.version)
    BY <1>5, <2>1
  <2>3. AfterVersion(at[p], lib.version).stage \in {"open", "initialize"}
    BY DEF AfterVersion, Place
  <2>4. QED
    BY <1>0, <2>2, <2>3
<1>9. ASSUME Execute(p) PROVE st = "open"
  <2> DEFINE a == at[p]
             s == Scripts[a.script][a.line]
             V == View(p)
             seen == IF s.op = "look" THEN Seen(V, s.table) ELSE a.seen
  <2>1. at'[p] = AfterScript(a) \/ Further(a, at'[p], seen)
    BY <1>9, Executed
  <2>2. ~Further(a, at'[p], seen)
    BY <1>0 DEF Further, Opening, Busy
  <2>3. AfterScript(a).stage \in {"open", "read", "initialize"}
    BY DEF AfterScript, Place
  <2>4. QED
    BY <1>0, <2>1, <2>2, <2>3
<1>10. ASSUME Raise(p) PROVE st = "failed"
  <2>1. at' = [at EXCEPT ![p] = Place(at[p].kind, IF at[p].stage = "ensure" /\ at[p].kind = "upgrade" THEN "read"
                                                  ELSE "failed", 0)]
    BY <1>10 DEF Raise
  <2>2. at'[p].stage \in {"read", "failed"}
    BY <1>5, <2>1 DEF Place
  <2>3. QED
    BY <1>0, <2>2 DEF Busy
<1>11. QED
  BY <1>2, <1>4, <1>6, <1>7, <1>8, <1>9, <1>10

\* An upgrade fails only where an earlier process was cut.
LEMMA FailsAtLeftover ==
  ASSUME TypesInv, VersionsInv, CalmInv, Alone, ~overlap, NEW p \in Processes, Raise(p),
         at[p].kind # "command", at'[p].stage = "failed"
  PROVE  MeetsLeftover
<1> DEFINE a == at[p]
           s == Scripts[a.script][a.line]
           V == View(p)
<1>1. /\ a.stage \in {"ensure", "initialize"} /\ Fails(s, V) /\ Opening(p) /\ Due(a)
  BY DEF Raise, Opening, Busy, VersionsInv
<1>2. Underway(p)
  BY <1>1 DEF Alone
<1>3. /\ writer \in {p, NoProcess} /\ V = Content
      /\ writer = p => Holding(a) /\ draft.version = lib.version
      /\ writer = NoProcess => V = lib
      /\ V.version = lib.version
  BY <1>1, SoleHolder
<1>4. a.stage = "initialize"
  <2> SUFFICES ASSUME a.stage = "ensure" PROVE FALSE
    BY <1>1
  <2>1. a.kind = "upgrade"
    BY <1>2, Zenon DEF Underway, Kinds, TypesInv, PlacesInv, StartedPlace
  <2>2. at' = [at EXCEPT ![p] = Place(at[p].kind, "read", 0)]
    BY <2>1 DEF Raise
  <2>3. at'[p].stage = "read"
    BY <2>2 DEF Place, TypesInv, PlacesInv
  <2>4. QED
    BY <2>3
<1>5. a.script \in 0 .. SchemaVersion - 1 /\ a.line \in 1 .. Len(Scripts[a.script])
  BY DEF TypesInv, PlacesInv, StartedPlace
<1>6. IsLibrary(V) /\ OnItsWay(a, V)
  BY <1>2, <1>3, ViewIsLibrary, Zenon DEF Underway
<1>. HIDE DEF a, V
<1>7. a.script \in Rebuilds
  BY <1>1, <1>4, <1>5, <1>6, WayFails DEF s
<1>8. Turning(a, V)
  BY <1>6, <1>7 DEF OnItsWay
<1>9. /\ a.script # 25 /\ a.line \in 2 .. CopyLine(a.script) + 2
      /\ New[Subject(a.script)] \in DOMAIN V.tables
      /\ Inside(a) \/ (a.script = 24 /\ a.line = 2)
  <2>1. s = Scripts[a.script][a.line]
    BY DEF s
  <2>2. QED
    BY ONLY <1>1, <1>5, <1>6, <1>7, <1>8, <2>1, RebuildFails
<1>10. lib.version = a.script /\ a.script \in {6, 15, 19, 24}
  BY <1>3, <1>7, <1>8, <1>9 DEF Turning, Rebuilds
<1>11. Leftovers # {}
  <2>1. Subject(a.script) \in Rebuilt
    BY <1>7, RebuildFacts
  <2>2. CASE writer = NoProcess
    BY <1>3, <1>9, <2>1, <2>2 DEF Leftovers
  <2>3. CASE writer = p
    <3>1. Holding(a) /\ a.line # 10
      <4>1. CopyLine(a.script) \in {3, 4}
        BY <1>7, RebuildFacts
      <4>2. QED
        BY <1>3, <1>9, <2>3, <4>1
    <3>2. a.script = 24 /\ InTransaction(a)
      BY <1>10, <3>1 DEF Holding, InTransaction
    <3>3. "processing_stats_new" \in DOMAIN lib.tables
      BY <1>2, <3>2, Zenon DEF Underway, a
    <3>4. QED
      BY <3>3, Names DEF Leftovers
  <2>4. QED
    BY <1>3, <2>2, <2>3
<1>12. crashes # 0
  <2> SUFFICES ASSUME crashes = 0 PROVE FALSE
    OBVIOUS
  <2>1. Fit(origin, a, V)
    BY <1>1, <1>3 DEF CalmInv, Settled, a
  <2>2. Migrating(origin, a, V) /\ a.script \in 1 .. SchemaVersion - 1
    BY <1>7, <2>1, RebuildFacts DEF Fit
  <2>3. CASE Inside(a)
    <3>1. s = Scripts[a.script][a.line]
      BY DEF s
    <3>2. ~Fails(s, V)
      BY ONLY <1>5, <1>6, <2>2, <2>3, <3>1, RebuildHolds
    <3>3. QED
      BY <1>1, <3>2 DEF a, V
  <2>4. CASE ~Inside(a)
    <3>1. Subject(a.script) \in Rebuilt
      BY <1>7, RebuildFacts
    <3>2. InPlace(V, Subject(a.script), FirstIds(origin, Subject(a.script)))
      BY <2>2, <2>4, <3>1 DEF Migrating, Where
    <3>3. QED
      BY <1>9, <3>2 DEF InPlace
  <2>5. QED
    BY <2>3, <2>4
<1>13. crashes > 0
  BY <1>12 DEF TypesInv, CountsInv
<1>14. QED
  BY <1>10, <1>11, <1>13 DEF MeetsLeftover

\* A command opens a library with its tables, an upgrade one of the last version.
LEMMA OpensWithColumns ==
  ASSUME TypesInv, VersionsInv, Alone, NEW p \in Processes, Ends(p, "open"), ReadVersion(p) \/ Execute(p)
  PROVE  /\ at[p].kind = "command" => Furnished(lib')
         /\ at[p].kind # "command" => LastColumns(lib')
<1>0. Opening(p) /\ Due(at[p]) /\ Underway(p) /\ at'[p].stage = "open"
  BY DEF Ends, VersionsInv, Alone
<1>1. CASE ReadVersion(p)
  <2>1. lib' = lib /\ at'[p] = AfterVersion(at[p], lib.version)
    BY <1>1 DEF ReadVersion, TypesInv, PlacesInv
  <2>2. lib.version >= SchemaVersion
    BY <1>0, <2>1 DEF AfterVersion, Place
  <2>3. lib.version = SchemaVersion
    BY <2>2 DEF TypesInv, LibrariesInv, IsLibrary, SchemaVersion
  <2>4. LastColumns(lib)
    BY <2>3, LastIsCurrent DEF Alone
  <2>5. QED
    BY <2>1, <2>4, CurrentIsFurnished
<1>2. CASE Execute(p)
  <2> DEFINE a == at[p]
             s == Scripts[a.script][a.line]
             V == View(p)
             new == After(s, V)
             seen == IF s.op = "look" THEN Seen(V, s.table) ELSE a.seen
  <2>1. /\ a.stage \in {"ensure", "initialize"} /\ IsLibrary(V) /\ a.script \in 0 .. SchemaVersion - 1
        /\ \/ at'[p] = AfterScript(a) /\ a.line = Len(Scripts[a.script])
           \/ Further(a, at'[p], seen)
    BY <1>2, Executed
  <2>2. ~Further(a, at'[p], seen)
    BY <1>0, <2>1, Zenon DEF Further
  <2>3. at'[p] = AfterScript(a) /\ a.line = Len(Scripts[a.script])
    BY <2>1, <2>2
  <2>4. OnItsWay(a, V)
    BY <1>0, SoleHolder, Zenon DEF Underway
  <2>5. /\ Sane(new) /\ s.op \in {"version", "stamp"}
        /\ a.script # 0 => new.version = a.script + 1
        /\ a.script = 0 => Furnished(new) /\ (a.stage = "initialize" => new.version = SchemaVersion)
    BY <2>1, <2>3, <2>4, WayEnds
  <2>6. lib' = new
    <3>1. s = Scripts[at[p].script][at[p].line] /\ new = After(s, View(p)) /\ s.op \in {"version", "stamp"}
      BY <2>5
    <3>. HIDE DEF a, s, V, new
    <3>2. Leaves(p, s, new)
      BY <1>2, <3>1, FileAfter
    <3>3. QED
      BY <3>1, <3>2 DEF Leaves, StaysOpen
  <2>7. \/ a.stage = "ensure" /\ a.kind = "command"
        \/ a.stage = "initialize" /\ a.script \in {0, SchemaVersion - 1}
    <3>1. AfterScript(a).stage = "open" /\ a.stage \in {"ensure", "initialize"}
      BY <1>0, <2>1, <2>3
    <3>. HIDE DEF a
    <3>4. QED
      BY ONLY <3>1, ScriptEnds
  <2>8. CASE a.stage = "ensure" /\ a.kind = "command"
    BY <1>0, <2>5, <2>6, <2>8 DEF Underway
  <2>9. CASE a.stage = "initialize" /\ a.script \in {0, SchemaVersion - 1}
    <3>1. new.version = SchemaVersion
      BY <2>5, <2>9 DEF SchemaVersion
    <3>2. QED
      BY <2>5, <2>6, <3>1, LastIsCurrent, CurrentIsFurnished
  <2>10. QED
    BY <2>7, <2>8, <2>9
<1>3. QED
  BY <1>1, <1>2

-----------------------------------------------------------------------------
(* The indexes, when no process has died.                                  *)

\* Nothing of table t is ahead of version v, but for the snapshots, which
\* create_schema() makes before migration 25 does.
NotAhead(L, t, v) ==
    /\ t \in TablesOf(v) \/ t = "library_snapshots"
    /\ L.tables[t].cols \ Indexes \subseteq ColsOf(v, t)

\* A library that has all of its version, its indexes too, and no more.
Tidy(L) ==
    L.version # 0 =>
      /\ \A t \in DOMAIN L.tables \cap DOMAIN Since : NotAhead(L, t, L.version)
      /\ \A t \in TablesOf(L.version) : Has(L, t, ColsOf(L.version, t))

IndexDone(s, L) == s.op = "index" => Has(L, s.table, {s.arg})
IndexesTo(a, L) == \A j \in 1 .. a.line - 1 : IndexDone(Scripts[a.script][j], L)

LEMMA LaterVersions ==
  ASSUME NEW v \in Nat, NEW w \in Nat, v <= w
  PROVE  TablesOf(v) \subseteq TablesOf(w) /\ \A t \in DOMAIN Since : ColsOf(v, t) \subseteq ColsOf(w, t)
<1>1. \A t \in DOMAIN Since : \A c \in DOMAIN Since[t] : Since[t][c] \in Nat
  BY Ages
<1>2. \A t \in DOMAIN Since : Since[t].table \in Nat
  <2>1. \A t \in DOMAIN Since : "table" \in DOMAIN Since[t]
    BY DEF Since
  <2>2. QED
    BY <1>1, <2>1
<1>3. TablesOf(v) \subseteq TablesOf(w)
  BY <1>2 DEF TablesOf
<1>4. \A t \in DOMAIN Since : ColsOf(v, t) \subseteq ColsOf(w, t)
  BY <1>1 DEF ColsOf
<1>5. QED
  BY <1>3, <1>4

\* create_schema() makes the index of every table.
MadeIndex(t, c) == \E i \in 1 .. 34 : Scripts[0][i].op = "index" /\ Scripts[0][i].table = t /\ Scripts[0][i].arg = c

LEMMA SchemaIndexes ==
  \A t \in DOMAIN Since : \A c \in Final(t) \cap Indexes : MadeIndex(t, c)
<1> DEFINE s == Scripts[0]
<1>1. s = CreateSchema
  BY DEF Scripts, SchemaVersion
<1>2. /\ s[2] = Index("files", "ix_job_id", {"job_id"})
      /\ s[3] = Index("files", "ix_status_scanned", {})
      /\ s[6] = Index("operations", "ix", {})
      /\ s[9] = Index("plugin_acknowledgments", "ix", {})
      /\ s[11] = Index("jobs", "ix", {})
      /\ s[12] = Index("jobs", "ix_job_type", {})
      /\ s[13] = Index("jobs", "ix_origin", {"origin"})
      /\ s[14] = Index("jobs", "ix_batch_id", {"batch_id"})
      /\ s[16] = Index("transcription_results", "ix", {})
      /\ s[18] = Index("plans", "ix", {})
      /\ s[20] = Index("language_analysis_results", "ix", {})
      /\ s[22] = Index("language_segments", "ix", {})
      /\ s[24] = Index("processing_stats", "ix", {})
      /\ s[25] = Index("processing_stats", "ix_job", {"job_id"})
      /\ s[26] = Index("processing_stats", "ix_file_time", {})
      /\ s[28] = Index("action_results", "ix", {})
      /\ s[30] = Index("performance_metrics", "ix", {})
      /\ s[32] = Index("track_classification_results", "ix", {})
      /\ s[34] = Index("library_snapshots", "ix", {})
  BY <1>1, CreateSchemaLines
<1>. HIDE DEF s
<1>3. \A t, c, cols : \A i \in 1 .. 34 : s[i] = Index(t, c, cols) => MadeIndex(t, c)
  <2> SUFFICES ASSUME NEW t, NEW c, NEW cols, NEW i \in 1 .. 34, s[i] = Index(t, c, cols) PROVE MadeIndex(t, c)
    OBVIOUS
  <2>1. s[i].op = "index" /\ s[i].table = t /\ s[i].arg = c
    BY Constructors
  <2>2. QED
    BY <2>1 DEF MadeIndex, s
<1>4. /\ MadeIndex("files", "ix_job_id") /\ MadeIndex("files", "ix_status_scanned")
      /\ MadeIndex("operations", "ix") /\ MadeIndex("plugin_acknowledgments", "ix")
      /\ MadeIndex("jobs", "ix") /\ MadeIndex("jobs", "ix_job_type")
      /\ MadeIndex("jobs", "ix_origin") /\ MadeIndex("jobs", "ix_batch_id")
      /\ MadeIndex("transcription_results", "ix") /\ MadeIndex("plans", "ix")
      /\ MadeIndex("language_analysis_results", "ix") /\ MadeIndex("language_segments", "ix")
      /\ MadeIndex("processing_stats", "ix") /\ MadeIndex("processing_stats", "ix_job")
      /\ MadeIndex("processing_stats", "ix_file_time")
      /\ MadeIndex("action_results", "ix") /\ MadeIndex("performance_metrics", "ix")
      /\ MadeIndex("track_classification_results", "ix") /\ MadeIndex("library_snapshots", "ix")
  BY <1>2, <1>3
<1>5. QED
  BY <1>4 DEF Final, Indexes, Since

\* What create_schema() makes before it has looked at the jobs is older than
\* the version it has come to by then; after them it is the snapshots.
LEMMA SchemaTables ==
  /\ \A i \in 1 .. 13 : Scripts[0][i].op = "create" => Scripts[0][i].table \in TablesOf(9)
  /\ \A i \in 2 .. 3 : Scripts[0][i].op # "create"
  /\ Scripts[0][1].table \in TablesOf(1)
  /\ DOMAIN Since = TablesOf(23) \cup {"library_snapshots"}
  /\ Final("library_snapshots") \ Indexes = {}
<1> DEFINE s == Scripts[0]
<1>1. s = CreateSchema
  BY DEF Scripts, SchemaVersion
<1>2. \A i \in 1 .. 13 : s[i].op = "create" => s[i].table \in {"files", "tracks", "operations", "policies",
                                                             "plugin_acknowledgments", "jobs"}
  BY <1>1, CreateSchemaLines, Constructors
<1>3. {"files", "tracks", "operations", "policies", "plugin_acknowledgments", "jobs"} \subseteq TablesOf(9)
  BY DEF TablesOf, Since
<1>4. (\A i \in 2 .. 3 : s[i].op # "create") /\ s[1].table = "files"
  BY <1>1, CreateSchemaLines, Constructors
<1>5. "files" \in TablesOf(1)
  BY DEF TablesOf, Since
<1>6. DOMAIN Since = TablesOf(23) \cup {"library_snapshots"}
  BY DEF TablesOf, Since
<1>7. Final("library_snapshots") \ Indexes = {}
  BY Snapshots
<1>8. QED
  BY <1>2, <1>3, <1>4, <1>5, <1>6, <1>7

\* In a library that has a version it makes no more than the snapshots.
LEMMA SchemaMakes ==
  ASSUME NEW a, a.script = 0, a.line \in 1 .. 34, NEW s, s = Scripts[0][a.line], s.op = "create",
         NEW L, L.version \in 1 .. SchemaVersion, DoneTo(a, L), Tidy(L), s.table \notin DOMAIN L.tables
  PROVE  s.table = "library_snapshots"
<1> DEFINE v == L.version
<1>0. v \in Nat /\ v # 0 /\ v >= 1
  BY DEF SchemaVersion
<1>1. FreshLine(s)
  <2>1. \A i \in 1 .. 35 : FreshLine(Scripts[0][i])
    BY ONLY SchemaLine
  <2>2. a.line \in 1 .. 35
    OBVIOUS
  <2>3. QED
    BY <2>1, <2>2
<1>2. s.table \notin TablesOf(v) /\ s.table \in DOMAIN Since
  BY <1>0, <1>1 DEF Tidy, Has, FreshLine
<1>3. a.line > 2 => v >= 9
  <2> SUFFICES ASSUME a.line > 2 PROVE v >= 9
    OBVIOUS
  <2>1. Done(0, Scripts[0][2], L)
    BY DEF DoneTo
  <2>2. Asks(Scripts[0][2], "files", "job_id")
    BY SchemaScript, Zenon DEF Fresh
  <2>3. Has(L, "files", {"job_id"})
    BY <2>1, <2>2 DEF Done, Asks
  <2>4. "files" \in DOMAIN Since /\ "job_id" \notin Indexes
    BY DEF Since, Indexes
  <2>5. "job_id" \in ColsOf(v, "files")
    BY <1>0, <2>3, <2>4 DEF Tidy, NotAhead, Has
  <2>6. QED
    BY <2>5 DEF ColsOf, Since
<1>4. a.line > 13 => v >= 23
  <2> SUFFICES ASSUME a.line > 13 PROVE v >= 23
    OBVIOUS
  <2>1. Done(0, Scripts[0][13], L)
    BY DEF DoneTo
  <2>2. Asks(Scripts[0][13], "jobs", "origin")
    BY SchemaScript, Zenon DEF Fresh
  <2>3. Has(L, "jobs", {"origin"})
    BY <2>1, <2>2 DEF Done, Asks
  <2>4. "jobs" \in DOMAIN Since /\ "origin" \notin Indexes
    BY DEF Since, Indexes
  <2>5. "origin" \in ColsOf(v, "jobs")
    BY <1>0, <2>3, <2>4 DEF Tidy, NotAhead, Has
  <2>6. QED
    BY <2>5 DEF ColsOf, Since
<1>5. CASE a.line = 1
  <2>1. TablesOf(1) \subseteq TablesOf(v)
    BY <1>0, LaterVersions
  <2>2. QED
    BY <1>2, <1>5, <2>1, SchemaTables
<1>6. CASE a.line \in 2 .. 13
  <2>1. a.line > 2
    BY <1>6, SchemaTables
  <2>2. TablesOf(9) \subseteq TablesOf(v)
    BY <1>0, <1>3, <2>1, LaterVersions
  <2>3. s.table \in TablesOf(9)
    BY <1>6, SchemaTables
  <2>4. QED
    BY <1>2, <2>2, <2>3
<1>7. CASE a.line > 13
  <2>1. TablesOf(23) \subseteq TablesOf(v)
    BY <1>0, <1>4, <1>7, LaterVersions
  <2>2. QED
    BY <1>2, <2>1, SchemaTables
<1>8. QED
  BY <1>5, <1>6, <1>7

\* A statement of create_schema() in a library that has a version, and in one
\* that has none.
LEMMA SchemaTidy ==
  ASSUME NEW a, a.script = 0, a.line \in 1 .. 34, NEW s, s = Scripts[0][a.line],
         NEW L, IsLibrary(L), ~Fails(s, L), NEW M, M = After(s, L), DoneTo(a, L), Tidy(L)
  PROVE  Tidy(M) /\ Grown(s, L, M)
<1>0. FreshLine(s) /\ Tame(s) /\ Sound(s) /\ s.op \in {"create", "index"}
  <2>1. \A i \in 1 .. 35 : FreshLine(Scripts[0][i]) /\ (i # 35 => Tame(Scripts[0][i])) /\ Sound(Scripts[0][i])
    BY ONLY SchemaLine
  <2>2. a.line \in 1 .. 35 /\ a.line # 35
    OBVIOUS
  <2>3. FreshLine(s) /\ Tame(s) /\ Sound(s)
    BY <2>1, <2>2
  <2>4. QED
    BY <2>3 DEF FreshLine, Tame
<1>1. Grown(s, L, M)
  BY <1>0, StatementGrows
<1>2. M.version = L.version
  BY <1>1 DEF Grown
<1>3. ASSUME L.version # 0 PROVE Tidy(M)
  <2> DEFINE v == L.version
  <2>1. \A t \in TablesOf(v) : Has(L, t, ColsOf(v, t))
    BY <1>3 DEF Tidy
  <2>2. \A t, cols : Has(L, t, cols) => Has(M, t, cols)
    BY <1>1, GrownHas
  <2>3. ASSUME NEW t \in DOMAIN M.tables \cap DOMAIN Since PROVE NotAhead(M, t, v)
    <3>1. CASE t \in DOMAIN L.tables
      <4>1. NotAhead(L, t, v)
        BY <1>3, <2>3, <3>1 DEF Tidy
      <4>2. M.tables[t].cols = L.tables[t].cols \cup (IF t = s.table THEN Extra(s) ELSE {})
        BY <1>1, <3>1 DEF Grown
      <4>3. Extra(s) \subseteq Indexes
        BY <1>0 DEF Extra, FreshLine
      <4>4. M.tables[t].cols \ Indexes \subseteq L.tables[t].cols \ Indexes
        BY <4>2, <4>3
      <4>5. QED
        BY <4>1, <4>4 DEF NotAhead
    <3>2. CASE t \notin DOMAIN L.tables
      <4>1. s.op = "create" /\ t = s.table /\ M.tables[t].cols = s.cols
        BY <1>0, <1>1, <2>3, <3>2 DEF Grown
      <4>2. L.version \in 1 .. SchemaVersion
        BY <1>3 DEF IsLibrary, SchemaVersion
      <4>3. t = "library_snapshots"
        BY <3>2, <4>1, <4>2, SchemaMakes
      <4>4. s.cols = {}
        BY <1>0, <4>1, <4>3, SchemaTables DEF FreshLine
      <4>5. QED
        BY <4>1, <4>3, <4>4 DEF NotAhead
    <3>3. QED
      BY <3>1, <3>2
  <2>4. QED
    BY <1>2, <2>1, <2>2, <2>3 DEF Tidy
<1>4. L.version = 0 => Tidy(M)
  BY <1>2 DEF Tidy
<1>5. QED
  BY <1>1, <1>3, <1>4

\* The indexes made so far stay.
LEMMA IndexStays ==
  ASSUME NEW L, NEW s, NEW M, Grown(s, L, M)
  PROVE  IndexDone(s, M) /\ \A r : IndexDone(r, L) => IndexDone(r, M)
<1>1. /\ \A t, cols : Has(L, t, cols) => Has(M, t, cols)
      /\ s.op = "index" => Has(M, s.table, {s.arg})
  BY GrownHas
<1>2. QED
  BY ONLY <1>1 DEF IndexDone

\* A new library is complete when create_schema() has come to its end.
LEMMA NewIsTidy ==
  ASSUME NEW a, a.script = 0, a.line = 35, NEW L, IsLibrary(L), Sane(L), L.version = 0, DoneTo(a, L),
         IndexesTo(a, L), NEW M, M.tables = L.tables, M.version = SchemaVersion
  PROVE  Tidy(M)
<1>1. DOMAIN Since \subseteq DOMAIN L.tables
  BY AllTablesMade
<1>2. /\ \A t \in DOMAIN Since : ColsOf(SchemaVersion, t) = Final(t)
      /\ TablesOf(SchemaVersion) = DOMAIN Since
  BY LastVersion
<1>3. ASSUME NEW t \in DOMAIN Since
      PROVE  Final(t) \ Indexes \subseteq L.tables[t].cols /\ L.tables[t].cols \subseteq Final(t)
  <2>1. NameOf(t) = t
    BY NamesOf
  <2>2. QED
    BY <1>1, <2>1 DEF Sane, Plausible, PlausibleTable
<1>4. ASSUME NEW t \in DOMAIN Since, NEW c \in Final(t) \cap Indexes PROVE c \in L.tables[t].cols
  <2>1. PICK i \in 1 .. 34 : Scripts[0][i].op = "index" /\ Scripts[0][i].table = t /\ Scripts[0][i].arg = c
    BY SchemaIndexes DEF MadeIndex
  <2>2. IndexDone(Scripts[0][i], L)
    BY DEF IndexesTo
  <2>3. QED
    BY <2>1, <2>2 DEF IndexDone, Has
<1>5. QED
  BY <1>1, <1>2, <1>3, <1>4 DEF Tidy, NotAhead, Has

\* What the statements before a place have made or widened, nothing that it
\* still has to make was seen at the last look, and what a migration that
\* rebuilds nothing has made of a tidy library by then.
Newer(a, t) ==
    \E j \in 1 .. a.line - 1 :
      Scripts[a.script][j].op \in {"create", "add"} /\ Scripts[a.script][j].table = t
Unseen(n, k, seen) ==
    \A i \in k .. Len(Scripts[n]) :
      (\A j \in k .. i - 1 : Scripts[n][j].op # "look") => Scripts[n][i].unless \notin seen
InReach(a, L) ==
    \A t \in DOMAIN L.tables \cap DOMAIN Since :
      NotAhead(L, t, IF Newer(a, t) THEN a.script + 1 ELSE a.script)
Filled(a, L) ==
    \A t \in TablesOf(a.script) :
      Has(L, t, ColsOf(a.script, t)) \/ (a.script = 2 /\ a.line = 2 /\ t = "operations")
Neat(a, L) ==
    InReach(a, L) /\ Filled(a, L) /\ IndexesTo(a, L) /\ Unseen(a.script, a.line, a.seen)

\* A look finds nothing that its migration is about to make.
LEMMA LookSees ==
  ASSUME NEW a, a.script \in Gentle, a.line \in 1 .. Len(Scripts[a.script]),
         NEW s, s = Scripts[a.script][a.line], s.op = "look", NEW L, InReach(a, L), "never" \notin Seen(L, s.table)
  PROVE  Unseen(a.script, a.line + 1, Seen(L, s.table))
<1> DEFINE n == a.script
           S == Scripts[a.script]
<1>0. DOMAIN S = 1 .. Len(S) /\ Len(S) \in Nat /\ n \in Nat /\ n # 25
  BY GentleFacts, Lines DEF Gentle
<1> SUFFICES ASSUME NEW i \in a.line + 1 .. Len(S), \A j \in a.line + 1 .. i - 1 : S[j].op # "look",
                    S[i].unless # "never"
             PROVE  S[i].unless \notin Seen(L, s.table)
  BY DEF Unseen
<1>1. i \in DOMAIN S /\ a.line \in DOMAIN S /\ a.line < i /\ i \in Nat /\ a.line \in Nat
  BY <1>0
<1>2. GentleShape(n, S)
  BY GentleScripts
<1>3. S[i].table = s.table
  <2>1. \A k \in DOMAIN S : a.line < k /\ k < i => S[k].op # "look"
    BY <1>0, <1>1
  <2>2. Ordered(S)
    BY <1>2 DEF GentleShape
  <2>3. S[a.line].op = "look" /\ S[i].unless # "never" /\ S[a.line].table # S[i].table
          => \E k \in DOMAIN S : a.line < k /\ k < i /\ S[k].op = "look"
    BY <1>1, <2>2 DEF Ordered
  <2>4. QED
    BY <2>1, <2>3
<1> DEFINE t == s.table
<1>4. t \in DOMAIN L.tables /\ t \in DOMAIN Since
        => (t \in TablesOf(n) \/ t = "library_snapshots") /\ L.tables[t].cols \ Indexes \subseteq ColsOf(n, t)
  <2> SUFFICES ASSUME t \in DOMAIN L.tables, t \in DOMAIN Since
               PROVE  (t \in TablesOf(n) \/ t = "library_snapshots") /\ L.tables[t].cols \ Indexes \subseteq ColsOf(n, t)
    BY Zenon
  <2>1. \A j \in DOMAIN S : j < a.line /\ S[j].op \in {"create", "add"} => S[j].table # t
    <3>1. Newly(n, S)
      BY <1>2 DEF GentleShape
    <3>2. QED
      BY <1>1, <3>1 DEF Newly
  <2>2. ~Newer(a, t)
    <3>1. \A j \in 1 .. a.line - 1 : j \in DOMAIN S /\ j < a.line
      BY <1>0
    <3>2. QED
      BY <2>1, <3>1 DEF Newer
  <2>3. NotAhead(L, t, n)
    BY <2>2 DEF InReach
  <2>4. QED
    BY <2>3, Zenon DEF NotAhead
<1>5. Plain(n, S[i]) /\ Proper(n, S[i])
  BY <1>1, <1>2 DEF GentleShape, Plain
<1>6. CASE S[i].op \in {"create", "index"} /\ S[i].unless = "table"
  <2>1. Since[t].table = n + 1
    BY <1>1, <1>2, <1>3, <1>6 DEF GentleShape, Newly
  <2>2. t \in DOMAIN Since
    BY <1>3, <1>5, <1>6 DEF Proper
  <2>3. t \notin TablesOf(n)
    BY <1>0, <2>1 DEF TablesOf
  <2>4. t # "library_snapshots"
    <3>1. Since["library_snapshots"].table = 26
      BY DEF Since
    <3>2. n + 1 # 26
      BY <1>0
    <3>3. QED
      BY ONLY <2>1, <3>1, <3>2
  <2>5. QED
    BY <1>4, <2>2, <2>3, <2>4, Zenon DEF Seen
<1>7. CASE S[i].op = "add" /\ S[i].cols = {S[i].unless}
  <2> DEFINE c == S[i].unless
  <2>1. c \in DOMAIN Since[t] /\ Since[t][c] = n + 1
    BY <1>1, <1>2, <1>3, <1>7 DEF GentleShape, Newly
  <2>2. t \in DOMAIN Since /\ c \notin Indexes /\ c # "table"
    BY <1>3, <1>5, <1>7 DEF Proper, TablesOf, Final
  <2>3. c \notin ColsOf(n, t)
    <3>1. c \in ColsOf(n, t) => Since[t][c] <= n
      BY DEF ColsOf
    <3>2. ~(n + 1 <= n)
      BY <1>0
    <3>3. QED
      BY ONLY <2>1, <3>1, <3>2
  <2>4. QED
    BY <1>4, <2>2, <2>3, Zenon DEF Seen
<1>8. QED
  BY <1>5, <1>6, <1>7 DEF Plain

\* Nothing is passed over.
LEMMA GentleInTurn ==
  ASSUME NEW a, a.script \in Gentle, a.line \in 1 .. Len(Scripts[a.script]),
         NEW s, s = Scripts[a.script][a.line], NEW L, IsLibrary(L), Neat(a, L),
         NEW seen, seen = (IF s.op = "look" THEN Seen(L, s.table) ELSE a.seen),
         NEW b, Further(a, b, seen)
  PROVE  b.line = a.line + 1 /\ b.script = a.script /\ Unseen(b.script, b.line, b.seen)
<1> DEFINE n == a.script
           S == Scripts[a.script]
<1>0. DOMAIN S = 1 .. Len(S) /\ Len(S) \in Nat
  BY GentleFacts, Lines
<1>1. /\ b.script = n /\ b.seen = seen /\ b.line \in a.line + 1 .. Len(S)
      /\ \A i \in a.line + 1 .. b.line - 1 : S[i].unless \in seen
  BY DEF Further
<1>2. Unseen(n, a.line + 1, seen)
  <2>1. CASE s.op = "look"
    <3>1. "never" \notin Seen(L, s.table)
      BY SeenFacts
    <3>2. InReach(a, L)
      BY DEF Neat
    <3>3. QED
      BY <2>1, <3>1, <3>2, LookSees
  <2>2. CASE s.op # "look"
    <3>1. Unseen(n, a.line, a.seen) /\ seen = a.seen
      BY <2>2 DEF Neat
    <3>2. ASSUME NEW i \in a.line + 1 .. Len(S), \A j \in a.line + 1 .. i - 1 : S[j].op # "look"
          PROVE  S[i].unless \notin seen
      <4>1. \A j \in a.line .. i - 1 : j = a.line \/ j \in a.line + 1 .. i - 1
        OBVIOUS
      <4>2. \A j \in a.line .. i - 1 : S[j].op # "look"
        BY <2>2, <3>2, <4>1
      <4>3. i \in a.line .. Len(S)
        OBVIOUS
      <4>4. QED
        BY <3>1, <4>2, <4>3 DEF Unseen
    <3>3. QED
      BY <3>2 DEF Unseen
  <2>3. QED
    BY <2>1, <2>2
<1>3. b.line = a.line + 1
  <2>1. SUFFICES ASSUME b.line # a.line + 1 PROVE FALSE
    OBVIOUS
  <2>2. a.line + 1 \in a.line + 1 .. b.line - 1 /\ a.line + 1 \in a.line + 1 .. Len(S)
    BY <1>0, <1>1, <2>1
  <2>3. \A j \in a.line + 1 .. (a.line + 1) - 1 : FALSE
    OBVIOUS
  <2>4. S[a.line + 1].unless \notin seen
    BY <1>2, <2>2, <2>3 DEF Unseen
  <2>5. QED
    BY <1>1, <2>2, <2>4
<1>4. QED
  BY <1>1, <1>2, <1>3

\* What is newer at the next line.
LEMMA NewerNext ==
  ASSUME NEW a, a.line \in Nat, a.line >= 1, NEW b, b.script = a.script, b.line = a.line + 1,
         NEW s, s = Scripts[a.script][a.line], NEW t
  PROVE  /\ Newer(a, t) => Newer(b, t)
         /\ s.op \in {"create", "add"} /\ s.table = t => Newer(b, t)
         /\ Newer(b, t) => Newer(a, t) \/ (s.op \in {"create", "add"} /\ s.table = t)
<1>1. \A j : j \in 1 .. b.line - 1 <=> j \in 1 .. a.line - 1 \/ j = a.line
  OBVIOUS
<1>2. QED
  BY <1>1 DEF Newer

LEMMA NotAheadLater ==
  ASSUME NEW L, NEW t \in DOMAIN Since, NEW v \in Nat, NEW w \in Nat, v <= w, NotAhead(L, t, v)
  PROVE  NotAhead(L, t, w)
<1>1. TablesOf(v) \subseteq TablesOf(w) /\ ColsOf(v, t) \subseteq ColsOf(w, t)
  BY LaterVersions
<1>2. QED
  BY <1>1 DEF NotAhead

\* What a statement of such a migration makes is new in its version.
LEMMA MakesNewly ==
  ASSUME NEW a, a.script \in Gentle, a.line \in 1 .. Len(Scripts[a.script]),
         NEW s, s = Scripts[a.script][a.line]
  PROVE  /\ s.op = "add" => \A c \in s.cols : c \in DOMAIN Since[s.table] /\ Since[s.table][c] = a.script + 1
         /\ s.op = "create" => /\ s.table \in TablesOf(a.script + 1)
                               /\ s.cols \subseteq ColsOf(a.script + 1, s.table)
<1>1. GentleShape(a.script, Scripts[a.script]) /\ a.line \in DOMAIN Scripts[a.script]
  BY GentleScripts, HereIsPlain
<1>2. Newly(a.script, Scripts[a.script])
  BY <1>1 DEF GentleShape
<1>3. QED
  BY <1>1, <1>2 DEF Newly

\* A statement that takes nothing away.
LEMMA GrowsInReach ==
  ASSUME NEW a, a.script \in Gentle, a.line \in 1 .. Len(Scripts[a.script]),
         NEW s, s = Scripts[a.script][a.line], s.op \in {"look", "create", "add", "index", "begin"},
         NEW L, IsLibrary(L), NEW M, Grown(s, L, M), InReach(a, L),
         NEW b, b.script = a.script, b.line = a.line + 1
  PROVE  InReach(b, M)
<1> DEFINE n == a.script
<1>0. n \in Nat /\ n + 1 \in Nat /\ n <= n + 1 /\ a.line \in Nat /\ a.line >= 1
  BY GentleFacts
<1> SUFFICES ASSUME NEW t \in DOMAIN M.tables \cap DOMAIN Since
             PROVE  NotAhead(M, t, IF Newer(b, t) THEN n + 1 ELSE n)
  BY DEF InReach
<1>1. Plain(n, s) /\ Proper(n, s)
  BY HereIsPlain
<1>2. /\ Newer(a, t) => Newer(b, t)
      /\ s.op \in {"create", "add"} /\ s.table = t => Newer(b, t)
  <2>1. a.line \in Nat /\ a.line >= 1 /\ b.script = a.script /\ b.line = a.line + 1 /\ s = Scripts[a.script][a.line]
    BY <1>0
  <2>2. QED
    BY ONLY <2>1, NewerNext
<1>3. CASE t \in DOMAIN L.tables
  <2>1. NotAhead(L, t, IF Newer(b, t) THEN n + 1 ELSE n)
    <3>1. NotAhead(L, t, IF Newer(a, t) THEN n + 1 ELSE n)
      BY <1>3 DEF InReach
    <3>2. NotAhead(L, t, n) => NotAhead(L, t, n + 1)
      BY <1>0, NotAheadLater
    <3>3. QED
      BY <1>2, <3>1, <3>2
  <2>2. M.tables[t].cols = L.tables[t].cols \cup (IF t = s.table THEN Extra(s) ELSE {})
    BY <1>3 DEF Grown
  <2>3. CASE t = s.table /\ s.op = "add"
    <3>1. \A c \in s.cols : c \in DOMAIN Since[t] /\ Since[t][c] = n + 1
      BY <2>3, MakesNewly
    <3>2. s.cols \subseteq Final(t)
      BY <1>1, <2>3 DEF Proper
    <3>3. s.cols \subseteq ColsOf(n + 1, t)
      BY <1>0, <3>1, <3>2 DEF ColsOf, Final
    <3>4. Extra(s) = s.cols /\ Newer(b, t)
      BY <1>2, <2>3 DEF Extra
    <3>5. QED
      BY <2>1, <2>2, <3>3, <3>4 DEF NotAhead
  <2>4. CASE ~(t = s.table /\ s.op = "add")
    <3>1. M.tables[t].cols \ Indexes = L.tables[t].cols \ Indexes
      <4>1. CASE t = s.table /\ s.op = "index"
        <5>1. s.arg \in Indexes /\ Extra(s) = {s.arg}
          BY <1>1, <4>1 DEF Proper, Extra
        <5>2. QED
          BY <2>2, <5>1
      <4>2. CASE ~(t = s.table /\ s.op = "index")
        <5>1. t = s.table => Extra(s) = {}
          BY <2>4, <4>2 DEF Extra
        <5>2. QED
          BY <2>2, <5>1
      <4>3. QED
        BY <4>1, <4>2
    <3>2. QED
      BY <2>1, <3>1 DEF NotAhead
  <2>5. QED
    BY <2>3, <2>4
<1>4. CASE t \notin DOMAIN L.tables
  <2>1. s.op = "create" /\ t = s.table /\ M.tables[t].cols = s.cols
    BY <1>4 DEF Grown
  <2>2. Newer(b, t) /\ t \in TablesOf(n + 1) /\ s.cols \subseteq ColsOf(n + 1, t)
    BY <1>2, <2>1, MakesNewly
  <2>3. QED
    BY <2>1, <2>2 DEF NotAhead
<1>5. QED
  BY <1>3, <1>4

LEMMA GrowsFilled ==
  ASSUME NEW a, a.script \in Gentle, a.line \in 1 .. Len(Scripts[a.script]),
         NEW s, s = Scripts[a.script][a.line], NEW L, NEW M, Grown(s, L, M), Filled(a, L),
         NEW b, b.script = a.script
  PROVE  Filled(b, M)
<1> SUFFICES ASSUME NEW t \in TablesOf(a.script)
             PROVE  Has(M, t, ColsOf(a.script, t))
  BY DEF Filled
<1>1. \A u, cols : Has(L, u, cols) => Has(M, u, cols)
  BY GrownHas
<1>2. Has(L, t, ColsOf(a.script, t)) \/ (a.script = 2 /\ a.line = 2 /\ t = "operations")
  BY DEF Filled
<1>3. CASE a.script = 2 /\ a.line = 2 /\ t = "operations"
  <2>1. s.op = "create" /\ s.table = t
    BY <1>3, Discarding
  <2>2. t \in DOMAIN M.tables
    BY <2>1 DEF Grown
  <2>3. ColsOf(2, "operations") = {}
    BY DEF ColsOf, Since
  <2>4. QED
    BY <1>3, <2>2, <2>3 DEF Has
<1>4. QED
  BY <1>1, <1>2, <1>3

\* Where a process is after a statement of such a migration, but its last.
LEMMA NeatStep ==
  ASSUME NEW a, a.script \in Gentle, a.line \in 1 .. Len(Scripts[a.script]),
         NEW s, s = Scripts[a.script][a.line], NEW L, IsLibrary(L), ~Fails(s, L), Neat(a, L),
         NEW M, M = After(s, L),
         NEW seen, seen = (IF s.op = "look" THEN Seen(L, s.table) ELSE a.seen), NEW b, Further(a, b, seen)
  PROVE  Neat(b, M)
<1>1. b.line = a.line + 1 /\ b.script = a.script /\ Unseen(b.script, b.line, b.seen)
  BY GentleInTurn
<1>2. a.line # Len(Scripts[a.script])
  BY GentleFacts, NotLast
<1>3. Plain(a.script, s) /\ Sound(s) /\ s.op # "version"
  BY <1>2, HereIsPlain
<1>4. InReach(a, L) /\ Filled(a, L) /\ IndexesTo(a, L)
  BY DEF Neat
<1>5. \A j \in 1 .. b.line - 1 : j \in 1 .. a.line - 1 \/ j = a.line
  BY <1>1
<1>6. CASE s.op # "discard"
  <2>1. s.op \in {"look", "create", "add", "index", "begin"}
    BY <1>3, <1>6 DEF Plain
  <2>2. Grown(s, L, M)
    BY <1>3, <2>1, StatementGrows
  <2>3. InReach(b, M)
    BY <1>1, <1>4, <2>1, <2>2, GrowsInReach
  <2>4. Filled(b, M)
    BY <1>1, <1>4, <2>2, GrowsFilled
  <2>5. IndexesTo(b, M)
    <3>1. IndexDone(s, M) /\ \A r : IndexDone(r, L) => IndexDone(r, M)
      BY <2>2, IndexStays
    <3>2. QED
      BY <1>1, <1>4, <1>5, <3>1 DEF IndexesTo
  <2>6. QED
    BY <1>1, <2>3, <2>4, <2>5 DEF Neat
<1>7. CASE s.op = "discard"
  <2>1. a.script = 2
    BY <1>3, <1>7 DEF Plain
  <2>2. a.line = 1 /\ s.table = "operations"
    <3>1. a.line \in 1 .. 4
      BY <2>1, Discarding
    <3>2. QED
      BY <1>7, <2>1, <3>1, Discarding
  <2>3. /\ DOMAIN M.tables = DOMAIN L.tables \ {"operations"}
        /\ \A u \in DOMAIN M.tables : M.tables[u] = L.tables[u]
    BY <1>3, <1>7, <2>2, AfterDiscard
  <2>4. \A t : ~Newer(b, t)
    <3>1. \A j \in 1 .. b.line - 1 : j = 1
      BY <1>1, <2>2
    <3>2. Scripts[b.script][1].op = "discard"
      BY <1>1, <1>7, <2>2
    <3>3. QED
      BY <3>1, <3>2 DEF Newer
  <2>5. \A t : ~Newer(a, t)
    BY <2>2 DEF Newer
  <2>6. InReach(b, M)
    BY <1>1, <1>4, <2>3, <2>4, <2>5 DEF InReach, NotAhead
  <2>7. Filled(b, M)
    <3>1. b.line = 2
      BY <1>1, <2>2
    <3>2. QED
      BY <1>1, <1>4, <2>1, <2>2, <2>3, <3>1 DEF Filled, Has
  <2>8. IndexesTo(b, M)
    <3>1. \A j \in 1 .. b.line - 1 : j = a.line
      BY <1>1, <2>2
    <3>2. QED
      BY <1>1, <1>7, <3>1 DEF IndexesTo, IndexDone
  <2>9. QED
    BY <1>1, <2>6, <2>7, <2>8 DEF Neat
<1>8. QED
  BY <1>6, <1>7

\* Where it ends: the library has all of the next version.
LEMMA NeatEnds ==
  ASSUME NEW a, a.script \in Gentle, a.line = Len(Scripts[a.script]),
         NEW s, s = Scripts[a.script][a.line], NEW L, IsLibrary(L), Moving(a, L), Neat(a, L),
         NEW M, M = After(s, L)
  PROVE  Tidy(M)
<1> DEFINE n == a.script
           S == Scripts[a.script]
<1>1. DOMAIN S = 1 .. Len(S) /\ Len(S) \in Nat /\ Len(S) > 0
  BY GentleFacts, Lines
<1>2. n \in Nat /\ n # 0 /\ n + 1 # 0 /\ n + 1 \in Nat /\ n <= n + 1
  BY GentleFacts
<1>3. s = Closing(n) /\ s.op = "version"
  <2>1. a.line \in 1 .. Len(S)
    BY <1>1
  <2>2. s = Version(n + 1) /\ s = Closing(n)
    BY <2>1, HereIsPlain
  <2>3. QED
    BY <2>2, Constructors
<1>4. M.tables = L.tables /\ M.version = n + 1
  <2>1. n \in 0 .. SchemaVersion - 1 /\ L.version # 0
    BY <1>2, GentleFacts DEF Moving
  <2>2. QED
    BY <1>2, <1>3, <2>1, ClosingKeepsTables
<1>5. \A j \in 1 .. Len(S) : j # Len(S) => Done(n, S[j], L) /\ IndexDone(S[j], L)
  <2>1. \A j \in 1 .. Len(S) : j # Len(S) => j \in 1 .. a.line - 1
    BY <1>1
  <2>2. QED
    BY <2>1 DEF Moving, DoneTo, Neat, IndexesTo
<1>6. \A t \in DOMAIN Since : \A c \in DOMAIN Since[t] : Since[t][c] = n + 1 =>
         t \in DOMAIN L.tables /\ (c # "table" => c \in L.tables[t].cols)
  <2> SUFFICES ASSUME NEW t \in DOMAIN Since, NEW c \in DOMAIN Since[t], Since[t][c] = n + 1
               PROVE  t \in DOMAIN L.tables /\ (c # "table" => c \in L.tables[t].cols)
    OBVIOUS
  <2>1. PICK j \in DOMAIN S : Gives(S[j], t, c)
    BY GentleScripts DEF GentleShape, Complete
  <2>2. /\ S[j].table = t
        /\ \/ S[j].op \in {"create", "add"} /\ (c # "table" => c \in S[j].cols)
           \/ S[j].op = "index" /\ S[j].arg = c
    <3>1. "table" \notin Indexes
      BY DEF Indexes
    <3>2. QED
      BY <2>1, <3>1 DEF Gives
  <2>3. S[Len(S)].op = "version"
    BY <1>3
  <2>4. Done(n, S[j], L) /\ IndexDone(S[j], L)
    BY <1>1, <1>5, <2>2, <2>3
  <2>5. QED
    BY <1>2, <2>2, <2>4 DEF Done, IndexDone, Has
<1>7. \A t \in TablesOf(n) : Has(L, t, ColsOf(n, t))
  <2>1. n = 2 => a.line = 4
    BY Discarding
  <2>2. ~(n = 2 /\ a.line = 2)
    BY <2>1
  <2>3. Filled(a, L)
    BY DEF Neat
  <2>4. QED
    BY ONLY <2>2, <2>3 DEF Filled
<1>8. \A t \in TablesOf(n + 1) : Has(L, t, ColsOf(n + 1, t))
  <2> SUFFICES ASSUME NEW t \in TablesOf(n + 1) PROVE Has(L, t, ColsOf(n + 1, t))
    OBVIOUS
  <2>1. t \in DOMAIN Since /\ Since[t].table <= n + 1 /\ "table" \in DOMAIN Since[t]
    BY DEF TablesOf, Since
  <2>2. Since[t].table \in Nat
    BY <2>1, Ages
  <2>3. t \in DOMAIN L.tables
    <3>1. CASE Since[t].table = n + 1
      BY <1>6, <2>1, <3>1
    <3>2. CASE Since[t].table <= n
      <4>1. t \in TablesOf(n)
        BY <2>1, <3>2 DEF TablesOf
      <4>2. QED
        BY <1>7, <4>1 DEF Has
    <3>3. QED
      BY <1>2, <2>1, <2>2, <3>1, <3>2
  <2>4. ASSUME NEW c \in ColsOf(n + 1, t) PROVE c \in L.tables[t].cols
    <3>1. c \in DOMAIN Since[t] /\ c # "table" /\ Since[t][c] <= n + 1 /\ Since[t][c] \in Nat /\ Since[t].table <= Since[t][c]
      BY <2>1, Ages DEF ColsOf
    <3>2. CASE Since[t][c] = n + 1
      BY <1>6, <2>1, <3>1, <3>2
    <3>3. CASE Since[t][c] <= n
      <4>1. c \in ColsOf(n, t)
        BY <3>1, <3>3 DEF ColsOf
      <4>2. Since[t].table <= n
        BY <1>2, <2>2, <3>1, <3>3
      <4>3. t \in TablesOf(n)
        BY <2>1, <4>2 DEF TablesOf
      <4>4. QED
        BY <1>7, <4>1, <4>3 DEF Has
    <3>4. QED
      BY <1>2, <3>1, <3>2, <3>3
  <2>5. QED
    BY <2>3, <2>4 DEF Has
<1>9. \A t \in DOMAIN L.tables \cap DOMAIN Since : NotAhead(L, t, n + 1)
  <2> SUFFICES ASSUME NEW t \in DOMAIN L.tables \cap DOMAIN Since PROVE NotAhead(L, t, n + 1)
    OBVIOUS
  <2>1. NotAhead(L, t, IF Newer(a, t) THEN n + 1 ELSE n)
    BY DEF Neat, InReach
  <2>2. QED
    BY <1>2, <2>1, NotAheadLater
<1>10. QED
  BY <1>4, <1>8, <1>9 DEF Tidy, NotAhead, Has

\* The indexes that a rebuild makes again.
Indexed(n, S, t, c) == \E j \in CopyLine(n) + 3 .. Len(S) - 1 : S[j].op = "index" /\ S[j].table = t /\ S[j].arg = c
Reindexes(n, S) ==
    /\ \A c \in ColsOf(n + 1, Subject(n)) \cap Indexes : Indexed(n, S, Subject(n), c)
    /\ n = 25 => Indexed(n, S, "library_snapshots", "ix")

LEMMA OldIndexes ==
  /\ ColsOf(7, "jobs") \cap Indexes = {"ix"}
  /\ ColsOf(16, "transcription_results") \cap Indexes = {"ix"}
  /\ ColsOf(20, "jobs") \cap Indexes = {"ix", "ix_job_type"}
  /\ ColsOf(25, "processing_stats") \cap Indexes = {"ix", "ix_job", "ix_file_time"}
  /\ ColsOf(26, "jobs") \cap Indexes = {"ix", "ix_job_type", "ix_origin", "ix_batch_id"}
  BY DEF ColsOf, Since, Indexes

LEMMA RebuildIndexes ==
  ASSUME NEW n \in Rebuilds
  PROVE  Reindexes(n, Scripts[n])
<1>1. CASE n = 6
  <2> DEFINE s == Migrate6
  <2>1. Len(s) = 7 /\ s[6].op = "index" /\ s[6].table = "jobs" /\ s[6].arg = "ix"
    BY Migration6, TaggedConstructors
  <2>2. CopyLine(6) = 3 /\ Subject(6) = "jobs" /\ ColsOf(6 + 1, "jobs") \cap Indexes = {"ix"}
    BY OldIndexes, SubjectsOf DEF CopyLine
  <2>3. 6 \in 3 + 3 .. Len(s) - 1
    BY <2>1
  <2> HIDE DEF s
  <2>4. Reindexes(6, s)
    BY <2>1, <2>2, <2>3 DEF Reindexes, Indexed
  <2>5. Scripts[6] = s
    BY DEF Scripts, Migrations, SchemaVersion, s
  <2>6. QED
    BY <1>1, <2>4, <2>5
<1>2. CASE n = 15
  <2> DEFINE s == Migrate15
  <2>1. Len(s) = 7 /\ s[6].op = "index" /\ s[6].table = "transcription_results" /\ s[6].arg = "ix"
    BY Migration15, TaggedConstructors
  <2>2. CopyLine(15) = 3 /\ Subject(15) = "transcription_results"
        /\ ColsOf(15 + 1, "transcription_results") \cap Indexes = {"ix"}
    BY OldIndexes, SubjectsOf DEF CopyLine
  <2>3. 6 \in 3 + 3 .. Len(s) - 1
    BY <2>1
  <2> HIDE DEF s
  <2>4. Reindexes(15, s)
    BY <2>1, <2>2, <2>3 DEF Reindexes, Indexed
  <2>5. Scripts[15] = s
    BY DEF Scripts, Migrations, SchemaVersion, s
  <2>6. QED
    BY <1>2, <2>4, <2>5
<1>3. CASE n = 19
  <2> DEFINE s == Migrate19
  <2>1. /\ Len(s) = 8
        /\ s[6].op = "index" /\ s[6].table = "jobs" /\ s[6].arg = "ix"
        /\ s[7].op = "index" /\ s[7].table = "jobs" /\ s[7].arg = "ix_job_type"
    BY Migration19, TaggedConstructors
  <2>2. CopyLine(19) = 3 /\ Subject(19) = "jobs" /\ ColsOf(19 + 1, "jobs") \cap Indexes = {"ix", "ix_job_type"}
    BY OldIndexes, SubjectsOf DEF CopyLine
  <2>3. {6, 7} \subseteq 3 + 3 .. Len(s) - 1
    BY <2>1
  <2> HIDE DEF s
  <2>4. Reindexes(19, s)
    BY <2>1, <2>2, <2>3 DEF Reindexes, Indexed
  <2>5. Scripts[19] = s
    BY DEF Scripts, Migrations, SchemaVersion, s
  <2>6. QED
    BY <1>3, <2>4, <2>5
<1>4. CASE n = 24
  <2> DEFINE s == Migrate24
  <2>1. /\ Len(s) = 10
        /\ s[7].op = "index" /\ s[7].table = "processing_stats" /\ s[7].arg = "ix"
        /\ s[8].op = "index" /\ s[8].table = "processing_stats" /\ s[8].arg = "ix_job"
        /\ s[9].op = "index" /\ s[9].table = "processing_stats" /\ s[9].arg = "ix_file_time"
    BY Migration24, TaggedConstructors
  <2>2. CopyLine(24) = 4 /\ Subject(24) = "processing_stats"
        /\ ColsOf(24 + 1, "processing_stats") \cap Indexes = {"ix", "ix_job", "ix_file_time"}
    BY OldIndexes, SubjectsOf DEF CopyLine
  <2>3. {7, 8, 9} \subseteq 4 + 3 .. Len(s) - 1
    BY <2>1
  <2> HIDE DEF s
  <2>4. Reindexes(24, s)
    BY <2>1, <2>2, <2>3 DEF Reindexes, Indexed
  <2>5. Scripts[24] = s
    BY DEF Scripts, Migrations, SchemaVersion, s
  <2>6. QED
    BY <1>4, <2>4, <2>5
<1>5. CASE n = 25
  <2> DEFINE s == Migrate25
  <2>1. /\ Len(s) = 14
        /\ s[7].op = "index" /\ s[7].table = "jobs" /\ s[7].arg = "ix"
        /\ s[8].op = "index" /\ s[8].table = "jobs" /\ s[8].arg = "ix_job_type"
        /\ s[9].op = "index" /\ s[9].table = "jobs" /\ s[9].arg = "ix_origin"
        /\ s[10].op = "index" /\ s[10].table = "jobs" /\ s[10].arg = "ix_batch_id"
        /\ s[13].op = "index" /\ s[13].table = "library_snapshots" /\ s[13].arg = "ix"
    BY Migration25, TaggedConstructors, Constructors
  <2>2. CopyLine(25) = 4 /\ Subject(25) = "jobs"
        /\ ColsOf(25 + 1, "jobs") \cap Indexes = {"ix", "ix_job_type", "ix_origin", "ix_batch_id"}
    BY OldIndexes, SubjectsOf DEF CopyLine
  <2>3. {7, 8, 9, 10, 13} \subseteq 4 + 3 .. Len(s) - 1
    BY <2>1
  <2> HIDE DEF s
  <2>4. Reindexes(25, s)
    BY <2>1, <2>2, <2>3 DEF Reindexes, Indexed
  <2>5. Scripts[25] = s
    BY DEF Scripts, Migrations, SchemaVersion, s
  <2>6. QED
    BY <1>5, <2>4, <2>5
<1>6. QED
  BY <1>1, <1>2, <1>3, <1>4, <1>5 DEF Rebuilds

\* The other tables have what they had, and so do their indexes; what a rebuild
\* is skipped for is new.
LEMMA OtherColumns ==
  ASSUME NEW n \in Rebuilds, NEW t \in DOMAIN Since, t # Subject(n), t # "library_snapshots"
  PROVE  ColsOf(n + 1, t) \subseteq ColsOf(n, t)
<1>1. CASE n = 6
  BY <1>1 DEF Subject, ColsOf, Since
<1>2. CASE n = 15
  BY <1>2 DEF Subject, ColsOf, Since
<1>3. CASE n = 19
  BY <1>3 DEF Subject, ColsOf, Since
<1>4. CASE n = 24
  BY <1>4 DEF Subject, ColsOf, Since
<1>5. CASE n = 25
  BY <1>5 DEF Subject, ColsOf, Since
<1>6. QED
  BY <1>1, <1>2, <1>3, <1>4, <1>5 DEF Rebuilds

LEMMA MarkIsNew ==
  ASSUME NEW n \in Rebuilds
  PROVE  Mark(n) \notin ColsOf(n, Subject(n)) /\ Mark(n) \notin Indexes /\ Mark(n) # "table"
<1>1. CASE n = 6
  BY <1>1 DEF Subject, Mark, ColsOf, Since, Indexes
<1>2. CASE n = 15
  BY <1>2 DEF Subject, Mark, ColsOf, Since, Indexes
<1>3. CASE n = 19
  BY <1>3 DEF Subject, Mark, ColsOf, Since, Indexes
<1>4. CASE n = 24
  BY <1>4 DEF Subject, Mark, ColsOf, Since, Indexes
<1>5. CASE n = 25
  BY <1>5 DEF Subject, Mark, ColsOf, Since, Indexes
<1>6. QED
  BY <1>1, <1>2, <1>3, <1>4, <1>5 DEF Rebuilds

\* Where a process is while it rebuilds: the other tables have all of the
\* version, the table too until it is dropped; the copy has what it was made
\* with, and the table afterwards, besides the indexes made by then.
Others(n, L) ==
    /\ \A u \in (DOMAIN L.tables \cap DOMAIN Since) \ {Subject(n)} : NotAhead(L, u, n)
    /\ \A u \in TablesOf(n) \ {Subject(n)} : Has(L, u, ColsOf(n, u))
Old(n, L) == NotAhead(L, Subject(n), n) /\ Has(L, Subject(n), ColsOf(n, Subject(n)))
Renewed(a, L) ==
    LET n == a.script
        t == Subject(n)
    IN  /\ t \in DOMAIN L.tables /\ L.tables[t].cols \ Indexes = MadeCols(n)
        /\ \A j \in CopyLine(n) + 3 .. a.line - 1 : IndexDone(Scripts[n][j], L)
NeatTurn(a, L) ==
    LET n == a.script
        c == CopyLine(n)
    IN  /\ Others(n, L)
        /\ a.line <= c + 1 => Old(n, L)
        /\ Inside(a) => New[Subject(n)] \in DOMAIN L.tables /\ L.tables[New[Subject(n)]].cols = MadeCols(n)
        /\ a.line > c + 2 => Renewed(a, L)
        /\ a.line > 1 => Mark(n) \notin a.seen

\* No table but the rebuilt one loses anything or gets more than indexes.
Beside(t, L, M) ==
    \A u \in DOMAIN Since \ {t} :
      /\ u \in DOMAIN L.tables => /\ u \in DOMAIN M.tables /\ L.tables[u].cols \subseteq M.tables[u].cols
                                  /\ M.tables[u].cols \ Indexes \subseteq L.tables[u].cols
      /\ u \in DOMAIN M.tables \ DOMAIN L.tables => u = "library_snapshots" /\ M.tables[u].cols = {}

LEMMA OthersStay ==
  ASSUME NEW n \in Rebuilds, NEW L, NEW M, Others(n, L), Beside(Subject(n), L, M)
  PROVE  Others(n, M)
<1> DEFINE t == Subject(n)
<1>1. ASSUME NEW u \in (DOMAIN M.tables \cap DOMAIN Since) \ {t} PROVE NotAhead(M, u, n)
  <2>1. CASE u \in DOMAIN L.tables
    <3>1. NotAhead(L, u, n)
      BY <2>1 DEF Others
    <3>2. M.tables[u].cols \ Indexes \subseteq L.tables[u].cols \ Indexes
      BY <2>1 DEF Beside
    <3>3. QED
      BY <3>1, <3>2 DEF NotAhead
  <2>2. CASE u \notin DOMAIN L.tables
    BY <2>2 DEF Beside, NotAhead
  <2>3. QED
    BY <2>1, <2>2
<1>2. ASSUME NEW u \in TablesOf(n) \ {t} PROVE Has(M, u, ColsOf(n, u))
  <2>1. Has(L, u, ColsOf(n, u)) /\ u \in DOMAIN Since
    BY DEF Others, TablesOf
  <2>2. QED
    BY <2>1 DEF Beside, Has
<1>3. QED
  BY <1>1, <1>2 DEF Others

LEMMA SameIsBeside ==
  ASSUME NEW t, NEW L, NEW M,
         \A u \in DOMAIN Since \ {t} : /\ u \in DOMAIN L.tables <=> u \in DOMAIN M.tables
                                       /\ u \in DOMAIN L.tables => M.tables[u].cols = L.tables[u].cols
  PROVE  Beside(t, L, M)
  BY DEF Beside

\* Nothing is passed over: what a rebuild gives its table was not there.
LEMMA RebuildsAll ==
  ASSUME NEW a, a.script \in Rebuilds, a.line \in 1 .. Len(Scripts[a.script]),
         NEW s, s = Scripts[a.script][a.line], NEW L, NeatTurn(a, L),
         NEW seen, seen = (IF s.op = "look" THEN Seen(L, s.table) ELSE a.seen), "never" \notin seen,
         NEW b, Further(a, b, seen)
  PROVE  b.line = a.line + 1 /\ b.script = a.script /\ Mark(a.script) \notin b.seen
<1> DEFINE n == a.script
           S == Scripts[a.script]
           c == CopyLine(a.script)
           t == Subject(a.script)
<1>1. /\ DOMAIN S = 1 .. Len(S) /\ Len(S) \in Nat /\ n \in 0 .. SchemaVersion - 1
      /\ c \in {3, 4} /\ Len(S) > c + 2
  BY RebuildFacts, Lines, ScriptShapes DEF Shaped
<1>2. \A k \in 1 .. Len(S) : SwapLine(n, k, S[k])
  BY <1>1, RebuildScripts DEF Swaps
<1>3. /\ b.script = n /\ b.seen = seen /\ b.line \in a.line + 1 .. Len(S)
      /\ \A i \in a.line + 1 .. b.line - 1 : S[i].unless \in seen
  BY DEF Further
<1>4. \A k \in 2 .. Len(S) : S[k].unless \in {"never", Mark(n)}
  <2> SUFFICES ASSUME NEW k \in 2 .. Len(S) PROVE S[k].unless \in {"never", Mark(n)}
    OBVIOUS
  <2>1. k \in 1 .. Len(S) /\ (k \in 2 .. c + 2 \/ k > c + 2)
    BY <1>1
  <2>2. SwapLine(n, k, S[k])
    BY <1>2, <2>1
  <2>3. QED
    BY <2>1, <2>2 DEF SwapLine
<1>5. Mark(n) \notin seen
  <2>1. CASE a.line = 1
    <3>1. s.op = "look" /\ s.table = t
      BY <1>2, <2>1 DEF SwapLine
    <3>2. Old(n, L)
      BY <1>1, <2>1 DEF NeatTurn
    <3>3. t \in DOMAIN L.tables /\ L.tables[t].cols \ Indexes \subseteq ColsOf(n, t)
      BY <3>2 DEF Old, NotAhead, Has
    <3>4. QED
      BY <3>1, <3>3, MarkIsNew DEF Seen
  <2>2. CASE a.line # 1
    <3>1. s.op # "look"
      <4>1. a.line \in 2 .. c + 2 \/ a.line > c + 2
        BY <1>1, <2>2
      <4>2. CASE a.line \in 2 .. c + 2
        <5>1. s.op \in {"create", "make", "begin", "copy", "drop", "rename"}
          BY <4>2, RebuildSteps
        <5>2. QED
          BY <5>1
      <4>3. CASE a.line > c + 2
        <5>1. SwapLine(n, a.line, s)
          BY <1>2
        <5>2. s.op \in {"index", "commit", "create", "version"}
          BY <4>3, <5>1 DEF SwapLine
        <5>3. QED
          BY <5>2
      <4>4. QED
        BY <4>1, <4>2, <4>3
    <3>2. a.line > 1
      BY <2>2
    <3>3. QED
      BY <3>1, <3>2 DEF NeatTurn
  <2>3. QED
    BY <2>1, <2>2
<1>6. b.line = a.line + 1
  <2>1. SUFFICES ASSUME b.line # a.line + 1 PROVE FALSE
    OBVIOUS
  <2>2. a.line + 1 \in a.line + 1 .. b.line - 1 /\ a.line + 1 \in 2 .. Len(S)
    BY <1>1, <1>3, <2>1
  <2>3. S[a.line + 1].unless \in seen /\ S[a.line + 1].unless \in {"never", Mark(n)}
    BY <1>3, <1>4, <2>2
  <2>4. QED
    BY <1>5, <2>3
<1>7. QED
  BY <1>3, <1>5, <1>6

\* What a statement makes of the tables, besides the one that is rebuilt.
LEMMA RebuildIsBeside ==
  ASSUME NEW a, a.script \in Rebuilds, a.line \in 1 .. Len(Scripts[a.script]), a.line # Len(Scripts[a.script]),
         NEW s, s = Scripts[a.script][a.line], NEW L, IsLibrary(L), ~Fails(s, L), NEW M, M = After(s, L)
  PROVE  Beside(Subject(a.script), L, M)
<1> DEFINE n == a.script
           t == Subject(a.script)
           c == CopyLine(a.script)
<1>1. /\ t \in Rebuilt /\ t \in DOMAIN Since /\ Sound(s) /\ a.line \in Nat
      /\ c \in {3, 4} /\ MakeLine(n) \in {2, 3} /\ MakeLine(n) < c
  BY TurnFacts
<1>2. New[t] \notin DOMAIN Since
  BY CopyLooksLikeTable
<1>3. SwapLine(n, a.line, s)
  BY SwapHere
<1>4. CASE a.line = 1 \/ (a.line \in 2 .. c - 1 /\ a.line # MakeLine(n))
  <2>1. s.op \in {"look", "begin"}
    BY <1>3, <1>4 DEF SwapLine
  <2>2. M = L
    BY <1>1, <2>1, AfterAlter
  <2>3. QED
    BY <2>2, SameIsBeside
<1>5. CASE a.line = MakeLine(n)
  <2>1. Makes(s, t)
    BY <1>5, RebuildLine
  <2>2. /\ DOMAIN M.tables = DOMAIN L.tables \cup {New[t]}
        /\ \A u \in DOMAIN L.tables : M.tables[u] = L.tables[u]
    BY <1>1, <2>1, AfterCreate DEF Makes
  <2>3. QED
    BY <1>2, <2>2, SameIsBeside
<1>6. CASE a.line = c
  <2>1. CopiesTo(s, t)
    BY <1>6, RebuildLine
  <2>2. DOMAIN M.tables = DOMAIN L.tables /\ \A u \in DOMAIN M.tables : M.tables[u].cols = L.tables[u].cols
    BY <1>1, <2>1, AfterCopy
  <2>3. QED
    BY <2>2, SameIsBeside
<1>7. CASE a.line = c + 1
  <2>1. Drops(s, t)
    BY <1>7, RebuildLine
  <2>2. DOMAIN M.tables = DOMAIN L.tables \ {t} /\ \A u \in DOMAIN M.tables : M.tables[u].cols = L.tables[u].cols
    BY <1>1, <2>1, AfterDrop
  <2>3. QED
    BY <2>2, SameIsBeside
<1>8. CASE a.line = c + 2
  <2>1. Renames(s, t)
    BY <1>8, RebuildLine
  <2>2. /\ DOMAIN M.tables = (DOMAIN L.tables \ {New[t]}) \cup {t}
        /\ \A u \in DOMAIN M.tables : u # t => M.tables[u] = L.tables[u]
    BY <1>1, <2>1, AfterRename
  <2>3. QED
    BY <1>2, <2>2, SameIsBeside
<1>9. CASE a.line > c + 2
  <2>1. s.op \in {"index", "commit", "create"} /\ Sound(s)
        /\ (s.op = "create" => s.table = "library_snapshots" /\ s.cols = {})
        /\ (s.op = "index" => s.arg \in Indexes)
    <3>0. Tame(s)
      BY <1>1, <1>9, RebuildLine
    <3>1. s.op # "version"
      BY <3>0 DEF Tame
    <3>2. "ix" \in Indexes
      BY DEF Indexes
    <3>3. QED
      BY <1>1, <1>3, <1>9, <3>1, <3>2 DEF SwapLine
  <2>2. Grown(s, L, M)
    BY <2>1, StatementGrows
  <2>3. Extra(s) \subseteq Indexes
    BY <2>1 DEF Extra
  <2>4. /\ \A u \in DOMAIN L.tables :
             /\ u \in DOMAIN M.tables
             /\ M.tables[u].cols = L.tables[u].cols \cup (IF u = s.table THEN Extra(s) ELSE {})
        /\ \A u \in DOMAIN M.tables \ DOMAIN L.tables :
             s.op \in {"create", "make"} /\ u = s.table /\ M.tables[u].cols = s.cols
    BY <2>2, Zenon DEF Grown
  <2>5. QED
    BY <2>1, <2>3, <2>4 DEF Beside
<1>10. QED
  <2>1. a.line = 1 \/ a.line \in 2 .. c - 1 \/ a.line = c \/ a.line = c + 1 \/ a.line = c + 2 \/ a.line > c + 2
    BY <1>1
  <2>2. QED
    BY <2>1, <1>4, <1>5, <1>6, <1>7, <1>8, <1>9

\* Up to the copying the table stays as it is; the copy is as it was made.
TableKept(a, L, M) ==
    LET t == Subject(a.script)
    IN  /\ t \in DOMAIN L.tables /\ a.line <= CopyLine(a.script)
             => t \in DOMAIN M.tables /\ M.tables[t].cols = L.tables[t].cols
        /\ a.line = MakeLine(a.script)
             => New[t] \in DOMAIN M.tables /\ M.tables[New[t]].cols = MadeCols(a.script)
        /\ a.line \in MakeLine(a.script) + 1 .. CopyLine(a.script) + 1 /\ New[t] \in DOMAIN L.tables
             => New[t] \in DOMAIN M.tables /\ M.tables[New[t]].cols = L.tables[New[t]].cols

LEMMA TableAndCopy ==
  ASSUME NEW a, a.script \in Rebuilds, a.line \in 1 .. Len(Scripts[a.script]),
         NEW s, s = Scripts[a.script][a.line], NEW L, IsLibrary(L), ~Fails(s, L), NEW M, M = After(s, L),
         a.line = MakeLine(a.script) => New[Subject(a.script)] \notin DOMAIN L.tables
  PROVE  TableKept(a, L, M)
<1> DEFINE n == a.script
           t == Subject(a.script)
           c == CopyLine(a.script)
<1>1. /\ t \in Rebuilt /\ t \in DOMAIN Since /\ Sound(s) /\ a.line \in Nat
      /\ c \in {3, 4} /\ MakeLine(n) \in {2, 3} /\ MakeLine(n) < c
  BY TurnFacts
<1>2. t # New[t]
  BY CopyLooksLikeTable
<1>3. SwapLine(n, a.line, s)
  BY SwapHere
<1>4. a.line = 1 \/ (a.line \in 2 .. c - 1 /\ a.line # MakeLine(n)) => M = L
  <2> SUFFICES ASSUME a.line = 1 \/ (a.line \in 2 .. c - 1 /\ a.line # MakeLine(n)) PROVE M = L
    OBVIOUS
  <2>1. s.op \in {"look", "begin"}
    BY <1>3 DEF SwapLine
  <2>2. QED
    BY <1>1, <2>1, AfterAlter
<1>5. a.line = MakeLine(n) =>
        /\ New[t] \in DOMAIN M.tables /\ M.tables[New[t]].cols = MadeCols(n)
        /\ t \in DOMAIN L.tables => t \in DOMAIN M.tables /\ M.tables[t].cols = L.tables[t].cols
  <2> SUFFICES ASSUME a.line = MakeLine(n)
               PROVE  /\ New[t] \in DOMAIN M.tables /\ M.tables[New[t]].cols = MadeCols(n)
                      /\ t \in DOMAIN L.tables => t \in DOMAIN M.tables /\ M.tables[t].cols = L.tables[t].cols
    OBVIOUS
  <2>1. Makes(s, t) /\ s.cols = MadeCols(n)
    BY RebuildLine
  <2>2. /\ DOMAIN M.tables = DOMAIN L.tables \cup {New[t]}
        /\ \A u \in DOMAIN L.tables : M.tables[u] = L.tables[u]
        /\ M.tables[New[t]].cols = MadeCols(n)
    BY <1>1, <2>1, AfterCreate DEF Makes
  <2>3. QED
    BY <2>2
<1>6. a.line = c => DOMAIN M.tables = DOMAIN L.tables /\ \A u \in DOMAIN M.tables : M.tables[u].cols = L.tables[u].cols
  <2> SUFFICES ASSUME a.line = c
               PROVE  DOMAIN M.tables = DOMAIN L.tables /\ \A u \in DOMAIN M.tables : M.tables[u].cols = L.tables[u].cols
    OBVIOUS
  <2>1. CopiesTo(s, t)
    BY RebuildLine
  <2>2. QED
    BY <1>1, <2>1, AfterCopy
<1>7. a.line = c + 1 => DOMAIN M.tables = DOMAIN L.tables \ {t} /\ \A u \in DOMAIN M.tables : M.tables[u].cols = L.tables[u].cols
  <2> SUFFICES ASSUME a.line = c + 1
               PROVE  DOMAIN M.tables = DOMAIN L.tables \ {t} /\ \A u \in DOMAIN M.tables : M.tables[u].cols = L.tables[u].cols
    OBVIOUS
  <2>1. Drops(s, t)
    BY RebuildLine
  <2>2. QED
    BY <1>1, <2>1, AfterDrop
<1>8. a.line <= c => a.line = 1 \/ (a.line \in 2 .. c - 1 /\ a.line # MakeLine(n)) \/ a.line = MakeLine(n) \/ a.line = c
  BY <1>1
<1>9. a.line <= c /\ t \in DOMAIN L.tables => t \in DOMAIN M.tables /\ M.tables[t].cols = L.tables[t].cols
  BY ONLY <1>4, <1>5, <1>6, <1>8
<1>11. a.line \in MakeLine(n) + 1 .. c + 1 =>
         (a.line \in 2 .. c - 1 /\ a.line # MakeLine(n)) \/ a.line = c \/ a.line = c + 1
  BY <1>1
<1>12. a.line \in MakeLine(n) + 1 .. c + 1 /\ New[t] \in DOMAIN L.tables
         => New[t] \in DOMAIN M.tables /\ M.tables[New[t]].cols = L.tables[New[t]].cols
  BY ONLY <1>2, <1>4, <1>6, <1>7, <1>11
<1>13. QED
  BY <1>5, <1>9, <1>12 DEF TableKept

\* The table is the copy, and gets its indexes.
LEMMA RenewedStep ==
  ASSUME NEW a, a.script \in Rebuilds, a.line \in 1 .. Len(Scripts[a.script]), a.line # Len(Scripts[a.script]),
         NEW s, s = Scripts[a.script][a.line], NEW L, IsLibrary(L), ~Fails(s, L), NEW M, M = After(s, L),
         NeatTurn(a, L), a.line >= CopyLine(a.script) + 2, NEW b, b.script = a.script, b.line = a.line + 1
  PROVE  Renewed(b, M)
<1> DEFINE n == a.script
           t == Subject(a.script)
           c == CopyLine(a.script)
<1>1. /\ t \in Rebuilt /\ t \in DOMAIN Since /\ Sound(s) /\ a.line \in Nat
      /\ c \in {3, 4} /\ MakeLine(n) \in {2, 3} /\ MakeLine(n) < c
      /\ Inside(a) <=> a.line \in MakeLine(n) + 1 .. c + 2
  BY TurnFacts
<1>2. CASE a.line = c + 2
  <2>1. Renames(s, t)
    BY <1>2, RebuildLine
  <2>2. t \in DOMAIN M.tables /\ M.tables[t] = L.tables[New[t]]
    BY <1>1, <2>1, AfterRename
  <2>3. L.tables[New[t]].cols = MadeCols(n)
    <3>1. Inside(a)
      BY <1>1, <1>2
    <3>2. QED
      BY <3>1 DEF NeatTurn
  <2>4. MadeCols(n) \ Indexes = MadeCols(n)
    <3>1. MadeCols(n) \subseteq Final(t) \ Indexes
      BY Rebuilding
    <3>2. QED
      BY <3>1
  <2>5. \A j \in c + 3 .. b.line - 1 : FALSE
    BY <1>1, <1>2
  <2>6. QED
    BY <2>2, <2>3, <2>4, <2>5 DEF Renewed
<1>3. CASE a.line > c + 2
  <2>0. Tame(s)
    BY <1>1, <1>3, RebuildLine
  <2>1. s.op \in {"index", "commit", "create"} /\ (s.op = "index" => s.arg \in Indexes)
    <3>1. SwapLine(n, a.line, s) /\ s.op # "version"
      BY <2>0, SwapHere DEF Tame
    <3>2. "ix" \in Indexes
      BY DEF Indexes
    <3>3. QED
      BY <1>3, <3>1, <3>2 DEF SwapLine
  <2>2. Grown(s, L, M)
    BY <1>1, <2>1, StatementGrows
  <2>3. Renewed(a, L)
    BY <1>3 DEF NeatTurn
  <2>4. t \in DOMAIN M.tables /\ M.tables[t].cols \ Indexes = MadeCols(n)
    <3>1. t \in DOMAIN L.tables /\ L.tables[t].cols \ Indexes = MadeCols(n)
      BY <2>3 DEF Renewed
    <3>2. t \in DOMAIN M.tables /\ M.tables[t].cols = L.tables[t].cols \cup (IF t = s.table THEN Extra(s) ELSE {})
      BY <2>2, <3>1, Zenon DEF Grown
    <3>3. Extra(s) \subseteq Indexes
      BY <2>1 DEF Extra
    <3>4. QED
      BY <3>1, <3>2, <3>3
  <2>5. \A j \in c + 3 .. b.line - 1 : j \in c + 3 .. a.line - 1 \/ j = a.line
    BY <1>1
  <2>6. \A j \in c + 3 .. b.line - 1 : IndexDone(Scripts[n][j], M)
    <3>1. IndexDone(s, M) /\ \A r : IndexDone(r, L) => IndexDone(r, M)
      BY <2>2, IndexStays
    <3>2. \A j \in c + 3 .. a.line - 1 : IndexDone(Scripts[n][j], L)
      BY <2>3 DEF Renewed
    <3>3. QED
      BY <2>5, <3>1, <3>2
  <2>7. QED
    BY <2>4, <2>6 DEF Renewed
<1>4. QED
  BY <1>1, <1>2, <1>3

\* Where a process is after a statement of a rebuild, but its last, when no copy
\* was left before it.
LEMMA NeatTurnStep ==
  ASSUME NEW a, a.script \in Rebuilds, a.line \in 1 .. Len(Scripts[a.script]),
         NEW s, s = Scripts[a.script][a.line], NEW L, IsLibrary(L), ~Fails(s, L), NeatTurn(a, L),
         a.line = MakeLine(a.script) => New[Subject(a.script)] \notin DOMAIN L.tables,
         NEW M, M = After(s, L), NEW seen, seen = (IF s.op = "look" THEN Seen(L, s.table) ELSE a.seen),
         "never" \notin seen, NEW b, Further(a, b, seen)
  PROVE  NeatTurn(b, M)
<1> DEFINE n == a.script
           t == Subject(a.script)
           c == CopyLine(a.script)
<1>1. b.line = a.line + 1 /\ b.script = n /\ Mark(n) \notin b.seen
  BY RebuildsAll
<1>2. a.line # Len(Scripts[n])
  BY RebuildFacts, NotLast
<1>3. /\ t \in Rebuilt /\ a.line \in Nat
      /\ c \in {3, 4} /\ MakeLine(n) \in {2, 3} /\ MakeLine(n) < c
      /\ Inside(a) <=> a.line \in MakeLine(n) + 1 .. c + 2
  BY TurnFacts
<1>4. Inside(b) <=> a.line \in MakeLine(n) .. c + 1
  BY <1>1, <1>3 DEF Inside
<1>5. Others(n, M)
  <2>1. Others(n, L)
    BY DEF NeatTurn
  <2>2. Beside(t, L, M)
    BY <1>2, RebuildIsBeside
  <2>3. QED
    BY ONLY <2>1, <2>2, n \in Rebuilds, OthersStay
<1>6. TableKept(a, L, M)
  BY TableAndCopy
<1>7. b.line <= c + 1 => Old(n, M)
  <2> SUFFICES ASSUME a.line <= c PROVE Old(n, M)
    BY <1>1, <1>3
  <2>1. Old(n, L)
    BY <1>3 DEF NeatTurn
  <2>2. t \in DOMAIN L.tables
    BY <2>1 DEF Old, Has
  <2>3. t \in DOMAIN M.tables /\ M.tables[t].cols = L.tables[t].cols
    BY <1>6, <2>2 DEF TableKept
  <2>4. QED
    BY <2>1, <2>3 DEF Old, NotAhead, Has
<1>8. Inside(b) => New[t] \in DOMAIN M.tables /\ M.tables[New[t]].cols = MadeCols(n)
  <2> SUFFICES ASSUME a.line \in MakeLine(n) .. c + 1
               PROVE  New[t] \in DOMAIN M.tables /\ M.tables[New[t]].cols = MadeCols(n)
    BY <1>4
  <2>1. CASE a.line = MakeLine(n)
    BY <1>6, <2>1 DEF TableKept
  <2>2. CASE a.line \in MakeLine(n) + 1 .. c + 1
    <3>1. Inside(a)
      BY <1>3, <2>2
    <3>2. New[t] \in DOMAIN L.tables /\ L.tables[New[t]].cols = MadeCols(n)
      BY <3>1 DEF NeatTurn
    <3>3. QED
      BY <1>6, <2>2, <3>2 DEF TableKept
  <2>3. QED
    BY <1>3, <2>1, <2>2
<1>9. b.line > c + 2 => Renewed(b, M)
  <2> SUFFICES ASSUME b.line > c + 2 PROVE Renewed(b, M)
    OBVIOUS
  <2>1. a.line >= c + 2
    BY <1>1, <1>3
  <2>2. QED
    BY <1>1, <1>2, <2>1, RenewedStep
<1>10. QED
  BY <1>1, <1>5, <1>7, <1>8, <1>9 DEF NeatTurn

\* Where a rebuild ends: the library has all of the next version.
LEMMA NeatTurnEnds ==
  ASSUME NEW a, a.script \in Rebuilds, a.line = Len(Scripts[a.script]), NEW L, NeatTurn(a, L),
         NEW M, M.tables = L.tables, M.version = a.script + 1
  PROVE  Tidy(M)
<1> DEFINE n == a.script
           t == Subject(a.script)
           c == CopyLine(a.script)
           S == Scripts[a.script]
<1>1. /\ a.line > c + 2 /\ n \in 0 .. SchemaVersion - 1 /\ n \in Rebuilds /\ n \in Nat /\ n + 1 \in Nat
      /\ n <= n + 1 /\ n <= 25 /\ t \in Rebuilt /\ t \in DOMAIN Since
  <2>1. n \in 0 .. SchemaVersion - 1 /\ n \in Rebuilds /\ n \in Nat /\ t \in Rebuilt /\ t \in DOMAIN Since
    BY RebuildFacts
  <2>2. a.line > c + 2
    BY <2>1, ScriptShapes DEF Shaped
  <2>3. n <= 25
    BY DEF Rebuilds
  <2>4. QED
    BY <2>1, <2>2, <2>3
<1>2. Others(n, L) /\ Renewed(a, L)
  BY <1>1 DEF NeatTurn
<1>3. t \in DOMAIN L.tables /\ L.tables[t].cols \ Indexes = MadeCols(n)
  BY <1>2 DEF Renewed
<1>4. \A u, x : Indexed(n, S, u, x) => Has(L, u, {x})
  <2> SUFFICES ASSUME NEW u, NEW x, Indexed(n, S, u, x) PROVE Has(L, u, {x})
    OBVIOUS
  <2>1. PICK j \in c + 3 .. Len(S) - 1 : S[j].op = "index" /\ S[j].table = u /\ S[j].arg = x
    BY DEF Indexed
  <2>2. IndexDone(S[j], L)
    BY <1>2, <2>1 DEF Renewed
  <2>3. QED
    BY <2>1, <2>2 DEF IndexDone
<1>5. Reindexes(n, S)
  BY <1>1, RebuildIndexes
<1>6. t \in TablesOf(n) /\ MadeCols(n) = ColsOf(n + 1, t) \ Indexes
  BY <1>1, Rebuilding, MadeInFull
<1>7. TablesOf(n) \subseteq TablesOf(n + 1)
  BY <1>1, LaterVersions
<1>8. ASSUME NEW u \in DOMAIN L.tables \cap DOMAIN Since PROVE NotAhead(L, u, n + 1)
  <2>1. CASE u = t
    BY <1>3, <1>6, <1>7, <2>1 DEF NotAhead
  <2>2. CASE u # t
    <3>1. NotAhead(L, u, n)
      BY <1>2, <2>2 DEF Others
    <3>2. QED
      BY <1>1, <3>1, NotAheadLater
  <2>3. QED
    BY <2>1, <2>2
<1>9. ASSUME NEW u \in TablesOf(n + 1) PROVE Has(L, u, ColsOf(n + 1, u))
  <2>0. u \in DOMAIN Since
    BY DEF TablesOf
  <2>1. CASE u = t
    <3>1. \A x \in ColsOf(n + 1, t) \cap Indexes : x \in L.tables[t].cols
      BY <1>4, <1>5 DEF Reindexes, Has
    <3>2. \A x \in ColsOf(n + 1, t) \ Indexes : x \in L.tables[t].cols
      BY <1>3, <1>6
    <3>3. QED
      BY <1>3, <2>1, <3>1, <3>2 DEF Has
  <2>2. CASE u # t /\ u \in TablesOf(n)
    <3>1. Has(L, u, ColsOf(n, u))
      BY <1>2, <2>2 DEF Others
    <3>2. u # "library_snapshots"
      <4>1. TablesOf(n) \subseteq TablesOf(25)
        BY <1>1, LaterVersions
      <4>2. QED
        BY <2>2, <4>1, Snapshots
    <3>3. ColsOf(n + 1, u) \subseteq ColsOf(n, u)
      BY <1>1, <2>0, <2>2, <3>2, OtherColumns
    <3>4. QED
      BY <3>1, <3>3 DEF Has
  <2>3. CASE u # t /\ u \notin TablesOf(n)
    <3>1. n = 25 /\ u = "library_snapshots"
      BY <1>1, <2>0, <2>3, OtherTables
    <3>2. Has(L, u, {"ix"})
      BY <1>4, <1>5, <3>1 DEF Reindexes
    <3>3. ColsOf(n + 1, u) \subseteq {"ix"}
      BY <3>1, Snapshots DEF ColsOf, Final
    <3>4. QED
      BY <3>2, <3>3 DEF Has
  <2>4. QED
    BY <2>1, <2>2, <2>3
<1>10. QED
  BY <1>8, <1>9 DEF Tidy, NotAhead, Has

\* What a process on its way has made of the library so far, indexes too.
InTheOrder(a, L) ==
    /\ a.script = 0 => IF L.version = 0 THEN IndexesTo(a, L) ELSE Tidy(L)
    /\ a.script \in Gentle => Neat(a, L)
    /\ a.script \in Rebuilds => NeatTurn(a, L)

LEMMA OrderStarts ==
  ASSUME NEW L, Tidy(L), NEW a, a.line = 1, a.seen = {}, a.script \in 0 .. SchemaVersion - 1,
         a.script # 0 => L.version = a.script
  PROVE  InTheOrder(a, L)
<1>1. \A j \in 1 .. a.line - 1 : FALSE
  OBVIOUS
<1>2. IndexesTo(a, L)
  BY <1>1 DEF IndexesTo
<1>3. a.script = 0 => IF L.version = 0 THEN IndexesTo(a, L) ELSE Tidy(L)
  BY <1>2
<1>4. ASSUME a.script # 0
      PROVE  /\ \A t \in DOMAIN L.tables \cap DOMAIN Since : NotAhead(L, t, a.script)
             /\ \A t \in TablesOf(a.script) : Has(L, t, ColsOf(a.script, t))
  BY <1>4 DEF Tidy
<1>5. ASSUME a.script \in Gentle PROVE Neat(a, L)
  <2>1. a.script # 0
    BY <1>5, GentleFacts
  <2>2. \A t : ~Newer(a, t)
    BY <1>1 DEF Newer
  <2>3. InReach(a, L) /\ Filled(a, L)
    BY <1>4, <2>1, <2>2 DEF InReach, Filled
  <2>4. Unseen(a.script, a.line, a.seen)
    BY DEF Unseen
  <2>5. QED
    BY <1>2, <2>3, <2>4 DEF Neat
<1>6. ASSUME a.script \in Rebuilds PROVE NeatTurn(a, L)
  <2> DEFINE n == a.script
             t == Subject(a.script)
             c == CopyLine(a.script)
  <2>1. n # 0 /\ c \in {3, 4} /\ MakeLine(n) \in {2, 3} /\ t \in DOMAIN Since
    BY <1>6, RebuildFacts
  <2>2. t \in TablesOf(n)
    BY <1>6, Rebuilding
  <2>3. Others(n, L)
    BY <1>4, <2>1 DEF Others
  <2>4. Old(n, L)
    BY <1>4, <2>1, <2>2 DEF Old, Has
  <2>5. ~Inside(a)
    BY <2>1 DEF Inside
  <2>6. ~(a.line > c + 2) /\ ~(a.line > 1)
    BY <2>1
  <2>7. QED
    BY <2>3, <2>4, <2>5, <2>6 DEF NeatTurn
<1>7. QED
  BY <1>3, <1>5, <1>6 DEF InTheOrder

\* Nothing of create_schema() is passed over.
LEMMA SchemaInTurn ==
  ASSUME NEW a, a.script = 0, a.line \in 1 .. 35, NEW seen, "never" \notin seen, NEW b, Further(a, b, seen)
  PROVE  b.line = a.line + 1 /\ b.script = 0 /\ a.line \in 1 .. 34
<1>1. Len(Scripts[0]) = 35
  BY SchemaScript
<1>2. /\ b.script = 0 /\ b.line \in a.line + 1 .. 35
      /\ \A i \in a.line + 1 .. b.line - 1 : Scripts[0][i].unless \in seen
  BY <1>1 DEF Further
<1>3. \A i \in 1 .. 35 : Scripts[0][i].unless = "never"
  <2>1. \A i \in 1 .. 35 : FreshLine(Scripts[0][i])
    BY ONLY SchemaLine
  <2>2. QED
    BY <2>1 DEF FreshLine
<1>4. SUFFICES ASSUME b.line # a.line + 1 PROVE FALSE
  BY <1>2
<1>5. a.line + 1 \in a.line + 1 .. b.line - 1 /\ a.line + 1 \in 1 .. 35
  BY <1>2, <1>4
<1>6. QED
  BY <1>2, <1>3, <1>5

LEMMA SchemaInOrder ==
  ASSUME NEW a, a.script = 0, a.line \in 1 .. 34, NEW s, s = Scripts[0][a.line],
         NEW L, IsLibrary(L), ~Fails(s, L), NEW M, M = After(s, L), DoneTo(a, L),
         IF L.version = 0 THEN IndexesTo(a, L) ELSE Tidy(L),
         NEW b, b.script = 0, b.line = a.line + 1
  PROVE  IF M.version = 0 THEN IndexesTo(b, M) ELSE Tidy(M)
<1>1. Tidy(L)
  BY DEF Tidy
<1>2. Tidy(M) /\ Grown(s, L, M)
  BY <1>1, SchemaTidy
<1>3. M.version = L.version
  BY <1>2 DEF Grown
<1>4. ASSUME L.version = 0 PROVE IndexesTo(b, M)
  <2>1. IndexDone(s, M) /\ \A r : IndexDone(r, L) => IndexDone(r, M)
    BY <1>2, IndexStays
  <2>2. \A j \in 1 .. b.line - 1 : j \in 1 .. a.line - 1 \/ j = a.line
    OBVIOUS
  <2>3. \A j \in 1 .. a.line - 1 : IndexDone(Scripts[0][j], L)
    BY <1>4 DEF IndexesTo
  <2>4. \A j \in 1 .. b.line - 1 : IndexDone(Scripts[0][j], M)
    BY <2>1, <2>2, <2>3
  <2>5. QED
    BY <2>4 DEF IndexesTo
<1>5. QED
  BY <1>2, <1>3, <1>4

\* Up to its last statement a script makes what it should of a library.
LEMMA OrderOn ==
  ASSUME NEW a, a.script \in 0 .. SchemaVersion - 1, a.line \in 1 .. Len(Scripts[a.script]),
         NEW s, s = Scripts[a.script][a.line], NEW L, IsLibrary(L), ~Fails(s, L), OnItsWay(a, L), InTheOrder(a, L),
         a.script \in Rebuilds /\ a.line = MakeLine(a.script) => New[Subject(a.script)] \notin DOMAIN L.tables,
         NEW M, M = After(s, L), NEW seen, seen = (IF s.op = "look" THEN Seen(L, s.table) ELSE a.seen),
         "never" \notin seen, NEW b, Further(a, b, seen)
  PROVE  InTheOrder(b, M)
<1>0. b.script = a.script
  BY DEF Further
<1>1. CASE a.script = 0
  <2>1. a.line \in 1 .. 35 /\ s = Scripts[0][a.line]
    BY <1>1, SchemaScript
  <2>2. b.line = a.line + 1 /\ b.script = 0 /\ a.line \in 1 .. 34
    BY <1>1, <2>1, SchemaInTurn
  <2>3. DoneTo(a, L) /\ IF L.version = 0 THEN IndexesTo(a, L) ELSE Tidy(L)
    BY <1>1 DEF OnItsWay, InTheOrder
  <2>4. IF M.version = 0 THEN IndexesTo(b, M) ELSE Tidy(M)
    BY <1>1, <2>1, <2>2, <2>3, SchemaInOrder
  <2>5. QED
    BY <2>2, <2>4, ThreeSorts DEF InTheOrder
<1>2. CASE a.script \in Gentle
  <2>1. Neat(a, L)
    BY <1>2 DEF InTheOrder
  <2>2. Neat(b, M)
    BY <1>2, <2>1, NeatStep
  <2>3. b.script # 0 /\ b.script \notin Rebuilds
    BY <1>0, <1>2, GentleFacts
  <2>4. QED
    BY <2>2, <2>3 DEF InTheOrder
<1>3. CASE a.script \in Rebuilds
  <2>1. NeatTurn(a, L)
    BY <1>3 DEF InTheOrder
  <2>2. NeatTurn(b, M)
    BY <1>3, <2>1, NeatTurnStep
  <2>3. b.script # 0 /\ b.script \notin Gentle
    BY <1>0, <1>3, RebuildFacts
  <2>4. QED
    BY <2>2, <2>3 DEF InTheOrder
<1>4. QED
  BY <1>1, <1>2, <1>3, ThreeSorts

\* Where a script ends, the library has all of its version.
LEMMA OrderEnds ==
  ASSUME NEW a, a.script \in 0 .. SchemaVersion - 1, a.line = Len(Scripts[a.script]),
         NEW s, s = Scripts[a.script][a.line], NEW L, IsLibrary(L), OnItsWay(a, L), InTheOrder(a, L),
         NEW M, M = After(s, L)
  PROVE  Tidy(M)
<1>0. s = Closing(a.script)
  BY ScriptShapes DEF Ended
<1>1. /\ M.tables = L.tables
      /\ a.script = 0 => M.version = IF L.version = 0 THEN SchemaVersion ELSE L.version
      /\ a.script # 0 => M.version = IF L.version = 0 THEN L.version ELSE a.script + 1
  BY <1>0, ClosingKeepsTables
<1>2. CASE a.script = 0
  <2>1. a.line = 35
    BY <1>2, SchemaScript
  <2>2. Sane(L) /\ DoneTo(a, L) /\ IF L.version = 0 THEN IndexesTo(a, L) ELSE Tidy(L)
    BY <1>2 DEF OnItsWay, InTheOrder
  <2>3. CASE L.version = 0
    <3>1. M.version = SchemaVersion /\ IndexesTo(a, L) /\ M.tables = L.tables
      BY <1>1, <1>2, <2>2, <2>3
    <3>2. QED
      BY <1>2, <2>1, <2>2, <2>3, <3>1, NewIsTidy
  <2>4. CASE L.version # 0
    <3>1. M.version = L.version /\ M.tables = L.tables /\ Tidy(L)
      BY <1>1, <1>2, <2>2, <2>4
    <3>2. QED
      BY <3>1 DEF Tidy, NotAhead, Has
  <2>5. QED
    BY <2>3, <2>4
<1>3. CASE a.script \in Gentle
  <2>1. Moving(a, L) /\ Neat(a, L)
    BY <1>3 DEF OnItsWay, InTheOrder
  <2>2. QED
    BY <1>3, <2>1, NeatEnds
<1>4. CASE a.script \in Rebuilds
  <2>1. Turning(a, L) /\ NeatTurn(a, L)
    BY <1>4 DEF OnItsWay, InTheOrder
  <2>2. L.version = a.script /\ a.script # 0
    BY <1>4, <2>1, RebuildFacts DEF Turning
  <2>3. M.version = a.script + 1
    BY <1>1, <2>2
  <2>4. QED
    BY <1>1, <1>4, <2>1, <2>3, NeatTurnEnds
<1>5. QED
  BY <1>2, <1>3, <1>4, ThreeSorts
-----------------------------------------------------------------------------
(* Processes that open the library one after another, none of which dies.  *)

\* The library has all of its version when no process opens it, and what the
\* process that does so should have made of it.
Exact ==
    /\ Idle => Tidy(lib)
    /\ \A p \in Processes : Opening(p) => InTheOrder(at[p], Content)

ExactInv == crashes = 0 /\ ~overlap => Exact

LEMMA FirstIsTidy ==
  ASSUME NEW v \in 0 .. SchemaVersion
  PROVE  Tidy(LibraryOf(v))
<1>1. CASE v = 0
  BY <1>1 DEF LibraryOf, EmptyLibrary, Tidy
<1>2. CASE v # 0
  <2> DEFINE L == LibraryOf(v)
  <2>1. /\ L.version = v /\ DOMAIN L.tables = TablesOf(v)
        /\ \A t \in TablesOf(v) : L.tables[t].cols = ColsOf(v, t)
    BY <1>2 DEF LibraryOf
  <2> HIDE DEF L
  <2>2. Tidy(L)
    BY <2>1 DEF Tidy, NotAhead, Has
  <2>3. QED
    BY <2>2 DEF L
<1>3. QED
  BY <1>1, <1>2

LEMMA ExactInit == Init => ExactInv
<1> SUFFICES ASSUME Init PROVE Exact
  BY DEF ExactInv
<1>1. lib = LibraryOf(origin) /\ origin \in 0 .. SchemaVersion
  BY UpgradeAssumption DEF Init, Originals
<1>2. \A p \in Processes : ~Opening(p)
  BY DEF Init, Opening, Place, Busy
<1>3. QED
  BY <1>1, <1>2, FirstIsTidy DEF Exact

LEMMA SchemaKeepsOrder ==
  ASSUME NEW a, a.script = 0, NEW L, InTheOrder(a, L)
  PROVE  Tidy(L)
  BY DEF InTheOrder, Tidy

\* Where no copy was left, none is there when one is made.
LEMMA NoCopyYet ==
  ASSUME NEW o, NEW a, a.script \in Rebuilds, NEW L, Migrating(o, a, L), ~Inside(a)
  PROVE  New[Subject(a.script)] \notin DOMAIN L.tables
<1>1. Subject(a.script) \in Rebuilt
  BY RebuildFacts
<1>2. InPlace(L, Subject(a.script), FirstIds(o, Subject(a.script)))
  BY <1>1 DEF Migrating, Where
<1>3. QED
  BY <1>2 DEF InPlace

\* No upgrade fails.
LEMMA NoneFails ==
  ASSUME NEW o, NEW a, a.script \in 0 .. SchemaVersion - 1, a.line \in 1 .. Len(Scripts[a.script]), Due(a),
         NEW s, s = Scripts[a.script][a.line], NEW L, IsLibrary(L), OnItsWay(a, L), Fit(o, a, L),
         a.stage = "initialize"
  PROVE  ~Fails(s, L)
<1> SUFFICES ASSUME Fails(s, L) PROVE FALSE
  OBVIOUS
<1>1. a.script \in Rebuilds
  BY WayFails
<1>2. Turning(a, L)
  BY <1>1 DEF OnItsWay
<1>3. /\ New[Subject(a.script)] \in DOMAIN L.tables
      /\ Inside(a) \/ (a.script = 24 /\ a.line = 2)
  BY <1>1, <1>2, RebuildFails
<1>4. Migrating(o, a, L) /\ a.script \in 1 .. SchemaVersion - 1
  BY <1>1, RebuildFacts DEF Fit
<1>5. Inside(a)
  BY <1>1, <1>3, <1>4, NoCopyYet
<1>6. QED
  BY <1>4, <1>5, RebuildHolds

\* A process stops or goes to a place where it has executed nothing yet.
LEMMA MoveExact ==
  ASSUME TypesInv, NEW p \in Processes, \A q \in Processes \ {p} : ~Opening(q),
         NEW b, at' = [at EXCEPT ![p] = b], writer' = NoProcess, lib' = lib, Tidy(lib),
         b.line = 1, b.seen = {}, b.script \in 0 .. SchemaVersion - 1, b.script # 0 => b.script = lib.version
  PROVE  Exact'
<1>1. at'[p] = b /\ \A q \in Processes \ {p} : at'[q] = at[q]
  BY DEF TypesInv, PlacesInv
<1>2. \A q \in Processes : Opening(q)' => q = p
  BY <1>1 DEF Opening
<1>3. Content' = lib
  BY DEF Content
<1>4. InTheOrder(b, lib)
  BY OrderStarts
<1>5. QED
  BY <1>1, <1>2, <1>3, <1>4 DEF Exact

\* A statement, the last of its script or another one.
LEMMA ExecuteExact ==
  ASSUME TypesInv, VersionsInv, Alone, Settled, Exact, NEW p \in Processes, Execute(p)
  PROVE  Exact'
<1> DEFINE a == at[p]
           s == Scripts[a.script][a.line]
           V == View(p)
           new == After(s, V)
           b == at'[p]
           opened == writer = p \/ s.op = "begin"
           ends == s.op \in {"version", "stamp", "commit"}
           seen == IF s.op = "look" THEN Seen(V, s.table) ELSE a.seen
<1>0. 0 \in 0 .. SchemaVersion - 1
  BY DEF SchemaVersion
<1>1. /\ Opening(p) /\ Due(a) /\ Underway(p)
  BY DEF Execute, Opening, Busy, VersionsInv, Alone
<1>2. /\ StartedPlace(a) /\ a.stage \in {"ensure", "initialize"} /\ IsLibrary(V) /\ IsLibrary(new)
      /\ a.script \in 0 .. SchemaVersion - 1 /\ a.line \in 1 .. Len(Scripts[a.script])
      /\ ~Fails(s, V)
      /\ \A q \in Processes \ {p} : at'[q] = at[q]
      /\ "never" \notin seen
      /\ \/ b = AfterScript(a) /\ a.line = Len(Scripts[a.script])
         \/ Further(a, b, seen)
  BY Executed
<1>3. /\ writer \in {p, NoProcess} /\ V = Content
      /\ \A q \in Processes \ {p} : ~Opening(q)
  BY <1>1, SoleHolder
<1>4. OnItsWay(a, V) /\ InTheOrder(a, V) /\ Fit(origin, a, V)
  BY <1>1, <1>3, Zenon DEF Underway, Exact, Settled
<1>5. \A q \in Processes : Opening(q)' => q = p
  BY <1>2, <1>3 DEF Opening
<1>6. /\ s = Scripts[a.script][a.line] /\ new = After(s, V)
      /\ seen = (IF s.op = "look" THEN Seen(V, s.table) ELSE a.seen)
  OBVIOUS
<1>. HIDE DEF a, s, V, new, b, opened, ends, seen
<1>7. /\ opened /\ ~ends => lib' = lib /\ writer' = p /\ draft' = new
      /\ ~(opened /\ ~ends) => lib' = new /\ writer' = NoProcess
      /\ Content' = new
  <2>1. s = Scripts[at[p].script][at[p].line] /\ new = After(s, View(p))
    BY DEF a, s, V, new
  <2>2. Leaves(p, s, new)
    BY <2>1, FileAfter
  <2>3. QED
    BY <2>2 DEF Leaves, StaysOpen, opened, ends
<1>8. ASSUME Further(a, b, seen) PROVE Exact'
  <2>1. a.script \in Rebuilds /\ a.line = MakeLine(a.script) => New[Subject(a.script)] \notin DOMAIN V.tables
    <3> SUFFICES ASSUME a.script \in Rebuilds, a.line = MakeLine(a.script)
                 PROVE  New[Subject(a.script)] \notin DOMAIN V.tables
      OBVIOUS
    <3>1. Migrating(origin, a, V)
      BY <1>4, RebuildFacts DEF Fit
    <3>2. ~Inside(a)
      <4>1. MakeLine(a.script) \in {2, 3}
        BY RebuildFacts
      <4>2. QED
        BY <4>1 DEF Inside
    <3>3. QED
      BY <3>1, <3>2, NoCopyYet
  <2>2. InTheOrder(b, new)
    BY ONLY <1>2, <1>4, <1>6, <1>8, <2>1, OrderOn
  <2>3. Opening(p)'
    BY <1>2, <1>8 DEF Further, Opening, Busy, b
  <2>4. QED
    BY <1>5, <1>7, <2>2, <2>3 DEF Exact, Idle, b
<1>9. ASSUME b = AfterScript(a), a.line = Len(Scripts[a.script]) PROVE Exact'
  <2>1. /\ s.op \in {"version", "stamp"} /\ (a.script # 0 => new.version = a.script + 1)
    BY ONLY <1>2, <1>4, <1>6, <1>9, WayEnds
  <2>2. Tidy(new)
    BY ONLY <1>2, <1>4, <1>6, <1>9, OrderEnds
  <2>3. lib' = new /\ Content' = new
    BY <1>7, <2>1 DEF ends
  <2>4. /\ b.line = 1 /\ b.seen = {} /\ b.script \in 0 .. SchemaVersion - 1
        /\ b.script # 0 => a.script # 0 /\ b.script = a.script + 1
    <3>1. \/ b.script = 0
          \/ b.script = a.script + 1 /\ a.script \notin {0, SchemaVersion - 1}
      BY <1>9 DEF AfterScript, Place
    <3>2. b.line = 1 /\ b.seen = {}
      BY <1>9 DEF AfterScript, Place
    <3>3. CASE b.script = 0
      BY <1>0, <3>2, <3>3
    <3>4. CASE b.script = a.script + 1 /\ a.script \notin {0, SchemaVersion - 1}
      <4>1. a.script \in 0 .. SchemaVersion - 1
        BY <1>2
      <4>2. b.script \in 0 .. SchemaVersion - 1 /\ a.script # 0
        BY ONLY <3>4, <4>1 DEF SchemaVersion
      <4>3. QED
        BY <3>2, <3>4, <4>2
    <3>5. QED
      BY ONLY <3>1, <3>3, <3>4
  <2>5. b.script # 0 => new.version = b.script
    BY <2>1, <2>4
  <2>6. InTheOrder(b, new)
    BY ONLY <2>2, <2>4, <2>5, OrderStarts
  <2>7. QED
    BY <1>5, <2>2, <2>3, <2>6 DEF Exact, b
<1>10. QED
  BY <1>2, <1>8, <1>9

LEMMA ExactStep ==
  TypesInv /\ VersionsInv /\ CalmInv /\ AloneInv /\ ExactInv /\ [Next]_vars => ExactInv'
<1> SUFFICES ASSUME TypesInv, VersionsInv, CalmInv, AloneInv, ExactInv, [Next]_vars, crashes' = 0, ~overlap'
             PROVE  Exact'
  BY DEF ExactInv
<1>0. 0 \in 0 .. SchemaVersion - 1
  BY DEF SchemaVersion
<1>1. CASE UNCHANGED vars
  BY <1>1 DEF vars, ExactInv, Exact, Idle, Opening, Content
<1>2. ASSUME NEW p \in Processes, NEW kind \in Kinds, Open(p, kind) PROVE Exact'
  <2> DEFINE b == Place(kind, IF kind = "upgrade --db" THEN "read" ELSE "ensure", 0)
  <2>1. /\ Exact /\ Idle /\ at' = [at EXCEPT ![p] = b] /\ lib' = lib /\ writer' = writer
    BY <1>2, Zenon DEF Open, ExactInv
  <2>2. writer = NoProcess /\ (\A q \in Processes : ~Opening(q)) /\ Tidy(lib)
    BY <2>1 DEF Idle, TypesInv, WriterInv, Opening, Busy, Exact
  <2>3. b.line = 1 /\ b.script = 0 /\ b.seen = {}
    BY DEF Place
  <2> HIDE DEF b
  <2>4. QED
    BY <1>0, <2>1, <2>2, <2>3, MoveExact
<1>3. ASSUME NEW p \in Processes, Opening(p), at[p].script = 0, Alone, Exact
      PROVE  /\ writer = NoProcess /\ Tidy(lib)
             /\ \A q \in Processes \ {p} : ~Opening(q)
  <2>1. ~Holding(at[p])
    BY <1>3 DEF Holding, InTransaction
  <2>2. writer = NoProcess /\ View(p) = lib /\ View(p) = Content /\ \A q \in Processes \ {p} : ~Opening(q)
    BY <1>3, <2>1, SoleHolder
  <2>3. InTheOrder(at[p], lib)
    BY <1>3, <2>2 DEF Exact
  <2>4. QED
    BY <1>3, <2>2, <2>3, SchemaKeepsOrder
<1>4. ASSUME NEW p \in Processes, ReadVersion(p) PROVE Exact'
  <2> DEFINE b == AfterVersion(at[p], lib.version)
  <2>1. /\ Alone /\ Exact /\ at[p].stage = "read" /\ at' = [at EXCEPT ![p] = b] /\ lib' = lib
        /\ writer' = writer
    BY <1>4 DEF ReadVersion, AloneInv, ExactInv
  <2>2. Opening(p)
    BY <2>1 DEF Opening, Busy
  <2>3. at[p].script = 0
    BY <2>1, <2>2, Zenon DEF Alone, Underway
  <2>4. writer = NoProcess /\ Tidy(lib) /\ \A q \in Processes \ {p} : ~Opening(q)
    BY <1>3, <2>1, <2>2, <2>3
  <2>5. lib.version \in 0 .. SchemaVersion
    BY DEF TypesInv, LibrariesInv, IsLibrary
  <2>6. /\ b.line = 1 /\ b.seen = {} /\ b.script \in 0 .. SchemaVersion - 1
        /\ b.script # 0 => b.script = lib.version
    BY <1>0, <2>5 DEF AfterVersion, Place, SchemaVersion
  <2> HIDE DEF b
  <2>7. QED
    BY <2>1, <2>4, <2>6, MoveExact
<1>5. ASSUME NEW p \in Processes, Execute(p) PROVE Exact'
  <2>1. Alone /\ Settled /\ Exact
    BY <1>5 DEF Execute, AloneInv, CalmInv, ExactInv
  <2>2. QED
    BY <1>5, <2>1, ExecuteExact
<1>6. ASSUME NEW p \in Processes, Raise(p) PROVE Exact'
  <2> DEFINE a == at[p]
             s == Scripts[a.script][a.line]
             V == View(p)
             b == Place(at[p].kind, IF at[p].stage = "ensure" /\ at[p].kind = "upgrade" THEN "read" ELSE "failed", 0)
  <2>1. /\ Alone /\ Settled /\ Exact /\ a.stage \in {"ensure", "initialize"} /\ Fails(s, V)
        /\ at' = [at EXCEPT ![p] = b] /\ lib' = lib
        /\ writer' = IF writer = p THEN NoProcess ELSE writer
    BY <1>6 DEF Raise, RollBack, AloneInv, CalmInv, ExactInv
  <2>2. Opening(p) /\ Due(a) /\ Underway(p)
    BY <2>1 DEF Opening, Busy, VersionsInv, Alone
  <2>3. a.stage # "initialize"
    <3> SUFFICES ASSUME a.stage = "initialize" PROVE FALSE
      OBVIOUS
    <3>1. a.script \in 0 .. SchemaVersion - 1 /\ a.line \in 1 .. Len(Scripts[a.script])
      BY DEF TypesInv, PlacesInv, StartedPlace
    <3>2. V = Content
      BY <2>1, <2>2, SoleHolder
    <3>3. IsLibrary(V) /\ OnItsWay(a, V) /\ Fit(origin, a, V)
      BY <2>1, <2>2, <3>2, ViewIsLibrary DEF Underway, Settled
    <3>4. s = Scripts[a.script][a.line] /\ a.stage = "initialize"
      OBVIOUS
    <3>. HIDE DEF a, s, V
    <3>5. QED
      BY ONLY <2>1, <2>2, <3>1, <3>3, <3>4, NoneFails
  <2>4. a.script = 0
    BY <2>2, <2>3, Zenon DEF Underway
  <2>5. writer = NoProcess /\ Tidy(lib) /\ \A q \in Processes \ {p} : ~Opening(q)
    BY <1>3, <2>1, <2>2, <2>4
  <2>6. b.line = 1 /\ b.script = 0 /\ b.seen = {} /\ writer' = NoProcess
    BY <2>1, <2>5 DEF Place
  <2> HIDE DEF a, s, V, b
  <2>7. QED
    BY <1>0, <2>1, <2>5, <2>6, MoveExact
<1>7. ASSUME NEW p \in Processes, Crash(p) PROVE Exact'
  <2>1. crashes' = crashes + 1 /\ crashes \in Nat
    BY <1>7 DEF Crash, TypesInv, CountsInv
  <2>2. QED
    BY <2>1
<1>8. QED
  BY <1>1, <1>2, <1>4, <1>5, <1>6, <1>7 DEF Next

\* What an upgrade opens when no process has died has its indexes too.
LEMMA LastIsComplete ==
  ASSUME NEW L, Sane(L), Tidy(L), LastColumns(L)
  PROVE  \A t \in DOMAIN Since : L.tables[t].cols = ColsOf(SchemaVersion, t)
<1> SUFFICES ASSUME NEW t \in DOMAIN Since PROVE L.tables[t].cols = ColsOf(SchemaVersion, t)
  OBVIOUS
<1>1. L.version = SchemaVersion /\ L.version # 0 /\ t \in TablesOf(SchemaVersion)
  BY LastVersion DEF LastColumns
<1>2. ColsOf(SchemaVersion, t) \subseteq L.tables[t].cols
  BY <1>1 DEF Tidy, Has
<1>3. L.tables[t].cols \subseteq Final(t)
  <2>1. t \in DOMAIN L.tables /\ NameOf(t) = t
    BY NamesOf DEF LastColumns
  <2>2. QED
    BY <2>1 DEF Sane, Plausible, PlausibleTable
<1>4. ColsOf(SchemaVersion, t) = Final(t)
  BY LastVersion
<1>5. QED
  BY ONLY <1>2, <1>3, <1>4

LEMMA OpensAsNew ==
  ASSUME TypesInv, VersionsInv, CalmInv, AloneInv, ExactInv, [Next]_vars, ~overlap,
         NEW p \in Processes, Ends(p, "open")
  PROVE  OpensCurrent(p)
<1>1. ReadVersion(p) \/ Execute(p)
  BY StepsEnd
<1>2. Alone /\ Opening(p)
  BY DEF AloneInv, Ends
<1>3. /\ at[p].kind = "command" => Furnished(lib')
      /\ at[p].kind # "command" => LastColumns(lib')
  BY <1>1, <1>2, OpensWithColumns
<1>4. CASE at[p].kind = "command"
  <2>1. ASSUME NEW t \in DOMAIN Since
        PROVE  (ColsOf(SchemaVersion, t) \ Indexes) \ TableOf(lib', t).cols
                 \subseteq {"fk_job", "prune", "container_tags"}
    <3>1. Final(t) \ Indexes \subseteq TableOf(lib', t).cols \cup {"fk_job", "prune", "container_tags"}
      BY <1>3, <1>4 DEF Furnished
    <3>2. ColsOf(SchemaVersion, t) = Final(t)
      BY LastVersion
    <3>3. QED
      BY ONLY <3>1, <3>2
  <2>2. QED
    BY <1>4, <2>1 DEF OpensCurrent
<1>5. CASE at[p].kind # "command"
  <2>1. LastColumns(lib')
    BY <1>3, <1>5
  <2>2. ASSUME crashes = 0 PROVE \A t \in DOMAIN Since : lib'.tables[t].cols = ColsOf(SchemaVersion, t)
    <3>1. crashes' = crashes /\ overlap' = overlap
      BY <1>1, Zenon DEF ReadVersion, Execute
    <3>2. Alone' /\ Exact'
      BY <2>2, <3>1, AloneStep, ExactStep DEF AloneInv, ExactInv
    <3>3. Idle'
      <4>1. \A q \in Processes \ {p} : ~Opening(q)
        BY <1>2, SoleHolder
      <4>2. \A b : at' = [at EXCEPT ![p] = b] => \A q \in Processes \ {p} : at'[q] = at[q]
        BY DEF TypesInv, PlacesInv
      <4>3. \A q \in Processes \ {p} : at'[q] = at[q]
        BY <1>1, <4>2, Zenon DEF ReadVersion, Execute
      <4>4. at'[p].stage = "open"
        BY DEF Ends
      <4>5. QED
        BY <4>1, <4>3, <4>4 DEF Idle, Opening, Busy
    <3>4. Sane(lib') /\ Tidy(lib')
      BY <3>2, <3>3 DEF Alone, Exact
    <3>5. QED
      BY <2>1, <3>4, LastIsComplete
  <2>3. /\ lib'.version = SchemaVersion
        /\ \A t \in DOMAIN Since : /\ t \in DOMAIN lib'.tables
                                   /\ lib'.tables[t].cols \ Indexes = ColsOf(SchemaVersion, t) \ Indexes
    BY <2>1 DEF LastColumns
  <2>4. QED
    BY <1>5, <2>2, <2>3 DEF OpensCurrent
<1>6. QED
  BY <1>4, <1>5

\* How opening the library ends when no other process does so.  An upgrade
\* opens it with every column of a new one, and with every index when no
\* process has died, wherever the library came from and wherever earlier ones
\* were cut; it fails only at the copy that a rebuild has left which is not one
\* transaction.  What a command opens lacks at most what the last three
\* migrations add.
THEOREM UpgradesEndWell == Spec => UpgradesEnd
<1> DEFINE Inv == TypesInv /\ VersionsInv /\ CalmInv /\ AloneInv /\ ExactInv
           EndsWell == ~overlap => \A p \in Processes :
                         /\ Ends(p, "open") => OpensCurrent(p)
                         /\ Ends(p, "failed") /\ at[p].kind # "command" => MeetsLeftover
<1>1. Inv /\ [Next]_vars => [EndsWell]_vars
  <2> SUFFICES ASSUME Inv, [Next]_vars, ~overlap, NEW p \in Processes
               PROVE  /\ Ends(p, "open") => OpensCurrent(p)
                      /\ Ends(p, "failed") /\ at[p].kind # "command" => MeetsLeftover
    OBVIOUS
  <2>1. ASSUME Ends(p, "open") PROVE OpensCurrent(p)
    BY <2>1, OpensAsNew
  <2>2. ASSUME Ends(p, "failed"), at[p].kind # "command" PROVE MeetsLeftover
    <3>1. Raise(p)
      BY <2>2, StepsEnd
    <3>2. Alone /\ at'[p].stage = "failed"
      BY <2>2 DEF AloneInv, Ends
    <3>3. QED
      BY <2>2, <3>1, <3>2, FailsAtLeftover
  <2>3. QED
    BY <2>1, <2>2
<1>2. Spec => []Inv
  BY TypesInit, TypesStep, VersionsInit, VersionsStep, CalmInit, CalmStep, AloneInit, AloneStep,
     ExactInit, ExactStep, PTL DEF Spec
<1>3. Spec => [][EndsWell]_vars
  BY <1>1, <1>2, PTL DEF Spec
<1>4. QED
  BY <1>3 DEF UpgradesEnd
=============================================================================
