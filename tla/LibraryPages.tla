---------------------------- MODULE LibraryPages ----------------------------
(***************************************************************************)
(* The library while it is looked at: a browser that turns the pages of a  *)
(* list, a workflow that records its statistics, somebody who purges       *)
(* statistics, and the scans, analyses and jobs that change the tables     *)
(* between one request and the next.  Every action is one transaction; the *)
(* scans and jobs behind the writes are those of Library and JobQueue.     *)
(* The properties relate the answers of different views to one another.    *)
(***************************************************************************)
EXTENDS ReportCommands

CONSTANTS
    InitialDb,      \* the tables at the start
    Paths,          \* of films that are, or may get, in the library
    Contents,       \* what a scan finds in a file: its size, hash, container, tracks
    Languages,      \* that a transcription hears
    PhaseMetrics,   \* the metrics a phase gives: its name, and of its transcode
    Outcomes,       \* what is found after a run: size, tracks, success
    Walks,          \* lists that are paged through: which, with what query and page size
    PurgeOptions,   \* what the purge commands are given; a time is counted back from now
    MaxClock        \* bound on the writes of a behaviour

\* The columns that are written one at a time, and what every row of the tables has.
FileFields == {"id", "name", "path", "size", "hash", "container", "status", "scanned",
               "job", "plugins", "tracks"}
JobFields == {"id", "file", "path", "type", "status", "created", "started", "completed",
              "policy", "codec", "summary", "affected"}
JobTypes == {"apply", "move", "process", "prune", "scan", "transcode"}

FileRow(f) ==
    /\ DOMAIN f = FileFields
    /\ f.id \in Nat /\ f.path \in Int /\ f.name = f.path
    /\ f.status \in FileStatuses /\ f.scanned \in Nat
JobRow(j, now) ==
    /\ DOMAIN j = JobFields
    /\ j.id \in Nat /\ j.path \in Int /\ j.type \in JobTypes /\ j.status \in JobStatuses
    /\ j.created \in Nat /\ j.created <= now
    /\ j.completed # Null => j.completed \in Nat /\ j.created <= j.completed /\ j.completed <= now
PlanRow(p) ==
    /\ DOMAIN p = {"id", "policy", "status", "created"}
    /\ p.id \in Nat /\ p.created \in Nat

\* Primary keys and foreign keys; every metric row is of a row of the statistics.
Keyed(rows) ==
    /\ IsFiniteSet(rows)
    /\ \A r \in rows : r.id \in Nat
    /\ \A r, s \in rows : r.id = s.id => r = s
Tables(d, now) ==
    /\ DOMAIN d = {"files", "jobs", "plans", "stats", "metrics", "snapshots"}
    /\ Keyed(d.files) /\ Keyed(d.jobs) /\ Keyed(d.plans) /\ Keyed(d.stats)
    /\ \A f \in d.files : FileRow(f)
    /\ \A j \in d.jobs : JobRow(j, now)
    /\ \A p \in d.plans : PlanRow(p)
    /\ {s.file : s \in d.stats} \subseteq {f.id : f \in d.files}
    /\ {m.stats : m \in d.metrics} \subseteq {s.id : s \in d.stats}

ASSUME TablesAssumption == Tables(InitialDb, 1) /\ Paths \subseteq Int /\ MaxClock \in Nat \ {0}

\* A list, a query that the API takes, and the size of its pages.
ASSUME WalksAssumption ==
    \A w \in Walks :
      /\ DOMAIN w = {"list", "q", "size"}
      /\ w.size \in 1 .. ApiMaxPage
      /\ \/ /\ w.list = "files"
            /\ DOMAIN w.q = {"status", "search", "resolution", "audioLang", "subtitles",
                             "limit", "offset"}
         \/ w.list = "transcriptions" /\ DOMAIN w.q = {"showAll", "limit", "offset"}
         \/ /\ w.list = "jobs"
            /\ DOMAIN w.q = {"status", "type", "since", "search", "by", "ascending",
                             "limit", "offset"}
            /\ w.q.status \in {Null} \union JobStatuses /\ w.q.type \in {Null} \union JobTypes
            /\ w.q.since # Unreadable
         \/ /\ w.list = "plans"
            /\ DOMAIN w.q = {"status", "since", "policy", "limit", "offset"}
            /\ w.q.status \in {Null, "pending", "approved", "rejected", "applied", "canceled"}
            /\ w.q.since # Unreadable
         \/ w.list = "plugin" /\ DOMAIN w.q = {"plugin", "limit", "offset"}

VARIABLES
    db,             \* the tables
    clock,          \* the time; each write is later than those before
    client,         \* the browser, its list, and what became of the rows on it
    run,            \* the run of a workflow that collects statistics
    purge           \* a purge that waits for a confirmation, and what the last one told

pagesVars == <<db, clock, client, run, purge>>

-----------------------------------------------------------------------------
(* Lists.                                                                  *)

\* All rows of the list that a walk is about.
WholeList(d, w) ==
    CASE w.list = "files"          -> FilesList(d, LibraryQuery(w.q))
      [] w.list = "transcriptions" -> TranscriptionsList(d, w.q.showAll)
      [] w.list = "jobs"           -> JobsList(d, w.q)
      [] w.list = "plans"          -> PlansList(d, w.q)
      [] w.list = "plugin"         -> PluginList(d, w.q.plugin)

\* A page of it, as the browser is given it.
Fetched(d, w, offset) ==
    LET q == [w.q EXCEPT !.limit = w.size, !.offset = offset]
    IN  CASE w.list = "files"          -> ApiLibrary(d, q)
          [] w.list = "transcriptions" -> ApiTranscriptions(d, q)
          [] w.list = "jobs"           -> ApiJobs(d, q)
          [] w.list = "plans"          -> ApiPlans(d, q)
          [] w.list = "plugin"         -> ApiPluginFiles(d, q.plugin, q)

\* Where a row is in the order of its list, the greater the nearer to the first: films go
\* by their last scan, and jobs may go by what they took or by their status; other rows
\* keep their place.
JobPlace(row, by, ascending) ==
    CASE by = "duration" -> IF Duration(row) = Null THEN 0
                            ELSE IF ascending THEN 1 + MaxClock - Duration(row)
                            ELSE 1 + Duration(row)
      [] by = "status"   -> IF ascending THEN 0 - Alphabetical(row.status)
                            ELSE Alphabetical(row.status)
      [] OTHER           -> 0
Place(w, row) ==
    CASE w.list = "files" -> row.scanned
      [] w.list = "jobs"  -> JobPlace(row, w.q.by, w.q.ascending)
      [] OTHER            -> 0
Places(d, w) ==
    LET rows == Range(WholeList(d, w))
    IN  [id \in {r.id : r \in rows} |-> Place(w, Unique(RowWith(rows, id)))]

\* What a write does to the rows the browser has not seen yet.
Watched(d) ==
    IF client.stage # "reading" THEN client
    ELSE LET was == Places(db, client.walk)
             is  == Places(d, client.walk)
         IN  [client EXCEPT
                !.watch = {id \in @ : id \in DOMAIN is /\ is[id] = was[id]},
                !.sunk = @ \/ \E id \in DOMAIN was : id \notin DOMAIN is \/ is[id] < was[id]]

-----------------------------------------------------------------------------
PagesInit ==
    /\ db = InitialDb
    /\ clock = 1
    /\ client = [stage |-> "idle", walk |-> Null, offset |-> 0, total |-> 0,
                 seen |-> {}, watch |-> {}, sunk |-> FALSE]
    /\ run = [stage |-> "idle", capture |-> Null, record |-> Null,
              nr |-> Max({0} \union {s.id : s \in InitialDb.stats})]
    /\ purge = [stage |-> "idle", by |-> Null, counted |-> {}, told |-> Null]

Change(d) ==
    /\ clock < MaxClock
    /\ clock' = clock + 1
    /\ db' = d
    /\ client' = Watched(d)

NextId(rows) == 1 + Max({0} \union {r.id : r \in rows})
SetRow(rows, row) == (rows \ RowWith(rows, row.id)) \union {row}

-----------------------------------------------------------------------------
(* Scans and analyses.                                                     *)

\* The tracks of a film keep their ids by index, and with them what was heard and
\* concluded of them; a file in which no track is found keeps those it had.
Retracked(old, new) ==
    IF new = << >> THEN old
    ELSE [i \in DOMAIN new |->
            [heard |-> IF i \in DOMAIN old THEN old[i].heard ELSE Null,
             verdict |-> IF i \in DOMAIN old THEN old[i].verdict ELSE Null] @@ new[i]]

\* A scan that began now or before the last write comes to a file.  upsert_file() keeps
\* the job that scanned a film first, and forgets what plugins said of it.
Scanned(path, at, content, job) ==
    LET known == {f \in db.files : f.path = path}
        id    == IF known = {} THEN NextId(db.files) ELSE Unique(known).id
        old   == IF known = {} THEN << >> ELSE Unique(known).tracks
        first == IF known = {} THEN Null ELSE Unique(known).job
        fails == content.tracks = Null
    IN  [id |-> id, name |-> path, path |-> path, scanned |-> at, plugins |-> {},
         job |-> IF first = Null THEN job ELSE first, size |-> content.size,
         hash |-> content.hash, status |-> IF fails THEN "error" ELSE "ok",
         container |-> IF fails THEN Null ELSE content.container,
         tracks |-> IF fails THEN old ELSE Retracked(old, content.tracks)]

Scan(path) ==
    \E content \in Contents, at \in {clock, clock + 1}, j \in db.jobs :
      /\ j.type = "scan" /\ j.status = "running"
      /\ Change([db EXCEPT !.files = SetRow(@, Scanned(path, at, content, j.id))])
      /\ UNCHANGED <<run, purge>>

MarkMissing(f) ==
    /\ f.status # "missing"
    /\ Change([db EXCEPT !.files = SetRow(@, [f EXCEPT !.status = "missing"])])
    /\ UNCHANGED <<run, purge>>

Prune ==
    /\ PrunePreview(db).count > 0
    /\ Change(DeleteFiles(db, {f \in db.files : f.status = "missing"}))
    /\ UNCHANGED <<run, purge>>

\* A transcription and a language analysis of an audio track.
Transcribe(f, i) ==
    \E language \in Languages :
      /\ f.tracks[i].heard # language
      /\ Change([db EXCEPT !.files = SetRow(@, [f EXCEPT !.tracks[i].heard = language])])
      /\ UNCHANGED <<run, purge>>

Analyze(f, i) ==
    \E verdict \in Verdicts :
      /\ f.tracks[i].verdict # verdict
      /\ Change([db EXCEPT !.files = SetRow(@, [f EXCEPT !.tracks[i].verdict = verdict])])
      /\ UNCHANGED <<run, purge>>

\* _capture_library_snapshot(), at the end of a scan.
Snapshot ==
    LET info == LibraryInfo(db)
    IN  /\ Change([db EXCEPT !.snapshots = @ \union
             {[at |-> clock + 1, files |-> info.totalFiles, size |-> info.totalSize,
               missing |-> info.files["missing"], errors |-> info.files["error"]]}])
        /\ UNCHANGED <<run, purge>>

-----------------------------------------------------------------------------
(* Jobs and plans.                                                         *)

StartJob(j) ==
    /\ j.status = "queued"
    /\ Change([db EXCEPT !.jobs = SetRow(@, [j EXCEPT !.status = "running", !.started = clock + 1])])
    /\ UNCHANGED <<run, purge>>

EndJob(j) ==
    \E status \in {"completed", "failed"} :
      /\ j.status = "running"
      /\ Change([db EXCEPT !.jobs = SetRow(@, [j EXCEPT !.status = status,
                                                        !.completed = clock + 1])])
      /\ UNCHANGED <<run, purge>>

AddJob(f) ==
    /\ Change([db EXCEPT !.jobs = @ \union
         {[id |-> NextId(@), file |-> f.id, path |-> f.path, type |-> "transcode",
           status |-> "queued", created |-> clock + 1, started |-> Null, completed |-> Null,
           policy |-> Null, codec |-> "hevc", summary |-> << >>, affected |-> << >>]}])
    /\ UNCHANGED <<run, purge>>

\* purge_old_jobs(), by a worker that begins or a command that ends: what was made before
\* the last write and is settled goes.
PurgeJobs ==
    /\ OldJobs(db, clock) # {}
    /\ Change([db EXCEPT !.jobs = @ \ OldJobs(db, clock)])
    /\ UNCHANGED <<run, purge>>

DecidePlan(p) ==
    \E status \in {"approved", "rejected"} :
      /\ p.status = "pending"
      /\ Change([db EXCEPT !.plans = SetRow(@, [p EXCEPT !.status = status])])
      /\ UNCHANGED <<run, purge>>

-----------------------------------------------------------------------------
(* The workflow.                                                           *)

BeginRun(f, policy) ==
    /\ run.stage = "idle"
    /\ run' = [run EXCEPT !.stage = "captured", !.capture = CaptureBefore(f, policy, f.size),
                          !.nr = @ + 1]
    /\ UNCHANGED <<db, clock, client, purge>>

EndPhase ==
    /\ run.stage = "captured"
    /\ \E phase \in PhaseMetrics :
         /\ phase.name \notin Range(run.capture.phases)
         /\ run' = [run EXCEPT !.capture = CapturePhase(@, phase)]
    /\ UNCHANGED <<db, clock, client, purge>>

\* persist() stamps the record, and then waits for its turn to write.
EndRun ==
    /\ run.stage = "captured"
    /\ run.capture.phases # << >>
    /\ \E o \in Outcomes :
         run' = [run EXCEPT !.stage = "stamped",
                            !.record = StatsRecord(run.capture, run.nr, clock, o.size, o.tracks, o.ok)]
    /\ UNCHANGED <<db, clock, client, purge>>

PersistRun ==
    /\ run.stage = "stamped"
    /\ Change(Persist(db, run.record, run.capture.phases))
    /\ run' = [run EXCEPT !.stage = "idle", !.capture = Null, !.record = Null]
    /\ UNCHANGED purge

-----------------------------------------------------------------------------
(* Purging statistics.                                                     *)

\* A relative time is counted back from the moment of the command.
PurgeNow(o) == PurgeOf([o EXCEPT !.before = IF @ \in {Null, Unreadable} THEN @ ELSE clock - @])

\* `vpo report purge` counts, and asks if there is something to delete.
AskPurge(o) ==
    /\ purge.stage = "idle"
    /\ LET by == PurgeNow(o)
       IN  /\ by # Refused
           /\ Purged(db, by) # {}
           /\ purge' = [stage |-> "asked", by |-> by, counted |-> Purged(db, by), told |-> Null]
    /\ UNCHANGED <<db, clock, client, run>>

\* It deletes by the same condition, not the rows it counted.
ConfirmPurge ==
    /\ purge.stage = "asked"
    /\ LET rows == Purged(db, purge.by)
       IN  /\ Change(DeleteStats(db, rows))
           /\ purge' = [stage |-> "idle", by |-> Null, counted |-> {}, told |-> Cardinality(rows)]
    /\ UNCHANGED run

\* With --yes it does not ask, and there may be nothing to delete.
PurgeAtOnce(o) ==
    /\ purge.stage = "idle"
    /\ PurgeNow(o) # Refused
    /\ LET rows == Purged(db, PurgeNow(o))
       IN  /\ Change(DeleteStats(db, rows))
           /\ purge' = [purge EXCEPT !.told = Cardinality(rows)]
    /\ UNCHANGED run

CancelPurge ==
    /\ purge.stage = "asked"
    /\ purge' = [stage |-> "idle", by |-> Null, counted |-> {}, told |-> Null]
    /\ UNCHANGED <<db, clock, client, run>>

\* DELETE /api/stats/purge.  The query commits inside the pool's transaction, whose own
\* COMMIT then finds none and raises: the rows are gone and the answer is an error.
ApiPurge(o) ==
    /\ purge.stage = "idle"
    /\ PurgeNow(o) # Refused
    /\ Change(DeleteStats(db, Purged(db, PurgeNow(o))))
    /\ purge' = [purge EXCEPT !.told = Refused]
    /\ UNCHANGED run

-----------------------------------------------------------------------------
(* The browser.                                                            *)

OpenList(w) ==
    /\ client.stage = "idle"
    /\ LET page == Fetched(db, w, 0)
       IN  client' = [stage |-> "reading", walk |-> w, offset |-> 0, total |-> page.total,
                      seen |-> Range(Ids(page.rows)), watch |-> DOMAIN Places(db, w),
                      sunk |-> FALSE]
    /\ UNCHANGED <<db, clock, run, purge>>

\* The button for the next page works while the total of the last answer says there is
\* one.
NextPage ==
    /\ client.stage = "reading"
    /\ client.offset + client.walk.size < client.total
    /\ LET page == Fetched(db, client.walk, client.offset + client.walk.size)
       IN  client' = [client EXCEPT !.offset = @ + client.walk.size, !.total = page.total,
                                    !.seen = @ \union Range(Ids(page.rows))]
    /\ UNCHANGED <<db, clock, run, purge>>

LastPage ==
    /\ client.stage = "reading"
    /\ client.offset + client.walk.size >= client.total
    /\ client' = [client EXCEPT !.stage = "done"]
    /\ UNCHANGED <<db, clock, run, purge>>

-----------------------------------------------------------------------------
PagesNext ==
    \/ \E path \in Paths : Scan(path)
    \/ \E f \in db.files : MarkMissing(f)
    \/ Prune
    \/ \E f \in db.files : \E i \in TracksOf(f, "audio") : Transcribe(f, i) \/ Analyze(f, i)
    \/ Snapshot
    \/ \E j \in db.jobs : StartJob(j) \/ EndJob(j)
    \/ \E f \in db.files : AddJob(f)
    \/ PurgeJobs
    \/ \E p \in db.plans : DecidePlan(p)
    \/ \E f \in db.files, policy \in {s.policy : s \in InitialDb.stats} : BeginRun(f, policy)
    \/ EndPhase
    \/ EndRun
    \/ PersistRun
    \/ \E o \in PurgeOptions : AskPurge(o) \/ PurgeAtOnce(o) \/ ApiPurge(o)
    \/ ConfirmPurge
    \/ CancelPurge
    \/ \E w \in Walks : OpenList(w)
    \/ NextPage
    \/ LastPage

PagesSpec == PagesInit /\ [][PagesNext]_pagesVars

-----------------------------------------------------------------------------
(* Properties.                                                             *)

PagesTypeOK ==
    /\ clock \in 1 .. MaxClock
    /\ client.stage \in {"idle", "reading", "done"}
    /\ run.stage \in {"idle", "captured", "stamped"}
    /\ purge.stage \in {"idle", "asked"}
    /\ Tables(db, clock)

\* Turning the pages of a list from the first to the last shows every row that was on it
\* at the start and stayed there untouched, whatever was scanned, added or finished
\* between two pages, unless a row left the list or sank in it: only that moves rows to
\* a page already read.
PagesKeepRows ==
    /\ PagesTypeOK
    /\ client.stage = "done" /\ ~client.sunk => client.watch \subseteq client.seen

SumOf(list, field) == FoldLeft(LAMBDA sum, row : sum + row[field], 0, list)
AllTime == [since |-> Null, until |-> Null, policy |-> Null]
EveryRow == [since |-> Null, until |-> Null, limit |-> Null, noLimit |-> TRUE,
             output |-> FALSE, force |-> FALSE, type |-> Null, status |-> Null,
             resolution |-> Null, language |-> Null, hasSubtitles |-> FALSE,
             noSubtitles |-> FALSE, codec |-> Null, policy |-> Null, verbose |-> FALSE]

\* The statistics of all time are those of the policies together, if no policy is beyond
\* the page, those of the points of each chart, and those before and after any moment;
\* the history is a line for each run, up to its limit, and that of a film the first page
\* of its lines.
StatsAddUp(d) ==
    LET all      == ApiSummary(d, AllTime).totals
        policies == ApiPolicies(d, AllTime)
        names    == {s.policy : s \in d.stats}
        history(n) == ReportHistory(d, [limit |-> n, policy |-> Null])
        before(t) == ReportSummary(d, [AllTime EXCEPT !.until = t]).totals
        since(t)  == ReportSummary(d, [AllTime EXCEPT !.since = t]).totals
    IN  /\ Len(policies) = Min({DefaultPage, Cardinality(names)})
        /\ \A field \in DOMAIN all :
             /\ Cardinality(names) <= DefaultPage =>
                  all[field] = SumOf([i \in DOMAIN policies |-> policies[i].totals], field)
             /\ \A t \in 1 .. MaxClock : all[field] = before(t - 1)[field] + since(t)[field]
        /\ all.saved = all.before - all.after
        /\ \A i \in DOMAIN policies :
             policies[i] = ApiPolicy(d, [AllTime EXCEPT !.policy = policies[i].policy])
        /\ \A group \in {"day", "week", "month"} :
             LET points == ApiTrends(d, [since |-> Null, group |-> group])
             IN  \A field \in {"files", "saved", "successful", "failed"} :
                   SumOf(points, field) = all[field]
        /\ \A n \in 1 .. MaxPage : Len(history(n)) = Min({n, all.files})
        /\ all.files <= MaxPage => \A f \in d.files :
             ReportFile(d, f.path) =
               Page(SelectSeq(history(MaxPage), LAMBDA s : s.file = f.id), DefaultPage, 0)

\* The library page, `vpo db info`, the language status, the charts and `vpo report
\* library` count the same films and tracks.  `vpo db missing` and the films that wait
\* for an analysis are lists with a limit: what they say is of all films while they are
\* shorter than it, and of as many as it allows otherwise.
LibraryAddsUp(d) ==
    LET info     == DbInfo(d)
        pending(n) == AnalyzeStatus(d, [path |-> Null, filter |-> "pending", limit |-> n])
        summary  == pending(MaxPage).summary
        report(r) == Range(ReportLibrary(d, [EveryRow EXCEPT !.resolution = r], Null).said)
        charts   == ApiDistribution(d)
        ok       == {f \in d.files : f.status = "ok"}
    IN  /\ info.totalFiles = MapThenSumSet(LAMBDA s : info.files[s], FileStatuses)
        /\ info.files["missing"] = PrunePreview(d).count
        /\ \A n \in 1 .. MaxPage :
             DbMissing(d, [limit |-> n]).total = Min({n, info.files["missing"]})
        /\ info.files["ok"] = Cardinality(report(Null))
        /\ report(Null) = UNION {report(r) : r \in {"4k", "1080p", "720p", "480p", "SD", "unknown"}}
        /\ info.tracks["audio"] = summary.totalTracks
        /\ info.tracks["audio"] = MapThenSumSet(LAMBDA f : Cardinality(DOMAIN
             AnalyzeStatus(d, [path |-> f.path, filter |-> "all", limit |-> MaxPage])), d.files)
        /\ summary.analyzed = summary.single + summary.multi
        /\ \A n \in 1 .. MaxPage :
             LET waiting == SumOf(pending(n).files, "tracks") - SumOf(pending(n).files, "analyzed")
             IN  IF Len(pending(n).files) < n THEN summary.pending = waiting
                 ELSE summary.pending >= waiting
        /\ MapThenSumSet(LAMBDA c : charts.audioCodecs[c], DOMAIN charts.audioCodecs)
             = MapThenSumSet(LAMBDA f : Cardinality({i \in TracksOf(f, "audio") :
                               f.tracks[i].codec \notin {Null, ""}}), ok)

\* A group of duplicates has all films of its content, each in one group, unless another
\* content ties with it in count and size.
DuplicatesWhole(d) ==
    LET groups == DbDuplicates(d, [limit |-> DefaultPage])
        tie(g, h) == g.hash # h.hash /\ g.count = h.count /\ g.totalSize = h.totalSize
    IN  \A g \in groups :
          (~\E h \in groups : tie(g, h)) =>
            g.paths = {f.path : f \in {e \in d.files : e.hash = g.hash}}

\* The reports of jobs have the jobs of the jobs page, each kind its own, and what a
\* transcode is said to have saved is what a run on its film recorded.
ReportsAgree(d) ==
    LET rows  == ReportJobs(d, EveryRow, Null).said
        kinds == {r.type : r \in Range(rows)}
        lines == ReportTranscodes(d, clock, EveryRow, Null).said
    IN  /\ Len(rows) = ApiJobs(d, [status |-> Null, type |-> Null, since |-> Null, search |-> Null,
                                   by |-> "status", ascending |-> TRUE, limit |-> Null,
                                   offset |-> Null]).total
        /\ Len(rows) = VpoJobsStatus(d).total
        /\ Len(rows) = MapThenSumSet(LAMBDA s : VpoJobsStatus(d)[s], JobStatuses)
        /\ \A n \in 1 .. MaxLimit : Page(Ids(rows), n, 0) =
             Ids(VpoJobsList(d, [status |-> Null, type |-> Null, since |-> Null, limit |-> n]))
        /\ \A j \in Range(rows) : VpoJobsShow(d, {j.id}) = ApiJob(d, j.id)
        /\ Len(rows) = MapThenSumSet(LAMBDA k :
             Len(ReportJobs(d, [EveryRow EXCEPT !.type = k], Null).said), kinds)
        /\ Len(lines) = Len(ReportJobs(d, [EveryRow EXCEPT !.type = "transcode"], Null).said)
        /\ \A i \in DOMAIN lines : lines[i].change # Null =>
             \E s \in d.stats, j \in RowWith(d.jobs, lines[i].id) :
               s.file = j.file /\ s.change = lines[i].change
        /\ Len(ReportScans(d, EveryRow, Null).said)
             = Len(ReportJobs(d, [EveryRow EXCEPT !.type = "scan"], Null).said)
        /\ SumOf(ReportPolicyApply(d, EveryRow, Null).said, "files")
             = Len(ReportPolicyApply(d, [EveryRow EXCEPT !.verbose = TRUE], Null).said)

\* The figures that different views, reports and handlers give of the same tables agree,
\* whatever was written, and those of a list that is cut by its limit are those of its
\* first rows.  They are functions of the tables alone, so they are looked at while
\* nobody is halfway through a list, a run or a purge.
FiguresAgree ==
    client.stage = "idle" /\ run.stage = "idle" /\ purge.stage = "idle" =>
        StatsAddUp(db) /\ LibraryAddsUp(db) /\ DuplicatesWhole(db) /\ ReportsAgree(db)

\* The statistics of a run are there with all its phases or not at all, and what is
\* written of films or runs takes only those whose film goes, with all that hangs on them.
RecordsWhole ==
    [][ /\ {m.stats : m \in db'.metrics} \subseteq {s.id : s \in db'.stats}
        /\ {s.file : s \in db'.stats} \subseteq {f.id : f \in db'.files}
        /\ \A s \in db'.stats :
             IF s \in db.stats THEN MetricsOf(db', s.id) = MetricsOf(db, s.id)
             ELSE s = run.record /\ MetricsOf(db', s.id) = run.capture.phases
        /\ db'.files # db.files \/ run' # run =>
             \A s \in db.stats \ db'.stats : RowWith(db'.files, s.file) = {} ]_pagesVars

\* A confirmed purge says how many rows it deleted and deletes nothing else.  By age it
\* deletes every row it had counted that is still there, and of the others only those
\* that a run had stamped when the question was asked.
PurgeTells ==
    [][ purge.stage = "asked" /\ db' # db /\ purge'.stage = "idle" =>
          LET gone == db.stats \ db'.stats
          IN  /\ purge'.told = Cardinality(gone)
              /\ db' = [db EXCEPT !.stats = @ \ gone,
                                  !.metrics = {m \in @ : RowWith(db'.stats, m.stats) # {}}]
              /\ purge.counted \intersect db.stats \subseteq gone
              /\ purge.by.kind = "before" => \A s \in gone : s.at < purge.by.at ]_pagesVars
=============================================================================
