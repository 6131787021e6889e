--------------------------- MODULE ReportCommands ---------------------------
(***************************************************************************)
(* Who asks for these figures: the commands of `vpo report`, `vpo db` and  *)
(* `vpo analyze status`, and the handlers of the HTTP API.  An operator    *)
(* gives the answer to the options o of a command, or to the query q of a  *)
(* request, out of one snapshot db; Refused is any error.  Each request is *)
(* one transaction of the pool, and each of these commands one or two      *)
(* statements.  Unreadable is a time the parser at hand does not take: for *)
(* the API anything but a few words such as 24h, 7d and 30d.               *)
(***************************************************************************)
EXTENDS Reports

CONSTANTS Refused, Unreadable, RecentPage

ASSUME RecentAssumption == RecentPage \in 1 .. ApiMaxPage

-----------------------------------------------------------------------------
(* Reports as files.                                                       *)

EffectiveLimit(o) == IF o.noLimit THEN Null ELSE o.limit

\* TimeFilter.from_strings() takes a range that is not the wrong way round.
TimeFilter(o) ==
    /\ Unreadable \notin {o.since, o.until}
    /\ o.since # Null /\ o.until # Null => o.since <= o.until

ReportAccepted(o) == TimeFilter(o) /\ Accepted(EffectiveLimit(o))

\* write_report_to_file(): the whole report under its name, or nothing.
WriteReport(rows, old, force) ==
    IF old # Null /\ ~force THEN [said |-> Refused, file |-> old]
    ELSE [said |-> << >>, file |-> rows]

\* output_report(): what is said and what the output file holds then.  A report without
\* rows is a message, and leaves the file of an earlier report as it is.
OutputReport(rows, o, old) ==
    CASE rows = << >> -> [said |-> << >>, file |-> old]
      [] ~o.output    -> [said |-> rows, file |-> old]
      [] OTHER        -> WriteReport(rows, old, o.force)

ReportJobs(db, o, old) ==
    IF ~ReportAccepted(o) THEN [said |-> Refused, file |-> old]
    ELSE OutputReport(JobsReport(db, o.type, o.status, o.since, o.until, EffectiveLimit(o)), o, old)

ReportLibrary(db, o, old) ==
    IF (o.hasSubtitles /\ o.noSubtitles) \/ ~Accepted(EffectiveLimit(o))
    THEN [said |-> Refused, file |-> old]
    ELSE OutputReport(LibraryReport(db, o.resolution, o.language,
                          CASE o.hasSubtitles -> TRUE [] o.noSubtitles -> FALSE [] OTHER -> Null,
                          EffectiveLimit(o)), o, old)

ReportScans(db, o, old) ==
    IF ~ReportAccepted(o) THEN [said |-> Refused, file |-> old]
    ELSE OutputReport(ScansReport(db, o.since, o.until, EffectiveLimit(o)), o, old)

ReportTranscodes(db, now, o, old) ==
    IF ~ReportAccepted(o) THEN [said |-> Refused, file |-> old]
    ELSE OutputReport(TranscodesReport(db, now, o.codec, o.since, o.until, EffectiveLimit(o)),
                      o, old)

ReportPolicyApply(db, o, old) ==
    IF ~ReportAccepted(o) THEN [said |-> Refused, file |-> old]
    ELSE OutputReport(
           IF o.verbose THEN PolicyApplyDetails(db, o.policy, o.since, o.until, EffectiveLimit(o))
           ELSE PolicyApplyReport(db, o.policy, o.since, o.until, EffectiveLimit(o)), o, old)

-----------------------------------------------------------------------------
(* Statistics on the terminal.                                             *)

Readable(o) == Unreadable \notin {o.since, o.until}

\* A range that is the wrong way round is taken here, and has nothing in it.
ReportSummary(db, o) ==
    IF Readable(o) THEN StatsSummary(db, o.since, o.until, o.policy) ELSE Refused

\* The lines of the table; nothing but a message when nothing was processed.
SummaryTable(summary) ==
    IF summary.totals.files = 0 THEN {}
    ELSE {"overview", "disk space", "tracks", "transcoding", "performance"}
         \union (IF summary.earliest # Null THEN {"time range"} ELSE {})

ReportHistory(db, o) == RecentStats(db, o.limit, o.policy)

ReportPolicies(db, o) ==
    IF Readable(o) THEN PolicyStats(db, o.since, o.until, Null) ELSE Refused

ReportPolicyStats(db, o) ==
    IF ~Readable(o) THEN Refused
    ELSE IF PolicyStatsByName(db, o.policy, o.since, o.until) = Null THEN Refused
    ELSE PolicyStatsByName(db, o.policy, o.since, o.until)

\* `vpo report file` takes a path that exists, whether or not the library has it.
ReportFile(db, path) == StatsForFile(db, Null, path, Null)

ReportDetail(db, id) == IF StatsDetail(db, id) = Null THEN Refused ELSE StatsDetail(db, id)

\* What a detail says of the size: how much was saved, or added.
DetailOfSize(s) ==
    IF s.change >= 0 THEN <<"saved", s.change>> ELSE <<"added", 0 - s.change>>

\* Which rows `vpo report purge` and the purge of the API are asked to delete.
PurgeOf(o) ==
    CASE ~o.all /\ o.before = Null /\ o.policy = Null       -> Refused
      [] o.all /\ (o.before # Null \/ o.policy # Null)      -> Refused
      [] o.before # Null /\ o.policy # Null                 -> Refused
      [] o.before = Unreadable                              -> Refused
      [] o.all                                              -> [kind |-> "all"]
      [] o.before # Null                                    -> [kind |-> "before", at |-> o.before]
      [] OTHER                                              -> [kind |-> "policy", policy |-> o.policy]

-----------------------------------------------------------------------------
(* `vpo db`, `vpo analyze status`, `vpo jobs`.                             *)

DbMissing(db, o) == [total |-> Len(MissingFiles(db, o.limit)), files |-> MissingFiles(db, o.limit)]

\* `vpo db prune --dry-run`: the count of all, the paths of the first thousand.
PrunePreview(db) == [count |-> MissingFilesCount(db), files |-> MissingFiles(db, MaxPage)]

DbInfo(db) == LibraryInfo(db)
DbDuplicates(db, o) == Duplicates(db, o.limit, 2)

\* Of one film what was concluded of its tracks; else the summary, and for a filter the
\* films.
LanguageStatusOf(db, path) ==
    IF FileAnalysisDetail(db, path) = Null THEN << >> ELSE FileAnalysisDetail(db, path)
LanguageSummary(db, o) ==
    [summary |-> AnalysisStatusSummary(db),
     files |-> IF o.filter = "all" THEN << >> ELSE FilesAnalysisStatus(db, o.filter, o.limit)]
AnalyzeStatus(db, o) ==
    IF o.path # Null THEN LanguageStatusOf(db, o.path) ELSE LanguageSummary(db, o)

VpoJobsList(db, o) ==
    IF o.limit \notin 1 .. MaxLimit THEN Refused
    ELSE Page(JobsList(db, [status |-> o.status, type |-> o.type, since |-> o.since, search |-> Null,
                            by |-> "created_at", ascending |-> FALSE]), o.limit, 0)

\* A prefix is the set of the ids that begin with it.
VpoJobsShow(db, prefix) ==
    LET matching == {j \in db.jobs : j.id \in prefix}
    IN  IF Cardinality(matching) = 1 THEN Unique(matching) ELSE Refused

VpoJobsStatus(db) ==
    [s \in JobStatuses |-> Cardinality({j \in db.jobs : j.status = s})] @@
      [total |-> Cardinality(db.jobs)]

\* `vpo jobs clear` and `cleanup` say how many rows they delete; nothing commits, and
\* the rows are there again when the process has closed its connection.
VpoJobsClear(db, o) ==
    [said |-> Cardinality({j \in db.jobs : j.status \in IF o.status = "all" THEN Settled
                                                        ELSE {o.status}}), db |-> db]
VpoJobsCleanup(db, before) == [said |-> Cardinality(OldJobs(db, before)), db |-> db]

-----------------------------------------------------------------------------
(* Handlers of the API.                                                    *)

ApiSummary(db, q) ==
    IF Readable(q) THEN StatsSummary(db, q.since, q.until, q.policy) ELSE Refused
ApiRecent(db, q) == RecentStats(db, Within(q.limit, RecentPage), q.policy)

\* The policy of the query is taken and not looked at.
ApiPolicies(db, q) ==
    IF Readable(q) THEN PolicyStats(db, q.since, q.until, Null) ELSE Refused
ApiTrends(db, q) ==
    IF q.group \notin {"day", "week", "month"} \/ q.since = Unreadable THEN Refused
    ELSE StatsTrends(db, q.since, q.group)
ApiDetail(db, id) == IF StatsDetail(db, id) = Null THEN Refused ELSE StatsDetail(db, id)
ApiFileStats(db, id) == StatsForFile(db, id, Null, Null)
ApiPolicy(db, q) ==
    IF ~Readable(q) THEN Refused
    ELSE IF PolicyStatsByName(db, q.policy, q.since, q.until) = Null THEN Refused
    ELSE PolicyStatsByName(db, q.policy, q.since, q.until)
ApiDistribution(db) == LibraryDistribution(db)

\* The limit get_library_snapshots() has when it is given none.
SnapshotPage == 365
ApiLibraryTrends(db, q) ==
    IF q.since = Unreadable THEN Refused ELSE LibrarySnapshots(db, q.since, SnapshotPage)

\* What is filtered is said with each page.
Listed(page, q, filtered) ==
    [rows |-> page.rows, total |-> page.total, limit |-> RequestLimit(q.limit),
     offset |-> RequestOffset(q.offset), filtered |-> filtered]

ApiLibrary(db, q) ==
    LET p == LibraryQuery(q)
        page == FilesFiltered(db, p, RequestLimit(q.limit), RequestOffset(q.offset))
    IN  Listed([page EXCEPT !.rows = [i \in DOMAIN @ |-> FileListItem(@[i])]], q,
               \/ p.audioLang # {}
               \/ \E field \in {"status", "search", "resolution", "subtitles"} : p[field] # Null)

ApiLanguages(db) == DistinctAudioLanguages(db)

ApiFileDetail(db, id) ==
    IF RowWith(db.files, id) = {} THEN Refused
    ELSE LET f == Unique(RowWith(db.files, id))
         IN  [file |-> f.id, tracks |-> f.tracks,
              transcriptions |-> [i \in Transcribed(f) |-> f.tracks[i].heard]]

ApiTranscriptions(db, q) ==
    Listed(FilesWithTranscriptions(db, q.showAll, RequestLimit(q.limit), RequestOffset(q.offset)),
           q, q.showAll)
ApiTranscription(db, id, index) ==
    IF TranscriptionDetail(db, id, index) = Null THEN Refused ELSE TranscriptionDetail(db, id, index)

ApiJobs(db, q) ==
    IF \/ q.status \notin {Null, "queued", "running", "completed", "failed", "cancelled"}
       \/ q.type \notin {Null, "transcode", "move", "scan", "apply", "process", "prune"}
       \/ q.since = Unreadable
    THEN Refused
    ELSE Listed(JobsFiltered(db, q, RequestLimit(q.limit), RequestOffset(q.offset)), q,
                \E field \in {"status", "type", "since", "search"} : q[field] # Null)

ApiJob(db, id) == IF RowWith(db.jobs, id) = {} THEN Refused ELSE Unique(RowWith(db.jobs, id))

ApiPlans(db, q) ==
    IF \/ q.status \notin {Null, "pending", "approved", "rejected", "applied", "canceled"}
       \/ q.since = Unreadable
    THEN Refused
    ELSE Listed(PlansFiltered(db, q, RequestLimit(q.limit), RequestOffset(q.offset)), q,
                \E field \in {"status", "since", "policy"} : q[field] # Null)

ApiPlan(db, id) == IF RowWith(db.plans, id) = {} THEN Refused ELSE Unique(RowWith(db.plans, id))

ApiPluginFiles(db, plugin, q) ==
    Listed(FilesWithPluginData(db, plugin, RequestLimit(q.limit), RequestOffset(q.offset)),
           q, FALSE)
ApiPluginData(db, id) ==
    IF RowWith(db.files, id) = {} THEN Refused ELSE PluginDataForFile(db, id)
ApiPluginDataOf(db, id, plugin) ==
    IF plugin \in PluginDataForFile(db, id) THEN plugin ELSE Refused

\* For a job that is gone, or is no scan, there are no errors.
ApiJobErrors(db, job) ==
    IF ScanErrorsForJob(db, job, Null) = Null THEN << >> ELSE ScanErrorsForJob(db, job, Null)
=============================================================================
