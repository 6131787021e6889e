--------------------------- MODULE ProcessingStats ---------------------------
(***************************************************************************)
(* The statistics of processed files: what a workflow records              *)
(* (workflow/stats_capture.py), what a purge removes (db/queries/stats.py) *)
(* and the figures made of it (db/views/stats.py), over the tables of one  *)
(* snapshot db.  Times are numbers; a policy's name is one too, in the     *)
(* order of names.  Averages and percentages, quotients of these figures,  *)
(* are left out.                                                           *)
(***************************************************************************)
EXTENDS LibraryViews

CONSTANT Length     \* how long a day, a week and a month are

Removed(before, after) == Max({0, before - after})
CountOf(tracks, type) == Cardinality({i \in DOMAIN tracks : tracks[i].type = type})

-----------------------------------------------------------------------------
(* What a run of the workflow captures and persists.                       *)

\* capture_before_state(): the size of the file, 0 if it cannot be read, and the tracks
\* its row had.
CaptureBefore(file, policy, size) ==
    [file |-> file.id, policy |-> policy, before |-> size, tracks |-> file.tracks,
     target |-> Null, skipped |-> FALSE, encoder |-> Null, phases |-> << >>]

\* One phase: its metrics, and what its transcode reports, if it did or skipped one; the
\* last such phase is what is recorded.
CapturePhase(c, phase) ==
    [c EXCEPT !.phases = Append(@, phase.name),
              !.target = CASE phase.transcode = "skipped" -> Null
                           [] phase.transcode = Null      -> @
                           [] OTHER                       -> phase.codec,
              !.skipped = CASE phase.transcode = "skipped" -> TRUE
                            [] phase.transcode = Null      -> @
                            [] OTHER                       -> FALSE,
              !.encoder = CASE phase.transcode = "skipped" -> Null
                            [] phase.transcode = Null      -> @
                            [] OTHER                       -> phase.transcode]

\* capture_after_state() and the record of persist(): without an introspection (no tracks)
\* the tracks are taken to be as before, and a file that is not there keeps its size.
StatsRecord(c, id, at, size, tracks, ok) ==
    LET after == IF size = Null THEN c.before ELSE size
        now   == IF tracks = << >> THEN c.tracks ELSE tracks
        lost(type) == Removed(CountOf(c.tracks, type), CountOf(now, type))
    IN  [id |-> id, file |-> c.file, at |-> at, policy |-> c.policy,
         before |-> c.before, after |-> after, change |-> c.before - after,
         audio |-> lost("audio"), subtitles |-> lost("subtitle"),
         attachments |-> lost("attachment"),
         target |-> c.target, skipped |-> c.skipped, encoder |-> c.encoder, ok |-> ok]

InsertStats(db, record) == [db EXCEPT !.stats = @ \union {record}]
InsertMetrics(db, id, phases) ==
    [db EXCEPT !.metrics = @ \union {[stats |-> id, phase |-> phases[i], nr |-> i] :
                                       i \in DOMAIN phases}]

\* persist(): the record and its metrics in one transaction, or nothing when the file's
\* row is gone by then.
Persist(db, record, phases) ==
    IF RowWith(db.files, record.file) = {} THEN db
    ELSE InsertMetrics(InsertStats(db, record), record.id, phases)

-----------------------------------------------------------------------------
(* Purging.                                                                *)

\* Mutants: the moment itself is taken too; the metrics stay.
PurgedThrough(db, by) ==
    {s \in db.stats : CASE by.kind = "before" -> s.at <= by.at
                        [] by.kind = "policy" -> s.policy = by.policy
                        [] OTHER              -> TRUE}
DeleteStatsOnly(db, rows) == [db EXCEPT !.stats = @ \ rows]

\* The rows a purge is for: those before a time, those of a policy, or all.
Purged(db, by) ==
    {s \in db.stats : CASE by.kind = "before" -> s.at < by.at
                        [] by.kind = "policy" -> s.policy = by.policy
                        [] OTHER              -> TRUE}

\* DELETE, and what hangs on the rows by ON DELETE CASCADE.
DeleteStats(db, rows) ==
    [db EXCEPT !.stats = @ \ rows,
               !.metrics = {m \in @ : m.stats \notin {s.id : s \in rows}}]

\* A file's row goes with its statistics and its jobs.
DeleteFiles(db, rows) ==
    LET gone == {f.id : f \in rows}
    IN  DeleteStats([db EXCEPT !.files = @ \ rows, !.jobs = {j \in @ : j.file \notin gone}],
                    {s \in db.stats : s.file \in gone})

-----------------------------------------------------------------------------
(* The figures.                                                            *)

\* Mutant: a range without its first moment.
AfterRange(s, since, until, policy) ==
    /\ since # Null => s.at > since
    /\ until # Null => s.at <= until
    /\ policy # Null => s.policy = policy

InRange(s, since, until, policy) ==
    /\ since # Null => s.at >= since
    /\ until # Null => s.at <= until
    /\ policy # Null => s.policy = policy

Transcoded(s) == s.target # Null /\ ~s.skipped

Totals(rows) ==
    [files |-> Cardinality(rows),
     successful |-> Cardinality({s \in rows : s.ok}),
     failed |-> Cardinality({s \in rows : ~s.ok}),
     before |-> MapThenSumSet(LAMBDA s : s.before, rows),
     after |-> MapThenSumSet(LAMBDA s : s.after, rows),
     saved |-> MapThenSumSet(LAMBDA s : s.change, rows),
     audio |-> MapThenSumSet(LAMBDA s : s.audio, rows),
     subtitles |-> MapThenSumSet(LAMBDA s : s.subtitles, rows),
     attachments |-> MapThenSumSet(LAMBDA s : s.attachments, rows),
     transcoded |-> Cardinality({s \in rows : Transcoded(s)}),
     skipped |-> Cardinality({s \in rows : s.skipped}),
     hardware |-> Cardinality({s \in rows : s.encoder = "hardware"}),
     software |-> Cardinality({s \in rows : s.encoder = "software"})]

\* get_stats_summary().
StatsSummary(db, since, until, policy) ==
    LET rows == {s \in db.stats : InRange(s, since, until, policy)}
    IN  [totals |-> Totals(rows),
         earliest |-> IF rows = {} THEN Null ELSE Min({s.at : s \in rows}),
         latest |-> IF rows = {} THEN Null ELSE Max({s.at : s \in rows})]

OfPolicy(rows, p) ==
    [policy |-> p, totals |-> Totals({s \in rows : s.policy = p}),
     lastUsed |-> Max({s.at : s \in {r \in rows : r.policy = p}})]

\* get_policy_stats(): the policies with the most files first.
PolicyStats(db, since, until, limit) ==
    LET rows == {s \in db.stats : InRange(s, since, until, Null)}
    IN  Page(SetToSortSeq({OfPolicy(rows, p) : p \in {s.policy : s \in rows}},
                          LAMBDA a, b : \/ a.totals.files > b.totals.files
                                        \/ a.totals.files = b.totals.files /\ a.policy < b.policy),
             ClampLimit(limit), 0)

\* get_policy_stats_by_name(): Null for a policy that has no row in the range.
PolicyStatsByName(db, policy, since, until) ==
    LET rows == {s \in db.stats : InRange(s, since, until, policy)}
    IN  IF rows = {} THEN Null ELSE OfPolicy(rows, policy)

RecentStats(db, limit, policy) ==
    Page(Sorted({s \in db.stats : policy # Null => s.policy = policy}, Latest),
         ClampLimit(limit), 0)

\* get_stats_for_file(), of a file given by its id or else by its path.
StatsForFile(db, id, path, limit) ==
    LET files == IF id # Null THEN {id}
                 ELSE {f.id : f \in {g \in db.files : g.path = path}}
    IN  Page(Sorted({s \in db.stats : s.file \in files}, Latest), ClampLimit(limit), 0)

\* get_stats_detail(): the record, with the path of its file.
StatsDetail(db, id) ==
    IF RowWith(db.stats, id) = {} THEN Null
    ELSE LET s == Unique(RowWith(db.stats, id))
         IN  [record |-> s, paths |-> {f.path : f \in RowWith(db.files, s.file)}]

\* get_performance_metrics_for_stats(): in the order they were inserted.
MetricsOf(db, id) ==
    LET rows == {m \in db.metrics : m.stats = id}
        inserted == Ranked(rows, {p \in rows \X rows : p[1].nr < p[2].nr})
    IN  [i \in DOMAIN inserted |-> inserted[i].phase]

\* get_stats_trends(): a point for each day, week or month that has a row.
Period(at, group) == at \div Length[IF group \in {"week", "month"} THEN group ELSE "day"]

StatsTrends(db, since, group) ==
    LET rows == {s \in db.stats : InRange(s, since, Null, Null)}
        in(p) == {s \in rows : Period(s.at, group) = p}
    IN  SetToSortSeq({[date |-> p, files |-> Cardinality(in(p)),
                       saved |-> MapThenSumSet(LAMBDA s : s.change, in(p)),
                       successful |-> Cardinality({s \in in(p) : s.ok}),
                       failed |-> Cardinality({s \in in(p) : ~s.ok})] :
                          p \in {Period(s.at, group) : s \in rows}},
                     LAMBDA a, b : a.date < b.date)
=============================================================================
