---------------------------- MODULE LibraryViews ----------------------------
(***************************************************************************)
(* What the library database answers: the queries of db/views/ and the     *)
(* filtered lists of db/queries/jobs.py and db/operations.py, over one     *)
(* snapshot db of the tables.  A row of tracks is a member of its file's   *)
(* sequence, and carries the transcription and the language analysis that  *)
(* hang on its id, as both go with it.  Names, paths and content hashes    *)
(* are numbers, in the order SQLite collates them; rows that tie in an     *)
(* ORDER BY come in the order of their ids.                                *)
(***************************************************************************)
EXTENDS Integers, Sequences, FiniteSets, SequencesExt, FiniteSetsExt, Functions

CONSTANTS
    Null,
    DefaultPage,    \* DEFAULT_PAGE_SIZE of a view
    MaxPage,        \* MAX_PAGE_SIZE of a view
    ApiPage,        \* the limit an API request has when it gives none
    ApiMaxPage      \* the largest limit of an API request

ASSUME PagesAssumption ==
    /\ DefaultPage \in Nat /\ MaxPage \in Nat /\ ApiPage \in Nat /\ ApiMaxPage \in Nat
    /\ DefaultPage \in 1 .. MaxPage
    /\ ApiPage \in 1 .. ApiMaxPage
    /\ ApiMaxPage <= MaxPage

ASSUME NullAssumption == Null \notin Int

FileStatuses == {"ok", "missing", "error", "pending"}
Verdicts == {"SINGLE_LANGUAGE", "MULTI_LANGUAGE"}

-----------------------------------------------------------------------------
(* Pages.                                                                  *)

\* _clamp_limit(): what becomes of the limit of a view.
ClampLimit(limit) ==
    IF limit = Null THEN DefaultPage ELSE Max({1, Min({MaxPage, limit})})

\* The limit and the offset of a request, as the filter parameters take them.
Within(n, default) == IF n = Null THEN default ELSE Max({1, Min({ApiMaxPage, n})})
RequestLimit(n) == Within(n, ApiPage)
RequestOffset(n) == IF n = Null THEN 0 ELSE Max({0, n})

\* LIMIT and OFFSET of an ordered list.
Page(list, limit, offset) == SubSeq(list, offset + 1, Min({offset + limit, Len(list)}))

\* The members of a set in an order that is given by the pairs <<a, b>>, a before b.
Ranked(rows, order) ==
    [i \in 1 .. Cardinality(rows) |->
       CHOOSE r \in rows : Cardinality({s \in rows : <<s, r>> \in order}) = i - 1]

Sorted(rows, Before(_, _)) ==
    Ranked(rows, {p \in rows \X rows : \/ Before(p[1], p[2])
                                       \/ ~Before(p[2], p[1]) /\ p[1].id < p[2].id})

\* Mutant: the films last scanned come last.
Oldest(a, b) == a.scanned < b.scanned

LastScanned(a, b) == a.scanned > b.scanned

Latest(a, b) == a.at > b.at
ByName(a, b) == a.name < b.name
ByPath(a, b) == a.path < b.path

Ids(rows) == [i \in DOMAIN rows |-> rows[i].id]
Unique(rows) == CHOOSE r \in rows : TRUE
RowWith(rows, id) == {r \in rows : r.id = id}

-----------------------------------------------------------------------------
(* The library page.                                                       *)

TracksOf(f, type) == {i \in DOMAIN f.tracks : f.tracks[i].type = type}

\* The height ranges of the resolution filter, one film being in a range for each of
\* its video tracks; no film without one is in any.
Resolution(height) ==
    CASE height = Null   -> "other"
      [] height >= 2160  -> "4k"
      [] height >= 1080  -> "1080p"
      [] height >= 720   -> "720p"
      [] height >= 480   -> "480p"
      [] OTHER           -> "other"

\* The WHERE clause.  A word stands for a text: the name of a film or a title has it.
Wanted(f, q) ==
    /\ q.status # Null => f.status = q.status
    /\ q.search # Null =>
         \/ f.name = q.search
         \/ \E i \in TracksOf(f, "video") : f.tracks[i].title = q.search
    /\ q.resolution # Null =>
         \E i \in TracksOf(f, "video") : Resolution(f.tracks[i].height) = q.resolution
    /\ q.audioLang # {} => \E i \in TracksOf(f, "audio") : f.tracks[i].lang \in q.audioLang
    /\ q.subtitles = "yes" => TracksOf(f, "subtitle") # {}
    /\ q.subtitles = "no" => TracksOf(f, "subtitle") = {}

\* LibraryFilterParams.from_query(): a value that is not one of the choices filters nothing.
LibraryQuery(q) ==
    [q EXCEPT !.status = IF @ \in {"ok", "error", "missing"} THEN @ ELSE Null,
              !.resolution = IF @ \in {"4k", "1080p", "720p", "480p", "other"} THEN @ ELSE Null,
              !.subtitles = IF @ \in {"yes", "no"} THEN @ ELSE Null]

FilesList(db, q) == Sorted({f \in db.files : Wanted(f, q)}, LastScanned)

\* get_files_filtered() with the total; the list of the page and the total are of one
\* transaction.
FilesFiltered(db, q, limit, offset) ==
    [rows |-> Page(FilesList(db, q), ClampLimit(limit), offset),
     total |-> Cardinality({f \in db.files : Wanted(f, q)})]

\* What a row of the page shows of the tracks.
FileListItem(f) ==
    [id |-> f.id, path |-> f.path, status |-> f.status,
     height |-> LET h == {f.tracks[i].height : i \in TracksOf(f, "video")} \ {Null}
                IN  IF h = {} THEN Null ELSE Max(h),
     languages |-> {f.tracks[i].lang : i \in TracksOf(f, "audio")} \ {Null}]

MissingFiles(db, limit) ==
    Page(Sorted({f \in db.files : f.status = "missing"}, LastScanned), ClampLimit(limit), 0)
MissingFilesCount(db) == Cardinality({f \in db.files : f.status = "missing"})

\* The choices of the language filter; the library has fewer languages than a page.
DistinctAudioLanguages(db) ==
    UNION {{f.tracks[i].lang : i \in TracksOf(f, "audio")} : f \in db.files} \ {Null, ""}

\* The three charts of the statistics page: films for containers and video codecs,
\* tracks for audio codecs, and only of films whose scan went well.
LibraryDistribution(db) ==
    LET ok == {f \in db.files : f.status = "ok"}
        codecs(type) ==
          UNION {{f.tracks[i].codec : i \in TracksOf(f, type)} : f \in ok} \ {Null, ""}
    IN  [containers |-> [c \in {f.container : f \in ok} \ {Null, ""} |->
                           Cardinality({f \in ok : f.container = c})],
         videoCodecs |-> [c \in codecs("video") |->
                           Cardinality({f \in ok : \E i \in TracksOf(f, "video") :
                                                      f.tracks[i].codec = c})],
         audioCodecs |-> [c \in codecs("audio") |->
                           MapThenSumSet(LAMBDA f : Cardinality({i \in TracksOf(f, "audio") :
                                                      f.tracks[i].codec = c}), ok)]]

\* get_library_info(), without the pages of the database file.
LibraryInfo(db) ==
    LET tracks(type) == MapThenSumSet(LAMBDA f : Cardinality(TracksOf(f, type)), db.files)
    IN  [totalFiles |-> Cardinality(db.files),
         files |-> [s \in FileStatuses |-> Cardinality({f \in db.files : f.status = s})],
         totalSize |-> MapThenSumSet(LAMBDA f : f.size, db.files),
         tracks |-> [t \in {"video", "audio", "subtitle", "attachment"} |-> tracks(t)]]

\* get_duplicate_files(): the rows of the hashes that several files have, the largest
\* groups first, cut into groups where the hash of the next row is another.
Duplicates(db, limit, minSize) ==
    LET with(h) == {f \in db.files : f.hash = h}
        hashes  == {h \in {f.hash : f \in db.files} \ {Null, ""} :
                      Cardinality(with(h)) >= Max({2, minSize})}
        total(h) == MapThenSumSet(LAMBDA f : f.size, with(h))
        larger(g, h) ==
          \/ Cardinality(with(g)) > Cardinality(with(h))
          \/ Cardinality(with(g)) = Cardinality(with(h)) /\ total(g) > total(h)
        dups == Range(Page(SetToSortSeq(hashes, LAMBDA g, h :
                              larger(g, h) \/ (~larger(h, g) /\ g < h)),
                           ClampLimit(limit), 0))
        rows == SetToSortSeq({f \in db.files : f.hash \in dups}, LAMBDA a, b :
                    larger(a.hash, b.hash) \/ (~larger(b.hash, a.hash) /\ a.path < b.path))
        starts == {i \in DOMAIN rows : i = 1 \/ rows[i - 1].hash # rows[i].hash}
        group(i) == {j \in DOMAIN rows : j >= i /\ \A k \in i .. j : rows[k].hash = rows[i].hash}
    IN  {[hash |-> rows[i].hash, count |-> Cardinality(with(rows[i].hash)),
          totalSize |-> total(rows[i].hash), paths |-> {rows[j].path : j \in group(i)}] :
            i \in starts}

-----------------------------------------------------------------------------
(* Transcriptions, language analyses, plugin data, scan errors.            *)

Transcribed(f) == {i \in TracksOf(f, "audio") : f.tracks[i].heard # Null}

TranscriptionsList(db, showAll) ==
    Sorted({f \in db.files : showAll \/ Transcribed(f) # {}}, ByName)

\* get_files_with_transcriptions(): of each film how many of its audio tracks have been
\* transcribed, and to which languages.
FilesWithTranscriptions(db, showAll, limit, offset) ==
    [rows |-> [i \in DOMAIN Page(TranscriptionsList(db, showAll), ClampLimit(limit), offset) |->
                 LET f == Page(TranscriptionsList(db, showAll), ClampLimit(limit), offset)[i]
                 IN  [id |-> f.id, count |-> Cardinality(Transcribed(f)),
                      languages |-> {f.tracks[k].heard : k \in Transcribed(f)}]],
     total |-> Cardinality({f \in db.files : showAll \/ Transcribed(f) # {}})]

\* get_transcription_detail(): of the transcription of a track, whatever its type is now.
TranscriptionDetail(db, id, index) ==
    LET found == {f \in RowWith(db.files, id) : index \in DOMAIN f.tracks
                                              /\ f.tracks[index].heard # Null}
    IN  IF found = {} THEN Null
        ELSE [language |-> Unique(found).tracks[index].heard,
              original |-> Unique(found).tracks[index].lang,
              path |-> Unique(found).path]

Analyzed(f) == {i \in TracksOf(f, "audio") : f.tracks[i].verdict # Null}
WithVerdict(f, v) == {i \in TracksOf(f, "audio") : f.tracks[i].verdict = v}

\* get_analysis_status_summary().
AnalysisStatusSummary(db) ==
    LET sum(Of(_)) == MapThenSumSet(LAMBDA f : Cardinality(Of(f)), db.files)
        audio(f) == TracksOf(f, "audio")
        single(f) == WithVerdict(f, "SINGLE_LANGUAGE")
        multi(f) == WithVerdict(f, "MULTI_LANGUAGE")
    IN  [totalFiles |-> Cardinality({f \in db.files : audio(f) # {}}),
         totalTracks |-> sum(audio), analyzed |-> sum(Analyzed),
         pending |-> sum(audio) - sum(Analyzed), single |-> sum(single), multi |-> sum(multi)]

\* get_files_analysis_status(): a verdict selects tracks before they are counted, so a
\* film that has both kinds of track is among those of either.
FilesAnalysisStatus(db, filter, limit) ==
    LET counted(f) == IF filter \in Verdicts THEN WithVerdict(f, filter) ELSE TracksOf(f, "audio")
        listed == {f \in db.files : /\ counted(f) # {}
                                    /\ filter = "pending" => counted(f) \ Analyzed(f) # {}}
        page == Page(Sorted(listed, ByPath), ClampLimit(limit), 0)
    IN  [i \in DOMAIN page |->
           [id |-> page[i].id, tracks |-> Cardinality(counted(page[i])),
            analyzed |-> Cardinality(counted(page[i]) \intersect Analyzed(page[i]))]]

\* get_file_analysis_detail(): one line for each audio track, Null for no such film.
FileAnalysisDetail(db, path) ==
    LET found == {f \in db.files : f.path = path}
    IN  IF found = {} THEN Null
        ELSE [i \in TracksOf(Unique(found), "audio") |-> Unique(found).tracks[i].verdict]

PluginList(db, plugin) == Sorted({f \in db.files : plugin \in f.plugins}, ByName)

\* get_files_with_plugin_data(): the total is a column of the rows of the page, so a page
\* that has none says zero.
FilesWithPluginData(db, plugin, limit, offset) ==
    LET page == Page(PluginList(db, plugin), ClampLimit(limit), offset)
    IN  [rows |-> page, total |-> IF page = << >> THEN 0 ELSE Len(PluginList(db, plugin))]

PluginDataForFile(db, id) == UNION {f.plugins : f \in RowWith(db.files, id)}

\* get_scan_errors_for_job(): Null for a job that is gone or was no scan.
ScanErrorsForJob(db, job, limit) ==
    IF ~\E j \in RowWith(db.jobs, job) : j.type = "scan" THEN Null
    ELSE Page(Sorted({f \in db.files : f.job = job /\ f.status = "error"}, ByName),
              ClampLimit(limit), 0)

\* get_library_snapshots(): the first ones since then, oldest first.
LibrarySnapshots(db, since, limit) ==
    LET points == {s \in db.snapshots : since = Null \/ s.at >= since}
    IN  Page(SetToSortSeq(points, LAMBDA a, b : a.at < b.at), ClampLimit(limit), 0)

-----------------------------------------------------------------------------
(* Jobs and plans.                                                         *)

Duration(j) == IF j.completed = Null THEN Null ELSE j.completed - j.created

Alphabetical(word) ==
    CHOOSE i \in 1 .. 11 :
      word = <<"apply", "cancelled", "completed", "failed", "move",
               "process", "prune", "queued", "running", "scan", "transcode">>[i]

\* The order of the jobs page; a column that is not one of the five is created_at, and
\* jobs that have not completed come last when durations are compared.
JobBefore(a, b, by, ascending) ==
    CASE by = "duration" ->
           \/ Duration(a) # Null /\ Duration(b) = Null
           \/ /\ Duration(a) # Null /\ Duration(b) # Null
              /\ IF ascending THEN Duration(a) < Duration(b) ELSE Duration(a) > Duration(b)
      [] by \in {"status", "job_type"} ->
           LET at(j) == Alphabetical(IF by = "status" THEN j.status ELSE j.type)
           IN  IF ascending THEN at(a) < at(b) ELSE at(a) > at(b)
      [] by = "file_path" -> IF ascending THEN a.path < b.path ELSE a.path > b.path
      [] OTHER -> IF ascending THEN a.created < b.created ELSE a.created > b.created

JobsList(db, q) ==
    LET before(a, b) == JobBefore(a, b, q.by, q.ascending)
    IN  Sorted({j \in db.jobs : /\ q.status # Null => j.status = q.status
                                /\ q.type # Null => j.type = q.type
                                /\ q.since # Null => j.created >= q.since
                                /\ q.search # Null => j.path = q.search}, before)

\* get_jobs_filtered() takes no limit above 10000: a request never has one.
JobsFiltered(db, q, limit, offset) ==
    [rows |-> Page(JobsList(db, q), limit, offset), total |-> Len(JobsList(db, q))]

JobStatuses == {"queued", "running", "completed", "failed", "cancelled"}
Settled == {"completed", "failed", "cancelled"}

\* delete_old_jobs(): which rows a purge of the jobs deletes.
OldJobs(db, before) == {j \in db.jobs : j.created < before /\ j.status \in Settled}

NewestPlan(a, b) == a.created > b.created
PlansList(db, q) ==
    Sorted({p \in db.plans : /\ q.status # Null => p.status = q.status
                             /\ q.since # Null => p.created >= q.since
                             /\ q.policy # Null => p.policy = q.policy}, NewestPlan)

PlansFiltered(db, q, limit, offset) ==
    [rows |-> Page(PlansList(db, q), limit, offset), total |-> Len(PlansList(db, q))]
=============================================================================
