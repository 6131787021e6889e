---------------------------- MODULE AnalysisCache ----------------------------
(***************************************************************************)
(* What the library knows of the sound of a film: the languages heard in   *)
(* its audio tracks (language_analysis/) and whether a track is the        *)
(* original, a dub or a commentary (track_classification/).  Both are      *)
(* cached per row of the tracks table, under the content hash the file had *)
(* when the analysis read its record.                                      *)
(*                                                                         *)
(* One film and the processes that work on it: analyses and                *)
(* classifications, `vpo analyze clear --all`, scans, and workflow runs    *)
(* that evaluate policies with the verdicts and change the file.  A        *)
(* content stands for the file's bytes: its time, size and hash are those  *)
(* of the content.  Only the audio tracks are kept, in stream order.       *)
(***************************************************************************)
EXTENDS Integers, Sequences, FiniteSets, Functions, FiniteSetsExt

CONSTANTS
    Film,        \* Film[c]: the audio tracks of content c: [samples, tag, commentary]
    Start,       \* the contents the film may have at first
    Languages,   \* what is heard in a sample,
    Silence,     \* or that nobody speaks in it
    Originals,   \* what plugins may have said of its original language: languages, None
    Threshold,   \* audio_is_multi_language: the share (in %) a second language has
    Procs,
    None, NoHash,
    MaxEvents,   \* bounds: changes of the file, samples that fail, processes that die;
    MaxTasks,    \* commands started;
    MaxSteps     \* both together

Contents == DOMAIN Film

\* Every track is sampled as often, and a film has an audio track.
ASSUME AnalysisCacheAssumption ==
    /\ Start \subseteq Contents /\ Silence \notin Languages
    /\ Film \in [Contents -> Seq([samples : Seq(Languages \cup {Silence}),
                                 tag : Languages \cup {None}, commentary : BOOLEAN])]
    /\ \A c \in Contents : Film[c] # <<>> /\ \A i \in DOMAIN Film[c] : Film[c][i].samples # <<>>
    /\ \A c \in Contents, d \in Contents : \A i \in DOMAIN Film[c], j \in DOMAIN Film[d] :
         Len(Film[c][i].samples) = Len(Film[d][j].samples)
    /\ Threshold \in 0..100 /\ {MaxEvents, MaxTasks, MaxSteps} \subseteq Nat
    /\ {None, NoHash} \cap Contents = {} /\ None \notin Procs \cup {NoHash}

VARIABLES
    content,  \* the file
    db,       \* the rows of the film: files, tracks and what hangs on the tracks
    writer,   \* the process whose transaction holds the database: None or one
    proc,     \* proc[p]: where p is in its command, and what it holds
    count,    \* events and commands so far, for the bounds
    history   \* for the properties: what has happened that they make exceptions for

vars == <<content, db, writer, proc, count, history>>

SamplesPerTrack == Len(Film[CHOOSE c \in Contents : TRUE][1].samples)

----------------------------------------------------------------------------
(* The verdict on a track.                                                 *)

\* LanguageSegment.from_detection_result(): a sample without speech is no segment.
\* A segment is known by the position of its sample.
Segments(samples) == Restrict(samples, {k \in DOMAIN samples : samples[k] # Silence})

\* All samples have the same length.
Times(lang, segs) == Cardinality({k \in DOMAIN segs : segs[k] = lang})
Share(lang, segs) == (100 * Times(lang, segs)) \div Cardinality(DOMAIN segs)

\* sorted() is stable, and a dict keeps the order of insertion: of the languages
\* heard most, the one heard first.
Primary(segs) ==
    segs[Min({i \in DOMAIN segs :
                \A j \in DOMAIN segs : Times(segs[j], segs) <= Times(segs[i], segs)})]

\* LanguageAnalysisResult.from_segments(), and the result for a track in which
\* nobody speaks.
Verdict(samples) ==
    LET segs == Segments(samples)
    IN  IF DOMAIN segs = {} THEN [primary |-> "und", multi |-> FALSE, segs |-> segs]
        ELSE [primary |-> Primary(segs), multi |-> Share(Primary(segs), segs) < 95, segs |-> segs]

\* from_record(): the second languages are counted again, in the stored segments.
Secondary(v) == {Share(lang, v.segs) : lang \in Range(v.segs) \ {v.primary}}

\* evaluate_audio_is_multi_language(), for any track and any primary language.
IsMultiLanguage(verdicts) ==
    \E v \in verdicts : v.multi /\ \E share \in Secondary(v) : share >= Threshold

\* determine_original_track(): the language of the metadata, else the first track.
DetermineOriginal(tracks, original) ==
    LET matching == {i \in DOMAIN tracks : tracks[i].tag = original}
    IN  IF Len(tracks) = 1 \/ original = None \/ matching = {} THEN 1 ELSE Min(matching)

\* classify_track(), without language analysis and acoustic profile, as `vpo
\* analyze classify` calls it.
ClassifyTrack(tracks, i, original, hash) ==
    [hash       |-> hash,
     dubbing    |-> IF i = DetermineOriginal(tracks, original) THEN "original" ELSE "dubbed",
     commentary |-> IF tracks[i].commentary THEN "commentary" ELSE "unknown"]

----------------------------------------------------------------------------
(* The rows.  ids[i] is the row of the i-th track; heard and classed hold  *)
(* what is stored for some of these rows.                                  *)

Without(f, S) == [x \in DOMAIN f \ S |-> f[x]]
With(f, x, v) == [y \in DOMAIN f \cup {x} |-> IF y = x THEN v ELSE f[y]]

Idle == [pc |-> "idle"]

Init ==
    /\ content \in Start
    /\ \E original \in Originals :
         db = [stamp |-> content, hash |-> content, original |-> original, tracks |-> content,
               ids |-> [i \in DOMAIN Film[content] |-> i], next |-> Len(Film[content]) + 1,
               heard |-> <<>>, classed |-> <<>>]
    /\ writer = None /\ proc = [p \in Procs |-> Idle]
    /\ count = [events |-> 0, tasks |-> 0]
    /\ history = [seen |-> {content}, returned |-> FALSE, failed |-> FALSE,
                  recorded |-> {content}, blind |-> FALSE, torn |-> {}, mixed |-> FALSE, calm |-> {}]

\* upsert_tracks_for_file(): a track takes over the row of its index; rows of other
\* indices are deleted, and what hangs on them (ON DELETE CASCADE).
UpsertTracks(d, c) ==
    LET kept == [i \in DOMAIN Film[c] |->
                   IF i \in DOMAIN d.ids THEN d.ids[i] ELSE d.next + i - 1 - Len(d.ids)]
        gone == Range(d.ids) \ Range(kept)
    IN  [d EXCEPT !.tracks = c, !.ids = kept,
           !.next = @ + Cardinality(Range(kept) \ Range(d.ids)),
           !.heard = Without(@, gone), !.classed = Without(@, gone)]

\* What it means for the properties that a hash is recorded, with these tracks or
\* with the tracks left as they are.
Recording(hash, tracks) ==
    history' = [history EXCEPT !.recorded = @ \cup {hash},
                  !.blind = @ \/ tracks # hash \/ (hash # db.hash /\ hash \in history.recorded),
                  !.calm = IF tracks \in {content, None} THEN @ ELSE {}]

\* Bounds.
Below == count.events + count.tasks < MaxSteps
Event == count.events < MaxEvents /\ Below /\ count' = [count EXCEPT !.events = @ + 1]
Task(p) ==
    proc[p] = Idle /\ count.tasks < MaxTasks /\ Below /\ count' = [count EXCEPT !.tasks = @ + 1]

Goto(p, state) == proc' = [proc EXCEPT ![p] = state]
At(p, pc) == proc[p].pc = pc
Quiet == UNCHANGED <<content, writer, history>>

\* The file's bytes become c, by p's doing or by somebody else's.
BecomeBy(c, actors) ==
    /\ c # content /\ content' = c /\ Event
    /\ history' = [history EXCEPT !.seen = @ \cup {c}, !.returned = @ \/ c \in history.seen,
                                 !.calm = @ \cap actors]

Replace(c) == BecomeBy(c, {}) /\ UNCHANGED <<db, writer, proc>>

----------------------------------------------------------------------------
(* A language analysis: LanguageAnalysisOrchestrator, which `vpo scan      *)
(* --analyze-languages` uses (reuse "always"), and `vpo analyze language`  *)
(* (reuse "hashed", with --reanalyze "never").  Files without a hash all   *)
(* have the hash "" to the former.                                         *)

StartAnalysis(p, reuse) ==
    /\ Task(p)
    /\ Goto(p, [pc |-> "tracks", hash |-> db.hash,
                reuse |-> reuse = "always" \/ (reuse = "hashed" /\ db.hash # NoHash)])
    /\ UNCHANGED db /\ Quiet

Row(p) == proc[p].ids[proc[p].i]
Track(p, ids, i) == [pc |-> "track", reuse |-> proc[p].reuse, hash |-> proc[p].hash,
                     ids |-> ids, i |-> i, samples |-> <<>>, key |-> None]
Following(p) == Track(p, proc[p].ids, proc[p].i + 1)

ReadTracks(p) ==
    /\ At(p, "tracks")
    /\ Goto(p, Track(p, db.ids, 1))
    /\ UNCHANGED <<db, count>> /\ Quiet

\* get_cached_analysis(): what is stored for the row, if it has the hash the record
\* had.
Cached(p) ==
    /\ proc[p].reuse
    /\ Row(p) \in DOMAIN db.heard /\ db.heard[Row(p)].hash = proc[p].hash

TakeTrack(p) ==
    /\ At(p, "track")
    /\ Goto(p, IF proc[p].i > Len(proc[p].ids) THEN Idle
               ELSE IF Cached(p) THEN Following(p)
               ELSE [proc[p] EXCEPT !.pc = "listen"])
    /\ UNCHANGED <<db, count>> /\ Quiet

\* A sample of the file as it is now.  An extraction that fails, as that of a track
\* the file does not have, counts as a sample without speech.
Listen(p, fails) ==
    LET i == proc[p].i
        k == Len(proc[p].samples) + 1
        sample == IF fails \/ i \notin DOMAIN Film[content] THEN Silence ELSE Film[content][i].samples[k]
    IN  /\ At(p, "listen")
        /\ Goto(p, [proc[p] EXCEPT !.samples = Append(@, sample),
                                   !.pc = IF k = SamplesPerTrack THEN "store" ELSE @])
        /\ IF fails THEN Event ELSE UNCHANGED count
        /\ history' = [history EXCEPT !.failed = @ \/ fails]
        /\ UNCHANGED <<content, db, writer>>

\* persist_analysis_result(), its first transaction.  A row that is gone is an error:
\* the analysis goes on with the next track.
Storing(q) == At(q, "segments")

StoreWith(p, hash) ==
    LET v    == Verdict(proc[p].samples)
        id   == Row(p)
        key  == IF id \in DOMAIN db.heard THEN db.heard[id].key ELSE db.next
        segs == IF id \in DOMAIN db.heard THEN db.heard[id].segs ELSE <<>>
        overlap == \E q \in Procs : Storing(q) /\ Row(q) = id
    IN  /\ At(p, "store") /\ writer = None
        /\ IF id \notin Range(db.ids)
              THEN Goto(p, Following(p)) /\ UNCHANGED <<db, history>>
              ELSE /\ db' = [db EXCEPT !.heard = With(@, id, [key |-> key, hash |-> hash,
                                 primary |-> v.primary, multi |-> v.multi, segs |-> segs]),
                               !.next = IF key = @ THEN @ + 1 ELSE @]
                   /\ Goto(p, [proc[p] EXCEPT !.pc = "segments", !.key = key])
                   /\ history' = [history EXCEPT !.torn = IF overlap THEN @ \cup {id} ELSE @ \ {id}]
        /\ UNCHANGED <<content, count, writer>>

\* Mutant: under the hash the record has by now.
StoreVerdictNow(p) == StoreWith(p, db.hash)

StoreVerdict(p) == StoreWith(p, proc[p].hash)

\* Its second: the segments of the analysis are deleted and written, if the
\* analysis is still there.
StoreSegments(p) ==
    LET id == Row(p)
    IN  /\ At(p, "segments") /\ writer = None
        /\ db' = IF id \in DOMAIN db.heard /\ db.heard[id].key = proc[p].key
                   THEN [db EXCEPT !.heard[id].segs = Segments(proc[p].samples)] ELSE db
        /\ Goto(p, Following(p))
        /\ UNCHANGED count /\ Quiet

\* execute_with_retry() gives up while another transaction lasts: an error of the track.
AnalysisLockedOut(p) ==
    /\ proc[p].pc \in {"store", "segments"} /\ writer # None
    /\ Goto(p, Following(p))
    /\ history' = [history EXCEPT !.torn = IF Storing(p) THEN @ \cup {Row(p)} ELSE @]
    /\ UNCHANGED <<content, db, writer, count>>

----------------------------------------------------------------------------
(* `vpo analyze classify`: classify_file_tracks().                         *)

StartClassify(p, force) ==
    /\ Task(p)
    /\ Goto(p, [pc |-> "cached", force |-> force, hash |-> db.hash, original |-> db.original])
    /\ UNCHANGED db /\ Quiet

\* What is stored for any tracks of the film, if all of it has the hash of the record.
CachedClasses(hash) ==
    LET stored == {db.classed[id] : id \in Range(db.ids) \cap DOMAIN db.classed}
    IN  stored # {} /\ \A c \in stored : c.hash = hash

LookUpClasses(p) ==
    /\ At(p, "cached")
    /\ Goto(p, IF ~proc[p].force /\ CachedClasses(proc[p].hash) THEN Idle
               ELSE [proc[p] EXCEPT !.pc = "rows"])
    /\ UNCHANGED <<db, count>> /\ Quiet

ReadRows(p) ==
    /\ At(p, "rows")
    /\ Goto(p, [pc |-> "classify", hash |-> proc[p].hash, original |-> proc[p].original,
                ids |-> db.ids, tracks |-> db.tracks, i |-> 1])
    /\ UNCHANGED <<db, count>> /\ Quiet

Halfway(p) == At(p, "classify") /\ proc[p].i > 1

\* One transaction for each track.  A row that is gone ends the command.
StoreClassWith(p, hash) ==
    LET tracks == Film[proc[p].tracks]
        i      == proc[p].i
        class  == ClassifyTrack(tracks, i, proc[p].original, hash)
        gone   == Row(p) \notin Range(db.ids)
    IN  /\ At(p, "classify") /\ writer = None
        /\ db' = IF gone THEN db ELSE [db EXCEPT !.classed = With(@, Row(p), class)]
        /\ Goto(p, IF gone \/ i = Len(tracks) THEN Idle ELSE [proc[p] EXCEPT !.i = @ + 1])
        /\ history' = [history EXCEPT !.mixed = @ \/ gone \/ \E q \in Procs \ {p} : At(q, "classify")]
        /\ UNCHANGED <<content, count, writer>>

StoreClass(p) == StoreClassWith(p, proc[p].hash)

ClassifyLockedOut(p) ==
    /\ At(p, "classify") /\ writer # None
    /\ Goto(p, Idle)
    /\ history' = [history EXCEPT !.mixed = @ \/ Halfway(p)]
    /\ UNCHANGED <<content, db, writer, count>>

----------------------------------------------------------------------------
(* `vpo analyze clear`.                                                    *)

\* --all: the verdicts, and the commit.
ClearAll(p) ==
    /\ Task(p) /\ writer = None
    /\ db' = [db EXCEPT !.heard = <<>>]
    /\ UNCHANGED proc /\ Quiet

\* Of one file: the classifications and a commit, then the verdicts.
ClearClasses(p) ==
    /\ Task(p) /\ writer = None
    /\ db' = [db EXCEPT !.classed = <<>>] /\ writer' = p /\ Goto(p, [pc |-> "cleared"])
    /\ history' = [history EXCEPT !.mixed = @ \/ \E q \in Procs : Halfway(q)]
    /\ UNCHANGED content

\* Nobody commits the second deletion: it ends with the process.
EndClear(p) ==
    /\ At(p, "cleared")
    /\ writer' = None /\ Goto(p, Idle)
    /\ UNCHANGED <<content, db, count, history>>

----------------------------------------------------------------------------
(* `vpo scan`, of this file (the batch of which it is a part may be        *)
(* larger).                                                                *)

\* file_needs_rescan(), or --full.
StartScan(p, full) ==
    /\ Task(p) /\ (full \/ db.stamp # content)
    /\ Goto(p, [pc |-> "hash", stamp |-> content])
    /\ UNCHANGED db /\ Quiet

Hash(p, hashed) ==
    /\ At(p, "hash")
    /\ Goto(p, [pc |-> "begin", stamp |-> proc[p].stamp, hash |-> IF hashed THEN content ELSE NoHash])
    /\ UNCHANGED <<db, count>> /\ Quiet

BeginScan(p) ==
    /\ At(p, "begin") /\ writer = None
    /\ writer' = p /\ Goto(p, [proc[p] EXCEPT !.pc = "persist"])
    /\ UNCHANGED <<content, db, count, history>>

\* get_file_info() and the upserts, in the open transaction.
Persist(p, readable) ==
    /\ At(p, "persist")
    /\ Goto(p, [pc |-> "commit", stamp |-> proc[p].stamp, hash |-> proc[p].hash,
                tracks |-> IF readable THEN content ELSE None])
    /\ UNCHANGED <<db, count>> /\ Quiet

\* upsert_file() writes what it has, no metadata of plugins among it; the tracks are
\* left as they are when the file could not be introspected.
CommitScan(p) ==
    LET d == [db EXCEPT !.stamp = proc[p].stamp, !.hash = proc[p].hash, !.original = None]
    IN  /\ At(p, "commit")
        /\ db' = IF proc[p].tracks = None THEN d ELSE UpsertTracks(d, proc[p].tracks)
        /\ writer' = None /\ Goto(p, Idle)
        /\ Recording(proc[p].hash, proc[p].tracks)
        /\ UNCHANGED <<content, count>>

----------------------------------------------------------------------------
(* A workflow run on the film: WorkflowProcessor.process_file() and the    *)
(* plan operations of its phases.  loaded is the hash of the record that   *)
(* the run started from.                                                   *)

StartRun(p) ==
    /\ Task(p)
    /\ Goto(p, [pc |-> "load", loaded |-> db.hash])
    /\ history' = [history EXCEPT !.calm = IF {db.hash, db.tracks} = {content} THEN @ \cup {p} ELSE @ \ {p}]
    /\ UNCHANGED <<content, db, writer>>

LoadTracks(p) ==
    /\ At(p, "load")
    /\ Goto(p, [pc |-> "evaluate", loaded |-> proc[p].loaded, ids |-> db.ids])
    /\ UNCHANGED <<db, count>> /\ Quiet

\* get_language_results_for_tracks(): by the ids of the FileInfo's tracks, whatever
\* the hash; then the policy.  whole says whether an analysis was between its two
\* transactions, or had been cut there.
Evaluate(p) ==
    LET used == [i \in {j \in DOMAIN proc[p].ids : proc[p].ids[j] \in DOMAIN db.heard}
                   |-> db.heard[proc[p].ids[i]]]
        ids  == Range(proc[p].ids)
    IN  /\ At(p, "evaluate")
        /\ Goto(p, [pc |-> "evaluated", loaded |-> proc[p].loaded, ids |-> proc[p].ids,
                    used |-> used, multi |-> IsMultiLanguage(Range(used)),
                    whole |-> ids \cap history.torn = {}
                              /\ \A q \in Procs : Storing(q) => Row(q) \notin ids])
        /\ UNCHANGED <<db, count>> /\ Quiet

\* The phase leaves the file alone: the next phase has the same FileInfo, if there
\* is one.
PhaseEnds(p, last) ==
    /\ At(p, "evaluated")
    /\ Goto(p, IF last THEN Idle
               ELSE [pc |-> "evaluate", loaded |-> proc[p].loaded, ids |-> proc[p].ids])
    /\ history' = [history EXCEPT !.calm = IF last THEN @ \ {p} ELSE @]
    /\ UNCHANGED <<content, db, writer, count>>

\* The phase changes the file: _re_introspect() follows.
Change(p, c) ==
    /\ At(p, "evaluated") /\ BecomeBy(c, {p})
    /\ Goto(p, [pc |-> "introspect", loaded |-> proc[p].loaded, ids |-> proc[p].ids])
    /\ UNCHANGED <<db, writer>>

Introspect(p) ==
    /\ At(p, "introspect")
    /\ Goto(p, [pc |-> "measure", loaded |-> proc[p].loaded, tracks |-> content])
    /\ UNCHANGED <<db, count>> /\ Quiet

\* stat() and the hash.
Measure(p, hashed) ==
    /\ At(p, "measure")
    /\ Goto(p, [pc |-> "record", loaded |-> proc[p].loaded, tracks |-> proc[p].tracks,
                stamp |-> content, hash |-> IF hashed THEN content ELSE NoHash])
    /\ UNCHANGED <<db, count>> /\ Quiet

RecordAs(p, ids) ==
    /\ At(p, "record") /\ writer = None
    /\ db' = UpsertTracks([db EXCEPT !.stamp = proc[p].stamp, !.hash = proc[p].hash], proc[p].tracks)
    /\ Goto(p, [pc |-> "evaluate", loaded |-> proc[p].loaded, ids |-> ids])
    /\ Recording(proc[p].hash, proc[p].tracks)
    /\ UNCHANGED <<content, count, writer>>

\* Mutant: the tracks of the new FileInfo have the ids of their rows.
RecordWithIds(p) == RecordAs(p, UpsertTracks(db, proc[p].tracks).ids)

\* One transaction; the tracks ffprobe found have no ids.
Record(p) == RecordAs(p, <<>>)

----------------------------------------------------------------------------
\* A process is killed, or gives up waiting for the database.
Die(p) ==
    /\ proc[p] # Idle /\ Event
    /\ Goto(p, Idle) /\ writer' = (IF writer = p THEN None ELSE writer)
    /\ history' = [history EXCEPT !.torn = IF Storing(p) THEN @ \cup {Row(p)} ELSE @,
                                 !.mixed = @ \/ Halfway(p), !.calm = @ \ {p}]
    /\ UNCHANGED <<content, db>>

Analyse(p) ==
    \/ \E reuse \in {"always", "hashed", "never"} : StartAnalysis(p, reuse)
    \/ \E fails \in BOOLEAN : Listen(p, fails)
    \/ ReadTracks(p) \/ TakeTrack(p) \/ StoreVerdict(p) \/ StoreSegments(p) \/ AnalysisLockedOut(p)

Classify(p) ==
    \/ \E force \in BOOLEAN : StartClassify(p, force)
    \/ LookUpClasses(p) \/ ReadRows(p) \/ StoreClass(p) \/ ClassifyLockedOut(p)

Clear(p) == ClearAll(p) \/ ClearClasses(p) \/ EndClear(p)

Scan(p) ==
    \/ \E full \in BOOLEAN : StartScan(p, full)
    \/ \E hashed \in BOOLEAN : Hash(p, hashed)
    \/ \E readable \in BOOLEAN : Persist(p, readable)
    \/ BeginScan(p) \/ CommitScan(p)

Run(p) ==
    \/ \E last \in BOOLEAN : PhaseEnds(p, last)
    \/ \E c \in Contents : Change(p, c)
    \/ \E hashed \in BOOLEAN : Measure(p, hashed)
    \/ StartRun(p) \/ LoadTracks(p) \/ Evaluate(p) \/ Introspect(p) \/ Record(p)

Next ==
    \/ \E p \in Procs : Analyse(p) \/ Classify(p) \/ Clear(p) \/ Scan(p) \/ Run(p) \/ Die(p)
    \/ \E c \in Contents : Replace(c)

Spec == Init /\ [][Next]_vars

----------------------------------------------------------------------------
(* Correctness.                                                            *)

\* Types; what is stored hangs on rows that are there; the database is held by who
\* is writing to it.
TypeOK ==
    /\ content \in Contents /\ writer \in Procs \cup {None}
    /\ {db.stamp, db.tracks} \subseteq Contents /\ db.hash \in Contents \cup {NoHash}
    /\ db.original \in Originals \cup {None}
    /\ Len(db.ids) = Len(Film[db.tracks]) /\ Cardinality(Range(db.ids)) = Len(db.ids)
    /\ DOMAIN db.heard \cup DOMAIN db.classed \subseteq Range(db.ids)
    /\ \A id \in Range(db.ids) : id < db.next
    /\ \A p \in Procs : writer = p <=> proc[p].pc \in {"persist", "commit", "cleared"}

SameVerdict(v, w) == v.primary = w.primary /\ v.multi = w.multi

\* Whatever was replaced, scanned and analysed in between, a verdict that is stored
\* under the hash of the film as it is now is the verdict of that track's sound: the
\* cache hands out no other.  Exceptions: an earlier content came back, or a sample
\* failed for a passing reason.
CacheIsTrue ==
    ~history.returned /\ ~history.failed /\ db.hash = content =>
        \A i \in DOMAIN db.ids \cap DOMAIN Film[content] :
            LET id == db.ids[i]
            IN  id \in DOMAIN db.heard /\ db.heard[id].hash = content =>
                  SameVerdict(db.heard[id], Verdict(Film[content][i].samples))

\* A verdict and its segments, written in two transactions, are of one analysis,
\* unless an analysis was cut between the two or overlapped with another.
SegmentsFollow ==
    \A id \in DOMAIN db.heard \ history.torn :
        (\A p \in Procs : Storing(p) => Row(p) # id) =>
            SameVerdict(db.heard[id], Verdict(db.heard[id].segs))

\* The cache holds what was heard, whole.
VerdictsTrue == CacheIsTrue /\ SegmentsFollow

\* Classifications that the next `vpo analyze classify` takes for valid are of every
\* track of the film, and made from its tracks and from one original language.
\* Exceptions: a scan or a run recorded a hash with the tracks of another content, or went
\* back to a content that another had taken the place of; two classifications that
\* overlapped, or one that was cut or cleared meanwhile.
ClassifiedWhole ==
    /\ db.hash # NoHash /\ CachedClasses(db.hash)
    /\ ~history.blind /\ ~history.mixed
    /\ \A p \in Procs : ~At(p, "classify")
    => \E original \in Originals \cup {None} : \A i \in DOMAIN db.ids :
         /\ db.ids[i] \in DOMAIN db.classed
         /\ db.classed[db.ids[i]] = ClassifyTrack(Film[db.tracks], i, original, db.hash)

\* Both caches tell of the film what it is.
CachesTell == TypeOK /\ VerdictsTrue /\ ClassifiedWhole

\* A policy is evaluated with the truth: in a run on a film that was as recorded and
\* that nobody else changes or records as it was before, each verdict of the recorded content is that of the track
\* it is used for, in every phase, also after the run has changed the film; and with a
\* verdict for every track the condition holds exactly if it holds of the sound.
UsedVerdictsTrue ==
    \A p \in history.calm :
        At(p, "evaluated") /\ ~history.returned /\ ~history.failed =>
            LET used  == proc[p].used
                film  == Film[content]
                known == {i \in DOMAIN used : used[i].hash = proc[p].loaded}
            IN  /\ \A i \in known : i \in DOMAIN film /\ SameVerdict(used[i], Verdict(film[i].samples))
                /\ known = DOMAIN film /\ proc[p].whole =>
                     (proc[p].multi <=> IsMultiLanguage({Verdict(t.samples) : t \in Range(film)}))
=============================================================================
