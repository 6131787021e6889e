------------------------------- MODULE Reports -------------------------------
(***************************************************************************)
(* The reports of `vpo report` (reports/queries.py): lists of jobs, films, *)
(* scans, transcodes and policy applications out of one snapshot db.  A    *)
(* job's JSON columns are fields: codec is the target of its policy_json,  *)
(* summary the counters of a scan, affected the films of an application    *)
(* with the actions on each.                                               *)
(***************************************************************************)
EXTENDS ProcessingStats

CONSTANT MaxLimit   \* MAX_LIMIT of a report

Accepted(limit) == limit = Null \/ limit \in 0 .. MaxLimit

\* LIMIT, where 0 is no limit as Null is.
Limited(rows, limit) ==
    IF limit \in {Null, 0} THEN rows ELSE Page(rows, limit, 0)

Between(at, since, until) ==
    (since # Null => at >= since) /\ (until # Null => at <= until)

NewestJob(a, b) == a.created > b.created

JobsReport(db, type, status, since, until, limit) ==
    Limited(Sorted({j \in db.jobs : /\ type # Null => j.type = type
                                    /\ status # Null => j.status = status
                                    /\ Between(j.created, since, until)}, NewestJob), limit)

\* get_resolution_category() of the largest video track.
Category(f) ==
    LET heights == {f.tracks[i].height : i \in TracksOf(f, "video")} \ {Null}
    IN  IF heights = {} THEN "unknown"
        ELSE IF Resolution(Max(heights)) = "other" THEN "SD" ELSE Resolution(Max(heights))

\* get_library_report(): the limit is taken before films of another resolution are left
\* out.
LibraryReport(db, resolution, lang, subtitles, limit) ==
    LET rows == Limited(Sorted({f \in db.files :
                          /\ f.status = "ok"
                          /\ lang # Null => \E i \in TracksOf(f, "audio") : f.tracks[i].lang = lang
                          /\ subtitles # Null => (TracksOf(f, "subtitle") # {}) = subtitles},
                          ByPath), limit)
    IN  SelectSeq(rows, LAMBDA f : resolution # Null => Category(f) = resolution)

\* extract_scan_summary(): the counters under the names the report looks for, 0 without.
ScanSummary(summary) ==
    LET at(name, old) == IF name \in DOMAIN summary THEN summary[name]
                         ELSE IF old \in DOMAIN summary THEN summary[old] ELSE 0
    IN  [scanned |-> at("files_scanned", "total"), new |-> at("files_new", "new"),
         changed |-> at("files_changed", "changed")]

ScansReport(db, since, until, limit) ==
    LET rows == Limited(Sorted({j \in db.jobs : j.type = "scan"
                                               /\ Between(j.created, since, until)}, NewestJob),
                        limit)
    IN  [i \in DOMAIN rows |-> [id |-> rows[i].id, status |-> rows[i].status,
                                summary |-> ScanSummary(rows[i].summary)]]

\* The statistics of the job's film that were recorded while it ran.  The end of a job
\* that still runs is compared as text with a time in another format, in which only the
\* days are told apart.
WhileItRan(db, j, now) ==
    {s \in db.stats : /\ s.file = j.file
                      /\ j.started # Null /\ s.at >= j.started
                      /\ IF j.completed # Null THEN s.at <= j.completed
                         ELSE Period(s.at, "day") < Period(now, "day")}

\* get_transcodes_report(): again the limit comes before the codec.
TranscodesReport(db, now, codec, since, until, limit) ==
    LET rows == Limited(Sorted({j \in db.jobs : j.type = "transcode"
                                               /\ Between(j.created, since, until)}, NewestJob),
                        limit)
        latest(j) == CHOOSE s \in WhileItRan(db, j, now) :
                       \A r \in WhileItRan(db, j, now) : r.at <= s.at
        lines == [i \in DOMAIN rows |->
                    [id |-> rows[i].id, codec |-> rows[i].codec, status |-> rows[i].status,
                     change |-> IF WhileItRan(db, rows[i], now) = {} THEN Null
                                ELSE latest(rows[i]).before - latest(rows[i]).after]]
    IN  SelectSeq(lines, LAMBDA l : codec # Null => l.codec = codec)

\* get_policy_apply_report(), the list of applications and, verbose, of the films.
Applications(db, policy, since, until) ==
    Sorted({j \in db.jobs : /\ j.type = "apply"
                            /\ policy # Null => j.policy = policy
                            /\ Between(j.created, since, until)}, NewestJob)

PolicyApplyReport(db, policy, since, until, limit) ==
    LET rows == Limited(Applications(db, policy, since, until), limit)
        heavy(j, yes) == MapThenSumSet(LAMBDA i :
            Cardinality({k \in DOMAIN j.affected[i].actions :
                           (j.affected[i].actions[k] \in {"transcode", "move", "remux"}) = yes}),
            DOMAIN j.affected)
    IN  [i \in DOMAIN rows |->
           [id |-> rows[i].id, policy |-> rows[i].policy, files |-> Len(rows[i].affected),
            metadata |-> heavy(rows[i], FALSE), heavy |-> heavy(rows[i], TRUE)]]

PolicyApplyDetails(db, policy, since, until, limit) ==
    LET rows == Applications(db, policy, since, until)
    IN  Limited(FlattenSeq([i \in DOMAIN rows |-> rows[i].affected]), limit)
=============================================================================
