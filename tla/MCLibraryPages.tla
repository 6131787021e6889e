--------------------------- MODULE MCLibraryPages ---------------------------
(* An instance of LibraryPages for TLC: three films, two of them of one    *)
(* content, a job of each kind of report, a plan, and three runs on record *)
(* of as many policies.  A page holds two rows and a view at most four:    *)
(* every list with a limit is cut in some states and whole in others.      *)
EXTENDS LibraryPages

Track(type, lang, codec, height) ==
    [type |-> type, lang |-> lang, codec |-> codec, height |-> height, title |-> Null]
Video == Track("video", Null, "h264", 1080)
Sound == Track("audio", "en", "aac", Null)
Subs  == Track("subtitle", "fr", "srt", Null)
Stored(t, heard, verdict) == [heard |-> heard, verdict |-> verdict] @@ t

File(id, status, hash, tracks, scanned) ==
    [id |-> id, name |-> id, path |-> id, size |-> 2, hash |-> hash, container |-> "mkv",
     status |-> status, scanned |-> scanned, job |-> Null, plugins |-> {"p"}, tracks |-> tracks]
Job(id, file, type, status, summary, affected) ==
    [id |-> id, file |-> file, path |-> IF file = Null THEN 0 ELSE file, type |-> type,
     status |-> status, created |-> 0,
     started |-> IF status = "queued" THEN Null ELSE 0,
     completed |-> IF status = "completed" THEN 1 ELSE Null, policy |-> 1,
     codec |-> "hevc", summary |-> summary, affected |-> affected]

Old == CaptureBefore([id |-> 1, tracks |-> <<Sound, Subs>>], 1, 3)
MCInitialDb ==
    [files |-> {File(1, "ok", "h", <<Stored(Video, Null, Null),
                                     Stored(Sound, "en", "SINGLE_LANGUAGE")>>, 0),
                File(2, "ok", "h", <<Stored(Sound, Null, Null), Stored(Subs, Null, Null)>>, 1),
                File(3, "missing", Null, << >>, 1)},
     jobs |-> {Job(1, 1, "transcode", "completed", << >>, << >>),
               Job(2, 2, "transcode", "queued", << >>, << >>),
               Job(3, Null, "scan", "running", << >>, << >>)},
     plans |-> {[id |-> 1, policy |-> 1, status |-> "pending", created |-> 0],
                [id |-> 2, policy |-> 2, status |-> "pending", created |-> 1]},
     stats |-> {StatsRecord(Old, 1, 0, 2, <<Sound>>, TRUE),
                StatsRecord([Old EXCEPT !.file = 2, !.policy = 2], 2, 1, Null, << >>, FALSE),
                StatsRecord([Old EXCEPT !.file = 2, !.policy = 3], 3, 1, Null, << >>, FALSE)},
     metrics |-> {[stats |-> id, phase |-> "apply", nr |-> 1] : id \in 1 .. 3},
     snapshots |-> {}]

MCContents == {[size |-> 2, hash |-> "h", container |-> "mkv", tracks |-> <<Video, Sound>>],
               [size |-> 1, hash |-> Null, container |-> "mkv", tracks |-> Null]}
MCPhases == {[name |-> "apply", transcode |-> Null, codec |-> Null],
             [name |-> "transcode", transcode |-> "software", codec |-> "hevc"]}
MCOutcomes == {[size |-> 1, tracks |-> <<Sound>>, ok |-> TRUE],
               [size |-> Null, tracks |-> << >>, ok |-> FALSE]}

AnyFile == [status |-> Null, search |-> Null, resolution |-> Null, audioLang |-> {},
            subtitles |-> Null, limit |-> Null, offset |-> Null]
AnyJob == [status |-> Null, type |-> Null, since |-> Null, search |-> Null, by |-> Null,
           ascending |-> FALSE, limit |-> Null, offset |-> Null]
Walk(list, q) == [list |-> list, q |-> q, size |-> 1]
MCWalks == {Walk("files", AnyFile), Walk("files", [AnyFile EXCEPT !.status = "ok"]),
            Walk("transcriptions", [showAll |-> FALSE, limit |-> Null, offset |-> Null]),
            Walk("jobs", [AnyJob EXCEPT !.status = "queued"]),
            Walk("jobs", [AnyJob EXCEPT !.by = "duration"]),
            Walk("jobs", [AnyJob EXCEPT !.by = "duration", !.ascending = TRUE]),
            Walk("jobs", [AnyJob EXCEPT !.by = "status"]),
            Walk("plans", [status |-> "pending", since |-> Null, policy |-> Null,
                          limit |-> Null, offset |-> Null]),
            Walk("plugin", [plugin |-> "p", limit |-> Null, offset |-> Null])}

Option(all, before, policy) == [all |-> all, before |-> before, policy |-> policy]
MCPurgeOptions == {Option(FALSE, 0, Null), Option(FALSE, Null, 1), Option(TRUE, Null, Null),
                   Option(TRUE, 0, Null), Option(FALSE, Unreadable, Null)}
\* Bounds: a browser while no run or purge is going on; a run on one film; and runs and
\* purges while nothing else is written but films.
Bounds ==
    /\ client.stage # "idle" =>
         run.stage = "idle" /\ purge.stage = "idle" /\ db.stats = InitialDb.stats
    /\ run.stage # "idle" => run.capture.file = 2 /\ run.capture.policy = 1
    /\ run.stage # "idle" \/ purge.stage # "idle" =>
         \A table \in {"jobs", "plans", "snapshots"} : db[table] = InitialDb[table]
    /\ purge.stage # "idle" => db.files = InitialDb.files
MCLength == [day |-> 1, week |-> 2, month |-> 4]
=============================================================================
