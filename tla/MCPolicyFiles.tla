----------------------------- MODULE MCPolicyFiles -----------------------------
(* One policy, two pages.  A few scenes interleave the pages, the list, a   *)
(* user and the daemon's death; the others save one document once, a        *)
(* document for every rule of the validation models and of the conversion.  *)
EXTENDS PolicyFiles

CONSTANTS p1, p2
MCPages == {p1, p2}

MCBlank == {"", " "}
MCTooLong == {"long name"}
MCLanguageCode == {"eng", "jpn", "no", "und"}
MCFieldName == {"title", "genre", "Genre"}
MCPluginName == {"radarr", "Radarr"}
MCPhaseName == {"organize", "Organize", "second", "Phases"}
MCPathLike == {"../up"}
MCBadRegex == {"("}
MCFileSize == {"5GB"}
MCDuration == {"30m"}
MCBadArgument == {"a;b"}
MCFolded == "ENG" :> "eng" @@ "Genre" :> "genre" @@ "Radarr" :> "radarr" @@ "AAC" :> "aac" @@ "HEVC" :> "hevc"
            @@ "4K" :> "4k" @@ "Organize" :> "organize" @@ "Phases" :> "phases" @@ "True" :> "true" @@ "Stereo" :> "stereo"
MCNumber == [number |-> 600, decimal |-> FALSE, suffix |-> ""]
MCBareForm == "6" :> << MCNumber >>
              @@ "dts-hd ma" :> << [word |-> "dts-hd"], [word |-> "ma"] >>
MCNotAlnum == {"", " ", "dts-hd ma", "../up"}
MCEscaped == "a\\b" :> "a\\\\b"
MCHasQuote == {"say \"hi\""}
MCBoolWords == {"no"}

MCBitrate(sort, unit, value) == [sort |-> sort, unit |-> unit, value |-> value]
MCBitrateOf ==
  "192k" :> MCBitrate("digits", "k", 192000) @@ "5M" :> MCBitrate("digits", "m", 5000)
    @@ "1.5m" :> MCBitrate("decimal", "m", 1500) @@ "-64k" :> MCBitrate("signed", "k", -64000)
    @@ "+64k" :> MCBitrate("signed", "k", 64000) @@ "1e0m" :> MCBitrate("exponent", "m", 1000)
    @@ "infm" :> MCBitrate("infinite", "m", 0) @@ "fast" :> MCBitrate("junk", "", 0)
    @@ "9k" :> MCBitrate("digits", "k", 9000) @@ "192000" :> MCBitrate("digits", "", 192000000)
    @@ "" :> MCBitrate("junk", "", 0)

-----------------------------------------------------------------------------
\* Conditions and expressions

MCEnglish == [track_type |-> "audio", language |-> << "eng" >>]
MCExists == [exists |-> MCEnglish]
MCMany == [count |-> [track_type |-> "subtitle", gt |-> 1, title |-> [str |-> "hi"]]]
MCConditions == {
  MCExists, MCMany,
  [exists |-> [track_type |-> "video", height |-> [gte |-> 2160], width |-> [int |-> 3840], is_default |-> TRUE]],
  [exists |-> [track_type |-> "audio", codec |-> << "dts-hd ma", "aac" >>, channels |-> [int |-> 6],
               not_commentary |-> TRUE, is_forced |-> FALSE]],
  [exists |-> [track_type |-> "audio", title |-> [contains |-> "director"]]],
  [exists |-> [track_type |-> "audio", title |-> [regex |-> "("]]],
  [exists |-> [track_type |-> "audio", height |-> [gt |-> 1, lt |-> 9]]],
  [exists |-> [track_type |-> "chapter"]],
  [count |-> [track_type |-> "audio", eq |-> -1]], [count |-> [track_type |-> "audio"]],
  [audio_is_multi_language |-> [threshold |-> 20, primary_language |-> "eng"]],
  [audio_is_multi_language |-> [track_index |-> 0]],
  [audio_is_multi_language |-> [threshold |-> 200]],
  [plugin_metadata |-> [plugin |-> "Radarr", field |-> "Genre", operator |-> "neq", value |-> [str |-> "a\\b"]]],
  [plugin_metadata |-> [plugin |-> "radarr", field |-> "genre", operator |-> "lt", value |-> [bool |-> TRUE]]],
  [plugin_metadata |-> [plugin |-> "../up", field |-> "genre", operator |-> "exists"]],
  [plugin_metadata |-> [plugin |-> "radarr", field |-> "genre"]],
  [container_metadata |-> [field |-> "title", operator |-> "gt", value |-> [str |-> "say \"hi\""]]],
  [container_metadata |-> [field |-> "title", operator |-> "contains", value |-> [str |-> "hi"]]],
  [container_metadata |-> [field |-> "title", operator |-> "exists"]],
  [is_original |-> [value |-> TRUE, language |-> "jpn"]],
  [is_dubbed |-> [value |-> FALSE, min_confidence |-> 90]],
  [and |-> << MCExists, [or |-> << MCMany, [not |-> MCExists] >>] >>],
  [or |-> << [and |-> << MCExists, MCMany >>], [not |-> [and |-> << MCExists, MCMany >>]] >>],
  [not |-> [or |-> << MCExists, MCMany >>]], [and |-> << [not |-> MCExists], MCMany >>],
  [and |-> << MCExists >>],
  [exists |-> MCEnglish, not |-> MCExists] }

MCTexts == {
  CallOf("exists", << Word("audio"), Equals("lang", Word("eng")) >>),
  CallOf("exists", << Word("audio"), Equals("height", Word("tall")) >>),
  CallOf("exists", << Word("audio"), Equals("height", Sign("[") \o << MCNumber >> \o Sign("]")) >>),
  CallOf("count", << Word("audio") >>) \o Sign(">=") \o << MCNumber >>,
  CallOf("count", << Word("audio") >>),
  CallOf("plugin", << Word("radarr"), Word("genre") >>) \o Sign("==") \o << [quoted |-> "jpn"] >>,
  CallOf("is_original", << Equals("confidence", << [number |-> 90, decimal |-> TRUE, suffix |-> ""] >>) >>),
  Word("not") \o Sign("(") \o CallOf("multi_language", << >>) \o Word("or")
    \o CallOf("container_meta", << Word("title") >>) \o Sign(")"),
  << [stray |-> "$"] >>, << >>, Word("audio") }

-----------------------------------------------------------------------------
\* Phases, by what they contain

MCRule(when) == [name |-> "r", when |-> when, then |-> << [warn |-> "hi"] >>]
MCRules(rule) == [rules |-> [match |-> "first", items |-> << rule >>]]
MCActions == {
  [skip_video_transcode |-> TRUE, skip_audio_transcode |-> FALSE, fail |-> "no"],
  [set_forced |-> [value |-> TRUE]], [set_forced |-> [track_type |-> "audio"]],
  [set_default |-> [track_type |-> "audio", language |-> "eng"]],
  [set_language |-> [track_type |-> "audio", new_language |-> "eng"]],
  [set_language |-> [track_type |-> "audio", new_language |-> "eng",
                     from_plugin_metadata |-> [plugin |-> "radarr", field |-> "genre"]]],
  [set_container_metadata |-> [field |-> "Genre", from_plugin_metadata |-> [plugin |-> "", field |-> "x"]]],
  [set_container_metadata |-> [field |-> "Genre", value |-> "hi"]], << >> }

MCTrack == [name |-> "stereo", codec |-> "AAC", channels |-> [str |-> "Stereo"],
            source |-> [prefer |-> << [language |-> << "ENG" >>], [channels |-> [max |-> TRUE]] >>]]
MCSynthesis(fields) == [audio_synthesis |-> [tracks |-> << fields @@ MCTrack >>]]
MCText(text) == [text |-> text]
MCTracks == {
  MCSynthesis(<< >>), MCSynthesis([bitrate |-> "192k", position |-> [int |-> 1], language |-> "ENG"]),
  MCSynthesis([bitrate |-> "-64k"]), MCSynthesis([channels |-> [int |-> 9]]), MCSynthesis([name |-> "../up"]),
  MCSynthesis([create_if |-> MCText(<< [stray |-> "$"] >>)]),
  MCSynthesis([create_if |-> MCExists, skip_if_exists |-> [channels |-> [gte |-> 6], codec |-> << "AAC" >>]]),
  MCSynthesis([source |-> [prefer |-> << [channels |-> [str |-> "max"]], << >> >>]]),
  [audio_synthesis |-> [tracks |-> << MCTrack, MCTrack >>]] }

MCVideo(fields) == [transcode |-> [video |-> [to |-> "HEVC"] @@ fields]]
MCVideos == {
  MCVideo([crf |-> 20, skip_if |-> [codec_matches |-> << >>, bitrate_under |-> "5M"], max_resolution |-> "4K"]),
  MCVideo([crf |-> 20, target_bitrate |-> "5M"]), MCVideo([target_bitrate |-> "infm"]),
  MCVideo([skip_if |-> [codec_matches |-> << >>]]), MCVideo([skip_if |-> << >>, ffmpeg_args |-> << >>]),
  MCVideo([ffmpeg_args |-> << "a;b" >>]), MCVideo([max_width |-> 0, min_bitrate |-> "fast"]),
  [transcode |-> [audio |-> [to |-> "aac", bitrate |-> "192000"]]], [transcode |-> << >>] }

MCMapping(fields) == [container |-> [target |-> "mp4", on_incompatible_codec |-> "transcode",
                                     codec_mappings |-> << [codec |-> "dts"] @@ fields >>]]
MCOthers == {
  MCMapping([bitrate |-> "192k"]), MCMapping([bitrate |-> "+64k"]), MCMapping([bitrate |-> "infm"]),
  MCMapping([bitrate |-> "9k"]), MCMapping([bitrate |-> ""]), MCMapping([bitrate |-> "192k", action |-> "remove"]),
  [container |-> [target |-> "avi"]],
  [keep_audio |-> [languages |-> << "eng" >>, fallback |-> [mode |-> "keep_first"]]],
  [keep_audio |-> [languages |-> << >>]], [keep_audio |-> [languages |-> << "eng" >>, minimum |-> 0]],
  [keep_subtitles |-> [languages |-> << "ENG" >>]], [keep_subtitles |-> [remove_all |-> TRUE]],
  [filter_attachments |-> [remove_all |-> TRUE], audio_actions |-> [clear_all_titles |-> TRUE]],
  [track_order |-> << "video", "audio_main" >>], [track_order |-> << "audio" >>],
  [default_flags |-> [preferred_audio_codec |-> << "AAC" >>], file_timestamp |-> [mode |-> "now"]],
  [transcription |-> [enabled |-> TRUE, reorder_commentary |-> TRUE]],
  [transcription |-> [reorder_commentary |-> TRUE, detect_commentary |-> TRUE, confidence_threshold |-> 90]],
  [skip_when |-> [mode |-> "any", audio_codec_exists |-> "", video_codec |-> << >>]],
  [skip_when |-> [mode |-> "all", resolution |-> "4K", file_size_over |-> "5GB", duration_under |-> "30m"]],
  [skip_when |-> [audio_codec_exists |-> ""]], [skip_when |-> << >>],
  [name |-> "Phases"], [on_error |-> "stop"], [depends_on |-> << "organize" >>], [run_if |-> << >>],
  [colour |-> "blue"] }

MCPhases ==
  {MCRules(MCRule(c)) : c \in MCConditions} \cup {MCRules(MCRule(MCText(t))) : t \in MCTexts}
    \cup {MCRules([MCRule(MCExists) EXCEPT !.then = << a >>]) : a \in MCActions}
    \cup MCTracks \cup MCVideos \cup MCOthers

-----------------------------------------------------------------------------
\* Documents, requests and scenes

MCConfig == [audio_languages |-> << "eng" >>]
MCOrganize == [name |-> "organize", track_order |-> << "video", "audio_main" >>]
MCDocument(phases) == [schema_version |-> 13, phases |-> phases, config |-> MCConfig]
MCBase == MCDocument(<< MCOrganize >>)
MCBody(phases) == [sent |-> [phases |-> phases, config |-> MCConfig], nulls |-> {"name"}]
MCRenamed(n) == [sent |-> [phases |-> << MCOrganize >>, config |-> MCConfig, name |-> n], nulls |-> {}]

MCQuiet == [first |-> MCBase, requests |-> {}, external |-> {}, pages |-> {p1}, loads |-> 1, saves |-> 1,
            writes |-> 0, lists |-> FALSE, deletes |-> FALSE, crashes |-> FALSE, ticks |-> 2]
MCSaves(first, body) == [MCQuiet EXCEPT !.first = first, !.requests = {body}]

MCTwoPhases(second) == MCBody(<< MCOrganize, second >>)
MCPolicies == {
  MCTwoPhases([name |-> "second", depends_on |-> << "organize" >>, run_if |-> [phase_modified |-> "organize"]]),
  MCTwoPhases([name |-> "second", run_if |-> [phase_modified |-> "", phase_completed |-> "second"]]),
  MCTwoPhases([name |-> "second", run_if |-> [phase_completed |-> "organise"]]),
  MCTwoPhases([name |-> "Organize"]), MCBody(<< >>),
  MCRenamed(" "), MCRenamed("long name"), MCRenamed("no"), MCRenamed("films"),
  [sent |-> [phases |-> << MCOrganize >>], nulls |-> {}],
  [sent |-> [phases |-> << MCOrganize >>], nulls |-> {"config"}],
  [sent |-> [config |-> MCConfig], nulls |-> {"phases"}],
  [sent |-> [phases |-> << MCOrganize >>, config |-> [audio_languages |-> << "no" >>, on_error |-> "stop"]], nulls |-> {}],
  [sent |-> [phases |-> << MCOrganize >>, config |-> [audio_languages |-> << "no" >>]], nulls |-> {}] }

MCFirsts == {MCBase @@ [x_custom |-> "kept"], Without(MCBase, {"schema_version"}),
             MCBase @@ [name |-> "long name"], MCBase @@ [track_order |-> << "video" >>],
             [MCBase EXCEPT !.config = [audio_languages |-> << "no" >>]]}

MCInterleaved ==
  [MCQuiet EXCEPT !.requests = {MCRenamed("films")}, !.external = {MCBase}, !.pages = MCPages,
                  !.writes = 2, !.ticks = 3]
MCListed ==
  [MCInterleaved EXCEPT !.pages = {p1}, !.lists = TRUE, !.deletes = TRUE, !.crashes = TRUE]

MCScenes ==
  {MCSaves(MCBase, MCBody(<< ph @@ MCOrganize >>)) : ph \in MCPhases}
    \cup {MCSaves(MCBase, b) : b \in MCPolicies}
    \cup {MCSaves(d, MCRenamed("films")) : d \in MCFirsts}
    \cup {MCInterleaved, MCListed, [MCListed EXCEPT !.first = << >>, !.writes = 1],
          [MCInterleaved EXCEPT !.pages = {p1}, !.loads = 2, !.saves = 2, !.ticks = 4]}

=============================================================================
