--------------------------- MODULE MCPolicyPlan ---------------------------
(* Instances of PolicyPlan for TLC.                                        *)
EXTENDS PolicyPlan

McCanon == "eng" :> "eng" @@ "en" :> "eng" @@ "jpn" :> "jpn" @@ "und" :> "und"

T(id, type, lang, codec, title, default) ==
  [id |-> id, type |-> type, lang |-> lang, codec |-> codec, title |-> title,
   default |-> default, forced |-> FALSE, channels |-> 6, size |-> None]

(* A film and its trailer, the dialogue in two languages, a commentary, an *)
(* unlabelled track, two subtitles and a font.                             *)
Film    == [T("film", "video", None, "h264", None, TRUE) EXCEPT !.size = <<3840, 1600>>]
Trailer == [T("trailer", "video", None, "hevc", None, FALSE) EXCEPT !.size = <<1280, 720>>]
English == T("english", "audio", "en", "aac", None, FALSE)
Japan   == [T("japan", "audio", "jpn", "flac", "Stereo", TRUE) EXCEPT !.channels = 2]
Remarks == T("remarks", "audio", "eng", "aac", "Commentary", TRUE)
Nameless == [T("nameless", "audio", None, "aac", None, FALSE) EXCEPT !.channels = None]
Music   == T("score", "audio", "eng", "pcm", "Score", FALSE)
Signs   == [T("signs", "subtitle", "jpn", "subrip", None, FALSE) EXCEPT !.forced = TRUE]
Words   == T("words", "subtitle", "eng", "pgs", None, TRUE)
Font    == T("font", "attachment", None, "ttf", None, FALSE)

Audios == {<<Japan, English>>, <<Japan, English, Remarks>>, <<Remarks, Japan, English>>,
           <<English, Remarks, Japan>>, <<Nameless, Japan>>, <<Remarks, English, Music, Japan>>,
           <<Music, Japan>>, <<Japan>>, << >>}
Texts  == {<<Words, Signs>>, <<Signs>>, << >>}

McFiles ==
  {[name |-> "mkv", format |-> "mkv", tracks |-> <<Film>> \o a \o s \o f, tags |-> "title" :> "Old"]
     : a \in Audios, s \in Texts, f \in {<<Font>>, << >>}}
  \cup {[name |-> "avi", format |-> "avi", tracks |-> <<Film>> \o a, tags |-> << >>] : a \in Audios}
  \cup {[name |-> "mkv", format |-> "mkv", tracks |-> v \o <<English, Japan, Words>>, tags |-> << >>]
          : v \in {<<Trailer, Film>>, << >>}}

NoFlags == [firstVideo |-> FALSE, preferredAudio |-> FALSE, preferredSubtitle |-> FALSE,
            clearOthers |-> FALSE, subtitleWhenAudioDiffers |-> FALSE,
            forcedWhenAudioDiffers |-> FALSE, audioCodecs |-> None]
Flags == [NoFlags EXCEPT !.firstVideo = TRUE, !.preferredAudio = TRUE, !.clearOthers = TRUE]

(* A phase that configures nothing.                                        *)
Blank ==
  [audioLanguages |-> <<"eng", "jpn">>, subtitleLanguages |-> <<"eng">>,
   trackOrder |-> <<"video", "audio_main", "audio_alternate", "subtitle_main",
                    "subtitle_forced", "audio_commentary", "subtitle_commentary", "attachment">>,
   ordersTracks |-> FALSE, setsDefaults |-> FALSE, defaultFlags |-> Flags,
   keepAudio |-> None, keepSubtitles |-> None, filterAttachments |-> None,
   container |-> None, rules |-> None, transcription |-> None,
   audioActions |-> None, subtitleActions |-> None, videoActions |-> None,
   analysed |-> None, plugins |-> None, onError |-> "continue",
   audioSynthesis |-> None, transcode |-> None, audioTranscode |-> None]

Keep(langs, fallback) ==
  [languages |-> langs, minimum |-> 1, fallback |-> fallback,
   music |-> "filter", sfx |-> "drop", nonSpeech |-> "exempt"]

Ordering  == [Blank EXCEPT !.ordersTracks = TRUE]
Flagging  == [Blank EXCEPT !.setsDefaults = TRUE,
                !.defaultFlags = [Flags EXCEPT !.preferredSubtitle = TRUE, !.audioCodecs = <<"flac", "aac">>]]
Foreign   == [Blank EXCEPT !.setsDefaults = TRUE, !.audioLanguages = <<"eng">>,
                !.defaultFlags = [Flags EXCEPT !.subtitleWhenAudioDiffers = TRUE,
                                               !.forcedWhenAudioDiffers = TRUE]]
Filtering(langs, fallback) ==
  [Blank EXCEPT !.keepAudio = Keep(langs, fallback),
                !.keepSubtitles = [removeAll |-> FALSE, preserveForced |-> TRUE, languages |-> <<"eng">>]]
Stripping == [Blank EXCEPT !.filterAttachments = [removeAll |-> TRUE],
                !.keepSubtitles = [removeAll |-> TRUE, preserveForced |-> TRUE, languages |-> None]]
Container(target, mode) ==
  [Blank EXCEPT !.container = [target |-> target, mode |-> mode, mappings |-> "pgs" :> "remove"],
                !.setsDefaults = FALSE]
Cleaning  == [Blank EXCEPT !.ordersTracks = TRUE,
                !.subtitleActions = [forced |-> TRUE, default |-> TRUE, titles |-> FALSE],
                !.audioActions = [forced |-> TRUE, default |-> FALSE, titles |-> TRUE]]
Everyday     == [Filtering(<<"eng">>, "keep_first") EXCEPT !.setsDefaults = TRUE, !.defaultFlags = Flags]

Exists(type, filter) == [kind |-> "exists", type |-> type, filter |-> filter]
Tag(field, value) == [kind |-> "set_tag", type |-> "video", lang |-> None, field |-> field,
                      value |-> value, from |-> None, what |-> None, flag |-> None]
Flag(kind, type, lang, flag, value) ==
  [kind |-> kind, type |-> type, lang |-> lang, flag |-> flag, value |-> value,
   from |-> None, field |-> None, what |-> None]
Skip(what) == [Tag(None, None) EXCEPT !.kind = "skip", !.what = what]

Ruled(match) ==
  [Filtering(<<"eng">>, "keep_all") EXCEPT !.keepSubtitles = None, !.rules =
     [match |-> match,
      items |-> << [when |-> [kind |-> "not", of |-> Exists("subtitle", "forced" :> TRUE)],
                    then |-> <<Skip("track_filter"), Tag("title", "New")>>, else |-> None],
                   [when |-> [kind |-> "count", type |-> "audio",
                              filter |-> ("language" :> {"eng"} @@ "notCommentary" :> TRUE),
                              op |-> "gte", value |-> 1],
                    then |-> <<Flag("set_forced", "subtitle", "eng", "forced", TRUE)>>,
                    else |-> <<Tag("title", "")>>] >>]]

\* Order and flags, and order, filters and flags, in one phase: more than one evaluation.
Arranging == [Ordering EXCEPT !.setsDefaults = TRUE]
Heard == [Ordering EXCEPT !.transcription =
            [detectCommentary |-> TRUE, updateLanguage |-> TRUE, updateTitle |-> TRUE],
            !.audioActions = [forced |-> FALSE, default |-> FALSE, titles |-> TRUE]]
NoClear == [Flagging EXCEPT !.defaultFlags.clearOthers = FALSE, !.audioActions = None]
Strict == [Everyday EXCEPT !.onError = "fail"]
Skipping == [Everyday EXCEPT !.onError = "skip"]

\* Every kind of condition and what a plugin knows: a dubbed-looking film in a series.
Curious ==
  [Blank EXCEPT
     !.analysed = "english" :> [multi |-> TRUE, primary |-> "eng", secondary |-> {20}],
     !.plugins  = "radarr.language" :> "jpn" @@ "radarr.year" :> 1999,
     !.rules =
       [match |-> "all",
        items |-> << [when |-> [kind |-> "and", of |-> <<
                         [kind |-> "multi", index |-> None, primary |-> "eng", threshold |-> 5],
                         [kind |-> "plugin", key |-> "radarr.year", op |-> "lt", value |-> 2000]>>],
                      then |-> <<[Flag("set_language", "audio", None, None, None)
                                    EXCEPT !.from = "radarr.language"]>>, else |-> None],
                     [when |-> [kind |-> "or", of |-> <<
                         [kind |-> "original", value |-> TRUE, lang |-> None, confidence |-> 0],
                         [kind |-> "tag", key |-> "title", op |-> "exists", value |-> None]>>],
                      then |-> <<Flag("set_default", "subtitle", "eng", "default", TRUE),
                                 [Tag(None, None) EXCEPT !.kind = "fail"]>>,
                      else |-> None] >>]]
Dubbed == [Curious EXCEPT !.rules.items[2].when.of[2].op = "neq"]

\* Synthesis: a stereo AAC of the best track, in addition to what is there or for want of it.
Synth(name, codec, channels, prefer) ==
  [name |-> name, codec |-> codec, channels |-> channels, prefer |-> prefer, createIf |-> None,
   skipIfExists |-> "codec" :> {codec} @@ "channels" :> <<"lte", channels>>,
   title |-> "inherit", lang |-> "inherit"]
Loudest == <<[language |-> {"jpn"}], [notCommentary |-> TRUE, channels |-> [kind |-> "max"]]>>
Quietest == <<[channels |-> [kind |-> "min"]], [codec |-> {"flac"}]>>
Stereo  == Synth("stereo", "aac", 2, Loudest)
Sixth   == Synth("sixth", "ac3", 6, <<[channels |-> [kind |-> "exact", count |-> 6]]>>)
Plain   == [Synth("plain", "ac3", 2, <<[language |-> {"und"}]>>) EXCEPT !.title = "Plain", !.lang = "und"]
Opus    == Synth("opus", "opus", 2, << >>)
Wanted  == [Synth("wanted", "aac", 2, Quietest) EXCEPT !.skipIfExists = None,
             !.createIf = [kind |-> "not", of |-> Exists("audio", "title" :> {"Wanted"})],
             !.title = "Wanted"]
Making(defs) == [Blank EXCEPT !.audioSynthesis = defs]

\* Transcode: to HEVC, of what is not HEVC or of what is too large; the audio with it.
Video(max, skipIf) == [to |-> "hevc", max |-> max, skipIf |-> skipIf]
AudioTo(to, preserve) == [to |-> to, preserve |-> preserve]
Encoding(v, a) == [Blank EXCEPT !.transcode = v, !.audioTranscode = a]

McReencoding ==
  {Making(defs) : defs \in {<<Stereo>>, <<Sixth, Plain>>, <<Opus, Stereo>>, <<Wanted>>}}
  \cup {Encoding(Video(max, skipIf), a) :
          max \in {None, <<1920, 1080>>},
          skipIf \in {None, [codecs |-> {"hevc"}, within |-> <<1920, 1080>>]},
          a \in {None, AudioTo("aac", {"flac"})}}
  \cup {Encoding(None, AudioTo("aac", keep)) : keep \in {{"flac"}, {"flac", "aac"}}}
  \* Several operations planned from one file_info.
  \cup {[Filtering(<<"jpn">>, "keep_all") EXCEPT !.audioSynthesis = <<Stereo>>, !.onError = "fail"],
         [Filtering(<<"eng">>, "keep_all") EXCEPT !.transcode = Video(None, None),
                                                  !.audioTranscode = AudioTo("aac", {"aac"})],
         [Encoding(Video(None, None), None) EXCEPT !.audioSynthesis = <<Stereo>>]}

McPolicies ==
  McReencoding \cup
  {Ordering, Flagging, Foreign, Stripping, Cleaning, Ruled("first"), Ruled("all"),
   Everyday, Strict, Skipping, Arranging, Heard, NoClear, Curious, Dubbed}
  \cup {Filtering(langs, f) : langs \in {<<"eng">>, <<"jpn">>},
                              f \in {"keep_all", "keep_first", "content_language", "error"}}
  \cup {Container("mp4", mode) : mode \in {"error", "skip", "transcode"}}
  \cup {Container("mkv", "error")}

Hears(kind, lang) == [kind |-> kind, lang |-> lang, sure |-> TRUE]
McHearings ==
  {"japan" :> Hears("commentary", "eng") @@ "nameless" :> Hears("main", "jpn")}

\* The counterexample: an audio filter and the default flags in one phase.
OnePhase == {Everyday}
===========================================================================
