---------------------------- MODULE PolicyDocument ----------------------------
(***************************************************************************)
(* What the validation models (policy/pydantic_models) accept.             *)
(*                                                                         *)
(* A document is a record with the keys the YAML mapping has; a key with   *)
(* the value null is left out.  Documents are well typed, except that a    *)
(* value which may have several types carries its type as the one field of *)
(* a record: [int |-> 6], [str |-> "5.1"], [bool |-> TRUE],                *)
(* [text |-> words] for an expression.  A list that may be written as one  *)
(* scalar is always the list, `is_original: true` is [value |-> TRUE], a   *)
(* single `then` action is the list of it, and fractions are percentages.  *)
(* No operation looks at more of a string than the sets and functions      *)
(* below tell of it; a string has blanks at its ends only when it has      *)
(* nothing else.                                                           *)
(*                                                                         *)
(* A verdict is "ok", "invalid" (pydantic's ValidationError, which lists   *)
(* the errors of every field) or "raises": a validator let an exception    *)
(* through that is no ValueError, and pydantic passes it on.               *)
(***************************************************************************)
EXTENDS Expressions

CONSTANTS
  Blank,          \* strings that strip() leaves empty
  TooLong,        \* display names of more than 200 characters
  LanguageCode,   \* strings of two or three lower-case letters
  FieldName,      \* strings that name a metadata field once stripped
  PluginName,     \* strings that name a plugin once stripped and folded
  PhaseName,      \* strings PHASE_NAME_PATTERN matches
  PathLike,       \* strings with a path separator or two dots
  BadRegex,       \* strings re.compile() refuses
  FileSize,       \* strings parse_file_size() reads
  Duration,       \* strings parse_duration() reads
  BadArgument,    \* ffmpeg arguments too long or with a shell metacharacter
  BitrateOf       \* the bitrates, with how they are written (see Bitrate)

(***************************************************************************)
(* How a bitrate string is written: [sort, unit, value].  The unit is "k", *)
(* "m" or "", the value in thousandths of the unit, and the sort tells who *)
(* reads the number before the unit: "digits" and "signed" (a sign, an     *)
(* underscore) int(), these, "decimal" (digits, a point, digits) and       *)
(* "exponent" float(), digits and decimals the pattern of the synthesis    *)
(* and mapping bitrates; int() of an "infinite" float raises OverflowError;*)
(* nobody reads "junk".                                                    *)
(***************************************************************************)
Bitrate(w) == BitrateOf[w]

Worst(verdicts) == IF "raises" \in verdicts THEN "raises"
                   ELSE IF "invalid" \in verdicts THEN "invalid" ELSE "ok"
Check(holds) == IF holds THEN "ok" ELSE "invalid"
Both(fields, after) == IF fields = "ok" THEN after ELSE fields
Each(list, Verdict(_)) == Worst({Verdict(list[i]) : i \in DOMAIN list})
If(r, key, Verdict(_)) == IF Given(r, key) THEN Verdict(r[key]) ELSE "ok"
Keys(r, required, optional) ==
  Check(required \subseteq DOMAIN r /\ DOMAIN r \subseteq required \cup optional)
OneOf(r, keys) == Cardinality(keys \cap DOMAIN r) = 1

RESERVED_PHASE_NAMES == {"config", "schema_version", "phases"}
VALID_SYNTHESIS_CODECS == {"eac3", "aac", "ac3", "opus", "flac"}
VALID_CHANNEL_CONFIGS == {"mono", "stereo", "5.1", "7.1"}
TRACK_TYPES == {"video", "audio_main", "audio_alternate", "audio_commentary",
                "audio_music", "audio_sfx", "audio_non_speech", "subtitle_main",
                "subtitle_forced", "subtitle_commentary", "attachment"}
VALID_RESOLUTIONS == {"480p", "720p", "1080p", "1440p", "4k", "8k"}
SKIP_RESOLUTIONS == {"480p", "720p", "1080p", "1440p", "2160p", "4k"}
VALID_VIDEO_CODECS == {"h264", "hevc", "vp9", "av1"}
VALID_PRESETS == {"ultrafast", "superfast", "veryfast", "faster", "fast",
                  "medium", "slow", "slower", "veryslow"}
X264_X265_TUNES == {"film", "animation", "grain", "stillimage", "fastdecode",
                    "zerolatency"}
MAX_FFMPEG_ARGS_COUNT == 50

Languages(list) == Check(\A i \in DOMAIN list : list[i] \in LanguageCode)
Regexes(list) == Check(\A i \in DOMAIN list : list[i] \notin BadRegex)
Percentage(n) == Check(n \in 0 .. 100)

-----------------------------------------------------------------------------
\* Conditions

OPERATORS == {"eq", "lt", "lte", "gt", "gte"}

ComparisonModel(c) == Both(Keys(c, {}, OPERATORS), Check(OneOf(c, OPERATORS)))

\* A number or a comparison.
NumberOrComparison(c) == IF Given(c, "int") THEN Keys(c, {"int"}, {}) ELSE ComparisonModel(c)

TitleMatchModel(t) ==
  Both(Worst({Keys(t, {}, {"contains", "regex"}),
              If(t, "regex", LAMBDA x : Check(x \notin BadRegex))}),
       Check(OneOf(t, {"contains", "regex"})))

FILTERS == {"language", "codec", "is_default", "is_forced", "not_commentary",
            "channels", "width", "height", "title"}

TrackFiltersModel(f) ==
  Worst({If(f, "channels", NumberOrComparison), If(f, "width", NumberOrComparison),
         If(f, "height", NumberOrComparison),
         If(f, "title", LAMBDA t : IF Given(t, "str") THEN "ok" ELSE TitleMatchModel(t))})

TrackType(x) == Check(x \in {"video", "audio", "subtitle", "attachment"})

ExistsConditionModel(c) ==
  Worst({Keys(c, {"track_type"}, FILTERS), If(c, "track_type", TrackType), TrackFiltersModel(c)})

CountConditionModel(c) ==
  Both(Worst({Keys(c, {"track_type"}, FILTERS \cup OPERATORS),
              If(c, "track_type", TrackType), TrackFiltersModel(c)}),
       Check(OneOf(c, OPERATORS)))

AudioIsMultiLanguageModel(c) ==
  Worst({Keys(c, {}, {"track_index", "threshold", "primary_language"}),
         If(c, "threshold", Percentage)})

\* What follows the fields of both metadata conditions; True is an int.
ComparesMetadata(c) ==
  LET op == IF Given(c, "operator") THEN c.operator ELSE "eq"
  IN  Check(\/ op = "exists"
            \/ /\ Given(c, "value")
               /\ op \in {"lt", "lte", "gt", "gte"} => ~ Given(c.value, "str"))

MetadataOperator(op) == Check(op \in OPERATORS \cup {"neq", "contains", "exists"})

PluginMetadataConditionModel(c) ==
  Both(Worst({Keys(c, {"plugin", "field"}, {"value", "operator"}),
              If(c, "plugin", LAMBDA x : Check(x \in PluginName)),
              If(c, "field", LAMBDA x : Check(x \in FieldName)),
              If(c, "operator", MetadataOperator)}),
       ComparesMetadata(c))

ContainerMetadataConditionModel(c) ==
  Both(Worst({Keys(c, {"field"}, {"value", "operator"}),
              If(c, "field", LAMBDA x : Check(x \in FieldName)),
              If(c, "operator", MetadataOperator)}),
       ComparesMetadata(c))

IsOriginalConditionModel(c) ==
  Worst({Keys(c, {}, {"value", "min_confidence", "language"}),
         If(c, "min_confidence", Percentage)})

IsDubbedConditionModel(c) == IsOriginalConditionModel(c)

KINDS == {"exists", "count", "audio_is_multi_language", "plugin_metadata",
          "container_metadata", "is_original", "is_dubbed", "and", "or", "not"}

RECURSIVE ConditionModel(_)
ConditionModel(c) ==
  Both(Worst({Keys(c, {}, KINDS),
              If(c, "exists", ExistsConditionModel), If(c, "count", CountConditionModel),
              If(c, "audio_is_multi_language", AudioIsMultiLanguageModel),
              If(c, "plugin_metadata", PluginMetadataConditionModel),
              If(c, "container_metadata", ContainerMetadataConditionModel),
              If(c, "is_original", IsOriginalConditionModel),
              If(c, "is_dubbed", IsDubbedConditionModel),
              If(c, "and", LAMBDA cs : Each(cs, ConditionModel)),
              If(c, "or", LAMBDA cs : Each(cs, ConditionModel)),
              If(c, "not", ConditionModel)}),
       Check(/\ OneOf(c, KINDS)
             /\ \A k \in {"and", "or"} \cap DOMAIN c : Len(c[k]) >= 2))

-----------------------------------------------------------------------------
\* Rules

SetForcedActionModel(a) ==
  Worst({Keys(a, {}, {"track_type", "language", "value"}),
         If(a, "track_type", LAMBDA t : Check(t = "subtitle"))})

FlaggedType(t) == Check(t \in {"video", "audio", "subtitle"})

SetDefaultActionModel(a) ==
  Worst({Keys(a, {"track_type"}, {"language", "value"}), If(a, "track_type", FlaggedType)})

PluginMetadataReferenceModel(p) ==
  Worst({Keys(p, {"plugin", "field"}, {}),
         Check(\A k \in DOMAIN p : p[k] \notin Blank)})

SetLanguageActionModel(a) ==
  Both(Worst({Keys(a, {"track_type"}, {"new_language", "from_plugin_metadata", "match_language"}),
              If(a, "track_type", FlaggedType),
              If(a, "from_plugin_metadata", PluginMetadataReferenceModel)}),
       Check(OneOf(a, {"new_language", "from_plugin_metadata"})))

SetContainerMetadataActionModel(a) ==
  Both(Worst({Keys(a, {"field"}, {"value", "from_plugin_metadata"}),
              If(a, "field", LAMBDA f : Check(f \in FieldName)),
              If(a, "from_plugin_metadata", PluginMetadataReferenceModel)}),
       Check(OneOf(a, {"value", "from_plugin_metadata"})))

ACTION_KINDS == {"skip_video_transcode", "skip_audio_transcode", "skip_track_filter",
            "warn", "fail", "set_forced", "set_default", "set_language",
            "set_container_metadata"}

ActionModel(a) ==
  Both(Worst({Keys(a, {}, ACTION_KINDS), If(a, "set_forced", SetForcedActionModel),
              If(a, "set_default", SetDefaultActionModel),
              If(a, "set_language", SetLanguageActionModel),
              If(a, "set_container_metadata", SetContainerMetadataActionModel)}),
       Check(DOMAIN a # {}))

(***************************************************************************)
(* validate_when_expression turns a ParseError into a ValueError; a        *)
(* ValueError of the parser is one already, and what is neither (LexError, *)
(* TypeError) leaves the validator as it is.                               *)
(***************************************************************************)
ExpressionVerdict(text) ==
  LET parsed == Parse(text)
  IN  IF Given(parsed, "condition") THEN "ok"
      ELSE IF parsed.error \in {"ParseError", "ValueError"} THEN "invalid" ELSE "raises"

ConditionalRuleModel(r) ==
  Worst({Keys(r, {"name", "when", "then"}, {"else"}),
         If(r, "name", LAMBDA n : Check(n \notin Blank)),
         If(r, "when", LAMBDA w : IF Given(w, "text") THEN ExpressionVerdict(w.text)
                                  ELSE ConditionModel(w)),
         If(r, "then", LAMBDA as : Each(as, ActionModel)),
         If(r, "else", LAMBDA as : Each(as, ActionModel))})

RulesBlockModel(b) ==
  Worst({Keys(b, {"match", "items"}, {}),
         If(b, "match", LAMBDA m : Check(m \in {"first", "all"})),
         If(b, "items", LAMBDA rs : Both(Each(rs, ConditionalRuleModel), Check(rs # << >>)))})

-----------------------------------------------------------------------------
\* Track selection, containers, flags

AudioFilterModel(f) ==
  Worst({Keys(f, {"languages"},
              {"fallback", "minimum", "keep_music_tracks", "exclude_music_from_language_filter",
               "keep_sfx_tracks", "exclude_sfx_from_language_filter", "keep_non_speech_tracks",
               "exclude_non_speech_from_language_filter"}),
         If(f, "languages", LAMBDA ls : Worst({Check(ls # << >>), Languages(ls)})),
         If(f, "fallback", LAMBDA b :
              Worst({Keys(b, {"mode"}, {}),
                     If(b, "mode", LAMBDA m :
                          Check(m \in {"content_language", "keep_all", "keep_first", "error"}))})),
         If(f, "minimum", LAMBDA n : Check(n >= 1))})

SubtitleFilterModel(f) ==
  Worst({Keys(f, {}, {"languages", "preserve_forced", "remove_all"}),
         If(f, "languages", Languages)})

\* The switches of the attachment filter and of the clear_all_* actions.
AttachmentFilterModel(f) == Keys(f, {}, {"remove_all"})
ClearActionsModel(a) == Keys(a, {}, {"clear_all_forced", "clear_all_default", "clear_all_titles"})

(***************************************************************************)
(* A bitrate of a codec mapping: k needs what int() reads (a sign          *)
(* passes), m what float() reads, and the rate must lie between 32 and     *)
(* 1536 kbit/s.  int() of an infinite rate raises OverflowError.           *)
(***************************************************************************)
MappingBitrate(w) ==
  LET b == Bitrate(w)
      kbps == IF b.unit = "k" THEN b.value \div 1000 ELSE b.value
  IN  IF w \in Blank THEN "ok"
      ELSE IF b.unit = "m" /\ b.sort = "infinite" THEN "raises"
      ELSE Check(/\ \/ b.unit = "k" /\ b.sort \in {"digits", "signed"}
                    \/ b.unit = "m" /\ b.sort \in {"digits", "signed", "decimal", "exponent"}
                 /\ kbps \in 32 .. 1536)

CodecTranscodeMappingModel(m) ==
  Worst({Keys(m, {"codec"}, {"bitrate", "action"}),
         If(m, "codec", LAMBDA c : Check(c \notin Blank)),
         If(m, "bitrate", MappingBitrate),
         If(m, "action", LAMBDA a : Check(a \in {"transcode", "convert", "remove"}))})

ContainerModel(c) ==
  Worst({Keys(c, {"target"}, {"on_incompatible_codec", "codec_mappings", "preserve_metadata"}),
         If(c, "target", LAMBDA t : Check(t \in {"mkv", "mp4"})),
         If(c, "on_incompatible_codec", LAMBDA m : Check(m \in {"error", "skip", "transcode"})),
         If(c, "codec_mappings", LAMBDA ms : Each(ms, CodecTranscodeMappingModel))})

FileTimestampModel(t) ==
  Worst({Keys(t, {}, {"mode", "fallback", "date_source"}),
         If(t, "mode", LAMBDA m : Check(m \in {"preserve", "release_date", "now"})),
         If(t, "fallback", LAMBDA m : Check(m \in {"preserve", "now", "skip"})),
         If(t, "date_source", LAMBDA s : Check(s \in {"auto", "radarr", "sonarr"}))})

DefaultFlagsModel(f) ==
  Keys(f, {}, {"set_first_video_default", "set_preferred_audio_default",
               "set_preferred_subtitle_default", "clear_other_defaults",
               "set_subtitle_default_when_audio_differs",
               "set_subtitle_forced_when_audio_differs", "preferred_audio_codec"})

\* reorder_commentary without detect_commentary passes: the validator returns it.
TranscriptionPolicyModel(t) ==
  Worst({Keys(t, {}, {"enabled", "update_language_from_transcription",
                      "update_title_from_classification", "confidence_threshold",
                      "detect_commentary", "reorder_commentary"}),
         If(t, "confidence_threshold", Percentage)})

-----------------------------------------------------------------------------
\* Audio synthesis

ChannelPreferenceModel(p) ==
  Both(Keys(p, {}, {"max", "min"}),
       Check(Cardinality({k \in DOMAIN p : p[k]}) = 1))

PreferenceCriterionModel(c) ==
  Both(Worst({Keys(c, {}, {"language", "not_commentary", "channels", "codec"}),
              If(c, "channels", LAMBDA n :
                   IF Given(n, "str") THEN Check(n.str \in {"max", "min"})
                   ELSE IF Given(n, "int") THEN "ok" ELSE ChannelPreferenceModel(n))}),
       Check(DOMAIN c # {}))

SourcePreferencesModel(s) ==
  Worst({Keys(s, {"prefer"}, {}),
         If(s, "prefer", LAMBDA cs : Both(Each(cs, PreferenceCriterionModel), Check(cs # << >>)))})

SkipIfExistsModel(s) ==
  Worst({Keys(s, {}, {"codec", "channels", "language", "not_commentary"}),
         If(s, "channels", NumberOrComparison)})

PatternBitrate(w) == Bitrate(w).sort \in {"digits", "decimal"}

\* The text of create_if is not parsed here, unlike the `when` of a rule.
SynthesisTrackDefinitionModel(t) ==
  Worst({Keys(t, {"name", "codec", "channels", "source"},
              {"bitrate", "create_if", "skip_if_exists", "title", "language", "position"}),
         If(t, "name", LAMBDA n : Check(n \notin Blank \cup PathLike)),
         If(t, "codec", LAMBDA c : Check(Fold(c) \in VALID_SYNTHESIS_CODECS)),
         If(t, "channels", LAMBDA n : Check(IF Given(n, "int") THEN n.int \in 1 .. 8
                                            ELSE Fold(n.str) \in VALID_CHANNEL_CONFIGS)),
         If(t, "source", SourcePreferencesModel),
         If(t, "bitrate", LAMBDA b : Check(PatternBitrate(b))),
         If(t, "create_if", LAMBDA w : IF Given(w, "text") THEN "ok" ELSE ConditionModel(w)),
         If(t, "skip_if_exists", SkipIfExistsModel),
         If(t, "language", LAMBDA l : Check(l = "inherit" \/ Fold(l) \in LanguageCode)),
         If(t, "position", LAMBDA n : Check(IF Given(n, "int") THEN n.int >= 1
                                            ELSE n.str \in {"after_source", "end"}))})

AudioSynthesisModel(a) ==
  Both(Worst({Keys(a, {"tracks"}, {}),
              If(a, "tracks", LAMBDA ts :
                   Both(Each(ts, SynthesisTrackDefinitionModel), Check(ts # << >>)))}),
       Check(\A i, j \in DOMAIN a.tracks : a.tracks[i].name = a.tracks[j].name => i = j))

-----------------------------------------------------------------------------
\* Transcoding

\* parse_bitrate() as a verdict: a number, None, or OverflowError.
ParseBitrate(w) ==
  LET b == Bitrate(w)
  IN  IF w \in Blank THEN "invalid"
      ELSE IF b.unit = "" THEN Check(b.sort \in {"digits", "signed"})
      ELSE IF b.sort = "infinite" THEN "raises"
      ELSE Check(b.sort # "junk")

Resolution(x) == Check(Fold(x) \in VALID_RESOLUTIONS)

SkipConditionModel(s) ==
  Worst({Keys(s, {}, {"codec_matches", "resolution_within", "bitrate_under"}),
         If(s, "resolution_within", Resolution), If(s, "bitrate_under", ParseBitrate)})

FfmpegArgs(args) ==
  Check(/\ Len(args) <= MAX_FFMPEG_ARGS_COUNT
        /\ \A i \in DOMAIN args : args[i] \notin BadArgument)

\* The rules on the values of a video target, checked again by the dataclass.
VideoTargetValues(v) ==
  Worst({If(v, "to", LAMBDA c : Check(Fold(c) \in VALID_VIDEO_CODECS)),
         If(v, "crf", LAMBDA n : Check(n \in 0 .. 51)),
         If(v, "preset", LAMBDA x : Check(x \in VALID_PRESETS)),
         If(v, "tune", LAMBDA x : Check(x \in X264_X265_TUNES)),
         If(v, "target_bitrate", ParseBitrate), If(v, "min_bitrate", ParseBitrate),
         If(v, "max_bitrate", ParseBitrate),
         If(v, "max_resolution", Resolution),
         If(v, "max_width", LAMBDA n : Check(n >= 1)),
         If(v, "max_height", LAMBDA n : Check(n >= 1))})

OneQualityMode(v) == Check(~ (Given(v, "crf") /\ Given(v, "target_bitrate")))

VideoTranscodeConfigModel(v) ==
  Both(Worst({Keys(v, {"to"},
                   {"skip_if", "crf", "preset", "tune", "target_bitrate", "min_bitrate",
                    "max_bitrate", "two_pass", "max_resolution", "max_width", "max_height",
                    "scale_algorithm", "upscale", "hw", "hw_fallback", "ffmpeg_args"}),
              If(v, "skip_if", SkipConditionModel),
              VideoTargetValues(v),
              If(v, "scale_algorithm", LAMBDA x : Check(x \in {"lanczos", "bicubic", "bilinear"})),
              If(v, "hw", LAMBDA x : Check(x \in {"auto", "nvenc", "qsv", "vaapi", "none"})),
              If(v, "ffmpeg_args", FfmpegArgs)}),
       OneQualityMode(v))

VALID_AUDIO_CODECS == {"aac", "ac3", "eac3", "flac", "opus", "mp3", "truehd", "dts",
                       "pcm_s16le", "pcm_s24le"}

AudioTargetValues(a) ==
  Worst({If(a, "to", LAMBDA c : Check(Fold(c) \in VALID_AUDIO_CODECS)),
         If(a, "bitrate", ParseBitrate)})

AudioTranscodeConfigModel(a) ==
  Worst({Keys(a, {}, {"preserve", "to", "bitrate"}), AudioTargetValues(a)})

TranscodeV6Model(t) ==
  Worst({Keys(t, {}, {"video", "audio"}), If(t, "video", VideoTranscodeConfigModel),
         If(t, "audio", AudioTranscodeConfigModel)})

-----------------------------------------------------------------------------
\* Phases and the policy

OnError(m) == Check(m \in {"skip", "continue", "fail"})

GlobalConfigModel(c) ==
  Worst({Keys(c, {}, {"audio_languages", "subtitle_languages", "commentary_patterns", "on_error"}),
         If(c, "audio_languages", Languages), If(c, "subtitle_languages", Languages),
         If(c, "commentary_patterns", Regexes), If(c, "on_error", OnError)})

SKIP_KEYS == {"video_codec", "audio_codec_exists", "subtitle_language_exists", "container",
              "resolution", "resolution_under", "file_size_under", "file_size_over",
              "duration_under", "duration_over"}

\* An empty codec or language turns to None before the conditions are counted.
PhaseSkipConditionModel(s) ==
  LET SkipResolution(x) == Check(Fold(x) \in SKIP_RESOLUTIONS)
      Size(x) == Check(x \in FileSize)
      Time(x) == Check(x \in Duration)
  IN  Both(Worst({Keys(s, {"mode"}, SKIP_KEYS),
                  If(s, "mode", LAMBDA m : Check(m \in {"any", "all"})),
                  If(s, "resolution", SkipResolution), If(s, "resolution_under", SkipResolution),
                  If(s, "file_size_under", Size), If(s, "file_size_over", Size),
                  If(s, "duration_under", Time), If(s, "duration_over", Time)}),
           Check(\E k \in SKIP_KEYS \cap DOMAIN s :
                   k \in {"audio_codec_exists", "subtitle_language_exists"} => s[k] # ""))

RunIfConditionModel(r) ==
  Both(Keys(r, {}, {"phase_modified", "phase_completed"}),
       Check(OneOf(r, {"phase_modified", "phase_completed"})))

PHASE_KEYS == {"container", "keep_audio", "keep_subtitles", "filter_attachments", "track_order",
               "default_flags", "rules", "audio_synthesis", "transcode", "transcription",
               "file_timestamp", "audio_actions", "subtitle_actions", "video_actions",
               "skip_when", "depends_on", "run_if", "on_error"}

PhaseModel(p) ==
  Worst({Keys(p, {"name"}, PHASE_KEYS),
         If(p, "name", LAMBDA n : Check(n \in PhaseName /\ Fold(n) \notin RESERVED_PHASE_NAMES)),
         If(p, "container", ContainerModel), If(p, "keep_audio", AudioFilterModel),
         If(p, "keep_subtitles", SubtitleFilterModel),
         If(p, "filter_attachments", AttachmentFilterModel),
         If(p, "track_order", LAMBDA ts :
              Check(ts # << >> /\ \A i \in DOMAIN ts : ts[i] \in TRACK_TYPES)),
         If(p, "default_flags", DefaultFlagsModel), If(p, "rules", RulesBlockModel),
         If(p, "audio_synthesis", AudioSynthesisModel), If(p, "transcode", TranscodeV6Model),
         If(p, "transcription", TranscriptionPolicyModel),
         If(p, "file_timestamp", FileTimestampModel),
         If(p, "audio_actions", ClearActionsModel), If(p, "subtitle_actions", ClearActionsModel),
         If(p, "video_actions", ClearActionsModel),
         If(p, "skip_when", PhaseSkipConditionModel), If(p, "run_if", RunIfConditionModel),
         If(p, "on_error", OnError)})

UniqueNames(phases) ==
  \A i, j \in DOMAIN phases : Fold(phases[i].name) = Fold(phases[j].name) => i = j

\* The name a run_if goes by: an empty phase_modified leaves phase_completed.
RunIfName(r) ==
  IF Given(r, "phase_modified") /\ r.phase_modified # "" THEN r.phase_modified
  ELSE IF Given(r, "phase_completed") THEN r.phase_completed ELSE ""

\* depends_on and run_if name earlier phases; an empty name is not looked up.
EarlierReferences(phases) ==
  LET Earlier(i, name) == \E j \in 1 .. i - 1 : phases[j].name = name
  IN  \A i \in DOMAIN phases :
        LET p == phases[i]
        IN  /\ Given(p, "depends_on") =>
                 \A k \in DOMAIN p.depends_on : Earlier(i, p.depends_on[k])
            /\ Given(p, "run_if") =>
                 RunIfName(p.run_if) = "" \/ Earlier(i, RunIfName(p.run_if))

PolicyModel(d) ==
  Both(Worst({Keys(d, {"phases"}, {"schema_version", "name", "description", "category", "config"}),
              If(d, "schema_version", LAMBDA n : Check(n = 13)),
              If(d, "name", LAMBDA n : Check(n \notin Blank \cup TooLong)),
              If(d, "config", GlobalConfigModel),
              If(d, "phases", LAMBDA ps : Both(Worst({Each(ps, PhaseModel), Check(ps # << >>)}),
                                               Check(UniqueNames(ps))))}),
       Check(EarlierReferences(d.phases)))

=============================================================================
