--------------------------- MODULE PolicyConversion ---------------------------
(***************************************************************************)
(* From an accepted document to the policy the program runs: conversion.py *)
(* with the dataclasses of policy/types it builds, and loader.py.          *)
(*                                                                         *)
(* The values are those the validation models return, so what their        *)
(* validators rewrite (folded codecs, an empty string turned to None) is   *)
(* rewritten here.  A field that is None is left out.  An enum is the      *)
(* string of its value.  A policy is compared with policies only.          *)
(***************************************************************************)
EXTENDS PolicyDocument

Only(r, keys) == [k \in keys \cap DOMAIN r |-> r[k]]
Without(r, keys) == [k \in DOMAIN r \ keys |-> r[k]]
FoldAll(list) == [i \in DOMAIN list |-> Fold(list[i])]
\* r with Convert applied to the value of each of these keys.
At(r, keys, Convert(_)) == [k \in DOMAIN r |-> IF k \in keys THEN Convert(r[k]) ELSE r[k]]

-----------------------------------------------------------------------------
\* Conditions

\* The one operator of a comparison or of a count, and its value.
ConvertComparison(c) ==
  LET op == CHOOSE k \in OPERATORS \cap DOMAIN c : TRUE IN [operator |-> op, value |-> c[op]]

ConvertNumber(c) == IF Given(c, "int") THEN c ELSE ConvertComparison(c)

ConvertTrackFilters(c) ==
  At(Only(c, FILTERS), {"channels", "width", "height"}, ConvertNumber)

ConvertExists(c) ==
  [kind |-> "exists", track_type |-> c.track_type, filters |-> ConvertTrackFilters(c)]

ConvertCount(c) ==
  ConvertComparison(c)
    @@ [kind |-> "count", track_type |-> c.track_type, filters |-> ConvertTrackFilters(c)]

ConvertMultiLanguage(c) == c @@ [kind |-> "multi_language", threshold |-> 5]

ConvertPluginMetadata(c) ==
  At(At(c, {"plugin"}, Fold), {"field"}, Fold) @@ [kind |-> "plugin_metadata", operator |-> "eq"]

ConvertContainerMetadata(c) ==
  At(c, {"field"}, Fold) @@ [kind |-> "container_metadata", operator |-> "eq"]

ConvertIsOriginal(c) == c @@ [kind |-> "is_original", value |-> TRUE, min_confidence |-> 70]
ConvertIsDubbed(c) == c @@ [kind |-> "is_dubbed", value |-> TRUE, min_confidence |-> 70]

RECURSIVE ConvertCondition(_)
ConvertCondition(c) ==
  CASE Given(c, "exists") -> ConvertExists(c.exists)
    [] Given(c, "count") -> ConvertCount(c.count)
    [] Given(c, "audio_is_multi_language") -> ConvertMultiLanguage(c.audio_is_multi_language)
    [] Given(c, "plugin_metadata") -> ConvertPluginMetadata(c.plugin_metadata)
    [] Given(c, "container_metadata") -> ConvertContainerMetadata(c.container_metadata)
    [] Given(c, "is_original") -> ConvertIsOriginal(c.is_original)
    [] Given(c, "is_dubbed") -> ConvertIsDubbed(c.is_dubbed)
    [] Given(c, "and") -> [kind |-> "and", of |-> Mapped(c["and"], ConvertCondition)]
    [] Given(c, "or") -> [kind |-> "or", of |-> Mapped(c["or"], ConvertCondition)]
    [] Given(c, "not") -> [kind |-> "not", of |-> << ConvertCondition(c["not"]) >>]

ConvertWhen(w) == IF Given(w, "text") THEN Parse(w.text).condition ELSE ConvertCondition(w)

-----------------------------------------------------------------------------
\* Rules

ACTION_ORDER == << "skip_video_transcode", "skip_audio_transcode", "skip_track_filter",
                   "warn", "fail", "set_forced", "set_default", "set_language",
                   "set_container_metadata" >>
SKIP_ACTIONS == {"skip_video_transcode", "skip_audio_transcode", "skip_track_filter"}

\* One action model may hold several actions; a skip that says False is none.
ConvertAction(a) ==
  LET done == SelectSeq(ACTION_ORDER, LAMBDA k : Given(a, k) /\ (k \in SKIP_ACTIONS => a[k]))
      Filled(k) == CASE k = "set_forced" -> a[k] @@ [track_type |-> "subtitle", value |-> TRUE]
                     [] k = "set_default" -> a[k] @@ [value |-> TRUE]
                     [] k = "set_container_metadata" -> At(a[k], {"field"}, Fold)
                     [] OTHER -> a[k]
  IN  [i \in DOMAIN done |-> done[i] :> Filled(done[i])]

ConvertActions(as) == FlattenSeq(Mapped(as, ConvertAction))

ConvertRule(r) ==
  [name |-> r.name, when |-> ConvertWhen(r.when), then |-> ConvertActions(r.then)]
    @@ (IF Given(r, "else") THEN [else |-> ConvertActions(r["else"])] ELSE << >>)

ConvertRules(b) == [match |-> b.match, items |-> Mapped(b.items, ConvertRule)]

-----------------------------------------------------------------------------
\* Audio synthesis

ConvertPreference(c) ==
  LET Channels(n) == IF Given(n, "str") \/ Given(n, "int") THEN n
                     ELSE IF Given(n, "max") /\ n.max THEN [str |-> "max"] ELSE [str |-> "min"]
  IN  At(At(c, {"language", "codec"}, FoldAll), {"channels"}, Channels)

ConvertSkipIfExists(s) ==
  At(At(s, {"language", "codec"}, FoldAll), {"channels"}, ConvertNumber)

ConvertSynthesisTrack(t) ==
  [k \in DOMAIN t \cup {"title", "language", "position"} |->
     CASE ~ Given(t, k) -> IF k = "position" THEN [str |-> "end"] ELSE "inherit"
       [] k = "source" -> Mapped(t.source.prefer, ConvertPreference)
       [] k = "create_if" -> ConvertWhen(t.create_if)
       [] k = "skip_if_exists" -> ConvertSkipIfExists(t.skip_if_exists)
       [] k \in {"codec", "bitrate", "language"} -> Fold(t[k])
       [] OTHER -> t[k]]

\* create_if is first parsed here: its errors are not validation errors.
CreateIfParses(t) ==
  Given(t, "create_if") /\ Given(t.create_if, "text")
    => Given(Parse(t.create_if.text), "condition")

ConvertAudioSynthesis(a) == Mapped(a.tracks, ConvertSynthesisTrack)

-----------------------------------------------------------------------------
\* Transcoding

Empty(list) == list = << >>

ConvertSkipCondition(s) ==
  Without(s, {k \in {"codec_matches"} \cap DOMAIN s : Empty(s[k])})

\* SkipCondition.__post_init__: an empty list of codecs is no condition.
SkipConditionMade(s) ==
  LET made == ConvertSkipCondition(s)
  IN  DOMAIN made # {} /\ SkipConditionModel(made) = "ok"

ConvertVideoTranscode(v) ==
  At(Without(v, {k \in {"ffmpeg_args"} \cap DOMAIN v : Empty(v[k])}), {"skip_if"}, ConvertSkipCondition)
    @@ [preset |-> "medium", two_pass |-> FALSE, scale_algorithm |-> "lanczos",
        upscale |-> FALSE, hw |-> "auto", hw_fallback |-> TRUE]

\* VideoTranscodeConfig.__post_init__ and AudioTranscodeConfig.__post_init__.
VideoTranscodeMade(v) == VideoTargetValues(v) = "ok" /\ OneQualityMode(v) = "ok"
AudioTranscodeMade(a) == AudioTargetValues(a) = "ok"

ConvertAudioTranscode(a) ==
  a @@ [preserve |-> << "truehd", "dts-hd", "flac", "pcm_s24le" >>, to |-> "aac", bitrate |-> "192k"]

-----------------------------------------------------------------------------
\* Phases

\* CodecTranscodeMapping.__post_init__: no bitrate for what is not re-encoded,
\* and only the form the pattern has; a blank bitrate was turned to None.
MappingMade(m) ==
  Given(m, "bitrate") /\ m.bitrate \notin Blank =>
    /\ Given(m, "action") => m.action = "transcode"
    /\ PatternBitrate(m.bitrate)

\* TranscriptionPolicyOptions.__post_init__
TranscriptionMade(t) ==
  LET On(k) == Given(t, k) /\ t[k] IN On("reorder_commentary") => On("detect_commentary")

\* AudioFilterConfig.__post_init__
AudioFilterMade(f) == f.languages # << >> /\ (Given(f, "minimum") => f.minimum >= 1)

ConvertSkipWhen(s) ==
  LET gone == {k \in {"video_codec", "container"} \cap DOMAIN s : Empty(s[k])}
              \cup {k \in {"audio_codec_exists", "subtitle_language_exists"} \cap DOMAIN s : s[k] = ""}
  IN  At(At(Without(s, gone), {"video_codec", "container"}, FoldAll),
         {"audio_codec_exists", "subtitle_language_exists", "resolution", "resolution_under"}, Fold)

ConvertOperation(k, v) ==
  CASE k = "container" ->
         At(v, {"codec_mappings"}, LAMBDA ms :
              [c \in DOMAIN ms |-> Without(ms[c], {b \in {"bitrate"} \cap DOMAIN ms[c] : ms[c][b] \in Blank})])
           @@ [on_incompatible_codec |-> "error", preserve_metadata |-> TRUE]
    [] k = "keep_audio" ->
         v @@ [minimum |-> 1, keep_music_tracks |-> TRUE, exclude_music_from_language_filter |-> TRUE,
               keep_sfx_tracks |-> TRUE, exclude_sfx_from_language_filter |-> TRUE,
               keep_non_speech_tracks |-> TRUE, exclude_non_speech_from_language_filter |-> TRUE]
    [] k = "keep_subtitles" -> v @@ [preserve_forced |-> FALSE, remove_all |-> FALSE]
    [] k = "filter_attachments" -> v @@ [remove_all |-> FALSE]
    [] k = "default_flags" ->
         At(v, {"preferred_audio_codec"}, FoldAll)
           @@ [set_first_video_default |-> TRUE, set_preferred_audio_default |-> TRUE,
               set_preferred_subtitle_default |-> FALSE, clear_other_defaults |-> TRUE,
               set_subtitle_default_when_audio_differs |-> FALSE,
               set_subtitle_forced_when_audio_differs |-> FALSE]
    [] k = "rules" -> ConvertRules(v)
    [] k = "audio_synthesis" -> ConvertAudioSynthesis(v)
    [] k = "transcode" -> At(At(v, {"video"}, ConvertVideoTranscode), {"audio"}, ConvertAudioTranscode)
    [] k = "transcription" ->
         v @@ [enabled |-> FALSE, update_language_from_transcription |-> FALSE,
               update_title_from_classification |-> FALSE, confidence_threshold |-> 80,
               detect_commentary |-> FALSE, reorder_commentary |-> FALSE]
    [] k = "file_timestamp" -> v @@ [mode |-> "preserve", fallback |-> "preserve", date_source |-> "auto"]
    [] k \in {"audio_actions", "subtitle_actions", "video_actions"} ->
         v @@ [clear_all_forced |-> FALSE, clear_all_default |-> FALSE, clear_all_titles |-> FALSE]
    [] k = "skip_when" -> ConvertSkipWhen(v)
    [] OTHER -> v

\* An empty transcode section leaves the phase with no transcode at all.
ConvertPhase(p) ==
  LET kept == DOMAIN p \ {k \in {"transcode"} \cap DOMAIN p : DOMAIN p[k] = {}}
  IN  [k \in kept |-> ConvertOperation(k, p[k])]

\* No dataclass of the phase raises, nor does an expression parsed only now.
PhaseMade(p) ==
  LET All(k, Made(_)) == Given(p, k) => Made(p[k])
  IN  /\ All("keep_audio", AudioFilterMade)
      /\ All("transcription", TranscriptionMade)
      /\ All("container", LAMBDA c : Given(c, "codec_mappings") =>
               \A x \in DOMAIN c.codec_mappings : MappingMade(c.codec_mappings[x]))
      /\ All("audio_synthesis", LAMBDA a : \A i \in DOMAIN a.tracks : CreateIfParses(a.tracks[i]))
      /\ All("transcode", LAMBDA t :
               /\ Given(t, "video") => /\ VideoTranscodeMade(t.video)
                                       /\ Given(t.video, "skip_if") => SkipConditionMade(t.video.skip_if)
               /\ Given(t, "audio") => AudioTranscodeMade(t.audio))

\* PolicySchema.__post_init__
PolicyMade(phases) == phases # << >> /\ UniqueNames(phases)

ConvertPolicy(d) ==
  Only(d, {"name", "description", "category"})
    @@ [config |-> (IF Given(d, "config") THEN d.config ELSE << >>)
                     @@ [audio_languages |-> << "eng", "und" >>,
                         subtitle_languages |-> << "eng", "und" >>,
                         commentary_patterns |-> << "commentary", "director", "audio description" >>,
                         on_error |-> "continue"],
        phases |-> Mapped(d.phases, ConvertPhase)]

-----------------------------------------------------------------------------
(***************************************************************************)
(* loader.py.  "refused" is PolicyValidationError, which the callers       *)
(* expect; the conversion runs outside the try, so what it raises leaves   *)
(* load_policy_from_dict as it is.                                         *)
(***************************************************************************)
Refused == [error |-> "refused"]
Raised == [error |-> "raised"]

LoadFromDict(d) ==
  IF ~ Given(d, "schema_version") \/ ~ Given(d, "phases") THEN Refused
  ELSE IF d.schema_version # 13 \/ PolicyModel(d) # "ok" THEN Refused
  ELSE IF \E i \in DOMAIN d.phases : ~ PhaseMade(d.phases[i]) THEN Raised
  ELSE IF ~ PolicyMade(d.phases) THEN Raised
  ELSE [policy |-> ConvertPolicy(d)]

Loads(d) == Given(LoadFromDict(d), "policy")

\* validate_policy_data(): what raises is answered with 500, not with errors.
ValidatePolicyData(d) == PolicyModel(d)

=============================================================================
