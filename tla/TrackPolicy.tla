---------------------------- MODULE TrackPolicy ----------------------------
(***************************************************************************)
(* The pure half of policy evaluation: how a track is classified, in which *)
(* order the tracks should stand, which of them should carry the default   *)
(* flag, and which the filters keep (src/vpo/policy/evaluator).            *)
(*                                                                         *)
(* A file's tracks are a sequence; a track's index in the code is its      *)
(* position here, counted from 1.  A policy is a record with the fields of *)
(* EvaluationPolicy, an absent configuration being None.  heard maps the   *)
(* ids of the tracks that were transcribed to what was heard.              *)
(***************************************************************************)
EXTENDS Integers, Sequences, FiniteSets, SequencesExt, FiniteSetsExt, Functions, TLC

CONSTANTS
    None,             \* an absent value
    Und,              \* the language "und"
    Canon,            \* language code -> its ISO 639-2/B code
    CommentaryTitles, \* titles a commentary pattern finds
    MusicTitles,      \* titles with a music keyword
    SfxTitles,        \* titles with a sound-effects keyword
    GenericTitles     \* empty titles and titles made of codec and layout names

ASSUME UndAssumption == Und \in DOMAIN Canon

\* The value of the first pair of a sequence of <<test, value>> whose test holds.
FirstMatch(pairs) == pairs[Min({i \in DOMAIN pairs : pairs[i][1]})][2]

\* The positions of S in the order of the sequence seq.
InOrder(S, seq) == SelectSeq([i \in DOMAIN seq |-> i], LAMBDA i : i \in S)

Positions(tracks, type) == {i \in DOMAIN tracks : tracks[i].type = type}

LanguageOf(t) == IF t.lang = None THEN Und ELSE t.lang

LanguagesMatch(a, b) == Canon[a] = Canon[b]

InLanguages(t, langs) ==
    \E l \in Range(langs) : LanguagesMatch(LanguageOf(t), l)

\* The place of t's language among the preferences, past the end when it has none.
PreferenceIndex(t, langs) ==
    LET places == {k \in DOMAIN langs : LanguagesMatch(LanguageOf(t), langs[k])}
    IN  IF places = {} THEN Len(langs) + 1 ELSE Min(places)

HeardAs(t, heard) == IF t.id \in DOMAIN heard THEN heard[t.id].kind ELSE "unheard"

(***************************************************************************)
(* Classification.                                                         *)
(***************************************************************************)
AudioClass(t, p, heard) ==
    LET kind == HeardAs(t, heard)
    IN  FirstMatch(<<
          <<t.title \in SfxTitles, "audio_sfx">>,
          <<t.title \in MusicTitles, "audio_music">>,
          <<t.title \in CommentaryTitles, "audio_commentary">>,
          <<kind = "sfx", "audio_sfx">>,
          <<kind = "music", "audio_music">>,
          <<kind = "non_speech", "audio_non_speech">>,
          <<kind = "commentary" /\ p.transcription # None /\ p.transcription.detectCommentary,
            "audio_commentary">>,
          <<InLanguages(t, p.audioLanguages), "audio_main">>,
          <<TRUE, "audio_alternate">> >>)

ClassifyTrack(t, p, heard) ==
    FirstMatch(<<
      <<t.type = "video", "video">>,
      <<t.type = "audio", AudioClass(t, p, heard)>>,
      <<t.type = "subtitle" /\ t.title \in CommentaryTitles, "subtitle_commentary">>,
      <<t.type = "subtitle" /\ t.forced, "subtitle_forced">>,
      <<t.type = "subtitle", "subtitle_main">>,
      <<TRUE, "attachment">> >>)

(***************************************************************************)
(* The desired order: by class, then by language preference for main       *)
(* tracks, then by the present position.                                   *)
(***************************************************************************)
ClassRank(class, p) ==
    LET places == {k \in DOMAIN p.trackOrder : p.trackOrder[k] = class}
    IN  IF places = {} THEN Len(p.trackOrder) + 1 ELSE Min(places)

LanguageRank(t, class, p) ==
    CASE class = "audio_main"    -> PreferenceIndex(t, p.audioLanguages)
      [] class = "subtitle_main" -> PreferenceIndex(t, p.subtitleLanguages)
      [] OTHER                   -> 999

SortKey(tracks, i, p, heard) ==
    LET class == ClassifyTrack(tracks[i], p, heard)
    IN  <<ClassRank(class, p), LanguageRank(tracks[i], class, p), i>>

Precedes(k, l) ==
    \/ k[1] < l[1]
    \/ k[1] = l[1] /\ k[2] < l[2]
    \/ k[1] = l[1] /\ k[2] = l[2] /\ k[3] < l[3]

DesiredOrder(tracks, p, heard) ==
    LET key == [i \in DOMAIN tracks |-> SortKey(tracks, i, p, heard)]
    IN  SortSeq([i \in DOMAIN tracks |-> i], LAMBDA i, j : Precedes(key[i], key[j]))

(***************************************************************************)
(* Default flags.                                                          *)
(***************************************************************************)
\* The preferred one of the tracks at the positions S # {}: no commentary when that
\* can be had, then the language, then (audio only) the codec, then the position.
PreferredTrack(tracks, S, langs, codecs) ==
    LET plain    == {i \in S : tracks[i].title \notin CommentaryTitles}
        spoken(k) == {i \in plain : LanguagesMatch(LanguageOf(tracks[i]), langs[k])}
        wanted   == {k \in DOMAIN langs : spoken(k) # {}}
        best     == spoken(Min(wanted))
        coded(c) == {i \in best : tracks[i].codec = codecs[c]}
        codable  == IF codecs = None THEN {} ELSE {c \in DOMAIN codecs : coded(c) # {}}
    IN  IF plain = {} THEN Min(S)
        ELSE IF wanted = {} THEN Min(plain)
        ELSE IF codable # {} THEN Min(coded(Min(codable)))
        ELSE Min(best)

AudioMatchesPreference(tracks, p) ==
    \E i \in Positions(tracks, "audio") :
        /\ tracks[i].title \notin CommentaryTitles
        /\ InLanguages(tracks[i], p.audioLanguages)

\* TRUE for the chosen track; FALSE for the others of its type when they are cleared.
MarkOne(chosen, S, clear) ==
    (chosen :> TRUE) @@ (IF clear THEN [i \in S |-> FALSE] ELSE << >>)

DesiredDefaults(tracks, p) ==
    LET flags == p.defaultFlags
        V == Positions(tracks, "video")
        A == Positions(tracks, "audio")
        S == Positions(tracks, "subtitle")
        best == PreferredTrack(tracks, S, p.subtitleLanguages, None)
        video == IF flags.firstVideo /\ V # {}
                   THEN MarkOne(Min(V), V, flags.clearOthers) ELSE << >>
        audio == IF flags.preferredAudio /\ A # {}
                   THEN MarkOne(PreferredTrack(tracks, A, p.audioLanguages, flags.audioCodecs),
                                A, flags.clearOthers)
                   ELSE << >>
        asked == IF flags.preferredSubtitle /\ S # {}
                   THEN MarkOne(best, S, flags.clearOthers)
                   ELSE IF flags.clearOthers THEN [i \in S |-> FALSE] ELSE << >>
        foreign == /\ flags.subtitleWhenAudioDiffers
                   /\ S # {}
                   /\ ~AudioMatchesPreference(tracks, p)
                   /\ \A i \in DOMAIN asked : ~asked[i]
        subtitle == IF foreign THEN MarkOne(best, S, flags.clearOthers) @@ asked ELSE asked
    IN  video @@ audio @@ subtitle

(***************************************************************************)
(* Filters.  keep.music, keep.sfx and keep.nonSpeech say what becomes of   *)
(* such tracks: "drop", "exempt" (kept whatever their language) or         *)
(* "filter" (like any other track).                                        *)
(***************************************************************************)
KeepsAudioTrack(t, keep, class) ==
    LET music == class = "audio_music" \/ t.title \in MusicTitles
        sfx   == class = "audio_sfx" \/ t.title \in SfxTitles
        quiet == class = "audio_non_speech"
    IN  FirstMatch(<<
          <<music /\ keep.music # "filter", keep.music = "exempt">>,
          <<sfx /\ keep.sfx # "filter", keep.sfx = "exempt">>,
          <<quiet /\ keep.nonSpeech # "filter", keep.nonSpeech = "exempt">>,
          <<TRUE, InLanguages(t, keep.languages)>> >>)

KeepsSubtitleTrack(t, keep, forcedCleared) ==
    /\ ~keep.removeAll
    /\ \/ keep.preserveForced /\ ~forcedCleared /\ t.forced
       \/ keep.languages = None
       \/ keep.languages # None /\ InLanguages(t, keep.languages)

FallbackShort(tracks, keep, kept) == kept

\* What the fallback makes of the audio tracks the filter kept, when they are too few.
ApplyFallback(tracks, keep, kept) ==
    LET audio   == Positions(tracks, "audio")
        removed == audio \ kept
        missing == keep.minimum - Cardinality(kept)
        content == LanguageOf(tracks[Min(audio)])
    IN  CASE keep.fallback = "keep_all"   -> audio
          [] keep.fallback = "keep_first" ->
               kept \cup {i \in removed :
                            Cardinality({j \in removed : j < i}) < missing}
          [] keep.fallback = "content_language" ->
               kept \cup {i \in audio : LanguagesMatch(LanguageOf(tracks[i]), content)}

\* The audio positions kept; the second case is InsufficientTracksError.
KeptAudio(tracks, p, heard) ==
    LET audio == Positions(tracks, "audio")
        first == {i \in audio : KeepsAudioTrack(tracks[i], p.keepAudio,
                                                ClassifyTrack(tracks[i], p, heard))}
    IN  IF p.keepAudio = None \/ audio = {} THEN audio
        ELSE IF Cardinality(first) >= p.keepAudio.minimum THEN first
        ELSE ApplyFallback(tracks, p.keepAudio, first)

Insufficient(tracks, p, heard) ==
    /\ p.keepAudio # None
    /\ p.keepAudio.fallback \in {None, "error"}
    /\ LET audio == Positions(tracks, "audio")
       IN  /\ audio # {}
           /\ Cardinality({i \in audio : KeepsAudioTrack(tracks[i], p.keepAudio,
                             ClassifyTrack(tracks[i], p, heard))}) < p.keepAudio.minimum

\* compute_track_dispositions(): the positions whose disposition is KEEP.
KeptPositions(tracks, p, heard, forcedCleared) ==
    KeptAudio(tracks, p, heard)
      \cup {i \in Positions(tracks, "subtitle") :
              \/ p.keepSubtitles = None
              \/ p.keepSubtitles # None
                 /\ KeepsSubtitleTrack(tracks[i], p.keepSubtitles, forcedCleared)}
      \cup {i \in Positions(tracks, "attachment") :
              p.filterAttachments = None \/ ~p.filterAttachments.removeAll}
      \cup Positions(tracks, "video")

(***************************************************************************)
(* Updates from transcription results, for audio tracks heard with enough  *)
(* confidence (heard[id].sure).                                            *)
(***************************************************************************)
TitleFor(kind) == [main |-> "Main", commentary |-> "Commentary", alternate |-> "Alternate",
                   music |-> "Music", sfx |-> "Sound Effects", non_speech |-> "Non-Speech"][kind]

HeardAudio(tracks, heard) ==
    {i \in Positions(tracks, "audio") :
        tracks[i].id \in DOMAIN heard /\ heard[tracks[i].id].sure}

LanguageUpdates(tracks, p, heard) ==
    LET due == {i \in HeardAudio(tracks, heard) :
                  /\ p.transcription # None /\ p.transcription.updateLanguage
                  /\ heard[tracks[i].id].lang # None
                  /\ ~LanguagesMatch(LanguageOf(tracks[i]), heard[tracks[i].id].lang)}
    IN  [i \in due |-> Canon[heard[tracks[i].id].lang]]

TitleUpdates(tracks, p, heard) ==
    LET due == {i \in HeardAudio(tracks, heard) :
                  /\ p.transcription # None /\ p.transcription.updateTitle
                  /\ tracks[i].title \in GenericTitles
                  /\ tracks[i].title # TitleFor(heard[tracks[i].id].kind)}
    IN  [i \in due |-> TitleFor(heard[tracks[i].id].kind)]
=============================================================================
