----------------------------- MODULE Reencoding -----------------------------
(***************************************************************************)
(* The two operations of a phase that make new streams: audio synthesis    *)
(* adds tracks made from others (src/vpo/policy/synthesis), a transcode    *)
(* encodes the video, the audio or both (src/vpo/policy/transcode.py,      *)
(* src/vpo/executor/transcode, workflow/phases/executor/transcode_ops.py). *)
(*                                                                         *)
(* Both plan from the tracks of file_info and hand ffmpeg stream numbers   *)
(* counted there.  Qualities, bitrates and hardware encoders are left out, *)
(* and so is skip_if.bitrate_under; a codec stands for all its aliases.    *)
(***************************************************************************)
EXTENDS ConditionalRules

CONSTANTS
    Encoders,      \* codecs the installed ffmpeg encodes (get_available_encoders)
    DefaultCodec   \* what ffmpeg makes of an audio stream it was given no codec for

Audio(tracks) == InOrder(Positions(tracks, "audio"), tracks)

(***************************************************************************)
(* Synthesis: the source of a new track, and whether it is made at all.    *)
(***************************************************************************)
\* score_track(): what one criterion of a preference is worth.
Points(t, c, wanted) ==
    CASE c = "language" ->
           IF t.lang # None /\ \E l \in wanted : LanguagesMatch(t.lang, l) THEN 100 ELSE 0
      [] c = "notCommentary" -> IF wanted /\ t.title \notin CommentaryTitles THEN 80 ELSE 0
      [] c = "codec" -> IF t.codec \in wanted THEN 20 ELSE 0
      [] c = "channels" ->
           IF t.channels = None THEN 0
           ELSE CASE wanted.kind = "max" -> 10 * t.channels
                  [] wanted.kind = "min" -> (-10) * t.channels
                  [] wanted.kind = "exact" -> IF t.channels = wanted.count THEN 80 ELSE 0

Score(t, prefer) ==
    MapThenSumSet(LAMBDA k : MapThenSumSet(LAMBDA c : Points(t, c, prefer[k][c]),
                                           DOMAIN prefer[k]),
                  DOMAIN prefer)

Preferred(t, prefer) ==
    \E k \in DOMAIN prefer : \E c \in DOMAIN prefer[k] : Points(t, c, prefer[k][c]) # 0

\* select_source_track(): the first of the best; the first of all when none is preferred.
SourceTrack(tracks, prefer) ==
    LET S    == Positions(tracks, "audio")
        best == Min({i \in S : \A j \in S : Score(tracks[j], prefer) <= Score(tracks[i], prefer)})
    IN  IF Score(tracks[best], prefer) <= 0 /\ ~Preferred(tracks[best], prefer)
          THEN Min(S) ELSE best

\* A track reported without its channels is taken for stereo.
ChannelsOf(t) == IF t.channels = None THEN 2 ELSE t.channels

\* _evaluate_skip_if_exists(): a track that would do is there.
AlreadyExists(def, tracks) ==
    /\ def.skipIfExists # None
    /\ \E i \in Positions(tracks, "audio") : MatchesTrack(tracks[i], def.skipIfExists)

\* resolve_synthesis_operation(): << >> when the definition is skipped.
Resolve(def, known) ==
    LET tracks == known.tracks
        source == SourceTrack(tracks, def.prefer)
        has    == ChannelsOf(tracks[source])
    IN  IF \/ AlreadyExists(def, tracks)
           \/ def.createIf # None /\ ~EvaluateCondition(def.createIf, known)
           \/ def.codec \notin Encoders
           \/ Positions(tracks, "audio") = {}
           \/ def.channels > has \/ has > 8
        THEN << >>
        ELSE <<[name |-> def.name, stream |-> Cardinality({i \in Positions(tracks, "audio") : i < source}) + 1,
                codec |-> def.codec, channels |-> def.channels, downmix |-> has # def.channels,
                title |-> IF def.title = "inherit" THEN tracks[source].title ELSE def.title,
                lang  |-> IF def.lang = "inherit" THEN LanguageOf(tracks[source]) ELSE def.lang]>>

\* plan_synthesis(): each definition against the tracks of the file, none of which is one
\* another definition is about to make.
PlanSynthesis(defs, known) == FlattenSeq([k \in DOMAIN defs |-> Resolve(defs[k], known)])

\* ffmpeg finds the audio stream each operation was planned from, or one in its place.
HasSources(ops, tracks) == \A k \in DOMAIN ops : ops[k].stream <= Len(Audio(tracks))

\* The track an operation makes of the stream it finds; the flag is mkvmerge's choice.
Made(op, tracks, suffix, flag) ==
    LET source == tracks[Audio(tracks)[op.stream]]
    IN  [id |-> op.name \o suffix, type |-> "audio", lang |-> op.lang, codec |-> op.codec,
         title |-> op.title, default |-> flag, forced |-> FALSE, size |-> None,
         channels |-> IF op.downmix THEN op.channels ELSE ChannelsOf(source)]

\* mkvmerge with every track of the file and the new ones, which it puts after the last
\* audio track or after all; attachments are always last.  Its output is Matroska,
\* whatever the name of the file.
Synthesised(file, ops, suffix, flag, place) ==
    LET made == [k \in DOMAIN ops |-> Made(ops[k], file.tracks, suffix, flag)]
        at   == IF place = "audio" THEN Max(Positions(file.tracks, "audio"))
                ELSE Cardinality({i \in DOMAIN file.tracks : file.tracks[i].type # "attachment"})
    IN  [file EXCEPT !.format = "mkv",
                     !.tracks = SubSeq(@, 1, at) \o made \o SubSeq(@, at + 1, Len(@))]

(***************************************************************************)
(* Transcode: what is encoded.  A video configuration is [to, max, skipIf] *)
(* with max = <<width, height>> or None; an audio one is [to, preserve].   *)
(***************************************************************************)
Fits(size, max) == max = None \/ size = None \/ (size[1] <= max[1] /\ size[2] <= max[2])

\* evaluate_skip_condition(): all that is asked holds.
Skips(v, t) ==
    /\ v.skipIf # None
    /\ v.skipIf.codecs = None \/ t.codec \in v.skipIf.codecs
    /\ Fits(t.size, v.skipIf.within)

\* should_transcode_video().
NeedsTranscode(v, t) == t.codec # v.to \/ ~Fits(t.size, v.max)

\* The largest size within max of the same shape, made even.
Scaled(size, max) ==
    LET wide == max[1] * size[2] <= max[2] * size[1]
        num  == IF wide THEN max[1] ELSE max[2]
        den  == IF wide THEN size[1] ELSE size[2]
        Even(n) == n - (n % 2)
    IN  IF Fits(size, max) THEN size
        ELSE <<Even((size[1] * num) \div den), Even((size[2] * num) \div den)>>

\* create_audio_plan_v6(): for each audio track of the file its position and the codec it
\* gets, "copy" for one that is preserved; all are copied when nothing is configured.
AudioPlan(tracks, a) ==
    [k \in DOMAIN Audio(tracks) |->
       LET t == tracks[Audio(tracks)[k]]
       IN  [index |-> Audio(tracks)[k],
            codec |-> IF a = None \/ (a # None /\ t.codec \in a.preserve) THEN "copy" ELSE a.to]]

Transcoded(plan) == {k \in DOMAIN plan : plan[k].codec # "copy"}

(***************************************************************************)
(* The streams ffmpeg takes.                                               *)
(***************************************************************************)
MapsFromThree(plan) == Len(plan) > 2

\* _needs_explicit_mapping(): no audio track is ever marked for removal here.
NeedsExplicitMapping(plan) == Len(plan) > 1

\* _build_stream_maps(): the first video, the planned audio by position, subtitles and
\* attachments.  A position that has become another track's is mapped all the same.
MappedStreams(tracks, plan) ==
    <<Min(Positions(tracks, "video"))>>
      \o [k \in DOMAIN plan |-> plan[k].index]
      \o InOrder(Positions(tracks, "subtitle"), tracks)
      \o InOrder(Positions(tracks, "attachment"), tracks)

\* ffmpeg's own choice: the largest video, the audio with the default flag or the most
\* channels, the first subtitle, no attachment.
Alike(t) == 0
Area(t) == IF t.size = None THEN 0 ELSE t.size[1] * t.size[2]
Worth(t) == ChannelsOf(t) + (IF t.default THEN 1000 ELSE 0)

AutomaticStreams(tracks) ==
    LET Best(type, Value(_)) ==
          LET S == Positions(tracks, type)
          IN  IF S = {} THEN << >>
              ELSE <<Min({i \in S : \A j \in S : Value(tracks[j]) <= Value(tracks[i])})>>
    IN  Best("video", Area) \o Best("audio", Worth) \o Best("subtitle", Alike)

Streams(tracks, plan) ==
    IF NeedsExplicitMapping(plan) THEN MappedStreams(tracks, plan) ELSE AutomaticStreams(tracks)

\* ffmpeg refuses a map of a stream the file does not have.
CanMap(tracks, plan) ==
    NeedsExplicitMapping(plan) =>
      /\ Positions(tracks, "video") # {}
      /\ \A k \in DOMAIN plan : plan[k].index \in DOMAIN tracks

\* -c:a: the k-th audio stream of the output gets the codec of the k-th planned track.
AudioCodec(t, plan, k) ==
    IF Transcoded(plan) = {} \/ (k \in DOMAIN plan /\ plan[k].codec = "copy") THEN t.codec
    ELSE IF k \in DOMAIN plan THEN plan[k].codec ELSE DefaultCodec

\* The file ffmpeg writes from the streams at these positions; to and size are those of
\* the video, None when it is copied.  The name decides the format.
Encoded(file, streams, plan, to, size) ==
    LET taken == [k \in DOMAIN streams |-> file.tracks[streams[k]]]
        Number(k) == Cardinality({j \in 1 .. k : taken[j].type = "audio"})
    IN  [file EXCEPT
           !.format = file.name,
           !.tracks = [k \in DOMAIN taken |->
              CASE taken[k].type = "audio" ->
                     [taken[k] EXCEPT !.codec = AudioCodec(taken[k], plan, Number(k))]
                [] taken[k].type = "video" /\ to # None ->
                     [taken[k] EXCEPT !.codec = to, !.size = size]
                [] OTHER -> taken[k]]]
=============================================================================
