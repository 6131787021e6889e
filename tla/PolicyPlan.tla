----------------------------- MODULE PolicyPlan -----------------------------
(***************************************************************************)
(* One phase of a policy applied to one file, once and then again: each    *)
(* plan operation of the phase evaluates the whole policy over the         *)
(* file_info read before the phase, and hands the plan to the executor     *)
(* chosen for it, which names tracks by their index in that file_info      *)
(* (src/vpo/policy/evaluator, src/vpo/workflow/phases/executor/            *)
(* plan_operations.py, src/vpo/executor).  Audio synthesis and transcoding *)
(* follow (advanced_ops.py, transcode_ops.py), planned from the same       *)
(* file_info.                                                              *)
(***************************************************************************)
EXTENDS Reencoding

CONSTANTS
    Policies,         \* the phases, flattened with the global configuration
    Files,            \* the files as they are first scanned
    Hearings,         \* transcription results a plugin may pass
    Mp4Codecs,        \* codecs an MP4 file can hold
    TextSubCodecs,    \* subtitle codecs convertible to mov_text
    Tools,            \* the external tools installed
    Rounds            \* bound: how often the phase is applied to the file

VARIABLES
    policy,    \* the phase being applied
    heard,     \* the transcription results at hand
    disk,      \* the file: [name, format, tracks, tags], name being its extension
    info,      \* file_info: what was last introspected
    todo,      \* the operations of the phase still to be dispatched
    plan,      \* the last plan evaluated, None before
    changes,   \* state.total_changes of the phase
    failures,  \* how many operations have failed so far (operation_failures)
    round,     \* how many times the phase has been applied, the present one included
    status     \* "idle", "running", "done" or "failed"

vars == <<policy, heard, disk, info, todo, plan, changes, failures, round, status>>

MkvFormat(format) == format = "mkv"

Known(file, p) == [tracks |-> file.tracks, analysed |-> p.analysed, origin |-> None,
                   plugins |-> p.plugins, tags |-> file.tags]

(***************************************************************************)
(* evaluate_policy(): the actions, in the order they are appended.         *)
(***************************************************************************)
Act(op, i, value) == [op |-> op, index |-> i, value |-> value]
When(test, act) == IF test THEN <<act>> ELSE << >>

PreProcess(tracks, config, type) ==
    FlattenSeq([i \in DOMAIN tracks |->
      IF config = None \/ tracks[i].type # type THEN << >>
      ELSE When(config.forced /\ tracks[i].forced, Act("clear_forced", i, None))
        \o When(config.default /\ tracks[i].default, Act("clear_default", i, None))
        \o When(config.titles /\ tracks[i].title # None, Act("set_title", i, None))])

RuleActions(file, effect) ==
    LET flagged(c) == Act((IF c.value THEN "set_" ELSE "clear_") \o c.flag, c.index, None)
    IN  FlattenSeq([k \in DOMAIN effect.flags |->
            LET c == effect.flags[k]
            IN  When(file.tracks[c.index][c.flag] # c.value, flagged(c))])
     \o FlattenSeq([k \in DOMAIN effect.langs |->
            LET c == effect.langs[k]
            IN  When(file.tracks[c.index].lang # c.value, Act("set_language", c.index, c.value))])
     \o FlattenSeq([k \in DOMAIN effect.tags |->
            LET c == effect.tags[k]
                current == IF c.field \in DOMAIN file.tags THEN file.tags[c.field] ELSE None
            IN  When(current # c.value /\ ~(c.value = "" /\ current = None),
                     Act("set_tag", c.field, c.value))])

FlagActions(tracks, desired, p) ==
    LET cleared(i) == tracks[i].type = "video" /\ p.videoActions # None /\ p.videoActions.default
    IN  FlattenSeq([i \in DOMAIN tracks |->
            When(/\ i \in DOMAIN desired
                 /\ desired[i] # tracks[i].default
                 /\ ~(desired[i] /\ cleared(i)),
                 Act(IF desired[i] THEN "set_default" ELSE "clear_default", i, None))])

DefaultActions(tracks, p) == FlagActions(tracks, DesiredDefaults(tracks, p), p)

ForcedActions(tracks, p) ==
    LET S == Positions(tracks, "subtitle")
        best == PreferredTrack(tracks, S, p.subtitleLanguages, None)
    IN  IF p.defaultFlags.forcedWhenAudioDiffers /\ S # {} /\ ~AudioMatchesPreference(tracks, p)
          THEN When(~tracks[best].forced, Act("set_forced", best, None)) ELSE << >>

UpdateActions(op, updates, skipped, tracks) ==
    FlattenSeq([i \in DOMAIN tracks |->
        IF i \in DOMAIN updates \ skipped THEN <<Act(op, i, updates[i])>> ELSE << >>])

HeardActions(tracks, p, results, titled) ==
    UpdateActions("set_language", LanguageUpdates(tracks, p, results), {}, tracks)
      \o UpdateActions("set_title", TitleUpdates(tracks, p, results), titled, tracks)

\* _evaluate_container_change() and the plan of the transcode mode: what becomes of
\* the tracks an MP4 file cannot hold.
Incompatible(tracks, p) ==
    IF p.container.target # "mp4" THEN {}
    ELSE {i \in DOMAIN tracks : tracks[i].type = "attachment" \/ tracks[i].codec \notin Mp4Codecs}

TrackPlan(t, p) ==
    FirstMatch(<<
      <<t.codec \in DOMAIN p.container.mappings,
        IF t.codec \in DOMAIN p.container.mappings
          THEN p.container.mappings[t.codec] ELSE None>>,
      <<t.type = "audio", "aac">>,
      <<t.type = "subtitle" /\ t.codec \in TextSubCodecs, "mov_text">>,
      <<TRUE, "remove">> >>)

ContainerChange(file, p) ==
    LET bad == Incompatible(file.tracks, p)
    IN  IF p.container = None \/ (bad # {} /\ p.container.mode = "skip") THEN None
        ELSE [source |-> file.format, target |-> p.container.target,
              plans |-> IF p.container.mode # "transcode" THEN << >>
                        ELSE [i \in bad |-> TrackPlan(file.tracks[i], p)]]

TrackActions(file, p, effect) ==
    PreProcess(file.tracks, p.audioActions, "audio")
      \o PreProcess(file.tracks, p.subtitleActions, "subtitle")
      \o PreProcess(file.tracks, p.videoActions, "video")
      \o RuleActions(file, effect)

\* The actions in their order; first are those of the track actions and the rules.
AllActions(file, p, results, first, move) ==
    first \o move \o DefaultActions(file.tracks, p) \o ForcedActions(file.tracks, p)
      \o HeardActions(file.tracks, p, results,
           {first[k].index : k \in {k \in DOMAIN first : first[k].op = "set_title"}})

Filters(p, effect) ==
    /\ {p.keepAudio, p.keepSubtitles, p.filterAttachments} # {None}
    /\ "track_filter" \notin effect.skips

KeptUnder(file, p, results, filtering) ==
    IF filtering
      THEN KeptPositions(file.tracks, p, results, p.subtitleActions # None /\ p.subtitleActions.forced)
      ELSE DOMAIN file.tracks

\* The plan: order is the order the tracks are given, << >> when they stay as they are.
Plan(file, actions, order, kept, change) ==
    [actions |-> actions, order |-> order, kept |-> kept, change |-> change,
     dropped |-> [type \in {"audio", "subtitle", "attachment"} |->
                    Positions(file.tracks, type) \ kept],
     remux   |-> \/ order # << >> \/ kept # DOMAIN file.tracks
                 \/ change # None /\ change.source # change.target]

PlanUnder(file, p, results, effect, order) ==
    LET refused == /\ p.container # None /\ p.container.mode = "error"
                   /\ Incompatible(file.tracks, p) # {}
    IN  IF \/ effect.fail \/ refused
           \/ Filters(p, effect) /\ Insufficient(file.tracks, p, results) THEN None
        ELSE Plan(file,
                  AllActions(file, p, results, TrackActions(file, p, effect),
                             When(order # << >>, Act("reorder", None, order))),
                  order, KeptUnder(file, p, results, Filters(p, effect)),
                  ContainerChange(file, p))

\* The order of a Matroska file is changed when it is not the desired one.
Reordered(file, desired) ==
    IF MkvFormat(file.format) /\ desired # [i \in DOMAIN file.tracks |-> i]
      THEN desired ELSE << >>

\* None stands for the PolicyError that ends the evaluation.
EvaluatePolicy(file, p, results) ==
    PlanUnder(file, p, results,
              IF p.rules = None THEN NoEffect ELSE EvaluateRules(p.rules, Known(file, p)),
              Reordered(file, DesiredOrder(file.tracks, p, results)))

Removed(pl) == UNION Range(pl.dropped)

\* execute_with_plan() counts these; a container change is not counted.
ChangesOf(pl) == Len(pl.actions) + Cardinality(Removed(pl))

(***************************************************************************)
(* The executors: what each tool makes of a file whose tracks may no       *)
(* longer be the ones the plan was evaluated over.                         *)
(***************************************************************************)
SelectExecutor(pl, format) ==
    IF pl.change # None
      THEN IF pl.change.target = "mp4"
             THEN IF "ffmpeg" \in Tools THEN "ffmpeg_remux" ELSE "none"
             ELSE IF MkvFormat(pl.change.target) /\ "mkvmerge" \in Tools
                    THEN "mkvmerge" ELSE "none"
    ELSE IF pl.remux
      THEN IF MkvFormat(format) /\ "mkvmerge" \in Tools THEN "mkvmerge"
           ELSE IF "ffmpeg" \in Tools THEN "ffmpeg_remux" ELSE "none"
    ELSE IF MkvFormat(format) /\ "mkvpropedit" \in Tools THEN "mkvpropedit"
    ELSE IF "ffmpeg" \in Tools THEN "ffmpeg_metadata" ELSE "none"

\* One metadata action on one track.
Edited(t, act) ==
    CASE act.op = "set_default"   -> [t EXCEPT !.default = TRUE]
      [] act.op = "clear_default" -> [t EXCEPT !.default = FALSE]
      [] act.op = "set_forced"    -> [t EXCEPT !.forced = TRUE]
      [] act.op = "clear_forced"  -> [t EXCEPT !.forced = FALSE]
      [] act.op = "set_title"     -> [t EXCEPT !.title = act.value]
      [] act.op = "set_language"  -> [t EXCEPT !.lang = act.value]

\* ffmpeg -disposition:N replaces every flag of the stream.
Replaced(t, act) ==
    IF act.op \in {"set_default", "clear_default", "set_forced", "clear_forced"}
      THEN [t EXCEPT !.default = (act.op = "set_default"), !.forced = (act.op = "set_forced")]
      ELSE Edited(t, act)

Retagged(tags, act) ==
    IF act.op # "set_tag" THEN tags
    ELSE IF act.value = "" THEN Restrict(tags, DOMAIN tags \ {act.index})
    ELSE (act.index :> act.value) @@ tags

ApplyActions(file, acts, executor) ==
    LET Edit(track, a) == IF executor = "ffmpeg_metadata" THEN Replaced(track, a)
                          ELSE Edited(track, a)
    IN  FoldLeft(LAMBDA f, a :
                 [f EXCEPT !.tags = Retagged(@, a),
                           !.tracks = IF a.op \in {"set_tag", "reorder"} \/ a.index \notin DOMAIN @
                                      THEN @ ELSE [@ EXCEPT ![a.index] = Edit(@, a)]],
             file, acts)

\* mkvmerge: --track-order, --default-track-flag, --audio-tracks, --subtitle-tracks and
\* --no-attachments are all that a plan contributes.
MkvmergeKeeps(t, i, pl) ==
    \/ t.type \notin DOMAIN pl.dropped
    \/ pl.dropped[t.type] = {}
    \/ t.type # "attachment" /\ i \in pl.kept

\* --track-order names the tracks of the plan; those it does not name follow.
OutputOrder(file, pl, kept) ==
    LET listed == SelectSeq(pl.order, LAMBDA i : i \in kept)
    IN  listed \o InOrder(kept \ Range(listed), file.tracks)

Mkvmerge(file, pl) ==
    LET flagged == ApplyActions(file, SelectSeq(pl.actions,
                     LAMBDA a : a.op \in {"set_default", "clear_default"}), "mkvmerge")
        order   == OutputOrder(file, pl, {i \in DOMAIN file.tracks :
                                            MkvmergeKeeps(file.tracks[i], i, pl)})
    IN  [format |-> "mkv", tags |-> file.tags,
         name   |-> IF pl.change = None THEN file.name ELSE "mkv",
         tracks |-> [k \in DOMAIN order |-> flagged.tracks[order[k]]]]

\* output_index(): where an input stream stands once the streams in out are excluded.
InputIndex(i, out) == i
OutputIndex(i, out) == i - Cardinality({r \in out : r < i})

\* ffmpeg: every stream but those excluded by index, codecs given by output index, of two
\* for the same output the later: transcodes before conversions, then by input index.
FfmpegRemux(file, pl) ==
    LET plans   == IF pl.change = None THEN << >> ELSE pl.change.plans
        out     == Removed(pl) \cup {i \in DOMAIN plans : plans[i] = "remove"}
        order   == InOrder(DOMAIN file.tracks \ out, file.tracks)
        given(k) == {i \in DOMAIN plans : plans[i] # "remove" /\ OutputIndex(i, out) = k}
        texts(k) == {i \in given(k) : plans[i] = "mov_text"}
        codec(k) == plans[Max(IF texts(k) # {} THEN texts(k) ELSE given(k))]
        name    == IF pl.change = None THEN file.name ELSE "mp4"
    IN  [format |-> name, name |-> name, tags |-> file.tags,
         tracks |-> [k \in DOMAIN order |->
                       IF given(k) # {} THEN [file.tracks[order[k]] EXCEPT !.codec = codec(k)]
                       ELSE file.tracks[order[k]]]]

\* mkvpropedit fails on a track the file does not have; the others ignore the option.
Rejects(file, pl, executor) ==
    /\ executor = "mkvpropedit"
    /\ \E a \in Range(pl.actions) : a.op # "set_tag" /\ a.index \notin DOMAIN file.tracks

Executed(file, pl, executor) ==
    CASE executor = "mkvmerge"        -> Mkvmerge(file, pl)
      [] executor = "ffmpeg_remux"    -> FfmpegRemux(file, pl)
      [] executor = "mkvpropedit"     -> ApplyActions(file, pl.actions, executor)
      [] executor = "ffmpeg_metadata" -> ApplyActions(file, pl.actions, executor)

(***************************************************************************)
(* The phase.                                                              *)
(***************************************************************************)
\* get_operations(): the operations in their order, the three filters dispatched as one.
Operations(p) ==
    When(p.container # None, "container")
      \o When({p.keepAudio, p.keepSubtitles, p.filterAttachments} # {None}, "filters")
      \o When(p.ordersTracks, "track_order")
      \o When(p.setsDefaults, "default_flags")
      \o When(p.rules # None, "conditional")
      \o When(p.audioSynthesis # None, "audio_synthesis")
      \o When({p.transcode, p.audioTranscode} # {None}, "transcode")

Planned == {"container", "filters", "track_order", "default_flags", "conditional"}

Init ==
    /\ policy \in Policies
    /\ disk \in Files
    /\ info = disk
    /\ heard \in Hearings
    /\ todo = << >>
    /\ plan = None
    /\ changes = 0
    /\ failures = 0
    /\ round = 0
    /\ status = "idle"

\* PolicyEnginePlugin.evaluate(): a plan only, with the results of a transcription.
PluginEvaluate ==
    /\ status = "idle"
    /\ round = 0
    /\ plan' = EvaluatePolicy(info, policy, heard)
    /\ UNCHANGED <<policy, heard, disk, info, todo, changes, failures, round, status>>

\* execute_phase(), for the first time or again on the file as it was introspected last.
StartPhase ==
    /\ status \in {"idle", "done", "failed"}
    /\ round < Rounds
    /\ status' = "running"
    /\ round' = round + 1
    /\ todo' = Operations(policy)
    /\ changes' = 0
    /\ plan' = None
    /\ UNCHANGED <<policy, heard, disk, info, failures>>

\* An operation that raised: on_error decides for the operations after it; a phase that
\* fails puts back the file it started from.
OperationFails ==
    /\ failures' = failures + 1
    /\ status' = IF policy.onError = "fail" THEN "failed" ELSE "running"
    /\ disk' = IF policy.onError = "fail" THEN info ELSE disk
    /\ todo' = IF policy.onError = "continue" THEN Tail(todo) ELSE << >>
    /\ UNCHANGED <<policy, heard, info, changes, round>>

\* An operation that found nothing to do, and one that made a new file of the old.
OperationLeaves ==
    /\ todo' = Tail(todo)
    /\ UNCHANGED <<policy, heard, disk, info, changes, failures, round, status>>

OperationMakes(file, count) ==
    /\ disk' = file
    /\ changes' = changes + count
    /\ todo' = Tail(todo)
    /\ UNCHANGED <<policy, heard, info, failures, round, status>>

\* execute_with_plan(): a constraint, nothing to do, no executor, a failing tool
\* (which restores the file) or the plan carried out.
PlanOperation ==
    /\ status = "running" /\ todo # << >> /\ Head(todo) \in Planned
    /\ \E pl \in {EvaluatePolicy(info, policy, << >>)} :
         /\ plan' = pl
         /\ \/ /\ pl = None \/ (pl # None /\ ChangesOf(pl) = 0)
               /\ OperationLeaves
            \/ /\ pl # None /\ ChangesOf(pl) > 0
               /\ OperationFails
            \/ /\ pl # None /\ ChangesOf(pl) > 0
               /\ \E executor \in {SelectExecutor(pl, info.format)} \ {"none"} :
                    /\ ~Rejects(disk, pl, executor)
                    /\ OperationMakes(Executed(disk, pl, executor), ChangesOf(pl))

\* execute_audio_synthesis(): the tracks the definitions ask for are made and added, all
\* of them or none.
Synthesise ==
    /\ status = "running" /\ todo # << >> /\ Head(todo) = "audio_synthesis"
    /\ UNCHANGED plan
    /\ LET ops == PlanSynthesis(policy.audioSynthesis, Known(info, policy))
       IN  \/ /\ ops = << >>
              /\ OperationLeaves
           \/ /\ ops # << >>
              /\ OperationFails
           \/ /\ ops # << >>
              /\ {"ffmpeg", "mkvmerge"} \subseteq Tools
              /\ HasSources(ops, disk.tracks)
              /\ \E flag \in BOOLEAN, place \in {"audio", "end"} :
                   OperationMakes(Synthesised(disk, ops, ToString(round), flag, place), Len(ops))

\* execute_transcode() with a video configuration: the audio is encoded with the video,
\* and a file whose video needs nothing is left alone but counted as changed.
TranscodeVideo ==
    /\ status = "running" /\ todo # << >> /\ Head(todo) = "transcode"
    /\ policy.transcode # None
    /\ UNCHANGED plan
    /\ LET V == Positions(info.tracks, "video")
           video == info.tracks[Min(V)]
           audio == AudioPlan(info.tracks, policy.audioTranscode)
           idle  == V # {} => Skips(policy.transcode, video)
           due   == ~idle /\ NeedsTranscode(policy.transcode, video)
       IN  \/ idle /\ OperationLeaves
           \/ ~idle /\ ~due /\ OperationMakes(disk, 1)
           \/ due /\ OperationFails
           \/ /\ due
              /\ "ffmpeg" \in Tools
              /\ CanMap(disk.tracks, audio)
              /\ OperationMakes(Encoded(disk, Streams(disk.tracks, audio), audio, policy.transcode.to,
                                        Scaled(video.size, policy.transcode.max)), 1)

\* execute_transcode() without one: every stream is taken, only the audio is encoded.
TranscodeAudio ==
    /\ status = "running" /\ todo # << >> /\ Head(todo) = "transcode"
    /\ policy.transcode = None
    /\ UNCHANGED plan
    /\ LET audio == AudioPlan(info.tracks, policy.audioTranscode)
           count == Cardinality(Transcoded(audio))
       IN  \/ count = 0 /\ OperationLeaves
           \/ count > 0 /\ OperationFails
           \/ /\ count > 0
              /\ "ffmpeg" \in Tools
              /\ OperationMakes(Encoded(disk, [i \in DOMAIN disk.tracks |-> i], audio, None, None),
                                count)

\* The phase returns; the processor introspects the file again when it was modified.
EndPhase ==
    /\ status = "running" /\ todo = << >>
    /\ status' = "done"
    /\ info' = IF changes > 0 THEN disk ELSE info
    /\ UNCHANGED <<policy, heard, disk, todo, plan, changes, failures, round>>

Next ==
    \/ PluginEvaluate
    \/ StartPhase \/ EndPhase
    \/ PlanOperation
    \/ Synthesise \/ TranscodeVideo \/ TranscodeAudio

Spec == Init /\ [][Next]_vars

(***************************************************************************)
(* Properties.                                                             *)
(***************************************************************************)
Ids(tracks) == {t.id : t \in Range(tracks)}
HasAudio(tracks) == Positions(tracks, "audio") # {}

\* A phase that evaluates its policy once.
OneOperation == Len(Operations(policy)) = 1

\* The phase ran to its end and the plan evaluated last found nothing to change.
Settled == status = "done" /\ changes = 0 /\ plan # None /\ ChangesOf(plan) = 0

\* The tracks synthesis may have made in the rounds so far.
Synthetic == IF policy.audioSynthesis = None THEN {}
             ELSE {d.name \o ToString(r) : d \in Range(policy.audioSynthesis), r \in 1 .. round}

\* Between the steps the variables hold values of their kinds, and no track is ever
\* invented, nor duplicated by a phase of one operation.
TypeOK ==
    /\ policy \in Policies
    /\ status \in {"idle", "running", "done", "failed"}
    /\ round \in 0 .. Rounds
    /\ changes \in Nat
    /\ \A k \in DOMAIN todo : todo[k] \in Range(Operations(policy))
    /\ \A f \in {disk, info} :
         /\ Ids(f.tracks) \subseteq UNION {Ids(x.tracks) : x \in Files} \cup Synthetic
         /\ OneOperation => Cardinality(Ids(f.tracks)) = Len(f.tracks)

\* Tracks a phase of one operation is not asked to remove: those its plan's dispositions
\* and the container's track plans let through; all of them for synthesis and for the
\* audio transcode; all but further video tracks for the video transcode.
Spared ==
    IF plan # None
      THEN {i \in plan.kept : plan.change # None =>
              ~(i \in DOMAIN plan.change.plans /\ plan.change.plans[i] = "remove")}
    ELSE {i \in DOMAIN info.tracks :
            policy.transcode # None /\ info.tracks[i].type = "video" =>
              i = Min(Positions(info.tracks, "video"))}

\* Whatever the policy and the tool that carries it out, a phase of one operation loses
\* no track it is not asked to remove - but for a video transcode of a film with fewer
\* than two audio tracks, where the streams are ffmpeg's choice: all but one subtitle and
\* every attachment are lost.
KeptTracksSurvive ==
    (/\ OneOperation /\ status = "running" /\ todo = << >>
     /\ policy.transcode = None \/ Cardinality(Positions(info.tracks, "audio")) > 1) =>
      \A i \in Spared : info.tracks[i].id \in Ids(disk.tracks)

\* An audio filter with a minimum of one, whatever its languages and its fallback, never
\* takes the last audio track from a file in a phase of one operation.
FilterLeavesAudio ==
    OneOperation /\ policy.keepAudio # None /\ HasAudio(disk.tracks) => HasAudio(disk'.tracks)

\* A phase of one operation takes no track it was not asked to, and not the last audio.
TracksSurvive == [][KeptTracksSurvive' /\ FilterLeavesAudio]_vars

\* What makes a phase settle: a synthesis says which tracks to leave alone, an audio
\* transcode leaves alone what it produces, and the name does not change.
Stable ==
    /\ policy.container = None
    /\ policy.audioSynthesis # None =>
         \A d \in Range(policy.audioSynthesis) : d.skipIfExists # None
    /\ policy.audioTranscode # None /\ policy.transcode = None =>
         policy.audioTranscode.to \in policy.audioTranscode.preserve

\* Each time a phase of one operation is applied to its own result there is less to do,
\* and the last time it leaves the file as it was: no policy flips a file back and forth,
\* encodes it again or adds the same track twice.  Only the video transcode still counts
\* a change.
Converges ==
    (/\ OneOperation /\ Stable /\ failures = 0
     /\ round = Rounds /\ status = "running" /\ todo = << >>) =>
      disk = info /\ (policy.transcode = None => changes = 0)

\* A file on which the policy finds nothing more to do has, of the tracks it chooses a
\* default from, exactly one: the audio the policy prefers, and no other.
OneDefaultAudio ==
    (Settled /\ policy.defaultFlags.preferredAudio /\ policy.defaultFlags.clearOthers
       /\ policy.audioActions = None /\ policy.rules = None /\ HasAudio(disk.tracks)) =>
      LET on == {i \in Positions(disk.tracks, "audio") : disk.tracks[i].default}
      IN  on = {PreferredTrack(disk.tracks, Positions(disk.tracks, "audio"),
                               policy.audioLanguages, policy.defaultFlags.audioCodecs)}

\* A conversion to MP4 leaves no track the container cannot hold, whichever tracks were
\* removed before those that had to be converted.
Mp4Holds ==
    (disk.format = "mp4" /\ OneOperation) =>
      \A t \in Range(disk.tracks) : t.type # "attachment" /\ t.codec \in Mp4Codecs

\* What the phase asked of the file, the file has in the end, and keeps.
EndsAsAsked == TypeOK /\ OneDefaultAudio /\ Mp4Holds /\ Converges

\* docs/usage/policies.md: "Keep minimum: 1 for audio - Prevents creating audio-less
\* files"; specs/031-track-filter-remux/spec.md: "No audio-less files are ever created
\* when audio filtering is applied".  A file that had audio keeps some.
NeverAudioless ==
    [][policy.keepAudio # None /\ HasAudio(disk.tracks) => HasAudio(disk'.tracks)]_disk
=============================================================================
