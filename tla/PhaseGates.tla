---------------------------- MODULE PhaseGates ----------------------------
(***************************************************************************)
(* Whether a phase of a policy runs on a file: skip_when over what is      *)
(* known of the file, depends_on and run_if over what became of the phases *)
(* before it, and the error mode in force for it                           *)
(* (src/vpo/workflow/skip_conditions.py, processor.py, multi_policy.py).   *)
(*                                                                         *)
(* A file is the record [video, audio, subtitles, container, size]: video  *)
(* is None or [codec, height, duration], any of which may be None, and     *)
(* audio and subtitles are sets of codecs and of languages.                *)
(***************************************************************************)
EXTENDS Integers, Sequences, FiniteSets, SequencesExt, FiniteSetsExt, Functions

CONSTANTS
    None,       \* an absent value
    CodecAlias  \* video codec -> the name its aliases share

\* get_video_resolution_label(): the standard height at or below h.
ResolutionOf(h) == Max({480} \cup {r \in {720, 1080, 1440, 2160} : r <= h})

\* What a condition says of the file; a value that is not known never matches.
Holds(field, wanted, file) ==
    LET height == IF file.video = None THEN None ELSE file.video.height
        length == IF file.video = None THEN None ELSE file.video.duration
    IN  CASE field = "videoCodec" ->
               /\ file.video # None /\ file.video.codec # None
               /\ \E c \in wanted : CodecAlias[c] = CodecAlias[file.video.codec]
          [] field = "audioCodecExists"       -> wanted \in file.audio
          [] field = "subtitleLanguageExists" -> wanted \in file.subtitles
          [] field = "container"       -> file.container \in wanted
          [] field = "resolution"      -> height \notin {None, 0} /\ ResolutionOf(height) = wanted
          [] field = "resolutionUnder" -> height \notin {None, 0} /\ height < wanted
          [] field = "sizeUnder"       -> file.size # None /\ file.size < wanted
          [] field = "sizeOver"        -> file.size # None /\ file.size > wanted
          [] field = "durationUnder"   -> length # None /\ length < wanted
          [] field = "durationOver"    -> length # None /\ length > wanted

\* A skip_when is a mode and the conditions that are given.
SkipWhen(when, file) ==
    LET given == DOMAIN when \ {"mode"}
    IN  IF when.mode = "all"
          THEN given # {} /\ \A c \in given : Holds(c, when[c], file)
          ELSE \E c \in given : Holds(c, when[c], file)

\* outcome is what became of the phases so far, by name; modified are those that
\* changed the file.
DependencyUnmet(phase, outcome) ==
    \E d \in phase.dependsOn : outcome[d] # "completed"

RunIfUnmet(phase, outcome, modified) ==
    \/ phase.ifModified # None /\ phase.ifModified \notin modified
    \/ phase.ifCompleted # None /\ outcome[phase.ifCompleted] # "completed"

\* file is None when nothing is known of the file: then skip_when does not apply.
Skipped(phase, file, outcome, modified) ==
    \/ DependencyUnmet(phase, outcome)
    \/ phase.skipWhen # None /\ file # None /\ SkipWhen(phase.skipWhen, file)
    \/ RunIfUnmet(phase, outcome, modified)

EffectiveOnError(policy, phase) ==
    IF phase.onError = None THEN policy.onError ELSE phase.onError

Severity(mode) == [continue |-> 0, skip |-> 1, fail |-> 2][mode]

StrictestMode(policies) ==
    CHOOSE m \in {p.onError : p \in Range(policies)} :
      \A p \in Range(policies) : Severity(p.onError) <= Severity(m)
===========================================================================
