SPECIFICATION Spec
CONSTANTS
  Policies <- McPolicies
  Files <- McFiles
  Hearings <- McHearings
  Canon <- McCanon
  None = None
  Und = "und"
  CommentaryTitles = {"Commentary"}
  MusicTitles = {"Score"}
  SfxTitles = {"Effects"}
  GenericTitles = {"Stereo"}
  Mp4Codecs = {"h264", "aac", "mov_text"}
  TextSubCodecs = {"subrip"}
  Tools = {"ffmpeg", "mkvmerge", "mkvpropedit"}
  Encoders = {"aac", "ac3"}
  DefaultCodec = "vorbis"
  Rounds = 4
INVARIANTS
  EndsAsAsked
PROPERTIES
  TracksSurvive
CHECK_DEADLOCK FALSE
