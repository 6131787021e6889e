SPECIFICATION Spec
CONSTANTS
  p1 = p1
  p2 = p2
  Pages <- MCPages
  Scenes <- MCScenes
  Blank <- MCBlank
  TooLong <- MCTooLong
  LanguageCode <- MCLanguageCode
  FieldName <- MCFieldName
  PluginName <- MCPluginName
  PhaseName <- MCPhaseName
  PathLike <- MCPathLike
  BadRegex <- MCBadRegex
  FileSize <- MCFileSize
  Duration <- MCDuration
  BadArgument <- MCBadArgument
  Folded <- MCFolded
  BitrateOf <- MCBitrateOf
  BareForm <- MCBareForm
  NotAlnum <- MCNotAlnum
  Escaped <- MCEscaped
  HasQuote <- MCHasQuote
  BoolWords <- MCBoolWords
INVARIANTS
  CacheTells
  ExpressionsReadBack
PROPERTIES
  StaleSavesRefused
  SavedPoliciesLoad
CHECK_DEADLOCK FALSE
