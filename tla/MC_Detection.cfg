SPECIFICATION Spec
CONSTANTS
  novel = novel
  quiet = quiet
  entry = entry
  sweep = sweep
  flood = flood
  Flow <- MCFlow
  Verdict <- MCVerdict
  Asset <- MCAsset
  Rule <- MCRule
  Level <- MCLevel
  Hit <- MCHit
  Raises <- MCRaises
  Ruleset <- MCRuleset
  MappingFile <- MCMappingFile
  FilesAtStart <- MCFilesAtStart
  Fallback = "T1048"
  Missing = Missing
  Broken = Broken
  Unloaded = Unloaded
  None = None
  Request = {q1, q2}
  Pool = 2
  MaxEdits = 1
  MaxReloads = 1
INVARIANTS
  TypeOK
  MatchesOfOneRuleset
  ReloadsKeepOneFile
  FusionsAgree
  SeverityHasReason
SYMMETRY Symmetry
CHECK_DEADLOCK FALSE
