SPECIFICATION Spec
CONSTANTS
  p1 = p1  p2 = p2
  Files <- Pair
  Imports <- PairImports
  Creates <- PairCreates
  Pragma <- PairPragma
  Procs <- TwoProcs
  Contents = {1, 2}
  Commands <- MixedCommands
  DevNode = TRUE
  MaxCommands = 3
  MaxEdits = 1
  MaxKills = 1
CHECK_DEADLOCK FALSE
INVARIANTS TypeOK SkippedIsFresh ArtifactsHaveBuildInfo UploadsNamedCode HookUploadsNewestInfo
SYMMETRY ProcSymmetry
