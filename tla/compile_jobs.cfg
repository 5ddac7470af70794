SPECIFICATION FairSpec
CONSTANTS
  p1 = p1  p2 = p2
  Files <- Pair
  Imports <- PairImports
  Creates <- PairCreates
  Pragma <- PairPragma
  Procs <- OneProc
  Contents = {1, 2}
  Commands <- AloneCommands
  DevNode = FALSE
  MaxCommands = 2
  MaxEdits = 2
  MaxKills = 1
CHECK_DEADLOCK FALSE
INVARIANTS SkippedIsFresh ArtifactsHaveBuildInfo UploadsNamedCode
PROPERTIES EveryCommandEnds
