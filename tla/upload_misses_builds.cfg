SPECIFICATION Spec
CONSTANTS
  p1 = p1  p2 = p2
  Files <- MCFiles
  Imports <- MCImports
  Creates <- MCCreates
  Pragma <- MCPragma
  Procs <- OneProc
  Contents = {1, 2}
  Commands <- PlainTests
  DevNode = FALSE
  MaxCommands = 1
  MaxEdits = 0
  MaxKills = 0
CHECK_DEADLOCK FALSE
INVARIANTS DependenciesUploaded
