SPECIFICATION Spec
CONSTANTS
  Lines <- MCLines
  Blank = ""
  Comments <- MCComments
  Recommended <- MCRecommended
  Forms <- MCForms
  Projects <- MCProjects
  UserIgnores <- MCUserIgnores
  MaxCommands = 2
  MaxKills = 1
  MaxEdits = 1
CHECK_DEADLOCK FALSE
INVARIANTS TypeOK CreatedIsComplete
PROPERTIES LosesOnlyStaleFiles IgnoreOnlyGrows PortIsComplete
