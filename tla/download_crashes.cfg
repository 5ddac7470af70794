SPECIFICATION FairSpec
CONSTANTS
  v1 = v1  v2 = v2  c1 = c1  c2 = c2  t1 = t1  t2 = t2  t3 = t3
  Versions <- MCVersions
  Commits <- MCCommits
  Commit <- MCCommit
  Tasks <- TwoTasks
  NativeRun <- OneUnspawnable
  HostPlatform = "macos"
  MaxCrashes = 1
  MaxOverdue = 1
  Malformed = Malformed
  Absent = Absent
  Corrupt = Corrupt
  NoTask = NoTask
CHECK_DEADLOCK FALSE
INVARIANTS HandedOutIsVerified HandedOutIsExecutable
PROPERTIES EveryRequestSettles
