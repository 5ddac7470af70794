SPECIFICATION Spec
CONSTANTS
  v1 = v1  v2 = v2  c1 = c1  c2 = c2  t1 = t1  t2 = t2  t3 = t3
  Versions <- MCVersions
  Commits <- MCCommits
  Commit <- MCCommit
  Tasks <- ThreeTasks
  NativeRun <- AllRun
  HostPlatform = "linux"
  MaxCrashes = 0
  MaxOverdue = 0
  Malformed = Malformed
  Absent = Absent
  Corrupt = Corrupt
  NoTask = NoTask
CHECK_DEADLOCK FALSE
SYMMETRY TaskSymmetry
INVARIANTS TypeOK OneDownloaderAtATime HandedOutIsVerified HandedOutIsExecutable
PROPERTIES GoodBinaryIsNeverReplaced CachedVersionIsNeverRejected AssertionsNeedALostList ImplementsCache
