----------------------- MODULE CompilerDownloadProofs -----------------------
(***************************************************************************)
(* Machine-checked safety of the compiler cache, for any number of         *)
(* processes, versions, crashes and overdue owners of the mutex.           *)
(***************************************************************************)
EXTENDS CompilerDownload, TLAPS

-----------------------------------------------------------------------------
(* The inductive invariant. *)

\* A task that got past the list wants a real version; only a finished task
\* has an outcome.
LabelInv ==
  \A t \in Tasks :
    /\ outcome[t] # "none" => pc[t] = "done"
    /\ pc[t] \in {"fetch", "verify", "post", "find", "open"}
         \/ outcome[t] = "compiler"
       => want[t] \in Versions

\* A live task inside the callback owns the mutex.
OwnerInv ==
  overdue = {} => \A t \in alive : pc[t] \in Critical => lock = t

\* The rest holds until a process dies while it replaces a list, or is too slow
\* for the mutex.
Sound == Undisturbed({"replace"})

\* Lists and binaries name what was published; a binary is in its list.
DiskInv ==
  /\ \A d \in Dirs, c \in Commits :
       bytes[d][c] \in Versions => Commit[bytes[d][c]] = c
  /\ \A d \in Dirs : \A v \in list[d] : remote[v] # "unreleased"
  /\ \A d \in Dirs, v \in Versions :
       BytesOf(d, v) # Absent =>
         /\ remote[v] # "unreleased"
         /\ v \in list[d] \/ remote[v] = "gone" \/ Replacing(d)
  /\ \A c \in Commits : <<"wasm", c>> \notin doesNotWork

\* What the owner of the mutex learned from its checks still holds.
OwnerKnowsInv ==
  \A t \in alive :
    /\ pc[t] \in {"fetch", "verify", "post"} => BuildListed(t)
    /\ pc[t] \in {"lookup", "fetch"} /\ BuildListed(t)
         => BytesOf(dir[t], want[t]) = Absent
    /\ pc[t] \in {"refresh", "replace"} /\ want[t] \in Versions
         => BytesOf(dir[t], want[t]) = Absent \/ remote[want[t]] = "gone"
    /\ pc[t] = "verify" => BytesOf(dir[t], want[t]) # Absent
    /\ pc[t] = "post" => BytesOf(dir[t], want[t]) = want[t]

Working(t, labels, d, v) == pc[t] \in labels /\ dir[t] = d /\ want[t] = v

\* A corrupt or unfinished binary has a task, alive or dead, at work on it.
UnfinishedInv ==
  \A d \in Dirs, v \in Versions :
    /\ BytesOf(d, v) = Corrupt => \E t \in Tasks : Working(t, {"verify"}, d, v)
    /\ d \in {"linux", "macos"} /\ BytesOf(d, v) # Absent
         /\ BinaryPath(d, v) \notin executable
       => \E t \in Tasks : Working(t, {"verify", "post"}, d, v)

\* A task that left the mutex with a compiler finds it, and nobody alive is
\* still at work on it.
Settled(t) == pc[t] \in {"find", "open"} \/ outcome[t] = "compiler"

SettledInv ==
  \A s \in Tasks : Settled(s) =>
    /\ BytesOf(dir[s], want[s]) # Absent
    /\ \A t \in alive : ~Working(t, {"verify", "post"}, dir[s], want[s])

SoundInv == DiskInv /\ OwnerKnowsInv /\ UnfinishedInv /\ SettledInv

IInv == TypeOK /\ LabelInv /\ OwnerInv /\ (Sound => SoundInv)

-----------------------------------------------------------------------------
(* Each step keeps it. *)

\* Every step keeps the types, and a task past the list wants a real version.
LEMMA TypeStep ==
  ASSUME TypeOK, LabelInv, [Next]_vars
  PROVE  TypeOK' /\ LabelInv'
<1>. USE CommitAssumption, HostAssumption, DistinctAssumption DEF TypeOK,
   Dirs, remoteVars, listVars, diskVars, processVars, Goto, Finish, Throw,
   Return, Labels, Errors, RemoteStates, Critical, LabelInv, BuildListed,
   BinaryPath
<1>1. ASSUME NEW t \in alive, Start(t) PROVE TypeOK' /\ LabelInv'
  BY <1>1 DEF Start, Request, UseCustomPath
<1>2. ASSUME NEW t \in alive, Acquire(t) PROVE TypeOK' /\ LabelInv'
  BY <1>2 DEF Acquire
<1>3. ASSUME NEW t \in alive, CheckDownloaded(t) PROVE TypeOK' /\ LabelInv'
  BY <1>3 DEF CheckDownloaded, VersionRejected, IsCompilerDownloaded
<1>4. ASSUME NEW t \in alive, LookUpBuild(t) PROVE TypeOK' /\ LabelInv'
  BY <1>4 DEF LookUpBuild
<1>5. ASSUME NEW t \in alive, RefreshFails(t) PROVE TypeOK' /\ LabelInv'
  BY <1>5 DEF RefreshFails
<1>6. ASSUME NEW t \in alive, RemoveOldList(t) PROVE TypeOK' /\ LabelInv'
  BY <1>6 DEF RemoveOldList
<1>7. ASSUME NEW t \in alive, PlaceList(t) PROVE TypeOK' /\ LabelInv'
  BY <1>7 DEF PlaceList, ListedBuilds
<1>8. ASSUME NEW t \in alive, FetchFails(t) PROVE TypeOK' /\ LabelInv'
  BY <1>8 DEF FetchFails
<1>9. ASSUME NEW t \in alive, FetchBinary(t) PROVE TypeOK' /\ LabelInv'
  BY <1>9 DEF FetchBinary
<1>10. ASSUME NEW t \in alive, VerifyBinary(t) PROVE TypeOK' /\ LabelInv'
  BY <1>10 DEF VerifyBinary
<1>11. ASSUME NEW t \in alive, PostProcess(t) PROVE TypeOK' /\ LabelInv'
  BY <1>11 DEF PostProcess, NeedsMode
<1>12. ASSUME NEW t \in alive, FindBuild(t) PROVE TypeOK' /\ LabelInv'
  BY <1>12 DEF FindBuild
<1>13. ASSUME NEW t \in alive, OpenCompiler(t) PROVE TypeOK' /\ LabelInv'
  BY <1>13 DEF OpenCompiler
<1>14. ASSUME NEW t \in alive, Crash(t) PROVE TypeOK' /\ LabelInv'
  BY <1>14 DEF Crash
<1>15. ASSUME NEW t \in alive, BreakStaleLock(t) \/ BreakLiveLock(t)
      PROVE  TypeOK' /\ LabelInv'
  BY <1>15 DEF BreakStaleLock, BreakLiveLock
<1>16. ASSUME NEW v \in Versions, Publish(v) \/ Drop(v)
      PROVE  TypeOK' /\ LabelInv'
  BY <1>16 DEF Publish, Drop
<1>17. ASSUME NEW e \in Dirs, ExpireList(e) PROVE TypeOK' /\ LabelInv'
  BY <1>17 DEF ExpireList
<1>18. CASE UNCHANGED vars
  BY <1>18 DEF vars
<1>. QED
  BY <1>1, <1>2, <1>3, <1>4, <1>5, <1>6, <1>7, <1>8, <1>9, <1>10, <1>11,
     <1>12, <1>13, <1>14, <1>15, <1>16, <1>17, <1>18 DEF Next, Work

\* Every step keeps the mutex exclusive among live tasks.
LEMMA OwnerStep ==
  ASSUME TypeOK, OwnerInv, [Next]_vars
  PROVE  OwnerInv'
<1>. USE DistinctAssumption DEF TypeOK, Dirs, remoteVars, listVars,
   diskVars, processVars, Goto, Finish, Throw, Return, Critical, OwnerInv
<1>1. ASSUME NEW t \in alive, Start(t) PROVE OwnerInv'
  BY <1>1 DEF Start, Request, UseCustomPath
<1>2. ASSUME NEW t \in alive, Acquire(t) PROVE OwnerInv'
  BY <1>2 DEF Acquire
<1>3. ASSUME NEW t \in alive, CheckDownloaded(t) PROVE OwnerInv'
  BY <1>3 DEF CheckDownloaded, VersionRejected, IsCompilerDownloaded
<1>4. ASSUME NEW t \in alive, LookUpBuild(t) PROVE OwnerInv'
  BY <1>4 DEF LookUpBuild
<1>5. ASSUME NEW t \in alive, RefreshFails(t) PROVE OwnerInv'
  BY <1>5 DEF RefreshFails
<1>6. ASSUME NEW t \in alive, RemoveOldList(t) PROVE OwnerInv'
  BY <1>6 DEF RemoveOldList
<1>7. ASSUME NEW t \in alive, PlaceList(t) PROVE OwnerInv'
  BY <1>7 DEF PlaceList, ListedBuilds
<1>8. ASSUME NEW t \in alive, FetchFails(t) PROVE OwnerInv'
  BY <1>8 DEF FetchFails
<1>9. ASSUME NEW t \in alive, FetchBinary(t) PROVE OwnerInv'
  BY <1>9 DEF FetchBinary
<1>10. ASSUME NEW t \in alive, VerifyBinary(t) PROVE OwnerInv'
  BY <1>10 DEF VerifyBinary
<1>11. ASSUME NEW t \in alive, PostProcess(t) PROVE OwnerInv'
  BY <1>11 DEF PostProcess, NeedsMode
<1>12. ASSUME NEW t \in alive, FindBuild(t) PROVE OwnerInv'
  BY <1>12 DEF FindBuild
<1>13. ASSUME NEW t \in alive, OpenCompiler(t) PROVE OwnerInv'
  BY <1>13 DEF OpenCompiler
<1>14. ASSUME NEW t \in alive, Crash(t) PROVE OwnerInv'
  BY <1>14 DEF Crash
<1>15. ASSUME NEW t \in alive, BreakStaleLock(t) \/ BreakLiveLock(t)
      PROVE  OwnerInv'
  BY <1>15 DEF BreakStaleLock, BreakLiveLock
<1>16. ASSUME NEW v \in Versions, Publish(v) \/ Drop(v) PROVE OwnerInv'
  BY <1>16 DEF Publish, Drop
<1>17. ASSUME NEW e \in Dirs, ExpireList(e) PROVE OwnerInv'
  BY <1>17 DEF ExpireList
<1>18. CASE UNCHANGED vars
  BY <1>18 DEF vars
<1>. QED
  BY <1>1, <1>2, <1>3, <1>4, <1>5, <1>6, <1>7, <1>8, <1>9, <1>10, <1>11,
     <1>12, <1>13, <1>14, <1>15, <1>16, <1>17, <1>18 DEF Next, Work

\* What was lost when a process died is not regained.
LEMMA SoundStep ==
  ASSUME TypeOK, Sound', [Next]_vars
  PROVE  Sound
<1>. USE DEF TypeOK, Dirs, remoteVars, listVars, diskVars, processVars,
   Goto, Finish, Throw, Return, Sound, Undisturbed
<1>1. ASSUME NEW t \in alive, Start(t) PROVE Sound
  BY <1>1 DEF Start, Request, UseCustomPath
<1>2. ASSUME NEW t \in alive, Acquire(t) PROVE Sound
  BY <1>2 DEF Acquire
<1>3. ASSUME NEW t \in alive, CheckDownloaded(t) PROVE Sound
  BY <1>3 DEF CheckDownloaded, VersionRejected, IsCompilerDownloaded
<1>4. ASSUME NEW t \in alive, LookUpBuild(t) PROVE Sound
  BY <1>4 DEF LookUpBuild
<1>5. ASSUME NEW t \in alive, RefreshFails(t) PROVE Sound
  BY <1>5 DEF RefreshFails
<1>6. ASSUME NEW t \in alive, RemoveOldList(t) PROVE Sound
  BY <1>6 DEF RemoveOldList
<1>7. ASSUME NEW t \in alive, PlaceList(t) PROVE Sound
  BY <1>7 DEF PlaceList, ListedBuilds
<1>8. ASSUME NEW t \in alive, FetchFails(t) PROVE Sound
  BY <1>8 DEF FetchFails
<1>9. ASSUME NEW t \in alive, FetchBinary(t) PROVE Sound
  BY <1>9 DEF FetchBinary
<1>10. ASSUME NEW t \in alive, VerifyBinary(t) PROVE Sound
  BY <1>10 DEF VerifyBinary
<1>11. ASSUME NEW t \in alive, PostProcess(t) PROVE Sound
  BY <1>11 DEF PostProcess, NeedsMode
<1>12. ASSUME NEW t \in alive, FindBuild(t) PROVE Sound
  BY <1>12 DEF FindBuild
<1>13. ASSUME NEW t \in alive, OpenCompiler(t) PROVE Sound
  BY <1>13 DEF OpenCompiler
<1>14. ASSUME NEW t \in alive, Crash(t) PROVE Sound
  BY <1>14 DEF Crash
<1>15. ASSUME NEW t \in alive, BreakStaleLock(t) \/ BreakLiveLock(t)
      PROVE  Sound
  BY <1>15 DEF BreakStaleLock, BreakLiveLock
<1>16. ASSUME NEW v \in Versions, Publish(v) \/ Drop(v) PROVE Sound
  BY <1>16 DEF Publish, Drop
<1>17. ASSUME NEW e \in Dirs, ExpireList(e) PROVE Sound
  BY <1>17 DEF ExpireList
<1>18. CASE UNCHANGED vars
  BY <1>18 DEF vars
<1>. QED
  BY <1>1, <1>2, <1>3, <1>4, <1>5, <1>6, <1>7, <1>8, <1>9, <1>10, <1>11,
     <1>12, <1>13, <1>14, <1>15, <1>16, <1>17, <1>18 DEF Next, Work

\* Every step keeps what is on disk listed, or listed once and dropped since.
LEMMA DiskStep ==
  ASSUME CommitsDistinct, TypeOK, LabelInv, DiskInv, OwnerInv,
     OwnerKnowsInv, Sound, Sound', [Next]_vars
  PROVE  DiskInv'
<1>. USE CommitAssumption, HostAssumption, DistinctAssumption DEF TypeOK,
   Dirs, remoteVars, listVars, diskVars, processVars, Goto, Finish, Throw,
   Return, RemoteStates, LabelInv, OwnerInv, OwnerKnowsInv, Critical, Sound,
   Undisturbed, Replacing, BuildListed, BinaryPath, BytesOf,
   CommitsDistinct, DiskInv
<1>1. ASSUME NEW t \in alive, Start(t) PROVE DiskInv'
  BY <1>1 DEF Start, Request, UseCustomPath
<1>2. ASSUME NEW t \in alive, Acquire(t) PROVE DiskInv'
  BY <1>2 DEF Acquire
<1>3. ASSUME NEW t \in alive, CheckDownloaded(t) PROVE DiskInv'
  BY <1>3 DEF CheckDownloaded, VersionRejected, IsCompilerDownloaded
<1>4. ASSUME NEW t \in alive, LookUpBuild(t) PROVE DiskInv'
  BY <1>4 DEF LookUpBuild
<1>5. ASSUME NEW t \in alive, RefreshFails(t) PROVE DiskInv'
  BY <1>5 DEF RefreshFails
<1>6. ASSUME NEW t \in alive, RemoveOldList(t) PROVE DiskInv'
  BY <1>6 DEF RemoveOldList
<1>7. ASSUME NEW t \in alive, PlaceList(t) PROVE DiskInv'
  BY <1>7 DEF PlaceList, ListedBuilds
<1>8. ASSUME NEW t \in alive, FetchFails(t) PROVE DiskInv'
  BY <1>8 DEF FetchFails
<1>9. ASSUME NEW t \in alive, FetchBinary(t) PROVE DiskInv'
  BY <1>9 DEF FetchBinary
<1>10. ASSUME NEW t \in alive, VerifyBinary(t) PROVE DiskInv'
  BY <1>10 DEF VerifyBinary
<1>11. ASSUME NEW t \in alive, PostProcess(t) PROVE DiskInv'
  BY <1>11 DEF PostProcess, NeedsMode
<1>12. ASSUME NEW t \in alive, FindBuild(t) PROVE DiskInv'
  BY <1>12 DEF FindBuild
<1>13. ASSUME NEW t \in alive, OpenCompiler(t) PROVE DiskInv'
  BY <1>13 DEF OpenCompiler
<1>14. ASSUME NEW t \in alive, Crash(t) PROVE DiskInv'
  BY <1>14 DEF Crash
<1>15. ASSUME NEW t \in alive, BreakStaleLock(t) \/ BreakLiveLock(t)
      PROVE  DiskInv'
  BY <1>15 DEF BreakStaleLock, BreakLiveLock
<1>16. ASSUME NEW v \in Versions, Publish(v) \/ Drop(v) PROVE DiskInv'
  BY <1>16 DEF Publish, Drop
<1>17. ASSUME NEW e \in Dirs, ExpireList(e) PROVE DiskInv'
  BY <1>17 DEF ExpireList
<1>18. CASE UNCHANGED vars
  BY <1>18 DEF vars
<1>. HIDE DEF TypeOK, LabelInv, OwnerInv, OwnerKnowsInv, DiskInv
<1>. QED
  BY <1>1, <1>2, <1>3, <1>4, <1>5, <1>6, <1>7, <1>8, <1>9, <1>10, <1>11,
     <1>12, <1>13, <1>14, <1>15, <1>16, <1>17, <1>18 DEF Next, Work

\* Every step keeps what the owner of the mutex learned.
LEMMA OwnerKnowsStep ==
  ASSUME CommitsDistinct, TypeOK, LabelInv, OwnerInv, DiskInv,
     OwnerKnowsInv, Sound, Sound', [Next]_vars
  PROVE  OwnerKnowsInv'
<1>. USE CommitAssumption, HostAssumption, DistinctAssumption DEF TypeOK,
   Dirs, remoteVars, listVars, diskVars, processVars, Goto, Finish, Throw,
   Return, Critical, RemoteStates, LabelInv, OwnerInv, DiskInv, Sound,
   Undisturbed, Replacing, BuildListed, BinaryPath, BytesOf,
   CommitsDistinct, OwnerKnowsInv
<1>1. ASSUME NEW t \in alive, Start(t) PROVE OwnerKnowsInv'
  BY <1>1 DEF Start, Request, UseCustomPath
<1>2. ASSUME NEW t \in alive, Acquire(t) PROVE OwnerKnowsInv'
  BY <1>2 DEF Acquire
<1>3. ASSUME NEW t \in alive, CheckDownloaded(t) PROVE OwnerKnowsInv'
  BY <1>3 DEF CheckDownloaded, VersionRejected, IsCompilerDownloaded
<1>4. ASSUME NEW t \in alive, LookUpBuild(t) PROVE OwnerKnowsInv'
  BY <1>4 DEF LookUpBuild
<1>5. ASSUME NEW t \in alive, RefreshFails(t) PROVE OwnerKnowsInv'
  BY <1>5 DEF RefreshFails
<1>6. ASSUME NEW t \in alive, RemoveOldList(t) PROVE OwnerKnowsInv'
  BY <1>6 DEF RemoveOldList
<1>7. ASSUME NEW t \in alive, PlaceList(t) PROVE OwnerKnowsInv'
  BY <1>7 DEF PlaceList, ListedBuilds
<1>8. ASSUME NEW t \in alive, FetchFails(t) PROVE OwnerKnowsInv'
  BY <1>8 DEF FetchFails
<1>9. ASSUME NEW t \in alive, FetchBinary(t) PROVE OwnerKnowsInv'
  BY <1>9 DEF FetchBinary
<1>10. ASSUME NEW t \in alive, VerifyBinary(t) PROVE OwnerKnowsInv'
  BY <1>10 DEF VerifyBinary
<1>11. ASSUME NEW t \in alive, PostProcess(t) PROVE OwnerKnowsInv'
  BY <1>11 DEF PostProcess, NeedsMode
<1>12. ASSUME NEW t \in alive, FindBuild(t) PROVE OwnerKnowsInv'
  BY <1>12 DEF FindBuild
<1>13. ASSUME NEW t \in alive, OpenCompiler(t) PROVE OwnerKnowsInv'
  BY <1>13 DEF OpenCompiler
<1>14. ASSUME NEW t \in alive, Crash(t) PROVE OwnerKnowsInv'
  BY <1>14 DEF Crash
<1>15. ASSUME NEW t \in alive, BreakStaleLock(t) \/ BreakLiveLock(t)
      PROVE  OwnerKnowsInv'
  BY <1>15 DEF BreakStaleLock, BreakLiveLock
<1>16. ASSUME NEW v \in Versions, Publish(v) \/ Drop(v) PROVE OwnerKnowsInv'
  BY <1>16 DEF Publish, Drop
<1>17. ASSUME NEW e \in Dirs, ExpireList(e) PROVE OwnerKnowsInv'
  BY <1>17 DEF ExpireList
<1>18. CASE UNCHANGED vars
  BY <1>18 DEF vars
<1>. HIDE DEF TypeOK, LabelInv, OwnerInv, DiskInv, OwnerKnowsInv
<1>. QED
  BY <1>1, <1>2, <1>3, <1>4, <1>5, <1>6, <1>7, <1>8, <1>9, <1>10, <1>11,
     <1>12, <1>13, <1>14, <1>15, <1>16, <1>17, <1>18 DEF Next, Work

\* Every step keeps a worker for each unfinished binary.
LEMMA UnfinishedStep ==
  ASSUME CommitsDistinct, TypeOK, LabelInv, DiskInv, OwnerKnowsInv,
     UnfinishedInv, [Next]_vars
  PROVE  UnfinishedInv'
<1>. USE CommitAssumption, HostAssumption, DistinctAssumption DEF TypeOK,
   Dirs, remoteVars, listVars, diskVars, processVars, Goto, Finish, Throw,
   Return, LabelInv, DiskInv, OwnerKnowsInv, BuildListed, BinaryPath,
   BytesOf, CommitsDistinct, Working, UnfinishedInv
<1>1. ASSUME NEW t \in alive, Start(t) PROVE UnfinishedInv'
  BY <1>1 DEF Start, Request, UseCustomPath
<1>2. ASSUME NEW t \in alive, Acquire(t) PROVE UnfinishedInv'
  BY <1>2 DEF Acquire
<1>3. ASSUME NEW t \in alive, CheckDownloaded(t) PROVE UnfinishedInv'
  BY <1>3 DEF CheckDownloaded, VersionRejected, IsCompilerDownloaded
<1>4. ASSUME NEW t \in alive, LookUpBuild(t) PROVE UnfinishedInv'
  BY <1>4 DEF LookUpBuild
<1>5. ASSUME NEW t \in alive, RefreshFails(t) PROVE UnfinishedInv'
  BY <1>5 DEF RefreshFails
<1>6. ASSUME NEW t \in alive, RemoveOldList(t) PROVE UnfinishedInv'
  BY <1>6 DEF RemoveOldList
<1>7. ASSUME NEW t \in alive, PlaceList(t) PROVE UnfinishedInv'
  BY <1>7 DEF PlaceList, ListedBuilds
<1>8. ASSUME NEW t \in alive, FetchFails(t) PROVE UnfinishedInv'
  BY <1>8 DEF FetchFails
<1>9. ASSUME NEW t \in alive, FetchBinary(t) PROVE UnfinishedInv'
  BY <1>9 DEF FetchBinary
<1>10. ASSUME NEW t \in alive, VerifyBinary(t) PROVE UnfinishedInv'
  BY <1>10 DEF VerifyBinary
<1>11. ASSUME NEW t \in alive, PostProcess(t) PROVE UnfinishedInv'
  BY <1>11 DEF PostProcess, NeedsMode
<1>12. ASSUME NEW t \in alive, FindBuild(t) PROVE UnfinishedInv'
  BY <1>12 DEF FindBuild
<1>13. ASSUME NEW t \in alive, OpenCompiler(t) PROVE UnfinishedInv'
  BY <1>13 DEF OpenCompiler
<1>14. ASSUME NEW t \in alive, Crash(t) PROVE UnfinishedInv'
  BY <1>14 DEF Crash
<1>15. ASSUME NEW t \in alive, BreakStaleLock(t) \/ BreakLiveLock(t)
      PROVE  UnfinishedInv'
  BY <1>15 DEF BreakStaleLock, BreakLiveLock
<1>16. ASSUME NEW v \in Versions, Publish(v) \/ Drop(v) PROVE UnfinishedInv'
  BY <1>16 DEF Publish, Drop
<1>17. ASSUME NEW e \in Dirs, ExpireList(e) PROVE UnfinishedInv'
  BY <1>17 DEF ExpireList
<1>18. CASE UNCHANGED vars
  BY <1>18 DEF vars
<1>. HIDE DEF UnfinishedInv, TypeOK, DiskInv, OwnerKnowsInv, LabelInv
<1>. QED
  BY <1>1, <1>2, <1>3, <1>4, <1>5, <1>6, <1>7, <1>8, <1>9, <1>10, <1>11,
     <1>12, <1>13, <1>14, <1>15, <1>16, <1>17, <1>18 DEF Next, Work

\* Every step keeps the binary of a task that left the mutex in place.
LEMMA SettledStep ==
  ASSUME CommitsDistinct, TypeOK, LabelInv, OwnerInv, DiskInv,
     OwnerKnowsInv, SettledInv, Sound, Sound', [Next]_vars
  PROVE  SettledInv'
<1>. USE CommitAssumption, HostAssumption, DistinctAssumption DEF TypeOK,
   Dirs, remoteVars, listVars, diskVars, processVars, Goto, Finish, Throw,
   Return, Critical, LabelInv, OwnerInv, DiskInv, OwnerKnowsInv, Sound,
   Undisturbed, BuildListed, BinaryPath, BytesOf, CommitsDistinct, Working,
   Settled, SettledInv
<1>1. ASSUME NEW t \in alive, Start(t) PROVE SettledInv'
  BY <1>1 DEF Start, Request, UseCustomPath
<1>2. ASSUME NEW t \in alive, Acquire(t) PROVE SettledInv'
  BY <1>2 DEF Acquire
<1>3. ASSUME NEW t \in alive, CheckDownloaded(t) PROVE SettledInv'
  BY <1>3 DEF CheckDownloaded, VersionRejected, IsCompilerDownloaded
<1>4. ASSUME NEW t \in alive, LookUpBuild(t) PROVE SettledInv'
  BY <1>4 DEF LookUpBuild
<1>5. ASSUME NEW t \in alive, RefreshFails(t) PROVE SettledInv'
  BY <1>5 DEF RefreshFails
<1>6. ASSUME NEW t \in alive, RemoveOldList(t) PROVE SettledInv'
  BY <1>6 DEF RemoveOldList
<1>7. ASSUME NEW t \in alive, PlaceList(t) PROVE SettledInv'
  BY <1>7 DEF PlaceList, ListedBuilds
<1>8. ASSUME NEW t \in alive, FetchFails(t) PROVE SettledInv'
  BY <1>8 DEF FetchFails
<1>9. ASSUME NEW t \in alive, FetchBinary(t) PROVE SettledInv'
  BY <1>9 DEF FetchBinary
<1>10. ASSUME NEW t \in alive, VerifyBinary(t) PROVE SettledInv'
  BY <1>10 DEF VerifyBinary
<1>11. ASSUME NEW t \in alive, PostProcess(t) PROVE SettledInv'
  BY <1>11 DEF PostProcess, NeedsMode
<1>12. ASSUME NEW t \in alive, FindBuild(t) PROVE SettledInv'
  BY <1>12 DEF FindBuild
<1>13. ASSUME NEW t \in alive, OpenCompiler(t) PROVE SettledInv'
  BY <1>13 DEF OpenCompiler
<1>14. ASSUME NEW t \in alive, Crash(t) PROVE SettledInv'
  BY <1>14 DEF Crash
<1>15. ASSUME NEW t \in alive, BreakStaleLock(t) \/ BreakLiveLock(t)
      PROVE  SettledInv'
  BY <1>15 DEF BreakStaleLock, BreakLiveLock
<1>16. ASSUME NEW v \in Versions, Publish(v) \/ Drop(v) PROVE SettledInv'
  BY <1>16 DEF Publish, Drop
<1>17. ASSUME NEW e \in Dirs, ExpireList(e) PROVE SettledInv'
  BY <1>17 DEF ExpireList
<1>18. CASE UNCHANGED vars
  BY <1>18 DEF vars
<1>. HIDE DEF TypeOK, LabelInv, OwnerInv, DiskInv, OwnerKnowsInv, SettledInv
<1>. QED
  BY <1>1, <1>2, <1>3, <1>4, <1>5, <1>6, <1>7, <1>8, <1>9, <1>10, <1>11,
     <1>12, <1>13, <1>14, <1>15, <1>16, <1>17, <1>18 DEF Next, Work

-----------------------------------------------------------------------------
(* The invariants of the specification. *)

\* The empty cache satisfies the invariant.
LEMMA InitHolds == Init => IInv
<1>. SUFFICES ASSUME Init PROVE IInv
  OBVIOUS
<1>. USE CommitAssumption, HostAssumption, DistinctAssumption DEF Init, Dirs
<1>1. TypeOK
  BY DEF TypeOK, RemoteStates, Labels
<1>2. LabelInv /\ OwnerInv
  BY DEF LabelInv, OwnerInv, Critical
<1>3. DiskInv
  BY DEF DiskInv, BytesOf
<1>4. OwnerKnowsInv /\ SettledInv
  BY DEF OwnerKnowsInv, SettledInv, Settled
<1>5. UnfinishedInv
  BY DEF UnfinishedInv, BytesOf
<1>. QED
  BY <1>1, <1>2, <1>3, <1>4, <1>5 DEF IInv, SoundInv

\* Spec never leaves the declared types (TypeOK).
THEOREM TypeCorrect == Spec => []TypeOK
<1>1. Init => TypeOK /\ LabelInv
  BY InitHolds DEF IInv
<1>2. TypeOK /\ LabelInv /\ [Next]_vars => TypeOK' /\ LabelInv'
  BY TypeStep
<1>. QED
  BY <1>1, <1>2, PTL DEF Spec

\* The mutex keeps the callbacks of downloadCompiler apart, for any number of
\* processes and of crashes, until a live owner outlives the mutex's lifespan.
THEOREM MutualExclusion == Spec => []OneDownloaderAtATime
<1>1. Init => TypeOK /\ LabelInv /\ OwnerInv
  BY InitHolds DEF IInv
<1>2. TypeOK /\ LabelInv /\ OwnerInv /\ [Next]_vars
        => TypeOK' /\ LabelInv' /\ OwnerInv'
  BY TypeStep, OwnerStep
<1>3. OwnerInv => OneDownloaderAtATime
  BY DEF OwnerInv, OneDownloaderAtATime
<1>. QED
  BY <1>1, <1>2, <1>3, PTL DEF Spec

\* IInv is an invariant when releases have different abbreviated commits.
THEOREM Invariance == ASSUME CommitsDistinct PROVE Spec => []IInv
<1>1. IInv /\ [Next]_vars => IInv'
  <2>. SUFFICES ASSUME IInv, [Next]_vars PROVE IInv'
    OBVIOUS
  <2>1. TypeOK' /\ LabelInv' /\ OwnerInv'
    BY TypeStep, OwnerStep DEF IInv
  <2>2. ASSUME Sound' PROVE SoundInv'
    <3>1. Sound
      BY <2>2, SoundStep DEF IInv
    <3>. QED
      BY <2>2, <3>1, DiskStep, OwnerKnowsStep, UnfinishedStep, SettledStep
         DEF IInv, SoundInv
  <2>. QED
    BY <2>1, <2>2 DEF IInv
<1>. QED
  BY InitHolds, <1>1, PTL DEF Spec

-----------------------------------------------------------------------------
(* What the cache promises. *)

\* A binary that failed its check is never handed out, for any number of
\* concurrent requests, unless a process died before the check.
THEOREM VerifiedHandOut ==
  ASSUME CommitsDistinct PROVE Spec => []HandedOutIsVerified
<1>1. IInv => HandedOutIsVerified
  <2>. SUFFICES ASSUME IInv, Undisturbed({"replace", "verify"}),
                       NEW s \in Tasks, HandedOut(s)
                PROVE  BytesOf(dir[s], want[s]) = want[s]
    BY DEF HandedOutIsVerified
  <2>. USE CommitAssumption, DistinctAssumption
         DEF TypeOK, HandedOut, BytesOf
  <2>1. SoundInv
    BY DEF IInv, Sound, Undisturbed
  <2>2. want[s] \in Versions /\ dir[s] \in Dirs /\ Commit[want[s]] \in Commits
    BY DEF IInv, LabelInv
  <2>3. BytesOf(dir[s], want[s]) # Absent
    BY <2>1 DEF SoundInv, SettledInv, Settled
  <2>4. BytesOf(dir[s], want[s]) # Corrupt
    BY <2>1, <2>2 DEF SoundInv, UnfinishedInv, SettledInv, Settled, Working,
                      Undisturbed
  <2>5. BytesOf(dir[s], want[s]) \in Versions
    BY <2>2, <2>3, <2>4 DEF IInv
  <2>. QED
    BY <2>1, <2>2, <2>5 DEF SoundInv, DiskInv, CommitsDistinct
<1>. QED
  BY <1>1, Invariance, PTL

\* A native compiler is handed out with its file mode set, unless a process
\* died between the download and the end of its post-processing.
THEOREM ExecutableHandOut ==
  ASSUME CommitsDistinct PROVE Spec => []HandedOutIsExecutable
<1>1. IInv => HandedOutIsExecutable
  <2>. SUFFICES ASSUME IInv, Undisturbed({"replace", "verify", "post"}),
                       NEW s \in Tasks,
                       HandedOut(s), dir[s] \in {"linux", "macos"},
                       BinaryPath(dir[s], want[s]) \notin executable
                PROVE  FALSE
    BY DEF HandedOutIsExecutable
  <2>1. SoundInv
    BY DEF IInv, Sound, Undisturbed
  <2>2. want[s] \in Versions /\ dir[s] \in Dirs
    BY DEF IInv, LabelInv, HandedOut, TypeOK
  <2>3. Settled(s)
    BY DEF Settled, HandedOut
  <2>4. PICK t \in Tasks : Working(t, {"verify", "post"}, dir[s], want[s])
    BY <2>1, <2>2, <2>3 DEF SoundInv, UnfinishedInv, SettledInv
  <2>5. t \in alive
    BY <2>4 DEF Undisturbed, Working
  <2>. QED
    BY <2>1, <2>3, <2>4, <2>5 DEF SoundInv, SettledInv
<1>. QED
  BY <1>1, Invariance, PTL

\* No request ever overwrites or unlinks a binary that passed its check, under
\* changing release lists and crashes other than in the move of a list.
THEOREM NeverReplaced ==
  ASSUME CommitsDistinct PROVE Spec => GoodBinaryIsNeverReplaced
<1>1. IInv /\ [Next]_vars => KeepsGoodBinaries
  <2>. SUFFICES ASSUME IInv, [Next]_vars, Undisturbed({"replace"}),
                       NEW d \in Dirs, NEW v \in Versions,
                       BytesOf(d, v) = v
                PROVE  BytesOf(d, v)' = v
    BY DEF KeepsGoodBinaries
  <2>. USE CommitAssumption, DistinctAssumption
         DEF IInv, Sound, SoundInv, TypeOK, LabelInv, BytesOf, CommitsDistinct
  <2>1. ASSUME NEW t \in alive, FetchBinary(t) PROVE BytesOf(d, v)' = v
    BY <2>1 DEF FetchBinary, OwnerKnowsInv
  <2>2. ASSUME NEW t \in alive, VerifyBinary(t) PROVE BytesOf(d, v)' = v
    <3>1. CASE UNCHANGED bytes
      BY <3>1
    <3>2. CASE bytes' = [bytes EXCEPT ![dir[t]][Commit[want[t]]] = Absent]
      <4>1. want[t] \in Versions /\ BytesOf(dir[t], want[t]) # want[t]
        BY <2>2, <3>2 DEF VerifyBinary
      <4>2. dir[t] # d \/ Commit[want[t]] # Commit[v]
        BY <4>1
      <4>. QED
        BY <3>2, <4>2
    <3>. QED
      BY <2>2, <3>1, <3>2 DEF VerifyBinary
  <2>3. CASE UNCHANGED bytes
    BY <2>3
  <2>. QED
    BY <2>1, <2>2, <2>3
       DEF Next, Work, Start, Request, UseCustomPath, Acquire,
           CheckDownloaded, LookUpBuild, RefreshFails, RemoveOldList,
           PlaceList, FetchFails, PostProcess, FindBuild, OpenCompiler, Crash,
           BreakStaleLock, BreakLiveLock, Publish, Drop, ExpireList, diskVars,
           vars
<1>. QED
  BY <1>1, Invariance, PTL DEF Spec, GoodBinaryIsNeverReplaced

\* A request for a cached version the releases API still shows never ends in a
\* network, checksum, missing-file or "not released" error.
THEOREM CachedNeverRejected ==
  ASSUME CommitsDistinct PROVE Spec => CachedVersionIsNeverRejected
<1>1. IInv /\ [Next]_vars => RejectsOnlyUncached
  <2>. SUFFICES ASSUME IInv, [Next]_vars, Undisturbed({"replace"}),
                       NEW s \in Tasks,
                       want[s] \in Versions, remote[want[s]] # "gone",
                       outcome[s] = "none",
                       outcome'[s] \in {"unreleased", "network", "checksum",
                                        "missingFile"},
                       BytesOf(dir[s], want[s]) = want[s]
                PROVE  FALSE
    BY DEF RejectsOnlyUncached
  <2>. USE CommitAssumption, DistinctAssumption
         DEF IInv, Sound, SoundInv, TypeOK, Goto, Finish, Throw, Return
  <2>1. BytesOf(dir[s], want[s]) # Absent
    OBVIOUS
  <2>2. ASSUME NEW t \in alive, LookUpBuild(t) PROVE FALSE
    <3>1. t = s /\ ~BuildListed(s) /\ pc[s] = "lookup"
      BY <2>2 DEF LookUpBuild
    <3>2. ~Replacing(dir[s])
      BY <2>2, <3>1 DEF Replacing, OwnerInv, Critical, Undisturbed
    <3>. QED
      BY <2>1, <3>1, <3>2 DEF DiskInv, BuildListed
  <2>3. ASSUME NEW t \in alive, RefreshFails(t) \/ PlaceList(t) PROVE FALSE
    <3>1. t = s /\ pc[s] \in {"refresh", "replace"}
      BY <2>3 DEF RefreshFails, PlaceList
    <3>. QED
      BY <2>1, <2>3, <3>1 DEF OwnerKnowsInv
  <2>4. ASSUME NEW t \in alive, FetchFails(t) PROVE FALSE
    BY <2>1, <2>4 DEF FetchFails, OwnerKnowsInv
  <2>5. ASSUME NEW t \in alive, VerifyBinary(t) \/ PostProcess(t) PROVE FALSE
    BY <2>1, <2>5 DEF VerifyBinary, PostProcess
  <2>6. ASSUME NEW t \in alive,
               \/ Start(t) \/ CheckDownloaded(t)
               \/ FindBuild(t) \/ OpenCompiler(t)
        PROVE  FALSE
    BY <2>6 DEF Start, Request, UseCustomPath, CheckDownloaded, FindBuild,
                OpenCompiler
  <2>7. CASE UNCHANGED outcome
    BY <2>7
  <2>. QED
    BY <2>2, <2>3, <2>4, <2>5, <2>6, <2>7
       DEF Next, Work, Acquire, RemoveOldList, FetchBinary, Crash,
           BreakStaleLock, BreakLiveLock, Publish, Drop, ExpireList, vars
<1>. QED
  BY <1>1, Invariance, PTL DEF Spec, CachedVersionIsNeverRejected

\* getCompiler's assertions fail only while a list is being replaced or after
\* the version has left the releases API: the binary itself is always there.
THEOREM AssertionsFailOnLists ==
  ASSUME CommitsDistinct PROVE Spec => AssertionsNeedALostList
<1>1. IInv /\ [Next]_vars => AssertsOnlyWithoutList
  <2>. SUFFICES ASSUME IInv, [Next]_vars, Undisturbed({"replace"}),
                       NEW s \in Tasks,
                       outcome[s] # "assertion", outcome'[s] = "assertion"
                PROVE  Replacing(dir[s]) \/ remote[want[s]] = "gone"
    BY DEF AssertsOnlyWithoutList
  <2>. USE CommitAssumption
         DEF IInv, Sound, SoundInv, TypeOK, Goto, Finish, Throw, Return
  <2>1. ASSUME NEW t \in alive, FindBuild(t)
        PROVE  Replacing(dir[s]) \/ remote[want[s]] = "gone"
    BY <2>1 DEF FindBuild, SettledInv, Settled, LabelInv, DiskInv, BuildListed
  <2>2. ASSUME NEW t \in alive, OpenCompiler(t) PROVE FALSE
    BY <2>2 DEF OpenCompiler, SettledInv, Settled, LabelInv, DiskInv,
                BinaryPath
  <2>3. ASSUME NEW t \in alive,
               \/ Start(t) \/ CheckDownloaded(t) \/ LookUpBuild(t)
               \/ RefreshFails(t) \/ PlaceList(t)
               \/ FetchFails(t) \/ VerifyBinary(t) \/ PostProcess(t)
        PROVE  FALSE
    BY <2>3 DEF Start, Request, UseCustomPath, CheckDownloaded, LookUpBuild,
                RefreshFails, PlaceList, FetchFails, VerifyBinary, PostProcess
  <2>4. outcome' # outcome
    OBVIOUS
  <2>. QED
    BY <2>1, <2>2, <2>3, <2>4
       DEF Next, Work, Acquire, RemoveOldList, FetchBinary,
           Crash, BreakStaleLock, BreakLiveLock, Publish, Drop, ExpireList,
           vars
<1>. QED
  BY <1>1, Invariance, PTL DEF Spec, AssertionsNeedALostList
=============================================================================
