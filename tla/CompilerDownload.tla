-------------------------- MODULE CompilerDownload --------------------------
(***************************************************************************)
(* The shared cache of resolc compilers: what happens when several Hardhat *)
(* processes ask for a compiler at once (TASK_COMPILE_SOLIDITY_GET_RESOLC_ *)
(* BUILD and ResolcCompilerDownloader).                                    *)
(*                                                                         *)
(* A task is one run of the build subtask in one process.  Tasks share a   *)
(* directory per platform with the list of builds, the binaries and the    *)
(* "does not work" markers.  Downloads run under a multi-process mutex;    *)
(* reading the compiler back (getCompiler) does not.                       *)
(*                                                                         *)
(* Simplifications: a binary's bytes are the version they belong to, or    *)
(* Corrupt when their SHA-256 is not the one in the list; a binary appears *)
(* in one step (its place is free); the disk does not fail.  A list does   *)
(* have an old file in its place: fs-extra removes that before it renames. *)
(***************************************************************************)
EXTENDS FiniteSets, Naturals

CONSTANTS
  Tasks,         \* runs of the build subtask
  Versions,      \* versions of resolc that exist or will exist
  Commits,       \* abbreviated commits, the names of binaries on disk
  Commit,        \* Commit[v]: the commit of the release of version v
  NativeRun,     \* NativeRun[v]: what starting v's native binary does
  HostPlatform,  \* os.platform()
  MaxCrashes,    \* bound on the processes that die
  MaxOverdue,    \* bound on the live owners that lose the mutex
  Malformed,     \* a requested version that parseInt rejects
  Absent,        \* no file
  Corrupt,       \* bytes that fail the checksum
  NoTask         \* the mutex file does not exist

Platforms == {"linux", "macos", "windows", "wasm"}

RunOutcomes == {"runs", "exitsWithError", "spawnThrows"}

ASSUME CommitAssumption == Commit \in [Versions -> Commits]

ASSUME NativeRunAssumption == NativeRun \in [Versions -> RunOutcomes]

ASSUME HostAssumption == HostPlatform \in Platforms

ASSUME BoundAssumption == MaxCrashes \in Nat /\ MaxOverdue \in Nat

ASSUME DistinctAssumption ==
  /\ NoTask \notin Tasks
  /\ {Malformed, Absent, Corrupt} \cap Versions = {}
  /\ Absent # Corrupt

VARIABLES
  remote,      \* remote[v]: does the releases API show version v?
  list,        \* list[d]: the versions in resolc-list.json of directory d
  listAge,     \* listAge[d]: the age of that file
  bytes,       \* bytes[d][c]: the binary of commit c in directory d
  executable,  \* binaries whose mode was set to 0o755
  doesNotWork, \* binaries with a .does.not.work file beside them
  lock,        \* owner of the "compiler-download" mutex file
  overdue,     \* live owners whose mutex file was removed as too old
  alive,       \* tasks whose process runs
  pc,          \* where each task is
  want,        \* the version it was asked for
  dir,         \* the platform of the downloader it uses now
  outcome      \* how it ended

remoteVars == <<remote>>
listVars == <<list, listAge>>
diskVars == <<bytes, executable, doesNotWork>>
processVars == <<overdue, alive>>
vars == <<remote, list, listAge, bytes, executable, doesNotWork,
          lock, overdue, alive, pc, want, dir, outcome>>

Dirs == {HostPlatform, "wasm"}

RemoteStates == {"unreleased", "listed", "gone"}

Labels == {"idle", "acquire", "check", "lookup", "refresh", "replace",
           "fetch", "verify", "post", "find", "open", "done"}

\* The labels inside the callback given to the mutex.
Critical == {"check", "lookup", "refresh", "replace", "fetch", "verify",
             "post"}

Errors == {"malformed", "unreleased", "network", "checksum", "missingFile",
           "assertion"}

TypeOK ==
  /\ remote \in [Versions -> RemoteStates]
  /\ list \in [Dirs -> SUBSET Versions]
  /\ listAge \in [Dirs -> {"missing", "fresh", "expired"}]
  /\ bytes \in [Dirs -> [Commits -> Versions \cup {Absent, Corrupt}]]
  /\ executable \in SUBSET (Dirs \X Commits)
  /\ doesNotWork \in SUBSET (Dirs \X Commits)
  /\ lock \in Tasks \cup {NoTask}
  /\ overdue \in SUBSET Tasks
  /\ alive \in SUBSET Tasks
  /\ pc \in [Tasks -> Labels]
  /\ want \in [Tasks -> Versions \cup {Malformed}]
  /\ dir \in [Tasks -> Dirs]
  /\ outcome \in [Tasks -> {"none", "compiler", "custom"} \cup Errors]

Init ==
  /\ remote \in [Versions -> {"unreleased", "listed"}]
  /\ list = [d \in Dirs |-> {}]
  /\ listAge = [d \in Dirs |-> "missing"]
  /\ bytes = [d \in Dirs |-> [c \in Commits |-> Absent]]
  /\ executable = {}
  /\ doesNotWork = {}
  /\ lock = NoTask
  /\ overdue = {}
  /\ alive = Tasks
  /\ pc = [t \in Tasks |-> "idle"]
  /\ want = [t \in Tasks |-> Malformed]
  /\ dir = [t \in Tasks |-> HostPlatform]
  /\ outcome = [t \in Tasks |-> "none"]

-----------------------------------------------------------------------------
(* What a task sees on disk. *)

\* _getCompilerBuild returns a build / throws "is not a valid version".
BuildListed(t) == want[t] \in list[dir[t]]
VersionRejected(t) == listAge[dir[t]] # "missing" /\ want[t] = Malformed

\* _getCompilerBinaryPathFromBuild of the build of version v.
BinaryPath(d, v) == <<d, Commit[v]>>

BytesOf(d, v) == bytes[d][Commit[v]]

\* Mutants: only the list is consulted; a binary of an old list is not reused.
ListedIsDownloaded(t) == BuildListed(t)
DownloadedInFreshList(t) ==
  /\ BuildListed(t) /\ listAge[dir[t]] = "fresh"
  /\ BytesOf(dir[t], want[t]) # Absent

IsCompilerDownloaded(t) ==
  BuildListed(t) /\ BytesOf(dir[t], want[t]) # Absent

ShouldDownloadCompilerList(t) == listAge[dir[t]] \in {"missing", "expired"}

\* Mutant: no filter on the releases, any tag becomes a build.
EveryTagIsABuild == Versions \cup {Malformed}

\* The builds download() makes out of the response of the releases API.
ListedBuilds == {v \in Versions : remote[v] = "listed"}

\* Mutants: chmod on one of the platforms only.
ModeOnLinuxOnly(d) == d = "linux"
ModeOnMacOnly(d) == d = "macos"

\* Platforms whose binaries get mode 0o755 after the download.
NeedsMode(d) == d \in {"linux", "macos"}

\* The promise of execFile is not awaited: only a spawn that throws at once
\* is noticed.
CheckNativeResolc(v) == NativeRun[v] # "spawnThrows"

-----------------------------------------------------------------------------
(* Moves of one task. *)

Goto(t, label) == pc' = [pc EXCEPT ![t] = label] /\ UNCHANGED outcome

Finish(t, result) ==
  /\ pc' = [pc EXCEPT ![t] = "done"]
  /\ outcome' = [outcome EXCEPT ![t] = result]

\* Mutant: the mutex is released on the normal path only.
ThrowKeepingMutex(t, error) == UNCHANGED lock /\ Finish(t, error)

\* An exception leaves the callback: use() releases the mutex and rethrows.
Throw(t, error) == lock' = NoTask /\ Finish(t, error)

\* The callback returns, and getCompiler is called after the mutex is free.
Return(t) == lock' = NoTask /\ Goto(t, "find")

Request(t, v) ==
  /\ pc[t] = "idle"
  /\ want' = [want EXCEPT ![t] = v]
  /\ Goto(t, "acquire")
  /\ UNCHANGED <<remoteVars, processVars, listVars, diskVars, lock, dir>>

\* config.resolc.settings.resolcPath is set: no download at all.
UseCustomPath(t) ==
  /\ pc[t] = "idle"
  /\ Finish(t, "custom")
  /\ UNCHANGED <<remoteVars, processVars, listVars, diskVars, lock, want, dir>>

\* Mutant: the mutex file is written whether it exists or not.
AcquireAnyway(t) ==
  /\ pc[t] = "acquire"
  /\ lock' = t
  /\ Goto(t, "check")
  /\ UNCHANGED <<remoteVars, processVars, listVars, diskVars, want, dir>>

Acquire(t) ==
  /\ pc[t] = "acquire"
  /\ lock = NoTask
  /\ lock' = t
  /\ Goto(t, "check")
  /\ UNCHANGED <<remoteVars, processVars, listVars, diskVars, want, dir>>

CheckDownloaded(t) ==
  /\ pc[t] = "check"
  /\ \/ VersionRejected(t) /\ Throw(t, "malformed")
     \/ IsCompilerDownloaded(t) /\ Return(t)
     \/ /\ ~VersionRejected(t) /\ ~IsCompilerDownloaded(t)
        /\ Goto(t, "lookup")
        /\ UNCHANGED lock
  /\ UNCHANGED <<remoteVars, processVars, listVars, diskVars, want, dir>>

LookUpBuild(t) ==
  /\ pc[t] = "lookup"
  /\ \/ BuildListed(t) /\ Goto(t, "fetch") /\ UNCHANGED lock
     \/ /\ ~BuildListed(t) /\ ShouldDownloadCompilerList(t)
        /\ Goto(t, "refresh")
        /\ UNCHANGED lock
     \/ /\ ~BuildListed(t) /\ ~ShouldDownloadCompilerList(t)
        /\ Throw(t, "unreleased")
  /\ UNCHANGED <<remoteVars, processVars, listVars, diskVars, want, dir>>

\* The request fails, or grep finds no checksum and download() returns without
\* writing: either way the version stays unknown and the same error is thrown.
\* A second process in here may also move the temporary file away.
RefreshFails(t) ==
  /\ pc[t] = "refresh" \/ (pc[t] = "replace" /\ overdue # {})
  /\ Throw(t, "unreleased")
  /\ UNCHANGED <<remoteVars, processVars, listVars, diskVars, want, dir>>

\* The new list is written to a temporary file and moved into place: first the
\* old list is removed, ...
RemoveOldList(t) ==
  /\ pc[t] = "refresh"
  /\ list' = [list EXCEPT ![dir[t]] = {}]
  /\ listAge' = [listAge EXCEPT ![dir[t]] = "missing"]
  /\ Goto(t, "replace")
  /\ UNCHANGED <<remoteVars, processVars, diskVars, lock, want, dir>>

\* ... then the new one takes its name, and is searched.
PlaceList(t) ==
  /\ pc[t] = "replace"
  /\ list' = [list EXCEPT ![dir[t]] = ListedBuilds]
  /\ listAge' = [listAge EXCEPT ![dir[t]] = "fresh"]
  /\ \/ want[t] \notin Versions /\ Throw(t, "malformed")
     \/ want[t] \in ListedBuilds /\ Goto(t, "fetch") /\ UNCHANGED lock
     \/ want[t] \in Versions \ ListedBuilds /\ Throw(t, "unreleased")
  /\ UNCHANGED <<remoteVars, processVars, diskVars, want, dir>>

FetchFails(t) ==
  /\ pc[t] = "fetch"
  /\ Throw(t, "network")
  /\ UNCHANGED <<remoteVars, processVars, listVars, diskVars, want, dir>>

\* The response is moved to its final name before anyone has checked it.
FetchBinary(t) ==
  /\ pc[t] = "fetch"
  /\ \E received \in {want[t], Corrupt} :
        bytes' = [bytes EXCEPT ![dir[t]][Commit[want[t]]] = received]
  /\ executable' = executable \ {BinaryPath(dir[t], want[t])}
  /\ Goto(t, "verify")
  /\ UNCHANGED <<remoteVars, processVars, listVars, doesNotWork, lock, want,
                 dir>>

\* Mutant: a failed check leaves the file where it is.
VerifyKeepsFile(t) ==
  /\ pc[t] = "verify"
  /\ \/ BytesOf(dir[t], want[t]) = want[t] /\ Goto(t, "post") /\ UNCHANGED lock
     \/ BytesOf(dir[t], want[t]) # want[t] /\ Throw(t, "checksum")
  /\ UNCHANGED <<remoteVars, processVars, listVars, diskVars, want, dir>>

\* readFile and chmod throw when another process has removed the file.
VerifyBinary(t) ==
  /\ pc[t] = "verify"
  /\ LET found == BytesOf(dir[t], want[t])
     IN \/ found = want[t] /\ Goto(t, "post") /\ UNCHANGED <<bytes, lock>>
        \/ found = Absent /\ Throw(t, "missingFile") /\ UNCHANGED bytes
        \/ /\ found \notin {want[t], Absent}
           /\ bytes' = [bytes EXCEPT ![dir[t]][Commit[want[t]]] = Absent]
           /\ Throw(t, "checksum")
  /\ UNCHANGED <<remoteVars, processVars, listVars, executable, doesNotWork,
                 want, dir>>

PostProcess(t) ==
  /\ pc[t] = "post"
  /\ \/ /\ NeedsMode(dir[t]) /\ BytesOf(dir[t], want[t]) = Absent
        /\ Throw(t, "missingFile")
        /\ UNCHANGED <<executable, doesNotWork>>
     \/ /\ NeedsMode(dir[t]) => BytesOf(dir[t], want[t]) # Absent
        /\ executable' = IF NeedsMode(dir[t])
                         THEN executable \cup {BinaryPath(dir[t], want[t])}
                         ELSE executable
        /\ doesNotWork' = IF dir[t] # "wasm" /\ ~CheckNativeResolc(want[t])
                          THEN doesNotWork \cup {BinaryPath(dir[t], want[t])}
                          ELSE doesNotWork
        /\ Return(t)
  /\ UNCHANGED <<remoteVars, processVars, listVars, bytes, want, dir>>

\* getCompiler, outside the mutex: the list is looked for and read again ...
\* If it is removed between the two, the task ends with the error of the read
\* instead of the assertion: no compiler in either case, and one step here.
FindBuild(t) ==
  /\ pc[t] = "find"
  /\ \/ BuildListed(t) /\ Goto(t, "open")
     \/ ~BuildListed(t) /\ Finish(t, "assertion")
  /\ UNCHANGED <<remoteVars, processVars, listVars, diskVars, lock, want, dir>>

\* ... and then the binary and its marker.  A marked native binary sends the
\* task back to download for the wasm platform.
OpenCompiler(t) ==
  /\ pc[t] = "open"
  /\ LET present == BytesOf(dir[t], want[t]) # Absent
         marked == BinaryPath(dir[t], want[t]) \in doesNotWork
     IN \/ /\ ~present \/ (marked /\ dir[t] = "wasm")
           /\ Finish(t, "assertion")
           /\ UNCHANGED dir
        \/ /\ present /\ ~marked
           /\ Finish(t, "compiler")
           /\ UNCHANGED dir
        \/ /\ present /\ marked /\ dir[t] # "wasm"
           /\ dir' = [dir EXCEPT ![t] = "wasm"]
           /\ Goto(t, "acquire")
  /\ UNCHANGED <<remoteVars, processVars, listVars, diskVars, lock, want>>

\* The steps the process of t takes by itself once asked.
Work(t) ==
  \/ Acquire(t) \/ CheckDownloaded(t) \/ LookUpBuild(t)
  \/ RefreshFails(t) \/ RemoveOldList(t) \/ PlaceList(t)
  \/ FetchFails(t) \/ FetchBinary(t)
  \/ VerifyBinary(t) \/ PostProcess(t)
  \/ FindBuild(t) \/ OpenCompiler(t)

Start(t) ==
  \/ \E v \in Versions \cup {Malformed} : Request(t, v)
  \/ UseCustomPath(t)

-----------------------------------------------------------------------------
(* The environment. *)

\* The process dies (Ctrl-C, kill, power); the mutex file it owns stays.
Crash(t) ==
  /\ pc[t] \notin {"idle", "done"}
  /\ Cardinality(Tasks \ alive) < MaxCrashes
  /\ alive' = alive \ {t}
  /\ UNCHANGED <<remoteVars, listVars, diskVars, lock, overdue, pc, want, dir,
                 outcome>>

\* MultiProcessMutex: a waiting task removes the mutex file once it is older
\* than the lifespan of the mutex, that is, when its owner is dead ...
BreakStaleLock(t) ==
  /\ pc[t] = "acquire"
  /\ lock \in Tasks \ alive
  /\ lock' = NoTask
  /\ UNCHANGED <<remoteVars, listVars, diskVars, processVars, pc, want, dir,
                 outcome>>

\* ... or too slow; the owner does not notice.
BreakLiveLock(t) ==
  /\ pc[t] = "acquire"
  /\ lock \in alive
  /\ Cardinality(overdue) < MaxOverdue
  /\ overdue' = overdue \cup {lock}
  /\ lock' = NoTask
  /\ UNCHANGED <<remoteVars, listVars, diskVars, alive, pc, want, dir,
                 outcome>>

\* The releases API: a version appears, and may leave the page it returns
\* when newer ones push it off or its release is withdrawn.
Publish(v) ==
  /\ remote[v] = "unreleased"
  /\ remote' = [remote EXCEPT ![v] = "listed"]
  /\ UNCHANGED <<listVars, diskVars, lock, processVars, pc, want, dir,
                 outcome>>

Drop(v) ==
  /\ remote[v] = "listed"
  /\ remote' = [remote EXCEPT ![v] = "gone"]
  /\ UNCHANGED <<listVars, diskVars, lock, processVars, pc, want, dir,
                 outcome>>

\* The list becomes older than the cache period.
ExpireList(d) ==
  /\ listAge[d] = "fresh"
  /\ listAge' = [listAge EXCEPT ![d] = "expired"]
  /\ UNCHANGED <<remoteVars, list, diskVars, lock, processVars, pc, want,
                 dir, outcome>>

-----------------------------------------------------------------------------

Next ==
  \/ \E t \in alive :
       \/ Start(t) \/ Work(t)
       \/ Crash(t) \/ BreakStaleLock(t) \/ BreakLiveLock(t)
  \/ \E v \in Versions : Publish(v) \/ Drop(v)
  \/ \E d \in Dirs : ExpireList(d)

Spec == Init /\ [][Next]_vars

HandedOut(t) == outcome[t] = "compiler"

\* The abstract cache in this state: fit for use are the binaries with the
\* listed checksum that have the file mode their platform needs.
Fit == {slot \in Dirs \X Versions :
          /\ BytesOf(slot[1], slot[2]) = slot[2]
          /\ NeedsMode(slot[1]) => BinaryPath(slot[1], slot[2]) \in executable}

\* A task with a custom path asks the cache for nothing.
Answered ==
  [t \in Tasks |-> IF HandedOut(t) THEN <<dir[t], want[t]>>
                   ELSE IF outcome[t] \in Errors THEN <<"refused">>
                   ELSE <<>>]

Cache == INSTANCE CompilerCache WITH
           Requests <- Tasks, Names <- Versions, Places <- Dirs,
           Invalid <- Malformed, Open <- <<>>, Refused <- <<"refused">>,
           stored <- Fit, asked <- want, answer <- Answered

\* A process that was asked keeps running until it ends, and a waiting one
\* keeps polling the mutex.  Nothing is assumed of requests, releases, clocks
\* or crashes.
Fairness ==
  /\ \A t \in Tasks : WF_vars(t \in alive /\ Work(t))
  /\ \A t \in Tasks : WF_vars(t \in alive /\ BreakStaleLock(t))

FairSpec == Spec /\ Fairness

-----------------------------------------------------------------------------
(* Properties. *)

\* The release commits name the binaries: what the cache assumes of them.
CommitsDistinct == \A v, w \in Versions : Commit[v] = Commit[w] => v = w

\* No process died at these labels, and none was too slow for the mutex.
Undisturbed(labels) ==
  overdue = {} /\ \A t \in Tasks \ alive : pc[t] \notin labels

\* A live process is between the two halves of the move of a list.
Replacing(d) == \E t \in alive : pc[t] = "replace" /\ dir[t] = d

\* MultiProcessMutex.use: two live processes are never both between the check
\* for a cached binary and the end of its post-processing.
OneDownloaderAtATime ==
  overdue = {} =>
    \A s, t \in alive : pc[s] \in Critical /\ pc[t] \in Critical => s = t

\* A compiler that getCompiler handed out is, then and ever after, the binary
\* of the version asked for, with the checksum of the list, although it is
\* read outside the mutex; unless a process died between moving a download
\* into place and checking it, or lost the list.
HandedOutIsVerified ==
  Undisturbed({"replace", "verify"}) =>
    \A t \in Tasks : HandedOut(t) => BytesOf(dir[t], want[t]) = want[t]

\* On the platforms that need a file mode, a native compiler is handed out
\* only after chmod; unless a process died before its post-processing.
HandedOutIsExecutable ==
  Undisturbed({"replace", "verify", "post"}) =>
    \A t \in Tasks :
      HandedOut(t) /\ dir[t] \in {"linux", "macos"}
        => BinaryPath(dir[t], want[t]) \in executable

\* A binary that passed its check is never overwritten or removed by a later
\* request, whichever releases the API shows or has dropped for good and whoever
\* crashes; unless a process died while it replaced a list.
KeepsGoodBinaries ==
  Undisturbed({"replace"}) =>
    \A d \in Dirs, v \in Versions : BytesOf(d, v) = v => BytesOf(d, v)' = v

GoodBinaryIsNeverReplaced == [][KeepsGoodBinaries]_vars

\* A request for a version whose binary is already cached does not fail for
\* want of a network or of a list entry, while the API still shows it; with
\* the same exception.
RejectsOnlyUncached ==
  Undisturbed({"replace"}) =>
    \A t \in Tasks :
      /\ want[t] \in Versions /\ remote[want[t]] # "gone"
      /\ outcome[t] = "none"
      /\ outcome'[t] \in {"unreleased", "network", "checksum", "missingFile"}
      => BytesOf(dir[t], want[t]) # want[t]

CachedVersionIsNeverRejected == [][RejectsOnlyUncached]_vars

\* assertHardhatInvariant in getCompiler and in the build subtask ("Trying to
\* get a compiler before it was downloaded") fails for one reason only:
\* getCompiler reads the list again outside the mutex, while another process
\* replaces it or after one replaced it by a list without this version.
AssertsOnlyWithoutList ==
  Undisturbed({"replace"}) =>
    \A t \in Tasks :
      outcome[t] # "assertion" /\ outcome'[t] = "assertion"
        => Replacing(dir[t]) \/ remote[want[t]] = "gone"

AssertionsNeedALostList == [][AssertsOnlyWithoutList]_vars

\* "returns compiler info when binary exists and works": a native compiler
\* that is handed out can be run.
HandedOutNativeWorks ==
  \A t \in Tasks :
    HandedOut(t) /\ dir[t] # "wasm" => NativeRun[want[t]] = "runs"

\* As long as no process dies and none is too slow for the mutex, lists,
\* downloads, the mutex and the unlocked read implement the abstract cache:
\* what is fit for use stays so, and every answer comes out of the store.
ImplementsCache == Cache!Spec

\* Every request ends, with a compiler or an error, unless its process dies:
\* no error path keeps the mutex, and a dead owner does not block the others.
EveryRequestSettles ==
  \A t \in Tasks : pc[t] = "acquire" ~> (pc[t] = "done" \/ t \notin alive)
=============================================================================
