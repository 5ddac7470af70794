# hardhat-polkadot: specifications, checks and proofs

TLA+ modules that model parts of this repository, the configurations with
which TLC checks them on small instances, and theorems about them that the
TLA+ proof system checks for every value of the constants.  Paths below are
relative to the root of the repository; `P` is `packages`.

## 1. The system

hardhat-polkadot is a set of Hardhat plugins plus a command line tool.

| Component | Code | State it keeps | Operations | Module |
|---|---|---|---|---|
| resolc compiler cache | `P/hardhat-polkadot-resolc/src/downloader.ts`, `download.ts`, build subtask in `index.ts` | files shared by all processes: list of builds, binaries, `.does.not.work` markers, mutex file | `downloadCompiler`, `getCompiler`, list refresh, verification, post-processing, fallback to wasm | `CompilerCache`, `CompilerDownload` |
| local node session | `P/hardhat-polkadot-node/src/index.ts`, `utils.ts`, `rpc-server.ts`, `services/`, `script-runner.ts`, `core/global-interceptor.ts` | child processes, containers (one name per service and host), ports, handles of the services | probe ports, build flags, `listen`, poll, configure network, run, `stop` | `NodePlan`, `NodeSession` |
| network of the environment | `core/global-interceptor.ts`, `core/register.ts`, `core/global-task.ts`, `utils.ts` | `env.network`, the global mark, one server per call | `configureNetwork`, swap and restore around a task | `EnvNetwork`; ports in `NodeSession` |
| factory dependencies | `core/factory-support.ts`, `getPolkadotRpcUrl` | build info on disk, code on the chain | choose, look up, upload | `FactoryDependencies` |
| compile pipeline | resolc `index.ts`, `compile/` | compiler child process, build info, artifacts, Hardhat's cache | plan, run, emit | `CompilePipeline` |
| configuration extension | resolc `index.ts`, `utils.ts`, `constants.ts`, `compile/npm.ts` | the resolved configuration, `node_modules/solc` | defaults, checks, what is recorded and what is told | `ResolcConfig` |
| project creation and port | `P/hardhat-polkadot/src/cli/`, `P/hardhat-polkadot-migrator/src/` | files of the user's project: package.json, configuration, `.gitignore`, samples | `init` (prompts, checks, copy, install), `port` (three files rewritten after a diff) | `GitIgnore`, `ProjectSetup` |
| node in a separate process | `index.ts`, `utils.ts` of the node package | none | one search and one spawn, called by nobody | not modelled |
| size check patch | `P/hardhat-polkadot/src/sizeCheckPatch.ts` | Node's module loader | a monkey patch | not modelled |
| samples, examples, end-to-end scripts | `sample-projects`, `examples`, `tests` | none | templates and fixtures | not modelled |

How they interact.  A compile task calls the build subtask, which takes a
compiler from the cache (files and a mutex shared with every other Hardhat
process of the user) and passes its path to the compile pipeline, which writes
build infos and artifacts.  Between its compile and its tests `hardhat test`
reads both again, to upload the code of contracts that are created by others.
A test, a
script or a wrapped task starts a node session: it decides on a plan, starts
children, waits by polling a port, changes the environment's network to a
port, runs, and stops the children.  Sessions of different processes meet in
ports and container names only.

What is hard here, in the order in which it matters:

1. The cache is written by several processes, read back **outside** the mutex,
   and kept for ever; a process may die between any two writes; the mutex file
   is removed by others when it gets old; the list of builds follows a web API
   whose answer changes.
2. A session binds ports some time after it probed them, names containers by
   fixed names, and has different cleanup paths for the three kinds of task
   that start it; children fail, die or never answer.
3. The plan of a session is computed in five places (three tasks, the command
   builder, the server) that fill in defaults separately and must agree.
4. `init` and `port` change several files of the user's without a transaction,
   wait for answers, the registry and the package manager in between, and are
   repeated on what earlier, refused or killed runs left.
5. Build info, artifacts, debug files and the cache of a compile are written
   one after the other by jobs that run at once, and read by a hook that trusts
   modification times; jobs fail, processes die, another process compiles.
6. `env.network` is one object for all calls of tasks in a process, changed in
   place in several steps by calls that nest and overlap.

## 2. Modules

    CompilerCache     <-- CompilerDownload          (INSTANCE ... WITH)
    CompilerDownload  <-- MCCompilerDownload        (TLC)
                      <-- CompilerDownloadProofs
                            <-- CompilerCacheProofs (TLAPS)
    NodePlan <-- NodeSession <-- MCNodeSession      (TLC)
                             <-- NodeSessionProofs  (TLAPS)
    Subsequences <-- SubsequencesProofs             (TLAPS)
    Subsequences <-- GitIgnore <-- ProjectSetup <-- MCProjectSetup  (TLC)
    GitIgnore, SubsequencesProofs <-- GitIgnoreProofs               (TLAPS)
    ProjectSetup, GitIgnoreProofs <-- ProjectSetupProofs            (TLAPS)
    ResolcConfig, Subsequences <-- CompilePipeline <-- FactoryDependencies
    FactoryDependencies <-- MCFactoryDependencies                   (TLC)
    FactoryDependencies, SubsequencesProofs
                        <-- FactoryDependenciesProofs               (TLAPS)
    EnvNetwork <-- MCEnvNetwork                     (TLC)
               <-- EnvNetworkProofs                 (TLAPS)

### CompilerDownload

A *task* is one run of `TASK_COMPILE_SOLIDITY_GET_RESOLC_BUILD` in one
process.

| Variable | In the code |
|---|---|
| `remote` | what the GitHub releases API shows of a version |
| `list`, `listAge` | `resolc-list.json` of a platform directory, and its age against `_compilerListCachePeriodMs` |
| `bytes` | the binary of a commit: the version whose checksum it has, `Corrupt`, or `Absent` |
| `executable`, `doesNotWork` | mode 0o755; the `.does.not.work` file |
| `lock`, `overdue` | owner of the `compiler-download` mutex file; live owners whose file was removed for its age |
| `alive`, `pc`, `want`, `dir`, `outcome` | the processes and where they are, the version asked for, the platform of the downloader in use, how it ended |

One action per step that another process can observe: `Acquire`,
`CheckDownloaded`, `LookUpBuild`, `RemoveOldList` and `PlaceList` (fs-extra's
move with `overwrite` removes before it renames), `FetchBinary`,
`VerifyBinary`, `PostProcess` inside the mutex, `FindBuild` and `OpenCompiler`
(the two reads of `getCompiler`; the look for the list's file and the read of
it are one step, as either ends in a refusal) outside it, and one `...Fails`
action per request that may fail. An exception in the callback releases the
mutex (`Throw`). The environment publishes and drops releases (a dropped one
does not come back), lets lists expire, kills processes, and lets a waiting
process remove the mutex file of a dead or slow owner: `MultiProcessMutex` is
Hardhat's and is modelled from its use.

Left out: the bytes of a download other than "has the listed checksum or
not"; the name of a binary beyond the commit it contains (`Commit` need not be
injective: `target_commitish` is cut to six characters); disk errors; the
callbacks that log.

### CompilerCache

What the cache promises, without lists, mutex or processes: `stored`, the
compilers that are fit for use, `asked`, and `answer`.  `Store` makes a
compiler fit, `Serve` answers with one of the version asked for, `Refuse`
answers with an error; nothing is ever removed and no answer is changed.

`CompilerDownload` implements it (`ImplementsCache`) with

| Abstract | Concrete |
|---|---|
| `stored` | `Fit`: the binaries with the listed checksum and, where the platform needs it, the mode |
| `asked` | `want` |
| `answer` | `Answered`: platform and version of a compiler handed out; refused for every error |

The download into place, the refresh of a list, the mutex and every release of
the API are stuttering steps; `VerifyBinary` or `PostProcess` is the step
`Store`, `OpenCompiler` the step `Serve`.

### NodePlan and NodeSession

`NodePlan` is the pure part: from `networks.hardhat` (seven switches and
ports) and the probed ports to the arguments of `constructCommandArgs`, the
flags, the options of `createRpcServer`, the branch `listen` takes, the ports
each service object parses back from its flags, the address given to the
adapter, and the port of the configured network.  `PlanOf` composes these.

`NodeSession` is one task (`"test"`, `"node"`, `"run"` for the script runner,
`"wrap"` for tasks wrapped by the global interceptor) per session:

| Variable | In the code |
|---|---|
| `request` | the task and the configuration |
| `pc`, `outcome` | progress of the task's async function |
| `probed` | results of `getAvailablePort` |
| `attempts` | polls left in `waitForServiceToBeReady` |
| `child`, `attached` | each service's process or container; whether the service object holds a handle (`_commandServer`, `_containerServer`) that `stop` can use |
| `holder`, `nameOf` | who listens on a port; whose container has a service's fixed name |
| `deaths` | how many children died by themselves |

Probing (`ProbeNode`, `ProbeAdapter`) and binding (`Bind`, `CreateContainer`)
are separate steps.  A container is started in the three awaited steps of
`from_docker`: remove what has the name (`ClearName`, which kills another
session's container), create and start, become ready.  `Launch` is the promise
of `listen(..., false)`, with the rejection of the first failing container;
`EndBlocking` is the blocking form.  `FailEarly` is the difference between the
tasks: only the wrapped ones have a `finally` around the launch and the polls.
`Stop` is `Promise.all` over the three services, where removing a container
that is gone rejects: the script runner's promise then never settles
(`"hung"`).

`forking` may be there and switched off (`enabled: false`): the tasks and
`constructCommandArgs` ask whether it is there (`HasForking`),
`createRpcServer` is told whether it is on (`IsForking`).  `Misled` is the
binary of a node that then gets the command line of chopsticks.

Left out: consensus and dev flags, the path of the docker socket, signals to
the Hardhat process, the unhandled rejection of the promise of chopsticks that
`listen` drops in forking mode with docker, and time (a poll may fail as long
as attempts are left).  Processes killed free their port at
once.  Any program on a port answers the poll, which is what the code accepts:
`waitForServiceToBeReady` takes the first response.

### Subsequences, GitIgnore and ProjectSetup

`Subsequences` is the `filter` of JavaScript in closed form: element `k` of
what is left is the one whose index has rank `k` among the indexes kept.  The
merge of `.gitignore` and the list of build infos are written with it, because
nothing can be proved about the recursive `SelectSeq`.

`GitIgnore` is `addOrMergeGitIgnore` on sequences of lines: filter what is
there in some form, drop comments of sections that became empty, squeeze
blank lines, trim and append.  A file is the result of splitting it at line
ends, so a final newline is a last blank line.

`ProjectSetup` runs `init` and `port` one after the other on a working
directory ("here") and a directory that need not exist ("elsewhere").

| Variable | In the code |
|---|---|
| `disk` | package.json, the three names of a configuration, the sample's README and its other files: where the content comes from, what it has, whether the user edited it |
| `exists`, `ignore` | directories; lines of `.gitignore` |
| `pc`, `job` | the awaited step the command is at; its project root, kind of sample, flag, what it read of package.json, files left to copy |
| `plan` | the three new contents that `portProject` holds while it asks |
| `touched` | files the user edited after the command read them and before it writes them |
| `outcome` | the last message of the command or its exit |

`init` is `StartInit`, `ChooseAction` (`getAction`), `CreatePackageJson`,
then either `WriteEmptyHardhatConfig` or `ConfirmProject`, `WriteGitIgnore`,
`CheckSampleProject` and one `CopyFile` per file, `DecideOnDependencies` and
`InstallDependencies`.  `port` is `StartPort` and `Fetched` (the two halves of
`updatePackageJSON`, around the request; the second goes on to the other two
files), `ConfirmDiff` and the three writes of `WritePorted`.  `Kill` ends the
command at any step and may leave the file being written empty.  The user
edits whenever nothing synchronous is running: package.json, a configuration
(`Edit`) or `.gitignore` (`EditIgnore`).

Left out: which version of a dependency is asked for, the syntax tree behind
`InsertImport` and `PatchExportConfig` (whether a user's export is recognised
is a free choice), and the layout of JSON (whether a package.json that has the
plugin is rewritten is a free choice).  `port` takes the first
`hardhat.config.*` that the directory lists; any of them may be first.

### ResolcConfig

The pure part of the compile: from what the user wrote to `config.resolc`
(`Resolc`), to what Hardhat records of a job and compares later (`SolcConfig`,
`SolcSettings`), and to what the compiler is told (`Told`, with one operator
per source of the compiler).  The three differ: without `enabled` the npm
package runs with its default optimizer while "disabled" is recorded;
`settings.solcPath` beats the solc of the job; the npm package compiles with
whatever solc `node_modules` has (`InstalledSolc`, including the stale answer
of `require`).  `EnvironmentRejects` and `CompilerRejects` are the checks; one
of two versions may have been installed when the other is refused
(`InstalledBeforeError`).

A custom binary is known by the version it prints, as the code records it:
`utils.ts:20` takes x.y.z and drops the commit.  A binary that is replaced in
place by another build of the same version is therefore outside
`SkippedIsFresh`: the code would skip the file, and no state of the model tells
the two builds apart.

### CompilePipeline

| Variable | In the code |
|---|---|
| `content` | the sources |
| `cache` | `solidity-files-cache.json`: content and configuration of each file at its last good compile |
| `artifact`, `debug`, `infos` | artifacts, `.dbg.json` files, `build-info/*.json` by modification time |
| `package` | `node_modules/solc` |
| `pc`, `cmd`, `snap`, `todo`, `job`, `ran`, `saved` | a process: its command, the sources it read, the files it has to emit, the progress of each job, what the compiler of each job was told, and what it wrote |
| `cut` | history: inputs of build infos whose writer died half-way through them |
| `tainted` | history: files whose artifact was or may have been written by a compile that did not reach the cache |

`ran` is fixed when a job runs, not when it is planned: with npm another
process may have put another solc into `node_modules` by then.

`StartCompile` plans one job per version of solc.  The jobs run at once, as
Hardhat's do: `RunResolc` (both builds, then the child process: output, or one
of the failures of `compileWithBinary`), `OpenBuildInfo` and `CloseBuildInfo`
(`saveBuildInfo` streams), then `EmitArtifact` and `EmitDebugFile` of all files
in any order.  `SaveCache` and `RemoveObsolete` are Hardhat's end of a compile
and happen only when no job failed; a failing compile waits for the others to
settle (`FailCompile`; Hardhat's `pMap` with `stopOnError: false`).  `Die` is a
kill, and also the `error` event of a child that cannot be started, to which
nobody listens; what it was writing goes to `cut`.  `Reject` is a command that
`extendEnvironment` refuses, which may have installed a solc before.

### FactoryDependencies

Extends the pipeline with `hardhat test`'s hook: `ReadBuildInfo` (the newest by
modification time), `LookUp` and `Upload` as separate steps, while a second
process may compile.  Code on a chain is identified by itself.  The chains are
the session's own, one the developer keeps on the default ports and a public
one; the look-up goes where `getPolkadotRpcUrl` says, the transaction to the
network's url, and the two need not agree.  `doubtful` is history: files whose
artifact need not be what the hook read of them.

Left out: several contracts per file, which account signs, gas and deposits,
and the loop over parents (dependencies are one set; a client per parent).
One process compiles at a time: Hardhat has no lock there, and two compiles at
once are not what the plugin arranges.

### EnvNetwork

All calls of tasks in one process.  `network` is `env.network`: whether it was
renamed, whether its configuration still has the `polkadot` flag, and whose
node its url and its provider lead to.  `Configure` is the synchronous part of
`configureNetwork`, `SetProvider` what follows the await.  A wrapped task asks
`env.network.polkadot`, which stays; `hardhat test` asks
`network.config.polkadot`, which `configureNetwork` replaces.  `EndBody` has no
effect on the network: `oldNetwork` is the same object.  A call ends "aborted"
when its task failed before its body began, and "failed" when the body did:
only an aborted `hardhat test` may leave its server (`ServersStop`).

Left out: ports and services (NodeSession), `injectToGlobal` (the globals
follow the environment), and the polling interval.

## 3. Runs

| Run | Instance | States | Shows |
|---|---|---|---|
| `download_races` | linux, 3 tasks (symmetric), 2 versions, no crash | 74 thousand | types; one downloader at a time; what is handed out has the listed checksum, is executable and is never replaced; a cached version is not rejected; assertions fail only over a lost list; all of it implements `CompilerCache` |
| `download_crashes` | macOS, 2 tasks, 2 versions, one death, one overdue owner | 820 thousand | the same hand-out properties with deaths, and every request settles |
| `download_broken_native` | violation of `HandedOutNativeWorks` | | finding 1 |
| `session_alone` | 1 session, every combination of task and switches (`AllRequests`), foreign programs on 8545 and 9944, one death | 137 thousand | types; waits before it works; no port shared in tests; adapter pointed at its node; tests reach their adapter; nothing left after a stop; every task that needs a node ends or waits for an answer that never comes |
| `sessions_meet` | 2 sessions, the default configuration, binaries, containers and the script runner | 182 thousand | cleanup under competition; losing the container is noticed |
| `session_anvil_port` | violation of `NetworkIsServed` | | finding 2 |
| `session_container_left` | violation of `ContainersEndWithProcess` | | finding 3 |
| `project_changes` | two commands, one kill, one edit, six projects, three `.gitignore` files | 1.9 million | types; a port that ends well is complete; a created project has all its files, and its dependencies unless the user is told to install them; user content is lost only where the code reads too early; what a command writes to `.gitignore` keeps what is there and repeats nothing, unless the user edited it meanwhile |
| `compile_and_upload` | 2 processes (symmetric), a parent and the child it creates, 5 commands of which 3 are given, two of them with solc from npm, one of these with an override, one edit, one kill | 1.1 million | types; what a compile would skip is up to date; artifacts have their build info, whole unless its writer died or is at work; the hook uploads what the newest build info names, all of it |
| `compile_jobs` | 1 process, 9 commands of which 2 are given, two edits, one kill | 225 thousand | the same with two jobs at once, other settings, a custom binary, rejected commands and unreachable chains; every command ends |
| `upload_misses_builds` | violation of `DependenciesUploaded` | | finding 4 |
| `env_network` | 3 calls of either kind, fresh or registered environment | 135 thousand | types; bodies are served; servers stop; the mark means a running task; every call settles or waits for an answer that never comes |

Bounds.  Two versions are enough for one binary to be cached while the list is
replaced for the sake of the other; three tasks let one download while one
reads outside the mutex and one waits.  `MaxCrashes` and `MaxOverdue` count
processes, not steps: one death at *any* step, one overdue owner at any step.
Ports are the two defaults and their neighbours, so that a search goes on to a
second port and may end with none; `MaxPortAttempts` (2) and `MaxAttempts`
(1 or 2) only have to be exceeded.  `MaxDeaths` bounds the children that die.
Symmetry is used for tasks in safety runs only.
Two commands are the shortest history in which a command meets what another
one left; one kill and one edit at *any* step disturb either of them.  The
projects of `MCProjects` make every check of the code go both ways: with and
without package.json, ESM, clashing configuration, clashing source, README,
the sample's dependencies.  The recommended `.gitignore` is cut to one plain
entry and two sections.
Three commands are the shortest history in which a compile, a second one that
changes or breaks something, and a test that trusts both follow each other;
two compiler versions make two jobs.  Two edits change an
import and change it back, which is what it takes to deceive the cache.
Three calls of `EnvNetwork` are a caller, the call its body makes, and one that overlaps with both.

Deadlock is not checked where the system may stop: all tasks done, nothing
more to publish or expire, no command left to run.

Every property of a passing run has a mutant: a small change of one mapped
definition (a dropped check, a kept mutex, a default instead of the
configured port) under which TLC finds that property violated.

### Fairness

`CompilerDownload`: weak fairness of each live process's own step, and of its
polling for a stale mutex file.  A process that runs takes its next step, and
`MultiProcessMutex` polls with a timer.  Weak fairness of `Acquire` is enough
because the action is only disabled while someone else owns the file, and with
finitely many tasks each owner ends.  Nothing is assumed of requests,
releases, clocks or deaths.

`NodeSession`: weak fairness of each task's step and of docker's two steps.
The number of polls is bounded by `maxAttempts`, but not their time:
`axios.post` at node `utils.ts:312` and `utils.ts:193` has no timeout, so a
program that accepts the connection and never answers keeps the task waiting
for ever.  Fairness is therefore of `~MayWait(s) /\ TaskStep(s)`: nothing is
assumed of a task that polls or asks for the chain id while somebody holds the
port; a port that nobody holds refuses at once.  `EverySessionSettles` has
"waits for ever" as an outcome of its own, and excepts one more: a script
whose container was dead when it stopped, whose promise is never settled.
Promises of children end in "up" or "failed" when docker answers.  Children are
**not** assumed to come up, and the tests or script are assumed to end.

`FactoryDependencies`: weak fairness of each process's step: children close,
chains answer and mine (`EveryCommandEnds` excepts a look-up at a port where no
node is) and one process compiles after the other.  Kills, edits and new
commands are not fair.

`EnvNetwork`: weak fairness of each call's step, but for the poll and the
request of the chain id (`Waits`), which have no timeout: searches are bounded
and the bodies of tasks are assumed to end.  `EveryCallSettles` says that a
call settles or waits for such an answer for ever, and nothing else.

Elsewhere requests do time out: those of `download.ts` (lines 36 and 119)
after ten seconds, and that of `utils.ts:259` after five.

## 4. Findings

Each is the violation run of the same number in the order of section 3; the
counterexample is a behaviour of the modelled code.

1. `downloader.ts:297`: nobody awaits `execFile`, so a native binary that exits
   with an error is reported as working.
2. node `index.ts:230`: with anvil the tests are sent to the adapter port that
   was found, while the node listens on 8545 whatever `adapterPort` says.
3. node `index.ts:225`: a test whose node never answers leaves its container.
4. `factory-support.ts:42`: only the newest build info is searched.  A compile
   with two versions of solc writes two, and the children of the other one's
   contracts are not uploaded.

Noticed while modelling, without a run of their own:

- `downloader.ts:147`: `getCompiler` reads the list again after the mutex is
  released, and fails "Trying to get a compiler before it was downloaded" while
  another process replaces it.  `AssertionsNeedALostList` says that nothing
  else makes it fail, and is proved.
- `downloader.ts:237`: name and platform are static, so the fallback "using
  wasm instead" downloads the host's native artifact.
- node `index.ts:225`: in forking mode the poll asks the port of a substrate
  node that was not started, because the port of chopsticks has another flag.
- `project-creation.ts:513`: `installDependencies` rejects where its caller
  expects `false`, so the message about the failure is never printed.
- `factory-support.ts:73`: a child with another solc than its parent (an
  override, or a pragma that allows a newer one) is uploaded as its artifact
  has it, which is not the code the parent creates; a child left out by
  `contractsToCompile` has no artifact or an old one, and the hook throws.
- resolc `index.ts:157`: a file whose import is left out by
  `contractsToCompile` is compiled with it, but the import's entry in the cache
  stays as it was.  When the import is changed, the file compiled, and the
  change taken back, Hardhat finds both up to date, and the artifact is of the
  import that is no longer there.
- `npm.ts:44`: with npm neither the input of a job nor its build info says
  which solc was used.  The same input compiled again, or while another process
  installs another solc, gives other code under the same build info, and a test
  uploads code with another hash than the one that was looked up.
- `utils.ts:340`: `useAnvil` of `networks.hardhat` counts whatever network is
  selected: an explicit `polkadotUrl` is ignored, and code is looked up at
  `ws://localhost:9944`, for ever if nobody is there.  `client.destroy()` is
  skipped on every error.
- `factory-support.ts:115`: the accounts of a network may be `"remote"` (the
  default) or empty, and the hook throws only once it found dependencies.
- A process killed in `saveBuildInfo` (resolc `index.ts:501`) leaves a truncated
  build info as the newest; every test that does not compile then fails to
  parse it.  When it was written a second time, over a good one of the same
  input, the artifacts and the cache still name it, and only a forced compile
  or a change of the sources repairs it.  `ArtifactsHaveBuildInfo` excepts the
  build infos whose writer died half-way (`cut`), and no others.
- node `utils.ts:312` and `utils.ts:193`: `axios.post` without a timeout.  A
  program on the port that accepts and never answers makes one poll last for
  ever, whatever `maxAttempts` says, and a test, script or wrapped task with it.
- `port-project.ts:13` and `:11`: `port` reads `.gitignore`, the configuration
  and package.json before it asks, and writes them after the answer: what the
  user changes in them while the prompt waits is lost.
- `project-creation.ts:155`: an existing README is kept, so one that a killed
  `init` cut off stays for ever; the other files of the sample make the next
  `init` refuse.  A package.json cut off by a kill makes every later `port`
  fail to parse it.
- resolc `index.ts:110` lets one override pass with npm, which is a second
  version; `updateSolc` then reads a stale package.json (`npm.ts:49`).
- resolc `index.ts:119`: `forEach` with an async function: an old compiler
  version is an unhandled rejection instead of the error of the overrides.
- `utils.ts:82` of resolc tests `minor < 7`; its message says 0.8.0.
- resolc `index.ts:60` looks at the network *named* polkadot.
- resolc `index.ts:237`: output without `contracts` (an error in the sources)
  is a TypeError before Hardhat can print the error.  `RUN_SOLC` (line 215)
  passes no `resolcPath`.
- `binary.ts:52`: no listener for the child's `error` nor for that of its
  stdin.
- `global-interceptor.ts:59`: `oldNetwork` is the object that is changed, so
  the restoration restores nothing: a later call in the process passes on to a
  server that was stopped, while a failed one leaves the mark.
- `configureNetwork`'s comment "it will just try again" is not what it does,
  and the chain id it asks for is not used.
- Nothing in `src` fills `_polkadotTasksForWrapping`, and a subtask that is
  listed there is wrapped twice.

- `utils.ts:68` compares the two ports before the default of the node's is
  filled in: `TASK_NODE_POLKADOT` with `adapterPort` 9944 and no `rpcPort`
  starts both services on 9944.
- With `forking: { enabled: false }` a test switches anvil off
  (`index.ts:166`), but `createRpcServer` does not fork (`utils.ts:240`): a
  node binary is started with the command line of chopsticks and does not
  come up; the container of the node listens on 9944 whatever `rpcPort` says,
  so that both services may be given one port without the error.
- `project-creation.ts:391` writes `.gitignore` before the project root is
  created, which throws for a new directory, and before the clash check.
- `project-creation.ts:232` replaces an existing configuration without asking.
- `updateHHConfig` takes the first `hardhat.config.*` listed, while
  `getUserConfigPath` prefers `.ts`; its patch sets `polkavm` and nests
  `localNode` under `hardhat`, neither of which the plugins read.

A death between the move of a download into place and its verification leaves
an unchecked file that `isCompilerDownloaded` accepts (`downloader.ts:87`).
No text of the repository promises otherwise, so this is not listed as a
finding.  `HandedOutIsVerified` excuses it, and says nothing after any of
three things: a death at "verify" (this one), a death at "replace" (between the
removal and the renaming of a list: with the list gone a later request
downloads again, over a binary that was handed out), and an owner of the mutex
that was overdue.  The other
properties with `Undisturbed` excuse the labels they name, and an overdue owner
as well.  What is checked with these out of the way is every other death and
every interleaving of live processes that keep to the mutex.

## 5. Proofs

Every safety and action property of the runs is a theorem, and so is the
refinement of `CompilerCache`: a run shows it on a small instance, the theorem
for every value of the constants.  Eight modules hold the proofs, one or two
per component and `SubsequencesProofs` for the operators that two of them
share.  Each invariant was checked with TLC, on the instances of the runs,
before it was proved.

What is assumed of the constants is said where they are declared, and is what
the code or its caller arranges: `Commit` maps versions to commits
(`CommitAssumption`); a graph of imports is transitive and a file imports
itself (`ImportsAssumption`); a contract creates contracts of files it imports
(`CreatesAssumption`); every selected file has a compiler, for Hardhat plans no
job otherwise (`CommandsAssumption`); the networks of commands are the three
that are modelled (`NetworksAssumption`); sessions, services and the two
holders of ports that are no session's are told apart (`SessionAssumption`); no
recommended `.gitignore` line is covered by a blank one (`LinesAssumption`);
bounds are numbers.

### The cache

`CompilerDownloadProofs` proves, for all sets of tasks, versions and commits,
all platforms and all bounds:

| Theorem | Property | Assumes |
|---|---|---|
| `TypeCorrect` | `TypeOK` | |
| `MutualExclusion` | `OneDownloaderAtATime` | |
| `Invariance` | the inductive invariant `IInv` | `CommitsDistinct` |
| `VerifiedHandOut` | `HandedOutIsVerified` | `CommitsDistinct` |
| `ExecutableHandOut` | `HandedOutIsExecutable` | `CommitsDistinct` |
| `NeverReplaced` | `GoodBinaryIsNeverReplaced` | `CommitsDistinct` |
| `CachedNeverRejected` | `CachedVersionIsNeverRejected` | `CommitsDistinct` |
| `AssertionsFailOnLists` | `AssertionsNeedALostList` | `CommitsDistinct` |

`CommitsDistinct` says that two releases do not share the abbreviated commit
that names their binaries.  The code takes it for granted (hazard at
`download.ts:58`); without it one version's binary is served as another's.

The argument.  `HandedOutIsVerified` is not inductive: a request that has not
ended yet may be about to open a bad file.  What keeps it true is an account of
*why* a file on disk may be bad, and there is exactly one reason: a process
that owns the mutex is between `FetchBinary` and the end of `VerifyBinary`
with that file.  `IInv` is

- `TypeOK`, `LabelInv` (what a task at each label asked for) and `OwnerInv`
  (a live task inside the callback owns the mutex, unless some owner was
  overdue), and, as long as no owner was overdue and no process died while it
  replaced a list (`Sound`),
- `DiskInv`: a file that is not a verified one belongs to a process at
  "verify"; a verified one without its mode to one at "post"; and the dead
  stay where they died, which is how the excuses of the properties get in;
- `OwnerKnowsInv`: what the owner found when it checked still holds, since
  nobody else may write;
- `UnfinishedInv` and `SettledInv`: a task past the mutex has its binary on
  disk, verified and executable, with its version in the list or gone from the
  API; a settled one still has.

Each conjunct has a lemma with one step per action (`TypeStep`, `OwnerStep`,
`DiskStep`, `OwnerKnowsStep`, `UnfinishedStep`, `SettledStep`); `SoundStep`
shows that `Sound` never becomes true again.  The action properties follow
from `IInv` in one step each.

### The cache implements its specification

`CompilerCacheProofs!Refinement`: under `CommitsDistinct`, and as long as
nobody died or lost the mutex at work on a list or a binary (`[]Quiet`), every
behaviour of `CompilerDownload` is one of `CompilerCache`.  The restriction is
needed: a death after the move of a download leaves a bad file that is served
(section 4), and a slow owner may remove a good one.  One lemma per step that
moves the abstract state (`FetchRefines`: a download over a good binary does
not happen, because the owner found none when it checked, and over a bad one
changes nothing; `VerifyRefines` and `PostRefines`: a store; `OpenRefines`: a
binary that is handed out is fit, by `DiskInv` and `UnfinishedInv`), `Refusal`
for the errors and `Harmless` for what touches no binary.  `IdleInv` is the one
invariant that had to be added to `IInv`.

### The network of the environment

`EnvNetworkProofs` proves, for any number of calls of any kinds:

| Theorem | Property |
|---|---|
| `TypeCorrect` | `TypeOK` |
| `Served` | `ServedWhileRunning` |
| `NothingLeft` | `ServersStop` |
| `MarkSound` | `MarkMeansRunning` |

The argument rests on the name of the network: it changes once, at the first
`Configure`, and whatever runs has seen it changed (`Fresh`).  So a call that a
body makes starts no node (`Nested`), and whoever the provider leads to is a
call that configured the network or the parent process (`Pointed`), which is up
until it ends (`Stages`).  `ServersStop` and `MarkMeansRunning` are inductive
next to these; `IInv` is the conjunction of all seven.

### The node session

`NodeSessionProofs` proves, for any number of sessions, any requests, ports,
foreign programs and bounds:

| Theorem | Property | Assumes |
|---|---|---|
| `TypeCorrect` | `TypeOK` | |
| `NothingLeft` | `StopLeavesNothing` | |
| `OwnServicePorts` | `TestServicesHaveOwnPorts` | |
| `AdapterIsPointed` | `AdapterPointsAtNode` | |
| `LostContainersNoticed` | `LostContainerIsNoticed` | |
| `WaitsForServices` | `WorksOnlyWhenUp` | `Alone` |
| `TestsReachAdapter` | `TestsReachOwnAdapter` | `Alone` |

`StopLeavesNothing` is about the end of a task, and is true because of what the
task held until then.  `IInv` says, for every label, which services were
launched and attached (`Stages`), that what was launched was not rejected and
that a test searched for its ports (`LaunchesAreValid`), that a child that
lives has a handle (`Handles`), that the name of a container belongs to the one
that runs (`Names`), and that a port belongs to the child that bound it
(`Holders`): the last two are what sessions take from each other, and they
change hands in one step.  The two properties about ports follow from `Stages`
and what `PlanOf` computes (`PlanPorts`, `OwnPorts`, `OwnUpstream`: the five
places that fill in defaults agree).

`Alone` says that there is one session.  The two theorems that assume it are
false without: another session's child may answer the poll on the port that
this one found free, and another session may remove the adapter's container.
They need four more conjuncts (`AloneInv`): a service that was polled answered
(`Polled`), no other program listens on the port of a test's adapter
(`NotForeign`), containers last as long as no child dies (`ContainersLast`),
and the port that the network leads to is the adapter's (`OwnAdapterHolds`).

### .gitignore and project setup

`GitIgnoreProofs!MergeFacts`: for every original and every recommended file,
the merge begins with the original but for blank lines at its end, covers
every recommended entry, and adds no entry that is there in some form
(`Extends`).  Nothing here is by induction: a filter is a closed
form, and that every rank is taken once follows from the cardinality theorems
(`RankFacts`), the order from that (`OrderKept`).  `RepeatAddsNoEntry`: merged
once more, as by a second `init`, the file gains comments and blank lines only;
it may gain those, so the merge is not idempotent.

`ProjectSetupProofs` proves, for any projects, any number of commands, edits
and kills, and any `.gitignore`:

| Theorem | Property |
|---|---|
| `TypeCorrect` | `TypeOK` |
| `PortCompletes` | `PortIsComplete` |
| `CreatedCompletes` | `CreatedIsComplete` |
| `OnlyStaleFilesLost` | `LosesOnlyStaleFiles` |
| `IgnoreGrows` | `IgnoreOnlyGrows` |

The two properties of the outcome need to know what a command knows at each
label: `InitStages` (which files `init` found or wrote by then; `left` are
exactly the files that are not there yet) and `PortStages` (what `port` is
about to write is a changed copy of what is there, or the user has touched
it).  With `TypeOK` and `CreatedIsComplete` they are `Commanded`; `Readmes`
adds that a README is cut off only after a kill.  `PortIsComplete`,
`LosesOnlyStaleFiles` and `IgnoreOnlyGrows` are action properties and follow
from these in one step per write.  The exception of `IgnoreOnlyGrows` (an edit
of `.gitignore` while `port` waits for its answer) is needed: `EditIgnore` at
the prompt is a step of the model, and without the exception TLC finds it.

### Compiles and the upload hook

`FactoryDependenciesProofs` proves, for any source files, imports, contents,
commands and any number of processes:

| Theorem | Property |
|---|---|
| `TypeCorrect` | `TypeOK` |
| `SkippedFresh` | `SkippedIsFresh` |
| `BuildInfoThere` | `ArtifactsHaveBuildInfo` |
| `NamedCodeUploaded` | `UploadsNamedCode` |
| `NewestInfoUploaded` | `HookUploadsNewestInfo` |

None is inductive.  What a compile leaves behind is right only when it gets to
its end, so `IInv` has

- `Progress`, the account of the one compile at work: the files it skipped were
  up to date with what it read (`SkippedMatches`), the build info of a job that
  got so far is there and no later one is about the same files
  (`InfoWritten`), its files are tainted, and what it saved was compiled from
  what it read;
- `CacheFresh`: a file that is not tainted has the artifact that its entry in
  the cache and the entries of its imports describe.  It is stated for any
  sources that agree with those entries, not for the present ones: an edit
  cannot disturb it, and `SkippedIsFresh` is the case in which they agree;
- `DebugFresh`, the same between a debug file and its build info;
- next to `IInv`, `TornNamed`: a build info that is not whole is being written
  or its writer died at it.  `BuildInfoThere` needs both: every way to the end
  of a job closes what it opened (`TornWhileWriting`), a command that fails
  waits for its other jobs, and only a death leaves one open;
- `InfosFresh`: about *every* build info, not only the newest, what it says of
  a file is what the artifact is, or the debug file names a later one.  The
  weaker form for the newest only is not kept when Hardhat removes build infos
  and an old one becomes the newest;
- `HookFresh`: what a hook read is in the artifact, or in doubt, and what it is
  done with is on the chain.

`SaveCacheStep` is the heart: it takes the taint from the files of the compile,
and re-establishes the three statements from `Progress`.  The two steps that
rewrite the list of build infos (`BuildInfoSaved`, `ObsoleteRemoved`) rest on
`OrderKept`.

Two properties had to be corrected before they could be proved, each after a
run of TLC with larger bounds showed what the proof attempt had met:
`SkippedIsFresh` was false of files whose imports `contractsToCompile` leaves
out, and `ArtifactsHaveBuildInfo` and `UploadsNamedCode` of code compiled by
the npm package (section 4).  The instances of the runs have these cases now.

### Only model-checked

`EveryRequestSettles`, `EverySessionSettles`, `EveryCommandEnds` and
`EveryCallSettles`: liveness under fairness is beyond this prover.  What the
pure operators of `NodePlan` and `ResolcConfig` compute is proved as far as the
theorems need it (`PlanPorts`, `ConfigFacts`) and otherwise checked by the
runs.

## 6. Plan

Done: all modules of section 2, with proofs of every safety and action
property.  Next, where it is worth more work: an abstract specification of the
session (a node is held from launch to stop) and of the compile (artifacts are
a function of sources and configuration), with the detailed modules shown to
implement them.

Not modelled, and why: links of libraries and memory settings of resolc (data
that is passed on); `orderSources` and `mapImports` (nothing calls them); the
polling interval (`polling-patch.ts`, one number); generated and vendored files, samples and
workflows (no logic); the node, the adapter, chopsticks, docker, the solc and resolc
compilers and the chain (external; modelled from their use where a module
needs them); the size check patch (its behaviour is that of Node's loader); the
detached node process, which nothing calls.
