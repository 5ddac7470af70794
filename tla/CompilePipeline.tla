--------------------------- MODULE CompilePipeline ---------------------------
(***************************************************************************)
(* hardhat compile (and the compile before hardhat test) on a polkadot     *)
(* network: the compilation jobs of changed files run at the same time,    *)
(* each fetches its compilers, runs resolc in a child process, saves its   *)
(* build info and then the artifacts of its files; Hardhat's cache of what *)
(* was compiled is written after all of them.                              *)
(*                                                                         *)
(* Processes share the project's directory: sources, cache, artifacts.     *)
(* One of them compiles at a time.  The planning of jobs, the cache file   *)
(* and the removal of obsolete build infos are Hardhat's (external).       *)
(*                                                                         *)
(* Simplifications: one contract per file; the code of a contract is the   *)
(* record of all it depends on, and its hash is the code itself; sources   *)
(* are neither added nor removed.  What may be missing is a set with at    *)
(* most one element.                                                       *)
(***************************************************************************)
EXTENDS ResolcConfig, SequencesExt, Subsequences

CONSTANTS
  Procs,     \* Hardhat processes
  Contents,  \* what a source file may contain
  Commands,  \* the commands the user gives
  MaxCommands, MaxEdits, MaxKills  \* bounds

ASSUME BoundAssumption == {MaxCommands, MaxEdits, MaxKills} \subseteq Nat

\* For a file without a compiler Hardhat plans no job, and ends with an error.
ASSUME CommandsAssumption ==
  /\ Contents # {} /\ Commands # {}
  /\ \A c \in Commands :
       /\ Selected(c.user) \subseteq Files
       /\ \A f \in Selected(c.user) : SolcVersion(c.user, f) \in Pragma[f]

VARIABLES
  content,   \* content[f]: the source file
  cache,     \* cache[f]: content and configuration of the last good compile
  artifact,  \* artifact[f]: the code in the artifact of f
  debug,     \* debug[f]: the build info that the debug file of f names
  infos,     \* build-info/*.json, oldest first
  package,   \* version of solc in node_modules, 0 for none
  tainted,   \* files whose artifact may not be what the cache and the newest
             \* build info say: from the build info of their job to the cache
  cut,       \* inputs of build infos whose writer died half-way through them
  pc,        \* where each process is
  cmd,       \* its command
  snap,      \* the sources as it read them
  todo,      \* files whose artifacts it has to emit
  job,       \* job[p][v]: progress of the job of solc version v
  ran,       \* ran[p][v]: what the compiler of that job was told
  saved,     \* files it wrote: <<f, "artifact">>, <<f, "debug">>
  budget     \* commands, edits and kills left

userVars == <<content, budget>>
diskVars == <<cache, artifact, debug, infos, tainted>>
planVars == <<cmd, snap, todo, package>>
jobVars == <<job, ran>>
pipelineVars == <<userVars, diskVars, cut, planVars, pc, jobVars, saved>>

SolcVersions == UNION {Pragma[f] : f \in Files}

JobLabels == {"none", "run", "info", "writing", "emit", "failed"}

Idle == [v \in SolcVersions |-> "none"]

Unread == [f \in Files |-> 0]

NotRun ==
  [v \in SolcVersions |-> [resolc |-> {}, solc |-> 0, optimizer |-> {}]]

\* The code of f as compiled from these sources by a compiler told so.
Code(f, sources, told) ==
  [file |-> f, sources |-> [g \in Imports[f] |-> sources[g]], told |-> told]

\* The job of solc version v: the files to emit, and all they import.
Emits(p, v) == {f \in todo[p] : SolcVersion(cmd[p].user, f) = v}
JobFiles(p, v) == UNION {Imports[f] : f \in Emits(p, v)}

\* The input of the job, whose hash is the name of its build info.
Input(p, v) ==
  [sources |-> [f \in JobFiles(p, v) |-> snap[p][f]],
   config  |-> [version |-> v, settings |-> SolcSettings(cmd[p].user)]]

\* The files of version v whose artifacts this compile writes, or looked at
\* with all they import and found up to date.
Own(p, v) ==
  LET u == cmd[p].user
  IN {f \in Selected(u) : /\ SolcVersion(u, f) = v
                          /\ f \in todo[p] \/ Imports[f] \subseteq Selected(u)}

\* The build infos that p is writing.
HalfWritten(p) ==
  IF pc[p] # "jobs" THEN {}
  ELSE {Input(p, v) : v \in {w \in SolcVersions : job[p][w] = "writing"}}

\* Writing a file that exists gives it a new modification time.
NewestInfo(p, v, whole) ==
  Append(ElementsAt(infos, {k \in DOMAIN infos : infos[k].input # Input(p, v)}),
         [input |-> Input(p, v), told |-> ran[p][v], own |-> Own(p, v),
          whole |-> whole])

-----------------------------------------------------------------------------
(* From a command to its jobs. *)

\* Mutant: the imports of a file are not looked at.
ChangedItself(u, f) ==
  \A entry \in cache[f] :
    entry.content # content[f] \/ entry.config # SolcConfig(u, f)

\* The configuration is compared for the file that is to be emitted only.
NeedsCompile(u, f) ==
  \E g \in Imports[f] :
    \A entry \in cache[g] :
      \/ entry.content # content[g]
      \/ g = f /\ entry.config # SolcConfig(u, f)

FilesToCompile(c) ==
  {f \in Selected(c.user) : c.force \/ NeedsCompile(c.user, f)}

Compiling(p) == pc[p] \in {"jobs", "clean"}

Command ==
  /\ budget.commands > 0
  /\ budget' = [budget EXCEPT !.commands = @ - 1]

\* extendEnvironment throws, or the installation of solc fails; one of two
\* versions may be installed all the same.
Reject(c) ==
  /\ Command
  /\ EnvironmentRejects(c.user) \/ UsesPackage(c.user)
  /\ package' \in {package} \cup InstalledBeforeError(c.user)
  /\ UNCHANGED <<content, diskVars, cut, cmd, snap, todo, pc, jobVars, saved>>

\* The sources and the cache are read, and the jobs planned.
StartCompile(p, c) ==
  /\ pc[p] = "idle" /\ ~c.noCompile
  /\ \A q \in Procs : ~Compiling(q)
  /\ Command
  /\ ~EnvironmentRejects(c.user)
  /\ package' = InstalledSolc(c.user, package)
  /\ LET files == FilesToCompile(c)
     IN /\ cmd' = [cmd EXCEPT ![p] = c]
        /\ snap' = [snap EXCEPT ![p] = content]
        /\ todo' = [todo EXCEPT ![p] = files]
        /\ job' = [job EXCEPT ![p] =
                     [v \in SolcVersions |->
                        IF \E f \in files : SolcVersion(c.user, f) = v
                        THEN "run" ELSE "none"]]
  /\ pc' = [pc EXCEPT ![p] = "jobs"]
  /\ UNCHANGED <<content, diskVars, cut, ran, saved>>

-----------------------------------------------------------------------------
(* One job: COMPILE_SOLC, RUN_RESOLC, EMIT_ARTIFACTS. *)

Advance(p, v, from, to) ==
  /\ pc[p] = "jobs"
  /\ job[p][v] = from
  /\ job' = [job EXCEPT ![p][v] = to]

\* compileWithBinary: the child closes with output, or with an error, output
\* that does not parse, without contracts, or with errors in the sources.
CompileResults(u) == IF CompilerRejects(u) THEN {"failed"} ELSE {"info", "failed"}

\* COMPILE_RESOLC: the builds of solc and resolc come from the caches of
\* compilers or not, then the compiler runs, with the package of that moment.
\* Nothing of this is seen outside the job.
RunResolc(p, v) ==
  /\ \E to \in CompileResults(cmd[p].user) : Advance(p, v, "run", to)
  /\ ran' = [ran EXCEPT ![p][v] = Told(cmd[p].user, v, package)]
  /\ UNCHANGED <<userVars, diskVars, cut, planVars, pc, saved>>

\* saveBuildInfo writes the file piece by piece.
OpenBuildInfo(p, v) ==
  /\ Advance(p, v, "info", "writing")
  /\ infos' = NewestInfo(p, v, FALSE)
  /\ tainted' = tainted \cup Emits(p, v)
  /\ UNCHANGED <<userVars, cache, artifact, debug, cut, planVars, pc, ran,
                 saved>>

CloseBuildInfo(p, v) ==
  /\ Advance(p, v, "writing", "emit")
  /\ infos' = NewestInfo(p, v, TRUE)
  /\ cut' = cut \ {Input(p, v)}
  /\ UNCHANGED <<userVars, cache, artifact, debug, tainted, planVars, pc, ran,
                 saved>>

\* Mutant: the artifacts are emitted without waiting for the build info.
MayEmitEarly(p, f) ==
  /\ pc[p] = "jobs" /\ f \in todo[p]
  /\ job[p][SolcVersion(cmd[p].user, f)] \in {"info", "writing", "emit"}

\* Mutant: what a job only imports is emitted too.
MayEmitImports(p, f) ==
  /\ pc[p] = "jobs"
  /\ LET v == SolcVersion(cmd[p].user, f)
     IN job[p][v] = "emit" /\ f \in JobFiles(p, v)

MayEmit(p, f) ==
  /\ pc[p] = "jobs" /\ f \in todo[p]
  /\ job[p][SolcVersion(cmd[p].user, f)] = "emit"

\* The two files of saveArtifactAndDebugFile, for all files at once.
EmitArtifact(p, f) ==
  LET v == SolcVersion(cmd[p].user, f)
  IN /\ MayEmit(p, f) /\ <<f, "artifact">> \notin saved[p]
     /\ artifact' = [artifact EXCEPT ![f] = {Code(f, snap[p], ran[p][v])}]
     /\ saved' = [saved EXCEPT ![p] = @ \cup {<<f, "artifact">>}]
     /\ UNCHANGED <<userVars, cache, debug, infos, tainted, cut, planVars, pc,
                    jobVars>>

EmitDebugFile(p, f) ==
  LET v == SolcVersion(cmd[p].user, f)
  IN /\ MayEmit(p, f) /\ <<f, "debug">> \notin saved[p]
     /\ debug' = [debug EXCEPT ![f] = {Input(p, v)}]
     /\ saved' = [saved EXCEPT ![p] = @ \cup {<<f, "debug">>}]
     /\ UNCHANGED <<userVars, cache, artifact, infos, tainted, cut, planVars,
                    pc, jobVars>>

-----------------------------------------------------------------------------
(* After the jobs. *)

\* Mutant: a child that exits with an error settles nothing.
SettledBySuccess(p, v) ==
  \/ job[p][v] = "none"
  \/ job[p][v] = "emit" /\ Emits(p, v) \X {"artifact", "debug"} \subseteq saved[p]

JobSettled(p, v) ==
  \/ job[p][v] \in {"none", "failed"}
  \/ job[p][v] = "emit" /\ Emits(p, v) \X {"artifact", "debug"} \subseteq saved[p]

\* Mutant: the first job that fails ends the command.
SettledOrFailed(p) ==
  /\ pc[p] = "jobs"
  /\ \/ \A v \in SolcVersions : JobSettled(p, v)
     \/ \E v \in SolcVersions : job[p][v] = "failed"

AllSettled(p) == pc[p] = "jobs" /\ \A v \in SolcVersions : JobSettled(p, v)

SomeFailed(p) == \E v \in SolcVersions : job[p][v] = "failed"

NoCommand == CHOOSE c \in Commands : TRUE

\* The command of p is over, with or without success, and its memory gone.
End(p) ==
  /\ pc' = [pc EXCEPT ![p] = "idle"]
  /\ cmd' = [cmd EXCEPT ![p] = NoCommand]
  /\ snap' = [snap EXCEPT ![p] = Unread]
  /\ todo' = [todo EXCEPT ![p] = {}]
  /\ job' = [job EXCEPT ![p] = Idle]
  /\ ran' = [ran EXCEPT ![p] = NotRun]
  /\ saved' = [saved EXCEPT ![p] = {}]
  /\ UNCHANGED package

\* Mutant: the cache is written although a job failed.
SaveWhenSettled(p) == AllSettled(p)

MaySaveCache(p) == AllSettled(p) /\ ~SomeFailed(p)

\* The other jobs of a failed compile have emitted; the cache is not written.
FailCompile(p) ==
  /\ AllSettled(p) /\ ~MaySaveCache(p)
  /\ End(p)
  /\ UNCHANGED <<userVars, diskVars, cut>>

\* A file left out by contractsToCompile keeps its entry while the entries of
\* its imports move on.
SaveCache(p) ==
  LET u == cmd[p].user
  IN /\ MaySaveCache(p)
     /\ cache' = [f \in Files |->
                    IF f \in todo[p]
                    THEN {[content |-> snap[p][f], config |-> SolcConfig(u, f)]}
                    ELSE cache[f]]
     /\ tainted' = (tainted \ todo[p]) \cup
                   {f \in Files \ Selected(u) : Imports[f] \cap todo[p] # {}}
     /\ pc' = [pc EXCEPT ![p] = "clean"]
     /\ UNCHANGED <<userVars, artifact, debug, infos, cut, planVars, jobVars,
                    saved>>

\* Build infos that no debug file names are removed.
RemoveObsolete(p) ==
  /\ pc[p] = "clean"
  /\ infos' =
       ElementsAt(infos, {k \in DOMAIN infos :
                            \E f \in Files : infos[k].input \in debug[f]})
  /\ UNCHANGED <<userVars, cache, artifact, debug, tainted, cut>>

CompileOnly(p) ==
  /\ RemoveObsolete(p)
  /\ cmd[p].task = "compile"
  /\ End(p)

\* The process is killed; or the child cannot be started or does not read its
\* input, whose error event nobody listens to.
Die(p) ==
  /\ pc[p] # "idle"
  /\ budget.kills > 0
  /\ budget' = [budget EXCEPT !.kills = @ - 1]
  /\ cut' = cut \cup HalfWritten(p)
  /\ End(p)
  /\ UNCHANGED <<content, diskVars>>

Edit(f, c) ==
  /\ budget.edits > 0
  /\ budget' = [budget EXCEPT !.edits = @ - 1]
  /\ c # content[f]
  /\ content' = [content EXCEPT ![f] = c]
  /\ UNCHANGED <<diskVars, cut, planVars, pc, jobVars, saved>>

Compile(p) ==
  \/ \E v \in SolcVersions :
       RunResolc(p, v) \/ OpenBuildInfo(p, v) \/ CloseBuildInfo(p, v)
  \/ \E f \in Files : EmitArtifact(p, f) \/ EmitDebugFile(p, f)
  \/ FailCompile(p) \/ SaveCache(p) \/ CompileOnly(p)

PipelineInit ==
  /\ content \in [Files -> {CHOOSE c \in Contents : TRUE}]
  /\ cache = [f \in Files |-> {}]
  /\ artifact = [f \in Files |-> {}]
  /\ debug = [f \in Files |-> {}]
  /\ infos = <<>>
  /\ package = 0
  /\ tainted = {}
  /\ cut = {}
  /\ pc = [p \in Procs |-> "idle"]
  /\ cmd = [p \in Procs |-> NoCommand]
  /\ snap = [p \in Procs |-> Unread]
  /\ todo = [p \in Procs |-> {}]
  /\ job = [p \in Procs |-> Idle]
  /\ ran = [p \in Procs |-> NotRun]
  /\ saved = [p \in Procs |-> {}]
  /\ budget = [commands |-> MaxCommands, edits |-> MaxEdits, kills |-> MaxKills]

-----------------------------------------------------------------------------
(* Properties. *)

\* Of solc in node_modules an input says nothing.
FromPackage(input) == \E r \in input.config.settings.resolc : r.source = "npm"

\* A file that a compile with configuration u would skip has the artifact
\* that compiling it would write, whatever jobs failed, processes died or
\* sources changed while they were read; unless its artifact was overwritten
\* by a compile that did not get to the cache, or contractsToCompile leaves
\* out the file or an import, whose entry in the cache may then be older than
\* the artifact.  With npm the installed solc may be another one.
SkippedIsFresh ==
  \A c \in Commands, f \in Files \ tainted :
    LET u == c.user
    IN /\ Imports[f] \subseteq Selected(u) /\ u.source # "npm"
       /\ ~NeedsCompile(u, f)
       => artifact[f] = {Code(f, content, Told(u, SolcVersion(u, f), 0))}

\* The debug file of an artifact names a build info that exists, that is whole,
\* and that has this artifact's code in its output.  It is not whole while a
\* compile writes it (again), and after a process died at this.  Its output has
\* another code if the two were not written by the same compile, which only one
\* that did not get to the cache leaves behind, or if the compiler was the
\* package, which the same input may find with another solc.
ArtifactsHaveBuildInfo ==
  \A f \in Files : \A named \in debug[f] :
    \E i \in ToSet(infos) :
      /\ i.input = named
      /\ i.whole \/ named \in cut \/ \E p \in Procs : named \in HalfWritten(p)
      /\ f \notin tainted /\ ~FromPackage(named)
         => artifact[f] = {Code(f, named.sources, i.told)}
=============================================================================
