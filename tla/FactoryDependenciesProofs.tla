---------------------- MODULE FactoryDependenciesProofs ----------------------
(***************************************************************************)
(* Compiles and the hook of hardhat test, for any project, any commands    *)
(* and any number of processes: what a compile would skip is up to date,   *)
(* every artifact has its build info, and the hook uploads the code that   *)
(* the newest build info names.                                            *)
(*                                                                         *)
(* None of this is inductive.  The invariant adds an account of the one    *)
(* compile at work (Progress), of what cache, artifact and debug file of a *)
(* file say of each other once a compile got to its end (CacheFresh,       *)
(* DebugFresh), of every build info, since each may become the newest one  *)
(* when later ones are removed (InfosFresh), and of each hook (HookFresh). *)
(* That a build info is whole, but for the one being written and those     *)
(* whose writer died, is an invariant of its own on top of it (TornNamed). *)
(***************************************************************************)
EXTENDS FactoryDependencies, SubsequencesProofs

\* A configuration says which files are selected and, unless the compiler is
\* the package, what the compiler is told.
SelectedBy(config) ==
  IF \A r \in config.settings.resolc : r.contracts = {} THEN Files
  ELSE UNION {r.contracts : r \in config.settings.resolc}

ToldFor(config) ==
  IF config.settings.resolc = {}
  THEN [resolc |-> {}, solc |-> config.version, optimizer |-> {}]
  ELSE LET r == CHOOSE r \in config.settings.resolc : TRUE
       IN [resolc    |-> {r.version},
           solc      |-> IF r.solcPath # 0 THEN r.solcPath ELSE config.version,
           optimizer |-> ToldOptimizer(r.optimizer)]

ClosedUnderImports(fs) == \A f \in fs : Imports[f] \subseteq fs

AtMostOne(S) == \A x, y \in S : x = y

SavedOf(p) ==
  /\ saved[p] \subseteq todo[p] \X {"artifact", "debug"}
  /\ pc[p] = "idle" => saved[p] = {}

\* The types of TypeOK, and what it leaves open.
ProcTypes ==
  /\ pc \in [Procs -> {"idle", "jobs", "clean", "hook", "lookup", "upload"}]
  /\ job \in [Procs -> [SolcVersions -> JobLabels]]
  /\ cmd \in [Procs -> Commands]
  /\ DOMAIN snap = Procs /\ DOMAIN ran = Procs
  /\ \A p \in Procs : DOMAIN ran[p] = SolcVersions
  /\ todo \in [Procs -> SUBSET Files]
  /\ saved \in [Procs -> SUBSET (Files \X {"artifact", "debug"})]
  /\ \A p \in Procs : SavedOf(p)

HookTypes ==
  /\ DOMAIN named = Procs /\ DOMAIN pending = Procs /\ DOMAIN missing = Procs
  /\ \A p \in Procs : missing[p] \subseteq pending[p] /\ pending[p] \subseteq named[p]
  /\ doubtful \in [Procs -> SUBSET Files]
  /\ DOMAIN deployed = Chains

InfoType(i) ==
  /\ i.own \subseteq Files /\ DOMAIN i.input.sources \subseteq Files
  /\ ClosedUnderImports(DOMAIN i.input.sources)

DiskTypes ==
  /\ content \in [Files -> Contents]
  /\ DOMAIN cache = Files /\ DOMAIN artifact = Files /\ DOMAIN debug = Files
  /\ \A f \in Files :
       /\ AtMostOne(cache[f]) /\ AtMostOne(artifact[f]) /\ AtMostOne(debug[f])
       /\ \A code \in artifact[f] : code.file = f
  /\ tainted \subseteq Files
  /\ infos \in Seq(ToSet(infos))
  /\ \A k \in DOMAIN infos : InfoType(infos[k])

OneCompile == \A p, q \in Procs : Compiling(p) /\ Compiling(q) => p = q

JobConfig(p, v) == [version |-> v, settings |-> SolcSettings(cmd[p].user)]

\* The selected files that p does not compile were found up to date.
SkippedMatches(p) ==
  \A f \in Selected(cmd[p].user) \ todo[p] :
    /\ \A e \in cache[f] : e.config = SolcConfig(cmd[p].user, f)
    /\ \A g \in Imports[f] :
         cache[g] # {} /\ \A e \in cache[g] : e.content = snap[p][g]

\* The build info of the job of v is there; what was written after it is not
\* about the files of that job.
InfoWritten(p, v) ==
  \E k \in DOMAIN infos :
    /\ infos[k].input = Input(p, v) /\ infos[k].told = ran[p][v]
    /\ \A l \in DOMAIN infos : k < l => infos[l].own \cap Emits(p, v) = {}

JobProgress(p, v) ==
  /\ job[p][v] \in {"info", "writing", "emit"} =>
       FromPackage(Input(p, v)) \/ ran[p][v] = ToldFor(JobConfig(p, v))
  /\ job[p][v] \in {"writing", "emit"} =>
       Emits(p, v) \subseteq tainted /\ InfoWritten(p, v)

FileProgress(p, f) ==
  LET v == SolcVersion(cmd[p].user, f)
  IN /\ v \in SolcVersions /\ job[p][v] # "none"
     /\ \A what \in {"artifact", "debug"} :
          <<f, what>> \in saved[p] => job[p][v] = "emit"
     /\ <<f, "artifact">> \in saved[p] =>
          artifact[f] = {Code(f, snap[p], ran[p][v])}
     /\ <<f, "debug">> \in saved[p] => debug[f] = {Input(p, v)}

Progress(p) ==
  pc[p] = "jobs" =>
    /\ snap[p] \in [Files -> Contents]
    /\ todo[p] \subseteq Selected(cmd[p].user)
    /\ SkippedMatches(p)
    /\ \A v \in SolcVersions : JobProgress(p, v)
    /\ \A f \in todo[p] : FileProgress(p, f)

\* Of a file and its imports, at the contents that the cache has of them.
CacheFresh ==
  \A f \in Files \ tainted : \A e \in cache[f] :
    ~FromPackage(e) /\ Imports[f] \subseteq SelectedBy(e.config) =>
      \A sources \in [Files -> Contents] :
        (\A g \in Imports[f] : \E entry \in cache[g] : entry.content = sources[g])
          => artifact[f] = {Code(f, sources, ToldFor(e.config))}

DebugFresh ==
  \A f \in Files : \A input \in debug[f] :
    /\ \E k \in DOMAIN infos : infos[k].input = input
    /\ f \notin tainted /\ ~FromPackage(input) =>
         artifact[f] = {Code(f, input.sources, ToldFor(input.config))}

\* What build info k says of a file is what its artifact is, unless the file
\* was compiled again; then its debug file names a later build info.
InfosFresh ==
  \A k \in DOMAIN infos :
    ~FromPackage(infos[k].input) =>
      /\ infos[k].told = ToldFor(infos[k].input.config)
      /\ \A f \in (infos[k].own \cap DOMAIN infos[k].input.sources) \ tainted :
           \/ artifact[f] = {Code(f, infos[k].input.sources, infos[k].told)}
           \/ \E l \in DOMAIN infos : k < l /\ infos[l].input \in debug[f]

HookFresh(p) ==
  /\ pc[p] \notin {"lookup", "upload"} => named[p] = {}
  /\ pc[p] # "upload" => missing[p] = {}
  /\ \A d \in named[p] :
       /\ d.file \in Files
       /\ d.file \notin doubtful[p] => artifact[d.file] = {d}
       /\ (/\ d \notin pending[p] /\ d.file \notin doubtful[p]
           /\ SubstrateChain(p) = {EthChain(p)})
            => d \in deployed[EthChain(p)]

IInv ==
  /\ ProcTypes /\ HookTypes /\ DiskTypes
  /\ OneCompile /\ \A p \in Procs : Progress(p) /\ HookFresh(p)
  /\ CacheFresh /\ DebugFresh /\ InfosFresh

-----------------------------------------------------------------------------
(* Configurations, inputs and the networks of commands. *)

\* Unless the compiler is the package, the configuration that Hardhat records
\* decides what the compiler is told; always, which files are selected.
LEMMA ConfigFacts ==
  ASSUME NEW u, NEW v, NEW n, NEW config,
         config = [version |-> v, settings |-> SolcSettings(u)]
  PROVE  /\ SelectedBy(config) = Selected(u)
         /\ (\E r \in config.settings.resolc : r.source = "npm")
              \/ Told(u, v, n) = ToldFor(config)
         /\ u.source # "npm" => ~ \E r \in config.settings.resolc : r.source = "npm"
<1>1. CASE u.target # "pvm"
  <2>1. config.settings.resolc = {} /\ config.version = v
    BY <1>1 DEF SolcSettings
  <2>. QED BY <1>1, <2>1 DEF SelectedBy, Selected, Told, ToldFor, UsesPackage
<1>2. CASE u.target = "pvm"
  <2>. DEFINE r == Resolc(u)
  <2>1. config.settings.resolc = {r} /\ config.version = v
    BY <1>2 DEF SolcSettings
  <2>2. /\ r.contracts = u.contracts /\ r.version = ResolcVersion(u)
        /\ r.solcPath = u.solcPath /\ (r.source = "npm" <=> u.source = "npm")
    BY DEF Resolc
  <2>. HIDE DEF r
  <2>3. SelectedBy(config) = Selected(u)
    BY <1>2, <2>1, <2>2 DEF SelectedBy, Selected
  <2>4. u.source # "npm" => Told(u, v, n) = ToldFor(config)
    <3>1. (CHOOSE x \in config.settings.resolc : TRUE) = r
      BY <2>1
    <3>. QED BY <1>2, <2>1, <2>2, <3>1
             DEF Told, ToldFor, ToldByBinary, UsesPackage, r
  <2>. QED BY <2>1, <2>2, <2>3, <2>4
<1>. QED BY <1>1, <1>2

LEMMA InputFacts ==
  ASSUME NEW p, NEW v
  PROVE  /\ Input(p, v).config = JobConfig(p, v)
         /\ Input(p, v).sources = [f \in JobFiles(p, v) |-> snap[p][f]]
         /\ DOMAIN Input(p, v).sources = JobFiles(p, v)
BY DEF Input, JobConfig

\* A job has all that its files import.
LEMMA JobFilesFacts ==
  ASSUME ProcTypes, NEW p \in Procs, NEW v
  PROVE  /\ Emits(p, v) \subseteq JobFiles(p, v)
         /\ JobFiles(p, v) \subseteq Files
         /\ ClosedUnderImports(JobFiles(p, v))
<1>1. Emits(p, v) \subseteq Files
  BY DEF Emits, ProcTypes
<1>. QED BY <1>1, ImportsAssumption DEF JobFiles, ClosedUnderImports

LEMMA SameCode ==
  ASSUME ProcTypes, NEW p \in Procs, NEW v, NEW f \in JobFiles(p, v), NEW told
  PROVE  Code(f, Input(p, v).sources, told) = Code(f, snap[p], told)
<1>1. Imports[f] \subseteq JobFiles(p, v)
  BY JobFilesFacts DEF ClosedUnderImports
<1>2. Input(p, v).sources = [g \in JobFiles(p, v) |-> snap[p][g]]
  BY InputFacts
<1>. QED BY <1>1, <1>2 DEF Code

LEMMA VersionFacts ==
  ASSUME NEW c \in Commands
  PROVE  /\ Selected(c.user) \subseteq Files
         /\ \A f \in Selected(c.user) : SolcVersion(c.user, f) \in SolcVersions
BY CommandsAssumption DEF SolcVersions

LEMMA EthChainFacts ==
  ASSUME ProcTypes, NEW p \in Procs
  PROVE  EthChain(p) \in Chains
<1>1. cmd[p].network \in {"hardhat", "localhost", "hub"}
  BY NetworksAssumption DEF ProcTypes
<1>. QED BY <1>1 DEF EthChain, Chains

-----------------------------------------------------------------------------
(* What steps of others leave alone. *)

SameProc(q) ==
  /\ pc'[q] = pc[q] /\ cmd'[q] = cmd[q] /\ snap'[q] = snap[q]
  /\ todo'[q] = todo[q] /\ job'[q] = job[q] /\ ran'[q] = ran[q]
  /\ saved'[q] = saved[q]

SameHook(q) ==
  /\ named'[q] = named[q] /\ pending'[q] = pending[q]
  /\ missing'[q] = missing[q] /\ doubtful'[q] = doubtful[q]

LEMMA SameJob ==
  ASSUME NEW q, cmd'[q] = cmd[q], todo'[q] = todo[q], snap'[q] = snap[q], NEW v
  PROVE  /\ Emits(q, v)' = Emits(q, v) /\ JobFiles(q, v)' = JobFiles(q, v)
         /\ Input(q, v)' = Input(q, v) /\ JobConfig(q, v)' = JobConfig(q, v)
<1>1. Emits(q, v)' = Emits(q, v)
  BY DEF Emits
<1>2. JobFiles(q, v)' = JobFiles(q, v)
  BY <1>1 DEF JobFiles
<1>. QED BY <1>1, <1>2 DEF Input, JobConfig

LEMMA ProgressKept ==
  ASSUME NEW q, SameProc(q), Progress(q), UNCHANGED diskVars
  PROVE  Progress(q)'
<1>1. \A v : /\ Emits(q, v)' = Emits(q, v)
             /\ Input(q, v)' = Input(q, v) /\ JobConfig(q, v)' = JobConfig(q, v)
  BY SameJob DEF SameProc
<1>2. SUFFICES ASSUME pc[q] = "jobs"
               PROVE  /\ snap'[q] \in [Files -> Contents]
                      /\ todo'[q] \subseteq Selected(cmd'[q].user)
                      /\ SkippedMatches(q)'
                      /\ \A v \in SolcVersions : JobProgress(q, v)'
                      /\ \A f \in todo'[q] : FileProgress(q, f)'
  BY DEF Progress, SameProc
<1>3. SkippedMatches(q)'
  BY <1>2 DEF SameProc, Progress, SkippedMatches, diskVars
<1>4. ASSUME NEW v \in SolcVersions PROVE JobProgress(q, v)'
  <2>1. JobProgress(q, v)
    BY <1>2 DEF Progress
  <2>2. InfoWritten(q, v) => InfoWritten(q, v)'
    BY <1>1 DEF InfoWritten, SameProc, diskVars
  <2>. QED BY <1>1, <2>1, <2>2 DEF JobProgress, SameProc, diskVars
<1>5. ASSUME NEW f \in todo'[q] PROVE FileProgress(q, f)'
  <2>1. FileProgress(q, f)
    BY <1>2, <1>5 DEF Progress, SameProc
  <2>. QED BY <1>1, <2>1 DEF FileProgress, SameProc, diskVars
<1>. QED BY <1>2, <1>3, <1>4, <1>5 DEF Progress, SameProc

\* What was uploaded stays, and artifacts are emitted in doubt.
LEMMA HookKept ==
  ASSUME NEW q, pc'[q] = pc[q], cmd'[q] = cmd[q], SameHook(q), HookFresh(q),
         UNCHANGED artifact, deployed[EthChain(q)] \subseteq deployed'[EthChain(q)]
  PROVE  HookFresh(q)'
<1>1. EthChain(q)' = EthChain(q) /\ SubstrateChain(q)' = SubstrateChain(q)
  BY DEF EthChain, SubstrateChain
<1>. QED BY <1>1 DEF HookFresh, SameHook

LEMMA DiskKept ==
  ASSUME UNCHANGED diskVars, CacheFresh, DebugFresh, InfosFresh
  PROVE  CacheFresh' /\ DebugFresh' /\ InfosFresh'
BY DEF diskVars, CacheFresh, DebugFresh, InfosFresh

LEMMA ProcTypesKept ==
  ASSUME ProcTypes, UNCHANGED <<job, snap, todo, ran, saved>>,
         cmd' \in [Procs -> Commands],
         pc' \in [Procs -> {"idle", "jobs", "clean", "hook", "lookup", "upload"}],
         \A q \in Procs : pc'[q] = "idle" => pc[q] = "idle"
  PROVE  ProcTypes'
<1>1. \A q \in Procs : SavedOf(q) => SavedOf(q)'
  BY DEF SavedOf
<1>. QED BY <1>1 DEF ProcTypes

LEMMA EndFacts ==
  ASSUME ProcTypes, NEW p \in Procs, End(p)
  PROVE  /\ ProcTypes' /\ pc'[p] = "idle"
         /\ \A q \in Procs \ {p} : SameProc(q)
<1>1. NoCommand \in Commands
  BY CommandsAssumption DEF NoCommand
<1>2. Idle \in [SolcVersions -> JobLabels] /\ DOMAIN NotRun = SolcVersions
  BY DEF Idle, JobLabels, NotRun
<1>3. /\ job' \in [Procs -> [SolcVersions -> JobLabels]]
      /\ cmd' \in [Procs -> Commands]
      /\ DOMAIN snap' = Procs /\ DOMAIN ran' = Procs
      /\ \A q \in Procs : DOMAIN ran'[q] = SolcVersions
  BY <1>1, <1>2 DEF End, ProcTypes
<1>4. /\ pc' \in [Procs -> {"idle", "jobs", "clean", "hook", "lookup", "upload"}]
      /\ todo' \in [Procs -> SUBSET Files]
      /\ saved' \in [Procs -> SUBSET (Files \X {"artifact", "debug"})]
  BY DEF End, ProcTypes
<1>5. \A q \in Procs : SavedOf(q)'
  <2>. SUFFICES ASSUME NEW q \in Procs PROVE SavedOf(q)'
    OBVIOUS
  <2>1. CASE q = p
    <3>1. saved'[q] = {}
      BY <2>1 DEF End, ProcTypes
    <3>. QED BY <3>1 DEF SavedOf
  <2>2. CASE q # p
    <3>1. saved'[q] = saved[q] /\ todo'[q] = todo[q] /\ pc'[q] = pc[q]
      BY <2>2 DEF End, ProcTypes
    <3>2. SavedOf(q)
      BY DEF ProcTypes
    <3>. QED BY <3>1, <3>2 DEF SavedOf
  <2>. QED BY <2>1, <2>2
<1>6. pc'[p] = "idle" /\ \A q \in Procs \ {p} : SameProc(q)
  BY DEF End, ProcTypes, SameProc
<1>. QED BY <1>3, <1>4, <1>5, <1>6 DEF ProcTypes

LEMMA FinishFacts ==
  ASSUME ProcTypes, HookTypes, NEW p \in Procs, Finish(p), UNCHANGED deployed
  PROVE  /\ ProcTypes' /\ HookTypes' /\ pc'[p] = "idle" /\ HookFresh(p)'
         /\ \A q \in Procs \ {p} : SameProc(q) /\ SameHook(q)
<1>1. End(p)
  BY DEF Finish
<1>2. HookTypes' /\ named'[p] = {} /\ missing'[p] = {}
      /\ \A q \in Procs \ {p} : SameHook(q)
  BY DEF Finish, HookTypes, SameHook
<1>3. HookFresh(p)'
  BY <1>2 DEF HookFresh
<1>. QED BY <1>1, <1>2, <1>3, EndFacts

\* A step that leaves the directory alone and does not go on compiling.
LEMMA QuietStep ==
  ASSUME IInv, NEW p \in Procs, UNCHANGED diskVars, UNCHANGED content,
         ProcTypes', HookTypes', pc'[p] \notin {"jobs", "clean"}, HookFresh(p)',
         \A q \in Procs \ {p} :
           SameProc(q) /\ SameHook(q)
           /\ deployed[EthChain(q)] \subseteq deployed'[EthChain(q)]
  PROVE  IInv'
<1>. USE DEF IInv
<1>1. DiskTypes'
  BY DEF DiskTypes, diskVars, InfoType
<1>2. OneCompile'
  BY DEF OneCompile, Compiling, SameProc
<1>3. Progress(p)'
  BY DEF Progress
<1>4. \A q \in Procs \ {p} : Progress(q)'
  BY ProgressKept
<1>5. \A q \in Procs \ {p} : HookFresh(q)'
  <2>. SUFFICES ASSUME NEW q \in Procs \ {p} PROVE HookFresh(q)'
    OBVIOUS
  <2>. QED BY HookKept DEF SameProc, diskVars
<1>6. CacheFresh' /\ DebugFresh' /\ InfosFresh'
  BY DiskKept
<1>. QED BY <1>1, <1>2, <1>3, <1>4, <1>5, <1>6

-----------------------------------------------------------------------------
(* Steps of the hook. *)

LEMMA FinishStep ==
  ASSUME IInv, NEW p \in Procs, Finish(p), UNCHANGED <<userVars, diskVars, deployed>>
  PROVE  IInv'
<1>1. /\ ProcTypes' /\ HookTypes' /\ pc'[p] = "idle" /\ HookFresh(p)'
      /\ \A q \in Procs \ {p} : SameProc(q) /\ SameHook(q)
  BY FinishFacts DEF IInv
<1>. QED BY <1>1, QuietStep DEF userVars

LEMMA DieStep == ASSUME IInv, NEW p \in Procs, DieAnywhere(p) PROVE IInv'
<1>1. Finish(p) /\ UNCHANGED <<content, diskVars, deployed>>
  BY DEF DieAnywhere, Die, Finish
<1>2. /\ ProcTypes' /\ HookTypes' /\ pc'[p] = "idle" /\ HookFresh(p)'
      /\ \A q \in Procs \ {p} : SameProc(q) /\ SameHook(q)
  BY <1>1, FinishFacts DEF IInv
<1>. QED BY <1>1, <1>2, QuietStep

\* A chain of the session's own is nobody else's.
LEMMA EnterFacts ==
  ASSUME ProcTypes, HookTypes, NEW p \in Procs, EnterHook(p), HookFresh(p),
         pc[p] \notin {"lookup", "upload"}
  PROVE  /\ HookTypes' /\ HookFresh(p)' /\ pc'[p] = "hook"
         /\ \A q \in Procs \ {p} :
              /\ pc'[q] = pc[q] /\ SameHook(q)
              /\ deployed'[EthChain(q)] = deployed[EthChain(q)]
<1>1. pc'[p] = "hook" /\ \A q \in Procs \ {p} : pc'[q] = pc[q] /\ SameHook(q)
  BY DEF EnterHook, ProcTypes, SameHook
<1>2. HookTypes'
  BY DEF EnterHook, HookTypes
<1>3. HookFresh(p)'
  <2>1. named[p] = {} /\ missing[p] = {}
    BY DEF HookFresh, HookTypes
  <2>. QED BY <1>1, <2>1 DEF HookFresh, EnterHook
<1>4. ASSUME NEW q \in Procs \ {p}
      PROVE  deployed'[EthChain(q)] = deployed[EthChain(q)]
  <2>1. EthChain(q) \in Chains
    BY EthChainFacts
  <2>2. EthChain(q) # <<p, "own">>
    <3>1. cmd[q].network \in {"hardhat", "localhost", "hub"}
      BY NetworksAssumption DEF ProcTypes
    <3>2. EthChain(q) \in {<<q, "own">>, <<"dev">>, <<"hub">>}
      BY <3>1 DEF EthChain
    <3>3. Len(<<p, "own">>) = 2 /\ Len(<<"dev">>) = 1 /\ Len(<<"hub">>) = 1
      OBVIOUS
    <3>4. <<q, "own">>[1] = q /\ <<p, "own">>[1] = p
      OBVIOUS
    <3>. QED BY <3>2, <3>3, <3>4
  <2>. QED BY <2>1, <2>2 DEF EnterHook, HookTypes
<1>. QED BY <1>1, <1>2, <1>3, <1>4

LEMMA TestWithoutCompileStep ==
  ASSUME IInv, NEW p \in Procs, NEW c \in Commands, TestWithoutCompile(p, c)
  PROVE  IInv'
<1>. USE DEF IInv, TestWithoutCompile
<1>1. /\ HookTypes' /\ HookFresh(p)' /\ pc'[p] = "hook"
      /\ \A q \in Procs \ {p} :
           /\ pc'[q] = pc[q] /\ SameHook(q)
           /\ deployed'[EthChain(q)] = deployed[EthChain(q)]
  BY EnterFacts
<1>2. \A q \in Procs \ {p} : SameProc(q)
  BY <1>1 DEF SameProc, ProcTypes, jobVars
<1>3. ProcTypes'
  <2>1. /\ cmd' \in [Procs -> Commands]
        /\ pc' \in [Procs -> {"idle", "jobs", "clean", "hook", "lookup", "upload"}]
        /\ UNCHANGED <<job, snap, todo, ran, saved>>
    BY DEF ProcTypes, jobVars, EnterHook
  <2>. QED BY <1>1, <2>1, ProcTypesKept
<1>. QED BY <1>1, <1>2, <1>3, QuietStep

LEMMA ReadBuildInfoStep ==
  ASSUME IInv, NEW p \in Procs, ReadBuildInfo(p) PROVE IInv'
<1>. USE DEF IInv
<1>1. UNCHANGED <<userVars, diskVars, deployed>> /\ pc[p] = "hook"
  BY DEF ReadBuildInfo
<1>2. CASE Finish(p)
  BY <1>1, <1>2, FinishStep
<1>3. CASE /\ ~NewestIsBroken
           /\ named' = [named EXCEPT ![p] = Dependencies]
           /\ pending' = [pending EXCEPT ![p] = Dependencies]
           /\ doubtful' = [doubtful EXCEPT ![p] = Doubted]
           /\ pc' = [pc EXCEPT ![p] = "lookup"]
           /\ UNCHANGED <<missing, planVars, jobVars, saved>>
  <2>1. missing[p] = {} /\ pc'[p] = "lookup"
    BY <1>1, <1>3 DEF HookFresh, ProcTypes
  <2>2. \A q \in Procs \ {p} : SameProc(q) /\ SameHook(q)
    BY <1>3 DEF SameProc, SameHook, ProcTypes, HookTypes, planVars, jobVars
  <2>3. ProcTypes'
    <3>1. pc' \in [Procs -> {"idle", "jobs", "clean", "hook", "lookup", "upload"}]
      BY <1>3 DEF ProcTypes
    <3>2. \A q \in Procs : pc'[q] = "idle" => pc[q] = "idle"
      BY <1>3 DEF ProcTypes
    <3>3. cmd' \in [Procs -> Commands] /\ UNCHANGED <<job, snap, todo, ran, saved>>
      BY <1>3 DEF ProcTypes, planVars, jobVars
    <3>. QED BY <3>1, <3>2, <3>3, ProcTypesKept
  <2>4. Doubted \in SUBSET Files
    <3>1. CASE infos = <<>> \/ FromPackage(Last(infos).input)
      BY <3>1 DEF Doubted
    <3>2. CASE ~(infos = <<>> \/ FromPackage(Last(infos).input))
      BY <3>2 DEF Doubted, DiskTypes
    <3>. QED BY <3>1, <3>2
  <2>5. HookTypes'
    BY <1>1, <1>3, <2>1, <2>4 DEF HookTypes
  <2>6. ASSUME NEW d \in Dependencies
        PROVE  d.file \in Files /\ (d.file \notin Doubted => artifact[d.file] = {d})
    <3>. DEFINE i == Last(infos)
    <3>1. infos # <<>> /\ d \in DependenciesIn(i)
      BY <2>6 DEF Dependencies
    <3>2. i = infos[Len(infos)] /\ Len(infos) \in DOMAIN infos /\ Len(infos) \in Nat
      BY <3>1, LenProperties, EmptySeq DEF Last, DiskTypes
    <3>3. InfoType(i)
      BY <3>2 DEF DiskTypes
    <3>. HIDE DEF i
    <3>4. PICK f \in DOMAIN i.input.sources : \E c \in Creates[f] :
            d = Code(c, i.input.sources, i.told)
      BY <3>1 DEF DependenciesIn
    <3>5. PICK c \in Creates[f] : d = Code(c, i.input.sources, i.told)
      BY <3>4
    <3>6. f \in Files /\ c \in Files /\ c \in DOMAIN i.input.sources
      BY <3>3, CreatesAssumption, ImportsAssumption
         DEF InfoType, ClosedUnderImports
    <3>7. d.file = c
      BY <3>5 DEF Code
    <3>8. ASSUME c \notin Doubted PROVE artifact[c] = {d}
      <4>1. /\ ~FromPackage(infos[Len(infos)].input)
            /\ c \in infos[Len(infos)].own \ tainted
        BY <3>1, <3>2, <3>6, <3>8 DEF Doubted, i
      <4>2. \A l \in DOMAIN infos : ~(Len(infos) < l)
        BY <3>2, LenProperties DEF DiskTypes
      <4>. QED BY <3>2, <3>5, <3>6, <4>1, <4>2 DEF InfosFresh, i
    <3>. QED BY <3>6, <3>7, <3>8
  <2>7. HookFresh(p)'
    <3>1. /\ named'[p] = Dependencies /\ pending'[p] = Dependencies
          /\ doubtful'[p] = Doubted /\ missing'[p] = {} /\ artifact' = artifact
      BY <1>1, <1>3, <2>1 DEF HookTypes, diskVars
    <3>. HIDE DEF IInv
    <3>. QED BY <2>1, <2>6, <3>1 DEF HookFresh
  <2>. QED BY <1>1, <2>1, <2>2, <2>3, <2>5, <2>7, QuietStep DEF userVars
<1>. QED BY <1>2, <1>3 DEF ReadBuildInfo

LEMMA LookUpStep == ASSUME IInv, NEW p \in Procs, LookUp(p) PROVE IInv'
<1>. USE DEF IInv
<1>1. PICK d \in pending[p] :
        IF \E chain \in SubstrateChain(p) : d \in deployed[chain]
        THEN /\ pending' = [pending EXCEPT ![p] = @ \ {d}]
             /\ UNCHANGED <<pc, missing>>
        ELSE /\ missing' = [missing EXCEPT ![p] = {d}]
             /\ pc' = [pc EXCEPT ![p] = "upload"]
             /\ UNCHANGED pending
  BY DEF LookUp
<1>2. /\ pc[p] = "lookup" /\ missing[p] = {}
      /\ UNCHANGED <<userVars, diskVars, planVars, jobVars, saved, deployed,
                     named, doubtful>>
  BY DEF LookUp, HookFresh
<1>3. pc'[p] \in {"lookup", "upload"} /\ \A q \in Procs \ {p} : pc'[q] = pc[q]
  BY <1>1, <1>2 DEF ProcTypes
<1>4. ProcTypes'
  <2>1. pc' \in [Procs -> {"idle", "jobs", "clean", "hook", "lookup", "upload"}]
    BY <1>1 DEF ProcTypes
  <2>2. cmd' \in [Procs -> Commands] /\ UNCHANGED <<job, snap, todo, ran, saved>>
    BY <1>2 DEF ProcTypes, planVars, jobVars
  <2>. QED BY <1>3, <2>1, <2>2, ProcTypesKept
<1>5. HookTypes' /\ \A q \in Procs \ {p} : SameHook(q)
  BY <1>1, <1>2 DEF HookTypes, SameHook
<1>6. \A q \in Procs \ {p} : SameProc(q)
  BY <1>2, <1>3 DEF SameProc, planVars, jobVars
<1>7. HookFresh(p)'
  <2>0. /\ EthChain(p)' = EthChain(p) /\ SubstrateChain(p)' = SubstrateChain(p)
        /\ UNCHANGED <<artifact, deployed, named, doubtful>>
    BY <1>2 DEF EthChain, SubstrateChain, planVars, diskVars
  <2>1. CASE \E chain \in SubstrateChain(p) : d \in deployed[chain]
    <3>1. /\ pending'[p] = pending[p] \ {d} /\ missing'[p] = {}
          /\ pc'[p] = "lookup"
      BY <1>1, <1>2, <2>1 DEF HookTypes
    <3>2. SubstrateChain(p) = {EthChain(p)} => d \in deployed[EthChain(p)]
      BY <2>1
    <3>3. HookFresh(p)
      OBVIOUS
    <3>. HIDE DEF IInv
    <3>. QED BY <1>2, <2>0, <3>1, <3>2, <3>3 DEF HookFresh
  <2>2. CASE ~ \E chain \in SubstrateChain(p) : d \in deployed[chain]
    <3>1. pending'[p] = pending[p] /\ pc'[p] = "upload"
      BY <1>1, <1>2, <2>2 DEF HookTypes, ProcTypes
    <3>2. HookFresh(p)
      OBVIOUS
    <3>. HIDE DEF IInv
    <3>. QED BY <1>2, <2>0, <3>1, <3>2 DEF HookFresh
  <2>. QED BY <2>1, <2>2
<1>. QED BY <1>2, <1>3, <1>4, <1>5, <1>6, <1>7, QuietStep DEF userVars

LEMMA UploadStep == ASSUME IInv, NEW p \in Procs, Upload(p) PROVE IInv'
<1>. USE DEF IInv
<1>1. PICK d \in missing[p] :
        /\ artifact[d.file] # {}
        /\ deployed' = [deployed EXCEPT ![EthChain(p)] = @ \cup artifact[d.file]]
        /\ pending' = [pending EXCEPT ![p] = @ \ {d}]
  BY DEF Upload
<1>2. /\ pc[p] = "upload" /\ missing' = [missing EXCEPT ![p] = {}]
      /\ pc' = [pc EXCEPT ![p] = "lookup"]
      /\ UNCHANGED <<userVars, diskVars, planVars, jobVars, saved, named,
                     doubtful>>
  BY DEF Upload
<1>3. pc'[p] = "lookup" /\ \A q \in Procs \ {p} : pc'[q] = pc[q]
  BY <1>2 DEF ProcTypes
<1>4. ProcTypes'
  <2>1. pc' \in [Procs -> {"idle", "jobs", "clean", "hook", "lookup", "upload"}]
    BY <1>2 DEF ProcTypes
  <2>2. cmd' \in [Procs -> Commands] /\ UNCHANGED <<job, snap, todo, ran, saved>>
    BY <1>2 DEF ProcTypes, planVars, jobVars
  <2>. QED BY <1>3, <2>1, <2>2, ProcTypesKept
<1>5. HookTypes' /\ \A q \in Procs \ {p} : SameHook(q)
  BY <1>1, <1>2 DEF HookTypes, SameHook
<1>6. \A q \in Procs \ {p} : SameProc(q)
  BY <1>2, <1>3 DEF SameProc, planVars, jobVars
<1>7. \A q \in Procs : deployed[EthChain(q)] \subseteq deployed'[EthChain(q)]
  BY <1>1, EthChainFacts DEF HookTypes
<1>8. HookFresh(p)'
  <2>1. /\ EthChain(p)' = EthChain(p) /\ SubstrateChain(p)' = SubstrateChain(p)
        /\ UNCHANGED <<artifact, named, doubtful>>
    BY <1>2 DEF EthChain, SubstrateChain, planVars, diskVars
  <2>2. /\ pending'[p] = pending[p] \ {d} /\ missing'[p] = {}
        /\ d \in named[p]
    BY <1>1, <1>2 DEF HookTypes
  <2>3. artifact[d.file] \subseteq deployed'[EthChain(p)]
    BY <1>1, EthChainFacts DEF HookTypes
  <2>4. HookFresh(p) /\ deployed[EthChain(p)] \subseteq deployed'[EthChain(p)]
    BY <1>7
  <2>. HIDE DEF IInv
  <2>. QED BY <1>3, <2>1, <2>2, <2>3, <2>4 DEF HookFresh
<1>. QED BY <1>2, <1>3, <1>4, <1>5, <1>6, <1>7, <1>8, QuietStep DEF userVars

-----------------------------------------------------------------------------
(* The start of a compile. *)

LEMMA StartCompileStep ==
  ASSUME IInv, NEW p \in Procs, NEW c \in Commands, StartCompile(p, c),
         UNCHANGED hookVars
  PROVE  IInv'
<1>. USE DEF IInv, StartCompile
<1>. DEFINE files == FilesToCompile(c)
            started == [v \in SolcVersions |->
                          IF \E f \in files : SolcVersion(c.user, f) = v
                          THEN "run" ELSE "none"]
<1>0. /\ files \subseteq Selected(c.user) /\ files \subseteq Files
      /\ Selected(c.user) \subseteq Files
      /\ started \in [SolcVersions -> JobLabels]
  BY VersionFacts DEF FilesToCompile, JobLabels
<1>1. /\ pc[p] = "idle" /\ saved[p] = {}
      /\ UNCHANGED <<content, diskVars, ran, saved>>
      /\ pc'[p] = "jobs" /\ cmd'[p] = c /\ snap'[p] = content
      /\ todo'[p] = files /\ job'[p] = started
  <2>1. pc[p] = "idle" /\ saved[p] = {} /\ UNCHANGED <<content, diskVars, ran, saved>>
    BY DEF ProcTypes, SavedOf
  <2>2. pc'[p] = "jobs" /\ cmd'[p] = c /\ snap'[p] = content
    BY DEF ProcTypes
  <2>3. job' = [job EXCEPT ![p] = started] /\ todo' = [todo EXCEPT ![p] = files]
    OBVIOUS
  <2>4. ProcTypes
    OBVIOUS
  <2>5. todo'[p] = files /\ job'[p] = started
    <3>. HIDE DEF IInv, StartCompile, files, started
    <3>. QED BY <2>3, <2>4 DEF ProcTypes
  <2>. QED BY <2>1, <2>2, <2>5
<1>2. \A q \in Procs \ {p} : SameProc(q) /\ SameHook(q)
  BY DEF SameProc, SameHook, ProcTypes, hookVars
<1>3. ProcTypes'
  <2>1. /\ pc' \in [Procs -> {"idle", "jobs", "clean", "hook", "lookup", "upload"}]
        /\ job' \in [Procs -> [SolcVersions -> JobLabels]]
        /\ cmd' \in [Procs -> Commands] /\ DOMAIN snap' = Procs
        /\ todo' \in [Procs -> SUBSET Files]
    <3>. HIDE DEF IInv, started, files
    <3>1. ProcTypes
      BY DEF IInv
    <3>2. job' = [job EXCEPT ![p] = started] /\ todo' = [todo EXCEPT ![p] = files]
      BY DEF started, files
    <3>. QED BY <1>0, <3>1, <3>2 DEF ProcTypes
  <2>2. \A q \in Procs : SavedOf(q)'
    <3>. SUFFICES ASSUME NEW q \in Procs PROVE SavedOf(q)'
      OBVIOUS
    <3>1. CASE q = p
      <4>1. saved'[q] = {}
        BY <1>1, <3>1
      <4>. QED BY <4>1 DEF SavedOf
    <3>2. CASE q # p
      <4>1. saved'[q] = saved[q] /\ todo'[q] = todo[q] /\ pc'[q] = pc[q]
        BY <1>2, <3>2 DEF SameProc
      <4>2. SavedOf(q)
        BY DEF ProcTypes
      <4>. QED BY <4>1, <4>2 DEF SavedOf
    <3>. QED BY <3>1, <3>2
  <2>. QED BY <1>1, <2>1, <2>2 DEF ProcTypes
<1>4. HookTypes' /\ DiskTypes'
  BY <1>1 DEF HookTypes, DiskTypes, hookVars, diskVars, InfoType
<1>5. OneCompile'
  BY <1>2 DEF OneCompile, Compiling, SameProc
<1>6. CacheFresh' /\ DebugFresh' /\ InfosFresh'
  BY <1>1, DiskKept
<1>7. \A q \in Procs \ {p} : Progress(q)'
  BY <1>1, <1>2, ProgressKept
<1>8. ASSUME NEW q \in Procs PROVE HookFresh(q)'
  <2>1. CASE q # p
    <3>1. /\ pc'[q] = pc[q] /\ cmd'[q] = cmd[q] /\ SameHook(q) /\ HookFresh(q)
          /\ UNCHANGED <<artifact, deployed>>
      BY <1>1, <1>2, <2>1 DEF SameProc, diskVars, hookVars
    <3>. QED BY <3>1, HookKept
  <2>2. CASE q = p
    BY <1>1, <2>2 DEF HookFresh, hookVars
  <2>. QED BY <2>1, <2>2
<1>9. Progress(p)'
  <2>. HIDE DEF files, started
  <2>1. content \in [Files -> Contents] /\ cache' = cache
    BY <1>1 DEF DiskTypes, diskVars
  <2>2. SkippedMatches(p)'
    <3>. SUFFICES ASSUME NEW f \in Selected(c.user) \ files
                  PROVE  /\ \A e \in cache[f] : e.config = SolcConfig(c.user, f)
                         /\ \A g \in Imports[f] :
                              /\ cache[g] # {}
                              /\ \A e \in cache[g] : e.content = content[g]
      BY <1>1, <2>1 DEF SkippedMatches
    <3>1. ~NeedsCompile(c.user, f) /\ f \in Files
      BY <1>0 DEF files, FilesToCompile
    <3>2. f \in Imports[f] /\ Imports[f] \subseteq Files
      BY <3>1, ImportsAssumption
    <3>3. \A g \in Imports[f] : \E e \in cache[g] :
            e.content = content[g] /\ (g = f => e.config = SolcConfig(c.user, f))
      BY <3>1 DEF NeedsCompile
    <3>4. \A g \in Imports[f] : AtMostOne(cache[g])
      BY <3>2 DEF DiskTypes
    <3>. HIDE DEF IInv, StartCompile
    <3>. QED BY <3>2, <3>3, <3>4 DEF AtMostOne
  <2>3. ASSUME NEW v \in SolcVersions PROVE JobProgress(p, v)'
    <3>1. job'[p][v] \in {"run", "none"}
      BY <1>1 DEF started
    <3>. QED BY <3>1 DEF JobProgress
  <2>4. ASSUME NEW f \in files PROVE FileProgress(p, f)'
    <3>1. SolcVersion(c.user, f) \in SolcVersions
      BY <1>0, VersionFacts
    <3>2. job'[p][SolcVersion(c.user, f)] = "run"
      BY <1>1, <3>1 DEF started
    <3>. QED BY <1>1, <3>1, <3>2 DEF FileProgress
  <2>. QED BY <1>0, <1>1, <2>1, <2>2, <2>3, <2>4 DEF Progress
<1>. QED BY <1>3, <1>4, <1>5, <1>6, <1>7, <1>8, <1>9

-----------------------------------------------------------------------------
(* A step of a compile, seen by the other processes. *)

\* Nobody else compiles.
LEMMA OthersCompile ==
  ASSUME OneCompile, NEW p \in Procs, Compiling(p),
         \A q \in Procs \ {p} : SameProc(q)
  PROVE  OneCompile' /\ \A q \in Procs \ {p} : Progress(q)'
<1>1. \A q \in Procs \ {p} : ~Compiling(q) /\ pc'[q] = pc[q]
  BY DEF OneCompile, SameProc
<1>. QED BY <1>1 DEF OneCompile, Compiling, Progress

\* When an artifact is emitted a hook can no longer rely on what it read.
LEMMA HooksInDoubt ==
  ASSUME IInv, NEW p \in Procs, Compiling(p),
         pc'[p] \in {"idle", "jobs", "clean"},
         \A q \in Procs \ {p} : SameProc(q),
         doubtful' = IF artifact' = artifact THEN doubtful
                     ELSE [q \in Procs |-> IF InHook(q) THEN Files ELSE {}],
         UNCHANGED <<deployed, named, pending, missing>>
  PROVE  HookTypes' /\ \A q \in Procs : HookFresh(q)'
<1>1. HookTypes'
  BY DEF IInv, HookTypes
<1>2. HookFresh(p)'
  <2>1. named[p] = {} /\ missing[p] = {}
    BY DEF IInv, HookFresh, Compiling
  <2>. QED BY <2>1 DEF HookFresh
<1>3. ASSUME NEW q \in Procs \ {p} PROVE HookFresh(q)'
  <2>1. HookFresh(q) /\ SameProc(q)
    BY DEF IInv
  <2>2. CASE artifact' = artifact
    <3>1. SameHook(q)
      BY <2>2 DEF SameHook
    <3>. QED BY <2>1, <2>2, <3>1, HookKept DEF SameProc
  <2>3. CASE artifact' # artifact /\ InHook(q)
    <3>1. doubtful'[q] = Files
      BY <2>3
    <3>2. named'[q] = named[q] /\ missing'[q] = missing[q] /\ pc'[q] = pc[q]
      BY <2>1 DEF SameProc
    <3>. QED BY <2>1, <3>1, <3>2 DEF HookFresh
  <2>4. CASE artifact' # artifact /\ ~InHook(q)
    <3>1. named'[q] = {} /\ missing'[q] = {}
      BY <2>1, <2>4 DEF HookFresh, InHook
    <3>. QED BY <3>1 DEF HookFresh
  <2>. QED BY <2>2, <2>3, <2>4
<1>. QED BY <1>1, <1>2, <1>3

-----------------------------------------------------------------------------
(* Build infos. *)

LEMMA OwnElements ==
  ASSUME NEW T, NEW s \in Seq(T)
  PROVE  s \in Seq(ToSet(s))
<1>1. Len(s) \in Nat /\ s = [k \in 1 .. Len(s) |-> s[k]] /\ DOMAIN s = 1 .. Len(s)
  BY LenProperties
<1>2. \A k \in 1 .. Len(s) : s[k] \in ToSet(s)
  BY <1>1 DEF ToSet
<1>. QED BY <1>1, <1>2, IsASeq

Others(input) == {k \in DOMAIN infos : infos[k].input # input}

\* The build info of a job comes last, and the others stay in order.
LEMMA NewestFacts ==
  ASSUME DiskTypes, NEW p, NEW v, NEW whole, infos' = NewestInfo(p, v, whole),
         NEW S, S = Others(Input(p, v)), NEW n, n = Cardinality(S)
  PROVE  /\ n \in Nat /\ DOMAIN infos' = 1 .. n + 1 /\ infos' \in Seq(ToSet(infos'))
         /\ infos'[n + 1] = [input |-> Input(p, v), told |-> ran[p][v],
                             own |-> Own(p, v), whole |-> whole]
         /\ \A k \in 1 .. n : /\ Nth(S, k) \in S /\ Rank(S, Nth(S, k)) = k
                              /\ infos'[k] = infos[Nth(S, k)]
         /\ \A k \in S : Rank(S, k) \in 1 .. n /\ infos'[Rank(S, k)] = infos[k]
         /\ \A k, l \in S : k < l => Rank(S, k) < Rank(S, l)
<1>. DEFINE T == ToSet(infos)
            kept == ElementsAt(infos, S)
            new == [input |-> Input(p, v), told |-> ran[p][v],
                    own |-> Own(p, v), whole |-> whole]
<1>1. infos \in Seq(T) /\ S \in SUBSET (DOMAIN infos)
  BY DEF DiskTypes, Others
<1>2. infos' = Append(kept, new)
  BY DEF NewestInfo, Others
<1>. HIDE DEF T, new
<1>3. /\ n \in Nat /\ kept \in Seq(T) /\ Len(kept) = n
      /\ \A k \in 1 .. n : /\ Nth(S, k) \in S /\ Rank(S, Nth(S, k)) = k
                           /\ kept[k] = infos[Nth(S, k)]
      /\ \A k \in S : Rank(S, k) \in 1 .. n /\ kept[Rank(S, k)] = infos[k]
      /\ \A k, l \in S : k < l => Rank(S, k) < Rank(S, l)
  BY <1>1, OrderKept
<1>. HIDE DEF kept
<1>4. kept \in Seq(T \cup {new})
  <2>1. kept = [k \in 1 .. n |-> kept[k]] /\ \A k \in 1 .. n : kept[k] \in T
    BY <1>3, LenProperties, ElementOfSeq
  <2>. QED BY <1>3, <2>1, IsASeq
<1>5. /\ infos' \in Seq(T \cup {new}) /\ Len(infos') = n + 1
      /\ \A k \in 1 .. n : infos'[k] = kept[k]
      /\ infos'[n + 1] = new
  BY <1>2, <1>3, <1>4, AppendProperties
<1>6. DOMAIN infos' = 1 .. n + 1 /\ infos' \in Seq(ToSet(infos'))
  BY <1>5, OwnElements, LenProperties
<1>. QED BY <1>3, <1>5, <1>6 DEF new

LEMMA NewInfoType ==
  ASSUME ProcTypes, NEW p \in Procs, NEW v, NEW i,
         i.input = Input(p, v), i.own = Own(p, v)
  PROVE  InfoType(i)
<1>1. Own(p, v) \subseteq Files
  <2>1. Selected(cmd[p].user) \subseteq Files
    BY VersionFacts DEF ProcTypes
  <2>. QED BY <2>1 DEF Own
<1>2. DOMAIN i.input.sources = JobFiles(p, v)
  BY InputFacts
<1>. QED BY <1>1, <1>2, JobFilesFacts DEF InfoType

\* What the new build info says of a file is what its artifact is, or will be
\* when the compile gets to its end.
LEMMA NewInfoFresh ==
  ASSUME IInv, NEW p \in Procs, pc[p] = "jobs", NEW v \in SolcVersions,
         job[p][v] \in {"info", "writing", "emit"}, ~FromPackage(Input(p, v))
  PROVE  /\ ran[p][v] = ToldFor(Input(p, v).config)
         /\ \A f \in (Own(p, v) \cap JobFiles(p, v)) \ (tainted \cup Emits(p, v)) :
              artifact[f] = {Code(f, Input(p, v).sources, ran[p][v])}
<1>. DEFINE u == cmd[p].user
<1>1. ran[p][v] = ToldFor(JobConfig(p, v))
  BY DEF IInv, Progress, JobProgress
<1>2. Input(p, v).config = JobConfig(p, v)
  BY InputFacts
<1>3. ASSUME NEW f \in (Own(p, v) \cap JobFiles(p, v)) \ (tainted \cup Emits(p, v))
      PROVE  artifact[f] = {Code(f, Input(p, v).sources, ran[p][v])}
  <2>1. /\ f \in Selected(u) /\ SolcVersion(u, f) = v /\ f \notin todo[p]
        /\ Imports[f] \subseteq Selected(u)
    BY DEF Own, Emits
  <2>2. /\ \A e \in cache[f] : e.config = JobConfig(p, v)
        /\ \A g \in Imports[f] :
             cache[g] # {} /\ \A e \in cache[g] : e.content = snap[p][g]
    <3>1. SkippedMatches(p)
      BY DEF IInv, Progress
    <3>. QED BY <2>1, <3>1 DEF SkippedMatches, SolcConfig, JobConfig
  <2>3. f \in Files /\ f \in Imports[f] /\ f \notin tainted
    <3>1. f \in Files
      BY JobFilesFacts DEF IInv
    <3>. QED BY <3>1, ImportsAssumption
  <2>4. PICK e \in cache[f] : e.config = JobConfig(p, v)
    BY <2>2, <2>3
  <2>5. ~FromPackage(e) /\ SelectedBy(e.config) = Selected(u)
    <3>1. ~FromPackage(e)
      BY <1>2, <2>4 DEF FromPackage
    <3>2. SelectedBy(JobConfig(p, v)) = Selected(u)
      BY ConfigFacts DEF JobConfig
    <3>. QED BY <2>4, <3>1, <3>2
  <2>6. snap[p] \in [Files -> Contents]
    BY DEF IInv, Progress
  <2>7. \A g \in Imports[f] : \E entry \in cache[g] : entry.content = snap[p][g]
    BY <2>2
  <2>8. artifact[f] = {Code(f, snap[p], ToldFor(e.config))}
    BY <2>1, <2>3, <2>5, <2>6, <2>7 DEF IInv, CacheFresh
  <2>9. Code(f, Input(p, v).sources, ran[p][v]) = Code(f, snap[p], ran[p][v])
    BY SameCode DEF IInv
  <2>. QED BY <1>1, <2>4, <2>8, <2>9
<1>. QED BY <1>1, <1>2, <1>3

\* Its build info becomes the newest one, opened or closed.
LEMMA BuildInfoSaved ==
  ASSUME IInv, NEW p \in Procs, pc[p] = "jobs", NEW v \in SolcVersions,
         job[p][v] \in {"info", "writing"}, NEW whole,
         infos' = NewestInfo(p, v, whole),
         UNCHANGED <<content, cache, artifact, debug, cmd, snap, todo, ran>>,
         tainted' \subseteq Files, tainted \cup Emits(p, v) \subseteq tainted'
  PROVE  /\ DiskTypes' /\ CacheFresh' /\ DebugFresh' /\ InfosFresh'
         /\ InfoWritten(p, v)'
         /\ \A w \in SolcVersions \ {v} : InfoWritten(p, w) => InfoWritten(p, w)'
<1>. DEFINE S == Others(Input(p, v))
            n == Cardinality(S)
<1>. HIDE DEF S, n
<1>1. /\ n \in Nat /\ DOMAIN infos' = 1 .. n + 1 /\ infos' \in Seq(ToSet(infos'))
      /\ infos'[n + 1] = [input |-> Input(p, v), told |-> ran[p][v],
                          own |-> Own(p, v), whole |-> whole]
      /\ \A k \in 1 .. n : /\ Nth(S, k) \in S /\ Rank(S, Nth(S, k)) = k
                           /\ infos'[k] = infos[Nth(S, k)]
      /\ \A k \in S : Rank(S, k) \in 1 .. n /\ infos'[Rank(S, k)] = infos[k]
      /\ \A k, l \in S : k < l => Rank(S, k) < Rank(S, l)
  BY NewestFacts DEF IInv, S, n
<1>2. /\ n + 1 \in DOMAIN infos' /\ \A k \in 1 .. n : k \in DOMAIN infos' /\ k < n + 1
      /\ \A k \in DOMAIN infos' : k \in 1 .. n \/ k = n + 1
      /\ ~ \E k \in DOMAIN infos' : n + 1 < k
  BY <1>1
<1>3. /\ infos'[n + 1].input = Input(p, v) /\ infos'[n + 1].own = Own(p, v)
      /\ infos'[n + 1].told = ran[p][v]
  BY <1>1
<1>4. \A k \in DOMAIN infos : k \in S \/ infos[k].input = Input(p, v)
  BY DEF S, Others
<1>5. S \subseteq DOMAIN infos /\ \A k \in S : k \in Nat
  <2>1. S \subseteq DOMAIN infos
    BY DEF S, Others
  <2>2. DOMAIN infos = 1 .. Len(infos) /\ Len(infos) \in Nat
    BY LenProperties DEF IInv, DiskTypes
  <2>. QED BY <2>1, <2>2
<1>6. DiskTypes'
  <2>1. ASSUME NEW k \in DOMAIN infos' PROVE InfoType(infos'[k])
    <3>1. CASE k \in 1 .. n
      BY <1>1, <1>5, <3>1 DEF IInv, DiskTypes
    <3>2. CASE k = n + 1
      BY <1>3, <3>2, NewInfoType DEF IInv
    <3>. QED BY <1>2, <3>1, <3>2
  <2>2. \A i : InfoType(i)' <=> InfoType(i)
    BY DEF InfoType
  <2>. QED BY <1>1, <2>1, <2>2 DEF IInv, DiskTypes, InfoType
<1>7. CacheFresh'
  BY DEF IInv, CacheFresh
<1>8. DebugFresh'
  <2>. SUFFICES ASSUME NEW f \in Files, NEW input \in debug[f]
                PROVE  /\ \E k \in DOMAIN infos' : infos'[k].input = input
                       /\ f \notin tainted' /\ ~FromPackage(input) =>
                            artifact[f] = {Code(f, input.sources, ToldFor(input.config))}
    BY DEF DebugFresh
  <2>1. PICK k \in DOMAIN infos : infos[k].input = input
    BY DEF IInv, DebugFresh
  <2>2. \E l \in DOMAIN infos' : infos'[l].input = input
    BY <1>1, <1>2, <1>3, <1>4, <2>1
  <2>. QED BY <2>2 DEF IInv, DebugFresh
<1>9. InfosFresh'
  <2>. SUFFICES ASSUME NEW k \in DOMAIN infos', ~FromPackage(infos'[k].input)
                PROVE  /\ infos'[k].told = ToldFor(infos'[k].input.config)
                       /\ \A f \in (infos'[k].own \cap DOMAIN infos'[k].input.sources)
                                     \ tainted' :
                            \/ artifact[f] = {Code(f, infos'[k].input.sources,
                                                   infos'[k].told)}
                            \/ \E l \in DOMAIN infos' :
                                 k < l /\ infos'[l].input \in debug[f]
    BY DEF InfosFresh
  <2>1. CASE k = n + 1
    <3>1. ~FromPackage(Input(p, v))
      BY <1>3, <2>1
    <3>2. DOMAIN Input(p, v).sources = JobFiles(p, v)
      BY InputFacts
    <3>. QED BY <1>3, <2>1, <3>1, <3>2, NewInfoFresh
  <2>2. CASE k \in 1 .. n
    <3>. DEFINE m == Nth(S, k)
    <3>1. m \in S /\ Rank(S, m) = k /\ infos'[k] = infos[m] /\ m \in DOMAIN infos
      BY <1>1, <1>5, <2>2
    <3>. HIDE DEF m
    <3>2. /\ infos[m].told = ToldFor(infos[m].input.config)
          /\ \A f \in (infos[m].own \cap DOMAIN infos[m].input.sources) \ tainted :
               \/ artifact[f] = {Code(f, infos[m].input.sources, infos[m].told)}
               \/ \E l \in DOMAIN infos : m < l /\ infos[l].input \in debug[f]
      BY <3>1 DEF IInv, InfosFresh
    <3>3. ASSUME NEW l \in DOMAIN infos, m < l
          PROVE  \E j \in DOMAIN infos' : k < j /\ infos'[j].input = infos[l].input
      <4>1. CASE l \in S
        BY <1>1, <1>2, <3>1, <3>3, <4>1
      <4>2. CASE infos[l].input = Input(p, v)
        BY <1>2, <1>3, <2>2, <4>2
      <4>. QED BY <1>4, <4>1, <4>2
    <3>. QED BY <3>1, <3>2, <3>3
  <2>. QED BY <1>2, <2>1, <2>2
<1>10. InfoWritten(p, v)'
  <2>1. Input(p, v)' = Input(p, v)
    BY SameJob
  <2>. QED BY <1>2, <1>3, <2>1 DEF InfoWritten
<1>11. ASSUME NEW w \in SolcVersions \ {v}, InfoWritten(p, w)
       PROVE  InfoWritten(p, w)'
  <2>1. PICK k \in DOMAIN infos :
          /\ infos[k].input = Input(p, w) /\ infos[k].told = ran[p][w]
          /\ \A l \in DOMAIN infos : k < l => infos[l].own \cap Emits(p, w) = {}
    BY <1>11 DEF InfoWritten
  <2>2. k \in S
    <3>1. Input(p, w).config.version = w /\ Input(p, v).config.version = v
      BY DEF Input
    <3>. QED BY <1>4, <2>1, <3>1
  <2>3. Rank(S, k) \in DOMAIN infos' /\ infos'[Rank(S, k)] = infos[k]
    BY <1>1, <1>2, <2>2
  <2>4. ASSUME NEW l \in DOMAIN infos', Rank(S, k) < l
        PROVE  infos'[l].own \cap Emits(p, w) = {}
    <3>1. CASE l = n + 1
      BY <1>3, <3>1 DEF Own, Emits
    <3>2. CASE l \in 1 .. n
      <4>. DEFINE m == Nth(S, l)
      <4>1. m \in S /\ Rank(S, m) = l /\ infos'[l] = infos[m]
        BY <1>1, <3>2
      <4>. HIDE DEF m
      <4>2. k < m
        <5>1. m < k \/ m = k \/ k < m
          BY <1>5, <2>2, <4>1
        <5>2. ASSUME m < k PROVE FALSE
          <6>1. l < Rank(S, k)
            BY <1>1, <2>2, <4>1, <5>2
          <6>2. l \in Int /\ Rank(S, k) \in Int
            BY <1>1, <2>2, <3>2
          <6>. QED BY <2>4, <6>1, <6>2
        <5>3. m # k
          <6>1. l \in Int /\ Rank(S, k) \in Int
            BY <1>1, <2>2, <3>2
          <6>. QED BY <2>4, <4>1, <6>1
        <5>. QED BY <5>1, <5>2, <5>3
      <4>. QED BY <1>5, <2>1, <4>1, <4>2
    <3>. QED BY <1>2, <3>1, <3>2
  <2>5. Input(p, w)' = Input(p, w) /\ Emits(p, w)' = Emits(p, w)
    BY SameJob
  <2>. QED BY <2>1, <2>3, <2>4, <2>5 DEF InfoWritten
<1>. QED BY <1>6, <1>7, <1>8, <1>9, <1>10, <1>11

-----------------------------------------------------------------------------
(* The steps of a job. *)

DoubtfulStep ==
  /\ doubtful' = IF artifact' = artifact THEN doubtful
                 ELSE [q \in Procs |-> IF InHook(q) THEN Files ELSE {}]
  /\ UNCHANGED <<deployed, named, pending, missing>>

LEMMA AdvanceFacts ==
  ASSUME ProcTypes, NEW p \in Procs, NEW v \in SolcVersions, NEW from,
         NEW to \in JobLabels, Advance(p, v, from, to), NEW told,
         ran' = ran \/ ran' = [ran EXCEPT ![p][v] = told],
         UNCHANGED <<planVars, pc, saved>>
  PROVE  /\ ProcTypes' /\ \A q \in Procs \ {p} : SameProc(q)
         /\ pc[p] = "jobs" /\ job[p][v] = from /\ job'[p][v] = to
         /\ \A w \in SolcVersions \ {v} :
              job'[p][w] = job[p][w] /\ ran'[p][w] = ran[p][w]
<1>. USE DEF planVars
<1>1. /\ job' = [job EXCEPT ![p][v] = to]
      /\ pc[p] = "jobs" /\ job[p][v] = from
  BY DEF Advance
<1>2. /\ job' \in [Procs -> [SolcVersions -> JobLabels]]
      /\ DOMAIN ran' = Procs /\ \A q \in Procs : DOMAIN ran'[q] = SolcVersions
  BY <1>1 DEF ProcTypes
<1>3. \A q \in Procs : SavedOf(q)'
  BY DEF ProcTypes, SavedOf
<1>4. ProcTypes'
  BY <1>2, <1>3 DEF ProcTypes
<1>5. \A q \in Procs \ {p} : SameProc(q)
  BY <1>1 DEF SameProc, ProcTypes
<1>6. job'[p][v] = to
  BY <1>1 DEF ProcTypes
<1>7. \A w \in SolcVersions \ {v} :
        job'[p][w] = job[p][w] /\ ran'[p][w] = ran[p][w]
  BY <1>1 DEF ProcTypes
<1>. QED BY <1>1, <1>4, <1>5, <1>6, <1>7

\* Nothing of the job was emitted before.
LEMMA JobStep ==
  ASSUME IInv, NEW p \in Procs, NEW v \in SolcVersions,
         NEW from \in {"run", "info", "writing"},
         NEW to \in {"info", "writing", "emit", "failed"},
         Advance(p, v, from, to), NEW told,
         ran' = ran \/ ran' = [ran EXCEPT ![p][v] = told],
         UNCHANGED <<cache, artifact, debug, planVars, pc, saved>>, DoubtfulStep,
         DiskTypes', CacheFresh', DebugFresh', InfosFresh',
         \A w \in SolcVersions : JobProgress(p, w)'
  PROVE  IInv'
<1>1. /\ ProcTypes' /\ \A q \in Procs \ {p} : SameProc(q)
      /\ pc[p] = "jobs" /\ job[p][v] = from /\ job'[p][v] = to
      /\ \A w \in SolcVersions \ {v} :
           job'[p][w] = job[p][w] /\ ran'[p][w] = ran[p][w]
  <2>1. to \in JobLabels
    BY DEF JobLabels
  <2>. QED BY <2>1, AdvanceFacts DEF IInv
<1>2. UNCHANGED <<cmd, snap, todo>>
  BY DEF planVars
<1>3. Compiling(p) /\ pc'[p] \in {"idle", "jobs", "clean"}
  BY <1>1 DEF Compiling
<1>4. HookTypes' /\ \A q \in Procs : HookFresh(q)'
  BY <1>1, <1>3, HooksInDoubt DEF DoubtfulStep
<1>5. OneCompile' /\ \A q \in Procs \ {p} : Progress(q)'
  BY <1>1, <1>3, OthersCompile DEF IInv
<1>6. ASSUME NEW f \in todo[p] PROVE FileProgress(p, f)'
  <2>0. PICK w : w = SolcVersion(cmd[p].user, f)
    OBVIOUS
  <2>1. /\ w \in SolcVersions /\ job[p][w] # "none"
        /\ \A what \in {"artifact", "debug"} :
             <<f, what>> \in saved[p] => job[p][w] = "emit"
        /\ <<f, "artifact">> \in saved[p] =>
             artifact[f] = {Code(f, snap[p], ran[p][w])}
        /\ <<f, "debug">> \in saved[p] => debug[f] = {Input(p, w)}
    BY <1>1, <2>0 DEF IInv, Progress, FileProgress
  <2>2. SolcVersion(cmd'[p].user, f) = w /\ Input(p, w)' = Input(p, w)
    BY <1>2, <2>0, SameJob
  <2>3. CASE w = v
    <3>1. \A what \in {"artifact", "debug"} : <<f, what>> \notin saved'[p]
      BY <1>1, <2>1, <2>3
    <3>2. job'[p][w] # "none"
      BY <1>1, <2>3
    <3>. QED BY <2>1, <2>2, <3>1, <3>2 DEF FileProgress
  <2>4. CASE w # v
    <3>1. job'[p][w] = job[p][w] /\ ran'[p][w] = ran[p][w]
      BY <1>1, <2>1, <2>4
    <3>2. Code(f, snap'[p], ran'[p][w]) = Code(f, snap[p], ran[p][w])
      BY <1>2, <3>1
    <3>. QED BY <2>1, <2>2, <3>1, <3>2 DEF FileProgress
  <2>. QED BY <2>3, <2>4
<1>7. SkippedMatches(p)'
  BY <1>1, <1>2 DEF IInv, Progress, SkippedMatches
<1>8. Progress(p)'
  BY <1>1, <1>2, <1>6, <1>7 DEF IInv, Progress
<1>. QED BY <1>1, <1>4, <1>5, <1>8 DEF IInv

LEMMA RunResolcStep ==
  ASSUME IInv, NEW p \in Procs, NEW v \in SolcVersions, RunResolc(p, v),
         DoubtfulStep
  PROVE  IInv'
<1>0. PICK told : told = Told(cmd[p].user, v, package)
  OBVIOUS
<1>1. PICK to \in {"info", "failed"} : Advance(p, v, "run", to)
  BY DEF RunResolc, CompileResults
<1>2. /\ ran' = [ran EXCEPT ![p][v] = told]
      /\ UNCHANGED <<userVars, diskVars, planVars, pc, saved>>
  BY <1>0 DEF RunResolc
<1>3. /\ pc[p] = "jobs" /\ job[p][v] = "run" /\ job'[p][v] = to
      /\ \A w \in SolcVersions \ {v} :
           job'[p][w] = job[p][w] /\ ran'[p][w] = ran[p][w]
  <2>1. to \in JobLabels
    BY DEF JobLabels
  <2>2. ProcTypes /\ UNCHANGED <<planVars, pc, saved>>
    BY <1>2 DEF IInv
  <2>3. PICK from : from = "run"
    OBVIOUS
  <2>4. Advance(p, v, from, to)
    BY <1>1, <2>3
  <2>5. ran' = ran \/ ran' = [ran EXCEPT ![p][v] = told]
    BY <1>2
  <2>. QED BY <2>1, <2>2, <2>3, <2>4, <2>5, AdvanceFacts
<1>4. DiskTypes' /\ CacheFresh' /\ DebugFresh' /\ InfosFresh'
  <2>1. DiskTypes'
    BY <1>2 DEF IInv, DiskTypes, InfoType, diskVars, userVars
  <2>. QED BY <1>2, <2>1, DiskKept DEF IInv
<1>5. ASSUME NEW w \in SolcVersions PROVE JobProgress(p, w)'
  <2>1. /\ Emits(p, w)' = Emits(p, w) /\ Input(p, w)' = Input(p, w)
        /\ JobConfig(p, w)' = JobConfig(p, w)
    BY <1>2, SameJob DEF planVars
  <2>2. CASE w = v
    <3>1. ran'[p][v] = told
      BY <1>2 DEF IInv, ProcTypes
    <3>2. FromPackage(Input(p, v)) \/ told = ToldFor(JobConfig(p, v))
      <4>1. \/ \E r \in JobConfig(p, v).settings.resolc : r.source = "npm"
            \/ told = ToldFor(JobConfig(p, v))
        BY <1>0, ConfigFacts DEF JobConfig
      <4>2. Input(p, v).config = JobConfig(p, v)
        BY InputFacts
      <4>. QED BY <4>1, <4>2 DEF FromPackage
    <3>. QED BY <1>3, <2>1, <2>2, <3>1, <3>2 DEF JobProgress
  <2>3. CASE w # v
    <3>1. job'[p][w] = job[p][w] /\ ran'[p][w] = ran[p][w]
      BY <1>3, <2>3
    <3>2. InfoWritten(p, w) => InfoWritten(p, w)'
      BY <1>2, <2>1, <3>1 DEF InfoWritten, diskVars
    <3>. QED BY <1>2, <1>3, <2>1, <3>1, <3>2
             DEF IInv, Progress, JobProgress, diskVars
  <2>. QED BY <2>2, <2>3
<1>. QED BY <1>1, <1>2, <1>4, <1>5, JobStep DEF diskVars

LEMMA BuildInfoStep ==
  ASSUME IInv, NEW p \in Procs, NEW v \in SolcVersions,
         OpenBuildInfo(p, v) \/ CloseBuildInfo(p, v), DoubtfulStep
  PROVE  IInv'
<1>1. PICK from \in {"info", "writing"}, to \in {"writing", "emit"},
           whole \in BOOLEAN :
        Advance(p, v, from, to) /\ infos' = NewestInfo(p, v, whole)
  BY DEF OpenBuildInfo, CloseBuildInfo
<1>2. UNCHANGED <<userVars, cache, artifact, debug, planVars, pc, ran, saved>>
  BY DEF OpenBuildInfo, CloseBuildInfo
<1>3. /\ pc[p] = "jobs" /\ job[p][v] = from /\ job'[p][v] = to
      /\ \A w \in SolcVersions \ {v} : job'[p][w] = job[p][w]
  <2>1. to \in JobLabels
    BY DEF JobLabels
  <2>. QED BY <1>1, <1>2, <2>1, AdvanceFacts DEF IInv
<1>4. tainted' \subseteq Files /\ tainted \cup Emits(p, v) \subseteq tainted'
  <2>1. Emits(p, v) \subseteq Files /\ tainted \subseteq Files
    BY DEF IInv, ProcTypes, DiskTypes, Emits
  <2>2. CASE OpenBuildInfo(p, v)
    BY <2>1, <2>2 DEF OpenBuildInfo
  <2>3. CASE CloseBuildInfo(p, v)
    <3>1. job[p][v] = "writing" /\ tainted' = tainted
      BY <2>3 DEF CloseBuildInfo, Advance
    <3>2. Emits(p, v) \subseteq tainted
      BY <1>3, <3>1 DEF IInv, Progress, JobProgress
    <3>. QED BY <2>1, <3>1, <3>2
  <2>. QED BY <2>2, <2>3
<1>5. /\ DiskTypes' /\ CacheFresh' /\ DebugFresh' /\ InfosFresh'
      /\ InfoWritten(p, v)'
      /\ \A w \in SolcVersions \ {v} : InfoWritten(p, w) => InfoWritten(p, w)'
  BY <1>1, <1>2, <1>3, <1>4, BuildInfoSaved DEF userVars, planVars
<1>6. ASSUME NEW w \in SolcVersions PROVE JobProgress(p, w)'
  <2>1. /\ Emits(p, w)' = Emits(p, w) /\ Input(p, w)' = Input(p, w)
        /\ JobConfig(p, w)' = JobConfig(p, w) /\ ran'[p][w] = ran[p][w]
    BY <1>2, SameJob DEF planVars
  <2>2. JobProgress(p, w)
    BY <1>3 DEF IInv, Progress
  <2>3. CASE w = v
    <3>1. FromPackage(Input(p, v)) \/ ran[p][v] = ToldFor(JobConfig(p, v))
      BY <1>3, <2>2, <2>3 DEF JobProgress
    <3>. QED BY <1>4, <1>5, <2>1, <2>3, <3>1 DEF JobProgress
  <2>4. CASE w # v
    BY <1>3, <1>4, <1>5, <2>1, <2>2, <2>4 DEF JobProgress
  <2>. QED BY <2>3, <2>4
<1>. QED BY <1>1, <1>2, <1>5, <1>6, JobStep

-----------------------------------------------------------------------------
(* Artifacts and debug files are emitted. *)

\* A file whose artifacts may be emitted is tainted, and the build info of its
\* job is there.
LEMMA MayEmitFacts ==
  ASSUME IInv, NEW p \in Procs, NEW f \in Files, MayEmit(p, f), NEW v,
         v = SolcVersion(cmd[p].user, f)
  PROVE  /\ pc[p] = "jobs" /\ f \in todo[p] /\ f \in tainted
         /\ v \in SolcVersions /\ job[p][v] = "emit" /\ InfoWritten(p, v)
<1>1. pc[p] = "jobs" /\ f \in todo[p] /\ job[p][v] = "emit"
  BY DEF MayEmit
<1>2. v \in SolcVersions
  BY <1>1 DEF IInv, Progress, FileProgress
<1>3. Emits(p, v) \subseteq tainted /\ InfoWritten(p, v)
  BY <1>1, <1>2 DEF IInv, Progress, JobProgress
<1>. QED BY <1>1, <1>2, <1>3 DEF Emits

LEMMA EmitFrame ==
  ASSUME IInv, NEW p \in Procs, pc[p] = "jobs", NEW f \in todo[p],
         NEW what \in {"artifact", "debug"}, DoubtfulStep,
         saved' = [saved EXCEPT ![p] = @ \cup {<<f, what>>}],
         UNCHANGED <<cache, infos, tainted, planVars, pc, jobVars>>,
         DiskTypes', CacheFresh', DebugFresh', InfosFresh',
         \A g \in todo[p] : FileProgress(p, g)'
  PROVE  IInv'
<1>. USE DEF planVars, jobVars
<1>0. ProcTypes /\ Progress(p)
  BY DEF IInv
<1>1. /\ saved'[p] = saved[p] \cup {<<f, what>>}
      /\ \A q \in Procs \ {p} : saved'[q] = saved[q]
  BY <1>0 DEF ProcTypes
<1>2. \A q \in Procs \ {p} : SameProc(q)
  BY <1>1 DEF SameProc
<1>3. ProcTypes'
  <2>1. \A q \in Procs : SavedOf(q)'
    <3>1. SavedOf(p)'
      BY <1>0, <1>1 DEF ProcTypes, SavedOf
    <3>2. \A q \in Procs \ {p} : SavedOf(q)'
      BY <1>0, <1>1 DEF ProcTypes, SavedOf
    <3>. QED BY <3>1, <3>2
  <2>2. saved' \in [Procs -> SUBSET (Files \X {"artifact", "debug"})]
    BY <1>0 DEF ProcTypes
  <2>. QED BY <1>0, <2>1, <2>2 DEF ProcTypes
<1>4. Compiling(p) /\ pc'[p] \in {"idle", "jobs", "clean"}
  BY DEF Compiling
<1>5. HookTypes' /\ \A q \in Procs : HookFresh(q)'
  BY <1>2, <1>4, HooksInDoubt DEF DoubtfulStep
<1>6. OneCompile' /\ \A q \in Procs \ {p} : Progress(q)'
  BY <1>2, <1>4, OthersCompile DEF IInv
<1>7. ASSUME NEW v \in SolcVersions PROVE JobProgress(p, v)'
  <2>1. /\ Emits(p, v)' = Emits(p, v) /\ Input(p, v)' = Input(p, v)
        /\ JobConfig(p, v)' = JobConfig(p, v)
    BY SameJob
  <2>2. InfoWritten(p, v) => InfoWritten(p, v)'
    BY <2>1 DEF InfoWritten
  <2>3. JobProgress(p, v)
    BY <1>0 DEF Progress
  <2>. QED BY <2>1, <2>2, <2>3 DEF JobProgress
<1>8. SkippedMatches(p)'
  BY <1>0 DEF Progress, SkippedMatches
<1>9. Progress(p)'
  BY <1>0, <1>7, <1>8 DEF Progress
<1>. QED BY <1>3, <1>5, <1>6, <1>9 DEF IInv

LEMMA EmitArtifactStep ==
  ASSUME IInv, NEW p \in Procs, NEW f \in Files, EmitArtifact(p, f), DoubtfulStep
  PROVE  IInv'
<1>0. PICK v : v = SolcVersion(cmd[p].user, f)
  OBVIOUS
<1>1. /\ MayEmit(p, f)
      /\ artifact' = [artifact EXCEPT ![f] = {Code(f, snap[p], ran[p][v])}]
      /\ saved' = [saved EXCEPT ![p] = @ \cup {<<f, "artifact">>}]
      /\ UNCHANGED <<userVars, cache, debug, infos, tainted, planVars, pc, jobVars>>
  BY <1>0 DEF EmitArtifact
<1>2. /\ pc[p] = "jobs" /\ f \in todo[p] /\ f \in tainted
      /\ v \in SolcVersions /\ job[p][v] = "emit"
  BY <1>0, <1>1, MayEmitFacts
<1>3. /\ artifact'[f] = {Code(f, snap[p], ran[p][v])}
      /\ \A g \in Files \ {f} : artifact'[g] = artifact[g]
      /\ DOMAIN artifact' = Files
  BY <1>1 DEF IInv, DiskTypes
<1>4. DiskTypes'
  <2>1. DiskTypes
    BY DEF IInv
  <2>2. ASSUME NEW g \in Files
        PROVE  AtMostOne(artifact'[g]) /\ \A code \in artifact'[g] : code.file = g
    <3>1. CASE g = f
      BY <1>3, <3>1 DEF AtMostOne, Code
    <3>2. CASE g # f
      BY <1>3, <2>1, <3>2 DEF DiskTypes
    <3>. QED BY <3>1, <3>2
  <2>3. UNCHANGED <<content, cache, debug, infos, tainted>>
    BY <1>1 DEF userVars
  <2>. QED BY <1>3, <2>1, <2>2, <2>3 DEF DiskTypes, InfoType
<1>5. CacheFresh' /\ DebugFresh' /\ InfosFresh'
  <2>1. \A g \in Files \ tainted : artifact'[g] = artifact[g]
    BY <1>2, <1>3
  <2>2. UNCHANGED <<cache, debug, infos, tainted>>
    BY <1>1
  <2>3. CacheFresh'
    BY <2>1, <2>2 DEF IInv, CacheFresh
  <2>4. DebugFresh'
    BY <2>1, <2>2 DEF IInv, DebugFresh
  <2>5. InfosFresh'
    <3>1. \A k \in DOMAIN infos : infos[k].own \subseteq Files
      BY DEF IInv, DiskTypes, InfoType
    <3>. QED BY <2>1, <2>2, <3>1 DEF IInv, InfosFresh
  <2>. QED BY <2>3, <2>4, <2>5
<1>6. ASSUME NEW g \in todo[p] PROVE FileProgress(p, g)'
  <2>0. PICK w : w = SolcVersion(cmd[p].user, g)
    OBVIOUS
  <2>1. /\ w \in SolcVersions /\ job[p][w] # "none"
        /\ \A what \in {"artifact", "debug"} :
             <<g, what>> \in saved[p] => job[p][w] = "emit"
        /\ <<g, "artifact">> \in saved[p] =>
             artifact[g] = {Code(g, snap[p], ran[p][w])}
        /\ <<g, "debug">> \in saved[p] => debug[g] = {Input(p, w)}
    BY <1>2, <2>0 DEF IInv, Progress, FileProgress
  <2>2. /\ UNCHANGED <<cmd, snap, todo, job, ran, debug>>
        /\ SolcVersion(cmd'[p].user, g) = w /\ Input(p, w)' = Input(p, w)
    BY <1>1, <2>0, SameJob DEF planVars, jobVars
  <2>3. /\ saved'[p] = saved[p] \cup {<<f, "artifact">>} /\ g \in Files
    BY <1>1 DEF IInv, ProcTypes
  <2>4. CASE g = f
    <3>1. w = v
      BY <1>0, <2>0, <2>4
    <3>. QED BY <1>2, <1>3, <2>1, <2>2, <2>3, <2>4, <3>1 DEF FileProgress
  <2>5. CASE g # f
    <3>1. \A what \in {"artifact", "debug"} :
            <<g, what>> \in saved'[p] => <<g, what>> \in saved[p]
      BY <2>3, <2>5
    <3>. QED BY <1>3, <2>1, <2>2, <2>3, <2>5, <3>1 DEF FileProgress
  <2>. QED BY <2>4, <2>5
<1>. QED BY <1>1, <1>2, <1>4, <1>5, <1>6, EmitFrame

LEMMA EmitDebugFileStep ==
  ASSUME IInv, NEW p \in Procs, NEW f \in Files, EmitDebugFile(p, f), DoubtfulStep
  PROVE  IInv'
<1>0. PICK v : v = SolcVersion(cmd[p].user, f)
  OBVIOUS
<1>1. /\ MayEmit(p, f)
      /\ debug' = [debug EXCEPT ![f] = {Input(p, v)}]
      /\ saved' = [saved EXCEPT ![p] = @ \cup {<<f, "debug">>}]
      /\ UNCHANGED <<userVars, cache, artifact, infos, tainted, planVars, pc, jobVars>>
  BY <1>0 DEF EmitDebugFile
<1>2. /\ pc[p] = "jobs" /\ f \in todo[p] /\ f \in tainted
      /\ v \in SolcVersions /\ job[p][v] = "emit" /\ InfoWritten(p, v)
  BY <1>0, <1>1, MayEmitFacts
<1>3. /\ debug'[f] = {Input(p, v)}
      /\ \A g \in Files \ {f} : debug'[g] = debug[g]
      /\ DOMAIN debug' = Files
  BY <1>1 DEF IInv, DiskTypes
<1>4. DiskTypes'
  <2>1. DiskTypes
    BY DEF IInv
  <2>2. ASSUME NEW g \in Files PROVE AtMostOne(debug'[g])
    BY <1>3, <2>1 DEF DiskTypes, AtMostOne
  <2>3. UNCHANGED <<content, cache, artifact, infos, tainted>>
    BY <1>1 DEF userVars
  <2>. QED BY <1>3, <2>1, <2>2, <2>3 DEF DiskTypes, InfoType
<1>5. CacheFresh' /\ DebugFresh' /\ InfosFresh'
  <2>1. \A g \in Files \ tainted : debug'[g] = debug[g]
    BY <1>2, <1>3
  <2>2. UNCHANGED <<cache, artifact, infos, tainted>>
    BY <1>1
  <2>3. CacheFresh'
    BY <2>2 DEF IInv, CacheFresh
  <2>4. DebugFresh'
    <3>1. \E k \in DOMAIN infos : infos[k].input = Input(p, v)
      BY <1>2 DEF InfoWritten
    <3>. QED BY <1>2, <1>3, <2>1, <2>2, <3>1 DEF IInv, DebugFresh
  <2>5. InfosFresh'
    <3>1. \A k \in DOMAIN infos : infos[k].own \subseteq Files
      BY DEF IInv, DiskTypes, InfoType
    <3>. QED BY <2>1, <2>2, <3>1 DEF IInv, InfosFresh
  <2>. QED BY <2>3, <2>4, <2>5
<1>6. ASSUME NEW g \in todo[p] PROVE FileProgress(p, g)'
  <2>0. PICK w : w = SolcVersion(cmd[p].user, g)
    OBVIOUS
  <2>1. /\ w \in SolcVersions /\ job[p][w] # "none"
        /\ \A what \in {"artifact", "debug"} :
             <<g, what>> \in saved[p] => job[p][w] = "emit"
        /\ <<g, "artifact">> \in saved[p] =>
             artifact[g] = {Code(g, snap[p], ran[p][w])}
        /\ <<g, "debug">> \in saved[p] => debug[g] = {Input(p, w)}
    BY <1>2, <2>0 DEF IInv, Progress, FileProgress
  <2>2. /\ UNCHANGED <<cmd, snap, todo, job, ran, artifact>>
        /\ SolcVersion(cmd'[p].user, g) = w /\ Input(p, w)' = Input(p, w)
    BY <1>1, <2>0, SameJob DEF planVars, jobVars
  <2>3. /\ saved'[p] = saved[p] \cup {<<f, "debug">>} /\ g \in Files
    BY <1>1 DEF IInv, ProcTypes
  <2>4. CASE g = f
    <3>1. w = v
      BY <1>0, <2>0, <2>4
    <3>. QED BY <1>2, <1>3, <2>1, <2>2, <2>3, <2>4, <3>1 DEF FileProgress
  <2>5. CASE g # f
    <3>1. \A what \in {"artifact", "debug"} :
            <<g, what>> \in saved'[p] => <<g, what>> \in saved[p]
      BY <2>3, <2>5
    <3>. QED BY <1>3, <2>1, <2>2, <2>3, <2>5, <3>1 DEF FileProgress
  <2>. QED BY <2>4, <2>5
<1>. QED BY <1>1, <1>2, <1>4, <1>5, <1>6, EmitFrame

-----------------------------------------------------------------------------
(* The end of a compile. *)

LEMMA FailCompileStep ==
  ASSUME IInv, NEW p \in Procs, FailCompile(p), DoubtfulStep PROVE IInv'
<1>1. /\ pc[p] = "jobs" /\ End(p) /\ UNCHANGED <<userVars, diskVars>>
  BY DEF FailCompile, AllSettled
<1>2. /\ ProcTypes' /\ pc'[p] = "idle"
      /\ \A q \in Procs \ {p} : SameProc(q)
  BY <1>1, EndFacts DEF IInv
<1>3. UNCHANGED hookVars
  BY <1>1 DEF DoubtfulStep, hookVars, diskVars
<1>4. HookTypes' /\ HookFresh(p)' /\ \A q \in Procs \ {p} : SameHook(q)
  <2>1. Compiling(p) /\ pc'[p] \in {"idle", "jobs", "clean"}
    BY <1>1, <1>2 DEF Compiling
  <2>2. HookTypes' /\ \A q \in Procs : HookFresh(q)'
    BY <1>2, <2>1, HooksInDoubt DEF DoubtfulStep
  <2>. QED BY <1>3, <2>2 DEF SameHook, hookVars
<1>5. \A q \in Procs : deployed[EthChain(q)] \subseteq deployed'[EthChain(q)]
  BY <1>3 DEF hookVars
<1>. QED BY <1>1, <1>2, <1>4, <1>5, QuietStep DEF userVars

\* When all jobs are over and none failed, all files were emitted.
LEMMA AllEmitted ==
  ASSUME IInv, NEW p \in Procs, MaySaveCache(p), NEW f \in todo[p], NEW v,
         v = SolcVersion(cmd[p].user, f)
  PROVE  /\ v \in SolcVersions /\ f \in Emits(p, v) /\ InfoWritten(p, v)
         /\ artifact[f] = {Code(f, snap[p], ran[p][v])}
         /\ debug[f] = {Input(p, v)}
         /\ FromPackage(Input(p, v)) \/ ran[p][v] = ToldFor(JobConfig(p, v))
<1>1. /\ v \in SolcVersions /\ job[p][v] # "none"
      /\ <<f, "artifact">> \in saved[p] =>
           artifact[f] = {Code(f, snap[p], ran[p][v])}
      /\ <<f, "debug">> \in saved[p] => debug[f] = {Input(p, v)}
      /\ JobProgress(p, v)
  <2>1. pc[p] = "jobs"
    BY DEF MaySaveCache, AllSettled
  <2>. QED BY <2>1 DEF IInv, Progress, FileProgress
<1>2. f \in Emits(p, v)
  BY DEF Emits
<1>3. job[p][v] = "emit" /\ Emits(p, v) \X {"artifact", "debug"} \subseteq saved[p]
  BY <1>1 DEF MaySaveCache, AllSettled, SomeFailed, JobSettled
<1>4. <<f, "artifact">> \in saved[p] /\ <<f, "debug">> \in saved[p]
  BY <1>2, <1>3
<1>. QED BY <1>1, <1>2, <1>3, <1>4 DEF JobProgress

\* What the cache says of the files compiled is true of their artifacts, and
\* what it says of the files skipped stays true.
LEMMA SavedCacheFresh ==
  ASSUME IInv, NEW p \in Procs, SaveCache(p) PROVE CacheFresh'
<1>0. PICK u : u = cmd[p].user
  OBVIOUS
<1>1. /\ MaySaveCache(p) /\ pc[p] = "jobs" /\ artifact' = artifact
      /\ cache' = [f \in Files |->
                    IF f \in todo[p]
                    THEN {[content |-> snap[p][f], config |-> SolcConfig(u, f)]}
                    ELSE cache[f]]
      /\ tainted' = (tainted \ todo[p]) \cup
                    {f \in Files \ Selected(u) : Imports[f] \cap todo[p] # {}}
  BY <1>0 DEF SaveCache, MaySaveCache, AllSettled
<1>2. /\ snap[p] \in [Files -> Contents] /\ todo[p] \subseteq Selected(u)
      /\ \A f \in Selected(u) \ todo[p] : \A g \in Imports[f] :
           cache[g] # {} /\ \A e \in cache[g] : e.content = snap[p][g]
  BY <1>0, <1>1 DEF IInv, Progress, SkippedMatches
<1>3. \A f \in Files : f \in Imports[f] /\ Imports[f] \subseteq Files
  BY ImportsAssumption
<1>. SUFFICES ASSUME NEW f \in Files \ tainted', NEW e \in cache'[f],
                     ~FromPackage(e), Imports[f] \subseteq SelectedBy(e.config),
                     NEW sources \in [Files -> Contents],
                     \A g \in Imports[f] :
                       \E entry \in cache'[g] : entry.content = sources[g]
              PROVE  artifact[f] = {Code(f, sources, ToldFor(e.config))}
  BY <1>1 DEF CacheFresh
<1>4. \A g \in Imports[f] : g \in todo[p] => sources[g] = snap[p][g]
  BY <1>1, <1>3
<1>5. CASE f \in todo[p]
  <2>0. PICK v : v = SolcVersion(u, f)
    OBVIOUS
  <2>1. /\ artifact[f] = {Code(f, snap[p], ran[p][v])}
        /\ FromPackage(Input(p, v)) \/ ran[p][v] = ToldFor(JobConfig(p, v))
    BY <1>0, <1>1, <1>5, <2>0, AllEmitted
  <2>2. e.config = JobConfig(p, v)
    BY <1>0, <1>1, <1>5, <2>0 DEF SolcConfig, JobConfig
  <2>3. ~FromPackage(Input(p, v))
    <3>1. Input(p, v).config = e.config
      BY <2>2, InputFacts
    <3>. QED BY <3>1 DEF FromPackage
  <2>4. SelectedBy(e.config) = Selected(u)
    BY <1>0, <2>2, ConfigFacts DEF JobConfig
  <2>5. ASSUME NEW g \in Imports[f] PROVE sources[g] = snap[p][g]
    <3>1. CASE g \in todo[p]
      BY <1>4, <3>1
    <3>2. CASE g \notin todo[p]
      <4>1. g \in Selected(u) \ todo[p] /\ g \in Files /\ g \in Imports[g]
        BY <1>3, <2>4, <3>2
      <4>2. \A entry \in cache[g] : entry.content = snap[p][g]
        BY <1>2, <4>1
      <4>3. cache'[g] = cache[g]
        BY <1>1, <3>2, <4>1
      <4>. QED BY <4>2, <4>3
    <3>. QED BY <3>1, <3>2
  <2>6. Code(f, sources, ran[p][v]) = Code(f, snap[p], ran[p][v])
    BY <2>5 DEF Code
  <2>. QED BY <2>1, <2>2, <2>3, <2>6
<1>6. CASE f \notin todo[p]
  <2>1. e \in cache[f] /\ f \in Files \ tainted
    BY <1>1, <1>6
  <2>2. ASSUME NEW g \in Imports[f]
        PROVE  \E entry \in cache[g] : entry.content = sources[g]
    <3>1. CASE g \in todo[p]
      <4>1. f \in Selected(u) \ todo[p]
        BY <1>1, <1>6, <3>1
      <4>. QED BY <1>2, <1>4, <3>1, <4>1
    <3>2. CASE g \notin todo[p]
      <4>1. cache'[g] = cache[g]
        BY <1>1, <1>3, <3>2
      <4>. QED BY <4>1
    <3>. QED BY <3>1, <3>2
  <2>. QED BY <2>1, <2>2 DEF IInv, CacheFresh
<1>. QED BY <1>5, <1>6

LEMMA SaveCacheStep ==
  ASSUME IInv, NEW p \in Procs, SaveCache(p), DoubtfulStep PROVE IInv'
<1>0. PICK u : u = cmd[p].user
  OBVIOUS
<1>1. /\ MaySaveCache(p) /\ pc[p] = "jobs"
      /\ cache' = [f \in Files |->
                    IF f \in todo[p]
                    THEN {[content |-> snap[p][f], config |-> SolcConfig(u, f)]}
                    ELSE cache[f]]
      /\ tainted' = (tainted \ todo[p]) \cup
                    {f \in Files \ Selected(u) : Imports[f] \cap todo[p] # {}}
      /\ pc' = [pc EXCEPT ![p] = "clean"]
      /\ UNCHANGED <<userVars, artifact, debug, infos, planVars, jobVars, saved>>
  BY <1>0 DEF SaveCache, MaySaveCache, AllSettled
<1>2. /\ pc'[p] = "clean" /\ \A q \in Procs \ {p} : SameProc(q)
  BY <1>1 DEF IInv, ProcTypes, SameProc, planVars, jobVars
<1>3. ProcTypes'
  <2>1. ProcTypes /\ cmd' \in [Procs -> Commands]
    BY <1>1 DEF IInv, ProcTypes, planVars
  <2>2. UNCHANGED <<job, snap, todo, ran, saved>>
    BY <1>1 DEF planVars, jobVars
  <2>3. pc' \in [Procs -> {"idle", "jobs", "clean", "hook", "lookup", "upload"}]
    BY <1>1, <2>1 DEF ProcTypes
  <2>4. \A q \in Procs : pc'[q] = "idle" => pc[q] = "idle"
    BY <1>2 DEF SameProc
  <2>. QED BY <2>1, <2>2, <2>3, <2>4, ProcTypesKept
<1>4. Compiling(p) /\ pc'[p] \in {"idle", "jobs", "clean"}
  BY <1>1, <1>2 DEF Compiling
<1>5. HookTypes' /\ \A q \in Procs : HookFresh(q)'
  BY <1>2, <1>4, HooksInDoubt DEF DoubtfulStep
<1>6. OneCompile' /\ \A q \in Procs : Progress(q)'
  <2>1. OneCompile' /\ \A q \in Procs \ {p} : Progress(q)'
    BY <1>2, <1>4, OthersCompile DEF IInv
  <2>2. Progress(p)'
    BY <1>2 DEF Progress
  <2>. QED BY <2>1, <2>2
<1>7. DiskTypes'
  <2>1. DiskTypes
    BY DEF IInv
  <2>2. DOMAIN cache' = Files /\ \A f \in Files : AtMostOne(cache'[f])
    BY <1>1, <2>1 DEF DiskTypes, AtMostOne
  <2>3. tainted' \subseteq Files
    BY <1>1, <2>1 DEF DiskTypes
  <2>4. UNCHANGED <<content, artifact, debug, infos>>
    BY <1>1 DEF userVars
  <2>. QED BY <2>1, <2>2, <2>3, <2>4 DEF DiskTypes, InfoType
<1>8. \A f \in Files \ tainted' : f \in todo[p] \/ f \notin tainted
  BY <1>1
<1>9. DebugFresh'
  <2>. SUFFICES ASSUME NEW f \in Files \ tainted', NEW input \in debug[f],
                       ~FromPackage(input)
                PROVE  artifact[f] = {Code(f, input.sources, ToldFor(input.config))}
    BY <1>1 DEF IInv, DebugFresh
  <2>1. CASE f \in todo[p]
    <3>0. PICK v : v = SolcVersion(cmd[p].user, f)
      OBVIOUS
    <3>1. /\ f \in Emits(p, v) /\ artifact[f] = {Code(f, snap[p], ran[p][v])}
          /\ input = Input(p, v) /\ ran[p][v] = ToldFor(JobConfig(p, v))
      BY <1>1, <2>1, <3>0, AllEmitted
    <3>2. f \in JobFiles(p, v) /\ Input(p, v).config = JobConfig(p, v)
      BY <3>1, JobFilesFacts, InputFacts DEF IInv
    <3>3. Code(f, Input(p, v).sources, ran[p][v]) = Code(f, snap[p], ran[p][v])
      BY <3>2, SameCode DEF IInv
    <3>. QED BY <3>1, <3>2, <3>3
  <2>2. CASE f \notin tainted
    BY <2>2 DEF IInv, DebugFresh
  <2>. QED BY <1>8, <2>1, <2>2
<1>10. InfosFresh'
  <2>. SUFFICES ASSUME NEW k \in DOMAIN infos, ~FromPackage(infos[k].input)
                PROVE  /\ infos[k].told = ToldFor(infos[k].input.config)
                       /\ \A f \in (infos[k].own \cap DOMAIN infos[k].input.sources)
                                     \ tainted' :
                            \/ artifact[f] = {Code(f, infos[k].input.sources,
                                                   infos[k].told)}
                            \/ \E l \in DOMAIN infos :
                                 k < l /\ infos[l].input \in debug[f]
    BY <1>1 DEF InfosFresh
  <2>0. /\ infos[k].told = ToldFor(infos[k].input.config)
        /\ \A f \in (infos[k].own \cap DOMAIN infos[k].input.sources) \ tainted :
             \/ artifact[f] = {Code(f, infos[k].input.sources, infos[k].told)}
             \/ \E l \in DOMAIN infos : k < l /\ infos[l].input \in debug[f]
    BY DEF IInv, InfosFresh
  <2>1. ASSUME NEW f \in (infos[k].own \cap DOMAIN infos[k].input.sources) \ tainted'
        PROVE  \/ artifact[f] = {Code(f, infos[k].input.sources, infos[k].told)}
               \/ \E l \in DOMAIN infos : k < l /\ infos[l].input \in debug[f]
    <3>1. f \in Files
      BY DEF IInv, DiskTypes, InfoType
    <3>2. CASE f \in todo[p]
      <4>0. PICK v : v = SolcVersion(cmd[p].user, f)
        OBVIOUS
      <4>1. /\ f \in Emits(p, v) /\ InfoWritten(p, v) /\ debug[f] = {Input(p, v)}
            /\ artifact[f] = {Code(f, snap[p], ran[p][v])}
        BY <1>1, <3>2, <4>0, AllEmitted
      <4>2. PICK m \in DOMAIN infos :
              /\ infos[m].input = Input(p, v) /\ infos[m].told = ran[p][v]
              /\ \A l \in DOMAIN infos : m < l => infos[l].own \cap Emits(p, v) = {}
        BY <4>1 DEF InfoWritten
      <4>3. f \in JobFiles(p, v)
        BY <4>1, JobFilesFacts DEF IInv
      <4>4. Code(f, Input(p, v).sources, ran[p][v]) = Code(f, snap[p], ran[p][v])
        BY <4>3, SameCode DEF IInv
      <4>5. k < m \/ k = m \/ m < k
        BY LenProperties DEF IInv, DiskTypes
      <4>6. ~ (m < k)
        BY <4>1, <4>2
      <4>. QED BY <4>1, <4>2, <4>4, <4>5, <4>6
    <3>3. CASE f \notin tainted
      BY <2>0, <3>3
    <3>. QED BY <1>8, <3>1, <3>2, <3>3
  <2>. QED BY <2>0, <2>1
<1>. QED BY <1>3, <1>5, <1>6, <1>7, <1>9, <1>10, SavedCacheFresh DEF IInv

\* Build infos that debug files name are kept, in their order.
LEMMA ObsoleteRemoved ==
  ASSUME IInv, NEW p \in Procs, RemoveObsolete(p)
  PROVE  /\ DiskTypes' /\ CacheFresh' /\ DebugFresh' /\ InfosFresh'
         /\ \A k \in DOMAIN infos' : \E l \in DOMAIN infos : infos'[k] = infos[l]
<1>1. PICK S : S = {k \in DOMAIN infos :
                      \E f \in Files : infos[k].input \in debug[f]}
  OBVIOUS
<1>2. PICK n : n = Cardinality(S)
  OBVIOUS
<1>3. /\ infos' = ElementsAt(infos, S)
      /\ UNCHANGED <<userVars, cache, artifact, debug, tainted>>
  BY <1>1 DEF RemoveObsolete
<1>4. infos \in Seq(ToSet(infos)) /\ S \in SUBSET (DOMAIN infos)
  BY <1>1 DEF IInv, DiskTypes
<1>5. /\ infos' \in Seq(ToSet(infos)) /\ DOMAIN infos' = 1 .. n
      /\ \A k \in 1 .. n : /\ Nth(S, k) \in S /\ Rank(S, Nth(S, k)) = k
                           /\ infos'[k] = infos[Nth(S, k)]
      /\ \A k \in S : Rank(S, k) \in 1 .. n /\ infos'[Rank(S, k)] = infos[k]
      /\ \A k, l \in S : k < l => Rank(S, k) < Rank(S, l)
  BY <1>2, <1>3, <1>4, OrderKept
<1>6. DiskTypes'
  <2>1. infos' \in Seq(ToSet(infos'))
    BY <1>5, OwnElements
  <2>2. \A k \in DOMAIN infos' : InfoType(infos'[k])
    BY <1>4, <1>5 DEF IInv, DiskTypes
  <2>3. UNCHANGED <<content, cache, artifact, debug, tainted>>
    BY <1>3 DEF userVars
  <2>. QED BY <2>1, <2>2, <2>3 DEF IInv, DiskTypes, InfoType
<1>7. CacheFresh'
  BY <1>3 DEF IInv, CacheFresh
<1>8. DebugFresh'
  <2>1. ASSUME NEW f \in Files, NEW input \in debug[f]
        PROVE  \E l \in DOMAIN infos' : infos'[l].input = input
    <3>1. PICK k \in DOMAIN infos : infos[k].input = input
      BY DEF IInv, DebugFresh
    <3>2. k \in S
      BY <1>1, <3>1
    <3>. QED BY <1>5, <3>1, <3>2
  <2>. QED BY <1>3, <2>1 DEF IInv, DebugFresh
<1>9. InfosFresh'
  <2>. SUFFICES ASSUME NEW k \in DOMAIN infos', ~FromPackage(infos'[k].input)
                PROVE  /\ infos'[k].told = ToldFor(infos'[k].input.config)
                       /\ \A f \in (infos'[k].own \cap DOMAIN infos'[k].input.sources)
                                     \ tainted :
                            \/ artifact[f] = {Code(f, infos'[k].input.sources,
                                                   infos'[k].told)}
                            \/ \E l \in DOMAIN infos' :
                                 k < l /\ infos'[l].input \in debug[f]
    BY <1>3 DEF InfosFresh
  <2>0. PICK m : m = Nth(S, k)
    OBVIOUS
  <2>1. m \in S /\ m \in DOMAIN infos /\ Rank(S, m) = k /\ infos'[k] = infos[m]
    BY <1>4, <1>5, <2>0
  <2>2. /\ infos[m].told = ToldFor(infos[m].input.config)
        /\ \A f \in (infos[m].own \cap DOMAIN infos[m].input.sources) \ tainted :
             \/ artifact[f] = {Code(f, infos[m].input.sources, infos[m].told)}
             \/ \E l \in DOMAIN infos : m < l /\ infos[l].input \in debug[f]
    BY <2>1 DEF IInv, InfosFresh
  <2>3. ASSUME NEW f \in Files, NEW l \in DOMAIN infos,
               m < l, infos[l].input \in debug[f]
        PROVE  \E j \in DOMAIN infos' : k < j /\ infos'[j].input \in debug[f]
    <3>1. l \in S
      BY <1>1, <2>3
    <3>. QED BY <1>5, <2>1, <2>3, <3>1
  <2>4. infos[m].own \subseteq Files
    BY <2>1 DEF IInv, DiskTypes, InfoType
  <2>. QED BY <2>1, <2>2, <2>3, <2>4
<1>10. \A k \in DOMAIN infos' : \E l \in DOMAIN infos : infos'[k] = infos[l]
  BY <1>4, <1>5
<1>. QED BY <1>6, <1>7, <1>8, <1>9, <1>10

LEMMA CompileOnlyStep ==
  ASSUME IInv, NEW p \in Procs, CompileOnly(p), DoubtfulStep PROVE IInv'
<1>1. /\ RemoveObsolete(p) /\ pc[p] = "clean" /\ End(p)
  BY DEF CompileOnly, RemoveObsolete
<1>2. ProcTypes' /\ pc'[p] = "idle" /\ \A q \in Procs \ {p} : SameProc(q)
  BY <1>1, EndFacts DEF IInv
<1>3. Compiling(p) /\ pc'[p] \in {"idle", "jobs", "clean"}
  BY <1>1, <1>2 DEF Compiling
<1>4. HookTypes' /\ \A q \in Procs : HookFresh(q)'
  BY <1>2, <1>3, HooksInDoubt DEF DoubtfulStep
<1>5. OneCompile' /\ \A q \in Procs \ {p} : Progress(q)'
  BY <1>2, <1>3, OthersCompile DEF IInv
<1>6. Progress(p)'
  BY <1>2 DEF Progress
<1>7. DiskTypes' /\ CacheFresh' /\ DebugFresh' /\ InfosFresh'
  BY <1>1, ObsoleteRemoved
<1>. QED BY <1>2, <1>4, <1>5, <1>6, <1>7 DEF IInv

LEMMA TestAfterCompileStep ==
  ASSUME IInv, NEW p \in Procs, TestAfterCompile(p) PROVE IInv'
<1>1. RemoveObsolete(p) /\ pc[p] = "clean" /\ artifact' = artifact
  BY DEF TestAfterCompile, RemoveObsolete
<1>2. /\ ProcTypes' /\ HookTypes' /\ HookFresh(p)' /\ pc'[p] \in {"idle", "hook"}
      /\ \A q \in Procs \ {p} :
           /\ SameProc(q) /\ SameHook(q)
           /\ deployed'[EthChain(q)] = deployed[EthChain(q)]
  <2>1. CASE Finish(p) /\ UNCHANGED deployed
    BY <2>1, FinishFacts DEF IInv
  <2>2. CASE EnterHook(p) /\ UNCHANGED <<planVars, jobVars, saved>>
    <3>1. /\ HookTypes' /\ HookFresh(p)' /\ pc'[p] = "hook"
          /\ \A q \in Procs \ {p} :
               /\ pc'[q] = pc[q] /\ SameHook(q)
               /\ deployed'[EthChain(q)] = deployed[EthChain(q)]
      BY <1>1, <2>2, EnterFacts DEF IInv
    <3>2. UNCHANGED <<cmd, job, snap, todo, ran, saved>>
      BY <2>2 DEF planVars, jobVars
    <3>3. ProcTypes'
      <4>1. ProcTypes /\ cmd' \in [Procs -> Commands]
        BY <3>2 DEF IInv, ProcTypes
      <4>2. pc' \in [Procs -> {"idle", "jobs", "clean", "hook", "lookup", "upload"}]
        BY <2>2, <4>1 DEF EnterHook, ProcTypes
      <4>3. \A q \in Procs : pc'[q] = "idle" => pc[q] = "idle"
        BY <3>1
      <4>. QED BY <3>2, <4>1, <4>2, <4>3, ProcTypesKept
    <3>. QED BY <3>1, <3>2, <3>3 DEF SameProc
  <2>. QED BY <2>1, <2>2 DEF TestAfterCompile
<1>3. Compiling(p)
  BY <1>1 DEF Compiling
<1>4. OneCompile' /\ \A q \in Procs \ {p} : Progress(q)'
  BY <1>2, <1>3, OthersCompile DEF IInv
<1>5. Progress(p)'
  BY <1>2 DEF Progress
<1>6. ASSUME NEW q \in Procs \ {p} PROVE HookFresh(q)'
  <2>1. HookFresh(q) /\ SameProc(q) /\ SameHook(q)
    BY <1>2 DEF IInv
  <2>2. deployed[EthChain(q)] \subseteq deployed'[EthChain(q)]
    BY <1>2
  <2>. QED BY <1>1, <2>1, <2>2, HookKept DEF SameProc
<1>7. DiskTypes' /\ CacheFresh' /\ DebugFresh' /\ InfosFresh'
  BY <1>1, ObsoleteRemoved
<1>. QED BY <1>2, <1>4, <1>5, <1>6, <1>7 DEF IInv

-----------------------------------------------------------------------------
(* The invariant. *)

LEMMA CompileStepKeeps ==
  ASSUME IInv, NEW p \in Procs, CompileStep(p) PROVE IInv'
<1>1. Compile(p) /\ DoubtfulStep
  BY DEF CompileStep, DoubtfulStep
<1>2. ASSUME NEW v \in SolcVersions,
             RunResolc(p, v) \/ OpenBuildInfo(p, v) \/ CloseBuildInfo(p, v)
      PROVE  IInv'
  BY <1>1, <1>2, RunResolcStep, BuildInfoStep
<1>3. ASSUME NEW f \in Files, EmitArtifact(p, f) \/ EmitDebugFile(p, f)
      PROVE  IInv'
  BY <1>1, <1>3, EmitArtifactStep, EmitDebugFileStep
<1>4. CASE FailCompile(p) \/ SaveCache(p) \/ CompileOnly(p)
  BY <1>1, <1>4, FailCompileStep, SaveCacheStep, CompileOnlyStep
<1>. QED BY <1>1, <1>2, <1>3, <1>4 DEF Compile

\* The developer edits a source, or a command is rejected at once.
LEMMA OutsideStep ==
  ASSUME IInv,
         UNCHANGED <<diskVars, cmd, snap, todo, pc, jobVars, saved, hookVars>>,
         content' \in [Files -> Contents]
  PROVE  IInv'
<1>1. /\ UNCHANGED <<cache, artifact, debug, infos, tainted>>
      /\ UNCHANGED <<cmd, snap, todo, pc, job, ran, saved>>
      /\ UNCHANGED <<deployed, named, pending, missing, doubtful>>
  BY DEF diskVars, jobVars, hookVars
<1>2. \A q \in Procs : SameProc(q) /\ SameHook(q)
  BY <1>1 DEF SameProc, SameHook
<1>3. ProcTypes' /\ HookTypes'
  BY <1>1 DEF IInv, ProcTypes, HookTypes, SavedOf
<1>4. DiskTypes'
  BY <1>1 DEF IInv, DiskTypes, InfoType
<1>5. OneCompile'
  BY <1>1 DEF IInv, OneCompile, Compiling
<1>6. \A q \in Procs : Progress(q)' /\ HookFresh(q)'
  BY <1>1, <1>2, ProgressKept, HookKept DEF IInv
<1>. QED BY <1>3, <1>4, <1>5, <1>6, DiskKept DEF IInv

LEMMA InitInv == Init => IInv
<1>. SUFFICES ASSUME Init PROVE IInv
  OBVIOUS
<1>. USE DEF Init, PipelineInit
<1>1. /\ NoCommand \in Commands /\ Idle \in [SolcVersions -> JobLabels]
      /\ DOMAIN NotRun = SolcVersions
  BY CommandsAssumption DEF NoCommand, Idle, JobLabels, NotRun
<1>2. ProcTypes
  BY <1>1 DEF ProcTypes, SavedOf
<1>3. HookTypes
  BY DEF HookTypes
<1>4. DiskTypes
  <2>1. content \in [Files -> Contents]
    BY CommandsAssumption
  <2>2. infos \in Seq(ToSet(infos)) /\ DOMAIN infos = {}
    BY EmptySeq
  <2>. QED BY <2>1, <2>2 DEF DiskTypes, AtMostOne
<1>5. OneCompile
  BY DEF OneCompile, Compiling
<1>6. \A p \in Procs : Progress(p) /\ HookFresh(p)
  BY DEF Progress, HookFresh
<1>7. CacheFresh /\ DebugFresh
  BY DEF CacheFresh, DebugFresh
<1>8. InfosFresh
  <2>1. DOMAIN infos = {}
    BY EmptySeq
  <2>. QED BY <2>1 DEF InfosFresh
<1>. QED BY <1>2, <1>3, <1>4, <1>5, <1>6, <1>7, <1>8 DEF IInv

LEMMA StepInv == IInv /\ [Next]_vars => IInv'
<1>. SUFFICES ASSUME IInv, [Next]_vars PROVE IInv'
  OBVIOUS
<1>0. content \in [Files -> Contents]
  BY DEF IInv, DiskTypes
<1>1. ASSUME NEW p \in Procs, Step(p) PROVE IInv'
  <2>1. CASE CompileStep(p)
    BY <2>1, CompileStepKeeps
  <2>2. CASE TestAfterCompile(p) \/ ReadBuildInfo(p)
    BY <2>2, TestAfterCompileStep, ReadBuildInfoStep
  <2>3. CASE LookUp(p) \/ Upload(p)
    BY <2>3, LookUpStep, UploadStep
  <2>4. CASE UploadFails(p) \/ EndHook(p)
    BY <2>4, FinishStep DEF UploadFails, EndHook
  <2>. QED BY <1>1, <2>1, <2>2, <2>3, <2>4 DEF Step
<1>2. ASSUME NEW p \in Procs, DieAnywhere(p) PROVE IInv'
  BY <1>2, DieStep
<1>3. ASSUME NEW p \in Procs, NEW c \in Commands, Start(p, c) PROVE IInv'
  BY <1>3, StartCompileStep, TestWithoutCompileStep DEF Start
<1>4. ASSUME NEW c \in Commands, Reject(c) /\ UNCHANGED hookVars PROVE IInv'
  BY <1>0, <1>4, OutsideStep DEF Reject
<1>5. ASSUME NEW f \in Files, NEW c \in Contents,
             Edit(f, c) /\ UNCHANGED hookVars
      PROVE  IInv'
  <2>1. content' \in [Files -> Contents]
    BY <1>0, <1>5 DEF Edit
  <2>. QED BY <1>5, <2>1, OutsideStep DEF Edit, planVars
<1>6. CASE UNCHANGED vars
  <2>1. /\ content' = content
        /\ UNCHANGED <<diskVars, cmd, snap, todo, pc, jobVars, saved, hookVars>>
    BY <1>6 DEF vars, pipelineVars, userVars, planVars
  <2>. QED BY <1>0, <2>1, OutsideStep
<1>. QED BY <1>1, <1>2, <1>3, <1>4, <1>5, <1>6 DEF Next

\* Whatever the processes do, the account of the directory is kept.
THEOREM Invariant == Spec => []IInv
BY InitInv, StepInv, PTL DEF Spec

LEMMA AtMostOneIs ==
  ASSUME NEW S, AtMostOne(S)
  PROVE  Cardinality(S) <= 1
<1>1. CASE S = {}
  BY <1>1, FS_EmptySet
<1>2. CASE S # {}
  <2>1. PICK x : S = {x}
    BY <1>2 DEF AtMostOne
  <2>2. Cardinality({x}) = 1
    BY FS_Singleton
  <2>. QED BY <2>1, <2>2
<1>. QED BY <1>1, <1>2

\* Files hold what their kind of file holds, and no more than one of it; and
\* what a hook misses it has read in a build info.
THEOREM TypeCorrect == Spec => []TypeOK
<1>1. IInv => TypeOK
  <2>. SUFFICES ASSUME IInv PROVE TypeOK
    OBVIOUS
  <2>1. \A f \in Files :
          /\ Cardinality(cache[f]) <= 1 /\ Cardinality(artifact[f]) <= 1
          /\ Cardinality(debug[f]) <= 1
          /\ \A code \in artifact[f] : code.file = f
    BY AtMostOneIs DEF IInv, DiskTypes
  <2>2. /\ content \in [Files -> Contents] /\ tainted \subseteq Files
        /\ DOMAIN deployed = Chains /\ doubtful \in [Procs -> SUBSET Files]
    BY DEF IInv, DiskTypes, HookTypes
  <2>3. /\ pc \in [Procs -> {"idle", "jobs", "clean", "hook", "lookup", "upload"}]
        /\ job \in [Procs -> [SolcVersions -> JobLabels]]
    BY DEF IInv, ProcTypes
  <2>4. \A p \in Procs :
          /\ cmd[p] \in Commands
          /\ todo[p] \subseteq Files
          /\ saved[p] \subseteq todo[p] \X {"artifact", "debug"}
          /\ missing[p] \subseteq pending[p] /\ pending[p] \subseteq named[p]
    BY DEF IInv, ProcTypes, HookTypes, SavedOf
  <2>. QED BY <2>1, <2>2, <2>3, <2>4 DEF TypeOK
<1>. QED BY <1>1, Invariant, PTL

\* A file that a compile would skip is up to date: whatever compiles of other
\* files, with other configurations, failed, died or finished before.
THEOREM SkippedFresh == Spec => []SkippedIsFresh
<1>1. IInv => SkippedIsFresh
  <2>1. SUFFICES ASSUME IInv, NEW c \in Commands, NEW f \in Files \ tainted,
                        Imports[f] \subseteq Selected(c.user),
                        c.user.source # "npm", ~NeedsCompile(c.user, f)
                 PROVE  artifact[f] =
                          {Code(f, content,
                                Told(c.user, SolcVersion(c.user, f), 0))}
    BY DEF SkippedIsFresh
  <2>2. f \in Imports[f]
    BY ImportsAssumption
  <2>3. \A g \in Imports[f] : \E entry \in cache[g] :
          /\ entry.content = content[g]
          /\ g = f => entry.config = SolcConfig(c.user, f)
    BY <2>1 DEF NeedsCompile
  <2>4. PICK e \in cache[f] : e.config = SolcConfig(c.user, f)
    BY <2>2, <2>3
  <2>5. /\ SelectedBy(e.config) = Selected(c.user) /\ ~FromPackage(e)
        /\ Told(c.user, SolcVersion(c.user, f), 0) = ToldFor(e.config)
    <3>1. PICK config : config = e.config
      OBVIOUS
    <3>2. config = [version |-> SolcVersion(c.user, f),
                    settings |-> SolcSettings(c.user)]
      BY <2>4, <3>1 DEF SolcConfig
    <3>3. /\ SelectedBy(config) = Selected(c.user)
          /\ ~ \E r \in config.settings.resolc : r.source = "npm"
          /\ Told(c.user, SolcVersion(c.user, f), 0) = ToldFor(config)
      BY <2>1, <3>2, ConfigFacts
    <3>. QED BY <3>1, <3>3 DEF FromPackage
  <2>6. content \in [Files -> Contents] /\ CacheFresh
    BY <2>1 DEF IInv, DiskTypes
  <2>. QED BY <2>1, <2>3, <2>5, <2>6 DEF CacheFresh
<1>. QED BY <1>1, Invariant, PTL

\* A build info that is not whole is being written, or its writer died at it.
TornNamed ==
  \A k \in DOMAIN infos :
    \/ infos[k].whole \/ infos[k].input \in cut
    \/ \E p \in Procs : infos[k].input \in HalfWritten(p)

\* A step of p, which accounts for the new build infos that are not whole and
\* for the old ones that p wrote or that are cut.
LEMMA TornKept ==
  ASSUME TornNamed, NEW p \in Procs, \A q \in Procs \ {p} : SameProc(q),
         \A k \in DOMAIN infos' :
           \/ infos'[k].whole \/ infos'[k].input \in HalfWritten(p)'
           \/ \E l \in DOMAIN infos :
                /\ infos'[k] = infos[l]
                /\ infos[l].input \in cut \cup HalfWritten(p)
                     => infos[l].input \in cut' \cup HalfWritten(p)'
  PROVE  TornNamed'
<1>1. ASSUME NEW q \in Procs \ {p} PROVE HalfWritten(q)' = HalfWritten(q)
  <2>1. \A v : Input(q, v)' = Input(q, v)
    BY SameJob DEF SameProc
  <2>2. pc'[q] = pc[q] /\ job'[q] = job[q]
    BY DEF SameProc
  <2>. QED BY <2>1, <2>2 DEF HalfWritten
<1>. SUFFICES ASSUME NEW k \in DOMAIN infos',
                     ~infos'[k].whole, infos'[k].input \notin HalfWritten(p)'
              PROVE  \/ infos'[k].input \in cut'
                     \/ \E q \in Procs : infos'[k].input \in HalfWritten(q)'
  BY DEF TornNamed
<1>2. PICK l \in DOMAIN infos :
        /\ infos'[k] = infos[l]
        /\ infos[l].input \in cut \cup HalfWritten(p)
             => infos[l].input \in cut' \cup HalfWritten(p)'
  OBVIOUS
<1>3. CASE infos[l].input \in cut \cup HalfWritten(p)
  BY <1>2, <1>3
<1>4. CASE infos[l].input \notin cut \cup HalfWritten(p)
  <2>1. PICK q \in Procs \ {p} : infos[l].input \in HalfWritten(q)
    BY <1>2, <1>4 DEF TornNamed
  <2>. QED BY <1>1, <1>2, <2>1
<1>. QED BY <1>3, <1>4

\* A step of p that opens and closes no build info.
LEMMA NoneOpened ==
  ASSUME TornNamed, NEW p \in Procs, \A q \in Procs \ {p} : SameProc(q),
         \A k \in DOMAIN infos' : \E l \in DOMAIN infos : infos'[k] = infos[l],
         cut \subseteq cut', HalfWritten(p) \subseteq cut' \cup HalfWritten(p)'
  PROVE  TornNamed'
<1>1. ASSUME NEW k \in DOMAIN infos'
      PROVE  \E l \in DOMAIN infos :
               /\ infos'[k] = infos[l]
               /\ infos[l].input \in cut \cup HalfWritten(p)
                    => infos[l].input \in cut' \cup HalfWritten(p)'
  OBVIOUS
<1>. QED BY <1>1, TornKept

\* A process that does not write leaves nothing half-way.
LEMMA NothingHalf ==
  ASSUME NEW p,
         pc[p] = "jobs" => \A v \in SolcVersions : job[p][v] # "writing"
  PROVE  HalfWritten(p) = {}
BY DEF HalfWritten

\* The piecewise writing of a build info.
LEMMA TornWhileWriting ==
  ASSUME IInv, TornNamed, NEW p \in Procs, NEW v \in SolcVersions,
         OpenBuildInfo(p, v) \/ CloseBuildInfo(p, v)
  PROVE  TornNamed'
<1>. DEFINE I == Input(p, v)
<1>1. PICK from \in {"info", "writing"}, to \in {"writing", "emit"},
           whole \in BOOLEAN :
        /\ Advance(p, v, from, to) /\ infos' = NewestInfo(p, v, whole)
        /\ \/ to = "writing" /\ ~whole /\ cut' = cut
           \/ to = "emit" /\ whole /\ cut' = cut \ {I}
  BY DEF OpenBuildInfo, CloseBuildInfo
<1>2. UNCHANGED <<planVars, pc, ran, saved>>
  BY DEF OpenBuildInfo, CloseBuildInfo
<1>3. /\ \A q \in Procs \ {p} : SameProc(q)
      /\ pc[p] = "jobs" /\ pc'[p] = "jobs" /\ job'[p][v] = to
      /\ \A w \in SolcVersions \ {v} : job'[p][w] = job[p][w]
  <2>1. to \in JobLabels
    BY DEF JobLabels
  <2>. QED BY <1>1, <1>2, <2>1, AdvanceFacts DEF IInv
<1>4. \A w : Input(p, w)' = Input(p, w)
  BY <1>2, SameJob DEF planVars
<1>5. /\ HalfWritten(p) \ {I} \subseteq HalfWritten(p)'
      /\ to = "writing" => I \in HalfWritten(p)'
  <2>1. HalfWritten(p) = {Input(p, w) : w \in {x \in SolcVersions : job[p][x] = "writing"}}
    BY <1>3 DEF HalfWritten
  <2>2. HalfWritten(p)' = {Input(p, w) : w \in {x \in SolcVersions : job'[p][x] = "writing"}}
    BY <1>3, <1>4 DEF HalfWritten
  <2>. QED BY <1>3, <2>1, <2>2
<1>6. PICK S, n : S = Others(Input(p, v)) /\ n = Cardinality(S)
  OBVIOUS
<1>7. /\ n \in Nat /\ DOMAIN infos' = 1 .. n + 1
      /\ infos'[n + 1] = [input |-> I, told |-> ran[p][v],
                          own |-> Own(p, v), whole |-> whole]
      /\ \A k \in 1 .. n : Nth(S, k) \in S /\ infos'[k] = infos[Nth(S, k)]
  <2>1. DiskTypes
    BY DEF IInv
  <2>. QED BY <1>1, <1>6, <2>1, NewestFacts
<1>8. ASSUME NEW k \in DOMAIN infos'
      PROVE  \/ infos'[k].whole \/ infos'[k].input \in HalfWritten(p)'
             \/ \E l \in DOMAIN infos :
                  /\ infos'[k] = infos[l]
                  /\ infos[l].input \in cut \cup HalfWritten(p)
                       => infos[l].input \in cut' \cup HalfWritten(p)'
  <2>1. CASE k = n + 1
    <3>1. infos'[k].whole = whole /\ infos'[k].input = I
      BY <1>7, <2>1
    <3>. HIDE DEF I
    <3>. QED BY <1>1, <1>5, <3>1
  <2>2. CASE k # n + 1
    <3>1. k \in 1 .. n
      BY <1>7, <1>8, <2>2
    <3>2. PICK l \in DOMAIN infos : infos'[k] = infos[l] /\ infos[l].input # I
      BY <1>6, <1>7, <3>1 DEF Others
    <3>. HIDE DEF I
    <3>. QED BY <1>1, <1>5, <3>2
  <2>. QED BY <2>1, <2>2
<1>. QED BY <1>3, <1>8, TornKept

LEMMA TornStepOf ==
  ASSUME IInv, TornNamed, NEW p \in Procs, Step(p) \/ DieAnywhere(p)
  PROVE  TornNamed'
<1>0. ProcTypes /\ DiskTypes /\ HookTypes
  BY DEF IInv
<1>1. ASSUME NEW v \in SolcVersions, OpenBuildInfo(p, v) \/ CloseBuildInfo(p, v)
      PROVE  TornNamed'
  BY <1>1, TornWhileWriting
<1>2. ASSUME NEW v \in SolcVersions, RunResolc(p, v) PROVE TornNamed'
  <2>1. PICK to \in {"info", "failed"} : Advance(p, v, "run", to)
    BY <1>2 DEF RunResolc, CompileResults
  <2>2. UNCHANGED <<infos, cut, cmd, snap, todo, pc, saved>>
    BY <1>2 DEF RunResolc, diskVars, planVars
  <2>3. PICK told : ran' = [ran EXCEPT ![p][v] = told]
    BY <1>2 DEF RunResolc
  <2>4. /\ \A q \in Procs \ {p} : SameProc(q)
        /\ job[p][v] = "run"
        /\ \A w \in SolcVersions \ {v} : job'[p][w] = job[p][w]
    BY <1>0, <2>1, <2>2, <2>3 DEF Advance, SameProc, ProcTypes
  <2>5. \A w : Input(p, w)' = Input(p, w)
    BY <2>2, SameJob
  <2>6. HalfWritten(p) \subseteq HalfWritten(p)'
    BY <2>2, <2>4, <2>5 DEF HalfWritten
  <2>. QED BY <2>2, <2>4, <2>6, NoneOpened
<1>3. ASSUME NEW f \in Files, EmitArtifact(p, f) \/ EmitDebugFile(p, f)
      PROVE  TornNamed'
  <2>1. UNCHANGED <<infos, cut, cmd, snap, todo, pc, job, ran>>
    BY <1>3 DEF EmitArtifact, EmitDebugFile, planVars, jobVars
  <2>2. \A q \in Procs \ {p} : SameProc(q)
    BY <1>0, <1>3, <2>1 DEF EmitArtifact, EmitDebugFile, SameProc, ProcTypes
  <2>3. \A w : Input(p, w)' = Input(p, w)
    BY <2>1, SameJob
  <2>4. HalfWritten(p)' = HalfWritten(p)
    BY <2>1, <2>3 DEF HalfWritten
  <2>. QED BY <2>1, <2>2, <2>4, NoneOpened
<1>4. ASSUME AllSettled(p) \/ pc[p] # "jobs", cut' = cut, infos' = infos,
             \A q \in Procs \ {p} : SameProc(q)
      PROVE  TornNamed'
  <2>1. HalfWritten(p) = {}
    BY <1>4, NothingHalf DEF AllSettled, JobSettled
  <2>. QED BY <1>4, <2>1, NoneOpened
<1>5. CASE FailCompile(p)
  <2>1. \A q \in Procs \ {p} : SameProc(q)
    BY <1>0, <1>5, EndFacts DEF FailCompile
  <2>. QED BY <1>4, <1>5, <2>1 DEF FailCompile, diskVars
<1>6. CASE SaveCache(p)
  <2>1. \A q \in Procs \ {p} : SameProc(q)
    BY <1>0, <1>6 DEF SaveCache, SameProc, ProcTypes, planVars, jobVars
  <2>. QED BY <1>4, <1>6, <2>1 DEF SaveCache, MaySaveCache
<1>7. ASSUME RemoveObsolete(p), \A q \in Procs \ {p} : SameProc(q)
      PROVE  TornNamed'
  <2>1. HalfWritten(p) = {} /\ cut' = cut
    BY <1>7, NothingHalf DEF RemoveObsolete
  <2>2. \A k \in DOMAIN infos' : \E l \in DOMAIN infos : infos'[k] = infos[l]
    BY <1>7, ObsoleteRemoved
  <2>. QED BY <1>7, <2>1, <2>2, NoneOpened
<1>8. CASE CompileOnly(p)
  BY <1>0, <1>7, <1>8, EndFacts DEF CompileOnly
<1>9. CASE TestAfterCompile(p)
  <2>1. \A q \in Procs \ {p} : SameProc(q)
    <3>1. CASE Finish(p)
      BY <1>0, <3>1, EndFacts DEF Finish
    <3>2. CASE EnterHook(p) /\ UNCHANGED <<planVars, jobVars, saved>>
      BY <1>0, <3>2 DEF EnterHook, SameProc, ProcTypes, planVars, jobVars
    <3>. QED BY <1>9, <3>1, <3>2 DEF TestAfterCompile
  <2>. QED BY <1>7, <1>9, <2>1 DEF TestAfterCompile
<1>10. CASE ReadBuildInfo(p) \/ LookUp(p) \/ Upload(p) \/ UploadFails(p) \/ EndHook(p)
  <2>1. pc[p] # "jobs" /\ cut' = cut /\ infos' = infos
    BY <1>10
       DEF ReadBuildInfo, LookUp, Upload, UploadFails, EndHook, HookDone, diskVars
  <2>2. \A q \in Procs \ {p} : SameProc(q)
    <3>1. CASE Finish(p)
      BY <1>0, <3>1, EndFacts DEF Finish
    <3>2. CASE ReadBuildInfo(p) /\ ~Finish(p)
      BY <1>0, <3>2 DEF ReadBuildInfo, SameProc, ProcTypes, planVars, jobVars
    <3>3. CASE LookUp(p) \/ Upload(p)
      BY <1>0, <3>3 DEF LookUp, Upload, SameProc, ProcTypes, planVars, jobVars
    <3>. QED BY <1>10, <3>1, <3>2, <3>3 DEF UploadFails, EndHook
  <2>. QED BY <1>4, <2>1, <2>2
<1>11. CASE DieAnywhere(p)
  <2>1. \A q \in Procs \ {p} : SameProc(q)
    BY <1>0, <1>11, EndFacts DEF DieAnywhere, Die
  <2>2. infos' = infos /\ cut' = cut \cup HalfWritten(p)
    BY <1>11 DEF DieAnywhere, Die, diskVars
  <2>. QED BY <2>1, <2>2, NoneOpened
<1>12. CASE CompileStep(p)
  BY <1>1, <1>2, <1>3, <1>5, <1>6, <1>8, <1>12 DEF CompileStep, Compile
<1>. QED BY <1>9, <1>10, <1>11, <1>12 DEF Step

LEMMA TornStep == IInv /\ TornNamed /\ [Next]_vars => TornNamed'
<1>. SUFFICES ASSUME IInv, TornNamed, [Next]_vars PROVE TornNamed'
  OBVIOUS
<1>0. ProcTypes /\ DiskTypes
  BY DEF IInv
<1>1. ASSUME NEW p \in Procs, Step(p) \/ DieAnywhere(p) PROVE TornNamed'
  BY <1>1, TornStepOf
<1>2. ASSUME NEW p \in Procs, NEW c \in Commands, Start(p, c) PROVE TornNamed'
  <2>1. pc[p] = "idle" /\ UNCHANGED <<infos, cut>>
    BY <1>2 DEF Start, StartCompile, TestWithoutCompile, diskVars
  <2>2. HalfWritten(p) = {}
    BY <2>1, NothingHalf
  <2>3. \A q \in Procs \ {p} : SameProc(q)
    <3>1. CASE StartCompile(p, c)
      BY <1>0, <3>1 DEF StartCompile, SameProc, ProcTypes
    <3>2. CASE TestWithoutCompile(p, c)
      BY <1>0, <3>2 DEF TestWithoutCompile, EnterHook, SameProc, ProcTypes, jobVars
    <3>. QED BY <1>2, <3>1, <3>2 DEF Start
  <2>. QED BY <2>1, <2>2, <2>3, NoneOpened
<1>3. CASE UNCHANGED <<infos, cut, cmd, snap, todo, pc, job>>
  <2>1. ASSUME NEW q \in Procs PROVE HalfWritten(q)' = HalfWritten(q)
    <3>1. \A v : Input(q, v)' = Input(q, v)
      BY <1>3, SameJob
    <3>. QED BY <1>3, <3>1 DEF HalfWritten
  <2>. QED BY <1>3, <2>1 DEF TornNamed
<1>4. ASSUME NEW c \in Commands, Reject(c) PROVE TornNamed'
  BY <1>3, <1>4 DEF Reject, diskVars, jobVars
<1>5. ASSUME NEW f \in Files, NEW c \in Contents, Edit(f, c) PROVE TornNamed'
  BY <1>3, <1>5 DEF Edit, diskVars, planVars, jobVars
<1>6. CASE UNCHANGED vars
  BY <1>3, <1>6 DEF vars, pipelineVars, diskVars, planVars, jobVars
<1>. QED BY <1>1, <1>2, <1>4, <1>5, <1>6 DEF Next

LEMMA TornAccounted == Spec => []TornNamed
<1>1. Init => TornNamed
  BY EmptySeq DEF Init, PipelineInit, TornNamed
<1>. QED BY <1>1, TornStep, Invariant, PTL DEF Spec

\* The build info of an artifact is there, and is of the compile that wrote
\* it, whatever removed older build infos in between; and unless it is being
\* written or its writer died at it, it is whole.
THEOREM BuildInfoThere == Spec => []ArtifactsHaveBuildInfo
<1>1. IInv /\ TornNamed => ArtifactsHaveBuildInfo
  <2>1. SUFFICES ASSUME IInv, TornNamed, NEW f \in Files, NEW input \in debug[f]
                 PROVE  \E i \in ToSet(infos) :
                          /\ i.input = input
                          /\ \/ i.whole \/ input \in cut
                             \/ \E p \in Procs : input \in HalfWritten(p)
                          /\ f \notin tainted /\ ~FromPackage(input)
                             => artifact[f] = {Code(f, input.sources, i.told)}
    BY DEF ArtifactsHaveBuildInfo
  <2>2. PICK k \in DOMAIN infos : infos[k].input = input
    BY <2>1 DEF IInv, DebugFresh
  <2>3. ~FromPackage(input) => infos[k].told = ToldFor(input.config)
    BY <2>1, <2>2 DEF IInv, InfosFresh
  <2>4. f \notin tainted /\ ~FromPackage(input) =>
          artifact[f] = {Code(f, input.sources, ToldFor(input.config))}
    BY <2>1 DEF IInv, DebugFresh
  <2>5. infos[k] \in ToSet(infos)
    BY DEF ToSet
  <2>6. \/ infos[k].whole \/ infos[k].input \in cut
        \/ \E p \in Procs : infos[k].input \in HalfWritten(p)
    BY <2>1 DEF TornNamed
  <2>. QED BY <2>2, <2>3, <2>4, <2>5, <2>6
<1>. QED BY <1>1, Invariant, TornAccounted, PTL

\* What the hook uploads for a name in the newest build info is the code that
\* has this name.
THEOREM NamedCodeUploaded == Spec => []UploadsNamedCode
<1>1. IInv => UploadsNamedCode
  BY DEF IInv, HookTypes, HookFresh, UploadsNamedCode
<1>. QED BY <1>1, Invariant, PTL

\* After the hook the contracts the newest build info names are on the chain
\* of the tests, whoever uploaded them.
THEOREM NewestInfoUploaded == Spec => []HookUploadsNewestInfo
<1>1. IInv => HookUploadsNewestInfo
  <2>1. SUFFICES ASSUME IInv, NEW p \in Procs, pending[p] = {},
                        SubstrateChain(p) = {EthChain(p)}, NEW d \in named[p],
                        d.file \notin doubtful[p]
                 PROVE  d \in deployed[EthChain(p)]
    BY DEF HookUploadsNewestInfo, HookDone
  <2>. QED BY <2>1 DEF IInv, HookFresh
<1>. QED BY <1>1, Invariant, PTL
==============================================================================
