---------------------------- MODULE ResolcConfig ----------------------------
(***************************************************************************)
(* The configuration of the compilers: from what the user wrote to what    *)
(* Hardhat records of a compilation (and compares to decide whether a file *)
(* has to be compiled again) and to what the compiler is really told.      *)
(*                                                                         *)
(* A user configuration u is a record: target, the polkadot field of the   *)
(* selected network ("none", "evm", "pvm"); compilers and overrides of     *)
(* solidity; and of resolc: source, version, optimizer (a function with    *)
(* the fields that are set), binary (what --version of resolcPath prints,  *)
(* "unset" without a path), solcPath, basePath, allowPaths, contracts      *)
(* (contractsToCompile).  A version of solc is 100 * minor + patch.        *)
(***************************************************************************)
EXTENDS Naturals, FiniteSets, TLC

CONSTANTS
  Files,    \* source files, each with one contract
  Imports,  \* Imports[f]: the files f needs, transitively, with f
  Pragma    \* Pragma[f]: the versions of solc that f accepts

ASSUME ImportsAssumption ==
  /\ Imports \in [Files -> SUBSET Files]
  /\ \A f \in Files : f \in Imports[f]
  /\ \A f \in Files : \A g \in Imports[f] : Imports[g] \subseteq Imports[f]

DefaultVersion == "0.6.0"

Latest(versions) == CHOOSE v \in versions : \A w \in versions : w <= v

\* The compiler Hardhat picks for a file: its override, or the latest one that
\* the file and all it imports accept.
SolcVersion(u, f) ==
  IF f \in DOMAIN u.overrides THEN u.overrides[f]
  ELSE Latest({v \in u.compilers : \A g \in Imports[f] : v \in Pragma[g]})

-----------------------------------------------------------------------------
(* extendConfig and extendEnvironment. *)

\* defaultNpmResolcConfig and defaultBinaryResolcConfig.
DefaultOptimizer(u) ==
  IF u.source = "npm" THEN <<>> ELSE [enabled |-> TRUE, runs |-> 200]

\* getResolcVersionFromBinary: none from a binary that does not run or that
\* prints nothing like a version.  Only x.y.z is taken of what is printed, not
\* the commit: here a binary is known by it, and is never replaced in place by
\* another one of the same version.
VersionFromBinary(binary) == {binary} \ {"unset", "unreadable"}

ConfiguredVersion(u) ==
  IF u.version = "unset" THEN DefaultVersion ELSE u.version

ResolcVersion(u) ==
  LET detected == VersionFromBinary(u.binary)
  IN IF detected = {} THEN ConfiguredVersion(u) ELSE CHOOSE v \in detected : TRUE

\* config.resolc after extendConfig: user settings over the defaults.
Resolc(u) ==
  [source    |-> IF u.source = "unset" THEN "binary" ELSE u.source,
   version   |-> ResolcVersion(u),
   optimizer |-> u.optimizer @@ DefaultOptimizer(u),
   solcPath  |-> u.solcPath,
   contracts |-> u.contracts]

IsSet(optimizer) == "enabled" \in DOMAIN optimizer

Enabled(optimizer) == IsSet(optimizer) /\ optimizer.enabled

\* updateDefaultCompilerConfig: the optimizer written to the solc settings.
RecordedOptimizer(optimizer) ==
  IF Enabled(optimizer) THEN optimizer ELSE [enabled |-> FALSE, runs |-> 200]

\* Mutant: the settings of resolc are not recorded.
SettingsWithoutResolc(u) ==
  [optimizer |-> RecordedOptimizer(<<>>), resolc |-> {}]

\* What is left alone for target "evm" and networks without polkadot.
SolcSettings(u) ==
  IF u.target = "pvm"
  THEN [optimizer |-> RecordedOptimizer(Resolc(u).optimizer),
        resolc    |-> {Resolc(u)}]
  ELSE [optimizer |-> RecordedOptimizer(<<>>), resolc |-> {}]

\* The configuration of the compilation job of f, as Hardhat caches it.
SolcConfig(u, f) == [version |-> SolcVersion(u, f), settings |-> SolcSettings(u)]

AllVersions(u) == u.compilers \cup {u.overrides[f] : f \in DOMAIN u.overrides}

TooOld(version) == version \div 100 < 7

UsesPackage(u) == u.target = "pvm" /\ u.source = "npm"

ManyForPackage(u) ==
  /\ UsesPackage(u)
  /\ Cardinality(u.compilers) > 1 \/ Cardinality(DOMAIN u.overrides) > 1

\* The errors of extendEnvironment, before any task runs.
EnvironmentRejects(u) ==
  \/ ManyForPackage(u)
  \/ u.target = "pvm" /\ \E v \in AllVersions(u) : TooOld(v)

\* Versions of solc that are installed although another one, of a compiler or
\* an override, is too old or cannot be installed.
InstalledBeforeError(u) ==
  IF UsesPackage(u) /\ ~ManyForPackage(u)
  THEN {v \in AllVersions(u) : ~TooOld(v) /\ AllVersions(u) # {v}}
  ELSE {}

\* updateSolc for the compiler and then for the override: node_modules/solc
\* after them.  The second call reads the package.json that the first call
\* left in the cache of require.
InstalledSolc(u, before) ==
  IF ~UsesPackage(u) THEN before
  ELSE LET first == Latest(u.compilers)
           overriding == AllVersions(u) \ u.compilers
           seen == IF before = 0 THEN first ELSE before
       IN IF overriding \subseteq {seen} THEN first ELSE Latest(overriding)

-----------------------------------------------------------------------------
(* What the compiler is told. *)

\* The optimizer field of the input of resolc; none leaves it to resolc.
ToldOptimizer(optimizer) ==
  IF ~IsSet(optimizer) THEN {}
  ELSE IF optimizer.enabled THEN {optimizer} ELSE {[enabled |-> FALSE]}

\* compile() knows two sources only.
SourceRejected(u) == Resolc(u).source \notin {"binary", "npm"}

\* extractCommands refuses allowPaths without basePath; the package takes no
\* command line.
CommandsRejected(u) ==
  Resolc(u).source = "binary" /\ u.allowPaths /\ ~u.basePath

CompilerRejects(u) == u.target = "pvm" /\ (SourceRejected(u) \/ CommandsRejected(u))

\* RUN_RESOLC: the solc of the job, unless the user's settings have a path to
\* another one.
ToldByBinary(u, version) ==
  [resolc    |-> {ResolcVersion(u)},
   solc      |-> IF u.solcPath # 0 THEN u.solcPath ELSE version,
   optimizer |-> ToldOptimizer(Resolc(u).optimizer)]

\* The package takes the solc of node_modules.
ToldByNpm(u, installed) ==
  [resolc    |-> {"package"},
   solc      |-> installed,
   optimizer |-> ToldOptimizer(Resolc(u).optimizer)]

\* COMPILE_SOLC: Hardhat's own solc for other targets.
Told(u, version, installed) ==
  CASE u.target # "pvm" -> [resolc |-> {}, solc |-> version, optimizer |-> {}]
    [] UsesPackage(u) -> ToldByNpm(u, installed)
    [] OTHER -> ToldByBinary(u, version)

\* GET_SOURCE_NAMES.
Selected(u) ==
  IF u.target # "pvm" \/ u.contracts = {} THEN Files ELSE u.contracts
=============================================================================
