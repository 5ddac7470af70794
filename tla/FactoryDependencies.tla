------------------------- MODULE FactoryDependencies -------------------------
(***************************************************************************)
(* hardhat test on a polkadot network: after the compile, the hook         *)
(* handleFactoryDependencies looks into the newest build info for          *)
(* contracts that create other contracts, and uploads the code of these    *)
(* children, from their artifacts, to the chain the tests run on.          *)
(*                                                                         *)
(* The directory is shared with CompilePipeline: another process may       *)
(* compile while the hook runs.  Chains are external: the node that the    *)
(* session of process p starts ("own", fresh for every command), a node    *)
(* the developer keeps on the default ports, and a public one.             *)
(***************************************************************************)
EXTENDS CompilePipeline

CONSTANTS
  Creates,  \* Creates[f]: the files whose contracts the one of f creates
  DevNode   \* is there a node of the developer's on port 9944?

ASSUME CreatesAssumption ==
  /\ Creates \in [Files -> SUBSET Files]
  /\ \A f \in Files : Creates[f] \subseteq Imports[f] \ {f}

ASSUME DevNodeAssumption == DevNode \in BOOLEAN

ASSUME NetworksAssumption ==
  \A c \in Commands : c.network \in {"hardhat", "localhost", "hub"}

VARIABLES
  deployed,    \* deployed[c]: the code uploaded to chain c
  named,       \* the dependencies the hook of p found in the build info
  pending,     \* those of them it has not dealt with
  missing,     \* the one it looked up in vain
  doubtful     \* files whose artifact is not bound to be what it read of them

hookVars == <<deployed, named, pending, missing, doubtful>>
vars == <<pipelineVars, hookVars>>

Chains == (Procs \X {"own"}) \cup {<<"dev">>, <<"hub">>}

\* Where transactions go: the url of the network.
EthChain(p) ==
  CASE cmd[p].network = "hardhat" -> <<p, "own">>
    [] cmd[p].network = "localhost" -> <<"dev">>
    [] cmd[p].network = "hub" -> <<"hub">>

\* Where code is looked up: getPolkadotRpcUrl.  useAnvil is a switch of the
\* hardhat network whatever network is selected, and stands for port 9944,
\* which is the developer's node if there is one; without it the session's own
\* node is known by its port.  An empty set is the error.
SubstrateChain(p) ==
  LET own == cmd[p].network = "hardhat"
  IN CASE cmd[p].useAnvil -> IF own /\ ~DevNode THEN {EthChain(p)} ELSE {<<"dev">>}
       [] ~cmd[p].useAnvil /\ own -> {EthChain(p)}
       [] OTHER -> IF cmd[p].polkadotUrl THEN {EthChain(p)} ELSE {}

\* getPrivateKey of the accounts, and the URL.
CanConnect(p) == cmd[p].accounts /\ SubstrateChain(p) # {}

\* A web socket to a port without a node is tried for ever.
Answers(p) == SubstrateChain(p) # {<<"dev">>} \/ DevNode

\* factoryDependencies of all contracts in the output of a build info.
DependenciesIn(i) ==
  IF i.input.config.settings.resolc = {} THEN {}
  ELSE {Code(c, i.input.sources, i.told) :
          c \in UNION {Creates[f] : f \in DOMAIN i.input.sources}}

NewestIsBroken == infos # <<>> /\ ~Last(infos).whole

Dependencies == IF infos = <<>> THEN {} ELSE DependenciesIn(Last(infos))

\* Files whose artifact need not be what the newest build info says.
Doubted ==
  IF infos = <<>> \/ FromPackage(Last(infos).input) THEN Files
  ELSE tainted \cup (Files \ Last(infos).own)

Finish(p) ==
  /\ End(p)
  /\ named' = [named EXCEPT ![p] = {}]
  /\ pending' = [pending EXCEPT ![p] = {}]
  /\ missing' = [missing EXCEPT ![p] = {}]
  /\ doubtful' = [doubtful EXCEPT ![p] = {}]

-----------------------------------------------------------------------------

\* The session is up (NodeSession) and the hook begins: on a fresh chain for
\* the hardhat network.
EnterHook(p) ==
  /\ pc' = [pc EXCEPT ![p] = "hook"]
  /\ deployed' = [deployed EXCEPT ![<<p, "own">>] = {}]
  /\ UNCHANGED <<named, pending, missing, doubtful>>

TestAfterCompile(p) ==
  /\ RemoveObsolete(p)
  /\ cmd[p].task = "test"
  /\ IF cmd[p].user.target = "none" THEN Finish(p) /\ UNCHANGED deployed
     ELSE EnterHook(p) /\ UNCHANGED <<planVars, jobVars, saved>>

TestWithoutCompile(p, c) ==
  /\ pc[p] = "idle" /\ c.task = "test" /\ c.noCompile
  /\ Command
  /\ ~EnvironmentRejects(c.user)
  /\ c.user.target # "none"
  /\ cmd' = [cmd EXCEPT ![p] = c]
  /\ package' = InstalledSolc(c.user, package)
  /\ EnterHook(p)
  /\ UNCHANGED <<content, diskVars, cut, snap, todo, jobVars, saved>>

\* With nothing to upload no client is created.
ReadBuildInfo(p) ==
  /\ pc[p] = "hook"
  /\ \/ NewestIsBroken /\ Finish(p)
     \/ ~NewestIsBroken /\ Dependencies # {} /\ ~CanConnect(p) /\ Finish(p)
     \/ /\ ~NewestIsBroken /\ (Dependencies # {} => CanConnect(p))
        /\ named' = [named EXCEPT ![p] = Dependencies]
        /\ pending' = [pending EXCEPT ![p] = Dependencies]
        /\ doubtful' = [doubtful EXCEPT ![p] = Doubted]
        /\ pc' = [pc EXCEPT ![p] = "lookup"]
        /\ UNCHANGED <<missing, planVars, jobVars, saved>>
  /\ UNCHANGED <<userVars, diskVars, cut, deployed>>

LookUp(p) ==
  /\ pc[p] = "lookup" /\ Answers(p)
  /\ \E d \in pending[p] :
       IF \E chain \in SubstrateChain(p) : d \in deployed[chain]
       THEN /\ pending' = [pending EXCEPT ![p] = @ \ {d}]
            /\ UNCHANGED <<pc, missing>>
       ELSE /\ missing' = [missing EXCEPT ![p] = {d}]
            /\ pc' = [pc EXCEPT ![p] = "upload"]
            /\ UNCHANGED pending
  /\ UNCHANGED <<userVars, diskVars, cut, planVars, jobVars, saved, deployed,
                 named, doubtful>>

\* The artifact named by the dependency is read and its code uploaded; there
\* may be none, and the transaction may fail.
Upload(p) ==
  /\ pc[p] = "upload"
  /\ \E d \in missing[p] :
       /\ artifact[d.file] # {}
       /\ deployed' = [deployed EXCEPT ![EthChain(p)] = @ \cup artifact[d.file]]
       /\ pending' = [pending EXCEPT ![p] = @ \ {d}]
  /\ missing' = [missing EXCEPT ![p] = {}]
  /\ pc' = [pc EXCEPT ![p] = "lookup"]
  /\ UNCHANGED <<userVars, diskVars, cut, planVars, jobVars, saved, named,
                 doubtful>>

UploadFails(p) ==
  /\ pc[p] = "upload"
  /\ Finish(p)
  /\ UNCHANGED <<userVars, diskVars, cut, deployed>>

\* Mutant: the tests do not wait for the uploads.
HookLeft(p) == pc[p] = "lookup"

HookDone(p) == pc[p] = "lookup" /\ pending[p] = {}

\* The tests run, and the session stops.
EndHook(p) ==
  /\ HookDone(p)
  /\ Finish(p)
  /\ UNCHANGED <<userVars, diskVars, cut, deployed>>

-----------------------------------------------------------------------------

InHook(p) == pc[p] \in {"hook", "lookup", "upload"}

\* A step of the compile of p, seen by the hooks of the other processes.
CompileStep(p) ==
  /\ Compile(p)
  /\ doubtful' = IF artifact' = artifact THEN doubtful
                 ELSE [q \in Procs |-> IF InHook(q) THEN Files ELSE {}]
  /\ UNCHANGED <<deployed, named, pending, missing>>

DieAnywhere(p) ==
  /\ Die(p)
  /\ named' = [named EXCEPT ![p] = {}]
  /\ pending' = [pending EXCEPT ![p] = {}]
  /\ missing' = [missing EXCEPT ![p] = {}]
  /\ doubtful' = [doubtful EXCEPT ![p] = {}]
  /\ UNCHANGED deployed

Step(p) ==
  \/ CompileStep(p)
  \/ TestAfterCompile(p) \/ ReadBuildInfo(p)
  \/ LookUp(p) \/ Upload(p) \/ UploadFails(p) \/ EndHook(p)

Start(p, c) ==
  \/ StartCompile(p, c) /\ UNCHANGED hookVars
  \/ TestWithoutCompile(p, c)

Init ==
  /\ PipelineInit
  /\ deployed = [c \in Chains |-> {}]
  /\ named = [p \in Procs |-> {}]
  /\ pending = [p \in Procs |-> {}]
  /\ missing = [p \in Procs |-> {}]
  /\ doubtful = [p \in Procs |-> {}]

Next ==
  \/ \E p \in Procs :
       Step(p) \/ DieAnywhere(p) \/ \E c \in Commands : Start(p, c)
  \/ \E c \in Commands : Reject(c) /\ UNCHANGED hookVars
  \/ \E f \in Files, c \in Contents : Edit(f, c) /\ UNCHANGED hookVars

Spec == Init /\ [][Next]_vars

\* A process goes on, its children close and requests are answered.
FairSpec == Spec /\ \A p \in Procs : WF_vars(Step(p))

-----------------------------------------------------------------------------
(* Properties. *)

TypeOK ==
  /\ content \in [Files -> Contents]
  /\ \A f \in Files :
       /\ Cardinality(cache[f]) <= 1 /\ Cardinality(artifact[f]) <= 1
       /\ Cardinality(debug[f]) <= 1
       /\ \A code \in artifact[f] : code.file = f
  /\ pc \in [Procs -> {"idle", "jobs", "clean", "hook", "lookup", "upload"}]
  /\ job \in [Procs -> [SolcVersions -> JobLabels]]
  /\ \A p \in Procs :
       /\ cmd[p] \in Commands
       /\ todo[p] \subseteq Files
       /\ saved[p] \subseteq todo[p] \X {"artifact", "debug"}
       /\ missing[p] \subseteq pending[p] /\ pending[p] \subseteq named[p]
  /\ tainted \subseteq Files /\ doubtful \in [Procs -> SUBSET Files]
  /\ DOMAIN deployed = Chains

\* What the hook is about to upload for a hash of the build info is the code
\* with that hash, though it is read from an artifact written elsewhere and
\* possibly much earlier; unless another process emits artifacts meanwhile, an
\* earlier compile did not get to its end, the compiler was the npm package, or
\* the configuration gives the child another solc than its parent, or leaves
\* the child or what it imports out with contractsToCompile.
UploadsNamedCode ==
  \A p \in Procs : \A d \in missing[p] :
    d.file \notin doubtful[p] => artifact[d.file] = {d}

\* When the hook is done, all dependencies of the newest build info are on
\* the chain the tests use, whoever uploaded them; with the same exceptions,
\* and unless they were looked up on another chain.
HookUploadsNewestInfo ==
  \A p \in Procs :
    HookDone(p) /\ SubstrateChain(p) = {EthChain(p)} =>
      \A d \in named[p] :
        d.file \notin doubtful[p] => d \in deployed[EthChain(p)]

\* "Uploads factory dependencies (child contract bytecodes) if not already
\* deployed": after the hook the contracts the artifacts create are there.
DependenciesUploaded ==
  \A p \in Procs :
    HookDone(p) =>
      \A f \in Files : \A code \in artifact[f] : \A c \in Creates[f] :
        Code(c, code.sources, code.told) \in deployed[EthChain(p)]

\* Every command ends, whichever job fails; unless code is looked up at a port
\* where nobody answers.
EveryCommandEnds ==
  \A p \in Procs :
    (pc[p] # "idle" /\ Answers(p)) ~> (pc[p] = "idle" \/ ~Answers(p))
=============================================================================
