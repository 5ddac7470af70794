------------------------ MODULE MCFactoryDependencies ------------------------
(* Small instances of FactoryDependencies for TLC. *)
EXTENDS FactoryDependencies

CONSTANTS p1, p2

\* A contract, the contract it creates, and one that needs an older solc.
MCFiles == {"parent", "child", "old"}
MCImports ==
  [f \in MCFiles |-> IF f = "parent" THEN {"parent", "child"} ELSE {f}]
MCCreates == [f \in MCFiles |-> IF f = "parent" THEN {"child"} ELSE {}]
MCPragma == [f \in MCFiles |-> IF f = "old" THEN {820} ELSE {820, 828}]

\* Without the last one.
Pair == {"parent", "child"}
PairImports == [f \in Pair |-> MCImports[f]]
PairCreates == [f \in Pair |-> MCCreates[f]]
PairPragma == [f \in Pair |-> MCPragma[f]]

OneProc == {p1}
TwoProcs == {p1, p2}

\* polkadot: true and nothing else.
Plain ==
  [target |-> "pvm", compilers |-> {820, 828}, overrides |-> <<>>,
   source |-> "unset", version |-> "unset", optimizer |-> <<>>,
   binary |-> "unset", solcPath |-> 0, basePath |-> FALSE,
   allowPaths |-> FALSE, contracts |-> {}]

Evm == [Plain EXCEPT !.target = "evm"]
ChildOld == [Plain EXCEPT !.overrides = [f \in {"child"} |-> 820]]
ParentOnly == [Plain EXCEPT !.contracts = {"parent"}]
UnoptimizedParent == [ParentOnly EXCEPT !.optimizer = [enabled |-> FALSE]]
NpmTwice == [Plain EXCEPT !.source = "npm"]
Npm == [NpmTwice EXCEPT !.compilers = {828}]
NpmOverride == [Npm EXCEPT !.overrides = [f \in {"child"} |-> 820]]
NoBasePath == [Plain EXCEPT !.allowPaths = TRUE]
CustomBinary == [Plain EXCEPT !.binary = "0.5.0", !.solcPath = 830]

Test(u) ==
  [task |-> "test", user |-> u, noCompile |-> FALSE, force |-> FALSE,
   network |-> "hardhat", useAnvil |-> FALSE, polkadotUrl |-> FALSE,
   accounts |-> TRUE]

CompileOf(u) == [Test(u) EXCEPT !.task = "compile"]
Forced(u) == [CompileOf(u) EXCEPT !.force = TRUE]
TestAgain(u) == [Test(u) EXCEPT !.noCompile = TRUE]
Anvil(c) == [c EXCEPT !.useAnvil = TRUE]
OnHub(c) == [c EXCEPT !.network = "hub", !.polkadotUrl = TRUE]
OnDev(c) == [Anvil(c) EXCEPT !.network = "localhost"]

\* Of two processes, which may install another solc for each other.
MixedCommands ==
  {Test(Plain), Forced(Evm), Test(ParentOnly), CompileOf(Npm),
   OnDev(TestAgain(NpmOverride))}

\* Of one process; the child may need another compiler than its parent.
AloneCommands ==
  {Anvil(Test(Plain)), OnHub(Test(ChildOld)), CompileOf(UnoptimizedParent),
   CompileOf(CustomBinary), CompileOf(NoBasePath), CompileOf(NpmTwice),
   Anvil(OnHub(TestAgain(Plain))),
   [OnHub(TestAgain(Plain)) EXCEPT !.accounts = FALSE],
   [OnHub(TestAgain(Plain)) EXCEPT !.polkadotUrl = FALSE]}

\* Two build infos in one compile.
PlainTests == {Test(Plain)}

ProcSymmetry == Permutations(Procs)
=============================================================================
