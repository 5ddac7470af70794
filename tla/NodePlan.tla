------------------------------ MODULE NodePlan ------------------------------
(***************************************************************************)
(* What a task of hardhat-polkadot-node decides before it starts anything: *)
(* from the user's network configuration to the flags of the child         *)
(* processes, the services that are launched, the ports they listen on,    *)
(* the ports polled for readiness and the port of the configured network.  *)
(*                                                                         *)
(* Entries: "test" (TASK_TEST), "node" (TASK_NODE_POLKADOT), "run" (script  *)
(* runner) and "wrap" (tasks wrapped by the global interceptor).           *)
(***************************************************************************)
EXTENDS Naturals

CONSTANTS
  Ports,             \* TCP ports of the host
  Unset,             \* an option the user left out
  NodeStartPort,     \* NODE_START_PORT
  AdapterStartPort   \* ETH_RPC_ADAPTER_START_PORT

ASSUME PortAssumption ==
  /\ Ports \subseteq Nat /\ Unset \notin Ports
  /\ {NodeStartPort, AdapterStartPort} \subseteq Ports
  /\ NodeStartPort # AdapterStartPort

Entries == {"test", "node", "run", "wrap"}

Services == {"substrate", "adapter", "chopsticks"}

MaybePort == Ports \cup {Unset}

\* networks.hardhat of the user's configuration; useAnvil is `!== false`, and
\* a forking that is there may be switched off (enabled: false).
Configs ==
  [useAnvil : BOOLEAN, nodeBinary : BOOLEAN, adapterBinary : BOOLEAN,
   docker : BOOLEAN, forking : {"none", "enabled", "disabled"},
   rpcPort : MaybePort, adapterPort : MaybePort]

-----------------------------------------------------------------------------

OrElse(port, default) == IF port = Unset THEN default ELSE port

\* What the tasks and constructCommandArgs ask, and what createRpcServer is
\* told: is forking there, and is it switched on?
HasForking(c) == c.forking # "none"
IsForking(c) == c.forking = "enabled"

\* TASK_TEST and TASK_NODE_POLKADOT: forking switches anvil off.
TaskUsesAnvil(c) == c.useAnvil /\ ~HasForking(c)

\* Where the port searches begin.
NodeSearchStart(c) == OrElse(c.rpcPort, NodeStartPort)

AdapterSearchStart(entry, c) ==
  IF entry = "test" THEN OrElse(c.adapterPort, AdapterStartPort)
                    ELSE OrElse(c.rpcPort, AdapterStartPort)

\* The arguments constructCommandArgs is called with.  startServer passes its
\* node port under the key `port`, which nobody reads, and drops the rest of
\* nodeConfig; TASK_NODE_POLKADOT does not search for free ports.
CommandsFor(entry, c, probed) ==
  CASE entry = "test" ->
         [anvil |-> TaskUsesAnvil(c), forking |-> HasForking(c),
          rpcPort |-> probed.node, adapterPort |-> probed.adapter]
    [] entry = "node" ->
         [anvil |-> TaskUsesAnvil(c), forking |-> HasForking(c),
          rpcPort |-> c.rpcPort, adapterPort |-> c.adapterPort]
    [] entry \in {"run", "wrap"} ->
         [anvil |-> ~HasForking(c), forking |-> HasForking(c),
          rpcPort |-> Unset, adapterPort |-> probed.adapter]

\* Mutant: the two ports are not compared.
AcceptsAllCommands(commands) == FALSE

\* constructCommandArgs throws "Adapter and node cannot share the same port."
RejectsCommands(commands) ==
  /\ ~commands.anvil
  /\ commands.adapterPort # Unset
  /\ commands.adapterPort = commands.rpcPort

\* Mutants: the adapter is told neither its own port nor the node's.
NoAdapterFlag(commands) == Unset
DefaultUpstreamFlag(commands) == NodeStartPort

\* The adapter's --rpc-port and the port in its --node-rpc-url.
AdapterFlag(commands) == commands.adapterPort
UpstreamFlag(commands) == OrElse(commands.rpcPort, NodeStartPort)

\* constructCommandArgs: the port flags of each command line (--rpc-port for
\* the node, --port for chopsticks, --rpc-port and --node-rpc-url for the
\* adapter).  In anvil mode there are none.
ConstructCommandArgs(commands) ==
  IF commands.anvil
  THEN [substrate |-> Unset, chopsticks |-> Unset, adapter |-> Unset,
        upstream |-> Unset]
  ELSE [substrate |-> IF commands.forking THEN Unset ELSE commands.rpcPort,
        chopsticks |-> IF commands.forking THEN commands.rpcPort ELSE Unset,
        adapter |-> AdapterFlag(commands), upstream |-> UpstreamFlag(commands)]

\* The options createRpcServer is called with.  startServer is never given a
\* nodePath, and the interceptor does not pass `docker`.
ServerOptions(entry, c) ==
  [useAnvil |-> IF entry \in {"test", "node"} THEN TaskUsesAnvil(c)
                                              ELSE c.useAnvil,
   nodePath |-> entry \in {"test", "node"} /\ c.nodeBinary,
   adapterPath |-> c.adapterBinary,
   docker |-> entry # "wrap" /\ c.docker,
   isForking |-> IsForking(c)]

\* listen(): the first combination that fits, in the order of the code.
ListenMode(o) ==
  CASE o.useAnvil /\ o.nodePath /\ ~o.isForking -> "anvilBinary"
    [] o.useAnvil /\ ~o.nodePath /\ ~o.isForking -> "anvilDocker"
    [] ~o.useAnvil /\ o.adapterPath /\ o.nodePath /\ ~o.isForking
         -> "legacyBinary"
    [] ~o.useAnvil /\ ~(o.adapterPath /\ o.nodePath) /\ o.docker
         /\ ~o.isForking -> "legacyDocker"
    [] o.isForking /\ o.adapterPath -> "forkBinary"
    [] o.isForking /\ ~o.adapterPath /\ o.docker -> "forkDocker"
    [] OTHER -> "invalid"

Launched(mode) ==
  CASE mode \in {"anvilBinary", "anvilDocker"} -> {"substrate"}
    [] mode \in {"legacyBinary", "legacyDocker"} -> {"substrate", "adapter"}
    [] mode \in {"forkBinary", "forkDocker"} -> {"chopsticks", "adapter"}
    [] mode = "invalid" -> {}

\* The services that run as containers with a fixed name.
Containers(mode) ==
  CASE mode \in {"anvilDocker", "legacyDocker"} -> Launched(mode)
    [] mode = "forkDocker" -> {"adapter"}
    [] OTHER -> {}

\* The port each service object takes from its flags, the port it listens on.
ServicePorts(args, useAnvil) ==
  [svc \in Services |->
     CASE svc = "substrate" ->
            OrElse(args.substrate,
                   IF useAnvil THEN AdapterStartPort ELSE NodeStartPort)
       [] svc = "chopsticks" -> OrElse(args.chopsticks, NodeStartPort)
       [] svc = "adapter" -> OrElse(args.adapter, AdapterStartPort)]

\* All of it.  upstream: the node the adapter connects to; pollAdapter: does
\* the task also wait for the adapter; network: the port the configured network
\* (or the script's environment) points to.
PlanOf(entry, c, probed) ==
  LET o == ServerOptions(entry, c)
      args == ConstructCommandArgs(CommandsFor(entry, c, probed))
      ports == ServicePorts(args, o.useAnvil)
  IN [mode |-> ListenMode(o),
      port |-> ports,
      upstream |-> CASE ListenMode(o) = "legacyDocker" -> ports["substrate"]
                     [] ListenMode(o) = "forkDocker" -> ports["chopsticks"]
                     [] OTHER -> args.upstream,
      pollAdapter |-> entry = "test" /\ ~TaskUsesAnvil(c),
      network |-> probed.adapter]
=============================================================================
